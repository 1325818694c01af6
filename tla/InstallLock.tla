----------------------------- MODULE InstallLock -----------------------------
(***************************************************************************)
(* The installation lock of communicate: the directory install.lock, made  *)
(* with mkdir, with the owner's token written into it, and removed in a    *)
(* finally block (withInstallLock, lifecycle.mjs).  A killed installer     *)
(* leaves it; nothing but an operator, who renames it, takes it away then. *)
(* Every process runs one command.  A directory is known by its inode; a   *)
(* renamed directory keeps its inode.                                      *)
(***************************************************************************)
CONSTANTS Proc,      \* installer processes
          Inode,     \* identities of directories
          Free,      \* no lock directory at the path
          Nobody,    \* no owner.json in the directory yet
          NoInode,   \* no directory made yet
          Careful    \* whether the operator makes sure that no installer runs

ASSUME LockAssumption == /\ Nobody \notin Proc
                         /\ NoInode \notin Inode
                         /\ \A i \in Inode, q \in Proc \cup {Nobody} :
                               [ino |-> i, owner |-> q] # Free
                         /\ Careful \in BOOLEAN

VARIABLES lock,      \* what is at the path: Free or [ino, owner]
          aside,     \* inodes of the directories that were renamed
          at,        \* where each process is in withInstallLock
          mine,      \* the inode each process read after its mkdir
          recorded   \* whether a process has written its owner.json

lockVars == <<lock, aside, at, mine, recorded>>

Live == {"made", "in", "leave"}

LockInit == /\ lock = Free /\ aside = {}
            /\ at = [p \in Proc |-> "new"]
            /\ mine = [p \in Proc |-> NoInode]
            /\ recorded = [p \in Proc |-> FALSE]

\* Mutant: mkdir succeeds on a directory that exists.
MakeRecursive(p) ==
    /\ at[p] = "new"
    /\ \E i \in IF lock = Free THEN Inode \ aside ELSE {lock.ino} :
          /\ lock' = [ino |-> i, owner |-> Nobody] /\ mine' = [mine EXCEPT ![p] = i]
    /\ at' = [at EXCEPT ![p] = "made"]
    /\ UNCHANGED <<aside, recorded>>
Make(p) == \* mkdirSync(lock), statSync(lock)
    /\ at[p] = "new" /\ lock = Free
    /\ \E i \in Inode \ aside : /\ lock' = [ino |-> i, owner |-> Nobody]
                                /\ mine' = [mine EXCEPT ![p] = i]
    /\ at' = [at EXCEPT ![p] = "made"]
    /\ UNCHANGED <<aside, recorded>>

Refuse(p) == \* EEXIST, or the command never gets as far as the lock
    /\ at[p] = "new" /\ at' = [at EXCEPT ![p] = "gone"]
    /\ UNCHANGED <<lock, aside, mine, recorded>>

\* owner.json is written by path, with flag wx: it fails when the directory
\* was renamed and when another owner.json is there.
Record(p) ==
    /\ at[p] = "made" /\ lock # Free /\ lock.owner = Nobody
    /\ lock' = [ino |-> lock.ino, owner |-> p]
    /\ at' = [at EXCEPT ![p] = "in"]
    /\ recorded' = [recorded EXCEPT ![p] = TRUE]
    /\ UNCHANGED <<aside, mine>>

RecordFails(p) ==
    /\ at[p] = "made" /\ at' = [at EXCEPT ![p] = "leave"]
    /\ UNCHANGED <<lock, aside, mine, recorded>>

Finish(p) == \* action() returned or threw
    /\ at[p] = "in" /\ at' = [at EXCEPT ![p] = "leave"]
    /\ UNCHANGED <<lock, aside, mine, recorded>>

\* The finally block: remove the directory at the path only when it is the one
\* this process made and, if it wrote an owner.json, that one is inside.
Removes(p) == /\ lock # Free /\ lock.ino = mine[p]
              /\ recorded[p] => lock.owner = p

Leave(p) ==
    /\ at[p] = "leave" /\ at' = [at EXCEPT ![p] = "gone"]
    /\ lock' = IF Removes(p) THEN Free ELSE lock
    /\ UNCHANGED <<aside, mine, recorded>>

Die(p) ==
    /\ at[p] \in Live /\ at' = [at EXCEPT ![p] = "dead"]
    /\ UNCHANGED <<lock, aside, mine, recorded>>

SetAside == \* the operator renames the directory
    /\ lock # Free
    /\ Careful => \A p \in Proc : at[p] \notin Live
    /\ lock' = Free /\ aside' = aside \cup {lock.ino}
    /\ UNCHANGED <<at, mine, recorded>>

LockNext == \/ \E p \in Proc : \/ Make(p) \/ Refuse(p) \/ Record(p) \/ RecordFails(p)
                               \/ Finish(p) \/ Leave(p) \/ Die(p)
            \/ SetAside

LockSpec == LockInit /\ [][LockNext]_lockVars
-----------------------------------------------------------------------------
LockTypeOK == /\ lock \in {Free} \cup [ino : Inode, owner : Proc \cup {Nobody}]
              /\ aside \subseteq Inode
              /\ at \in [Proc -> {"new", "made", "in", "leave", "gone", "dead"}]
              /\ mine \in [Proc -> Inode \cup {NoInode}] /\ recorded \in [Proc -> BOOLEAN]

(* Two installers never work at the same time, however many are started,   *)
(* fail or are killed, as long as the operator renames dead locks only.    *)
MutualExclusion == Careful => \A p, q \in Proc : at[p] \in Live /\ at[q] \in Live => p = q

(* A directory at the path that is not the process's own is left alone     *)
(* when the process leaves, even if the operator renamed a live lock and   *)
(* another installer has made a new one (lifecycle.mjs:103-104).           *)
Holds(p) == at[p] \in Live /\ lock # Free /\ lock.ino = mine[p]
OnlyItsOwn ==
    [][\A p, q \in Proc : Leave(p) /\ p # q /\ Holds(q) => lock' = lock]_lockVars
=============================================================================
