------------------------------ MODULE HomiMail ------------------------------
(***************************************************************************)
(* The names and mailboxes of one fabric daemon (src/lib/homi.py).         *)
(*                                                                         *)
(* A name is claimed here (local) or stands for an agent of another device *)
(* (proxy).  The roster is kept in memory and in identities.json; claims,  *)
(* proxies and releases run under one lock, claim_mu.  A mailbox is a file *)
(* of lines and a cursor, the number of lines handed to a session.  Many   *)
(* threads store mail; one drain per name hands it over.                   *)
(*                                                                         *)
(* The daemon dies at any point.  Files survive; at the next start the     *)
(* names are loaded one by one while the control socket already answers.   *)
(***************************************************************************)
EXTENDS Naturals, Sequences, FiniteSets

CONSTANTS
    Names,          \* agent names
    Ids,            \* message ids; a sender may offer one again
    Handlers,       \* threads that take mail in
    SEEN_TAIL,      \* lines whose ids are remembered by a claim (200)
    MaxLines,       \* bound: lines of a mailbox
    MaxChanges,     \* bound: claims and proxies asked for
    MaxTroubles     \* bound: deaths of the daemon, hand-overs that fail late

ASSUME MailAssumption == SEEN_TAIL \in Nat \ {0} /\ MaxLines \in Nat

Kinds == {"none", "local", "proxy"}

VARIABLES
    ident,      \* name -> its kind in memory
    saved,      \* name -> its kind in identities.json
    parked,     \* names whose claim failed at start, kept for the next write
    mutex,      \* claim_mu: Free, or the claim, proxy or release in progress
    load,       \* the start: the names still to load, as the file had them
    stray,      \* NoWrite, or the roster a writer without claim_mu will write
    inbox,      \* name -> the ids of its lines
    cursor,     \* name -> lines handed over
    seen,       \* name -> ids that are taken for duplicates
    drain,      \* name -> NoDrain, or the hand-over in progress
    live,       \* name -> a session has the name now
    post,       \* handler -> the mail it is taking in
    handed,     \* name -> the lines written to a session, in order (history)
    unowned,      \* ids stored while nobody had the name, seeded (history)
    promised,   \* names whose claim was answered and not released (history)
    changes, troubles

roster == <<ident, saved, parked, mutex, load, stray, promised, changes>>
boxes == <<inbox, cursor, seen, drain, post, handed, unowned>>
vars == <<roster, boxes, live, troubles>>

Free == [step |-> "free"]
NoWrite == [n \in {} |-> "none"]
NoDrain == [upto |-> 0, at |-> 0, given |-> FALSE, gone |-> FALSE]
Idle == [step |-> "idle"]

Init ==
    /\ ident = [n \in Names |-> "none"] /\ saved = ident /\ parked = {}
    /\ mutex = Free /\ stray = NoWrite
    /\ load = [on |-> FALSE, todo |-> saved]
    /\ inbox = [n \in Names |-> <<>>] /\ cursor = [n \in Names |-> 0]
    /\ seen = [n \in Names |-> {}] /\ drain = [n \in Names |-> NoDrain]
    /\ live = [n \in Names |-> FALSE] /\ post = [h \in Handlers |-> Idle]
    /\ handed = [n \in Names |-> <<>>] /\ unowned = {} /\ promised = {}
    /\ changes = 0 /\ troubles = 0

-----------------------------------------------------------------------------
(* The roster and its file. *)

\* What a write of identities.json would say: a name that is served hides its
\* parked record.
Roster(kinds, kept) ==
    [n \in Names |-> IF kinds[n] = "none" /\ n \in kept THEN "local" ELSE kinds[n]]

Unserved(kinds, kept) == {n \in kept : kinds[n] = "none"}

Loaded(n) == [load EXCEPT !.todo[n] = "none"]

\* claim_mu is taken for name n by "control" or by the start.  A claim
\* outranks a proxy, which is released, and the release is written, first.
ClaimStart(n, by) ==
    /\ mutex = Free /\ ident[n] # "local"
    /\ mutex' = [step |-> "bind", name |-> n, to |-> "local", by |-> by]
    /\ ident' = [ident EXCEPT ![n] = "none"]
    /\ IF ident[n] = "proxy"
       THEN /\ parked' = Unserved(ident', parked \ {n})
            /\ saved' = Roster(ident', parked')
       ELSE UNCHANGED <<parked, saved>>

\* Mail from n of another device, or the record of such a sender.
ProxyStart(n, by) ==
    /\ mutex = Free /\ ident[n] = "none"
    /\ mutex' = [step |-> "bind", name |-> n, to |-> "proxy", by |-> by]
    /\ UNCHANGED <<ident, parked, saved>>

Claim(n) ==
    /\ ClaimStart(n, "control") /\ changes < MaxChanges /\ changes' = changes + 1
    /\ UNCHANGED <<load, stray, promised, boxes, live, troubles>>

\* Links are up only after the start.
Proxy(n) ==
    /\ ~load.on
    /\ ProxyStart(n, "control") /\ changes < MaxChanges /\ changes' = changes + 1
    /\ UNCHANGED <<load, stray, promised, boxes, live, troubles>>

\* The name is served from here on; a claim has yet to learn the ids of its mail.
Bind ==
    /\ mutex.step = "bind"
    /\ ident' = [ident EXCEPT ![mutex.name] = mutex.to]
    /\ mutex' = [mutex EXCEPT !.step = IF mutex.to = "local" THEN "seed" ELSE "persist"]
    /\ UNCHANGED <<saved, parked, load, stray, promised, changes, boxes, live, troubles>>

\* The socket cannot be bound.  At the start a claim is parked, a proxy forgotten.
BindFails ==
    /\ mutex.step = "bind"
    /\ mutex' = Free
    /\ IF mutex.by = "load"
       THEN /\ load' = Loaded(mutex.name)
            /\ parked' = IF mutex.to = "local" THEN parked \cup {mutex.name} ELSE parked
       ELSE UNCHANGED <<load, parked>>
    /\ UNCHANGED <<ident, saved, stray, promised, changes, boxes, live, troubles>>

\* Mutant: a claim starts without any id.
TailIdsNone(n) == {}

\* The ids of the last SEEN_TAIL lines.
TailIds(n) ==
    {inbox[n][i] : i \in {j \in 1..Len(inbox[n]) : j + SEEN_TAIL > Len(inbox[n])}}

\* _seed_seen reads the file and then assigns the set, without mail_mu.
SeedRead ==
    /\ mutex.step = "seed"
    /\ mutex' = [step |-> "assign", name |-> mutex.name, to |-> mutex.to, by |-> mutex.by,
                 ids |-> TailIds(mutex.name)]
    /\ UNCHANGED <<ident, saved, parked, load, stray, promised, changes, boxes, live, troubles>>

SeedAssign ==
    /\ mutex.step = "assign"
    /\ seen' = [seen EXCEPT ![mutex.name] = mutex.ids]
    /\ mutex' = [step |-> "persist", name |-> mutex.name, to |-> mutex.to, by |-> mutex.by]
    /\ UNCHANGED <<ident, saved, parked, load, stray, promised, changes,
                   inbox, cursor, drain, post, handed, unowned, live, troubles>>

\* The file is written and the operation answered; kinds change only under
\* claim_mu, so what is written is the roster of now.
Persist ==
    /\ mutex.step = "persist"
    /\ mutex' = Free
    /\ parked' = Unserved(ident, parked)
    /\ saved' = Roster(ident, parked')
    /\ promised' = IF mutex.to = "local" /\ mutex.by = "control"
                   THEN promised \cup {mutex.name} ELSE promised
    /\ load' = IF mutex.by = "load" THEN Loaded(mutex.name) ELSE load
    /\ UNCHANGED <<ident, stray, changes, boxes, live, troubles>>

Release(n) ==
    /\ mutex = Free
    /\ ident[n] # "none" \/ n \in parked
    /\ ident' = [ident EXCEPT ![n] = "none"]
    /\ parked' = parked \ {n}
    /\ promised' = promised \ {n}
    /\ mutex' = [step |-> "persist", name |-> n, to |-> "none", by |-> "control"]
    /\ UNCHANGED <<saved, load, stray, changes, boxes, live, troubles>>

\* A seat is bound, a card written, an agent spawned: the roster is copied
\* under mu and written without claim_mu.  What changes in it is not modelled.
CopyRoster ==
    /\ stray = NoWrite
    /\ \E n \in Names : ident[n] = "local"
    /\ stray' = Roster(ident, parked)
    /\ parked' = Unserved(ident, parked)
    /\ UNCHANGED <<ident, saved, mutex, load, promised, changes, boxes, live, troubles>>

WriteRoster ==
    /\ stray # NoWrite
    /\ saved' = stray /\ stray' = NoWrite
    /\ UNCHANGED <<ident, parked, mutex, load, promised, changes, boxes, live, troubles>>

-----------------------------------------------------------------------------
(* Death and start. *)

\* Threads and memory are gone, files and sessions stay.
Crash ==
    /\ troubles < MaxTroubles
    /\ troubles' = troubles + 1
    /\ ident' = [n \in Names |-> "none"] /\ parked' = {}
    /\ mutex' = Free /\ stray' = NoWrite
    /\ load' = [on |-> TRUE, todo |-> saved]
    /\ seen' = [n \in Names |-> {}]
    /\ drain' = [n \in Names |-> NoDrain]
    /\ post' = [h \in Handlers |-> Idle]
    /\ UNCHANGED <<saved, promised, changes, inbox, cursor, handed, unowned, live>>

\* Every name of the file is claimed, or made a proxy, in the ordinary way:
\* each writes the file with the names loaded so far.
LoadName(n) ==
    /\ load.on /\ load.todo[n] # "none"
    /\ \/ load.todo[n] = "local" /\ ClaimStart(n, "load") /\ UNCHANGED load
       \/ load.todo[n] = "proxy" /\ ProxyStart(n, "load") /\ UNCHANGED load
       \/ /\ mutex = Free
          /\ ident[n] = "local" \/ (load.todo[n] = "proxy" /\ ident[n] # "none")
          /\ load' = Loaded(n)
          /\ UNCHANGED <<ident, parked, saved, mutex>>
    /\ UNCHANGED <<stray, promised, changes, boxes, live, troubles>>

\* The last write of the start, without claim_mu; then the loops run.
LoadEnd ==
    /\ load.on /\ (\A n \in Names : load.todo[n] = "none") /\ stray = NoWrite
    /\ load' = [load EXCEPT !.on = FALSE]
    /\ parked' = Unserved(ident, parked)
    /\ stray' = Roster(ident, parked)
    /\ UNCHANGED <<ident, saved, mutex, promised, changes, boxes, live, troubles>>

-----------------------------------------------------------------------------
(* Mail comes in. *)

\* A connection on the socket of a name, which may be released before the
\* thread asks for its kind.
Accept(h, n, id) ==
    /\ post[h] = Idle /\ ident[n] # "none"
    /\ post' = [post EXCEPT ![h] = [step |-> "read", name |-> n, id |-> id]]
    /\ UNCHANGED <<roster, inbox, cursor, seen, drain, handed, unowned, live, troubles>>

\* Mail of a proxy goes to the link's queue; a name that is gone counts as local.
ReadKind(h) ==
    /\ post[h].step = "read"
    /\ post' = [post EXCEPT ![h] = IF ident[post[h].name] = "proxy"
                                   THEN Idle ELSE [post[h] EXCEPT !.step = "store"]]
    /\ UNCHANGED <<roster, inbox, cursor, seen, drain, handed, unowned, live, troubles>>

\* A control request reads the kind at once, and refuses a name that is gone.
ControlSend(h, n, id) ==
    /\ post[h] = Idle /\ ident[n] = "local"
    /\ post' = [post EXCEPT ![h] = [step |-> "store", name |-> n, id |-> id]]
    /\ UNCHANGED <<roster, inbox, cursor, seen, drain, handed, unowned, live, troubles>>

Seeding(n) == mutex.step \in {"seed", "assign"} /\ mutex.name = n

\* The line is durable before anybody is told of it.  A duplicate ends here.
Store(h) ==
    /\ post[h].step = "store"
    /\ LET n == post[h].name
           id == post[h].id
       IN  \/ /\ id \in seen[n]
              /\ post' = [post EXCEPT ![h] = Idle]
              /\ UNCHANGED <<inbox, seen, unowned>>
           \/ /\ id \notin seen[n] /\ Len(inbox[n]) < MaxLines
              /\ inbox' = [inbox EXCEPT ![n] = Append(@, id)]
              /\ seen' = [seen EXCEPT ![n] = @ \cup {id}]
              /\ post' = [post EXCEPT ![h].step = "wake"]
              /\ unowned' = IF ident[n] # "local" \/ Seeding(n)
                            THEN unowned \cup {id} ELSE unowned
    /\ UNCHANGED <<roster, cursor, drain, handed, live, troubles>>

-----------------------------------------------------------------------------
(* Mail goes out: one drain per name, over the lines there are at its start. *)

\* Mutant: a drain starts although one is in flight.
CanDrainAlways(n) == TRUE

CanDrain(n) == drain[n] = NoDrain

StartDrain(n) ==
    IF CanDrain(n) /\ live[n] /\ cursor[n] < Len(inbox[n])
    THEN drain' = [drain EXCEPT ![n] = [upto |-> Len(inbox[n]), at |-> cursor[n] + 1,
                                        given |-> FALSE, gone |-> FALSE]]
    ELSE UNCHANGED drain

\* The thread that stored a line tries to hand it over, once.
Wake(h) ==
    /\ post[h].step = "wake"
    /\ StartDrain(post[h].name)
    /\ post' = [post EXCEPT ![h] = Idle]
    /\ UNCHANGED <<roster, inbox, cursor, seen, handed, unowned, live, troubles>>

\* Mutant: the reconciler only steps aside.
TickIdly(n) == FALSE /\ UNCHANGED vars

\* reconcile, for a name that a session has.
Tick(n) ==
    /\ ~load.on /\ ident[n] = "local" /\ live[n]
    /\ StartDrain(n)
    /\ UNCHANGED <<roster, inbox, cursor, seen, post, handed, unowned, live, troubles>>

Draining(n) == drain[n] # NoDrain

\* A line is written to the session's socket.
Handover(n) ==
    /\ Draining(n) /\ ~drain[n].given /\ ~drain[n].gone
    /\ handed' = [handed EXCEPT ![n] = Append(@, drain[n].at)]
    /\ drain' = [drain EXCEPT ![n].given = TRUE]
    /\ UNCHANGED <<roster, inbox, cursor, seen, post, unowned, live, troubles>>

\* The write fails, before or after the session has the line: hold the rest.
HandoverFails(n) ==
    /\ Draining(n) /\ ~drain[n].given
    /\ \/ drain[n].gone /\ UNCHANGED <<handed, troubles>>
       \/ /\ ~drain[n].gone /\ troubles < MaxTroubles
          /\ troubles' = troubles + 1
          /\ handed' = [handed EXCEPT ![n] = Append(@, drain[n].at)]
    /\ drain' = [drain EXCEPT ![n] = NoDrain]
    /\ UNCHANGED <<roster, inbox, cursor, seen, post, unowned, live>>

\* Mutant: the cursor is moved past all lines of the drain.
ReachedAll(n) == drain[n].upto

\* The lines that a hand-over of the line in hand accounts for.
Reached(n) == drain[n].at

Advance(n) ==
    /\ Draining(n) /\ drain[n].given
    /\ cursor' = [cursor EXCEPT ![n] = IF Reached(n) > @ THEN Reached(n) ELSE @]
    /\ drain' = [drain EXCEPT ![n] =
                    IF @.at = @.upto THEN NoDrain
                    ELSE [upto |-> @.upto, at |-> @.at + 1, given |-> FALSE, gone |-> @.gone]]
    /\ UNCHANGED <<roster, inbox, seen, post, handed, unowned, live, troubles>>

\* Sessions come and go; a drain keeps the socket it began with.
SessionStarts(n) ==
    /\ ~live[n] /\ live' = [live EXCEPT ![n] = TRUE]
    /\ UNCHANGED <<roster, boxes, troubles>>

SessionEnds(n) ==
    /\ live[n] /\ live' = [live EXCEPT ![n] = FALSE]
    /\ drain' = IF Draining(n) THEN [drain EXCEPT ![n].gone = TRUE] ELSE drain
    /\ UNCHANGED <<roster, inbox, cursor, seen, post, handed, unowned, troubles>>

-----------------------------------------------------------------------------
ClaimSteps == Bind \/ SeedRead \/ SeedAssign \/ Persist
LoadSteps == LoadEnd \/ \E n \in Names : LoadName(n)
PostSteps(h) == ReadKind(h) \/ Store(h) \/ Wake(h)
DrainSteps(n) == Handover(n) \/ HandoverFails(n) \/ Advance(n)

Next ==
    \/ ClaimSteps \/ BindFails \/ CopyRoster \/ WriteRoster \/ Crash \/ LoadSteps
    \/ \E n \in Names : Claim(n) \/ Proxy(n) \/ Release(n) \/ Tick(n) \/ DrainSteps(n)
                        \/ SessionStarts(n) \/ SessionEnds(n)
    \/ \E h \in Handlers : PostSteps(h)
    \/ \E h \in Handlers, n \in Names, id \in Ids : Accept(h, n, id) \/ ControlSend(h, n, id)

Spec == Init /\ [][Next]_vars

\* Threads that have work get to do it, the start goes on, the reconciler
\* runs every two seconds.  The start is strongly fair because it takes turns
\* with requests: for the lock, and here for the one roster being written.
\* Senders, owners and sessions owe nothing.
Fairness ==
    /\ WF_vars(ClaimSteps) /\ SF_vars(LoadSteps) /\ WF_vars(WriteRoster)
    /\ \A h \in Handlers : WF_vars(PostSteps(h))
    /\ \A n \in Names : WF_vars(Tick(n)) /\ WF_vars(DrainSteps(n))

FairSpec == Spec /\ Fairness

-----------------------------------------------------------------------------
(* Properties. *)

\* The state is of the right shape, and no cursor or drain is beyond its file.
TypeOK ==
    /\ ident \in [Names -> Kinds] /\ saved \in [Names -> Kinds] /\ parked \subseteq Names
    /\ mutex.step \in {"free", "bind", "seed", "assign", "persist"}
    /\ load.todo \in [Names -> Kinds] /\ seen \in [Names -> SUBSET Ids]
    /\ unowned \subseteq Ids /\ promised \subseteq Names
    /\ \A n \in Names :
          /\ cursor[n] <= Len(inbox[n]) /\ Len(inbox[n]) <= MaxLines
          /\ Draining(n) => drain[n].at \in 1..drain[n].upto /\ drain[n].upto <= Len(inbox[n])
    /\ \A h \in Handlers : post[h].step \in {"idle", "read", "store", "wake"}

LastHanded(n) == IF handed[n] = <<>> THEN 0 ELSE handed[n][Len(handed[n])]

\* The cursor is the last line a session was given, or the one before it while
\* that write is pending or was lost: no line is passed over unseen, whoever
\* drains, dies or is restarted (_deliver_pending: the cursor "advances only
\* after a successful socket write").
CursorTellsTheTruth ==
    \A n \in Names : LastHanded(n) - cursor[n] \in {0, 1}

Repeats(n) == {k \in 1..(Len(handed[n]) - 1) : handed[n][k + 1] = handed[n][k]}

\* A session sees the lines in file order without a gap; only the line handed
\* over last can come again, and every repetition has a death or a failed write
\* of its own, although four kinds of thread race to drain.
InOrderOncePerTrouble ==
    \A n \in Names :
        /\ \A k \in 1..(Len(handed[n]) - 1) : handed[n][k + 1] - handed[n][k] \in {0, 1}
        /\ handed[n] # <<>> => handed[n][1] = 1
        /\ Cardinality(Repeats(n)) <= troubles

\* A message id fills two lines only if more than SEEN_TAIL lines lie between
\* its offers, or if one was stored while the name had no owner whose claim was
\* complete: between the bind and the seeding, or after a release.
StoredOnce ==
    \A n \in Names : \A i, j \in 1..Len(inbox[n]) :
        i < j /\ inbox[n][i] = inbox[n][j] => j - i > SEEN_TAIL \/ inbox[n][i] \in unowned

\* Mail of a claimed name is handed over, also when the thread that stored it
\* found a drain in flight that had not read it, once a session stays.
MailReachesSession ==
    \A n \in Names :
        <>[](live[n] /\ ident[n] = "local") => <>[](cursor[n] = Len(inbox[n]))

\* A claim that was answered survives a restart of the daemon
\* ("claim survives restart", scripts/test-homi-core.sh).
ClaimSurvivesRestart ==
    ~load.on /\ mutex = Free => \A n \in promised : ident[n] = "local" \/ n \in parked
=============================================================================
