--------------------------- MODULE HomiMailProofs ---------------------------
(***************************************************************************)
(* What a daemon promises of its mailboxes, for any names, ids, handlers   *)
(* and sizes, and any number of deaths and failed writes.                  *)
(*                                                                         *)
(* Two arguments.  For mail that goes out: the line in hand is the one     *)
(* behind the cursor, so a write either moves the sessions' view by one    *)
(* line or repeats the last line, and a line is only in doubt if a death   *)
(* or a failed write left it so.  For mail that comes in: once a claim is  *)
(* complete, the ids of the tail are remembered or were stored while the   *)
(* name had no owner.                                                      *)
(***************************************************************************)
EXTENDS HomiMail, FiniteSetTheorems, TLAPS

Owners == {"control", "load"}
Mutexes ==
    {Free} \cup [step : {"bind", "seed", "persist"}, name : Names, to : Kinds, by : Owners]
           \cup [step : {"assign"}, name : Names, to : Kinds, by : Owners, ids : SUBSET Ids]
Posts == {Idle} \cup [step : {"read", "store", "wake"}, name : Names, id : Ids]
Drains == [upto : Nat, at : Nat, given : BOOLEAN, gone : BOOLEAN]
KindMaps == [Names -> Kinds]

RosterTypes ==
    /\ ident \in KindMaps /\ saved \in KindMaps /\ parked \subseteq Names
    /\ mutex \in Mutexes /\ load \in [on : BOOLEAN, todo : KindMaps]
    /\ stray \in KindMaps \cup {NoWrite} /\ promised \subseteq Names

BoxTypes ==
    /\ inbox \in [Names -> Seq(Ids)] /\ cursor \in [Names -> Nat]
    /\ seen \in [Names -> SUBSET Ids] /\ drain \in [Names -> Drains]
    /\ post \in [Handlers -> Posts] /\ handed \in [Names -> Seq(Nat)]
    /\ unowned \subseteq Ids /\ live \in [Names -> BOOLEAN] /\ troubles \in Nat

MailTypes == RosterTypes /\ BoxTypes

-----------------------------------------------------------------------------
(* Mail that goes out. *)

\* What the sessions of a name were handed, read off its history.
LastOf(s) == IF s = <<>> THEN 0 ELSE s[Len(s)]
RepeatsOf(s) == {k \in 1..(Len(s) - 1) : s[k + 1] = s[k]}
Consecutive(s) ==
    /\ s # <<>> => s[1] = 1
    /\ \A k \in 1..(Len(s) - 1) : s[k + 1] - s[k] \in {0, 1}

\* The line in hand follows the cursor, and the file has it.
LineInHand(at, lines, d) ==
    /\ at <= lines /\ lines <= MaxLines
    /\ d # NoDrain => d.at = at + 1 /\ d.at <= d.upto /\ d.upto <= lines

\* The last line handed over is that of the cursor, or the one behind it.
Told(at, d, s) == LastOf(s) \in {at, at + 1} /\ (d.given => LastOf(s) = at + 1)

\* A line was handed over and its hand-over is not recorded and never will be.
Doubts(at, d, s) == IF LastOf(s) = at + 1 /\ ~d.given THEN 1 ELSE 0

\* Every repetition, and every line that will be repeated, has its trouble.
Accounted(at, d, s, t) == Cardinality(RepeatsOf(s)) + Doubts(at, d, s) <= t

Outgoing(at, lines, d, s, t) ==
    LineInHand(at, lines, d) /\ Told(at, d, s) /\ Consecutive(s) /\ Accounted(at, d, s, t)

OutOf(n) == Outgoing(cursor[n], Len(inbox[n]), drain[n], handed[n], troubles)

-----------------------------------------------------------------------------
(* Mail that comes in. *)

\* A complete claim remembers the tail, except what was stored unowned.
Remembered(n) == ident[n] = "local" /\ ~Seeding(n) => TailIds(n) \subseteq seen[n] \cup unowned

\* What a claim has read is still all of the tail, with the same exception.
ReadIsTail == mutex.step = "assign" => TailIds(mutex.name) \subseteq mutex.ids \cup unowned

OnceIn(s, exempt) ==
    \A i, j \in 1..Len(s) : i < j /\ s[i] = s[j] => j - i > SEEN_TAIL \/ s[i] \in exempt

Into(n) == Remembered(n) /\ OnceIn(inbox[n], unowned)

MailInv == MailTypes /\ (\A n \in Names : OutOf(n)) /\ (\A n \in Names : Into(n))
           /\ ReadIsTail

-----------------------------------------------------------------------------
(* Types. *)

LEMMA RosterIsKinds ==
    ASSUME NEW kinds \in KindMaps, NEW kept PROVE Roster(kinds, kept) \in KindMaps
  BY DEF KindMaps, Kinds, Roster

LEMMA LoadedType ==
    ASSUME RosterTypes, NEW n \in Names PROVE Loaded(n) \in [on : BOOLEAN, todo : KindMaps]
  BY DEF RosterTypes, Loaded, KindMaps, Kinds

LEMMA MutexCases ==
    ASSUME RosterTypes, mutex.step # "free"
    PROVE  /\ mutex.name \in Names /\ mutex.to \in Kinds /\ mutex.by \in Owners
           /\ mutex.step # "assign" => mutex \in [step : {"bind", "seed", "persist"}, name : Names,
                                                  to : Kinds, by : Owners]
           /\ mutex.step = "assign" => mutex.ids \in SUBSET Ids
  BY DEF RosterTypes, Mutexes, Free

LEMMA ClaimStartTypes ==
    ASSUME RosterTypes, NEW n \in Names, NEW by \in Owners, ClaimStart(n, by)
    PROVE  ident' \in KindMaps /\ saved' \in KindMaps /\ parked' \subseteq Names /\ mutex' \in Mutexes
<1>1. ident' \in KindMaps
  BY DEF ClaimStart, RosterTypes, KindMaps, Kinds
<1>2. mutex' \in Mutexes
  BY DEF ClaimStart, Mutexes, Kinds
<1>3. saved' \in KindMaps /\ parked' \subseteq Names
  BY <1>1, RosterIsKinds DEF ClaimStart, RosterTypes, Unserved
<1> QED
  BY <1>1, <1>2, <1>3

LEMMA ProxyStartTypes ==
    ASSUME RosterTypes, NEW n \in Names, NEW by \in Owners, ProxyStart(n, by)
    PROVE  ident' \in KindMaps /\ saved' \in KindMaps /\ parked' \subseteq Names /\ mutex' \in Mutexes
  BY DEF ProxyStart, RosterTypes, Mutexes, Kinds

LEMMA TailTypes == ASSUME MailTypes, NEW n \in Names PROVE TailIds(n) \subseteq Ids
<1>1. inbox[n] \in Seq(Ids)
  BY DEF MailTypes, BoxTypes
<1> QED
  BY <1>1 DEF TailIds

LEMMA RosterTypesStep == MailTypes /\ [Next]_vars => RosterTypes'
<1> SUFFICES ASSUME MailTypes, RosterTypes, [Next]_vars PROVE RosterTypes'
  BY DEF MailTypes
<1> USE DEF RosterTypes
<1>1. CASE Bind
  <2>1. ident' \in KindMaps
    BY <1>1, MutexCases DEF Bind, KindMaps
  <2>2. mutex' \in Mutexes
    BY <1>1, MutexCases DEF Bind, Mutexes
  <2> QED
    BY <1>1, <2>1, <2>2 DEF Bind
<1>2. CASE BindFails
  <2>1. mutex.name \in Names /\ mutex' \in Mutexes
    BY <1>2, MutexCases DEF BindFails, Mutexes
  <2>2. load' \in [on : BOOLEAN, todo : KindMaps] /\ parked' \subseteq Names
    BY <1>2, <2>1, LoadedType DEF BindFails
  <2> QED
    BY <1>2, <2>1, <2>2 DEF BindFails
<1>3. CASE SeedRead
  <2>1. TailIds(mutex.name) \subseteq Ids
    BY <1>3, MutexCases, TailTypes DEF SeedRead
  <2> QED
    BY <1>3, <2>1, MutexCases DEF SeedRead, Mutexes
<1>4. CASE SeedAssign
  BY <1>4, MutexCases DEF SeedAssign, Mutexes
<1>5. CASE Persist
  <2>1. mutex.name \in Names /\ mutex' \in Mutexes
    BY <1>5, MutexCases DEF Persist, Mutexes
  <2>2. load' \in [on : BOOLEAN, todo : KindMaps]
    BY <1>5, <2>1, LoadedType DEF Persist
  <2>3. parked' \subseteq Names /\ saved' \in KindMaps /\ promised' \subseteq Names
    BY <1>5, <2>1, RosterIsKinds DEF Persist, Unserved
  <2> QED
    BY <1>5, <2>1, <2>2, <2>3 DEF Persist
<1>6. CASE CopyRoster \/ LoadEnd
  <2>1. stray' \in KindMaps /\ parked' \subseteq Names
    BY <1>6, RosterIsKinds DEF CopyRoster, LoadEnd, Unserved
  <2>2. load' \in [on : BOOLEAN, todo : KindMaps]
    BY <1>6 DEF CopyRoster, LoadEnd
  <2> QED
    BY <1>6, <2>1, <2>2 DEF CopyRoster, LoadEnd
<1>7. CASE WriteRoster
  BY <1>7 DEF WriteRoster
<1>8. CASE Crash
  BY <1>8 DEF Crash, KindMaps, Kinds, Mutexes
<1>9. ASSUME NEW n \in Names, LoadName(n) PROVE RosterTypes'
  <2>1. "load" \in Owners
    BY DEF Owners
  <2>2. ident' \in KindMaps /\ saved' \in KindMaps /\ parked' \subseteq Names /\ mutex' \in Mutexes
    BY <1>9, <2>1, ClaimStartTypes, ProxyStartTypes DEF LoadName
  <2>3. load' \in [on : BOOLEAN, todo : KindMaps]
    BY <1>9, LoadedType DEF LoadName
  <2> QED
    BY <1>9, <2>2, <2>3 DEF LoadName
<1>10. ASSUME NEW n \in Names, Claim(n) \/ Proxy(n) PROVE RosterTypes'
  <2>1. "control" \in Owners
    BY DEF Owners
  <2>2. ident' \in KindMaps /\ saved' \in KindMaps /\ parked' \subseteq Names /\ mutex' \in Mutexes
    BY <1>10, <2>1, ClaimStartTypes, ProxyStartTypes DEF Claim, Proxy
  <2> QED
    BY <1>10, <2>2 DEF Claim, Proxy
<1>11. ASSUME NEW n \in Names, Release(n) PROVE RosterTypes'
  BY <1>11 DEF Release, KindMaps, Kinds, Mutexes, Owners
<1>12. CASE UNCHANGED roster
  BY <1>12 DEF roster
<1>13. ASSUME NEW n \in Names, Tick(n) \/ DrainSteps(n) \/ SessionStarts(n) \/ SessionEnds(n)
      PROVE UNCHANGED roster
  BY <1>13 DEF Tick, DrainSteps, Handover, HandoverFails, Advance, SessionStarts, SessionEnds
<1>14. ASSUME NEW h \in Handlers, PostSteps(h) PROVE UNCHANGED roster
  BY <1>14 DEF PostSteps, ReadKind, Store, Wake
<1>15. ASSUME NEW h \in Handlers, NEW n \in Names, NEW id \in Ids, Accept(h, n, id) \/ ControlSend(h, n, id)
      PROVE UNCHANGED roster
  BY <1>15 DEF Accept, ControlSend
<1> QED
  BY <1>1, <1>2, <1>3, <1>4, <1>5, <1>6, <1>7, <1>8, <1>9, <1>10, <1>11, <1>12, <1>13, <1>14, <1>15
     DEF Next, ClaimSteps, LoadSteps, vars

LEMMA PostCases ==
    ASSUME BoxTypes, NEW h \in Handlers, post[h].step # "idle"
    PROVE  /\ post[h].name \in Names /\ post[h].id \in Ids
           /\ post[h] \in [step : {"read", "store", "wake"}, name : Names, id : Ids]
  BY DEF BoxTypes, Posts, Idle

LEMMA StartDrainType ==
    ASSUME BoxTypes, NEW n \in Names, StartDrain(n) PROVE drain' \in [Names -> Drains]
<1>1. inbox[n] \in Seq(Ids) /\ Len(inbox[n]) \in Nat /\ cursor[n] \in Nat
  BY DEF BoxTypes
<1>2. [upto |-> Len(inbox[n]), at |-> cursor[n] + 1, given |-> FALSE, gone |-> FALSE] \in Drains
  BY <1>1 DEF Drains
<1>3. drain \in [Names -> Drains]
  BY DEF BoxTypes
<1> QED
  BY <1>2, <1>3 DEF StartDrain

LEMMA NoDrainType == NoDrain \in Drains /\ ~NoDrain.given
  BY DEF NoDrain, Drains

\* A line that is stored, and a duplicate that is not.
NewLine(n, id) ==
    /\ id \notin seen[n] /\ Len(inbox[n]) < MaxLines
    /\ inbox' = [inbox EXCEPT ![n] = Append(inbox[n], id)]
    /\ seen' = [seen EXCEPT ![n] = seen[n] \cup {id}]
    /\ unowned' = IF ident[n] # "local" \/ Seeding(n) THEN unowned \cup {id} ELSE unowned

LEMMA StoreCases ==
    ASSUME NEW h, Store(h)
    PROVE  \/ UNCHANGED <<inbox, seen, unowned>>
           \/ NewLine(post[h].name, post[h].id)
  BY Zenon DEF Store, NewLine

LEMMA BoxTypesStep == MailTypes /\ [Next]_vars => BoxTypes'
<1> SUFFICES ASSUME RosterTypes, BoxTypes, MailTypes, [Next]_vars PROVE BoxTypes'
  BY DEF MailTypes
<1> USE DEF BoxTypes
<1>1. CASE UNCHANGED <<boxes, live, troubles>>
  BY <1>1 DEF boxes
<1>2. CASE SeedAssign
  BY <1>2, MutexCases DEF SeedAssign
<1>3. CASE Crash
  BY <1>3, NoDrainType DEF Crash, Posts
<1>4. ASSUME NEW h \in Handlers, ReadKind(h) PROVE BoxTypes'
  <2>1. post' \in [Handlers -> Posts]
    BY <1>4, PostCases DEF ReadKind, Posts
  <2> QED
    BY <1>4, <2>1 DEF ReadKind
<1>5. ASSUME NEW h \in Handlers, Store(h) PROVE BoxTypes'
  <2>1. post[h].name \in Names /\ post[h].id \in Ids
    BY <1>5, PostCases DEF Store
  <2>2. post' \in [Handlers -> Posts]
    <3>1. [post[h] EXCEPT !.step = "wake"] \in Posts
      BY <1>5, PostCases, ZenonT(60) DEF Store, Posts
    <3> QED
      BY <1>5, <3>1 DEF Store, Posts
  <2>3. ASSUME NewLine(post[h].name, post[h].id)
        PROVE  inbox' \in [Names -> Seq(Ids)] /\ seen' \in [Names -> SUBSET Ids] /\ unowned' \subseteq Ids
    <3> DEFINE n == post[h].name
               id == post[h].id
    <3> HIDE DEF n, id
    <3>1. n \in Names /\ id \in Ids /\ inbox[n] \in Seq(Ids) /\ NewLine(n, id)
      BY <2>1, <2>3 DEF n, id
    <3>2. Append(inbox[n], id) \in Seq(Ids) /\ seen[n] \cup {id} \in SUBSET Ids
      BY <3>1
    <3> QED
      BY <3>1, <3>2 DEF NewLine
  <2>4. inbox' \in [Names -> Seq(Ids)] /\ seen' \in [Names -> SUBSET Ids] /\ unowned' \subseteq Ids
    BY <1>5, <2>3, StoreCases
  <2> QED
    BY <1>5, <2>2, <2>4 DEF Store
<1>6. ASSUME NEW h \in Handlers, Wake(h) PROVE BoxTypes'
  <2>1. drain' \in [Names -> Drains]
    BY <1>6, PostCases, StartDrainType DEF Wake
  <2>2. post' \in [Handlers -> Posts]
    BY <1>6 DEF Wake, Posts
  <2> QED
    BY <1>6, <2>1, <2>2 DEF Wake
<1>7. ASSUME NEW n \in Names, Tick(n) PROVE BoxTypes'
  BY <1>7, StartDrainType DEF Tick
<1>8. ASSUME NEW n \in Names, Handover(n) PROVE BoxTypes'
  <2>1. drain[n] \in Drains /\ drain[n].at \in Nat /\ handed[n] \in Seq(Nat)
    BY DEF Drains
  <2>2. handed' \in [Names -> Seq(Nat)]
    BY <1>8, <2>1 DEF Handover
  <2>3. drain' \in [Names -> Drains]
    BY <1>8, <2>1 DEF Handover, Drains
  <2> QED
    BY <1>8, <2>2, <2>3 DEF Handover
<1>9. ASSUME NEW n \in Names, HandoverFails(n) PROVE BoxTypes'
  <2>1. drain[n].at \in Nat /\ handed[n] \in Seq(Nat)
    BY DEF Drains
  <2>2. Append(handed[n], drain[n].at) \in Seq(Nat)
    BY <2>1
  <2>4. handed' \in [Names -> Seq(Nat)]
    BY <1>9, <2>2 DEF HandoverFails
  <2>5. troubles' \in Nat
    BY <1>9 DEF HandoverFails
  <2>3. drain' \in [Names -> Drains]
    BY <1>9, NoDrainType DEF HandoverFails
  <2> QED
    BY <1>9, <2>3, <2>4, <2>5 DEF HandoverFails
<1>10. ASSUME NEW n \in Names, Advance(n) PROVE BoxTypes'
  <2>1. drain[n] \in Drains /\ drain[n].at \in Nat /\ cursor[n] \in Nat
    BY DEF Drains
  <2>2. cursor' \in [Names -> Nat]
    BY <1>10, <2>1 DEF Advance, Reached
  <2>3. [upto |-> drain[n].upto, at |-> drain[n].at + 1, given |-> FALSE, gone |-> drain[n].gone] \in Drains
    BY <2>1 DEF Drains
  <2>4. drain' \in [Names -> Drains]
    <3>1. CASE drain[n].at = drain[n].upto
      BY <1>10, <3>1, NoDrainType DEF Advance
    <3>2. CASE drain[n].at # drain[n].upto
      BY <1>10, <2>3, <3>2 DEF Advance
    <3> QED
      BY <3>1, <3>2
  <2> QED
    BY <1>10, <2>2, <2>4 DEF Advance
<1>11. ASSUME NEW n \in Names, SessionStarts(n) \/ SessionEnds(n) PROVE BoxTypes'
  <2>1. live' \in [Names -> BOOLEAN]
    BY <1>11 DEF SessionStarts, SessionEnds
  <2>2. [drain[n] EXCEPT !.gone = TRUE] \in Drains
    BY DEF Drains
  <2>3. drain' \in [Names -> Drains]
    BY <1>11, <2>2 DEF SessionStarts, SessionEnds, boxes
  <2> QED
    BY <1>11, <2>1, <2>3 DEF SessionStarts, SessionEnds, boxes
<1>12. ASSUME NEW h \in Handlers, NEW n \in Names, NEW id \in Ids, Accept(h, n, id) \/ ControlSend(h, n, id)
      PROVE BoxTypes'
  <2>1. post' \in [Handlers -> Posts]
    <3>1. /\ [step |-> "read", name |-> n, id |-> id] \in Posts
          /\ [step |-> "store", name |-> n, id |-> id] \in Posts
      BY DEF Posts
    <3> QED
      BY <1>12, <3>1 DEF Accept, ControlSend
  <2> QED
    BY <1>12, <2>1 DEF Accept, ControlSend
<1>13. CASE Bind \/ SeedRead \/ Persist \/ BindFails \/ CopyRoster \/ WriteRoster \/ LoadSteps
  BY <1>1, <1>13 DEF Bind, SeedRead, Persist, BindFails, CopyRoster, WriteRoster, LoadSteps, LoadEnd, LoadName
<1>14. ASSUME NEW n \in Names, Claim(n) \/ Proxy(n) \/ Release(n) PROVE BoxTypes'
  BY <1>1, <1>14 DEF Claim, Proxy, Release
<1>15. CASE UNCHANGED vars
  BY <1>1, <1>15 DEF vars
<1> QED
  BY <1>2, <1>3, <1>4, <1>5, <1>6, <1>7, <1>8, <1>9, <1>10, <1>11, <1>12, <1>13, <1>14, <1>15
     DEF Next, ClaimSteps, PostSteps, DrainSteps

LEMMA MailTypesInit == Init => MailTypes
  BY NoDrainType DEF Init, MailTypes, RosterTypes, BoxTypes, KindMaps, Kinds, Mutexes, Posts

-----------------------------------------------------------------------------
(* Lines handed over: the steps that move a line. *)

LEMMA RepeatsFinite ==
    ASSUME NEW s \in Seq(Nat)
    PROVE  IsFiniteSet(RepeatsOf(s)) /\ Cardinality(RepeatsOf(s)) \in Nat
<1>1. Len(s) - 1 \in Int /\ 1 \in Int
  OBVIOUS
<1>2. IsFiniteSet(1..(Len(s) - 1)) /\ RepeatsOf(s) \subseteq 1..(Len(s) - 1)
  BY <1>1, FS_Interval DEF RepeatsOf
<1>3. IsFiniteSet(RepeatsOf(s))
  BY <1>2, FS_Subset
<1> QED
  BY <1>3, FS_CardinalityType

\* One more line: the last one again, or the next.
LEMMA OneLine ==
    ASSUME NEW s \in Seq(Nat), Consecutive(s), NEW a \in Nat \ {0},
           a \in {LastOf(s), LastOf(s) + 1}
    PROVE  /\ Append(s, a) \in Seq(Nat) /\ Consecutive(Append(s, a))
           /\ LastOf(Append(s, a)) = a
           /\ Cardinality(RepeatsOf(Append(s, a))) =
                 Cardinality(RepeatsOf(s)) + (IF a = LastOf(s) THEN 1 ELSE 0)
<1> DEFINE t == Append(s, a)
<1>1. t \in Seq(Nat) /\ Len(t) = Len(s) + 1 /\ t # <<>> /\ Len(s) \in Nat
  OBVIOUS
<1>2. t[Len(s) + 1] = a /\ \A k \in 1..Len(s) : t[k] = s[k]
  OBVIOUS
<1>3. s = <<>> <=> Len(s) = 0
  OBVIOUS
<1>4. \A k \in 1..Len(s) : s[k] \in Nat
  OBVIOUS
<1> HIDE DEF t
<1>5. LastOf(t) = a
  BY <1>1, <1>2 DEF LastOf
<1>6. Consecutive(t)
  <2>1. t[1] = 1
    BY <1>1, <1>2, <1>3 DEF Consecutive, LastOf
  <2>2. ASSUME NEW k \in 1..(Len(t) - 1) PROVE t[k + 1] - t[k] \in {0, 1}
    <3>1. CASE k = Len(s)
      <4>1. s # <<>> /\ t[k + 1] = a /\ t[k] = LastOf(s) /\ LastOf(s) \in Nat
        BY <1>1, <1>2, <1>3, <1>4, <2>2, <3>1 DEF LastOf
      <4> QED
        BY <4>1
    <3>2. CASE k # Len(s)
      <4>1. k \in 1..(Len(s) - 1) /\ k + 1 \in 1..Len(s) /\ k \in 1..Len(s)
        BY <1>1, <2>2, <3>2
      <4>2. t[k + 1] = s[k + 1] /\ t[k] = s[k]
        BY <1>2, <4>1
      <4> QED
        BY <4>1, <4>2 DEF Consecutive
    <3> QED
      BY <3>1, <3>2
  <2> QED
    BY <1>1, <2>1, <2>2 DEF Consecutive
<1>7. RepeatsOf(t) = RepeatsOf(s) \cup (IF a = LastOf(s) THEN {Len(s)} ELSE {})
  <2>1. ASSUME NEW k PROVE k \in RepeatsOf(t) <=> k \in RepeatsOf(s) \/ (a = LastOf(s) /\ k = Len(s))
    <3>1. CASE k = Len(s)
      <4>1. k \in 1..(Len(t) - 1) <=> s # <<>>
        BY <1>1, <1>3, <3>1
      <4>2. s # <<>> => t[k + 1] = a /\ t[k] = LastOf(s)
        BY <1>1, <1>2, <1>3, <3>1 DEF LastOf
      <4>3. k \notin RepeatsOf(s) /\ (s = <<>> => a # LastOf(s))
        BY <1>1, <3>1 DEF RepeatsOf, LastOf
      <4> QED
        BY <3>1, <4>1, <4>2, <4>3 DEF RepeatsOf
    <3>2. CASE k # Len(s) /\ k \in 1..(Len(s) - 1)
      <4>1. k + 1 \in 1..Len(s) /\ k \in 1..Len(s) /\ k \in 1..(Len(t) - 1)
        BY <1>1, <3>2
      <4>2. t[k + 1] = s[k + 1] /\ t[k] = s[k]
        BY <1>2, <4>1
      <4> QED
        BY <3>2, <4>1, <4>2 DEF RepeatsOf
    <3>3. CASE k # Len(s) /\ k \notin 1..(Len(s) - 1)
      <4>1. k \notin 1..(Len(t) - 1)
        BY <1>1, <3>3
      <4> QED
        BY <3>3, <4>1 DEF RepeatsOf
    <3> QED
      BY <3>1, <3>2, <3>3
  <2> QED
    BY <2>1
<1>8. Cardinality(RepeatsOf(t)) = Cardinality(RepeatsOf(s)) + (IF a = LastOf(s) THEN 1 ELSE 0)
  <2>1. Len(s) \notin RepeatsOf(s)
    BY <1>1 DEF RepeatsOf
  <2>2. CASE a = LastOf(s)
    BY <1>7, <2>1, <2>2, RepeatsFinite, FS_AddElement
  <2>3. CASE a # LastOf(s)
    BY <1>7, <2>3, RepeatsFinite
  <2> QED
    BY <2>2, <2>3
<1> QED
  BY <1>1, <1>5, <1>6, <1>8 DEF t

\* One mailbox: where it is, and what it can do.
Box(at, lines, d, s, t) ==
    /\ at \in Nat /\ lines \in Nat /\ d \in Drains /\ s \in Seq(Nat) /\ t \in Nat
    /\ Outgoing(at, lines, d, s, t)

LEMMA MoreLines ==
    ASSUME NEW at, NEW lines, NEW d, NEW s, NEW t, Box(at, lines, d, s, t),
           NEW more \in Nat, more >= lines, more <= MaxLines, NEW u \in Nat, u >= t
    PROVE  Outgoing(at, more, d, s, u)
<1>1. Cardinality(RepeatsOf(s)) \in Nat
  BY RepeatsFinite DEF Box
<1> QED
  BY <1>1, MailAssumption DEF Box, Outgoing, LineInHand, Accounted, Drains, Doubts

LEMMA DrainBegins ==
    ASSUME NEW at, NEW lines, NEW s, NEW t, Box(at, lines, NoDrain, s, t), at < lines
    PROVE  Outgoing(at, lines, [upto |-> lines, at |-> at + 1, given |-> FALSE, gone |-> FALSE], s, t)
  BY NoDrainType DEF Box, Outgoing, LineInHand, Told, Accounted, Doubts

\* The hand-over is forgotten: the line it had written is in doubt.
LEMMA DrainForgotten ==
    ASSUME NEW at, NEW lines, NEW d, NEW s, NEW t, Box(at, lines, d, s, t)
    PROVE  /\ Outgoing(at, lines, NoDrain, s, t + 1)
           /\ ~d.given => Outgoing(at, lines, NoDrain, s, t)
<1>1. Cardinality(RepeatsOf(s)) \in Nat
  BY RepeatsFinite DEF Box
<1> QED
  BY <1>1, NoDrainType DEF Box, Outgoing, LineInHand, Told, Accounted, Doubts

LEMMA LineGiven ==
    ASSUME NEW at, NEW lines, NEW d, NEW s, NEW t, Box(at, lines, d, s, t), d # NoDrain, ~d.given
    PROVE  /\ Outgoing(at, lines, [d EXCEPT !.given = TRUE], Append(s, d.at), t)
           /\ Outgoing(at, lines, NoDrain, Append(s, d.at), t + 1)
<1> DEFINE u == Append(s, d.at)
           e == [d EXCEPT !.given = TRUE]
<1>1. d.at = at + 1 /\ d.at \in Nat \ {0} /\ d.at \in {LastOf(s), LastOf(s) + 1} /\ Consecutive(s)
  BY DEF Box, Outgoing, LineInHand, Told, Drains
<1>2. /\ u \in Seq(Nat) /\ Consecutive(u) /\ LastOf(u) = at + 1
      /\ Cardinality(RepeatsOf(u)) = Cardinality(RepeatsOf(s)) + (IF at + 1 = LastOf(s) THEN 1 ELSE 0)
  BY <1>1, OneLine DEF Box
<1>3. e.given /\ e.at = d.at /\ e.upto = d.upto /\ e # NoDrain
  BY <1>1 DEF Box, Drains, NoDrain
<1>4. Cardinality(RepeatsOf(s)) \in Nat
  BY RepeatsFinite DEF Box
<1> HIDE DEF u, e
<1>5. Outgoing(at, lines, e, u, t)
  BY <1>1, <1>2, <1>3, <1>4 DEF Box, Outgoing, LineInHand, Told, Accounted, Doubts
<1>6. Outgoing(at, lines, NoDrain, u, t + 1)
  BY <1>1, <1>2, <1>4, NoDrainType DEF Box, Outgoing, LineInHand, Told, Accounted, Doubts
<1> QED
  BY <1>5, <1>6 DEF u, e

LEMMA LineRecorded ==
    ASSUME NEW at, NEW lines, NEW d, NEW s, NEW t, Box(at, lines, d, s, t), d # NoDrain, d.given
    PROVE  /\ d.at > at /\ Outgoing(d.at, lines, NoDrain, s, t)
           /\ d.at # d.upto => Outgoing(d.at, lines,
                 [upto |-> d.upto, at |-> d.at + 1, given |-> FALSE, gone |-> d.gone], s, t)
  BY NoDrainType DEF Box, Outgoing, LineInHand, Told, Accounted, Doubts, Drains

LEMMA SessionGone ==
    ASSUME NEW at, NEW lines, NEW d, NEW s, NEW t, Box(at, lines, d, s, t), d # NoDrain
    PROVE  Outgoing(at, lines, [d EXCEPT !.gone = TRUE], s, t)
<1> DEFINE e == [d EXCEPT !.gone = TRUE]
<1>1. e.given = d.given /\ e.at = d.at /\ e.upto = d.upto
  BY DEF Box, Drains
<1> HIDE DEF e
<1>2. Outgoing(at, lines, e, s, t)
  BY <1>1 DEF Box, Outgoing, LineInHand, Told, Accounted, Doubts
<1> QED
  BY <1>2 DEF e

LEMMA BoxOf ==
    ASSUME MailTypes, NEW n \in Names, OutOf(n)
    PROVE  Box(cursor[n], Len(inbox[n]), drain[n], handed[n], troubles)
  BY DEF MailTypes, BoxTypes, Box, OutOf

out == <<inbox, cursor, drain, handed, troubles>>

\* What happens to one mailbox leaves the others as they are.
LEMMA OtherBoxes ==
    ASSUME MailTypes, MailTypes', NEW n \in Names, OutOf(n), troubles' >= troubles,
           cursor'[n] = cursor[n], inbox'[n] = inbox[n], drain'[n] = drain[n], handed'[n] = handed[n]
    PROVE  OutOf(n)'
<1>1. Len(inbox[n]) \in Nat /\ Len(inbox[n]) <= MaxLines /\ troubles' \in Nat
  BY DEF MailTypes, BoxTypes, OutOf, Outgoing, LineInHand
<1> QED
  BY <1>1, BoxOf, MoreLines, MailAssumption DEF OutOf

LEMMA StartDrainKeeps ==
    ASSUME MailTypes, NEW n \in Names, StartDrain(n), OutOf(n), UNCHANGED <<inbox, cursor, handed, troubles>>
    PROVE  OutOf(n)'
<1>1. CASE UNCHANGED drain
  BY <1>1 DEF OutOf
<1>2. CASE ~UNCHANGED drain
  <2>1. /\ drain[n] = NoDrain /\ cursor[n] < Len(inbox[n])
        /\ drain'[n] = [upto |-> Len(inbox[n]), at |-> cursor[n] + 1, given |-> FALSE, gone |-> FALSE]
    BY <1>2 DEF StartDrain, CanDrain, MailTypes, BoxTypes
  <2> QED
    BY <2>1, BoxOf, DrainBegins DEF OutOf
<1> QED
  BY <1>1, <1>2

LEMMA StartDrainOthers ==
    ASSUME MailTypes, NEW n \in Names, NEW m \in Names, StartDrain(n), m # n
    PROVE  drain'[m] = drain[m]
  BY DEF StartDrain, MailTypes, BoxTypes

LEMMA OutStep ==
    ASSUME MailTypes, MailTypes', [Next]_vars, NEW m \in Names, OutOf(m)
    PROVE  OutOf(m)'
<1>a. m \in Names /\ troubles \in Nat /\ troubles >= troubles
  BY DEF MailTypes, BoxTypes
<1>b. Box(cursor[m], Len(inbox[m]), drain[m], handed[m], troubles)
  BY BoxOf
<1>c. /\ cursor \in [Names -> Nat] /\ drain \in [Names -> Drains] /\ handed \in [Names -> Seq(Nat)]
      /\ inbox \in [Names -> Seq(Ids)]
  BY DEF MailTypes, BoxTypes
<1>1. CASE UNCHANGED out
  BY <1>1 DEF out, OutOf
<1>2. CASE Crash
  <2>1. drain'[m] = NoDrain /\ troubles' = troubles + 1 /\ UNCHANGED <<inbox, cursor, handed>>
    BY <1>2 DEF Crash
  <2> QED
    BY <2>1, <1>b, DrainForgotten DEF OutOf
<1>3. ASSUME NEW h \in Handlers, Store(h) PROVE OutOf(m)'
  <2>1. CASE UNCHANGED inbox
    BY <1>3, <2>1 DEF Store, OutOf
  <2>2. CASE NewLine(post[h].name, post[h].id)
    <3>1. UNCHANGED <<cursor, drain, handed, troubles>> /\ post[h].name \in Names
      BY <1>3, PostCases DEF Store, MailTypes
    <3>2. inbox'[m] = inbox[m] \/ (Len(inbox[m]) < MaxLines /\ inbox'[m] = Append(inbox[m], post[h].id))
      BY <1>c, <2>2, <3>1 DEF NewLine
    <3>3. /\ Len(inbox'[m]) \in Nat /\ Len(inbox'[m]) >= Len(inbox[m]) /\ Len(inbox'[m]) <= MaxLines
      BY <1>b, <1>c, <3>2, MailAssumption DEF Box, Outgoing, LineInHand
    <3> QED
      BY <1>a, <1>b, <3>1, <3>3, MoreLines DEF OutOf
  <2> QED
    BY <1>3, <2>1, <2>2, StoreCases
<1>4. ASSUME NEW h \in Handlers, Wake(h) PROVE OutOf(m)'
  <2>1. UNCHANGED <<inbox, cursor, handed, troubles>> /\ StartDrain(post[h].name) /\ post[h].name \in Names
    BY <1>4, PostCases DEF Wake, MailTypes
  <2> QED
    BY <1>a, <2>1, StartDrainKeeps, StartDrainOthers, OtherBoxes
<1>5. ASSUME NEW n \in Names, Tick(n) PROVE OutOf(m)'
  <2>1. UNCHANGED <<inbox, cursor, handed, troubles>> /\ StartDrain(n)
    BY <1>5 DEF Tick
  <2> QED
    BY <1>a, <2>1, StartDrainKeeps, StartDrainOthers, OtherBoxes
<1>6. ASSUME NEW n \in Names, DrainSteps(n) \/ SessionEnds(n), n # m PROVE OutOf(m)'
  <2>1. /\ cursor'[m] = cursor[m] /\ inbox'[m] = inbox[m] /\ drain'[m] = drain[m] /\ handed'[m] = handed[m]
        /\ troubles' >= troubles
    BY <1>a, <1>c, <1>6 DEF DrainSteps, Handover, HandoverFails, Advance, SessionEnds
  <2> QED
    BY <2>1, OtherBoxes
<1>7. CASE Handover(m)
  <2>1. /\ drain[m] # NoDrain /\ ~drain[m].given
        /\ handed'[m] = Append(handed[m], drain[m].at)
        /\ drain'[m] = [drain[m] EXCEPT !.given = TRUE] /\ UNCHANGED <<inbox, cursor, troubles>>
    BY <1>7, <1>c DEF Handover, Draining
  <2> QED
    BY <1>b, <2>1, LineGiven DEF OutOf
<1>8. CASE HandoverFails(m)
  <2>1. /\ drain[m] # NoDrain /\ ~drain[m].given /\ drain'[m] = NoDrain /\ UNCHANGED <<inbox, cursor>>
        /\ \/ UNCHANGED <<handed, troubles>>
           \/ troubles' = troubles + 1 /\ handed'[m] = Append(handed[m], drain[m].at)
    BY <1>8, <1>c DEF HandoverFails, Draining
  <2>2. CASE UNCHANGED <<handed, troubles>>
    BY <1>b, <2>1, <2>2, DrainForgotten DEF OutOf
  <2>3. CASE troubles' = troubles + 1 /\ handed'[m] = Append(handed[m], drain[m].at)
    BY <1>b, <2>1, <2>3, LineGiven DEF OutOf
  <2> QED
    BY <2>1, <2>2, <2>3
<1>9. CASE Advance(m)
  <2>1. drain[m] # NoDrain /\ drain[m].given /\ UNCHANGED <<inbox, handed, troubles>>
    BY <1>9 DEF Advance, Draining
  <2>2. drain[m].at > cursor[m]
    BY <1>b, <2>1, LineRecorded
  <2>3. cursor'[m] = drain[m].at
    BY <1>9, <1>c, <2>2 DEF Advance, Reached
  <2>4. \/ drain'[m] = NoDrain
        \/ /\ drain[m].at # drain[m].upto
           /\ drain'[m] = [upto |-> drain[m].upto, at |-> drain[m].at + 1, given |-> FALSE,
                           gone |-> drain[m].gone]
    BY <1>9, <1>c DEF Advance
  <2> QED
    BY <1>b, <2>1, <2>3, <2>4, LineRecorded DEF OutOf
<1>10. CASE SessionEnds(m)
  <2>1. /\ UNCHANGED <<inbox, cursor, handed, troubles>>
        /\ \/ UNCHANGED drain
           \/ drain[m] # NoDrain /\ drain'[m] = [drain[m] EXCEPT !.gone = TRUE]
    BY <1>10, <1>c DEF SessionEnds, Draining
  <2> QED
    BY <1>b, <2>1, SessionGone DEF OutOf
<1>11. CASE ClaimSteps \/ BindFails \/ CopyRoster \/ WriteRoster \/ LoadSteps
  BY <1>1, <1>11 DEF ClaimSteps, Bind, SeedRead, SeedAssign, Persist, BindFails, CopyRoster, WriteRoster,
                     LoadSteps, LoadEnd, LoadName, boxes, out
<1>12. ASSUME NEW n \in Names, Claim(n) \/ Proxy(n) \/ Release(n) \/ SessionStarts(n) PROVE OutOf(m)'
  BY <1>1, <1>12 DEF Claim, Proxy, Release, SessionStarts, boxes, out
<1>13. ASSUME NEW h \in Handlers, ReadKind(h) PROVE OutOf(m)'
  BY <1>1, <1>13 DEF ReadKind, out
<1>14. ASSUME NEW h \in Handlers, NEW n \in Names, NEW id \in Ids, Accept(h, n, id) \/ ControlSend(h, n, id)
       PROVE OutOf(m)'
  BY <1>1, <1>14 DEF Accept, ControlSend, out
<1>15. CASE UNCHANGED vars
  BY <1>1, <1>15 DEF vars, boxes, out
<1> QED
  BY <1>2, <1>3, <1>4, <1>5, <1>6, <1>7, <1>8, <1>9, <1>10, <1>11, <1>12, <1>13, <1>14, <1>15
     DEF Next, PostSteps, DrainSteps

-----------------------------------------------------------------------------
(* Lines stored. *)

TailOf(s) == {s[i] : i \in {j \in 1..Len(s) : j + SEEN_TAIL > Len(s)}}

LEMMA TailGrows ==
    ASSUME NEW s \in Seq(Ids), NEW id \in Ids
    PROVE  TailOf(Append(s, id)) \subseteq TailOf(s) \cup {id}
<1> DEFINE t == Append(s, id)
<1>1. Len(t) = Len(s) + 1 /\ Len(s) \in Nat /\ t[Len(s) + 1] = id /\ \A k \in 1..Len(s) : t[k] = s[k]
  OBVIOUS
<1> HIDE DEF t
<1>2. ASSUME NEW i \in 1..Len(t), i + SEEN_TAIL > Len(t) PROVE t[i] \in TailOf(s) \cup {id}
  <2>1. CASE i = Len(s) + 1
    BY <1>1, <2>1
  <2>2. CASE i # Len(s) + 1
    <3>1. i \in 1..Len(s) /\ i + SEEN_TAIL > Len(s) /\ t[i] = s[i]
      BY <1>1, <1>2, <2>2, MailAssumption
    <3> QED
      BY <3>1 DEF TailOf
  <2> QED
    BY <2>1, <2>2
<1>3. TailOf(t) \subseteq TailOf(s) \cup {id}
  BY <1>2 DEF TailOf
<1> QED
  BY <1>3 DEF t

\* An id that the tail has not, or that is exempt, comes once more.
LEMMA OnceMore ==
    ASSUME NEW s \in Seq(Ids), NEW id \in Ids, NEW exempt, NEW wider, exempt \subseteq wider,
           OnceIn(s, exempt), id \in wider \/ id \notin TailOf(s)
    PROVE  OnceIn(Append(s, id), wider)
<1> DEFINE t == Append(s, id)
<1>1. Len(t) = Len(s) + 1 /\ Len(s) \in Nat /\ t[Len(s) + 1] = id /\ \A k \in 1..Len(s) : t[k] = s[k]
  OBVIOUS
<1> HIDE DEF t
<1>2. ASSUME NEW i \in 1..Len(t), NEW j \in 1..Len(t), i < j, t[i] = t[j]
      PROVE  j - i > SEEN_TAIL \/ t[i] \in wider
  <2>1. i \in 1..Len(s) /\ t[i] = s[i]
    BY <1>1, <1>2
  <2>2. CASE j = Len(s) + 1
    <3>1. t[i] = id
      BY <1>1, <1>2, <2>2
    <3>2. i + SEEN_TAIL > Len(s) => id \in TailOf(s)
      BY <2>1, <3>1 DEF TailOf
    <3> QED
      BY <1>1, <2>1, <2>2, <3>1, <3>2, MailAssumption
  <2>3. CASE j # Len(s) + 1
    <3>1. j \in 1..Len(s) /\ t[j] = s[j]
      BY <1>1, <1>2, <2>3
    <3> QED
      BY <1>2, <2>1, <3>1 DEF OnceIn
  <2> QED
    BY <2>2, <2>3
<1>3. OnceIn(t, wider)
  BY <1>2 DEF OnceIn
<1> QED
  BY <1>3 DEF t

LEMMA TailIsTail == ASSUME NEW n PROVE TailIds(n) = TailOf(inbox[n])
  BY DEF TailIds, TailOf

in == <<inbox, seen, unowned, ident, mutex>>

\* A new line: the store comes last in the tail, remembered or unowned.
LEMMA NewLineStep ==
    ASSUME MailTypes, NEW n \in Names, NEW id \in Ids, NewLine(n, id), UNCHANGED <<ident, mutex>>,
           \A m \in Names : Into(m), ReadIsTail, NEW m \in Names
    PROVE  Into(m)' /\ ReadIsTail'
<1>1. /\ inbox \in [Names -> Seq(Ids)] /\ seen \in [Names -> SUBSET Ids] /\ inbox[n] \in Seq(Ids)
      /\ unowned \subseteq unowned'
  BY DEF MailTypes, BoxTypes, NewLine
<1>2. ident[n] # "local" \/ Seeding(n) => id \in unowned'
  BY DEF NewLine
<1>3. ident[n] = "local" /\ ~Seeding(n) => id \notin TailOf(inbox[n]) \/ id \in unowned'
  BY <1>1, TailIsTail DEF Into, Remembered, NewLine
<1>4. inbox'[n] = Append(inbox[n], id) /\ seen'[n] = seen[n] \cup {id}
  BY <1>1 DEF NewLine
<1>5. TailIds(n)' \subseteq TailIds(n) \cup {id}
  <2>1. TailIds(n)' = TailOf(inbox'[n])
    BY DEF TailIds, TailOf
  <2> QED
    BY <1>1, <1>4, <2>1, TailGrows, TailIsTail
<1>6. Into(n)'
  <2>1. OnceIn(inbox'[n], unowned')
    <3>1. (id \in unowned' \/ id \notin TailOf(inbox[n])) /\ OnceIn(inbox[n], unowned)
      BY <1>2, <1>3 DEF Into
    <3> QED
      BY <1>1, <1>4, <3>1, OnceMore
  <2>2. Seeding(n)' <=> Seeding(n)
    BY DEF Seeding
  <2>3. Remembered(n)'
    BY <1>1, <1>4, <1>5, <2>2 DEF Into, Remembered
  <2> QED
    BY <2>1, <2>3 DEF Into
<1>7. m # n => Into(m)'
  <2> SUFFICES ASSUME m # n PROVE Into(m)'
    OBVIOUS
  <2>1. inbox'[m] = inbox[m] /\ seen'[m] = seen[m] /\ (Seeding(m)' <=> Seeding(m))
    BY <1>1 DEF NewLine, Seeding
  <2>2. TailIds(m)' = TailIds(m)
    BY <2>1 DEF TailIds
  <2> QED
    BY <1>1, <2>1, <2>2 DEF Into, Remembered, OnceIn
<1>8. ReadIsTail'
  <2> SUFFICES ASSUME mutex.step = "assign" PROVE TailIds(mutex.name)' \subseteq mutex.ids \cup unowned'
    BY DEF ReadIsTail
  <2>1. CASE mutex.name = n
    <3>1. id \in unowned' /\ TailIds(n) \subseteq mutex.ids \cup unowned
      BY <1>2, <2>1 DEF Seeding, ReadIsTail
    <3> QED
      BY <1>1, <1>5, <2>1, <3>1
  <2>2. CASE mutex.name # n
    <3>1. inbox'[mutex.name] = inbox[mutex.name]
      BY <1>1, <2>2, MutexCases DEF NewLine, MailTypes
    <3>2. TailIds(mutex.name)' = TailIds(mutex.name)
      BY <3>1 DEF TailIds
    <3> QED
      BY <1>1, <3>2 DEF ReadIsTail
  <2> QED
    BY <2>1, <2>2
<1> QED
  BY <1>6, <1>7, <1>8

LEMMA SameInto ==
    ASSUME UNCHANGED in, \A m \in Names : Into(m), ReadIsTail
    PROVE  (\A m \in Names : Into(m)') /\ ReadIsTail'
  BY DEF in, Into, Remembered, Seeding, OnceIn, TailIds, ReadIsTail

\* A claim or a release under way takes its name from its owner.
LEMMA NameTaken ==
    ASSUME MailTypes, UNCHANGED <<inbox, seen, unowned>>, mutex = Free, mutex'.step \in {"bind", "persist"},
           NEW n \in Names, ident'[n] # "local", \A m \in Names : m # n => ident'[m] = ident[m],
           \A m \in Names : Into(m), ReadIsTail
    PROVE  (\A m \in Names : Into(m)') /\ ReadIsTail'
<1>1. ASSUME NEW m \in Names PROVE Into(m)'
  <2>1. TailIds(m)' = TailIds(m)
    BY DEF TailIds
  <2>2. ~Seeding(m)
    BY DEF Seeding, Free
  <2>3. ident'[m] = "local" => ident[m] = "local"
    OBVIOUS
  <2> QED
    BY <2>1, <2>2, <2>3 DEF Into, Remembered, OnceIn
<1> QED
  BY <1>1 DEF ReadIsTail

LEMMA ClaimStartTakes ==
    ASSUME MailTypes, NEW n \in Names, NEW by, ClaimStart(n, by) \/ ProxyStart(n, by)
    PROVE  /\ mutex = Free /\ mutex'.step = "bind" /\ ident'[n] # "local"
           /\ \A m \in Names : m # n => ident'[m] = ident[m]
  BY DEF ClaimStart, ProxyStart, MailTypes, RosterTypes, KindMaps

LEMMA InStep ==
    ASSUME MailTypes, [Next]_vars, \A m \in Names : Into(m), ReadIsTail
    PROVE  (\A m \in Names : Into(m)') /\ ReadIsTail'
<1>a. /\ ident \in KindMaps /\ seen \in [Names -> SUBSET Ids] /\ mutex \in Mutexes
  BY DEF MailTypes, RosterTypes, BoxTypes
<1>1. CASE UNCHANGED in
  BY <1>1, SameInto
<1>2. CASE Bind
  <2>1. /\ mutex.name \in Names /\ UNCHANGED <<inbox, seen, unowned>> /\ mutex.step = "bind"
        /\ ident' = [ident EXCEPT ![mutex.name] = mutex.to]
    BY <1>2, MutexCases DEF Bind, boxes, MailTypes
  <2>2. /\ mutex'.name = mutex.name
        /\ mutex'.step = IF mutex.to = "local" THEN "seed" ELSE "persist"
    BY <1>2, <2>1, MutexCases DEF Bind, MailTypes
  <2>3. ASSUME NEW m \in Names PROVE Into(m)'
    <3>1. TailIds(m)' = TailIds(m)
      BY <2>1 DEF TailIds
    <3>2. ident'[m] = "local" /\ ~Seeding(m)' => ident[m] = "local" /\ ~Seeding(m)
      BY <1>a, <2>1, <2>2 DEF Seeding, KindMaps
    <3> QED
      BY <2>1, <3>1, <3>2 DEF Into, Remembered, OnceIn
  <2> QED
    BY <2>2, <2>3 DEF ReadIsTail
<1>3. CASE SeedRead
  <2>1. /\ UNCHANGED <<inbox, seen, unowned, ident>> /\ mutex.step = "seed" /\ mutex'.step = "assign"
        /\ mutex'.name = mutex.name /\ mutex'.ids = TailIds(mutex.name)
    BY <1>3 DEF SeedRead, boxes
  <2>2. ASSUME NEW m \in Names PROVE Into(m)'
    <3>1. TailIds(m)' = TailIds(m) /\ (Seeding(m)' <=> Seeding(m))
      BY <2>1 DEF TailIds, Seeding
    <3> QED
      BY <2>1, <2>2, <3>1 DEF Into, Remembered, OnceIn
  <2>3. TailIds(mutex.name)' = TailIds(mutex.name)
    BY <2>1 DEF TailIds
  <2> QED
    BY <2>1, <2>2, <2>3 DEF ReadIsTail, TailIds
<1>4. CASE SeedAssign
  <2>1. /\ UNCHANGED <<inbox, unowned, ident>> /\ mutex.step = "assign" /\ mutex'.step = "persist"
        /\ seen' = [seen EXCEPT ![mutex.name] = mutex.ids] /\ mutex.name \in Names
    BY <1>4, MutexCases DEF SeedAssign, MailTypes
  <2>2. ASSUME NEW m \in Names PROVE Into(m)'
    <3>1. TailIds(m)' = TailIds(m)
      BY <2>1 DEF TailIds
    <3>2. CASE m = mutex.name
      BY <1>a, <2>1, <3>1, <3>2 DEF Into, Remembered, OnceIn, ReadIsTail
    <3>3. CASE m # mutex.name
      BY <1>a, <2>1, <3>1, <3>3 DEF Into, Remembered, OnceIn, Seeding
    <3> QED
      BY <3>2, <3>3
  <2> QED
    BY <2>1, <2>2 DEF ReadIsTail
<1>5. CASE Persist \/ BindFails
  <2>1. /\ UNCHANGED <<inbox, seen, unowned, ident>> /\ mutex.step \in {"bind", "persist"} /\ mutex'.step = "free"
    BY <1>5 DEF Persist, BindFails, boxes, Free
  <2>2. ASSUME NEW m \in Names PROVE Into(m)'
    <3>1. TailIds(m)' = TailIds(m) /\ ~Seeding(m)
      BY <2>1 DEF TailIds, Seeding
    <3> QED
      BY <2>1, <3>1 DEF Into, Remembered, OnceIn
  <2> QED
    BY <2>1, <2>2 DEF ReadIsTail
<1>6. CASE Crash
  <2>1. UNCHANGED <<inbox, unowned>> /\ mutex'.step = "free" /\ \A m \in Names : ident'[m] = "none"
    BY <1>6 DEF Crash, Free
  <2> QED
    BY <2>1 DEF Into, Remembered, OnceIn, ReadIsTail
<1>7. ASSUME NEW n \in Names, LoadName(n) PROVE (\A m \in Names : Into(m)') /\ ReadIsTail'
  <2>1. UNCHANGED <<inbox, seen, unowned>>
    BY <1>7 DEF LoadName, boxes
  <2>2. CASE ClaimStart(n, "load") \/ ProxyStart(n, "load")
    BY <2>1, <2>2, ClaimStartTakes, NameTaken
  <2>3. CASE UNCHANGED <<ident, mutex>>
    BY <1>1, <2>1, <2>3 DEF in
  <2> QED
    BY <1>7, <2>2, <2>3 DEF LoadName
<1>8. ASSUME NEW n \in Names, Claim(n) \/ Proxy(n) PROVE (\A m \in Names : Into(m)') /\ ReadIsTail'
  <2>1. UNCHANGED <<inbox, seen, unowned>> /\ (ClaimStart(n, "control") \/ ProxyStart(n, "control"))
    BY <1>8 DEF Claim, Proxy, boxes
  <2> QED
    BY <2>1, ClaimStartTakes, NameTaken
<1>9. ASSUME NEW n \in Names, Release(n) PROVE (\A m \in Names : Into(m)') /\ ReadIsTail'
  <2>1. /\ UNCHANGED <<inbox, seen, unowned>> /\ mutex = Free /\ mutex'.step = "persist" /\ ident'[n] = "none"
        /\ \A m \in Names : m # n => ident'[m] = ident[m]
    BY <1>9, <1>a DEF Release, boxes, KindMaps
  <2> QED
    BY <2>1, NameTaken
<1>10. ASSUME NEW h \in Handlers, Store(h) PROVE (\A m \in Names : Into(m)') /\ ReadIsTail'
  <2>1. UNCHANGED <<ident, mutex>> /\ post[h].name \in Names /\ post[h].id \in Ids
    BY <1>10, PostCases DEF Store, roster, MailTypes
  <2>2. CASE UNCHANGED <<inbox, seen, unowned>>
    BY <1>1, <2>1, <2>2 DEF in
  <2>3. CASE NewLine(post[h].name, post[h].id)
    BY <2>1, <2>3, NewLineStep
  <2> QED
    BY <1>10, <2>2, <2>3, StoreCases
<1>11. CASE CopyRoster \/ WriteRoster \/ LoadEnd
  BY <1>1, <1>11 DEF CopyRoster, WriteRoster, LoadEnd, boxes, in
<1>12. ASSUME NEW n \in Names, Tick(n) \/ DrainSteps(n) \/ SessionStarts(n) \/ SessionEnds(n)
       PROVE UNCHANGED in
  BY <1>12 DEF Tick, DrainSteps, Handover, HandoverFails, Advance, SessionStarts, SessionEnds, boxes, roster, in
<1>13. ASSUME NEW h \in Handlers, ReadKind(h) \/ Wake(h) PROVE UNCHANGED in
  BY <1>13 DEF ReadKind, Wake, roster, in
<1>14. ASSUME NEW h \in Handlers, NEW n \in Names, NEW id \in Ids, Accept(h, n, id) \/ ControlSend(h, n, id)
       PROVE UNCHANGED in
  BY <1>14 DEF Accept, ControlSend, roster, in
<1>15. UNCHANGED vars => UNCHANGED in
  BY DEF vars, roster, boxes, in
<1> QED
  BY <1>1, <1>2, <1>3, <1>4, <1>5, <1>6, <1>7, <1>8, <1>9, <1>10, <1>11, <1>12, <1>13, <1>14, <1>15
     DEF Next, ClaimSteps, LoadSteps, PostSteps

-----------------------------------------------------------------------------
LEMMA MailInitInv == Init => MailInv
<1> SUFFICES ASSUME Init PROVE MailInv
  OBVIOUS
<1>1. MailTypes
  BY MailTypesInit
<1>2. ASSUME NEW n \in Names PROVE OutOf(n)
  <2>1. /\ cursor[n] = 0 /\ inbox[n] = <<>> /\ drain[n] = NoDrain /\ handed[n] = <<>> /\ troubles = 0
        /\ Len(inbox[n]) = 0
    BY DEF Init
  <2>2. RepeatsOf(<<>>) = {} /\ LastOf(<<>>) = 0 /\ Consecutive(<<>>) /\ Cardinality({}) = 0
    BY FS_EmptySet DEF RepeatsOf, LastOf, Consecutive
  <2> QED
    <3>1. LineInHand(0, 0, NoDrain)
      BY MailAssumption DEF LineInHand
    <3>2. Told(0, NoDrain, <<>>)
      BY <2>2, NoDrainType DEF Told
    <3>3. Accounted(0, NoDrain, <<>>, 0)
      <4>1. Cardinality(RepeatsOf(<<>>)) = 0
        BY <2>2
      <4>2. Doubts(0, NoDrain, <<>>) = 0
        BY <2>2 DEF Doubts
      <4> QED
        BY <4>1, <4>2 DEF Accounted
    <3> QED
      BY <2>1, <2>2, <3>1, <3>2, <3>3 DEF OutOf, Outgoing
<1>3. ASSUME NEW n \in Names PROVE Into(n)
  BY DEF Init, Into, Remembered, OnceIn
<1>4. ReadIsTail
  BY DEF Init, ReadIsTail, Free
<1> QED
  BY <1>1, <1>2, <1>3, <1>4 DEF MailInv

LEMMA MailStepInv == MailInv /\ [Next]_vars => MailInv'
<1> SUFFICES ASSUME MailInv, [Next]_vars PROVE MailInv'
  OBVIOUS
<1>1. MailTypes /\ MailTypes'
  BY RosterTypesStep, BoxTypesStep DEF MailInv, MailTypes
<1>2. ASSUME NEW n \in Names PROVE OutOf(n)'
  BY <1>1, OutStep DEF MailInv
<1>3. (\A n \in Names : Into(n)') /\ ReadIsTail'
  BY <1>1, InStep DEF MailInv
<1> QED
  BY <1>1, <1>2, <1>3 DEF MailInv

\* The inductive invariant of a daemon's names and mailboxes (_store_mail,
\* _seed_seen, _drain of homi.py).
THEOREM MailInvariant == Spec => []MailInv
  BY MailInitInv, MailStepInv, PTL DEF Spec

\* The state has its shape and no cursor or drain is beyond its file.
THEOREM MailTypeCorrect == Spec => []TypeOK
<1>1. MailInv => TypeOK
  <2> SUFFICES ASSUME MailInv PROVE TypeOK
    OBVIOUS
  <2>1. /\ ident \in [Names -> Kinds] /\ saved \in [Names -> Kinds] /\ parked \subseteq Names
        /\ load.todo \in [Names -> Kinds] /\ seen \in [Names -> SUBSET Ids]
        /\ unowned \subseteq Ids /\ promised \subseteq Names
    BY DEF MailInv, MailTypes, RosterTypes, BoxTypes, KindMaps
  <2>2. mutex.step \in {"free", "bind", "seed", "assign", "persist"}
    BY DEF MailInv, MailTypes, RosterTypes, Mutexes, Free
  <2>3. ASSUME NEW n \in Names
        PROVE  /\ cursor[n] <= Len(inbox[n]) /\ Len(inbox[n]) <= MaxLines
               /\ Draining(n) => drain[n].at \in 1..drain[n].upto /\ drain[n].upto <= Len(inbox[n])
    <3>1. Box(cursor[n], Len(inbox[n]), drain[n], handed[n], troubles)
      BY BoxOf DEF MailInv
    <3> QED
      BY <3>1 DEF Box, Outgoing, LineInHand, Draining, Drains
  <2>4. ASSUME NEW h \in Handlers PROVE post[h].step \in {"idle", "read", "store", "wake"}
    BY DEF MailInv, MailTypes, BoxTypes, Posts, Idle
  <2> QED
    BY <2>1, <2>2, <2>3, <2>4 DEF TypeOK
<1> QED
  BY <1>1, MailInvariant, PTL

\* Whoever drains, dies or is restarted, the cursor is the last line a session
\* was given or the one before it (_deliver_pending, homi.py:1296).
THEOREM CursorIsTrue == Spec => []CursorTellsTheTruth
<1>1. MailInv => CursorTellsTheTruth
  <2> SUFFICES ASSUME MailInv, NEW n \in Names PROVE LastHanded(n) - cursor[n] \in {0, 1}
    BY DEF CursorTellsTheTruth
  <2>1. Box(cursor[n], Len(inbox[n]), drain[n], handed[n], troubles)
    BY BoxOf DEF MailInv
  <2> QED
    BY <2>1 DEF Box, Outgoing, Told, LastHanded, LastOf
<1> QED
  BY <1>1, MailInvariant, PTL

\* A session sees the lines in order and without a gap, and every repetition
\* has a death or a failed write of its own.
THEOREM HandedInOrder == Spec => []InOrderOncePerTrouble
<1>1. MailInv => InOrderOncePerTrouble
  <2> SUFFICES ASSUME MailInv, NEW n \in Names
               PROVE  /\ \A k \in 1..(Len(handed[n]) - 1) : handed[n][k + 1] - handed[n][k] \in {0, 1}
                      /\ handed[n] # <<>> => handed[n][1] = 1
                      /\ Cardinality(Repeats(n)) <= troubles
    BY DEF InOrderOncePerTrouble
  <2>1. Box(cursor[n], Len(inbox[n]), drain[n], handed[n], troubles)
    BY BoxOf DEF MailInv
  <2>2. Cardinality(RepeatsOf(handed[n])) \in Nat /\ Repeats(n) = RepeatsOf(handed[n])
    BY <2>1, RepeatsFinite DEF Box, Repeats, RepeatsOf
  <2> QED
    BY <2>1, <2>2 DEF Box, Outgoing, Consecutive, Accounted, Doubts
<1> QED
  BY <1>1, MailInvariant, PTL

\* A message id fills two lines only if the second is out of reach of the
\* remembered tail or one was stored while the name had no complete owner.
THEOREM StoredOnceOrExempt == Spec => []StoredOnce
<1>1. MailInv => StoredOnce
  BY DEF MailInv, Into, OnceIn, StoredOnce
<1> QED
  BY <1>1, MailInvariant, PTL
=============================================================================
