--------------------------- MODULE BusRehomeProofs ---------------------------
(***************************************************************************)
(* What a move guarantees at every step it may fail or die at, for any     *)
(* sessions, buses and messages, and any number of moves, commands, deaths *)
(* and failures.                                                           *)
(*                                                                         *)
(* The argument.  While the move holds the files, nobody else writes them, *)
(* so its step determines them from what it read; and while it runs, what  *)
(* a session is owed is measured on the file as the move read it, because  *)
(* every file it may leave behind serves the polled origin no less.        *)
(***************************************************************************)
EXTENDS BusRehome, TLAPS

AtOld == [connections |-> {"old"}, aliased |-> FALSE]
AtNew == [connections |-> {"new"}, aliased |-> TRUE]

RegFile(r) == r \in [DOMAIN r -> Adapter] /\ DOMAIN r \subseteq Origins \X Sessions

Commanded ==
    {Nothing} \cup [op : {"register"}, url : Origins, buses : SUBSET Buses]
              \cup [op : {"leave"}, url : Origins, bus : Buses]
              \cup [op : {"retain"}, url : Origins, until : 1..MaxWindow]
Envelopes == {Down, Free} \cup [at : {"fetched", "handed", "recorded"}, url : Origins, mail : Mail]

CommandTypes ==
    /\ members \in [Sessions -> SUBSET Buses] /\ cmd \in [Sessions -> Commanded]
    /\ window \in [Sessions -> 0..MaxWindow] /\ astray \subseteq Sessions /\ stranded \subseteq Sessions
    /\ sent \in 0..MaxWindow

WorkerTypes ==
    /\ journal \subseteq Origins \X Mail /\ recorded \subseteq Mail /\ settled \subseteq Mail
    /\ envelope \in Envelopes /\ (HoldsWorker => envelope = Down)

-----------------------------------------------------------------------------
(* The files at every step of the move. *)

Prefix ==
    /\ pc \in {"copy", "expand"} => client = AtOld /\ regs = saved.regs
    /\ pc = "switch" => client = AtOld /\ regs = Expanded(saved.regs)
    /\ pc = "migrate" => client = AtNew /\ regs = Expanded(saved.regs)
    /\ pc = "keep_both" => \/ client = AtOld /\ regs \in {saved.regs, Expanded(saved.regs)}
                           \/ client = AtNew /\ regs \in {Expanded(saved.regs), Migrated(saved.regs)}
    /\ pc = "switch_back" => regs = Expanded(saved.regs)
    /\ pc = "restore" => client = AtOld /\ regs = Expanded(saved.regs)
    /\ pc = "uncopy" => client = AtOld /\ regs = saved.regs

MoveInv ==
    /\ pc \in {"idle", "pause", "read"} \cup Forward \cup Undoing
    /\ client \in {AtOld, AtNew} /\ RegFile(regs) /\ interrupted \in BOOLEAN
    /\ pc \in {"pause", "read"} => client = AtOld
    /\ HoldsFiles => saved.client = AtOld /\ RegFile(saved.regs) /\ saved.copied \subseteq Mail /\ Prefix

-----------------------------------------------------------------------------
(* The journal and the worker. *)

KnownAt(o) == \A m \in recorded : OnRecord(o, m)

JournalInv ==
    /\ \A o \in client.connections : KnownAt(o)
    /\ HoldsFiles => KnownAt("old")
    /\ pc = "copy" => saved.copied = Original.copied
    /\ pc \in {"expand", "switch"} => KnownAt("new")

\* The worker's envelope comes from the connected origin.
EnvelopeInv == envelope \notin {Down, Free} => envelope.url \in client.connections

-----------------------------------------------------------------------------
(* What a session is owed, measured on the file the move read, if there is   *)
(* one, else on the file there is.                                           *)

Base == IF HoldsFiles THEN saved.regs ELSE regs
Origin == IF HoldsFiles \/ client = AtOld THEN "old" ELSE "new"

ServesBuses(r, o, s) ==
    members[s] = {} \/ (<<o, s>> \in DOMAIN r /\ members[s] \subseteq r[<<o, s>>].buses)
ServesWindow(r, o, s) ==
    window[s] = 0 \/ (<<o, s>> \in DOMAIN r /\ window[s] <= r[<<o, s>>].reply_until)

\* A send that is under way finds its adapter, wherever the move has taken it.
RetainFinds(r, o, s) ==
    cmd[s].op = "retain" =>
        \/ <<o, s>> \in DOMAIN r
        \/ o = "old" /\ cmd[s].url = "new" /\ <<"new", s>> \in DOMAIN r

\* The buses polled are those of the session, and one it is about to leave.
ToldBuses(r, o, s) ==
    <<o, s>> \in DOMAIN r =>
        \/ r[<<o, s>>].buses \subseteq members[s]
        \/ cmd[s].op = "leave" /\ r[<<o, s>>].buses \subseteq members[s] \cup {cmd[s].bus}
NothingAhead(r, o, s) == o = "old" => <<"new", s>> \notin DOMAIN r

Owed(r, o, s) ==
    /\ s \notin stranded => ServesWindow(r, o, s)
    /\ s \notin astray \cup stranded /\ cmd[s].op # "register" => ServesBuses(r, o, s)
    /\ RetainFinds(r, o, s)
    /\ ~interrupted /\ s \notin stranded => NothingAhead(r, o, s)
    /\ ~interrupted /\ s \notin astray \cup stranded => ToldBuses(r, o, s)

\* A command under way knows the buses as the hub has them.
CommandTrue(s) ==
    /\ cmd[s].op = "register" => cmd[s].buses = members[s]
    /\ cmd[s].op = "leave" => cmd[s].bus \notin members[s]

SessionInv(s) == CommandTrue(s) /\ Owed(Base, Origin, s)

RehomeInv ==
    /\ CommandTypes /\ WorkerTypes /\ MoveInv /\ JournalInv /\ EnvelopeInv /\ DedupMoves
    /\ \A s \in Sessions : SessionInv(s)

-----------------------------------------------------------------------------
(* The files the move writes. *)

LEMMA MergedServes ==
    ASSUME NEW r, RegFile(r), NEW s \in Sessions, <<"old", s>> \in DOMAIN r
    PROVE  /\ Merged(r, <<"old", s>>) \in Adapter
           /\ r[<<"old", s>>].buses \subseteq Merged(r, <<"old", s>>).buses
           /\ r[<<"old", s>>].reply_until <= Merged(r, <<"old", s>>).reply_until
           /\ <<"new", s>> \notin DOMAIN r => Merged(r, <<"old", s>>) = r[<<"old", s>>]
<1> DEFINE x == <<"old", s>>
           y == <<"new", s>>
<1>1. AsNew(x) = y /\ r[x] \in Adapter /\ r[<<"old", s>>] = r[x]
  BY DEF AsNew, RegFile
<1>2. r[x].buses \in SUBSET Buses /\ r[x].reply_until \in 0..MaxWindow /\ MaxWindow \in Nat
  BY <1>1, RehomeAssumption DEF Adapter
<1>3. CASE y \in DOMAIN r
  <2>1. r[y] \in Adapter
    BY <1>3 DEF RegFile
  <2>2. r[y].buses \in SUBSET Buses /\ r[y].reply_until \in 0..MaxWindow
    BY <2>1 DEF Adapter
  <2>3. /\ Max2(r[x].reply_until, r[y].reply_until) \in 0..MaxWindow
        /\ r[x].reply_until <= Max2(r[x].reply_until, r[y].reply_until)
    BY <1>2, <2>2 DEF Max2
  <2>4. Merged(r, x) = [buses |-> r[x].buses \cup r[y].buses,
                        reply_until |-> Max2(r[x].reply_until, r[y].reply_until)]
    BY <1>1, <1>3 DEF Merged
  <2> QED
    BY <1>1, <1>2, <1>3, <2>2, <2>3, <2>4 DEF Adapter
<1>4. CASE y \notin DOMAIN r
  <2>1. Merged(r, x) = r[x]
    BY <1>1, <1>4 DEF Merged
  <2> QED
    BY <1>1, <1>2, <1>4, <2>1
<1> QED
  BY <1>3, <1>4

LEMMA ExpandedAt ==
    ASSUME NEW r, RegFile(r)
    PROVE  /\ RegFile(Expanded(r))
           /\ \A s \in Sessions :
                 /\ <<"old", s>> \in DOMAIN Expanded(r) <=> <<"old", s>> \in DOMAIN r
                 /\ <<"old", s>> \in DOMAIN r => Expanded(r)[<<"old", s>>] = r[<<"old", s>>]
                 /\ <<"new", s>> \in DOMAIN Expanded(r) <=>
                       <<"old", s>> \in DOMAIN r \/ <<"new", s>> \in DOMAIN r
                 /\ <<"old", s>> \in DOMAIN r => Expanded(r)[<<"new", s>>] = Merged(r, <<"old", s>>)
                 /\ <<"old", s>> \notin DOMAIN r /\ <<"new", s>> \in DOMAIN r =>
                       Expanded(r)[<<"new", s>>] = r[<<"new", s>>]
<1> DEFINE old == {x \in DOMAIN r : x[1] = "old"}
           D == DOMAIN r \cup {AsNew(y) : y \in old}
           val(x) == IF x[1] = "new" /\ <<"old", x[2]>> \in old THEN Merged(r, <<"old", x[2]>>) ELSE r[x]
<1>1. Expanded(r) = [x \in D |-> val(x)]
  BY DEF Expanded
<1>2. \A s \in Sessions : <<"old", s>> \in D <=> <<"old", s>> \in DOMAIN r
  BY DEF AsNew, RegFile
<1>3. \A s \in Sessions : <<"new", s>> \in D <=> <<"old", s>> \in DOMAIN r \/ <<"new", s>> \in DOMAIN r
  BY DEF AsNew, RegFile, Origins
<1>4. D \subseteq Origins \X Sessions
  BY DEF AsNew, RegFile, Origins
<1>5. \A s \in Sessions : /\ val(<<"old", s>>) = r[<<"old", s>>]
                          /\ <<"old", s>> \in DOMAIN r => val(<<"new", s>>) = Merged(r, <<"old", s>>)
                          /\ <<"old", s>> \notin DOMAIN r => val(<<"new", s>>) = r[<<"new", s>>]
  OBVIOUS
<1>6. ASSUME NEW x \in D PROVE val(x) \in Adapter
  <2>1. PICK o \in Origins, s \in Sessions : x = <<o, s>>
    BY <1>4, <1>6
  <2>2. CASE o = "new" /\ <<"old", s>> \in DOMAIN r
    BY <1>5, <2>1, <2>2, MergedServes
  <2>3. CASE o = "new" /\ <<"old", s>> \notin DOMAIN r
    BY <1>3, <1>5, <1>6, <2>1, <2>3 DEF RegFile
  <2>4. CASE o = "old"
    BY <1>2, <1>5, <1>6, <2>1, <2>4 DEF RegFile
  <2> QED
    BY <2>2, <2>3, <2>4 DEF Origins
<1> HIDE DEF D, val
<1>7. DOMAIN Expanded(r) = D /\ \A x \in D : Expanded(r)[x] = val(x)
  BY <1>1
<1>8. RegFile(Expanded(r))
  BY <1>1, <1>4, <1>6, <1>7 DEF RegFile
<1> QED
  BY <1>2, <1>3, <1>5, <1>7, <1>8

LEMMA MigratedAt ==
    ASSUME NEW r, RegFile(r)
    PROVE  /\ RegFile(Migrated(r))
           /\ \A s \in Sessions :
                 /\ <<"old", s>> \notin DOMAIN Migrated(r)
                 /\ <<"new", s>> \in DOMAIN Migrated(r) <=> <<"new", s>> \in DOMAIN Expanded(r)
                 /\ <<"new", s>> \in DOMAIN Expanded(r) => Migrated(r)[<<"new", s>>] = Expanded(r)[<<"new", s>>]
<1> DEFINE D == {y \in DOMAIN Expanded(r) : y[1] # "old"}
<1>1. Migrated(r) = [x \in D |-> Expanded(r)[x]]
  BY DEF Migrated
<1>2. RegFile(Expanded(r))
  BY ExpandedAt
<1>3. D \subseteq Origins \X Sessions
  BY <1>2 DEF RegFile
<1>4. \A s \in Sessions : <<"old", s>> \notin D /\ (<<"new", s>> \in D <=> <<"new", s>> \in DOMAIN Expanded(r))
  OBVIOUS
<1>5. \A x \in D : Expanded(r)[x] \in Adapter
  BY <1>2 DEF RegFile
<1> HIDE DEF D
<1>6. DOMAIN Migrated(r) = D /\ \A x \in D : Migrated(r)[x] = Expanded(r)[x]
  BY <1>1
<1> QED
  BY <1>1, <1>3, <1>4, <1>5, <1>6 DEF RegFile

-----------------------------------------------------------------------------
(* Types. *)

LocalSteps(s) == RememberAdapter(s) \/ RetainReplyAdapter(s) \/ ForgetBus(s)
Requests(s) ==
    \E o \in Origins : \/ SendRequest(s, o)
                       \/ \E b \in Buses : RegisterRequest(s, b, o) \/ LeaveRequest(s, b, o)

LEMMA StepCases ==
    Next <=> Move \/ Worker \/ \E s \in Sessions : LocalSteps(s) \/ CommandDies(s) \/ Requests(s)
  BY Zenon DEF Next, Commands, LocalSteps, Requests

LEMMA MoveKeeps == Move => UNCHANGED <<hub, worker, cmd, window, astray, stranded, sent>>
  BY DEF Move, Begin, AcquireWorker, GiveUp, ReadFiles, Advance, Fail, FailAgain, MoveDies, commands

LEMMA WorkerKeeps == Worker => UNCHANGED <<client, regs, members, pc, saved, commands, interrupted>>
  BY DEF Worker, StartWorker, StopWorker, HandOver, Record, Ack, AckLost, WorkerDies, Fetch, hub, files

LEMMA CommandsKeep ==
    ASSUME NEW s \in Sessions, LocalSteps(s) \/ CommandDies(s) \/ Requests(s)
    PROVE  UNCHANGED <<client, journal, settled, pc, saved, worker, interrupted>>
<1>1. CASE LocalSteps(s)
  BY <1>1 DEF LocalSteps, RememberAdapter, RetainReplyAdapter, ForgetBus, hub
<1>2. CASE CommandDies(s)
  BY <1>2 DEF CommandDies, files, hub
<1>3. CASE Requests(s)
  BY <1>3 DEF Requests, SendRequest, RegisterRequest, LeaveRequest, files, hub
<1> QED
  BY <1>1, <1>2, <1>3

LEMMA CommandCases ==
    ASSUME CommandTypes, NEW s \in Sessions
    PROVE  /\ cmd[s] \in Commanded /\ members[s] \in SUBSET Buses /\ window[s] \in 0..MaxWindow
           /\ cmd[s].op = "register" => cmd[s].url \in Origins /\ cmd[s].buses \in SUBSET Buses
           /\ cmd[s].op = "leave" => cmd[s].url \in Origins /\ cmd[s].bus \in Buses
           /\ cmd[s].op = "retain" => cmd[s].url \in Origins /\ cmd[s].until \in 1..MaxWindow
           /\ cmd[s].op \in {"none", "register", "leave", "retain"}
           /\ cmd[s] = Nothing <=> cmd[s].op = "none"
<1>1. cmd[s] \in Commanded /\ members[s] \in SUBSET Buses /\ window[s] \in 0..MaxWindow
  BY DEF CommandTypes
<1> QED
  BY <1>1 DEF Commanded, Nothing

LEMMA CommandTypesStep == CommandTypes /\ [Next]_vars => CommandTypes'
<1> SUFFICES ASSUME CommandTypes, [Next]_vars PROVE CommandTypes'
  OBVIOUS
<1>1. CASE UNCHANGED <<members, cmd, window, astray, stranded, sent>>
  BY <1>1 DEF CommandTypes
<1>2. ASSUME NEW s \in Sessions, LocalSteps(s) PROVE CommandTypes'
  <2>1. UNCHANGED <<members, sent>> /\ cmd' = [cmd EXCEPT ![s] = Nothing] /\ astray' \subseteq astray
    BY <1>2 DEF LocalSteps, RememberAdapter, RetainReplyAdapter, ForgetBus, Finished, hub
  <2>2. stranded' \in {stranded, stranded \cup {s}}
    BY <1>2 DEF LocalSteps, RememberAdapter, RetainReplyAdapter, ForgetBus
  <2>3. \/ UNCHANGED window
        \/ cmd[s].op = "retain" /\ window' = [window EXCEPT ![s] = Max2(window[s], cmd[s].until)]
    BY <1>2 DEF LocalSteps, RememberAdapter, RetainReplyAdapter, ForgetBus
  <2>4. cmd[s].op = "retain" => Max2(window[s], cmd[s].until) \in 0..MaxWindow
    BY CommandCases, RehomeAssumption DEF Max2
  <2>5. window' \in [Sessions -> 0..MaxWindow]
    BY <2>3, <2>4 DEF CommandTypes
  <2>6. cmd' \in [Sessions -> Commanded]
    BY <2>1 DEF CommandTypes, Commanded
  <2> QED
    BY <2>1, <2>2, <2>5, <2>6 DEF CommandTypes
<1>3. ASSUME NEW s \in Sessions, CommandDies(s) PROVE CommandTypes'
  BY <1>3 DEF CommandDies, CommandTypes, Finished, Commanded, hub
<1>4. ASSUME NEW s \in Sessions, NEW o \in Origins, SendRequest(s, o) PROVE CommandTypes'
  <2>1. sent + 1 \in 1..MaxWindow
    BY <1>4, RehomeAssumption DEF SendRequest, CommandTypes
  <2>2. [op |-> "retain", url |-> o, until |-> sent + 1] \in Commanded
    BY <2>1 DEF Commanded
  <2>3. sent + 1 \in 0..MaxWindow
    BY <2>1
  <2> QED
    BY <1>4, <2>2, <2>3 DEF SendRequest, CommandTypes, hub
<1>5. ASSUME NEW s \in Sessions, NEW o \in Origins, NEW b \in Buses,
             RegisterRequest(s, b, o) \/ LeaveRequest(s, b, o)
      PROVE  CommandTypes'
  <2>1. members' \in [Sessions -> SUBSET Buses]
    BY <1>5 DEF RegisterRequest, LeaveRequest, CommandTypes
  <2>2. members'[s] \in SUBSET Buses
    BY <2>1
  <2>3. /\ [op |-> "register", url |-> o, buses |-> members'[s]] \in Commanded
        /\ [op |-> "leave", url |-> o, bus |-> b] \in Commanded
    BY <2>2 DEF Commanded
  <2>4. cmd' \in [Sessions -> Commanded]
    BY <1>5, <2>3 DEF RegisterRequest, LeaveRequest, CommandTypes
  <2> QED
    BY <1>5, <2>1, <2>4 DEF RegisterRequest, LeaveRequest, CommandTypes
<1>6. Move \/ Worker \/ UNCHANGED vars => UNCHANGED <<members, cmd, window, astray, stranded, sent>>
  BY MoveKeeps, WorkerKeeps DEF vars, hub, commands
<1> QED
  BY <1>1, <1>2, <1>3, <1>4, <1>5, <1>6, StepCases DEF Requests

LEMMA EnvelopeCases ==
    ASSUME WorkerTypes
    PROVE  /\ envelope.at \in {"down", "free", "fetched", "handed", "recorded"}
           /\ envelope = Down <=> envelope.at = "down"
           /\ envelope = Free <=> envelope.at = "free"
           /\ envelope.at \in {"fetched", "handed", "recorded"} =>
                 /\ envelope.url \in Origins /\ envelope.mail \in Mail
                 /\ envelope \in [at : {"fetched", "handed", "recorded"}, url : Origins, mail : Mail]
  BY DEF WorkerTypes, Envelopes, Down, Free

LEMMA WorkerTypesStep == WorkerTypes /\ MoveInv /\ [Next]_vars => WorkerTypes'
<1> SUFFICES ASSUME WorkerTypes, MoveInv, [Next]_vars PROVE WorkerTypes'
  OBVIOUS
<1>1. CASE Worker
  <2>1. UNCHANGED pc
    BY <1>1, WorkerKeeps
  <2>2. CASE StartWorker \/ StopWorker
    BY <2>2 DEF StartWorker, StopWorker, WorkerTypes, Envelopes, files, hub, HoldsWorker, Forward, Undoing
  <2>3. ASSUME NEW o \in Origins, NEW m \in Mail, Fetch(o, m) PROVE WorkerTypes'
    <3>1. envelope' \in Envelopes
      BY <2>3 DEF Fetch, Envelopes
    <3> QED
      BY <2>3, <3>1 DEF Fetch, WorkerTypes, files, hub, HoldsWorker, Free, Down
  <2>4. CASE HandOver \/ Record \/ Ack \/ AckLost \/ WorkerDies
    <3>1. envelope.at \in {"fetched", "handed", "recorded"}
      BY <2>4, EnvelopeCases DEF HandOver, Record, Ack, AckLost, WorkerDies
    <3>2. envelope.url \in Origins /\ envelope.mail \in Mail /\ envelope # Down /\ ~HoldsWorker
      BY <3>1, EnvelopeCases DEF WorkerTypes
    <3>3. envelope' \in Envelopes
      BY <2>4, <3>1, EnvelopeCases DEF HandOver, Record, Ack, AckLost, WorkerDies, Envelopes
    <3>4. journal' \subseteq Origins \X Mail /\ recorded' \subseteq Mail /\ settled' \subseteq Mail
      BY <2>4, <3>2 DEF HandOver, Record, Ack, AckLost, WorkerDies, WorkerTypes, files, hub
    <3> QED
      BY <2>1, <3>2, <3>3, <3>4 DEF WorkerTypes, HoldsWorker
  <2> QED
    BY <1>1, <2>2, <2>3, <2>4 DEF Worker
<1>2. CASE Move
  <2>1. UNCHANGED <<recorded, settled, envelope>>
    BY <1>2, MoveKeeps DEF hub, worker
  <2>2. journal' \subseteq Origins \X Mail
    <3>1. CASE Write
      <4>1. pc \in Forward \cup Undoing
        BY <3>1 DEF Write, Forward, Undoing
      <4>2. saved.copied \subseteq Mail
        BY <4>1 DEF MoveInv, HoldsFiles
      <4> QED
        BY <3>1, <4>2 DEF Write, WorkerTypes, Origins
    <3>2. CASE UNCHANGED journal
      BY <3>2 DEF WorkerTypes
    <3> QED
      BY <1>2, <3>1, <3>2 DEF Move, Begin, AcquireWorker, GiveUp, ReadFiles, Advance, Fail, FailAgain, MoveDies,
                              files
  <2>3. HoldsWorker' => envelope = Down
    BY <1>2 DEF Move, Begin, AcquireWorker, GiveUp, ReadFiles, Advance, Fail, FailAgain, MoveDies,
                WorkerTypes, HoldsWorker, NextStep, FirstStep, Forward, Undoing
  <2> QED
    BY <2>1, <2>2, <2>3 DEF WorkerTypes
<1>3. ASSUME NEW s \in Sessions, LocalSteps(s) \/ CommandDies(s) \/ Requests(s) PROVE WorkerTypes'
  BY <1>3, CommandsKeep DEF WorkerTypes, worker, HoldsWorker
<1>4. CASE UNCHANGED vars
  BY <1>4 DEF vars, files, hub, worker, WorkerTypes, HoldsWorker
<1> QED
  BY <1>1, <1>2, <1>3, <1>4, StepCases

-----------------------------------------------------------------------------
(* The steps of the move, and what the commands write. *)

LEMMA HomeAt ==
    ASSUME NEW s \in Sessions, cmd[s].url \in Origins
    PROVE  Home(s) \in Origins \X Sessions /\ Home(s) = <<canonical_hub(cmd[s].url), s>>
  BY DEF Home, canonical_hub, Origins

LEMMA ChangedAt ==
    ASSUME RegFile(regs), NEW s \in Sessions, cmd[s].url \in Origins, NEW r \in Adapter, Changed(s, r)
    PROVE  /\ RegFile(regs') /\ DOMAIN regs' = DOMAIN regs \cup {Home(s)} /\ regs'[Home(s)] = r
           /\ \A x \in DOMAIN regs : x # Home(s) => regs'[x] = regs[x]
<1>1. Home(s) \in Origins \X Sessions
  BY HomeAt
<1> QED
  BY <1>1 DEF Changed, RegFile

\* What a command leaves in the file for its session.
LEMMA LocalWrites ==
    ASSUME CommandTypes, RegFile(regs), NEW s \in Sessions, LocalSteps(s)
    PROVE  /\ ~HoldsFiles /\ cmd[s].url \in Origins /\ RegFile(regs')
           /\ DOMAIN regs \subseteq DOMAIN regs' /\ DOMAIN regs' \subseteq DOMAIN regs \cup {Home(s)}
           /\ \A x \in DOMAIN regs : x # Home(s) => regs'[x] = regs[x]
           /\ cmd[s].op = "register" =>
                 /\ Home(s) \in DOMAIN regs' /\ regs'[Home(s)].buses = cmd[s].buses
                 /\ Home(s) \in DOMAIN regs => regs'[Home(s)].reply_until = regs[Home(s)].reply_until
           /\ cmd[s].op = "retain" => DOMAIN regs' = DOMAIN regs
           /\ cmd[s].op = "retain" /\ Home(s) \in DOMAIN regs =>
                 /\ regs'[Home(s)].buses = regs[Home(s)].buses
                 /\ regs'[Home(s)].reply_until = Max2(regs[Home(s)].reply_until, cmd[s].until)
           /\ cmd[s].op = "leave" => DOMAIN regs' = DOMAIN regs
           /\ cmd[s].op = "leave" /\ Home(s) \in DOMAIN regs =>
                 /\ regs'[Home(s)].buses = regs[Home(s)].buses \ {cmd[s].bus}
                 /\ regs'[Home(s)].reply_until = regs[Home(s)].reply_until
<1>1. Home(s) \in DOMAIN regs => /\ regs[Home(s)] \in Adapter
                                 /\ regs[Home(s)].buses \in SUBSET Buses
                                 /\ regs[Home(s)].reply_until \in 0..MaxWindow
  BY DEF RegFile, Adapter
<1>2. CASE RememberAdapter(s)
  <2>1. ~HoldsFiles /\ cmd[s].op = "register" /\ cmd[s].url \in Origins /\ cmd[s].buses \in SUBSET Buses
    BY <1>2, CommandCases DEF RememberAdapter
  <2> DEFINE until == IF Home(s) \in DOMAIN regs THEN regs[Home(s)].reply_until ELSE 0
             r == [buses |-> cmd[s].buses, reply_until |-> until]
  <2>2. r \in Adapter /\ r.buses = cmd[s].buses
    BY <1>1, <2>1, RehomeAssumption DEF Adapter
  <2>3. Home(s) \in DOMAIN regs => r.reply_until = regs[Home(s)].reply_until
    OBVIOUS
  <2>4. Changed(s, r)
    BY <1>2 DEF RememberAdapter
  <2> HIDE DEF r, until
  <2> QED
    BY <2>1, <2>2, <2>3, <2>4, ChangedAt
<1>3. CASE RetainReplyAdapter(s)
  <2>1. ~HoldsFiles /\ cmd[s].op = "retain" /\ cmd[s].url \in Origins /\ cmd[s].until \in 1..MaxWindow
    BY <1>3, CommandCases DEF RetainReplyAdapter
  <2>2. CASE Home(s) \in DOMAIN regs
    <3> DEFINE until == Max2(regs[Home(s)].reply_until, cmd[s].until)
               r == [regs[Home(s)] EXCEPT !.reply_until = until]
    <3>1. until \in 0..MaxWindow
      BY <1>1, <2>1, <2>2, RehomeAssumption DEF Max2
    <3> HIDE DEF until
    <3>2. r \in Adapter /\ r.buses = regs[Home(s)].buses /\ r.reply_until = until
      BY <1>1, <2>2, <3>1 DEF Adapter
    <3>3. Changed(s, r)
      BY <1>3, <2>2 DEF RetainReplyAdapter, until
    <3> HIDE DEF r
    <3> QED
      BY <2>1, <2>2, <3>2, <3>3, ChangedAt DEF until
  <2>3. CASE Home(s) \notin DOMAIN regs
    BY <1>3, <2>1, <2>3 DEF RetainReplyAdapter
  <2> QED
    BY <2>2, <2>3
<1>4. CASE ForgetBus(s)
  <2>1. ~HoldsFiles /\ cmd[s].op = "leave" /\ cmd[s].url \in Origins
    BY <1>4, CommandCases DEF ForgetBus
  <2>2. CASE Home(s) \in DOMAIN regs
    <3> DEFINE r == [regs[Home(s)] EXCEPT !.buses = regs[Home(s)].buses \ {cmd[s].bus}]
    <3>1. /\ r \in Adapter /\ r.buses = regs[Home(s)].buses \ {cmd[s].bus}
          /\ r.reply_until = regs[Home(s)].reply_until
      BY <1>1, <2>2 DEF Adapter
    <3>2. Changed(s, r)
      BY <1>4, <2>2 DEF ForgetBus
    <3> HIDE DEF r
    <3> QED
      BY <2>1, <2>2, <3>1, <3>2, ChangedAt
  <2>3. CASE Home(s) \notin DOMAIN regs
    BY <1>4, <2>1, <2>3 DEF ForgetBus
  <2> QED
    BY <2>2, <2>3
<1> QED
  BY <1>2, <1>3, <1>4 DEF LocalSteps

LEMMA UpdatedOld == Updated(AtOld) = AtNew
  BY DEF Updated, AtOld, AtNew

LEMMA AdvanceInv == MoveInv /\ Advance => MoveInv'
<1> SUFFICES ASSUME MoveInv, Advance PROVE MoveInv'
  OBVIOUS
<1> USE DEF Forward, Undoing, HoldsFiles
<1>1. pc \in DOMAIN NextStep /\ pc' = NextStep[pc] /\ UNCHANGED interrupted
  BY DEF Advance
<1>2. pc \in Forward \cup Undoing
  BY <1>1 DEF NextStep
<1>3. /\ saved.client = AtOld /\ RegFile(saved.regs) /\ saved.copied \subseteq Mail
      /\ client \in {AtOld, AtNew} /\ RegFile(regs) /\ Prefix /\ interrupted \in BOOLEAN
  BY <1>2 DEF MoveInv
<1>4. RegFile(Expanded(saved.regs)) /\ RegFile(Migrated(saved.regs))
  BY <1>3, ExpandedAt, MigratedAt
<1>5. client' \in {AtOld, AtNew} /\ RegFile(regs')
  BY <1>3, <1>4, UpdatedOld DEF Advance, Write
<1>6. CASE pc \in {"migrate", "uncopy"}
  <2>1. pc' = "idle"
    BY <1>1, <1>6 DEF NextStep
  <2> QED
    BY <1>1, <1>3, <1>5, <2>1 DEF MoveInv
<1>7. CASE pc \notin {"migrate", "uncopy"}
  <2>1. pc' \in Forward \cup Undoing /\ pc' # "idle" /\ saved' = saved
    BY <1>1, <1>2, <1>7 DEF NextStep, Advance
  <2>2. Prefix'
    <3>1. CASE pc = "copy"
      <4>1. pc' = "expand" /\ UNCHANGED <<client, regs>>
        BY <1>1, <3>1 DEF NextStep, Advance, Write
      <4> QED
        BY <1>3, <2>1, <3>1, <4>1 DEF Prefix
    <3>2. CASE pc = "expand"
      <4>1. pc' = "switch" /\ client' = client /\ regs' = Expanded(saved.regs)
        BY <1>1, <3>2 DEF NextStep, Advance, Write
      <4> QED
        BY <1>3, <2>1, <3>2, <4>1 DEF Prefix, Expanded, Merged, AsNew, Max2
    <3>3. CASE pc = "switch"
      <4>1. pc' = "migrate" /\ client' = AtNew /\ regs' = regs
        BY <1>1, <1>3, <3>3, UpdatedOld DEF NextStep, Advance, Write
      <4> QED
        BY <1>3, <2>1, <3>3, <4>1 DEF Prefix
    <3>4. CASE pc = "keep_both"
      <4>1. pc' = "switch_back" /\ regs' = Expanded(saved.regs)
        BY <1>1, <3>4 DEF NextStep, Advance, Write
      <4> QED
        BY <2>1, <4>1 DEF Prefix
    <3>5. CASE pc = "switch_back"
      <4>1. pc' = "restore" /\ client' = AtOld /\ regs' = regs
        BY <1>1, <1>3, <3>5 DEF NextStep, Advance, Write
      <4> QED
        BY <1>3, <2>1, <3>5, <4>1 DEF Prefix
    <3>6. CASE pc = "restore"
      <4>1. pc' = "uncopy" /\ client' = client /\ regs' = saved.regs
        BY <1>1, <3>6 DEF NextStep, Advance, Write
      <4> QED
        BY <1>3, <2>1, <3>6, <4>1 DEF Prefix
    <3> QED
      BY <1>2, <1>7, <3>1, <3>2, <3>3, <3>4, <3>5, <3>6
  <2> QED
    BY <1>1, <1>3, <1>5, <2>1, <2>2 DEF MoveInv
<1> QED
  BY <1>6, <1>7

LEMMA FailInv == MoveInv /\ Fail => MoveInv'
<1> SUFFICES ASSUME MoveInv, Fail PROVE MoveInv'
  OBVIOUS
<1> USE DEF Forward, Undoing, HoldsFiles
<1>1. pc \in Forward /\ pc' = "keep_both" /\ UNCHANGED <<saved, interrupted>>
  BY DEF Fail
<1>2. /\ saved.client = AtOld /\ RegFile(saved.regs) /\ saved.copied \subseteq Mail
      /\ client \in {AtOld, AtNew} /\ RegFile(regs) /\ Prefix /\ interrupted \in BOOLEAN
  BY <1>1 DEF MoveInv
<1>3. RegFile(Expanded(saved.regs)) /\ RegFile(Migrated(saved.regs))
  BY <1>2, ExpandedAt, MigratedAt
<1>4. \/ client' = AtOld /\ regs' \in {saved.regs, Expanded(saved.regs)}
      \/ client' = AtNew /\ regs' \in {Expanded(saved.regs), Migrated(saved.regs)}
  <2>1. CASE UNCHANGED files
    BY <1>1, <1>2, <2>1 DEF files, Prefix
  <2>2. CASE Write
    BY <1>1, <1>2, <2>2, UpdatedOld DEF Write, Prefix
  <2> QED
    BY <2>1, <2>2 DEF Fail
<1>5. Prefix'
  BY <1>1, <1>4 DEF Prefix
<1> QED
  BY <1>1, <1>2, <1>3, <1>4, <1>5 DEF MoveInv

\* What a move that ends, finished, undone or cut off, leaves behind.
Leaves(r) ==
    \/ client' = AtOld /\ regs' = r
    \/ client' = AtNew /\ regs' = Migrated(r)
    \/ interrupted' /\ client' = AtOld /\ regs' = Expanded(r)
    \/ interrupted' /\ client' = AtNew /\ regs' \in {Expanded(r), Migrated(r)}

LEMMA EndOfMove ==
    ASSUME MoveInv, Move, HoldsFiles, ~HoldsFiles' PROVE Leaves(saved.regs) /\ pc' = "idle"
<1> USE DEF Forward, Undoing, HoldsFiles
<1>1. saved.client = AtOld /\ client \in {AtOld, AtNew} /\ Prefix
  BY DEF MoveInv
<1>2. CASE Advance
  <2>1. /\ pc = "migrate" => client = AtNew /\ UNCHANGED client /\ regs' = Migrated(saved.regs) /\ pc' = "idle"
        /\ pc = "uncopy" => client = AtOld /\ UNCHANGED <<client, regs>> /\ regs = saved.regs /\ pc' = "idle"
        /\ pc \in {"migrate", "uncopy"}
    BY <1>1, <1>2 DEF Advance, Write, NextStep, Prefix
  <2> QED
    BY <2>1 DEF Leaves
<1>3. CASE FailAgain
  <2>1. pc \in Undoing /\ interrupted' /\ pc' = "idle" /\ (Write \/ UNCHANGED <<client, regs>>)
    BY <1>3 DEF FailAgain, files
  <2>2. CASE UNCHANGED <<client, regs>>
    BY <1>1, <2>1, <2>2 DEF Prefix, Leaves
  <2>3. CASE Write
    BY <1>1, <2>1, <2>3 DEF Write, Prefix, Leaves
  <2> QED
    BY <2>1, <2>2, <2>3
<1>4. CASE MoveDies
  <2>1. interrupted' /\ pc' = "idle" /\ UNCHANGED <<client, regs>>
    BY <1>4 DEF MoveDies, files
  <2> QED
    BY <1>1, <2>1 DEF Prefix, Leaves
<1>5. ~Begin /\ ~AcquireWorker /\ ~GiveUp /\ ~ReadFiles /\ ~Fail
  BY DEF Begin, AcquireWorker, GiveUp, ReadFiles, Fail
<1> QED
  BY <1>2, <1>3, <1>4, <1>5 DEF Move

LEMMA MoveInvStep == MoveInv /\ CommandTypes /\ [Next]_vars => MoveInv'
<1> SUFFICES ASSUME MoveInv, CommandTypes, [Next]_vars PROVE MoveInv'
  OBVIOUS
<1>1. CASE Advance
  BY <1>1, AdvanceInv
<1>2. CASE Fail
  BY <1>2, FailInv
<1>3. CASE Begin
  <2>1. pc' = "pause" /\ UNCHANGED <<files, interrupted>> /\ client = AtOld
    BY <1>3 DEF Begin, MoveInv, AtNew
  <2> QED
    BY <2>1 DEF MoveInv, files, HoldsFiles, Forward, Undoing
<1>4. CASE AcquireWorker \/ GiveUp
  BY <1>4 DEF AcquireWorker, GiveUp, MoveInv, files, HoldsFiles, Forward, Undoing
<1>5. CASE ReadFiles
  <2>1. pc' = "copy" /\ UNCHANGED <<files, interrupted>> /\ client = AtOld /\ saved' = Original
    BY <1>5 DEF ReadFiles, FirstStep, MoveInv
  <2>2. saved'.client = AtOld /\ saved'.regs = regs /\ saved'.copied \subseteq Mail
    BY <2>1 DEF Original
  <2>3. Prefix'
    BY <2>1, <2>2 DEF Prefix, files
  <2> QED
    BY <2>1, <2>2, <2>3 DEF MoveInv, files, Forward
<1>6. CASE (FailAgain \/ MoveDies) /\ HoldsFiles
  <2>1. pc' = "idle" /\ interrupted' \in BOOLEAN /\ ~HoldsFiles'
    BY <1>6 DEF FailAgain, MoveDies, MoveInv, HoldsFiles, Forward, Undoing
  <2>2. Leaves(saved.regs) /\ RegFile(saved.regs)
    BY <1>6, <2>1, EndOfMove DEF Move, MoveInv
  <2>3. client' \in {AtOld, AtNew} /\ RegFile(regs')
    BY <2>2, ExpandedAt, MigratedAt DEF Leaves
  <2> QED
    BY <2>1, <2>3 DEF MoveInv, HoldsFiles, Forward, Undoing
<1>7. CASE (FailAgain \/ MoveDies) /\ ~HoldsFiles
  <2>1. MoveDies /\ pc' = "idle" /\ UNCHANGED files /\ interrupted' = (interrupted \/ HoldsFiles)
    BY <1>7 DEF FailAgain, MoveDies, HoldsFiles
  <2> QED
    BY <1>7, <2>1 DEF MoveInv, files, HoldsFiles, Forward, Undoing
<1>8. CASE UNCHANGED <<client, regs, pc, saved, interrupted>>
  BY <1>8 DEF MoveInv, HoldsFiles, Prefix
<1>9. ASSUME NEW s \in Sessions, LocalSteps(s) PROVE MoveInv'
  <2>1. ~HoldsFiles /\ RegFile(regs') /\ UNCHANGED <<client, pc, interrupted>>
    BY <1>9, LocalWrites, CommandsKeep DEF MoveInv
  <2> QED
    BY <2>1 DEF MoveInv, HoldsFiles
<1>10. ASSUME NEW s \in Sessions, CommandDies(s) \/ Requests(s)
       PROVE  UNCHANGED <<client, regs, pc, saved, interrupted>>
  <2>1. UNCHANGED regs
    BY <1>10 DEF CommandDies, Requests, SendRequest, RegisterRequest, LeaveRequest, files
  <2> QED
    BY <1>10, <2>1, CommandsKeep
<1>11. Worker \/ UNCHANGED vars => UNCHANGED <<client, regs, pc, saved, interrupted>>
  BY WorkerKeeps DEF vars, files
<1> QED
  BY <1>1, <1>2, <1>3, <1>4, <1>5, <1>6, <1>7, <1>8, <1>9, <1>10, <1>11, StepCases DEF Move

-----------------------------------------------------------------------------
(* Receipts. *)

Knowing == JournalInv /\ EnvelopeInv /\ DedupMoves

LEMMA ConnectedAt ==
    ASSUME MoveInv
    PROVE  /\ client.connections = {"old"} \/ client.connections = {"new"}
           /\ client = AtOld <=> client.connections = {"old"}
           /\ client = AtNew <=> client.connections = {"new"}
  BY DEF MoveInv, AtOld, AtNew

LEMMA SameJournal ==
    JournalInv /\ UNCHANGED <<client, pc, saved, journal, recorded>> => JournalInv'
<1> SUFFICES ASSUME JournalInv, UNCHANGED <<client, pc, saved, journal, recorded>> PROVE JournalInv'
  OBVIOUS
<1>1. Original.copied' = Original.copied
  BY DEF Original, OnRecord
<1>2. \A o : KnownAt(o)' <=> KnownAt(o)
  BY DEF KnownAt, OnRecord
<1> QED
  BY <1>1, <1>2 DEF JournalInv, HoldsFiles

LEMMA KnowingWorker == Knowing /\ WorkerTypes /\ MoveInv /\ Worker => Knowing'
<1> SUFFICES ASSUME Knowing, WorkerTypes, MoveInv, Worker PROVE Knowing'
  OBVIOUS
<1>1. UNCHANGED <<client, regs, pc, saved>>
  BY WorkerKeeps
<1>2. CASE StartWorker \/ StopWorker \/ HandOver \/ Ack \/ AckLost \/ WorkerDies
  <2>1. UNCHANGED <<journal, recorded>>
    BY <1>2 DEF StartWorker, StopWorker, HandOver, Ack, AckLost, WorkerDies, files
  <2>2. JournalInv'
    BY <1>1, <2>1, SameJournal DEF Knowing
  <2>3. envelope' \in {Down, Free} \/ (envelope'.at = "handed" /\ envelope'.url = envelope.url
                                       /\ envelope \notin {Down, Free})
    BY <1>2, EnvelopeCases DEF StartWorker, StopWorker, HandOver, Ack, AckLost, WorkerDies
  <2> QED
    BY <1>1, <2>2, <2>3 DEF Knowing, EnvelopeInv, DedupMoves, Down, Free
<1>3. ASSUME NEW o \in Origins, NEW m \in Mail, Fetch(o, m) PROVE Knowing'
  <2>1. /\ o \in client.connections /\ UNCHANGED <<journal, recorded>>
        /\ envelope'.url = o /\ envelope'.mail = m
        /\ envelope'.at = "fetched" => ~OnRecord(o, m)
    BY <1>3 DEF Fetch, files
  <2>2. JournalInv'
    BY <1>1, <2>1, SameJournal DEF Knowing
  <2>3. envelope'.at = "fetched" => m \notin recorded
    BY <2>1 DEF Knowing, JournalInv, KnownAt
  <2> QED
    BY <1>1, <2>1, <2>2, <2>3 DEF Knowing, EnvelopeInv, DedupMoves
<1>4. CASE Record
  <2>1. envelope.at = "handed" /\ envelope.url \in client.connections /\ ~HoldsWorker
    BY <1>4, EnvelopeCases DEF Record, Knowing, EnvelopeInv, WorkerTypes
  <2>2. /\ journal' = journal \cup {<<envelope.url, envelope.mail>>}
        /\ recorded' = recorded \cup {envelope.mail}
        /\ envelope'.at = "recorded" /\ envelope'.url = envelope.url
    BY <1>4, EnvelopeCases DEF Record
  <2>3. client.connections = {envelope.url}
    BY <2>1, ConnectedAt
  <2>4. \A o \in client.connections : KnownAt(o)'
    BY <2>2, <2>3 DEF Knowing, JournalInv, KnownAt, OnRecord
  <2>5. ~HoldsFiles /\ pc \notin {"copy", "expand", "switch"}
    BY <2>1 DEF HoldsWorker, HoldsFiles, Forward
  <2> QED
    BY <1>1, <2>1, <2>2, <2>4, <2>5 DEF Knowing, JournalInv, EnvelopeInv, DedupMoves, HoldsFiles
<1> QED
  BY <1>2, <1>3, <1>4 DEF Worker

LEMMA KnowingMove == Knowing /\ WorkerTypes /\ MoveInv /\ MoveInv' /\ Move => Knowing'
<1> SUFFICES ASSUME Knowing, WorkerTypes, MoveInv, MoveInv', Move PROVE Knowing'
  OBVIOUS
<1> USE DEF Forward, Undoing, HoldsFiles
<1>1. UNCHANGED <<envelope, recorded>> /\ (HoldsWorker => envelope = Down)
  BY MoveKeeps DEF worker, WorkerTypes
<1>2. DedupMoves'
  BY <1>1 DEF Knowing, DedupMoves
<1>3. CASE UNCHANGED files /\ pc' \in {"idle", "pause", "read", "keep_both"} /\ (pc' = "keep_both" => HoldsFiles)
  <2>1. JournalInv'
    BY <1>1, <1>3 DEF Knowing, JournalInv, KnownAt, OnRecord, files
  <2>2. EnvelopeInv'
    BY <1>1, <1>3 DEF Knowing, EnvelopeInv, files
  <2> QED
    BY <1>2, <2>1, <2>2 DEF Knowing
<1>4. CASE ReadFiles
  <2>1. pc' = "copy" /\ UNCHANGED files /\ saved' = Original /\ client = AtOld
    BY <1>4 DEF ReadFiles, FirstStep, MoveInv
  <2>2. KnownAt("old")
    BY <2>1 DEF Knowing, JournalInv, AtOld
  <2>3. saved'.copied = Original.copied'
    BY <2>1 DEF Original, OnRecord, files
  <2>4. JournalInv'
    BY <1>1, <2>1, <2>2, <2>3 DEF Knowing, JournalInv, KnownAt, OnRecord, files
  <2> QED
    BY <1>1, <1>2, <2>1, <2>4 DEF Knowing, EnvelopeInv, files
<1>5. CASE Write /\ pc' # "copy"
  <2>1. HoldsFiles /\ envelope = Down /\ HoldsWorker
    BY <1>1, <1>5 DEF Write, HoldsWorker
  <2>2. KnownAt("old") /\ (\A o \in client.connections : KnownAt(o))
    BY <2>1 DEF Knowing, JournalInv
  <2>3. KnownAt("old")'
    BY <1>1, <1>5, <2>2 DEF Write, KnownAt, OnRecord
  <2>4. pc = "copy" => KnownAt("new")'
    <3> SUFFICES ASSUME pc = "copy", NEW m \in recorded PROVE <<"new", m>> \in journal'
      BY <1>1 DEF KnownAt, OnRecord
    <3>1. m \in Mail /\ OnRecord("old", m) /\ saved.copied = Original.copied
      BY <2>2 DEF KnownAt, Knowing, JournalInv, WorkerTypes
    <3>2. OnRecord("new", m) \/ m \in saved.copied
      BY <3>1 DEF Original
    <3> QED
      BY <1>5, <3>2 DEF Write, OnRecord
  <2>5. pc \in {"expand", "switch", "migrate"} /\ KnownAt("new") => KnownAt("new")'
    BY <1>1, <1>5 DEF Write, KnownAt, OnRecord
  <2>6. pc \in {"expand", "switch", "migrate"} => KnownAt("new")
    <3>1. pc = "migrate" => "new" \in client.connections
      BY DEF MoveInv, Prefix, AtNew
    <3> QED
      BY <2>2, <3>1 DEF Knowing, JournalInv
  <2>7. client' = AtNew => KnownAt("new")'
    <3>1. pc \in Undoing /\ client' = AtNew => client = AtNew /\ UNCHANGED journal
      BY <1>5 DEF Write, MoveInv, Prefix, AtOld, AtNew
    <3>2. client = AtNew => KnownAt("new")
      BY <2>2 DEF AtNew
    <3>3. pc \in Forward \cup Undoing
      BY <2>1
    <3> QED
      BY <1>1, <2>4, <2>5, <2>6, <3>1, <3>2, <3>3 DEF KnownAt, OnRecord
  <2>8. \A o \in client'.connections : KnownAt(o)'
    BY <2>3, <2>7 DEF MoveInv, AtOld, AtNew
  <2>9. pc' \in {"expand", "switch"} => pc \in {"copy", "expand"}
    BY <1>5 DEF Write, Move, Begin, AcquireWorker, GiveUp, ReadFiles, Advance, Fail, FailAgain, MoveDies, NextStep
  <2>10. JournalInv'
    BY <1>5, <2>3, <2>4, <2>5, <2>6, <2>8, <2>9 DEF JournalInv
  <2> QED
    BY <1>1, <1>2, <2>1, <2>10 DEF Knowing, EnvelopeInv
<1>6. Advance => Write /\ pc' # "copy"
  BY DEF Advance, NextStep
<1> QED
  BY <1>3, <1>4, <1>5, <1>6 DEF Move, Begin, AcquireWorker, GiveUp, Fail, FailAgain, MoveDies

LEMMA KnowingStep == Knowing /\ WorkerTypes /\ MoveInv /\ MoveInv' /\ [Next]_vars => Knowing'
<1> SUFFICES ASSUME Knowing, WorkerTypes, MoveInv, MoveInv', [Next]_vars PROVE Knowing'
  OBVIOUS
<1>1. CASE UNCHANGED <<client, pc, saved, journal, recorded, envelope>>
  BY <1>1, SameJournal DEF Knowing, EnvelopeInv, DedupMoves
<1>2. ASSUME NEW s \in Sessions, LocalSteps(s) \/ CommandDies(s) \/ Requests(s)
      PROVE  UNCHANGED <<client, pc, saved, journal, recorded, envelope>>
  BY <1>2, CommandsKeep DEF worker
<1>3. UNCHANGED vars => UNCHANGED <<client, pc, saved, journal, recorded, envelope>>
  BY DEF vars, files, worker
<1> QED
  BY <1>1, <1>2, <1>3, KnowingWorker, KnowingMove, StepCases

-----------------------------------------------------------------------------
(* What a session is owed. *)

\* The file at the end of a move serves every session as the one it read did.
LEMMA LeavesOwed ==
    ASSUME CommandTypes, NEW s \in Sessions, NEW r, RegFile(r), Leaves(r), Owed(r, "old", s),
           UNCHANGED <<members, window, cmd, astray, stranded>>, interrupted => interrupted',
           interrupted \in BOOLEAN, interrupted' \in BOOLEAN
    PROVE  Owed(regs, IF client = AtOld THEN "old" ELSE "new", s)'
<1> DEFINE x == <<"old", s>>
           y == <<"new", s>>
<1>1. AtOld # AtNew
  BY DEF AtOld, AtNew
<1>2. /\ x \in DOMAIN Expanded(r) <=> x \in DOMAIN r
      /\ x \in DOMAIN r => Expanded(r)[x] = r[x]
      /\ y \in DOMAIN Expanded(r) <=> x \in DOMAIN r \/ y \in DOMAIN r
      /\ y \in DOMAIN Migrated(r) <=> y \in DOMAIN Expanded(r)
      /\ y \in DOMAIN Expanded(r) => Migrated(r)[y] = Expanded(r)[y]
  BY ExpandedAt, MigratedAt
<1>3. x \in DOMAIN r =>
        /\ r[x].buses \subseteq Expanded(r)[y].buses
        /\ r[x].reply_until <= Expanded(r)[y].reply_until
        /\ y \notin DOMAIN r => Expanded(r)[y] = r[x]
        /\ r[x] \in Adapter /\ Expanded(r)[y] \in Adapter
  BY ExpandedAt, MergedServes DEF RegFile
<1>4. CASE client' = AtOld /\ regs' = r
  BY <1>4 DEF Owed, ServesBuses, ServesWindow, RetainFinds, ToldBuses, NothingAhead
<1>5. CASE interrupted' /\ client' = AtOld /\ regs' = Expanded(r)
  BY <1>2, <1>5 DEF Owed, ServesBuses, ServesWindow, RetainFinds
<1>6. CASE client' = AtNew /\ regs' \in {Expanded(r), Migrated(r)} /\ (~interrupted' => regs' = Migrated(r))
  <2>1. client' # AtOld
    BY <1>1, <1>6
  <2>2. /\ y \in DOMAIN regs' <=> x \in DOMAIN r \/ y \in DOMAIN r
        /\ x \in DOMAIN r => regs'[y] = Expanded(r)[y]
    BY <1>2, <1>6
  <2>3. ServesWindow(r, "old", s) => ServesWindow(regs, "new", s)'
    <3>1. x \in DOMAIN r => /\ r[x].reply_until \in Int /\ Expanded(r)[y].reply_until \in Int
                            /\ 0..MaxWindow \subseteq Int
      BY <1>3, RehomeAssumption DEF Adapter
    <3> SUFFICES ASSUME window[s] # 0, x \in DOMAIN r, window[s] <= r[x].reply_until
                 PROVE  window[s] <= Expanded(r)[y].reply_until
      BY <2>2 DEF ServesWindow
    <3> QED
      BY <1>3, <3>1, CommandCases
  <2>4. ServesBuses(r, "old", s) => ServesBuses(regs, "new", s)'
    BY <1>3, <2>2 DEF ServesBuses
  <2>5. RetainFinds(r, "old", s) => RetainFinds(regs, "new", s)'
    BY <2>2 DEF RetainFinds
  <2>6. NothingAhead(r, "old", s) /\ ToldBuses(r, "old", s) => ToldBuses(regs, "new", s)'
    BY <1>3, <2>2 DEF NothingAhead, ToldBuses
  <2>7. NothingAhead(regs, "new", s)'
    BY DEF NothingAhead
  <2> QED
    BY <2>1, <2>3, <2>4, <2>5, <2>6, <2>7 DEF Owed
<1> QED
  BY <1>4, <1>5, <1>6 DEF Leaves

LEMMA SessionMove ==
    ASSUME CommandTypes, MoveInv, MoveInv', Move, NEW s \in Sessions, SessionInv(s)
    PROVE  SessionInv(s)'
<1>1. UNCHANGED <<members, window, cmd, astray, stranded>> /\ CommandTrue(s)'
  BY MoveKeeps DEF hub, SessionInv, CommandTrue
<1>2. CASE HoldsFiles /\ ~HoldsFiles'
  <2>1. Leaves(saved.regs) /\ Owed(saved.regs, "old", s) /\ RegFile(saved.regs)
    BY <1>2, EndOfMove DEF SessionInv, Base, Origin, MoveInv
  <2>2. interrupted => interrupted'
    BY DEF Move, Begin, AcquireWorker, GiveUp, ReadFiles, Advance, Fail, FailAgain, MoveDies
  <2>3. Owed(regs, IF client = AtOld THEN "old" ELSE "new", s)'
    BY <1>1, <2>1, <2>2, LeavesOwed DEF MoveInv
  <2> QED
    BY <1>1, <1>2, <2>3 DEF SessionInv, Base, Origin
<1>3. CASE ~(HoldsFiles /\ ~HoldsFiles')
  <2>1. Base' = Base /\ Origin' = Origin /\ interrupted' = interrupted
    <3>1. CASE HoldsFiles
      <4>1. UNCHANGED <<saved, interrupted>>
        BY <1>3, <3>1 DEF Move, Begin, AcquireWorker, GiveUp, ReadFiles, Advance, Fail, FailAgain, MoveDies,
                          HoldsFiles, Forward, Undoing
      <4> QED
        BY <1>3, <3>1, <4>1 DEF Base, Origin
    <3>2. CASE ~HoldsFiles
      <4>1. CASE ReadFiles
        BY <3>2, <4>1 DEF ReadFiles, FirstStep, Original, MoveInv, Base, Origin, HoldsFiles, Forward, files
      <4>2. CASE ~ReadFiles
        <5>1. Begin \/ AcquireWorker \/ GiveUp \/ MoveDies
          BY <3>2, <4>2 DEF Move, Advance, Fail, FailAgain, HoldsFiles, Forward, Undoing, NextStep
        <5>2. pc' \in {"idle", "pause", "read"} /\ UNCHANGED <<client, regs>>
          BY <5>1 DEF Begin, AcquireWorker, GiveUp, MoveDies, files
        <5>3. interrupted' = interrupted
          <6>1. CASE MoveDies
            <7>1. interrupted' = (interrupted \/ HoldsFiles) /\ interrupted \in BOOLEAN
              BY <6>1 DEF MoveDies, MoveInv
            <7> QED
              BY <3>2, <7>1
          <6> QED
            BY <5>1, <6>1 DEF Begin, AcquireWorker, GiveUp
        <5>4. ~HoldsFiles'
          BY <5>2 DEF HoldsFiles, Forward, Undoing
        <5> QED
          BY <3>2, <5>2, <5>3, <5>4 DEF Base, Origin
      <4> QED
        BY <4>1, <4>2
    <3> QED
      BY <3>1, <3>2
  <2>2. Owed(Base, Origin, s)'
    BY <1>1, <2>1 DEF SessionInv, Owed, ServesBuses, ServesWindow, RetainFinds, ToldBuses, NothingAhead
  <2> QED
    BY <1>1, <2>2 DEF SessionInv
<1> QED
  BY <1>2, <1>3

\* What a command of another session does is no concern of s.
LEMMA SessionOther ==
    ASSUME CommandTypes, MoveInv, NEW s \in Sessions, NEW t \in Sessions, t # s, SessionInv(s),
           LocalSteps(t) \/ CommandDies(t) \/ Requests(t)
    PROVE  SessionInv(s)'
<1>1. UNCHANGED <<client, pc, saved, interrupted>> /\ Origin' = Origin /\ (HoldsFiles' <=> HoldsFiles)
  BY CommandsKeep DEF Origin, HoldsFiles
<1>2. /\ members'[s] = members[s] /\ cmd'[s] = cmd[s] /\ window'[s] = window[s]
      /\ s \in astray' <=> s \in astray
      /\ s \in stranded' <=> s \in stranded
  <2>1. CASE LocalSteps(t)
    BY <2>1 DEF LocalSteps, RememberAdapter, RetainReplyAdapter, ForgetBus, Finished, CommandTypes, hub
  <2>2. CASE CommandDies(t)
    BY <2>2 DEF CommandDies, Finished, CommandTypes, hub
  <2>3. CASE Requests(t)
    BY <2>3 DEF Requests, SendRequest, RegisterRequest, LeaveRequest, CommandTypes, hub
  <2> QED
    BY <2>1, <2>2, <2>3
<1>3. \A o \in Origins : /\ <<o, s>> \in DOMAIN Base' <=> <<o, s>> \in DOMAIN Base
                         /\ <<o, s>> \in DOMAIN Base => Base'[<<o, s>>] = Base[<<o, s>>]
  <2>1. CASE LocalSteps(t)
    <3>1. ~HoldsFiles /\ cmd[t].url \in Origins /\ Home(t) = <<canonical_hub(cmd[t].url), t>>
      BY <2>1, LocalWrites, HomeAt DEF MoveInv
    <3>2. \A o \in Origins : <<o, s>> # Home(t)
      BY <3>1
    <3>3. Base = regs /\ Base' = regs'
      BY <1>1, <3>1 DEF Base
    <3>4. /\ DOMAIN regs \subseteq DOMAIN regs' /\ DOMAIN regs' \subseteq DOMAIN regs \cup {Home(t)}
          /\ \A x \in DOMAIN regs : x # Home(t) => regs'[x] = regs[x]
      BY <2>1, LocalWrites DEF MoveInv
    <3> QED
      BY <3>2, <3>3, <3>4
  <2>2. CASE CommandDies(t) \/ Requests(t)
    <3>1. UNCHANGED regs
      BY <2>2 DEF CommandDies, Requests, SendRequest, RegisterRequest, LeaveRequest, files
    <3> QED
      BY <1>1, <3>1 DEF Base
  <2> QED
    BY <2>1, <2>2
<1>4. Origin \in Origins /\ "new" \in Origins
  BY DEF Origin, Origins
<1>5. Owed(Base, Origin, s)'
  BY <1>1, <1>2, <1>3, <1>4 DEF SessionInv, Owed, ServesBuses, ServesWindow, RetainFinds, ToldBuses, NothingAhead
<1> QED
  BY <1>2, <1>5 DEF SessionInv, CommandTrue

LEMMA SessionLocal ==
    ASSUME CommandTypes, CommandTypes', MoveInv, NEW s \in Sessions, SessionInv(s), LocalSteps(s)
    PROVE  SessionInv(s)'
<1> DEFINE x == <<Origin, s>>
<1>1. ~HoldsFiles /\ cmd[s].url \in Origins /\ RegFile(regs) /\ RegFile(regs')
  BY LocalWrites DEF MoveInv
<1>2. UNCHANGED <<client, pc, interrupted, members>> /\ ~HoldsFiles'
  BY <1>1, CommandsKeep DEF HoldsFiles, LocalSteps, RememberAdapter, RetainReplyAdapter, ForgetBus, hub
<1>3. Base = regs /\ Base' = regs' /\ Origin' = Origin
  BY <1>1, <1>2 DEF Base, Origin
<1>4. cmd'[s].op = "none"
  BY DEF LocalSteps, RememberAdapter, RetainReplyAdapter, ForgetBus, Finished, CommandTypes, Nothing
<1>5. CASE s \in stranded'
  BY <1>4, <1>5 DEF SessionInv, CommandTrue, Owed, RetainFinds
<1>6. CASE s \notin stranded'
  <2>1. canonical_hub(cmd[s].url) \in client.connections /\ s \notin stranded
    BY <1>6 DEF LocalSteps, RememberAdapter, RetainReplyAdapter, ForgetBus
  <2>2. Home(s) = x /\ (cmd[s].url = "new" => Origin = "new")
    BY <1>1, <2>1, HomeAt, ConnectedAt DEF Origin, MoveInv, canonical_hub, AtOld, AtNew, Origins
  <2>3. ServesWindow(regs, Origin, s) /\ RetainFinds(regs, Origin, s)
        /\ (~interrupted => NothingAhead(regs, Origin, s))
    BY <1>3, <2>1 DEF SessionInv, Owed
  <2>4. /\ DOMAIN regs \subseteq DOMAIN regs' /\ DOMAIN regs' \subseteq DOMAIN regs \cup {x}
    BY <2>2, LocalWrites DEF MoveInv
  <2>5. ~interrupted' => NothingAhead(regs', Origin, s)
    BY <1>2, <2>3, <2>4 DEF NothingAhead
  <2>6. RetainFinds(regs, Origin, s)'
    BY <1>4 DEF RetainFinds
  <2>7. CASE RememberAdapter(s)
    <3>1. cmd[s].op = "register" /\ UNCHANGED window /\ cmd[s].buses = members[s]
      BY <2>7 DEF RememberAdapter, SessionInv, CommandTrue
    <3>2. /\ x \in DOMAIN regs' /\ regs'[x].buses = members[s]
          /\ x \in DOMAIN regs => regs'[x].reply_until = regs[x].reply_until
      BY <2>2, <3>1, LocalWrites DEF MoveInv
    <3>3. ServesWindow(regs, Origin, s)'
      BY <1>3, <2>3, <3>1, <3>2 DEF ServesWindow
    <3>4. ServesBuses(regs, Origin, s)' /\ ToldBuses(regs, Origin, s)'
      BY <1>2, <1>3, <3>2 DEF ServesBuses, ToldBuses
    <3> QED
      BY <1>3, <1>4, <2>5, <2>6, <3>3, <3>4 DEF SessionInv, CommandTrue, Owed, NothingAhead
  <2>8. CASE RetainReplyAdapter(s)
    <3>1. cmd[s].op = "retain" /\ UNCHANGED astray /\ cmd[s].until \in 1..MaxWindow
      BY <2>8, CommandCases DEF RetainReplyAdapter
    <3>2. x \in DOMAIN regs /\ DOMAIN regs' = DOMAIN regs /\ regs[x] \in Adapter
      BY <1>1, <2>2, <2>3, <3>1, LocalWrites DEF MoveInv, RetainFinds, canonical_hub, RegFile, Origins
    <3>3. regs'[x].buses = regs[x].buses /\ regs'[x].reply_until = Max2(regs[x].reply_until, cmd[s].until)
      BY <2>2, <3>1, <3>2, LocalWrites DEF MoveInv
    <3>4. window'[s] = Max2(window[s], cmd[s].until)
      BY <2>8 DEF RetainReplyAdapter, CommandTypes
    <3>5. window[s] \in 0..MaxWindow /\ regs[x].reply_until \in 0..MaxWindow
      BY <3>2, CommandCases DEF Adapter
    <3>6. ServesWindow(regs, Origin, s)'
      BY <1>3, <2>3, <3>1, <3>2, <3>3, <3>4, <3>5, RehomeAssumption DEF ServesWindow, Max2
    <3>7. s \notin astray => ServesBuses(regs, Origin, s)'
      BY <1>2, <1>3, <2>1, <3>1, <3>2, <3>3 DEF SessionInv, Owed, ServesBuses
    <3>8. ~interrupted /\ s \notin astray => ToldBuses(regs, Origin, s)'
      BY <1>2, <1>3, <2>1, <3>1, <3>2, <3>3 DEF SessionInv, Owed, ToldBuses
    <3> QED
      BY <1>2, <1>3, <1>4, <2>5, <2>6, <3>1, <3>6, <3>7, <3>8 DEF SessionInv, CommandTrue, Owed, NothingAhead
  <2>9. CASE ForgetBus(s)
    <3>1. cmd[s].op = "leave" /\ UNCHANGED <<window, astray>> /\ DOMAIN regs' = DOMAIN regs /\ cmd[s].bus \notin members[s]
      BY <2>9, LocalWrites DEF ForgetBus, MoveInv, SessionInv, CommandTrue
    <3>2. x \in DOMAIN regs => /\ regs'[x].buses = regs[x].buses \ {cmd[s].bus}
                               /\ regs'[x].reply_until = regs[x].reply_until
      BY <2>2, <3>1, LocalWrites DEF MoveInv
    <3>3. ServesWindow(regs, Origin, s)'
      BY <1>3, <2>3, <3>1, <3>2 DEF ServesWindow
    <3>4. s \notin astray => ServesBuses(regs, Origin, s)'
      BY <1>2, <1>3, <2>1, <3>1, <3>2 DEF SessionInv, Owed, ServesBuses
    <3>5. ~interrupted /\ s \notin astray => ToldBuses(regs, Origin, s)'
      BY <1>2, <1>3, <2>1, <3>1, <3>2 DEF SessionInv, Owed, ToldBuses
    <3> QED
      BY <1>2, <1>3, <1>4, <2>5, <2>6, <3>1, <3>3, <3>4, <3>5 DEF SessionInv, CommandTrue, Owed, NothingAhead
  <2> QED
    BY <2>7, <2>8, <2>9 DEF LocalSteps
<1> QED
  BY <1>5, <1>6

\* A send begins where the worker polls; the file the move read has the adapter.
LEMMA SendFinds ==
    ASSUME MoveInv, NEW s \in Sessions, NEW o \in Origins, o \in client.connections, <<o, s>> \in DOMAIN regs
    PROVE  \/ <<Origin, s>> \in DOMAIN Base
           \/ Origin = "old" /\ o = "new" /\ <<"new", s>> \in DOMAIN Base
<1>1. CASE ~HoldsFiles
  BY <1>1, ConnectedAt DEF Base, Origin, MoveInv
<1>2. CASE HoldsFiles
  <2>1. RegFile(saved.regs) /\ Prefix /\ Base = saved.regs /\ Origin = "old"
    BY <1>2 DEF MoveInv, Base, Origin
  <2>2. CASE client = AtOld
    <3>1. o = "old" /\ regs \in {saved.regs, Expanded(saved.regs)}
      BY <1>2, <2>1, <2>2 DEF Prefix, AtOld, AtNew, HoldsFiles, Forward, Undoing
    <3> QED
      BY <2>1, <3>1, ExpandedAt
  <2>3. CASE client = AtNew
    <3>1. o = "new" /\ regs \in {Expanded(saved.regs), Migrated(saved.regs)}
      BY <1>2, <2>1, <2>3 DEF Prefix, AtOld, AtNew, HoldsFiles, Forward, Undoing
    <3>2. <<"new", s>> \in DOMAIN Expanded(saved.regs)
      BY <2>1, <3>1, MigratedAt
    <3> QED
      BY <2>1, <3>1, <3>2, ExpandedAt
  <2> QED
    BY <2>2, <2>3 DEF MoveInv
<1> QED
  BY <1>1, <1>2

LEMMA SessionRequest ==
    ASSUME CommandTypes, CommandTypes', MoveInv, NEW s \in Sessions, SessionInv(s), CommandDies(s) \/ Requests(s)
    PROVE  SessionInv(s)'
<1>1. /\ UNCHANGED <<client, regs, pc, saved, interrupted, window, stranded>>
      /\ Base' = Base /\ Origin' = Origin
  <2>1. UNCHANGED <<regs, window, stranded>>
    BY DEF CommandDies, Requests, SendRequest, RegisterRequest, LeaveRequest, files
  <2> QED
    BY <2>1, CommandsKeep DEF Base, Origin, HoldsFiles
<1>2. Owed(Base, Origin, s) /\ CommandTrue(s)
  BY DEF SessionInv
<1>3. CASE CommandDies(s)
  <2>1. UNCHANGED members /\ cmd'[s].op = "none"
        /\ (cmd[s].op = "retain" => astray' = astray) /\ (cmd[s].op # "retain" => s \in astray')
        /\ astray \subseteq astray'
    BY <1>3 DEF CommandDies, Finished, CommandTypes, Nothing, hub
  <2> QED
    BY <1>1, <1>2, <2>1 DEF SessionInv, CommandTrue, Owed, ServesBuses, ServesWindow, RetainFinds, ToldBuses,
                            NothingAhead
<1>4. ASSUME NEW p \in Origins, SendRequest(s, p) PROVE SessionInv(s)'
  <2>1. /\ UNCHANGED <<members, astray>> /\ cmd[s].op = "none" /\ cmd'[s].op = "retain" /\ cmd'[s].url = p
        /\ p \in client.connections /\ <<p, s>> \in DOMAIN regs
    BY <1>4 DEF SendRequest, CommandTypes, Nothing, hub
  <2>2. RetainFinds(Base, Origin, s)'
    BY <1>1, <2>1, SendFinds DEF RetainFinds
  <2> QED
    BY <1>1, <1>2, <2>1, <2>2 DEF SessionInv, CommandTrue, Owed, ServesBuses, ServesWindow, ToldBuses, NothingAhead
<1>5. ASSUME NEW p \in Origins, NEW b \in Buses, RegisterRequest(s, b, p) PROVE SessionInv(s)'
  <2>1. /\ UNCHANGED astray /\ cmd[s].op = "none" /\ cmd'[s].op = "register" /\ cmd'[s].buses = members'[s]
        /\ members'[s] = members[s] \cup {b}
    BY <1>5 DEF RegisterRequest, CommandTypes, Nothing
  <2> QED
    BY <1>1, <1>2, <2>1 DEF SessionInv, CommandTrue, Owed, ServesWindow, RetainFinds, ToldBuses, NothingAhead
<1>6. ASSUME NEW p \in Origins, NEW b \in Buses, LeaveRequest(s, b, p) PROVE SessionInv(s)'
  <2>1. /\ UNCHANGED astray /\ cmd[s].op = "none" /\ cmd'[s].op = "leave" /\ cmd'[s].bus = b
        /\ members'[s] = members[s] \ {b}
    BY <1>6 DEF LeaveRequest, CommandTypes, Nothing
  <2> QED
    BY <1>1, <1>2, <2>1 DEF SessionInv, CommandTrue, Owed, ServesBuses, ServesWindow, RetainFinds, ToldBuses,
                            NothingAhead
<1> QED
  BY <1>3, <1>4, <1>5, <1>6 DEF Requests

-----------------------------------------------------------------------------
LEMMA RehomeInit == Init => RehomeInv
<1> SUFFICES ASSUME Init PROVE RehomeInv
  OBVIOUS
<1>1. CommandTypes
  BY RehomeAssumption DEF Init, CommandTypes, Commanded
<1>2. WorkerTypes
  BY DEF Init, WorkerTypes, Envelopes
<1>3. MoveInv
  BY DEF Init, MoveInv, AtOld, RegFile, HoldsFiles, Forward, Undoing
<1>4. JournalInv /\ EnvelopeInv /\ DedupMoves
  BY DEF Init, JournalInv, KnownAt, EnvelopeInv, DedupMoves, HoldsFiles, Forward, Undoing, Down
<1>5. ASSUME NEW s \in Sessions PROVE SessionInv(s)
  <2>1. DOMAIN regs = {} /\ members[s] = {} /\ window[s] = 0 /\ cmd[s].op = "none"
    BY DEF Init, Nothing
  <2>2. Base = regs
    BY DEF Init, Base, HoldsFiles, Forward, Undoing
  <2> QED
    BY <2>1, <2>2 DEF SessionInv, CommandTrue, Owed, ServesBuses, ServesWindow, RetainFinds, NothingAhead, ToldBuses
<1> QED
  BY <1>1, <1>2, <1>3, <1>4, <1>5 DEF RehomeInv

LEMMA RehomeStep == RehomeInv /\ [Next]_vars => RehomeInv'
<1> SUFFICES ASSUME RehomeInv, [Next]_vars PROVE RehomeInv'
  OBVIOUS
<1>1. CommandTypes /\ CommandTypes' /\ WorkerTypes /\ WorkerTypes' /\ MoveInv /\ MoveInv'
  BY CommandTypesStep, WorkerTypesStep, MoveInvStep DEF RehomeInv
<1>2. JournalInv' /\ EnvelopeInv' /\ DedupMoves'
  BY <1>1, KnowingStep DEF RehomeInv, Knowing
<1>3. ASSUME NEW s \in Sessions PROVE SessionInv(s)'
  <2>1. SessionInv(s)
    BY DEF RehomeInv
  <2>2. CASE Move
    BY <1>1, <2>1, <2>2, SessionMove
  <2>3. CASE Worker \/ UNCHANGED vars
    <3>1. UNCHANGED <<client, regs, pc, saved, members, cmd, window, astray, stranded, interrupted>>
      BY <2>3, WorkerKeeps DEF vars, files, hub, commands
    <3>2. Base' = Base /\ Origin' = Origin
      BY <3>1 DEF Base, Origin, HoldsFiles
    <3> QED
      BY <2>1, <3>1, <3>2 DEF SessionInv, CommandTrue, Owed, ServesBuses, ServesWindow, RetainFinds, NothingAhead,
                              ToldBuses
  <2>4. ASSUME NEW t \in Sessions, LocalSteps(t) \/ CommandDies(t) \/ Requests(t) PROVE SessionInv(s)'
    <3>1. CASE t # s
      BY <1>1, <2>1, <2>4, <3>1, SessionOther
    <3>2. CASE t = s
      BY <1>1, <2>1, <2>4, <3>2, SessionLocal, SessionRequest
    <3> QED
      BY <3>1, <3>2
  <2> QED
    BY <2>2, <2>3, <2>4, StepCases
<1> QED
  BY <1>1, <1>2, <1>3 DEF RehomeInv

\* Files, journal, worker and commands at every step of a move and of what may
\* undo it (rehome_connection of bus.py): the inductive invariant.
THEOREM RehomeInvariant == Spec => []RehomeInv
  BY RehomeInit, RehomeStep, PTL DEF Spec

\* The state has its shape, and no worker runs while the move holds its lock.
THEOREM RehomeTypeCorrect == Spec => []TypeOK
<1>1. RehomeInv => TypeOK
  <2> SUFFICES ASSUME RehomeInv PROVE TypeOK
    OBVIOUS
  <2>1. CommandTypes /\ WorkerTypes /\ MoveInv
    BY DEF RehomeInv
  <2>2. /\ client.connections \subseteq Origins /\ client.aliased \in BOOLEAN
        /\ client.aliased => "new" \in client.connections
    <3>1. client = AtOld => client.connections = {"old"} /\ client.aliased = FALSE
      BY DEF AtOld
    <3>2. client = AtNew => client.connections = {"new"} /\ client.aliased = TRUE
      BY DEF AtNew
    <3>3. client = AtOld \/ client = AtNew
      BY <2>1 DEF MoveInv
    <3> QED
      BY <3>1, <3>2, <3>3 DEF Origins
  <2> QED
    BY <2>1, <2>2, EnvelopeCases DEF TypeOK, CommandTypes, WorkerTypes, MoveInv, RegFile, Commanded, Envelopes
<1> QED
  BY <1>1, RehomeInvariant, PTL

\* Mail on record is not handed over again, from whichever origin it is fetched,
\* before, during and after any number of moves ("copy dedup first").
THEOREM ReceiptsMove == Spec => []DedupMoves
<1>1. RehomeInv => DedupMoves
  BY DEF RehomeInv
<1> QED
  BY <1>1, RehomeInvariant, PTL

LEMMA ServedNow ==
    ASSUME RehomeInv, NEW s \in Sessions, cmd[s] = Nothing, s \notin astray \cup stranded
    PROVE  \E o \in client.connections : ServesBuses(regs, o, s) /\ ServesWindow(regs, o, s)
<1>1. MoveInv /\ ServesBuses(Base, Origin, s) /\ ServesWindow(Base, Origin, s)
  BY DEF RehomeInv, SessionInv, Owed, Nothing
<1>2. CASE ~HoldsFiles
  <2>1. Base = regs /\ Origin \in client.connections
    BY <1>1, <1>2 DEF Base, Origin, MoveInv, AtOld, AtNew
  <2> QED
    BY <1>1, <2>1
<1>3. CASE HoldsFiles
  <2> DEFINE r == saved.regs
             x == <<"old", s>>
             y == <<"new", s>>
  <2>1. RegFile(r) /\ Prefix /\ Base = r /\ Origin = "old"
    BY <1>1, <1>3 DEF MoveInv, Base, Origin
  <2>2. CASE client = AtOld
    <3>1. "old" \in client.connections /\ regs \in {r, Expanded(r)}
      BY <1>3, <2>1, <2>2 DEF Prefix, AtOld, AtNew, HoldsFiles, Forward, Undoing
    <3>2. x \in DOMAIN r => x \in DOMAIN regs /\ regs[x] = r[x]
      BY <2>1, <3>1, ExpandedAt
    <3> QED
      BY <1>1, <2>1, <3>1, <3>2 DEF ServesBuses, ServesWindow
  <2>3. CASE client = AtNew
    <3>1. "new" \in client.connections /\ regs \in {Expanded(r), Migrated(r)}
      BY <1>3, <2>1, <2>3 DEF Prefix, AtOld, AtNew, HoldsFiles, Forward, Undoing
    <3>2. x \in DOMAIN r => /\ y \in DOMAIN regs /\ regs[y] = Merged(r, x)
                            /\ r[x].buses \subseteq regs[y].buses /\ r[x].reply_until <= regs[y].reply_until
                            /\ r[x] \in Adapter /\ regs[y] \in Adapter
      BY <2>1, <3>1, ExpandedAt, MigratedAt, MergedServes DEF RegFile
    <3>3. window[s] \in 0..MaxWindow
      BY CommandCases DEF RehomeInv
    <3>4. ServesWindow(regs, "new", s)
      BY <1>1, <2>1, <3>2, <3>3, RehomeAssumption DEF ServesWindow, Adapter
    <3>5. ServesBuses(regs, "new", s)
      BY <1>1, <2>1, <3>2 DEF ServesBuses
    <3> QED
      BY <3>1, <3>4, <3>5
  <2> QED
    BY <1>1, <2>2, <2>3 DEF MoveInv
<1> QED
  BY <1>2, <1>3

\* "Every durable prefix remains usable after a crash": at whatever step the move
\* is, dies or is undone, a session whose commands reached the file keeps its
\* adapter, publications and reply window at an origin the worker polls.
THEOREM EveryPrefixUsable == Spec => []PrefixUsable
<1>1. RehomeInv => PrefixUsable
  <2> SUFFICES ASSUME RehomeInv, NEW s \in Sessions, cmd[s] = Nothing, s \notin astray \cup stranded
               PROVE  Reachable(s)
    BY DEF PrefixUsable, Settled
  <2>1. PICK o \in client.connections : ServesBuses(regs, o, s) /\ ServesWindow(regs, o, s)
    BY ServedNow
  <2>2. o \in Origins
    BY DEF RehomeInv, MoveInv, AtOld, AtNew, Origins
  <2>3. CASE <<o, s>> \in DOMAIN regs
    <3>1. regs[<<o, s>>] \in Adapter
      BY <2>3 DEF RehomeInv, MoveInv, RegFile
    <3>2. regs[<<o, s>>].reply_until >= 0 /\ regs[<<o, s>>].reply_until \in Int
      BY <3>1, RehomeAssumption DEF Adapter
    <3> QED
      BY <2>1, <2>2, <2>3, <3>2 DEF Reachable, Polled, ServesBuses, ServesWindow
  <2>4. CASE <<o, s>> \notin DOMAIN regs
    BY <2>1, <2>4 DEF Reachable, ServesBuses, ServesWindow
  <2> QED
    BY <2>3, <2>4
<1> QED
  BY <1>1, RehomeInvariant, PTL

\* A session that left a bus is not polled for it again at any origin, as long
\* as no move was cut off.
THEOREM LeftForGood == Spec => []LeftStaysLeft
<1>1. RehomeInv => LeftStaysLeft
  <2> SUFFICES ASSUME RehomeInv, ~interrupted, NEW s \in Sessions, cmd[s] = Nothing,
                      s \notin astray \cup stranded, NEW o \in Origins, Polled(s, o)
               PROVE  regs[<<o, s>>].buses \subseteq members[s]
    BY DEF LeftStaysLeft, Settled
  <2>1. /\ MoveInv /\ NothingAhead(Base, Origin, s) /\ ToldBuses(Base, Origin, s)
        /\ cmd[s].op = "none" /\ o \in client.connections /\ <<o, s>> \in DOMAIN regs
    BY DEF RehomeInv, SessionInv, Owed, Polled, Nothing
  <2>2. CASE ~HoldsFiles
    <3>1. Base = regs /\ Origin = o
      BY <2>1, <2>2, ConnectedAt DEF Base, Origin, MoveInv
    <3> QED
      BY <2>1, <3>1 DEF ToldBuses
  <2>3. CASE HoldsFiles
    <3> DEFINE r == saved.regs
    <3>1. RegFile(r) /\ Prefix /\ Base = r /\ Origin = "old"
      BY <2>1, <2>3 DEF MoveInv, Base, Origin
    <3>2. <<"new", s>> \notin DOMAIN r
      BY <2>1, <3>1 DEF NothingAhead
    <3>3. CASE client = AtOld
      <4>1. o = "old" /\ regs \in {r, Expanded(r)}
        BY <2>1, <2>3, <3>1, <3>3 DEF Prefix, AtOld, AtNew, HoldsFiles, Forward, Undoing
      <4>2. <<o, s>> \in DOMAIN r /\ regs[<<o, s>>] = r[<<o, s>>]
        BY <2>1, <3>1, <4>1, ExpandedAt
      <4> QED
        BY <2>1, <3>1, <4>1, <4>2 DEF ToldBuses
    <3>4. CASE client = AtNew
      <4>1. o = "new" /\ regs \in {Expanded(r), Migrated(r)}
        BY <2>1, <2>3, <3>1, <3>4 DEF Prefix, AtOld, AtNew, HoldsFiles, Forward, Undoing
      <4>2. <<"old", s>> \in DOMAIN r /\ regs[<<"new", s>>] = r[<<"old", s>>]
        BY <2>1, <3>1, <3>2, <4>1, ExpandedAt, MigratedAt, MergedServes
      <4> QED
        BY <2>1, <3>1, <4>1, <4>2 DEF ToldBuses
    <3> QED
      BY <2>1, <3>3, <3>4 DEF MoveInv
  <2> QED
    BY <2>2, <2>3
<1> QED
  BY <1>1, RehomeInvariant, PTL
=============================================================================
