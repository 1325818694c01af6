------------------------- MODULE HomiSetupStateProofs -------------------------
(***************************************************************************)
(* What a command knows of the installation in each of its steps, for any  *)
(* number of commands, releases and failures, and with it the six things   *)
(* setup, rollback and uninstall promise of the installation.              *)
(*                                                                         *)
(* With a careful operator one command works at a time (the lock, in       *)
(* HomiSetupProofs).  Now is that command, or the idle one, and every step *)
(* is a move of the installation and Now.  What Now knows is said in ten   *)
(* parts (Knows, also there); each lemma <Part>Step shows that every one   *)
(* of the 44 moves keeps its part, from what all the parts say before it.  *)
(*                                                                         *)
(* Most parts hold only where nothing troubled the installation: a kill, a *)
(* restore that failed, a rollback whose ledger another command had        *)
(* changed, or a service manager that stopped half of the service.  What   *)
(* stays true after those is said without the condition.                   *)
(***************************************************************************)
EXTENDS HomiSetupProofs

-----------------------------------------------------------------------------
(* The parts about registrations, ownership, the service and what a setup  *)
(* makes of them; the first five are at the end of HomiSetupProofs.        *)

LEMMA RegsStep ==
    ASSUME Types, Types', Knows(Now), Moves(Now, Now')
    PROVE  Regs(Now)'
<1> USE DEF Knows, Regs, AsFound, Back, Skipped, Passed, Types, Course, Client, Activates, Active,
     Behind, Pcs, Early, Forward, Catching, Undoing, Removing, Ends, Thens, Core, Tried, Served,
     Rest, Moved
<1>1. CASE PreflightMoves(Now, Now')
  BY <1>1 DEF PreflightMoves, Same, installation
<1>2. CASE StageMoves(Now, Now')
  BY <1>2 DEF StageMoves
<1>3. CASE OwnReleaseMoves(Now, Now')
  BY <1>3 DEF OwnReleaseMoves, AddsRelease
<1>4. CASE BuildMoves(Now, Now')
  BY <1>4 DEF BuildMoves
<1>5. CASE OwnProjectionMoves(Now, Now')
  BY <1>5 DEF OwnProjectionMoves, AddsProjection
<1>6. CASE SwitchMoves(Now, Now')
  BY <1>6 DEF SwitchMoves
<1>7. CASE BinsMoves(Now, Now')
  BY <1>7 DEF BinsMoves
<1>8. ASSUME NEW c \in Client, PassMoves(Now, Now', c) PROVE Regs(Now)'
  BY <1>8 DEF PassMoves, Same, installation, AfterClient
<1>9. ASSUME NEW c \in Client, InstallMoves(Now, Now', c) PROVE Regs(Now)'
  BY <1>9 DEF InstallMoves, AfterClient
<1>10. ASSUME NEW c \in Client, InstallFailsMoves(Now, Now', c) PROVE Regs(Now)'
  BY <1>10 DEF InstallFailsMoves
<1>11. ASSUME NEW c \in Client, RestoreMoves(Now, Now', c) PROVE Regs(Now)'
  <2>1. ASSUME Active(Now)', NEW d \in Client, AsFound(Now, d)'
        PROVE  reg'[d].market \in {Now'.snap[d].market, "user"} /\ (~Now'.hurt => reg'[d] = Now'.snap[d])
    <3>1. Active(Now) /\ Now'.snap = Now.snap /\ Now'.hurt = Now.hurt /\ Now'.changed = Now.changed
      BY <1>11 DEF RestoreMoves, Core, Rest
    <3>2. CASE d = c
      <4>1. ~Now'.failed \/ c \notin Now'.changed
        BY <1>11, <2>1, <3>2 DEF RestoreMoves, AfterUndo
      <4>2. CASE ~Now'.failed
        BY <1>11, <3>1, <3>2, <4>2 DEF RestoreMoves
      <4>3. CASE c \notin Now.changed
        BY <1>11, <3>1, <3>2, <4>3 DEF RestoreMoves
      <4> QED BY <3>1, <4>1, <4>2, <4>3
    <3>3. CASE d # c
      <4>1. reg'[d] = reg[d]
        BY <1>11, <3>3 DEF RestoreMoves
      <4>2. AsFound(Now, d)
        BY <1>11, <2>1, <3>1, <3>3 DEF RestoreMoves, AfterUndo
      <4> QED BY <3>1, <4>1, <4>2
    <3> QED BY <3>2, <3>3
  <2>2. ASSUME NEW d \in Client PROVE ~Passed(Now, d)'
    BY <1>11 DEF RestoreMoves, AfterUndo
  <2>3. Now'.failed => "recovery" \in troubled'
    BY <1>11 DEF RestoreMoves
  <2> QED BY <2>1, <2>2, <2>3
<1>12. ASSUME NEW c \in Client, DetachMoves(Now, Now', c) PROVE Regs(Now)'
  BY <1>12 DEF DetachMoves, DetachPc, AfterDetach, SaveMoves, DropsClient
<1>13. ASSUME NEW c \in Client, DetachFailsMoves(Now, Now', c) PROVE Regs(Now)'
  BY <1>13 DEF DetachFailsMoves, DetachPc
<1>14. CASE ServiceMoves(Now, Now')
  BY <1>14 DEF ServiceMoves, Same, installation
<1>15. CASE UnloadMoves(Now, Now')
  BY <1>15 DEF UnloadMoves
<1>16. CASE UnloadFailsMoves(Now, Now')
  BY <1>16 DEF UnloadFailsMoves
<1>17. CASE WriteUnitMoves(Now, Now')
  BY <1>17 DEF WriteUnitMoves
<1>18. CASE LoadMoves(Now, Now')
  BY <1>18 DEF LoadMoves
<1>19. CASE AnswerMoves(Now, Now')
  BY <1>19 DEF AnswerMoves, Same, installation
<1>20. CASE StopAgainMoves(Now, Now')
  BY <1>20 DEF StopAgainMoves
<1>21. CASE RestoreUnitMoves(Now, Now')
  BY <1>21 DEF RestoreUnitMoves
<1>22. CASE ReloadMoves(Now, Now')
  BY <1>22 DEF ReloadMoves
<1>23. CASE CatchFailsMoves(Now, Now')
  BY <1>23 DEF CatchFailsMoves, installation, Catching
<1>24. CASE CommitMoves(Now, Now')
  BY <1>24 DEF CommitMoves, Commits
<1>25. CASE UndoMoves(Now, Now')
  BY <1>25 DEF UndoMoves
<1>26. CASE RestoreServiceMoves(Now, Now')
  BY <1>26 DEF RestoreServiceMoves
<1>27. CASE RestoreServiceFailsMoves(Now, Now')
  BY <1>27 DEF RestoreServiceFailsMoves, installation
<1>28. CASE UnprojectMoves(Now, Now')
  BY <1>28 DEF UnprojectMoves
<1>29. CASE WriteLedgerMoves(Now, Now')
  BY <1>29 DEF WriteLedgerMoves
<1>30. CASE BeginUninstallMoves(Now, Now')
  BY <1>30 DEF BeginUninstallMoves, Same, installation
<1>31. CASE StopMoves(Now, Now')
  BY <1>31 DEF StopMoves
<1>32. CASE DropUnitMoves(Now, Now')
  BY <1>32 DEF DropUnitMoves, SaveMoves, DropsService
<1>33. CASE DropUnitFailsMoves(Now, Now')
  BY <1>33 DEF DropUnitFailsMoves
<1>34. CASE DetachRestMoves(Now, Now')
  BY <1>34 DEF DetachRestMoves, DropsLinks
<1>35. CASE RecordMoves(Now, Now')
  BY <1>35 DEF RecordMoves, SaveMoves, Same, installation
<1>36. CASE PurgeMoves(Now, Now')
  BY <1>36 DEF PurgeMoves
<1>37. CASE EraseMoves(Now, Now')
  BY <1>37 DEF EraseMoves, SaveMoves, Empties
<1>38. CASE ThrowMoves(Now, Now')
  BY <1>38 DEF ThrowMoves, installation, ThrowPcs
<1>39. CASE BeginMoves(Now, Now')
  BY <1>39 DEF BeginMoves, installation, Idle
<1>40. CASE EndMoves(Now, Now')
  BY <1>40 DEF EndMoves, installation, Idle
<1>41. CASE EditMoves(Now, Now')
  BY <1>41 DEF EditMoves, HurtMoves
<1>42. CASE DaemonDiesMoves(Now, Now')
  BY <1>42 DEF DaemonDiesMoves, HurtMoves
<1>43. CASE AutostartMoves(Now, Now')
  BY <1>43 DEF AutostartMoves, HurtMoves
<1>44. CASE RestMoves(Now, Now')
  BY <1>44 DEF RestMoves, Same, installation
<1> QED
  BY <1>1, <1>2, <1>3, <1>4, <1>5, <1>6, <1>7, <1>8, <1>9, <1>10, <1>11, <1>12, <1>13, <1>14, <1>15,
     <1>16, <1>17, <1>18, <1>19, <1>20, <1>21, <1>22, <1>23, <1>24, <1>25, <1>26, <1>27, <1>28,
     <1>29, <1>30, <1>31, <1>32, <1>33, <1>34, <1>35, <1>36, <1>37, <1>38, <1>39, <1>40, <1>41,
     <1>42, <1>43, <1>44 DEF Moves, Works, Outside

LEMMA OwningStep ==
    ASSUME Types, Types', Knows(Now), Moves(Now, Now')
    PROVE  Owning(Now)'
<1> USE DEF Knows, Kept, Regs, AsFound, Back, Skipped, Passed, Owning, Owned, RegsRecorded, Covers,
     UnitRecorded, Users, UsersOriginals, InService, Types, Course, Client, Activates, Active,
     Behind, Pcs, Early, Forward, Catching, Undoing, Removing, Ends, Thens, Core, Tried, Served,
     Rest, Moved
<1>1. CASE PreflightMoves(Now, Now')
  BY <1>1 DEF PreflightMoves, Same, installation
<1>2. CASE StageMoves(Now, Now')
  BY <1>2 DEF StageMoves
<1>3. CASE OwnReleaseMoves(Now, Now')
  BY <1>3 DEF OwnReleaseMoves, AddsRelease
<1>4. CASE BuildMoves(Now, Now')
  BY <1>4 DEF BuildMoves
<1>5. CASE OwnProjectionMoves(Now, Now')
  BY <1>5 DEF OwnProjectionMoves, AddsProjection
<1>6. CASE SwitchMoves(Now, Now')
  BY <1>6 DEF SwitchMoves
<1>7. CASE BinsMoves(Now, Now')
  BY <1>7 DEF BinsMoves
<1>8. ASSUME NEW c \in Client, PassMoves(Now, Now', c) PROVE Owning(Now)'
  BY <1>8 DEF PassMoves, Same, installation, AfterClient
<1>9. ASSUME NEW c \in Client, InstallMoves(Now, Now', c) PROVE Owning(Now)'
  BY <1>9 DEF InstallMoves, AfterClient
<1>10. ASSUME NEW c \in Client, InstallFailsMoves(Now, Now', c) PROVE Owning(Now)'
  BY <1>10 DEF InstallFailsMoves
<1>11. ASSUME NEW c \in Client, RestoreMoves(Now, Now', c) PROVE Owning(Now)'
  BY <1>11 DEF RestoreMoves, AfterUndo
<1>12. ASSUME NEW c \in Client, DetachMoves(Now, Now', c) PROVE Owning(Now)'
  BY <1>12 DEF DetachMoves, DetachPc, AfterDetach, SaveMoves, DropsClient
<1>13. ASSUME NEW c \in Client, DetachFailsMoves(Now, Now', c) PROVE Owning(Now)'
  BY <1>13 DEF DetachFailsMoves, DetachPc
<1>14. CASE ServiceMoves(Now, Now')
  <2> SUFFICES ASSUME troubled' = {} PROVE Owning(Now)'
    BY DEF Owning
  <2>1. /\ Active(Now) /\ Active(Now)' /\ ~Now.newService /\ ~Now'.newService
        /\ UnitRecorded(Now.saved, unit) /\ UsersOriginals(Now.saved)
        /\ RegsRecorded(Now.saved, Now.snap) /\ (Now.bin = "ours" => Now.saved.links)
        /\ Now.op = "setup" \/ (bin = "ours" => Now.saved.links)
        /\ Now.op = "rollback" => Now.saved.service # None
    BY <1>14 DEF ServiceMoves, Core, Rest, Same
  <2>2. /\ Now'.saved = Now.saved /\ Now'.snap = Now.snap /\ Now'.bin = Now.bin /\ Now'.op = Now.op
        /\ UNCHANGED <<bin, unit, had>>
    BY <1>14 DEF ServiceMoves, Core, Rest, Same, installation
  <2>3. CASE Now'.pc = "undo"
    BY <2>1, <2>2, <2>3
  <2>4. CASE /\ Now.saved.service # None /\ unit = "homi"
             /\ Now'.record = Now.saved.service /\ Now'.pc = "commit"
    BY <2>1, <2>2, <2>4
  <2>5. CASE /\ Now.saved.service # None => unit \in {None, "homi"}
             /\ Now'.before = [unit |-> unit, active |-> job # None] /\ Now'.record \in Services
             /\ Now'.record.original = original(Now) /\ Now'.record.backup = unit
             /\ Now'.pc = "unload"
    <3>1. Covers(Now'.record) /\ Users(Now'.record)
      <4>1. CASE Now.saved.service # None
        BY <2>1, <2>5, <4>1, NullAssumption DEF original
      <4>2. CASE Now.saved.service = None
        <5>1. unit \notin {"homi", "edited"} /\ (had => unit = "user")
          BY <2>1, <4>2
        <5>2. original(Now) = IF unit = None THEN None ELSE [unit |-> unit, active |-> job # None]
          BY <4>2 DEF original
        <5>3. unit = "user" => original(Now) # None
          <6>1. unit = "user" => [unit |-> unit, active |-> job # None] \in Originals
            BY DEF Originals
          <6> QED BY <5>2, <6>1, NullAssumption
        <5>4. unit # None => unit = "user"
          BY <5>1 DEF MachineTypes, Units
        <5>5. original(Now) # None => original(Now).unit = "user"
          BY <5>2, <5>4
        <5> QED BY <2>5, <5>1, <5>3, <5>5, NullAssumption
      <4> QED BY <4>1, <4>2
    <3>2. Now.op = "rollback" => Covers(Now.saved.service)
      BY <2>1, <2>5, NullAssumption
    <3>3. Now'.before.unit = unit /\ Now'.record.backup = unit
      BY <2>5
    <3> QED BY <2>1, <2>2, <2>5, <3>1, <3>2, <3>3
  <2> QED BY <1>14, <2>3, <2>4, <2>5 DEF ServiceMoves
<1>15. CASE UnloadMoves(Now, Now')
  BY <1>15 DEF UnloadMoves
<1>16. CASE UnloadFailsMoves(Now, Now')
  BY <1>16 DEF UnloadFailsMoves
<1>17. CASE WriteUnitMoves(Now, Now')
  BY <1>17 DEF WriteUnitMoves
<1>18. CASE LoadMoves(Now, Now')
  BY <1>18 DEF LoadMoves
<1>19. CASE AnswerMoves(Now, Now')
  BY <1>19 DEF AnswerMoves, Same, installation
<1>20. CASE StopAgainMoves(Now, Now')
  BY <1>20 DEF StopAgainMoves
<1>21. CASE RestoreUnitMoves(Now, Now')
  BY <1>21 DEF RestoreUnitMoves
<1>22. CASE ReloadMoves(Now, Now')
  BY <1>22 DEF ReloadMoves
<1>23. CASE CatchFailsMoves(Now, Now')
  BY <1>23 DEF CatchFailsMoves, installation, Catching
<1>24. CASE CommitMoves(Now, Now')
  <2> SUFFICES ASSUME troubled' = {} PROVE Owning(Now)'
    BY DEF Owning
  <2>1. /\ Active(Now) /\ troubled = {} /\ Now.pc = "commit" /\ Now'.pc = "done" /\ Now'.op = Now.op
        /\ UsersOriginals(Now.saved) /\ RegsRecorded(Now.saved, Now.snap)
        /\ Now.op = "setup" \/ (bin = "ours" => Now.saved.links)
        /\ Now.record # None => Covers(Now.record) /\ Users(Now.record)
        /\ Now.record = None => UnitRecorded(Now.saved, unit)
        /\ UNCHANGED <<reg, bin, unit, had>> /\ Commits(Now, ledger')
    BY <1>24 DEF CommitMoves, Moved, Core
  <2>2. /\ ledger'.links = (Now.saved.links \/ Now.op = "setup")
        /\ ledger'.service = IF Now.record # None THEN Now.record ELSE Now.saved.service
        /\ \A c \in Client : ledger'.clients[c] = IF c \in Now.clients THEN Registered(c, Now)
                                                  ELSE Now.saved.clients[c]
    BY <2>1 DEF Commits
  <2>3. \A c \in Client : /\ Registered(c, Now) # None /\ Registered(c, Now).root = Now.dest
                          /\ Registered(c, Now).original.market \notin Release
    <3>1. SUFFICES ASSUME NEW c \in Client
                   PROVE  /\ Registered(c, Now) # None /\ Registered(c, Now).root = Now.dest
                          /\ Registered(c, Now).original.market \notin Release
      OBVIOUS
    <3>2. /\ Registered(c, Now) \in Records /\ Registered(c, Now).root = Now.dest
          /\ Registered(c, Now).original = IF Now.saved.clients[c] # None
                                           THEN Now.saved.clients[c].original ELSE Now.snap[c]
      BY <2>1, RegisteredType
    <3>3. Registered(c, Now).original.market \notin Release
      BY <2>1, <3>2
    <3> QED BY <3>2, <3>3, NullAssumption
  <2>4. RegsRecorded(ledger, reg)'
    <3>1. \A c \in Client : /\ c \in Now.clients => reg[c].market \in {Now.dest, "user"}
                            /\ c \notin Now.clients => reg[c].market \in {Now.snap[c].market, "user"}
      BY <2>1
    <3> QED BY <2>1, <2>2, <2>3, <3>1, SetupAssumption
  <2>5. (bin = "ours" => ledger.links)'
    BY <2>1, <2>2
  <2>6. UnitRecorded(ledger, unit)'
    BY <2>1, <2>2
  <2>7. UsersOriginals(ledger)'
    BY <2>1, <2>2, <2>3
  <2>8. Owned(ledger)'
    BY <2>4, <2>5, <2>6, <2>7
  <2> QED BY <2>1, <2>8
<1>25. CASE UndoMoves(Now, Now')
  BY <1>25 DEF UndoMoves
<1>26. CASE RestoreServiceMoves(Now, Now')
  BY <1>26 DEF RestoreServiceMoves
<1>27. CASE RestoreServiceFailsMoves(Now, Now')
  BY <1>27 DEF RestoreServiceFailsMoves, installation
<1>28. CASE UnprojectMoves(Now, Now')
  BY <1>28 DEF UnprojectMoves
<1>29. CASE WriteLedgerMoves(Now, Now')
  BY <1>29 DEF WriteLedgerMoves
<1>30. CASE BeginUninstallMoves(Now, Now')
  BY <1>30 DEF BeginUninstallMoves, Same, installation
<1>31. CASE StopMoves(Now, Now')
  BY <1>31, NullAssumption DEF StopMoves
<1>32. CASE DropUnitMoves(Now, Now')
  BY <1>32, NullAssumption DEF DropUnitMoves, SaveMoves, DropsService
<1>33. CASE DropUnitFailsMoves(Now, Now')
  BY <1>33, NullAssumption DEF DropUnitFailsMoves
<1>34. CASE DetachRestMoves(Now, Now')
  BY <1>34 DEF DetachRestMoves, DropsLinks
<1>35. CASE RecordMoves(Now, Now')
  BY <1>35 DEF RecordMoves, SaveMoves, Same, installation
<1>36. CASE PurgeMoves(Now, Now')
  BY <1>36 DEF PurgeMoves
<1>37. CASE EraseMoves(Now, Now')
  BY <1>37 DEF EraseMoves, SaveMoves, Empties
<1>38. CASE ThrowMoves(Now, Now')
  BY <1>38 DEF ThrowMoves, installation, ThrowPcs
<1>39. CASE BeginMoves(Now, Now')
  BY <1>39 DEF BeginMoves, installation, Idle
<1>40. CASE EndMoves(Now, Now')
  <2> SUFFICES ASSUME troubled' = {} PROVE Owning(Now)'
    BY DEF Owning
  <2>1. /\ Now' = Idle /\ troubled = {} /\ Now.pc \in {"none", "locked"} \cup Ends
        /\ UNCHANGED <<ledger, reg, bin, unit, had>>
    BY <1>40 DEF EndMoves, installation
  <2>2. CASE ~Active(Now)
    <3>1. Owned(ledger)
      BY <2>1, <2>2
    <3> QED BY <2>1, <3>1 DEF Idle
  <2>3. CASE Active(Now)
    <3>1. ledger = Now.saved /\ Now.pc = "failed"
      BY <2>1, <2>3
    <3>2. \A c \in Client : reg[c].market \in {Now.snap[c].market, "user"}
      BY <2>1, <2>3, <3>1
    <3>3. /\ UsersOriginals(ledger) /\ RegsRecorded(ledger, Now.snap) /\ UnitRecorded(ledger, unit)
          /\ bin = "ours" => ledger.links
      BY <2>1, <2>3, <3>1
    <3>4. RegsRecorded(ledger, reg)
      BY <3>2, <3>3, SetupAssumption
    <3>5. Owned(ledger)
      BY <3>3, <3>4
    <3> QED BY <2>1, <3>5 DEF Idle
  <2> QED BY <2>2, <2>3
<1>41. CASE EditMoves(Now, Now')
  BY <1>41, NullAssumption, SetupAssumption DEF EditMoves, HurtMoves
<1>42. CASE DaemonDiesMoves(Now, Now')
  BY <1>42 DEF DaemonDiesMoves, HurtMoves
<1>43. CASE AutostartMoves(Now, Now')
  BY <1>43 DEF AutostartMoves, HurtMoves
<1>44. CASE RestMoves(Now, Now')
  BY <1>44 DEF RestMoves, Same, installation
<1> QED
  BY <1>1, <1>2, <1>3, <1>4, <1>5, <1>6, <1>7, <1>8, <1>9, <1>10, <1>11, <1>12, <1>13, <1>14, <1>15,
     <1>16, <1>17, <1>18, <1>19, <1>20, <1>21, <1>22, <1>23, <1>24, <1>25, <1>26, <1>27, <1>28,
     <1>29, <1>30, <1>31, <1>32, <1>33, <1>34, <1>35, <1>36, <1>37, <1>38, <1>39, <1>40, <1>41,
     <1>42, <1>43, <1>44 DEF Moves, Works, Outside

LEMMA ServiceStep ==
    ASSUME Types, Types', Knows(Now), Moves(Now, Now')
    PROVE  Service(Now)'
<1> USE DEF Knows, Service, Unloaded, Types, MachineTypes, Course, Client, Activates, Active,
     Behind, Pcs, Early, Forward, Catching, Undoing, Removing, Ends, Thens, Core, Tried, Served,
     Rest, Moved
<1>1. CASE PreflightMoves(Now, Now')
  BY <1>1 DEF PreflightMoves, Same, installation
<1>2. CASE StageMoves(Now, Now')
  BY <1>2 DEF StageMoves
<1>3. CASE OwnReleaseMoves(Now, Now')
  BY <1>3 DEF OwnReleaseMoves, AddsRelease
<1>4. CASE BuildMoves(Now, Now')
  BY <1>4 DEF BuildMoves
<1>5. CASE OwnProjectionMoves(Now, Now')
  BY <1>5 DEF OwnProjectionMoves, AddsProjection
<1>6. CASE SwitchMoves(Now, Now')
  BY <1>6 DEF SwitchMoves
<1>7. CASE BinsMoves(Now, Now')
  BY <1>7 DEF BinsMoves
<1>8. ASSUME NEW c \in Client, PassMoves(Now, Now', c) PROVE Service(Now)'
  BY <1>8 DEF PassMoves, Same, installation, AfterClient
<1>9. ASSUME NEW c \in Client, InstallMoves(Now, Now', c) PROVE Service(Now)'
  BY <1>9 DEF InstallMoves, AfterClient
<1>10. ASSUME NEW c \in Client, InstallFailsMoves(Now, Now', c) PROVE Service(Now)'
  BY <1>10 DEF InstallFailsMoves
<1>11. ASSUME NEW c \in Client, RestoreMoves(Now, Now', c) PROVE Service(Now)'
  BY <1>11 DEF RestoreMoves, AfterUndo
<1>12. ASSUME NEW c \in Client, DetachMoves(Now, Now', c) PROVE Service(Now)'
  BY <1>12 DEF DetachMoves, DetachPc, AfterDetach, SaveMoves, DropsClient
<1>13. ASSUME NEW c \in Client, DetachFailsMoves(Now, Now', c) PROVE Service(Now)'
  BY <1>13 DEF DetachFailsMoves, DetachPc
<1>14. CASE ServiceMoves(Now, Now')
  BY <1>14 DEF ServiceMoves, Same, installation
<1>15. CASE UnloadMoves(Now, Now')
  BY <1>15, ServiceStops DEF UnloadMoves
<1>16. CASE UnloadFailsMoves(Now, Now')
  BY <1>16, ServiceStops DEF UnloadFailsMoves
<1>17. CASE WriteUnitMoves(Now, Now')
  BY <1>17, ServiceStops DEF WriteUnitMoves
<1>18. CASE LoadMoves(Now, Now')
  <2>1. Consistent(unit, job, daemon) /\ job = None /\ MachineTypes /\ MachineTypes'
    BY <1>18 DEF LoadMoves
  <2>2. CASE unit = None
    BY <1>18, <2>2 DEF LoadMoves, Moved
  <2>3. CASE unit # None
    <3>1. Consistent(unit, unit, Started(unit, daemon))
      BY <2>1, <2>3, ServiceStops, ServiceStarts DEF MachineTypes
    <3> QED BY <1>18, <2>3, <3>1 DEF LoadMoves, Moved
  <2> QED BY <2>2, <2>3
<1>19. CASE AnswerMoves(Now, Now')
  BY <1>19 DEF AnswerMoves, Same, installation
<1>20. CASE StopAgainMoves(Now, Now')
  BY <1>20, ServiceStops DEF StopAgainMoves
<1>21. CASE RestoreUnitMoves(Now, Now')
  BY <1>21, ServiceStops DEF RestoreUnitMoves
<1>22. CASE ReloadMoves(Now, Now')
  <2>1. Consistent(unit, job, daemon) /\ job = None /\ unit # None
    BY <1>22 DEF ReloadMoves
  <2>2. Consistent(unit, unit, Started(unit, daemon))
    BY <2>1, ServiceStops, ServiceStarts DEF MachineTypes
  <2> QED BY <1>22, <2>2 DEF ReloadMoves, Moved
<1>23. CASE CatchFailsMoves(Now, Now')
  BY <1>23 DEF CatchFailsMoves, installation, Catching
<1>24. CASE CommitMoves(Now, Now')
  BY <1>24 DEF CommitMoves, Commits
<1>25. CASE UndoMoves(Now, Now')
  BY <1>25 DEF UndoMoves
<1>26. CASE RestoreServiceMoves(Now, Now')
  <2>1. Consistent(unit', None, Stopped) /\ Stopped \in {None} \cup Daemons /\ (Stopped # None => ~Stopped.managed)
    BY ServiceStops
  <2>2. CASE job' = None
    BY <1>26, <2>1, <2>2 DEF RestoreServiceMoves, Moved
  <2>3. CASE job' # None
    <3>1. job' = unit' /\ unit' \in Units \ {None} /\ daemon' = Started(unit', Stopped)
      BY <1>26, <2>3 DEF RestoreServiceMoves
    <3>2. Consistent(unit', unit', Started(unit', Stopped))
      BY <2>1, <3>1, ServiceStarts
    <3> QED BY <1>26, <3>1, <3>2 DEF RestoreServiceMoves, Moved
  <2> QED BY <2>2, <2>3
<1>27. CASE RestoreServiceFailsMoves(Now, Now')
  BY <1>27 DEF RestoreServiceFailsMoves, installation
<1>28. CASE UnprojectMoves(Now, Now')
  BY <1>28 DEF UnprojectMoves
<1>29. CASE WriteLedgerMoves(Now, Now')
  BY <1>29 DEF WriteLedgerMoves
<1>30. CASE BeginUninstallMoves(Now, Now')
  BY <1>30 DEF BeginUninstallMoves, Same, installation
<1>31. CASE StopMoves(Now, Now')
  <2>1. Consistent(unit, None, Stopped)
    BY ServiceStops
  <2>2. CASE UNCHANGED <<job, daemon>>
    BY <1>31, <2>2 DEF StopMoves, Moved
  <2>3. CASE job' = None /\ daemon' = Stopped
    BY <1>31, <2>1, <2>3 DEF StopMoves
  <2> QED BY <1>31, <2>2, <2>3 DEF StopMoves
<1>32. CASE DropUnitMoves(Now, Now')
  <2>1. Consistent(unit', None, daemon) /\ (daemon # None => ~daemon.managed)
    BY <1>32, ServiceStops DEF DropUnitMoves
  <2>2. CASE job' = None
    BY <1>32, <2>1, <2>2 DEF DropUnitMoves, Moved, SaveMoves
  <2>3. CASE job' # None
    <3>1. job' = unit' /\ unit' \in Units \ {None} /\ daemon' = Started(unit', daemon)
      BY <1>32, <2>3 DEF DropUnitMoves
    <3>2. Consistent(unit', unit', Started(unit', daemon))
      BY <2>1, <3>1, ServiceStarts
    <3> QED BY <1>32, <3>1, <3>2 DEF DropUnitMoves, Moved, SaveMoves
  <2> QED BY <2>2, <2>3
<1>33. CASE DropUnitFailsMoves(Now, Now')
  <2>1. Consistent(unit', None, daemon) /\ (daemon # None => ~daemon.managed)
    BY <1>33, ServiceStops DEF DropUnitFailsMoves
  <2>2. CASE job' = None
    BY <1>33, <2>1, <2>2 DEF DropUnitFailsMoves, Moved, SaveMoves
  <2>3. CASE job' # None
    <3>1. job' = unit' /\ unit' \in Units \ {None} /\ daemon' = Started(unit', daemon)
      BY <1>33, <2>3 DEF DropUnitFailsMoves
    <3>2. Consistent(unit', unit', Started(unit', daemon))
      BY <2>1, <3>1, ServiceStarts
    <3> QED BY <1>33, <3>1, <3>2 DEF DropUnitFailsMoves, Moved, SaveMoves
  <2> QED BY <2>2, <2>3
<1>34. CASE DetachRestMoves(Now, Now')
  BY <1>34 DEF DetachRestMoves, DropsLinks
<1>35. CASE RecordMoves(Now, Now')
  BY <1>35 DEF RecordMoves, SaveMoves, Same, installation
<1>36. CASE PurgeMoves(Now, Now')
  BY <1>36 DEF PurgeMoves
<1>37. CASE EraseMoves(Now, Now')
  BY <1>37 DEF EraseMoves, SaveMoves, Empties
<1>38. CASE ThrowMoves(Now, Now')
  BY <1>38 DEF ThrowMoves, installation, ThrowPcs
<1>39. CASE BeginMoves(Now, Now')
  BY <1>39 DEF BeginMoves, installation, Idle
<1>40. CASE EndMoves(Now, Now')
  BY <1>40 DEF EndMoves, installation, Idle
<1>41. CASE EditMoves(Now, Now')
  BY <1>41, NullAssumption DEF EditMoves, HurtMoves, Consistent
<1>42. CASE DaemonDiesMoves(Now, Now')
  BY <1>42, NullAssumption, ServiceStarts DEF DaemonDiesMoves, HurtMoves, Consistent
<1>43. CASE AutostartMoves(Now, Now')
  BY <1>43, NullAssumption DEF AutostartMoves, HurtMoves, Consistent
<1>44. CASE RestMoves(Now, Now')
  BY <1>44 DEF RestMoves, Same, installation
<1> QED
  BY <1>1, <1>2, <1>3, <1>4, <1>5, <1>6, <1>7, <1>8, <1>9, <1>10, <1>11, <1>12, <1>13, <1>14, <1>15,
     <1>16, <1>17, <1>18, <1>19, <1>20, <1>21, <1>22, <1>23, <1>24, <1>25, <1>26, <1>27, <1>28,
     <1>29, <1>30, <1>31, <1>32, <1>33, <1>34, <1>35, <1>36, <1>37, <1>38, <1>39, <1>40, <1>41,
     <1>42, <1>43, <1>44 DEF Moves, Works, Outside

LEMMA TracedStep ==
    ASSUME Types, Types', Knows(Now), Moves(Now, Now')
    PROVE  Traced(Now)'
<1> USE DEF Knows, Kept, Pointer, Regs, AsFound, Back, Skipped, Passed, Service, Unloaded, Traced,
     Found, Given, Managed, InService, Types, Course, Client, Activates, Active, Behind, Pcs, Early,
     Forward, Catching, Undoing, Removing, Ends, Thens, Core, Tried, Served, Rest, Moved
<1>1. CASE PreflightMoves(Now, Now')
  <2> SUFFICES ASSUME Now.op = "setup", Active(Now)' PROVE Traced(Now)'
    BY <1>1 DEF PreflightMoves
  <2>1. /\ Now'.was[1] = reg /\ Now'.was[2] = bin /\ Now'.was[3] = unit /\ Now'.was[4] = job
        /\ Now'.was[5] = daemon /\ Now'.snap = reg /\ Now'.bin = bin /\ Now'.pc \in {"failed", "stage"}
        /\ UNCHANGED <<bin, unit, job, daemon>> /\ ~Now'.newService
    BY <1>1 DEF PreflightMoves, Same, installation, Served
  <2>2. Consistent(unit, job, daemon) /\ job \in Units /\ daemon \in {None} \cup Daemons
    BY DEF MachineTypes
  <2>3. /\ Consistent(Now.was[3], Now.was[4], Now.was[5])' /\ Now'.was[4] \in Units
        /\ Now'.was[5] \in {None} \cup Daemons
    BY <2>1, <2>2
  <2>4. Found(Now)' /\ Given(Now, job, daemon, Now.from)'
    BY <2>1
  <2> QED BY <2>1, <2>3, <2>4
<1>2. CASE StageMoves(Now, Now')
  BY <1>2 DEF StageMoves
<1>3. CASE OwnReleaseMoves(Now, Now')
  BY <1>3 DEF OwnReleaseMoves, AddsRelease
<1>4. CASE BuildMoves(Now, Now')
  BY <1>4 DEF BuildMoves
<1>5. CASE OwnProjectionMoves(Now, Now')
  BY <1>5 DEF OwnProjectionMoves, AddsProjection
<1>6. CASE SwitchMoves(Now, Now')
  BY <1>6 DEF SwitchMoves
<1>7. CASE BinsMoves(Now, Now')
  BY <1>7 DEF BinsMoves
<1>8. ASSUME NEW c \in Client, PassMoves(Now, Now', c) PROVE Traced(Now)'
  BY <1>8 DEF PassMoves, Same, installation, AfterClient
<1>9. ASSUME NEW c \in Client, InstallMoves(Now, Now', c) PROVE Traced(Now)'
  BY <1>9 DEF InstallMoves, AfterClient
<1>10. ASSUME NEW c \in Client, InstallFailsMoves(Now, Now', c) PROVE Traced(Now)'
  BY <1>10 DEF InstallFailsMoves
<1>11. ASSUME NEW c \in Client, RestoreMoves(Now, Now', c) PROVE Traced(Now)'
  BY <1>11 DEF RestoreMoves, AfterUndo
<1>12. ASSUME NEW c \in Client, DetachMoves(Now, Now', c) PROVE Traced(Now)'
  BY <1>12 DEF DetachMoves, DetachPc, AfterDetach, SaveMoves, DropsClient
<1>13. ASSUME NEW c \in Client, DetachFailsMoves(Now, Now', c) PROVE Traced(Now)'
  BY <1>13 DEF DetachFailsMoves, DetachPc
<1>14. CASE ServiceMoves(Now, Now')
  BY <1>14 DEF ServiceMoves, Same, installation
<1>15. CASE UnloadMoves(Now, Now')
  BY <1>15 DEF UnloadMoves
<1>16. CASE UnloadFailsMoves(Now, Now')
  BY <1>16 DEF UnloadFailsMoves, Stopped
<1>17. CASE WriteUnitMoves(Now, Now')
  BY <1>17 DEF WriteUnitMoves
<1>18. CASE LoadMoves(Now, Now')
  <2> SUFFICES ASSUME Now.op = "setup" PROVE Traced(Now)'
    BY <1>18 DEF LoadMoves, Moved, Core
  <2>1. CASE Moved(Now, Now', "svc_stop") /\ UNCHANGED <<job, daemon>>
    BY <1>18, <2>1 DEF LoadMoves
  <2>2. CASE /\ unit # None /\ Moved(Now, Now', "answer") /\ job' = unit
             /\ daemon' = Started(unit, daemon)
    <3>1. ~Now.hurt => unit = "homi" /\ daemon = None
      BY <1>18 DEF LoadMoves
    <3>2. ~Now.hurt => daemon' # None /\ daemon'.managed
      BY <2>2, <3>1, ServiceStarts DEF MachineTypes
    <3> QED BY <1>18, <2>2, <3>1, <3>2 DEF LoadMoves
  <2> QED BY <1>18, <2>1, <2>2 DEF LoadMoves, Moved
<1>19. CASE AnswerMoves(Now, Now')
  BY <1>19, NullAssumption DEF AnswerMoves, Same, installation
<1>20. CASE StopAgainMoves(Now, Now')
  BY <1>20 DEF StopAgainMoves, Stopped
<1>21. CASE RestoreUnitMoves(Now, Now')
  <2> SUFFICES ASSUME Now.op = "setup" PROVE Traced(Now)'
    BY <1>21 DEF RestoreUnitMoves, Moved, Core
  <2>1. /\ Active(Now) /\ unit' = Now.before.unit /\ UNCHANGED <<job, daemon>> /\ job = None
        /\ Moved(Now, Now', IF Now.before.unit # None /\ Now.before.active THEN "svc_reload" ELSE "undo")
    BY <1>21 DEF RestoreUnitMoves
  <2>2. ~Now.hurt => /\ unit' = Now.was[3] /\ daemon = None /\ Now.before.unit = Now.was[3]
                     /\ Now.before.active <=> Now.was[4] # None
    <3>1. ~Now.hurt => Now.before = [unit |-> Now.was[3], active |-> Now.was[4] # None] /\ daemon = None
      BY <1>21, <2>1 DEF RestoreUnitMoves
    <3> DEFINE b == Now.was[4] # None
    <3>2. ASSUME ~Now.hurt PROVE Now.before.unit = Now.was[3] /\ Now.before.active = b
      <4>1. Now.before = [unit |-> Now.was[3], active |-> b]
        BY <3>1, <3>2
      <4> HIDE DEF b
      <4> QED BY ONLY <4>1
    <3> QED BY <2>1, <3>1, <3>2
  <2>3. Now.was[5] # None /\ Now.was[5].managed => Now.was[4] # None
    BY <2>1 DEF Consistent
  <2> QED BY <1>21, <2>1, <2>2, <2>3 DEF RestoreUnitMoves
<1>22. CASE ReloadMoves(Now, Now')
  <2> SUFFICES ASSUME Now.op = "setup" PROVE Traced(Now)'
    BY <1>22 DEF ReloadMoves, Moved, Core
  <2>1. /\ Active(Now) /\ unit # None /\ UNCHANGED <<unit, bin>> /\ job' = unit /\ ~Now.newService
        /\ daemon' = Started(unit, daemon) /\ Moved(Now, Now', "undo") /\ current = Now.from
    BY <1>22 DEF ReloadMoves
  <2>2. ~Now.hurt => unit' = Now.was[3] /\ Now.was[4] # None /\ daemon = None
    BY <1>22, <2>1 DEF ReloadMoves
  <2>3. Consistent(Now.was[3], Now.was[4], Now.was[5]) /\ Now.was[4] \in Units
        /\ Now.was[5] \in {None} \cup Daemons
    BY <2>1
  <2>4. Now.was[5] # None /\ Now.was[5].managed =>
          /\ Now.was[4] # None
          /\ Now.was[3] = "user" => Now.was[5] = [src |-> "user", managed |-> TRUE]
    <3>1. Now.was[5] # None /\ Now.was[5].managed =>
            Now.was[4] # None /\ (Now.was[3] = "user" => Now.was[4] = "user")
      BY <2>3, NullAssumption DEF Consistent, Units
    <3>2. Now.was[5] # None /\ Now.was[5].managed /\ Now.was[3] = "user" =>
            Now.was[5].src = "user" /\ Now.was[5] \in Daemons
      BY <2>3, <3>1, NullAssumption DEF Consistent
    <3> QED BY <3>1, <3>2 DEF Daemons
  <2>5. ~Now.hurt => /\ daemon' \in Daemons /\ daemon' # None /\ daemon'.managed
                     /\ daemon'.src = IF unit' = "user" THEN "user" ELSE Now.from
    BY <2>1, <2>2, ServiceStarts DEF MachineTypes
  <2>6. ASSUME ~Now.hurt PROVE Given(Now, job, daemon, Now.from)'
    <3>1. Now'.was = Now.was /\ Now'.from = Now.from
      BY <2>1 DEF Moved, Core
    <3>2. unit' = Now.was[3] /\ (Now.was[3] # None => (job' # None) = (Now.was[4] # None))
      BY <2>1, <2>2, <2>6
    <3>3. ASSUME Now.was[3] # None, Now.was[5] # None, Now.was[5].managed
          PROVE  daemon' # None /\ (daemon' = Now.was[5] \/ daemon'.src = Now.from)
      <4>1. job' # None
        BY <2>4, <3>2, <3>3
      <4>2. CASE unit' = "user"
        <5>1. daemon' = [src |-> "user", managed |-> TRUE]
          BY <2>5, <2>6, <4>1, <4>2 DEF Daemons
        <5> QED BY <2>4, <2>5, <2>6, <3>2, <3>3, <4>1, <4>2, <5>1
      <4>3. CASE unit' # "user"
        BY <2>5, <2>6, <4>1, <4>3
      <4> QED BY <4>2, <4>3
    <3> QED BY <3>1, <3>2, <3>3
  <2> QED BY <1>22, <2>1, <2>2, <2>5, <2>6 DEF ReloadMoves
<1>23. CASE CatchFailsMoves(Now, Now')
  BY <1>23 DEF CatchFailsMoves, installation, Catching
<1>24. CASE CommitMoves(Now, Now')
  BY <1>24 DEF CommitMoves, Commits
<1>25. CASE UndoMoves(Now, Now')
  BY <1>25 DEF UndoMoves
<1>26. CASE RestoreServiceMoves(Now, Now')
  <2> HIDE DEF Core, Tried, Served, Rest, Moved
  <2> SUFFICES ASSUME Now.op = "setup" PROVE Traced(Now)'
    BY <1>26 DEF RestoreServiceMoves, Moved, Core
  <2>1. /\ Active(Now) /\ UNCHANGED bin /\ Moved(Now, Now', "undo_claude") /\ current = Now.from
        /\ unit' = Now.record.backup /\ Now.newService
        /\ job' = IF unit' # None /\ Now.record.wasActive THEN unit' ELSE None
        /\ daemon' = IF job' = None THEN Stopped ELSE Started(unit', Stopped)
    BY <1>26 DEF RestoreServiceMoves
  <2>2. ~Now.hurt => /\ unit' = Now.was[3] /\ Stopped = None
                     /\ unit' # None => (job' # None) = (Now.was[4] # None)
    BY <1>26, <2>1 DEF RestoreServiceMoves, Stopped
  <2>3. Consistent(Now.was[3], Now.was[4], Now.was[5]) /\ Now.was[4] \in Units
        /\ Now.was[5] \in {None} \cup Daemons
    BY <2>1
  <2>4. Now.was[5] # None /\ Now.was[5].managed =>
          /\ Now.was[4] # None
          /\ Now.was[3] = "user" => Now.was[5] = [src |-> "user", managed |-> TRUE]
    <3>1. Now.was[5] # None /\ Now.was[5].managed =>
            Now.was[4] # None /\ (Now.was[3] = "user" => Now.was[4] = "user")
      BY <2>3, NullAssumption DEF Consistent, Units
    <3>2. Now.was[5] # None /\ Now.was[5].managed /\ Now.was[3] = "user" =>
            Now.was[5].src = "user" /\ Now.was[5] \in Daemons
      BY <2>3, <3>1, NullAssumption DEF Consistent
    <3> QED BY <3>1, <3>2 DEF Daemons
  <2>5. ~Now.hurt /\ job' # None =>
          /\ daemon' \in Daemons /\ daemon' # None /\ daemon'.managed
          /\ daemon'.src = IF unit' = "user" THEN "user" ELSE Now.from
    BY <2>1, <2>2, ServiceStarts DEF MachineTypes
  <2>6. ASSUME ~Now.hurt PROVE Given(Now, job, daemon, Now.from)'
    <3>1. Now'.was = Now.was /\ Now'.from = Now.from
      BY <2>1 DEF Moved, Core
    <3>2. unit' = Now.was[3] /\ (Now.was[3] # None => (job' # None) = (Now.was[4] # None))
      BY <2>1, <2>2, <2>6
    <3>3. ASSUME Now.was[3] # None, Now.was[5] # None, Now.was[5].managed
          PROVE  daemon' # None /\ (daemon' = Now.was[5] \/ daemon'.src = Now.from)
      <4>1. job' # None
        BY <2>4, <3>2, <3>3
      <4>2. CASE unit' = "user"
        <5>1. daemon' = [src |-> "user", managed |-> TRUE]
          BY <2>5, <2>6, <4>1, <4>2 DEF Daemons
        <5> QED BY <2>4, <2>5, <2>6, <3>2, <3>3, <4>1, <4>2, <5>1
      <4>3. CASE unit' # "user"
        BY <2>5, <2>6, <4>1, <4>3
      <4> QED BY <4>2, <4>3
    <3> QED BY <3>1, <3>2, <3>3
  <2> QED BY <1>26, <2>1, <2>2, <2>6 DEF RestoreServiceMoves, Moved, Core, Tried, Served, Rest
<1>27. CASE RestoreServiceFailsMoves(Now, Now')
  BY <1>27 DEF RestoreServiceFailsMoves, installation
<1>28. CASE UnprojectMoves(Now, Now')
  BY <1>28 DEF UnprojectMoves
<1>29. CASE WriteLedgerMoves(Now, Now')
  BY <1>29 DEF WriteLedgerMoves
<1>30. CASE BeginUninstallMoves(Now, Now')
  BY <1>30 DEF BeginUninstallMoves, Same, installation
<1>31. CASE StopMoves(Now, Now')
  BY <1>31 DEF StopMoves
<1>32. CASE DropUnitMoves(Now, Now')
  BY <1>32 DEF DropUnitMoves, SaveMoves, DropsService
<1>33. CASE DropUnitFailsMoves(Now, Now')
  BY <1>33 DEF DropUnitFailsMoves
<1>34. CASE DetachRestMoves(Now, Now')
  BY <1>34 DEF DetachRestMoves, DropsLinks
<1>35. CASE RecordMoves(Now, Now')
  BY <1>35 DEF RecordMoves, SaveMoves, Same, installation
<1>36. CASE PurgeMoves(Now, Now')
  BY <1>36 DEF PurgeMoves
<1>37. CASE EraseMoves(Now, Now')
  BY <1>37 DEF EraseMoves, SaveMoves, Empties
<1>38. CASE ThrowMoves(Now, Now')
  BY <1>38 DEF ThrowMoves, installation, ThrowPcs
<1>39. CASE BeginMoves(Now, Now')
  BY <1>39 DEF BeginMoves, installation, Idle
<1>40. CASE EndMoves(Now, Now')
  BY <1>40 DEF EndMoves, installation, Idle
<1>41. CASE EditMoves(Now, Now')
  BY <1>41 DEF EditMoves, HurtMoves
<1>42. CASE DaemonDiesMoves(Now, Now')
  BY <1>42 DEF DaemonDiesMoves, HurtMoves
<1>43. CASE AutostartMoves(Now, Now')
  BY <1>43 DEF AutostartMoves, HurtMoves
<1>44. CASE RestMoves(Now, Now')
  BY <1>44 DEF RestMoves, Same, installation
<1> QED
  BY <1>1, <1>2, <1>3, <1>4, <1>5, <1>6, <1>7, <1>8, <1>9, <1>10, <1>11, <1>12, <1>13, <1>14, <1>15,
     <1>16, <1>17, <1>18, <1>19, <1>20, <1>21, <1>22, <1>23, <1>24, <1>25, <1>26, <1>27, <1>28,
     <1>29, <1>30, <1>31, <1>32, <1>33, <1>34, <1>35, <1>36, <1>37, <1>38, <1>39, <1>40, <1>41,
     <1>42, <1>43, <1>44 DEF Moves, Works, Outside

LEMMA HealedStep ==
    ASSUME Types, Types', Knows(Now), Moves(Now, Now')
    PROVE  Healed(Now)'
<1> USE DEF Knows, Healed, Pointer, Kept, Staged, Regs, Passed, Traced, InService, Types, Course,
     Client, Activates, Active, Behind, Pcs, Early, Forward, Catching, Undoing, Removing, Ends,
     Thens, Core, Tried, Served, Rest, Moved
<1>1. CASE PreflightMoves(Now, Now')
  BY <1>1 DEF PreflightMoves, Same, installation
<1>2. CASE StageMoves(Now, Now')
  BY <1>2 DEF StageMoves
<1>3. CASE OwnReleaseMoves(Now, Now')
  BY <1>3 DEF OwnReleaseMoves, AddsRelease
<1>4. CASE BuildMoves(Now, Now')
  BY <1>4 DEF BuildMoves
<1>5. CASE OwnProjectionMoves(Now, Now')
  BY <1>5 DEF OwnProjectionMoves, AddsProjection
<1>6. CASE SwitchMoves(Now, Now')
  BY <1>6 DEF SwitchMoves
<1>7. CASE BinsMoves(Now, Now')
  BY <1>7 DEF BinsMoves
<1>8. ASSUME NEW c \in Client, PassMoves(Now, Now', c) PROVE Healed(Now)'
  BY <1>8 DEF PassMoves, Same, installation, AfterClient
<1>9. ASSUME NEW c \in Client, InstallMoves(Now, Now', c) PROVE Healed(Now)'
  BY <1>9 DEF InstallMoves, AfterClient
<1>10. ASSUME NEW c \in Client, InstallFailsMoves(Now, Now', c) PROVE Healed(Now)'
  BY <1>10 DEF InstallFailsMoves
<1>11. ASSUME NEW c \in Client, RestoreMoves(Now, Now', c) PROVE Healed(Now)'
  BY <1>11 DEF RestoreMoves, AfterUndo
<1>12. ASSUME NEW c \in Client, DetachMoves(Now, Now', c) PROVE Healed(Now)'
  BY <1>12 DEF DetachMoves, DetachPc, AfterDetach, SaveMoves, DropsClient
<1>13. ASSUME NEW c \in Client, DetachFailsMoves(Now, Now', c) PROVE Healed(Now)'
  BY <1>13 DEF DetachFailsMoves, DetachPc
<1>14. CASE ServiceMoves(Now, Now')
  BY <1>14 DEF ServiceMoves, Same, installation
<1>15. CASE UnloadMoves(Now, Now')
  BY <1>15 DEF UnloadMoves
<1>16. CASE UnloadFailsMoves(Now, Now')
  BY <1>16 DEF UnloadFailsMoves
<1>17. CASE WriteUnitMoves(Now, Now')
  BY <1>17 DEF WriteUnitMoves
<1>18. CASE LoadMoves(Now, Now')
  BY <1>18 DEF LoadMoves
<1>19. CASE AnswerMoves(Now, Now')
  BY <1>19 DEF AnswerMoves, Same, installation
<1>20. CASE StopAgainMoves(Now, Now')
  BY <1>20 DEF StopAgainMoves
<1>21. CASE RestoreUnitMoves(Now, Now')
  BY <1>21 DEF RestoreUnitMoves
<1>22. CASE ReloadMoves(Now, Now')
  BY <1>22 DEF ReloadMoves
<1>23. CASE CatchFailsMoves(Now, Now')
  BY <1>23 DEF CatchFailsMoves, installation, Catching
<1>24. CASE CommitMoves(Now, Now')
  <2> SUFFICES ASSUME Now.op = "setup", ~Now.hurt PROVE Healed(Now)'
    BY <1>24 DEF CommitMoves, Moved, Core, Rest
  <2>1. /\ Active(Now) /\ Now.pc = "commit" /\ Now'.dest = Now.dest /\ Now'.clients = Now.clients
        /\ Now'.service = Now.service /\ Commits(Now, ledger')
        /\ UNCHANGED <<current, staged, projections, bin, unit, job, daemon, reg>>
    BY <1>24 DEF CommitMoves, Moved, Core
  <2>2. /\ current = Now.dest /\ Now.dest \in staged /\ Now.dest \in Now.saved.releases
        /\ bin = "ours"
    BY <2>1
  <2>3. /\ ledger'.current = Now.dest /\ ledger'.releases = Now.saved.releases /\ ledger'.links
        /\ ledger'.service = IF Now.record # None THEN Now.record ELSE Now.saved.service
        /\ Now.clients # {} => Now.dest \in ledger'.projections
        /\ \A c \in Client : c \in Now.clients => ledger'.clients[c] = Registered(c, Now)
    BY <2>1 DEF Commits
  <2>4. ASSUME NEW c \in Client, c \in Now.clients
        PROVE  /\ reg[c].market = Now.dest /\ reg[c].on /\ ledger'.clients[c].root = Now.dest
               /\ Now.dest \in projections
    <3>1. Passed(Now, c)
      BY <2>1
    <3> QED BY <2>1, <2>3, <2>4, <3>1 DEF Registered
  <2>5. Now.service \/ ledger'.service # None =>
          /\ unit = "homi" /\ job # None /\ ledger'.service # None
          /\ daemon # None /\ daemon.src = Now.dest
    BY <2>1, <2>3
  <2>6. Now.clients \subseteq Client
    BY DEF Commands
  <2> QED BY <2>1, <2>2, <2>3, <2>4, <2>5, <2>6
<1>25. CASE UndoMoves(Now, Now')
  BY <1>25 DEF UndoMoves
<1>26. CASE RestoreServiceMoves(Now, Now')
  BY <1>26 DEF RestoreServiceMoves
<1>27. CASE RestoreServiceFailsMoves(Now, Now')
  BY <1>27 DEF RestoreServiceFailsMoves, installation
<1>28. CASE UnprojectMoves(Now, Now')
  BY <1>28 DEF UnprojectMoves
<1>29. CASE WriteLedgerMoves(Now, Now')
  BY <1>29 DEF WriteLedgerMoves
<1>30. CASE BeginUninstallMoves(Now, Now')
  BY <1>30 DEF BeginUninstallMoves, Same, installation
<1>31. CASE StopMoves(Now, Now')
  BY <1>31 DEF StopMoves
<1>32. CASE DropUnitMoves(Now, Now')
  BY <1>32 DEF DropUnitMoves, SaveMoves, DropsService
<1>33. CASE DropUnitFailsMoves(Now, Now')
  BY <1>33 DEF DropUnitFailsMoves
<1>34. CASE DetachRestMoves(Now, Now')
  BY <1>34 DEF DetachRestMoves, DropsLinks
<1>35. CASE RecordMoves(Now, Now')
  BY <1>35 DEF RecordMoves, SaveMoves, Same, installation
<1>36. CASE PurgeMoves(Now, Now')
  BY <1>36 DEF PurgeMoves
<1>37. CASE EraseMoves(Now, Now')
  BY <1>37 DEF EraseMoves, SaveMoves, Empties
<1>38. CASE ThrowMoves(Now, Now')
  BY <1>38 DEF ThrowMoves, installation, ThrowPcs
<1>39. CASE BeginMoves(Now, Now')
  BY <1>39 DEF BeginMoves, installation, Idle
<1>40. CASE EndMoves(Now, Now')
  BY <1>40 DEF EndMoves, installation, Idle
<1>41. CASE EditMoves(Now, Now')
  BY <1>41 DEF EditMoves, HurtMoves
<1>42. CASE DaemonDiesMoves(Now, Now')
  BY <1>42 DEF DaemonDiesMoves, HurtMoves
<1>43. CASE AutostartMoves(Now, Now')
  BY <1>43 DEF AutostartMoves, HurtMoves
<1>44. CASE RestMoves(Now, Now')
  BY <1>44 DEF RestMoves, Same, installation
<1> QED
  BY <1>1, <1>2, <1>3, <1>4, <1>5, <1>6, <1>7, <1>8, <1>9, <1>10, <1>11, <1>12, <1>13, <1>14, <1>15,
     <1>16, <1>17, <1>18, <1>19, <1>20, <1>21, <1>22, <1>23, <1>24, <1>25, <1>26, <1>27, <1>28,
     <1>29, <1>30, <1>31, <1>32, <1>33, <1>34, <1>35, <1>36, <1>37, <1>38, <1>39, <1>40, <1>41,
     <1>42, <1>43, <1>44 DEF Moves, Works, Outside

-----------------------------------------------------------------------------
(* The invariant. *)

SetupInv == SetupTypes /\ (Careful => Knows(Now))

LEMMA SetupInvInit == Init => SetupInv
<1> SUFFICES ASSUME Init PROVE Knows(Now)
  BY SetupTypesInit DEF SetupInv
<1>1. Now = Idle
  BY DEF Init, LockInit, Now, Live
<1>2. /\ Idle.op = "none" /\ Idle.pc = "none" /\ ~Idle.failed /\ ~Idle.newService
  BY DEF Idle
<1>3. /\ ledger.releases = {} /\ ledger.current = None /\ ledger.previous = None /\ ~ledger.links
      /\ ledger.service = None /\ \A c \in Client : ledger.clients[c] = None
      /\ current = None /\ bin = "none" /\ troubled = {}
  BY DEF Init, NoLedger
<1>4. /\ \A c \in Client : reg[c].market \notin Release
      /\ unit \in {None, "user"} /\ (had => unit = "user")
  BY SetupAssumption DEF Init, Absent, UsersOwn
<1>5. Consistent(unit, job, daemon)
  <2>1. CASE unit = None /\ job = None /\ daemon = None
    BY <2>1, NullAssumption DEF Consistent
  <2>2. CASE unit = "user" /\ job = "user" /\ daemon = [src |-> "user", managed |-> TRUE]
    BY <2>2, NullAssumption DEF Consistent
  <2> QED BY <2>1, <2>2 DEF Init
<1> HIDE DEF Init
<1>6. Kept(Idle) /\ Pointer(Idle) /\ Staged(Idle) /\ Selected(Idle)
  BY <1>2, <1>3 DEF Kept, Pointer, Staged, Selected, Selects, Active, Activates, Removing, Early,
                    Forward, Behind, Erasing
<1>7. Resolves(Idle) /\ Regs(Idle)
  BY <1>2, <1>3, <1>4 DEF Resolves, Regs, Known, OriginalsKnown, Active, Activates
<1>8. Owning(Idle) /\ Service(Idle)
  <2>1. Owned(ledger)
    BY <1>3, <1>4, NullAssumption DEF Owned, RegsRecorded, UnitRecorded, UsersOriginals, Users
  <2> QED BY <1>2, <1>5, <2>1 DEF Owning, Service, Active, Activates, Unloaded
<1>9. Traced(Idle) /\ Healed(Idle)
  BY <1>2 DEF Traced, Healed
<1> QED
  BY <1>1, <1>6, <1>7, <1>8, <1>9 DEF Knows

LEMMA SetupInvStep == SetupInv /\ [Next]_vars => SetupInv'
<1> SUFFICES ASSUME SetupInv, [Next]_vars PROVE SetupInv'
  OBVIOUS
<1>1. SetupTypes /\ SetupTypes'
  BY SetupTypesStep DEF SetupInv
<1>2. Types /\ Types'
  BY <1>1, NowTypes, NowTypesNext
<1>3. ASSUME Careful PROVE Knows(Now)'
  <2>1. Knows(Now)
    BY <1>3 DEF SetupInv
  <2>2. Moves(Now, Now')
    BY <1>1, <1>3, NowMoves DEF SetupTypes
  <2>3. Kept(Now)' /\ Pointer(Now)' /\ Staged(Now)' /\ Selected(Now)'
    BY <1>2, <2>1, <2>2, KeptStep, PointerStep, StagedStep, SelectedStep
  <2>4. Resolves(Now)' /\ Regs(Now)' /\ Owning(Now)' /\ Service(Now)'
    BY <1>2, <2>1, <2>2, ResolvesStep, RegsStep, OwningStep, ServiceStep
  <2>5. Traced(Now)' /\ Healed(Now)'
    BY <1>2, <2>1, <2>2, TracedStep, HealedStep
  <2> QED BY <2>3, <2>4, <2>5 DEF Knows
<1> QED
  BY <1>1, <1>3 DEF SetupInv

\* What a command in each of its steps knows of the installation, of which the
\* six properties below are consequences.
THEOREM SetupInvariant == Spec => []SetupInv
  BY SetupInvInit, SetupInvStep, PTL DEF Spec

-----------------------------------------------------------------------------
(* What the invariant says at the end of a command, and between two. *)

LEMMA InsideIsNow ==
    ASSUME SetupInv, Careful, NEW p \in Proc, at[p] = "in"
    PROVE  Knows(me[p]) /\ MachineTypes /\ me[p] \in Commands
<1>1. Now = me[p]
  BY NowIs DEF SetupInv, SetupTypes, Live
<1> QED
  BY <1>1 DEF SetupInv, SetupTypes, CommandTypes

LEMMA QuietIsIdle ==
    ASSUME SetupInv, Careful, Quiet
    PROVE  Knows(Idle) /\ troubled = {} /\ ~Active(Idle) /\ ~Erasing(Idle)
<1>1. Now = Idle
  BY DEF Quiet, Now
<1> QED
  BY <1>1 DEF SetupInv, Quiet, Active, Activates, Erasing, Idle

(* A setup that fails and reports no recovery failure leaves the pointer,    *)
(* the executables, the clients and the service as it found them, for any    *)
(* number of commands before it, and whatever failed or was killed in them   *)
(* (setup.mjs:567-587).                                                      *)
THEOREM FailedSetupIsUndone == Spec => [](Careful => FailedSetupRestores)
<1>1. SetupInv => (Careful => FailedSetupRestores)
  <2> SUFFICES ASSUME SetupInv, Careful, NEW p \in Proc, Undisturbed(p, "setup", "failed")
               PROVE  Restored(p)
    BY DEF FailedSetupRestores
  <2> DEFINE m == me[p]
  <2>1. /\ Knows(m) /\ MachineTypes /\ m \in Commands
        /\ m.op = "setup" /\ m.pc = "failed" /\ ~m.hurt /\ ~m.failed
    BY InsideIsNow DEF Undisturbed
  <2> HIDE DEF m
  <2>2. Active(m)
    BY <2>1 DEF Active, Activates
  <2>3. current = m.from
    BY <2>1, <2>2 DEF Knows, Pointer, Active, Behind
  <2>4. /\ m.was[1] = m.snap /\ m.was[2] = m.bin /\ bin = m.bin /\ Given(m, job, daemon, m.from)
    BY <2>1, <2>2 DEF Knows, Traced, InService, Catching
  <2>5. \A c \in Client : reg[c] = m.snap[c]
    BY <2>1, <2>2 DEF Knows, Regs, AsFound, Back, Skipped
  <2>6. reg = m.snap
    BY <2>1, <2>5 DEF MachineTypes, Commands
  <2> QED BY <2>3, <2>4, <2>6 DEF Restored, Given, m
<1> QED BY SetupInvariant, <1>1, PTL

(* A setup that completes has selected, owned and registered one release,    *)
(* and where a service is managed it runs that release, whatever state the   *)
(* commands before it left behind (setup.mjs:527-566).                       *)
THEOREM CompletedSetupHeals == Spec => [](Careful => SetupHeals)
<1>1. SetupInv => (Careful => SetupHeals)
  <2> SUFFICES ASSUME SetupInv, Careful PROVE SetupHeals
    OBVIOUS
  <2>1. \A p \in Proc : Undisturbed(p, "setup", "done") => Healed(me[p])
    BY InsideIsNow DEF Undisturbed, Knows
  <2> QED BY <2>1 DEF SetupHeals, Healed, Undisturbed
<1> QED BY SetupInvariant, <1>1, PTL

(* Nothing of HOMI's is active that an uninstall would not know of           *)
(* (setup.mjs:544-566, 650-700).                                             *)
THEOREM OwnershipIsRecorded == Spec => [](Careful => OwnedIsRecorded)
<1>1. SetupInv => (Careful => OwnedIsRecorded)
  <2> SUFFICES ASSUME SetupInv, Careful, Quiet
               PROVE  /\ unit = "homi" => ledger.service # None
                      /\ bin = "ours" => ledger.links
                      /\ \A c \in Client : reg[c].market \in Release =>
                           ledger.clients[c] # None /\ ledger.clients[c].root = reg[c].market
    BY DEF OwnedIsRecorded
  <2>1. Owned(ledger)
    BY QuietIsIdle DEF Knows, Owning
  <2> QED BY <2>1 DEF Owned, RegsRecorded, UnitRecorded
<1> QED BY SetupInvariant, <1>1, PTL

(* The commands find the runtime the ledger selects, whenever no installer   *)
(* works (runtime-selection.mjs).                                            *)
THEOREM RuntimeIsSelected == Spec => [](Careful => RuntimeSelected)
<1>1. SetupInv => (Careful => RuntimeSelected)
  <2> SUFFICES ASSUME SetupInv, Careful, Quiet PROVE selectedRuntime # "refused"
    BY DEF RuntimeSelected
  <2>1. Selects(ledger, current)
    BY QuietIsIdle DEF Knows, Selected
  <2>2. current \in staged => current # "refused"
    BY SetupAssumption DEF SetupInv, SetupTypes, MachineTypes
  <2> QED BY <2>1, <2>2 DEF Selects, selectedRuntime
<1> QED BY SetupInvariant, <1>1, PTL

(* What is kept to be given back at uninstall is the user's own, and the     *)
(* user's service is never lost (lifecycle.mjs:278-279).                     *)
THEOREM OriginalIsKept == Spec => [](Careful => OriginalKept)
<1>1. SetupInv => (Careful => OriginalKept)
  <2> SUFFICES ASSUME SetupInv, Careful, troubled = {}
               PROVE  /\ UsersOriginals(ledger)
                      /\ Quiet /\ had => \/ unit = "user"
                                         \/ ledger.service # None /\ ledger.service.original # None
    BY DEF OriginalKept, UsersOriginals, Users
  <2>1. Quiet => UnitRecorded(ledger, unit)
    BY QuietIsIdle DEF Knows, Owning, Owned
  <2>2. Kept(Now) /\ Owning(Now)
    BY DEF SetupInv, Knows
  <2>3. CASE Active(Now)
    <3>1. ledger = Now.saved
      BY <2>2, <2>3 DEF Kept, Active, Activates
    <3> QED BY <2>1, <2>2, <2>3, <3>1 DEF Owning, UnitRecorded, Covers
  <2>4. CASE ~Active(Now)
    BY <2>1, <2>2, <2>4 DEF Owning, Owned, UnitRecorded, Covers
  <2> QED BY <2>3, <2>4
<1> QED BY SetupInvariant, <1>1, PTL

(* A registered marketplace is a directory that exists, as long as no        *)
(* rollback works from a ledger that changed before it took the lock         *)
(* (integration.mjs:99-107, setup.mjs:594-606).                              *)
THEOREM RegistrationsAreThere == Spec => [](Careful => RegistrationsResolve)
<1>1. SetupInv => (Careful => RegistrationsResolve)
  BY DEF SetupInv, Knows, Resolves, Known, RegistrationsResolve
<1> QED BY SetupInvariant, <1>1, PTL
==============================================================================
