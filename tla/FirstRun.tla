------------------------------- MODULE FirstRun -------------------------------
(***************************************************************************)
(* `homi setup` of the homi package and what comes up after it (main,      *)
(* cli.ts): the guided run (Onboarding.tla) in a child process, then calls *)
(* of the daemon by the command itself and by the agent sessions opened on *)
(* the configuration it wrote.  A service manager that was configured      *)
(* starts the daemon too, from the moment its unit is there                *)
(* (HomiStart.tla).                                                        *)
(*                                                                         *)
(* Sessions opened and daemons killed while the run is still going, and    *)
(* what the calls ask (status, claim, the self-test's send and inbox), are *)
(* left out.                                                               *)
(***************************************************************************)
EXTENDS Onboarding, HomiStart

CONSTANT Self  \* the caller that is the command

ASSUME SelfAssumption == Self \in Client

VARIABLES outcome,    \* of the child: "running", or how it ended
          installed   \* what it left: "core", "service"

vars == <<obVars, startVars, outcome, installed>>

FirstInit == ObInit /\ StartInit /\ outcome = "running" /\ installed = {}

Onboard == outcome = "running" /\ ObNext /\ UNCHANGED <<startVars, outcome, installed>>

Exits == \* spawnSync returns; the child's own variables are gone with it
    /\ outcome = "running" /\ stage = "end" /\ outcome' = said
    /\ installed' = done \cap {"core", "service"}
    /\ opt' = CHOOSE o \in Invocations : TRUE
    /\ stage' = "gone" /\ said' = "" /\ todo' = <<>> /\ snap' = {} /\ shown' = {} /\ agreed' = {}
    /\ done' = {} /\ have' = {} /\ edited' = FALSE /\ drift' = 0
    /\ UNCHANGED startVars

\* The command goes on after exit status 0; a session has HOMI's server once the core is there.
Ready(c) == IF c = Self THEN outcome = "complete" ELSE outcome # "running" /\ "core" \in installed
Calls == \E c \in Client : Ready(c) /\ (CallStep(c) \/ CallerDies(c))

Daemons ==
    \E d \in Daemon :
        \/ DaemonStep(d)
        \/ outcome # "running" /\ DaemonDies(d)
        \/ "service" \in (done \cup installed) /\ ServiceStarts(d)

FirstNext ==
    \/ Onboard
    \/ Exits
    \/ (Calls \/ Daemons) /\ UNCHANGED <<obVars, outcome, installed>>
FirstSpec == FirstInit /\ [][FirstNext]_vars
=============================================================================
