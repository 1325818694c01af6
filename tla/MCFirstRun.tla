------------------------------ MODULE MCFirstRun ------------------------------
EXTENDS FirstRun, TLC

MCOrder == <<"python3", "tmux">>
MCBefore == [t \in {"python3", "tmux", "brew"} |-> IF t = "brew" THEN NoTool ELSE "brew"]

Bare == [clients |-> "open", profile |-> FALSE, service |-> FALSE, noService |-> FALSE, model |-> FALSE,
         login |-> FALSE, bus |-> "keep", yes |-> FALSE, guided |-> FALSE, dryRun |-> FALSE,
         tty |-> TRUE, installMissing |-> FALSE]
\* --guided; a script; a script without clients, service or what is missing; --dry-run.
MCInvocations ==
    {[Bare EXCEPT !.guided = TRUE],
     [Bare EXCEPT !.clients = "chosen", !.profile = TRUE, !.service = TRUE, !.bus = "invite", !.yes = TRUE,
                  !.tty = FALSE, !.installMissing = TRUE],
     [Bare EXCEPT !.clients = "none", !.profile = TRUE, !.noService = TRUE, !.yes = TRUE],
     [Bare EXCEPT !.clients = "chosen", !.dryRun = TRUE]}

Launched == {d \in Daemon : up[d] # "none"}
Calling == {c \in Client : at[c] # "idle"}
\* One daemon while the guide runs; after it two with both callers, or all with one caller.
MCFew ==
    /\ outcome = "running" => \A d, e \in Launched : d = e
    /\ Launched = Daemon => outcome = "complete" /\ "service" \in installed
                            /\ \A b, c \in Calling : b = c
MCNext == FirstNext /\ MCFew'
MCSpec == FirstInit /\ [][MCNext]_vars
MCSymmetry == Permutations(Daemon)
=============================================================================
