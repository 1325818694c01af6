SPECIFICATION MCSpec
CONSTANTS
    Tool = {"python3", "tmux", "brew"}
    Order <- MCOrder
    Before <- MCBefore
    NoTool = NoTool
    Invocations <- MCInvocations
    MaxDrift = 1
    Client = {cli, session}
    Self = cli
    Daemon = {d1, d2, d3}
    Nobody = Nobody
    MaxDeaths = 1
    MaxKills = 1
SYMMETRY MCSymmetry
INVARIANTS Singleton RefusedForAReason ReportTrue Consented
CHECK_DEADLOCK FALSE
