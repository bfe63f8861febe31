SPECIFICATION MCSpec
SYMMETRY UserSlots
CONSTANTS
    Kinds = {"conversation-turn", "task-planning"}
    Calls = {"c1"}
    Users = {u1, u2}
    MaxObjects = 3
    MaxCmds = 2
    MaxExits = 1
    MaxOuts = 1
    MaxCrashes = 1
    MaxFaults = 1
    Planning = p
    Conversation = c
INVARIANTS
    RunsSafe
PROPERTIES
    DecisionIsFinal
    SidecarSafe
    HostSafe
CHECK_DEADLOCK FALSE
