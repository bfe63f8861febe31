SPECIFICATION Spec
CONSTANTS
    Kinds = {"conversation-turn"}
    Calls = {"c1"}
    Users = {u1}
    MaxObjects = 3
    MaxCmds = 1
    MaxExits = 1
    MaxOuts = 1
    MaxCrashes = 0
    MaxFaults = 0
PROPERTIES
    WriteInItsSession
CHECK_DEADLOCK FALSE
