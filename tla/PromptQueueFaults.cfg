\* Every call to the agent, the preparation and the flush may fail.
CONSTANTS
    NumPrompts = 2
    Ids = {p, q}
    Images = {}
    CombineQueued = FALSE
    Faults = {"prepare", "followup", "steer", "cancel", "idle", "flush"}
    MaxWakes = 1
    Wake = Wake
    None = None
SPECIFICATION FairSpec
CHECK_DEADLOCK FALSE
PROPERTIES
    StartsAtIdle
    EveryPromptSettles
