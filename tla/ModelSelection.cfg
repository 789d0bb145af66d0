\* Overlapping requests, choices and discoveries.
CONSTANTS
    own = own
    spare = spare
    static = static
    dynamic = dynamic
    moved = moved
    remove = remove
    update = update
    add = add
    list = list
    first = first
    second = second
    chat = chat
    None = None
    Providers = {own, spare}
    Endpoints = {static, dynamic, moved}
    Dynamic = {dynamic, moved}
    Requests = {remove, update, list}
    Kind <- MCKind
    ProviderOf <- MCProviderOf
    EndpointOf <- MCEndpointOf
    Picks = {first, second}
    RecordOf <- MCRecordOf
    ModelOf <- MCModelOf
    Records = {chat}
    Rebuilds = {"rebuild"}
    Probes = {"probe"}
    MaxActs = 2
    Saved <- MCSaved
    Edits <- MCEdits
    Faults = {"write", "models", "probe", "save", "append"}
SPECIFICATION FairSpec
CHECK_DEADLOCK FALSE
INVARIANTS
    SnapshotTrue
    ChoiceStands
PROPERTIES
    CatchesUp
