\* A provider is removed while a session may choose it.
CONSTANTS
    own = own
    spare = spare
    static = static
    dynamic = dynamic
    moved = moved
    remove = remove
    update = update
    add = add
    list = list
    first = first
    second = second
    chat = chat
    None = None
    Providers = {own, spare}
    Endpoints = {static, dynamic, moved}
    Dynamic = {dynamic, moved}
    Requests = {remove}
    Kind <- MCKind
    ProviderOf <- MCProviderOf
    EndpointOf <- MCEndpointOf
    Picks = {first}
    RecordOf <- MCRecordOf
    ModelOf <- MCModelOf
    Records = {chat}
    Rebuilds = {"rebuild"}
    Probes = {"probe"}
    MaxActs = 2
    Saved <- MCSaved
    Edits = {}
    Faults = {}
SPECIFICATION Spec
CHECK_DEADLOCK FALSE
INVARIANTS
    RemovalNeverOrphans
