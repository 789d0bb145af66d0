SPECIFICATION SessionsSpec
CHECK_DEADLOCK FALSE
CONSTANTS
    create = create
    load = load
    other = other
    s1 = s1
    alice = alice
    bob = bob
    Records = {create, load, other}
    Sessions = {s1}
    Clients = {alice, bob}
    Loads <- MCLoads
    SessionOf <- MCSessionOf
    ClientOf <- MCClientOf
    MaxPending = 1
    Runners = {create}
    Faults = {"prepare", "create", "commit", "present", "reload", "dispose"}
    None = None
    own = own
    far = far
    first = first
    second = second
    Chats = {own, far}
    OwnChats = {own}
    Pickers = {first, second}
    MaxVersion = 2
    MaxMounts = 2
    MaxTroubles = 1
    Absent = Absent
    preset = preset
    query = query
    Lines = {preset, query}
    Switching = {preset}
    MaxChanges = 2
    MaxCommandTroubles = 1
INVARIANTS
    PublicationIsSound
    ReloadIsSound
    NothingLost
    ShutdownReleases
    ListsTellTruly
PROPERTIES
    EverythingEnds
    MenuTrue
