\* The updates and an edit of a profile, the commands on its plugins, or a launch
\* beside an upgrade and an uninstall.
SPECIFICATION ProfileSpec
CHECK_DEADLOCK FALSE
CONSTANTS
    first = first
    second = second
    edit = edit
    old = old
    oldLock = oldLock
    one = one
    onePatch = onePatch
    two = two
    twoPatch = twoPatch
    edited = edited
    Procs = {first, second, edit}
    Updates = {first, second}
    N = 3
    Old <- MCOld
    New <- MCNew
    Edited = 1
    JournalSyncFails = FALSE
    None = None
    Torn = Torn
    plugin = plugin
    browser = browser
    hidden = hidden
    add = add
    trust = trust
    remove = remove
    enable = enable
    disable = disable
    turnOn = turnOn
    turnOff = turnOff
    show = show
    Packages = {plugin}
    Rows = {browser, hidden}
    HostOf <- MCHostOf
    Adds = {add, trust}
    Removes = {remove}
    Toggles = {enable, disable, turnOn, turnOff, show}
    About <- MCAbout
    Trusted = {trust}
    Wanted = {enable, turnOn, show}
    Direct = {turnOn, turnOff}
    Unstartable = {browser}
    Overlaid = {hidden}
    Applications = {"failed", "throws", "overridden", "applied", "restart-required"}
    FallibleCalls = {"npm", "write", "list", "reload"}
    Preinstalled <- MCPreinstalled
    Nobody = Nobody
    Outsider = Outsider
    launch = launch
    upgrade = upgrade
    removal = removal
    Launches = {launch}
    Upgrades = {upgrade}
    Removals = {removal}
    Packaged = 2
    Latest = 3
    Dev = Dev
    LaunchFaults = {"download", "move", "heal", "npm", "manifest"}
    NoProcess = NoProcess
    NoTransaction = NoTransaction
INVARIANTS
    Exclusive
    AlwaysRepairable
    BootSafe
PROPERTIES
    InstallsAtomically
    CommandsTellTruly
    LinkLeads
    LaunchesEndWhole
