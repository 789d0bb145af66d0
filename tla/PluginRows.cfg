\* A switch by /browser, when the manager may refuse to save a change.
SPECIFICATION SpecPlugins
CHECK_DEADLOCK FALSE
CONSTANTS
    plugin = plugin
    browser = browser
    hidden = hidden
    add = add
    trust = trust
    remove = remove
    enable = enable
    disable = disable
    turnOn = turnOn
    turnOff = turnOff
    show = show
    Packages = {plugin}
    Rows = {browser, hidden}
    HostOf <- MCHostOf
    Adds = {add, trust}
    Removes = {remove}
    Toggles = {enable, disable, turnOn, turnOff, show}
    About <- MCAbout
    Trusted = {trust}
    Wanted = {enable, turnOn, show}
    Direct = {turnOn, turnOff}
    Unstartable = {browser}
    Overlaid = {hidden}
    Applications = {"failed", "throws", "overridden", "applied", "restart-required"}
    FallibleCalls = {"npm", "write", "list", "reload"}
    Preinstalled <- MCPreinstalled
    Nobody = Nobody
    Outsider = Outsider
INVARIANT TurnedOffAgain
