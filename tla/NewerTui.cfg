\* A launch, an upgrade and an uninstall: what a launch does to a newer TUI.
SPECIFICATION SpecLauncher
CHECK_DEADLOCK FALSE
CONSTANTS
    Launches = {launch}
    Upgrades = {upgrade}
    Removals = {removal}
    Packaged = 2
    Latest = 3
    Dev = Dev
    LaunchFaults = {"download", "move", "heal", "npm", "manifest"}
    NoProcess = NoProcess
    NoTransaction = NoTransaction
PROPERTIES
    NewerLeftAlone
