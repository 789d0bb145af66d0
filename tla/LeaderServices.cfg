\* Lanes of one call with one waiter behind it; the children in three scenarios; a
\* reminder with two writes, or a job; switches, turns, closes and reloads of one session.
CONSTANTS
    read1 = read1
    write = write
    read2 = read2
    alice = alice
    chat = chat
    NoSession = NoSession
    Calls = {read1, write, read2}
    CallClient <- MCCallClient
    CallSession <- MCCallSession
    Mutations = {write}
    InFlight = 1
    MaxWaiting = 1
    child = child
    worker = worker
    Nothing = Nothing
    Children = {child, worker}
    Workers = {worker}
    MaxTurns <- MCMaxTurns
    MaxAgents <- MCMaxAgents
    MaxTroubles = 1
    daily = daily
    Reminders = {daily}
    MaxWrites = 2
    MaxTaskTroubles = 1
    Unset = Unset
    standard = standard
    minimal = minimal
    ptc = ptc
    team = team
    create = create
    load = load
    reopen = reopen
    switch = switch
    None = None
    Presets = {standard, minimal, ptc, team}
    Team = {team}
    Opens = {create, load, reopen}
    Creates = {create}
    Commands = {switch}
    Explicit <- MCExplicit
    Remember = {load, switch}
    Stored <- MCStored
    Standard = standard
    Faults = {"resolve", "recompose", "append", "flush", "remember", "create"}
SPECIFICATION Spec
\* A service at rest, with everything answered, has nothing left to do.
CHECK_DEADLOCK FALSE
INVARIANTS
    ComposedAsLogged
PROPERTIES
    RemoteCallsServed
    ChildrenMirrored
    TasksMirrored
    SwitchesAreSound
