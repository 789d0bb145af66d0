\* Two connections, a reverse request and an owner that may fail; the output of
\* a session that is new or loaded; or the notices about its messages and its work.
SPECIFICATION WireSpec
CHECK_DEADLOCK FALSE
CONSTANTS
    alice = alice
    bob = bob
    ask = ask
    chat = chat
    None = None
    NoAttempt = NoAttempt
    Clients = {alice, bob}
    Requests = {ask}
    ClientOf <- MCClientOf
    SessionOf <- MCSessionOf
    Timed = {ask}
    Owners = {"sessions", "plugin"}
    Faulty = {"plugin"}
    HeaderBytes = 2
    Radix = 2
    MaxPayload = 2
    Payloads <- MCPayloads
    Oversize = {3}
    Prompts <- MCPrompts
    a0 = a0
    a1 = a1
    Attempts = {a0, a1}
    Chunks = 1
    MaxLog = 3
    MaxStep = 2
    History <- MCHistory
    reminder = reminder
    human = human
    context = context
    Messages = {reminder, human, context}
    Human = {human}
    Standing = {context}
    Compactions = {"automatic", "manual"}
    Manual = {"manual"}
    Commands = {"goal", "feedback"}
    Silent = {"goal"}
    MaxTurns = 2
    MaxTodos = 1
    Unknown = Unknown
INVARIANTS
    WaitsOnlyForItsClient
    FormatsExact
    ClientSeesLog
    NoticesTrue
PROPERTIES
    SocketFile
    ShutdownComplete
    OutputEnds
