\* A session that is opened, reloaded and taken over, with failing setters and
\* questions that nobody need answer.
CONSTANTS
    approve = approve
    browse = browse
    question = question
    first = first
    again = again
    other = other
    alice = alice
    bob = bob
    Asks = {approve, question}
    Kind <- MCKind
    Records = {first, again, other}
    Clients = {alice, bob}
    ClientOf <- MCClientOf
    Faults = {"plan", "preset"}
    None = None
SPECIFICATION FairSpec
CHECK_DEADLOCK FALSE
INVARIANTS
    QuestionsBelong
PROPERTIES
    DecisionsStand
    AllowedByRight
    WithdrawnWorkEnds
