SPECIFICATION Spec
CHECK_DEADLOCK FALSE
CONSTANTS
    first = first
    second = second
    edit = edit
    old = old
    oldLock = oldLock
    one = one
    onePatch = onePatch
    two = two
    twoPatch = twoPatch
    edited = edited
    Procs = {first, second, edit}
    Updates = {first, second}
    N = 3
    Old <- MCOld
    New <- MCNew
    Edited = 1
    JournalSyncFails = TRUE
    None = None
    Torn = Torn
INVARIANT OnlyCopyKept
