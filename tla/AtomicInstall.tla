--------------------------- MODULE AtomicInstall ---------------------------
(***************************************************************************)
(* What an update of the installed profile promises: whatever happens to   *)
(* the processes that install it, the entries of the profile are those of  *)
(* one whole release, and they change to the next one at once.             *)
(***************************************************************************)
CONSTANTS
    Entries,        \* the paths that an update replaces
    Procs, Updates, \* processes; those that install a release
    Old, New,       \* the contents before, and those of each process
    Edited          \* the entry that another process writes

VARIABLE installed

Install(p) == installed' = New[p]

Edit(p) == installed' = [installed EXCEPT ![Edited] = New[p][Edited]]

Init == installed = Old

Next ==
    \/ \E p \in Updates : Install(p)
    \/ \E p \in Procs \ Updates : Edit(p)

Spec == Init /\ [][Next]_installed
=============================================================================
