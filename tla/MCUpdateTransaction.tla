------------------------ MODULE MCUpdateTransaction ------------------------
(* The instance of UpdateTransaction that TLC checks: two updates and an    *)
(* edit of a profile with an entry that is replaced, one that is deleted    *)
(* and one that is new.                                                     *)
EXTENDS UpdateTransaction

CONSTANTS first, second, edit,
          old, oldLock, one, onePatch, two, twoPatch, edited

MCOld == <<old, oldLock, None>>
MCNew == [p \in Procs |->
            CASE p = first -> <<one, None, onePatch>>
              [] p = second -> <<two, None, twoPatch>>
              [] p = edit -> <<edited, None, None>>]
=============================================================================
