--------------------------- MODULE MCInteractions ---------------------------
(* The instances of Interactions that TLC checks: an approval, one that     *)
(* only a human may give and a question, over three records of a session,   *)
(* of which two are of one client.                                          *)
EXTENDS Interactions, TLC

CONSTANTS approve, browse, question, first, again, other, alice, bob

MCKind ==
    [a \in Asks |-> CASE a = approve -> "approval"
                      [] a = browse -> "guarded"
                      [] a = question -> "question"]
MCClientOf == [r \in Records |-> IF r = other THEN bob ELSE alice]

\* The two records of one client are alike.
RecordSymmetry == Permutations({first, again})
=============================================================================
