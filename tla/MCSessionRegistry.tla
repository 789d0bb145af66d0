------------------------- MODULE MCSessionRegistry -------------------------
(* The instance of SessionRegistry that TLC checks: a new session, a load of *)
(* it by the same client and a load by another client.                      *)
EXTENDS SessionRegistry

CONSTANTS create, load, other, s1, alice, bob

MCLoads == Records \ {create}
MCSessionOf == [r \in Records |-> s1]
MCClientOf == [r \in Records |-> IF r = other THEN bob ELSE alice]
=============================================================================
