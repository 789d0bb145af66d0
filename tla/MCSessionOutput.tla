--------------------------- MODULE MCSessionOutput ---------------------------
(* A small instance of SessionOutput for TLC. *)
EXTENDS SessionOutput, TLC
CONSTANTS a0, a1

Past(kind, step_) == [kind |-> kind, step |-> step_, of |-> NoAttempt, chunks |-> 0]
SettledBy(a) == [kind |-> "settled", step |-> 1, of |-> a, chunks |-> 1]

\* A new session, and one that is loaded with a prompt and two images.
MCHistory == {<<>>, <<Past("tool", 1), Past("tool", 1)>>, <<Past("prompt", 1), SettledBy(a0)>>}
=============================================================================
