---------------------------- MODULE MCLeaderHost ----------------------------
(* The instance of LeaderHost that TLC checks: two connections, a reverse   *)
(* request for a session of one of them, and an owner that may fail; with   *)
(* the frames of the socket over bytes of two values and headers of two.    *)
EXTENDS LeaderHost, WireFormats, TLC

CONSTANTS alice, bob, ask, chat

MCClientOf == [r \in Requests |-> alice]
MCSessionOf == [r \in Requests |-> chat]

\* Up to three payloads, of at most MaxPayload bytes.
MCPayloads == BoundedSeq(BoundedSeq(Byte, 2), 2) \cup BoundedSeq({<<>>, <<1, 0>>}, 3)
\* Prompts around the thresholds of the roundings, and with one to many decimals.
MCPrompts ==
    {prompt \in [all : (1..60) \cup {199, 200, 201, 399, 400, 401, 1999, 20001, 40001}, misses : 0..45] :
        prompt.misses <= prompt.all}
=============================================================================
