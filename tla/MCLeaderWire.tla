---------------------------- MODULE MCLeaderWire ----------------------------
(* The leader as a host of clients, the output of a session to its client, or  *)
(* the notices beside it: a behaviour is one of them; the others keep their    *)
(* initial states.                                                             *)
EXTENDS MCLeaderHost, MCSessionOutput, TurnNotices

CONSTANTS
    reminder, human, context    \* messages of the notices

VARIABLE side

wireVars == <<vars, outputVars, noticesVars, side>>

\* Messages that come and go around turns; compactions, retries and todos in
\* turns; commands and plan mode.
MessagesOnly == UNCHANGED <<usage, todos, plan, compaction, ran>> /\ turn' # "retrying"
TurnsOnly == inbox' \in Seq(Human) /\ appended' \subseteq Human /\ UNCHANGED <<plan, ran>>
CommandsOnly == UNCHANGED <<inbox, compaction>>

WireInit ==
    /\ Init /\ InitOutput /\ InitNotices
    /\ side \in {"host", "output", "messages", "turns", "commands"}
    /\ side # "output" => log = <<>>
    /\ side # "host" => path = "free"

WireNext ==
    /\ UNCHANGED side
    /\ \/ side = "host" /\ Next /\ UNCHANGED <<outputVars, noticesVars>>
       \/ side = "output" /\ NextOutput /\ UNCHANGED <<vars, noticesVars>>
       \/ /\ side \in {"messages", "turns", "commands"} /\ NextNotices
          /\ UNCHANGED <<vars, outputVars>>
          /\ \/ side = "messages" /\ MessagesOnly
             \/ side = "turns" /\ TurnsOnly
             \/ side = "commands" /\ CommandsOnly

WireSpec == WireInit /\ [][WireNext]_wireVars /\ Fairness /\ FairOutput

\* The framing of codec.ts does not depend on how the network cuts the stream,
\* and the percentage of projection.ts is the rounding of the rational it stands
\* for.  They have nothing of the leader's state: they are evaluated before the
\* start.
FormatsExact ==
    side = "host" /\ path = "free" /\ Init => FramingExact /\ PercentagesExact
=============================================================================
