-------------------------- MODULE LeaderWireProofs --------------------------
(***************************************************************************)
(* What holds for any number of clients, reverse requests and owners of a  *)
(* leader, for any messages, compactions and commands of a session that it *)
(* answers for, and for any log and stream of that session.                *)
(*                                                                         *)
(* Leader.  The invariant has three parts, which only share the types: the *)
(* pending maps, the socket with the shutdown, and the idle exit.  The     *)
(* third is the one the code argues about: an idle callback that waits may *)
(* act only if its generation is still the current one, and that alone     *)
(* implies that nobody registered, and that no work was admitted, since    *)
(* the last client left.                                                   *)
(*                                                                         *)
(* Notices.  The folds of the live record and of a replay hold what the    *)
(* session makes of its log (Told), and the two clients show what is so.   *)
(*                                                                         *)
(* Output.  The line, what was sent and then what waits, is a transcript   *)
(* of the log (OutputInv) except for the events that are held until the    *)
(* end frame of their attempt.  An image, a slow socket and the drain only *)
(* move the border between what was sent and what waits.  What restore()   *)
(* and drainAssistantEvents() make of many events is shown event by event, *)
(* by the least one at which it would fail.                                *)
(***************************************************************************)
EXTENDS LeaderHost, SessionOutput, TurnNotices, SequenceTheorems, FiniteSetTheorems,
        WellFoundedInduction, TLAPS

\* The socket follows the shutdown: the path is bound exactly when it is ours,
\* and a leader that quiesces is closed and will not be bound again.
Socket ==
    /\ path = "ours" <=> bound
    /\ listening => bound
    /\ closed <=> quiescing # "no"
    /\ closed => ~bound

\* How far the shutdown has come.
Ending ==
    /\ quiescing \in {"done", "failed"} =>
         ~errorDue /\ \A o \in Owners : Settled(o)
    /\ exit \in {"exited", "stays"} => quiescing \in {"done", "failed"}
    /\ disposal \in {"resolved", "rejected"} =>
         /\ quiescing \in {"done", "failed"}
         /\ disposal = "resolved" <=> ~(startupFailure \/ failure)
    /\ quiescing # "no" => timer = 0

\* An idle exit that is still current (its timer, its wait, its decision) was
\* armed by the last client that left, and nobody came since.
Waiting == draining \cup deciding

Idle ==
    /\ timer # 0 => timer = generation /\ clients = {} /\ generation \notin Waiting
    /\ generation \in Waiting => clients = {}
    /\ generation \in deciding =>
         generation \notin draining /\ operations = {} /\ teardowns = {}

IInv == TypeOK /\ WaitsOnlyForItsClient /\ Socket /\ Ending /\ Idle

----------------------------------------------------------------------------
LEMMA QuiesceTypes ==
    ASSUME TypeOK, NEW why \in {"idle", "failure", "dispose"}, Quiesce(why)
    PROVE  /\ {bound, closed, listening}' \subseteq BOOLEAN
           /\ path' \in {"free", "ours", "other"}
           /\ conn' \in [Clients -> {"absent", "open", "destroyed", "gone"}]
           /\ generation' \in Nat /\ generation' \in {generation, generation + 1}
           /\ timer' \in 0..generation'
           /\ quiescing' \in {"no", "running", "done", "failed"}
           /\ cause' \in {"none", "idle", "failure", "dispose"}
           /\ owner' \in [Owners -> {"live", "disposing", "done", "failed"}]
  <1>1. CASE quiescing = "no"
    <2>1. CancelIdle /\ CloseTransport /\ DisposeOwners /\ quiescing' = "running" /\
        cause' = why
      BY <1>1 DEF Quiesce
    <2>2. {bound, closed, listening}' \subseteq BOOLEAN
      BY <2>1 DEF CloseTransport
    <2>3. path' \in {"free", "ours", "other"}
      BY <2>1 DEF CloseTransport, TypeOK
    <2>4. conn' \in [Clients -> {"absent", "open", "destroyed", "gone"}]
      BY <2>1 DEF CloseTransport, TypeOK
    <2>5. generation' \in Nat /\ generation' = generation + 1 /\ timer' \in
        0..generation'
      BY <2>1 DEF CancelIdle, TypeOK
    <2>6. owner' \in [Owners -> {"live", "disposing", "done", "failed"}]
      BY <2>1 DEF DisposeOwners
    <2> QED BY <2>1, <2>2, <2>3, <2>4, <2>5, <2>6
  <1>2. CASE quiescing # "no"
    BY <1>2 DEF Quiesce, TypeOK
  <1> QED BY <1>1, <1>2

LEMMA TypeStart == Init => TypeOK
  <1>1. Init => {started, listening, bound, errorDue, failure, closed,
      startupFailure} \subseteq BOOLEAN
    BY DEF Init
  <1> QED BY <1>1 DEF Init, TypeOK

LEMMA TypeKept ==
    ASSUME TypeOK, [Next]_vars
    PROVE  TypeOK'
  <1>1. CASE Start
    <2>1. {started, listening, bound, errorDue, failure, closed, startupFailure}'
        \subseteq BOOLEAN
      BY <1>1 DEF Start, Bind, BindFails, shutdown, TypeOK
    <2>2. path' \in {"free", "ours", "other"}
      BY <1>1 DEF Start, Bind, BindFails, TypeOK
    <2> QED BY <1>1, <2>1, <2>2 DEF Start, wire, work, idle, shutdown, TypeOK
  <1>2. CASE StartThrows
    <2>1. Quiesce("failure")
      BY <1>2 DEF StartThrows, Failed
    <2>2. {started, listening, bound, errorDue, failure, closed, startupFailure}'
        \subseteq BOOLEAN
      BY <1>2, <2>1, QuiesceTypes DEF StartThrows, Failed, TypeOK
    <2> QED BY <1>2, <2>1, <2>2, QuiesceTypes DEF StartThrows, Failed, work, TypeOK
  <1>3. CASE ServerError
    <2>1. Quiesce("failure")
      BY <1>3 DEF ServerError, Failed
    <2>2. {started, listening, bound, errorDue, failure, closed, startupFailure}'
        \subseteq BOOLEAN
      BY <1>3, <2>1, QuiesceTypes DEF ServerError, Failed, TypeOK
    <2> QED BY <1>3, <2>1, <2>2, QuiesceTypes DEF ServerError, Failed, work, TypeOK
  <1>4. CASE OtherLeader
    BY <1>4, LeaderHostAssumption
    DEF OtherLeader, TypeOK, transport, wire, work, idle, shutdown
  <1>5. CASE Dispose
    BY <1>5, QuiesceTypes, LeaderHostAssumption
    DEF Dispose, TypeOK, transport, wire, work, idle, shutdown
  <1>6. CASE DisposeSettles
    BY <1>6, LeaderHostAssumption
    DEF DisposeSettles, TypeOK, transport, wire, work, idle, shutdown
  <1>7. CASE QuiesceSettles
    BY <1>7, LeaderHostAssumption
    DEF QuiesceSettles, TypeOK, transport, wire, work, idle, shutdown
  <1>8. CASE TimerFires
    BY <1>8, LeaderHostAssumption
    DEF TimerFires, TypeOK, transport, wire, work, idle, shutdown
  <1>9. CASE AppExit
    BY <1>9, LeaderHostAssumption
    DEF AppExit, TypeOK, transport, wire, work, idle, shutdown
  <1>10. ASSUME NEW o \in Owners, OwnerSettles(o) PROVE TypeOK'
    BY <1>10, LeaderHostAssumption
    DEF OwnerSettles, TypeOK, transport, wire, work, idle, shutdown
  <1>11. ASSUME NEW a \in 1..generation, Drained(a) PROVE TypeOK'
    BY <1>11, LeaderHostAssumption
    DEF Drained, TypeOK, transport, wire, work, idle, shutdown
  <1>12. ASSUME NEW a \in 1..generation, Decide(a) PROVE TypeOK'
    BY <1>12, QuiesceTypes, LeaderHostAssumption
    DEF Decide, TypeOK, transport, wire, work, idle, shutdown
  <1>13. ASSUME NEW c \in Clients, Accept(c) PROVE TypeOK'
    BY <1>13, LeaderHostAssumption
    DEF Accept, TypeOK, transport, wire, work, idle, shutdown
  <1>14. ASSUME NEW c \in Clients, Destroy(c) PROVE TypeOK'
    BY <1>14, LeaderHostAssumption
    DEF Destroy, TypeOK, transport, wire, work, idle, shutdown
  <1>15. ASSUME NEW c \in Clients, Register(c) PROVE TypeOK'
    BY <1>15, LeaderHostAssumption
    DEF Register, CancelIdle, TypeOK, transport, wire, work, idle, shutdown
  <1>16. ASSUME NEW c \in Clients, Admit(c) PROVE TypeOK'
    BY <1>16, LeaderHostAssumption
    DEF Admit, TypeOK, transport, wire, work, idle, shutdown
  <1>17. ASSUME NEW c \in Clients, WorkEnds(c) PROVE TypeOK'
    BY <1>17, LeaderHostAssumption
    DEF WorkEnds, TypeOK, transport, wire, work, idle, shutdown
  <1>18. ASSUME NEW c \in Clients, Close(c) PROVE TypeOK'
    BY <1>18, LeaderHostAssumption
    DEF Close, ArmIdle, TypeOK, transport, wire, work, idle, shutdown
  <1>19. ASSUME NEW c \in Clients, NEW r \in Requests, Reply(c, r) PROVE TypeOK'
    BY <1>19, LeaderHostAssumption
    DEF Reply, Settle, TypeOK, transport, wire, work, idle, shutdown
  <1>20. ASSUME NEW c \in Clients, NEW s \in Sessions, RejectSession(c, s) PROVE TypeOK'
    BY <1>20, LeaderHostAssumption
    DEF RejectSession, TypeOK, transport, wire, work, idle, shutdown
  <1>21. ASSUME NEW r \in Requests, Ask(r) PROVE TypeOK'
    BY <1>21, LeaderHostAssumption
    DEF Ask, IsClosed, TypeOK, transport, wire, work, idle, shutdown
  <1>22. ASSUME NEW r \in Requests, Timeout(r) PROVE TypeOK'
    BY <1>22, LeaderHostAssumption
    DEF Timeout, Settle, TypeOK, transport, wire, work, idle, shutdown
  <1>23. ASSUME NEW r \in Requests, AbortSignal(r) PROVE TypeOK'
    BY <1>23, LeaderHostAssumption
    DEF AbortSignal, Settle, TypeOK, transport, wire, work, idle, shutdown
  <1>24. CASE UNCHANGED vars
    BY <1>24 DEF TypeOK, vars, transport, wire, work, idle, shutdown
  <1> QED
    BY <1>1, <1>2, <1>3, <1>4, <1>5, <1>6, <1>7, <1>8, <1>9, <1>10, <1>11, <1>12,
        <1>13, <1>14, <1>15, <1>16, <1>17, <1>18, <1>19, <1>20, <1>21, <1>22, <1>23,
        <1>24
         DEF Next, Lifecycle, Connections

\* Type correctness for any number of clients, requests, sessions and owners.
THEOREM TypeCorrect == Spec => []TypeOK
  BY TypeStart, TypeKept, PTL DEF Spec

----------------------------------------------------------------------------
\* The pending maps.
LEMMA RequestsKept ==
    ASSUME TypeOK, WaitsOnlyForItsClient, [Next]_vars
    PROVE  WaitsOnlyForItsClient'
  <1>1. CASE StartThrows
    BY <1>1, LeaderHostAssumption
    DEF StartThrows, Failed, TypeOK, WaitsOnlyForItsClient, Quiesce,
        CloseTransport, Sessions, transport, wire, work, idle, shutdown
  <1>2. CASE ServerError
    BY <1>2, LeaderHostAssumption
    DEF ServerError, Failed, TypeOK, WaitsOnlyForItsClient, Quiesce,
        CloseTransport, Sessions, transport, wire, work, idle, shutdown
  <1>3. CASE Dispose
    BY <1>3, LeaderHostAssumption
    DEF Dispose, TypeOK, WaitsOnlyForItsClient, Quiesce, CloseTransport, Sessions,
        transport, wire, work, idle, shutdown
  <1>4. ASSUME NEW a \in 1..generation, Decide(a) PROVE WaitsOnlyForItsClient'
    BY <1>4, LeaderHostAssumption
    DEF Decide, TypeOK, WaitsOnlyForItsClient, Quiesce, CloseTransport, Sessions,
        transport, wire, work, idle, shutdown
  <1>5. ASSUME NEW c \in Clients, Accept(c) PROVE WaitsOnlyForItsClient'
    BY <1>5, LeaderHostAssumption
    DEF Accept, TypeOK, WaitsOnlyForItsClient, Quiesce, CloseTransport, Sessions,
        transport, wire, work, idle, shutdown
  <1>6. ASSUME NEW c \in Clients, Destroy(c) PROVE WaitsOnlyForItsClient'
    BY <1>6, LeaderHostAssumption
    DEF Destroy, TypeOK, WaitsOnlyForItsClient, Quiesce, CloseTransport, Sessions,
        transport, wire, work, idle, shutdown
  <1>7. ASSUME NEW c \in Clients, Close(c) PROVE WaitsOnlyForItsClient'
    BY <1>7, LeaderHostAssumption
    DEF Close, ArmIdle, TypeOK, WaitsOnlyForItsClient, Quiesce, CloseTransport,
        Sessions, transport, wire, work, idle, shutdown
  <1>8. ASSUME NEW c \in Clients, NEW r \in Requests, Reply(c, r) PROVE
      WaitsOnlyForItsClient'
    BY <1>8, LeaderHostAssumption
    DEF Reply, Settle, TypeOK, WaitsOnlyForItsClient, Quiesce, CloseTransport,
        Sessions, transport, wire, work, idle, shutdown
  <1>9. ASSUME NEW c \in Clients, NEW s \in Sessions, RejectSession(c, s) PROVE
      WaitsOnlyForItsClient'
    BY <1>9, LeaderHostAssumption
    DEF RejectSession, TypeOK, WaitsOnlyForItsClient, Quiesce, CloseTransport,
        Sessions, transport, wire, work, idle, shutdown
  <1>10. ASSUME NEW r \in Requests, Ask(r) PROVE WaitsOnlyForItsClient'
    BY <1>10, LeaderHostAssumption
    DEF Ask, IsClosed, TypeOK, WaitsOnlyForItsClient, Quiesce, CloseTransport,
        Sessions, transport, wire, work, idle, shutdown
  <1>11. ASSUME NEW r \in Requests, Timeout(r) PROVE WaitsOnlyForItsClient'
    BY <1>11, LeaderHostAssumption
    DEF Timeout, Settle, TypeOK, WaitsOnlyForItsClient, Quiesce, CloseTransport,
        Sessions, transport, wire, work, idle, shutdown
  <1>12. ASSUME NEW r \in Requests, AbortSignal(r) PROVE WaitsOnlyForItsClient'
    BY <1>12, LeaderHostAssumption
    DEF AbortSignal, Settle, TypeOK, WaitsOnlyForItsClient, Quiesce,
        CloseTransport, Sessions, transport, wire, work, idle, shutdown
  <1>13. CASE UNCHANGED <<conn, pending, answer>>
    BY <1>13 DEF TypeOK, WaitsOnlyForItsClient, Quiesce, CloseTransport, Sessions
  <1> QED
    BY <1>1, <1>2, <1>3, <1>4, <1>5, <1>6, <1>7, <1>8, <1>9, <1>10, <1>11, <1>12, <1>13
    DEF Next, Lifecycle, Connections, vars, Start, Bind, BindFails, OtherLeader,
        DisposeSettles, QuiesceSettles, TimerFires, AppExit, OwnerSettles, Drained,
        Register, CancelIdle, Admit, WorkEnds, transport, wire, work, idle, shutdown

----------------------------------------------------------------------------
\* The socket and the shutdown.
LEMMA SocketKept ==
    ASSUME TypeOK, Socket, [Next]_vars
    PROVE  Socket'
  <1>1. CASE Start
    BY <1>1
    DEF Start, Bind, BindFails, TypeOK, Socket, Quiesce, CloseTransport,
        transport, wire, work, idle, shutdown
  <1>2. CASE StartThrows
    BY <1>2
    DEF StartThrows, Failed, TypeOK, Socket, Quiesce, CloseTransport, transport,
        wire, work, idle, shutdown
  <1>3. CASE ServerError
    BY <1>3
    DEF ServerError, Failed, TypeOK, Socket, Quiesce, CloseTransport, transport,
        wire, work, idle, shutdown
  <1>4. CASE OtherLeader
    BY <1>4
    DEF OtherLeader, TypeOK, Socket, Quiesce, CloseTransport, transport, wire,
        work, idle, shutdown
  <1>5. CASE Dispose
    BY <1>5
    DEF Dispose, TypeOK, Socket, Quiesce, CloseTransport, transport, wire, work,
        idle, shutdown
  <1>6. CASE QuiesceSettles
    BY <1>6
    DEF QuiesceSettles, TypeOK, Socket, Quiesce, CloseTransport, transport, wire,
        work, idle, shutdown
  <1>7. ASSUME NEW a \in 1..generation, Decide(a) PROVE Socket'
    BY <1>7
    DEF Decide, TypeOK, Socket, Quiesce, CloseTransport, transport, wire, work,
        idle, shutdown
  <1>8. CASE UNCHANGED <<path, bound, listening, closed, quiescing>>
    BY <1>8 DEF TypeOK, Socket, Quiesce, CloseTransport
  <1> QED
    BY <1>1, <1>2, <1>3, <1>4, <1>5, <1>6, <1>7, <1>8
    DEF Next, Lifecycle, Connections, vars, DisposeSettles, TimerFires, AppExit,
        OwnerSettles, Drained, Accept, Destroy, Register, CancelIdle, Admit, WorkEnds,
        Close, ArmIdle, Reply, Settle, RejectSession, Ask, IsClosed, Timeout, Settle,
        AbortSignal, Settle, transport, wire, work, idle, shutdown

LEMMA EndingKept ==
    ASSUME TypeOK, Socket, Ending, [Next]_vars
    PROVE  Ending'
  <1>1. CASE Start
    BY <1>1
    DEF Start, Bind, BindFails, TypeOK, Socket, Ending, Quiesce, CancelIdle,
        DisposeOwners, Settled, transport, wire, work, idle, shutdown
  <1>2. CASE StartThrows
    BY <1>2
    DEF StartThrows, Failed, TypeOK, Socket, Ending, Quiesce, CancelIdle,
        DisposeOwners, Settled, transport, wire, work, idle, shutdown
  <1>3. CASE ServerError
    BY <1>3
    DEF ServerError, Failed, TypeOK, Socket, Ending, Quiesce, CancelIdle,
        DisposeOwners, Settled, transport, wire, work, idle, shutdown
  <1>4. CASE Dispose
    BY <1>4
    DEF Dispose, TypeOK, Socket, Ending, Quiesce, CancelIdle, DisposeOwners,
        Settled, transport, wire, work, idle, shutdown
  <1>5. CASE DisposeSettles
    BY <1>5
    DEF DisposeSettles, TypeOK, Socket, Ending, Quiesce, CancelIdle,
        DisposeOwners, Settled, transport, wire, work, idle, shutdown
  <1>6. CASE QuiesceSettles
    BY <1>6
    DEF QuiesceSettles, TypeOK, Socket, Ending, Quiesce, CancelIdle,
        DisposeOwners, Settled, transport, wire, work, idle, shutdown
  <1>7. CASE TimerFires
    BY <1>7
    DEF TimerFires, TypeOK, Socket, Ending, Quiesce, CancelIdle, DisposeOwners,
        Settled, transport, wire, work, idle, shutdown
  <1>8. CASE AppExit
    BY <1>8
    DEF AppExit, TypeOK, Socket, Ending, Quiesce, CancelIdle, DisposeOwners,
        Settled, transport, wire, work, idle, shutdown
  <1>9. ASSUME NEW o \in Owners, OwnerSettles(o) PROVE Ending'
    BY <1>9
    DEF OwnerSettles, TypeOK, Socket, Ending, Quiesce, CancelIdle, DisposeOwners,
        Settled, transport, wire, work, idle, shutdown
  <1>10. ASSUME NEW a \in 1..generation, Decide(a) PROVE Ending'
    BY <1>10
    DEF Decide, TypeOK, Socket, Ending, Quiesce, CancelIdle, DisposeOwners,
        Settled, transport, wire, work, idle, shutdown
  <1>11. ASSUME NEW c \in Clients, Register(c) PROVE Ending'
    BY <1>11
    DEF Register, CancelIdle, TypeOK, Socket, Ending, Quiesce, CancelIdle,
        DisposeOwners, Settled, transport, wire, work, idle, shutdown
  <1>12. ASSUME NEW c \in Clients, Close(c) PROVE Ending'
    BY <1>12
    DEF Close, ArmIdle, TypeOK, Socket, Ending, Quiesce, CancelIdle,
        DisposeOwners, Settled, transport, wire, work, idle, shutdown
  <1>13. CASE UNCHANGED <<quiescing, errorDue, owner, exit, disposal,
      startupFailure, failure, timer>>
    BY <1>13 DEF TypeOK, Socket, Ending, Quiesce, CancelIdle, DisposeOwners, Settled
  <1> QED
    BY <1>1, <1>2, <1>3, <1>4, <1>5, <1>6, <1>7, <1>8, <1>9, <1>10, <1>11, <1>12, <1>13
    DEF Next, Lifecycle, Connections, vars, OtherLeader, Drained, Accept, Destroy,
        Admit, WorkEnds, Reply, Settle, RejectSession, Ask, IsClosed, Timeout, Settle,
        AbortSignal, Settle, transport, wire, work, idle, shutdown

----------------------------------------------------------------------------
\* The idle exit.
LEMMA IdleKept ==
    ASSUME TypeOK, Idle, [Next]_vars
    PROVE  Idle'
  <1>1. CASE StartThrows
    BY <1>1
    DEF StartThrows, Failed, TypeOK, Idle, Waiting, Quiesce, CancelIdle,
        transport, wire, work, idle, shutdown
  <1>2. CASE ServerError
    BY <1>2
    DEF ServerError, Failed, TypeOK, Idle, Waiting, Quiesce, CancelIdle,
        transport, wire, work, idle, shutdown
  <1>3. CASE Dispose
    BY <1>3
    DEF Dispose, TypeOK, Idle, Waiting, Quiesce, CancelIdle, transport, wire,
        work, idle, shutdown
  <1>4. CASE TimerFires
    BY <1>4
    DEF TimerFires, TypeOK, Idle, Waiting, Quiesce, CancelIdle, transport, wire,
        work, idle, shutdown
  <1>5. ASSUME NEW a \in 1..generation, Drained(a) PROVE Idle'
    BY <1>5
    DEF Drained, TypeOK, Idle, Waiting, Quiesce, CancelIdle, transport, wire,
        work, idle, shutdown
  <1>6. ASSUME NEW a \in 1..generation, Decide(a) PROVE Idle'
    BY <1>6
    DEF Decide, TypeOK, Idle, Waiting, Quiesce, CancelIdle, transport, wire, work,
        idle, shutdown
  <1>7. ASSUME NEW c \in Clients, Register(c) PROVE Idle'
    BY <1>7
    DEF Register, CancelIdle, TypeOK, Idle, Waiting, Quiesce, CancelIdle,
        transport, wire, work, idle, shutdown
  <1>8. ASSUME NEW c \in Clients, Admit(c) PROVE Idle'
    BY <1>8
    DEF Admit, TypeOK, Idle, Waiting, Quiesce, CancelIdle, transport, wire, work,
        idle, shutdown
  <1>9. ASSUME NEW c \in Clients, WorkEnds(c) PROVE Idle'
    BY <1>9
    DEF WorkEnds, TypeOK, Idle, Waiting, Quiesce, CancelIdle, transport, wire,
        work, idle, shutdown
  <1>10. ASSUME NEW c \in Clients, Close(c) PROVE Idle'
    BY <1>10
    DEF Close, ArmIdle, TypeOK, Idle, Waiting, Quiesce, CancelIdle, transport,
        wire, work, idle, shutdown
  <1>11. CASE UNCHANGED <<generation, timer, draining, deciding, clients,
      operations, teardowns>>
    BY <1>11 DEF TypeOK, Idle, Waiting, Quiesce, CancelIdle
  <1> QED
    BY <1>1, <1>2, <1>3, <1>4, <1>5, <1>6, <1>7, <1>8, <1>9, <1>10, <1>11
    DEF Next, Lifecycle, Connections, vars, Start, Bind, BindFails, OtherLeader,
        DisposeSettles, QuiesceSettles, AppExit, OwnerSettles, Accept, Destroy, Reply,
        Settle, RejectSession, Ask, IsClosed, Timeout, Settle, AbortSignal, Settle,
        transport, wire, work, idle, shutdown

----------------------------------------------------------------------------
\* The inductive invariant: the requests that wait, the socket file, what a shutdown
\* has waited for, and the idle callbacks that may still decide.
THEOREM Invariance == Spec => []IInv
  <1>1. Init => IInv
    <2>1. Init => Socket
      BY DEF Init, Socket
    <2>2. Init => WaitsOnlyForItsClient /\ Ending /\ Idle
      BY LeaderHostAssumption DEF Init, WaitsOnlyForItsClient, Ending, Idle, Waiting
    <2> QED BY TypeStart, <2>1, <2>2 DEF IInv
  <1>2. ASSUME IInv, [Next]_vars PROVE IInv'
    <2>1. TypeOK /\ WaitsOnlyForItsClient /\ Socket /\ Ending /\ Idle
      BY <1>2 DEF IInv
    <2>2. TypeOK' /\ WaitsOnlyForItsClient' /\ Socket' /\ Ending' /\ Idle'
      BY <1>2, <2>1, TypeKept, RequestsKept, SocketKept, EndingKept, IdleKept
    <2> QED BY <2>2 DEF IInv
  <1> QED BY <1>1, <1>2, PTL DEF Spec

\* A reverse request waits exactly while the map of its client, which has not
\* gone, holds it.
THEOREM RequestsWaitForTheirClient == Spec => []WaitsOnlyForItsClient
  <1>1. IInv => WaitsOnlyForItsClient
    BY DEF IInv
  <1> QED BY <1>1, Invariance, PTL

\* A reverse request that was answered, or rejected, stays so: a late reply, a
\* timeout, an abort or the close of its client do not settle it again.
SettledStays ==
    [][\A r \in Requests : answer[r] \in {"answered", "rejected"} => answer'[r] =
        answer[r]]_vars

THEOREM RequestsSettleOnce == Spec => SettledStays
  <1> DEFINE D == \A r \in Requests :
                    answer[r] \in {"answered", "rejected"} => answer'[r] = answer[r]
  <1>1. ASSUME TypeOK, WaitsOnlyForItsClient, [Next]_vars PROVE D
    <2>1. ASSUME NEW c \in Clients, Close(c) PROVE D
      BY <1>1, <2>1 DEF Close, WaitsOnlyForItsClient
    <2>2. ASSUME NEW c \in Clients, NEW r \in Requests, Reply(c, r) PROVE D
      BY <1>1, <2>2 DEF Reply, Settle, WaitsOnlyForItsClient, TypeOK
    <2>3. ASSUME NEW c \in Clients, NEW s \in Sessions, RejectSession(c, s) PROVE D
      BY <1>1, <2>3 DEF RejectSession, WaitsOnlyForItsClient
    <2>4. ASSUME NEW r \in Requests, Ask(r) PROVE D
      BY <1>1, <2>4 DEF Ask, TypeOK
    <2>5. ASSUME NEW r \in Requests, Timeout(r) PROVE D
      BY <1>1, <2>5 DEF Timeout, Settle, WaitsOnlyForItsClient, TypeOK
    <2>6. ASSUME NEW r \in Requests, AbortSignal(r) PROVE D
      BY <1>1, <2>6 DEF AbortSignal, Settle, WaitsOnlyForItsClient, TypeOK
    <2>7. CASE answer' = answer
      BY <2>7
    <2> QED
      BY <1>1, <2>1, <2>2, <2>3, <2>4, <2>5, <2>6, <2>7
      DEF Next, Lifecycle, Connections, vars, transport, wire, work, idle, shutdown,
          Start, Bind, BindFails, StartThrows, Failed, ServerError, OtherLeader,
          Dispose, DisposeSettles, QuiesceSettles, TimerFires, AppExit, OwnerSettles,
          Drained, Decide, Accept, Destroy, Register, CancelIdle, Admit, WorkEnds
  <1> QED BY <1>1, Invariance, PTL DEF Spec, IInv, SettledStays

\* The socket file is removed by the leader that bound it only, and by that one
\* before it is gone.
THEOREM SocketFileIsOwned == Spec => SocketFile
  <1>1. IInv => (path = "ours" <=> bound) /\ (closed => ~bound)
    BY DEF IInv, Socket
  <1> DEFINE D == path = "other" /\ path' # "other" => UNCHANGED <<started, closed,
      quiescing>>
  <1>2. ASSUME IInv, [Next]_vars PROVE D
    <2>1. SUFFICES ASSUME path = "other", path' # "other" PROVE D
      OBVIOUS
    <2>2. ~bound
      BY <1>2, <2>1 DEF IInv, Socket
    <2>3. OtherLeader
      BY <1>2, <2>1, <2>2
      DEF Next, Lifecycle, Connections, vars, transport, wire, work, idle, shutdown,
          Quiesce, CloseTransport, Failed, Start, Bind, BindFails, StartThrows,
              ServerError,
          Dispose, Decide, DisposeSettles, QuiesceSettles, TimerFires, AppExit,
              OwnerSettles, Drained, Accept, Destroy, Register, CancelIdle, Admit,
              WorkEnds, Close, ArmIdle, Reply, Settle, RejectSession, Ask, IsClosed,
              Timeout, AbortSignal
    <2> QED BY <2>3 DEF OtherLeader, idle, shutdown
  <1> QED BY <1>1, <1>2, Invariance, PTL DEF Spec, SocketFile

\* Whoever registers, or registers and leaves, while an idle callback waits keeps
\* the leader: the current generation alone shows that nobody came and that no
\* work was admitted.
THEOREM IdleExitCutsNobodyOff == Spec => NobodyCutOff
  <1> DEFINE D == cause' = "idle" /\ cause # "idle" =>
                    /\ clients = {} /\ operations = {} /\ teardowns = {}
                    /\ timer = 0
                    /\ \A accepted \in draining : accepted < generation
  <1>1. ASSUME IInv, [Next]_vars PROVE D
    <2>1. SUFFICES ASSUME cause' = "idle", cause # "idle" PROVE D
      OBVIOUS
    <2>2. PICK a \in 1..generation : Decide(a)
      BY <1>1, <2>1
      DEF Next, Lifecycle, Connections, vars, transport, wire, work, idle, shutdown,
          Quiesce, Failed, Start, StartThrows, ServerError, Dispose, OtherLeader,
              DisposeSettles, QuiesceSettles, TimerFires, AppExit, OwnerSettles,
              Drained, Accept, Destroy, Register, CancelIdle, Admit, WorkEnds, Close,
              ArmIdle, Reply, Settle, RejectSession, Ask, IsClosed, Timeout, AbortSignal
    <2>3. a \in deciding /\ a = generation /\ clients = {}
      BY <2>1, <2>2 DEF Decide, MayExit
    <2> QED BY <1>1, <2>3 DEF IInv, TypeOK, Idle, Waiting
  <1> QED BY <1>1, Invariance, PTL DEF Spec, NobodyCutOff

\* A shutdown that reports its end has waited for every owner, one that fails its
\* disposal included, and dispose() hides neither a failed listener nor a failed
\* start.
THEOREM ShutdownIsWhole == Spec => []WholeShutdown
  <1>1. IInv => WholeShutdown
    BY DEF IInv, Socket, Ending, WholeShutdown
  <1> QED BY <1>1, Invariance, PTL

-----------------------------------------------------------------------------
(* Sequences that are joined and cut *)

\* A sequence that goes on with another
LEMMA Joined ==
    ASSUME NEW T, NEW a \in Seq(T), NEW z \in Seq(T)
    PROVE  /\ a \o z \in Seq(T) /\ Len(a) \in Nat /\ Len(z) \in Nat
           /\ Len(a \o z) = Len(a) + Len(z) /\ DOMAIN (a \o z) = 1..(Len(a) + Len(z))
           /\ \A i \in 1..Len(a) : (a \o z)[i] = a[i]
           /\ \A i \in 1..Len(z) : (a \o z)[Len(a) + i] = z[i]
           /\ \A i \in 1..(Len(a) + Len(z)) :
                i \in 1..Len(a) \/ \E j \in 1..Len(z) : i = Len(a) + j
<1>1. a \o z \in Seq(T) /\ Len(a) \in Nat /\ Len(z) \in Nat /\ Len(a \o z) = Len(a) + Len(z)
  OBVIOUS
<1>2. DOMAIN (a \o z) = 1..(Len(a) + Len(z))
  BY <1>1
<1>3. ASSUME NEW i \in 1..Len(a) PROVE (a \o z)[i] = a[i]
  BY ConcatProperties
<1>4. ASSUME NEW i \in 1..Len(z) PROVE (a \o z)[Len(a) + i] = z[i]
  <2>1. Len(a) + i \in 1..(Len(a) + Len(z)) /\ ~(Len(a) + i <= Len(a)) /\ Len(a) + i - Len(a) = i
    BY <1>1
  <2> QED BY <2>1, ConcatProperties
<1>5. ASSUME NEW i \in 1..(Len(a) + Len(z))
      PROVE  i \in 1..Len(a) \/ \E j \in 1..Len(z) : i = Len(a) + j
  <2>1. CASE i > Len(a)
    <3>1. i - Len(a) \in 1..Len(z) /\ i = Len(a) + (i - Len(a))
      BY <1>1, <2>1
    <3> QED BY <3>1
  <2> QED BY <1>1, <2>1
<1> QED BY <1>1, <1>2, <1>3, <1>4, <1>5

\* A part of a sequence
LEMMA Cut ==
    ASSUME NEW T, NEW q \in Seq(T), NEW m \in Nat, NEW n \in Nat, m <= n, n <= Len(q)
    PROVE  /\ SubSeq(q, m + 1, n) \in Seq(T) /\ Len(SubSeq(q, m + 1, n)) = n - m
           /\ DOMAIN SubSeq(q, m + 1, n) = 1..(n - m)
           /\ \A i \in 1..(n - m) : SubSeq(q, m + 1, n)[i] = q[m + i] /\ m + i \in DOMAIN q
<1>1. /\ SubSeq(q, m + 1, n) \in Seq(T)
      /\ Len(SubSeq(q, m + 1, n)) = IF m + 1 <= n THEN n - (m + 1) + 1 ELSE 0
      /\ \A i \in 1..(n - (m + 1) + 1) : SubSeq(q, m + 1, n)[i] = q[m + 1 + i - 1]
  <2>1. \A i \in m + 1 .. n : i \in 1..Len(q) /\ q[i] \in T
    OBVIOUS
  <2> QED BY <2>1, SubSeqProperties
<1>2. n - (m + 1) + 1 = n - m /\ Len(SubSeq(q, m + 1, n)) = n - m
  BY <1>1
<1>3. ASSUME NEW i \in 1..(n - m)
      PROVE  SubSeq(q, m + 1, n)[i] = q[m + i] /\ m + i \in DOMAIN q
  <2>1. m + 1 + i - 1 = m + i /\ m + i \in 1..Len(q)
    OBVIOUS
  <2> QED BY <1>1, <1>2, <2>1
<1>4. DOMAIN SubSeq(q, m + 1, n) = 1..Len(SubSeq(q, m + 1, n))
  BY <1>1
<1> QED BY <1>1, <1>2, <1>3, <1>4

Distinct(q) == \A i, j \in DOMAIN q : q[i] = q[j] => i = j

LEMMA JoinedDistinct ==
    ASSUME NEW T, NEW a \in Seq(T), NEW z \in Seq(T)
    PROVE  /\ a \o z \in Seq(T) /\ ToSet(a \o z) = ToSet(a) \cup ToSet(z)
           /\ Distinct(a) /\ Distinct(z) /\ ToSet(a) \cap ToSet(z) = {} => Distinct(a \o z)
<1> DEFINE r == a \o z
<1>1. /\ DOMAIN a = 1..Len(a) /\ DOMAIN z = 1..Len(z)
      /\ \A i \in DOMAIN a : a[i] \in ToSet(a)
      /\ \A i \in DOMAIN z : z[i] \in ToSet(z)
  BY DEF ToSet
<1>2. /\ Len(a) \in Nat /\ Len(z) \in Nat /\ DOMAIN r = 1..(Len(a) + Len(z))
      /\ \A i \in DOMAIN a : r[i] = a[i]
      /\ \A i \in DOMAIN z : r[Len(a) + i] = z[i]
      /\ \A i \in DOMAIN r : i \in DOMAIN a \/ \E j \in DOMAIN z : i = Len(a) + j
  <2>1. /\ Len(a) \in Nat /\ Len(z) \in Nat /\ DOMAIN r = 1..(Len(a) + Len(z))
        /\ \A i \in 1..Len(a) : r[i] = a[i]
        /\ \A i \in 1..Len(z) : r[Len(a) + i] = z[i]
        /\ \A i \in 1..(Len(a) + Len(z)) :
             i \in 1..Len(a) \/ \E j \in 1..Len(z) : i = Len(a) + j
    BY Joined
  <2> HIDE DEF r
  <2> QED BY <1>1, <2>1
<1> HIDE DEF r
<1>3. ToSet(r) = ToSet(a) \cup ToSet(z)
  <2>1. \A i \in DOMAIN r : r[i] \in ToSet(a) \cup ToSet(z)
    BY <1>1, <1>2
  <2>2. \A i \in DOMAIN a : i \in DOMAIN r
    BY <1>1, <1>2
  <2>3. \A i \in DOMAIN z : Len(a) + i \in DOMAIN r
    BY <1>1, <1>2
  <2>4. ToSet(r) \subseteq ToSet(a) \cup ToSet(z)
    BY <2>1 DEF ToSet
  <2>5. ToSet(a) \subseteq ToSet(r)
    BY <1>2, <2>2 DEF ToSet
  <2>6. ToSet(z) \subseteq ToSet(r)
    BY <1>2, <2>3 DEF ToSet
  <2> QED BY <2>4, <2>5, <2>6
<1>4. ASSUME Distinct(a), Distinct(z), ToSet(a) \cap ToSet(z) = {} PROVE Distinct(r)
  <2> SUFFICES ASSUME NEW i \in DOMAIN r, NEW j \in DOMAIN r, r[i] = r[j] PROVE i = j
    BY DEF Distinct
  <2>1. CASE i \in DOMAIN a /\ j \in DOMAIN a
    BY <1>2, <1>4, <2>1 DEF Distinct
  <2>2. CASE i \in DOMAIN a /\ j \notin DOMAIN a
    BY <1>1, <1>2, <1>4, <2>2
  <2>3. CASE i \notin DOMAIN a /\ j \in DOMAIN a
    BY <1>1, <1>2, <1>4, <2>3
  <2>4. CASE i \notin DOMAIN a /\ j \notin DOMAIN a
    <3>1. PICK k \in DOMAIN z : i = Len(a) + k
      BY <1>2, <2>4
    <3>2. PICK l \in DOMAIN z : j = Len(a) + l
      BY <1>2, <2>4
    <3>3. z[k] = z[l]
      BY <1>2, <3>1, <3>2
    <3> QED BY <1>4, <3>1, <3>2, <3>3 DEF Distinct
  <2> QED BY <2>1, <2>2, <2>3, <2>4
<1>5. a \o z \in Seq(T)
  OBVIOUS
<1> QED BY <1>3, <1>4, <1>5 DEF r

LEMMA CutAt ==
    ASSUME NEW T, NEW q \in Seq(T), NEW m \in Nat, NEW n \in Nat, m <= n, n <= Len(q),
           NEW x, x \in ToSet(SubSeq(q, m + 1, n))
    PROVE  \E i \in 1..(n - m) : x = q[m + i] /\ m + i \in DOMAIN q
<1> DEFINE r == SubSeq(q, m + 1, n)
<1>1. DOMAIN r = 1..(n - m) /\ \A i \in 1..(n - m) : r[i] = q[m + i] /\ m + i \in DOMAIN q
  BY Cut
<1>2. x \in {r[i] : i \in DOMAIN r}
  BY DEF ToSet
<1> HIDE DEF r
<1> QED BY <1>1, <1>2

LEMMA CutDistinct ==
    ASSUME NEW T, NEW q \in Seq(T), NEW m \in Nat, NEW n \in Nat, m <= n, n <= Len(q), Distinct(q)
    PROVE  Distinct(SubSeq(q, m + 1, n))
<1>1. ASSUME NEW i \in 1..(n - m), NEW j \in 1..(n - m),
             SubSeq(q, m + 1, n)[i] = SubSeq(q, m + 1, n)[j]
      PROVE  i = j
  <2>1. q[m + i] = q[m + j] /\ m + i \in DOMAIN q /\ m + j \in DOMAIN q
    BY <1>1, Cut
  <2>2. m + i = m + j
    BY <2>1 DEF Distinct
  <2> QED BY <2>2
<1>2. DOMAIN SubSeq(q, m + 1, n) = 1..(n - m)
  BY Cut
<1> QED BY <1>1, <1>2 DEF Distinct

\* Parts of a sequence that do not overlap
LEMMA CutsDisjoint ==
    ASSUME NEW T, NEW q \in Seq(T), Distinct(q), NEW m \in Nat, NEW n \in Nat, NEW k \in Nat,
           NEW l \in Nat, m <= n, n <= k, k <= l, l <= Len(q)
    PROVE  ToSet(SubSeq(q, m + 1, n)) \cap ToSet(SubSeq(q, k + 1, l)) = {}
<1>1. n <= Len(q) /\ Len(q) \in Nat
  OBVIOUS
<1> SUFFICES ASSUME NEW x, x \in ToSet(SubSeq(q, m + 1, n)), x \in ToSet(SubSeq(q, k + 1, l))
             PROVE  FALSE
  OBVIOUS
<1>2. PICK i \in 1..(n - m) : x = q[m + i] /\ m + i \in DOMAIN q
  BY <1>1, CutAt
<1>3. PICK j \in 1..(l - k) : x = q[k + j] /\ k + j \in DOMAIN q
  BY CutAt
<1>4. m + i = k + j
  BY <1>2, <1>3 DEF Distinct
<1> QED BY <1>1, <1>4

LEMMA CutIn ==
    ASSUME NEW T, NEW q \in Seq(T), NEW m \in Nat, NEW n \in Nat, m <= n, n <= Len(q)
    PROVE  ToSet(SubSeq(q, m + 1, n)) \subseteq ToSet(q)
<1> SUFFICES ASSUME NEW x, x \in ToSet(SubSeq(q, m + 1, n)) PROVE x \in ToSet(q)
  OBVIOUS
<1>1. PICK i \in 1..(n - m) : x = q[m + i] /\ m + i \in DOMAIN q
  BY CutAt
<1> QED BY <1>1 DEF ToSet

LEMMA Dropped ==
    ASSUME NEW T, NEW q \in Seq(T), NEW start \in Nat, NEW count \in Nat, start + count <= Len(q),
           Distinct(q)
    PROVE  LET r == Drop(q, start, count)
               removed == SubSeq(q, start + 1, start + count)
           IN  /\ r \in Seq(T) /\ Distinct(r)
               /\ ToSet(r) \cup ToSet(removed) \subseteq ToSet(q)
               /\ ToSet(r) \cap ToSet(removed) = {}
               /\ SubSeq(q, 1, start) \o <<>> \o SubSeq(q, start + count + 1, Len(q)) = r
               /\ count > 0 => removed # <<>>
<1> DEFINE a == SubSeq(q, 0 + 1, start)
           g == SubSeq(q, start + 1, start + count)
           z == SubSeq(q, start + count + 1, Len(q))
<1>1. /\ Len(q) \in Nat /\ start + count \in Nat /\ 0 \in Nat /\ 0 + 1 = 1 /\ 0 <= start
      /\ start <= start + count /\ start <= Len(q) /\ start <= start
      /\ start + count <= start + count /\ Len(q) <= Len(q) /\ start + count <= Len(q)
  OBVIOUS
<1>2. a \in Seq(T) /\ Distinct(a) /\ ToSet(a) \subseteq ToSet(q)
  BY <1>1, Cut, CutDistinct, CutIn
<1>3. g \in Seq(T) /\ Len(g) = (start + count) - start /\ ToSet(g) \subseteq ToSet(q)
  <2> DEFINE to == start + count
  <2>1. to \in Nat /\ start <= to /\ to <= Len(q)
    BY <1>1
  <2> HIDE DEF to
  <2>2. SubSeq(q, start + 1, to) \in Seq(T) /\ Len(SubSeq(q, start + 1, to)) = to - start
    BY <2>1, Cut
  <2>3. ToSet(SubSeq(q, start + 1, to)) \subseteq ToSet(q)
    BY <2>1, CutIn
  <2>4. to = start + count
    BY DEF to
  <2> QED BY <2>2, <2>3, <2>4
<1>4. z \in Seq(T) /\ Distinct(z) /\ ToSet(z) \subseteq ToSet(q)
  <2>1. z \in Seq(T)
    BY <1>1, Cut
  <2>2. Distinct(z)
    BY <1>1, CutDistinct
  <2>3. ToSet(z) \subseteq ToSet(q)
    BY <1>1, CutIn
  <2> QED BY <2>1, <2>2, <2>3
<1>5. ToSet(a) \cap ToSet(g) = {} /\ ToSet(a) \cap ToSet(z) = {} /\ ToSet(g) \cap ToSet(z) = {}
  <2>1. ToSet(a) \cap ToSet(g) = {}
    BY <1>1, CutsDisjoint
  <2>2. ToSet(a) \cap ToSet(z) = {}
    BY <1>1, CutsDisjoint
  <2>3. ToSet(g) \cap ToSet(z) = {}
    BY <1>1, CutsDisjoint
  <2> QED BY <2>1, <2>2, <2>3
<1>6. Drop(q, start, count) = a \o z
  BY <1>1 DEF Drop
<1>7. SubSeq(q, 1, start) \o <<>> \o SubSeq(q, start + count + 1, Len(q)) = (a \o <<>>) \o z
  BY <1>1
<1>8. count > 0 => g # <<>>
  BY <1>3
<1> HIDE DEF a, g, z
<1>9. a \o z \in Seq(T) /\ Distinct(a \o z) /\ ToSet(a \o z) = ToSet(a) \cup ToSet(z)
  BY <1>2, <1>4, <1>5, JoinedDistinct
<1>10. a \o <<>> = a
  BY <1>2, ConcatEmptySeq
<1>11. /\ ToSet(a \o z) \cup ToSet(g) \subseteq ToSet(q)
       /\ ToSet(a \o z) \cap ToSet(g) = {}
  BY <1>2, <1>3, <1>4, <1>5, <1>9
<1> QED BY <1>6, <1>7, <1>8, <1>9, <1>10, <1>11 DEF g

LEMMA InsertedFirst ==
    ASSUME NEW T, NEW q \in Seq(T), NEW m \in T
    PROVE  SubSeq(q, 1, 0) \o <<m>> \o SubSeq(q, 0 + 1, Len(q)) = <<m>> \o q
<1>1. SubSeq(q, 1, 0) = <<>> /\ SubSeq(q, 0 + 1, Len(q)) = q
  BY SubSeqEmpty, SubSeqFull
<1>2. <<>> \o <<m>> = <<m>>
  BY ConcatEmptySeq
<1> QED BY <1>1, <1>2

LEMMA Inserted ==
    ASSUME NEW T, NEW q \in Seq(T), NEW m \in T, m \notin ToSet(q), Distinct(q),
           NEW start \in {0, Len(q)}
    PROVE  LET r == SubSeq(q, 1, start) \o <<m>> \o SubSeq(q, start + 1, Len(q))
           IN  /\ r \in Seq(T) /\ Distinct(r)
               /\ ToSet(r) = {m} \cup ToSet(q)
               /\ SubSeq(q, start + 1, start + 0) = <<>> /\ start + 0 + 1 = start + 1
<1> DEFINE r == SubSeq(q, 1, start) \o <<m>> \o SubSeq(q, start + 1, Len(q))
<1>1. Len(q) \in Nat /\ <<m>> \in Seq(T) /\ ToSet(<<m>>) = {m} /\ Distinct(<<m>>)
  BY DEF ToSet, Distinct
<1>2. SubSeq(q, 1, 0) = <<>> /\ SubSeq(q, Len(q) + 1, Len(q)) = <<>> /\ SubSeq(q, 1, Len(q)) = q
  BY <1>1, SubSeqEmpty, SubSeqFull
<1>3. /\ <<>> \o <<m>> = <<m>> /\ <<m>> \o <<>> = <<m>> /\ q \o <<m>> \in Seq(T)
      /\ (q \o <<m>>) \o <<>> = q \o <<m>>
  <2>1. q \o <<m>> \in Seq(T)
    BY <1>1
  <2> QED BY <1>1, <2>1, ConcatEmptySeq
<1>4. start = 0 => r = <<m>> \o q
  BY <1>2, <1>3
<1>5. start = Len(q) => r = q \o <<m>>
  BY <1>2, <1>3
<1>6. SubSeq(q, start + 1, start + 0) = <<>> /\ start + 0 + 1 = start + 1
  BY <1>1, SubSeqEmpty
<1> HIDE DEF r
<1>7. ToSet(q) \cap ToSet(<<m>>) = {} /\ ToSet(<<m>>) \cap ToSet(q) = {}
  BY <1>1
<1> DEFINE w == <<m>>
<1>8. \A p \in {w \o q, q \o w} : p \in Seq(T) /\ Distinct(p) /\ ToSet(p) = {m} \cup ToSet(q)
  <2>1. w \in Seq(T) /\ ToSet(w) = {m} /\ Distinct(w)
    BY <1>1
  <2>2. ToSet(q) \cap ToSet(w) = {} /\ ToSet(w) \cap ToSet(q) = {}
    BY <1>7
  <2> HIDE DEF w
  <2>3. w \o q \in Seq(T) /\ Distinct(w \o q) /\ ToSet(w \o q) = ToSet(w) \cup ToSet(q)
    BY <2>1, <2>2, JoinedDistinct
  <2>4. q \o w \in Seq(T) /\ Distinct(q \o w) /\ ToSet(q \o w) = ToSet(q) \cup ToSet(w)
    BY <2>1, <2>2, JoinedDistinct
  <2> QED BY <2>1, <2>3, <2>4
<1>9. r \in Seq(T) /\ Distinct(r) /\ ToSet(r) = {m} \cup ToSet(q)
  BY <1>4, <1>5, <1>8
<1> QED BY <1>4, <1>6, <1>9 DEF r

-----------------------------------------------------------------------------
(* Induction up to a number *)

\* A set of numbers has a least one.
LEMMA Least ==
    ASSUME NEW T \in SUBSET Nat, T # {} PROVE \E n \in T : \A m \in T : n <= m
<1> DEFINE R == {ss \in Nat \X Nat : ss[1] < ss[2]}
<1>1. IsWellFoundedOn(R, Nat)
  BY NatLessThanWellFounded DEF OpToRel
<1> HIDE DEF R
<1>2. \E x \in T : \A y \in T : ~ (<<y, x>> \in R)
  BY <1>1, WFMin
<1>3. PICK x \in T : \A y \in T : ~ (<<y, x>> \in R)
  BY <1>2
<1>4. \A y \in T : ~(y < x)
  BY <1>3 DEF R
<1> QED BY <1>4

\* Induction up to a number, for a set
LEMMA UpTo ==
    ASSUME NEW N \in Nat, NEW T, 0 \in T, \A n \in 1..N : n - 1 \in T => n \in T
    PROVE  \A n \in 0..N : n \in T
<1> DEFINE C == {n \in 0..N : n \notin T}
<1> SUFFICES ASSUME C # {} PROVE FALSE
  OBVIOUS
<1>1. C \in SUBSET Nat
  OBVIOUS
<1> HIDE DEF C
<1>2. PICK n \in C : \A m \in C : n <= m
  BY <1>1, Least
<1>3. n \in 0..N /\ n \notin T /\ n # 0
  BY <1>2 DEF C
<1>4. n \in 1..N /\ n - 1 \in 0..N /\ ~(n <= n - 1)
  BY <1>3
<1>5. n - 1 \notin C
  BY <1>2, <1>4
<1>6. n - 1 \in T
  BY <1>4, <1>5 DEF C
<1> QED BY <1>3, <1>4, <1>6

-----------------------------------------------------------------------------
(* Notices: what a fold and what a client shows have to do with the session *)

Blocks == Messages \cup Compactions \cup Commands
Opened == [before : BOOLEAN, shadowed : BOOLEAN]
FoldStates ==
    [pending : Seq(Messages), claimed : SUBSET Messages, prompt : BOOLEAN,
     plan : Nat \cup {Unknown}, open : [Compactions -> Opened \cup {Unknown}],
     commands : SUBSET Commands]
NoticeKinds == {"trigger", "context", "result", "failed", "completed"}
Views ==
    [blocks : [Blocks -> Seq(NoticeKinds)], retrying : BOOLEAN, compacting : BOOLEAN,
     todos : Nat \cup {Unknown}, plan : BOOLEAN \cup {Unknown}]

\* The session at one moment
Session ==
    [inbox |-> inbox, batch |-> batch, woke |-> woke, appended |-> appended, turn |-> turn,
     usage |-> usage, todos |-> todos, plan |-> plan, compaction |-> compaction,
     measured |-> measured, ran |-> ran]
Compacting(n) == {c \in Compactions : n.compaction[c] \in {"open", "summarized"}}
Ended(n) == {c \in Compactions : n.compaction[c] \in {"completed", "failed"}}

\* A message is in one place, and compactions do not overlap.
SessionOK(n) ==
    /\ n.inbox \in Seq(Messages)
    /\ n.batch \subseteq Messages /\ n.woke \subseteq n.appended /\ n.appended \subseteq Messages
    /\ Distinct(n.inbox) /\ ToSet(n.inbox) \cap (n.batch \cup n.appended) = {}
    /\ n.batch \cap n.appended = {}
    /\ n.usage \in BOOLEAN /\ n.todos \in Nat /\ n.plan \in BOOLEAN
    /\ n.compaction \in [Compactions -> {"none", "open", "summarized", "completed", "failed"}]
    /\ \A c, d \in Compacting(n) : c = d
    /\ n.measured \subseteq Compactions /\ \A c \in n.measured : n.compaction[c] # "none"
    /\ n.ran \in [Commands -> {"none", "running", "done"}]

\* What a turn took is claimed, and nothing else that may still be appended.
MessagesTold(f, s, b, n) ==
    /\ f.pending = n.inbox
    /\ n.batch \subseteq f.claimed
    /\ n.turn # "idle" \/ n.batch # {} => f.claimed \subseteq n.batch \cup n.appended
    /\ \A m \in Messages \ n.appended : s.blocks[m] = <<>>
    /\ \A m \in n.appended \ b.messages :
         s.blocks[m] = CASE m \in Human -> <<>>
                         [] m \in n.woke \ Human -> <<"trigger">>
                         [] m \in Standing \ (n.woke \cup Human) -> <<>>
                         [] OTHER -> <<"context">>

\* The fold of a compaction knows whether its end can be announced; one that is
\* shown as going on is one whose end will be.
CompactionsTold(f, s, b, n) ==
    /\ f.prompt = n.usage
    /\ \A c \in Compacting(n) \ Manual :
         /\ f.open[c] \in Opened
         /\ c \in n.measured => f.open[c].before
         /\ f.open[c].shadowed <=> n.compaction[c] = "summarized"
    /\ s.compacting => \E c \in Compacting(n) \ Manual : f.open[c].before
    /\ \A c \in Compactions \ Ended(n) : s.blocks[c] = <<>>
    /\ \A c \in (n.measured \cap Ended(n)) \ b.compactions :
         s.blocks[c] = IF c \in Manual THEN <<>> ELSE <<n.compaction[c]>>

\* A command that runs is known, and its result is shown once.
CommandsTold(f, s, b, n) ==
    /\ \A c \in Commands : c \in f.commands <=> n.ran[c] = "running"
    /\ \A c \in Commands : n.ran[c] # "done" => s.blocks[c] = <<>>
    /\ \A c \in Commands \ b.commands :
         n.ran[c] = "done" => s.blocks[c] = IF c \in Silent THEN <<>> ELSE <<"result">>

\* Todos that were emptied by the client are those that the fold announces again.
StateTold(f, s, n, replay) ==
    /\ f.plan = n.todos \/ (f.plan = Unknown /\ n.todos = 0)
    /\ s.todos \in {n.todos, Unknown} /\ s.plan \in {n.plan, Unknown}
    /\ s.retrying => ~replay /\ n.turn = "retrying"

Told(f, s, b, n, replay) ==
    /\ f \in FoldStates /\ s \in Views
    /\ MessagesTold(f, s, b, n)
    /\ CompactionsTold(f, s, b, n)
    /\ CommandsTold(f, s, b, n)
    /\ StateTold(f, s, n, replay)

\* The inductive invariant of the notices: both folds and what both clients show.
NoticesInv ==
    /\ SessionOK(Session)
    /\ Told(output, view, unseen, Session, FALSE)
    /\ Told(cold, archive, NothingUnseen, Session, TRUE)

LEMMA NoticesFollow == NoticesInv => NoticesTrue
<1> SUFFICES ASSUME NoticesInv PROVE NoticesTrue
  OBVIOUS
<1>1. ASSUME NEW f, NEW s, NEW b, NEW replay, Told(f, s, b, Session, replay)
      PROVE  MessagesNoted(s, b.messages) /\ WorkNoted(s, b) /\ StateShown(s)
  <2>1. MessagesNoted(s, b.messages)
    BY <1>1 DEF Told, MessagesTold, MessagesNoted, MessageNote, Session
  <2>2. WorkNoted(s, b)
    <3>1. \A c \in measured \ b.compactions :
            compaction[c] \in {"completed", "failed"} =>
              s.blocks[c] = IF c \in Manual THEN <<>> ELSE <<compaction[c]>>
      BY <1>1 DEF Told, CompactionsTold, NoticesInv, SessionOK, Session, Ended
    <3>2. \A c \in Commands \ b.commands :
            ran[c] = "done" => s.blocks[c] = IF c \in Silent THEN <<>> ELSE <<"result">>
      BY <1>1 DEF Told, CommandsTold, Session
    <3> QED BY <3>1, <3>2 DEF WorkNoted
  <2>3. StateShown(s)
    BY <1>1 DEF Told, CompactionsTold, StateTold, Session, Compacting, StateShown
  <2> QED BY <2>1, <2>2, <2>3
<1>2. MessagesNoted(view, unseen.messages) /\ WorkNoted(view, unseen) /\ StateShown(view)
  BY <1>1 DEF NoticesInv
<1>3. MessagesNoted(archive, NothingUnseen.messages) /\ WorkNoted(archive, NothingUnseen)
      /\ StateShown(archive)
  BY <1>1 DEF NoticesInv
<1>4. NothingUnseen.messages = {}
  BY DEF NothingUnseen
<1> QED BY <1>2, <1>3, <1>4 DEF NoticesTrue

LEMMA NoticesStart == InitNotices => NoticesInv
<1> SUFFICES ASSUME InitNotices PROVE NoticesInv
  OBVIOUS
<1>1. SessionOK(Session)
  <2>1. /\ Session.inbox = <<>> /\ Session.batch = {} /\ Session.woke = {} /\ Session.appended = {}
        /\ Session.usage \in BOOLEAN /\ Session.todos = 0 /\ Session.plan \in BOOLEAN
        /\ Session.compaction = [c \in Compactions |-> "none"] /\ Session.measured = {}
        /\ Session.ran = [c \in Commands |-> "none"]
    BY DEF InitNotices, Session
  <2>2. Compacting(Session) = {}
    BY <2>1 DEF Compacting
  <2>3. <<>> \in Seq(Messages) /\ Distinct(<<>>) /\ ToSet(<<>>) = {}
    BY DEF Distinct, ToSet
  <2>4. /\ Session.inbox \in Seq(Messages) /\ Distinct(Session.inbox) /\ ToSet(Session.inbox) = {}
    BY <2>1, <2>3
  <2>5. /\ Session.compaction \in [Compactions -> {"none", "open", "summarized", "completed", "failed"}]
        /\ Session.ran \in [Commands -> {"none", "running", "done"}]
    BY <2>1
  <2> QED BY <2>1, <2>2, <2>4, <2>5 DEF SessionOK
<1>2. NoFold \in FoldStates /\ Blank \in Views
  BY DEF NoFold, FoldStates, Blank, Views, Blocks
<1>3. ASSUME NEW b, NEW replay PROVE Told(NoFold, Blank, b, Session, replay)
  <2>1. \A x \in Blocks : Blank.blocks[x] = <<>>
    BY DEF Blank, Blocks
  <2>2. MessagesTold(NoFold, Blank, b, Session)
    BY <2>1 DEF MessagesTold, NoFold, Session, InitNotices, Blocks
  <2>3. CompactionsTold(NoFold, Blank, b, Session)
    BY <2>1 DEF CompactionsTold, NoFold, Blank, Session, InitNotices, Blocks, Compacting, Ended
  <2>4. CommandsTold(NoFold, Blank, b, Session)
    BY <2>1 DEF CommandsTold, NoFold, Session, InitNotices, Blocks
  <2>5. StateTold(NoFold, Blank, Session, replay)
    BY DEF StateTold, NoFold, Blank, Session, InitNotices
  <2> QED BY <1>2, <2>2, <2>3, <2>4, <2>5 DEF Told
<1> QED BY <1>1, <1>3 DEF NoticesInv, InitNotices

-----------------------------------------------------------------------------
(* Notices: what an event does *)

\* The folds take the session's next event; what a replay would tell and what
\* the client is told are both true of the session then.
LEMMA EventTold ==
    ASSUME NoticesInv, NEW e, Happens(e), e.kind # "turnEnd", SessionOK(Session'),
           \A f, s, b, replay :
              Told(f, s, b, Session, replay) =>
                Told(Fold(f, e, replay).fold, ShowsAll(s, Fold(f, e, replay).notices), b,
                     Session', replay)
    PROVE  NoticesInv'
<1>1. /\ output' = Fold(output, e, FALSE).fold
      /\ view' = ShowsAll(view, Fold(output, e, FALSE).notices)
      /\ cold' = Fold(cold, e, TRUE).fold
      /\ archive' = ShowsAll(archive, Fold(cold, e, TRUE).notices)
      /\ unseen' = unseen
  BY DEF Happens
<1>2. Told(output', view', unseen', Session', FALSE)
  BY <1>1 DEF NoticesInv
<1>3. Told(cold', archive', NothingUnseen, Session', TRUE)
  BY <1>1 DEF NoticesInv
<1> QED BY <1>2, <1>3 DEF NoticesInv

\* Of one notice
LEMMA ShownOne ==
    ASSUME NEW s, NEW x
    PROVE  /\ ShowsAll(s, <<>>) = s
           /\ ShowsAll(s, <<x>>) = Shows(s, x)
  BY DEF ShowsAll

\* What follows of what a fold brings
LEMMA Brings ==
    ASSUME NEW result, NEW fold, NEW notices, result = Result(fold, notices)
    PROVE  result.fold = fold /\ result.notices = notices
  BY DEF Result

LEMMA BringsNothing ==
    ASSUME NEW result, NEW fold, NEW s, result = Result(fold, <<>>)
    PROVE  result.fold = fold /\ ShowsAll(s, result.notices) = s
<1>1. result.fold = fold /\ result.notices = <<>>
  BY Brings
<1> QED BY <1>1, ShownOne

LEMMA BringsOne ==
    ASSUME NEW result, NEW fold, NEW s, NEW x, result = Result(fold, <<x>>)
    PROVE  result.fold = fold /\ ShowsAll(s, result.notices) = Shows(s, x)
<1>1. result.fold = fold /\ result.notices = <<x>>
  BY Brings
<1> QED BY <1>1, ShownOne

\* What an event leaves alone stays told.
LEMMA CompactionsStay ==
    ASSUME NEW f, NEW s, NEW b, NEW n, NEW f2, NEW s2, NEW n2, CompactionsTold(f, s, b, n),
           f2.prompt = n2.usage, f2.open = f.open, s2.compacting = s.compacting,
           \A c \in Compactions : s2.blocks[c] = s.blocks[c],
           n2.compaction = n.compaction, n2.measured = n.measured
    PROVE  CompactionsTold(f2, s2, b, n2)
  BY DEF CompactionsTold, Compacting, Ended

LEMMA CompactionsStayTold ==
    ASSUME NEW f, NEW s, NEW b, NEW n, NEW f2, NEW s2, NEW n2, CompactionsTold(f, s, b, n),
           f2.prompt = f.prompt, f2.open = f.open, s2.compacting = s.compacting,
           \A c \in Compactions : s2.blocks[c] = s.blocks[c],
           n2.usage = n.usage, n2.compaction = n.compaction, n2.measured = n.measured
    PROVE  CompactionsTold(f2, s2, b, n2)
  BY DEF CompactionsTold, Compacting, Ended

LEMMA CommandsStayTold ==
    ASSUME NEW f, NEW s, NEW b, NEW n, NEW f2, NEW s2, NEW n2, CommandsTold(f, s, b, n),
           f2.commands = f.commands, \A c \in Commands : s2.blocks[c] = s.blocks[c],
           n2.ran = n.ran
    PROVE  CommandsTold(f2, s2, b, n2)
  BY DEF CommandsTold

LEMMA StateStaysTold ==
    ASSUME NEW f, NEW s, NEW n, NEW f2, NEW s2, NEW n2, NEW replay, StateTold(f, s, n, replay),
           f2.plan = f.plan, s2.todos = s.todos, s2.plan = s.plan, s2.retrying = s.retrying,
           n2.todos = n.todos, n2.plan = n.plan, n2.turn = n.turn
    PROVE  StateTold(f2, s2, n2, replay)
  BY DEF StateTold

LEMMA MessagesStayTold ==
    ASSUME NEW f, NEW s, NEW b, NEW n, NEW f2, NEW s2, NEW n2, MessagesTold(f, s, b, n),
           f2.pending = f.pending, f2.claimed = f.claimed,
           \A m \in Messages : s2.blocks[m] = s.blocks[m], n.appended \subseteq Messages,
           n2.inbox = n.inbox, n2.batch = n.batch, n2.woke = n.woke, n2.appended = n.appended,
           n2.turn # "idle" => n.turn # "idle" \/ n.batch # {}
    PROVE  MessagesTold(f2, s2, b, n2)
  BY DEF MessagesTold

\* A splice, whose claim is that of a turn unless it is a cancellation.
Claim(q, claimed, start, count, inserted, canceled) ==
    LET removed == SubSeq(q, start + 1, start + count)
    IN  IF removed # <<>> /\ ~canceled THEN ToSet(removed) ELSE claimed \ ToSet(inserted)

LEMMA SpliceTold ==
    ASSUME NEW f, NEW s, NEW b, NEW n, NEW n2, NEW replay, Told(f, s, b, n, replay),
           NEW start, NEW count, NEW inserted, NEW canceled,
           n2.inbox = SubSeq(n.inbox, 1, start) \o inserted
                        \o SubSeq(n.inbox, start + count + 1, Len(n.inbox)),
           n2.inbox \in Seq(Messages),
           n2.woke = n.woke, n2.appended = n.appended, n2.turn = n.turn, n2.usage = n.usage,
           n2.todos = n.todos, n2.plan = n.plan, n2.compaction = n.compaction,
           n2.measured = n.measured, n2.ran = n.ran,
           Claim(n.inbox, f.claimed, start, count, inserted, canceled) \subseteq Messages,
           n2.batch \subseteq Claim(n.inbox, f.claimed, start, count, inserted, canceled),
           n2.turn # "idle" \/ n2.batch # {} =>
             Claim(n.inbox, f.claimed, start, count, inserted, canceled) \subseteq n2.batch \cup n2.appended
    PROVE  LET result == Fold(f, Splice(start, count, inserted, canceled), replay)
           IN  Told(result.fold, ShowsAll(s, result.notices), b, n2, replay)
<1> DEFINE e == Splice(start, count, inserted, canceled)
           f2 == Spliced(f, e)
<1>1. Fold(f, e, replay) = Result(f2, <<>>)
  BY DEF Fold, Splice
<1>2. /\ f2 = [f EXCEPT !.pending = n2.inbox, !.claimed = Claim(n.inbox, f.claimed, start, count, inserted, canceled)]
      /\ f \in FoldStates /\ f.pending = n.inbox
  BY DEF Spliced, Splice, Claim, Told, MessagesTold
<1>3. /\ f2 \in FoldStates /\ f2.pending = n2.inbox
      /\ f2.claimed = Claim(n.inbox, f.claimed, start, count, inserted, canceled)
      /\ f2.prompt = f.prompt /\ f2.plan = f.plan /\ f2.open = f.open /\ f2.commands = f.commands
  BY <1>2 DEF FoldStates
<1> HIDE DEF e, f2
<1>4. MessagesTold(f2, s, b, n2)
  BY <1>3 DEF Told, MessagesTold
<1>5. Told(f2, s, b, n2, replay)
  BY <1>3, <1>4, CompactionsStayTold, CommandsStayTold, StateStaysTold DEF Told
<1>6. Result(f2, <<>>).fold = f2 /\ ShowsAll(s, Result(f2, <<>>).notices) = s
  BY DEF Result, ShowsAll
<1> QED BY <1>1, <1>5, <1>6 DEF e


LEMMA SpliceStep ==
    ASSUME NoticesInv, NEW start, NEW count, NEW inserted, NEW canceled,
           Happens(Splice(start, count, inserted, canceled)),
           inbox' = SubSeq(inbox, 1, start) \o inserted \o SubSeq(inbox, start + count + 1, Len(inbox)),
           inbox' \in Seq(Messages), Distinct(inbox'), batch' \subseteq Messages,
           ToSet(inbox') \cap (batch' \cup appended) = {}, batch' \cap appended = {},
           UNCHANGED <<woke, appended, turn, usage, todos, plan, compaction, measured, ran>>,
           \A claimed \in SUBSET Messages :
              batch \subseteq claimed
              /\ (turn # "idle" \/ batch # {} => claimed \subseteq batch \cup appended)
              => LET to == Claim(inbox, claimed, start, count, inserted, canceled)
                 IN  /\ to \subseteq Messages /\ batch' \subseteq to
                     /\ turn # "idle" \/ batch' # {} => to \subseteq batch' \cup appended
    PROVE  NoticesInv'
<1>1. SessionOK(Session)
  BY DEF NoticesInv
<1>2. /\ Session.inbox = inbox /\ Session.batch = batch /\ Session.appended = appended
      /\ Session.turn = turn
  BY DEF Session
<1>3. /\ Session'.inbox = inbox' /\ Session'.batch = batch'
      /\ Session'.woke = Session.woke /\ Session'.appended = Session.appended
      /\ Session'.turn = Session.turn /\ Session'.usage = Session.usage
      /\ Session'.todos = Session.todos /\ Session'.plan = Session.plan
      /\ Session'.compaction = Session.compaction /\ Session'.measured = Session.measured
      /\ Session'.ran = Session.ran
  BY DEF Session
<1> DEFINE n == Session
           n2 == Session'
<1> HIDE DEF n, n2
<1>4. SessionOK(n2)
  BY <1>1, <1>2, <1>3 DEF SessionOK, Compacting, n, n2
<1>5. ASSUME NEW f, NEW s, NEW b, NEW replay, Told(f, s, b, n, replay)
      PROVE  LET result == Fold(f, Splice(start, count, inserted, canceled), replay)
             IN  Told(result.fold, ShowsAll(s, result.notices), b, n2, replay)
  <2>1. /\ f.claimed \in SUBSET Messages /\ batch \subseteq f.claimed
        /\ (turn # "idle" \/ batch # {} => f.claimed \subseteq batch \cup appended)
    BY <1>2, <1>5 DEF Told, MessagesTold, FoldStates, n
  <2>2. LET to == Claim(inbox, f.claimed, start, count, inserted, canceled)
        IN  /\ to \subseteq Messages /\ batch' \subseteq to
            /\ turn # "idle" \/ batch' # {} => to \subseteq batch' \cup appended
    BY <2>1
  <2>3. n2.inbox = SubSeq(n.inbox, 1, start) \o inserted
                     \o SubSeq(n.inbox, start + count + 1, Len(n.inbox))
    BY <1>2, <1>3 DEF n, n2
  <2>4. n2.inbox \in Seq(Messages)
    BY <1>3 DEF n2
  <2>5. LET to == Claim(n.inbox, f.claimed, start, count, inserted, canceled)
        IN  /\ to \subseteq Messages /\ n2.batch \subseteq to
            /\ n2.turn # "idle" \/ n2.batch # {} => to \subseteq n2.batch \cup n2.appended
    BY <1>2, <1>3, <2>2 DEF n, n2
  <2>6. /\ n2.woke = n.woke /\ n2.appended = n.appended /\ n2.turn = n.turn /\ n2.usage = n.usage
        /\ n2.todos = n.todos /\ n2.plan = n.plan /\ n2.compaction = n.compaction
        /\ n2.measured = n.measured /\ n2.ran = n.ran
    BY <1>3 DEF n, n2
  <2> QED BY <1>5, <2>3, <2>4, <2>5, <2>6, SpliceTold
<1>6. Splice(start, count, inserted, canceled).kind # "turnEnd"
  BY DEF Splice
<1> QED BY <1>4, <1>5, <1>6, EventTold DEF n, n2

\* What the session's part of the invariant says of its variables
LEMMA Placed ==
    ASSUME NoticesInv
    PROVE  /\ inbox \in Seq(Messages) /\ Distinct(inbox)
           /\ ToSet(inbox) \cap (batch \cup appended) = {} /\ batch \cap appended = {}
           /\ batch \subseteq Messages /\ woke \subseteq appended /\ appended \subseteq Messages
  BY DEF NoticesInv, SessionOK, Session

LEMMA QueueTold ==
    ASSUME NoticesInv, NEW m \in Messages, NEW start, QueueMessage(m, start)
    PROVE  NoticesInv'
<1>1. /\ m \notin ToSet(inbox) \cup batch \cup appended /\ start \in {0, Len(inbox)}
      /\ inbox' = SubSeq(inbox, 1, start) \o <<m>> \o SubSeq(inbox, start + 1, Len(inbox))
      /\ Happens(Splice(start, 0, <<m>>, FALSE))
      /\ UNCHANGED <<batch, woke, appended, turn, usage, todos, plan, compaction, measured, ran>>
  BY DEF QueueMessage
<1>2. /\ inbox' \in Seq(Messages) /\ Distinct(inbox') /\ ToSet(inbox') = {m} \cup ToSet(inbox)
      /\ SubSeq(inbox, start + 1, start + 0) = <<>> /\ start + 0 + 1 = start + 1
  BY <1>1, Placed, Inserted
<1>3. ToSet(inbox') \cap (batch' \cup appended) = {}
  BY <1>1, <1>2, Placed
<1>4. ToSet(<<m>>) = {m}
  BY DEF ToSet
<1>5. \A claimed : Claim(inbox, claimed, start, 0, <<m>>, FALSE) = claimed \ {m}
  BY <1>2, <1>4 DEF Claim
<1>6. inbox' = SubSeq(inbox, 1, start) \o <<m>> \o SubSeq(inbox, start + 0 + 1, Len(inbox))
  BY <1>1, <1>2
<1>7. /\ batch' \subseteq Messages /\ batch' \cap appended = {}
  BY <1>1, Placed
<1>8. \A claimed \in SUBSET Messages :
              batch \subseteq claimed
              /\ (turn # "idle" \/ batch # {} => claimed \subseteq batch \cup appended)
              => LET to == Claim(inbox, claimed, start, 0, <<m>>, FALSE)
                 IN  /\ to \subseteq Messages /\ batch' \subseteq to
                     /\ turn # "idle" \/ batch' # {} => to \subseteq batch' \cup appended
  BY <1>1, <1>5
<1> QED BY <1>1, <1>2, <1>3, <1>6, <1>7, <1>8, SpliceStep

LEMMA CancelTold ==
    ASSUME NoticesInv, NEW i \in Nat, CancelMessage(i)
    PROVE  NoticesInv'
<1>1. /\ i \in DOMAIN inbox /\ inbox' = Drop(inbox, i - 1, 1)
      /\ Happens(Splice(i - 1, 1, <<>>, TRUE))
      /\ UNCHANGED <<batch, woke, appended, turn, usage, todos, plan, compaction, measured, ran>>
  BY DEF CancelMessage
<1>2. i - 1 \in Nat /\ 1 \in Nat /\ i - 1 + 1 <= Len(inbox)
  <2>1. i \in 1..Len(inbox)
    BY <1>1, Placed
  <2> QED BY <2>1
<1>3. /\ inbox' \in Seq(Messages) /\ Distinct(inbox') /\ ToSet(inbox') \subseteq ToSet(inbox)
      /\ inbox' = SubSeq(inbox, 1, i - 1) \o <<>> \o SubSeq(inbox, i - 1 + 1 + 1, Len(inbox))
  <2>1. inbox \in Seq(Messages) /\ Distinct(inbox)
    BY Placed
  <2>2. LET r == Drop(inbox, i - 1, 1)
        IN  /\ r \in Seq(Messages) /\ Distinct(r) /\ ToSet(r) \subseteq ToSet(inbox)
            /\ SubSeq(inbox, 1, i - 1) \o <<>> \o SubSeq(inbox, i - 1 + 1 + 1, Len(inbox)) = r
    <3> DEFINE k == i - 1
               one == 1
    <3>1. k \in Nat /\ one \in Nat /\ k + one <= Len(inbox)
      BY <1>2
    <3> HIDE DEF k, one
    <3>2. LET r == Drop(inbox, k, one)
              taken == SubSeq(inbox, k + 1, k + one)
          IN  /\ r \in Seq(Messages) /\ Distinct(r)
              /\ ToSet(r) \cup ToSet(taken) \subseteq ToSet(inbox)
              /\ SubSeq(inbox, 1, k) \o <<>> \o SubSeq(inbox, k + one + 1, Len(inbox)) = r
      BY <2>1, <3>1, Dropped
    <3> QED BY <3>2 DEF k, one
  <2> QED BY <1>1, <2>2
<1>4. /\ ToSet(inbox') \cap (batch' \cup appended) = {}
      /\ batch' \subseteq Messages /\ batch' \cap appended = {}
  BY <1>1, <1>3, Placed
<1>5. \A claimed : Claim(inbox, claimed, i - 1, 1, <<>>, TRUE) = claimed
  BY DEF Claim, ToSet
<1>6. \A claimed \in SUBSET Messages :
              batch \subseteq claimed
              /\ (turn # "idle" \/ batch # {} => claimed \subseteq batch \cup appended)
              => LET to == Claim(inbox, claimed, i - 1, 1, <<>>, TRUE)
                 IN  /\ to \subseteq Messages /\ batch' \subseteq to
                     /\ turn # "idle" \/ batch' # {} => to \subseteq batch' \cup appended
  BY <1>1, <1>5
<1> QED BY <1>1, <1>3, <1>4, <1>6, SpliceStep

LEMMA ClaimTold ==
    ASSUME NoticesInv, NEW count \in Nat, ClaimTurn(count)
    PROVE  NoticesInv'
<1>1. /\ turn = "idle" /\ batch = {} /\ count \in 1..Len(inbox)
      /\ batch' = ToSet(SubSeq(inbox, 1, count)) /\ inbox' = Drop(inbox, 0, count)
      /\ Happens(Splice(0, count, <<>>, FALSE))
      /\ UNCHANGED <<woke, appended, turn, usage, todos, plan, compaction, measured, ran>>
  BY DEF ClaimTurn
<1>2. 0 \in Nat /\ 0 + count <= Len(inbox) /\ 0 + 1 = 1 /\ 0 + count = count /\ count > 0
  BY <1>1, Placed
<1> DEFINE removed == SubSeq(inbox, 0 + 1, 0 + count)
<1>3. /\ inbox' \in Seq(Messages) /\ Distinct(inbox')
      /\ ToSet(inbox') \cup ToSet(removed) \subseteq ToSet(inbox)
      /\ ToSet(inbox') \cap ToSet(removed) = {}
      /\ inbox' = SubSeq(inbox, 1, 0) \o <<>> \o SubSeq(inbox, 0 + count + 1, Len(inbox))
      /\ removed # <<>>
  <2>1. inbox \in Seq(Messages) /\ Distinct(inbox)
    BY Placed
  <2>2. LET r == Drop(inbox, 0, count)
        IN  /\ r \in Seq(Messages) /\ Distinct(r)
            /\ ToSet(r) \cup ToSet(removed) \subseteq ToSet(inbox)
            /\ ToSet(r) \cap ToSet(removed) = {}
            /\ SubSeq(inbox, 1, 0) \o <<>> \o SubSeq(inbox, 0 + count + 1, Len(inbox)) = r
            /\ removed # <<>>
    <3> DEFINE k == 0
    <3>1. k \in Nat /\ count \in Nat /\ k + count <= Len(inbox)
      BY <1>2
    <3> HIDE DEF k
    <3>2. LET r == Drop(inbox, k, count)
              taken == SubSeq(inbox, k + 1, k + count)
          IN  /\ r \in Seq(Messages) /\ Distinct(r)
              /\ ToSet(r) \cup ToSet(taken) \subseteq ToSet(inbox)
              /\ ToSet(r) \cap ToSet(taken) = {}
              /\ SubSeq(inbox, 1, k) \o <<>> \o SubSeq(inbox, k + count + 1, Len(inbox)) = r
              /\ count > 0 => taken # <<>>
      BY <2>1, <3>1, Dropped
    <3> QED BY <1>2, <3>2 DEF k
  <2> QED BY <1>1, <2>2
<1>4. batch' = ToSet(removed)
  BY <1>1, <1>2
<1>5. \A claimed : Claim(inbox, claimed, 0, count, <<>>, FALSE) = batch'
  BY <1>3, <1>4 DEF Claim
<1> HIDE DEF removed
<1>6. ToSet(inbox) \subseteq Messages
  BY Placed DEF ToSet
<1>7. ToSet(inbox') \cap (batch' \cup appended) = {} /\ batch' \cap appended = {}
      /\ batch' \subseteq Messages
  BY <1>3, <1>4, <1>6, Placed
<1>8. \A claimed \in SUBSET Messages :
              LET to == Claim(inbox, claimed, 0, count, <<>>, FALSE)
              IN  /\ to \subseteq Messages /\ batch' \subseteq to
                  /\ turn # "idle" \/ batch' # {} => to \subseteq batch' \cup appended
  BY <1>5, <1>7
<1> QED BY <1>1, <1>3, <1>7, <1>8, SpliceStep

LEMMA ReturnTold ==
    ASSUME NoticesInv, NEW m \in Messages, ReturnClaim(m)
    PROVE  NoticesInv'
<1>1. /\ turn = "idle" /\ m \in batch /\ batch' = batch \ {m} /\ inbox' = <<m>> \o inbox
      /\ Happens(Splice(0, 0, <<m>>, FALSE))
      /\ UNCHANGED <<woke, appended, turn, usage, todos, plan, compaction, measured, ran>>
  BY DEF ReturnClaim
<1>2. m \notin ToSet(inbox)
  BY <1>1, Placed
<1> DEFINE r == SubSeq(inbox, 1, 0) \o <<m>> \o SubSeq(inbox, 0 + 1, Len(inbox))
<1>3. /\ r \in Seq(Messages) /\ Distinct(r) /\ ToSet(r) = {m} \cup ToSet(inbox)
      /\ r = <<m>> \o inbox
      /\ SubSeq(inbox, 0 + 1, 0 + 0) = <<>> /\ 0 + 0 + 1 = 0 + 1
  <2>1. inbox \in Seq(Messages) /\ Distinct(inbox) /\ 0 \in {0, Len(inbox)}
    BY Placed
  <2>2. \A start \in {0, Len(inbox)} :
          LET p == SubSeq(inbox, 1, start) \o <<m>> \o SubSeq(inbox, start + 1, Len(inbox))
          IN  /\ p \in Seq(Messages) /\ Distinct(p) /\ ToSet(p) = {m} \cup ToSet(inbox)
              /\ SubSeq(inbox, start + 1, start + 0) = <<>> /\ start + 0 + 1 = start + 1
    BY <1>2, <2>1, Inserted
  <2>3. r = <<m>> \o inbox
    BY <2>1, InsertedFirst
  <2> QED BY <2>1, <2>2, <2>3
<1>4. inbox' = SubSeq(inbox, 1, 0) \o <<m>> \o SubSeq(inbox, 0 + 0 + 1, Len(inbox))
  BY <1>1, <1>3
<1>5. inbox' = r
  BY <1>1, <1>3
<1>6. ToSet(<<m>>) = {m}
  BY DEF ToSet
<1>7. \A claimed : Claim(inbox, claimed, 0, 0, <<m>>, FALSE) = claimed \ {m}
  BY <1>3, <1>6 DEF Claim
<1> HIDE DEF r
<1>8. inbox' \in Seq(Messages) /\ Distinct(inbox') /\ ToSet(inbox') \cap (batch' \cup appended) = {}
      /\ batch' \subseteq Messages /\ batch' \cap appended = {}
  BY <1>1, <1>3, <1>5, Placed
<1>9. \A claimed \in SUBSET Messages :
              batch \subseteq claimed
              /\ (turn # "idle" \/ batch # {} => claimed \subseteq batch \cup appended)
              => LET to == Claim(inbox, claimed, 0, 0, <<m>>, FALSE)
                 IN  /\ to \subseteq Messages /\ batch' \subseteq to
                     /\ turn # "idle" \/ batch' # {} => to \subseteq batch' \cup appended
  BY <1>1, <1>7
<1> QED BY <1>1, <1>4, <1>8, <1>9, SpliceStep

\* The moment of the session, field by field
LEMMA Fields ==
    /\ Session.inbox = inbox /\ Session.batch = batch /\ Session.woke = woke
    /\ Session.appended = appended /\ Session.turn = turn /\ Session.usage = usage
    /\ Session.todos = todos /\ Session.plan = plan /\ Session.compaction = compaction
    /\ Session.measured = measured /\ Session.ran = ran
    /\ Session'.inbox = inbox' /\ Session'.batch = batch' /\ Session'.woke = woke'
    /\ Session'.appended = appended' /\ Session'.turn = turn' /\ Session'.usage = usage'
    /\ Session'.todos = todos' /\ Session'.plan = plan' /\ Session'.compaction = compaction'
    /\ Session'.measured = measured' /\ Session'.ran = ran'
  BY DEF Session

\* Of a step that moves no message, runs no command and compacts nothing
LEMMA QuietSession ==
    ASSUME NoticesInv, usage' \in BOOLEAN, todos' \in Nat, plan' \in BOOLEAN,
           UNCHANGED <<inbox, batch, woke, appended, compaction, measured, ran>>
    PROVE  SessionOK(Session')
<1>1. SessionOK(Session)
  BY DEF NoticesInv
<1> DEFINE n == Session
           n2 == Session'
<1>2. /\ n2.inbox = n.inbox /\ n2.batch = n.batch /\ n2.woke = n.woke /\ n2.appended = n.appended
      /\ n2.compaction = n.compaction /\ n2.measured = n.measured /\ n2.ran = n.ran
      /\ n2.usage \in BOOLEAN /\ n2.todos \in Nat /\ n2.plan \in BOOLEAN
  BY Fields
<1>3. SessionOK(n)
  BY <1>1
<1> HIDE DEF n, n2
<1>4. SessionOK(n2)
  BY <1>2, <1>3 DEF SessionOK, Compacting
<1> QED BY <1>4 DEF n2

LEMMA TodosTold ==
    ASSUME NEW f, NEW s, NEW b, NEW n, NEW n2, NEW replay, Told(f, s, b, n, replay),
           NEW to \in Nat, n.appended \subseteq Messages, n2.todos = to,
           n2.inbox = n.inbox, n2.batch = n.batch, n2.woke = n.woke, n2.appended = n.appended,
           n2.usage = n.usage, n2.plan = n.plan, n2.compaction = n.compaction,
           n2.measured = n.measured, n2.ran = n.ran,
           n2.turn = n.turn \/ (n.turn = "idle" /\ n.batch # {})
    PROVE  LET result == Fold(f, [kind |-> "todos", to |-> to], replay)
           IN  Told(result.fold, ShowsAll(s, result.notices), b, n2, replay)
<1> DEFINE f2 == [f EXCEPT !.plan = to]
           s2 == [s EXCEPT !.todos = to]
           result == Fold(f, [kind |-> "todos", to |-> to], replay)
<1>1. result = Result(f2, <<Notice("todos", to)>>)
  BY DEF Fold
<1>2. Shows(s, Notice("todos", to)) = s2
  BY DEF Shows, Notice
<1>3. result.fold = f2 /\ ShowsAll(s, result.notices) = s2
  <2>1. result.fold = f2 /\ result.notices = <<Notice("todos", to)>>
    BY <1>1 DEF Result
  <2> HIDE DEF result
  <2> QED BY <1>2, <2>1, ShownOne
<1>4. f \in FoldStates /\ s \in Views
  BY DEF Told
<1>5. /\ f2 \in FoldStates /\ f2.plan = to
      /\ f2.pending = f.pending /\ f2.claimed = f.claimed /\ f2.prompt = f.prompt
      /\ f2.open = f.open /\ f2.commands = f.commands
  BY <1>4 DEF FoldStates
<1>6. /\ s2 \in Views /\ s2.todos = to
      /\ s2.blocks = s.blocks /\ s2.retrying = s.retrying /\ s2.compacting = s.compacting
      /\ s2.plan = s.plan
  BY <1>4 DEF Views
<1> HIDE DEF f2, s2, result
<1>7. MessagesTold(f2, s2, b, n2)
  BY <1>5, <1>6, MessagesStayTold DEF Told
<1>8. CompactionsTold(f2, s2, b, n2) /\ CommandsTold(f2, s2, b, n2)
  BY <1>5, <1>6, CompactionsStayTold, CommandsStayTold DEF Told
<1>9. StateTold(f2, s2, n2, replay)
  BY <1>5, <1>6 DEF Told, StateTold
<1> QED BY <1>3, <1>5, <1>6, <1>7, <1>8, <1>9 DEF Told, result

LEMMA StartTurnTold ==
    ASSUME NoticesInv, StartTurn
    PROVE  NoticesInv'
<1> DEFINE e == [kind |-> "todos", to |-> 0]
<1>1. /\ turn = "idle" /\ batch # {} /\ todos' = 0 /\ Happens(e)
      /\ UNCHANGED <<inbox, batch, woke, appended, usage, plan, compaction, measured, ran>>
  BY DEF StartTurn
<1>2. usage \in BOOLEAN /\ plan \in BOOLEAN
  BY Fields DEF NoticesInv, SessionOK
<1>3. SessionOK(Session')
  BY <1>1, <1>2, QuietSession
<1>4. ASSUME NEW f, NEW s, NEW b, NEW replay, Told(f, s, b, Session, replay)
      PROVE  Told(Fold(f, e, replay).fold, ShowsAll(s, Fold(f, e, replay).notices), b, Session',
                  replay)
  BY <1>1, <1>4, Fields, Placed, TodosTold
<1> QED BY <1>1, <1>3, <1>4, EventTold

LEMMA WriteTodosTold ==
    ASSUME NoticesInv, WriteTodos
    PROVE  NoticesInv'
<1> DEFINE e == [kind |-> "todos", to |-> todos']
<1>1. /\ todos' = todos + 1 /\ Happens(e)
      /\ UNCHANGED <<inbox, batch, woke, appended, turn, usage, plan, compaction, measured, ran>>
  BY DEF WriteTodos
<1>2. usage \in BOOLEAN /\ plan \in BOOLEAN /\ todos' \in Nat
  BY <1>1, Fields DEF NoticesInv, SessionOK
<1>3. SessionOK(Session')
  BY <1>1, <1>2, QuietSession
<1>4. ASSUME NEW f, NEW s, NEW b, NEW replay, Told(f, s, b, Session, replay)
      PROVE  Told(Fold(f, e, replay).fold, ShowsAll(s, Fold(f, e, replay).notices), b, Session',
                  replay)
  BY <1>1, <1>2, <1>4, Fields, Placed, TodosTold
<1> QED BY <1>1, <1>3, <1>4, EventTold

LEMMA SelectModeTold ==
    ASSUME NoticesInv, SelectMode
    PROVE  NoticesInv'
<1> DEFINE e == [kind |-> "mode", to |-> plan']
<1>1. /\ plan' \in BOOLEAN /\ Happens(e)
      /\ UNCHANGED <<inbox, batch, woke, appended, turn, usage, todos, compaction, measured, ran>>
  BY DEF SelectMode
<1>2. usage \in BOOLEAN /\ todos \in Nat
  BY Fields DEF NoticesInv, SessionOK
<1>3. SessionOK(Session')
  BY <1>1, <1>2, QuietSession
<1>4. ASSUME NEW f, NEW s, NEW b, NEW replay, Told(f, s, b, Session, replay)
      PROVE  Told(Fold(f, e, replay).fold, ShowsAll(s, Fold(f, e, replay).notices), b, Session',
                  replay)
  <2> DEFINE s2 == [s EXCEPT !.plan = plan']
  <2>1. Fold(f, e, replay) = Result(f, <<Notice("mode", plan')>>)
    BY DEF Fold
  <2>2. Shows(s, Notice("mode", plan')) = s2
    BY DEF Shows, Notice
  <2>3. Fold(f, e, replay).fold = f /\ ShowsAll(s, Fold(f, e, replay).notices) = s2
    BY <2>1, <2>2, ShownOne DEF Result
  <2>4. f \in FoldStates /\ s \in Views
    BY <1>4 DEF Told
  <2>5. /\ s2 \in Views /\ s2.plan = plan'
        /\ s2.blocks = s.blocks /\ s2.retrying = s.retrying /\ s2.compacting = s.compacting
        /\ s2.todos = s.todos
    BY <1>1, <2>4 DEF Views
  <2> HIDE DEF s2
  <2>6. MessagesTold(f, s2, b, Session')
    BY <1>1, <1>4, <2>5, Fields, Placed, MessagesStayTold DEF Told
  <2>7. CompactionsTold(f, s2, b, Session') /\ CommandsTold(f, s2, b, Session')
    BY <1>1, <1>4, <2>5, Fields, CompactionsStayTold, CommandsStayTold DEF Told
  <2>8. StateTold(f, s2, Session', replay)
    BY <1>1, <1>4, <2>5, Fields DEF Told, StateTold
  <2> QED BY <2>3, <2>4, <2>5, <2>6, <2>7, <2>8 DEF Told
<1> QED BY <1>1, <1>3, <1>4, EventTold

LEMMA ReportUsageTold ==
    ASSUME NoticesInv, ReportUsage
    PROVE  NoticesInv'
<1> DEFINE e == Plain("usage")
<1>1. /\ usage' = TRUE /\ Happens(e)
      /\ UNCHANGED <<inbox, batch, woke, appended, turn, todos, plan, compaction, measured, ran>>
  BY DEF ReportUsage
<1>2. todos \in Nat /\ plan \in BOOLEAN
  BY Fields DEF NoticesInv, SessionOK
<1>3. SessionOK(Session')
  BY <1>1, <1>2, QuietSession
<1>4. ASSUME NEW f, NEW s, NEW b, NEW replay, Told(f, s, b, Session, replay)
      PROVE  Told(Fold(f, e, replay).fold, ShowsAll(s, Fold(f, e, replay).notices), b, Session',
                  replay)
  <2> DEFINE f2 == [f EXCEPT !.prompt = TRUE]
  <2>1. Fold(f, e, replay) = Result(f2, <<>>)
    BY DEF Fold, Plain
  <2> HIDE DEF e
  <2>2. Fold(f, e, replay).fold = f2 /\ ShowsAll(s, Fold(f, e, replay).notices) = s
    BY <2>1, BringsNothing
  <2>3. f \in FoldStates /\ s \in Views
    BY <1>4 DEF Told
  <2>4. /\ f2 \in FoldStates /\ f2.prompt = TRUE
        /\ f2.pending = f.pending /\ f2.claimed = f.claimed /\ f2.plan = f.plan
        /\ f2.open = f.open /\ f2.commands = f.commands
    BY <2>3 DEF FoldStates
  <2> HIDE DEF f2
  <2>5. MessagesTold(f2, s, b, Session')
    BY <1>1, <1>4, <2>4, Fields, Placed, MessagesStayTold DEF Told
  <2>6. CompactionsTold(f2, s, b, Session')
    <3> DEFINE n == Session
               n2 == Session'
    <3>1. CompactionsTold(f, s, b, n)
      BY <1>4 DEF Told
    <3>2. n2.usage = TRUE /\ n2.compaction = n.compaction /\ n2.measured = n.measured
      BY <1>1, Fields
    <3> HIDE DEF n, n2
    <3>3. f2.prompt = n2.usage
      BY <2>4, <3>2
    <3>4. CompactionsTold(f2, s, b, n2)
      BY <2>4, <3>1, <3>2, <3>3, CompactionsStay
    <3> QED BY <3>4 DEF n2
  <2>7. CommandsTold(f2, s, b, Session') /\ StateTold(f2, s, Session', replay)
    BY <1>1, <1>4, <2>4, Fields, CommandsStayTold, StateStaysTold DEF Told
  <2> QED BY <2>2, <2>3, <2>4, <2>5, <2>6, <2>7 DEF Told
<1>5. e.kind # "turnEnd"
  BY DEF Plain
<1> QED BY <1>1, <1>3, <1>4, <1>5, EventTold

\* Only the retrying state of what is shown changes, and so may the turn.
LEMMA RetryingTold ==
    ASSUME NEW f, NEW s, NEW b, NEW replay, NEW retrying \in BOOLEAN, NoticesInv,
           Told(f, s, b, Session, replay),
           UNCHANGED <<inbox, batch, woke, appended, usage, todos, plan, compaction, measured, ran>>,
           turn' # "idle" => turn # "idle",
           retrying => ~replay /\ turn' = "retrying"
    PROVE  Told(f, [s EXCEPT !.retrying = retrying], b, Session', replay)
<1> DEFINE s2 == [s EXCEPT !.retrying = retrying]
<1>1. f \in FoldStates /\ s \in Views
  BY DEF Told
<1>2. /\ s2 \in Views /\ s2.retrying = retrying
      /\ s2.blocks = s.blocks /\ s2.plan = s.plan /\ s2.compacting = s.compacting
      /\ s2.todos = s.todos
  BY <1>1 DEF Views
<1> HIDE DEF s2
<1>3. MessagesTold(f, s2, b, Session')
  BY <1>2, Fields, Placed, MessagesStayTold DEF Told
<1>4. CompactionsTold(f, s2, b, Session') /\ CommandsTold(f, s2, b, Session')
  BY <1>2, Fields, CompactionsStayTold, CommandsStayTold DEF Told
<1>5. StateTold(f, s2, Session', replay)
  BY <1>2, Fields DEF Told, StateTold
<1>6. Told(f, s2, b, Session', replay)
  BY <1>1, <1>2, <1>3, <1>4, <1>5 DEF Told
<1> QED BY <1>6 DEF s2

LEMMA RetryingStays ==
    ASSUME NEW f, NEW s, NEW b, NEW replay, NoticesInv, Told(f, s, b, Session, replay),
           s.retrying = FALSE,
           UNCHANGED <<inbox, batch, woke, appended, usage, todos, plan, compaction, measured, ran>>,
           turn' # "idle" => turn # "idle"
    PROVE  Told(f, s, b, Session', replay)
<1>1. s \in Views
  BY DEF Told
<1>2. [s EXCEPT !.retrying = FALSE] = s
  BY <1>1 DEF Views
<1>3. Told(f, [s EXCEPT !.retrying = FALSE], b, Session', replay)
  BY RetryingTold
<1> QED BY <1>2, <1>3

LEMMA RetryTold ==
    ASSUME NoticesInv, Retry
    PROVE  NoticesInv'
<1> DEFINE e == Plain(IF turn = "running" THEN "retry" ELSE "retried")
<1>1. /\ turn \in {"running", "retrying"} /\ Happens(e)
      /\ turn' = IF turn = "running" THEN "retrying" ELSE "running"
      /\ UNCHANGED <<inbox, batch, woke, appended, usage, todos, plan, compaction, measured, ran>>
  BY DEF Retry
<1>2. usage \in BOOLEAN /\ todos \in Nat /\ plan \in BOOLEAN
  BY Fields DEF NoticesInv, SessionOK
<1>3. SessionOK(Session')
  BY <1>1, <1>2, QuietSession
<1>4. e.kind = IF turn = "running" THEN "retry" ELSE "retried"
  BY DEF Plain
<1> HIDE DEF e
<1>5. ASSUME NEW f, NEW s, NEW b, NEW replay, Told(f, s, b, Session, replay)
      PROVE  Told(Fold(f, e, replay).fold, ShowsAll(s, Fold(f, e, replay).notices), b, Session',
                  replay)
  <2>1. s \in Views
    BY <1>5 DEF Told
  <2>2. CASE turn = "running" /\ ~replay
    <3>1. Fold(f, e, replay) = Result(f, <<Notice("retrying", Unknown)>>)
      BY <1>4, <2>2 DEF Fold, RetryNotices
    <3>2. Shows(s, Notice("retrying", Unknown)) = [s EXCEPT !.retrying = TRUE]
      BY DEF Shows, Notice
    <3>3. Told(f, [s EXCEPT !.retrying = TRUE], b, Session', replay)
      BY <1>1, <1>5, <2>2, RetryingTold
    <3>4. Fold(f, e, replay).fold = f
          /\ ShowsAll(s, Fold(f, e, replay).notices) = Shows(s, Notice("retrying", Unknown))
      BY <3>1, BringsOne
    <3> QED BY <3>2, <3>3, <3>4
  <2>3. CASE turn = "retrying" /\ ~replay
    <3>1. Fold(f, e, replay) = Result(f, <<Notice("chunk", Unknown)>>)
      BY <1>4, <2>3 DEF Fold, RetryNotices
    <3>2. Shows(s, Notice("chunk", Unknown)) = [s EXCEPT !.retrying = FALSE]
      BY DEF Shows, Notice
    <3>3. Told(f, [s EXCEPT !.retrying = FALSE], b, Session', replay)
      BY <1>1, <1>5, <2>3, RetryingTold
    <3>4. Fold(f, e, replay).fold = f
          /\ ShowsAll(s, Fold(f, e, replay).notices) = Shows(s, Notice("chunk", Unknown))
      BY <3>1, BringsOne
    <3> QED BY <3>2, <3>3, <3>4
  <2>4. CASE replay
    <3>1. Fold(f, e, replay) = Result(f, <<>>)
      BY <1>1, <1>4, <2>4 DEF Fold, RetryNotices
    <3>2. s.retrying = FALSE
      BY <1>5, <2>1, <2>4 DEF Told, StateTold, Views
    <3>3. Told(f, s, b, Session', replay)
      BY <1>1, <1>5, <3>2, RetryingStays
    <3> QED BY <3>1, <3>3, BringsNothing
  <2> QED BY <1>1, <2>2, <2>3, <2>4
<1>6. e.kind # "turnEnd"
  BY <1>4
<1> QED BY <1>1, <1>3, <1>5, <1>6, EventTold

LEMMA EndTurnTold ==
    ASSUME NoticesInv, NEW failed \in BOOLEAN, EndTurn(failed)
    PROVE  NoticesInv'
<1> DEFINE e == [kind |-> "turnEnd", failed |-> failed]
           notices == IF failed THEN <<Notice("error", Unknown)>> ELSE <<>>
<1>1. /\ turn' = "idle" /\ Happens(e)
      /\ UNCHANGED <<inbox, batch, woke, appended, usage, todos, plan, compaction, measured, ran>>
  BY DEF EndTurn
<1>2. usage \in BOOLEAN /\ todos \in Nat /\ plan \in BOOLEAN
  BY Fields DEF NoticesInv, SessionOK
<1>3. SessionOK(Session')
  BY <1>1, <1>2, QuietSession
<1>4. \A f, replay : Fold(f, e, replay) = Result(f, notices)
  BY DEF Fold, RetryNotices
<1>5. \A s \in Views : ShowsAll(s, notices) = IF failed THEN [s EXCEPT !.retrying = FALSE] ELSE s
  <2>1. \A s : Shows(s, Notice("error", Unknown)) = [s EXCEPT !.retrying = FALSE]
    BY DEF Shows, Notice
  <2> QED BY <2>1, ShownOne
<1>6. /\ output' = output /\ cold' = cold /\ unseen' = unseen
      /\ view' = [ShowsAll(view, notices) EXCEPT !.retrying = FALSE]
      /\ archive' = ShowsAll(archive, notices)
  <2>1. e.kind = "turnEnd"
    OBVIOUS
  <2>2. \A f, replay : Fold(f, e, replay).fold = f /\ Fold(f, e, replay).notices = notices
    <3> HIDE DEF e, notices
    <3> QED BY <1>4, Brings
  <2> HIDE DEF e, notices
  <2> QED BY <1>1, <2>1, <2>2 DEF Happens
<1> HIDE DEF e, notices
<1>7. view \in Views /\ archive \in Views /\ archive.retrying = FALSE
  BY DEF NoticesInv, Told, StateTold, Views
<1>8. view' = [view EXCEPT !.retrying = FALSE] /\ archive' = archive
  BY <1>5, <1>6, <1>7 DEF Views
<1>9. Told(output', view', unseen', Session', FALSE)
  <2>1. Told(output, view, unseen, Session, FALSE)
    BY DEF NoticesInv
  <2>2. Told(output, [view EXCEPT !.retrying = FALSE], unseen, Session', FALSE)
    BY <1>1, <2>1, RetryingTold
  <2> QED BY <1>6, <1>8, <2>2
<1>10. Told(cold', archive', NothingUnseen, Session', TRUE)
  <2>1. Told(cold, archive, NothingUnseen, Session, TRUE)
    BY DEF NoticesInv
  <2>2. Told(cold, archive, NothingUnseen, Session', TRUE)
    BY <1>1, <1>7, <2>1, RetryingStays
  <2> QED BY <1>6, <1>8, <2>2
<1> QED BY <1>3, <1>9, <1>10 DEF NoticesInv

\* The notice of a message: one block of the message, or none.
LEMMA BlockShown ==
    ASSUME NEW s \in Views, NEW x \in Blocks,
           NEW kind \in {"trigger", "context", "result"}
    PROVE  LET s2 == Shows(s, Notice(kind, x))
           IN  /\ s2 \in Views
               /\ s2.blocks[x] = Append(s.blocks[x], kind)
               /\ \A y \in Blocks \ {x} : s2.blocks[y] = s.blocks[y]
               /\ s2.retrying = s.retrying /\ s2.compacting = s.compacting
               /\ s2.todos = s.todos /\ s2.plan = s.plan
<1> DEFINE s2 == [s EXCEPT !.blocks[x] = Append(@, kind)]
<1>1. Shows(s, Notice(kind, x)) = s2
  BY DEF Shows, Notice
<1>2. s.blocks[x] \in Seq(NoticeKinds) /\ kind \in NoticeKinds
  BY DEF Views, NoticeKinds
<1>3. Append(s.blocks[x], kind) \in Seq(NoticeKinds)
  BY <1>2
<1>4. /\ s2 \in Views
      /\ s2.blocks[x] = Append(s.blocks[x], kind)
      /\ \A y \in Blocks \ {x} : s2.blocks[y] = s.blocks[y]
      /\ s2.retrying = s.retrying /\ s2.compacting = s.compacting
      /\ s2.todos = s.todos /\ s2.plan = s.plan
  BY <1>3 DEF Views
<1> QED BY <1>1, <1>4

LEMMA NotedTold ==
    ASSUME NEW f, NEW s, NEW b, NEW n, NEW n2, NEW replay, Told(f, s, b, n, replay),
           NEW m \in Messages, SessionOK(n), m \notin n.appended, n.turn # "idle",
           n2.appended = n.appended \cup {m}, n2.batch = n.batch \ {m},
           n2.woke = IF m \in n.batch THEN n.woke \cup {m} ELSE n.woke,
           n2.inbox = n.inbox, n2.turn = n.turn, n2.usage = n.usage,
           n2.todos = n.todos, n2.plan = n.plan, n2.compaction = n.compaction,
           n2.measured = n.measured, n2.ran = n.ran
    PROVE  LET result == Noted(f, m)
           IN  Told(result.fold, ShowsAll(s, result.notices), b, n2, replay)
<1> DEFINE result == Noted(f, m)
           f2 == result.fold
           s2 == ShowsAll(s, result.notices)
           note == CASE m \in Human -> <<>>
                     [] m \in n2.woke \ Human -> <<"trigger">>
                     [] m \in Standing \ (n2.woke \cup Human) -> <<>>
                     [] OTHER -> <<"context">>
<1>1. /\ f \in FoldStates /\ s \in Views /\ m \in Blocks
      /\ n.batch \subseteq f.claimed /\ f.claimed \subseteq n.batch \cup n.appended
      /\ n.woke \subseteq n.appended /\ n.appended \subseteq Messages
      /\ s.blocks[m] = <<>> /\ m \notin n.woke
  BY DEF Told, MessagesTold, SessionOK, Blocks
<1>2. /\ m \in f.claimed <=> m \in n.batch
      /\ m \in n2.woke <=> m \in n.batch
  BY <1>1
<1>3. /\ f2 = IF m \in Human \/ m \notin f.claimed THEN f ELSE [f EXCEPT !.claimed = @ \ {m}]
      /\ result.notices = CASE m \in Human -> <<>>
                            [] m \in f.claimed \ Human -> <<Notice("trigger", m)>>
                            [] m \in Standing \ (f.claimed \cup Human) -> <<>>
                            [] OTHER -> <<Notice("context", m)>>
  <2>1. CASE m \in Human
    <3>1. result = Result(f, <<>>)
      BY <2>1 DEF Noted
    <3> HIDE DEF result
    <3> QED BY <2>1, <3>1, Brings
  <2>2. CASE m \notin Human /\ m \in f.claimed
    <3>1. result = Result([f EXCEPT !.claimed = @ \ {m}], <<Notice("trigger", m)>>)
      BY <2>2 DEF Noted
    <3> HIDE DEF result
    <3> QED BY <2>2, <3>1, Brings
  <2>3. CASE m \notin Human /\ m \notin f.claimed /\ m \in Standing
    <3>1. result = Result(f, <<>>)
      BY <2>3 DEF Noted, ContextNotes
    <3> HIDE DEF result
    <3> QED BY <2>3, <3>1, Brings
  <2>4. CASE m \notin Human /\ m \notin f.claimed /\ m \notin Standing
    <3>1. result = Result(f, <<Notice("context", m)>>)
      BY <2>4 DEF Noted, ContextNotes
    <3> HIDE DEF result
    <3> QED BY <2>4, <3>1, Brings
  <2> QED BY <2>1, <2>2, <2>3, <2>4
<1>4. /\ f2 \in FoldStates /\ f2.pending = f.pending /\ f2.prompt = f.prompt /\ f2.plan = f.plan
      /\ f2.open = f.open /\ f2.commands = f.commands
      /\ f2.claimed \subseteq f.claimed /\ f.claimed \subseteq f2.claimed \cup {m}
  <2> HIDE DEF f2
  <2> QED BY <1>1, <1>3 DEF FoldStates
<1>5. /\ s2 \in Views /\ s2.blocks[m] = note
      /\ \A y \in Blocks \ {m} : s2.blocks[y] = s.blocks[y]
      /\ s2.retrying = s.retrying /\ s2.compacting = s.compacting
      /\ s2.todos = s.todos /\ s2.plan = s.plan
  <2> HIDE DEF result
  <2>1. Append(<<>>, "trigger") = <<"trigger">> /\ Append(<<>>, "context") = <<"context">>
    OBVIOUS
  <2>2. CASE m \in Human
    BY <1>1, <1>3, <2>2, ShownOne
  <2>3. CASE m \notin Human /\ m \in f.claimed
    <3>1. result.notices = <<Notice("trigger", m)>>
      BY <1>3, <2>3
    <3>2. s2 = Shows(s, Notice("trigger", m))
      BY <3>1, ShownOne
    <3>3. note = <<"trigger">>
      BY <1>2, <2>3
    <3> HIDE DEF s2, note
    <3> DEFINE kind == "trigger"
    <3>4. kind \in {"trigger", "context", "result"} /\ Append(<<>>, kind) = <<"trigger">>
      BY <2>1
    <3> HIDE DEF kind
    <3>5. /\ Shows(s, Notice(kind, m)) \in Views
          /\ Shows(s, Notice(kind, m)).blocks[m] = Append(s.blocks[m], kind)
          /\ \A y \in Blocks \ {m} : Shows(s, Notice(kind, m)).blocks[y] = s.blocks[y]
          /\ Shows(s, Notice(kind, m)).retrying = s.retrying
          /\ Shows(s, Notice(kind, m)).compacting = s.compacting
          /\ Shows(s, Notice(kind, m)).todos = s.todos /\ Shows(s, Notice(kind, m)).plan = s.plan
      BY <1>1, <3>4, BlockShown
    <3>6. s2 = Shows(s, Notice(kind, m))
      BY <3>2 DEF kind
    <3> QED BY <1>1, <3>3, <3>4, <3>5, <3>6
  <2>4. CASE m \notin Human /\ m \notin f.claimed /\ m \in Standing
    BY <1>1, <1>2, <1>3, <2>4, ShownOne
  <2>5. CASE m \notin Human /\ m \notin f.claimed /\ m \notin Standing
    <3>1. result.notices = <<Notice("context", m)>>
      BY <1>3, <2>5
    <3>2. s2 = Shows(s, Notice("context", m))
      BY <3>1, ShownOne
    <3>3. note = <<"context">>
      BY <1>2, <2>5
    <3> HIDE DEF s2, note
    <3> DEFINE kind == "context"
    <3>4. kind \in {"trigger", "context", "result"} /\ Append(<<>>, kind) = <<"context">>
      BY <2>1
    <3> HIDE DEF kind
    <3>5. /\ Shows(s, Notice(kind, m)) \in Views
          /\ Shows(s, Notice(kind, m)).blocks[m] = Append(s.blocks[m], kind)
          /\ \A y \in Blocks \ {m} : Shows(s, Notice(kind, m)).blocks[y] = s.blocks[y]
          /\ Shows(s, Notice(kind, m)).retrying = s.retrying
          /\ Shows(s, Notice(kind, m)).compacting = s.compacting
          /\ Shows(s, Notice(kind, m)).todos = s.todos /\ Shows(s, Notice(kind, m)).plan = s.plan
      BY <1>1, <3>4, BlockShown
    <3>6. s2 = Shows(s, Notice(kind, m))
      BY <3>2 DEF kind
    <3> QED BY <1>1, <3>3, <3>4, <3>5, <3>6
  <2> QED BY <2>2, <2>3, <2>4, <2>5
<1> HIDE DEF result, f2, s2
<1>6. MessagesTold(f2, s2, b, n2)
  <2>1. \A y \in Messages \ {m} : s2.blocks[y] = s.blocks[y]
    BY <1>5 DEF Blocks
  <2>2. f2.pending = n2.inbox /\ n2.batch \subseteq f2.claimed
        /\ f2.claimed \subseteq n2.batch \cup n2.appended
    BY <1>1, <1>4 DEF Told, MessagesTold
  <2>3. \A y \in Messages \ n2.appended : s2.blocks[y] = <<>>
    BY <2>1 DEF Told, MessagesTold
  <2>4. \A y \in n2.appended \ b.messages :
          s2.blocks[y] = CASE y \in Human -> <<>>
                           [] y \in n2.woke \ Human -> <<"trigger">>
                           [] y \in Standing \ (n2.woke \cup Human) -> <<>>
                           [] OTHER -> <<"context">>
    <3> TAKE y \in n2.appended \ b.messages
    <3>1. CASE y = m
      BY <1>5, <3>1
    <3>2. CASE y # m
      <4>1. y \in n.appended \ b.messages /\ (y \in n2.woke <=> y \in n.woke) /\ y \in Messages
        BY <1>1, <3>2
      <4>2. s.blocks[y] = CASE y \in Human -> <<>>
                           [] y \in n.woke \ Human -> <<"trigger">>
                           [] y \in Standing \ (n.woke \cup Human) -> <<>>
                           [] OTHER -> <<"context">>
        BY <4>1 DEF Told, MessagesTold
      <4> QED BY <2>1, <3>2, <4>1, <4>2
    <3> QED BY <3>1, <3>2
  <2> QED BY <2>2, <2>3, <2>4 DEF MessagesTold
<1>7. /\ \A c \in Compactions : s2.blocks[c] = s.blocks[c]
      /\ \A c \in Commands : s2.blocks[c] = s.blocks[c]
  BY <1>5, TurnNoticesAssumption DEF Blocks
<1>8. CompactionsTold(f2, s2, b, n2)
  BY <1>4, <1>5, <1>7, CompactionsStayTold DEF Told
<1>9. CommandsTold(f2, s2, b, n2)
  BY <1>4, <1>7, CommandsStayTold DEF Told
<1>10. StateTold(f2, s2, n2, replay)
  BY <1>4, <1>5, StateStaysTold DEF Told
<1>11. Told(f2, s2, b, n2, replay)
  BY <1>4, <1>5, <1>6, <1>8, <1>9, <1>10 DEF Told
<1> QED BY <1>11 DEF f2, s2, result

LEMMA MessageTold ==
    ASSUME NoticesInv, NEW m \in Messages, AppendMessage(m) \/ Inject(m)
    PROVE  NoticesInv'
<1> DEFINE e == [kind |-> "message", of |-> m]
<1>1. /\ turn # "idle" /\ m \notin appended /\ m \notin ToSet(inbox)
      /\ appended' = appended \cup {m} /\ batch' = batch \ {m}
      /\ woke' = (IF m \in batch THEN woke \cup {m} ELSE woke) /\ Happens(e)
      /\ UNCHANGED <<inbox, turn, usage, todos, plan, compaction, measured, ran>>
  <2>1. CASE AppendMessage(m)
    BY <2>1, Placed DEF AppendMessage
  <2>2. CASE Inject(m)
    BY <2>2 DEF Inject
  <2> QED BY <2>1, <2>2
<1>2. SessionOK(Session)
  BY DEF NoticesInv
<1>3. SessionOK(Session')
  <2> DEFINE n == Session
             n2 == Session'
  <2>1. /\ n2.inbox = n.inbox /\ n2.batch = n.batch \ {m} /\ n2.appended = n.appended \cup {m}
        /\ n2.woke \subseteq n.woke \cup {m} /\ m \notin ToSet(n.inbox)
        /\ n2.compaction = n.compaction /\ n2.measured = n.measured /\ n2.ran = n.ran
        /\ n2.usage = n.usage /\ n2.todos = n.todos /\ n2.plan = n.plan
        /\ SessionOK(n)
    BY <1>1, <1>2, Fields
  <2> HIDE DEF n, n2
  <2>2. SessionOK(n2)
    BY <2>1 DEF SessionOK, Compacting
  <2> QED BY <2>2 DEF n2
<1>4. ASSUME NEW f, NEW s, NEW b, NEW replay, Told(f, s, b, Session, replay)
      PROVE  Told(Fold(f, e, replay).fold, ShowsAll(s, Fold(f, e, replay).notices), b, Session',
                  replay)
  <2>1. Fold(f, e, replay) = Noted(f, m)
    BY DEF Fold
  <2> DEFINE n == Session
             n2 == Session'
  <2>2. /\ n2.inbox = n.inbox /\ n2.batch = n.batch \ {m} /\ n2.appended = n.appended \cup {m}
        /\ n2.woke = (IF m \in n.batch THEN n.woke \cup {m} ELSE n.woke)
        /\ n2.turn = n.turn /\ n.turn # "idle" /\ m \notin n.appended
        /\ n2.compaction = n.compaction /\ n2.measured = n.measured /\ n2.ran = n.ran
        /\ n2.usage = n.usage /\ n2.todos = n.todos /\ n2.plan = n.plan
        /\ SessionOK(n) /\ Told(f, s, b, n, replay)
    BY <1>1, <1>2, <1>4, Fields
  <2> HIDE DEF n, n2
  <2>3. LET result == Noted(f, m)
        IN  Told(result.fold, ShowsAll(s, result.notices), b, n2, replay)
    BY <2>2, NotedTold
  <2> QED BY <2>1, <2>3 DEF n2
<1> QED BY <1>1, <1>3, <1>4, EventTold

LEMMA RunCommandTold ==
    ASSUME NoticesInv, NEW c \in Commands, RunCommand(c)
    PROVE  NoticesInv'
<1> DEFINE e == [kind |-> "command", of |-> c, type |-> IF ran[c] = "none" THEN "run" ELSE "done"]
<1>1. /\ ran[c] # "done" /\ ran' = [ran EXCEPT ![c] = IF @ = "none" THEN "running" ELSE "done"]
      /\ Happens(e)
      /\ UNCHANGED <<inbox, batch, woke, appended, turn, usage, todos, plan, compaction, measured>>
  BY DEF RunCommand
<1> DEFINE n == Session
           n2 == Session'
<1>2. /\ n2.inbox = n.inbox /\ n2.batch = n.batch /\ n2.appended = n.appended
      /\ n2.woke = n.woke /\ n2.turn = n.turn
      /\ n2.compaction = n.compaction /\ n2.measured = n.measured
      /\ n2.usage = n.usage /\ n2.todos = n.todos /\ n2.plan = n.plan
      /\ n2.ran = [n.ran EXCEPT ![c] = IF @ = "none" THEN "running" ELSE "done"]
      /\ SessionOK(n) /\ n.ran = ran
  BY <1>1, Fields DEF NoticesInv
<1>3. ran \in [Commands -> {"none", "running", "done"}]
  BY Fields DEF NoticesInv, SessionOK
<1> HIDE DEF n, n2
<1>4. n2.ran \in [Commands -> {"none", "running", "done"}]
  BY <1>2, <1>3
<1>5. SessionOK(n2)
  BY <1>2, <1>4 DEF SessionOK, Compacting
<1>6. ASSUME NEW f, NEW s, NEW b, NEW replay, Told(f, s, b, n, replay)
      PROVE  Told(Fold(f, e, replay).fold, ShowsAll(s, Fold(f, e, replay).notices), b, n2, replay)
  <2>1. f \in FoldStates /\ s \in Views /\ c \in Blocks /\ s.blocks[c] = <<>>
        /\ (c \in f.commands <=> ran[c] = "running")
    BY <1>1, <1>2, <1>6 DEF Told, CommandsTold, Blocks
  <2> DEFINE result == Fold(f, e, replay)
             f2 == result.fold
             s2 == ShowsAll(s, result.notices)
  <2>2. result = CommandDone(f, e)
    BY DEF Fold
  <2>3. /\ f2 = [f EXCEPT !.commands = IF ran[c] = "none" THEN @ \cup {c} ELSE @ \ {c}]
        /\ s2 = IF ran[c] = "running" /\ c \notin Silent THEN Shows(s, Notice("result", c)) ELSE s
    <3>1. CASE ran[c] = "none"
      <4>1. result = Result([f EXCEPT !.commands = @ \cup {c}], <<>>)
        BY <2>2, <3>1 DEF CommandDone
      <4> HIDE DEF result
      <4> QED BY <3>1, <4>1, BringsNothing
    <3>2. CASE ran[c] = "running" /\ c \notin Silent
      <4>1. result = Result([f EXCEPT !.commands = @ \ {c}], <<Notice("result", c)>>)
        BY <2>1, <2>2, <3>2 DEF CommandDone
      <4> HIDE DEF result
      <4>2. f2 = [f EXCEPT !.commands = @ \ {c}] /\ s2 = Shows(s, Notice("result", c))
        BY <4>1, BringsOne
      <4> HIDE DEF f2, s2
      <4> QED BY <3>2, <4>2
    <3>3. CASE ran[c] = "running" /\ c \in Silent
      <4>1. result = Result([f EXCEPT !.commands = @ \ {c}], <<>>)
        BY <2>1, <2>2, <3>3 DEF CommandDone
      <4> HIDE DEF result
      <4>2. f2 = [f EXCEPT !.commands = @ \ {c}] /\ s2 = s
        BY <4>1, BringsNothing
      <4> HIDE DEF f2, s2
      <4> QED BY <3>3, <4>2
    <3> QED BY <1>1, <1>3, <3>1, <3>2, <3>3
  <2> HIDE DEF result, f2, s2
  <2>4. /\ f2 \in FoldStates /\ f2.pending = f.pending /\ f2.claimed = f.claimed
        /\ f2.prompt = f.prompt /\ f2.plan = f.plan /\ f2.open = f.open
        /\ f2.commands = IF ran[c] = "none" THEN f.commands \cup {c} ELSE f.commands \ {c}
    BY <2>1, <2>3 DEF FoldStates
  <2>5. /\ s2 \in Views
        /\ s2.blocks[c] = IF ran[c] = "running" /\ c \notin Silent THEN <<"result">> ELSE <<>>
        /\ \A y \in Blocks \ {c} : s2.blocks[y] = s.blocks[y]
        /\ s2.retrying = s.retrying /\ s2.compacting = s.compacting
        /\ s2.todos = s.todos /\ s2.plan = s.plan
    <3> DEFINE kind == "result"
    <3>1. kind \in {"trigger", "context", "result"} /\ Append(<<>>, kind) = <<"result">>
      OBVIOUS
    <3>2. s2 = IF ran[c] = "running" /\ c \notin Silent THEN Shows(s, Notice(kind, c)) ELSE s
      BY <2>3
    <3> HIDE DEF kind
    <3>3. /\ Shows(s, Notice(kind, c)) \in Views
          /\ Shows(s, Notice(kind, c)).blocks[c] = Append(s.blocks[c], kind)
          /\ \A y \in Blocks \ {c} : Shows(s, Notice(kind, c)).blocks[y] = s.blocks[y]
          /\ Shows(s, Notice(kind, c)).retrying = s.retrying
          /\ Shows(s, Notice(kind, c)).compacting = s.compacting
          /\ Shows(s, Notice(kind, c)).todos = s.todos /\ Shows(s, Notice(kind, c)).plan = s.plan
      BY <2>1, <3>1, BlockShown
    <3> QED BY <2>1, <3>1, <3>2, <3>3
  <2>6. /\ \A m \in Messages : s2.blocks[m] = s.blocks[m]
        /\ \A d \in Compactions : s2.blocks[d] = s.blocks[d]
        /\ \A d \in Commands \ {c} : s2.blocks[d] = s.blocks[d]
    BY <2>5, TurnNoticesAssumption DEF Blocks
  <2>7. n.appended \subseteq Messages
    BY <1>2 DEF SessionOK
  <2>8. MessagesTold(f2, s2, b, n2)
    BY <1>2, <1>6, <2>4, <2>6, <2>7, MessagesStayTold DEF Told
  <2>9. CompactionsTold(f2, s2, b, n2)
    BY <1>2, <1>6, <2>4, <2>5, <2>6, CompactionsStayTold DEF Told
  <2>10. StateTold(f2, s2, n2, replay)
    BY <1>2, <1>6, <2>4, <2>5, StateStaysTold DEF Told
  <2>11. CommandsTold(f2, s2, b, n2)
    <3>1. /\ \A d \in Commands \ {c} : n2.ran[d] = ran[d]
          /\ n2.ran[c] = IF ran[c] = "none" THEN "running" ELSE "done"
      BY <1>2, <1>3
    <3>2. CommandsTold(f, s, b, n)
      BY <1>6 DEF Told
    <3>3. \A d \in Commands : d \in f2.commands <=> n2.ran[d] = "running"
      BY <1>2, <2>4, <3>1, <3>2 DEF CommandsTold
    <3>4. \A d \in Commands : n2.ran[d] # "done" => s2.blocks[d] = <<>>
      BY <1>1, <1>2, <1>3, <2>5, <2>6, <3>1, <3>2 DEF CommandsTold
    <3>5. \A d \in Commands \ b.commands :
            n2.ran[d] = "done" => s2.blocks[d] = IF d \in Silent THEN <<>> ELSE <<"result">>
      BY <1>1, <1>2, <1>3, <2>5, <2>6, <3>1, <3>2 DEF CommandsTold
    <3> QED BY <3>3, <3>4, <3>5 DEF CommandsTold
  <2>12. Told(f2, s2, b, n2, replay)
    BY <2>4, <2>5, <2>8, <2>9, <2>10, <2>11 DEF Told
  <2> QED BY <2>12 DEF f2, s2, result
<1>7. e.kind # "turnEnd"
  OBVIOUS
<1> HIDE DEF e
<1> QED BY <1>1, <1>5, <1>6, <1>7, EventTold DEF n, n2

\* What a compaction brings: none of what it tells but its completion is followed
\* by the todos.
LEMMA CompactionBrings ==
    ASSUME NEW f, NEW c, NEW facts, NEW replay, NEW type, NEW fold, NEW notices,
           Compacted(f, Compaction(type, c, facts), replay, facts) = Result(fold, notices),
           \/ notices = <<>>
           \/ \E x : notices = <<x>> /\ (x.kind = "completed" => f.plan = Unknown)
    PROVE  /\ Fold(f, Compaction(type, c, facts), replay).fold = fold
           /\ Fold(f, Compaction(type, c, facts), replay).notices = notices
<1> DEFINE e == Compaction(type, c, facts)
           result == Compacted(f, e, replay, facts)
           completes == \E i \in DOMAIN result.notices : result.notices[i].kind = "completed"
<1>1. e.kind = "compaction" /\ e.facts = facts
  BY DEF Compaction
<1> HIDE DEF e
<1>2. Fold(f, e, replay)
        = [result EXCEPT !.notices = @ \o IF completes /\ f.plan # Unknown
                                          THEN <<Notice("todos", f.plan)>> ELSE <<>>]
  BY <1>1 DEF Fold
<1>3. result = [fold |-> fold, notices |-> notices]
  BY DEF e, Result
<1>4. ~(completes /\ f.plan # Unknown)
  BY <1>3
<1>5. notices \o <<>> = notices
  <2>1. CASE notices = <<>>
    BY <2>1, ConcatEmptySeq
  <2>2. ASSUME NEW x, notices = <<x>> PROVE notices \o <<>> = notices
    <3>1. notices \in Seq({x})
      BY <2>2
    <3> QED BY <3>1, ConcatEmptySeq
  <2> QED BY <2>1, <2>2
<1>6. Fold(f, e, replay) = [result EXCEPT !.notices = @ \o <<>>]
  BY <1>2, <1>4
<1> QED BY <1>3, <1>5, <1>6 DEF e

LEMMA Pair ==
    ASSUME NEW x, NEW y
    PROVE  <<x>> \o <<y>> = <<x, y>>
<1> DEFINE T == {x, y}
           a == <<x>>
           z == <<y>>
           p == <<x, y>>
<1>1. a \in Seq(T) /\ z \in Seq(T) /\ p \in Seq(T)
  OBVIOUS
<1>2. Len(a) = 1 /\ Len(z) = 1 /\ Len(p) = 2 /\ a[1] = x /\ z[1] = y /\ p[1] = x /\ p[2] = y
  OBVIOUS
<1> HIDE DEF T, a, z, p
<1>3. a \o z \in Seq(T) /\ Len(a \o z) = 2 /\ (a \o z)[1] = x /\ (a \o z)[2] = y
  BY <1>1, <1>2, ConcatProperties
<1>4. \A i \in 1..2 : (a \o z)[i] = p[i]
  BY <1>2, <1>3
<1>5. a \o z = p
  BY <1>1, <1>2, <1>3, <1>4, SeqEqual
<1> QED BY <1>5 DEF a, z, p

LEMMA CompletionBrings ==
    ASSUME NEW f, NEW c, NEW facts, NEW replay, NEW type, NEW fold, NEW x,
           Compacted(f, Compaction(type, c, facts), replay, facts) = Result(fold, <<x>>),
           x.kind = "completed", f.plan # Unknown
    PROVE  /\ Fold(f, Compaction(type, c, facts), replay).fold = fold
           /\ Fold(f, Compaction(type, c, facts), replay).notices
                = <<x, Notice("todos", f.plan)>>
<1> DEFINE e == Compaction(type, c, facts)
           result == Compacted(f, e, replay, facts)
           completes == \E i \in DOMAIN result.notices : result.notices[i].kind = "completed"
<1>1. e.kind = "compaction" /\ e.facts = facts
  BY DEF Compaction
<1> HIDE DEF e
<1>2. Fold(f, e, replay)
        = [result EXCEPT !.notices = @ \o IF completes /\ f.plan # Unknown
                                          THEN <<Notice("todos", f.plan)>> ELSE <<>>]
  BY <1>1 DEF Fold
<1>3. result = [fold |-> fold, notices |-> <<x>>]
  BY DEF e, Result
<1>4. completes
  <2>1. result.notices = <<x>>
    BY <1>3
  <2>2. 1 \in DOMAIN <<x>> /\ <<x>>[1] = x
    OBVIOUS
  <2> QED BY <2>1, <2>2
<1>5. Fold(f, e, replay) = [result EXCEPT !.notices = @ \o <<Notice("todos", f.plan)>>]
  BY <1>2, <1>4
<1>6. <<x>> \o <<Notice("todos", f.plan)>> = <<x, Notice("todos", f.plan)>>
  BY Pair
<1> QED BY <1>3, <1>5, <1>6 DEF e

\* Two notices
LEMMA ShownTwo ==
    ASSUME NEW s, NEW x, NEW y
    PROVE  ShowsAll(s, <<x, y>>) = Shows(Shows(s, x), y)
  BY DEF ShowsAll

\* All but the part of the compactions
LEMMA CompactionMoves ==
    ASSUME NEW f, NEW s, NEW b, NEW n, NEW n2, NEW replay, NEW f2, NEW s2, NEW c \in Compactions,
           Told(f, s, b, n, replay), n.appended \subseteq Messages,
           n2.inbox = n.inbox, n2.batch = n.batch, n2.woke = n.woke, n2.appended = n.appended,
           n2.turn = n.turn, n2.todos = n.todos, n2.plan = n.plan, n2.ran = n.ran,
           f2 \in FoldStates, f2.pending = f.pending, f2.claimed = f.claimed, f2.plan = f.plan,
           f2.commands = f.commands,
           s2 \in Views, \A y \in Blocks \ {c} : s2.blocks[y] = s.blocks[y],
           s2.retrying = s.retrying, s2.plan = s.plan, s2.todos \in {n.todos, Unknown},
           CompactionsTold(f2, s2, b, n2)
    PROVE  Told(f2, s2, b, n2, replay)
<1>1. /\ \A m \in Messages : s2.blocks[m] = s.blocks[m]
      /\ \A d \in Commands : s2.blocks[d] = s.blocks[d]
  BY TurnNoticesAssumption DEF Blocks
<1>2. MessagesTold(f2, s2, b, n2)
  BY <1>1, MessagesStayTold DEF Told
<1>3. CommandsTold(f2, s2, b, n2)
  BY <1>1, CommandsStayTold DEF Told
<1>4. StateTold(f2, s2, n2, replay)
  BY DEF Told, StateTold
<1> QED BY <1>2, <1>3, <1>4 DEF Told

\* A compaction that a command started is told by nothing.
LEMMA ManualTold ==
    ASSUME NEW f, NEW s, NEW b, NEW n, NEW n2, NEW c \in Manual, NEW to, CompactionsTold(f, s, b, n),
           SessionOK(n), n2.usage = n.usage, n2.measured \in {n.measured, n.measured \cup {c}},
           n2.compaction = [n.compaction EXCEPT ![c] = to],
           to = "open" => Compacting(n) = {} /\ n.compaction[c] = "none",
           to # "open" => c \in Compacting(n)
    PROVE  CompactionsTold(f, s, b, n2)
<1>1. /\ c \in Compactions
      /\ n.compaction \in [Compactions -> {"none", "open", "summarized", "completed", "failed"}]
      /\ n.measured \subseteq Compactions
      /\ \A d, e \in Compacting(n) : d = e
  BY TurnNoticesAssumption DEF SessionOK
<1>2. n2.compaction[c] = to /\ \A d \in Compactions \ {c} : n2.compaction[d] = n.compaction[d]
  BY <1>1
<1>3. Compacting(n) \ Manual = {} /\ Compacting(n2) \ Manual = {}
  BY <1>1, <1>2 DEF Compacting
<1>4. ~s.compacting
  BY <1>3 DEF CompactionsTold
<1>8. f.prompt = n2.usage
  BY DEF CompactionsTold
<1>5. s.blocks[c] = <<>>
  BY <1>1 DEF CompactionsTold, Compacting, Ended
<1>6. \A d \in Compactions \ Ended(n2) : s.blocks[d] = <<>>
  BY <1>2, <1>5 DEF CompactionsTold, Ended
<1>7. \A d \in (n2.measured \cap Ended(n2)) \ b.compactions :
        s.blocks[d] = IF d \in Manual THEN <<>> ELSE <<n2.compaction[d]>>
  BY <1>1, <1>2, <1>5 DEF CompactionsTold, Ended
<1> QED BY <1>3, <1>4, <1>6, <1>7, <1>8 DEF CompactionsTold

\* An automatic one, while it goes on
LEMMA OpenedTold ==
    ASSUME NEW f, NEW s, NEW b, NEW n, NEW n2, NEW f2, NEW s2, NEW c \in Compactions \ Manual,
           NEW to \in {"open", "summarized"}, CompactionsTold(f, s, b, n), SessionOK(n),
           n2.usage = n.usage, f2.prompt = f.prompt,
           n2.measured = (IF to = "open" /\ n.usage THEN n.measured \cup {c} ELSE n.measured),
           n2.compaction = [n.compaction EXCEPT ![c] = to],
           to = "open" => Compacting(n) = {} /\ n.compaction[c] = "none",
           to = "summarized" => c \in Compacting(n),
           f2.open[c] \in Opened, f2.open[c].shadowed <=> to = "summarized",
           to = "open" => (n.usage => f2.open[c].before),
           to = "summarized" => f2.open[c].before = f.open[c].before,
           s2.blocks = s.blocks,
           s2.compacting => s.compacting \/ f2.open[c].before
    PROVE  CompactionsTold(f2, s2, b, n2)
<1>1. /\ n.compaction \in [Compactions -> {"none", "open", "summarized", "completed", "failed"}]
      /\ n.measured \subseteq Compactions /\ \A d \in n.measured : n.compaction[d] # "none"
      /\ \A d, e \in Compacting(n) : d = e
  BY DEF SessionOK
<1>2. n2.compaction[c] = to /\ \A d \in Compactions \ {c} : n2.compaction[d] = n.compaction[d]
  BY <1>1
<1>3. Compacting(n) \subseteq {c} /\ (to = "summarized" => Compacting(n) = {c})
  BY <1>1
<1>4. Compacting(n2) = {c}
  BY <1>2, <1>3 DEF Compacting
<1>5. f2.prompt = n2.usage
  BY DEF CompactionsTold
<1>6. c \in n2.measured => f2.open[c].before
  <2>1. CASE to = "open"
    BY <1>1, <2>1
  <2>2. CASE to = "summarized"
    BY <1>3, <2>2 DEF CompactionsTold
  <2> QED BY <2>1, <2>2
<1>7. s2.compacting => f2.open[c].before
  <2>1. CASE to = "open"
    BY <2>1 DEF CompactionsTold
  <2>2. CASE to = "summarized"
    BY <1>3, <2>2 DEF CompactionsTold
  <2> QED BY <2>1, <2>2
<1>8. Ended(n2) = Ended(n)
  <2>1. c \notin Ended(n) /\ c \notin Ended(n2)
    BY <1>2 DEF Ended, Compacting
  <2> QED BY <1>2, <2>1 DEF Ended
<1>9. \A d \in (n2.measured \cap Ended(n2)) : d \in n.measured /\ d # c
  BY <1>2, <1>8 DEF Ended
<1>10. \A d \in (n2.measured \cap Ended(n2)) \ b.compactions :
         s2.blocks[d] = IF d \in Manual THEN <<>> ELSE <<n2.compaction[d]>>
  BY <1>1, <1>2, <1>8, <1>9 DEF CompactionsTold
<1>11. \A d \in Compactions \ Ended(n2) : s2.blocks[d] = <<>>
  BY <1>8 DEF CompactionsTold
<1>12. \A d \in Compacting(n2) \ Manual :
         /\ f2.open[d] \in Opened /\ (d \in n2.measured => f2.open[d].before)
         /\ f2.open[d].shadowed <=> n2.compaction[d] = "summarized"
  BY <1>2, <1>4, <1>6
<1>13. s2.compacting => \E d \in Compacting(n2) \ Manual : f2.open[d].before
  BY <1>4, <1>7
<1> QED BY <1>5, <1>10, <1>11, <1>12, <1>13 DEF CompactionsTold

\* and at its end, which is told unless nothing measured it
LEMMA EndedTold ==
    ASSUME NEW f, NEW s, NEW b, NEW n, NEW n2, NEW f2, NEW s2, NEW c \in Compactions \ Manual,
           NEW to \in {"completed", "failed"}, CompactionsTold(f, s, b, n), SessionOK(n),
           n2.usage = n.usage, f2.prompt = f.prompt, n2.measured = n.measured,
           n2.compaction = [n.compaction EXCEPT ![c] = to], c \in Compacting(n),
           ~s2.compacting, \A d \in Compactions \ {c} : s2.blocks[d] = s.blocks[d],
           \/ s2.blocks[c] = Append(s.blocks[c], to)
           \/ ~f.open[c].before
    PROVE  CompactionsTold(f2, s2, b, n2)
<1>1. /\ n.compaction \in [Compactions -> {"none", "open", "summarized", "completed", "failed"}]
      /\ n.measured \subseteq Compactions /\ \A d, e \in Compacting(n) : d = e
  BY DEF SessionOK
<1>2. n2.compaction[c] = to /\ \A d \in Compactions \ {c} : n2.compaction[d] = n.compaction[d]
  BY <1>1
<1>3. Compacting(n2) = {}
  BY <1>1, <1>2 DEF Compacting
<1>4. f2.prompt = n2.usage
  BY DEF CompactionsTold
<1>5. Ended(n2) = Ended(n) \cup {c} /\ c \notin Ended(n)
  BY <1>2 DEF Ended, Compacting
<1>6. c \in n.measured => s2.blocks[c] = <<to>>
  <2>1. s.blocks[c] = <<>> /\ (c \in n.measured => f.open[c].before)
    BY <1>5 DEF CompactionsTold
  <2>2. Append(<<>>, to) = <<to>>
    OBVIOUS
  <2> QED BY <2>1, <2>2
<1>7. \A d \in Compactions \ Ended(n2) : s2.blocks[d] = <<>>
  BY <1>5 DEF CompactionsTold
<1>8. \A d \in (n2.measured \cap Ended(n2)) \ b.compactions :
        s2.blocks[d] = IF d \in Manual THEN <<>> ELSE <<n2.compaction[d]>>
  BY <1>1, <1>2, <1>5, <1>6 DEF CompactionsTold
<1> QED BY <1>3, <1>4, <1>7, <1>8 DEF CompactionsTold

LEMMA CompactTold ==
    ASSUME NoticesInv, NEW c \in Compactions,
           NEW to \in {"open", "summarized", "completed", "failed"}, NEW facts \in Facts,
           Compact(c, to, facts)
    PROVE  NoticesInv'
<1> DEFINE type == CASE to = "open" -> "start" [] to = "summarized" -> "summary" [] OTHER -> to
           e == Compaction(type, c, facts)
           n == Session
           n2 == Session'
<1>1. /\ \/ to = "open" /\ compaction[c] = "none"
            /\ \A d \in Compactions : compaction[d] \notin {"open", "summarized"}
         \/ to = "summarized" /\ compaction[c] = "open"
         \/ to = "completed" /\ compaction[c] = "summarized"
         \/ to = "failed" /\ compaction[c] \in {"open", "summarized"}
      /\ measured' = (IF to = "open" /\ usage THEN measured \cup {c} ELSE measured)
      /\ compaction' = [compaction EXCEPT ![c] = to]
      /\ UNCHANGED <<inbox, batch, woke, appended, turn, usage, todos, plan, ran>>
  BY DEF Compact
<1>2. Happens(e)
  BY DEF Compact
<1>3. /\ e.kind = "compaction" /\ e.type = type /\ e.of = c
  BY DEF Compaction
<1>4. /\ SessionOK(n) /\ n.compaction = compaction
      /\ n2.inbox = n.inbox /\ n2.batch = n.batch /\ n2.appended = n.appended
      /\ n2.woke = n.woke /\ n2.turn = n.turn /\ n2.ran = n.ran
      /\ n2.usage = n.usage /\ n2.todos = n.todos /\ n2.plan = n.plan
      /\ n2.measured = (IF to = "open" /\ n.usage THEN n.measured \cup {c} ELSE n.measured)
      /\ n2.compaction = [n.compaction EXCEPT ![c] = to]
  BY <1>1, Fields DEF NoticesInv
<1> HIDE DEF n, n2
<1>5. /\ to = "open" => Compacting(n) = {} /\ n.compaction[c] = "none"
      /\ to # "open" => c \in Compacting(n)
      /\ to = "completed" => n.compaction[c] = "summarized"
  BY <1>1, <1>4 DEF Compacting
<1>6. SessionOK(n2)
  <2>1. /\ n.compaction \in [Compactions -> {"none", "open", "summarized", "completed", "failed"}]
        /\ n.measured \subseteq Compactions /\ \A d \in n.measured : n.compaction[d] # "none"
        /\ \A d, g \in Compacting(n) : d = g
    BY <1>4 DEF SessionOK
  <2>2. n2.compaction \in [Compactions -> {"none", "open", "summarized", "completed", "failed"}]
    BY <1>4, <2>1
  <2>3. n2.compaction[c] = to /\ \A d \in Compactions \ {c} : n2.compaction[d] = n.compaction[d]
    BY <1>4, <2>1
  <2>4. \A d, g \in Compacting(n2) : d = g
    <3>1. Compacting(n) \subseteq {c}
      BY <1>5, <2>1
    <3> QED BY <2>3, <3>1 DEF Compacting
  <2>5. n2.measured \subseteq Compactions /\ \A d \in n2.measured : n2.compaction[d] # "none"
    BY <1>4, <2>1, <2>3
  <2> QED BY <1>4, <2>2, <2>4, <2>5 DEF SessionOK
<1>7. ASSUME NEW f, NEW s, NEW b, NEW replay, Told(f, s, b, n, replay)
      PROVE  Told(Fold(f, e, replay).fold, ShowsAll(s, Fold(f, e, replay).notices), b, n2, replay)
  <2> DEFINE f2 == Fold(f, e, replay).fold
             s2 == ShowsAll(s, Fold(f, e, replay).notices)
             done == [f EXCEPT !.open[c] = Unknown]
             used == f.prompt \/ (~replay /\ facts.native)
             begun == [f EXCEPT !.open[c] = [before |-> used, shadowed |-> FALSE]]
             noted == [f EXCEPT !.open[c].shadowed = TRUE]
  <2>1. /\ f \in FoldStates /\ s \in Views /\ c \in Blocks /\ CompactionsTold(f, s, b, n)
        /\ n.appended \subseteq Messages
    BY <1>4, <1>7 DEF Told, SessionOK, Blocks
  <2>2. CASE c \in Manual
    <3>1. Compacted(f, e, replay, facts) = Result(f, <<>>)
      BY <1>3, <2>2 DEF Compacted
    <3>2. f2 = f /\ Fold(f, e, replay).notices = <<>>
      BY <3>1, CompactionBrings
    <3>3. s2 = s
      BY <3>2, ShownOne
    <3> HIDE DEF f2, s2, e
    <3>4. CompactionsTold(f, s, b, n2)
      BY <1>4, <1>5, <2>1, <2>2, ManualTold
    <3>5. s.todos \in {n.todos, Unknown}
      BY <1>7 DEF Told, StateTold
    <3>6. Told(f, s, b, n2, replay)
      BY <1>4, <1>7, <2>1, <3>4, <3>5, CompactionMoves
    <3> QED BY <3>2, <3>3, <3>6 DEF f2, s2
  <2>3. CASE c \notin Manual /\ to = "open"
    <3> DEFINE shown == ~replay /\ used /\ facts.window
    <3>1. Compacted(f, e, replay, facts)
            = Result(begun, IF shown THEN <<Notice("compacting", c)>> ELSE <<>>)
      BY <1>3, <2>3 DEF Compacted
    <3>2. f2 = begun /\ s2 = IF shown THEN [s EXCEPT !.compacting = TRUE] ELSE s
      <4> DEFINE x == Notice("compacting", c)
      <4>1. x.kind # "completed" /\ Shows(s, x) = [s EXCEPT !.compacting = TRUE]
        BY DEF Notice, Shows
      <4> HIDE DEF x, begun, shown
      <4>2. CASE shown
        <5>1. Compacted(f, e, replay, facts) = Result(begun, <<x>>)
          BY <3>1, <4>2 DEF x
        <5>2. Fold(f, e, replay).fold = begun /\ Fold(f, e, replay).notices = <<x>>
          BY <4>1, <5>1, CompactionBrings
        <5>3. ShowsAll(s, <<x>>) = [s EXCEPT !.compacting = TRUE]
          BY <4>1, ShownOne
        <5> HIDE DEF e
        <5> QED BY <4>2, <5>2, <5>3
      <4>3. CASE ~shown
        <5>1. Compacted(f, e, replay, facts) = Result(begun, <<>>)
          BY <3>1, <4>3
        <5>2. Fold(f, e, replay).fold = begun /\ Fold(f, e, replay).notices = <<>>
          BY <5>1, CompactionBrings
        <5> HIDE DEF e
        <5> QED BY <4>3, <5>2, ShownOne
      <4> QED BY <4>2, <4>3
    <3> HIDE DEF f2, s2, e
    <3>3. used \in BOOLEAN /\ (n.usage => used)
      BY <2>1 DEF CompactionsTold, FoldStates, Facts
    <3> HIDE DEF used
    <3>4. [before |-> used, shadowed |-> FALSE] \in Opened
      BY <3>3 DEF Opened
    <3>5. /\ f2 \in FoldStates /\ f2.pending = f.pending /\ f2.claimed = f.claimed
          /\ f2.prompt = f.prompt /\ f2.plan = f.plan /\ f2.commands = f.commands
          /\ f2.open[c] = [before |-> used, shadowed |-> FALSE]
      BY <2>1, <3>2, <3>4 DEF FoldStates
    <3>6. /\ s2 \in Views /\ s2.blocks = s.blocks /\ s2.retrying = s.retrying
          /\ s2.todos = s.todos /\ s2.plan = s.plan /\ (s2.compacting => s.compacting \/ used)
      BY <2>1, <3>2 DEF Views
    <3>7. /\ f2.open[c] \in Opened /\ f2.open[c].before = used
          /\ (f2.open[c].shadowed <=> to = "summarized")
      BY <2>3, <3>4, <3>5
    <3>8. CompactionsTold(f2, s2, b, n2)
      BY <1>4, <1>5, <2>1, <2>3, <3>3, <3>5, <3>6, <3>7, OpenedTold
    <3>9. s2.todos \in {n.todos, Unknown}
      BY <1>7, <3>6 DEF Told, StateTold
    <3>10. Told(f2, s2, b, n2, replay)
      BY <1>4, <1>7, <2>1, <3>5, <3>6, <3>8, <3>9, CompactionMoves
    <3> QED BY <3>10 DEF f2, s2
  <2>4. CASE c \notin Manual /\ to = "summarized"
    <3>1. f.open[c] \in Opened /\ f.open[c] # Unknown
      BY <1>5, <2>1, <2>4, TurnNoticesAssumption DEF CompactionsTold, Opened
    <3>2. Compacted(f, e, replay, facts) = Result(noted, <<>>)
      BY <1>3, <2>4, <3>1 DEF Compacted
    <3>3. f2 = noted /\ Fold(f, e, replay).notices = <<>>
      BY <3>2, CompactionBrings
    <3>4. s2 = s
      BY <3>3, ShownOne
    <3> HIDE DEF f2, s2, e
    <3>5. /\ f2 \in FoldStates /\ f2.pending = f.pending /\ f2.claimed = f.claimed
          /\ f2.prompt = f.prompt /\ f2.plan = f.plan /\ f2.commands = f.commands
          /\ f2.open[c] = [f.open[c] EXCEPT !.shadowed = TRUE]
      BY <2>1, <3>1, <3>3 DEF FoldStates, Opened
    <3>6. /\ f2.open[c] \in Opened /\ f2.open[c].before = f.open[c].before
          /\ (f2.open[c].shadowed <=> to = "summarized")
      BY <2>4, <3>1, <3>5 DEF Opened
    <3>7. CompactionsTold(f2, s, b, n2)
      BY <1>4, <1>5, <2>1, <2>4, <3>5, <3>6, OpenedTold
    <3>8. s.todos \in {n.todos, Unknown}
      BY <1>7 DEF Told, StateTold
    <3>9. Told(f2, s, b, n2, replay)
      BY <1>4, <1>7, <2>1, <3>5, <3>7, <3>8, CompactionMoves
    <3> QED BY <3>4, <3>9 DEF f2, s2
  <2>5. CASE c \notin Manual /\ to = "failed"
    <3> DEFINE x == Notice("failed", c)
               shown == [s EXCEPT !.blocks[c] = Append(@, "failed"), !.compacting = FALSE]
    <3>1. Compacted(f, e, replay, facts) = Result(done, <<x>>)
      BY <1>3, <2>5 DEF Compacted
    <3>2. x.kind # "completed" /\ Shows(s, x) = shown
      BY <2>1 DEF Notice, Shows, Views
    <3> HIDE DEF x
    <3>3. f2 = done /\ Fold(f, e, replay).notices = <<x>>
      BY <3>1, <3>2, CompactionBrings
    <3>4. s2 = shown
      <4> HIDE DEF shown, done, e
      <4> QED BY <3>2, <3>3, ShownOne
    <3> HIDE DEF f2, s2, e
    <3>5. /\ f2 \in FoldStates /\ f2.pending = f.pending /\ f2.claimed = f.claimed
          /\ f2.prompt = f.prompt /\ f2.plan = f.plan /\ f2.commands = f.commands
      BY <2>1, <3>3 DEF FoldStates
    <3>6. Append(s.blocks[c], "failed") \in Seq(NoticeKinds)
      BY <2>1 DEF Views, NoticeKinds
    <3>7. /\ s2 \in Views /\ s2.blocks[c] = Append(s.blocks[c], to)
          /\ \A y \in Blocks \ {c} : s2.blocks[y] = s.blocks[y]
          /\ s2.retrying = s.retrying /\ s2.todos = s.todos /\ s2.plan = s.plan
          /\ ~s2.compacting
      BY <2>1, <2>5, <3>4, <3>6 DEF Views
    <3>8. \A d \in Compactions \ {c} : s2.blocks[d] = s.blocks[d]
      BY <3>7 DEF Blocks
    <3>9. CompactionsTold(f2, s2, b, n2)
      BY <1>4, <1>5, <2>1, <2>5, <3>5, <3>7, <3>8, EndedTold
    <3>10. s2.todos \in {n.todos, Unknown}
      BY <1>7, <3>7 DEF Told, StateTold
    <3>11. Told(f2, s2, b, n2, replay)
      BY <1>4, <1>7, <2>1, <3>5, <3>7, <3>9, <3>10, CompactionMoves
    <3> QED BY <3>11 DEF f2, s2
  <2>6. CASE c \notin Manual /\ to = "completed"
    <3> DEFINE x == Notice("completed", c)
               shown == [s EXCEPT !.blocks[c] = Append(@, "completed"), !.compacting = FALSE,
                                  !.todos = 0]
               after == f.open[c].before \/ (~replay /\ facts.native)
    <3>1. f.open[c] \in Opened /\ f.open[c] # Unknown /\ f.open[c].shadowed
      BY <1>5, <2>1, <2>6, TurnNoticesAssumption DEF CompactionsTold, Opened
    <3>2. Compacted(f, e, replay, facts) = Result(done, IF after THEN <<x>> ELSE <<>>)
      BY <1>3, <2>6, <3>1 DEF Compacted
    <3>3. /\ x.kind = "completed" /\ Shows(s, x) = shown
          /\ Shows(shown, Notice("todos", f.plan)) = [shown EXCEPT !.todos = f.plan]
      BY <2>1 DEF Notice, Shows, Views
    <3>4. /\ f2 = done
          /\ s2 = IF ~after THEN s
                  ELSE IF f.plan = Unknown THEN shown ELSE [shown EXCEPT !.todos = f.plan]
      <4> HIDE DEF x, done, after, shown
      <4>1. CASE ~after
        <5>1. Compacted(f, e, replay, facts) = Result(done, <<>>)
          BY <3>2, <4>1
        <5>2. Fold(f, e, replay).fold = done /\ Fold(f, e, replay).notices = <<>>
          BY <5>1, CompactionBrings
        <5> HIDE DEF e
        <5> QED BY <4>1, <5>2, ShownOne
      <4>2. CASE after /\ f.plan = Unknown
        <5>1. Compacted(f, e, replay, facts) = Result(done, <<x>>)
          BY <3>2, <4>2
        <5>2. Fold(f, e, replay).fold = done /\ Fold(f, e, replay).notices = <<x>>
          BY <4>2, <5>1, CompactionBrings
        <5>3. ShowsAll(s, <<x>>) = shown
          BY <3>3, ShownOne
        <5> HIDE DEF e
        <5> QED BY <4>2, <5>2, <5>3
      <4>3. CASE after /\ f.plan # Unknown
        <5> DEFINE y == Notice("todos", f.plan)
        <5>1. Compacted(f, e, replay, facts) = Result(done, <<x>>)
          BY <3>2, <4>3
        <5>2. Fold(f, e, replay).fold = done /\ Fold(f, e, replay).notices = <<x, y>>
          BY <3>3, <4>3, <5>1, CompletionBrings
        <5>3. ShowsAll(s, <<x, y>>) = [shown EXCEPT !.todos = f.plan]
          BY <3>3, ShownTwo
        <5> HIDE DEF e, y
        <5> QED BY <4>3, <5>2, <5>3
      <4> QED BY <4>1, <4>2, <4>3
    <3> HIDE DEF f2, s2, e
    <3>5. /\ f2 \in FoldStates /\ f2.pending = f.pending /\ f2.claimed = f.claimed
          /\ f2.prompt = f.prompt /\ f2.plan = f.plan /\ f2.commands = f.commands
      BY <2>1, <3>4 DEF FoldStates
    <3>6. Append(s.blocks[c], "completed") \in Seq(NoticeKinds)
      BY <2>1 DEF Views, NoticeKinds
    <3>7. /\ f.plan \in Nat \cup {Unknown} /\ s.todos \in {n.todos, Unknown}
          /\ f.plan = n.todos \/ (f.plan = Unknown /\ n.todos = 0)
      BY <1>7 DEF Told, StateTold, FoldStates
    <3>8. /\ s2 \in Views /\ \A y \in Blocks \ {c} : s2.blocks[y] = s.blocks[y]
          /\ s2.retrying = s.retrying /\ s2.plan = s.plan /\ s2.todos \in {n.todos, Unknown}
          /\ after => s2.blocks[c] = Append(s.blocks[c], to) /\ ~s2.compacting
      <4>4. /\ shown \in Views /\ shown.blocks[c] = Append(s.blocks[c], "completed")
            /\ \A y \in Blocks \ {c} : shown.blocks[y] = s.blocks[y]
            /\ shown.retrying = s.retrying /\ shown.plan = s.plan /\ shown.todos = 0
            /\ ~shown.compacting
        BY <2>1, <3>6 DEF Views
      <4> HIDE DEF shown, after
      <4>1. CASE ~after
        BY <2>1, <3>4, <3>7, <4>1
      <4>2. CASE after /\ f.plan = Unknown
        <5>1. s2 = shown /\ n.todos = 0
          BY <1>4, <3>4, <3>7, <4>2, TurnNoticesAssumption DEF SessionOK
        <5> QED BY <2>6, <4>4, <5>1
      <4>3. CASE after /\ f.plan # Unknown
        <5>1. s2 = [shown EXCEPT !.todos = f.plan] /\ f.plan = n.todos
          BY <3>4, <3>7, <4>3
        <5>2. /\ s2 \in Views /\ s2.blocks = shown.blocks /\ s2.todos = f.plan
              /\ s2.retrying = shown.retrying /\ s2.plan = shown.plan
              /\ s2.compacting = shown.compacting
          BY <3>7, <4>4, <5>1 DEF Views
        <5> QED BY <2>6, <4>4, <5>1, <5>2
      <4> QED BY <4>1, <4>2, <4>3
    <3>9. ~s2.compacting
      <4>1. CASE after
        BY <3>8, <4>1
      <4>2. CASE ~after
        <5>1. \A d \in Compacting(n) : d = c
          BY <1>4, <1>5, <2>6 DEF SessionOK
        <5>2. ~s.compacting
          BY <2>1, <4>2, <5>1 DEF CompactionsTold
        <5> QED BY <3>4, <4>2, <5>2
      <4> QED BY <4>1, <4>2
    <3>10. \A d \in Compactions \ {c} : s2.blocks[d] = s.blocks[d]
      BY <3>8 DEF Blocks
    <3>11. CompactionsTold(f2, s2, b, n2)
      BY <1>4, <1>5, <2>1, <2>6, <3>5, <3>8, <3>9, <3>10, EndedTold
    <3>12. Told(f2, s2, b, n2, replay)
      BY <1>4, <1>7, <2>1, <3>5, <3>8, <3>11, CompactionMoves
    <3> QED BY <3>12 DEF f2, s2
  <2> QED BY <2>2, <2>3, <2>4, <2>5, <2>6
<1> HIDE DEF e
<1>8. e.kind # "turnEnd"
  BY <1>3
<1> QED BY <1>2, <1>6, <1>7, <1>8, EventTold DEF n, n2

\* A load shows what the replay tells, or nothing of what was before it.
LEMMA LoadTold ==
    ASSUME NoticesInv, NEW drawn \in BOOLEAN, LoadAgain(drawn)
    PROVE  NoticesInv'
<1> DEFINE n == Session
           n2 == Session'
<1>1. /\ output' = cold /\ view' = (IF drawn THEN archive ELSE Blank)
      /\ unseen' = (IF drawn THEN NothingUnseen
                    ELSE [messages |-> appended,
                          compactions |-> {c \in Compactions : compaction[c] \in {"completed", "failed"}},
                          commands |-> {c \in Commands : ran[c] = "done"}])
      /\ cold' = cold /\ archive' = archive
  BY DEF LoadAgain
<1>2. /\ n2.inbox = n.inbox /\ n2.batch = {} /\ n2.appended = n.appended
      /\ n2.woke = n.woke /\ n2.turn = "idle" /\ n2.ran = n.ran
      /\ n2.usage = n.usage /\ n2.todos = n.todos /\ n2.plan = n.plan
      /\ n2.measured = n.measured /\ n2.compaction = n.compaction
      /\ n.appended = appended /\ n.compaction = compaction /\ n.ran = ran
  BY Fields DEF LoadAgain
<1>3. SessionOK(n) /\ Told(cold, archive, NothingUnseen, n, TRUE)
  BY DEF NoticesInv
<1> HIDE DEF n, n2
<1>4. SessionOK(n2)
  BY <1>2, <1>3 DEF SessionOK, Compacting
<1>5. ASSUME NEW replay PROVE Told(cold, archive, NothingUnseen, n2, replay)
  <2>1. MessagesTold(cold, archive, NothingUnseen, n2)
    BY <1>2, <1>3 DEF Told, MessagesTold
  <2>2. CompactionsTold(cold, archive, NothingUnseen, n2)
    BY <1>2, <1>3, CompactionsStayTold DEF Told
  <2>3. CommandsTold(cold, archive, NothingUnseen, n2)
    BY <1>2, <1>3, CommandsStayTold DEF Told
  <2>4. StateTold(cold, archive, n2, replay)
    BY <1>2, <1>3 DEF Told, StateTold
  <2> QED BY <1>3, <2>1, <2>2, <2>3, <2>4 DEF Told
<1>6. ASSUME ~drawn PROVE Told(cold, Blank, unseen', n2, FALSE)
  <2>1. /\ Blank \in Views /\ \A y \in Blocks : Blank.blocks[y] = <<>>
        /\ ~Blank.retrying /\ ~Blank.compacting /\ Blank.todos = Unknown /\ Blank.plan = Unknown
    BY DEF Blank, Views, Blocks
  <2>2. /\ unseen'.messages = n2.appended /\ unseen'.compactions = Ended(n2)
        /\ unseen'.commands = {c \in Commands : n2.ran[c] = "done"}
    BY <1>1, <1>2, <1>6 DEF Ended
  <2> HIDE DEF n2
  <2>3. MessagesTold(cold, Blank, unseen', n2)
    BY <1>5, <2>1, <2>2 DEF Told, MessagesTold, Blocks
  <2>4. CompactionsTold(cold, Blank, unseen', n2)
    <3>1. CompactionsTold(cold, archive, NothingUnseen, n2)
      BY <1>5 DEF Told
    <3>2. \A c \in Compactions : Blank.blocks[c] = <<>>
      BY <2>1 DEF Blocks
    <3>3. (n2.measured \cap Ended(n2)) \ unseen'.compactions = {}
      BY <2>2
    <3> QED BY <2>1, <3>1, <3>2, <3>3 DEF CompactionsTold
  <2>5. CommandsTold(cold, Blank, unseen', n2)
    <3>1. CommandsTold(cold, archive, NothingUnseen, n2)
      BY <1>5 DEF Told
    <3>2. \A c \in Commands : Blank.blocks[c] = <<>>
      BY <2>1 DEF Blocks
    <3>3. \A c \in Commands \ unseen'.commands : n2.ran[c] # "done"
      BY <2>2
    <3> QED BY <3>1, <3>2, <3>3 DEF CommandsTold
  <2>6. StateTold(cold, Blank, n2, FALSE)
    BY <1>5, <2>1 DEF Told, StateTold
  <2> QED BY <1>5, <2>1, <2>3, <2>4, <2>5, <2>6 DEF Told
<1>7. Told(output', view', unseen', n2, FALSE)
  <2>1. CASE drawn
    BY <1>1, <1>5, <2>1
  <2>2. CASE ~drawn
    BY <1>1, <1>6, <2>2
  <2> QED BY <2>1, <2>2
<1>8. Told(cold', archive', NothingUnseen, n2, TRUE)
  BY <1>1, <1>5
<1> QED BY <1>4, <1>7, <1>8 DEF NoticesInv, n2

\* Nothing happens
LEMMA NoticesStand ==
    ASSUME NoticesInv, UNCHANGED noticesVars
    PROVE  NoticesInv'
<1>1. /\ Session' = Session /\ output' = output /\ cold' = cold /\ view' = view
      /\ archive' = archive /\ unseen' = unseen
  BY DEF noticesVars, noticesNative, Session
<1>2. SessionOK(Session') /\ Told(output', view', unseen', Session', FALSE)
      /\ Told(cold', archive', NothingUnseen, Session', TRUE)
  <2>1. SessionOK(Session) /\ Told(output, view, unseen, Session, FALSE)
        /\ Told(cold, archive, NothingUnseen, Session, TRUE)
    BY DEF NoticesInv
  <2> QED BY <1>1, <2>1, Zenon
<1> QED BY <1>2 DEF NoticesInv

LEMMA NoticesStep ==
    ASSUME NoticesInv, [NextNotices]_noticesVars
    PROVE  NoticesInv'
<1>1. ASSUME NEW m \in Messages, NEW start \in 0..Cardinality(Messages), QueueMessage(m, start)
      PROVE  NoticesInv'
  BY <1>1, QueueTold
<1>2. ASSUME NEW i \in 1..Cardinality(Messages), CancelMessage(i) \/ ClaimTurn(i)
      PROVE  NoticesInv'
  <2>1. CASE CancelMessage(i)
    <3>1. i \in Nat
      BY <1>2, <2>1, Placed, LenProperties DEF CancelMessage
    <3> QED BY <2>1, <3>1, CancelTold
  <2>2. CASE ClaimTurn(i)
    <3>1. i \in Nat
      BY <1>2, <2>2, Placed, LenProperties DEF ClaimTurn
    <3> QED BY <2>2, <3>1, ClaimTold
  <2> QED BY <1>2, <2>1, <2>2
<1>3. ASSUME NEW m \in Messages, ReturnClaim(m) \/ AppendMessage(m) \/ Inject(m)
      PROVE  NoticesInv'
  BY <1>3, ReturnTold, MessageTold
<1>4. ASSUME StartTurn PROVE NoticesInv'
  BY <1>4, StartTurnTold
<1>5. ASSUME NEW failed \in BOOLEAN, EndTurn(failed) PROVE NoticesInv'
  BY <1>5, EndTurnTold
<1>6. ASSUME ReportUsage \/ Retry \/ WriteTodos \/ SelectMode PROVE NoticesInv'
  BY <1>6, ReportUsageTold, RetryTold, WriteTodosTold, SelectModeTold
<1>7. ASSUME NEW c \in Compactions, NEW to \in {"open", "summarized", "completed", "failed"},
             NEW facts \in Facts, Compact(c, to, facts)
      PROVE  NoticesInv'
  BY <1>7, CompactTold
<1>8. ASSUME NEW c \in Commands, RunCommand(c) PROVE NoticesInv'
  BY <1>8, RunCommandTold
<1>9. ASSUME NEW drawn \in BOOLEAN, LoadAgain(drawn) PROVE NoticesInv'
  BY <1>9, LoadTold
<1>10. CASE UNCHANGED noticesVars
  BY <1>10, NoticesStand
<1> QED BY <1>1, <1>2, <1>3, <1>4, <1>5, <1>6, <1>7, <1>8, <1>9, <1>10 DEF NextNotices

\* A client that has followed a session, one that loaded it on the way and one
\* that loads it now are told the same and the truth of its messages,
\* compactions, commands, todos, modes and retries.
THEOREM NoticesTellTheTruth == NoticesSteps => []NoticesTrue
<1>1. InitNotices => NoticesInv
  BY NoticesStart
<1>2. NoticesInv /\ [NextNotices]_noticesVars => NoticesInv'
  BY NoticesStep
<1>3. NoticesInv => NoticesTrue
  BY NoticesFollow
<1> QED BY <1>1, <1>2, <1>3, PTL DEF NoticesSteps

-----------------------------------------------------------------------------
(* Session output: what the agent keeps *)
\* What the agent keeps and streams
Makers == Attempts \cup {NoAttempt}
AgentEvents == [kind : Kinds, step : Nat, of : Makers, chunks : Nat]
StreamFrames == [type : {"start", "chunk", "end"}, of : Makers, step : Nat, i : Nat]
AgentTyped ==
    /\ log \in Seq(AgentEvents) /\ frames \in Seq(StreamFrames)
    /\ step \in Nat /\ attempt \in Makers /\ due \in Nat

-----------------------------------------------------------------------------
(* What an event says *)

\* The text of a settlement when none of it was streamed
TextsTo(event, totals, n) == [i \in 1..n |-> Text(event.of, i, totals)]

\* The texts of a settlement grow one by one.
LEMMA TextsGrow ==
    ASSUME NEW event, NEW totals, NEW n \in Nat, n # 0
    PROVE  /\ TextsTo(event, totals, 0) = <<>>
           /\ TextsTo(event, totals, n) =
                Append(TextsTo(event, totals, n - 1), Text(event.of, n, totals))
           /\ TextsTo(event, totals, n) # <<>>
<1> DEFINE T == {Text(event.of, i, totals) : i \in 1..n}
           a == TextsTo(event, totals, n - 1)
           x == Text(event.of, n, totals)
           q == TextsTo(event, totals, n)
<1>1. a \in Seq(T) /\ Len(a) = n - 1 /\ \A i \in 1..n - 1 : a[i] = Text(event.of, i, totals)
  BY DEF TextsTo
<1>2. q \in Seq(T) /\ Len(q) = n /\ \A i \in 1..n : q[i] = Text(event.of, i, totals)
  BY DEF TextsTo
<1>3. x \in T
  OBVIOUS
<1>4. TextsTo(event, totals, 0) = <<>>
  BY DEF TextsTo
<1> HIDE DEF T, a, q
<1>5. Append(a, x) \in Seq(T) /\ Len(Append(a, x)) = n /\ Append(a, x)[n] = x
      /\ \A i \in 1..n - 1 : Append(a, x)[i] = a[i]
  BY <1>1, <1>3, AppendProperties
<1>6. \A i \in 1..n : i = n \/ i \in 1..n - 1
  OBVIOUS
<1>7. \A i \in 1..n : q[i] = Append(a, x)[i]
  BY <1>1, <1>2, <1>5, <1>6
<1>8. q = Append(a, x)
  BY <1>2, <1>5, <1>7, SeqEqual
<1>9. q # <<>>
  BY <1>2
<1> QED BY <1>4, <1>8, <1>9 DEF a, q

\* A settlement says its texts, or brings the totals if all was streamed.
LEMMA SettlementSays ==
    ASSUME NEW event, event.chunks \in Nat, NEW seq, NEW totals
    PROVE  /\ Settlement(event, seq, {}, totals) =
                IF event.chunks = 0 THEN <<Item("meter", seq, 0, totals)>>
                ELSE TextsTo(event, totals, event.chunks)
           /\ Settlement(event, seq, 1..event.chunks, totals) = <<Item("meter", seq, 0, totals)>>
<1> DEFINE N == event.chunks
           meter == <<Item("meter", seq, 0, totals)>>
           x(i) == Text(event.of, i, totals)
           next(f, delivered) ==
             [i \in 0..N |-> IF i = 0 THEN <<>> ELSE IF i \in delivered THEN f[i - 1]
                             ELSE Append(f[i - 1], x(i))]
           F(delivered) == CHOOSE f : f = next(f, delivered)
<1>1. \A delivered : Settlement(event, seq, delivered, totals) =
           IF F(delivered)[N] # <<>> THEN F(delivered)[N] ELSE meter
  BY DEF Settlement
<1>2. F({})[N] = TextsTo(event, totals, N)
  <2> DEFINE g == [n \in 0..N |-> TextsTo(event, totals, n)]
             f == F({})
  <2>1. g = next(g, {})
    <3>1. ASSUME NEW i \in 0..N
          PROVE  g[i] = IF i = 0 THEN <<>> ELSE Append(g[i - 1], x(i))
      <4>1. CASE i = 0
        <5>1. TextsTo(event, totals, 0) = <<>>
          BY DEF TextsTo
        <5> QED BY <4>1, <5>1
      <4>2. CASE i # 0
        <5>1. i - 1 \in 0..N /\ i \in Nat
          BY <4>2
        <5>2. TextsTo(event, totals, i) = Append(TextsTo(event, totals, i - 1), x(i))
          BY <4>2, <5>1, TextsGrow
        <5> QED BY <4>2, <5>1, <5>2
      <4> QED BY <4>1, <4>2
    <3> QED BY <3>1
  <2>2. f = next(f, {})
    BY <2>1
  <2> HIDE DEF f, g
  <2> DEFINE T == {n \in 0..N : f[n] = TextsTo(event, totals, n)}
  <2>3. 0 \in T
    <3>1. TextsTo(event, totals, 0) = <<>>
      BY DEF TextsTo
    <3>2. f[0] = <<>>
      BY <2>2
    <3> QED BY <3>1, <3>2
  <2>4. ASSUME NEW n \in 1..N, n - 1 \in T PROVE n \in T
    <3>1. f[n] = Append(f[n - 1], x(n))
      BY <2>2
    <3>2. TextsTo(event, totals, n) = Append(TextsTo(event, totals, n - 1), x(n))
      BY TextsGrow
    <3>3. f[n - 1] = TextsTo(event, totals, n - 1)
      BY <2>4
    <3>4. f[n] = TextsTo(event, totals, n)
      BY <3>1, <3>2, <3>3
    <3> QED BY <3>4
  <2> HIDE DEF T
  <2>5. N \in T
    <3>1. N \in 0..N
      OBVIOUS
    <3> QED BY <2>3, <2>4, <3>1, UpTo
  <2> QED BY <2>5 DEF T, f
<1>3. F(1..N)[N] = <<>>
  <2> DEFINE g == [n \in 0..N |-> <<>>]
             f == F(1..N)
  <2>1. g = next(g, 1..N)
    <3>1. ASSUME NEW i \in 0..N
          PROVE  g[i] = IF i = 0 THEN <<>> ELSE IF i \in 1..N THEN g[i - 1] ELSE Append(g[i - 1], x(i))
      OBVIOUS
    <3> QED BY <3>1
  <2>2. f = next(f, 1..N)
    BY <2>1
  <2> HIDE DEF f, g
  <2> DEFINE T == {n \in 0..N : f[n] = <<>>}
  <2>3. 0 \in T
    BY <2>2
  <2>4. ASSUME NEW n \in 1..N, n - 1 \in T PROVE n \in T
    BY <2>2, <2>4
  <2> HIDE DEF T
  <2>5. N \in T
    <3>1. N \in 0..N
      OBVIOUS
    <3> QED BY <2>3, <2>4, <3>1, UpTo
  <2> QED BY <2>5 DEF T, f
<1> HIDE DEF F, meter
<1>4. N = 0 => TextsTo(event, totals, N) = <<>>
  BY DEF TextsTo
<1>5. N # 0 => TextsTo(event, totals, N) # <<>>
  BY TextsGrow
<1> QED BY <1>1, <1>2, <1>3, <1>4, <1>5 DEF meter

-----------------------------------------------------------------------------
(* What an event brings *)

\* What the client may be sent, and updates of one kind that go on.
Things == [kind : {"event", "text", "meter"}, of : Makers \cup Nat, i : Nat, meters : SUBSET Nat]
OneByOne(items) ==
    \A i, j \in DOMAIN items :
        i < j => /\ items[i].kind = items[j].kind /\ items[i].kind # "meter"
                 /\ items[i].of = items[j].of /\ items[i].i < items[j].i

\* An update is what it was made of.
LEMMA ItemOf ==
    ASSUME NEW kind \in {"event", "text", "meter"}, NEW of \in Makers \cup Nat, NEW n \in Nat,
           NEW totals \in SUBSET Nat
    PROVE  LET x == Item(kind, of, n, totals)
           IN  /\ x \in Things /\ x.kind = kind /\ x.of = of /\ x.i = n /\ x.meters = totals
               /\ Identity(x) = <<kind, of, n>>
  BY DEF Item, Things, Identity

\* A single update, as a sequence.
LEMMA OneItem ==
    ASSUME NEW x
    PROVE  /\ <<x>> \in Seq({x}) /\ Len(<<x>>) = 1 /\ <<x>>[1] = x /\ DOMAIN <<x>> = 1..1
           /\ x \in Things => <<x>> \in Seq(Things)
           /\ OneByOne(<<x>>) /\ Identities(<<x>>) = {Identity(x)}
<1>1. <<x>> \in Seq({x}) /\ Len(<<x>>) = 1 /\ <<x>>[1] = x /\ DOMAIN <<x>> = 1..1
  OBVIOUS
<1>2. x \in Things => <<x>> \in Seq(Things)
  OBVIOUS
<1>3. OneByOne(<<x>>)
  BY DEF OneByOne
<1>4. Identities(<<x>>) = {Identity(x)}
  BY <1>1 DEF Identities
<1> QED BY <1>1, <1>2, <1>3, <1>4

\* The updates of an event that settles nothing
LEMMA PlainItems ==
    ASSUME NEW event \in AgentEvents, NEW seq \in Nat \ {0}, NEW replay \in BOOLEAN,
           NEW totals \in SUBSET Nat
    PROVE  LET z == Items(event, seq, replay, {}, totals)
           IN  /\ event.kind = "prompt" => z = IF replay THEN <<Piece(seq, 1), Piece(seq, 2)>> ELSE <<>>
               /\ event.kind = "tool" => z = <<Piece(seq, 1)>>
               /\ event.kind = "aside" => z = <<Item("event", seq, 1, totals)>>
               /\ event.kind = "retry" => z = IF replay THEN <<>> ELSE <<Piece(seq, 1)>>
<1> DEFINE z == Items(event, seq, replay, {}, totals)
           p == Projected(event, seq, replay, {}, totals)
           n == Notices(event, seq, replay)
<1>1. \A x, y : <<>> \o <<x, y>> = <<x, y>> /\ <<>> \o <<x>> = <<x>> /\ <<x>> \o <<>> = <<x>>
             /\ <<>> \o <<>> = <<>>
  <2> TAKE x, y
  <2>1. <<x, y>> \in Seq({x, y}) /\ <<x>> \in Seq({x}) /\ <<>> \in Seq({x})
    OBVIOUS
  <2> QED BY <2>1, ConcatEmptySeq
<1>2. z = n \o p
  BY DEF Items
<1>3. CASE event.kind = "prompt"
  <2>1. n = <<>> /\ p = IF replay THEN <<Piece(seq, 1), Piece(seq, 2)>> ELSE <<>>
    BY <1>3 DEF Notices, Projected
  <2> QED BY <1>1, <1>2, <1>3, <2>1
<1>4. CASE event.kind = "tool"
  <2>1. n = <<>> /\ p = <<Piece(seq, 1)>>
    BY <1>4 DEF Notices, Projected
  <2> QED BY <1>1, <1>2, <1>4, <2>1
<1>5. CASE event.kind = "aside"
  <2>1. n = <<>> /\ p = <<Item("event", seq, 1, totals)>>
    BY <1>5 DEF Notices, Projected
  <2> QED BY <1>1, <1>2, <1>5, <2>1
<1>6. CASE event.kind = "retry"
  <2>1. p = <<>> /\ n = IF replay THEN <<>> ELSE <<Piece(seq, 1)>>
    BY <1>6 DEF Notices, Projected
  <2> QED BY <1>1, <1>2, <1>6, <2>1
<1> QED BY <1>3, <1>4, <1>5, <1>6

\* The updates of a settlement of which nothing, or everything, was streamed.
LEMMA SettledItems ==
    ASSUME NEW event \in AgentEvents, event.kind = "settled", NEW seq \in Nat \ {0},
           NEW replay \in BOOLEAN, NEW totals \in SUBSET Nat
    PROVE  LET meter == <<Item("meter", seq, 0, totals)>>
           IN  /\ Items(event, seq, replay, {}, totals) =
                    IF event.chunks = 0 THEN meter ELSE TextsTo(event, totals, event.chunks)
               /\ Items(event, seq, replay, 1..event.chunks, totals) = meter
<1> DEFINE meter == <<Item("meter", seq, 0, totals)>>
           q == TextsTo(event, totals, event.chunks)
<1>1. event.chunks \in Nat
  BY DEF AgentEvents
<1>2. \A delivered : Items(event, seq, replay, delivered, totals) =
                     <<>> \o Settlement(event, seq, delivered, totals)
  BY DEF Items, Notices, Projected
<1>3. /\ Settlement(event, seq, {}, totals) = IF event.chunks = 0 THEN meter ELSE q
      /\ Settlement(event, seq, 1..event.chunks, totals) = meter
  BY <1>1, SettlementSays
<1>4. q \in Seq({Text(event.of, i, totals) : i \in 1..event.chunks})
  BY <1>1 DEF TextsTo
<1>5. meter \in Seq({Item("meter", seq, 0, totals)})
  OBVIOUS
<1> HIDE DEF meter, q
<1>6. <<>> \o meter = meter /\ <<>> \o q = q
  BY <1>4, <1>5, ConcatEmptySeq
<1> QED BY <1>2, <1>3, <1>6 DEF meter, q
\* The updates of an event are of one kind and go on; what it says is in them or
\* was streamed, and the totals come with the last, if the event has any.
Conveys(event, seq, replay, z, totals) ==
    /\ z \in Seq(Things) /\ OneByOne(z)
    /\ \A k \in DOMAIN z :
         \/ z[k].kind \in {"event", "meter"} /\ z[k].of = seq
         \/ z[k].kind = "text" /\ replay /\ event.kind = "settled" /\ z[k].of = event.of
    /\ LET said == Items(event, seq, replay, {}, {})
       IN  \A k \in DOMAIN said :
             said[k].kind # "meter" =>
                \/ Identity(said[k]) \in Identities(z)
                \/ /\ ~replay /\ event.kind = "settled"
                   /\ \E i \in 1..event.chunks : Identity(said[k]) = <<"text", event.of, i>>
    /\ \/ event.kind # "settled" /\ \A k \in DOMAIN z : ~Carries(z[k])
       \/ z # <<>> /\ Carries(z[Len(z)]) /\ z[Len(z)].meters = totals

\* The updates of any event convey it, live and replayed.
LEMMA Conveyed ==
    ASSUME NEW event \in AgentEvents, NEW seq \in Nat \ {0}, NEW replay \in BOOLEAN,
           NEW delivered, NEW totals \in SUBSET (Nat \ {0}),
           \/ delivered = {} /\ (event.kind = "settled" => replay)
           \/ event.kind = "settled" /\ ~replay /\ delivered = 1..event.chunks
    PROVE  Conveys(event, seq, replay, Items(event, seq, replay, delivered, totals), totals)
<1> DEFINE z == Items(event, seq, replay, delivered, totals)
           said == Items(event, seq, replay, {}, {})
           none == {}
<1>1. none \in SUBSET Nat /\ (event.kind # "settled" => delivered = {})
  OBVIOUS
<1>2. ASSUME NEW ts \in SUBSET Nat
      PROVE  LET y == Items(event, seq, replay, {}, ts)
             IN  /\ event.kind = "prompt" => y = IF replay THEN <<Piece(seq, 1), Piece(seq, 2)>> ELSE <<>>
                 /\ event.kind = "tool" => y = <<Piece(seq, 1)>>
                 /\ event.kind = "aside" => y = <<Item("event", seq, 1, ts)>>
                 /\ event.kind = "retry" => y = IF replay THEN <<>> ELSE <<Piece(seq, 1)>>
  BY PlainItems
<1>3. totals \in SUBSET Nat
  OBVIOUS
<1>4. event.kind # "settled" => z = Items(event, seq, replay, {}, totals)
  BY <1>1
<1>5. said = Items(event, seq, replay, {}, none)
  BY DEF none
<1> SUFFICES Conveys(event, seq, replay, z, totals)
  OBVIOUS
<1> HIDE DEF none, z, said
<1>6. totals \in SUBSET Nat /\ {} \in SUBSET Nat /\ {0} \in SUBSET Nat /\ seq \in Makers \cup Nat
      /\ totals # {0} /\ 1 \in Nat /\ 2 \in Nat /\ 0 \in Nat
  OBVIOUS
<1>7. /\ Piece(seq, 1) \in Things /\ Piece(seq, 2) \in Things
      /\ ~Carries(Piece(seq, 1)) /\ ~Carries(Piece(seq, 2))
      /\ Piece(seq, 1).kind = "event" /\ Piece(seq, 1).of = seq /\ Piece(seq, 1).i = 1
      /\ Piece(seq, 2).kind = "event" /\ Piece(seq, 2).of = seq /\ Piece(seq, 2).i = 2
  BY <1>6, ItemOf DEF Piece, Carries, NoMeters
<1>8. ASSUME NEW x, z = <<x>>, x \in Things, x.kind \in {"event", "meter"}, x.of = seq,
             \/ event.kind # "settled" /\ ~Carries(x)
             \/ Carries(x) /\ x.meters = totals,
             \A k \in DOMAIN said : said[k].kind # "meter" =>
                \/ Identity(said[k]) = Identity(x)
                \/ /\ ~replay /\ event.kind = "settled"
                   /\ \E i \in 1..event.chunks : Identity(said[k]) = <<"text", event.of, i>>
      PROVE  Conveys(event, seq, replay, z, totals)
  <2>1. z \in Seq(Things) /\ OneByOne(z) /\ Identities(z) = {Identity(x)}
        /\ z # <<>> /\ z[Len(z)] = x /\ \A k \in DOMAIN z : z[k] = x
    BY <1>8, OneItem
  <2> HIDE DEF z, said
  <2> QED BY <1>8, <2>1 DEF Conveys, said
<1>9. ASSUME event.kind \in {"tool", "retry"}, z = <<Piece(seq, 1)>>, said = <<Piece(seq, 1)>>
      PROVE  Conveys(event, seq, replay, z, totals)
  <2>1. \A k \in DOMAIN said : said[k] = Piece(seq, 1)
    BY <1>9
  <2> HIDE DEF z, said
  <2> QED BY <1>7, <1>8, <1>9, <2>1
<1>10. ASSUME z = <<>>, said = <<>>, event.kind # "settled"
      PROVE  Conveys(event, seq, replay, z, totals)
  <2>1. z \in Seq(Things) /\ OneByOne(z) /\ DOMAIN z = {} /\ DOMAIN said = {}
    BY <1>10 DEF OneByOne
  <2> HIDE DEF z, said
  <2> QED BY <1>10, <2>1 DEF Conveys, said
<1>11. CASE event.kind = "tool"
  <2>1. z = <<Piece(seq, 1)>>
    BY <1>2, <1>3, <1>4, <1>11
  <2>3. said = <<Piece(seq, 1)>>
    BY <1>1, <1>2, <1>5, <1>11
  <2> QED BY <1>9, <1>11, <2>1, <2>3
<1>12. CASE event.kind = "retry"
  <2>1. z = IF replay THEN <<>> ELSE <<Piece(seq, 1)>>
    BY <1>2, <1>3, <1>4, <1>12
  <2>3. said = IF replay THEN <<>> ELSE <<Piece(seq, 1)>>
    BY <1>1, <1>2, <1>5, <1>12
  <2> QED BY <1>9, <1>10, <1>12, <2>1, <2>3
<1>13. CASE event.kind = "aside"
  <2> DEFINE x == Item("event", seq, 1, totals)
             y == Item("event", seq, 1, none)
  <2>1. z = <<x>>
    BY <1>2, <1>3, <1>4, <1>13
  <2>2. said = <<y>>
    BY <1>1, <1>2, <1>5, <1>13
  <2>3. x \in Things /\ x.kind = "event" /\ x.of = seq /\ x.meters = totals
        /\ Identity(x) = Identity(y)
    BY <1>1, <1>6, ItemOf
  <2>4. Carries(x)
    BY <1>6, <2>3 DEF Carries, NoMeters
  <2>5. \A k \in DOMAIN said : said[k] = y
    BY <2>2
  <2> HIDE DEF x, y, z, said
  <2>6. x.kind \in {"event", "meter"} /\ Carries(x) /\ x.meters = totals
    BY <2>3, <2>4
  <2>7. \A k \in DOMAIN said : Identity(said[k]) = Identity(x)
    BY <2>3, <2>5
  <2>8. event.kind # "settled" /\ x \in Things /\ x.of = seq
    BY <1>13, <2>3
  <2> QED BY <1>8, <2>1, <2>6, <2>7, <2>8
<1>14. CASE event.kind = "prompt"
  <2> DEFINE x == Piece(seq, 1)
             y == Piece(seq, 2)
  <2>1. z = IF replay THEN <<x, y>> ELSE <<>>
    BY <1>2, <1>3, <1>4, <1>14
  <2>2. said = IF replay THEN <<x, y>> ELSE <<>>
    BY <1>1, <1>2, <1>5, <1>14
  <2>3. CASE replay
    <3> HIDE DEF x, y
    <3>1. z = <<x, y>> /\ said = z
      BY <2>1, <2>2, <2>3
    <3>2. z \in Seq(Things) /\ z[1] = x /\ z[2] = y /\ DOMAIN z = {1, 2}
      BY <1>7, <3>1 DEF x, y
    <3> HIDE DEF z, said
    <3>3. OneByOne(z)
      BY <1>7, <3>2 DEF OneByOne, x, y
    <3>4. \A k \in DOMAIN z : ~Carries(z[k]) /\ z[k].kind = "event" /\ z[k].of = seq
      BY <1>7, <3>2 DEF x, y
    <3>5. \A k \in DOMAIN said : Identity(said[k]) \in Identities(z)
      BY <3>1 DEF Identities
    <3>6. z[1].kind \in {"event", "meter"} /\ \A k \in DOMAIN z : z[k].kind \in {"event", "meter"}
      BY <3>2, <3>4
    <3> QED BY <1>14, <3>2, <3>3, <3>4, <3>5, <3>6 DEF Conveys, said
  <2> QED BY <1>10, <1>14, <2>1, <2>2, <2>3
<1>15. CASE event.kind = "settled"
  <2> DEFINE N == event.chunks
             x == Item("meter", seq, 0, totals)
             y == Item("meter", seq, 0, none)
             q == TextsTo(event, totals, N)
             r == TextsTo(event, none, N)
  <2>1. N \in Nat /\ event.of \in Makers \cup Nat
    BY DEF AgentEvents
  <2>2. said = (IF N = 0 THEN <<y>> ELSE r)
        /\ z = IF delivered = 1..N \/ N = 0 THEN <<x>> ELSE q
    <3>1. /\ Items(event, seq, replay, {}, totals) = IF N = 0 THEN <<x>> ELSE q
          /\ Items(event, seq, replay, 1..N, totals) = <<x>>
      BY <1>6, <1>15, SettledItems
    <3>2. Items(event, seq, replay, {}, none) = IF N = 0 THEN <<y>> ELSE r
      BY <1>1, <1>15, SettledItems
    <3> HIDE DEF x, y, q, r
    <3>3. delivered = 1..N \/ delivered = {}
      OBVIOUS
    <3> QED BY <1>5, <3>1, <3>2, <3>3 DEF z
  <2>3. /\ x \in Things /\ x.kind = "meter" /\ x.of = seq /\ x.meters = totals /\ y.kind = "meter"
    BY <1>1, <1>6, ItemOf
  <2>4. Carries(x)
    BY <1>6, <2>3 DEF Carries, NoMeters
  <2>5. ASSUME NEW k \in 1..N
        PROVE  /\ q[k] \in Things /\ q[k].kind = "text" /\ q[k].of = event.of /\ q[k].i = k
               /\ q[k].meters = totals /\ Carries(q[k])
               /\ Identity(r[k]) = <<"text", event.of, k>> /\ Identity(q[k]) = Identity(r[k])
    <3>1. q[k] = Item("text", event.of, k, totals) /\ r[k] = Item("text", event.of, k, none)
      BY DEF TextsTo, Text
    <3>2. k \in Nat
      BY <2>1
    <3> HIDE DEF q, r
    <3>3. /\ q[k] \in Things /\ q[k].kind = "text" /\ q[k].of = event.of /\ q[k].i = k
          /\ q[k].meters = totals /\ Identity(q[k]) = <<"text", event.of, k>>
      BY <1>3, <2>1, <3>1, <3>2, ItemOf
    <3>4. Identity(r[k]) = <<"text", event.of, k>>
      BY <1>1, <2>1, <3>1, <3>2, ItemOf
    <3>5. Carries(q[k])
      BY <1>6, <3>3 DEF Carries, NoMeters
    <3> QED BY <3>3, <3>4, <3>5
  <2>6. DOMAIN q = 1..N /\ DOMAIN r = 1..N
    BY DEF TextsTo
  <2>7. CASE N = 0
    <3>1. z = <<x>> /\ said = <<y>> /\ \A k \in DOMAIN said : said[k] = y
      BY <2>2, <2>7
    <3> HIDE DEF x, y, z, said
    <3> QED BY <1>8, <2>3, <2>4, <3>1
  <2>8. CASE N # 0 /\ delivered = 1..N
    <3>1. ~replay
      <4>1. 1 \in 1..N
        BY <2>1, <2>8
      <4> QED BY <2>8, <4>1
    <3>2. z = <<x>> /\ said = r
      BY <2>2, <2>8
    <3> HIDE DEF x, y, z, said, r, q
    <3> QED BY <1>8, <1>15, <2>3, <2>4, <2>5, <2>6, <3>1, <3>2
  <2>9. CASE N # 0 /\ delivered # 1..N
    <3>1. replay /\ z = q /\ said = r
      BY <1>15, <2>2, <2>9
    <3>2. q \in Seq(Things)
      <4>1. q = [k \in 1..N |-> q[k]]
        BY DEF TextsTo
      <4> HIDE DEF q
      <4>2. \A k \in 1..N : q[k] \in Things
        BY <2>5
      <4>3. q \in [1..N -> Things]
        BY <4>1, <4>2
      <4> QED BY <2>1, <4>3
    <3> HIDE DEF x, y, z, said, r, q
    <3>3. Len(q) = N /\ N \in 1..N
      BY <2>1, <2>6, <2>9, <3>2
    <3>4. OneByOne(q)
      BY <2>1, <2>5, <2>6 DEF OneByOne
    <3>5. \A k \in DOMAIN r : Identity(r[k]) \in Identities(q)
      BY <2>5, <2>6 DEF Identities
    <3>6. q # <<>> /\ Carries(q[Len(q)]) /\ q[Len(q)].meters = totals
      BY <2>5, <3>2, <3>3
    <3>7. \A k \in DOMAIN q : q[k].kind = "text" /\ q[k].of = event.of
      BY <2>5, <2>6
    <3> QED BY <1>15, <3>1, <3>2, <3>4, <3>5, <3>6, <3>7 DEF Conveys, said
  <2> QED BY <2>7, <2>8, <2>9
<1> HIDE DEF z
<1>16. event.kind \in {"prompt", "tool", "settled", "aside", "retry"}
  BY DEF AgentEvents, Kinds
<1> QED BY <1>11, <1>12, <1>13, <1>14, <1>15, <1>16 DEF z

-----------------------------------------------------------------------------
(* The totals of a log *)

\* BilledBy, for a log that is a parameter.
StepsGoOn(l) == \A i, j \in DOMAIN l : i < j => l[i].step <= l[j].step
Retried(l, s, r) == l[r].kind = "retry" /\ l[r].step = l[s].step
BilledIn(l, last) ==
    {s \in 1..last :
        /\ l[s].kind = "settled"
        /\ \A t \in s + 1..last :
             l[t].kind = "settled" /\ l[t].step = l[s].step => \E r \in s..t : Retried(l, s, r)}

\* The totals are those of a log up to an event, and the settlement that may be
\* replaced is the last one, unless its step was retried since.
Tallied(l, totals, last) ==
    /\ totals = [counted |-> totals.counted, lastUsage |-> totals.lastUsage]
    /\ totals.counted = BilledIn(l, last)
    /\ totals.lastUsage # 0 =>
         /\ totals.lastUsage \in 1..last /\ l[totals.lastUsage].kind = "settled"
         /\ \A t \in totals.lastUsage..last :
              (l[t].kind = "settled" => t = totals.lastUsage) /\ ~Retried(l, totals.lastUsage, t)
    /\ totals.lastUsage = 0 =>
         \A s \in 1..last : l[s].kind = "settled" =>
            \E t \in s + 1..last : l[t].kind = "settled" \/ Retried(l, s, t)

\* What noteEvent() makes of the next event.
LEMMA NotedNext ==
    ASSUME NEW l \in Seq(AgentEvents), StepsGoOn(l), NEW last \in Nat, NEW seq, seq = last + 1,
           seq <= Len(l), NEW totals, Tallied(l, totals, last)
    PROVE  LET noted == Note(totals, l[seq], seq, l)
           IN  /\ Tallied(l, noted, seq)
               /\ noted.counted \in SUBSET (Nat \ {0})
               /\ l[seq].kind # "settled" => noted.counted = totals.counted
<1> DEFINE event == l[seq]
           noted == Note(totals, event, seq, l)
           was == totals.lastUsage
           sameStep == was # 0 /\ l[was].step = event.step
<1>1. /\ seq \in Nat /\ seq \in 1..seq /\ Len(l) \in Nat /\ DOMAIN l = 1..Len(l)
      /\ \A s \in 1..last : s \in 1..seq /\ s \in DOMAIN l /\ s < seq
      /\ \A s \in 1..seq : s = seq \/ s \in 1..last
      /\ seq \in DOMAIN l /\ \A s \in DOMAIN l : l[s].step \in Nat
  <2>1. /\ seq \in Nat /\ seq \in 1..seq /\ Len(l) \in Nat /\ DOMAIN l = 1..Len(l)
        /\ \A s \in 1..seq : s = seq \/ s \in 1..last
    OBVIOUS
  <2>2. \A s \in 1..last : s \in 1..seq /\ s \in DOMAIN l /\ s < seq
    BY <2>1
  <2>3. \A s \in DOMAIN l : l[s] \in AgentEvents
    OBVIOUS
  <2>4. \A s \in DOMAIN l : l[s].step \in Nat
    BY <2>3 DEF AgentEvents
  <2> QED BY <2>1, <2>2, <2>4
<1>2. \A s \in BilledIn(l, last) : s \in 1..last /\ l[s].kind = "settled"
  BY DEF BilledIn
<1>3. ASSUME NEW s \in 1..last, event.kind # "settled"
      PROVE  s \in BilledIn(l, seq) <=> s \in BilledIn(l, last)
  <2>1. \A u \in s + 1..seq : u \in s + 1..last \/ u = seq
    OBVIOUS
  <2>2. \A u \in s + 1..last : u \in s + 1..seq
    OBVIOUS
  <2>3. \A u \in s + 1..seq : l[u].kind = "settled" => u \in s + 1..last
    BY <1>3, <2>1
  <2> QED BY <1>1, <2>2, <2>3 DEF BilledIn
<1>4. event.kind # "settled" => BilledIn(l, seq) = BilledIn(l, last)
  <2> SUFFICES ASSUME event.kind # "settled" PROVE BilledIn(l, seq) = BilledIn(l, last)
    OBVIOUS
  <2>1. seq \notin BilledIn(l, seq) /\ seq \notin BilledIn(l, last)
    BY <1>1, <1>2 DEF BilledIn
  <2>2. BilledIn(l, seq) \subseteq 1..seq /\ BilledIn(l, last) \subseteq 1..seq
    BY <1>1 DEF BilledIn
  <2>3. \A s \in 1..last : s \in BilledIn(l, seq) <=> s \in BilledIn(l, last)
    BY <1>3
  <2>4. \A s \in 1..seq : s \in BilledIn(l, seq) <=> s \in BilledIn(l, last)
    BY <1>1, <2>1, <2>3
  <2> QED BY <2>2, <2>4
<1>5. CASE event.kind \notin {"settled", "retry"}
  <2>1. noted = totals
    BY <1>5 DEF Note
  <2>2. \A w \in 1..last : \A t \in w..seq : t \in w..last \/ t = seq
    OBVIOUS
  <2>3. ASSUME was # 0 PROVE \A t \in was..seq :
              (l[t].kind = "settled" => t = was) /\ ~Retried(l, was, t)
    <3>1. was \in 1..last /\ \A t \in was..last :
              (l[t].kind = "settled" => t = was) /\ ~Retried(l, was, t)
      BY <2>3 DEF Tallied
    <3>2. ~Retried(l, was, seq)
      BY <1>5 DEF Retried
    <3> QED BY <1>5, <2>2, <3>1, <3>2
  <2>4. ASSUME was = 0, NEW s \in 1..seq, l[s].kind = "settled"
        PROVE  \E t \in s + 1..seq : l[t].kind = "settled" \/ Retried(l, s, t)
    <3>1. s \in 1..last
      BY <1>1, <1>5, <2>4
    <3>2. \E t \in s + 1..last : l[t].kind = "settled" \/ Retried(l, s, t)
      BY <2>4, <3>1 DEF Tallied
    <3>3. \A t \in s + 1..last : t \in s + 1..seq
      OBVIOUS
    <3> QED BY <3>2, <3>3
  <2>5. noted.counted = BilledIn(l, seq)
    BY <1>4, <1>5, <2>1 DEF Tallied
  <2>6. was # 0 => was \in 1..seq /\ l[was].kind = "settled"
    BY <1>1 DEF Tallied
  <2>7. totals = [counted |-> totals.counted, lastUsage |-> totals.lastUsage]
    BY DEF Tallied
  <2>8. Tallied(l, totals, seq)
    BY <2>1, <2>3, <2>4, <2>5, <2>6, <2>7 DEF Tallied
  <2>9. noted.counted \in SUBSET (Nat \ {0})
    BY <2>5 DEF BilledIn
  <2> QED BY <2>1, <2>8, <2>9
<1>6. CASE event.kind = "retry"
  <2>1. noted = [totals EXCEPT !.lastUsage = IF sameStep THEN 0 ELSE @]
    BY <1>6 DEF Note
  <2>2. totals = [counted |-> totals.counted, lastUsage |-> was]
    BY DEF Tallied
  <2>3. noted = [counted |-> totals.counted, lastUsage |-> IF sameStep THEN 0 ELSE was]
    BY <2>1, <2>2
  <2> HIDE DEF noted
  <2>4. noted.counted = totals.counted /\ noted.lastUsage = IF sameStep THEN 0 ELSE was
    BY <2>3
  <2>5. noted.counted = BilledIn(l, seq)
    BY <1>4, <1>6, <2>4 DEF Tallied
  <2>6. noted.counted \in SUBSET (Nat \ {0})
    BY <2>5 DEF BilledIn
  <2>7. was # 0 => was \in 1..last /\ l[was].kind = "settled" /\ \A t \in was..last :
              (l[t].kind = "settled" => t = was) /\ ~Retried(l, was, t)
    BY DEF Tallied
  <2>8. ASSUME noted.lastUsage = 0, NEW s \in 1..seq, l[s].kind = "settled"
        PROVE  \E t \in s + 1..seq : l[t].kind = "settled" \/ Retried(l, s, t)
    <3>1. s \in 1..last /\ seq \in s + 1..seq /\ \A t \in s + 1..last : t \in s + 1..seq
      BY <1>1, <1>6, <2>8
    <3>2. CASE was = 0
      <4>1. \E t \in s + 1..last : l[t].kind = "settled" \/ Retried(l, s, t)
        BY <2>8, <3>1, <3>2 DEF Tallied
      <4> QED BY <3>1, <4>1
    <3>3. CASE was # 0
      <4>1. sameStep /\ was \in 1..last
        BY <2>4, <2>7, <2>8, <3>3
      <4>2. CASE s = was
        <5>1. Retried(l, s, seq)
          BY <1>6, <4>1, <4>2 DEF Retried
        <5> QED BY <3>1, <5>1
      <4>3. CASE s < was
        <5>1. was \in s + 1..seq /\ l[was].kind = "settled"
          BY <2>7, <3>3, <4>1, <4>3
        <5> QED BY <5>1
      <4>4. CASE s > was
        <5>1. s \in was..last
          BY <3>1, <4>1, <4>4
        <5>2. s = was
          BY <2>7, <2>8, <3>3, <5>1
        <5> QED BY <4>1, <4>4, <5>2
      <4> QED BY <3>1, <4>1, <4>2, <4>3, <4>4
    <3> QED BY <3>2, <3>3
  <2>9. ASSUME noted.lastUsage # 0
        PROVE  /\ noted.lastUsage = was /\ was \in 1..seq /\ l[was].kind = "settled"
               /\ \A t \in was..seq : (l[t].kind = "settled" => t = was) /\ ~Retried(l, was, t)
    <3>1. was # 0 /\ ~sameStep /\ noted.lastUsage = was
      BY <2>4, <2>9
    <3>2. ~Retried(l, was, seq)
      BY <3>1 DEF Retried
    <3>3. was \in 1..last /\ \A t \in was..seq : t \in was..last \/ t = seq
      BY <2>7, <3>1
    <3> QED BY <1>1, <1>6, <2>7, <3>1, <3>2, <3>3
  <2>10. Tallied(l, noted, seq)
    BY <2>3, <2>4, <2>5, <2>8, <2>9 DEF Tallied
  <2> QED BY <2>4, <2>6, <2>10 DEF noted
<1>7. CASE event.kind = "settled"
  <2> DEFINE gone == IF sameStep THEN {was} ELSE {}
  <2>1. noted = [counted |-> (totals.counted \ gone) \cup {seq}, lastUsage |-> seq]
    BY <1>7 DEF Note
  <2>2. totals.counted = BilledIn(l, last)
    BY DEF Tallied
  <2>3. was # 0 => was \in 1..last /\ l[was].kind = "settled" /\ \A t \in was..last :
              (l[t].kind = "settled" => t = was) /\ ~Retried(l, was, t)
    BY DEF Tallied
  <2> HIDE DEF noted
  <2>4. seq \in BilledIn(l, seq)
    <3>1. \A t \in seq + 1..seq : FALSE
      BY <1>1
    <3> QED BY <1>1, <1>7, <3>1 DEF BilledIn
  <2>5. ASSUME NEW s \in BilledIn(l, seq), s # seq PROVE s \in BilledIn(l, last) \ gone
    <3>1. s \in 1..last /\ l[s].kind = "settled" /\ \A t \in s + 1..seq :
             l[t].kind = "settled" /\ l[t].step = l[s].step => \E r \in s..t : Retried(l, s, r)
      BY <1>1, <2>5 DEF BilledIn
    <3>2. \A t \in s + 1..last : t \in s + 1..seq
      BY <1>1
    <3>3. s \in BilledIn(l, last)
      BY <3>1, <3>2 DEF BilledIn
    <3>4. ASSUME sameStep, s = was PROVE FALSE
      <4>1. seq \in s + 1..seq
        BY <1>1, <3>1
      <4>2. PICK r \in s..seq : Retried(l, s, r)
        BY <1>7, <3>1, <3>4, <4>1
      <4>3. r \in s..last \/ r = seq
        BY <3>1, <4>2
      <4> QED BY <1>7, <2>3, <3>4, <4>2, <4>3 DEF Retried
    <3> QED BY <3>3, <3>4
  <2>6. ASSUME NEW s \in BilledIn(l, last) \ gone PROVE s \in BilledIn(l, seq)
    <3>1. s \in 1..last /\ l[s].kind = "settled" /\ \A t \in s + 1..last :
             l[t].kind = "settled" /\ l[t].step = l[s].step => \E r \in s..t : Retried(l, s, r)
      BY <2>6 DEF BilledIn
    <3>2. ASSUME NEW t \in s + 1..last, l[t].kind = "settled", event.step = l[s].step
          PROVE  \E r \in s..seq : Retried(l, s, r)
      <4>1. s \in DOMAIN l /\ t \in DOMAIN l /\ s < t /\ t < seq
        BY <1>1, <3>1
      <4>2. l[s].step <= l[t].step /\ l[t].step <= l[seq].step
        BY <1>1, <4>1 DEF StepsGoOn
      <4>3. l[t].step = l[s].step
        BY <1>1, <3>2, <4>1, <4>2
      <4>4. \E r \in s..t : Retried(l, s, r)
        BY <3>1, <3>2, <4>3
      <4>5. \A r \in s..t : r \in s..seq
        BY <3>1, <4>1
      <4> QED BY <4>4, <4>5
    <3>3. ASSUME event.step = l[s].step PROVE \E r \in s..seq : Retried(l, s, r)
      <4>1. CASE was = 0
        <5>1. PICK t \in s + 1..last : l[t].kind = "settled" \/ Retried(l, s, t)
          BY <3>1, <4>1 DEF Tallied
        <5>2. t \in s..seq
          BY <3>1, <5>1
        <5> QED BY <3>2, <3>3, <5>1, <5>2
      <4>2. CASE was # 0 /\ s < was
        <5>1. was \in s + 1..last
          BY <2>3, <3>1, <4>2
        <5> QED BY <2>3, <3>2, <3>3, <4>2, <5>1
      <4>3. CASE was # 0 /\ s > was
        <5>1. s \in was..last
          BY <2>3, <3>1, <4>3
        <5>2. s = was
          BY <2>3, <3>1, <4>3, <5>1
        <5> QED BY <2>3, <4>3, <5>2
      <4>4. s # was
        BY <2>6, <3>3, <3>1
      <4> QED BY <2>3, <3>1, <4>1, <4>2, <4>3, <4>4
    <3>4. \A t \in s + 1..seq : t \in s + 1..last \/ t = seq
      BY <1>1
    <3> QED BY <1>1, <3>1, <3>3, <3>4 DEF BilledIn
  <2>7. noted.counted = BilledIn(l, seq)
    <3>1. noted.counted = (BilledIn(l, last) \ gone) \cup {seq}
      BY <2>1, <2>2
    <3> HIDE DEF gone
    <3> QED BY <2>4, <2>5, <2>6, <3>1
  <2>8. noted.counted \in SUBSET (Nat \ {0})
    BY <2>7 DEF BilledIn
  <2>9. noted.lastUsage = seq /\ noted = [counted |-> noted.counted, lastUsage |-> noted.lastUsage]
    BY <2>1
  <2>10. \A t \in seq..seq : t = seq /\ ~Retried(l, seq, t)
    BY <1>1, <1>7 DEF Retried
  <2>11. Tallied(l, noted, seq)
    BY <1>1, <1>7, <2>7, <2>9, <2>10 DEF Tallied
  <2> QED BY <1>7, <2>8, <2>11 DEF noted
<1> QED BY <1>5, <1>6, <1>7

-----------------------------------------------------------------------------
(* A transcript that goes on *)

\* The order of the updates and what an event says, for a log that is a parameter.
BeforeIn(l, x, y) ==
    \/ x.kind # y.kind
    \/ x.kind = "event" /\ (\/ x.of < y.of
                            \/ x.of = y.of /\ x.i < y.i
                            \/ l[y.of].kind = "aside")
    \/ x.kind = "text" /\ (x.of = y.of => x.i < y.i)
    \/ x.kind = "meter" /\ x.of < y.of
InOrder(l, items) ==
    \A i, j \in DOMAIN items :
        i < j => Identity(items[i]) # Identity(items[j]) /\ BeforeIn(l, items[i], items[j])
SaysIn(l, items, seq, count, drawn) ==
    LET replay == seq <= count
        said == Items(l[seq], seq, replay, {}, {})
    IN  (replay => drawn) =>
            \A i \in DOMAIN said :
                said[i].kind # "meter" => Identity(said[i]) \in Identities(items)

\* An update is part of an event, or text of an attempt that settled or started.
OfTheLog(l, items, last, begun) ==
    \A k \in DOMAIN items :
        IF items[k].kind = "text"
        THEN \/ items[k].of \in begun
             \/ \E s \in 1..last : l[s].kind = "settled" /\ l[s].of = items[k].of
        ELSE items[k].of \in 1..last

\* The last totals that were told, unless nothing was billed since the replay.
Metered(items, totals, last, count) ==
    totals.counted \cap (count + 1..last) # {} => LastTold(items, totals.counted)

\* Updates that tell a log up to an event: all that it says, once and in order,
\* with its totals.
Transcript(l, items, totals, last, count, drawn, begun) ==
    /\ items \in Seq(Things)
    /\ OfTheLog(l, items, last, begun) /\ InOrder(l, items)
    /\ \A seq \in 1..last : SaysIn(l, items, seq, count, drawn)
    /\ Tallied(l, totals, last) /\ Metered(items, totals, last, count)

\* Two parts of what a client is sent.
LEMMA Inside ==
    ASSUME NEW q \in Seq(Things), NEW z \in Seq(Things)
    PROVE  /\ q \o z \in Seq(Things)
           /\ Len(q) \in Nat /\ DOMAIN q = 1..Len(q) /\ DOMAIN z = 1..Len(z) /\ Len(z) \in Nat
           /\ DOMAIN (q \o z) = 1..(Len(q) + Len(z)) /\ Len(q \o z) = Len(q) + Len(z)
           /\ \A k \in DOMAIN q : (q \o z)[k] = q[k] /\ k \in DOMAIN (q \o z)
           /\ \A k \in DOMAIN z : (q \o z)[Len(q) + k] = z[k] /\ Len(q) + k \in DOMAIN (q \o z)
           /\ \A k \in DOMAIN (q \o z) : k \in DOMAIN q \/ \E j \in DOMAIN z : k = Len(q) + j
           /\ Identities(q \o z) = Identities(q) \cup Identities(z)
<1> DEFINE r == q \o z
<1>1. DOMAIN q = 1..Len(q) /\ DOMAIN z = 1..Len(z)
  OBVIOUS
<1>2. /\ r \in Seq(Things) /\ Len(q) \in Nat /\ Len(z) \in Nat
      /\ Len(r) = Len(q) + Len(z) /\ DOMAIN r = 1..(Len(q) + Len(z))
      /\ \A k \in 1..Len(q) : r[k] = q[k]
      /\ \A k \in 1..Len(z) : r[Len(q) + k] = z[k]
      /\ \A k \in 1..(Len(q) + Len(z)) :
           k \in 1..Len(q) \/ \E j \in 1..Len(z) : k = Len(q) + j
  BY Joined
<1> HIDE DEF r
<1>3. /\ \A k \in DOMAIN q : r[k] = q[k] /\ k \in DOMAIN r
      /\ \A k \in DOMAIN z : r[Len(q) + k] = z[k] /\ Len(q) + k \in DOMAIN r
      /\ \A k \in DOMAIN r : k \in DOMAIN q \/ \E j \in DOMAIN z : k = Len(q) + j
  <2>1. \A k \in DOMAIN q : k \in DOMAIN r
    BY <1>1, <1>2
  <2>2. \A k \in DOMAIN z : Len(q) + k \in DOMAIN r
    BY <1>1, <1>2
  <2>3. \A k \in DOMAIN q : r[k] = q[k]
    BY <1>1, <1>2
  <2>4. \A k \in DOMAIN z : r[Len(q) + k] = z[k]
    BY <1>1, <1>2
  <2>5. \A k \in DOMAIN r : k \in DOMAIN q \/ \E j \in DOMAIN z : k = Len(q) + j
    BY <1>1, <1>2
  <2> QED BY <2>1, <2>2, <2>3, <2>4, <2>5
<1>4. Identities(r) \subseteq Identities(q) \cup Identities(z)
  BY <1>3 DEF Identities
<1>5. Identities(q) \subseteq Identities(r) /\ Identities(z) \subseteq Identities(r)
  BY <1>3 DEF Identities
<1> QED BY <1>1, <1>2, <1>3, <1>4, <1>5 DEF r

\* Updates of the next event, or the text of an attempt that told none, go behind in order.
LEMMA OrderGoesOn ==
    ASSUME NEW l, NEW q \in Seq(Things), NEW z \in Seq(Things), NEW last \in Nat, NEW begun,
           OfTheLog(l, q, last, begun), InOrder(l, q), OneByOne(z), NEW seq, seq = last + 1,
           \A k \in DOMAIN z :
              \/ z[k].kind \in {"event", "meter"} /\ z[k].of = seq
              \/ z[k].kind = "text" /\ \A j \in DOMAIN q : q[j].kind = "text" => q[j].of # z[k].of
    PROVE  InOrder(l, q \o z)
<1> DEFINE r == q \o z
<1>1. /\ DOMAIN q = 1..Len(q) /\ Len(q) \in Nat /\ DOMAIN z \subseteq Nat
      /\ \A k \in DOMAIN q : r[k] = q[k]
      /\ \A k \in DOMAIN z : r[Len(q) + k] = z[k]
      /\ \A k \in DOMAIN r : k \in DOMAIN q \/ \E j \in DOMAIN z : k = Len(q) + j
  BY Inside
<1>2. ASSUME NEW x \in Things, NEW y \in Things, ~(x.kind = y.kind /\ x.of = y.of /\ x.i = y.i)
      PROVE  Identity(x) # Identity(y)
  BY <1>2 DEF Identity
<1>3. \A k \in DOMAIN q : q[k] \in Things
  OBVIOUS
<1>4. \A k \in DOMAIN z : z[k] \in Things
  OBVIOUS
<1> HIDE DEF r
<1>5. ASSUME NEW i \in DOMAIN q, NEW j \in DOMAIN z
      PROVE  Identity(q[i]) # Identity(z[j]) /\ BeforeIn(l, q[i], z[j])
  <2> DEFINE x == q[i]
             y == z[j]
  <2>1. x \in Things /\ y \in Things
    BY <1>3, <1>4
  <2>2. IF x.kind = "text" THEN TRUE ELSE x.of \in 1..last
    BY DEF OfTheLog
  <2>3. \/ y.kind \in {"event", "meter"} /\ y.of = seq
        \/ y.kind = "text" /\ (x.kind = "text" => x.of # y.of)
    OBVIOUS
  <2>4. x.kind \in {"event", "text", "meter"}
    BY <2>1 DEF Things
  <2> HIDE DEF x, y
  <2>5. x.kind = y.kind => x.of # y.of
    BY <2>2, <2>3
  <2>6. BeforeIn(l, x, y)
    BY <2>2, <2>3, <2>4 DEF BeforeIn
  <2>7. Identity(x) # Identity(y)
    BY <1>2, <2>1, <2>5
  <2> QED BY <2>6, <2>7 DEF x, y
<1>6. ASSUME NEW i \in DOMAIN z, NEW j \in DOMAIN z, i < j
      PROVE  Identity(z[i]) # Identity(z[j]) /\ BeforeIn(l, z[i], z[j])
  <2> DEFINE x == z[i]
             y == z[j]
  <2>1. x \in Things /\ y \in Things
    BY <1>4
  <2>2. x.kind = y.kind /\ x.kind # "meter" /\ x.of = y.of /\ x.i < y.i
    BY <1>6 DEF OneByOne
  <2>3. x.kind \in {"event", "text", "meter"} /\ x.i \in Nat /\ y.i \in Nat
    BY <2>1 DEF Things
  <2> HIDE DEF x, y
  <2>4. BeforeIn(l, x, y)
    BY <2>2, <2>3 DEF BeforeIn
  <2>5. Identity(x) # Identity(y)
    BY <1>2, <2>1, <2>2, <2>3
  <2> QED BY <2>4, <2>5 DEF x, y
<1>7. ASSUME NEW i \in DOMAIN r, NEW j \in DOMAIN r, i < j
      PROVE  Identity(r[i]) # Identity(r[j]) /\ BeforeIn(l, r[i], r[j])
  <2>1. CASE i \in DOMAIN q /\ j \in DOMAIN q
    BY <1>1, <1>7, <2>1 DEF InOrder
  <2>2. CASE i \in DOMAIN q /\ j \notin DOMAIN q
    <3>1. PICK n \in DOMAIN z : j = Len(q) + n
      BY <1>1, <2>2
    <3> QED BY <1>1, <1>5, <2>2, <3>1
  <2>3. CASE i \notin DOMAIN q
    <3>1. PICK m \in DOMAIN z : i = Len(q) + m
      BY <1>1, <2>3
    <3>2. j \notin DOMAIN q
      BY <1>1, <1>7, <3>1
    <3>3. PICK n \in DOMAIN z : j = Len(q) + n
      BY <1>1, <3>2
    <3>4. m < n
      BY <1>1, <1>7, <3>1, <3>3
    <3> QED BY <1>1, <1>6, <3>1, <3>3, <3>4
  <2> QED BY <2>1, <2>2, <2>3
<1> QED BY <1>7 DEF InOrder, r

\* They either bring the totals or leave them as they were.
LEMMA MetersGoOn ==
    ASSUME NEW q \in Seq(Things), NEW z \in Seq(Things), NEW totals, NEW last \in Nat,
           NEW count \in Nat, NEW noted, NEW seq, seq = last + 1,
           Metered(q, totals, last, count),
           \/ /\ noted.counted = totals.counted /\ seq \notin noted.counted
              /\ \A k \in DOMAIN z : ~Carries(z[k])
           \/ z # <<>> /\ Carries(z[Len(z)]) /\ z[Len(z)].meters = noted.counted
    PROVE  Metered(q \o z, noted, seq, count)
<1> DEFINE r == q \o z
<1>1. /\ DOMAIN q = 1..Len(q) /\ Len(q) \in Nat /\ DOMAIN z = 1..Len(z) /\ Len(z) \in Nat
      /\ DOMAIN r = 1..(Len(q) + Len(z))
      /\ \A k \in DOMAIN q : r[k] = q[k] /\ k \in DOMAIN r
      /\ \A k \in DOMAIN z : r[Len(q) + k] = z[k]
      /\ \A k \in DOMAIN r : k \in DOMAIN q \/ \E j \in DOMAIN z : k = Len(q) + j
  BY Inside
<1> SUFFICES ASSUME noted.counted \cap (count + 1..seq) # {} PROVE LastTold(r, noted.counted)
  BY DEF Metered
<1>2. CASE noted.counted = totals.counted /\ seq \notin noted.counted
           /\ \A k \in DOMAIN z : ~Carries(z[k])
  <2>1. totals.counted \cap (count + 1..last) # {}
    BY <1>2
  <2>2. LastTold(q, totals.counted)
    BY <2>1 DEF Metered
  <2>3. PICK i \in DOMAIN q : /\ Carries(q[i]) /\ q[i].meters = totals.counted
                              /\ \A j \in DOMAIN q : Carries(q[j]) => j <= i
    BY <2>2 DEF LastTold
  <2> HIDE DEF r
  <2>4. \A j \in DOMAIN r : Carries(r[j]) => j \in DOMAIN q /\ Carries(q[j])
    BY <1>1, <1>2
  <2>5. i \in DOMAIN r /\ Carries(r[i]) /\ r[i].meters = noted.counted
    BY <1>1, <1>2, <2>3
  <2> QED BY <2>3, <2>4, <2>5 DEF LastTold
<1>3. CASE z # <<>> /\ Carries(z[Len(z)]) /\ z[Len(z)].meters = noted.counted
  <2>1. Len(z) \in DOMAIN z
    BY <1>1, <1>3
  <2> DEFINE i == Len(q) + Len(z)
  <2> HIDE DEF r
  <2>2. i \in DOMAIN r /\ r[i] = z[Len(z)] /\ \A j \in DOMAIN r : j <= i
    BY <1>1, <2>1
  <2> HIDE DEF i
  <2> QED BY <1>3, <2>2 DEF LastTold
<1> QED BY <1>2, <1>3

\* What an event brings goes behind a transcript up to that event: in a replay all
\* that it says, and live what was not streamed.
Streamed(l, q, seq, replay, delivered) ==
    LET event == l[seq]
    IN  IF event.kind # "settled" THEN delivered = {}
        ELSE IF replay
        THEN /\ delivered = {}
             /\ \A k \in DOMAIN q : q[k].kind = "text" => q[k].of # event.of
        ELSE /\ delivered = 1..event.chunks
             /\ \A i \in 1..event.chunks : <<"text", event.of, i>> \in Identities(q)

\* An event that comes next, with what it brings and notes
ComesNext(l, q, totals, last, count, drawn, begun, seq, replay, delivered, noted, z, r) ==
    /\ l \in Seq(AgentEvents) /\ StepsGoOn(l) /\ last \in Nat /\ count \in Nat /\ drawn \in BOOLEAN
    /\ Transcript(l, q, totals, last, count, drawn, begun)
    /\ seq = last + 1 /\ seq <= Len(l) /\ replay \in BOOLEAN /\ (replay <=> seq <= count)
    /\ Streamed(l, q, seq, replay, delivered)
    /\ noted = Note(totals, l[seq], seq, l)
    /\ z = Items(l[seq], seq, replay, delivered, noted.counted)
    /\ r = q \o z

\* So a transcript up to an event and what the next one brings is a transcript.
LEMMA TranscriptGoesOn ==
    ASSUME NEW l, NEW q, NEW totals, NEW last, NEW count, NEW drawn, NEW begun, NEW seq,
           NEW replay, NEW delivered, NEW noted, NEW z, NEW r,
           ComesNext(l, q, totals, last, count, drawn, begun, seq, replay, delivered, noted, z, r)
    PROVE  /\ Transcript(l, r, noted, seq, count, drawn, begun)
           /\ z \in Seq(Things)
           /\ \A k \in DOMAIN z : z[k].kind = "text" => replay
<1>1. /\ l \in Seq(AgentEvents) /\ StepsGoOn(l) /\ last \in Nat /\ count \in Nat /\ drawn \in BOOLEAN
      /\ Transcript(l, q, totals, last, count, drawn, begun)
      /\ seq = last + 1 /\ seq <= Len(l) /\ replay \in BOOLEAN /\ (replay <=> seq <= count)
      /\ Streamed(l, q, seq, replay, delivered)
      /\ noted = Note(totals, l[seq], seq, l)
      /\ z = Items(l[seq], seq, replay, delivered, noted.counted)
      /\ r = q \o z
  BY DEF ComesNext
<1> DEFINE event == l[seq]
           said == Items(event, seq, replay, {}, {})
<1>2. noted = Note(totals, event, seq, l) /\ z = Items(event, seq, replay, delivered, noted.counted)
  BY <1>1
<1>3. /\ seq \in Nat \ {0} /\ event \in AgentEvents /\ replay \in BOOLEAN
      /\ \A s \in 1..seq : s = seq \/ s \in 1..last
      /\ \A s \in 1..last : s \in 1..seq
      /\ seq \in 1..seq
  BY <1>1
<1>4. /\ Tallied(l, noted, seq) /\ noted.counted \in SUBSET (Nat \ {0})
      /\ event.kind # "settled" => noted.counted = totals.counted
  <2>1. Tallied(l, totals, last)
    BY <1>1 DEF Transcript
  <2>2. LET n == Note(totals, l[seq], seq, l)
        IN  /\ Tallied(l, n, seq)
            /\ n.counted \in SUBSET (Nat \ {0})
            /\ l[seq].kind # "settled" => n.counted = totals.counted
    BY <1>1, <2>1, NotedNext
  <2>3. noted = Note(totals, l[seq], seq, l)
    BY <1>1
  <2> QED BY <2>2, <2>3
<1>5. /\ q \in Seq(Things) /\ OfTheLog(l, q, last, begun) /\ InOrder(l, q)
      /\ \A s \in 1..last : SaysIn(l, q, s, count, drawn)
      /\ Tallied(l, totals, last) /\ Metered(q, totals, last, count)
  BY <1>1 DEF Transcript
<1>6. /\ event.kind # "settled" => delivered = {}
      /\ event.kind = "settled" =>
           \/ /\ replay /\ delivered = {}
              /\ \A k \in DOMAIN q : q[k].kind = "text" => q[k].of # event.of
           \/ /\ ~replay /\ delivered = 1..event.chunks
              /\ \A i \in 1..event.chunks : <<"text", event.of, i>> \in Identities(q)
  <2> HIDE DEF event
  <2> QED BY <1>1 DEF Streamed, event
<1> HIDE DEF event
<1>7. Conveys(event, seq, replay, z, noted.counted)
  <2>1. \/ delivered = {} /\ (event.kind = "settled" => replay)
        \/ event.kind = "settled" /\ ~replay /\ delivered = 1..event.chunks
    BY <1>6
  <2>2. Conveys(event, seq, replay, Items(event, seq, replay, delivered, noted.counted), noted.counted)
    BY <1>3, <1>4, <2>1, Conveyed
  <2> QED BY <1>2, <2>2
<1> HIDE DEF said
<1>8. /\ z \in Seq(Things) /\ OneByOne(z)
      /\ \A k \in DOMAIN z :
         \/ z[k].kind \in {"event", "meter"} /\ z[k].of = seq
         \/ z[k].kind = "text" /\ replay /\ event.kind = "settled" /\ z[k].of = event.of
      /\ \A k \in DOMAIN said :
             said[k].kind # "meter" =>
                \/ Identity(said[k]) \in Identities(z)
                \/ /\ ~replay /\ event.kind = "settled"
                   /\ \E i \in 1..event.chunks : Identity(said[k]) = <<"text", event.of, i>>
      /\ \/ event.kind # "settled" /\ \A k \in DOMAIN z : ~Carries(z[k])
         \/ z # <<>> /\ Carries(z[Len(z)]) /\ z[Len(z)].meters = noted.counted
  BY <1>7 DEF Conveys, said
<1>9. /\ r \in Seq(Things) /\ Identities(r) = Identities(q) \cup Identities(z)
      /\ \A k \in DOMAIN q : r[k] = q[k]
      /\ \A k \in DOMAIN z : r[Len(q) + k] = z[k]
      /\ \A k \in DOMAIN r : k \in DOMAIN q \/ \E j \in DOMAIN z : k = Len(q) + j
  <2>1. q \in Seq(Things) /\ z \in Seq(Things)
    BY <1>5, <1>8
  <2>2. LET w == q \o z
        IN  /\ w \in Seq(Things) /\ Identities(w) = Identities(q) \cup Identities(z)
            /\ \A k \in DOMAIN q : w[k] = q[k]
            /\ \A k \in DOMAIN z : w[Len(q) + k] = z[k]
            /\ \A k \in DOMAIN w : k \in DOMAIN q \/ \E j \in DOMAIN z : k = Len(q) + j
    BY <2>1, Inside
  <2> QED BY <1>1, <2>2
<1>10. InOrder(l, r)
  <2>1. \A k \in DOMAIN z :
              \/ z[k].kind \in {"event", "meter"} /\ z[k].of = seq
              \/ z[k].kind = "text" /\ \A j \in DOMAIN q : q[j].kind = "text" => q[j].of # z[k].of
    BY <1>6, <1>8
  <2>2. /\ q \in Seq(Things) /\ z \in Seq(Things) /\ last \in Nat /\ seq = last + 1
        /\ OfTheLog(l, q, last, begun) /\ InOrder(l, q) /\ OneByOne(z)
    BY <1>1, <1>5, <1>8
  <2>3. InOrder(l, q \o z)
    BY ONLY <2>1, <2>2, OrderGoesOn
  <2>4. r = q \o z
    BY <1>1
  <2> QED BY ONLY <2>3, <2>4
<1>11. OfTheLog(l, r, seq, begun)
  <2>1. ASSUME NEW k \in DOMAIN q
        PROVE  IF q[k].kind = "text"
               THEN \/ q[k].of \in begun
                    \/ \E s \in 1..seq : l[s].kind = "settled" /\ l[s].of = q[k].of
               ELSE q[k].of \in 1..seq
    <3>1. IF q[k].kind = "text"
          THEN \/ q[k].of \in begun
               \/ \E s \in 1..last : l[s].kind = "settled" /\ l[s].of = q[k].of
          ELSE q[k].of \in 1..last
      BY <1>5 DEF OfTheLog
    <3> QED BY <1>3, <3>1
  <2>2. ASSUME NEW k \in DOMAIN z
        PROVE  IF z[k].kind = "text"
               THEN \/ z[k].of \in begun
                    \/ \E s \in 1..seq : l[s].kind = "settled" /\ l[s].of = z[k].of
               ELSE z[k].of \in 1..seq
    BY <1>3, <1>8 DEF event
  <2>3. \A k \in DOMAIN r : (\E j \in DOMAIN q : r[k] = q[j]) \/ \E j \in DOMAIN z : r[k] = z[j]
    BY <1>9
  <2> QED BY <2>1, <2>2, <2>3 DEF OfTheLog
<1>12. ASSUME NEW s \in 1..seq PROVE SaysIn(l, r, s, count, drawn)
  <2>1. CASE s \in 1..last
    <3>1. SaysIn(l, q, s, count, drawn)
      BY <1>5, <2>1
    <3>2. Identities(q) \subseteq Identities(r)
      BY <1>9
    <3> QED BY <3>1, <3>2 DEF SaysIn
  <2>2. CASE s = seq
    <3>2. replay = (s <= count) /\ said = Items(l[s], s, s <= count, {}, {})
      <4>1. replay = (s <= count)
        BY <1>1, <2>2
      <4>2. said = Items(l[s], s, replay, {}, {})
        BY <2>2 DEF said, event
      <4> QED BY <4>1, <4>2
    <3>1. \A k \in DOMAIN said : said[k].kind # "meter" => Identity(said[k]) \in Identities(r)
      BY <1>6, <1>8, <1>9
    <3> QED BY <3>1, <3>2 DEF SaysIn
  <2> QED BY <1>3, <2>1, <2>2
<1>13. Metered(r, noted, seq, count)
  <2>1. event.kind # "settled" => seq \notin noted.counted
    <3>1. totals.counted = BilledIn(l, last)
      BY <1>5 DEF Tallied
    <3>2. seq \notin totals.counted
      BY <1>1, <3>1 DEF BilledIn
    <3> QED BY <1>4, <3>2
  <2>2. \/ /\ noted.counted = totals.counted /\ seq \notin noted.counted
           /\ \A k \in DOMAIN z : ~Carries(z[k])
        \/ z # <<>> /\ Carries(z[Len(z)]) /\ z[Len(z)].meters = noted.counted
    BY <1>4, <1>8, <2>1
  <2>3. Metered(q, totals, last, count)
    BY <1>5
  <2>4. Metered(q \o z, noted, seq, count)
    BY <1>1, <1>5, <1>8, <2>2, <2>3, MetersGoOn
  <2> QED BY <1>1, <2>4
<1>14. Transcript(l, r, noted, seq, count, drawn, begun)
  BY <1>4, <1>9, <1>10, <1>11, <1>12, <1>13 DEF Transcript
<1>15. \A k \in DOMAIN z : z[k].kind = "text" => replay
  BY <1>8
<1> QED BY <1>8, <1>14, <1>15

-----------------------------------------------------------------------------
(* The loops over events *)

\* What waits for its turn
JobThings == [item : Things, image : Nat, replay : BOOLEAN]

\* The jobs of updates carry them in their order.
LEMMA JobsCarry ==
    ASSUME NEW items \in Seq(Things), NEW image \in Nat, NEW replay \in BOOLEAN
    PROVE  LET jobs == JobsOf(items, image, replay)
           IN  /\ jobs \in Seq(JobThings) /\ ItemsOf(jobs) = items
               /\ jobs = <<>> <=> items = <<>>
               /\ \A k \in DOMAIN jobs : jobs[k].image = image
<1> DEFINE jobs == JobsOf(items, image, replay)
<1>1. /\ jobs = [k \in 1..Len(items) |-> Job(items[k], image, replay)] /\ Len(items) \in Nat
      /\ DOMAIN items = 1..Len(items)
  BY DEF JobsOf
<1>2. \A k \in 1..Len(items) : items[k] \in Things
  OBVIOUS
<1> HIDE DEF jobs
<1>3. \A k \in 1..Len(items) :
         jobs[k] \in JobThings /\ jobs[k].item = items[k] /\ jobs[k].image = image
  BY <1>1, <1>2 DEF Job, JobThings
<1>4. jobs \in [1..Len(items) -> JobThings]
  BY <1>1, <1>3
<1>5. jobs \in Seq(JobThings) /\ DOMAIN jobs = 1..Len(items) /\ Len(jobs) = Len(items)
  BY <1>1, <1>4
<1>6. ItemsOf(jobs) = [k \in 1..Len(items) |-> items[k]]
  BY <1>3, <1>5 DEF ItemsOf
<1>7. ItemsOf(jobs) = items
  BY <1>1, <1>6
<1>8. jobs = <<>> <=> items = <<>>
  BY <1>5
<1>9. \A k \in DOMAIN jobs : jobs[k].image = image
  BY <1>3, <1>5
<1> QED BY <1>5, <1>7, <1>8, <1>9 DEF jobs

\* Jobs that are joined carry joined updates.
LEMMA ItemsJoin ==
    ASSUME NEW a \in Seq(JobThings), NEW z \in Seq(JobThings)
    PROVE  /\ a \o z \in Seq(JobThings) /\ ItemsOf(a) \in Seq(Things) /\ ItemsOf(z) \in Seq(Things)
           /\ Len(ItemsOf(a)) = Len(a)
           /\ ItemsOf(a \o z) = ItemsOf(a) \o ItemsOf(z)
<1>1. ASSUME NEW q \in Seq(JobThings)
      PROVE  /\ ItemsOf(q) \in Seq(Things) /\ Len(ItemsOf(q)) = Len(q)
             /\ \A k \in 1..Len(q) : ItemsOf(q)[k] = q[k].item
  <2>1. \A k \in 1..Len(q) : q[k].item \in Things
    <3>1. \A k \in 1..Len(q) : q[k] \in JobThings
      OBVIOUS
    <3> QED BY <3>1 DEF JobThings
  <2>2. ItemsOf(q) = [k \in 1..Len(q) |-> q[k].item] /\ Len(q) \in Nat
    BY DEF ItemsOf
  <2>3. ItemsOf(q) \in [1..Len(q) -> Things]
    BY <2>1, <2>2
  <2> QED BY <2>2, <2>3
<1> DEFINE r == a \o z
           ia == ItemsOf(a)
           iz == ItemsOf(z)
           ir == ItemsOf(r)
<1>2. /\ r \in Seq(JobThings) /\ Len(a) \in Nat /\ Len(z) \in Nat /\ Len(r) = Len(a) + Len(z)
      /\ \A i \in 1..Len(a) : r[i] = a[i]
      /\ \A i \in 1..Len(z) : r[Len(a) + i] = z[i]
      /\ \A i \in 1..(Len(a) + Len(z)) :
           i \in 1..Len(a) \/ \E j \in 1..Len(z) : i = Len(a) + j
  BY Joined
<1>3. /\ ia \in Seq(Things) /\ Len(ia) = Len(a) /\ \A k \in 1..Len(a) : ia[k] = a[k].item
      /\ iz \in Seq(Things) /\ Len(iz) = Len(z) /\ \A k \in 1..Len(z) : iz[k] = z[k].item
      /\ ir \in Seq(Things) /\ Len(ir) = Len(r) /\ \A k \in 1..Len(r) : ir[k] = r[k].item
  BY <1>1, <1>2
<1> HIDE DEF ia, iz, ir
<1>4. /\ ia \o iz \in Seq(Things) /\ Len(ia \o iz) = Len(ia) + Len(iz)
      /\ \A i \in 1..Len(ia) : (ia \o iz)[i] = ia[i]
      /\ \A i \in 1..Len(iz) : (ia \o iz)[Len(ia) + i] = iz[i]
  <2>1. ia \in Seq(Things) /\ iz \in Seq(Things)
    BY <1>3
  <2> QED BY <2>1, Joined
<1>5. ASSUME NEW k \in 1..Len(r) PROVE ir[k] = (ia \o iz)[k]
  <2>1. CASE k \in 1..Len(a)
    BY <1>2, <1>3, <1>4, <2>1
  <2>2. CASE k \notin 1..Len(a)
    <3>1. PICK j \in 1..Len(z) : k = Len(a) + j
      BY <1>2, <2>2
    <3>2. ir[k] = z[j].item /\ iz[j] = z[j].item /\ (ia \o iz)[Len(ia) + j] = iz[j]
      BY <1>2, <1>3, <1>4, <3>1
    <3> QED BY <1>3, <3>1, <3>2
  <2> QED BY <2>1, <2>2
<1>6. ir = ia \o iz
  BY <1>2, <1>3, <1>4, <1>5, SeqEqual
<1> QED BY <1>2, <1>3, <1>6 DEF r, ia, iz, ir

\* The next event of a loop
NextMapped(before, seq, replay, committed) ==
    LET totals == Note(before.totals, log[seq], seq, log)
    IN  [totals |-> totals,
         jobs |-> before.jobs \o Jobs(log[seq], seq, replay, Delivered(seq, committed),
                                    totals.counted)]

\* The recursive function of Mapped is a sequence of such events.
LEMMA LoopRuns ==
    ASSUME NEW seqs \in Seq(Nat), NEW replay, NEW committed
    PROVE  \E f : /\ f[0] = [totals |-> Totals, jobs |-> <<>>]
                  /\ \A n \in 1..Len(seqs) : f[n] = NextMapped(f[n - 1], seqs[n], replay, committed)
                  /\ Mapped(seqs, replay, committed) = f[Len(seqs)]
<1> DEFINE N == Len(seqs)
           start == [totals |-> Totals, jobs |-> <<>>]
           next(f, n) == [i \in 0..n |-> IF i = 0 THEN start
                                         ELSE NextMapped(f[i - 1], seqs[i], replay, committed)]
           F == CHOOSE f : f = next(f, N)
           T == {n \in 0..N : \E f : f = next(f, n)}
<1>1. 0 \in T
  <2> DEFINE g == [i \in 0..0 |-> start]
  <2>1. g = next(g, 0)
    OBVIOUS
  <2> HIDE DEF g
  <2>2. 0 \in 0..N
    OBVIOUS
  <2> QED BY <2>1, <2>2
<1>2. ASSUME NEW n \in 1..N, n - 1 \in T PROVE n \in T
  <2>1. PICK f : f = next(f, n - 1)
    BY <1>2
  <2> DEFINE g == [i \in 0..n |-> IF i = 0 THEN start
                                  ELSE NextMapped(f[i - 1], seqs[i], replay, committed)]
  <2> HIDE DEF start
  <2>2. \A i \in 0..n - 1 : f[i] = IF i = 0 THEN start
                                  ELSE NextMapped(f[i - 1], seqs[i], replay, committed)
    BY <2>1
  <2>3. \A i \in 0..n - 1 : i \in 0..n
    OBVIOUS
  <2>4. \A i \in 0..n - 1 : g[i] = f[i]
    BY <2>2, <2>3
  <2>5. \A i \in 0..n : i = 0 \/ i - 1 \in 0..n - 1
    OBVIOUS
  <2>6. g = next(g, n)
    <3>1. ASSUME NEW i \in 0..n
          PROVE  g[i] = IF i = 0 THEN start ELSE NextMapped(g[i - 1], seqs[i], replay, committed)
      <4>1. CASE i = 0
        BY <4>1
      <4>2. CASE i # 0
        <5>1. g[i - 1] = f[i - 1]
          BY <2>4, <2>5, <4>2
        <5>2. g[i] = NextMapped(f[i - 1], seqs[i], replay, committed)
          BY <4>2
        <5> QED BY <4>2, <5>1, <5>2
      <4> QED BY <4>1, <4>2
    <3>2. g = [i \in 0..n |-> g[i]]
      OBVIOUS
    <3> HIDE DEF g
    <3> QED BY <3>1, <3>2
  <2> HIDE DEF g
  <2> QED BY <2>6
<1> HIDE DEF T
<1>3. N \in Nat /\ N \in 0..N
  OBVIOUS
<1>4. N \in T
  BY <1>1, <1>2, <1>3, UpTo
<1>5. F = next(F, N)
  BY <1>4 DEF T
<1>6. Mapped(seqs, replay, committed) = F[N]
  BY DEF Mapped, NextMapped
<1> HIDE DEF F
<1>7. F[0] = start
  BY <1>5
<1>8. \A n \in 1..N : F[n] = NextMapped(F[n - 1], seqs[n], replay, committed)
  <2>1. \A n \in 1..N : n \in 0..N /\ n # 0
    OBVIOUS
  <2> HIDE DEF start
  <2> QED BY <1>5, <2>1
<1> QED BY <1>6, <1>7, <1>8

\* Joining is associative, for what a client is sent.
LEMMA JoinThree ==
    ASSUME NEW a \in Seq(Things), NEW b \in Seq(Things), NEW c \in Seq(Things)
    PROVE  (a \o b) \o c = a \o (b \o c)
BY ConcatAssociative

\* A loop over the events that follow a transcript: what it replays has not
\* begun to be streamed, and what was held is settled by the event committed only,
\* whose text was streamed.
LoopFollows(base, seqs, q, count, drawn, begun, replay, committed) ==
    /\ log \in Seq(AgentEvents) /\ StepsGoOn(log) /\ base \in Nat /\ seqs \in Seq(Nat)
    /\ count \in Nat /\ drawn \in BOOLEAN /\ replay \in BOOLEAN
    /\ \A n \in 1..Len(seqs) : seqs[n] = base + n
    /\ base + Len(seqs) <= Len(log)
    /\ Transcript(log, q, Totals, base, count, drawn, begun)
    /\ replay => /\ begun = {} /\ committed = 0 /\ base + Len(seqs) <= count
                 /\ \A i, j \in DOMAIN log :
                      i < j /\ log[i].kind = "settled" /\ log[j].kind = "settled"
                         => log[i].of # log[j].of
    /\ ~replay => /\ count <= base
                  /\ \A n \in 1..Len(seqs) :
                       LET event == log[base + n]
                       IN  IF event.kind # "settled" THEN base + n # committed
                           ELSE /\ base + n = committed /\ stream.delivered = 1..event.chunks
                                /\ \A i \in 1..event.chunks :
                                     <<"text", event.of, i>> \in Identities(q)

\* Such a loop tells the events.
LEMMA LoopTells ==
    ASSUME NEW base, NEW seqs, NEW q, NEW count, NEW drawn, NEW begun, NEW replay, NEW committed,
           LoopFollows(base, seqs, q, count, drawn, begun, replay, committed)
    PROVE  LET m == Mapped(seqs, replay, committed)
           IN  /\ m.jobs \in Seq(JobThings)
               /\ Transcript(log, q \o ItemsOf(m.jobs), m.totals, base + Len(seqs), count, drawn,
                             begun)
               /\ ~replay => \A k \in DOMAIN ItemsOf(m.jobs) : ItemsOf(m.jobs)[k].kind # "text"
               /\ Identities(q) \subseteq Identities(q \o ItemsOf(m.jobs))
<1>1. /\ log \in Seq(AgentEvents) /\ StepsGoOn(log) /\ base \in Nat /\ seqs \in Seq(Nat)
      /\ count \in Nat /\ drawn \in BOOLEAN /\ replay \in BOOLEAN
      /\ \A n \in 1..Len(seqs) : seqs[n] = base + n
      /\ base + Len(seqs) <= Len(log)
      /\ Transcript(log, q, Totals, base, count, drawn, begun)
      /\ replay => /\ begun = {} /\ committed = 0 /\ base + Len(seqs) <= count
                   /\ \A i, j \in DOMAIN log :
                        i < j /\ log[i].kind = "settled" /\ log[j].kind = "settled"
                           => log[i].of # log[j].of
      /\ ~replay => /\ count <= base
                    /\ \A n \in 1..Len(seqs) :
                         LET event == log[base + n]
                         IN  IF event.kind # "settled" THEN base + n # committed
                             ELSE /\ base + n = committed /\ stream.delivered = 1..event.chunks
                                  /\ \A i \in 1..event.chunks :
                                       <<"text", event.of, i>> \in Identities(q)
  BY DEF LoopFollows
<1> USE <1>1
<1> DEFINE N == Len(seqs)
<1>2. PICK f : /\ f[0] = [totals |-> Totals, jobs |-> <<>>]
               /\ \A n \in 1..N : f[n] = NextMapped(f[n - 1], seqs[n], replay, committed)
               /\ Mapped(seqs, replay, committed) = f[N]
  <2>1. \E f : /\ f[0] = [totals |-> Totals, jobs |-> <<>>]
               /\ \A n \in 1..Len(seqs) : f[n] = NextMapped(f[n - 1], seqs[n], replay, committed)
               /\ Mapped(seqs, replay, committed) = f[Len(seqs)]
    BY ONLY LoopRuns, <1>1
  <2> QED BY <2>1
<1> DEFINE Good(n) ==
             /\ f[n].jobs \in Seq(JobThings)
             /\ Transcript(log, q \o ItemsOf(f[n].jobs), f[n].totals, base + n, count, drawn, begun)
             /\ ~replay => \A k \in DOMAIN ItemsOf(f[n].jobs) : ItemsOf(f[n].jobs)[k].kind # "text"
           T == {n \in 0..N : Good(n)}
<1>3. N \in Nat /\ q \in Seq(Things)
  BY DEF Transcript
<1>4. 0 \in T
  <2>1. f[0].jobs = <<>> /\ f[0].totals = Totals /\ ItemsOf(f[0].jobs) = <<>>
    BY <1>2 DEF ItemsOf
  <2>2. q \o <<>> = q
    BY <1>3, ConcatEmptySeq
  <2>3. <<>> \in Seq(JobThings) /\ base + 0 = base /\ 0 \in 0..N /\ DOMAIN <<>> = {}
    BY <1>3
  <2> QED BY <2>1, <2>2, <2>3
<1>5. ASSUME NEW n \in 1..N, n - 1 \in T PROVE n \in T
  <2> DEFINE before == f[n - 1]
             last == base + (n - 1)
             seq == base + n
             event == log[seq]
             noted == Note(before.totals, event, seq, log)
             delivered == Delivered(seq, committed)
             z == Items(event, seq, replay, delivered, noted.counted)
             jobs == Jobs(event, seq, replay, delivered, noted.counted)
             told == q \o ItemsOf(before.jobs)
  <2>1. Good(n - 1)
    BY <1>5
  <2>2. f[n] = [totals |-> noted, jobs |-> before.jobs \o jobs]
    BY <1>2 DEF NextMapped
  <2>3. /\ before.jobs \in Seq(JobThings)
        /\ Transcript(log, told, before.totals, last, count, drawn, begun)
        /\ ~replay => \A k \in DOMAIN ItemsOf(before.jobs) : ItemsOf(before.jobs)[k].kind # "text"
    BY <2>1
  <2>4. last \in Nat /\ seq = last + 1 /\ seq \in Nat /\ seq <= Len(log) /\ seq \in DOMAIN log
        /\ last \in 0..Len(log) /\ n \in 0..N /\ base + n <= base + N
    BY <1>3
  <2>5. replay <=> seq <= count
    BY <1>3, <2>4
  <2> HIDE DEF before, last, Good, T
  <2>6. event \in AgentEvents
    BY <2>4
  <2>7. told \in Seq(Things) /\ Identities(q) \subseteq Identities(told)
        /\ ItemsOf(before.jobs) \in Seq(Things)
    <3>1. ItemsOf(before.jobs) \in Seq(Things)
      BY <2>3, ItemsJoin
    <3> QED BY <1>3, <3>1, Inside
  <2>8. Streamed(log, told, seq, replay, delivered)
    <3>1. CASE replay
      <4>1. delivered = {}
        BY <2>4, <3>1 DEF Delivered
      <4>2. ASSUME NEW k \in DOMAIN told, told[k].kind = "text", event.kind = "settled"
            PROVE  told[k].of # event.of
        <5>1. PICK s \in 1..last : log[s].kind = "settled" /\ log[s].of = told[k].of
          <6>1. OfTheLog(log, told, last, begun)
            BY <2>3 DEF Transcript
          <6>2. begun = {}
            BY <3>1
          <6> HIDE DEF told
          <6> QED BY <4>2, <6>1, <6>2 DEF OfTheLog
        <5>2. s \in DOMAIN log /\ s < seq
          BY <2>4
        <5> QED BY <2>4, <3>1, <4>2, <5>1, <5>2
      <4> HIDE DEF told, event, delivered
      <4>3. seq <= count
        BY <2>5, <3>1
      <4> QED BY <4>1, <4>2, <4>3 DEF Streamed, event
    <3>2. CASE ~replay
      <4>1. ~(seq <= count)
        BY <2>5, <3>2
      <4>2. IF event.kind # "settled" THEN seq # committed
            ELSE /\ seq = committed /\ stream.delivered = 1..event.chunks
                 /\ \A i \in 1..event.chunks : <<"text", event.of, i>> \in Identities(q)
        BY <3>2
      <4>3. IF event.kind # "settled" THEN delivered = {}
            ELSE delivered = 1..event.chunks
        BY <4>2 DEF Delivered
      <4> HIDE DEF told, event, delivered
      <4> QED BY <2>7, <4>1, <4>2, <4>3 DEF Streamed, event
    <3> QED BY <3>1, <3>2
  <2>9. /\ Transcript(log, q \o (ItemsOf(before.jobs) \o z), noted, seq, count, drawn, begun)
        /\ z \in Seq(Things) /\ (\A k \in DOMAIN z : z[k].kind = "text" => replay)
    <3>1. PICK b, y, d, u : b = ItemsOf(before.jobs) /\ y = z /\ d = delivered /\ u = noted
      OBVIOUS
    <3>2. PICK s, i, o, w, g : s = seq /\ i = last /\ o = told /\ w = before.totals /\ g = log
      OBVIOUS
    <3>3. PICK r : r = o \o y
      OBVIOUS
    <3>4. ComesNext(g, o, w, i, count, drawn, begun, s, replay, d, u, y, r)
      <4>1. /\ g \in Seq(AgentEvents) /\ StepsGoOn(g) /\ i \in Nat /\ s = i + 1
            /\ s <= Len(g) /\ count \in Nat /\ drawn \in BOOLEAN /\ (replay <=> s <= count)
            /\ replay \in BOOLEAN
        BY <2>4, <2>5, <3>2
      <4>2. Transcript(g, o, w, i, count, drawn, begun)
        BY <2>3, <3>2
      <4>3. Streamed(g, o, s, replay, d)
        BY <2>8, <3>1, <3>2
      <4>4. u = Note(w, g[s], s, g) /\ y = Items(g[s], s, replay, d, u.counted)
        BY <3>1, <3>2
      <4> QED BY ONLY <3>3, <4>1, <4>2, <4>3, <4>4 DEF ComesNext
    <3>5. /\ Transcript(g, r, u, s, count, drawn, begun)
          /\ y \in Seq(Things) /\ \A k \in DOMAIN y : y[k].kind = "text" => replay
      BY ONLY <3>4, TranscriptGoesOn
    <3>6. r = q \o (b \o y)
      <4>1. q \in Seq(Things) /\ b \in Seq(Things)
        BY <1>3, <2>7, <3>1
      <4>2. (q \o b) \o y = q \o (b \o y)
        BY ONLY <3>5, <4>1, JoinThree
      <4> QED BY <3>1, <3>2, <3>3, <4>2
    <3>7. Transcript(g, q \o (b \o y), u, s, count, drawn, begun)
      BY ONLY <3>5, <3>6
    <3> HIDE DEF z, told, noted, seq, delivered
    <3> QED BY <3>1, <3>2, <3>5, <3>7

  <2>10. jobs \in Seq(JobThings) /\ ItemsOf(jobs) = z
    <3>1. (IF event.kind = "tool" THEN seq ELSE 0) \in Nat
      BY <2>4
    <3> HIDE DEF event, noted, delivered
    <3> QED BY <2>9, <3>1, JobsCarry DEF Jobs
  <2> HIDE DEF jobs, z, noted, delivered, event, seq
  <2>11. /\ before.jobs \o jobs \in Seq(JobThings)
         /\ ItemsOf(before.jobs \o jobs) = ItemsOf(before.jobs) \o z
    BY <2>3, <2>10, ItemsJoin
  <2>13. ~replay => \A k \in DOMAIN (ItemsOf(before.jobs) \o z) : (ItemsOf(before.jobs) \o z)[k].kind # "text"
    <3> DEFINE b == ItemsOf(before.jobs)
    <3>1. b \in Seq(Things) /\ z \in Seq(Things)
      BY <2>7, <2>9
    <3>2. ~replay => (\A k \in DOMAIN b : b[k].kind # "text") /\ \A k \in DOMAIN z : z[k].kind # "text"
      BY <2>3, <2>9
    <3> HIDE DEF b
    <3>3. /\ \A k \in DOMAIN b : (b \o z)[k] = b[k]
          /\ \A k \in DOMAIN z : (b \o z)[Len(b) + k] = z[k]
          /\ \A k \in DOMAIN (b \o z) : k \in DOMAIN b \/ \E j \in DOMAIN z : k = Len(b) + j
      BY ONLY <3>1, Inside
    <3>4. ~replay => \A k \in DOMAIN (b \o z) : (b \o z)[k].kind # "text"
      BY <3>2, <3>3
    <3> QED BY <3>4 DEF b
  <2>14. f[n].jobs = before.jobs \o jobs /\ f[n].totals = noted
    BY <2>2
  <2>15. Good(n)
    BY <2>9, <2>11, <2>13, <2>14 DEF Good, seq
  <2> QED BY <2>4, <2>15 DEF T
<1> HIDE DEF T
<1>6. N \in T
  <2>1. N \in 0..N
    BY <1>3
  <2> QED BY <1>3, <1>4, <1>5, <2>1, UpTo
<1>7. Good(N)
  BY <1>6 DEF T
<1>8. Identities(q) \subseteq Identities(q \o ItemsOf(f[N].jobs))
  <2>1. ItemsOf(f[N].jobs) \in Seq(Things)
    BY <1>7, ItemsJoin
  <2> QED BY <1>3, <2>1, Inside
<1> QED BY <1>2, <1>7, <1>8

-----------------------------------------------------------------------------
(* Session output: the end of a record *)

\* What waits is being drained, nothing waits before the record is published,
\* and a record that was disposed of holds nothing.
OutputEnding ==
    /\ ~tail => queue = <<>> /\ slow = FALSE
    /\ phase = "new" => ~tail
    /\ phase = "disposed" => ~tail /\ stream.pending = <<>>
    /\ "pending" \in DOMAIN stream

\* The log that is loaded has events of these types.
LEMMA AgentStarts == InitOutput => AgentTyped
<1> SUFFICES ASSUME InitOutput PROVE AgentTyped
  OBVIOUS
<1>1. log \in Seq(Event) /\ \A i \in DOMAIN log : log[i].step < MaxStep
  BY SessionOutputAssumption DEF InitOutput
<1>2. Event \subseteq AgentEvents
  BY SessionOutputAssumption DEF Event, AgentEvents, Makers
<1>3. log \in Seq(AgentEvents)
  BY <1>1, <1>2, SeqMonotonic
<1>4. step \in Nat
  <2>1. CASE log = <<>>
    BY <2>1 DEF InitOutput
  <2>2. CASE log # <<>>
    <3>1. Len(log) \in DOMAIN log
      BY <1>1, <2>2
    <3>2. log[Len(log)] \in AgentEvents
      BY <1>3, <3>1
    <3> QED BY <2>2, <3>2 DEF InitOutput, AgentEvents
  <2> QED BY <2>1, <2>2
<1> QED BY <1>3, <1>4 DEF InitOutput, AgentTyped, Makers

\* A frame that is appended keeps the type of the stream.
LEMMA FrameAppended ==
    ASSUME AgentTyped, NEW frame \in StreamFrames
    PROVE  Append(frames, frame) \in Seq(StreamFrames)
  BY DEF AgentTyped

\* The chunks of an attempt are counted.
LEMMA ChunksCounted ==
    ASSUME AgentTyped
    PROVE  /\ Emitted \in Nat
           /\ IsFiniteSet({f \in DOMAIN frames : frames[f].of = attempt /\ frames[f].type = "chunk"})
<1> DEFINE C == {f \in DOMAIN frames : frames[f].of = attempt /\ frames[f].type = "chunk"}
<1>1. C \in SUBSET (1..Len(frames)) /\ Len(frames) \in Nat
  BY DEF AgentTyped
<1> HIDE DEF C
<1>2. IsFiniteSet(1..Len(frames))
  BY <1>1, FS_Interval
<1>3. IsFiniteSet(C)
  BY <1>1, <1>2, FS_Subset
<1>4. Cardinality(C) \in Nat
  BY <1>3, FS_CardinalityType
<1> QED BY <1>3, <1>4 DEF C, Emitted

\* The agent makes events and frames of these types only.
LEMMA AgentGoesOn ==
    ASSUME AgentTyped, Agent
    PROVE  AgentTyped'
<1>1. Emitted \in Nat
  BY ChunksCounted
<1>2. Len(log) \in Nat
  BY DEF AgentTyped
<1>3. ASSUME NEW event, Appended(event), event \in AgentEvents
      PROVE  log' \in Seq(AgentEvents) /\ UNCHANGED <<attempt, frames>>
  BY <1>3 DEF Appended, AgentTyped
<1>4. CASE AppendPrompt \/ AppendAside \/ AppendTool \/ AppendRetry
  <2>1. \A kind \in Kinds : Other(kind) \in AgentEvents
    BY DEF Other, AgentEvents, AgentTyped, Makers
  <2>2. {"prompt", "aside", "tool", "retry"} \subseteq Kinds
    BY DEF Kinds
  <2>3. step' \in Nat /\ due' = due
    BY <1>4 DEF AppendPrompt, AppendAside, AppendTool, AppendRetry, AgentTyped
  <2>4. \E kind \in Kinds : Appended(Other(kind))
    BY <1>4, <2>2 DEF AppendPrompt, AppendAside, AppendTool, AppendRetry
  <2> QED BY <1>3, <2>1, <2>3, <2>4 DEF AgentTyped
<1>5. CASE AppendSettlement
  <2> DEFINE event == [kind |-> "settled", step |-> step, of |-> attempt, chunks |-> Emitted]
  <2>1. event \in AgentEvents
    BY <1>1 DEF AgentEvents, AgentTyped, Kinds
  <2>2. Appended(event) /\ due' = Len(log) + 1 /\ step' = step
    BY <1>5 DEF AppendSettlement
  <2> HIDE DEF event
  <2> QED BY <1>2, <1>3, <2>1, <2>2 DEF AgentTyped
<1>6. ASSUME NEW frame \in StreamFrames, Framed(frame), attempt' \in Makers, due' \in Nat
      PROVE  AgentTyped'
  BY <1>6, FrameAppended DEF Framed, AgentTyped
<1>7. ASSUME NEW a \in Attempts, StartAttempt(a) PROVE AgentTyped'
  <2>1. [type |-> "start", of |-> a, step |-> step, i |-> 0] \in StreamFrames
    BY DEF StreamFrames, AgentTyped, Makers
  <2>2. attempt' \in Makers /\ due' \in Nat
    BY <1>7 DEF StartAttempt, AgentTyped, Makers
  <2> QED BY <1>6, <1>7, <2>1, <2>2 DEF StartAttempt
<1>8. CASE StreamChunk
  <2>1. [type |-> "chunk", of |-> attempt, step |-> step, i |-> Emitted + 1] \in StreamFrames
    BY <1>1 DEF StreamFrames, AgentTyped
  <2>2. attempt' \in Makers /\ due' \in Nat
    BY <1>8 DEF StreamChunk, AgentTyped
  <2> QED BY <1>6, <1>8, <2>1, <2>2 DEF StreamChunk
<1>9. CASE EndAttempt
  <2>1. [type |-> "end", of |-> attempt, step |-> step, i |-> due] \in StreamFrames
    BY DEF StreamFrames, AgentTyped
  <2>2. attempt' \in Makers /\ due' \in Nat
    BY <1>9 DEF EndAttempt, Makers
  <2> QED BY <1>6, <1>9, <2>1, <2>2 DEF EndAttempt
<1>10. ASSUME NEW f \in DOMAIN frames, FrameAgain(f) PROVE AgentTyped'
  BY <1>10 DEF FrameAgain, native, AgentTyped
<1> QED BY <1>4, <1>5, <1>7, <1>8, <1>9, <1>10 DEF Agent

\* An update goes behind those that wait; the drain has what to do then.
LEMMA SendWaits ==
    ASSUME NEW jobs, Send(jobs), ~tail => queue = <<>>
    PROVE  ~tail' => ~tail /\ queue' = <<>>
<1>1. CASE tail \/ \E i \in DOMAIN jobs : jobs[i].image # 0
  <2>1. (\E i \in DOMAIN jobs : jobs[i].image # 0) => jobs # <<>>
    OBVIOUS
  <2> QED BY <1>1, <2>1 DEF Send
<1>2. CASE ~(tail \/ \E i \in DOMAIN jobs : jobs[i].image # 0)
  BY <1>2 DEF Send
<1> QED BY <1>1, <1>2

\* What the agent does is followed while the record is live only.
LEMMA AgentIsFollowed ==
    ASSUME AgentTyped, OutputEnding, Agent
    PROVE  /\ OutputEnding'
           /\ ~Following => received' = received
<1>1. /\ phase \in {"live", "retired"} /\ UNCHANGED <<phase, slow>>
      /\ \/ \E event : Live(event, Len(log) + 1)
         \/ \E frame, revision : /\ frame.type \in {"start", "chunk", "end"}
                                /\ Assistant(frame, revision)
  <2>1. CASE AppendPrompt \/ AppendAside \/ AppendTool \/ AppendRetry \/ AppendSettlement
    <3>1. \E event : Appended(event)
      BY <2>1 DEF AppendPrompt, AppendAside, AppendTool, AppendRetry, AppendSettlement
    <3> QED BY <3>1 DEF Appended
  <2>2. ASSUME NEW a \in Attempts, StartAttempt(a)
        PROVE  \E frame : Framed(frame) /\ frame.type \in {"start", "chunk", "end"}
    BY <2>2 DEF StartAttempt
  <2>3. CASE StreamChunk \/ EndAttempt
    <3>1. \E frame : Framed(frame) /\ frame.type \in {"start", "chunk", "end"}
      BY <2>3 DEF StreamChunk, EndAttempt
    <3> QED BY <3>1 DEF Framed
  <2>4. ASSUME NEW f \in DOMAIN frames, FrameAgain(f)
        PROVE  frames[f].type \in {"start", "chunk", "end"}
    <3>1. frames[f] \in StreamFrames
      BY <2>4 DEF AgentTyped
    <3> QED BY <3>1 DEF StreamFrames
  <2>5. \A f \in DOMAIN frames : FrameAgain(f) =>
          /\ phase \in {"live", "retired"} /\ UNCHANGED <<phase, slow>>
          /\ Assistant(frames[f], f)
    BY DEF FrameAgain
  <2> QED BY <2>1, <2>2, <2>3, <2>4, <2>5 DEF Agent, Framed
<1>2. CASE ~Following
  <2>1. UNCHANGED <<stream, queue, tail, received>>
    BY <1>1, <1>2 DEF Live, Assistant
  <2> QED BY <1>1, <2>1 DEF OutputEnding
<1>3. CASE Following
  <2>2. "pending" \in DOMAIN stream'
    <3> DEFINE Edited == \/ stream' = stream
                         \/ \E a, n, r :
                              stream' = [attempt |-> a, step |-> n, revision |-> r,
                                         delivered |-> {}, closed |-> FALSE, pending |-> <<>>]
                         \/ DOMAIN stream' = DOMAIN stream
    <3>1. ASSUME NEW event, Live(event, Len(log) + 1) PROVE Edited
      BY <3>1 DEF Live
    <3>2. ASSUME NEW frame, NEW revision, Assistant(frame, revision),
                 frame.type \in {"start", "chunk", "end"}
          PROVE  Edited
      BY <3>2 DEF Assistant
    <3> QED BY <1>1, <3>1, <3>2 DEF OutputEnding
  <2>1. ~tail' => ~tail /\ queue' = <<>>
    <3>1. CASE UNCHANGED <<queue, tail>>
      BY <3>1 DEF OutputEnding
    <3>2. ASSUME NEW jobs, Send(jobs) PROVE ~tail' => ~tail /\ queue' = <<>>
      BY <3>2, SendWaits DEF OutputEnding
    <3>3. ASSUME NEW event, Live(event, Len(log) + 1) PROVE ~tail' => ~tail /\ queue' = <<>>
      <4>1. UNCHANGED <<queue, tail>> \/ \E jobs : Send(jobs)
        BY <3>3 DEF Live
      <4> QED BY <3>1, <3>2, <4>1
    <3>4. ASSUME NEW frame, NEW revision, Assistant(frame, revision),
                 frame.type \in {"start", "chunk", "end"}
          PROVE  ~tail' => ~tail /\ queue' = <<>>
      <4>1. ASSUME NEW committed, DrainedEvents(committed) PROVE \E jobs : Send(jobs)
        BY <4>1 DEF DrainedEvents
      <4>2. \/ UNCHANGED <<queue, tail>>
            \/ \E committed : DrainedEvents(committed)
            \/ \E jobs : Send(jobs)
        BY <3>4 DEF Assistant
      <4> QED BY <3>1, <3>2, <4>1, <4>2
    <3> QED BY <1>1, <3>3, <3>4
  <2> QED BY <1>1, <1>3, <2>1, <2>2 DEF OutputEnding, Following
<1> QED BY <1>2, <1>3

\* Every step keeps what is said of the end; what is not followed is not sent.
LEMMA OutputStep ==
    ASSUME AgentTyped, OutputEnding, [NextOutput]_outputVars
    PROVE  /\ AgentTyped' /\ OutputEnding'
           /\ ~Following => received' = received
<1>1. CASE UNCHANGED outputVars
  BY <1>1 DEF outputVars, native, AgentTyped, OutputEnding
<1>2. ASSUME NEW drawn, Restore(drawn)
      PROVE  AgentTyped' /\ OutputEnding' /\ received' = received
  <2>1. /\ phase = "new" /\ phase' = "live" /\ UNCHANGED <<slow, stream, received>>
        /\ tail' = (queue' # <<>>)
    BY <1>2 DEF Restore
  <2>2. AgentTyped'
    BY <1>2 DEF Restore, native, AgentTyped
  <2> QED BY <2>1, <2>2 DEF OutputEnding
<1>3. CASE PublishNew \/ RestoreEnds \/ Retire \/ DisposeOutput
  <2>1. UNCHANGED <<queue, tail, slow, received>>
    BY <1>3 DEF PublishNew, RestoreEnds, Retire, DisposeOutput
  <2>2. /\ phase' = "new" => phase = "new"
        /\ phase' = "disposed" => \/ phase = "disposed" /\ stream' = stream
                                  \/ ~tail /\ stream' = [stream EXCEPT !.pending = <<>>]
    BY <1>3 DEF PublishNew, RestoreEnds, Retire, DisposeOutput
  <2>3. AgentTyped'
    BY <1>3 DEF PublishNew, RestoreEnds, Retire, DisposeOutput, native, AgentTyped
  <2>4. stream' = stream \/ stream' = [stream EXCEPT !.pending = <<>>]
    BY <1>3 DEF PublishNew, RestoreEnds, Retire, DisposeOutput
  <2>5. stream' = [stream EXCEPT !.pending = <<>>] /\ "pending" \in DOMAIN stream
          => stream'.pending = <<>> /\ "pending" \in DOMAIN stream'
    OBVIOUS
  <2>6. OutputEnding'
    BY <2>1, <2>2, <2>4, <2>5 DEF OutputEnding
  <2> QED BY <2>1, <2>3, <2>6
<1>4. CASE Agent
  BY <1>4, AgentIsFollowed, AgentGoesOn
<1>5. CASE Draining
  <2>1. UNCHANGED <<phase, stream>>
    BY <1>5 DEF Draining, RunHead, SocketDrained, ImageRead
  <2>2. ASSUME NEW room, RunHead(room)
        PROVE  OutputEnding' /\ (~Following => received' = received)
    <3>1. /\ queue # <<>> /\ tail' = (queue' # <<>> \/ slow') /\ slow' \in BOOLEAN
          /\ ~Following => received' = received
      BY <2>2 DEF RunHead, MaySend, Following
    <3> QED BY <2>1, <3>1 DEF OutputEnding
  <2>3. ASSUME SocketDrained
        PROVE  OutputEnding' /\ (~Following => received' = received)
    BY <2>1, <2>3 DEF SocketDrained, OutputEnding
  <2>4. ASSUME NEW seq, ImageRead(seq) PROVE UNCHANGED <<queue, tail, slow, received>>
    BY <2>4 DEF ImageRead
  <2>5. AgentTyped'
    BY <1>5 DEF Draining, RunHead, SocketDrained, ImageRead, native, AgentTyped
  <2> QED BY <1>5, <2>1, <2>2, <2>3, <2>4, <2>5 DEF Draining, OutputEnding
<1> QED BY <1>1, <1>2, <1>3, <1>4, <1>5 DEF NextOutput

\* A record that was disposed of holds nothing that waits for the client, its
\* image or the end of a stream; the drain of a record has all that waits.
THEOREM NothingWaitsAtTheEnd == OutputSteps => []OutputEnding
<1>1. InitOutput => AgentTyped /\ OutputEnding
  BY AgentStarts DEF InitOutput, OutputEnding, NoStream
<1>2. AgentTyped /\ OutputEnding /\ [NextOutput]_outputVars => AgentTyped' /\ OutputEnding'
  BY OutputStep
<1> QED BY <1>1, <1>2, PTL DEF OutputSteps

\* Nothing is sent for a session that the registry has let go, whatever of it is
\* still queued, read or streamed.
THEOREM RetiredIsSilent == OutputSteps => [][~Following => received' = received]_outputVars
<1>1. InitOutput => AgentTyped /\ OutputEnding
  BY AgentStarts DEF InitOutput, OutputEnding, NoStream
<1>2. AgentTyped /\ OutputEnding /\ [NextOutput]_outputVars
        => /\ AgentTyped' /\ OutputEnding'
           /\ [~Following => received' = received]_outputVars
  BY OutputStep
<1> QED BY <1>1, <1>2, PTL DEF OutputSteps

-----------------------------------------------------------------------------
(* A transcript while the log and the stream go on *)

\* A log that goes on with more events.
GoesOnFrom(l, m) ==
    /\ l \in Seq(AgentEvents) /\ m \in Seq(AgentEvents) /\ Len(l) <= Len(m)
    /\ \A i \in DOMAIN l : m[i] = l[i]

\* What a client was sent is in order, as the log stands.
Sound(l, items) ==
    InOrder(l, items) /\ \A k \in DOMAIN items : items[k].kind = "event" => items[k].of \in DOMAIN l

\* More events do not change what was in order.
LEMMA SoundKept ==
    ASSUME NEW l, NEW m, GoesOnFrom(l, m), NEW items, Sound(l, items)
    PROVE  Sound(m, items)
<1>1. \A i \in DOMAIN l : m[i] = l[i] /\ i \in DOMAIN m
  BY DEF GoesOnFrom
<1>2. ASSUME NEW i \in DOMAIN items, NEW j \in DOMAIN items, i < j
      PROVE  Identity(items[i]) # Identity(items[j]) /\ BeforeIn(m, items[i], items[j])
  <2>1. Identity(items[i]) # Identity(items[j]) /\ BeforeIn(l, items[i], items[j])
    BY <1>2 DEF Sound, InOrder
  <2>2. items[j].kind = "event" => m[items[j].of] = l[items[j].of]
    BY <1>1 DEF Sound
  <2> QED BY <2>1, <2>2 DEF BeforeIn
<1> QED BY <1>1, <1>2 DEF Sound, InOrder

\* The front of a transcript is in order.
LEMMA TranscriptIsSound ==
    ASSUME NEW l \in Seq(AgentEvents), NEW q, NEW totals, NEW last \in Nat, last <= Len(l),
           NEW count, NEW drawn, NEW begun, Transcript(l, q, totals, last, count, drawn, begun),
           NEW a \in Seq(Things), NEW z \in Seq(Things), q = a \o z
    PROVE  Sound(l, a)
<1>1. \A k \in DOMAIN a : q[k] = a[k] /\ k \in DOMAIN q
  <2>1. \A k \in DOMAIN a : (a \o z)[k] = a[k] /\ k \in DOMAIN (a \o z)
    BY Inside
  <2> QED BY <2>1
<1>2. InOrder(l, q) /\ OfTheLog(l, q, last, begun)
  BY DEF Transcript
<1>3. InOrder(l, a)
  BY <1>1, <1>2 DEF InOrder
<1>4. ASSUME NEW k \in DOMAIN a, a[k].kind = "event" PROVE a[k].of \in DOMAIN l
  <2>1. a[k].of \in 1..last
    BY <1>1, <1>2, <1>4 DEF OfTheLog
  <2> QED BY <2>1
<1> QED BY <1>3, <1>4 DEF Sound

\* A transcript stays one while the log goes on and attempts start.
LEMMA TranscriptKept ==
    ASSUME NEW l, NEW m, GoesOnFrom(l, m), NEW q, NEW totals, NEW last \in Nat, last <= Len(l),
           NEW count, NEW drawn, NEW begun, Transcript(l, q, totals, last, count, drawn, begun),
           NEW wider, begun \subseteq wider
    PROVE  Transcript(m, q, totals, last, count, drawn, wider)
<1>1. \A s \in 1..last : m[s] = l[s] /\ s \in DOMAIN l
  BY DEF GoesOnFrom
<1>2. /\ q \in Seq(Things) /\ OfTheLog(l, q, last, begun) /\ InOrder(l, q)
      /\ \A s \in 1..last : SaysIn(l, q, s, count, drawn)
      /\ Tallied(l, totals, last) /\ Metered(q, totals, last, count)
  BY DEF Transcript
<1>3. OfTheLog(m, q, last, wider)
  <2>1. ASSUME NEW k \in DOMAIN q
        PROVE  IF q[k].kind = "text"
               THEN \/ q[k].of \in wider
                    \/ \E s \in 1..last : m[s].kind = "settled" /\ m[s].of = q[k].of
               ELSE q[k].of \in 1..last
    <3>1. IF q[k].kind = "text"
          THEN \/ q[k].of \in begun
               \/ \E s \in 1..last : l[s].kind = "settled" /\ l[s].of = q[k].of
          ELSE q[k].of \in 1..last
      BY <1>2 DEF OfTheLog
    <3> QED BY <1>1, <3>1
  <2> QED BY <2>1 DEF OfTheLog
<1>4. InOrder(m, q)
  <2>1. Sound(l, q)
    <3>1. ASSUME NEW k \in DOMAIN q, q[k].kind = "event" PROVE q[k].of \in DOMAIN l
      <4>1. q[k].of \in 1..last
        BY <1>2, <3>1 DEF OfTheLog
      <4> QED BY <1>1, <4>1
    <3> QED BY <1>2, <3>1 DEF Sound
  <2> QED BY <2>1, SoundKept DEF Sound
<1>5. ASSUME NEW s \in 1..last PROVE SaysIn(m, q, s, count, drawn)
  BY <1>1, <1>2 DEF SaysIn
<1>6. Tallied(m, totals, last)
  <2>1. \A s \in 1..last : \A r \in 1..last : Retried(m, s, r) <=> Retried(l, s, r)
    BY <1>1 DEF Retried
  <2>2. BilledIn(m, last) = BilledIn(l, last)
    <3>1. ASSUME NEW s \in 1..last
          PROVE  /\ \A t \in s + 1..last : t \in 1..last
                 /\ \A t \in s + 1..last : \A r \in s..t : r \in 1..last
      OBVIOUS
    <3> QED BY <1>1, <2>1, <3>1 DEF BilledIn
  <2>3. \A s \in 1..last : \A t \in s..last : t \in 1..last
    OBVIOUS
  <2>4. \A s \in 1..last : \A t \in s + 1..last : t \in 1..last
    OBVIOUS
  <2> QED BY <1>1, <1>2, <2>1, <2>2, <2>3, <2>4 DEF Tallied
<1> QED BY <1>2, <1>3, <1>4, <1>5, <1>6 DEF Transcript

\* Text that is streamed goes behind what was sent, after the text of its attempt.
LEMMA TextFollows ==
    ASSUME NEW l, NEW q, NEW totals, NEW last \in Nat, NEW count, NEW drawn, NEW begun,
           Transcript(l, q, totals, last, count, drawn, begun),
           NEW a \in Makers, a \in begun, NEW n \in Nat,
           \A k \in DOMAIN q : q[k].kind = "text" /\ q[k].of = a => q[k].i < n,
           NEW r, r = q \o <<Text(a, n, NoMeters)>>
    PROVE  Transcript(l, r, totals, last, count, drawn, begun)
<1> DEFINE x == Text(a, n, NoMeters)
           z == <<x>>
<1>1. x \in Things /\ x.kind = "text" /\ x.of = a /\ x.i = n /\ x.meters = NoMeters
  <2> DEFINE kind == "text"
  <2>1. kind \in {"event", "text", "meter"} /\ a \in Makers \cup Nat /\ NoMeters \in SUBSET Nat
    BY DEF NoMeters
  <2>2. x = Item(kind, a, n, NoMeters)
    BY DEF Text
  <2> HIDE DEF kind, x
  <2>3. LET y == Item(kind, a, n, NoMeters)
        IN  /\ y \in Things /\ y.kind = kind /\ y.of = a /\ y.i = n /\ y.meters = NoMeters
            /\ Identity(y) = <<kind, a, n>>
    BY <2>1, ItemOf
  <2> QED BY <2>2, <2>3 DEF kind
<1> HIDE DEF x
<1>2. z \in Seq(Things) /\ z[1] = x /\ DOMAIN z = {1}
  BY <1>1
<1> HIDE DEF z
<1>3. /\ q \in Seq(Things) /\ OfTheLog(l, q, last, begun) /\ InOrder(l, q)
      /\ \A s \in 1..last : SaysIn(l, q, s, count, drawn)
      /\ Tallied(l, totals, last) /\ Metered(q, totals, last, count)
  BY DEF Transcript
<1>4. r = q \o z
  BY DEF z, x
<1>5. /\ r \in Seq(Things) /\ Len(q) \in Nat /\ DOMAIN q = 1..Len(q)
      /\ \A k \in DOMAIN q : r[k] = q[k] /\ k \in DOMAIN r
      /\ \A k \in DOMAIN r : k \in DOMAIN q \/ k = Len(q) + 1
      /\ r[Len(q) + 1] = x
      /\ Identities(q) \subseteq Identities(r)
  <2>1. LET w == q \o z
        IN  /\ w \in Seq(Things) /\ Len(q) \in Nat /\ DOMAIN q = 1..Len(q)
            /\ \A k \in DOMAIN q : w[k] = q[k] /\ k \in DOMAIN w
            /\ \A k \in DOMAIN z : w[Len(q) + k] = z[k] /\ Len(q) + k \in DOMAIN w
            /\ \A k \in DOMAIN w : k \in DOMAIN q \/ \E j \in DOMAIN z : k = Len(q) + j
            /\ Identities(w) = Identities(q) \cup Identities(z)
    BY ONLY <1>2, <1>3, Inside
  <2> QED BY <1>2, <1>4, <2>1
<1>6. OfTheLog(l, r, last, begun)
  <2>1. ASSUME NEW k \in DOMAIN r
        PROVE  IF r[k].kind = "text"
               THEN \/ r[k].of \in begun
                    \/ \E s \in 1..last : l[s].kind = "settled" /\ l[s].of = r[k].of
               ELSE r[k].of \in 1..last
    <3>1. CASE k \in DOMAIN q
      <4>1. IF q[k].kind = "text"
            THEN \/ q[k].of \in begun
                 \/ \E s \in 1..last : l[s].kind = "settled" /\ l[s].of = q[k].of
            ELSE q[k].of \in 1..last
        BY <1>3, <3>1 DEF OfTheLog
      <4>2. r[k] = q[k]
        BY <1>5, <3>1
      <4> QED BY <4>1, <4>2
    <3>2. CASE k = Len(q) + 1
      BY <1>1, <1>5, <3>2
    <3> QED BY <1>5, <3>1, <3>2
  <2> QED BY <2>1 DEF OfTheLog
<1>7. InOrder(l, r)
  <2>1. ASSUME NEW i \in DOMAIN r, NEW j \in DOMAIN r, i < j
        PROVE  Identity(r[i]) # Identity(r[j]) /\ BeforeIn(l, r[i], r[j])
    <3>1. CASE j \in DOMAIN q
      <4>1. i \in DOMAIN q
        BY <1>5, <2>1, <3>1
      <4>2. Identity(q[i]) # Identity(q[j]) /\ BeforeIn(l, q[i], q[j])
        BY <1>3, <2>1, <3>1, <4>1 DEF InOrder
      <4> QED BY <1>5, <3>1, <4>1, <4>2
    <3>2. CASE j = Len(q) + 1
      <4>1. i \in DOMAIN q
        BY <1>5, <2>1, <3>2
      <4>2. r[i] = q[i] /\ r[j] = x
        BY <1>5, <3>2, <4>1
      <4>3. q[i].kind # "text" \/ q[i].of # a \/ q[i].i < n
        BY <4>1
      <4>4. q[i] \in Things
        BY <1>3, <4>1
      <4>5. q[i].i \in Nat
        BY <4>4 DEF Things
      <4> QED BY <1>1, <4>2, <4>3, <4>5 DEF Identity, BeforeIn
    <3> QED BY <1>5, <3>1, <3>2
  <2> QED BY <2>1 DEF InOrder
<1>8. ASSUME NEW s \in 1..last PROVE SaysIn(l, r, s, count, drawn)
  BY <1>3, <1>5 DEF SaysIn
<1>9. Metered(r, totals, last, count)
  <2> SUFFICES ASSUME totals.counted \cap (count + 1..last) # {} PROVE LastTold(r, totals.counted)
    BY DEF Metered
  <2>1. LastTold(q, totals.counted)
    BY <1>3 DEF Metered
  <2>2. PICK i \in DOMAIN q : /\ Carries(q[i]) /\ q[i].meters = totals.counted
                              /\ \A j \in DOMAIN q : Carries(q[j]) => j <= i
    BY <2>1 DEF LastTold
  <2>3. ~Carries(x)
    BY <1>1 DEF Carries
  <2>4. \A j \in DOMAIN r : Carries(r[j]) => j \in DOMAIN q /\ Carries(q[j])
    BY <1>5, <2>3
  <2>5. i \in DOMAIN r /\ Carries(r[i]) /\ r[i].meters = totals.counted
    BY <1>5, <2>2
  <2> QED BY <2>2, <2>4, <2>5 DEF LastTold
<1> QED BY <1>3, <1>5, <1>6, <1>7, <1>8, <1>9 DEF Transcript

\* All that the client was sent or waits for its turn
Line == received \o ItemsOf(queue)
LineTyped == queue \in Seq(JobThings) /\ received \in Seq(Things)

\* What is sent goes behind the line, whether it waits or not.
LEMMA Sent ==
    ASSUME LineTyped, ~tail => queue = <<>>, NEW jobs \in Seq(JobThings), Send(jobs)
    PROVE  /\ LineTyped' /\ Line' = Line \o ItemsOf(jobs)
           /\ \E z \in Seq(Things) : received' = received \o z
<1>1. /\ queue \in Seq(JobThings) /\ received \in Seq(Things)
      /\ ItemsOf(queue) \in Seq(Things) /\ ItemsOf(jobs) \in Seq(Things)
      /\ queue \o jobs \in Seq(JobThings)
      /\ ItemsOf(queue \o jobs) = ItemsOf(queue) \o ItemsOf(jobs)
  <2>1. queue \in Seq(JobThings) /\ received \in Seq(Things)
    BY DEF LineTyped
  <2> QED BY <2>1, ItemsJoin
<1>2. CASE tail \/ \E i \in DOMAIN jobs : jobs[i].image # 0
  <2>1. queue' = queue \o jobs /\ received' = received
    BY <1>2 DEF Send
  <2>2. (received \o ItemsOf(queue)) \o ItemsOf(jobs) = received \o (ItemsOf(queue) \o ItemsOf(jobs))
    BY ONLY <1>1, JoinThree
  <2>3. received = received \o <<>> /\ <<>> \in Seq(Things)
    BY <1>1, ConcatEmptySeq
  <2>4. Line' = received' \o ItemsOf(queue')
    BY DEF Line, ItemsOf
  <2> QED BY <1>1, <2>1, <2>2, <2>3, <2>4 DEF Line, LineTyped
<1>3. CASE ~(tail \/ \E i \in DOMAIN jobs : jobs[i].image # 0)
  <2>1. queue' = <<>> /\ queue = <<>> /\ received' = received \o ItemsOf(jobs)
    BY <1>3 DEF Send
  <2>2. ItemsOf(<<>>) = <<>>
    BY DEF ItemsOf
  <2>3. Line' = received' \o ItemsOf(queue')
    BY DEF Line, ItemsOf
  <2>4. /\ received \o ItemsOf(jobs) \in Seq(Things)
        /\ received \o <<>> = received
        /\ (received \o ItemsOf(jobs)) \o <<>> = received \o ItemsOf(jobs)
        /\ <<>> \in Seq(JobThings)
    <3> DEFINE both == received \o ItemsOf(jobs)
    <3>1. both \in Seq(Things)
      BY <1>1
    <3> HIDE DEF both
    <3>2. received \o <<>> = received /\ both \o <<>> = both
      BY <1>1, <3>1, ConcatEmptySeq
    <3> QED BY <3>1, <3>2 DEF both
  <2> QED BY <1>1, <2>1, <2>2, <2>3, <2>4 DEF Line, LineTyped
<1> QED BY <1>2, <1>3

\* The drain moves the first update that waits from the queue to the client.
LEMMA HeadSent ==
    ASSUME LineTyped, queue # <<>>, queue' = Tail(queue)
    PROVE  /\ queue' \in Seq(JobThings) /\ Head(queue).item \in Things
           /\ received' = Append(received, Head(queue).item) =>
                 LineTyped' /\ Line' = Line /\ \E z \in Seq(Things) : received' = received \o z
<1> DEFINE h == Head(queue)
           one == <<h>>
           z == <<h.item>>
           rest == Tail(queue)
<1>1. queue \in Seq(JobThings) /\ received \in Seq(Things)
  BY DEF LineTyped
<1>2. rest \in Seq(JobThings) /\ h \in JobThings /\ queue = one \o rest
  <2>1. rest \in Seq(JobThings) /\ h \in JobThings
    BY <1>1
  <2>2. queue = <<Head(queue)>> \o Tail(queue)
    BY <1>1
  <2> QED BY <2>1, <2>2
<1> HIDE DEF h, rest
<1>3. one \in Seq(JobThings) /\ ItemsOf(one) = z /\ z \in Seq(Things) /\ h.item \in Things
  BY <1>2 DEF ItemsOf, JobThings
<1> HIDE DEF one
<1>4. ItemsOf(one \o rest) = ItemsOf(one) \o ItemsOf(rest) /\ ItemsOf(rest) \in Seq(Things)
  BY <1>2, <1>3, ItemsJoin
<1>5. Append(received, h.item) = received \o z
  BY <1>1, <1>3, AppendIsConcat
<1> HIDE DEF z
<1>6. (received \o z) \o ItemsOf(rest) = received \o (z \o ItemsOf(rest))
  BY ONLY <1>1, <1>3, <1>4, JoinThree
<1>7. received \o z \in Seq(Things)
  BY <1>1, <1>3
<1>8. queue' = rest
  BY DEF rest
<1>9. ASSUME received' = Append(received, Head(queue).item)
      PROVE  LineTyped' /\ Line' = Line /\ \E y \in Seq(Things) : received' = received \o y
  <2>1. received' = received \o z
    BY <1>5, <1>9 DEF h
  <2>2. Line' = received' \o ItemsOf(queue')
    BY DEF Line, ItemsOf
  <2>3. Line = received \o (z \o ItemsOf(rest))
    BY <1>2, <1>3, <1>4 DEF Line
  <2>4. Line' = Line
    BY <1>6, <1>8, <2>1, <2>2, <2>3
  <2>5. LineTyped'
    BY <1>2, <1>7, <1>8, <2>1 DEF LineTyped
  <2> QED BY <1>3, <2>1, <2>4, <2>5
<1> QED BY <1>2, <1>3, <1>8, <1>9 DEF h

\* What an attempt has streamed goes on chunk by chunk, and starts with nothing.
LEMMA ChunkStreamed ==
    ASSUME AgentTyped, NEW frame \in StreamFrames, frames' = Append(frames, frame)
    PROVE  /\ frame.type = "chunk" /\ frame.of = attempt /\ attempt' = attempt
                 => Emitted' = Emitted + 1
           /\ frame.type # "chunk" /\ frame.of = attempt'
              /\ (\A f \in DOMAIN frames : frames[f].of # attempt')
                 => Emitted' = 0
<1> DEFINE C == {f \in DOMAIN frames : frames[f].of = attempt /\ frames[f].type = "chunk"}
           D == {f \in DOMAIN frames' : frames'[f].of = attempt' /\ frames'[f].type = "chunk"}
           n == Len(frames)
<1>1. n \in Nat /\ DOMAIN frames = 1..n /\ DOMAIN frames' = 1..n + 1
      /\ (\A f \in 1..n : frames'[f] = frames[f]) /\ frames'[n + 1] = frame
  BY DEF AgentTyped
<1>2. IsFiniteSet(C) /\ Emitted = Cardinality(C) /\ Emitted' = Cardinality(D)
  BY ChunksCounted DEF Emitted
<1>3. ASSUME frame.type = "chunk", frame.of = attempt, attempt' = attempt
      PROVE  Emitted' = Emitted + 1
  <2>1. D = C \cup {n + 1} /\ n + 1 \notin C
    BY <1>1, <1>3
  <2> HIDE DEF C, D, n
  <2>2. Cardinality(C \cup {n + 1}) = Cardinality(C) + 1
    BY <1>2, <2>1, FS_AddElement
  <2> QED BY <1>2, <2>1, <2>2
<1>4. ASSUME frame.type # "chunk", frame.of = attempt', \A f \in DOMAIN frames : frames[f].of # attempt'
      PROVE  Emitted' = 0
  <2>1. D = {}
    BY <1>1, <1>4
  <2> HIDE DEF D
  <2> QED BY <1>2, <2>1, FS_EmptySet
<1> QED BY <1>3, <1>4

\* Before anything is told
LEMMA NothingTold ==
    ASSUME NEW l, NEW totals, totals = [counted |-> {}, lastUsage |-> 0], NEW last, last = 0,
           NEW q, q = <<>>, NEW count, NEW drawn, NEW begun
    PROVE  Transcript(l, q, totals, last, count, drawn, begun)
<1>1. q \in Seq(Things) /\ OfTheLog(l, q, last, begun) /\ InOrder(l, q)
  BY DEF OfTheLog, InOrder
<1>2. \A seq \in 1..last : SaysIn(l, q, seq, count, drawn)
  OBVIOUS
<1>3. Tallied(l, totals, last)
  <2>1. BilledIn(l, last) = {}
    BY DEF BilledIn
  <2>2. \A s \in 1..last : FALSE
    OBVIOUS
  <2> QED BY <2>1, <2>2 DEF Tallied
<1>4. Metered(q, totals, last, count)
  BY DEF Metered
<1> QED BY <1>1, <1>2, <1>3, <1>4 DEF Transcript

\* The replay tells the whole log, and what was held is told when the stream lets
\* it go.
LEMMA ReplayTells ==
    ASSUME log \in Seq(AgentEvents), StepsGoOn(log), NEW drawn \in BOOLEAN,
           \A i, j \in DOMAIN log :
             i < j /\ log[i].kind = "settled" /\ log[j].kind = "settled" => log[i].of # log[j].of,
           Totals.counted = {}, Totals.lastUsage = 0
    PROVE  LET m == Mapped([seq \in DOMAIN log |-> seq], TRUE, 0)
           IN  /\ m.jobs \in Seq(JobThings) /\ ItemsOf(m.jobs) \in Seq(Things)
               /\ Transcript(log, ItemsOf(m.jobs), m.totals, Len(log), Len(log), drawn, {})
<1>1. PICK seqs, base, q, count, begun, replay, committed :
         /\ seqs = [seq \in DOMAIN log |-> seq] /\ base = 0 /\ q = <<>> /\ count = Len(log)
         /\ begun = {} /\ replay = TRUE /\ committed = 0
  OBVIOUS
<1>2. /\ base \in Nat /\ seqs \in Seq(Nat) /\ count \in Nat /\ replay \in BOOLEAN
      /\ Len(seqs) = Len(log) /\ \A n \in 1..Len(seqs) : seqs[n] = base + n
      /\ base + Len(seqs) = Len(log) /\ base + Len(seqs) <= Len(log)
      /\ base + Len(seqs) <= count
  BY <1>1
<1>3. Transcript(log, q, Totals, base, count, drawn, begun)
  <2>1. Totals = [counted |-> {}, lastUsage |-> 0]
    BY DEF Totals
  <2> QED BY <1>1, <2>1, NothingTold
<1>4. LoopFollows(base, seqs, q, count, drawn, begun, replay, committed)
  BY <1>1, <1>2, <1>3 DEF LoopFollows
<1>5. LET m == Mapped(seqs, replay, committed)
      IN  /\ m.jobs \in Seq(JobThings)
          /\ Transcript(log, q \o ItemsOf(m.jobs), m.totals, base + Len(seqs), count, drawn,
                        begun)
          /\ ~replay => \A k \in DOMAIN ItemsOf(m.jobs) : ItemsOf(m.jobs)[k].kind # "text"
          /\ Identities(q) \subseteq Identities(q \o ItemsOf(m.jobs))
  BY ONLY <1>4, LoopTells
<1> DEFINE m == Mapped(seqs, replay, committed)
<1>6. m.jobs \in Seq(JobThings)
      /\ Transcript(log, q \o ItemsOf(m.jobs), m.totals, base + Len(seqs), count, drawn, begun)
  BY <1>5
<1>7. m = Mapped([seq \in DOMAIN log |-> seq], TRUE, 0)
  BY <1>1
<1> HIDE DEF m
<1>8. ItemsOf(m.jobs) \in Seq(Things) /\ q \o ItemsOf(m.jobs) = ItemsOf(m.jobs)
  <2>1. ItemsOf(m.jobs) \in Seq(Things)
    BY <1>6, ItemsJoin
  <2> QED BY <1>1, <2>1, ConcatEmptySeq
<1>9. Transcript(log, ItemsOf(m.jobs), m.totals, Len(log), Len(log), drawn, {})
  BY <1>1, <1>2, <1>6, <1>8
<1> QED BY <1>6, <1>7, <1>8, <1>9

-----------------------------------------------------------------------------
(* The agent's turn *)

\* The attempts that have started
Started == {frames[f].of : f \in DOMAIN frames}

\* Steps go on, an attempt that is being made has begun, and what settled it is
\* the last event until its end frame.
AgentTurn ==
    /\ StepsGoOn(log) /\ \A i \in DOMAIN log : log[i].step <= step
    /\ attempt # NoAttempt => attempt \in Started
    /\ due # 0 => /\ attempt # NoAttempt /\ due = Len(log)
                  /\ log[due] = [kind |-> "settled", step |-> step, of |-> attempt,
                                 chunks |-> Emitted]

\* A session is loaded between attempts.
LEMMA TurnStarts == InitOutput => AgentTurn
<1> SUFFICES ASSUME InitOutput PROVE AgentTurn
  OBVIOUS
<1>1. /\ log \in Seq(Event)
      /\ \A i, j \in DOMAIN log : i < j => log[i].step <= log[j].step
  BY SessionOutputAssumption DEF InitOutput
<1>2. AgentTyped
  BY AgentStarts
<1>3. \A i \in DOMAIN log : log[i].step <= step
  <2> SUFFICES ASSUME NEW i \in DOMAIN log PROVE log[i].step <= step
    OBVIOUS
  <2>1. log \in Seq(AgentEvents)
    BY <1>2 DEF AgentTyped
  <2>2. Len(log) \in DOMAIN log /\ i <= Len(log) /\ i \in Nat /\ Len(log) \in Nat
    BY <2>1
  <2>3. log # <<>>
    BY <2>1
  <2>4. step = 1 + log[Len(log)].step
    BY <2>3 DEF InitOutput
  <2>5. log[i] \in AgentEvents /\ log[Len(log)] \in AgentEvents
    BY <2>1, <2>2
  <2>6. log[i].step \in Nat /\ log[Len(log)].step \in Nat
    BY <2>5 DEF AgentEvents
  <2>7. log[i].step <= log[Len(log)].step
    <3>1. CASE i = Len(log)
      BY <2>6, <3>1
    <3>2. CASE i < Len(log)
      BY <1>1, <2>2, <3>2
    <3> QED BY <2>2, <3>1, <3>2
  <2> QED BY <2>4, <2>6, <2>7
<1> QED BY <1>1, <1>3 DEF InitOutput, AgentTurn, StepsGoOn

\* An event of the step under way keeps the steps in order.
LEMMA EventAppended ==
    ASSUME AgentTyped, AgentTurn, NEW event \in AgentEvents, event.step = step,
           log' = Append(log, event), step' \in Nat, step <= step'
    PROVE  /\ GoesOnFrom(log, log') /\ StepsGoOn(log') /\ \A i \in DOMAIN log' : log'[i].step <= step'
           /\ Len(log') = Len(log) + 1 /\ log'[Len(log) + 1] = event
<1>1. /\ log \in Seq(AgentEvents) /\ log' \in Seq(AgentEvents) /\ step \in Nat /\ Len(log) \in Nat
      /\ Len(log') = Len(log) + 1 /\ log'[Len(log) + 1] = event
      /\ \A i \in DOMAIN log : log'[i] = log[i]
      /\ \A i \in DOMAIN log' : i \in DOMAIN log \/ i = Len(log) + 1
      /\ DOMAIN log = 1..Len(log) /\ DOMAIN log' = 1..(Len(log) + 1)
  BY DEF AgentTyped
<1>2. \A i \in DOMAIN log' : log'[i].step \in Nat /\ log'[i].step <= step
  <2>1. \A i \in DOMAIN log : log[i].step <= step
    BY DEF AgentTurn
  <2>2. \A i \in DOMAIN log' : log'[i] \in AgentEvents
    BY <1>1
  <2>3. \A i \in DOMAIN log' : log'[i].step \in Nat
    BY <2>2 DEF AgentEvents
  <2> QED BY <1>1, <2>1, <2>3
<1>3. ASSUME NEW i \in DOMAIN log', NEW j \in DOMAIN log', i < j
      PROVE  log'[i].step <= log'[j].step
  <2>1. CASE j \in DOMAIN log
    <3>1. i \in DOMAIN log
      BY <1>1, <1>3, <2>1
    <3> QED BY <1>1, <1>3, <2>1, <3>1 DEF AgentTurn, StepsGoOn
  <2>2. CASE j = Len(log) + 1
    BY <1>1, <1>2, <2>2
  <2> QED BY <1>1, <2>1, <2>2
<1>4. \A i \in DOMAIN log' : log'[i].step <= step'
  BY <1>1, <1>2
<1> QED BY <1>1, <1>3, <1>4 DEF GoesOnFrom, StepsGoOn

\* A frame makes its attempt one that has started.
LEMMA FrameStarts ==
    ASSUME AgentTyped, NEW frame, frames' = Append(frames, frame)
    PROVE  /\ Started' = Started \cup {frame.of} /\ Len(frames') = Len(frames) + 1
           /\ Len(frames) \in Nat
<1>1. /\ frames \in Seq(StreamFrames) /\ Len(frames) \in Nat /\ DOMAIN frames = 1..Len(frames)
      /\ DOMAIN frames' = 1..(Len(frames) + 1) /\ Len(frames') = Len(frames) + 1
      /\ \A f \in 1..Len(frames) : frames'[f] = frames[f]
      /\ frames'[Len(frames) + 1] = frame
  BY DEF AgentTyped
<1>2. Started' = {frames'[f].of : f \in 1..(Len(frames) + 1)}
  BY <1>1 DEF Started
<1>3. Started = {frames[f].of : f \in 1..Len(frames)}
  BY <1>1 DEF Started
<1>4. \A f \in 1..(Len(frames) + 1) : f \in 1..Len(frames) \/ f = Len(frames) + 1
  BY <1>1
<1>5. \A f \in 1..Len(frames) : f \in 1..(Len(frames) + 1)
  BY <1>1
<1>6. Len(frames) + 1 \in 1..(Len(frames) + 1)
  BY <1>1
<1> QED BY <1>1, <1>2, <1>3, <1>4, <1>5, <1>6

\* The turn is the agent's alone.
LEMMA TurnStays ==
    ASSUME AgentTurn, UNCHANGED native
    PROVE  AgentTurn' /\ Emitted' = Emitted /\ Started' = Started
  BY DEF native, AgentTurn, Emitted, Started

\* Every step keeps the order of the turn.
LEMMA TurnGoesOn ==
    ASSUME AgentTyped, AgentTurn, NextOutput
    PROVE  AgentTurn'
<1>1. CASE UNCHANGED native
  BY <1>1, TurnStays
<1>2. CASE AppendPrompt \/ AppendAside \/ AppendTool \/ AppendRetry
  <2>1. PICK kind \in {"prompt", "aside", "tool", "retry"} : Appended(Other(kind))
    BY <1>2 DEF AppendPrompt, AppendAside, AppendTool, AppendRetry
  <2>2. Other(kind) \in AgentEvents /\ Other(kind).step = step
    BY DEF Other, AgentEvents, AgentTyped, Makers, Kinds
  <2>3. step' \in Nat /\ step <= step' /\ due' = due
    BY <1>2 DEF AppendPrompt, AppendAside, AppendTool, AppendRetry, AgentTyped
  <2>4. log' = Append(log, Other(kind)) /\ due = 0 /\ UNCHANGED <<attempt, frames>>
    BY <2>1 DEF Appended
  <2>5. StepsGoOn(log') /\ \A i \in DOMAIN log' : log'[i].step <= step'
    BY <2>2, <2>3, <2>4, EventAppended
  <2> QED BY <2>3, <2>4, <2>5 DEF AgentTurn, Started
<1>3. CASE AppendSettlement
  <2> DEFINE event == [kind |-> "settled", step |-> step, of |-> attempt, chunks |-> Emitted]
  <2>1. event \in AgentEvents /\ event.step = step
    BY ChunksCounted DEF AgentEvents, AgentTyped, Kinds
  <2>2. /\ log' = Append(log, event) /\ due' = Len(log) + 1 /\ step' = step /\ attempt # NoAttempt
        /\ UNCHANGED <<attempt, frames>>
    BY <1>3 DEF AppendSettlement, Appended
  <2>3. step' \in Nat /\ step <= step'
    BY <2>2 DEF AgentTyped
  <2> HIDE DEF event
  <2>4. /\ StepsGoOn(log') /\ \A i \in DOMAIN log' : log'[i].step <= step'
        /\ Len(log') = Len(log) + 1 /\ log'[Len(log) + 1] = event
    BY <2>1, <2>2, <2>3, EventAppended
  <2>5. Emitted' = Emitted /\ Started' = Started
    BY <2>2 DEF Emitted, Started
  <2>6. event = [kind |-> "settled", step |-> step', of |-> attempt', chunks |-> Emitted']
    BY <2>2, <2>5 DEF event
  <2> QED BY <2>2, <2>4, <2>5, <2>6 DEF AgentTurn
<1>4. ASSUME NEW a \in Attempts, StartAttempt(a) PROVE AgentTurn'
  <2>1. PICK frame : frames' = Append(frames, frame) /\ frame.of = a
    BY <1>4 DEF StartAttempt, Framed
  <2>2. /\ UNCHANGED <<log, step, due>> /\ attempt' = a /\ due = 0
    BY <1>4 DEF StartAttempt, Framed, AgentTurn
  <2> QED BY <2>1, <2>2, FrameStarts DEF AgentTurn
<1>5. CASE StreamChunk
  <2>1. PICK frame : frames' = Append(frames, frame)
    BY <1>5 DEF StreamChunk, Framed
  <2>2. UNCHANGED <<log, step, due, attempt>> /\ due = 0
    BY <1>5 DEF StreamChunk, Framed
  <2> QED BY <2>1, <2>2, FrameStarts DEF AgentTurn
<1>6. CASE EndAttempt
  <2>1. UNCHANGED <<log, step>> /\ attempt' = NoAttempt /\ due' = 0
    BY <1>6 DEF EndAttempt, Framed
  <2> QED BY <2>1 DEF AgentTurn
<1>7. CASE \E f \in DOMAIN frames : FrameAgain(f)
  BY <1>1, <1>7 DEF FrameAgain
<1>8. CASE \/ \E drawn \in BOOLEAN : Restore(drawn)
           \/ PublishNew \/ RestoreEnds \/ Draining \/ Retire \/ DisposeOutput
  BY <1>1, <1>8 DEF Restore, PublishNew, RestoreEnds, Draining, RunHead, SocketDrained, ImageRead,
                    Retire, DisposeOutput
<1> QED BY <1>2, <1>3, <1>4, <1>5, <1>6, <1>7, <1>8 DEF NextOutput, Agent

-----------------------------------------------------------------------------
(* The record that follows the agent *)

\* The state of the stream, with any step and event.
Streams == [attempt : Makers, step : Nat, revision : Nat, delivered : SUBSET Nat,
            closed : BOOLEAN, pending : Seq(Nat)]

\* The events that were told, all but those that wait for an end frame
Heard == Len(log) - Len(stream.pending)

\* The stream of the record is that of the agent.
StreamFollowed ==
    /\ stream \in Streams
    /\ lastSeq = Len(log) /\ stream.revision = Len(frames)
    /\ stream.attempt # NoAttempt => stream.attempt \in Started
    /\ stream.closed <=> attempt = NoAttempt
    /\ stream.closed => stream.pending = <<>>
    /\ ~stream.closed => /\ stream.attempt = attempt /\ stream.step = step
                         /\ stream.delivered = 1..Emitted

\* What waits for an end frame are the last events, and the settlement it names.
HeldAreLast ==
    /\ Len(stream.pending) <= Len(log)
    /\ \A i \in 1..Len(stream.pending) :
         /\ stream.pending[i] = Heard + i
         /\ log[Heard + i].kind \in {"aside", "settled"}
         /\ log[Heard + i].kind = "settled" => Heard + i = due

\* The client is told the chunks of the attempt that is being made.
ChunksTold ==
    attempt # NoAttempt =>
        /\ \A i \in 1..Emitted : <<"text", attempt, i>> \in Identities(Line)
        /\ \A k \in DOMAIN Line :
             Line[k].kind = "text" /\ Line[k].of = attempt => Line[k].i < Emitted + 1

\* The client was told the log, or will be when the line is drained, up to what is held.
LogTold ==
    /\ replayed \in [count : Nat, drawn : BOOLEAN] /\ replayed.count <= Heard
    /\ Transcript(log, Line, Totals, Heard, replayed.count, replayed.drawn, Started)

Followed == StreamFollowed /\ HeldAreLast /\ ChunksTold /\ LogTold
OutputReady == AgentTyped /\ AgentTurn /\ OutputEnding /\ LineTyped
SentMore == \E z \in Seq(Things) : received' = received \o z

\* Sending nothing is sending more of nothing.
LEMMA SameReceived ==
    ASSUME LineTyped, received' = received PROVE SentMore
<1>1. received = received \o <<>> /\ <<>> \in Seq(Things)
  BY ConcatEmptySeq DEF LineTyped
<1> QED BY <1>1 DEF SentMore

\* A settlement, or an aside of the step that is streamed, is held.
LEMMA EventHeld ==
    ASSUME OutputReady, Following, Followed, NEW event \in AgentEvents, event.step = step,
           Appended(event), Held(event), step' = step,
           IF event.kind = "settled" THEN due' = Len(log) + 1 ELSE due' = due
    PROVE  Followed' /\ LineTyped' /\ SentMore
<1>1. /\ log' = Append(log, event) /\ lastSeq' = Len(log) + 1 /\ due = 0
      /\ stream' = [stream EXCEPT !.pending = Append(@, Len(log) + 1)]
      /\ UNCHANGED <<attempt, frames, phase, replayed, queue, counted, lastUsage, received>>
  BY DEF Appended, Live, meters
<1>2. event.kind \in {"aside", "settled"} /\ ~stream.closed
  BY DEF Held
<1>3. /\ AgentTyped /\ AgentTurn /\ LineTyped /\ StreamFollowed /\ HeldAreLast /\ ChunksTold /\ LogTold
  BY DEF OutputReady, Followed
<1>4. /\ GoesOnFrom(log, log') /\ Len(log') = Len(log) + 1 /\ log'[Len(log) + 1] = event
      /\ Len(log) \in Nat
  <2>1. step' \in Nat /\ step <= step'
    BY <1>3 DEF AgentTyped
  <2>2. /\ GoesOnFrom(log, log') /\ StepsGoOn(log') /\ \A i \in DOMAIN log' : log'[i].step <= step'
        /\ Len(log') = Len(log) + 1 /\ log'[Len(log) + 1] = event
    BY <1>1, <1>3, <2>1, EventAppended
  <2>3. Len(log) \in Nat
    BY <1>3 DEF AgentTyped
  <2> QED BY <2>2, <2>3
<1>5. /\ stream \in Streams /\ stream' \in Streams /\ Len(stream.pending) \in Nat
      /\ stream'.pending = Append(stream.pending, Len(log) + 1)
      /\ stream'.attempt = stream.attempt /\ stream'.closed = stream.closed
      /\ stream'.step = stream.step /\ stream'.revision = stream.revision
      /\ stream'.delivered = stream.delivered
  <2>1. stream \in Streams
    BY <1>3 DEF StreamFollowed
  <2> DEFINE more == Append(stream.pending, Len(log) + 1)
  <2>2. more \in Seq(Nat) /\ Len(stream.pending) \in Nat
    BY <1>4, <2>1 DEF Streams
  <2>3. stream' = [stream EXCEPT !.pending = more]
    BY <1>1
  <2> HIDE DEF more
  <2>4. stream' \in Streams /\ stream'.pending = more
    BY <2>1, <2>2, <2>3 DEF Streams
  <2>5. /\ stream'.attempt = stream.attempt /\ stream'.closed = stream.closed
        /\ stream'.step = stream.step /\ stream'.revision = stream.revision
        /\ stream'.delivered = stream.delivered
    BY <2>1, <2>3 DEF Streams
  <2> QED BY <2>1, <2>2, <2>4, <2>5 DEF more
<1>6. /\ Len(stream'.pending) = Len(stream.pending) + 1
      /\ stream'.pending[Len(stream.pending) + 1] = Len(log) + 1
      /\ \A i \in 1..Len(stream.pending) : stream'.pending[i] = stream.pending[i]
  BY <1>4, <1>5 DEF Streams
<1>7. Line' = Line /\ Totals' = Totals /\ Emitted' = Emitted /\ Started' = Started /\ Heard' = Heard
  <2>1. Heard' = Heard
    <3>1. /\ Len(log') = Len(log) + 1 /\ Len(stream'.pending) = Len(stream.pending) + 1
          /\ Len(log) \in Nat /\ Len(stream.pending) \in Nat
      BY <1>4, <1>5, <1>6
    <3> QED BY ONLY <3>1 DEF Heard
  <2> QED BY <1>1, <2>1 DEF Line, ItemsOf, Totals, Emitted, Started
<1>8. StreamFollowed'
  BY <1>1, <1>2, <1>3, <1>4, <1>5, <1>7 DEF StreamFollowed
<1>9. HeldAreLast'
  <2>1. Heard + Len(stream.pending) = Len(log) /\ Len(stream.pending) <= Len(log) /\ Heard \in Nat
    BY <1>3, <1>4, <1>5 DEF HeldAreLast, Heard
  <2>2. ASSUME NEW i \in 1..Len(stream'.pending)
        PROVE  /\ stream'.pending[i] = Heard + i
               /\ log'[Heard + i].kind \in {"aside", "settled"}
               /\ log'[Heard + i].kind = "settled" => Heard + i = due'
    <3>1. CASE i = Len(stream.pending) + 1
      <4>1. Heard + i = Len(log) + 1
        <5>1. Len(stream.pending) \in Nat /\ Len(log) \in Nat
          BY <1>4, <1>5
        <5> QED BY ONLY <2>1, <3>1, <5>1
      <4> QED BY <1>2, <1>4, <1>6, <3>1, <4>1
    <3>2. CASE i \in 1..Len(stream.pending)
      <4>1. /\ stream.pending[i] = Heard + i /\ log[Heard + i].kind \in {"aside", "settled"}
            /\ log[Heard + i].kind = "settled" => Heard + i = due
        BY <1>3, <3>2 DEF HeldAreLast
      <4>2. Heard + i \in DOMAIN log /\ Heard + i # 0
        BY <1>4, <1>5, <2>1, <3>2
      <4>3. log'[Heard + i] = log[Heard + i]
        BY <1>4, <4>2 DEF GoesOnFrom
      <4> QED BY <1>1, <1>6, <3>2, <4>1, <4>2, <4>3
    <3> QED BY <1>5, <1>6, <3>1, <3>2
  <2>3. Len(stream'.pending) <= Len(log')
    BY <1>4, <1>5, <1>6, <2>1
  <2> QED BY <1>7, <2>2, <2>3 DEF HeldAreLast
<1>10. ChunksTold'
  BY <1>1, <1>3, <1>7 DEF ChunksTold, Identities, Identity
<1>11. LogTold'
  <2>1. Heard \in Nat /\ Heard <= Len(log)
    BY <1>3, <1>4, <1>5 DEF HeldAreLast, Heard
  <2>2. Transcript(log, Line, Totals, Heard, replayed.count, replayed.drawn, Started)
    BY <1>3 DEF LogTold
  <2>3. Transcript(log', Line, Totals, Heard, replayed.count, replayed.drawn, Started)
    BY <1>4, <2>1, <2>2, TranscriptKept
  <2> QED BY <1>1, <1>3, <1>7, <2>3 DEF LogTold
<1>12. LineTyped' /\ SentMore
  BY <1>1, <1>3, SameReceived DEF LineTyped
<1> QED BY <1>8, <1>9, <1>10, <1>11, <1>12 DEF Followed

\* Between attempts an event is told at once.
LEMMA EventFollowed ==
    ASSUME OutputReady, Following, Followed, NEW event \in AgentEvents, event.step = step,
           event.kind # "settled", attempt = NoAttempt, Appended(event), step' \in Nat, step <= step',
           due' = due
    PROVE  Followed' /\ LineTyped' /\ SentMore
<1>1. /\ AgentTyped /\ AgentTurn /\ LineTyped /\ StreamFollowed /\ LogTold /\ OutputEnding
      /\ ~tail => queue = <<>>
  BY DEF OutputReady, Followed, OutputEnding
<1>2. stream \in Streams /\ stream.closed /\ stream.pending = <<>> /\ ~Held(event)
  BY <1>1 DEF StreamFollowed, Held
<1> DEFINE seq == Len(log) + 1
           noted == Note(Totals, event, seq, Append(log, event))
           jobs == Jobs(event, seq, FALSE, {}, noted.counted)
<1>3. /\ log' = Append(log, event) /\ lastSeq' = Len(log) + 1 /\ stream' = stream
      /\ UNCHANGED <<attempt, frames, phase, replayed>>
      /\ SetTotals(noted) /\ Send(jobs)
  BY <1>2 DEF Appended, Live
<1>4. /\ GoesOnFrom(log, log') /\ Len(log') = seq /\ log'[seq] = event /\ StepsGoOn(log')
      /\ Len(log) \in Nat
  <2>1. /\ GoesOnFrom(log, log') /\ StepsGoOn(log') /\ \A i \in DOMAIN log' : log'[i].step <= step'
        /\ Len(log') = Len(log) + 1 /\ log'[Len(log) + 1] = event
    BY <1>1, <1>3, EventAppended
  <2>2. Len(log) \in Nat
    BY <1>1 DEF AgentTyped
  <2> QED BY <2>1, <2>2
<1>5. Heard = Len(log) /\ Heard' = seq
  <2>1. /\ Len(stream.pending) = 0 /\ Len(stream'.pending) = 0
        /\ Len(log') = Len(log) + 1 /\ Len(log) \in Nat
    BY <1>2, <1>3, <1>4
  <2>2. Heard = Len(log)
    BY ONLY <2>1 DEF Heard
  <2>3. Heard' = Len(log) + 1
    BY ONLY <2>1 DEF Heard
  <2> QED BY <2>2, <2>3
<1>6. /\ replayed \in [count : Nat, drawn : BOOLEAN] /\ replayed.count <= Len(log)
      /\ Transcript(log, Line, Totals, Len(log), replayed.count, replayed.drawn, Started)
  BY <1>1, <1>5 DEF LogTold
<1>7. PICK l, q, totals, last, count, drawn, begun, s, replay, delivered, n, z, r :
         /\ l = log' /\ q = Line /\ totals = Totals /\ last = Len(log) /\ count = replayed.count
         /\ drawn = replayed.drawn /\ begun = Started /\ s = seq /\ replay = FALSE
         /\ delivered = {} /\ n = noted /\ z = Items(event, seq, FALSE, {}, noted.counted)
         /\ r = q \o z
  OBVIOUS
<1> HIDE DEF noted, jobs
<1>8. ComesNext(l, q, totals, last, count, drawn, begun, s, replay, delivered, n, z, r)
  <2>1. Transcript(log', Line, Totals, Len(log), replayed.count, replayed.drawn, Started)
    <3>1. Len(log) <= Len(log) /\ Len(log) \in Nat
      BY <1>4
    <3> QED BY <1>4, <1>6, <3>1, TranscriptKept
  <2>2. Transcript(l, q, totals, last, count, drawn, begun)
    BY <1>7, <2>1
  <2>3. l \in Seq(AgentEvents) /\ StepsGoOn(l) /\ last \in Nat /\ count \in Nat /\ drawn \in BOOLEAN
    BY <1>4, <1>6, <1>7 DEF GoesOnFrom
  <2>4. s = last + 1 /\ s <= Len(l) /\ replay \in BOOLEAN /\ (replay <=> s <= count)
    <3>1. last \in Nat /\ count \in Nat /\ count <= last /\ s = last + 1 /\ replay = FALSE
          /\ Len(l) = s
      BY <1>4, <1>6, <1>7
    <3>2. replay \in BOOLEAN /\ ~replay
      BY ONLY <3>1
    <3>3. s <= Len(l)
      BY ONLY <3>1
    <3>4. ~(s <= count)
      BY ONLY <3>1
    <3> QED BY ONLY <3>1, <3>2, <3>3, <3>4
  <2>5. l[s] = event /\ z = Items(l[s], s, replay, delivered, n.counted)
    BY <1>4, <1>7
  <2>6. Streamed(l, q, s, replay, delivered)
    BY <1>7, <2>5 DEF Streamed
  <2>7. n = Note(totals, l[s], s, l)
    BY <1>3, <1>7, <2>5 DEF noted
  <2>8. r = q \o z
    BY <1>7
  <2> QED BY ONLY <2>2, <2>3, <2>4, <2>5, <2>6, <2>7, <2>8 DEF ComesNext
<1>9. /\ Transcript(l, r, n, s, count, drawn, begun) /\ z \in Seq(Things)
  BY ONLY <1>8, TranscriptGoesOn
<1>10. jobs \in Seq(JobThings) /\ ItemsOf(jobs) = z
  <2>1. PICK image, rep : image = (IF event.kind = "tool" THEN seq ELSE 0) /\ rep = FALSE
    OBVIOUS
  <2>2. image \in Nat /\ rep \in BOOLEAN
    <3>1. seq \in Nat
      BY <1>4
    <3>2. image = seq \/ image = 0
      BY <2>1
    <3>3. rep \in BOOLEAN
      BY <2>1
    <3> HIDE DEF seq
    <3> QED BY ONLY <3>1, <3>2, <3>3
  <2>3. jobs = JobsOf(z, image, rep)
    BY <1>7, <2>1 DEF jobs, Jobs
  <2>4. LET js == JobsOf(z, image, rep)
        IN  /\ js \in Seq(JobThings) /\ ItemsOf(js) = z
            /\ js = <<>> <=> z = <<>>
            /\ \A k \in DOMAIN js : js[k].image = image
    BY ONLY <1>9, <2>2, JobsCarry
  <2> QED BY <2>3, <2>4
<1>11. LineTyped' /\ Line' = Line \o z /\ SentMore
  BY <1>1, <1>3, <1>10, Sent DEF SentMore
<1>12. Totals' = noted
  <2>1. noted = [counted |-> noted.counted, lastUsage |-> noted.lastUsage]
    BY <1>7, <1>9 DEF Transcript, Tallied
  <2>2. counted' = noted.counted /\ lastUsage' = noted.lastUsage
    BY <1>3 DEF SetTotals
  <2> QED BY <2>1, <2>2 DEF Totals
<1>13. Started' = Started /\ attempt' = attempt
  BY <1>3 DEF Started
<1>14. LogTold'
  <2>1. Transcript(log', Line', Totals', Heard', replayed.count, replayed.drawn, Started')
    BY <1>5, <1>7, <1>9, <1>11, <1>12, <1>13
  <2>2. replayed.count <= seq
    BY <1>4, <1>6
  <2> QED BY <1>3, <1>5, <1>6, <2>1, <2>2 DEF LogTold
<1>15. StreamFollowed'
  BY <1>1, <1>2, <1>3, <1>4, <1>13 DEF StreamFollowed
<1>16. HeldAreLast'
  <2>1. Len(stream'.pending) = 0 /\ Len(log') \in Nat
    BY <1>2, <1>3, <1>4
  <2> QED BY <2>1 DEF HeldAreLast
<1>17. ChunksTold'
  BY <1>3 DEF ChunksTold
<1> QED BY <1>11, <1>14, <1>15, <1>16, <1>17 DEF Followed

\* What was held is told when the end frame names the settlement, or when nothing
\* is held.
LEMMA HeldTold ==
    ASSUME OutputReady, Followed, NEW committed \in Nat, DrainedEvents(committed),
           stream.pending # <<>> => committed = due
    PROVE  /\ LineTyped' /\ SentMore
           /\ Transcript(log, Line', Totals', Len(log), replayed.count, replayed.drawn, Started)
           /\ \A k \in DOMAIN Line' : Line'[k].kind = "text" => \E j \in DOMAIN Line : Line'[k] = Line[j]
<1>1. /\ AgentTyped /\ AgentTurn /\ LineTyped /\ StreamFollowed /\ HeldAreLast /\ ChunksTold /\ LogTold
      /\ ~tail => queue = <<>>
  BY DEF OutputReady, Followed, OutputEnding
<1>2. /\ log \in Seq(AgentEvents) /\ StepsGoOn(log) /\ stream \in Streams /\ Len(log) \in Nat
      /\ stream.pending \in Seq(Nat) /\ Len(stream.pending) \in Nat
  BY <1>1 DEF AgentTyped, AgentTurn, StreamFollowed, Streams
<1>3. /\ Heard \in Nat /\ Heard + Len(stream.pending) = Len(log)
      /\ \A i \in 1..Len(stream.pending) :
           /\ stream.pending[i] = Heard + i
           /\ log[Heard + i].kind \in {"aside", "settled"}
           /\ log[Heard + i].kind = "settled" => Heard + i = due
  BY <1>1, <1>2 DEF HeldAreLast, Heard
<1>4. /\ replayed.count \in Nat /\ replayed.drawn \in BOOLEAN /\ replayed.count <= Heard
      /\ Transcript(log, Line, Totals, Heard, replayed.count, replayed.drawn, Started)
  BY <1>1 DEF LogTold
<1>5. ASSUME NEW n \in 1..Len(stream.pending)
      PROVE  LET event == log[Heard + n]
             IN  IF event.kind # "settled" THEN Heard + n # committed
                 ELSE /\ Heard + n = committed /\ stream.delivered = 1..event.chunks
                      /\ \A i \in 1..event.chunks : <<"text", event.of, i>> \in Identities(Line)
  <2>1. committed = due /\ ~stream.closed
    BY <1>1, <1>2 DEF StreamFollowed
  <2>2. due # 0 => /\ attempt # NoAttempt /\ log[due].kind = "settled" /\ log[due].of = attempt
                   /\ log[due].chunks = Emitted
    BY <1>1 DEF AgentTurn
  <2>3. Heard + n # 0
    BY <1>3
  <2>4. CASE log[Heard + n].kind # "settled"
    BY <2>1, <2>2, <2>3, <2>4
  <2>5. CASE log[Heard + n].kind = "settled"
    <3>1. Heard + n = due /\ due # 0
      BY <1>3, <2>3, <2>5
    <3>2. stream.delivered = 1..Emitted
      BY <1>1, <2>1 DEF StreamFollowed
    <3>3. \A i \in 1..Emitted : <<"text", attempt, i>> \in Identities(Line)
      BY <1>1, <2>2, <3>1 DEF ChunksTold
    <3> QED BY <2>1, <2>2, <2>5, <3>1, <3>2, <3>3
  <2> QED BY <2>4, <2>5
<1>6. PICK base, q, count, drawn, begun, seqs, replay :
        /\ base = Heard /\ q = Line /\ count = replayed.count /\ drawn = replayed.drawn
        /\ begun = Started /\ seqs = stream.pending /\ replay = FALSE
  OBVIOUS
<1>7. LoopFollows(base, seqs, q, count, drawn, begun, replay, committed)
  <2>1. /\ base \in Nat /\ count \in Nat /\ drawn \in BOOLEAN /\ count <= base /\ seqs \in Seq(Nat)
        /\ base + Len(seqs) = Len(log) /\ \A n \in 1..Len(seqs) : seqs[n] = base + n
    BY <1>2, <1>3, <1>4, <1>6
  <2>2. Transcript(log, q, Totals, base, count, drawn, begun)
    BY <1>4, <1>6
  <2>3. base + Len(seqs) <= Len(log)
    <3>1. Len(log) <= Len(log)
      BY <1>2
    <3> QED BY ONLY <2>1, <3>1
  <2>4. \A n \in 1..Len(seqs) :
           LET event == log[base + n]
           IN  IF event.kind # "settled" THEN base + n # committed
               ELSE /\ base + n = committed /\ stream.delivered = 1..event.chunks
                    /\ \A i \in 1..event.chunks : <<"text", event.of, i>> \in Identities(q)
    BY <1>5, <1>6
  <2>5. replay \in BOOLEAN /\ ~replay
    BY <1>6
  <2>6. log \in Seq(AgentEvents) /\ StepsGoOn(log)
    BY <1>2
  <2> QED BY ONLY <2>1, <2>2, <2>3, <2>4, <2>5, <2>6 DEF LoopFollows
<1> DEFINE m == Mapped(seqs, FALSE, committed)
           z == ItemsOf(m.jobs)
<1>9. /\ m.jobs \in Seq(JobThings)
      /\ Transcript(log, q \o z, m.totals, Len(log), count, drawn, begun)
      /\ \A k \in DOMAIN z : z[k].kind # "text"
  <2>1. LET w == Mapped(seqs, replay, committed)
        IN  /\ w.jobs \in Seq(JobThings)
            /\ Transcript(log, q \o ItemsOf(w.jobs), w.totals, base + Len(seqs), count, drawn,
                          begun)
            /\ ~replay => \A k \in DOMAIN ItemsOf(w.jobs) : ItemsOf(w.jobs)[k].kind # "text"
            /\ Identities(q) \subseteq Identities(q \o ItemsOf(w.jobs))
    BY ONLY <1>7, LoopTells
  <2>2. replay = FALSE /\ base + Len(seqs) = Len(log)
    BY <1>3, <1>6
  <2> QED BY <2>1, <2>2
<1>10. SetTotals(m.totals) /\ Send(m.jobs)
  BY <1>6 DEF DrainedEvents
<1> HIDE DEF m
<1>11. LineTyped' /\ Line' = Line \o z /\ SentMore
  BY <1>1, <1>9, <1>10, Sent DEF SentMore
<1>12. Totals' = m.totals
  <2>1. m.totals = [counted |-> m.totals.counted, lastUsage |-> m.totals.lastUsage]
    BY <1>9 DEF Transcript, Tallied
  <2>2. counted' = m.totals.counted /\ lastUsage' = m.totals.lastUsage
    BY <1>10 DEF SetTotals
  <2> QED BY <2>1, <2>2 DEF Totals
<1>13. z \in Seq(Things) /\ Line \in Seq(Things)
  BY <1>4, <1>9, ItemsJoin DEF Transcript
<1> HIDE DEF z
<1>14. \A k \in DOMAIN Line' : Line'[k].kind = "text" => \E j \in DOMAIN Line : Line'[k] = Line[j]
  <2>1. LET w == Line \o z
        IN  /\ \A k \in DOMAIN Line : w[k] = Line[k]
            /\ \A k \in DOMAIN z : w[Len(Line) + k] = z[k]
            /\ \A k \in DOMAIN w : k \in DOMAIN Line \/ \E j \in DOMAIN z : k = Len(Line) + j
    BY ONLY <1>13, Inside
  <2> QED BY <1>9, <1>11, <2>1
<1> QED BY <1>6, <1>9, <1>11, <1>12, <1>14

\* An attempt starts between attempts, when nothing is held.
LEMMA StartFollowed ==
    ASSUME OutputReady, Following, Followed, NEW a \in Attempts, StartAttempt(a)
    PROVE  Followed' /\ LineTyped' /\ SentMore
<1> DEFINE frame == [type |-> "start", of |-> a, step |-> step, i |-> 0]
<1>1. /\ AgentTyped /\ AgentTurn /\ LineTyped /\ StreamFollowed /\ HeldAreLast /\ LogTold
  BY DEF OutputReady, Followed
<1>2. /\ attempt = NoAttempt /\ attempt' = a /\ due' = due /\ due = 0
      /\ (\A f \in DOMAIN frames : frames[f].of # a) /\ (\A seq \in DOMAIN log : log[seq].of # a)
      /\ frames' = Append(frames, frame) /\ Assistant(frame, Len(frames) + 1)
      /\ UNCHANGED <<log, step, phase, replayed, lastSeq>>
  BY <1>1 DEF StartAttempt, Framed, AgentTurn
<1>3. /\ frame \in StreamFrames /\ frame.of = a /\ frame.type = "start" /\ frame.step = step
      /\ a \in Makers /\ a # NoAttempt /\ step \in Nat /\ log \in Seq(AgentEvents) /\ Len(log) \in Nat
  BY <1>1, SessionOutputAssumption DEF StreamFrames, AgentTyped, Makers
<1> HIDE DEF frame
<1>4. stream \in Streams /\ stream.closed /\ stream.pending = <<>> /\ stream.revision = Len(frames)
      /\ stream.attempt # a
  <2>1. stream.attempt # NoAttempt => stream.attempt \in Started
    BY <1>1 DEF StreamFollowed
  <2>2. a \notin Started
    BY <1>2 DEF Started
  <2> QED BY <1>1, <1>2, <1>3, <2>1, <2>2 DEF StreamFollowed
<1>5. Started' = Started \cup {a} /\ Len(frames') = Len(frames) + 1 /\ Len(frames) \in Nat
  BY <1>1, <1>2, <1>3, FrameStarts
<1>6. Newer(Len(frames) + 1)
  BY <1>4, <1>5 DEF Newer
<1>7. /\ DrainedEvents(0)
      /\ stream' = [attempt |-> a, step |-> step, revision |-> Len(frames) + 1, delivered |-> {},
                    closed |-> FALSE, pending |-> <<>>]
  BY <1>2, <1>3, <1>4, <1>6 DEF Assistant
<1>8. /\ LineTyped' /\ SentMore
      /\ Transcript(log, Line', Totals', Len(log), replayed.count, replayed.drawn, Started)
      /\ \A k \in DOMAIN Line' : Line'[k].kind = "text" => \E j \in DOMAIN Line : Line'[k] = Line[j]
  <2>1. 0 \in Nat /\ ~(stream.pending # <<>>)
    BY <1>4
  <2>2. PICK zero : zero = 0
    OBVIOUS
  <2>3. zero \in Nat /\ DrainedEvents(zero) /\ (stream.pending # <<>> => zero = due)
    BY <1>7, <2>1, <2>2
  <2> QED BY <2>3, HeldTold
<1>9. stream' \in Streams
  <2>1. <<>> \in Seq(Nat) /\ Len(frames) + 1 \in Nat /\ {} \in SUBSET Nat /\ FALSE \in BOOLEAN
    BY <1>5
  <2> QED BY <1>3, <1>7, <2>1 DEF Streams
<1>10. Emitted' = 0
  <2>1. frame.type # "chunk" /\ frame.of = attempt' /\ \A f \in DOMAIN frames : frames[f].of # attempt'
    BY <1>2, <1>3
  <2> QED BY <1>1, <1>2, <1>3, <2>1, ChunkStreamed
<1>11. Heard = Len(log) /\ Heard' = Len(log)
  <2>1. Len(stream.pending) = 0 /\ Len(stream'.pending) = 0 /\ Len(log) \in Nat /\ log' = log
    BY <1>2, <1>3, <1>4, <1>7
  <2>2. Heard = Len(log)
    BY ONLY <2>1 DEF Heard
  <2>3. Heard' = Len(log)
    BY ONLY <2>1 DEF Heard
  <2> QED BY <2>2, <2>3
<1>12. StreamFollowed'
  <2>1. stream'.delivered = {} /\ 1..0 = {} /\ ~stream'.closed /\ stream'.attempt = a
        /\ stream'.step = step /\ stream'.revision = Len(frames) + 1
    BY <1>7
  <2>2. lastSeq = Len(log)
    BY <1>1 DEF StreamFollowed
  <2> QED BY <1>2, <1>3, <1>5, <1>9, <1>10, <2>1, <2>2 DEF StreamFollowed
<1>13. HeldAreLast'
  <2>1. Len(stream'.pending) = 0 /\ Len(log') \in Nat
    BY <1>2, <1>3, <1>7
  <2> QED BY <2>1 DEF HeldAreLast
<1>14. ChunksTold'
  <2>1. ASSUME NEW k \in DOMAIN Line', Line'[k].kind = "text", Line'[k].of = a PROVE FALSE
    <3>1. PICK j \in DOMAIN Line : Line'[k] = Line[j]
      BY <1>8, <2>1
    <3>2. OfTheLog(log, Line, Heard, Started)
      BY <1>1 DEF LogTold, Transcript
    <3>3. \/ a \in Started
          \/ \E s \in 1..Heard : log[s].kind = "settled" /\ log[s].of = a
      BY <2>1, <3>1, <3>2 DEF OfTheLog
    <3>4. \A s \in 1..Heard : s \in DOMAIN log
      BY <1>3, <1>11
    <3>5. a \notin Started
      BY <1>2 DEF Started
    <3> QED BY <1>2, <3>3, <3>4, <3>5
  <2>2. \A i \in 1..Emitted' : FALSE
    BY <1>10
  <2>3. \A k \in DOMAIN Line' : ~(Line'[k].kind = "text" /\ Line'[k].of = attempt')
    BY <1>2, <2>1
  <2> QED BY <2>2, <2>3 DEF ChunksTold
<1>15. LogTold'
  <2>1. replayed \in [count : Nat, drawn : BOOLEAN] /\ replayed.count <= Heard
    BY <1>1 DEF LogTold
  <2>2. GoesOnFrom(log, log') /\ Started \subseteq Started'
    BY <1>2, <1>3, <1>5 DEF GoesOnFrom
  <2>3. Transcript(log', Line', Totals', Len(log), replayed.count, replayed.drawn, Started')
    <3>1. Len(log) <= Len(log)
      BY <1>3
    <3> QED BY <1>3, <1>8, <2>2, <3>1, TranscriptKept
  <2> QED BY <1>2, <1>11, <2>1, <2>3 DEF LogTold
<1> QED BY <1>8, <1>12, <1>13, <1>14, <1>15 DEF Followed

\* The end frame tells what was held and closes the stream.
LEMMA EndFollowed ==
    ASSUME OutputReady, Following, Followed, EndAttempt
    PROVE  Followed' /\ LineTyped' /\ SentMore
<1> DEFINE frame == [type |-> "end", of |-> attempt, step |-> step, i |-> due]
<1>1. /\ AgentTyped /\ AgentTurn /\ LineTyped /\ StreamFollowed /\ HeldAreLast /\ LogTold
  BY DEF OutputReady, Followed
<1>2. /\ attempt # NoAttempt /\ attempt' = NoAttempt /\ due' = 0
      /\ frames' = Append(frames, frame) /\ Assistant(frame, Len(frames) + 1)
      /\ UNCHANGED <<log, step, phase, replayed, lastSeq>>
  BY DEF EndAttempt, Framed
<1>3. /\ frame.of = attempt /\ frame.type = "end" /\ frame.i = due
      /\ due \in Nat /\ log \in Seq(AgentEvents) /\ Len(log) \in Nat
  BY <1>1 DEF AgentTyped
<1> HIDE DEF frame
<1>4. stream \in Streams /\ ~stream.closed /\ stream.attempt = attempt /\ stream.revision = Len(frames)
  BY <1>1, <1>2 DEF StreamFollowed
<1>5. Started' = Started \cup {attempt} /\ Len(frames') = Len(frames) + 1 /\ Len(frames) \in Nat
  BY <1>1, <1>2, <1>3, FrameStarts
<1>6. Newer(Len(frames) + 1)
  BY <1>4, <1>5 DEF Newer
<1>7. /\ DrainedEvents(due)
      /\ stream' = [stream EXCEPT !.revision = Len(frames) + 1, !.delivered = {},
                                  !.closed = TRUE, !.pending = <<>>]
  BY <1>2, <1>3, <1>4, <1>6 DEF Assistant
<1>8. /\ LineTyped' /\ SentMore
      /\ Transcript(log, Line', Totals', Len(log), replayed.count, replayed.drawn, Started)
  BY <1>3, <1>7, HeldTold
<1>9. /\ stream' \in Streams /\ stream'.closed /\ stream'.pending = <<>>
      /\ stream'.attempt = attempt /\ stream'.revision = Len(frames) + 1
  <2>1. <<>> \in Seq(Nat) /\ Len(frames) + 1 \in Nat /\ {} \in SUBSET Nat
    BY <1>5
  <2> QED BY <1>4, <1>7, <2>1 DEF Streams
<1>10. Heard' = Len(log)
  <2>1. Len(stream'.pending) = 0 /\ Len(log) \in Nat /\ log' = log
    BY <1>2, <1>3, <1>9
  <2> QED BY ONLY <2>1 DEF Heard
<1>11. StreamFollowed'
  <2>1. lastSeq = Len(log)
    BY <1>1 DEF StreamFollowed
  <2> QED BY <1>2, <1>5, <1>9, <2>1 DEF StreamFollowed
<1>12. HeldAreLast'
  <2>1. Len(stream'.pending) = 0 /\ Len(log') \in Nat
    BY <1>2, <1>3, <1>9
  <2> QED BY <2>1 DEF HeldAreLast
<1>13. ChunksTold'
  BY <1>2 DEF ChunksTold
<1>14. LogTold'
  <2>1. /\ replayed \in [count : Nat, drawn : BOOLEAN] /\ replayed.count <= Heard
        /\ Heard <= Len(log)
    <3>1. Len(stream.pending) \in Nat
      BY <1>4 DEF Streams
    <3>2. Heard <= Len(log)
      BY <1>3, <3>1 DEF Heard
    <3> QED BY <1>1, <3>2 DEF LogTold
  <2>2. GoesOnFrom(log, log') /\ Started \subseteq Started'
    BY <1>2, <1>3, <1>5 DEF GoesOnFrom
  <2>3. Transcript(log', Line', Totals', Len(log), replayed.count, replayed.drawn, Started')
    <3>1. Len(log) <= Len(log)
      BY <1>3
    <3> QED BY <1>3, <1>8, <2>2, <3>1, TranscriptKept
  <2>4. replayed.count <= Len(log)
    <3>1. Len(stream.pending) \in Nat
      BY <1>4 DEF Streams
    <3>2. Heard \in Int /\ replayed.count \in Nat
      BY <1>3, <2>1, <3>1 DEF Heard
    <3> QED BY <1>3, <2>1, <3>2
  <2> QED BY <1>2, <1>10, <2>1, <2>3, <2>4 DEF LogTold
<1> QED BY <1>8, <1>11, <1>12, <1>13, <1>14 DEF Followed

\* A chunk is told, and is the next of its attempt.
LEMMA OneJob ==
    ASSUME NEW j \in JobThings PROVE <<j>> \in Seq(JobThings) /\ ItemsOf(<<j>>) = <<j.item>>
<1>1. ItemsOf(<<j>>) = [i \in 1..1 |-> <<j>>[i].item]
  BY DEF ItemsOf
<1>2. \A i \in 1..1 : <<j>>[i] = j
  OBVIOUS
<1> QED BY <1>1, <1>2

\* A chunk is sent behind the line and becomes the last that was delivered.
LEMMA ChunkFollowed ==
    ASSUME OutputReady, Following, Followed, StreamChunk
    PROVE  Followed' /\ LineTyped' /\ SentMore
<1> DEFINE frame == [type |-> "chunk", of |-> attempt, step |-> step, i |-> Emitted + 1]
           x == Text(attempt, Emitted + 1, NoMeters)
           more == stream.delivered \cup {Emitted + 1}
<1>1. /\ AgentTyped /\ AgentTurn /\ LineTyped /\ StreamFollowed /\ HeldAreLast /\ ChunksTold /\ LogTold
      /\ ~tail => queue = <<>>
  BY DEF OutputReady, Followed, OutputEnding
<1>2. /\ attempt # NoAttempt /\ attempt' = attempt /\ due' = due /\ due = 0
      /\ frames' = Append(frames, frame) /\ Assistant(frame, Len(frames) + 1)
      /\ UNCHANGED <<log, step, phase, replayed, lastSeq>>
  BY DEF StreamChunk, Framed
<1>3. /\ frame \in StreamFrames /\ frame.of = attempt /\ frame.type = "chunk" /\ frame.i = Emitted + 1
      /\ Emitted \in Nat /\ attempt \in Makers /\ log \in Seq(AgentEvents) /\ Len(log) \in Nat
  <2>1. Emitted \in Nat
    BY <1>1, ChunksCounted
  <2> QED BY <1>1, <2>1 DEF AgentTyped, StreamFrames
<1> HIDE DEF frame
<1>4. /\ stream \in Streams /\ ~stream.closed /\ stream.attempt = attempt
      /\ stream.revision = Len(frames) /\ stream.delivered = 1..Emitted
  BY <1>1, <1>2 DEF StreamFollowed
<1>5. Started' = Started \cup {attempt} /\ Len(frames') = Len(frames) + 1 /\ Len(frames) \in Nat
  BY <1>1, <1>2, <1>3, FrameStarts
<1>6. Newer(Len(frames) + 1) /\ frame.i \notin stream.delivered
  BY <1>3, <1>4, <1>5 DEF Newer
<1>7. /\ Send(<<Job(x, 0, FALSE)>>)
      /\ stream' = [stream EXCEPT !.revision = Len(frames) + 1, !.delivered = more]
      /\ UNCHANGED meters
  BY <1>2, <1>3, <1>4, <1>6 DEF Assistant
<1>8. x \in Things /\ Identity(x) = <<"text", attempt, Emitted + 1>> /\ x.kind = "text"
      /\ x.of = attempt /\ x.i = Emitted + 1
  <2> DEFINE kind == "text"
             n == Emitted + 1
  <2>1. kind \in {"event", "text", "meter"} /\ attempt \in Makers \cup Nat /\ NoMeters \in SUBSET Nat
        /\ n \in Nat
    BY <1>3 DEF NoMeters
  <2>2. x = Item(kind, attempt, n, NoMeters)
    BY DEF Text
  <2> HIDE DEF kind, x, n
  <2>3. LET y == Item(kind, attempt, n, NoMeters)
        IN  /\ y \in Things /\ y.kind = kind /\ y.of = attempt /\ y.i = n /\ y.meters = NoMeters
            /\ Identity(y) = <<kind, attempt, n>>
    BY <2>1, ItemOf
  <2> QED BY <2>2, <2>3 DEF kind, n
<1> HIDE DEF x
<1>9. <<Job(x, 0, FALSE)>> \in Seq(JobThings) /\ ItemsOf(<<Job(x, 0, FALSE)>>) = <<x>> /\ <<x>> \in Seq(Things)
  <2>1. Job(x, 0, FALSE) \in JobThings /\ Job(x, 0, FALSE).item = x
    BY <1>8 DEF Job, JobThings
  <2> DEFINE j == Job(x, 0, FALSE)
  <2> HIDE DEF j
  <2>2. j \in JobThings /\ j.item = x
    BY <2>1 DEF j
  <2>3. <<j>> \in Seq(JobThings) /\ ItemsOf(<<j>>) = <<x>>
    BY <2>2, OneJob
  <2>4. <<x>> \in Seq(Things)
    BY <1>8
  <2> QED BY <2>3, <2>4 DEF j
<1>10. LineTyped' /\ Line' = Line \o <<x>> /\ SentMore
  BY <1>1, <1>7, <1>9, Sent DEF SentMore
<1>11. Emitted' = Emitted + 1
  BY <1>1, <1>2, <1>3, ChunkStreamed
<1>12. /\ stream' \in Streams /\ stream'.closed = stream.closed /\ stream'.pending = stream.pending
       /\ stream'.attempt = attempt /\ stream'.revision = Len(frames) + 1 /\ stream'.step = stream.step
       /\ stream'.delivered = 1..Emitted'
  <2>1. more = 1..Emitted + 1 /\ more \in SUBSET Nat
    BY <1>3, <1>4
  <2> HIDE DEF more
  <2>2. Len(frames) + 1 \in Nat
    BY <1>5
  <2>3. stream' \in Streams /\ stream'.delivered = more /\ stream'.revision = Len(frames) + 1
    BY <1>4, <1>7, <2>1, <2>2 DEF Streams
  <2>4. /\ stream'.closed = stream.closed /\ stream'.pending = stream.pending
        /\ stream'.attempt = stream.attempt /\ stream'.step = stream.step
    BY <1>4, <1>7 DEF Streams
  <2> QED BY <1>4, <1>11, <2>1, <2>3, <2>4
<1>13. Heard' = Heard
  BY <1>2, <1>12 DEF Heard
<1>14. StreamFollowed'
  <2>1. lastSeq = Len(log) /\ stream.step = step
    BY <1>1, <1>4 DEF StreamFollowed
  <2> QED BY <1>2, <1>4, <1>5, <1>12, <2>1 DEF StreamFollowed
<1>15. HeldAreLast'
  BY <1>1, <1>2, <1>12, <1>13 DEF HeldAreLast
<1>16. Line \in Seq(Things)
  BY <1>1 DEF LogTold, Transcript
<1>17. ChunksTold'
  <2>1. LET w == Line \o <<x>>
        IN  /\ \A k \in DOMAIN Line : w[k] = Line[k]
            /\ \A k \in DOMAIN <<x>> : w[Len(Line) + k] = <<x>>[k]
            /\ \A k \in DOMAIN w : k \in DOMAIN Line \/ \E j \in DOMAIN <<x>> : k = Len(Line) + j
            /\ Identities(w) = Identities(Line) \cup Identities(<<x>>)
    <3> DEFINE z == <<x>>
    <3>1. z \in Seq(Things)
      BY <1>9
    <3> HIDE DEF z
    <3>2. LET w == Line \o z
          IN  /\ \A k \in DOMAIN Line : w[k] = Line[k]
              /\ \A k \in DOMAIN z : w[Len(Line) + k] = z[k]
              /\ \A k \in DOMAIN w : k \in DOMAIN Line \/ \E j \in DOMAIN z : k = Len(Line) + j
              /\ Identities(w) = Identities(Line) \cup Identities(z)
      BY ONLY <1>16, <3>1, Inside
    <3> QED BY <3>2 DEF z
  <2>2. Identities(<<x>>) = {<<"text", attempt, Emitted + 1>>}
    <3>1. Identities(<<x>>) = {Identity(x)}
      BY DEF Identities
    <3> QED BY <1>8, <3>1
  <2>3. /\ \A i \in 1..Emitted : <<"text", attempt, i>> \in Identities(Line)
        /\ \A k \in DOMAIN Line : Line[k].kind = "text" /\ Line[k].of = attempt => Line[k].i < Emitted + 1
    BY <1>1, <1>2 DEF ChunksTold
  <2>4. ASSUME NEW i \in 1..Emitted' PROVE <<"text", attempt', i>> \in Identities(Line)'
    <3>1. i \in 1..Emitted \/ i = Emitted + 1
      BY <1>3, <1>11
    <3>2. Identities(Line)' = Identities(Line) \cup Identities(<<x>>)
      BY <1>10, <2>1 DEF Identities, Identity
    <3> QED BY <1>2, <2>2, <2>3, <3>1, <3>2
  <2>5. ASSUME NEW k \in DOMAIN Line', Line'[k].kind = "text", Line'[k].of = attempt'
        PROVE  Line'[k].i < Emitted' + 1
    <3>1. CASE k \in DOMAIN Line
      <4>1. Line[k].i < Emitted + 1
        BY <1>2, <1>10, <2>1, <2>3, <2>5, <3>1
      <4>2. Line[k] \in Things
        BY <1>16, <3>1
      <4>3. Line[k].i \in Nat
        BY <4>2 DEF Things
      <4>4. Line'[k] = Line[k]
        BY <1>10, <2>1, <3>1
      <4> QED BY <1>3, <1>11, <4>1, <4>3, <4>4
    <3>2. CASE k \notin DOMAIN Line
      <4>1. Line'[k] = x
        <5>1. PICK j \in DOMAIN <<x>> : k = Len(Line) + j
          BY <1>10, <2>1, <3>2
        <5>2. <<x>>[j] = x
          OBVIOUS
        <5> QED BY <1>10, <2>1, <5>1, <5>2
      <4> QED BY <1>3, <1>8, <1>11, <4>1
    <3> QED BY <3>1, <3>2
  <2> QED BY <2>4, <2>5 DEF ChunksTold
<1>18. LogTold'
  <2>1. replayed \in [count : Nat, drawn : BOOLEAN] /\ replayed.count <= Heard
        /\ Transcript(log, Line, Totals, Heard, replayed.count, replayed.drawn, Started)
    BY <1>1 DEF LogTold
  <2>2. GoesOnFrom(log, log') /\ Started \subseteq Started' /\ attempt \in Started'
    BY <1>2, <1>3, <1>5 DEF GoesOnFrom
  <2>3. Heard \in Nat /\ Heard <= Len(log)
    <3>1. Len(stream.pending) \in Nat /\ Len(stream.pending) <= Len(log)
      BY <1>1, <1>4 DEF Streams, HeldAreLast
    <3> QED BY <1>3, <3>1 DEF Heard
  <2>4. Transcript(log', Line, Totals, Heard, replayed.count, replayed.drawn, Started')
    BY <2>1, <2>2, <2>3, TranscriptKept
  <2>5. PICK n, a, r : n = Emitted + 1 /\ a = attempt /\ r = Line'
    OBVIOUS
  <2>6. /\ n \in Nat /\ a \in Makers /\ a \in Started' /\ r = Line \o <<Text(a, n, NoMeters)>>
        /\ \A k \in DOMAIN Line : Line[k].kind = "text" /\ Line[k].of = a => Line[k].i < n
    BY <1>1, <1>2, <1>3, <1>10, <2>2, <2>5 DEF ChunksTold, x
  <2>7. Transcript(log', r, Totals, Heard, replayed.count, replayed.drawn, Started')
    BY <2>3, <2>4, <2>6, TextFollows
  <2>8. Totals' = Totals
    BY <1>7 DEF Totals, meters
  <2> QED BY <1>2, <1>13, <2>1, <2>5, <2>7, <2>8 DEF LogTold
<1> QED BY <1>10, <1>14, <1>15, <1>17, <1>18 DEF Followed

\* What is followed depends on the line, not on where in it the drain is.
LEMMA FollowedStays ==
    ASSUME Followed, UNCHANGED <<native, replayed, lastSeq, stream, meters>>, Line' = Line
    PROVE  Followed'
<1>1. Emitted' = Emitted /\ Started' = Started /\ Heard' = Heard /\ Totals' = Totals
  BY DEF native, meters, Emitted, Started, Heard, Totals
<1>2. StreamFollowed'
  BY <1>1 DEF native, Followed, StreamFollowed
<1>3. HeldAreLast'
  BY <1>1 DEF native, Followed, HeldAreLast
<1>4. ChunksTold'
  BY <1>1 DEF native, Followed, ChunksTold, Identities, Identity
<1>5. LogTold'
  BY <1>1 DEF native, Followed, LogTold
<1> QED BY <1>2, <1>3, <1>4, <1>5 DEF Followed

\* A frame that comes again, or the drain, says nothing new.
LEMMA FrameIgnored ==
    ASSUME OutputReady, Following, Followed, NEW f \in DOMAIN frames, FrameAgain(f)
    PROVE  Followed' /\ LineTyped' /\ SentMore
<1>1. f <= Len(frames) /\ stream.revision = Len(frames) /\ f \in Nat /\ Len(frames) \in Nat
  BY DEF OutputReady, AgentTyped, Followed, StreamFollowed
<1>2. ~Newer(f)
  BY <1>1 DEF Newer
<1>3. UNCHANGED <<native, replayed, lastSeq, stream, meters, queue, received>>
  BY <1>2 DEF FrameAgain, Assistant
<1>4. Line' = Line
  BY <1>3 DEF Line, ItemsOf
<1> QED BY <1>3, <1>4, FollowedStays, SameReceived DEF OutputReady, LineTyped

\* The drain and the end of a replay keep the line as it is.
LEMMA DrainFollowed ==
    ASSUME OutputReady, Following, Followed, Draining \/ RestoreEnds
    PROVE  Followed' /\ LineTyped' /\ SentMore
<1>1. LineTyped
  BY DEF OutputReady
<1>2. ASSUME NEW room \in BOOLEAN, RunHead(room) PROVE Followed' /\ LineTyped' /\ SentMore
  <2>1. /\ queue # <<>> /\ queue' = Tail(queue) /\ received' = Append(received, Head(queue).item)
        /\ UNCHANGED <<native, replayed, lastSeq, stream, meters>>
    BY <1>2 DEF RunHead, MaySend
  <2>2. LineTyped' /\ Line' = Line /\ SentMore
    BY <1>1, <2>1, HeadSent DEF SentMore
  <2> QED BY <2>1, <2>2, FollowedStays
<1>3. ASSUME UNCHANGED <<native, replayed, lastSeq, stream, meters, queue, received>>
      PROVE  Followed' /\ LineTyped' /\ SentMore
  <2>1. Line' = Line
    BY <1>3 DEF Line, ItemsOf
  <2> QED BY <1>1, <1>3, <2>1, FollowedStays, SameReceived DEF LineTyped
<1>4. SocketDrained \/ RestoreEnds \/ (\E seq \in DOMAIN images : ImageRead(seq))
        => UNCHANGED <<native, replayed, lastSeq, stream, meters, queue, received>>
  BY DEF SocketDrained, RestoreEnds, ImageRead
<1> QED BY <1>2, <1>3, <1>4 DEF Draining

\* Before the record is published nothing is followed.
Unpublished ==
    /\ attempt = NoAttempt /\ frames = <<>> /\ received = <<>> /\ queue = <<>>
    /\ stream = NoStream /\ lastSeq = 0 /\ counted = {} /\ lastUsage = 0 /\ restored = FALSE
    /\ replayed = [count |-> 0, drawn |-> FALSE]
    /\ \A i, j \in DOMAIN log :
         i < j /\ log[i].kind = "settled" /\ log[j].kind = "settled" => log[i].of # log[j].of

\* The record is published with a replay of the whole log, drawn or not, or with
\* nothing.
LEMMA Published ==
    ASSUME OutputReady, Unpublished, PublishNew \/ \E drawn \in BOOLEAN : Restore(drawn)
    PROVE  /\ Followed' /\ LineTyped' /\ received' = received
           /\ restored' => replayed'.count = 0
<1>1. AgentTyped /\ AgentTurn /\ LineTyped
  BY DEF OutputReady
<1>2. /\ attempt = NoAttempt /\ frames = <<>> /\ received = <<>> /\ queue = <<>> /\ stream = NoStream
      /\ lastSeq = 0 /\ counted = {} /\ lastUsage = 0 /\ restored = FALSE
      /\ replayed = [count |-> 0, drawn |-> FALSE]
      /\ \A i, j \in DOMAIN log :
           i < j /\ log[i].kind = "settled" /\ log[j].kind = "settled" => log[i].of # log[j].of
  BY DEF Unpublished
<1>3. /\ log \in Seq(AgentEvents) /\ Len(log) \in Nat /\ StepsGoOn(log)
      /\ Totals = [counted |-> {}, lastUsage |-> 0]
  BY <1>1, <1>2 DEF AgentTyped, AgentTurn, OutputReady, Totals
<1>4. UNCHANGED <<native, stream, received>>
  BY DEF PublishNew, Restore
<1>5. /\ stream' \in Streams /\ stream'.closed /\ stream'.pending = <<>> /\ stream'.attempt = NoAttempt
      /\ stream'.revision = 0
  <2>1. <<>> \in Seq(Nat)
    OBVIOUS
  <2> QED BY <1>2, <1>4, <2>1 DEF NoStream, Streams, Makers
<1>6. Heard' = Len(log) /\ log' = log /\ frames' = <<>> /\ attempt' = NoAttempt
  <2>1. Len(stream'.pending) = 0 /\ log' = log /\ Len(log) \in Nat
    BY <1>3, <1>4, <1>5 DEF native
  <2>2. Heard' = Len(log)
    BY ONLY <2>1 DEF Heard
  <2> QED BY <1>2, <1>4, <2>2 DEF native
<1>7. Started' = {}
  BY <1>6 DEF Started
<1>8. HeldAreLast'
  <2>1. Len(stream'.pending) = 0 /\ Len(log') \in Nat
    BY <1>3, <1>5, <1>6
  <2> QED BY <2>1 DEF HeldAreLast
<1>9. ChunksTold'
  BY <1>6 DEF ChunksTold
<1>10. Line' = ItemsOf(queue')
  <2>1. Line' = <<>> \o ItemsOf(queue')
    BY <1>2, <1>4 DEF Line, ItemsOf
  <2>2. ASSUME queue' \in Seq(JobThings) PROVE <<>> \o ItemsOf(queue') = ItemsOf(queue')
    <3>1. ItemsOf(queue') \in Seq(Things)
      BY <2>2, ItemsJoin
    <3> QED BY <3>1, ConcatEmptySeq
  <2> QED BY <2>1, <2>2
<1>11. CASE PublishNew
  <2>1. /\ log = <<>> /\ UNCHANGED <<replayed, lastSeq, queue, counted, lastUsage>>
    BY <1>11 DEF PublishNew, meters
  <2>2. StreamFollowed'
    BY <1>2, <1>4, <1>5, <1>6, <1>7, <2>1 DEF StreamFollowed
  <2>3. Totals' = [counted |-> {}, lastUsage |-> 0] /\ Line' = <<>> /\ Len(log) = 0
    BY <1>2, <1>10, <2>1 DEF Totals, ItemsOf
  <2>4. Transcript(log', Line', Totals', Heard', replayed'.count, replayed'.drawn, Started')
    <3>1. PICK l, totals, last, q, count, drawn, begun :
            /\ l = log' /\ totals = Totals' /\ last = Heard' /\ q = Line' /\ count = replayed'.count
            /\ drawn = replayed'.drawn /\ begun = Started'
      OBVIOUS
    <3>2. totals = [counted |-> {}, lastUsage |-> 0] /\ last = 0 /\ q = <<>>
      BY <1>6, <2>3, <3>1
    <3>3. Transcript(l, q, totals, last, count, drawn, begun)
      BY <3>2, NothingTold
    <3> QED BY <3>1, <3>3
  <2>5. LogTold'
    <3>1. replayed' = [count |-> 0, drawn |-> FALSE] /\ Heard' = 0
      BY <1>2, <1>6, <2>1, <2>3
    <3>2. replayed' \in [count : Nat, drawn : BOOLEAN] /\ replayed'.count <= Heard'
      BY ONLY <3>1
    <3> QED BY <2>4, <3>2 DEF LogTold
  <2> QED BY <1>1, <1>2, <1>4, <1>8, <1>9, <2>1, <2>2, <2>5 DEF Followed, LineTyped
<1>12. ASSUME NEW drawn \in BOOLEAN, Restore(drawn)
       PROVE  Followed' /\ LineTyped' /\ restored' = FALSE
  <2> DEFINE m == Mapped([seq \in DOMAIN log |-> seq], TRUE, 0)
  <2>1. /\ replayed' = [count |-> Len(log), drawn |-> drawn] /\ lastSeq' = Len(log)
        /\ SetTotals(m.totals) /\ queue' = IF drawn THEN m.jobs ELSE <<>>
        /\ restored' = FALSE
    BY <1>2, <1>12 DEF Restore
  <2>2. /\ m.jobs \in Seq(JobThings) /\ ItemsOf(m.jobs) \in Seq(Things)
        /\ Transcript(log, ItemsOf(m.jobs), m.totals, Len(log), Len(log), drawn, {})
    <3>1. Totals.counted = {} /\ Totals.lastUsage = 0
      BY <1>3
    <3> QED BY <1>2, <1>3, <3>1, ReplayTells
  <2> HIDE DEF m
  <2>3. Tallied(log, m.totals, Len(log))
    BY <2>2 DEF Transcript
  <2>4. Totals' = m.totals
    <3>1. m.totals = [counted |-> m.totals.counted, lastUsage |-> m.totals.lastUsage]
      BY <2>3 DEF Tallied
    <3>2. counted' = m.totals.counted /\ lastUsage' = m.totals.lastUsage
      BY <2>1 DEF SetTotals
    <3> QED BY <3>1, <3>2 DEF Totals
  <2>5. Transcript(log, ItemsOf(queue'), m.totals, Len(log), Len(log), drawn, {})
    <3>1. CASE drawn
      BY <2>1, <2>2, <3>1
    <3>2. CASE ~drawn
      <4>1. ItemsOf(queue') = <<>>
        BY <2>1, <3>2 DEF ItemsOf
      <4> DEFINE z == ItemsOf(queue')
      <4>2. z \in Seq(Things) /\ OfTheLog(log, z, Len(log), {}) /\ InOrder(log, z)
        BY <4>1 DEF OfTheLog, InOrder
      <4>3. ASSUME NEW s \in 1..Len(log) PROVE SaysIn(log, z, s, Len(log), drawn)
        <5>1. s <= Len(log)
          BY <1>3
        <5> QED BY <3>2, <5>1 DEF SaysIn
      <4>4. Metered(z, m.totals, Len(log), Len(log))
        <5>1. Len(log) + 1..Len(log) = {}
          BY <1>3
        <5> QED BY <5>1 DEF Metered
      <4> QED BY <2>3, <4>2, <4>3, <4>4 DEF Transcript
    <3> QED BY <3>1, <3>2
  <2>6. LineTyped'
    <3>1. <<>> \in Seq(JobThings)
      OBVIOUS
    <3>2. queue' \in Seq(JobThings)
      BY <2>1, <2>2, <3>1
    <3>3. received' \in Seq(Things)
      BY <1>1, <1>4 DEF LineTyped
    <3> QED BY <3>2, <3>3 DEF LineTyped
  <2>7. LogTold'
    <3>1. Transcript(log', Line', Totals', Heard', replayed'.count, replayed'.drawn, Started')
      <4>1. /\ log' = log /\ Line' = ItemsOf(queue') /\ Totals' = m.totals /\ Heard' = Len(log)
            /\ Started' = {}
        BY <1>6, <1>7, <1>10, <2>4
      <4>2. replayed'.count = Len(log) /\ replayed'.drawn = drawn
        BY <2>1
      <4> QED BY ONLY <2>5, <4>1, <4>2
    <3>2. replayed' \in [count : Nat, drawn : BOOLEAN] /\ replayed'.count <= Heard'
      BY <1>3, <1>6, <2>1
    <3> QED BY <3>1, <3>2 DEF LogTold
  <2>8. StreamFollowed'
    BY <1>3, <1>5, <1>6, <2>1 DEF StreamFollowed
  <2> QED BY <1>8, <1>9, <2>1, <2>6, <2>7, <2>8 DEF Followed
<1> QED BY <1>2, <1>4, <1>11, <1>12 DEF PublishNew

\* What the replay says was sent.
ReplaySent ==
    \A seq \in 1..replayed.count : SaysIn(log, received, seq, replayed.count, replayed.drawn)

\* The inductive invariant: while the record is followed, the line tells the log; a record
\* that is not followed keeps what it has sent.
OutputInv ==
    /\ OutputReady
    /\ phase = "new" => Unpublished
    /\ Following => Followed
    /\ Sound(log, received)
    /\ restored /\ Following => ReplaySent

\* A record that is not published yet has told nothing.
LEMMA OutputStarts == InitOutput => OutputInv
<1> SUFFICES ASSUME InitOutput PROVE OutputInv
  OBVIOUS
<1>1. AgentTyped /\ AgentTurn
  BY AgentStarts, TurnStarts
<1>2. OutputEnding /\ LineTyped
  <2>1. <<>> \in Seq(JobThings) /\ <<>> \in Seq(Things)
    OBVIOUS
  <2> QED BY <2>1 DEF InitOutput, OutputEnding, NoStream, LineTyped
<1>3. Unpublished
  <2>1. \A i, j \in DOMAIN log :
          i < j /\ log[i].kind = "settled" /\ log[j].kind = "settled" => log[i].of # log[j].of
    BY SessionOutputAssumption DEF InitOutput
  <2> QED BY <2>1 DEF InitOutput, Unpublished
<1>4. Sound(log, received)
  BY DEF InitOutput, Sound, InOrder
<1> QED BY <1>1, <1>2, <1>3, <1>4 DEF OutputInv, OutputReady, InitOutput, Following

\* Every step leaves the log alone or appends to it.
LEMMA LogGoesOn ==
    ASSUME AgentTyped, AgentTyped', NextOutput PROVE GoesOnFrom(log, log')
<1>1. log' = log \/ \E event : log' = Append(log, event)
  <2>1. ASSUME Agent PROVE log' = log \/ \E event : log' = Append(log, event)
    BY <2>1 DEF Agent, AppendPrompt, AppendAside, AppendTool, AppendRetry, AppendSettlement, Appended,
                StartAttempt, StreamChunk, EndAttempt, Framed, FrameAgain, native
  <2>2. ASSUME \/ \E drawn \in BOOLEAN : Restore(drawn)
               \/ PublishNew \/ RestoreEnds \/ Draining \/ Retire \/ DisposeOutput
        PROVE  log' = log
    BY <2>2 DEF Restore, PublishNew, RestoreEnds, Draining, RunHead, SocketDrained, ImageRead, Retire,
                DisposeOutput, native
  <2> QED BY <2>1, <2>2 DEF NextOutput
<1>2. log \in Seq(AgentEvents) /\ log' \in Seq(AgentEvents) /\ Len(log) \in Nat
  BY DEF AgentTyped
<1>3. CASE log' = log
  BY <1>2, <1>3 DEF GoesOnFrom
<1>4. ASSUME NEW event, log' = Append(log, event) PROVE GoesOnFrom(log, log')
  <2>1. Len(log') = Len(log) + 1 /\ \A i \in DOMAIN log : log'[i] = log[i]
    BY <1>2, <1>4
  <2> QED BY <1>2, <2>1 DEF GoesOnFrom
<1> QED BY <1>1, <1>3, <1>4

\* What the agent does, and the drain, keeps the transcript of a record that is
\* followed.
LEMMA AgentTold ==
    ASSUME OutputReady, Following, Followed, Agent
    PROVE  Followed' /\ LineTyped' /\ SentMore
<1>1. AgentTyped /\ AgentTurn /\ StreamFollowed
  BY DEF OutputReady, Followed
<1>2. CASE AppendPrompt \/ AppendAside \/ AppendTool \/ AppendRetry
  <2>1. PICK kind \in {"prompt", "aside", "tool", "retry"} :
          /\ Appended(Other(kind)) /\ due' = due
          /\ attempt # NoAttempt => kind = "aside"
          /\ \/ step' = step
             \/ step' = step + 1 /\ attempt = NoAttempt
    BY <1>2 DEF AppendPrompt, AppendAside, AppendTool, AppendRetry
  <2>2. Other(kind) \in AgentEvents /\ Other(kind).step = step /\ Other(kind).kind = kind
    BY <1>1 DEF Other, AgentEvents, AgentTyped, Makers, Kinds
  <2>3. step \in Nat /\ step' \in Nat /\ step <= step'
    BY <1>1, <2>1 DEF AgentTyped
  <2>4. CASE attempt = NoAttempt
    BY <2>1, <2>2, <2>3, <2>4, EventFollowed
  <2>5. CASE attempt # NoAttempt
    <3>1. Held(Other(kind)) /\ Other(kind).kind # "settled" /\ step' = step
      BY <1>1, <2>1, <2>2, <2>5 DEF Held, StreamFollowed
    <3> QED BY <2>1, <2>2, <3>1, EventHeld
  <2> QED BY <2>4, <2>5
<1>3. CASE AppendSettlement
  <2> DEFINE event == [kind |-> "settled", step |-> step, of |-> attempt, chunks |-> Emitted]
  <2>1. event \in AgentEvents /\ event.step = step /\ event.kind = "settled"
    BY <1>1, ChunksCounted DEF AgentEvents, AgentTyped, Kinds
  <2>2. Appended(event) /\ due' = Len(log) + 1 /\ step' = step /\ attempt # NoAttempt
    BY <1>3 DEF AppendSettlement
  <2>3. Held(event)
    BY <1>1, <2>1, <2>2 DEF Held, StreamFollowed
  <2> HIDE DEF event
  <2> QED BY <2>1, <2>2, <2>3, EventHeld
<1> QED BY <1>2, <1>3, StartFollowed, ChunkFollowed, EndFollowed, FrameIgnored DEF Agent

\* Every step keeps the invariant.
LEMMA OutputGoesOn ==
    ASSUME OutputInv, NextOutput PROVE OutputInv'
<1>1. /\ OutputReady /\ AgentTyped /\ AgentTurn /\ OutputEnding /\ LineTyped /\ Sound(log, received)
  BY DEF OutputInv, OutputReady
<1>2. AgentTyped' /\ OutputEnding' /\ AgentTurn' /\ (~Following => received' = received)
  BY <1>1, OutputStep, TurnGoesOn
<1>3. GoesOnFrom(log, log')
  BY <1>1, <1>2, LogGoesOn
<1>4. CASE Following /\ ~Retire
  <2>1. Followed /\ phase = "live"
    BY <1>4 DEF OutputInv, Following
  <2>2. Agent \/ Draining \/ RestoreEnds
    BY <1>4, <2>1 DEF NextOutput, Restore, PublishNew, DisposeOutput
  <2>3. Followed' /\ LineTyped' /\ SentMore
    BY <1>1, <1>4, <2>1, <2>2, AgentTold, DrainFollowed
  <2>4. phase' = phase /\ replayed' = replayed /\ (restored' = restored \/ RestoreEnds)
    <3>1. ASSUME Agent PROVE UNCHANGED <<phase, replayed, restored>>
      BY <3>1 DEF Agent, AppendPrompt, AppendAside, AppendTool, AppendRetry, AppendSettlement, Appended,
                  StartAttempt, StreamChunk, EndAttempt, Framed, FrameAgain
    <3>2. ASSUME Draining PROVE UNCHANGED <<phase, replayed, restored>>
      BY <3>2 DEF Draining, RunHead, SocketDrained, ImageRead
    <3> QED BY <2>2, <3>1, <3>2 DEF RestoreEnds
  <2>5. Sound(log', received')
    <3>1. Transcript(log', Line', Totals', Heard', replayed'.count, replayed'.drawn, Started')
      BY <2>3 DEF Followed, LogTold
    <3>2. Heard' \in Nat /\ Heard' <= Len(log') /\ log' \in Seq(AgentEvents)
      <4>1. Len(stream'.pending) \in Nat /\ Len(stream'.pending) <= Len(log')
        BY <2>3 DEF Followed, StreamFollowed, Streams, HeldAreLast
      <4>2. Len(log') \in Nat /\ log' \in Seq(AgentEvents)
        BY <1>2 DEF AgentTyped
      <4> QED BY <4>1, <4>2 DEF Heard
    <3>3. PICK a, z : a = received' /\ z = ItemsOf(queue')
      OBVIOUS
    <3>4. a \in Seq(Things) /\ z \in Seq(Things)
      BY <2>3, <3>3, ItemsJoin DEF LineTyped
    <3>5. Line' = a \o z
      BY <3>3 DEF Line, ItemsOf
    <3>6. Sound(log', a)
      BY <3>1, <3>2, <3>4, <3>5, TranscriptIsSound
    <3> QED BY <3>3, <3>6
  <2>6. ASSUME restored' PROVE ReplaySent'
    <3>1. /\ replayed.count \in Nat /\ replayed.count <= Heard /\ Len(log) \in Nat
          /\ Len(stream.pending) \in Nat
          /\ Transcript(log, Line, Totals, Heard, replayed.count, replayed.drawn, Started)
      BY <1>1, <2>1 DEF Followed, LogTold, StreamFollowed, Streams, AgentTyped
    <3>2. Heard \in Int /\ Heard <= Len(log)
      BY <3>1 DEF Heard
    <3>3. \A seq \in 1..replayed.count : seq \in 1..Heard /\ seq \in DOMAIN log
      BY <1>1, <3>1, <3>2 DEF AgentTyped
    <3>4. ReplaySent
      <4>1. CASE restored
        BY <1>4, <4>1 DEF OutputInv
      <4>2. CASE ~restored
        <5>1. ~tail
          BY <2>4, <2>6, <4>2 DEF RestoreEnds
        <5>2. queue = <<>>
          BY <1>1, <5>1 DEF OutputEnding
        <5>3. Line = received
          <6>1. ItemsOf(queue) = <<>> /\ received \in Seq(Things)
            BY <1>1, <5>2 DEF ItemsOf, LineTyped
          <6> QED BY <6>1, ConcatEmptySeq DEF Line
        <5> QED BY <3>1, <3>3, <5>3 DEF ReplaySent, Transcript
      <4> QED BY <4>1, <4>2
    <3>5. Identities(received) \subseteq Identities(received')
      <4>1. PICK z \in Seq(Things) : received' = received \o z
        BY <2>3 DEF SentMore
      <4>2. received \in Seq(Things)
        BY <1>1 DEF LineTyped
      <4>3. Identities(received \o z) = Identities(received) \cup Identities(z)
        BY <4>2, Inside
      <4> QED BY <4>1, <4>3
    <3>6. ASSUME NEW seq \in 1..replayed.count
          PROVE  SaysIn(log', received', seq, replayed.count, replayed.drawn)
      <4>1. SaysIn(log, received, seq, replayed.count, replayed.drawn)
        BY <3>4 DEF ReplaySent
      <4>2. log'[seq] = log[seq]
        BY <1>3, <3>3 DEF GoesOnFrom
      <4> QED BY <3>5, <4>1, <4>2 DEF SaysIn
    <3> QED BY <2>4, <3>6 DEF ReplaySent
  <2> QED BY <1>2, <2>1, <2>3, <2>4, <2>5, <2>6 DEF OutputInv, OutputReady
<1>5. CASE Retire
  <2>1. phase' = "retired" /\ UNCHANGED <<log, queue, received>>
    BY <1>5 DEF Retire, native
  <2> QED BY <1>1, <1>2, <2>1 DEF OutputInv, OutputReady, LineTyped, Following
<1>6. CASE phase = "new"
  <2>1. Unpublished /\ tail = FALSE /\ queue = <<>> /\ slow = FALSE
    BY <1>1, <1>6 DEF OutputInv, OutputEnding, Unpublished
  <2>2. \/ PublishNew \/ \E drawn \in BOOLEAN : Restore(drawn)
        \/ \E seq \in DOMAIN images : ImageRead(seq)
    <3>1. ~Agent
      BY <1>6 DEF Agent, AppendPrompt, AppendAside, AppendTool, AppendRetry, AppendSettlement, Appended,
                  StartAttempt, StreamChunk, EndAttempt, Framed, FrameAgain
    <3> QED BY <1>6, <2>1, <3>1 DEF NextOutput, Draining, RunHead, SocketDrained, RestoreEnds, Retire,
                                    DisposeOutput
  <2>3. CASE \E seq \in DOMAIN images : ImageRead(seq)
    <3>1. UNCHANGED <<native, phase, replayed, restored, lastSeq, stream, queue, meters, received>>
      BY <2>3 DEF ImageRead
    <3>2. Unpublished'
      BY <2>1, <3>1 DEF Unpublished, native, meters
    <3> QED BY <1>1, <1>2, <1>6, <3>1, <3>2
            DEF OutputInv, OutputReady, LineTyped, Following, native
  <2>4. CASE PublishNew \/ \E drawn \in BOOLEAN : Restore(drawn)
    <3>1. Followed' /\ LineTyped' /\ received' = received /\ (restored' => replayed'.count = 0)
      BY <1>1, <2>1, <2>4, Published
    <3>2. phase' = "live" /\ log' = log
      BY <2>4 DEF PublishNew, Restore, native
    <3>3. restored' => ReplaySent'
      <4>1. 1..0 = {}
        OBVIOUS
      <4> QED BY <3>1, <4>1 DEF ReplaySent
    <3> QED BY <1>1, <1>2, <3>1, <3>2, <3>3 DEF OutputInv, OutputReady
  <2> QED BY <2>2, <2>3, <2>4
<1>7. CASE ~Following /\ phase # "new"
  <2>1. phase' # "new" /\ ~Following'
    BY <1>7 DEF NextOutput, Restore, PublishNew, RestoreEnds, Agent, Draining, RunHead, SocketDrained,
                ImageRead, Retire, DisposeOutput, AppendPrompt, AppendAside, AppendTool, AppendRetry,
                AppendSettlement, Appended, StartAttempt, StreamChunk, EndAttempt, Framed, FrameAgain,
                Following
  <2>2. queue' = queue \/ (queue # <<>> /\ queue' = Tail(queue))
    <3>1. ASSUME Agent PROVE queue' = queue
      BY <1>7, <3>1 DEF Agent, AppendPrompt, AppendAside, AppendTool, AppendRetry, AppendSettlement,
            Appended, Live, StartAttempt, StreamChunk, EndAttempt, Framed, FrameAgain, Assistant
    <3>2. ASSUME NEW room \in BOOLEAN, RunHead(room) PROVE queue # <<>> /\ queue' = Tail(queue)
      BY <3>2 DEF RunHead
    <3>3. ASSUME NEW seq \in DOMAIN images, ImageRead(seq) PROVE queue' = queue
      BY <3>3 DEF ImageRead
    <3>4. ASSUME SocketDrained \/ RestoreEnds \/ Retire \/ DisposeOutput PROVE queue' = queue
      BY <3>4 DEF SocketDrained, RestoreEnds, Retire, DisposeOutput
    <3>5. ~PublishNew /\ \A drawn \in BOOLEAN : ~Restore(drawn)
      BY <1>7 DEF PublishNew, Restore
    <3> QED BY <3>1, <3>2, <3>3, <3>4, <3>5 DEF NextOutput, Draining
  <2>3. LineTyped'
    <3>1. queue \in Seq(JobThings) /\ received' \in Seq(Things)
      BY <1>1, <1>2, <1>7 DEF LineTyped
    <3>2. queue # <<>> => Tail(queue) \in Seq(JobThings)
      BY <3>1
    <3>3. queue' \in Seq(JobThings)
      BY <2>2, <3>1, <3>2
    <3> QED BY <3>1, <3>3 DEF LineTyped
  <2>4. Sound(log', received')
    BY <1>1, <1>2, <1>3, <1>7, SoundKept
  <2> QED BY <1>2, <2>1, <2>3, <2>4 DEF OutputInv, OutputReady
<1> QED BY <1>4, <1>5, <1>6, <1>7 DEF Following

\* The client gets what the log says.
THEOREM TranscriptTellsTheLog == OutputSteps => []ClientSeesLog
<1>1. OutputInv => ClientSeesLog
  <2> SUFFICES ASSUME OutputInv PROVE ClientSeesLog
    OBVIOUS
  <2>1. OutputEnding /\ LineTyped /\ AgentTyped /\ Sound(log, received)
    BY DEF OutputInv, OutputReady
  <2>2. SentOnceInOrder
    <3>1. \A i, j \in DOMAIN received :
             BeforeIn(log, received[i], received[j]) => Before(received[i], received[j])
      BY DEF BeforeIn, Before
    <3> QED BY <2>1, <3>1 DEF SentOnceInOrder, OnceInOrder, Sound, InOrder
  <2>3. ASSUME NEW seq, SaysIn(log, received, seq, replayed.count, replayed.drawn)
        PROVE  Says(received, seq, replayed.count, replayed.drawn)
    BY <2>3 DEF SaysIn, Says
  <2>4. ASSUME Following, stream.pending = <<>>
        PROVE  Heard = lastSeq /\ Transcript(log, Line, Totals, lastSeq, replayed.count, replayed.drawn, Started)
    <3>1. StreamFollowed /\ LogTold
      BY <2>4 DEF OutputInv, Followed
    <3>2. lastSeq = Len(log) /\ Len(stream.pending) = 0 /\ Len(log) \in Nat
      BY <2>1, <2>4, <3>1 DEF StreamFollowed, AgentTyped
    <3>3. Heard = lastSeq
      BY ONLY <3>2 DEF Heard
    <3> QED BY <3>1, <3>3 DEF LogTold
  <2>5. ASSUME Quiet PROVE Line = received
    <3>1. queue = <<>> /\ received \in Seq(Things)
      BY <2>1, <2>5 DEF Quiet, OutputEnding, LineTyped
    <3>2. ItemsOf(queue) = <<>>
      BY <3>1 DEF ItemsOf
    <3> QED BY <3>1, <3>2, ConcatEmptySeq DEF Line
  <2>6. NothingDropped
    <3>1. ASSUME Quiet PROVE Said(1..lastSeq)
      <4>1. Transcript(log, received, Totals, lastSeq, replayed.count, replayed.drawn, Started)
        BY <2>4, <2>5, <3>1 DEF Quiet
      <4> QED BY <2>3, <4>1 DEF Said, Transcript
    <3>2. ASSUME restored, Following PROVE Said(1..replayed.count)
      <4>1. ReplaySent
        BY <3>2 DEF OutputInv
      <4> QED BY <2>3, <4>1 DEF ReplaySent, Said
    <3> QED BY <3>1, <3>2 DEF NothingDropped
  <2>7. MetersTrue
    <3>1. ASSUME Following, stream.pending = <<>> PROVE counted = BilledBy(lastSeq)
      <4>1. Totals.counted = BilledIn(log, lastSeq)
        BY <2>4, <3>1 DEF Transcript, Tallied
      <4> QED BY <4>1 DEF Totals, BilledIn, BilledBy, Retried
    <3>2. ASSUME Quiet, counted \cap (replayed.count + 1..lastSeq) # {} PROVE LastTold(received, counted)
      <4>1. Metered(received, Totals, lastSeq, replayed.count)
        BY <2>4, <2>5, <3>2 DEF Quiet, Transcript
      <4> QED BY <3>2, <4>1 DEF Metered, Totals
    <3> QED BY <3>1, <3>2 DEF MetersTrue
  <2> QED BY <2>2, <2>6, <2>7 DEF ClientSeesLog, TranscriptExact
<1>2. OutputInv /\ [NextOutput]_outputVars => OutputInv'
  <2>1. ASSUME OutputInv, UNCHANGED outputVars PROVE OutputInv'
    <3>1. UNCHANGED <<native, phase, replayed, restored, lastSeq, stream, queue, tail, slow, meters, received>>
      BY <2>1 DEF outputVars
    <3>2. AgentTurn' /\ AgentTyped' /\ OutputEnding' /\ LineTyped'
      BY <2>1, <3>1, TurnStays DEF OutputInv, OutputReady, native, AgentTyped, OutputEnding, LineTyped
    <3>3. Line' = Line
      BY <3>1 DEF Line, ItemsOf
    <3>4. Following => Followed'
      BY <2>1, <3>1, <3>3, FollowedStays DEF OutputInv
    <3>5. Unpublished => Unpublished'
      BY <3>1 DEF Unpublished, native, meters
    <3>6. Sound(log', received') /\ (restored /\ Following => ReplaySent')
      BY <2>1, <3>1 DEF OutputInv, native, ReplaySent
    <3> QED BY <2>1, <3>1, <3>2, <3>4, <3>5, <3>6 DEF OutputInv, OutputReady, Following, native
  <2> QED BY <2>1, OutputGoesOn
<1> QED BY <1>1, <1>2, OutputStarts, PTL DEF OutputSteps
=============================================================================
