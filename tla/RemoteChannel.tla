---------------------------- MODULE RemoteChannel ----------------------------
(* x.ai/remote/invoke (remote-channel.ts): calls of clients that wait for one  *)
(* of the client's slots, run in the native gateway, in the work scope of a    *)
(* session when they are bound to one, and are answered when the native call   *)
(* settles or, if they only read, at a timeout.  A session closes, a client    *)
(* leaves and the channel is disposed of while calls wait or run.              *)
EXTENDS Naturals, FiniteSets, SequencesExt

CONSTANTS
    Calls,
    CallClient,     \* the client that makes a call
    CallSession,    \* the session it is bound to, or NoSession
    Mutations,      \* the calls of entries that mutate
    InFlight, MaxWaiting,   \* REMOTE_LIMITS.inFlight and .queued
    NoSession

ASSUME RemoteAssumption ==
    /\ Mutations \subseteq Calls
    /\ DOMAIN CallClient = Calls /\ DOMAIN CallSession = Calls
    /\ InFlight \in Nat \ {0} /\ MaxWaiting \in Nat

VARIABLES
    call,           \* where a call is
    invocation,     \* its native call
    expired,        \* the calls whose timeout has fired
    lane,           \* the calls of a client that wait, in order
    holding,        \* the calls that have a slot of their client
    away,           \* clients that have disconnected
    shut,           \* sessions that were closed
    channel

remoteVars == <<call, invocation, expired, lane, holding, away, shut, channel>>

Callers == {CallClient[r] : r \in Calls}
Bound == {CallSession[r] : r \in Calls} \ {NoSession}
Pending == {"waiting", "granted", "calling"}
Ended(r) == call[r] \in {"answered", "refused"}
InvocationOver(r) == invocation[r] \in {"none", "value", "error"}

Holders(c) == {r \in holding : CallClient[r] = c}
CallAt(r, phase) == call' = [call EXCEPT ![r] = phase]

\* scope.assertActive() of the work of the session, for a call that has one.
ScopeActive(r) == CallSession[r] \notin shut

\* The signal that a native call is given.
Aborted(r) ==
    \/ r \in expired \/ CallClient[r] \in away \/ channel # "open"
    \/ ~ScopeActive(r)

InitRemote ==
    /\ call = [r \in Calls |-> "idle"]
    /\ invocation = [r \in Calls |-> "none"]
    /\ expired = {} /\ holding = {} /\ away = {} /\ shut = {}
    /\ lane = [c \in Callers |-> <<>>]
    /\ channel = "open"

\* A call waits behind the others; past the limit the oldest is dropped.
Enqueue(c, r) ==
    LET waiting == Append(lane[c], r)
    IN IF Len(waiting) > MaxWaiting
       THEN /\ call' = [call EXCEPT ![r] = "waiting", ![Head(waiting)] = "refused"]
            /\ lane' = [lane EXCEPT ![c] = Tail(waiting)]
       ELSE /\ CallAt(r, "waiting")
            /\ lane' = [lane EXCEPT ![c] = waiting]

\* invoke(): a disposed channel and admit() refuse a call; the others get a
\* slot or wait for one.
Invoke(r) ==
    LET c == CallClient[r] IN
    /\ call[r] = "idle"
    /\ \/ /\ channel # "open" \/ c \in away \/ ~ScopeActive(r)
          /\ CallAt(r, "refused")
          /\ UNCHANGED <<lane, holding>>
       \/ /\ channel = "open" /\ c \notin away /\ ScopeActive(r)
          /\ IF Cardinality(Holders(c)) < InFlight
             THEN /\ holding' = holding \cup {r}
                  /\ CallAt(r, "granted")
                  /\ UNCHANGED lane
             ELSE Enqueue(c, r) /\ UNCHANGED holding
    /\ UNCHANGED <<invocation, expired, away, shut, channel>>

\* run(): the session's work refuses a call of a closed session, call() one that
\* the gateway does not serve and one that is aborted; the others are made.
Run(r) ==
    /\ call[r] = "granted"
    /\ \/ /\ ~ScopeActive(r)
          /\ CallAt(r, "refused") /\ UNCHANGED invocation
       \/ /\ ScopeActive(r)
          /\ CallAt(r, "answered") /\ UNCHANGED invocation
       \/ /\ ~Aborted(r)
          /\ CallAt(r, "calling")
          /\ invocation' = [invocation EXCEPT ![r] = "running"]
    /\ UNCHANGED <<expired, lane, holding, away, shut, channel>>

\* The native call settles; it must honour the signal, but may also end before.
InvocationSettles(r) ==
    /\ invocation[r] = "running"
    /\ \E outcome \in {"value", "error"} :
        invocation' = [invocation EXCEPT ![r] = outcome]
    /\ UNCHANGED <<call, expired, lane, holding, away, shut, channel>>

\* AbortSignal.timeout().
Expire(r) ==
    /\ invocation[r] = "running" /\ r \notin expired
    /\ expired' = expired \cup {r}
    /\ UNCHANGED <<call, invocation, lane, holding, away, shut, channel>>

\* A read may answer at its timeout; a mutation waits for the native call.  The
\* work of a session that was closed refuses what has come too late.
Reply(r) ==
    /\ call[r] = "calling"
    /\ \/ invocation[r] # "running"
       \/ r \notin Mutations /\ r \in expired
    /\ CallAt(r, IF ScopeActive(r) THEN "answered" ELSE "refused")
    /\ UNCHANGED <<invocation, expired, lane, holding, away, shut, channel>>

\* release(): the slot goes to the call that has waited longest.
GiveSlot(r) ==
    LET c == CallClient[r] IN
    IF lane[c] = <<>>
    THEN holding' = holding \ {r} /\ UNCHANGED <<lane, call>>
    ELSE /\ holding' = (holding \ {r}) \cup {Head(lane[c])}
         /\ lane' = [lane EXCEPT ![c] = Tail(@)]
         /\ CallAt(Head(lane[c]), "granted")

\* Mutant: the slot is free as soon as the call is answered.
ReturnAtReply(r) ==
    /\ r \in holding /\ Ended(r)
    /\ GiveSlot(r)
    /\ UNCHANGED <<invocation, expired, away, shut, channel>>

\* "A read that answered at its timeout keeps its slot until the native call
\* settles."
ReturnSlot(r) ==
    /\ r \in holding /\ Ended(r) /\ InvocationOver(r)
    /\ GiveSlot(r)
    /\ UNCHANGED <<invocation, expired, away, shut, channel>>

\* abandon(): the calls that wait are dropped.
Abandon(who) ==
    /\ call' = [r \in Calls |->
        IF call[r] = "waiting" /\ CallClient[r] \in who THEN "refused" ELSE call[r]]
    /\ lane' = [c \in Callers |-> IF c \in who THEN <<>> ELSE lane[c]]

\* The connection of a client ends; its sessions are retired later.
Leave(c) ==
    /\ c \notin away
    /\ away' = away \cup {c}
    /\ Abandon({c})
    /\ UNCHANGED <<invocation, expired, holding, shut, channel>>

\* work.cancel(): the session closes, or a reload suspends it.
CloseScope(s) ==
    /\ s \notin shut
    /\ shut' = shut \cup {s}
    /\ UNCHANGED <<call, invocation, expired, lane, holding, away, channel>>

DisposeChannel ==
    /\ channel = "open"
    /\ channel' = "closing"
    /\ Abandon(Callers)
    /\ UNCHANGED <<invocation, expired, holding, away, shut>>

\* dispose() settles when each reply has.
ChannelDisposed ==
    /\ channel = "closing"
    /\ \A r \in Calls : call[r] \notin Pending
    /\ channel' = "done"
    /\ UNCHANGED <<call, invocation, expired, lane, holding, away, shut>>

\* What has to happen to a call, each step once: settled promises are followed up,
\* timers fire, and a native call ends once its signal is aborted.
CallStep(r) ==
    \/ Run(r) \/ Reply(r) \/ ReturnSlot(r) \/ Expire(r)
    \/ Aborted(r) /\ InvocationSettles(r)

NextRemote ==
    \/ \E r \in Calls : Invoke(r) \/ CallStep(r) \/ InvocationSettles(r)
    \/ \E c \in Callers : Leave(c)
    \/ \E s \in Bound : CloseScope(s)
    \/ DisposeChannel \/ ChannelDisposed

\* Nobody has to leave or to close anything.
FairRemote == (\A r \in Calls : WF_remoteVars(CallStep(r))) /\ WF_remoteVars(ChannelDisposed)

RemoteSteps == InitRemote /\ [][NextRemote]_remoteVars

------------------------------------------------------------------------------
(* Properties *)

\* Type invariant.
RemoteTypeOK ==
    /\ call \in [Calls -> Pending \cup {"idle", "answered", "refused"}]
    /\ invocation \in [Calls -> {"none", "running", "value", "error"}]
    /\ expired \subseteq Calls /\ holding \subseteq Calls
    /\ lane \in [Callers -> Seq(Calls)]
    /\ away \subseteq Callers /\ shut \subseteq Bound
    /\ channel \in {"open", "closing", "done"}

\* No client has more native calls under way than InFlight, those included that
\* were answered at their timeout and still run.
LanesBounded ==
    \A c \in Callers :
        /\ Cardinality({r \in Calls : CallClient[r] = c /\ invocation[r] = "running"})
            <= InFlight
        /\ Len(lane[c]) <= MaxWaiting

\* No call waits while a slot of its client is free.
LanesHold == \A c \in Callers : lane[c] # <<>> => Cardinality(Holders(c)) = InFlight

\* A lane hands out its slots in order and is never reordered; a call that has
\* waited is given up for its client or the whole channel, or because newer ones
\* fill the lane.
OldestFirst ==
    [][\A c \in Callers :
        \/ c \in away' \/ channel' # "open"
        \/ IsPrefix(lane[c], lane'[c])
        \/ /\ lane[c] # <<>> /\ IsPrefix(Tail(lane[c]), lane'[c])
           /\ call'[Head(lane[c])] = "refused" => Len(lane'[c]) = MaxWaiting]_remoteVars

\* Nothing is started for a session, a client or a channel that ended while the
\* call waited for its slot.
NothingStale ==
    [][\A r \in Calls : invocation[r] = "none" /\ invocation'[r] = "running" =>
        ~Aborted(r)]_remoteVars

\* Every call that was made is answered, its slot is returned, and the disposal
\* ends: calls are finite, so in the end none is pending.
CallsEnd ==
    <>[](holding = {} /\ channel # "closing" /\ \A r \in Calls : call[r] \notin Pending)

\* The lanes of the remote channel: bounded, in order, and every call ends.
RemoteCallsServed == [](LanesBounded /\ LanesHold) /\ OldestFirst /\ NothingStale /\ CallsEnd
==============================================================================
