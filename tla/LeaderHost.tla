----------------------------- MODULE LeaderHost -----------------------------
(***************************************************************************)
(* The leader as a host of clients:                                        *)
(* bridge/grok-leader/src/leader-transport.ts (the socket, registration,   *)
(* reverse requests) and leader-lifecycle.ts (idle exit and shutdown).     *)
(*                                                                         *)
(* Connections come, register and break at any moment; the last one that   *)
(* leaves arms the idle exit, whose callback waits for the work that is    *)
(* still ending before it decides.  The listener may fail, another leader  *)
(* may own the path of the socket, and an owner may fail its disposal.     *)
(***************************************************************************)
EXTENDS Naturals, FiniteSets

CONSTANTS
    Clients,        \* connections; each has an id of its own (sequence)
    Requests,       \* reverse requests, each made once
    ClientOf,       \* the client a request is for
    SessionOf,      \* the session a request is for, or None
    Timed,          \* requests with a finite timeout
    Owners,         \* what the lifecycle disposes of; "sessions" is one
    Faulty,         \* owners whose dispose() may throw or reject
    None

Sessions == {SessionOf[r] : r \in Requests} \ {None}

ASSUME LeaderHostAssumption ==
    /\ IsFiniteSet(Clients)
    /\ ClientOf \in [Requests -> Clients]
    /\ DOMAIN SessionOf = Requests
    /\ Timed \subseteq Requests
    /\ "sessions" \in Owners
    /\ Faulty \subseteq Owners

VARIABLES
    \* the transport
    started,        \* start() was called
    listening,      \* the server accepts connections
    bound,          \* the path is this leader's to remove
    path,           \* who owns the socket file: "free", "ours", "other"
    errorDue,       \* an 'error' event of the server is queued
    failure,        \* the last error of the server
    closed,         \* close() was called
    conn,           \* "absent", "open", "destroyed" (close event due), "gone"
    clients,        \* registered connections
    pending,        \* the pending map of each connection
    answer,         \* what became of a reverse request
    aborted,        \* requests whose AbortSignal is aborted
    \* the sessions
    operations,     \* clients whose admitted request is under way
    teardowns,      \* clients whose sessions are being retired
    \* the lifecycle
    generation,
    timer,          \* the generation the idle timer was armed in, 0: no timer
    draining,       \* idle callbacks in drain(), by accepted generation
    deciding,       \* idle callbacks whose drain() has resolved
    quiescing,      \* "no", "running", "done", "failed"
    cause,          \* why the leader quiesces: "idle", "failure", "dispose"
    owner,          \* the disposal of each owner
    startupFailure,
    disposal,       \* "none", "pending", "resolved", "rejected"
    exit            \* the idle exit: "no", "quiescing", "exited", "stays"

transport == <<started, listening, bound, path, errorDue, failure, closed>>
wire == <<conn, clients, pending, answer, aborted>>
work == <<operations, teardowns>>
idle == <<generation, timer, draining, deciding>>
shutdown == <<quiescing, cause, owner, startupFailure, disposal, exit>>
vars == <<transport, wire, work, idle, shutdown>>

TypeOK ==
    /\ {started, listening, bound, errorDue, failure, closed, startupFailure}
         \subseteq BOOLEAN
    /\ path \in {"free", "ours", "other"}
    /\ conn \in [Clients -> {"absent", "open", "destroyed", "gone"}]
    /\ clients \subseteq Clients
    /\ pending \in [Clients -> SUBSET Requests]
    /\ answer \in [Requests -> {"none", "waiting", "answered", "rejected"}]
    /\ aborted \subseteq Requests
    /\ operations \subseteq Clients
    /\ teardowns \subseteq Clients
    /\ generation \in Nat
    /\ timer \in 0..generation
    /\ draining \subseteq 1..generation
    /\ deciding \subseteq 1..generation
    /\ quiescing \in {"no", "running", "done", "failed"}
    /\ cause \in {"none", "idle", "failure", "dispose"}
    /\ owner \in [Owners -> {"live", "disposing", "done", "failed"}]
    /\ disposal \in {"none", "pending", "resolved", "rejected"}
    /\ exit \in {"no", "quiescing", "exited", "stays"}

Init ==
    /\ path \in {"free", "other"}
    /\ started = FALSE /\ listening = FALSE /\ bound = FALSE
    /\ errorDue = FALSE /\ failure = FALSE /\ closed = FALSE
    /\ conn = [c \in Clients |-> "absent"]
    /\ clients = {}
    /\ pending = [c \in Clients |-> {}]
    /\ answer = [r \in Requests |-> "none"]
    /\ aborted = {}
    /\ operations = {} /\ teardowns = {}
    /\ generation = 0 /\ timer = 0 /\ draining = {} /\ deciding = {}
    /\ quiescing = "no" /\ cause = "none"
    /\ owner = [o \in Owners |-> "live"]
    /\ startupFailure = FALSE
    /\ disposal = "none" /\ exit = "no"

-----------------------------------------------------------------------------
(* The lifecycle *)

CancelIdle ==
    /\ generation' = generation + 1
    /\ timer' = 0

\* A quiescing leader does not wait for promises that already settled.
Settled(o) == owner[o] \in {"done", "failed"}

CloseTransportAlways ==
    /\ closed' = TRUE
    /\ listening' = FALSE
    /\ bound' = FALSE
    /\ path' = "free"
    /\ conn' = [c \in Clients |-> IF conn[c] = "open" THEN "destroyed" ELSE conn[c]]

\* close(): the sockets are destroyed at once, their close events follow.
\* Only a leader that bound the path removes the file.
CloseTransport ==
    /\ closed' = TRUE
    /\ listening' = FALSE
    /\ bound' = FALSE
    /\ path' = IF bound THEN "free" ELSE path
    /\ conn' = [c \in Clients |-> IF conn[c] = "open" THEN "destroyed" ELSE conn[c]]

\* Every owner is told to stop, whatever the ones before it throw.
DisposeOwners ==
    \E thrown \in SUBSET Faulty :
        owner' = [o \in Owners |-> IF o \in thrown THEN "failed" ELSE "disposing"]

\* quiesce(), on behalf of why; it runs once and is shared.
Quiesce(why) ==
    IF quiescing = "no"
    THEN /\ quiescing' = "running"
         /\ cause' = why
         /\ CancelIdle
         /\ CloseTransport
         /\ DisposeOwners
    ELSE UNCHANGED <<quiescing, cause, generation, timer, closed, listening,
                     bound, path, conn, owner>>

\* An admission is refused by a registry that is closed or closing.
SessionsClosed == owner["sessions"] # "live"

\* disposing() of an owner settles; the sessions drain their work first.
OwnerSettles(o) ==
    /\ owner[o] = "disposing"
    /\ o = "sessions" => operations = {} /\ teardowns = {}
    /\ \E outcome \in {"done"} \cup (IF o \in Faulty THEN {"failed"} ELSE {}) :
         owner' = [owner EXCEPT ![o] = outcome]
    /\ UNCHANGED <<transport, wire, work, idle, quiescing, cause, startupFailure,
                   disposal, exit>>

\* The promise of quiesce() settles after every owner did.
QuiesceSettles ==
    /\ quiescing = "running" /\ ~errorDue
    /\ \A o \in Owners : Settled(o)
    /\ quiescing' = IF \E o \in Owners : owner[o] = "failed" THEN "failed" ELSE "done"
    /\ UNCHANGED <<transport, wire, work, idle, cause, owner, startupFailure,
                   disposal, exit>>

Dispose ==
    /\ disposal = "none"
    /\ disposal' = "pending"
    /\ Quiesce("dispose")
    /\ UNCHANGED <<started, errorDue, failure, clients, pending, answer, aborted,
                   work, draining, deciding, startupFailure, exit>>

\* A failed cleanup is logged; the leader's own failure is what dispose() throws.
DisposeSettles ==
    /\ disposal = "pending"
    /\ quiescing \in {"done", "failed"}
    /\ disposal' = IF startupFailure \/ failure THEN "rejected" ELSE "resolved"
    /\ UNCHANGED <<transport, wire, work, idle, quiescing, cause, owner,
                   startupFailure, exit>>

\* The idle timer fires and its callback waits for the sessions' work.
TimerFires ==
    /\ timer # 0
    /\ draining' = draining \cup {timer}
    /\ timer' = 0
    /\ UNCHANGED <<transport, wire, work, generation, deciding, shutdown>>

Drained(accepted) ==
    /\ accepted \in draining
    /\ operations = {} /\ teardowns = {}
    /\ draining' = draining \ {accepted}
    /\ deciding' = deciding \cup {accepted}
    /\ UNCHANGED <<transport, wire, work, generation, timer, shutdown>>

\* What the callback reads again after its wait.
MayExitBlindly(accepted) == quiescing = "no" /\ ~SessionsClosed /\ clients = {}

MayExit(accepted) ==
    /\ quiescing = "no" /\ ~SessionsClosed
    /\ clients = {}
    /\ accepted = generation

Decide(accepted) ==
    /\ accepted \in deciding
    /\ deciding' = deciding \ {accepted}
    /\ IF MayExit(accepted)
       THEN Quiesce("idle") /\ exit' = "quiescing"
       ELSE UNCHANGED <<quiescing, cause, generation, timer, closed, listening,
                        bound, path, conn, owner, exit>>
    /\ UNCHANGED <<started, errorDue, failure, clients, pending, answer, aborted,
                   work, draining, startupFailure, disposal>>

\* A failure of the cleanup does not keep the process; a host without appExit
\* does.
AppExit ==
    /\ exit = "quiescing"
    /\ quiescing \in {"done", "failed"}
    /\ exit' \in {"exited", "stays"}
    /\ UNCHANGED <<transport, wire, work, idle, quiescing, cause, owner,
                   startupFailure, disposal>>

-----------------------------------------------------------------------------
(* The socket *)

\* failed(): the cause is kept for dispose().
Failed ==
    /\ startupFailure' = TRUE
    /\ Quiesce("failure")

\* The socket is bound beside the path and published by a link, or bound in
\* place when the path is too long: either way a path in use is an error.
Bind ==
    /\ path = "free"
    /\ path' = "ours"
    /\ bound' = TRUE
    /\ listening' = TRUE
    /\ UNCHANGED errorDue

\* No private directory, no bind, or no link: reported by an event.
BindFails ==
    /\ errorDue' = TRUE
    /\ UNCHANGED <<path, bound, listening>>

Start ==
    /\ ~started /\ quiescing = "no"
    /\ started' = TRUE
    /\ Bind \/ BindFails
    /\ UNCHANGED <<failure, closed, wire, work, idle, shutdown>>

\* A start that throws, while it discards its private directory, is a failure
\* of the leader; the socket may have been published, and is taken down again.
StartThrows ==
    /\ ~started /\ quiescing = "no"
    /\ started' = TRUE
    /\ Failed
    /\ UNCHANGED <<errorDue, failure, clients, pending, answer, aborted, work,
                   draining, deciding, disposal, exit>>

\* The 'error' event, of the start or of a listener at work.
ServerError ==
    /\ errorDue \/ listening
    /\ errorDue' = FALSE
    /\ failure' = TRUE
    /\ Failed
    /\ UNCHANGED <<started, clients, pending, answer, aborted, work, draining,
                   deciding, disposal, exit>>

\* Another leader binds the path, or gives it up.
OtherLeader ==
    /\ path \in {"free", "other"}
    /\ path' = IF path = "free" THEN "other" ELSE "free"
    /\ UNCHANGED <<started, listening, bound, errorDue, failure, closed, wire,
                   work, idle, shutdown>>

-----------------------------------------------------------------------------
(* Connections *)

Accept(c) ==
    /\ listening
    /\ conn[c] = "absent"
    /\ conn' = [conn EXCEPT ![c] = "open"]
    /\ UNCHANGED <<transport, clients, pending, answer, aborted, work, idle, shutdown>>

\* A frame or message that cannot be read, a peer that does not read its
\* frames, or one that does not register in time: the socket is destroyed.
Destroy(c) ==
    /\ conn[c] = "open"
    /\ conn' = [conn EXCEPT ![c] = "destroyed"]
    /\ UNCHANGED <<transport, clients, pending, answer, aborted, work, idle, shutdown>>

\* The register message; a second one is an error that changes nothing.
Register(c) ==
    /\ conn[c] = "open" /\ c \notin clients
    /\ clients' = clients \cup {c}
    /\ CancelIdle
    /\ UNCHANGED <<transport, conn, pending, answer, aborted, work, draining,
                   deciding, shutdown>>

\* A request of a registered client that the sessions admit; it may outlive
\* its client.
Admit(c) ==
    /\ conn[c] = "open" /\ c \in clients
    /\ ~SessionsClosed
    /\ c \notin operations
    /\ operations' = operations \cup {c}
    /\ UNCHANGED <<transport, wire, teardowns, idle, shutdown>>

WorkEnds(c) ==
    /\ \/ /\ c \in operations
          /\ operations' = operations \ {c}
          /\ UNCHANGED teardowns
       \/ /\ c \in teardowns
          /\ teardowns' = teardowns \ {c}
          /\ UNCHANGED operations
    /\ UNCHANGED <<transport, wire, idle, shutdown>>

\* The grace of an idle leader starts when its last client is gone.
ArmIdle(remaining) ==
    /\ generation' = generation + 1
    /\ timer' = IF quiescing = "no" /\ ~SessionsClosed /\ remaining = {}
                THEN generation + 1 ELSE 0

\* The close event of a socket: the peer or the network ended it, also after a
\* disconnect message, or it was destroyed.  A client that was registered
\* leaves its sessions to be retired.
Close(c) ==
    /\ conn[c] \in {"open", "destroyed"}
    /\ conn' = [conn EXCEPT ![c] = "gone"]
    /\ clients' = clients \ {c}
    /\ answer' = [r \in Requests |-> IF r \in pending[c] THEN "rejected" ELSE answer[r]]
    /\ pending' = [pending EXCEPT ![c] = {}]
    /\ IF c \in clients
       THEN ArmIdle(clients') /\ teardowns' = teardowns \cup {c}
       ELSE UNCHANGED <<generation, timer, teardowns>>
    /\ UNCHANGED <<transport, aborted, operations, draining, deciding, shutdown>>

-----------------------------------------------------------------------------
(* Reverse requests *)

\* client.closed
IsClosed(c) == closed \/ conn[c] \in {"destroyed", "gone"}

\* clean(): the request leaves the map, and its promise settles.
Settle(r, outcome) ==
    /\ pending' = [pending EXCEPT ![ClientOf[r]] = @ \ {r}]
    /\ answer' = [answer EXCEPT ![r] = outcome]

AskGone(r) ==
    LET c == ClientOf[r] IN
    /\ answer[r] = "none"
    /\ c \in clients \/ conn[c] = "gone"
    /\ answer' = [answer EXCEPT ![r] = "waiting"]
    /\ pending' = [pending EXCEPT ![c] = @ \cup {r}]
    /\ UNCHANGED <<transport, conn, clients, aborted, work, idle, shutdown>>

\* request(): it is refused, cannot be encoded, or waits in the map.  Code that
\* holds a client may ask after the client has gone.
Ask(r) ==
    LET c == ClientOf[r] IN
    /\ answer[r] = "none"
    /\ c \in clients \/ conn[c] = "gone"
    /\ \/ /\ answer' = [answer EXCEPT ![r] = "rejected"]
          /\ UNCHANGED pending
       \/ /\ ~IsClosed(c) /\ r \notin aborted
          /\ answer' = [answer EXCEPT ![r] = "waiting"]
          /\ pending' = [pending EXCEPT ![c] = @ \cup {r}]
    /\ UNCHANGED <<transport, conn, clients, aborted, work, idle, shutdown>>

\* A reply of client c with an id: only its own waiting request has one.
Reply(c, r) ==
    /\ conn[c] = "open" /\ c \in clients /\ ~closed
    /\ r \in pending[c]
    /\ Settle(r, "answered")
    /\ UNCHANGED <<transport, conn, clients, aborted, work, idle, shutdown>>

Timeout(r) ==
    /\ r \in Timed
    /\ r \in pending[ClientOf[r]]
    /\ Settle(r, "rejected")
    /\ UNCHANGED <<transport, conn, clients, aborted, work, idle, shutdown>>

\* The signal of the caller; it may be aborted before the request is made.
AbortSignal(r) ==
    /\ r \notin aborted
    /\ aborted' = aborted \cup {r}
    /\ IF r \in pending[ClientOf[r]] THEN Settle(r, "rejected")
                                     ELSE UNCHANGED <<pending, answer>>
    /\ UNCHANGED <<transport, conn, clients, work, idle, shutdown>>

\* rejectSessionRequests(): a session is no longer this client's.
RejectSession(c, s) ==
    LET ended == {r \in pending[c] : SessionOf[r] = s} IN
    /\ ended # {}
    /\ pending' = [pending EXCEPT ![c] = @ \ ended]
    /\ answer' = [r \in Requests |-> IF r \in ended THEN "rejected" ELSE answer[r]]
    /\ UNCHANGED <<transport, conn, clients, aborted, work, idle, shutdown>>

-----------------------------------------------------------------------------
Lifecycle ==
    \/ Start \/ StartThrows \/ ServerError \/ OtherLeader
    \/ Dispose \/ DisposeSettles \/ QuiesceSettles \/ TimerFires \/ AppExit
    \/ \E o \in Owners : OwnerSettles(o)
    \/ \E accepted \in 1..generation : Drained(accepted) \/ Decide(accepted)

Connections ==
    \E c \in Clients :
        \/ Accept(c) \/ Destroy(c) \/ Register(c) \/ Admit(c) \/ WorkEnds(c) \/ Close(c)
        \/ \E r \in Requests : Reply(c, r)
        \/ \E s \in Sessions : RejectSession(c, s)

Next ==
    \/ Lifecycle
    \/ Connections
    \/ \E r \in Requests : Ask(r) \/ Timeout(r) \/ AbortSignal(r)

Spec == Init /\ [][Next]_vars

(* The event loop runs what is due: timers, callbacks and settled promises;   *)
(* a destroyed socket emits its close event, native work ends once it is      *)
(* cancelled.  Nothing is assumed of the clients and of other leaders.        *)
Fairness ==
    /\ WF_vars(errorDue /\ ServerError)
    /\ WF_vars(TimerFires)
    /\ WF_vars(QuiesceSettles) /\ WF_vars(DisposeSettles) /\ WF_vars(AppExit)
    /\ \A o \in Owners : WF_vars(OwnerSettles(o))
    /\ WF_vars(\E accepted \in 1..generation : Drained(accepted))
    /\ WF_vars(\E accepted \in 1..generation : Decide(accepted))
    /\ \A c \in Clients :
         /\ WF_vars(WorkEnds(c))
         /\ WF_vars(conn[c] = "destroyed" /\ Close(c))

FairSpec == Spec /\ Fairness

-----------------------------------------------------------------------------
(* Properties *)

\* The idle exit is decided only while no client is registered, no session
\* still works or is being retired, and no newer grace period runs: whoever
\* registers, or registers and leaves, during the callback's wait keeps the
\* leader (the checks after drain() in disconnected()).
NobodyCutOff ==
    [][cause' = "idle" /\ cause # "idle" =>
        /\ clients = {} /\ operations = {} /\ teardowns = {}
        /\ timer = 0
        /\ \A accepted \in draining : accepted < generation]_vars

\* quiesce() settles, the process is told to exit and dispose() settles only
\* when each owner has settled, one that failed included; dispose() hides
\* neither a failed listener nor a start that threw.
WholeShutdown ==
    /\ quiescing \in {"done", "failed"} \/ exit \in {"exited", "stays"}
         => \A o \in Owners : Settled(o)
    /\ disposal \in {"resolved", "rejected"}
         => /\ \A o \in Owners : Settled(o)
            /\ disposal = "resolved" <=> ~(startupFailure \/ failure)
    /\ quiescing # "no" => closed /\ timer = 0

\* A reverse request waits exactly while its client's map holds it, and no map
\* of a client that has gone holds one: nothing waits for an answer that cannot
\* come, and an answer, a timeout, an abort and a close settle it once.
WaitsOnlyForItsClient ==
    \A r \in Requests :
        /\ answer[r] = "waiting" <=> r \in pending[ClientOf[r]]
        /\ \A c \in Clients : r \in pending[c] => c = ClientOf[r] /\ conn[c] # "gone"

\* A leader whose last client has left gets another one or goes down; a
\* shutdown that began ends, for its callers and the process; and no reverse
\* request outlives the transport, even one that waits for a human.
LeaderEnds ==
    /\ []<>(generation > 0 /\ clients = {} => quiescing # "no")
    /\ []<>(quiescing # "running")
    /\ []<>(disposal # "pending")
    /\ []<>(exit # "quiescing")
    /\ \A r \in Requests : []<>(closed => answer[r] # "waiting")

\* The leader goes down when nobody is cut off by it, or when it is told to; its
\* shutdown is whole when it reports its end, and it does end.
ShutdownComplete == NobodyCutOff /\ []WholeShutdown /\ LeaderEnds

\* The leader never removes the socket file of another one, and leaves none of
\* its own behind.
SocketFile ==
    /\ [][path = "other" /\ path' # "other" =>
            UNCHANGED <<started, closed, quiescing>>]_vars
    /\ [](path = "ours" <=> bound)
    /\ [](closed => ~bound)
=============================================================================
