-------------------------- MODULE SessionRegistry --------------------------
(***************************************************************************)
(* The sessions of one leader: bridge/grok-leader/src/session-registry.ts, *)
(* the accepted work of a session (session-work.ts) and the requests of    *)
(* session-lifecycle.ts that create, load, reload and close sessions.      *)
(*                                                                         *)
(* A record is one session/new or session/load request and what it owns    *)
(* when it succeeds: a native agent, its prompts and its accepted work.    *)
(* Every await is a step; what runs between two awaits is one action.      *)
(* An agent also runs turns that no client asked for, a subagent's end for *)
(* instance; nothing holds these back while its session is reloaded.       *)
(***************************************************************************)
EXTENDS Naturals, FiniteSets

CONSTANTS
    Records,        \* the requests, each with the record that it creates
    Loads,          \* those that are a session/load
    Sessions, Clients,
    SessionOf,      \* the session id of a request
    ClientOf,       \* the client that sends it
    MaxPending,     \* bound: accepted work of a record at one time
    Runners,        \* bound: the records whose agents run turns
    Faults,         \* awaited calls that may reject
    None

FaultKinds == {"prepare", "create", "commit", "present", "reload", "flush", "dispose"}

ASSUME SessionRegistryAssumption ==
    /\ Loads \subseteq Records
    /\ SessionOf \in [Records -> Sessions]
    /\ ClientOf \in [Records -> Clients]
    /\ MaxPending \in Nat
    /\ Runners \subseteq Records
    /\ Faults \subseteq FaultKinds
    /\ None \notin Records

VARIABLES
    at,             \* where a request is, see Phases
    existing,       \* the record that a load replaces
    owner,          \* records: the published record of a session
    retiring,       \* retiring: the record that a session id is reserved for
    release,        \* releases: how far a record's teardown is
    reloading,      \* records whose input a reload has suspended
    borrowed,       \* reloadDrains: records whose preflight is under way
    timer,          \* records with an mcpInitTimer
    connected,      \* clients with an open connection
    shutdown,       \* of the registry: "open" until closed is set
    \* what a record owns
    alive,          \* records whose native agent exists
    pending,        \* work accepted and not settled
    turn,           \* records whose agent runs a prompt
    woken,          \* records whose agent runs a turn that it started itself
    unsaved,        \* whose events the log holds and the store does not, see Writers
    short           \* records of which a capture asks for events not yet stored

requests == <<at, existing>>
ownership == <<owner, retiring, release>>
reload == <<reloading, borrowed>>
leader == <<connected, shutdown>>
log == <<unsaved, short>>
native == <<alive, pending, turn, woken, log>>
vars == <<requests, ownership, reload, timer, leader, native>>

Preflight == {"settling", "idling", "flushing", "capturing"}

Phases ==
    {"new", "queued", "preparing", "replacing", "resolving", "creating",
     "committing", "presenting", "discarding", "refused", "closing", "done"}
    \cup Preflight

\* "savedDraining" is a teardown that need not flush again.
Teardown == {"late", "draining", "savedDraining", "flushing", "disposing"}

\* Who writes to the log of a session: accepted work, a prompt, or the agent
\* in a turn of its own.
Writers == {"work", "prompt", "own"}

----------------------------------------------------------------------------
\* reserved(): the requests that hold a session id.
Reserving(s) ==
    {q \in Records : SessionOf[q] = s /\ at[q] \notin {"new", "queued", "done"}}

\* operations
Operations == {q \in Records : at[q] \notin {"new", "done"}}

\* teardowns
Teardowns == {q \in Records : release[q] \in Teardown}

Closed == shutdown # "open"

Owns(r) == owner[SessionOf[r]] = r

\* acceptsInput
AcceptsInput(r) == ~Closed /\ Owns(r) /\ r \notin reloading

\* assertReady: the record is presented too.
Ready(r) == AcceptsInput(r) /\ at[r] = "done"

\* assertClient
ClientReady(r) == ~Closed /\ ClientOf[r] \in connected

\* A session that a load may not take over.
Foreign(r, old) == ClientOf[old] # ClientOf[r] /\ ClientOf[old] \in connected

Goto(r, phase) == at' = [at EXCEPT ![r] = phase]

MayFail(call) == call \in Faults

\* retire() of the records of S that are published: they are withdrawn at
\* once and their teardown begins.  It is nothing for a record that retired.
Retire(S, next) ==
    /\ owner' = [s \in Sessions |-> IF owner[s] \in S THEN None ELSE owner[s]]
    /\ retiring' = [s \in Sessions |->
                      IF owner[s] \in S THEN owner[s] ELSE retiring[s]]
    /\ release' = [r \in Records |->
                      IF r \in S /\ Owns(r) THEN next ELSE release[r]]
    /\ timer' = timer \ {r \in S : Owns(r)}

----------------------------------------------------------------------------
\* The first part of a request: admission and, for a load, the reload.

\* operation()
Request(r) ==
    /\ at[r] = "new"
    /\ ClientReady(r)
    /\ Goto(r, "queued")
    /\ UNCHANGED <<existing, ownership, reload, timer, leader, native>>

\* The start of reserved().  A load finds the record that it will replace; a
\* new session needs an id that is not in use.
Start(r) ==
    LET s == SessionOf[r]
        old == owner[s]
    IN
    /\ at[r] = "queued"
    /\ \/ /\ Reserving(s) = {}
          /\ old # None => r \in Loads /\ ~Foreign(r, old)
          /\ Goto(r, "preparing")
          /\ existing' = [existing EXCEPT ![r] = old]
       \/ /\ \/ Reserving(s) # {}
             \/ old # None /\ (r \notin Loads \/ Foreign(r, old))
          /\ Goto(r, "done")
          /\ UNCHANGED existing
    /\ UNCHANGED <<ownership, reload, timer, leader, native>>

\* The preset is prepared.  A reload suspends input and cancels the prompts
\* and the work of the record, which end in their own time.
Prepared(r) ==
    LET old == existing[r] IN
    /\ at[r] = "preparing"
    /\ \/ /\ old = None
          /\ Goto(r, "resolving")
          /\ UNCHANGED <<reload, timer>>
       \/ /\ old # None /\ ~Closed /\ Owns(old)
          /\ Goto(r, "settling")
          /\ reloading' = reloading \cup {old}
          /\ borrowed' = borrowed \cup {old}
          /\ timer' = timer \ {old}
       \/ /\ MayFail("prepare") \/ (old # None /\ (Closed \/ ~Owns(old)))
          /\ Goto(r, "done")
          /\ UNCHANGED <<reload, timer>>
    /\ UNCHANGED <<existing, ownership, leader, native>>

\* The store has all of the log of r but what turns wrote during the flush.
Saves(r, meanwhile) ==
    unsaved' = [unsaved EXCEPT ![r] = {}] \/ unsaved' = [unsaved EXCEPT ![r] = @ \cap meanwhile]

\* Mutant: the record that stays is left without input.
ReloadFailsSuspended(r) ==
    /\ Goto(r, "done")
    /\ borrowed' = borrowed \ {existing[r]}
    /\ UNCHANGED reloading

\* The preflight fails: its record, if it is still published, has input again.
ReloadFails(r) ==
    /\ Goto(r, "done")
    /\ borrowed' = borrowed \ {existing[r]}
    /\ reloading' = reloading \ {existing[r]}

\* An await of the preflight ends: it goes on if the record is still published.
PreflightGoesOn(r, phase) ==
    \/ Owns(existing[r]) /\ Goto(r, phase) /\ UNCHANGED reload
    \/ ~Owns(existing[r]) /\ ReloadFails(r)
    \/ MayFail("reload") /\ ReloadFails(r)

\* work.settle()
Settled(r) ==
    /\ at[r] = "settling"
    /\ pending[existing[r]] = 0
    /\ PreflightGoesOn(r, "idling")
    /\ UNCHANGED <<existing, ownership, timer, leader, native>>

\* agent.whenIdle()
Idled(r) ==
    /\ at[r] = "idling"
    /\ existing[r] \notin turn \cup woken
    /\ PreflightGoesOn(r, "flushing")
    /\ UNCHANGED <<existing, ownership, timer, leader, native>>

\* flush(); one that rejects ends the preflight.  The end of the log that the
\* capture asks for is fixed as it returns: a turn that the agent started
\* meanwhile may have written up to there what the store does not have.
Flushed(r) ==
    LET old == existing[r] IN
    /\ at[r] = "flushing"
    /\ \/ /\ Saves(old, {"own"})
          /\ \/ /\ Owns(old)
                /\ Goto(r, "capturing") /\ UNCHANGED reload
                /\ short' = IF unsaved'[old] = {} THEN short \ {old} ELSE short \cup {old}
             \/ /\ ~Owns(old) /\ ReloadFails(r)
                /\ UNCHANGED short
       \/ /\ MayFail("reload") /\ ReloadFails(r)
          /\ UNCHANGED log
    /\ UNCHANGED <<existing, ownership, timer, leader, alive, pending, turn, woken>>

\* Mutant: a capture that finds fewer events than it asked for is accepted.
CapturedShort(r) ==
    /\ at[r] = "capturing"
    /\ \/ /\ Owns(existing[r])
          /\ Goto(r, "replacing")
          /\ Retire({existing[r]}, "savedDraining")
          /\ borrowed' = borrowed \ {existing[r]}
          /\ UNCHANGED reloading
       \/ /\ ~Owns(existing[r]) \/ MayFail("reload")
          /\ ReloadFails(r)
          /\ UNCHANGED <<ownership, timer>>
    /\ UNCHANGED <<existing, leader, native>>

\* capture(), which rejects when the store has fewer events than it asks for,
\* and the commit of the reload: the record retires and is not flushed again.
Captured(r) ==
    /\ at[r] = "capturing"
    /\ \/ /\ Owns(existing[r]) /\ existing[r] \notin short
          /\ Goto(r, "replacing")
          /\ Retire({existing[r]}, "savedDraining")
          /\ borrowed' = borrowed \ {existing[r]}
          /\ UNCHANGED reloading
       \/ /\ \/ ~Owns(existing[r]) \/ existing[r] \in short
             \/ MayFail("reload")
          /\ ReloadFails(r)
          /\ UNCHANGED <<ownership, timer>>
    /\ UNCHANGED <<existing, leader, native>>

\* The teardown of the replaced record has settled.
Replaced(r) ==
    /\ at[r] = "replacing"
    /\ release[existing[r]] = "released"
    /\ reloading' = reloading \ {existing[r]}
    /\ \/ Goto(r, "resolving")
       \/ MayFail("dispose") /\ Goto(r, "done")
    /\ UNCHANGED <<existing, ownership, borrowed, timer, leader, native>>

----------------------------------------------------------------------------
\* The second part of a request: activate().

\* models.prepare()
Resolved(r) ==
    /\ at[r] = "resolving"
    /\ \/ ClientReady(r) /\ Goto(r, "creating")
       \/ ~ClientReady(r) /\ Goto(r, "done")
       \/ MayFail("prepare") /\ Goto(r, "done")
    /\ UNCHANGED <<existing, ownership, reload, timer, leader, native>>

\* agents.create() or resume(); an agent that nobody waits for any more is
\* disposed of.
Created(r) ==
    /\ at[r] = "creating"
    /\ \/ /\ alive' = alive \cup {r}
          /\ Goto(r, IF ClientReady(r) THEN "committing" ELSE "discarding")
       \/ /\ MayFail("create")
          /\ Goto(r, "done")
          /\ UNCHANGED alive
    /\ UNCHANGED <<existing, ownership, reload, timer, leader, pending, turn, woken, log>>

\* Mutant: publication does not look at the client again.
MayPublishUnchecked(r) ==
    /\ ~Closed
    /\ owner[SessionOf[r]] = None
    /\ retiring[SessionOf[r]] = None

\* What publish() requires.
MayPublish(r) ==
    /\ ~Closed
    /\ ClientOf[r] \in connected
    /\ owner[SessionOf[r]] = None
    /\ retiring[SessionOf[r]] = None

\* preset.commit() and publish(): a record that comes too late is torn down.
Publish(r) ==
    /\ at[r] = "committing"
    /\ \/ /\ MayPublish(r)
          /\ owner' = [owner EXCEPT ![SessionOf[r]] = r]
          /\ Goto(r, "presenting")
          /\ UNCHANGED release
       \/ /\ ~MayPublish(r)
          /\ release' = [release EXCEPT ![r] = "late"]
          /\ Goto(r, "refused")
          /\ UNCHANGED owner
       \/ /\ MayFail("commit")
          /\ Goto(r, "discarding")
          /\ UNCHANGED <<owner, release>>
    /\ UNCHANGED <<existing, retiring, reload, timer, leader, native>>

\* An agent that is disposed of ends its turns; whether it saves what they wrote
\* is its own affair, and the model forgets it.
TurnsGone(r) ==
    /\ turn' = turn \ {r}
    /\ woken' = woken \ {r}
    /\ unsaved' = [unsaved EXCEPT ![r] = @ \cap {"work"}]

\* The teardown of a refused publication.
LateReleased(r) ==
    /\ at[r] = "refused"
    /\ release' = [release EXCEPT ![r] = "released"]
    /\ alive' = alive \ {r}
    /\ TurnsGone(r)
    /\ Goto(r, "done")
    /\ UNCHANGED <<existing, owner, retiring, reload, timer, leader,
                   pending, short>>

\* cleanup() of what was never published.
Discarded(r) ==
    /\ at[r] = "discarding"
    /\ alive' = alive \ {r}
    /\ TurnsGone(r)
    /\ Goto(r, "done")
    /\ UNCHANGED <<existing, ownership, reload, timer, leader,
                   pending, short>>

\* present(): a new session, or a load with a notice, sets the timer.  A
\* record that was closed meanwhile, or that cannot be presented, is closed.
Presented(r) ==
    /\ at[r] = "presenting"
    /\ \/ /\ Owns(r) /\ ClientOf[r] \in connected
          /\ Goto(r, "done")
          /\ timer' = timer \cup {r} \/ (r \in Loads /\ UNCHANGED timer)
          /\ UNCHANGED ownership
       \/ /\ \/ ~Owns(r) \/ ClientOf[r] \notin connected
             \/ MayFail("present")
          /\ Goto(r, "closing")
          /\ Retire({r}, "draining")
    /\ UNCHANGED <<existing, reload, leader, native>>

ClosedAfterFailure(r) ==
    /\ at[r] = "closing"
    /\ release[r] = "released"
    /\ Goto(r, "done")
    /\ UNCHANGED <<existing, ownership, reload, timer, leader, native>>

----------------------------------------------------------------------------
\* A published record.

\* session/close
Close(r) ==
    /\ Owns(r) /\ ClientOf[r] \in connected
    /\ Retire({r}, "draining")
    /\ UNCHANGED <<requests, reload, leader, native>>

TimerFires(r) ==
    /\ r \in timer
    /\ timer' = timer \ {r}
    /\ UNCHANGED <<requests, ownership, reload, leader, native>>

\* accept(): work is admitted to a live record; a write needs it presented.
AcceptWork(r) ==
    /\ AcceptsInput(r) /\ ClientOf[r] \in connected
    /\ pending[r] < MaxPending
    /\ pending' = [pending EXCEPT ![r] = @ + 1]
    /\ UNCHANGED <<requests, ownership, reload, timer, leader, alive, turn, woken, log>>

\* Accepted work may write until it has settled, cancelled or not, and a turn
\* until it ends.
Writing(r) ==
    {k \in Writers : \/ k = "work" /\ pending[r] > 0
                     \/ k = "prompt" /\ r \in turn
                     \/ k = "own" /\ r \in woken}

Writes(r) ==
    /\ \E k \in Writing(r) \ unsaved[r] : unsaved' = [unsaved EXCEPT ![r] = @ \cup {k}]
    /\ UNCHANGED <<requests, ownership, reload, timer, leader, alive, pending, turn, woken, short>>

\* Events also reach the store with no flush.
Persist(r) ==
    /\ unsaved[r] # {}
    /\ unsaved' = [unsaved EXCEPT ![r] = {}]
    /\ short' = short \ {r}
    /\ UNCHANGED <<requests, ownership, reload, timer, leader, alive, pending, turn, woken>>

WorkSettles(r) ==
    /\ pending[r] > 0
    /\ pending' = [pending EXCEPT ![r] = @ - 1]
    /\ UNCHANGED <<requests, ownership, reload, timer, leader, alive, turn, woken, log>>

\* The prompts of a record are those of PromptQueue; here only that one runs.
Prompt(r) ==
    /\ Ready(r)
    /\ r \in Runners \ (turn \cup woken)
    /\ turn' = turn \cup {r}
    /\ UNCHANGED <<requests, ownership, reload, timer, leader, alive, pending, woken, log>>

TurnEnds(r) ==
    /\ r \in turn
    /\ turn' = turn \ {r}
    /\ UNCHANGED <<requests, ownership, reload, timer, leader, alive, pending, woken, log>>

\* The agent starts a turn itself, at rest or as a turn unwinds, whatever the
\* leader does meanwhile; but whenIdle() has seen an agent that is at rest.
Wake(r) ==
    /\ r \in (Runners \cap alive) \ woken
    /\ r \in turn \/ ~\E q \in Records : at[q] = "idling" /\ existing[q] = r
    /\ woken' = woken \cup {r}
    /\ UNCHANGED <<requests, ownership, reload, timer, leader, alive, pending, turn, log>>

OwnTurnEnds(r) ==
    /\ r \in woken
    /\ woken' = woken \ {r}
    /\ UNCHANGED <<requests, ownership, reload, timer, leader, alive, pending, turn, log>>

----------------------------------------------------------------------------
\* The teardown of a retired record.

Drains == {"draining", "savedDraining"}

AfterDrain(r) == IF release[r] = "draining" THEN "flushing" ELSE "disposing"

\* Mutant: the teardown does not wait for accepted work.
DrainedAtOnce(r) ==
    /\ release[r] \in Drains
    /\ r \notin borrowed
    /\ release' = [release EXCEPT ![r] = AfterDrain(r)]
    /\ UNCHANGED <<requests, owner, retiring, reload, timer, leader, native>>

\* The accepted work and the preflight have settled.
Drained(r) ==
    /\ release[r] \in Drains
    /\ pending[r] = 0
    /\ r \notin borrowed
    /\ release' = [release EXCEPT ![r] = AfterDrain(r)]
    /\ UNCHANGED <<requests, owner, retiring, reload, timer, leader, native>>

\* The final flush; a failure does not stop the disposal.
FinalFlush(r) ==
    /\ release[r] = "flushing"
    /\ release' = [release EXCEPT ![r] = "disposing"]
    /\ Saves(r, {"prompt", "own"}) \/ (MayFail("flush") /\ UNCHANGED unsaved)
    /\ UNCHANGED <<requests, owner, retiring, reload, timer, leader,
                   alive, pending, turn, woken, short>>

\* dispose(): the agent is gone, with its turns, and the session id is free.
Disposed(r) ==
    /\ release[r] = "disposing"
    /\ release' = [release EXCEPT ![r] = "released"]
    /\ alive' = alive \ {r}
    /\ TurnsGone(r)
    /\ retiring' = [s \in Sessions |-> IF retiring[s] = r THEN None ELSE retiring[s]]
    /\ UNCHANGED <<requests, owner, reload, timer, leader, pending, short>>

----------------------------------------------------------------------------
\* The leader.

\* disconnect(): every record of the client retires.
Disconnect(c) ==
    /\ c \in connected
    /\ connected' = connected \ {c}
    /\ Retire({r \in Records : ClientOf[r] = c}, "draining")
    /\ UNCHANGED <<requests, reload, shutdown, native>>

\* dispose()
Shutdown ==
    /\ shutdown = "open"
    /\ shutdown' = "closing"
    /\ Retire(Records, "draining")
    /\ UNCHANGED <<requests, reload, connected, native>>

\* Mutant: the shutdown does not wait for requests that started before it.
ShutdownDoneEarly ==
    /\ shutdown = "closing"
    /\ Teardowns = {}
    /\ shutdown' = "done"
    /\ UNCHANGED <<requests, ownership, reload, timer, connected, native>>

\* drain(): no request and no teardown is under way.
ShutdownDone ==
    /\ shutdown = "closing"
    /\ Operations = {} /\ Teardowns = {}
    /\ shutdown' = "done"
    /\ UNCHANGED <<requests, ownership, reload, timer, connected, native>>

----------------------------------------------------------------------------
Init ==
    /\ at = [r \in Records |-> "new"]
    /\ existing = [r \in Records |-> None]
    /\ owner = [s \in Sessions |-> None]
    /\ retiring = [s \in Sessions |-> None]
    /\ release = [r \in Records |-> "none"]
    /\ reloading = {} /\ borrowed = {} /\ timer = {}
    /\ connected = Clients /\ shutdown = "open"
    /\ alive = {} /\ turn = {} /\ woken = {} /\ short = {}
    /\ unsaved = [r \in Records |-> {}]
    /\ pending = [r \in Records |-> 0]

\* A request that was admitted goes on by itself.
RequestStep(r) ==
    \/ Start(r) \/ Prepared(r)
    \/ Settled(r) \/ Idled(r) \/ Flushed(r) \/ Captured(r) \/ Replaced(r)
    \/ Resolved(r) \/ Created(r) \/ Publish(r) \/ Presented(r)
    \/ LateReleased(r) \/ Discarded(r) \/ ClosedAfterFailure(r)

TeardownStep(r) == Drained(r) \/ FinalFlush(r) \/ Disposed(r)

RecordStep(r) ==
    \/ Request(r) \/ Close(r) \/ TimerFires(r) \/ AcceptWork(r) \/ Prompt(r)
    \/ Writes(r) \/ Persist(r) \/ WorkSettles(r) \/ TurnEnds(r) \/ Wake(r) \/ OwnTurnEnds(r)

Next ==
    \/ \E r \in Records : RequestStep(r) \/ TeardownStep(r) \/ RecordStep(r)
    \/ \E c \in Clients : Disconnect(c)
    \/ Shutdown \/ ShutdownDone

Spec == Init /\ [][Next]_vars

\* Cancelled work and prompts.
Cancelled(r) == r \in reloading \/ release[r] # "none"

\* Every awaited call settles, and what was cancelled ends, as do the turns that
\* an agent started itself.
Fairness ==
    /\ \A r \in Records :
        /\ WF_vars(RequestStep(r))
        /\ WF_vars(TeardownStep(r))
        /\ WF_vars(Cancelled(r) /\ WorkSettles(r))
        /\ WF_vars(Cancelled(r) /\ TurnEnds(r))
        /\ WF_vars(Cancelled(r) /\ OwnTurnEnds(r))
    /\ WF_vars(ShutdownDone)

FairSpec == Spec /\ Fairness

----------------------------------------------------------------------------
\* Type invariant.
TypeOK ==
    /\ at \in [Records -> Phases]
    /\ existing \in [Records -> Records \cup {None}]
    /\ \A r \in Records : at[r] \in Preflight \cup {"replacing"} =>
        existing[r] \in Records /\ SessionOf[existing[r]] = SessionOf[r]
    /\ owner \in [Sessions -> Records \cup {None}]
    /\ retiring \in [Sessions -> Records \cup {None}]
    /\ \A s \in Sessions : {owner[s], retiring[s]} \subseteq
        {None} \cup {r \in Records : SessionOf[r] = s}
    /\ release \in [Records -> Teardown \cup {"none", "released"}]
    /\ reloading \subseteq Records /\ borrowed \subseteq reloading
    /\ timer \subseteq Records
    /\ connected \subseteq Clients
    /\ shutdown \in {"open", "closing", "done"}
    /\ alive \subseteq Records /\ turn \subseteq Records /\ woken \subseteq alive
    /\ unsaved \in [Records -> SUBSET Writers] /\ short \subseteq Records
    /\ pending \in [Records -> 0..MaxPending]

\* The published record of a session has the only agent of that session: the
\* agent of the record it replaced, and of every request that failed, is gone.
SoleAgent ==
    \A s \in Sessions : owner[s] # None =>
        {r \in alive : SessionOf[r] = s} = {owner[s]}

\* A published record has its client and its leader: no request that was under
\* way while the client left, or the leader closed, strands a session.
OwnersLive ==
    \A s \in Sessions : owner[s] # None =>
        ~Closed /\ ClientOf[owner[s]] \in connected

\* An explicit close does not dispose the agent that a preflight borrowed.
BorrowHeld == borrowed \subseteq alive

\* The log that a reload captures has all that the clients asked for: while it
\* is captured no prompt runs, no accepted work is left and what both wrote is
\* saved.  Only a turn that the agent started itself can still write.
CaptureFinal ==
    \A r \in Records : at[r] = "capturing" =>
        /\ existing[r] \notin turn
        /\ pending[existing[r]] = 0
        /\ unsaved[existing[r]] \subseteq {"own"}

\* A reload does not replace a session by less than the end it asked for: what
\* the agent's own turns wrote until the flush returned is in the capture too.
\* What they write after that is not, and this retirement flushes no more.
CaptureWhole ==
    \A r \in Records : at[r] = "replacing" =>
        /\ existing[r] \notin short
        /\ unsaved[existing[r]] \subseteq {"own"}

\* Accepted work is never lost: an agent is disposed of after its work has
\* settled and was saved, unless the last flush itself failed.
NothingLost ==
    "flush" \notin Faults =>
        \A r \in Records : "work" \in unsaved[r] \/ pending[r] > 0 => r \in alive

\* A timer belongs to a published record that accepts input.
TimerOfOwner == \A r \in timer : Owns(r) /\ r \notin reloading

\* A published session has one agent, its client and its leader, and a timer
\* speaks for a record that is published and accepts input.
PublicationIsSound == SoleAgent /\ OwnersLive /\ TimerOfOwner

\* A reload works on an agent that stays, and hands on a log with all that its
\* clients asked for, and with nothing missing below the end it asked for.
ReloadIsSound == BorrowHeld /\ CaptureFinal /\ CaptureWhole

\* The registry is disposed when nothing it started is left, late requests
\* included.
ShutdownReleases ==
    shutdown = "done" => alive = {} /\ timer = {} /\ Operations = {}

\* Every admitted request is answered: a reload never waits for its own end.
RequestsEnd == \A r \in Records : []<>(at[r] \in {"new", "done"})

\* Input that a reload suspends is returned, or the record retires.
InputReturns == \A r \in Records : []<>(r \notin reloading)

\* A shutdown ends.
ShutdownEnds == []<>(shutdown # "closing")
=============================================================================
