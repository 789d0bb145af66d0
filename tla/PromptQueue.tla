---------------------------- MODULE PromptQueue ----------------------------
(***************************************************************************)
(* The prompt queue of one session: bridge/grok-leader/src/prompt-queue.ts *)
(* and the row controls of queue-controls.ts.                              *)
(*                                                                         *)
(* A client sends session/prompt requests.  Each takes an admission slot   *)
(* in the order of its request, has its content prepared asynchronously,   *)
(* and becomes a row of the queue, a steering message of the running turn, *)
(* or the next prompt to run.  One prompt at a time owns the running slot; *)
(* it is handed to the native agent, settles at its own turn end, drains   *)
(* when it was cancelled, flushes its output and only then frees the slot. *)
(*                                                                         *)
(* Every handler of the code runs to completion between two awaits, so a   *)
(* handler is one action; what happens after an await is another.          *)
(* The native agent (dsh-agent) is not in this repository: its actions are *)
(* what the queue's calls and event handlers require of it.                *)
(***************************************************************************)
EXTENDS Naturals, Sequences, SequencesExt, FiniteSets

CONSTANTS
    NumPrompts,     \* bound: session/prompt requests sent to this queue
    Ids,            \* prompt ids a client may use, again once they are free
    Images,         \* the requests whose content holds an image
    CombineQueued,  \* the combineQueued option
    Faults,         \* calls that may throw or reject, see FaultKinds
    MaxWakes,       \* bound: turns the agent starts for a reason of its own
    Wake,           \* the owner of such a turn
    None

FaultKinds == {"prepare", "followup", "steer", "cancel", "idle", "flush"}

\* A request is named by its place in the order in which requests arrive.
Rpc == 1..NumPrompts

ASSUME PromptQueueAssumption ==
    /\ NumPrompts \in Nat
    /\ MaxWakes \in Nat
    /\ Images \subseteq Rpc
    /\ CombineQueued \in BOOLEAN
    /\ Faults \subseteq FaultKinds
    /\ None \notin Ids /\ None \notin Rpc
    /\ None \notin {"completed", "cancelled", "failed", "rejected"}
    /\ Wake \notin Rpc \cup {None}

VARIABLES
    \* the requests, as the client sees them
    pid,            \* prompt id of a submitted request
    outcome,        \* state of its promise; the first settlement wins
    \* admission: promptAdmissionTail, preparing, preparations, admissionEpoch
    slot,           \* place of the request's slot in the admission chain
    retired,        \* slots that no longer own their request
    outdated,       \* slots whose epoch is not admissionEpoch any more
    preparations,   \* native content preparations that are under way
    \* PromptState
    queue,          \* promptQueue: rows, by request
    held,           \* editHolds: prompt ids
    steered,        \* requests folded into the running turn
    run,            \* runningPromptId, inflight and cancelTrigger
    promo,          \* promotionScheduled, and whether its wait has resolved
    \* the session that hosts the queue
    live,           \* isLive(): "live", "suspended" by a reload, or "lost"
    disposal,
    \* the native agent
    status,         \* agent.status
    inbox,          \* messages of followup() it has not claimed
    turnOf,         \* whose message the turn that runs now has claimed
    wakes,          \* turns it has started for a reason of its own
    \* what left the queue
    view,           \* the last x.ai/queue/changed
    handed,         \* requests whose content the agent has been given
    completed       \* requests x.ai/session/prompt_complete was sent for

requests == <<pid, outcome>>
admission == <<slot, retired, outdated, preparations>>
prompts == <<queue, held, steered, promo>>
host == <<live, disposal>>
agent == <<status, inbox, turnOf, wakes>>
wire == <<view, handed, completed>>
vars == <<requests, admission, prompts, run, host, agent, wire>>

----------------------------------------------------------------------------
\* The running slot.  inflight is defined exactly in phase "active".

Free == [rpc |-> None, phase |-> "free", stop |-> None, sendNow |-> FALSE]

Inflight(r) == r.phase = "active"

\* The prompt of r has its stop reason and goes on in this phase.
Stopped(r, phase, stop) ==
    [rpc |-> r.rpc, phase |-> phase, stop |-> stop, sendNow |-> r.sendNow]

\* A phase of the settle path: a cancelled prompt keeps the slot until the
\* aborted activity ends, unless disposal has started (runPrompt's race).
SettleRun(r, stop, draining) ==
    IF Inflight(r)
    THEN Stopped(r, IF draining THEN "draining" ELSE "flushing", stop)
    ELSE r

\* settlePrompt('cancelled'), with the await that follows it in runPrompt.
CancelRun(r) == SettleRun(r, "cancelled", status = "running")

\* Mutant: nothing ends the wait of a cancelled prompt.
DrainForever(r) == r

\* The race of a cancelled prompt ends: its activity did, or disposal starts.
EndDrain(r) ==
    IF r.phase = "draining" THEN Stopped(r, "flushing", r.stop) ELSE r

StampSendNow(r) == [r EXCEPT !.sendNow = TRUE]

----------------------------------------------------------------------------
\* Requests, admission and rows.

\* Settle the promises of S that have not settled yet.
SettleRpcs(out, S, how) ==
    [r \in Rpc |-> IF r \in S /\ out[r] = "pending" THEN how ELSE out[r]]

Preparing == {r \in Rpc : slot[r] # "none" /\ r \notin retired}

Active == Preparing \cup ToSet(queue) \cup steered
            \cup (IF run = Free THEN {} ELSE {run.rpc})

\* runningPromptId
RunningId == IF run = Free THEN None ELSE pid[run.rpc]

IsLive == disposal = "none" /\ live = "live"

\* The indices of the rows with this id: one at most.
RowsWith(id) == {i \in DOMAIN queue : pid[queue[i]] = id}

Snapshot(rows, r) == [rows |-> rows, running |-> r.rpc]

\* queue/changed at the end of a handler.
Broadcast == view' = Snapshot(queue', run')

\* The handler has put a prompt into the running slot and the agent took it.
Started == Inflight(run') /\ run'.rpc # run.rpc

\* queue/changed only from inside runPrompt.
BroadcastIfStarted == view' = IF Started THEN Snapshot(queue', run') ELSE view

MayThrow(call) == {TRUE} \cup (IF call \in Faults THEN {FALSE} ELSE {})

----------------------------------------------------------------------------
\* Promotion: advancePromptQueue, promoteWhenIdle and the start of runPrompt.
\* rows, holds, r and out are the queue, held, run and outcome that the
\* handler has arrived at when it promotes.

\* Mutant: folding takes held rows along.
FoldedPastHolds(rows, holds) ==
    IF ~CombineQueued \/ ToSet(rows) \cap Images # {} THEN 0 ELSE Len(rows) - 1

\* How many rows behind the front are folded into it.
Folded(rows, holds) ==
    IF ~CombineQueued \/ rows[1] \in Images THEN 0
    ELSE Cardinality({i \in 2..Len(rows) :
            \A j \in 2..i : pid[rows[j]] \notin holds /\ rows[j] \notin Images})

\* runPrompt up to its first await: the slot is taken, then followup().
RunPrompt(r, folded) ==
    \E ok \in MayThrow("followup") :
        /\ run' = [rpc |-> r, stop |-> IF ok THEN None ELSE "failed",
                   phase |-> IF ok THEN "active" ELSE "flushing",
                   sendNow |-> FALSE]
        /\ handed' = IF ok THEN handed \cup {r} \cup folded ELSE handed
        /\ status' = IF ok THEN "running" ELSE status
        /\ inbox' = IF ok THEN Append(inbox, r) ELSE inbox

\* Mutant: a settling prompt does not keep its successor out.
MayAdvanceWhileSettling(rows, holds, r) ==
    ~Inflight(r) /\ rows # <<>> /\ pid[rows[1]] \notin holds

MayAdvance(rows, holds, r) ==
    /\ r = Free
    /\ rows # <<>>
    /\ pid[rows[1]] \notin holds

Stay(rows, r, out) ==
    /\ queue' = rows /\ run' = r /\ outcome' = out
    /\ UNCHANGED <<handed, status, inbox>>

Advance(rows, holds, r, out) ==
    IF MayAdvance(rows, holds, r)
    THEN LET k == Folded(rows, holds)
             folded == {rows[i] : i \in 2..(k + 1)}
         IN  /\ queue' = SubSeq(rows, k + 2, Len(rows))
             /\ outcome' = SettleRpcs(out, folded, "cancelled")
             /\ RunPrompt(rows[1], folded)
    ELSE Stay(rows, r, out)

\* Mutant: a busy agent is not waited for.
PromoteIfIdle(rows, holds, r, out) ==
    /\ IF IsLive /\ promo = "none" /\ ~Inflight(r) /\ status = "idle"
       THEN Advance(rows, holds, r, out) ELSE Stay(rows, r, out)
    /\ UNCHANGED promo

\* Mutant: a settled prompt is taken for an idle agent.
PromoteAtTurnEnd(rows, holds, r, out) ==
    /\ IF IsLive /\ ~Inflight(r)
       THEN Advance(rows, holds, r, out) ELSE Stay(rows, r, out)
    /\ UNCHANGED promo

\* promoteWhenIdle.
Promote(rows, holds, r, out) ==
    \/ /\ ~IsLive \/ promo # "none"
       /\ Stay(rows, r, out)
       /\ UNCHANGED promo
    \/ /\ IsLive /\ promo = "none"
       /\ ~Inflight(r) /\ status = "idle"
       /\ Advance(rows, holds, r, out)
       /\ UNCHANGED promo
    \/ /\ IsLive /\ promo = "none"
       /\ Inflight(r) \/ status # "idle"
       /\ promo' = "waiting"
       /\ Stay(rows, r, out)

----------------------------------------------------------------------------
\* submit

Submitted(r) == outcome[r] # "new"

NextRpc(r) == ~Submitted(r) /\ \A s \in 1..(r - 1) : Submitted(s)

\* Mutant: only waiting rows are looked at.
DuplicateRow(id) == \E s \in ToSet(queue) : pid[s] = id

Duplicate(id) == \E s \in Active : pid[s] = id

SubmitRefused(r) ==
    /\ NextRpc(r)
    /\ ~IsLive \/ \E id \in Ids : Duplicate(id)
    /\ outcome' = [outcome EXCEPT ![r] = "rejected"]
    /\ UNCHANGED <<pid, admission, prompts, run, host, agent, wire>>

Submit(r, id) ==
    /\ NextRpc(r)
    /\ IsLive
    /\ ~Duplicate(id)
    /\ pid' = [pid EXCEPT ![r] = id]
    /\ outcome' = [outcome EXCEPT ![r] = "pending"]
    /\ slot' = [slot EXCEPT ![r] = "waiting"]
    /\ UNCHANGED <<retired, outdated, preparations, prompts, run, host, agent,
                   wire>>

\* retire() of a slot whose predecessor is done: the next slot may go.
Retire(r) ==
    /\ retired' = retired \cup {r}
    /\ slot' = [slot EXCEPT ![r] = "released"]

\* assertActive(): what an admission is told at a checkpoint, None if it may
\* go on.  A targeted slot is retired, and its checkpoints change nothing.
Refusal(r) ==
    IF ~IsLive THEN "rejected" ELSE IF r \in outdated THEN "cancelled" ELSE None

RefuseAdmission(r, how) ==
    /\ outcome' = SettleRpcs(outcome, {r}, how)
    /\ Retire(r)
    /\ UNCHANGED <<pid, outdated, prompts, run, host, agent, wire>>

\* previous is the admission tail that the slot found: the slot before it.
AdmissionTurn(r) ==
    LET earlier == {s \in 1..(r - 1) : slot[s] # "none"} IN
    /\ slot[r] = "waiting"
    /\ earlier # {} => slot[Max(earlier)] = "released"

\* previous.then: the slot was cancelled while it waited.
PassRetired(r) ==
    /\ AdmissionTurn(r)
    /\ r \in retired
    /\ slot' = [slot EXCEPT ![r] = "released"]
    /\ UNCHANGED <<requests, retired, outdated, preparations, prompts, run,
                   host, agent, wire>>

\* previous.then: the checkpoint before preparation refuses the slot.
RefuseTurn(r) ==
    /\ AdmissionTurn(r)
    /\ r \notin retired
    /\ Refusal(r) # None
    /\ RefuseAdmission(r, Refusal(r))
    /\ UNCHANGED preparations

\* previous.then: prepare(admission) starts.
StartPreparation(r) ==
    /\ AdmissionTurn(r)
    /\ r \notin retired
    /\ Refusal(r) = None
    /\ slot' = [slot EXCEPT ![r] = "admitted"]
    /\ preparations' = preparations \cup {r}
    /\ UNCHANGED <<requests, retired, outdated, prompts, run, host, agent,
                   wire>>

\* The preparation of a cancelled slot ends: nothing is admitted.
LatePreparation(r) ==
    /\ r \in preparations
    /\ r \in retired
    /\ preparations' = preparations \ {r}
    /\ UNCHANGED <<requests, slot, retired, outdated, prompts, run, host,
                   agent, wire>>

\* The preparation fails by itself, or a checkpoint stops it.
PreparationFails(r) ==
    /\ r \in preparations
    /\ r \notin retired
    /\ preparations' = preparations \ {r}
    /\ \/ Refusal(r) # None /\ RefuseAdmission(r, Refusal(r))
       \/ "prepare" \in Faults /\ RefuseAdmission(r, "rejected")

----------------------------------------------------------------------------
\* enqueuePrompt: content is prepared and the slot still owns its request.

\* Mutant: content of a retired slot is enqueued all the same.
PreparedLate(r) ==
    /\ r \in preparations
    /\ Refusal(r) = None
    /\ preparations' = preparations \ {r}
    /\ Retire(r)
    /\ UNCHANGED <<pid, outdated, held, host, turnOf, wakes, completed>>

Prepared(r) ==
    /\ r \in preparations
    /\ r \notin retired
    /\ Refusal(r) = None
    /\ preparations' = preparations \ {r}
    /\ Retire(r)
    /\ UNCHANGED <<pid, outdated, held, host, turnOf, wakes, completed>>

\* _meta.sendNow while a turn runs: cancel it and run this prompt next.
EnqueueSendNow(r) ==
    /\ Prepared(r)
    /\ Inflight(run)
    /\ queue' = <<r>> \o queue
    /\ \E ok \in MayThrow("cancel") :
        /\ run' = IF ok THEN CancelRun(StampSendNow(run)) ELSE StampSendNow(run)
        /\ outcome' = IF ok THEN outcome ELSE SettleRpcs(outcome, {r}, "rejected")
        /\ view' = IF ok THEN Snapshot(queue', run') ELSE view
    /\ UNCHANGED <<steered, promo, status, inbox, handed>>

\* Follow-up steering while a turn runs: the row is advertised, then folded.
EnqueueSteer(r) ==
    /\ Prepared(r)
    /\ Inflight(run)
    /\ \E ok \in MayThrow("steer") :
        /\ steered' = IF ok THEN steered \cup {r} ELSE steered
        /\ handed' = IF ok THEN handed \cup {r} ELSE handed
        /\ outcome' = IF ok THEN outcome ELSE SettleRpcs(outcome, {r}, "rejected")
    /\ view' = Snapshot(queue, run)
    /\ UNCHANGED <<queue, run, promo, status, inbox>>

EnqueueRow(r) ==
    /\ Prepared(r)
    /\ Promote(Append(queue, r), held, run, outcome)
    /\ view' = IF Started \/ run' = run THEN Snapshot(queue', run') ELSE view
    /\ UNCHANGED steered

----------------------------------------------------------------------------
\* x.ai/queue/* controls (queue-controls.ts).  id is the control's params.id;
\* a control with a stale expectedVersion behaves like one without its row,
\* except that remove and edit do nothing for an unknown row.

Control == IsLive /\ UNCHANGED <<pid, admission, host, turnOf, wakes,
                                 completed>>

\* Interject, steer, remove and edit with a stale version, and interject and
\* steer of an unknown row: drop the hold and resync the client.
ResyncRow(id) ==
    /\ Control
    /\ held' = held \ {id}
    /\ Promote(queue, held', run, outcome)
    /\ Broadcast
    /\ UNCHANGED steered

Interject(id) ==
    /\ Control
    /\ held' = held \ {id}
    /\ UNCHANGED steered
    /\ \E i \in RowsWith(id) :
        LET rows == <<queue[i]>> \o RemoveAt(queue, i) IN
        \/ /\ ~Inflight(run)
           /\ Promote(rows, held', run, outcome)
           /\ Broadcast
        \/ /\ Inflight(run)
           /\ queue' = rows
           /\ \E ok \in MayThrow("cancel") :
                /\ run' = IF ok THEN CancelRun(StampSendNow(run))
                                ELSE StampSendNow(run)
                /\ view' = IF ok THEN Snapshot(queue', run') ELSE view
           /\ UNCHANGED <<outcome, promo, status, inbox, handed>>

\* queue/steer of a row.  Without a turn the row stays queued and keeps its
\* hold; a throwing agent puts the row back, but its request is rejected.
SteerRow(id) ==
    /\ Control
    /\ \E i \in RowsWith(id) :
        \/ /\ ~Inflight(run)
           /\ Promote(queue, held, run, outcome)
           /\ Broadcast
           /\ UNCHANGED <<held, steered>>
        \/ /\ Inflight(run)
           /\ held' = held \ {id}
           /\ \E ok \in MayThrow("steer") :
                /\ queue' = IF ok THEN RemoveAt(queue, i) ELSE queue
                /\ steered' = IF ok THEN steered \cup {queue[i]} ELSE steered
                /\ handed' = IF ok THEN handed \cup {queue[i]} ELSE handed
                /\ outcome' = IF ok THEN outcome
                              ELSE SettleRpcs(outcome, {queue[i]}, "rejected")
           /\ view' = Snapshot(queue', run)
           /\ UNCHANGED <<run, promo, status, inbox>>

RemoveRow(id) ==
    /\ Control
    /\ held' = held \ {id}
    /\ \E i \in RowsWith(id) :
        Promote(RemoveAt(queue, i), held', run,
                SettleRpcs(outcome, {queue[i]}, "cancelled"))
    \* the broadcast comes before the promotion
    /\ view' = IF Started THEN Snapshot(queue', run')
               ELSE [rows |-> RemoveAt(queue, CHOOSE i \in RowsWith(id) : TRUE),
                     running |-> run.rpc]
    /\ UNCHANGED steered

\* queue/remove of the running prompt.  A throwing cancel() ends the handler.
RemoveRunning(id) ==
    /\ Control
    /\ RowsWith(id) = {}
    /\ RunningId = id
    /\ \E ok \in MayThrow("cancel") :
        \/ /\ ok
           /\ held' = held \ {id}
           /\ Promote(queue, held', CancelRun(run), outcome)
           /\ Broadcast
        \/ /\ ~ok
           /\ Stay(queue, run, outcome)
           /\ UNCHANGED <<held, promo, view>>
    /\ UNCHANGED steered

\* queue/remove of an unknown id: promote and resync, holds untouched.
RemoveUnknown(id) ==
    /\ Control
    /\ RowsWith(id) = {}
    /\ RunningId # id
    /\ Promote(queue, held, run, outcome)
    /\ Broadcast
    /\ UNCHANGED <<held, steered>>

\* queue/edit of a row: its text is rewritten, its hold is dropped.
EditRow(id) == RowsWith(id) # {} /\ ResyncRow(id)

HoldEdit(id) ==
    /\ Control
    /\ held' = held \cup {id}
    /\ UNCHANGED <<outcome, queue, steered, run, promo, status, inbox, view,
                   handed>>

ReleaseEdit(id) ==
    /\ Control
    /\ id \in held
    /\ held' = held \ {id}
    /\ Promote(queue, held', run, outcome)
    /\ BroadcastIfStarted
    /\ UNCHANGED steered

\* queue/reorder: the rows named by orderedIds, then the others, so that any
\* order can be asked for.  Only a changed order promotes.
Reorder ==
    /\ Control
    /\ \E p \in Bijection(DOMAIN queue, DOMAIN queue) :
        LET rows == [i \in DOMAIN queue |-> queue[p[i]]] IN
        /\ rows # queue
        /\ Promote(rows, held, run, outcome)
    /\ Broadcast
    /\ UNCHANGED <<held, steered>>

\* discardPromptQueue: every row settles cancelled, no hold lingers.
Discard ==
    /\ queue' = <<>>
    /\ held' = {}
    /\ outcome' = SettleRpcs(outcome, ToSet(queue), "cancelled")

Clear ==
    /\ Control
    /\ Discard
    /\ view' = Snapshot(<<>>, run)
    /\ UNCHANGED <<steered, run, promo, status, inbox, handed>>

----------------------------------------------------------------------------
\* Cancellation and the life of the hosting session.

\* cancel(): a new admission epoch, which every slot that still owns its request
\* now differs from; the turn is cancelled and the rows are discarded.
\* agent.cancel() may throw; the handler goes on and throws at its end.
CancelAll ==
    /\ outdated' = Preparing
    /\ Discard
    /\ view' = Snapshot(<<>>, run)
    /\ UNCHANGED <<pid, slot, retired, preparations, steered, promo, agent,
                   handed, completed>>

\* session/cancel
Cancel ==
    /\ disposal = "none"
    /\ run' = CancelRun(run)
    /\ CancelAll
    /\ UNCHANGED host

\* x.ai/session/cancel_prompt of the running prompt.
CancelPromptRunning(id) ==
    /\ IsLive
    /\ Inflight(run) /\ RunningId = id
    /\ run' = CancelRun(run)
    /\ UNCHANGED <<requests, admission, prompts, host, agent, wire>>

\* x.ai/session/cancel_prompt of a row.
CancelPromptQueued(id) ==
    /\ Control
    /\ ~(Inflight(run) /\ RunningId = id)
    /\ held' = held \ {id}
    /\ \E i \in RowsWith(id) :
        Promote(RemoveAt(queue, i), held', run,
                SettleRpcs(outcome, {queue[i]}, "cancelled"))
    /\ Broadcast
    /\ UNCHANGED steered

\* x.ai/session/cancel_prompt of a prompt in preparation: stop().  Its slot is
\* released only if the slots before it are.
CancelPromptPreparing(r) ==
    /\ IsLive
    /\ r \in Preparing
    /\ outcome' = SettleRpcs(outcome, {r}, "cancelled")
    /\ retired' = retired \cup {r}
    /\ slot' = [slot EXCEPT ![r] = IF @ = "admitted" THEN "released" ELSE @]
    /\ UNCHANGED <<pid, outdated, preparations, prompts, run, host, agent,
                   wire>>

\* registry.reload suspends input and cancels the queue; its preflight may
\* fail, and then the same queue takes input again.
Suspend ==
    /\ IsLive
    /\ live' = "suspended"
    /\ run' = CancelRun(run)
    /\ CancelAll
    /\ UNCHANGED disposal

Resume ==
    /\ disposal = "none"
    /\ live = "suspended"
    /\ live' = "live"
    /\ UNCHANGED <<requests, admission, prompts, run, disposal, agent, wire>>

\* The native agent is disposed outside the bridge.
LoseAgent ==
    /\ live # "lost"
    /\ live' = "lost"
    /\ UNCHANGED <<requests, admission, prompts, run, disposal, agent, wire>>

\* dispose(): the session is withdrawn, the drain of a cancelled prompt ends.
Dispose ==
    /\ disposal = "none"
    /\ disposal' = "draining"
    /\ live' = "lost"
    /\ run' = EndDrain(CancelRun(run))
    /\ CancelAll

\* dispose()'s promise: runs and the admission tail, then the preparations.
DisposalDone ==
    /\ disposal = "draining"
    /\ run = Free
    /\ \A r \in Rpc : slot[r] \in {"none", "released"}
    /\ preparations = {}
    /\ disposal' = "done"
    /\ UNCHANGED <<requests, admission, prompts, run, live, agent, wire>>

----------------------------------------------------------------------------
\* The rest of runPrompt, and the promotion wait.

\* flushOutput() has settled: the slot is freed, prompt_complete is sent,
\* steered requests settle with the turn, and the next row may start.
FinishRun ==
    /\ run.phase = "flushing"
    /\ \E flushed \in MayThrow("flush") :
        LET ok == flushed /\ run.stop # "failed"
            stop == IF run.stop = "failed" THEN "cancelled" ELSE run.stop
            out == SettleRpcs(SettleRpcs(outcome, steered, stop), {run.rpc},
                              IF ok THEN run.stop ELSE "rejected")
        IN  /\ completed' = IF ok THEN completed \cup {run.rpc} ELSE completed
            /\ \/ /\ queue # <<>>
                  /\ Promote(queue, held, Free, out)
                  /\ BroadcastIfStarted
               \/ /\ queue = <<>>
                  /\ Stay(queue, Free, out)
                  /\ Broadcast
                  /\ UNCHANGED promo
    /\ steered' = {}
    /\ UNCHANGED <<pid, admission, held, host, turnOf, wakes>>

\* The one promotion wait resolves.
PromotionFires ==
    /\ promo = "ready"
    /\ promo' = "none"
    /\ IF IsLive THEN Advance(queue, held, run, outcome)
                 ELSE Stay(queue, run, outcome)
    /\ BroadcastIfStarted
    /\ UNCHANGED <<pid, admission, held, steered, host, turnOf, wakes,
                   completed>>

----------------------------------------------------------------------------
\* The native agent, and the queue's handlers of its events.

AgentOnly == UNCHANGED <<requests, admission, queue, held, steered, host, wire>>

\* agent/inbox/claimed: a turn starts with the oldest message.
AgentClaims ==
    /\ status = "running" /\ turnOf = None /\ inbox # <<>>
    /\ turnOf' = Head(inbox)
    /\ inbox' = Tail(inbox)
    /\ AgentOnly /\ UNCHANGED <<run, promo, status, wakes>>

\* A message is dropped without a turn.
AgentDiscards ==
    /\ status = "running" /\ turnOf = None /\ inbox # <<>>
    /\ inbox' = Tail(inbox)
    /\ AgentOnly /\ UNCHANGED <<run, promo, status, turnOf, wakes>>

\* turn/end or agent/error: observe() and failed() settle the prompt whose
\* message the turn had claimed, and no other.
AgentTurnEnds(reason) ==
    /\ turnOf # None
    /\ turnOf' = None
    /\ run' = IF turnOf = run.rpc THEN SettleRun(run, reason, reason = "cancelled")
              ELSE run
    /\ AgentOnly /\ UNCHANGED <<promo, status, inbox, wakes>>

\* agent/status idle: agentIdle() ends the drain of a cancelled prompt.  The
\* event no longer finds a session that has been withdrawn.
AgentIdles ==
    /\ status = "running" /\ turnOf = None /\ inbox = <<>>
    /\ status' = "idle"
    /\ run' = IF disposal = "none" THEN EndDrain(run) ELSE run
    /\ AgentOnly /\ UNCHANGED <<promo, inbox, turnOf, wakes>>

\* whenIdle() resolves: a prompt that never had a turn settles cancelled, and
\* a drain that agentIdle() has not ended ends.
AgentQuiet ==
    /\ status = "idle"
    /\ run.phase \in {"active", "draining"} \/ promo = "waiting"
    /\ run' = EndDrain(CancelRun(run))
    /\ promo' = IF promo = "waiting" THEN "ready" ELSE promo
    /\ AgentOnly /\ UNCHANGED agent

\* whenIdle() rejects: the prompt fails, a scheduled promotion is dropped.
AgentIdleFails ==
    /\ "idle" \in Faults
    /\ run.phase \in {"active", "draining"} \/ promo = "waiting"
    /\ run' = IF run.phase \in {"active", "draining"}
              THEN Stopped(run, "flushing", "failed") ELSE run
    /\ promo' = IF promo = "waiting" THEN "none" ELSE promo
    /\ AgentOnly /\ UNCHANGED agent

\* A turn that no prompt of the queue asked for.  The callbacks of whenIdle()
\* run before the event loop can deliver what starts one.
AgentWakes ==
    /\ turnOf = None /\ inbox = <<>> /\ promo # "ready"
    /\ wakes < MaxWakes
    /\ wakes' = wakes + 1
    /\ status' = "running"
    /\ turnOf' = Wake
    /\ AgentOnly /\ UNCHANGED <<run, promo, inbox>>

----------------------------------------------------------------------------
Init ==
    /\ pid = [r \in Rpc |-> None]
    /\ outcome = [r \in Rpc |-> "new"]
    /\ slot = [r \in Rpc |-> "none"]
    /\ retired = {} /\ outdated = {} /\ preparations = {}
    /\ queue = <<>> /\ held = {} /\ steered = {} /\ run = Free /\ promo = "none"
    /\ live = "live" /\ disposal = "none"
    /\ status = "idle" /\ inbox = <<>> /\ turnOf = None /\ wakes = 0
    /\ view = Snapshot(<<>>, Free) /\ handed = {} /\ completed = {}

Admit(r) ==
    \/ PassRetired(r) \/ RefuseTurn(r) \/ StartPreparation(r)

Prepare(r) ==
    \/ LatePreparation(r) \/ PreparationFails(r)
    \/ EnqueueSendNow(r) \/ EnqueueSteer(r) \/ EnqueueRow(r)

RowControl(id) ==
    \/ ResyncRow(id) \/ Interject(id) \/ SteerRow(id) \/ RemoveRow(id)
    \/ RemoveRunning(id) \/ RemoveUnknown(id) \/ EditRow(id)
    \/ HoldEdit(id) \/ ReleaseEdit(id)

Lifecycle == Suspend \/ Resume \/ LoseAgent \/ Dispose

AgentWorks ==
    \/ AgentClaims \/ AgentDiscards
    \/ \E reason \in {"completed", "cancelled", "failed"} : AgentTurnEnds(reason)
    \/ AgentIdles \/ AgentQuiet

Next ==
    \/ \E r \in Rpc : SubmitRefused(r) \/ \E id \in Ids : Submit(r, id)
    \/ \E r \in Rpc : Admit(r) \/ Prepare(r) \/ CancelPromptPreparing(r)
    \/ \E id \in Ids : \/ RowControl(id) \/ CancelPromptRunning(id)
                       \/ CancelPromptQueued(id)
    \/ Reorder \/ Clear \/ Cancel \/ Lifecycle \/ DisposalDone
    \/ FinishRun \/ PromotionFires
    \/ AgentWorks \/ AgentIdleFails \/ AgentWakes

Spec == Init /\ [][Next]_vars

\* Callbacks of settled promises run, content preparations and output flushes
\* end.  Nothing is asked of the client, and nothing yet of the agent.
Fairness ==
    /\ \A r \in Rpc : WF_vars(Admit(r)) /\ WF_vars(Prepare(r))
    /\ WF_vars(FinishRun)
    /\ WF_vars(PromotionFires)
    /\ WF_vars(DisposalDone)

FairSpec == Spec /\ Fairness

----------------------------------------------------------------------------
\* Properties

RunType ==
    {Free}
    \cup [rpc : Rpc, phase : {"active"}, stop : {None}, sendNow : BOOLEAN]
    \cup [rpc : Rpc, phase : {"draining", "flushing"},
          stop : {"completed", "cancelled", "failed"}, sendNow : BOOLEAN]

Outcomes == {"new", "pending", "cancelled", "completed", "rejected"}

\* Every variable has its type.
TypeOK ==
    /\ pid \in [Rpc -> Ids \cup {None}]
    /\ outcome \in [Rpc -> Outcomes]
    /\ slot \in [Rpc -> {"none", "waiting", "admitted", "released"}]
    /\ retired \subseteq Rpc /\ outdated \subseteq Rpc
    /\ preparations \subseteq Rpc
    /\ queue \in Seq(Rpc)
    /\ held \subseteq Ids
    /\ steered \subseteq Rpc
    /\ run \in RunType
    /\ promo \in {"none", "waiting", "ready"}
    /\ live \in {"live", "suspended", "lost"}
    /\ disposal \in {"none", "draining", "done"}
    /\ status \in {"idle", "running"}
    /\ inbox \in Seq(Rpc)
    /\ turnOf \in Rpc \cup {None, Wake}
    /\ wakes \in 0..MaxWakes
    /\ view \in [rows : Seq(Rpc), running : Rpc \cup {None}]
    /\ handed \subseteq Rpc /\ completed \subseteq Rpc

\* A request whose promise is open is owned by exactly one part of the queue:
\* its admission, one row, the running turn it was steered into, or the
\* running slot.  A request without an owner would never be answered; one
\* with two would run twice.
OneOwner ==
    /\ \A r \in Rpc : outcome[r] = "pending" => r \in Active
    /\ \A i, j \in DOMAIN queue : queue[i] = queue[j] => i = j
    /\ Preparing \cap (ToSet(queue) \cup steered \cup {run.rpc}) = {}
    /\ ToSet(queue) \cap (steered \cup {run.rpc}) = {}
    /\ run.rpc \notin steered

\* Active requests have distinct prompt ids, so that an id names one owner in
\* every control and in cancel_prompt, although ids are used again.
UniqueIds == \A r, s \in Active : pid[r] = pid[s] => r = s

\* The queue is never stranded: when rows wait and no prompt owns the slot,
\* the client holds the front row or a promotion is on its way.
NotStranded ==
    queue # <<>> /\ IsLive /\ run = Free
        => pid[Head(queue)] \in held \/ promo # "none"

\* Requests that an owner has are still open, when no call to the agent
\* throws: nothing settles a request behind its owner's back.
OwnedArePending == \A r \in Active : outcome[r] = "pending"

\* Each open request has one owner, which it can be named by, and each owner an
\* open request: whatever settles or moves a request leaves no trace of it.
Ownership == OneOwner /\ UniqueIds /\ OwnedArePending

\* The client's last snapshot shows the rows and the running prompt as they
\* are, but for a prompt that has finished (its prompt_complete or its error
\* tells the client) while the rows behind it stay parked.
ClientSeesQueue ==
    /\ view.rows = queue
    /\ \/ view.running = run.rpc
       \/ run = Free /\ outcome[view.running] # "pending"

\* When dispose()'s promise settles nothing is left to settle or to write.
DisposalDrains ==
    disposal = "done" =>
        /\ \A r \in Rpc : outcome[r] # "pending"
        /\ queue = <<>> /\ steered = {} /\ run = Free /\ preparations = {}

\* Requests that left admission for the agent or for a row.
Placed == ToSet(queue) \cup steered \cup handed
             \cup (IF run = Free THEN {} ELSE {run.rpc})

\* Prepared content enters in the order of the requests: a later request
\* never overtakes one whose content is still being prepared.
AdmissionOrder ==
    [][\A r, s \in Rpc : r < s /\ s \in Placed' \ Placed => r \notin Preparing]_vars

\* Cancelled input stays out: what a session cancel or a targeted cancel met
\* before its content was prepared never reaches a row or the agent.
CancelledStaysOut == [][(Placed' \ Placed) \cap (outdated \cup retired) = {}]_vars

\* A settled request is never given to the agent (no call to it throws).
SettledNeverRuns == [][\A r \in handed' \ handed : outcome[r] = "pending"]_vars

\* Content enters in the order of the requests, however long its preparation
\* takes, and what was cancelled or settled meanwhile does not enter.
AdmissionIsSound == AdmissionOrder /\ CancelledStaysOut /\ SettledNeverRuns

\* followup() is called only on an idle agent, never from inside the handling
\* of a turn's end, where the agent would discard the prompt.
StartsAtIdle == [][Started => status = "idle" /\ turnOf = None]_vars

\* The terminal signal of a prompt precedes the snapshot that no longer shows
\* it as running.
CompletesBeforePromotion ==
    [][view.running # None /\ view'.running # view.running =>
         view.running \in completed' \/ outcome'[view.running] = "rejected"]_vars

\* What the client of the session is shown, and in which order.
ClientFollows == []ClientSeesQueue /\ CompletesBeforePromotion

\* A row under an edit hold neither starts nor is folded into another row.
HeldRowsPark == [][Started => \A r \in handed' \ handed : pid[r] \notin held']_vars

\* Rows with images are sent on their own.
ImagesRunAlone ==
    [][Started /\ (handed' \ handed) \cap Images # {}
         => Cardinality(handed' \ handed) = 1]_vars

\* What is started is what the client left in the queue: no row that it is
\* editing, and no image among other rows.
StartsWhatIsFree == HeldRowsPark /\ ImagesRunAlone

\* The front row waits for the client that holds it.
FrontHeld == queue # <<>> /\ pid[Head(queue)] \in held

\* Every request is answered if the agent's turns end, unless the client parks
\* the queue, the agent was lost and its session is not yet closed, or a failed
\* wait for the idle agent left the rows to the next event of the queue.  A
\* disposal ends even if the agent's turn never does, and leaves nothing to
\* settle or to write.
EveryPromptSettles ==
    /\ WF_vars(AgentWorks) =>
        \A r \in Rpc : []<>(
            \/ outcome[r] # "pending" \/ FrontHeld
            \/ live = "lost" /\ disposal = "none"
            \/ "idle" \in Faults /\ queue # <<>> /\ run = Free /\ promo = "none")
    /\ []<>(disposal # "draining")
    /\ []DisposalDrains
=============================================================================
