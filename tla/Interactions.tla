---------------------------- MODULE Interactions ----------------------------
(***************************************************************************)
(* The questions that a native agent puts to the user of its session:      *)
(* bridge/grok-leader/src/native-interactions.ts over the reverse requests *)
(* of leader-transport.ts.                                                 *)
(*                                                                         *)
(* An agent asks for an approval, an answer or a plan review; the leader   *)
(* sends it to the client that owns the session and waits without a limit. *)
(* Meanwhile the turn is cancelled, the session reloads, closes or moves   *)
(* to another client, the permission mode changes, or the leader stops.    *)
(*                                                                         *)
(* A reply resolves a promise; what waits for it runs later.  The frames   *)
(* that arrive with the reply are handled in between, so that an answer    *)
(* that has left the transport may still be revoked.                       *)
(***************************************************************************)
EXTENDS FiniteSets

CONSTANTS
    Asks,           \* what the agents ask, each once
    Kind,           \* "approval", "guarded" or "question"
    Records,        \* the records that one session has, one after another
    Clients,
    ClientOf,       \* the client that opened a record
    Faults,         \* native setters that may throw: "plan", "preset"
    None

Kinds == {"approval", "guarded", "question"}
Answers == {"yes", "no"}

Decisions == {"allowed", "rejected", "answered"}
Results == Decisions \cup {"cancelled", "next", "failed"}

ASSUME InteractionsAssumption ==
    /\ Kind \in [Asks -> Kinds]
    /\ ClientOf \in [Records -> Clients]
    /\ Faults \subseteq {"plan", "preset"}
    /\ None \notin Records
    /\ None \notin Answers
    /\ None \notin Results

VARIABLES
    \* the session: the registry's records, and lifecycle.assertReady
    owner,          \* its published record
    opened,         \* records that were created
    reloading,      \* the owner's reload preflight is under way
    busy,           \* the owner is initializing or its preset is changing
    connected,      \* clients with an open connection
    \* the permission state
    yolo,           \* the owner's approvals need no answer
    inconsistent,   \* a change of the owner's mode failed half way
    access,         \* the native permission preset of the session
    \* the asks; the last four hold for the accepted ones
    at,             \* where an ask is, see Stages
    result,         \* what the native agent is told
    asker,          \* the record that it was accepted for
    aborted,        \* asks whose AbortController is aborted
    sent,           \* pending reverse requests of the transport
    reply,          \* what the client answered
    \* this module
    disposal,       \* "none", "draining" once closed is set, "done"
    revoked         \* history: open asks that an event withdrew, see Revoke

session == <<owner, opened, reloading, busy, connected>>
permission == <<yolo, inconsistent, access>>
asks == <<at, result, asker, aborted, sent, reply>>
vars == <<session, permission, asks, disposal, revoked>>

\* "accepted": run() is due; "waiting": the client has been asked; "settled":
\* the reverse request has its answer or its error, what waits for it is due.
Stages == {"new", "accepted", "waiting", "settled", "done"}

Closed == disposal # "none"

RecordsOf(c) == {r \in Records : ClientOf[r] = c}

\* pending
Open == {a \in Asks : at[a] \in {"accepted", "waiting", "settled"}}

\* lifecycle.assertReady, without this module's own check
Ready == ~reloading /\ ~busy

\* live()
Live(r) ==
    /\ ~Closed
    /\ owner = r
    /\ ClientOf[r] \in connected
    /\ ~inconsistent
    /\ Ready

Goto(a, stage) == at' = [at EXCEPT ![a] = stage]

\* The promise of an ask settles, and the ask leaves pending.
Finish(a, how) ==
    /\ Goto(a, "done")
    /\ result' = [result EXCEPT ![a] = how]
    /\ asker' = [asker EXCEPT ![a] = None]
    /\ reply' = [reply EXCEPT ![a] = None]
    /\ aborted' = aborted \ {a}
    /\ revoked' = revoked \ {a}

----------------------------------------------------------------------------
\* Mutant: the reverse request does not hear of the abort.
AbortUnheard(S) ==
    /\ aborted' = aborted \cup S
    /\ UNCHANGED <<sent, at>>

\* The controllers of S abort.  Their reverse requests leave the transport
\* and reject; a late answer finds nothing.
Abort(S) ==
    /\ aborted' = aborted \cup S
    /\ sent' = sent \ S
    /\ at' = [a \in Asks |-> IF a \in S \cap sent THEN "settled" ELSE at[a]]

\* Mutant: a cancellation only rejects what the transport still holds.
CancelWire(c) ==
    LET S == {a \in sent : asker[a] \in RecordsOf(c)} IN
    /\ sent' = sent \ S
    /\ at' = [a \in Asks |-> IF a \in S THEN "settled" ELSE at[a]]
    /\ UNCHANGED aborted

\* cancel(): the open asks of this session and client.
CancelAsks(c) == Abort({a \in Open : asker[a] \in RecordsOf(c)})

\* Nothing that was open for this record may become a decision any more.
Revoke(r) == revoked' = revoked \cup {a \in Open : asker[a] = r}

----------------------------------------------------------------------------
\* approval/request and user-questions/request of the agent of record r.

Refuse(a, r) ==
    /\ at[a] = "new" /\ r \in opened
    /\ Closed \/ owner # r \/ ClientOf[r] \notin connected
    /\ Finish(a, IF Closed THEN "cancelled" ELSE "next")
    /\ UNCHANGED <<session, permission, sent, disposal>>

\* accepted(): published before anything else runs.
Accept(a, r) ==
    /\ at[a] = "new" /\ r \in opened
    /\ ~Closed /\ owner = r /\ ClientOf[r] \in connected
    /\ Goto(a, "accepted")
    /\ asker' = [asker EXCEPT ![a] = r]
    /\ aborted' = IF Live(r) THEN aborted ELSE aborted \cup {a}
    /\ UNCHANGED <<session, permission, result, sent, reply, disposal, revoked>>

Admitted(a) == a \notin aborted /\ Live(asker[a])

\* Always-approve answers approvals, but not those of browser tools or those
\* that a reviewer denied.
Bypasses(a) == yolo /\ Kind[a] = "approval"

\* run(): what was withdrawn is cancelled, the rest is sent to the client.
Run(a) ==
    /\ at[a] = "accepted"
    /\ \/ /\ ~Admitted(a) \/ Bypasses(a)
          /\ Finish(a, IF Admitted(a) THEN "allowed" ELSE "cancelled")
          /\ UNCHANGED sent
       \/ /\ Admitted(a) /\ ~Bypasses(a)
          /\ Goto(a, "waiting")
          /\ sent' = sent \cup {a}
          /\ UNCHANGED <<result, asker, reply, aborted, revoked>>
    /\ UNCHANGED <<session, permission, disposal>>

\* The client's response; one without a pending request is dropped.
Reply(a, answer) ==
    /\ a \in sent
    /\ sent' = sent \ {a}
    /\ reply' = [reply EXCEPT ![a] = answer]
    /\ Goto(a, "settled")
    /\ UNCHANGED <<session, permission, result, asker, aborted, disposal, revoked>>

\* The client's error response.
ReplyError(a) ==
    /\ a \in sent
    /\ sent' = sent \ {a}
    /\ Goto(a, "settled")
    /\ UNCHANGED <<session, permission, result, asker, aborted, reply, disposal, revoked>>

\* What an admitted reply decides; "yes" is also a request to change a
\* plan, "no" is also a dismissed question or plan.
Decision(a) ==
    LET approval == Kind[a] \in {"approval", "guarded"} IN
    CASE reply[a] = None -> IF approval THEN "cancelled" ELSE "failed"
      [] reply[a] = "yes" -> IF approval THEN "allowed" ELSE "answered"
      [] reply[a] = "no" -> IF approval THEN "rejected" ELSE "cancelled"

\* Mutant: the answer is not checked again.
ContinueUnchecked(a) ==
    /\ at[a] = "settled"
    /\ Finish(a, Decision(a))
    /\ UNCHANGED <<session, permission, sent, disposal>>

\* What waited for the reverse request goes on.
Continue(a) ==
    /\ at[a] = "settled"
    /\ Finish(a, IF Admitted(a) THEN Decision(a) ELSE "cancelled")
    /\ UNCHANGED <<session, permission, sent, disposal>>

\* The native agent withdraws one ask.
NativeAbort(a) ==
    /\ a \in Open \ aborted
    /\ Abort({a})
    /\ revoked' = revoked \cup {a}
    /\ UNCHANGED <<session, permission, result, asker, reply, disposal>>

----------------------------------------------------------------------------
\* The session.

\* session/cancel, and x.ai/session/cancel_prompt of the running prompt.
SessionCancel ==
    /\ ~Closed /\ owner # None /\ ClientOf[owner] \in connected
    /\ CancelAsks(ClientOf[owner])
    /\ Revoke(owner)
    /\ UNCHANGED <<session, permission, result, asker, reply, disposal>>

\* The start of registry.reload.
Reload ==
    /\ ~Closed /\ owner # None /\ ~reloading
    /\ reloading' = TRUE
    /\ CancelAsks(ClientOf[owner])
    /\ Revoke(owner)
    /\ UNCHANGED <<owner, opened, busy, connected, permission, result, asker,
                   reply, disposal>>

\* Its preflight fails: the same record is usable again.
ReloadFails ==
    /\ reloading /\ owner # None
    /\ reloading' = FALSE
    /\ UNCHANGED <<owner, opened, busy, connected, permission, asks, disposal, revoked>>

\* The owner leaves the registry, and what is kept for it goes with it.
Withdraw ==
    /\ owner' = None
    /\ reloading' = FALSE /\ busy' = FALSE
    /\ yolo' = FALSE /\ inconsistent' = FALSE

\* retire(): a close, or the end of a reload.
Retire ==
    /\ owner # None
    /\ Withdraw
    /\ CancelAsks(ClientOf[owner])
    /\ Revoke(owner)
    /\ UNCHANGED <<opened, connected, access, result, asker, reply, disposal>>

\* The connection of a client closes: its reverse requests reject, and its
\* record retires.
Disconnect(c) ==
    /\ c \in connected
    /\ connected' = connected \ {c}
    /\ \/ /\ owner \in RecordsOf(c)
          /\ Withdraw
          /\ CancelAsks(c)
          /\ Revoke(owner)
       \/ /\ owner \notin RecordsOf(c)
          /\ LET S == {a \in sent : asker[a] \in RecordsOf(c)} IN
             /\ sent' = sent \ S
             /\ at' = [a \in Asks |-> IF a \in S THEN "settled" ELSE at[a]]
          /\ UNCHANGED <<owner, reloading, busy, yolo, inconsistent, aborted, revoked>>
    /\ UNCHANGED <<opened, access, result, asker, reply, disposal>>

\* An initialization or a change of the preset ends, or a change begins.
BusyEnds ==
    /\ busy /\ owner # None
    /\ busy' = FALSE
    /\ UNCHANGED <<owner, opened, reloading, connected, permission, asks, disposal, revoked>>

PresetChanges ==
    /\ owner # None /\ ~busy
    /\ busy' = TRUE
    /\ UNCHANGED <<owner, opened, reloading, connected, permission, asks, disposal, revoked>>

----------------------------------------------------------------------------
\* The permission mode.

Access(full) == IF full THEN "full" ELSE "workspace"

\* applyMode() succeeds.
ApplyMode(full) == yolo' = full /\ access' = Access(full)

\* Its setter of the plan mode throws, or that of the preset does, before or
\* after it took effect.
ModeThrows(full) ==
    \/ "plan" \in Faults /\ UNCHANGED access
    \/ "preset" \in Faults /\ access' \in {access, Access(full)}

\* failedMutation() of the owner.
FailedMutation ==
    /\ yolo' = FALSE
    /\ inconsistent' = TRUE
    /\ CancelAsks(ClientOf[owner])
    /\ Revoke(owner)
    /\ UNCHANGED <<result, asker, reply, disposal>>

\* The record takes a change of its mode: owned, consistent and ready.
Changeable == owner # None /\ Live(owner)

\* Mutant: a mode that fails to be set leaves the record in use.
ModeNotifiedCarryingOn(full) ==
    /\ Changeable
    /\ \/ ApplyMode(full)
       \/ ModeThrows(full) /\ UNCHANGED yolo
    /\ UNCHANGED <<session, inconsistent, asks, disposal, revoked>>

\* x.ai/yolo_mode_changed
ModeNotified(full) ==
    /\ Changeable
    /\ \/ ApplyMode(full) /\ UNCHANGED <<inconsistent, asks, disposal, revoked>>
       \/ ModeThrows(full) /\ FailedMutation
    /\ UNCHANGED session

\* session/set_mode sets the plan mode, or fails to.
SetModeFails ==
    /\ Changeable /\ "plan" \in Faults
    /\ FailedMutation
    /\ UNCHANGED <<session, access>>

\* A new record adopts the mode of its request, or what the session has.
Publish(r) ==
    /\ ~Closed /\ owner = None /\ r \notin opened /\ ClientOf[r] \in connected
    /\ opened' = opened \cup {r}
    /\ owner' = r /\ busy' = TRUE
    /\ \/ UNCHANGED <<yolo, access>>
       \/ \E full \in BOOLEAN : ApplyMode(full)
    /\ UNCHANGED <<inconsistent, reloading, connected, asks, disposal, revoked>>

\* The adoption throws, or the record that adopted a mode is not published.
Discard(r) ==
    /\ ~Closed /\ owner = None /\ r \notin opened
    /\ opened' = opened \cup {r}
    /\ \E full \in BOOLEAN :
        \/ access' = Access(full) /\ UNCHANGED <<at, aborted, sent, revoked>>
        \/ ModeThrows(full) /\ CancelAsks(ClientOf[r]) /\ Revoke(r)
    /\ UNCHANGED <<owner, reloading, busy, connected, yolo, inconsistent,
                   result, asker, reply, disposal>>

----------------------------------------------------------------------------
\* dispose()
Dispose ==
    /\ disposal = "none"
    /\ disposal' = "draining"
    /\ Abort(Open)
    /\ revoked' = revoked \cup Open
    /\ UNCHANGED <<session, permission, result, asker, reply>>

DisposalDone ==
    /\ disposal = "draining"
    /\ Open = {}
    /\ disposal' = "done"
    /\ UNCHANGED <<session, permission, asks, revoked>>

----------------------------------------------------------------------------
Init ==
    /\ owner = None /\ opened = {} /\ reloading = FALSE /\ busy = FALSE
    /\ connected = Clients
    /\ yolo = FALSE /\ inconsistent = FALSE
    /\ access \in {"workspace", "full"}
    /\ at = [a \in Asks |-> "new"]
    /\ asker = [a \in Asks |-> None]
    /\ aborted = {} /\ sent = {}
    /\ reply = [a \in Asks |-> None]
    /\ result = [a \in Asks |-> None]
    /\ disposal = "none" /\ revoked = {}

AskStep(a) ==
    \/ \E r \in Records : Refuse(a, r) \/ Accept(a, r)
    \/ Run(a) \/ Continue(a) \/ NativeAbort(a) \/ ReplyError(a)
    \/ \E answer \in Answers : Reply(a, answer)

SessionStep ==
    \/ SessionCancel \/ Reload \/ ReloadFails \/ Retire \/ BusyEnds \/ PresetChanges
    \/ SetModeFails
    \/ \E c \in Clients : Disconnect(c)
    \/ \E r \in Records : Publish(r) \/ Discard(r)
    \/ \E full \in BOOLEAN : ModeNotified(full)

Next == (\E a \in Asks : AskStep(a)) \/ SessionStep \/ Dispose \/ DisposalDone

Spec == Init /\ [][Next]_vars

\* What waits for a settled promise runs; nobody has to answer.
Fairness ==
    /\ \A a \in Asks : WF_vars(Run(a)) /\ WF_vars(Continue(a))
    /\ WF_vars(DisposalDone)

FairSpec == Spec /\ Fairness

----------------------------------------------------------------------------
\* Type invariant.
TypeOK ==
    /\ owner \in Records \cup {None}
    /\ opened \subseteq Records
    /\ owner # None => owner \in opened
    /\ reloading \in BOOLEAN /\ busy \in BOOLEAN
    /\ connected \subseteq Clients
    /\ yolo \in BOOLEAN /\ inconsistent \in BOOLEAN
    /\ access \in {"workspace", "full"}
    /\ at \in [Asks -> Stages]
    /\ result \in [Asks -> Results \cup {None}]
    /\ asker \in [Asks -> Records \cup {None}]
    /\ reply \in [Asks -> Answers \cup {None}]
    /\ \A a \in Asks : asker[a] # None <=> a \in Open
    /\ \A a \in Asks : reply[a] # None => at[a] = "settled"
    /\ aborted \subseteq Open /\ revoked \subseteq Open
    /\ sent = {a \in Asks : at[a] = "waiting"}
    /\ disposal \in {"none", "draining", "done"}

\* Every question that the transport holds for a client is one that the
\* published record of that client is waiting for: no question outlives its
\* session, its connection, a cancellation or a failed change of permissions.
QuestionsBelong ==
    \A a \in sent :
        /\ asker[a] = owner /\ ~inconsistent
        /\ ClientOf[owner] \in connected
        /\ a \notin revoked
        /\ ~Closed

\* Only an answer that nothing has withdrawn decides: not one that was on its
\* way when the turn was cancelled, the session reloaded, closed or failed a
\* permission change, the client left, or the leader stopped, not even when
\* the same record is usable again.
DecisionsStand ==
    [][\A a \in Asks : result[a] = None /\ result'[a] \in Decisions =>
         a \notin revoked /\ owner = asker[a] /\ ~inconsistent]_vars

\* A call is allowed by the user, or under a bypass that the native permission
\* of the session still agrees with; a guarded one by the user alone.
AllowedByRight ==
    [][\A a \in Asks : result[a] = None /\ result'[a] = "allowed" =>
         reply[a] = "yes" \/ (Kind[a] = "approval" /\ access = "full")]_vars

\* What was withdrawn ends, and the stopping leader gets to its end, although
\* nobody answers and no request has a deadline.
WithdrawnWorkEnds ==
    /\ \A a \in Asks : []<>(a \in revoked => at[a] = "done")
    /\ []<>(disposal # "draining")
=============================================================================
