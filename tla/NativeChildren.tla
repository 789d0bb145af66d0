---------------------------- MODULE NativeChildren ----------------------------
(* The child agents of one session as its client sees them                     *)
(* (native-children.ts), from listings of the native service, reads of the     *)
(* children's logs (child-history.ts) and the events of the children; with the *)
(* membership of workflows and a request to stop a child.                      *)
(*                                                                             *)
(* A child's log is the sequence of its turns, each open or with its outcome.  *)
EXTENDS Naturals, FiniteSets, SequencesExt

CONSTANTS
    Children,
    Workers,        \* members of a workflow: their events do not reach the host
    MaxTurns, MaxAgents,    \* bounds on the turns and the agents of each child
    MaxTroubles,    \* bound on reloads and on failed calls
    Nothing

Outcomes == {"completed", "cancelled"}
\* What the client is told of a child, and the state that the host keeps of it.
Told == [attempt : Nat, status : Outcomes \cup {"running"}]
ChildState == [agent : Nat, attempt : Nat, status : Outcomes \cup {"running"}]

ASSUME ChildrenAssumption ==
    /\ Workers \subseteq Children /\ Nothing \notin Children \cup Told \cup ChildState
    /\ MaxTurns \in [Children -> Nat] /\ MaxAgents \in [Children -> Nat]
    /\ MaxTroubles \in Nat

VARIABLES
    turns, spawned, agentOf, running, listed,   \* the native children: their
                    \* turns, agents so far, agent now (0: none), activity
    interrupted,    \* the children whose turn was interrupted
    known,          \* childStates: what the host believes the client was told
    view,           \* what the client was told
    tail,           \* who reads a child's log, and who waits to
    cut,            \* the status and the prefix that the read of a log is fixed to
    overtaken,      \* history: the turns that a read found under way in a log that
                    \* was cold when it began
    refresh,        \* the refresh of the record
    lost,           \* whether a refresh was refused or failed and none succeeded since
    stop,           \* the request to stop a child
    restored,       \* workflow members that the log held when the session was opened
    joined, awaited, shown,     \* workflow members: started, undiscovered, shown
    gaveUp,         \* whether the discovery of a member ran into its deadline
    snapshot,       \* snapshot() of the record: "due", "waiting" for a refresh that it
                    \* asked for, "settled" with it, or "shown"
    owner,          \* the record
    troubles,       \* how many calls have failed and reloads begun
    service         \* createNativeChildren itself

native == <<turns, spawned, agentOf, running, listed, interrupted>>
client == <<known, view>>
logs == <<tail, cut, overtaken>>
workflow == <<restored, joined, awaited, shown, gaveUp, snapshot>>
host == <<owner, service>>
childrenVars == <<native, client, logs, refresh, lost, stop, workflow, host, troubles>>

NoRefresh == [phase |-> "none", dirty |-> FALSE, rows |-> {}, busy |-> {},
              reading |-> Nothing, found |-> FALSE, aborted |-> FALSE]
NoStop == [phase |-> "idle", child |-> Nothing, agent |-> 0, from |-> 0, watch |-> 0,
           settled |-> Nothing, aborted |-> FALSE]

IsLive == owner # "closed" /\ service = "open"
InTurn(c) == turns[c] # <<>> /\ Last(turns[c]) = "open"
Delivered == Children \ Workers
MayFail == troubles < MaxTroubles
Fail == troubles' = troubles + 1

\* The record has just been opened.  The children of the workflows in its log have no
\* agent any more; their own logs may be gone.
InitChildren ==
    /\ restored \in SUBSET {c \in Workers : MaxAgents[c] > 0}
    /\ snapshot \in {"due", "shown"} /\ (snapshot = "shown" => restored = {})
    /\ turns \in [Children -> {<<>>}] /\ interrupted = {}
    /\ listed \in SUBSET restored
    /\ spawned = [c \in Children |-> IF c \in restored THEN 1 ELSE 0]
    /\ agentOf = [c \in Children |-> 0]
    /\ running = [c \in Children |-> FALSE]
    /\ known = [c \in Children |-> Nothing] /\ view = known
    /\ tail = [c \in Children |-> <<>>] /\ cut = known
    /\ overtaken = [c \in Children |-> {}]
    /\ refresh = NoRefresh /\ lost = FALSE /\ stop = NoStop
    /\ joined = restored /\ awaited = {} /\ shown = {} /\ gaveUp = FALSE
    /\ owner = "live" /\ troubles = 0 /\ service = "open"

------------------------------------------------------------------------------
(* What the client is told *)

\* When a stop listens for the end of a turn.
Awaits(agent) == stop.phase = "interrupting" /\ stop.agent = agent

\* settle() of a stop that waits on this agent.
SettledBy(c, agent, status) ==
    IF stop.child = c /\ agent # 0 /\ Awaits(agent) /\ stop.settled = Nothing
    THEN [stop EXCEPT !.settled = status] ELSE stop

\* emitChildFinished(): only for the attempt that the client was told of.
Finished(c, status, attempt) ==
    IF known[c] = Nothing \/ known[c].attempt # attempt
    THEN UNCHANGED <<client, stop>>
    ELSE /\ stop' = SettledBy(c, known[c].agent, status)
         /\ known' = [known EXCEPT ![c].status = status]
         /\ view' = IF known[c].status = status \/ ~IsLive THEN view
                    ELSE [view EXCEPT ![c] = [attempt |-> attempt, status |-> status]]

\* childOverview(): what a log and a status, of one moment, say of a child.
Overview(prefix, busy) ==
    [attempt |-> Len(prefix),
     status |-> IF busy THEN "running"
                ELSE IF prefix # <<>> /\ Last(prefix) # "open" THEN Last(prefix)
                ELSE "cancelled"]

\* A row whose log was read: a new attempt, or a new agent, is announced, and one
\* that has ended is finished.
Observed(c, overview) ==
    LET same == /\ known[c] # Nothing /\ known[c].agent = agentOf[c]
                /\ known[c].attempt = overview.attempt
    IN IF same
       THEN IF overview.status = "running" THEN UNCHANGED <<client, stop>>
            ELSE Finished(c, overview.status, overview.attempt)
       ELSE /\ known' = [known EXCEPT ![c] =
                    [agent |-> agentOf[c], attempt |-> overview.attempt,
                     status |-> overview.status]]
            /\ view' = [view EXCEPT ![c] = overview]
            /\ stop' = IF overview.status = "running" THEN stop
                       ELSE SettledBy(c, agentOf[c], overview.status)

\* emitWorkflows() of one run or of all: a run is withheld while one of its members is
\* not discovered.  Nobody looks for the members of the runs in the log.
ShowRun == shown' = IF IsLive /\ awaited' = {} THEN shown \cup (joined \ restored) ELSE shown
ShowMembers ==
    shown' = IF IsLive THEN shown \cup (IF awaited' = {} THEN joined ELSE restored) ELSE shown

\* refreshChildren(): one refresh at a time, which looks again if it is dirty;
\* the session's work refuses it while a reload suspends the session.
AskRefresh ==
    IF ~IsLive THEN UNCHANGED <<refresh, lost>>
    ELSE IF refresh.phase # "none"
    THEN refresh' = [refresh EXCEPT !.dirty = TRUE] /\ UNCHANGED lost
    ELSE IF owner = "suspended"
    THEN lost' = TRUE /\ UNCHANGED refresh
    ELSE refresh' = [NoRefresh EXCEPT !.phase = "due", !.dirty = TRUE] /\ UNCHANGED lost

------------------------------------------------------------------------------
(* The native children and their events *)

\* A child is created, or a cold one resumed; a worker is not announced.
Spawn(c) ==
    /\ spawned[c] < MaxAgents[c] /\ agentOf[c] = 0
    /\ c \in Workers => c \in joined /\ spawned[c] = 0
    /\ spawned' = [spawned EXCEPT ![c] = @ + 1]
    /\ agentOf' = [agentOf EXCEPT ![c] = spawned'[c]]
    /\ running' = [running EXCEPT ![c] = TRUE]
    /\ listed' = listed \cup {c}
    /\ IF c \in Delivered THEN AskRefresh ELSE UNCHANGED <<refresh, lost>>
    /\ UNCHANGED <<turns, interrupted, client, logs, stop, workflow, host, troubles>>

TurnStarts(c) ==
    /\ running[c] /\ ~InTurn(c) /\ Len(turns[c]) < MaxTurns[c]
    /\ turns' = [turns EXCEPT ![c] = Append(@, "open")]
    /\ stop' = IF c \in Delivered /\ stop.phase = "reading" /\ stop.child = c
               THEN [stop EXCEPT !.watch = Len(turns'[c])] ELSE stop
    /\ IF c \in Delivered THEN AskRefresh ELSE UNCHANGED <<refresh, lost>>
    /\ UNCHANGED <<spawned, agentOf, running, listed, interrupted, client, logs, workflow,
                   host, troubles>>

\* turn/end settles the attempt that it belongs to.
TurnEnds(c) ==
    /\ InTurn(c)
    /\ \E outcome \in Outcomes :
        /\ c \in interrupted => outcome = "cancelled"
        /\ turns' = [turns EXCEPT ![c][Len(turns[c])] = outcome]
        /\ interrupted' = interrupted \ {c}
        /\ IF c \in Delivered /\ IsLive /\ known[c] # Nothing /\ known[c].agent = agentOf[c]
           THEN Finished(c, outcome, Len(turns[c]))
           ELSE UNCHANGED <<client, stop>>
    /\ UNCHANGED <<spawned, agentOf, running, listed, logs, refresh, lost, workflow, host, troubles>>

\* agent/status; an idle child has no open turn.
StatusChanges(c) ==
    /\ agentOf[c] # 0 /\ ~InTurn(c)
    /\ ~running[c] => Len(turns[c]) < MaxTurns[c]
    /\ running' = [running EXCEPT ![c] = ~@]
    /\ interrupted' = interrupted \ {c}
    /\ IF c \in Delivered THEN AskRefresh ELSE UNCHANGED <<refresh, lost>>
    /\ UNCHANGED <<turns, spawned, agentOf, listed, client, logs, stop, workflow, host, troubles>>

\* subagent/end: the agent of an idle child leaves the store.
ReleaseAgent(c) ==
    /\ agentOf[c] # 0 /\ ~running[c]
    /\ agentOf' = [agentOf EXCEPT ![c] = 0]
    /\ IF c \in Delivered THEN AskRefresh ELSE UNCHANGED <<refresh, lost>>
    /\ UNCHANGED <<turns, spawned, running, listed, interrupted, client, logs, stop, workflow,
                   host, troubles>>

\* tool-workflow/agent-start in the log of the session.
MemberStarts(c) ==
    /\ c \in Workers \ joined /\ IsLive
    /\ joined' = joined \cup {c}
    /\ awaited' = awaited \cup {c}
    /\ ShowRun
    /\ AskRefresh
    /\ UNCHANGED <<native, client, logs, stop, restored, gaveUp, snapshot, host, troubles>>

\* Another event of the workflow: in the log of the session, which asks for a refresh
\* too, workflow/phase, or the timer after workflow/end.
WorkflowEvent ==
    /\ IsLive /\ joined # restored
    /\ UNCHANGED <<native, client, logs, stop, restored, joined, awaited, gaveUp, snapshot,
                   host, troubles>>
    /\ ShowRun
    /\ AskRefresh \/ UNCHANGED <<refresh, lost>>

\* poll(): looks for the members again, until the deadline.
Poll ==
    /\ IsLive /\ awaited # {}
    /\ AskRefresh
    /\ UNCHANGED <<native, client, logs, stop, workflow, host, troubles>>

Deadline ==
    /\ IsLive /\ awaited # {}
    /\ awaited' = {} /\ gaveUp' = TRUE
    /\ ShowMembers
    /\ UNCHANGED <<native, client, logs, refresh, lost, stop, restored, joined, snapshot, host,
                   troubles>>

\* snapshot(): "Cold attachment needs the same child-before-member ordering as live
\* discovery".  It follows the refresh that it asked for, however that ended.
Snapshot ==
    /\ snapshot = "due"
    /\ AskRefresh
    /\ snapshot' = IF refresh'.phase = "none" THEN "settled" ELSE "waiting"
    /\ UNCHANGED <<native, client, logs, stop, restored, joined, awaited, shown, gaveUp, host,
                   troubles>>

SnapshotShows ==
    /\ snapshot = "settled" /\ snapshot' = "shown"
    /\ UNCHANGED <<native, client, logs, refresh, lost, stop, restored, joined, awaited, gaveUp,
                   host, troubles>>
    /\ ShowMembers

------------------------------------------------------------------------------
(* Reads of the children's logs: one after the other for each child *)

Enter(c, who) == tail' = [tail EXCEPT ![c] = Append(@, who)]
AtHead(c, who) == tail[c] # <<>> /\ Head(tail[c]) = who
LeaveLog(c) ==
    /\ tail' = [tail EXCEPT ![c] = Tail(@)]
    /\ cut' = [cut EXCEPT ![c] = Nothing]
    /\ UNCHANGED overtaken

RefreshStopped == refresh.aborted \/ ~IsLive
StopAborted == stop.aborted \/ ~IsLive
ReaderActive(who) == IF who = "refresh" THEN ~RefreshStopped ELSE ~StopAborted

\* Its turn come, a read looks the child up.  "Pair activity with the same cut, before
\* any I/O": the log of a live child is fixed with its status.
Cut(c) ==
    /\ tail[c] # <<>> /\ cut[c] = Nothing /\ ReaderActive(Head(tail[c]))
    /\ cut' = [cut EXCEPT ![c] =
            IF agentOf[c] # 0
            THEN [prefix |-> turns[c], busy |-> running[c], cold |-> FALSE, fixed |-> TRUE]
            ELSE [prefix |-> <<>>, busy |-> FALSE, cold |-> TRUE, fixed |-> FALSE]]
    /\ UNCHANGED <<native, client, tail, overtaken, refresh, lost, stop, workflow, host, troubles>>

\* The log of a cold child is fixed when the store has answered, at the count it tells
\* or at the end of the log; the child may have been resumed by then.
ColdCut(c) ==
    /\ cut[c] # Nothing /\ ~cut[c].fixed /\ ReaderActive(Head(tail[c]))
    /\ cut' = [cut EXCEPT ![c] =
            [prefix |-> turns[c], busy |-> FALSE, cold |-> TRUE, fixed |-> TRUE]]
    /\ overtaken' = [overtaken EXCEPT ![c] = IF InTurn(c) THEN @ \cup {Len(turns[c])} ELSE @]
    /\ UNCHANGED <<native, client, tail, refresh, lost, stop, workflow, host, troubles>>

\* A read that has all of its log.
HasRead(c, who) == AtHead(c, who) /\ cut[c] # Nothing /\ cut[c].fixed

\* The activity that a read pairs with its prefix.  Mutant: as it is in the end.
LateActivity(c) == running[c]
ReadActivity(c) == cut[c].busy

------------------------------------------------------------------------------
(* emitChildrenForRecord(): one round of a refresh *)

BeginRound ==
    /\ refresh.phase = "due" /\ ~RefreshStopped
    /\ refresh' = [refresh EXCEPT !.phase = "listing", !.dirty = FALSE, !.found = FALSE]
    /\ UNCHANGED <<native, client, logs, lost, stop, workflow, host, troubles>>

\* listDescendants() answers with the rows of one moment.
ListRows ==
    /\ refresh.phase = "listing" /\ ~RefreshStopped
    /\ refresh' = [refresh EXCEPT !.phase = "reading", !.rows = listed,
                       !.busy = {c \in listed : running[c]}]
    /\ UNCHANGED <<native, client, logs, lost, stop, workflow, host, troubles>>

ReadNext(c) ==
    /\ refresh.phase = "reading" /\ refresh.reading = Nothing /\ ~RefreshStopped
    /\ c \in refresh.rows
    /\ Enter(c, "refresh")
    /\ refresh' = [refresh EXCEPT !.reading = c]
    /\ UNCHANGED <<native, client, cut, overtaken, lost, stop, workflow, host, troubles>>

\* The read of a row is complete: its member is discovered, the row observed.
ReadDone(c) ==
    /\ refresh.reading = c /\ HasRead(c, "refresh") /\ ~RefreshStopped
    /\ LeaveLog(c)
    /\ refresh' = [refresh EXCEPT !.rows = @ \ {c}, !.reading = Nothing,
                       !.found = @ \/ c \in awaited]
    /\ awaited' = awaited \ {c}
    /\ Observed(c, Overview(cut[c].prefix, ReadActivity(c) \/ c \in refresh.busy))
    /\ UNCHANGED <<native, lost, restored, joined, shown, gaveUp, snapshot, host, troubles>>

\* A refresh is over; the snapshot that waits for it goes on.
EndRefresh(failed) ==
    /\ refresh' = NoRefresh /\ lost' = failed
    /\ snapshot' = IF snapshot = "waiting" THEN "settled" ELSE snapshot

\* The loop looks again when it is dirty, and ends otherwise.
EndRound(failed) ==
    IF refresh.dirty /\ ~RefreshStopped
    THEN /\ refresh' = [NoRefresh EXCEPT !.phase = "due", !.dirty = TRUE]
         /\ UNCHANGED <<lost, snapshot>>
    ELSE EndRefresh(failed)

RoundDone ==
    /\ refresh.phase = "reading" /\ refresh.rows = {} /\ ~RefreshStopped
    /\ UNCHANGED <<native, client, logs, stop, restored, joined, awaited, gaveUp, host, troubles>>
    /\ IF refresh.found THEN ShowMembers ELSE UNCHANGED shown
    /\ EndRound(FALSE)

\* The listing or a read fails: the round is over, whatever it had found.
RoundFails ==
    /\ MayFail /\ Fail /\ ~RefreshStopped
    /\ \/ refresh.phase = "listing" /\ UNCHANGED logs
       \/ \E c \in Children :
            refresh.reading = c /\ AtHead(c, "refresh") /\ cut[c] # Nothing /\ LeaveLog(c)
    /\ EndRound(TRUE)
    /\ UNCHANGED <<native, client, stop, restored, joined, awaited, shown, gaveUp, host>>

\* An aborted refresh ends, a read of it when it is its turn.
RefreshEnds ==
    /\ refresh.phase # "none" /\ RefreshStopped
    /\ \/ refresh.reading = Nothing /\ UNCHANGED logs
       \/ \E c \in Children :
            refresh.reading = c /\ AtHead(c, "refresh") /\ LeaveLog(c)
    /\ EndRefresh(TRUE)
    /\ UNCHANGED <<native, client, stop, restored, joined, awaited, shown, gaveUp, host, troubles>>

------------------------------------------------------------------------------
(* cancelSubagent(): the client stops a child *)

Answered == [stop EXCEPT !.phase = "answered", !.agent = 0, !.watch = 0, !.aborted = FALSE]

RequestStop(c) ==
    /\ c \in Delivered
    /\ stop.phase = "idle" /\ owner = "live" /\ service = "open"
    /\ stop' = [NoStop EXCEPT !.phase = "listing", !.child = c]
    /\ UNCHANGED <<native, client, logs, refresh, lost, workflow, host, troubles>>

\* The listing; a child that does not run has no turn to stop.
StopLists ==
    /\ stop.phase = "listing" /\ ~StopAborted
    /\ LET c == stop.child IN
        IF c \notin listed \/ ~running[c]
        THEN stop' = Answered /\ UNCHANGED tail
        ELSE /\ stop' = [stop EXCEPT !.phase = "reading", !.agent = agentOf[c]]
             /\ Enter(c, "stop")
    /\ UNCHANGED <<native, client, cut, overtaken, refresh, lost, workflow, host, troubles>>

\* From the end of the read to the interruption nothing else happens: the
\* attempt is the one that was read, or one that started while it was read.
StopInterrupts ==
    LET c == stop.child
        attempt == IF stop.watch # 0 THEN stop.watch ELSE Len(cut[c].prefix)
    IN /\ stop.phase = "reading" /\ HasRead(c, "stop") /\ ~StopAborted
       /\ LeaveLog(c)
       /\ IF agentOf[c] # stop.agent \/ ~running[c]
          THEN stop' = Answered /\ UNCHANGED <<known, interrupted, troubles>>
          ELSE /\ known' = [known EXCEPT ![c] =
                      [agent |-> stop.agent, attempt |-> attempt, status |-> "running"]]
               /\ \/ /\ stop' = [stop EXCEPT !.phase = "interrupting", !.from = attempt]
                     /\ interrupted' = interrupted \cup {c}
                     /\ UNCHANGED troubles
                  \/ /\ MayFail /\ Fail     \* the native service refuses
                     /\ stop' = Answered /\ UNCHANGED interrupted
       /\ UNCHANGED <<turns, spawned, agentOf, running, listed, view, refresh, lost,
                      workflow, host>>

\* The listing or the read fails.
StopFails ==
    /\ MayFail /\ Fail /\ ~StopAborted
    /\ \/ stop.phase = "listing" /\ UNCHANGED logs
       \/ /\ stop.phase = "reading" /\ AtHead(stop.child, "stop")
          /\ cut[stop.child] # Nothing /\ LeaveLog(stop.child)
    /\ stop' = Answered
    /\ UNCHANGED <<native, client, refresh, lost, workflow, host>>

\* The turn has settled, or the five seconds are over.
StopReturns ==
    /\ stop.phase = "interrupting" /\ ~StopAborted
    /\ stop' = Answered
    /\ UNCHANGED <<native, client, logs, refresh, lost, workflow, host, troubles>>

StopEnds ==
    /\ stop.phase \in {"listing", "reading", "interrupting"} /\ StopAborted
    /\ IF stop.phase = "reading"
       THEN AtHead(stop.child, "stop") /\ LeaveLog(stop.child)
       ELSE UNCHANGED logs
    /\ stop' = Answered
    /\ UNCHANGED <<native, client, refresh, lost, workflow, host, troubles>>

------------------------------------------------------------------------------
(* The session *)

StopPending == stop.phase \in {"listing", "reading", "interrupting"}

AbortWork ==
    /\ refresh' = [refresh EXCEPT !.aborted = refresh.phase # "none"]
    /\ stop' = [stop EXCEPT !.aborted = StopPending]

\* A reload suspends the session and cancels its work; when it fails the session
\* goes on, once that work has settled.
Suspend ==
    /\ owner = "live" /\ service = "open" /\ MayFail /\ Fail
    /\ owner' = "suspended"
    /\ AbortWork
    /\ UNCHANGED <<native, client, logs, lost, workflow, service>>

Resume ==
    /\ owner = "suspended" /\ refresh.phase = "none" /\ ~StopPending
    /\ owner' = "live"
    /\ UNCHANGED <<native, client, logs, refresh, lost, stop, workflow, troubles, service>>

CloseSession ==
    /\ owner # "closed"
    /\ owner' = "closed"
    /\ AbortWork
    /\ UNCHANGED <<native, client, logs, lost, workflow, troubles, service>>

DisposeChildren ==
    /\ service = "open"
    /\ service' = "closing"
    /\ UNCHANGED <<native, client, logs, refresh, lost, stop, workflow, troubles, owner>>

ChildrenDisposed ==
    /\ service = "closing" /\ refresh.phase = "none" /\ ~StopPending
    /\ service' = "done"
    /\ UNCHANGED <<native, client, logs, refresh, lost, stop, workflow, troubles, owner>>

RefreshStep ==
    \/ BeginRound \/ ListRows \/ RoundDone \/ RefreshEnds
    \/ \E c \in Children : ReadNext(c) \/ ReadDone(c)
SnapshotStep == Snapshot \/ SnapshotShows
StopStep == StopLists \/ StopInterrupts \/ StopReturns \/ StopEnds

NextChildren ==
    \/ \E c \in Children :
        \/ Spawn(c) \/ TurnStarts(c) \/ TurnEnds(c) \/ StatusChanges(c) \/ ReleaseAgent(c)
        \/ MemberStarts(c) \/ Cut(c) \/ ColdCut(c) \/ RequestStop(c)
    \/ WorkflowEvent \/ Poll \/ Deadline \/ SnapshotStep
    \/ RefreshStep \/ RoundFails
    \/ StopStep \/ StopFails
    \/ Suspend \/ Resume \/ CloseSession \/ DisposeChildren \/ ChildrenDisposed

\* The refresh, the snapshot and the stop, one promise at a time, the reads of logs and
\* timers go on; no child has to do anything.
FairChildren ==
    /\ WF_childrenVars(RefreshStep) /\ WF_childrenVars(StopStep)
    /\ WF_childrenVars(SnapshotStep)
    /\ \A c \in Children : WF_childrenVars(Cut(c) \/ ColdCut(c))
    /\ WF_childrenVars(Deadline) /\ WF_childrenVars(ChildrenDisposed)

ChildrenSteps == InitChildren /\ [][NextChildren]_childrenVars

------------------------------------------------------------------------------
(* Properties *)

\* Type invariant.
ChildrenTypeOK ==
    /\ \A c \in Children :
        /\ Len(turns[c]) <= MaxTurns[c] /\ Range(turns[c]) \subseteq Outcomes \cup {"open"}
        /\ agentOf[c] \in 0..spawned[c] /\ spawned[c] <= MaxAgents[c]
        /\ running[c] \in BOOLEAN
        /\ Len(tail[c]) <= 2 /\ Range(tail[c]) \subseteq {"refresh", "stop"}
    /\ listed \subseteq Children /\ interrupted \subseteq Children
    /\ refresh.phase \in {"none", "due", "listing", "reading"}
    /\ stop.phase \in {"idle", "listing", "reading", "interrupting", "answered"}
    /\ joined \subseteq Workers /\ awaited \subseteq joined \ restored /\ shown \subseteq joined
    /\ snapshot \in {"due", "waiting", "settled", "shown"}
    /\ owner \in {"live", "suspended", "closed"} /\ service \in {"open", "closing", "done"}

\* An ending that the client is told of is the one in the log of the child: a
\* read that overlaps the end of a turn never invents a cancelled one.  The code
\* keeps this for live children only: a turn that starts while the log of a cold
\* child is looked at is told as cancelled, until it ends or, when it ended before
\* that was told, until the log is read again with the child at rest.
NoInventedFinish ==
    \A c \in Children :
        view[c] # Nothing /\ view[c].attempt # 0 /\ view[c].status # "running" =>
            \/ turns[c][view[c].attempt] = view[c].status
            \/ view[c].attempt \in overtaken[c] /\ view[c].status = "cancelled"

\* What the client is told of a child never goes back to an earlier turn, nor
\* from the end of a turn to its beginning unless another agent has taken it up.
AttemptsAdvance ==
    [][\A c \in Children :
        view[c] # Nothing /\ view'[c] # view[c] =>
            \/ view'[c].attempt > view[c].attempt
            \/ /\ view'[c].attempt = view[c].attempt
               /\ view'[c].status = "running" => known'[c].agent # known[c].agent]_childrenVars

\* "so a visible member always has a child view before it is entered", unless its
\* discovery was given up.  Of a member from the log of the session this holds where
\* its own log is left and the refresh that the snapshot asked for, or a later one,
\* worked: the snapshot shows the members even if it failed.
MembersHaveViews ==
    \A c \in shown :
        \/ view[c] # Nothing \/ gaveUp
        \/ c \in restored /\ (lost \/ c \notin listed)

\* A closed session's client is told nothing more of its children.
SilentOnceClosed == [][~IsLive => UNCHANGED <<view, shown>>]_childrenVars

\* A child that is idle, or in a turn that no stop has taken note of, is shown as
\* its log says, once the refreshes have worked.
Behind(c) ==
    /\ c \in Delivered \cap listed /\ owner = "live" /\ service = "open" /\ ~lost
    /\ \/ view[c] = Nothing /\ known[c] = Nothing
       \/ /\ known[c] # Nothing /\ InTurn(c) /\ known[c].attempt < Len(turns[c])
       \/ ~running[c] /\ view[c] # Overview(turns[c], FALSE)

ChildrenShown ==
    /\ \A c \in Delivered : []<>~Behind(c)
    /\ <>[](joined \subseteq shown \/ ~IsLive \/ troubles > 0)
    /\ <>[](service # "closing")

\* A stop is answered, and with the ending of the turn that it interrupted or of
\* a later one; a child that never got to a turn has been cancelled.
StopToldTruly ==
    stop.settled # Nothing =>
        LET log == turns[stop.child]
        IN \/ \E k \in 1..Len(log) : k >= stop.from /\ log[k] = stop.settled
           \/ stop.from = 0 /\ stop.settled = "cancelled"

\* What the client is shown of the children and answered about them.
ChildrenMirrored ==
    /\ [](NoInventedFinish /\ MembersHaveViews /\ StopToldTruly)
    /\ AttemptsAdvance /\ SilentOnceClosed /\ ChildrenShown
    /\ <>[]~StopPending
==============================================================================
