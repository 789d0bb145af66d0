----------------------------- MODULE NativeTasks -----------------------------
(* native-tasks.ts: the Tasks pane of a client.  The reminders of its session  *)
(* live in Host storage; one read of them runs at a time and one more waits;   *)
(* /reminders writes, reads the catalog and shows the pane before it answers.  *)
(* A background job is shown when it starts, when it ends and when its last    *)
(* output comes, which may be later.  The session closes, calls fail or time   *)
(* out, and the tasks are disposed of.                                         *)
EXTENDS Naturals, FiniteSets

CONSTANTS
    Reminders,
    MaxWrites, MaxTaskTroubles,         \* bounds
    Unset           \* undefined

ASSUME TasksAssumption == MaxWrites \in Nat /\ MaxTaskTroubles \in Nat

VARIABLES
    \* reminders
    schedule,       \* Host storage: "none" yet, two states of an active row, "ended", "deleted"
    writes,         \* durable writes so far
    changed,        \* schedule/changed is on its way
    pane,           \* what the client shows
    paneAsOf,       \* history: the writes that the pane has seen
    remindersSent,          \* reminderSnapshots: what was published last
    round,          \* the read under way
    queued,         \* a read waits for it
    failed,         \* history: the last read failed
    ask,            \* a /reminders request
    \* a job
    job, output,    \* of the native registry
    jobSnapshot,    \* jobSnapshots: the row that was compared last
    jobShown,       \* what the client was sent last
    kill,           \* an x.ai/task/kill request
    taskSession,    \* the record: "live" or "closed"
    tasks,          \* the service: "open", "closing" or "done"
    taskTroubles

reminderVars ==
    <<schedule, writes, changed, pane, paneAsOf, remindersSent, round, queued, failed, ask>>
jobVars == <<job, output, jobSnapshot, jobShown, kill>>
tasksVars == <<reminderVars, jobVars, taskSession, tasks, taskTroubles>>

Active == {"first", "next"}
IdleRound == [at |-> "none", rows |-> Unset, asOf |-> 0]
JobEnds == {"completed", "killed", "failed"}

\* isLive()
TasksLive == taskSession = "live" /\ tasks = "open"

\* A native call rejects; an aborted one is likely to.
TaskFails ==
    \/ ~TasksLive /\ UNCHANGED taskTroubles
    \/ taskTroubles < MaxTaskTroubles /\ taskTroubles' = taskTroubles + 1

\* A client that comes back may show rows that ended, or were deleted, while it
\* was away.  The session has just been opened: snapshot() asked for the first read
\* where the host has the Schedule service.
InitTasks ==
    /\ schedule \in [Reminders -> {"none", "first", "ended", "deleted"}]
    /\ pane \in [Reminders -> {"none", "old"}]
    /\ \A r \in Reminders : schedule[r] = "none" => pane[r] = "none"
    /\ writes = 0 /\ changed = FALSE /\ paneAsOf = 0
    /\ remindersSent = Unset /\ round = IdleRound /\ failed = FALSE
    /\ queued \in BOOLEAN /\ (~queued => schedule = [r \in Reminders |-> "none"])
    /\ ask = [at |-> "idle", wrote |-> 0, emission |-> "none"]
    /\ job = "none" /\ output = 0
    /\ jobSnapshot = Unset /\ jobShown = [status |-> "none", output |-> 0]
    /\ kill = "idle"
    /\ taskSession = "live" /\ tasks = "open" /\ taskTroubles = 0

------------------------------------------------------------------------------
\* Reminders: Host storage.

\* A durable write; schedule/changed follows it.
Put(r, status) ==
    /\ writes < MaxWrites
    /\ schedule[r] # status
    /\ schedule' = [schedule EXCEPT ![r] = status]
    /\ writes' = writes + 1 /\ changed' = TRUE

\* The model creates and deletes reminders, and they come due.
HostWrites(r) ==
    /\ \/ schedule[r] = "none" /\ Put(r, "first")
       \/ schedule[r] \in Active /\ \E s \in {"next", "ended", "deleted"} : Put(r, s)
    /\ UNCHANGED <<pane, paneAsOf, remindersSent, round, queued, failed, ask, jobVars,
                   taskSession, tasks, taskTroubles>>

\* emitReminders() of a live record: it shares the read that waits, or is the
\* one that waits.
EmitReminders == queued' = TRUE

\* scheduleChanged()
ScheduleChanged ==
    /\ changed /\ changed' = FALSE
    /\ IF TasksLive THEN EmitReminders ELSE UNCHANGED queued
    /\ UNCHANGED <<schedule, writes, pane, paneAsOf, remindersSent, round, failed, ask, jobVars,
                   taskSession, tasks, taskTroubles>>

------------------------------------------------------------------------------
\* Reminders: the reads.  The request that waits for one follows it.

RoundOver(how) ==
    /\ round' = IdleRound
    /\ failed' = (how = "failed")
    /\ ask' = IF ask.emission = "running" THEN [ask EXCEPT !.emission = how] ELSE ask

RoundFrame == UNCHANGED <<schedule, writes, changed, jobVars, taskSession, tasks>>

ReadStarts ==
    /\ queued /\ round.at = "none"
    /\ queued' = FALSE
    /\ IF TasksLive
       THEN /\ round' = [IdleRound EXCEPT !.at = "listing"]
            /\ ask' = IF ask.emission = "queued" THEN [ask EXCEPT !.emission = "running"] ELSE ask
            /\ UNCHANGED failed
       ELSE /\ failed' = TRUE
            /\ ask' = IF ask.emission = "queued" THEN [ask EXCEPT !.emission = "failed"] ELSE ask
            /\ UNCHANGED round
    /\ UNCHANGED <<pane, paneAsOf, remindersSent, taskTroubles>> /\ RoundFrame

\* What was published is compared with what is active: the rest is removed.
PublishReminders(rows, previous, asOf) ==
    /\ pane' = [r \in Reminders |->
            IF rows[r] \in Active
            THEN IF previous[r] = rows[r] THEN pane[r] ELSE rows[r]
            ELSE IF previous[r] = "none" THEN pane[r] ELSE "none"]
    /\ remindersSent' = [r \in Reminders |-> IF rows[r] \in Active THEN rows[r] ELSE "none"]
    /\ paneAsOf' = asOf
    /\ RoundOver("done")

\* schedule.list(): a read that follows another one and misses no row of it
\* needs no catalog.
ListReminders ==
    /\ round.at = "listing"
    /\ \/ /\ TasksLive /\ UNCHANGED taskTroubles
          /\ LET removed == {r \in Reminders : remindersSent # Unset /\ remindersSent[r] # "none"
                                                /\ schedule[r] \notin Active}
             IN IF remindersSent # Unset /\ removed = {}
                THEN PublishReminders(schedule, remindersSent, writes)
                ELSE /\ round' = [at |-> "catalog", rows |-> schedule, asOf |-> writes]
                     /\ UNCHANGED <<pane, paneAsOf, remindersSent, failed, ask>>
       \/ TaskFails /\ RoundOver("failed") /\ UNCHANGED <<pane, paneAsOf, remindersSent>>
    /\ UNCHANGED queued /\ RoundFrame

\* schedule.catalog(): the first read takes the ended rows for published ones.
ReadCatalog ==
    /\ round.at = "catalog"
    /\ \/ /\ TasksLive /\ UNCHANGED taskTroubles
          /\ PublishReminders(round.rows,
                IF remindersSent # Unset THEN remindersSent
                ELSE [r \in Reminders |-> IF schedule[r] = "ended" THEN "ended" ELSE "none"],
                round.asOf)
       \/ TaskFails /\ RoundOver("failed") /\ UNCHANGED <<pane, paneAsOf, remindersSent>>
    /\ UNCHANGED queued /\ RoundFrame

------------------------------------------------------------------------------
\* /reminders: create and delete.

AskFrame == UNCHANGED <<pane, paneAsOf, remindersSent, round, failed, jobVars, taskSession, tasks>>
AskAt(at) == ask' = [ask EXCEPT !.at = at]

AskReminders ==
    /\ ask.at = "idle"
    /\ AskAt(IF TasksLive THEN "writing" ELSE "refused")
    /\ UNCHANGED <<schedule, writes, changed, queued, taskTroubles>> /\ AskFrame

\* The write lands; its answer comes later, or never when it was aborted.
WriteLands(r) ==
    /\ ask.at = "writing"
    /\ \/ schedule[r] = "none" /\ Put(r, "first")
       \/ schedule[r] \notin {"none", "deleted"} /\ Put(r, "deleted")
    /\ ask' = [ask EXCEPT !.at = "written", !.wrote = writes']
    /\ UNCHANGED <<queued, taskTroubles>> /\ AskFrame

\* A request that the service refuses (bad input, nothing to delete); the deadline
\* of REMINDER_REQUEST_MS or the abort of a session that closes, where the write
\* may have landed.
InvokeFails ==
    /\ \/ ask.at = "writing" /\ UNCHANGED taskTroubles
       \/ ask.at \in {"written", "listing"} /\ TaskFails
    /\ AskAt("refused")
    /\ UNCHANGED <<schedule, writes, changed, queued>> /\ AskFrame

WriteReturns ==
    /\ ask.at = "written"
    /\ AskAt(IF TasksLive THEN "listing" ELSE "refused")
    /\ UNCHANGED <<schedule, writes, changed, queued, taskTroubles>> /\ AskFrame

\* "requests made before it starts share it, later ones queue exactly one more"
ShareQueued ==
    /\ EmitReminders
    /\ ask' = [ask EXCEPT !.at = "emitting", !.emission = "queued"]

CatalogReturns ==
    /\ ask.at = "listing"
    /\ IF TasksLive THEN ShareQueued ELSE AskAt("refused") /\ UNCHANGED queued
    /\ UNCHANGED <<schedule, writes, changed, taskTroubles>> /\ AskFrame

\* The failure of the pane is only logged.
AskReturns ==
    /\ ask.at = "emitting" /\ ask.emission \in {"done", "failed"}
    /\ AskAt(IF taskSession = "live" THEN "answered" ELSE "refused")
    /\ UNCHANGED <<schedule, writes, changed, queued, taskTroubles>> /\ AskFrame

------------------------------------------------------------------------------
\* Jobs.

Running(status) == status \in {"running", "stopping"}

\* The row of jobs.list(): its status and the counters of its output.  The registry
\* that index.ts wires has output to tell of from the first ('' where none is there),
\* so that what is compared changes with the row alone.
Row(status, out) == [status |-> status, output |-> out]

\* Mutant: a job that has ended is not looked at again.
SeenEnd(status, out) ==
    ~Running(status) /\ jobSnapshot # Unset /\ jobSnapshot.status = status

\* "Stop rescanning only after that final output has actually been observed."
Final(status, out) == ~Running(status) /\ jobSnapshot = Row(status, out)

\* emitJobsForRecord() of a job whose native state is status and out: task_completed
\* is sent once more where the row changes after the end.
EmitJobs(status, out) ==
    IF ~TasksLive \/ status = "none" \/ Final(status, out)
    THEN UNCHANGED <<jobSnapshot, jobShown>>
    ELSE /\ jobSnapshot' = Row(status, out)
         /\ jobShown' =
            IF ~Running(status)
            THEN Row(status, out)
            ELSE Row(IF jobSnapshot = Unset THEN "running" ELSE jobShown.status, out)

JobFrame == UNCHANGED <<reminderVars, taskSession, tasks, taskTroubles>>

\* An event of the registry, which it delivers at once.
JobChanges ==
    /\ \/ job = "none" /\ job' = "running"
       \/ Running(job) /\ job' \in JobEnds
    /\ EmitJobs(job', output)
    /\ UNCHANGED <<output, kill>> /\ JobFrame

\* Output is collected while a job runs, and "can arrive after settlement".  An output
\* event may tell of it.
OutputCollected ==
    /\ job # "none" /\ output < 2
    /\ output' = output + 1
    /\ \/ EmitJobs(job, output')
       \/ UNCHANGED <<jobSnapshot, jobShown>>
    /\ UNCHANGED <<job, kill>> /\ JobFrame

\* poll(): the heartbeat of the host.
PollJobs ==
    /\ EmitJobs(job, output)
    /\ UNCHANGED <<job, output, kill>> /\ JobFrame

\* killTask(): a job that still runs is asked to stop, and waited for.
KillTask ==
    /\ kill = "idle"
    /\ IF ~TasksLive THEN kill' = "refused" /\ UNCHANGED <<job, jobSnapshot, jobShown>>
       ELSE IF job = "none"
       THEN kill' = "not_found" /\ UNCHANGED <<job, jobSnapshot, jobShown>>
       ELSE IF ~Running(job)
       THEN /\ kill' = "already_exited" /\ EmitJobs(job, output) /\ UNCHANGED job
       ELSE /\ kill' = "waiting" /\ job' = "stopping" /\ EmitJobs("stopping", output)
    /\ UNCHANGED output /\ JobFrame

\* jobs.wait(): the job has ended, or five seconds have passed.
KillReturns ==
    /\ kill = "waiting"
    /\ kill' = IF ~TasksLive \/ Running(job) THEN "refused"
               ELSE IF job = "killed" THEN "killed" ELSE "already_exited"
    /\ EmitJobs(job, output)
    /\ UNCHANGED <<job, output>> /\ JobFrame

------------------------------------------------------------------------------
CloseTaskSession ==
    /\ taskSession = "live" /\ taskSession' = "closed"
    /\ UNCHANGED <<reminderVars, jobVars, tasks, taskTroubles>>

DisposeTasks ==
    /\ tasks = "open" /\ tasks' = "closing"
    /\ UNCHANGED <<reminderVars, jobVars, taskSession, taskTroubles>>

TaskRequests ==
    \/ queued \/ round.at # "none" \/ kill = "waiting"
    \/ ask.at \in {"writing", "written", "listing", "emitting"}

TasksDisposed ==
    /\ tasks = "closing" /\ ~TaskRequests
    /\ tasks' = "done"
    /\ UNCHANGED <<reminderVars, jobVars, taskSession, taskTroubles>>

TaskWork ==
    \/ ScheduleChanged \/ ReadStarts \/ ListReminders \/ ReadCatalog
    \/ InvokeFails \/ WriteReturns \/ CatalogReturns \/ AskReturns
    \/ KillReturns \/ TasksDisposed
    \/ \E r \in Reminders : WriteLands(r)

NextTasks ==
    \/ TaskWork \/ PollJobs
    \/ \E r \in Reminders : HostWrites(r)
    \/ AskReminders \/ JobChanges \/ OutputCollected \/ KillTask
    \/ CloseTaskSession \/ DisposeTasks

\* Native calls return, kill waits five seconds, a request has a deadline, and the
\* host has one heartbeat.
FairTasks == WF_tasksVars(TaskWork) /\ WF_tasksVars(PollJobs)

TaskSteps == InitTasks /\ [][NextTasks]_tasksVars

------------------------------------------------------------------------------
(* Properties *)

\* Type invariant.
TasksTypeOK ==
    /\ schedule \in [Reminders -> {"none", "first", "next", "ended", "deleted"}]
    /\ pane \in [Reminders -> {"none", "old", "first", "next"}]
    /\ writes \in 0..MaxWrites /\ paneAsOf \in 0..MaxWrites
    /\ round.at \in {"none", "listing", "catalog"}
    /\ ask.emission \in {"none", "queued", "running", "done", "failed"}
    /\ job \in JobEnds \cup {"none", "running", "stopping"} /\ output \in 0..2

\* The pane comes to show the active reminders, once the changes stop: no change
\* is lost between two reads, and rows that ended while the client was away go.
\* One that was deleted before the first read is in no catalog, and stays.
PaneFollows ==
    []<>(\/ ~TasksLive \/ failed
         \/ \A r \in Reminders :
                \/ pane[r] = IF schedule[r] \in Active THEN schedule[r] ELSE "none"
                \/ schedule[r] = "deleted" /\ pane[r] = "old")

\* "The Tasks pane already shows a successful change when the panel refreshes."
PaneBeforePanel == ask.at = "answered" /\ ask.emission = "done" => paneAsOf >= ask.wrote

\* The pane comes to show the end of a job with its last output, and nothing that
\* has ended as running.
JobFollows ==
    []<>(\/ ~TasksLive \/ job = "none"
         \/ /\ jobShown.output = output
            /\ jobShown.status = IF Running(job) THEN "running" ELSE job)

\* What a kill is told is what became of the job; a disposal leaves nothing to do.
KillTrue ==
    /\ kill = "killed" => job = "killed"
    /\ kill = "already_exited" => job \in JobEnds
    /\ tasks = "done" => ~TaskRequests

TaskRequestsEnd ==
    []<>(tasks # "closing" /\ kill # "waiting" /\ ask.at \in {"idle", "answered", "refused"})

\* The Tasks pane, and what is asked of it.
TasksMirrored ==
    /\ PaneFollows /\ JobFollows /\ TaskRequestsEnd
    /\ [](PaneBeforePanel /\ KillTrue)
==============================================================================
