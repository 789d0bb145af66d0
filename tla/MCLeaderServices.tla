--------------------------- MODULE MCLeaderServices ---------------------------
(* Services of the leader that share no state, side by side: a behaviour is a  *)
(* behaviour of one of them, in one of the scenarios below, and the others     *)
(* keep their initial states, so that their state spaces add up.               *)
EXTENDS RemoteChannel, NativeChildren, NativeTasks, SessionPresets

CONSTANTS
    read1, write, read2, alice, chat,
    child, worker,
    daily,
    standard, minimal, ptc, team, create, load, reopen, switch

VARIABLE scenario

MCCallClient == [r \in Calls |-> alice]
MCCallSession == [r \in Calls |-> IF r = read1 THEN NoSession ELSE chat]
MCMaxTurns == child :> 2 @@ worker :> 0
MCMaxAgents == child :> 2 @@ worker :> 1

MCExplicit == [x \in Opens \cup Commands |->
    CASE x = switch -> ptc [] x = load -> minimal [] OTHER -> None]
MCStored == {None} \cup [selected : {standard, team}, locked : BOOLEAN]

servicesVars == <<remoteVars, childrenVars, tasksVars, presetVars, scenario>>

\* Calls of one client.  One child that runs two turns in two agents; a child that
\* is stopped in its first turn; a workflow member beside a child that is created
\* and stays busy.  A reminder; a job.  The preset of a session.
Scenarios == {"remote", "turns", "stop", "members", "reminders", "jobs", "presets"}

TurnsOnly == joined' = {} /\ stop'.phase = "idle" /\ service' = "open"
StopOnly ==
    /\ joined' = {} /\ spawned'[worker] = 0
    /\ Len(turns'[child]) < 2 /\ spawned'[child] < 2
    /\ owner' # "closed"
MembersOnly ==
    /\ turns'[child] = <<>> /\ spawned'[child] < 2 /\ stop'.phase = "idle"
    /\ child \in listed' => running'[child]

RemindersOnly == job' = "none"
JobsOnly == UNCHANGED reminderVars

Init ==
    /\ InitRemote /\ InitChildren /\ InitTasks /\ InitPresets
    /\ scenario \in Scenarios
    /\ queued = (scenario = "reminders")
    /\ snapshot = (IF scenario = "members" THEN "due" ELSE "shown")
    /\ scenario # "presets" => log = None

Next ==
    /\ UNCHANGED scenario
    /\ \/ /\ scenario = "remote" /\ NextRemote
          /\ UNCHANGED <<childrenVars, tasksVars, presetVars>>
       \/ /\ scenario \in {"turns", "stop", "members"} /\ NextChildren
          /\ UNCHANGED <<remoteVars, tasksVars, presetVars>>
          /\ \/ scenario = "turns" /\ TurnsOnly
             \/ scenario = "stop" /\ StopOnly
             \/ scenario = "members" /\ MembersOnly
       \/ /\ scenario \in {"reminders", "jobs"} /\ NextTasks
          /\ UNCHANGED <<remoteVars, childrenVars, presetVars>>
          /\ \/ scenario = "reminders" /\ RemindersOnly
             \/ scenario = "jobs" /\ JobsOnly
       \/ /\ scenario = "presets" /\ NextPresets
          /\ UNCHANGED <<remoteVars, childrenVars, tasksVars>>

Spec == Init /\ [][Next]_servicesVars /\ FairRemote /\ FairChildren /\ FairTasks /\ FairPresets
==============================================================================
