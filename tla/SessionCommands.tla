---------------------------- MODULE SessionCommands ----------------------------
(* session-commands.ts: the command list that a session's client is shown, and  *)
(* the commands it runs.  One refresh reads at a time: a change while it reads   *)
(* makes it read again before it publishes.  The registries tell of commands and *)
(* skills; of tools they tell often, and only what a session is capable of is    *)
(* looked at, once per burst.  The session closes, its client leaves, a call     *)
(* fails, and the owner of the lists is disposed of.                             *)
EXTENDS Naturals

CONSTANTS
    Lines,          \* requests: command lines, options, lists
    Switching,      \* the /preset among them
    MaxChanges, MaxCommandTroubles      \* bounds

ASSUME CommandsAssumption ==
    Switching \subseteq Lines /\ MaxChanges \in Nat /\ MaxCommandTroubles \in Nat

VARIABLES
    commands, skills,       \* versions of the native registries
    abilities,              \* capabilities(): of the session's tools
    changes,                \* of all three so far
    toolCheck,              \* a microtask will look at them
    refresh,                \* refreshes: the read under way
    advertised,             \* the capabilities published last; 2 is undefined
    menu,                   \* what the client shows
    missed,                 \* history: the last refresh failed
    skewed,                 \* history: /team was published as it had been before
    line,                   \* the requests
    commandSession,         \* the record and its work: "live" or "closed"
    commandClient,          \* its connection: "open" or "closed"
    commandOwner,           \* the module: "open", "closing" or "done"
    commandTroubles

commandVars == <<commands, skills, abilities, changes, toolCheck, refresh, advertised, menu, missed,
                 skewed, line, commandSession, commandClient, commandOwner, commandTroubles>>

NoCatalog == [at |-> "none", dirty |-> FALSE, commands |-> 0, skills |-> 0, team |-> 0]
\* The command /team is listed to whom is capable of it.
Registered ==
    [commands |-> commands, skills |-> skills, team |-> abilities, abilities |-> abilities]

\* active(): of the record, and of the module.
CommandsActive == commandOwner = "open" /\ commandSession = "live"

\* A session that has just been opened, its first refresh on its way; or none.
InitCommands ==
    /\ commands = 0 /\ skills = 0 /\ abilities = 0 /\ changes = 0 /\ toolCheck = FALSE
    /\ \/ commandSession = "live" /\ refresh = [NoCatalog EXCEPT !.at = "accepted"]
       \/ commandSession = "closed" /\ refresh = NoCatalog
    /\ advertised = 2 /\ menu = [commands |-> 0, skills |-> 0, team |-> 2, abilities |-> 2]
    /\ missed = FALSE /\ skewed = FALSE
    /\ line = [x \in Lines |-> "idle"]
    /\ commandClient = "open" /\ commandOwner = "open"
    /\ commandTroubles = 0

Owners == <<commandSession, commandClient, commandOwner>>
Shown == <<advertised, menu, missed, skewed>>
Registries == <<commands, skills, abilities, changes>>

------------------------------------------------------------------------------
\* refresh()

\* Mutant: the read under way is enough.
ShareCatalog ==
    refresh' = IF commandOwner = "open" /\ refresh.at = "none"
               THEN [NoCatalog EXCEPT !.at = "accepted"] ELSE refresh

AskCatalog ==
    refresh' = IF commandOwner # "open" THEN refresh
               ELSE IF refresh.at = "none" THEN [NoCatalog EXCEPT !.at = "accepted"]
               ELSE [refresh EXCEPT !.dirty = TRUE]

\* work.read() admits it; the roster of presets is asked first.
CatalogStarts ==
    /\ refresh.at = "accepted"
    /\ IF CommandsActive
       THEN /\ refresh' = [NoCatalog EXCEPT !.at = "presets"] /\ UNCHANGED missed
       ELSE /\ refresh' = NoCatalog /\ missed' = TRUE
    /\ UNCHANGED <<Registries, toolCheck, advertised, menu, skewed, line, Owners,
                   commandTroubles>>

\* roster.list() answers; the command registry answers at once.
PresetsListed ==
    /\ refresh.at = "presets" /\ CommandsActive
    /\ refresh' = [refresh EXCEPT !.at = "skills", !.commands = commands, !.skills = skills,
                              !.team = abilities]
    /\ UNCHANGED <<Registries, toolCheck, Shown, line, Owners, commandTroubles>>

\* skills.list() answers with what was there when it was asked, or since.
\* "Reread before publishing an older roster last."
SkillsListed ==
    /\ refresh.at = "skills" /\ CommandsActive
    /\ IF refresh.dirty
       THEN /\ refresh' = [NoCatalog EXCEPT !.at = "presets"]
            /\ UNCHANGED Shown
       ELSE /\ refresh' = NoCatalog /\ missed' = FALSE
            /\ IF commandClient = "closed" THEN UNCHANGED <<advertised, menu, skewed>>
               ELSE /\ \E s \in refresh.skills..skills :
                        menu' = [commands |-> refresh.commands, skills |-> s,
                                 team |-> refresh.team, abilities |-> abilities]
                    /\ advertised' = abilities
                    /\ skewed' = (refresh.team # abilities)
    /\ UNCHANGED <<Registries, toolCheck, line, Owners, commandTroubles>>

\* The failure is logged: nobody asks again before the next change.
CatalogFails ==
    /\ refresh.at \in {"presets", "skills"}
    /\ \/ ~CommandsActive /\ UNCHANGED commandTroubles
       \/ commandTroubles < MaxCommandTroubles /\ commandTroubles' = commandTroubles + 1
    /\ refresh' = NoCatalog /\ missed' = TRUE
    /\ UNCHANGED <<Registries, toolCheck, advertised, menu, skewed, line, Owners>>

------------------------------------------------------------------------------
\* Changes of the native registries.  They reach the sessions that are live.

OneChange == changes < MaxChanges /\ changes' = changes + 1
TellSessions == IF commandSession = "live" THEN AskCatalog ELSE UNCHANGED refresh

CommandsChange ==
    /\ OneChange /\ commands' = commands + 1
    /\ TellSessions
    /\ UNCHANGED <<skills, abilities, toolCheck, Shown, line, Owners, commandTroubles>>

SkillsChange ==
    /\ OneChange /\ skills' = skills + 1
    /\ TellSessions
    /\ UNCHANGED <<commands, abilities, toolCheck, Shown, line, Owners, commandTroubles>>

\* toolsChanged(): one check for a burst, whatever it does to the capabilities.
ToolsChange ==
    /\ OneChange /\ abilities' \in 0..1
    /\ toolCheck' = TRUE
    /\ UNCHANGED <<commands, skills, refresh, Shown, line, Owners, commandTroubles>>

CheckTools ==
    /\ toolCheck /\ toolCheck' = FALSE
    /\ IF CommandsActive /\ (refresh.at # "none" \/ advertised # abilities)
       THEN AskCatalog ELSE UNCHANGED refresh
    /\ UNCHANGED <<Registries, Shown, line, Owners, commandTroubles>>

------------------------------------------------------------------------------
\* execute(), run(), options(), catalog() and skills(): accepted requests.

LineAt(x, at) == line' = [line EXCEPT ![x] = at]

AskLine(x) ==
    /\ line[x] = "idle"
    /\ LineAt(x, IF CommandsActive THEN "running" ELSE "refused")
    /\ UNCHANGED <<Registries, toolCheck, refresh, Shown, Owners, commandTroubles>>

\* The prompt that carries the line is cancelled.
CancelLine(x) ==
    /\ line[x] = "running" /\ LineAt(x, "cancelled")
    /\ UNCHANGED <<Registries, toolCheck, refresh, Shown, Owners, commandTroubles>>

\* Its owner answers.  A /preset that succeeded has changed the tools.
LineReturns(x) ==
    /\ line[x] = "running" /\ CommandsActive
    /\ LineAt(x, "settled")
    /\ IF x \in Switching
       THEN abilities' \in 0..1 /\ toolCheck' = TRUE /\ AskCatalog
       ELSE UNCHANGED <<abilities, toolCheck, refresh>>
    /\ UNCHANGED <<commands, skills, changes, Shown, Owners, commandTroubles>>

\* It fails, or nobody is there to be told; the tools may have changed.
LineRefused(x) ==
    /\ \/ line[x] = "cancelled" /\ UNCHANGED commandTroubles
       \/ line[x] = "running" /\ ~CommandsActive /\ UNCHANGED commandTroubles
       \/ /\ line[x] = "running" /\ commandTroubles < MaxCommandTroubles
          /\ commandTroubles' = commandTroubles + 1
    /\ LineAt(x, "refused")
    /\ IF x \in Switching THEN abilities' \in 0..1 /\ toolCheck' = TRUE
       ELSE UNCHANGED <<abilities, toolCheck>>
    /\ UNCHANGED <<commands, skills, changes, refresh, Shown, Owners>>

------------------------------------------------------------------------------
CloseCommandSession ==
    /\ commandSession = "live" /\ commandSession' = "closed"
    /\ UNCHANGED <<Registries, toolCheck, refresh, Shown, line, commandClient, commandOwner,
                   commandTroubles>>

\* Its client is gone before its session is closed.
ClientGone ==
    /\ commandClient = "open" /\ commandClient' = "closed"
    /\ UNCHANGED <<Registries, toolCheck, refresh, Shown, line, commandSession, commandOwner,
                   commandTroubles>>

DisposeCommands ==
    /\ commandOwner = "open" /\ commandOwner' = "closing"
    /\ UNCHANGED <<Registries, toolCheck, refresh, Shown, line, commandSession,
                   commandClient, commandTroubles>>

Accepted == refresh.at # "none" \/ \E x \in Lines : line[x] \in {"running", "cancelled"}

CommandsDisposed ==
    /\ commandOwner = "closing" /\ ~Accepted
    /\ commandOwner' = "done"
    /\ UNCHANGED <<Registries, toolCheck, refresh, Shown, line, commandSession,
                   commandClient, commandTroubles>>

CommandWork ==
    \/ CatalogStarts \/ PresetsListed \/ SkillsListed \/ CatalogFails \/ CheckTools
    \/ \E x \in Lines : LineReturns(x) \/ LineRefused(x)
    \/ CommandsDisposed

NextCommands ==
    \/ CommandWork
    \/ CommandsChange \/ SkillsChange \/ ToolsChange
    \/ \E x \in Lines : AskLine(x) \/ CancelLine(x)
    \/ CloseCommandSession \/ ClientGone \/ DisposeCommands

\* Native calls return, and microtasks run.
FairCommands == WF_commandVars(CommandWork)

CommandSteps == InitCommands /\ [][NextCommands]_commandVars

------------------------------------------------------------------------------
(* Properties *)

\* Type invariant.
CommandsTypeOK ==
    /\ commands \in 0..MaxChanges /\ skills \in 0..MaxChanges /\ abilities \in 0..1
    /\ refresh.at \in {"none", "accepted", "presets", "skills"}
    /\ line \in [Lines -> {"idle", "running", "cancelled", "settled", "refused"}]

\* What is published is what the registries hold then, never a mix of two moments;
\* but for /team, where the tools have just changed and the check is still to come.
PublishesNow ==
    [][menu' # menu =>
        \/ menu' = Registered
        \/ toolCheck /\ menu' = [Registered EXCEPT !.team = menu'.team]]_commandVars

\* The menu follows the registries, once they rest, unless a refresh has failed.
MenuFollows ==
    <>[](\/ ~CommandsActive \/ commandClient = "closed" \/ missed \/ toolCheck
         \/ skewed \/ menu = Registered)

\* Requests are answered and the disposal ends.
LinesEnd ==
    []<>(commandOwner # "closing" /\ \A x \in Lines : line[x] \notin {"running", "cancelled"})

\* The menu of a session, and what is asked through it.
MenuTrue == PublishesNow /\ MenuFollows /\ LinesEnd
==============================================================================
