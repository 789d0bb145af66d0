----------------------------- MODULE MCSessions -----------------------------
(* The sessions of a leader: a behaviour is one of the registry, or one of   *)
(* discovery or of the command lists in one of the scenarios below; the      *)
(* others keep their first state.                                            *)
EXTENDS MCSessionRegistry, SessionDiscovery, SessionCommands

CONSTANTS own, far, first, second, preset, query

VARIABLE subject

sessionsVars == <<vars, discoveryVars, commandVars, subject>>

\* Lists and changes of the store; lists of two stores; a disposal with failures;
\* the inspection of a load.  Changes of the commands of a session, with /preset;
\* command lines while nothing else changes.
Subjects == {"registry", "lists", "stores", "drain", "inspection", "menu", "lines"}

ListsOnly ==
    /\ reader' = "idle" /\ discovery' = "open" /\ mount' = 1 /\ troubles' = 0
    /\ heard'[own] < 2 \/ disk'[1][far] = 1
StoresOnly ==
    /\ reader' = "idle" /\ discovery' = "open" /\ troubles' = 0
    /\ disk' = disk /\ heard'[own] < 2
DrainOnly ==
    /\ reader' = "idle" /\ mount' = 1 /\ disk' = disk /\ heard' = heard
InspectionOnly ==
    /\ \A p \in Pickers : picker'[p].at = "idle"
    /\ mount' = 1 /\ disk' = disk /\ heard' = heard

MenuOnly == line'[query] = "idle"
LinesOnly == changes' = 0 /\ commandTroubles' = 0

SessionsInit ==
    /\ Init /\ InitDiscovery /\ InitCommands
    /\ subject \in Subjects
    /\ commandSession = IF subject \in {"menu", "lines"} THEN "live" ELSE "closed"

SessionsNext ==
    /\ UNCHANGED subject
    /\ \/ subject = "registry" /\ Next /\ UNCHANGED <<discoveryVars, commandVars>>
       \/ /\ NextCommands /\ UNCHANGED <<vars, discoveryVars>>
          /\ \/ subject = "menu" /\ MenuOnly
             \/ subject = "lines" /\ LinesOnly
       \/ /\ NextDiscovery /\ UNCHANGED <<vars, commandVars>>
          /\ \/ subject = "lists" /\ ListsOnly
             \/ subject = "stores" /\ StoresOnly
             \/ subject = "drain" /\ DrainOnly
             \/ subject = "inspection" /\ InspectionOnly

SessionsSpec == SessionsInit /\ [][SessionsNext]_sessionsVars /\ Fairness /\ FairDiscovery /\ FairCommands

\* Requests are answered, input comes back, lists and inspections end, and so do
\* both disposals, whatever fails on the way.
EverythingEnds == RequestsEnd /\ InputReturns /\ ShutdownEnds /\ EverythingAnswered
=============================================================================
