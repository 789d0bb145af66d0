--------------------------- MODULE SessionPresets ---------------------------
(* The preset of one session (session-presets.ts): how it is opened with one,  *)
(* new, from its log or again while it is live (session-lifecycle.ts), and how *)
(* a live session is switched to another, in place or by opening it again.     *)
(*                                                                             *)
(* A record is the request that opens the session, with the native agent that  *)
(* it creates. The agent's composition changes over an await, and turns that   *)
(* the agent starts itself, closes and failures come in between.               *)
EXTENDS Naturals, FiniteSets

CONSTANTS
    Presets,
    Team,           \* presets whose tools attach only as a session opens
    Opens,          \* session/new and session/load
    Creates,        \* those that are a session/new
    Commands,       \* /preset
    Explicit,       \* the preset that a request names
    Remember,       \* requests that make it the default of new sessions
    Stored,         \* what the log may say at the start
    Standard,       \* the default of new sessions at the start
    Faults, None

FaultKinds == {"resolve", "recompose", "append", "flush", "remember", "create"}

ASSUME PresetAssumption ==
    /\ Team \subseteq Presets /\ Standard \in Presets /\ None \notin Presets
    /\ Creates \subseteq Opens /\ Opens \cap Commands = {} /\ None \notin Opens
    /\ Explicit \in [Opens \cup Commands -> Presets \cup {None}]
    /\ Commands \subseteq Remember /\ Remember \subseteq Opens \cup Commands
    /\ \A x \in Remember : Explicit[x] # None
    /\ Stored \subseteq [selected : Presets, locked : BOOLEAN] \cup {None}
    /\ None \notin [selected : Presets, locked : BOOLEAN]
    /\ Faults \subseteq FaultKinds

VARIABLES
    log,            \* presetHistory: the preset of the log, and whether it has history
    saved,          \* the preset that the log on the disk names
    undone,         \* whether a switch was taken back after it was appended
    default,        \* selectedDefault of the settings
    status,         \* of the records
    composed,       \* composedPreset of their agents
    inTurn,        \* the records whose agent runs a turn
    changing, inconsistent,     \* of the records, as in State
    pc, on,         \* of the requests, and the record that one changes
    previous,       \* what a switch has replaced
    disposal

ledger == <<log, saved, undone>>
records == <<status, composed, inTurn>>
presetVars == <<ledger, default, records, changing, inconsistent, pc, on, previous, disposal>>

Requests == Opens \cup Commands
PresetsClosed == disposal # "open"
Live(r) == status[r] = "live" /\ ~PresetsClosed
Owner == {r \in Opens : status[r] = "live"}
Settled == {"idle", "done", "failed"}
MayOrFail(fault) == {TRUE} \cup {fault \notin Faults}
Goto(x, next) == pc' = [pc EXCEPT ![x] = next]
Compose(r, p) == composed' = [composed EXCEPT ![r] = p]

\* change: whatever ends an operation lifts the barrier.
Lifted(x) == changing \ {on[x]}

End(x, next) ==
    /\ Goto(x, next)
    /\ changing' = Lifted(x)

-----------------------------------------------------------------------------
(* Changes of a live session *)

\* Mutant: changes of one session overlap.
ReadyOverlapping(r) == Live(r) /\ r \notin inconsistent

\* assertReady
Ready(r) == Live(r) /\ r \notin inconsistent /\ r \notin changing

\* A load has settled the session's preset and reloads the record.
Reloading(r) == \E o \in Opens : pc[o] = "reloading" /\ on[o] = r

\* command
Command(x, r) ==
    /\ pc[x] = "idle" /\ r \in Owner
    /\ IF Ready(r) /\ ~Reloading(r)
       THEN Goto(x, "looking") /\ changing' = changing \cup {r}
            /\ on' = [on EXCEPT ![x] = r]
       ELSE Goto(x, "failed") /\ UNCHANGED <<changing, on>>
    /\ UNCHANGED <<ledger, default, records, inconsistent, previous, disposal>>

\* loadSession of a live record of the client
LoadLive(x, r) ==
    /\ pc[x] = "idle" /\ x \notin Creates /\ r \in Owner
    /\ \A o \in Opens : pc[o] \in Settled
    /\ IF Ready(r)
       THEN Goto(x, "looking") /\ changing' = changing \cup {r}
            /\ on' = [on EXCEPT ![x] = r]
       ELSE Goto(x, "failed") /\ UNCHANGED <<changing, on>>
    /\ UNCHANGED <<ledger, default, records, inconsistent, previous, disposal>>

\* Mutant: a switch only asks whether the session is live.
MaySwitchUnseen(r) == Live(r)

MaySwitch(r) == Live(r) /\ r \notin inTurn /\ ~log.locked

Target(x) == IF Explicit[x] = None THEN composed[on[x]] ELSE Explicit[x]
Switching(x) == Target(x) # composed[on[x]]

\* The requested preset is resolved; one that stays is only remembered.
Looked(x) ==
    LET r == on[x] IN
    /\ pc[x] = "looking"
    /\ \E found \in MayOrFail("resolve") :
           IF \/ ~Live(r) \/ ~found
              \/ x \in Opens /\ Explicit[x] # None /\ r \in inTurn
              \/ Switching(x) /\ (log.locked \/ (x \in Commands /\ r \in inTurn))
           THEN End(x, "failed")
           ELSE Goto(x, IF x \in Opens \/ Switching(x) THEN "choosing" ELSE "remembering")
                /\ UNCHANGED changing
    /\ UNCHANGED <<ledger, default, records, inconsistent, on, previous, disposal>>

\* The preset is composed for a load, or is one that can be switched in place:
\* swap, up to its first await.
Chosen(x) ==
    LET r == on[x] IN
    /\ pc[x] = "choosing"
    /\ \/ /\ Live(r) /\ ~Switching(x) /\ x \in Opens
          /\ IF x \in Remember THEN Goto(x, "remembering") /\ UNCHANGED changing
                             ELSE End(x, "reloading")
       \/ /\ Switching(x) /\ MaySwitch(r)
          /\ x \in Commands => {Target(x), composed[r]} \cap Team = {}
          /\ Goto(x, "recomposing")
          /\ UNCHANGED changing
       \/ /\ \/ ~Live(r)
             \/ x \in Opens /\ "resolve" \in Faults
             \/ x \in Commands /\ {Target(x), composed[r]} \cap Team # {}
             \/ Switching(x) /\ ~MaySwitch(r)
          /\ End(x, "failed")
    /\ previous' = [previous EXCEPT ![x] = composed[r]]
    /\ UNCHANGED <<ledger, default, records, inconsistent, on, disposal>>

\* The agent has the new preset. It is appended unless the session was closed, or
\* started a turn, meanwhile.
Recomposed(x) ==
    LET r == on[x] IN
    /\ pc[x] = "recomposing"
    /\ \/ /\ "recompose" \in Faults
          /\ End(x, "failed")
          /\ UNCHANGED <<ledger, composed>>
       \/ /\ Compose(r, Explicit[x])
          /\ \E appended \in MayOrFail("append") :
                 IF MaySwitch(r) /\ appended
                 THEN /\ log' = [log EXCEPT !.selected = Explicit[x]]
                      /\ Goto(x, "flushing")
                 ELSE /\ Goto(x, "restoring")
                      /\ UNCHANGED log
          /\ UNCHANGED <<saved, undone, changing>>
    /\ UNCHANGED <<default, status, inTurn, inconsistent, on, previous, disposal>>

\* The flush of swap; without it the switch is taken back.
Flushed(x) ==
    LET r == on[x] IN
    /\ pc[x] = "flushing"
    /\ \/ /\ saved' = log.selected
          /\ undone' = FALSE
          /\ IF ~Live(r) THEN End(x, "failed")
             ELSE IF x \in Remember THEN Goto(x, "remembering") /\ UNCHANGED changing
             ELSE End(x, "reloading")
       \/ /\ "flush" \in Faults
          /\ undone' = TRUE
          /\ Goto(x, "restoring")
          /\ UNCHANGED <<saved, changing>>
    /\ UNCHANGED <<log, default, records, inconsistent, on, previous, disposal>>

\* The rollback of swap
Restored(x) ==
    /\ pc[x] = "restoring"
    /\ End(x, "failed")
    /\ \/ /\ Compose(on[x], previous[x])
          /\ UNCHANGED inconsistent
       \/ /\ "recompose" \in Faults
          /\ inconsistent' = inconsistent \cup {on[x]}
          /\ UNCHANGED composed
    /\ UNCHANGED <<ledger, default, status, inTurn, on, previous, disposal>>

\* remember settles, for a live session and then for one that is not published.
Remembered(x) ==
    /\ pc[x] = "remembering"
    /\ \E kept \in MayOrFail("remember") :
           /\ default' = IF kept THEN Explicit[x] ELSE default
           /\ IF ~kept \/ ~Live(on[x]) THEN End(x, "failed")
              ELSE End(x, IF x \in Commands THEN "done" ELSE "reloading")
    /\ UNCHANGED <<ledger, records, inconsistent, on, previous, disposal>>

\* reload: the record is retired once it is idle and its log is flushed.
Reloaded(x) ==
    LET r == on[x] IN
    /\ pc[x] = "reloading" /\ (Live(r) => r \notin inTurn)
    /\ IF Live(r)
       THEN \/ /\ saved' = log.selected
               /\ status' = [status EXCEPT ![r] = "closing"]
               /\ previous' = [previous EXCEPT ![x] = Target(x)]
               /\ Goto(x, "replacing")
            \/ /\ "flush" \in Faults
               /\ Goto(x, "failed")
               /\ UNCHANGED <<saved, status, previous>>
       ELSE Goto(x, "failed") /\ UNCHANGED <<saved, status, previous>>
    /\ UNCHANGED <<log, undone, default, composed, inTurn, changing, inconsistent, on, disposal>>

-----------------------------------------------------------------------------
(* Opening the session *)

Cold == \A r \in Opens : status[r] \in {"none", "closed"}

\* newSession, and loadSession of a session that is not live: the preset is the
\* one that is asked for, the one of the log, or the default.
Prepare(x) ==
    LET chosen == CASE Explicit[x] # None -> Explicit[x]
                    [] Explicit[x] = None /\ log # None -> log.selected
                    [] OTHER -> default
    IN  /\ pc[x] = "idle" /\ x \in Opens /\ ~PresetsClosed /\ Cold
        /\ \A o \in Opens : pc[o] \in Settled
        /\ \E found \in MayOrFail("resolve") :
               IF \/ ~found
                  \/ (log = None) # (x \in Creates)
                  \/ log # None /\ chosen # log.selected /\ log.locked
               THEN Goto(x, "failed") /\ UNCHANGED previous
               ELSE Goto(x, "creating") /\ previous' = [previous EXCEPT ![x] = chosen]
        /\ UNCHANGED <<ledger, default, records, changing, inconsistent, on, disposal>>

\* The native agent is created with the preset; its header names the one of a
\* new session.
Created(x) ==
    /\ pc[x] \in {"creating", "replacing"} /\ Cold
    /\ IF PresetsClosed
       THEN Goto(x, "failed") /\ UNCHANGED <<ledger, status, composed>>
       ELSE \/ /\ status' = [status EXCEPT ![x] = "attached"]
               /\ Compose(x, previous[x])
               /\ log' = IF log = None THEN [selected |-> previous[x], locked |-> FALSE] ELSE log
               /\ saved' = IF log = None THEN previous[x] ELSE saved
               /\ undone' = (undone /\ pc[x] = "replacing")
               /\ Goto(x, IF pc[x] = "replacing" THEN "publishing" ELSE "committing")
            \/ /\ "create" \in Faults
               /\ Goto(x, "failed")
               /\ UNCHANGED <<ledger, status, composed>>
    /\ UNCHANGED <<default, inTurn, changing, inconsistent, on, previous, disposal>>

Discard(x) == Goto(x, "failed") /\ status' = [status EXCEPT ![x] = "closing"]

AfterCommit(x) == IF x \in Remember THEN "keeping" ELSE "publishing"

\* commit: a preset that the log does not have is appended.
Commit(x) ==
    /\ pc[x] = "committing"
    /\ IF PresetsClosed THEN Discard(x) /\ UNCHANGED log
       ELSE IF log.selected = composed[x]
       THEN Goto(x, AfterCommit(x)) /\ UNCHANGED <<log, status>>
       ELSE \E appended \in MayOrFail("append") :
                IF appended
                THEN /\ log' = [log EXCEPT !.selected = composed[x]]
                     /\ Goto(x, "securing")
                     /\ UNCHANGED status
                ELSE Discard(x) /\ UNCHANGED log
    /\ UNCHANGED <<saved, undone, default, composed, inTurn, changing, inconsistent, on,
                   previous, disposal>>

Secured(x) ==
    /\ pc[x] = "securing"
    /\ \/ /\ saved' = log.selected
          /\ IF AfterCommit(x) = "keeping" /\ PresetsClosed THEN Discard(x)
             ELSE Goto(x, AfterCommit(x)) /\ UNCHANGED status
       \/ /\ "flush" \in Faults
          /\ Discard(x)
          /\ UNCHANGED saved
    /\ UNCHANGED <<log, undone, default, composed, inTurn, changing, inconsistent, on,
                   previous, disposal>>

Kept(x) ==
    /\ pc[x] = "keeping"
    /\ \/ /\ default' = Explicit[x]
          /\ Goto(x, "publishing")
          /\ UNCHANGED status
       \/ /\ "remember" \in Faults
          /\ Discard(x)
          /\ UNCHANGED default
    /\ UNCHANGED <<ledger, composed, inTurn, changing, inconsistent, on, previous, disposal>>

Publish(x) ==
    /\ pc[x] = "publishing"
    /\ IF PresetsClosed THEN Discard(x)
       ELSE Goto(x, "done") /\ status' = [status EXCEPT ![x] = "live"]
    /\ UNCHANGED <<ledger, default, composed, inTurn, changing, inconsistent, on, previous,
                   disposal>>

-----------------------------------------------------------------------------
(* The agent, and the end of a record *)

\* A turn starts: by a prompt, or by the agent itself at any time.
StartTurn(r) ==
    /\ Live(r) /\ r \notin inTurn
    /\ inTurn' = inTurn \cup {r}
    /\ UNCHANGED <<ledger, default, status, composed, changing, inconsistent, pc, on, previous,
                   disposal>>

\* It leaves history, unless it has failed before.
EndTurn(r) ==
    /\ r \in inTurn
    /\ inTurn' = inTurn \ {r}
    /\ \E history \in {TRUE, log.locked} : log' = [log EXCEPT !.locked = history]
    /\ UNCHANGED <<saved, undone, default, status, composed, changing, inconsistent, pc, on,
                   previous, disposal>>

Close(r) ==
    /\ status[r] = "live"
    /\ status' = [status EXCEPT ![r] = "closing"]
    /\ UNCHANGED <<ledger, default, composed, inTurn, changing, inconsistent, pc, on, previous,
                   disposal>>

\* drain of the changes that the record has accepted
Drained(r) == \A x \in Requests : on[x] = r => pc[x] \in Settled \cup {"reloading", "replacing"}

\* The turn is over, the changes have settled and the agent is released. What
\* could not be flushed may be lost with it.
ReleaseRecord(r) ==
    /\ status[r] = "closing" /\ r \notin inTurn /\ Drained(r)
    /\ status' = [status EXCEPT ![r] = "closed"]
    /\ \E kept \in {log.selected} \cup (IF "flush" \in Faults THEN {saved} ELSE {}) :
           /\ log' = [log EXCEPT !.selected = kept]
           /\ saved' = kept
    /\ UNCHANGED <<undone, default, composed, inTurn, changing, inconsistent, pc, on, previous,
                   disposal>>

Dispose ==
    /\ disposal = "open"
    /\ disposal' = "draining"
    /\ status' = [r \in Opens |-> IF status[r] = "live" THEN "closing" ELSE status[r]]
    /\ UNCHANGED <<ledger, default, composed, inTurn, changing, inconsistent, pc, on, previous>>

Disposed ==
    /\ disposal = "draining"
    /\ Cold /\ \A x \in Requests : pc[x] \in Settled
    /\ disposal' = "done"
    /\ UNCHANGED <<ledger, default, records, changing, inconsistent, pc, on, previous>>

-----------------------------------------------------------------------------
InitPresets ==
    /\ log \in Stored
    /\ saved = IF log = None THEN None ELSE log.selected
    /\ undone = FALSE
    /\ default = Standard
    /\ status = [r \in Opens |-> "none"]
    /\ composed = [r \in Opens |-> None]
    /\ inTurn = {} /\ changing = {} /\ inconsistent = {}
    /\ pc = [x \in Requests |-> "idle"]
    /\ on = [x \in Requests |-> None]
    /\ previous = [x \in Requests |-> None]
    /\ disposal = "open"

ChangeStep(x) ==
    Looked(x) \/ Chosen(x) \/ Recomposed(x) \/ Flushed(x) \/ Restored(x) \/ Remembered(x)
OpenStep(x) ==
    x \in Opens /\ (Reloaded(x) \/ Created(x) \/ Commit(x) \/ Secured(x) \/ Kept(x) \/ Publish(x))
RequestStep(x) == ChangeStep(x) \/ OpenStep(x)
RecordStep(r) == EndTurn(r) \/ ReleaseRecord(r)

NextPresets ==
    \/ \E x \in Requests : RequestStep(x)
    \/ \E r \in Opens : RecordStep(r)
    \/ \E x \in Commands, r \in Opens : Command(x, r)
    \/ \E x, r \in Opens : LoadLive(x, r)
    \/ \E x \in Opens : Prepare(x)
    \/ \E r \in Opens : StartTurn(r) \/ Close(r)
    \/ Dispose \/ Disposed

SpecPresets == InitPresets /\ [][NextPresets]_presetVars

\* What was accepted goes on, turns end and the records that are closed drain.
FairPresets ==
    /\ \A x \in Requests : WF_presetVars(RequestStep(x))
    /\ \A r \in Opens : WF_presetVars(RecordStep(r))
    /\ WF_presetVars(Disposed)

-----------------------------------------------------------------------------
(* Properties *)

Phases == Settled \cup {"looking", "choosing", "recomposing", "flushing", "restoring",
    "remembering", "reloading", "replacing", "creating", "committing", "securing", "keeping",
    "publishing"}

TypeOK ==
    /\ log \in [selected : Presets, locked : BOOLEAN] \cup {None}
    /\ saved \in Presets \cup {None} /\ undone \in BOOLEAN
    /\ default \in Presets
    /\ status \in [Opens -> {"none", "attached", "live", "closing", "closed"}]
    /\ composed \in [Opens -> Presets \cup {None}]
    /\ inTurn \subseteq Opens /\ changing \subseteq Opens /\ inconsistent \subseteq Opens
    /\ pc \in [Requests -> Phases]
    /\ on \in [Requests -> Opens \cup {None}]
    /\ previous \in [Requests -> Presets \cup {None}]
    /\ disposal \in {"open", "draining", "done"}

\* Whenever no change is under way, the agent of a live session is composed of the
\* preset that its log names, through switches that were taken back in the middle
\* of others, turns, closes and reloads; unless the session is marked as
\* inconsistent, or a switch was taken back that the log already had.
ComposedAsLogged ==
    \A r \in Opens : Live(r) /\ r \notin changing \cup inconsistent =>
        composed[r] = log.selected \/ undone

\* The preset of a session that has history, or whose agent runs a turn, stays.
\* What is lost when a log could not be flushed is no switch.
SwitchesOnlyBlank ==
    [][\/ log = None \/ log'.selected = log.selected
       \/ ~log.locked /\ inTurn = {}
       \/ \E r \in Opens : status[r] = "closing" /\ status'[r] = "closed"]_presetVars

\* No change keeps a session from its prompts for ever, and the disposal of the
\* leader ends, whatever fails.
ChangesEnd == []<>(changing = {}) /\ []<>(disposal # "draining")

\* What a switch may change, and that it comes to its end.
SwitchesAreSound == SwitchesOnlyBlank /\ ChangesEnd
=============================================================================
