-------------------------- MODULE LeaderServicesProofs --------------------------
(* Theorems about services of the leader: the presets of the sessions           *)
(* (SessionPresets), the calls that its clients make through it (RemoteChannel),*)
(* the Tasks pane (NativeTasks) and the children of a session (NativeChildren), *)
(* for any presets, requests, calls, reminders, children, limits and faults.    *)
EXTENDS RemoteChannel, SessionPresets, NativeTasks, NativeChildren, FiniteSetTheorems, TLAPS

ChangePhases == {"looking", "choosing", "recomposing", "flushing", "restoring", "remembering"}
OpenPhases == {"committing", "securing", "keeping", "publishing"}

Busy(r) == status[r] \notin {"none", "closed"}
Changing(x) == pc[x] \in ChangePhases

Logs == [selected : Presets, locked : BOOLEAN]

\* Type invariant, with what each phase knows about the presets that it handles.
Typing ==
    /\ TypeOK
    /\ log # None => saved \in Presets
    /\ \A r \in Opens : Busy(r) => composed[r] \in Presets
    /\ \A x \in Requests : pc[x] \in {"recomposing", "flushing", "restoring", "replacing", "creating"}
            => previous[x] \in Presets
    /\ \A x \in Requests : pc[x] \in {"remembering", "keeping"} => x \in Remember
    /\ \A x \in Requests : pc[x] \in ChangePhases \cup {"reloading", "replacing"} => on[x] \in Opens

-----------------------------------------------------------------------------
(* The inductive invariant *)

\* One record at a time has an agent, and one request at a time opens one.
OneRecord == \A r, s \in Opens : Busy(r) /\ Busy(s) => r = s
OneOpening == \A x, y \in Opens : pc[x] \notin Settled /\ pc[y] \notin Settled => x = y
Attached == \A x \in Opens : (pc[x] \in OpenPhases) = (status[x] = "attached")
CommandPhases == \A x \in Commands : pc[x] \in Settled \cup ChangePhases

\* One change at a time is under way, of a record that is not gone; while it is,
\* its record is behind the barrier.
Barrier ==
    /\ \A x \in Requests : Changing(x) =>
            /\ on[x] \in changing \ inconsistent
            /\ status[on[x]] \in {"live", "closing"}
    /\ \A x, y \in Requests : Changing(x) /\ Changing(y) => x = y

InLog == (\E r \in Opens : Busy(r)) => log # None
Turning == \A r \in inTurn : status[r] \in {"live", "closing"}

Named(p) == p = log.selected \/ undone

\* What a change knows of the agent and of the log
Change(x) ==
    LET r == on[x] IN
    /\ pc[x] = "recomposing" => previous[x] = composed[r] /\ Explicit[x] # None
    /\ pc[x] = "flushing" => composed[r] = log.selected /\ composed[r] = Explicit[x]
    /\ pc[x] = "restoring" /\ status[r] = "live" => Named(previous[x])
    /\ pc[x] = "remembering" => composed[r] = Target(x)

\* What a load that replaces a record, and a request that opens one, know
Opening(x) ==
    LET r == on[x] IN
    /\ pc[x] = "reloading" /\ status[r] = "live" =>
            composed[r] = Target(x) /\ r \notin changing \cup inconsistent
    /\ pc[x] = "replacing" =>
            /\ Named(previous[x]) /\ saved = log.selected /\ log # None
            /\ \A s \in Opens : Busy(s) => s = r /\ status[s] = "closing"
            /\ \A y \in Requests : ~Changing(y)
    /\ pc[x] = "creating" =>
            /\ Cold
            /\ (log # None /\ log.selected # previous[x]) => ~log.locked
    /\ pc[x] = "committing" /\ composed[x] # log.selected => ~log.locked
    /\ pc[x] \in {"securing", "keeping", "publishing"} => Named(composed[x])

Composed ==
    \A r \in Opens :
        status[r] = "live" /\ r \notin inconsistent
            /\ (\A x \in Requests : pc[x] = "restoring" => on[x] # r)
        => Named(composed[r])

PresetInv ==
    /\ OneRecord /\ OneOpening /\ Attached /\ CommandPhases /\ Barrier /\ InLog /\ Turning
    /\ \A x \in Requests : Change(x)
    /\ \A x \in Opens : Opening(x)
    /\ Composed

Inv == Typing /\ PresetInv

-----------------------------------------------------------------------------
(* What the steps leave *)

LEMMA PresetFacts ==
    /\ Team \subseteq Presets /\ Standard \in Presets /\ None \notin Presets /\ None \notin Logs
    /\ None \notin Opens /\ Opens \cap Commands = {}
    /\ \A x \in Opens : x \in Requests /\ x \notin Commands
    /\ \A x \in Commands : x \in Requests /\ x \in Remember /\ x \notin Opens
    /\ \A x \in Requests : x \in Opens \/ x \in Commands
    /\ \A x \in Requests : Explicit[x] \in Presets \cup {None}
    /\ \A x \in Remember : x \in Requests /\ Explicit[x] \in Presets
  BY PresetAssumption DEF Requests, Logs

LEMMA GotoMoves ==
    ASSUME TypeOK, NEW x \in Requests, NEW next, Goto(x, next)
    PROVE  /\ pc'[x] = next
           /\ \A y \in Requests : y # x => pc'[y] = pc[y]
  BY DEF TypeOK, Goto

LEMMA TypeParts ==
    ASSUME Inv
    PROVE  /\ log \in Logs \cup {None} /\ saved \in Presets \cup {None} /\ undone \in BOOLEAN
           /\ default \in Presets
           /\ status \in [Opens -> {"none", "attached", "live", "closing", "closed"}]
           /\ composed \in [Opens -> Presets \cup {None}]
           /\ inTurn \subseteq Opens /\ changing \subseteq Opens /\ inconsistent \subseteq Opens
           /\ pc \in [Requests -> Phases] /\ on \in [Requests -> Opens \cup {None}]
           /\ previous \in [Requests -> Presets \cup {None}]
           /\ disposal \in {"open", "draining", "done"}
  BY DEF Inv, Typing, TypeOK, Logs

\* The record that a change is about
LEMMA ChangeParts ==
    ASSUME Inv, NEW x \in Requests, Changing(x)
    PROVE  /\ on[x] \in Opens /\ Busy(on[x]) /\ composed[on[x]] \in Presets
           /\ on[x] \in changing /\ on[x] \notin inconsistent
           /\ status[on[x]] \in {"live", "closing"}
           /\ log \in Logs /\ log # None /\ saved \in Presets
           /\ \A r \in Opens : Busy(r) => r = on[x]
           /\ \A y \in Requests : y # x => ~Changing(y)
           /\ \A y \in Opens : pc[y] \notin OpenPhases \cup {"replacing", "creating"}
           /\ \A y \in Opens : pc[y] = "reloading" => y # x /\ status[on[y]] # "live"
<1>1. /\ on[x] \in changing /\ on[x] \notin inconsistent /\ status[on[x]] \in {"live", "closing"}
      /\ on[x] \in Opens /\ Busy(on[x])
  BY TypeParts DEF Inv, PresetInv, Barrier, Busy
<1>2. log # None /\ log \in Logs /\ saved \in Presets /\ composed[on[x]] \in Presets
  BY <1>1, TypeParts DEF Inv, PresetInv, InLog, Typing
<1>3. /\ \A r \in Opens : Busy(r) => r = on[x]
      /\ \A y \in Requests : y # x => ~Changing(y)
  BY <1>1 DEF Inv, PresetInv, OneRecord, Barrier
<1>4. \A y \in Opens : pc[y] \notin OpenPhases \cup {"replacing", "creating"}
  BY <1>1, <1>3 DEF Inv, PresetInv, Attached, Opening, Cold, Busy
<1>5. \A y \in Opens : pc[y] = "reloading" => y # x /\ status[on[y]] # "live"
  <2> SUFFICES ASSUME NEW y \in Opens, pc[y] = "reloading"
               PROVE  y # x /\ status[on[y]] # "live"
    OBVIOUS
  <2>1. y # x
    BY DEF Changing, ChangePhases
  <2>2. on[y] \in Opens /\ (status[on[y]] = "live" => on[y] \notin changing)
    BY PresetFacts DEF Inv, Typing, PresetInv, Opening
  <2>3. on[y] = on[x] => status[on[y]] # "live"
    BY <1>1, <2>2
  <2>4. on[y] # on[x] => status[on[y]] # "live"
    BY <1>3, <2>2 DEF Busy
  <2> QED BY <2>1, <2>3, <2>4
<1> QED BY <1>1, <1>2, <1>3, <1>4, <1>5

-----------------------------------------------------------------------------
(* Changes of a live session *)

\* What every step of a change leaves: it moves on, or ends and lifts its barrier.
Moves(x, next) ==
    /\ Goto(x, next)
    /\ UNCHANGED <<status, inTurn, on, disposal>>
    /\ \/ next \in ChangePhases /\ UNCHANGED <<changing, inconsistent>>
       \/ /\ next \in {"done", "failed"} \/ (next = "reloading" /\ x \in Opens)
          /\ changing' = changing \ {on[x]}
          /\ inconsistent' \in {inconsistent, inconsistent \cup {on[x]}}

\* The agent that a change leaves
Agrees(x) ==
    status[on[x]] = "live" /\ on[x] \notin inconsistent /\ pc[x] # "restoring"
        => Named(composed[on[x]])

LEMMA ChangeFrame ==
    ASSUME Inv, NEW x \in Requests, Changing(x), NEW next, Moves(x, next),
           log' \in Logs, saved' \in Presets, undone' \in BOOLEAN, default' \in Presets,
           composed' \in [Opens -> Presets \cup {None}], composed'[on[x]] \in Presets,
           \A s \in Opens : s # on[x] => composed'[s] = composed[s],
           previous' \in [Requests -> Presets \cup {None}],
           \A y \in Requests : y # x => previous'[y] = previous[y],
           next \in {"recomposing", "flushing", "restoring"} => previous'[x] \in Presets,
           next = "remembering" => x \in Remember,
           Change(x)', next = "reloading" => Opening(x)',
           Agrees(x)'
    PROVE  Inv'
<1>1. pc'[x] = next /\ \A y \in Requests : y # x => pc'[y] = pc[y]
  BY GotoMoves DEF Inv, Typing, Moves
<1>2. next \in Phases /\ pc' \in [Requests -> Phases]
  BY TypeParts DEF Moves, Goto, Phases, Settled, ChangePhases
<1>3. TypeOK'
  BY <1>2, TypeParts, ChangeParts DEF TypeOK, Moves, Logs
<1>4. Typing'
  BY <1>1, <1>3, TypeParts, ChangeParts, PresetFacts
     DEF Inv, Typing, Moves, Logs, Busy, ChangePhases
<1>5. OneRecord' /\ InLog' /\ Turning'
  BY ChangeParts, PresetFacts, TypeParts
     DEF Inv, PresetInv, OneRecord, InLog, Turning, Moves, Busy, Logs
<1>6. OneOpening' /\ Attached' /\ CommandPhases'
  BY <1>1, ChangeParts, PresetFacts DEF Inv, PresetInv, OneOpening, Attached,
     CommandPhases, Moves, Settled, OpenPhases, ChangePhases, Changing
<1>7. Barrier'
  BY <1>1, ChangeParts, TypeParts DEF Inv, PresetInv, Barrier, Moves, Changing, ChangePhases
<1>8. \A y \in Requests : Change(y)'
  <2> SUFFICES ASSUME NEW y \in Requests, y # x PROVE Change(y)'
    OBVIOUS
  <2> QED BY <1>1, ChangeParts DEF Change, Changing, ChangePhases
<1>9. \A y \in Opens : Opening(y)'
  <2> SUFFICES ASSUME NEW y \in Opens PROVE Opening(y)'
    OBVIOUS
  <2>1. CASE y = x
    BY <2>1, <1>1 DEF Opening, Moves, ChangePhases
  <2>2. CASE y # x
    BY <2>2, <1>1, ChangeParts, PresetFacts DEF Opening, Moves, OpenPhases
  <2> QED BY <2>1, <2>2
<1>10. Composed'
  BY <1>1, ChangeParts, TypeParts DEF Composed, Agrees, Named, Moves, Busy
<1> QED BY <1>4, <1>5, <1>6, <1>7, <1>8, <1>9, <1>10 DEF Inv, PresetInv

LEMMA LookedKeeps == ASSUME Inv, NEW x \in Requests, Looked(x) PROVE Inv'
<1>1. Changing(x) /\ pc[x] = "looking"
  BY DEF Looked, Changing, ChangePhases
<1>2. UNCHANGED <<ledger, default, records, inconsistent, on, previous, disposal>>
  BY DEF Looked
<1>3. Named(composed[on[x]]) \/ status[on[x]] # "live"
  BY <1>1, ChangeParts DEF Inv, PresetInv, Composed, Changing, ChangePhases
<1>4. \/ Goto(x, "failed") /\ changing' = changing \ {on[x]}
      \/ Goto(x, "choosing") /\ UNCHANGED changing
      \/ Goto(x, "remembering") /\ UNCHANGED changing /\ x \in Commands /\ ~Switching(x)
  BY PresetFacts DEF Looked, End, Lifted
<1>5. ASSUME NEW next \in {"failed", "choosing", "remembering"}, Moves(x, next),
             next = "remembering" => x \in Commands /\ ~Switching(x)
      PROVE  Inv'
  <2>1. pc'[x] = next
    BY <1>5, GotoMoves DEF Inv, Typing, Moves
  <2>2. Change(x)'
    BY <2>1, <1>2, <1>5 DEF Change, Switching, Target, records
  <2>3. Agrees(x)'
    BY <1>2, <1>3, <1>5 DEF Agrees, Moves, ledger, records, Named
  <2> QED BY <2>2, <2>3, <1>1, <1>2, <1>5, ChangeFrame, TypeParts, ChangeParts, PresetFacts
          DEF ledger, records, Named
<1> QED BY <1>2, <1>4, <1>5 DEF Moves, ChangePhases, records

LEMMA ChosenKeeps == ASSUME Inv, NEW x \in Requests, Chosen(x) PROVE Inv'
<1>1. Changing(x) /\ pc[x] = "choosing"
  BY DEF Chosen, Changing, ChangePhases
<1>2. /\ UNCHANGED <<ledger, default, records, inconsistent, on, disposal>>
      /\ previous' = [previous EXCEPT ![x] = composed[on[x]]]
  BY DEF Chosen
<1>3. Named(composed[on[x]]) \/ status[on[x]] # "live"
  BY <1>1, ChangeParts DEF Inv, PresetInv, Composed, Changing, ChangePhases
<1>4. \/ Goto(x, "failed") /\ changing' = changing \ {on[x]}
      \/ /\ Goto(x, "reloading") /\ changing' = changing \ {on[x]}
         /\ x \in Opens /\ ~Switching(x)
      \/ Goto(x, "remembering") /\ UNCHANGED changing /\ x \in Remember /\ ~Switching(x)
      \/ Goto(x, "recomposing") /\ UNCHANGED changing /\ Switching(x)
  BY PresetFacts DEF Chosen, End, Lifted
<1>5. ASSUME NEW next \in {"failed", "reloading", "remembering", "recomposing"},
             Moves(x, next), next = "reloading" => x \in Opens,
             next = "remembering" => x \in Remember,
             next \in {"reloading", "remembering"} => ~Switching(x),
             next = "recomposing" => Switching(x)
      PROVE  Inv'
  <2>1. pc'[x] = next
    BY <1>5, GotoMoves DEF Inv, Typing, Moves
  <2>2. /\ previous' \in [Requests -> Presets \cup {None}] /\ previous'[x] = composed[on[x]]
        /\ \A y \in Requests : y # x => previous'[y] = previous[y]
    BY <1>1, <1>2, TypeParts, ChangeParts
  <2>3. Change(x)'
    BY <2>1, <2>2, <1>2, <1>5 DEF Change, Switching, Target, records
  <2>4. next = "reloading" => Opening(x)'
    BY <2>1, <1>1, <1>2, <1>5, ChangeParts
       DEF Opening, OpenPhases, Switching, Target, Moves, ChangePhases, records
  <2>5. Agrees(x)'
    BY <1>2, <1>3, <1>5 DEF Agrees, Moves, ledger, records, Named
  <2> QED BY <2>2, <2>3, <2>4, <2>5, <1>1, <1>2, <1>5, ChangeFrame, TypeParts, ChangeParts
          DEF ledger, records
<1> QED BY <1>2, <1>4, <1>5 DEF Moves, ChangePhases, records

LEMMA RecomposedKeeps == ASSUME Inv, NEW x \in Requests, Recomposed(x) PROVE Inv'
<1>1. Changing(x) /\ pc[x] = "recomposing" /\ previous[x] = composed[on[x]]
      /\ Explicit[x] \in Presets
  BY PresetFacts DEF Recomposed, Changing, ChangePhases, Inv, PresetInv, Change
<1>2. /\ UNCHANGED <<default, status, inTurn, inconsistent, on, previous, disposal, saved, undone>>
  BY DEF Recomposed, ledger
<1>3. Named(composed[on[x]]) \/ status[on[x]] # "live"
  BY <1>1, ChangeParts DEF Inv, PresetInv, Composed, Changing, ChangePhases
<1>4. CASE End(x, "failed") /\ UNCHANGED <<ledger, composed>>
  <2>1. pc'[x] = "failed" /\ Moves(x, "failed")
    BY <1>2, <1>4, GotoMoves DEF Inv, Typing, Moves, End, Lifted
  <2>2. Change(x)' /\ Agrees(x)'
    BY <2>1, <1>2, <1>3, <1>4 DEF Change, Agrees, Named, ledger
  <2> QED BY <2>1, <2>2, <1>1, <1>2, <1>4, ChangeFrame, TypeParts, ChangeParts DEF ledger
<1>5. CASE /\ Compose(on[x], Explicit[x]) /\ UNCHANGED changing
           /\ log' = [log EXCEPT !.selected = Explicit[x]] /\ Goto(x, "flushing")
  <2>1. pc'[x] = "flushing" /\ Moves(x, "flushing")
    BY <1>2, <1>5, GotoMoves DEF Inv, Typing, Moves, ChangePhases
  <2>2. /\ composed' \in [Opens -> Presets \cup {None}] /\ composed'[on[x]] = Explicit[x]
        /\ \A s \in Opens : s # on[x] => composed'[s] = composed[s]
        /\ log' \in Logs /\ log'.selected = Explicit[x]
    BY <1>1, <1>5, TypeParts, ChangeParts DEF Compose, Logs
  <2>3. Change(x)' /\ Agrees(x)'
    BY <2>1, <2>2, <1>2 DEF Change, Agrees, Named
  <2> QED BY <2>1, <2>2, <2>3, <1>1, <1>2, ChangeFrame, TypeParts, ChangeParts DEF Inv, Typing
<1>6. CASE /\ Compose(on[x], Explicit[x]) /\ UNCHANGED <<changing, log>> /\ Goto(x, "restoring")
  <2>1. pc'[x] = "restoring" /\ Moves(x, "restoring")
    BY <1>2, <1>6, GotoMoves DEF Inv, Typing, Moves, ChangePhases
  <2>2. /\ composed' \in [Opens -> Presets \cup {None}] /\ composed'[on[x]] = Explicit[x]
        /\ \A s \in Opens : s # on[x] => composed'[s] = composed[s]
    BY <1>1, <1>6, TypeParts, ChangeParts DEF Compose
  <2>3. Change(x)' /\ Agrees(x)'
    BY <2>1, <2>2, <1>1, <1>2, <1>3, <1>6 DEF Change, Agrees, Named
  <2> QED BY <2>1, <2>2, <2>3, <1>1, <1>2, <1>6, ChangeFrame, TypeParts, ChangeParts
          DEF Inv, Typing
<1> QED BY <1>4, <1>5, <1>6 DEF Recomposed

LEMMA FlushedKeeps == ASSUME Inv, NEW x \in Requests, Flushed(x) PROVE Inv'
<1>1. /\ Changing(x) /\ pc[x] = "flushing" /\ composed[on[x]] = log.selected
      /\ composed[on[x]] = Explicit[x] /\ previous[x] \in Presets
  BY DEF Flushed, Changing, ChangePhases, Inv, PresetInv, Change, Typing
<1>2. /\ UNCHANGED <<log, default, records, inconsistent, on, previous, disposal>>
      /\ saved' \in {saved, log.selected} /\ undone' \in BOOLEAN
  BY DEF Flushed
<1>3. \/ /\ Goto(x, "restoring") /\ UNCHANGED changing /\ undone' = TRUE
      \/ /\ undone' = FALSE
         /\ \/ Goto(x, "failed") /\ changing' = changing \ {on[x]}
            \/ Goto(x, "remembering") /\ UNCHANGED changing /\ x \in Remember
            \/ Goto(x, "reloading") /\ changing' = changing \ {on[x]} /\ x \in Opens
  BY PresetFacts DEF Flushed, End, Lifted
<1>4. ASSUME NEW next \in {"failed", "restoring", "remembering", "reloading"}, Moves(x, next),
             next = "restoring" => undone' = TRUE,
             next = "remembering" => x \in Remember, next = "reloading" => x \in Opens
      PROVE  Inv'
  <2>1. pc'[x] = next
    BY <1>4, GotoMoves DEF Inv, Typing, Moves
  <2>2. Change(x)' /\ Agrees(x)'
    BY <2>1, <1>1, <1>2, <1>4, PresetFacts DEF Change, Agrees, Named, Target, records
  <2>3. next = "reloading" => Opening(x)'
    BY <2>1, <1>1, <1>2, <1>4, ChangeParts, TypeParts, PresetFacts
       DEF Opening, OpenPhases, Target, Moves, ChangePhases, records
  <2>4. log' \in Logs /\ saved' \in Presets
    BY <1>1, <1>2, ChangeParts
  <2> QED BY <2>2, <2>3, <2>4, <1>1, <1>2, <1>4, ChangeFrame, TypeParts, ChangeParts
          DEF records
<1> QED BY <1>2, <1>3, <1>4 DEF Moves, ChangePhases, records

LEMMA RestoredKeeps == ASSUME Inv, NEW x \in Requests, Restored(x) PROVE Inv'
<1>1. /\ Changing(x) /\ pc[x] = "restoring" /\ previous[x] \in Presets
      /\ status[on[x]] = "live" => Named(previous[x])
  BY DEF Restored, Changing, ChangePhases, Inv, PresetInv, Change, Typing
<1>2. /\ UNCHANGED <<ledger, default, status, inTurn, on, previous, disposal>>
      /\ Goto(x, "failed") /\ changing' = changing \ {on[x]}
  BY DEF Restored, End, Lifted
<1>3. \/ Compose(on[x], previous[x]) /\ UNCHANGED inconsistent
      \/ inconsistent' = inconsistent \cup {on[x]} /\ UNCHANGED composed
  BY DEF Restored
<1>4. pc'[x] = "failed" /\ Moves(x, "failed")
  BY <1>2, <1>3, GotoMoves DEF Inv, Typing, Moves
<1>5. /\ composed' \in [Opens -> Presets \cup {None}] /\ composed'[on[x]] \in Presets
      /\ \A s \in Opens : s # on[x] => composed'[s] = composed[s]
      /\ composed'[on[x]] = previous[x] \/ on[x] \in inconsistent'
  BY <1>1, <1>3, TypeParts, ChangeParts DEF Compose
<1>6. Change(x)' /\ Agrees(x)'
  BY <1>1, <1>2, <1>4, <1>5 DEF Change, Agrees, Named, ledger
<1> QED BY <1>1, <1>2, <1>4, <1>5, <1>6, ChangeFrame, TypeParts, ChangeParts DEF ledger

LEMMA RememberedKeeps == ASSUME Inv, NEW x \in Requests, Remembered(x) PROVE Inv'
<1>1. /\ Changing(x) /\ pc[x] = "remembering" /\ x \in Remember /\ Explicit[x] \in Presets
      /\ composed[on[x]] = Target(x)
  BY PresetFacts DEF Remembered, Changing, ChangePhases, Inv, PresetInv, Change, Typing
<1>2. /\ UNCHANGED <<ledger, records, inconsistent, on, previous, disposal>>
      /\ default' \in {default, Explicit[x]}
  BY DEF Remembered
<1>3. Named(composed[on[x]]) \/ status[on[x]] # "live"
  BY <1>1, ChangeParts DEF Inv, PresetInv, Composed, Changing, ChangePhases
<1>4. /\ changing' = changing \ {on[x]}
      /\ \/ Goto(x, "failed") \/ Goto(x, "done")
         \/ Goto(x, "reloading") /\ x \in Opens
  BY PresetFacts DEF Remembered, End, Lifted
<1>5. ASSUME NEW next \in {"failed", "done", "reloading"}, Moves(x, next),
             next = "reloading" => x \in Opens
      PROVE  Inv'
  <2>1. pc'[x] = next
    BY <1>5, GotoMoves DEF Inv, Typing, Moves
  <2>2. Change(x)' /\ Agrees(x)'
    BY <2>1, <1>2, <1>3, <1>5 DEF Change, Agrees, Named, ledger, records, Moves
  <2>3. next = "reloading" => Opening(x)'
    BY <2>1, <1>1, <1>2, <1>4, <1>5, ChangeParts
       DEF Opening, OpenPhases, Target, Moves, ChangePhases, records
  <2> QED BY <2>2, <2>3, <1>1, <1>2, <1>5, ChangeFrame, TypeParts, ChangeParts
          DEF ledger, records
<1> QED BY <1>2, <1>4, <1>5 DEF Moves, records

-----------------------------------------------------------------------------
(* Requests *)

rest == <<ledger, default, records, changing, inconsistent, on, disposal>>

\* A request that has changed nothing yet can fail.
LEMMA FailedKeeps ==
    ASSUME Inv, NEW x \in Requests, pc[x] \in {"idle", "reloading", "replacing", "creating"},
           Goto(x, "failed"), UNCHANGED <<rest, previous>>
    PROVE  Inv'
<1>1. pc'[x] = "failed" /\ \A y \in Requests : y # x => pc'[y] = pc[y]
  BY GotoMoves DEF Inv, Typing
<1>2. TypeOK'
  BY TypeParts DEF TypeOK, Logs, Goto, Phases, Settled, rest, ledger, records
<1>3. Typing'
  BY <1>1, <1>2, TypeParts, PresetFacts
     DEF Inv, Typing, Busy, ChangePhases, rest, ledger, records
<1>4. OneRecord' /\ InLog' /\ Turning'
  BY DEF Inv, PresetInv, OneRecord, InLog, Turning, Busy, rest, ledger, records
<1>5. OneOpening' /\ Attached' /\ CommandPhases'
  BY <1>1, PresetFacts DEF Inv, PresetInv, OneOpening, Attached, CommandPhases, Settled,
     OpenPhases, ChangePhases, rest, records
<1>6. Barrier'
  BY <1>1 DEF Inv, PresetInv, Barrier, Changing, ChangePhases, rest, records
<1>7. \A y \in Requests : Change(y)'
  BY <1>1 DEF Inv, PresetInv, Change, Named, Target, rest, ledger, records
<1>8. \A y \in Opens : Opening(y)'
  <2> SUFFICES ASSUME NEW y \in Opens PROVE Opening(y)'
    OBVIOUS
  <2>1. CASE y = x
    BY <1>1, <2>1 DEF Opening
  <2>2. CASE y # x
    BY <1>1, <2>2, PresetFacts DEF Inv, PresetInv, Opening, Named, Target, Cold, Busy,
       Changing, ChangePhases, rest, ledger, records
  <2> QED BY <2>1, <2>2
<1>9. Composed'
  BY <1>1 DEF Inv, PresetInv, Composed, Named, rest, ledger, records
<1> QED BY <1>3, <1>4, <1>5, <1>6, <1>7, <1>8, <1>9 DEF Inv, PresetInv

\* A change of a live session is admitted.
LEMMA AdmittedKeeps ==
    ASSUME Inv, NEW x \in Requests, NEW r \in Owner, pc[x] = "idle", Ready(r), ~Reloading(r),
           x \in Opens => \A o \in Opens : pc[o] \in Settled,
           Goto(x, "looking"), changing' = changing \cup {r}, on' = [on EXCEPT ![x] = r],
           UNCHANGED <<ledger, default, records, inconsistent, previous, disposal>>
    PROVE  Inv'
<1>1. pc'[x] = "looking" /\ \A y \in Requests : y # x => pc'[y] = pc[y]
  BY GotoMoves DEF Inv, Typing
<1>2. on'[x] = r /\ \A y \in Requests : y # x => on'[y] = on[y]
  BY TypeParts
<1>3. r \in Opens /\ status[r] = "live" /\ r \notin inconsistent /\ r \notin changing
  BY DEF Owner, Ready, Live
<1>4. \A y \in Requests : ~Changing(y)
  BY <1>3, ChangeParts DEF Busy
<1>5. TypeOK'
  BY <1>3, TypeParts, PresetFacts DEF TypeOK, Logs, Goto, Phases, Settled, ledger, records
<1>6. Typing'
  BY <1>1, <1>2, <1>3, <1>5, TypeParts, PresetFacts
     DEF Inv, Typing, Busy, ChangePhases, ledger, records
<1>7. OneRecord' /\ InLog' /\ Turning'
  BY DEF Inv, PresetInv, OneRecord, InLog, Turning, Busy, ledger, records
<1>8. OneOpening' /\ Attached' /\ CommandPhases'
  BY <1>1, PresetFacts DEF Inv, PresetInv, OneOpening, Attached, CommandPhases, Settled,
     OpenPhases, ChangePhases, records
<1>9. Barrier'
  BY <1>1, <1>2, <1>3, <1>4 DEF Barrier, Changing, ChangePhases, records
<1>10. \A y \in Requests : Change(y)'
  BY <1>1, <1>4 DEF Change, Changing, ChangePhases
<1>11. \A y \in Opens : Opening(y)'
  <2> SUFFICES ASSUME NEW y \in Opens PROVE Opening(y)'
    OBVIOUS
  <2>1. CASE y = x
    BY <1>1, <2>1 DEF Opening
  <2>2. CASE y # x /\ pc[y] = "reloading"
    <3>1. on[y] \in Opens /\ on[y] # r
      BY <2>2, PresetFacts DEF Inv, Typing, Reloading
    <3>2. status[on[y]] # "live"
      BY <3>1, <1>3 DEF Inv, PresetInv, OneRecord, Busy
    <3> QED BY <1>1, <1>2, <2>2, <3>2, PresetFacts DEF Opening, records
  <2>3. CASE y # x /\ pc[y] # "reloading"
    <3>1. pc[y] # "replacing"
      BY <1>3 DEF Inv, PresetInv, Opening, Busy
    <3> QED BY <1>1, <1>2, <2>3, <3>1, PresetFacts
            DEF Inv, PresetInv, Opening, Named, Cold, ledger, records
  <2> QED BY <2>1, <2>2, <2>3
<1>12. Composed'
  BY <1>1, <1>4 DEF Inv, PresetInv, Composed, Named, Changing, ChangePhases, ledger, records
<1> QED BY <1>6, <1>7, <1>8, <1>9, <1>10, <1>11, <1>12 DEF Inv, PresetInv

LEMMA CommandKeeps ==
    ASSUME Inv, NEW x \in Commands, NEW r \in Opens, Command(x, r) PROVE Inv'
<1>1. x \in Requests /\ x \notin Opens
  BY PresetFacts
<1>2. CASE Ready(r) /\ ~Reloading(r)
  BY <1>1, <1>2, AdmittedKeeps DEF Command
<1>3. CASE ~(Ready(r) /\ ~Reloading(r))
  BY <1>1, <1>3, FailedKeeps DEF Command, rest
<1> QED BY <1>2, <1>3

LEMMA LoadLiveKeeps ==
    ASSUME Inv, NEW x \in Opens, NEW r \in Opens, LoadLive(x, r) PROVE Inv'
<1>1. x \in Requests /\ ~Reloading(r)
  BY PresetFacts DEF LoadLive, Reloading, Settled
<1>2. CASE Ready(r)
  BY <1>1, <1>2, AdmittedKeeps DEF LoadLive
<1>3. CASE ~Ready(r)
  BY <1>1, <1>3, FailedKeeps DEF LoadLive, rest
<1> QED BY <1>2, <1>3

-----------------------------------------------------------------------------
(* Opening the session *)

\* While a request creates an agent, or has one that is not published, nothing
\* else is under way.
LEMMA OpeningAlone ==
    ASSUME Inv, NEW x \in Opens,
           (pc[x] \in {"creating", "replacing"} /\ Cold) \/ pc[x] \in OpenPhases
    PROVE  /\ \A s \in Opens : s # x => ~Busy(s)
           /\ status[x] \in {"none", "closed", "attached"}
           /\ pc[x] \in OpenPhases => status[x] = "attached" /\ log \in Logs
                                      /\ saved \in Presets /\ composed[x] \in Presets
           /\ \A y \in Requests : ~Changing(y)
           /\ \A y \in Opens : y # x => pc[y] \in Settled
           /\ inTurn = {}
<1>1. /\ status[x] \in {"none", "closed", "attached"} /\ \A s \in Opens : s # x => ~Busy(s)
      /\ pc[x] \in OpenPhases => status[x] = "attached"
  BY DEF Inv, PresetInv, Attached, OneRecord, Cold, Busy, OpenPhases
<1>2. pc[x] \in OpenPhases => log \in Logs /\ saved \in Presets /\ composed[x] \in Presets
  BY <1>1, TypeParts DEF Inv, PresetInv, InLog, Typing, Busy
<1>3. \A r \in Opens : status[r] \notin {"live", "closing"}
  BY <1>1 DEF Busy
<1>4. \A y \in Requests : ~Changing(y)
  BY <1>3, ChangeParts
<1>5. \A y \in Opens : y # x => pc[y] \in Settled
  BY DEF Inv, PresetInv, OneOpening, OpenPhases, Settled
<1>6. inTurn = {}
  BY <1>3, TypeParts DEF Inv, PresetInv, Turning
<1> QED BY <1>1, <1>2, <1>4, <1>5, <1>6

LEMMA OpenFrame ==
    ASSUME Inv, NEW x \in Opens,
           (pc[x] \in {"creating", "replacing"} /\ Cold) \/ pc[x] \in OpenPhases,
           NEW next, Goto(x, next),
           \/ next \in OpenPhases /\ status'[x] = "attached"
           \/ next \in {"done", "failed"} /\ status'[x] \in {"live", "closing"},
           status' = [status EXCEPT ![x] = status'[x]],
           log' \in Logs, saved' \in Presets, undone' \in BOOLEAN, default' \in Presets,
           composed' \in [Opens -> Presets \cup {None}], composed'[x] \in Presets,
           \A s \in Opens : s # x => composed'[s] = composed[s],
           UNCHANGED <<inTurn, changing, inconsistent, on, previous, disposal>>,
           next = "keeping" => x \in Remember,
           Opening(x)', status'[x] = "live" => Named(composed[x])'
    PROVE  Inv'
<1>1. x \in Requests /\ pc'[x] = next /\ \A y \in Requests : y # x => pc'[y] = pc[y]
  BY GotoMoves, PresetFacts DEF Inv, Typing
<1>2. /\ status' \in [Opens -> {"none", "attached", "live", "closing", "closed"}]
      /\ \A s \in Opens : s # x => status'[s] = status[s]
  BY TypeParts
<1>3. pc' \in [Requests -> Phases]
  BY TypeParts DEF Goto, Phases, Settled, OpenPhases
<1>4. TypeOK'
  BY <1>2, <1>3, TypeParts DEF TypeOK, Logs
<1>5. Typing'
  BY <1>1, <1>2, <1>4, TypeParts, OpeningAlone, PresetFacts
     DEF Inv, Typing, Busy, ChangePhases, OpenPhases
<1>6. OneRecord' /\ InLog' /\ Turning'
  BY <1>2, OpeningAlone, PresetFacts DEF OneRecord, InLog, Turning, Busy
<1>7. OneOpening' /\ Attached' /\ CommandPhases'
  BY <1>1, <1>2, OpeningAlone, PresetFacts
     DEF Inv, PresetInv, OneOpening, Attached, CommandPhases, Settled, OpenPhases, Busy
<1>8. Barrier' /\ \A y \in Requests : Change(y)'
  <2>1. \A y \in Requests : pc'[y] \notin ChangePhases
    BY <1>1, OpeningAlone DEF Changing, ChangePhases, OpenPhases
  <2> QED BY <2>1 DEF Barrier, Change, Changing, ChangePhases
<1>9. \A y \in Opens : Opening(y)'
  <2> SUFFICES ASSUME NEW y \in Opens, y # x PROVE Opening(y)'
    OBVIOUS
  <2>1. pc'[y] \in Settled
    BY <1>1, OpeningAlone, PresetFacts
  <2> QED BY <2>1 DEF Opening, Settled
<1>10. Composed'
  BY <1>2, OpeningAlone DEF Composed, Named, Busy
<1> QED BY <1>5, <1>6, <1>7, <1>8, <1>9, <1>10 DEF Inv, PresetInv

LEMMA PrepareKeeps == ASSUME Inv, NEW x \in Opens, Prepare(x) PROVE Inv'
<1> DEFINE chosen == CASE Explicit[x] # None -> Explicit[x]
                       [] Explicit[x] = None /\ log # None -> log.selected
                       [] OTHER -> default
<1>1. /\ pc[x] = "idle" /\ x \in Requests /\ Cold /\ \A o \in Opens : pc[o] \in Settled
      /\ UNCHANGED rest
  BY PresetFacts DEF Prepare, rest
<1>2. CASE Goto(x, "failed") /\ UNCHANGED previous
  BY <1>1, <1>2, FailedKeeps
<1>3. CASE /\ Goto(x, "creating") /\ previous' = [previous EXCEPT ![x] = chosen]
           /\ ~(log # None /\ chosen # log.selected /\ log.locked)
  <2>1. pc'[x] = "creating" /\ \A y \in Requests : y # x => pc'[y] = pc[y]
    BY <1>1, <1>3, GotoMoves DEF Inv, Typing
  <2>2. chosen \in Presets
    BY <1>1, TypeParts, PresetFacts DEF Logs
  <2>3. /\ previous' \in [Requests -> Presets \cup {None}] /\ previous'[x] = chosen
        /\ \A y \in Requests : y # x => previous'[y] = previous[y]
    BY <1>1, <1>3, <2>2, TypeParts
  <2>4. TypeOK'
    BY <1>1, <1>3, <2>3, TypeParts DEF TypeOK, Logs, Goto, Phases, Settled, rest, ledger, records
  <2>5. Typing'
    BY <1>1, <2>1, <2>2, <2>3, <2>4, TypeParts, PresetFacts
       DEF Inv, Typing, Busy, ChangePhases, rest, ledger, records
  <2>6. OneRecord' /\ InLog' /\ Turning'
    BY <1>1 DEF Inv, PresetInv, OneRecord, InLog, Turning, Busy, rest, ledger, records
  <2>7. OneOpening' /\ Attached' /\ CommandPhases'
    BY <1>1, <2>1, PresetFacts DEF Inv, PresetInv, OneOpening, Attached, CommandPhases, Settled,
       OpenPhases, ChangePhases, rest, records
  <2>8. Barrier' /\ \A y \in Requests : Change(y)'
    <3>1. \A y \in Requests : ~Changing(y)
      BY <1>1, ChangeParts DEF Cold, Busy
    <3>2. \A y \in Requests : pc'[y] \notin ChangePhases
      BY <2>1, <3>1 DEF Changing, ChangePhases
    <3> QED BY <3>2 DEF Barrier, Change, Changing, ChangePhases
  <2>9. \A y \in Opens : Opening(y)'
    <3>1. Opening(x)'
      BY <1>1, <1>3, <2>1, <2>3 DEF Opening, Cold, rest, ledger, records
    <3>2. \A y \in Opens : y # x => Opening(y)'
      BY <1>1, <2>1, PresetFacts DEF Opening, Settled
    <3> QED BY <3>1, <3>2
  <2>10. Composed'
    BY <1>1 DEF Composed, Cold, rest, records
  <2> QED BY <2>5, <2>6, <2>7, <2>8, <2>9, <2>10 DEF Inv, PresetInv
<1> QED BY <1>2, <1>3 DEF Prepare

LEMMA CreatedKeeps == ASSUME Inv, NEW x \in Opens, Created(x) PROVE Inv'
<1>1. /\ x \in Requests /\ pc[x] \in {"creating", "replacing"} /\ Cold
      /\ UNCHANGED <<default, inTurn, changing, inconsistent, on, previous, disposal>>
  BY PresetFacts DEF Created
<1>2. CASE Goto(x, "failed") /\ UNCHANGED <<ledger, status, composed>>
  BY <1>1, <1>2, FailedKeeps DEF rest, records
<1>3. CASE /\ status' = [status EXCEPT ![x] = "attached"]
           /\ Compose(x, previous[x])
           /\ log' = IF log = None THEN [selected |-> previous[x], locked |-> FALSE] ELSE log
           /\ saved' = IF log = None THEN previous[x] ELSE saved
           /\ undone' = (undone /\ pc[x] = "replacing")
           /\ Goto(x, IF pc[x] = "replacing" THEN "publishing" ELSE "committing")
  <2> DEFINE next == IF pc[x] = "replacing" THEN "publishing" ELSE "committing"
  <2>1. pc'[x] = next /\ next \in OpenPhases
    BY <1>1, <1>3, GotoMoves DEF Inv, Typing, OpenPhases
  <2>2. /\ composed' \in [Opens -> Presets \cup {None}] /\ composed'[x] = previous[x]
        /\ previous[x] \in Presets
        /\ \A s \in Opens : s # x => composed'[s] = composed[s]
    BY <1>1, <1>3, TypeParts DEF Compose, Inv, Typing
  <2>3. log' \in Logs /\ saved' \in Presets /\ undone' \in BOOLEAN
    BY <1>3, <2>2, TypeParts, PresetFacts DEF Logs, Inv, Typing
  <2>4. status'[x] = "attached" /\ status' = [status EXCEPT ![x] = status'[x]]
    BY <1>3, TypeParts
  <2>5. Opening(x)'
    <3>1. CASE pc[x] = "replacing"
      <4>1. log' = log /\ undone' = undone /\ Named(previous[x])
        BY <1>3, <3>1, TypeParts DEF Inv, PresetInv, Opening
      <4> QED BY <2>1, <2>2, <3>1, <4>1 DEF Opening, Named
    <3>2. CASE pc[x] = "creating"
      <4>1. log = None \/ log.selected = previous[x] \/ ~log.locked
        BY <3>2 DEF Inv, PresetInv, Opening
      <4>2. log'.selected = previous[x] \/ ~log'.locked
        BY <1>3, <4>1
      <4> QED BY <2>1, <2>2, <3>2, <4>2 DEF Opening
    <3> QED BY <1>1, <3>1, <3>2
  <2>6. /\ default' \in Presets /\ next # "keeping" /\ Goto(x, next)
    BY <1>1, <1>3, TypeParts
  <2>7. \/ next \in OpenPhases /\ status'[x] = "attached"
        \/ next \in {"done", "failed"} /\ status'[x] \in {"live", "closing"}
    BY <2>1, <2>4
  <2>8. status'[x] = "live" => Named(composed[x])'
    BY <2>4
  <2> HIDE DEF next
  <2> QED BY <1>1, <2>2, <2>3, <2>4, <2>5, <2>6, <2>7, <2>8, OpenFrame
<1> QED BY <1>2, <1>3 DEF Created

\* Closes a record that cannot be published.
LEMMA DiscardKeeps ==
    ASSUME Inv, NEW x \in Opens, pc[x] \in OpenPhases, Discard(x),
           log' = log, saved' \in Presets, UNCHANGED <<undone, default, composed, inTurn>>,
           UNCHANGED <<changing, inconsistent, on, previous, disposal>>
    PROVE  Inv'
<1>1. status'[x] = "closing" /\ status' = [status EXCEPT ![x] = status'[x]] /\ Goto(x, "failed")
  BY TypeParts DEF Discard
<1>2. Opening(x)'
  BY <1>1, GotoMoves, PresetFacts DEF Opening, Inv, Typing
<1> QED BY <1>1, <1>2, OpenFrame, OpeningAlone, TypeParts

\* A request goes on with the preset of its agent in the log.
LEMMA AdvanceKeeps ==
    ASSUME Inv, NEW x \in Opens, pc[x] \in OpenPhases,
           NEW next \in {"securing", "keeping", "publishing", "done"}, Goto(x, next),
           status' = [status EXCEPT ![x] = IF next = "done" THEN "live" ELSE "attached"],
           log' \in Logs, saved' \in Presets, default' \in Presets,
           next = "keeping" => x \in Remember,
           UNCHANGED <<undone, composed, inTurn, changing, inconsistent, on, previous, disposal>>,
           Named(composed[x])'
    PROVE  Inv'
<1>1. /\ status' = [status EXCEPT ![x] = status'[x]]
      /\ \/ next \in OpenPhases /\ status'[x] = "attached"
         \/ next \in {"done", "failed"} /\ status'[x] \in {"live", "closing"}
  BY TypeParts DEF OpenPhases
<1>2. Opening(x)'
  BY GotoMoves, PresetFacts DEF Opening, Inv, Typing
<1> QED BY <1>1, <1>2, OpenFrame, OpeningAlone, TypeParts

LEMMA CommitKeeps == ASSUME Inv, NEW x \in Opens, Commit(x) PROVE Inv'
<1>1. /\ pc[x] = "committing" /\ pc[x] \in OpenPhases /\ status[x] = "attached"
      /\ log \in Logs /\ saved \in Presets /\ composed[x] \in Presets
      /\ UNCHANGED <<saved, undone, default, composed, inTurn>>
      /\ UNCHANGED <<changing, inconsistent, on, previous, disposal>>
  BY OpeningAlone DEF Commit, OpenPhases
<1>2. CASE Discard(x) /\ UNCHANGED log
  BY <1>1, <1>2, DiscardKeeps
<1>3. CASE /\ log.selected = composed[x] /\ Goto(x, AfterCommit(x)) /\ UNCHANGED <<log, status>>
  <2>1. /\ status' = [status EXCEPT ![x] = "attached"] /\ Named(composed[x])'
        /\ AfterCommit(x) = "keeping" => x \in Remember
        /\ AfterCommit(x) \in {"keeping", "publishing"}
    BY <1>1, <1>3, TypeParts DEF AfterCommit, Named
  <2> QED BY <1>1, <1>3, <2>1, AdvanceKeeps, TypeParts
<1>4. CASE /\ log' = [log EXCEPT !.selected = composed[x]] /\ Goto(x, "securing")
           /\ UNCHANGED status
  <2>1. /\ status' = [status EXCEPT ![x] = "attached"]
        /\ log' \in Logs /\ Named(composed[x])'
    BY <1>1, <1>4, TypeParts DEF Logs, Named
  <2> QED BY <1>1, <1>4, <2>1, AdvanceKeeps, TypeParts
<1> QED BY <1>2, <1>3, <1>4 DEF Commit

LEMMA SecuredKeeps == ASSUME Inv, NEW x \in Opens, Secured(x) PROVE Inv'
<1>1. /\ pc[x] \in OpenPhases /\ status[x] = "attached" /\ log \in Logs /\ saved' \in Presets
      /\ log.selected \in Presets /\ Named(composed[x])
      /\ UNCHANGED <<log, undone, default, composed, inTurn>>
      /\ UNCHANGED <<changing, inconsistent, on, previous, disposal>>
  BY OpeningAlone DEF Secured, OpenPhases, Logs, Inv, PresetInv, Opening
<1>2. CASE Discard(x)
  BY <1>1, <1>2, DiscardKeeps
<1>3. CASE Goto(x, AfterCommit(x)) /\ UNCHANGED status
  <2>1. /\ status' = [status EXCEPT ![x] = "attached"] /\ Named(composed[x])'
        /\ AfterCommit(x) = "keeping" => x \in Remember
        /\ AfterCommit(x) \in {"keeping", "publishing"}
    BY <1>1, <1>3, TypeParts DEF AfterCommit, Named
  <2> QED BY <1>1, <1>3, <2>1, AdvanceKeeps, TypeParts
<1> QED BY <1>2, <1>3 DEF Secured

LEMMA KeptKeeps == ASSUME Inv, NEW x \in Opens, Kept(x) PROVE Inv'
<1>1. /\ pc[x] \in OpenPhases /\ status[x] = "attached" /\ log \in Logs /\ saved \in Presets
      /\ x \in Remember /\ Explicit[x] \in Presets /\ Named(composed[x])
      /\ UNCHANGED <<ledger, composed, inTurn, changing, inconsistent, on, previous, disposal>>
  BY OpeningAlone, PresetFacts DEF Kept, OpenPhases, Inv, Typing, PresetInv, Opening
<1>2. CASE Discard(x) /\ UNCHANGED default
  BY <1>1, <1>2, DiscardKeeps DEF ledger
<1>3. CASE default' = Explicit[x] /\ Goto(x, "publishing") /\ UNCHANGED status
  <2>1. status' = [status EXCEPT ![x] = "attached"] /\ Named(composed[x])'
    BY <1>1, <1>3, TypeParts DEF Named, ledger
  <2> QED BY <1>1, <1>3, <2>1, AdvanceKeeps DEF ledger
<1> QED BY <1>2, <1>3 DEF Kept

LEMMA PublishKeeps == ASSUME Inv, NEW x \in Opens, Publish(x) PROVE Inv'
<1>1. /\ pc[x] \in OpenPhases /\ status[x] = "attached" /\ log \in Logs /\ saved \in Presets
      /\ Named(composed[x])
      /\ UNCHANGED <<ledger, default, composed, inTurn>>
      /\ UNCHANGED <<changing, inconsistent, on, previous, disposal>>
  BY OpeningAlone DEF Publish, OpenPhases, Inv, PresetInv, Opening
<1>2. CASE Discard(x)
  BY <1>1, <1>2, DiscardKeeps DEF ledger
<1>3. CASE Goto(x, "done") /\ status' = [status EXCEPT ![x] = "live"]
  BY <1>1, <1>3, AdvanceKeeps, TypeParts DEF Named, ledger
<1> QED BY <1>2, <1>3 DEF Publish

\* A load closes the record that it opens again.
LEMMA ReloadedKeeps == ASSUME Inv, NEW x \in Opens, Reloaded(x) PROVE Inv'
<1> DEFINE r == on[x]
<1>1. /\ x \in Requests /\ pc[x] = "reloading" /\ r \in Opens
      /\ UNCHANGED <<log, undone, default, composed, inTurn>>
      /\ UNCHANGED <<changing, inconsistent, on, disposal>>
  BY PresetFacts DEF Reloaded, Inv, Typing, Live, PresetsClosed
<1>2. CASE Goto(x, "failed") /\ UNCHANGED <<saved, status, previous>>
  BY <1>1, <1>2, FailedKeeps DEF rest, ledger, records
<1>3. CASE /\ status[r] = "live" /\ saved' = log.selected
           /\ status' = [status EXCEPT ![r] = "closing"]
           /\ previous' = [previous EXCEPT ![x] = Target(x)]
           /\ Goto(x, "replacing")
  <2>1. pc'[x] = "replacing" /\ \A y \in Requests : y # x => pc'[y] = pc[y]
    BY <1>1, <1>3, GotoMoves DEF Inv, Typing
  <2>2. /\ composed[r] \in Presets /\ composed[r] = Target(x)
        /\ r \notin changing /\ r \notin inconsistent
        /\ \A s \in Opens : Busy(s) => s = r
        /\ log \in Logs /\ log # None /\ log.selected \in Presets
    BY <1>1, <1>3, TypeParts, PresetFacts
       DEF Inv, Typing, PresetInv, Opening, OneRecord, Busy, InLog, Logs
  <2>3. \A y \in Requests : ~Changing(y)
    BY <2>2, ChangeParts
  <2>4. Named(composed[r])
    BY <1>1, <1>3, <2>2, <2>3 DEF Inv, PresetInv, Composed, Changing, ChangePhases
  <2>5. /\ previous' \in [Requests -> Presets \cup {None}] /\ previous'[x] = composed[r]
        /\ \A y \in Requests : y # x => previous'[y] = previous[y]
        /\ status' \in [Opens -> {"none", "attached", "live", "closing", "closed"}]
        /\ status'[r] = "closing" /\ \A s \in Opens : s # r => status'[s] = status[s]
    BY <1>1, <1>3, <2>2, TypeParts
  <2>6. TypeOK'
    BY <1>1, <1>3, <2>2, <2>5, TypeParts DEF TypeOK, Logs, Goto, Phases
  <2>7. Typing'
    BY <1>1, <1>3, <2>1, <2>2, <2>5, <2>6, PresetFacts DEF Inv, Typing, Busy, ChangePhases
  <2>8. OneRecord' /\ InLog' /\ Turning'
    BY <1>1, <1>3, <2>2, <2>5, TypeParts
       DEF Inv, PresetInv, OneRecord, InLog, Turning, Busy
  <2>9. OneOpening' /\ Attached' /\ CommandPhases'
    BY <1>1, <1>3, <2>1, <2>5, PresetFacts DEF Inv, PresetInv, OneOpening, Attached,
       CommandPhases, Settled, OpenPhases, ChangePhases
  <2>10. Barrier' /\ \A y \in Requests : Change(y)'
    <3>1. \A y \in Requests : pc'[y] \notin ChangePhases
      BY <2>1, <2>3 DEF Changing, ChangePhases
    <3> QED BY <3>1 DEF Barrier, Change, Changing, ChangePhases
  <2>11. \A y \in Opens : Opening(y)'
    <3>1. Opening(x)'
      BY <1>1, <1>3, <2>1, <2>2, <2>3, <2>4, <2>5, PresetFacts
         DEF Opening, Named, Busy, Changing, ChangePhases
    <3>2. \A y \in Opens : y # x => pc'[y] \in Settled
      BY <1>1, <2>1, PresetFacts DEF Inv, PresetInv, OneOpening, Settled
    <3>3. \A y \in Opens : y # x => Opening(y)'
      BY <3>2 DEF Opening, Settled
    <3> QED BY <3>1, <3>3
  <2>12. Composed'
    BY <2>2, <2>5 DEF Composed, Busy
  <2> QED BY <2>7, <2>8, <2>9, <2>10, <2>11, <2>12 DEF Inv, PresetInv
<1> QED BY <1>2, <1>3 DEF Reloaded, Live

-----------------------------------------------------------------------------
(* The agent, and the end of a record *)

LEMMA EndTurnKeeps == ASSUME Inv, NEW r \in Opens, EndTurn(r) PROVE Inv'
<1>1. /\ r \in inTurn /\ inTurn' = inTurn \ {r} /\ status[r] \in {"live", "closing"}
      /\ UNCHANGED <<saved, undone, default, status, composed>>
      /\ UNCHANGED <<changing, inconsistent, pc, on, previous, disposal>>
  BY DEF EndTurn, Inv, PresetInv, Turning
<1>2. log \in Logs /\ log # None
  BY <1>1, TypeParts DEF Inv, PresetInv, InLog, Busy
<1>3. log' \in Logs /\ log' # None /\ log'.selected = log.selected
  BY <1>2, PresetFacts DEF EndTurn, Logs
<1>4. TypeOK'
  BY <1>1, <1>3, TypeParts DEF TypeOK, Logs
<1>5. Typing'
  BY <1>1, <1>2, <1>4 DEF Inv, Typing, Busy
<1>6. OneRecord' /\ OneOpening' /\ Attached' /\ CommandPhases' /\ Barrier' /\ InLog' /\ Turning'
  BY <1>1, <1>3 DEF Inv, PresetInv, OneRecord, OneOpening, Attached, CommandPhases, Barrier,
     InLog, Turning, Busy, Changing
<1>7. \A y \in Requests : Change(y)'
  BY <1>1, <1>3 DEF Inv, PresetInv, Change, Named, Target
<1>8. \A y \in Opens : Opening(y)'
  <2> SUFFICES ASSUME NEW y \in Opens PROVE Opening(y)'
    OBVIOUS
  <2>1. pc[y] \notin {"creating", "committing"}
    BY <1>1, OpeningAlone DEF Inv, PresetInv, Opening, OpenPhases
  <2> QED BY <1>1, <1>2, <1>3, <2>1
          DEF Inv, PresetInv, Opening, Named, Target, Busy, Changing
<1>9. Composed'
  BY <1>1, <1>3 DEF Inv, PresetInv, Composed, Named
<1> QED BY <1>5, <1>6, <1>7, <1>8, <1>9 DEF Inv, PresetInv

\* What starts a turn or closes records, and changes nothing else
Ends(next) ==
    /\ status' = next
    /\ \A r \in Opens : \/ next[r] = status[r]
                        \/ status[r] = "live" /\ next[r] = "closing"
    /\ UNCHANGED <<ledger, default, composed, changing, inconsistent, pc, on, previous>>

LEMMA EndsKeeps ==
    ASSUME Inv, NEW next, Ends(next),
           next \in [Opens -> {"none", "attached", "live", "closing", "closed"}],
           inTurn' \subseteq Opens, \A r \in inTurn' : next[r] \in {"live", "closing"},
           disposal' \in {"open", "draining", "done"}
    PROVE  Inv'
<1>1. TypeOK'
  BY TypeParts DEF TypeOK, Logs, Ends, ledger
<1>2. \A r \in Opens : Busy(r)' = Busy(r)
  BY DEF Ends, Busy
<1>3. Typing'
  BY <1>1, <1>2 DEF Inv, Typing, Ends, ledger
<1>4. OneRecord' /\ OneOpening' /\ Attached' /\ CommandPhases' /\ InLog' /\ Turning'
  BY <1>2 DEF Inv, PresetInv, OneRecord, OneOpening, Attached, CommandPhases, InLog, Turning,
     Ends, ledger
<1>5. Barrier'
  BY TypeParts DEF Inv, PresetInv, Barrier, Changing, Ends
<1>6. \A y \in Requests : Change(y)'
  <2> SUFFICES ASSUME NEW y \in Requests PROVE Change(y)'
    OBVIOUS
  <2>1. pc[y] = "restoring" => on[y] \in Opens
    BY ChangeParts DEF Changing, ChangePhases
  <2> QED BY <2>1 DEF Inv, PresetInv, Change, Named, Target, Ends, ledger
<1>7. \A y \in Opens : Opening(y)'
  <2> SUFFICES ASSUME NEW y \in Opens PROVE Opening(y)'
    OBVIOUS
  <2>1. pc[y] = "reloading" => on[y] \in Opens
    BY PresetFacts DEF Inv, Typing
  <2>2. pc[y] = "replacing" => \A s \in Opens : Busy(s)' => s = on[y] /\ next[s] = "closing"
    BY <1>2 DEF Inv, PresetInv, Opening, Ends
  <2>3. pc[y] = "creating" => Cold'
    BY DEF Inv, PresetInv, Opening, Cold, Ends
  <2> QED BY <2>1, <2>2, <2>3
          DEF Inv, PresetInv, Opening, Named, Target, Changing, Ends, ledger
<1>8. Composed'
  BY DEF Inv, PresetInv, Composed, Named, Ends, ledger
<1> QED BY <1>3, <1>4, <1>5, <1>6, <1>7, <1>8 DEF Inv, PresetInv

LEMMA StartTurnKeeps == ASSUME Inv, NEW r \in Opens, StartTurn(r) PROVE Inv'
<1>1. /\ Ends(status) /\ inTurn' = inTurn \cup {r} /\ disposal' = disposal
      /\ status[r] = "live"
  BY DEF StartTurn, Ends, ledger, Live
<1> QED BY <1>1, EndsKeeps, TypeParts DEF Inv, PresetInv, Turning

LEMMA CloseKeeps == ASSUME Inv, NEW r \in Opens, Close(r) PROVE Inv'
<1> DEFINE next == [status EXCEPT ![r] = "closing"]
<1>1. Ends(next) /\ UNCHANGED <<inTurn, disposal>>
  BY TypeParts DEF Close, Ends
<1>2. /\ next \in [Opens -> {"none", "attached", "live", "closing", "closed"}]
      /\ \A t \in inTurn : next[t] \in {"live", "closing"}
  BY TypeParts DEF Inv, PresetInv, Turning
<1> HIDE DEF next
<1> QED BY <1>1, <1>2, EndsKeeps, TypeParts

LEMMA DisposeKeeps == ASSUME Inv, Dispose PROVE Inv'
<1> DEFINE next == [r \in Opens |-> IF status[r] = "live" THEN "closing" ELSE status[r]]
<1>1. Ends(next) /\ UNCHANGED inTurn /\ disposal' = "draining"
  BY TypeParts DEF Dispose, Ends
<1>2. /\ next \in [Opens -> {"none", "attached", "live", "closing", "closed"}]
      /\ \A t \in inTurn : next[t] \in {"live", "closing"}
  BY TypeParts DEF Inv, PresetInv, Turning
<1> HIDE DEF next
<1> QED BY <1>1, <1>2, EndsKeeps, TypeParts

LEMMA DisposedKeeps == ASSUME Inv, Disposed PROVE Inv'
<1>1. Ends(status) /\ UNCHANGED inTurn /\ disposal' = "done"
  BY DEF Disposed, Ends, records
<1> QED BY <1>1, EndsKeeps, TypeParts DEF Inv, PresetInv, Turning

LEMMA ReleaseRecordKeeps == ASSUME Inv, NEW r \in Opens, ReleaseRecord(r) PROVE Inv'
<1>1. /\ status[r] = "closing" /\ r \notin inTurn /\ Drained(r)
      /\ status' = [status EXCEPT ![r] = "closed"]
      /\ UNCHANGED <<undone, default, composed, inTurn>>
      /\ UNCHANGED <<changing, inconsistent, pc, on, previous, disposal>>
  BY DEF ReleaseRecord
<1>2. /\ log \in Logs /\ log # None /\ saved \in Presets
      /\ \A s \in Opens : Busy(s) => s = r
  BY <1>1, TypeParts DEF Inv, Typing, PresetInv, InLog, OneRecord, Busy
<1>3. /\ log' \in Logs /\ log' # None /\ saved' \in Presets
      /\ log.selected = saved => log'.selected = log.selected /\ saved' = saved
  BY <1>2, PresetFacts DEF ReleaseRecord, Logs
<1>4. /\ status' \in [Opens -> {"none", "attached", "live", "closing", "closed"}]
      /\ \A s \in Opens : ~Busy(s)' /\ (s # r => status'[s] = status[s])
      /\ status'[r] = "closed"
  BY <1>1, <1>2, TypeParts DEF Busy
<1>5. \A y \in Requests : ~Changing(y)
  BY <1>1, <1>2, ChangeParts DEF Drained, Changing, ChangePhases, Settled
<1>6. TypeOK'
  BY <1>1, <1>3, <1>4, TypeParts DEF TypeOK, Logs
<1>7. Typing'
  BY <1>1, <1>3, <1>4, <1>6 DEF Inv, Typing
<1>8. OneRecord' /\ OneOpening' /\ Attached' /\ CommandPhases' /\ InLog'
  BY <1>1, <1>4 DEF Inv, PresetInv, OneRecord, OneOpening, Attached, CommandPhases, InLog
<1>9. Turning'
  BY <1>1, <1>4, TypeParts DEF Inv, PresetInv, Turning
<1>10. Barrier' /\ \A y \in Requests : Change(y)'
  BY <1>1, <1>5 DEF Barrier, Change, Changing, ChangePhases
<1>11. \A y \in Opens : Opening(y)'
  <2> SUFFICES ASSUME NEW y \in Opens PROVE Opening(y)'
    OBVIOUS
  <2>1. pc[y] \notin OpenPhases \cup {"creating"}
    BY <1>1, OpeningAlone DEF Inv, PresetInv, Opening, Busy
  <2>2. pc[y] = "reloading" => on[y] \in Opens
    BY PresetFacts DEF Inv, Typing
  <2>3. \A s \in Opens : status'[s] # "live"
    BY <1>4 DEF Busy
  <2>4. pc[y] = "replacing" =>
            Named(previous[y])' /\ saved' = log'.selected /\ log' # None
    BY <1>1, <1>3 DEF Inv, PresetInv, Opening, Named
  <2> QED BY <1>1, <1>4, <1>5, <2>1, <2>2, <2>3, <2>4
          DEF Opening, OpenPhases, Changing
<1>12. Composed'
  BY <1>4 DEF Composed, Busy
<1> QED BY <1>7, <1>8, <1>9, <1>10, <1>11, <1>12 DEF Inv, PresetInv

LEMMA InvStarts == InitPresets => Inv
<1> SUFFICES ASSUME InitPresets PROVE Inv
  OBVIOUS
<1>1. log \in Logs \cup {None}
  BY PresetAssumption DEF InitPresets, Logs
<1>2. TypeOK
  BY <1>1, PresetFacts DEF InitPresets, TypeOK, Phases, Settled, Logs
<1>3. Typing
  BY <1>1, <1>2, PresetFacts DEF InitPresets, Typing, Busy, ChangePhases, Logs
<1>4. PresetInv
  BY PresetFacts DEF InitPresets, PresetInv, OneRecord, OneOpening, Attached, CommandPhases,
     Barrier, InLog, Turning, Change, Opening, Composed, Busy, Changing, Settled, OpenPhases,
     ChangePhases
<1> QED BY <1>3, <1>4 DEF Inv

LEMMA InvStays == Inv /\ [NextPresets]_presetVars => Inv'
<1> SUFFICES ASSUME Inv, [NextPresets]_presetVars PROVE Inv'
  OBVIOUS
<1>1. ASSUME NEW x \in Requests, RequestStep(x) PROVE Inv'
  BY <1>1, LookedKeeps, ChosenKeeps, RecomposedKeeps, FlushedKeeps, RestoredKeeps,
     RememberedKeeps, ReloadedKeeps, CreatedKeeps, CommitKeeps, SecuredKeeps, KeptKeeps,
     PublishKeeps DEF RequestStep, ChangeStep, OpenStep
<1>2. ASSUME NEW r \in Opens, RecordStep(r) PROVE Inv'
  BY <1>2, EndTurnKeeps, ReleaseRecordKeeps DEF RecordStep
<1>3. CASE UNCHANGED presetVars
  BY <1>3, EndsKeeps, TypeParts DEF presetVars, records, Ends, Inv, PresetInv, Turning
<1> QED BY <1>1, <1>2, <1>3, CommandKeeps, LoadLiveKeeps, PrepareKeeps, StartTurnKeeps,
           CloseKeeps, DisposeKeeps, DisposedKeeps DEF NextPresets

THEOREM PresetsKept == SpecPresets => []Inv
<1> QED BY InvStarts, InvStays, PTL DEF SpecPresets

-----------------------------------------------------------------------------
(* Theorems *)

\* Every variable keeps its type, through switches, opens, reloads, closes and
\* the disposal of the leader.
THEOREM PresetTypes == SpecPresets => []TypeOK
<1>1. Inv => TypeOK
  BY DEF Inv, Typing
<1> QED BY <1>1, PresetsKept, PTL

\* The agent of a live session is composed of the preset that its log names,
\* whenever no change is under way: session-presets.ts, swap and its rollback,
\* and session-lifecycle.ts, commit and reload.
THEOREM AgentsAreAsLogged == SpecPresets => []ComposedAsLogged
<1>1. Inv => ComposedAsLogged
  <2> SUFFICES ASSUME Inv, NEW r \in Opens, Live(r), r \notin changing \cup inconsistent
               PROVE  composed[r] = log.selected \/ undone
    BY DEF ComposedAsLogged
  <2>1. \A x \in Requests : pc[x] = "restoring" => on[x] # r
    BY DEF Inv, PresetInv, Barrier, Changing, ChangePhases
  <2> QED BY <2>1 DEF Inv, PresetInv, Composed, Named, Live
<1> QED BY <1>1, PresetsKept, PTL

\* The preset of a session that has history, or whose agent runs a turn, stays:
\* what maySwitch is asked for before the native recompose still holds when the
\* switch is appended, though turns start and end in between.
THEOREM OnlyBlankSessionsSwitch == SpecPresets => SwitchesOnlyBlank
<1> DEFINE Stays == \/ log = None \/ log'.selected = log.selected
                    \/ ~log.locked /\ inTurn = {}
                    \/ \E r \in Opens : status[r] = "closing" /\ status'[r] = "closed"
<1>1. Inv /\ [NextPresets]_presetVars => Stays
  <2> SUFFICES ASSUME Inv, [NextPresets]_presetVars PROVE Stays
    OBVIOUS
  <2>1. ASSUME NEW x \in Requests, Recomposed(x) PROVE Stays
    <3>1. \/ UNCHANGED log
          \/ status[on[x]] = "live" /\ on[x] \notin inTurn /\ ~log.locked
      BY <2>1 DEF Recomposed, ledger, MaySwitch, Live
    <3>2. \A r \in Opens : Busy(r) => r = on[x]
      BY <2>1, ChangeParts DEF Recomposed, Changing, ChangePhases
    <3>3. \A r \in inTurn : r = on[x]
      BY <3>2, TypeParts DEF Inv, PresetInv, Turning, Busy
    <3> QED BY <3>1, <3>3
  <2>2. ASSUME NEW x \in Opens, Commit(x) PROVE Stays
    <3>1. log.selected = composed[x] => UNCHANGED log
      BY <2>2 DEF Commit
    <3>2. log.selected # composed[x] => ~log.locked
      BY <2>2 DEF Commit, Inv, PresetInv, Opening
    <3>3. inTurn = {}
      BY <2>2, OpeningAlone DEF Commit, OpenPhases
    <3> QED BY <3>1, <3>2, <3>3
  <2>3. ASSUME NEW r \in Opens, EndTurn(r) PROVE Stays
    BY <2>3, TypeParts DEF EndTurn, Logs
  <2>4. ASSUME NEW r \in Opens, ReleaseRecord(r) PROVE Stays
    BY <2>4, TypeParts DEF ReleaseRecord
  <2>5. ASSUME NEW x \in Opens, Created(x) PROVE Stays
    BY <2>5 DEF Created, ledger
  <2>6. ASSUME NEW x \in Requests, RequestStep(x) PROVE Stays
    BY <2>1, <2>2, <2>5, <2>6 DEF RequestStep, ChangeStep, OpenStep, Looked, Chosen, Flushed,
       Restored, Remembered, Reloaded, Secured, Kept, Publish, ledger
  <2> QED BY <2>3, <2>4, <2>6 DEF NextPresets, RecordStep, Command, LoadLive, Prepare,
             StartTurn, Close, Dispose, Disposed, ledger, presetVars
<1> QED BY <1>1, PresetsKept, PTL DEF SpecPresets, SwitchesOnlyBlank

-----------------------------------------------------------------------------
(* The remote channel: the inductive invariant *)

CallPhases == Pending \cup {"idle", "answered", "refused"}
LaneElements(c) == 1 .. Len(lane[c])

\* A call is in the state its slot and its native call are in.
Standing(r) ==
    /\ call[r] \in {"granted", "calling"} \/ invocation[r] = "running" => r \in holding
    /\ r \in holding => call[r] \notin {"idle", "waiting"}
    /\ call[r] \in {"idle", "waiting", "granted"} => invocation[r] = "none"
    /\ call[r] = "waiting" => \E i \in LaneElements(CallClient[r]) : lane[CallClient[r]][i] = r

\* The lane of a client holds the calls of the client that wait, each once, as long
\* as all slots are taken.
Lane(c) ==
    /\ Len(lane[c]) <= MaxWaiting
    /\ \A i \in LaneElements(c) : call[lane[c][i]] = "waiting" /\ CallClient[lane[c][i]] = c
    /\ \A i, j \in LaneElements(c) : lane[c][i] = lane[c][j] => i = j
    /\ Cardinality(Holders(c)) <= InFlight
    /\ lane[c] # <<>> => Cardinality(Holders(c)) = InFlight

RemoteInv ==
    /\ RemoteTypeOK /\ IsFiniteSet(holding)
    /\ \A r \in Calls : Standing(r)
    /\ \A c \in Callers : Lane(c)

LEMMA RemoteFacts ==
    /\ InFlight \in Nat \ {0} /\ MaxWaiting \in Nat
    /\ \A r \in Calls : CallClient[r] \in Callers
  BY RemoteAssumption DEF Callers

LEMMA TailOf ==
    ASSUME NEW S, NEW s \in Seq(S), s # <<>>
    PROVE  /\ Tail(s) \in Seq(S) /\ Len(s) \in Nat \ {0} /\ Len(Tail(s)) = Len(s) - 1
           /\ Head(s) = s[1] /\ s[1] \in S
           /\ \A i \in 1 .. Len(Tail(s)) : Tail(s)[i] = s[i + 1]
  OBVIOUS

LEMMA AppendOf ==
    ASSUME NEW S, NEW s \in Seq(S), NEW e \in S
    PROVE  /\ Append(s, e) \in Seq(S) /\ Len(s) \in Nat /\ Len(Append(s, e)) = Len(s) + 1
           /\ Append(s, e)[Len(s) + 1] = e
           /\ \A i \in 1 .. Len(s) : Append(s, e)[i] = s[i]
  OBVIOUS

LEMMA RemoteTyped ==
    ASSUME RemoteTypeOK
    PROVE  /\ call \in [Calls -> CallPhases]
           /\ invocation \in [Calls -> {"none", "running", "value", "error"}]
           /\ lane \in [Callers -> Seq(Calls)]
           /\ \A c \in Callers : lane[c] \in Seq(Calls) /\ Len(lane[c]) \in Nat
  BY DEF RemoteTypeOK, CallPhases

LEMMA HoldersFinite ==
    ASSUME IsFiniteSet(holding), NEW c
    PROVE  IsFiniteSet(Holders(c)) /\ Cardinality(Holders(c)) \in Nat
  BY FS_Subset, FS_CardinalityType DEF Holders

LEMMA RemoteStarts == InitRemote => RemoteInv
<1> SUFFICES ASSUME InitRemote PROVE RemoteInv
  OBVIOUS
<1>1. RemoteTypeOK
  BY DEF InitRemote, RemoteTypeOK, Pending
<1>2. IsFiniteSet(holding) /\ \A c : Holders(c) = {} /\ Cardinality(Holders(c)) = 0
  BY FS_EmptySet DEF InitRemote, Holders
<1>3. \A r \in Calls : Standing(r)
  BY DEF InitRemote, Standing
<1>4. \A c \in Callers : Lane(c)
  BY <1>2, RemoteFacts DEF InitRemote, Lane, LaneElements
<1> QED BY <1>1, <1>2, <1>3, <1>4 DEF RemoteInv

\* A step that leaves the lanes and the slots alone.
LEMMA LanesStay ==
    ASSUME RemoteInv, RemoteTypeOK', UNCHANGED <<lane, holding>>,
           \A r \in Calls : call'[r] = "waiting" <=> call[r] = "waiting",
           \A r \in Calls : \/ UNCHANGED <<call[r], invocation[r]>>
                            \/ Standing(r)'
    PROVE  RemoteInv'
<1>1. \A r \in Calls : Standing(r)'
  BY DEF RemoteInv, Standing, LaneElements
<1>2. \A c \in Callers : \A i \in LaneElements(c) : lane[c][i] \in Calls
  BY RemoteTyped DEF RemoteInv, LaneElements
<1>3. \A c \in Callers : Lane(c)'
  BY <1>2 DEF RemoteInv, Lane, Holders, LaneElements
<1> QED BY <1>1, <1>3 DEF RemoteInv

LEMMA RunKeeps ==
    ASSUME RemoteInv, NEW r \in Calls, Run(r) \/ Reply(r)
    PROVE  RemoteInv'
<1>1. UNCHANGED <<lane, holding, expired, away, shut, channel>> /\ r \in holding
  BY DEF Run, Reply, RemoteInv, Standing
<1>2. PICK to \in {"refused", "answered", "calling"} : call' = [call EXCEPT ![r] = to]
  BY DEF Run, Reply, CallAt
<1>3. \/ UNCHANGED invocation
      \/ invocation' = [invocation EXCEPT ![r] = "running"]
  BY DEF Run, Reply
<1>4. RemoteTypeOK'
  BY <1>1, <1>2, <1>3 DEF RemoteInv, RemoteTypeOK, Pending
<1>5. Standing(r)'
  BY <1>1, <1>2, <1>3, RemoteTyped DEF RemoteInv, Standing
<1>6. \A q \in Calls : q # r => UNCHANGED <<call[q], invocation[q]>>
  BY <1>2, <1>3, RemoteTyped DEF RemoteInv
<1>7. call[r] # "waiting" /\ call'[r] # "waiting"
  BY <1>2, RemoteTyped DEF Run, Reply, RemoteInv
<1> QED BY <1>1, <1>4, <1>5, <1>6, <1>7, LanesStay

LEMMA SettlesKeeps ==
    ASSUME RemoteInv, NEW r \in Calls, InvocationSettles(r)
    PROVE  RemoteInv'
<1>1. UNCHANGED <<call, lane, holding, expired, away, shut, channel>> /\ invocation[r] = "running"
  BY DEF InvocationSettles
<1>2. PICK outcome \in {"value", "error"} : invocation' = [invocation EXCEPT ![r] = outcome]
  BY DEF InvocationSettles
<1>3. RemoteTypeOK'
  BY <1>1, <1>2 DEF RemoteInv, RemoteTypeOK
<1>4. \A q \in Calls : Standing(q)'
  BY <1>1, <1>2, RemoteTyped DEF RemoteInv, Standing, LaneElements
<1> QED BY <1>1, <1>3, <1>4, LanesStay

LEMMA AsideKeeps ==
    ASSUME RemoteInv,
           \/ \E r \in Calls : Expire(r)
           \/ \E s \in Bound : CloseScope(s)
           \/ ChannelDisposed
           \/ UNCHANGED remoteVars
    PROVE  RemoteInv'
<1>1. UNCHANGED <<call, invocation, lane, holding>>
  BY DEF Expire, CloseScope, ChannelDisposed, remoteVars
<1>2. RemoteTypeOK'
  BY DEF Expire, CloseScope, ChannelDisposed, remoteVars, RemoteInv, RemoteTypeOK
<1> QED BY <1>1, <1>2, LanesStay

\* abandon() drops the calls that wait of whoever has left.
LEMMA AbandonKeeps ==
    ASSUME RemoteInv, NEW who \in SUBSET Callers, Abandon(who),
           UNCHANGED <<invocation, expired, holding, shut>>,
           away' \subseteq Callers, channel' \in {"open", "closing", "done"}
    PROVE  RemoteInv'
<1>1. /\ call' = [r \in Calls |->
           IF call[r] = "waiting" /\ CallClient[r] \in who THEN "refused" ELSE call[r]]
      /\ lane' = [c \in Callers |-> IF c \in who THEN <<>> ELSE lane[c]]
  BY DEF Abandon
<1>2. RemoteTypeOK'
  BY <1>1, RemoteTyped DEF RemoteInv, RemoteTypeOK, CallPhases, Pending
<1>3. \A r \in Calls : Standing(r)'
  BY <1>1, RemoteFacts DEF RemoteInv, Standing, LaneElements
<1>4. \A c \in Callers : Lane(c)'
  <2> SUFFICES ASSUME NEW c \in Callers PROVE Lane(c)'
    OBVIOUS
  <2>1. Holders(c)' = Holders(c)
    BY DEF Holders
  <2>2. CASE c \in who
    <3>1. lane'[c] = <<>> /\ LaneElements(c)' = {}
      BY <1>1, <2>2 DEF LaneElements
    <3> QED BY <2>1, <3>1, RemoteFacts DEF Lane, RemoteInv
  <2>3. CASE c \notin who
    <3>1. lane'[c] = lane[c] /\ \A i \in LaneElements(c) : lane[c][i] \in Calls
      BY <1>1, <2>3, RemoteTyped DEF LaneElements, RemoteInv
    <3>2. \A i \in LaneElements(c) : call'[lane[c][i]] = call[lane[c][i]]
      BY <1>1, <2>3, <3>1 DEF RemoteInv, Lane
    <3> QED BY <2>1, <3>1, <3>2 DEF RemoteInv, Lane, LaneElements
  <2> QED BY <2>2, <2>3
<1> QED BY <1>2, <1>3, <1>4 DEF RemoteInv

\* A call that gets a free slot; nobody waits then.
LEMMA GrantKeeps ==
    ASSUME RemoteInv, NEW r \in Calls, call[r] = "idle",
           Cardinality(Holders(CallClient[r])) < InFlight,
           holding' = holding \cup {r}, CallAt(r, "granted"),
           UNCHANGED <<lane, invocation, expired, away, shut, channel>>
    PROVE  RemoteInv'
<1> DEFINE c == CallClient[r]
<1>1. call' = [call EXCEPT ![r] = "granted"] /\ c \in Callers /\ r \notin holding
  BY RemoteFacts DEF CallAt, RemoteInv, Standing
<1>2. RemoteTypeOK'
  BY <1>1 DEF RemoteInv, RemoteTypeOK, Pending
<1>3. lane[c] = <<>>
  BY <1>1, RemoteFacts, HoldersFinite DEF RemoteInv, Lane
<1>4. IsFiniteSet(holding')
  BY FS_AddElement DEF RemoteInv
<1>5. Cardinality(Holders(c)') = Cardinality(Holders(c)) + 1
  <2>1. Holders(c)' = Holders(c) \cup {r} /\ r \notin Holders(c)
    BY <1>1 DEF Holders
  <2> QED BY <2>1, HoldersFinite, FS_AddElement DEF RemoteInv
<1>6. \A d \in Callers : d # c => Holders(d)' = Holders(d)
  BY DEF Holders
<1>7. \A q \in Calls : Standing(q)'
  <2>1. Standing(r)'
    BY <1>1, RemoteTyped DEF RemoteInv, Standing
  <2>2. ASSUME NEW q \in Calls, q # r PROVE Standing(q)'
    <3>1. UNCHANGED <<call[q], invocation[q]>> /\ (q \in holding' <=> q \in holding)
      BY <1>1, <2>2, RemoteTyped DEF RemoteInv
    <3> QED BY <3>1 DEF RemoteInv, Standing, LaneElements
  <2> QED BY <2>1, <2>2
<1>8. \A d \in Callers : Lane(d)'
  <2>1. Lane(c)'
    <3>1. Cardinality(Holders(c)') <= InFlight
      BY <1>1, <1>5, HoldersFinite, RemoteFacts DEF RemoteInv
    <3>2. LaneElements(c)' = {} /\ lane'[c] = <<>>
      BY <1>3 DEF LaneElements
    <3> QED BY <3>1, <3>2, RemoteFacts DEF Lane
  <2>2. ASSUME NEW d \in Callers, d # c PROVE Lane(d)'
    <3>1. \A i \in LaneElements(d) : lane[d][i] \in Calls /\ lane[d][i] # r
      BY RemoteTyped DEF RemoteInv, Lane, LaneElements
    <3>2. \A i \in LaneElements(d) : call'[lane[d][i]] = call[lane[d][i]]
      BY <1>1, <3>1
    <3> QED BY <1>6, <2>2, <3>1, <3>2 DEF RemoteInv, Lane, LaneElements
  <2> QED BY <2>1, <2>2
<1> QED BY <1>2, <1>4, <1>7, <1>8 DEF RemoteInv

\* A call that waits behind the others, while there is room for it.
LEMMA WaitKeeps ==
    ASSUME RemoteInv, NEW r \in Calls, call[r] = "idle",
           ~(Cardinality(Holders(CallClient[r])) < InFlight),
           Len(lane[CallClient[r]]) < MaxWaiting,
           CallAt(r, "waiting"),
           lane' = [lane EXCEPT ![CallClient[r]] = Append(@, r)],
           UNCHANGED <<holding, invocation, expired, away, shut, channel>>
    PROVE  RemoteInv'
<1> DEFINE c == CallClient[r]
           waiting == lane'[c]
<1>1. call' = [call EXCEPT ![r] = "waiting"] /\ c \in Callers /\ lane[c] \in Seq(Calls)
  BY RemoteFacts, RemoteTyped DEF CallAt, RemoteInv
<1>2. waiting = Append(lane[c], r) /\ \A d \in Callers : d # c => lane'[d] = lane[d]
  BY <1>1, RemoteTyped DEF RemoteInv
<1>3. /\ waiting \in Seq(Calls) /\ Len(waiting) = Len(lane[c]) + 1 /\ Len(lane[c]) \in Nat
      /\ waiting[Len(lane[c]) + 1] = r
      /\ \A i \in 1 .. Len(lane[c]) : waiting[i] = lane[c][i]
  BY <1>1, <1>2, AppendOf
<1>4. RemoteTypeOK'
  <2>1. lane' \in [Callers -> Seq(Calls)]
    BY <1>1, <1>2, <1>3, RemoteTyped DEF RemoteInv
  <2> QED BY <1>1, <2>1 DEF RemoteInv, RemoteTypeOK, Pending
<1>5. \A d \in Callers : \A i \in LaneElements(d) :
        lane[d][i] \in Calls /\ lane[d][i] # r /\ call'[lane[d][i]] = "waiting"
  BY <1>1, RemoteTyped DEF RemoteInv, Lane, LaneElements
<1>6. \A d \in Callers : Holders(d)' = Holders(d)
  BY DEF Holders
<1>7. \A q \in Calls : Standing(q)'
  <2>1. Standing(r)'
    BY <1>1, <1>3, RemoteTyped DEF RemoteInv, Standing, LaneElements
  <2>2. ASSUME NEW q \in Calls, q # r PROVE Standing(q)'
    <3>1. UNCHANGED <<call[q], invocation[q], holding>>
      BY <1>1, <2>2, RemoteTyped DEF RemoteInv
    <3>2. ASSUME call[q] = "waiting"
          PROVE  \E i \in LaneElements(CallClient[q])' : lane'[CallClient[q]][i] = q
      <4>1. PICK i \in LaneElements(CallClient[q]) : lane[CallClient[q]][i] = q
        BY <3>2 DEF RemoteInv, Standing
      <4>2. CallClient[q] \in Callers
        BY RemoteFacts
      <4> QED BY <1>2, <1>3, <4>1, <4>2 DEF LaneElements
    <3> QED BY <3>1, <3>2 DEF RemoteInv, Standing
  <2> QED BY <2>1, <2>2
<1>8. \A d \in Callers : Lane(d)'
  <2>1. Lane(c)'
    <3>1. Len(waiting) <= MaxWaiting
      BY <1>3, RemoteFacts
    <3>2. \A i \in LaneElements(c)' : i \in LaneElements(c) \/ i = Len(lane[c]) + 1
      BY <1>3 DEF LaneElements
    <3>3. \A i \in LaneElements(c)' : call'[waiting[i]] = "waiting" /\ CallClient[waiting[i]] = c
      BY <1>1, <1>3, <1>5, <3>2, RemoteTyped DEF RemoteInv, Lane, LaneElements
    <3>4. \A i, j \in LaneElements(c)' : waiting[i] = waiting[j] => i = j
      BY <1>1, <1>3, <1>5, <3>2 DEF RemoteInv, Lane, LaneElements
    <3>5. Cardinality(Holders(c)') = InFlight
      BY <1>1, <1>6, RemoteFacts, HoldersFinite DEF RemoteInv, Lane
    <3>6. Cardinality(Holders(c)') <= InFlight
      BY <3>5, RemoteFacts
    <3> HIDE DEF c
    <3> QED BY <3>1, <3>3, <3>4, <3>5, <3>6 DEF Lane, LaneElements
  <2>2. ASSUME NEW d \in Callers, d # c PROVE Lane(d)'
    BY <1>2, <1>5, <1>6, <2>2 DEF RemoteInv, Lane, LaneElements
  <2> QED BY <2>1, <2>2
<1> QED BY <1>4, <1>7, <1>8 DEF RemoteInv

\* The call that has waited longest, and those behind it.
LEMMA FirstInLane ==
    ASSUME RemoteInv, NEW c \in Callers, lane[c] # <<>>
    PROVE  LET h == Head(lane[c]) IN
           /\ h \in Calls /\ h = lane[c][1] /\ CallClient[h] = c /\ h \notin holding
           /\ call[h] = "waiting" /\ invocation[h] = "none"
           /\ Len(lane[c]) \in Nat \ {0} /\ lane[c] \in Seq(Calls)
           /\ \A i \in LaneElements(c) : lane[c][i] = h => i = 1
           /\ \A i \in LaneElements(c) : lane[c][i] \in Calls
<1>1. lane[c] \in Seq(Calls)
  BY RemoteTyped DEF RemoteInv
<1>2. Head(lane[c]) = lane[c][1] /\ lane[c][1] \in Calls /\ Len(lane[c]) \in Nat \ {0}
  BY <1>1, TailOf
<1>3. 1 \in LaneElements(c) /\ \A i \in LaneElements(c) : lane[c][i] \in Calls
  BY <1>1, <1>2 DEF LaneElements
<1> QED BY <1>1, <1>2, <1>3 DEF RemoteInv, Lane, Standing

\* A lane that is full moves up for one more call.
LEMMA LaneMovesUp ==
    ASSUME RemoteInv, NEW r \in Calls, call[r] = "idle", MaxWaiting # 0,
           Len(lane[CallClient[r]]) = MaxWaiting, Cardinality(Holders(CallClient[r])) = InFlight,
           call' = [call EXCEPT ![r] = "waiting", ![lane[CallClient[r]][1]] = "refused"],
           lane' \in [Callers -> Seq(Calls)], Len(lane'[CallClient[r]]) = MaxWaiting,
           lane'[CallClient[r]][MaxWaiting] = r,
           \A i \in 1 .. MaxWaiting - 1 : lane'[CallClient[r]][i] = lane[CallClient[r]][i + 1],
           \A d \in Callers : d # CallClient[r] => lane'[d] = lane[d],
           UNCHANGED <<holding, invocation, expired, away, shut, channel>>
    PROVE  RemoteInv'
<1> PICK c \in Callers : CallClient[r] = c
  BY RemoteFacts
<1> PICK n \in Nat \ {0} : MaxWaiting = n
  BY RemoteFacts
<1> PICK first \in Calls : lane[c][1] = first
  BY RemoteTyped DEF RemoteInv
<1>1. \A d \in Callers : \A i \in LaneElements(d) :
        /\ lane[d][i] \in Calls /\ lane[d][i] # r
        /\ CallClient[lane[d][i]] = d /\ call[lane[d][i]] = "waiting"
  BY RemoteTyped DEF RemoteInv, Lane, LaneElements
<1>2. 1 \in LaneElements(c) /\ LaneElements(c) = 1 .. n /\ LaneElements(c)' = 1 .. n
  BY DEF LaneElements
<1>3. first # r /\ call[first] = "waiting" /\ CallClient[first] = c
  BY <1>1, <1>2
<1>4. /\ call'[r] = "waiting" /\ call'[first] = "refused"
      /\ \A q \in Calls : q # r /\ q # first => call'[q] = call[q]
  BY <1>3, RemoteTyped DEF RemoteInv
<1>5. \A i, j \in 1 .. n : lane[c][i] = lane[c][j] => i = j
  BY <1>2 DEF RemoteInv, Lane
<1>6. RemoteTypeOK'
  <2>1. call' \in [Calls -> CallPhases]
    BY RemoteTyped DEF RemoteInv, CallPhases, Pending
  <2> QED BY <2>1 DEF RemoteInv, RemoteTypeOK, CallPhases
<1>7. \A d \in Callers : Holders(d)' = Holders(d)
  BY DEF Holders
<1>8. \A i \in 1 .. n - 1 : i + 1 \in 1 .. n /\ i + 1 # 1 /\ i \in 1 .. n
  OBVIOUS
<1>9. \A i \in 1 .. n : i \in 1 .. n - 1 \/ i = n
  OBVIOUS
<1>10. \A q \in Calls : Standing(q)'
  <2>1. Standing(r)'
    <3>1. call'[r] = "waiting" /\ n \in LaneElements(c)' /\ UNCHANGED <<invocation[r], holding>>
      BY <1>2, <1>4
    <3>2. r \notin holding /\ invocation[r] = "none"
      BY DEF RemoteInv, Standing
    <3> QED BY <3>1, <3>2 DEF Standing
  <2>2. Standing(first)'
    <3>1. call'[first] = "refused" /\ UNCHANGED <<invocation[first], holding>>
      BY <1>4
    <3>2. first \notin holding /\ invocation[first] = "none"
      BY <1>3 DEF RemoteInv, Standing
    <3> QED BY <3>1, <3>2 DEF Standing
  <2>3. ASSUME NEW q \in Calls, q # r, q # first PROVE Standing(q)'
    <3>1. UNCHANGED <<call[q], invocation[q], holding>>
      BY <1>4, <2>3
    <3>2. ASSUME call[q] = "waiting"
          PROVE  \E i \in LaneElements(CallClient[q])' : lane'[CallClient[q]][i] = q
      <4>1. PICK i \in LaneElements(CallClient[q]) : lane[CallClient[q]][i] = q
        BY <3>2 DEF RemoteInv, Standing
      <4>2. CallClient[q] \in Callers
        BY RemoteFacts
      <4>3. CASE CallClient[q] = c
        <5>1. i # 1 /\ i \in 1 .. n /\ lane[c][i] = q
          BY <1>2, <2>3, <4>1, <4>3
        <5>2. i - 1 \in 1 .. n - 1 /\ (i - 1) + 1 = i
          BY <5>1
        <5>3. lane'[c][i - 1] = q
          BY <5>1, <5>2
        <5>4. i - 1 \in LaneElements(c)'
          BY <1>2, <1>8, <5>2
        <5> QED BY <4>3, <5>3, <5>4
      <4>4. CASE CallClient[q] # c
        BY <4>1, <4>2, <4>4 DEF LaneElements
      <4> QED BY <4>3, <4>4
    <3>3. Standing(q)
      BY DEF RemoteInv
    <3> QED BY <3>1, <3>2, <3>3 DEF Standing
  <2> QED BY <2>1, <2>2, <2>3
<1>11. \A d \in Callers : Lane(d)'
  <2>1. Lane(c)'
    <3>1. \A i \in 1 .. n - 1 :
            /\ lane'[c][i] = lane[c][i + 1]
            /\ lane[c][i + 1] \in Calls \ {r, first} /\ CallClient[lane[c][i + 1]] = c
            /\ call[lane[c][i + 1]] = "waiting"
      BY <1>1, <1>2, <1>5, <1>8
    <3>2. \A i \in 1 .. n - 1 :
            call'[lane'[c][i]] = "waiting" /\ CallClient[lane'[c][i]] = c /\ lane'[c][i] # r
      <4> SUFFICES ASSUME NEW i \in 1 .. n - 1
                   PROVE  /\ call'[lane'[c][i]] = "waiting"
                          /\ CallClient[lane'[c][i]] = c /\ lane'[c][i] # r
        OBVIOUS
      <4>1. call'[lane[c][i + 1]] = call[lane[c][i + 1]]
        BY <1>4, <3>1
      <4> QED BY <3>1, <4>1
    <3>3. ASSUME NEW i \in 1 .. n
          PROVE  call'[lane'[c][i]] = "waiting" /\ CallClient[lane'[c][i]] = c
      <4>1. CASE i = n
        BY <1>4, <4>1
      <4> QED BY <1>9, <3>2, <4>1
    <3>4. ASSUME NEW i \in 1 .. n - 1, NEW j \in 1 .. n - 1, lane'[c][i] = lane'[c][j]
          PROVE  i = j
      <4>1. lane[c][i + 1] = lane[c][j + 1]
        BY <3>1, <3>4
      <4>2. i + 1 = j + 1
        BY <1>5, <1>8, <4>1
      <4> QED BY <4>2
    <3>5. \A i, j \in 1 .. n : lane'[c][i] = lane'[c][j] => i = j
      BY <1>9, <3>2, <3>4
    <3>6. Cardinality(Holders(c)') = InFlight /\ Cardinality(Holders(c)') <= InFlight
          /\ Len(lane'[c]) <= MaxWaiting
      BY <1>7, RemoteFacts
    <3> QED BY <1>2, <3>3, <3>5, <3>6 DEF Lane
  <2>2. ASSUME NEW d \in Callers, d # c PROVE Lane(d)'
    <3>1. ASSUME NEW i \in LaneElements(d) PROVE lane[d][i] # first /\ call'[lane[d][i]] = "waiting"
      <4>1. /\ lane[d][i] \in Calls \ {r} /\ CallClient[lane[d][i]] = d
            /\ call[lane[d][i]] = "waiting"
        BY <1>1
      <4>2. lane[d][i] # first
        BY <1>3, <2>2, <4>1
      <4>3. call'[lane[d][i]] = call[lane[d][i]]
        BY <1>4, <4>1, <4>2
      <4> QED BY <4>1, <4>2, <4>3
    <3>2. lane'[d] = lane[d] /\ Holders(d)' = Holders(d) /\ Lane(d)
      BY <1>7, <2>2 DEF RemoteInv
    <3> QED BY <3>1, <3>2 DEF Lane, LaneElements
  <2> QED BY <2>1, <2>2
<1> QED BY <1>6, <1>10, <1>11 DEF RemoteInv

\* Past the limit the call that has waited longest is dropped.
LEMMA OverflowKeeps ==
    ASSUME RemoteInv, NEW r \in Calls, call[r] = "idle",
           ~(Cardinality(Holders(CallClient[r])) < InFlight),
           ~(Len(lane[CallClient[r]]) < MaxWaiting),
           call' = [call EXCEPT ![r] = "waiting",
                                ![Head(Append(lane[CallClient[r]], r))] = "refused"],
           lane' = [lane EXCEPT ![CallClient[r]] = Tail(Append(lane[CallClient[r]], r))],
           UNCHANGED <<holding, invocation, expired, away, shut, channel>>
    PROVE  RemoteInv'
<1> DEFINE c == CallClient[r]
           waiting == Append(lane[c], r)
           first == Head(waiting)
<1>1. c \in Callers /\ lane[c] \in Seq(Calls) /\ Len(lane[c]) = MaxWaiting
  BY RemoteFacts, RemoteTyped DEF RemoteInv, Lane
<1>2. /\ waiting \in Seq(Calls) /\ Len(waiting) = MaxWaiting + 1 /\ waiting # <<>>
      /\ waiting[MaxWaiting + 1] = r
      /\ \A i \in 1 .. MaxWaiting : waiting[i] = lane[c][i]
  BY <1>1, AppendOf, RemoteFacts
<1>3. /\ Tail(waiting) \in Seq(Calls) /\ Len(Tail(waiting)) = MaxWaiting /\ first = waiting[1]
      /\ \A i \in 1 .. MaxWaiting : Tail(waiting)[i] = waiting[i + 1]
  BY <1>2, TailOf, RemoteFacts
<1>4. lane'[c] = Tail(waiting) /\ \A d \in Callers : d # c => lane'[d] = lane[d]
  BY <1>1, RemoteTyped DEF RemoteInv
<1>5. CASE MaxWaiting = 0
  <2>1. lane[c] = <<>> /\ first = r /\ Tail(waiting) = <<>>
    BY <1>1, <1>2, <1>3, <1>5
  <2>2. lane' = lane
    BY <1>1, <1>4, <2>1, RemoteTyped DEF RemoteInv
  <2>3. call' = [call EXCEPT ![r] = "refused"]
    BY <2>1, RemoteTyped DEF RemoteInv
  <2>4. RemoteTypeOK'
    BY <2>2, <2>3 DEF RemoteInv, RemoteTypeOK, Pending
  <2>5. Standing(r)'
    BY <2>3, RemoteTyped DEF RemoteInv, Standing
  <2>6. \A q \in Calls : q # r => UNCHANGED <<call[q], invocation[q]>>
    BY <2>3, RemoteTyped DEF RemoteInv
  <2>7. call'[r] = "refused"
    BY <2>3, RemoteTyped DEF RemoteInv
  <2> QED BY <2>2, <2>4, <2>5, <2>6, <2>7, LanesStay
<1>6. CASE MaxWaiting # 0
  <2>1. /\ lane[c] # <<>> /\ first = Head(lane[c]) /\ first # r /\ first \in Calls
        /\ call[first] = "waiting" /\ first \notin holding /\ CallClient[first] = c
        /\ \A i \in LaneElements(c) : lane[c][i] = first => i = 1
    <3>1. lane[c] # <<>>
      BY <1>1, <1>6
    <3>2. first = Head(lane[c])
      BY <1>2, <1>3, <1>6, <3>1, <1>1, FirstInLane, RemoteFacts
    <3> QED BY <1>1, <3>1, <3>2, FirstInLane
  <2>2. /\ \A i \in 1 .. MaxWaiting - 1 : lane'[c][i] = lane[c][i + 1]
        /\ lane'[c][MaxWaiting] = r
    <3>1. /\ MaxWaiting \in 1 .. MaxWaiting
          /\ \A i \in 1 .. MaxWaiting - 1 : i \in 1 .. MaxWaiting /\ i + 1 \in 1 .. MaxWaiting
      BY <1>6, RemoteFacts
    <3>2. lane'[c][MaxWaiting] = r
      BY <1>2, <1>3, <1>4, <3>1
    <3>3. ASSUME NEW i \in 1 .. MaxWaiting - 1 PROVE lane'[c][i] = lane[c][i + 1]
      <4>1. lane'[c][i] = waiting[i + 1]
        BY <1>3, <1>4, <3>1
      <4>2. waiting[i + 1] = lane[c][i + 1]
        BY <1>2, <3>1
      <4> QED BY <4>1, <4>2
    <3> QED BY <3>2, <3>3
  <2>3. lane' \in [Callers -> Seq(Calls)] /\ Len(lane'[c]) = MaxWaiting
    BY <1>1, <1>3, <1>4, RemoteTyped DEF RemoteInv
  <2>4. Cardinality(Holders(c)) = InFlight
    BY <1>1, RemoteFacts, HoldersFinite DEF RemoteInv, Lane
  <2>5. call' = [call EXCEPT ![r] = "waiting", ![lane[c][1]] = "refused"]
    BY <1>1, <2>1, FirstInLane
  <2>6. \A d \in Callers : d # c => lane'[d] = lane[d]
    BY <1>4
  <2>7. Len(lane[c]) = MaxWaiting
    BY <1>1
  <2> QED BY <1>6, <2>2, <2>3, <2>4, <2>5, <2>6, <2>7, LaneMovesUp
<1> QED BY <1>5, <1>6

LEMMA InvokeKeeps ==
    ASSUME RemoteInv, NEW r \in Calls, Invoke(r)
    PROVE  RemoteInv'
<1> DEFINE c == CallClient[r]
<1>1. call[r] = "idle" /\ UNCHANGED <<invocation, expired, away, shut, channel>>
  BY DEF Invoke
<1>2. CASE CallAt(r, "refused") /\ UNCHANGED <<lane, holding>>
  <2>1. RemoteTypeOK'
    BY <1>1, <1>2 DEF CallAt, RemoteInv, RemoteTypeOK, Pending
  <2>2. Standing(r)' /\ call'[r] = "refused" /\ \A q \in Calls : q # r => UNCHANGED <<call[q], invocation[q]>>
    BY <1>1, <1>2, RemoteTyped DEF CallAt, RemoteInv, Standing
  <2> QED BY <1>1, <1>2, <2>1, <2>2, LanesStay
<1>3. CASE Cardinality(Holders(c)) < InFlight /\ holding' = holding \cup {r} /\ CallAt(r, "granted")
           /\ UNCHANGED lane
  BY <1>1, <1>3, GrantKeeps
<1>4. CASE ~(Cardinality(Holders(c)) < InFlight) /\ Enqueue(c, r) /\ UNCHANGED holding
  <2>1. /\ c \in Callers /\ lane[c] \in Seq(Calls) /\ Len(lane[c]) \in Nat
        /\ Len(Append(lane[c], r)) = Len(lane[c]) + 1
    BY RemoteFacts, RemoteTyped, AppendOf DEF RemoteInv
  <2>2. CASE Len(lane[c]) < MaxWaiting
    <3>1. ~(Len(Append(lane[c], r)) > MaxWaiting)
      BY <2>1, <2>2, RemoteFacts
    <3>2. CallAt(r, "waiting") /\ lane' = [lane EXCEPT ![c] = Append(lane[c], r)]
      BY <1>4, <3>1 DEF Enqueue
    <3> QED BY <1>1, <1>4, <2>2, <3>2, WaitKeeps
  <2>3. CASE ~(Len(lane[c]) < MaxWaiting)
    <3>1. Len(Append(lane[c], r)) > MaxWaiting
      BY <2>1, <2>3, RemoteFacts
    <3>2. /\ call' = [call EXCEPT ![r] = "waiting", ![Head(Append(lane[c], r))] = "refused"]
          /\ lane' = [lane EXCEPT ![c] = Tail(Append(lane[c], r))]
      BY <1>4, <3>1 DEF Enqueue
    <3> QED BY <1>1, <1>4, <2>3, <3>2, OverflowKeeps
  <2> QED BY <2>2, <2>3
<1> QED BY <1>2, <1>3, <1>4 DEF Invoke

\* A slot that nobody waits for.
LEMMA FreeKeeps ==
    ASSUME RemoteInv, NEW r \in Calls, r \in holding, Ended(r), InvocationOver(r),
           lane[CallClient[r]] = <<>>, holding' = holding \ {r},
           UNCHANGED <<call, lane, invocation, expired, away, shut, channel>>
    PROVE  RemoteInv'
<1> PICK c \in Callers : CallClient[r] = c
  BY RemoteFacts
<1>1. RemoteTypeOK' /\ IsFiniteSet(holding')
  BY FS_RemoveElement DEF RemoteInv, RemoteTypeOK
<1>2. \A q \in Calls : Standing(q)'
  BY DEF RemoteInv, Standing, Ended, InvocationOver, LaneElements
<1>3. Cardinality(Holders(c)') <= InFlight
  <2>1. Holders(c)' = Holders(c) \ {r} /\ r \in Holders(c)
    BY DEF Holders
  <2>2. Cardinality(Holders(c)') = Cardinality(Holders(c)) - 1
    BY <2>1, HoldersFinite, FS_RemoveElement DEF RemoteInv
  <2>3. Cardinality(Holders(c)) <= InFlight /\ Cardinality(Holders(c)) \in Nat
    BY HoldersFinite DEF RemoteInv, Lane
  <2> QED BY <2>2, <2>3, RemoteFacts
<1>4. \A d \in Callers : d # c => Holders(d)' = Holders(d)
  BY DEF Holders
<1>5. \A d \in Callers : Lane(d)'
  <2>1. Lane(c)'
    <3>1. LaneElements(c)' = {} /\ lane'[c] = <<>>
      BY DEF LaneElements
    <3> QED BY <1>3, <3>1, RemoteFacts DEF Lane
  <2>2. ASSUME NEW d \in Callers, d # c PROVE Lane(d)'
    BY <1>4, <2>2 DEF RemoteInv, Lane, LaneElements
  <2> QED BY <2>1, <2>2
<1> QED BY <1>1, <1>2, <1>5 DEF RemoteInv

\* The slot goes to the call that has waited longest.
LEMMA HandOverKeeps ==
    ASSUME RemoteInv, NEW r \in Calls, r \in holding, Ended(r), InvocationOver(r),
           lane[CallClient[r]] # <<>>,
           holding' = (holding \ {r}) \cup {Head(lane[CallClient[r]])},
           lane' = [lane EXCEPT ![CallClient[r]] = Tail(@)],
           CallAt(Head(lane[CallClient[r]]), "granted"),
           UNCHANGED <<invocation, expired, away, shut, channel>>
    PROVE  RemoteInv'
<1> PICK c \in Callers : CallClient[r] = c
  BY RemoteFacts
<1>1. /\ Head(lane[c]) \in Calls /\ Head(lane[c]) = lane[c][1] /\ CallClient[Head(lane[c])] = c
      /\ Head(lane[c]) \notin holding /\ call[Head(lane[c])] = "waiting"
      /\ invocation[Head(lane[c])] = "none"
      /\ lane[c] \in Seq(Calls) /\ \A i \in LaneElements(c) : lane[c][i] = Head(lane[c]) => i = 1
  BY FirstInLane
<1> PICK first \in Calls : Head(lane[c]) = first
  BY <1>1
<1>2. /\ Tail(lane[c]) \in Seq(Calls) /\ Len(lane[c]) \in Nat \ {0}
      /\ Len(Tail(lane[c])) = Len(lane[c]) - 1
      /\ \A i \in 1 .. Len(Tail(lane[c])) : Tail(lane[c])[i] = lane[c][i + 1]
  BY <1>1, TailOf
<1> PICK n \in Nat : n = Len(lane[c]) - 1
  <2>1. PICK m \in Nat \ {0} : m = Len(lane[c])
    BY <1>2
  <2>2. m - 1 \in Nat
    OBVIOUS
  <2> QED BY <2>1, <2>2
<1>3. /\ LaneElements(c) = 1 .. n + 1 /\ LaneElements(c)' = 1 .. n
      /\ \A i \in 1 .. n : lane'[c][i] = lane[c][i + 1] /\ i + 1 \in LaneElements(c) /\ i + 1 # 1
      /\ Len(lane'[c]) = n
      /\ \A d \in Callers : d # c => lane'[d] = lane[d]
  <2>1. lane'[c] = Tail(lane[c]) /\ \A d \in Callers : d # c => lane'[d] = lane[d]
    BY RemoteTyped DEF RemoteInv
  <2>2. Len(lane[c]) = n + 1
    BY <1>2
  <2>3. \A i \in 1 .. n : i + 1 \in 1 .. n + 1 /\ i + 1 # 1
    OBVIOUS
  <2> QED BY <1>2, <2>1, <2>2, <2>3 DEF LaneElements
<1>4. call' = [call EXCEPT ![first] = "granted"] /\ holding' = (holding \ {r}) \cup {first} /\ first # r
  BY <1>1 DEF CallAt
<1>5. call'[first] = "granted" /\ \A q \in Calls : q # first => call'[q] = call[q]
  BY <1>4, RemoteTyped DEF RemoteInv
<1>6. RemoteTypeOK'
  <2>1. lane' \in [Callers -> Seq(Calls)]
    BY <1>2, RemoteTyped DEF RemoteInv
  <2> QED BY <1>4, <2>1 DEF RemoteInv, RemoteTypeOK, Pending
<1>7. IsFiniteSet(holding')
  <2>1. IsFiniteSet(holding \ {r})
    BY FS_RemoveElement DEF RemoteInv
  <2> QED BY <1>4, <2>1, FS_AddElement
<1>8. Cardinality(Holders(c)') = InFlight
  <2>1. Holders(c)' = (Holders(c) \ {r}) \cup {first} /\ r \in Holders(c)
        /\ first \notin Holders(c) \ {r}
    BY <1>1, <1>4 DEF Holders
  <2>2. IsFiniteSet(Holders(c)) /\ Cardinality(Holders(c)) = InFlight
    BY HoldersFinite DEF RemoteInv, Lane
  <2>3. IsFiniteSet(Holders(c) \ {r}) /\ Cardinality(Holders(c) \ {r}) = InFlight - 1
    BY <2>1, <2>2, FS_RemoveElement
  <2>4. Cardinality((Holders(c) \ {r}) \cup {first}) = (InFlight - 1) + 1
    BY <2>1, <2>3, FS_AddElement
  <2> QED BY <2>1, <2>4, RemoteFacts
<1>9. \A d \in Callers : d # c => Holders(d)' = Holders(d)
  BY <1>1, <1>4 DEF Holders
<1>10. \A q \in Calls : Standing(q)'
  <2>1. Standing(first)'
    BY <1>1, <1>4, <1>5 DEF Standing
  <2>2. Standing(r)'
    BY <1>4, <1>5 DEF Standing, Ended, InvocationOver
  <2>3. ASSUME NEW q \in Calls, q # first, q # r PROVE Standing(q)'
    <3>1. UNCHANGED <<call[q], invocation[q]>> /\ (q \in holding' <=> q \in holding)
      BY <1>4, <1>5, <2>3
    <3>2. ASSUME call[q] = "waiting"
          PROVE  \E i \in LaneElements(CallClient[q])' : lane'[CallClient[q]][i] = q
      <4>1. PICK i \in LaneElements(CallClient[q]) : lane[CallClient[q]][i] = q
        BY <3>2 DEF RemoteInv, Standing
      <4>2. CallClient[q] \in Callers
        BY RemoteFacts
      <4>3. CASE CallClient[q] = c
        <5>1. i # 1 /\ i \in 1 .. n + 1 /\ lane[c][i] = q
          BY <1>1, <1>3, <2>3, <4>1, <4>3
        <5>2. i - 1 \in 1 .. n /\ (i - 1) + 1 = i
          BY <5>1
        <5>3. lane'[c][i - 1] = q
          BY <1>3, <5>1, <5>2
        <5> QED BY <1>3, <4>3, <5>2, <5>3
      <4>4. CASE CallClient[q] # c
        BY <1>3, <4>1, <4>2, <4>4 DEF LaneElements
      <4> QED BY <4>3, <4>4
    <3>3. Standing(q)
      BY DEF RemoteInv
    <3> QED BY <3>1, <3>2, <3>3 DEF Standing
  <2> QED BY <2>1, <2>2, <2>3
<1>11. \A d \in Callers : Lane(d)'
  <2>1. \A d \in Callers : \A i \in LaneElements(d) :
          lane[d][i] \in Calls /\ CallClient[lane[d][i]] = d /\ call[lane[d][i]] = "waiting"
    BY RemoteTyped DEF RemoteInv, Lane, LaneElements
  <2>2. Lane(c)'
    <3>1. ASSUME NEW i \in 1 .. n
          PROVE  call'[lane'[c][i]] = "waiting" /\ CallClient[lane'[c][i]] = c
      <4>1. /\ lane'[c][i] = lane[c][i + 1] /\ lane[c][i + 1] \in Calls \ {first}
            /\ call[lane[c][i + 1]] = "waiting" /\ CallClient[lane[c][i + 1]] = c
        BY <1>1, <1>3, <2>1
      <4>2. call'[lane[c][i + 1]] = call[lane[c][i + 1]]
        BY <1>5, <4>1
      <4> QED BY <4>1, <4>2
    <3>2. ASSUME NEW i \in 1 .. n, NEW j \in 1 .. n, lane'[c][i] = lane'[c][j] PROVE i = j
      <4>1. lane[c][i + 1] = lane[c][j + 1] /\ i + 1 \in LaneElements(c) /\ j + 1 \in LaneElements(c)
        BY <1>3, <3>2
      <4>2. i + 1 = j + 1
        BY <4>1 DEF RemoteInv, Lane
      <4> QED BY <4>2
    <3>3. Len(lane'[c]) <= MaxWaiting
      <4>1. Len(lane[c]) <= MaxWaiting
        BY DEF RemoteInv, Lane
      <4> QED BY <1>2, <1>3, <4>1, RemoteFacts
    <3>4. Cardinality(Holders(c)') <= InFlight
      BY <1>8, RemoteFacts
    <3> QED BY <1>3, <1>8, <3>1, <3>2, <3>3, <3>4 DEF Lane
  <2>3. ASSUME NEW d \in Callers, d # c PROVE Lane(d)'
    <3>1. ASSUME NEW i \in LaneElements(d) PROVE call'[lane[d][i]] = "waiting"
      <4>1. lane[d][i] \in Calls /\ lane[d][i] # first /\ call[lane[d][i]] = "waiting"
        BY <1>1, <2>1, <2>3
      <4> QED BY <1>5, <4>1
    <3>2. lane'[d] = lane[d] /\ Holders(d)' = Holders(d) /\ Lane(d)
      BY <1>3, <1>9, <2>3 DEF RemoteInv
    <3> QED BY <3>1, <3>2 DEF Lane, LaneElements
  <2> QED BY <2>2, <2>3
<1> QED BY <1>6, <1>7, <1>10, <1>11 DEF RemoteInv

LEMMA ReturnKeeps == ASSUME RemoteInv, NEW r \in Calls, ReturnSlot(r) PROVE RemoteInv'
  BY FreeKeeps, HandOverKeeps DEF ReturnSlot, GiveSlot

LEMMA RemoteStep == ASSUME RemoteInv, [NextRemote]_remoteVars PROVE RemoteInv'
<1>1. ASSUME NEW c \in Callers, Leave(c) PROVE RemoteInv'
  BY <1>1, AbandonKeeps DEF Leave, RemoteInv, RemoteTypeOK
<1>2. CASE DisposeChannel
  BY <1>2, AbandonKeeps DEF DisposeChannel, RemoteInv, RemoteTypeOK
<1> QED BY <1>1, <1>2, InvokeKeeps, RunKeeps, ReturnKeeps, SettlesKeeps, AsideKeeps
       DEF NextRemote, CallStep

-----------------------------------------------------------------------------
(* The remote channel: the theorems *)

\* Every call is where its slot and its native call are, a lane holds each call
\* that waits once, and calls wait only while all slots of their client are taken.
THEOREM RemoteInvariant == RemoteSteps => []RemoteInv
<1>1. RemoteInv /\ [NextRemote]_remoteVars => RemoteInv'
  BY RemoteStep
<1> QED BY RemoteStarts, <1>1, PTL DEF RemoteSteps

\* No client has more native calls under way than it has slots, those included
\* that were answered at their timeout and still run; and no call waits while one
\* of these slots is free.
THEOREM LanesAreBounded == RemoteSteps => [](LanesBounded /\ LanesHold)
<1>1. RemoteInv => LanesBounded /\ LanesHold
  <2> SUFFICES ASSUME RemoteInv, NEW c \in Callers
               PROVE  /\ Cardinality({r \in Calls : CallClient[r] = c /\ invocation[r] = "running"})
                            <= InFlight
                      /\ Len(lane[c]) <= MaxWaiting
                      /\ lane[c] # <<>> => Cardinality(Holders(c)) = InFlight
    BY DEF LanesBounded, LanesHold
  <2> DEFINE onNative == {r \in Calls : CallClient[r] = c /\ invocation[r] = "running"}
  <2>1. onNative \subseteq Holders(c)
    BY DEF RemoteInv, Standing, Holders
  <2>2. Cardinality(onNative) <= Cardinality(Holders(c)) /\ Cardinality(onNative) \in Nat
    BY <2>1, HoldersFinite, FS_Subset, FS_CardinalityType DEF RemoteInv
  <2>3. Cardinality(Holders(c)) <= InFlight /\ Cardinality(Holders(c)) \in Nat
    BY HoldersFinite DEF RemoteInv, Lane
  <2> HIDE DEF onNative
  <2>4. Cardinality(onNative) <= InFlight
    BY <2>2, <2>3, RemoteFacts
  <2> QED BY <2>4 DEF RemoteInv, Lane, onNative
<1> QED BY RemoteInvariant, <1>1, PTL

\* Nothing is started for a session, a client or a channel that ended while the
\* call waited for its slot.
THEOREM NothingStartsStale == RemoteSteps => NothingStale
<1>1. RemoteInv /\ [NextRemote]_remoteVars
        => [\A r \in Calls : invocation[r] = "none" /\ invocation'[r] = "running"
                => ~Aborted(r)]_remoteVars
  <2> SUFFICES ASSUME RemoteInv, NextRemote, NEW r \in Calls,
                      invocation[r] = "none", invocation'[r] = "running"
               PROVE  ~Aborted(r)
    OBVIOUS
  <2>1. PICK q \in Calls : Run(q) \/ InvocationSettles(q)
    BY DEF NextRemote, CallStep, Invoke, Reply, ReturnSlot, Expire, Leave, CloseScope,
           DisposeChannel, ChannelDisposed
  <2>2. Run(q) /\ q = r
    BY <2>1, RemoteTyped DEF Run, InvocationSettles, RemoteInv
  <2> QED BY <2>2 DEF Run
<1> QED BY RemoteInvariant, <1>1, PTL DEF RemoteSteps, NothingStale

\* What follows the start of a sequence.
LEMMA ComesBehind ==
    ASSUME NEW S, NEW s \in Seq(S), NEW e \in S
    PROVE  /\ IsPrefix(s, s) /\ IsPrefix(s, Append(s, e))
           /\ s # <<>> => IsPrefix(Tail(s), Tail(s)) /\ IsPrefix(Tail(s), Tail(Append(s, e)))
<1>1. ASSUME NEW t \in Seq(S), NEW u \in Seq(S), Len(t) <= Len(u),
             \A i \in 1 .. Len(t) : t[i] = u[i]
      PROVE  IsPrefix(t, u)
  BY <1>1 DEF IsPrefix
<1>2. IsPrefix(s, s) /\ IsPrefix(s, Append(s, e))
  <2>1. IsPrefix(s, s)
    BY DEF IsPrefix
  <2>2. Append(s, e) \in Seq(S) /\ Len(s) <= Len(Append(s, e))
        /\ \A i \in 1 .. Len(s) : s[i] = Append(s, e)[i]
    BY AppendOf
  <2> QED BY <1>1, <2>1, <2>2
<1>3. ASSUME s # <<>> PROVE IsPrefix(Tail(s), Tail(s)) /\ IsPrefix(Tail(s), Tail(Append(s, e)))
  <2>1. /\ Tail(s) \in Seq(S) /\ Len(s) \in Nat \ {0} /\ Len(Tail(s)) = Len(s) - 1
        /\ \A i \in 1 .. Len(Tail(s)) : Tail(s)[i] = s[i + 1]
    BY <1>3, TailOf
  <2>2. /\ Append(s, e) \in Seq(S) /\ Append(s, e) # <<>> /\ Len(Append(s, e)) = Len(s) + 1
        /\ \A i \in 1 .. Len(s) : Append(s, e)[i] = s[i]
    BY AppendOf
  <2>3. /\ Tail(Append(s, e)) \in Seq(S) /\ Len(Tail(Append(s, e))) = Len(s)
        /\ \A i \in 1 .. Len(s) : Tail(Append(s, e))[i] = Append(s, e)[i + 1]
    BY <2>1, <2>2, TailOf
  <2>4. \A i \in 1 .. Len(Tail(s)) : Tail(s)[i] = Tail(Append(s, e))[i]
    BY <2>1, <2>2, <2>3
  <2>5. Len(Tail(s)) <= Len(Tail(Append(s, e)))
    BY <2>1, <2>3
  <2>6. IsPrefix(Tail(s), Tail(s))
    BY <2>1 DEF IsPrefix
  <2> QED BY <1>1, <2>1, <2>3, <2>4, <2>5, <2>6
<1> QED BY <1>2, <1>3

\* What may become of a lane in a step.
InOrder(c) ==
    \/ c \in away' \/ channel' # "open"
    \/ IsPrefix(lane[c], lane'[c])
    \/ /\ lane[c] # <<>> /\ IsPrefix(Tail(lane[c]), lane'[c])
       /\ call'[Head(lane[c])] = "refused" => Len(lane'[c]) = MaxWaiting

LEMMA LaneUntouched ==
    ASSUME RemoteInv, NEW c \in Callers, lane'[c] = lane[c]
    PROVE  InOrder(c)
<1>1. lane[c] \in Seq(Calls)
  BY RemoteTyped DEF RemoteInv
<1>2. IsPrefix(lane[c], lane[c])
  BY <1>1 DEF IsPrefix
<1> QED BY <1>2 DEF InOrder

LEMMA EnqueuesInOrder ==
    ASSUME RemoteInv, NEW r \in Calls, call[r] = "idle", Enqueue(CallClient[r], r)
    PROVE  \A c \in Callers : InOrder(c)
<1> PICK c \in Callers : CallClient[r] = c
  BY RemoteFacts
<1>1. lane[c] \in Seq(Calls) /\ lane \in [Callers -> Seq(Calls)] /\ call \in [Calls -> CallPhases]
  BY RemoteTyped DEF RemoteInv
<1>2. ASSUME NEW d \in Callers, d # c PROVE InOrder(d)
  <2>1. lane'[d] = lane[d]
    BY <1>1, <1>2 DEF Enqueue
  <2> QED BY <2>1, LaneUntouched
<1>3. InOrder(c)
  <2>1. lane'[c] \in {Append(lane[c], r), Tail(Append(lane[c], r))}
    BY <1>1 DEF Enqueue
  <2>2. CASE lane'[c] = Append(lane[c], r)
    BY <1>1, <2>2, ComesBehind DEF InOrder
  <2>3. CASE lane'[c] = Tail(Append(lane[c], r)) /\ ~(Len(Append(lane[c], r)) <= MaxWaiting)
    <3>1. /\ Append(lane[c], r) \in Seq(Calls) /\ Len(Append(lane[c], r)) = Len(lane[c]) + 1
          /\ Len(lane[c]) \in Nat
      BY <1>1, AppendOf
    <3>2. Len(lane[c]) <= MaxWaiting
      BY DEF RemoteInv, Lane
    <3>3. Len(lane[c]) = MaxWaiting
      BY <2>3, <3>1, <3>2, RemoteFacts
    <3>4. Append(lane[c], r) # <<>>
      BY <3>1
    <3>5. Len(lane'[c]) = MaxWaiting /\ lane'[c] \in Seq(Calls)
      BY <2>3, <3>1, <3>3, <3>4, TailOf
    <3>6. CASE lane[c] = <<>>
      BY <3>5, <3>6, RemoteFacts DEF IsPrefix, InOrder
    <3>7. CASE lane[c] # <<>>
      BY <1>1, <2>3, <3>5, <3>7, ComesBehind DEF InOrder
    <3> QED BY <3>6, <3>7
  <2>4. Len(Append(lane[c], r)) > MaxWaiting <=> ~(Len(Append(lane[c], r)) <= MaxWaiting)
    BY <1>1, AppendOf, RemoteFacts
  <2> QED BY <1>1, <2>2, <2>3, <2>4 DEF Enqueue
<1> QED BY <1>2, <1>3

LEMMA GivesInOrder ==
    ASSUME RemoteInv, NEW r \in Calls, GiveSlot(r)
    PROVE  \A c \in Callers : InOrder(c)
<1> PICK c \in Callers : CallClient[r] = c
  BY RemoteFacts
<1>1. CASE lane[c] = <<>>
  BY <1>1, LaneUntouched DEF GiveSlot
<1>2. CASE lane[c] # <<>>
  <2>1. lane' = [lane EXCEPT ![c] = Tail(@)] /\ CallAt(Head(lane[c]), "granted")
    BY <1>2 DEF GiveSlot
  <2>2. lane \in [Callers -> Seq(Calls)] /\ call \in [Calls -> CallPhases]
    BY RemoteTyped DEF RemoteInv
  <2>3. Head(lane[c]) \in Calls
    BY <1>2, FirstInLane
  <2>4. lane'[c] = Tail(lane[c]) /\ call'[Head(lane[c])] = "granted"
    BY <2>1, <2>2, <2>3 DEF CallAt
  <2>5. IsPrefix(Tail(lane[c]), Tail(lane[c]))
    BY <1>2, <2>2, <2>3, ComesBehind
  <2>6. InOrder(c)
    BY <1>2, <2>4, <2>5 DEF InOrder
  <2>7. ASSUME NEW d \in Callers, d # c PROVE InOrder(d)
    <3>1. lane'[d] = lane[d]
      BY <2>1, <2>2, <2>7
    <3> QED BY <3>1, LaneUntouched
  <2> QED BY <2>6, <2>7
<1> QED BY <1>1, <1>2

\* A lane hands out the slots in the order of the calls; one that has waited is
\* given up only with its client or the channel, or because newer ones fill the lane.
THEOREM OldestIsServedFirst == RemoteSteps => OldestFirst
<1>1. RemoteInv /\ [NextRemote]_remoteVars => [\A c \in Callers : InOrder(c)]_remoteVars
  <2> SUFFICES ASSUME RemoteInv, NextRemote PROVE \A c \in Callers : InOrder(c)
    OBVIOUS
  <2>1. CASE UNCHANGED lane
    BY <2>1, LaneUntouched
  <2>2. ASSUME NEW r \in Calls, Invoke(r) PROVE \A c \in Callers : InOrder(c)
    BY <2>2, EnqueuesInOrder, LaneUntouched DEF Invoke
  <2>3. ASSUME NEW r \in Calls, ReturnSlot(r) PROVE \A c \in Callers : InOrder(c)
    BY <2>3, GivesInOrder DEF ReturnSlot
  <2>4. ASSUME NEW c \in Callers, Leave(c) PROVE \A d \in Callers : InOrder(d)
    <3>1. c \in away' /\ lane' = [d \in Callers |-> IF d \in {c} THEN <<>> ELSE lane[d]]
      BY <2>4 DEF Leave, Abandon
    <3>2. InOrder(c)
      BY <3>1 DEF InOrder
    <3>3. ASSUME NEW d \in Callers, d # c PROVE InOrder(d)
      <4>1. lane'[d] = lane[d]
        BY <3>1, <3>3
      <4> QED BY <4>1, LaneUntouched
    <3> QED BY <3>2, <3>3
  <2>5. CASE DisposeChannel
    BY <2>5 DEF DisposeChannel, InOrder
  <2>6. CASE \/ \E r \in Calls : Run(r) \/ Reply(r) \/ Expire(r) \/ InvocationSettles(r)
             \/ \E s \in Bound : CloseScope(s)
             \/ ChannelDisposed
    BY <2>1, <2>6 DEF Run, Reply, Expire, InvocationSettles, CloseScope, ChannelDisposed
  <2> QED BY <2>2, <2>3, <2>4, <2>5, <2>6 DEF NextRemote, CallStep
<1>2. RemoteSteps => [][\A c \in Callers : InOrder(c)]_remoteVars
  BY RemoteInvariant, <1>1, PTL DEF RemoteSteps
<1> QED BY <1>2 DEF OldestFirst, InOrder

-----------------------------------------------------------------------------
(* The Tasks pane: the inductive invariant *)

ReminderRows == [Reminders -> {"none", "first", "next", "ended", "deleted"}]
Rounds == [at : {"none", "listing", "catalog"}, rows : ReminderRows \cup {Unset}, asOf : Nat]
Questions == [at : {"idle", "writing", "written", "listing", "emitting", "answered", "refused"},
              wrote : Nat, emission : {"none", "queued", "running", "done", "failed"}]

RemindersTyping ==
    /\ schedule \in ReminderRows
    /\ pane \in [Reminders -> {"none", "old", "first", "next"}]
    /\ remindersSent \in [Reminders -> {"none", "first", "next"}] \cup {Unset}
    /\ writes \in Nat /\ writes <= MaxWrites /\ paneAsOf \in Nat
    /\ round \in Rounds /\ (round.at = "catalog" => round.rows \in ReminderRows)
    /\ ask \in Questions

\* The pane is not newer than the writes, nor than the read that will bring it up
\* to date, so that it never goes back.
PaneGoesOn ==
    /\ paneAsOf <= writes
    /\ round.at = "catalog" => paneAsOf <= round.asOf /\ round.asOf <= writes

\* A /reminders request waits for a read that begins after its write.
Promised ==
    /\ ask.wrote <= writes
    /\ ask.at \in {"idle", "writing", "written", "listing"} => ask.emission = "none"
    /\ ask.emission = "running" => /\ round.at # "none"
                                   /\ round.at = "catalog" => ask.wrote <= round.asOf
    /\ ask.emission = "done" => ask.wrote <= paneAsOf

JobsTyping == job \in JobEnds \cup {"none", "running", "stopping"} /\ output \in 0..2

\* A kill is told of an end, which is final.
Killed ==
    /\ kill = "waiting" => job # "none"
    /\ kill = "killed" => job = "killed"
    /\ kill = "already_exited" => job \in JobEnds

\* Nothing begins in a service that has been disposed of.
Over == tasks = "done" => ~TaskRequests

PaneInv == RemindersTyping /\ PaneGoesOn /\ Promised
JobInv == JobsTyping /\ Killed
TasksInv == PaneInv /\ JobInv /\ Over

LEMMA TasksStart == InitTasks => TasksInv
<1> SUFFICES ASSUME InitTasks PROVE TasksInv
  OBVIOUS
<1>1. RemindersTyping
  <2>1. writes \in Nat /\ writes <= MaxWrites /\ paneAsOf \in Nat
    BY TasksAssumption DEF InitTasks
  <2>2. round \in Rounds /\ round.at = "none" /\ ask \in Questions
    BY DEF InitTasks, IdleRound, Rounds, Questions
  <2>3. schedule \in ReminderRows /\ pane \in [Reminders -> {"none", "old", "first", "next"}]
    BY DEF InitTasks, ReminderRows
  <2> QED BY <2>1, <2>2, <2>3 DEF InitTasks, RemindersTyping
<1>2. PaneGoesOn /\ Promised
  BY DEF InitTasks, PaneGoesOn, Promised, IdleRound
<1>3. JobInv /\ Over
  BY DEF InitTasks, JobInv, JobsTyping, Killed, Over
<1> QED BY <1>1, <1>2, <1>3 DEF TasksInv, PaneInv

-----------------------------------------------------------------------------
(* The reminders *)

LEMMA PutKeeps ==
    ASSUME RemindersTyping, NEW r \in Reminders, NEW s \in {"first", "next", "ended", "deleted"},
           Put(r, s)
    PROVE  /\ schedule' \in ReminderRows
           /\ writes' \in Nat /\ writes' = writes + 1 /\ writes' <= MaxWrites
  BY TasksAssumption DEF RemindersTyping, Put, ReminderRows

LEMMA RoundOverKeeps ==
    ASSUME RemindersTyping, NEW how \in {"done", "failed"}, RoundOver(how)
    PROVE  /\ round' \in Rounds /\ round'.at = "none" /\ ask' \in Questions
           /\ ask'.at = ask.at /\ ask'.wrote = ask.wrote
           /\ ask'.emission = IF ask.emission = "running" THEN how ELSE ask.emission
<1>1. round' \in Rounds /\ round'.at = "none"
  BY DEF RoundOver, IdleRound, Rounds
<1> QED BY <1>1 DEF RemindersTyping, RoundOver, Questions

LEMMA Publishes ==
    ASSUME PaneInv, NEW rows \in ReminderRows, NEW earlier \in ReminderRows, NEW asOf \in Nat,
           PublishReminders(rows, earlier, asOf), paneAsOf <= asOf, asOf <= writes,
           ask.emission = "running" => ask.wrote <= asOf,
           UNCHANGED <<schedule, writes>>
    PROVE  PaneInv'
<1> USE DEF PaneInv
<1>1. /\ round' \in Rounds /\ round'.at = "none" /\ ask' \in Questions
      /\ ask'.at = ask.at /\ ask'.wrote = ask.wrote
      /\ ask'.emission = IF ask.emission = "running" THEN "done" ELSE ask.emission
  BY RoundOverKeeps DEF PublishReminders
<1>2. pane' \in [Reminders -> {"none", "old", "first", "next"}]
  BY DEF PublishReminders, RemindersTyping, Active
<1>3. remindersSent' \in [Reminders -> {"none", "first", "next"}] \cup {Unset}
  BY DEF PublishReminders, Active
<1>4. paneAsOf' = asOf
  BY DEF PublishReminders
<1>5. RemindersTyping'
  BY <1>1, <1>2, <1>3, <1>4 DEF RemindersTyping
<1>6. PaneGoesOn'
  BY <1>1, <1>4 DEF PaneGoesOn
<1>7. Promised'
  BY <1>1, <1>4 DEF Promised, RemindersTyping, Questions
<1> QED BY <1>5, <1>6, <1>7

\* A read that fails leaves the pane as it is.
LEMMA ReadFails ==
    ASSUME PaneInv, RoundOver("failed"),
           UNCHANGED <<schedule, writes, pane, paneAsOf, remindersSent>>
    PROVE  PaneInv'
<1>1. /\ round' \in Rounds /\ round'.at = "none" /\ ask' \in Questions
      /\ ask'.at = ask.at /\ ask'.wrote = ask.wrote
      /\ ask'.emission = IF ask.emission = "running" THEN "failed" ELSE ask.emission
  BY RoundOverKeeps DEF PaneInv
<1> QED BY <1>1 DEF PaneInv, RemindersTyping, PaneGoesOn, Promised

ReadStep == ReadStarts \/ ListReminders \/ ReadCatalog
AskStep ==
    \/ AskReminders \/ InvokeFails \/ WriteReturns \/ CatalogReturns \/ AskReturns
    \/ \E r \in Reminders : WriteLands(r)

LEMMA ReadsKeep == PaneInv /\ ReadStep => PaneInv'
<1> SUFFICES ASSUME PaneInv, ReadStep PROVE PaneInv'
  OBVIOUS
<1> USE DEF RoundFrame
<1>1. CASE ReadStarts
  <2>1. CASE TasksLive
    <3>1. /\ round' \in Rounds /\ round'.at = "listing"
      BY <1>1, <2>1 DEF ReadStarts, IdleRound, Rounds
    <3>2. /\ ask' \in Questions /\ ask'.at = ask.at /\ ask'.wrote = ask.wrote
          /\ ask'.emission \in {ask.emission, "running"}
          /\ ask'.emission = "running" => ask.emission \in {"queued", "running"}
      BY <1>1, <2>1 DEF ReadStarts, PaneInv, RemindersTyping, Questions
    <3> QED BY <1>1, <3>1, <3>2 DEF ReadStarts, PaneInv, RemindersTyping, PaneGoesOn, Promised
  <2>2. CASE ~TasksLive
    <3>1. /\ ask' \in Questions /\ ask'.at = ask.at /\ ask'.wrote = ask.wrote
          /\ ask'.emission \in {ask.emission, "failed"}
      <4>1. CASE ask.emission = "queued"
        BY <1>1, <2>2, <4>1 DEF ReadStarts, PaneInv, RemindersTyping, Questions
      <4>2. CASE ask.emission # "queued"
        BY <1>1, <2>2, <4>2 DEF ReadStarts, PaneInv, RemindersTyping
      <4> QED BY <4>1, <4>2
    <3> QED BY <1>1, <2>2, <3>1 DEF ReadStarts, PaneInv, RemindersTyping, PaneGoesOn, Promised
  <2> QED BY <2>1, <2>2
<1>2. CASE ListReminders
  <2>1. CASE RoundOver("failed") /\ UNCHANGED <<pane, paneAsOf, remindersSent>>
    BY <1>2, <2>1, ReadFails DEF ListReminders
  <2>2. CASE /\ remindersSent # Unset
             /\ PublishReminders(schedule, remindersSent, writes)
    <3>1. remindersSent \in ReminderRows
      BY <2>2 DEF PaneInv, RemindersTyping, ReminderRows
    <3> QED BY <1>2, <2>2, <3>1, Publishes
            DEF ListReminders, PaneInv, RemindersTyping, PaneGoesOn, Promised
  <2>3. CASE /\ round' = [at |-> "catalog", rows |-> schedule, asOf |-> writes]
             /\ UNCHANGED <<pane, paneAsOf, remindersSent, failed, ask>>
    <3>1. /\ round' \in Rounds /\ round'.at = "catalog" /\ round'.rows = schedule
          /\ round'.asOf = writes
      BY <2>3 DEF PaneInv, RemindersTyping, Rounds
    <3> QED BY <1>2, <2>3, <3>1 DEF ListReminders, PaneInv, RemindersTyping, PaneGoesOn, Promised
  <2> QED BY <1>2, <2>1, <2>2, <2>3 DEF ListReminders
<1>3. CASE ReadCatalog
  <2>1. CASE RoundOver("failed") /\ UNCHANGED <<pane, paneAsOf, remindersSent>>
    BY <1>3, <2>1, ReadFails DEF ReadCatalog
  <2>2. ASSUME NEW earlier, PublishReminders(round.rows, earlier, round.asOf),
               earlier = IF remindersSent # Unset THEN remindersSent
                          ELSE [r \in Reminders |-> IF schedule[r] = "ended" THEN "ended" ELSE "none"]
        PROVE  PaneInv'
    <3>1. earlier \in ReminderRows
      BY <2>2 DEF PaneInv, RemindersTyping, ReminderRows
    <3>2. round.rows \in ReminderRows /\ round.asOf \in Nat /\ round.asOf <= writes
      BY <1>3 DEF ReadCatalog, PaneInv, RemindersTyping, Rounds, PaneGoesOn
    <3> QED BY <1>3, <2>2, <3>1, <3>2, Publishes DEF ReadCatalog, PaneInv, PaneGoesOn, Promised
  <2> QED BY <1>3, <2>1, <2>2 DEF ReadCatalog
<1> QED BY <1>1, <1>2, <1>3 DEF ReadStep

LEMMA AsksKeep == PaneInv /\ AskStep => PaneInv'
<1> SUFFICES ASSUME PaneInv, AskStep PROVE PaneInv'
  OBVIOUS
<1> USE DEF AskFrame, AskAt
<1>1. CASE AskReminders \/ InvokeFails \/ WriteReturns \/ AskReturns
  <2>1. /\ ask' \in Questions /\ ask'.wrote = ask.wrote /\ ask'.emission = ask.emission
        /\ ask'.at \in {"idle", "writing", "written", "listing"}
             => ask.at \in {"idle", "writing", "written", "listing"}
    BY <1>1 DEF AskReminders, InvokeFails, WriteReturns, AskReturns, PaneInv, RemindersTyping,
                Questions
  <2>2. UNCHANGED <<schedule, writes, pane, paneAsOf, remindersSent, round>>
    BY <1>1 DEF AskReminders, InvokeFails, WriteReturns, AskReturns
  <2> QED BY <2>1, <2>2 DEF PaneInv, RemindersTyping, PaneGoesOn, Promised
<1>2. CASE CatalogReturns
  <2>1. /\ ask' \in Questions /\ ask'.wrote = ask.wrote /\ ask'.at \in {"emitting", "refused"}
        /\ ask'.emission \in {"queued", "none"}
    BY <1>2 DEF CatalogReturns, ShareQueued, PaneInv, RemindersTyping, Questions, Promised
  <2> QED BY <1>2, <2>1 DEF CatalogReturns, PaneInv, RemindersTyping, PaneGoesOn, Promised
<1>3. CASE \E r \in Reminders : WriteLands(r)
  <2>1. PICK r \in Reminders : WriteLands(r)
    BY <1>3
  <2>2. PICK s \in {"first", "next", "ended", "deleted"} : Put(r, s)
    BY <2>1 DEF WriteLands
  <2>3. /\ schedule' \in ReminderRows
        /\ writes' \in Nat /\ writes' = writes + 1 /\ writes' <= MaxWrites
    BY <2>2, PutKeeps DEF PaneInv
  <2>4. /\ ask' \in Questions /\ ask'.wrote = writes' /\ ask'.at = "written"
        /\ ask'.emission = "none"
    BY <2>1, <2>3 DEF WriteLands, PaneInv, RemindersTyping, Questions, Promised
  <2> QED BY <2>1, <2>3, <2>4 DEF WriteLands, PaneInv, RemindersTyping, PaneGoesOn, Promised,
                                  Rounds
<1> QED BY <1>1, <1>2, <1>3 DEF AskStep

LEMMA WritesKeep == PaneInv /\ (\E r \in Reminders : HostWrites(r)) => PaneInv'
<1> SUFFICES ASSUME PaneInv, NEW r \in Reminders, HostWrites(r) PROVE PaneInv'
  OBVIOUS
<1>1. PICK s \in {"first", "next", "ended", "deleted"} : Put(r, s)
  BY DEF HostWrites
<1>2. /\ schedule' \in ReminderRows
      /\ writes' \in Nat /\ writes' = writes + 1 /\ writes' <= MaxWrites
  BY <1>1, PutKeeps DEF PaneInv
<1> QED BY <1>2 DEF HostWrites, PaneInv, RemindersTyping, PaneGoesOn, Promised, Rounds, Questions

-----------------------------------------------------------------------------
(* The job, and the disposal *)

JobStep == JobChanges \/ OutputCollected \/ PollJobs \/ KillTask \/ KillReturns

LEMMA JobsKeep == JobInv /\ JobStep => JobInv'
<1> SUFFICES ASSUME JobInv, JobStep PROVE JobInv'
  OBVIOUS
<1> USE DEF JobInv, JobsTyping, Killed, Running, JobEnds
<1>1. CASE JobChanges
  BY <1>1 DEF JobChanges
<1>2. CASE OutputCollected
  BY <1>2 DEF OutputCollected
<1>3. CASE PollJobs
  BY <1>3 DEF PollJobs
<1>4. CASE KillTask
  BY <1>4 DEF KillTask
<1>5. CASE KillReturns
  BY <1>5 DEF KillReturns
<1> QED BY <1>1, <1>2, <1>3, <1>4, <1>5 DEF JobStep

EndStep == CloseTaskSession \/ DisposeTasks \/ TasksDisposed

LEMMA TasksStay == TasksInv /\ [NextTasks]_tasksVars => TasksInv'
<1> SUFFICES ASSUME TasksInv, [NextTasks]_tasksVars PROVE TasksInv'
  OBVIOUS
<1>1. CASE UNCHANGED tasksVars
  BY <1>1 DEF tasksVars, reminderVars, jobVars, TasksInv, PaneInv, RemindersTyping, PaneGoesOn,
              Promised, JobInv, JobsTyping, Killed, Over, TaskRequests
<1>2. CASE NextTasks
  <2>1. \/ ScheduleChanged \/ ReadStep \/ AskStep \/ JobStep \/ EndStep
        \/ \E r \in Reminders : HostWrites(r)
    BY <1>2 DEF NextTasks, TaskWork, ReadStep, AskStep, JobStep, EndStep
  <2>2. PaneInv'
    <3>1. CASE ScheduleChanged \/ JobStep \/ EndStep
      <4>1. UNCHANGED <<schedule, writes, pane, paneAsOf, remindersSent, round, ask>>
        BY <3>1 DEF ScheduleChanged, JobStep, JobChanges, OutputCollected, PollJobs, KillTask,
                    KillReturns, JobFrame, EndStep, CloseTaskSession, DisposeTasks,
                    TasksDisposed, reminderVars
      <4> QED BY <4>1 DEF TasksInv, PaneInv, RemindersTyping, PaneGoesOn, Promised
    <3> QED BY <2>1, <3>1, ReadsKeep, AsksKeep, WritesKeep DEF TasksInv
  <2>3. JobInv'
    <3>1. CASE \/ ScheduleChanged \/ ReadStep \/ AskStep \/ EndStep
               \/ \E r \in Reminders : HostWrites(r)
      <4>1. UNCHANGED <<job, output, kill>>
        BY <3>1 DEF ScheduleChanged, ReadStep, ReadStarts, ListReminders, ReadCatalog,
                    RoundFrame, AskStep, AskReminders, InvokeFails, WriteReturns,
                    CatalogReturns, AskReturns, WriteLands, AskFrame, EndStep,
                    CloseTaskSession, DisposeTasks, TasksDisposed, HostWrites, jobVars
      <4> QED BY <4>1 DEF TasksInv, JobInv, JobsTyping, Killed
    <3> QED BY <2>1, <3>1, JobsKeep DEF TasksInv
  <2>4. Over'
    <3> SUFFICES ASSUME tasks' = "done" PROVE ~TaskRequests'
      BY DEF Over
    <3>1. CASE EndStep
      BY <3>1 DEF EndStep, CloseTaskSession, DisposeTasks, TasksDisposed, reminderVars, jobVars,
                  TaskRequests, TasksInv, Over
    <3>2. CASE ~EndStep
      <4>1. tasks = "done" /\ ~TasksLive
        BY <2>1, <3>2 DEF ScheduleChanged, ReadStep, ReadStarts, ListReminders, ReadCatalog,
                    RoundFrame, AskStep, AskReminders, InvokeFails, WriteReturns,
                    CatalogReturns, AskReturns, WriteLands, AskFrame, HostWrites,
                    JobStep, JobChanges, OutputCollected, PollJobs, KillTask,
                    KillReturns, JobFrame, TasksLive
      <4>2. ~TaskRequests
        BY <4>1 DEF TasksInv, Over
      <4>3. CASE ScheduleChanged \/ \E r \in Reminders : HostWrites(r)
        BY <4>1, <4>2, <4>3 DEF ScheduleChanged, HostWrites, TaskRequests, jobVars
      <4>4. CASE ReadStep
        BY <4>2, <4>4 DEF ReadStep, ReadStarts, ListReminders, ReadCatalog, TaskRequests
      <4>5. CASE AskStep
        <5>1. ask'.at \notin {"writing", "written", "listing", "emitting"}
          BY <4>1, <4>2, <4>5 DEF AskStep, AskReminders, InvokeFails, WriteReturns,
                    CatalogReturns, AskReturns, WriteLands, AskAt, TaskRequests,
                    TasksInv, PaneInv, RemindersTyping, Questions
        <5> QED BY <4>1, <4>2, <4>5, <5>1 DEF AskStep, AskReminders, InvokeFails, WriteReturns,
                    CatalogReturns, AskReturns, WriteLands, AskFrame, jobVars, TaskRequests
      <4>6. CASE JobStep
        BY <4>1, <4>2, <4>6 DEF JobStep, JobChanges, OutputCollected, PollJobs, KillTask,
                    KillReturns, JobFrame, reminderVars, TaskRequests
      <4> QED BY <2>1, <3>2, <4>3, <4>4, <4>5, <4>6
    <3> QED BY <3>1, <3>2
  <2> QED BY <2>2, <2>3, <2>4 DEF TasksInv
<1> QED BY <1>1, <1>2

-----------------------------------------------------------------------------
(* What the pane shows *)

\* Every variable of the Tasks pane keeps its type.
THEOREM TaskTypes == TaskSteps => []TasksTypeOK
<1>1. TasksInv => TasksTypeOK
  <2> SUFFICES ASSUME TasksInv PROVE TasksTypeOK
    OBVIOUS
  <2>1. paneAsOf \in 0..MaxWrites /\ writes \in 0..MaxWrites
    BY TasksAssumption DEF TasksInv, PaneInv, RemindersTyping, PaneGoesOn
  <2> QED BY <2>1 DEF TasksInv, PaneInv, RemindersTyping, JobInv, JobsTyping, TasksTypeOK,
                      ReminderRows, Rounds, Questions
<1> QED BY TasksStart, TasksStay, <1>1, PTL DEF TaskSteps

\* PaneBeforePanel and KillTrue: a /reminders request that is answered after its
\* read has shown the pane as of its own write or later, whichever reads it shared
\* or waited for; a kill is told what became of the job, and nothing is left of a
\* disposed service.
THEOREM AnswersFollowThePane == TaskSteps => [](PaneBeforePanel /\ KillTrue)
<1>1. TasksInv => PaneBeforePanel /\ KillTrue
  BY DEF TasksInv, PaneInv, Promised, JobInv, Killed, Over, PaneBeforePanel, KillTrue,
         RemindersTyping, Questions
<1> QED BY TasksStart, TasksStay, <1>1, PTL DEF TaskSteps

-----------------------------------------------------------------------------
(* The children of a session: the inductive invariant *)

Marks == Outcomes \cup {"open"}
Reads == [prefix : Seq(Marks), busy : BOOLEAN, cold : BOOLEAN, fixed : BOOLEAN]
StopPhases == {"idle", "listing", "reading", "interrupting", "answered"}
Stops == [phase : StopPhases, child : Children \cup {Nothing}, agent : Nat, from : Nat,
          watch : Nat, settled : Outcomes \cup {Nothing}, aborted : BOOLEAN]

NativeTyping ==
    /\ turns \in [Children -> Seq(Marks)]
    /\ spawned \in [Children -> Nat] /\ agentOf \in [Children -> Nat]
    /\ running \in [Children -> BOOLEAN]

ClientTyping ==
    /\ known \in [Children -> ChildState \cup {Nothing}]
    /\ view \in [Children -> Told \cup {Nothing}]
    /\ stop \in Stops

ChildrenTyping ==
    /\ NativeTyping /\ ClientTyping
    /\ cut \in [Children -> Reads \cup {Nothing}]
    /\ overtaken \in [Children -> SUBSET Nat]
    /\ restored \subseteq joined
    /\ joined \subseteq Workers /\ awaited \subseteq joined /\ shown \subseteq joined

\* A child in a turn runs.
RunsInTurn(c) == InTurn(c) => running[c]

\* The client is behind what the host keeps of a child, and that behind its log;
\* what the client takes for ended has ended so.
Telling(c) ==
    /\ known[c] # Nothing => known[c].attempt <= Len(turns[c])
    /\ view[c] # Nothing => known[c] # Nothing /\ view[c].attempt <= known[c].attempt
    /\ c \in Workers /\ known[c] # Nothing => view[c] # Nothing
    /\ view[c] # Nothing /\ view[c].attempt # 0 /\ view[c].status # "running"
            => \/ turns[c][view[c].attempt] = view[c].status
               \/ view[c].attempt \in overtaken[c] /\ view[c].status = "cancelled"

\* A read of a log is of a part of it that has no open turn unless the child ran or
\* was resumed while its cold log was looked at; once it is fixed, it is not older than
\* what is known of the child.
Reading(c) ==
    cut[c] # Nothing =>
        /\ Len(cut[c].prefix) <= Len(turns[c])
        /\ \A i \in 1..Len(cut[c].prefix) :
                cut[c].prefix[i] # "open" => turns[c][i] = cut[c].prefix[i]
        /\ ~cut[c].busy /\ Len(cut[c].prefix) # 0
                => \/ cut[c].prefix[Len(cut[c].prefix)] # "open"
                   \/ cut[c].cold /\ Len(cut[c].prefix) \in overtaken[c]
        /\ ~cut[c].fixed => cut[c].cold
        /\ cut[c].fixed /\ known[c] # Nothing => known[c].attempt <= Len(cut[c].prefix)

\* A stop follows the latest turn of its child, from the one that it interrupts.
Stopping ==
    /\ stop.phase \in {"idle", "listing"} => stop.watch = 0
    /\ stop.phase \in {"idle", "listing", "reading"} => stop.settled = Nothing
    /\ stop.phase # "idle" => stop.child \in Delivered
    /\ stop.phase = "reading" /\ stop.watch # 0 => stop.watch = Len(turns[stop.child])
    /\ stop.phase = "interrupting" =>
        known[stop.child] # Nothing /\ stop.from <= known[stop.child].attempt
    /\ StopToldTruly

\* A member that started in this session is shown once it is discovered.
Members ==
    \A c \in Children \ restored :
        c \in (joined \ awaited) \cup shown => view[c] # Nothing \/ gaveUp

memberVars == <<restored, joined, awaited, shown, gaveUp>>

ChildrenInv ==
    /\ ChildrenTyping
    /\ \A c \in Children : RunsInTurn(c) /\ Telling(c) /\ Reading(c)
    /\ Stopping /\ Members

LEMMA ChildrenStart == InitChildren => ChildrenInv
<1> SUFFICES ASSUME InitChildren PROVE ChildrenInv
  OBVIOUS
<1>1. NativeTyping
  <2>1. running \in [Children -> BOOLEAN]
    BY DEF InitChildren
  <2>2. turns \in [Children -> Seq(Marks)]
    <3>1. turns \in [Children -> {<<>>}] /\ <<>> \in Seq(Marks)
      BY DEF InitChildren
    <3> QED BY <3>1
  <2>3. spawned \in [Children -> Nat] /\ agentOf \in [Children -> Nat]
    BY DEF InitChildren
  <2> QED BY <2>1, <2>2, <2>3 DEF NativeTyping
<1>2. ClientTyping
  <2>1. stop \in Stops
    BY DEF InitChildren, NoStop, Stops, StopPhases
  <2> QED BY <2>1 DEF InitChildren, ClientTyping
<1>3. ChildrenTyping
  BY <1>1, <1>2 DEF ChildrenTyping, InitChildren
<1>4. \A c \in Children : RunsInTurn(c) /\ Telling(c) /\ Reading(c)
  BY DEF InitChildren, RunsInTurn, InTurn, Telling, Reading
<1>5. Stopping /\ Members
  BY DEF InitChildren, NoStop, Stopping, StopToldTruly, Members
<1> QED BY <1>3, <1>4, <1>5 DEF ChildrenInv

-----------------------------------------------------------------------------
(* What the client is told *)

\* A stop that an ending of c settles.
Settles(c, agent, ending) ==
    /\ stop.phase = "interrupting" /\ stop.child = c
    /\ agent # 0 /\ stop.agent = agent
    /\ stop' = [stop EXCEPT !.settled = ending]

LEMMA SettledByKeeps ==
    ASSUME ClientTyping, NEW c \in Children, NEW agent \in Nat, NEW ending \in Outcomes,
           stop' = SettledBy(c, agent, ending)
    PROVE  stop' \in Stops /\ (stop' # stop => Settles(c, agent, ending))
  BY DEF ClientTyping, SettledBy, Awaits, Settles, Stops

\* An ending is told of the attempt that is known, if it is that one.
LEMMA FinishedTells ==
    ASSUME ClientTyping, NEW c \in Children, NEW ending \in Outcomes, NEW attempt \in Nat,
           Finished(c, ending, attempt)
    PROVE  /\ ClientTyping'
           /\ \A d \in Children \ {c} : known'[d] = known[d] /\ view'[d] = view[d]
           /\ known[c] = Nothing => known'[c] = Nothing /\ view'[c] = view[c]
           /\ known[c] # Nothing =>
                known'[c] # Nothing /\ known'[c].attempt = known[c].attempt
           /\ view'[c] # view[c] =>
                /\ IsLive /\ known[c] # Nothing /\ known[c].attempt = attempt
                /\ view'[c] = [attempt |-> attempt, status |-> ending]
           /\ stop' # stop =>
                /\ known[c] # Nothing /\ known[c].attempt = attempt
                /\ Settles(c, known[c].agent, ending)
<1>1. CASE known[c] = Nothing \/ known[c].attempt # attempt
  BY <1>1 DEF Finished, client, ClientTyping
<1>2. CASE known[c] # Nothing /\ known[c].attempt = attempt
  <2>1. known[c] \in ChildState
    BY <1>2 DEF ClientTyping
  <2>2. stop' \in Stops /\ (stop' # stop => Settles(c, known[c].agent, ending))
    BY <1>2, <2>1, SettledByKeeps DEF Finished, ChildState
  <2>3. /\ known' = [known EXCEPT ![c] = [known[c] EXCEPT !.status = ending]]
        /\ [known[c] EXCEPT !.status = ending] \in ChildState
        /\ [known[c] EXCEPT !.status = ending].attempt = attempt
    BY <1>2, <2>1 DEF Finished, ChildState
  <2>4. /\ known' \in [Children -> ChildState \cup {Nothing}]
        /\ known'[c] # Nothing /\ known'[c].attempt = attempt
        /\ \A d \in Children \ {c} : known'[d] = known[d]
    BY <2>3, ChildrenAssumption DEF ClientTyping
  <2>5. \/ view' = view
        \/ IsLive /\ view' = [view EXCEPT ![c] = [attempt |-> attempt, status |-> ending]]
    BY <1>2 DEF Finished
  <2>6. [attempt |-> attempt, status |-> ending] \in Told
    BY DEF Told
  <2> QED BY <1>2, <2>2, <2>4, <2>5, <2>6 DEF ClientTyping
<1> QED BY <1>1, <1>2

\* After a row was observed, the host knows the attempt that its log had.
LEMMA ObservedTells ==
    ASSUME ClientTyping, NativeTyping, NEW c \in Children, NEW overview \in Told,
           Observed(c, overview)
    PROVE  /\ ClientTyping'
           /\ \A d \in Children \ {c} : known'[d] = known[d] /\ view'[d] = view[d]
           /\ known'[c] # Nothing /\ known'[c].attempt = overview.attempt
           /\ view'[c] = view[c] \/ view'[c] = overview
           /\ known[c] = Nothing => view'[c] = overview
           /\ (/\ view'[c] # view[c] /\ overview.status = "running"
               /\ known[c] # Nothing /\ known[c].attempt = overview.attempt)
                => known'[c].agent # known[c].agent
           /\ stop' # stop =>
                overview.status # "running" /\ Settles(c, agentOf[c], overview.status)
<1> DEFINE same == /\ known[c] # Nothing /\ known[c].agent = agentOf[c]
                   /\ known[c].attempt = overview.attempt
           state == [agent |-> agentOf[c], attempt |-> overview.attempt,
                     status |-> overview.status]
<1>0. /\ overview.attempt \in Nat /\ overview.status \in Outcomes \cup {"running"}
      /\ overview = [attempt |-> overview.attempt, status |-> overview.status]
      /\ agentOf[c] \in Nat
  BY DEF Told, NativeTyping
<1>1. CASE same /\ overview.status = "running"
  <2>1. UNCHANGED <<known, view, stop>>
    BY <1>1 DEF Observed, client
  <2>2. ClientTyping'
    BY <2>1 DEF ClientTyping
  <2> QED BY <1>1, <2>1, <2>2
<1>2. CASE same /\ overview.status # "running"
  <2>1. Finished(c, overview.status, overview.attempt) /\ overview.status \in Outcomes
    BY <1>0, <1>2 DEF Observed
  <2>2. /\ ClientTyping'
        /\ \A d \in Children \ {c} : known'[d] = known[d] /\ view'[d] = view[d]
        /\ known'[c] # Nothing /\ known'[c].attempt = overview.attempt
        /\ view'[c] = view[c]
             \/ view'[c] = [attempt |-> overview.attempt, status |-> overview.status]
        /\ stop' # stop => Settles(c, agentOf[c], overview.status)
    BY <1>0, <1>2, <2>1, FinishedTells
  <2> QED BY <1>0, <1>2, <2>2
<1>3. CASE ~same
  <2>1. /\ known' = [known EXCEPT ![c] = state] /\ state \in ChildState
        /\ state.attempt = overview.attempt /\ state.agent = agentOf[c]
    BY <1>0, <1>3 DEF Observed, ChildState
  <2>2. /\ known' \in [Children -> ChildState \cup {Nothing}]
        /\ known'[c] = state /\ state # Nothing
        /\ \A d \in Children \ {c} : known'[d] = known[d]
    BY <2>1, ChildrenAssumption DEF ClientTyping
  <2>3. /\ view' = [view EXCEPT ![c] = overview]
        /\ view' \in [Children -> Told \cup {Nothing}]
    BY <1>3 DEF Observed, ClientTyping
  <2>4. /\ stop' \in Stops
        /\ stop' # stop =>
             overview.status # "running" /\ Settles(c, agentOf[c], overview.status)
    <3>1. CASE overview.status = "running"
      BY <1>3, <3>1 DEF Observed, ClientTyping
    <3>2. CASE overview.status # "running"
      BY <1>0, <1>3, <3>2, SettledByKeeps DEF Observed
    <3> QED BY <3>1, <3>2
  <2> HIDE DEF state
  <2> QED BY <1>3, <2>1, <2>2, <2>3, <2>4 DEF ClientTyping
<1> QED BY <1>1, <1>2, <1>3

\* What a read says of a child is in the log, whatever has happened since.
LEMMA OverviewIsLogged ==
    ASSUME ChildrenInv, NEW c \in Children, cut[c] # Nothing, NEW busy,
           cut[c].busy => busy
    PROVE  LET overview == Overview(cut[c].prefix, busy)
           IN  /\ overview \in Told
               /\ overview.attempt = Len(cut[c].prefix) /\ overview.attempt <= Len(turns[c])
               /\ overview.status # "running" =>
                    IF overview.attempt = 0 THEN overview.status = "cancelled"
                    ELSE \/ turns[c][overview.attempt] = overview.status
                         \/ /\ cut[c].cold /\ overview.status = "cancelled"
                            /\ overview.attempt \in overtaken[c]
<1> DEFINE prefix == cut[c].prefix
           overview == Overview(prefix, busy)
<1>1. cut[c] \in Reads /\ prefix \in Seq(Marks) /\ Len(prefix) \in Nat
  BY DEF ChildrenInv, ChildrenTyping, Reads
<1>2. prefix # <<>> <=> Len(prefix) # 0
  BY <1>1
<1>3. \A i \in 1..Len(prefix) : prefix[i] \in Marks
  BY <1>1
<1>4. Reading(c)
  BY DEF ChildrenInv
<1>5. /\ overview.attempt = Len(prefix)
      /\ overview.status = IF busy THEN "running"
                           ELSE IF prefix # <<>> /\ prefix[Len(prefix)] # "open"
                                THEN prefix[Len(prefix)] ELSE "cancelled"
  BY DEF Overview, Last
<1>6. overview.status \in Outcomes \cup {"running"}
  BY <1>1, <1>2, <1>3, <1>5 DEF Marks, Outcomes
<1>7. overview \in Told
  BY <1>1, <1>5, <1>6 DEF Overview, Told
<1>8. ASSUME overview.status # "running"
      PROVE  IF overview.attempt = 0 THEN overview.status = "cancelled"
             ELSE \/ turns[c][overview.attempt] = overview.status
                  \/ /\ cut[c].cold /\ overview.status = "cancelled"
                     /\ overview.attempt \in overtaken[c]
  <2>1. ~busy /\ ~cut[c].busy
    BY <1>5, <1>8
  <2> QED BY <1>1, <1>2, <1>4, <1>5, <2>1 DEF Reading
<1>9. Len(prefix) <= Len(turns[c])
  BY <1>4 DEF Reading
<1> QED BY <1>5, <1>7, <1>8, <1>9

-----------------------------------------------------------------------------
(* The native children *)

LEMMA LogFacts ==
    ASSUME NativeTyping, NEW c \in Children
    PROVE  /\ turns[c] \in Seq(Marks) /\ Len(turns[c]) \in Nat
           /\ turns[c] # <<>> <=> Len(turns[c]) # 0
           /\ InTurn(c) <=> Len(turns[c]) # 0 /\ turns[c][Len(turns[c])] = "open"
  BY DEF NativeTyping, InTurn, Last

\* Logs grow, and what has ended in them stays.
Grows(c) ==
    /\ Len(turns'[c]) >= Len(turns[c])
    /\ \A i \in 1..Len(turns[c]) : turns[c][i] # "open" => turns'[c][i] = turns[c][i]

\* What is known, shown and read stays true as logs grow.
LEMMA TruthsStay ==
    ASSUME ChildrenInv, NativeTyping', NEW c \in Children, Grows(c),
           known'[c] = known[c], view'[c] = view[c], overtaken[c] \subseteq overtaken'[c],
           cut'[c] = cut[c] \/ cut'[c] = Nothing
    PROVE  Telling(c)' /\ Reading(c)'
<1>1. /\ Len(turns[c]) \in Nat /\ Len(turns'[c]) \in Nat
  BY LogFacts DEF ChildrenInv, ChildrenTyping, NativeTyping
<1>2. Telling(c)'
  <2>1. known[c] # Nothing => known[c].attempt \in Nat
    BY DEF ChildrenInv, ChildrenTyping, ClientTyping, ChildState
  <2>2. view[c] # Nothing => view[c].attempt \in Nat /\ view[c].status \in Outcomes \cup {"running"}
    BY DEF ChildrenInv, ChildrenTyping, ClientTyping, Told
  <2> QED BY <1>1, <2>1, <2>2 DEF ChildrenInv, Telling, Grows, Outcomes
<1>3. Reading(c)'
  <2>1. CASE cut'[c] = Nothing
    BY <2>1 DEF Reading
  <2>2. CASE cut'[c] = cut[c] /\ cut[c] # Nothing
    <3>1. cut[c].prefix \in Seq(Marks) /\ Len(cut[c].prefix) \in Nat
      BY <2>2 DEF ChildrenInv, ChildrenTyping, Reads
    <3> QED BY <1>1, <2>2, <3>1 DEF ChildrenInv, Reading, Grows
  <2> QED BY <2>1, <2>2
<1> QED BY <1>2, <1>3

\* The ending that a stop was told of stays in the log.
LEMMA StopStaysTrue ==
    ASSUME ChildrenInv, \A c \in Children : Grows(c), NativeTyping', StopToldTruly,
           stop'.settled = stop.settled, stop'.child = stop.child, stop'.from = stop.from,
           stop.settled # Nothing => stop.child \in Children
    PROVE  StopToldTruly'
<1> SUFFICES ASSUME stop.settled # Nothing PROVE StopToldTruly'
  BY DEF StopToldTruly
<1>1. /\ Len(turns[stop.child]) \in Nat /\ Len(turns'[stop.child]) \in Nat
      /\ stop.settled \in Outcomes /\ stop.from \in Nat
  BY LogFacts DEF ChildrenInv, ChildrenTyping, NativeTyping, ClientTyping, Stops
<1>2. CASE \E k \in 1..Len(turns[stop.child]) :
                k >= stop.from /\ turns[stop.child][k] = stop.settled
  <2>1. PICK k \in 1..Len(turns[stop.child]) :
                k >= stop.from /\ turns[stop.child][k] = stop.settled
    BY <1>2
  <2>2. k \in 1..Len(turns'[stop.child]) /\ turns'[stop.child][k] = stop.settled
    BY <1>1, <2>1 DEF Grows, Outcomes
  <2> QED BY <2>1, <2>2 DEF StopToldTruly
<1>3. CASE stop.from = 0 /\ stop.settled = "cancelled"
  BY <1>3 DEF StopToldTruly
<1> QED BY <1>2, <1>3 DEF StopToldTruly

LEMMA GrowsUnchanged ==
    ASSUME NativeTyping, UNCHANGED turns PROVE \A c \in Children : Grows(c)
<1> SUFFICES ASSUME NEW c \in Children PROVE Grows(c)
  OBVIOUS
<1>1. Len(turns[c]) \in Nat
  BY LogFacts
<1> QED BY <1>1 DEF Grows

\* Agents and their activity come and go.
AgentStep == \E c \in Children : Spawn(c) \/ StatusChanges(c) \/ ReleaseAgent(c)

LEMMA AgentsKeep == ChildrenInv /\ AgentStep => ChildrenInv'
<1> SUFFICES ASSUME ChildrenInv, NEW c \in Children,
                    Spawn(c) \/ StatusChanges(c) \/ ReleaseAgent(c)
             PROVE  ChildrenInv'
  BY DEF AgentStep
<1>1. UNCHANGED <<turns, client, logs, stop, workflow>>
  BY DEF Spawn, StatusChanges, ReleaseAgent
<1>2. spawned' \in [Children -> Nat] /\ agentOf' \in [Children -> Nat]
  <2>1. spawned \in [Children -> Nat] /\ agentOf \in [Children -> Nat]
    BY DEF ChildrenInv, ChildrenTyping, NativeTyping
  <2>2. CASE Spawn(c)
    <3>1. spawned' \in [Children -> Nat]
      BY <2>1, <2>2 DEF Spawn
    <3> QED BY <2>1, <2>2, <3>1 DEF Spawn
  <2>3. CASE StatusChanges(c)
    BY <2>1, <2>3 DEF StatusChanges
  <2>4. CASE ReleaseAgent(c)
    BY <2>1, <2>4 DEF ReleaseAgent
  <2> QED BY <2>2, <2>3, <2>4
<1>3. running' \in [Children -> BOOLEAN]
  BY DEF Spawn, StatusChanges, ReleaseAgent, ChildrenInv, ChildrenTyping, NativeTyping
<1>4. ChildrenTyping'
  BY <1>1, <1>2, <1>3 DEF ChildrenInv, ChildrenTyping, NativeTyping, ClientTyping, client, logs,
     workflow
<1>5. \A d \in Children : RunsInTurn(d)'
  <2> SUFFICES ASSUME NEW d \in Children, InTurn(d) PROVE running'[d]
    BY <1>1 DEF RunsInTurn, InTurn
  <2>1. running[d]
    BY DEF ChildrenInv, RunsInTurn
  <2>2. CASE Spawn(c)
    BY <2>1, <2>2 DEF Spawn, ChildrenInv, ChildrenTyping, NativeTyping
  <2>3. CASE StatusChanges(c)
    BY <2>1, <2>3 DEF StatusChanges, ChildrenInv, ChildrenTyping, NativeTyping
  <2>4. CASE ReleaseAgent(c)
    BY <2>1, <2>4 DEF ReleaseAgent
  <2> QED BY <2>2, <2>3, <2>4
<1>6. \A d \in Children : Telling(d)' /\ Reading(d)'
  BY <1>1 DEF ChildrenInv, Telling, Reading, client, logs
<1>7. Stopping' /\ Members'
  BY <1>1 DEF ChildrenInv, Stopping, StopToldTruly, Members, client, workflow
<1> QED BY <1>4, <1>5, <1>6, <1>7 DEF ChildrenInv

LEMMA TurnStartsKeeps ==
    ASSUME ChildrenInv, NEW c \in Children, TurnStarts(c) PROVE ChildrenInv'
<1>1. /\ turns' = [turns EXCEPT ![c] = Append(@, "open")]
      /\ UNCHANGED <<spawned, agentOf, running, client, logs, workflow>>
  BY DEF TurnStarts
<1>2. turns[c] \in Seq(Marks) /\ "open" \in Marks
  BY DEF ChildrenInv, ChildrenTyping, NativeTyping, Marks
<1>3. /\ turns'[c] \in Seq(Marks) /\ Len(turns'[c]) = Len(turns[c]) + 1
      /\ \A i \in 1..Len(turns[c]) : turns'[c][i] = turns[c][i]
      /\ Len(turns[c]) \in Nat
  BY <1>1, <1>2 DEF ChildrenInv, ChildrenTyping, NativeTyping
<1>4. \A d \in Children \ {c} : turns'[d] = turns[d]
  BY <1>1 DEF ChildrenInv, ChildrenTyping, NativeTyping
<1>5. NativeTyping'
  BY <1>1, <1>3 DEF ChildrenInv, ChildrenTyping, NativeTyping
<1>6. \A d \in Children : Grows(d)
  <2> SUFFICES ASSUME NEW d \in Children PROVE Grows(d)
    OBVIOUS
  <2>1. Len(turns[d]) \in Nat
    BY LogFacts DEF ChildrenInv, ChildrenTyping
  <2> QED BY <1>3, <1>4, <2>1 DEF Grows
<1>7. \/ UNCHANGED stop
      \/ /\ stop' = [stop EXCEPT !.watch = Len(turns'[c])]
         /\ stop.phase = "reading" /\ stop.child = c
  BY DEF TurnStarts
<1>8. c \in Delivered /\ stop.phase = "reading" /\ stop.child = c
        => stop' = [stop EXCEPT !.watch = Len(turns'[c])]
  BY DEF TurnStarts
<1>9. /\ stop' \in Stops /\ stop'.phase = stop.phase /\ stop'.child = stop.child
      /\ stop'.from = stop.from /\ stop'.settled = stop.settled
      /\ stop' = stop \/ stop'.watch = Len(turns'[c])
  BY <1>3, <1>7 DEF ChildrenInv, ChildrenTyping, ClientTyping, Stops
<1>10. ChildrenTyping'
  BY <1>1, <1>5, <1>9 DEF ChildrenInv, ChildrenTyping, ClientTyping, client, logs, workflow
<1>11. \A d \in Children : RunsInTurn(d)'
  <2> SUFFICES ASSUME NEW d \in Children PROVE RunsInTurn(d)'
    OBVIOUS
  <2>1. CASE d = c
    BY <1>1, <2>1 DEF TurnStarts, RunsInTurn
  <2>2. CASE d # c
    BY <1>1, <1>4, <2>2 DEF ChildrenInv, RunsInTurn, InTurn
  <2> QED BY <2>1, <2>2
<1>12. \A d \in Children : Telling(d)' /\ Reading(d)'
  BY <1>1, <1>5, <1>6, TruthsStay DEF client, logs
<1>13. Stopping'
  <2>1. stop.phase # "idle" => stop.child \in Delivered
    BY DEF ChildrenInv, Stopping
  <2>2. StopToldTruly'
    BY <1>5, <1>6, <1>9, <2>1, StopStaysTrue DEF ChildrenInv, Stopping, Delivered
  <2>3. stop'.phase = "reading" /\ stop'.watch # 0 => stop'.watch = Len(turns'[stop'.child])
    <3> SUFFICES ASSUME stop'.phase = "reading", stop'.watch # 0
                 PROVE  stop'.watch = Len(turns'[stop'.child])
      OBVIOUS
    <3>1. CASE stop.child = c
      <4>1. stop' = [stop EXCEPT !.watch = Len(turns'[c])]
        BY <1>8, <1>9, <2>1, <3>1
      <4> QED BY <1>9, <3>1, <4>1 DEF ChildrenInv, ChildrenTyping, ClientTyping, Stops
    <3>2. CASE stop.child # c
      BY <1>4, <1>7, <1>9, <2>1, <3>2 DEF ChildrenInv, Stopping, Delivered
    <3> QED BY <3>1, <3>2
  <2>4. stop'.phase \in {"idle", "listing"} => stop'.watch = 0
    BY <1>7, <1>9 DEF ChildrenInv, Stopping
  <2> QED BY <1>1, <1>9, <2>2, <2>3, <2>4 DEF ChildrenInv, Stopping, client
<1>14. Members'
  BY <1>1 DEF ChildrenInv, Members, client, workflow
<1> QED BY <1>10, <1>11, <1>12, <1>13, <1>14 DEF ChildrenInv

\* A stop that is told of an ending goes on.
SameStopAgent ==
    stop'.phase = stop.phase /\ stop'.child = stop.child /\ stop'.agent = stop.agent

\* Who has been told of a child stays so.
ViewsStay == \A c \in Children : view[c] # Nothing => view'[c] # Nothing

LEMMA TurnEndsKeeps ==
    ASSUME ChildrenInv, NEW c \in Children, TurnEnds(c)
    PROVE  ChildrenInv' /\ (\A d \in Children : view'[d] # view[d] =>
                                /\ IsLive /\ view'[d] \in Told
                                /\ view'[d].attempt >= Len(turns[d])
                                /\ view'[d].status # "running")
           /\ SameStopAgent /\ ViewsStay
<1> DEFINE length == Len(turns[c])
<1>1. PICK outcome \in Outcomes :
        /\ turns' = [turns EXCEPT ![c][length] = outcome]
        /\ IF c \in Delivered /\ IsLive /\ known[c] # Nothing /\ known[c].agent = agentOf[c]
           THEN Finished(c, outcome, length)
           ELSE UNCHANGED <<client, stop>>
  BY DEF TurnEnds
<1>2. /\ turns[c] \in Seq(Marks) /\ length \in Nat /\ length # 0 /\ turns[c][length] = "open"
  BY LogFacts DEF TurnEnds, ChildrenInv, ChildrenTyping
<1>3. turns'[c] = [turns[c] EXCEPT ![length] = outcome]
  BY <1>1 DEF ChildrenInv, ChildrenTyping, NativeTyping
<1>4. /\ turns'[c] \in Seq(Marks) /\ Len(turns'[c]) = length /\ turns'[c][length] = outcome
      /\ \A i \in 1..length : i # length => turns'[c][i] = turns[c][i]
  BY <1>2, <1>3 DEF Marks
<1>5. \A d \in Children \ {c} : turns'[d] = turns[d]
  BY <1>1 DEF ChildrenInv, ChildrenTyping, NativeTyping
<1>6. UNCHANGED <<spawned, agentOf, running, logs, workflow, host>>
  BY DEF TurnEnds
<1>7. NativeTyping'
  <2>1. turns' \in [Children -> Seq(Marks)]
    BY <1>1, <1>3, <1>4, <1>5 DEF ChildrenInv, ChildrenTyping, NativeTyping
  <2> QED BY <1>6, <2>1 DEF ChildrenInv, ChildrenTyping, NativeTyping
<1>8. \A d \in Children : Grows(d)
  <2> SUFFICES ASSUME NEW d \in Children PROVE Grows(d)
    OBVIOUS
  <2>1. Len(turns[d]) \in Nat
    BY LogFacts DEF ChildrenInv, ChildrenTyping
  <2> QED BY <1>2, <1>4, <1>5, <2>1 DEF Grows
<1>9. /\ ClientTyping'
      /\ \A d \in Children \ {c} : known'[d] = known[d] /\ view'[d] = view[d]
      /\ known[c] = Nothing => known'[c] = Nothing /\ view'[c] = view[c]
      /\ known[c] # Nothing => known'[c] # Nothing /\ known'[c].attempt = known[c].attempt
      /\ view'[c] # view[c] =>
            /\ IsLive /\ known[c] # Nothing /\ known[c].attempt = length
            /\ view'[c] = [attempt |-> length, status |-> outcome]
      /\ stop' # stop =>
            /\ known[c] # Nothing /\ known[c].attempt = length
            /\ Settles(c, known[c].agent, outcome)
  <2>1. CASE Finished(c, outcome, length)
    BY <1>2, <2>1, FinishedTells DEF ChildrenInv, ChildrenTyping
  <2>2. CASE UNCHANGED <<known, view, stop>>
    BY <2>2 DEF ChildrenInv, ChildrenTyping, ClientTyping
  <2> QED BY <1>1, <2>1, <2>2 DEF client
<1>10. ChildrenTyping'
  BY <1>6, <1>7, <1>9 DEF ChildrenInv, ChildrenTyping, logs, workflow
<1>11. \A d \in Children : RunsInTurn(d)'
  <2> SUFFICES ASSUME NEW d \in Children PROVE RunsInTurn(d)'
    OBVIOUS
  <2>1. CASE d = c
    BY <1>6, <2>1, <1>2, LogFacts DEF ChildrenInv, ChildrenTyping, RunsInTurn
  <2>2. CASE d # c
    BY <1>5, <1>6, <2>2 DEF ChildrenInv, RunsInTurn, InTurn
  <2> QED BY <2>1, <2>2
<1>12. \A d \in Children : Telling(d)' /\ Reading(d)'
  <2>1. ASSUME NEW d \in Children, d # c PROVE Telling(d)' /\ Reading(d)'
    BY <1>6, <1>7, <1>8, <1>9, <2>1, TruthsStay DEF logs
  <2>2. Telling(c)'
    <3>1. known[c] # Nothing => known[c].attempt \in Nat
      BY DEF ChildrenInv, ChildrenTyping, ClientTyping, ChildState
    <3>2. view[c] # Nothing => view[c].attempt \in Nat /\ view[c].status \in Outcomes \cup {"running"}
      BY DEF ChildrenInv, ChildrenTyping, ClientTyping, Told
    <3>3. CASE view'[c] = view[c]
      BY <1>2, <1>4, <1>6, <1>9, <3>1, <3>2, <3>3 DEF ChildrenInv, Telling, Outcomes, logs
    <3>4. CASE view'[c] # view[c]
      <4>1. /\ known'[c] # Nothing /\ known'[c].attempt = length
            /\ view'[c].attempt = length /\ view'[c].status = outcome
        BY <1>9, <3>4
      <4>2. view'[c] # Nothing
        <5>1. [attempt |-> length, status |-> outcome] \in Told
          BY <1>2 DEF Told
        <5> QED BY <1>9, <3>4, <5>1, ChildrenAssumption
      <4> QED BY <1>2, <1>4, <4>1, <4>2 DEF Telling
    <3> QED BY <3>3, <3>4
  <2>3. Reading(c)'
    <3>1. cut'[c] = cut[c] /\ overtaken'[c] = overtaken[c]
      BY <1>6 DEF logs
    <3>2. cut[c] # Nothing => cut[c].prefix \in Seq(Marks) /\ Len(cut[c].prefix) \in Nat
      BY DEF ChildrenInv, ChildrenTyping, Reads
    <3> QED BY <1>2, <1>4, <1>9, <3>1, <3>2 DEF ChildrenInv, Reading
  <2> QED BY <2>1, <2>2, <2>3
<1>13. Stopping'
  <2>1. stop \in Stops /\ (stop.phase # "idle" => stop.child \in Delivered)
    BY DEF ChildrenInv, ChildrenTyping, ClientTyping, Stopping
  <2>2. /\ stop'.phase = stop.phase /\ stop'.child = stop.child /\ stop'.from = stop.from
        /\ stop'.watch = stop.watch
    BY <1>9, <2>1 DEF Settles, Stops
  <2>3. StopToldTruly'
    <3>1. CASE stop' = stop
      <4>1. stop.settled # Nothing => stop.child \in Children
        BY <2>1 DEF ChildrenInv, Stopping, Delivered, Stops
      <4> QED BY <1>7, <1>8, <2>2, <3>1, <4>1, StopStaysTrue DEF ChildrenInv, Stopping
    <3>2. CASE stop' # stop
      <4>1. /\ stop'.settled = outcome /\ stop.child = c /\ stop.from <= length
            /\ stop.from \in Nat
        BY <1>9, <2>1, <3>2 DEF Settles, ChildrenInv, Stopping, Stops
      <4>2. length \in 1..Len(turns'[stop'.child]) /\ length >= stop'.from
            /\ turns'[stop'.child][length] = stop'.settled
        BY <1>2, <1>4, <2>2, <4>1
      <4> QED BY <4>2 DEF StopToldTruly
    <3> QED BY <3>1, <3>2
  <2>4. stop'.phase = "reading" /\ stop'.watch # 0 => stop'.watch = Len(turns'[stop'.child])
    BY <1>4, <1>5, <2>1, <2>2 DEF ChildrenInv, Stopping, Delivered
  <2>5. stop'.phase = "interrupting" =>
            known'[stop'.child] # Nothing /\ stop'.from <= known'[stop'.child].attempt
    BY <1>9, <2>1, <2>2 DEF ChildrenInv, Stopping, Delivered
  <2>6. stop'.phase \in {"idle", "listing", "reading"} => stop'.settled = Nothing
    BY <1>9, <2>2 DEF ChildrenInv, Stopping, Settles
  <2>7. /\ stop'.phase \in {"idle", "listing"} => stop'.watch = 0
        /\ stop'.phase # "idle" => stop'.child \in Delivered
    BY <2>1, <2>2 DEF ChildrenInv, Stopping
  <2> QED BY <2>3, <2>4, <2>5, <2>6, <2>7 DEF Stopping, Delivered
<1>14. ViewsStay
  <2> SUFFICES ASSUME NEW d \in Children, view[d] # Nothing PROVE view'[d] # Nothing
    BY DEF ViewsStay
  <2>1. CASE view'[d] = view[d]
    BY <2>1
  <2>2. CASE view'[d] # view[d]
    <3>1. [attempt |-> length, status |-> outcome] \in Told
      BY <1>2 DEF Told
    <3> QED BY <1>9, <2>2, <3>1, ChildrenAssumption
  <2> QED BY <2>1, <2>2
<1>15. ASSUME NEW d \in Children, view'[d] # view[d]
       PROVE  /\ IsLive /\ view'[d] \in Told
              /\ view'[d].attempt >= Len(turns[d])
              /\ view'[d].status # "running"
  <2>1. d = c /\ view'[d] = [attempt |-> length, status |-> outcome] /\ IsLive
    BY <1>9, <1>15
  <2> QED BY <1>2, <2>1 DEF Outcomes, Told
<1>16. Members'
  BY <1>6, <1>14 DEF ChildrenInv, Members, ViewsStay, workflow
<1>17. SameStopAgent
  BY <1>9 DEF SameStopAgent, Settles, ChildrenInv, ChildrenTyping, ClientTyping, Stops
<1> QED BY <1>10, <1>11, <1>12, <1>13, <1>14, <1>15, <1>16, <1>17 DEF ChildrenInv

-----------------------------------------------------------------------------
(* Refreshes *)

\* What reads a log no longer, or not at all.
LogsLeft ==
    /\ cut' \in [Children -> Reads \cup {Nothing}]
    /\ \A c \in Children : cut'[c] = cut[c] \/ cut'[c] = Nothing
    /\ UNCHANGED overtaken

LEMMA LeaveLogLeaves ==
    ASSUME ChildrenTyping, NEW c \in Children, LeaveLog(c) PROVE LogsLeft /\ cut'[c] = Nothing
  BY DEF ChildrenTyping, LeaveLog, LogsLeft

LEMMA LogsStay == ASSUME ChildrenTyping, UNCHANGED <<cut, overtaken>> PROVE LogsLeft
  BY DEF ChildrenTyping, LogsLeft

\* Steps that tell nothing, about no child.
LEMMA QuietKeeps ==
    ASSUME ChildrenInv, UNCHANGED <<turns, spawned, agentOf, running, known, view>>, LogsLeft,
           stop' \in Stops, Stopping', Members',
           restored' \subseteq joined', joined' \subseteq Workers,
           awaited' \subseteq joined', shown' \subseteq joined'
    PROVE  ChildrenInv'
<1>1. ChildrenTyping' /\ NativeTyping'
  BY DEF ChildrenInv, ChildrenTyping, NativeTyping, ClientTyping, LogsLeft
<1>2. \A c \in Children : RunsInTurn(c)'
  BY DEF ChildrenInv, RunsInTurn, InTurn
<1>3. \A c \in Children : Telling(c)' /\ Reading(c)'
  <2>1. \A c \in Children : Grows(c)
    BY GrowsUnchanged DEF ChildrenInv, ChildrenTyping
  <2> QED BY <1>1, <2>1, TruthsStay DEF LogsLeft
<1> QED BY <1>1, <1>2, <1>3 DEF ChildrenInv

LEMMA SameStop ==
    ASSUME ChildrenInv, UNCHANGED <<turns, known, stop>> PROVE stop' \in Stops /\ Stopping'
  BY DEF ChildrenInv, ChildrenTyping, ClientTyping, Stopping, StopToldTruly

LEMMA SameMembers ==
    ASSUME ChildrenInv, UNCHANGED <<view, memberVars>>
    PROVE  /\ Members' /\ restored' \subseteq joined' /\ joined' \subseteq Workers
           /\ awaited' \subseteq joined' /\ shown' \subseteq joined'
  BY DEF ChildrenInv, ChildrenTyping, Members, memberVars

LoopStep == Poll \/ Snapshot \/ BeginRound \/ ListRows \/ RoundFails \/ RefreshEnds
                \/ \E c \in Children : ReadNext(c)

LEMMA LoopsKeep == ChildrenInv /\ LoopStep => ChildrenInv'
<1> SUFFICES ASSUME ChildrenInv, LoopStep PROVE ChildrenInv'
  OBVIOUS
<1>1. UNCHANGED <<native, client, stop, memberVars>>
  BY DEF LoopStep, Poll, Snapshot, BeginRound, ListRows, RoundFails, RefreshEnds, ReadNext,
     workflow, memberVars
<1>2. LogsLeft
  <2>1. UNCHANGED <<cut, overtaken>> \/ \E c \in Children : LeaveLog(c)
    BY DEF LoopStep, Poll, Snapshot, BeginRound, ListRows, RoundFails, RefreshEnds, ReadNext,
       logs
  <2> QED BY <2>1, LeaveLogLeaves, LogsStay DEF ChildrenInv
<1> QED BY <1>1, <1>2, SameStop, SameMembers, QuietKeeps DEF native, client

MemberStep ==
    Deadline \/ RoundDone \/ WorkflowEvent \/ SnapshotShows \/ \E c \in Children : MemberStarts(c)

LEMMA MembersKeep == ChildrenInv /\ MemberStep => ChildrenInv'
<1> SUFFICES ASSUME ChildrenInv, MemberStep PROVE ChildrenInv'
  OBVIOUS
<1>1. UNCHANGED <<native, client, stop, logs>>
  BY DEF MemberStep, Deadline, RoundDone, WorkflowEvent, SnapshotShows, MemberStarts
<1>2. /\ Members' /\ restored' \subseteq joined' /\ joined' \subseteq Workers
      /\ awaited' \subseteq joined' /\ shown' \subseteq joined'
  <2> USE DEF ChildrenInv, ChildrenTyping, Members, ShowMembers, ShowRun, client
  <2>1. CASE Deadline
    BY <1>1, <2>1 DEF Deadline
  <2>2. CASE RoundDone
    BY <1>1, <2>2 DEF RoundDone
  <2>3. CASE \E c \in Children : MemberStarts(c)
    BY <1>1, <2>3 DEF MemberStarts
  <2>4. CASE WorkflowEvent
    BY <1>1, <2>4 DEF WorkflowEvent
  <2>5. CASE SnapshotShows
    BY <1>1, <2>5 DEF SnapshotShows
  <2> QED BY <2>1, <2>2, <2>3, <2>4, <2>5 DEF MemberStep
<1> QED BY <1>1, <1>2, SameStop, LogsStay, QuietKeeps DEF native, client, logs, ChildrenInv

\* What a read that is being fixed takes of a log.
LEMMA CutKeeps == ASSUME ChildrenInv, NEW c \in Children, Cut(c) \/ ColdCut(c) PROVE ChildrenInv'
<1>1. UNCHANGED <<native, client, stop, workflow>>
  BY DEF Cut, ColdCut
<1>2. /\ turns[c] \in Seq(Marks) /\ Len(turns[c]) \in Nat /\ running[c] \in BOOLEAN
      /\ InTurn(c) <=> Len(turns[c]) # 0 /\ turns[c][Len(turns[c])] = "open"
  BY LogFacts DEF ChildrenInv, ChildrenTyping, NativeTyping
<1>3. PICK read \in Reads :
        /\ cut' = [cut EXCEPT ![c] = read]
        /\ \/ /\ read = [prefix |-> turns[c], busy |-> running[c], cold |-> FALSE, fixed |-> TRUE]
              /\ UNCHANGED overtaken
           \/ /\ read = [prefix |-> <<>>, busy |-> FALSE, cold |-> TRUE, fixed |-> FALSE]
              /\ UNCHANGED overtaken
           \/ /\ read = [prefix |-> turns[c], busy |-> FALSE, cold |-> TRUE, fixed |-> TRUE]
              /\ overtaken' = [overtaken EXCEPT ![c] =
                                  IF InTurn(c) THEN @ \cup {Len(turns[c])} ELSE @]
  <2>1. <<>> \in Seq(Marks)
    OBVIOUS
  <2> QED BY <1>2, <2>1 DEF Cut, ColdCut, Reads
<1>4. /\ cut' \in [Children -> Reads \cup {Nothing}]
      /\ cut'[c] = read
      /\ \A d \in Children \ {c} : cut'[d] = cut[d]
  BY <1>3 DEF ChildrenInv, ChildrenTyping
<1>5. /\ overtaken' \in [Children -> SUBSET Nat]
      /\ \A d \in Children : overtaken[d] \subseteq overtaken'[d]
  BY <1>2, <1>3 DEF ChildrenInv, ChildrenTyping
<1>6. ChildrenTyping' /\ NativeTyping'
  BY <1>1, <1>4, <1>5 DEF ChildrenInv, ChildrenTyping, NativeTyping, ClientTyping, native,
     client, workflow
<1>7. \A d \in Children : RunsInTurn(d)'
  BY <1>1 DEF ChildrenInv, RunsInTurn, InTurn, native
<1>8. \A d \in Children : Telling(d)'
  BY <1>1, <1>5 DEF ChildrenInv, Telling, native, client
<1>9. \A d \in Children : Reading(d)'
  <2>1. ASSUME NEW d \in Children, d # c PROVE Reading(d)'
    BY <1>1, <1>4, <1>5, <2>1 DEF ChildrenInv, Reading, native, client
  <2>2. Reading(c)'
    <3>1. /\ running[c] \/ ~InTurn(c)
          /\ known[c] # Nothing => known[c].attempt <= Len(turns[c])
          /\ UNCHANGED <<turns, known>>
      BY <1>1 DEF ChildrenInv, RunsInTurn, Telling, native, client
    <3>2. CASE read.prefix = <<>> /\ read.cold /\ ~read.fixed
      BY <1>2, <1>4, <3>1, <3>2 DEF Reading
    <3>3. CASE read.prefix = turns[c] /\ read.busy = running[c] /\ read.fixed
      BY <1>2, <1>4, <3>1, <3>3 DEF Reading
    <3>4. CASE read.prefix = turns[c] /\ read.cold /\ (InTurn(c) => Len(turns[c]) \in overtaken'[c])
      BY <1>2, <1>4, <3>1, <3>4 DEF Reading
    <3>5. \/ read.prefix = <<>> /\ read.cold /\ ~read.fixed
          \/ read.prefix = turns[c] /\ read.busy = running[c] /\ read.fixed
          \/ read.prefix = turns[c] /\ read.cold /\ (InTurn(c) => Len(turns[c]) \in overtaken'[c])
      BY <1>3 DEF ChildrenInv, ChildrenTyping
    <3> QED BY <3>2, <3>3, <3>4, <3>5
  <2> QED BY <2>1, <2>2
<1>10. Stopping' /\ Members'
  BY <1>1, SameStop, SameMembers DEF native, client, workflow, memberVars
<1> QED BY <1>6, <1>7, <1>8, <1>9, <1>10 DEF ChildrenInv

\* A child that runs has an agent, and a stop is of one that the child has had: not of
\* one that it got after a read had found it cold.
AgentsHeld ==
    /\ \A c \in Children : (running[c] => agentOf[c] # 0) /\ agentOf[c] <= spawned[c]
    /\ stop.phase \in {"reading", "interrupting"} =>
        stop.agent # 0 /\ stop.agent <= spawned[stop.child]
    /\ stop.phase = "interrupting" /\ cut[stop.child] # Nothing /\ cut[stop.child].cold =>
        stop.agent # agentOf[stop.child]

\* A read row: what the client is told of a child goes on.
LEMMA ReadDoneKeeps ==
    ASSUME ChildrenInv, AgentsHeld, NEW c \in Children, ReadDone(c)
    PROVE  /\ ChildrenInv' /\ IsLive
           /\ SameStopAgent /\ ViewsStay /\ (c \in Workers => view'[c] # Nothing)
           /\ \A d \in Children : view[d] # Nothing /\ view'[d] # view[d] =>
                \/ view'[d].attempt > view[d].attempt
                \/ /\ view'[d].attempt = view[d].attempt
                   /\ view'[d].status = "running" => known'[d].agent # known[d].agent
<1> DEFINE overview == Overview(cut[c].prefix, ReadActivity(c) \/ c \in refresh.busy)
<1>1. /\ cut[c] # Nothing /\ cut[c].fixed /\ LeaveLog(c) /\ Observed(c, overview)
      /\ awaited' = awaited \ {c} /\ IsLive
      /\ UNCHANGED <<native, restored, joined, shown, gaveUp, host>>
  BY DEF ReadDone, HasRead, RefreshStopped
<1>2. /\ overview \in Told
      /\ overview.attempt = Len(cut[c].prefix) /\ overview.attempt <= Len(turns[c])
      /\ overview.status # "running" =>
            IF overview.attempt = 0 THEN overview.status = "cancelled"
            ELSE \/ turns[c][overview.attempt] = overview.status
                 \/ /\ cut[c].cold /\ overview.status = "cancelled"
                    /\ overview.attempt \in overtaken[c]
  BY <1>1, OverviewIsLogged DEF ReadActivity
<1> HIDE DEF overview
<1>3. /\ ClientTyping'
      /\ \A d \in Children \ {c} : known'[d] = known[d] /\ view'[d] = view[d]
      /\ known'[c] # Nothing /\ known'[c].attempt = overview.attempt
      /\ view'[c] = view[c] \/ view'[c] = overview
      /\ known[c] = Nothing => view'[c] = overview
      /\ (/\ view'[c] # view[c] /\ overview.status = "running"
          /\ known[c] # Nothing /\ known[c].attempt = overview.attempt)
           => known'[c].agent # known[c].agent
      /\ stop' # stop => overview.status # "running" /\ Settles(c, agentOf[c], overview.status)
  BY <1>1, <1>2, ObservedTells DEF ChildrenInv, ChildrenTyping
<1>4. LogsLeft /\ cut'[c] = Nothing
  BY <1>1, LeaveLogLeaves DEF ChildrenInv
<1>5. ChildrenTyping' /\ NativeTyping'
  BY <1>1, <1>3, <1>4 DEF ChildrenInv, ChildrenTyping, NativeTyping, LogsLeft, native
<1>6. \A d \in Children : Grows(d)
  BY <1>1, GrowsUnchanged DEF ChildrenInv, ChildrenTyping, native
<1>7. /\ overview # Nothing /\ overview.attempt \in Nat
      /\ overview.status \in Outcomes \cup {"running"}
      /\ known[c] # Nothing => known[c].attempt \in Nat /\ known[c].attempt <= overview.attempt
      /\ view[c] # Nothing => /\ view[c].attempt \in Nat /\ known[c] # Nothing
                              /\ view[c].attempt <= known[c].attempt
  BY <1>1, <1>2, ChildrenAssumption
     DEF ChildrenInv, Reading, Telling, ChildrenTyping, ClientTyping, Told, ChildState
<1>8. \A d \in Children : RunsInTurn(d)'
  BY <1>1 DEF ChildrenInv, RunsInTurn, InTurn, native
<1>9. \A d \in Children : Telling(d)' /\ Reading(d)'
  <2>1. ASSUME NEW d \in Children, d # c PROVE Telling(d)' /\ Reading(d)'
    BY <1>3, <1>4, <1>5, <1>6, <2>1, TruthsStay DEF LogsLeft
  <2>2. Telling(c)'
    <3>1. turns'[c] = turns[c] /\ overtaken'[c] = overtaken[c]
      BY <1>1, <1>4 DEF native, LogsLeft
    <3>2. CASE view'[c] = overview
      BY <1>2, <1>3, <1>7, <3>1, <3>2 DEF Telling
    <3>3. CASE view'[c] = view[c] /\ known[c] # Nothing
      BY <1>2, <1>3, <1>7, <3>1, <3>3 DEF Telling, ChildrenInv
    <3> QED BY <1>3, <3>2, <3>3
  <2>3. Reading(c)'
    BY <1>4 DEF Reading
  <2> QED BY <2>1, <2>2, <2>3
<1>10. Stopping'
  <2>1. stop \in Stops /\ (stop.phase # "idle" => stop.child \in Delivered)
    BY DEF ChildrenInv, ChildrenTyping, ClientTyping, Stopping
  <2>2. /\ stop'.phase = stop.phase /\ stop'.child = stop.child /\ stop'.from = stop.from
        /\ stop'.watch = stop.watch
    BY <1>3, <2>1 DEF Settles, Stops
  <2>3. StopToldTruly'
    <3>1. CASE stop' = stop
      <4>1. stop.settled # Nothing => stop.child \in Children
        BY <2>1 DEF ChildrenInv, Stopping, Delivered, Stops
      <4> QED BY <1>5, <1>6, <2>2, <3>1, <4>1, StopStaysTrue DEF ChildrenInv, Stopping
    <3>2. CASE stop' # stop
      <4>1. /\ stop'.settled = overview.status /\ stop.child = c /\ overview.status # "running"
            /\ known[c] # Nothing /\ stop.from <= known[c].attempt /\ stop.from \in Nat
        BY <1>3, <2>1, <3>2 DEF Settles, ChildrenInv, Stopping, Stops
      <4>2. stop.from <= overview.attempt /\ Len(turns[c]) \in Nat
        BY <1>7, <4>1, LogFacts DEF ChildrenInv, ChildrenTyping
      <4>3. CASE overview.attempt = 0
        BY <1>2, <1>7, <2>2, <4>1, <4>2, <4>3 DEF StopToldTruly
      <4>4. CASE overview.attempt # 0
        <5>1. ~cut[c].cold
          BY <1>1, <1>3, <3>2, <4>1 DEF Settles, AgentsHeld
        <5>2. /\ overview.attempt \in 1..Len(turns'[stop'.child])
              /\ overview.attempt >= stop'.from
              /\ turns'[stop'.child][overview.attempt] = stop'.settled
          BY <1>1, <1>2, <1>7, <2>2, <4>1, <4>2, <4>4, <5>1 DEF native
        <5> QED BY <5>2 DEF StopToldTruly
      <4> QED BY <4>3, <4>4
    <3> QED BY <3>1, <3>2
  <2>4. stop'.phase = "reading" /\ stop'.watch # 0 => stop'.watch = Len(turns'[stop'.child])
    BY <1>1, <2>2 DEF ChildrenInv, Stopping, native
  <2>5. stop'.phase = "interrupting" =>
            known'[stop'.child] # Nothing /\ stop'.from <= known'[stop'.child].attempt
    <3> SUFFICES ASSUME stop.phase = "interrupting"
                 PROVE  /\ known'[stop.child] # Nothing
                        /\ stop.from <= known'[stop.child].attempt
      BY <2>2
    <3>1. /\ known[stop.child] # Nothing /\ stop.from <= known[stop.child].attempt
          /\ stop.child \in Children /\ stop.from \in Nat
      BY <2>1 DEF ChildrenInv, Stopping, Delivered, Stops
    <3> QED BY <1>3, <1>7, <3>1
  <2>6. stop'.phase \in {"idle", "listing", "reading"} => stop'.settled = Nothing
    BY <1>3, <2>2 DEF ChildrenInv, Stopping, Settles
  <2>7. /\ stop'.phase \in {"idle", "listing"} => stop'.watch = 0
        /\ stop'.phase # "idle" => stop'.child \in Delivered
    BY <2>1, <2>2 DEF ChildrenInv, Stopping
  <2> QED BY <2>3, <2>4, <2>5, <2>6, <2>7 DEF Stopping, Delivered
<1>11. Members'
  <2> SUFFICES ASSUME NEW d \in Children \ restored, d \in (joined \ awaited') \cup shown,
                      view'[d] = Nothing
               PROVE  gaveUp
    BY <1>1 DEF Members
  <2>1. CASE d # c
    BY <1>1, <1>3, <2>1 DEF ChildrenInv, Members
  <2>2. CASE d = c
    <3>1. c \in Workers
      BY <2>2 DEF ChildrenInv, ChildrenTyping
    <3>2. view[c] = Nothing /\ known[c] # Nothing
      BY <1>3, <1>7, <2>2
    <3> QED BY <3>1, <3>2 DEF ChildrenInv, Telling
  <2> QED BY <2>1, <2>2
<1>12. ASSUME NEW d \in Children, view[d] # Nothing, view'[d] # view[d]
       PROVE  \/ view'[d].attempt > view[d].attempt
              \/ /\ view'[d].attempt = view[d].attempt
                 /\ view'[d].status = "running" => known'[d].agent # known[d].agent
  <2>1. d = c /\ view'[c] = overview /\ known[c] # Nothing
    BY <1>3, <1>7, <1>12
  <2> QED BY <1>3, <1>7, <1>12, <2>1
<1>13. SameStopAgent
  BY <1>3 DEF SameStopAgent, Settles, ChildrenInv, ChildrenTyping, ClientTyping, Stops
<1>14. ViewsStay /\ (c \in Workers => view'[c] # Nothing)
  BY <1>3, <1>7, <1>9 DEF ViewsStay, Telling
<1> QED BY <1>1, <1>5, <1>8, <1>9, <1>10, <1>11, <1>12, <1>13, <1>14 DEF ChildrenInv

-----------------------------------------------------------------------------
(* The request to stop a child *)

LEMMA AnsweredFacts ==
    ASSUME ChildrenInv
    PROVE  /\ stop \in Stops /\ Answered \in Stops /\ Answered.phase = "answered"
           /\ Answered.child = stop.child /\ Answered.from = stop.from
           /\ Answered.settled = stop.settled
  BY DEF ChildrenInv, ChildrenTyping, ClientTyping, Stops, StopPhases, Answered

LEMMA AnsweredKeeps ==
    ASSUME ChildrenInv, UNCHANGED <<turns, known>>, stop.phase # "idle", stop' = Answered
    PROVE  stop' \in Stops /\ Stopping'
<1>1. StopToldTruly'
  BY AnsweredFacts DEF ChildrenInv, Stopping, StopToldTruly
<1> QED BY <1>1, AnsweredFacts DEF ChildrenInv, Stopping, Delivered

StopTalks == StopLists \/ StopFails \/ StopReturns \/ StopEnds
                \/ \E c \in Children : RequestStop(c)

LEMMA StopTalksKeep == ChildrenInv /\ StopTalks => ChildrenInv'
<1> SUFFICES ASSUME ChildrenInv, StopTalks PROVE ChildrenInv'
  OBVIOUS
<1>1. UNCHANGED <<native, client, workflow>>
  BY DEF StopTalks, StopLists, StopFails, StopReturns, StopEnds, RequestStop
<1>2. LogsLeft
  <2>1. UNCHANGED <<cut, overtaken>> \/ (stop.child \in Children /\ LeaveLog(stop.child))
    <3>1. stop.phase # "idle" => stop.child \in Children
      BY DEF ChildrenInv, Stopping, Delivered
    <3> QED BY <3>1 DEF StopTalks, StopLists, StopFails, StopReturns, StopEnds, RequestStop, logs
  <2> QED BY <2>1, LeaveLogLeaves, LogsStay DEF ChildrenInv
<1>3. stop' \in Stops /\ Stopping'
  <2>1. CASE stop.phase # "idle" /\ stop' = Answered
    BY <1>1, <2>1, AnsweredKeeps DEF native, client
  <2>2. ASSUME StopLists, stop' # Answered PROVE stop' \in Stops /\ Stopping'
    <3>1. /\ stop.phase = "listing"
          /\ stop' = [stop EXCEPT !.phase = "reading", !.agent = agentOf[stop.child]]
      BY <2>2 DEF StopLists
    <3>2. stop \in Stops /\ stop.child \in Delivered /\ stop.child \in Children
      BY <3>1, AnsweredFacts DEF ChildrenInv, Stopping, Delivered
    <3>3. agentOf[stop.child] \in Nat
      BY <3>2 DEF ChildrenInv, ChildrenTyping, NativeTyping
    <3>4. /\ stop' \in Stops /\ stop'.phase = "reading" /\ stop'.child = stop.child
          /\ stop'.watch = stop.watch /\ stop'.settled = stop.settled
      BY <3>1, <3>2, <3>3 DEF Stops, StopPhases
    <3>5. stop.watch = 0 /\ stop.settled = Nothing
      BY <3>1 DEF ChildrenInv, Stopping
    <3> QED BY <3>2, <3>4, <3>5 DEF Stopping, StopToldTruly, Delivered
  <2>3. ASSUME NEW c \in Children, RequestStop(c) PROVE stop' \in Stops /\ Stopping'
    <3>1. stop' = [NoStop EXCEPT !.phase = "listing", !.child = c] /\ c \in Delivered
      BY <2>3 DEF RequestStop
    <3>2. /\ stop' \in Stops /\ stop'.phase = "listing" /\ stop'.child = c
          /\ stop'.watch = 0 /\ stop'.settled = Nothing
      BY <3>1 DEF NoStop, Stops, StopPhases
    <3> QED BY <3>1, <3>2 DEF Stopping, StopToldTruly, Delivered
  <2>4. \/ stop.phase # "idle" /\ stop' = Answered
        \/ StopLists /\ stop' # Answered
        \/ \E c \in Children : RequestStop(c)
    BY DEF StopTalks, StopLists, StopFails, StopReturns, StopEnds
  <2> QED BY <2>1, <2>2, <2>3, <2>4
<1> QED BY <1>1, <1>2, <1>3, SameMembers, QuietKeeps DEF native, client, workflow, memberVars

\* The host takes the turn that it interrupts for the one that the client knows;
\* it is not older than what the client was told.
LEMMA StopInterruptsKeeps == ChildrenInv /\ StopInterrupts => ChildrenInv'
<1> SUFFICES ASSUME ChildrenInv, StopInterrupts, NEW c, c = stop.child PROVE ChildrenInv'
  OBVIOUS
<1> DEFINE attempt == IF stop.watch # 0 THEN stop.watch ELSE Len(cut[c].prefix)
           state == [agent |-> stop.agent, attempt |-> attempt, status |-> "running"]
<1>1. /\ stop.phase = "reading" /\ cut[c] # Nothing /\ cut[c].fixed /\ LeaveLog(c)
      /\ UNCHANGED <<turns, spawned, agentOf, running, view, memberVars>>
  BY DEF StopInterrupts, HasRead, workflow, memberVars
<1>2. c \in Delivered /\ c \in Children /\ stop \in Stops /\ stop.settled = Nothing
  BY <1>1, AnsweredFacts DEF ChildrenInv, Stopping, Delivered
<1>3. LogsLeft /\ cut'[c] = Nothing
  BY <1>1, <1>2, LeaveLogLeaves DEF ChildrenInv
<1>4. \/ UNCHANGED known /\ stop' = Answered
      \/ /\ known' = [known EXCEPT ![c] = state]
         /\ \/ stop' = [stop EXCEPT !.phase = "interrupting", !.from = attempt]
            \/ stop' = Answered
  BY DEF StopInterrupts
<1>5. CASE UNCHANGED known /\ stop' = Answered
  <2>1. stop' \in Stops /\ Stopping'
    BY <1>1, <1>5, AnsweredKeeps
  <2> QED BY <1>1, <1>3, <1>5, <2>1, SameMembers, QuietKeeps
<1>6. CASE known' = [known EXCEPT ![c] = state]
  <2>1. /\ Len(cut[c].prefix) \in Nat /\ Len(cut[c].prefix) <= Len(turns[c])
        /\ Len(turns[c]) \in Nat /\ stop.watch \in Nat /\ stop.agent \in Nat
        /\ stop.watch # 0 => stop.watch = Len(turns[c])
        /\ known[c] # Nothing => known[c].attempt <= Len(cut[c].prefix)
                                 /\ known[c].attempt \in Nat
    BY <1>1, <1>2, LogFacts
       DEF ChildrenInv, ChildrenTyping, ClientTyping, Reads, Reading, Stopping, Stops, ChildState
  <2>2. /\ attempt \in Nat /\ attempt <= Len(turns[c])
        /\ known[c] # Nothing => known[c].attempt <= attempt
    BY <2>1
  <2> HIDE DEF attempt
  <2>3. state \in ChildState /\ state.attempt = attempt
    BY <2>1, <2>2 DEF ChildState
  <2> HIDE DEF state
  <2>4. /\ known' \in [Children -> ChildState \cup {Nothing}]
        /\ known'[c] = state /\ state # Nothing
        /\ \A d \in Children \ {c} : known'[d] = known[d]
    BY <1>2, <1>6, <2>3, ChildrenAssumption DEF ChildrenInv, ChildrenTyping, ClientTyping
  <2>5. stop' \in Stops /\ Stopping'
    <3>1. CASE stop' = Answered
      <4>1. StopToldTruly'
        BY <1>1, <3>1, AnsweredFacts DEF ChildrenInv, Stopping, StopToldTruly
      <4> QED BY <1>2, <3>1, <4>1, AnsweredFacts DEF Stopping
    <3>2. CASE stop' = [stop EXCEPT !.phase = "interrupting", !.from = attempt]
      <4>1. /\ stop' \in Stops /\ stop'.phase = "interrupting" /\ stop'.child = c
            /\ stop'.from = attempt /\ stop'.settled = Nothing
        BY <1>2, <2>2, <3>2 DEF Stops, StopPhases
      <4> QED BY <1>2, <2>2, <2>3, <2>4, <4>1 DEF Stopping, StopToldTruly, Delivered
    <3> QED BY <1>4, <1>6, <3>1, <3>2
  <2>6. ChildrenTyping' /\ NativeTyping'
    BY <1>1, <1>3, <2>4, <2>5
       DEF ChildrenInv, ChildrenTyping, NativeTyping, ClientTyping, LogsLeft, memberVars
  <2>7. \A d \in Children : RunsInTurn(d)'
    BY <1>1 DEF ChildrenInv, RunsInTurn, InTurn
  <2>8. \A d \in Children : Telling(d)' /\ Reading(d)'
    <3>1. ASSUME NEW d \in Children, d # c PROVE Telling(d)' /\ Reading(d)'
      <4>1. Grows(d)
        BY <1>1, GrowsUnchanged DEF ChildrenInv, ChildrenTyping
      <4> QED BY <1>1, <1>3, <2>4, <2>6, <3>1, <4>1, TruthsStay DEF LogsLeft
    <3>2. Telling(c)'
      <4>1. view[c] # Nothing => view[c].attempt \in Nat
        BY <1>2 DEF ChildrenInv, ChildrenTyping, ClientTyping, Told
      <4>2. Telling(c) /\ c \notin Workers
        BY <1>2 DEF ChildrenInv, Delivered
      <4>3. overtaken' = overtaken
        BY <1>3 DEF LogsLeft
      <4> QED BY <1>1, <2>1, <2>2, <2>3, <2>4, <4>1, <4>2, <4>3 DEF Telling
    <3>3. Reading(c)'
      BY <1>3 DEF Reading
    <3> QED BY <3>1, <3>2, <3>3
  <2>9. Members'
    BY <1>1, SameMembers
  <2> QED BY <2>5, <2>6, <2>7, <2>8, <2>9 DEF ChildrenInv
<1> QED BY <1>4, <1>5, <1>6

-----------------------------------------------------------------------------
(* The session, and the theorems *)

HostStep == Suspend \/ Resume \/ CloseSession \/ DisposeChildren \/ ChildrenDisposed

LEMMA HostKeeps == ChildrenInv /\ HostStep => ChildrenInv'
<1> SUFFICES ASSUME ChildrenInv, HostStep PROVE ChildrenInv'
  OBVIOUS
<1>1. UNCHANGED <<native, client, logs, workflow>>
  BY DEF HostStep, Suspend, Resume, CloseSession, DisposeChildren, ChildrenDisposed
<1>2. stop' = stop \/ stop' = [stop EXCEPT !.aborted = StopPending]
  BY DEF HostStep, Suspend, Resume, CloseSession, DisposeChildren, ChildrenDisposed, AbortWork
<1>3. StopPending \in BOOLEAN
  BY DEF StopPending
<1>4. /\ stop' \in Stops /\ stop'.phase = stop.phase /\ stop'.child = stop.child
      /\ stop'.from = stop.from /\ stop'.watch = stop.watch /\ stop'.settled = stop.settled
  BY <1>2, <1>3, AnsweredFacts DEF Stops
<1>5. Stopping'
  <2>1. StopToldTruly'
    BY <1>1, <1>4 DEF ChildrenInv, Stopping, StopToldTruly, native
  <2> QED BY <1>1, <1>4, <2>1 DEF ChildrenInv, Stopping, native, client
<1> QED BY <1>1, <1>4, <1>5, SameMembers, LogsStay, QuietKeeps
        DEF native, client, logs, workflow, memberVars, ChildrenInv

\* The steps that tell the client of a child are the ending of its turn and the
\* read of its row.
LEMMA ChildrenStay ==
    ASSUME ChildrenInv, AgentsHeld, [NextChildren]_childrenVars
    PROVE  /\ ChildrenInv'
           /\ \/ UNCHANGED view
              \/ \E c \in Children : TurnEnds(c) \/ ReadDone(c)
<1>1. CASE UNCHANGED childrenVars
  <2>1. UNCHANGED <<native, client, logs, stop, workflow>>
    BY <1>1 DEF childrenVars
  <2> QED BY <2>1, SameStop, SameMembers, LogsStay, QuietKeeps
          DEF native, client, logs, workflow, memberVars, ChildrenInv
<1>2. CASE AgentStep
  BY <1>2, AgentsKeep DEF AgentStep, Spawn, StatusChanges, ReleaseAgent, client
<1>3. ASSUME NEW c \in Children, TurnStarts(c) PROVE ChildrenInv' /\ UNCHANGED view
  BY <1>3, TurnStartsKeeps DEF TurnStarts, client
<1>4. ASSUME NEW c \in Children, TurnEnds(c) PROVE ChildrenInv'
  BY <1>4, TurnEndsKeeps
<1>5. ASSUME NEW c \in Children, ReadDone(c) PROVE ChildrenInv'
  BY <1>5, ReadDoneKeeps
<1>6. ASSUME NEW c \in Children, Cut(c) \/ ColdCut(c) PROVE ChildrenInv' /\ UNCHANGED view
  BY <1>6, CutKeeps DEF Cut, ColdCut, client
<1>7. CASE LoopStep
  BY <1>7, LoopsKeep
     DEF LoopStep, Poll, Snapshot, BeginRound, ListRows, RoundFails, RefreshEnds, ReadNext, client
<1>8. CASE MemberStep
  BY <1>8, MembersKeep
     DEF MemberStep, Deadline, RoundDone, WorkflowEvent, SnapshotShows, MemberStarts, client
<1>9. CASE StopTalks
  BY <1>9, StopTalksKeep
     DEF StopTalks, StopLists, StopFails, StopReturns, StopEnds, RequestStop, client
<1>10. CASE StopInterrupts
  BY <1>10, StopInterruptsKeeps DEF StopInterrupts
<1>11. CASE HostStep
  BY <1>11, HostKeeps
     DEF HostStep, Suspend, Resume, CloseSession, DisposeChildren, ChildrenDisposed, client
<1>12. ASSUME NextChildren
       PROVE  \/ AgentStep \/ LoopStep \/ MemberStep \/ StopTalks \/ StopInterrupts \/ HostStep
              \/ \E c \in Children :
                    TurnStarts(c) \/ TurnEnds(c) \/ ReadDone(c) \/ Cut(c) \/ ColdCut(c)
  BY <1>12 DEF NextChildren, SnapshotStep, RefreshStep, StopStep, AgentStep, LoopStep, MemberStep, StopTalks,
     HostStep
<1> QED BY <1>1, <1>2, <1>3, <1>4, <1>5, <1>6, <1>7, <1>8, <1>9, <1>10, <1>11, <1>12

\* The agents that children and stops have.
LEMMA AgentsStay ==
    ASSUME ChildrenInv, AgentsHeld, [NextChildren]_childrenVars PROVE AgentsHeld'
<1> DEFINE d == stop.child
<1>1. /\ spawned \in [Children -> Nat] /\ agentOf \in [Children -> Nat]
      /\ running \in [Children -> BOOLEAN] /\ stop \in Stops
      /\ cut \in [Children -> Reads \cup {Nothing}]
      /\ stop.phase # "idle" => stop.child \in Children
  BY DEF ChildrenInv, ChildrenTyping, NativeTyping, ClientTyping, Stopping, Delivered
<1>2. CASE UNCHANGED <<spawned, agentOf, running, cut>> /\ SameStopAgent
  BY <1>1, <1>2 DEF AgentsHeld, SameStopAgent
<1>3. ASSUME NEW c \in Children, Spawn(c) PROVE AgentsHeld'
  <2>1. /\ spawned' = [spawned EXCEPT ![c] = @ + 1]
        /\ agentOf' = [agentOf EXCEPT ![c] = spawned[c] + 1]
        /\ running' = [running EXCEPT ![c] = TRUE]
        /\ UNCHANGED <<cut, stop>>
    BY <1>1, <1>3 DEF Spawn, logs
  <2>2. \A e \in Children : (running'[e] => agentOf'[e] # 0) /\ agentOf'[e] <= spawned'[e]
    BY <1>1, <2>1 DEF AgentsHeld
  <2>3. stop.agent \in Nat
    BY <1>1 DEF Stops
  <2> QED BY <1>1, <2>1, <2>2, <2>3 DEF AgentsHeld
<1>4. ASSUME NEW c \in Children, StatusChanges(c) \/ ReleaseAgent(c) PROVE AgentsHeld'
  <2>1. CASE StatusChanges(c)
    <3>1. /\ agentOf[c] # 0 /\ running' = [running EXCEPT ![c] = ~@]
          /\ UNCHANGED <<spawned, agentOf, cut, stop>>
      BY <2>1 DEF StatusChanges, logs
    <3>2. \A e \in Children : running'[e] => agentOf'[e] # 0
      BY <1>1, <3>1 DEF AgentsHeld
    <3> QED BY <3>1, <3>2 DEF AgentsHeld
  <2>2. CASE ReleaseAgent(c)
    <3>1. /\ ~running[c] /\ agentOf' = [agentOf EXCEPT ![c] = 0]
          /\ UNCHANGED <<spawned, running, cut, stop>>
      BY <2>2 DEF ReleaseAgent, logs
    <3>2. \A e \in Children : (running'[e] => agentOf'[e] # 0) /\ agentOf'[e] <= spawned'[e]
      BY <1>1, <3>1 DEF AgentsHeld
    <3>3. \A e \in Children : agentOf'[e] = agentOf[e] \/ agentOf'[e] = 0
      BY <1>1, <3>1
    <3> QED BY <1>1, <3>1, <3>2, <3>3 DEF AgentsHeld
  <2> QED BY <1>4, <2>1, <2>2
<1>5. ASSUME NEW c \in Children, TurnStarts(c) PROVE AgentsHeld'
  BY <1>1, <1>2, <1>5 DEF TurnStarts, SameStopAgent, Stops, logs
<1>6. ASSUME NEW c \in Children, TurnEnds(c) PROVE AgentsHeld'
  BY <1>2, <1>6, TurnEndsKeeps DEF TurnEnds, logs
<1>7. ASSUME NEW c \in Children, LeaveLog(c), SameStopAgent, UNCHANGED <<spawned, agentOf, running>>
      PROVE  AgentsHeld'
  BY <1>1, <1>7 DEF AgentsHeld, SameStopAgent, LeaveLog
<1>8. ASSUME NEW c \in Children, ReadDone(c) PROVE AgentsHeld'
  BY <1>7, <1>8, ReadDoneKeeps DEF ReadDone, native
<1>9. ASSUME NEW c \in Children, Cut(c) \/ ColdCut(c) PROVE AgentsHeld'
  <2>1. UNCHANGED <<spawned, agentOf, running, stop>>
    BY <1>9 DEF Cut, ColdCut, native
  <2>2. PICK read :
          /\ cut' = [cut EXCEPT ![c] = read]
          /\ read.cold => agentOf[c] = 0 \/ (cut[c] # Nothing /\ cut[c].cold)
    <3>1. CASE Cut(c)
      <4> DEFINE read == IF agentOf[c] # 0
              THEN [prefix |-> turns[c], busy |-> running[c], cold |-> FALSE, fixed |-> TRUE]
              ELSE [prefix |-> <<>>, busy |-> FALSE, cold |-> TRUE, fixed |-> FALSE]
      <4>1. cut' = [cut EXCEPT ![c] = read] /\ (read.cold => agentOf[c] = 0)
        BY <3>1 DEF Cut
      <4> QED BY <4>1
    <3>2. CASE ColdCut(c)
      <4>1. cut[c] \in Reads /\ cut[c] # Nothing /\ ~cut[c].fixed
        BY <1>1, <3>2 DEF ColdCut
      <4> QED BY <3>2, <4>1 DEF ColdCut, ChildrenInv, Reading
    <3> QED BY <1>9, <3>1, <3>2
  <2> QED BY <1>1, <2>1, <2>2 DEF AgentsHeld
<1>10. ASSUME StopLists PROVE AgentsHeld'
  <2>1. CASE stop' = Answered
    BY <1>10, <2>1, AnsweredFacts DEF StopLists, AgentsHeld, native
  <2>2. CASE stop' # Answered
    <3>1. /\ stop.phase = "listing" /\ running[d] /\ UNCHANGED <<native, cut>>
          /\ stop' = [stop EXCEPT !.phase = "reading", !.agent = agentOf[d]]
      BY <1>10, <2>2 DEF StopLists
    <3>2. stop'.phase = "reading" /\ stop'.agent = agentOf[d] /\ stop'.child = d
      BY <1>1, <3>1 DEF Stops
    <3> QED BY <1>1, <3>1, <3>2 DEF AgentsHeld, native
  <2> QED BY <2>1, <2>2
<1>11. ASSUME StopInterrupts PROVE AgentsHeld'
  <2>1. /\ stop.phase = "reading" /\ LeaveLog(d) /\ UNCHANGED <<spawned, agentOf, running>>
        /\ \/ stop' = Answered
           \/ \E from : stop' = [stop EXCEPT !.phase = "interrupting", !.from = from]
    BY <1>11 DEF StopInterrupts
  <2>2. /\ stop'.phase \in {"answered", "interrupting"} /\ stop'.child = d
        /\ stop'.phase = "interrupting" => stop'.agent = stop.agent
    BY <1>1, <2>1, AnsweredFacts DEF Stops
  <2>3. cut'[d] = Nothing
    BY <1>1, <2>1, LeaveLogLeaves DEF ChildrenInv
  <2> QED BY <2>1, <2>2, <2>3 DEF AgentsHeld
<1>12. ASSUME StopFails \/ StopReturns \/ StopEnds PROVE AgentsHeld'
  BY <1>12, AnsweredFacts DEF StopFails, StopReturns, StopEnds, AgentsHeld, native
<1>13. ASSUME NEW c \in Children, RequestStop(c) PROVE AgentsHeld'
  <2>1. stop'.phase = "listing"
    BY <1>13 DEF RequestStop, NoStop
  <2> QED BY <1>13, <2>1 DEF RequestStop, AgentsHeld, native
<1>14. ASSUME \/ LoopStep \/ MemberStep \/ HostStep \/ UNCHANGED childrenVars PROVE AgentsHeld'
  <2>1. UNCHANGED <<spawned, agentOf, running>> /\ SameStopAgent
    BY <1>1, <1>14 DEF LoopStep, MemberStep, HostStep, Poll, Snapshot, BeginRound, ListRows,
       RoundFails, RefreshEnds, ReadNext, Deadline, RoundDone, WorkflowEvent, SnapshotShows,
       MemberStarts, Suspend, Resume, CloseSession, DisposeChildren, ChildrenDisposed, AbortWork,
       childrenVars, native, SameStopAgent, Stops
  <2>2. UNCHANGED cut \/ \E c \in Children : LeaveLog(c)
    BY <1>14 DEF LoopStep, MemberStep, HostStep, Poll, Snapshot, BeginRound, ListRows,
       RoundFails, RefreshEnds, ReadNext, Deadline, RoundDone, WorkflowEvent, SnapshotShows,
       MemberStarts, Suspend, Resume, CloseSession, DisposeChildren, ChildrenDisposed,
       childrenVars, logs
  <2> QED BY <1>2, <1>7, <2>1, <2>2
<1> QED BY <1>3, <1>4, <1>5, <1>6, <1>8, <1>9, <1>10, <1>11, <1>12, <1>13, <1>14
        DEF NextChildren, SnapshotStep, RefreshStep, StopStep, LoopStep, MemberStep, HostStep

\* What refreshes that work have found of the members from the log of the session.
RefreshTyping ==
    refresh \in [phase : {"none", "due", "listing", "reading"}, dirty : BOOLEAN,
                rows : SUBSET Children, busy : SUBSET Children,
                reading : Children \cup {Nothing}, found : BOOLEAN, aborted : BOOLEAN]

Found == \A c \in restored \cap listed : view[c] # Nothing

RestoredSeen ==
    /\ RefreshTyping /\ listed \subseteq Children
    /\ \A c \in restored : spawned[c] # 0
    /\ refresh.phase = "reading" =>
        \A c \in (restored \cap listed) \ refresh.rows : view[c] # Nothing
    /\ IsLive /\ snapshot \in {"settled", "shown"} => Found \/ lost
    /\ shown \cap restored # {} => Found \/ lost \/ gaveUp

LEMMA RestoredStart == InitChildren => RestoredSeen
<1> SUFFICES ASSUME InitChildren PROVE RestoredSeen
  OBVIOUS
<1>1. RefreshTyping
  BY DEF InitChildren, NoRefresh, RefreshTyping
<1>2. restored \subseteq Children /\ listed \subseteq Children
  BY ChildrenAssumption DEF InitChildren
<1> QED BY <1>1, <1>2 DEF InitChildren, RestoredSeen, NoRefresh, Found

\* A request for a refresh changes no round that is under way.
LEMMA AskRefreshKeeps ==
    ASSUME RefreshTyping, AskRefresh
    PROVE  /\ RefreshTyping' /\ (lost' = lost \/ lost' = TRUE)
           /\ refresh'.phase = "reading" => refresh.phase = "reading" /\ refresh'.rows = refresh.rows
           /\ IsLive /\ refresh'.phase = "none" => lost'
<1>1. CASE UNCHANGED <<refresh, lost>> /\ ~IsLive
  BY <1>1 DEF RefreshTyping
<1>2. CASE refresh.phase # "none" /\ refresh' = [refresh EXCEPT !.dirty = TRUE] /\ UNCHANGED lost
  BY <1>2 DEF RefreshTyping
<1>3. CASE refresh.phase = "none" /\ lost' = TRUE /\ UNCHANGED refresh
  BY <1>3 DEF RefreshTyping
<1>4. CASE refresh' = [NoRefresh EXCEPT !.phase = "due", !.dirty = TRUE] /\ UNCHANGED lost
  BY <1>4 DEF RefreshTyping, NoRefresh
<1> QED BY <1>1, <1>2, <1>3, <1>4 DEF AskRefresh

\* The end of a round: of the refresh too, or it is due again.
LEMMA EndRoundKeeps ==
    ASSUME NEW troubled \in BOOLEAN, EndRound(troubled) \/ EndRefresh(troubled)
    PROVE  /\ RefreshTyping' /\ refresh'.phase # "reading"
           /\ \/ UNCHANGED <<lost, snapshot>>
              \/ lost' = troubled /\ snapshot' \in {snapshot, "settled"}
<1>1. CASE EndRefresh(troubled)
  BY <1>1 DEF EndRefresh, NoRefresh, RefreshTyping
<1>2. CASE /\ refresh' = [NoRefresh EXCEPT !.phase = "due", !.dirty = TRUE]
           /\ UNCHANGED <<lost, snapshot>>
  BY <1>2 DEF NoRefresh, RefreshTyping
<1> QED BY <1>1, <1>2 DEF EndRound

LEMMA RestoredStay ==
    ASSUME ChildrenInv, AgentsHeld, RestoredSeen, [NextChildren]_childrenVars
    PROVE  RestoredSeen'
<1>1. ViewsStay
  <2>1. CASE UNCHANGED view
    BY <2>1 DEF ViewsStay
  <2> QED BY <2>1, ChildrenStay, TurnEndsKeeps, ReadDoneKeeps
<1>2. UNCHANGED restored /\ (IsLive' => IsLive)
  BY DEF NextChildren, SnapshotStep, Snapshot, SnapshotShows, RefreshStep, StopStep, Spawn, TurnStarts,
     TurnEnds, StatusChanges, ReleaseAgent, MemberStarts, Cut, ColdCut, RequestStop, WorkflowEvent,
     Poll, Deadline, BeginRound, ListRows, RoundDone, RefreshEnds, ReadNext, ReadDone, RoundFails,
     StopLists, StopInterrupts, StopReturns, StopEnds, StopFails, Suspend, Resume, CloseSession,
     DisposeChildren, ChildrenDisposed, childrenVars, workflow, host, IsLive
<1>3. restored \subseteq Workers
  BY DEF ChildrenInv, ChildrenTyping
<1>4. /\ UNCHANGED (restored \cap listed) /\ listed' \subseteq Children
      /\ \A c \in restored' : spawned'[c] # 0
  <2>1. CASE UNCHANGED <<spawned, listed>>
    BY <1>2, <2>1 DEF RestoredSeen
  <2>2. ASSUME NEW c \in Children, Spawn(c)
        PROVE  /\ UNCHANGED (restored \cap listed) /\ listed' \subseteq Children
               /\ \A d \in restored' : spawned'[d] # 0
    <3>1. c \notin restored
      BY <1>3, <2>2 DEF RestoredSeen, Spawn
    <3>2. spawned' = [spawned EXCEPT ![c] = @ + 1] /\ listed' = listed \cup {c}
      BY <2>2 DEF Spawn
    <3>3. \A d \in restored : d \in Children /\ spawned'[d] = spawned[d]
      BY <1>3, <3>1, <3>2, ChildrenAssumption DEF ChildrenInv, ChildrenTyping, NativeTyping
    <3> QED BY <1>2, <3>1, <3>2, <3>3 DEF RestoredSeen
  <2> QED BY <2>1, <2>2 DEF NextChildren, SnapshotStep, Snapshot, SnapshotShows, RefreshStep,
        StopStep, TurnStarts, TurnEnds, StatusChanges, ReleaseAgent, MemberStarts, Cut, ColdCut,
        RequestStop, WorkflowEvent, Poll, Deadline, BeginRound, ListRows, RoundDone, RefreshEnds,
        ReadNext, ReadDone, RoundFails, StopLists, StopInterrupts, StopReturns, StopEnds, StopFails,
        Suspend, Resume, CloseSession, DisposeChildren, ChildrenDisposed, childrenVars, native
<1>5. \A c \in restored \cap listed : c \in Children
  BY DEF RestoredSeen
<1>6. Found => Found'
  BY <1>1, <1>2, <1>4, <1>5 DEF Found, ViewsStay
<1>7. ASSUME RefreshTyping', lost => lost', UNCHANGED snapshot, gaveUp => gaveUp',
             refresh'.phase = "reading" =>
                 refresh.phase = "reading" /\ refresh'.rows = refresh.rows,
             UNCHANGED (shown \cap restored) \/ gaveUp'
      PROVE  RestoredSeen'
  <2>1. refresh'.phase = "reading" =>
            \A c \in (restored' \cap listed') \ refresh'.rows : view'[c] # Nothing
    BY <1>1, <1>4, <1>5, <1>7 DEF RestoredSeen, ViewsStay
  <2>2. IsLive' /\ snapshot' \in {"settled", "shown"} => Found' \/ lost'
    BY <1>2, <1>6, <1>7 DEF RestoredSeen
  <2>3. shown' \cap restored' # {} => Found' \/ lost' \/ gaveUp'
    BY <1>6, <1>7 DEF RestoredSeen
  <2> QED BY <1>4, <1>7, <2>1, <2>2, <2>3 DEF RestoredSeen
<1>8. ASSUME AskRefresh \/ UNCHANGED <<refresh, lost>>, UNCHANGED <<snapshot, gaveUp>>,
             UNCHANGED shown \/ ShowRun
      PROVE  RestoredSeen'
  <2>1. UNCHANGED (shown \cap restored)
    BY <1>2, <1>8 DEF ShowRun
  <2>2. CASE AskRefresh
    BY <1>7, <1>8, <2>1, <2>2, AskRefreshKeeps DEF RestoredSeen
  <2>3. CASE UNCHANGED <<refresh, lost>>
    BY <1>7, <1>8, <2>1, <2>3 DEF RestoredSeen, RefreshTyping
  <2> QED BY <1>8, <2>2, <2>3
<1>9. ASSUME \/ \E c \in Children : \/ Spawn(c) \/ TurnStarts(c) \/ TurnEnds(c) \/ StatusChanges(c)
                                    \/ ReleaseAgent(c) \/ MemberStarts(c) \/ Cut(c) \/ ColdCut(c)
                                    \/ RequestStop(c)
             \/ WorkflowEvent \/ Poll \/ StopStep \/ StopFails
             \/ Resume \/ DisposeChildren \/ ChildrenDisposed \/ UNCHANGED childrenVars
      PROVE  RestoredSeen'
  <2>1. /\ AskRefresh \/ UNCHANGED <<refresh, lost>>
        /\ UNCHANGED <<snapshot, gaveUp>>
        /\ UNCHANGED shown \/ ShowRun
    BY <1>9 DEF Spawn, TurnStarts, TurnEnds, StatusChanges, ReleaseAgent, MemberStarts, Cut, ColdCut,
       RequestStop, WorkflowEvent, Poll, StopStep, StopLists, StopInterrupts, StopReturns, StopEnds,
       StopFails, Resume, DisposeChildren, ChildrenDisposed, childrenVars, workflow
  <2> QED BY <1>8, <2>1
<1>10. CASE Suspend \/ CloseSession
  <2>1. /\ refresh' = [refresh EXCEPT !.aborted = refresh.phase # "none"]
        /\ UNCHANGED <<lost, snapshot, shown, gaveUp, restored>>
    BY <1>10 DEF Suspend, CloseSession, AbortWork, workflow
  <2>2. RefreshTyping' /\ refresh'.phase = refresh.phase /\ refresh'.rows = refresh.rows
    BY <2>1 DEF RestoredSeen, RefreshTyping
  <2> QED BY <1>7, <2>1, <2>2
<1>11. CASE Deadline
  <2>1. UNCHANGED <<refresh, lost, snapshot>> /\ gaveUp'
    BY <1>11 DEF Deadline
  <2> QED BY <1>7, <2>1 DEF RestoredSeen, RefreshTyping
<1>12. CASE Snapshot
  <2>1. /\ AskRefresh /\ UNCHANGED <<shown, gaveUp, host>>
        /\ snapshot' = IF refresh'.phase = "none" THEN "settled" ELSE "waiting"
    BY <1>12 DEF Snapshot
  <2>2. /\ RefreshTyping' /\ (lost' = lost \/ lost' = TRUE)
        /\ refresh'.phase = "reading" => refresh.phase = "reading" /\ refresh'.rows = refresh.rows
        /\ IsLive /\ refresh'.phase = "none" => lost'
    BY <2>1, AskRefreshKeeps DEF RestoredSeen
  <2>3. refresh'.phase = "reading" =>
            \A c \in (restored' \cap listed') \ refresh'.rows : view'[c] # Nothing
    BY <1>1, <1>4, <1>5, <2>2 DEF RestoredSeen, ViewsStay
  <2>4. IsLive' /\ snapshot' \in {"settled", "shown"} => lost'
    BY <1>2, <2>1, <2>2
  <2>5. shown' \cap restored' # {} => Found' \/ lost' \/ gaveUp'
    BY <1>2, <1>6, <2>1, <2>2 DEF RestoredSeen
  <2> QED BY <1>4, <2>2, <2>3, <2>4, <2>5 DEF RestoredSeen
<1>13. CASE SnapshotShows
  <2>1. /\ snapshot = "settled" /\ UNCHANGED <<refresh, lost, gaveUp, host>>
        /\ IF IsLive THEN TRUE ELSE UNCHANGED shown
    BY <1>13 DEF SnapshotShows, ShowMembers
  <2>2. refresh'.phase = "reading" =>
            \A c \in (restored' \cap listed') \ refresh'.rows : view'[c] # Nothing
    BY <1>1, <1>4, <1>5, <2>1 DEF RestoredSeen, ViewsStay
  <2>3. IsLive => Found' \/ lost'
    BY <1>6, <2>1 DEF RestoredSeen
  <2>4. shown' \cap restored' # {} => Found' \/ lost' \/ gaveUp'
    BY <1>2, <1>6, <2>1, <2>3 DEF RestoredSeen
  <2>5. RefreshTyping'
    BY <2>1 DEF RestoredSeen, RefreshTyping
  <2> QED BY <1>2, <1>4, <2>2, <2>3, <2>4, <2>5 DEF RestoredSeen
<1>14. CASE BeginRound
  <2>1. /\ refresh' = [refresh EXCEPT !.phase = "listing", !.dirty = FALSE, !.found = FALSE]
        /\ UNCHANGED <<lost, snapshot, shown, gaveUp, restored>>
    BY <1>14 DEF BeginRound, workflow
  <2>2. RefreshTyping' /\ refresh'.phase = "listing"
    BY <2>1 DEF RestoredSeen, RefreshTyping
  <2> QED BY <1>7, <2>1, <2>2
<1>15. CASE ListRows
  <2>1. /\ refresh' = [refresh EXCEPT !.phase = "reading", !.rows = listed,
                          !.busy = {c \in listed : running[c]}]
        /\ UNCHANGED <<lost, snapshot, shown, gaveUp, listed>>
    BY <1>15 DEF ListRows, native, workflow
  <2>2. RefreshTyping' /\ refresh'.rows = listed'
    BY <2>1 DEF RestoredSeen, RefreshTyping
  <2>3. IsLive' /\ snapshot' \in {"settled", "shown"} => Found' \/ lost'
    BY <1>2, <1>6, <2>1 DEF RestoredSeen
  <2>4. shown' \cap restored' # {} => Found' \/ lost' \/ gaveUp'
    BY <1>2, <1>6, <2>1 DEF RestoredSeen
  <2> QED BY <1>4, <2>2, <2>3, <2>4 DEF RestoredSeen
<1>16. ASSUME NEW c \in Children, ReadNext(c) PROVE RestoredSeen'
  <2>1. /\ refresh.phase = "reading" /\ refresh' = [refresh EXCEPT !.reading = c]
        /\ UNCHANGED <<lost, snapshot, shown, gaveUp, restored>>
    BY <1>16 DEF ReadNext, workflow
  <2>2. RefreshTyping' /\ refresh'.rows = refresh.rows
    BY <2>1 DEF RestoredSeen, RefreshTyping
  <2> QED BY <1>7, <2>1, <2>2
<1>17. ASSUME NEW c \in Children, ReadDone(c) PROVE RestoredSeen'
  <2>1. /\ refresh' = [refresh EXCEPT !.rows = @ \ {c}, !.reading = Nothing,
                          !.found = @ \/ c \in awaited]
        /\ UNCHANGED <<lost, snapshot, shown, gaveUp, restored>>
    BY <1>17 DEF ReadDone
  <2>2. RefreshTyping' /\ refresh'.phase = refresh.phase /\ refresh'.rows = refresh.rows \ {c}
    BY <2>1 DEF RestoredSeen, RefreshTyping
  <2>3. refresh'.phase = "reading" =>
            \A d \in (restored' \cap listed') \ refresh'.rows : view'[d] # Nothing
    <3> SUFFICES ASSUME refresh.phase = "reading",
                        NEW d \in (restored \cap listed) \ (refresh.rows \ {c})
                 PROVE  view'[d] # Nothing
      BY <1>2, <1>4, <2>2
    <3>1. CASE d = c
      BY <1>3, <1>17, <3>1, ReadDoneKeeps
    <3>2. CASE d # c
      BY <1>1, <1>5, <3>2 DEF RestoredSeen, ViewsStay
    <3> QED BY <3>1, <3>2
  <2>4. IsLive' /\ snapshot' \in {"settled", "shown"} => Found' \/ lost'
    BY <1>2, <1>6, <2>1 DEF RestoredSeen
  <2>5. shown' \cap restored' # {} => Found' \/ lost' \/ gaveUp'
    BY <1>2, <1>6, <2>1 DEF RestoredSeen
  <2> QED BY <1>4, <2>2, <2>3, <2>4, <2>5 DEF RestoredSeen
<1>18. CASE RoundDone
  <2>1. refresh.phase = "reading" /\ refresh.rows = {} /\ EndRound(FALSE)
    BY <1>18 DEF RoundDone
  <2>2. Found'
    BY <1>6, <2>1 DEF RestoredSeen, Found
  <2>3. RefreshTyping' /\ refresh'.phase # "reading"
    BY <2>1, EndRoundKeeps
  <2> QED BY <1>4, <2>2, <2>3 DEF RestoredSeen
<1>19. CASE RoundFails \/ RefreshEnds
  <2>1. (EndRound(TRUE) \/ EndRefresh(TRUE)) /\ UNCHANGED <<shown, gaveUp>>
    BY <1>19 DEF RoundFails, RefreshEnds
  <2>2. /\ RefreshTyping' /\ refresh'.phase # "reading"
        /\ UNCHANGED <<lost, snapshot>> \/ lost' = TRUE
    BY <2>1, EndRoundKeeps
  <2>3. IsLive' /\ snapshot' \in {"settled", "shown"} => Found' \/ lost'
    BY <1>2, <1>6, <2>2 DEF RestoredSeen
  <2>4. shown' \cap restored' # {} => Found' \/ lost' \/ gaveUp'
    BY <1>2, <1>6, <2>1, <2>2 DEF RestoredSeen
  <2> QED BY <1>4, <2>2, <2>3, <2>4 DEF RestoredSeen
<1> QED BY <1>9, <1>10, <1>11, <1>12, <1>13, <1>14, <1>15, <1>16, <1>17, <1>18, <1>19
        DEF NextChildren, SnapshotStep, RefreshStep

LEMMA AgentsStart == InitChildren => AgentsHeld
<1> SUFFICES ASSUME InitChildren PROVE AgentsHeld
  OBVIOUS
<1>1. \A c \in Children : ~running[c] /\ agentOf[c] = 0 /\ spawned[c] \in {0, 1}
  BY DEF InitChildren
<1>2. stop.phase = "idle"
  BY DEF InitChildren, NoStop
<1> QED BY <1>1, <1>2 DEF AgentsHeld

LEMMA ChildrenInvariant == ChildrenSteps => [](ChildrenInv /\ AgentsHeld /\ RestoredSeen)
<1>1. /\ ChildrenInv /\ AgentsHeld /\ RestoredSeen /\ [NextChildren]_childrenVars
      => (ChildrenInv /\ AgentsHeld /\ RestoredSeen)'
  BY ChildrenStay, AgentsStay, RestoredStay
<1> QED BY <1>1, ChildrenStart, AgentsStart, RestoredStart, PTL DEF ChildrenSteps

\* Whatever reads of logs, endings of turns, failures, reloads and stops overlap: the
\* client is told of an ending only if that turn has ended so, or it is a turn that the
\* read of a cold log came upon, told as cancelled.  A member that it sees has a view,
\* unless its discovery was given up or, for a member from the log of the session, its
\* own log is gone or no refresh has worked since one failed.  A stop is answered with
\* an ending of the turn that it interrupted or of a later one.
THEOREM EndingsAreTrue == ChildrenSteps => [](NoInventedFinish /\ MembersHaveViews /\ StopToldTruly)
<1>1. ChildrenInv => NoInventedFinish
  BY DEF ChildrenInv, Telling, NoInventedFinish
<1>2. ChildrenInv /\ RestoredSeen => MembersHaveViews
  <2> SUFFICES ASSUME ChildrenInv, RestoredSeen, NEW c \in shown
               PROVE  \/ view[c] # Nothing \/ gaveUp
                      \/ c \in restored /\ (lost \/ c \notin listed)
    BY DEF MembersHaveViews
  <2>1. c \in Children
    BY ChildrenAssumption DEF ChildrenInv, ChildrenTyping
  <2>2. CASE c \in restored
    BY <2>2 DEF RestoredSeen, Found
  <2>3. CASE c \notin restored
    BY <2>1, <2>3 DEF ChildrenInv, Members
  <2> QED BY <2>2, <2>3
<1>3. ChildrenInv => StopToldTruly
  BY DEF ChildrenInv, Stopping
<1> QED BY <1>1, <1>2, <1>3, ChildrenInvariant, PTL

\* What the client is told of a child never goes back.
THEOREM AttemptsOnlyAdvance == ChildrenSteps => AttemptsAdvance
<1> DEFINE Advance(c) ==
        view[c] # Nothing /\ view'[c] # view[c] =>
            \/ view'[c].attempt > view[c].attempt
            \/ /\ view'[c].attempt = view[c].attempt
               /\ view'[c].status = "running" => known'[c].agent # known[c].agent
<1>1. ChildrenInv /\ AgentsHeld /\ [NextChildren]_childrenVars
        => [\A c \in Children : Advance(c)]_childrenVars
  <2> SUFFICES ASSUME ChildrenInv, AgentsHeld, [NextChildren]_childrenVars, NEW c \in Children,
                      view[c] # Nothing, view'[c] # view[c]
               PROVE  Advance(c)
    OBVIOUS
  <2>1. CASE \E d \in Children : ReadDone(d)
    BY <2>1, ReadDoneKeeps
  <2>2. CASE \E d \in Children : TurnEnds(d)
    <3>1. /\ view'[c].attempt >= Len(turns[c]) /\ view'[c].status # "running"
          /\ view'[c].attempt \in Nat
      BY <2>2, TurnEndsKeeps DEF Told
    <3>2. view[c].attempt <= Len(turns[c]) /\ view[c].attempt \in Nat /\ Len(turns[c]) \in Nat
      <4>1. /\ view[c].attempt \in Nat /\ known[c] # Nothing /\ known[c].attempt \in Nat
            /\ view[c].attempt <= known[c].attempt /\ known[c].attempt <= Len(turns[c])
        BY DEF ChildrenInv, ChildrenTyping, ClientTyping, Told, ChildState, Telling
      <4>2. Len(turns[c]) \in Nat
        BY LogFacts DEF ChildrenInv, ChildrenTyping
      <4> QED BY <4>1, <4>2
    <3> QED BY <3>1, <3>2
  <2> QED BY <2>1, <2>2, ChildrenStay
<1> QED BY <1>1, ChildrenInvariant, PTL DEF ChildrenSteps, AttemptsAdvance

\* After its session is closed or the service disposed the client is told nothing of
\* its children and of its workflows' members.
THEOREM ClosedSessionsAreSilent == ChildrenSteps => SilentOnceClosed
<1>1. ChildrenInv /\ AgentsHeld /\ [NextChildren]_childrenVars
        => [~IsLive => UNCHANGED <<view, shown>>]_childrenVars
  <2> SUFFICES ASSUME ChildrenInv, AgentsHeld, NextChildren, ~IsLive PROVE UNCHANGED <<view, shown>>
    BY DEF childrenVars, client, workflow
  <2>1. UNCHANGED view
    <3>1. ASSUME NEW c \in Children, ReadDone(c) PROVE FALSE
      BY <3>1, ReadDoneKeeps
    <3>2. ASSUME NEW c \in Children, TurnEnds(c) PROVE UNCHANGED view
      <4>1. \A d \in Children : view'[d] = view[d]
        BY <3>2, TurnEndsKeeps
      <4>2. view \in [Children -> Told \cup {Nothing}] /\ view' \in [Children -> Told \cup {Nothing}]
        BY <3>2, TurnEndsKeeps DEF ChildrenInv, ChildrenTyping, ClientTyping
      <4> QED BY <4>1, <4>2
    <3> QED BY <3>1, <3>2, ChildrenStay
  <2>2. UNCHANGED shown
    <3>1. ASSUME \/ RoundDone \/ Deadline \/ WorkflowEvent \/ SnapshotShows
                 \/ \E c \in Children : MemberStarts(c)
          PROVE  UNCHANGED shown
      BY <3>1 DEF RoundDone, Deadline, WorkflowEvent, SnapshotShows, MemberStarts, ShowMembers, ShowRun
    <3>2. ASSUME \/ Snapshot \/ Poll \/ BeginRound \/ ListRows \/ RefreshEnds \/ RoundFails
                 \/ StopStep \/ StopFails \/ HostStep
                 \/ \E c \in Children :
                        \/ Spawn(c) \/ TurnStarts(c) \/ TurnEnds(c) \/ StatusChanges(c)
                        \/ ReleaseAgent(c) \/ Cut(c) \/ ColdCut(c) \/ RequestStop(c)
                        \/ ReadNext(c) \/ ReadDone(c)
          PROVE  UNCHANGED shown
      BY <3>2 DEF Snapshot, Poll, BeginRound, ListRows, RefreshEnds, RoundFails, StopStep,
         StopLists, StopInterrupts, StopReturns, StopEnds, StopFails, HostStep, Suspend, Resume,
         CloseSession, DisposeChildren, ChildrenDisposed, Spawn, TurnStarts, TurnEnds,
         StatusChanges, ReleaseAgent, Cut, ColdCut, RequestStop, ReadNext, ReadDone, workflow
    <3> QED BY <3>1, <3>2 DEF NextChildren, SnapshotStep, RefreshStep, HostStep
  <2> QED BY <2>1, <2>2
<1> QED BY <1>1, ChildrenInvariant, PTL DEF ChildrenSteps, SilentOnceClosed
==============================================================================
