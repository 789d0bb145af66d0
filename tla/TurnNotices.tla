----------------------------- MODULE TurnNotices -----------------------------
(***************************************************************************)
(* What a session tells its client beside its transcript: why a turn       *)
(* started, context that nothing else renders, retries, compactions, the   *)
(* todos, plan mode and results of commands.  bridge/grok-leader/src/      *)
(* turn-notices.ts and command-results.ts, with the system notes of        *)
(* projection.ts and the part of session-output.ts that sends them.        *)
(*                                                                         *)
(* Each notice is made of one durable event and of folds over the earlier  *)
(* ones.  The same folds run over a replayed log and over live events, and *)
(* a session may be loaded between any two events.                         *)
(***************************************************************************)
EXTENDS Naturals, Sequences, FiniteSets, SequencesExt

CONSTANTS
    Messages,       \* messages that come to the model
    Human,          \* those whose source is the user
    Standing,       \* those in a form that the transcript leaves out
    Compactions,
    Manual,         \* compactions that a command started
    Commands,
    Silent,         \* commands that succeed without text, shown by another event
    MaxTurns,       \* bound on the turns
    MaxTodos,       \* bound on the writes of todos
    Unknown

ASSUME TurnNoticesAssumption ==
    /\ Human \subseteq Messages /\ Standing \subseteq Messages
    /\ Manual \subseteq Compactions /\ Silent \subseteq Commands
    /\ Messages \cap Compactions = {} /\ Commands \cap (Messages \cup Compactions) = {}
    /\ MaxTurns \in Nat /\ MaxTodos \in Nat
    /\ Unknown \notin Nat \cup BOOLEAN \cup [before : BOOLEAN, shadowed : BOOLEAN]

VARIABLES
    \* the native agent
    inbox,          \* messages for the next turn
    batch,          \* what the claim of the current turn took and is not appended yet
    woke,           \* messages that were appended from such a batch
    appended,       \* messages that were appended
    turn,           \* "idle", "running", "retrying" between an attempt and the next
    turns,          \* turns so far
    usage,          \* a settlement has reported its usage
    todos,          \* what the todos are: the number of the write, 0 none
    plan,           \* plan mode
    compaction,     \* per compaction: "none", "open", "summarized", "completed", "failed"
    measured,       \* compactions that began after a usage was reported
    ran,            \* per command: "none", "running", "done"
    \* the output of the record, and what one that is loaded now would have
    output, cold,
    \* the client
    view, archive,  \* what it shows, and what a client that loads now would show
    unseen          \* what was in the log before a load that drew nothing

noticesNative == <<inbox, batch, woke, appended, turn, turns, usage, todos, plan, compaction,
                   measured, ran>>
noticesVars == <<noticesNative, output, cold, view, archive, unseen>>

\* The folds of an output, and the blocks and the state that a client shows.
NoFold == [pending |-> <<>>, claimed |-> {}, prompt |-> FALSE, plan |-> Unknown,
           open |-> [c \in Compactions |-> Unknown], commands |-> {}]
Blank == [blocks |-> [x \in Messages \cup Compactions \cup Commands |-> <<>>],
          retrying |-> FALSE, compacting |-> FALSE, todos |-> Unknown, plan |-> Unknown]
NothingUnseen == [messages |-> {}, compactions |-> {}, commands |-> {}]

NoticesTypeOK ==
    /\ ToSet(inbox) \cup batch \cup appended \subseteq Messages /\ woke \subseteq appended
    /\ turn \in {"idle", "running", "retrying"} /\ turns \in 0..MaxTurns
    /\ todos \in 0..MaxTodos /\ plan \in BOOLEAN /\ usage \in BOOLEAN
    /\ compaction \in [Compactions -> {"none", "open", "summarized", "completed", "failed"}]
    /\ ran \in [Commands -> {"none", "running", "done"}]
    /\ \A fold \in {output, cold} : fold.pending = inbox /\ fold.claimed \subseteq Messages

InitNotices ==
    /\ inbox = <<>> /\ batch = {} /\ woke = {} /\ appended = {}
    /\ turn = "idle" /\ turns = 0 /\ usage = FALSE /\ todos = 0 /\ plan = FALSE
    /\ compaction = [c \in Compactions |-> "none"] /\ measured = {}
    /\ ran = [c \in Commands |-> "none"]
    /\ output = NoFold /\ cold = NoFold /\ view = Blank /\ archive = Blank
    /\ unseen = NothingUnseen

-----------------------------------------------------------------------------
(* The folds: each takes the fold and an event to the fold and the notices *)

Result(fold, notices) == [fold |-> fold, notices |-> notices]
Notice(kind, of) == [kind |-> kind, of |-> of]
Drop(seq, start, count) == SubSeq(seq, 1, start) \o SubSeq(seq, start + count + 1, Len(seq))

\* triggerNotes() that takes what is cancelled for the claim of a turn.
SplicedByAny(fold, e) ==
    LET removed == SubSeq(fold.pending, e.start + 1, e.start + e.count)
    IN  [fold EXCEPT
            !.pending = SubSeq(@, 1, e.start) \o e.inserted \o SubSeq(@, e.start + e.count + 1, Len(@)),
            !.claimed = IF removed # <<>> THEN ToSet(removed) ELSE @ \ ToSet(e.inserted)]

\* triggerNotes() of a splice: a removal that is not a cancellation is the claim
\* of a turn, and what comes back has not been claimed.
Spliced(fold, e) ==
    LET removed == SubSeq(fold.pending, e.start + 1, e.start + e.count)
    IN  [fold EXCEPT
            !.pending = SubSeq(@, 1, e.start) \o e.inserted \o SubSeq(@, e.start + e.count + 1, Len(@)),
            !.claimed = IF removed # <<>> /\ ~e.canceled THEN ToSet(removed)
                        ELSE @ \ ToSet(e.inserted)]

\* contextNotes(): what a message says of itself that nothing else renders.
ContextNotes(m) == IF m \in Standing THEN <<>> ELSE <<Notice("context", m)>>

\* triggerNotes() of a message, and the context of one that woke no turn.
Noted(fold, m) ==
    IF m \in Human THEN Result(fold, <<>>)
    ELSE IF m \in fold.claimed
         THEN Result([fold EXCEPT !.claimed = @ \ {m}], <<Notice("trigger", m)>>)
         ELSE Result(fold, ContextNotes(m))

\* compactionNotices(): facts says what the native projection knows now; a replay
\* only has the prompt that was reported last.
Compacted(fold, e, replay, facts) ==
    LET used == fold.prompt \/ (~replay /\ facts.native)
        open == fold.open[e.of]
        estimate == open # Unknown /\ open.before /\ open.shadowed
        after == estimate \/ (~replay /\ facts.native)
        closed == [fold EXCEPT !.open[e.of] = Unknown]
    IN  CASE e.of \in Manual -> Result(fold, <<>>)
          [] e.of \notin Manual /\ e.type = "start" ->
               Result([fold EXCEPT !.open[e.of] = [before |-> used, shadowed |-> FALSE]],
                      IF ~replay /\ used /\ facts.window
                      THEN <<Notice("compacting", e.of)>> ELSE <<>>)
          [] e.of \notin Manual /\ e.type = "summary" ->
               Result(IF open = Unknown THEN fold
                      ELSE [fold EXCEPT !.open[e.of].shadowed = TRUE], <<>>)
          [] e.of \notin Manual /\ e.type = "failed" -> Result(closed, <<Notice("failed", e.of)>>)
          [] e.of \notin Manual /\ e.type = "completed" ->
               Result(closed, IF after THEN <<Notice("completed", e.of)>> ELSE <<>>)

\* commandResults(): a result is shown for the run it settles.
CommandDone(fold, e) ==
    IF e.type = "run" THEN Result([fold EXCEPT !.commands = @ \cup {e.of}], <<>>)
    ELSE Result([fold EXCEPT !.commands = @ \ {e.of}],
                IF e.of \in fold.commands \ Silent THEN <<Notice("result", e.of)>> ELSE <<>>)

\* turnNotices(): a retry that is scheduled is shown live only, and one that starts
\* ends it.
RetryNotices(e, replay) ==
    CASE e.kind = "turnEnd" -> IF e.failed THEN <<Notice("error", Unknown)>> ELSE <<>>
      [] e.kind = "retry" -> IF replay THEN <<>> ELSE <<Notice("retrying", Unknown)>>
      [] e.kind = "retried" -> IF replay THEN <<>> ELSE <<Notice("chunk", Unknown)>>

\* noteEvent(), mapEvent() and notices() of an event that is neither streamed nor
\* a tool's: what the folds become, and what is sent, in this order.
Fold(fold, e, replay) ==
    CASE e.kind = "splice" -> Result(Spliced(fold, e), <<>>)
      [] e.kind = "message" -> Noted(fold, e.of)
      [] e.kind = "usage" -> Result([fold EXCEPT !.prompt = TRUE], <<>>)
      [] e.kind = "todos" -> Result([fold EXCEPT !.plan = e.to], <<Notice("todos", e.to)>>)
      [] e.kind = "mode" -> Result(fold, <<Notice("mode", e.to)>>)
      [] e.kind \in {"turnEnd", "retry", "retried"} -> Result(fold, RetryNotices(e, replay))
      [] e.kind = "command" -> CommandDone(fold, e)
      [] e.kind = "compaction" ->
           LET result == Compacted(fold, e, replay, e.facts)
               completes == \E i \in DOMAIN result.notices : result.notices[i].kind = "completed"
           IN  [result EXCEPT !.notices = @ \o IF completes /\ fold.plan # Unknown
                                               THEN <<Notice("todos", fold.plan)>> ELSE <<>>]

-----------------------------------------------------------------------------
(* The client *)

\* The TUI empties its todos when a compaction completes, and a chunk or a
\* failure ends its retrying state.
Shows(shown, notice) ==
    LET block(v) == [v EXCEPT !.blocks[notice.of] = Append(@, notice.kind)]
    IN  CASE notice.kind \in {"trigger", "context", "result"} -> block(shown)
          [] notice.kind = "failed" -> [block(shown) EXCEPT !.compacting = FALSE]
          [] notice.kind = "completed" ->
               [block(shown) EXCEPT !.compacting = FALSE, !.todos = 0]
          [] notice.kind = "compacting" -> [shown EXCEPT !.compacting = TRUE]
          [] notice.kind = "todos" -> [shown EXCEPT !.todos = notice.of]
          [] notice.kind = "mode" -> [shown EXCEPT !.plan = notice.of]
          [] notice.kind = "retrying" -> [shown EXCEPT !.retrying = TRUE]
          [] notice.kind \in {"chunk", "error"} -> [shown EXCEPT !.retrying = FALSE]

\* An event brings two notices at most.
ShowsAll(shown, notices) ==
    CASE notices = <<>> -> shown
      [] Len(notices) = 1 -> Shows(shown, notices[1])
      [] OTHER -> Shows(Shows(shown, notices[1]), notices[2])

\* The agent appends an event: the output of the record and the replay of the log.
Happens(e) ==
    LET live == Fold(output, e, FALSE)
        replayed == Fold(cold, e, TRUE)
        over(v) == IF e.kind = "turnEnd" THEN [v EXCEPT !.retrying = FALSE] ELSE v
    IN  /\ output' = live.fold /\ cold' = replayed.fold
        /\ view' = over(ShowsAll(view, live.notices))
        /\ archive' = ShowsAll(archive, replayed.notices)
        /\ UNCHANGED unseen

\* restore(): the output starts again from the log, which may be drawn or not.
LoadAgain(drawn) ==
    /\ output' = cold
    /\ view' = IF drawn THEN archive ELSE Blank
    /\ unseen' = IF drawn THEN NothingUnseen
                 ELSE [messages |-> appended,
                       compactions |-> {c \in Compactions : compaction[c] \in {"completed", "failed"}},
                       commands |-> {c \in Commands : ran[c] = "done"}]
    /\ turn' = "idle" /\ batch' = {}
    /\ UNCHANGED <<inbox, woke, appended, turns, usage, todos, plan, compaction, measured, ran,
                   cold, archive>>

-----------------------------------------------------------------------------
(* The native agent *)

Splice(start, count, inserted, canceled) ==
    [kind |-> "splice", start |-> start, count |-> count, inserted |-> inserted,
     canceled |-> canceled]
Plain(kind) == [kind |-> kind]
Compaction(type, c, facts) == [kind |-> "compaction", type |-> type, of |-> c, facts |-> facts]

\* The inbox: a message is queued, cancelled, or claimed with others for a turn,
\* whose claim may be given back before it is used.
QueueMessage(m, start) ==
    /\ m \notin ToSet(inbox) \cup batch \cup appended
    /\ start \in {0, Len(inbox)}
    /\ inbox' = SubSeq(inbox, 1, start) \o <<m>> \o SubSeq(inbox, start + 1, Len(inbox))
    /\ Happens(Splice(start, 0, <<m>>, FALSE))
    /\ UNCHANGED <<batch, woke, appended, turn, turns, usage, todos, plan, compaction, measured, ran>>
CancelMessage(i) ==
    /\ i \in DOMAIN inbox
    /\ inbox' = Drop(inbox, i - 1, 1)
    /\ Happens(Splice(i - 1, 1, <<>>, TRUE))
    /\ UNCHANGED <<batch, woke, appended, turn, turns, usage, todos, plan, compaction, measured, ran>>
ClaimTurn(count) ==
    /\ turn = "idle" /\ turns < MaxTurns /\ batch = {} /\ count \in 1..Len(inbox)
    /\ batch' = ToSet(SubSeq(inbox, 1, count))
    /\ inbox' = Drop(inbox, 0, count)
    /\ Happens(Splice(0, count, <<>>, FALSE))
    /\ UNCHANGED <<woke, appended, turn, turns, usage, todos, plan, compaction, measured, ran>>
ReturnClaim(m) ==
    /\ turn = "idle" /\ m \in batch
    /\ batch' = batch \ {m} /\ inbox' = <<m>> \o inbox
    /\ Happens(Splice(0, 0, <<m>>, FALSE))
    /\ UNCHANGED <<woke, appended, turn, turns, usage, todos, plan, compaction, measured, ran>>

\* A turn starts with the batch, and its todos are empty.
StartTurn ==
    /\ turn = "idle" /\ batch # {} /\ turns < MaxTurns
    /\ turn' = "running" /\ turns' = turns + 1 /\ todos' = 0
    /\ Happens([kind |-> "todos", to |-> 0])
    /\ UNCHANGED <<inbox, batch, woke, appended, usage, plan, compaction, measured, ran>>
AppendMessage(m) ==
    /\ turn = "running" /\ m \in batch
    /\ batch' = batch \ {m} /\ woke' = woke \cup {m} /\ appended' = appended \cup {m}
    /\ Happens([kind |-> "message", of |-> m])
    /\ UNCHANGED <<inbox, turn, turns, usage, todos, plan, compaction, measured, ran>>
\* Context that is injected into the running turn.
Inject(m) ==
    /\ turn = "running" /\ m \notin ToSet(inbox) \cup batch \cup appended
    /\ appended' = appended \cup {m}
    /\ Happens([kind |-> "message", of |-> m])
    /\ UNCHANGED <<inbox, batch, woke, turn, turns, usage, todos, plan, compaction, measured, ran>>
EndTurn(failed) ==
    /\ turn # "idle" /\ batch = {}
    /\ turn' = "idle"
    /\ Happens([kind |-> "turnEnd", failed |-> failed])
    /\ UNCHANGED <<inbox, batch, woke, appended, turns, usage, todos, plan, compaction, measured, ran>>

ReportUsage ==
    /\ turn = "running" /\ ~usage
    /\ usage' = TRUE
    /\ Happens(Plain("usage"))
    /\ UNCHANGED <<inbox, batch, woke, appended, turn, turns, todos, plan, compaction, measured, ran>>
Retry ==
    /\ turn \in {"running", "retrying"}
    /\ turn' = IF turn = "running" THEN "retrying" ELSE "running"
    /\ Happens(Plain(IF turn = "running" THEN "retry" ELSE "retried"))
    /\ UNCHANGED <<inbox, batch, woke, appended, turns, usage, todos, plan, compaction, measured, ran>>
WriteTodos ==
    /\ turn = "running" /\ todos < MaxTodos
    /\ todos' = todos + 1
    /\ Happens([kind |-> "todos", to |-> todos'])
    /\ UNCHANGED <<inbox, batch, woke, appended, turn, turns, usage, plan, compaction, measured, ran>>
SelectMode ==
    /\ plan' = ~plan
    /\ Happens([kind |-> "mode", to |-> plan'])
    /\ UNCHANGED <<inbox, batch, woke, appended, turn, turns, usage, todos, compaction, measured, ran>>

\* One compaction at a time; one that succeeds has a summary, which says what it
\* shadowed.
Compact(c, to, facts) ==
    /\ turn # "retrying"
    /\ \/ /\ compaction[c] = "none" /\ to = "open"
          /\ \A d \in Compactions : compaction[d] \notin {"open", "summarized"}
          /\ Happens(Compaction("start", c, facts))
          /\ measured' = IF usage THEN measured \cup {c} ELSE measured
       \/ /\ compaction[c] = "open" /\ to = "summarized"
          /\ Happens(Compaction("summary", c, facts)) /\ UNCHANGED measured
       \/ /\ \/ compaction[c] = "summarized" /\ to = "completed"
             \/ compaction[c] \in {"open", "summarized"} /\ to = "failed"
          /\ Happens(Compaction(to, c, facts)) /\ UNCHANGED measured
    /\ compaction' = [compaction EXCEPT ![c] = to]
    /\ UNCHANGED <<inbox, batch, woke, appended, turn, turns, usage, todos, plan, ran>>
RunCommand(c) ==
    /\ ran[c] # "done"
    /\ ran' = [ran EXCEPT ![c] = IF @ = "none" THEN "running" ELSE "done"]
    /\ Happens([kind |-> "command", of |-> c, type |-> IF ran[c] = "none" THEN "run" ELSE "done"])
    /\ UNCHANGED <<inbox, batch, woke, appended, turn, turns, usage, todos, plan, compaction, measured>>

Facts == [native : BOOLEAN, window : BOOLEAN]

NextNotices ==
    \/ \E m \in Messages, start \in 0..Cardinality(Messages) : QueueMessage(m, start)
    \/ \E i \in 1..Cardinality(Messages) : CancelMessage(i) \/ ClaimTurn(i)
    \/ \E m \in Messages : ReturnClaim(m) \/ AppendMessage(m) \/ Inject(m)
    \/ StartTurn
    \/ \E failed \in BOOLEAN : EndTurn(failed)
    \/ ReportUsage \/ Retry \/ WriteTodos \/ SelectMode
    \/ \E c \in Compactions, to \in {"open", "summarized", "completed", "failed"}, facts \in Facts :
         Compact(c, to, facts)
    \/ \E c \in Commands : RunCommand(c)
    \/ \E drawn \in BOOLEAN : LoadAgain(drawn)

NoticesSteps == InitNotices /\ [][NextNotices]_noticesVars

-----------------------------------------------------------------------------
(* Properties *)

\* The notice that tells of a message: why a turn started exactly for those
\* that the claim of that turn took, whatever was queued, cancelled or given
\* back around it, the context for others; never both, and none for a message
\* of the user.
MessageNote(m) ==
    CASE m \in Human -> <<>>
      [] m \in woke \ Human -> <<"trigger">>
      [] m \in Standing \ (woke \cup Human) -> <<>>
      [] OTHER -> <<"context">>
MessagesNoted(shown, before) == \A m \in appended \ before : shown.blocks[m] = MessageNote(m)

\* An automatic compaction that a client saw ended has one block of how it
\* ended, and one of a command none; a command has its result.
WorkNoted(shown, before) ==
    /\ \A c \in measured \ before.compactions :
         compaction[c] \in {"completed", "failed"} =>
            shown.blocks[c] = IF c \in Manual THEN <<>> ELSE <<compaction[c]>>
    /\ \A c \in Commands \ before.commands :
         ran[c] = "done" => shown.blocks[c] = IF c \in Silent THEN <<>> ELSE <<"result">>

\* What the client shows as going on is going on, and its todos and its mode
\* are those of the session, though it empties its todos by itself.
StateShown(shown) ==
    /\ shown.retrying => turn = "retrying"
    /\ shown.compacting => \E c \in Compactions \ Manual : compaction[c] \in {"open", "summarized"}
    /\ shown.todos \in {todos, Unknown} /\ shown.plan \in {plan, Unknown}

\* A client that has followed the session, one that loaded it on the way and one
\* that loads it now are told the same and the truth.
NoticesTrue ==
    /\ MessagesNoted(view, unseen.messages) /\ MessagesNoted(archive, {})
    /\ WorkNoted(view, unseen) /\ WorkNoted(archive, NothingUnseen)
    /\ StateShown(view) /\ StateShown(archive)
=============================================================================
