---------------------------- MODULE SessionOutput ----------------------------
(***************************************************************************)
(* What a session sends to its client:                                     *)
(* bridge/grok-leader/src/session-output.ts, with the updates that         *)
(* projection.ts makes of an event, the image previews of image-output.ts  *)
(* and the part of session-lifecycle.ts that publishes the replay.         *)
(*                                                                         *)
(* The durable log of the session is replayed when it is loaded and then   *)
(* followed live; beside it the native agent streams the attempt that it   *)
(* is making, whose text comes again in the event that settles it.  Images *)
(* are read, and a slow client is waited for, while all of this goes on.   *)
(***************************************************************************)
EXTENDS Naturals, Sequences, FiniteSets

CONSTANTS
    Attempts,       \* model attempts, each made once
    Chunks,         \* chunks an attempt may stream
    MaxLog,         \* bound on the durable events
    MaxStep,        \* bound on the steps
    History,        \* the logs a session may be loaded from: the steps go on, and
                    \* an attempt settles once
    NoAttempt

Kinds == {"prompt", "tool", "settled", "aside", "retry"}
Event == [kind : Kinds, step : 1..MaxStep,
          of : Attempts \cup {NoAttempt}, chunks : 0..Chunks]

ASSUME SessionOutputAssumption ==
    /\ Chunks \in Nat /\ MaxLog \in Nat /\ MaxStep \in Nat \ {0}
    /\ NoAttempt \notin Attempts
    /\ \A h \in History :
         /\ h \in Seq(Event) /\ Len(h) <= MaxLog
         /\ \A i \in DOMAIN h : h[i].step < MaxStep
         /\ \A i, j \in DOMAIN h :
              i < j => /\ h[i].step <= h[j].step
                       /\ h[i].kind = "settled" /\ h[j].kind = "settled" => h[i].of # h[j].of

VARIABLES
    \* the native agent
    log,            \* the durable events; an event's seq is its position
    step,           \* the step of the turn that is being made
    attempt,        \* the attempt that streams, NoAttempt between attempts
    due,            \* the event that settled it, whose end frame is next; 0: none
    frames,         \* the stream frames so far, a frame's revision is its position
    \* the output of the record that follows it
    phase,          \* "new", "live", "retired" from the registry, "disposed"
    replayed,       \* events that restore() took, and whether it drew them
    restored,       \* restore() has returned
    lastSeq,        \* the highest admitted seq
    stream,         \* the attempt being followed, or NoStream
    queue,          \* updates that wait their turn
    tail,           \* a drain of the queue is under way
    slow,           \* it waits for the socket
    images,         \* per seq: "none", "waiting" for another, "reading", "read"
    counted,        \* settlements that the usage totals hold
    lastUsage,      \* the settlement that a repeated one of its step replaces; 0: none
    \* what the others see
    received            \* updates the client was sent, in order

native == <<log, step, attempt, due, frames>>
meters == <<counted, lastUsage>>
outputVars == <<native, phase, replayed, restored, lastSeq, stream, queue, tail, slow,
          images, meters, received>>

NoStream == [attempt |-> NoAttempt, step |-> 0, revision |-> 0, delivered |-> {},
             closed |-> TRUE, pending |-> <<>>]
Following == phase = "live"

OutputTypeOK ==
    /\ log \in Seq(Event) /\ Len(log) <= MaxLog
    /\ step \in 1..MaxStep
    /\ attempt \in Attempts \cup {NoAttempt}
    /\ due \in 0..Len(log) /\ (due # 0 => attempt # NoAttempt)
    /\ phase \in {"new", "live", "retired", "disposed"}
    /\ replayed \in [count : 0..MaxLog, drawn : BOOLEAN]
    /\ restored \in BOOLEAN
    /\ lastSeq \in 0..Len(log)
    /\ stream.attempt \in Attempts \cup {NoAttempt}
    /\ stream.revision \in 0..Len(frames) /\ stream.delivered \subseteq 1..Chunks
    /\ \A i \in DOMAIN stream.pending : stream.pending[i] \in 1..lastSeq
    /\ stream.closed => stream.pending = <<>>
    /\ \A i \in DOMAIN queue : queue[i].image \in 0..lastSeq /\ queue[i].replay \in BOOLEAN
    /\ tail \in BOOLEAN /\ slow \in BOOLEAN
    /\ ~tail => queue = <<>> /\ ~slow
    /\ images \in [1..MaxLog -> {"none", "waiting", "reading", "read"}]
    /\ counted \subseteq 1..lastSeq
    /\ lastUsage \in counted \cup {0}

InitOutput ==
    /\ log \in History
    /\ step = (IF log = <<>> THEN 1 ELSE 1 + log[Len(log)].step)
    /\ attempt = NoAttempt /\ due = 0 /\ frames = <<>>
    /\ phase = "new" /\ replayed = [count |-> 0, drawn |-> FALSE] /\ restored = FALSE
    /\ lastSeq = 0 /\ stream = NoStream /\ queue = <<>> /\ tail = FALSE /\ slow = FALSE
    /\ images = [seq \in 1..MaxLog |-> "none"]
    /\ counted = {} /\ lastUsage = 0
    /\ received = <<>>

-----------------------------------------------------------------------------
(* The usage totals *)

Totals == [counted |-> counted, lastUsage |-> lastUsage]
SetTotals(totals) == counted' = totals.counted /\ lastUsage' = totals.lastUsage

\* noteEvent() that forgets which settlement it counted last.
NoteEvery(totals, event, seq, before) ==
    IF event.kind = "settled"
    THEN [counted |-> totals.counted \cup {seq}, lastUsage |-> seq] ELSE totals

\* noteEvent(): what settles a step again replaces its usage, unless DSH
\* started a retry in between, which is billed on its own.
Note(totals, event, seq, before) ==
    LET last == totals.lastUsage
        sameStep == last # 0 /\ before[last].step = event.step
    IN  CASE event.kind = "settled" ->
               [counted |-> (totals.counted \ (IF sameStep THEN {last} ELSE {})) \cup {seq},
                lastUsage |-> seq]
          [] event.kind = "retry" ->
               [totals EXCEPT !.lastUsage = IF sameStep THEN 0 ELSE @]
          [] OTHER -> totals

-----------------------------------------------------------------------------
(* The updates of an event *)

\* An update is told apart by the text or the part of an event it carries, and
\* agent text that an event brings carries the totals.
NoMeters == {0}
Item(kind, of, i, totals) == [kind |-> kind, of |-> of, i |-> i, meters |-> totals]
Text(a, i, totals) == Item("text", a, i, totals)
Carries(item) == item.meters # NoMeters

\* The text of a settlement that the client has not been streamed, and an empty
\* text for the totals to ride on when none is left.
Settlement(event, seq, delivered, totals) ==
    LET texts[i \in 0..event.chunks] ==
            IF i = 0 THEN <<>>
            ELSE IF i \in delivered THEN texts[i - 1]
            ELSE Append(texts[i - 1], Text(event.of, i, totals))
    IN  IF texts[event.chunks] # <<>> THEN texts[event.chunks]
        ELSE <<Item("meter", seq, 0, totals)>>

Piece(seq, i) == Item("event", seq, i, NoMeters)

\* sessionEventToUpdates(): a prompt is drawn by a replay only, in its two blocks.
Projected(event, seq, replay, delivered, totals) ==
    CASE event.kind = "prompt"  -> IF replay THEN <<Piece(seq, 1), Piece(seq, 2)>> ELSE <<>>
      [] event.kind = "tool"    -> <<Piece(seq, 1)>>
      [] event.kind = "aside"   -> IF 1 \in delivered THEN <<>>
                                   ELSE <<Item("event", seq, 1, totals)>>
      [] event.kind = "settled" -> Settlement(event, seq, delivered, totals)
      [] event.kind = "retry"   -> <<>>

\* notices(): the attempt that follows a retry is announced live only.
Notices(event, seq, replay) ==
    IF event.kind = "retry" /\ ~replay THEN <<Piece(seq, 1)>> ELSE <<>>

Items(event, seq, replay, delivered, totals) ==
    Notices(event, seq, replay) \o Projected(event, seq, replay, delivered, totals)

\* An update that waits: for the image of an event, or just for its turn.
Job(item, image, replay) == [item |-> item, image |-> image, replay |-> replay]
JobsOf(items, image, replay) == [i \in DOMAIN items |-> Job(items[i], image, replay)]
ItemsOf(jobs) == [i \in DOMAIN jobs |-> jobs[i].item]

Jobs(event, seq, replay, delivered, totals) ==
    JobsOf(Items(event, seq, replay, delivered, totals),
           IF event.kind = "tool" THEN seq ELSE 0, replay)

\* update(): behind the queue while it drains and for what waits for an image,
\* and else at once.
Send(jobs) ==
    IF tail \/ \E i \in DOMAIN jobs : jobs[i].image # 0
    THEN /\ queue' = queue \o jobs
         /\ tail' = (tail \/ jobs # <<>>)
         /\ UNCHANGED received
    ELSE received' = received \o ItemsOf(jobs) /\ UNCHANGED <<queue, tail>>

\* Of what was held only the event that the end frame names has been streamed.
Delivered(seq, committed) == IF seq = committed THEN stream.delivered ELSE {}

\* The loops of restore() and drainAssistantEvents(): the events are noted and
\* mapped one after another.
Mapped(seqs, replay, committed) ==
    LET upTo[n \in 0..Len(seqs)] ==
            IF n = 0 THEN [totals |-> Totals, jobs |-> <<>>]
            ELSE LET seq == seqs[n]
                     totals == Note(upTo[n - 1].totals, log[seq], seq, log)
                 IN  [totals |-> totals,
                      jobs |-> upTo[n - 1].jobs \o Jobs(log[seq], seq, replay,
                                                       Delivered(seq, committed), totals.counted)]
    IN  upTo[Len(seqs)]

-----------------------------------------------------------------------------
(* Replay *)

\* restore(), in the step that publishes the record: the whole prefix takes its
\* place in the queue before anything is waited for, and its images are read one
\* after another.  A load that asks for no replay only rebuilds the totals.
Restore(drawn) ==
    LET replay == Mapped([seq \in DOMAIN log |-> seq], TRUE, 0)
        tools == {seq \in DOMAIN log : log[seq].kind = "tool"}
    IN  /\ phase = "new" /\ log # <<>>
        /\ phase' = "live"
        /\ replayed' = [count |-> Len(log), drawn |-> drawn]
        /\ lastSeq' = Len(log)
        /\ SetTotals(replay.totals)
        /\ queue' = IF drawn THEN replay.jobs ELSE <<>>
        /\ tail' = (queue' # <<>>)
        /\ images' = [seq \in DOMAIN images |->
                        CASE ~drawn \/ seq \notin tools -> "none"
                          [] drawn /\ seq \in tools /\ \E t \in tools : t < seq -> "waiting"
                          [] OTHER -> "reading"]
        /\ UNCHANGED <<native, restored, stream, slow, received>>

\* A new session is followed from its first event.
PublishNew ==
    /\ phase = "new" /\ log = <<>>
    /\ phase' = "live" /\ restored' = TRUE
    /\ UNCHANGED <<native, replayed, lastSeq, stream, queue, tail, slow, images, meters, received>>

\* restore() returns when its last image is read and the queue is empty, and at
\* once when the record is no longer followed.
RestoreEnds ==
    /\ phase # "new" /\ ~restored
    /\ \A seq \in DOMAIN images : seq <= replayed.count => images[seq] \in {"none", "read"}
    /\ ~tail
    /\ restored' = TRUE
    /\ UNCHANGED <<native, phase, replayed, lastSeq, stream, queue, tail, slow, images,
                   meters, received>>

\* The first image of the replay only.
ImageReadAlone(seq) ==
    /\ images[seq] = "reading"
    /\ images' = [images EXCEPT ![seq] = "read"]
    /\ UNCHANGED <<native, phase, replayed, restored, lastSeq, stream, queue, tail, slow,
                   meters, received>>

\* projectImages() ends, with the previews or with a note that they are not
\* available; the next image of the replay is read then.
ImageRead(seq) ==
    LET waiting == {s \in DOMAIN images : images[s] = "waiting"}
    IN  /\ images[seq] = "reading"
        /\ images' = [s \in DOMAIN images |->
                        CASE s = seq -> "read"
                          [] s \in waiting \ {seq} /\ seq <= replayed.count /\ \A w \in waiting : s <= w
                               -> "reading"
                          [] OTHER -> images[s]]
        /\ UNCHANGED <<native, phase, replayed, restored, lastSeq, stream, queue, tail, slow,
                       meters, received>>

\* What the closure of an update asks when its turn comes.
MaySend == Following

\* The drain takes the next update: it is sent if the record is still followed,
\* and one of the replay waits until the socket has room.
RunHead(room) ==
    LET job == Head(queue)
    IN  /\ queue # <<>> /\ ~slow
        /\ job.image # 0 => images[job.image] = "read"
        /\ queue' = Tail(queue)
        /\ received' = IF MaySend THEN Append(received, job.item) ELSE received
        /\ slow' = (MaySend /\ job.replay /\ ~room)
        /\ tail' = (queue' # <<>> \/ slow')
        /\ UNCHANGED <<native, phase, replayed, restored, lastSeq, stream, images, meters>>

SocketDrained ==
    /\ slow
    /\ slow' = FALSE
    /\ tail' = (queue # <<>>)
    /\ UNCHANGED <<native, phase, replayed, restored, lastSeq, stream, queue, images, meters,
                   received>>

-----------------------------------------------------------------------------
(* Live events and the stream *)

\* A settlement, or another assistant message, of the step that is being streamed
\* waits for the end frame.
Held(event) == event.kind \in {"settled", "aside"} /\ ~stream.closed /\ stream.step = event.step

\* live(), in the step that appends the event.
Live(event, seq) ==
    LET totals == Note(Totals, event, seq, Append(log, event))
    IN  IF ~Following THEN UNCHANGED <<lastSeq, stream, queue, tail, images, meters, received>>
        ELSE /\ lastSeq' = seq
             /\ IF Held(event)
                THEN /\ stream' = [stream EXCEPT !.pending = Append(@, seq)]
                     /\ UNCHANGED <<queue, tail, images, meters, received>>
                ELSE /\ SetTotals(totals)
                     /\ Send(Jobs(event, seq, FALSE, {}, totals.counted))
                     /\ images' = IF event.kind = "tool"
                                  THEN [images EXCEPT ![seq] = "reading"] ELSE images
                     /\ UNCHANGED stream

\* The agent appends an event: between a settlement and its end frame nothing.
Appended(event) ==
    /\ phase \in {"live", "retired"} /\ due = 0 /\ Len(log) < MaxLog
    /\ log' = Append(log, event)
    /\ Live(event, Len(log) + 1)
    /\ UNCHANGED <<attempt, frames, phase, replayed, restored, slow>>

Other(kind) == [kind |-> kind, step |-> step, of |-> NoAttempt, chunks |-> 0]

\* A prompt starts the next step.
AppendPrompt ==
    /\ attempt = NoAttempt /\ step < MaxStep
    /\ Appended(Other("prompt"))
    /\ step' = step + 1
    /\ UNCHANGED due
AppendAside == Appended(Other("aside")) /\ UNCHANGED <<step, due>>
AppendTool == attempt = NoAttempt /\ Appended(Other("tool")) /\ UNCHANGED <<step, due>>
AppendRetry == attempt = NoAttempt /\ Appended(Other("retry")) /\ UNCHANGED <<step, due>>
Emitted == Cardinality({f \in DOMAIN frames : frames[f].of = attempt /\ frames[f].type = "chunk"})
AppendSettlement ==
    /\ attempt # NoAttempt
    /\ Appended([kind |-> "settled", step |-> step, of |-> attempt, chunks |-> Emitted])
    /\ due' = Len(log) + 1
    /\ UNCHANGED step

\* drainAssistantEvents(): what was held is mapped in order.
DrainedEvents(committed) ==
    LET mapped == Mapped(stream.pending, FALSE, committed)
    IN  SetTotals(mapped.totals) /\ Send(mapped.jobs)

Newer(revision) == revision > stream.revision

\* assistant(): frames of another attempt, or not newer than the last, are
\* ignored.
Assistant(frame, revision) ==
    LET mine == ~stream.closed /\ frame.of = stream.attempt
        ignored == UNCHANGED <<stream, queue, tail, meters, received>>
    IN  IF ~Following \/ ~Newer(revision) THEN ignored
        ELSE
        CASE frame.type = "start" ->
               IF frame.of = stream.attempt THEN ignored
               ELSE /\ DrainedEvents(0)
                    /\ stream' = [attempt |-> frame.of, step |-> frame.step,
                                  revision |-> revision, delivered |-> {},
                                  closed |-> FALSE, pending |-> <<>>]
          [] frame.type # "start" /\ ~mine -> ignored
          [] frame.type = "chunk" /\ mine ->
               IF frame.i \in stream.delivered
               THEN stream' = [stream EXCEPT !.revision = revision]
                    /\ UNCHANGED <<queue, tail, meters, received>>
               ELSE /\ Send(<<Job(Text(frame.of, frame.i, NoMeters), 0, FALSE)>>)
                    /\ stream' = [stream EXCEPT !.revision = revision,
                                                !.delivered = @ \cup {frame.i}]
                    /\ UNCHANGED meters
          [] frame.type = "end" /\ mine ->
               /\ DrainedEvents(frame.i)
               /\ stream' = [stream EXCEPT !.revision = revision, !.delivered = {},
                                           !.closed = TRUE, !.pending = <<>>]

Framed(frame) ==
    /\ phase \in {"live", "retired"}
    /\ frames' = Append(frames, frame)
    /\ Assistant(frame, Len(frames) + 1)
    /\ UNCHANGED <<log, step, phase, replayed, restored, lastSeq, slow, images>>

StartAttempt(a) ==
    /\ attempt = NoAttempt
    /\ \A f \in DOMAIN frames : frames[f].of # a
    /\ \A seq \in DOMAIN log : log[seq].of # a
    /\ attempt' = a
    /\ Framed([type |-> "start", of |-> a, step |-> step, i |-> 0])
    /\ UNCHANGED due

StreamChunk ==
    /\ attempt # NoAttempt /\ due = 0 /\ Emitted < Chunks
    /\ Framed([type |-> "chunk", of |-> attempt, step |-> step, i |-> Emitted + 1])
    /\ UNCHANGED <<attempt, due>>

\* The end names the event that settled the attempt, if one did.
EndAttempt ==
    /\ attempt # NoAttempt
    /\ Framed([type |-> "end", of |-> attempt, step |-> step, i |-> due])
    /\ attempt' = NoAttempt /\ due' = 0

\* A frame is delivered once more.
FrameAgain(f) ==
    /\ phase \in {"live", "retired"} /\ due = 0
    /\ Assistant(frames[f], f)
    /\ UNCHANGED <<native, phase, replayed, restored, lastSeq, slow, images>>

-----------------------------------------------------------------------------
(* The end of the record *)

\* The registry no longer owns the record; what it still produces is not sent.
Retire ==
    /\ phase = "live"
    /\ phase' = "retired"
    /\ UNCHANGED <<native, replayed, restored, lastSeq, stream, queue, tail, slow, images,
                   meters, received>>

\* dispose() has flushed.
DisposeOutput ==
    /\ phase = "retired" /\ ~tail
    /\ phase' = "disposed"
    /\ stream' = [stream EXCEPT !.pending = <<>>]
    /\ UNCHANGED <<native, replayed, restored, lastSeq, queue, tail, slow, images, meters,
                   received>>

-----------------------------------------------------------------------------
Agent ==
    \/ AppendPrompt \/ AppendAside \/ AppendTool \/ AppendRetry
    \/ AppendSettlement
    \/ \E a \in Attempts : StartAttempt(a)
    \/ StreamChunk \/ EndAttempt
    \/ \E f \in DOMAIN frames : FrameAgain(f)

Draining ==
    \/ \E room \in BOOLEAN : RunHead(room)
    \/ SocketDrained
    \/ \E seq \in DOMAIN images : ImageRead(seq)

NextOutput ==
    \/ \E drawn \in BOOLEAN : Restore(drawn)
    \/ PublishNew
    \/ RestoreEnds
    \/ Agent
    \/ Draining
    \/ Retire \/ DisposeOutput

\* The event loop goes on with what is ready, an image is read within its
\* timeout and a socket drains or is closed.
FairOutput ==
    WF_outputVars(Draining) /\ WF_outputVars(RestoreEnds) /\ WF_outputVars(DisposeOutput)

OutputSteps == InitOutput /\ [][NextOutput]_outputVars

-----------------------------------------------------------------------------
(* Properties *)

Identity(item) == <<item.kind, item.of, item.i>>
Identities(items) == {Identity(items[i]) : i \in DOMAIN items}
Quiet == Following /\ ~tail /\ stream.pending = <<>>

Before(x, y) ==
    \/ x.kind # y.kind
    \/ x.kind = "event" /\ (\/ x.of < y.of
                            \/ x.of = y.of /\ x.i < y.i
                            \/ log[y.of].kind = "aside")
    \/ x.kind = "text" /\ (x.of = y.of => x.i < y.i)
    \/ x.kind = "meter" /\ x.of < y.of
OnceInOrder(items) ==
    \A i, j \in DOMAIN items :
        i < j => Identity(items[i]) # Identity(items[j]) /\ Before(items[i], items[j])

\* Nothing is sent twice, though the text of an attempt comes in frames and
\* again in the event that settles it, events are replayed and followed, and a
\* frame may come again; and the parts of the events come in the order of the
\* log, except what is held for the stream.
SentOnceInOrder == OnceInOrder(received)

\* Whatever the images and the socket did, once nothing waits the client has
\* all that the events say, the replayed and the live ones; and when a load is
\* answered it has the whole transcript.
Says(items, seq, count, drawn) ==
    LET replay == seq <= count
        said == Items(log[seq], seq, replay, {}, {})
    IN  (replay => drawn) =>
            \A i \in DOMAIN said :
                said[i].kind # "meter" => Identity(said[i]) \in Identities(items)
Said(seqs) == \A seq \in seqs : Says(received, seq, replayed.count, replayed.drawn)
NothingDropped ==
    /\ Quiet => Said(1..lastSeq)
    /\ restored /\ Following => Said(1..replayed.count)

\* The client gets the transcript: everything, once and in order.
TranscriptExact == SentOnceInOrder /\ NothingDropped

BilledBy(last) ==
    {s \in 1..last :
        /\ log[s].kind = "settled"
        /\ \A t \in s + 1..last :
             log[t].kind = "settled" /\ log[t].step = log[s].step =>
                \E r \in s..t : log[r].kind = "retry" /\ log[r].step = log[s].step}
LastTold(items, totals) ==
    LET carriers == {i \in DOMAIN items : Carries(items[i])}
    IN  \E i \in carriers : items[i].meters = totals /\ \A j \in carriers : j <= i

\* A step that settles again is billed once, and one that was retried for each
\* try: the totals are those of the log.  They reach the client although the text
\* of a response was streamed before its usage was known: the last totals it was
\* sent are the totals.
MetersTrue ==
    /\ Following /\ stream.pending = <<>> => counted = BilledBy(lastSeq)
    /\ Quiet /\ counted \cap (replayed.count + 1..lastSeq) # {} => LastTold(received, counted)

\* What a client sees of a session is what its log says.
ClientSeesLog == TranscriptExact /\ MetersTrue

\* Nothing is sent for a session that the registry has let go, whatever of it
\* is still being read, queued or streamed; and a load ends, however slow the
\* client and its images are, and so does the disposal of a record that was
\* retired.
OutputEnds ==
    /\ [][~Following => received' = received]_outputVars
    /\ []<>(phase # "new" => restored) \* also when it is retired meanwhile
    /\ []<>(phase # "retired")
=============================================================================
