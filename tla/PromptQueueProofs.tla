-------------------------- MODULE PromptQueueProofs --------------------------
(***************************************************************************)
(* Theorems about PromptQueue, for every value of its constants.           *)
(***************************************************************************)
EXTENDS PromptQueue, FiniteSetTheorems, SequenceTheorems, WellFoundedInduction, TLAPS

\* RemoveAt drops one element of a sequence and keeps the others' type.
LEMMA RemoveAtType ==
    ASSUME NEW S, NEW s \in Seq(S), NEW i \in DOMAIN s
    PROVE  RemoveAt(s, i) \in Seq(S)
BY DEF RemoveAt

\* What concatenation and its kin hold comes from what they are given.
LEMMA ConcatElements ==
    ASSUME NEW S, NEW s \in Seq(S), NEW t \in Seq(S)
    PROVE  ToSet(s \o t) \subseteq ToSet(s) \cup ToSet(t)
<1>1. /\ DOMAIN (s \o t) = 1..(Len(s) + Len(t))
      /\ DOMAIN s = 1..Len(s) /\ DOMAIN t = 1..Len(t)
      /\ Len(s) \in Nat /\ Len(t) \in Nat
  BY ConcatProperties
<1>2. ASSUME NEW i \in 1..(Len(s) + Len(t))
      PROVE  (s \o t)[i] \in ToSet(s) \cup ToSet(t)
  <2>1. CASE i <= Len(s)
    <3>1. (s \o t)[i] = s[i]
      BY <1>1, <2>1, ConcatProperties
    <3>2. i \in 1..Len(s)
      BY <1>1, <2>1
    <3> QED
      BY <1>1, <3>1, <3>2 DEF ToSet
  <2>2. CASE i > Len(s)
    <3>1. (s \o t)[i] = t[i - Len(s)]
      BY <1>1, <2>2, ConcatProperties
    <3>2. i - Len(s) \in 1..Len(t)
      BY <1>1, <2>2
    <3> QED
      BY <1>1, <3>1, <3>2 DEF ToSet
  <2> QED
    BY <1>1, <2>1, <2>2
<1> QED
  BY <1>1, <1>2 DEF ToSet

LEMMA AppendElements ==
    ASSUME NEW S, NEW s \in Seq(S), NEW x \in S
    PROVE  /\ Append(s, x) \in Seq(S)
           /\ ToSet(Append(s, x)) \subseteq ToSet(s) \cup {x}
<1>1. <<x>> \in Seq(S) /\ ToSet(<<x>>) = {x}
  <2>1. DOMAIN <<x>> = {1} /\ <<x>>[1] = x
    OBVIOUS
  <2> QED
    BY <2>1 DEF ToSet
<1>2. Append(s, x) = s \o <<x>>
  BY AppendIsConcat
<1>3. ToSet(s \o <<x>>) \subseteq ToSet(s) \cup {x}
  BY <1>1, ConcatElements
<1>4. Append(s, x) \in Seq(S)
  OBVIOUS
<1> QED
  BY <1>2, <1>3, <1>4

LEMMA PrependElements ==
    ASSUME NEW S, NEW s \in Seq(S), NEW x \in S
    PROVE  /\ <<x>> \o s \in Seq(S)
           /\ ToSet(<<x>> \o s) \subseteq ToSet(s) \cup {x}
<1>1. <<x>> \in Seq(S) /\ ToSet(<<x>>) = {x}
  <2>1. DOMAIN <<x>> = {1} /\ <<x>>[1] = x
    OBVIOUS
  <2> QED
    BY <2>1 DEF ToSet
<1> QED
  BY <1>1, ConcatElements, ConcatProperties

LEMMA RemoveAtElements ==
    ASSUME NEW S, NEW s \in Seq(S), NEW i \in DOMAIN s
    PROVE  ToSet(RemoveAt(s, i)) \subseteq ToSet(s)
<1> DEFINE front == SubSeq(s, 1, i - 1)
           back == SubSeq(s, i + 1, Len(s))
<1>1. Len(s) \in Nat /\ i \in 1..Len(s) /\ DOMAIN s = 1..Len(s)
  OBVIOUS
<1>2. front \in Seq(S) /\ ToSet(front) \subseteq ToSet(s)
  BY <1>1 DEF ToSet
<1>3. back \in Seq(S) /\ ToSet(back) \subseteq ToSet(s)
  BY <1>1 DEF ToSet
<1> HIDE DEF front, back
<1>4. ToSet(front \o back) \subseteq ToSet(s)
  BY <1>2, <1>3, ConcatElements
<1> QED
  BY <1>4 DEF RemoveAt, front, back

\* At most the rows behind the front are folded into it.
LEMMA FoldedRange ==
    ASSUME NEW rows \in Seq(Rpc), rows # <<>>, NEW holds
    PROVE  Folded(rows, holds) \in 0..(Len(rows) - 1)
<1> DEFINE behind == {i \in 2..Len(rows) :
            \A j \in 2..i : pid[rows[j]] \notin holds /\ rows[j] \notin Images}
<1>1. Len(rows) \in Nat /\ Len(rows) >= 1
  OBVIOUS
<1>2. IsFiniteSet(2..Len(rows)) /\ Cardinality(2..Len(rows)) = Len(rows) - 1
  BY <1>1, FS_Interval
<1>3. behind \subseteq 2..Len(rows)
  OBVIOUS
<1>4. IsFiniteSet(behind) /\ Cardinality(behind) <= Len(rows) - 1
  BY <1>2, <1>3, FS_Subset
<1>5. Cardinality(behind) \in Nat
  BY <1>4, FS_CardinalityType
<1> QED
  BY <1>1, <1>4, <1>5 DEF Folded

-----------------------------------------------------------------------------
\* Types of what the handlers compute.

LEMMA RunFields ==
    ASSUME NEW r \in RunType
    PROVE  /\ r.rpc \in Rpc \cup {None}
           /\ r.phase \in {"free", "active", "draining", "flushing"}
           /\ r.phase = "active" => r.rpc \in Rpc
           /\ r.phase \in {"draining", "flushing"} =>
                /\ r.rpc \in Rpc
                /\ r.stop \in {"completed", "cancelled", "failed"}
           /\ r.sendNow \in BOOLEAN
           /\ r.phase = "free" <=> r = Free
<1>1. CASE r = Free
  BY <1>1 DEF Free
<1>2. CASE r \in [rpc : Rpc, phase : {"active"}, stop : {None}, sendNow : BOOLEAN]
  BY <1>2 DEF Free
<1>3. CASE r \in [rpc : Rpc, phase : {"draining", "flushing"},
                  stop : {"completed", "cancelled", "failed"}, sendNow : BOOLEAN]
  BY <1>3 DEF Free
<1> QED
  BY <1>1, <1>2, <1>3 DEF RunType

LEMMA RunTypes ==
    ASSUME NEW r \in RunType
    PROVE  /\ Free \in RunType
           /\ \A stop \in {"completed", "cancelled", "failed"}, d \in BOOLEAN :
                SettleRun(r, stop, d) \in RunType
           /\ CancelRun(r) \in RunType
           /\ EndDrain(r) \in RunType
           /\ Inflight(r) => /\ StampSendNow(r) \in RunType
                             /\ CancelRun(StampSendNow(r)) \in RunType
<1>1. \A stop \in {"completed", "cancelled", "failed"}, d \in BOOLEAN :
        \A q \in RunType : SettleRun(q, stop, d) \in RunType
  <2> SUFFICES ASSUME NEW stop \in {"completed", "cancelled", "failed"},
                      NEW d \in BOOLEAN, NEW q \in RunType, q.phase = "active"
               PROVE  SettleRun(q, stop, d) \in RunType
    BY DEF SettleRun, Inflight
  <2>1. q.rpc \in Rpc /\ q # Free /\ q.sendNow \in BOOLEAN
    BY RunFields
  <2> QED
    BY <2>1 DEF RunType, SettleRun, Stopped, Inflight
<1>2. \A q \in RunType : CancelRun(q) \in RunType
  BY <1>1 DEF CancelRun
<1>3. EndDrain(r) \in RunType
  <2> SUFFICES ASSUME r.phase = "draining" PROVE EndDrain(r) \in RunType
    BY DEF EndDrain
  <2>1. /\ r.rpc \in Rpc /\ r.sendNow \in BOOLEAN
        /\ r.stop \in {"completed", "cancelled", "failed"}
    BY RunFields
  <2> QED
    BY <2>1 DEF RunType, Stopped, EndDrain
<1>4. Inflight(r) => StampSendNow(r) \in RunType
  <2> SUFFICES ASSUME r.phase = "active" PROVE StampSendNow(r) \in RunType
    BY DEF Inflight
  <2>1. r \in [rpc : Rpc, phase : {"active"}, stop : {None}, sendNow : BOOLEAN]
    BY DEF RunType, Free
  <2> QED
    BY <2>1 DEF RunType, StampSendNow
<1>5. Free \in RunType
  BY DEF RunType
<1> QED
  BY <1>1, <1>2, <1>3, <1>4, <1>5

LEMMA SettleType ==
    ASSUME NEW out \in [Rpc -> Outcomes], NEW T, NEW how \in Outcomes
    PROVE  SettleRpcs(out, T, how) \in [Rpc -> Outcomes]
BY DEF SettleRpcs

LEMMA SnapshotType ==
    ASSUME NEW rows \in Seq(Rpc), NEW r \in RunType
    PROVE  Snapshot(rows, r) \in [rows : Seq(Rpc), running : Rpc \cup {None}]
BY RunFields DEF Snapshot

\* What a promotion assigns.
PromotedType ==
    /\ queue' \in Seq(Rpc)
    /\ run' \in RunType
    /\ outcome' \in [Rpc -> Outcomes]
    /\ handed' \subseteq Rpc
    /\ status' \in {"idle", "running"}
    /\ inbox' \in Seq(Rpc)

LEMMA AdvanceType ==
    ASSUME TypeOK, NEW rows \in Seq(Rpc), NEW holds, NEW r \in RunType,
           NEW out \in [Rpc -> Outcomes], Advance(rows, holds, r, out)
    PROVE  PromotedType
<1>1. CASE MayAdvance(rows, holds, r)
  <2> DEFINE k == Folded(rows, holds)
             folded == {rows[i] : i \in 2..(k + 1)}
  <2>1. rows # <<>> /\ Len(rows) \in Nat /\ Len(rows) >= 1
    BY <1>1 DEF MayAdvance
  <2>2. k \in 0..(Len(rows) - 1)
    BY <2>1, FoldedRange
  <2>3. rows[1] \in Rpc /\ folded \subseteq Rpc
    BY <2>1, <2>2
  <2>4. /\ queue' = SubSeq(rows, k + 2, Len(rows))
        /\ outcome' = SettleRpcs(out, folded, "cancelled")
        /\ RunPrompt(rows[1], folded)
    BY <1>1 DEF Advance
  <2> HIDE DEF k, folded
  <2>5. queue' \in Seq(Rpc)
    BY <2>1, <2>2, <2>4
  <2>6. outcome' \in [Rpc -> Outcomes]
    BY <2>4, SettleType DEF Outcomes
  <2>7. PICK ok \in MayThrow("followup") :
            /\ run' = [rpc |-> rows[1], stop |-> IF ok THEN None ELSE "failed",
                       phase |-> IF ok THEN "active" ELSE "flushing",
                       sendNow |-> FALSE]
            /\ handed' = IF ok THEN handed \cup {rows[1]} \cup folded ELSE handed
            /\ status' = IF ok THEN "running" ELSE status
            /\ inbox' = IF ok THEN Append(inbox, rows[1]) ELSE inbox
    BY <2>4 DEF RunPrompt
  <2>8. run' \in RunType
    BY <2>3, <2>7 DEF RunType
  <2> QED
    BY <2>3, <2>5, <2>6, <2>7, <2>8 DEF PromotedType, TypeOK
<1>2. CASE ~MayAdvance(rows, holds, r)
  BY <1>2 DEF Advance, Stay, PromotedType, TypeOK
<1> QED
  BY <1>1, <1>2

LEMMA PromoteType ==
    ASSUME TypeOK, NEW rows \in Seq(Rpc), NEW holds, NEW r \in RunType,
           NEW out \in [Rpc -> Outcomes], Promote(rows, holds, r, out)
    PROVE  PromotedType /\ promo' \in {"none", "waiting", "ready"}
<1>1. CASE Advance(rows, holds, r, out) /\ UNCHANGED promo
  BY <1>1, AdvanceType DEF TypeOK
<1>2. CASE Stay(rows, r, out) /\ (UNCHANGED promo \/ promo' = "waiting")
  BY <1>2 DEF Stay, PromotedType, TypeOK
<1> QED
  BY <1>1, <1>2 DEF Promote

-----------------------------------------------------------------------------
\* The types of the variables that no action of a group touches follow from
\* UNCHANGED; each step below shows the others.

LEMMA SubmissionType ==
    ASSUME TypeOK, NEW r \in Rpc,
           SubmitRefused(r) \/ \E id \in Ids : Submit(r, id)
    PROVE  TypeOK'
<1>1. CASE SubmitRefused(r)
  BY <1>1 DEF SubmitRefused, TypeOK, Outcomes, admission, prompts, host, agent, wire
<1>2. ASSUME NEW id \in Ids, Submit(r, id) PROVE TypeOK'
  BY <1>2 DEF Submit, TypeOK, Outcomes, prompts, host, agent, wire
<1> QED
  BY <1>1, <1>2

LEMMA AdmissionType ==
    ASSUME TypeOK, NEW r \in Rpc, Admit(r) \/ CancelPromptPreparing(r)
    PROVE  TypeOK'
<1> USE DEF TypeOK
<1>1. CASE PassRetired(r)
  BY <1>1 DEF PassRetired, requests, prompts, host, agent, wire
<1>2. CASE RefuseTurn(r)
  BY <1>2, SettleType
     DEF RefuseTurn, RefuseAdmission, Retire, Refusal, Outcomes, prompts, host,
         agent, wire
<1>3. CASE StartPreparation(r)
  BY <1>3 DEF StartPreparation, requests, prompts, host, agent, wire
<1>4. CASE CancelPromptPreparing(r)
  BY <1>4, SettleType
     DEF CancelPromptPreparing, Outcomes, prompts, host, agent, wire
<1> QED
  BY <1>1, <1>2, <1>3, <1>4 DEF Admit

LEMMA PreparationType ==
    ASSUME TypeOK, NEW r \in Rpc, Prepare(r)
    PROVE  TypeOK'
<1>1. CASE LatePreparation(r)
  BY <1>1 DEF LatePreparation, TypeOK, requests, prompts, host, agent, wire
<1>2. CASE PreparationFails(r)
  <2>1. PICK how \in {"rejected", "cancelled"} : RefuseAdmission(r, how)
    BY <1>2 DEF PreparationFails, Refusal
  <2> QED
    BY <1>2, <2>1, SettleType
       DEF PreparationFails, RefuseAdmission, Retire, TypeOK, Outcomes, prompts,
           host, agent, wire
<1>3. CASE EnqueueSendNow(r)
  <2>1. PICK ok \in MayThrow("cancel") :
        /\ run' = IF ok THEN CancelRun(StampSendNow(run)) ELSE StampSendNow(run)
        /\ outcome' = IF ok THEN outcome ELSE SettleRpcs(outcome, {r}, "rejected")
        /\ view' = IF ok THEN Snapshot(queue', run') ELSE view
    BY <1>3 DEF EnqueueSendNow
  <2>2. run' \in RunType
    BY <1>3, <2>1, RunTypes DEF EnqueueSendNow, TypeOK
  <2>3. outcome' \in [Rpc -> Outcomes]
    BY <2>1, SettleType DEF TypeOK, Outcomes
  <2>4. queue' \in Seq(Rpc)
    BY <1>3 DEF EnqueueSendNow, TypeOK
  <2>5. view' \in [rows : Seq(Rpc), running : Rpc \cup {None}]
    BY <2>1, <2>2, <2>4, SnapshotType DEF TypeOK
  <2> QED
    BY <1>3, <2>2, <2>3, <2>4, <2>5
       DEF EnqueueSendNow, Prepared, Retire, TypeOK, host
<1>4. CASE EnqueueSteer(r)
  <2>1. outcome' \in [Rpc -> Outcomes]
    BY <1>4, SettleType DEF EnqueueSteer, TypeOK, Outcomes
  <2>2. view' \in [rows : Seq(Rpc), running : Rpc \cup {None}]
    BY <1>4, SnapshotType DEF EnqueueSteer, TypeOK
  <2>3. steered' \subseteq Rpc /\ handed' \subseteq Rpc
    BY <1>4 DEF EnqueueSteer, TypeOK
  <2> QED
    BY <1>4, <2>1, <2>2, <2>3 DEF EnqueueSteer, Prepared, Retire, TypeOK, host
<1>5. CASE EnqueueRow(r)
  <2>0. Append(queue, r) \in Seq(Rpc)
    BY DEF TypeOK
  <2>1. PromotedType /\ promo' \in {"none", "waiting", "ready"}
    BY <1>5, <2>0, PromoteType DEF EnqueueRow, TypeOK
  <2>3. Snapshot(queue', run') \in [rows : Seq(Rpc), running : Rpc \cup {None}]
    BY <2>1, SnapshotType DEF PromotedType
  <2>2. view' \in [rows : Seq(Rpc), running : Rpc \cup {None}]
    BY <1>5, <2>3 DEF EnqueueRow, TypeOK
  <2> QED
    BY <1>5, <2>1, <2>2
       DEF EnqueueRow, Prepared, Retire, TypeOK, PromotedType, host
<1> QED
  BY <1>1, <1>2, <1>3, <1>4, <1>5 DEF Prepare

\* A row control that promotes.
LEMMA ControlType ==
    ASSUME TypeOK, Control, held' \subseteq Ids, UNCHANGED steered,
           PromotedType, promo' \in {"none", "waiting", "ready"},
           view' \in [rows : Seq(Rpc), running : Rpc \cup {None}]
    PROVE  TypeOK'
BY DEF TypeOK, Control, PromotedType, admission, host

LEMMA RowControlType ==
    ASSUME TypeOK, NEW id \in Ids, RowControl(id) \/ CancelPromptQueued(id)
    PROVE  TypeOK'
<1> DEFINE ViewType == [rows : Seq(Rpc), running : Rpc \cup {None}]
<1>1. ASSUME NEW i \in RowsWith(id)
      PROVE  /\ RemoveAt(queue, i) \in Seq(Rpc)
             /\ queue[i] \in Rpc
             /\ <<queue[i]>> \o RemoveAt(queue, i) \in Seq(Rpc)
             /\ \A how \in Outcomes :
                    SettleRpcs(outcome, {queue[i]}, how) \in [Rpc -> Outcomes]
  <2>1. i \in DOMAIN queue
    BY <1>1 DEF RowsWith
  <2>2. RemoveAt(queue, i) \in Seq(Rpc)
    BY <2>1, RemoveAtType DEF TypeOK
  <2>3. queue[i] \in Rpc
    BY <2>1 DEF TypeOK
  <2>4. <<queue[i]>> \o RemoveAt(queue, i) \in Seq(Rpc)
    BY <2>2, <2>3
  <2>5. ASSUME NEW how \in Outcomes
        PROVE  SettleRpcs(outcome, {queue[i]}, how) \in [Rpc -> Outcomes]
    BY SettleType DEF TypeOK
  <2> QED
    BY <2>2, <2>3, <2>4, <2>5
<1>2. held \ {id} \subseteq Ids /\ held \cup {id} \subseteq Ids
  BY DEF TypeOK
<1>3. ASSUME PromotedType, Broadcast PROVE view' \in ViewType
  BY <1>3, SnapshotType DEF PromotedType, Broadcast
<1>4. ASSUME PromotedType, BroadcastIfStarted PROVE view' \in ViewType
  BY <1>4, SnapshotType DEF PromotedType, BroadcastIfStarted, TypeOK
<1>5. CASE ResyncRow(id) \/ EditRow(id)
  <2>1. ResyncRow(id)
    BY <1>5 DEF EditRow
  <2>2. PromotedType /\ promo' \in {"none", "waiting", "ready"}
    BY <2>1, PromoteType DEF ResyncRow, TypeOK
  <2> QED
    BY <1>2, <1>3, <2>1, <2>2, ControlType DEF ResyncRow
<1>6. CASE Interject(id)
  <2>1. PICK i \in RowsWith(id) :
        LET rows == <<queue[i]>> \o RemoveAt(queue, i) IN
        \/ /\ ~Inflight(run)
           /\ Promote(rows, held', run, outcome)
           /\ Broadcast
        \/ /\ Inflight(run)
           /\ queue' = rows
           /\ \E ok \in MayThrow("cancel") :
                /\ run' = IF ok THEN CancelRun(StampSendNow(run))
                                ELSE StampSendNow(run)
                /\ view' = IF ok THEN Snapshot(queue', run') ELSE view
           /\ UNCHANGED <<outcome, promo, status, inbox, handed>>
    BY <1>6 DEF Interject
  <2> DEFINE rows == <<queue[i]>> \o RemoveAt(queue, i)
  <2>2. rows \in Seq(Rpc)
    BY <1>1
  <2>3. CASE Promote(rows, held', run, outcome) /\ Broadcast
    <3>1. PromotedType /\ promo' \in {"none", "waiting", "ready"}
      BY <2>2, <2>3, PromoteType DEF TypeOK
    <3> QED
      BY <1>2, <1>3, <1>6, <2>3, <3>1, ControlType DEF Interject
  <2>4. CASE /\ Inflight(run)
             /\ queue' = rows
             /\ \E ok \in MayThrow("cancel") :
                  /\ run' = IF ok THEN CancelRun(StampSendNow(run))
                                  ELSE StampSendNow(run)
                  /\ view' = IF ok THEN Snapshot(queue', run') ELSE view
             /\ UNCHANGED <<outcome, promo, status, inbox, handed>>
    <3>1. run' \in RunType
      BY <2>4, RunTypes DEF TypeOK
    <3>4. Snapshot(rows, run') \in ViewType
      BY <2>2, <3>1, SnapshotType
    <3>2. view' \in ViewType
      BY <2>4, <3>4 DEF TypeOK
    <3>3. PromotedType /\ promo' \in {"none", "waiting", "ready"}
      BY <2>2, <2>4, <3>1 DEF PromotedType, TypeOK
    <3> QED
      BY <1>2, <1>6, <3>2, <3>3, ControlType DEF Interject
  <2> QED
    BY <2>1, <2>3, <2>4
<1>7. CASE SteerRow(id)
  <2>1. PICK i \in RowsWith(id) :
        \/ /\ ~Inflight(run)
           /\ Promote(queue, held, run, outcome)
           /\ Broadcast
           /\ UNCHANGED <<held, steered>>
        \/ /\ Inflight(run)
           /\ held' = held \ {id}
           /\ \E ok \in MayThrow("steer") :
                /\ queue' = IF ok THEN RemoveAt(queue, i) ELSE queue
                /\ steered' = IF ok THEN steered \cup {queue[i]} ELSE steered
                /\ handed' = IF ok THEN handed \cup {queue[i]} ELSE handed
                /\ outcome' = IF ok THEN outcome
                              ELSE SettleRpcs(outcome, {queue[i]}, "rejected")
           /\ view' = Snapshot(queue', run)
           /\ UNCHANGED <<run, promo, status, inbox>>
    BY <1>7 DEF SteerRow
  <2>2. CASE /\ Promote(queue, held, run, outcome)
             /\ Broadcast
             /\ UNCHANGED <<held, steered>>
    <3>1. PromotedType /\ promo' \in {"none", "waiting", "ready"}
      BY <2>2, PromoteType DEF TypeOK
    <3> QED
      BY <1>3, <1>7, <2>2, <3>1, ControlType DEF SteerRow, TypeOK
  <2>3. CASE /\ held' = held \ {id}
             /\ \E ok \in MayThrow("steer") :
                  /\ queue' = IF ok THEN RemoveAt(queue, i) ELSE queue
                  /\ steered' = IF ok THEN steered \cup {queue[i]} ELSE steered
                  /\ handed' = IF ok THEN handed \cup {queue[i]} ELSE handed
                  /\ outcome' = IF ok THEN outcome
                                ELSE SettleRpcs(outcome, {queue[i]}, "rejected")
             /\ view' = Snapshot(queue', run)
             /\ UNCHANGED <<run, promo, status, inbox>>
    <3>1. queue' \in Seq(Rpc) /\ queue[i] \in Rpc
      BY <1>1, <2>3 DEF TypeOK
    <3>2. outcome' \in [Rpc -> Outcomes]
      <4>1. outcome' = outcome \/ outcome' = SettleRpcs(outcome, {queue[i]}, "rejected")
        BY <2>3
      <4>2. SettleRpcs(outcome, {queue[i]}, "rejected") \in [Rpc -> Outcomes]
        BY <1>1 DEF Outcomes
      <4> QED BY <4>1, <4>2 DEF TypeOK
    <3>3. view' \in ViewType
      BY <2>3, <3>1, SnapshotType DEF TypeOK
    <3> QED
      BY <1>2, <1>7, <2>3, <3>1, <3>2, <3>3
         DEF SteerRow, Control, TypeOK, admission, host
  <2> QED
    BY <2>1, <2>2, <2>3
<1>8. CASE RemoveRow(id)
  <2>1. PICK i \in RowsWith(id) : Promote(RemoveAt(queue, i), held', run,
                SettleRpcs(outcome, {queue[i]}, "cancelled"))
    BY <1>8 DEF RemoveRow
  <2>2. PromotedType /\ promo' \in {"none", "waiting", "ready"}
    BY <1>1, <2>1, PromoteType DEF TypeOK, Outcomes
  <2>3. (CHOOSE j \in RowsWith(id) : TRUE) \in RowsWith(id)
    BY <2>1
  <2>5. /\ RemoveAt(queue, CHOOSE j \in RowsWith(id) : TRUE) \in Seq(Rpc)
        /\ run.rpc \in Rpc \cup {None}
    BY <1>1, <2>3, RunFields DEF TypeOK
  <2>6. Snapshot(queue', run') \in ViewType
    BY <2>2, SnapshotType DEF PromotedType
  <2>4. view' \in ViewType
    BY <1>8, <2>5, <2>6 DEF RemoveRow
  <2> QED
    BY <1>2, <1>8, <2>2, <2>4, ControlType DEF RemoveRow
<1>9. CASE RemoveRunning(id)
  <2>1. CASE held' = held \ {id} /\ Promote(queue, held', CancelRun(run), outcome)
                /\ Broadcast
    <3>1. PromotedType /\ promo' \in {"none", "waiting", "ready"}
      BY <2>1, PromoteType, RunTypes DEF TypeOK
    <3> QED
      BY <1>2, <1>3, <1>9, <2>1, <3>1, ControlType DEF RemoveRunning
  <2>2. CASE Stay(queue, run, outcome) /\ UNCHANGED <<held, promo, view>>
    <3>1. PromotedType
      BY <2>2 DEF Stay, PromotedType, TypeOK
    <3> QED
      BY <1>9, <2>2, <3>1, ControlType DEF RemoveRunning, TypeOK
  <2> QED
    BY <1>9, <2>1, <2>2 DEF RemoveRunning
<1>10. CASE RemoveUnknown(id)
  <2>1. PromotedType /\ promo' \in {"none", "waiting", "ready"}
    BY <1>10, PromoteType DEF RemoveUnknown, TypeOK
  <2> QED
    BY <1>3, <1>10, <2>1, ControlType DEF RemoveUnknown, TypeOK
<1>11. CASE HoldEdit(id)
  BY <1>2, <1>11 DEF HoldEdit, Control, TypeOK, admission, host
<1>12. CASE ReleaseEdit(id)
  <2>1. PromotedType /\ promo' \in {"none", "waiting", "ready"}
    BY <1>12, PromoteType DEF ReleaseEdit, TypeOK
  <2> QED
    BY <1>2, <1>4, <1>12, <2>1, ControlType DEF ReleaseEdit
<1>13. CASE CancelPromptQueued(id)
  <2>1. PICK i \in RowsWith(id) : Promote(RemoveAt(queue, i), held', run,
                SettleRpcs(outcome, {queue[i]}, "cancelled"))
    BY <1>13 DEF CancelPromptQueued
  <2>2. PromotedType /\ promo' \in {"none", "waiting", "ready"}
    BY <1>1, <2>1, PromoteType DEF TypeOK, Outcomes
  <2> QED
    BY <1>2, <1>3, <1>13, <2>2, ControlType DEF CancelPromptQueued
<1> QED
  BY <1>5, <1>6, <1>7, <1>8, <1>9, <1>10, <1>11, <1>12, <1>13 DEF RowControl

LEMMA ReorderType ==
    ASSUME TypeOK, Reorder
    PROVE  TypeOK'
<1>1. PICK p \in Bijection(DOMAIN queue, DOMAIN queue) :
        Promote([i \in DOMAIN queue |-> queue[p[i]]], held, run, outcome)
  BY DEF Reorder
<1> DEFINE rows == [i \in DOMAIN queue |-> queue[p[i]]]
<1>2. p \in [DOMAIN queue -> DOMAIN queue]
  BY DEF Bijection, Injection, Surjection, IsInjective
<1>3. \A i \in DOMAIN queue : rows[i] \in Rpc
  BY <1>2 DEF TypeOK
<1>4. DOMAIN queue = 1..Len(queue) /\ Len(queue) \in Nat
  BY DEF TypeOK
<1>5. rows \in Seq(Rpc)
  BY <1>3, <1>4
<1>6. PromotedType /\ promo' \in {"none", "waiting", "ready"}
  BY <1>1, <1>5, PromoteType DEF TypeOK
<1>7. view' \in [rows : Seq(Rpc), running : Rpc \cup {None}]
  BY <1>6, SnapshotType DEF Reorder, PromotedType, Broadcast
<1> QED
  BY <1>6, <1>7, ControlType DEF Reorder, TypeOK

LEMMA DiscardType ==
    ASSUME TypeOK, Discard
    PROVE  /\ queue' \in Seq(Rpc)
           /\ held' \subseteq Ids
           /\ outcome' \in [Rpc -> Outcomes]
BY SettleType DEF Discard, TypeOK, Outcomes

LEMMA ClearType ==
    ASSUME TypeOK, Clear
    PROVE  TypeOK'
<1>1. view' \in [rows : Seq(Rpc), running : Rpc \cup {None}]
  BY RunFields DEF Clear, Snapshot, TypeOK
<1> QED
  BY <1>1, DiscardType DEF Clear, Control, TypeOK, admission, host

\* What cancels everything leaves to show is the type of run, live, disposal.
LEMMA CancelAllType ==
    ASSUME TypeOK, CancelAll, run' \in RunType,
           live' \in {"live", "suspended", "lost"},
           disposal' \in {"none", "draining", "done"}
    PROVE  TypeOK'
<1>1. view' \in [rows : Seq(Rpc), running : Rpc \cup {None}]
  BY RunFields DEF CancelAll, Snapshot, TypeOK
<1>2. outdated' \subseteq Rpc
  BY DEF CancelAll, Preparing
<1>3. Discard
  BY DEF CancelAll
<1> QED
  BY <1>1, <1>2, <1>3, DiscardType DEF CancelAll, TypeOK, agent

LEMMA LifecycleType ==
    ASSUME TypeOK, Cancel \/ Lifecycle \/ DisposalDone
                     \/ \E id \in Ids : CancelPromptRunning(id)
    PROVE  TypeOK'
<1>1. /\ CancelRun(run) \in RunType
      /\ EndDrain(CancelRun(run)) \in RunType
  BY RunTypes DEF TypeOK
<1>2. CASE Cancel
  BY <1>1, <1>2, CancelAllType DEF Cancel, TypeOK, host
<1>3. CASE Suspend
  BY <1>1, <1>3, CancelAllType DEF Suspend, TypeOK
<1>4. CASE Resume \/ LoseAgent \/ DisposalDone
  BY <1>4 DEF Resume, LoseAgent, DisposalDone, TypeOK, requests, admission,
              prompts, agent, wire
<1>5. CASE Dispose
  BY <1>1, <1>5, CancelAllType DEF Dispose
<1>6. CASE \E id \in Ids : CancelPromptRunning(id)
  BY <1>1, <1>6
     DEF CancelPromptRunning, TypeOK, requests, admission, prompts, host, agent,
         wire
<1> QED
  BY <1>2, <1>3, <1>4, <1>5, <1>6 DEF Lifecycle

LEMMA SettlementType ==
    ASSUME TypeOK, FinishRun \/ PromotionFires
    PROVE  TypeOK'
<1> DEFINE ViewType == [rows : Seq(Rpc), running : Rpc \cup {None}]
<1>1. ASSUME PromotedType, Broadcast \/ BroadcastIfStarted
      PROVE  view' \in ViewType
  <2>1. Snapshot(queue', run') \in ViewType
    BY <1>1, SnapshotType DEF PromotedType
  <2> QED
    BY <1>1, <2>1 DEF Broadcast, BroadcastIfStarted, TypeOK
<1>2. CASE FinishRun
  <2>1. PICK flushed \in MayThrow("flush") :
        LET ok == flushed /\ run.stop # "failed"
            stop == IF run.stop = "failed" THEN "cancelled" ELSE run.stop
            out == SettleRpcs(SettleRpcs(outcome, steered, stop), {run.rpc},
                              IF ok THEN run.stop ELSE "rejected")
        IN  /\ completed' = IF ok THEN completed \cup {run.rpc} ELSE completed
            /\ \/ /\ queue # <<>>
                  /\ Promote(queue, held, Free, out)
                  /\ BroadcastIfStarted
               \/ /\ queue = <<>>
                  /\ Stay(queue, Free, out)
                  /\ Broadcast
                  /\ UNCHANGED promo
    BY <1>2 DEF FinishRun
  <2> DEFINE ok == flushed /\ run.stop # "failed"
             stop == IF run.stop = "failed" THEN "cancelled" ELSE run.stop
             how == IF ok THEN run.stop ELSE "rejected"
             out == SettleRpcs(SettleRpcs(outcome, steered, stop), {run.rpc}, how)
  <2>2. run.rpc \in Rpc /\ run.stop \in Outcomes \cup {"failed"}
    BY <1>2, RunFields DEF FinishRun, TypeOK, Outcomes
  <2>3. stop \in Outcomes /\ how \in Outcomes
    BY <2>2 DEF Outcomes
  <2> HIDE DEF stop, how
  <2>4. out \in [Rpc -> Outcomes]
    BY <2>3, SettleType DEF TypeOK
  <2>5. completed' \subseteq Rpc
    BY <2>1, <2>2 DEF TypeOK
  <2>6. PromotedType /\ promo' \in {"none", "waiting", "ready"}
    <3>1. CASE Promote(queue, held, Free, out)
      <4>1. Free \in RunType /\ queue \in Seq(Rpc)
        BY DEF RunType, TypeOK
      <4> HIDE DEF out
      <4> QED
        BY <2>4, <3>1, <4>1, PromoteType
    <3>2. CASE Stay(queue, Free, out) /\ UNCHANGED promo
      BY <2>4, <3>2, RunTypes DEF Stay, PromotedType, TypeOK
    <3> QED
      BY <2>1, <3>1, <3>2 DEF stop, how
  <2> QED
    BY <1>1, <1>2, <2>1, <2>5, <2>6
       DEF FinishRun, TypeOK, PromotedType, admission, host
<1>3. CASE PromotionFires
  <2>1. PromotedType
    BY <1>3, AdvanceType DEF PromotionFires, Stay, PromotedType, TypeOK
  <2> QED
    BY <1>1, <1>3, <2>1
       DEF PromotionFires, TypeOK, PromotedType, admission, host
<1> QED
  BY <1>2, <1>3

LEMMA AgentType ==
    ASSUME TypeOK, AgentWorks \/ AgentIdleFails \/ AgentWakes
    PROVE  TypeOK'
<1> USE DEF TypeOK, AgentOnly, requests, admission, host, wire
<1>1. CASE AgentClaims
  BY <1>1 DEF AgentClaims
<1>2. CASE AgentDiscards
  BY <1>2 DEF AgentDiscards
<1>3. ASSUME NEW reason \in {"completed", "cancelled", "failed"},
             AgentTurnEnds(reason)
      PROVE  TypeOK'
  <2>1. run' \in RunType
    BY <1>3, RunTypes DEF AgentTurnEnds
  <2> QED
    BY <1>3, <2>1 DEF AgentTurnEnds
<1>4. CASE AgentIdles
  <2>1. run' \in RunType
    BY <1>4, RunTypes DEF AgentIdles
  <2> QED
    BY <1>4, <2>1 DEF AgentIdles
<1>5. CASE AgentQuiet
  <2>1. run' \in RunType
    BY <1>5, RunTypes DEF AgentQuiet
  <2> QED
    BY <1>5, <2>1 DEF AgentQuiet, agent
<1>6. CASE AgentIdleFails
  <2>1. run' \in RunType
    BY <1>6, RunFields DEF AgentIdleFails, RunType, Stopped
  <2> QED
    BY <1>6, <2>1 DEF AgentIdleFails, agent
<1>7. CASE AgentWakes
  BY <1>7, PromptQueueAssumption DEF AgentWakes
<1> QED
  BY <1>1, <1>2, <1>3, <1>4, <1>5, <1>6, <1>7 DEF AgentWorks
-----------------------------------------------------------------------------
LEMMA InitType == Init => TypeOK
<1>1. Free \in RunType
  BY DEF RunType
<1>2. <<>> \in Seq(Rpc)
  OBVIOUS
<1>3. Snapshot(<<>>, Free) \in [rows : Seq(Rpc), running : Rpc \cup {None}]
  BY <1>1, <1>2, SnapshotType
<1> QED
  BY <1>1, <1>2, <1>3, PromptQueueAssumption DEF Init, TypeOK, Outcomes

LEMMA NextType == TypeOK /\ [Next]_vars => TypeOK'
<1> SUFFICES ASSUME TypeOK, [Next]_vars PROVE TypeOK'
  OBVIOUS
<1>1. CASE \E r \in Rpc : SubmitRefused(r) \/ \E id \in Ids : Submit(r, id)
  BY <1>1, SubmissionType
<1>2. CASE \E r \in Rpc : Admit(r) \/ Prepare(r) \/ CancelPromptPreparing(r)
  BY <1>2, AdmissionType, PreparationType
<1>3. CASE \E id \in Ids : RowControl(id) \/ CancelPromptQueued(id)
  BY <1>3, RowControlType
<1>4. CASE \/ Cancel \/ Lifecycle \/ DisposalDone
           \/ \E id \in Ids : CancelPromptRunning(id)
  BY <1>4, LifecycleType
<1>5. CASE Reorder
  BY <1>5, ReorderType
<1>6. CASE Clear
  BY <1>6, ClearType
<1>7. CASE FinishRun \/ PromotionFires
  BY <1>7, SettlementType
<1>8. CASE AgentWorks \/ AgentIdleFails \/ AgentWakes
  BY <1>8, AgentType
<1>9. CASE UNCHANGED vars
  BY <1>9 DEF vars, TypeOK, requests, admission, prompts, host, agent, wire
<1> QED
  BY <1>1, <1>2, <1>3, <1>4, <1>5, <1>6, <1>7, <1>8, <1>9 DEF Next

\* Type correctness: no handler, agent event or fault leaves a variable of
\* the queue outside its type, whatever the number of prompts and ids.
THEOREM TypeCorrect == Spec => []TypeOK
<1> QED
  BY InitType, NextType, PTL DEF Spec
-----------------------------------------------------------------------------
\* Promotion is never lost.  NotStranded is not inductive: it takes that a
\* suspended session holds no rows (resuming it promotes nothing), and that a
\* row is not a request still to come, whose id a submit would write.

RowsKnown ==
    \A r \in Rpc :
        slot[r] # "none" \/ r \in preparations \/ r \in ToSet(queue)
            => outcome[r] # "new"

QueueServed ==
    /\ NotStranded
    /\ live = "suspended" => queue = <<>>
    /\ RowsKnown

QueueInv == TypeOK /\ QueueServed

\* A step that makes no request new again and takes rows, slots and
\* preparations from known requests.
KnownStep ==
    /\ \A r \in Rpc : outcome[r] # "new" => outcome'[r] # "new"
    /\ \A r \in Rpc : slot'[r] # "none" => slot[r] # "none" \/ outcome'[r] # "new"
    /\ \A r \in preparations' : r \in preparations \/ slot[r] # "none"
    /\ ToSet(queue') \subseteq ToSet(queue) \cup preparations

LEMMA KnownRows == RowsKnown /\ KnownStep => RowsKnown'
BY DEF RowsKnown, KnownStep

LEMMA SettleKeepsKnown ==
    ASSUME NEW out \in [Rpc -> Outcomes], NEW T, NEW how, how # "new"
    PROVE  \A r \in Rpc : out[r] # "new" => SettleRpcs(out, T, how)[r] # "new"
BY DEF SettleRpcs

\* No promotion is due: a live session that holds rows and has a free slot
\* waits for the client or for the agent.
Served(holds) ==
    IsLive => queue' = <<>> \/ run' # Free \/ promo' # "none"
                \/ pid[Head(queue')] \in holds

\* The rows that a promotion leaves come from those it was given.
LeavesRows(rows, out) ==
    /\ ToSet(queue') \subseteq ToSet(rows)
    /\ rows = <<>> => queue' = <<>>
    /\ \A x \in Rpc : out[x] # "new" => outcome'[x] # "new"

LEMMA AdvanceServes ==
    ASSUME TypeOK, NEW rows \in Seq(Rpc), NEW holds, NEW r \in RunType,
           NEW out \in [Rpc -> Outcomes], Advance(rows, holds, r, out)
    PROVE  /\ LeavesRows(rows, out)
           /\ queue' = <<>> \/ run' # Free \/ pid[Head(queue')] \in holds
<1>1. CASE MayAdvance(rows, holds, r)
  <2> DEFINE k == Folded(rows, holds)
             folded == {rows[i] : i \in 2..(k + 1)}
  <2>1. rows # <<>> /\ Len(rows) \in Nat /\ Len(rows) >= 1
    BY <1>1 DEF MayAdvance
  <2>2. k \in 0..(Len(rows) - 1)
    BY <2>1, FoldedRange
  <2>3. /\ queue' = SubSeq(rows, k + 2, Len(rows))
        /\ outcome' = SettleRpcs(out, folded, "cancelled")
        /\ RunPrompt(rows[1], folded)
    BY <1>1 DEF Advance
  <2> HIDE DEF k, folded
  <2>4. ToSet(queue') \subseteq ToSet(rows)
    BY <2>1, <2>2, <2>3 DEF ToSet
  <2>5. \A x \in Rpc : out[x] # "new" => outcome'[x] # "new"
    BY <2>3, SettleKeepsKnown
  <2>6. run'.phase # "free"
    BY <2>3 DEF RunPrompt
  <2> QED
    BY <2>1, <2>4, <2>5, <2>6 DEF LeavesRows, Free
<1>2. CASE ~MayAdvance(rows, holds, r)
  BY <1>2 DEF Advance, Stay, MayAdvance, LeavesRows
<1> QED
  BY <1>1, <1>2

LEMMA PromoteServes ==
    ASSUME TypeOK, NEW rows \in Seq(Rpc), NEW holds, NEW r \in RunType,
           NEW out \in [Rpc -> Outcomes], Promote(rows, holds, r, out)
    PROVE  LeavesRows(rows, out) /\ Served(holds)
<1>1. CASE Advance(rows, holds, r, out)
  BY <1>1, AdvanceServes DEF Served
<1>2. CASE Stay(rows, r, out) /\ (~IsLive \/ promo' # "none")
  BY <1>2 DEF Stay, LeavesRows, Served
<1> QED
  BY <1>1, <1>2 DEF Promote

\* What a handler of a row control that promotes has to show.
LEMMA ControlServes ==
    ASSUME QueueInv, UNCHANGED <<pid, slot, preparations, live, disposal>>,
           IsLive, NEW rows, NEW out,
           LeavesRows(rows, out), Served(held'),
           ToSet(rows) \subseteq ToSet(queue),
           \A x \in Rpc : outcome[x] # "new" => out[x] # "new"
    PROVE  QueueServed'
<1>1. KnownStep
  BY DEF KnownStep, LeavesRows
<1> QED
  BY <1>1, KnownRows DEF QueueInv, QueueServed, NotStranded, Served, IsLive

\* Steps that touch neither the rows nor the ids nor a promotion.
LEMMA QuietServes ==
    ASSUME QueueInv, UNCHANGED <<pid, queue, held, promo>>, KnownStep,
           run' = Free => run = Free,
           IsLive' => IsLive \/ live = "suspended",
           live' = "suspended" => live = "suspended"
    PROVE  QueueServed'
<1>1. RowsKnown'
  BY KnownRows DEF QueueInv, QueueServed
<1> QED
  BY <1>1 DEF QueueInv, QueueServed, NotStranded, IsLive

LEMMA SubmissionServes ==
    ASSUME QueueInv, NEW r \in Rpc,
           SubmitRefused(r) \/ \E id \in Ids : Submit(r, id)
    PROVE  QueueServed'
<1> USE DEF QueueInv, TypeOK, Outcomes
<1>1. CASE SubmitRefused(r)
  <2>1. KnownStep
    BY <1>1 DEF SubmitRefused, KnownStep, admission, prompts
  <2> QED
    BY <1>1, <2>1, QuietServes DEF SubmitRefused, admission, prompts, host, IsLive
<1>2. ASSUME NEW id \in Ids, Submit(r, id) PROVE QueueServed'
  <2>1. KnownStep
    BY <1>2 DEF Submit, KnownStep, prompts
  <2>2. RowsKnown'
    BY <2>1, KnownRows DEF QueueServed
  <2>3. queue # <<>> => Head(queue) \in Rpc /\ Head(queue) \in ToSet(queue)
    BY DEF ToSet
  <2>4. outcome[r] = "new"
    BY <1>2 DEF Submit, NextRpc, Submitted
  <2>5. queue # <<>> => pid'[Head(queue)] = pid[Head(queue)]
    BY <1>2, <2>3, <2>4 DEF Submit, QueueServed, RowsKnown
  <2> QED
    BY <1>2, <2>2, <2>5
       DEF Submit, QueueServed, NotStranded, IsLive, prompts, host
<1> QED
  BY <1>1, <1>2

\* Slots and preparations of requests that are known already.
LEMMA AdmissionServes ==
    ASSUME QueueInv, NEW r \in Rpc,
           Admit(r) \/ LatePreparation(r) \/ PreparationFails(r)
             \/ CancelPromptPreparing(r)
    PROVE  QueueServed'
<1> USE DEF QueueInv, TypeOK
<1>1. r \in preparations \/ slot[r] # "none" => outcome[r] # "new"
  BY DEF QueueServed, RowsKnown
<1>2. UNCHANGED <<pid, queue, held, promo, run, live, disposal>>
  BY DEF Admit, PassRetired, RefuseTurn, StartPreparation, LatePreparation,
         PreparationFails, CancelPromptPreparing, RefuseAdmission, Retire,
         requests, prompts, host
<1>3. ASSUME NEW how, how # "new", RefuseAdmission(r, how)
      PROVE  \A x \in Rpc : outcome[x] # "new" => outcome'[x] # "new"
  BY <1>3, SettleKeepsKnown DEF RefuseAdmission
<1>4. ASSUME Admit(r) PROVE KnownStep
  <2>1. \A x \in Rpc : outcome[x] # "new" => outcome'[x] # "new"
    BY <1>3, <1>4
       DEF Admit, PassRetired, RefuseTurn, StartPreparation, requests, Refusal
  <2>2. slot[r] = "waiting"
    BY <1>4 DEF Admit, PassRetired, RefuseTurn, StartPreparation, AdmissionTurn
  <2>3. /\ \A x \in Rpc : slot'[x] # "none" => slot[x] # "none"
        /\ preparations' \subseteq preparations \cup {r}
    BY <1>4, <2>2 DEF Admit, PassRetired, RefuseTurn, StartPreparation,
                      RefuseAdmission, Retire
  <2> QED
    BY <1>2, <2>1, <2>2, <2>3 DEF KnownStep
<1>5. ASSUME LatePreparation(r) \/ PreparationFails(r) PROVE KnownStep
  <2>1. \A x \in Rpc : outcome[x] # "new" => outcome'[x] # "new"
    <3>1. CASE LatePreparation(r)
      BY <3>1 DEF LatePreparation, requests
    <3>2. CASE PreparationFails(r)
      BY <1>3, <3>2 DEF PreparationFails, Refusal
    <3> QED
      BY <1>5, <3>1, <3>2
  <2>2. /\ \A x \in Rpc : slot'[x] # "none" => x = r \/ slot[x] # "none"
        /\ r \in preparations
        /\ preparations' \subseteq preparations
    BY <1>5 DEF LatePreparation, PreparationFails, RefuseAdmission, Retire
  <2> QED
    BY <1>1, <1>2, <2>1, <2>2 DEF KnownStep
<1>6. ASSUME CancelPromptPreparing(r) PROVE KnownStep
  <2>1. \A x \in Rpc : outcome[x] # "new" => outcome'[x] # "new"
    BY <1>6, SMTT(30) DEF CancelPromptPreparing, SettleRpcs
  <2> QED
    BY <1>2, <1>6, <2>1 DEF CancelPromptPreparing, Preparing, KnownStep
<1>7. KnownStep
  BY <1>4, <1>5, <1>6
<1> QED
  BY <1>2, <1>7, QuietServes DEF IsLive

\* Send-now leaves the slot to the prompt it cancels.
LEMMA StampedNotFree ==
    ASSUME NEW r \in RunType, Inflight(r)
    PROVE  StampSendNow(r) # Free /\ CancelRun(StampSendNow(r)) # Free
<1>1. r \in [rpc : Rpc, phase : {"active"}, stop : {None}, sendNow : BOOLEAN]
  BY DEF RunType, Free, Inflight
<1>2. StampSendNow(r).phase = "active"
  BY <1>1 DEF StampSendNow
<1>3. CancelRun(StampSendNow(r)).phase # "free"
  BY <1>2 DEF CancelRun, SettleRun, Stopped, Inflight
<1> QED
  BY <1>2, <1>3 DEF Free

LEMMA EnqueueServes ==
    ASSUME QueueInv, NEW r \in Rpc,
           EnqueueSendNow(r) \/ EnqueueSteer(r) \/ EnqueueRow(r)
    PROVE  QueueServed'
<1> USE DEF QueueInv, TypeOK
<1>1. /\ r \in preparations /\ outcome[r] # "new"
      /\ IsLive /\ UNCHANGED <<pid, held, live, disposal>>
      /\ preparations' \subseteq preparations
      /\ \A x \in Rpc : slot'[x] # "none" => x = r \/ slot[x] # "none"
  <2>1. Prepared(r) /\ slot' = [slot EXCEPT ![r] = "released"]
    BY DEF EnqueueSendNow, EnqueueSteer, EnqueueRow, Prepared, Retire
  <2>2. IsLive
    BY <2>1, PromptQueueAssumption DEF Prepared, Refusal
  <2>3. outcome[r] # "new"
    BY <2>1 DEF Prepared, QueueServed, RowsKnown
  <2> QED
    BY <2>1, <2>2, <2>3 DEF Prepared, host
<1>2. CASE EnqueueSendNow(r)
  <2>1. run' # Free
    BY <1>2, StampedNotFree DEF EnqueueSendNow
  <2>2. \A x \in Rpc : outcome[x] # "new" => outcome'[x] # "new"
    BY <1>2 DEF EnqueueSendNow, SettleRpcs
  <2>3. ToSet(queue') \subseteq ToSet(queue) \cup {r}
    BY <1>2 DEF EnqueueSendNow, ToSet
  <2>4. RowsKnown'
    BY <1>1, <2>2, <2>3, KnownRows DEF KnownStep, QueueServed
  <2> QED
    BY <1>1, <2>1, <2>4 DEF QueueServed, NotStranded, IsLive
<1>3. CASE EnqueueSteer(r)
  <2>1. \A x \in Rpc : outcome[x] # "new" => outcome'[x] # "new"
    BY <1>3, SMTT(30) DEF EnqueueSteer, SettleRpcs
  <2>2. UNCHANGED <<queue, run, promo>>
    BY <1>3 DEF EnqueueSteer
  <2>3. KnownStep
    BY <1>1, <2>1, <2>2 DEF KnownStep
  <2> QED
    BY <1>1, <2>2, <2>3, QuietServes DEF IsLive
<1>4. CASE EnqueueRow(r)
  <2>1. /\ Append(queue, r) \in Seq(Rpc)
        /\ ToSet(Append(queue, r)) \subseteq ToSet(queue) \cup {r}
    BY AppendElements
  <2>2. LeavesRows(Append(queue, r), outcome) /\ Served(held)
    BY <1>4, <2>1, PromoteServes DEF EnqueueRow
  <2>3. KnownStep
    BY <1>1, <2>1, <2>2 DEF KnownStep, LeavesRows
  <2> QED
    BY <1>1, <2>2, <2>3, KnownRows DEF QueueServed, NotStranded, Served, IsLive
<1> QED
  BY <1>2, <1>3, <1>4

LEMMA RowsWithout ==
    ASSUME TypeOK, NEW id, NEW i \in RowsWith(id)
    PROVE  /\ RemoveAt(queue, i) \in Seq(Rpc)
           /\ ToSet(RemoveAt(queue, i)) \subseteq ToSet(queue)
           /\ <<queue[i]>> \o RemoveAt(queue, i) \in Seq(Rpc)
           /\ ToSet(<<queue[i]>> \o RemoveAt(queue, i)) \subseteq ToSet(queue)
<1>1. i \in DOMAIN queue /\ queue \in Seq(Rpc) /\ queue[i] \in ToSet(queue)
  BY DEF RowsWith, TypeOK, ToSet
<1>2. /\ RemoveAt(queue, i) \in Seq(Rpc)
      /\ ToSet(RemoveAt(queue, i)) \subseteq ToSet(queue)
  BY <1>1, RemoveAtType, RemoveAtElements
<1>3. queue[i] \in Rpc
  BY <1>1
<1> QED
  BY <1>1, <1>2, <1>3, PrependElements

\* A control that promotes these rows.
LEMMA PromotingControl ==
    ASSUME QueueInv, Control, NEW rows \in Seq(Rpc), NEW r \in RunType,
           NEW out \in [Rpc -> Outcomes], Promote(rows, held', r, out),
           ToSet(rows) \subseteq ToSet(queue),
           \A x \in Rpc : outcome[x] # "new" => out[x] # "new"
    PROVE  QueueServed'
<1>1. LeavesRows(rows, out) /\ Served(held')
  BY PromoteServes DEF QueueInv
<1> QED
  BY <1>1, ControlServes DEF Control, admission, host

LEMMA RowControlServes ==
    ASSUME QueueInv, NEW id \in Ids, RowControl(id) \/ CancelPromptQueued(id)
    PROVE  QueueServed'
<1>1. TypeOK /\ queue \in Seq(Rpc) /\ outcome \in [Rpc -> Outcomes] /\ run \in RunType
  BY DEF QueueInv, TypeOK
<1>2. ASSUME Control, Promote(queue, held', run, outcome)
      PROVE  QueueServed'
  BY <1>1, <1>2, PromotingControl
<1>3. ASSUME Control, NEW i \in RowsWith(id),
             Promote(RemoveAt(queue, i), held', run,
                     SettleRpcs(outcome, {queue[i]}, "cancelled"))
      PROVE  QueueServed'
  <2>1. /\ RemoveAt(queue, i) \in Seq(Rpc)
        /\ ToSet(RemoveAt(queue, i)) \subseteq ToSet(queue)
    BY <1>1, RowsWithout
  <2> DEFINE out == SettleRpcs(outcome, {queue[i]}, "cancelled")
  <2>2. out \in [Rpc -> Outcomes]
    BY <1>1, SettleType DEF Outcomes
  <2>3. \A x \in Rpc : outcome[x] # "new" => out[x] # "new"
    BY <1>1 DEF SettleRpcs
  <2> HIDE DEF out
  <2>4. Promote(RemoveAt(queue, i), held', run, out)
    BY <1>3 DEF out
  <2> QED
    BY <1>1, <1>3, <2>1, <2>2, <2>3, <2>4, PromotingControl
\* Controls that leave the rows, or that run while a turn does.
<1>4. ASSUME Control, UNCHANGED promo, run' # Free,
             ToSet(queue') \subseteq ToSet(queue),
             \A x \in Rpc : outcome[x] # "new" => outcome'[x] # "new"
      PROVE  QueueServed'
  <2>1. KnownStep
    BY <1>4 DEF KnownStep, Control, admission
  <2> QED
    BY <1>4, <2>1, KnownRows
       DEF QueueInv, QueueServed, NotStranded, Control, IsLive, host
<1>5. CASE ResyncRow(id) \/ EditRow(id)
  BY <1>2, <1>5 DEF ResyncRow, EditRow
<1>6. CASE Interject(id)
  <2>1. PICK i \in RowsWith(id) :
        LET rows == <<queue[i]>> \o RemoveAt(queue, i) IN
        \/ /\ ~Inflight(run)
           /\ Promote(rows, held', run, outcome)
        \/ /\ Inflight(run)
           /\ queue' = rows
           /\ run' \in {CancelRun(StampSendNow(run)), StampSendNow(run)}
           /\ UNCHANGED <<outcome, promo>>
    BY <1>6 DEF Interject
  <2> DEFINE rows == <<queue[i]>> \o RemoveAt(queue, i)
  <2>2. rows \in Seq(Rpc) /\ ToSet(rows) \subseteq ToSet(queue)
    BY <1>1, RowsWithout
  <2>3. Control
    BY <1>6 DEF Interject
  <2> HIDE DEF rows
  <2>4. CASE Promote(rows, held', run, outcome)
    BY <1>1, <2>2, <2>3, <2>4, PromotingControl
  <2>5. CASE /\ Inflight(run)
             /\ queue' = rows
             /\ run' \in {CancelRun(StampSendNow(run)), StampSendNow(run)}
             /\ UNCHANGED <<outcome, promo>>
    BY <1>1, <1>4, <2>2, <2>3, <2>5, StampedNotFree
  <2> QED
    BY <2>1, <2>4, <2>5 DEF rows
<1>7. CASE SteerRow(id)
  <2>1. CASE Promote(queue, held, run, outcome) /\ UNCHANGED held
    BY <1>2, <1>7, <2>1 DEF SteerRow
  <2>2. CASE \E i \in RowsWith(id) :
                /\ Inflight(run)
                /\ queue' \in {RemoveAt(queue, i), queue}
                /\ \/ UNCHANGED outcome
                   \/ outcome' = SettleRpcs(outcome, {queue[i]}, "rejected")
                /\ UNCHANGED <<run, promo>>
    <3>1. run' # Free
      BY <2>2 DEF Inflight, Free
    <3>2. ToSet(queue') \subseteq ToSet(queue)
      BY <1>1, <2>2, RowsWithout
    <3>3. \A x \in Rpc : outcome[x] # "new" => outcome'[x] # "new"
      BY <2>2 DEF SettleRpcs
    <3> QED
      BY <1>4, <1>7, <2>2, <3>1, <3>2, <3>3 DEF SteerRow
  <2> QED
    BY <1>7, <2>1, <2>2 DEF SteerRow
<1>8. CASE RemoveRow(id)
  BY <1>3, <1>8 DEF RemoveRow
<1>9. CASE RemoveRunning(id)
  <2>1. CASE Promote(queue, held', CancelRun(run), outcome)
    <3>1. CancelRun(run) \in RunType
      BY <1>1, RunTypes
    <3> QED
      BY <1>1, <1>9, <2>1, <3>1, PromotingControl DEF RemoveRunning
  <2>2. CASE Stay(queue, run, outcome) /\ UNCHANGED <<held, promo>>
    <3>1. KnownStep
      BY <1>9, <2>2 DEF RemoveRunning, Control, Stay, KnownStep, admission
    <3> QED
      BY <1>9, <2>2, <3>1, QuietServes
         DEF RemoveRunning, Control, Stay, IsLive, host
  <2> QED
    BY <1>9, <2>1, <2>2 DEF RemoveRunning
<1>10. CASE RemoveUnknown(id)
  BY <1>2, <1>10 DEF RemoveUnknown
<1>11. CASE HoldEdit(id)
  <2>1. KnownStep
    BY <1>11 DEF HoldEdit, Control, KnownStep, admission
  <2> QED
    BY <1>11, <2>1, KnownRows
       DEF HoldEdit, Control, QueueInv, QueueServed, NotStranded, IsLive, host
<1>12. CASE ReleaseEdit(id)
  BY <1>2, <1>12 DEF ReleaseEdit
<1>13. CASE CancelPromptQueued(id)
  BY <1>3, <1>13 DEF CancelPromptQueued
<1> QED
  BY <1>5, <1>6, <1>7, <1>8, <1>9, <1>10, <1>11, <1>12, <1>13 DEF RowControl

LEMMA ReorderServes ==
    ASSUME QueueInv, Reorder
    PROVE  QueueServed'
<1>1. PICK p \in Bijection(DOMAIN queue, DOMAIN queue) :
        Promote([i \in DOMAIN queue |-> queue[p[i]]], held, run, outcome)
  BY DEF Reorder
<1> DEFINE rows == [i \in DOMAIN queue |-> queue[p[i]]]
<1>2. p \in [DOMAIN queue -> DOMAIN queue]
  BY DEF Bijection, Injection, Surjection, IsInjective
<1>3. \A i \in DOMAIN queue : rows[i] \in Rpc /\ rows[i] \in ToSet(queue)
  BY <1>2 DEF QueueInv, TypeOK, ToSet
<1>4. DOMAIN queue = 1..Len(queue) /\ Len(queue) \in Nat
  BY DEF QueueInv, TypeOK
<1>5. rows \in Seq(Rpc) /\ ToSet(rows) \subseteq ToSet(queue)
  BY <1>3, <1>4 DEF ToSet
<1>6. Control /\ held' = held /\ Promote(rows, held', run, outcome)
  BY <1>1 DEF Reorder
<1>7. run \in RunType /\ outcome \in [Rpc -> Outcomes]
  BY DEF QueueInv, TypeOK
<1> HIDE DEF rows
<1> QED
  BY <1>5, <1>6, <1>7, PromotingControl

\* Without rows nothing can be stranded.
LEMMA EmptyServes ==
    ASSUME QueueInv, Discard, UNCHANGED <<pid, slot, preparations>>
    PROVE  QueueServed'
<1>1. queue' = <<>> /\ ToSet(queue') = {}
  BY DEF Discard, ToSet
<1>2. KnownStep
  BY <1>1 DEF Discard, KnownStep, SettleRpcs
<1> QED
  BY <1>1, <1>2, KnownRows DEF QueueInv, QueueServed, NotStranded

\* The running prompt keeps its slot until FinishRun.
LEMMA RunKeepsSlot ==
    ASSUME NEW r \in RunType
    PROVE  /\ \A stop : \A d \in BOOLEAN : SettleRun(r, stop, d) = Free => r = Free
           /\ CancelRun(r) = Free => r = Free
           /\ EndDrain(r) = Free => r = Free
           /\ EndDrain(CancelRun(r)) = Free => r = Free
<1>1. \A q : q.phase # "free" => q # Free
  BY DEF Free
<1>2. \A stop : \A d \in BOOLEAN : SettleRun(r, stop, d) = r
                      \/ SettleRun(r, stop, d).phase # "free"
  BY DEF SettleRun, Stopped
<1>3. \A q : EndDrain(q) = q \/ EndDrain(q).phase # "free"
  BY DEF EndDrain, Stopped
<1>4. CancelRun(r) = r \/ CancelRun(r).phase # "free"
  BY DEF CancelRun, SettleRun, Stopped
<1> QED
  BY <1>1, <1>2, <1>3, <1>4

LEMMA LifecycleServes ==
    ASSUME QueueInv,
           Clear \/ Cancel \/ Lifecycle \/ DisposalDone
             \/ \E id \in Ids : CancelPromptRunning(id)
    PROVE  QueueServed'
<1>1. CASE Clear
  BY <1>1, EmptyServes DEF Clear, Control, admission
<1>2. CASE Cancel \/ Suspend \/ Dispose
  BY <1>2, EmptyServes DEF Cancel, Suspend, Dispose, CancelAll
<1>3. CASE Resume \/ LoseAgent \/ DisposalDone
           \/ \E id \in Ids : CancelPromptRunning(id)
  <2>1. UNCHANGED <<pid, queue, held, promo, outcome, slot, preparations>>
    BY <1>3 DEF Resume, LoseAgent, DisposalDone, CancelPromptRunning, requests,
                admission, prompts
  <2>2. KnownStep
    BY <2>1 DEF KnownStep
  <2>3. run' = Free => run = Free
    BY <1>3, RunKeepsSlot DEF Resume, LoseAgent, DisposalDone,
                CancelPromptRunning, QueueInv, TypeOK
  <2>4. /\ IsLive' => IsLive \/ live = "suspended"
        /\ live' = "suspended" => live = "suspended"
    BY <1>3 DEF Resume, LoseAgent, DisposalDone, CancelPromptRunning, IsLive, host
  <2> QED
    BY <2>1, <2>2, <2>3, <2>4, QuietServes
<1> QED
  BY <1>1, <1>2, <1>3 DEF Lifecycle

LEMMA SettlementServes ==
    ASSUME QueueInv, FinishRun \/ PromotionFires
    PROVE  QueueServed'
<1>1. UNCHANGED <<pid, slot, preparations, held, live, disposal>>
  BY DEF FinishRun, PromotionFires, admission, host
<1>2. /\ TypeOK /\ queue \in Seq(Rpc) /\ run \in RunType /\ Free \in RunType
      /\ outcome \in [Rpc -> Outcomes]
  BY DEF QueueInv, TypeOK, RunType
<1>3. ASSUME NEW out, LeavesRows(queue, out), Served(held),
             \A x \in Rpc : outcome[x] # "new" => out[x] # "new"
      PROVE  QueueServed'
  <2>1. KnownStep
    BY <1>1, <1>3 DEF KnownStep, LeavesRows
  <2>2. live' = "suspended" => queue' = <<>>
    BY <1>1, <1>3 DEF QueueInv, QueueServed, LeavesRows
  <2> QED
    BY <1>1, <1>3, <2>1, <2>2, KnownRows
       DEF QueueInv, QueueServed, NotStranded, Served, IsLive
<1>4. CASE FinishRun
  <2> DEFINE ok(flushed) == flushed /\ run.stop # "failed"
             stop == IF run.stop = "failed" THEN "cancelled" ELSE run.stop
             end(flushed) == IF ok(flushed) THEN run.stop ELSE "rejected"
             outAt(flushed) == SettleRpcs(SettleRpcs(outcome, steered, stop),
                                          {run.rpc}, end(flushed))
  <2>1. PICK flushed \in MayThrow("flush") :
            \/ Promote(queue, held, Free, outAt(flushed))
            \/ queue = <<>> /\ Stay(queue, Free, outAt(flushed))
    BY <1>4 DEF FinishRun
  <2> DEFINE how == end(flushed)
             out == SettleRpcs(SettleRpcs(outcome, steered, stop), {run.rpc}, how)
  <2>2. run.stop \in {"completed", "cancelled", "failed"}
    BY <1>2, <1>4, RunFields DEF FinishRun
  <2>3. stop \in Outcomes \ {"new"} /\ how \in Outcomes \ {"new"}
    BY <2>2 DEF Outcomes
  <2>4. \/ Promote(queue, held, Free, out)
        \/ queue = <<>> /\ Stay(queue, Free, out)
    BY <2>1
  <2> HIDE DEF stop, how
  <2>5. out \in [Rpc -> Outcomes]
    BY <1>2, <2>3, SettleType
  <2>6. \A x \in Rpc : outcome[x] # "new" => out[x] # "new"
    BY <2>3 DEF SettleRpcs
  <2> HIDE DEF out
  <2>7. CASE Promote(queue, held, Free, out)
    BY <1>2, <1>3, <2>5, <2>6, <2>7, PromoteServes
  <2>8. CASE queue = <<>> /\ Stay(queue, Free, out)
    BY <1>3, <2>6, <2>8 DEF Stay, LeavesRows, Served
  <2> QED
    BY <2>4, <2>7, <2>8
<1>5. CASE PromotionFires
  <2>1. LeavesRows(queue, outcome) /\ Served(held)
    BY <1>2, <1>5, AdvanceServes DEF PromotionFires, Stay, LeavesRows, Served
  <2> QED
    BY <1>3, <2>1
<1> QED
  BY <1>4, <1>5

LEMMA AgentServes ==
    ASSUME QueueInv, AgentWorks \/ AgentIdleFails \/ AgentWakes,
           "idle" \notin Faults
    PROVE  QueueServed'
<1>1. UNCHANGED <<pid, queue, held, outcome, slot, preparations, live, disposal>>
  BY DEF AgentWorks, AgentClaims, AgentDiscards, AgentTurnEnds, AgentIdles,
         AgentQuiet, AgentIdleFails, AgentWakes, AgentOnly, requests, admission, host
<1>2. promo' = "none" => promo = "none"
  BY DEF AgentWorks, AgentClaims, AgentDiscards, AgentTurnEnds, AgentIdles,
         AgentQuiet, AgentIdleFails, AgentWakes
<1>3. run' = Free => run = Free
  <2> USE RunKeepsSlot DEF QueueInv, TypeOK
  <2>1. CASE AgentClaims \/ AgentDiscards \/ AgentWakes
    BY <2>1 DEF AgentClaims, AgentDiscards, AgentWakes
  <2>2. CASE \E reason \in {"completed", "cancelled", "failed"} : AgentTurnEnds(reason)
    <3>1. PICK reason \in {"completed", "cancelled", "failed"} : AgentTurnEnds(reason)
      BY <2>2
    <3>2. run' = run \/ run' = SettleRun(run, reason, reason = "cancelled")
      BY <3>1 DEF AgentTurnEnds
    <3>3. run' = run \/ run'.phase # "free"
      BY <3>2 DEF SettleRun, Stopped
    <3> QED
      BY <3>3 DEF Free
  <2>3. CASE AgentIdles
    BY <2>3 DEF AgentIdles
  <2>4. CASE AgentQuiet
    BY <2>4 DEF AgentQuiet
  <2>5. CASE AgentIdleFails
    BY <2>5 DEF AgentIdleFails
  <2> QED
    BY <2>1, <2>2, <2>3, <2>4, <2>5 DEF AgentWorks
<1> QED
  BY <1>1, <1>2, <1>3 DEF QueueInv, QueueServed, NotStranded, IsLive, RowsKnown

LEMMA NextServes ==
    ASSUME QueueInv, [Next]_vars, "idle" \notin Faults
    PROVE  QueueInv'
<1>1. TypeOK'
  BY NextType DEF QueueInv
<1>2. CASE \E r \in Rpc : SubmitRefused(r) \/ \E id \in Ids : Submit(r, id)
  BY <1>1, <1>2, SubmissionServes DEF QueueInv
<1>3. CASE \E r \in Rpc : Admit(r) \/ Prepare(r) \/ CancelPromptPreparing(r)
  BY <1>1, <1>3, AdmissionServes, EnqueueServes DEF QueueInv, Prepare
<1>4. CASE \E id \in Ids : RowControl(id) \/ CancelPromptQueued(id)
  BY <1>1, <1>4, RowControlServes DEF QueueInv
<1>5. CASE \/ Clear \/ Cancel \/ Lifecycle \/ DisposalDone
           \/ \E id \in Ids : CancelPromptRunning(id)
  BY <1>1, <1>5, LifecycleServes DEF QueueInv
<1>6. CASE Reorder
  BY <1>1, <1>6, ReorderServes DEF QueueInv
<1>7. CASE FinishRun \/ PromotionFires
  BY <1>1, <1>7, SettlementServes DEF QueueInv
<1>8. CASE AgentWorks \/ AgentIdleFails \/ AgentWakes
  BY <1>1, <1>8, AgentServes DEF QueueInv
<1>9. CASE UNCHANGED vars
  BY <1>1, <1>9
     DEF vars, QueueInv, QueueServed, NotStranded, IsLive, RowsKnown, requests,
         admission, prompts, host
<1> QED
  BY <1>2, <1>3, <1>4, <1>5, <1>6, <1>7, <1>8, <1>9 DEF Next

\* When waiting for an idle agent does not fail, no reachable state strands the
\* queue: rows behind a free slot are held by the client or about to be
\* promoted, for any number of prompts and ids, whatever else throws.
THEOREM QueueNeverStranded == ("idle" \notin Faults) => (Spec => []NotStranded)
<1> SUFFICES ASSUME "idle" \notin Faults PROVE Spec => []NotStranded
  OBVIOUS
<1>1. Init => QueueInv
  <2>1. Init => QueueServed
    BY DEF Init, QueueServed, NotStranded, RowsKnown, ToSet
  <2> QED
    BY <2>1, InitType DEF QueueInv
<1>2. QueueInv /\ [Next]_vars => QueueInv'
  BY NextServes
<1>3. QueueInv => NotStranded
  BY DEF QueueInv, QueueServed
<1> QED
  BY <1>1, <1>2, <1>3, PTL DEF Spec

-----------------------------------------------------------------------------
\* What a promotion hands to the agent.

\* The rows that are folded are the first ones behind the front, up to the
\* first that is held or holds an image.
LEMMA FoldedRows ==
    ASSUME NEW rows \in Seq(Rpc), rows # <<>>, NEW holds,
           NEW i \in 2..(Folded(rows, holds) + 1)
    PROVE  pid[rows[i]] \notin holds /\ rows[i] \notin Images
<1> DEFINE good(j) == pid[rows[j]] \notin holds /\ rows[j] \notin Images
           behind == {m \in 2..Len(rows) : \A j \in 2..m : good(j)}
<1>1. Folded(rows, holds) \in 0..(Len(rows) - 1) /\ Len(rows) \in Nat
  BY FoldedRange
<1>2. Folded(rows, holds) = Cardinality(behind)
  BY <1>1 DEF Folded
<1>3. i \in 2..Len(rows)
  BY <1>1
<1> SUFFICES ASSUME ~good(i) PROVE FALSE
  OBVIOUS
<1> HIDE DEF good
<1>4. behind \subseteq 2..(i - 1)
  <2> SUFFICES ASSUME NEW m \in 2..Len(rows), \A j \in 2..m : good(j)
               PROVE  m \in 2..(i - 1)
    OBVIOUS
  <2> QED
    BY <1>1, <1>3
<1> HIDE DEF behind
<1>5. IsFiniteSet(2..(i - 1)) /\ Cardinality(2..(i - 1)) = i - 2
  <2>1. 2 \in Int /\ i - 1 \in Int /\ i >= 2
    BY <1>1, <1>3
  <2>2. (IF 2 > i - 1 THEN 0 ELSE (i - 1) - 2 + 1) = i - 2
    BY <2>1
  <2> QED
    BY <2>1, <2>2, FS_Interval
<1>6. Cardinality(behind) <= i - 2
  BY <1>4, <1>5, FS_Subset
<1> QED
  BY <1>1, <1>2, <1>3, <1>6

LEMMA AdvanceHandsOver ==
    ASSUME TypeOK, NEW rows \in Seq(Rpc), NEW holds, NEW r, NEW out,
           Advance(rows, holds, r, out)
    PROVE  /\ \A x \in handed' \ handed : pid[x] \notin holds
           /\ (handed' \ handed) \cap Images # {} =>
                 \E x : handed' \ handed = {x}
<1>1. CASE MayAdvance(rows, holds, r)
  <2> DEFINE k == Folded(rows, holds)
             folded == {rows[i] : i \in 2..(k + 1)}
  <2>1. rows # <<>> /\ pid[rows[1]] \notin holds
    BY <1>1 DEF MayAdvance
  <2>2. \A x \in folded : pid[x] \notin holds /\ x \notin Images
    BY <2>1, FoldedRows
  <2>3. rows[1] \in Images => folded = {}
    BY DEF Folded
  <2>4. handed' \ handed \subseteq {rows[1]} \cup folded
    BY <1>1 DEF Advance, RunPrompt
  <2> HIDE DEF folded
  <2>5. (handed' \ handed) \cap Images # {} => handed' \ handed = {rows[1]}
    BY <2>2, <2>3, <2>4
  <2> QED
    BY <2>1, <2>2, <2>4, <2>5
<1>2. CASE ~MayAdvance(rows, holds, r)
  BY <1>2 DEF Advance, Stay
<1> QED
  BY <1>1, <1>2

\* A step that starts a prompt is a promotion under the holds that it leaves.
Promotes ==
    \E rows \in Seq(Rpc) : \E r, out : Advance(rows, held', r, out)

LEMMA PromotePromotes ==
    ASSUME NEW rows \in Seq(Rpc), NEW r, NEW out, Promote(rows, held', r, out)
    PROVE  Promotes \/ handed' = handed
BY DEF Promote, Promotes, Stay

LEMMA StartsPromote ==
    ASSUME TypeOK, [Next]_vars
    PROVE  Promotes \/ handed' = handed \/ run' = run
<1> DEFINE Goal == Promotes \/ handed' = handed \/ run' = run
<1>1. queue \in Seq(Rpc)
  BY DEF TypeOK
<1>2. ASSUME NEW r \in Rpc, SubmitRefused(r) \/ \E id \in Ids : Submit(r, id)
      PROVE  Goal
  BY <1>2 DEF SubmitRefused, Submit
<1>3. ASSUME NEW r \in Rpc, Admit(r) \/ Prepare(r) \/ CancelPromptPreparing(r)
      PROVE  Goal
  <2>1. CASE EnqueueRow(r)
    <3>1. Append(queue, r) \in Seq(Rpc)
      BY <1>1
    <3>2. Promote(Append(queue, r), held', run, outcome)
      BY <2>1 DEF EnqueueRow, Prepared
    <3> QED
      BY <3>1, <3>2, PromotePromotes
  <2>2. CASE ~EnqueueRow(r)
    BY <1>3, <2>2 DEF Admit, Prepare, PassRetired, RefuseTurn, StartPreparation,
         LatePreparation, PreparationFails, RefuseAdmission, EnqueueSendNow,
         EnqueueSteer, CancelPromptPreparing, wire
  <2> QED
    BY <2>1, <2>2
<1>4. ASSUME NEW id \in Ids, RowControl(id) \/ CancelPromptQueued(id)
      PROVE  Goal
  <2>1. ASSUME NEW r, NEW out, Promote(queue, held', r, out) PROVE Goal
    BY <1>1, <2>1, PromotePromotes
  <2>2. ASSUME NEW i \in RowsWith(id), NEW out,
               Promote(RemoveAt(queue, i), held', run, out)
        PROVE  Goal
    BY <2>2, RowsWithout, PromotePromotes
  <2>3. ASSUME NEW i \in RowsWith(id),
               Promote(<<queue[i]>> \o RemoveAt(queue, i), held', run, outcome)
        PROVE  Goal
    BY <2>3, RowsWithout, PromotePromotes
  <2>4. CASE ResyncRow(id) \/ EditRow(id) \/ RemoveUnknown(id) \/ ReleaseEdit(id)
    BY <2>1, <2>4 DEF ResyncRow, EditRow, RemoveUnknown, ReleaseEdit
  <2>5. CASE Interject(id)
    BY <2>3, <2>5 DEF Interject
  <2>6. CASE SteerRow(id)
    BY <2>1, <2>6 DEF SteerRow
  <2>7. CASE RemoveRow(id) \/ CancelPromptQueued(id)
    BY <2>2, <2>7 DEF RemoveRow, CancelPromptQueued
  <2>8. CASE RemoveRunning(id)
    BY <2>1, <2>8 DEF RemoveRunning, Stay
  <2>9. CASE HoldEdit(id)
    BY <2>9 DEF HoldEdit
  <2> QED
    BY <1>4, <2>4, <2>5, <2>6, <2>7, <2>8, <2>9 DEF RowControl
<1>5. CASE \/ Clear \/ Cancel \/ Lifecycle \/ DisposalDone
           \/ \E id \in Ids : CancelPromptRunning(id)
  BY <1>5 DEF Clear, Cancel, Lifecycle, Suspend, Resume, LoseAgent, Dispose,
              DisposalDone, CancelPromptRunning, CancelAll, wire
<1>6. CASE Reorder
  <2>1. PICK p \in Bijection(DOMAIN queue, DOMAIN queue) :
          Promote([i \in DOMAIN queue |-> queue[p[i]]], held', run, outcome)
    BY <1>6 DEF Reorder
  <2>2. [i \in DOMAIN queue |-> queue[p[i]]] \in Seq(Rpc)
    <3>1. p \in [DOMAIN queue -> DOMAIN queue]
      BY DEF Bijection, Injection, Surjection, IsInjective
    <3>2. \A i \in DOMAIN queue : queue[p[i]] \in Rpc
      BY <1>1, <3>1
    <3>3. DOMAIN queue = 1..Len(queue) /\ Len(queue) \in Nat
      BY <1>1
    <3> QED
      BY <3>2, <3>3
  <2> QED
    BY <2>1, <2>2, PromotePromotes
<1>7. CASE FinishRun
  <2>1. handed' = handed \/ \E out : Promote(queue, held', Free, out)
    BY <1>7 DEF FinishRun, Stay
  <2> QED
    BY <1>1, <2>1, PromotePromotes
<1>8. CASE PromotionFires
  BY <1>1, <1>8 DEF PromotionFires, Promotes, Stay
<1>9. CASE AgentWorks \/ AgentIdleFails \/ AgentWakes
  BY <1>9 DEF AgentWorks, AgentClaims, AgentDiscards, AgentTurnEnds, AgentIdles,
              AgentQuiet, AgentIdleFails, AgentWakes, AgentOnly, wire
<1>10. CASE UNCHANGED vars
  BY <1>10 DEF vars
<1> QED
  BY <1>2, <1>3, <1>4, <1>5, <1>6, <1>7, <1>8, <1>9, <1>10 DEF Next

\* A row the client is editing parks at its place: no promotion starts it or
\* folds it into the prompt it starts, for any number of rows and whatever
\* the order of holds, controls and faults.
THEOREM HeldRowsStay == Spec => HeldRowsPark
<1>1. TypeOK /\ [Next]_vars =>
        [Started => \A r \in handed' \ handed : pid[r] \notin held']_vars
  <2> SUFFICES ASSUME TypeOK, [Next]_vars, Started,
                      NEW r \in handed' \ handed
               PROVE  pid[r] \notin held'
    OBVIOUS
  <2>1. run' # run
    BY DEF Started
  <2>2. Promotes
    BY <2>1, StartsPromote
  <2> QED
    BY <2>2, AdvanceHandsOver DEF Promotes
<1> QED
  BY <1>1, TypeCorrect, PTL DEF Spec, HeldRowsPark

\* Content with an image is the whole of the prompt that it runs in.
THEOREM ImagesStayAlone == Spec => ImagesRunAlone
<1>1. TypeOK /\ [Next]_vars =>
        [Started /\ (handed' \ handed) \cap Images # {}
           => Cardinality(handed' \ handed) = 1]_vars
  <2> SUFFICES ASSUME TypeOK, [Next]_vars, Started,
                      (handed' \ handed) \cap Images # {}
               PROVE  Cardinality(handed' \ handed) = 1
    OBVIOUS
  <2>1. Promotes
    BY StartsPromote DEF Started
  <2>2. PICK x : handed' \ handed = {x}
    BY <2>1, AdvanceHandsOver DEF Promotes
  <2> QED
    BY <2>2, FS_Singleton
<1> QED
  BY <1>1, TypeCorrect, PTL DEF Spec, ImagesRunAlone

\* Whatever the promotion starts, no row under an edit hold is in it, and an
\* image is alone.
THEOREM OnlyFreeRowsStart == Spec => StartsWhatIsFree
  BY HeldRowsStay, ImagesStayAlone DEF StartsWhatIsFree

-----------------------------------------------------------------------------
\* Who owns a request.

\* The request that owns a running slot.
SlotOf(r) == IF r = Free THEN {} ELSE {r.rpc}

\* The four places of a request share none, and no row is queued twice.
Apart ==
    /\ IsInjective(queue)
    /\ Preparing \cap (ToSet(queue) \cup steered \cup SlotOf(run)) = {}
    /\ ToSet(queue) \cap (steered \cup SlotOf(run)) = {}
    /\ steered \cap SlotOf(run) = {}

\* A request to come has left no trace.
Fresh ==
    /\ \A r \in Rpc : outcome[r] = "new" =>
         r \notin Active /\ r \notin retired /\ slot[r] = "none"
    /\ \A r \in preparations : slot[r] # "none"

\* No call that is made for a queued or steered row throws.
QuietRows == Faults \cap {"cancel", "steer"} = {}

Owned ==
    /\ Apart
    /\ Fresh
    /\ \A r \in Rpc : outcome[r] = "pending" => r \in Active
    /\ UniqueIds
    /\ QuietRows => OwnedArePending

OwnInv == TypeOK /\ Owned

\* out is what before becomes when some of its open requests are answered.
Later(before, out) ==
    \A r \in Rpc :
        \/ out[r] = before[r]
        \/ before[r] = "pending" /\ out[r] \in {"cancelled", "completed", "rejected"}

\* A step that moves requests between the places, and answers the ones that
\* leave them.
Moves ==
    /\ pid' = pid
    /\ Apart'
    /\ Active' \subseteq Active
    /\ \A r \in Rpc : slot'[r] = "none" <=> slot[r] = "none"
    /\ retired' \subseteq retired \cup {r \in Rpc : slot[r] # "none"}
    /\ preparations' \subseteq preparations \cup {r \in Rpc : slot[r] # "none"}
    /\ Later(outcome, outcome')
    /\ \A r \in Active \ Active' : outcome'[r] # "pending"
    /\ QuietRows => \A r \in Active' : outcome'[r] = outcome[r]

LEMMA MovesKeep ==
    ASSUME OwnInv, Moves
    PROVE  Owned'
<1>1. Apart'
  BY DEF Moves
<1>2. \A r \in Rpc : outcome'[r] = "new" => outcome[r] = "new"
  BY DEF Moves, Later
<1>3. Fresh'
  <2>1. \A r \in Rpc : outcome'[r] = "new" =>
          r \notin Active' /\ r \notin retired' /\ slot'[r] = "none"
    BY <1>2 DEF OwnInv, Owned, Fresh, Moves
  <2>2. \A r \in preparations' : slot'[r] # "none"
    BY DEF OwnInv, Owned, Fresh, Moves, TypeOK
  <2> QED
    BY <2>1, <2>2 DEF Fresh
<1>4. \A r \in Rpc : outcome'[r] = "pending" => r \in Active'
  BY DEF OwnInv, Owned, Moves, Later
<1>5. UniqueIds'
  BY DEF OwnInv, Owned, Moves, UniqueIds
<1>6. QuietRows => OwnedArePending'
  BY DEF OwnInv, Owned, Moves, OwnedArePending
<1> QED
  BY <1>1, <1>3, <1>4, <1>5, <1>6 DEF Owned, QuietRows

LEMMA SettleLater ==
    ASSUME NEW out, NEW T, NEW how \in {"cancelled", "completed", "rejected"}
    PROVE  /\ Later(out, SettleRpcs(out, T, how))
           /\ \A r \in Rpc \cap T : SettleRpcs(out, T, how)[r] # "pending"
           /\ \A r \in Rpc \ T : SettleRpcs(out, T, how)[r] = out[r]
BY DEF SettleRpcs, Later

LEMMA LaterTransitive ==
    ASSUME NEW a, NEW b, NEW c, Later(a, b), Later(b, c)
    PROVE  Later(a, c)
BY DEF Later

-----------------------------------------------------------------------------
\* Rows that are dropped, put first, added and taken.

LEMMA RemoveAtDistinct ==
    ASSUME NEW S, NEW s \in Seq(S), NEW i \in DOMAIN s, IsInjective(s)
    PROVE  /\ IsInjective(RemoveAt(s, i))
           /\ ToSet(RemoveAt(s, i)) = ToSet(s) \ {s[i]}
<1> DEFINE t == RemoveAt(s, i)
<1>1. Len(s) \in Nat /\ i \in 1..Len(s) /\ DOMAIN s = 1..Len(s)
  OBVIOUS
<1>2. /\ t = SubSeq(s, 1, i - 1) \o SubSeq(s, i + 1, Len(s))
      /\ SubSeq(s, 1, i - 1) \in Seq(S) /\ SubSeq(s, i + 1, Len(s)) \in Seq(S)
      /\ Len(SubSeq(s, 1, i - 1)) = i - 1
      /\ Len(SubSeq(s, i + 1, Len(s))) = Len(s) - i
  BY <1>1 DEF RemoveAt
<1>3. DOMAIN t = 1..(Len(s) - 1)
  BY <1>1, <1>2, ConcatProperties
<1>4. \A k \in 1..(Len(s) - 1) : t[k] = IF k < i THEN s[k] ELSE s[k + 1]
  <2> SUFFICES ASSUME NEW k \in 1..(Len(s) - 1)
               PROVE  t[k] = IF k < i THEN s[k] ELSE s[k + 1]
    OBVIOUS
  <2>1. CASE k < i
    <3>1. t[k] = SubSeq(s, 1, i - 1)[k]
      BY <1>1, <1>2, <2>1, ConcatProperties
    <3> QED
      BY <1>1, <2>1, <3>1
  <2>2. CASE ~(k < i)
    <3>1. t[k] = SubSeq(s, i + 1, Len(s))[k - Len(SubSeq(s, 1, i - 1))]
      <4> DEFINE front == SubSeq(s, 1, i - 1)
                 back == SubSeq(s, i + 1, Len(s))
      <4>1. /\ front \in Seq(S) /\ back \in Seq(S) /\ Len(front) = i - 1
            /\ Len(back) = Len(s) - i /\ t = front \o back
        BY <1>2
      <4> HIDE DEF front, back, t
      <4>2. k \in 1..(Len(front) + Len(back)) /\ ~(k <= Len(front))
        BY <1>1, <2>2, <4>1
      <4>3. (front \o back)[k] = IF k <= Len(front) THEN front[k] ELSE back[k - Len(front)]
        BY <4>1, <4>2, ConcatProperties
      <4>4. t[k] = back[k - Len(front)]
        BY <4>1, <4>2, <4>3
      <4> QED
        BY <4>4 DEF front, back
    <3> QED
      BY <1>1, <2>2, <3>1
  <2> QED
    BY <2>1, <2>2
<1> HIDE DEF t
<1>5. IsInjective(t)
  <2> SUFFICES ASSUME NEW a \in 1..(Len(s) - 1), NEW b \in 1..(Len(s) - 1), t[a] = t[b]
               PROVE  a = b
    BY <1>3 DEF IsInjective
  <2> DEFINE at(k) == IF k < i THEN k ELSE k + 1
  <2>1. at(a) \in DOMAIN s /\ at(b) \in DOMAIN s /\ s[at(a)] = s[at(b)]
    BY <1>1, <1>4
  <2>2. at(a) = at(b)
    BY <2>1 DEF IsInjective
  <2> QED
    BY <1>1, <2>2
<1>6. ToSet(t) \subseteq ToSet(s) \ {s[i]}
  BY <1>1, <1>3, <1>4 DEF IsInjective, ToSet
<1>7. ASSUME NEW k \in DOMAIN s, k # i PROVE s[k] \in ToSet(t)
  <2>1. CASE k < i
    BY <1>1, <1>3, <1>4, <2>1 DEF ToSet
  <2>2. CASE k > i
    <3>1. k - 1 \in 1..(Len(s) - 1) /\ t[k - 1] = s[k]
      BY <1>1, <1>4, <2>2
    <3> QED
      BY <1>3, <3>1 DEF ToSet
  <2> QED
    BY <1>1, <1>7, <2>1, <2>2
<1>8. ToSet(s) \ {s[i]} \subseteq ToSet(t)
  BY <1>7 DEF ToSet
<1> QED
  BY <1>5, <1>6, <1>8 DEF t

LEMMA AppendDistinct ==
    ASSUME NEW S, NEW s \in Seq(S), NEW x \in S, IsInjective(s), x \notin ToSet(s)
    PROVE  /\ IsInjective(Append(s, x))
           /\ ToSet(Append(s, x)) = ToSet(s) \cup {x}
<1>1. /\ Len(s) \in Nat /\ DOMAIN s = 1..Len(s)
      /\ DOMAIN Append(s, x) = 1..(Len(s) + 1)
      /\ \A k \in 1..Len(s) : Append(s, x)[k] = s[k]
      /\ Append(s, x)[Len(s) + 1] = x
  OBVIOUS
<1> QED
  BY <1>1 DEF IsInjective, ToSet

LEMMA PrependDistinct ==
    ASSUME NEW S, NEW s \in Seq(S), NEW x \in S, IsInjective(s), x \notin ToSet(s)
    PROVE  /\ IsInjective(<<x>> \o s)
           /\ ToSet(<<x>> \o s) = ToSet(s) \cup {x}
<1> DEFINE t == <<x>> \o s
<1>1. <<x>> \in Seq(S) /\ Len(<<x>>) = 1
  OBVIOUS
<1>2. Len(s) \in Nat /\ DOMAIN s = 1..Len(s) /\ DOMAIN t = 1..(Len(s) + 1)
  BY <1>1, ConcatProperties
<1>3. t[1] = x /\ \A k \in 2..(Len(s) + 1) : t[k] = s[k - 1]
  BY <1>1, <1>2, ConcatProperties
<1>4. \A k \in 1..Len(s) : t[k + 1] = s[k]
  BY <1>2, <1>3
<1> HIDE DEF t
<1>5. IsInjective(t)
  BY <1>2, <1>3 DEF IsInjective, ToSet
<1>6. ToSet(t) \subseteq ToSet(s) \cup {x}
  BY <1>2, <1>3 DEF ToSet
<1>7. ToSet(s) \cup {x} \subseteq ToSet(t)
  BY <1>2, <1>3, <1>4 DEF ToSet
<1> QED
  BY <1>5, <1>6, <1>7 DEF t

\* The front, the rows that are folded into it and the rows that stay.
LEMMA SplitDistinct ==
    ASSUME NEW S, NEW s \in Seq(S), s # <<>>, IsInjective(s),
           NEW k \in 0..(Len(s) - 1)
    PROVE  /\ IsInjective(SubSeq(s, k + 2, Len(s)))
           /\ ToSet(SubSeq(s, k + 2, Len(s))) \cap {s[i] : i \in 1..(k + 1)} = {}
           /\ ToSet(s) = ToSet(SubSeq(s, k + 2, Len(s))) \cup {s[i] : i \in 1..(k + 1)}
<1> DEFINE t == SubSeq(s, k + 2, Len(s))
<1>1. /\ Len(s) \in Nat /\ DOMAIN s = 1..Len(s)
      /\ DOMAIN t = 1..(Len(s) - (k + 1))
      /\ \A j \in 1..(Len(s) - (k + 1)) : t[j] = s[j + k + 1]
  OBVIOUS
<1> HIDE DEF t
<1>2. IsInjective(t)
  BY <1>1 DEF IsInjective
<1>3. ToSet(t) \cap {s[i] : i \in 1..(k + 1)} = {}
  BY <1>1 DEF IsInjective, ToSet
<1>4. \A i \in (k + 2)..Len(s) : s[i] \in ToSet(t)
  <2> TAKE i \in (k + 2)..Len(s)
  <2>1. i - (k + 1) \in DOMAIN t /\ t[i - (k + 1)] = s[i]
    BY <1>1
  <2> QED
    BY <2>1 DEF ToSet
<1>5. ToSet(s) \subseteq ToSet(t) \cup {s[i] : i \in 1..(k + 1)}
  <2> SUFFICES ASSUME NEW i \in DOMAIN s
               PROVE  s[i] \in ToSet(t) \cup {s[j] : j \in 1..(k + 1)}
    BY DEF ToSet
  <2> QED
    BY <1>1, <1>4
<1>6. ToSet(t) \cup {s[i] : i \in 1..(k + 1)} \subseteq ToSet(s)
  <2>1. \A j \in DOMAIN t : t[j] \in ToSet(s)
    BY <1>1 DEF ToSet
  <2>2. \A i \in 1..(k + 1) : i \in DOMAIN s
    BY <1>1
  <2> QED
    BY <2>1, <2>2 DEF ToSet
<1> QED
  BY <1>2, <1>3, <1>5, <1>6 DEF t

-----------------------------------------------------------------------------
\* What a promotion does to the owners: the rows and the slot that it is given
\* stay, move to the slot, or are answered.
Handed(rows, r, out) ==
    LET given == ToSet(rows) \cup SlotOf(r)
        left == ToSet(queue') \cup SlotOf(run') IN
    /\ IsInjective(queue')
    /\ ToSet(queue') \cap SlotOf(run') = {}
    /\ left \subseteq given
    /\ Later(out, outcome')
    /\ \A x \in given \ left : outcome'[x] # "pending"
    /\ \A x \in Rpc \ (given \ left) : outcome'[x] = out[x]

LEMMA SlotFacts ==
    ASSUME NEW r \in RunType
    PROVE  /\ SlotOf(r) \subseteq Rpc /\ SlotOf(r) \subseteq {r.rpc}
           /\ SlotOf(Free) = {}
           /\ Inflight(r) => SlotOf(r) = {r.rpc}
           /\ r.rpc \in Rpc => SlotOf(r) = {r.rpc}
           /\ r.phase # "free" => SlotOf(r) = {r.rpc}
  <1>1. r # Free => r.rpc \in Rpc
    BY RunFields
  <1>2. r = Free => r.rpc = None /\ r.phase = "free"
    BY DEF Free
  <1> QED BY <1>1, <1>2, PromptQueueAssumption DEF SlotOf, Inflight

LEMMA AdvanceHands ==
    ASSUME TypeOK, NEW rows \in Seq(Rpc), IsInjective(rows), NEW holds,
           NEW r \in RunType, ToSet(rows) \cap SlotOf(r) = {},
           NEW out, Advance(rows, holds, r, out)
    PROVE  Handed(rows, r, out)
  <1>1. CASE MayAdvance(rows, holds, r)
    <2> DEFINE k == Folded(rows, holds)
               folded == {rows[i] : i \in 2..(k + 1)}
               taken == {rows[i] : i \in 1..(k + 1)}
    <2>1. r = Free /\ rows # <<>> /\ Len(rows) \in Nat /\ Len(rows) >= 1
      BY <1>1 DEF MayAdvance
    <2>2. k \in 0..(Len(rows) - 1)
      BY <2>1, FoldedRange
    <2>3. /\ queue' = SubSeq(rows, k + 2, Len(rows))
          /\ outcome' = SettleRpcs(out, folded, "cancelled")
          /\ RunPrompt(rows[1], folded)
      BY <1>1 DEF Advance
    <2>4. taken = {rows[1]} \cup folded /\ rows[1] \notin folded /\ taken \subseteq Rpc
      BY <2>1, <2>2 DEF IsInjective
    <2> HIDE DEF k
    <2>5. /\ IsInjective(queue')
          /\ ToSet(queue') \cap taken = {}
          /\ ToSet(rows) = ToSet(queue') \cup taken
      BY <2>1, <2>2, <2>3, SplitDistinct
    <2> HIDE DEF folded, taken
    <2>6. SlotOf(run') = {rows[1]}
      BY <2>3 DEF RunPrompt, SlotOf, Free
    <2>7. SlotOf(r) = {}
      BY <2>1 DEF SlotOf
    <2>8. (ToSet(rows) \cup SlotOf(r)) \ (ToSet(queue') \cup SlotOf(run')) = folded
      BY <2>4, <2>5, <2>6, <2>7
    <2> QED
      BY <2>3, <2>4, <2>5, <2>6, <2>7, <2>8, SettleLater DEF Handed
  <1>2. CASE ~MayAdvance(rows, holds, r)
    BY <1>2 DEF Advance, Stay, Handed, Later
  <1> QED BY <1>1, <1>2

LEMMA PromoteHands ==
    ASSUME TypeOK, NEW rows \in Seq(Rpc), IsInjective(rows), NEW holds,
           NEW r \in RunType, ToSet(rows) \cap SlotOf(r) = {},
           NEW out, Promote(rows, holds, r, out)
    PROVE  Handed(rows, r, out)
  <1>1. CASE Advance(rows, holds, r, out)
    BY <1>1, AdvanceHands
  <1>2. CASE Stay(rows, r, out)
    BY <1>2 DEF Stay, Handed, Later
  <1> QED BY <1>1, <1>2 DEF Promote

-----------------------------------------------------------------------------
\* Where the rows and the slot of a handler that promotes come from.
Gathered(rows, r, out) ==
    LET given == ToSet(rows) \cup SlotOf(r) 
        before == ToSet(queue) \cup SlotOf(run) IN
    /\ rows \in Seq(Rpc) /\ IsInjective(rows) /\ r \in RunType
    /\ ToSet(rows) \cap SlotOf(r) = {}
    /\ given \subseteq before
    /\ Later(outcome, out)
    /\ \A x \in before \ given : out[x] # "pending"
    /\ \A x \in Rpc \ (before \ given) : out[x] = outcome[x]

ActiveParts == Active = Preparing \cup ToSet(queue) \cup steered \cup SlotOf(run)

LEMMA PartsOfActive == ActiveParts /\ ActiveParts'
  BY DEF ActiveParts, Active, SlotOf

\* A handler that promotes the rows and leaves the other places alone.
LEMMA PromotionOwns ==
    ASSUME OwnInv, UNCHANGED <<pid, slot, retired, preparations, steered>>,
           NEW rows, NEW r, NEW out, Gathered(rows, r, out), Handed(rows, r, out)
    PROVE  Owned'
  <1> DEFINE given == ToSet(rows) \cup SlotOf(r)
             before == ToSet(queue) \cup SlotOf(run)
             left == ToSet(queue') \cup SlotOf(run')
             others == Preparing \cup steered
  <1>1. Preparing' = Preparing /\ steered' = steered
    BY DEF Preparing
  <1>2. Active = before \cup others /\ Active' = left \cup others
    BY <1>1, PartsOfActive DEF ActiveParts
  <1>3. left \subseteq given /\ given \subseteq before
    BY DEF Handed, Gathered
  <1>4. before \cap others = {} /\ Active \subseteq Rpc
    <2>1. ToSet(queue) \subseteq Rpc /\ SlotOf(run) \subseteq Rpc
      BY SlotFacts DEF OwnInv, TypeOK, ToSet
    <2> QED
      BY <1>2, <2>1 DEF OwnInv, Owned, Apart, TypeOK, Preparing
  <1>5. Apart'
    BY <1>1, <1>3, <1>4 DEF Handed, Apart, OwnInv, Owned
  <1>6. Later(outcome, outcome')
    BY LaterTransitive DEF Handed, Gathered
  <1>7. \A x \in before \ left : outcome'[x] # "pending"
    <2> SUFFICES ASSUME NEW x \in before \ left PROVE outcome'[x] # "pending"
      OBVIOUS
    <2>1. CASE x \in given
      BY <2>1 DEF Handed
    <2>2. CASE x \notin given
      BY <1>2, <1>4, <2>2 DEF Handed, Gathered
    <2> QED BY <2>1, <2>2
  <1>8. \A x \in left \cup others : outcome'[x] = outcome[x]
    <2> SUFFICES ASSUME NEW x \in left \cup others PROVE outcome'[x] = outcome[x]
      OBVIOUS
    <2>1. x \in Rpc /\ x \notin given \ left /\ x \notin before \ given
      BY <1>2, <1>3, <1>4
    <2> QED BY <2>1 DEF Handed, Gathered
  <1>9. Moves
    <2> HIDE DEF given, before, left, others
    <2>1. Active' \subseteq Active /\ \A x \in Active \ Active' : outcome'[x] # "pending"
      BY <1>2, <1>3, <1>7
    <2> QED BY <1>2, <1>5, <1>6, <1>8, <2>1 DEF Moves
  <1> QED BY <1>9, MovesKeep

LEMMA GatheredPromotes ==
    ASSUME OwnInv, UNCHANGED <<pid, slot, retired, preparations, steered>>,
           NEW rows, NEW holds, NEW r, NEW out, Gathered(rows, r, out),
           Promote(rows, holds, r, out) \/ Advance(rows, holds, r, out) \/ Stay(rows, r, out)
    PROVE  Owned'
  <1>1. CASE Stay(rows, r, out)
    BY <1>1, PromotionOwns DEF Stay, Handed, Later, Gathered
  <1>2. CASE Promote(rows, holds, r, out)
    BY <1>2, PromoteHands, PromotionOwns DEF Gathered, OwnInv
  <1>3. CASE Advance(rows, holds, r, out)
    BY <1>3, AdvanceHands, PromotionOwns DEF Gathered, OwnInv
  <1> QED BY <1>1, <1>2, <1>3

-----------------------------------------------------------------------------
\* The actions.

\* A settled, cancelled or drained prompt keeps its slot until FinishRun.
LEMMA SlotStays ==
    ASSUME NEW r \in RunType
    PROVE  /\ \A stop : \A d \in BOOLEAN : SlotOf(SettleRun(r, stop, d)) = SlotOf(r)
           /\ SlotOf(CancelRun(r)) = SlotOf(r)
           /\ SlotOf(EndDrain(r)) = SlotOf(r)
           /\ SlotOf(EndDrain(CancelRun(r))) = SlotOf(r)
           /\ Inflight(r) => /\ SlotOf(StampSendNow(r)) = SlotOf(r)
                             /\ SlotOf(CancelRun(StampSendNow(r))) = SlotOf(r)
           /\ r.phase \in {"active", "draining"} =>
                SlotOf(Stopped(r, "flushing", "failed")) = SlotOf(r)
  <1>1. \A q : q.phase # "free" => q # Free
    BY DEF Free
  <1>2. \A q : \A stop : \A d \in BOOLEAN :
          SlotOf(SettleRun(q, stop, d)) = SlotOf(q)
    <2> SUFFICES ASSUME NEW q, NEW stop, NEW d \in BOOLEAN, Inflight(q)
                 PROVE  SlotOf(SettleRun(q, stop, d)) = SlotOf(q)
      BY DEF SettleRun
    <2>1. q # Free /\ SettleRun(q, stop, d) # Free /\ SettleRun(q, stop, d).rpc = q.rpc
      BY <1>1 DEF Inflight, SettleRun, Stopped
    <2> QED BY <2>1 DEF SlotOf
  <1>3. \A q : SlotOf(CancelRun(q)) = SlotOf(q)
    BY <1>2 DEF CancelRun
  <1>4. \A q : SlotOf(EndDrain(q)) = SlotOf(q)
    <2> SUFFICES ASSUME NEW q, q.phase = "draining"
                 PROVE  SlotOf(EndDrain(q)) = SlotOf(q)
      BY DEF EndDrain
    <2>1. q # Free /\ EndDrain(q) # Free /\ EndDrain(q).rpc = q.rpc
      BY <1>1 DEF EndDrain, Stopped
    <2> QED BY <2>1 DEF SlotOf
  <1>5. ASSUME Inflight(r) PROVE SlotOf(StampSendNow(r)) = SlotOf(r)
    <2>1. r \in [rpc : Rpc, phase : {"active"}, stop : {None}, sendNow : BOOLEAN]
      BY <1>5 DEF RunType, Free, Inflight
    <2>2. StampSendNow(r).phase = "active" /\ StampSendNow(r).rpc = r.rpc
      BY <2>1 DEF StampSendNow
    <2> QED BY <1>1, <1>5, <2>2 DEF SlotOf, Inflight
  <1>6. ASSUME r.phase \in {"active", "draining"}
        PROVE  SlotOf(Stopped(r, "flushing", "failed")) = SlotOf(r)
    <2>1. /\ r # Free /\ Stopped(r, "flushing", "failed") # Free
          /\ Stopped(r, "flushing", "failed").rpc = r.rpc
      BY <1>1, <1>6 DEF Stopped
    <2> QED BY <2>1 DEF SlotOf
  <1> QED BY <1>2, <1>3, <1>4, <1>5, <1>6

\* Steps in which at most a prompt goes on in its slot.
LEMMA SlotOwns ==
    ASSUME OwnInv, UNCHANGED <<requests, slot, retired, preparations, queue, steered>>,
           SlotOf(run') = SlotOf(run)
    PROVE  Owned'
  <1>1. Preparing' = Preparing
    BY DEF Preparing
  <1>2. Active' = Active
    BY <1>1, PartsOfActive DEF ActiveParts
  <1>3. Apart'
    BY <1>1 DEF Apart, OwnInv, Owned
  <1> QED
    BY <1>2, <1>3, MovesKeep DEF Moves, requests, Later

LEMMA SubmissionOwns ==
    ASSUME OwnInv, NEW r \in Rpc,
           SubmitRefused(r) \/ \E id \in Ids : Submit(r, id)
    PROVE  Owned'
  <1>1. outcome[r] = "new"
    BY DEF SubmitRefused, Submit, NextRpc, Submitted
  <1>2. r \notin Active /\ r \notin retired /\ slot[r] = "none"
    BY <1>1 DEF OwnInv, Owned, Fresh
  <1>3. CASE SubmitRefused(r)
    <2>1. /\ UNCHANGED <<pid, slot, retired, preparations, queue, steered, run>>
          /\ outcome' = [outcome EXCEPT ![r] = "rejected"]
      BY <1>3 DEF SubmitRefused, admission, prompts
    <2>2. Preparing' = Preparing
      BY <2>1 DEF Preparing
    <2>3. Active' = Active
      BY <2>1, <2>2, PartsOfActive DEF ActiveParts
    <2>4. Apart'
      BY <2>1, <2>2 DEF Apart, OwnInv, Owned
    <2>5. \A q \in Rpc : outcome'[q] = IF q = r THEN "rejected" ELSE outcome[q]
      BY <2>1 DEF OwnInv, TypeOK
    <2>6. Fresh'
      BY <1>1, <2>1, <2>3, <2>5 DEF Fresh, OwnInv, Owned
    <2>7. \A q \in Active : q # r /\ q \in Rpc
      <3>1. Active \subseteq Rpc
        BY SlotFacts, PartsOfActive DEF ActiveParts, OwnInv, TypeOK, ToSet, Preparing
      <3> QED BY <1>2, <3>1
    <2>8. QuietRows => OwnedArePending'
      BY <2>3, <2>5, <2>7 DEF OwnInv, Owned, OwnedArePending
    <2> QED
      BY <2>1, <2>3, <2>4, <2>5, <2>6, <2>8 DEF OwnInv, Owned, UniqueIds, QuietRows
  <1>4. ASSUME NEW id \in Ids, Submit(r, id) PROVE Owned'
    <2>1. /\ UNCHANGED <<retired, preparations, queue, steered, run>>
          /\ outcome' = [outcome EXCEPT ![r] = "pending"]
          /\ slot' = [slot EXCEPT ![r] = "waiting"]
          /\ pid' = [pid EXCEPT ![r] = id]
          /\ \A q \in Active : pid[q] # id
      BY <1>4 DEF Submit, prompts, Duplicate
    <2>2. Preparing' = Preparing \cup {r}
      BY <1>2, <2>1 DEF Preparing, OwnInv, TypeOK
    <2>3. Active' = Active \cup {r}
      BY <2>1, <2>2, PartsOfActive DEF ActiveParts
    <2>4. Apart'
      BY <1>2, <2>1, <2>2, PartsOfActive DEF ActiveParts, Apart, OwnInv, Owned
    <2>5. \A q \in Rpc : outcome'[q] = IF q = r THEN "pending" ELSE outcome[q]
      BY <2>1 DEF OwnInv, TypeOK
    <2>6. \A q \in Rpc : slot'[q] = IF q = r THEN "waiting" ELSE slot[q]
      BY <2>1 DEF OwnInv, TypeOK
    <2>7. Active \subseteq Rpc
      BY SlotFacts, PartsOfActive DEF ActiveParts, OwnInv, TypeOK, ToSet, Preparing
    <2>8. Fresh'
      BY <2>1, <2>3, <2>5, <2>6 DEF Fresh, OwnInv, Owned, TypeOK
    <2>9. \A q \in Rpc : pid'[q] = IF q = r THEN id ELSE pid[q]
      BY <2>1 DEF OwnInv, TypeOK
    <2>10. UniqueIds'
      BY <2>1, <2>3, <2>7, <2>9 DEF UniqueIds, OwnInv, Owned
    <2>11. QuietRows => OwnedArePending'
      BY <2>3, <2>5, <2>7 DEF OwnInv, Owned, OwnedArePending
    <2>12. \A q \in Rpc : outcome'[q] = "pending" => q \in Active'
      BY <2>3, <2>5 DEF OwnInv, Owned
    <2> QED
      BY <2>4, <2>8, <2>10, <2>11, <2>12 DEF Owned, QuietRows
  <1> QED BY <1>3, <1>4

\* Requests that stay in their admission, or are answered there.
LEMMA AdmissionOwns ==
    ASSUME OwnInv, NEW r \in Rpc,
           Admit(r) \/ LatePreparation(r) \/ PreparationFails(r)
             \/ CancelPromptPreparing(r)
    PROVE  Owned'
  <1>1. UNCHANGED <<pid, queue, steered, run>>
    BY DEF Admit, PassRetired, RefuseTurn, StartPreparation, LatePreparation,
           PreparationFails, CancelPromptPreparing, RefuseAdmission, Retire,
           requests, prompts
  <1>2. r \in preparations => slot[r] # "none"
    BY DEF OwnInv, Owned, Fresh
  <1>3. ASSUME Preparing' = Preparing \ {r}, r \in Preparing,
               \A x \in Rpc : slot'[x] = "none" <=> slot[x] = "none",
               retired' = retired \cup {r}, preparations' \subseteq preparations,
               NEW how \in {"cancelled", "rejected"},
               outcome' = SettleRpcs(outcome, {r}, how)
        PROVE  Owned'
    <2>1. /\ Later(outcome, outcome') /\ outcome'[r] # "pending"
          /\ \A x \in Rpc \ {r} : outcome'[x] = outcome[x]
      BY <1>3, SettleLater
    <2>2. Active' = Active \ {r} /\ Active \subseteq Rpc /\ r \in Active
      BY <1>1, <1>3, SlotFacts, PartsOfActive
         DEF ActiveParts, OwnInv, Owned, Apart, TypeOK, ToSet, Preparing
    <2>3. Apart'
      BY <1>1, <1>3 DEF Apart, OwnInv, Owned
    <2>4. slot[r] # "none"
      BY <1>3 DEF Preparing
    <2> QED
      BY <1>1, <1>3, <2>1, <2>2, <2>3, <2>4, MovesKeep DEF Moves
  <1>4. ASSUME Preparing' = Preparing,
               \A x \in Rpc : slot'[x] = "none" <=> slot[x] = "none",
               retired' = retired, outcome' = outcome,
               preparations' \subseteq preparations \cup {x \in Rpc : slot[x] # "none"}
        PROVE  Owned'
    <2>1. Active' = Active
      BY <1>1, <1>4, PartsOfActive DEF ActiveParts
    <2>2. Apart'
      BY <1>1, <1>4 DEF Apart, OwnInv, Owned
    <2> QED
      BY <1>1, <1>4, <2>1, <2>2, MovesKeep DEF Moves, Later
  <1>5. CASE PassRetired(r)
    <2>1. Preparing' = Preparing /\ slot[r] = "waiting"
      BY <1>5 DEF PassRetired, AdmissionTurn, Preparing, OwnInv, TypeOK
    <2> QED
      BY <1>4, <1>5, <2>1 DEF PassRetired, OwnInv, TypeOK, requests
  <1>6. CASE StartPreparation(r)
    <2>1. Preparing' = Preparing /\ slot[r] = "waiting"
      BY <1>6 DEF StartPreparation, AdmissionTurn, Preparing, OwnInv, TypeOK
    <2> QED
      BY <1>4, <1>6, <2>1 DEF StartPreparation, OwnInv, TypeOK, requests
  <1>7. ASSUME NEW how \in {"cancelled", "rejected"}, RefuseAdmission(r, how),
               slot[r] # "none", r \notin retired, preparations' \subseteq preparations
        PROVE  Owned'
    <2>1. Preparing' = Preparing \ {r} /\ r \in Preparing
      BY <1>7 DEF RefuseAdmission, Retire, Preparing, OwnInv, TypeOK
    <2>2. \A x \in Rpc : slot'[x] = "none" <=> slot[x] = "none"
      BY <1>7 DEF RefuseAdmission, Retire, OwnInv, TypeOK
    <2> QED
      BY <1>3, <1>7, <2>1, <2>2 DEF RefuseAdmission, Retire
  <1>8. Refusal(r) # None => Refusal(r) \in {"cancelled", "rejected"}
    BY DEF Refusal
  <1>9. CASE RefuseTurn(r)
    BY <1>7, <1>8, <1>9 DEF RefuseTurn, AdmissionTurn
  <1>10. CASE LatePreparation(r)
    <2>1. Preparing' = Preparing
      BY <1>10 DEF LatePreparation, Preparing
    <2> QED
      BY <1>4, <1>10, <2>1 DEF LatePreparation, requests
  <1>11. CASE PreparationFails(r)
    BY <1>2, <1>7, <1>8, <1>11 DEF PreparationFails
  <1>12. CASE CancelPromptPreparing(r)
    <2>1. r \in Preparing /\ Preparing' = Preparing \ {r}
      BY <1>12 DEF CancelPromptPreparing, Preparing, OwnInv, TypeOK
    <2>2. \A x \in Rpc : slot'[x] = "none" <=> slot[x] = "none"
      BY <1>12 DEF CancelPromptPreparing, OwnInv, TypeOK
    <2> QED
      BY <1>3, <1>12, <2>1, <2>2 DEF CancelPromptPreparing
  <1> QED
    BY <1>5, <1>6, <1>9, <1>10, <1>11, <1>12 DEF Admit

\* A call to the agent that throws rejects its request.
LEMMA ThrownLater ==
    ASSUME NEW call, NEW ok \in MayThrow(call), NEW T,
           outcome' = IF ok THEN outcome ELSE SettleRpcs(outcome, T, "rejected")
    PROVE  /\ Later(outcome, outcome')
           /\ call \notin Faults => outcome' = outcome
  <1>1. CASE ok = TRUE
    BY <1>1 DEF Later
  <1>2. CASE ok = FALSE
    <2>1. outcome' = SettleRpcs(outcome, T, "rejected")
      BY <1>2
    <2>2. call \in Faults
      BY <1>2 DEF MayThrow
    <2> QED BY <2>1, <2>2, SettleLater
  <1>3. ok \in {TRUE, FALSE}
    BY DEF MayThrow
  <1> QED BY <1>1, <1>2, <1>3

\* Prepared content leaves its admission for the slot, a row or the turn.
LEMMA EnqueueOwns ==
    ASSUME OwnInv, NEW r \in Rpc,
           EnqueueSendNow(r) \/ EnqueueSteer(r) \/ EnqueueRow(r)
    PROVE  Owned'
  <1>1. /\ r \in preparations /\ r \notin retired
        /\ retired' = retired \cup {r} /\ slot' = [slot EXCEPT ![r] = "released"]
        /\ preparations' \subseteq preparations /\ pid' = pid
    BY DEF EnqueueSendNow, EnqueueSteer, EnqueueRow, Prepared, Retire
  <1>2. slot[r] # "none"
    BY <1>1 DEF OwnInv, Owned, Fresh
  <1>3. Preparing' = Preparing \ {r} /\ r \in Preparing
    BY <1>1, <1>2 DEF Preparing, OwnInv, TypeOK
  <1>4. \A x \in Rpc : slot'[x] = "none" <=> slot[x] = "none"
    BY <1>1, <1>2 DEF OwnInv, TypeOK
  <1>5. /\ r \notin ToSet(queue) /\ r \notin steered /\ r \notin SlotOf(run)
        /\ IsInjective(queue) /\ queue \in Seq(Rpc) /\ run \in RunType
    BY <1>3 DEF OwnInv, Owned, Apart, TypeOK
  <1>6. Active \subseteq Rpc
    BY SlotFacts, PartsOfActive DEF ActiveParts, OwnInv, TypeOK, ToSet, Preparing
  <1>7. ASSUME Apart', Active' \subseteq Active, Later(outcome, outcome'),
               \A x \in Active \ Active' : outcome'[x] # "pending",
               QuietRows => \A x \in Active' : outcome'[x] = outcome[x]
        PROVE  Owned'
    BY <1>1, <1>2, <1>4, <1>7, MovesKeep DEF Moves
  <1>8. CASE EnqueueSendNow(r)
    <2>1. /\ queue' = <<r>> \o queue /\ steered' = steered
          /\ SlotOf(run') = SlotOf(run)
      BY <1>5, <1>8, SlotStays DEF EnqueueSendNow
    <2>2. IsInjective(queue') /\ ToSet(queue') = ToSet(queue) \cup {r}
      BY <1>5, <2>1, PrependDistinct
    <2>3. Apart'
      BY <1>3, <1>5, <2>1, <2>2 DEF Apart, OwnInv, Owned
    <2>4. Active' = Active
      BY <1>3, <2>1, <2>2, PartsOfActive DEF ActiveParts
    <2>5. /\ Later(outcome, outcome')
          /\ QuietRows => outcome' = outcome
      <3>1. PICK ok \in MayThrow("cancel") :
              outcome' = IF ok THEN outcome ELSE SettleRpcs(outcome, {r}, "rejected")
        BY <1>8 DEF EnqueueSendNow
      <3> QED BY <3>1, ThrownLater DEF QuietRows
    <2> QED
      BY <1>7, <2>3, <2>4, <2>5
  <1>9. CASE EnqueueSteer(r)
    <2>1. UNCHANGED <<queue, run>>
      BY <1>9 DEF EnqueueSteer
    <2>2. PICK ok \in MayThrow("steer") :
            /\ steered' = IF ok THEN steered \cup {r} ELSE steered
            /\ outcome' = IF ok THEN outcome ELSE SettleRpcs(outcome, {r}, "rejected")
      BY <1>9 DEF EnqueueSteer
    <2>3. Apart'
      BY <1>3, <1>5, <2>1, <2>2 DEF Apart, OwnInv, Owned
    <2>4. CASE ok
      <3>1. Active' = Active
        BY <1>3, <2>1, <2>2, <2>4, PartsOfActive DEF ActiveParts
      <3> QED
        BY <1>7, <2>2, <2>3, <2>4, <3>1 DEF Later
    <2>5. CASE ~ok
      <3>1. Active' = Active \ {r}
        BY <1>3, <1>5, <2>1, <2>2, <2>5, PartsOfActive DEF ActiveParts
      <3>2. /\ Later(outcome, outcome') /\ outcome'[r] # "pending"
            /\ \A x \in Rpc \ {r} : outcome'[x] = outcome[x]
        BY <2>2, <2>5, SettleLater
      <3> QED
        BY <1>6, <1>7, <2>3, <3>1, <3>2
    <2> QED BY <2>4, <2>5
  <1>10. CASE EnqueueRow(r)
    <2> DEFINE rows == Append(queue, r)
    <2>1. rows \in Seq(Rpc) /\ IsInjective(rows) /\ ToSet(rows) = ToSet(queue) \cup {r}
      BY <1>5, AppendDistinct
    <2>2. Promote(rows, held, run, outcome) /\ steered' = steered
      BY <1>10 DEF EnqueueRow
    <2>3. ToSet(rows) \cap SlotOf(run) = {}
      BY <1>5, <2>1 DEF OwnInv, Owned, Apart
    <2> HIDE DEF rows
    <2>4. Handed(rows, run, outcome)
      BY <1>5, <2>1, <2>2, <2>3, PromoteHands DEF OwnInv
    <2> DEFINE given == ToSet(rows) \cup SlotOf(run)
               left == ToSet(queue') \cup SlotOf(run')
               others == Preparing' \cup steered
    <2>5. Active = given \cup others /\ Active' = left \cup others
      BY <1>3, <2>1, <2>2, PartsOfActive DEF ActiveParts
    <2>6. given \cap others = {} /\ left \subseteq given
      BY <1>3, <1>5, <2>1, <2>4 DEF Handed, OwnInv, Owned, Apart
    <2>7. Apart'
      BY <1>3, <2>2, <2>4, <2>6 DEF Handed, Apart, OwnInv, Owned
    <2>8. /\ Later(outcome, outcome')
          /\ \A x \in given \ left : outcome'[x] # "pending"
          /\ \A x \in Rpc \ (given \ left) : outcome'[x] = outcome[x]
      BY <2>4 DEF Handed
    <2> HIDE DEF given, left, others
    <2> QED
      BY <1>6, <1>7, <2>5, <2>6, <2>7, <2>8
  <1> QED BY <1>8, <1>9, <1>10

\* A row that a control takes out, or puts first.
LEMMA RowOwner ==
    ASSUME OwnInv, NEW id, NEW i \in RowsWith(id)
    PROVE  /\ RemoveAt(queue, i) \in Seq(Rpc) /\ IsInjective(RemoveAt(queue, i))
           /\ ToSet(RemoveAt(queue, i)) = ToSet(queue) \ {queue[i]}
           /\ queue[i] \in ToSet(queue) /\ queue[i] \in Rpc
           /\ <<queue[i]>> \o RemoveAt(queue, i) \in Seq(Rpc)
           /\ IsInjective(<<queue[i]>> \o RemoveAt(queue, i))
           /\ ToSet(<<queue[i]>> \o RemoveAt(queue, i)) = ToSet(queue)
  <1>1. /\ queue \in Seq(Rpc) /\ i \in DOMAIN queue /\ IsInjective(queue)
        /\ queue[i] \in ToSet(queue) /\ queue[i] \in Rpc
    BY DEF OwnInv, Owned, Apart, TypeOK, RowsWith, ToSet
  <1>2. /\ RemoveAt(queue, i) \in Seq(Rpc) /\ IsInjective(RemoveAt(queue, i))
        /\ ToSet(RemoveAt(queue, i)) = ToSet(queue) \ {queue[i]}
    BY <1>1, RemoveAtType, RemoveAtDistinct
  <1>3. /\ <<queue[i]>> \o RemoveAt(queue, i) \in Seq(Rpc)
        /\ IsInjective(<<queue[i]>> \o RemoveAt(queue, i))
        /\ ToSet(<<queue[i]>> \o RemoveAt(queue, i)) = ToSet(RemoveAt(queue, i)) \cup {queue[i]}
    BY <1>1, <1>2, PrependElements, PrependDistinct
  <1> QED BY <1>1, <1>2, <1>3

LEMMA RowControlOwns ==
    ASSUME OwnInv, NEW id \in Ids, RowControl(id) \/ CancelPromptQueued(id)
    PROVE  Owned'
  <1>1. /\ queue \in Seq(Rpc) /\ run \in RunType /\ IsInjective(queue)
        /\ ToSet(queue) \cap SlotOf(run) = {}
    BY DEF OwnInv, TypeOK, Owned, Apart
  <1>2. Control /\ UNCHANGED <<pid, slot, retired, preparations>>
    BY DEF RowControl, ResyncRow, Interject, SteerRow, RemoveRow, RemoveRunning,
           RemoveUnknown, EditRow, HoldEdit, ReleaseEdit, CancelPromptQueued,
           Control, admission
  \* The rows as they are, with the prompt in its slot.
  <1>3. ASSUME NEW r \in {run, CancelRun(run)}, NEW holds, steered' = steered,
               Promote(queue, holds, r, outcome) \/ Stay(queue, r, outcome)
        PROVE  Owned'
    <2>1. r \in RunType /\ SlotOf(r) = SlotOf(run)
      BY <1>1, <1>3, RunTypes, SlotStays
    <2>2. Gathered(queue, r, outcome)
      BY <1>1, <2>1 DEF Gathered, Later
    <2> QED BY <1>2, <1>3, <2>2, GatheredPromotes
  \* A row is removed.
  <1>4. ASSUME NEW i \in RowsWith(id), NEW holds, steered' = steered,
               Promote(RemoveAt(queue, i), holds, run,
                       SettleRpcs(outcome, {queue[i]}, "cancelled"))
        PROVE  Owned'
    <2> DEFINE rows == RemoveAt(queue, i)
               out == SettleRpcs(outcome, {queue[i]}, "cancelled")
    <2>1. /\ rows \in Seq(Rpc) /\ IsInjective(rows)
          /\ ToSet(rows) = ToSet(queue) \ {queue[i]}
          /\ queue[i] \in ToSet(queue) /\ queue[i] \in Rpc
      BY RowOwner
    <2>2. /\ Later(outcome, out) /\ out[queue[i]] # "pending"
          /\ \A x \in Rpc \ {queue[i]} : out[x] = outcome[x]
      <3> DEFINE row == {queue[i]}
      <3>1. row \subseteq Rpc /\ queue[i] \in row
        BY <2>1
      <3> HIDE DEF row
      <3>2. /\ Later(outcome, SettleRpcs(outcome, row, "cancelled"))
            /\ \A x \in Rpc \cap row : SettleRpcs(outcome, row, "cancelled")[x] # "pending"
            /\ \A x \in Rpc \ row : SettleRpcs(outcome, row, "cancelled")[x] = outcome[x]
        BY SettleLater
      <3> QED BY <2>1, <3>1, <3>2 DEF row
    <2>3. Promote(rows, holds, run, out)
      BY <1>4
    <2> HIDE DEF rows, out
    <2>4. (ToSet(queue) \cup SlotOf(run)) \ (ToSet(rows) \cup SlotOf(run)) = {queue[i]}
      BY <1>1, <2>1
    <2>5. Gathered(rows, run, out)
      BY <1>1, <2>1, <2>2, <2>4 DEF Gathered
    <2> QED BY <1>2, <1>4, <2>3, <2>5, GatheredPromotes
  <1>5. CASE ResyncRow(id) \/ EditRow(id)
    BY <1>3, <1>5 DEF ResyncRow, EditRow
  <1>6. CASE Interject(id)
    <2>1. PICK i \in RowsWith(id) :
            LET rows == <<queue[i]>> \o RemoveAt(queue, i) IN
            \/ Promote(rows, held', run, outcome)
            \/ /\ Inflight(run)
               /\ queue' = rows
               /\ run' \in {CancelRun(StampSendNow(run)), StampSendNow(run)}
               /\ UNCHANGED outcome
      BY <1>6 DEF Interject
    <2> DEFINE rows == <<queue[i]>> \o RemoveAt(queue, i)
    <2>2. rows \in Seq(Rpc) /\ IsInjective(rows) /\ ToSet(rows) = ToSet(queue)
      BY RowOwner
    <2>3. steered' = steered
      BY <1>6 DEF Interject
    <2> HIDE DEF rows
    <2>4. Gathered(rows, run, outcome)
      BY <1>1, <2>2 DEF Gathered, Later
    <2>5. CASE Promote(rows, held', run, outcome)
      BY <1>2, <2>3, <2>4, <2>5, GatheredPromotes
    <2>6. CASE /\ Inflight(run)
               /\ queue' = rows
               /\ run' \in {CancelRun(StampSendNow(run)), StampSendNow(run)}
               /\ UNCHANGED outcome
      <3>1. SlotOf(run') = SlotOf(run)
        BY <1>1, <2>6, SlotStays
      <3>2. Handed(rows, run, outcome)
        BY <1>1, <2>2, <2>6, <3>1 DEF Handed, Later
      <3> QED BY <1>2, <2>3, <2>4, <3>2, PromotionOwns
    <2> QED BY <2>1, <2>5, <2>6 DEF rows
  <1>7. CASE SteerRow(id)
    <2>1. PICK i \in RowsWith(id) :
            \/ Promote(queue, held, run, outcome) /\ UNCHANGED steered
            \/ /\ UNCHANGED run
               /\ \E ok \in MayThrow("steer") :
                    /\ queue' = IF ok THEN RemoveAt(queue, i) ELSE queue
                    /\ steered' = IF ok THEN steered \cup {queue[i]} ELSE steered
                    /\ outcome' = IF ok THEN outcome
                                  ELSE SettleRpcs(outcome, {queue[i]}, "rejected")
      BY <1>7 DEF SteerRow
    <2>2. CASE Promote(queue, held, run, outcome) /\ UNCHANGED steered
      BY <1>3, <2>2
    <2>3. ASSUME NEW ok \in MayThrow("steer"), UNCHANGED run,
                 queue' = IF ok THEN RemoveAt(queue, i) ELSE queue,
                 steered' = IF ok THEN steered \cup {queue[i]} ELSE steered,
                 outcome' = IF ok THEN outcome
                            ELSE SettleRpcs(outcome, {queue[i]}, "rejected")
          PROVE  Owned'
      <3>1. /\ IsInjective(queue')
            /\ ToSet(queue') = IF ok THEN ToSet(queue) \ {queue[i]} ELSE ToSet(queue)
            /\ queue[i] \in ToSet(queue)
        BY <1>1, <2>3, RowOwner
      <3>2. Preparing' = Preparing
        BY <1>2 DEF Preparing
      <3>3. Apart'
        BY <2>3, <3>1, <3>2 DEF Apart, OwnInv, Owned
      <3>4. Active' = Active
        BY <2>3, <3>1, <3>2, PartsOfActive DEF ActiveParts
      <3>5. Later(outcome, outcome') /\ (QuietRows => outcome' = outcome)
        BY <2>3, ThrownLater DEF QuietRows
      <3> QED BY <1>2, <3>3, <3>4, <3>5, MovesKeep DEF Moves
    <2> QED BY <2>1, <2>2, <2>3
  <1>8. CASE RemoveRow(id)
    BY <1>4, <1>8 DEF RemoveRow
  <1>9. CASE RemoveRunning(id)
    BY <1>3, <1>9 DEF RemoveRunning
  <1>10. CASE RemoveUnknown(id)
    BY <1>3, <1>10 DEF RemoveUnknown
  <1>11. CASE HoldEdit(id)
    BY <1>2, <1>11, SlotOwns DEF HoldEdit, requests
  <1>12. CASE ReleaseEdit(id)
    BY <1>3, <1>12 DEF ReleaseEdit
  <1>13. CASE CancelPromptQueued(id)
    BY <1>4, <1>13 DEF CancelPromptQueued
  <1> QED
    BY <1>5, <1>6, <1>7, <1>8, <1>9, <1>10, <1>11, <1>12, <1>13 DEF RowControl

LEMMA ReorderOwns ==
    ASSUME OwnInv, Reorder
    PROVE  Owned'
  <1>1. PICK p \in Bijection(DOMAIN queue, DOMAIN queue) :
          Promote([i \in DOMAIN queue |-> queue[p[i]]], held, run, outcome)
    BY DEF Reorder
  <1> DEFINE rows == [i \in DOMAIN queue |-> queue[p[i]]]
  <1>2. /\ p \in [DOMAIN queue -> DOMAIN queue] /\ IsInjective(p)
        /\ \A j \in DOMAIN queue : \E i \in DOMAIN queue : p[i] = j
    BY DEF Bijection, Injection, Surjection
  <1>3. /\ queue \in Seq(Rpc) /\ run \in RunType /\ IsInjective(queue)
        /\ ToSet(queue) \cap SlotOf(run) = {}
        /\ DOMAIN queue = 1..Len(queue) /\ Len(queue) \in Nat
    BY DEF OwnInv, TypeOK, Owned, Apart
  <1>4. rows \in Seq(Rpc)
    BY <1>2, <1>3
  <1>5. IsInjective(rows)
    BY <1>2, <1>3 DEF IsInjective
  <1>6. ToSet(rows) = ToSet(queue)
    <2>1. ToSet(rows) \subseteq ToSet(queue)
      BY <1>2 DEF ToSet
    <2>2. ToSet(queue) \subseteq ToSet(rows)
      BY <1>2 DEF ToSet
    <2> QED BY <2>1, <2>2
  <1> HIDE DEF rows
  <1>7. Gathered(rows, run, outcome)
    BY <1>3, <1>4, <1>5, <1>6 DEF Gathered, Later
  <1>8. UNCHANGED <<pid, slot, retired, preparations, steered>>
    BY DEF Reorder, Control, admission
  <1>9. Promote(rows, held, run, outcome)
    BY <1>1 DEF rows
  <1> QED BY <1>7, <1>8, <1>9, GatheredPromotes

\* Every row is answered and none is left.
LEMMA DiscardOwns ==
    ASSUME OwnInv, Discard, UNCHANGED <<pid, slot, retired, preparations, steered>>,
           SlotOf(run') = SlotOf(run)
    PROVE  Owned'
  <1>1. queue' = <<>> /\ outcome' = SettleRpcs(outcome, ToSet(queue), "cancelled")
    BY DEF Discard
  <1>2. ToSet(queue') = {} /\ IsInjective(queue')
    BY <1>1 DEF ToSet, IsInjective
  <1>3. Preparing' = Preparing
    BY DEF Preparing
  <1>4. Apart'
    BY <1>2, <1>3 DEF Apart, OwnInv, Owned
  <1>5. /\ ToSet(queue) \cap (Preparing \cup steered \cup SlotOf(run)) = {}
        /\ Active \subseteq Rpc
    BY SlotFacts, PartsOfActive
       DEF ActiveParts, OwnInv, TypeOK, ToSet, Preparing, Owned, Apart
  <1>6. Active' = Active \ ToSet(queue)
    BY <1>2, <1>3, <1>5, PartsOfActive DEF ActiveParts
  <1>7. /\ Later(outcome, outcome')
        /\ \A x \in Rpc \cap ToSet(queue) : outcome'[x] # "pending"
        /\ \A x \in Rpc \ ToSet(queue) : outcome'[x] = outcome[x]
    BY <1>1, SettleLater
  <1> QED
    BY <1>4, <1>5, <1>6, <1>7, MovesKeep DEF Moves

LEMMA LifecycleOwns ==
    ASSUME OwnInv,
           Clear \/ Cancel \/ Lifecycle \/ DisposalDone
             \/ \E id \in Ids : CancelPromptRunning(id)
    PROVE  Owned'
  <1>1. run \in RunType
    BY DEF OwnInv, TypeOK
  <1>2. CASE Clear
    BY <1>2, DiscardOwns DEF Clear, Control, admission
  <1>3. CASE Cancel \/ Suspend \/ Dispose
    BY <1>1, <1>3, SlotStays, DiscardOwns DEF Cancel, Suspend, Dispose, CancelAll
  <1>4. CASE Resume \/ LoseAgent \/ DisposalDone
             \/ \E id \in Ids : CancelPromptRunning(id)
    BY <1>1, <1>4, SlotStays, SlotOwns
       DEF Resume, LoseAgent, DisposalDone, CancelPromptRunning, admission, prompts
  <1> QED BY <1>2, <1>3, <1>4 DEF Lifecycle

\* What the agent does concerns the stage of the running prompt only.
LEMMA AgentSlot ==
    ASSUME OwnInv, AgentWorks \/ AgentIdleFails \/ AgentWakes
    PROVE  /\ SlotOf(run') = SlotOf(run)
           /\ UNCHANGED <<requests, admission, queue, steered, wire>>
  <1>1. run \in RunType
    BY DEF OwnInv, TypeOK
  <1>2. UNCHANGED <<requests, admission, queue, steered, wire>>
    BY DEF AgentWorks, AgentClaims, AgentDiscards, AgentTurnEnds, AgentIdles,
           AgentQuiet, AgentIdleFails, AgentWakes, AgentOnly
  <1>3. CASE AgentClaims \/ AgentDiscards \/ AgentWakes
    BY <1>2, <1>3 DEF AgentClaims, AgentDiscards, AgentWakes
  <1>4. CASE \E reason \in {"completed", "cancelled", "failed"} : AgentTurnEnds(reason)
    <2>1. PICK reason \in {"completed", "cancelled", "failed"} :
            run' = run \/ run' = SettleRun(run, reason, reason = "cancelled")
      BY <1>4 DEF AgentTurnEnds
    <2> DEFINE drains == reason = "cancelled"
    <2>2. drains \in BOOLEAN /\ (run' = run \/ run' = SettleRun(run, reason, drains))
      BY <2>1
    <2> HIDE DEF drains
    <2>3. SlotOf(SettleRun(run, reason, drains)) = SlotOf(run)
      BY <1>1, <2>2, SlotStays
    <2> QED BY <1>2, <2>2, <2>3
  <1>5. CASE AgentIdles \/ AgentQuiet \/ AgentIdleFails
    BY <1>1, <1>2, <1>5, SlotStays DEF AgentIdles, AgentQuiet, AgentIdleFails
  <1> QED BY <1>3, <1>4, <1>5 DEF AgentWorks

LEMMA AgentOwns ==
    ASSUME OwnInv, AgentWorks \/ AgentIdleFails \/ AgentWakes
    PROVE  Owned'
  BY AgentSlot, SlotOwns DEF admission

\* The prompt that is over, and what was steered into its turn, are answered when
\* they leave; the next row may take the slot.
LEMMA FinishOwns ==
    ASSUME OwnInv, FinishRun
    PROVE  Owned'
  <1> DEFINE stop == IF run.stop = "failed" THEN "cancelled" ELSE run.stop
             end(flushed) == IF flushed /\ run.stop # "failed" THEN run.stop ELSE "rejected"
  <1>1. PICK flushed \in MayThrow("flush") :
          LET out == SettleRpcs(SettleRpcs(outcome, steered, stop), {run.rpc}, end(flushed)) IN
          Promote(queue, held, Free, out) \/ Stay(queue, Free, out)
    BY DEF FinishRun
  <1> DEFINE how == end(flushed)
             mid == SettleRpcs(outcome, steered, stop)
             own == {run.rpc}
             out == SettleRpcs(mid, own, how)
  <1>2. /\ run \in RunType /\ run.phase = "flushing" /\ steered' = {}
        /\ UNCHANGED <<pid, slot, retired, preparations>>
        /\ queue \in Seq(Rpc) /\ IsInjective(queue) /\ steered \subseteq Rpc
        /\ ToSet(queue) \subseteq Rpc
    BY DEF OwnInv, TypeOK, Owned, Apart, FinishRun, admission, ToSet
  <1>3. /\ run.stop \in {"completed", "cancelled", "failed"} /\ run.rpc \in Rpc
        /\ SlotOf(run) = own
    BY <1>2, RunFields, SlotFacts
  <1>4. stop \in {"cancelled", "completed", "rejected"} /\ how \in {"cancelled", "completed", "rejected"}
    BY <1>3
  <1>5. Promote(queue, held, Free, out) \/ Stay(queue, Free, out)
    BY <1>1
  <1>6. own \subseteq Rpc
    BY <1>3
  <1> HIDE DEF stop, how, own
  <1>7. /\ Later(outcome, mid)
        /\ \A x \in steered : mid[x] # "pending"
        /\ \A x \in Rpc \ steered : mid[x] = outcome[x]
    BY <1>2, <1>4, SettleLater
  <1> HIDE DEF mid
  <1>8. /\ Later(mid, out)
        /\ \A x \in own : out[x] # "pending"
        /\ \A x \in Rpc \ own : out[x] = mid[x]
    BY <1>4, <1>6, SettleLater
  <1> HIDE DEF out
  <1>9. Handed(queue, Free, out)
    <2>1. SlotOf(Free) = {} /\ Free \in RunType
      BY DEF SlotOf, RunType
    <2>2. CASE Promote(queue, held, Free, out)
      BY <1>2, <2>1, <2>2, PromoteHands DEF OwnInv
    <2>3. CASE Stay(queue, Free, out)
      BY <1>2, <2>1, <2>3 DEF Stay, Handed, Later
    <2> QED BY <1>5, <2>2, <2>3
  <1> DEFINE given == ToSet(queue)
             left == ToSet(queue') \cup SlotOf(run')
  <1>10. /\ IsInjective(queue') /\ ToSet(queue') \cap SlotOf(run') = {}
         /\ left \subseteq given /\ Later(out, outcome')
         /\ \A x \in given \ left : outcome'[x] # "pending"
         /\ \A x \in Rpc \ (given \ left) : outcome'[x] = out[x]
    BY <1>9 DEF Handed, SlotOf
  <1>11. Preparing' = Preparing
    BY <1>2 DEF Preparing
  <1>12. /\ Active = Preparing \cup given \cup steered \cup own
         /\ Active' = Preparing \cup left
    BY <1>2, <1>3, <1>11, PartsOfActive DEF ActiveParts
  <1>13. /\ Preparing \cap (given \cup steered \cup own) = {}
         /\ given \cap (steered \cup own) = {}
         /\ Preparing \subseteq Rpc
    BY <1>3 DEF OwnInv, Owned, Apart, Preparing
  <1>14. Apart'
    BY <1>2, <1>10, <1>11, <1>13 DEF Apart
  <1> HIDE DEF given, left
  <1>15. Later(outcome, outcome')
    BY <1>7, <1>8, <1>10, LaterTransitive
  <1>16. \A x \in Active \ Active' : outcome'[x] # "pending"
    <2> SUFFICES ASSUME NEW x \in Active \ Active' PROVE outcome'[x] # "pending"
      OBVIOUS
    <2>1. CASE x \in given
      BY <1>10, <1>12, <2>1
    <2>2. CASE x \in steered \cup own
      <3>1. out[x] # "pending"
        BY <1>2, <1>6, <1>7, <1>8, <2>2 DEF Later
      <3>2. x \in Rpc /\ x \notin given
        BY <1>2, <1>6, <1>13, <2>2
      <3> QED BY <1>10, <3>1, <3>2
    <2> QED BY <1>12, <2>1, <2>2
  <1>17. \A x \in Active' : outcome'[x] = outcome[x]
    <2> SUFFICES ASSUME NEW x \in Active' PROVE outcome'[x] = outcome[x]
      OBVIOUS
    <2>1. x \in Rpc /\ x \notin steered /\ x \notin own /\ x \notin given \ left
      BY <1>2, <1>10, <1>12, <1>13 DEF given
    <2> QED BY <1>7, <1>8, <1>10, <2>1
  <1>18. Active' \subseteq Active
    BY <1>10, <1>12
  <1> QED
    BY <1>2, <1>14, <1>15, <1>16, <1>17, <1>18, MovesKeep DEF Moves

LEMMA PromotionFiresOwns ==
    ASSUME OwnInv, PromotionFires
    PROVE  Owned'
  <1>1. Gathered(queue, run, outcome)
    BY DEF Gathered, Later, OwnInv, TypeOK, Owned, Apart
  <1>2. UNCHANGED <<pid, slot, retired, preparations, steered>>
    BY DEF PromotionFires, admission
  <1>3. Advance(queue, held, run, outcome) \/ Stay(queue, run, outcome)
    BY DEF PromotionFires
  <1> QED BY <1>1, <1>2, <1>3, GatheredPromotes

LEMMA NextOwns ==
    ASSUME OwnInv, [Next]_vars
    PROVE  OwnInv'
  <1>1. TypeOK'
    BY NextType DEF OwnInv
  <1>2. CASE \E r \in Rpc : SubmitRefused(r) \/ \E id \in Ids : Submit(r, id)
    BY <1>1, <1>2, SubmissionOwns DEF OwnInv
  <1>3. CASE \E r \in Rpc : Admit(r) \/ Prepare(r) \/ CancelPromptPreparing(r)
    BY <1>1, <1>3, AdmissionOwns, EnqueueOwns DEF OwnInv, Prepare
  <1>4. CASE \E id \in Ids : RowControl(id) \/ CancelPromptQueued(id)
    BY <1>1, <1>4, RowControlOwns DEF OwnInv
  <1>5. CASE \/ Clear \/ Cancel \/ Lifecycle \/ DisposalDone
             \/ \E id \in Ids : CancelPromptRunning(id)
    BY <1>1, <1>5, LifecycleOwns DEF OwnInv
  <1>6. CASE Reorder
    BY <1>1, <1>6, ReorderOwns DEF OwnInv
  <1>7. CASE FinishRun \/ PromotionFires
    BY <1>1, <1>7, FinishOwns, PromotionFiresOwns DEF OwnInv
  <1>8. CASE AgentWorks \/ AgentIdleFails \/ AgentWakes
    BY <1>1, <1>8, AgentOwns DEF OwnInv
  <1>9. CASE UNCHANGED vars
    BY <1>1, <1>9, SlotOwns DEF vars, OwnInv, admission, prompts
  <1> QED
    BY <1>2, <1>3, <1>4, <1>5, <1>6, <1>7, <1>8, <1>9 DEF Next

LEMMA OwnershipInvariant == Spec => []OwnInv
  <1>1. Init => Owned
    <2>1. Init => Active = {} /\ Preparing = {} /\ ToSet(queue) = {} /\ SlotOf(run) = {}
      BY DEF Init, Active, Preparing, ToSet, SlotOf
    <2> QED
      BY <2>1 DEF Init, Owned, Apart, Fresh, UniqueIds, OwnedArePending, IsInjective
  <1>2. Init => OwnInv
    BY <1>1, InitType DEF OwnInv
  <1> QED BY <1>2, NextOwns, PTL DEF Spec

LEMMA OwnInvImplies ==
    ASSUME OwnInv
    PROVE  OneOwner /\ UniqueIds /\ (QuietRows => OwnedArePending)
  <1>1. run.rpc \in SlotOf(run) \/ run.rpc \notin Rpc
    <2>1. run = Free => run.rpc = None
      BY DEF Free
    <2> QED BY <2>1, PromptQueueAssumption DEF SlotOf
  <1>2. Preparing \subseteq Rpc /\ ToSet(queue) \subseteq Rpc /\ steered \subseteq Rpc
    BY DEF OwnInv, TypeOK, ToSet, Preparing
  <1> QED
    BY <1>1, <1>2 DEF OwnInv, Owned, Apart, OneOwner, IsInjective

\* Whatever throws, an open request is in one place: its admission, one row, the
\* turn it was steered into or the running slot, and a prompt id names one request.
THEOREM OneOwnerEach == Spec => [](OneOwner /\ UniqueIds)
  BY OwnershipInvariant, OwnInvImplies, PTL

\* While no cancel() and no steer() of the agent throws, what the queue owns is
\* exactly what is still unanswered.
THEOREM OwnersAreOpen == QuietRows => (Spec => []Ownership)
  <1> SUFFICES ASSUME QuietRows PROVE Spec => []Ownership
    OBVIOUS
  <1>1. OwnInv => Ownership
    BY OwnInvImplies DEF Ownership
  <1> QED BY <1>1, OwnershipInvariant, PTL

-----------------------------------------------------------------------------
\* The agent at rest.

\* An idle agent has neither a turn nor a message to start one with, and it
\* stays idle until the one promotion wait that it has answered is over.
AtRest ==
    /\ status = "idle" => turnOf = None /\ inbox = <<>>
    /\ promo = "ready" => status = "idle"

\* What a promotion may do to it.
StartsAtRest ==
    /\ AtRest'
    /\ Started => status = "idle" /\ turnOf = None

\* The stages of a prompt are the same prompt's.
LEMMA RpcStays ==
    ASSUME NEW r \in RunType
    PROVE  /\ \A stop : \A d \in BOOLEAN : SettleRun(r, stop, d).rpc = r.rpc
           /\ CancelRun(r).rpc = r.rpc
           /\ EndDrain(r).rpc = r.rpc
           /\ EndDrain(CancelRun(r)).rpc = r.rpc
           /\ Inflight(r) => /\ StampSendNow(r).rpc = r.rpc
                             /\ CancelRun(StampSendNow(r)).rpc = r.rpc
           /\ Stopped(r, "flushing", "failed").rpc = r.rpc
  <1>1. \A q : \A stop : \A d \in BOOLEAN : SettleRun(q, stop, d).rpc = q.rpc
    BY DEF SettleRun, Stopped
  <1>2. \A q : CancelRun(q).rpc = q.rpc
    BY DEF CancelRun, SettleRun, Stopped
  <1>3. \A q : EndDrain(q).rpc = q.rpc
    BY DEF EndDrain, Stopped
  <1>4. Inflight(r) => StampSendNow(r).rpc = r.rpc
    <2> SUFFICES ASSUME Inflight(r) PROVE StampSendNow(r).rpc = r.rpc
      OBVIOUS
    <2>1. r \in [rpc : Rpc, phase : {"active"}, stop : {None}, sendNow : BOOLEAN]
      BY DEF RunType, Free, Inflight
    <2> QED BY <2>1 DEF StampSendNow
  <1>5. Stopped(r, "flushing", "failed").rpc = r.rpc
    BY DEF Stopped
  <1> QED BY <1>1, <1>2, <1>3, <1>4, <1>5

LEMMA AdvanceRests ==
    ASSUME AtRest, UNCHANGED <<turnOf, promo>>, status = "idle",
           NEW rows, NEW holds, NEW r, NEW out, Advance(rows, holds, r, out)
    PROVE  /\ status' = "idle" => turnOf' = None /\ inbox' = <<>>
           /\ promo = "none" => AtRest'
           /\ run' = r \/ (status = "idle" /\ turnOf = None)
  <1>1. CASE MayAdvance(rows, holds, r)
    <2>1. PICK ok \in MayThrow("followup") :
            /\ status' = IF ok THEN "running" ELSE status
            /\ inbox' = IF ok THEN Append(inbox, rows[1]) ELSE inbox
      BY <1>1 DEF Advance, RunPrompt
    <2> QED BY <2>1 DEF AtRest
  <1>2. CASE ~MayAdvance(rows, holds, r)
    BY <1>2 DEF Advance, Stay, AtRest
  <1> QED BY <1>1, <1>2

LEMMA PromoteRests ==
    ASSUME AtRest, turnOf' = turnOf, NEW rows, NEW holds, NEW r, NEW out,
           Promote(rows, holds, r, out), ~Inflight(r) \/ r.rpc = run.rpc
    PROVE  StartsAtRest
  <1>1. CASE Stay(rows, r, out) /\ (UNCHANGED promo \/ promo' = "waiting")
    BY <1>1 DEF Stay, StartsAtRest, AtRest, Started
  <1>2. CASE /\ promo = "none" /\ UNCHANGED promo /\ status = "idle"
             /\ Advance(rows, holds, r, out)
    <2>1. AtRest' /\ (run' = r \/ (status = "idle" /\ turnOf = None))
      BY <1>2, AdvanceRests
    <2> QED BY <2>1 DEF StartsAtRest, Started
  <1> QED BY <1>1, <1>2 DEF Promote

\* A step that starts no prompt and leaves the agent alone.
LEMMA QuietRests ==
    ASSUME AtRest, UNCHANGED <<status, turnOf, inbox>>,
           promo' = promo \/ promo' \in {"none", "waiting"},
           ~Inflight(run') \/ run'.rpc = run.rpc
    PROVE  StartsAtRest
  BY DEF AtRest, StartsAtRest, Started

LEMMA ControlRests ==
    ASSUME TypeOK, AtRest, NEW id \in Ids, RowControl(id) \/ CancelPromptQueued(id)
    PROVE  StartsAtRest
  <1>1. run \in RunType
    BY DEF TypeOK
  <1>2. turnOf' = turnOf
    BY DEF RowControl, ResyncRow, Interject, SteerRow, RemoveRow, RemoveRunning,
           RemoveUnknown, EditRow, HoldEdit, ReleaseEdit, CancelPromptQueued, Control
  <1>3. ASSUME NEW rows, NEW holds, NEW r \in {run, CancelRun(run)}, NEW out,
               Promote(rows, holds, r, out)
        PROVE  StartsAtRest
    BY <1>1, <1>2, <1>3, RpcStays, PromoteRests
  <1>4. CASE ResyncRow(id) \/ EditRow(id) \/ RemoveUnknown(id) \/ ReleaseEdit(id)
    BY <1>3, <1>4 DEF ResyncRow, EditRow, RemoveUnknown, ReleaseEdit
  <1>5. CASE RemoveRow(id) \/ CancelPromptQueued(id)
    BY <1>3, <1>5 DEF RemoveRow, CancelPromptQueued
  <1>6. CASE Interject(id)
    <2>1. \/ \E rows : Promote(rows, held', run, outcome)
          \/ /\ Inflight(run)
             /\ run' \in {CancelRun(StampSendNow(run)), StampSendNow(run)}
             /\ UNCHANGED <<promo, status, inbox>>
      BY <1>6 DEF Interject
    <2> QED BY <1>1, <1>2, <1>3, <2>1, RpcStays, QuietRests
  <1>7. CASE SteerRow(id)
    <2>1. Promote(queue, held, run, outcome) \/ UNCHANGED <<run, promo, status, inbox>>
      BY <1>7 DEF SteerRow
    <2> QED BY <1>2, <1>3, <2>1, QuietRests
  <1>8. CASE RemoveRunning(id)
    <2>1. \/ Promote(queue, held', CancelRun(run), outcome)
          \/ UNCHANGED <<run, promo, status, inbox>>
      BY <1>8 DEF RemoveRunning, Stay
    <2> QED BY <1>2, <1>3, <2>1, QuietRests
  <1>9. CASE HoldEdit(id)
    BY <1>2, <1>9, QuietRests DEF HoldEdit
  <1> QED BY <1>4, <1>5, <1>6, <1>7, <1>8, <1>9 DEF RowControl

LEMMA NextRests ==
    ASSUME TypeOK, AtRest, [Next]_vars
    PROVE  StartsAtRest
  <1>1. run \in RunType
    BY DEF TypeOK
  <1>2. ASSUME NEW r \in Rpc, SubmitRefused(r) \/ \E id \in Ids : Submit(r, id)
        PROVE  StartsAtRest
    BY <1>2, QuietRests DEF SubmitRefused, Submit, agent, prompts
  <1>3. ASSUME NEW r \in Rpc, Admit(r) \/ Prepare(r) \/ CancelPromptPreparing(r)
        PROVE  StartsAtRest
    <2>1. CASE EnqueueRow(r)
      BY <2>1, PromoteRests DEF EnqueueRow, Prepared
    <2>2. CASE EnqueueSendNow(r)
      <3>1. /\ UNCHANGED <<status, turnOf, inbox, promo>> /\ Inflight(run)
            /\ run' \in {CancelRun(StampSendNow(run)), StampSendNow(run)}
        BY <2>2 DEF EnqueueSendNow, Prepared
      <3> QED BY <1>1, <3>1, RpcStays, QuietRests
    <2>3. CASE ~EnqueueRow(r) /\ ~EnqueueSendNow(r)
      <3>1. UNCHANGED <<status, turnOf, inbox, promo, run>>
        BY <1>3, <2>3 DEF Admit, Prepare, PassRetired, RefuseTurn, StartPreparation,
           LatePreparation, PreparationFails, RefuseAdmission, EnqueueSteer, Prepared,
           CancelPromptPreparing, agent, prompts
      <3> QED BY <3>1, QuietRests
    <2> QED BY <2>1, <2>2, <2>3
  <1>4. ASSUME NEW id \in Ids, RowControl(id) \/ CancelPromptQueued(id)
        PROVE  StartsAtRest
    BY <1>4, ControlRests
  <1>5. CASE \/ Clear \/ Cancel \/ Lifecycle \/ DisposalDone
             \/ \E id \in Ids : CancelPromptRunning(id)
    <2>1. UNCHANGED <<status, turnOf, inbox, promo>>
      BY <1>5 DEF Clear, Control, Cancel, Lifecycle, Suspend, Resume, LoseAgent, Dispose,
           DisposalDone, CancelPromptRunning, CancelAll, agent, prompts
    <2>2. run' \in {run, CancelRun(run), EndDrain(CancelRun(run))}
      BY <1>5 DEF Clear, Cancel, Lifecycle, Suspend, Resume, LoseAgent, Dispose,
           DisposalDone, CancelPromptRunning
    <2> QED BY <1>1, <2>1, <2>2, RpcStays, QuietRests
  <1>6. CASE Reorder
    <2>1. turnOf' = turnOf /\ \E rows : Promote(rows, held, run, outcome)
      BY <1>6 DEF Reorder, Control
    <2> QED BY <2>1, PromoteRests
  <1>7. CASE FinishRun
    <2>1. ~Inflight(Free) /\ turnOf' = turnOf
      BY <1>7 DEF Inflight, Free, FinishRun
    <2>2. \/ \E out : Promote(queue, held, Free, out)
          \/ UNCHANGED <<status, inbox, promo>> /\ run' = Free
      BY <1>7 DEF FinishRun, Stay
    <2> QED BY <2>1, <2>2, PromoteRests, QuietRests
  <1>8. CASE PromotionFires
    <2>1. /\ promo = "ready" /\ promo' = "none" /\ turnOf' = turnOf
          /\ status = "idle" /\ turnOf = None
      BY <1>8 DEF PromotionFires, AtRest
    <2>2. CASE Stay(queue, run, outcome)
      BY <2>1, <2>2, QuietRests DEF Stay
    <2>3. CASE Advance(queue, held, run, outcome) /\ MayAdvance(queue, held, run)
      <3>1. PICK ok \in MayThrow("followup") :
              /\ status' = IF ok THEN "running" ELSE status
              /\ inbox' = IF ok THEN Append(inbox, queue[1]) ELSE inbox
        BY <2>3 DEF Advance, RunPrompt
      <3> QED BY <2>1, <3>1 DEF AtRest, StartsAtRest
    <2> QED BY <1>8, <2>2, <2>3 DEF PromotionFires, Advance
  <1>9. CASE AgentWorks \/ AgentIdleFails \/ AgentWakes
    <2>1. run'.rpc = run.rpc
      <3>1. CASE \E reason \in {"completed", "cancelled", "failed"} : AgentTurnEnds(reason)
        <4>1. PICK reason \in {"completed", "cancelled", "failed"} :
                run' = run \/ run' = SettleRun(run, reason, reason = "cancelled")
          BY <3>1 DEF AgentTurnEnds
        <4> QED BY <4>1 DEF SettleRun, Stopped
      <3>2. CASE ~ \E reason \in {"completed", "cancelled", "failed"} : AgentTurnEnds(reason)
        BY <1>1, <1>9, <3>2, RpcStays DEF AgentWorks, AgentClaims, AgentDiscards, AgentIdles,
           AgentQuiet, AgentIdleFails, AgentWakes
      <3> QED BY <3>1, <3>2
    <2>2. AtRest'
      BY <1>9 DEF AtRest, AgentWorks, AgentClaims, AgentDiscards, AgentTurnEnds, AgentIdles,
                  AgentQuiet, AgentIdleFails, AgentWakes, agent
    <2> QED BY <2>1, <2>2 DEF StartsAtRest, Started
  <1>10. CASE UNCHANGED vars
    BY <1>10, QuietRests DEF vars, agent, prompts
  <1> QED
    BY <1>2, <1>3, <1>4, <1>5, <1>6, <1>7, <1>8, <1>9, <1>10 DEF Next

\* followup() is called on an agent that is at rest only, whichever of its waits
\* fails: no prompt is handed over while a turn runs or ends.
THEOREM PromptsStartAtRest == Spec => StartsAtIdle
  <1> DEFINE D == Started => status = "idle" /\ turnOf = None
  <1>1. Init => AtRest
    BY DEF Init, AtRest
  <1>2. ASSUME TypeOK, AtRest, [Next]_vars PROVE AtRest' /\ [D]_vars
    BY <1>2, NextRests DEF StartsAtRest
  <1> QED BY <1>1, <1>2, TypeCorrect, PTL DEF Spec, StartsAtIdle

-----------------------------------------------------------------------------
\* The order of admission.

\* Requests come in the order of their numbers, and the slots of the admission
\* chain are passed in that order: what is admitted has only released slots
\* before it.
Chain ==
    /\ \A r, s \in Rpc : r < s /\ outcome[s] # "new" => outcome[r] # "new"
    /\ \A r \in Rpc : slot[r] = "released" => r \in retired
    /\ \A r \in preparations : slot[r] \in {"admitted", "released"}
    /\ \A r, s \in Rpc : r < s /\ slot[s] \in {"admitted", "released"} =>
         slot[r] \in {"none", "released"}

LEMMA LastExists ==
    ASSUME NEW n \in Nat, NEW S \in SUBSET (1..n), S # {}
    PROVE  \E x \in S : \A y \in S : x >= y
  <1> DEFINE T == {n - x : x \in S}
  <1>1. T \subseteq Nat /\ T # {}
    <2>1. \A x \in S : n - x \in Nat
      OBVIOUS
    <2>2. PICK x \in S : TRUE
      OBVIOUS
    <2>3. n - x \in T
      BY <2>2
    <2> QED BY <2>1, <2>3
  <1>2. PICK m \in T : \A y \in T : ~ (<<y, m>> \in OpToRel(<, Nat))
    BY <1>1, WFMin, NatLessThanWellFounded
  <1>3. \A y \in T : ~ (y < m)
    BY <1>1, <1>2 DEF OpToRel
  <1>4. PICK x \in S : m = n - x
    OBVIOUS
  <1>5. \A y \in S : x >= y
    BY <1>3, <1>4
  <1> QED BY <1>5

\* The slot before this one is released, and so are those before that one.
LEMMA TurnComes ==
    ASSUME TypeOK, Chain, NEW r \in Rpc, AdmissionTurn(r)
    PROVE  \A q \in 1..(r - 1) : slot[q] \in {"none", "released"}
  <1> DEFINE earlier == {s \in 1..(r - 1) : slot[s] # "none"}
  <1>1. r \in Nat /\ r - 1 \in Nat /\ \A q \in 1..(r - 1) : q \in Rpc
    BY PromptQueueAssumption DEF Rpc
  <1>2. earlier # {} => slot[Max(earlier)] = "released"
    BY DEF AdmissionTurn
  <1> SUFFICES ASSUME NEW q \in 1..(r - 1), slot[q] # "none"
               PROVE  slot[q] = "released"
    OBVIOUS
  <1>3. q \in earlier /\ earlier \in SUBSET (1..(r - 1))
    OBVIOUS
  <1>4. \E x \in earlier : \A y \in earlier : x >= y
    BY <1>1, <1>3, LastExists
  <1>5. /\ Max(earlier) \in earlier /\ \A y \in earlier : Max(earlier) >= y
    BY <1>4 DEF Max
  <1> DEFINE last == Max(earlier)
  <1>6. last \in 1..(r - 1) /\ last >= q /\ slot[last] = "released"
    BY <1>2, <1>3, <1>5
  <1> HIDE DEF earlier, last
  <1>7. CASE q = last
    BY <1>6, <1>7
  <1>8. CASE q < last
    BY <1>1, <1>6, <1>8 DEF Chain
  <1> QED BY <1>1, <1>6, <1>7, <1>8

\* Slots that stay, or are released by those that own them, keep the chain.
LEMMA ChainKept ==
    ASSUME TypeOK, Chain,
           \A r \in Rpc : outcome'[r] = "new" <=> outcome[r] = "new",
           \A r \in Rpc : slot'[r] = slot[r] \/ (slot[r] = "admitted" /\ slot'[r] = "released"),
           \A r \in Rpc : slot'[r] = "released" => r \in retired',
           preparations' \subseteq preparations
    PROVE  Chain'
  <1>1. \A r, s \in Rpc : r < s /\ outcome'[s] # "new" => outcome'[r] # "new"
    BY DEF Chain
  <1>2. \A r \in preparations' : slot'[r] \in {"admitted", "released"}
    BY DEF Chain, TypeOK
  <1>3. \A r, s \in Rpc : r < s /\ slot'[s] \in {"admitted", "released"} =>
          slot'[r] \in {"none", "released"}
    <2> SUFFICES ASSUME NEW r \in Rpc, NEW s \in Rpc, r < s,
                        slot'[s] \in {"admitted", "released"}
                 PROVE  slot'[r] \in {"none", "released"}
      OBVIOUS
    <2>1. slot[s] \in {"admitted", "released"}
      OBVIOUS
    <2>2. slot[r] \in {"none", "released"}
      BY <2>1 DEF Chain
    <2> QED BY <2>2
  <1> QED BY <1>1, <1>2, <1>3 DEF Chain

\* A slot whose turn has come is passed, admitted or refused.
LEMMA TurnKept ==
    ASSUME TypeOK, Chain, NEW r \in Rpc, AdmissionTurn(r),
           \A q \in Rpc : outcome'[q] = "new" <=> outcome[q] = "new",
           NEW to \in {"admitted", "released"}, slot' = [slot EXCEPT ![r] = to],
           to = "released" => r \in retired',
           retired \subseteq retired', preparations' \subseteq preparations \cup {r}
    PROVE  Chain'
  <1>1. \A q \in Rpc : slot'[q] = IF q = r THEN to ELSE slot[q]
    BY DEF TypeOK
  <1>2. \A q, s \in Rpc : q < s /\ outcome'[s] # "new" => outcome'[q] # "new"
    BY DEF Chain
  <1>3. \A q \in Rpc : slot'[q] = "released" => q \in retired'
    BY <1>1 DEF Chain
  <1>4. \A q \in preparations' : slot'[q] \in {"admitted", "released"}
    BY <1>1 DEF Chain, TypeOK
  <1>5. slot[r] = "waiting"
    BY DEF AdmissionTurn
  <1>6. \A q, s \in Rpc : q < s /\ slot'[s] \in {"admitted", "released"} =>
          slot'[q] \in {"none", "released"}
    <2> SUFFICES ASSUME NEW q \in Rpc, NEW s \in Rpc, q < s,
                        slot'[s] \in {"admitted", "released"}
                 PROVE  slot'[q] \in {"none", "released"}
      OBVIOUS
    <2>1. CASE s = r
      <3>1. q \in 1..(r - 1) /\ q # r
        BY <2>1, PromptQueueAssumption DEF Rpc
      <3> QED BY <1>1, <3>1, TurnComes
    <2>2. CASE s # r
      <3>1. slot[s] \in {"admitted", "released"}
        BY <1>1, <2>2
      <3>2. slot[q] \in {"none", "released"}
        BY <3>1 DEF Chain
      <3>3. q # r
        BY <1>5, <3>2
      <3> QED BY <1>1, <3>2, <3>3
    <2> QED BY <2>1, <2>2
  <1> QED BY <1>2, <1>3, <1>4, <1>6 DEF Chain

LEMMA LaterNew ==
    ASSUME NEW out, Later(outcome, out)
    PROVE  \A r \in Rpc : out[r] = "new" <=> outcome[r] = "new"
  BY DEF Later

LEMMA SettleFurther ==
    ASSUME NEW out, Later(outcome, out), NEW T, NEW how \in {"cancelled", "completed", "rejected"}
    PROVE  Later(outcome, SettleRpcs(out, T, how))
  BY SettleLater, LaterTransitive

LEMMA SettledStay ==
    ASSUME NEW out, Later(outcome, out), NEW x \in Rpc,
           outcome[x] \in {"cancelled", "completed", "rejected"}
    PROVE  out[x] = outcome[x]
  BY DEF Later

\* What the queue and the agent have got is what they had, and what enters.
Entering(S) ==
    /\ Placed' \subseteq Placed \cup S
    /\ handed' \ handed \subseteq ToSet(queue) \cup S
    /\ Later(outcome, outcome')

LEMMA PartsOfPlaced ==
    /\ Placed = ToSet(queue) \cup steered \cup handed \cup SlotOf(run)
    /\ Placed' = ToSet(queue') \cup steered' \cup handed' \cup SlotOf(run')
  BY DEF Placed, SlotOf

LEMMA StayEnters ==
    ASSUME NEW rows, NEW r, NEW out, NEW S, Stay(rows, r, out),
           ToSet(rows) \subseteq ToSet(queue) \cup S, SlotOf(r) \subseteq SlotOf(run),
           steered' \subseteq steered, Later(outcome, out)
    PROVE  Entering(S)
  <1>1. queue' = rows /\ run' = r /\ outcome' = out /\ handed' = handed
    BY DEF Stay
  <1> QED BY <1>1, PartsOfPlaced DEF Entering

LEMMA AdvanceEnters ==
    ASSUME TypeOK, NEW rows \in Seq(Rpc), NEW holds, NEW r, NEW out, NEW S,
           Advance(rows, holds, r, out),
           ToSet(rows) \subseteq ToSet(queue) \cup S, SlotOf(r) \subseteq SlotOf(run),
           steered' \subseteq steered, Later(outcome, out)
    PROVE  Entering(S)
  <1>1. CASE MayAdvance(rows, holds, r)
    <2> DEFINE k == Folded(rows, holds)
               folded == {rows[i] : i \in 2..(k + 1)}
    <2>1. r = Free /\ rows # <<>> /\ Len(rows) \in Nat /\ Len(rows) >= 1
      BY <1>1 DEF MayAdvance
    <2>2. k \in 0..(Len(rows) - 1)
      BY <2>1, FoldedRange
    <2>3. /\ queue' = SubSeq(rows, k + 2, Len(rows))
          /\ outcome' = SettleRpcs(out, folded, "cancelled")
          /\ RunPrompt(rows[1], folded)
      BY <1>1 DEF Advance
    <2> HIDE DEF k
    <2>4. ToSet(queue') \subseteq ToSet(rows)
      BY <2>1, <2>2, <2>3 DEF ToSet
    <2>5. rows[1] \in ToSet(rows) /\ folded \subseteq ToSet(rows)
      BY <2>1, <2>2 DEF ToSet
    <2> HIDE DEF folded
    <2>6. SlotOf(run') \subseteq {rows[1]} /\ handed' \subseteq handed \cup {rows[1]} \cup folded
      BY <2>3 DEF RunPrompt, SlotOf
    <2>7. Later(outcome, outcome')
      BY <2>3, SettleFurther
    <2> QED BY <2>4, <2>5, <2>6, <2>7, PartsOfPlaced DEF Entering
  <1>2. CASE ~MayAdvance(rows, holds, r)
    BY <1>2, StayEnters DEF Advance
  <1> QED BY <1>1, <1>2

LEMMA PromoteEnters ==
    ASSUME TypeOK, NEW rows \in Seq(Rpc), NEW holds, NEW r, NEW out, NEW S,
           Promote(rows, holds, r, out) \/ Stay(rows, r, out) \/ Advance(rows, holds, r, out),
           ToSet(rows) \subseteq ToSet(queue) \cup S, SlotOf(r) \subseteq SlotOf(run),
           steered' \subseteq steered, Later(outcome, out)
    PROVE  Entering(S)
  BY StayEnters, AdvanceEnters DEF Promote

\* Steps that neither start a prompt nor call the agent.
LEMMA QuietEnters ==
    ASSUME handed' = handed, steered' = steered, SlotOf(run') = SlotOf(run),
           NEW S, ToSet(queue') \subseteq ToSet(queue) \cup S, Later(outcome, outcome')
    PROVE  Entering(S)
  BY PartsOfPlaced DEF Entering

LEMMA ControlEnters ==
    ASSUME OwnInv, NEW id \in Ids, RowControl(id) \/ CancelPromptQueued(id)
    PROVE  Entering({}) /\ UNCHANGED admission
  <1> SUFFICES Entering({})
    BY DEF RowControl, ResyncRow, Interject, SteerRow, RemoveRow, RemoveRunning,
           RemoveUnknown, EditRow, HoldEdit, ReleaseEdit, CancelPromptQueued, Control,
           admission
  <1>1. /\ queue \in Seq(Rpc) /\ run \in RunType /\ TypeOK /\ Later(outcome, outcome)
    BY DEF OwnInv, TypeOK, Later
  <1>2. ASSUME NEW r \in {run, CancelRun(run)}, NEW holds, steered' = steered,
               Promote(queue, holds, r, outcome) \/ Stay(queue, r, outcome)
        PROVE  Entering({})
    BY <1>1, <1>2, SlotStays, PromoteEnters
  <1>3. ASSUME NEW i \in RowsWith(id), NEW holds, steered' = steered,
               Promote(RemoveAt(queue, i), holds, run,
                       SettleRpcs(outcome, {queue[i]}, "cancelled"))
        PROVE  Entering({})
    <2> DEFINE rows == RemoveAt(queue, i)
               out == SettleRpcs(outcome, {queue[i]}, "cancelled")
    <2>1. rows \in Seq(Rpc) /\ ToSet(rows) \subseteq ToSet(queue)
      BY RowOwner
    <2>2. Later(outcome, out)
      BY <1>1, SettleFurther
    <2>3. Promote(rows, holds, run, out)
      BY <1>3
    <2> HIDE DEF rows, out
    <2> QED BY <1>1, <1>3, <2>1, <2>2, <2>3, PromoteEnters
  <1>4. CASE ResyncRow(id) \/ EditRow(id) \/ RemoveRunning(id) \/ RemoveUnknown(id)
               \/ ReleaseEdit(id)
    BY <1>2, <1>4 DEF ResyncRow, EditRow, RemoveRunning, RemoveUnknown, ReleaseEdit
  <1>5. CASE RemoveRow(id) \/ CancelPromptQueued(id)
    BY <1>3, <1>5 DEF RemoveRow, CancelPromptQueued
  <1>6. CASE Interject(id)
    <2>1. PICK i \in RowsWith(id) :
            LET rows == <<queue[i]>> \o RemoveAt(queue, i) IN
            \/ Promote(rows, held', run, outcome)
            \/ /\ Inflight(run)
               /\ queue' = rows
               /\ run' \in {CancelRun(StampSendNow(run)), StampSendNow(run)}
               /\ UNCHANGED <<outcome, handed>>
      BY <1>6 DEF Interject
    <2> DEFINE rows == <<queue[i]>> \o RemoveAt(queue, i)
    <2>2. rows \in Seq(Rpc) /\ ToSet(rows) = ToSet(queue)
      BY RowOwner
    <2>3. steered' = steered
      BY <1>6 DEF Interject
    <2> HIDE DEF rows
    <2>4. CASE Promote(rows, held', run, outcome)
      BY <1>1, <2>2, <2>3, <2>4, PromoteEnters
    <2>5. CASE /\ Inflight(run)
               /\ queue' = rows
               /\ run' \in {CancelRun(StampSendNow(run)), StampSendNow(run)}
               /\ UNCHANGED <<outcome, handed>>
      BY <1>1, <2>2, <2>3, <2>5, SlotStays, QuietEnters
    <2> QED BY <2>1, <2>4, <2>5 DEF rows
  <1>7. CASE SteerRow(id)
    <2>1. PICK i \in RowsWith(id) :
            \/ Promote(queue, held, run, outcome) /\ UNCHANGED steered
            \/ /\ UNCHANGED run
               /\ \E ok \in MayThrow("steer") :
                    /\ queue' = IF ok THEN RemoveAt(queue, i) ELSE queue
                    /\ steered' = IF ok THEN steered \cup {queue[i]} ELSE steered
                    /\ handed' = IF ok THEN handed \cup {queue[i]} ELSE handed
                    /\ outcome' = IF ok THEN outcome
                                  ELSE SettleRpcs(outcome, {queue[i]}, "rejected")
      BY <1>7 DEF SteerRow
    <2>2. CASE Promote(queue, held, run, outcome) /\ UNCHANGED steered
      BY <1>2, <2>2
    <2>3. ASSUME NEW ok \in MayThrow("steer"), UNCHANGED run,
                 queue' = IF ok THEN RemoveAt(queue, i) ELSE queue,
                 steered' = IF ok THEN steered \cup {queue[i]} ELSE steered,
                 handed' = IF ok THEN handed \cup {queue[i]} ELSE handed,
                 outcome' = IF ok THEN outcome
                            ELSE SettleRpcs(outcome, {queue[i]}, "rejected")
          PROVE  Entering({})
      <3>1. /\ ToSet(RemoveAt(queue, i)) \subseteq ToSet(queue)
            /\ queue[i] \in ToSet(queue)
        BY RowOwner
      <3>2. Later(outcome, SettleRpcs(outcome, {queue[i]}, "rejected"))
        BY <1>1, SettleFurther
      <3> QED BY <1>1, <2>3, <3>1, <3>2, PartsOfPlaced DEF Entering
    <2> QED BY <2>1, <2>2, <2>3
  <1>8. CASE HoldEdit(id)
    BY <1>1, <1>8, QuietEnters DEF HoldEdit
  <1> QED
    BY <1>4, <1>5, <1>6, <1>7, <1>8 DEF RowControl

\* What is admitted is prepared, and was neither retired nor outdated.
Admits ==
    /\ Chain'
    /\ \E S \in SUBSET preparations :
        /\ S \cap (retired \cup outdated) = {}
        /\ Placed' \subseteq Placed \cup S
        /\ handed' \ handed \subseteq ToSet(queue) \cup S
    /\ \A x \in Rpc : outcome[x] \in {"cancelled", "completed", "rejected"} =>
         outcome'[x] = outcome[x]

LEMMA NothingEnters ==
    ASSUME Chain', Placed' \subseteq Placed, handed' \ handed \subseteq ToSet(queue),
           \A x \in Rpc : outcome[x] \in {"cancelled", "completed", "rejected"} =>
             outcome'[x] = outcome[x]
    PROVE  Admits
  <1>1. /\ {} \cap (retired \cup outdated) = {}
        /\ Placed' \subseteq Placed \cup {}
        /\ handed' \ handed \subseteq ToSet(queue) \cup {}
    OBVIOUS
  <1>2. {} \in SUBSET preparations
    OBVIOUS
  <1> QED BY <1>1, <1>2 DEF Admits

LEMMA QueueAdmits ==
    ASSUME OwnInv, Chain, UNCHANGED <<slot, retired, preparations>>, Entering({})
    PROVE  Admits
  <1>1. TypeOK /\ \A x \in Rpc : outcome'[x] = "new" <=> outcome[x] = "new"
    BY LaterNew DEF OwnInv, Entering
  <1>2. \A x \in Rpc : slot'[x] = "released" => x \in retired'
    BY DEF Chain
  <1>3. Chain'
    BY <1>1, <1>2, ChainKept
  <1> QED BY <1>3, SettledStay, NothingEnters DEF Entering

LEMMA SubmissionAdmits ==
    ASSUME OwnInv, Chain, NEW r \in Rpc,
           SubmitRefused(r) \/ \E id \in Ids : Submit(r, id)
    PROVE  Admits
  <1>1. /\ UNCHANGED <<retired, preparations>> /\ Placed' = Placed /\ handed' = handed
    BY DEF SubmitRefused, Submit, admission, prompts, wire, Placed
  <1>2. /\ outcome[r] = "new" /\ \A q \in 1..(r - 1) : outcome[q] # "new"
        /\ \E how \in {"pending", "rejected"} : outcome' = [outcome EXCEPT ![r] = how]
        /\ slot' = slot \/ slot' = [slot EXCEPT ![r] = "waiting"]
    BY DEF SubmitRefused, Submit, admission, NextRpc, Submitted
  <1>3. \A q \in Rpc : /\ outcome'[q] = "new" <=> (outcome[q] = "new" /\ q # r)
                       /\ outcome[q] # "new" => outcome'[q] = outcome[q]
    BY <1>2 DEF OwnInv, TypeOK
  <1>4. \A q \in Rpc : slot'[q] = slot[q] \/ (q = r /\ slot'[q] = "waiting")
    <2>1. slot \in [Rpc -> {"none", "waiting", "admitted", "released"}]
      BY DEF OwnInv, TypeOK
    <2>2. CASE slot' = slot
      BY <2>2
    <2>3. CASE slot' = [slot EXCEPT ![r] = "waiting"]
      BY <2>1, <2>3
    <2> QED BY <1>2, <2>2, <2>3
  <1>5. slot[r] = "none" /\ r \notin preparations
    BY <1>2 DEF OwnInv, Owned, Fresh
  <1>6. \A q, s \in Rpc : q < s /\ outcome'[s] # "new" => outcome'[q] # "new"
    <2> SUFFICES ASSUME NEW q \in Rpc, NEW s \in Rpc, q < s, outcome'[s] # "new"
                 PROVE  outcome'[q] # "new"
      OBVIOUS
    <2>1. CASE s = r
      <3>1. q \in 1..(r - 1)
        BY <2>1, PromptQueueAssumption DEF Rpc
      <3> QED BY <1>2, <1>3, <3>1
    <2>2. CASE s # r
      BY <1>3, <2>2 DEF Chain
    <2> QED BY <2>1, <2>2
  <1>7. \A q, s \in Rpc : q < s /\ slot'[s] \in {"admitted", "released"} =>
          slot'[q] \in {"none", "released"}
    <2> SUFFICES ASSUME NEW q \in Rpc, NEW s \in Rpc, q < s,
                        slot'[s] \in {"admitted", "released"}
                 PROVE  slot'[q] \in {"none", "released"}
      OBVIOUS
    <2>1. slot[s] \in {"admitted", "released"}
      BY <1>4
    <2>2. outcome[s] # "new"
      BY <2>1 DEF OwnInv, Owned, Fresh
    <2>3. q # r
      BY <1>2, <2>2 DEF Chain
    <2>4. slot[q] \in {"none", "released"}
      BY <2>1 DEF Chain
    <2> QED BY <1>4, <2>3, <2>4
  <1>8. \A q \in preparations' : slot'[q] \in {"admitted", "released"}
    BY <1>1, <1>4, <1>5 DEF Chain, OwnInv, TypeOK
  <1>9. \A q \in Rpc : slot'[q] = "released" => q \in retired'
    BY <1>1, <1>4 DEF Chain
  <1>10. Chain'
    BY <1>6, <1>7, <1>8, <1>9 DEF Chain
  <1> QED BY <1>1, <1>3, <1>10, NothingEnters

LEMMA AdmissionAdmits ==
    ASSUME OwnInv, Chain, NEW r \in Rpc, Admit(r) \/ Prepare(r) \/ CancelPromptPreparing(r)
    PROVE  Admits
  <1>0. /\ \A x \in Rpc : slot[x] = "released" => x \in retired
        /\ \A x \in preparations : slot[x] \in {"admitted", "released"}
    BY DEF Chain
  <1>1. TypeOK /\ queue \in Seq(Rpc) /\ run \in RunType /\ Later(outcome, outcome)
    BY DEF OwnInv, TypeOK, Later
  \* Nothing enters.
  <1>2. ASSUME Chain', UNCHANGED <<prompts, run, handed>>, Later(outcome, outcome')
        PROVE  Admits
    <2>1. Placed' = Placed
      BY <1>2, PartsOfPlaced DEF prompts
    <2> QED BY <1>2, <2>1, SettledStay, NothingEnters
  <1>3. ASSUME NEW how \in {"cancelled", "rejected"}, RefuseAdmission(r, how)
        PROVE  Later(outcome, outcome') /\ Retire(r) /\ UNCHANGED <<prompts, run, handed>>
    BY <1>1, <1>3, SettleFurther DEF RefuseAdmission, wire
  <1>4. Refusal(r) # None => Refusal(r) \in {"cancelled", "rejected"}
    BY DEF Refusal
  <1>5. CASE PassRetired(r)
    <2>1. Chain'
      BY <1>1, <1>5, TurnKept DEF PassRetired, requests
    <2> QED BY <1>1, <1>2, <1>5, <2>1 DEF PassRetired, wire, requests
  <1>6. CASE StartPreparation(r)
    <2>1. Chain'
      BY <1>1, <1>6, TurnKept DEF StartPreparation, requests
    <2> QED BY <1>1, <1>2, <1>6, <2>1 DEF StartPreparation, wire, requests
  <1>7. CASE RefuseTurn(r)
    <2>1. Later(outcome, outcome') /\ Retire(r) /\ UNCHANGED <<prompts, run, handed>>
      BY <1>3, <1>4, <1>7 DEF RefuseTurn
    <2>2. Chain'
      BY <1>1, <1>7, <2>1, TurnKept, LaterNew DEF RefuseTurn, Retire
    <2> QED BY <1>2, <2>1, <2>2
  \* The slot of a preparation is released.
  <1>8. ASSUME Retire(r), r \in preparations, preparations' \subseteq preparations,
               Later(outcome, outcome')
        PROVE  Chain'
    <2>1. /\ retired' = retired \cup {r}
          /\ \A x \in Rpc : slot'[x] = IF x = r THEN "released" ELSE slot[x]
      BY <1>1, <1>8 DEF Retire, TypeOK
    <2>2. \A x \in Rpc : slot'[x] = slot[x] \/ (slot[x] = "admitted" /\ slot'[x] = "released")
      BY <1>0, <1>8, <2>1
    <2>3. \A x \in Rpc : slot'[x] = "released" => x \in retired'
      BY <1>0, <2>1
    <2> QED BY <1>1, <1>8, <2>2, <2>3, ChainKept, LaterNew
  <1>9. CASE LatePreparation(r)
    <2>1. /\ UNCHANGED <<outcome, slot, retired>> /\ preparations' \subseteq preparations
      BY <1>9 DEF LatePreparation, requests
    <2>2. \A x \in Rpc : slot'[x] = "released" => x \in retired'
      BY <1>0, <2>1
    <2>3. Chain'
      BY <1>1, <2>1, <2>2, ChainKept
    <2> QED BY <1>1, <1>2, <1>9, <2>3 DEF LatePreparation, wire, requests
  <1>10. CASE PreparationFails(r)
    <2>1. Later(outcome, outcome') /\ Retire(r) /\ UNCHANGED <<prompts, run, handed>>
      BY <1>3, <1>4, <1>10 DEF PreparationFails
    <2>2. Chain'
      BY <1>8, <1>10, <2>1 DEF PreparationFails
    <2> QED BY <1>2, <2>1, <2>2
  <1>11. CASE CancelPromptPreparing(r)
    <2>1. /\ retired' = retired \cup {r} /\ preparations' = preparations
          /\ \A x \in Rpc : slot'[x] = IF x = r /\ slot[r] = "admitted" THEN "released" ELSE slot[x]
          /\ Later(outcome, outcome')
      BY <1>1, <1>11, SettleFurther DEF CancelPromptPreparing, TypeOK
    <2>2. \A x \in Rpc : slot'[x] = slot[x] \/ (slot[x] = "admitted" /\ slot'[x] = "released")
      BY <2>1
    <2>3. \A x \in Rpc : slot'[x] = "released" => x \in retired'
      BY <1>0, <2>1
    <2>4. Chain'
      BY <1>1, <2>1, <2>2, <2>3, ChainKept, LaterNew
    <2> QED BY <1>2, <1>11, <2>1, <2>4 DEF CancelPromptPreparing, wire
  \* Prepared content enters.
  <1>12. ASSUME Prepared(r), Entering({r}) PROVE Admits
    <2>1. /\ r \in preparations /\ r \notin retired /\ r \notin outdated /\ Retire(r)
          /\ preparations' \subseteq preparations
      BY <1>12, PromptQueueAssumption DEF Prepared, Refusal
    <2>2. Chain'
      BY <1>8, <1>12, <2>1 DEF Entering
    <2> QED BY <1>12, <2>1, <2>2, SettledStay DEF Admits, Entering
  <1>13. CASE EnqueueSendNow(r)
    <2>1. PICK ok \in MayThrow("cancel") :
            outcome' = IF ok THEN outcome ELSE SettleRpcs(outcome, {r}, "rejected")
      BY <1>13 DEF EnqueueSendNow
    <2>2. Later(outcome, outcome')
      <3>1. Later(outcome, SettleRpcs(outcome, {r}, "rejected"))
        BY <1>1, SettleFurther
      <3> QED BY <1>1, <2>1, <3>1
    <2>3. /\ Prepared(r) /\ queue' = <<r>> \o queue /\ UNCHANGED <<steered, handed>>
          /\ SlotOf(run') = SlotOf(run)
      BY <1>1, <1>13, SlotStays DEF EnqueueSendNow
    <2>4. ToSet(queue') \subseteq ToSet(queue) \cup {r}
      BY <1>1, <2>3, PrependElements
    <2> QED BY <1>12, <2>2, <2>3, <2>4, QuietEnters
  <1>14. CASE EnqueueSteer(r)
    <2>1. PICK ok \in MayThrow("steer") :
            /\ steered' = IF ok THEN steered \cup {r} ELSE steered
            /\ handed' = IF ok THEN handed \cup {r} ELSE handed
            /\ outcome' = IF ok THEN outcome ELSE SettleRpcs(outcome, {r}, "rejected")
      BY <1>14 DEF EnqueueSteer
    <2>2. Later(outcome, outcome')
      <3>1. Later(outcome, SettleRpcs(outcome, {r}, "rejected"))
        BY <1>1, SettleFurther
      <3> QED BY <1>1, <2>1, <3>1
    <2>3. Prepared(r) /\ UNCHANGED <<queue, run>>
      BY <1>14 DEF EnqueueSteer
    <2>4. Entering({r})
      BY <2>1, <2>2, <2>3, PartsOfPlaced DEF Entering
    <2> QED BY <1>12, <2>3, <2>4
  <1>15. CASE EnqueueRow(r)
    <2>1. /\ Prepared(r) /\ steered' = steered
          /\ Promote(Append(queue, r), held, run, outcome)
      BY <1>15 DEF EnqueueRow
    <2>2. Append(queue, r) \in Seq(Rpc) /\ ToSet(Append(queue, r)) \subseteq ToSet(queue) \cup {r}
      BY <1>1, AppendElements
    <2>3. Entering({r})
      BY <1>1, <2>1, <2>2, PromoteEnters
    <2> QED BY <1>12, <2>1, <2>3
  <1> QED
    BY <1>5, <1>6, <1>7, <1>9, <1>10, <1>11, <1>13, <1>14, <1>15 DEF Admit, Prepare

LEMMA LifecycleAdmits ==
    ASSUME OwnInv, Chain,
           \/ Clear \/ Cancel \/ Lifecycle \/ DisposalDone
           \/ \E id \in Ids : CancelPromptRunning(id)
    PROVE  Admits
  <1>1. run \in RunType /\ Later(outcome, outcome)
    BY DEF OwnInv, TypeOK, Later
  <1>2. UNCHANGED <<slot, retired, preparations, handed, steered>>
    BY DEF Clear, Control, Cancel, Lifecycle, Suspend, Resume, LoseAgent, Dispose,
           DisposalDone, CancelPromptRunning, CancelAll, admission, prompts, wire
  <1>3. SlotOf(run') = SlotOf(run)
    BY <1>1, SlotStays
       DEF Clear, Cancel, Lifecycle, Suspend, Resume, LoseAgent, Dispose,
           DisposalDone, CancelPromptRunning
  <1>4. CASE Discard
    <2>1. ToSet(queue') = {} /\ Later(outcome, outcome')
      BY <1>1, <1>4, SettleFurther DEF Discard, ToSet
    <2> QED BY <1>2, <1>3, <2>1, QuietEnters, QueueAdmits
  <1>5. CASE UNCHANGED <<queue, outcome>>
    BY <1>1, <1>2, <1>3, <1>5, QuietEnters, QueueAdmits
  <1> QED
    BY <1>4, <1>5
       DEF Clear, Cancel, Lifecycle, Suspend, Resume, LoseAgent, Dispose,
           DisposalDone, CancelPromptRunning, CancelAll, requests, prompts

LEMMA RunsAdmit ==
    ASSUME OwnInv, Chain, Reorder \/ FinishRun \/ PromotionFires
    PROVE  Admits
  <1>1. /\ TypeOK /\ queue \in Seq(Rpc) /\ run \in RunType /\ Later(outcome, outcome)
        /\ SlotOf(Free) = {}
    BY DEF OwnInv, TypeOK, Later, SlotOf
  <1>2. CASE Reorder
    <2>1. PICK p \in Bijection(DOMAIN queue, DOMAIN queue) :
            Promote([i \in DOMAIN queue |-> queue[p[i]]], held, run, outcome)
      BY <1>2 DEF Reorder
    <2> DEFINE rows == [i \in DOMAIN queue |-> queue[p[i]]]
    <2>2. rows \in Seq(Rpc) /\ ToSet(rows) \subseteq ToSet(queue)
      <3>1. p \in [DOMAIN queue -> DOMAIN queue]
        BY DEF Bijection, Injection
      <3>2. DOMAIN queue = 1..Len(queue) /\ Len(queue) \in Nat
        BY <1>1
      <3> QED BY <1>1, <3>1, <3>2 DEF ToSet
    <2>3. UNCHANGED <<slot, retired, preparations, steered>>
      BY <1>2 DEF Reorder, Control, admission
    <2> HIDE DEF rows
    <2>4. Promote(rows, held, run, outcome)
      BY <2>1 DEF rows
    <2> QED BY <1>1, <2>2, <2>3, <2>4, PromoteEnters, QueueAdmits
  <1>3. CASE FinishRun
    <2> DEFINE stop == IF run.stop = "failed" THEN "cancelled" ELSE run.stop
               end(flushed) == IF flushed /\ run.stop # "failed" THEN run.stop ELSE "rejected"
               out(flushed) == SettleRpcs(SettleRpcs(outcome, steered, stop), {run.rpc}, end(flushed))
    <2>1. PICK flushed \in MayThrow("flush") :
            Promote(queue, held, Free, out(flushed)) \/ Stay(queue, Free, out(flushed))
      BY <1>3 DEF FinishRun
    <2>2. run.stop \in {"completed", "cancelled", "failed"}
      BY <1>1, <1>3, RunFields DEF FinishRun
    <2>3. stop \in {"cancelled", "completed", "rejected"}
          /\ end(flushed) \in {"cancelled", "completed", "rejected"}
      BY <2>2
    <2> HIDE DEF stop, end
    <2>4. Later(outcome, out(flushed))
      BY <1>1, <2>3, SettleFurther
    <2>5. steered' \subseteq steered /\ UNCHANGED <<slot, retired, preparations>>
      BY <1>3 DEF FinishRun, admission
    <2> HIDE DEF out
    <2> QED BY <1>1, <2>1, <2>4, <2>5, PromoteEnters, QueueAdmits
  <1>4. CASE PromotionFires
    <2>1. UNCHANGED <<slot, retired, preparations, steered>>
      BY <1>4 DEF PromotionFires, admission
    <2>2. Advance(queue, held, run, outcome) \/ Stay(queue, run, outcome)
      BY <1>4 DEF PromotionFires
    <2> QED BY <1>1, <2>1, <2>2, PromoteEnters, QueueAdmits
  <1> QED BY <1>2, <1>3, <1>4

LEMMA NextAdmits ==
    ASSUME OwnInv, Chain, [Next]_vars
    PROVE  Admits
  <1>1. Later(outcome, outcome)
    BY DEF Later
  <1>2. CASE \E id \in Ids : RowControl(id) \/ CancelPromptQueued(id)
    BY <1>2, ControlEnters, QueueAdmits DEF admission
  <1>3. CASE AgentWorks \/ AgentIdleFails \/ AgentWakes
    <2>1. /\ SlotOf(run') = SlotOf(run)
          /\ UNCHANGED <<requests, admission, queue, steered, wire>>
      BY <1>3, AgentSlot
    <2> QED BY <1>1, <2>1, QuietEnters, QueueAdmits DEF requests, admission, wire
  <1>4. CASE UNCHANGED vars
    BY <1>1, <1>4, QuietEnters, QueueAdmits DEF vars, requests, admission, prompts, wire
  <1> QED
    BY <1>2, <1>3, <1>4, SubmissionAdmits, AdmissionAdmits, LifecycleAdmits, RunsAdmit
       DEF Next

\* Prepared content enters in the order of its requests, and nothing that was
\* cancelled while its content was prepared: whatever the agent throws.
THEOREM ContentEntersInOrder == Spec => AdmissionOrder /\ CancelledStaysOut
  <1> DEFINE O == \A r, s \in Rpc : r < s /\ s \in Placed' \ Placed => r \notin Preparing
             C == (Placed' \ Placed) \cap (outdated \cup retired) = {}
  <1>1. Init => Chain
    BY DEF Init, Chain
  <1>2. OwnInv /\ Chain /\ [Next]_vars => Chain' /\ [O]_vars /\ [C]_vars
    <2> SUFFICES ASSUME OwnInv, Chain, [Next]_vars PROVE Chain' /\ O /\ C
      OBVIOUS
    <2>1. PICK S \in SUBSET preparations :
            S \cap (retired \cup outdated) = {} /\ Placed' \subseteq Placed \cup S
      BY NextAdmits DEF Admits
    <2>2. O
      <3> SUFFICES ASSUME NEW r \in Rpc, NEW s \in Rpc, r < s, s \in Placed' \ Placed
                   PROVE  r \notin Preparing
        OBVIOUS
      <3>1. s \in preparations /\ s \notin retired
        BY <2>1
      <3>2. slot[s] \in {"admitted", "released"}
        BY <3>1 DEF Chain
      <3>3. slot[r] \in {"none", "released"}
        BY <3>2 DEF Chain
      <3> QED BY <3>3 DEF Chain, Preparing
    <2>3. C
      BY <2>1
    <2> QED BY <2>2, <2>3, NextAdmits DEF Admits
  <1> QED
    BY <1>1, <1>2, OwnershipInvariant, PTL DEF Spec, AdmissionOrder, CancelledStaysOut

\* While no cancel() and no steer() of the agent throws, what enters is also
\* still unanswered: the admission of the queue is sound as a whole.
THEOREM AdmissionSound == QuietRows => (Spec => AdmissionIsSound)
  <1> DEFINE N == \A r \in handed' \ handed : outcome[r] = "pending"
  <1> SUFFICES ASSUME QuietRows PROVE Spec => AdmissionIsSound
    OBVIOUS
  <1>1. Init => Chain
    BY DEF Init, Chain
  <1>2. OwnInv /\ Chain /\ [Next]_vars => Chain' /\ [N]_vars
    <2> SUFFICES ASSUME OwnInv, Chain, [Next]_vars PROVE Chain' /\ N
      OBVIOUS
    <2>1. PICK S \in SUBSET preparations :
            S \cap retired = {} /\ handed' \ handed \subseteq ToSet(queue) \cup S
      BY NextAdmits DEF Admits
    <2>2. S \subseteq Preparing
      BY <2>1 DEF OwnInv, Owned, Fresh, Preparing, TypeOK
    <2>3. N
      BY <2>1, <2>2 DEF Active, OwnInv, Owned, OwnedArePending
    <2> QED BY <2>3, NextAdmits DEF Admits
  <1>3. Spec => SettledNeverRuns
    BY <1>1, <1>2, OwnershipInvariant, PTL DEF Spec, SettledNeverRuns
  <1> QED BY <1>3, ContentEntersInOrder DEF AdmissionIsSound

-----------------------------------------------------------------------------
\* What the client is shown.

Answered(x) == outcome[x] \in {"cancelled", "completed", "rejected"}

\* The client knows that this prompt is over.
Told(x) == x \in completed \/ outcome[x] = "rejected"
ToldNow(x) == x \in completed' \/ outcome'[x] = "rejected"

\* No call to the agent throws.
QuietAgent == Faults \cap {"cancel", "steer", "followup"} = {}

Shown ==
    /\ view.rows = queue
    /\ \/ view.running = run.rpc
       \/ run = Free /\ view.running \in Rpc /\ Told(view.running)
    /\ \A x \in completed : Answered(x)

\* A step shows what it leaves, or changes nothing that is shown but for a prompt
\* whose end it tells.
Shows ==
    /\ completed \subseteq completed'
    /\ \A x \in completed' \ completed : Answered(x)'
    /\ \/ view' = Snapshot(queue', run')
       \/ /\ view' = view /\ queue' = queue
          /\ run = Free => run' = Free
          /\ run'.rpc = run.rpc \/ run' = Free
    /\ run = Free \/ run'.rpc = run.rpc \/ ToldNow(run.rpc)

TellsFirst ==
    view.running # None /\ view'.running # view.running =>
      view.running \in completed' \/ outcome'[view.running] = "rejected"

LEMMA ShowsKeeps ==
    ASSUME OwnInv, Chain, Shown, [Next]_vars, Shows
    PROVE  Shown' /\ TellsFirst
  <1>1. \A x \in Rpc : Answered(x) => outcome'[x] = outcome[x]
    BY NextAdmits DEF Admits, Answered
  <1>2. completed \subseteq Rpc /\ run \in RunType
    BY DEF OwnInv, TypeOK
  <1>3. \A x \in Rpc : Told(x) => ToldNow(x)
    BY <1>1 DEF Shows, Told, ToldNow, Answered
  <1>4. \A x \in completed' : Answered(x)'
    BY <1>1, <1>2 DEF Shows, Shown, Answered
  <1>5. /\ run # Free => run.rpc \in Rpc
        /\ Free.rpc = None
    BY <1>2, RunFields DEF Free
  <1>6. CASE view' = Snapshot(queue', run')
    <2>1. view'.rows = queue' /\ view'.running = run'.rpc
      BY <1>6 DEF Snapshot
    <2>2. TellsFirst
      BY <1>3, <1>5, <2>1 DEF Shows, Shown, TellsFirst, ToldNow
    <2> QED BY <1>4, <2>1, <2>2 DEF Shown
  <1>7. CASE /\ view' = view /\ queue' = queue
             /\ run = Free => run' = Free
             /\ run'.rpc = run.rpc \/ run' = Free
    <2>1. \/ view'.running = run'.rpc
          \/ run' = Free /\ view'.running \in Rpc /\ ToldNow(view'.running)
      BY <1>3, <1>5, <1>7 DEF Shown, Shows
    <2> QED BY <1>4, <1>7, <2>1 DEF Shown, TellsFirst, Told, ToldNow
  <1> QED BY <1>6, <1>7 DEF Shows

\* Steps that leave what is shown as it is.
LEMMA QuietShows ==
    ASSUME OwnInv, UNCHANGED <<view, queue, completed>>, SlotOf(run') = SlotOf(run),
           run' \in RunType
    PROVE  Shows
  <1>1. run \in RunType /\ (run # Free => run.rpc \in Rpc) /\ (run' # Free => run'.rpc \in Rpc)
    BY RunFields DEF OwnInv, TypeOK
  <1>2. run = Free => run' = Free
    BY DEF SlotOf
  <1>3. run # Free => run'.rpc = run.rpc
    BY DEF SlotOf
  <1> QED BY <1>2, <1>3 DEF Shows

\* Steps that show what they leave.
LEMMA SnapshotShows ==
    ASSUME completed' = completed, view' = Snapshot(queue', run'),
           run = Free \/ run'.rpc = run.rpc
    PROVE  Shows
  BY DEF Shows

\* Where followup() does not throw, what takes the slot is started.
LEMMA PromotionStarts ==
    ASSUME QuietAgent, NEW rows \in Seq(Rpc), run.rpc \notin ToSet(rows),
           NEW holds, NEW r, NEW out,
           Promote(rows, holds, r, out) \/ Advance(rows, holds, r, out) \/ Stay(rows, r, out)
    PROVE  Stay(rows, r, out) \/ (r = Free /\ Started)
  <1>1. CASE Advance(rows, holds, r, out) /\ MayAdvance(rows, holds, r)
    <2>1. r = Free /\ rows # <<>>
      BY <1>1 DEF MayAdvance
    <2>2. rows[1] \in ToSet(rows)
      BY <2>1 DEF ToSet
    <2>3. PICK ok \in MayThrow("followup") :
            run' = [rpc |-> rows[1], stop |-> IF ok THEN None ELSE "failed",
                    phase |-> IF ok THEN "active" ELSE "flushing", sendNow |-> FALSE]
      BY <1>1 DEF Advance, RunPrompt
    <2>4. ok = TRUE
      BY DEF MayThrow, QuietAgent
    <2> QED BY <2>1, <2>2, <2>3, <2>4 DEF Started, Inflight
  <1> QED BY <1>1 DEF Promote, Advance

LEMMA SlotApart ==
    ASSUME OwnInv
    PROVE  run.rpc \notin ToSet(queue) /\ queue \in Seq(Rpc) /\ run \in RunType
  <1>1. queue \in Seq(Rpc) /\ run \in RunType /\ ToSet(queue) \subseteq Rpc
        /\ ToSet(queue) \cap SlotOf(run) = {}
    BY DEF OwnInv, TypeOK, ToSet, Owned, Apart
  <1>2. CASE run = Free
    BY <1>1, <1>2, PromptQueueAssumption DEF Free
  <1>3. CASE run # Free
    BY <1>1, <1>3 DEF SlotOf
  <1> QED BY <1>1, <1>2, <1>3

LEMMA PromotionShows ==
    ASSUME OwnInv, QuietAgent, completed' = completed,
           NEW rows \in Seq(Rpc), ToSet(rows) \subseteq Rpc, run.rpc \notin ToSet(rows),
           NEW holds, NEW r \in RunType, r.rpc = run.rpc, NEW out,
           Promote(rows, holds, r, out) \/ Advance(rows, holds, r, out) \/ Stay(rows, r, out),
           view' = Snapshot(queue', run')
             \/ (r = run /\ rows = queue /\ view' = view /\ ~Started)
    PROVE  Shows
  <1>1. Free.rpc = None /\ run \in RunType
    BY DEF Free, OwnInv, TypeOK
  <1>2. run # Free => run.rpc # None
    BY <1>1, RunFields, PromptQueueAssumption
  <1>3. CASE Stay(rows, r, out)
    BY <1>3 DEF Stay, Shows
  <1>4. CASE r = Free /\ Started
    BY <1>1, <1>2, <1>4 DEF Shows
  <1> QED BY <1>3, <1>4, PromotionStarts

LEMMA AdmissionShows ==
    ASSUME OwnInv, QuietAgent, NEW r \in Rpc,
           Admit(r) \/ Prepare(r) \/ CancelPromptPreparing(r)
    PROVE  Shows
  <1>1. run \in RunType /\ queue \in Seq(Rpc) /\ run.rpc \notin ToSet(queue)
    BY SlotApart
  <1>2. CASE EnqueueSendNow(r)
    <2>1. /\ Inflight(run) /\ completed' = completed
          /\ run' = CancelRun(StampSendNow(run)) /\ view' = Snapshot(queue', run')
      BY <1>2 DEF EnqueueSendNow, MayThrow, QuietAgent, Prepared
    <2> QED BY <1>1, <2>1, RpcStays, SnapshotShows
  <1>3. CASE EnqueueSteer(r)
    BY <1>3, SnapshotShows DEF EnqueueSteer, Prepared
  <1>4. CASE EnqueueRow(r)
    <2>1. /\ Promote(Append(queue, r), held, run, outcome) /\ completed' = completed
          /\ view' = IF Started \/ run' = run THEN Snapshot(queue', run') ELSE view
      BY <1>4 DEF EnqueueRow, Prepared
    <2>2. r \in preparations /\ r \notin retired
      BY <1>4 DEF EnqueueRow, Prepared
    <2>3. r # run.rpc
      <3>1. r \in Preparing
        BY <2>2 DEF OwnInv, Owned, Fresh, Preparing
      <3>2. run # Free => r # run.rpc
        BY <3>1 DEF OwnInv, Owned, Apart, SlotOf
      <3> QED BY <3>2, PromptQueueAssumption DEF Free
    <2>4. /\ Append(queue, r) \in Seq(Rpc)
          /\ ToSet(Append(queue, r)) \subseteq ToSet(queue) \cup {r}
      BY <1>1, AppendElements
    <2>5. Stay(Append(queue, r), run, outcome) \/ Started
      BY <1>1, <2>1, <2>3, <2>4, PromotionStarts
    <2>6. view' = Snapshot(queue', run')
      BY <2>1, <2>5 DEF Stay
    <2>7. ToSet(Append(queue, r)) \subseteq Rpc /\ run.rpc \notin ToSet(Append(queue, r))
      <3>1. ToSet(queue) \subseteq Rpc
        BY <1>1 DEF ToSet
      <3> QED BY <1>1, <2>3, <2>4, <3>1
    <2> DEFINE rows == Append(queue, r)
    <2>8. rows \in Seq(Rpc) /\ ToSet(rows) \subseteq Rpc /\ run.rpc \notin ToSet(rows)
          /\ Promote(rows, held, run, outcome)
      BY <2>1, <2>4, <2>7
    <2> HIDE DEF rows
    <2> QED BY <1>1, <2>1, <2>6, <2>8, PromotionShows
  <1>5. CASE ~EnqueueSendNow(r) /\ ~EnqueueSteer(r) /\ ~EnqueueRow(r)
    <2>1. UNCHANGED <<view, queue, completed, run>>
      BY <1>5 DEF Admit, Prepare, PassRetired, RefuseTurn, StartPreparation, LatePreparation,
         PreparationFails, RefuseAdmission, CancelPromptPreparing, prompts, wire
    <2> QED BY <1>1, <2>1, QuietShows
  <1> QED BY <1>2, <1>3, <1>4, <1>5

\* An id names one row at most.
LEMMA OneRow ==
    ASSUME OwnInv, NEW id, NEW i \in RowsWith(id), NEW j \in RowsWith(id)
    PROVE  i = j
  <1>1. i \in DOMAIN queue /\ j \in DOMAIN queue /\ pid[queue[i]] = id /\ pid[queue[j]] = id
    BY DEF RowsWith
  <1>2. queue[i] \in Active /\ queue[j] \in Active
    BY <1>1 DEF Active, ToSet
  <1>3. queue[i] = queue[j]
    BY <1>1, <1>2 DEF OwnInv, Owned, UniqueIds
  <1> QED BY <1>1, <1>3 DEF OwnInv, Owned, Apart, IsInjective

LEMMA ControlShows ==
    ASSUME OwnInv, QuietAgent, NEW id \in Ids, RowControl(id) \/ CancelPromptQueued(id)
    PROVE  Shows
  <1>1. /\ run \in RunType /\ queue \in Seq(Rpc) /\ run.rpc \notin ToSet(queue)
        /\ ToSet(queue) \subseteq Rpc
    BY SlotApart DEF ToSet
  <1>2. completed' = completed
    BY DEF RowControl, ResyncRow, Interject, SteerRow, RemoveRow, RemoveRunning,
           RemoveUnknown, EditRow, HoldEdit, ReleaseEdit, CancelPromptQueued, Control
  <1>3. ASSUME NEW r \in {run, CancelRun(run)}, NEW holds,
               Promote(queue, holds, r, outcome), Broadcast
        PROVE  Shows
    <2>1. r \in RunType /\ r.rpc = run.rpc
      BY <1>1, <1>3, RunTypes, RpcStays
    <2> QED BY <1>1, <1>2, <1>3, <2>1, PromotionShows DEF Broadcast
  <1>4. CASE ResyncRow(id) \/ EditRow(id) \/ RemoveUnknown(id)
    BY <1>3, <1>4 DEF ResyncRow, EditRow, RemoveUnknown
  <1>5. CASE Interject(id)
    <2>1. PICK i \in RowsWith(id) :
            LET rows == <<queue[i]>> \o RemoveAt(queue, i) IN
            \/ Promote(rows, held', run, outcome) /\ Broadcast
            \/ /\ Inflight(run)
               /\ run' = CancelRun(StampSendNow(run)) /\ view' = Snapshot(queue', run')
      BY <1>5 DEF Interject, MayThrow, QuietAgent
    <2> DEFINE rows == <<queue[i]>> \o RemoveAt(queue, i)
    <2>2. rows \in Seq(Rpc) /\ ToSet(rows) = ToSet(queue)
      BY RowOwner
    <2> HIDE DEF rows
    <2>3. CASE Promote(rows, held', run, outcome) /\ Broadcast
      BY <1>1, <1>2, <2>2, <2>3, PromotionShows DEF Broadcast
    <2>4. CASE /\ Inflight(run)
               /\ run' = CancelRun(StampSendNow(run)) /\ view' = Snapshot(queue', run')
      BY <1>1, <1>2, <2>4, RpcStays, SnapshotShows
    <2> QED BY <2>1, <2>3, <2>4 DEF rows
  <1>6. CASE SteerRow(id)
    <2>1. \/ Promote(queue, held, run, outcome) /\ Broadcast
          \/ view' = Snapshot(queue', run) /\ run' = run
      BY <1>6 DEF SteerRow
    <2> QED BY <1>2, <1>3, <2>1, SnapshotShows
  \* A row is removed.
  <1>7. ASSUME NEW i \in RowsWith(id), NEW holds,
               Promote(RemoveAt(queue, i), holds, run,
                       SettleRpcs(outcome, {queue[i]}, "cancelled")),
               view' = Snapshot(queue', run')
        PROVE  Shows
    <2> DEFINE rows == RemoveAt(queue, i)
               out == SettleRpcs(outcome, {queue[i]}, "cancelled")
    <2>1. rows \in Seq(Rpc) /\ ToSet(rows) \subseteq ToSet(queue)
          /\ Promote(rows, holds, run, out)
      BY <1>7, RowOwner
    <2> HIDE DEF rows, out
    <2> QED BY <1>1, <1>2, <1>7, <2>1, PromotionShows
  <1>8. CASE RemoveRow(id)
    <2>1. PICK i \in RowsWith(id) :
            Promote(RemoveAt(queue, i), held', run,
                    SettleRpcs(outcome, {queue[i]}, "cancelled"))
      BY <1>8 DEF RemoveRow
    <2>2. (CHOOSE j \in RowsWith(id) : TRUE) = i
      BY <2>1, OneRow
    <2>3. view' = IF Started THEN Snapshot(queue', run')
                  ELSE [rows |-> RemoveAt(queue, i), running |-> run.rpc]
      BY <1>8, <2>2 DEF RemoveRow
    <2> DEFINE rows == RemoveAt(queue, i)
               out == SettleRpcs(outcome, {queue[i]}, "cancelled")
    <2>4. rows \in Seq(Rpc) /\ ToSet(rows) \subseteq ToSet(queue)
          /\ Promote(rows, held', run, out)
      BY <2>1, RowOwner
    <2>5. view' = IF Started THEN Snapshot(queue', run') ELSE [rows |-> rows, running |-> run.rpc]
      BY <2>3
    <2> HIDE DEF rows, out
    <2>6. Stay(rows, run, out) \/ Started
      BY <1>1, <2>4, PromotionStarts
    <2>7. view' = Snapshot(queue', run')
      BY <2>5, <2>6 DEF Stay, Snapshot
    <2> QED BY <1>7, <2>1, <2>7
  <1>9. CASE CancelPromptQueued(id)
    BY <1>7, <1>9 DEF CancelPromptQueued, Broadcast
  <1>10. CASE RemoveRunning(id)
    <2>1. Promote(queue, held', CancelRun(run), outcome) /\ Broadcast
      BY <1>10 DEF RemoveRunning, MayThrow, QuietAgent
    <2> QED BY <1>3, <2>1
  <1>11. CASE HoldEdit(id)
    BY <1>1, <1>2, <1>11, QuietShows DEF HoldEdit
  <1>12. CASE ReleaseEdit(id)
    BY <1>1, <1>2, <1>12, PromotionShows DEF ReleaseEdit, BroadcastIfStarted
  <1> QED
    BY <1>4, <1>5, <1>6, <1>8, <1>9, <1>10, <1>11, <1>12 DEF RowControl

LEMMA LifecycleShows ==
    ASSUME OwnInv, TypeOK',
           \/ Clear \/ Cancel \/ Lifecycle \/ DisposalDone
           \/ \E id \in Ids : CancelPromptRunning(id)
    PROVE  Shows
  <1>1. run \in RunType /\ run' \in RunType
    BY DEF OwnInv, TypeOK
  <1>2. completed' = completed
    BY DEF Clear, Control, Cancel, Lifecycle, Suspend, Resume, LoseAgent, Dispose,
           DisposalDone, CancelPromptRunning, CancelAll, wire
  <1>3. /\ SlotOf(run') = SlotOf(run) /\ run'.rpc = run.rpc
    BY <1>1, SlotStays, RpcStays
       DEF Clear, Cancel, Lifecycle, Suspend, Resume, LoseAgent, Dispose,
           DisposalDone, CancelPromptRunning
  <1>4. CASE queue' = <<>> /\ view' = Snapshot(<<>>, run)
    BY <1>2, <1>3, <1>4, SnapshotShows DEF Snapshot
  <1>5. CASE UNCHANGED <<queue, view>>
    BY <1>1, <1>2, <1>3, <1>5, QuietShows
  <1> QED
    BY <1>4, <1>5
       DEF Clear, Cancel, Lifecycle, Suspend, Resume, LoseAgent, Dispose, Discard,
           DisposalDone, CancelPromptRunning, CancelAll, prompts, wire

LEMMA FinishShows ==
    ASSUME OwnInv, QuietAgent, FinishRun
    PROVE  Shows
  <1> DEFINE stop == IF run.stop = "failed" THEN "cancelled" ELSE run.stop
             good(flushed) == flushed /\ run.stop # "failed"
             mid == SettleRpcs(outcome, steered, stop)
             own == {run.rpc}
             end(flushed) == IF good(flushed) THEN run.stop ELSE "rejected"
             out(flushed) == SettleRpcs(mid, own, end(flushed))
  <1>1. PICK flushed \in MayThrow("flush") :
          /\ completed' = IF good(flushed) THEN completed \cup {run.rpc} ELSE completed
          /\ \/ /\ Promote(queue, held, Free, out(flushed))
                /\ BroadcastIfStarted
             \/ /\ Stay(queue, Free, out(flushed))
                /\ Broadcast
    BY DEF FinishRun
  <1>2. run.phase = "flushing" /\ run \in RunType /\ queue \in Seq(Rpc)
        /\ run.rpc \notin ToSet(queue) /\ ToSet(queue) \subseteq Rpc
    BY SlotApart DEF FinishRun, ToSet
  <1>3. run # Free /\ run.rpc \in Rpc /\ run.stop \in {"completed", "cancelled", "failed"}
    BY <1>2, RunFields DEF Free
  <1>4. run.rpc \notin steered /\ outcome[run.rpc] = "pending"
    <2>1. QuietRows
      BY DEF QuietRows, QuietAgent
    <2>2. run.rpc \in SlotOf(run) /\ run.rpc \in Active
      BY <1>3 DEF SlotOf, Active
    <2> QED BY <2>1, <2>2 DEF OwnInv, Owned, Apart, OwnedArePending
  <1>5. mid[run.rpc] = "pending"
    BY <1>3, <1>4 DEF SettleRpcs
  <1> HIDE DEF mid
  <1>6. out(flushed)[run.rpc] = end(flushed)
    BY <1>3, <1>5 DEF SettleRpcs
  <1>7. end(flushed) \in {"completed", "cancelled", "rejected"}
        /\ (~good(flushed) => end(flushed) = "rejected")
    BY <1>3
  <1> HIDE DEF stop, end, good, out, own
  <1>8. Later(out(flushed), outcome')
    <2>1. SlotOf(Free) = {} /\ Free \in RunType /\ IsInjective(queue)
      BY DEF SlotOf, RunType, OwnInv, Owned, Apart
    <2>2. CASE Promote(queue, held, Free, out(flushed))
      BY <1>2, <2>1, <2>2, PromoteHands DEF OwnInv, Handed
    <2>3. CASE Stay(queue, Free, out(flushed))
      BY <2>3 DEF Stay, Later
    <2> QED BY <1>1, <2>2, <2>3
  <1>9. outcome'[run.rpc] = end(flushed)
    BY <1>3, <1>6, <1>7, <1>8 DEF Later
  <1>10. /\ completed \subseteq completed'
         /\ \A x \in completed' \ completed : Answered(x)'
         /\ ToldNow(run.rpc)
    BY <1>1, <1>7, <1>9 DEF ToldNow, Answered
  <1>11. CASE Stay(queue, Free, out(flushed)) /\ Broadcast
    BY <1>10, <1>11 DEF Shows, Broadcast
  <1>12. CASE Promote(queue, held, Free, out(flushed)) /\ BroadcastIfStarted
    <2>1. Stay(queue, Free, out(flushed)) \/ Started
      BY <1>2, <1>12, PromotionStarts
    <2>2. CASE Started
      BY <1>10, <1>12, <2>2 DEF Shows, BroadcastIfStarted
    <2>3. CASE ~Started
      BY <1>3, <1>10, <1>12, <2>1, <2>3 DEF Shows, BroadcastIfStarted, Stay
    <2> QED BY <2>2, <2>3
  <1> QED BY <1>1, <1>11, <1>12

LEMMA NextShows ==
    ASSUME OwnInv, QuietAgent, [Next]_vars
    PROVE  Shows
  <1>1. run \in RunType /\ queue \in Seq(Rpc) /\ run.rpc \notin ToSet(queue)
        /\ ToSet(queue) \subseteq Rpc
    BY SlotApart DEF ToSet
  <1>2. TypeOK'
    BY NextType DEF OwnInv
  <1>3. CASE \E r \in Rpc : SubmitRefused(r) \/ \E id \in Ids : Submit(r, id)
    <2>1. UNCHANGED <<view, queue, completed, run>>
      BY <1>3 DEF SubmitRefused, Submit, prompts, wire
    <2> QED BY <1>1, <2>1, QuietShows
  <1>4. CASE AgentWorks \/ AgentIdleFails \/ AgentWakes
    <2>1. SlotOf(run') = SlotOf(run) /\ UNCHANGED <<queue, wire>>
      BY <1>4, AgentSlot
    <2> QED BY <1>2, <2>1, QuietShows DEF TypeOK, wire
  <1>5. CASE Reorder
    <2>1. PICK p \in Bijection(DOMAIN queue, DOMAIN queue) :
            Promote([i \in DOMAIN queue |-> queue[p[i]]], held, run, outcome)
      BY <1>5 DEF Reorder
    <2> DEFINE rows == [i \in DOMAIN queue |-> queue[p[i]]]
    <2>2. rows \in Seq(Rpc) /\ ToSet(rows) \subseteq ToSet(queue)
      <3>1. p \in [DOMAIN queue -> DOMAIN queue]
        BY DEF Bijection, Injection
      <3>2. DOMAIN queue = 1..Len(queue) /\ Len(queue) \in Nat
        BY <1>1
      <3> QED BY <1>1, <3>1, <3>2 DEF ToSet
    <2>3. completed' = completed /\ Broadcast
      BY <1>5 DEF Reorder, Control
    <2> HIDE DEF rows
    <2>4. Promote(rows, held, run, outcome)
      BY <2>1 DEF rows
    <2> QED BY <1>1, <2>2, <2>3, <2>4, PromotionShows DEF Broadcast
  <1>6. CASE PromotionFires
    <2>1. /\ completed' = completed /\ BroadcastIfStarted
          /\ Advance(queue, held, run, outcome) \/ Stay(queue, run, outcome)
      BY <1>6 DEF PromotionFires
    <2> QED BY <1>1, <2>1, PromotionShows DEF BroadcastIfStarted
  <1>7. CASE UNCHANGED vars
    BY <1>1, <1>7, QuietShows DEF vars, prompts, wire
  <1> QED
    BY <1>2, <1>3, <1>4, <1>5, <1>6, <1>7, AdmissionShows, ControlShows, LifecycleShows,
       FinishShows DEF Next

\* While no call to the agent throws, the client's last snapshot is the queue as
\* it is, and no running prompt leaves it before its end has been told.
THEOREM ClientFollowsQueue == QuietAgent => (Spec => ClientFollows)
  <1> SUFFICES ASSUME QuietAgent PROVE Spec => ClientFollows
    OBVIOUS
  <1>1. Init => Chain /\ Shown
    BY DEF Init, Chain, Shown, Snapshot, Free, Told, Answered
  <1>2. OwnInv /\ Chain /\ Shown /\ [Next]_vars => Chain' /\ Shown' /\ [TellsFirst]_vars
    BY NextShows, ShowsKeeps, NextAdmits DEF Admits
  <1>3. Shown => ClientSeesQueue
    BY DEF Shown, ClientSeesQueue, Told, Answered
  <1> QED
    BY <1>1, <1>2, <1>3, OwnershipInvariant, PTL
       DEF Spec, ClientFollows, CompletesBeforePromotion, TellsFirst

-----------------------------------------------------------------------------
\* What a disposal leaves.

Withdrawn ==
    /\ disposal # "none" => live = "lost" /\ queue = <<>>
    /\ run = Free => steered = {}
    /\ disposal = "done" => run = Free /\ preparations = {}
                              /\ \A r \in Rpc : slot[r] \in {"none", "released"}

\* Steered prompts leave with the turn that they were steered into.
Steers == (run = Free => steered = {}) => (run' = Free => steered' = {})

LEMMA PromotionSteers ==
    ASSUME NEW rows, NEW holds, NEW r, NEW out, r = Free => run = Free,
           Promote(rows, holds, r, out) \/ Advance(rows, holds, r, out) \/ Stay(rows, r, out),
           steered' = steered
    PROVE  Steers
  <1>1. run' = r \/ run'.phase \in {"active", "flushing"}
    <2>1. CASE Advance(rows, holds, r, out) /\ MayAdvance(rows, holds, r)
      <3>1. PICK ok \in MayThrow("followup") :
              run' = [rpc |-> rows[1], stop |-> IF ok THEN None ELSE "failed",
                      phase |-> IF ok THEN "active" ELSE "flushing", sendNow |-> FALSE]
        BY <2>1 DEF Advance, RunPrompt
      <3> QED BY <3>1
    <2> QED BY <2>1 DEF Promote, Advance, Stay
  <1> QED BY <1>1 DEF Steers, Free

LEMMA NextSteers ==
    ASSUME OwnInv, [Next]_vars
    PROVE  Steers
  <1>1. run \in RunType /\ \A r : Inflight(r) => r # Free
    BY DEF OwnInv, TypeOK, Inflight, Free
  <1>2. CancelRun(run) = Free => run = Free
    BY <1>1, RunKeepsSlot
  <1>3. ASSUME steered' = steered, SlotOf(run') = SlotOf(run)
        PROVE  Steers
    BY <1>3 DEF Steers, SlotOf
  <1>4. CASE \E r \in Rpc : \/ SubmitRefused(r) \/ \E id \in Ids : Submit(r, id)
                            \/ Admit(r) \/ Prepare(r) \/ CancelPromptPreparing(r)
    <2>1. PICK r \in Rpc : \/ SubmitRefused(r) \/ \E id \in Ids : Submit(r, id)
                           \/ Admit(r) \/ Prepare(r) \/ CancelPromptPreparing(r)
      BY <1>4
    <2>2. CASE EnqueueRow(r)
      BY <2>2, PromotionSteers DEF EnqueueRow
    <2>3. CASE EnqueueSendNow(r)
      BY <1>1, <1>3, <2>3, SlotStays DEF EnqueueSendNow
    <2>4. CASE EnqueueSteer(r)
      BY <1>1, <2>4 DEF EnqueueSteer, Steers
    <2>5. CASE ~EnqueueSendNow(r) /\ ~EnqueueSteer(r) /\ ~EnqueueRow(r)
      BY <1>3, <2>1, <2>5 DEF SubmitRefused, Submit, Admit, Prepare, PassRetired, RefuseTurn,
         StartPreparation, LatePreparation, PreparationFails, RefuseAdmission,
         CancelPromptPreparing, prompts
    <2> QED BY <2>2, <2>3, <2>4, <2>5
  <1>5. ASSUME NEW id \in Ids, RowControl(id) \/ CancelPromptQueued(id)
        PROVE  Steers
    <2>1. CASE ResyncRow(id) \/ EditRow(id) \/ RemoveRow(id) \/ RemoveUnknown(id)
                 \/ ReleaseEdit(id) \/ CancelPromptQueued(id)
      BY <2>1, PromotionSteers
         DEF ResyncRow, EditRow, RemoveRow, RemoveUnknown, ReleaseEdit, CancelPromptQueued
    <2>2. CASE Interject(id)
      <3>1. /\ steered' = steered
            /\ \/ \E rows : Promote(rows, held', run, outcome)
               \/ /\ Inflight(run)
                  /\ run' \in {CancelRun(StampSendNow(run)), StampSendNow(run)}
        BY <2>2 DEF Interject
      <3> QED BY <1>1, <1>3, <3>1, SlotStays, PromotionSteers
    <2>3. CASE SteerRow(id)
      <3>1. \/ Promote(queue, held, run, outcome) /\ UNCHANGED steered
            \/ Inflight(run) /\ run' = run
        BY <2>3 DEF SteerRow
      <3> QED BY <1>1, <3>1, PromotionSteers DEF Steers
    <2>4. CASE RemoveRunning(id)
      BY <1>2, <2>4, PromotionSteers DEF RemoveRunning
    <2>5. CASE HoldEdit(id)
      BY <1>3, <2>5 DEF HoldEdit
    <2> QED BY <1>5, <2>1, <2>2, <2>3, <2>4, <2>5 DEF RowControl
  <1>6. CASE \/ Clear \/ Cancel \/ Lifecycle \/ DisposalDone
             \/ \E id \in Ids : CancelPromptRunning(id)
    <2>1. steered' = steered
      BY <1>6 DEF Clear, Cancel, Lifecycle, Suspend, Resume, LoseAgent, Dispose,
             DisposalDone, CancelPromptRunning, CancelAll, prompts
    <2>2. SlotOf(run') = SlotOf(run)
      BY <1>1, <1>6, SlotStays DEF Clear, Cancel, Lifecycle, Suspend, Resume, LoseAgent,
         Dispose, DisposalDone, CancelPromptRunning
    <2> QED BY <1>3, <2>1, <2>2
  <1>7. CASE Reorder
    <2>1. steered' = steered /\ \E rows : Promote(rows, held, run, outcome)
      BY <1>7 DEF Reorder
    <2> QED BY <2>1, PromotionSteers
  <1>8. CASE FinishRun
    BY <1>8 DEF FinishRun, Steers
  <1>9. CASE PromotionFires
    BY <1>9, PromotionSteers DEF PromotionFires
  <1>10. CASE AgentWorks \/ AgentIdleFails \/ AgentWakes
    BY <1>3, <1>10, AgentSlot
  <1>11. CASE UNCHANGED vars
    BY <1>3, <1>11 DEF vars, prompts
  <1> QED BY <1>4, <1>5, <1>6, <1>7, <1>8, <1>9, <1>10, <1>11 DEF Next

LEMMA NextWithdrawn ==
    ASSUME OwnInv, Withdrawn, [Next]_vars
    PROVE  Withdrawn'
  <1>1. run' = Free => steered' = {}
    BY NextSteers DEF Withdrawn, Steers
  <1>2. TypeOK
    BY DEF OwnInv
  \* The live session does not dispose.
  <1>3. CASE IsLive /\ UNCHANGED host
    BY <1>1, <1>3 DEF IsLive, host, Withdrawn
  \* Nothing is shown and nothing starts in a session that is withdrawn.
  <1>4. ASSUME UNCHANGED <<queue, disposal, live>>, run = Free => run' = Free,
               preparations' \subseteq preparations,
               \A r \in Rpc : slot'[r] = slot[r] \/ slot[r] \notin {"none", "released"}
                                \/ slot'[r] = "released"
        PROVE  Withdrawn'
    BY <1>1, <1>4 DEF Withdrawn
  <1>5. ASSUME NEW r \in Rpc, SubmitRefused(r) \/ \E id \in Ids : Submit(r, id)
        PROVE  Withdrawn'
    BY <1>3, <1>4, <1>5 DEF SubmitRefused, Submit, admission, prompts, host
  <1>6. ASSUME NEW r \in Rpc, Admit(r) \/ Prepare(r) \/ CancelPromptPreparing(r)
        PROVE  Withdrawn'
    <2>1. CASE IsLive
      <3>1. UNCHANGED host
        BY <1>6 DEF Admit, Prepare, PassRetired, RefuseTurn, StartPreparation, LatePreparation,
           PreparationFails, RefuseAdmission, CancelPromptPreparing, EnqueueSendNow,
           EnqueueSteer, EnqueueRow, Prepared
      <3> QED BY <1>3, <2>1, <3>1
    <2>2. CASE ~IsLive
      <3>1. Refusal(r) = "rejected" /\ "rejected" # None
        BY <2>2, PromptQueueAssumption DEF Refusal
      <3>2. PassRetired(r) \/ RefuseTurn(r) \/ LatePreparation(r) \/ PreparationFails(r)
        BY <1>6, <2>2, <3>1 DEF Admit, Prepare, StartPreparation, EnqueueSendNow, EnqueueSteer,
           EnqueueRow, Prepared, CancelPromptPreparing
      <3>3. /\ UNCHANGED <<queue, disposal, live, run>> /\ preparations' \subseteq preparations
            /\ slot' = slot \/ slot' = [slot EXCEPT ![r] = "released"]
        BY <3>2 DEF PassRetired, RefuseTurn, LatePreparation, PreparationFails,
           RefuseAdmission, Retire, prompts, host
      <3>4. \A q \in Rpc : slot'[q] = slot[q] \/ slot'[q] = "released"
        BY <1>2, <3>3 DEF TypeOK
      <3> QED BY <1>4, <3>3, <3>4
    <2> QED BY <2>1, <2>2
  <1>7. ASSUME NEW id \in Ids,
               RowControl(id) \/ CancelPromptQueued(id) \/ CancelPromptRunning(id)
        PROVE  Withdrawn'
    <2>1. IsLive /\ UNCHANGED host
      BY <1>7 DEF RowControl, ResyncRow, Interject, SteerRow, RemoveRow, RemoveRunning,
         RemoveUnknown, EditRow, HoldEdit, ReleaseEdit, CancelPromptQueued, Control,
         CancelPromptRunning
    <2> QED BY <1>3, <2>1
  <1>8. CASE Reorder \/ Clear \/ Cancel \/ Suspend \/ Resume
    BY <1>1, <1>8 DEF Reorder, Clear, Control, Cancel, Suspend, Resume, CancelAll, Withdrawn,
       IsLive, host
  <1>9. CASE LoseAgent \/ Dispose \/ DisposalDone
    BY <1>1, <1>9 DEF LoseAgent, Dispose, DisposalDone, CancelAll, Discard, Withdrawn,
       admission, prompts
  <1>10. CASE FinishRun
    <2>1. UNCHANGED <<slot, preparations, live, disposal>> /\ run.phase = "flushing"
      BY <1>10 DEF FinishRun, admission, host
    <2>2. disposal # "none" => queue' = <<>>
      BY <1>10 DEF FinishRun, Withdrawn, Stay
    <2>3. disposal # "done"
      BY <2>1 DEF Withdrawn, Free
    <2> QED BY <1>1, <2>1, <2>2, <2>3 DEF Withdrawn
  <1>11. CASE PromotionFires
    <2>1. UNCHANGED <<slot, preparations, live, disposal>>
      BY <1>11 DEF PromotionFires, admission, host
    <2>2. CASE ~IsLive
      BY <1>4, <1>11, <2>1, <2>2 DEF PromotionFires, Stay
    <2> QED BY <1>3, <2>1, <2>2 DEF host
  <1>12. CASE AgentWorks \/ AgentIdleFails \/ AgentWakes
    <2>1. SlotOf(run') = SlotOf(run) /\ UNCHANGED <<admission, queue, live, disposal>>
      BY <1>12, AgentSlot DEF AgentWorks, AgentClaims, AgentDiscards, AgentTurnEnds, AgentIdles,
           AgentQuiet, AgentIdleFails, AgentWakes, AgentOnly, host
    <2> QED BY <1>4, <2>1 DEF SlotOf, admission
  <1>13. CASE UNCHANGED vars
    BY <1>4, <1>13 DEF vars, prompts, host, admission
  <1> QED
    BY <1>5, <1>6, <1>7, <1>8, <1>9, <1>10, <1>11, <1>12, <1>13 DEF Next, Lifecycle

\* When dispose()'s promise has settled, every request has its answer and nothing
\* is left to start, to settle or to write, whatever throws.
THEOREM DisposalLeavesNothing == Spec => []DisposalDrains
  <1>1. Init => Chain /\ Withdrawn
    BY DEF Init, Chain, Withdrawn
  <1>2. OwnInv /\ Chain /\ Withdrawn /\ [Next]_vars => Chain' /\ Withdrawn'
    BY NextWithdrawn, NextAdmits DEF Admits
  <1>3. OwnInv /\ Chain /\ Withdrawn => DisposalDrains
    <2> SUFFICES ASSUME OwnInv, Chain, Withdrawn, disposal = "done" PROVE DisposalDrains
      BY DEF DisposalDrains
    <2>1. queue = <<>> /\ steered = {} /\ run = Free /\ preparations = {}
      BY DEF Withdrawn
    <2>2. Preparing = {}
      BY DEF Preparing, Withdrawn, Chain
    <2>3. Active = {}
      BY <2>1, <2>2 DEF Active, ToSet
    <2> QED BY <2>1, <2>3 DEF DisposalDrains, OwnInv, Owned
  <1> QED BY <1>1, <1>2, <1>3, OwnershipInvariant, PTL DEF Spec
=============================================================================
