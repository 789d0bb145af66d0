------------------------ MODULE ModelSelectionProofs ------------------------
(* Theorems about ModelSelection, for every value of its constants.            *)
EXTENDS ModelSelection, SequenceTheorems, TLAPS

-----------------------------------------------------------------------------
(* The writes of routes and the snapshot of the section *)

Routes == [by : Requests \cup Probes, provider : Providers, to : Endpoints \cup {None}]
Targets == [provider : Providers, endpoint : Endpoints]

Waiting(o) == pc[o] \in {"writing", "rewriting"}
Written(o) == pc[o] \in {"written", "rewritten"}

\* An operation waits for one write, which is in the queue of the settings service.
Writing ==
    /\ DOMAIN pc = Ops
    /\ target \in [Probes -> Targets \cup {None}]
    /\ \A n \in Probes : pc[n] = "probing" => target[n] \in Targets
    /\ writes \in Seq(Routes)
    /\ \A i \in DOMAIN writes : Waiting(writes[i].by)
    /\ \A i, j \in DOMAIN writes : writes[i].by = writes[j].by => i = j

SnapInv == Writing /\ SnapshotTrue

\* A step in which nobody leaves the wait for a write by himself, and a probe
\* that starts has a route to ask.
Stays ==
    /\ DOMAIN pc' = Ops
    /\ \A o \in Ops : Waiting(o) => pc'[o] = pc[o]
    /\ target' \in [Probes -> Targets \cup {None}]
    /\ \A n \in Probes : pc'[n] = "probing" => target'[n] \in Targets

\* A step in which those whose write has settled do not go on.
Holds == \A o \in Ops : Written(o) => pc'[o] = pc[o]

LEMMA OpsApart ==
    /\ \A q \in Requests : q \in Ops /\ q \notin Rebuilds \cup Probes \cup Picks
    /\ \A n \in Rebuilds : n \in Ops /\ n \notin Requests \cup Probes \cup Picks
    /\ \A n \in Probes : n \in Ops /\ n \notin Requests \cup Rebuilds \cup Picks
    /\ \A c \in Picks : c \in Ops /\ c \notin Requests \cup Rebuilds \cup Probes
  BY ModelAssumption DEF Ops

LEMMA WritersAreOps ==
    ASSUME writes \in Seq(Routes)
    PROVE  \A i \in DOMAIN writes : writes[i] \in Routes /\ writes[i].by \in Ops
<1>1. \A i \in DOMAIN writes : writes[i] \in Routes
  OBVIOUS
<1>2. \A w \in Routes : w.by \in Ops
  BY DEF Routes, Ops
<1> QED BY <1>1, <1>2

LEMMA GotoMoves ==
    ASSUME DOMAIN pc = Ops, NEW o \in Ops, NEW next, Goto(o, next)
    PROVE  /\ DOMAIN pc' = Ops
           /\ pc'[o] = next
           /\ \A q \in Ops : q # o => pc'[q] = pc[q]
  BY DEF Goto

\* An operation that moves on without having waited for a write.
LEMMA GotoStays ==
    ASSUME Writing, NEW o \in Ops, NEW next, Goto(o, next), ~Waiting(o), next # "probing",
           UNCHANGED target
    PROVE  Stays /\ (~Written(o) => Holds)
<1>1. /\ DOMAIN pc' = Ops /\ pc'[o] = next
      /\ \A q \in Ops : q # o => pc'[q] = pc[q]
  BY GotoMoves DEF Writing
<1>2. \A n \in Probes : n \in Ops
  BY DEF Ops
<1> QED BY <1>1, <1>2 DEF Writing, Stays, Holds

\* Discoveries start in slots that are free, each with a route to ask.
LEMMA ScheduleMoves ==
    ASSUME Writing, NEW o \in Ops \ Probes, NEW next, Schedule(o, next)
    PROVE  /\ DOMAIN pc' = Ops
           /\ pc'[o] = next
           /\ \A q \in Ops \ Probes : q # o => pc'[q] = pc[q]
           /\ \A n \in Probes : \/ pc'[n] = pc[n] /\ target'[n] = target[n]
                                \/ /\ pc[n] = "idle" /\ pc'[n] = "probing"
                                   /\ target'[n] \in Targets
           /\ DOMAIN target' = Probes
           /\ snapshot' = Section
<1> DEFINE started == {SlotOf[p] : p \in Due}
           provider(n) == CHOOSE p \in Due : SlotOf[p] = n
<1>1. SlotOf \in [Due -> Idle(Probes)]
  BY DEF Schedule, SlotOf, Slots
<1>2. /\ pc' = [q \in Ops |-> IF q = o THEN next
                              ELSE IF q \in started THEN "probing" ELSE pc[q]]
      /\ target' = [n \in Probes |->
                      IF n \in started
                      THEN [provider |-> provider(n), endpoint |-> Section[provider(n)]]
                      ELSE target[n]]
      /\ snapshot' = Section
  BY DEF Schedule
<1>3. \A n \in started : n \in Probes /\ pc[n] = "idle"
  BY <1>1 DEF Idle
<1>4. \A n \in started : provider(n) \in Due
  OBVIOUS
<1>5. \A p \in Due : p \in Providers /\ Section[p] \in Endpoints
  BY ModelAssumption DEF Due, Configured
<1>6. \A n \in Probes \cap started : target'[n] \in Targets /\ pc'[n] = "probing"
  <2> SUFFICES ASSUME NEW n \in Probes \cap started
               PROVE  target'[n] \in Targets /\ pc'[n] = "probing"
    OBVIOUS
  <2>1. n # o /\ n \in Ops
    BY OpsApart
  <2>2. target'[n] = [provider |-> provider(n), endpoint |-> Section[provider(n)]]
    BY <1>2
  <2>3. provider(n) \in Providers /\ Section[provider(n)] \in Endpoints
    BY <1>4, <1>5
  <2>4. target'[n] \in Targets
    BY <2>2, <2>3 DEF Targets
  <2> QED BY <1>2, <2>1, <2>4
<1>7. \A n \in Probes \ started : pc'[n] = pc[n] /\ target'[n] = target[n]
  BY <1>2, OpsApart
<1>8. \A q \in Ops \ Probes : q # o => pc'[q] = pc[q]
  BY <1>2, <1>3
<1>9. DOMAIN pc' = Ops /\ pc'[o] = next /\ DOMAIN target' = Probes
  BY <1>2
<1> HIDE DEF started, provider
<1> QED BY <1>2, <1>3, <1>6, <1>7, <1>8, <1>9

LEMMA ScheduleStays ==
    ASSUME Writing, NEW o \in Ops \ Probes, NEW next, Schedule(o, next),
           ~Waiting(o), ~Written(o)
    PROVE  Stays /\ Holds /\ snapshot' = Section
<1>1. Stays
  <2>1. \A n \in Probes : target[n] \in Targets \cup {None}
    BY DEF Writing
  <2>2. target' \in [Probes -> Targets \cup {None}]
    <3>1. \A n \in Probes : target'[n] \in Targets \cup {None}
      BY ScheduleMoves, <2>1
    <3>2. DOMAIN target' = Probes /\ target' = [n \in Probes |-> target'[n]]
      BY ScheduleMoves DEF Schedule
    <3> QED BY <3>1, <3>2
  <2>3. \A n \in Probes : pc'[n] = "probing" => target'[n] \in Targets
    BY ScheduleMoves DEF Writing
  <2>4. \A q \in Ops : Waiting(q) => pc'[q] = pc[q]
    BY ScheduleMoves DEF Waiting
  <2> QED BY <2>2, <2>3, <2>4, ScheduleMoves DEF Stays
<1>2. Holds
  BY ScheduleMoves DEF Written, Holds
<1> QED BY <1>1, <1>2, ScheduleMoves

\* The section that is shown is the snapshot or the settings document itself.
LEMMA SectionOfTwo == Section \in {snapshot, route}
  BY DEF Section

\* A step that leaves the writes and the routes alone, and keeps the snapshot only
\* together with what excuses it.
LEMMA QuietSteps ==
    ASSUME SnapInv, Stays, UNCHANGED <<route, writes>>,
           \/ snapshot' \in {None, route}
           \/ /\ snapshot' = snapshot /\ Holds
              /\ "providers" \in news => "providers" \in news'
    PROVE  SnapInv'
<1>1. Writing'
  <2>1. \A i \in DOMAIN writes : writes[i].by \in Ops
    BY WritersAreOps DEF SnapInv, Writing
  <2>2. \A i \in DOMAIN writes : pc'[writes[i].by] \in {"writing", "rewriting"}
    BY <2>1 DEF SnapInv, Writing, Stays, Waiting
  <2> QED BY <2>2 DEF SnapInv, Writing, Stays, Waiting
<1>2. SnapshotTrue'
  BY DEF SnapInv, SnapshotTrue, Holds, Written
<1> QED BY <1>1, <1>2 DEF SnapInv

\* writeProviderSettings: the route is queued and the snapshot dropped.
LEMMA WriteSteps ==
    ASSUME SnapInv, NEW o \in Requests \cup Probes, ~Waiting(o),
           NEW p \in Providers, NEW to \in Endpoints \cup {None}, Write(o, p, to),
           NEW next \in {"writing", "rewriting"}, Goto(o, next), UNCHANGED target
    PROVE  SnapInv'
<1> DEFINE w == [by |-> o, provider |-> p, to |-> to]
<1>1. o \in Ops /\ w \in Routes
  BY DEF Ops, Routes
<1>2. writes' = Append(writes, w) /\ snapshot' = None
  BY DEF Write
<1>3. DOMAIN pc' = Ops /\ pc'[o] = next /\ \A q \in Ops : q # o => pc'[q] = pc[q]
  BY <1>1, GotoMoves DEF SnapInv, Writing
<1>4. writes \in Seq(Routes) /\ \A i \in DOMAIN writes : writes[i].by \in Ops /\ writes[i].by # o
  BY WritersAreOps DEF SnapInv, Writing
<1> HIDE DEF w
<1>5. /\ writes' \in Seq(Routes) /\ DOMAIN writes = 1..Len(writes)
      /\ DOMAIN writes' = 1..(Len(writes) + 1) /\ Len(writes) \in Nat
      /\ writes'[Len(writes) + 1] = w
      /\ \A i \in DOMAIN writes : writes'[i] = writes[i]
  BY <1>1, <1>2, <1>4
<1>6. w.by = o
  BY DEF w
<1>7. \A i \in DOMAIN writes' : i \in DOMAIN writes \/ i = Len(writes) + 1
  BY <1>5
<1>8. \A i \in DOMAIN writes' : pc'[writes'[i].by] \in {"writing", "rewriting"}
  <2>1. \A i \in DOMAIN writes : pc'[writes[i].by] \in {"writing", "rewriting"}
    BY <1>3, <1>4 DEF SnapInv, Writing, Waiting
  <2> QED BY <2>1, <1>3, <1>5, <1>6, <1>7
<1>9. \A i, j \in DOMAIN writes' : writes'[i].by = writes'[j].by => i = j
  BY <1>4, <1>5, <1>6, <1>7 DEF SnapInv, Writing
<1>10. \A n \in Probes : pc'[n] = "probing" => target[n] \in Targets
  BY <1>1, <1>3, OpsApart DEF SnapInv, Writing
<1> QED BY <1>2, <1>3, <1>5, <1>8, <1>9, <1>10 DEF SnapInv, Writing, Waiting, SnapshotTrue

\* The head of the queue settles.
LEMMA SettleWriteKeeps == ASSUME SnapInv, SettleWrite PROVE SnapInv'
<1> DEFINE w == Head(writes)
<1>1. /\ writes \in Seq(Routes) /\ writes # <<>>
      /\ \A i \in DOMAIN writes : writes[i] \in Routes /\ writes[i].by \in Ops
  BY WritersAreOps DEF SettleWrite, SnapInv, Writing
<1>2. w = writes[1] /\ 1 \in DOMAIN writes
  BY <1>1
<1>3. w.by \in Ops /\ Waiting(w.by)
  BY <1>1, <1>2 DEF SnapInv, Writing
<1>4. /\ writes' = Tail(writes) /\ UNCHANGED <<snapshot, target>>
      /\ \/ /\ route' = [route EXCEPT ![w.provider] = w.to]
            /\ news' = news \cup {"providers"}
            /\ \E next \in {"written", "rewritten"} : Goto(w.by, next)
         \/ /\ \E next \in {"refused", "undescribed"} : Goto(w.by, next)
            /\ UNCHANGED <<route, news>>
  BY DEF SettleWrite, cache, discovery
<1>5. PICK next \in {"written", "rewritten", "refused", "undescribed"} : Goto(w.by, next)
  BY <1>4
<1> HIDE DEF w
<1>6. /\ DOMAIN pc' = Ops /\ pc'[w.by] = next
      /\ \A q \in Ops : q # w.by => pc'[q] = pc[q]
  BY <1>3, <1>5, GotoMoves DEF SnapInv, Writing
<1>7. /\ writes' \in Seq(Routes) /\ DOMAIN writes = 1..Len(writes) /\ Len(writes) \in Nat
      /\ DOMAIN writes' = 1..(Len(writes) - 1)
      /\ \A i \in DOMAIN writes' : writes'[i] = writes[i + 1]
  BY <1>1, <1>4
<1>8. \A i \in DOMAIN writes' : i + 1 \in DOMAIN writes /\ writes'[i].by # w.by
  <2> SUFFICES ASSUME NEW i \in DOMAIN writes'
               PROVE  i + 1 \in DOMAIN writes /\ writes'[i].by # w.by
    OBVIOUS
  <2>1. i + 1 \in DOMAIN writes /\ i + 1 # 1 /\ writes'[i] = writes[i + 1]
    BY <1>7
  <2> QED BY <1>2, <2>1 DEF SnapInv, Writing
<1>9. Writing'
  <2>1. \A i \in DOMAIN writes' : pc'[writes'[i].by] \in {"writing", "rewriting"}
    <3> SUFFICES ASSUME NEW i \in DOMAIN writes'
                 PROVE  pc'[writes'[i].by] \in {"writing", "rewriting"}
      OBVIOUS
    <3>1. i + 1 \in DOMAIN writes /\ writes'[i].by = writes[i + 1].by
      BY <1>7, <1>8
    <3> QED BY <1>1, <1>6, <1>8, <3>1 DEF SnapInv, Writing, Waiting
  <2>2. \A i, j \in DOMAIN writes' : writes'[i].by = writes'[j].by => i = j
    <3> SUFFICES ASSUME NEW i \in DOMAIN writes', NEW j \in DOMAIN writes',
                        writes'[i].by = writes'[j].by
                 PROVE  i = j
      OBVIOUS
    <3>1. i + 1 \in DOMAIN writes /\ j + 1 \in DOMAIN writes
      BY <1>8
    <3>2. i + 1 = j + 1
      BY <1>7, <3>1 DEF SnapInv, Writing
    <3> QED BY <1>7, <3>2
  <2>3. \A n \in Probes : pc'[n] = "probing" => target[n] \in Targets
    BY <1>6, OpsApart DEF SnapInv, Writing
  <2> QED BY <1>4, <1>6, <1>7, <2>1, <2>2, <2>3 DEF SnapInv, Writing, Waiting
<1>10. SnapshotTrue'
  <2>1. \A o \in Ops : Written(o) => pc'[o] = pc[o]
    BY <1>3, <1>6 DEF Written, Waiting
  <2> QED BY <1>4, <2>1 DEF SnapInv, SnapshotTrue, Written
<1> QED BY <1>9, <1>10 DEF SnapInv

\* The steps of the requests.
LEMMA RequestsKeepSnapshot ==
    ASSUME SnapInv, NEW q \in Requests, StartRequest(q) \/ RequestStep(q) PROVE SnapInv'
<1>0. /\ q \in Ops \ Probes /\ q \in Requests \cup Probes /\ Writing
      /\ ProviderOf[q] \in Providers /\ EndpointOf[q] \in Endpoints
  BY ModelAssumption, OpsApart DEF SnapInv
<1>1. CASE StartRequest(q)
  <2>1. PICK next : /\ Goto(q, next) /\ next # "probing" /\ ~Waiting(q) /\ ~Written(q)
                    /\ snapshot' \in {snapshot, Section}
                    /\ UNCHANGED <<route, writes, news, target>>
    BY <1>1 DEF StartRequest, BeginRead, native, discovery, Waiting, Written
  <2>2. Stays /\ Holds
    BY <1>0, <2>1, GotoStays
  <2> QED BY <2>1, <2>2, QuietSteps, SectionOfTwo
<1>2. CASE WriteRoute(q)
  <2>1. /\ Write(q, ProviderOf[q], EndpointOf[q]) /\ Goto(q, "writing") /\ ~Waiting(q)
        /\ UNCHANGED target
    BY <1>2 DEF WriteRoute, discovery, Waiting
  <2> QED BY <1>0, <2>1, WriteSteps
<1>3. CASE RemoveRoute(q)
  <2>1. /\ ~Waiting(q) /\ ~Written(q) /\ UNCHANGED <<route, news, target>>
        /\ \/ Goto(q, "done") /\ UNCHANGED <<writes, snapshot>>
           \/ Write(q, ProviderOf[q], None) /\ Goto(q, "writing")
    BY <1>3 DEF RemoveRoute, discovery, Waiting, Written
  <2>2. CASE Goto(q, "done") /\ UNCHANGED <<writes, snapshot>>
    <3>1. Stays /\ Holds
      BY <1>0, <2>1, <2>2, GotoStays
    <3> QED BY <2>1, <2>2, <3>1, QuietSteps
  <2>3. CASE Write(q, ProviderOf[q], None) /\ Goto(q, "writing")
    BY <1>0, <2>1, <2>3, WriteSteps
  <2> QED BY <2>1, <2>2, <2>3
<1>4. CASE Retry(q)
  <2>1. /\ ~Waiting(q) /\ ~Written(q) /\ UNCHANGED <<route, news, target>>
        /\ \/ Goto(q, "done") /\ UNCHANGED <<writes, snapshot>>
           \/ Write(q, ProviderOf[q], EndpointOf[q]) /\ Goto(q, "rewriting")
    BY <1>4 DEF Retry, discovery, Waiting, Written
  <2>2. CASE Goto(q, "done") /\ UNCHANGED <<writes, snapshot>>
    <3>1. Stays /\ Holds
      BY <1>0, <2>1, <2>2, GotoStays
    <3> QED BY <2>1, <2>2, <3>1, QuietSteps
  <2>3. CASE Write(q, ProviderOf[q], EndpointOf[q]) /\ Goto(q, "rewriting")
    BY <1>0, <2>1, <2>3, WriteSteps
  <2> QED BY <2>1, <2>2, <2>3
<1>5. CASE RouteWritten(q)
  <2>1. PICK next : /\ Goto(q, next) /\ next # "probing" /\ ~Waiting(q) /\ snapshot' = None
                    /\ UNCHANGED <<route, writes, target>>
    <3>1. CASE pc[q] = "refused"
      BY <1>5, <3>1 DEF RouteWritten, native, Waiting
    <3>2. CASE pc[q] = "undescribed"
      BY <1>5, <3>2 DEF RouteWritten, native, Waiting
    <3>3. CASE pc[q] \in {"written", "rewritten"}
      BY <1>5, <3>3 DEF RouteWritten, native, Waiting
    <3> QED BY <1>5, <3>1, <3>2, <3>3 DEF RouteWritten
  <2>2. Stays
    BY <1>0, <2>1, GotoStays
  <2> QED BY <2>1, <2>2, QuietSteps
<1>6. CASE Cleaned(q)
  <2>1. PICK next : /\ Goto(q, next) /\ next # "probing" /\ ~Waiting(q) /\ ~Written(q)
                    /\ snapshot' \in {snapshot, Section}
                    /\ UNCHANGED <<route, writes, news, target>>
    BY <1>6 DEF Cleaned, BeginRead, native, Waiting, Written
  <2>2. Stays /\ Holds
    BY <1>0, <2>1, GotoStays
  <2> QED BY <2>1, <2>2, QuietSteps, SectionOfTwo
<1>7. CASE Answer(q)
  <2>1. /\ ~Waiting(q) /\ ~Written(q) /\ UNCHANGED <<route, writes, news>>
        /\ \/ Goto(q, "done") /\ UNCHANGED <<snapshot, target>>
           \/ Schedule(q, "done")
    BY <1>7 DEF Answer, native, cache, discovery, Waiting, Written
  <2>2. Stays /\ Holds /\ snapshot' \in {snapshot, Section}
    <3>1. CASE Goto(q, "done") /\ UNCHANGED <<snapshot, target>>
      BY <1>0, <2>1, <3>1, GotoStays
    <3>2. CASE Schedule(q, "done")
      BY <1>0, <2>1, <3>2, ScheduleStays
    <3> QED BY <2>1, <3>1, <3>2
  <2> QED BY <2>1, <2>2, QuietSteps, SectionOfTwo
<1> QED
  BY <1>1, <1>2, <1>3, <1>4, <1>5, <1>6, <1>7 DEF RequestStep

\* The steps of the discoveries and of the rebuilds.
LEMMA ReadersKeepSnapshot ==
    ASSUME SnapInv,
           \/ \E n \in Probes : ProbeStep(n)
           \/ \E n \in Rebuilds : StartRebuild(n) \/ EndRebuild(n)
    PROVE  SnapInv'
<1>1. ASSUME NEW n \in Probes, Probed(n) PROVE SnapInv'
  <2>0. n \in Ops /\ Writing /\ ~Waiting(n) /\ ~Written(n)
    BY <1>1, OpsApart DEF SnapInv, Probed, Waiting, Written
  <2>1. /\ UNCHANGED <<route, news, target>>
        /\ \/ Goto(n, "idle") /\ UNCHANGED <<writes, snapshot>>
           \/ /\ Write(n, target[n].provider, target[n].endpoint)
              /\ Goto(n, "writing")
           \/ BeginRead(n) /\ Goto(n, "reading") /\ UNCHANGED writes
    BY <1>1 DEF Probed
  <2>2. CASE \/ Goto(n, "idle") /\ UNCHANGED <<writes, snapshot>>
             \/ BeginRead(n) /\ Goto(n, "reading") /\ UNCHANGED writes
    <3>1. PICK next \in {"idle", "reading"} : Goto(n, next)
      BY <2>2
    <3>2. Stays /\ Holds /\ snapshot' \in {snapshot, Section} /\ UNCHANGED writes
      BY <2>0, <2>1, <2>2, <3>1, GotoStays DEF BeginRead
    <3> QED BY <2>1, <3>2, QuietSteps, SectionOfTwo
  <2>3. CASE /\ Write(n, target[n].provider, target[n].endpoint)
             /\ Goto(n, "writing")
    <3>1. target[n].provider \in Providers /\ target[n].endpoint \in Endpoints
      BY <1>1 DEF Probed, SnapInv, Writing, Targets
    <3> QED BY <2>0, <2>1, <2>3, <3>1, WriteSteps
  <2> QED BY <2>1, <2>2, <2>3
<1>2. ASSUME NEW n \in Probes, ProbeWritten(n) PROVE SnapInv'
  <2>1. PICK next : /\ Goto(n, next) /\ next # "probing" /\ ~Waiting(n)
                    /\ snapshot' \in {None, route}
                    /\ UNCHANGED <<route, writes, target>>
    BY <1>2 DEF ProbeWritten, native, discovery, Waiting
  <2>2. Stays
    BY <2>1, GotoStays, OpsApart DEF SnapInv
  <2> QED BY <2>1, <2>2, QuietSteps
<1>3. ASSUME NEW n \in Probes, ProbeRead(n) PROVE SnapInv'
  <2>1. /\ Goto(n, "idle") /\ ~Waiting(n) /\ ~Written(n)
        /\ UNCHANGED <<route, writes, news, snapshot, target>>
    BY <1>3 DEF ProbeRead, native, discovery, Waiting, Written
  <2>2. Stays /\ Holds
    BY <2>1, GotoStays, OpsApart DEF SnapInv
  <2> QED BY <2>1, <2>2, QuietSteps
<1>4. ASSUME NEW n \in Rebuilds, StartRebuild(n) PROVE SnapInv'
  <2>1. /\ Goto(n, "reading") /\ ~Waiting(n) /\ ~Written(n)
        /\ snapshot' = Section /\ UNCHANGED <<route, writes, news, target>>
    BY <1>4 DEF StartRebuild, BeginRead, native, discovery, Waiting, Written
  <2>2. Stays /\ Holds
    BY <2>1, GotoStays, OpsApart DEF SnapInv
  <2> QED BY <2>1, <2>2, QuietSteps, SectionOfTwo
<1>5. ASSUME NEW n \in Rebuilds, EndRebuild(n) PROVE SnapInv'
  <2>1. /\ ~Waiting(n) /\ ~Written(n) /\ UNCHANGED <<route, writes, news>>
        /\ \/ Goto(n, "idle") /\ UNCHANGED <<snapshot, target>>
           \/ Schedule(n, "idle")
    BY <1>5 DEF EndRebuild, native, cache, discovery, Waiting, Written
  <2>2. n \in Ops \ Probes /\ Writing
    BY OpsApart DEF SnapInv
  <2>3. Stays /\ Holds /\ snapshot' \in {snapshot, Section}
    <3>1. CASE Goto(n, "idle") /\ UNCHANGED <<snapshot, target>>
      BY <2>1, <2>2, <3>1, GotoStays
    <3>2. CASE Schedule(n, "idle")
      BY <2>1, <2>2, <3>2, ScheduleStays
    <3> QED BY <2>1, <3>1, <3>2
  <2> QED BY <2>1, <2>3, QuietSteps, SectionOfTwo
<1> QED BY <1>1, <1>2, <1>3, <1>4, <1>5 DEF ProbeStep

\* The steps of the sessions and of the other programs, and the disposal.
LEMMA OthersKeepSnapshot ==
    ASSUME SnapInv,
           \/ \E c \in Picks : Pick(c) \/ PickStep(c)
           \/ \E r \in Records : Prepare(r) \/ Adopt(r) \/ Close(r) \/ Release(r)
           \/ \E kind \in news : SourcesChanged(kind)
           \/ \E e \in Edits : Edit(e)
           \/ Dispose \/ Disposed
    PROVE  SnapInv'
<1>1. ASSUME NEW c \in Picks, Pick(c) \/ PickStep(c) PROVE SnapInv'
  <2>1. PICK next : /\ Goto(c, next) /\ next # "probing" /\ ~Waiting(c) /\ ~Written(c)
    BY <1>1 DEF Pick, PickStep, Change, SelectionSaved, Flushed, Waiting, Written
  <2>2. /\ UNCHANGED <<route, writes, snapshot, target>>
        /\ "providers" \in news => "providers" \in news'
    BY <1>1 DEF Pick, PickStep, Change, SelectionSaved, Flushed, native, cache, discovery
  <2>3. Stays /\ Holds
    BY <2>1, <2>2, GotoStays, OpsApart DEF SnapInv
  <2> QED BY <2>2, <2>3, QuietSteps
<1>2. Writing /\ (UNCHANGED <<pc, target>> => Stays /\ Holds)
  BY DEF SnapInv, Writing, Stays, Holds
<1>3. ASSUME NEW r \in Records, Prepare(r) \/ Adopt(r) \/ Close(r) \/ Release(r) PROVE SnapInv'
  <2>1. UNCHANGED <<route, writes, news, snapshot, pc, target>>
    BY <1>3 DEF Prepare, Adopt, Close, Release, native, cache, discovery
  <2> QED BY <1>2, <2>1, QuietSteps
<1>4. ASSUME NEW kind \in news, SourcesChanged(kind) PROVE SnapInv'
  <2>1. /\ UNCHANGED <<route, writes, pc, target>>
        /\ \/ snapshot' = None
           \/ snapshot' = snapshot /\ ("providers" \in news => "providers" \in news')
    BY <1>4 DEF SourcesChanged, Heard, discovery
  <2> QED BY <1>2, <2>1, QuietSteps
<1>5. ASSUME NEW e \in Edits, Edit(e) PROVE SnapInv'
  <2>1. UNCHANGED <<writes, pc, target>> /\ "providers" \in news'
    BY <1>5 DEF Edit, discovery
  <2> QED BY <2>1 DEF SnapInv, Writing, Waiting, SnapshotTrue
<1>6. CASE Dispose
  <2>1. UNCHANGED <<route, writes, pc, target>> /\ snapshot' = None
    BY <1>6 DEF Dispose, native
  <2> QED BY <1>2, <2>1, QuietSteps
<1>7. CASE Disposed
  <2>1. UNCHANGED <<route, writes, news, snapshot, pc, target>>
    BY <1>7 DEF Disposed, native, cache, discovery
  <2> QED BY <1>2, <2>1, QuietSteps
<1> QED BY <1>1, <1>3, <1>4, <1>5, <1>6, <1>7

LEMMA SnapshotInvariance == Spec => []SnapInv
<1>1. Init => SnapInv
  <2> SUFFICES ASSUME Init PROVE SnapInv
    OBVIOUS
  <2>1. snapshot = route /\ writes = <<>> /\ pc = [o \in Ops |-> "idle"]
        /\ target = [n \in Probes |-> None]
    BY DEF Init
  <2>2. writes \in Seq(Routes) /\ DOMAIN writes = {}
    BY <2>1
  <2>3. \A n \in Probes : pc[n] = "idle"
    BY <2>1, OpsApart
  <2> QED BY <2>1, <2>2, <2>3 DEF SnapInv, Writing, SnapshotTrue
<1>2. SnapInv /\ [Next]_vars => SnapInv'
  <2> SUFFICES ASSUME SnapInv, [Next]_vars PROVE SnapInv'
    OBVIOUS
  <2>1. CASE UNCHANGED vars
    BY <2>1 DEF vars, native, cache, discovery, SnapInv, Writing, Waiting, SnapshotTrue
  <2>2. CASE Next
    BY <2>2, RequestsKeepSnapshot, ReadersKeepSnapshot, OthersKeepSnapshot, SettleWriteKeeps
       DEF Next, Progress
  <2> QED BY <2>1, <2>2
<1> QED BY <1>1, <1>2, PTL DEF Spec

\* The section that the catalog shows is the one of the settings document, but for
\* a change that is announced next or a write that has just settled, whatever
\* overlaps (model-catalog.ts, displaySection and writeProviderSettings).
THEOREM SnapshotIsTrue == Spec => []SnapshotTrue
<1>1. SnapInv => SnapshotTrue
  BY DEF SnapInv
<1> QED BY <1>1, SnapshotInvariance, PTL

-----------------------------------------------------------------------------
(* The choices of the sessions *)

PickStates == {"idle", "queued", "saving", "flushing", "changed", "refused"}

\* A choice that waits for its turn or is being made.
Going(c) == pc[c] \in {"queued", "saving", "flushing"}

\* A choice that the session has taken over.
Accepted(c) == pc[c] \in {"flushing", "changed"}

\* The changes of a record are its own, each once, and none is begun before those
\* in front of it have ended.
Queue(r) ==
    /\ \A i \in DOMAIN tail[r] : RecordOf[tail[r][i]] = r /\ pc[tail[r][i]] # "idle"
    /\ \A i, j \in DOMAIN tail[r] : tail[r][i] = tail[r][j] => i = j
    /\ \A i, j \in DOMAIN tail[r] : i < j /\ pc[tail[r][j]] # "queued" => Ended(tail[r][i])
    /\ status[r] \in {"new", "prepared"} => tail[r] = <<>>

Latest(r, i) ==
    /\ i \in DOMAIN tail[r] /\ Accepted(tail[r][i])
    /\ \A j \in DOMAIN tail[r] : Accepted(tail[r][j]) => j <= i

\* A live session has the choice that it took over last, and its log has it; once
\* that is flushed, the client knows of it if the catalog lists it.
Choice(r) ==
    Live(r) =>
        \A i \in DOMAIN tail[r] : Latest(r, i) =>
            /\ selection[r] = ModelOf[tail[r][i]]
            /\ logged[r] = selection[r]
            /\ pc[tail[r][i]] = "changed" => shown[r] \in {selection[r], None}

Shapes ==
    /\ DOMAIN pc = Ops
    /\ DOMAIN status = Records /\ DOMAIN selection = Records /\ DOMAIN logged = Records
    /\ DOMAIN shown = Records
    /\ tail \in [Records -> Seq(Picks)]

Queues ==
    /\ Shapes
    /\ \A c \in Picks : /\ pc[c] \in PickStates
                        /\ Going(c) => \E i \in DOMAIN tail[RecordOf[c]] : tail[RecordOf[c]][i] = c
    /\ \A r \in Records : Queue(r)

ChoiceInv == Queues /\ \A r \in Records : Choice(r)

LEMMA TailsArePicks ==
    ASSUME Shapes, NEW r \in Records
    PROVE  /\ tail[r] \in Seq(Picks) /\ DOMAIN tail[r] = 1..Len(tail[r]) /\ Len(tail[r]) \in Nat
           /\ \A i \in DOMAIN tail[r] : i \in Nat /\ tail[r][i] \in Picks /\ tail[r][i] \in Ops
<1>1. tail[r] \in Seq(Picks)
  BY DEF Shapes
<1>2. DOMAIN tail[r] = 1..Len(tail[r]) /\ Len(tail[r]) \in Nat
      /\ \A i \in DOMAIN tail[r] : i \in Nat /\ tail[r][i] \in Picks
  BY <1>1
<1> QED BY <1>1, <1>2, OpsApart

\* Steps that move no choice, and tell a client of nothing but its own.
LEMMA ChoicesStay ==
    ASSUME ChoiceInv, Shapes', tail' = tail, \A c \in Picks : pc'[c] = pc[c],
           \A r \in Records : /\ status'[r] \in {"new", "prepared"} => status[r] \in {"new", "prepared"}
                              /\ \/ tail[r] = <<>>
                                 \/ /\ Live(r)' => Live(r)
                                    /\ selection'[r] = selection[r] /\ logged'[r] = logged[r]
                                    /\ Live(r)' => shown'[r] \in {shown[r], selection[r], None}
    PROVE  ChoiceInv'
<1>1. \A r \in Records : \A i \in DOMAIN tail[r] : tail[r][i] \in Picks
  BY TailsArePicks DEF ChoiceInv, Queues
<1>2. Queues'
  <2>1. \A r \in Records : Queue(r)'
    BY <1>1 DEF ChoiceInv, Queues, Queue, Ended
  <2> QED BY <2>1 DEF ChoiceInv, Queues, Going
<1>3. ASSUME NEW r \in Records PROVE Choice(r)'
  <2>1. CASE tail[r] = <<>>
    BY <2>1 DEF Choice
  <2>2. CASE tail[r] # <<>>
    <3>1. /\ Live(r)' => Live(r)
          /\ selection'[r] = selection[r] /\ logged'[r] = logged[r]
          /\ Live(r)' => shown'[r] \in {shown[r], selection[r], None}
      BY <2>2
    <3>2. Choice(r)
      BY DEF ChoiceInv
    <3>3. \A i \in DOMAIN tail[r] : /\ pc'[tail[r][i]] = pc[tail[r][i]]
                                    /\ Latest(r, i)' => Latest(r, i)
      BY <1>1 DEF Latest, Accepted
    <3> QED BY <3>1, <3>2, <3>3 DEF Choice
  <2> QED BY <2>1, <2>2
<1> QED BY <1>2, <1>3 DEF ChoiceInv

\* A choice that is going on has one place, and those behind it wait.
LEMMA PlaceOf ==
    ASSUME Queues, NEW c \in Picks, Going(c)
    PROVE  \E k \in DOMAIN tail[RecordOf[c]] :
               /\ tail[RecordOf[c]][k] = c /\ RecordOf[c] \in Records
               /\ \A r \in Records : \A i \in DOMAIN tail[r] :
                      tail[r][i] = c => r = RecordOf[c] /\ i = k
               /\ \A j \in DOMAIN tail[RecordOf[c]] :
                      j > k => pc[tail[RecordOf[c]][j]] = "queued"
<1> DEFINE r0 == RecordOf[c]
<1>1. r0 \in Records
  BY ModelAssumption
<1>2. PICK k \in DOMAIN tail[r0] : tail[r0][k] = c
  BY DEF Queues
<1>3. Queue(r0) /\ ~Ended(c)
  BY <1>1 DEF Queues, Going, Ended
<1>4. \A j \in DOMAIN tail[r0] : j > k => pc[tail[r0][j]] = "queued"
  BY <1>2, <1>3, <1>1, TailsArePicks DEF Queue, Queues
<1>5. \A r \in Records : \A i \in DOMAIN tail[r] : tail[r][i] = c => r = r0 /\ i = k
  BY <1>2, <1>3 DEF Queues, Queue
<1> QED BY <1>1, <1>2, <1>4, <1>5

\* A choice that goes on in its turn keeps the queues in order.
LEMMA QueuesMove ==
    ASSUME Queues, Shapes', NEW c \in Picks, Going(c), pc[c] = "queued" => Turn(c),
           NEW next \in {"saving", "flushing", "changed", "refused"}, Goto(c, next),
           UNCHANGED <<status, tail>>
    PROVE  /\ Queues'
           /\ \A o \in Ops : o # c => pc'[o] = pc[o]
           /\ pc'[c] = next
<1> DEFINE r0 == RecordOf[c]
<1>1. r0 \in Records /\ c \in Ops
  BY ModelAssumption, OpsApart
<1>2. /\ pc'[c] = next
      /\ \A o \in Ops : o # c => pc'[o] = pc[o]
  BY <1>1, GotoMoves DEF Queues, Shapes
<1>3. PICK k \in DOMAIN tail[r0] :
        /\ tail[r0][k] = c
        /\ \A r \in Records : \A i \in DOMAIN tail[r] : tail[r][i] = c => r = r0 /\ i = k
  BY PlaceOf
<1>4. \A i \in DOMAIN tail[r0] : i < k => Ended(tail[r0][i])
  <2>1. CASE pc[c] = "queued"
    <3> SUFFICES ASSUME NEW i \in DOMAIN tail[r0], i < k PROVE Ended(tail[r0][i])
      OBVIOUS
    <3>1. k > i
      BY <1>1, <1>3, TailsArePicks DEF Queues
    <3> QED BY <1>3, <2>1, <3>1 DEF Turn
  <2>2. CASE pc[c] # "queued"
    BY <1>1, <1>3, <2>2 DEF Queues, Queue
  <2> QED BY <2>1, <2>2
<1>5. ASSUME NEW r \in Records PROVE Queue(r)'
  <2>1. \A i \in DOMAIN tail[r] : tail[r][i] \in Ops
    BY TailsArePicks DEF Queues
  <2>2. Queue(r)
    BY DEF Queues
  <2>3. ASSUME NEW i \in DOMAIN tail[r], NEW j \in DOMAIN tail[r],
               i < j, pc'[tail[r][j]] # "queued"
        PROVE  pc'[tail[r][i]] \in {"changed", "refused"}
    <3>1. CASE tail[r][j] = c
      <4>1. r = r0 /\ j = k
        BY <1>3, <3>1
      <4>2. Ended(tail[r][i]) /\ tail[r][i] # c
        BY <1>4, <2>3, <4>1 DEF Ended, Going
      <4> QED BY <1>2, <2>1, <4>2 DEF Ended
    <3>2. CASE tail[r][j] # c
      <4>1. Ended(tail[r][i]) /\ tail[r][i] # c
        BY <1>2, <2>1, <2>2, <2>3, <3>2 DEF Queue, Ended, Going
      <4> QED BY <1>2, <2>1, <4>1 DEF Ended
    <3> QED BY <3>1, <3>2
  <2>4. \A i \in DOMAIN tail[r] : pc'[tail[r][i]] # "idle"
    BY <1>2, <2>1, <2>2 DEF Queue
  <2> QED BY <2>2, <2>3, <2>4 DEF Queue, Ended
<1>6. \A d \in Picks : /\ pc'[d] \in PickStates
                       /\ Going(d)' => \E i \in DOMAIN tail[RecordOf[d]] : tail[RecordOf[d]][i] = d
  <2> SUFFICES ASSUME NEW d \in Picks
               PROVE  /\ pc'[d] \in PickStates
                      /\ Going(d)' => \E i \in DOMAIN tail[RecordOf[d]] : tail[RecordOf[d]][i] = d
    OBVIOUS
  <2>1. CASE d = c
    BY <1>2, <1>3, <2>1 DEF PickStates
  <2>2. CASE d # c
    <3>1. d \in Ops
      BY OpsApart
    <3> QED BY <1>2, <2>2, <3>1 DEF Queues, Going
  <2> QED BY <2>1, <2>2
<1>7. Queues'
  BY <1>5, <1>6 DEF Queues
<1> QED BY <1>2, <1>7

\* A choice that is not taken over, or that is refused, leaves the others alone.
LEMMA OthersChoose ==
    ASSUME ChoiceInv, Queues', NEW c \in Picks, ~Accepted(c), pc'[c] \notin {"flushing", "changed"},
           \A o \in Ops : o # c => pc'[o] = pc[o],
           UNCHANGED <<status, disposal, selection, logged, tail, shown>>
    PROVE  ChoiceInv'
<1> SUFFICES ASSUME NEW r \in Records PROVE Choice(r)'
  BY DEF ChoiceInv
<1>1. \A i \in DOMAIN tail[r] : tail[r][i] \in Ops
  BY TailsArePicks DEF ChoiceInv, Queues
<1>2. \A i \in DOMAIN tail[r] :
         pc'[tail[r][i]] \in {"flushing", "changed"} <=> Accepted(tail[r][i])
  BY <1>1 DEF Accepted
<1>3. \A i \in DOMAIN tail[r] : Latest(r, i)' => Latest(r, i) /\ pc'[tail[r][i]] = pc[tail[r][i]]
  BY <1>1, <1>2 DEF Latest, Accepted
<1> QED BY <1>3 DEF ChoiceInv, Choice, Live, Closed

\* A pick joins the queue of its record, or is refused at once.
LEMMA PickKeeps == ASSUME ChoiceInv, NEW c \in Picks, Pick(c) PROVE ChoiceInv'
<1> DEFINE r0 == RecordOf[c]
<1>1. /\ r0 \in Records /\ c \in Ops /\ Queues /\ Shapes
      /\ pc[c] = "idle" /\ status[r0] \in {"live", "closing"}
      /\ UNCHANGED <<status, disposal, selection, logged, shown>>
  BY ModelAssumption, OpsApart DEF ChoiceInv, Queues, Pick
<1>2. ASSUME NEW r \in Records, NEW i \in DOMAIN tail[r]
      PROVE  tail[r][i] \in Ops /\ tail[r][i] # c
  BY <1>1, TailsArePicks DEF Queues, Queue
<1>3. CASE Goto(c, "refused") /\ UNCHANGED tail
  <2>1. \A o \in Ops : o # c => pc'[o] = pc[o]
    BY <1>1, <1>3, GotoMoves DEF Shapes
  <2>2. pc'[c] = "refused" /\ Shapes'
    BY <1>1, <1>3, GotoMoves DEF Shapes
  <2>3. \A r \in Records : Queue(r)'
    BY <1>1, <1>2, <1>3, <2>1 DEF Queues, Queue, Ended
  <2>4. \A d \in Picks : d \in Ops
    BY OpsApart
  <2>5. Queues'
    BY <1>1, <1>3, <2>1, <2>2, <2>3, <2>4 DEF Queues, Going, PickStates
  <2> QED BY <1>1, <1>3, <2>1, <2>2, <2>5, OthersChoose DEF Accepted
<1>4. CASE /\ tail' = [tail EXCEPT ![r0] = Append(@, c)]
           /\ Goto(c, "queued")
  <2> DEFINE n == Len(tail[r0])
  <2>1. /\ \A o \in Ops : o # c => pc'[o] = pc[o]
        /\ pc'[c] = "queued" /\ DOMAIN pc' = Ops
    BY <1>1, <1>4, GotoMoves DEF Shapes
  <2>2. /\ tail[r0] \in Seq(Picks) /\ n \in Nat /\ DOMAIN tail[r0] = 1..n
        /\ tail'[r0] = Append(tail[r0], c) /\ \A r \in Records : r # r0 => tail'[r] = tail[r]
    BY <1>1, <1>4, TailsArePicks DEF Shapes
  <2>3. /\ DOMAIN tail'[r0] = 1..(n + 1) /\ tail'[r0][n + 1] = c
        /\ \A i \in DOMAIN tail[r0] : tail'[r0][i] = tail[r0][i]
        /\ tail'[r0] \in Seq(Picks)
    BY <2>2
  <2> HIDE DEF n
  <2>4. \A i \in DOMAIN tail'[r0] : i \in DOMAIN tail[r0] \/ i = n + 1
    BY <2>2, <2>3
  <2>5. Shapes'
    BY <1>1, <1>4, <2>1, <2>2, <2>3 DEF Shapes
  <2>6. ASSUME NEW r \in Records, NEW i \in DOMAIN tail[r]
        PROVE  pc'[tail[r][i]] = pc[tail[r][i]]
    BY <1>2, <2>1
  <2>7. Queue(r0)'
    <3>1. /\ \A i \in DOMAIN tail[r0] : /\ RecordOf[tail[r0][i]] = r0
                                        /\ pc[tail[r0][i]] # "idle" /\ tail[r0][i] # c
          /\ \A i, j \in DOMAIN tail[r0] : tail[r0][i] = tail[r0][j] => i = j
          /\ \A i, j \in DOMAIN tail[r0] :
                i < j /\ pc[tail[r0][j]] # "queued" => Ended(tail[r0][i])
      BY <1>1, <1>2 DEF Queues, Queue
    <3>2. \A i \in DOMAIN tail'[r0] : RecordOf[tail'[r0][i]] = r0 /\ pc'[tail'[r0][i]] # "idle"
      BY <1>1, <2>1, <2>3, <2>4, <2>6, <3>1
    <3>3. \A i, j \in DOMAIN tail'[r0] : tail'[r0][i] = tail'[r0][j] => i = j
      BY <2>3, <2>4, <3>1
    <3>4. ASSUME NEW i \in DOMAIN tail'[r0], NEW j \in DOMAIN tail'[r0],
                 i < j, pc'[tail'[r0][j]] # "queued"
          PROVE  pc'[tail'[r0][i]] \in {"changed", "refused"}
      <4>1. j \in DOMAIN tail[r0]
        BY <2>1, <2>3, <2>4, <3>4
      <4>2. i \in DOMAIN tail[r0]
        BY <2>2, <2>4, <3>4, <4>1
      <4> QED BY <1>1, <2>3, <2>6, <3>1, <3>4, <4>1, <4>2 DEF Ended
    <3>5. status'[r0] \notin {"new", "prepared"}
      BY <1>1
    <3> QED BY <3>2, <3>3, <3>4, <3>5 DEF Queue, Ended
  <2>8. ASSUME NEW r \in Records, r # r0 PROVE Queue(r)' /\ Choice(r)'
    <3>1. Queue(r) /\ Choice(r) /\ tail'[r] = tail[r]
      BY <1>1, <2>2, <2>8 DEF Queues, ChoiceInv
    <3>2. Queue(r)'
      BY <1>1, <2>6, <3>1 DEF Queue, Ended
    <3>3. \A i \in DOMAIN tail[r] : Latest(r, i)' => Latest(r, i)
      BY <2>6, <3>1 DEF Latest, Accepted
    <3>4. Choice(r)'
      BY <1>1, <2>6, <3>1, <3>3 DEF Choice, Live, Closed, Latest
    <3> QED BY <3>2, <3>4
  <2>9. Choice(r0)'
    <3>1. Choice(r0)
      BY <1>1 DEF ChoiceInv
    <3>2. \A i \in DOMAIN tail'[r0] :
             pc'[tail'[r0][i]] \in {"flushing", "changed"} =>
                 /\ i \in DOMAIN tail[r0] /\ tail'[r0][i] = tail[r0][i]
                 /\ pc'[tail'[r0][i]] = pc[tail[r0][i]] /\ Accepted(tail[r0][i])
      BY <1>1, <2>1, <2>3, <2>4, <2>6 DEF Accepted
    <3>3. \A i \in DOMAIN tail[r0] : i \in DOMAIN tail'[r0] /\
             (Accepted(tail[r0][i]) => pc'[tail'[r0][i]] \in {"flushing", "changed"})
      BY <1>1, <2>2, <2>3, <2>6 DEF Accepted
    <3>4. \A i \in DOMAIN tail'[r0] : Latest(r0, i)' => Latest(r0, i)
      BY <3>2, <3>3 DEF Latest, Accepted
    <3> QED BY <1>1, <3>1, <3>2, <3>4 DEF Choice, Live, Closed, Latest, Accepted
  <2>10. \A d \in Picks : /\ pc'[d] \in PickStates
                          /\ Going(d)' => \E i \in DOMAIN tail'[RecordOf[d]] :
                                              tail'[RecordOf[d]][i] = d
    <3> SUFFICES ASSUME NEW d \in Picks
                 PROVE  /\ pc'[d] \in PickStates
                        /\ Going(d)' => \E i \in DOMAIN tail'[RecordOf[d]] :
                                            tail'[RecordOf[d]][i] = d
      OBVIOUS
    <3>1. CASE d = c
      BY <2>1, <2>2, <2>3, <3>1 DEF PickStates
    <3>2. CASE d # c
      <4>1. d \in Ops /\ RecordOf[d] \in Records /\ pc'[d] = pc[d]
        BY <2>1, <3>2, OpsApart, ModelAssumption
      <4>2. /\ pc[d] \in PickStates
            /\ Going(d) => \E i \in DOMAIN tail[RecordOf[d]] : tail[RecordOf[d]][i] = d
        BY <1>1 DEF Queues
      <4>3. \A i \in DOMAIN tail[RecordOf[d]] :
               i \in DOMAIN tail'[RecordOf[d]] /\ tail'[RecordOf[d]][i] = tail[RecordOf[d]][i]
        <5>1. CASE RecordOf[d] = r0
          <6>1. \A i \in DOMAIN tail[r0] : i \in DOMAIN tail'[r0]
            BY <2>2, <2>3
          <6> QED BY <2>3, <5>1, <6>1
        <5>2. CASE RecordOf[d] # r0
          BY <2>2, <4>1, <5>2
        <5> QED BY <5>1, <5>2
      <4> QED BY <4>1, <4>2, <4>3 DEF Going
    <3> QED BY <3>1, <3>2
  <2> QED BY <2>5, <2>7, <2>8, <2>9, <2>10 DEF ChoiceInv, Queues
<1> QED BY <1>1, <1>3, <1>4 DEF Pick

\* A choice is weighed, saved and taken over.
LEMMA PickStepKeeps == ASSUME ChoiceInv, NEW c \in Picks, PickStep(c) PROVE ChoiceInv'
<1> DEFINE r0 == RecordOf[c]
<1>1. r0 \in Records /\ c \in Ops /\ Queues /\ Shapes /\ Choice(r0)
  BY ModelAssumption, OpsApart DEF ChoiceInv, Queues
<1>2. \A r \in Records : \A i \in DOMAIN tail[r] : tail[r][i] \in Ops /\ i \in Nat
  BY <1>1, TailsArePicks
<1>3. CASE Change(c)
  <2>1. PICK next \in {"saving", "refused"} :
           /\ Goto(c, next) /\ pc[c] = "queued" /\ Turn(c)
           /\ UNCHANGED <<status, disposal, selection, logged, tail, shown>>
    BY <1>3 DEF Change, sessions
  <2>2. Shapes'
    BY <1>1, <2>1, GotoMoves DEF Shapes
  <2>3. Queues' /\ pc'[c] = next /\ \A o \in Ops : o # c => pc'[o] = pc[o]
    BY <1>1, <2>1, <2>2, QueuesMove DEF Going
  <2> QED BY <2>1, <2>3, OthersChoose DEF Accepted
<1>4. CASE SelectionSaved(c)
  <2>1. /\ pc[c] = "saving" /\ UNCHANGED <<status, disposal, tail, shown>>
        /\ \/ Goto(c, "refused") /\ UNCHANGED <<selection, logged>>
           \/ /\ selection' = [selection EXCEPT ![r0] = ModelOf[c]]
              /\ logged' = [logged EXCEPT ![r0] = ModelOf[c]]
              /\ Goto(c, "flushing")
    BY <1>4 DEF SelectionSaved
  <2>2. PICK next \in {"refused", "flushing"} : Goto(c, next)
    BY <2>1
  <2>3. Shapes'
    BY <1>1, <2>1, <2>2, GotoMoves DEF Shapes
  <2>4. Queues' /\ pc'[c] = next /\ \A o \in Ops : o # c => pc'[o] = pc[o]
    BY <1>1, <2>1, <2>2, <2>3, QueuesMove DEF Going
  <2>5. CASE Goto(c, "refused") /\ UNCHANGED <<selection, logged>>
    <3>1. pc'[c] = "refused"
      BY <1>1, <2>5, GotoMoves DEF Shapes
    <3> QED BY <2>1, <2>4, <2>5, <3>1, OthersChoose DEF Accepted
  <2>6. CASE /\ selection' = [selection EXCEPT ![r0] = ModelOf[c]]
             /\ logged' = [logged EXCEPT ![r0] = ModelOf[c]]
             /\ Goto(c, "flushing")
    <3>1. /\ pc'[c] = "flushing" /\ selection'[r0] = ModelOf[c] /\ logged'[r0] = ModelOf[c]
          /\ \A r \in Records : r # r0 => selection'[r] = selection[r] /\ logged'[r] = logged[r]
      BY <1>1, <2>6, GotoMoves DEF Shapes
    <3>2. PICK k \in DOMAIN tail[r0] :
            /\ tail[r0][k] = c
            /\ \A r \in Records : \A i \in DOMAIN tail[r] : tail[r][i] = c => r = r0 /\ i = k
            /\ \A j \in DOMAIN tail[r0] : j > k => pc[tail[r0][j]] = "queued"
      BY <1>1, <2>1, PlaceOf DEF Going
    <3>3. Choice(r0)'
      <4>1. \A i \in DOMAIN tail[r0] : Latest(r0, i)' => i = k
        <5> SUFFICES ASSUME NEW i \in DOMAIN tail[r0], Latest(r0, i)' PROVE i = k
          OBVIOUS
        <5>1. k <= i /\ pc'[tail[r0][i]] \in {"flushing", "changed"}
          BY <2>1, <3>1, <3>2 DEF Latest, Accepted
        <5>2. i > k => pc'[tail[r0][i]] = "queued"
          BY <1>1, <1>2, <2>4, <3>1, <3>2, <5>1
        <5> QED BY <1>1, <1>2, <5>1, <5>2
      <4> QED BY <2>1, <3>1, <3>2, <4>1 DEF Choice
    <3>4. ASSUME NEW r \in Records, r # r0 PROVE Choice(r)'
      <4>1. \A i \in DOMAIN tail[r] : pc'[tail[r][i]] = pc[tail[r][i]]
        BY <1>2, <2>4, <3>2, <3>4
      <4>2. \A i \in DOMAIN tail[r] : Latest(r, i)' => Latest(r, i)
        BY <2>1, <4>1 DEF Latest, Accepted
      <4> QED BY <2>1, <3>1, <3>4, <4>1, <4>2 DEF ChoiceInv, Choice, Live, Closed
    <3> QED BY <2>4, <3>3, <3>4 DEF ChoiceInv
  <2> QED BY <2>1, <2>5, <2>6
<1>5. CASE Flushed(c)
  <2>1. /\ pc[c] = "flushing" /\ Goto(c, "changed")
        /\ UNCHANGED <<status, disposal, selection, logged, tail>>
        /\ \/ ~Live(r0) /\ UNCHANGED shown
           \/ \E s \in {selection[r0], None} : shown' = [shown EXCEPT ![r0] = s]
    BY <1>5 DEF Flushed, sessions
  <2>2. Shapes'
    BY <1>1, <2>1, GotoMoves DEF Shapes
  <2>3. Queues' /\ pc'[c] = "changed" /\ \A o \in Ops : o # c => pc'[o] = pc[o]
    BY <1>1, <2>1, <2>2, QueuesMove DEF Going
  <2>4. /\ \A r \in Records : \A i \in DOMAIN tail[r] :
              Latest(r, i)' => Latest(r, i)
        /\ \A r \in Records : \A i \in DOMAIN tail[r] :
              r # r0 => pc'[tail[r][i]] = pc[tail[r][i]]
    <3>1. \A r \in Records : \A i \in DOMAIN tail[r] :
             pc'[tail[r][i]] \in {"flushing", "changed"} <=> Accepted(tail[r][i])
      BY <1>2, <2>1, <2>3 DEF Accepted
    <3>2. PICK k \in DOMAIN tail[r0] :
            \A r \in Records : \A i \in DOMAIN tail[r] : tail[r][i] = c => r = r0 /\ i = k
      BY <1>1, <2>1, PlaceOf DEF Going
    <3> QED BY <1>2, <2>1, <2>3, <3>1, <3>2 DEF Latest, Accepted
  <2>5. /\ Live(r0) => shown'[r0] \in {selection[r0], None}
        /\ \A r \in Records : r # r0 => shown'[r] = shown[r]
    BY <1>1, <2>1 DEF Shapes
  <2>6. ASSUME NEW r \in Records PROVE Choice(r)'
    <3>1. CASE r = r0
      BY <1>1, <2>1, <2>4, <2>5, <3>1 DEF Choice, Live, Closed, Latest
    <3>2. CASE r # r0
      BY <2>1, <2>4, <2>5, <3>2 DEF ChoiceInv, Choice, Live, Closed, Latest
    <3> QED BY <3>1, <3>2
  <2> QED BY <2>3, <2>6 DEF ChoiceInv
<1> QED BY <1>3, <1>4, <1>5 DEF PickStep

\* The steps that make no choice.
LEMMA OthersKeepChoices ==
    ASSUME ChoiceInv, SnapInv, Next,
           ~\E c \in Picks : Pick(c) \/ PickStep(c)
    PROVE  ChoiceInv'
<1> DEFINE Told == \A r \in Records : Live(r) => shown'[r] \in {shown[r], selection[r], None}
<1>0. /\ Shapes /\ DOMAIN pc = Ops /\ \A c \in Picks : c \in Ops
  BY OpsApart DEF ChoiceInv, Queues, Shapes
\* What such a step may do: the choices stay, and the clients are told of their own.
<1>1. ASSUME UNCHANGED <<status, disposal, selection, logged, tail>>, DOMAIN pc' = Ops,
             \A c \in Picks : pc'[c] = pc[c], DOMAIN shown' = Records, Told
      PROVE  ChoiceInv'
  <2>1. Shapes'
    BY <1>0, <1>1 DEF Shapes
  <2>2. \A r \in Records : Live(r)' => Live(r)
    BY <1>1 DEF Live, Closed
  <2> QED BY <1>1, <2>1, <2>2, ChoicesStay
<1>2. UNCHANGED shown => Told /\ DOMAIN shown' = Records
  BY <1>0 DEF Shapes
<1>3. ASSUME NEW cat, Announce(cat) PROVE Told /\ DOMAIN shown' = Records
  BY <1>3 DEF Announce
<1>4. ASSUME NEW o \in Ops \ Picks, NEW next, Goto(o, next)
      PROVE  DOMAIN pc' = Ops /\ \A c \in Picks : pc'[c] = pc[c]
  BY <1>0, <1>4, GotoMoves
<1>5. ASSUME NEW o \in Ops \ (Picks \cup Probes), NEW next, Schedule(o, next)
      PROVE  DOMAIN pc' = Ops /\ \A c \in Picks : pc'[c] = pc[c]
  BY <1>0, <1>5, ScheduleMoves, OpsApart DEF SnapInv
<1> HIDE DEF Told
<1>6. ASSUME NEW q \in Requests, StartRequest(q) \/ RequestStep(q) PROVE ChoiceInv'
  <2>0. q \in Ops \ Picks /\ q \in Ops \ (Picks \cup Probes)
    BY OpsApart
  <2>1. UNCHANGED <<status, disposal, selection, logged, tail>>
    BY <1>6 DEF StartRequest, RequestStep, WriteRoute, RemoveRoute, Retry, RouteWritten, Cleaned,
                Answer, sessions
  <2>2. UNCHANGED shown \/ \E cat : Announce(cat)
    BY <1>6 DEF StartRequest, RequestStep, WriteRoute, RemoveRoute, Retry, RouteWritten, Cleaned,
                Answer
  <2>3. \E next : Goto(q, next) \/ Schedule(q, next)
    BY <1>6 DEF StartRequest, RequestStep, WriteRoute, RemoveRoute, Retry, RouteWritten, Cleaned,
                Answer
  <2>4. DOMAIN pc' = Ops /\ \A c \in Picks : pc'[c] = pc[c]
    BY <1>4, <1>5, <2>0, <2>3
  <2> QED BY <1>1, <1>2, <1>3, <2>1, <2>2, <2>4
<1>7. ASSUME NEW n \in Probes, ProbeStep(n) PROVE ChoiceInv'
  <2>1. /\ UNCHANGED <<status, disposal, selection, logged, tail>>
        /\ UNCHANGED shown \/ \E cat : Announce(cat)
        /\ \E next : Goto(n, next)
    BY <1>7 DEF ProbeStep, Probed, ProbeWritten, ProbeRead, sessions
  <2> QED BY <1>1, <1>2, <1>3, <1>4, <2>1, OpsApart
<1>8. ASSUME NEW n \in Rebuilds, StartRebuild(n) \/ EndRebuild(n) PROVE ChoiceInv'
  <2>1. /\ UNCHANGED <<status, disposal, selection, logged, tail>>
        /\ UNCHANGED shown \/ \E cat : Announce(cat)
        /\ \E next : Goto(n, next) \/ Schedule(n, next)
    BY <1>8 DEF StartRebuild, EndRebuild, sessions
  <2> QED BY <1>1, <1>2, <1>3, <1>4, <1>5, <2>1, OpsApart
<1>9. ASSUME SettleWrite PROVE ChoiceInv'
  <2>1. /\ UNCHANGED <<status, disposal, selection, logged, tail, shown>>
        /\ \E next : Goto(Head(writes).by, next)
    BY <1>9 DEF SettleWrite, sessions
  <2>2. writes \in Seq(Routes) /\ writes # <<>>
    BY <1>9 DEF SnapInv, Writing, SettleWrite
  <2>3. Head(writes) \in Routes
    BY <2>2
  <2>4. Head(writes).by \in Requests \cup Probes
    BY <2>3 DEF Routes
  <2> QED BY <1>1, <1>2, <1>4, <2>1, <2>4, OpsApart
<1>10. ASSUME \/ \E e \in Edits : Edit(e)
              \/ \E kind \in news : SourcesChanged(kind)
       PROVE  ChoiceInv'
  <2>1. UNCHANGED <<status, disposal, selection, logged, tail, shown, pc>>
    BY <1>10 DEF Edit, SourcesChanged, sessions
  <2> QED BY <1>0, <1>1, <1>2, <2>1
<1>11. ASSUME NEW r \in Records, Prepare(r) \/ Adopt(r) \/ Close(r) \/ Release(r)
       PROVE  ChoiceInv'
  <2>1. /\ UNCHANGED <<disposal, pc, logged, tail>>
        /\ \A s \in Records : s # r => /\ status'[s] = status[s] /\ shown'[s] = shown[s]
                                       /\ selection'[s] = selection[s]
        /\ Shapes'
        /\ \/ status[r] \in {"new", "prepared"}
           \/ status'[r] \notin {"live", "new", "prepared"} /\ UNCHANGED <<selection, shown>>
    BY <1>0, <1>11 DEF Prepare, Adopt, Close, Release, sessions, Shapes
  <2>2. status[r] \in {"new", "prepared"} => tail[r] = <<>>
    BY DEF ChoiceInv, Queues, Queue
  <2> QED BY <2>1, <2>2, ChoicesStay DEF Live, Closed
<1>12. ASSUME Dispose PROVE ChoiceInv'
  <2>1. /\ UNCHANGED <<pc, selection, logged, tail, shown>> /\ disposal' # "open"
        /\ status' = [r \in Records |-> IF status[r] = "live" THEN "closing" ELSE status[r]]
    BY <1>12 DEF Dispose
  <2>2. Shapes'
    BY <1>0, <2>1 DEF Shapes
  <2> QED BY <2>1, <2>2, ChoicesStay DEF Live, Closed
<1>13. ASSUME Disposed PROVE ChoiceInv'
  <2>1. /\ UNCHANGED <<pc, status, selection, logged, tail, shown>> /\ disposal' # "open"
    BY <1>13 DEF Disposed, sessions
  <2>2. Shapes'
    BY <1>0, <2>1 DEF Shapes
  <2> QED BY <2>1, <2>2, ChoicesStay DEF Live, Closed
<1> QED
  BY <1>6, <1>7, <1>8, <1>9, <1>10, <1>11, <1>12, <1>13 DEF Next, Progress

\* The choice of a live session is the last one that was accepted for it, in the
\* order of the requests, whatever was slow or failed, with whatever reads, writes
\* and discoveries in between (session-models.ts, set and change).
THEOREM ChoicesStand == Spec => []ChoiceStands
<1>1. Init => ChoiceInv
  <2> SUFFICES ASSUME Init PROVE ChoiceInv
    OBVIOUS
  <2>1. \A c \in Picks : pc[c] = "idle"
    BY OpsApart DEF Init
  <2>2. tail = [r \in Records |-> <<>>]
    BY DEF Init
  <2>3. Shapes
    BY <2>2 DEF Init, Shapes
  <2> QED BY <2>1, <2>2, <2>3 DEF ChoiceInv, Queues, Queue, Choice, Going, PickStates
<1>2. ChoiceInv /\ SnapInv /\ [Next]_vars => ChoiceInv'
  <2> SUFFICES ASSUME ChoiceInv, SnapInv, [Next]_vars PROVE ChoiceInv'
    OBVIOUS
  <2>1. CASE UNCHANGED vars
    <3>1. UNCHANGED <<pc, status, disposal, selection, logged, tail, shown>>
      BY <2>1 DEF vars, sessions
    <3>2. Shapes'
      BY <3>1 DEF ChoiceInv, Queues, Shapes
    <3> QED BY <3>1, <3>2, ChoicesStay DEF Live, Closed
  <2>2. CASE Next
    BY <2>2, PickKeeps, PickStepKeeps, OthersKeepChoices
  <2> QED BY <2>1, <2>2
<1>3. ChoiceInv => ChoiceStands
  <2> SUFFICES ASSUME ChoiceInv, NEW r \in Records, Live(r), Drained(r),
                      NEW i \in DOMAIN tail[r], pc[tail[r][i]] = "changed",
                      \A j \in DOMAIN tail[r] : pc[tail[r][j]] = "changed" => j <= i
               PROVE  /\ selection[r] = ModelOf[tail[r][i]]
                      /\ logged[r] = selection[r]
                      /\ shown[r] \in {selection[r], None}
    BY DEF ChoiceStands
  <2>1. Latest(r, i)
    BY DEF Latest, Accepted, Drained, Ended
  <2> QED BY <2>1 DEF ChoiceInv, Choice
<1> QED BY <1>1, <1>2, <1>3, SnapshotInvariance, PTL DEF Spec

-----------------------------------------------------------------------------
(* The disposal *)

\* Nothing that was discovered is kept after the disposal.
Emptied ==
    /\ DOMAIN logged = Records
    /\ discovered = [p \in Providers |-> discovered[p]]
    /\ Closed => \A p \in Providers : discovered[p] = None

\* What CatchesUp says of the disposal and of the logs.
Still ==
    /\ Closed => UNCHANGED <<catalog, published, shown, discovered>>
    /\ \A r \in Records : status[r] # "live" => logged'[r] = logged[r]

LEMMA EmptiedStays == ASSUME Emptied, Next PROVE Emptied' /\ Still
<1>1. ASSUME NEW q \in Requests, RequestStep(q) PROVE Emptied' /\ Still
  <2>1. UNCHANGED <<disposal, logged>>
    BY <1>1 DEF RequestStep, WriteRoute, RemoveRoute, Retry, RouteWritten, Cleaned, Answer, sessions
  <2>2. ProviderOf[q] \in Providers
    BY ModelAssumption
  <2>3. CASE UNCHANGED discovered
    <3>1. Closed => UNCHANGED <<catalog, published, shown>>
      BY <1>1 DEF RequestStep, WriteRoute, RemoveRoute, Retry, RouteWritten, Cleaned, Answer, cache
    <3> QED BY <2>1, <2>3, <3>1 DEF Emptied, Still, Closed
  <2>4. CASE /\ ~Closed
             /\ \E v : discovered' = [discovered EXCEPT ![ProviderOf[q]] = v]
    BY <2>1, <2>4 DEF Emptied, Still, Closed
  <2>5. CASE /\ discovered' = [discovered EXCEPT ![ProviderOf[q]] = None]
             /\ UNCHANGED <<catalog, published, shown>>
    <3>1. Closed => discovered' = discovered
      BY <2>2, <2>5 DEF Emptied
    <3> QED BY <2>1, <2>5, <3>1 DEF Emptied, Still, Closed
  <2>6. \/ UNCHANGED discovered
        \/ /\ ~Closed
           /\ \E v : discovered' = [discovered EXCEPT ![ProviderOf[q]] = v]
        \/ /\ discovered' = [discovered EXCEPT ![ProviderOf[q]] = None]
           /\ UNCHANGED <<catalog, published, shown>>
    BY <1>1 DEF RequestStep, WriteRoute, RemoveRoute, Retry, RouteWritten, Cleaned, Answer,
                Forget, Schedule, discovery
  <2> QED BY <2>3, <2>4, <2>5, <2>6
<1>2. ASSUME NEW n \in Probes, ProbeStep(n) PROVE Emptied' /\ Still
  <2>1. UNCHANGED <<disposal, logged>> /\ discovered' = [p \in Providers |-> discovered'[p]]
    BY <1>2 DEF ProbeStep, Probed, ProbeWritten, ProbeRead, sessions, discovery, Emptied
  <2>2. Closed => UNCHANGED <<catalog, published, shown, discovered>>
    BY <1>2 DEF ProbeStep, Probed, ProbeWritten, ProbeRead, discovery, Stale
  <2> QED BY <2>1, <2>2 DEF Emptied, Still, Closed
<1>3. ASSUME NEW n \in Rebuilds, StartRebuild(n) \/ EndRebuild(n) PROVE Emptied' /\ Still
  <2>1. UNCHANGED <<disposal, logged, discovered>>
    BY <1>3 DEF StartRebuild, EndRebuild, sessions, discovery, Schedule
  <2>2. Closed => UNCHANGED <<catalog, published, shown>>
    BY <1>3 DEF StartRebuild, EndRebuild, cache
  <2> QED BY <2>1, <2>2 DEF Emptied, Still, Closed
<1>4. ASSUME NEW c \in Picks, Pick(c) \/ PickStep(c) PROVE Emptied' /\ Still
  <2>1. UNCHANGED <<disposal, discovered, published>>
    BY <1>4 DEF Pick, PickStep, Change, SelectionSaved, Flushed, discovery
  <2>2. Closed => UNCHANGED <<catalog, shown>>
    BY <1>4 DEF Pick, PickStep, Change, SelectionSaved, Flushed, cache, Live
  <2>3. \A r \in Records : status[r] # "live" => logged'[r] = logged[r]
    <3>1. \/ UNCHANGED logged
          \/ Live(RecordOf[c]) /\ \E v : logged' = [logged EXCEPT ![RecordOf[c]] = v]
      BY <1>4 DEF Pick, PickStep, Change, SelectionSaved, Flushed, sessions
    <3> QED BY <3>1 DEF Live, Emptied
  <2>4. DOMAIN logged' = DOMAIN logged
    BY <1>4 DEF Pick, PickStep, Change, SelectionSaved, Flushed, sessions
  <2> QED BY <2>1, <2>2, <2>3, <2>4 DEF Emptied, Still, Closed
<1>5. ASSUME NEW r \in Records, Prepare(r) \/ Adopt(r) \/ Close(r) \/ Release(r)
      PROVE  Emptied' /\ Still
  <2>1. /\ UNCHANGED <<disposal, discovered, catalog, published, logged>>
        /\ Closed => UNCHANGED shown
    BY <1>5 DEF Prepare, Adopt, Close, Release, discovery, cache
  <2> QED BY <2>1 DEF Emptied, Still, Closed
<1>6. ASSUME \/ \E q \in Requests : StartRequest(q)
             \/ \E kind \in news : SourcesChanged(kind)
             \/ \E e \in Edits : Edit(e)
             \/ SettleWrite
      PROVE  Emptied' /\ Still
  <2>1. UNCHANGED <<disposal, discovered, catalog, published, shown, logged>>
    BY <1>6 DEF StartRequest, SourcesChanged, Edit, SettleWrite, discovery, cache, sessions
  <2> QED BY <2>1 DEF Emptied, Still, Closed
<1>7. ASSUME Dispose PROVE Emptied' /\ Still
  BY <1>7 DEF Dispose, Emptied, Still, Closed
<1>8. ASSUME Disposed PROVE Emptied' /\ Still
  <2>1. disposal = "draining" /\ UNCHANGED <<discovered, catalog, published, shown, logged>>
    BY <1>8 DEF Disposed, discovery, cache, sessions
  <2> QED BY <2>1 DEF Emptied, Still, Closed
<1> QED BY <1>1, <1>2, <1>3, <1>4, <1>5, <1>6, <1>7, <1>8 DEF Next, Progress

\* After the disposal nothing is cached, published, discovered or told to a client,
\* and nothing is appended to the session of a client that has closed it, although
\* accepted work goes on (model-catalog.ts, dispose; session-models.ts, change).
THEOREM DisposalIsFinal ==
    Spec => [][/\ Closed => UNCHANGED <<catalog, published, shown, discovered>>
               /\ \A r \in Records : status[r] # "live" => logged'[r] = logged[r]]_vars
<1>1. Init => Emptied
  BY DEF Init, Emptied, Closed
<1>2. Emptied /\ [Next]_vars => Emptied'
  <2> SUFFICES ASSUME Emptied, [Next]_vars PROVE Emptied'
    OBVIOUS
  <2>1. CASE UNCHANGED vars
    BY <2>1 DEF vars, discovery, sessions, Emptied, Closed
  <2> QED BY <2>1, EmptiedStays
<1>3. Emptied /\ [Next]_vars =>
        [/\ Closed => UNCHANGED <<catalog, published, shown, discovered>>
         /\ \A r \in Records : status[r] # "live" => logged'[r] = logged[r]]_vars
  BY EmptiedStays DEF Still
<1> QED BY <1>1, <1>2, <1>3, PTL DEF Spec
=============================================================================
