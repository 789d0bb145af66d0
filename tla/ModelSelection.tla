--------------------------- MODULE ModelSelection ---------------------------
(* The catalog of providers and models (model-catalog.ts) with the choices of  *)
(* the sessions (session-models.ts): reads that overlap and settle out of      *)
(* order, background discoveries, writes of provider routes, changes announced *)
(* by the native services, and session/set_model.                              *)
(*                                                                             *)
(* A provider has one model and at most one route, which is its endpoint.      *)
(* Efforts, credentials and the native adapter are left out; so is         *)
(* "initialize", whose read and discoveries have ended.                        *)
EXTENDS Naturals, FiniteSets, SequencesExt

CONSTANTS
    Providers, Endpoints,
    Dynamic,                \* endpoints that list their models themselves
    Requests, Kind, ProviderOf, EndpointOf,     \* of the clients
    Picks, RecordOf, ModelOf,                   \* session/set_model
    Records,                \* of one client each
    Rebuilds, Probes,       \* at most so many run at a time (bounds)
    MaxActs,                \* requests, edits and sessions of a behaviour (a bound)
    Saved,                  \* the routes and the default at the start
    Edits,                  \* what other programs change, once each (a bound)
    Faults, None

FaultKinds == {"write", "models", "probe", "save", "append"}

ASSUME ModelAssumption ==
    /\ Dynamic \subseteq Endpoints /\ Faults \subseteq FaultKinds
    /\ Kind \in [Requests -> {"add", "update", "remove", "list"}]
    /\ ProviderOf \in [Requests -> Providers]
    /\ EndpointOf \in [Requests -> Endpoints]
    /\ RecordOf \in [Picks -> Records] /\ ModelOf \in [Picks -> Providers]
    /\ Saved.route \in [Providers -> Endpoints \cup {None}]
    /\ MaxActs \in Nat
    /\ (Requests \cup Rebuilds) \cap (Probes \cup Picks) = {}
    /\ Requests \cap Rebuilds = {} /\ Probes \cap Picks = {}
    /\ Edits \subseteq [provider : Providers, to : Endpoints \cup {None}]

VARIABLES
    route,      \* native: the route of each provider
    default,    \* native: the default selection
    writes,     \* native: mutate() calls that are not settled yet, in order
    news,       \* native: announcements on their way
    edits,      \* what other programs have changed so far
    catalog, published, snapshot, timer, discovered, probed, disposal,
    pc,         \* of requests, rebuilds, probes and picks
    target,     \* the provider and the endpoint that a probe asks
    reading,    \* who reads the native services, oldest generation first
    read,       \* what a read has taken, and whether a newer one is cached
    status, selection, logged, tail, shown      \* of the records

native == <<route, default, writes, news, edits>>
cache == <<catalog, snapshot>>
discovery == <<discovered, probed, target>>
reads == <<reading, read>>
sessions == <<status, selection, logged, tail>>
vars == <<native, cache, published, timer, discovery, disposal, pc, reads,
          sessions, shown>>

Ops == Requests \cup Rebuilds \cup Probes \cup Picks
Closed == disposal # "open"
Live(r) == status[r] = "live" /\ ~Closed
Goto(o, next) == pc' = [pc EXCEPT ![o] = next]
MayAct ==
    Cardinality({q \in Requests : pc[q] # "idle"}) + Cardinality(edits)
        + Cardinality({r \in Records : status[r] # "new"}) < MaxActs
MayFail(fault) == {TRUE} \cup {fault \notin Faults}

-----------------------------------------------------------------------------
(* Reads *)

Configured == {p \in Providers : route[p] # None}

\* displaySection
Section == IF snapshot = None THEN route ELSE snapshot

\* The providers that can be chosen; the first of them seeds the current one.
Usable(cat) == {p \in Providers : cat.models[p] # None}
Seed(cat) == IF Usable(cat) = {} THEN None ELSE CHOOSE p \in Usable(cat) : TRUE

\* listedModels: what a discovery found overrides the static listing; a provider
\* that is gone cannot be listed.
Listed(p) == CASE route[p] = None -> None
               [] route[p] # None /\ discovered[p] # None -> discovered[p]
               [] OTHER -> "listed"

\* assembleCatalog
Assemble(roster, section) ==
    LET cat == [models |-> [p \in Providers |-> IF p \in roster THEN Listed(p) ELSE None],
                rows |-> [p \in Providers |-> IF p \in roster THEN section[p] ELSE None]]
    IN  [models |-> cat.models, rows |-> cat.rows,
         current |-> IF default \in Usable(cat) THEN default ELSE Seed(cat)]

\* refreshCatalog, up to its first await: the roster and the section are read
\* at once, the models and the default when it settles.
BeginRead(o) ==
    /\ reading' = Append(reading, o)
    /\ read' = [read EXCEPT ![o] = [roster |-> Configured, section |-> Section, late |-> FALSE]]
    /\ snapshot' = Section

Result(o) == Assemble(read[o].roster, read[o].section)

\* Mutant: the last read that settles wins the cache.
NewestAlways(o) == TRUE

\* generation > cachedGeneration
Newest(o) == ~read[o].late

Cached(o) == IF Newest(o) THEN Result(o) ELSE catalog

\* refreshCatalog settles; the reads of older generations come too late.
EndRead(o) ==
    LET before == {reading[i] : i \in 1..(CHOOSE i \in DOMAIN reading : reading[i] = o) - 1}
    IN  /\ reading' = Remove(reading, o)
        /\ read' = [q \in Ops |->
                      IF q = o THEN None
                      ELSE IF q \in before /\ Newest(o) THEN [read[q] EXCEPT !.late = TRUE]
                      ELSE read[q]]
        /\ catalog' = Cached(o)

\* assertOpen() throws in a read that settles after the disposal.
DropRead(o) ==
    /\ reading' = Remove(reading, o)
    /\ read' = [read EXCEPT ![o] = None]

\* publish() and changed(): a client with a session is told its own choice, one
\* without the current model.
Announce(cat) ==
    /\ published' = cat
    /\ shown' = [r \in Records |->
                   IF ~Live(r) THEN cat.current
                   ELSE IF selection[r] \in Usable(cat) THEN selection[r] ELSE None]

-----------------------------------------------------------------------------
(* Discovery *)

Idle(slots) == {o \in slots : pc[o] = "idle"}
Due == {p \in Configured : /\ Section[p] \in Dynamic
                           /\ discovered[p] = None /\ probed[p] # Section[p]}
Slots == {f \in [Due -> Idle(Probes)] : IsInjective(f)}
SlotOf == CHOOSE f \in Slots : TRUE

\* scheduleDynamicCatalogRefresh, in the step of operation o that goes on at next.
Schedule(o, next) ==
    /\ Slots # {}
    /\ LET started == {SlotOf[p] : p \in Due}
           provider(n) == CHOOSE p \in Due : SlotOf[p] = n
       IN  /\ pc' = [q \in Ops |-> IF q = o THEN next
                                   ELSE IF q \in started THEN "probing" ELSE pc[q]]
           /\ target' = [n \in Probes |->
                           IF n \in started
                           THEN [provider |-> provider(n), endpoint |-> Section[provider(n)]]
                           ELSE target[n]]
    /\ probed' = [p \in Providers |-> IF p \in Due THEN Section[p] ELSE probed[p]]
    /\ snapshot' = Section
    /\ UNCHANGED discovered

\* writeProviderSettings, up to its await
Write(o, p, to) ==
    /\ writes' = Append(writes, [by |-> o, provider |-> p, to |-> to])
    /\ snapshot' = None

\* The route of the probe was changed, or the catalog disposed of.
Stale(n) == Closed \/ probed[target[n].provider] # target[n].endpoint

\* refreshDynamicRoute and persistDiscoveredProviderModels: the found models are
\* written to the route unless it was changed or has them already.
Probed(n) ==
    /\ pc[n] = "probing"
    /\ UNCHANGED <<route, default, news, edits, catalog, published, timer, probed, target,
                   disposal, sessions, shown>>
    /\ LET p == target[n].provider
           e == target[n].endpoint
       IN  \/ /\ Stale(n) \/ "probe" \in Faults
              /\ Goto(n, "idle")
              /\ UNCHANGED <<writes, snapshot, discovered, reads>>
           \/ /\ ~Stale(n)
              /\ discovered' = [discovered EXCEPT ![p] = e]
              /\ \/ /\ route[p] = e
                    /\ Write(n, p, e)
                    /\ Goto(n, "writing")
                    /\ UNCHANGED reads
                 \/ /\ BeginRead(n)
                    /\ Goto(n, "reading")
                    /\ UNCHANGED writes

ProbeWritten(n) ==
    /\ pc[n] \in {"written", "refused"}
    /\ IF pc[n] = "refused" \/ Stale(n)
       THEN /\ snapshot' = None
            /\ Goto(n, "idle")
            /\ UNCHANGED reads
       ELSE /\ reading' = Append(reading, n)
            /\ read' = [read EXCEPT ![n] = [roster |-> Configured, section |-> route, late |-> FALSE]]
            /\ snapshot' = route
            /\ Goto(n, "reading")
    /\ UNCHANGED <<native, catalog, published, timer, discovery, disposal, sessions, shown>>

ProbeRead(n) ==
    /\ pc[n] = "reading"
    /\ Goto(n, "idle")
    /\ IF Closed
       THEN DropRead(n) /\ UNCHANGED <<catalog, published, shown>>
       ELSE EndRead(n) /\ Announce(Result(n))
    /\ UNCHANGED <<native, snapshot, timer, discovery, disposal, sessions>>
-----------------------------------------------------------------------------
(* Requests of the clients *)

RefusedAtOnce(q) ==
    LET known == route[ProviderOf[q]] # None IN
    \/ Closed
    \/ Kind[q] = "add" /\ known
    \/ Kind[q] \in {"update", "remove"} /\ ~known

\* addProvider, updateProvider, removeProvider and modelsList, up to their first
\* await: the last two read the services, the others store the key.
StartRequest(q) ==
    /\ pc[q] = "idle" /\ MayAct
    /\ \/ RefusedAtOnce(q) /\ Goto(q, "done") /\ UNCHANGED <<reads, snapshot>>
       \/ ~RefusedAtOnce(q) /\ Kind[q] \in {"remove", "list"} /\ BeginRead(q) /\ Goto(q, "reading")
       \/ ~RefusedAtOnce(q) /\ Kind[q] \in {"add", "update"} /\ Goto(q, "keyed")
          /\ UNCHANGED <<reads, snapshot>>
    /\ UNCHANGED <<native, catalog, published, timer, discovery, disposal, sessions, shown>>

\* The key is stored; the route is written although the leader may be closing.
WriteRoute(q) ==
    /\ pc[q] = "keyed"
    /\ Write(q, ProviderOf[q], EndpointOf[q])
    /\ Goto(q, "writing")
    /\ UNCHANGED <<route, default, news, edits, catalog, published, timer, discovery, disposal,
                   reads, sessions, shown>>

InUse(p) == \E r \in Records : status[r] = "live" /\ selection[r] = p

\* What removeProvider requires of the catalog that it has read.
MayRemove(p, current) == current # p /\ ~InUse(p) /\ route[p] # None

\* removeProvider goes on after its read.
RemoveRoute(q) ==
    /\ pc[q] = "reading" /\ Kind[q] = "remove"
    /\ LET p == ProviderOf[q] IN
       IF Closed \/ ~MayRemove(p, Result(q).current)
       THEN Goto(q, "done") /\ UNCHANGED <<writes, snapshot>>
       ELSE Write(q, p, None) /\ Goto(q, "writing")
    /\ IF Closed THEN DropRead(q) /\ UNCHANGED catalog ELSE EndRead(q)
    /\ UNCHANGED <<route, default, news, edits, published, timer, discovery, disposal, sessions,
                   shown>>

\* A route that the installed catalog does not describe: its models are asked for
\* and the write is tried again.
Retry(q) ==
    /\ pc[q] = "asking"
    /\ \E found \in MayFail("probe") :
           IF found
           THEN Write(q, ProviderOf[q], EndpointOf[q]) /\ Goto(q, "rewriting")
           ELSE Goto(q, "done") /\ UNCHANGED <<writes, snapshot>>
    /\ UNCHANGED <<route, default, news, edits, catalog, published, timer, discovery, disposal,
                   reads, sessions, shown>>

\* The write is settled; what it leaves is the cleanup of a credential.
RouteWritten(q) ==
    /\ pc[q] \in {"written", "rewritten", "refused", "undescribed"}
    /\ Goto(q, CASE pc[q] = "refused" -> "done"
                 [] pc[q] = "undescribed" -> "asking"
                 [] OTHER -> "cleaning")
    /\ snapshot' = None
    /\ discovered' = IF pc[q] = "rewritten" /\ ~Closed
                     THEN [discovered EXCEPT ![ProviderOf[q]] = EndpointOf[q]] ELSE discovered
    /\ UNCHANGED <<native, catalog, published, timer, probed, target, disposal, reads, sessions,
                   shown>>

\* Mutant: what was discovered for the old route stays.
ForgetNothing(q) == UNCHANGED <<discovered, probed>>

\* updateProvider and removeProvider forget what was discovered for the route.
Forget(q) ==
    IF Kind[q] = "add" THEN UNCHANGED <<discovered, probed>>
    ELSE /\ discovered' = [discovered EXCEPT ![ProviderOf[q]] = None]
         /\ probed' = [probed EXCEPT ![ProviderOf[q]] = None]

\* publishMutation, up to its await
Cleaned(q) ==
    /\ pc[q] = "cleaning"
    /\ Forget(q)
    /\ IF Closed
       THEN Goto(q, "done") /\ UNCHANGED <<reads, snapshot>>
       ELSE BeginRead(q) /\ Goto(q, "publishing")
    /\ UNCHANGED <<native, catalog, published, timer, target, disposal, sessions, shown>>

\* publishMutation and modelsList go on after their read.
Answer(q) ==
    /\ pc[q] = "publishing" \/ (pc[q] = "reading" /\ Kind[q] = "list")
    /\ IF Closed
       THEN /\ DropRead(q) /\ Goto(q, "done")
            /\ UNCHANGED <<cache, published, shown, discovery>>
       ELSE /\ EndRead(q)
            /\ IF Kind[q] = "remove"
               THEN Goto(q, "done") /\ UNCHANGED <<snapshot, discovery>>
               ELSE Schedule(q, "done")
            /\ IF Kind[q] = "list" THEN UNCHANGED <<published, shown>> ELSE Announce(Result(q))
    /\ UNCHANGED <<native, timer, disposal, sessions>>

-----------------------------------------------------------------------------
(* The native services *)

\* The first write in the queue of the settings service settles.
SettleWrite ==
    /\ writes # <<>>
    /\ writes' = Tail(writes)
    /\ LET w == Head(writes)
           again == pc[w.by] = "rewriting"
       IN  \/ /\ route' = [route EXCEPT ![w.provider] = w.to]
              /\ news' = news \cup {"providers"}
              /\ Goto(w.by, IF again THEN "rewritten" ELSE "written")
           \/ /\ "write" \in Faults
              /\ Goto(w.by, "refused")
              /\ UNCHANGED <<route, news>>
           \/ /\ "models" \in Faults /\ w.by \in Requests /\ w.to # None /\ ~again
              /\ Goto(w.by, "undescribed")
              /\ UNCHANGED <<route, news>>
    /\ UNCHANGED <<default, edits, cache, published, timer, discovery, disposal, reads, sessions,
                   shown>>

\* Another program changes the settings document.
Edit(e) ==
    /\ e \notin edits /\ MayAct
    /\ edits' = edits \cup {e}
    /\ route' = [route EXCEPT ![e.provider] = e.to]
    /\ news' = news \cup {"providers"}
    /\ UNCHANGED <<default, writes, cache, published, timer, discovery, disposal, pc, reads,
                   sessions, shown>>

\* Mutant: a change does not drop the snapshot of the section.
HeardKeeping(kind) == UNCHANGED snapshot

Heard(kind) == IF kind = "providers" THEN snapshot' = None ELSE UNCHANGED snapshot

\* settingsChanged and sourcesChanged
SourcesChanged(kind) ==
    /\ kind \in news
    /\ news' = news \ {kind}
    /\ Heard(kind)
    /\ timer' = ~Closed
    /\ UNCHANGED <<route, default, writes, edits, catalog, published, discovery, disposal, pc,
                   reads, sessions, shown>>

\* The quiet period after the last change is over.
StartRebuild(n) ==
    /\ timer /\ pc[n] = "idle"
    /\ timer' = FALSE
    /\ BeginRead(n)
    /\ Goto(n, "reading")
    /\ UNCHANGED <<native, catalog, published, discovery, disposal, sessions, shown>>

\* refreshFromSources goes on: what is cached now is published if it differs.
EndRebuild(n) ==
    /\ pc[n] = "reading"
    /\ IF Closed
       THEN /\ DropRead(n) /\ Goto(n, "idle")
            /\ UNCHANGED <<cache, published, shown, discovery>>
       ELSE /\ EndRead(n)
            /\ Schedule(n, "idle")
            /\ IF Cached(n) = published THEN UNCHANGED <<published, shown>>
                                        ELSE Announce(Cached(n))
    /\ UNCHANGED <<native, timer, disposal, sessions>>

-----------------------------------------------------------------------------
(* Sessions *)

\* prepare: a session starts with the default, or with the current model.
Prepare(r) ==
    /\ status[r] = "new" /\ ~Closed /\ MayAct
    /\ status' = [status EXCEPT ![r] = "prepared"]
    /\ selection' = [selection EXCEPT ![r] =
                       IF default \in Usable(catalog) THEN default ELSE catalog.current]
    /\ UNCHANGED <<native, cache, published, timer, discovery, disposal, pc, reads, logged, tail,
                   shown>>

\* The agent exists: the record is published, or discarded.
Adopt(r) ==
    /\ status[r] = "prepared"
    /\ \/ /\ status' = [status EXCEPT ![r] = "closed"]
          /\ UNCHANGED shown
       \/ /\ ~Closed
          /\ status' = [status EXCEPT ![r] = "live"]
          /\ shown' = [shown EXCEPT ![r] = None]
    /\ UNCHANGED <<native, cache, published, timer, discovery, disposal, pc, reads, selection,
                   logged, tail>>

\* set: each record makes its changes one after the other.
Pick(c) ==
    /\ pc[c] = "idle" /\ status[RecordOf[c]] \in {"live", "closing"}
    /\ IF Live(RecordOf[c])
       THEN /\ tail' = [tail EXCEPT ![RecordOf[c]] = Append(@, c)]
            /\ Goto(c, "queued")
       ELSE Goto(c, "refused") /\ UNCHANGED tail
    /\ UNCHANGED <<native, cache, published, timer, discovery, disposal, reads, status, selection,
                   logged, shown>>

Ended(c) == pc[c] \in {"changed", "refused"}

\* Mutant: a change does not wait for the one before.
TurnAtOnce(c) == TRUE

Turn(c) ==
    LET queue == tail[RecordOf[c]] IN
    \A i \in DOMAIN queue : (\E j \in DOMAIN queue : j > i /\ queue[j] = c) => Ended(queue[i])

\* change, up to saveSelection
Change(c) ==
    /\ pc[c] = "queued" /\ Turn(c)
    /\ Goto(c, IF Live(RecordOf[c]) /\ ModelOf[c] \in Usable(catalog) THEN "saving" ELSE "refused")
    /\ UNCHANGED <<native, cache, published, timer, discovery, disposal, reads, sessions, shown>>

\* The default is saved; the choice is appended and taken over unless the session
\* was closed meanwhile or the append fails.
SelectionSaved(c) ==
    LET r == RecordOf[c]
        p == ModelOf[c]
    IN  /\ pc[c] = "saving"
        /\ \/ /\ "save" \in Faults
              /\ Goto(c, "refused")
              /\ UNCHANGED <<default, news, selection, logged>>
           \/ /\ default' = p
              /\ news' = news \cup {"default"}
              /\ \E appended \in MayFail("append") :
                     IF Live(r) /\ appended
                     THEN /\ selection' = [selection EXCEPT ![r] = p]
                          /\ logged' = [logged EXCEPT ![r] = p]
                          /\ Goto(c, "flushing")
                     ELSE Goto(c, "refused") /\ UNCHANGED <<selection, logged>>
        /\ UNCHANGED <<route, writes, edits, cache, published, timer, discovery, disposal, reads,
                       status, tail, shown>>

\* selected() and notify(), unless the session was closed during the flush; a
\* flush that fails is only a warning.
Flushed(c) ==
    LET r == RecordOf[c]
        p == ModelOf[c]
    IN  /\ pc[c] = "flushing"
        /\ Goto(c, "changed")
        /\ IF Live(r)
           THEN /\ catalog' = IF p \in Usable(catalog) THEN [catalog EXCEPT !.current = p]
                                                       ELSE catalog
                /\ shown' = [shown EXCEPT ![r] = IF selection[r] \in Usable(catalog)
                                                 THEN selection[r] ELSE None]
           ELSE UNCHANGED <<catalog, shown>>
        /\ UNCHANGED <<native, snapshot, published, timer, discovery, disposal, reads, sessions>>

Close(r) ==
    /\ status[r] = "live"
    /\ status' = [status EXCEPT ![r] = "closing"]
    /\ UNCHANGED <<native, cache, published, timer, discovery, disposal, pc, reads, selection,
                   logged, tail, shown>>

Drained(r) == \A i \in DOMAIN tail[r] : Ended(tail[r][i])

\* dispose() of the model: its changes have settled, the agent may go.
Release(r) ==
    /\ status[r] = "closing" /\ Drained(r)
    /\ status' = [status EXCEPT ![r] = "closed"]
    /\ UNCHANGED <<native, cache, published, timer, discovery, disposal, pc, reads, selection,
                   logged, tail, shown>>

-----------------------------------------------------------------------------
(* Disposal *)

Nothing == [models |-> [p \in Providers |-> None], rows |-> [p \in Providers |-> None],
            current |-> None]

\* Both owners are disposed of in one step of the leader, after its sessions.
Dispose ==
    /\ disposal = "open"
    /\ disposal' = "draining"
    /\ status' = [r \in Records |-> IF status[r] = "live" THEN "closing" ELSE status[r]]
    /\ timer' = FALSE
    /\ catalog' = Nothing
    /\ snapshot' = None
    /\ discovered' = [p \in Providers |-> None]
    /\ probed' = [p \in Providers |-> None]
    /\ UNCHANGED <<native, published, target, pc, reads, selection, logged, tail, shown>>

Settled == \A o \in Ops : pc[o] \in {"idle", "done", "changed", "refused"}

Disposed ==
    /\ disposal = "draining"
    /\ Settled /\ \A r \in Records : status[r] # "closing"
    /\ disposal' = "done"
    /\ UNCHANGED <<native, cache, published, timer, discovery, pc, reads, sessions, shown>>

-----------------------------------------------------------------------------
Init ==
    /\ route = Saved.route /\ default = Saved.default
    /\ writes = <<>> /\ news = {} /\ edits = {}
    /\ snapshot = route /\ timer = FALSE
    /\ discovered = [p \in Providers |-> IF route[p] \in Dynamic THEN route[p] ELSE None]
    /\ probed = discovered
    /\ target = [n \in Probes |-> None]
    /\ catalog = Assemble(Configured, route)
    /\ published = None
    /\ disposal = "open"
    /\ pc = [o \in Ops |-> "idle"]
    /\ reading = <<>> /\ read = [o \in Ops |-> None]
    /\ status = [r \in Records |-> "new"]
    /\ selection = [r \in Records |-> None]
    /\ logged = [r \in Records |-> None]
    /\ tail = [r \in Records |-> <<>>]
    /\ shown = [r \in Records |-> catalog.current]

RequestStep(q) ==
    WriteRoute(q) \/ RemoveRoute(q) \/ Retry(q) \/ RouteWritten(q) \/ Cleaned(q) \/ Answer(q)
ProbeStep(n) == Probed(n) \/ ProbeWritten(n) \/ ProbeRead(n)
PickStep(c) == Change(c) \/ SelectionSaved(c) \/ Flushed(c)

\* Accepted work goes on; the native services answer and announce changes.
Progress ==
    \/ \E q \in Requests : RequestStep(q)
    \/ \E n \in Probes : ProbeStep(n)
    \/ \E n \in Rebuilds : StartRebuild(n) \/ EndRebuild(n)
    \/ \E c \in Picks : PickStep(c)
    \/ \E r \in Records : Adopt(r) \/ Release(r)
    \/ \E kind \in news : SourcesChanged(kind)
    \/ SettleWrite
    \/ Disposed

Next ==
    \/ Progress
    \/ \E q \in Requests : StartRequest(q)
    \/ \E c \in Picks : Pick(c)
    \/ \E e \in Edits : Edit(e)
    \/ \E r \in Records : Prepare(r) \/ Close(r)
    \/ Dispose

Spec == Init /\ [][Next]_vars
FairSpec == Spec /\ WF_vars(Progress)

-----------------------------------------------------------------------------
(* Properties *)

Catalogs == [models : [Providers -> Endpoints \cup {"listed", None}],
             rows : [Providers -> Endpoints \cup {None}],
             current : Providers \cup {None}]

TypeOK ==
    /\ route \in [Providers -> Endpoints \cup {None}]
    /\ default \in Providers \cup {None}
    /\ writes \in Seq([by : Ops, provider : Providers, to : Endpoints \cup {None}])
    /\ news \subseteq {"providers", "default"} /\ edits \subseteq Edits
    /\ catalog \in Catalogs /\ published \in Catalogs \cup {None}
    /\ snapshot \in [Providers -> Endpoints \cup {None}] \cup {None}
    /\ timer \in BOOLEAN /\ disposal \in {"open", "draining", "done"}
    /\ discovered \in [Providers -> Endpoints \cup {None}]
    /\ probed \in [Providers -> Endpoints \cup {None}]
    /\ target \in [Probes -> [provider : Providers, endpoint : Endpoints] \cup {None}]
    /\ DOMAIN pc = Ops
    /\ ToSet(reading) = {o \in Ops : read[o] # None}
    /\ ToSet(reading) = {o \in Ops : pc[o] \in {"reading", "publishing"}}
    /\ status \in [Records -> {"new", "prepared", "live", "closing", "closed"}]
    /\ {selection, logged, shown} \subseteq [Records -> Providers \cup {None}]
    /\ tail \in [Records -> Seq(Picks)]

\* The section that the catalog shows is the one of the settings document, but
\* for a change that is announced next or a write that has just settled: no
\* snapshot that was taken while a write was under way outlives it.
SnapshotTrue ==
    \/ snapshot \in {None, route}
    \/ "providers" \in news
    \/ \E o \in Ops : pc[o] \in {"written", "rewritten"}

\* The choice of a live session is the last one that was accepted for it, in the
\* order of the requests, whatever was slow or failed; the log has it, and the
\* client was told of it if the catalog lists it.
ChoiceStands ==
    \A r \in Records : Live(r) /\ Drained(r) =>
        LET accepted == {i \in DOMAIN tail[r] : pc[tail[r][i]] = "changed"} IN
        \A i \in accepted : (\A j \in accepted : j <= i) =>
            /\ selection[r] = ModelOf[tail[r][i]]
            /\ logged[r] = selection[r]
            /\ shown[r] \in {selection[r], None}

\* The route of the provider was changed by another program.
ChangedOutside(p) == \E e \in edits : e.provider = p

\* The cached catalog has the routes there are, each with models of its own.  The
\* code forgets what it discovered for a route only when a request changes it: "this
\* catalog" that "reloads when the settings document changes" keeps the models of the
\* endpoint that the route had before another program changed it.
Fresh ==
    /\ catalog.rows = route
    /\ \A p \in Providers :
        \/ catalog.models[p] \in IF route[p] = None THEN {None} ELSE {"listed", route[p]}
        \/ ChangedOutside(p) /\ route[p] # None /\ discovered[p] # None
           /\ catalog.models[p] = discovered[p]

\* Whatever changes, by requests, discoveries or other programs, and however the
\* reads overlap, the cache catches up with it, but for models that were discovered
\* for a route that another program changed; or the catalog is disposed of, and then
\* its disposal ends, with all the work that was accepted.  After the disposal nothing
\* is cached or published, and nothing is appended to the session of a client that
\* has closed it, although accepted work goes on.
CatchesUp ==
    /\ []<>(Fresh \/ disposal = "done")
    /\ [][/\ Closed => UNCHANGED <<catalog, published, shown, discovered>>
          /\ \A r \in Records : status[r] # "live" => logged'[r] = logged[r]]_vars

\* model-catalog.ts: "a removal can never orphan the active selection": a session
\* that is live has a model of a configured provider, if only the leader changes
\* the routes.
RemovalNeverOrphans ==
    Edits = {} =>
        \A r \in Records : status[r] = "live" => selection[r] \in Configured \cup {None}
=============================================================================
