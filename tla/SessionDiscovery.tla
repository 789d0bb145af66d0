-------------------------- MODULE SessionDiscovery --------------------------
(* session-discovery.ts and session-list.ts: the session picker and the cold *)
(* inspections.  A picker shares the listing of the store that is under way, *)
(* or reuses one that has just settled, and folds a row per session from its *)
(* log, which the index reads again only when its revision is another one.   *)
(* Other processes write the store, sessions of this one are announced and   *)
(* produce events, the store is remounted and discovery is disposed of.      *)
EXTENDS Naturals, FiniteSets, SequencesExt

CONSTANTS
    Chats,
    OwnChats,       \* the sessions that this process owns; others write the rest
    Pickers,        \* requests of x.ai/session/list
    MaxVersion, MaxMounts, MaxTroubles, \* bounds
    Absent          \* undefined

Mounts == 1 .. MaxMounts
Versions == 0 .. MaxVersion
Indexes == Mounts                           \* a remount replaces the index once
Lanes == {1, 2}                             \* INSPECTION_LANES

\* What was read of a log; the listing of a store; one inspection
Contents == [mount : {0} \cup Mounts, version : Versions]
Unread == [mount |-> 0, version |-> 0]
Listings == [mount : Mounts, known : SUBSET OwnChats, listed : [Chats -> Versions] \cup {Absent}]
Inspections == [revision : Versions, mount : Mounts, read : Contents,
                at : {"queued", "opening", "open", "closing"}]

ASSUME DiscoveryAssumption ==
    /\ OwnChats \subseteq Chats
    /\ MaxVersion \in Nat \ {0} /\ MaxMounts \in Nat \ {0} /\ MaxTroubles \in Nat
    /\ Absent \notin Listings /\ Absent \notin Inspections /\ Absent \notin [Chats -> Versions]

VARIABLES
    mount,          \* the store that a lookup finds
    disk,           \* per mount: the version, hence the revision, of each log
    heard,          \* the newest version of an own session that it announced by events
    announced,      \* sessions announced to this process
    index, indexed, \* the current index and the store that it belongs to, or 0
    listing,        \* sharedListing, per store
    reuse,          \* settledListing
    picker, wait, row,
    job, lane, nextLane, seen, revisions,   \* of each index
    reader,         \* one inspection that a session/load asks for
    discovery,
    troubles

storeVars == <<mount, disk, heard, announced>>
listVars == <<listing, reuse>>
indexVars == <<index, indexed>>
pickVars == <<picker, wait, row>>
foldVars == <<job, lane, nextLane, seen, revisions>>
endVars == <<reader, discovery>>
discoveryVars ==
    <<storeVars, listVars, indexVars, pickVars, foldVars, endVars, troubles>>

Open == discovery = "open"

\* A call to the store may fail, and an aborted one is likely to.
Fails ==
    \/ ~Open /\ UNCHANGED troubles
    \/ troubles < MaxTroubles /\ troubles' = troubles + 1

InitDiscovery ==
    /\ mount = 1
    /\ disk = [m \in Mounts |-> [c \in Chats |-> IF c \in OwnChats THEN 0 ELSE 1]]
    /\ heard = [c \in OwnChats |-> 0] /\ announced = {}
    /\ index = 1 /\ indexed = 0
    /\ listing = [m \in Mounts |-> Absent] /\ reuse = Absent
    /\ picker = [p \in Pickers |-> [at |-> "idle", mount |-> 0, index |-> 1,
                                    listed |-> [c \in Chats |-> 0]]]
    /\ wait = [p \in Pickers |-> [c \in Chats |-> "no"]]
    /\ row = [p \in Pickers |-> [c \in Chats |-> Unread]]
    /\ job = [i \in Indexes |-> [c \in Chats |-> Absent]]
    /\ lane = [i \in Indexes |-> [l \in Lanes |-> <<>>]]
    /\ nextLane = [i \in Indexes |-> 1]
    /\ seen = [i \in Indexes |-> [c \in Chats |-> Unread]]
    /\ revisions = [i \in Indexes |-> [c \in Chats |-> 0]]
    /\ reader = "idle"
    /\ discovery = "open" /\ troubles = 0

----------------------------------------------------------------------------
\* Listings.

\* The rows that a listing has are due, each an accepted inspection.
Due(listed) == [c \in Chats |-> IF listed[c] > 0 THEN "due" ELSE "no"]

\* indexFor() and listStore().
Ask(p) ==
    /\ picker[p].at = "idle"
    /\ IF ~Open
       THEN /\ picker' = [picker EXCEPT ![p].at = "failed"]
            /\ UNCHANGED <<listVars, indexVars, wait>>
       ELSE /\ indexed' = mount
            /\ index' = IF indexed \notin {0, mount} THEN index + 1 ELSE index
            /\ LET asked == [picker[p] EXCEPT !.mount = mount, !.index = index']
                   joins == listing[mount] # Absent
                   reuses == ~joins /\ reuse # Absent /\ reuse.mount = mount
               IN  /\ picker' = [picker EXCEPT ![p] =
                        IF reuses THEN [asked EXCEPT !.at = "folding", !.listed = reuse.listed]
                        ELSE [asked EXCEPT !.at = "listing"]]
                   /\ wait' = IF reuses THEN [wait EXCEPT ![p] = Due(reuse.listed)] ELSE wait
                   /\ listing' = IF joins \/ reuses THEN listing
                        ELSE [listing EXCEPT ![mount] =
                                [mount |-> mount, known |-> announced, listed |-> Absent]]
            /\ UNCHANGED reuse
    /\ UNCHANGED <<storeVars, row, foldVars, endVars, troubles>>

\* The store reads its directory at some moment of the call.
StoreLists(m) ==
    /\ listing[m] # Absent /\ listing[m].listed = Absent
    /\ listing' = [listing EXCEPT ![m].listed = disk[m]]
    /\ UNCHANGED <<storeVars, reuse, indexVars, pickVars, foldVars, endVars, troubles>>

Listeners(m) == {p \in Pickers : picker[p].at = "listing" /\ picker[p].mount = m}

\* "a listing that started before one never opens it"
Reusable(m) == listing[m].known = announced

ListSettles(m) ==
    /\ listing[m] # Absent /\ listing[m].listed # Absent
    /\ LET listed == listing[m].listed IN
        /\ picker' = [p \in Pickers |->
                IF p \notin Listeners(m) THEN picker[p]
                ELSE IF Open THEN [picker[p] EXCEPT !.at = "folding", !.listed = listed]
                ELSE [picker[p] EXCEPT !.at = "failed"]]
        /\ wait' = [p \in Pickers |->
                IF p \in Listeners(m) /\ Open THEN Due(listed) ELSE wait[p]]
    /\ reuse' = IF Reusable(m) THEN listing[m] ELSE reuse
    /\ listing' = [listing EXCEPT ![m] = Absent]
    /\ UNCHANGED <<storeVars, indexVars, row, foldVars, endVars, troubles>>

ListFails(m) ==
    /\ listing[m] # Absent /\ Fails
    /\ picker' = [p \in Pickers |->
            IF p \in Listeners(m) THEN [picker[p] EXCEPT !.at = "failed"] ELSE picker[p]]
    /\ listing' = [listing EXCEPT ![m] = Absent]
    /\ UNCHANGED <<storeVars, reuse, indexVars, wait, row, foldVars, endVars>>

\* LISTING_REUSE_MS have passed.
ReuseEnds ==
    /\ reuse # Absent
    /\ reuse' = Absent
    /\ UNCHANGED <<storeVars, listing, indexVars, pickVars, foldVars, endVars, troubles>>

----------------------------------------------------------------------------
\* The rest of the world.

\* onCreated()
Announce(c) ==
    /\ c \in OwnChats \ announced
    /\ announced' = announced \cup {c}
    /\ reuse' = Absent
    /\ UNCHANGED <<mount, disk, heard, listing, indexVars, pickVars, foldVars, endVars, troubles>>

\* onEvent(): the current index learns of it before the log does.
Event(c) ==
    /\ c \in announced /\ heard[c] < MaxVersion
    /\ heard' = [heard EXCEPT ![c] = @ + 1]
    /\ seen' = IF Open THEN [seen EXCEPT ![index][c] = [mount |-> mount, version |-> heard'[c]]]
               ELSE seen
    /\ UNCHANGED <<mount, disk, announced, listVars, indexVars, pickVars, job, lane, nextLane,
                   revisions, endVars, troubles>>

\* The log of an own session catches up, another process writes one, the store
\* is remounted.
Flush(c) ==
    /\ c \in OwnChats /\ disk[mount][c] < heard[c]
    /\ disk' = [disk EXCEPT ![mount][c] = heard[c]]
    /\ UNCHANGED <<mount, heard, announced, listVars, indexVars, pickVars, foldVars, endVars, troubles>>

Write(c) ==
    /\ c \in Chats \ OwnChats
    /\ disk[mount][c] \in 1 .. MaxVersion
    /\ \E v \in {0, disk[mount][c] + 1} \cap Versions :    \* deleted or written
        disk' = [disk EXCEPT ![mount][c] = v]
    /\ UNCHANGED <<mount, heard, announced, listVars, indexVars, pickVars, foldVars, endVars, troubles>>

Remount ==
    /\ mount < MaxMounts
    /\ mount' = mount + 1
    /\ UNCHANGED <<disk, heard, announced, listVars, indexVars, pickVars, foldVars, endVars, troubles>>

----------------------------------------------------------------------------
\* SessionListIndex

\* Mutant: every inspection of the session under way will do.
SameWork(i, c, revision) == TRUE

Shares(i, c, revision) == job[i][c].revision = revision

\* inspect(): it shares the inspection of the same revision and waits for one of
\* another; a log of a known revision is not read again.
Inspect(p, c) ==
    LET i == picker[p].index
        revision == picker[p].listed[c]
        Waits(how) == wait' = [wait EXCEPT ![p][c] = how]
    IN  /\ wait[p][c] \in {"due", "again"}
        /\ \/ /\ wait[p][c] = "due" /\ ~Open
              /\ Waits("lost") /\ UNCHANGED <<row, job, lane, nextLane>>
           \/ /\ wait[p][c] = "again" \/ Open
              /\ IF job[i][c] # Absent
                 THEN /\ Waits(IF Shares(i, c, revision) THEN "member" ELSE "chained")
                      /\ UNCHANGED <<row, job, lane, nextLane>>
                 ELSE IF revisions[i][c] = revision
                 THEN /\ Waits("served")
                      /\ row' = [row EXCEPT ![p][c] = seen[i][c]]
                      /\ UNCHANGED <<job, lane, nextLane>>
                 ELSE /\ Waits("member")
                      /\ job' = [job EXCEPT ![i][c] = [revision |-> revision, mount |-> picker[p].mount,
                                                       at |-> "queued", read |-> Unread]]
                      /\ lane' = [lane EXCEPT ![i][nextLane[i]] = Append(@, c)]
                      /\ nextLane' = [nextLane EXCEPT ![i] = 3 - @]
                      /\ UNCHANGED row
        /\ UNCHANGED <<storeVars, listVars, indexVars, picker, seen, revisions, endVars, troubles>>

\* An inspection is over: it was read, it was not available or it failed.
JobOver(i, c, outcome) ==
    /\ seen' = IF outcome = "read" THEN [seen EXCEPT ![i][c] = job[i][c].read] ELSE seen
    /\ revisions' = IF outcome = "read"
                    THEN [revisions EXCEPT ![i][c] = job[i][c].revision] ELSE revisions
    /\ wait' = [p \in Pickers |-> [wait[p] EXCEPT ![c] =
            IF picker[p].index # i \/ @ \notin {"member", "chained"} THEN @
            ELSE IF outcome = "failed" THEN "lost"
            ELSE IF @ = "chained" THEN "again"
            ELSE IF outcome = "read" THEN "served" ELSE "cached"]]
    /\ row' = [p \in Pickers |-> IF wait'[p][c] # wait[p][c] /\ wait'[p][c] \in {"served", "cached"}
                                 THEN [row[p] EXCEPT ![c] = seen'[i][c]] ELSE row[p]]
    /\ job' = [job EXCEPT ![i][c] = Absent]
    /\ lane' = [lane EXCEPT ![i] = [l \in Lanes |-> Remove(@[l], c)]]

JobAt(i, c, at) == job[i][c] # Absent /\ job[i][c].at = at
JobGoes(i, c, at, content) ==
    /\ job' = [job EXCEPT ![i][c].at = at, ![i][c].read = content]
    /\ UNCHANGED <<wait, row, lane, seen, revisions>>
FoldFrame == UNCHANGED <<storeVars, listVars, indexVars, picker, nextLane, endVars>>

\* read(): store.open(), at the head of a lane.
OpenLog(i, c) ==
    /\ JobAt(i, c, "queued")
    /\ \E l \in Lanes : lane[i][l] # <<>> /\ Head(lane[i][l]) = c
    /\ IF Open THEN JobGoes(i, c, "opening", Unread) ELSE JobOver(i, c, "failed")
    /\ FoldFrame /\ UNCHANGED troubles

Opened(i, c) ==
    /\ JobAt(i, c, "opening")
    /\ \/ disk[job[i][c].mount][c] > 0 /\ JobGoes(i, c, "open", Unread) /\ UNCHANGED troubles
       \/ disk[job[i][c].mount][c] = 0 /\ JobOver(i, c, "unavailable") /\ UNCHANGED troubles
       \/ Fails /\ JobOver(i, c, "failed")
    /\ FoldFrame

\* The events arrive, or the read fails; the handle is closed in either case.
ReadLog(i, c) ==
    /\ JobAt(i, c, "open")
    /\ \/ /\ Open
          /\ JobGoes(i, c, "closing", [mount |-> job[i][c].mount,
                                       version |-> disk[job[i][c].mount][c]])
          /\ UNCHANGED troubles
       \/ Fails /\ JobGoes(i, c, "closing", Unread)
    /\ FoldFrame

\* A handle may not close: that is a failure of the disposal as well.
CloseLog(i, c) ==
    /\ JobAt(i, c, "closing")
    /\ \/ /\ JobOver(i, c, IF ~Open THEN "failed"
                           ELSE IF job[i][c].read.version > 0 THEN "read"
                           ELSE IF job[i][c].read.mount > 0 THEN "unavailable" ELSE "failed")
          /\ UNCHANGED <<endVars, troubles>>
       \/ /\ troubles < MaxTroubles /\ troubles' = troubles + 1
          /\ JobOver(i, c, "failed")
          /\ discovery' = IF Open THEN discovery ELSE "failing"
          /\ UNCHANGED reader
    /\ UNCHANGED <<storeVars, listVars, indexVars, picker, nextLane>>

\* Promise.all(): the first failure answers, the other inspections go on.
Finish(p) ==
    /\ picker[p].at = "folding"
    /\ \/ /\ \E c \in Chats : wait[p][c] = "lost"
          /\ picker' = [picker EXCEPT ![p].at = "failed"]
       \/ /\ \A c \in Chats : wait[p][c] \in {"no", "served", "cached"}
          /\ picker' = [picker EXCEPT ![p].at = IF Open THEN "answered" ELSE "failed"]
    /\ UNCHANGED <<storeVars, listVars, indexVars, wait, row, foldVars, endVars, troubles>>

----------------------------------------------------------------------------
\* inspect() of a session/load: one read with the signal of its caller.
ReaderGoes(from, to) ==
    /\ reader = from /\ reader' = to
    /\ UNCHANGED <<storeVars, listVars, indexVars, pickVars, foldVars>>

InspectCold ==
    /\ ReaderGoes("idle", IF Open THEN "opening" ELSE "failed")
    /\ UNCHANGED <<discovery, troubles>>

\* Its caller gives up at any time.
AbortReader ==
    /\ \/ ReaderGoes("opening", "late") \/ ReaderGoes("open", "aborted")
    /\ UNCHANGED <<discovery, troubles>>

\* "Even a late open after cancellation owns a real handle that must close."
ReaderOpened ==
    /\ \/ ReaderGoes("opening", "open") /\ UNCHANGED troubles
       \/ ReaderGoes("late", "aborted") /\ UNCHANGED troubles
       \/ ReaderGoes("late", "failed") /\ UNCHANGED troubles
       \/ Fails /\ ReaderGoes("opening", "failed")
    /\ UNCHANGED discovery

ReaderReads ==
    /\ \/ Open /\ ReaderGoes("open", "closing") /\ UNCHANGED troubles
       \/ Fails /\ ReaderGoes("open", "aborted")
    /\ UNCHANGED discovery

ReaderCloses ==
    /\ \/ /\ \/ ReaderGoes("closing", IF Open THEN "served" ELSE "failed")
             \/ ReaderGoes("aborted", "failed")
          /\ UNCHANGED <<discovery, troubles>>
       \/ /\ troubles < MaxTroubles /\ troubles' = troubles + 1
          /\ ReaderGoes("closing", "failed") \/ ReaderGoes("aborted", "failed")
          /\ discovery' = IF Open THEN discovery ELSE "failing"

----------------------------------------------------------------------------
DisposeDiscovery ==
    /\ Open
    /\ discovery' = "draining"
    /\ UNCHANGED <<storeVars, listVars, indexVars, pickVars, foldVars, reader, troubles>>

ReaderBusy == reader \in {"opening", "late", "open", "aborted", "closing"}
ListBusy == \E p \in Pickers : picker[p].at \in {"listing", "folding"}

\* pending: "A failed parent list may leave sibling/queued inspections in flight."
Pending ==
    \/ ReaderBusy \/ ListBusy
    \/ \E p \in Pickers, c \in Chats : wait[p][c] \in {"due", "again", "member", "chained"}

DisposalSettles ==
    /\ discovery \in {"draining", "failing"} /\ ~Pending
    /\ discovery' = IF discovery = "failing" THEN "failed" ELSE "disposed"
    /\ reuse' = Absent
    /\ listing' = [m \in Mounts |-> Absent]
    /\ UNCHANGED <<storeVars, indexVars, pickVars, foldVars, reader, troubles>>

World ==
    \/ \E c \in Chats : Announce(c) \/ Event(c) \/ Flush(c) \/ Write(c)
    \/ Remount \/ ReuseEnds \/ InspectCold \/ AbortReader \/ DisposeDiscovery
    \/ \E p \in Pickers : Ask(p)

Work ==
    \/ \E m \in Mounts : StoreLists(m) \/ ListSettles(m) \/ ListFails(m)
    \/ \E p \in Pickers : Finish(p) \/ \E c \in Chats : Inspect(p, c)
    \/ \E i \in Indexes, c \in Chats :
        OpenLog(i, c) \/ Opened(i, c) \/ ReadLog(i, c) \/ CloseLog(i, c)
    \/ ReaderOpened \/ ReaderReads \/ ReaderCloses \/ DisposalSettles

NextDiscovery == World \/ Work

SpecDiscovery == InitDiscovery /\ [][NextDiscovery]_discoveryVars

\* The store answers every call, so that the work of discovery never stops.
FairDiscovery == WF_discoveryVars(Work)

----------------------------------------------------------------------------
DiscoveryTypeOK ==
    /\ mount \in Mounts /\ index \in Indexes /\ indexed \in {0} \cup Mounts
    /\ disk \in [Mounts -> [Chats -> Versions]]
    /\ announced \subseteq OwnChats /\ heard \in [OwnChats -> Versions]
    /\ listing \in [Mounts -> Listings \cup {Absent}] /\ reuse \in Listings \cup {Absent}
    /\ picker \in [Pickers -> [at : {"idle", "listing", "folding", "answered", "failed"},
                               mount : {0} \cup Mounts, index : Indexes,
                               listed : [Chats -> Versions]]]
    /\ wait \in [Pickers -> [Chats -> {"no", "due", "again", "member", "chained", "served",
                                       "cached", "lost"}]]
    /\ row \in [Pickers -> [Chats -> Contents]]
    /\ job \in [Indexes -> [Chats -> Inspections \cup {Absent}]]
    /\ seen \in [Indexes -> [Chats -> Contents]]
    /\ revisions \in [Indexes -> [Chats -> Versions]]
    /\ reader \in {"idle", "opening", "late", "open", "aborted", "closing", "served", "failed"}
    /\ discovery \in {"open", "draining", "failing", "disposed", "failed"}

\* Rows are from the store that was listed, and no older than the listing said,
\* whatever other picker's inspection, listing or live event they come from; only
\* the row of a log that could not be read is from the cache.
RowsAreCurrent ==
    \A p \in Pickers, c \in Chats :
        wait[p][c] = "served" =>
            /\ row[p][c].mount = picker[p].mount \/ c \in OwnChats
            /\ row[p][c].version >= picker[p].listed[c]

\* "An announcement ends the window": what is reused has every session that was
\* announced when its listing started, on disk or not, and none came since.
ReuseIsCurrent == reuse # Absent => reuse.known = announced

\* A disposal that has ended has no handle of the store left, and no inspection
\* that would open one.
NoHandleLeft ==
    discovery \in {"disposed", "failed"} =>
        /\ reader \in {"idle", "served", "failed"}
        /\ \A i \in Indexes, c \in Chats : job[i][c] = Absent

\* What pickers are told, however they share listings and inspections, and what
\* is left when nobody needs it.
ListsTellTruly == RowsAreCurrent /\ ReuseIsCurrent /\ NoHandleLeft

\* Every list and inspection is answered, and a disposal ends.
EverythingAnswered == []<>(~Pending /\ discovery \notin {"draining", "failing"})
=============================================================================
