--------------------------- MODULE SessionsProofs ---------------------------
(***************************************************************************)
(* Proofs about SessionRegistry, for any number of requests, sessions and  *)
(* clients; about SessionDiscovery, for any number of pickers, sessions,   *)
(* versions, mounts and failures; and about SessionCommands, for any       *)
(* number of changes.                                                      *)
(***************************************************************************)
EXTENDS SessionRegistry, SessionDiscovery, SessionCommands, TLAPS

----------------------------------------------------------------------------
\* Where the requests of a session may be.

\* A request that may still publish, or that has just failed to.
Unpublished ==
    {"replacing", "resolving", "creating", "committing", "refused", "discarding"}

Started == Phases \ {"new", "queued", "done"}

\* reserved(): one request at a time works on a session id.
OneAtATime ==
    \A q, r \in Records :
        at[q] \in Started /\ at[r] \in Started /\ SessionOf[q] = SessionOf[r] => q = r

\* Until it publishes, nobody else owns the session of such a request.
Vacant ==
    \A q \in Records :
        at[q] \in Unpublished \/ (at[q] = "preparing" /\ existing[q] = None) =>
            owner[SessionOf[q]] = None

\* A load works on a record that was presented.
Existing ==
    \A q \in Records :
        /\ existing[q] # None => SessionOf[existing[q]] = SessionOf[q]
        /\ at[q] \in {"preparing", "replacing"} \cup Preflight /\ existing[q] # None =>
            at[existing[q]] = "done"

\* A published record has an agent and no teardown, and its id is not
\* reserved for another record.
Published ==
    \A r \in Records : Owns(r) =>
        /\ at[r] \in {"presenting", "done"}
        /\ r \in alive
        /\ release[r] = "none"
        /\ retiring[SessionOf[r]] = None

\* A request that has not published has no work and no teardown but a late one.
Unreleased ==
    \A r \in Records :
        /\ at[r] \notin {"presenting", "closing", "done"} =>
            pending[r] = 0 /\ "work" \notin unsaved[r]
        /\ at[r] \in {"committing", "discarding"} => release[r] = "none" /\ r \in alive
        /\ at[r] = "refused" => release[r] = "late"
        /\ at[r] \in {"new", "queued", "preparing", "replacing", "resolving", "creating"}
                 \cup Preflight => release[r] = "none" /\ r \notin alive

\* Every agent has a request, an owner or a teardown that will dispose of it.
Accounted ==
    \A r \in alive :
        \/ at[r] \in {"committing", "refused", "discarding"}
        \/ Owns(r)
        \/ retiring[SessionOf[r]] = r

\* A retired record keeps its agent until its teardown is over.
Retired ==
    \A r \in Records :
        /\ release[r] \in Teardown \ {"late"} =>
            r \in alive /\ at[r] \in {"presenting", "closing", "done"}
        /\ retiring[SessionOf[r]] = r => release[r] \in Teardown \ {"late"}

----------------------------------------------------------------------------
\* What a reload and a teardown have waited for.

Reloads ==
    /\ \A r \in reloading : at[r] = "done"
    /\ \A r \in borrowed : Owns(r) \/ release[r] \in Drains
    /\ \A q \in Records : at[q] \in Preflight \cup {"replacing"} => existing[q] \in reloading

Quiet ==
    \A q \in Records :
        /\ at[q] \in {"idling", "flushing", "capturing", "replacing"} =>
               pending[existing[q]] = 0
        /\ at[q] \in {"flushing", "capturing", "replacing"} => existing[q] \notin turn
        /\ at[q] \in {"capturing", "replacing"} => unsaved[existing[q]] \subseteq {"own"}
        /\ at[q] = "replacing" => existing[q] \notin short

Saved ==
    \A r \in Records :
        /\ release[r] \in {"savedDraining", "flushing", "disposing"} => pending[r] = 0
        /\ release[r] = "savedDraining" => "work" \notin unsaved[r]
        /\ "flush" \notin Faults /\ release[r] = "disposing" => "work" \notin unsaved[r]

----------------------------------------------------------------------------
\* The inductive invariant, in five parts.

Reserved == OneAtATime /\ Vacant /\ Existing
Ownership == Published /\ Unreleased /\ Accounted /\ Retired
AtWork == Reloads /\ Quiet /\ Saved
Outcome == OwnersLive /\ TimerOfOwner /\ NothingLost /\ ShutdownReleases

RegistryInv == TypeOK /\ Reserved /\ Ownership /\ AtWork /\ Outcome

\* The initial states satisfy it.
LEMMA RegistryInit == Init => RegistryInv
  BY SessionRegistryAssumption
  DEF Init, RegistryInv, TypeOK, Reserved, OneAtATime, Vacant, Existing,
      Ownership, Published, Unreleased, Accounted, Retired, AtWork, Reloads,
      Quiet, Saved, Outcome, OwnersLive, TimerOfOwner, NothingLost,
      ShutdownReleases, Unpublished, Started, Phases, Preflight, Teardown,
      Drains, Owns, Closed, Operations, Writers

\* Every step keeps the types.
LEMMA TypesStep == RegistryInv /\ [Next]_vars => TypeOK'
  <1> SUFFICES ASSUME RegistryInv, [Next]_vars PROVE TypeOK'
    OBVIOUS
  <1> USE SessionRegistryAssumption DEF RegistryInv, TypeOK, Reserved,
      Existing, Phases, Preflight, Teardown, Owns, Drains, Writers, requests,
      ownership, reload, leader, native, log
  <1>1. ASSUME NEW r \in Records, Start(r) PROVE TypeOK'
    BY <1>1 DEF Start, Reserving, Foreign, Goto
  <1>2. ASSUME NEW r \in Records, Prepared(r) PROVE TypeOK'
    BY <1>2 DEF Prepared, Closed, Owns, MayFail, Goto
  <1>3. ASSUME NEW r \in Records, Settled(r) PROVE TypeOK'
    BY <1>3 DEF Settled, PreflightGoesOn, ReloadFails, Goto, MayFail
  <1>4. ASSUME NEW r \in Records, Idled(r) PROVE TypeOK'
    BY <1>4 DEF Idled, PreflightGoesOn, ReloadFails, Goto, MayFail
  <1>5. ASSUME NEW r \in Records, Flushed(r) PROVE TypeOK'
    BY <1>5 DEF Flushed, Saves, ReloadFails, Goto, MayFail
  <1>6. ASSUME NEW r \in Records, Captured(r) PROVE TypeOK'
    BY <1>6 DEF Captured, Retire, ReloadFails, Goto, MayFail
  <1>7. ASSUME NEW r \in Records, Replaced(r) PROVE TypeOK'
    BY <1>7 DEF Replaced, Goto, MayFail, Ownership, Published, AtWork, Reloads
  <1>8. ASSUME NEW r \in Records, Resolved(r) PROVE TypeOK'
    BY <1>8 DEF Resolved, ClientReady, Goto, MayFail
  <1>9. ASSUME NEW r \in Records, Created(r) PROVE TypeOK'
    BY <1>9 DEF Created, ClientReady, Goto, MayFail
  <1>10. ASSUME NEW r \in Records, Publish(r) PROVE TypeOK'
    BY <1>10 DEF Publish, MayPublish, Goto, MayFail
  <1>11. ASSUME NEW r \in Records, Presented(r) PROVE TypeOK'
    BY <1>11 DEF Presented, Retire, Goto, MayFail
  <1>12. ASSUME NEW r \in Records, LateReleased(r) PROVE TypeOK'
    BY <1>12 DEF LateReleased, TurnsGone, Goto
  <1>13. ASSUME NEW r \in Records, Discarded(r) PROVE TypeOK'
    BY <1>13 DEF Discarded, TurnsGone, Goto
  <1>14. ASSUME NEW r \in Records, ClosedAfterFailure(r) PROVE TypeOK'
    BY <1>14 DEF ClosedAfterFailure, Goto
  <1>15. ASSUME NEW r \in Records, Drained(r) PROVE TypeOK'
    BY <1>15 DEF Drained, AfterDrain
  <1>16. ASSUME NEW r \in Records, FinalFlush(r) PROVE TypeOK'
    BY <1>16 DEF FinalFlush, Saves, MayFail
  <1>17. ASSUME NEW r \in Records, Disposed(r) PROVE TypeOK'
    BY <1>17 DEF Disposed, TurnsGone
  <1>18. ASSUME NEW r \in Records, Request(r) PROVE TypeOK'
    BY <1>18 DEF Request, ClientReady, Goto
  <1>19. ASSUME NEW r \in Records, Close(r) PROVE TypeOK'
    BY <1>19 DEF Close, Retire
  <1>20. ASSUME NEW r \in Records, TimerFires(r) PROVE TypeOK'
    BY <1>20 DEF TimerFires
  <1>21. ASSUME NEW r \in Records, AcceptWork(r) PROVE TypeOK'
    BY <1>21 DEF AcceptWork, AcceptsInput
  <1>22. ASSUME NEW r \in Records, Prompt(r) PROVE TypeOK'
    BY <1>22 DEF Prompt, Ready, AcceptsInput
  <1>23. ASSUME NEW r \in Records, Writes(r) PROVE TypeOK'
    BY <1>23 DEF Writes, Writing
  <1>24. ASSUME NEW r \in Records, WorkSettles(r) PROVE TypeOK'
    BY <1>24 DEF WorkSettles
  <1>25. ASSUME NEW r \in Records, TurnEnds(r) PROVE TypeOK'
    BY <1>25 DEF TurnEnds
  <1>26. ASSUME NEW c \in Clients, Disconnect(c) PROVE TypeOK'
    BY <1>26 DEF Disconnect, Retire
  <1>27. ASSUME Shutdown PROVE TypeOK'
    BY <1>27 DEF Shutdown, Retire
  <1>28. ASSUME ShutdownDone PROVE TypeOK'
    BY <1>28 DEF ShutdownDone
  <1>29. ASSUME UNCHANGED vars PROVE TypeOK'
    BY <1>29 DEF vars
  <1>30. ASSUME NEW r \in Records, Persist(r) PROVE TypeOK'
    BY <1>30 DEF Persist
  <1>31. ASSUME NEW r \in Records, Wake(r) PROVE TypeOK'
    BY <1>31 DEF Wake
  <1>32. ASSUME NEW r \in Records, OwnTurnEnds(r) PROVE TypeOK'
    BY <1>32 DEF OwnTurnEnds
  <1> QED BY <1>1, <1>2, <1>3, <1>4, <1>5, <1>6, <1>7, <1>8, <1>9, <1>10,
      <1>11, <1>12, <1>13, <1>14, <1>15, <1>16, <1>17, <1>18, <1>19, <1>20,
      <1>21, <1>22, <1>23, <1>24, <1>25, <1>26, <1>27, <1>28, <1>29, <1>30,
      <1>31, <1>32
      DEF Next, RequestStep, TeardownStep, RecordStep

\* Every step keeps one request at a time on a session id.
LEMMA ReservedStep == RegistryInv /\ [Next]_vars => Reserved'
  <1> SUFFICES ASSUME RegistryInv, [Next]_vars PROVE Reserved'
    OBVIOUS
  <1> USE SessionRegistryAssumption DEF RegistryInv, TypeOK, Reserved,
      OneAtATime, Vacant, Existing, Ownership, Published, Unpublished,
      Started, Phases, Preflight, Owns, requests, ownership, reload, leader,
      native, log
  <1>1. ASSUME NEW r \in Records, Start(r) PROVE Reserved'
    BY <1>1 DEF Start, Reserving, Foreign, Goto
  <1>2. ASSUME NEW r \in Records, Prepared(r) PROVE Reserved'
    BY <1>2 DEF Prepared, Closed, Owns, MayFail, Goto
  <1>3. ASSUME NEW r \in Records, Settled(r) PROVE Reserved'
    BY <1>3 DEF Settled, PreflightGoesOn, ReloadFails, Goto, MayFail
  <1>4. ASSUME NEW r \in Records, Idled(r) PROVE Reserved'
    BY <1>4 DEF Idled, PreflightGoesOn, ReloadFails, Goto, MayFail
  <1>5. ASSUME NEW r \in Records, Flushed(r) PROVE Reserved'
    BY <1>5 DEF Flushed, Saves, ReloadFails, Goto, MayFail
  <1>6. ASSUME NEW r \in Records, Captured(r) PROVE Reserved'
    BY <1>6 DEF Captured, Retire, ReloadFails, Goto, MayFail
  <1>7. ASSUME NEW r \in Records, Replaced(r) PROVE Reserved'
    BY <1>7 DEF Replaced, Goto, MayFail
  <1>8. ASSUME NEW r \in Records, Resolved(r) PROVE Reserved'
    BY <1>8 DEF Resolved, ClientReady, Goto, MayFail
  <1>9. ASSUME NEW r \in Records, Created(r) PROVE Reserved'
    BY <1>9 DEF Created, ClientReady, Goto, MayFail
  <1>10. ASSUME NEW r \in Records, Publish(r) PROVE Reserved'
    BY <1>10 DEF Publish, MayPublish, Goto, MayFail
  <1>11. ASSUME NEW r \in Records, Presented(r) PROVE Reserved'
    BY <1>11 DEF Presented, Retire, Goto, MayFail
  <1>12. ASSUME NEW r \in Records, LateReleased(r) PROVE Reserved'
    BY <1>12 DEF LateReleased, TurnsGone, Goto
  <1>13. ASSUME NEW r \in Records, Discarded(r) PROVE Reserved'
    BY <1>13 DEF Discarded, TurnsGone, Goto
  <1>14. ASSUME NEW r \in Records, ClosedAfterFailure(r) PROVE Reserved'
    BY <1>14 DEF ClosedAfterFailure, Goto
  <1>15. ASSUME NEW r \in Records, Request(r) PROVE Reserved'
    BY <1>15 DEF Request, ClientReady, Goto
  <1>16. ASSUME NEW r \in Records, Close(r) PROVE Reserved'
    BY <1>16 DEF Close, Retire
  <1>17. ASSUME NEW c \in Clients, Disconnect(c) PROVE Reserved'
    BY <1>17 DEF Disconnect, Retire
  <1>18. ASSUME Shutdown PROVE Reserved'
    BY <1>18 DEF Shutdown, Retire
  <1>19. ASSUME UNCHANGED <<at, existing, owner>> PROVE Reserved'
    BY <1>19
  <1> QED BY <1>1, <1>2, <1>3, <1>4, <1>5, <1>6, <1>7, <1>8, <1>9, <1>10,
      <1>11, <1>12, <1>13, <1>14, <1>15, <1>16, <1>17, <1>18, <1>19
      DEF Next, RequestStep, TeardownStep, RecordStep, vars, Drained,
          FinalFlush, Disposed, TimerFires, AcceptWork, Prompt, Writes,
          Persist, WorkSettles, TurnEnds, Wake, OwnTurnEnds, ShutdownDone

\* Every step keeps who owns an agent.
LEMMA OwnershipStep == RegistryInv /\ [Next]_vars => Ownership'
  <1> SUFFICES ASSUME RegistryInv, [Next]_vars PROVE Ownership'
    OBVIOUS
  <1> USE SessionRegistryAssumption DEF RegistryInv, TypeOK, Reserved,
      OneAtATime, Vacant, Existing, Ownership, Published, Unreleased,
      Accounted, Retired, Unpublished, Started, Phases, Preflight, Teardown,
      Drains, Owns, Closed, requests, ownership, reload, leader, native, log
  <1>1. ASSUME NEW r \in Records, Start(r) PROVE Ownership'
    BY <1>1 DEF Start, Reserving, Foreign, Goto
  <1>2. ASSUME NEW r \in Records, Prepared(r) PROVE Ownership'
    BY <1>2 DEF Prepared, Closed, Owns, MayFail, Goto
  <1>3. ASSUME NEW r \in Records, Settled(r) PROVE Ownership'
    BY <1>3 DEF Settled, PreflightGoesOn, ReloadFails, Goto, MayFail
  <1>4. ASSUME NEW r \in Records, Idled(r) PROVE Ownership'
    BY <1>4 DEF Idled, PreflightGoesOn, ReloadFails, Goto, MayFail
  <1>5. ASSUME NEW r \in Records, Flushed(r) PROVE Ownership'
    <2>1. /\ at[r] = "flushing" /\ UNCHANGED <<existing, ownership, leader, alive, pending>>
          /\ \/ Goto(r, "capturing") /\ UNCHANGED reload
             \/ ReloadFails(r)
          /\ \/ UNCHANGED unsaved
             \/ \E left : unsaved' = [unsaved EXCEPT ![existing[r]] = @ \cap left]
             \/ unsaved' = [unsaved EXCEPT ![existing[r]] = {}]
      BY <1>5 DEF Flushed, Saves
    <2>2. \A q \in Records : unsaved'[q] \subseteq unsaved[q]
      BY <2>1
    <2>3. CASE Goto(r, "capturing") /\ UNCHANGED reload
      BY <2>1, <2>2, <2>3 DEF Goto
    <2>4. CASE ReloadFails(r)
      BY <2>1, <2>2, <2>4 DEF ReloadFails, Goto
    <2> QED BY <2>1, <2>3, <2>4
  <1>6. ASSUME NEW r \in Records, Captured(r) PROVE Ownership'
    BY <1>6 DEF Captured, Retire, ReloadFails, Goto, MayFail
  <1>7. ASSUME NEW r \in Records, Replaced(r) PROVE Ownership'
    BY <1>7 DEF Replaced, Goto, MayFail
  <1>8. ASSUME NEW r \in Records, Resolved(r) PROVE Ownership'
    BY <1>8 DEF Resolved, ClientReady, Goto, MayFail
  <1>9. ASSUME NEW r \in Records, Created(r) PROVE Ownership'
    BY <1>9 DEF Created, ClientReady, Goto, MayFail
  <1>10. ASSUME NEW r \in Records, Publish(r) PROVE Ownership'
    BY <1>10 DEF Publish, MayPublish, Goto, MayFail
  <1>11. ASSUME NEW r \in Records, Presented(r) PROVE Ownership'
    BY <1>11 DEF Presented, Retire, Goto, MayFail
  <1>12. ASSUME NEW r \in Records, LateReleased(r) PROVE Ownership'
    BY <1>12 DEF LateReleased, TurnsGone, Goto
  <1>13. ASSUME NEW r \in Records, Discarded(r) PROVE Ownership'
    BY <1>13 DEF Discarded, TurnsGone, Goto
  <1>14. ASSUME NEW r \in Records, ClosedAfterFailure(r) PROVE Ownership'
    BY <1>14 DEF ClosedAfterFailure, Goto
  <1>15. ASSUME NEW r \in Records, Drained(r) PROVE Ownership'
    BY <1>15 DEF Drained, AfterDrain
  <1>16. ASSUME NEW r \in Records, FinalFlush(r) PROVE Ownership'
    BY <1>16 DEF FinalFlush, Saves, MayFail
  <1>17. ASSUME NEW r \in Records, Disposed(r) PROVE Ownership'
    BY <1>17 DEF Disposed, TurnsGone
  <1>18. ASSUME NEW r \in Records, Request(r) PROVE Ownership'
    BY <1>18 DEF Request, ClientReady, Goto
  <1>19. ASSUME NEW r \in Records, Close(r) PROVE Ownership'
    BY <1>19 DEF Close, Retire
  <1>20. ASSUME NEW r \in Records, TimerFires(r) PROVE Ownership'
    BY <1>20 DEF TimerFires
  <1>21. ASSUME NEW r \in Records, AcceptWork(r) PROVE Ownership'
    BY <1>21 DEF AcceptWork, AcceptsInput
  <1>22. ASSUME NEW r \in Records, Prompt(r) PROVE Ownership'
    BY <1>22 DEF Prompt, Ready, AcceptsInput
  <1>23. ASSUME NEW r \in Records, Writes(r) PROVE Ownership'
    BY <1>23 DEF Writes, Writing
  <1>24. ASSUME NEW r \in Records, WorkSettles(r) PROVE Ownership'
    BY <1>24 DEF WorkSettles
  <1>25. ASSUME NEW r \in Records, TurnEnds(r) PROVE Ownership'
    BY <1>25 DEF TurnEnds
  <1>26. ASSUME NEW c \in Clients, Disconnect(c) PROVE Ownership'
    BY <1>26 DEF Disconnect, Retire
  <1>27. ASSUME Shutdown PROVE Ownership'
    BY <1>27 DEF Shutdown, Retire
  <1>28. ASSUME ShutdownDone PROVE Ownership'
    BY <1>28 DEF ShutdownDone
  <1>29. ASSUME UNCHANGED vars PROVE Ownership'
    BY <1>29 DEF vars
  <1>30. ASSUME NEW r \in Records, Persist(r) PROVE Ownership'
    BY <1>30 DEF Persist
  <1>31. ASSUME NEW r \in Records, Wake(r) PROVE Ownership'
    BY <1>31 DEF Wake
  <1>32. ASSUME NEW r \in Records, OwnTurnEnds(r) PROVE Ownership'
    BY <1>32 DEF OwnTurnEnds
  <1> QED BY <1>1, <1>2, <1>3, <1>4, <1>5, <1>6, <1>7, <1>8, <1>9, <1>10,
      <1>11, <1>12, <1>13, <1>14, <1>15, <1>16, <1>17, <1>18, <1>19, <1>20,
      <1>21, <1>22, <1>23, <1>24, <1>25, <1>26, <1>27, <1>28, <1>29, <1>30,
      <1>31, <1>32
      DEF Next, RequestStep, TeardownStep, RecordStep

\* Every step keeps what reloads and teardowns have waited for.
LEMMA WorkStep == RegistryInv /\ [Next]_vars => AtWork'
  <1> SUFFICES ASSUME RegistryInv, [Next]_vars PROVE AtWork'
    OBVIOUS
  <1> USE SessionRegistryAssumption DEF RegistryInv, TypeOK, Reserved,
      OneAtATime, Existing, Ownership, Published, Unreleased, Retired, AtWork,
      Reloads, Quiet, Saved, Started, Phases, Preflight, Teardown, Drains,
      Owns, Closed, requests, ownership, reload, leader, native, log
  <1>1. ASSUME NEW r \in Records, Start(r) PROVE AtWork'
    BY <1>1 DEF Start, Reserving, Foreign, Goto
  <1>2. ASSUME NEW r \in Records, Prepared(r) PROVE AtWork'
    BY <1>2 DEF Prepared, Closed, Owns, MayFail, Goto
  <1>3. ASSUME NEW r \in Records, Settled(r) PROVE AtWork'
    BY <1>3 DEF Settled, PreflightGoesOn, ReloadFails, Goto, MayFail
  <1>4. ASSUME NEW r \in Records, Idled(r) PROVE AtWork'
    BY <1>4 DEF Idled, PreflightGoesOn, ReloadFails, Goto, MayFail
  <1>5. ASSUME NEW r \in Records, Flushed(r) PROVE AtWork'
    BY <1>5 DEF Flushed, Saves, ReloadFails, Goto, MayFail
  <1>6. ASSUME NEW r \in Records, Captured(r) PROVE AtWork'
    BY <1>6 DEF Captured, Retire, ReloadFails, Goto, MayFail
  <1>7. ASSUME NEW r \in Records, Replaced(r) PROVE AtWork'
    BY <1>7 DEF Replaced, Goto, MayFail
  <1>8. ASSUME NEW r \in Records, Resolved(r) PROVE AtWork'
    BY <1>8 DEF Resolved, ClientReady, Goto, MayFail
  <1>9. ASSUME NEW r \in Records, Created(r) PROVE AtWork'
    BY <1>9 DEF Created, ClientReady, Goto, MayFail
  <1>10. ASSUME NEW r \in Records, Publish(r) PROVE AtWork'
    BY <1>10 DEF Publish, MayPublish, Goto, MayFail
  <1>11. ASSUME NEW r \in Records, Presented(r) PROVE AtWork'
    BY <1>11 DEF Presented, Retire, Goto, MayFail
  <1>12. ASSUME NEW r \in Records, LateReleased(r) PROVE AtWork'
    BY <1>12 DEF LateReleased, TurnsGone, Goto
  <1>13. ASSUME NEW r \in Records, Discarded(r) PROVE AtWork'
    BY <1>13 DEF Discarded, TurnsGone, Goto
  <1>14. ASSUME NEW r \in Records, ClosedAfterFailure(r) PROVE AtWork'
    BY <1>14 DEF ClosedAfterFailure, Goto
  <1>15. ASSUME NEW r \in Records, Drained(r) PROVE AtWork'
    BY <1>15 DEF Drained, AfterDrain
  <1>16. ASSUME NEW r \in Records, FinalFlush(r) PROVE AtWork'
    BY <1>16 DEF FinalFlush, Saves, MayFail
  <1>17. ASSUME NEW r \in Records, Disposed(r) PROVE AtWork'
    BY <1>17 DEF Disposed, TurnsGone
  <1>18. ASSUME NEW r \in Records, Request(r) PROVE AtWork'
    BY <1>18 DEF Request, ClientReady, Goto
  <1>19. ASSUME NEW r \in Records, Close(r) PROVE AtWork'
    BY <1>19 DEF Close, Retire
  <1>20. ASSUME NEW r \in Records, TimerFires(r) PROVE AtWork'
    BY <1>20 DEF TimerFires
  <1>21. ASSUME NEW r \in Records, AcceptWork(r) PROVE AtWork'
    BY <1>21 DEF AcceptWork, AcceptsInput
  <1>22. ASSUME NEW r \in Records, Prompt(r) PROVE AtWork'
    BY <1>22 DEF Prompt, Ready, AcceptsInput
  <1>23. ASSUME NEW r \in Records, Writes(r) PROVE AtWork'
    BY <1>23 DEF Writes, Writing
  <1>24. ASSUME NEW r \in Records, WorkSettles(r) PROVE AtWork'
    BY <1>24 DEF WorkSettles
  <1>25. ASSUME NEW r \in Records, TurnEnds(r) PROVE AtWork'
    BY <1>25 DEF TurnEnds
  <1>26. ASSUME NEW c \in Clients, Disconnect(c) PROVE AtWork'
    BY <1>26 DEF Disconnect, Retire
  <1>27. ASSUME Shutdown PROVE AtWork'
    BY <1>27 DEF Shutdown, Retire
  <1>28. ASSUME ShutdownDone PROVE AtWork'
    BY <1>28 DEF ShutdownDone
  <1>29. ASSUME UNCHANGED vars PROVE AtWork'
    BY <1>29 DEF vars
  <1>30. ASSUME NEW r \in Records, Persist(r) PROVE AtWork'
    BY <1>30 DEF Persist
  <1>31. ASSUME NEW r \in Records, Wake(r) PROVE AtWork'
    BY <1>31 DEF Wake
  <1>32. ASSUME NEW r \in Records, OwnTurnEnds(r) PROVE AtWork'
    BY <1>32 DEF OwnTurnEnds
  <1> QED BY <1>1, <1>2, <1>3, <1>4, <1>5, <1>6, <1>7, <1>8, <1>9, <1>10,
      <1>11, <1>12, <1>13, <1>14, <1>15, <1>16, <1>17, <1>18, <1>19, <1>20,
      <1>21, <1>22, <1>23, <1>24, <1>25, <1>26, <1>27, <1>28, <1>29, <1>30,
      <1>31, <1>32
      DEF Next, RequestStep, TeardownStep, RecordStep

\* Every step keeps the outcomes.
LEMMA OutcomeStep == RegistryInv /\ [Next]_vars => Outcome'
  <1> SUFFICES ASSUME RegistryInv, [Next]_vars PROVE Outcome'
    OBVIOUS
  <1> USE SessionRegistryAssumption DEF RegistryInv, TypeOK, Reserved,
      OneAtATime, Vacant, Existing, Ownership, Published, Unreleased,
      Accounted, Retired, AtWork, Reloads, Quiet, Saved, Outcome, OwnersLive,
      TimerOfOwner, NothingLost, ShutdownReleases, Unpublished, Started,
      Phases, Preflight, Teardown, Drains, Owns, Closed, Operations,
      Teardowns, requests, ownership, reload, leader, native, log
  <1>1. ASSUME NEW r \in Records, Start(r) PROVE Outcome'
    BY <1>1 DEF Start, Reserving, Foreign, Goto
  <1>2. ASSUME NEW r \in Records, Prepared(r) PROVE Outcome'
    BY <1>2 DEF Prepared, Closed, Owns, MayFail, Goto
  <1>3. ASSUME NEW r \in Records, Settled(r) PROVE Outcome'
    BY <1>3 DEF Settled, PreflightGoesOn, ReloadFails, Goto, MayFail
  <1>4. ASSUME NEW r \in Records, Idled(r) PROVE Outcome'
    BY <1>4 DEF Idled, PreflightGoesOn, ReloadFails, Goto, MayFail
  <1>5. ASSUME NEW r \in Records, Flushed(r) PROVE Outcome'
    BY <1>5 DEF Flushed, Saves, ReloadFails, Goto, MayFail
  <1>6. ASSUME NEW r \in Records, Captured(r) PROVE Outcome'
    BY <1>6 DEF Captured, Retire, ReloadFails, Goto, MayFail
  <1>7. ASSUME NEW r \in Records, Replaced(r) PROVE Outcome'
    BY <1>7 DEF Replaced, Goto, MayFail
  <1>8. ASSUME NEW r \in Records, Resolved(r) PROVE Outcome'
    BY <1>8 DEF Resolved, ClientReady, Goto, MayFail
  <1>9. ASSUME NEW r \in Records, Created(r) PROVE Outcome'
    BY <1>9 DEF Created, ClientReady, Goto, MayFail
  <1>10. ASSUME NEW r \in Records, Publish(r) PROVE Outcome'
    BY <1>10 DEF Publish, MayPublish, Goto, MayFail
  <1>11. ASSUME NEW r \in Records, Presented(r) PROVE Outcome'
    BY <1>11 DEF Presented, Retire, Goto, MayFail
  <1>12. ASSUME NEW r \in Records, LateReleased(r) PROVE Outcome'
    BY <1>12 DEF LateReleased, TurnsGone, Goto
  <1>13. ASSUME NEW r \in Records, Discarded(r) PROVE Outcome'
    BY <1>13 DEF Discarded, TurnsGone, Goto
  <1>14. ASSUME NEW r \in Records, ClosedAfterFailure(r) PROVE Outcome'
    BY <1>14 DEF ClosedAfterFailure, Goto
  <1>15. ASSUME NEW r \in Records, Drained(r) PROVE Outcome'
    BY <1>15 DEF Drained, AfterDrain
  <1>16. ASSUME NEW r \in Records, FinalFlush(r) PROVE Outcome'
    BY <1>16 DEF FinalFlush, Saves, MayFail
  <1>17. ASSUME NEW r \in Records, Disposed(r) PROVE Outcome'
    BY <1>17 DEF Disposed, TurnsGone
  <1>18. ASSUME NEW r \in Records, Request(r) PROVE Outcome'
    BY <1>18 DEF Request, ClientReady, Goto
  <1>19. ASSUME NEW r \in Records, Close(r) PROVE Outcome'
    BY <1>19 DEF Close, Retire
  <1>20. ASSUME NEW r \in Records, TimerFires(r) PROVE Outcome'
    BY <1>20 DEF TimerFires
  <1>21. ASSUME NEW r \in Records, AcceptWork(r) PROVE Outcome'
    BY <1>21 DEF AcceptWork, AcceptsInput
  <1>22. ASSUME NEW r \in Records, Prompt(r) PROVE Outcome'
    BY <1>22 DEF Prompt, Ready, AcceptsInput
  <1>23. ASSUME NEW r \in Records, Writes(r) PROVE Outcome'
    BY <1>23 DEF Writes, Writing
  <1>24. ASSUME NEW r \in Records, WorkSettles(r) PROVE Outcome'
    BY <1>24 DEF WorkSettles
  <1>25. ASSUME NEW r \in Records, TurnEnds(r) PROVE Outcome'
    BY <1>25 DEF TurnEnds
  <1>26. ASSUME NEW c \in Clients, Disconnect(c) PROVE Outcome'
    BY <1>26 DEF Disconnect, Retire
  <1>27. ASSUME Shutdown PROVE Outcome'
    BY <1>27 DEF Shutdown, Retire
  <1>28. ASSUME ShutdownDone PROVE Outcome'
    BY <1>28 DEF ShutdownDone
  <1>29. ASSUME UNCHANGED vars PROVE Outcome'
    BY <1>29 DEF vars
  <1>30. ASSUME NEW r \in Records, Persist(r) PROVE Outcome'
    BY <1>30 DEF Persist
  <1>31. ASSUME NEW r \in Records, Wake(r) PROVE Outcome'
    BY <1>31 DEF Wake
  <1>32. ASSUME NEW r \in Records, OwnTurnEnds(r) PROVE Outcome'
    BY <1>32 DEF OwnTurnEnds
  <1> QED BY <1>1, <1>2, <1>3, <1>4, <1>5, <1>6, <1>7, <1>8, <1>9, <1>10,
      <1>11, <1>12, <1>13, <1>14, <1>15, <1>16, <1>17, <1>18, <1>19, <1>20,
      <1>21, <1>22, <1>23, <1>24, <1>25, <1>26, <1>27, <1>28, <1>29, <1>30,
      <1>31, <1>32
      DEF Next, RequestStep, TeardownStep, RecordStep

----------------------------------------------------------------------------
\* The invariant holds in every state.
THEOREM RegistryInvariant == Spec => []RegistryInv
  <1>1. RegistryInv /\ [Next]_vars => RegistryInv'
    BY TypesStep, ReservedStep, OwnershipStep, WorkStep, OutcomeStep DEF RegistryInv
  <1> QED BY RegistryInit, <1>1, PTL DEF Spec

\* Every variable of the registry keeps its type.
THEOREM RegistryTypes == Spec => []TypeOK
  <1>1. RegistryInv => TypeOK
    BY DEF RegistryInv
  <1> QED BY RegistryInvariant, <1>1, PTL

\* A published session has one native agent, whatever requests raced for its id.
THEOREM OneAgentPerSession == Spec => []SoleAgent
  <1>1. ASSUME RegistryInv, NEW s \in Sessions, owner[s] # None
        PROVE  {r \in alive : SessionOf[r] = s} = {owner[s]}
    <2>1. owner[s] \in Records /\ SessionOf[owner[s]] = s /\ Owns(owner[s])
      BY <1>1 DEF RegistryInv, TypeOK, Owns
    <2>2. owner[s] \in alive /\ retiring[s] = None
      BY <1>1, <2>1 DEF RegistryInv, Ownership, Published
    <2>3. ASSUME NEW r \in alive, SessionOf[r] = s PROVE r = owner[s]
      <3>1. r \in Records
        BY <1>1 DEF RegistryInv, TypeOK
      <3>2. at[r] \notin {"committing", "refused", "discarding"}
        BY <1>1, <2>3, <3>1 DEF RegistryInv, Reserved, Vacant, Unpublished
      <3>3. retiring[SessionOf[r]] # r
        BY <2>2, <2>3, <3>1, SessionRegistryAssumption
      <3> QED BY <1>1, <2>3, <3>2, <3>3 DEF RegistryInv, Ownership, Accounted, Owns
    <2> QED BY <2>1, <2>2, <2>3
  <1>2. RegistryInv => SoleAgent
    BY <1>1 DEF SoleAgent
  <1> QED BY RegistryInvariant, <1>2, PTL

\* No published record outlives its client or its leader.
THEOREM NoStrandedSession == Spec => []OwnersLive
  <1>1. RegistryInv => OwnersLive
    BY DEF RegistryInv, Outcome
  <1> QED BY RegistryInvariant, <1>1, PTL

\* A close waits for the preflight that uses the agent.
THEOREM BorrowedAgentLives == Spec => []BorrowHeld
  <1>1. RegistryInv => BorrowHeld
    BY DEF RegistryInv, Ownership, Published, Retired, AtWork, Reloads, TypeOK,
           BorrowHeld, Drains, Teardown
  <1> QED BY RegistryInvariant, <1>1, PTL

\* While a reload captures the log no prompt and no accepted work is left, and
\* what they wrote is saved, whatever the agent does in turns of its own.
THEOREM CapturesAreFinal == Spec => []CaptureFinal
  <1>1. RegistryInv => CaptureFinal
    BY DEF RegistryInv, AtWork, Quiet, CaptureFinal
  <1> QED BY RegistryInvariant, <1>1, PTL

\* What a reload replaces a session by lacks nothing below the end it asked for.
THEOREM CapturesAreWhole == Spec => []CaptureWhole
  <1>1. RegistryInv => CaptureWhole
    BY DEF RegistryInv, AtWork, Quiet, CaptureWhole
  <1> QED BY RegistryInvariant, <1>1, PTL

\* No agent is disposed of with unsaved work, if the last flush succeeds.
THEOREM AcceptedWorkIsSaved == Spec => []NothingLost
  <1>1. RegistryInv => NothingLost
    BY DEF RegistryInv, Outcome
  <1> QED BY RegistryInvariant, <1>1, PTL

\* A timer speaks for a published record that is not being reloaded.
THEOREM TimersHaveOwners == Spec => []TimerOfOwner
  <1>1. RegistryInv => TimerOfOwner
    BY DEF RegistryInv, Outcome
  <1> QED BY RegistryInvariant, <1>1, PTL

\* A leader that is shut down has no agent, timer or request left.
THEOREM ShutdownIsComplete == Spec => []ShutdownReleases
  <1>1. RegistryInv => ShutdownReleases
    BY DEF RegistryInv, Outcome
  <1> QED BY RegistryInvariant, <1>1, PTL

\* A published session has one agent, and neither it nor a timer is left to a
\* client that has gone.
THEOREM PublishedIsSound == Spec => []PublicationIsSound
  BY OneAgentPerSession, NoStrandedSession, TimersHaveOwners, PTL DEF PublicationIsSound

\* A reload neither loses its agent nor anything that its clients asked for, nor
\* anything below the end of the log that it asks for.
THEOREM ReloadsAreSound == Spec => []ReloadIsSound
  BY BorrowedAgentLives, CapturesAreFinal, CapturesAreWhole, PTL DEF ReloadIsSound
-----------------------------------------------------------------------------
(* Discovery: the inductive invariant *)

\* A version of a log is no newer than the log is, unless it was deleted.
Reached(v, m, c) == v <= disk[m][c] \/ (disk[m][c] = 0 /\ c \notin OwnChats)

Heard == \A c \in OwnChats, m \in Mounts : disk[m][c] <= heard[c]

\* What was listed of a store is no newer than its logs.
Listed ==
    /\ \A m \in Mounts : listing[m] # Absent =>
            /\ listing[m].mount = m
            /\ listing[m].listed # Absent => \A c \in Chats : Reached(listing[m].listed[c], m, c)
    /\ reuse # Absent =>
            /\ reuse.known = announced
            /\ reuse.listed # Absent
            /\ \A c \in Chats : Reached(reuse.listed[c], reuse.mount, c)
    /\ \A p \in Pickers : picker[p].mount # 0 => \A c \in Chats :
            Reached(picker[p].listed[c], picker[p].mount, c)

\* A picker has rows only once it has a listing.
Picked ==
    \A p \in Pickers :
        /\ picker[p].at \in {"listing", "folding"} => picker[p].mount # 0
        /\ picker[p].at = "idle" => picker[p].mount = 0 /\ \A c \in Chats : picker[p].listed[c] = 0
        /\ picker[p].mount # 0 => picker[p].index <= index
        /\ picker[p].at \in {"idle", "listing"} => \A c \in Chats : wait[p][c] = "no"
        /\ \A c \in Chats : wait[p][c] # "no" =>
               picker[p].mount # 0 /\ picker[p].listed[c] > 0

\* An index is of one store: whoever uses it, and what it has read.
OfStore(i, m) ==
    /\ i = index /\ indexed # 0 => indexed = m
    /\ \A p \in Pickers : picker[p].mount # 0 /\ picker[p].index = i => picker[p].mount = m
    /\ \A c \in Chats :
        /\ job[i][c] # Absent => job[i][c].mount = m /\ job[i][c].read.mount \in {0, m}
        /\ c \notin OwnChats => seen[i][c].mount \in {0, m}

Unused(i) ==
    \A c \in Chats : job[i][c] = Absent /\ revisions[i][c] = 0 /\ seen[i][c] = Unread

Stores ==
    /\ indexed = 0 =>
            /\ index = 1 /\ \A p \in Pickers : picker[p].mount = 0
            /\ \A i \in Indexes, c \in Chats : c \notin OwnChats => seen[i][c].mount = 0
    /\ indexed # 0 => index <= indexed
    /\ indexed <= mount
    /\ \A i \in Indexes : i <= index => \E m \in Mounts : OfStore(i, m)
    /\ \A i \in Indexes : i > index => Unused(i)

\* What an index knows of a log is at least what it was read for.
Known ==
    \A i \in Indexes, c \in Chats :
        /\ revisions[i][c] <= seen[i][c].version
        /\ seen[i][c].version > 0 => seen[i][c].mount # 0
        /\ c \in OwnChats => revisions[i][c] <= heard[c]

\* An inspection reads no less than the revision that it is for, for a picker.
Inspected(i, c) ==
    LET j == job[i][c] IN
    j # Absent =>
        /\ Reached(j.revision, j.mount, c)
        /\ j.read.version > 0 => j.read.version >= j.revision /\ j.read.mount # 0
        /\ j.at # "closing" => j.read = Unread
        /\ \E p \in Pickers : picker[p].mount # 0 /\ picker[p].index = i /\ wait[p][c] = "member"

Waiting ==
    \A p \in Pickers, c \in Chats :
        LET j == job[picker[p].index][c] IN
        /\ wait[p][c] = "member" => j # Absent /\ j.revision = picker[p].listed[c]
        /\ wait[p][c] = "chained" => j # Absent

Ended == discovery \in {"disposed", "failed"} => ~Pending

DiscoveryInv ==
    /\ DiscoveryTypeOK
    /\ Heard /\ Listed /\ Picked /\ Stores /\ Known /\ Waiting /\ Ended
    /\ \A i \in Indexes, c \in Chats : Inspected(i, c)
    /\ RowsAreCurrent

LEMMA DiscoveryFacts ==
    /\ OwnChats \subseteq Chats /\ MaxVersion \in Nat \ {0} /\ MaxMounts \in Nat \ {0}
    /\ Absent \notin Listings /\ Absent \notin Inspections /\ Absent \notin [Chats -> Versions]
    /\ Mounts \subseteq Nat /\ 0 \notin Mounts /\ Indexes = Mounts /\ 1 \in Mounts
    /\ Versions \subseteq Nat /\ 0 \in Versions /\ 1 \in Versions /\ Unread \in Contents
  BY DiscoveryAssumption DEF Mounts, Indexes, Versions, Unread, Contents

LEMMA DiscoveryTyped ==
    ASSUME DiscoveryTypeOK
    PROVE  /\ mount \in Mounts /\ index \in Mounts /\ indexed \in {0} \cup Mounts
           /\ \A m \in Mounts, c \in Chats : disk[m][c] \in Versions
           /\ announced \subseteq OwnChats /\ \A c \in OwnChats : heard[c] \in Versions
           /\ \A m \in Mounts : listing[m] # Absent => listing[m] \in Listings
           /\ reuse # Absent => reuse \in Listings
           /\ \A p \in Pickers : /\ picker[p].mount \in {0} \cup Mounts /\ picker[p].index \in Mounts
                                 /\ picker[p].listed \in [Chats -> Versions]
           /\ \A p \in Pickers, c \in Chats : row[p][c] \in Contents
           /\ \A i \in Mounts, c \in Chats :
                /\ job[i][c] # Absent => job[i][c] \in Inspections
                /\ seen[i][c] \in Contents /\ revisions[i][c] \in Versions
  BY DiscoveryFacts DEF DiscoveryTypeOK

-----------------------------------------------------------------------------
(* Discovery: the rest of the world *)

LEMMA DiscoveryStarts == InitDiscovery => DiscoveryInv
<1> SUFFICES ASSUME InitDiscovery PROVE DiscoveryInv
  OBVIOUS
<1>1. DiscoveryTypeOK
  BY DiscoveryFacts DEF InitDiscovery, DiscoveryTypeOK, Contents, Unread
<1>2. Heard /\ Listed /\ Picked
  BY DiscoveryFacts DEF InitDiscovery, Heard, Listed, Picked
<1>3. Stores
  <2>1. OfStore(1, 1)
    BY DiscoveryFacts DEF InitDiscovery, OfStore, Unread
  <2>2. \A i \in Indexes : Unused(i)
    BY DiscoveryFacts DEF InitDiscovery, Unused
  <2>3. /\ \A i \in Indexes, c \in Chats : seen[i][c].mount = 0
        /\ index = 1 /\ indexed = 0 /\ mount = 1
    BY DiscoveryFacts DEF InitDiscovery, Unread
  <2>4. \A i \in Indexes : i <= 1 => i = 1
    BY DEF Indexes, Mounts
  <2> QED BY <2>1, <2>2, <2>3, <2>4, DiscoveryFacts DEF InitDiscovery, Stores
<1>4. Known /\ Waiting /\ Ended /\ RowsAreCurrent
  BY DiscoveryFacts DEF InitDiscovery, Known, Waiting, Ended, RowsAreCurrent, Unread
<1>5. \A i \in Indexes, c \in Chats : Inspected(i, c)
  BY DEF InitDiscovery, Inspected
<1> QED BY <1>1, <1>2, <1>3, <1>4, <1>5 DEF DiscoveryInv

\* Logs grow, but for those that another process deletes.
Grows ==
    /\ disk' \in [Mounts -> [Chats -> Versions]] /\ heard' \in [OwnChats -> Versions]
    /\ \A m \in Mounts, c \in Chats :
        \/ disk'[m][c] >= disk[m][c] /\ (disk[m][c] = 0 => disk'[m][c] = 0 \/ c \in OwnChats)
        \/ disk'[m][c] = 0 /\ c \notin OwnChats
    /\ \A c \in OwnChats : heard'[c] >= heard[c]
    /\ Heard'

LEMMA ReachedStays ==
    ASSUME DiscoveryTypeOK, Grows, NEW m \in Mounts, NEW c \in Chats, NEW v \in Versions,
           Reached(v, m, c)
    PROVE  v <= disk'[m][c] \/ (disk'[m][c] = 0 /\ c \notin OwnChats)
<1>1. disk[m] \in [Chats -> Versions] /\ disk'[m] \in [Chats -> Versions]
  BY DEF DiscoveryTypeOK, Grows
<1>2. disk[m][c] \in Versions /\ disk'[m][c] \in Versions /\ Versions \subseteq Nat
  BY <1>1, DiscoveryFacts
<1>3. disk[m][c] \in Nat /\ disk'[m][c] \in Nat /\ v \in Nat
  BY <1>2
<1> QED BY <1>3 DEF Grows, Reached

\* What the world does to the store and to the events
LEMMA WorldFrame ==
    ASSUME DiscoveryInv, Grows,
           mount' \in Mounts, mount' >= mount, announced' \subseteq OwnChats,
           UNCHANGED <<indexVars, pickVars, job, revisions>>,
           seen' \in [Indexes -> [Chats -> Contents]],
           \A i \in Indexes, c \in Chats :
               \/ seen'[i][c] = seen[i][c]
               \/ /\ i = index /\ c \in OwnChats
                  /\ seen'[i][c].version = heard'[c] /\ seen'[i][c].mount # 0,
           listing' = listing \/ listing' = [m \in Mounts |-> Absent],
           reuse' = Absent \/ (reuse' = reuse /\ announced' = announced),
           reader' \in {"idle", "opening", "late", "open", "aborted", "closing", "served", "failed"},
           discovery' \in {"open", "draining", "failing", "disposed", "failed"},
           Ended'
    PROVE  DiscoveryInv'
<1> USE DiscoveryFacts DEF indexVars, pickVars
<1>1. DiscoveryTypeOK'
  BY DEF DiscoveryInv, DiscoveryTypeOK, Grows
<1>2. /\ \A m \in Mounts : listing[m] # Absent => listing[m] \in Listings
      /\ \A m \in Mounts, c \in Chats : listing[m] # Absent /\ listing[m].listed # Absent
            => listing[m].listed[c] \in Versions
      /\ reuse # Absent => reuse \in Listings
      /\ \A c \in Chats : reuse # Absent /\ reuse.listed # Absent
            => reuse.listed[c] \in Versions /\ reuse.mount \in Mounts
      /\ \A p \in Pickers, c \in Chats : picker[p].mount # 0
            => picker[p].mount \in Mounts /\ picker[p].listed[c] \in Versions
      /\ \A i \in Mounts, c \in Chats : job[i][c] # Absent
            => job[i][c].revision \in Versions /\ job[i][c].mount \in Mounts
  BY DiscoveryTyped DEF DiscoveryInv, Listings, Inspections
<1>3. Listed'
  <2>1. \A m \in Mounts : listing'[m] # Absent =>
            /\ listing'[m].mount = m
            /\ listing'[m].listed # Absent =>
                    \A c \in Chats : Reached(listing[m].listed[c], m, c)'
    <3> SUFFICES ASSUME NEW m \in Mounts, listing'[m] # Absent
                 PROVE  /\ listing'[m].mount = m
                        /\ listing'[m].listed # Absent =>
                                \A c \in Chats : Reached(listing[m].listed[c], m, c)'
      OBVIOUS
    <3>1. listing'[m] = listing[m]
      OBVIOUS
    <3> QED BY <3>1, <1>2, ReachedStays DEF DiscoveryInv, Listed, Reached
  <2>2. reuse' # Absent =>
            /\ reuse'.known = announced' /\ reuse'.listed # Absent
            /\ \A c \in Chats : Reached(reuse.listed[c], reuse.mount, c)'
    BY <1>2, ReachedStays DEF DiscoveryInv, Listed, Reached
  <2>3. \A p \in Pickers : picker[p].mount # 0 => \A c \in Chats :
            Reached(picker[p].listed[c], picker[p].mount, c)'
    BY <1>2, ReachedStays DEF DiscoveryInv, Listed, Reached
  <2> QED BY <2>1, <2>2, <2>3 DEF Listed
<1>4. Picked' /\ Waiting'
  BY DEF DiscoveryInv, Picked, Waiting
<1>5. Stores'
  <2>1. ASSUME NEW i \in Indexes, NEW m \in Mounts, OfStore(i, m) PROVE OfStore(i, m)'
    BY <2>1 DEF OfStore
  <2>2. ASSUME NEW i \in Indexes, i > index, Unused(i) PROVE Unused(i)'
    BY <2>2, DiscoveryTyped DEF Unused, DiscoveryInv
  <2>3. indexed \in Nat /\ mount \in Nat /\ mount' \in Nat
    BY DiscoveryTyped DEF DiscoveryInv
  <2>4. /\ indexed <= mount'
        /\ indexed # 0 => index <= indexed
        /\ \A i \in Indexes : i <= index => \E m \in Mounts : OfStore(i, m)
        /\ \A i \in Indexes : i > index => Unused(i)
    <3>1. indexed <= mount /\ mount' >= mount
      BY DEF DiscoveryInv, Stores
    <3>2. indexed <= mount'
      BY <2>3, <3>1
    <3> QED BY <3>2 DEF DiscoveryInv, Stores
  <2>5. /\ \A i \in Indexes : i <= index => \E m \in Mounts : OfStore(i, m)'
        /\ \A i \in Indexes : i > index => Unused(i)'
    BY <2>1, <2>2, <2>4
  <2>6. indexed = 0 => /\ index = 1 /\ \A p \in Pickers : picker[p].mount = 0
                       /\ \A i \in Indexes, c \in Chats : c \notin OwnChats => seen'[i][c].mount = 0
    <3>1. \A i \in Indexes, c \in Chats : c \notin OwnChats => seen'[i][c] = seen[i][c]
      OBVIOUS
    <3> QED BY <3>1 DEF DiscoveryInv, Stores
  <2> QED BY <2>4, <2>5, <2>6 DEF Stores
<1>6. Known'
  <2> SUFFICES ASSUME NEW i \in Indexes, NEW c \in Chats
               PROVE  /\ revisions[i][c] <= seen'[i][c].version
                      /\ seen'[i][c].version > 0 => seen'[i][c].mount # 0
                      /\ c \in OwnChats => revisions[i][c] <= heard'[c]
    BY DEF Known
  <2>1. revisions[i][c] \in Nat /\ c \in OwnChats => heard[c] \in Nat /\ heard'[c] \in Nat
    BY DiscoveryTyped DEF DiscoveryInv, Grows
  <2>2. c \in OwnChats => revisions[i][c] <= heard'[c]
    BY <2>1, DiscoveryTyped DEF DiscoveryInv, Known, Grows
  <2> QED BY <2>1, <2>2 DEF DiscoveryInv, Known
<1>7. \A i \in Indexes, c \in Chats : Inspected(i, c)'
  <2> SUFFICES ASSUME NEW i \in Indexes, NEW c \in Chats PROVE Inspected(i, c)'
    OBVIOUS
  <2>1. job[i][c] # Absent => /\ job[i][c].revision \in Versions /\ job[i][c].mount \in Mounts
                              /\ Reached(job[i][c].revision, job[i][c].mount, c)
    BY <1>2 DEF DiscoveryInv, Inspected
  <2>2. job[i][c] # Absent => Reached(job[i][c].revision, job[i][c].mount, c)'
    <3> SUFFICES ASSUME job[i][c] # Absent
                 PROVE  \/ job[i][c].revision <= disk'[job[i][c].mount][c]
                        \/ disk'[job[i][c].mount][c] = 0 /\ c \notin OwnChats
      BY DEF Reached
    <3> DEFINE v == job[i][c].revision
               m == job[i][c].mount
    <3>1. v \in Versions /\ m \in Mounts /\ Reached(v, m, c) /\ DiscoveryTypeOK
      BY <2>1 DEF DiscoveryInv
    <3> HIDE DEF v, m
    <3>2. v <= disk'[m][c] \/ (disk'[m][c] = 0 /\ c \notin OwnChats)
      BY <3>1, ReachedStays
    <3> QED BY <3>2 DEF v, m
  <2> QED BY <2>2 DEF DiscoveryInv, Inspected
<1>8. RowsAreCurrent'
  BY DEF DiscoveryInv, RowsAreCurrent
<1> QED BY <1>1, <1>3, <1>4, <1>5, <1>6, <1>7, <1>8 DEF DiscoveryInv, Grows

LEMMA LogsStay == ASSUME DiscoveryInv, UNCHANGED <<disk, heard>> PROVE Grows
<1>1. \A m \in Mounts, c \in Chats : disk[m][c] \in Nat
  BY DiscoveryTyped, DiscoveryFacts DEF DiscoveryInv
<1>2. \A c \in OwnChats : heard[c] \in Nat
  BY DiscoveryTyped, DiscoveryFacts DEF DiscoveryInv
<1>3. Heard'
  BY DEF DiscoveryInv, Heard
<1> QED BY <1>1, <1>2, <1>3 DEF Grows, DiscoveryInv, DiscoveryTypeOK

\* Neither lists nor inspections are touched.
Untouched ==
    /\ UNCHANGED <<indexVars, pickVars, job, seen, revisions>>
    /\ listing' = listing

LEMMA UntouchedKeeps ==
    ASSUME DiscoveryInv, Untouched, Grows,
           mount' \in Mounts, mount' >= mount, announced' \subseteq OwnChats,
           reuse' = Absent \/ (reuse' = reuse /\ announced' = announced),
           UNCHANGED <<reader, discovery>>
    PROVE  DiscoveryInv'
<1>1. Ended'
  BY DEF DiscoveryInv, Ended, Pending, ReaderBusy, ListBusy, Untouched, pickVars
<1>2. /\ seen' \in [Indexes -> [Chats -> Contents]]
      /\ reader' \in {"idle", "opening", "late", "open", "aborted", "closing", "served", "failed"}
      /\ discovery' \in {"open", "draining", "failing", "disposed", "failed"}
  BY DEF DiscoveryInv, DiscoveryTypeOK, Untouched
<1> QED BY <1>1, <1>2, WorldFrame DEF Untouched

LEMMA StoreKeeps ==
    ASSUME DiscoveryInv, NEW c \in Chats, Announce(c) \/ Flush(c) \/ Write(c) \/ Remount \/ ReuseEnds
    PROVE  DiscoveryInv'
<1>1. /\ Untouched /\ UNCHANGED <<reader, discovery>>
      /\ reuse' = Absent \/ (reuse' = reuse /\ announced' = announced)
  BY DEF Announce, Flush, Write, Remount, ReuseEnds, Untouched, listVars, foldVars, endVars, storeVars
<1>2. mount' \in Mounts /\ mount' >= mount /\ announced' \subseteq OwnChats
  BY DiscoveryFacts, DiscoveryTyped DEF DiscoveryInv, Announce, Flush, Write, Remount, ReuseEnds,
     storeVars, Mounts
<1>3. Grows
  <2>1. CASE UNCHANGED <<disk, heard>>
    BY <2>1, LogsStay
  <2>2. CASE Flush(c)
    <3>1. /\ c \in OwnChats /\ disk[mount][c] < heard[c] /\ heard' = heard /\ mount \in Mounts
          /\ disk' = [disk EXCEPT ![mount][c] = heard[c]] /\ heard[c] \in Versions
      BY <2>2, DiscoveryTyped DEF Flush, DiscoveryInv
    <3>2. disk' \in [Mounts -> [Chats -> Versions]]
      BY <3>1 DEF DiscoveryInv, DiscoveryTypeOK
    <3>3. \A m \in Mounts, d \in Chats :
              disk'[m][d] = IF m = mount /\ d = c THEN heard[c] ELSE disk[m][d]
      BY <3>1 DEF DiscoveryInv, DiscoveryTypeOK
    <3>4. \A m \in Mounts, d \in Chats : disk[m][d] \in Nat /\ (d \in OwnChats => heard[d] \in Nat)
      BY DiscoveryTyped, DiscoveryFacts DEF DiscoveryInv
    <3>5. Heard'
      BY <3>1, <3>3, DiscoveryFacts DEF Heard, DiscoveryInv
    <3>6. \A m \in Mounts, d \in Chats :
              disk'[m][d] >= disk[m][d] /\ (disk[m][d] = 0 => disk'[m][d] = 0 \/ d \in OwnChats)
      BY <3>1, <3>3, <3>4
    <3>7. heard' \in [OwnChats -> Versions] /\ \A d \in OwnChats : heard'[d] >= heard[d]
      BY <3>1, <3>4, DiscoveryFacts DEF DiscoveryInv, DiscoveryTypeOK
    <3> QED BY <3>2, <3>5, <3>6, <3>7 DEF Grows
  <2>3. CASE Write(c)
    <3>1. /\ c \in Chats \ OwnChats /\ heard' = heard /\ mount \in Mounts
          /\ disk[mount][c] \in 1 .. MaxVersion
      BY <2>3, DiscoveryTyped DEF Write, DiscoveryInv
    <3>2. PICK v \in Versions : /\ v = 0 \/ v = disk[mount][c] + 1
                                /\ disk' = [disk EXCEPT ![mount][c] = v]
      BY <2>3 DEF Write
    <3>3. disk' \in [Mounts -> [Chats -> Versions]]
      BY <3>1, <3>2 DEF DiscoveryInv, DiscoveryTypeOK
    <3>4. \A m \in Mounts, d \in Chats :
              disk'[m][d] = IF m = mount /\ d = c THEN v ELSE disk[m][d]
      BY <3>1, <3>2 DEF DiscoveryInv, DiscoveryTypeOK
    <3>5. \A m \in Mounts, d \in Chats : disk[m][d] \in Nat /\ (d \in OwnChats => heard[d] \in Nat)
      BY DiscoveryTyped, DiscoveryFacts DEF DiscoveryInv
    <3>6. Heard'
      BY <3>1, <3>4, DiscoveryFacts DEF Heard, DiscoveryInv
    <3> QED BY <3>1, <3>2, <3>3, <3>4, <3>5, <3>6, DiscoveryFacts
            DEF Grows, DiscoveryInv, DiscoveryTypeOK
  <2> QED BY <2>1, <2>2, <2>3 DEF Announce, Remount, ReuseEnds, storeVars
<1> QED BY <1>1, <1>2, <1>3, UntouchedKeeps

LEMMA EventKeeps == ASSUME DiscoveryInv, NEW c \in Chats, Event(c) PROVE DiscoveryInv'
<1> USE DiscoveryFacts
<1>1. /\ c \in OwnChats /\ heard[c] \in Nat /\ heard[c] < MaxVersion
      /\ heard' = [heard EXCEPT ![c] = heard[c] + 1]
      /\ UNCHANGED <<mount, disk, announced, listVars, indexVars, pickVars, job, revisions, endVars>>
  BY DiscoveryTyped DEF Event, DiscoveryInv
<1>2. /\ heard' \in [OwnChats -> Versions] /\ heard'[c] = heard[c] + 1 /\ heard'[c] \in Versions
      /\ \A d \in OwnChats : d # c => heard'[d] = heard[d]
  BY <1>1 DEF DiscoveryInv, DiscoveryTypeOK, Versions
<1>3. Grows
  <2>1. \A d \in OwnChats, m \in Mounts : heard[d] \in Nat /\ disk[m][d] \in Nat
    BY DiscoveryTyped DEF DiscoveryInv
  <2>2. Heard'
    <3> SUFFICES ASSUME NEW d \in OwnChats, NEW m \in Mounts PROVE disk[m][d] <= heard'[d]
      BY <1>1 DEF Heard
    <3>1. disk[m][d] <= heard[d] /\ disk[m][d] \in Nat /\ heard[d] \in Nat
      BY <2>1 DEF Heard, DiscoveryInv
    <3>2. heard'[d] = heard[d] \/ heard'[d] = heard[d] + 1
      BY <1>2
    <3> QED BY <3>1, <3>2
  <2>3. \A m \in Mounts, d \in Chats : disk[m][d] \in Nat
    BY DiscoveryTyped DEF DiscoveryInv
  <2> QED BY <1>1, <1>2, <2>1, <2>2, <2>3 DEF Grows, DiscoveryInv, DiscoveryTypeOK
<1>4. /\ seen' \in [Indexes -> [Chats -> Contents]]
      /\ \A i \in Indexes, d \in Chats :
             \/ seen'[i][d] = seen[i][d]
             \/ /\ i = index /\ d \in OwnChats
                /\ seen'[i][d].version = heard'[d] /\ seen'[i][d].mount # 0
  <2> DEFINE content == [mount |-> mount, version |-> heard'[c]]
  <2>1. content \in Contents /\ content.version = heard'[c] /\ content.mount # 0
    BY <1>2, DiscoveryTyped DEF DiscoveryInv, Contents
  <2>2. seen' = [seen EXCEPT ![index][c] = content] \/ seen' = seen
    BY DEF Event
  <2> HIDE DEF content
  <2>3. CASE seen' = seen
    BY <2>3 DEF DiscoveryInv, DiscoveryTypeOK
  <2>4. CASE seen' = [seen EXCEPT ![index][c] = content]
    BY <1>1, <2>1, <2>4 DEF DiscoveryInv, DiscoveryTypeOK
  <2> QED BY <2>2, <2>3, <2>4
<1>5. Ended'
  BY <1>1 DEF DiscoveryInv, Ended, Pending, ReaderBusy, ListBusy, endVars, pickVars
<1>6. /\ mount' \in Mounts /\ mount' >= mount /\ announced' \subseteq OwnChats
      /\ listing' = listing /\ reuse' = reuse /\ announced' = announced
      /\ reader' \in {"idle", "opening", "late", "open", "aborted", "closing", "served", "failed"}
      /\ discovery' \in {"open", "draining", "failing", "disposed", "failed"}
  BY <1>1, DiscoveryTyped DEF DiscoveryInv, DiscoveryTypeOK, listVars, endVars
<1> QED BY <1>1, <1>3, <1>4, <1>5, <1>6, WorldFrame

\* The inspection of a load, and the disposal
LEMMA ReaderKeeps ==
    ASSUME DiscoveryInv,
           UNCHANGED <<storeVars, indexVars, pickVars, foldVars>>,
           \/ UNCHANGED listVars
           \/ reuse' = Absent /\ listing' = [m \in Mounts |-> Absent],
           reader' \in {"idle", "opening", "late", "open", "aborted", "closing", "served", "failed"},
           discovery' \in {"open", "draining", "failing", "disposed", "failed"},
           discovery' \in {"disposed", "failed"} => ~Pending /\ ~ReaderBusy'
    PROVE  DiscoveryInv'
<1>1. Grows
  BY LogsStay DEF storeVars
<1>2. Ended'
  BY DEF Ended, Pending, ListBusy, pickVars
<1>3. mount' \in Mounts /\ mount' >= mount /\ announced' \subseteq OwnChats /\ announced' = announced
  <2>1. mount \in Mounts /\ mount \in Nat /\ announced \subseteq OwnChats
    BY DiscoveryFacts DEF DiscoveryInv, DiscoveryTypeOK
  <2> QED BY <2>1 DEF storeVars
<1>4. /\ seen' \in [Indexes -> [Chats -> Contents]] /\ UNCHANGED <<job, seen, revisions>>
      /\ listing' = listing \/ listing' = [m \in Mounts |-> Absent]
      /\ reuse' = Absent \/ reuse' = reuse
  BY DEF DiscoveryInv, DiscoveryTypeOK, foldVars, listVars
<1> QED BY <1>1, <1>2, <1>3, <1>4, WorldFrame

LEMMA ReadersKeep ==
    ASSUME DiscoveryInv, InspectCold \/ AbortReader \/ ReaderOpened \/ ReaderReads \/ ReaderCloses
    PROVE  DiscoveryInv'
<1>1. /\ UNCHANGED <<storeVars, listVars, indexVars, pickVars, foldVars>>
      /\ reader' \in {"idle", "opening", "late", "open", "aborted", "closing", "served", "failed"}
      /\ discovery' \in {discovery, "failing"}
      /\ ReaderBusy \/ (reader' = "failed" /\ discovery' = discovery) \/ Open
  BY DEF InspectCold, AbortReader, ReaderOpened, ReaderReads, ReaderCloses, ReaderGoes, ReaderBusy
<1>2. discovery' \in {"disposed", "failed"} => ~Pending /\ ~ReaderBusy'
  BY <1>1 DEF DiscoveryInv, Ended, Pending, ReaderBusy, Open
<1> QED BY <1>1, <1>2, ReaderKeeps DEF DiscoveryInv, DiscoveryTypeOK

LEMMA DisposalKeeps ==
    ASSUME DiscoveryInv, DisposeDiscovery \/ DisposalSettles PROVE DiscoveryInv'
<1>1. CASE DisposeDiscovery
  BY <1>1, ReaderKeeps DEF DisposeDiscovery, DiscoveryInv, DiscoveryTypeOK
<1>2. CASE DisposalSettles
  BY <1>2, ReaderKeeps DEF DisposalSettles, Pending, ReaderBusy, DiscoveryInv, DiscoveryTypeOK
<1> QED BY <1>1, <1>2

-----------------------------------------------------------------------------
(* Discovery: listings *)

Picks == [at : {"idle", "listing", "folding", "answered", "failed"},
          mount : {0} \cup Mounts, index : Indexes, listed : [Chats -> Versions]]
WaitKinds == {"no", "due", "again", "member", "chained", "served", "cached", "lost"}

\* A picker keeps what it has, or has nothing yet.
Steady(p) ==
    /\ picker'[p].mount = picker[p].mount /\ picker'[p].index = picker[p].index
    /\ picker'[p].listed = picker[p].listed /\ wait'[p] = wait[p]
Fresh(p) ==
    \A c \in Chats : wait[p][c] = "no" /\ wait'[p][c] \in {"no", "due"}

LEMMA ListFrame ==
    ASSUME DiscoveryInv, UNCHANGED <<storeVars, row, foldVars, endVars>>,
           index' \in Indexes, indexed' \in {0} \cup Mounts,
           listing' \in [Mounts -> Listings \cup {Absent}], reuse' \in Listings \cup {Absent},
           picker' \in [Pickers -> Picks], wait' \in [Pickers -> [Chats -> WaitKinds]],
           Listed', Picked', Stores', Ended',
           \A p \in Pickers : Steady(p) \/ Fresh(p)
    PROVE  DiscoveryInv'
<1> USE DEF storeVars, foldVars, endVars
<1>1. DiscoveryTypeOK'
  BY DEF DiscoveryInv, DiscoveryTypeOK, Picks, WaitKinds
<1>2. Heard' /\ Known'
  BY DEF DiscoveryInv, Heard, Known
<1>3. Waiting'
  BY DEF DiscoveryInv, Waiting, Steady, Fresh
<1>4. \A i \in Indexes, c \in Chats : Inspected(i, c)'
  BY DEF DiscoveryInv, Inspected, Reached, Steady, Fresh
<1>5. RowsAreCurrent'
  BY DEF DiscoveryInv, RowsAreCurrent, Steady, Fresh
<1> QED BY <1>1, <1>2, <1>3, <1>4, <1>5 DEF DiscoveryInv

\* Neither the index nor what it knows is touched.
LEMMA StoresStay ==
    ASSUME DiscoveryInv, UNCHANGED <<storeVars, indexVars, foldVars>>,
           \A p \in Pickers : picker'[p].mount = picker[p].mount /\ picker'[p].index = picker[p].index
    PROVE  Stores'
<1> USE DEF storeVars, indexVars, foldVars
<1>1. ASSUME NEW i \in Indexes, NEW m \in Mounts, OfStore(i, m) PROVE OfStore(i, m)'
  BY <1>1 DEF OfStore
<1>2. ASSUME NEW i \in Indexes, Unused(i) PROVE Unused(i)'
  BY <1>2 DEF Unused
<1> QED BY <1>1, <1>2 DEF DiscoveryInv, Stores

LEMMA StoreListsKeeps ==
    ASSUME DiscoveryInv, NEW m \in Mounts, StoreLists(m) PROVE DiscoveryInv'
<1>1. /\ listing[m] \in Listings /\ listing[m] # Absent /\ listing[m].mount = m
      /\ listing' = [listing EXCEPT ![m].listed = disk[m]] /\ disk[m] \in [Chats -> Versions]
      /\ UNCHANGED <<storeVars, reuse, indexVars, pickVars, foldVars, endVars>>
  BY DiscoveryTyped, DiscoveryFacts DEF StoreLists, DiscoveryInv, Listed, DiscoveryTypeOK
<1>2. /\ listing' \in [Mounts -> Listings \cup {Absent}]
      /\ listing'[m].mount = m /\ listing'[m].listed = disk[m]
      /\ \A n \in Mounts : n # m => listing'[n] = listing[n]
  BY <1>1 DEF DiscoveryInv, DiscoveryTypeOK, Listings
<1>3. Listed'
  <2>1. \A c \in Chats : disk[m][c] \in Nat
    BY <1>1, DiscoveryFacts
  <2>2. \A c \in Chats : Reached(listing[m].listed[c], m, c)'
    BY <1>1, <1>2, <2>1 DEF Reached, storeVars
  <2> QED BY <1>1, <1>2, <2>2 DEF Listed, Reached, DiscoveryInv, storeVars, pickVars
<1>4. Picked' /\ Stores' /\ Ended'
  BY <1>1, StoresStay DEF DiscoveryInv, Picked, Ended, Pending, ReaderBusy, ListBusy,
     indexVars, pickVars, endVars
<1>5. /\ index' \in Indexes /\ indexed' \in {0} \cup Mounts /\ reuse' \in Listings \cup {Absent}
      /\ picker' \in [Pickers -> Picks] /\ wait' \in [Pickers -> [Chats -> WaitKinds]]
      /\ \A p \in Pickers : Steady(p)
  BY <1>1 DEF DiscoveryInv, DiscoveryTypeOK, Picks, WaitKinds, Steady, indexVars, pickVars
<1> QED BY <1>1, <1>2, <1>3, <1>4, <1>5, ListFrame DEF pickVars

LEMMA ListFailsKeeps ==
    ASSUME DiscoveryInv, NEW m \in Mounts, ListFails(m) PROVE DiscoveryInv'
<1>1. /\ listing' = [listing EXCEPT ![m] = Absent]
      /\ picker' = [p \in Pickers |->
              IF p \in Listeners(m) THEN [picker[p] EXCEPT !.at = "failed"] ELSE picker[p]]
      /\ UNCHANGED <<storeVars, reuse, indexVars, wait, row, foldVars, endVars>>
  BY DEF ListFails
<1>2. /\ picker' \in [Pickers -> Picks]
      /\ \A p \in Pickers : Steady(p) /\ picker'[p].at \in {picker[p].at, "failed"}
  BY <1>1 DEF DiscoveryInv, DiscoveryTypeOK, Picks, Steady
<1>3. /\ listing' \in [Mounts -> Listings \cup {Absent}]
      /\ \A n \in Mounts : listing'[n] # Absent => listing'[n] = listing[n]
  BY <1>1 DEF DiscoveryInv, DiscoveryTypeOK
<1>4. Listed'
  BY <1>1, <1>2, <1>3 DEF DiscoveryInv, Listed, Reached, Steady, storeVars
<1>5. Picked' /\ Stores' /\ Ended'
  BY <1>1, <1>2, StoresStay DEF DiscoveryInv, Picked, Ended, Pending, ReaderBusy, ListBusy,
     Steady, indexVars, endVars
<1>6. /\ index' \in Indexes /\ indexed' \in {0} \cup Mounts /\ reuse' \in Listings \cup {Absent}
      /\ wait' \in [Pickers -> [Chats -> WaitKinds]]
  BY <1>1 DEF DiscoveryInv, DiscoveryTypeOK, WaitKinds, indexVars
<1> QED BY <1>1, <1>2, <1>3, <1>4, <1>5, <1>6, ListFrame

LEMMA FinishKeeps ==
    ASSUME DiscoveryInv, NEW p \in Pickers, Finish(p) PROVE DiscoveryInv'
<1>1. /\ \E to \in {"answered", "failed"} : picker' = [picker EXCEPT ![p].at = to]
      /\ UNCHANGED <<storeVars, listVars, indexVars, wait, row, foldVars, endVars>>
  BY DEF Finish
<1>2. /\ picker' \in [Pickers -> Picks]
      /\ \A q \in Pickers : Steady(q) /\ picker'[q].at \in {picker[q].at, "answered", "failed"}
  <2>1. PICK to \in {"answered", "failed"} : picker' = [picker EXCEPT ![p].at = to]
    BY <1>1
  <2> DEFINE after == [picker[p] EXCEPT !.at = to]
  <2>2. picker \in [Pickers -> Picks] /\ wait' = wait
    BY <1>1 DEF DiscoveryInv, DiscoveryTypeOK, Picks
  <2>3. /\ after \in Picks /\ after.at = to /\ after.mount = picker[p].mount
        /\ after.index = picker[p].index /\ after.listed = picker[p].listed
    BY <2>2 DEF Picks
  <2>4. picker' = [picker EXCEPT ![p] = after]
    BY <2>1
  <2> HIDE DEF after
  <2>5. \A q \in Pickers : picker'[q] = IF q = p THEN after ELSE picker[q]
    BY <2>2, <2>4
  <2>6. picker' \in [Pickers -> Picks]
    BY <2>2, <2>3, <2>4
  <2> QED BY <2>2, <2>3, <2>5, <2>6 DEF Steady
<1>3. Listed'
  BY <1>1, <1>2 DEF DiscoveryInv, Listed, Reached, Steady, storeVars, listVars
<1>4. Picked' /\ Stores' /\ Ended'
  BY <1>1, <1>2, StoresStay DEF DiscoveryInv, Picked, Ended, Pending, ReaderBusy, ListBusy,
     Steady, indexVars, endVars
<1>5. /\ index' \in Indexes /\ indexed' \in {0} \cup Mounts /\ reuse' \in Listings \cup {Absent}
      /\ wait' \in [Pickers -> [Chats -> WaitKinds]]
      /\ listing' \in [Mounts -> Listings \cup {Absent}]
  BY <1>1 DEF DiscoveryInv, DiscoveryTypeOK, WaitKinds, indexVars, listVars
<1> QED BY <1>1, <1>2, <1>3, <1>4, <1>5, ListFrame

LEMMA DueIsTyped ==
    ASSUME NEW listed \in [Chats -> Versions]
    PROVE  /\ Due(listed) \in [Chats -> WaitKinds]
           /\ \A c \in Chats : Due(listed)[c] \in {"no", "due"}
                               /\ (Due(listed)[c] # "no" => listed[c] > 0)
  BY DEF Due, WaitKinds

LEMMA PickFails ==
    ASSUME NEW pick \in Picks, NEW after, after = [pick EXCEPT !.at = "failed"]
    PROVE  /\ after \in Picks /\ after.at = "failed" /\ after.listed = pick.listed
           /\ after.mount = pick.mount /\ after.index = pick.index
  BY DEF Picks

LEMMA ListSettlesKeeps ==
    ASSUME DiscoveryInv, NEW m \in Mounts, ListSettles(m) PROVE DiscoveryInv'
<1> DEFINE listed == listing[m].listed
           L == Listeners(m)
<1>1. /\ picker' = [p \in Pickers |->
              IF p \notin L THEN picker[p]
              ELSE IF Open THEN [picker[p] EXCEPT !.at = "folding", !.listed = listed]
              ELSE [picker[p] EXCEPT !.at = "failed"]]
      /\ wait' = [p \in Pickers |-> IF p \in L /\ Open THEN Due(listed) ELSE wait[p]]
      /\ reuse' = IF Reusable(m) THEN listing[m] ELSE reuse
      /\ listing' = [listing EXCEPT ![m] = Absent]
      /\ UNCHANGED <<storeVars, indexVars, row, foldVars, endVars>>
  BY DEF ListSettles
<1>2. /\ listing[m] \in Listings /\ listing[m] # Absent /\ listing[m].mount = m
      /\ listing[m].listed # Absent /\ listed \in [Chats -> Versions]
      /\ \A c \in Chats : Reached(listed[c], m, c)
  BY DiscoveryTyped DEF ListSettles, DiscoveryInv, Listed, Listings
<1>3. \A p \in Pickers :
          /\ p \in L => picker[p].at = "listing" /\ picker[p].mount = m
                        /\ \A c \in Chats : wait[p][c] = "no"
          /\ picker[p] \in Picks /\ wait[p] \in [Chats -> WaitKinds]
  BY DEF Listeners, DiscoveryInv, Picked, DiscoveryTypeOK, Picks, WaitKinds
<1>4. /\ Due(listed) \in [Chats -> WaitKinds]
      /\ \A c \in Chats : Due(listed)[c] \in {"no", "due"} /\ (Due(listed)[c] # "no" => listed[c] > 0)
  BY <1>2, DueIsTyped
<1> HIDE DEF listed, L
<1>5. \A p \in Pickers :
          \/ p \notin L /\ picker'[p] = picker[p] /\ wait'[p] = wait[p]
          \/ /\ p \in L /\ Open /\ wait'[p] = Due(listed)
             /\ picker'[p] = [picker[p] EXCEPT !.at = "folding", !.listed = listed]
          \/ /\ p \in L /\ ~Open /\ wait'[p] = wait[p]
             /\ picker'[p] = [picker[p] EXCEPT !.at = "failed"]
  BY <1>1
<1>6. \A p \in Pickers :
          /\ picker'[p] \in Picks /\ wait'[p] \in [Chats -> WaitKinds]
          /\ picker'[p].mount = picker[p].mount /\ picker'[p].index = picker[p].index
          /\ \/ Steady(p) /\ picker'[p].at \in {picker[p].at, "failed"}
             \/ /\ Open /\ picker'[p].at = "folding" /\ picker'[p].listed = listed
                /\ picker[p].at = "listing" /\ picker[p].mount = m
                /\ wait'[p] = Due(listed) /\ \A c \in Chats : wait[p][c] = "no"
  <2> SUFFICES ASSUME NEW p \in Pickers
               PROVE  /\ picker'[p] \in Picks /\ wait'[p] \in [Chats -> WaitKinds]
                      /\ picker'[p].mount = picker[p].mount /\ picker'[p].index = picker[p].index
                      /\ \/ Steady(p) /\ picker'[p].at \in {picker[p].at, "failed"}
                         \/ /\ Open /\ picker'[p].at = "folding" /\ picker'[p].listed = listed
                            /\ picker[p].at = "listing" /\ picker[p].mount = m
                            /\ wait'[p] = Due(listed) /\ \A c \in Chats : wait[p][c] = "no"
    OBVIOUS
  <2>1. CASE picker'[p] = picker[p] /\ wait'[p] = wait[p]
    BY <1>3, <2>1 DEF Steady
  <2>2. CASE /\ p \in L /\ Open /\ wait'[p] = Due(listed)
             /\ picker'[p] = [picker[p] EXCEPT !.at = "folding", !.listed = listed]
    <3>1. /\ picker'[p] \in Picks /\ picker'[p].at = "folding" /\ picker'[p].listed = listed
          /\ picker'[p].mount = picker[p].mount /\ picker'[p].index = picker[p].index
      <4>1. picker[p] \in Picks /\ listed \in [Chats -> Versions]
        BY <1>2, <1>3
      <4>2. picker'[p] = [picker[p] EXCEPT !.at = "folding", !.listed = listed]
        BY <2>2
      <4> QED BY <4>1, <4>2 DEF Picks
    <3> QED BY <1>3, <1>4, <2>2, <3>1
  <2>3. CASE wait'[p] = wait[p] /\ picker'[p] = [picker[p] EXCEPT !.at = "failed"]
    <3>1. /\ picker'[p] \in Picks /\ picker'[p].at = "failed" /\ picker'[p].listed = picker[p].listed
          /\ picker'[p].mount = picker[p].mount /\ picker'[p].index = picker[p].index
      BY <1>3, <2>3, PickFails
    <3> QED BY <1>3, <2>3, <3>1 DEF Steady
  <2> QED BY <1>5, <2>1, <2>2, <2>3
<1>7. picker' \in [Pickers -> Picks] /\ wait' \in [Pickers -> [Chats -> WaitKinds]]
  BY <1>1, <1>6
<1>8. /\ listing' \in [Mounts -> Listings \cup {Absent}] /\ reuse' \in Listings \cup {Absent}
      /\ \A n \in Mounts : listing'[n] # Absent => listing'[n] = listing[n]
  BY <1>1, <1>2 DEF DiscoveryInv, DiscoveryTypeOK
<1>9. Listed'
  <2>1. \A n \in Mounts : listing'[n] # Absent =>
            /\ listing'[n].mount = n
            /\ listing'[n].listed # Absent => \A c \in Chats : Reached(listing[n].listed[c], n, c)'
    BY <1>1, <1>8 DEF DiscoveryInv, Listed, Reached, storeVars
  <2>2. reuse' # Absent =>
            /\ reuse'.known = announced' /\ reuse'.listed # Absent
            /\ \A c \in Chats : Reached(reuse.listed[c], reuse.mount, c)'
    BY <1>1, <1>2 DEF DiscoveryInv, Listed, Reached, Reusable, storeVars, listed
  <2>3. \A p \in Pickers : picker'[p].mount # 0 => \A c \in Chats :
            Reached(picker[p].listed[c], picker[p].mount, c)'
    <3> SUFFICES ASSUME NEW p \in Pickers, picker'[p].mount # 0, NEW c \in Chats
                 PROVE  Reached(picker[p].listed[c], picker[p].mount, c)'
      OBVIOUS
    <3>1. CASE Steady(p)
      <4>1. picker'[p].mount = picker[p].mount /\ picker'[p].listed = picker[p].listed
        BY <3>1 DEF Steady
      <4>2. Reached(picker[p].listed[c], picker[p].mount, c) /\ disk' = disk
        BY <1>1, <4>1 DEF DiscoveryInv, Listed, storeVars
      <4> QED BY <4>1, <4>2 DEF Reached
    <3>2. CASE ~Steady(p)
      <4>1. picker'[p].mount = m /\ picker'[p].listed = listed
        BY <1>6, <3>2
      <4>2. Reached(listed[c], m, c) /\ disk' = disk
        BY <1>1, <1>2 DEF storeVars
      <4> QED BY <4>1, <4>2 DEF Reached
    <3> QED BY <3>1, <3>2
  <2> QED BY <2>1, <2>2, <2>3 DEF Listed
<1>10. Picked'
  <2> SUFFICES ASSUME NEW p \in Pickers
               PROVE  /\ picker'[p].at \in {"listing", "folding"} => picker'[p].mount # 0
                      /\ picker'[p].at = "idle" =>
                            picker'[p].mount = 0 /\ \A c \in Chats : picker'[p].listed[c] = 0
                      /\ picker'[p].mount # 0 => picker'[p].index <= index'
                      /\ picker'[p].at \in {"idle", "listing"} => \A c \in Chats : wait'[p][c] = "no"
                      /\ \A c \in Chats : wait'[p][c] # "no" =>
                             picker'[p].mount # 0 /\ picker'[p].listed[c] > 0
    BY DEF Picked
  <2>1. CASE Steady(p)
    <3>1. /\ picker'[p].mount = picker[p].mount /\ picker'[p].index = picker[p].index
          /\ picker'[p].listed = picker[p].listed /\ wait'[p] = wait[p] /\ index' = index
      BY <1>1, <2>1 DEF Steady, indexVars
    <3>2. picker'[p].at = picker[p].at \/ picker'[p].at \in {"failed", "folding"}
      BY <1>6
    <3>3. picker'[p].at = "folding" => picker'[p].at = picker[p].at \/ picker[p].mount = m
      BY <1>6
    <3> QED BY <3>1, <3>2, <3>3, DiscoveryFacts DEF DiscoveryInv, Picked
  <2>2. CASE ~Steady(p)
    <3>1. /\ picker'[p].at = "folding" /\ picker'[p].mount = m /\ m # 0
          /\ picker'[p].listed = listed /\ wait'[p] = Due(listed)
          /\ picker'[p].index = picker[p].index
      BY <1>6, <2>2, DiscoveryFacts
    <3>2. picker[p].mount # 0 /\ index' = index
      BY <1>1, <1>6, <2>2, <3>1 DEF indexVars
    <3> QED BY <1>4, <3>1, <3>2 DEF DiscoveryInv, Picked
  <2> QED BY <2>1, <2>2
<1>11. Stores'
  BY <1>1, <1>6, StoresStay
<1>12. Ended'
  <2> SUFFICES ASSUME discovery \in {"disposed", "failed"} PROVE ~Pending'
    BY <1>1 DEF Ended, endVars
  <2> QED BY <1>1, <1>6 DEF DiscoveryInv, Ended, Pending, ReaderBusy, ListBusy, Steady, endVars, Open
<1>13. \A p \in Pickers : Steady(p) \/ Fresh(p)
  BY <1>4, <1>6 DEF Fresh
<1>14. index' \in Indexes /\ indexed' \in {0} \cup Mounts
  BY <1>1 DEF DiscoveryInv, DiscoveryTypeOK, indexVars
<1> QED BY <1>1, <1>7, <1>8, <1>9, <1>10, <1>11, <1>12, <1>13, <1>14, ListFrame

\* A picker takes the store that a lookup finds, with an index of its own for it.
LEMMA AskKeeps == ASSUME DiscoveryInv, NEW p \in Pickers, Ask(p) PROVE DiscoveryInv'
<1> USE DiscoveryFacts
<1>1. /\ picker[p].at = "idle" /\ picker[p].mount = 0 /\ \A c \in Chats : picker[p].listed[c] = 0
      /\ \A c \in Chats : wait[p][c] = "no"
      /\ picker[p] \in Picks /\ wait[p] \in [Chats -> WaitKinds]
      /\ UNCHANGED <<storeVars, row, foldVars, endVars, reuse>>
  BY DEF Ask, DiscoveryInv, Picked, DiscoveryTypeOK, Picks, WaitKinds, listVars
<1>2. CASE ~Open
  <2> DEFINE after == [picker[p] EXCEPT !.at = "failed"]
  <2>1. picker' = [picker EXCEPT ![p] = after] /\ UNCHANGED <<listVars, indexVars, wait>>
    BY <1>2 DEF Ask
  <2>2. after \in Picks /\ after.at = "failed" /\ after.mount = 0 /\ after.index = picker[p].index
        /\ after.listed = picker[p].listed
    BY <1>1 DEF Picks
  <2> HIDE DEF after
  <2>3. picker' \in [Pickers -> Picks] /\ \A q \in Pickers : picker'[q] = IF q = p THEN after ELSE picker[q]
    BY <2>1, <2>2 DEF DiscoveryInv, DiscoveryTypeOK, Picks
  <2>4. \A q \in Pickers : Steady(q) /\ picker'[q].at \in {picker[q].at, "failed"}
    BY <1>1, <2>1, <2>2, <2>3 DEF Steady
  <2>5. Listed'
    BY <1>1, <2>1, <2>4 DEF DiscoveryInv, Listed, Reached, Steady, storeVars, listVars
  <2>6. Picked' /\ Ended'
    BY <1>1, <2>1, <2>4 DEF DiscoveryInv, Picked, Ended, Pending, ReaderBusy, ListBusy, Steady,
       indexVars, endVars
  <2>7. Stores'
    BY <1>1, <2>1, <2>4, StoresStay DEF Steady
  <2>8. /\ index' \in Indexes /\ indexed' \in {0} \cup Mounts /\ reuse' \in Listings \cup {Absent}
        /\ wait' \in [Pickers -> [Chats -> WaitKinds]]
        /\ listing' \in [Mounts -> Listings \cup {Absent}]
    BY <2>1 DEF DiscoveryInv, DiscoveryTypeOK, WaitKinds, indexVars, listVars
  <2> QED BY <1>1, <2>3, <2>4, <2>5, <2>6, <2>7, <2>8, ListFrame
<1>3. CASE Open
  <2> DEFINE asked == [picker[p] EXCEPT !.mount = mount, !.index = index']
             joins == listing[mount] # Absent
             reuses == ~joins /\ reuse # Absent /\ reuse.mount = mount
             after == IF reuses THEN [asked EXCEPT !.at = "folding", !.listed = reuse.listed]
                      ELSE [asked EXCEPT !.at = "listing"]
             new == [mount |-> mount, known |-> announced, listed |-> Absent]
  <2>1. /\ indexed' = mount
        /\ index' = IF indexed \notin {0, mount} THEN index + 1 ELSE index
        /\ picker' = [picker EXCEPT ![p] = after]
        /\ wait' = IF reuses THEN [wait EXCEPT ![p] = Due(reuse.listed)] ELSE wait
        /\ listing' = IF joins \/ reuses THEN listing ELSE [listing EXCEPT ![mount] = new]
    BY <1>3 DEF Ask
  <2>2. mount \in Mounts /\ index' \in Indexes /\ index' <= mount /\ index \in Indexes
    <3>1. /\ mount \in 1 .. MaxMounts /\ index \in 1 .. MaxMounts /\ indexed \in {0} \cup 1 .. MaxMounts
          /\ indexed <= mount /\ (indexed # 0 => index <= indexed) /\ (indexed = 0 => index = 1)
      BY DiscoveryTyped DEF DiscoveryInv, Stores, Mounts
    <3>2. index' \in 1 .. MaxMounts /\ index' <= mount
      BY <2>1, <3>1
    <3> QED BY <3>1, <3>2 DEF Mounts, Indexes
  <2>3. /\ after \in Picks /\ after.mount = mount /\ after.index = index'
        /\ \/ after.at = "listing" /\ after.listed = picker[p].listed /\ ~reuses
           \/ after.at = "folding" /\ after.listed = reuse.listed /\ reuses
    <3>1. CASE reuses
      <4>1. reuse.listed \in [Chats -> Versions]
        BY <3>1, DiscoveryTyped DEF DiscoveryInv, Listed, Listings
      <4> QED BY <1>1, <2>2, <3>1, <4>1 DEF Picks
    <3>2. CASE ~reuses
      BY <1>1, <2>2, <3>2 DEF Picks
    <3> QED BY <3>1, <3>2
  <2>4. /\ picker' \in [Pickers -> Picks]
        /\ \A q \in Pickers : picker'[q] = IF q = p THEN after ELSE picker[q]
    <3> HIDE DEF after
    <3> QED BY <2>1, <2>3 DEF DiscoveryInv, DiscoveryTypeOK, Picks
  <2>5. reuses => /\ reuse.listed \in [Chats -> Versions] /\ Due(reuse.listed) \in [Chats -> WaitKinds]
                  /\ \A c \in Chats : /\ Due(reuse.listed)[c] \in {"no", "due"}
                                      /\ Due(reuse.listed)[c] # "no" => reuse.listed[c] > 0
    BY DiscoveryTyped, DueIsTyped DEF DiscoveryInv, Listed, Listings
  <2>6. /\ wait' \in [Pickers -> [Chats -> WaitKinds]]
        /\ \A q \in Pickers : q # p => wait'[q] = wait[q]
        /\ wait'[p] = IF reuses THEN Due(reuse.listed) ELSE wait[p]
    BY <2>1, <2>5 DEF DiscoveryInv, DiscoveryTypeOK, WaitKinds
  <2>7. /\ listing' \in [Mounts -> Listings \cup {Absent}]
        /\ \A m \in Mounts : \/ listing'[m] = listing[m]
                             \/ m = mount /\ listing'[m] = new
        /\ new \in Listings /\ new.mount = mount /\ new.listed = Absent
    <3>1. new \in Listings /\ new.mount = mount /\ new.listed = Absent
      BY <2>2 DEF Listings, DiscoveryInv, DiscoveryTypeOK
    <3> HIDE DEF new
    <3> QED BY <2>1, <3>1 DEF DiscoveryInv, DiscoveryTypeOK
  <2> HIDE DEF new, after, asked, joins
  <2>8. Listed'
    <3>1. \A n \in Mounts : listing'[n] # Absent =>
              /\ listing'[n].mount = n
              /\ listing'[n].listed # Absent => \A c \in Chats : Reached(listing[n].listed[c], n, c)'
      BY <1>1, <2>7 DEF DiscoveryInv, Listed, Reached, storeVars
    <3>2. reuse' # Absent =>
              /\ reuse'.known = announced' /\ reuse'.listed # Absent
              /\ \A c \in Chats : Reached(reuse.listed[c], reuse.mount, c)'
      BY <1>1 DEF DiscoveryInv, Listed, Reached, storeVars
    <3>3. \A c \in Chats : Reached(after.listed[c], mount, c)
      <4>1. CASE reuses
        BY <4>1, <2>3 DEF DiscoveryInv, Listed
      <4>2. CASE ~reuses
        <5>1. \A c \in Chats : disk[mount][c] \in Nat /\ after.listed[c] = 0
          BY <1>1, <2>2, <2>3, <4>2, DiscoveryTyped DEF DiscoveryInv
        <5> QED BY <5>1 DEF Reached
      <4> QED BY <4>1, <4>2
    <3>4. \A q \in Pickers : picker'[q].mount # 0 => \A c \in Chats :
              Reached(picker[q].listed[c], picker[q].mount, c)'
      BY <1>1, <2>3, <2>4, <3>3 DEF DiscoveryInv, Listed, Reached, storeVars
    <3> QED BY <3>1, <3>2, <3>4 DEF Listed
  <2>9. Picked'
    <3>1. \A q \in Pickers : picker[q].mount # 0 => picker[q].index <= index'
      <4>1. \A q \in Pickers : picker[q].index \in Nat
        BY DiscoveryTyped DEF DiscoveryInv
      <4>2. index \in Nat /\ index' \in Nat /\ index <= index'
        BY <2>1, <2>2
      <4> QED BY <4>1, <4>2 DEF DiscoveryInv, Picked
    <3>2. mount # 0 /\ index' <= index' /\ mount \in Nat
      BY <2>2
    <3> QED BY <1>1, <2>3, <2>4, <2>5, <2>6, <3>1, <3>2 DEF DiscoveryInv, Picked
  <2>10. Stores'
    <3>1. /\ indexed' \in Nat /\ index' \in Nat /\ index \in Nat /\ mount # 0
          /\ index <= index' /\ index' <= index + 1 /\ index + 1 > index
          /\ \A i \in Indexes : i \in Nat
      BY <2>1, <2>2 DEF Indexes, Mounts
    <3>2. OfStore(index, mount)'
      <4>1. \A q \in Pickers : q # p /\ picker[q].mount # 0 /\ picker[q].index = index'
                => picker[q].mount = mount
        <5>1. CASE indexed = mount
          BY <2>1, <5>1, <2>2 DEF DiscoveryInv, Stores, OfStore, Indexes
        <5>2. CASE indexed = 0
          BY <5>2 DEF DiscoveryInv, Stores
        <5>3. CASE indexed \notin {0, mount}
          BY <2>1, <5>3, <3>1 DEF DiscoveryInv, Picked
        <5> QED BY <5>1, <5>2, <5>3
      <4>2. \A c \in Chats :
                /\ job[index'][c] # Absent => job[index'][c].mount = mount
                                              /\ job[index'][c].read.mount \in {0, mount}
                /\ c \notin OwnChats => seen[index'][c].mount \in {0, mount}
        <5>1. CASE indexed = mount
          BY <2>1, <5>1, <2>2 DEF DiscoveryInv, Stores, OfStore, Indexes
        <5>2. CASE indexed = 0
          <6>1. \A c \in Chats : job[index'][c] = Absent
            BY <5>2, <2>2 DEF DiscoveryInv, Stores, Inspected
          <6>2. \A c \in Chats : c \notin OwnChats => seen[index'][c].mount = 0
            BY <5>2, <2>2 DEF DiscoveryInv, Stores
          <6> QED BY <6>1, <6>2
        <5>3. CASE indexed \notin {0, mount}
          BY <2>1, <5>3, <3>1, <2>2 DEF DiscoveryInv, Stores, Unused, Unread
        <5> QED BY <5>1, <5>2, <5>3
      <4> QED BY <1>1, <2>1, <2>3, <2>4, <4>1, <4>2 DEF OfStore, storeVars, foldVars
    <3>3. ASSUME NEW i \in Indexes, i <= index', i # index'
          PROVE  \E m \in Mounts : OfStore(i, m)'
      <4>1. i <= index /\ (index' = index \/ index' = index + 1)
        BY <3>1, <3>3, <2>1
      <4>2. PICK m \in Mounts : OfStore(i, m)
        BY <4>1 DEF DiscoveryInv, Stores
      <4>3. OfStore(i, m)'
        BY <1>1, <2>3, <2>4, <3>3, <4>2 DEF OfStore, foldVars
      <4> QED BY <4>3
    <3>4. \A i \in Indexes : i > index' => Unused(i)'
      <4>1. \A i \in Indexes : i > index' => i > index
        BY <3>1
      <4> QED BY <1>1, <4>1 DEF DiscoveryInv, Stores, Unused, foldVars
    <3>5. mount' = mount
      BY <1>1 DEF storeVars
    <3>6. ASSUME NEW i \in Indexes, i <= index' PROVE \E m \in Mounts : OfStore(i, m)'
      <4>1. CASE i = index'
        <5>1. OfStore(i, mount)'
          BY <3>2, <4>1 DEF OfStore
        <5>2. PICK m \in Mounts : m = mount'
          BY <2>2, <3>5
        <5>3. OfStore(i, m)'
          BY <5>1, <5>2 DEF OfStore
        <5> QED BY <5>3
      <4>2. CASE i # index'
        BY <3>3, <3>6, <4>2
      <4> QED BY <4>1, <4>2
    <3> QED BY <2>1, <2>2, <3>1, <3>4, <3>5, <3>6 DEF Stores
  <2>11. Ended'
    BY <1>1, <1>3 DEF Ended, Open, endVars
  <2>12. \A q \in Pickers : Steady(q) \/ Fresh(q)
    BY <1>1, <2>4, <2>5, <2>6 DEF Steady, Fresh
  <2>13. /\ indexed' \in {0} \cup Mounts /\ reuse' \in Listings \cup {Absent}
    BY <1>1, <2>1, <2>2 DEF DiscoveryInv, DiscoveryTypeOK
  <2> QED BY <1>1, <2>2, <2>4, <2>6, <2>7, <2>8, <2>9, <2>10, <2>11, <2>12, <2>13, ListFrame
<1> QED BY <1>2, <1>3

-----------------------------------------------------------------------------
(* Discovery: inspections *)

foldFrame == <<storeVars, listVars, indexVars, picker>>

LEMMA ListedStays ==
    ASSUME DiscoveryInv, UNCHANGED foldFrame
    PROVE  Heard' /\ Listed'
  BY DEF DiscoveryInv, foldFrame, storeVars, listVars, Heard, Listed, Reached

LEMMA InspectKeeps ==
    ASSUME DiscoveryInv, NEW p \in Pickers, NEW c \in Chats, Inspect(p, c) PROVE DiscoveryInv'
<1> USE DiscoveryFacts
<1> DEFINE i == picker[p].index
           revision == picker[p].listed[c]
           fresh == [revision |-> revision, mount |-> picker[p].mount, at |-> "queued",
                     read |-> Unread]
<1>1. /\ wait[p][c] \in {"due", "again"} /\ picker[p].mount \in Mounts /\ picker[p].mount # 0
      /\ i \in Indexes /\ revision \in Versions /\ revision > 0
      /\ picker[p].at \notin {"idle", "listing"}
      /\ UNCHANGED <<foldFrame, seen, revisions, endVars>>
  <2>1. wait[p][c] \in {"due", "again"} /\ UNCHANGED <<foldFrame, seen, revisions, endVars>>
    BY DEF Inspect, foldFrame
  <2>2. picker[p].mount # 0 /\ revision > 0 /\ picker[p].at \notin {"idle", "listing"}
    BY <2>1 DEF DiscoveryInv, Picked
  <2> QED BY <2>1, <2>2, DiscoveryTyped DEF DiscoveryInv
<1>2. PICK how \in WaitKinds \ {"no"} :
          /\ wait' = [wait EXCEPT ![p][c] = how]
          /\ \/ how = "lost" /\ UNCHANGED <<row, job>>
             \/ how = "member" /\ job[i][c] # Absent /\ job[i][c].revision = revision
                /\ UNCHANGED <<row, job>>
             \/ how = "chained" /\ job[i][c] # Absent /\ UNCHANGED <<row, job>>
             \/ how = "served" /\ revisions[i][c] = revision
                /\ row' = [row EXCEPT ![p][c] = seen[i][c]] /\ UNCHANGED job
             \/ how = "member" /\ job[i][c] = Absent
                /\ job' = [job EXCEPT ![i][c] = fresh] /\ UNCHANGED row
  BY DEF Inspect, WaitKinds, Shares
<1>3. /\ wait' \in [Pickers -> [Chats -> WaitKinds]] /\ wait'[p][c] = how
      /\ \A q \in Pickers, d \in Chats : q # p \/ d # c => wait'[q][d] = wait[q][d]
  BY <1>2 DEF DiscoveryInv, DiscoveryTypeOK, WaitKinds
<1>4. /\ fresh \in Inspections /\ fresh # Absent /\ fresh.revision = revision
      /\ fresh.mount = picker[p].mount /\ fresh.read = Unread /\ fresh.at = "queued"
  BY <1>1 DEF Inspections
<1> HIDE DEF fresh
<1>5. /\ job' \in [Indexes -> [Chats -> Inspections \cup {Absent}]]
      /\ \A k \in Indexes, d \in Chats :
             \/ job'[k][d] = job[k][d]
             \/ k = i /\ d = c /\ job'[k][d] = fresh /\ how = "member" /\ job[i][c] = Absent
      /\ how = "member" => job'[i][c] # Absent /\ job'[i][c].revision = revision
      /\ how = "chained" => job'[i][c] # Absent
  <2>1. CASE /\ job' = job
             /\ how = "member" => job[i][c] # Absent /\ job[i][c].revision = revision
             /\ how = "chained" => job[i][c] # Absent
    BY <2>1 DEF DiscoveryInv, DiscoveryTypeOK
  <2>2. CASE job' = [job EXCEPT ![i][c] = fresh] /\ how = "member" /\ job[i][c] = Absent
    BY <1>1, <1>4, <2>2 DEF DiscoveryInv, DiscoveryTypeOK
  <2> QED BY <1>2, <2>1, <2>2
<1>6. /\ row' \in [Pickers -> [Chats -> Contents]]
      /\ \A q \in Pickers, d \in Chats :
             row'[q][d] = IF q = p /\ d = c /\ how = "served" THEN seen[i][c] ELSE row[q][d]
      /\ how = "served" => revisions[i][c] = revision
  <2>1. seen[i][c] \in Contents
    BY <1>1, DiscoveryTyped DEF DiscoveryInv
  <2>2. CASE row' = row /\ how # "served"
    BY <2>2 DEF DiscoveryInv, DiscoveryTypeOK
  <2>3. CASE row' = [row EXCEPT ![p][c] = seen[i][c]] /\ how = "served" /\ revisions[i][c] = revision
    BY <2>1, <2>3 DEF DiscoveryInv, DiscoveryTypeOK
  <2> QED BY <1>2, <2>2, <2>3
<1>7. DiscoveryTypeOK'
  BY <1>1, <1>3, <1>5, <1>6 DEF DiscoveryInv, DiscoveryTypeOK, foldFrame, storeVars, listVars,
     indexVars, endVars, WaitKinds
<1>8. Known' /\ Ended'
  <2>1. discovery \notin {"disposed", "failed"}
    BY <1>1 DEF DiscoveryInv, Ended, Pending
  <2> QED BY <1>1, <2>1 DEF DiscoveryInv, Known, Ended, foldFrame, storeVars, endVars
<1>9. Picked'
  BY <1>1, <1>3 DEF DiscoveryInv, Picked, foldFrame, indexVars
<1>10. Waiting'
  <2> SUFFICES ASSUME NEW q \in Pickers, NEW d \in Chats
               PROVE  LET k == picker[q].index IN
                      /\ wait'[q][d] = "member" =>
                            job'[k][d] # Absent /\ job'[k][d].revision = picker[q].listed[d]
                      /\ wait'[q][d] = "chained" => job'[k][d] # Absent
    BY <1>1 DEF Waiting, foldFrame
  <2>1. CASE q = p /\ d = c
    BY <1>3, <1>5, <2>1
  <2>2. CASE q # p \/ d # c
    <3>1. wait'[q][d] = wait[q][d] /\ picker[q].index \in Indexes
      BY <1>3, <2>2, DiscoveryTyped DEF DiscoveryInv
    <3>2. job[picker[q].index][d] # Absent => job'[picker[q].index][d] = job[picker[q].index][d]
      BY <1>5, <3>1
    <3> QED BY <3>1, <3>2 DEF DiscoveryInv, Waiting
  <2> QED BY <2>1, <2>2
<1>11. \A k \in Indexes, d \in Chats : Inspected(k, d)'
  <2> SUFFICES ASSUME NEW k \in Indexes, NEW d \in Chats PROVE Inspected(k, d)'
    OBVIOUS
  <2>1. CASE job'[k][d] = job[k][d]
    <3>1. \A q \in Pickers : wait[q][d] = "member" => wait'[q][d] = "member"
      BY <1>1, <1>3
    <3> QED BY <1>1, <2>1, <3>1 DEF DiscoveryInv, Inspected, Reached, foldFrame, storeVars
  <2>2. CASE k = i /\ d = c /\ job'[k][d] = fresh /\ how = "member"
    <3>1. Reached(revision, picker[p].mount, c)
      BY <1>1 DEF DiscoveryInv, Listed
    <3>2. Reached(job[k][d].revision, job[k][d].mount, d)'
      BY <1>1, <1>4, <2>2, <3>1 DEF Reached, foldFrame, storeVars
    <3>3. picker'[p].mount # 0 /\ picker'[p].index = k /\ wait'[p][d] = "member"
      BY <1>1, <1>3, <2>2 DEF foldFrame
    <3> QED BY <1>4, <2>2, <3>2, <3>3 DEF Inspected, Unread
  <2> QED BY <1>5, <2>1, <2>2
<1>12. Stores'
  <2>1. ASSUME NEW k \in Indexes, NEW m \in Mounts, OfStore(k, m) PROVE OfStore(k, m)'
    <3>1. k = i => picker[p].mount = m
      BY <1>1, <2>1 DEF OfStore
    <3>2. \A d \in Chats : job'[k][d] # Absent => job'[k][d].mount = m /\ job'[k][d].read.mount \in {0, m}
      BY <1>4, <1>5, <2>1, <3>1 DEF OfStore, Unread
    <3> QED BY <1>1, <2>1, <3>2 DEF OfStore, foldFrame, indexVars
  <2>2. ASSUME NEW k \in Indexes, k > index, Unused(k) PROVE Unused(k)'
    <3>1. k # i
      BY <1>1, <2>2 DEF DiscoveryInv, Picked, DiscoveryTypeOK, Indexes, Mounts
    <3> QED BY <1>1, <1>5, <2>2, <3>1 DEF Unused
  <2> QED BY <1>1, <2>1, <2>2 DEF DiscoveryInv, Stores, foldFrame, indexVars, storeVars
<1>13. RowsAreCurrent'
  <2> SUFFICES ASSUME NEW q \in Pickers, NEW d \in Chats, wait'[q][d] = "served"
               PROVE  /\ row'[q][d].mount = picker[q].mount \/ d \in OwnChats
                      /\ row'[q][d].version >= picker[q].listed[d]
    BY <1>1 DEF RowsAreCurrent, foldFrame
  <2>1. CASE q = p /\ d = c
    <3>1. row'[q][d] = seen[i][c] /\ revisions[i][c] = revision
      BY <1>3, <1>6, <2>1
    <3>2. seen[i][c].version >= revision /\ seen[i][c].mount # 0
      <4>1. seen[i][c].version \in Nat /\ revision \in Nat
        BY <1>1, DiscoveryTyped DEF DiscoveryInv, Contents
      <4>2. /\ revisions[i][c] <= seen[i][c].version
            /\ seen[i][c].version > 0 => seen[i][c].mount # 0
        BY <1>1 DEF DiscoveryInv, Known
      <4> QED BY <1>1, <3>1, <4>1, <4>2
    <3>3. i <= index
      BY <1>1 DEF DiscoveryInv, Picked
    <3>4. PICK m \in Mounts : OfStore(i, m)
      BY <1>1, <3>3 DEF DiscoveryInv, Stores
    <3>5. seen[i][c].mount = picker[p].mount \/ c \in OwnChats
      BY <1>1, <3>2, <3>4 DEF OfStore
    <3> QED BY <2>1, <3>1, <3>2, <3>5
  <2>2. CASE q # p \/ d # c
    BY <1>3, <1>6, <2>2 DEF DiscoveryInv, RowsAreCurrent
  <2> QED BY <2>1, <2>2
<1> QED BY <1>1, <1>7, <1>8, <1>9, <1>10, <1>11, <1>12, <1>13, ListedStays DEF DiscoveryInv

\* An inspection under way is for a picker of the current index or an older one.
LEMMA JobIsWanted ==
    ASSUME DiscoveryInv, NEW i \in Indexes, NEW c \in Chats, job[i][c] # Absent
    PROVE  /\ job[i][c] \in Inspections /\ i <= index /\ indexed # 0
           /\ discovery \notin {"disposed", "failed"}
<1>1. job[i][c] \in Inspections
  BY DiscoveryTyped, DiscoveryFacts DEF DiscoveryInv
<1>2. PICK p \in Pickers : picker[p].mount # 0 /\ picker[p].index = i /\ wait[p][c] = "member"
  BY DEF DiscoveryInv, Inspected
<1>3. i <= index
  BY <1>2 DEF DiscoveryInv, Picked
<1>4. indexed # 0
  BY <1>2 DEF DiscoveryInv, Stores
<1>5. Pending
  BY <1>2 DEF Pending
<1> QED BY <1>1, <1>3, <1>4, <1>5 DEF DiscoveryInv, Ended

LEMMA GoesKeeps ==
    ASSUME DiscoveryInv, NEW i \in Indexes, NEW c \in Chats, job[i][c] # Absent,
           NEW phase \in {"opening", "open", "closing"}, NEW content \in Contents,
           JobGoes(i, c, phase, content), UNCHANGED <<foldFrame, endVars>>,
           phase # "closing" => content = Unread,
           content.mount \in {0, job[i][c].mount},
           content.version > 0 => content.version >= job[i][c].revision /\ content.mount # 0
    PROVE  DiscoveryInv'
<1> USE DiscoveryFacts
<1> DEFINE after == [job[i][c] EXCEPT !.at = phase, !.read = content]
<1>1. /\ job' = [job EXCEPT ![i][c] = after]
      /\ UNCHANGED <<wait, row, seen, revisions>>
  BY DEF JobGoes
<1>2. job[i][c] \in Inspections /\ i <= index /\ indexed # 0
  BY JobIsWanted
<1>3. /\ after \in Inspections /\ after.revision = job[i][c].revision
      /\ after.mount = job[i][c].mount /\ after.at = phase /\ after.read = content
  BY <1>2 DEF Inspections
<1> HIDE DEF after
<1>4. /\ job' \in [Indexes -> [Chats -> Inspections \cup {Absent}]]
      /\ job'[i][c] = after /\ after # Absent
      /\ \A k \in Indexes, d \in Chats : k # i \/ d # c => job'[k][d] = job[k][d]
  BY <1>1, <1>3 DEF DiscoveryInv, DiscoveryTypeOK
<1>5. DiscoveryTypeOK'
  BY <1>1, <1>4 DEF DiscoveryInv, DiscoveryTypeOK, foldFrame, storeVars, listVars, indexVars, endVars
<1>6. Known' /\ Ended' /\ Picked' /\ RowsAreCurrent'
  BY <1>1 DEF DiscoveryInv, Known, Ended, Pending, ReaderBusy, ListBusy, Picked, RowsAreCurrent,
     foldFrame, storeVars, indexVars, endVars
<1>7. Waiting'
  <2> SUFFICES ASSUME NEW q \in Pickers, NEW d \in Chats
               PROVE  LET k == picker[q].index IN
                      /\ wait[q][d] = "member" =>
                            job'[k][d] # Absent /\ job'[k][d].revision = picker[q].listed[d]
                      /\ wait[q][d] = "chained" => job'[k][d] # Absent
    BY <1>1 DEF Waiting, foldFrame
  <2>1. picker[q].index \in Indexes
    BY DiscoveryTyped DEF DiscoveryInv
  <2>2. job[picker[q].index][d] # Absent =>
            /\ job'[picker[q].index][d] # Absent
            /\ job'[picker[q].index][d].revision = job[picker[q].index][d].revision
    BY <1>3, <1>4, <2>1
  <2> QED BY <2>2 DEF DiscoveryInv, Waiting
<1>8. \A k \in Indexes, d \in Chats : Inspected(k, d)'
  <2> SUFFICES ASSUME NEW k \in Indexes, NEW d \in Chats PROVE Inspected(k, d)'
    OBVIOUS
  <2>1. CASE k # i \/ d # c
    <3>1. job'[k][d] = job[k][d]
      BY <1>4, <2>1
    <3> QED BY <1>1, <3>1 DEF DiscoveryInv, Inspected, Reached, foldFrame, storeVars
  <2>2. CASE k = i /\ d = c
    <3>1. /\ Reached(job[i][c].revision, job[i][c].mount, c)
          /\ \E q \in Pickers : picker[q].mount # 0 /\ picker[q].index = i /\ wait[q][c] = "member"
      BY DEF DiscoveryInv, Inspected
    <3>2. Reached(job[i][c].revision, job[i][c].mount, c)'
      BY <1>3, <1>4, <3>1 DEF Reached, foldFrame, storeVars
    <3> QED BY <1>1, <1>3, <1>4, <2>2, <3>1, <3>2 DEF Inspected, foldFrame
  <2> QED BY <2>1, <2>2
<1>9. Stores'
  <2>1. ASSUME NEW k \in Indexes, NEW m \in Mounts, OfStore(k, m) PROVE OfStore(k, m)'
    <3>1. \A d \in Chats : job'[k][d] # Absent => job'[k][d].mount = m /\ job'[k][d].read.mount \in {0, m}
      BY <1>3, <1>4, <2>1 DEF OfStore
    <3> QED BY <1>1, <2>1, <3>1 DEF OfStore, foldFrame, indexVars
  <2>2. ASSUME NEW k \in Indexes, k > index, Unused(k) PROVE Unused(k)'
    BY <1>1, <1>4, <2>2 DEF Unused
  <2> QED BY <1>1, <2>1, <2>2 DEF DiscoveryInv, Stores, foldFrame, indexVars, storeVars
<1> QED BY <1>5, <1>6, <1>7, <1>8, <1>9, ListedStays DEF DiscoveryInv

\* Its end serves those that shared it, and the next one of those behind it reads
\* the log again.
LEMMA OverKeeps ==
    ASSUME DiscoveryInv, NEW i \in Indexes, NEW c \in Chats, job[i][c] # Absent,
           NEW outcome \in {"read", "unavailable", "failed"},
           outcome = "read" => job[i][c].read.version > 0,
           JobOver(i, c, outcome), UNCHANGED <<foldFrame, reader>>,
           discovery' \in {discovery, "failing"}
    PROVE  DiscoveryInv'
<1> USE DiscoveryFacts
<1> DEFINE j == job[i][c]
           Was(p) == picker[p].index = i /\ wait[p][c] \in {"member", "chained"}
<1>1. /\ job[i][c] \in Inspections /\ i <= index /\ indexed # 0
      /\ discovery \notin {"disposed", "failed"}
  BY JobIsWanted
<1>2. /\ j.revision \in Versions /\ j.mount \in Mounts /\ j.read \in Contents
      /\ Reached(j.revision, j.mount, c)
      /\ j.read.version > 0 => j.read.version >= j.revision /\ j.read.mount # 0
  BY <1>1 DEF DiscoveryInv, Inspected, Inspections
<1>3. /\ seen' = IF outcome = "read" THEN [seen EXCEPT ![i][c] = j.read] ELSE seen
      /\ revisions' = IF outcome = "read" THEN [revisions EXCEPT ![i][c] = j.revision] ELSE revisions
      /\ wait' = [p \in Pickers |-> [wait[p] EXCEPT ![c] =
              IF picker[p].index # i \/ @ \notin {"member", "chained"} THEN @
              ELSE IF outcome = "failed" THEN "lost"
              ELSE IF @ = "chained" THEN "again"
              ELSE IF outcome = "read" THEN "served" ELSE "cached"]]
      /\ row' = [p \in Pickers |-> IF wait'[p][c] # wait[p][c] /\ wait'[p][c] \in {"served", "cached"}
                                   THEN [row[p] EXCEPT ![c] = seen'[i][c]] ELSE row[p]]
      /\ job' = [job EXCEPT ![i][c] = Absent]
  BY DEF JobOver
<1>4. /\ seen' \in [Indexes -> [Chats -> Contents]]
      /\ revisions' \in [Indexes -> [Chats -> Versions]]
      /\ \A k \in Indexes, d \in Chats : k # i \/ d # c =>
            seen'[k][d] = seen[k][d] /\ revisions'[k][d] = revisions[k][d]
      /\ outcome = "read" => seen'[i][c] = j.read /\ revisions'[i][c] = j.revision
      /\ outcome # "read" => seen'[i][c] = seen[i][c] /\ revisions'[i][c] = revisions[i][c]
  <2> HIDE DEF j
  <2>1. CASE outcome = "read"
    BY <1>2, <1>3, <2>1 DEF DiscoveryInv, DiscoveryTypeOK
  <2>2. CASE outcome # "read"
    BY <1>3, <2>2 DEF DiscoveryInv, DiscoveryTypeOK
  <2> QED BY <2>1, <2>2
<1>5. /\ wait' \in [Pickers -> [Chats -> WaitKinds]]
      /\ \A p \in Pickers, d \in Chats : d # c => wait'[p][d] = wait[p][d]
      /\ \A p \in Pickers :
            \/ ~Was(p) /\ wait'[p][c] = wait[p][c]
            \/ Was(p) /\ outcome = "failed" /\ wait'[p][c] = "lost"
            \/ Was(p) /\ wait[p][c] = "chained" /\ wait'[p][c] = "again"
            \/ Was(p) /\ wait[p][c] = "member" /\ outcome = "read" /\ wait'[p][c] = "served"
            \/ Was(p) /\ wait[p][c] = "member" /\ wait'[p][c] = "cached"
  <2> DEFINE Now(p) ==
        IF picker[p].index # i \/ wait[p][c] \notin {"member", "chained"} THEN wait[p][c]
        ELSE IF outcome = "failed" THEN "lost"
        ELSE IF wait[p][c] = "chained" THEN "again"
        ELSE IF outcome = "read" THEN "served" ELSE "cached"
  <2>1. wait' = [p \in Pickers |-> [wait[p] EXCEPT ![c] = Now(p)]]
    BY <1>3
  <2>2. \A p \in Pickers : Now(p) \in WaitKinds /\ wait[p] \in [Chats -> WaitKinds]
    BY DEF DiscoveryInv, DiscoveryTypeOK, WaitKinds
  <2>3. \A p \in Pickers :
            \/ ~Was(p) /\ Now(p) = wait[p][c]
            \/ Was(p) /\ outcome = "failed" /\ Now(p) = "lost"
            \/ Was(p) /\ wait[p][c] = "chained" /\ Now(p) = "again"
            \/ Was(p) /\ wait[p][c] = "member" /\ outcome = "read" /\ Now(p) = "served"
            \/ Was(p) /\ wait[p][c] = "member" /\ Now(p) = "cached"
    OBVIOUS
  <2> HIDE DEF Now, Was
  <2>4. \A p \in Pickers : wait'[p] = [wait[p] EXCEPT ![c] = Now(p)]
    BY <2>1
  <2>5. \A p \in Pickers : /\ wait'[p] \in [Chats -> WaitKinds] /\ wait'[p][c] = Now(p)
                           /\ \A d \in Chats : d # c => wait'[p][d] = wait[p][d]
    <3> SUFFICES ASSUME NEW p \in Pickers
                 PROVE  /\ wait'[p] \in [Chats -> WaitKinds] /\ wait'[p][c] = Now(p)
                        /\ \A d \in Chats : d # c => wait'[p][d] = wait[p][d]
      OBVIOUS
    <3>1. /\ Now(p) \in WaitKinds /\ wait[p] \in [Chats -> WaitKinds]
          /\ wait'[p] = [wait[p] EXCEPT ![c] = Now(p)]
      BY <2>2, <2>4
    <3> QED BY <3>1
  <2>6. wait' \in [Pickers -> [Chats -> WaitKinds]]
    BY <2>1, <2>5
  <2> QED BY <2>3, <2>5, <2>6
<1>6. /\ row' \in [Pickers -> [Chats -> Contents]]
      /\ \A p \in Pickers, d \in Chats : d # c => row'[p][d] = row[p][d]
      /\ \A p \in Pickers : wait'[p][c] = "served" =>
            IF wait[p][c] = "served" THEN row'[p][c] = row[p][c] ELSE row'[p][c] = seen'[i][c]
  <2>1. seen'[i][c] \in Contents
    <3>1. seen' \in [Indexes -> [Chats -> Contents]]
      BY <1>4
    <3>2. seen'[i] \in [Chats -> Contents]
      BY <3>1
    <3> QED BY <3>2
  <2>5. \A p \in Pickers : row[p] \in [Chats -> Contents]
    BY DEF DiscoveryInv, DiscoveryTypeOK
  <2>2. \A p \in Pickers :
            row'[p] = IF wait'[p][c] # wait[p][c] /\ wait'[p][c] \in {"served", "cached"}
                      THEN [row[p] EXCEPT ![c] = seen'[i][c]] ELSE row[p]
    BY <1>3
  <2>3. \A p \in Pickers :
            /\ row'[p] \in [Chats -> Contents]
            /\ \A d \in Chats : d # c => row'[p][d] = row[p][d]
            /\ wait'[p][c] = "served" =>
                IF wait[p][c] = "served" THEN row'[p][c] = row[p][c] ELSE row'[p][c] = seen'[i][c]
    <3> DEFINE now == seen'[i][c]
    <3> SUFFICES ASSUME NEW p \in Pickers
                 PROVE  /\ row'[p] \in [Chats -> Contents]
                        /\ \A d \in Chats : d # c => row'[p][d] = row[p][d]
                        /\ wait'[p][c] = "served" =>
                              IF wait[p][c] = "served" THEN row'[p][c] = row[p][c] ELSE row'[p][c] = now
      OBVIOUS
    <3>1. /\ now \in Contents /\ row[p] \in [Chats -> Contents]
          /\ row'[p] = IF wait'[p][c] # wait[p][c] /\ wait'[p][c] \in {"served", "cached"}
                       THEN [row[p] EXCEPT ![c] = now] ELSE row[p]
      BY <2>1, <2>2, <2>5
    <3> HIDE DEF now
    <3>2. CASE row'[p] = row[p] /\ (wait'[p][c] = "served" => wait[p][c] = "served")
      BY <3>1, <3>2
    <3>3. CASE row'[p] = [row[p] EXCEPT ![c] = now] /\ wait'[p][c] # wait[p][c]
      BY <3>1, <3>3
    <3> QED BY <3>1, <3>2, <3>3
  <2>4. row' \in [Pickers -> [Chats -> Contents]]
    BY <1>3, <2>3
  <2> QED BY <2>3, <2>4
<1>7. /\ job' \in [Indexes -> [Chats -> Inspections \cup {Absent}]] /\ job'[i][c] = Absent
      /\ \A k \in Indexes, d \in Chats : k # i \/ d # c => job'[k][d] = job[k][d]
  BY <1>3 DEF DiscoveryInv, DiscoveryTypeOK
<1>8. DiscoveryTypeOK'
  BY <1>4, <1>5, <1>6, <1>7 DEF DiscoveryInv, DiscoveryTypeOK, foldFrame, storeVars, listVars,
     indexVars, WaitKinds
<1>9. Ended'
  BY <1>1 DEF Ended
<1>10. Picked'
  BY <1>5 DEF DiscoveryInv, Picked, foldFrame, indexVars
<1>11. Known'
  <2> SUFFICES ASSUME NEW k \in Indexes, NEW d \in Chats
               PROVE  /\ revisions'[k][d] <= seen'[k][d].version
                      /\ seen'[k][d].version > 0 => seen'[k][d].mount # 0
                      /\ d \in OwnChats => revisions'[k][d] <= heard[d]
    BY DEF Known, foldFrame, storeVars
  <2>1. CASE k = i /\ d = c /\ outcome = "read"
    <3>1. j.read.version \in Nat /\ j.revision \in Nat /\ j.revision <= j.read.version /\ j.read.mount # 0
      BY <1>2, <2>1 DEF Contents
    <3>2. d \in OwnChats => j.revision <= heard[d]
      <4>1. d \in OwnChats => /\ disk[j.mount][d] \in Nat /\ heard[d] \in Nat
                              /\ disk[j.mount][d] <= heard[d] /\ j.revision <= disk[j.mount][d]
        BY <1>2, <2>1, DiscoveryTyped DEF DiscoveryInv, Heard, Reached
      <4> QED BY <3>1, <4>1
    <3> QED BY <1>4, <2>1, <3>1, <3>2
  <2>2. CASE ~(k = i /\ d = c /\ outcome = "read")
    BY <1>4, <2>2 DEF DiscoveryInv, Known
  <2> QED BY <2>1, <2>2
<1>12. Waiting'
  <2> SUFFICES ASSUME NEW q \in Pickers, NEW d \in Chats
               PROVE  LET k == picker[q].index IN
                      /\ wait'[q][d] = "member" =>
                            job'[k][d] # Absent /\ job'[k][d].revision = picker[q].listed[d]
                      /\ wait'[q][d] = "chained" => job'[k][d] # Absent
    BY DEF Waiting, foldFrame
  <2>1. picker[q].index \in Indexes
    BY DiscoveryTyped DEF DiscoveryInv
  <2>2. CASE picker[q].index = i /\ d = c
    BY <1>5, <2>2
  <2>3. CASE ~(picker[q].index = i /\ d = c)
    <3>1. wait'[q][d] = wait[q][d] /\ job'[picker[q].index][d] = job[picker[q].index][d]
      BY <1>5, <1>7, <2>1, <2>3
    <3> QED BY <3>1 DEF DiscoveryInv, Waiting
  <2> QED BY <2>2, <2>3
<1>13. \A k \in Indexes, d \in Chats : Inspected(k, d)'
  <2> SUFFICES ASSUME NEW k \in Indexes, NEW d \in Chats PROVE Inspected(k, d)'
    OBVIOUS
  <2>1. CASE k = i /\ d = c
    BY <1>7, <2>1 DEF Inspected
  <2>2. CASE k # i \/ d # c
    <3>1. job'[k][d] = job[k][d]
      BY <1>7, <2>2
    <3>2. ASSUME NEW q \in Pickers, picker[q].index = k PROVE wait'[q][d] = wait[q][d]
      BY <1>5, <2>2, <3>2
    <3> SUFFICES ASSUME job[k][d] # Absent PROVE Inspected(k, d)'
      BY <3>1 DEF Inspected
    <3>3. /\ Reached(job[k][d].revision, job[k][d].mount, d)
          /\ job[k][d].read.version > 0 =>
                job[k][d].read.version >= job[k][d].revision /\ job[k][d].read.mount # 0
          /\ job[k][d].at # "closing" => job[k][d].read = Unread
      BY DEF DiscoveryInv, Inspected
    <3>4. PICK q \in Pickers : picker[q].mount # 0 /\ picker[q].index = k /\ wait[q][d] = "member"
      BY DEF DiscoveryInv, Inspected
    <3>5. picker'[q].mount # 0 /\ picker'[q].index = k /\ wait'[q][d] = "member"
      BY <3>2, <3>4 DEF foldFrame
    <3>6. Reached(job[k][d].revision, job[k][d].mount, d)'
      BY <3>1, <3>3 DEF Reached, foldFrame, storeVars
    <3> QED BY <3>1, <3>3, <3>5, <3>6 DEF Inspected
  <2> QED BY <2>1, <2>2
<1>14. Stores'
  <2>1. ASSUME NEW k \in Indexes, NEW m \in Mounts, OfStore(k, m) PROVE OfStore(k, m)'
    <3>1. \A d \in Chats : job'[k][d] # Absent => job'[k][d] = job[k][d]
      BY <1>7
    <3>2. \A d \in Chats : d \notin OwnChats => seen'[k][d].mount \in {0, m}
      <4>1. k = i => j.read.mount \in {0, m}
        BY <2>1 DEF OfStore
      <4> QED BY <1>4, <2>1, <4>1 DEF OfStore
    <3> QED BY <2>1, <3>1, <3>2 DEF OfStore, foldFrame, indexVars
  <2>2. ASSUME NEW k \in Indexes, k > index, Unused(k) PROVE Unused(k)'
    <3>1. k # i
      BY <2>2 DEF Unused
    <3> QED BY <1>4, <1>7, <2>2, <3>1 DEF Unused
  <2> QED BY <1>1, <2>1, <2>2 DEF DiscoveryInv, Stores, foldFrame, indexVars, storeVars
<1>15. RowsAreCurrent'
  <2> SUFFICES ASSUME NEW q \in Pickers, NEW d \in Chats, wait'[q][d] = "served"
               PROVE  /\ row'[q][d].mount = picker[q].mount \/ d \in OwnChats
                      /\ row'[q][d].version >= picker[q].listed[d]
    BY DEF RowsAreCurrent, foldFrame
  <2>1. CASE d = c /\ wait[q][c] # "served"
    <3>1. /\ picker[q].index = i /\ wait[q][c] = "member" /\ outcome = "read"
          /\ row'[q][c] = seen'[i][c]
      BY <1>5, <1>6, <2>1
    <3>2. row'[q][c] = j.read /\ j.revision = picker[q].listed[c]
      BY <1>4, <3>1 DEF DiscoveryInv, Waiting
    <3>3. j.read.version >= j.revision /\ j.read.mount # 0
      BY <1>2, <3>1
    <3>4. j.read.mount = picker[q].mount
      <4>1. PICK m \in Mounts : OfStore(i, m)
        BY <1>1 DEF DiscoveryInv, Stores
      <4>2. picker[q].mount # 0
        BY <3>1 DEF DiscoveryInv, Picked
      <4> QED BY <3>1, <3>3, <4>1, <4>2 DEF OfStore
    <3> QED BY <2>1, <3>2, <3>3, <3>4
  <2>2. CASE d # c \/ wait[q][c] = "served"
    BY <1>5, <1>6, <2>2 DEF DiscoveryInv, RowsAreCurrent
  <2> QED BY <2>1, <2>2
<1> QED BY <1>8, <1>9, <1>10, <1>11, <1>12, <1>13, <1>14, <1>15, ListedStays DEF DiscoveryInv

\* A phase that is entered with nothing read
LEMMA UnreadKeeps ==
    ASSUME DiscoveryInv, NEW i \in Indexes, NEW c \in Chats, job[i][c] # Absent,
           NEW phase \in {"opening", "open", "closing"},
           JobGoes(i, c, phase, Unread), UNCHANGED <<foldFrame, endVars>>
    PROVE  DiscoveryInv'
<1>1. Unread \in Contents /\ Unread.mount = 0 /\ Unread.version = 0
  BY DiscoveryFacts DEF Unread
<1> QED BY <1>1, GoesKeeps

LEMMA FoldKeeps ==
    ASSUME DiscoveryInv, NEW i \in Indexes, NEW c \in Chats,
           OpenLog(i, c) \/ Opened(i, c) \/ ReadLog(i, c) \/ CloseLog(i, c)
    PROVE  DiscoveryInv'
<1> USE DiscoveryFacts
<1>1. job[i][c] # Absent /\ UNCHANGED foldFrame
  BY DEF OpenLog, Opened, ReadLog, CloseLog, JobAt, FoldFrame, foldFrame
<1>2. /\ job[i][c].mount \in Mounts /\ job[i][c].revision \in Versions
      /\ Reached(job[i][c].revision, job[i][c].mount, c)
      /\ disk[job[i][c].mount][c] \in Versions
      /\ Unread \in Contents /\ Unread.mount = 0 /\ Unread.version = 0
  <2>1. job[i][c] \in Inspections /\ Reached(job[i][c].revision, job[i][c].mount, c)
    BY <1>1, JobIsWanted DEF DiscoveryInv, Inspected
  <2>2. job[i][c].mount \in Mounts /\ job[i][c].revision \in Versions
    BY <2>1 DEF Inspections
  <2> QED BY <2>1, <2>2, DiscoveryTyped DEF DiscoveryInv, Unread
<1>3. CASE OpenLog(i, c)
  <2>1. UNCHANGED endVars
    BY <1>3 DEF OpenLog, FoldFrame
  <2>2. CASE JobGoes(i, c, "opening", Unread)
    BY <1>1, <2>1, <2>2, UnreadKeeps
  <2>3. CASE JobOver(i, c, "failed")
    BY <1>1, <2>1, <2>3, OverKeeps DEF endVars
  <2> QED BY <1>3, <2>2, <2>3 DEF OpenLog
<1>4. CASE Opened(i, c)
  <2>1. UNCHANGED endVars
    BY <1>4 DEF Opened, FoldFrame
  <2>2. CASE JobGoes(i, c, "open", Unread)
    BY <1>1, <2>1, <2>2, UnreadKeeps
  <2>3. CASE JobOver(i, c, "failed")
    BY <1>1, <2>1, <2>3, OverKeeps DEF endVars
  <2>4. CASE JobOver(i, c, "unavailable")
    BY <1>1, <2>1, <2>4, OverKeeps DEF endVars
  <2> QED BY <1>4, <2>2, <2>3, <2>4 DEF Opened
<1>5. CASE ReadLog(i, c)
  <2> DEFINE content == [mount |-> job[i][c].mount, version |-> disk[job[i][c].mount][c]]
  <2>1. UNCHANGED endVars
    BY <1>5 DEF ReadLog, FoldFrame
  <2>2. CASE JobGoes(i, c, "closing", Unread)
    BY <1>1, <2>1, <2>2, UnreadKeeps
  <2>3. CASE JobGoes(i, c, "closing", content)
    <3>1. /\ content \in Contents /\ content.mount = job[i][c].mount /\ content.mount # 0
          /\ content.version = disk[job[i][c].mount][c]
      BY <1>2 DEF Contents
    <3> HIDE DEF content
    <3>2. content.version > 0 => content.version >= job[i][c].revision
      BY <1>2, <3>1 DEF Reached
    <3> QED BY <1>1, <2>1, <2>3, <3>1, <3>2, GoesKeeps
  <2> QED BY <1>5, <2>2, <2>3 DEF ReadLog
<1>6. CASE CloseLog(i, c)
  <2>1. reader' = reader /\ discovery' \in {discovery, "failing"}
    BY <1>6 DEF CloseLog, endVars
  <2>2. PICK outcome \in {"read", "unavailable", "failed"} :
            JobOver(i, c, outcome) /\ (outcome = "read" => job[i][c].read.version > 0)
    BY <1>6 DEF CloseLog
  <2> QED BY <1>1, <2>1, <2>2, OverKeeps
<1> QED BY <1>3, <1>4, <1>5, <1>6

-----------------------------------------------------------------------------
(* Discovery: what pickers are told *)

LEMMA DiscoveryStays == DiscoveryInv /\ [NextDiscovery]_discoveryVars => DiscoveryInv'
<1> SUFFICES ASSUME DiscoveryInv, [NextDiscovery]_discoveryVars PROVE DiscoveryInv'
  OBVIOUS
<1>1. CASE World
  <2>1. CASE \E c \in Chats : Announce(c) \/ Flush(c) \/ Write(c)
    BY <2>1, StoreKeeps
  <2>2. CASE \E c \in Chats : Event(c)
    BY <2>2, EventKeeps
  <2>3. CASE Remount \/ ReuseEnds
    <3>1. Untouched /\ UNCHANGED <<reader, discovery>> /\ Grows
      BY <2>3, LogsStay DEF Remount, ReuseEnds, Untouched, listVars, foldVars, endVars, storeVars
    <3>2. /\ reuse' = Absent \/ (reuse' = reuse /\ announced' = announced)
          /\ mount' \in Mounts /\ mount' >= mount /\ announced' \subseteq OwnChats
      BY <2>3, DiscoveryFacts, DiscoveryTyped DEF DiscoveryInv, Remount, ReuseEnds, listVars,
         storeVars, Mounts
    <3> QED BY <3>1, <3>2, UntouchedKeeps
  <2>4. CASE InspectCold \/ AbortReader
    BY <2>4, ReadersKeep
  <2>5. CASE DisposeDiscovery
    BY <2>5, DisposalKeeps
  <2>6. CASE \E p \in Pickers : Ask(p)
    BY <2>6, AskKeeps
  <2> QED BY <1>1, <2>1, <2>2, <2>3, <2>4, <2>5, <2>6 DEF World
<1>2. CASE Work
  <2>1. CASE \E m \in Mounts : StoreLists(m) \/ ListSettles(m) \/ ListFails(m)
    BY <2>1, StoreListsKeeps, ListSettlesKeeps, ListFailsKeeps
  <2>2. CASE \E p \in Pickers : Finish(p) \/ \E c \in Chats : Inspect(p, c)
    BY <2>2, FinishKeeps, InspectKeeps
  <2>3. CASE \E i \in Indexes, c \in Chats :
                OpenLog(i, c) \/ Opened(i, c) \/ ReadLog(i, c) \/ CloseLog(i, c)
    BY <2>3, FoldKeeps
  <2>4. CASE ReaderOpened \/ ReaderReads \/ ReaderCloses
    BY <2>4, ReadersKeep
  <2>5. CASE DisposalSettles
    BY <2>5, DisposalKeeps
  <2> QED BY <1>2, <2>1, <2>2, <2>3, <2>4, <2>5 DEF Work
<1>3. CASE UNCHANGED discoveryVars
  <2>1. /\ Untouched /\ UNCHANGED <<reader, discovery>> /\ Grows
        /\ reuse' = reuse /\ announced' = announced /\ mount' = mount
    BY <1>3, LogsStay DEF discoveryVars, Untouched, listVars, foldVars, endVars, storeVars
  <2>2. mount' \in Mounts /\ mount' >= mount /\ announced' \subseteq OwnChats
    <3>1. mount \in Mounts /\ mount \in Nat /\ announced \subseteq OwnChats
      BY DiscoveryFacts DEF DiscoveryInv, DiscoveryTypeOK
    <3> QED BY <2>1, <3>1
  <2> QED BY <2>1, <2>2, UntouchedKeeps
<1> QED BY <1>1, <1>2, <1>3 DEF NextDiscovery

\* The variables of discovery keep their types: a shared listing is of the store that
\* it is shared for, an inspection has one of four phases, and a picker's rows are of
\* sessions (session-discovery.ts, session-list.ts).
THEOREM DiscoveryTypes == SpecDiscovery => []DiscoveryTypeOK
<1>1. DiscoveryInv => DiscoveryTypeOK
  BY DEF DiscoveryInv
<1> QED BY DiscoveryStarts, DiscoveryStays, <1>1, PTL DEF SpecDiscovery

\* Whatever listings and inspections pickers share, and whatever is written, remounted
\* or disposed of meanwhile: a row is of the store that was listed and no older than
\* the listing said, a reused listing has every session that was announced, and a
\* disposal that has ended left no handle of the store (session-discovery.ts,
\* session-list.ts).
THEOREM ListsAreTrue == SpecDiscovery => []ListsTellTruly
<1>1. DiscoveryInv => ListsTellTruly
  <2> SUFFICES ASSUME DiscoveryInv PROVE ListsTellTruly
    OBVIOUS
  <2>1. RowsAreCurrent /\ ReuseIsCurrent
    BY DEF DiscoveryInv, Listed, ReuseIsCurrent
  <2>2. NoHandleLeft
    <3> SUFFICES ASSUME discovery \in {"disposed", "failed"}
                 PROVE  /\ reader \in {"idle", "served", "failed"}
                        /\ \A i \in Indexes, c \in Chats : job[i][c] = Absent
      BY DEF NoHandleLeft
    <3>1. reader \in {"idle", "served", "failed"}
      BY DEF DiscoveryInv, DiscoveryTypeOK, Ended, Pending, ReaderBusy
    <3>2. \A i \in Indexes, c \in Chats : job[i][c] = Absent
      BY JobIsWanted
    <3> QED BY <3>1, <3>2
  <2> QED BY <2>1, <2>2 DEF ListsTellTruly
<1> QED BY DiscoveryStarts, DiscoveryStays, <1>1, PTL DEF SpecDiscovery

-----------------------------------------------------------------------------
(* The command list of a session: the inductive invariant *)

Catalogs == [at : {"none", "accepted", "presets", "skills"}, dirty : BOOLEAN,
             commands : Nat, skills : Nat, team : Nat]

CommandsTyping ==
    /\ changes \in 0..MaxChanges /\ commands \in Nat /\ skills \in Nat
    /\ commands + skills <= changes
    /\ abilities \in 0..1
    /\ refresh \in Catalogs
    /\ line \in [Lines -> {"idle", "running", "cancelled", "settled", "refused"}]

\* A read that will be published has seen every change that was announced, and
\* of the tools those that have been looked at.
ReadsAreRecent ==
    refresh.at = "skills" /\ ~refresh.dirty /\ CommandsActive =>
        /\ refresh.commands = commands /\ refresh.skills = skills
        /\ refresh.team = abilities \/ toolCheck

CommandInv == CommandsTyping /\ ReadsAreRecent

LEMMA FreshCatalogs ==
    /\ NoCatalog \in Catalogs /\ NoCatalog.at = "none"
    /\ \A step \in {"accepted", "presets"} :
        /\ [NoCatalog EXCEPT !.at = step] \in Catalogs
        /\ [NoCatalog EXCEPT !.at = step].at = step
<1>1. NoCatalog \in Catalogs
  BY DEF NoCatalog, Catalogs
<1>2. NoCatalog.at = "none"
  BY DEF NoCatalog
<1> QED BY <1>1, <1>2 DEF Catalogs

LEMMA CommandsStart == InitCommands => CommandInv
<1> SUFFICES ASSUME InitCommands PROVE CommandInv
  OBVIOUS
<1>1. refresh \in Catalogs /\ refresh.at # "skills"
  BY FreshCatalogs DEF InitCommands
<1>2. CommandsTyping
  BY <1>1, CommandsAssumption DEF InitCommands, CommandsTyping
<1> QED BY <1>1, <1>2 DEF CommandInv, ReadsAreRecent

LEMMA Asked ==
    ASSUME CommandsTyping, AskCatalog
    PROVE  /\ refresh' \in Catalogs
           /\ refresh'.at = "skills" /\ commandOwner = "open" => refresh'.dirty
           /\ refresh'.at = refresh.at \/ refresh'.at = "accepted"
  BY FreshCatalogs, CommandsAssumption DEF CommandsTyping, AskCatalog, Catalogs

LEMMA CommandsStay == CommandInv /\ [NextCommands]_commandVars => CommandInv'
<1> SUFFICES ASSUME CommandInv, [NextCommands]_commandVars PROVE CommandInv'
  OBVIOUS
<1> USE DEF CommandInv
<1>1. CASE UNCHANGED commandVars
  BY <1>1 DEF commandVars, CommandsTyping, ReadsAreRecent, CommandsActive
<1>2. CASE CatalogStarts
  <2>1. refresh' \in Catalogs /\ refresh'.at # "skills"
    BY <1>2, FreshCatalogs DEF CatalogStarts
  <2> QED BY <1>2, <2>1 DEF CatalogStarts, CommandsTyping, ReadsAreRecent, Registries
<1>3. CASE PresetsListed
  <2>1. refresh' = [at |-> "skills", dirty |-> refresh.dirty, commands |-> commands,
                    skills |-> skills, team |-> abilities]
    BY <1>3 DEF PresetsListed, CommandsTyping, Catalogs
  <2>2. refresh' \in Catalogs
    BY <2>1 DEF CommandsTyping, Catalogs
  <2> QED BY <1>3, <2>1, <2>2 DEF PresetsListed, CommandsTyping, ReadsAreRecent, Registries
<1>4. CASE SkillsListed
  <2>1. refresh' \in Catalogs /\ refresh'.at # "skills"
    BY <1>4, FreshCatalogs DEF SkillsListed
  <2> QED BY <1>4, <2>1 DEF SkillsListed, CommandsTyping, ReadsAreRecent, Registries
<1>5. CASE CatalogFails
  <2>1. refresh' \in Catalogs /\ refresh'.at # "skills"
    BY <1>5, FreshCatalogs DEF CatalogFails
  <2> QED BY <1>5, <2>1 DEF CatalogFails, CommandsTyping, ReadsAreRecent, Registries
<1>6. CASE CommandsChange \/ SkillsChange
  <2>1. CASE commandSession = "live"
    BY <1>6, <2>1, Asked, CommandsAssumption DEF CommandsChange, SkillsChange, OneChange,
       TellSessions, CommandsTyping, ReadsAreRecent, CommandsActive, Owners
  <2>2. CASE commandSession # "live"
    BY <1>6, <2>2, CommandsAssumption DEF CommandsChange, SkillsChange, OneChange,
       TellSessions, CommandsTyping, ReadsAreRecent, CommandsActive, Owners
  <2> QED BY <2>1, <2>2
<1>7. CASE ToolsChange
  BY <1>7, CommandsAssumption DEF ToolsChange, OneChange, CommandsTyping, ReadsAreRecent,
     CommandsActive, Owners
<1>8. CASE CheckTools
  <2>1. CASE CommandsActive /\ (refresh.at # "none" \/ advertised # abilities)
    BY <1>8, <2>1, Asked DEF CheckTools, CommandsTyping, ReadsAreRecent, CommandsActive,
       Owners, Registries
  <2>2. CASE ~(CommandsActive /\ (refresh.at # "none" \/ advertised # abilities))
    BY <1>8, <2>2 DEF CheckTools, CommandsTyping, ReadsAreRecent, CommandsActive, Owners,
       Registries
  <2> QED BY <2>1, <2>2
<1>9. CASE \E x \in Lines : AskLine(x) \/ CancelLine(x)
  BY <1>9 DEF AskLine, CancelLine, LineAt, CommandsTyping, ReadsAreRecent, CommandsActive,
     Owners, Registries
<1>10. CASE \E x \in Lines : LineReturns(x)
  <2>1. PICK x \in Lines : LineReturns(x)
    BY <1>10
  <2>2. CASE x \in Switching
    BY <2>1, <2>2, Asked DEF LineReturns, LineAt, CommandsTyping, ReadsAreRecent,
       CommandsActive, Owners
  <2>3. CASE x \notin Switching
    BY <2>1, <2>3 DEF LineReturns, LineAt, CommandsTyping, ReadsAreRecent, CommandsActive,
       Owners
  <2> QED BY <2>2, <2>3
<1>11. CASE \E x \in Lines : LineRefused(x)
  BY <1>11 DEF LineRefused, LineAt, CommandsTyping, ReadsAreRecent, CommandsActive, Owners
<1>12. CASE \/ CloseCommandSession \/ ClientGone \/ DisposeCommands \/ CommandsDisposed
  BY <1>12 DEF CloseCommandSession, ClientGone, DisposeCommands, CommandsDisposed,
     CommandsTyping, ReadsAreRecent, CommandsActive, Registries
<1> QED BY <1>1, <1>2, <1>3, <1>4, <1>5, <1>6, <1>7, <1>8, <1>9, <1>10, <1>11, <1>12
        DEF NextCommands, CommandWork

\* Every variable of the command lists keeps its type.
THEOREM CommandTypes == CommandSteps => []CommandsTypeOK
<1>1. CommandInv => CommandsTypeOK
  BY CommandsAssumption DEF CommandInv, CommandsTyping, CommandsTypeOK, Catalogs
<1> QED BY CommandsStart, CommandsStay, <1>1, PTL DEF CommandSteps

-----------------------------------------------------------------------------
(* What is published *)

\* PublishesNow: the menu that refresh() publishes is what the registries hold at
\* that moment, whatever changed while it was read; only /team may be as it was
\* before a change of tools that is still to be looked at.
THEOREM MenusAreOfOneMoment == CommandSteps => PublishesNow
<1> DEFINE Now == menu' # menu =>
        \/ menu' = Registered
        \/ toolCheck /\ menu' = [Registered EXCEPT !.team = menu'.team]
<1>1. CommandInv /\ [NextCommands]_commandVars => [Now]_commandVars
  <2> SUFFICES ASSUME CommandInv, NextCommands, menu' # menu PROVE Now
    OBVIOUS
  <2>1. SkillsListed
    BY DEF NextCommands, CommandWork, CatalogStarts, PresetsListed, CatalogFails, CheckTools,
       LineReturns, LineRefused, CommandsDisposed, CommandsChange, SkillsChange, ToolsChange,
       AskLine, CancelLine, CloseCommandSession, ClientGone, DisposeCommands, Shown
  <2>2. /\ refresh.commands = commands /\ refresh.skills = skills
        /\ refresh.team = abilities \/ toolCheck
    BY <2>1 DEF SkillsListed, Shown, CommandInv, ReadsAreRecent
  <2>3. \A s \in refresh.skills..skills : s = skills
    BY <2>2 DEF CommandInv, CommandsTyping
  <2>4. menu' = [commands |-> commands, skills |-> skills, team |-> refresh.team,
                 abilities |-> abilities]
    BY <2>1, <2>2, <2>3 DEF SkillsListed, Shown
  <2> QED BY <2>2, <2>4 DEF Registered
<1> QED BY CommandsStart, CommandsStay, <1>1, PTL DEF CommandSteps, PublishesNow
==============================================================================
