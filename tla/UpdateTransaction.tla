------------------------- MODULE UpdateTransaction -------------------------
(***************************************************************************)
(* The update of an installed profile: bridge/grok-leader/bin/update.mjs.  *)
(* Processes stage a release beside the profile, take the profile lock,    *)
(* recover what an earlier one left, and move each entry of the profile to *)
(* a backup and its replacement into place, under a journal.  Any call may *)
(* fail, any process may be killed and the machine may lose power between  *)
(* any two calls.                                                          *)
(*                                                                         *)
(* A rename and a journal write (write, flush, rename) are atomic.  What   *)
(* was written without a flush is torn by a loss of power.                 *)
(***************************************************************************)
EXTENDS Naturals

CONSTANTS
    Procs,          \* processes that take the profile lock
    Updates,        \* those that install a release; the others edit Edited
    N,              \* the number of entries of the transaction
    Old,            \* the contents of the entries at first
    New,            \* the contents that a process stages; None deletes
    Edited,         \* the entry that other processes write
    JournalSyncFails, \* may the sync after the rename of a journal fail?
    None, Torn

Entries == 1..N

Contents == {Old[e] : e \in Entries} \cup {New[p][e] : p \in Procs, e \in Entries}

ASSUME UpdateAssumption ==
    /\ Updates \subseteq Procs
    /\ N \in Nat
    /\ Old \in [Entries -> Contents]
    /\ New \in [Procs -> [Entries -> Contents]]
    /\ Edited \in Entries
    /\ \A p \in Procs \ Updates : New[p][Edited] # None
    \* a content is named after who wrote it
    /\ \A p \in Updates, e, f \in Entries : New[p][e] # None =>
        /\ New[p][e] # Old[f]
        /\ \A q \in Procs \ {p} : New[p][e] # New[q][f]
    /\ JournalSyncFails \in BOOLEAN
    /\ None \notin Procs /\ Torn \notin Contents /\ Torn # None

VARIABLES
    active,         \* the entries of the profile
    prepared,       \* stage/profile of a process
    backup,         \* stage/backup
    existed,        \* entries[].existed of a journal
    journal,        \* transaction.state of a stage, "none" without a stage
    synced,         \* processes whose staged tree is flushed
    pc,
    lock,           \* the process with the profile lock
    target,         \* the stage that the lock owner rolls back
    step            \* the entry that the lock owner is at

stages == <<prepared, backup, existed, journal, synced>>
vars == <<active, stages, pc, lock, target, step>>

Empty == [e \in Entries |-> None]

\* Process states that own the profile lock.
Held == {"recovering", "undoing", "action", "prepared", "synced", "moving"}

Goto(p, state) == pc' = [pc EXCEPT ![p] = state]

\* The action under the lock is over; closeSync() releases it.
Unlock(p) == lock' = None /\ Goto(p, "leaving")

Alive(p) == pc[p] \notin {"dead", "done"}

IsPending(s) == journal[s] = "pending"

----------------------------------------------------------------------------
\* Staging, outside the lock.

\* mkdtemp: a stage without a journal.
Stage(p) ==
    /\ pc[p] = "idle" /\ p \in Updates
    /\ journal' = [journal EXCEPT ![p] = "blank"]
    /\ Goto(p, "staging")
    /\ UNCHANGED <<active, prepared, backup, existed, synced, lock, target, step>>

\* The download takes place under the journal state "preparing".
JournalPreparing(p) ==
    /\ pc[p] = "staging"
    /\ journal' = [journal EXCEPT ![p] = "preparing"]
    /\ Goto(p, "waiting")
    /\ UNCHANGED <<active, prepared, backup, existed, synced, lock, target, step>>

\* Another user of the lock: the launcher, the saved channel, a reset.
Wait(p) ==
    /\ pc[p] = "idle" /\ p \notin Updates
    /\ Goto(p, "waiting")
    /\ UNCHANGED <<active, stages, lock, target, step>>

\* withProfileLock
Acquire(p) ==
    /\ pc[p] = "waiting" /\ lock = None
    /\ lock' = p
    /\ Goto(p, "recovering")
    /\ UNCHANGED <<active, stages, target, step>>

\* The download fails, or the wait for the lock ends.
GiveUp(p) ==
    /\ pc[p] = "waiting"
    /\ Goto(p, "leaving")
    /\ UNCHANGED <<active, stages, lock, target, step>>

----------------------------------------------------------------------------
\* recoverInstallations, and rollback.

\* Mutant: a pending stage is left alone while its process is alive.
RecoverableIfDead(s) == IsPending(s) /\ ~Alive(s)

Recoverable(s) == IsPending(s)

Rollback(p, s) ==
    /\ target' = s /\ step' = N
    /\ Goto(p, "undoing")
    /\ UNCHANGED <<active, stages, lock>>

Recover(p) ==
    /\ pc[p] = "recovering"
    /\ \E s \in Updates : Recoverable(s) /\ Rollback(p, s)

ForgetStage(s) ==
    /\ journal' = [journal EXCEPT ![s] = "none"]
    /\ backup' = [backup EXCEPT ![s] = Empty]
    /\ prepared' = [prepared EXCEPT ![s] = Empty]
    /\ UNCHANGED <<existed, synced>>

\* A stage that needs no rollback, or one of a dead process, is removed.
RemoveStage(p) ==
    /\ pc[p] = "recovering"
    /\ \E s \in Updates :
        /\ \/ journal[s] \in {"committed", "rolledBack"}
           \/ journal[s] = "preparing" /\ ~Alive(s)
        /\ ForgetStage(s)
    /\ UNCHANGED <<active, pc, lock, target, step>>

Recovered(p) ==
    /\ pc[p] = "recovering"
    /\ \A s \in Updates :
        ~Recoverable(s) /\ journal[s] \notin {"committed", "rolledBack"}
    /\ Goto(p, "action")
    /\ UNCHANGED <<active, stages, lock, target, step>>

\* rm -r of an entry, which may be seen half done.
Removing(e) ==
    \E rest \in {None, Torn} :
        active[e] \notin {None, rest} /\ active' = [active EXCEPT ![e] = rest]

\* One entry of the rollback: the backup replaces what is in place; an entry
\* that did not exist is removed; an entry that was not moved stays.
UndoEntry(p) ==
    LET saved == backup[target][step]
        did == existed[target][step]
    IN
    /\ pc[p] = "undoing" /\ step > 0
    /\ \/ /\ saved # None \/ ~did
          /\ Removing(step)
          /\ UNCHANGED <<step, backup>>
       \/ /\ active[step] = None /\ saved # None
          /\ active' = [active EXCEPT ![step] = saved]
          /\ backup' = [backup EXCEPT ![target][step] = None]
          /\ step' = step - 1
       \/ /\ saved = None /\ did = (active[step] # None)
          /\ step' = step - 1
          /\ UNCHANGED <<active, backup>>
    /\ UNCHANGED <<prepared, existed, journal, synced, pc, lock, target>>

\* The journal says so; a process that rolled back its own stage leaves.
Undone(p) ==
    /\ pc[p] = "undoing" /\ step = 0
    /\ journal' = [journal EXCEPT ![target] = "rolledBack"]
    /\ IF target = p THEN Unlock(p) ELSE Goto(p, "recovering") /\ UNCHANGED lock
    /\ UNCHANGED <<active, prepared, backup, existed, synced, target, step>>

\* Any call under the lock may fail before the transaction is pending, and
\* during a rollback, which stays pending.
Fail(p) ==
    /\ pc[p] \in {"recovering", "undoing", "action", "prepared", "synced"}
    /\ Unlock(p)
    /\ UNCHANGED <<active, stages, target, step>>

----------------------------------------------------------------------------
\* The action under the lock.

\* atomicWrite of one entry.
Edit(p) ==
    /\ pc[p] = "action" /\ p \notin Updates
    /\ active' = [active EXCEPT ![Edited] = New[p][Edited]]
    /\ Unlock(p)
    /\ UNCHANGED <<stages, target, step>>

\* The staged profile is completed from the active one.
Prepare(p) ==
    /\ pc[p] = "action" /\ p \in Updates
    /\ prepared' = [prepared EXCEPT ![p] = New[p]]
    /\ Goto(p, "prepared")
    /\ UNCHANGED <<active, backup, existed, journal, synced, lock, target, step>>

\* syncTrees
Sync(p) ==
    /\ pc[p] = "prepared"
    /\ synced' = synced \cup {p}
    /\ Goto(p, "synced")
    /\ UNCHANGED <<active, prepared, backup, existed, journal, lock, target, step>>

\* The journal is pending before the first move.  If the write fails after its
\* rename the stage stays for the next lock owner.
Begin(p) ==
    /\ pc[p] = "synced"
    /\ journal' = [journal EXCEPT ![p] = "pending"]
    /\ existed' = [existed EXCEPT ![p] = [e \in Entries |-> active[e] # None]]
    /\ step' = 1
    /\ \/ Goto(p, "moving") /\ UNCHANGED lock
       \/ JournalSyncFails /\ Unlock(p)
    /\ UNCHANGED <<active, prepared, backup, synced, target>>

MovedOut(p) == existed[p][step] => backup[p][step] # None

MoveOut(p) ==
    /\ pc[p] = "moving" /\ step <= N
    /\ ~MovedOut(p)
    /\ backup' = [backup EXCEPT ![p][step] = active[step]]
    /\ active' = [active EXCEPT ![step] = None]
    /\ UNCHANGED <<prepared, existed, journal, synced, pc, lock, target, step>>

\* Mutant: a replacement overwrites an entry without a backup.
MoveInOver(p) ==
    /\ pc[p] = "moving" /\ step <= N
    /\ active' = [active EXCEPT ![step] = prepared[p][step]]
    /\ prepared' = [prepared EXCEPT ![p][step] = None]
    /\ step' = step + 1
    /\ UNCHANGED <<backup, existed, journal, synced, pc, lock, target>>

\* An entry without a replacement is a deletion.
MoveIn(p) ==
    /\ pc[p] = "moving" /\ step <= N
    /\ MovedOut(p)
    /\ active' = [active EXCEPT ![step] = prepared[p][step]]
    /\ prepared' = [prepared EXCEPT ![p][step] = None]
    /\ step' = step + 1
    /\ UNCHANGED <<backup, existed, journal, synced, pc, lock, target>>

Commit(p) ==
    /\ pc[p] = "moving" /\ step > N
    /\ journal' = [journal EXCEPT ![p] = "committed"]
    /\ Unlock(p)
    /\ UNCHANGED <<active, prepared, backup, existed, synced, target, step>>

\* A failed move, or a failed write of the committed journal.  The write may
\* fail after its rename.
CommitFails(p) ==
    /\ pc[p] = "moving"
    /\ target' = p /\ step' = N
    /\ Goto(p, "undoing")
    /\ \/ UNCHANGED journal
       \/ /\ JournalSyncFails /\ step > N
          /\ journal' = [journal EXCEPT ![p] = "committed"]
    /\ UNCHANGED <<active, prepared, backup, existed, synced, lock>>

\* Mutant: the stage is removed whatever its journal says.
LeaveNothing(p) ==
    /\ pc[p] = "leaving"
    /\ Goto(p, "done")
    /\ IF p \in Updates THEN ForgetStage(p) ELSE UNCHANGED stages
    /\ UNCHANGED <<active, lock, target, step>>

\* The finally of installRelease: a pending stage is kept.
Leave(p) ==
    /\ pc[p] = "leaving"
    /\ Goto(p, "done")
    /\ IF p \in Updates /\ journal[p] \in {"preparing", "committed", "rolledBack"}
       THEN ForgetStage(p) ELSE UNCHANGED stages
    /\ UNCHANGED <<active, lock, target, step>>

----------------------------------------------------------------------------
\* The process dies; the system drops its lock.
Kill(p) ==
    /\ pc[p] \notin {"idle", "done", "dead"}
    /\ Goto(p, "dead")
    /\ lock' = IF lock = p THEN None ELSE lock
    /\ UNCHANGED <<active, stages, target, step>>

\* The machine stops: every process dies, and what was not flushed is torn.
Unflushed == {New[p][e] : p \in Updates \ synced, e \in Entries} \ {None}

AfterLoss(tree) ==
    [e \in Entries |-> IF tree[e] \in Unflushed THEN Torn ELSE tree[e]]

PowerLoss ==
    /\ \E p \in Procs : pc[p] \notin {"idle", "done", "dead"}
    /\ pc' = [p \in Procs |-> IF pc[p] \in {"idle", "done"} THEN pc[p] ELSE "dead"]
    /\ lock' = None
    /\ active' = AfterLoss(active)
    /\ prepared' = [p \in Updates |-> AfterLoss(prepared[p])]
    /\ UNCHANGED <<backup, existed, journal, synced, target, step>>

----------------------------------------------------------------------------
Init ==
    /\ active = Old
    /\ prepared = [p \in Updates |-> Empty]
    /\ backup = [p \in Updates |-> Empty]
    /\ existed = [p \in Updates |-> [e \in Entries |-> FALSE]]
    /\ journal = [p \in Updates |-> "none"]
    /\ synced = {}
    /\ pc = [p \in Procs |-> "idle"]
    /\ lock = None /\ target = None /\ step = 0

LockStep(p) ==
    \/ Recover(p) \/ RemoveStage(p) \/ Recovered(p) \/ UndoEntry(p) \/ Undone(p)
    \/ Fail(p) \/ Edit(p) \/ Prepare(p) \/ Sync(p) \/ Begin(p)
    \/ MoveOut(p) \/ MoveIn(p) \/ Commit(p) \/ CommitFails(p)

OutsideStep(p) ==
    \/ Stage(p) \/ JournalPreparing(p) \/ Wait(p) \/ Acquire(p) \/ GiveUp(p)
    \/ Leave(p)

Next ==
    \/ \E p \in Procs : LockStep(p) \/ OutsideStep(p) \/ Kill(p)
    \/ PowerLoss

Spec == Init /\ [][Next]_vars

----------------------------------------------------------------------------
Journals == {"none", "blank", "preparing", "pending", "committed", "rolledBack"}

\* Type invariant.
TypeOK ==
    /\ active \in [Entries -> Contents \cup {None, Torn}]
    /\ prepared \in [Updates -> [Entries -> Contents \cup {None, Torn}]]
    /\ backup \in [Updates -> [Entries -> Contents \cup {None, Torn}]]
    /\ existed \in [Updates -> [Entries -> BOOLEAN]]
    /\ journal \in [Updates -> Journals]
    /\ synced \subseteq Updates
    /\ pc \in [Procs -> Held \cup {"idle", "staging", "waiting", "leaving", "done", "dead"}]
    /\ lock \in Procs \cup {None}
    /\ \A p \in Procs : pc[p] \in Held <=> lock = p
    /\ \A p \in Procs :
        pc[p] \in {"staging", "prepared", "synced", "moving"} => p \in Updates
    /\ target \in Updates \cup {None}
    /\ step \in 0..N + 1

\* What the profile is, once the pending transaction is rolled back.
Restored(s) ==
    [e \in Entries |->
        IF backup[s][e] # None THEN backup[s][e]
        ELSE IF existed[s][e] THEN active[e] ELSE None]

Installed ==
    IF \E s \in Updates : IsPending(s)
    THEN Restored(CHOOSE s \in Updates : IsPending(s))
    ELSE active

Promise == INSTANCE AtomicInstall WITH installed <- Installed

\* The transaction keeps the promise of an atomic installation.
InstallsAtomically == Promise!Spec

\* Only one transaction is ever to be rolled back, and only the lock owner is
\* in the middle of one.
OneTransaction ==
    /\ \A s, t \in Updates : IsPending(s) /\ IsPending(t) => s = t
    /\ \A p \in Procs : pc[p] = "moving" => IsPending(p)

\* What runs under the lock sees a whole installation.
ActionSeesWhole ==
    \A p \in Procs : pc[p] \in {"action", "prepared", "synced"} =>
        \A s \in Updates : ~IsPending(s)

\* The transaction excludes the others and what runs under the lock.
Exclusive == OneTransaction /\ ActionSeesWhole

\* A rollback always has what it needs: an entry that existed is in place or
\* in the backup.
BackupComplete ==
    \A s \in Updates : IsPending(s) =>
        \A e \in Entries : existed[s][e] => backup[s][e] # None \/ active[e] # None

\* No loss of power leaves a torn entry in the installation.
NeverTorn == \A e \in Entries : Installed[e] # Torn

\* Killed or without power at any step, the installation is whole or can be made
\* whole from the backup.
AlwaysRepairable == BackupComplete /\ NeverTorn

\* "A failed rollback can leave the only good copy here. The next lock owner
\* recovers it" (update.mjs:535): an entry that no release deletes is in place
\* or in a backup.
OnlyCopyKept ==
    \A e \in Entries :
        Old[e] # None /\ (\A p \in Updates : New[p][e] # None) =>
            active[e] # None \/ \E s \in Updates : backup[s][e] # None
=============================================================================
