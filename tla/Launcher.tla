------------------------------- MODULE Launcher -------------------------------
(* The launcher: its stable entry point (bootstrap.mjs), a launch, an upgrade  *)
(* and an uninstall (dscode.mjs), and the link that leads to them              *)
(* (launcher-files.mjs), in processes that may be killed.                      *)
(*                                                                             *)
(* Releases are numbers.  What UpdateTransaction details is one step here:     *)
(* the staging of a release, its rollback, and the recovery that whoever gets  *)
(* the lock does first.                                                        *)
EXTENDS Naturals, Sequences

CONSTANTS
    Launches, Upgrades, Removals,   \* processes: dscode, its update, its uninstall
    Packaged,       \* the release of the package that npx runs
    Latest,         \* the release that an upgrade installs
    Dev,            \* the version of a TUI that was built here
    LaunchFaults,   \* what may fail: download, move, heal, npm, manifest
    NoProcess, NoTransaction

Processes == Launches \cup Upgrades \cup Removals

\* What the places of a profile hold, and the journal of moves
Profiles == [plugin : Nat, manifest : Nat, runtime : Nat, tui : Nat \cup {Dev}]
MoveJournals == [disk : Profiles, moved : 0 .. 8]

ASSUME LauncherAssumption ==
    /\ Packaged \in Nat \ {0} /\ Latest \in Nat \ {0} /\ Dev \notin Nat
    /\ Launches \cap Removals = {} /\ Upgrades \cap (Launches \cup Removals) = {}
    /\ NoProcess \notin Processes /\ NoTransaction \notin MoveJournals

VARIABLES
    disk,           \* the release in each place of the profile; 0 is none
    entry,          \* whether the stable entry point is in the profile
    link,           \* where ~/.local/bin/dscode leads
    transaction,    \* pending moves: what they replace and how many are done
    lockedBy,       \* the profile lock
    phase,          \* of a process
    code,           \* the release whose code a process runs
    store,          \* processes that run the package of npx
    wanted,         \* the release that a process installs
    mishaps         \* why processes have failed

linkVars == <<entry, link>>
codeVars == <<code, store>>
launcherVars == <<disk, linkVars, transaction, lockedBy, phase, codeVars, wanted, mishaps>>

Places == <<"plugin", "manifest", "runtime", "tui">>    \* in the order of the moves
Over == {"started", "failed", "done", "killed"}

Moves(p, to) == phase' = [phase EXCEPT ![p] = to]
MayBreak(what) == what \in LaunchFaults

InitLauncher ==
    /\ \E tui \in {1, Dev} :
        disk \in {[plugin |-> 1, manifest |-> 1, runtime |-> 1, tui |-> tui],
                  [plugin |-> 0, manifest |-> 0, runtime |-> 0, tui |-> 0]}
    /\ IF disk.plugin = 0 THEN link \in {"absent", "foreign"}
       ELSE link \in {"stable", "direct", "foreign"}
    /\ entry = (link = "stable")
    /\ transaction = NoTransaction
    /\ lockedBy = NoProcess
    /\ phase = [p \in Processes |-> "idle"]
    /\ code = [p \in Processes |-> 0] /\ store = {}
    /\ wanted = [p \in Processes |-> 0]
    /\ mishaps = {}

-----------------------------------------------------------------------------
(* The lock, and what fails *)

Recovers ==
    /\ transaction' = NoTransaction
    /\ disk' = IF transaction = NoTransaction THEN disk ELSE transaction.disk

Frees(p) == lockedBy' = IF lockedBy = p THEN NoProcess ELSE lockedBy

\* The finally of withProfileLock unlocks.
Refuse(p, why) ==
    /\ Moves(p, "failed")
    /\ mishaps' = mishaps \cup {why}
    /\ Frees(p)

\* The lock is not free for a minute.
LockTimesOut(p) ==
    /\ phase[p] \in {"recovering", "locking", "waiting"}
    /\ lockedBy # NoProcess
    /\ Refuse(p, "lock")
    /\ UNCHANGED <<disk, linkVars, transaction, codeVars, wanted>>

KillProcess(p) ==
    /\ phase[p] \notin Over \cup {"idle"}
    /\ Moves(p, "killed")
    /\ Frees(p)
    /\ UNCHANGED <<disk, linkVars, transaction, codeVars, wanted, mishaps>>

-----------------------------------------------------------------------------
(* bootstrap.mjs *)

Main(p) == CASE p \in Launches -> "checking"
             [] p \in Upgrades -> "deciding"
             [] p \in Removals -> "locking"

\* A link to the plugin itself, and npx, do without the stable entry point.
Invoke(p) ==
    /\ phase[p] = "idle"
    /\ \/ /\ code' = [code EXCEPT ![p] = Packaged] /\ store' = store \cup {p}
          /\ Moves(p, Main(p))
       \/ link = "stable" /\ Moves(p, "scanning") /\ UNCHANGED codeVars
       \/ link = "direct" /\ Moves(p, "importing") /\ UNCHANGED codeVars
    /\ UNCHANGED <<disk, linkVars, transaction, lockedBy, wanted, mishaps>>

\* Interrupted moves are taken back before code of the profile is loaded.
Scan(p) ==
    /\ phase[p] = "scanning"
    /\ \/ transaction # NoTransaction /\ Moves(p, "recovering")
       \/ transaction = NoTransaction /\ disk.plugin # 0 /\ Moves(p, "importing")
    /\ UNCHANGED <<disk, linkVars, transaction, lockedBy, codeVars, wanted, mishaps>>

\* It has looked for a minute and found no code that could recover.
SearchEnds(p) ==
    /\ phase[p] = "scanning" /\ transaction = NoTransaction /\ disk.plugin = 0
    /\ Refuse(p, "gone")
    /\ UNCHANGED <<disk, linkVars, transaction, codeVars, wanted>>

\* withProfileLock with nothing to do
RecoverFirst(p) ==
    /\ phase[p] = "recovering" /\ lockedBy = NoProcess
    /\ Recovers
    /\ Moves(p, "importing")
    /\ UNCHANGED <<linkVars, lockedBy, codeVars, wanted, mishaps>>

\* The launcher in the profile; moves that began since the scan make it fail.
Import(p) ==
    /\ phase[p] = "importing"
    /\ IF disk.plugin = 0 THEN Refuse(p, "gone") /\ UNCHANGED code
       ELSE /\ code' = [code EXCEPT ![p] = disk.plugin]
            /\ Moves(p, Main(p))
            /\ UNCHANGED <<lockedBy, mishaps>>
    /\ store' = store \ {p}
    /\ UNCHANGED <<disk, linkVars, transaction, wanted>>

-----------------------------------------------------------------------------
(* healLauncherLink *)

\* The stable entry point is copied from the code that runs, if it is still there,
\* and the link is put on it; an error is a warning.
Heal(p) ==
    LET source == p \in store \/ disk.plugin # 0
        linked == [absent |-> IF source THEN "stable" ELSE "direct",
                   direct |-> IF source THEN "stable" ELSE "direct",
                   stable |-> "stable", foreign |-> "foreign"]
    IN  \/ /\ entry' = (entry \/ source)
           /\ link' = linked[link]
           /\ UNCHANGED mishaps
        \/ /\ MayBreak("heal")
           /\ UNCHANGED linkVars
           /\ mishaps' = mishaps \cup {"heal"}

-----------------------------------------------------------------------------
(* main, for a launch *)

\* installationFilesMatch
FilesMatch(release) ==
    disk.plugin = release /\ disk.runtime = release /\ disk.tui # 0

\* Mutant: the files have been looked at before the lock.
MatchedBefore(release) == TRUE

\* installationMatches
Matches(release) == FilesMatch(release) /\ disk.tui = release

\* rebootstrapManaged
Reinstalls(l) ==
    /\ Moves(l, "downloading")
    /\ wanted' = [wanted EXCEPT ![l] = code[l]]

\* The files are looked at without the lock.
Check(l) ==
    /\ l \in Launches /\ phase[l] = "checking"
    /\ \/ FilesMatch(code[l]) /\ Moves(l, "locking") /\ UNCHANGED wanted
       \/ ~FilesMatch(code[l]) /\ Reinstalls(l)
    /\ UNCHANGED <<disk, linkVars, transaction, lockedBy, codeVars, mishaps>>

LockProfile(p) ==
    /\ phase[p] \in {"locking", "waiting"} /\ lockedBy = NoProcess
    /\ lockedBy' = p
    /\ Recovers
    /\ Moves(p, CASE phase[p] = "waiting" -> "healing"
                  [] phase[p] = "locking" /\ p \in Launches -> "preparing"
                  [] phase[p] = "locking" /\ p \in Removals -> "unlinking")
    /\ UNCHANGED <<linkVars, codeVars, wanted, mishaps>>

\* The runtime, whose lock binding is needed, has been removed since.
NoBinding(p) ==
    /\ phase[p] = "locking" /\ disk.runtime = 0 /\ transaction = NoTransaction
    /\ \/ p \in Launches /\ Reinstalls(p) /\ UNCHANGED <<lockedBy, mishaps>>
       \/ p \in Removals /\ Refuse(p, "binding") /\ UNCHANGED wanted
    /\ UNCHANGED <<disk, linkVars, transaction, codeVars>>

\* What is wrong under the lock is installed again after it.
PrepareAgain(l) ==
    /\ phase[l] = "preparing" /\ disk.tui # Dev /\ ~Matches(code[l])
    /\ Reinstalls(l)
    /\ Frees(l)
    /\ UNCHANGED <<disk, linkVars, transaction, codeVars, mishaps>>

\* reconcileProfileManifest
Registered(l) == IF disk.manifest = 0 THEN code[l] ELSE disk.manifest

PrepareManaged(l) ==
    /\ phase[l] = "preparing" /\ Matches(code[l])
    /\ disk' = [disk EXCEPT !.manifest = Registered(l)]
    /\ Heal(l)
    /\ Moves(l, "started")
    /\ Frees(l)
    /\ UNCHANGED <<transaction, codeVars, wanted>>

\* With a TUI that was built here, npm installs the plugin of this release if it
\* is another, and its runtime is required.
PrepareDev(l) ==
    /\ phase[l] = "preparing" /\ disk.tui = Dev /\ disk.runtime = code[l]
    /\ disk' = [disk EXCEPT !.plugin = code[l], !.manifest = Registered(l)]
    /\ Heal(l)
    /\ Moves(l, "started")
    /\ Frees(l)
    /\ UNCHANGED <<transaction, codeVars, wanted>>

PrepareFails(l) ==
    /\ phase[l] = "preparing"
    /\ \/ /\ MayBreak("manifest") /\ Refuse(l, "manifest")
          /\ UNCHANGED <<disk, linkVars>>
       \/ /\ disk.tui = Dev /\ disk.plugin # code[l] /\ MayBreak("npm")
          /\ disk' = [disk EXCEPT !.plugin = 0]
          /\ Refuse(l, "npm")
          /\ UNCHANGED linkVars
       \/ /\ disk.tui = Dev /\ disk.runtime # code[l]
          /\ disk' = [disk EXCEPT !.plugin = code[l], !.manifest = Registered(l)]
          /\ entry' = TRUE /\ link' = IF link = "foreign" THEN link ELSE "stable"
          /\ Refuse(l, "runtime")
    /\ UNCHANGED <<transaction, codeVars, wanted>>

-----------------------------------------------------------------------------
(* installRelease, for a launch or an upgrade *)

\* What to install is decided without the lock.
Decide(u) ==
    LET current == CASE disk.tui # 0 -> disk.tui
                     [] disk.tui = 0 /\ disk.plugin # 0 -> disk.plugin
                     [] OTHER -> code[u]
        available == current \in {Dev} \cup (0 .. Latest - 1)
    IN  /\ phase[u] = "deciding"
        /\ \/ /\ ~available /\ Matches(current)
              /\ Moves(u, "done") /\ UNCHANGED wanted
           \/ /\ available \/ ~Matches(current)
              /\ Moves(u, "downloading")
              /\ wanted' = [wanted EXCEPT ![u] = IF available THEN Latest ELSE current]
        /\ UNCHANGED <<disk, linkVars, transaction, lockedBy, codeVars, mishaps>>

Download(p) ==
    /\ phase[p] = "downloading"
    /\ \/ Moves(p, "waiting") /\ UNCHANGED <<lockedBy, mishaps>>
       \/ MayBreak("download") /\ Refuse(p, "download")
    /\ UNCHANGED <<disk, linkVars, transaction, codeVars, wanted>>

Journalled == [disk |-> disk, moved |-> 0]

\* Mutant: the link is repaired after the moves only.
MovesUnhealed(p) == transaction' = Journalled /\ UNCHANGED <<linkVars, mishaps>>

\* The link is put on the stable entry point before the plugin is moved.
MovesBegin(p) == Heal(p) /\ transaction' = Journalled

BeginMoves(p) ==
    /\ phase[p] = "healing"
    /\ MovesBegin(p)
    /\ Moves(p, "moving")
    /\ UNCHANGED <<disk, lockedBy, codeVars, wanted>>

\* Each place is emptied and then filled.
MovePlace(p) ==
    LET n == transaction.moved
    IN  /\ phase[p] = "moving" /\ n < 2 * Len(Places)
        /\ transaction' = [transaction EXCEPT !.moved = n + 1]
        /\ disk' = [disk EXCEPT ![Places[n \div 2 + 1]] =
                        IF n % 2 = 0 THEN 0 ELSE wanted[p]]
        /\ UNCHANGED <<linkVars, lockedBy, phase, codeVars, wanted, mishaps>>

\* A move fails, and what was moved is put back.
MoveFails(p) ==
    /\ phase[p] = "moving" /\ MayBreak("move")
    /\ Recovers
    /\ Refuse(p, "move")
    /\ UNCHANGED <<linkVars, codeVars, wanted>>

Committed(p) ==
    /\ phase[p] = "moving" /\ transaction.moved = 2 * Len(Places)
    /\ transaction' = NoTransaction
    /\ Moves(p, "relinking")
    /\ Frees(p)
    /\ UNCHANGED <<disk, linkVars, codeVars, wanted, mishaps>>

\* The link once more, without the lock; a launch then runs the launcher that it
\* has installed.
Relink(p) ==
    /\ phase[p] = "relinking"
    /\ Heal(p)
    /\ Moves(p, IF p \in Launches THEN "importing" ELSE "done")
    /\ UNCHANGED <<disk, transaction, lockedBy, codeVars, wanted>>

-----------------------------------------------------------------------------
(* uninstallInstallation *)

Unlink(x) ==
    /\ phase[x] = "unlinking"
    /\ link' = IF link = "foreign" THEN link ELSE "absent"
    /\ Moves(x, "manifest")
    /\ UNCHANGED <<disk, entry, transaction, lockedBy, codeVars, wanted, mishaps>>

RemovalOrder == [manifest |-> "plugin", plugin |-> "runtime", runtime |-> "tui",
                 tui |-> "entry"]

\* One path after the other
RemovePlace(x) ==
    /\ phase[x] \in DOMAIN RemovalOrder
    /\ disk' = [disk EXCEPT ![phase[x]] = 0]
    /\ Moves(x, RemovalOrder[phase[x]])
    /\ UNCHANGED <<linkVars, transaction, lockedBy, codeVars, wanted, mishaps>>

RemoveEntry(x) ==
    /\ phase[x] = "entry"
    /\ entry' = FALSE
    /\ Moves(x, "done")
    /\ Frees(x)
    /\ UNCHANGED <<disk, link, transaction, codeVars, wanted, mishaps>>

-----------------------------------------------------------------------------
StepsLauncher(p) ==
    \/ Scan(p) \/ RecoverFirst(p) \/ Import(p) \/ Check(p) \/ LockProfile(p)
    \/ NoBinding(p) \/ PrepareAgain(p) \/ PrepareManaged(p) \/ PrepareDev(p)
    \/ PrepareFails(p) \/ Decide(p) \/ Download(p) \/ BeginMoves(p) \/ MovePlace(p)
    \/ Committed(p) \/ Relink(p) \/ Unlink(p) \/ RemovePlace(p) \/ RemoveEntry(p)

NextLauncher ==
    \E p \in Processes :
        \/ Invoke(p) \/ StepsLauncher(p) \/ SearchEnds(p) \/ MoveFails(p)
        \/ LockTimesOut(p) \/ KillProcess(p)

\* A process that is not killed goes on, and looks for code for a minute at most.
FairLauncher ==
    \A p \in Processes : WF_launcherVars(StepsLauncher(p)) /\ WF_launcherVars(SearchEnds(p))

LauncherSteps == InitLauncher /\ [][NextLauncher]_launcherVars
SpecLauncher == LauncherSteps /\ FairLauncher

-----------------------------------------------------------------------------
LauncherTypeOK ==
    /\ disk \in Profiles /\ entry \in BOOLEAN
    /\ link \in {"absent", "foreign", "stable", "direct"}
    /\ transaction \in MoveJournals \cup {NoTransaction}
    /\ lockedBy \in Processes \cup {NoProcess}
    /\ phase \in [Processes -> Over \cup DOMAIN RemovalOrder \cup
                    {"idle", "scanning", "recovering", "importing", "checking", "deciding",
                     "locking", "waiting", "preparing", "downloading", "healing", "moving",
                     "relinking", "unlinking", "entry"}]
    /\ code \in [Processes -> Nat] /\ wanted \in [Processes -> Nat] /\ store \subseteq Processes

Uninstalling ==
    \E x \in Removals : phase[x] \in {"unlinking", "entry", "done", "killed"} \cup DOMAIN RemovalOrder

Restorable == IF transaction = NoTransaction THEN disk ELSE transaction.disk

Leads ==
    /\ Restorable.plugin # 0
    /\ \/ link = "stable" /\ entry
       \/ link = "direct" /\ disk.plugin # 0

\* Once `dscode` leads to code that runs, or that an interrupted install is taken
\* back for, it does so at every later point, unless it is being uninstalled, a
\* repair of the link failed or npm left no plugin.
LinkLeads ==
    [][Leads /\ ~Uninstalling' /\ mishaps' \cap {"heal", "npm"} = {} => Leads']_launcherVars

Whole(release) ==
    /\ disk.plugin = release /\ disk.runtime = release /\ disk.tui \in {release, Dev}
    /\ disk.manifest # 0 /\ transaction = NoTransaction

\* Another process has changed the profile, or one was killed.
Disturbed ==
    \/ \E p \in Upgrades \cup Removals : phase[p] # "idle"
    \/ \E p \in Processes : phase[p] = "killed"

\* A TUI starts on a plugin, a runtime and a manifest of the release that starts
\* it.  Every launch ends, with a TUI if neither a call failed nor another process
\* came in between: what it found incomplete it has installed.
LaunchesEndWhole ==
    /\ [][\A l \in Launches :
            phase[l] # "started" /\ phase'[l] = "started" => Whole(code[l])']_launcherVars
    /\ [](~Disturbed => mishaps \subseteq LaunchFaults)
    /\ []<>(\A l \in Launches : phase[l] \in Over \cup {"idle"})

\* The header of dscode.mjs (24-26): the cached TUI is replaced if it is older than
\* the release that is launched; a newer one, or one that was built here, is left
\* alone.
NewerLeftAlone ==
    [][\A l \in Launches : phase[l] = "moving" /\ phase'[l] = "relinking" =>
            transaction.disk.tui \in 0 .. wanted[l]]_launcherVars
==============================================================================
