--------------------------- MODULE ProfilePlugins ---------------------------
(* The plugins of a profile: /dsh add and /dsh remove (profile-plugins.ts,     *)
(* plugin-bundles.ts) and the switches of bundles and rows through the plugin  *)
(* manager (plugin-rows.ts), by /dsh enable and disable under the lock of the  *)
(* profile, by /browser and /provider without it.                              *)
(*                                                                             *)
(* npm, the plugin manager, the reload of the Loader and the lock, which other *)
(* processes take as well, are external: each call may fail, and an npm that   *)
(* fails may have replaced the package.                                        *)
EXTENDS Naturals, FiniteSets

CONSTANTS
    Packages, Rows,
    HostOf,         \* the bundle of a row, Nobody for one of dscode's own
    Adds, Removes, Toggles,
    About,         \* what a command is about
    Trusted,        \* /dsh add --trust
    Wanted,         \* the toggles that enable
    Direct,         \* the toggles of /browser and /provider
    Unstartable,    \* bundles and rows that do not activate
    Overlaid,       \* rows that a higher layer keeps off
    Applications,   \* what the manager says of a change
    FallibleCalls,          \* the calls that may fail
    Preinstalled,   \* what the profile may have at the start
    Nobody, Outsider

PluginCommands == Adds \cup Removes \cup Toggles
Kinds == {"plain", "bundle", "broken"}
PluginContents == [kind : Kinds \cup {"none"}, by : Adds \cup {Nobody}]

ASSUME PluginsAssumption ==
    /\ Packages \cap Rows = {} /\ {Nobody, Outsider} \cap PluginCommands = {}
    /\ Adds \cap Removes = {} /\ Toggles \cap (Adds \cup Removes) = {}
    /\ HostOf \in [Rows -> Packages \cup {Nobody}] /\ Overlaid \subseteq Rows
    /\ \A x \in Adds \cup Removes : About[x] \in Packages
    /\ \A x \in Toggles : About[x] \in Packages \cup Rows
    /\ Trusted \subseteq Adds /\ Wanted \subseteq Toggles
    /\ Direct \subseteq Toggles /\ \A x \in Direct : About[x] \in Rows
    /\ Applications \subseteq
        {"failed", "cancelled", "throws", "overridden", "applied", "restart-required"}
    /\ FallibleCalls \subseteq {"npm", "write", "list", "reload"}
    /\ Preinstalled \subseteq [Packages -> {c \in PluginContents : c.by = Nobody}]

VARIABLES
    content,        \* of the packages in node_modules
    manifest,       \* package.json with its lock file: the content of each package
                    \* that it depends on, and the bundles of the profile
    patched,        \* the rows that the profile patch enables
    holder,         \* of the profile lock
    at,             \* where a command is
    snapshot,       \* snapshotManifest of an add
    told,           \* its answer
    spoiled,        \* whether npm or a write failed where nothing undoes it
    plugins         \* createProfilePlugins itself

pluginVars == <<content, manifest, patched, holder, at, snapshot, told, spoiled, plugins>>

Guarded == PluginCommands \ Direct
Subject(x) == About[x]
Becomes(x, phase) == at' = [at EXCEPT ![x] = phase]
Fallible(call) == call \in FallibleCalls
Absent == [kind |-> "none", by |-> Nobody]

InitPlugins ==
    /\ content \in Preinstalled
    /\ manifest \in [deps : {content},
                     bundles : {{p \in Packages : content[p].kind = "bundle"}}]
    /\ patched \in SUBSET Rows
    /\ holder = Nobody
    /\ at = [x \in PluginCommands |-> "idle"]
    /\ snapshot = [x \in Adds |-> manifest]
    /\ told = [x \in PluginCommands |-> "nothing"]
    /\ spoiled = FALSE
    /\ plugins = "open"

-----------------------------------------------------------------------------
(* The lock *)

\* Mutant: a command that has failed keeps the lock.
LeavesLock(x, reply) ==
    holder' = IF holder = x /\ reply # "failed" THEN Nobody ELSE holder

\* The finally of withProfileLock.
Unlocks(x, reply) == holder' = IF holder = x THEN Nobody ELSE holder

Answer(x, reply) ==
    /\ Becomes(x, "done")
    /\ told' = [told EXCEPT ![x] = reply]
    /\ Unlocks(x, reply)

\* execute(), and the set() of /browser and /provider.
Execute(x) ==
    /\ at[x] = "idle" /\ (x \in Guarded => plugins = "open")
    /\ Becomes(x, IF x \in Guarded THEN "locking" ELSE "listing")
    /\ UNCHANGED <<content, manifest, patched, holder, snapshot, told, spoiled, plugins>>

\* The lock is free, or is not within 60 seconds.
Lock(x) ==
    /\ at[x] = "locking"
    /\ IF holder = Nobody
       THEN /\ holder' = x
            /\ Becomes(x, CASE x \in Adds -> "auditing"
                            [] x \in Removes -> "removing"
                            [] x \in Toggles -> "listing")
            /\ UNCHANGED told
       ELSE Answer(x, "failed")
    /\ UNCHANGED <<content, manifest, patched, snapshot, spoiled, plugins>>

\* An update, or the dsh of another process.
OutsiderLocks ==
    /\ holder \in {Nobody, Outsider}
    /\ holder' = IF holder = Nobody THEN Outsider ELSE Nobody
    /\ UNCHANGED <<content, manifest, patched, at, snapshot, told, spoiled, plugins>>

-----------------------------------------------------------------------------
(* addPlugins and removePlugin *)

WriteBundles(bundles) == manifest' = [manifest EXCEPT !.bundles = bundles]

\* auditPluginSpecs, in a stage of its own: what cannot be inspected or loaded is
\* refused, and a bundle without --trust.
Audit(x) ==
    /\ at[x] = "auditing"
    /\ \/ \E kind \in Kinds :
            IF kind = "broken" \/ (kind = "bundle" /\ x \notin Trusted)
            THEN Answer(x, "refused") /\ UNCHANGED snapshot
            ELSE /\ snapshot' = [snapshot EXCEPT ![x] = manifest]
                 /\ Becomes(x, "installing")
                 /\ UNCHANGED <<told, holder>>
       \/ Fallible("npm") /\ Answer(x, "failed") /\ UNCHANGED snapshot
    /\ UNCHANGED <<content, manifest, patched, spoiled, plugins>>

\* npm install into the profile may install another content than was staged.
Install(x) ==
    LET p == Subject(x) IN
    /\ at[x] = "installing"
    /\ \E kind \in Kinds : LET new == [kind |-> kind, by |-> x] IN
        \/ /\ content' = [content EXCEPT ![p] = new]
           /\ manifest' = [manifest EXCEPT !.deps[p] = new]
           /\ Becomes(x, "verifying")
           /\ UNCHANGED <<told, holder, spoiled>>
        \/ /\ Fallible("npm")
           /\ content' \in {content, [content EXCEPT ![p] = new]}
           /\ spoiled' = (spoiled \/ content' # content)
           /\ Answer(x, "failed")
           /\ UNCHANGED manifest
    /\ UNCHANGED <<patched, snapshot, plugins>>

Invalid(x, c) == c.kind = "broken" \/ (c.kind = "bundle" /\ x \notin Trusted)

\* Mutant: a package that is no bundle any more stays a layer of the profile.
LayersKept(x) == manifest.bundles \cup {Subject(x)}

\* The layers after an add: a plain dependency is none.
Layers(x) ==
    IF content[Subject(x)].kind = "bundle" THEN manifest.bundles \cup {Subject(x)}
    ELSE manifest.bundles \ {Subject(x)}

\* installAudited looks again at what npm has installed.
Verify(x) ==
    /\ at[x] = "verifying"
    /\ IF Invalid(x, content[Subject(x)])
       THEN Becomes(x, "restoring") /\ UNCHANGED <<manifest, told, holder, spoiled>>
       ELSE \/ WriteBundles(Layers(x)) /\ Answer(x, "installed") /\ UNCHANGED spoiled
            \/ /\ Fallible("write")
               /\ spoiled' = TRUE
               /\ Answer(x, "failed")
               /\ UNCHANGED manifest
    /\ UNCHANGED <<content, patched, snapshot, plugins>>

\* restoreManifest, one file after the other
Restore(x) ==
    /\ at[x] = "restoring"
    /\ \/ manifest' = snapshot[x] /\ Becomes(x, "reinstalling")
       \/ /\ Fallible("write")
          /\ manifest' \in {manifest, snapshot[x]}
          /\ Becomes(x, "disabling")
    /\ UNCHANGED <<content, patched, holder, snapshot, told, spoiled, plugins>>

\* npm install without a package puts back what the manifest and its lock say.
Reinstall(x) ==
    LET p == Subject(x) IN
    /\ at[x] = "reinstalling"
    /\ \/ content' = manifest.deps /\ Answer(x, "rolledBack")
       \/ /\ Fallible("npm")
          /\ content' \in {content, [content EXCEPT ![p] = manifest.deps[p]]}
          /\ Becomes(x, "disabling")
          /\ UNCHANGED <<told, holder>>
    /\ UNCHANGED <<manifest, patched, snapshot, spoiled, plugins>>

Disable(x) ==
    /\ at[x] = "disabling"
    /\ \/ /\ WriteBundles(manifest.bundles \ {Subject(x)})
          /\ Answer(x, "leftDisabled")
          /\ UNCHANGED spoiled
       \/ /\ Fallible("write")
          /\ spoiled' = TRUE
          /\ Answer(x, "failed")
          /\ UNCHANGED manifest
    /\ UNCHANGED <<content, patched, snapshot, plugins>>

\* "Unregister first"
Unregister(x) ==
    /\ at[x] = "removing"
    /\ IF manifest.deps[Subject(x)].kind = "none"
       THEN Answer(x, "notInstalled") /\ UNCHANGED manifest
       ELSE \/ /\ WriteBundles(manifest.bundles \ {Subject(x)})
               /\ Becomes(x, "uninstalling")
               /\ UNCHANGED <<told, holder>>
            \/ Fallible("write") /\ Answer(x, "failed") /\ UNCHANGED manifest
    /\ UNCHANGED <<content, patched, snapshot, spoiled, plugins>>

Uninstall(x) ==
    LET gone == [content EXCEPT ![Subject(x)] = Absent] IN
    /\ at[x] = "uninstalling"
    /\ \/ /\ content' = gone
          /\ manifest' = [manifest EXCEPT !.deps[Subject(x)] = Absent]
          /\ Answer(x, "removed")
       \/ /\ Fallible("npm")
          /\ content' \in {content, gone}
          /\ Answer(x, "unregistered")
          /\ UNCHANGED manifest
    /\ UNCHANGED <<patched, snapshot, spoiled, plugins>>

-----------------------------------------------------------------------------
(* switchPlugin, with switchBundle, switchRow and settle; set *)

Saved(u) == u \in manifest.bundles \cup patched
Effective(u) == Saved(u) /\ u \notin Overlaid
Starts(u) == Effective(u) /\ u \notin Unstartable

\* The manager writes the choice.
SaveAs(u, on) ==
    IF u \in Packages
    THEN /\ WriteBundles(IF on THEN manifest.bundles \cup {u} ELSE manifest.bundles \ {u})
         /\ UNCHANGED patched
    ELSE /\ patched' = (IF on THEN patched \cup {u} ELSE patched \ {u})
         /\ UNCHANGED manifest

\* listBundles has what the profile depends on and what it selects.
Listed(p) == manifest.deps[p].kind # "none" \/ p \in manifest.bundles

\* switchPlugin refuses what is not listed, to enable a bundle that cannot be
\* read, a row of a bundle that is off, and to disable one of dscode's own.
Refused(x) ==
    LET u == Subject(x) IN
    x \in Guarded /\
        IF u \in Packages THEN ~Listed(u) \/ (x \in Wanted /\ content[u].kind # "bundle")
        ELSE IF HostOf[u] = Nobody THEN x \notin Wanted
        ELSE HostOf[u] \notin manifest.bundles

List(x) ==
    LET on == x \in Wanted IN
    /\ at[x] = "listing"
    /\ \/ IF Refused(x) THEN Answer(x, "refused")
          ELSE IF Effective(Subject(x)) = on THEN Answer(x, "already")
          ELSE Becomes(x, "saving") /\ UNCHANGED <<told, holder>>
       \/ Fallible("list") /\ Answer(x, "failed")
    /\ UNCHANGED <<content, manifest, patched, snapshot, spoiled, plugins>>

\* What the manager says when it has saved nothing.
Unsaved == {"failed", "cancelled", "throws"}

\* What a toggle says when nothing was saved: set() takes a cancelled change for
\* one that needs no reload.
NotSaved(x, application) ==
    CASE application = "throws" -> "failed"
      [] application = "cancelled" /\ x \in Direct -> "applied"
      [] OTHER -> "refused"

\* setBundleEnabled and setPluginEnabled
Save(x) ==
    /\ at[x] = "saving"
    /\ \E application \in Applications :
        \/ /\ application \in Unsaved
           /\ Answer(x, NotSaved(x, application))
           /\ UNCHANGED <<manifest, patched>>
        \/ /\ application \notin Unsaved
           /\ SaveAs(Subject(x), x \in Wanted)
           /\ IF application = "restart-required"
              THEN Becomes(x, "reloading") /\ UNCHANGED <<told, holder>>
              ELSE Answer(x, application)
    /\ UNCHANGED <<content, snapshot, spoiled, plugins>>

\* switchRow observes what came of it.
Outcome(x) ==
    LET u == Subject(x) IN
    IF u \in Rows /\ x \in Guarded /\ Effective(u) # (x \in Wanted) THEN "overridden"
    ELSE "applied"

\* The reload requires what was enabled to start.
Reload(x) ==
    /\ at[x] = "reloading"
    /\ \/ /\ x \in Wanted => Starts(Subject(x)) \/ Subject(x) \in Overlaid
          /\ Answer(x, Outcome(x))
       \/ /\ Fallible("reload") \/ (x \in Wanted /\ ~Starts(Subject(x)))
          /\ IF x \in Wanted THEN Becomes(x, "reverting") /\ UNCHANGED <<told, holder>>
             ELSE Answer(x, IF x \in Guarded THEN "changed" ELSE "failed")
    /\ UNCHANGED <<content, manifest, patched, snapshot, spoiled, plugins>>

\* Mutant: settle ignores, as set does, a manager that does not switch back.
RevertMissedAlways(x, application) == application = "throws"

\* When the answer says that the revert failed as well: settle looks at the
\* result of the manager, set only at what it throws.
RevertMissed(x, application) ==
    application = "throws" \/ (application = "failed" /\ x \in Guarded)

Revert(x) ==
    /\ at[x] = "reverting"
    /\ \E application \in Applications :
        /\ IF application \in Unsaved THEN UNCHANGED <<manifest, patched>>
           ELSE SaveAs(Subject(x), FALSE)
        /\ IF RevertMissed(x, application) THEN Answer(x, "unknown")
           ELSE Becomes(x, "unloading") /\ UNCHANGED <<told, holder>>
    /\ UNCHANGED <<content, snapshot, spoiled, plugins>>

\* The reload after it
Unload(x) ==
    /\ at[x] = "unloading"
    /\ \/ Answer(x, "reverted")
       \/ Fallible("reload") /\ Answer(x, IF x \in Guarded THEN "reverted" ELSE "unknown")
    /\ UNCHANGED <<content, manifest, patched, snapshot, spoiled, plugins>>

-----------------------------------------------------------------------------
DisposePlugins ==
    /\ plugins = "open"
    /\ plugins' = "closing"
    /\ UNCHANGED <<content, manifest, patched, holder, at, snapshot, told, spoiled>>

\* Promise.allSettled of the commands that were accepted.
PluginsDisposed ==
    /\ plugins = "closing" /\ \A x \in Guarded : at[x] \in {"idle", "done"}
    /\ plugins' = "done"
    /\ UNCHANGED <<content, manifest, patched, holder, at, snapshot, told, spoiled>>

AddStep(x) ==
    Audit(x) \/ Install(x) \/ Verify(x) \/ Restore(x) \/ Reinstall(x) \/ Disable(x)
RemoveStep(x) == Unregister(x) \/ Uninstall(x)
ToggleStep(x) == List(x) \/ Save(x) \/ Reload(x) \/ Revert(x) \/ Unload(x)
CommandStep(x) == Lock(x) \/ AddStep(x) \/ RemoveStep(x) \/ ToggleStep(x)

NextPlugins ==
    \/ \E x \in PluginCommands : Execute(x) \/ CommandStep(x)
    \/ OutsiderLocks \/ DisposePlugins \/ PluginsDisposed

\* What was accepted goes on; nobody else has to release the lock.
FairPlugins ==
    (\A x \in PluginCommands : WF_pluginVars(CommandStep(x))) /\ WF_pluginVars(PluginsDisposed)

-----------------------------------------------------------------------------
(* Properties *)

\* Type invariant.
PluginsTypeOK ==
    /\ content \in [Packages -> PluginContents]
    /\ manifest \in [deps : [Packages -> PluginContents], bundles : SUBSET Packages]
    /\ patched \subseteq Rows
    /\ holder \in Guarded \cup {Nobody, Outsider}
    /\ plugins \in {"open", "closing", "done"} /\ spoiled \in BOOLEAN

Enabling(p) == \E x \in Wanted : About[x] = p /\ at[x] # "idle"

\* A rollback that did not complete: the package is disabled, and what is installed
\* may be another content than the one that the manifest names.
Abandoned(p) == \E x \in Adds : About[x] = p /\ told[x] = "leftDisabled"

\* Whenever no command is under way, what the profile loads at its next start is
\* a bundle that can be read, and no add without --trust has put it there, through
\* packages that change between their audit and their installation, rollbacks
\* that fail and removals that npm does not finish; unless the user has enabled
\* what such a rollback had left disabled.
BootSafe ==
    holder \in {Nobody, Outsider} /\ ~spoiled =>
        \A p \in manifest.bundles :
            /\ content[p].kind = "bundle" \/ (Abandoned(p) /\ Enabling(p))
            /\ content[p].by \in Trusted \cup {Nobody} \/ Enabling(p)

Alone(x) == \A y \in Toggles \ {x} : About[y] = About[x] => at[y] = "idle"

\* What a command says is saved, is.
True(x) ==
    LET u == Subject(x) IN
    CASE told'[x] = "installed" -> (u \in manifest'.bundles) = (content'[u].kind = "bundle")
      [] told'[x] = "rolledBack" -> manifest' = snapshot[x] /\ content'[u] = manifest'.deps[u]
      [] told'[x] \in {"leftDisabled", "unregistered"} -> u \notin manifest'.bundles
      [] told'[x] = "removed" -> u \notin manifest'.bundles /\ content'[u].kind = "none"
      [] told'[x] \in {"applied", "overridden", "changed"} /\ Alone(x) -> Saved(u)' = (x \in Wanted)
      [] told'[x] = "reverted" /\ x \in Guarded /\ Alone(x) -> ~Saved(u)'
      [] told'[x] = "refused" /\ Alone(x) -> UNCHANGED <<manifest, patched>>
      [] OTHER -> TRUE

\* The answers are about what is in the profile when they are given.
AnswersTrue == [][\A x \in PluginCommands : told'[x] # told[x] => True(x)]_pluginVars

\* They are, and nothing keeps a command, or the disposal that waits for it, from
\* its end.
CommandsTellTruly ==
    /\ AnswersTrue
    /\ <>[](\A x \in PluginCommands : at[x] \in {"idle", "done"})
    /\ <>[](plugins # "closing")

\* "A row that cannot activate must not stay enabled for the next boot": a set
\* that says that it turned a row off again has.
TurnedOffAgain ==
    \A x \in Direct : told[x] = "reverted" /\ Alone(x) => ~Saved(Subject(x))
=============================================================================
