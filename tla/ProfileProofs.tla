---------------------------- MODULE ProfileProofs ----------------------------
(* Theorems about UpdateTransaction, for any entries, processes and edits;     *)
(* about ProfilePlugins, for any packages, rows and commands; and about        *)
(* Launcher, for any processes and releases.                                   *)
EXTENDS UpdateTransaction, ProfilePlugins, Launcher, TLAPS

PluginSpec == InitPlugins /\ [][NextPlugins]_pluginVars

-----------------------------------------------------------------------------
(* The lock *)

AddPhases ==
    {"auditing", "installing", "verifying", "restoring", "reinstalling", "disabling"}
RemovePhases == {"removing", "uninstalling"}
TogglePhases == {"listing", "saving", "reloading", "reverting", "unloading"}
Outside == {"idle", "locking", "done"}

\* Where a command may be
Phase(x) ==
    \/ at[x] \in Outside
    \/ x \in Adds /\ at[x] \in AddPhases
    \/ x \in Removes /\ at[x] \in RemovePhases
    \/ x \in Toggles /\ at[x] \in TogglePhases

Inside(x) == at[x] \notin Outside

\* A command under the lock holds it, and has not answered yet.
Locked ==
    /\ DOMAIN at = PluginCommands /\ DOMAIN told = PluginCommands
    /\ \A x \in PluginCommands : Phase(x) /\ (at[x] # "done" => told[x] = "nothing")
    /\ \A x \in Guarded : Inside(x) => holder = x
    /\ \A x \in Direct : at[x] # "locking"

Manifests == [deps : [Packages -> PluginContents], bundles : SUBSET Packages]

\* Type invariant, with what an add has noted.
Types ==
    /\ PluginsTypeOK /\ manifest \in Manifests
    /\ snapshot \in [Adds -> Manifests]

LEMMA CommandsApart ==
    /\ \A x \in PluginCommands : x # Nobody /\ x # Outsider
    /\ \A x \in Adds : x \in PluginCommands /\ x \in Guarded /\ x \notin Removes \cup Toggles
                       /\ About[x] \in Packages
    /\ \A x \in Removes : x \in PluginCommands /\ x \in Guarded /\ x \notin Adds \cup Toggles
                          /\ About[x] \in Packages
    /\ \A x \in Toggles : x \in PluginCommands /\ x \notin Adds \cup Removes
                          /\ About[x] \in Packages \cup Rows
    /\ \A x \in Direct : x \in Toggles /\ About[x] \in Rows \ Packages
    /\ \A x \in PluginCommands : x \in Guarded \/ x \in Direct
  BY PluginsAssumption DEF PluginCommands, Guarded

\* A command goes on to a stage of its own.
LEMMA BecomesMoves ==
    ASSUME Locked, NEW x \in PluginCommands, NEW stage, Becomes(x, stage)
    PROVE  /\ DOMAIN at' = PluginCommands
           /\ at'[x] = stage
           /\ \A y \in PluginCommands : y # x => at'[y] = at[y]
  BY DEF Locked, Becomes

LEMMA AnswerEnds ==
    ASSUME Locked, NEW x \in PluginCommands, NEW reply, Answer(x, reply)
    PROVE  /\ DOMAIN at' = PluginCommands /\ DOMAIN told' = PluginCommands
           /\ at'[x] = "done" /\ told'[x] = reply
           /\ \A y \in PluginCommands : y # x => at'[y] = at[y] /\ told'[y] = told[y]
           /\ \A y \in PluginCommands : y # x /\ holder = y => holder' = y
  BY DEF Locked, Answer, Becomes, Unlocks

\* A command that goes on and keeps the lock, or leaves it.
LEMMA GoesOn ==
    ASSUME Locked, NEW x \in PluginCommands, NEW stage, Becomes(x, stage), stage # "done",
           UNCHANGED told, at[x] # "done",
           \/ stage \in Outside
           \/ x \in Adds /\ stage \in AddPhases
           \/ x \in Removes /\ stage \in RemovePhases
           \/ x \in Toggles /\ stage \in TogglePhases,
           x \in Guarded /\ stage \notin Outside => holder' = x,
           \A y \in Guarded : y # x /\ holder = y => holder' = y,
           x \in Direct => stage # "locking"
    PROVE  Locked'
<1>1. /\ DOMAIN at' = PluginCommands /\ at'[x] = stage
      /\ \A y \in PluginCommands : y # x => at'[y] = at[y]
  BY BecomesMoves
<1>2. \A y \in PluginCommands : Phase(y)' /\ (at'[y] # "done" => told'[y] = "nothing")
  BY <1>1 DEF Locked, Phase
<1>3. \A y \in Guarded : at'[y] \notin Outside => holder' = y
  BY <1>1 DEF Locked, Inside, Guarded
<1>4. \A y \in Direct : at'[y] # "locking"
  BY <1>1, CommandsApart DEF Locked
<1> QED BY <1>1, <1>2, <1>3, <1>4 DEF Locked, Inside

LEMMA Answers ==
    ASSUME Locked, NEW x \in PluginCommands, NEW reply, Answer(x, reply)
    PROVE  Locked'
<1>1. /\ DOMAIN at' = PluginCommands /\ DOMAIN told' = PluginCommands
      /\ at'[x] = "done"
      /\ \A y \in PluginCommands : y # x => at'[y] = at[y] /\ told'[y] = told[y]
      /\ \A y \in PluginCommands : y # x /\ holder = y => holder' = y
  BY AnswerEnds
<1>2. \A y \in PluginCommands : Phase(y)' /\ (at'[y] # "done" => told'[y] = "nothing")
  BY <1>1 DEF Locked, Phase, Outside
<1>3. \A y \in Guarded : at'[y] \notin Outside => holder' = y
  BY <1>1 DEF Locked, Inside, Guarded, Outside
<1>4. \A y \in Direct : at'[y] # "locking"
  BY <1>1, CommandsApart DEF Locked
<1> QED BY <1>1, <1>2, <1>3, <1>4 DEF Locked, Inside

\* Every step of a command, and what it is about.
LEMMA StepsStayLocked ==
    ASSUME Locked, NEW x \in PluginCommands, Execute(x) \/ CommandStep(x)
    PROVE  Locked'
<1>1. CASE \E reply : Answer(x, reply)
  BY <1>1, Answers
<1>2. CASE Execute(x)
  <2>1. /\ at[x] = "idle" /\ Becomes(x, IF x \in Guarded THEN "locking" ELSE "listing")
        /\ UNCHANGED <<told, holder>>
    BY <1>2 DEF Execute
  <2>2. CASE x \in Guarded
    BY <2>1, <2>2, GoesOn DEF Outside, Guarded
  <2>3. CASE x \notin Guarded
    <3>1. x \in Toggles
      BY <2>3, CommandsApart
    <3> QED BY <2>1, <2>3, <3>1, GoesOn DEF Outside, TogglePhases
  <2> QED BY <2>2, <2>3
<1>3. CASE Lock(x) /\ ~\E reply : Answer(x, reply)
  <2>1. PICK stage : /\ at[x] = "locking" /\ holder = Nobody /\ holder' = x /\ UNCHANGED told
                     /\ Becomes(x, stage)
                     /\ stage = CASE x \in Adds -> "auditing"
                                  [] x \in Removes -> "removing"
                                  [] x \in Toggles -> "listing"
    BY <1>3 DEF Lock
  <2>2. \/ x \in Adds /\ stage \in AddPhases
        \/ x \in Removes /\ stage \in RemovePhases
        \/ x \in Toggles /\ stage \in TogglePhases
    BY <2>1, CommandsApart DEF AddPhases, RemovePhases, TogglePhases, PluginCommands
  <2>3. \A y \in Guarded : holder # y
    BY <2>1, CommandsApart DEF Guarded
  <2>4. stage # "done" /\ stage # "locking"
    BY <2>2 DEF AddPhases, RemovePhases, TogglePhases
  <2> QED BY <2>1, <2>2, <2>3, <2>4, GoesOn
<1>4. CASE AddStep(x) /\ ~\E reply : Answer(x, reply)
  <2>1. PICK stage \in AddPhases : Becomes(x, stage) /\ at[x] \in AddPhases
                                   /\ UNCHANGED <<told, holder>>
    BY <1>4 DEF AddStep, Audit, Install, Verify, Restore, Reinstall, Disable, AddPhases
  <2>2. x \in Adds
    BY <2>1 DEF Locked, Phase, AddPhases, Outside, RemovePhases, TogglePhases
  <2>3. stage # "done" /\ stage # "locking" /\ at[x] \notin Outside
    BY <2>1 DEF AddPhases, Outside
  <2>4. x \in Guarded /\ holder = x
    BY <2>2, <2>3, CommandsApart DEF Locked, Inside
  <2> QED BY <2>1, <2>2, <2>3, <2>4, GoesOn DEF Outside
<1>5. CASE RemoveStep(x) /\ ~\E reply : Answer(x, reply)
  <2>1. /\ Becomes(x, "uninstalling") /\ at[x] = "removing"
        /\ UNCHANGED <<told, holder>>
    BY <1>5 DEF RemoveStep, Unregister, Uninstall
  <2>2. x \in Removes
    BY <2>1 DEF Locked, Phase, AddPhases, Outside, TogglePhases
  <2>3. x \in Guarded /\ holder = x
    BY <2>1, <2>2, CommandsApart DEF Locked, Inside, Outside
  <2> QED BY <2>1, <2>2, <2>3, GoesOn DEF RemovePhases
<1>6. CASE ToggleStep(x) /\ ~\E reply : Answer(x, reply)
  <2>1. PICK stage \in TogglePhases : Becomes(x, stage) /\ at[x] \in TogglePhases
                                      /\ UNCHANGED <<told, holder>>
    BY <1>6 DEF ToggleStep, List, Save, Reload, Revert, Unload, TogglePhases
  <2>2. x \in Toggles
    BY <2>1 DEF Locked, Phase, AddPhases, Outside, RemovePhases, TogglePhases
  <2>3. stage # "done" /\ stage # "locking" /\ at[x] \notin Outside
    BY <2>1 DEF TogglePhases, Outside
  <2>4. x \in Guarded => holder = x
    BY <2>3 DEF Locked, Inside
  <2>5. x \in Guarded \/ holder' = holder
    BY <2>1
  <2> QED BY <2>1, <2>2, <2>3, <2>4, GoesOn DEF Outside
<1> QED BY <1>1, <1>2, <1>3, <1>4, <1>5, <1>6 DEF CommandStep

LEMMA LockedStays == Locked /\ [NextPlugins]_pluginVars => Locked'
<1> SUFFICES ASSUME Locked, [NextPlugins]_pluginVars PROVE Locked'
  OBVIOUS
<1>1. CASE OutsiderLocks \/ DisposePlugins \/ PluginsDisposed \/ UNCHANGED pluginVars
  <2>1. UNCHANGED <<at, told>>
    BY <1>1 DEF OutsiderLocks, DisposePlugins, PluginsDisposed, pluginVars
  <2>2. \A x \in Guarded : holder = x => holder' = x
    BY <1>1, CommandsApart DEF OutsiderLocks, DisposePlugins, PluginsDisposed, pluginVars, Guarded
  <2> QED BY <2>1, <2>2 DEF Locked, Phase, Inside
<1> QED BY <1>1, StepsStayLocked DEF NextPlugins

-----------------------------------------------------------------------------
(* Types *)

\* Who adds, removes and switches, by where a command is.
LEMMA PhaseTells ==
    ASSUME Locked, NEW x \in PluginCommands
    PROVE  /\ at[x] \in AddPhases => x \in Adds
           /\ at[x] \in RemovePhases => x \in Removes
           /\ at[x] \in TogglePhases => x \in Toggles
           /\ at[x] = "locking" => x \in Guarded
           /\ x \in Adds \cup Removes \/ x \in Guarded =>
                (at[x] \notin Outside => holder = x)
<1>1. /\ at[x] \in AddPhases => x \in Adds
      /\ at[x] \in RemovePhases => x \in Removes
      /\ at[x] \in TogglePhases => x \in Toggles
  BY DEF Locked, Phase, AddPhases, RemovePhases, TogglePhases, Outside
<1>2. at[x] = "locking" => x \in Guarded
  BY CommandsApart DEF Locked
<1>3. x \in Adds \cup Removes => x \in Guarded
  BY CommandsApart
<1> QED BY <1>1, <1>2, <1>3 DEF Locked, Inside

LEMMA TypesStay == Types /\ Locked /\ [NextPlugins]_pluginVars => Types'
<1> SUFFICES ASSUME Types, Locked, [NextPlugins]_pluginVars PROVE Types'
  OBVIOUS
<1>0. /\ content \in [Packages -> PluginContents] /\ manifest \in Manifests
      /\ patched \subseteq Rows /\ holder \in Guarded \cup {Nobody, Outsider}
      /\ plugins \in {"open", "closing", "done"} /\ spoiled \in BOOLEAN
      /\ snapshot \in [Adds -> Manifests]
  BY DEF Types, PluginsTypeOK
<1> DEFINE Typed == /\ content' \in [Packages -> PluginContents] /\ manifest' \in Manifests
                    /\ patched' \subseteq Rows
                    /\ holder' \in Guarded \cup {Nobody, Outsider}
                    /\ plugins' \in {"open", "closing", "done"} /\ spoiled' \in BOOLEAN
                    /\ snapshot' \in [Adds -> Manifests]
<1>1. SUFFICES Typed
  BY DEF Types, PluginsTypeOK, Manifests
<1>2. \A p \in Packages, c \in PluginContents :
         /\ [content EXCEPT ![p] = c] \in [Packages -> PluginContents]
         /\ [manifest EXCEPT !.deps[p] = c] \in Manifests
  BY <1>0 DEF Manifests
<1>3. \A S \in SUBSET Packages : [manifest EXCEPT !.bundles = S] \in Manifests
  BY <1>0 DEF Manifests
<1>4. manifest.deps \in [Packages -> PluginContents] /\ manifest.bundles \in SUBSET Packages
  BY <1>0 DEF Manifests
<1>5. Absent \in PluginContents
  BY DEF Absent, PluginContents
<1>6. ASSUME NEW x \in PluginCommands, NEW reply, Unlocks(x, reply)
      PROVE  holder' \in Guarded \cup {Nobody, Outsider}
  BY <1>0, <1>6 DEF Unlocks
<1>7. ASSUME NEW x \in PluginCommands, Execute(x) PROVE Typed
  BY <1>0, <1>7 DEF Execute
<1>8. ASSUME NEW x \in PluginCommands, Lock(x) PROVE Typed
  <2>1. x \in Guarded
    BY <1>8, PhaseTells DEF Lock
  <2> QED BY <1>0, <1>6, <1>8, <2>1 DEF Lock, Answer
<1>9. ASSUME NEW x \in PluginCommands, AddStep(x) PROVE Typed
  <2>1. x \in Adds
    BY <1>9, PhaseTells
       DEF AddStep, Audit, Install, Verify, Restore, Reinstall, Disable, AddPhases
  <2>2. Subject(x) \in Packages
    BY <2>1, CommandsApart DEF Subject
  <2>3. CASE Audit(x)
    BY <1>0, <1>6, <2>1, <2>3 DEF Audit, Answer
  <2>4. CASE Install(x)
    <3>1. \A kind \in Kinds : [kind |-> kind, by |-> x] \in PluginContents
      BY <2>1 DEF PluginContents
    <3>2. UNCHANGED <<patched, snapshot, plugins>> /\ spoiled' \in BOOLEAN
          /\ holder' \in Guarded \cup {Nobody, Outsider}
      BY <1>0, <1>6, <2>4 DEF Install, Answer
    <3> QED BY <1>0, <1>2, <2>2, <2>4, <3>1, <3>2 DEF Install
  <2>5. CASE Verify(x)
    <3>1. Layers(x) \in SUBSET Packages
      BY <1>4, <2>2 DEF Layers
    <3>2. manifest' \in Manifests
      BY <1>0, <1>3, <2>5, <3>1 DEF Verify, WriteBundles
    <3> QED BY <1>0, <1>6, <2>5, <3>2 DEF Verify, Answer
  <2>6. CASE Restore(x)
    BY <1>0, <2>1, <2>6 DEF Restore
  <2>7. CASE Reinstall(x)
    <3>1. manifest.deps[Subject(x)] \in PluginContents
      BY <1>4, <2>2
    <3> QED BY <1>0, <1>2, <1>4, <1>6, <2>2, <2>7, <3>1 DEF Reinstall, Answer
  <2>8. CASE Disable(x)
    <3>1. manifest' \in Manifests
      BY <1>0, <1>3, <1>4, <2>8 DEF Disable, WriteBundles
    <3> QED BY <1>0, <1>6, <2>8, <3>1 DEF Disable, Answer
  <2> QED BY <1>9, <2>3, <2>4, <2>5, <2>6, <2>7, <2>8 DEF AddStep
<1>10. ASSUME NEW x \in PluginCommands, RemoveStep(x) PROVE Typed
  <2>1. x \in Removes
    BY <1>10, PhaseTells DEF RemoveStep, Unregister, Uninstall, RemovePhases
  <2>2. Subject(x) \in Packages
    BY <2>1, CommandsApart DEF Subject
  <2>3. manifest' \in Manifests /\ content' \in [Packages -> PluginContents]
    BY <1>0, <1>2, <1>3, <1>4, <1>5, <1>10, <2>2
       DEF RemoveStep, Unregister, Uninstall, WriteBundles
  <2> QED BY <1>0, <1>6, <1>10, <2>3 DEF RemoveStep, Unregister, Uninstall, Answer
<1>11. ASSUME NEW x \in PluginCommands, ToggleStep(x) PROVE Typed
  <2>1. x \in Toggles
    BY <1>11, PhaseTells DEF ToggleStep, List, Save, Reload, Revert, Unload, TogglePhases
  <2>2. Subject(x) \in Packages \cup Rows
    BY <2>1, CommandsApart DEF Subject
  <2>3. ASSUME NEW on, SaveAs(Subject(x), on)
        PROVE  manifest' \in Manifests /\ patched' \subseteq Rows
    <3>1. CASE Subject(x) \in Packages
      BY <1>0, <1>3, <1>4, <2>3, <3>1 DEF SaveAs, WriteBundles
    <3>2. CASE Subject(x) \notin Packages
      BY <1>0, <2>2, <2>3, <3>2 DEF SaveAs
    <3> QED BY <3>1, <3>2
  <2>4. manifest' \in Manifests /\ patched' \subseteq Rows
    BY <1>0, <1>11, <2>3 DEF ToggleStep, List, Save, Reload, Revert, Unload
  <2>5. holder' \in Guarded \cup {Nobody, Outsider}
    BY <1>0, <1>6, <1>11 DEF ToggleStep, List, Save, Reload, Revert, Unload, Answer
  <2>6. UNCHANGED <<content, snapshot, spoiled, plugins>>
    BY <1>11 DEF ToggleStep, List, Save, Reload, Revert, Unload
  <2> QED BY <1>0, <2>4, <2>5, <2>6
<1>12. CASE OutsiderLocks \/ DisposePlugins \/ PluginsDisposed \/ UNCHANGED pluginVars
  BY <1>0, <1>12 DEF OutsiderLocks, DisposePlugins, PluginsDisposed, pluginVars
<1> QED
  BY <1>7, <1>8, <1>9, <1>10, <1>11, <1>12 DEF NextPlugins, CommandStep

-----------------------------------------------------------------------------
(* What the profile loads at its next start *)

\* The phases of an add in which its package is neither the old one nor the new one.
Replacing(p) ==
    \E x \in Adds : About[x] = p /\ at[x] \in {"verifying", "restoring", "reinstalling", "disabling"}

Rightful(c, p) == c.kind = "bundle" /\ (c.by \in Trusted \cup {Nobody} \/ Enabling(p))

\* The user has enabled what a rollback that did not complete had left disabled.
Excused(p) == Abandoned(p) /\ Enabling(p)

\* A package is the one that the manifest names, or gone, and a layer of the profile
\* is one that may be; but for the package that an add replaces.
Layer(p) ==
    /\ content[p] \in {manifest.deps[p], Absent} \/ Abandoned(p) \/ Replacing(p)
    /\ p \in manifest.bundles /\ ~Replacing(p) =>
          \/ content[p] = manifest.deps[p] /\ Rightful(manifest.deps[p], p)
          \/ Excused(p)

\* What an add would restore is the manifest but for its package, which may be loaded.
Noted(x) ==
    LET p == About[x] IN
    /\ at[x] \in {"installing", "verifying", "restoring", "reinstalling"} =>
        /\ snapshot[x].bundles = manifest.bundles
        /\ \A q \in Packages \ {p} : snapshot[x].deps[q] = manifest.deps[q]
        /\ p \in manifest.bundles => Rightful(snapshot[x].deps[p], p) \/ Excused(p)
    /\ at[x] = "reinstalling" => manifest = snapshot[x]
    /\ at[x] = "verifying" => content[p] = manifest.deps[p] /\ content[p].by = x

\* A bundle that is about to be enabled can be read.
Readable(x) ==
    x \in Guarded /\ About[x] \in Packages /\ at[x] = "saving" => content[About[x]].kind = "bundle"

Profile ==
    /\ \A p \in Packages : Layer(p)
    /\ \A x \in Adds : Noted(x)
    /\ \A x \in Wanted : Readable(x)

BootInv == ~spoiled => Profile

\* Commands do not become idle again, and what was told stays.
LEMMA ExcusesStay ==
    ASSUME Locked, Locked',
           \A x \in PluginCommands : at[x] # "idle" => at'[x] # "idle",
           \A x \in PluginCommands : told[x] = "leftDisabled" => told'[x] = "leftDisabled"
    PROVE  \A p \in Packages : /\ Enabling(p) => Enabling(p)'
                               /\ Abandoned(p) => Abandoned(p)'
                               /\ Excused(p) => Excused(p)'
<1>1. \A x \in Wanted : x \in PluginCommands
  BY PluginsAssumption DEF PluginCommands
<1>2. \A x \in Adds : x \in PluginCommands
  BY CommandsApart
<1> QED BY <1>1, <1>2 DEF Enabling, Abandoned, Excused

\* A step of a command that goes on or answers only adds to the excuses.
LEMMA StepsExcuse ==
    ASSUME Locked, Locked', NEW x \in PluginCommands, at[x] # "done",
           \/ \E stage : Becomes(x, stage) /\ stage # "idle" /\ UNCHANGED told
           \/ \E reply : Answer(x, reply)
    PROVE  /\ \A p \in Packages : /\ Enabling(p) => Enabling(p)'
                                  /\ Abandoned(p) => Abandoned(p)'
                                  /\ Excused(p) => Excused(p)'
           /\ \A y \in PluginCommands : y # x => at'[y] = at[y]
<1>1. CASE \E stage : Becomes(x, stage) /\ stage # "idle" /\ UNCHANGED told
  <2>1. /\ at'[x] # "idle" /\ UNCHANGED told
        /\ \A y \in PluginCommands : y # x => at'[y] = at[y]
    BY <1>1, BecomesMoves
  <2>2. \A y \in PluginCommands : at[y] # "idle" => at'[y] # "idle"
    BY <2>1
  <2> QED BY <2>1, <2>2, ExcusesStay
<1>2. CASE \E reply : Answer(x, reply)
  <2>1. /\ at'[x] = "done"
        /\ \A y \in PluginCommands : y # x => at'[y] = at[y] /\ told'[y] = told[y]
    BY <1>2, AnswerEnds
  <2>2. told[x] = "nothing"
    BY DEF Locked
  <2>3. /\ \A y \in PluginCommands : at[y] # "idle" => at'[y] # "idle"
        /\ \A y \in PluginCommands : told[y] = "leftDisabled" => told'[y] = "leftDisabled"
    BY <2>1, <2>2
  <2> QED BY <2>1, <2>3, ExcusesStay
<1> QED BY <1>1, <1>2

\* While a command works under the lock, no other one is in a stage of it.
LEMMA OneInside ==
    ASSUME Locked, NEW x \in PluginCommands, x \in Guarded, Inside(x)
    PROVE  \A y \in Guarded : y # x => at[y] \in Outside
  BY DEF Locked, Inside

\* Steps that leave the packages, the manifest and the notes alone.
LEMMA QuietSteps ==
    ASSUME BootInv, Locked, Locked', UNCHANGED <<content, manifest, snapshot, spoiled>>,
           \A p \in Packages : /\ Enabling(p) => Enabling(p)'
                               /\ Abandoned(p) => Abandoned(p)'
                               /\ Excused(p) => Excused(p)',
           \A y \in Adds : \/ at'[y] = at[y]
                           \/ /\ at[y] \notin AddPhases \ {"auditing"}
                              /\ at'[y] \notin AddPhases \ {"auditing"},
           \A y \in Wanted : at'[y] = "saving" => at[y] = "saving" \/ Readable(y)'
    PROVE  BootInv'
<1> SUFFICES ASSUME ~spoiled' PROVE Profile'
  BY DEF BootInv
<1>0. Profile
  BY DEF BootInv
<1>1. \A p \in Packages : Replacing(p)' <=> Replacing(p)
  BY DEF Replacing, AddPhases
<1>2. \A c : \A p \in Packages : Rightful(c, p) => Rightful(c, p)'
  BY DEF Rightful
<1>3. ASSUME NEW p \in Packages PROVE Layer(p)'
  BY <1>0, <1>1, <1>2 DEF Profile, Layer
<1>4. ASSUME NEW y \in Adds PROVE Noted(y)'
  <2>1. About[y] \in Packages
    BY CommandsApart
  <2>2. CASE at'[y] = at[y]
    BY <1>0, <1>2, <2>1, <2>2 DEF Profile, Noted
  <2>3. CASE at'[y] \notin AddPhases \ {"auditing"}
    BY <2>3 DEF Noted, AddPhases
  <2> QED BY <2>2, <2>3
<1>5. ASSUME NEW y \in Wanted PROVE Readable(y)'
  BY <1>0 DEF Profile, Readable
<1> QED BY <1>3, <1>4, <1>5 DEF Profile

\* A step of the command under the lock, as the others see it.
LEMMA ActsAlone ==
    ASSUME Locked, NEW x \in PluginCommands, x \in Guarded, Inside(x),
           \A y \in PluginCommands : y # x => at'[y] = at[y]
    PROVE  /\ \A p \in Packages : x \notin Adds \/ p # About[x] => ~Replacing(p) /\ ~Replacing(p)'
           /\ x \in Adds =>
                /\ Replacing(About[x]) <=>
                     at[x] \in {"verifying", "restoring", "reinstalling", "disabling"}
                /\ Replacing(About[x])' <=>
                     at'[x] \in {"verifying", "restoring", "reinstalling", "disabling"}
           /\ \A y \in Adds : y # x => Noted(y)'
           /\ \A y \in Wanted : y # x => Readable(y)'
<1>1. \A y \in Guarded : y # x => at[y] \in Outside /\ at'[y] \in Outside
  BY OneInside DEF Guarded
<1>2. \A y \in Adds : y \in Guarded
  BY CommandsApart
<1>3. \A p \in Packages : x \notin Adds \/ p # About[x] => ~Replacing(p) /\ ~Replacing(p)'
  BY <1>1, <1>2 DEF Replacing, Outside
<1>4. x \in Adds =>
        /\ Replacing(About[x]) <=>
             at[x] \in {"verifying", "restoring", "reinstalling", "disabling"}
        /\ Replacing(About[x])' <=>
             at'[x] \in {"verifying", "restoring", "reinstalling", "disabling"}
  BY <1>1, <1>2 DEF Replacing, Outside
<1>5. \A y \in Adds : y # x => Noted(y)'
  BY <1>1, <1>2 DEF Noted, Outside
<1>6. \A y \in Wanted : y # x => Readable(y)'
  BY <1>1 DEF Readable, Outside
<1> QED BY <1>3, <1>4, <1>5, <1>6

\* The packages that a step of the command under the lock leaves alone.
LEMMA OthersLayered ==
    ASSUME Profile, Types, NEW p \in Packages, ~Replacing(p), ~Replacing(p)',
           Enabling(p) => Enabling(p)', Abandoned(p) => Abandoned(p)',
           content'[p] = content[p], manifest'.deps[p] = manifest.deps[p],
           p \in manifest'.bundles => p \in manifest.bundles
    PROVE  Layer(p)'
  BY DEF Profile, Layer, Rightful, Excused

LEMMA AddsKeepProfile ==
    ASSUME Types, BootInv, Locked, Locked', NEW x \in PluginCommands, AddStep(x)
    PROVE  BootInv'
<1> SUFFICES ASSUME ~spoiled' PROVE Profile'
  BY DEF BootInv
<1> DEFINE p == About[x]
<1>0. /\ x \in Adds /\ x \in Guarded /\ Inside(x) /\ at[x] # "done" /\ at[x] \in AddPhases
      /\ p \in Packages /\ Subject(x) = p /\ ~spoiled
  <2>1. at[x] \in AddPhases
    BY DEF AddStep, Audit, Install, Verify, Restore, Reinstall, Disable, AddPhases
  <2>2. ~spoiled
    <3>1. spoiled \in BOOLEAN
      BY DEF Types, PluginsTypeOK
    <3> QED BY <3>1 DEF AddStep, Audit, Install, Verify, Restore, Reinstall, Disable
  <2> QED BY <2>1, <2>2, PhaseTells, CommandsApart DEF Inside, Outside, AddPhases, Subject
<1>1. /\ \E reply : Answer(x, reply)
         \/ \E stage : Becomes(x, stage) /\ stage # "idle" /\ UNCHANGED told
  BY DEF AddStep, Audit, Install, Verify, Restore, Reinstall, Disable
<1>2. /\ \A q \in Packages : /\ Enabling(q) => Enabling(q)'
                             /\ Abandoned(q) => Abandoned(q)'
                             /\ Excused(q) => Excused(q)'
      /\ \A y \in PluginCommands : y # x => at'[y] = at[y]
  BY <1>0, <1>1, StepsExcuse
<1>3. /\ \A q \in Packages : q # p => ~Replacing(q) /\ ~Replacing(q)'
      /\ Replacing(p) <=> at[x] \in {"verifying", "restoring", "reinstalling", "disabling"}
      /\ Replacing(p)' <=> at'[x] \in {"verifying", "restoring", "reinstalling", "disabling"}
      /\ \A y \in Adds : y # x => Noted(y)'
      /\ \A y \in Wanted : Readable(y)'
  <2>1. x \notin Wanted
    BY <1>0, CommandsApart, PluginsAssumption
  <2> QED BY <1>0, <1>2, <2>1, ActsAlone
<1>4. Profile /\ Layer(p) /\ Noted(x)
  BY <1>0 DEF BootInv, Profile
<1>5. /\ content \in [Packages -> PluginContents] /\ manifest \in Manifests
      /\ snapshot \in [Adds -> Manifests]
      /\ manifest.deps \in [Packages -> PluginContents]
  BY DEF Types, PluginsTypeOK, Manifests
<1> HIDE DEF p
<1>6. ASSUME \A q \in Packages : q # p => /\ content'[q] = content[q]
                                          /\ manifest'.deps[q] = manifest.deps[q]
                                          /\ q \in manifest'.bundles => q \in manifest.bundles
      PROVE  \A q \in Packages : q # p => Layer(q)'
  BY <1>2, <1>3, <1>4, <1>6, OthersLayered
\* It suffices to look at the package and at what the add has noted.
<1>7. ASSUME \A q \in Packages : q # p => Layer(q)', Layer(p)', Noted(x)' PROVE Profile'
  BY <1>3, <1>7 DEF Profile
<1>8. CASE Audit(x)
  <2>1. UNCHANGED <<content, manifest>>
    BY <1>8 DEF Audit
  <2>2. /\ at[x] = "auditing" /\ at'[x] \in {"installing", "done"}
        /\ at'[x] = "installing" => snapshot' = [snapshot EXCEPT ![x] = manifest]
    BY <1>8, AnswerEnds, BecomesMoves DEF Audit
  <2>3. Layer(p)'
    BY <1>0, <1>2, <1>3, <1>4, <2>1, <2>2, OthersLayered
  <2>4. Noted(x)'
    <3>1. CASE at'[x] = "done"
      BY <3>1 DEF Noted
    <3>2. CASE at'[x] = "installing"
      <4>1. snapshot'[x] = manifest'
        BY <1>0, <1>5, <2>1, <2>2, <3>2
      <4>2. p \in manifest'.bundles => Rightful(manifest.deps[p], p)' \/ Excused(p)'
        BY <1>3, <2>2, <2>3, <3>2 DEF Layer
      <4> QED BY <3>2, <4>1, <4>2 DEF Noted, p
    <3> QED BY <2>2, <3>1, <3>2
  <2> QED BY <1>6, <1>7, <2>1, <2>3, <2>4
<1>9. CASE Install(x)
  <2>1. at[x] = "installing" /\ snapshot' = snapshot
    BY <1>9 DEF Install
  <2>2. CASE at'[x] = "verifying"
    <3>1. PICK kind \in Kinds :
            /\ content' = [content EXCEPT ![p] = [kind |-> kind, by |-> x]]
            /\ manifest' = [manifest EXCEPT !.deps[p] = [kind |-> kind, by |-> x]]
      BY <1>0, <1>9, <2>2, AnswerEnds DEF Install
    <3>2. /\ content'[p] = [kind |-> kind, by |-> x] /\ manifest'.deps[p] = content'[p]
          /\ \A q \in Packages : q # p => /\ content'[q] = content[q]
                                          /\ manifest'.deps[q] = manifest.deps[q]
          /\ manifest'.bundles = manifest.bundles
      BY <1>0, <1>5, <3>1 DEF Manifests
    <3>3. Layer(p)'
      BY <1>3, <2>2, <3>2 DEF Layer
    <3>4. Noted(x)'
      <4>1. /\ snapshot'[x].bundles = manifest'.bundles
            /\ \A q \in Packages \ {p} : snapshot'[x].deps[q] = manifest'.deps[q]
        BY <1>4, <2>1, <3>2 DEF Noted, p
      <4>2. p \in manifest'.bundles => Rightful(snapshot[x].deps[p], p)' \/ Excused(p)'
        BY <1>0, <1>2, <1>4, <2>1, <3>2 DEF Noted, p, Rightful
      <4> QED BY <2>2, <3>2, <4>1, <4>2 DEF Noted, p
    <3> QED BY <1>6, <1>7, <3>2, <3>3, <3>4
  <2>3. CASE at'[x] # "verifying"
    <3>1. at'[x] = "done" /\ UNCHANGED manifest /\ content' = content
      BY <1>0, <1>9, <2>3, AnswerEnds, BecomesMoves DEF Install
    <3>2. Layer(p)'
      BY <1>0, <1>2, <1>3, <1>4, <2>1, <3>1, OthersLayered
    <3>3. Noted(x)'
      BY <3>1 DEF Noted
    <3> QED BY <1>6, <1>7, <3>1, <3>2, <3>3
  <2> QED BY <2>2, <2>3
<1>10. CASE Verify(x)
  <2>1. /\ at[x] = "verifying" /\ UNCHANGED <<content, snapshot>>
        /\ content[p] = manifest.deps[p] /\ content[p].by = x
    BY <1>4, <1>10 DEF Verify, Noted, p
  <2>2. CASE Invalid(x, content[p])
    <3>1. at'[x] = "restoring" /\ UNCHANGED manifest
      BY <1>0, <1>10, <2>2, BecomesMoves DEF Verify
    <3>2. Layer(p)'
      BY <1>3, <2>1, <3>1 DEF Layer
    <3>3. Noted(x)'
      BY <1>0, <1>2, <1>4, <2>1, <3>1 DEF Noted, p, Rightful
    <3> QED BY <1>6, <1>7, <2>1, <3>1, <3>2, <3>3
  <2>3. CASE ~Invalid(x, content[p])
    <3>1. WriteBundles(Layers(x)) /\ at'[x] = "done"
      BY <1>0, <1>10, <2>3, AnswerEnds DEF Verify
    <3>2. /\ manifest'.deps = manifest.deps
          /\ \A q \in Packages : q # p /\ q \in manifest'.bundles => q \in manifest.bundles
          /\ p \in manifest'.bundles => content[p].kind = "bundle"
      BY <1>0, <1>5, <3>1 DEF WriteBundles, Layers, Manifests
    <3>3. p \in manifest'.bundles => x \in Trusted
      BY <2>3, <3>2 DEF Invalid
    <3>4. Layer(p)'
      BY <2>1, <3>2, <3>3 DEF Layer, Rightful
    <3>5. Noted(x)'
      BY <3>1 DEF Noted
    <3> QED BY <1>6, <1>7, <2>1, <3>2, <3>4, <3>5
  <2> QED BY <2>2, <2>3
<1>11. CASE Restore(x)
  <2>1. /\ at[x] = "restoring" /\ UNCHANGED <<content, snapshot>>
        /\ manifest' \in {manifest, snapshot[x]}
        /\ at'[x] \in {"reinstalling", "disabling"}
        /\ at'[x] = "reinstalling" => manifest' = snapshot[x]
    BY <1>11, BecomesMoves DEF Restore
  <2>2. /\ snapshot[x].bundles = manifest.bundles
        /\ \A q \in Packages : q # p => snapshot[x].deps[q] = manifest.deps[q]
        /\ p \in manifest.bundles => Rightful(snapshot[x].deps[p], p) \/ Excused(p)
    BY <1>4, <2>1 DEF Noted, p
  <2>3. Layer(p)'
    BY <1>3, <2>1 DEF Layer
  <2>4. Noted(x)'
    BY <1>0, <1>2, <2>1, <2>2 DEF Noted, p, Rightful
  <2> QED BY <1>6, <1>7, <2>1, <2>2, <2>3, <2>4
<1>12. CASE Reinstall(x)
  <2>1. /\ at[x] = "reinstalling" /\ UNCHANGED <<manifest, snapshot>>
        /\ manifest = snapshot[x]
        /\ at'[x] \in {"done", "disabling"}
    BY <1>4, <1>12, AnswerEnds, BecomesMoves DEF Reinstall, Noted
  <2>2. Noted(x)'
    BY <2>1 DEF Noted
  <2>3. CASE at'[x] = "done"
    <3>1. content' = manifest.deps
      BY <1>0, <1>12, <2>3, BecomesMoves DEF Reinstall
    <3>2. p \in manifest.bundles => Rightful(manifest.deps[p], p) \/ Excused(p)
      BY <1>4, <2>1 DEF Noted, p
    <3>3. Layer(p)'
      BY <1>0, <1>2, <2>1, <3>1, <3>2 DEF Layer, Rightful
    <3>4. ASSUME NEW q \in Packages, q # p PROVE Layer(q)'
      BY <1>2, <1>3, <1>4, <2>1, <3>1, <3>4 DEF Profile, Layer, Rightful
    <3> QED BY <1>7, <2>2, <3>3, <3>4
  <2>4. CASE at'[x] = "disabling"
    <3>1. \A q \in Packages : q # p => content'[q] = content[q]
      BY <1>0, <1>5, <1>12, <2>4, AnswerEnds DEF Reinstall
    <3>2. Layer(p)'
      BY <1>3, <2>4 DEF Layer
    <3> QED BY <1>6, <1>7, <2>1, <2>2, <3>1, <3>2
  <2> QED BY <2>1, <2>3, <2>4
<1>13. CASE Disable(x)
  <2>1. /\ WriteBundles(manifest.bundles \ {p}) /\ Answer(x, "leftDisabled")
        /\ UNCHANGED <<content, snapshot>>
    BY <1>0, <1>13 DEF Disable
  <2>2. at'[x] = "done" /\ told'[x] = "leftDisabled"
    BY <2>1, AnswerEnds
  <2>3. Abandoned(p)'
    BY <1>0, <2>2 DEF Abandoned, p
  <2>4. /\ manifest'.deps = manifest.deps /\ p \notin manifest'.bundles
        /\ \A q \in Packages : q \in manifest'.bundles => q \in manifest.bundles
    BY <1>5, <2>1 DEF WriteBundles, Manifests
  <2>5. Layer(p)'
    BY <2>3, <2>4 DEF Layer
  <2>6. Noted(x)'
    BY <2>2 DEF Noted
  <2> QED BY <1>6, <1>7, <2>1, <2>4, <2>5, <2>6
<1> QED BY <1>8, <1>9, <1>10, <1>11, <1>12, <1>13 DEF AddStep

-----------------------------------------------------------------------------
(* What the commands rely on when they answer *)

NoCancel == "cancelled" \notin Applications

\* A remove has unregistered its package first, an add that reinstalls has restored
\* the manifest, and a toggle that reloads knows what is saved, unless another one
\* of the same plugin is under way.
Known ==
    /\ \A x \in Removes : at[x] = "uninstalling" => About[x] \notin manifest.bundles
    /\ \A x \in Adds : at[x] = "reinstalling" => manifest = snapshot[x]
    /\ NoCancel => \A x \in Toggles : Alone(x) =>
         /\ at[x] \in {"reloading", "reverting"} => Saved(About[x]) = (x \in Wanted)
         /\ at[x] = "unloading" /\ x \in Guarded => ~Saved(About[x])

LEMMA KnownQuiet ==
    ASSUME Known, Locked, UNCHANGED <<manifest, patched>>,
           \A y \in PluginCommands : at[y] # "idle" => at'[y] # "idle",
           \A y \in Adds : \/ at'[y] = at[y] /\ snapshot'[y] = snapshot[y]
                           \/ at'[y] # "reinstalling",
           \A y \in Removes : at'[y] = at[y] \/ at'[y] # "uninstalling",
           \A y \in Toggles : \/ at'[y] = at[y]
                              \/ at[y] = "reloading" /\ at'[y] = "reverting"
                              \/ at'[y] \notin {"reloading", "reverting", "unloading"}
    PROVE  Known'
<1>1. \A x, y \in Toggles : at'[y] = "idle" => at[y] = "idle"
  BY CommandsApart
<1>2. \A x \in Toggles : Alone(x)' => Alone(x)
  BY <1>1 DEF Alone
<1> QED BY <1>2 DEF Known, Saved

\* A command that works under the lock is the only one to know.
LEMMA KnownByOne ==
    ASSUME Known, Locked, Types, Types', NEW x \in PluginCommands, x \in Guarded, Inside(x),
           at'[x] # "idle", \A y \in PluginCommands : y # x => at'[y] = at[y],
           \A u \in Rows : (x \in Toggles /\ u = About[x]) \/ (u \in patched' <=> u \in patched),
           x \in Removes /\ at'[x] = "uninstalling" => About[x] \notin manifest'.bundles,
           x \in Adds /\ at'[x] = "reinstalling" => manifest' = snapshot'[x],
           NoCancel /\ x \in Toggles => 
             /\ at'[x] \in {"reloading", "reverting"} => Saved(About[x])' = (x \in Wanted)
             /\ at'[x] = "unloading" => ~Saved(About[x])'
    PROVE  Known'
<1>1. \A y \in Guarded : y # x => at[y] \in Outside /\ at'[y] \in Outside
  BY OneInside DEF Guarded
<1>2. \A y \in Removes : at'[y] = "uninstalling" => About[y] \notin manifest'.bundles
  BY <1>1, CommandsApart DEF Outside
<1>3. \A y \in Adds : at'[y] = "reinstalling" => manifest' = snapshot'[y]
  BY <1>1, CommandsApart DEF Outside
<1>4. ASSUME NoCancel, NEW y \in Toggles, Alone(y)'
      PROVE  /\ at'[y] \in {"reloading", "reverting"} => Saved(About[y])' = (y \in Wanted)
             /\ at'[y] = "unloading" /\ y \in Guarded => ~Saved(About[y])'
  <2>1. CASE y = x
    BY <1>4, <2>1
  <2>2. CASE y # x /\ y \in Guarded
    BY <1>1, <2>2 DEF Outside
  <2>3. CASE y # x /\ y \notin Guarded
    <3>1. y \in PluginCommands /\ y \in Direct /\ at'[y] = at[y]
      BY <2>3, CommandsApart
    <3>2. About[y] \in Rows \ Packages
      BY <3>1, CommandsApart
    <3>3. Saved(About[y])' = Saved(About[y])
      <4>1. manifest.bundles \subseteq Packages /\ manifest'.bundles \subseteq Packages
        BY DEF Types, Manifests
      <4>2. x \in Toggles => About[x] # About[y]
        BY <1>4, <2>3 DEF Alone
      <4> QED BY <3>2, <4>1, <4>2 DEF Saved
    <3>4. Alone(y)
      <4>1. \A z \in Toggles : at'[z] = "idle" => at[z] = "idle"
        BY CommandsApart
      <4> QED BY <1>4, <4>1 DEF Alone
    <3> QED BY <1>4, <2>3, <3>1, <3>3, <3>4 DEF Known
  <2> QED BY <2>1, <2>2, <2>3
<1> QED BY <1>2, <1>3, <1>4 DEF Known

\* A set beside the lock changes only its own row.
LEMMA KnownByDirect ==
    ASSUME Known, Locked, Types, Types', NEW x \in Direct, UNCHANGED <<manifest, snapshot>>,
           at'[x] # "idle", \A y \in PluginCommands : y # x => at'[y] = at[y],
           \A u \in Rows : u # About[x] => (u \in patched' <=> u \in patched),
           NoCancel /\ at'[x] \in {"reloading", "reverting"} => Saved(About[x])' = (x \in Wanted)
    PROVE  Known'
<1>1. /\ x \in Toggles /\ x \notin Guarded /\ x \in PluginCommands /\ x \notin Adds \cup Removes
      /\ patched \subseteq Rows /\ manifest.bundles \subseteq Packages
  BY CommandsApart DEF Guarded, Types, PluginsTypeOK, Manifests
<1>2. ASSUME NoCancel, NEW y \in Toggles, Alone(y)'
      PROVE  /\ at'[y] \in {"reloading", "reverting"} => Saved(About[y])' = (y \in Wanted)
             /\ at'[y] = "unloading" /\ y \in Guarded => ~Saved(About[y])'
  <2>1. CASE y = x
    BY <1>1, <1>2, <2>1
  <2>2. CASE y # x
    <3>1. at'[y] = at[y] /\ About[y] # About[x] /\ About[y] \in Packages \cup Rows
      BY <1>1, <1>2, <2>2, CommandsApart DEF Alone
    <3>2. Saved(About[y])' = Saved(About[y])
      <4>1. Packages \cap Rows = {}
        BY PluginsAssumption
      <4>2. CASE About[y] \in Rows
        BY <3>1, <4>1, <4>2 DEF Saved
      <4>3. CASE About[y] \in Packages
        <5>1. About[y] \notin patched
          BY <1>1, <4>1, <4>3
        <5>2. About[y] \notin patched'
          BY <4>1, <4>3 DEF Types, PluginsTypeOK
        <5> QED BY <5>1, <5>2 DEF Saved
      <4> QED BY <3>1, <4>2, <4>3
    <3>3. Alone(y)
      <4>1. \A z \in Toggles : at'[z] = "idle" => at[z] = "idle"
        BY <1>1, CommandsApart
      <4> QED BY <1>2, <4>1 DEF Alone
    <3> QED BY <1>2, <3>1, <3>2, <3>3 DEF Known
  <2> QED BY <2>1, <2>2
<1>3. \A y \in Removes \cup Adds : at'[y] = at[y]
  BY <1>1, CommandsApart
<1> QED BY <1>2, <1>3 DEF Known

\* What a step of a command does to where the commands are
LEMMA PluginMoves ==
    ASSUME Locked, NEW x \in PluginCommands, Execute(x) \/ CommandStep(x)
    PROVE  /\ at[x] # "done" /\ at'[x] # "idle"
           /\ \/ \E stage : Becomes(x, stage) /\ stage # "idle" /\ UNCHANGED told
              \/ \E reply : Answer(x, reply)
           /\ \A y \in PluginCommands : y # x => at'[y] = at[y]
<1>1. at[x] # "done"
  BY DEF Execute, CommandStep, Lock, AddStep, Audit, Install, Verify, Restore, Reinstall, Disable,
         RemoveStep, Unregister, Uninstall, ToggleStep, List, Save, Reload, Revert, Unload
<1>2. \/ \E stage : Becomes(x, stage) /\ stage # "idle" /\ UNCHANGED told
      \/ \E reply : Answer(x, reply)
  <2>1. CASE Execute(x)
    BY <2>1 DEF Execute
  <2>2. CASE Lock(x)
    <3>1. CASE holder = Nobody
      <4>1. x \in Adds \/ x \in Removes \/ x \in Toggles
        BY DEF PluginCommands
      <4> QED BY <2>2, <3>1, <4>1, CommandsApart DEF Lock
    <3>2. CASE holder # Nobody
      BY <2>2, <3>2 DEF Lock
    <3> QED BY <3>1, <3>2
  <2>3. CASE AddStep(x)
    BY <2>3 DEF AddStep, Audit, Install, Verify, Restore, Reinstall, Disable
  <2>4. CASE RemoveStep(x) \/ ToggleStep(x)
    BY <2>4 DEF RemoveStep, Unregister, Uninstall, ToggleStep, List, Save, Reload, Revert, Unload
  <2> QED BY <2>1, <2>2, <2>3, <2>4 DEF CommandStep
<1>3. at'[x] # "idle" /\ \A y \in PluginCommands : y # x => at'[y] = at[y]
  BY <1>2, BecomesMoves, AnswerEnds
<1> QED BY <1>1, <1>2, <1>3

\* The manager changes what it was asked to, and nothing else.
LEMMA SaveAsSaves ==
    ASSUME Types, NEW u \in Packages \cup Rows, NEW on \in BOOLEAN, SaveAs(u, on)
    PROVE  /\ Saved(u)' = on
           /\ manifest'.deps = manifest.deps
           /\ \A p \in Packages : p # u => (p \in manifest'.bundles <=> p \in manifest.bundles)
           /\ \A r \in Rows : r # u => (r \in patched' <=> r \in patched)
           /\ u \in Rows => manifest' = manifest
           /\ u \in Packages => (u \in manifest'.bundles <=> on)
<1>1. /\ patched \subseteq Rows /\ manifest \in Manifests /\ manifest.bundles \subseteq Packages
      /\ Packages \cap Rows = {}
  BY PluginsAssumption DEF Types, PluginsTypeOK, Manifests
<1>2. CASE u \in Packages
  <2>1. /\ patched' = patched /\ manifest'.deps = manifest.deps
        /\ manifest'.bundles =
             IF on THEN manifest.bundles \cup {u} ELSE manifest.bundles \ {u}
    BY <1>1, <1>2 DEF SaveAs, WriteBundles, Manifests
  <2>2. u \notin patched
    BY <1>1, <1>2
  <2>3. Saved(u)' = on
    BY <2>1, <2>2 DEF Saved
  <2> QED BY <1>1, <1>2, <2>1, <2>3
<1>3. CASE u \in Rows
  <2>1. /\ manifest' = manifest /\ u \notin Packages
        /\ patched' = (IF on THEN patched \cup {u} ELSE patched \ {u})
    BY <1>1, <1>3 DEF SaveAs
  <2>2. u \notin manifest.bundles
    BY <1>1, <2>1
  <2>3. Saved(u)' = on
    BY <2>1, <2>2 DEF Saved
  <2> QED BY <1>1, <1>3, <2>1, <2>3
<1> QED BY <1>2, <1>3

LEMMA AddsKnown ==
    ASSUME Known, Locked, Types, Types', NEW x \in PluginCommands, AddStep(x) \/ RemoveStep(x)
    PROVE  Known'
<1>1. /\ at'[x] # "idle" /\ \A y \in PluginCommands : y # x => at'[y] = at[y]
      /\ patched' = patched
  <2>1. Execute(x) \/ CommandStep(x)
    BY DEF CommandStep
  <2> QED
    BY <2>1, PluginMoves DEF AddStep, Audit, Install, Verify, Restore, Reinstall, Disable,
                       RemoveStep, Unregister, Uninstall
<1>2. /\ AddStep(x) => x \in Adds /\ Inside(x)
      /\ RemoveStep(x) => x \in Removes /\ Inside(x)
      /\ x \in Guarded /\ x \notin Toggles
  <2>1. /\ AddStep(x) => at[x] \in AddPhases
        /\ RemoveStep(x) => at[x] \in RemovePhases
    BY DEF AddStep, Audit, Install, Verify, Restore, Reinstall, Disable, AddPhases,
           RemoveStep, Unregister, Uninstall, RemovePhases
  <2>2. \A stage \in AddPhases \cup RemovePhases : stage \notin Outside
    BY DEF AddPhases, RemovePhases, Outside
  <2> QED BY <2>1, <2>2, PhaseTells, CommandsApart DEF Inside
<1>3. x \in Removes /\ at'[x] = "uninstalling" => About[x] \notin manifest'.bundles
  <2> SUFFICES ASSUME x \in Removes, at'[x] = "uninstalling"
               PROVE  About[x] \notin manifest'.bundles
    OBVIOUS
  <2>1. RemoveStep(x)
    BY <1>2, CommandsApart
  <2>2. WriteBundles(manifest.bundles \ {About[x]})
    BY <2>1, AnswerEnds DEF RemoveStep, Unregister, Uninstall, Subject
  <2> QED BY <2>2 DEF WriteBundles, Types, Manifests
<1>4. x \in Adds /\ at'[x] = "reinstalling" => manifest' = snapshot'[x]
  <2> SUFFICES ASSUME x \in Adds, at'[x] = "reinstalling" PROVE manifest' = snapshot'[x]
    OBVIOUS
  <2>1. AddStep(x)
    BY <1>2, CommandsApart
  <2>2. Restore(x)
    BY <2>1, AnswerEnds, BecomesMoves
       DEF AddStep, Audit, Install, Verify, Reinstall, Disable
  <2> QED BY <2>2, BecomesMoves DEF Restore
<1> QED BY <1>1, <1>2, <1>3, <1>4, KnownByOne

LEMMA TogglesKnown ==
    ASSUME Known, Locked, Types, Types', NEW x \in PluginCommands, ToggleStep(x)
    PROVE  Known'
<1>1. /\ at'[x] # "idle" /\ \A y \in PluginCommands : y # x => at'[y] = at[y]
      /\ snapshot' = snapshot
  <2>1. Execute(x) \/ CommandStep(x)
    BY DEF CommandStep
  <2> QED BY <2>1, PluginMoves DEF ToggleStep, List, Save, Reload, Revert, Unload
<1>2. /\ x \in Toggles /\ Inside(x) /\ x \notin Adds \cup Removes
      /\ About[x] \in Packages \cup Rows /\ Subject(x) = About[x]
  <2>1. at[x] \in TogglePhases
    BY DEF ToggleStep, List, Save, Reload, Revert, Unload, TogglePhases
  <2>2. \A stage \in TogglePhases : stage \notin Outside
    BY DEF TogglePhases, Outside
  <2> QED BY <2>1, <2>2, PhaseTells, CommandsApart DEF Inside, Subject
\* The steps that save nothing
<1>3. CASE List(x) \/ Reload(x) \/ Unload(x)
  <2>1. UNCHANGED <<manifest, patched>>
    BY <1>3 DEF List, Reload, Unload
  <2>2. \/ at[x] = "reloading" /\ at'[x] = "reverting"
        \/ at'[x] \notin {"reloading", "reverting", "unloading"}
    BY <1>3, AnswerEnds, BecomesMoves DEF List, Reload, Unload
  <2>3. \A y \in PluginCommands : at[y] # "idle" => at'[y] # "idle"
    BY <1>1
  <2>4. \A y \in Adds \cup Removes : at'[y] = at[y] /\ snapshot'[y] = snapshot[y]
    BY <1>1, <1>2, CommandsApart
  <2>5. \A y \in Toggles : \/ at'[y] = at[y]
                           \/ at[y] = "reloading" /\ at'[y] = "reverting"
                           \/ at'[y] \notin {"reloading", "reverting", "unloading"}
    BY <1>1, <2>2, CommandsApart
  <2>6. /\ \A y \in Adds : (at'[y] = at[y] /\ snapshot'[y] = snapshot[y]) \/ at'[y] # "reinstalling"
        /\ \A y \in Removes : at'[y] = at[y] \/ at'[y] # "uninstalling"
    BY <2>4
  <2> QED BY <2>1, <2>3, <2>5, <2>6, KnownQuiet
\* What is written, and where the command is then
<1>4. CASE Save(x) \/ Revert(x)
  <2>1. /\ \A r \in Rows : r = About[x] \/ (r \in patched' <=> r \in patched)
        /\ About[x] \in Rows => manifest' = manifest
    <3>1. UNCHANGED <<manifest, patched>> \/ \E on \in BOOLEAN : SaveAs(About[x], on)
      <4>1. CASE Save(x)
        <5>1. UNCHANGED <<manifest, patched>> \/ SaveAs(Subject(x), x \in Wanted)
          BY <4>1 DEF Save
        <5>2. (x \in Wanted) \in BOOLEAN
          OBVIOUS
        <5> QED BY <1>2, <5>1, <5>2
      <4>2. CASE Revert(x)
        <5>1. UNCHANGED <<manifest, patched>> \/ SaveAs(Subject(x), FALSE)
          BY <4>2 DEF Revert
        <5> QED BY <1>2, <5>1
      <4> QED BY <1>4, <4>1, <4>2
    <3> QED BY <1>2, <3>1, SaveAsSaves
  <2>2. at'[x] \in {"reloading", "reverting"} => Saved(About[x])' = (x \in Wanted)
    <3> SUFFICES ASSUME at'[x] \in {"reloading", "reverting"} 
                 PROVE  Saved(About[x])' = (x \in Wanted)
      OBVIOUS
    <3>1. Save(x)
      <4>1. ASSUME Revert(x) PROVE FALSE
        <5>1. (\E reply : Answer(x, reply)) \/ Becomes(x, "unloading")
          BY <4>1 DEF Revert
        <5> QED BY <5>1, AnswerEnds, BecomesMoves
      <4> QED BY <1>4, <4>1
    <3>2. SaveAs(About[x], x \in Wanted)
      <4>1. PICK application \in Applications :
              \/ Answer(x, NotSaved(x, application))
              \/ SaveAs(Subject(x), x \in Wanted)
        BY <3>1 DEF Save
      <4> QED BY <1>2, <4>1, AnswerEnds
    <3>3. (x \in Wanted) \in BOOLEAN
      OBVIOUS
    <3> QED BY <1>2, <3>2, <3>3, SaveAsSaves
  <2>3. NoCancel /\ x \in Guarded /\ at'[x] = "unloading" => ~Saved(About[x])'
    <3> SUFFICES ASSUME NoCancel, x \in Guarded, at'[x] = "unloading"
                 PROVE  ~Saved(About[x])'
      OBVIOUS
    <3>1. Revert(x)
      BY <1>4, AnswerEnds, BecomesMoves DEF Save
    <3>2. SaveAs(About[x], FALSE)
      BY <1>2, <3>1, AnswerEnds DEF Revert, NoCancel, Unsaved, RevertMissed
    <3>3. Saved(About[x])' = FALSE
      BY <1>2, <3>2, SaveAsSaves
    <3> QED BY <3>3
  <2>4. CASE x \in Guarded
    BY <1>1, <1>2, <2>1, <2>2, <2>3, <2>4, KnownByOne
  <2>5. CASE x \notin Guarded
    <3>1. x \in Direct /\ About[x] \in Rows
      BY <2>5, CommandsApart
    <3>2. manifest' = manifest /\ \A u \in Rows : u # About[x] => (u \in patched' <=> u \in patched)
      BY <2>1, <3>1
    <3> QED BY <1>1, <2>2, <3>1, <3>2, KnownByDirect
  <2> QED BY <2>4, <2>5
<1> QED BY <1>3, <1>4 DEF ToggleStep

LEMMA KnownStays == Known /\ Types /\ Types' /\ Locked /\ [NextPlugins]_pluginVars => Known'
<1> SUFFICES ASSUME Known, Types, Types', Locked, [NextPlugins]_pluginVars PROVE Known'
  OBVIOUS
<1>1. CASE OutsiderLocks \/ DisposePlugins \/ PluginsDisposed \/ UNCHANGED pluginVars
  <2>1. UNCHANGED <<at, manifest, patched, snapshot>>
    BY <1>1 DEF OutsiderLocks, DisposePlugins, PluginsDisposed, pluginVars
  <2> QED BY <2>1, KnownQuiet
<1>2. ASSUME NEW x \in PluginCommands, Execute(x) \/ Lock(x) PROVE Known'
  <2>1. /\ at'[x] # "idle" /\ \A y \in PluginCommands : y # x => at'[y] = at[y]
        /\ UNCHANGED <<manifest, patched, snapshot>>
    <3>1. Execute(x) \/ CommandStep(x)
      BY <1>2 DEF CommandStep
    <3> QED BY <1>2, <3>1, PluginMoves DEF Execute, Lock
  <2>2. at'[x] \notin {"reinstalling", "uninstalling", "reloading", "reverting", "unloading"}
    <3>1. x \in Adds \/ x \in Removes \/ x \in Toggles
      BY DEF PluginCommands
    <3> QED BY <1>2, <3>1, AnswerEnds, BecomesMoves, CommandsApart DEF Execute, Lock
  <2>3. \A y \in Adds \cup Removes \cup Toggles : y \in PluginCommands
    BY DEF PluginCommands
  <2> QED BY <2>1, <2>2, <2>3, KnownQuiet
<1> QED BY <1>1, <1>2, AddsKnown, TogglesKnown DEF NextPlugins, CommandStep

-----------------------------------------------------------------------------
(* What the profile loads stays safe *)

LEMMA RemovesKeepProfile ==
    ASSUME Types, BootInv, Known, Locked, Locked', NEW x \in PluginCommands, RemoveStep(x)
    PROVE  BootInv'
<1> SUFFICES ASSUME ~spoiled' PROVE Profile'
  BY DEF BootInv
<1> DEFINE p == About[x]
<1>0. /\ x \in Removes /\ x \in Guarded /\ Inside(x) /\ at[x] # "done"
      /\ p \in Packages /\ Subject(x) = p /\ ~spoiled
  <2>1. at[x] \in RemovePhases /\ spoiled' = spoiled
    BY DEF RemoveStep, Unregister, Uninstall, RemovePhases
  <2> QED BY <2>1, PhaseTells, CommandsApart DEF Inside, Outside, RemovePhases, Subject
<1>1. \/ \E reply : Answer(x, reply)
      \/ \E stage : Becomes(x, stage) /\ stage # "idle" /\ UNCHANGED told
  BY DEF RemoveStep, Unregister, Uninstall
<1>2. /\ \A q \in Packages : /\ Enabling(q) => Enabling(q)'
                             /\ Abandoned(q) => Abandoned(q)'
                             /\ Excused(q) => Excused(q)'
      /\ \A y \in PluginCommands : y # x => at'[y] = at[y]
  BY <1>0, <1>1, StepsExcuse
<1>3. /\ \A q \in Packages : ~Replacing(q) /\ ~Replacing(q)'
      /\ \A y \in Adds : Noted(y)'
      /\ \A y \in Wanted : Readable(y)'
  <2>1. x \notin Wanted /\ x \notin Adds
    BY <1>0, CommandsApart, PluginsAssumption
  <2> QED BY <1>0, <1>2, <2>1, ActsAlone
<1>4. Profile /\ Layer(p)
  BY <1>0 DEF BootInv, Profile
<1>5. content \in [Packages -> PluginContents] /\ manifest \in Manifests
  BY DEF Types, PluginsTypeOK
<1>6. /\ \A q \in Packages : q # p => content'[q] = content[q] /\ manifest'.deps[q] = manifest.deps[q]
      /\ \A q \in Packages : q \in manifest'.bundles => q \in manifest.bundles
      /\ \/ content'[p] = content[p] /\ manifest'.deps[p] = manifest.deps[p]
         \/ content'[p] = Absent /\ p \notin manifest'.bundles
  <2>1. CASE Unregister(x)
    <3>1. content' = content /\ (manifest' = manifest \/ WriteBundles(manifest.bundles \ {p}))
      BY <1>0, <2>1 DEF Unregister
    <3> QED BY <1>5, <3>1 DEF WriteBundles, Manifests
  <2>2. CASE Uninstall(x)
    <3>1. p \notin manifest.bundles
      BY <1>0, <2>2 DEF Uninstall, Known
    <3>2. /\ content' \in {content, [content EXCEPT ![p] = Absent]}
          /\ \/ manifest' = manifest
             \/ /\ content' = [content EXCEPT ![p] = Absent]
                /\ manifest' = [manifest EXCEPT !.deps[p] = Absent]
      BY <1>0, <2>2 DEF Uninstall
    <3> QED BY <1>0, <1>5, <3>1, <3>2 DEF Manifests
  <2> QED BY <2>1, <2>2 DEF RemoveStep
<1> HIDE DEF p
<1>7. ASSUME NEW q \in Packages PROVE Layer(q)'
  <2>1. CASE content'[q] = content[q] /\ manifest'.deps[q] = manifest.deps[q]
    BY <1>2, <1>3, <1>4, <1>6, <2>1, OthersLayered
  <2>2. CASE content'[q] = Absent /\ q \notin manifest'.bundles
    BY <2>2 DEF Layer
  <2> QED BY <1>6, <2>1, <2>2
<1> QED BY <1>3, <1>7 DEF Profile

\* A toggle of a package, under the lock
LEMMA SwitchesKeepProfile ==
    ASSUME Types, BootInv, Locked, Locked', NEW x \in PluginCommands, x \in Guarded,
           Save(x) \/ Revert(x), About[x] \in Packages
    PROVE  BootInv'
<1> SUFFICES ASSUME ~spoiled' PROVE Profile'
  BY DEF BootInv
<1> DEFINE p == About[x]
<1>0. /\ x \in Toggles /\ x \notin Adds /\ Inside(x) /\ at[x] \in {"saving", "reverting"}
      /\ Subject(x) = p /\ ~spoiled /\ UNCHANGED <<content, spoiled>>
  <2>1. at[x] \in {"saving", "reverting"} /\ UNCHANGED <<content, spoiled>>
    BY DEF Save, Revert
  <2>2. x \in Toggles
    BY <2>1, PhaseTells DEF TogglePhases
  <2> QED BY <2>1, <2>2, CommandsApart DEF Inside, Outside, Subject
<1>1. at'[x] # "idle" /\ at'[x] # "saving"
  <2>1. (\E reply : Answer(x, reply)) \/ Becomes(x, "reloading") \/ Becomes(x, "unloading")
    BY DEF Save, Revert
  <2> QED BY <2>1, AnswerEnds, BecomesMoves
<1>2. /\ \A q \in Packages : /\ Enabling(q) => Enabling(q)'
                             /\ Abandoned(q) => Abandoned(q)'
                             /\ Excused(q) => Excused(q)'
      /\ \A y \in PluginCommands : y # x => at'[y] = at[y]
  <2>1. Execute(x) \/ CommandStep(x)
    BY DEF CommandStep, ToggleStep
  <2> QED BY <2>1, PluginMoves, StepsExcuse
<1>3. /\ \A q \in Packages : ~Replacing(q) /\ ~Replacing(q)'
      /\ \A y \in Adds : Noted(y)'
      /\ \A y \in Wanted : Readable(y)'
  <2>1. Readable(x)'
    BY <1>1 DEF Readable
  <2> QED BY <1>0, <1>2, <2>1, ActsAlone
<1>4. Profile /\ Layer(p)
  BY <1>0 DEF BootInv, Profile
\* What is switched on is readable, and the user has asked for it.
<1>5. /\ manifest'.deps = manifest.deps
      /\ \A q \in Packages : q # p => (q \in manifest'.bundles <=> q \in manifest.bundles)
      /\ \/ p \in manifest'.bundles => p \in manifest.bundles
         \/ Enabling(p)' /\ content[p].kind = "bundle"
  <2>1. CASE UNCHANGED manifest
    BY <2>1
  <2>2. CASE SaveAs(p, FALSE)
    BY <2>2, SaveAsSaves
  <2>3. CASE at[x] = "saving" /\ x \in Wanted /\ SaveAs(p, TRUE)
    <3>1. content[p].kind = "bundle"
      BY <1>4, <2>3 DEF Profile, Readable
    <3>2. Enabling(p)'
      BY <1>1, <2>3 DEF Enabling
    <3> QED BY <2>3, <3>1, <3>2, SaveAsSaves
  <2>4. \/ UNCHANGED manifest \/ SaveAs(p, FALSE)
        \/ at[x] = "saving" /\ x \in Wanted /\ SaveAs(p, TRUE)
    <3>1. CASE Save(x)
      <4>1. at[x] = "saving" /\ (UNCHANGED manifest \/ SaveAs(p, x \in Wanted))
        BY <1>0, <3>1 DEF Save
      <4>2. CASE x \in Wanted
        <5>1. (x \in Wanted) = TRUE
          BY <4>2
        <5> QED BY <4>1, <4>2, <5>1
      <4>3. CASE x \notin Wanted
        <5>1. (x \in Wanted) = FALSE
          BY <4>3
        <5> QED BY <4>1, <5>1
      <4> QED BY <4>2, <4>3
    <3>2. CASE Revert(x)
      BY <1>0, <3>2 DEF Revert
    <3> QED BY <3>1, <3>2
  <2> QED BY <2>1, <2>2, <2>3, <2>4
<1> HIDE DEF p
<1>6. ASSUME NEW q \in Packages, q # p \/ (p \in manifest'.bundles => p \in manifest.bundles)
      PROVE  Layer(q)'
  <2>1. /\ content'[q] = content[q] /\ manifest'.deps[q] = manifest.deps[q]
        /\ q \in manifest'.bundles => q \in manifest.bundles
    BY <1>0, <1>5, <1>6
  <2> QED BY <1>2, <1>3, <1>4, <2>1, OthersLayered
<1>7. ASSUME Enabling(p)', content[p].kind = "bundle" PROVE Layer(p)'
  <2>1. content[p] # Absent
    BY <1>7 DEF Absent
  <2>2. content[p] = manifest.deps[p] \/ Abandoned(p)
    BY <1>3, <1>4, <2>1 DEF Layer, p
  <2> QED BY <1>0, <1>2, <1>5, <1>7, <2>2 DEF Layer, Rightful, Excused, p
<1> QED BY <1>3, <1>5, <1>6, <1>7 DEF Profile

\* The steps that leave the manifest alone
LEMMA OthersKeepProfile ==
    ASSUME Types, BootInv, Locked, Locked', NEW x \in PluginCommands,
           Execute(x) \/ Lock(x) \/ ToggleStep(x), UNCHANGED manifest
    PROVE  BootInv'
<1>1. /\ UNCHANGED <<content, snapshot, spoiled>>
      /\ at'[x] \notin AddPhases \ {"auditing"} /\ at[x] \notin AddPhases \ {"auditing"}
  <2>1. UNCHANGED <<content, snapshot, spoiled>> /\ at[x] \notin AddPhases
    BY DEF Execute, Lock, ToggleStep, List, Save, Reload, Revert, Unload, AddPhases
  <2>2. CASE Execute(x) \/ Lock(x)
    <3>1. x \in Adds \/ x \in Removes \/ x \in Toggles
      BY DEF PluginCommands
    <3> QED BY <2>1, <2>2, <3>1, AnswerEnds, BecomesMoves, CommandsApart DEF Execute, Lock, AddPhases
  <2>3. CASE ToggleStep(x)
    <3>1. \/ \E reply : Answer(x, reply)
          \/ \E stage \in TogglePhases : Becomes(x, stage)
      BY <2>3 DEF ToggleStep, List, Save, Reload, Revert, Unload, TogglePhases
    <3> QED BY <2>1, <3>1, AnswerEnds, BecomesMoves DEF TogglePhases, AddPhases
  <2> QED BY <2>1, <2>2, <2>3
<1>2. /\ \A q \in Packages : /\ Enabling(q) => Enabling(q)'
                             /\ Abandoned(q) => Abandoned(q)'
                             /\ Excused(q) => Excused(q)'
      /\ \A y \in PluginCommands : y # x => at'[y] = at[y]
  <2>1. Execute(x) \/ CommandStep(x)
    BY DEF CommandStep
  <2> QED BY <2>1, PluginMoves, StepsExcuse
<1>3. \A y \in Adds : \/ at'[y] = at[y]
                      \/ /\ at[y] \notin AddPhases \ {"auditing"}
                         /\ at'[y] \notin AddPhases \ {"auditing"}
  BY <1>1, <1>2, CommandsApart
<1>4. \A y \in Wanted : at'[y] = "saving" => at[y] = "saving" \/ Readable(y)'
  <2> SUFFICES ASSUME NEW y \in Wanted, at'[y] = "saving", at[y] # "saving"
               PROVE  Readable(y)'
    OBVIOUS
  <2>1. y \in PluginCommands
    BY PluginsAssumption DEF PluginCommands
  <2>2. y = x
    BY <1>2, <2>1
  <2>3. List(x) /\ ~Refused(x)
    <3>1. CASE List(x)
      BY <2>2, <3>1, AnswerEnds DEF List
    <3>2. CASE Execute(x)
      BY <2>2, <3>2, BecomesMoves DEF Execute
    <3>3. CASE Lock(x)
      <4>1. x \in Adds \/ x \in Removes \/ x \in Toggles
        BY DEF PluginCommands
      <4> QED BY <2>2, <3>3, <4>1, AnswerEnds, BecomesMoves, CommandsApart DEF Lock
    <3>4. CASE Save(x) \/ Reload(x) \/ Revert(x) \/ Unload(x)
      <4>1. \/ \E reply : Answer(x, reply)
            \/ \E stage \in {"reloading", "reverting", "unloading"} : Becomes(x, stage)
        BY <3>4 DEF Save, Reload, Revert, Unload
      <4> QED BY <2>2, <4>1, AnswerEnds, BecomesMoves
    <3> QED BY <3>1, <3>2, <3>3, <3>4 DEF ToggleStep
  <2> QED BY <1>1, <2>2, <2>3 DEF Readable, Refused, Subject
<1> QED BY <1>1, <1>2, <1>3, <1>4, QuietSteps

LEMMA BootStays ==
    BootInv /\ Known /\ Types /\ Locked /\ Locked' /\ [NextPlugins]_pluginVars => BootInv'
<1> SUFFICES ASSUME BootInv, Known, Types, Locked, Locked', [NextPlugins]_pluginVars
             PROVE  BootInv'
  OBVIOUS
<1>1. CASE OutsiderLocks \/ DisposePlugins \/ PluginsDisposed \/ UNCHANGED pluginVars
  <2>1. UNCHANGED <<at, told, content, manifest, snapshot, spoiled>>
    BY <1>1 DEF OutsiderLocks, DisposePlugins, PluginsDisposed, pluginVars
  <2>2. \A q \in Packages : /\ Enabling(q) => Enabling(q)'
                            /\ Abandoned(q) => Abandoned(q)'
                            /\ Excused(q) => Excused(q)'
    BY <2>1 DEF Enabling, Abandoned, Excused
  <2> QED BY <2>1, <2>2, QuietSteps
<1>2. ASSUME NEW x \in PluginCommands, ToggleStep(x) PROVE BootInv'
  <2>1. x \in Toggles /\ Subject(x) = About[x] /\ About[x] \in Packages \cup Rows
    <3>1. at[x] \in TogglePhases
      BY <1>2 DEF ToggleStep, List, Save, Reload, Revert, Unload, TogglePhases
    <3> QED BY <3>1, PhaseTells, CommandsApart DEF Subject
  <2>2. CASE x \in Guarded /\ About[x] \in Packages /\ (Save(x) \/ Revert(x))
    BY <2>2, SwitchesKeepProfile
  <2>3. CASE About[x] \in Rows \/ List(x) \/ Reload(x) \/ Unload(x)
    <3>1. UNCHANGED manifest
      <4>1. CASE List(x) \/ Reload(x) \/ Unload(x)
        BY <4>1 DEF List, Reload, Unload
      <4>2. CASE About[x] \in Rows /\ (Save(x) \/ Revert(x))
        <5>1. About[x] \notin Packages
          BY <4>2, PluginsAssumption
        <5> QED BY <2>1, <4>2, <5>1 DEF Save, Revert, SaveAs
      <4> QED BY <1>2, <2>3, <4>1, <4>2 DEF ToggleStep
    <3> QED BY <1>2, <3>1, OthersKeepProfile
  <2>4. x \in Guarded \/ About[x] \in Rows
    BY CommandsApart
  <2> QED BY <1>2, <2>1, <2>2, <2>3, <2>4 DEF ToggleStep
<1>3. ASSUME NEW x \in PluginCommands, Execute(x) \/ Lock(x) PROVE BootInv'
  <2>1. UNCHANGED manifest
    BY <1>3 DEF Execute, Lock
  <2> QED BY <1>3, <2>1, OthersKeepProfile
<1> QED
  BY <1>1, <1>2, <1>3, AddsKeepProfile, RemovesKeepProfile DEF NextPlugins, CommandStep

-----------------------------------------------------------------------------
PluginsInv == Types /\ Locked /\ Known /\ BootInv

LEMMA PluginsStart == InitPlugins => PluginsInv
<1> SUFFICES ASSUME InitPlugins PROVE PluginsInv
  OBVIOUS
<1>0. content \in [Packages -> PluginContents] /\ \A p \in Packages : content[p].by = Nobody
  <2>1. content \in [Packages -> {c \in PluginContents : c.by = Nobody}]
    BY PluginsAssumption DEF InitPlugins
  <2> QED BY <2>1
<1>1. /\ manifest \in Manifests /\ manifest.deps = content
      /\ \A p \in manifest.bundles : content[p].kind = "bundle"
      /\ patched \subseteq Rows /\ holder = Nobody /\ spoiled = FALSE /\ plugins = "open"
      /\ at = [x \in PluginCommands |-> "idle"] /\ told = [x \in PluginCommands |-> "nothing"]
      /\ snapshot = [x \in Adds |-> manifest]
  BY <1>0 DEF InitPlugins, Manifests
<1>2. Types
  BY <1>0, <1>1 DEF Types, PluginsTypeOK, Manifests
<1>3. Locked
  <2>1. \A x \in PluginCommands : at[x] = "idle" /\ told[x] = "nothing"
    BY <1>1
  <2>2. \A x \in Guarded \cup Direct : x \in PluginCommands
    BY CommandsApart DEF Guarded, PluginCommands
  <2> QED BY <1>1, <2>1, <2>2 DEF Locked, Phase, Inside, Outside
<1>4. \A x \in Adds \cup Removes \cup Toggles : at[x] = "idle"
  BY <1>1 DEF PluginCommands
<1>5. Known
  BY <1>4 DEF Known
<1>6. BootInv
  <2>1. ASSUME NEW p \in Packages PROVE Layer(p)
    BY <1>0, <1>1 DEF Layer, Rightful
  <2>2. \A x \in Adds : Noted(x)
    BY <1>4 DEF Noted
  <2>3. \A x \in Wanted : Readable(x)
    BY <1>4, PluginsAssumption DEF Readable
  <2> QED BY <2>1, <2>2, <2>3 DEF BootInv, Profile
<1> QED BY <1>2, <1>3, <1>5, <1>6 DEF PluginsInv

LEMMA PluginsStay == PluginsInv /\ [NextPlugins]_pluginVars => PluginsInv'
  BY LockedStays, TypesStay, KnownStays, BootStays DEF PluginsInv

LEMMA PluginsAlways == PluginSpec => []PluginsInv
  BY PluginsStart, PluginsStay, PTL DEF PluginSpec

\* Whenever no command is under way, what the profile loads at its next start is a
\* bundle that can be read and that nobody but the user has let in
\* (plugin-bundles.ts, profile-plugins.ts).
THEOREM BootIsSafe == PluginSpec => []BootSafe
<1>1. PluginsInv => BootSafe
  <2> SUFFICES ASSUME PluginsInv, holder \in {Nobody, Outsider}, ~spoiled,
                      NEW p \in manifest.bundles
               PROVE  /\ content[p].kind = "bundle" \/ (Abandoned(p) /\ Enabling(p))
                      /\ content[p].by \in Trusted \cup {Nobody} \/ Enabling(p)
    BY DEF BootSafe
  <2>1. p \in Packages
    BY DEF PluginsInv, Types, Manifests
  <2>2. ~Replacing(p)
    <3>1. \A x \in Adds : holder # x /\ x \in Guarded
      BY CommandsApart
    <3> QED BY <3>1 DEF PluginsInv, Locked, Inside, Outside, Replacing
  <2>3. Layer(p)
    BY <2>1 DEF PluginsInv, BootInv, Profile
  <2> QED BY <2>2, <2>3 DEF Layer, Rightful, Excused
<1> QED BY <1>1, PluginsAlways, PTL

-----------------------------------------------------------------------------
(* What the commands answer *)

\* Only the step that answers changes what was told.
LEMMA ToldByStep ==
    ASSUME Locked, [NextPlugins]_pluginVars, NEW x \in PluginCommands, told'[x] # told[x]
    PROVE  Execute(x) \/ CommandStep(x)
<1>1. CASE OutsiderLocks \/ DisposePlugins \/ PluginsDisposed \/ UNCHANGED pluginVars
  BY <1>1 DEF OutsiderLocks, DisposePlugins, PluginsDisposed, pluginVars
<1>2. ASSUME NEW y \in PluginCommands, Execute(y) \/ CommandStep(y), y # x PROVE FALSE
  <2>1. \/ UNCHANGED told
        \/ \E reply : Answer(y, reply)
    BY <1>2, PluginMoves
  <2> QED BY <1>2, <2>1, AnswerEnds
<1> QED BY <1>1, <1>2 DEF NextPlugins

LEMMA TrueAdds ==
    ASSUME PluginsInv, NEW x \in PluginCommands, AddStep(x), told'[x] # told[x]
    PROVE  True(x)
<1> DEFINE u == About[x]
<1>0. /\ x \in Adds /\ u \in Packages /\ Subject(x) = u /\ Locked
      /\ content \in [Packages -> PluginContents] /\ manifest \in Manifests
  <2>1. at[x] \in AddPhases
    BY DEF AddStep, Audit, Install, Verify, Restore, Reinstall, Disable, AddPhases
  <2> QED BY <2>1, PhaseTells, CommandsApart DEF PluginsInv, Types, PluginsTypeOK, Subject
<1>1. CASE Audit(x)
  <2>1. told'[x] \in {"refused", "failed"} /\ UNCHANGED <<manifest, patched>>
    BY <1>0, <1>1, AnswerEnds DEF Audit
  <2> QED BY <2>1 DEF True
<1>2. CASE Install(x)
  <2>1. told'[x] = "failed"
    BY <1>0, <1>2, AnswerEnds DEF Install
  <2> QED BY <2>1 DEF True
<1>3. CASE Verify(x)
  <2>1. \/ told'[x] = "failed"
        \/ /\ told'[x] = "installed" /\ content' = content
           /\ manifest' = [manifest EXCEPT !.bundles = Layers(x)]
    BY <1>0, <1>3, AnswerEnds DEF Verify, WriteBundles
  <2>2. manifest' = [manifest EXCEPT !.bundles = Layers(x)]
        => (u \in manifest'.bundles <=> content[u].kind = "bundle")
    BY <1>0 DEF Layers, Manifests
  <2> QED BY <1>0, <2>1, <2>2 DEF True
<1>4. CASE Restore(x)
  BY <1>0, <1>4 DEF Restore
<1>5. CASE Reinstall(x)
  <2>1. manifest = snapshot[x]
    BY <1>0, <1>5 DEF Reinstall, PluginsInv, Known
  <2>2. /\ told'[x] = "rolledBack" /\ content' = manifest.deps
        /\ UNCHANGED <<manifest, snapshot>>
    BY <1>0, <1>5, AnswerEnds DEF Reinstall
  <2> QED BY <1>0, <2>1, <2>2 DEF True
<1>6. CASE Disable(x)
  <2>1. \/ told'[x] = "failed"
        \/ /\ told'[x] = "leftDisabled"
           /\ manifest' = [manifest EXCEPT !.bundles = manifest.bundles \ {u}]
    BY <1>0, <1>6, AnswerEnds DEF Disable, WriteBundles
  <2> QED BY <1>0, <2>1 DEF True, Manifests
<1> QED BY <1>1, <1>2, <1>3, <1>4, <1>5, <1>6 DEF AddStep

LEMMA TrueRemoves ==
    ASSUME PluginsInv, NEW x \in PluginCommands, RemoveStep(x), told'[x] # told[x]
    PROVE  True(x)
<1> DEFINE u == About[x]
<1>0. /\ x \in Removes /\ u \in Packages /\ Subject(x) = u /\ Locked
      /\ content \in [Packages -> PluginContents] /\ manifest \in Manifests
  <2>1. at[x] \in RemovePhases
    BY DEF RemoveStep, Unregister, Uninstall, RemovePhases
  <2> QED BY <2>1, PhaseTells, CommandsApart DEF PluginsInv, Types, PluginsTypeOK, Subject
<1>1. CASE Unregister(x)
  <2>1. told'[x] \in {"notInstalled", "failed"}
    BY <1>0, <1>1, AnswerEnds DEF Unregister
  <2> QED BY <2>1 DEF True
<1>2. CASE Uninstall(x)
  <2>1. u \notin manifest.bundles
    BY <1>0, <1>2 DEF Uninstall, PluginsInv, Known
  <2>2. \/ told'[x] = "unregistered" /\ manifest' = manifest
        \/ /\ told'[x] = "removed" /\ content' = [content EXCEPT ![u] = Absent]
           /\ manifest' = [manifest EXCEPT !.deps[u] = Absent]
    BY <1>0, <1>2, AnswerEnds DEF Uninstall
  <2> QED BY <1>0, <2>1, <2>2 DEF True, Manifests, Absent
<1> QED BY <1>1, <1>2 DEF RemoveStep

LEMMA TrueToggles ==
    ASSUME PluginsInv, NoCancel, NEW x \in PluginCommands, ToggleStep(x), told'[x] # told[x]
    PROVE  True(x)
<1> DEFINE u == About[x]
<1>0. /\ x \in Toggles /\ u \in Packages \cup Rows /\ Subject(x) = u /\ Locked /\ Types
  <2>1. at[x] \in TogglePhases
    BY DEF ToggleStep, List, Save, Reload, Revert, Unload, TogglePhases
  <2> QED BY <2>1, PhaseTells, CommandsApart DEF PluginsInv, Subject
<1>1. Alone(x) => /\ at[x] \in {"reloading", "reverting"} => Saved(u) = (x \in Wanted)
                  /\ at[x] = "unloading" /\ x \in Guarded => ~Saved(u)
  BY <1>0 DEF PluginsInv, Known
<1>2. UNCHANGED <<manifest, patched>> => Saved(u)' = Saved(u)
  BY DEF Saved
<1> HIDE DEF u
<1>3. CASE List(x)
  <2>1. told'[x] \in {"refused", "already", "failed"} /\ UNCHANGED <<manifest, patched>>
    BY <1>0, <1>3, AnswerEnds DEF List
  <2> QED BY <2>1 DEF True
<1>4. CASE Save(x)
  <2>1. PICK application \in Applications :
          \/ /\ application \in Unsaved
             /\ Answer(x, NotSaved(x, application))
             /\ UNCHANGED <<manifest, patched>>
          \/ /\ application \notin Unsaved
             /\ SaveAs(u, x \in Wanted)
             /\ IF application = "restart-required"
                THEN Becomes(x, "reloading") /\ UNCHANGED <<told, holder>>
                ELSE Answer(x, application)
    BY <1>0, <1>4 DEF Save
  <2>2. CASE application \in Unsaved
    <3>1. NotSaved(x, application) \in {"failed", "refused"}
      BY <2>1, <2>2 DEF NotSaved, NoCancel, Unsaved
    <3>2. told'[x] \in {"failed", "refused"} /\ UNCHANGED <<manifest, patched>>
      BY <1>0, <2>1, <2>2, <3>1, AnswerEnds
    <3> QED BY <3>2 DEF True
  <2>3. CASE application \notin Unsaved
    <3>1. (x \in Wanted) \in BOOLEAN
      OBVIOUS
    <3>2. Saved(u)' = (x \in Wanted)
      BY <1>0, <2>1, <2>3, <3>1, SaveAsSaves
    <3>3. told'[x] \in {"applied", "overridden"}
      <4>1. application \in {"applied", "overridden", "restart-required"}
        BY <2>3, PluginsAssumption DEF Unsaved
      <4>2. application # "restart-required"
        BY <2>1, <2>3
      <4> QED BY <1>0, <2>1, <2>3, <4>1, <4>2, AnswerEnds
    <3> QED BY <1>0, <3>2, <3>3 DEF True
  <2> QED BY <2>2, <2>3
<1>5. CASE Reload(x)
  <2>1. /\ told'[x] \in {"applied", "overridden", "changed", "failed"}
        /\ at[x] = "reloading" /\ UNCHANGED <<manifest, patched>>
    BY <1>0, <1>5, AnswerEnds DEF Reload, Outcome
  <2>2. Alone(x) => Saved(u)' = (x \in Wanted)
    BY <1>1, <1>2, <2>1
  <2> QED BY <1>0, <2>1, <2>2 DEF True
<1>6. CASE Revert(x)
  <2>1. told'[x] = "unknown"
    BY <1>0, <1>6, AnswerEnds DEF Revert
  <2> QED BY <2>1 DEF True
<1>7. CASE Unload(x)
  <2>1. /\ told'[x] \in {"reverted", "unknown"}
        /\ at[x] = "unloading" /\ UNCHANGED <<manifest, patched>>
    BY <1>0, <1>7, AnswerEnds DEF Unload
  <2>2. Alone(x) /\ x \in Guarded => ~Saved(u)'
    BY <1>1, <1>2, <2>1
  <2> QED BY <1>0, <2>1, <2>2 DEF True
<1> QED BY <1>3, <1>4, <1>5, <1>6, <1>7 DEF ToggleStep

\* The answers of /dsh add, remove, enable and disable and of /browser and /provider
\* are about what is in the profile when they are given (profile-plugins.ts,
\* plugin-rows.ts), provided the manager cancels no change: set() takes one that
\* was cancelled for one that was made.
THEOREM AnswersAreTrue == NoCancel => (PluginSpec => AnswersTrue)
<1> SUFFICES ASSUME NoCancel PROVE PluginSpec => AnswersTrue
  OBVIOUS
<1> DEFINE Truthful == \A x \in PluginCommands : told'[x] # told[x] => True(x)
<1>1. PluginsInv /\ [NextPlugins]_pluginVars => [Truthful]_pluginVars
  <2> SUFFICES ASSUME PluginsInv, [NextPlugins]_pluginVars, NEW x \in PluginCommands,
                      told'[x] # told[x]
               PROVE  True(x)
    OBVIOUS
  <2>1. Locked
    BY DEF PluginsInv
  <2>2. Execute(x) \/ CommandStep(x)
    BY <2>1, ToldByStep
  <2>3. CASE Execute(x)
    BY <2>3 DEF Execute
  <2>4. CASE Lock(x)
    <3>1. told'[x] = "failed"
      BY <2>1, <2>4, AnswerEnds DEF Lock
    <3> QED BY <3>1 DEF True
  <2> QED BY <2>2, <2>3, <2>4, TrueAdds, TrueRemoves, TrueToggles DEF CommandStep
<1> HIDE DEF Truthful
<1>2. PluginSpec => [][Truthful]_pluginVars
  BY <1>1, PluginsAlways, PTL DEF PluginSpec
<1> QED BY <1>2 DEF Truthful, AnswersTrue
-----------------------------------------------------------------------------
(* The launcher: the inductive invariant *)

RemovalPhases == {"manifest", "plugin", "runtime", "tui"}
Uninstalls == {"unlinking", "entry"} \cup RemovalPhases
Holding == {"preparing", "healing", "moving"} \cup Uninstalls
Wanting == {"downloading", "waiting", "healing", "moving"}
PhaseKinds == Over \cup Uninstalls \cup Wanting \cup
    {"idle", "scanning", "recovering", "importing", "checking", "deciding", "locking",
     "preparing", "relinking"}
Coding == PhaseKinds \ ({"idle", "scanning", "recovering", "importing"} \cup Over)

\* Who is where has what it takes to be there.
Equipped(p) ==
    /\ phase[p] \in Uninstalls => p \in Removals
    /\ phase[p] = "locking" => p \in Launches \cup Removals
    /\ phase[p] \in Coding => code[p] # 0
    /\ phase[p] \in Wanting => wanted[p] # 0
    /\ phase[p] \in Holding <=> lockedBy = p

\* Moves are journalled, by whoever has the lock or had it; those of the plugin
\* come first, and the link does not lead to it any more.
Moving ==
    /\ \A p \in Processes : phase[p] = "moving" => transaction # NoTransaction
    /\ transaction # NoTransaction =>
            /\ lockedBy = NoProcess \/ phase[lockedBy] = "moving"
            /\ transaction.moved >= 2 => disk.plugin # 0
            /\ transaction.moved = 0 /\ link = "direct" /\ "heal" \notin mishaps => disk.plugin = 0

LauncherInv == LauncherTypeOK /\ (\A p \in Processes : Equipped(p)) /\ Moving

LEMMA LauncherFacts ==
    /\ Packaged \in Nat \ {0} /\ Latest \in Nat \ {0} /\ Dev \notin Nat
    /\ Launches \cap Removals = {} /\ Upgrades \cap (Launches \cup Removals) = {}
    /\ NoProcess \notin Processes /\ NoTransaction \notin MoveJournals
    /\ DOMAIN RemovalOrder = RemovalPhases
    /\ Processes = Launches \cup Upgrades \cup Removals
  BY LauncherAssumption DEF RemovalOrder, RemovalPhases, Processes

LEMMA LauncherTyped ==
    ASSUME LauncherTypeOK
    PROVE  /\ phase \in [Processes -> PhaseKinds]
           /\ disk \in Profiles /\ disk.plugin \in Nat /\ disk.manifest \in Nat
           /\ disk.runtime \in Nat /\ disk.tui \in Nat \cup {Dev}
           /\ transaction # NoTransaction => /\ transaction \in MoveJournals
                                             /\ transaction.disk \in Profiles
                                             /\ transaction.disk.plugin \in Nat
                                             /\ transaction.moved \in 0 .. 8
  BY LauncherFacts DEF LauncherTypeOK, PhaseKinds, Uninstalls, Wanting, Profiles, MoveJournals

LEMMA LauncherStarts == InitLauncher => LauncherInv
<1> SUFFICES ASSUME InitLauncher PROVE LauncherInv
  OBVIOUS
<1>1. disk \in Profiles /\ link \in {"absent", "foreign", "stable", "direct"}
  BY DEF InitLauncher, Profiles
<1>2. LauncherTypeOK
  BY <1>1 DEF InitLauncher, LauncherTypeOK
<1>3. \A p \in Processes : Equipped(p)
  BY LauncherFacts DEF InitLauncher, Equipped, Coding, Wanting, Holding, Uninstalls, RemovalPhases
<1>4. Moving
  BY DEF InitLauncher, Moving
<1> QED BY <1>2, <1>3, <1>4 DEF LauncherInv

\* A process goes on to another phase, and takes, keeps or drops the lock.
LEMMA ProcessGoesOn ==
    ASSUME LauncherInv, NEW p \in Processes, NEW to \in PhaseKinds, Moves(p, to),
           LauncherTypeOK', Moving',
           \A q \in Processes : q # p => code'[q] = code[q] /\ wanted'[q] = wanted[q],
           to \in Uninstalls => p \in Removals,
           to = "locking" => p \in Launches \cup Removals,
           to \in Coding => code'[p] # 0,
           to \in Wanting => wanted'[p] # 0,
           \/ lockedBy' = lockedBy /\ (to \in Holding <=> phase[p] \in Holding)
           \/ lockedBy = NoProcess /\ lockedBy' = p /\ to \in Holding
           \/ Frees(p) /\ to \notin Holding
    PROVE  LauncherInv'
<1>1. phase \in [Processes -> PhaseKinds] /\ phase' = [phase EXCEPT ![p] = to]
  BY LauncherTyped DEF LauncherInv, Moves
<1>2. ASSUME NEW q \in Processes, q # p PROVE Equipped(q)'
  <2>1. phase'[q] = phase[q] /\ code'[q] = code[q] /\ wanted'[q] = wanted[q]
    BY <1>1, <1>2
  <2>2. lockedBy' = q <=> lockedBy = q
    BY <1>2, LauncherFacts DEF Frees
  <2> QED BY <2>1, <2>2 DEF LauncherInv, Equipped
<1>3. Equipped(p)'
  <2>1. phase'[p] = to
    BY <1>1
  <2>2. to \in Holding <=> lockedBy' = p
    BY LauncherFacts DEF LauncherInv, Equipped, Frees
  <2> QED BY <2>1, <2>2 DEF Equipped
<1> QED BY <1>2, <1>3 DEF LauncherInv

\* Nothing of the profile changes: the moves stay what they are.
LEMMA MovesStay ==
    ASSUME LauncherInv, NEW p \in Processes, NEW to \in PhaseKinds, Moves(p, to),
           to # "moving", phase[p] # "moving" \/ Frees(p),
           lockedBy' = lockedBy \/ Frees(p) \/ (transaction = NoTransaction),
           UNCHANGED <<disk, transaction>>,
           mishaps \subseteq mishaps',
           link' = link \/ link' # "direct" \/ disk.plugin = 0
    PROVE  Moving'
<1>1. phase \in [Processes -> PhaseKinds] /\ phase' = [phase EXCEPT ![p] = to]
  BY LauncherTyped DEF LauncherInv, Moves
<1>2. \A q \in Processes : phase'[q] = "moving" => phase[q] = "moving"
  BY <1>1
<1>3. transaction # NoTransaction => lockedBy' = NoProcess \/ phase'[lockedBy'] = "moving"
  <2> SUFFICES ASSUME transaction # NoTransaction, lockedBy' # NoProcess
               PROVE  phase'[lockedBy'] = "moving"
    OBVIOUS
  <2>1. lockedBy' = lockedBy /\ lockedBy \in Processes /\ phase[lockedBy] = "moving"
    BY DEF LauncherInv, Moving, Frees, LauncherTypeOK
  <2>2. lockedBy # p
    BY <2>1, LauncherFacts DEF Frees
  <2> QED BY <1>1, <2>1, <2>2
<1> QED BY <1>2, <1>3 DEF LauncherInv, Moving

\* The types of what a step leaves.
LEMMA TypesGoOn ==
    ASSUME LauncherTypeOK, NEW p \in Processes, NEW to \in PhaseKinds, Moves(p, to),
           disk' \in Profiles, entry' \in BOOLEAN,
           link' \in {"absent", "foreign", "stable", "direct"},
           transaction' \in MoveJournals \cup {NoTransaction},
           lockedBy' = lockedBy \/ lockedBy' = p \/ Frees(p),
           code' \in [Processes -> Nat], wanted' \in [Processes -> Nat],
           store' \subseteq Processes
    PROVE  LauncherTypeOK'
<1>1. lockedBy' \in Processes \cup {NoProcess}
  BY DEF LauncherTypeOK, Frees
<1>2. phase' \in [Processes -> PhaseKinds]
  BY LauncherTyped DEF Moves
<1> QED BY <1>1, <1>2, LauncherFacts DEF LauncherTypeOK, PhaseKinds, Uninstalls, Wanting

\* Whoever holds the lock and does not move works on a profile that is whole.
LEMMA AtRest ==
    ASSUME LauncherInv, NEW p \in Processes, phase[p] \in Holding
    PROVE  /\ lockedBy = p
           /\ phase[p] # "moving" => transaction = NoTransaction
           /\ phase[p] = "moving" => transaction # NoTransaction
  BY LauncherFacts DEF LauncherInv, Equipped, Moving

\* A step that changes neither the profile nor the link.
LEMMA LeavesProfile ==
    ASSUME LauncherInv, NEW p \in Processes, NEW to \in PhaseKinds, Moves(p, to),
           UNCHANGED <<disk, linkVars, transaction>>,
           to \notin {"locking", "moving"} \cup Uninstalls \/ (to = "locking" /\ p \in Launches \cup Removals),
           \/ lockedBy' = lockedBy /\ to \notin Holding /\ phase[p] \notin Holding
           \/ lockedBy' = lockedBy /\ to = "healing" /\ phase[p] = "healing"
           \/ Frees(p) /\ to \notin Holding,
           mishaps \subseteq mishaps',
           code' \in [Processes -> Nat], wanted' \in [Processes -> Nat], store' \subseteq Processes,
           \A q \in Processes : q # p => code'[q] = code[q] /\ wanted'[q] = wanted[q],
           to \in Coding => code'[p] # 0,
           to \in Wanting => wanted'[p] # 0
    PROVE  LauncherInv'
<1>1. LauncherTypeOK'
  BY TypesGoOn DEF LauncherInv, LauncherTypeOK, linkVars
<1>2. phase[p] # "moving" \/ Frees(p)
  BY DEF Holding
<1>3. Moving'
  BY <1>2, MovesStay DEF linkVars
<1>4. \/ lockedBy' = lockedBy /\ (to \in Holding <=> phase[p] \in Holding)
      \/ Frees(p) /\ to \notin Holding
  OBVIOUS
<1> QED BY <1>1, <1>3, <1>4, ProcessGoesOn DEF Uninstalls, RemovalPhases

LEMMA LauncherEnds ==
    ASSUME LauncherInv, NEW p \in Processes,
           LockTimesOut(p) \/ KillProcess(p) \/ SearchEnds(p)
    PROVE  LauncherInv'
<1> PICK to \in {"failed", "killed"} : Moves(p, to)
  BY DEF LockTimesOut, KillProcess, SearchEnds, Refuse
<1>1. to \in PhaseKinds /\ to \notin Coding \cup Holding \cup Wanting \cup Uninstalls \cup {"locking", "moving"}
  BY DEF PhaseKinds, Over, Coding, Holding, Wanting, Uninstalls, RemovalPhases
<1>2. UNCHANGED <<disk, linkVars, transaction, code, store, wanted>> /\ mishaps \subseteq mishaps' /\ Frees(p)
  BY DEF LockTimesOut, KillProcess, SearchEnds, Refuse, codeVars
<1> QED BY <1>1, <1>2, LeavesProfile DEF LauncherInv, LauncherTypeOK

LEMMA LauncherInvokes ==
    ASSUME LauncherInv, NEW p \in Processes, Invoke(p)
    PROVE  LauncherInv'
<1> PICK to \in {Main(p), "scanning", "importing"} :
        /\ Moves(p, to)
        /\ to \notin {"scanning", "importing"} => code' = [code EXCEPT ![p] = Packaged] /\ store' = store \cup {p}
        /\ to \in {"scanning", "importing"} => UNCHANGED <<code, store>>
  BY LauncherFacts DEF Invoke, Main, codeVars
<1>1. /\ to \in {"checking", "deciding", "locking", "scanning", "importing"}
      /\ to = "locking" => p \in Removals
  BY LauncherFacts DEF Main
<1>2. to \in PhaseKinds /\ to \notin Holding \cup Wanting \cup Uninstalls \cup {"moving"}
  BY <1>1 DEF PhaseKinds, Over, Holding, Wanting, Uninstalls, RemovalPhases
<1>3. UNCHANGED <<disk, linkVars, transaction, lockedBy, wanted, mishaps>> /\ phase[p] \notin Holding
  BY DEF Invoke, Holding, Uninstalls, RemovalPhases
<1>4. to \notin {"scanning", "importing"} <=> to \in Coding
  BY <1>1 DEF Coding, PhaseKinds, Over, Holding, Wanting, Uninstalls, RemovalPhases
<1>5. code' \in [Processes -> Nat] /\ (to \in Coding => code'[p] # 0)
      /\ \A q \in Processes : q # p => code'[q] = code[q]
  BY <1>4, LauncherFacts DEF LauncherInv, LauncherTypeOK
<1> QED BY <1>1, <1>2, <1>3, <1>5, LeavesProfile DEF LauncherInv, LauncherTypeOK

LEMMA LauncherScans ==
    ASSUME LauncherInv, NEW p \in Processes, Scan(p)
    PROVE  LauncherInv'
<1> PICK to \in {"recovering", "importing"} : Moves(p, to)
  BY DEF Scan
<1>1. to \in PhaseKinds /\ to \notin Coding \cup Holding \cup Wanting \cup Uninstalls \cup {"locking", "moving"}
  BY DEF PhaseKinds, Over, Coding, Holding, Wanting, Uninstalls, RemovalPhases
<1>2. UNCHANGED <<disk, linkVars, transaction, lockedBy, code, store, wanted, mishaps>> /\ phase[p] \notin Holding
  BY DEF Scan, codeVars, Holding, Uninstalls, RemovalPhases
<1> QED BY <1>1, <1>2, LeavesProfile DEF LauncherInv, LauncherTypeOK

LEMMA LauncherImports ==
    ASSUME LauncherInv, NEW p \in Processes, Import(p)
    PROVE  LauncherInv'
<1> PICK to \in {Main(p), "failed"} :
        /\ Moves(p, to)
        /\ to # "failed" => code' = [code EXCEPT ![p] = disk.plugin] /\ disk.plugin # 0
                            /\ UNCHANGED <<lockedBy, mishaps>>
        /\ to = "failed" => UNCHANGED code /\ Frees(p) /\ mishaps \subseteq mishaps'
  BY LauncherFacts DEF Import, Main, Refuse
<1>1. /\ to \in {"checking", "deciding", "locking", "failed"}
      /\ to = "locking" => p \in Removals
  BY LauncherFacts DEF Main
<1>2. to \in PhaseKinds /\ to \notin Holding \cup Wanting \cup Uninstalls \cup {"moving"}
  BY <1>1 DEF PhaseKinds, Over, Holding, Wanting, Uninstalls, RemovalPhases
<1>3. UNCHANGED <<disk, linkVars, transaction, wanted>> /\ phase[p] \notin Holding /\ store' \subseteq store
  BY DEF Import, Holding, Uninstalls, RemovalPhases
<1>4. to # "failed" <=> to \in Coding
  BY <1>1 DEF Coding, PhaseKinds, Over, Holding, Wanting, Uninstalls, RemovalPhases
<1>5. code' \in [Processes -> Nat] /\ (to \in Coding => code'[p] # 0)
      /\ \A q \in Processes : q # p => code'[q] = code[q]
  BY <1>4, LauncherTyped DEF LauncherInv, LauncherTypeOK
<1> QED BY <1>1, <1>2, <1>3, <1>5, LeavesProfile DEF LauncherInv, LauncherTypeOK

LEMMA LauncherChecks ==
    ASSUME LauncherInv, NEW p \in Processes, Check(p)
    PROVE  LauncherInv'
<1> PICK to \in {"locking", "downloading"} :
        /\ Moves(p, to)
        /\ to = "downloading" => wanted' = [wanted EXCEPT ![p] = code[p]]
        /\ to = "locking" => UNCHANGED wanted
  BY DEF Check, Reinstalls
<1>1. to \in PhaseKinds /\ to \notin Holding \cup Uninstalls \cup {"moving"}
  BY DEF PhaseKinds, Over, Holding, Wanting, Uninstalls, RemovalPhases
<1>2. /\ UNCHANGED <<disk, linkVars, transaction, lockedBy, code, store, mishaps>>
      /\ phase[p] \notin Holding /\ p \in Launches
  BY DEF Check, codeVars, Holding, Uninstalls, RemovalPhases
<1>3. code[p] # 0 /\ code[p] \in Nat
  BY DEF Check, LauncherInv, LauncherTypeOK, Equipped, Coding, PhaseKinds, Over, Uninstalls, RemovalPhases
<1>4. wanted' \in [Processes -> Nat] /\ (to \in Wanting => wanted'[p] # 0)
      /\ \A q \in Processes : q # p => wanted'[q] = wanted[q]
  BY <1>3 DEF LauncherInv, LauncherTypeOK, Wanting
<1> QED BY <1>1, <1>2, <1>3, <1>4, LeavesProfile DEF LauncherInv, LauncherTypeOK

LEMMA LauncherReinstalls ==
    ASSUME LauncherInv, NEW p \in Processes, NoBinding(p) \/ PrepareAgain(p)
    PROVE  LauncherInv'
<1> PICK to \in {"failed", "downloading"} :
        /\ Moves(p, to)
        /\ to = "downloading" => wanted' = [wanted EXCEPT ![p] = code[p]] /\ UNCHANGED mishaps
        /\ to = "failed" => UNCHANGED wanted /\ mishaps \subseteq mishaps'
  BY DEF NoBinding, PrepareAgain, Reinstalls, Refuse
<1>1. to \in PhaseKinds /\ to \notin Holding \cup Uninstalls \cup {"moving", "locking"}
  BY DEF PhaseKinds, Over, Holding, Wanting, Uninstalls, RemovalPhases
<1>2. /\ UNCHANGED <<disk, linkVars, transaction, code, store>>
      /\ Frees(p) \/ (lockedBy' = lockedBy /\ phase[p] \notin Holding)
  BY DEF NoBinding, PrepareAgain, Refuse, codeVars, Holding, Uninstalls, RemovalPhases
<1>3. code[p] # 0 /\ code[p] \in Nat
  BY DEF NoBinding, PrepareAgain, LauncherInv, LauncherTypeOK, Equipped, Coding, PhaseKinds,
         Over, Uninstalls, RemovalPhases
<1>4. wanted' \in [Processes -> Nat] /\ (to \in Wanting => wanted'[p] # 0)
      /\ \A q \in Processes : q # p => wanted'[q] = wanted[q]
  BY <1>3 DEF LauncherInv, LauncherTypeOK, Wanting
<1> QED BY <1>1, <1>2, <1>3, <1>4, LeavesProfile DEF LauncherInv, LauncherTypeOK

LEMMA LauncherDecides ==
    ASSUME LauncherInv, NEW p \in Processes, Decide(p)
    PROVE  LauncherInv'
<1> DEFINE current == CASE disk.tui # 0 -> disk.tui
                        [] disk.tui = 0 /\ disk.plugin # 0 -> disk.plugin
                        [] OTHER -> code[p]
           available == current \in {Dev} \cup (0 .. Latest - 1)
<1>1. current \in Nat \cup {Dev}
  <2>1. CASE disk.tui # 0
    <3>1. current = disk.tui
      BY <2>1
    <3> QED BY <3>1, LauncherTyped DEF LauncherInv
  <2>2. CASE disk.tui = 0 /\ disk.plugin # 0
    <3>1. current = disk.plugin
      BY <2>2
    <3> QED BY <3>1, LauncherTyped DEF LauncherInv
  <2>3. CASE disk.tui = 0 /\ disk.plugin = 0
    <3>1. current = code[p]
      BY <2>3
    <3> QED BY <3>1 DEF LauncherInv, LauncherTypeOK
  <2> QED BY <2>1, <2>2, <2>3
<1>2. /\ \/ Moves(p, "done") /\ UNCHANGED wanted
         \/ Moves(p, "downloading") /\ wanted' = [wanted EXCEPT ![p] = IF available THEN Latest ELSE current]
      /\ UNCHANGED <<disk, linkVars, transaction, lockedBy, codeVars, mishaps>>
      /\ phase[p] = "deciding"
  BY DEF Decide
<1> HIDE DEF current
<1> PICK to \in {"done", "downloading"} :
        /\ Moves(p, to)
        /\ to = "downloading" => wanted' = [wanted EXCEPT ![p] = IF available THEN Latest ELSE current]
        /\ to = "done" => UNCHANGED wanted
  BY <1>2
<1>3. to \in PhaseKinds /\ to \notin Holding \cup Uninstalls \cup {"moving", "locking"}
  BY DEF PhaseKinds, Over, Holding, Wanting, Uninstalls, RemovalPhases
<1>4. UNCHANGED <<disk, linkVars, transaction, lockedBy, code, store, mishaps>> /\ phase[p] \notin Holding
  BY <1>2 DEF codeVars, Holding, Uninstalls, RemovalPhases
<1>5. to \in Coding => code[p] # 0
  BY <1>2 DEF LauncherInv, Equipped, Coding, PhaseKinds, Over, Uninstalls, RemovalPhases
<1>6. (IF available THEN Latest ELSE current) \in Nat \ {0}
  BY <1>1, LauncherFacts
<1>7. wanted' \in [Processes -> Nat] /\ (to \in Wanting => wanted'[p] # 0)
      /\ \A q \in Processes : q # p => wanted'[q] = wanted[q]
  BY <1>6 DEF LauncherInv, LauncherTypeOK, Wanting
<1> QED BY <1>3, <1>4, <1>5, <1>7, LeavesProfile DEF LauncherInv, LauncherTypeOK

LEMMA LauncherDownloads ==
    ASSUME LauncherInv, NEW p \in Processes, Download(p)
    PROVE  LauncherInv'
<1> PICK to \in {"waiting", "failed"} :
        /\ Moves(p, to)
        /\ to = "waiting" => UNCHANGED <<lockedBy, mishaps>>
        /\ to = "failed" => Frees(p) /\ mishaps \subseteq mishaps'
  BY DEF Download, Refuse
<1>1. to \in PhaseKinds /\ to \notin Holding \cup Uninstalls \cup {"moving", "locking"}
  BY DEF PhaseKinds, Over, Holding, Wanting, Uninstalls, RemovalPhases
<1>2. UNCHANGED <<disk, linkVars, transaction, code, store, wanted>> /\ phase[p] \notin Holding
  BY DEF Download, codeVars, Holding, Uninstalls, RemovalPhases
<1>3. (to \in Coding => code[p] # 0) /\ (to \in Wanting => wanted[p] # 0)
  BY DEF Download, LauncherInv, Equipped, Coding, Wanting, PhaseKinds, Over, Uninstalls, RemovalPhases
<1> QED BY <1>1, <1>2, <1>3, LeavesProfile DEF LauncherInv, LauncherTypeOK

-----------------------------------------------------------------------------
(* The launcher: the steps that change the profile *)

\* What recovery leaves is a profile.
LEMMA RecoveredIsTyped ==
    ASSUME LauncherInv, Recovers
    PROVE  disk' \in Profiles /\ transaction' = NoTransaction
  BY LauncherTyped DEF LauncherInv, Recovers

LEMMA LauncherRecovers ==
    ASSUME LauncherInv, NEW p \in Processes, RecoverFirst(p)
    PROVE  LauncherInv'
<1>1. /\ Moves(p, "importing") /\ UNCHANGED <<entry, link, lockedBy, code, store, wanted, mishaps>>
      /\ phase[p] = "recovering" /\ lockedBy = NoProcess /\ Recovers
  BY DEF RecoverFirst, linkVars, codeVars
<1>2. "importing" \in PhaseKinds /\ "importing" \notin Holding \cup Coding \cup Wanting \cup Uninstalls
      /\ "recovering" \notin Holding
  BY DEF PhaseKinds, Over, Holding, Coding, Wanting, Uninstalls, RemovalPhases
<1>3. LauncherTypeOK'
  BY <1>1, <1>2, RecoveredIsTyped, TypesGoOn DEF LauncherInv, LauncherTypeOK
<1>4. Moving'
  <2>1. \A q \in Processes : phase[q] # "moving"
    BY <1>1, LauncherFacts DEF LauncherInv, Equipped, Holding
  <2>2. \A q \in Processes : phase'[q] # "moving"
    BY <1>1, <2>1 DEF Moves, LauncherInv, LauncherTypeOK
  <2> QED BY <1>1, <2>2, RecoveredIsTyped DEF Moving
<1> QED BY <1>1, <1>2, <1>3, <1>4, ProcessGoesOn

LEMMA LauncherLocks ==
    ASSUME LauncherInv, NEW p \in Processes, LockProfile(p)
    PROVE  LauncherInv'
<1>1. /\ UNCHANGED <<entry, link, code, store, wanted, mishaps>>
      /\ phase[p] \in {"locking", "waiting"} /\ lockedBy = NoProcess /\ lockedBy' = p /\ Recovers
  BY DEF LockProfile, linkVars, codeVars
<1>2. PICK to \in {"healing", "preparing", "unlinking"} :
        /\ Moves(p, to)
        /\ \/ to = "healing" /\ phase[p] = "waiting"
           \/ to = "preparing" /\ phase[p] = "locking"
           \/ to = "unlinking" /\ phase[p] = "locking" /\ p \in Removals
  <2>1. ASSUME phase[p] = "waiting" PROVE Moves(p, "healing")
    BY <2>1 DEF LockProfile
  <2>2. ASSUME phase[p] = "locking", p \in Launches PROVE Moves(p, "preparing")
    <3>1. p \notin Removals
      BY <2>2, LauncherFacts
    <3> QED BY <2>2, <3>1 DEF LockProfile
  <2>3. ASSUME phase[p] = "locking", p \in Removals PROVE Moves(p, "unlinking")
    <3>1. p \notin Launches
      BY <2>3, LauncherFacts
    <3> QED BY <2>3, <3>1 DEF LockProfile
  <2>4. phase[p] = "locking" => p \in Launches \cup Removals
    BY DEF LauncherInv, Equipped
  <2> QED BY <1>1, <2>1, <2>2, <2>3, <2>4
<1>3. to \in PhaseKinds /\ to \in Holding /\ to \notin {"moving", "locking"}
      /\ (to \in Uninstalls => p \in Removals)
  BY <1>2 DEF PhaseKinds, Over, Holding, Uninstalls, RemovalPhases, Wanting
<1>4. code[p] # 0 /\ (to \in Wanting => wanted[p] # 0)
  BY <1>2 DEF LauncherInv, Equipped, Coding, Wanting, PhaseKinds, Over, Uninstalls, RemovalPhases
<1>5. LauncherTypeOK'
  BY <1>1, <1>2, <1>3, RecoveredIsTyped, TypesGoOn DEF LauncherInv, LauncherTypeOK
<1>6. Moving'
  <2>1. \A q \in Processes : phase[q] # "moving"
    BY <1>1, LauncherFacts DEF LauncherInv, Equipped, Holding
  <2>2. \A q \in Processes : phase'[q] # "moving"
    BY <1>2, <1>3, <2>1 DEF Moves, LauncherInv, LauncherTypeOK
  <2> QED BY <1>1, <2>2, RecoveredIsTyped DEF Moving
<1> QED BY <1>1, <1>2, <1>3, <1>4, <1>5, <1>6, ProcessGoesOn

\* healLauncherLink: the link leads to the plugin itself only without a plugin to copy
\* the stable entry point from, or after a failure.
LEMMA Healed ==
    ASSUME LauncherInv, NEW p \in Processes, Heal(p)
    PROVE  /\ entry' \in BOOLEAN /\ link' \in {"absent", "foreign", "stable", "direct"}
           /\ mishaps \subseteq mishaps'
           /\ link' = link \/ link' # "direct" \/ disk.plugin = 0
           /\ "heal" \notin mishaps' =>
                /\ link' = "direct" => disk.plugin = 0
                /\ link = "stable" /\ entry => link' = "stable" /\ entry'
                /\ link = "direct" /\ disk.plugin # 0 => link' = "stable" /\ entry'
<1> DEFINE source == p \in store \/ disk.plugin # 0
<1>1. CASE "heal" \in mishaps' /\ UNCHANGED linkVars /\ mishaps \subseteq mishaps'
  BY <1>1 DEF LauncherInv, LauncherTypeOK, linkVars
<1>2. CASE /\ entry' = (entry \/ source) /\ UNCHANGED mishaps
           /\ link' = [absent |-> IF source THEN "stable" ELSE "direct",
                       direct |-> IF source THEN "stable" ELSE "direct",
                       stable |-> "stable", foreign |-> "foreign"][link]
  <2>1. entry' = (entry \/ source)
    BY <1>2
  <2>2. entry' \in BOOLEAN /\ (entry => entry') /\ (source => entry')
    BY <2>1
  <2>3. /\ link \in {"absent", "direct"} => link' = IF source THEN "stable" ELSE "direct"
        /\ link \in {"stable", "foreign"} => link' = link
        /\ link \in {"absent", "foreign", "stable", "direct"}
    BY <1>2 DEF LauncherInv, LauncherTypeOK
  <2>4. disk.plugin # 0 => source
    OBVIOUS
  <2> HIDE DEF source
  <2> QED BY <1>2, <2>2, <2>3, <2>4
<1> QED BY <1>1, <1>2 DEF Heal

LEMMA LauncherPrepares ==
    ASSUME LauncherInv, NEW p \in Processes, PrepareManaged(p) \/ PrepareDev(p) \/ PrepareFails(p)
    PROVE  LauncherInv'
<1>1. phase[p] = "preparing" /\ UNCHANGED <<transaction, code, store, wanted>> /\ Frees(p)
  BY DEF PrepareManaged, PrepareDev, PrepareFails, Refuse, codeVars
<1>2. transaction = NoTransaction /\ lockedBy = p /\ code[p] \in Nat
  BY <1>1, AtRest DEF Holding, LauncherInv, LauncherTypeOK
<1>3. disk' \in Profiles
  <2>1. Registered(p) \in Nat /\ disk \in Profiles
    BY <1>2, LauncherTyped DEF LauncherInv, Registered
  <2>2. \/ disk' = disk
        \/ disk' = [disk EXCEPT !.manifest = Registered(p)]
        \/ disk' = [disk EXCEPT !.plugin = code[p], !.manifest = Registered(p)]
        \/ disk' = [disk EXCEPT !.plugin = 0]
    BY DEF PrepareManaged, PrepareDev, PrepareFails
  <2>3. /\ [disk EXCEPT !.manifest = Registered(p)] \in Profiles
        /\ [disk EXCEPT !.plugin = 0] \in Profiles
    BY <2>1 DEF Profiles
  <2>4. [disk EXCEPT !.plugin = code[p]] \in Profiles
    BY <1>2, <2>1 DEF Profiles
  <2>5. [disk EXCEPT !.plugin = code[p], !.manifest = Registered(p)] \in Profiles
    BY <2>1, <2>4 DEF Profiles
  <2> QED BY <2>1, <2>2, <2>3, <2>5
<1>4. entry' \in BOOLEAN /\ link' \in {"absent", "foreign", "stable", "direct"}
  <2>1. ASSUME Heal(p) PROVE entry' \in BOOLEAN /\ link' \in {"absent", "foreign", "stable", "direct"}
    BY <2>1, Healed
  <2>2. CASE UNCHANGED linkVars
    BY <2>2 DEF linkVars, LauncherInv, LauncherTypeOK
  <2>3. CASE entry' = TRUE /\ link' = IF link = "foreign" THEN link ELSE "stable"
    BY <2>3 DEF LauncherInv, LauncherTypeOK
  <2> QED BY <2>1, <2>2, <2>3 DEF PrepareManaged, PrepareDev, PrepareFails
<1> PICK to \in {"started", "failed"} : Moves(p, to)
  BY DEF PrepareManaged, PrepareDev, PrepareFails, Refuse
<1>5. to \in PhaseKinds /\ to \notin Holding \cup Coding \cup Wanting \cup Uninstalls \cup {"moving", "locking"}
  BY DEF PhaseKinds, Over, Holding, Coding, Wanting, Uninstalls, RemovalPhases
<1>6. LauncherTypeOK'
  BY <1>1, <1>3, <1>4, <1>5, TypesGoOn DEF LauncherInv, LauncherTypeOK
<1>7. Moving'
  <2>1. \A q \in Processes : phase[q] # "moving"
    BY <1>2, AtRest, LauncherFacts DEF Holding
  <2>2. \A q \in Processes : phase'[q] # "moving"
    BY <1>5, <2>1 DEF Moves, LauncherInv, LauncherTypeOK
  <2> QED BY <1>1, <1>2, <2>2 DEF Moving
<1> QED BY <1>1, <1>5, <1>6, <1>7, ProcessGoesOn

LEMMA LauncherBegins ==
    ASSUME LauncherInv, NEW p \in Processes, BeginMoves(p)
    PROVE  LauncherInv'
<1>1. /\ phase[p] = "healing" /\ Heal(p) /\ transaction' = [disk |-> disk, moved |-> 0]
      /\ Moves(p, "moving") /\ UNCHANGED <<disk, lockedBy, code, store, wanted>>
  BY DEF BeginMoves, MovesBegin, Journalled, codeVars
<1>2. transaction = NoTransaction /\ lockedBy = p /\ code[p] # 0 /\ wanted[p] # 0
  BY <1>1, AtRest DEF Holding, LauncherInv, Equipped, Coding, Wanting, PhaseKinds, Over, Uninstalls, RemovalPhases
<1>3. transaction' \in MoveJournals /\ transaction' # NoTransaction
  BY <1>1, LauncherTyped, LauncherFacts DEF LauncherInv, MoveJournals
<1>4. "moving" \in PhaseKinds /\ "moving" \in Holding /\ "moving" \notin Uninstalls /\ "healing" \in Holding
  BY DEF PhaseKinds, Holding, Wanting, Uninstalls, RemovalPhases
<1>5. LauncherTypeOK'
  BY <1>1, <1>3, <1>4, Healed, TypesGoOn DEF LauncherInv, LauncherTypeOK
<1>6. Moving'
  <2>1. phase' = [phase EXCEPT ![p] = "moving"] /\ phase \in [Processes -> PhaseKinds]
    BY <1>1, LauncherTyped DEF Moves, LauncherInv
  <2>2. lockedBy' = p /\ phase'[lockedBy'] = "moving"
    BY <1>1, <1>2, <2>1
  <2>3. transaction'.moved = 0 /\ UNCHANGED disk
    BY <1>1
  <2>4. link' = "direct" /\ "heal" \notin mishaps' => disk.plugin = 0
    BY <1>1, Healed
  <2>5. (\A q \in Processes : phase[q] = "moving" => transaction # NoTransaction)'
    BY <1>3
  <2>6. transaction'.moved >= 2 => FALSE
    BY <2>3
  <2> QED BY <2>2, <2>3, <2>4, <2>5, <2>6 DEF Moving
<1> QED BY <1>1, <1>2, <1>4, <1>5, <1>6, ProcessGoesOn

\* What a move leaves: the plugin is the first place, emptied and then filled.
LEMMA Moved ==
    ASSUME LauncherInv, NEW p \in Processes, MovePlace(p)
    PROVE  /\ phase[p] = "moving" /\ lockedBy = p /\ wanted[p] \in Nat \ {0}
           /\ transaction \in MoveJournals /\ transaction.moved \in 0 .. 7
           /\ transaction' = [transaction EXCEPT !.moved = transaction.moved + 1]
           /\ disk' \in Profiles
           /\ transaction.moved = 0 => disk'.plugin = 0
           /\ transaction.moved = 1 => disk'.plugin = wanted[p]
           /\ transaction.moved >= 2 => disk'.plugin = disk.plugin
<1> DEFINE n == transaction.moved
           to == IF n % 2 = 0 THEN 0 ELSE wanted[p]
<1>1. phase[p] = "moving" /\ n < 2 * Len(Places)
      /\ transaction' = [transaction EXCEPT !.moved = n + 1]
      /\ disk' = [disk EXCEPT ![Places[n \div 2 + 1]] = to]
  BY DEF MovePlace
<1>2. transaction # NoTransaction /\ lockedBy = p
  BY <1>1, AtRest DEF Holding
<1>3. transaction \in MoveJournals /\ n \in 0 .. 8 /\ disk \in Profiles
  BY <1>2, LauncherTyped DEF LauncherInv
<1>4. wanted[p] \in Nat \ {0}
  BY <1>1 DEF LauncherInv, Equipped, Wanting, LauncherTypeOK
<1>5. n < 8
  BY <1>1, <1>3 DEF Places
<1>6. n \in 0 .. 7
  BY <1>3, <1>5
<1>7. /\ n \in {0, 1} => Places[n \div 2 + 1] = "plugin"
      /\ n \in {2, 3} => Places[n \div 2 + 1] = "manifest"
      /\ n \in {4, 5} => Places[n \div 2 + 1] = "runtime"
      /\ n \in {6, 7} => Places[n \div 2 + 1] = "tui"
  <2>1. /\ n \in {0, 1} => n \div 2 + 1 = 1
        /\ n \in {2, 3} => n \div 2 + 1 = 2
        /\ n \in {4, 5} => n \div 2 + 1 = 3
        /\ n \in {6, 7} => n \div 2 + 1 = 4
    OBVIOUS
  <2> QED BY <2>1 DEF Places
<1>8. to \in Nat /\ (n = 0 => to = 0) /\ (n = 1 => to = wanted[p])
  BY <1>4
<1>9. n \in {0, 1} \/ n \in {2, 3} \/ n \in {4, 5} \/ n \in {6, 7}
  BY <1>6
<1> HIDE DEF to
<1>10. /\ disk' \in Profiles
       /\ n \in {0, 1} => disk'.plugin = to
       /\ n \notin {0, 1} => disk'.plugin = disk.plugin
  BY <1>1, <1>3, <1>7, <1>8, <1>9 DEF Profiles
<1> QED BY <1>1, <1>2, <1>3, <1>4, <1>6, <1>8, <1>10

LEMMA LauncherMoves ==
    ASSUME LauncherInv, NEW p \in Processes, MovePlace(p)
    PROVE  LauncherInv'
<1>1. UNCHANGED <<entry, link, lockedBy, phase, code, store, wanted, mishaps>>
  BY DEF MovePlace, linkVars, codeVars
<1>2. /\ transaction' \in MoveJournals /\ transaction' # NoTransaction
      /\ transaction'.moved = transaction.moved + 1
  BY Moved, LauncherFacts DEF MoveJournals
<1>3. LauncherTypeOK'
  BY <1>1, <1>2, Moved DEF LauncherInv, LauncherTypeOK
<1>4. \A q \in Processes : Equipped(q)'
  BY <1>1 DEF LauncherInv, Equipped
<1>5. Moving'
  <2>1. transaction'.moved >= 2 => disk'.plugin # 0
    <3>1. CASE transaction.moved = 1
      BY <3>1, Moved
    <3>2. CASE transaction.moved >= 2
      <4>1. transaction # NoTransaction
        BY Moved, LauncherFacts
      <4> QED BY <3>2, <4>1, Moved DEF LauncherInv, Moving
    <3>3. CASE transaction.moved = 0
      BY <1>2, <3>3
    <3> QED BY <3>1, <3>2, <3>3, Moved
  <2>2. transaction'.moved # 0
    BY <1>2, Moved
  <2>3. lockedBy' = NoProcess \/ phase'[lockedBy'] = "moving"
    BY <1>1, Moved
  <2> QED BY <1>2, <2>1, <2>2, <2>3 DEF Moving
<1> QED BY <1>3, <1>4, <1>5 DEF LauncherInv

LEMMA LauncherMovesEnd ==
    ASSUME LauncherInv, NEW p \in Processes, MoveFails(p) \/ Committed(p)
    PROVE  LauncherInv'
<1>1. /\ phase[p] = "moving" /\ transaction' = NoTransaction /\ Frees(p)
      /\ UNCHANGED <<entry, link, code, store, wanted>> /\ disk' \in Profiles
  BY RecoveredIsTyped, LauncherTyped
     DEF MoveFails, Committed, Refuse, linkVars, codeVars, LauncherInv, LauncherTypeOK
<1> PICK to \in {"failed", "relinking"} : Moves(p, to)
  BY DEF MoveFails, Committed, Refuse
<1>2. to \in PhaseKinds /\ to \notin Holding \cup Wanting \cup Uninstalls \cup {"locking", "moving"}
      /\ "moving" \in Holding
  BY DEF PhaseKinds, Over, Holding, Wanting, Uninstalls, RemovalPhases
<1>3. code[p] # 0
  BY <1>1 DEF LauncherInv, Equipped, Coding, Wanting, PhaseKinds, Over, Uninstalls, RemovalPhases
<1>4. LauncherTypeOK'
  BY <1>1, <1>2, TypesGoOn DEF LauncherInv, LauncherTypeOK
<1>5. Moving'
  <2>1. \A q \in Processes : q # p => phase[q] # "moving"
    BY <1>1, AtRest DEF Holding
  <2>2. \A q \in Processes : phase'[q] # "moving"
    BY <1>2, <2>1 DEF Moves, LauncherInv, LauncherTypeOK
  <2> QED BY <1>1, <2>2 DEF Moving
<1> QED BY <1>1, <1>2, <1>3, <1>4, <1>5, ProcessGoesOn

LEMMA LauncherRelinks ==
    ASSUME LauncherInv, NEW p \in Processes, Relink(p)
    PROVE  LauncherInv'
<1>1. /\ phase[p] = "relinking" /\ Heal(p)
      /\ UNCHANGED <<disk, transaction, lockedBy, code, store, wanted>>
  BY DEF Relink, codeVars
<1> PICK to \in {"importing", "done"} : Moves(p, to)
  BY DEF Relink
<1>2. to \in PhaseKinds /\ to \notin Holding \cup Coding \cup Wanting \cup Uninstalls \cup {"locking", "moving"}
      /\ "relinking" \notin Holding
  BY DEF PhaseKinds, Over, Holding, Coding, Wanting, Uninstalls, RemovalPhases
<1>3. LauncherTypeOK'
  BY <1>1, <1>2, Healed, TypesGoOn DEF LauncherInv, LauncherTypeOK
<1>4. Moving'
  BY <1>1, <1>2, Healed, MovesStay
<1> QED BY <1>1, <1>2, <1>3, <1>4, ProcessGoesOn

LEMMA LauncherRemoves ==
    ASSUME LauncherInv, NEW p \in Processes, Unlink(p) \/ RemovePlace(p) \/ RemoveEntry(p)
    PROVE  LauncherInv'
<1>1. /\ phase[p] \in Uninstalls /\ UNCHANGED <<transaction, code, store, wanted, mishaps>>
      /\ phase[p] = "unlinking" \/ phase[p] \in RemovalPhases \/ phase[p] = "entry"
  BY LauncherFacts DEF Unlink, RemovePlace, RemoveEntry, codeVars, Uninstalls
<1>2. transaction = NoTransaction /\ lockedBy = p /\ p \in Removals /\ code[p] # 0
  BY <1>1, AtRest DEF Holding, LauncherInv, Equipped, Uninstalls, RemovalPhases, Coding, PhaseKinds, Over
<1>3. disk' \in Profiles /\ entry' \in BOOLEAN /\ link' \in {"absent", "foreign", "stable", "direct"}
  <2>1. CASE Unlink(p)
    BY <2>1 DEF Unlink, LauncherInv, LauncherTypeOK
  <2>2. CASE RemovePlace(p)
    BY <2>2, LauncherFacts DEF RemovePlace, RemovalPhases, linkVars, LauncherInv, LauncherTypeOK, Profiles
  <2>3. CASE RemoveEntry(p)
    BY <2>3 DEF RemoveEntry, LauncherInv, LauncherTypeOK
  <2> QED BY <2>1, <2>2, <2>3
<1>4. PICK to \in Uninstalls \cup {"done"} :
        /\ Moves(p, to)
        /\ \/ lockedBy' = lockedBy /\ to \in Uninstalls
           \/ Frees(p) /\ to = "done"
  <2>1. CASE Unlink(p)
    <3>1. Moves(p, "manifest") /\ lockedBy' = lockedBy
      BY <2>1 DEF Unlink
    <3> QED BY <3>1 DEF Uninstalls, RemovalPhases
  <2>2. CASE RemovePlace(p)
    <3>1. phase[p] \in RemovalPhases /\ Moves(p, RemovalOrder[phase[p]]) /\ lockedBy' = lockedBy
      BY <2>2, LauncherFacts DEF RemovePlace
    <3>2. RemovalOrder[phase[p]] \in Uninstalls
      BY <3>1 DEF RemovalOrder, Uninstalls, RemovalPhases
    <3> QED BY <3>1, <3>2
  <2>3. CASE RemoveEntry(p)
    BY <2>3 DEF RemoveEntry
  <2> QED BY <2>1, <2>2, <2>3
<1>5. /\ to \in PhaseKinds /\ to \notin Wanting \cup {"locking", "moving"}
      /\ phase[p] \in Holding /\ (to \in Uninstalls <=> to \in Holding)
      /\ to = "done" => to \notin Holding \cup Coding
  BY <1>1, <1>4 DEF PhaseKinds, Over, Holding, Coding, Wanting, Uninstalls, RemovalPhases
<1>6. LauncherTypeOK'
  BY <1>1, <1>3, <1>4, <1>5, TypesGoOn DEF LauncherInv, LauncherTypeOK
<1>7. Moving'
  <2>1. \A q \in Processes : phase[q] # "moving"
    BY <1>2, AtRest, LauncherFacts DEF Holding
  <2>2. \A q \in Processes : phase'[q] # "moving"
    BY <1>4, <1>5, <2>1 DEF Moves, LauncherInv, LauncherTypeOK
  <2> QED BY <1>1, <1>2, <2>2 DEF Moving
<1> QED BY <1>1, <1>2, <1>4, <1>5, <1>6, <1>7, ProcessGoesOn

LEMMA LauncherStep ==
    ASSUME LauncherInv, [NextLauncher]_launcherVars
    PROVE  LauncherInv'
<1>1. CASE UNCHANGED launcherVars
  BY <1>1 DEF launcherVars, linkVars, codeVars, LauncherInv, LauncherTypeOK, Equipped, Moving
<1>2. ASSUME NEW p \in Processes, StepsLauncher(p) PROVE LauncherInv'
  BY <1>2, LauncherScans, LauncherRecovers, LauncherImports, LauncherChecks, LauncherLocks,
     LauncherReinstalls, LauncherPrepares, LauncherDecides, LauncherDownloads, LauncherBegins,
     LauncherMoves, LauncherMovesEnd, LauncherRelinks, LauncherRemoves DEF StepsLauncher
<1> QED BY <1>1, <1>2, LauncherInvokes, LauncherMovesEnd, LauncherEnds DEF NextLauncher

-----------------------------------------------------------------------------
(* The launcher: the theorems *)

THEOREM LauncherInvariant == LauncherSteps => []LauncherInv
<1>1. LauncherInv /\ [NextLauncher]_launcherVars => LauncherInv'
  BY LauncherStep
<1> QED BY LauncherStarts, <1>1, PTL DEF LauncherSteps

THEOREM LauncherTypes == LauncherSteps => []LauncherTypeOK
<1>1. LauncherInv => LauncherTypeOK
  BY DEF LauncherInv
<1> QED BY LauncherInvariant, <1>1, PTL

\* Steps that leave the profile and the link alone
Aside(p) == UNCHANGED <<disk, link, entry, transaction>>

LEMMA LeadsStays ==
    ASSUME LauncherInv, NEW p \in Processes, Leads,
           \/ Invoke(p) \/ StepsLauncher(p) \/ SearchEnds(p) \/ MoveFails(p)
           \/ LockTimesOut(p) \/ KillProcess(p),
           ~Uninstalling', "heal" \notin mishaps', "npm" \notin mishaps'
    PROVE  Leads'
<1>1. CASE Aside(p)
  BY <1>1 DEF Aside, Leads, Restorable
<1>2. CASE Recovers /\ UNCHANGED <<link, entry>>
  BY <1>2 DEF Recovers, Leads, Restorable
<1>3. CASE PrepareManaged(p) \/ PrepareDev(p) \/ PrepareFails(p)
  <2>1. phase[p] = "preparing" /\ UNCHANGED transaction
    BY <1>3 DEF PrepareManaged, PrepareDev, PrepareFails
  <2>2. transaction = NoTransaction /\ code[p] # 0 /\ disk \in Profiles /\ disk.plugin # 0
    BY <2>1, AtRest
       DEF Holding, LauncherInv, LauncherTypeOK, Equipped, Coding, PhaseKinds, Over, Uninstalls,
           RemovalPhases, Leads, Restorable
  <2>3. disk'.plugin # 0
    <3>1. \/ disk' = disk
          \/ disk' = [disk EXCEPT !.manifest = Registered(p)]
          \/ disk' = [disk EXCEPT !.plugin = code[p], !.manifest = Registered(p)]
          \/ "npm" \in mishaps'
      BY <1>3 DEF PrepareManaged, PrepareDev, PrepareFails, Refuse
    <3>2. disk' = [disk EXCEPT !.plugin = code[p], !.manifest = Registered(p)]
            => disk'.plugin = code[p]
      BY <2>2 DEF Profiles
    <3>3. disk' = [disk EXCEPT !.manifest = Registered(p)] => disk'.plugin = disk.plugin
      BY <2>2 DEF Profiles
    <3> QED BY <2>2, <3>1, <3>2, <3>3
  <2>4. (link' = "stable" /\ entry') \/ link' = "direct"
    <3>1. ASSUME Heal(p) PROVE link' = "stable" /\ entry'
      BY <3>1, <2>2, Healed DEF Leads
    <3>2. ASSUME UNCHANGED linkVars PROVE (link' = "stable" /\ entry') \/ link' = "direct"
      BY <3>2 DEF Leads, linkVars
    <3>3. ASSUME entry' = TRUE, link' = IF link = "foreign" THEN link ELSE "stable"
          PROVE  link' = "stable" /\ entry'
      BY <3>3 DEF Leads
    <3> QED BY <1>3, <3>1, <3>2, <3>3 DEF PrepareManaged, PrepareDev, PrepareFails
  <2> QED BY <2>1, <2>2, <2>3, <2>4 DEF Leads, Restorable
<1>4. CASE BeginMoves(p)
  <2>1. /\ Heal(p) /\ transaction' = [disk |-> disk, moved |-> 0] /\ UNCHANGED disk
        /\ phase[p] = "healing"
    BY <1>4 DEF BeginMoves, MovesBegin, Journalled
  <2>2. transaction = NoTransaction /\ disk.plugin # 0
    BY <2>1, AtRest DEF Holding, Leads, Restorable
  <2>3. Restorable'.plugin # 0
    BY <2>1, <2>2 DEF Restorable
  <2>4. link' = "stable" /\ entry'
    BY <2>1, <2>2, Healed DEF Leads
  <2> QED BY <2>3, <2>4 DEF Leads
<1>5. CASE MovePlace(p)
  <2>1. UNCHANGED <<link, entry, mishaps>>
    BY <1>5 DEF MovePlace, linkVars
  <2>2. /\ transaction # NoTransaction /\ transaction' # NoTransaction
        /\ transaction'.disk = transaction.disk /\ transaction.moved \in 0 .. 7
    BY <1>5, Moved, LauncherFacts DEF MoveJournals
  <2>3. Restorable'.plugin # 0
    BY <2>2 DEF Leads, Restorable
  <2>4. link = "direct" => disk'.plugin # 0
    <3>1. CASE transaction.moved = 0
      BY <2>1, <2>2, <3>1 DEF Leads, LauncherInv, Moving
    <3>2. CASE transaction.moved = 1
      BY <1>5, <3>2, Moved
    <3>3. CASE transaction.moved >= 2
      BY <1>5, <2>2, <3>3, Moved DEF LauncherInv, Moving
    <3> QED BY <2>2, <3>1, <3>2, <3>3
  <2> QED BY <2>1, <2>3, <2>4 DEF Leads
<1>6. CASE Committed(p)
  <2>1. /\ UNCHANGED <<disk, link, entry>> /\ transaction' = NoTransaction
        /\ phase[p] = "moving" /\ transaction.moved = 2 * Len(Places)
    BY <1>6 DEF Committed, linkVars
  <2>2. transaction # NoTransaction /\ transaction.moved >= 2
    BY <2>1, AtRest DEF Holding, Places
  <2>3. disk.plugin # 0
    BY <2>2 DEF LauncherInv, Moving
  <2> QED BY <2>1, <2>3 DEF Leads, Restorable
<1>7. CASE Relink(p)
  <2>1. Heal(p) /\ UNCHANGED <<disk, transaction>>
    BY <1>7 DEF Relink
  <2>2. (link' = "stable" /\ entry') \/ (link' = "direct" /\ disk.plugin # 0)
    BY <2>1, Healed DEF Leads
  <2> QED BY <2>1, <2>2 DEF Leads, Restorable
<1>8. CASE Unlink(p) \/ RemovePlace(p) \/ RemoveEntry(p)
  <2>1. phase[p] \in Uninstalls
    BY <1>8, LauncherFacts DEF Unlink, RemovePlace, RemoveEntry, Uninstalls
  <2>2. p \in Removals
    BY <2>1 DEF LauncherInv, Equipped
  <2>3. \/ Moves(p, "manifest") \/ Moves(p, "done")
        \/ phase[p] \in RemovalPhases /\ Moves(p, RemovalOrder[phase[p]])
    BY <1>8, LauncherFacts DEF Unlink, RemovePlace, RemoveEntry
  <2>4. phase[p] \in RemovalPhases => RemovalOrder[phase[p]] \in {"plugin", "runtime", "tui", "entry"}
    BY DEF RemovalOrder, RemovalPhases
  <2>5. phase'[p] \in {"entry", "done"} \cup RemovalPhases
    BY <2>3, <2>4, LauncherTyped DEF Moves, LauncherInv, RemovalPhases
  <2>6. Uninstalling'
    BY <2>2, <2>5, LauncherFacts DEF Uninstalling
  <2> QED BY <2>6
<1>9. \/ Aside(p)
      \/ Recovers /\ UNCHANGED <<link, entry>>
      \/ PrepareManaged(p) \/ PrepareDev(p) \/ PrepareFails(p)
      \/ BeginMoves(p) \/ MovePlace(p) \/ Committed(p) \/ Relink(p)
      \/ Unlink(p) \/ RemovePlace(p) \/ RemoveEntry(p)
  <2>1. CASE \/ Invoke(p) \/ Scan(p) \/ SearchEnds(p) \/ LockTimesOut(p) \/ KillProcess(p)
             \/ Import(p) \/ Check(p) \/ NoBinding(p) \/ PrepareAgain(p) \/ Decide(p) \/ Download(p)
    BY <2>1 DEF Invoke, Scan, SearchEnds, LockTimesOut, KillProcess, Import, Check, NoBinding,
                PrepareAgain, Decide, Download, Aside, linkVars
  <2>2. CASE RecoverFirst(p) \/ LockProfile(p) \/ MoveFails(p)
    BY <2>2 DEF RecoverFirst, LockProfile, MoveFails, linkVars
  <2> QED BY <2>1, <2>2 DEF StepsLauncher
<1> QED BY <1>1, <1>2, <1>3, <1>4, <1>5, <1>6, <1>7, <1>8, <1>9

\* Once `dscode` leads to code that runs, or that is put back, it does so until it
\* is uninstalled or a repair of the link or npm has failed: whatever processes are
\* killed between the steps of a launch, an upgrade or an uninstall.
THEOREM LinkKeepsLeading == LauncherSteps => LinkLeads
<1>1. LauncherInv /\ [NextLauncher]_launcherVars
        => [Leads /\ ~Uninstalling' /\ mishaps' \cap {"heal", "npm"} = {} => Leads']_launcherVars
  <2> SUFFICES ASSUME LauncherInv, NextLauncher, Leads, ~Uninstalling',
                      mishaps' \cap {"heal", "npm"} = {}
               PROVE  Leads'
    OBVIOUS
  <2>1. "heal" \notin mishaps' /\ "npm" \notin mishaps'
    OBVIOUS
  <2> QED BY <2>1, LeadsStays DEF NextLauncher
<1> QED BY LauncherInvariant, <1>1, PTL DEF LinkLeads, LauncherSteps

LEMMA StartsWhole ==
    ASSUME LauncherInv, NextLauncher,
           NEW l \in Launches, phase[l] # "started", phase'[l] = "started"
    PROVE  Whole(code[l])'
<1>1. PICK p \in Processes :
        \/ Invoke(p) \/ StepsLauncher(p) \/ SearchEnds(p) \/ MoveFails(p)
        \/ LockTimesOut(p) \/ KillProcess(p)
  BY DEF NextLauncher
<1>2. phase \in [Processes -> PhaseKinds] /\ l \in Processes
  BY LauncherTyped, LauncherFacts DEF LauncherInv
<1>3. PrepareManaged(p) \/ PrepareDev(p)
  <2>1. ASSUME NEW to, Moves(p, to), to # "started" PROVE FALSE
    BY <1>2, <2>1 DEF Moves
  <2>2. CASE Invoke(p) \/ Import(p)
    <3>1. Main(p) \in {"checking", "deciding", "locking"}
      BY LauncherFacts DEF Main
    <3> QED BY <2>1, <2>2, <3>1 DEF Invoke, Import, Refuse
  <2>3. CASE LockProfile(p)
    <3>1. LauncherInv' /\ lockedBy' = p
      BY <2>3, LauncherLocks DEF LockProfile
    <3>2. phase'[p] \in Holding
      BY <3>1 DEF LauncherInv, Equipped
    <3>3. Moves(p, phase'[p])
      BY <1>2, <2>3 DEF LockProfile, Moves
    <3> QED BY <2>1, <3>2, <3>3 DEF Holding, Uninstalls, RemovalPhases
  <2>4. CASE RemovePlace(p)
    <3>1. phase[p] \in RemovalPhases => RemovalOrder[phase[p]] \in {"plugin", "runtime", "tui", "entry"}
      BY DEF RemovalOrder, RemovalPhases
    <3> QED BY <2>1, <2>4, <3>1, LauncherFacts DEF RemovePlace
  <2>5. CASE MovePlace(p)
    BY <2>5 DEF MovePlace
  <2>6. CASE Relink(p)
    BY <2>1, <2>6 DEF Relink
  <2>7. CASE \/ Scan(p) \/ SearchEnds(p) \/ LockTimesOut(p) \/ KillProcess(p) \/ RecoverFirst(p)
             \/ Check(p) \/ NoBinding(p) \/ PrepareAgain(p) \/ Decide(p) \/ Download(p)
             \/ PrepareFails(p) \/ BeginMoves(p) \/ MoveFails(p) \/ Committed(p)
             \/ Unlink(p) \/ RemoveEntry(p)
    BY <2>1, <2>7 DEF Scan, SearchEnds, LockTimesOut, KillProcess, RecoverFirst, Check, NoBinding,
          PrepareAgain, Decide, Download, PrepareFails, BeginMoves, MoveFails, Committed,
          Unlink, RemoveEntry, Reinstalls, Refuse
  <2> QED BY <1>1, <2>2, <2>3, <2>4, <2>5, <2>6, <2>7 DEF StepsLauncher
<1>4. p = l
  BY <1>2, <1>3 DEF PrepareManaged, PrepareDev, Moves
<1>5. phase[l] = "preparing" /\ UNCHANGED <<transaction, code>>
  BY <1>3, <1>4 DEF PrepareManaged, PrepareDev, codeVars
<1>6. transaction = NoTransaction /\ code[l] # 0 /\ disk \in Profiles /\ Registered(l) # 0
  BY <1>2, <1>5, AtRest
     DEF Holding, LauncherInv, LauncherTypeOK, Equipped, Coding, PhaseKinds, Over, Uninstalls,
         RemovalPhases, Registered
<1>7. CASE PrepareManaged(l)
  <2>1. disk.plugin = code[l] /\ disk.runtime = code[l] /\ disk.tui = code[l]
        /\ disk' = [disk EXCEPT !.manifest = Registered(l)]
    BY <1>7 DEF PrepareManaged, Matches, FilesMatch
  <2>2. disk'.plugin = code[l] /\ disk'.runtime = code[l] /\ disk'.tui = code[l]
        /\ disk'.manifest # 0
    BY <1>6, <2>1 DEF Profiles
  <2> QED BY <1>5, <1>6, <2>2 DEF Whole
<1>8. CASE PrepareDev(l)
  <2>1. disk.runtime = code[l] /\ disk.tui = Dev
        /\ disk' = [disk EXCEPT !.plugin = code[l], !.manifest = Registered(l)]
    BY <1>8 DEF PrepareDev
  <2>2. disk'.plugin = code[l] /\ disk'.runtime = code[l] /\ disk'.tui = Dev
        /\ disk'.manifest # 0
    BY <1>6, <2>1 DEF Profiles
  <2> QED BY <1>5, <1>6, <2>2 DEF Whole
<1> QED BY <1>3, <1>4, <1>7, <1>8

\* A TUI starts on a plugin, a runtime and a manifest of the release whose launcher
\* starts it, never in the middle of an install, whatever the other processes do.
THEOREM LaunchesStartWhole ==
    LauncherSteps =>
        [][\A l \in Launches :
             phase[l] # "started" /\ phase'[l] = "started" => Whole(code[l])']_launcherVars
<1>1. LauncherInv /\ [NextLauncher]_launcherVars
        => [\A l \in Launches :
              phase[l] # "started" /\ phase'[l] = "started" => Whole(code[l])']_launcherVars
  BY StartsWhole
<1> QED BY LauncherInvariant, <1>1, PTL DEF LauncherSteps

-----------------------------------------------------------------------------
(* UpdateTransaction, for any number of processes and entries: an update       *)
(* installs atomically, if the sync after the rename of a journal does not     *)
(* fail.                                                                       *)

\* What the lock owner knows of the transaction.

\* An entry that is in place, as the journal found it.
InPlace(s, e) ==
    /\ backup[s][e] = None
    /\ existed[s][e] = (active[e] # None)

MovesEntries ==
    \A p \in Procs : pc[p] = "moving" =>
        /\ p \in Updates /\ IsPending(p) /\ p \in synced
        /\ step \in 1..N + 1
        /\ \A e \in Entries :
            /\ e < step => active[e] = New[p][e]
            /\ e < step /\ existed[p][e] => backup[p][e] # None
            /\ e >= step => prepared[p][e] = New[p][e]
            /\ e > step => InPlace(p, e)
            /\ e = step => InPlace(p, e) \/ (backup[p][e] # None /\ active[e] = None)

Undoing ==
    \A p \in Procs : pc[p] = "undoing" =>
        /\ target \in Updates /\ IsPending(target)
        /\ step \in 0..N
        /\ \A e \in Entries : e > step => InPlace(target, e)

\* The stage of an update before its transaction.
Staging ==
    \A p \in Updates :
        /\ pc[p] = "idle" => journal[p] = "none"
        /\ pc[p] = "staging" => journal[p] = "blank"
        /\ pc[p] \in {"waiting", "recovering", "action", "prepared", "synced"} =>
            journal[p] = "preparing"
        /\ pc[p] = "undoing" /\ target # p => journal[p] = "preparing"
        /\ journal[p] \in {"none", "blank", "preparing"} => backup[p] = Empty
        /\ pc[p] \in {"prepared", "synced"} => prepared[p] = New[p]
        /\ pc[p] = "synced" => p \in synced

\* A pending stage has the backup of what is not in place, and only of that.
Backups ==
    /\ BackupComplete
    /\ \A s \in Updates : IsPending(s) =>
        \A e \in Entries : backup[s][e] # None => existed[s][e]

\* Nothing unflushed or torn is in the installation or in a backup.
Durable ==
    /\ \A e \in Entries : active[e] \notin Unflushed
    /\ \A s \in Updates, e \in Entries : backup[s][e] \notin Unflushed \cup {Torn}
    /\ (\A s \in Updates : ~IsPending(s)) => \A e \in Entries : active[e] # Torn
    /\ \A s \in Updates : IsPending(s) =>
        \A e \in Entries : existed[s][e] /\ backup[s][e] = None => active[e] # Torn

UpdateInv ==
    /\ TypeOK /\ OneTransaction /\ ActionSeesWhole
    /\ MovesEntries /\ Undoing /\ Staging /\ Backups /\ Durable


----------------------------------------------------------------------------
\* What an entry is at first, and what a process makes of it, are contents.
LEMMA ContentsHave ==
    /\ \A e \in Entries : Old[e] \in Contents
    /\ \A p \in Procs, e \in Entries : New[p][e] \in Contents
  BY DEF Contents

\* The steps of UndoEntry, one by one.
UndoneElsewhere(p) ==
    /\ pc[p] = "undoing" /\ step > 0
    /\ UNCHANGED <<prepared, existed, journal, synced, pc, lock, target>>

ClearEntry(p) ==
    /\ UndoneElsewhere(p)
    /\ backup[target][step] # None \/ ~existed[target][step]
    /\ Removing(step)
    /\ UNCHANGED <<step, backup>>

PutBackEntry(p) ==
    /\ UndoneElsewhere(p)
    /\ active[step] = None /\ backup[target][step] # None
    /\ active' = [active EXCEPT ![step] = backup[target][step]]
    /\ backup' = [backup EXCEPT ![target][step] = None]
    /\ step' = step - 1

SkipEntry(p) ==
    /\ UndoneElsewhere(p)
    /\ InPlace(target, step)
    /\ step' = step - 1
    /\ UNCHANGED <<active, backup>>

LEMMA UndoCases ==
    ASSUME NEW p, UndoEntry(p)
    PROVE  ClearEntry(p) \/ PutBackEntry(p) \/ SkipEntry(p)
  BY DEF UndoEntry, ClearEntry, PutBackEntry, SkipEntry, UndoneElsewhere, InPlace

\* The rollback is at an entry of a pending stage.
LEMMA UndoFacts ==
    ASSUME UpdateInv, NEW p \in Procs, pc[p] = "undoing"
    PROVE  /\ target \in Updates /\ IsPending(target) /\ step \in 0..N
           /\ step > 0 => step \in Entries
           /\ \A e \in Entries : e > step => InPlace(target, e)
  BY UpdateAssumption DEF UpdateInv, TypeOK, Undoing, Entries

\* The moves are at an entry of a pending and flushed stage.
LEMMA MoveFacts ==
    ASSUME UpdateInv, NEW p \in Procs, pc[p] = "moving"
    PROVE  /\ p \in Updates /\ IsPending(p) /\ p \in synced
           /\ step \in 1..N + 1
           /\ step <= N => step \in Entries /\ prepared[p][step] = New[p][step]
           /\ step > N => \A e \in Entries : active[e] = New[p][e]
  BY UpdateAssumption DEF UpdateInv, TypeOK, MovesEntries, Entries

\* What a flushed process wrote is flushed.
LEMMA SyncedContents ==
    ASSUME NEW p \in Updates, p \in synced, NEW e \in Entries
    PROVE  New[p][e] \notin Unflushed \cup {Torn}
  <1>1. New[p][e] # Torn
    BY UpdateAssumption, ContentsHave
  <1>2. ASSUME New[p][e] \in Unflushed PROVE FALSE
    BY <1>2, UpdateAssumption DEF Unflushed
  <1> QED BY <1>1, <1>2

\* What the end of a rollback does to the lock.
LEMMA UndoneEffect ==
    ASSUME NEW p, Undone(p)
    PROVE  \/ pc' = [pc EXCEPT ![p] = "leaving"] /\ lock' = None
           \/ pc' = [pc EXCEPT ![p] = "recovering"] /\ lock' = lock
  BY DEF Undone, Unlock, Goto

\* What becomes of the stages when one is removed.
LEMMA ForgetEffect ==
    ASSUME TypeOK, NEW s \in Updates, ForgetStage(s)
    PROVE  /\ prepared' \in [Updates -> [Entries -> Contents \cup {None, Torn}]]
           /\ backup' \in [Updates -> [Entries -> Contents \cup {None, Torn}]]
           /\ journal' \in [Updates -> Journals]
           /\ \A t \in Updates :
                /\ backup'[t] = IF t = s THEN Empty ELSE backup[t]
                /\ journal'[t] = IF t = s THEN "none" ELSE journal[t]
           /\ UNCHANGED <<existed, synced>>
  <1>1. Empty \in [Entries -> Contents \cup {None, Torn}]
    BY DEF Empty
  <1> QED BY <1>1 DEF ForgetStage, TypeOK, Journals

\* The initial states satisfy the invariant.
LEMMA UpdateInit == Init => UpdateInv
  <1> SUFFICES ASSUME Init PROVE UpdateInv
    OBVIOUS
  <1>1. active \in [Entries -> Contents \cup {None, Torn}]
    BY UpdateAssumption DEF Init
  <1>2. TypeOK
    BY <1>1, UpdateAssumption DEF Init, TypeOK, Held, Journals, Empty
  <1>3. \A e \in Entries : active[e] \notin Unflushed /\ active[e] # Torn
    BY UpdateAssumption, ContentsHave DEF Init, Unflushed
  <1>4. None \notin Unflushed \cup {Torn}
    BY UpdateAssumption DEF Unflushed
  <1>5. Durable
    BY <1>3, <1>4 DEF Init, Durable, IsPending, Empty
  <1>6. OneTransaction /\ ActionSeesWhole /\ MovesEntries /\ Undoing
    BY UpdateAssumption DEF Init, OneTransaction, ActionSeesWhole, MovesEntries,
       Undoing, IsPending
  <1>7. Staging
    BY UpdateAssumption DEF Init, Staging
  <1>8. Backups
    BY DEF Init, Backups, BackupComplete, IsPending
  <1> QED BY <1>2, <1>5, <1>6, <1>7, <1>8 DEF UpdateInv
\* Every step keeps the types.
LEMMA TypesStep ==
  ~JournalSyncFails /\ UpdateInv /\ [Next]_vars => (TypeOK)'
  <1> SUFFICES ASSUME ~JournalSyncFails, UpdateInv, [Next]_vars
      PROVE (TypeOK)'
    OBVIOUS
  <1> USE UpdateAssumption, ContentsHave DEF UpdateInv, TypeOK, Held,
      IsPending, stages, Journals, Empty
  <1>1. ASSUME NEW p \in Procs, Stage(p) PROVE (TypeOK)'
    BY <1>1 DEF Stage, Goto
  <1>2. ASSUME NEW p \in Procs, JournalPreparing(p) PROVE (TypeOK)'
    BY <1>2 DEF JournalPreparing, Goto
  <1>3. ASSUME NEW p \in Procs, Wait(p) PROVE (TypeOK)'
    BY <1>3 DEF Wait, Goto
  <1>4. ASSUME NEW p \in Procs, Acquire(p) PROVE (TypeOK)'
    BY <1>4 DEF Acquire, Goto
  <1>5. ASSUME NEW p \in Procs, GiveUp(p) PROVE (TypeOK)'
    BY <1>5 DEF GiveUp, Goto
  <1>6. ASSUME NEW p \in Procs, Recover(p) PROVE (TypeOK)'
    BY <1>6 DEF Recover, Recoverable, Rollback, Goto
  <1>7. ASSUME NEW p \in Procs, RemoveStage(p) PROVE (TypeOK)'
    <2> PICK s \in Updates : ForgetStage(s)
      BY <1>7 DEF RemoveStage
    <2> QED BY <1>7, ForgetEffect DEF RemoveStage
  <1>8. ASSUME NEW p \in Procs, Recovered(p) PROVE (TypeOK)'
    BY <1>8 DEF Recovered, Recoverable, Goto
  <1>9. ASSUME NEW p \in Procs, UndoEntry(p) PROVE (TypeOK)'
    <2>1. ASSUME ClearEntry(p) PROVE TypeOK'
      BY <1>9, <2>1, UndoFacts DEF ClearEntry, UndoneElsewhere, Removing, Entries
    <2>2. ASSUME PutBackEntry(p) PROVE TypeOK'
      BY <1>9, <2>2, UndoFacts DEF PutBackEntry, UndoneElsewhere, Entries
    <2>3. ASSUME SkipEntry(p) PROVE TypeOK'
      BY <1>9, <2>3, UndoFacts DEF SkipEntry, UndoneElsewhere, Entries
    <2> HIDE DEF TypeOK
    <2> QED BY <1>9, <2>1, <2>2, <2>3, UndoCases
  <1>10. ASSUME NEW p \in Procs, Undone(p) PROVE (TypeOK)'
    <2>1. target \in Updates
      BY <1>10, UndoFacts DEF Undone
    <2>2. journal' \in [Updates -> Journals]
      BY <1>10, <2>1 DEF Undone
    <2>3. lock = p /\ \A q \in Procs : q # p => pc[q] \notin Held
      BY <1>10 DEF Undone
    <2>4. /\ pc' \in [Procs -> Held \cup {"idle", "staging", "waiting", "leaving", "done", "dead"}]
          /\ lock' \in Procs \cup {None}
          /\ \A q \in Procs : pc'[q] \in Held <=> lock' = q
      <3>1. CASE pc' = [pc EXCEPT ![p] = "leaving"] /\ lock' = None
        BY <2>3, <3>1
      <3>2. CASE pc' = [pc EXCEPT ![p] = "recovering"] /\ lock' = lock
        BY <2>3, <3>2
      <3> QED BY <1>10, <3>1, <3>2, UndoneEffect
    <2>5. \A q \in Procs :
            pc'[q] \in {"staging", "prepared", "synced", "moving"} => q \in Updates
      <3>1. CASE pc' = [pc EXCEPT ![p] = "leaving"] /\ lock' = None
        BY <3>1
      <3>2. CASE pc' = [pc EXCEPT ![p] = "recovering"] /\ lock' = lock
        BY <3>2
      <3> QED BY <1>10, <3>1, <3>2, UndoneEffect
    <2> QED BY <1>10, <2>2, <2>4, <2>5 DEF Undone
  <1>11. ASSUME NEW p \in Procs, Fail(p) PROVE (TypeOK)'
    BY <1>11 DEF Fail, Unlock, Goto
  <1>12. ASSUME NEW p \in Procs, Edit(p) PROVE (TypeOK)'
    BY <1>12 DEF Edit, Unlock, Goto
  <1>13. ASSUME NEW p \in Procs, Prepare(p) PROVE (TypeOK)'
    BY <1>13 DEF Prepare, Goto
  <1>14. ASSUME NEW p \in Procs, Sync(p) PROVE (TypeOK)'
    BY <1>14 DEF Sync, Goto
  <1>15. ASSUME NEW p \in Procs, Begin(p) PROVE (TypeOK)'
    <2> DEFINE found == [e \in Entries |-> active[e] # None]
    <2>1. found \in [Entries -> BOOLEAN]
      OBVIOUS
    <2> HIDE DEF found
    <2>2. existed' \in [Updates -> [Entries -> BOOLEAN]]
      BY <1>15, <2>1 DEF Begin, found
    <2>3. journal' \in [Updates -> Journals] /\ step' \in 0..N + 1 /\ p \in Updates
      BY <1>15 DEF Begin
    <2>4. pc' = [pc EXCEPT ![p] = "moving"] /\ lock' = lock /\ lock = p
      BY <1>15 DEF Begin, Goto
    <2>5. /\ pc' \in [Procs -> Held \cup {"idle", "staging", "waiting", "leaving", "done", "dead"}]
          /\ \A q \in Procs : pc'[q] \in Held <=> lock' = q
          /\ \A q \in Procs :
                pc'[q] \in {"staging", "prepared", "synced", "moving"} => q \in Updates
      BY <2>3, <2>4
    <2> QED BY <1>15, <2>2, <2>3, <2>4, <2>5 DEF Begin
  <1>16. ASSUME NEW p \in Procs, MoveOut(p) PROVE (TypeOK)'
    <2>1. step \in Entries /\ p \in Updates
      BY <1>16, MoveFacts DEF MoveOut
    <2>2. active[step] \in Contents \cup {None, Torn}
      BY <2>1
    <2>3. backup' \in [Updates -> [Entries -> Contents \cup {None, Torn}]]
      BY <1>16, <2>1, <2>2 DEF MoveOut
    <2>4. active' \in [Entries -> Contents \cup {None, Torn}]
      BY <1>16, <2>1 DEF MoveOut
    <2> QED BY <1>16, <2>3, <2>4 DEF MoveOut
  <1>17. ASSUME NEW p \in Procs, MoveIn(p) PROVE (TypeOK)'
    <2>1. step \in Entries /\ p \in Updates /\ step' \in 0..N + 1
      BY <1>17, MoveFacts DEF MoveIn, Entries
    <2>2. prepared[p][step] \in Contents \cup {None, Torn}
      BY <2>1
    <2>3. prepared' \in [Updates -> [Entries -> Contents \cup {None, Torn}]]
      BY <1>17, <2>1 DEF MoveIn
    <2>4. active' \in [Entries -> Contents \cup {None, Torn}]
      BY <1>17, <2>1, <2>2 DEF MoveIn
    <2> QED BY <1>17, <2>1, <2>3, <2>4 DEF MoveIn
  <1>18. ASSUME NEW p \in Procs, Commit(p) PROVE (TypeOK)'
    BY <1>18 DEF Commit, Unlock, Goto
  <1>19. ASSUME NEW p \in Procs, CommitFails(p) PROVE (TypeOK)'
    BY <1>19, MoveFacts DEF CommitFails, Goto
  <1>20. ASSUME NEW p \in Procs, Leave(p) PROVE (TypeOK)'
    <2>1. CASE p \in Updates /\ journal[p] \in {"preparing", "committed", "rolledBack"}
      BY <1>20, <2>1, ForgetEffect DEF Leave, Goto
    <2>2. CASE ~(p \in Updates /\ journal[p] \in {"preparing", "committed", "rolledBack"})
      BY <1>20, <2>2 DEF Leave, Goto
    <2> QED BY <2>1, <2>2
  <1>21. ASSUME NEW p \in Procs, Kill(p) PROVE (TypeOK)'
    BY <1>21 DEF Kill, Goto
  <1>22. ASSUME PowerLoss PROVE (TypeOK)'
    BY <1>22 DEF PowerLoss, AfterLoss
  <1>23. ASSUME UNCHANGED vars PROVE (TypeOK)'
    BY <1>23 DEF vars
  <1> HIDE DEF TypeOK
  <1> QED BY <1>1, <1>2, <1>3, <1>4, <1>5, <1>6, <1>7, <1>8, <1>9, <1>10,
      <1>11, <1>12, <1>13, <1>14, <1>15, <1>16, <1>17, <1>18, <1>19, <1>20,
      <1>21, <1>22, <1>23
      DEF Next, LockStep, OutsideStep

\* Every step keeps one transaction at a time.
LEMMA TransactionStep ==
  ~JournalSyncFails /\ UpdateInv /\ [Next]_vars => (OneTransaction /\ ActionSeesWhole)'
  <1> SUFFICES ASSUME ~JournalSyncFails, UpdateInv, [Next]_vars
      PROVE (OneTransaction /\ ActionSeesWhole)'
    OBVIOUS
  <1> USE UpdateAssumption DEF UpdateInv, TypeOK, Held, IsPending, stages,
      OneTransaction, ActionSeesWhole, MovesEntries, Undoing, Staging
  <1>1. ASSUME NEW p \in Procs, Stage(p) PROVE (OneTransaction /\ ActionSeesWhole)'
    BY <1>1 DEF Stage, Goto
  <1>2. ASSUME NEW p \in Procs, JournalPreparing(p) PROVE (OneTransaction /\ ActionSeesWhole)'
    BY <1>2 DEF JournalPreparing, Goto
  <1>3. ASSUME NEW p \in Procs, Wait(p) PROVE (OneTransaction /\ ActionSeesWhole)'
    BY <1>3 DEF Wait, Goto
  <1>4. ASSUME NEW p \in Procs, Acquire(p) PROVE (OneTransaction /\ ActionSeesWhole)'
    BY <1>4 DEF Acquire, Goto
  <1>5. ASSUME NEW p \in Procs, GiveUp(p) PROVE (OneTransaction /\ ActionSeesWhole)'
    BY <1>5 DEF GiveUp, Goto
  <1>6. ASSUME NEW p \in Procs, Recover(p) PROVE (OneTransaction /\ ActionSeesWhole)'
    BY <1>6 DEF Recover, Recoverable, Rollback, Goto
  <1>7. ASSUME NEW p \in Procs, RemoveStage(p) PROVE (OneTransaction /\ ActionSeesWhole)'
    BY <1>7 DEF RemoveStage, ForgetStage, Alive
  <1>8. ASSUME NEW p \in Procs, Recovered(p) PROVE (OneTransaction /\ ActionSeesWhole)'
    BY <1>8 DEF Recovered, Recoverable, Goto
  <1>9. ASSUME NEW p \in Procs, UndoEntry(p) PROVE (OneTransaction /\ ActionSeesWhole)'
    BY <1>9 DEF UndoEntry, Removing
  <1>10. ASSUME NEW p \in Procs, Undone(p) PROVE (OneTransaction /\ ActionSeesWhole)'
    BY <1>10 DEF Undone, Unlock, Goto
  <1>11. ASSUME NEW p \in Procs, Fail(p) PROVE (OneTransaction /\ ActionSeesWhole)'
    BY <1>11 DEF Fail, Unlock, Goto
  <1>12. ASSUME NEW p \in Procs, Edit(p) PROVE (OneTransaction /\ ActionSeesWhole)'
    BY <1>12 DEF Edit, Unlock, Goto
  <1>13. ASSUME NEW p \in Procs, Prepare(p) PROVE (OneTransaction /\ ActionSeesWhole)'
    BY <1>13 DEF Prepare, Goto
  <1>14. ASSUME NEW p \in Procs, Sync(p) PROVE (OneTransaction /\ ActionSeesWhole)'
    BY <1>14 DEF Sync, Goto
  <1>15. ASSUME NEW p \in Procs, Begin(p) PROVE (OneTransaction /\ ActionSeesWhole)'
    <2>1. p \in Updates /\ \A s \in Updates : journal[s] # "pending"
      BY <1>15 DEF Begin
    <2>2. \A s \in Updates : journal'[s] = IF s = p THEN "pending" ELSE journal[s]
      BY <1>15, <2>1 DEF Begin
    <2>3. \A q \in Procs : q # p => pc'[q] \notin Held
      BY <1>15 DEF Begin, Goto, Unlock
    <2> QED BY <1>15, <2>1, <2>2, <2>3 DEF Begin, Goto, Unlock
  <1>16. ASSUME NEW p \in Procs, MoveOut(p) PROVE (OneTransaction /\ ActionSeesWhole)'
    BY <1>16 DEF MoveOut, MovedOut
  <1>17. ASSUME NEW p \in Procs, MoveIn(p) PROVE (OneTransaction /\ ActionSeesWhole)'
    BY <1>17 DEF MoveIn, MovedOut
  <1>18. ASSUME NEW p \in Procs, Commit(p) PROVE (OneTransaction /\ ActionSeesWhole)'
    BY <1>18 DEF Commit, Unlock, Goto
  <1>19. ASSUME NEW p \in Procs, CommitFails(p) PROVE (OneTransaction /\ ActionSeesWhole)'
    BY <1>19 DEF CommitFails, Goto
  <1>20. ASSUME NEW p \in Procs, Leave(p) PROVE (OneTransaction /\ ActionSeesWhole)'
    <2>1. CASE p \in Updates /\ journal[p] \in {"preparing", "committed", "rolledBack"}
      <3>1. \A s \in Updates :
              /\ journal'[s] = IF s = p THEN "none" ELSE journal[s]
              /\ backup'[s] = IF s = p THEN Empty ELSE backup[s]
        BY <1>20, <2>1 DEF Leave, ForgetStage
      <3>2. \A s \in Updates : IsPending(s) <=> journal'[s] = "pending"
        BY <2>1, <3>1
      <3> QED BY <1>20, <2>1, <3>1, <3>2 DEF Leave, ForgetStage, Goto
    <2>2. CASE ~(p \in Updates /\ journal[p] \in {"preparing", "committed", "rolledBack"})
      BY <1>20, <2>2 DEF Leave, Goto
    <2> QED BY <2>1, <2>2
  <1>21. ASSUME NEW p \in Procs, Kill(p) PROVE (OneTransaction /\ ActionSeesWhole)'
    BY <1>21 DEF Kill, Goto
  <1>22. ASSUME PowerLoss PROVE (OneTransaction /\ ActionSeesWhole)'
    BY <1>22 DEF PowerLoss, AfterLoss
  <1>23. ASSUME UNCHANGED vars PROVE (OneTransaction /\ ActionSeesWhole)'
    BY <1>23 DEF vars
  <1> QED BY <1>1, <1>2, <1>3, <1>4, <1>5, <1>6, <1>7, <1>8, <1>9, <1>10,
      <1>11, <1>12, <1>13, <1>14, <1>15, <1>16, <1>17, <1>18, <1>19, <1>20,
      <1>21, <1>22, <1>23
      DEF Next, LockStep, OutsideStep

\* Every step keeps the progress of the moves.
LEMMA MovingStep ==
  ~JournalSyncFails /\ UpdateInv /\ [Next]_vars => (MovesEntries)'
  <1> SUFFICES ASSUME ~JournalSyncFails, UpdateInv, [Next]_vars
      PROVE (MovesEntries)'
    OBVIOUS
  <1> USE UpdateAssumption DEF UpdateInv, TypeOK, Held, IsPending, stages,
      ActionSeesWhole, OneTransaction, MovesEntries, Staging, Undoing, Backups,
      BackupComplete, InPlace, Entries, Empty
  <1>1. ASSUME NEW p \in Procs, Stage(p) PROVE (MovesEntries)'
    BY <1>1 DEF Stage, Goto
  <1>2. ASSUME NEW p \in Procs, JournalPreparing(p) PROVE (MovesEntries)'
    BY <1>2 DEF JournalPreparing, Goto
  <1>3. ASSUME NEW p \in Procs, Wait(p) PROVE (MovesEntries)'
    BY <1>3 DEF Wait, Goto
  <1>4. ASSUME NEW p \in Procs, Acquire(p) PROVE (MovesEntries)'
    BY <1>4 DEF Acquire, Goto
  <1>5. ASSUME NEW p \in Procs, GiveUp(p) PROVE (MovesEntries)'
    BY <1>5 DEF GiveUp, Goto
  <1>6. ASSUME NEW p \in Procs, Recover(p) PROVE (MovesEntries)'
    BY <1>6 DEF Recover, Recoverable, Rollback, Goto
  <1>7. ASSUME NEW p \in Procs, RemoveStage(p) PROVE (MovesEntries)'
    BY <1>7 DEF RemoveStage, ForgetStage, Alive
  <1>8. ASSUME NEW p \in Procs, Recovered(p) PROVE (MovesEntries)'
    BY <1>8 DEF Recovered, Recoverable, Goto
  <1>9. ASSUME NEW p \in Procs, UndoEntry(p) PROVE (MovesEntries)'
    BY <1>9 DEF UndoEntry, Removing
  <1>10. ASSUME NEW p \in Procs, Undone(p) PROVE (MovesEntries)'
    BY <1>10 DEF Undone, Unlock, Goto
  <1>11. ASSUME NEW p \in Procs, Fail(p) PROVE (MovesEntries)'
    BY <1>11 DEF Fail, Unlock, Goto
  <1>12. ASSUME NEW p \in Procs, Edit(p) PROVE (MovesEntries)'
    BY <1>12 DEF Edit, Unlock, Goto
  <1>13. ASSUME NEW p \in Procs, Prepare(p) PROVE (MovesEntries)'
    BY <1>13 DEF Prepare, Goto
  <1>14. ASSUME NEW p \in Procs, Sync(p) PROVE (MovesEntries)'
    BY <1>14 DEF Sync, Goto
  <1>15. ASSUME NEW p \in Procs, Begin(p) PROVE (MovesEntries)'
    BY <1>15 DEF Begin, Unlock, Goto
  <1>16. ASSUME NEW p \in Procs, MoveOut(p) PROVE (MovesEntries)'
    BY <1>16 DEF MoveOut, MovedOut
  <1>17. ASSUME NEW p \in Procs, MoveIn(p) PROVE (MovesEntries)'
    BY <1>17 DEF MoveIn, MovedOut
  <1>18. ASSUME NEW p \in Procs, Commit(p) PROVE (MovesEntries)'
    BY <1>18 DEF Commit, Unlock, Goto
  <1>19. ASSUME NEW p \in Procs, CommitFails(p) PROVE (MovesEntries)'
    BY <1>19 DEF CommitFails, Goto
  <1>20. ASSUME NEW p \in Procs, Leave(p) PROVE (MovesEntries)'
    BY <1>20 DEF Leave, ForgetStage, Goto
  <1>21. ASSUME NEW p \in Procs, Kill(p) PROVE (MovesEntries)'
    BY <1>21 DEF Kill, Goto
  <1>22. ASSUME PowerLoss PROVE (MovesEntries)'
    BY <1>22 DEF PowerLoss, AfterLoss
  <1>23. ASSUME UNCHANGED vars PROVE (MovesEntries)'
    BY <1>23 DEF vars
  <1> QED BY <1>1, <1>2, <1>3, <1>4, <1>5, <1>6, <1>7, <1>8, <1>9, <1>10,
      <1>11, <1>12, <1>13, <1>14, <1>15, <1>16, <1>17, <1>18, <1>19, <1>20,
      <1>21, <1>22, <1>23
      DEF Next, LockStep, OutsideStep

\* Every step keeps the progress of a rollback.
LEMMA UndoingStep ==
  ~JournalSyncFails /\ UpdateInv /\ [Next]_vars => (Undoing)'
  <1> SUFFICES ASSUME ~JournalSyncFails, UpdateInv, [Next]_vars
      PROVE (Undoing)'
    OBVIOUS
  <1> USE UpdateAssumption DEF UpdateInv, TypeOK, Held, IsPending, stages,
      OneTransaction, Undoing, MovesEntries, Staging, Backups, BackupComplete,
      InPlace, Entries
  <1>1. ASSUME NEW p \in Procs, Stage(p) PROVE (Undoing)'
    BY <1>1 DEF Stage, Goto
  <1>2. ASSUME NEW p \in Procs, JournalPreparing(p) PROVE (Undoing)'
    BY <1>2 DEF JournalPreparing, Goto
  <1>3. ASSUME NEW p \in Procs, Wait(p) PROVE (Undoing)'
    BY <1>3 DEF Wait, Goto
  <1>4. ASSUME NEW p \in Procs, Acquire(p) PROVE (Undoing)'
    BY <1>4 DEF Acquire, Goto
  <1>5. ASSUME NEW p \in Procs, GiveUp(p) PROVE (Undoing)'
    BY <1>5 DEF GiveUp, Goto
  <1>6. ASSUME NEW p \in Procs, Recover(p) PROVE (Undoing)'
    BY <1>6 DEF Recover, Recoverable, Rollback, Goto
  <1>7. ASSUME NEW p \in Procs, RemoveStage(p) PROVE (Undoing)'
    BY <1>7 DEF RemoveStage, ForgetStage, Alive
  <1>8. ASSUME NEW p \in Procs, Recovered(p) PROVE (Undoing)'
    BY <1>8 DEF Recovered, Recoverable, Goto
  <1>9. ASSUME NEW p \in Procs, UndoEntry(p) PROVE (Undoing)'
    <2>1. ASSUME ClearEntry(p) PROVE Undoing'
      BY <1>9, <2>1, UndoFacts DEF ClearEntry, UndoneElsewhere, Removing
    <2>2. ASSUME PutBackEntry(p) PROVE Undoing'
      BY <1>9, <2>2, UndoFacts DEF PutBackEntry, UndoneElsewhere
    <2>3. ASSUME SkipEntry(p) PROVE Undoing'
      BY <1>9, <2>3, UndoFacts DEF SkipEntry, UndoneElsewhere
    <2> HIDE DEF Undoing
    <2> QED BY <1>9, <2>1, <2>2, <2>3, UndoCases
  <1>10. ASSUME NEW p \in Procs, Undone(p) PROVE (Undoing)'
    <2>1. pc \in [Procs -> Held \cup {"idle", "staging", "waiting", "leaving", "done", "dead"}]
          /\ \A q \in Procs : q # p => pc[q] # "undoing"
      BY <1>10 DEF Undone
    <2>2. \A q \in Procs : pc'[q] # "undoing"
      <3> HIDE DEF UpdateInv
      <3> QED BY <1>10, <2>1, UndoneEffect
    <2> QED BY <2>2
  <1>11. ASSUME NEW p \in Procs, Fail(p) PROVE (Undoing)'
    BY <1>11 DEF Fail, Unlock, Goto
  <1>12. ASSUME NEW p \in Procs, Edit(p) PROVE (Undoing)'
    BY <1>12 DEF Edit, Unlock, Goto
  <1>13. ASSUME NEW p \in Procs, Prepare(p) PROVE (Undoing)'
    BY <1>13 DEF Prepare, Goto
  <1>14. ASSUME NEW p \in Procs, Sync(p) PROVE (Undoing)'
    BY <1>14 DEF Sync, Goto
  <1>15. ASSUME NEW p \in Procs, Begin(p) PROVE (Undoing)'
    BY <1>15 DEF Begin, Unlock, Goto
  <1>16. ASSUME NEW p \in Procs, MoveOut(p) PROVE (Undoing)'
    BY <1>16 DEF MoveOut, MovedOut
  <1>17. ASSUME NEW p \in Procs, MoveIn(p) PROVE (Undoing)'
    BY <1>17 DEF MoveIn, MovedOut
  <1>18. ASSUME NEW p \in Procs, Commit(p) PROVE (Undoing)'
    BY <1>18 DEF Commit, Unlock, Goto
  <1>19. ASSUME NEW p \in Procs, CommitFails(p) PROVE (Undoing)'
    BY <1>19 DEF CommitFails, Goto
  <1>20. ASSUME NEW p \in Procs, Leave(p) PROVE (Undoing)'
    BY <1>20 DEF Leave, ForgetStage, Goto
  <1>21. ASSUME NEW p \in Procs, Kill(p) PROVE (Undoing)'
    BY <1>21 DEF Kill, Goto
  <1>22. ASSUME PowerLoss PROVE (Undoing)'
    BY <1>22 DEF PowerLoss, AfterLoss
  <1>23. ASSUME UNCHANGED vars PROVE (Undoing)'
    BY <1>23 DEF vars
  <1> QED BY <1>1, <1>2, <1>3, <1>4, <1>5, <1>6, <1>7, <1>8, <1>9, <1>10,
      <1>11, <1>12, <1>13, <1>14, <1>15, <1>16, <1>17, <1>18, <1>19, <1>20,
      <1>21, <1>22, <1>23
      DEF Next, LockStep, OutsideStep

\* Every step keeps what a stage holds before its transaction.
LEMMA StagingStep ==
  ~JournalSyncFails /\ UpdateInv /\ [Next]_vars => (Staging)'
  <1> SUFFICES ASSUME ~JournalSyncFails, UpdateInv, [Next]_vars
      PROVE (Staging)'
    OBVIOUS
  <1> USE UpdateAssumption DEF UpdateInv, TypeOK, Held, IsPending, stages,
      Staging, Undoing, MovesEntries, Empty
  <1>1. ASSUME NEW p \in Procs, Stage(p) PROVE (Staging)'
    BY <1>1 DEF Stage, Goto
  <1>2. ASSUME NEW p \in Procs, JournalPreparing(p) PROVE (Staging)'
    BY <1>2 DEF JournalPreparing, Goto
  <1>3. ASSUME NEW p \in Procs, Wait(p) PROVE (Staging)'
    BY <1>3 DEF Wait, Goto
  <1>4. ASSUME NEW p \in Procs, Acquire(p) PROVE (Staging)'
    BY <1>4 DEF Acquire, Goto
  <1>5. ASSUME NEW p \in Procs, GiveUp(p) PROVE (Staging)'
    BY <1>5 DEF GiveUp, Goto
  <1>6. ASSUME NEW p \in Procs, Recover(p) PROVE (Staging)'
    BY <1>6 DEF Recover, Recoverable, Rollback, Goto
  <1>7. ASSUME NEW p \in Procs, RemoveStage(p) PROVE (Staging)'
    BY <1>7 DEF RemoveStage, ForgetStage, Alive
  <1>8. ASSUME NEW p \in Procs, Recovered(p) PROVE (Staging)'
    BY <1>8 DEF Recovered, Recoverable, Goto
  <1>9. ASSUME NEW p \in Procs, UndoEntry(p) PROVE (Staging)'
    <2>1. ASSUME ClearEntry(p) PROVE Staging'
      BY <1>9, <2>1, UndoFacts DEF ClearEntry, UndoneElsewhere, Removing
    <2>2. ASSUME PutBackEntry(p) PROVE Staging'
      BY <1>9, <2>2, UndoFacts DEF PutBackEntry, UndoneElsewhere
    <2>3. ASSUME SkipEntry(p) PROVE Staging'
      BY <1>9, <2>3, UndoFacts DEF SkipEntry, UndoneElsewhere
    <2> HIDE DEF Staging
    <2> QED BY <1>9, <2>1, <2>2, <2>3, UndoCases
  <1>10. ASSUME NEW p \in Procs, Undone(p) PROVE (Staging)'
    BY <1>10 DEF Undone, Unlock, Goto
  <1>11. ASSUME NEW p \in Procs, Fail(p) PROVE (Staging)'
    BY <1>11 DEF Fail, Unlock, Goto
  <1>12. ASSUME NEW p \in Procs, Edit(p) PROVE (Staging)'
    BY <1>12 DEF Edit, Unlock, Goto
  <1>13. ASSUME NEW p \in Procs, Prepare(p) PROVE (Staging)'
    BY <1>13 DEF Prepare, Goto
  <1>14. ASSUME NEW p \in Procs, Sync(p) PROVE (Staging)'
    BY <1>14 DEF Sync, Goto
  <1>15. ASSUME NEW p \in Procs, Begin(p) PROVE (Staging)'
    BY <1>15 DEF Begin, Unlock, Goto
  <1>16. ASSUME NEW p \in Procs, MoveOut(p) PROVE (Staging)'
    BY <1>16 DEF MoveOut, MovedOut
  <1>17. ASSUME NEW p \in Procs, MoveIn(p) PROVE (Staging)'
    BY <1>17 DEF MoveIn, MovedOut
  <1>18. ASSUME NEW p \in Procs, Commit(p) PROVE (Staging)'
    BY <1>18 DEF Commit, Unlock, Goto
  <1>19. ASSUME NEW p \in Procs, CommitFails(p) PROVE (Staging)'
    BY <1>19 DEF CommitFails, Goto
  <1>20. ASSUME NEW p \in Procs, Leave(p) PROVE (Staging)'
    BY <1>20 DEF Leave, ForgetStage, Goto
  <1>21. ASSUME NEW p \in Procs, Kill(p) PROVE (Staging)'
    BY <1>21 DEF Kill, Goto
  <1>22. ASSUME PowerLoss PROVE (Staging)'
    BY <1>22 DEF PowerLoss, AfterLoss
  <1>23. ASSUME UNCHANGED vars PROVE (Staging)'
    BY <1>23 DEF vars
  <1> QED BY <1>1, <1>2, <1>3, <1>4, <1>5, <1>6, <1>7, <1>8, <1>9, <1>10,
      <1>11, <1>12, <1>13, <1>14, <1>15, <1>16, <1>17, <1>18, <1>19, <1>20,
      <1>21, <1>22, <1>23
      DEF Next, LockStep, OutsideStep

\* Every step keeps the backups.
LEMMA BackupsStep ==
  ~JournalSyncFails /\ UpdateInv /\ [Next]_vars => (Backups)'
  <1> SUFFICES ASSUME ~JournalSyncFails, UpdateInv, [Next]_vars
      PROVE (Backups)'
    OBVIOUS
  <1> USE UpdateAssumption DEF UpdateInv, TypeOK, Held, IsPending, stages,
      OneTransaction, ActionSeesWhole, Backups, BackupComplete, MovesEntries,
      Undoing, Staging, InPlace, Entries, Empty
  <1>1. ASSUME NEW p \in Procs, Stage(p) PROVE (Backups)'
    BY <1>1 DEF Stage, Goto
  <1>2. ASSUME NEW p \in Procs, JournalPreparing(p) PROVE (Backups)'
    BY <1>2 DEF JournalPreparing, Goto
  <1>3. ASSUME NEW p \in Procs, Wait(p) PROVE (Backups)'
    BY <1>3 DEF Wait, Goto
  <1>4. ASSUME NEW p \in Procs, Acquire(p) PROVE (Backups)'
    BY <1>4 DEF Acquire, Goto
  <1>5. ASSUME NEW p \in Procs, GiveUp(p) PROVE (Backups)'
    BY <1>5 DEF GiveUp, Goto
  <1>6. ASSUME NEW p \in Procs, Recover(p) PROVE (Backups)'
    BY <1>6 DEF Recover, Recoverable, Rollback, Goto
  <1>7. ASSUME NEW p \in Procs, RemoveStage(p) PROVE (Backups)'
    BY <1>7 DEF RemoveStage, ForgetStage, Alive
  <1>8. ASSUME NEW p \in Procs, Recovered(p) PROVE (Backups)'
    BY <1>8 DEF Recovered, Recoverable, Goto
  <1>9. ASSUME NEW p \in Procs, UndoEntry(p) PROVE (Backups)'
    <2>1. ASSUME ClearEntry(p) PROVE Backups'
      BY <1>9, <2>1, UndoFacts DEF ClearEntry, UndoneElsewhere, Removing
    <2>2. ASSUME PutBackEntry(p) PROVE Backups'
      BY <1>9, <2>2, UndoFacts DEF PutBackEntry, UndoneElsewhere
    <2>3. ASSUME SkipEntry(p) PROVE Backups'
      BY <1>9, <2>3, UndoFacts DEF SkipEntry, UndoneElsewhere
    <2> HIDE DEF Backups
    <2> QED BY <1>9, <2>1, <2>2, <2>3, UndoCases
  <1>10. ASSUME NEW p \in Procs, Undone(p) PROVE (Backups)'
    BY <1>10 DEF Undone, Unlock, Goto
  <1>11. ASSUME NEW p \in Procs, Fail(p) PROVE (Backups)'
    BY <1>11 DEF Fail, Unlock, Goto
  <1>12. ASSUME NEW p \in Procs, Edit(p) PROVE (Backups)'
    BY <1>12 DEF Edit, Unlock, Goto
  <1>13. ASSUME NEW p \in Procs, Prepare(p) PROVE (Backups)'
    BY <1>13 DEF Prepare, Goto
  <1>14. ASSUME NEW p \in Procs, Sync(p) PROVE (Backups)'
    BY <1>14 DEF Sync, Goto
  <1>15. ASSUME NEW p \in Procs, Begin(p) PROVE (Backups)'
    BY <1>15 DEF Begin, Unlock, Goto
  <1>16. ASSUME NEW p \in Procs, MoveOut(p) PROVE (Backups)'
    BY <1>16 DEF MoveOut, MovedOut
  <1>17. ASSUME NEW p \in Procs, MoveIn(p) PROVE (Backups)'
    BY <1>17 DEF MoveIn, MovedOut
  <1>18. ASSUME NEW p \in Procs, Commit(p) PROVE (Backups)'
    BY <1>18 DEF Commit, Unlock, Goto
  <1>19. ASSUME NEW p \in Procs, CommitFails(p) PROVE (Backups)'
    BY <1>19 DEF CommitFails, Goto
  <1>20. ASSUME NEW p \in Procs, Leave(p) PROVE (Backups)'
    <2>1. CASE p \in Updates /\ journal[p] \in {"preparing", "committed", "rolledBack"}
      <3>1. ForgetStage(p) /\ UNCHANGED active
        BY <1>20, <2>1 DEF Leave
      <3>2. \A s \in Updates :
              /\ backup'[s] = IF s = p THEN Empty ELSE backup[s]
              /\ journal'[s] = IF s = p THEN "none" ELSE journal[s]
        <4>1. TypeOK
          OBVIOUS
        <4> HIDE DEF UpdateInv, TypeOK, Empty
        <4> QED BY <4>1, <2>1, <3>1, ForgetEffect
      <3>3. UNCHANGED <<existed, synced>>
        BY <3>1 DEF ForgetStage
      <3>4. \A s \in Updates : journal'[s] = "pending" =>
              journal[s] = "pending" /\ backup'[s] = backup[s]
        BY <3>2
      <3> HIDE DEF TypeOK, OneTransaction, ActionSeesWhole, MovesEntries, Undoing, Staging, Empty, Entries
      <3> QED BY <3>1, <3>3, <3>4
    <2>2. CASE ~(p \in Updates /\ journal[p] \in {"preparing", "committed", "rolledBack"})
      BY <1>20, <2>2 DEF Leave, Goto
    <2> QED BY <2>1, <2>2
  <1>21. ASSUME NEW p \in Procs, Kill(p) PROVE (Backups)'
    BY <1>21 DEF Kill, Goto
  <1>22. ASSUME PowerLoss PROVE (Backups)'
    BY <1>22 DEF PowerLoss, AfterLoss
  <1>23. ASSUME UNCHANGED vars PROVE (Backups)'
    BY <1>23 DEF vars
  <1> QED BY <1>1, <1>2, <1>3, <1>4, <1>5, <1>6, <1>7, <1>8, <1>9, <1>10,
      <1>11, <1>12, <1>13, <1>14, <1>15, <1>16, <1>17, <1>18, <1>19, <1>20,
      <1>21, <1>22, <1>23
      DEF Next, LockStep, OutsideStep

\* Every step keeps the installation whole.
LEMMA DurableStep ==
  ~JournalSyncFails /\ UpdateInv /\ [Next]_vars => (Durable)'
  <1> SUFFICES ASSUME ~JournalSyncFails, UpdateInv, [Next]_vars
      PROVE (Durable)'
    OBVIOUS
  <1> USE UpdateAssumption DEF UpdateInv, TypeOK, Held, IsPending, stages,
      OneTransaction, ActionSeesWhole, Backups, BackupComplete, MovesEntries,
      Undoing, Staging, Durable, InPlace, Unflushed, Entries, Empty
  <1>1. ASSUME NEW p \in Procs, Stage(p) PROVE (Durable)'
    BY <1>1 DEF Stage, Goto
  <1>2. ASSUME NEW p \in Procs, JournalPreparing(p) PROVE (Durable)'
    BY <1>2 DEF JournalPreparing, Goto
  <1>3. ASSUME NEW p \in Procs, Wait(p) PROVE (Durable)'
    BY <1>3 DEF Wait, Goto
  <1>4. ASSUME NEW p \in Procs, Acquire(p) PROVE (Durable)'
    BY <1>4 DEF Acquire, Goto
  <1>5. ASSUME NEW p \in Procs, GiveUp(p) PROVE (Durable)'
    BY <1>5 DEF GiveUp, Goto
  <1>6. ASSUME NEW p \in Procs, Recover(p) PROVE (Durable)'
    BY <1>6 DEF Recover, Recoverable, Rollback, Goto
  <1>7. ASSUME NEW p \in Procs, RemoveStage(p) PROVE (Durable)'
    BY <1>7 DEF RemoveStage, ForgetStage, Alive
  <1>8. ASSUME NEW p \in Procs, Recovered(p) PROVE (Durable)'
    BY <1>8 DEF Recovered, Recoverable, Goto
  <1>9. ASSUME NEW p \in Procs, UndoEntry(p) PROVE (Durable)'
    <2>1. ASSUME ClearEntry(p) PROVE Durable'
      BY <1>9, <2>1, UndoFacts DEF ClearEntry, UndoneElsewhere, Removing, Unflushed
    <2>2. ASSUME PutBackEntry(p) PROVE Durable'
      BY <1>9, <2>2, UndoFacts DEF PutBackEntry, UndoneElsewhere, Unflushed
    <2>3. ASSUME SkipEntry(p) PROVE Durable'
      BY <1>9, <2>3, UndoFacts DEF SkipEntry, UndoneElsewhere, Unflushed
    <2> HIDE DEF Durable
    <2> QED BY <1>9, <2>1, <2>2, <2>3, UndoCases
  <1>10. ASSUME NEW p \in Procs, Undone(p) PROVE (Durable)'
    <2>1. target \in Updates /\ IsPending(target) /\ step = 0
          /\ \A e \in Entries : InPlace(target, e)
      BY <1>10, UndoFacts DEF Undone
    <2>2. \A e \in Entries : active[e] # Torn
      BY <2>1
    <2> QED BY <1>10, <2>1, <2>2 DEF Undone
  <1>11. ASSUME NEW p \in Procs, Fail(p) PROVE (Durable)'
    BY <1>11 DEF Fail, Unlock, Goto
  <1>12. ASSUME NEW p \in Procs, Edit(p) PROVE (Durable)'
    BY <1>12 DEF Edit, Unlock, Goto
  <1>13. ASSUME NEW p \in Procs, Prepare(p) PROVE (Durable)'
    BY <1>13 DEF Prepare, Goto
  <1>14. ASSUME NEW p \in Procs, Sync(p) PROVE (Durable)'
    BY <1>14 DEF Sync, Goto
  <1>15. ASSUME NEW p \in Procs, Begin(p) PROVE (Durable)'
    BY <1>15 DEF Begin, Unlock, Goto
  <1>16. ASSUME NEW p \in Procs, MoveOut(p) PROVE (Durable)'
    BY <1>16 DEF MoveOut, MovedOut
  <1>17. ASSUME NEW p \in Procs, MoveIn(p) PROVE (Durable)'
    <2>1. step \in Entries /\ p \in Updates /\ IsPending(p)
          /\ prepared[p][step] = New[p][step]
          /\ New[p][step] \notin Unflushed \cup {Torn}
      BY <1>17, MoveFacts, SyncedContents DEF MoveIn
    <2>2. \A e \in Entries : active'[e] = IF e = step THEN New[p][step] ELSE active[e]
      BY <1>17, <2>1 DEF MoveIn
    <2> QED BY <1>17, <2>1, <2>2 DEF MoveIn
  <1>18. ASSUME NEW p \in Procs, Commit(p) PROVE (Durable)'
    <2>1. p \in Updates /\ \A e \in Entries : active[e] # Torn
      BY <1>18, MoveFacts, SyncedContents DEF Commit
    <2> QED BY <1>18, <2>1 DEF Commit
  <1>19. ASSUME NEW p \in Procs, CommitFails(p) PROVE (Durable)'
    BY <1>19 DEF CommitFails, Goto
  <1>20. ASSUME NEW p \in Procs, Leave(p) PROVE (Durable)'
    <2>1. CASE p \in Updates /\ journal[p] \in {"preparing", "committed", "rolledBack"}
      <3>1. ForgetStage(p) /\ UNCHANGED active
        BY <1>20, <2>1 DEF Leave
      <3>2. \A s \in Updates :
              /\ backup'[s] = IF s = p THEN Empty ELSE backup[s]
              /\ journal'[s] = IF s = p THEN "none" ELSE journal[s]
        <4>1. TypeOK
          OBVIOUS
        <4> HIDE DEF UpdateInv, TypeOK, Empty
        <4> QED BY <4>1, <2>1, <3>1, ForgetEffect
      <3>3. UNCHANGED <<existed, synced>>
        BY <3>1 DEF ForgetStage
      <3>4. \A s \in Updates : journal'[s] = "pending" =>
              journal[s] = "pending" /\ backup'[s] = backup[s]
        BY <3>2
      <3>5. Unflushed' = Unflushed
        BY <3>3 DEF Unflushed
      <3>6. \A s \in Updates : journal[s] = "pending" => journal'[s] = "pending"
        BY <2>1, <3>2
      <3>7. \A s \in Updates, e \in Entries : backup'[s][e] \in {backup[s][e], None}
        BY <3>2
      <3>8. None \notin Unflushed \cup {Torn}
        OBVIOUS
      <3> HIDE DEF Unflushed
      <3> HIDE DEF TypeOK, OneTransaction, ActionSeesWhole, MovesEntries, Undoing, Staging, Empty, Entries
      <3> QED BY <3>1, <3>3, <3>4, <3>5, <3>6, <3>7, <3>8
    <2>2. CASE ~(p \in Updates /\ journal[p] \in {"preparing", "committed", "rolledBack"})
      BY <1>20, <2>2 DEF Leave, Goto
    <2> QED BY <2>1, <2>2
  <1>21. ASSUME NEW p \in Procs, Kill(p) PROVE (Durable)'
    BY <1>21 DEF Kill, Goto
  <1>22. ASSUME PowerLoss PROVE (Durable)'
    BY <1>22 DEF PowerLoss, AfterLoss
  <1>23. ASSUME UNCHANGED vars PROVE (Durable)'
    BY <1>23 DEF vars
  <1> HIDE DEF Durable
  <1> QED BY <1>1, <1>2, <1>3, <1>4, <1>5, <1>6, <1>7, <1>8, <1>9, <1>10,
      <1>11, <1>12, <1>13, <1>14, <1>15, <1>16, <1>17, <1>18, <1>19, <1>20,
      <1>21, <1>22, <1>23
      DEF Next, LockStep, OutsideStep

----------------------------------------------------------------------------
\* The invariant holds in every state.
THEOREM UpdateInvariant == ASSUME ~JournalSyncFails PROVE Spec => []UpdateInv
  <1>1. UpdateInv /\ [Next]_vars => UpdateInv'
    BY TypesStep, TransactionStep, MovingStep, UndoingStep, StagingStep,
       BackupsStep, DurableStep DEF UpdateInv
  <1> QED BY UpdateInit, <1>1, PTL DEF Spec

\* Every variable keeps its type.
THEOREM UpdateTypes == ASSUME ~JournalSyncFails PROVE Spec => []TypeOK
  <1>1. UpdateInv => TypeOK
    BY DEF UpdateInv
  <1> QED BY UpdateInvariant, <1>1, PTL

\* Two updates are never to be rolled back at once: a process that is killed
\* in the middle is undone before another one starts to move entries.
THEOREM OneTransactionAtATime ==
    ASSUME ~JournalSyncFails PROVE Spec => []OneTransaction
  <1>1. UpdateInv => OneTransaction
    BY DEF UpdateInv
  <1> QED BY UpdateInvariant, <1>1, PTL

\* The launcher, a channel write and the next update never work on a profile
\* that is half of one release and half of another.
THEOREM ActionsSeeWhole ==
    ASSUME ~JournalSyncFails PROVE Spec => []ActionSeesWhole
  <1>1. UpdateInv => ActionSeesWhole
    BY DEF UpdateInv
  <1> QED BY UpdateInvariant, <1>1, PTL

\* A rollback finds each entry that existed, in place or in the backup.
THEOREM BackupsAreComplete ==
    ASSUME ~JournalSyncFails PROVE Spec => []BackupComplete
  <1>1. UpdateInv => BackupComplete
    BY DEF UpdateInv, Backups
  <1> QED BY UpdateInvariant, <1>1, PTL

----------------------------------------------------------------------------
\* The installation, as the only pending stage or its absence determines it.
InstalledFacts ==
    /\ \A s \in Updates : IsPending(s) => Installed = Restored(s)
    /\ (\A s \in Updates : ~IsPending(s)) => Installed = active

LEMMA InstalledIs == OneTransaction => InstalledFacts
  <1> SUFFICES ASSUME OneTransaction PROVE InstalledFacts
    OBVIOUS
  <1>1. ASSUME NEW s \in Updates, IsPending(s) PROVE Installed = Restored(s)
    <2>1. (CHOOSE t \in Updates : IsPending(t)) = s
      BY <1>1 DEF OneTransaction
    <2> QED BY <1>1, <2>1 DEF Installed
  <1>2. ASSUME \A s \in Updates : ~IsPending(s) PROVE Installed = active
    BY <1>2 DEF Installed
  <1> QED BY <1>1, <1>2 DEF InstalledFacts

LEMMA InstalledNext == OneTransaction' => InstalledFacts'
  BY InstalledIs, PTL

\* The invariant leaves no torn entry in the installation.
LEMMA WholeWhenInvariant == UpdateInv => NeverTorn
  <1> SUFFICES ASSUME UpdateInv, NEW e \in Entries PROVE Installed[e] # Torn
    BY DEF NeverTorn
  <1>1. CASE \A s \in Updates : ~IsPending(s)
    BY <1>1, InstalledIs DEF InstalledFacts, UpdateInv, Durable
  <1>2. ASSUME NEW s \in Updates, IsPending(s) PROVE Installed[e] # Torn
    <2>1. Installed = Restored(s)
      BY <1>2, InstalledIs DEF InstalledFacts, UpdateInv
    <2>2. Restored(s)[e] # Torn
      BY <1>2, UpdateAssumption DEF UpdateInv, Durable, Restored
    <2> QED BY <2>1, <2>2
  <1> QED BY <1>1, <1>2

\* A loss of power never leaves a torn entry in the installation.
THEOREM InstallationNeverTorn ==
    ASSUME ~JournalSyncFails PROVE Spec => []NeverTorn
  BY UpdateInvariant, WholeWhenInvariant, PTL

----------------------------------------------------------------------------
\* The refinement: every step but the commit and the edit leaves the
\* installation alone.

\* The same transaction is pending, and its rollback gives the same.
LEMMA SameInstalled ==
    ASSUME OneTransaction, OneTransaction',
           \A s \in Updates : IsPending(s)' <=> IsPending(s),
           \A s \in Updates : IsPending(s) =>
                \A e \in Entries : Restored(s)'[e] = Restored(s)[e],
           (\A s \in Updates : ~IsPending(s)) => active' = active
    PROVE  Installed' = Installed
  <1>1. CASE \A s \in Updates : ~IsPending(s)
    <2>1. Installed' = active'
      BY <1>1, InstalledNext DEF InstalledFacts
    <2> QED BY <1>1, <2>1, InstalledIs DEF InstalledFacts
  <1>2. ASSUME NEW s \in Updates, IsPending(s) PROVE Installed' = Installed
    <2>1. Restored(s)' = Restored(s)
      BY <1>2 DEF Restored
    <2>2. Installed = Restored(s)
      BY <1>2, InstalledIs DEF InstalledFacts
    <2>3. Installed' = Restored(s)'
      BY <1>2, InstalledNext DEF InstalledFacts
    <2> QED BY <2>1, <2>2, <2>3
  <1> QED BY <1>1, <1>2

\* A step that touches neither the entries nor what is pending.
Untouched ==
    /\ UNCHANGED <<active, backup, existed>>
    /\ \A s \in Updates : journal'[s] = "pending" <=> journal[s] = "pending"

LEMMA UntouchedSteps ==
    ASSUME UpdateInv, NEW p \in Procs,
           \/ Stage(p) \/ JournalPreparing(p) \/ Wait(p) \/ Acquire(p) \/ GiveUp(p)
           \/ Recover(p) \/ Recovered(p) \/ Fail(p) \/ Prepare(p) \/ Sync(p)
           \/ CommitFails(p) \/ Kill(p),
           ~JournalSyncFails
    PROVE  Untouched
  <1> USE UpdateAssumption DEF UpdateInv, TypeOK, Staging, Untouched, stages
  <1>1. CASE Stage(p)
    BY <1>1 DEF Stage
  <1>2. CASE JournalPreparing(p)
    BY <1>2 DEF JournalPreparing
  <1>3. CASE Wait(p) \/ Acquire(p) \/ GiveUp(p) \/ Recover(p) \/ Recovered(p)
             \/ Fail(p)
    BY <1>3 DEF Wait, Acquire, GiveUp, Recover, Rollback, Recovered, Fail
  <1>4. CASE Prepare(p) \/ Sync(p) \/ CommitFails(p) \/ Kill(p)
    BY <1>4 DEF Prepare, Sync, CommitFails, Kill
  <1> QED BY <1>1, <1>2, <1>3, <1>4

LEMMA UntouchedKeeps ==
    ASSUME OneTransaction, OneTransaction', Untouched
    PROVE  Installed' = Installed
  <1>1. \A s \in Updates : IsPending(s)' <=> IsPending(s)
    BY DEF IsPending, Untouched
  <1>2. \A s \in Updates : Restored(s)' = Restored(s)
    BY DEF Restored, Untouched
  <1> QED BY <1>1, <1>2, SameInstalled DEF Untouched

\* A stage that is removed was not pending.
LEMMA ForgetKeeps ==
    ASSUME UpdateInv, OneTransaction', NEW s \in Updates, ~IsPending(s),
           ForgetStage(s), UNCHANGED active
    PROVE  Installed' = Installed
  <1>1. \A t \in Updates : IsPending(t)' <=> IsPending(t)
    BY ForgetEffect DEF UpdateInv, IsPending
  <1>2. \A t \in Updates : IsPending(t) => Restored(t)' = Restored(t)
    BY ForgetEffect DEF UpdateInv, Restored
  <1> QED BY <1>1, <1>2, SameInstalled DEF UpdateInv

\* A loss of power tears nothing that is in place.
LEMMA PowerLossKeeps ==
    ASSUME UpdateInv, OneTransaction', PowerLoss
    PROVE  Installed' = Installed
  <1>1. active' = active
    BY DEF PowerLoss, AfterLoss, UpdateInv, TypeOK, Durable
  <1>2. Untouched
    BY <1>1 DEF PowerLoss, Untouched
  <1> QED BY <1>2, UntouchedKeeps DEF UpdateInv

\* A step of a rollback moves the profile towards what it restores.
LEMMA UndoKeeps ==
    ASSUME UpdateInv, OneTransaction', NEW p \in Procs, UndoEntry(p)
    PROVE  Installed' = Installed
  <1>1. PICK t \in Updates :
          /\ t = target /\ IsPending(t) /\ step \in Entries
          /\ \A s \in Updates : IsPending(s) => s = t
    BY UndoFacts DEF UndoEntry, UpdateInv, OneTransaction
  <1>2. \A s \in Updates : IsPending(s)' <=> IsPending(s)
    BY DEF UndoEntry, IsPending
  <1>3. \A e \in Entries : Restored(t)'[e] = Restored(t)[e]
    <2> USE <1>1 DEF UpdateInv, TypeOK, Backups, Restored, UndoneElsewhere
    <2>1. CASE ClearEntry(p)
      BY <2>1 DEF ClearEntry, Removing
    <2>2. CASE PutBackEntry(p)
      BY <2>2 DEF PutBackEntry
    <2>3. CASE SkipEntry(p)
      BY <2>3 DEF SkipEntry
    <2> QED BY <2>1, <2>2, <2>3, UndoCases
  <1>4. \A s \in Updates : IsPending(s) =>
          \A e \in Entries : Restored(s)'[e] = Restored(s)[e]
    BY <1>1, <1>3
  <1> QED BY <1>1, <1>2, <1>4, SameInstalled DEF UpdateInv

\* At its end the profile is what the rollback restores.
LEMMA UndoneKeeps ==
    ASSUME UpdateInv, OneTransaction', NEW p \in Procs, Undone(p)
    PROVE  Installed' = Installed
  <1>1. /\ target \in Updates /\ IsPending(target)
        /\ \A e \in Entries : InPlace(target, e)
        /\ \A s \in Updates : IsPending(s) => s = target
    BY UndoFacts DEF Undone, UpdateInv, OneTransaction, Entries
  <1>2. Restored(target) = active
    BY <1>1 DEF Restored, InPlace, UpdateInv, TypeOK
  <1>3. \A s \in Updates : journal'[s] # "pending"
    BY <1>1 DEF Undone, UpdateInv, TypeOK, IsPending
  <1>4. Installed' = active' /\ active' = active
    BY <1>3, InstalledNext DEF InstalledFacts, IsPending, Undone
  <1> QED BY <1>1, <1>2, <1>4, InstalledIs DEF InstalledFacts, UpdateInv

\* The journal becomes pending while everything is in place.
LEMMA BeginKeeps ==
    ASSUME UpdateInv, OneTransaction', NEW p \in Procs, Begin(p)
    PROVE  Installed' = Installed
  <1>1. /\ p \in Updates /\ backup[p] = Empty
        /\ \A s \in Updates : ~IsPending(s)
    BY DEF Begin, UpdateInv, TypeOK, Staging, ActionSeesWhole
  <1>2. IsPending(p)' /\ existed'[p] = [e \in Entries |-> active[e] # None]
    BY <1>1 DEF Begin, IsPending, UpdateInv, TypeOK
  <1>3. UNCHANGED <<active, backup>>
    BY DEF Begin
  <1>4. Restored(p)' = [e \in Entries |-> active[e]]
    BY <1>1, <1>2, <1>3 DEF Restored, Empty
  <1>5. Installed' = active
    BY <1>1, <1>2, <1>4, InstalledNext DEF InstalledFacts, UpdateInv, TypeOK
  <1> QED BY <1>1, <1>5, InstalledIs DEF InstalledFacts, UpdateInv

\* An entry is in the backup before its replacement comes in.
LEMMA MoveKeeps ==
    ASSUME UpdateInv, OneTransaction', NEW p \in Procs, MoveOut(p) \/ MoveIn(p)
    PROVE  Installed' = Installed
  <1>1. /\ p \in Updates /\ IsPending(p) /\ step \in Entries
        /\ \A s \in Updates : IsPending(s) => s = p
    BY MoveFacts DEF MoveOut, MoveIn, UpdateInv, OneTransaction
  <1>2. \A s \in Updates : IsPending(s)' <=> IsPending(s)
    BY DEF MoveOut, MoveIn, IsPending
  <1>3. \A e \in Entries : Restored(p)'[e] = Restored(p)[e]
    <2> USE <1>1 DEF UpdateInv, TypeOK, Backups, BackupComplete, Restored, MovedOut
    <2>1. CASE MoveOut(p)
      BY <2>1 DEF MoveOut
    <2>2. CASE MoveIn(p)
      BY <2>2 DEF MoveIn
    <2> QED BY <2>1, <2>2
  <1>4. \A s \in Updates : IsPending(s) =>
          \A e \in Entries : Restored(s)'[e] = Restored(s)[e]
    BY <1>1, <1>3
  <1> QED BY <1>1, <1>2, <1>4, SameInstalled DEF UpdateInv

\* The journal says committed when every entry is the new one.
LEMMA CommitInstalls ==
    ASSUME UpdateInv, OneTransaction', NEW p \in Procs, Commit(p)
    PROVE  p \in Updates /\ Promise!Install(p)
  <1>1. /\ p \in Updates /\ IsPending(p)
        /\ \A e \in Entries : active[e] = New[p][e]
        /\ \A s \in Updates : IsPending(s) => s = p
    BY MoveFacts DEF Commit, UpdateInv, OneTransaction
  <1>2. active = New[p]
    BY <1>1, UpdateAssumption DEF UpdateInv, TypeOK
  <1>3. \A s \in Updates : journal'[s] # "pending"
    BY <1>1 DEF Commit, UpdateInv, TypeOK, IsPending
  <1>4. Installed' = active' /\ active' = active
    BY <1>3, InstalledNext DEF InstalledFacts, IsPending, Commit
  <1> QED BY <1>1, <1>2, <1>4 DEF Promise!Install

\* An edit takes place in a whole installation.
LEMMA EditEdits ==
    ASSUME UpdateInv, OneTransaction', NEW p \in Procs, Edit(p)
    PROVE  p \in Procs \ Updates /\ Promise!Edit(p)
  <1>1. \A s \in Updates : ~IsPending(s)
    BY DEF Edit, UpdateInv, ActionSeesWhole
  <1>2. \A s \in Updates : journal'[s] # "pending"
    BY <1>1 DEF Edit, stages, IsPending
  <1>3. Installed' = active' /\ Installed = active
    BY <1>1, <1>2, InstalledIs, InstalledNext DEF InstalledFacts, IsPending, UpdateInv
  <1> QED BY <1>3 DEF Edit, Promise!Edit

\* Whatever the processes do, fail to do or leave undone, what the next lock
\* owner finds once it has recovered is one whole release, with the edits.
THEOREM UpdatesAreAtomic ==
    ASSUME ~JournalSyncFails PROVE Spec => InstallsAtomically
  <1>1. Init => Promise!Init
    <2> SUFFICES ASSUME Init PROVE Installed = Old
      BY DEF Promise!Init
    <2>1. OneTransaction /\ \A s \in Updates : ~IsPending(s)
      BY DEF Init, IsPending, OneTransaction
    <2> QED BY <2>1, InstalledIs DEF InstalledFacts, Init
  <1>2. UpdateInv /\ UpdateInv' /\ [Next]_vars => [Promise!Next]_Installed
    <2> SUFFICES ASSUME UpdateInv, UpdateInv', [Next]_vars
                 PROVE  [Promise!Next]_Installed
      OBVIOUS
    <2>1. OneTransaction /\ OneTransaction'
      BY DEF UpdateInv
    <2>2. ASSUME NEW p \in Procs,
                 \/ Stage(p) \/ JournalPreparing(p) \/ Wait(p) \/ Acquire(p)
                 \/ GiveUp(p) \/ Recover(p) \/ Recovered(p) \/ Fail(p)
                 \/ Prepare(p) \/ Sync(p) \/ CommitFails(p) \/ Kill(p)
          PROVE  Installed' = Installed
      BY <2>1, <2>2, UntouchedSteps, UntouchedKeeps
    <2>3. ASSUME NEW p \in Procs, RemoveStage(p) PROVE Installed' = Installed
      <3>1. PICK s \in Updates :
              ForgetStage(s) /\ journal[s] \in {"committed", "rolledBack", "preparing"}
        BY <2>3 DEF RemoveStage
      <3> QED BY <2>1, <2>3, <3>1, ForgetKeeps DEF RemoveStage, IsPending
    <2>4. ASSUME NEW p \in Procs, Leave(p) PROVE Installed' = Installed
      <3>1. CASE p \in Updates /\ journal[p] \in {"preparing", "committed", "rolledBack"}
        BY <2>1, <2>4, <3>1, ForgetKeeps DEF Leave, IsPending
      <3>2. CASE ~(p \in Updates /\ journal[p] \in {"preparing", "committed", "rolledBack"})
        <4>1. Untouched
          BY <2>4, <3>2 DEF Leave, stages, Untouched
        <4> QED BY <2>1, <4>1, UntouchedKeeps
      <3> QED BY <3>1, <3>2
    <2>5. ASSUME NEW p \in Procs, Commit(p) PROVE Promise!Next
      BY <2>1, <2>5, CommitInstalls DEF Promise!Next
    <2>6. ASSUME NEW p \in Procs, Edit(p) PROVE Promise!Next
      BY <2>1, <2>6, EditEdits DEF Promise!Next
    <2>7. ASSUME NEW p \in Procs,
                 UndoEntry(p) \/ Undone(p) \/ Begin(p) \/ MoveOut(p) \/ MoveIn(p)
          PROVE  Installed' = Installed
      BY <2>1, <2>7, UndoKeeps, UndoneKeeps, BeginKeeps, MoveKeeps
    <2>8. ASSUME PowerLoss PROVE Installed' = Installed
      BY <2>1, <2>8, PowerLossKeeps
    <2>9. ASSUME UNCHANGED vars PROVE Installed' = Installed
      <3>1. Untouched
        BY <2>9 DEF vars, stages, Untouched
      <3> QED BY <2>1, <3>1, UntouchedKeeps
    <2> QED BY <2>2, <2>3, <2>4, <2>5, <2>6, <2>7, <2>8, <2>9
            DEF Next, LockStep, OutsideStep
  <1> QED BY UpdateInvariant, <1>1, <1>2, PTL DEF Spec, InstallsAtomically, Promise!Spec

\* One transaction at a time, and nobody who looks at half of it.
THEOREM TransactionsExclude ==
    ASSUME ~JournalSyncFails PROVE Spec => []Exclusive
  BY OneTransactionAtATime, ActionsSeeWhole, PTL DEF Exclusive

\* A crash at any step leaves what the recovery needs, and nothing torn.
THEOREM CrashIsRepairable ==
    ASSUME ~JournalSyncFails PROVE Spec => []AlwaysRepairable
  BY BackupsAreComplete, InstallationNeverTorn, PTL DEF AlwaysRepairable
=============================================================================
