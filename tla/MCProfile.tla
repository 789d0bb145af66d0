------------------------------ MODULE MCProfile ------------------------------
(* What changes a profile under its lock, side by side: the processes that     *)
(* update it, the commands on its plugins, and a launch, an upgrade and an     *)
(* uninstall.  A behaviour is one of them; the others keep their initial state.*)
EXTENDS MCUpdateTransaction, MCProfilePlugins, Launcher

CONSTANTS launch, upgrade, removal

VARIABLE subject

profileVars == <<vars, pluginVars, launcherVars, subject>>

ProfileInit ==
    /\ Init /\ InitPlugins /\ InitLauncher
    /\ subject \in {"update", "plugins", "launch"}
    /\ subject # "plugins" => plugins = "open" /\ patched = {} /\ manifest.bundles = {}
    /\ subject # "launch" => disk.plugin = 0 /\ link = "absent"

\* Two processes, one of which is killed or has a call fail.
TwoProcesses ==
    /\ Cardinality({p \in Processes : phase'[p] # "idle"}) <= 2
    /\ Cardinality(mishaps' \cap LaunchFaults)
           + Cardinality({p \in Processes : phase'[p] = "killed"}) <= 1

ProfileNext ==
    /\ UNCHANGED subject
    /\ \/ subject = "update" /\ Next /\ UNCHANGED <<pluginVars, launcherVars>>
       \/ subject = "plugins" /\ StepPlugins /\ UNCHANGED <<vars, launcherVars>>
       \/ subject = "launch" /\ NextLauncher /\ TwoProcesses /\ UNCHANGED <<vars, pluginVars>>

ProfileSpec ==
    ProfileInit /\ [][ProfileNext]_profileVars /\ FairPlugins /\ FairLauncher
==============================================================================
