-------------------------- MODULE MCProfilePlugins --------------------------
(* One plugin that is added with and without --trust, removed and switched; or *)
(* the row of the browser, which does not start, switched by /browser beside a *)
(* row that /dsh enables under a higher layer.                                 *)
EXTENDS ProfilePlugins

CONSTANTS plugin, browser, hidden, add, trust, remove, enable, disable, turnOn, turnOff, show

MCHostOf == [r \in Rows |-> Nobody]
MCAbout == [x \in PluginCommands |-> 
    CASE x \in {turnOn, turnOff} -> browser [] x = show -> hidden [] OTHER -> plugin]
MCPreinstalled == [Packages -> {Absent, [kind |-> "bundle", by |-> Nobody]}]

\* Three of the commands on the plugin, or those on the rows.
Few ==
    LET begun == {x \in PluginCommands : at'[x] # "idle"}
    IN \/ begun \subseteq {turnOn, turnOff, show}
       \/ begun \cap {turnOn, turnOff, show} = {} /\ Cardinality(begun) <= 3 /\ patched = {}

StepPlugins == NextPlugins /\ Few
SpecPlugins == InitPlugins /\ [][StepPlugins]_pluginVars /\ FairPlugins
=============================================================================
