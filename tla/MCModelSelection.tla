-------------------------- MODULE MCModelSelection --------------------------
(* Provider "own" has a route and is the default; "spare" is the other one. *)
EXTENDS ModelSelection

CONSTANTS own, spare, static, dynamic, moved, remove, update, add, list, first, second, chat

MCKind == [q \in Requests |-> CASE q = remove -> "remove" [] q = update -> "update"
                                [] q = add -> "add" [] OTHER -> "list"]
MCProviderOf == [q \in Requests |-> IF q = list THEN own ELSE spare]
MCEndpointOf == [q \in Requests |-> IF q = update THEN moved ELSE dynamic]
MCRecordOf == [c \in Picks |-> chat]
MCModelOf == [c \in Picks |-> IF c = first THEN spare ELSE own]
MCSaved == [route |-> [p \in Providers |-> IF p = own THEN static ELSE dynamic],
            default |-> own]
\* Other programs remove the static route and move the discovered one.
MCEdits == {[provider |-> own, to |-> None], [provider |-> spare, to |-> moved]}
=============================================================================
