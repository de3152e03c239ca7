------------------------------ MODULE MCPubSub ------------------------------
(* Instances of PubSub: p1, p2 are Request goroutines, g is Hubc.guard.     *)
EXTENDS PubSub

CONSTANTS u1, u2, p1, p2, g

\* u1 has two connections, p1 and p2, and is cleaned up by the guard; p2 acts
\* for u2 as well, which is alone.
MixedActs == [p \in Callers |-> IF p = p2 THEN {u1, u2} ELSE {u1}]
MixedOps == [p \in Callers |-> IF p = g THEN {"unsuball"}
                               ELSE IF p = p1 THEN {"sub", "unsub"} ELSE AllOps]
FewCalls == [p \in Callers |-> IF p = g THEN 1 ELSE 3]
=============================================================================
