----------------------------- MODULE MCSession -----------------------------
(* Two connections for the model checker, with an account each or           *)
(* with one account for all of them.                                        *)
EXTENDS Session

CONSTANTS c1, c2

TwoClients   == {c1, c2}
OwnAccount   == [c \in TwoClients |-> c]
OneAccount   == [c \in TwoClients |-> "account"]
OneRequest   == [c \in TwoClients |-> IF c = c1 THEN 1 ELSE 0]
TwoFromOne   == [c \in TwoClients |-> IF c = c1 THEN 2 ELSE 0]
TwoAndOne    == [c \in TwoClients |-> IF c = c1 THEN 2 ELSE 1]
=============================================================================
