----------------------------- MODULE MCRegistry -----------------------------
(* Instances of Registry.                                                   *)
EXTENDS Registry

CONSTANTS c1, c2, c3

Web(uid) == [uid |-> uid, app |-> "web"]
Phone == [uid |-> "u", app |-> "phone"]
TwoUsers == {Web("u"), Web("v"), Phone}

\* A client before it connects, by what it is going to do.
Plan(logins, drops) == [open |-> FALSE, user |-> 0, app |-> NoApp, closed |-> FALSE,
                        logins |-> logins, drops |-> drops, left |-> FALSE]
Away == Plan(<<>>, 0)
Two(p, q) == [c \in Clients |-> IF c = c1 THEN p ELSE IF c = c2 THEN q ELSE Away]

\* No broadcast: a client that changes its account and may leave, and another
\* that is after its account.
Accounting ==
    {Two(Plan(<<Web("u"), a>>, 1), q) :
        a \in Accounts, q \in {Plan(<<Web("u")>>, 0), Plan(<<Phone>>, 0)}}

\* A client that comes back to its first account, and one that takes it.
Returning == {Two(Plan(<<Web("u"), Phone, Web("u")>>, 0), Plan(<<Web("u")>>, 0))}

\* A broadcast while one client logs in, one logs in or leaves, and one stays
\* a guest.
Casting ==
    {Two(Plan(<<Web("u")>>, 0), q) :
        q \in {Plan(<<>>, 1), Plan(<<Phone>>, 0), Plan(<<Web("u")>>, 0)}}

MCInit == /\ client \in Accounting \union Returning \union Casting
          /\ Init
          /\ cast.pc = IF client \in Casting THEN "idle" ELSE "done"
MCSpec == MCInit /\ [][Next]_vars

\* Two goroutines at a time; what follows from two of them at one list is
\* explored while there is no broadcast and no login is to come; one removal
\* while a broadcast reads.
Pairs == /\ Busy <= 2
         /\ seen.lists # {} => /\ cast.pc \in {"idle", "done"}
                               /\ \A c \in Clients : client[c].logins = <<>>
         /\ Cardinality(seen.shifted) <= 1
         /\ cast.pc = "done" => ~client[c3].open
=============================================================================
