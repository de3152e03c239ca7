------------------------------ MODULE Registry ------------------------------
(***************************************************************************)
(* Who is connected: Guests and Users of the hub, AppClients of the users   *)
(* (ws/hubc.go, ws/user.go).  The goroutine of Hubc.Run, the Request        *)
(* goroutines, Hubc.guard and whoever broadcasts read and write these       *)
(* slices without a lock.  A step is one load or one store of a slice       *)
(* variable, with the access to its array that goes with it, or one         *)
(* operation of the sync.Map Users; a search goes through a slice at once,  *)
(* a broadcast element by element.                                          *)
(*                                                                         *)
(* A *User is its index in the sequence of all users ever made, 0 is nil.   *)
(* The queues and the sockets of a connection are in module Session.        *)
(***************************************************************************)
EXTENDS Slices, FiniteSets

CONSTANTS
    Clients,
    None,      \* the nil *Client
    Accounts,  \* the uids and appIds that clients log in under
    MaxLogins, \* bound: the logins of a client
    MaxDrops   \* bound: the times it is sent to Disconnect by itself

Uids == {a.uid : a \in Accounts}

ASSUME NoneAssumption == None \notin Clients
ASSUME BoundsAssumption == MaxLogins \in Nat /\ MaxDrops \in Nat

VARIABLES
    arrays,   \* the arrays behind the slices
    guests,   \* Hubc.Guests
    stored,   \* Hubc.Users
    users,    \* the User values: their uid and AppClients
    client,   \* User, AppId and Closed; the logins and drops to come
    request,  \* the UserLogin that the Request goroutine of a client is in
    hub,      \* what the goroutine of Hubc.Run does
    guard,    \* the uid that Hubc.guard is about to clean up
    cast,     \* the Broadcast under way, and those it owes its message
    crashed,  \* a goroutine has panicked
    seen      \* history: what has happened to the clients and lists

vars == <<arrays, guests, stored, users, client, request, hub, guard, cast,
          crashed, seen>>

NoUid == "none"
ASSUME NoUidAssumption == NoUid \notin Uids
NoApp == ""  \* the appId of a client that has not logged in

\* A Request goroutine that is in no UserLogin, and the hub in its select.
Idle == [pc |-> "idle", uid |-> NoUid, app |-> NoApp, user |-> 0, index |-> 0,
         kick |-> None, slice |-> Nil]
Resting == [pc |-> "select", client |-> None, user |-> 0, index |-> 0, slice |-> Nil]

\* The accounts that a client is going to log in under.
Plans == UNION {[1..n -> Accounts] : n \in 0..MaxLogins}

Init ==
    /\ arrays = <<>>
    /\ guests = Nil
    /\ stored = [uid \in Uids |-> 0]
    /\ users = <<>>
    /\ client \in [Clients -> [open : {FALSE}, user : {0}, app : {NoApp}, closed : {FALSE},
                               logins : Plans, drops : 0..MaxDrops, left : {FALSE}]]
    /\ request = [c \in Clients |-> Idle]
    /\ hub = Resting
    /\ guard = NoUid
    /\ cast \in [pc : {"idle", "done"}, slice : {Nil}, at : {0}, left : {{}}, owed : {{}}]
    /\ crashed = FALSE
    /\ seen = [lists |-> {}, uids |-> {}, kicked |-> {}, moved |-> {},
               late |-> {}, shifted |-> {}]

Listed(s) == Contents(arrays, s)
Of(u) == users[u].clients
IndexOf(s, Test(_)) ==
    LET hits == {i \in DOMAIN s : Test(s[i])}
    IN  IF hits = {} THEN 0 ELSE CHOOSE i \in hits : \A j \in hits : i <= j

\* The searches through AppClients read a field of every client up to the one
\* they look for: a nil client among them is a panic.
Trips(s, i) == \E j \in DOMAIN s : s[j] = None /\ (i = 0 \/ j < i)

Goto(c, pc) == request' = [request EXCEPT ![c].pc = pc]

Crash == crashed' = TRUE
         /\ UNCHANGED <<arrays, guests, stored, users, client, request, hub,
                        guard, cast>>

-----------------------------------------------------------------------------
(* Hubc.Run: connections.                                                   *)

\* HttpHandler is received from.
Connect(c) ==
    /\ hub.pc = "select" /\ ~client[c].open
    /\ client' = [client EXCEPT ![c].open = TRUE]
    /\ hub' = [hub EXCEPT !.pc = "append", !.client = c]
    /\ UNCHANGED <<arrays, guests, stored, users, request, guard, cast, crashed>>

AppendGuest ==
    /\ hub.pc = "append"
    /\ arrays' = Appended(arrays, guests, <<hub.client>>, None)
    /\ hub' = [hub EXCEPT !.pc = "appended",
                          !.slice = AppendTo(arrays, guests, <<hub.client>>)]
    /\ UNCHANGED <<guests, stored, users, client, request, guard, cast, crashed>>

StoreGuests ==
    /\ hub.pc \in {"appended", "deleted"}
    /\ guests' = hub.slice
    /\ hub' = Resting
    /\ UNCHANGED <<arrays, stored, users, client, request, guard, cast, crashed>>

-----------------------------------------------------------------------------
(* Hubc.Run: disconnections.                                                *)

Receive(c) == hub' = [Resting EXCEPT !.client = c, !.pc =
                        IF client[c].user # 0 THEN "logout" ELSE "close"]

\* Reader, Write or the recover of a SendMsg.
Disconnect(c) ==
    /\ hub.pc = "select" /\ client[c].open /\ client[c].drops > 0
    /\ client' = [client EXCEPT ![c].drops = @ - 1, ![c].left = TRUE]
    /\ Receive(c)
    /\ UNCHANGED <<arrays, guests, stored, users, request, guard, cast, crashed>>

\* Mutant: the client is looked for by its appId only.
AppLogoutByApp ==
    /\ hub.pc = "logout"
    /\ LET c == hub.client
           u == client[c].user
           s == Listed(Of(u))
           i == IndexOf(s, LAMBDA d : d # None /\ client[d].app = client[c].app)
       IN  IF Trips(s, i) THEN Crash
           ELSE /\ hub' = IF i = 0 THEN Resting
                          ELSE [hub EXCEPT !.pc = "cut", !.user = client[c].user,
                                           !.index = i]
                /\ UNCHANGED <<arrays, guests, stored, users, client, request,
                               guard, cast, crashed>>

\* appLogout: a client that is not among the user's stays open.
AppLogout ==
    /\ hub.pc = "logout"
    /\ LET c == hub.client
           s == Listed(Of(client[c].user))
           i == IndexOf(s, LAMBDA d : d = c)
       IN  IF Trips(s, i) THEN Crash
           ELSE /\ hub' = IF i = 0 THEN Resting
                          ELSE [hub EXCEPT !.pc = "cut", !.user = client[c].user,
                                           !.index = i]
                /\ UNCHANGED <<arrays, guests, stored, users, client, request,
                               guard, cast, crashed>>

LogoutCut ==
    /\ hub.pc = "cut"
    /\ LET s == Of(hub.user)
       IN  IF hub.index > s.len THEN Crash
           ELSE /\ arrays' = Deleted(arrays, s, hub.index, None)
                /\ hub' = [hub EXCEPT !.pc = "store",
                                      !.slice = [s EXCEPT !.len = @ - 1]]
                /\ UNCHANGED <<guests, stored, users, client, request, guard,
                               cast, crashed>>

\* Mutant: the shorter slice is not assigned.
LogoutStoreForgets ==
    /\ hub.pc = "store"
    /\ client' = [client EXCEPT ![hub.client].closed = TRUE]
    /\ hub' = Resting
    /\ UNCHANGED <<arrays, guests, stored, users, request, guard, cast, crashed>>

LogoutStore ==
    /\ hub.pc = "store"
    /\ users' = [users EXCEPT ![hub.user].clients = hub.slice]
    /\ client' = [client EXCEPT ![hub.client].closed = TRUE]
    /\ hub' = Resting
    /\ UNCHANGED <<arrays, guests, stored, request, guard, cast, crashed>>

\* Mutant: the guest stays in the list.
CloseGuestOnly ==
    /\ hub.pc = "close"
    /\ client' = [client EXCEPT ![hub.client].closed = TRUE]
    /\ hub' = Resting
    /\ UNCHANGED <<arrays, guests, stored, users, request, guard, cast, crashed>>

CloseGuest ==
    /\ hub.pc = "close"
    /\ client' = [client EXCEPT ![hub.client].closed = TRUE]
    /\ hub' = [hub EXCEPT !.pc = "index"]
    /\ UNCHANGED <<arrays, guests, stored, users, request, guard, cast, crashed>>

-----------------------------------------------------------------------------
(* removeFromGuests, by the hub and by the Request goroutines.              *)

GuestIndex(c) == IndexOf(Listed(guests), LAMBDA d : d = c)

HubFindGuest ==
    /\ hub.pc = "index"
    /\ LET i == GuestIndex(hub.client)
       IN  hub' = IF i = 0 THEN Resting
                  ELSE [hub EXCEPT !.pc = "delete", !.index = i]
    /\ UNCHANGED <<arrays, guests, stored, users, client, request, guard, cast,
                   crashed>>

HubDeleteGuest ==
    /\ hub.pc = "delete"
    /\ IF hub.index > guests.len THEN Crash
       ELSE /\ arrays' = Deleted(arrays, guests, hub.index, None)
            /\ hub' = [hub EXCEPT !.pc = "deleted",
                                  !.slice = [guests EXCEPT !.len = @ - 1]]
            /\ UNCHANGED <<guests, stored, users, client, request, guard, cast,
                           crashed>>

\* Mutant: the first guest is never found.
FindGuestAfterFirst(c) ==
    /\ request[c].pc = "index"
    /\ LET i == GuestIndex(c)
       IN  request' = [request EXCEPT ![c] =
                         IF i <= 1 THEN Idle
                         ELSE [@ EXCEPT !.pc = "delete", !.index = i]]
    /\ UNCHANGED <<arrays, guests, stored, users, client, hub, guard, cast, crashed>>

FindGuest(c) ==
    /\ request[c].pc = "index"
    /\ LET i == GuestIndex(c)
       IN  request' = [request EXCEPT ![c] =
                         IF i = 0 THEN Idle
                         ELSE [@ EXCEPT !.pc = "delete", !.index = i]]
    /\ UNCHANGED <<arrays, guests, stored, users, client, hub, guard, cast, crashed>>

DeleteGuest(c) ==
    /\ request[c].pc = "delete"
    /\ IF request[c].index > guests.len THEN Crash
       ELSE /\ arrays' = Deleted(arrays, guests, request[c].index, None)
            /\ request' = [request EXCEPT ![c].pc = "deleted",
                             ![c].slice = [guests EXCEPT !.len = @ - 1]]
            /\ UNCHANGED <<guests, stored, users, client, hub, guard, cast, crashed>>

StoreDeleted(c) ==
    /\ request[c].pc = "deleted"
    /\ guests' = request[c].slice
    /\ request' = [request EXCEPT ![c] = Idle]
    /\ UNCHANGED <<arrays, stored, users, client, hub, guard, cast, crashed>>

-----------------------------------------------------------------------------
(* UserLogin and appLogin.                                                  *)

\* Hubc.User, and NewUser for a uid that is not there.
UserLogin(c) ==
    /\ request[c].pc = "idle" /\ client[c].open
    /\ client[c].logins # <<>>
    /\ client' = [client EXCEPT ![c].logins = Tail(@)]
    /\ LET a == Head(client[c].logins)
           fresh == stored[a.uid] = 0
       IN  /\ users' = IF fresh THEN Append(users, [uid |-> a.uid, clients |-> Nil])
                       ELSE users
           /\ request' = [request EXCEPT ![c] =
                [Idle EXCEPT !.pc = "scan", !.uid = a.uid, !.app = a.app,
                   !.user = IF fresh THEN Len(users) + 1 ELSE stored[a.uid]]]
    /\ UNCHANGED <<arrays, guests, stored, hub, guard, cast, crashed>>

\* The search of appLogin, and the assignments to the client.
AppLogin(c) ==
    /\ request[c].pc = "scan"
    /\ LET r == request[c]
           s == Listed(Of(r.user))
           i == IndexOf(s, LAMBDA d : d # None /\ client[d].app = r.app)
       IN  IF Trips(s, i) THEN Crash
           ELSE /\ client' = [client EXCEPT ![c].user = r.user, ![c].app = r.app]
                /\ request' = [request EXCEPT ![c].index = i,
                     ![c].kick = IF i = 0 \/ s[i] = c THEN None ELSE s[i],
                     ![c].pc = IF i = 0 THEN "add"
                               ELSE IF s[i] = c THEN "map" ELSE "cut"]
                /\ UNCHANGED <<arrays, guests, stored, users, hub, guard, cast,
                               crashed>>

LoginCut(c) ==
    /\ request[c].pc = "cut"
    /\ LET s == Of(request[c].user)
       IN  IF request[c].index > s.len THEN Crash
           ELSE /\ arrays' = Deleted(arrays, s, request[c].index, None)
                /\ request' = [request EXCEPT ![c].pc = "cutted",
                                 ![c].slice = [s EXCEPT !.len = @ - 1]]
                /\ UNCHANGED <<guests, stored, users, client, hub, guard, cast,
                               crashed>>

\* Mutant: the slice grows and its array does not.
LoginAddBeyond(c) ==
    /\ request[c].pc = "add"
    /\ request' = [request EXCEPT ![c].pc = "added",
                      ![c].slice = [Of(request[c].user) EXCEPT !.len = @ + 1]]
    /\ UNCHANGED <<arrays, guests, stored, users, client, hub, guard, cast, crashed>>

LoginAdd(c) ==
    /\ request[c].pc = "add"
    /\ LET s == Of(request[c].user)
       IN  /\ arrays' = Appended(arrays, s, <<c>>, None)
           /\ request' = [request EXCEPT ![c].pc = "added",
                            ![c].slice = AppendTo(arrays, s, <<c>>)]
    /\ UNCHANGED <<guests, stored, users, client, hub, guard, cast, crashed>>

LoginStore(c) ==
    /\ request[c].pc \in {"cutted", "added"}
    /\ users' = [users EXCEPT ![request[c].user].clients = request[c].slice]
    /\ Goto(c, IF request[c].pc = "cutted" THEN "add"
               ELSE IF request[c].kick = None THEN "map" ELSE "kick")
    /\ UNCHANGED <<arrays, guests, stored, client, hub, guard, cast, crashed>>

\* The client that was replaced is sent to Disconnect.
Kick(c) ==
    /\ request[c].pc = "kick" /\ hub.pc = "select"
    /\ Receive(request[c].kick)
    /\ Goto(c, "map")
    /\ UNCHANGED <<arrays, guests, stored, users, client, guard, cast, crashed>>

\* Mutant: the user is not stored.
StoreUserNever(c) ==
    /\ request[c].pc = "map"
    /\ Goto(c, "index")
    /\ UNCHANGED <<arrays, guests, stored, users, client, hub, guard, cast, crashed>>

StoreUser(c) ==
    /\ request[c].pc = "map"
    /\ stored' = [stored EXCEPT ![request[c].uid] = request[c].user]
    /\ Goto(c, "index")
    /\ UNCHANGED <<arrays, guests, users, client, hub, guard, cast, crashed>>

-----------------------------------------------------------------------------
(* Hubc.guard.  A user without a client may have had its last ping, if any, *)
(* at any time: LastHeartbeatTime is written by Write's pings only.         *)

GuardFinds ==
    /\ guard = NoUid
    /\ \E uid \in Uids : /\ stored[uid] # 0 /\ Of(stored[uid]).len = 0
                         /\ guard' = uid
    /\ UNCHANGED <<arrays, guests, stored, users, client, request, hub, cast, crashed>>

GuardDeletes ==
    /\ guard # NoUid
    /\ stored' = [stored EXCEPT ![guard] = 0]
    /\ guard' = NoUid
    /\ UNCHANGED <<arrays, guests, users, client, request, hub, cast, crashed>>

-----------------------------------------------------------------------------
(* Broadcast.                                                               *)

\* Hubc.UserClient.
UserClient(uid, app) ==
    IF stored[uid] = 0 THEN None
    ELSE LET s == Listed(Of(stored[uid]))
             i == IndexOf(s, LAMBDA d : d # None /\ client[d].app = app)
         IN  IF i = 0 THEN None ELSE s[i]

InSlice(c, s) == \E i \in DOMAIN Listed(s) : Listed(s)[i] = c
InUsers(c) == \E uid \in Uids : stored[uid] # 0 /\ InSlice(c, Of(stored[uid]))

Broadcast ==
    /\ cast.pc = "idle"
    /\ cast' = [cast EXCEPT !.pc = "guests", !.slice = guests, !.at = 1,
                  !.owed = {c \in Clients : InSlice(c, guests) \/ InUsers(c)}]
    /\ UNCHANGED <<arrays, guests, stored, users, client, request, hub, guard, crashed>>

\* A SendMsg to nil panics, and once more in its recover.
SendNext ==
    /\ cast.pc \in {"guests", "user"} /\ cast.at <= cast.slice.len
    /\ LET c == arrays[cast.slice.array][cast.at]
       IN  IF c = None THEN Crash
           ELSE /\ cast' = [cast EXCEPT !.at = @ + 1, !.owed = @ \ {c}]
                /\ UNCHANGED <<arrays, guests, stored, users, client, request,
                               hub, guard, crashed>>

\* The range over Users begins, or goes on.
EndOfSlice ==
    /\ cast.pc \in {"guests", "user"} /\ cast.at > cast.slice.len
    /\ cast' = [cast EXCEPT !.pc = "range", !.slice = Nil, !.at = 0,
                  !.left = IF cast.pc = "guests" THEN Uids ELSE @]
    /\ UNCHANGED <<arrays, guests, stored, users, client, request, hub, guard, crashed>>

RangeUsers ==
    /\ cast.pc = "range"
    /\ \/ /\ cast.left = {}
          /\ cast' = [cast EXCEPT !.pc = "done", !.at = 0]
       \/ \E uid \in cast.left :
            cast' = IF stored[uid] = 0 THEN [cast EXCEPT !.left = @ \ {uid}]
                    ELSE [cast EXCEPT !.left = @ \ {uid}, !.at = 1,
                                      !.pc = "user", !.slice = Of(stored[uid])]
    /\ UNCHANGED <<arrays, guests, stored, users, client, request, hub, guard, crashed>>

-----------------------------------------------------------------------------
(* The history: what the properties have to except.                         *)

InLogin(c) == request[c].pc # "idle"

\* The goroutines between the first read and the last write of a list; the
\* hub is None, Guests is the list 0.
AtGuests == {c \in Clients : request[c].pc \in {"index", "delete", "deleted"}}
            \union (IF hub.pc \in {"append", "appended", "index", "delete",
                                   "deleted"} THEN {None} ELSE {})
AtUser(u) == {c \in Clients : /\ request[c].user = u
                              /\ request[c].pc \in {"scan", "cut", "cutted",
                                                    "add", "added"}}
             \union (IF \/ hub.pc = "logout" /\ client[hub.client].user = u
                        \/ hub.pc \in {"cut", "store"} /\ hub.user = u
                     THEN {None} ELSE {})

\* The clients that have just been taken out of an array.
Removed == {c \in Clients : request[c].pc = "deleted"}
           \union {request[c].kick : c \in {d \in Clients : request[d].pc = "cutted"}}
           \union (IF hub.pc \in {"deleted", "store"} THEN {hub.client} ELSE {})

Now ==
    [\* lists that two goroutines are at
     lists   |-> {u \in 0..Len(users) :
                    \E g, h \in IF u = 0 THEN AtGuests ELSE AtUser(u) : g # h},
     \* uids that are made twice, or cleaned up during a login
     uids    |-> {uid \in Uids :
                    \/ uid = guard /\ \E c \in Clients : request[c].uid = uid
                    \/ \E c, d \in Clients :
                         /\ request[c].uid = uid /\ request[d].uid = uid
                         /\ request[c].user # request[d].user},
     \* clients whose account another one has taken
     kicked  |-> {request[c].kick : c \in Clients} \ {None},
     \* clients that log in again under another account, and the user they were
     moved   |-> {<<c, client[c].user>> : c \in
                    {d \in Clients : /\ request[d].pc = "scan" /\ client[d].user # 0
                                     /\ \/ client[d].user # request[d].user
                                        \/ client[d].app # request[d].app}},
     \* clients that leave before their login is done
     late    |-> {c \in Clients : InLogin(c) /\ (client[c].closed \/ hub.client = c)},
     \* clients that are taken out of an array while a broadcast reads one
     shifted |-> IF cast.pc \in {"guests", "user"} THEN Removed ELSE {}]

-----------------------------------------------------------------------------
\* Goroutines that are in the midst of an operation.
Busy == Cardinality({c \in Clients : InLogin(c)})
        + Cardinality({pc \in {hub.pc} : pc # "select"})
        + Cardinality({uid \in {guard} : uid # NoUid})
        + Cardinality({pc \in {cast.pc} : pc \notin {"idle", "done"}})

HubStep == \/ \E c \in Clients : Connect(c) \/ Disconnect(c)
           \/ AppendGuest \/ StoreGuests \/ AppLogout \/ LogoutCut
           \/ LogoutStore \/ CloseGuest \/ HubFindGuest \/ HubDeleteGuest
RequestStep(c) == \/ UserLogin(c) \/ AppLogin(c) \/ LoginCut(c) \/ LoginAdd(c)
                  \/ LoginStore(c) \/ Kick(c) \/ StoreUser(c) \/ FindGuest(c)
                  \/ DeleteGuest(c) \/ StoreDeleted(c)
GuardStep == GuardFinds \/ GuardDeletes
CastStep == Broadcast \/ SendNext \/ EndOfSlice \/ RangeUsers

Next == /\ ~crashed
        /\ HubStep \/ (\E c \in Clients : RequestStep(c)) \/ GuardStep \/ CastStep
        /\ seen' = [f \in DOMAIN seen |-> seen[f] \union Now'[f]]

Spec == Init /\ [][Next]_vars

-----------------------------------------------------------------------------
(* Properties.                                                              *)

\* Neither its goroutine nor the hub is busy with c.
Quiet(c) == ~InLogin(c) /\ hub.client # c

Occurrences(c, s) == Cardinality({i \in DOMAIN Listed(s) : Listed(s)[i] = c})

TypeOK ==
    /\ IsSlice(arrays, guests) /\ \A u \in DOMAIN users : IsSlice(arrays, Of(u))
    /\ \A uid \in Uids : stored[uid] # 0 => users[stored[uid]].uid = uid
    /\ \A c \in Clients : client[c].user # 0 => client[c].open

\* Guests lists every connected client that has not logged in, once, and no
\* other, however connections, logins and disconnections of different clients
\* follow each other, as long as no two goroutines change the list at once
\* (hubc.go:60, 73, 171).
GuestsAreTheGuests ==
    0 \notin seen.lists =>
        \A c \in Clients : Quiet(c) =>
            Occurrences(c, guests) =
                IF client[c].open /\ client[c].user = 0 /\ ~client[c].closed
                THEN 1 ELSE 0

\* A client that has logged in is the one that UserClient finds for its
\* account, until it leaves: logouts and the clean-up of users in between
\* take no one else away.  It needs that nobody has changed the list of the
\* user at the same time, that its user was not made twice or cleaned up during
\* a login, that its account was not taken by another client, and that no
\* other client of the user has logged in again since: such a client is in
\* AppClients more than once and keeps the account when another one takes it.
LoginIsFound ==
    \A c \in Clients :
        LET u == client[c].user
        IN  /\ u # 0 /\ Quiet(c) /\ ~client[c].closed
            /\ u \notin seen.lists /\ users[u].uid \notin seen.uids
            /\ c \notin seen.kicked
            /\ \A d \in Clients \ {c} : <<d, u>> \notin seen.moved
            => UserClient(users[u].uid, client[c].app) = c

\* A closed client is in none of the lists, so that nobody sends to its
\* closed channel for ever: unless it left while a login of its own was
\* running, two goroutines were at the list, or somebody of that user has
\* logged in again under another account.  A logout looks for one place only;
\* it is the client that logged in again that is listed more than once, and
\* another client that gets its appId is listed next to it.
ClosedIsUnlisted ==
    \A c \in Clients :
        client[c].closed /\ Quiet(c) /\ c \notin seen.late =>
            \A u \in (0..Len(users)) \ seen.lists :
                (\A d \in Clients : <<d, u>> \notin seen.moved) =>
                    Occurrences(c, IF u = 0 THEN guests ELSE Of(u)) = 0

\* A panic of the hub, of a Request or of a broadcast takes two goroutines at
\* one list: a change during a change, or a removal while a broadcast reads.
PanicsNeedOverlap == crashed => seen.lists # {} \/ seen.shifted # {}

\* A broadcast reaches every client that is listed when it begins and stays,
\* also one that logs in meanwhile and moves from Guests to its user: Guests
\* is read first and Users.Store comes before removeFromGuests.  What can
\* break it is the removal of another client, which moves the elements of the
\* array that is read, and what breaks the lists themselves.
BroadcastReaches ==
    cast.pc = "done" /\ seen.lists = {} /\ seen.uids = {} =>
        \A c \in cast.owed :
            \/ client[c].left \/ c \in seen.kicked
            \/ seen.shifted \ {c} # {}
=============================================================================
