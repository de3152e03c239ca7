------------------------------ MODULE Session ------------------------------
(***************************************************************************)
(* The goroutines of a WebSocket connection and the hub they share          *)
(* (ws/server_handler_http.go, ws/client.go, ws/hubc.go, ws/user.go,        *)
(* ws/pubsub.go).                                                           *)
(*                                                                         *)
(* Every connection owns three goroutines, Reader, Request and Write, and   *)
(* two buffered channels, RequestQueue and Send.  All connections meet in   *)
(* the goroutine of Hubc.Run, which receives from the unbuffered channels   *)
(* Connection and Disconnect and publishes what it did through the bounded  *)
(* TopicMsgQueue; the goroutine of PubSub.Start empties that queue into the *)
(* Send channels of the subscribed users.  A send on a full channel blocks, *)
(* a send on a closed one panics and SendMsg's recover turns the panic into *)
(* one more Disconnect.                                                     *)
(*                                                                         *)
(* What is abstracted: a message is only its place in a queue; the slices   *)
(* Guests and AppClients are sets that one step updates (module Registry    *)
(* splits those updates); a client logs in under one account, the pair of   *)
(* its user and its appId, for its whole life.                              *)
(***************************************************************************)
EXTENDS Naturals, Sequences, FiniteSets

CONSTANTS
    Clients,      \* the connections the HTTP server accepts
    Account,      \* Account[c]: the (user, appId) under which c logs in
    Subscribers,  \* clients whose user is subscribed to the hub's topics
    Kinds,        \* what the peers ask for, a subset of AllKinds
    SendCap,      \* capacity of Client.Send, 32 in the code
    RequestCap,   \* capacity of Client.RequestQueue, 128 in the code
    TopicCap,     \* capacity of PubSub.TopicMsgQueue, 128 in the code
    MaxRequests,  \* bound: MaxRequests[c] requests come from the peer of c
    None          \* no client

AllKinds == {"reply", "login", "shout", "bye"}

ASSUME NoneAssumption == None \notin Clients \union AllKinds
ASSUME SubscribersAssumption == Subscribers \subseteq Clients
ASSUME KindsAssumption == Kinds \subseteq AllKinds
ASSUME CapsAssumption == /\ SendCap \in Nat \ {0}
                         /\ RequestCap \in Nat \ {0}
                         /\ TopicCap \in Nat \ {0}
                         /\ MaxRequests \in [Clients -> Nat]

VARIABLES
    conn,           \* conn[c]: "new", "open", or "broken" by peer or network
    received,       \* received[c]: requests read so far
    reader,         \* pc of the goroutine Reader
    inbound,        \* the request Reader is about to queue
    requests,       \* Client.RequestQueue
    request,        \* pc of the goroutine Request
    kicked,         \* local appClient of appLogin
    pending,        \* pending[p]: clients process p has still to SendMsg to
    target,         \* target[p]: the client whose SendMsg p is in
    recovering,     \* recovering[p]: p is in the deferred recover of SendMsg
    send,           \* length of Client.Send
    writer,         \* pc of the goroutine Write
    closed,         \* Client.Closed; the channel Send is closed with it
    disconnecting,  \* Client.Disconnecting
    login,          \* Client.User # nil
    registered,     \* the clients in some User.AppClients
    guests,         \* Hubc.Guests
    hub,            \* pc of the goroutine Hubc.Run
    current,        \* the client Hubc.Run has received
    topics          \* length of PubSub.TopicMsgQueue

readerVars  == <<reader, inbound, received>>
sendingVars == <<pending, target, recovering>>
hubVars     == <<hub, current>>
loginVars   == <<login, registered, kicked>>
vars == <<conn, readerVars, requests, request, sendingVars, send, writer,
          closed, disconnecting, loginVars, guests, hubVars, topics>>

PubSub  == "pubsub"
Senders == Clients \union {PubSub}   \* a client stands for its Request

ASSUME PubSubAssumption == PubSub \notin Clients

TypeOK ==
    /\ conn \in [Clients -> {"new", "open", "broken"}]
    /\ received \in [Clients -> Nat]
    /\ reader \in [Clients -> {"off", "read", "enqueue", "disconnect", "done"}]
    /\ inbound \in [Clients -> AllKinds \union {None}]
    /\ \A c \in Clients : reader[c] = "enqueue" => inbound[c] \in AllKinds
    /\ requests \in [Clients -> Seq(AllKinds)]
    /\ request \in [Clients -> {"off", "recv", "register", "kick", "pub", "store"}]
    /\ kicked \in [Clients -> Clients \union {None}]
    /\ pending \in [Senders -> SUBSET Clients]
    /\ target \in [Senders -> Clients \union {None}]
    /\ recovering \in [Senders -> BOOLEAN]
    /\ send \in [Clients -> 0..SendCap]
    /\ writer \in [Clients -> {"off", "select", "disconnect", "done"}]
    /\ closed \in [Clients -> BOOLEAN]
    /\ disconnecting \in [Clients -> BOOLEAN]
    /\ login \in [Clients -> BOOLEAN]
    /\ registered \subseteq Clients
    /\ guests \subseteq Clients
    /\ hub \in {"select", "connect", "disconnect", "leave", "logout"}
    /\ current \in Clients \union {None}
    /\ topics \in 0..TopicCap

Init ==
    /\ conn = [c \in Clients |-> "new"]
    /\ received = [c \in Clients |-> 0]
    /\ reader = [c \in Clients |-> "off"]
    /\ inbound = [c \in Clients |-> None]
    /\ requests = [c \in Clients |-> <<>>]
    /\ request = [c \in Clients |-> "off"]
    /\ kicked = [c \in Clients |-> None]
    /\ pending = [p \in Senders |-> {}]
    /\ target = [p \in Senders |-> None]
    /\ recovering = [p \in Senders |-> FALSE]
    /\ send = [c \in Clients |-> 0]
    /\ writer = [c \in Clients |-> "off"]
    /\ closed = [c \in Clients |-> FALSE]
    /\ disconnecting = [c \in Clients |-> FALSE]
    /\ login = [c \in Clients |-> FALSE]
    /\ registered = {}
    /\ guests = {}
    /\ hub = "select"
    /\ current = None
    /\ topics = 0

-----------------------------------------------------------------------------
(* What several goroutines do.                                              *)

\* A read or a write on the socket of c fails: the peer is gone, or Close has
\* closed the socket.
Unusable(c) == conn[c] = "broken" \/ closed[c]

\* p is not inside a loop of SendMsg calls.
Idle(p) == target[p] = None /\ pending[p] = {}

\* Mutant: the queue is taken to have room for one message more.
PubBeyondCap == topics <= TopicCap /\ topics' = topics + 1

\* The send on TopicMsgQueue that ends PubSub.Pub.
Pub == topics < TopicCap /\ topics' = topics + 1

\* The peer or the network breaks the connection.
Break(c) ==
    /\ conn[c] = "open"
    /\ conn' = [conn EXCEPT ![c] = "broken"]
    /\ UNCHANGED <<readerVars, requests, request, sendingVars, send, writer,
                   closed, disconnecting, loginVars, guests, hubVars, topics>>

-----------------------------------------------------------------------------
(* Reader.                                                                  *)

\* What reached the socket before it broke can still be read; the bound on
\* the requests of a peer is MaxRequests.
ReadRequest(c) ==
    /\ reader[c] = "read" /\ ~closed[c] /\ received[c] < MaxRequests[c]
    /\ \E k \in Kinds : inbound' = [inbound EXCEPT ![c] = k]
    /\ reader' = [reader EXCEPT ![c] = "enqueue"]
    /\ received' = [received EXCEPT ![c] = @ + 1]
    /\ UNCHANGED <<conn, requests, request, sendingVars, send, writer, closed,
                   disconnecting, loginVars, guests, hubVars, topics>>

Enqueue(c) ==
    /\ reader[c] = "enqueue" /\ Len(requests[c]) < RequestCap
    /\ requests' = [requests EXCEPT ![c] = Append(@, inbound[c])]
    /\ reader' = [reader EXCEPT ![c] = "read"]
    /\ inbound' = [inbound EXCEPT ![c] = None]
    /\ UNCHANGED <<conn, received, request, sendingVars, send, writer,
                   closed, disconnecting, loginVars, guests, hubVars, topics>>

ReadError(c) ==
    /\ reader[c] = "read" /\ Unusable(c)
    /\ reader' = [reader EXCEPT ![c] = "disconnect"]
    /\ UNCHANGED <<conn, received, inbound, requests, request, sendingVars,
                   send, writer, closed, disconnecting, loginVars, guests,
                   hubVars, topics>>

-----------------------------------------------------------------------------
(* Write.                                                                   *)

\* A message leaves Send for the socket.  On a broken connection the write
\* may fail or vanish into the socket's buffer.  A successful write ends the
\* goroutine when the client is marked Disconnecting.
WriteMsg(c) ==
    /\ writer[c] = "select" /\ send[c] > 0
    /\ send' = [send EXCEPT ![c] = @ - 1]
    /\ \E failed \in BOOLEAN :
         /\ failed => Unusable(c)
         /\ closed[c] => failed
         /\ writer' = [writer EXCEPT ![c] = IF failed \/ disconnecting[c]
                                            THEN "disconnect" ELSE @]
    /\ UNCHANGED <<conn, readerVars, requests, request, sendingVars, closed,
                   disconnecting, loginVars, guests, hubVars, topics>>

\* Receiving from the closed and empty channel, or the five-second ping
\* failing, ends the goroutine.
WriteEnds(c) ==
    /\ writer[c] = "select"
    /\ (closed[c] /\ send[c] = 0) \/ Unusable(c)
    /\ writer' = [writer EXCEPT ![c] = "disconnect"]
    /\ UNCHANGED <<conn, readerVars, requests, request, sendingVars, send,
                   closed, disconnecting, loginVars, guests, hubVars, topics>>

-----------------------------------------------------------------------------
(* SendMsg, called by Request goroutines and by PubSub.Start.               *)

\* The next client of a Range or for loop over the receivers.
NextTarget(p) ==
    /\ target[p] = None
    /\ \E t \in pending[p] :
         /\ target' = [target EXCEPT ![p] = t]
         /\ pending' = [pending EXCEPT ![p] = @ \ {t}]
    /\ UNCHANGED <<conn, readerVars, requests, request, recovering, send,
                   writer, closed, disconnecting, loginVars, guests, hubVars,
                   topics>>

SendMsg(p) ==
    /\ target[p] # None /\ ~recovering[p]
    /\ ~closed[target[p]] /\ send[target[p]] < SendCap
    /\ send' = [send EXCEPT ![target[p]] = @ + 1]
    /\ target' = [target EXCEPT ![p] = None]
    /\ UNCHANGED <<conn, readerVars, requests, request, pending, recovering,
                   writer, closed, disconnecting, loginVars, guests, hubVars,
                   topics>>

\* Also the way out for a sender that was blocked when Send was closed.
SendPanics(p) ==
    /\ target[p] # None /\ ~recovering[p] /\ closed[target[p]]
    /\ recovering' = [recovering EXCEPT ![p] = TRUE]
    /\ UNCHANGED <<conn, readerVars, requests, request, pending, target, send,
                   writer, closed, disconnecting, loginVars, guests, hubVars,
                   topics>>

-----------------------------------------------------------------------------
(* Request and the handlers it runs.                                        *)

\* Handler of a "login" request: UserLogin up to the search of appLogin for
\* the connection that holds the account, and the three fields it sets.
Login(c) ==
    /\ LET holders == {d \in registered : Account[d] = Account[c]}
       IN  IF holders = {} THEN kicked' = [kicked EXCEPT ![c] = None]
           ELSE \E d \in holders : kicked' = [kicked EXCEPT ![c] = d]
    /\ login' = [login EXCEPT ![c] = TRUE]
    /\ request' = [request EXCEPT ![c] = "register"]
    /\ UNCHANGED <<pending, target, disconnecting, registered>>

\* The other handlers: answer the peer, broadcast to everybody, or mark the
\* client Disconnecting and answer it for the last time.  A request refused
\* by the limiter, by a ban or for want of a handler is answered as well.
Answer(c, k) ==
    /\ IF k = "shout"
       THEN /\ pending' = [pending EXCEPT ![c] = guests \union registered]
            /\ UNCHANGED target
       ELSE /\ target' = [target EXCEPT ![c] = c]
            /\ UNCHANGED pending
    /\ disconnecting' = [disconnecting EXCEPT ![c] = @ \/ k = "bye"]
    /\ UNCHANGED <<request, loginVars>>

Dispatch(c) ==
    /\ request[c] = "recv" /\ Idle(c) /\ requests[c] # <<>>
    /\ requests' = [requests EXCEPT ![c] = Tail(@)]
    /\ \/ Head(requests[c]) = "login" /\ Login(c)
       \/ Head(requests[c]) # "login" /\ Answer(c, Head(requests[c]))
       \/ Answer(c, "reply")
    /\ UNCHANGED <<conn, readerVars, recovering, send, writer, closed, guests,
                   hubVars, topics>>

\* Mutant: appLogin does not compare the connections.
RegisterKicksItself(c) ==
    /\ request[c] = "register"
    /\ registered' = (registered \ {kicked[c]}) \union {c}
    /\ request' = [request EXCEPT ![c] = IF kicked[c] = None THEN "pub" ELSE "kick"]
    /\ UNCHANGED <<conn, readerVars, requests, sendingVars, send, writer,
                   closed, disconnecting, login, kicked, guests, hubVars, topics>>

\* The rest of appLogin's update of AppClients: the old connection of the
\* account is replaced, unless it is this one.
Register(c) ==
    /\ request[c] = "register"
    /\ registered' = (registered \ {kicked[c]}) \union {c}
    /\ IF kicked[c] \in {None, c}
       THEN /\ request' = [request EXCEPT ![c] = "pub"]
            /\ kicked' = [kicked EXCEPT ![c] = None]
       ELSE /\ request' = [request EXCEPT ![c] = "kick"]
            /\ UNCHANGED kicked
    /\ UNCHANGED <<conn, readerVars, requests, sendingVars, send, writer,
                   closed, disconnecting, login, guests, hubVars, topics>>

\* Pub("login") at the end of appLogin.
PubLogin(c) ==
    /\ request[c] = "pub" /\ Pub
    /\ request' = [request EXCEPT ![c] = "store"]
    /\ UNCHANGED <<conn, readerVars, requests, sendingVars, send, writer,
                   closed, disconnecting, loginVars, guests, hubVars>>

\* Mutant: UserLogin leaves the client among the guests.
StoreKeepsGuest(c) ==
    /\ request[c] = "store"
    /\ request' = [request EXCEPT ![c] = "recv"]
    /\ target' = [target EXCEPT ![c] = c]
    /\ UNCHANGED <<conn, readerVars, requests, pending, recovering, send,
                   writer, closed, disconnecting, loginVars, guests, hubVars,
                   topics>>

\* The end of UserLogin, and the answer of the login handler.
Store(c) ==
    /\ request[c] = "store"
    /\ guests' = guests \ {c}
    /\ request' = [request EXCEPT ![c] = "recv"]
    /\ target' = [target EXCEPT ![c] = c]
    /\ UNCHANGED <<conn, readerVars, requests, pending, recovering, send,
                   writer, closed, disconnecting, loginVars, hubVars, topics>>

-----------------------------------------------------------------------------
(* Hubc.Run.                                                                *)

\* HttpHandler hands the upgraded connection to the hub and starts its three
\* goroutines.
Connect(c) ==
    /\ hub = "select" /\ conn[c] = "new"
    /\ conn' = [conn EXCEPT ![c] = "open"]
    /\ guests' = guests \union {c}
    /\ reader' = [reader EXCEPT ![c] = "read"]
    /\ request' = [request EXCEPT ![c] = "recv"]
    /\ writer' = [writer EXCEPT ![c] = "select"]
    /\ hub' = "connect" /\ current' = c
    /\ UNCHANGED <<received, inbound, requests, sendingVars, send, closed,
                   disconnecting, loginVars, topics>>

\* The hub takes c from the channel Disconnect.
Receive(c) == hub = "select" /\ hub' = "disconnect" /\ current' = c

\* The four senders on Disconnect: the deferred calls of Reader and Write ...
ReaderDisconnect(c) ==
    /\ reader[c] = "disconnect" /\ Receive(c)
    /\ reader' = [reader EXCEPT ![c] = "done"]
    /\ UNCHANGED <<conn, received, inbound, requests, request, sendingVars,
                   send, writer, closed, disconnecting, loginVars, guests,
                   topics>>

WriterDisconnect(c) ==
    /\ writer[c] = "disconnect" /\ Receive(c)
    /\ writer' = [writer EXCEPT ![c] = "done"]
    /\ UNCHANGED <<conn, readerVars, requests, request, sendingVars, send,
                   closed, disconnecting, loginVars, guests, topics>>

\* ... appLogin for the connection it replaces ...
Kick(c) ==
    /\ request[c] = "kick" /\ Receive(kicked[c])
    /\ request' = [request EXCEPT ![c] = "pub"]
    /\ kicked' = [kicked EXCEPT ![c] = None]
    /\ UNCHANGED <<conn, readerVars, requests, sendingVars, send, writer,
                   closed, disconnecting, login, registered, guests, topics>>

\* Mutant: SendMsg's recover only logs the panic.
RecoverSilently(p) ==
    /\ recovering[p]
    /\ recovering' = [recovering EXCEPT ![p] = FALSE]
    /\ target' = [target EXCEPT ![p] = None]
    /\ UNCHANGED <<conn, readerVars, requests, request, pending, send, writer,
                   closed, disconnecting, loginVars, guests, hubVars, topics>>

\* ... and the recover of SendMsg.
RecoverDisconnect(p) ==
    /\ recovering[p] /\ Receive(target[p])
    /\ recovering' = [recovering EXCEPT ![p] = FALSE]
    /\ target' = [target EXCEPT ![p] = None]
    /\ UNCHANGED <<conn, readerVars, requests, request, pending, send, writer,
                   closed, disconnecting, loginVars, guests, topics>>

HubPub ==
    /\ hub \in {"connect", "disconnect", "logout"} /\ Pub
    /\ IF hub = "disconnect" THEN hub' = "leave" /\ UNCHANGED current
                             ELSE hub' = "select" /\ current' = None
    /\ UNCHANGED <<conn, readerVars, requests, request, sendingVars, send,
                   writer, closed, disconnecting, loginVars, guests>>

\* Client.Close: closes Send and the socket, once.
Close(c) == closed' = [closed EXCEPT ![c] = TRUE]

\* Mutant: the hub forgets the guest without closing it.
LeaveUnclosed ==
    /\ hub = "leave" /\ ~login[current]
    /\ guests' = guests \ {current}
    /\ hub' = "select" /\ current' = None
    /\ UNCHANGED <<conn, readerVars, requests, request, sendingVars, send,
                   writer, closed, disconnecting, loginVars, topics>>

\* A guest is closed and forgotten.
LeaveAsGuest ==
    /\ hub = "leave" /\ ~login[current]
    /\ Close(current)
    /\ guests' = guests \ {current}
    /\ hub' = "select" /\ current' = None
    /\ UNCHANGED <<conn, readerVars, requests, request, sendingVars, send,
                   writer, disconnecting, loginVars, topics>>

\* appLogout: a logged-in client is closed only if it is still registered.
LeaveAsUser ==
    /\ hub = "leave" /\ login[current]
    /\ IF current \in registered THEN Close(current) ELSE UNCHANGED closed
    /\ registered' = registered \ {current}
    /\ hub' = "logout"
    /\ UNCHANGED <<conn, readerVars, requests, request, sendingVars, send,
                   writer, disconnecting, login, kicked, guests, current,
                   topics>>

-----------------------------------------------------------------------------
(* PubSub.Start.                                                            *)

\* Mutant: the goroutine waits while nobody is subscribed.
PublishToSomebody ==
    /\ topics > 0 /\ Idle(PubSub)
    /\ registered \intersect Subscribers # {}
    /\ topics' = topics - 1
    /\ pending' = [pending EXCEPT ![PubSub] = registered \intersect Subscribers]
    /\ UNCHANGED <<conn, readerVars, requests, request, target, recovering,
                   send, writer, closed, disconnecting, loginVars, guests,
                   hubVars>>

\* One message of a topic goes to every client of every subscribed user.
Publish ==
    /\ topics > 0 /\ Idle(PubSub)
    /\ topics' = topics - 1
    /\ pending' = [pending EXCEPT ![PubSub] = registered \intersect Subscribers]
    /\ UNCHANGED <<conn, readerVars, requests, request, target, recovering,
                   send, writer, closed, disconnecting, loginVars, guests,
                   hubVars>>

-----------------------------------------------------------------------------
\* Every peer is gone and every goroutine has ended or waits for work that
\* cannot come: Request for ever, because RequestQueue is never closed.
AllGone ==
    /\ \A c \in Clients : /\ conn[c] = "broken"
                          /\ reader[c] = "done" /\ writer[c] = "done"
                          /\ request[c] = "recv" /\ requests[c] = <<>>
    /\ \A p \in Senders : Idle(p)
    /\ hub = "select" /\ topics = 0

Finished == AllGone /\ UNCHANGED vars

(* The steps of each goroutine; a goroutine that waits in Hub.Disconnect <- *)
(* or in a SendMsg takes its step together with the hub or by itself.       *)
ReaderStep(c) == Enqueue(c) \/ ReadError(c) \/ ReaderDisconnect(c)
WriterStep(c) == WriteMsg(c) \/ WriteEnds(c) \/ WriterDisconnect(c)
SenderStep(p) ==
    NextTarget(p) \/ SendMsg(p) \/ SendPanics(p) \/ RecoverDisconnect(p)
RequestStep(c) ==
    Dispatch(c) \/ Register(c) \/ Kick(c) \/ PubLogin(c) \/ Store(c)
        \/ SenderStep(c)
PubSubStep == Publish \/ SenderStep(PubSub)
HubStep == HubPub \/ LeaveAsGuest \/ LeaveAsUser

Next ==
    \/ \E c \in Clients :
         \/ Connect(c) \/ Break(c) \/ ReadRequest(c)
         \/ ReaderStep(c) \/ WriterStep(c) \/ RequestStep(c)
    \/ HubStep
    \/ PubSubStep
    \/ Finished

\* The scheduler runs every goroutine that can move, and one that is blocked
\* on a channel waits in the channel's FIFO queue, so it is served when the
\* channel is ready again and again: strong fairness for each goroutine.  The
\* peers promise nothing: they connect, ask and break as they like, and since
\* Write sets no deadline, it may wait for ever for one that does not read.
Fairness ==
    /\ \A c \in Clients : /\ SF_vars(ReaderStep(c))
                          /\ SF_vars((Unusable(c) \/ writer[c] # "select")
                                       /\ WriterStep(c))
                          /\ SF_vars(RequestStep(c))
    /\ WF_vars(HubStep)
    /\ SF_vars(PubSubStep)

Spec     == Init /\ [][Next]_vars
FairSpec == Spec /\ Fairness

-----------------------------------------------------------------------------
(* Properties.                                                              *)

\* The connection of a client is closed by the server only for a reason: its
\* network failed, a handler asked for it (Client.Disconnecting), or the same
\* account logged in on another connection.  Stopping goroutines, panicking
\* senders and repeated Disconnects never close a healthy one.
Replaced(c)  == login[c] /\ \E d \in Clients \ {c} :
                              login[d] /\ Account[d] = Account[c]
Justified(c) == conn[c] = "broken" \/ disconnecting[c] \/ Replaced(c)
NoInnocentClosed == \A c \in Clients : closed[c] => Justified(c)

\* A closed connection stays in Hubc.Guests, where Broadcast would send to
\* it, only until the login that is still running for it removes it.
ClosedGuestIsLoggingIn ==
    \A c \in guests : closed[c] => request[c] \in {"kick", "pub", "store"}

\* A login replaces the connection that holds its account and takes it
\* offline (user.go:113): when the hub has processed the Disconnect of a
\* connection that is healthy, which only a login asks for, it is closed.
ReplacedGoesOffline ==
    hub = "logout" /\ conn[current] = "open" => closed[current]

\* A connection that breaks is closed and leaves Guests, and its Reader and
\* Write end, whatever the other connections are sending to it.  Its Reader
\* alone can be held up, with RequestQueue full, while Request sends to a
\* client whose peer does not read.
HeldUp(c) == /\ reader[c] = "enqueue" /\ Len(requests[c]) = RequestCap
             /\ target[c] # None /\ ~closed[target[c]]
             /\ conn[target[c]] = "open" /\ send[target[c]] = SendCap
Released(c) == /\ closed[c] /\ c \notin guests /\ writer[c] = "done"
               /\ reader[c] = "done" \/ HeldUp(c)
BrokenGuestsAreReleased ==
    \A c \in Clients : []<>(conn[c] = "broken" => Released(c) \/ login[c])

\* As long as the hub goes on, a connection in AppClients that breaks while its
\* Write still runs is taken out, so that the user does not stay online; a
\* login that finishes after the connection was closed is undone as well, by
\* the recover of the SendMsg that answers it.
BrokenUsersGoOffline ==
    []<>(hub = "select") =>
        \A c \in Clients :
            c \in registered /\ (closed[c] \/ (conn[c] = "broken" /\ writer[c] # "done"))
                ~> c \notin registered

\* The hub stops for ever only waiting for room in TopicMsgQueue, which
\* PubSub.Start cannot make because it waits for the hub to take the Disconnect
\* of its own SendMsg, or for room in the Send channel of t, whose Write waits
\* for a peer that does not read, or has ended while the closing of t is up to
\* the hub.
Wedged ==
    /\ hub \in {"connect", "disconnect", "logout"} /\ topics = TopicCap
    /\ target[PubSub] # None
    /\ LET t == target[PubSub]
       IN  recovering[PubSub] \/ (~closed[t] /\ send[t] = SendCap)
HubStopsOnlyWedged == []<>(hub = "select") \/ <>[]Wedged

-----------------------------------------------------------------------------
(* The inductive invariant behind NoInnocentClosed and                      *)
(* ClosedGuestIsLoggingIn: whoever is about to ask for, or is processing,   *)
(* the Disconnect of a client has a reason for it.                          *)

StoppingJustified ==
    \A c \in Clients :
        reader[c] = "disconnect" \/ writer[c] = "disconnect" => Justified(c)

KickJustified ==
    \A c \in Clients :
        /\ kicked[c] # None => /\ login[c] /\ login[kicked[c]]
                               /\ Account[kicked[c]] = Account[c]
        /\ request[c] = "kick" => kicked[c] \notin {None, c}

RecoverJustified ==
    \A p \in Senders : recovering[p] => target[p] # None /\ closed[target[p]]

HubJustified ==
    hub \in {"disconnect", "leave"} =>
        current # None /\ Justified(current) /\ conn[current] # "new"

MembersLoggedIn ==
    \A c \in Clients :
        c \in registered \/ request[c] \notin {"off", "recv"} => login[c]

MembersNotGuests ==
    \A c \in guests : c \in registered => request[c] \in {"kick", "pub", "store"}

NewUntouched ==
    \A c \in Clients : conn[c] = "new" =>
        /\ reader[c] = "off" /\ writer[c] = "off" /\ request[c] = "off"
        /\ ~closed[c] /\ ~login[c]

BusyRequestSendsNothing ==
    \A c \in Clients : request[c] # "recv" => Idle(c)

SafetyInv ==
    /\ NoInnocentClosed /\ ClosedGuestIsLoggingIn
    /\ StoppingJustified /\ KickJustified /\ RecoverJustified /\ HubJustified
    /\ MembersLoggedIn /\ MembersNotGuests /\ NewUntouched
    /\ BusyRequestSendsNothing
=============================================================================
