------------------------------- MODULE PubSub -------------------------------
(***************************************************************************)
(* Subscriptions (ws/pubsub.go, ws/pubsub_topic.go and the SubTopics of     *)
(* ws/user.go).  Any goroutine may call Sub, SubFunc, Unsub, Pub or         *)
(* UnsubAllTopics; a subscription is kept on both sides, in SubTopics of    *)
(* the user under the user's lock, and in SubUsers of the topic, which is a *)
(* sync.Map of its own.  One operation on a sync.Map and one critical       *)
(* section of a user are one step each.                                     *)
(*                                                                         *)
(* A *Topic is its index in the sequence of all Topic values ever created,  *)
(* 0 is nil.  Writing to the Send channels of the receivers is in module    *)
(* Session.                                                                 *)
(***************************************************************************)
EXTENDS Naturals, Sequences, FiniteSets

CONSTANTS
    Users, TopicIds,
    Callers,       \* the goroutines that call into PubSub
    Acts,          \* Acts[p]: the users on whose behalf p calls
    Ops,           \* Ops[p]: the operations p calls, a subset of AllOps
    InitialTopics, \* the topics that exist, without subscribers, at the start
    QueueCap,      \* capacity of TopicMsgQueue, 128 in the code
    MaxCalls       \* bound: p makes MaxCalls[p] calls

AllOps == {"sub", "subfunc", "pub", "unsub", "unsuball"}

ASSUME CallersAssumption == /\ Acts \in [Callers -> (SUBSET Users) \ {{}}]
                            /\ Ops \in [Callers -> SUBSET AllOps]
ASSUME TopicsAssumption == /\ InitialTopics \subseteq TopicIds /\ TopicIds # {}
                           /\ IsFiniteSet(InitialTopics)
ASSUME BoundsAssumption == QueueCap \in Nat \ {0} /\ MaxCalls \in [Callers -> Nat]

VARIABLES
    topics,      \* PubSub.Topics: the *Topic stored under an id
    objects,     \* the Topic values, each with its SubUsers and SubHandlers
    subTopics,   \* User.SubTopics
    call,        \* call[p]: the call p is in and its local variables
    calls,       \* calls[p]: calls p has begun
    queue,       \* TopicMsgQueue
    start,       \* the message PubSub.Start is handling
    subscribed   \* history: <<user, id>> whose last call was a finished Sub

vars == <<topics, objects, subTopics, call, calls, queue, start, subscribed>>

Pointers == 0..Len(objects)

\* Where a call may be: it holds a topic from "do" on.
Places == {"idle", "load", "create", "do", "adduser", "remove", "untopic", "unall"}
Holding == {"do", "adduser", "remove", "untopic"}

TypeOK ==
    /\ topics \in [TopicIds -> Pointers]
    /\ objects \in Seq([subUsers: SUBSET Users, subHandlers: SUBSET Callers])
    /\ subTopics \in [Users -> [TopicIds -> Pointers]]
    /\ call \in [Callers -> [pc: Places, op: AllOps, user: Users, id: TopicIds,
                             topic: Pointers]]
    /\ \A p \in Callers : call[p].pc \in Holding => call[p].topic # 0
    /\ calls \in [Callers -> Nat]
    /\ queue \in Seq([id: TopicIds, owed: SUBSET Users]) /\ Len(queue) <= QueueCap
    /\ start \in [topic: Pointers, owed: SUBSET Users]
    /\ subscribed \subseteq Users \X TopicIds

NewTopic == [subUsers |-> {}, subHandlers |-> {}]
NoMsg == [topic |-> 0, owed |-> {}]

Init ==
    /\ objects = [i \in 1..Cardinality(InitialTopics) |-> NewTopic]
    /\ topics \in {f \in [TopicIds -> Pointers] :
                     /\ \A id \in TopicIds : f[id] # 0 <=> id \in InitialTopics
                     /\ \A i, j \in InitialTopics : f[i] = f[j] => i = j}
    /\ subTopics = [u \in Users |-> [id \in TopicIds |-> 0]]
    /\ call \in [Callers -> {[pc |-> "idle", op |-> "sub", topic |-> 0,
                              user |-> CHOOSE u \in Users : TRUE,
                              id |-> CHOOSE id \in TopicIds : TRUE]}]
    /\ calls = [p \in Callers |-> 0]
    /\ queue = <<>>
    /\ start = NoMsg
    /\ subscribed = {}

-----------------------------------------------------------------------------
Goto(p, pc) == call' = [call EXCEPT ![p].pc = pc]
At(p, pc, op) == call[p].pc = pc /\ call[p].op = op

\* A call of p's user to leave topics is under way.
Leaving(u) == \E p \in Callers : /\ call[p].pc # "idle" /\ call[p].user = u
                                 /\ call[p].op \in {"unsub", "unsuball"}

\* An Unsub ends what is owed to its user for that topic, UnsubAllTopics for
\* all of them.
Forget(s, op, u, id) ==
    {e \in s : ~ /\ e[1] = u
                 /\ op = "unsuball" \/ (op = "unsub" /\ e[2] = id)}

Call(p) ==
    /\ call[p].pc = "idle" /\ calls[p] < MaxCalls[p]
    /\ \E op \in Ops[p], u \in Acts[p], id \in TopicIds :
         /\ call' = [call EXCEPT ![p] =
                       [op |-> op, user |-> u, id |-> id, topic |-> 0,
                        pc |-> IF op = "unsuball" THEN "unall" ELSE "load"]]
         /\ subscribed' = Forget(subscribed, op, u, id)
         /\ queue' = [i \in DOMAIN queue |->
                        [queue[i] EXCEPT !.owed =
                           {v \in @ : <<v, queue[i].id>> \in
                              Forget({<<v, queue[i].id>>}, op, u, id)}]]
         /\ start' = [start EXCEPT !.owed =
                        IF op \in {"unsub", "unsuball"} THEN @ \ {u} ELSE @]
    /\ calls' = [calls EXCEPT ![p] = @ + 1]
    /\ UNCHANGED <<topics, objects, subTopics>>

\* Topics.Load: at the head of initTopic, and in Unsub, which does nothing
\* for a topic that does not exist.
Load(p) ==
    /\ call[p].pc = "load"
    /\ LET t == topics[call[p].id]
       IN  call' = [call EXCEPT ![p].topic = t, ![p].pc =
                      IF call[p].op = "unsub"
                      THEN IF t = 0 THEN "idle" ELSE "remove"
                      ELSE IF t = 0 THEN "create" ELSE "do"]
    /\ UNCHANGED <<topics, objects, subTopics, calls, queue, start, subscribed>>

\* The rest of initTopic: Topics.Store, whatever is stored there by now.
Create(p) ==
    /\ call[p].pc = "create"
    /\ objects' = Append(objects, NewTopic)
    /\ topics' = [topics EXCEPT ![call[p].id] = Len(objects) + 1]
    /\ call' = [call EXCEPT ![p].topic = Len(objects) + 1, ![p].pc = "do"]
    /\ UNCHANGED <<subTopics, calls, queue, start, subscribed>>

\* The two halves of AddSubUser.
AddSubTopic(p) ==
    /\ At(p, "do", "sub") /\ Goto(p, "adduser")
    /\ subTopics' = [subTopics EXCEPT ![call[p].user][call[p].id] = call[p].topic]
    /\ UNCHANGED <<topics, objects, calls, queue, start, subscribed>>

AddSubUser(p) ==
    /\ At(p, "adduser", "sub") /\ Goto(p, "idle")
    /\ objects' = [objects EXCEPT ![call[p].topic].subUsers = @ \union {call[p].user}]
    /\ subscribed' = IF Leaving(call[p].user) THEN subscribed
                     ELSE subscribed \union {<<call[p].user, call[p].id>>}
    /\ UNCHANGED <<topics, subTopics, calls, queue, start>>

\* LoadOrStore under the one key Topic.Id: the first handler stays for ever.
AddSubHandle(p) ==
    /\ At(p, "do", "subfunc") /\ Goto(p, "idle")
    /\ objects' = [objects EXCEPT ![call[p].topic].subHandlers =
                     IF @ = {} THEN {p} ELSE @]
    /\ UNCHANGED <<topics, subTopics, calls, queue, start, subscribed>>

Enqueue(p) ==
    /\ At(p, "do", "pub") /\ Goto(p, "idle") /\ Len(queue) < QueueCap
    /\ queue' = Append(queue,
                  [id |-> call[p].id,
                   owed |-> {u \in Users : <<u, call[p].id>> \in subscribed}])
    /\ UNCHANGED <<topics, objects, subTopics, calls, start, subscribed>>

\* Mutant: Unsub leaves the user's side alone.
RemoveSubUserOnly(p) ==
    /\ At(p, "remove", "unsub") /\ Goto(p, "idle")
    /\ objects' = [objects EXCEPT ![call[p].topic].subUsers = @ \ {call[p].user}]
    /\ UNCHANGED <<topics, subTopics, calls, queue, start, subscribed>>

RemoveSubUser(p) ==
    /\ At(p, "remove", "unsub") /\ Goto(p, "untopic")
    /\ objects' = [objects EXCEPT ![call[p].topic].subUsers = @ \ {call[p].user}]
    /\ UNCHANGED <<topics, subTopics, calls, queue, start, subscribed>>

\* Mutant: the topics lose all their users.
DropEverybody(u, ids) ==
    /\ objects' = [o \in DOMAIN objects |->
                     IF \E id \in ids : subTopics[u][id] = o
                     THEN [objects[o] EXCEPT !.subUsers = {}]
                     ELSE objects[o]]
    /\ subTopics' = [subTopics EXCEPT ![u] =
                       [id \in TopicIds |-> IF id \in ids THEN 0 ELSE @[id]]]

\* The topics in ids are removed from both sides, under the user's lock.  A
\* SubUsers that the lock does not protect may change in between, to the same
\* effect as before or after it.
Drop(u, ids) ==
    /\ objects' = [o \in DOMAIN objects |->
                     IF \E id \in ids : subTopics[u][id] = o
                     THEN [objects[o] EXCEPT !.subUsers = @ \ {u}]
                     ELSE objects[o]]
    /\ subTopics' = [subTopics EXCEPT ![u] =
                       [id \in TopicIds |-> IF id \in ids THEN 0 ELSE @[id]]]

UnsubTopic(p) ==
    /\ At(p, "untopic", "unsub") /\ Goto(p, "idle")
    /\ Drop(call[p].user, {call[p].id})
    /\ UNCHANGED <<topics, calls, queue, start, subscribed>>

\* Mutant: the topics keep the user.
UnsubAllUserSide(p) ==
    /\ At(p, "unall", "unsuball") /\ Goto(p, "idle")
    /\ subTopics' = [subTopics EXCEPT ![call[p].user] = [id \in TopicIds |-> 0]]
    /\ UNCHANGED <<topics, objects, calls, queue, start, subscribed>>

UnsubAllTopics(p) ==
    /\ At(p, "unall", "unsuball") /\ Goto(p, "idle")
    /\ Drop(call[p].user, TopicIds)
    /\ UNCHANGED <<topics, calls, queue, start, subscribed>>

-----------------------------------------------------------------------------
(* PubSub.Start.                                                            *)

\* A message of an unknown topic is only logged.
Take ==
    /\ start = NoMsg /\ queue # <<>>
    /\ queue' = Tail(queue)
    /\ start' = LET t == topics[Head(queue).id]
                IN  IF t = 0 THEN NoMsg
                    ELSE [topic |-> t, owed |-> Head(queue).owed]
    /\ UNCHANGED <<topics, objects, subTopics, call, calls, subscribed>>

\* ApplyFunc and SendToSubUser go through what the topic holds.
Deliver ==
    /\ start # NoMsg
    /\ start' = NoMsg
    /\ UNCHANGED <<topics, objects, subTopics, call, calls, queue, subscribed>>

\* Nothing is left to do.
Rest ==
    /\ \A p \in Callers : call[p].pc = "idle" /\ calls[p] = MaxCalls[p]
    /\ queue = <<>> /\ start = NoMsg
    /\ UNCHANGED vars

Next ==
    \/ \E p \in Callers :
         \/ Call(p) \/ Load(p) \/ Create(p) \/ AddSubTopic(p) \/ AddSubUser(p)
         \/ AddSubHandle(p) \/ Enqueue(p) \/ RemoveSubUser(p) \/ UnsubTopic(p)
         \/ UnsubAllTopics(p)
    \/ Take \/ Deliver \/ Rest

Spec == Init /\ [][Next]_vars

-----------------------------------------------------------------------------
(* Properties.                                                              *)

\* No call is under way for u.
Quiet(u) == \A p \in Callers : call[p].pc # "idle" => call[p].user # u

\* When no call is under way for a user, every topic in SubTopics of the user
\* holds the user in its SubUsers, so that UnsubAllTopics finds all it has to
\* clean and a subscription the user sees is one the topic serves, whatever
\* calls of several connections of the user were interleaved.
UserSideIsServed ==
    \A u \in Users : Quiet(u) =>
        \A id \in TopicIds : subTopics[u][id] # 0 =>
            u \in objects[subTopics[u][id]].subUsers

\* For a user whose calls come one after the other, the two sides agree for
\* the topic that is published to, also when initTopic has replaced topics
\* under the feet of its subscriptions.
Alone(u) == \A p, q \in Callers : u \in Acts[p] \intersect Acts[q] => p = q
BothSidesAgree ==
    \A u \in Users : Alone(u) /\ Quiet(u) =>
        \A id \in TopicIds : topics[id] # 0 =>
            (u \in objects[topics[id]].subUsers <=> subTopics[u][id] = topics[id])

\* A user that has subscribed and has not begun to leave when a message is
\* published and delivered is among the receivers, as long as initTopic has
\* not replaced a topic.
NoneReplaced == \A o \in DOMAIN objects : \E id \in TopicIds : topics[id] = o
SubscribersAreServed ==
    start # NoMsg /\ NoneReplaced => start.owed \subseteq objects[start.topic].subUsers

\* initTopic creates a topic that does not exist (pubsub.go:22 and 49) and
\* leaves one that exists as it is.
CreatesOnlyMissing ==
    [][\A id \in TopicIds : topics[id] # 0 => topics'[id] = topics[id]]_vars
=============================================================================
