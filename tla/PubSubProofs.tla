---------------------------- MODULE PubSubProofs ----------------------------
(***************************************************************************)
(* The two sides of a subscription, for all users, topics and callers.      *)
(***************************************************************************)
EXTENDS PubSub, FiniteSetTheorems, SequenceTheorems, TLAPS

-----------------------------------------------------------------------------
(* Parts of the invariant.                                                  *)

\* The call of an unsub or of a sub is at a place of its own.
PlaceOfOp ==
    \A p \in Callers :
        /\ call[p].pc = "adduser" => call[p].op = "sub"
        /\ call[p].pc \in {"remove", "untopic"} => call[p].op = "unsub"
        /\ call[p].pc # "idle" => /\ call[p].user \in Acts[p]
                                  /\ call[p].pc = "unall" <=> call[p].op = "unsuball"

\* A Topic value is known under one id, to the hub, to users and in calls.
Knows(id, o) == \/ topics[id] = o
                \/ \E u \in Users : subTopics[u][id] = o
                \/ \E p \in Callers : call[p].id = id /\ call[p].topic = o
OneId == \A i, j \in TopicIds : \A o \in 1..Len(objects) :
            Knows(i, o) /\ Knows(j, o) => i = j

\* A topic the user sees and that does not hold the user: one half of a
\* subscription is missing, or of its end.
HalfWay(p, u, id) ==
    /\ call[p].user = u /\ call[p].id = id
    /\ call[p].pc = "untopic"
       \/ (call[p].pc = "adduser" /\ call[p].topic = subTopics[u][id])
UserSide ==
    \A u \in Users, id \in TopicIds :
        subTopics[u][id] # 0 =>
            \/ u \in objects[subTopics[u][id]].subUsers
            \/ \E p \in Callers : HalfWay(p, u, id)

\* For a user that is alone, the two sides agree for the stored topic, but in
\* the middle of its own call for that topic.
In(u, id, places) ==
    {p \in Callers : call[p].pc \in places /\ call[p].user = u /\ call[p].id = id}
Serves(u, id) == u \in objects[topics[id]].subUsers
Sees(u, id) == subTopics[u][id] = topics[id]
Between(u, id) ==
    topics[id] # 0 =>
        In(u, id, {"adduser", "untopic"}) # {} \/ (Serves(u, id) <=> Sees(u, id))

\* A call that holds a topic which has been replaced began before the stored
\* one was made, which its user does not know.
Replaced(u, id) ==
    topics[id] # 0 => \A p \in In(u, id, Holding) :
        call[p].topic # topics[id] => ~Serves(u, id) /\ ~Sees(u, id)

\* Where an Unsub and a Sub are between their halves.
UnsubHalf(u, id) ==
    topics[id] # 0 => \A p \in In(u, id, {"untopic"}) : ~Serves(u, id)
SubHalf(u, id) ==
    \A p \in In(u, id, {"adduser"}) : subTopics[u][id] = call[p].topic

Agrees(u, id) ==
    Between(u, id) /\ Replaced(u, id) /\ UnsubHalf(u, id) /\ SubHalf(u, id)
Agreement == \A u \in Users, id \in TopicIds : Alone(u) => Agrees(u, id)

\* Whoever is leaving is not owed anything.
LeaversOwedNothing ==
    \A p \in Callers : call[p].pc # "idle" =>
        /\ call[p].op = "unsub" => <<call[p].user, call[p].id>> \notin subscribed
        /\ call[p].op = "unsuball" =>
             \A id \in TopicIds : <<call[p].user, id>> \notin subscribed

SubscribedAreServed ==
    NoneReplaced => \A e \in subscribed :
        topics[e[2]] # 0 /\ e[1] \in objects[topics[e[2]]].subUsers

QueueOwesSubscribed ==
    \A i \in DOMAIN queue : \A v \in queue[i].owed : <<v, queue[i].id>> \in subscribed

StartOwesSubscribed ==
    NoneReplaced => \A v \in start.owed :
        \E id \in TopicIds : <<v, id>> \in subscribed /\ topics[id] = start.topic

-----------------------------------------------------------------------------
(* Types.                                                                   *)

Topic == [subUsers: SUBSET Users, subHandlers: SUBSET Callers]
Message == [id: TopicIds, owed: SUBSET Users]
State(n) == [pc: Places, op: AllOps, user: Users, id: TopicIds, topic: 0..n]

LEMMA FunctionIsSeq ==
    ASSUME NEW V, NEW n \in Nat, NEW f \in [1..n -> V]
    PROVE  f \in Seq(V) /\ Len(f) = n
<1>1. f \in Seq(V)
  BY SeqDef
<1>2. DOMAIN f = 1..n /\ DOMAIN f = 1..Len(f) /\ Len(f) \in Nat
  BY <1>1, LenProperties
<1> QED
  BY <1>1, <1>2

\* More topics leave every type as it is.
LEMMA MorePointers ==
    ASSUME NEW n \in Nat, NEW m \in Nat, n <= m
    PROVE  State(n) \subseteq State(m) /\ 0..n \subseteq 0..m
  BY DEF State

\* TypeOK, with names for the types.
Typed ==
    /\ topics \in [TopicIds -> 0..Len(objects)]
    /\ objects \in Seq(Topic)
    /\ subTopics \in [Users -> [TopicIds -> 0..Len(objects)]]
    /\ call \in [Callers -> State(Len(objects))]
    /\ \A p \in Callers : call[p].pc \in Holding => call[p].topic # 0
    /\ calls \in [Callers -> Nat]
    /\ queue \in Seq(Message) /\ Len(queue) <= QueueCap
    /\ start \in [topic: 0..Len(objects), owed: SUBSET Users]
    /\ subscribed \subseteq Users \X TopicIds

LEMMA TypeIsTyped == (TypeOK <=> Typed) /\ (TypeOK' <=> Typed')
  BY DEF TypeOK, Typed, Topic, Message, State, Pointers

LEMMA InitType == Init => TypeOK
<1> SUFFICES ASSUME Init PROVE TypeOK
  OBVIOUS
<1>1. Cardinality(InitialTopics) \in Nat
  BY TopicsAssumption, FS_CardinalityType
<1> DEFINE n == Cardinality(InitialTopics)
<1> HIDE DEF n
<1>2. objects \in Seq(Topic) /\ Len(objects) = n
  <2>1. objects \in [1..n -> Topic]
    BY DEF Init, n, NewTopic, Topic
  <2> QED
    BY <1>1, <2>1, FunctionIsSeq DEF n
<1>3. topics \in [TopicIds -> Pointers]
  BY DEF Init
<1>4. subTopics \in [Users -> [TopicIds -> Pointers]]
  BY <1>1, <1>2 DEF Init, Pointers, n
<1>5. call \in [Callers -> State(Len(objects))] /\ \A p \in Callers : call[p].pc = "idle"
  <2>1. ASSUME NEW p \in Callers PROVE call[p] \in State(Len(objects)) /\ call[p].pc = "idle"
    <3>1. Users # {} /\ TopicIds # {}
      BY CallersAssumption, TopicsAssumption
    <3>2. (CHOOSE u \in Users : TRUE) \in Users /\ (CHOOSE id \in TopicIds : TRUE) \in TopicIds
      BY <3>1
    <3>3. call[p] = [pc |-> "idle", op |-> "sub", topic |-> 0,
                     user |-> CHOOSE u \in Users : TRUE,
                     id |-> CHOOSE id \in TopicIds : TRUE]
      BY DEF Init
    <3> QED
      BY <1>1, <1>2, <3>2, <3>3 DEF State, Places, AllOps, n
  <2> QED
    BY <2>1 DEF Init
<1>6. calls \in [Callers -> Nat] /\ queue \in Seq(Message) /\ Len(queue) <= QueueCap
  BY BoundsAssumption DEF Init
<1>7. start \in [topic: Pointers, owed: SUBSET Users] /\ subscribed \subseteq Users \X TopicIds
  BY <1>1, <1>2 DEF Init, NoMsg, Pointers, n
<1> QED
  BY <1>2, <1>3, <1>4, <1>5, <1>6, <1>7 DEF TypeOK, Topic, Message, State, Pointers, Holding

\* A call goes on to another place with the topic t, and no other does.
Moves(p, pc, t) ==
    \A q \in Callers :
        /\ call'[q].pc = IF q = p THEN pc ELSE call[q].pc
        /\ call'[q].topic = IF q = p THEN t ELSE call[q].topic
        /\ call'[q].op = call[q].op /\ call'[q].user = call[q].user
        /\ call'[q].id = call[q].id

CallsTyped ==
    /\ call \in [Callers -> State(Len(objects))]
    /\ \A p \in Callers : call[p].pc \in Holding => call[p].topic # 0

Jumps(p, pc, t) == call' = [call EXCEPT ![p].topic = t, ![p].pc = pc]

LEMMA MovesTyped ==
    ASSUME Typed, NEW p \in Callers, NEW pc \in Places, NEW t \in 0..Len(objects'),
           pc \in Holding => t # 0, Len(objects') \in Nat, Len(objects) <= Len(objects'),
           Jumps(p, pc, t)
    PROVE  CallsTyped' /\ Moves(p, pc, t)
<1>0. Len(objects) \in Nat
  BY LenProperties DEF Typed
<1>1. call \in [Callers -> State(Len(objects))]
  BY DEF Typed
<1>2. State(Len(objects)) \subseteq State(Len(objects'))
  BY <1>0, MorePointers
<1> DEFINE new == [call[p] EXCEPT !.topic = t, !.pc = pc]
<1>3. call[p] \in State(Len(objects))
  BY <1>1
<1>4. new \in State(Len(objects')) /\ new.pc = pc /\ new.topic = t
      /\ new.op = call[p].op /\ new.user = call[p].user /\ new.id = call[p].id
  BY <1>3 DEF State
<1>5. call' = [call EXCEPT ![p] = new]
  BY <1>1 DEF Jumps
<1> HIDE DEF new
<1>6. Moves(p, pc, t)
  BY <1>1, <1>4, <1>5 DEF Moves
<1>7. call' \in [Callers -> State(Len(objects'))]
  BY <1>1, <1>2, <1>4, <1>5
<1> QED
  BY <1>6, <1>7 DEF CallsTyped, Moves, Typed

LEMMA GotoTyped ==
    ASSUME Typed, NEW p \in Callers, NEW pc \in Places, Goto(p, pc),
           pc \in Holding => call[p].pc \in Holding, Len(objects') = Len(objects)
    PROVE  CallsTyped' /\ Moves(p, pc, call[p].topic)
<1>0. Len(objects) \in Nat
  BY LenProperties DEF Typed
<1>1. call \in [Callers -> State(Len(objects))] /\ call[p] \in State(Len(objects))
  BY DEF Typed
<1>2. call' = [call EXCEPT ![p] = [call[p] EXCEPT !.pc = pc]]
  BY <1>1 DEF Goto
<1>3. [call[p] EXCEPT !.pc = pc] = [call[p] EXCEPT !.topic = call[p].topic, !.pc = pc]
  BY <1>1 DEF State
<1>4. Jumps(p, pc, call[p].topic)
  BY <1>1, <1>2, <1>3 DEF Jumps
<1>5. call[p].topic \in 0..Len(objects') /\ (pc \in Holding => call[p].topic # 0)
  BY <1>1 DEF State, Typed
<1> QED
  BY <1>0, <1>4, <1>5, MovesTyped

\* An object whose users or handlers change is still a Topic, and the only one
\* that changes.
LEMMA ObjectChanges ==
    ASSUME Typed, NEW o \in 1..Len(objects), NEW new \in Topic,
           objects' = [objects EXCEPT ![o] = new]
    PROVE  /\ objects' \in Seq(Topic) /\ Len(objects') = Len(objects)
           /\ \A i \in 1..Len(objects) : objects'[i] = IF i = o THEN new ELSE objects[i]
<1>1. objects \in Seq(Topic)
  BY DEF Typed
<1> QED
  BY <1>1

\* What Drop takes away, from the topics and from the user.
LEMMA DropKeeps ==
    ASSUME Typed, NEW u \in Users, NEW ids \in SUBSET TopicIds, Drop(u, ids)
    PROVE  /\ objects' \in Seq(Topic) /\ Len(objects') = Len(objects)
           /\ \A o \in 1..Len(objects) : objects'[o].subUsers =
                IF \E id \in ids : subTopics[u][id] = o
                THEN objects[o].subUsers \ {u} ELSE objects[o].subUsers
           /\ subTopics' \in [Users -> [TopicIds -> Pointers]]
           /\ \A v \in Users, id \in TopicIds : subTopics'[v][id] =
                IF v = u /\ id \in ids THEN 0 ELSE subTopics[v][id]
<1>1. objects \in Seq(Topic) /\ Len(objects) \in Nat /\ DOMAIN objects = 1..Len(objects)
  BY DEF Typed
<1> DEFINE new(o) == IF \E id \in ids : subTopics[u][id] = o
                     THEN [objects[o] EXCEPT !.subUsers = @ \ {u}] ELSE objects[o]
<1>2. \A o \in 1..Len(objects) : /\ new(o) \in Topic
                                 /\ new(o).subUsers =
                                      IF \E id \in ids : subTopics[u][id] = o
                                      THEN objects[o].subUsers \ {u} ELSE objects[o].subUsers
  <2> SUFFICES ASSUME NEW o \in 1..Len(objects)
               PROVE  /\ new(o) \in Topic
                      /\ new(o).subUsers = IF \E id \in ids : subTopics[u][id] = o
                           THEN objects[o].subUsers \ {u} ELSE objects[o].subUsers
    OBVIOUS
  <2>1. objects[o] \in Topic
    BY <1>1
  <2>2. [objects[o] EXCEPT !.subUsers = @ \ {u}] \in Topic
        /\ [objects[o] EXCEPT !.subUsers = @ \ {u}].subUsers = objects[o].subUsers \ {u}
    BY <2>1 DEF Topic
  <2> QED
    BY <2>1, <2>2
<1>3. objects' = [o \in 1..Len(objects) |-> new(o)]
  BY <1>1 DEF Drop
<1> HIDE DEF new
<1>4. objects' \in [1..Len(objects) -> Topic]
  BY <1>2, <1>3
<1>5. objects' \in Seq(Topic) /\ Len(objects') = Len(objects)
  BY <1>1, <1>4, FunctionIsSeq
<1>6. 0 \in Pointers /\ subTopics \in [Users -> [TopicIds -> Pointers]]
  BY <1>1 DEF Typed, Pointers
<1>7. subTopics' = [subTopics EXCEPT ![u] =
                      [id \in TopicIds |-> IF id \in ids THEN 0 ELSE subTopics[u][id]]]
  BY <1>6 DEF Drop
<1> QED
  BY <1>2, <1>3, <1>5, <1>6, <1>7

\* What each step of the topic functions does.
Acted == Typed' /\ UNCHANGED <<start, queue>>

Begins(p, op, u, id) ==
    /\ call'[p].pc = IF op = "unsuball" THEN "unall" ELSE "load"
    /\ call'[p].topic = 0 /\ call'[p].op = op
    /\ call'[p].user = u /\ call'[p].id = id
    /\ \A q \in Callers \ {p} : call'[q] = call[q]
    /\ subscribed' = Forget(subscribed, op, u, id)
    /\ Len(queue') = Len(queue)
    /\ \A i \in 1..Len(queue) :
         /\ queue'[i].id = queue[i].id
         /\ queue'[i].owed = {v \in queue[i].owed : <<v, queue[i].id>> \in
                                Forget({<<v, queue[i].id>>}, op, u, id)}
    /\ start'.topic = start.topic
    /\ start'.owed = IF op \in {"unsub", "unsuball"}
                     THEN start.owed \ {u} ELSE start.owed

LEMMA CallDoes ==
    ASSUME Typed, NEW p \in Callers, Call(p)
    PROVE  /\ Typed' /\ call[p].pc = "idle" /\ UNCHANGED <<topics, objects, subTopics>>
           /\ \E op \in Ops[p], u \in Acts[p], id \in TopicIds : Begins(p, op, u, id)
<1>1. /\ objects \in Seq(Topic) /\ queue \in Seq(Message)
      /\ call \in [Callers -> State(Len(objects))] /\ Len(objects) \in Nat
      /\ Len(queue) \in Nat /\ DOMAIN queue = 1..Len(queue)
  BY LenProperties DEF Typed
<1>2. PICK op \in Ops[p], u \in Acts[p], id \in TopicIds :
        /\ call' = [call EXCEPT ![p] =
                      [op |-> op, user |-> u, id |-> id, topic |-> 0,
                       pc |-> IF op = "unsuball" THEN "unall" ELSE "load"]]
        /\ subscribed' = Forget(subscribed, op, u, id)
        /\ queue' = [i \in DOMAIN queue |->
                       [queue[i] EXCEPT !.owed =
                          {v \in @ : <<v, queue[i].id>> \in
                             Forget({<<v, queue[i].id>>}, op, u, id)}]]
        /\ start' = [start EXCEPT !.owed =
                       IF op \in {"unsub", "unsuball"} THEN @ \ {u} ELSE @]
  BY DEF Call
<1>3. op \in AllOps /\ u \in Users
  BY CallersAssumption
<1>4. /\ UNCHANGED <<topics, objects, subTopics>> /\ calls' = [calls EXCEPT ![p] = @ + 1]
      /\ call[p].pc = "idle"
  BY DEF Call
<1> DEFINE new == [op |-> op, user |-> u, id |-> id, topic |-> 0,
                   pc |-> IF op = "unsuball" THEN "unall" ELSE "load"]
<1>5. /\ new \in State(Len(objects)) /\ new.op = op /\ new.user = u /\ new.id = id
      /\ new.topic = 0 /\ new.pc = IF op = "unsuball" THEN "unall" ELSE "load"
      /\ new.pc \notin Holding
  BY <1>1, <1>3 DEF State, Places, Holding
<1>6. call' = [call EXCEPT ![p] = new]
  BY <1>2
<1> HIDE DEF new
<1>7. /\ call' \in [Callers -> State(Len(objects'))] /\ call'[p] = new
      /\ \A q \in Callers \ {p} : call'[q] = call[q]
  BY <1>1, <1>4, <1>5, <1>6
<1>8. \A q \in Callers : call'[q].pc \in Holding => call'[q].topic # 0
  BY <1>5, <1>7 DEF Typed
<1> DEFINE kept(i) == [queue[i] EXCEPT !.owed =
                         {v \in @ : <<v, queue[i].id>> \in
                            Forget({<<v, queue[i].id>>}, op, u, id)}]
<1>9. ASSUME NEW i \in 1..Len(queue)
      PROVE  /\ kept(i) \in Message /\ kept(i).id = queue[i].id
             /\ kept(i).owed = {v \in queue[i].owed : <<v, queue[i].id>> \in
                                 Forget({<<v, queue[i].id>>}, op, u, id)}
  <2>1. queue[i] \in Message
    BY <1>1
  <2> QED
    BY <2>1 DEF Message
<1>10. queue' = [i \in 1..Len(queue) |-> kept(i)]
  BY <1>1, <1>2
<1> HIDE DEF kept
<1>11. queue' \in [1..Len(queue) -> Message]
  BY <1>9, <1>10
<1>12. queue' \in Seq(Message) /\ Len(queue') = Len(queue)
  BY <1>1, <1>11, FunctionIsSeq
<1>13. /\ start' \in [topic: 0..Len(objects), owed: SUBSET Users]
       /\ start'.topic = start.topic
       /\ start'.owed = IF op \in {"unsub", "unsuball"}
                        THEN start.owed \ {u} ELSE start.owed
  BY <1>2 DEF Typed
<1>14. subscribed' \subseteq Users \X TopicIds
  BY <1>2 DEF Typed, Forget
<1>15. calls' \in [Callers -> Nat]
  BY <1>4 DEF Typed
<1>16. Typed'
  BY <1>4, <1>7, <1>8, <1>12, <1>13, <1>14, <1>15 DEF Typed
<1>17. \A i \in 1..Len(queue) :
         /\ queue'[i].id = queue[i].id
         /\ queue'[i].owed = {v \in queue[i].owed : <<v, queue[i].id>> \in
                                Forget({<<v, queue[i].id>>}, op, u, id)}
  BY <1>9, <1>10
<1> HIDE DEF new
<1>18. /\ call'[p].pc = IF op = "unsuball" THEN "unall" ELSE "load"
       /\ call'[p].topic = 0 /\ call'[p].op = op
       /\ call'[p].user = u /\ call'[p].id = id
  BY <1>5, <1>7
<1>19. Typed' /\ call[p].pc = "idle" /\ UNCHANGED <<topics, objects, subTopics>>
  BY <1>4, <1>16
<1>20. Begins(p, op, u, id)
  BY <1>2, <1>7, <1>12, <1>13, <1>17, <1>18 DEF Begins
<1> QED
  BY <1>19, <1>20

LEMMA LoadDoes ==
    ASSUME Typed, NEW p \in Callers, Load(p)
    PROVE  /\ Typed' /\ call[p].pc = "load"
           /\ UNCHANGED <<topics, objects, subTopics, queue, start, subscribed>>
           /\ \E pc \in {"idle", "remove", "create", "do"} :
                /\ Moves(p, pc, topics[call[p].id])
                /\ (pc = "remove") => call[p].op = "unsub"
                /\ (pc \in {"create", "do"}) => call[p].op # "unsub"
                /\ (pc = "create") => topics[call[p].id] = 0
                /\ (pc = "do") => topics[call[p].id] # 0
<1> DEFINE t == topics[call[p].id]
           pc == IF call[p].op = "unsub" THEN IF t = 0 THEN "idle" ELSE "remove"
                 ELSE IF t = 0 THEN "create" ELSE "do"
<1>1. /\ call[p].pc = "load" /\ Jumps(p, pc, t)
      /\ UNCHANGED <<topics, objects, subTopics, calls, queue, start, subscribed>>
  BY DEF Load, Jumps
<1>2. call[p] \in State(Len(objects)) /\ Len(objects) \in Nat
  BY LenProperties DEF Typed
<1>3. t \in 0..Len(objects)
  BY <1>2 DEF Typed, State
<1>4. pc \in Places /\ (pc \in Holding => t # 0) /\ pc \in {"idle", "remove", "create", "do"}
      /\ ((pc = "remove") => call[p].op = "unsub")
      /\ ((pc \in {"create", "do"}) => call[p].op # "unsub")
      /\ ((pc = "create") => t = 0) /\ ((pc = "do") => t # 0)
  BY DEF Places, Holding
<1> HIDE DEF t, pc
<1>5. t \in 0..Len(objects') /\ Len(objects') = Len(objects)
  BY <1>1, <1>3
<1>6. CallsTyped' /\ Moves(p, pc, t)
  BY <1>1, <1>2, <1>4, <1>5, MovesTyped
<1>7. Typed'
  BY <1>1, <1>6 DEF Typed, CallsTyped
<1> QED
  BY <1>1, <1>4, <1>6, <1>7 DEF t

LEMMA CreateDoes ==
    ASSUME Typed, NEW p \in Callers, Create(p)
    PROVE  /\ Typed' /\ call[p].pc = "create"
           /\ UNCHANGED <<subTopics, queue, start, subscribed>>
           /\ Len(objects) \in Nat /\ Len(objects') = Len(objects) + 1
           /\ \A o \in 1..Len(objects) : objects'[o] = objects[o]
           /\ objects'[Len(objects) + 1].subUsers = {}
           /\ \A id \in TopicIds : topics'[id] =
                IF id = call[p].id THEN Len(objects) + 1 ELSE topics[id]
           /\ Moves(p, "do", Len(objects) + 1)
<1> DEFINE n == Len(objects)
<1>1. /\ call[p].pc = "create" /\ objects' = Append(objects, NewTopic)
      /\ topics' = [topics EXCEPT ![call[p].id] = n + 1]
      /\ Jumps(p, "do", n + 1)
      /\ UNCHANGED <<subTopics, calls, queue, start, subscribed>>
  BY DEF Create, Jumps
<1>2. /\ call[p] \in State(n) /\ n \in Nat /\ objects \in Seq(Topic)
      /\ NewTopic \in Topic /\ NewTopic.subUsers = {}
  BY LenProperties DEF Typed, NewTopic, Topic
<1>3. /\ objects' \in Seq(Topic) /\ Len(objects') = n + 1
      /\ \A o \in 1..n : objects'[o] = objects[o]
      /\ objects'[n + 1] = NewTopic
  BY <1>1, <1>2, AppendProperties
<1> HIDE DEF n
<1>4. n + 1 \in 0..Len(objects') /\ n + 1 # 0 /\ n <= Len(objects') /\ Len(objects') \in Nat
      /\ 0..n \subseteq 0..Len(objects')
  BY <1>2, <1>3
<1>5. CallsTyped' /\ Moves(p, "do", n + 1)
  BY <1>1, <1>4, MovesTyped DEF Places, n
<1>6. topics \in [TopicIds -> 0..Len(objects')] /\ subTopics' \in [Users -> [TopicIds -> 0..Len(objects')]]
      /\ start' \in [topic: 0..Len(objects'), owed: SUBSET Users]
  <2>1. topics \in [TopicIds -> 0..n] /\ subTopics \in [Users -> [TopicIds -> 0..n]]
        /\ start \in [topic: 0..n, owed: SUBSET Users]
    BY DEF Typed, n
  <2>2. start \in [topic: 0..Len(objects'), owed: SUBSET Users]
    BY <1>4, <2>1
  <2>3. topics \in [TopicIds -> 0..Len(objects')]
    BY <1>4, <2>1
  <2>4. ASSUME NEW u \in Users PROVE subTopics[u] \in [TopicIds -> 0..Len(objects')]
    BY <1>4, <2>1
  <2> QED
    BY <1>1, <2>1, <2>2, <2>3, <2>4
<1>7. topics' \in [TopicIds -> 0..Len(objects')]
  BY <1>1, <1>4, <1>6
<1>8. Typed'
  BY <1>1, <1>3, <1>5, <1>6, <1>7 DEF Typed, CallsTyped
<1>9. \A id \in TopicIds : topics'[id] = IF id = call[p].id THEN n + 1 ELSE topics[id]
  BY <1>1, <1>6
<1> QED
  BY <1>1, <1>2, <1>3, <1>5, <1>8, <1>9 DEF n

LEMMA AddSubTopicDoes ==
    ASSUME Typed, NEW p \in Callers, AddSubTopic(p)
    PROVE  /\ Acted /\ At(p, "do", "sub") /\ Moves(p, "adduser", call[p].topic)
           /\ UNCHANGED <<topics, objects, subscribed>>
           /\ \A u \in Users, id \in TopicIds : subTopics'[u][id] =
                IF u = call[p].user /\ id = call[p].id THEN call[p].topic ELSE subTopics[u][id]
<1>1. /\ At(p, "do", "sub") /\ Goto(p, "adduser")
      /\ subTopics' = [subTopics EXCEPT ![call[p].user][call[p].id] = call[p].topic]
      /\ UNCHANGED <<topics, objects, calls, queue, start, subscribed>>
  BY DEF AddSubTopic
<1>2. /\ call[p].topic \in 0..Len(objects) /\ call[p].user \in Users /\ call[p].id \in TopicIds
      /\ subTopics \in [Users -> [TopicIds -> 0..Len(objects)]]
  BY DEF Typed, State
<1>3. CallsTyped' /\ Moves(p, "adduser", call[p].topic)
  BY <1>1, GotoTyped DEF At, Places, Holding
<1>4. /\ subTopics' \in [Users -> [TopicIds -> 0..Len(objects)]]
      /\ \A u \in Users, id \in TopicIds : subTopics'[u][id] =
           IF u = call[p].user /\ id = call[p].id THEN call[p].topic ELSE subTopics[u][id]
  BY <1>1, <1>2
<1> QED
  BY <1>1, <1>3, <1>4 DEF Acted, Typed, CallsTyped

\* A change of the users or handlers of one topic.
LEMMA OneTopicDoes ==
    ASSUME Typed, NEW p \in Callers, NEW pc \in {"idle", "untopic"}, NEW new \in Topic,
           call[p].pc \in Holding, Goto(p, pc),
           objects' = [objects EXCEPT ![call[p].topic] = new],
           subscribed' \subseteq Users \X TopicIds,
           UNCHANGED <<topics, subTopics, calls, queue, start>>
    PROVE  /\ Acted /\ Moves(p, pc, call[p].topic) /\ Len(objects') = Len(objects)
           /\ call[p].topic \in 1..Len(objects)
           /\ \A o \in 1..Len(objects) : objects'[o] =
                IF o = call[p].topic THEN new ELSE objects[o]
<1>1. call[p].topic \in 1..Len(objects)
  BY LenProperties DEF Typed, State
<1>2. /\ objects' \in Seq(Topic) /\ Len(objects') = Len(objects)
      /\ \A o \in 1..Len(objects) : objects'[o] = IF o = call[p].topic THEN new ELSE objects[o]
  BY <1>1, ObjectChanges
<1>3. pc \in Places
  BY DEF Places
<1>4. CallsTyped' /\ Moves(p, pc, call[p].topic)
  BY <1>2, <1>3, GotoTyped
<1>5. Typed'
  BY <1>2, <1>4 DEF Typed, CallsTyped
<1> QED
  BY <1>1, <1>2, <1>4, <1>5 DEF Acted

LEMMA AddSubUserDoes ==
    ASSUME Typed, NEW p \in Callers, AddSubUser(p)
    PROVE  /\ Acted /\ At(p, "adduser", "sub") /\ Moves(p, "idle", call[p].topic)
           /\ UNCHANGED <<topics, subTopics>> /\ Len(objects') = Len(objects)
           /\ call[p].topic \in 1..Len(objects)
           /\ \A o \in 1..Len(objects) : objects'[o].subUsers =
                IF o = call[p].topic THEN objects[o].subUsers \union {call[p].user}
                ELSE objects[o].subUsers
           /\ subscribed' = IF Leaving(call[p].user) THEN subscribed
                            ELSE subscribed \union {<<call[p].user, call[p].id>>}
<1>1. /\ At(p, "adduser", "sub") /\ Goto(p, "idle")
      /\ objects' = [objects EXCEPT ![call[p].topic].subUsers = @ \union {call[p].user}]
      /\ subscribed' = IF Leaving(call[p].user) THEN subscribed
                       ELSE subscribed \union {<<call[p].user, call[p].id>>}
      /\ UNCHANGED <<topics, subTopics, calls, queue, start>>
  BY DEF AddSubUser
<1>2. /\ call[p].topic \in 1..Len(objects) /\ call[p].user \in Users /\ call[p].id \in TopicIds
      /\ objects \in Seq(Topic) /\ objects[call[p].topic] \in Topic
  BY <1>1, LenProperties DEF Typed, State, At, Holding
<1> DEFINE new == [objects[call[p].topic] EXCEPT !.subUsers = @ \union {call[p].user}]
<1>3. new \in Topic /\ new.subUsers = objects[call[p].topic].subUsers \union {call[p].user}
  BY <1>2 DEF Topic
<1>4. objects' = [objects EXCEPT ![call[p].topic] = new]
  BY <1>1, <1>2
<1> HIDE DEF new
<1>5. subscribed' \subseteq Users \X TopicIds
  BY <1>1, <1>2 DEF Typed
<1>6. call[p].pc \in Holding
  BY <1>1 DEF At, Holding
<1>7. /\ Acted /\ Moves(p, "idle", call[p].topic) /\ Len(objects') = Len(objects)
      /\ \A o \in 1..Len(objects) : objects'[o] =
           IF o = call[p].topic THEN new ELSE objects[o]
  BY <1>1, <1>3, <1>4, <1>5, <1>6, OneTopicDoes, ZenonT(40)
<1>8. \A o \in 1..Len(objects) : objects'[o].subUsers =
        IF o = call[p].topic THEN objects[o].subUsers \union {call[p].user}
        ELSE objects[o].subUsers
  <2> SUFFICES ASSUME NEW o \in 1..Len(objects)
               PROVE  objects'[o].subUsers =
                        IF o = call[p].topic THEN objects[o].subUsers \union {call[p].user}
                        ELSE objects[o].subUsers
    OBVIOUS
  <2>1. objects'[o] = IF o = call[p].topic THEN new ELSE objects[o]
    BY <1>7
  <2> QED
    BY <1>3, <2>1
<1> QED
  BY <1>1, <1>2, <1>7, <1>8

LEMMA AddSubHandleDoes ==
    ASSUME Typed, NEW p \in Callers, AddSubHandle(p)
    PROVE  /\ Acted /\ At(p, "do", "subfunc") /\ Moves(p, "idle", call[p].topic)
           /\ UNCHANGED <<topics, subTopics, subscribed>> /\ Len(objects') = Len(objects)
           /\ \A o \in 1..Len(objects) : objects'[o].subUsers = objects[o].subUsers
<1>1. /\ At(p, "do", "subfunc") /\ Goto(p, "idle")
      /\ objects' = [objects EXCEPT ![call[p].topic].subHandlers = IF @ = {} THEN {p} ELSE @]
      /\ UNCHANGED <<topics, subTopics, calls, queue, start, subscribed>>
  BY DEF AddSubHandle
<1>2. /\ call[p].topic \in 1..Len(objects)
      /\ objects \in Seq(Topic) /\ objects[call[p].topic] \in Topic
  BY <1>1, LenProperties DEF Typed, State, At, Holding
<1> DEFINE new == [objects[call[p].topic] EXCEPT !.subHandlers = IF @ = {} THEN {p} ELSE @]
<1>3. new \in Topic /\ new.subUsers = objects[call[p].topic].subUsers
  BY <1>2 DEF Topic
<1>4. objects' = [objects EXCEPT ![call[p].topic] = new]
  BY <1>1, <1>2
<1> HIDE DEF new
<1>5. subscribed' \subseteq Users \X TopicIds
  BY <1>1 DEF Typed
<1>6. call[p].pc \in Holding
  BY <1>1 DEF At, Holding
<1>7. /\ Acted /\ Moves(p, "idle", call[p].topic) /\ Len(objects') = Len(objects)
      /\ \A o \in 1..Len(objects) : objects'[o] =
           IF o = call[p].topic THEN new ELSE objects[o]
  BY <1>1, <1>3, <1>4, <1>5, <1>6, OneTopicDoes, ZenonT(40)
<1> QED
  BY <1>1, <1>2, <1>3, <1>7

LEMMA RemoveSubUserDoes ==
    ASSUME Typed, NEW p \in Callers, RemoveSubUser(p)
    PROVE  /\ Acted /\ At(p, "remove", "unsub") /\ Moves(p, "untopic", call[p].topic)
           /\ UNCHANGED <<topics, subTopics, subscribed>> /\ Len(objects') = Len(objects)
           /\ call[p].topic \in 1..Len(objects)
           /\ \A o \in 1..Len(objects) : objects'[o].subUsers =
                IF o = call[p].topic THEN objects[o].subUsers \ {call[p].user}
                ELSE objects[o].subUsers
<1>1. /\ At(p, "remove", "unsub") /\ Goto(p, "untopic")
      /\ objects' = [objects EXCEPT ![call[p].topic].subUsers = @ \ {call[p].user}]
      /\ UNCHANGED <<topics, subTopics, calls, queue, start, subscribed>>
  BY DEF RemoveSubUser
<1>2. /\ call[p].topic \in 1..Len(objects)
      /\ objects \in Seq(Topic) /\ objects[call[p].topic] \in Topic
  BY <1>1, LenProperties DEF Typed, State, At, Holding
<1> DEFINE new == [objects[call[p].topic] EXCEPT !.subUsers = @ \ {call[p].user}]
<1>3. new \in Topic /\ new.subUsers = objects[call[p].topic].subUsers \ {call[p].user}
  BY <1>2 DEF Topic
<1>4. objects' = [objects EXCEPT ![call[p].topic] = new]
  BY <1>1, <1>2
<1> HIDE DEF new
<1>5. subscribed' \subseteq Users \X TopicIds
  BY <1>1 DEF Typed
<1>6. call[p].pc \in Holding
  BY <1>1 DEF At, Holding
<1>7. /\ Acted /\ Moves(p, "untopic", call[p].topic) /\ Len(objects') = Len(objects)
      /\ \A o \in 1..Len(objects) : objects'[o] =
           IF o = call[p].topic THEN new ELSE objects[o]
  BY <1>1, <1>3, <1>4, <1>5, <1>6, OneTopicDoes
<1>8. \A o \in 1..Len(objects) : objects'[o].subUsers =
        IF o = call[p].topic THEN objects[o].subUsers \ {call[p].user}
        ELSE objects[o].subUsers
  <2> SUFFICES ASSUME NEW o \in 1..Len(objects)
               PROVE  objects'[o].subUsers =
                        IF o = call[p].topic THEN objects[o].subUsers \ {call[p].user}
                        ELSE objects[o].subUsers
    OBVIOUS
  <2>1. objects'[o] = IF o = call[p].topic THEN new ELSE objects[o]
    BY <1>7
  <2> QED
    BY <1>3, <2>1
<1> QED
  BY <1>1, <1>2, <1>7, <1>8

LEMMA EnqueueDoes ==
    ASSUME Typed, NEW p \in Callers, Enqueue(p)
    PROVE  /\ Typed' /\ At(p, "do", "pub") /\ Moves(p, "idle", call[p].topic)
           /\ UNCHANGED <<topics, objects, subTopics, start, subscribed>>
           /\ Len(queue) \in Nat /\ Len(queue') = Len(queue) + 1
           /\ \A i \in 1..Len(queue) : queue'[i] = queue[i]
           /\ queue'[Len(queue) + 1].id = call[p].id
           /\ queue'[Len(queue) + 1].owed = {u \in Users : <<u, call[p].id>> \in subscribed}
<1> DEFINE new == [id |-> call[p].id,
                   owed |-> {u \in Users : <<u, call[p].id>> \in subscribed}]
<1>1. /\ At(p, "do", "pub") /\ Goto(p, "idle") /\ Len(queue) < QueueCap
      /\ queue' = Append(queue, new)
      /\ UNCHANGED <<topics, objects, subTopics, calls, start, subscribed>>
  BY DEF Enqueue
<1>2. call[p].id \in TopicIds /\ queue \in Seq(Message) /\ Len(queue) \in Nat
  BY LenProperties DEF State, Typed
<1>3. /\ new \in Message /\ new.id = call[p].id
      /\ new.owed = {u \in Users : <<u, call[p].id>> \in subscribed}
  BY <1>2 DEF Message
<1> HIDE DEF new
<1>4. /\ queue' \in Seq(Message) /\ Len(queue') = Len(queue) + 1
      /\ \A i \in 1..Len(queue) : queue'[i] = queue[i]
      /\ queue'[Len(queue) + 1] = new
  BY <1>1, <1>2, <1>3, AppendProperties
<1>5. Len(queue') <= QueueCap
  BY <1>1, <1>2, <1>4, BoundsAssumption
<1>6. CallsTyped' /\ Moves(p, "idle", call[p].topic)
  BY <1>1, GotoTyped DEF At, Places, Holding
<1>7. Typed'
  BY <1>1, <1>4, <1>5, <1>6 DEF Typed, CallsTyped
<1> QED
  BY <1>1, <1>2, <1>3, <1>4, <1>6, <1>7

\* Both ends of UnsubTopic and UnsubAllTopics.
Drops(u, ids) ==
    /\ Len(objects') = Len(objects)
    /\ \A o \in 1..Len(objects) : objects'[o].subUsers =
         IF \E id \in ids : subTopics[u][id] = o
         THEN objects[o].subUsers \ {u} ELSE objects[o].subUsers
    /\ \A v \in Users, id \in TopicIds : subTopics'[v][id] =
         IF v = u /\ id \in ids THEN 0 ELSE subTopics[v][id]

LEMMA DropDoes ==
    ASSUME Typed, NEW p \in Callers, NEW ids \in SUBSET TopicIds,
           Goto(p, "idle"), Drop(call[p].user, ids),
           UNCHANGED <<topics, calls, queue, start, subscribed>>
    PROVE  /\ Acted /\ Moves(p, "idle", call[p].topic) /\ Drops(call[p].user, ids)
<1>1. call[p].user \in Users
  BY DEF Typed, State
<1>2. /\ objects' \in Seq(Topic) /\ Drops(call[p].user, ids)
      /\ subTopics' \in [Users -> [TopicIds -> Pointers]]
  BY <1>1, DropKeeps, ZenonT(40) DEF Drops
<1>3. CallsTyped' /\ Moves(p, "idle", call[p].topic)
  BY <1>2, GotoTyped DEF Drops, Places, Holding
<1>4. Typed'
  BY <1>2, <1>3 DEF Drops, Typed, CallsTyped, Pointers
<1> QED
  BY <1>2, <1>3, <1>4 DEF Acted

LEMMA UnsubTopicDoes ==
    ASSUME Typed, NEW p \in Callers, UnsubTopic(p)
    PROVE  /\ Acted /\ At(p, "untopic", "unsub") /\ Moves(p, "idle", call[p].topic)
           /\ UNCHANGED <<topics, subscribed>> /\ Drops(call[p].user, {call[p].id})
<1>1. {call[p].id} \in SUBSET TopicIds
  BY DEF Typed, State
<1> QED
  BY <1>1, DropDoes DEF UnsubTopic

LEMMA UnsubAllTopicsDoes ==
    ASSUME Typed, NEW p \in Callers, UnsubAllTopics(p)
    PROVE  /\ Acted /\ At(p, "unall", "unsuball") /\ Moves(p, "idle", call[p].topic)
           /\ UNCHANGED <<topics, subscribed>> /\ Drops(call[p].user, TopicIds)
  BY DropDoes DEF UnsubAllTopics

LEMMA TakeDoes ==
    ASSUME Typed, Take
    PROVE  /\ Typed' /\ UNCHANGED <<topics, objects, subTopics, call, subscribed>>
           /\ Len(queue) >= 1 /\ Len(queue') = Len(queue) - 1
           /\ \A i \in 1..Len(queue') : queue'[i] = queue[i + 1]
           /\ \/ start' = NoMsg
              \/ /\ start'.topic = topics[queue[1].id] /\ start'.owed = queue[1].owed
                 /\ start'.topic # 0
<1>1. /\ queue # <<>> /\ queue' = Tail(queue)
      /\ start' = LET t == topics[Head(queue).id]
                  IN  IF t = 0 THEN NoMsg ELSE [topic |-> t, owed |-> Head(queue).owed]
      /\ UNCHANGED <<topics, objects, subTopics, call, calls, subscribed>>
  BY DEF Take
<1>2. queue \in Seq(Message) /\ Len(queue) \in Nat
  BY LenProperties DEF Typed
<1>7. Len(queue) # 0
  BY <1>1, <1>2, EmptySeq
<1>3. /\ Len(queue) >= 1 /\ Head(queue) = queue[1] /\ queue' \in Seq(Message)
      /\ Len(queue') = Len(queue) - 1
      /\ \A i \in 1..Len(queue') : queue'[i] = queue[i + 1]
  BY <1>1, <1>2, <1>7, HeadTailProperties
<1>4. queue[1] \in Message /\ queue[1].id \in TopicIds
  <2>1. 1 \in 1..Len(queue)
    BY <1>2, <1>3
  <2>2. queue[1] \in Message
    BY <1>2, <2>1
  <2> QED
    BY <2>2 DEF Message
<1>5. Len(queue') <= QueueCap
  BY <1>2, <1>3, BoundsAssumption DEF Typed
<1>6. start' \in [topic: 0..Len(objects), owed: SUBSET Users]
      /\ (\/ start' = NoMsg
          \/ /\ start'.topic = topics[queue[1].id] /\ start'.owed = queue[1].owed
             /\ start'.topic # 0)
  <2>1. topics[queue[1].id] \in 0..Len(objects) /\ queue[1].owed \in SUBSET Users
    BY <1>4 DEF Typed, Message
  <2>2. CASE topics[queue[1].id] = 0
    BY <1>1, <1>3, <2>1, <2>2, LenProperties DEF NoMsg, Typed
  <2>3. CASE topics[queue[1].id] # 0
    BY <1>1, <1>3, <2>1, <2>3
  <2> QED
    BY <2>2, <2>3
<1> QED
  BY <1>1, <1>3, <1>5, <1>6 DEF Typed

LEMMA DeliverDoes ==
    ASSUME Typed, Deliver
    PROVE  /\ Typed' /\ start' = NoMsg
           /\ UNCHANGED <<topics, objects, subTopics, call, queue, subscribed>>
  BY LenProperties DEF Deliver, Typed, NoMsg

LEMMA TypeStep == TypeOK /\ [Next]_vars => TypeOK'
<1> SUFFICES ASSUME Typed, [Next]_vars PROVE Typed'
  BY TypeIsTyped
<1>1. ASSUME NEW p \in Callers,
             \/ Call(p) \/ Load(p) \/ Create(p) \/ AddSubTopic(p) \/ AddSubUser(p)
             \/ AddSubHandle(p) \/ Enqueue(p) \/ RemoveSubUser(p) \/ UnsubTopic(p)
             \/ UnsubAllTopics(p)
      PROVE  Typed'
  BY <1>1, CallDoes, LoadDoes, CreateDoes, AddSubTopicDoes, AddSubUserDoes, AddSubHandleDoes,
     EnqueueDoes, RemoveSubUserDoes, UnsubTopicDoes, UnsubAllTopicsDoes DEF Acted
<1>2. CASE Take \/ Deliver
  BY <1>2, TakeDoes, DeliverDoes
<1>3. CASE Rest \/ UNCHANGED vars
  BY <1>3 DEF Rest, vars, Typed
<1> QED
  BY <1>1, <1>2, <1>3 DEF Next

\* The state of topics, users, calls and the publisher stays in its types.
THEOREM TypeCorrect == Spec => []TypeOK
  BY InitType, TypeStep, PTL DEF Spec

-----------------------------------------------------------------------------
(* Places and identities.                                                   *)

LEMMA PlaceStep == Typed /\ PlaceOfOp /\ [Next]_vars => PlaceOfOp'
<1> SUFFICES ASSUME Typed, PlaceOfOp, [Next]_vars PROVE PlaceOfOp'
  OBVIOUS
<1>1. ASSUME NEW p \in Callers, Call(p) PROVE PlaceOfOp'
  <2>1. PICK op \in Ops[p], u \in Acts[p], id \in TopicIds : Begins(p, op, u, id)
    BY <1>1, CallDoes
  <2> QED
    BY <2>1 DEF Begins, PlaceOfOp
<1>2. ASSUME NEW p \in Callers, Load(p) PROVE PlaceOfOp'
  <2>1. /\ call[p].pc = "load"
        /\ \E pc \in {"idle", "remove", "create", "do"} :
             /\ Moves(p, pc, topics[call[p].id]) /\ (pc = "remove" => call[p].op = "unsub")
    BY <1>2, LoadDoes
  <2> QED
    BY <2>1 DEF Moves, PlaceOfOp
<1>3. ASSUME NEW p \in Callers, Create(p) PROVE PlaceOfOp'
  BY <1>3, CreateDoes DEF Moves, PlaceOfOp
<1>4. ASSUME NEW p \in Callers, AddSubTopic(p) PROVE PlaceOfOp'
  BY <1>4, AddSubTopicDoes DEF Moves, PlaceOfOp, At
<1>5. ASSUME NEW p \in Callers, RemoveSubUser(p) PROVE PlaceOfOp'
  BY <1>5, RemoveSubUserDoes DEF Moves, PlaceOfOp, At
<1>6. ASSUME NEW p \in Callers, NEW t, Moves(p, "idle", t) PROVE PlaceOfOp'
  BY <1>6 DEF Moves, PlaceOfOp
<1>7. ASSUME NEW p \in Callers,
             \/ AddSubUser(p) \/ AddSubHandle(p) \/ Enqueue(p) \/ UnsubTopic(p)
             \/ UnsubAllTopics(p)
      PROVE  PlaceOfOp'
  BY <1>6, <1>7, AddSubUserDoes, AddSubHandleDoes, EnqueueDoes, UnsubTopicDoes, UnsubAllTopicsDoes
<1>8. CASE UNCHANGED call
  BY <1>8 DEF PlaceOfOp
<1> QED
  BY <1>1, <1>2, <1>3, <1>4, <1>5, <1>7, <1>8, TakeDoes, DeliverDoes DEF Next, Rest, vars

\* A step after which an old Topic is known under no new id keeps OneId.
LEMMA NothingNewKnown ==
    ASSUME OneId, Len(objects') = Len(objects),
           \A i \in TopicIds, o \in 1..Len(objects) : Knows(i, o)' => Knows(i, o)
    PROVE  OneId'
  BY DEF OneId

LEMMA OneIdStep == Typed /\ OneId /\ [Next]_vars => OneId'
<1> SUFFICES ASSUME Typed, OneId, [Next]_vars PROVE OneId'
  OBVIOUS
<1>0. \A p \in Callers : call[p].id \in TopicIds /\ call[p].user \in Users
  BY DEF Typed, State
<1>1. ASSUME NEW p \in Callers, Call(p) PROVE OneId'
  <2>1. /\ UNCHANGED <<topics, objects, subTopics>> /\ call'[p].topic = 0
        /\ \A q \in Callers \ {p} : call'[q] = call[q]
    BY <1>1, CallDoes DEF Begins
  <2> QED
    BY <2>1, NothingNewKnown DEF Knows
<1>2. ASSUME NEW p \in Callers, Load(p) PROVE OneId'
  <2>1. /\ UNCHANGED <<topics, objects, subTopics>>
        /\ \E pc \in Places : Moves(p, pc, topics[call[p].id])
    BY <1>2, LoadDoes DEF Places
  <2> QED
    BY <2>1, NothingNewKnown DEF Knows, Moves
<1>3. ASSUME NEW p \in Callers, Create(p) PROVE OneId'
  <2> DEFINE n == Len(objects)
  <2>1. /\ n \in Nat /\ Len(objects') = n + 1 /\ UNCHANGED subTopics /\ Moves(p, "do", n + 1)
        /\ \A id \in TopicIds : topics'[id] = IF id = call[p].id THEN n + 1 ELSE topics[id]
    BY <1>3, CreateDoes
  <2>2. /\ \A id \in TopicIds : topics[id] \in 0..n
        /\ \A u \in Users, id \in TopicIds : subTopics[u][id] \in 0..n
        /\ \A q \in Callers : call[q].topic \in 0..n
    BY DEF Typed, State
  <2> HIDE DEF n
  <2>3. ASSUME NEW i \in TopicIds, NEW o \in 1..n, Knows(i, o)' PROVE Knows(i, o)
    BY <2>1, <2>3 DEF Knows, Moves
  <2>4. ASSUME NEW i \in TopicIds, NEW o \in 1..(n + 1), o \notin 1..n, Knows(i, o)'
        PROVE  i = call[p].id
    <3>1. o \notin 0..n
      BY <2>1, <2>4
    <3>2. CASE topics'[i] = o
      BY <2>1, <2>2, <3>1, <3>2
    <3>3. ASSUME NEW u \in Users, subTopics'[u][i] = o PROVE FALSE
      BY <2>1, <2>2, <3>1, <3>3
    <3>4. ASSUME NEW q \in Callers, call'[q].id = i, call'[q].topic = o PROVE i = call[p].id
      BY <2>1, <2>2, <3>1, <3>4 DEF Moves
    <3> QED
      BY <2>4, <3>2, <3>3, <3>4 DEF Knows
  <2> QED
    <3> SUFFICES ASSUME NEW i \in TopicIds, NEW j \in TopicIds, NEW o \in 1..(n + 1),
                        Knows(i, o)', Knows(j, o)'
                 PROVE  i = j
      BY <2>1 DEF OneId, n
    <3> QED
      BY <2>3, <2>4 DEF OneId, n
<1>4. ASSUME NEW p \in Callers, AddSubTopic(p) PROVE OneId'
  <2>1. /\ UNCHANGED <<topics, objects>> /\ Moves(p, "adduser", call[p].topic)
        /\ \A u \in Users, id \in TopicIds : subTopics'[u][id] =
             IF u = call[p].user /\ id = call[p].id THEN call[p].topic ELSE subTopics[u][id]
    BY <1>4, AddSubTopicDoes
  <2> QED
    BY <2>1, NothingNewKnown DEF Knows, Moves
<1>5. ASSUME NEW p \in Callers, NEW pc, Moves(p, pc, call[p].topic),
             UNCHANGED <<topics, subTopics>>, Len(objects') = Len(objects)
      PROVE  OneId'
  BY <1>5, NothingNewKnown DEF Knows, Moves
<1>6. ASSUME NEW p \in Callers,
             AddSubUser(p) \/ AddSubHandle(p) \/ Enqueue(p) \/ RemoveSubUser(p)
      PROVE  OneId'
  BY <1>5, <1>6, AddSubUserDoes, AddSubHandleDoes, EnqueueDoes, RemoveSubUserDoes
<1>7. ASSUME NEW p \in Callers, NEW ids \in SUBSET TopicIds, Moves(p, "idle", call[p].topic),
             UNCHANGED topics, Drops(call[p].user, ids)
      PROVE  OneId'
  <2>1. \A i \in TopicIds, o \in 1..Len(objects) : Knows(i, o)' => Knows(i, o)
    BY <1>7 DEF Knows, Moves, Drops
  <2> QED
    BY <1>7, <2>1, NothingNewKnown DEF Drops
<1>8. ASSUME NEW p \in Callers, UnsubTopic(p) \/ UnsubAllTopics(p) PROVE OneId'
  <2>1. {call[p].id} \in SUBSET TopicIds /\ TopicIds \in SUBSET TopicIds
    BY <1>0
  <2> QED
    BY <1>7, <1>8, <2>1, UnsubTopicDoes, UnsubAllTopicsDoes
<1>9. CASE UNCHANGED <<topics, objects, subTopics, call>>
  BY <1>9, NothingNewKnown DEF Knows
<1> QED
  BY <1>1, <1>2, <1>3, <1>4, <1>6, <1>8, <1>9, TakeDoes, DeliverDoes DEF Next, Rest, vars

-----------------------------------------------------------------------------
(* The user's side is served.                                               *)

\* What a user sees in 1..Len(objects) is known to it.
LEMMA SeenIsKnown ==
    ASSUME Typed, NEW u \in Users, NEW id \in TopicIds, subTopics[u][id] # 0
    PROVE  subTopics[u][id] \in 1..Len(objects) /\ Knows(id, subTopics[u][id])
<1>1. Len(objects) \in Nat /\ subTopics[u][id] \in 0..Len(objects)
  BY LenProperties DEF Typed
<1> QED
  BY <1>1 DEF Knows

\* So are what is stored and what a call holds.
LEMMA StoredIsKnown ==
    ASSUME Typed, NEW id \in TopicIds, topics[id] # 0
    PROVE  topics[id] \in 1..Len(objects) /\ Knows(id, topics[id])
<1>1. Len(objects) \in Nat /\ topics[id] \in 0..Len(objects)
  BY LenProperties DEF Typed
<1> QED
  BY <1>1 DEF Knows

LEMMA HeldIsKnown ==
    ASSUME Typed, NEW p \in Callers, call[p].pc \in Holding
    PROVE  call[p].topic \in 1..Len(objects) /\ Knows(call[p].id, call[p].topic)
<1>1. Len(objects) \in Nat /\ call[p].topic \in 0..Len(objects) /\ call[p].topic # 0
  BY LenProperties DEF Typed, State
<1> QED
  BY <1>1 DEF Knows

LEMMA UserSideStep == Typed /\ PlaceOfOp /\ OneId /\ UserSide /\ [Next]_vars => UserSide'
<1> SUFFICES ASSUME Typed, PlaceOfOp, OneId, UserSide, [Next]_vars,
                    NEW u \in Users, NEW id \in TopicIds, subTopics'[u][id] # 0
             PROVE  \/ u \in objects'[subTopics'[u][id]].subUsers
                    \/ \E p \in Callers : HalfWay(p, u, id)'
  BY DEF UserSide
<1> DEFINE Goal == \/ u \in objects'[subTopics'[u][id]].subUsers
                   \/ \E p \in Callers : HalfWay(p, u, id)'
<1>0. \A p \in Callers : call[p].id \in TopicIds /\ call[p].user \in Users
  BY DEF Typed, State
<1>1. ASSUME NEW p \in Callers, Call(p) PROVE Goal
  <2>1. /\ UNCHANGED <<topics, objects, subTopics>> /\ call[p].pc = "idle"
        /\ \A q \in Callers \ {p} : call'[q] = call[q]
    BY <1>1, CallDoes DEF Begins
  <2>2. ~HalfWay(p, u, id)
    BY <2>1 DEF HalfWay
  <2> QED
    BY <2>1, <2>2 DEF UserSide, HalfWay
<1>2. ASSUME NEW p \in Callers, NEW pc, NEW t, Moves(p, pc, t), UNCHANGED subTopics,
             call[p].pc \notin {"adduser", "untopic"},
             \A o \in 1..Len(objects) : objects'[o].subUsers = objects[o].subUsers
      PROVE  Goal
  <2>1. ~HalfWay(p, u, id)
    BY <1>2 DEF HalfWay
  <2>2. subTopics[u][id] \in 1..Len(objects)
    BY <1>2, SeenIsKnown
  <2> QED
    BY <1>2, <2>1, <2>2 DEF UserSide, HalfWay, Moves
<1>3. ASSUME NEW p \in Callers, Load(p) \/ Create(p) \/ AddSubHandle(p) \/ Enqueue(p) PROVE Goal
  BY <1>2, <1>3, LoadDoes, CreateDoes, AddSubHandleDoes, EnqueueDoes DEF At
<1>4. ASSUME NEW p \in Callers, AddSubTopic(p) PROVE Goal
  <2>1. /\ UNCHANGED objects /\ At(p, "do", "sub") /\ Moves(p, "adduser", call[p].topic)
        /\ \A v \in Users, i \in TopicIds : subTopics'[v][i] =
             IF v = call[p].user /\ i = call[p].id THEN call[p].topic ELSE subTopics[v][i]
    BY <1>4, AddSubTopicDoes
  <2>2. CASE u = call[p].user /\ id = call[p].id
    BY <2>1, <2>2 DEF HalfWay, Moves
  <2>3. CASE ~(u = call[p].user /\ id = call[p].id)
    <3>1. subTopics'[u][id] = subTopics[u][id] /\ ~HalfWay(p, u, id)
      BY <2>1, <2>3 DEF HalfWay, At
    <3> QED
      BY <2>1, <3>1 DEF UserSide, HalfWay, Moves
  <2> QED
    BY <2>2, <2>3
<1>5. ASSUME NEW p \in Callers, AddSubUser(p) PROVE Goal
  <2>1. /\ UNCHANGED subTopics /\ At(p, "adduser", "sub") /\ Moves(p, "idle", call[p].topic)
        /\ \A o \in 1..Len(objects) : objects'[o].subUsers =
             IF o = call[p].topic THEN objects[o].subUsers \union {call[p].user}
             ELSE objects[o].subUsers
    BY <1>5, AddSubUserDoes
  <2>2. subTopics[u][id] \in 1..Len(objects) /\ subTopics[u][id] # 0
    BY <2>1, SeenIsKnown
  <2>3. CASE HalfWay(p, u, id)
    BY <2>1, <2>2, <2>3 DEF HalfWay, At
  <2>4. CASE ~HalfWay(p, u, id)
    <3>1. u \in objects[subTopics[u][id]].subUsers => u \in objects'[subTopics[u][id]].subUsers
      BY <2>1, <2>2
    <3> QED
      BY <2>1, <2>2, <2>4, <3>1 DEF UserSide, HalfWay, Moves
  <2> QED
    BY <2>3, <2>4
<1>6. ASSUME NEW p \in Callers, RemoveSubUser(p) PROVE Goal
  <2>1. /\ UNCHANGED subTopics /\ At(p, "remove", "unsub") /\ Moves(p, "untopic", call[p].topic)
        /\ \A o \in 1..Len(objects) : objects'[o].subUsers =
             IF o = call[p].topic THEN objects[o].subUsers \ {call[p].user}
             ELSE objects[o].subUsers
    BY <1>6, RemoveSubUserDoes
  <2>2. subTopics[u][id] \in 1..Len(objects) /\ subTopics[u][id] # 0 /\ Knows(id, subTopics[u][id])
    BY <2>1, SeenIsKnown
  <2>3. CASE u = call[p].user /\ subTopics[u][id] = call[p].topic
    <3>1. Knows(call[p].id, call[p].topic)
      BY DEF Knows
    <3>2. id = call[p].id
      BY <1>0, <2>2, <2>3, <3>1 DEF OneId
    <3> QED
      BY <2>1, <2>3, <3>2 DEF HalfWay, Moves
  <2>4. CASE ~(u = call[p].user /\ subTopics[u][id] = call[p].topic)
    <3>1. u \in objects[subTopics[u][id]].subUsers => u \in objects'[subTopics[u][id]].subUsers
      BY <2>1, <2>2, <2>4
    <3>2. ~HalfWay(p, u, id)
      BY <2>1 DEF HalfWay, At
    <3> QED
      BY <2>1, <2>2, <3>1, <3>2 DEF UserSide, HalfWay, Moves
  <2> QED
    BY <2>3, <2>4
<1>7. ASSUME NEW p \in Callers, NEW ids \in SUBSET TopicIds, Moves(p, "idle", call[p].topic),
             Drops(call[p].user, ids), HalfWay(p, u, id) => id \in ids
      PROVE  Goal
  <2>1. ~(u = call[p].user /\ id \in ids) /\ subTopics'[u][id] = subTopics[u][id]
    BY <1>7 DEF Drops
  <2>2. subTopics[u][id] \in 1..Len(objects) /\ subTopics[u][id] # 0 /\ Knows(id, subTopics[u][id])
    BY <2>1, SeenIsKnown
  <2>3. ~HalfWay(p, u, id)
    BY <1>7, <2>1 DEF HalfWay
  <2>4. u = call[p].user => ~\E i \in ids : subTopics[call[p].user][i] = subTopics[u][id]
    <3> SUFFICES ASSUME u = call[p].user, NEW i \in ids, subTopics[u][i] = subTopics[u][id]
                 PROVE  FALSE
      OBVIOUS
    <3>1. i \in TopicIds /\ Knows(i, subTopics[u][id])
      BY DEF Knows
    <3>2. i = id
      BY <2>2, <3>1 DEF OneId
    <3> QED
      BY <2>1, <3>2
  <2>5. u \in objects[subTopics[u][id]].subUsers => u \in objects'[subTopics[u][id]].subUsers
    BY <1>7, <2>2, <2>4, ZenonT(40) DEF Drops
  <2> QED
    BY <1>7, <2>1, <2>2, <2>3, <2>5 DEF UserSide, HalfWay, Moves
<1>8. ASSUME NEW p \in Callers, UnsubTopic(p) \/ UnsubAllTopics(p) PROVE Goal
  <2>1. {call[p].id} \in SUBSET TopicIds /\ TopicIds \in SUBSET TopicIds
    BY <1>0
  <2>2. HalfWay(p, u, id) => id \in {call[p].id} /\ id \in TopicIds
    BY DEF HalfWay
  <2> QED
    BY <1>7, <1>8, <2>1, <2>2, UnsubTopicDoes, UnsubAllTopicsDoes
<1>9. CASE UNCHANGED <<topics, objects, subTopics, call>>
  BY <1>9 DEF UserSide, HalfWay
<1> QED
  BY <1>1, <1>3, <1>4, <1>5, <1>6, <1>8, <1>9, TakeDoes, DeliverDoes DEF Next, Rest, vars

\* The invariant under UserSideIsServed.
Served == Typed /\ PlaceOfOp /\ OneId /\ UserSide

\* At the start no user sees a topic and no call holds one; the topics are
\* different.
LEMMA InitIs ==
    ASSUME Init
    PROVE  /\ Typed /\ subscribed = {} /\ queue = <<>> /\ start = NoMsg
           /\ \A u \in Users, id \in TopicIds : subTopics[u][id] = 0
           /\ \A p \in Callers : call[p].pc = "idle" /\ call[p].topic = 0
           /\ \A i, j \in TopicIds : topics[i] = topics[j] /\ topics[i] # 0 => i = j
           /\ \A o \in 1..Len(objects) : objects[o].subUsers = {}
<1>1. Typed
  BY InitType, TypeIsTyped
<1>2. \A p \in Callers : call[p].pc = "idle" /\ call[p].topic = 0
  <2> SUFFICES ASSUME NEW p \in Callers PROVE call[p].pc = "idle" /\ call[p].topic = 0
    OBVIOUS
  <2>1. call[p] = [pc |-> "idle", op |-> "sub", topic |-> 0,
                   user |-> CHOOSE u \in Users : TRUE,
                   id |-> CHOOSE id \in TopicIds : TRUE]
    BY DEF Init
  <2> QED
    BY <2>1
<1>3. \A i, j \in TopicIds : topics[i] = topics[j] /\ topics[i] # 0 => i = j
  BY DEF Init
<1>4. \A o \in 1..Len(objects) : objects[o].subUsers = {}
  <2>1. DOMAIN objects = 1..Len(objects)
    BY <1>1, LenProperties DEF Typed
  <2>2. \A o \in DOMAIN objects : objects[o] = NewTopic
    BY DEF Init
  <2> QED
    BY <2>1, <2>2 DEF NewTopic
<1> QED
  BY <1>1, <1>2, <1>3, <1>4 DEF Init

LEMMA InitServed == Init => Served
<1> SUFFICES ASSUME Init PROVE Served
  OBVIOUS
<1>1. OneId
  BY InitIs DEF OneId, Knows
<1> QED
  BY <1>1, InitIs DEF Served, PlaceOfOp, UserSide

LEMMA ServedStep == Served /\ [Next]_vars => Served'
  BY TypeIsTyped, TypeStep, PlaceStep, OneIdStep, UserSideStep DEF Served

\* For every number of users, topics and callers, and for every interleaving
\* of their calls: the topics a user without calls under way sees in its
\* SubTopics hold the user.
THEOREM UserSideCorrect == Spec => []UserSideIsServed
<1>1. Served => UserSideIsServed
  BY DEF Served, PlaceOfOp, UserSide, UserSideIsServed, Quiet, HalfWay
<1> QED
  BY <1>1, InitServed, ServedStep, PTL DEF Spec

-----------------------------------------------------------------------------
(* The two sides agree.                                                     *)

\* A user that is alone has one call at a time.
LEMMA OneCall ==
    ASSUME PlaceOfOp, NEW p \in Callers, NEW q \in Callers, Alone(call[p].user),
           call[p].pc # "idle", call[q].pc # "idle", call[q].user = call[p].user
    PROVE  p = q
  BY DEF PlaceOfOp, Alone

\* A step that is none of the user's for this topic, and that leaves its sides
\* as they are.
LEMMA Elsewhere ==
    ASSUME NEW u \in Users, NEW id \in TopicIds, Agrees(u, id), topics'[id] = topics[id],
           subTopics'[u][id] = subTopics[u][id],
           topics[id] # 0 => (Serves(u, id)' <=> Serves(u, id)),
           \A q \in Callers : call'[q] = call[q] \/ call'[q].pc \notin Holding \/
               ~(call'[q].user = u /\ call'[q].id = id) \/
               (/\ call[q].user = u /\ call[q].id = id
                /\ call'[q].pc = call[q].pc /\ call'[q].topic = call[q].topic),
           \A q \in Callers :
               call[q].pc \in {"adduser", "untopic"} /\ call[q].user = u /\ call[q].id = id =>
               call'[q].pc = call[q].pc /\ call'[q].user = u /\ call'[q].id = id
    PROVE  Agrees(u, id)'
<1>1. \A places \in SUBSET Holding : In(u, id, places)' \subseteq In(u, id, places)
  BY DEF In
<1>2. In(u, id, {"adduser", "untopic"}) \subseteq In(u, id, {"adduser", "untopic"})'
  BY DEF In
<1>3. \A q \in In(u, id, Holding)' : call'[q].topic = call[q].topic
  BY DEF In
<1>4. {"adduser", "untopic"} \in SUBSET Holding /\ {"adduser"} \in SUBSET Holding
      /\ {"untopic"} \in SUBSET Holding /\ Holding \in SUBSET Holding
  BY DEF Holding
<1>5. Between(u, id)'
  BY <1>2 DEF Agrees, Between, Sees
<1>6. Replaced(u, id)'
  BY <1>1, <1>3, <1>4 DEF Agrees, Replaced, Sees
<1>7. UnsubHalf(u, id)'
  BY <1>1, <1>4 DEF Agrees, UnsubHalf
<1>8. SubHalf(u, id)'
  <2>1. \A q \in In(u, id, {"adduser"})' : q \in In(u, id, Holding)'
    BY DEF In, Holding
  <2> QED
    BY <1>1, <1>3, <1>4, <2>1 DEF Agrees, SubHalf
<1> QED
  BY <1>5, <1>6, <1>7, <1>8 DEF Agrees

LEMMA AgreesStep ==
    ASSUME Typed, PlaceOfOp, OneId, [Next]_vars,
           NEW u \in Users, NEW id \in TopicIds, Alone(u), Agrees(u, id)
    PROVE  Agrees(u, id)'
<1> DEFINE Mine(p) == call[p].user = u /\ call[p].id = id
<1>0. \A p \in Callers : call[p].id \in TopicIds /\ call[p].user \in Users
  BY DEF Typed, State
\* The stored topic is not one of another id.
<1>a. ASSUME topics[id] # 0
      PROVE  /\ topics[id] \in 1..Len(objects)
             /\ \A i \in TopicIds : Knows(i, topics[id]) => i = id
  BY <1>a, StoredIsKnown DEF OneId
\* The only call of the user.
<1>b. ASSUME NEW p \in Callers, call[p].pc # "idle", call[p].user = u,
             NEW q \in Callers, call[q].pc # "idle", call[q].user = u
      PROVE  q = p
  BY <1>b, OneCall
<1>1. ASSUME NEW p \in Callers, Call(p) PROVE Agrees(u, id)'
  <2>1. /\ UNCHANGED <<topics, objects, subTopics>> /\ call[p].pc = "idle"
        /\ call'[p].pc \in {"unall", "load"}
        /\ \A q \in Callers \ {p} : call'[q] = call[q]
    BY <1>1, CallDoes DEF Begins
  <2> QED
    BY <2>1, Elsewhere DEF Holding, Serves
<1>2. ASSUME NEW p \in Callers, Load(p) PROVE Agrees(u, id)'
  <2>1. PICK pc \in {"idle", "remove", "create", "do"} :
          /\ UNCHANGED <<topics, objects, subTopics>> /\ call[p].pc = "load"
          /\ Moves(p, pc, topics[call[p].id])
    BY <1>2, LoadDoes
  <2>2. /\ In(u, id, {"adduser", "untopic"})' = In(u, id, {"adduser", "untopic"})
        /\ In(u, id, {"adduser"})' = In(u, id, {"adduser"})
        /\ In(u, id, {"untopic"})' = In(u, id, {"untopic"})
        /\ \A q \in In(u, id, Holding)' : q = p \/ q \in In(u, id, Holding)
    BY <2>1 DEF In, Moves, Holding
  <2>3. /\ \A q \in In(u, id, {"adduser"}) : call'[q].topic = call[q].topic
        /\ \A q \in In(u, id, Holding)' :
             call'[q].topic # topics[id] => call'[q].topic = call[q].topic /\ q \in In(u, id, Holding)
    BY <2>1, <2>2 DEF In, Moves
  <2>4. (Serves(u, id)' <=> Serves(u, id)) /\ (Sees(u, id)' <=> Sees(u, id))
    BY <2>1 DEF Serves, Sees
  <2> QED
    BY <2>1, <2>2, <2>3, <2>4 DEF Agrees, Between, Replaced, UnsubHalf, SubHalf
<1>3. ASSUME NEW p \in Callers, Create(p) PROVE Agrees(u, id)'
  <2> DEFINE n == Len(objects)
  <2>1. /\ call[p].pc = "create" /\ UNCHANGED subTopics /\ n \in Nat
        /\ \A o \in 1..n : objects'[o] = objects[o]
        /\ objects'[n + 1].subUsers = {} /\ Moves(p, "do", n + 1)
        /\ \A i \in TopicIds : topics'[i] = IF i = call[p].id THEN n + 1 ELSE topics[i]
    BY <1>3, CreateDoes
  <2>2. CASE id = call[p].id
    <3>1. topics'[id] = n + 1 /\ subTopics'[u][id] \in 0..n
      BY <2>1, <2>2 DEF Typed
    <3>2. ~Serves(u, id)' /\ ~Sees(u, id)'
      BY <2>1, <3>1 DEF Serves, Sees
    <3>3. \A q \in In(u, id, {"adduser"})' :
            q \in In(u, id, {"adduser"}) /\ call'[q].topic = call[q].topic
      BY <2>1 DEF In, Moves
    <3> QED
      BY <2>1, <3>2, <3>3 DEF Agrees, Between, Replaced, UnsubHalf, SubHalf
  <2>3. CASE id # call[p].id
    <3>1. topics'[id] = topics[id] /\ subTopics'[u][id] = subTopics[u][id]
      BY <2>1, <2>3
    <3>2. topics[id] # 0 => (Serves(u, id)' <=> Serves(u, id))
      BY <1>a, <2>1, <3>1 DEF Serves
    <3> QED
      BY <2>1, <2>3, <3>1, <3>2, Elsewhere DEF Moves
  <2> QED
    BY <2>2, <2>3
<1>4. ASSUME NEW p \in Callers, AddSubTopic(p) PROVE Agrees(u, id)'
  <2>1. /\ UNCHANGED <<topics, objects>> /\ At(p, "do", "sub")
        /\ Moves(p, "adduser", call[p].topic)
        /\ \A v \in Users, i \in TopicIds : subTopics'[v][i] =
             IF v = call[p].user /\ i = call[p].id THEN call[p].topic ELSE subTopics[v][i]
    BY <1>4, AddSubTopicDoes
  <2>2. Serves(u, id)' <=> Serves(u, id)
    BY <2>1 DEF Serves
  <2>3. CASE Mine(p)
    <3>1. /\ subTopics'[u][id] = call[p].topic /\ call'[p].topic = call[p].topic
          /\ p \in In(u, id, Holding) /\ p \in In(u, id, {"adduser", "untopic"})'
      BY <2>1, <2>3 DEF In, Moves, At, Holding
    <3>2. \A q \in In(u, id, Holding)' : q = p
      BY <1>b, <2>1, <2>3 DEF In, Moves, At, Holding
    <3>3. \A q \in In(u, id, {"adduser"})' : q \in In(u, id, Holding)'
      BY DEF In, Holding
    <3>4. In(u, id, {"untopic"})' = {}
      <4>1. \A q \in In(u, id, {"untopic"})' : q = p /\ call'[q].pc = "untopic"
        BY <3>2 DEF In, Holding
      <4> QED
        BY <2>1, <4>1 DEF Moves
    <3>5. topics[id] # 0 /\ call[p].topic # topics[id] => ~Serves(u, id)' /\ ~Sees(u, id)'
      BY <2>1, <2>2, <3>1 DEF Agrees, Replaced, Sees
    <3> QED
      BY <2>1, <3>1, <3>2, <3>3, <3>4, <3>5 DEF Agrees, Between, Replaced, UnsubHalf, SubHalf
  <2>4. CASE ~Mine(p)
    <3>1. subTopics'[u][id] = subTopics[u][id]
      BY <2>1, <2>4
    <3> QED
      BY <2>1, <2>2, <2>4, <3>1, Elsewhere DEF Moves
  <2> QED
    BY <2>3, <2>4
<1>5. ASSUME NEW p \in Callers, AddSubUser(p) PROVE Agrees(u, id)'
  <2>1. /\ UNCHANGED <<topics, subTopics>> /\ At(p, "adduser", "sub")
        /\ Moves(p, "idle", call[p].topic)
        /\ \A o \in 1..Len(objects) : objects'[o].subUsers =
             IF o = call[p].topic THEN objects[o].subUsers \union {call[p].user}
             ELSE objects[o].subUsers
    BY <1>5, AddSubUserDoes
  <2>2. CASE Mine(p)
    <3>1. \A places \in SUBSET Holding : In(u, id, places)' = {}
      BY <1>b, <2>1, <2>2 DEF In, Moves, At, Holding
    <3>2. p \in In(u, id, Holding) /\ p \in In(u, id, {"adduser"})
      BY <2>1, <2>2 DEF In, At, Holding
    <3>3. subTopics[u][id] = call[p].topic
      BY <3>2 DEF Agrees, SubHalf
    <3>4. topics[id] # 0 => (Serves(u, id)' <=> Sees(u, id)')
      <4> SUFFICES ASSUME topics[id] # 0 PROVE Serves(u, id)' <=> Sees(u, id)'
        OBVIOUS
      <4>1. CASE call[p].topic = topics[id]
        BY <1>a, <2>1, <2>2, <3>3, <4>1 DEF Serves, Sees
      <4>2. CASE call[p].topic # topics[id]
        <5>1. ~Serves(u, id) /\ ~Sees(u, id)
          BY <3>2, <4>2 DEF Agrees, Replaced
        <5> QED
          BY <1>a, <2>1, <4>2, <5>1 DEF Serves, Sees
      <4> QED
        BY <4>1, <4>2
    <3>5. {"adduser"} \in SUBSET Holding /\ {"untopic"} \in SUBSET Holding
          /\ Holding \in SUBSET Holding
      BY DEF Holding
    <3> QED
      BY <2>1, <3>1, <3>4, <3>5 DEF Agrees, Between, Replaced, UnsubHalf, SubHalf
  <2>3. CASE ~Mine(p)
    <3>1. topics[id] # 0 => (Serves(u, id)' <=> Serves(u, id))
      <4> SUFFICES ASSUME topics[id] # 0 PROVE Serves(u, id)' <=> Serves(u, id)
        OBVIOUS
      <4>1. u = call[p].user => call[p].topic # topics[id]
        BY <1>0, <1>a, <2>3 DEF Knows
      <4> QED
        BY <1>a, <2>1, <4>1 DEF Serves
    <3> QED
      BY <2>1, <2>3, <3>1, Elsewhere DEF Moves
  <2> QED
    BY <2>2, <2>3
<1>6. ASSUME NEW p \in Callers, AddSubHandle(p) \/ Enqueue(p) PROVE Agrees(u, id)'
  <2>1. /\ UNCHANGED <<topics, subTopics>> /\ call[p].pc = "do" /\ Moves(p, "idle", call[p].topic)
        /\ \A o \in 1..Len(objects) : objects'[o].subUsers = objects[o].subUsers
    BY <1>6, AddSubHandleDoes, EnqueueDoes DEF At
  <2>2. topics[id] # 0 => (Serves(u, id)' <=> Serves(u, id))
    BY <1>a, <2>1 DEF Serves
  <2> QED
    BY <2>1, <2>2, Elsewhere DEF Moves, Holding
<1>7. ASSUME NEW p \in Callers, RemoveSubUser(p) PROVE Agrees(u, id)'
  <2>1. /\ UNCHANGED <<topics, subTopics>> /\ At(p, "remove", "unsub")
        /\ Moves(p, "untopic", call[p].topic)
        /\ \A o \in 1..Len(objects) : objects'[o].subUsers =
             IF o = call[p].topic THEN objects[o].subUsers \ {call[p].user}
             ELSE objects[o].subUsers
    BY <1>7, RemoveSubUserDoes
  <2>2. CASE Mine(p)
    <3>1. p \in In(u, id, Holding) /\ p \in In(u, id, {"adduser", "untopic"})'
      BY <2>1, <2>2 DEF In, Moves, At, Holding
    <3>2. \A q \in In(u, id, Holding)' : q = p
      BY <1>b, <2>1, <2>2 DEF In, Moves, At, Holding
    <3>3. In(u, id, {"adduser"})' = {}
      <4>1. \A q \in In(u, id, {"adduser"})' : q = p /\ call'[q].pc = "adduser"
        BY <3>2 DEF In, Holding
      <4> QED
        BY <2>1, <4>1 DEF Moves
    <3>4. topics[id] # 0 => ~Serves(u, id)'
      <4> SUFFICES ASSUME topics[id] # 0 PROVE ~Serves(u, id)'
        OBVIOUS
      <4>1. CASE call[p].topic = topics[id]
        BY <1>a, <2>1, <2>2, <4>1 DEF Serves
      <4>2. CASE call[p].topic # topics[id]
        <5>1. ~Serves(u, id)
          BY <3>1, <4>2 DEF Agrees, Replaced
        <5> QED
          BY <1>a, <2>1, <4>2, <5>1 DEF Serves
      <4> QED
        BY <4>1, <4>2
    <3>5. topics[id] # 0 /\ call[p].topic # topics[id] => ~Sees(u, id)'
      BY <2>1, <3>1 DEF Agrees, Replaced, Sees
    <3>6. call'[p].topic = call[p].topic
      BY <2>1 DEF Moves
    <3> QED
      BY <2>1, <3>1, <3>2, <3>3, <3>4, <3>5, <3>6
      DEF Agrees, Between, Replaced, UnsubHalf, SubHalf
  <2>3. CASE ~Mine(p)
    <3>1. topics[id] # 0 => (Serves(u, id)' <=> Serves(u, id))
      <4> SUFFICES ASSUME topics[id] # 0 PROVE Serves(u, id)' <=> Serves(u, id)
        OBVIOUS
      <4>1. u = call[p].user => call[p].topic # topics[id]
        BY <1>0, <1>a, <2>3 DEF Knows
      <4> QED
        BY <1>a, <2>1, <4>1 DEF Serves
    <3> QED
      BY <2>1, <2>3, <3>1, Elsewhere DEF Moves
  <2> QED
    BY <2>2, <2>3
<1>8. ASSUME NEW p \in Callers, NEW ids \in SUBSET TopicIds,
             \/ At(p, "untopic", "unsub") /\ ids = {call[p].id}
             \/ At(p, "unall", "unsuball") /\ ids = TopicIds,
             Moves(p, "idle", call[p].topic), UNCHANGED topics, Drops(call[p].user, ids)
      PROVE  Agrees(u, id)'
  <2>1. CASE u # call[p].user
    <3>1. subTopics'[u][id] = subTopics[u][id]
      BY <1>8, <2>1 DEF Drops
    <3>2. topics[id] # 0 => (Serves(u, id)' <=> Serves(u, id))
      BY <1>8, <1>a, <2>1, ZenonT(40) DEF Serves, Drops
    <3> QED
      BY <1>8, <2>1, <3>1, <3>2, Elsewhere DEF Moves
  <2>2. CASE u = call[p].user
    <3>1. \A places \in SUBSET Holding : In(u, id, places)' = {}
      BY <1>8, <1>b, <2>2 DEF In, Moves, At, Holding
    <3>2. {"adduser"} \in SUBSET Holding /\ {"untopic"} \in SUBSET Holding
          /\ Holding \in SUBSET Holding
      BY DEF Holding
    <3>3. \A q \in In(u, id, {"adduser", "untopic"}) : q \in In(u, id, {"untopic"}) /\ id \in ids
      <4> SUFFICES ASSUME NEW q \in In(u, id, {"adduser", "untopic"})
                   PROVE  q \in In(u, id, {"untopic"}) /\ id \in ids
        OBVIOUS
      <4>1. q = p
        BY <1>8, <1>b, <2>2 DEF In, At
      <4> QED
        BY <1>8, <4>1 DEF In, At
    <3>4. topics[id] # 0 => (Serves(u, id)' <=> Sees(u, id)')
      <4> SUFFICES ASSUME topics[id] # 0 PROVE Serves(u, id)' <=> Sees(u, id)'
        OBVIOUS
      <4>1. topics'[id] = topics[id] /\ topics[id] \in 1..Len(objects)
        BY <1>8, <1>a
      <4>2. CASE id \in ids
        <5>1. ~Sees(u, id)'
          BY <1>8, <2>2, <4>1, <4>2 DEF Drops, Sees
        <5>2. Serves(u, id)' => Serves(u, id) /\ ~Sees(u, id)
          BY <1>8, <2>2, <4>1, <4>2, ZenonT(40) DEF Drops, Serves, Sees
        <5>3. ~(Serves(u, id) /\ ~Sees(u, id))
          BY <3>3 DEF Agrees, Between, UnsubHalf
        <5> QED
          BY <5>1, <5>2, <5>3
      <4>3. CASE id \notin ids
        <5>1. Serves(u, id) <=> Sees(u, id)
          BY <3>3, <4>3 DEF Agrees, Between
        <5>2. Sees(u, id)' <=> Sees(u, id)
          BY <1>8, <4>1, <4>3 DEF Drops, Sees
        <5>3. \A i \in ids : subTopics[u][i] # topics[id]
          BY <1>a, <4>3 DEF Knows
        <5>4. Serves(u, id)' <=> Serves(u, id)
          BY <1>8, <2>2, <4>1, <5>3 DEF Drops, Serves
        <5> QED
          BY <5>1, <5>2, <5>4
      <4> QED
        BY <4>2, <4>3
    <3> QED
      BY <1>8, <3>1, <3>2, <3>4 DEF Agrees, Between, Replaced, UnsubHalf, SubHalf
  <2> QED
    BY <2>1, <2>2
<1>9. ASSUME NEW p \in Callers, UnsubTopic(p) \/ UnsubAllTopics(p) PROVE Agrees(u, id)'
  <2>1. {call[p].id} \in SUBSET TopicIds /\ TopicIds \in SUBSET TopicIds
    BY <1>0
  <2> QED
    BY <1>8, <1>9, <2>1, UnsubTopicDoes, UnsubAllTopicsDoes
<1>10. CASE UNCHANGED <<topics, objects, subTopics, call>>
  BY <1>10, Elsewhere DEF Serves
<1> QED
  BY <1>1, <1>2, <1>3, <1>4, <1>5, <1>6, <1>7, <1>9, <1>10, TakeDoes, DeliverDoes
  DEF Next, Rest, vars

BothAgree == Served /\ Agreement

LEMMA InitBothAgree == Init => BothAgree
  BY InitServed, InitIs, StoredIsKnown
  DEF BothAgree, Agreement, Agrees, Between, Replaced, UnsubHalf, SubHalf, In, Serves, Sees, Holding

LEMMA BothAgreeStep == BothAgree /\ [Next]_vars => BothAgree'
  BY ServedStep, AgreesStep DEF BothAgree, Served, Agreement, Alone

\* For every number of users, topics and callers: a user whose calls come one
\* after the other is held by the stored topic exactly when it sees that topic
\* in its SubTopics, although another caller's initTopic may have replaced the
\* topic between any two steps.
THEOREM BothSidesCorrect == Spec => []BothSidesAgree
<1>1. BothAgree => BothSidesAgree
  <2> SUFFICES ASSUME BothAgree, NEW u \in Users, Alone(u), Quiet(u), NEW id \in TopicIds,
                      topics[id] # 0
               PROVE  Serves(u, id) <=> Sees(u, id)
    BY DEF BothSidesAgree, Serves, Sees
  <2>1. In(u, id, {"adduser", "untopic"}) = {}
    BY DEF In, Quiet
  <2> QED
    BY <2>1 DEF BothAgree, Agreement, Agrees, Between
<1> QED
  BY <1>1, InitBothAgree, BothAgreeStep, PTL DEF Spec

-----------------------------------------------------------------------------
(* Subscribers are served.                                                  *)

LEMMA LeaversStep ==
    Typed /\ LeaversOwedNothing /\ [Next]_vars => LeaversOwedNothing'
<1> SUFFICES ASSUME Typed, LeaversOwedNothing, [Next]_vars PROVE LeaversOwedNothing'
  OBVIOUS
<1>1. ASSUME NEW p \in Callers, Call(p) PROVE LeaversOwedNothing'
  <2>1. PICK op \in Ops[p], u \in Acts[p], id \in TopicIds : Begins(p, op, u, id)
    BY <1>1, CallDoes
  <2>2. subscribed' \subseteq subscribed
    BY <2>1 DEF Begins, Forget
  <2>3. ASSUME NEW q \in Callers, q # p, call'[q].pc # "idle"
        PROVE  /\ call'[q].op = "unsub" => <<call'[q].user, call'[q].id>> \notin subscribed'
               /\ call'[q].op = "unsuball" =>
                    \A i \in TopicIds : <<call'[q].user, i>> \notin subscribed'
    BY <2>1, <2>2, <2>3 DEF Begins, LeaversOwedNothing
  <2>4. /\ op = "unsub" => <<u, id>> \notin subscribed'
        /\ op = "unsuball" => \A i \in TopicIds : <<u, i>> \notin subscribed'
    BY <2>1 DEF Begins, Forget
  <2> QED
    BY <2>1, <2>3, <2>4 DEF Begins, LeaversOwedNothing
<1>2. ASSUME NEW p \in Callers, NEW pc, NEW t, Moves(p, pc, t), call[p].pc # "idle",
             UNCHANGED subscribed
      PROVE  LeaversOwedNothing'
  BY <1>2 DEF Moves, LeaversOwedNothing
<1>3. ASSUME NEW p \in Callers,
             \/ Load(p) \/ Create(p) \/ AddSubTopic(p) \/ AddSubHandle(p) \/ Enqueue(p)
             \/ RemoveSubUser(p) \/ UnsubTopic(p) \/ UnsubAllTopics(p)
      PROVE  LeaversOwedNothing'
  BY <1>2, <1>3, LoadDoes, CreateDoes, AddSubTopicDoes, AddSubHandleDoes, EnqueueDoes,
     RemoveSubUserDoes, UnsubTopicDoes, UnsubAllTopicsDoes DEF At
<1>4. ASSUME NEW p \in Callers, AddSubUser(p) PROVE LeaversOwedNothing'
  <2>1. /\ At(p, "adduser", "sub") /\ Moves(p, "idle", call[p].topic)
        /\ subscribed' = IF Leaving(call[p].user) THEN subscribed
                         ELSE subscribed \union {<<call[p].user, call[p].id>>}
    BY <1>4, AddSubUserDoes
  <2>2. CASE Leaving(call[p].user)
    BY <1>2, <2>1, <2>2 DEF At
  <2>3. CASE ~Leaving(call[p].user)
    <3>1. \A q \in Callers : call[q].pc # "idle" /\ call[q].op \in {"unsub", "unsuball"} =>
            call[q].user # call[p].user
      BY <2>3 DEF Leaving
    <3> QED
      BY <2>1, <2>3, <3>1 DEF Moves, LeaversOwedNothing
  <2> QED
    BY <2>2, <2>3
<1>5. CASE UNCHANGED <<call, subscribed>>
  BY <1>5 DEF LeaversOwedNothing
<1> QED
  BY <1>1, <1>3, <1>4, <1>5, TakeDoes, DeliverDoes DEF Next, Rest, vars

\* If a Create leaves no topic replaced, none was and it made the first one.
LEMMA NoneReplacedBefore ==
    ASSUME Typed, OneId, [Next]_vars, NoneReplaced'
    PROVE  /\ NoneReplaced
           /\ \A p \in Callers : Create(p) => topics[call[p].id] = 0
<1>0. Len(objects) \in Nat /\ DOMAIN objects = 1..Len(objects)
      /\ \A p \in Callers : call[p].id \in TopicIds
  BY LenProperties DEF Typed, State
<1>1. Typed'
  BY TypeStep, TypeIsTyped
<1>2. DOMAIN objects' = 1..Len(objects')
  BY <1>1, LenProperties DEF Typed
<1>3. ASSUME NEW p \in Callers, Create(p) PROVE NoneReplaced /\ topics[call[p].id] = 0
  <2> DEFINE n == Len(objects)
  <2>1. /\ Len(objects') = n + 1
        /\ \A i \in TopicIds : topics'[i] = IF i = call[p].id THEN n + 1 ELSE topics[i]
    BY <1>3, CreateDoes
  <2>2. ASSUME NEW o \in 1..n PROVE \E i \in TopicIds : i # call[p].id /\ topics[i] = o
    <3>1. o \in 1..(n + 1) /\ o # n + 1
      BY <1>0
    <3>2. PICK i \in TopicIds : topics'[i] = o
      BY <1>2, <2>1, <3>1 DEF NoneReplaced
    <3> QED
      BY <2>1, <3>1, <3>2
  <2>3. topics[call[p].id] = 0
    <3> SUFFICES ASSUME topics[call[p].id] # 0 PROVE FALSE
      OBVIOUS
    <3>1. topics[call[p].id] \in 1..n /\ Knows(call[p].id, topics[call[p].id])
      BY <1>0, StoredIsKnown
    <3>2. PICK i \in TopicIds : i # call[p].id /\ topics[i] = topics[call[p].id]
      BY <2>2, <3>1
    <3>3. Knows(i, topics[call[p].id])
      BY <3>2 DEF Knows
    <3> QED
      BY <1>0, <3>1, <3>2, <3>3 DEF OneId
  <2> QED
    BY <1>0, <2>2, <2>3 DEF NoneReplaced
<1>4. ASSUME UNCHANGED topics, Len(objects') = Len(objects) PROVE NoneReplaced
  BY <1>0, <1>2, <1>4 DEF NoneReplaced
<1>5. ASSUME NEW p \in Callers,
             \/ Call(p) \/ Load(p) \/ AddSubTopic(p) \/ AddSubUser(p) \/ AddSubHandle(p)
             \/ Enqueue(p) \/ RemoveSubUser(p) \/ UnsubTopic(p) \/ UnsubAllTopics(p)
      PROVE  NoneReplaced
  BY <1>4, <1>5, CallDoes, LoadDoes, AddSubTopicDoes, AddSubUserDoes, AddSubHandleDoes,
     EnqueueDoes, RemoveSubUserDoes, UnsubTopicDoes, UnsubAllTopicsDoes DEF Drops
<1>6. ASSUME Take \/ Deliver \/ Rest \/ UNCHANGED vars PROVE NoneReplaced
  <2>1. UNCHANGED topics /\ UNCHANGED objects
    BY <1>6, TakeDoes, DeliverDoes DEF Rest, vars
  <2>2. Len(objects') = Len(objects)
    BY <2>1
  <2> QED
    BY <1>4, <2>1, <2>2
<1>7. NoneReplaced
  BY <1>3, <1>5, <1>6 DEF Next
<1> QED
  BY <1>3, <1>7

Holds(e) == topics[e[2]] # 0 /\ e[1] \in objects[topics[e[2]]].subUsers

LEMMA SubscribedStep ==
    ASSUME Typed, PlaceOfOp, OneId, LeaversOwedNothing, SubscribedAreServed, [Next]_vars
    PROVE  SubscribedAreServed'
<1> SUFFICES ASSUME NoneReplaced', NEW e \in subscribed' PROVE Holds(e)'
  BY DEF SubscribedAreServed, Holds
<1>0. /\ NoneReplaced /\ \A p \in Callers : Create(p) => topics[call[p].id] = 0
      /\ \A p \in Callers : call[p].id \in TopicIds /\ call[p].user \in Users
      /\ DOMAIN objects = 1..Len(objects)
  BY NoneReplacedBefore, LenProperties DEF Typed, State
<1>1. /\ e \in Users \X TopicIds /\ e[1] \in Users /\ e[2] \in TopicIds /\ e = <<e[1], e[2]>>
  <2>1. subscribed' \subseteq Users \X TopicIds
    BY TypeStep, TypeIsTyped DEF Typed
  <2> QED
    BY <2>1
<1>2. ASSUME e \in subscribed
      PROVE  /\ Holds(e) /\ topics[e[2]] \in 1..Len(objects)
             /\ \A i \in TopicIds : Knows(i, topics[e[2]]) => i = e[2]
  <2>1. Holds(e)
    BY <1>0, <1>2 DEF SubscribedAreServed, Holds
  <2>2. topics[e[2]] \in 1..Len(objects) /\ Knows(e[2], topics[e[2]])
    BY <1>1, <2>1, StoredIsKnown DEF Holds
  <2> QED
    BY <1>1, <2>1, <2>2 DEF OneId
<1>3. ASSUME UNCHANGED topics, e \in subscribed,
             \A o \in 1..Len(objects) : objects[o].subUsers \subseteq objects'[o].subUsers
      PROVE  Holds(e)'
  BY <1>2, <1>3 DEF Holds
<1>4. ASSUME NEW p \in Callers, Call(p) PROVE Holds(e)'
  <2>1. UNCHANGED <<topics, objects>> /\ subscribed' \subseteq subscribed
    BY <1>4, CallDoes DEF Begins, Forget
  <2> QED
    BY <1>3, <2>1
<1>5. ASSUME NEW p \in Callers, Load(p) \/ AddSubTopic(p) \/ AddSubHandle(p) \/ Enqueue(p)
      PROVE  Holds(e)'
  BY <1>3, <1>5, LoadDoes, AddSubTopicDoes, AddSubHandleDoes, EnqueueDoes
<1>6. ASSUME NEW p \in Callers, Create(p) PROVE Holds(e)'
  <2>1. /\ UNCHANGED subscribed /\ \A o \in 1..Len(objects) : objects'[o] = objects[o]
        /\ \A i \in TopicIds : i # call[p].id => topics'[i] = topics[i]
    BY <1>6, CreateDoes
  <2>2. e[2] # call[p].id
    BY <1>0, <1>2, <1>6, <2>1 DEF Holds
  <2> QED
    BY <1>1, <1>2, <2>1, <2>2 DEF Holds
<1>7. ASSUME NEW p \in Callers, AddSubUser(p) PROVE Holds(e)'
  <2>1. /\ UNCHANGED topics /\ At(p, "adduser", "sub")
        /\ \A o \in 1..Len(objects) : objects'[o].subUsers =
             IF o = call[p].topic THEN objects[o].subUsers \union {call[p].user}
             ELSE objects[o].subUsers
        /\ subscribed' = IF Leaving(call[p].user) THEN subscribed
                         ELSE subscribed \union {<<call[p].user, call[p].id>>}
    BY <1>7, AddSubUserDoes
  <2>2. CASE e \in subscribed
    BY <1>3, <2>1, <2>2
  <2>3. CASE e \notin subscribed
    <3>1. e[1] = call[p].user /\ e[2] = call[p].id
      BY <2>1, <2>3
    <3>2. call[p].topic \in 1..Len(objects) /\ Knows(call[p].id, call[p].topic)
      BY <2>1, HeldIsKnown DEF At, Holding
    <3>3. PICK i \in TopicIds : topics[i] = call[p].topic
      BY <1>0, <3>2 DEF NoneReplaced
    <3>4. i = call[p].id
      BY <1>0, <3>2, <3>3 DEF OneId, Knows
    <3>5. topics[e[2]] = call[p].topic /\ call[p].topic # 0
      BY <3>1, <3>2, <3>3, <3>4
    <3>6. call[p].user \in objects'[call[p].topic].subUsers
      BY <2>1, <3>2
    <3> QED
      BY <2>1, <3>1, <3>5, <3>6 DEF Holds
  <2> QED
    BY <2>2, <2>3
\* Who is removed is leaving, and not subscribed.
<1>8. ASSUME UNCHANGED <<topics, subscribed>>, NEW p \in Callers, call[p].pc # "idle",
             \/ call[p].op = "unsuball"
             \/ call[p].op = "unsub" /\ \A o \in 1..Len(objects) :
                  objects'[o].subUsers # objects[o].subUsers => Knows(call[p].id, o),
             \A o \in 1..Len(objects) :
                objects[o].subUsers \ {call[p].user} \subseteq objects'[o].subUsers
      PROVE  Holds(e)'
  <2>1. e \in subscribed
    BY <1>8
  <2>2. CASE e[1] # call[p].user
    BY <1>2, <1>8, <2>1, <2>2 DEF Holds
  <2>3. CASE e[1] = call[p].user
    <3>1. call[p].op = "unsub" /\ e[2] # call[p].id
      BY <1>1, <1>8, <2>1, <2>3 DEF LeaversOwedNothing
    <3>2. objects'[topics[e[2]]].subUsers = objects[topics[e[2]]].subUsers
      BY <1>0, <1>2, <1>8, <2>1, <3>1
    <3> QED
      BY <1>2, <1>8, <2>1, <3>2 DEF Holds
  <2> QED
    BY <2>2, <2>3
<1>9. ASSUME NEW p \in Callers, RemoveSubUser(p) PROVE Holds(e)'
  <2>1. /\ UNCHANGED <<topics, subscribed>> /\ At(p, "remove", "unsub")
        /\ \A o \in 1..Len(objects) : objects'[o].subUsers =
             IF o = call[p].topic THEN objects[o].subUsers \ {call[p].user}
             ELSE objects[o].subUsers
    BY <1>9, RemoveSubUserDoes
  <2>2. Knows(call[p].id, call[p].topic)
    BY DEF Knows
  <2> QED
    BY <1>8, <2>1, <2>2 DEF At
<1>10. ASSUME NEW p \in Callers, UnsubTopic(p) PROVE Holds(e)'
  <2>1. /\ UNCHANGED <<topics, subscribed>> /\ At(p, "untopic", "unsub")
        /\ Drops(call[p].user, {call[p].id})
    BY <1>10, UnsubTopicDoes
  <2>2. \A o \in 1..Len(objects) :
          objects'[o].subUsers # objects[o].subUsers => Knows(call[p].id, o)
    BY <1>0, <2>1, ZenonT(40) DEF Drops, Knows
  <2>3. \A o \in 1..Len(objects) :
          objects[o].subUsers \ {call[p].user} \subseteq objects'[o].subUsers
    BY <2>1 DEF Drops
  <2> QED
    BY <1>8, <2>1, <2>2, <2>3 DEF At
<1>11. ASSUME NEW p \in Callers, UnsubAllTopics(p) PROVE Holds(e)'
  <2>1. /\ UNCHANGED <<topics, subscribed>> /\ At(p, "unall", "unsuball")
        /\ Drops(call[p].user, TopicIds)
    BY <1>11, UnsubAllTopicsDoes
  <2>2. \A o \in 1..Len(objects) :
          objects[o].subUsers \ {call[p].user} \subseteq objects'[o].subUsers
    BY <2>1 DEF Drops
  <2> QED
    BY <1>8, <2>1, <2>2 DEF At
<1>12. CASE Take \/ Deliver \/ Rest \/ UNCHANGED vars
  BY <1>3, <1>12, TakeDoes, DeliverDoes DEF Rest, vars
<1> QED
  BY <1>4, <1>5, <1>6, <1>7, <1>9, <1>10, <1>11, <1>12 DEF Next

\* A step that begins no call and takes nothing off the queue only adds to
\* what is subscribed.
LEMMA SubscribedGrows ==
    ASSUME Typed, [Next]_vars, ~\E p \in Callers : Call(p)
    PROVE  subscribed \subseteq subscribed'
  BY LoadDoes, CreateDoes, AddSubTopicDoes, AddSubUserDoes, AddSubHandleDoes, EnqueueDoes,
     RemoveSubUserDoes, UnsubTopicDoes, UnsubAllTopicsDoes, TakeDoes, DeliverDoes
  DEF Next, Rest, vars

LEMMA QueueStep ==
    ASSUME Typed, QueueOwesSubscribed, [Next]_vars
    PROVE  QueueOwesSubscribed'
<1>0. DOMAIN queue = 1..Len(queue) /\ Len(queue) \in Nat
      /\ DOMAIN queue' = 1..Len(queue') /\ Len(queue') \in Nat
  BY TypeStep, TypeIsTyped, LenProperties DEF Typed
<1>1. ASSUME NEW p \in Callers, Call(p) PROVE QueueOwesSubscribed'
  <2>1. PICK op \in Ops[p], u \in Acts[p], id \in TopicIds : Begins(p, op, u, id)
    BY <1>1, CallDoes
  <2> QED
    BY <1>0, <2>1 DEF Begins, Forget, QueueOwesSubscribed
<1>2. ASSUME NEW p \in Callers, Enqueue(p) PROVE QueueOwesSubscribed'
  <2>1. /\ UNCHANGED subscribed /\ Len(queue') = Len(queue) + 1
        /\ \A i \in 1..Len(queue) : queue'[i] = queue[i]
        /\ queue'[Len(queue) + 1].id = call[p].id
        /\ queue'[Len(queue) + 1].owed = {u \in Users : <<u, call[p].id>> \in subscribed}
    BY <1>2, EnqueueDoes
  <2>2. \A i \in 1..Len(queue') : i \in 1..Len(queue) \/ i = Len(queue) + 1
    BY <1>0, <2>1
  <2> QED
    BY <1>0, <2>1, <2>2 DEF QueueOwesSubscribed
<1>3. CASE Take
  <2>1. /\ UNCHANGED subscribed /\ Len(queue') = Len(queue) - 1
        /\ \A i \in 1..Len(queue') : queue'[i] = queue[i + 1]
    BY <1>3, TakeDoes
  <2>2. \A i \in 1..Len(queue') : i + 1 \in 1..Len(queue)
    BY <1>0, <2>1
  <2> QED
    BY <1>0, <2>1, <2>2 DEF QueueOwesSubscribed
<1>4. ASSUME UNCHANGED queue, subscribed \subseteq subscribed' PROVE QueueOwesSubscribed'
  BY <1>4 DEF QueueOwesSubscribed
<1>5. ASSUME NEW p \in Callers,
             \/ Load(p) \/ Create(p) \/ AddSubTopic(p) \/ AddSubUser(p) \/ AddSubHandle(p)
             \/ RemoveSubUser(p) \/ UnsubTopic(p) \/ UnsubAllTopics(p)
      PROVE  QueueOwesSubscribed'
  BY <1>4, <1>5, LoadDoes, CreateDoes, AddSubTopicDoes, AddSubUserDoes, AddSubHandleDoes,
     RemoveSubUserDoes, UnsubTopicDoes, UnsubAllTopicsDoes DEF Acted
<1>6. CASE Deliver \/ Rest \/ UNCHANGED vars
  BY <1>4, <1>6, DeliverDoes DEF Rest, vars
<1> QED
  BY <1>1, <1>2, <1>3, <1>5, <1>6 DEF Next

LEMMA StartStep ==
    ASSUME Typed, OneId, SubscribedAreServed, QueueOwesSubscribed, StartOwesSubscribed,
           [Next]_vars
    PROVE  StartOwesSubscribed'
<1> SUFFICES ASSUME NoneReplaced', NEW v \in start'.owed
             PROVE  \E id \in TopicIds : <<v, id>> \in subscribed' /\ topics'[id] = start'.topic
  BY DEF StartOwesSubscribed
<1> DEFINE Goal == \E id \in TopicIds : <<v, id>> \in subscribed' /\ topics'[id] = start'.topic
<1>0. /\ NoneReplaced /\ \A p \in Callers : Create(p) => topics[call[p].id] = 0
      /\ \A e \in subscribed : topics[e[2]] # 0
  BY NoneReplacedBefore DEF SubscribedAreServed
<1>1. ASSUME NEW p \in Callers, Call(p) PROVE Goal
  <2>1. UNCHANGED topics
    BY <1>1, CallDoes
  <2>2. PICK op \in Ops[p], u \in Acts[p], id \in TopicIds : Begins(p, op, u, id)
    BY <1>1, CallDoes
  <2>3. v \in start.owed /\ start'.topic = start.topic
        /\ (op \in {"unsub", "unsuball"} => v # u)
    BY <2>2 DEF Begins
  <2>4. PICK i \in TopicIds : <<v, i>> \in subscribed /\ topics[i] = start.topic
    BY <1>0, <2>3 DEF StartOwesSubscribed
  <2>5. <<v, i>> \in subscribed'
    BY <2>2, <2>3, <2>4 DEF Begins, Forget
  <2> QED
    BY <2>1, <2>3, <2>4, <2>5
<1>2. ASSUME NEW p \in Callers, Create(p) PROVE Goal
  <2>1. /\ UNCHANGED <<start, subscribed>>
        /\ \A i \in TopicIds : i # call[p].id => topics'[i] = topics[i]
    BY <1>2, CreateDoes
  <2>2. PICK i \in TopicIds : <<v, i>> \in subscribed /\ topics[i] = start.topic
    BY <1>0, <2>1 DEF StartOwesSubscribed
  <2>3. topics[i] # 0
    BY <1>0, <2>2
  <2>4. i # call[p].id
    BY <1>0, <1>2, <2>3
  <2> QED
    BY <2>1, <2>2, <2>4
<1>3. CASE Take
  <2>1. /\ UNCHANGED <<topics, subscribed>> /\ Len(queue) >= 1
        /\ \/ start' = NoMsg
           \/ start'.topic = topics[queue[1].id] /\ start'.owed = queue[1].owed
    BY <1>3, TakeDoes
  <2>2. start' # NoMsg
    BY DEF NoMsg
  <2>3. 1 \in DOMAIN queue /\ queue[1].id \in TopicIds
    <3>1. 1 \in DOMAIN queue /\ queue[1] \in Message
      BY <2>1, LenProperties DEF Typed
    <3> QED
      BY <3>1 DEF Message
  <2>4. <<v, queue[1].id>> \in subscribed
    BY <2>1, <2>2, <2>3 DEF QueueOwesSubscribed
  <2> QED
    BY <2>1, <2>2, <2>3, <2>4
<1>4. CASE Deliver
  <2>1. start'.owed = {}
    BY <1>4, DeliverDoes DEF NoMsg
  <2> QED
    BY <2>1
<1>5. ASSUME UNCHANGED <<topics, start>>, subscribed \subseteq subscribed' PROVE Goal
  BY <1>0, <1>5 DEF StartOwesSubscribed
<1>6. ASSUME NEW p \in Callers,
             \/ Load(p) \/ AddSubTopic(p) \/ AddSubUser(p) \/ AddSubHandle(p) \/ Enqueue(p)
             \/ RemoveSubUser(p) \/ UnsubTopic(p) \/ UnsubAllTopics(p)
      PROVE  Goal
  BY <1>5, <1>6, LoadDoes, AddSubTopicDoes, AddSubUserDoes, AddSubHandleDoes, EnqueueDoes,
     RemoveSubUserDoes, UnsubTopicDoes, UnsubAllTopicsDoes DEF Acted
<1>7. CASE Rest \/ UNCHANGED vars
  BY <1>5, <1>7 DEF Rest, vars
<1> QED
  BY <1>1, <1>2, <1>3, <1>4, <1>6, <1>7 DEF Next

Owed ==
    /\ Typed /\ PlaceOfOp /\ OneId /\ LeaversOwedNothing
    /\ SubscribedAreServed /\ QueueOwesSubscribed /\ StartOwesSubscribed

LEMMA InitOwed == Init => Owed
  BY InitServed, InitIs DEF Served, Owed, LeaversOwedNothing, SubscribedAreServed,
     QueueOwesSubscribed, StartOwesSubscribed, NoMsg

LEMMA OwedStep == Owed /\ [Next]_vars => Owed'
  BY TypeIsTyped, TypeStep, PlaceStep, OneIdStep, LeaversStep, SubscribedStep, QueueStep,
     StartStep DEF Owed

\* For every number of users, topics and callers: while no topic has been
\* replaced, a user that had subscribed when a message was published, and that
\* has not begun to leave since, is held by the topic the message is sent to.
THEOREM SubscribersCorrect == Spec => []SubscribersAreServed
<1>1. Owed => SubscribersAreServed
  <2> SUFFICES ASSUME Owed, NoneReplaced, NEW v \in start.owed
               PROVE  v \in objects[start.topic].subUsers
    BY DEF SubscribersAreServed
  <2>1. PICK id \in TopicIds : <<v, id>> \in subscribed /\ topics[id] = start.topic
    BY DEF Owed, StartOwesSubscribed
  <2> QED
    BY <2>1 DEF Owed, SubscribedAreServed
<1> QED
  BY <1>1, InitOwed, OwedStep, PTL DEF Spec
=============================================================================
