----------------------------- MODULE PartProofs -----------------------------
(***************************************************************************)
(* The parts of a process that are modelled alone, for all their sizes: the *)
(* ring of a client's recent log lines, the ids, the trie of words, a       *)
(* request through its chain of handlers, and the routes that made the      *)
(* chain.                                                                   *)
(***************************************************************************)
EXTENDS RecentLogs, Uidgen, Trie, HandlerChain, Router, SliceProofs,
        FiniteSetTheorems, WellFoundedInduction

-----------------------------------------------------------------------------
(* The ring of log lines: it implements the tail of the log.  The inductive *)
(* invariant is the types with FilledInOrder, without which the oldest line *)
(* of a buffer that is not full could be anywhere.                          *)

\* The remainder that ring buffer indices need: x + i wraps at most once.
LEMMA Wrap ==
    \A k \in Nat \ {0} : \A x \in 0..k - 1 : \A i \in 0..k :
        (x + i) % k = IF x + i < k THEN x + i ELSE x + i - k
  BY SMT

LEMMA NextIdx ==
    ASSUME NEW idx \in Slots
    PROVE  (idx + 1) % Capacity = IF idx + 1 < Capacity THEN idx + 1 ELSE 0
<1>1. 1 \in 0..Capacity /\ idx \in 0..Capacity - 1
  BY CapacityAssumption DEF Slots
<1>2. (idx + 1) % Capacity = IF idx + 1 < Capacity THEN idx + 1
                             ELSE idx + 1 - Capacity
  BY <1>1, CapacityAssumption, Wrap, Zenon
<1>3. QED
  BY <1>1, <1>2, CapacityAssumption

\* Where the i-th line returned by GetRecentLogs is stored.
SlotOf(idx, n, i) == IF n < Capacity THEN i - 1
                     ELSE IF idx + (i - 1) < Capacity THEN idx + (i - 1)
                          ELSE idx + (i - 1) - Capacity

LEMMA Lookup ==
    ASSUME NEW idx \in Slots, NEW n \in 0..Capacity, n < Capacity => idx = n,
           NEW i \in 1..n
    PROVE  /\ (((idx - n + Capacity) % Capacity) + i - 1) % Capacity
                = SlotOf(idx, n, i)
           /\ SlotOf(idx, n, i) \in Slots
<1> USE CapacityAssumption DEF Slots
<1> DEFINE oldest == IF n < Capacity THEN 0 ELSE idx
<1>1. (idx - n + Capacity) % Capacity = oldest
  <2>1. CASE n < Capacity
    <3>1. idx - n + Capacity = 0 + Capacity /\ 0 \in 0..Capacity - 1
      BY <2>1
    <3>2. (0 + Capacity) % Capacity = IF 0 + Capacity < Capacity
                                      THEN 0 + Capacity
                                      ELSE 0 + Capacity - Capacity
      BY <3>1, Wrap
    <3>3. QED
      BY <2>1, <3>1, <3>2
  <2>2. CASE ~(n < Capacity)
    <3>1. idx - n + Capacity = idx + 0 /\ 0 \in 0..Capacity
      BY <2>2
    <3>2. (idx + 0) % Capacity = IF idx + 0 < Capacity THEN idx + 0
                                 ELSE idx + 0 - Capacity
      BY <3>1, Wrap, Zenon
    <3>3. QED
      BY <2>2, <3>1, <3>2
  <2>3. QED
    BY <2>1, <2>2
<1>2. oldest \in 0..Capacity - 1 /\ i - 1 \in 0..Capacity
  OBVIOUS
<1>3. (oldest + (i - 1)) % Capacity
         = IF oldest + (i - 1) < Capacity THEN oldest + (i - 1)
           ELSE oldest + (i - 1) - Capacity
  <2> HIDE DEF oldest
  <2>1. QED
    BY <1>2, Wrap, Zenon
<1>4. oldest + i - 1 = oldest + (i - 1)
  OBVIOUS
<1>5. QED
  BY <1>1, <1>3, <1>4 DEF SlotOf

-----------------------------------------------------------------------------
IndexInv == LogsTypeOK /\ FilledInOrder

LEMMA IndexStep == IndexInv /\ [LogsNext]_logsVars => IndexInv'
<1> USE CapacityAssumption DEF IndexInv, LogsTypeOK, FilledInOrder, Slots
<1> SUFFICES ASSUME IndexInv, [LogsNext]_logsVars PROVE IndexInv'
  OBVIOUS
<1>1. ASSUME NEW line \in Lines, Log(line) PROVE IndexInv'
  <2>1. recentIdx' = IF recentIdx + 1 < Capacity THEN recentIdx + 1 ELSE 0
    BY <1>1, NextIdx DEF Log
  <2>2. QED
    BY <1>1, <2>1 DEF Log
<1>2. CASE UNCHANGED logsVars
  BY <1>2 DEF logsVars
<1>3. QED
  BY <1>1, <1>2 DEF LogsNext

\* The indices stay in range, and the buffer fills from slot 0.
THEOREM IndexCorrect == LogsSpec => [](LogsTypeOK /\ FilledInOrder)
<1>1. LogsInit => IndexInv
  BY CapacityAssumption DEF LogsInit, IndexInv, LogsTypeOK, FilledInOrder, Slots
<1>2. QED
  BY <1>1, IndexStep, PTL DEF LogsSpec, IndexInv

-----------------------------------------------------------------------------
\* The lines GetRecentLogs returns, by the slots they are stored in.
BySlot(logs, idx, n) == [i \in 1..n |-> logs[SlotOf(idx, n, i)]]

\* Log drops the oldest line when the buffer is full, and adds the newest.
LEMMA LogShifts ==
    ASSUME IndexInv, NEW line \in Lines, Log(line)
    PROVE  GetRecentLogs' = Log0!LastLines(Append(GetRecentLogs, line))
<1> USE CapacityAssumption DEF IndexInv, LogsTypeOK, FilledInOrder, Slots
<1> DEFINE old == BySlot(recentLogs, recentIdx, recentCount)
           new == BySlot(recentLogs', recentIdx', recentCount')
           S == Lines \union {Blank}
<1>1. recentIdx' = IF recentIdx + 1 < Capacity THEN recentIdx + 1 ELSE 0
  BY NextIdx DEF Log
<1>2. GetRecentLogs = old /\ GetRecentLogs' = new
  <2>1. GetRecentLogs = old
    BY Lookup DEF GetRecentLogs, Oldest, BySlot
  <2>2. IndexInv'
    BY <1>1 DEF Log
  <2>3. GetRecentLogs' = new
    BY <2>2, Lookup DEF GetRecentLogs, Oldest, BySlot
  <2>4. QED
    BY <2>1, <2>3
<1>3. old \in Seq(S) /\ Len(old) = recentCount /\ line \in S
  BY Lookup DEF BySlot
<1>4. new = [i \in 1..recentCount' |-> new[i]]
  BY DEF BySlot
<1>5. CASE recentCount < Capacity
  <2>1. recentCount' = recentCount + 1
    BY <1>5 DEF Log
  <2>2. \A i \in 1..recentCount + 1 :
           new[i] = IF i = recentCount + 1 THEN line ELSE old[i]
    BY <1>1, <1>5, <2>1 DEF Log, BySlot, SlotOf
  <2>3. /\ new \in Seq(S) /\ Len(new) = recentCount + 1
    <3> HIDE DEF old, new, S
    <3>1. \A i \in 1..recentCount : old[i] \in S
      BY <1>3
    <3>2. \A i \in 1..recentCount + 1 : new[i] \in S
      BY <1>3, <2>2, <3>1
    <3>3. new = [i \in 1..recentCount + 1 |-> new[i]]
      BY <1>4, <2>1
    <3>4. QED
      BY <3>2, <3>3, CapacityAssumption
  <2>4. new = Append(old, line)
    <3> HIDE DEF old, new, S
    <3>1. /\ Append(old, line) \in Seq(S)
          /\ Len(Append(old, line)) = recentCount + 1
          /\ \A i \in 1..recentCount : Append(old, line)[i] = old[i]
          /\ Append(old, line)[recentCount + 1] = line
      BY <1>3, AppendProperties
    <3>2. \A i \in 1..Len(new) : new[i] = Append(old, line)[i]
      BY <2>2, <2>3, <3>1
    <3>3. QED
      BY <2>3, <3>1, <3>2, SeqEqual
  <2>5. QED
    BY <1>2, <1>3, <1>5, <2>4 DEF Log0!LastLines
<1>6. CASE recentCount = Capacity
  <2>1. recentCount' = Capacity
    BY <1>6 DEF Log
  <2>2. \A i \in 1..Capacity :
           new[i] = IF i = Capacity THEN line ELSE old[i + 1]
    <3>1. ASSUME NEW i \in 1..Capacity, i # Capacity
          PROVE  /\ SlotOf(recentIdx', Capacity, i) = SlotOf(recentIdx, Capacity, i + 1)
                 /\ SlotOf(recentIdx, Capacity, i + 1) \in Slots \ {recentIdx}
      BY <1>1, <3>1 DEF SlotOf
    <3>2. SlotOf(recentIdx', Capacity, Capacity) = recentIdx
      BY <1>1 DEF SlotOf
    <3>3. QED
      BY <1>6, <2>1, <3>1, <3>2 DEF Log, BySlot
  <2>3. new \in Seq(S) /\ Len(new) = Capacity
    <3> HIDE DEF old, new, S
    <3>1. \A i \in 1..Capacity : old[i] \in S
      BY <1>3, <1>6
    <3>2. \A i \in 1..Capacity : new[i] \in S
      BY <1>3, <2>2, <3>1
    <3>3. new = [i \in 1..Capacity |-> new[i]]
      BY <1>4, <2>1
    <3>4. QED
      BY <3>2, <3>3, CapacityAssumption
  <2>4. new = Tail(Append(old, line))
    <3> HIDE DEF old, new, S
    <3>1. /\ Append(old, line) \in Seq(S) /\ Append(old, line) # <<>>
          /\ Len(Append(old, line)) = Capacity + 1
          /\ \A i \in 1..Capacity : Append(old, line)[i] = old[i]
          /\ Append(old, line)[Capacity + 1] = line
      BY <1>3, <1>6, AppendProperties
    <3>2. /\ Tail(Append(old, line)) \in Seq(S)
          /\ Len(Tail(Append(old, line))) = Capacity
          /\ \A i \in 1..Capacity :
               Tail(Append(old, line))[i] = Append(old, line)[i + 1]
      BY <3>1, HeadTailProperties
    <3>3. \A i \in 1..Len(new) : new[i] = Tail(Append(old, line))[i]
      <4>1. SUFFICES ASSUME NEW i \in 1..Capacity
                     PROVE  new[i] = Append(old, line)[i + 1]
        BY <2>3, <3>2
      <4>2. CASE i = Capacity
        BY <2>2, <3>1, <4>2
      <4>3. CASE i # Capacity
        <5>1. i + 1 \in 1..Capacity
          BY <4>3
        <5>2. QED
          BY <2>2, <3>1, <4>3, <5>1
      <4>4. QED
        BY <4>2, <4>3
    <3>4. QED
      BY <2>3, <3>2, <3>3, SeqEqual
  <2>5. QED
    BY <1>2, <1>3, <1>6, <2>4 DEF Log0!LastLines
<1>7. QED
  BY <1>5, <1>6

\* The ring buffer implements the tail of the log for every capacity.
THEOREM Refinement == LogsSpec => ReturnsLastLines
<1>1. LogsInit => Log0!Init
  BY DEF LogsInit, Log0!Init, GetRecentLogs
<1>2. IndexInv /\ [LogsNext]_logsVars => [Log0!Next]_GetRecentLogs
  <2> SUFFICES ASSUME IndexInv, [LogsNext]_logsVars
               PROVE  [Log0!Next]_GetRecentLogs
    OBVIOUS
  <2>1. ASSUME NEW line \in Lines, Log(line) PROVE Log0!Next
    BY <2>1, LogShifts DEF Log0!Next, Log0!Log
  <2>2. CASE UNCHANGED logsVars
    BY <2>2 DEF logsVars, GetRecentLogs, Oldest
  <2>3. QED
    BY <2>1, <2>2 DEF LogsNext
<1>3. QED
  BY <1>1, <1>2, IndexCorrect, PTL
     DEF LogsSpec, IndexInv, ReturnsLastLines, Log0!Spec

-----------------------------------------------------------------------------
(* The ids: one is generated twice only after a compare-and-swap has        *)
(* failed.  The inductive invariant is that until then no id is ahead of    *)
(* the counter: an addition then makes a new number, and so does a swap     *)
(* that succeeds, because the time it sets is ahead of what the counter was.*)

LEMMA TypeStep == IdsTypeOK /\ [IdsNext]_idsVars => IdsTypeOK'
<1> SUFFICES ASSUME IdsTypeOK, [IdsNext]_idsVars PROVE IdsTypeOK'
  OBVIOUS
<1> USE ClockAssumption DEF IdsTypeOK, Times, Ids
<1>1. CASE Tick
  BY <1>1 DEF Tick
<1>2. ASSUME NEW p \in Callers, Now(p) PROVE IdsTypeOK'
  BY <1>2 DEF Now
<1>3. ASSUME NEW p \in Callers, AddUint64(p) PROVE IdsTypeOK'
  <2>1. counter + 1 \in Nat /\ now[p].day \in 1..Days
    OBVIOUS
  <2>2. CASE counter + 1 < now[p].tick
    BY <1>3, <2>1, <2>2 DEF AddUint64
  <2>3. CASE ~(counter + 1 < now[p].tick)
    <3>1. <<now[p].day, counter + 1>> \in Ids
      BY <2>1
    <3>2. Issue(p, counter + 1) /\ counter' = counter + 1
          /\ seq' = [seq EXCEPT ![p] = counter + 1]
          /\ UNCHANGED <<clock, now, before, lost, started>>
      BY <1>3, <2>3 DEF AddUint64
    <3>3. issued' \subseteq Ids /\ last' \in Ids /\ repeated' \in BOOLEAN
          /\ pc' \in [Callers -> {"now", "add", "cas"}]
      BY <3>1, <3>2 DEF Issue
    <3>4. QED
      BY <2>1, <3>2, <3>3
  <2>4. QED
    BY <2>2, <2>3
<1>4. ASSUME NEW p \in Callers, CompareAndSwap(p) PROVE IdsTypeOK'
  BY <1>4 DEF CompareAndSwap, Issue
<1>5. CASE UNCHANGED idsVars
  BY <1>5 DEF idsVars
<1>6. QED
  BY <1>1, <1>2, <1>3, <1>4, <1>5 DEF IdsNext

\* The state of GenSid and of its callers stays in its types.
THEOREM TypeCorrect == IdsSpec => []IdsTypeOK
<1>1. IdsInit => IdsTypeOK
  <2> SUFFICES ASSUME IdsInit PROVE IdsTypeOK
    OBVIOUS
  <2>1. clock \in Times
    BY ClockAssumption DEF IdsInit, Times
  <2>2. last \in Ids
    BY ClockAssumption DEF IdsInit, Ids
  <2>3. QED
    BY <2>1, <2>2 DEF IdsInit, IdsTypeOK
<1>2. QED
  BY <1>1, TypeStep, PTL DEF IdsSpec

-----------------------------------------------------------------------------
\* A caller in its compare-and-swap has found the counter behind its clock.
Behind == \A p \in Callers : pc[p] = "cas" => seq[p] < now[p].tick

IssuedBelow == ~lost => ~repeated /\ \A id \in issued : id[2] <= counter

IdsInv == Behind /\ IssuedBelow

LEMMA IdsInvStep == IdsTypeOK /\ IdsInv /\ [IdsNext]_idsVars => IdsInv'
<1> SUFFICES ASSUME IdsTypeOK, IdsInv, [IdsNext]_idsVars PROVE IdsInv'
  OBVIOUS
<1> USE DEF IdsTypeOK, Times, Ids, IdsInv, Behind, IssuedBelow
<1>1. CASE Tick
  BY <1>1 DEF Tick
<1>2. ASSUME NEW p \in Callers, Now(p) PROVE IdsInv'
  BY <1>2 DEF Now
<1>3. ASSUME NEW p \in Callers, AddUint64(p) PROVE IdsInv'
  <2>1. Behind'
    BY <1>3 DEF AddUint64, Issue
  <2>2. IssuedBelow'
    BY <1>3 DEF AddUint64, Issue
  <2>3. QED
    BY <2>1, <2>2
<1>4. ASSUME NEW p \in Callers, CompareAndSwap(p) PROVE IdsInv'
  <2>1. Behind'
    BY <1>4 DEF CompareAndSwap, Issue
  <2>2. IssuedBelow'
    <3> SUFFICES ASSUME ~lost' PROVE IssuedBelow'
      OBVIOUS
    <3> DEFINE n == now[p].tick
               id == <<now[p].day, n>>
    <3>1. ~lost /\ counter' = n /\ counter < n /\ n \in Nat
      <4>1. ~lost /\ counter = seq[p] /\ pc[p] = "cas"
        BY <1>4, Zenon DEF CompareAndSwap
      <4>2. counter' = n
        BY <1>4, <4>1 DEF CompareAndSwap
      <4>3. QED
        BY <4>1, <4>2
    <3>2. /\ issued' = issued \union {id}
          /\ repeated' = (repeated \/ id \in issued)
      BY <1>4 DEF CompareAndSwap, Issue
    <3>3. id[2] = n /\ \A i \in issued : i[2] \in Nat /\ i[2] <= counter
      BY <3>1
    <3> HIDE DEF n, id
    <3>4. id \notin issued
      BY <3>1, <3>3
    <3>5. QED
      BY <3>1, <3>2, <3>3, <3>4
  <2>3. QED
    BY <2>1, <2>2
<1>5. CASE UNCHANGED idsVars
  BY <1>5 DEF idsVars
<1>6. QED
  BY <1>1, <1>2, <1>3, <1>4, <1>5 DEF IdsNext

\* As long as no compare-and-swap has failed, GenSid generates no id twice.
THEOREM UniqueUntilLost == IdsSpec => []DuplicatesNeedALostSwap
<1>1. IdsInit => IdsInv
  BY DEF IdsInit, IdsInv, Behind, IssuedBelow
<1>2. IdsInv => DuplicatesNeedALostSwap
  BY DEF IdsInv, IssuedBelow, DuplicatesNeedALostSwap
<1>3. QED
  BY <1>1, <1>2, IdsInvStep, TypeCorrect, PTL DEF IdsSpec

-----------------------------------------------------------------------------
(* The order of ids.                                                        *)

\* Nobody is ahead of the clock.
DaysPast ==
    /\ \A id \in issued : id[1] <= clock.day
    /\ \A p \in Callers : now[p].day <= clock.day

\* What was returned before a call began is behind what the call will return.
BeforeBelow ==
    \A p \in Callers : pc[p] # "now" =>
        \A id \in before[p] :
            /\ id[1] <= now[p].day
            /\ ~lost => /\ id[2] <= counter
                        /\ pc[p] = "cas" => id[2] < seq[p]

OrderInv == DaysPast /\ BeforeBelow

LEMMA DaysPastStep == IdsTypeOK /\ DaysPast /\ [IdsNext]_idsVars => DaysPast'
<1> SUFFICES ASSUME IdsTypeOK, DaysPast, [IdsNext]_idsVars PROVE DaysPast'
  OBVIOUS
<1> USE DEF IdsTypeOK, Times, DaysPast
<1>1. CASE Tick
  BY <1>1 DEF Tick, Ids
<1>2. ASSUME NEW p \in Callers, Now(p) PROVE DaysPast'
  BY <1>2 DEF Now
<1>3. ASSUME NEW p \in Callers, AddUint64(p) PROVE DaysPast'
  BY <1>3 DEF AddUint64, Issue
<1>4. ASSUME NEW p \in Callers, CompareAndSwap(p) PROVE DaysPast'
  BY <1>4 DEF CompareAndSwap, Issue
<1>5. CASE UNCHANGED idsVars
  BY <1>5 DEF idsVars
<1>6. QED
  BY <1>1, <1>2, <1>3, <1>4, <1>5 DEF IdsNext

LEMMA BeforeStep ==
  IdsTypeOK /\ IdsInv /\ OrderInv /\ [IdsNext]_idsVars => BeforeBelow'
<1> SUFFICES ASSUME IdsTypeOK, IdsInv, OrderInv, [IdsNext]_idsVars,
                    NEW q \in Callers, pc'[q] # "now", NEW id \in before'[q]
             PROVE /\ id[1] <= now'[q].day
                   /\ ~lost' => /\ id[2] <= counter'
                                /\ pc'[q] = "cas" => id[2] < seq'[q]
  BY DEF BeforeBelow
<1> USE DEF IdsTypeOK, Times, IdsInv, OrderInv, DaysPast, BeforeBelow
<1>1. CASE Tick
  BY <1>1 DEF Tick
<1>2. ASSUME NEW p \in Callers, Now(p)
      PROVE /\ id[1] <= now'[q].day
            /\ ~lost' => /\ id[2] <= counter'
                         /\ pc'[q] = "cas" => id[2] < seq'[q]
  <2>1. CASE p = q
    BY <1>2, <2>1 DEF Now, IssuedBelow
  <2>2. CASE p # q
    BY <1>2, <2>2 DEF Now
  <2>3. QED
    BY <2>1, <2>2
<1>3. ASSUME NEW p \in Callers, AddUint64(p)
      PROVE /\ id[1] <= now'[q].day
            /\ ~lost' => /\ id[2] <= counter'
                         /\ pc'[q] = "cas" => id[2] < seq'[q]
  <2>1. id \in before[q] /\ pc[q] # "now" /\ id \in Ids
    BY <1>3 DEF AddUint64, Issue
  <2>2. id[2] \in Nat
    BY <2>1 DEF Ids
  <2>3. CASE p = q
    BY <1>3, <2>1, <2>2, <2>3 DEF AddUint64, Issue
  <2>4. CASE p # q
    BY <1>3, <2>1, <2>2, <2>4 DEF AddUint64, Issue
  <2>5. QED
    BY <2>3, <2>4
<1>4. ASSUME NEW p \in Callers, CompareAndSwap(p)
      PROVE /\ id[1] <= now'[q].day
            /\ ~lost' => /\ id[2] <= counter'
                         /\ pc'[q] = "cas" => id[2] < seq'[q]
  <2>1. /\ id \in before[q] /\ pc[q] # "now" /\ id \in Ids
        /\ pc'[q] = pc[q] /\ seq' = seq /\ now' = now
    BY <1>4 DEF CompareAndSwap, Issue
  <2>2. id[2] \in Nat
    BY <2>1 DEF Ids
  <2>3. ~lost' => ~lost /\ counter' >= counter
    <3>1. ~lost' => ~lost /\ counter = seq[p] /\ pc[p] = "cas"
      BY <1>4, Zenon DEF CompareAndSwap
    <3>2. counter = seq[p] => counter' = now[p].tick
      BY <1>4 DEF CompareAndSwap
    <3>3. QED
      BY <3>1, <3>2 DEF Behind
  <2>4. counter' \in Nat
    BY <1>4 DEF CompareAndSwap
  <2>5. QED
    BY <2>1, <2>2, <2>3, <2>4
<1>5. CASE UNCHANGED idsVars
  BY <1>5 DEF idsVars
<1>6. QED
  BY <1>1, <1>2, <1>3, <1>4, <1>5 DEF IdsNext

LEMMA IssueIncreases ==
  IdsTypeOK /\ IdsInv /\ OrderInv /\ [IdsNext]_idsVars =>
    \A p \in Callers :
       pc[p] # "now" /\ pc'[p] = "now" /\ ~lost'
          => \A id \in before[p] : Before(id, last')
<1> SUFFICES ASSUME IdsTypeOK, IdsInv, OrderInv, [IdsNext]_idsVars, NEW p \in Callers,
                    pc[p] # "now", pc'[p] = "now", ~lost', NEW id \in before[p]
             PROVE Before(id, last')
  OBVIOUS
<1>1. AddUint64(p) \/ CompareAndSwap(p)
  BY DEF IdsNext, Tick, Now, AddUint64, CompareAndSwap, Issue, IdsTypeOK, idsVars
<1>2. id[1] \in Nat /\ id[2] \in Nat /\ id[1] <= now[p].day /\ now[p].day \in Nat
  BY DEF IdsTypeOK, Ids, Times, OrderInv, BeforeBelow
<1>3. CASE AddUint64(p)
  <2>1. ~lost /\ last' = <<now[p].day, counter + 1>> /\ counter \in Nat
    BY <1>3 DEF AddUint64, Issue, IdsTypeOK
  <2>2. id[2] <= counter
    BY <2>1 DEF OrderInv, BeforeBelow
  <2>3. QED
    BY <1>2, <2>1, <2>2 DEF Before
<1>4. CASE CompareAndSwap(p)
  <2>1. ~lost /\ pc[p] = "cas" /\ last' = <<now[p].day, now[p].tick>>
    <3>1. ~lost /\ pc[p] = "cas"
      BY <1>4, Zenon DEF CompareAndSwap
    <3>2. QED
      BY <1>4, <3>1 DEF CompareAndSwap, Issue
  <2>2. id[2] < seq[p] /\ seq[p] < now[p].tick
    BY <2>1 DEF OrderInv, BeforeBelow, IdsInv, Behind
  <2>3. seq[p] \in Nat /\ now[p].tick \in Nat
    BY DEF IdsTypeOK, Times
  <2>4. QED
    BY <1>2, <2>1, <2>2, <2>3 DEF Before
<1>5. QED
  BY <1>1, <1>3, <1>4

\* As long as no compare-and-swap has failed, an id is greater than all that
\* were returned before its call began, whatever the calls in progress.
THEOREM OrderedUntilLost == IdsSpec => IncreasingUntilLost
<1>1. IdsInit => IdsInv /\ OrderInv
  BY ClockAssumption
     DEF IdsInit, IdsInv, Behind, IssuedBelow, OrderInv, DaysPast, BeforeBelow
<1>2. IdsTypeOK /\ IdsInv /\ OrderInv /\ [IdsNext]_idsVars => IdsInv' /\ OrderInv'
  BY IdsInvStep, DaysPastStep, BeforeStep DEF OrderInv
<1>3. IdsTypeOK /\ IdsInv /\ OrderInv /\ [IdsNext]_idsVars =>
        [\A p \in Callers :
           pc[p] # "now" /\ pc'[p] = "now" /\ ~lost'
             => \A id \in before[p] : Before(id, last')]_idsVars
  BY IssueIncreases
<1>4. QED
  BY <1>1, <1>2, <1>3, TypeCorrect, PTL DEF IdsSpec, IncreasingUntilLost

-----------------------------------------------------------------------------
(* The trie: it is the words it was told.  The inductive invariant is that  *)
(* the nodes are the words and what is on the way to one, each with the     *)
(* number of its children: behind the last node with several there is only  *)
(* the way to the word that Del deletes.                                    *)

\* A set of numbers has a smallest one, and one with a bound a greatest.
LEMMA Smallest ==
    ASSUME NEW T \in SUBSET Nat, T # {}
    PROVE  \E n \in T : \A m \in T : n <= m
<1>1. PICK n \in T : \A m \in T : ~(<<m, n>> \in OpToRel(<, Nat))
  BY NatLessThanWellFounded, WFMin
<1>2. \A m \in T : ~(m < n)
  BY <1>1 DEF OpToRel
<1> QED
  BY <1>2

LEMMA Greatest ==
    ASSUME NEW b \in Nat, NEW T \in SUBSET (0..b), T # {}
    PROVE  \E n \in T : \A m \in T : m <= n
<1> DEFINE S == {b - t : t \in T}
<1>1. S \in SUBSET Nat /\ S # {}
  <2>1. \A t \in T : b - t \in Nat
    OBVIOUS
  <2> QED
    BY <2>1
<1>2. PICK s \in S : \A m \in S : s <= m
  BY <1>1, Smallest
<1>3. PICK n \in T : s = b - n
  OBVIOUS
<1>4. \A m \in T : b - n <= b - m
  BY <1>2, <1>3
<1> QED
  BY <1>4

\* Strings of letters, of any length.
Strings == Seq(Letters)

\* What a beginning is.
LEMMA UptoIs ==
    ASSUME NEW w \in Strings, NEW i \in 0..Len(w), NEW u, u = Upto(w, i)
    PROVE  /\ u \in Strings /\ Len(u) = i /\ i \in Nat
           /\ \A j \in 1..i : u[j] = w[j]
<1>1. i \in Nat /\ Len(w) \in Nat /\ i <= Len(w)
  BY DEF Strings
<1>2. \A j \in 1..i : 1 + j - 1 = j
  BY <1>1
<1> QED
  BY <1>1, <1>2, SubSeqProperties DEF Strings, Upto

LEMMA ExtendsIs ==
    ASSUME NEW w \in Strings, NEW u \in Strings
    PROVE  Extends(w, u) <=> /\ Len(u) <= Len(w)
                             /\ \A j \in 1..Len(u) : w[j] = u[j]
<1>1. CASE Len(u) <= Len(w)
  <2>1. PICK i \in 0..Len(w) : i = Len(u)
    BY <1>1 DEF Strings
  <2>2. PICK v : v = Upto(w, i)
    OBVIOUS
  <2>3. v \in Strings /\ Len(v) = i /\ \A j \in 1..i : v[j] = w[j]
    BY <2>2, UptoIs
  <2>4. (\A j \in 1..i : w[j] = u[j]) => v = u
    <3>1. ASSUME \A j \in 1..i : w[j] = u[j]
          PROVE  v = u
      <4>1. \A j \in 1..Len(v) : v[j] = u[j]
        BY <2>3, <3>1
      <4> QED
        BY <2>1, <2>3, <4>1, SeqEqual DEF Strings
    <3> QED
      BY <3>1
  <2> QED
    BY <1>1, <2>1, <2>2, <2>3, <2>4 DEF Extends
<1>2. CASE ~(Len(u) <= Len(w))
  BY <1>2 DEF Extends
<1> QED
  BY <1>1, <1>2

-----------------------------------------------------------------------------
LEMMA ExtendsOrder ==
    /\ \A w \in Strings : Len(w) \in Nat /\ Extends(w, w)
    /\ \A w, u, v \in Strings : Extends(w, u) /\ Extends(u, v) => Extends(w, v)
    /\ \A w, u \in Strings : Extends(w, u) => Len(u) <= Len(w)
    /\ \A w, u \in Strings : Extends(w, u) /\ Len(w) = Len(u) => w = u
    /\ \A w, u, v \in Strings :
         Extends(w, u) /\ Extends(w, v) /\ Len(u) <= Len(v) => Extends(v, u)
<1>1. \A w \in Strings : Len(w) \in Nat /\ Extends(w, w)
  <2>1. \A w \in Strings : Len(w) \in Nat
    BY DEF Strings
  <2> QED
    BY <2>1, ExtendsIs
<1>2. \A w, u, v \in Strings : Extends(w, u) /\ Extends(u, v) => Extends(w, v)
  <2>1. SUFFICES ASSUME NEW w \in Strings, NEW u \in Strings, NEW v \in Strings,
                        Extends(w, u), Extends(u, v)
                 PROVE  Extends(w, v)
    OBVIOUS
  <2>2. /\ Len(u) <= Len(w) /\ \A j \in 1..Len(u) : w[j] = u[j]
        /\ Len(v) <= Len(u) /\ \A j \in 1..Len(v) : u[j] = v[j]
    BY <2>1, ExtendsIs
  <2>3. Len(v) <= Len(w) /\ \A j \in 1..Len(v) : w[j] = v[j]
    BY <1>1, <2>2
  <2> QED
    BY <2>3, ExtendsIs
<1>3. \A w, u \in Strings : Extends(w, u) => Len(u) <= Len(w)
  BY DEF Extends
<1>4. \A w, u \in Strings : Extends(w, u) /\ Len(w) = Len(u) => w = u
  <2>1. SUFFICES ASSUME NEW w \in Strings, NEW u \in Strings,
                        Extends(w, u), Len(w) = Len(u)
                 PROVE  w = u
    OBVIOUS
  <2>2. \A j \in 1..Len(w) : w[j] = u[j]
    BY <2>1, ExtendsIs
  <2> QED
    BY <2>1, <2>2, SeqEqual DEF Strings
<1>5. \A w, u, v \in Strings :
        Extends(w, u) /\ Extends(w, v) /\ Len(u) <= Len(v) => Extends(v, u)
  <2>1. SUFFICES ASSUME NEW w \in Strings, NEW u \in Strings, NEW v \in Strings,
                        Extends(w, u), Extends(w, v), Len(u) <= Len(v)
                 PROVE  Extends(v, u)
    OBVIOUS
  <2>2. /\ \A j \in 1..Len(u) : w[j] = u[j]
        /\ \A j \in 1..Len(v) : w[j] = v[j]
    BY <2>1, ExtendsIs
  <2>3. \A j \in 1..Len(u) : v[j] = u[j]
    BY <1>1, <2>1, <2>2
  <2> QED
    BY <2>1, <2>3, ExtendsIs
<1> QED
  BY <1>1, <1>2, <1>3, <1>4, <1>5

\* The beginning of each length.
LEMMA Beginnings ==
    ASSUME NEW w \in Strings, NEW i \in 0..Len(w)
    PROVE  /\ Upto(w, i) \in Strings /\ Len(Upto(w, i)) = i
           /\ Extends(w, Upto(w, i))
           /\ \A u \in Strings : Extends(w, u) /\ Len(u) = i => u = Upto(w, i)
<1>1. PICK u : u = Upto(w, i)
  OBVIOUS
<1>2. /\ u \in Strings /\ Len(u) = i /\ i \in Nat
      /\ \A j \in 1..i : u[j] = w[j]
  BY <1>1, UptoIs
<1>3. Len(w) \in Nat /\ i <= Len(w)
  BY <1>2, ExtendsOrder
<1>4. Extends(w, u)
  BY <1>2, <1>3, ExtendsIs
<1>5. \A v \in Strings : Extends(w, v) /\ Len(v) = i => v = Upto(w, i)
  BY DEF Extends
<1> QED
  BY <1>1, <1>2, <1>4, <1>5

\* The nodes: the empty string and the words.
LEMMA NodesAre ==
    /\ \A w : w \in Words <=> w \in Strings /\ Len(w) >= 1 /\ Len(w) <= MaxWord
    /\ <<>> \in Strings /\ Len(<<>>) = 0
    /\ \A w \in Strings : Len(w) = 0 <=> w = <<>>
    /\ \A w \in Strings : Upto(w, 0) = <<>> /\ Extends(w, <<>>)
<1>1. <<>> \in Strings /\ Len(<<>>) = 0
  BY DEF Strings
<1>2. \A w \in Strings : Len(w) = 0 <=> w = <<>>
  BY EmptySeq DEF Strings
<1>3. \A w \in Strings : Upto(w, 0) = <<>> /\ Extends(w, <<>>)
  <2>1. SUFFICES ASSUME NEW w \in Strings
                 PROVE  Upto(w, 0) = <<>> /\ Extends(w, <<>>)
    OBVIOUS
  <2>2. 0 \in 0..Len(w)
    BY ExtendsOrder
  <2>3. Upto(w, 0) \in Strings /\ Len(Upto(w, 0)) = 0 /\ Extends(w, Upto(w, 0))
    BY <2>2, Beginnings
  <2> QED
    BY <1>2, <2>3
<1>4. ASSUME NEW w
      PROVE  w \in Words <=> w \in Strings /\ Len(w) >= 1 /\ Len(w) <= MaxWord
  <2>1. ASSUME w \in Words
        PROVE  w \in Strings /\ Len(w) >= 1 /\ Len(w) <= MaxWord
    <3>1. PICK n \in 1..MaxWord : w \in [1..n -> Letters]
      BY <2>1 DEF Words
    <3>2. n \in Nat
      BY WordAssumption
    <3>3. w \in Seq(Letters) /\ Len(w) = n
      BY <3>1, <3>2
    <3> QED
      BY <3>1, <3>3, WordAssumption DEF Strings
  <2>2. ASSUME w \in Strings, Len(w) >= 1, Len(w) <= MaxWord
        PROVE  w \in Words
    <3>1. PICK n \in Nat : n = Len(w)
      BY <2>2 DEF Strings
    <3>2. w \in [1..n -> Letters]
      BY <2>2, <3>1 DEF Strings
    <3>3. n \in 1..MaxWord
      BY <2>2, <3>1, WordAssumption
    <3> QED
      BY <3>2, <3>3 DEF Words
  <2> QED
    BY <2>1, <2>2
<1> QED
  BY <1>1, <1>2, <1>3, <1>4

-----------------------------------------------------------------------------
LEMMA HowMany ==
    ASSUME NEW S, IsFiniteSet(S)
    PROVE  /\ Cardinality(S) \in Nat
           /\ Cardinality(S) = 0 <=> S = {}
           /\ Cardinality(S) > 1 <=> \E c, d \in S : c # d
<1>1. Cardinality(S) \in Nat /\ (Cardinality(S) = 0 <=> S = {})
  BY FS_CardinalityType, FS_EmptySet
<1>2. Cardinality(S) = 1 <=> \E x : S = {x}
  BY FS_Singleton
<1>3. CASE \E c, d \in S : c # d
  <2>1. S # {} /\ ~\E x : S = {x}
    BY <1>3
  <2> QED
    BY <1>1, <1>2, <1>3, <2>1
<1>4. CASE ~\E c, d \in S : c # d
  <2>1. S = {} \/ \E x : S = {x}
    BY <1>4
  <2> QED
    BY <1>1, <1>2, <1>4, <2>1
<1> QED
  BY <1>1, <1>3, <1>4

\* What the trie and the words it was told have in common, and what Del's walk
\* relies on: a node has all nodes on its way, is a word or on the way to one,
\* and Count is the number of its children.
TrieInv ==
    /\ TrieTypeOK
    /\ IsFiniteSet(DOMAIN trie) /\ <<>> \in DOMAIN trie
    /\ \A q \in DOMAIN trie : \A i \in 0..Len(q) : Upto(q, i) \in DOMAIN trie
    /\ \A q \in DOMAIN trie : /\ trie[q].isWord <=> q \in DOMAIN told
                              /\ trie[q].count = Cardinality(Children(q))
                              /\ q # <<>> => \E u \in DOMAIN told : Extends(u, q)
    /\ \A w \in DOMAIN told : w \in DOMAIN trie /\ trie[w].payload = told[w]

LEMMA TrieStrings ==
    ASSUME TrieInv
    PROVE  /\ DOMAIN trie \subseteq Strings /\ DOMAIN told \subseteq Strings
           /\ DOMAIN told \subseteq DOMAIN trie /\ DOMAIN told \subseteq Words
           /\ \A q \in DOMAIN trie, u \in Strings : Extends(q, u) => u \in DOMAIN trie
           /\ \A q \in DOMAIN trie : q \in Words \/ q = <<>>
<1>1. DOMAIN trie \subseteq Strings /\ DOMAIN told \subseteq Strings
  BY NodesAre DEF TrieInv, TrieTypeOK
<1>2. /\ DOMAIN told \subseteq DOMAIN trie /\ DOMAIN told \subseteq Words
      /\ \A q \in DOMAIN trie : q \in Words \/ q = <<>>
  BY DEF TrieInv, TrieTypeOK
<1>3. \A q \in DOMAIN trie, u \in Strings : Extends(q, u) => u \in DOMAIN trie
  <2>1. SUFFICES ASSUME NEW q \in DOMAIN trie, NEW u \in Strings, Extends(q, u)
                 PROVE  u \in DOMAIN trie
    OBVIOUS
  <2>2. Len(u) \in 0..Len(q)
    BY <1>1, <2>1, ExtendsOrder
  <2>3. u = Upto(q, Len(u))
    BY <2>1 DEF Extends
  <2> QED
    BY <2>2, <2>3 DEF TrieInv
<1> QED
  BY <1>1, <1>2, <1>3

LEMMA ChildrenAre ==
    ASSUME TrieInv, NEW q \in DOMAIN trie
    PROVE  /\ IsFiniteSet(Children(q))
           /\ trie[q].count \in Nat
           /\ trie[q].count = 0 <=> Children(q) = {}
           /\ trie[q].count > 1 <=> \E c, d \in Children(q) : c # d
<1>1. IsFiniteSet(Children(q))
  <2>1. Children(q) \subseteq DOMAIN trie
    BY DEF Children
  <2> QED
    BY <2>1, FS_Subset DEF TrieInv
<1> QED
  BY <1>1, HowMany DEF TrieInv

\* The next node on the way from q to r is a child of q.
LEMMA NextOnTheWay ==
    ASSUME TrieInv, NEW q \in DOMAIN trie, NEW r \in DOMAIN trie,
           Extends(r, q), r # q
    PROVE  /\ Len(q) + 1 \in 0..Len(r) /\ Len(q) < Len(r)
           /\ Upto(r, Len(q) + 1) \in Children(q)
           /\ Extends(r, Upto(r, Len(q) + 1))
<1>1. q \in Strings /\ r \in Strings
  BY TrieStrings
<1>2. /\ Len(q) \in Nat /\ Len(r) \in Nat /\ Len(q) <= Len(r) /\ Len(q) # Len(r)
  BY <1>1, ExtendsOrder
<1>3. Len(q) + 1 \in 0..Len(r) /\ Len(q) < Len(r)
  BY <1>2
<1>4. PICK c : c = Upto(r, Len(q) + 1)
  OBVIOUS
<1>5. c \in Strings /\ Len(c) = Len(q) + 1 /\ Extends(r, c)
  BY <1>1, <1>3, <1>4, Beginnings
<1>6. c \in DOMAIN trie
  BY <1>5, TrieStrings
<1>7. Extends(c, q)
  BY <1>1, <1>2, <1>5, ExtendsOrder
<1> QED
  BY <1>3, <1>4, <1>5, <1>6, <1>7 DEF Children

\* LastBranch exists.
LEMMA LastBranchIs ==
    ASSUME TrieInv, NEW w \in DOMAIN trie
    PROVE  /\ LastBranch(w) \in 0..Len(w)
           /\ LastBranch(w) = 0 \/ trie[Upto(w, LastBranch(w))].count > 1
           /\ \A j \in LastBranch(w) + 1..Len(w) : trie[Upto(w, j)].count <= 1
<1> DEFINE Branches == {i \in 0..Len(w) : i = 0 \/ trie[Upto(w, i)].count > 1}
<1>1. Len(w) \in Nat
  BY TrieStrings, ExtendsOrder
<1>2. Branches \subseteq 0..Len(w) /\ Branches # {}
  BY <1>1
<1>3. PICK i \in Branches : \A m \in Branches : m <= i
  <2> HIDE DEF Branches
  <2> QED
    BY <1>1, <1>2, Greatest
<1>4. \A j \in i + 1..Len(w) : trie[Upto(w, j)].count <= 1
  <2>1. SUFFICES ASSUME NEW j \in i + 1..Len(w)
                 PROVE  trie[Upto(w, j)].count <= 1
    OBVIOUS
  <2>2. j \in 0..Len(w) /\ j > i /\ i \in Nat
    BY <1>1, <1>3
  <2>3. ~(j \in Branches)
    BY <1>1, <1>3, <2>2
  <2>4. trie[Upto(w, j)].count \in Nat
    BY <2>2, ChildrenAre DEF TrieInv
  <2> QED
    BY <2>2, <2>3, <2>4
<1>5. i \in 0..Len(w) /\ (i = 0 \/ trie[Upto(w, i)].count > 1)
  BY <1>3
<1> HIDE DEF Branches
<1>6. \E k \in 0..Len(w) : /\ k = 0 \/ trie[Upto(w, k)].count > 1
                           /\ \A j \in k + 1..Len(w) : trie[Upto(w, j)].count <= 1
  BY <1>4, <1>5
<1> QED
  BY <1>6 DEF LastBranch

\* Behind the last branch there is only the way to the word.
LEMMA OneWay ==
    ASSUME TrieInv, NEW w \in DOMAIN trie, trie[w].count = 0,
           NEW i \in 0..Len(w), i < Len(w),
           \A j \in i + 1..Len(w) : trie[Upto(w, j)].count <= 1,
           NEW q \in DOMAIN trie, Extends(q, Upto(w, i + 1))
    PROVE  Extends(w, q)
<1>1. SUFFICES ASSUME ~Extends(w, q)
               PROVE  FALSE
  OBVIOUS
<1>2. /\ w \in Strings /\ q \in Strings /\ Len(w) \in Nat /\ i \in Nat
      /\ i + 1 \in 0..Len(w)
  BY TrieStrings, ExtendsOrder
<1> DEFINE Shared == {j \in 0..Len(w) : Extends(q, Upto(w, j))}
<1>3. Shared \subseteq 0..Len(w) /\ i + 1 \in Shared
  BY <1>2
<1>4. PICK j \in Shared : \A m \in Shared : m <= j
  <2> HIDE DEF Shared
  <2> QED
    BY <1>2, <1>3, Greatest
<1>5. j \in 0..Len(w) /\ j \in i + 1..Len(w) /\ Extends(q, Upto(w, j))
  BY <1>2, <1>3, <1>4
<1>6. j + 1 \in 0..Len(w) => ~Extends(q, Upto(w, j + 1))
  BY <1>4, <1>5
<1> HIDE DEF Shared
<1>7. PICK u : u = Upto(w, j)
  OBVIOUS
<1>8. u \in Strings /\ Len(u) = j /\ Extends(w, u) /\ Extends(q, u)
  BY <1>2, <1>5, <1>7, Beginnings
<1>9. u \in DOMAIN trie /\ q # u
  BY <1>1, <1>8, TrieStrings
<1>10. PICK c : c = Upto(q, j + 1)
  OBVIOUS
<1>11. c \in Children(u) /\ Extends(q, c)
  BY <1>8, <1>9, <1>10, NextOnTheWay
<1>12. w # u
  BY <1>9, <1>11, ChildrenAre
<1>13. PICK d : d = Upto(w, j + 1)
  OBVIOUS
<1>14. d \in Children(u) /\ j + 1 \in 0..Len(w)
  BY <1>8, <1>9, <1>12, <1>13, NextOnTheWay
<1>15. trie[u].count <= 1
  BY <1>5, <1>7
<1>16. c = d
  BY <1>9, <1>11, <1>14, <1>15, ChildrenAre
<1> QED
  BY <1>6, <1>11, <1>13, <1>14, <1>16

-----------------------------------------------------------------------------
\* Del panics where several children are.
LEMMA PanicsAtABranch ==
    ASSUME TrieInv, NEW w \in DOMAIN trie, w # <<>>
    PROVE  DelPanics(w) <=> trie[w].count > 1
<1>1. w \in Strings /\ Len(w) \in Nat /\ Len(w) # 0 /\ Len(w) \in 0..Len(w)
  BY TrieStrings, NodesAre, ExtendsOrder
<1>2. Upto(w, Len(w)) = w
  BY <1>1, Beginnings, ExtendsOrder
<1>3. trie[w].count \in Nat
  BY ChildrenAre
<1>4. PICK i : i = LastBranch(w)
  OBVIOUS
<1>5. /\ i \in 0..Len(w) /\ (i = 0 \/ trie[Upto(w, i)].count > 1)
      /\ \A j \in i + 1..Len(w) : trie[Upto(w, j)].count <= 1
  BY <1>4, LastBranchIs
<1>6. i = Len(w) => trie[w].count > 1
  BY <1>1, <1>2, <1>5
<1>7. i # Len(w) => ~(trie[w].count > 1)
  <2>1. i # Len(w) => Len(w) \in i + 1..Len(w)
    BY <1>1, <1>5
  <2> QED
    BY <1>2, <1>3, <1>5, <2>1
<1> QED
  BY <1>4, <1>6, <1>7 DEF DelPanics

LEMMA FindsWhatItShould ==
    ASSUME TrieInv
    PROVE  FindsWhatWasTold
<1>1. ASSUME NEW w \in Words
      PROVE  IF w \in DOMAIN told THEN Find(w) = [found |-> TRUE, payload |-> told[w]]
                                  ELSE ~Find(w).found
  <2>1. CASE w \in DOMAIN told
    <3>1. w \in DOMAIN trie /\ trie[w].payload = told[w]
      BY <2>1 DEF TrieInv
    <3>2. trie[w].isWord \in BOOLEAN /\ (trie[w].isWord <=> w \in DOMAIN told)
      BY <3>1 DEF TrieInv, TrieTypeOK
    <3>3. trie[w].isWord = TRUE
      BY <2>1, <3>2
    <3> QED
      BY <2>1, <3>1, <3>3 DEF Find
  <2>2. CASE w \notin DOMAIN told
    <3>1. w \in DOMAIN trie => ~trie[w].isWord
      BY <2>2 DEF TrieInv
    <3> QED
      BY <2>2, <3>1 DEF Find
  <2> QED
    BY <2>1, <2>2
<1>2. ASSUME NEW p \in Words
      PROVE  FindAll(p) = {w \in DOMAIN told : Extends(w, p)}
  BY DEF FindAll, TrieInv
<1> QED
  BY <1>1, <1>2 DEF FindsWhatWasTold

LEMMA CountsAreRight ==
    ASSUME TrieInv
    PROVE  CountsAreChildren
<1>1. SUFFICES ASSUME NEW p \in DOMAIN trie
               PROVE  /\ trie[p].count = Cardinality(Children(p))
                      /\ trie[p].count = 0 /\ p # <<>> => trie[p].isWord
  BY DEF CountsAreChildren
<1>2. trie[p].count = Cardinality(Children(p))
  BY DEF TrieInv
<1>3. ASSUME trie[p].count = 0, p # <<>>
      PROVE  trie[p].isWord
  <2>1. PICK u \in DOMAIN told : Extends(u, p)
    BY <1>3 DEF TrieInv
  <2>2. u = p
    BY <1>3, <2>1, TrieStrings, NextOnTheWay, ChildrenAre
  <2> QED
    BY <2>1, <2>2 DEF TrieInv
<1> QED
  BY <1>2, <1>3

\* Children differ in their last letter.
LEMMA ChildrenDiffer ==
    ASSUME TrieInv, NEW w \in DOMAIN trie, NEW c \in Children(w), NEW d \in Children(w),
           NEW u \in DOMAIN trie, Extends(u, c), NEW v \in DOMAIN trie, Extends(v, d)
    PROVE  /\ Extends(u, w) /\ Extends(v, w) /\ Len(u) > Len(w) /\ Len(v) > Len(w)
           /\ c # d <=> u[Len(w) + 1] # v[Len(w) + 1]
<1>1. /\ w \in Strings /\ c \in Strings /\ d \in Strings
      /\ u \in Strings /\ v \in Strings
      /\ Len(w) \in Nat /\ Len(u) \in Nat /\ Len(v) \in Nat
  BY TrieStrings, ExtendsOrder DEF Children
<1>2. Extends(c, w) /\ Len(c) = Len(w) + 1 /\ Extends(d, w) /\ Len(d) = Len(w) + 1
  BY DEF Children
<1>3. /\ Extends(u, w) /\ Len(u) > Len(w)
      /\ Extends(v, w) /\ Len(v) > Len(w)
  <2>1. Extends(u, w) /\ Extends(v, w)
    BY <1>1, <1>2, ExtendsOrder
  <2>2. Len(c) <= Len(u) /\ Len(d) <= Len(v)
    BY <1>1, ExtendsOrder
  <2> QED
    BY <1>1, <1>2, <2>1, <2>2
<1>4. u[Len(w) + 1] = c[Len(w) + 1] /\ v[Len(w) + 1] = d[Len(w) + 1]
  <2>1. Len(w) + 1 \in 1..Len(c) /\ Len(w) + 1 \in 1..Len(d)
    BY <1>1, <1>2
  <2> QED
    BY <1>1, <2>1, ExtendsIs
<1>5. ASSUME c[Len(w) + 1] = d[Len(w) + 1]
      PROVE  c = d
  <2>1. \A j \in 1..Len(w) : c[j] = w[j] /\ d[j] = w[j]
    BY <1>1, <1>2, ExtendsIs
  <2>2. \A j \in 1..Len(c) : c[j] = d[j]
    BY <1>1, <1>2, <1>5, <2>1
  <2> QED
    BY <1>1, <1>2, <2>2, SeqEqual DEF Strings
<1> QED
  BY <1>3, <1>4, <1>5

LEMMA DelWorksAsItShould ==
    ASSUME TrieInv
    PROVE  DelWorksForWords
<1>1. SUFFICES ASSUME NEW w \in DOMAIN told
               PROVE  DelPanics(w) <=> \E u, v \in DOMAIN told :
                            /\ Extends(u, w) /\ Extends(v, w)
                            /\ Len(u) > Len(w) /\ Len(v) > Len(w)
                            /\ u[Len(w) + 1] # v[Len(w) + 1]
  BY DEF DelWorksForWords
<1>2. w \in DOMAIN trie /\ w # <<>>
  BY TrieStrings, NodesAre
<1>3. DelPanics(w) <=> \E c, d \in Children(w) : c # d
  BY <1>2, PanicsAtABranch, ChildrenAre
<1>4. ASSUME NEW c \in Children(w), NEW d \in Children(w), c # d
      PROVE  \E u, v \in DOMAIN told :
                            /\ Extends(u, w) /\ Extends(v, w)
                            /\ Len(u) > Len(w) /\ Len(v) > Len(w)
                            /\ u[Len(w) + 1] # v[Len(w) + 1]
  <2>1. /\ c \in DOMAIN trie /\ c # <<>> /\ d \in DOMAIN trie /\ d # <<>>
    BY <1>2, TrieStrings, NodesAre, ExtendsOrder DEF Children
  <2>2. PICK u \in DOMAIN told : Extends(u, c)
    BY <2>1 DEF TrieInv
  <2>3. PICK v \in DOMAIN told : Extends(v, d)
    BY <2>1 DEF TrieInv
  <2> QED
    BY <1>2, <1>4, <2>2, <2>3, TrieStrings, ChildrenDiffer
<1>5. ASSUME NEW u \in DOMAIN told, NEW v \in DOMAIN told,
             Extends(u, w), Extends(v, w), Len(u) > Len(w), Len(v) > Len(w),
             u[Len(w) + 1] # v[Len(w) + 1]
      PROVE  \E c, d \in Children(w) : c # d
  <2>1. u \in DOMAIN trie /\ v \in DOMAIN trie /\ u # w /\ v # w
    BY <1>2, <1>5, TrieStrings, ExtendsOrder
  <2>2. PICK c \in Children(w) : Extends(u, c)
    BY <1>2, <1>5, <2>1, NextOnTheWay
  <2>3. PICK d \in Children(w) : Extends(v, d)
    BY <1>2, <1>5, <2>1, NextOnTheWay
  <2> QED
    BY <1>2, <1>5, <2>1, <2>2, <2>3, ChildrenDiffer
<1> QED
  BY <1>3, <1>4, <1>5

LEMMA TrieInvMeans ==
    ASSUME TrieInv
    PROVE  TrieIsItsWords
BY FindsWhatItShould, CountsAreRight, DelWorksAsItShould DEF TrieIsItsWords

-----------------------------------------------------------------------------
\* The nodes on the way to w.
LEMMA Way ==
    ASSUME NEW w \in Strings
    PROVE  /\ {Upto(w, i) : i \in 0..Len(w)} = {u \in Strings : Extends(w, u)}
           /\ IsFiniteSet({u \in Strings : Extends(w, u)})
<1> DEFINE path == {u \in Strings : Extends(w, u)}
<1>1. Len(w) \in Nat
  BY ExtendsOrder
<1>2. ASSUME NEW u \in path
      PROVE  Len(u) \in 0..Len(w) /\ u = Upto(w, Len(u))
  BY <1>1, <1>2, ExtendsOrder DEF Extends
<1>3. {Upto(w, i) : i \in 0..Len(w)} = path
  <2>1. \A i \in 0..Len(w) : Upto(w, i) \in path
    BY Beginnings
  <2> HIDE DEF path
  <2> QED
    BY <1>2, <2>1
<1>4. IsFiniteSet(path)
  <2> DEFINE f == [u \in path |-> Len(u)]
  <2>1. f \in Injection(path, 0..Len(w))
    <3>1. f \in [path -> 0..Len(w)]
      BY <1>2
    <3>2. \A u, v \in path : f[u] = f[v] => u = v
      <4> HIDE DEF path
      <4> QED
        BY <1>2
    <3> HIDE DEF f, path
    <3> QED
      BY <3>1, <3>2 DEF Injection, IsInjective
  <2>2. IsFiniteSet(0..Len(w))
    BY <1>1, FS_Interval
  <2> HIDE DEF f, path
  <2> QED
    BY <2>1, <2>2, FS_Injection
<1> QED
  BY <1>3, <1>4

\* A node that is counted up, or becomes a word, is a node.
LEMMA NodesStay ==
    ASSUME NEW p \in Payloads,
           NEW node \in [count : Nat, isWord : BOOLEAN, payload : Payloads \union {NoPayload}]
    PROVE  /\ [node EXCEPT !.payload = p, !.isWord = TRUE]
                \in [count : Nat, isWord : BOOLEAN, payload : Payloads \union {NoPayload}]
           /\ [node EXCEPT !.count = @ + 1]
                \in [count : Nat, isWord : BOOLEAN, payload : Payloads \union {NoPayload}]
<1>1. [node EXCEPT !.payload = p, !.isWord = TRUE]
        \in [count : Nat, isWord : BOOLEAN, payload : Payloads \union {NoPayload}]
  OBVIOUS
<1>2. [node EXCEPT !.count = @ + 1]
        \in [count : Nat, isWord : BOOLEAN, payload : Payloads \union {NoPayload}]
  OBVIOUS
<1> QED
  BY <1>1, <1>2

\* Insert: types, and what is where.
LEMMA InsertMakes ==
    ASSUME TrieInv, NEW w \in Words, NEW p \in Payloads, Insert(w, p),
           NEW path, path = {u \in Strings : Extends(w, u)}
    PROVE  /\ DOMAIN trie' = DOMAIN trie \union path
           /\ \A q \in DOMAIN trie' :
                LET node == IF q \in DOMAIN trie THEN trie[q] ELSE NewNode
                IN  trie'[q] = IF q = w THEN [node EXCEPT !.payload = p, !.isWord = TRUE]
                               ELSE IF q \in path /\ Upto(w, Len(q) + 1) \notin DOMAIN trie
                                    THEN [node EXCEPT !.count = @ + 1] ELSE node
           /\ DOMAIN told' = DOMAIN told \union {w}
           /\ \A u \in DOMAIN told' : told'[u] = IF u = w THEN p ELSE told[u]
<1>1. w \in Strings
  BY NodesAre
<1>2. {Upto(w, i) : i \in 0..Len(w)} = path
  BY <1>1, Way
<1>3. trie' = [q \in DOMAIN trie \union path |->
                 LET node == IF q \in DOMAIN trie THEN trie[q] ELSE NewNode
                 IN  IF q = w THEN [node EXCEPT !.payload = p, !.isWord = TRUE]
                     ELSE IF q \in path /\ Upto(w, Len(q) + 1) \notin DOMAIN trie
                          THEN [node EXCEPT !.count = @ + 1] ELSE node]
  BY <1>2 DEF Insert, WithPath
<1>4. told' = [u \in DOMAIN told \union {w} |-> IF u = w THEN p ELSE told[u]]
  BY DEF Insert
<1> QED
  BY <1>3, <1>4

LEMMA InsertTypes ==
    ASSUME TrieInv, NEW w \in Words, NEW p \in Payloads, Insert(w, p), edits' \in Nat
    PROVE  TrieTypeOK'
<1> DEFINE path == {u \in Strings : Extends(w, u)}
           Nodes == [count : Nat, isWord : BOOLEAN, payload : Payloads \union {NoPayload}]
<1>1. /\ DOMAIN trie' = DOMAIN trie \union path
      /\ \A q \in DOMAIN trie' :
           LET node == IF q \in DOMAIN trie THEN trie[q] ELSE NewNode
           IN  trie'[q] = IF q = w THEN [node EXCEPT !.payload = p, !.isWord = TRUE]
                          ELSE IF q \in path /\ Upto(w, Len(q) + 1) \notin DOMAIN trie
                               THEN [node EXCEPT !.count = @ + 1] ELSE node
      /\ DOMAIN told' = DOMAIN told \union {w}
      /\ \A u \in DOMAIN told' : told'[u] = IF u = w THEN p ELSE told[u]
  BY InsertMakes
<1>2. path \subseteq Words \union {<<>>}
  <2>1. SUFFICES ASSUME NEW u \in Strings, Extends(w, u)
                 PROVE  u \in Words \union {<<>>}
    OBVIOUS
  <2>2. w \in Strings /\ Len(w) <= MaxWord
    BY NodesAre
  <2>3. Len(w) \in Nat /\ Len(u) \in Nat /\ Len(u) <= Len(w)
    BY <2>1, <2>2, ExtendsOrder
  <2>4. Len(u) <= MaxWord /\ (Len(u) >= 1 \/ Len(u) = 0)
    BY <2>2, <2>3, WordAssumption
  <2> QED
    BY <2>4, NodesAre
<1>3. DOMAIN trie' \subseteq Words \union {<<>>} /\ DOMAIN told' \subseteq Words
  BY <1>1, <1>2 DEF TrieInv, TrieTypeOK
<1>4. \A q \in DOMAIN trie : trie[q] \in Nodes
  BY DEF TrieInv, TrieTypeOK
<1>5. NewNode \in Nodes
  BY DEF NewNode
<1>6. ASSUME NEW q \in DOMAIN trie'
      PROVE  trie'[q] \in Nodes
  <2>1. PICK node \in Nodes :
          trie'[q] = IF q = w THEN [node EXCEPT !.payload = p, !.isWord = TRUE]
                     ELSE IF q \in path /\ Upto(w, Len(q) + 1) \notin DOMAIN trie
                          THEN [node EXCEPT !.count = @ + 1] ELSE node
    <3> DEFINE old == IF q \in DOMAIN trie THEN trie[q] ELSE NewNode
    <3>1. old \in Nodes
      BY <1>4, <1>5
    <3>2. trie'[q] = IF q = w THEN [old EXCEPT !.payload = p, !.isWord = TRUE]
                     ELSE IF q \in path /\ Upto(w, Len(q) + 1) \notin DOMAIN trie
                          THEN [old EXCEPT !.count = @ + 1] ELSE old
      BY <1>1
    <3> HIDE DEF old, Nodes, path
    <3> QED
      BY <3>1, <3>2
  <2>2. /\ [node EXCEPT !.payload = p, !.isWord = TRUE] \in Nodes
        /\ [node EXCEPT !.count = @ + 1] \in Nodes
    BY NodesStay
  <2> HIDE DEF Nodes, path
  <2> QED
    BY <2>1, <2>2
<1>7. trie' = [q \in DOMAIN trie' |-> trie'[q]] /\ told' = [u \in DOMAIN told' |-> told'[u]]
  <2>1. trie' = WithPath(w, p)
        /\ told' = [u \in DOMAIN told \union {w} |-> IF u = w THEN p ELSE told[u]]
    BY DEF Insert
  <2> QED
    BY <2>1 DEF WithPath
<1>8. trie' \in [DOMAIN trie' -> Nodes]
  <2> HIDE DEF Nodes, path
  <2> QED
    BY <1>6, <1>7
<1>9. told' \in [DOMAIN told' -> Payloads]
  <2>1. \A u \in DOMAIN told : told[u] \in Payloads
    BY DEF TrieInv, TrieTypeOK
  <2>2. \A u \in DOMAIN told' : told'[u] = IF u = w THEN p ELSE told[u]
    BY <1>1
  <2>3. \A u \in DOMAIN told' : told'[u] \in Payloads
    <3>1. \A u \in DOMAIN told' : u = w \/ u \in DOMAIN told
      BY <1>1
    <3> QED
      BY <2>1, <2>2, <3>1
  <2> QED
    BY <1>7, <2>3
<1>10. broken' \in BOOLEAN
  BY DEF Insert, TrieInv, TrieTypeOK
<1> QED
  BY <1>3, <1>8, <1>9, <1>10 DEF TrieTypeOK

LEMMA NodesChange ==
    ASSUME NEW p \in Payloads,
           NEW node \in [count : Nat, isWord : BOOLEAN, payload : Payloads \union {NoPayload}]
    PROVE  /\ [node EXCEPT !.payload = p, !.isWord = TRUE].count = node.count
           /\ [node EXCEPT !.payload = p, !.isWord = TRUE].isWord
           /\ [node EXCEPT !.payload = p, !.isWord = TRUE].payload = p
           /\ [node EXCEPT !.count = @ + 1].count = node.count + 1
           /\ [node EXCEPT !.count = @ + 1].isWord = node.isWord
           /\ [node EXCEPT !.count = @ + 1].payload = node.payload
<1>1. /\ [node EXCEPT !.payload = p, !.isWord = TRUE].count = node.count
      /\ [node EXCEPT !.payload = p, !.isWord = TRUE].payload = p
  OBVIOUS
<1>2. [node EXCEPT !.payload = p, !.isWord = TRUE].isWord
  OBVIOUS
<1>3. /\ [node EXCEPT !.count = @ + 1].count = node.count + 1
      /\ [node EXCEPT !.count = @ + 1].isWord = node.isWord
      /\ [node EXCEPT !.count = @ + 1].payload = node.payload
  OBVIOUS
<1> QED
  BY <1>1, <1>2, <1>3

\* The nodes after Insert, field by field.
LEMMA InsertNodes ==
    ASSUME TrieInv, NEW w \in Words, NEW p \in Payloads, Insert(w, p),
           NEW q \in DOMAIN trie'
    PROVE  /\ trie'[q].isWord <=> q = w \/ (q \in DOMAIN trie /\ trie[q].isWord)
           /\ q = w => trie'[q].payload = p
           /\ q \in DOMAIN trie /\ q # w => trie'[q].payload = trie[q].payload
           /\ trie'[q].count
                = (IF q \in DOMAIN trie THEN trie[q].count ELSE 0)
                    + IF /\ q # w /\ Extends(w, q)
                         /\ Upto(w, Len(q) + 1) \notin DOMAIN trie THEN 1 ELSE 0
<1> DEFINE path == {u \in Strings : Extends(w, u)}
           node == IF q \in DOMAIN trie THEN trie[q] ELSE NewNode
           Nodes == [count : Nat, isWord : BOOLEAN, payload : Payloads \union {NoPayload}]
<1>1. DOMAIN trie' = DOMAIN trie \union path
      /\ trie'[q] = IF q = w THEN [node EXCEPT !.payload = p, !.isWord = TRUE]
                    ELSE IF q \in path /\ Upto(w, Len(q) + 1) \notin DOMAIN trie
                         THEN [node EXCEPT !.count = @ + 1] ELSE node
  BY InsertMakes
<1>2. /\ node \in Nodes
      /\ q \in DOMAIN trie => node = trie[q]
      /\ q \notin DOMAIN trie => node.count = 0 /\ ~node.isWord
  BY DEF NewNode, TrieInv, TrieTypeOK
<1>3. q \in Strings
  BY <1>1, TrieStrings
<1>4. q \in path <=> Extends(w, q)
  BY <1>3
<1> HIDE DEF path, node
<1>5. PICK n \in Nodes :
        /\ n = node
        /\ trie'[q] = IF q = w THEN [n EXCEPT !.payload = p, !.isWord = TRUE]
                      ELSE IF Extends(w, q) /\ Upto(w, Len(q) + 1) \notin DOMAIN trie
                           THEN [n EXCEPT !.count = @ + 1] ELSE n
  BY <1>1, <1>2, <1>4
<1>6. n.count \in Nat
  OBVIOUS
<1>7. CASE q = w
  BY <1>2, <1>5, <1>6, <1>7, NodesChange
<1>8. CASE q # w /\ Extends(w, q) /\ Upto(w, Len(q) + 1) \notin DOMAIN trie
  BY <1>2, <1>5, <1>6, <1>8, NodesChange
<1>9. CASE q # w /\ ~(Extends(w, q) /\ Upto(w, Len(q) + 1) \notin DOMAIN trie)
  BY <1>2, <1>5, <1>6, <1>9
<1> QED
  BY <1>7, <1>8, <1>9

LEMMA InsertChildren ==
    ASSUME TrieInv, NEW w \in Words, NEW p \in Payloads, Insert(w, p),
           NEW q \in DOMAIN trie'
    PROVE  /\ Children(q)' = IF q # w /\ Extends(w, q)
                             THEN Children(q) \union {Upto(w, Len(q) + 1)}
                             ELSE Children(q)
           /\ q \notin DOMAIN trie => Children(q) = {}
<1> DEFINE path == {u \in Strings : Extends(w, u)}
<1>1. DOMAIN trie' = DOMAIN trie \union path
  BY InsertMakes
<1>2. w \in Strings /\ q \in Strings /\ DOMAIN trie \subseteq Strings
  BY <1>1, TrieStrings, NodesAre
<1>3. Len(w) \in Nat /\ Len(q) \in Nat
  BY <1>2, ExtendsOrder
<1>4. ASSUME NEW r \in Children(q)'
      PROVE  r \in Children(q) \/ (q # w /\ Extends(w, q) /\ r = Upto(w, Len(q) + 1))
  <2>1. r \in DOMAIN trie' /\ Len(r) = Len(q) + 1 /\ Extends(r, q)
    BY DEF Children
  <2>2. CASE r \in DOMAIN trie
    BY <2>1, <2>2 DEF Children
  <2>3. CASE r \in path
    <3>1. r \in Strings /\ Extends(w, r) /\ Extends(w, q)
      BY <1>2, <2>1, <2>3, ExtendsOrder
    <3>2. Len(r) <= Len(w)
      BY <1>2, <3>1, ExtendsOrder
    <3>3. q # w /\ r = Upto(w, Len(q) + 1)
      BY <1>3, <2>1, <3>1, <3>2 DEF Extends
    <3> QED
      BY <3>1, <3>3
  <2> QED
    BY <1>1, <2>1, <2>2, <2>3
<1>5. ASSUME q # w, Extends(w, q)
      PROVE  Upto(w, Len(q) + 1) \in Children(q)'
  <2>1. Len(q) + 1 \in 0..Len(w)
    BY <1>2, <1>3, <1>5, ExtendsOrder
  <2>2. PICK c : c = Upto(w, Len(q) + 1)
    OBVIOUS
  <2>3. c \in Strings /\ Len(c) = Len(q) + 1 /\ Extends(w, c)
    BY <1>2, <2>1, <2>2, Beginnings
  <2>4. Extends(c, q)
    BY <1>2, <1>3, <1>5, <2>3, ExtendsOrder
  <2>5. c \in DOMAIN trie'
    BY <1>1, <2>3
  <2> QED
    BY <2>2, <2>3, <2>4, <2>5 DEF Children
<1>6. Children(q) \subseteq Children(q)'
  <2> HIDE DEF path
  <2> QED
    BY <1>1 DEF Children
<1>7. q \notin DOMAIN trie => Children(q) = {}
  <2>1. \A r \in Children(q) : r \in DOMAIN trie /\ Extends(r, q)
    BY DEF Children
  <2> QED
    BY <1>2, <2>1, TrieStrings
<1> QED
  BY <1>4, <1>5, <1>6, <1>7

LEMMA InsertKeeps ==
    ASSUME TrieInv, NEW w \in Words, NEW p \in Payloads, Insert(w, p), edits' \in Nat
    PROVE  TrieInv'
<1> DEFINE path == {u \in Strings : Extends(w, u)}
<1>1. TrieTypeOK'
  BY InsertTypes
<1>2. /\ DOMAIN trie' = DOMAIN trie \union path
      /\ DOMAIN told' = DOMAIN told \union {w}
      /\ \A u \in DOMAIN told' : told'[u] = IF u = w THEN p ELSE told[u]
  BY InsertMakes
<1>3. w \in Strings /\ DOMAIN trie' \subseteq Strings /\ w \in DOMAIN trie' /\ Len(w) \in Nat
  <2>1. w \in Strings
    BY NodesAre
  <2> QED
    BY <1>2, <2>1, TrieStrings, ExtendsOrder
<1>4. IsFiniteSet(DOMAIN trie') /\ <<>> \in DOMAIN trie'
  <2>1. IsFiniteSet(path)
    BY <1>3, Way
  <2> HIDE DEF path
  <2>2. IsFiniteSet(DOMAIN trie) /\ <<>> \in DOMAIN trie
    BY DEF TrieInv
  <2>3. IsFiniteSet(DOMAIN trie \union path)
    BY <2>1, <2>2, FS_Union
  <2> QED
    BY <1>2, <2>2, <2>3
<1>5. ASSUME NEW q \in DOMAIN trie', NEW i \in 0..Len(q)
      PROVE  Upto(q, i) \in DOMAIN trie'
  <2>1. Upto(q, i) \in Strings /\ Extends(q, Upto(q, i))
    BY <1>3, Beginnings
  <2>2. CASE q \in DOMAIN trie
    BY <1>2, <2>2 DEF TrieInv
  <2>3. CASE q \in path
    <3>1. Extends(w, Upto(q, i))
      BY <1>3, <2>1, <2>3, ExtendsOrder
    <3> QED
      BY <1>2, <2>1, <3>1
  <2> QED
    BY <1>2, <2>2, <2>3
<1>6. ASSUME NEW q \in DOMAIN trie'
      PROVE  /\ trie'[q].isWord <=> q \in DOMAIN told'
             /\ trie'[q].count = Cardinality(Children(q)')
             /\ q # <<>> => \E u \in DOMAIN told' : Extends(u, q)
  <2>1. trie'[q].isWord <=> q \in DOMAIN told'
    <3>1. q \in DOMAIN told => q \in DOMAIN trie
      BY TrieStrings
    <3>2. q \in DOMAIN trie => (trie[q].isWord <=> q \in DOMAIN told)
      BY DEF TrieInv
    <3> QED
      BY <1>2, <3>1, <3>2, InsertNodes
  <2>2. trie'[q].count = Cardinality(Children(q)')
    <3> DEFINE old == IF q \in DOMAIN trie THEN trie[q].count ELSE 0
               next == Upto(w, Len(q) + 1)
    <3>1. IsFiniteSet(Children(q)) /\ old = Cardinality(Children(q)) /\ old \in Nat
      <4>1. CASE q \in DOMAIN trie
        BY <4>1, ChildrenAre DEF TrieInv
      <4>2. CASE q \notin DOMAIN trie
        BY <4>2, InsertChildren, FS_EmptySet
      <4> QED
        BY <4>1, <4>2
    <3>2. trie'[q].count = old + IF q # w /\ Extends(w, q) /\ next \notin DOMAIN trie
                                 THEN 1 ELSE 0
      BY InsertNodes
    <3>3. Children(q)' = IF q # w /\ Extends(w, q)
                         THEN Children(q) \union {next} ELSE Children(q)
      BY InsertChildren
    <3>4. q # w /\ Extends(w, q) => (next \in Children(q) <=> next \in DOMAIN trie)
      <4>1. SUFFICES ASSUME q # w, Extends(w, q)
                     PROVE  next \in Children(q) <=> next \in DOMAIN trie
        OBVIOUS
      <4>2. next \in Children(q)'
        BY <3>3, <4>1
      <4>3. Len(next) = Len(q) + 1 /\ Extends(next, q)
        <5> HIDE DEF next
        <5> QED
          BY <4>2 DEF Children
      <4> HIDE DEF next
      <4> QED
        BY <4>3 DEF Children
    <3> HIDE DEF old, next
    <3>5. CASE q # w /\ Extends(w, q)
      <4>1. Cardinality(Children(q) \union {next})
              = IF next \in Children(q) THEN Cardinality(Children(q))
                ELSE Cardinality(Children(q)) + 1
        BY <3>1, FS_AddElement
      <4>2. Children(q)' = Children(q) \union {next}
        BY <3>3, <3>5
      <4>3. Cardinality(Children(q)') = IF next \in DOMAIN trie THEN old ELSE old + 1
        BY <3>1, <3>4, <3>5, <4>1, <4>2
      <4> QED
        BY <3>1, <3>2, <3>5, <4>3
    <3>6. CASE ~(q # w /\ Extends(w, q))
      <4>1. Children(q)' = Children(q)
        BY <3>3, <3>6
      <4> QED
        BY <3>1, <3>2, <3>6, <4>1
    <3> QED
      BY <3>5, <3>6
  <2>3. q # <<>> => \E u \in DOMAIN told' : Extends(u, q)
    <3>1. CASE q \in DOMAIN trie
      BY <1>2, <3>1 DEF TrieInv
    <3>2. CASE q \in path
      BY <1>2, <3>2
    <3> QED
      BY <1>2, <3>1, <3>2
  <2> QED
    BY <2>1, <2>2, <2>3
<1>7. ASSUME NEW u \in DOMAIN told'
      PROVE  u \in DOMAIN trie' /\ trie'[u].payload = told'[u]
  <2>1. CASE u = w
    BY <1>2, <1>3, <2>1, InsertNodes
  <2>2. CASE u # w
    <3>1. u \in DOMAIN told /\ u \in DOMAIN trie /\ u \in DOMAIN trie'
      BY <1>2, <2>2, TrieStrings
    <3>2. trie'[u].payload = trie[u].payload
      BY <2>2, <3>1, InsertNodes
    <3> QED
      BY <1>2, <2>2, <3>1, <3>2 DEF TrieInv
  <2> QED
    BY <2>1, <2>2
<1> HIDE DEF path
<1> QED
  BY <1>1, <1>4, <1>5, <1>6, <1>7 DEF TrieInv

-----------------------------------------------------------------------------
\* Del of a word with children unmarks it.
LEMMA UnmarkKeeps ==
    ASSUME TrieInv, NEW w \in Words, Del(w), ~DelPanics(w), trie[w].count > 0,
           edits' \in Nat
    PROVE  TrieInv'
<1> DEFINE Nodes == [count : Nat, isWord : BOOLEAN, payload : Payloads \union {NoPayload}]
<1>1. w \in DOMAIN trie /\ w \in Strings
  BY NodesAre DEF DelPanics
<1>2. PICK c \in Children(w) : TRUE
  BY <1>1, ChildrenAre
<1>3. c \in DOMAIN trie /\ Extends(c, w) /\ c # w /\ c # <<>> /\ c \in Strings
  BY <1>1, <1>2, TrieStrings, NodesAre, ExtendsOrder DEF Children
<1>4. PICK v \in DOMAIN told : Extends(v, c)
  BY <1>3 DEF TrieInv
<1>5. v \in Strings /\ v # w /\ Extends(v, w)
  <2>1. v \in Strings
    BY TrieStrings
  <2>2. Extends(v, w)
    BY <1>1, <1>3, <1>4, <2>1, ExtendsOrder
  <2>3. Len(c) = Len(w) + 1 /\ Len(c) <= Len(v) /\ Len(w) \in Nat
    BY <1>1, <1>2, <1>3, <1>4, <2>1, ExtendsOrder DEF Children
  <2> QED
    BY <2>1, <2>2, <2>3, ExtendsOrder
<1>6. /\ trie' = [trie EXCEPT ![w].isWord = FALSE]
      /\ told' = [u \in DOMAIN told \ {w} |-> told[u]]
      /\ UNCHANGED broken
  BY <1>4, <1>5 DEF Del, Without, Taken
<1>7. DOMAIN trie' = DOMAIN trie /\ DOMAIN told' = DOMAIN told \ {w}
  BY <1>6
<1>8. trie \in [DOMAIN trie -> Nodes]
  BY DEF TrieInv, TrieTypeOK
<1>9. \A q \in DOMAIN trie :
        /\ trie'[q].count = trie[q].count /\ trie'[q].payload = trie[q].payload
        /\ trie'[q].isWord <=> q # w /\ trie[q].isWord
  BY <1>1, <1>6, <1>8
<1>10. TrieTypeOK'
  <2>1. trie' \in [DOMAIN trie -> Nodes]
    BY <1>1, <1>6, <1>8
  <2>2. told' \in [DOMAIN told' -> Payloads]
    BY <1>6 DEF TrieInv, TrieTypeOK
  <2> QED
    BY <1>6, <1>7, <2>1, <2>2 DEF TrieInv, TrieTypeOK
<1>11. \A q : Children(q)' = Children(q)
  BY <1>7 DEF Children
<1>12. ASSUME NEW q \in DOMAIN trie'
       PROVE  /\ trie'[q].isWord <=> q \in DOMAIN told'
              /\ trie'[q].count = Cardinality(Children(q)')
              /\ q # <<>> => \E u \in DOMAIN told' : Extends(u, q)
  <2>1. trie'[q].isWord <=> q \in DOMAIN told'
    BY <1>7, <1>9 DEF TrieInv
  <2>2. trie'[q].count = Cardinality(Children(q)')
    BY <1>7, <1>9, <1>11 DEF TrieInv
  <2>3. ASSUME q # <<>>
        PROVE  \E u \in DOMAIN told' : Extends(u, q)
    <3>1. PICK u \in DOMAIN told : Extends(u, q)
      BY <1>7, <2>3 DEF TrieInv
    <3>2. u = w => Extends(v, q)
      BY <1>1, <1>5, <1>7, <3>1, TrieStrings, ExtendsOrder
    <3> QED
      BY <1>5, <1>7, <3>1, <3>2
  <2> QED
    BY <2>1, <2>2, <2>3
<1>13. \A u \in DOMAIN told' : u \in DOMAIN trie' /\ trie'[u].payload = told'[u]
  BY <1>6, <1>7, <1>9 DEF TrieInv
<1>14. /\ IsFiniteSet(DOMAIN trie') /\ <<>> \in DOMAIN trie'
       /\ \A q \in DOMAIN trie' : \A i \in 0..Len(q) : Upto(q, i) \in DOMAIN trie'
  BY <1>7 DEF TrieInv
<1> QED
  BY <1>10, <1>12, <1>13, <1>14 DEF TrieInv

\* What Del cuts off, and what that takes from the words: the nodes behind the
\* last branch are the way to w.
LEMMA CutIs ==
    ASSUME TrieInv, NEW w \in Words, ~DelPanics(w), ~(trie[w].count > 0)
    PROVE  \E b, c \in DOMAIN trie :
             /\ Cut(w, LastBranch(w))
                  = [q \in {r \in DOMAIN trie : ~Extends(r, c)} |->
                       IF q = b THEN [trie[q] EXCEPT !.count = @ - 1] ELSE trie[q]]
             /\ Taken(w) = {u \in DOMAIN told : Extends(u, c)}
             /\ Len(c) = Len(b) + 1 /\ Extends(c, b)
             /\ b = <<>> \/ trie[b].count > 1
<1>1. /\ w \in DOMAIN trie /\ w # <<>> /\ w \in Strings /\ Len(w) \in Nat
      /\ trie[w].count = 0 /\ LastBranch(w) # Len(w)
  BY NodesAre, ExtendsOrder, ChildrenAre DEF DelPanics
<1>2. PICK i : i = LastBranch(w)
  OBVIOUS
<1>3. /\ i \in 0..Len(w) /\ i < Len(w) /\ i + 1 \in 0..Len(w)
      /\ i = 0 \/ trie[Upto(w, i)].count > 1
      /\ \A j \in i + 1..Len(w) : trie[Upto(w, j)].count <= 1
  BY <1>1, <1>2, LastBranchIs
<1>4. PICK b : b = Upto(w, i)
  OBVIOUS
<1>5. PICK c : c = Upto(w, i + 1)
  OBVIOUS
<1>6. /\ b \in Strings /\ Len(b) = i /\ Extends(w, b)
      /\ c \in Strings /\ Len(c) = i + 1 /\ Extends(w, c)
  BY <1>1, <1>3, <1>4, <1>5, Beginnings
<1>7. b \in DOMAIN trie /\ c \in DOMAIN trie
  BY <1>1, <1>6, TrieStrings
<1>8. Extends(c, b)
  BY <1>1, <1>3, <1>6, ExtendsOrder
<1>9. b = <<>> \/ trie[b].count > 1
  BY <1>3, <1>4, <1>6, NodesAre
<1>10. \A q \in DOMAIN trie : Extends(q, c) => Extends(w, q)
  BY <1>1, <1>3, <1>5, OneWay
<1>11. Taken(w) = {u \in DOMAIN told : /\ Extends(w, u)
                     /\ \A v \in DOMAIN told : Extends(v, u) => Extends(w, v)}
  <2>1. ~\E v \in DOMAIN told : v # w /\ Extends(v, w)
    <3>1. SUFFICES ASSUME NEW v \in DOMAIN told, v # w, Extends(v, w)
                   PROVE  FALSE
      OBVIOUS
    <3> QED
      BY <1>1, <3>1, TrieStrings, NextOnTheWay, ChildrenAre
  <2> QED
    BY <2>1 DEF Taken
<1>12. ASSUME NEW u \in DOMAIN told, Extends(u, c)
       PROVE  /\ Extends(w, u)
              /\ \A v \in DOMAIN told : Extends(v, u) => Extends(w, v)
  <2>1. u \in DOMAIN trie /\ u \in Strings
    BY TrieStrings
  <2>2. \A v \in DOMAIN told : Extends(v, u) => v \in DOMAIN trie /\ Extends(v, c)
    BY <1>6, <1>12, <2>1, TrieStrings, ExtendsOrder
  <2> QED
    BY <1>10, <1>12, <2>1, <2>2
<1>13. ASSUME NEW u \in DOMAIN told, Extends(w, u),
              \A v \in DOMAIN told : Extends(v, u) => Extends(w, v)
       PROVE  Extends(u, c)
  <2>1. SUFFICES ASSUME ~Extends(u, c)
                 PROVE  FALSE
    OBVIOUS
  <2>2. u \in DOMAIN trie /\ u \in Strings /\ Len(u) \in Nat /\ Len(u) >= 1
    BY TrieStrings, NodesAre, ExtendsOrder
  <2>3. Len(u) <= i
    BY <1>1, <1>3, <1>6, <1>13, <2>1, <2>2, ExtendsOrder
  <2>4. Extends(b, u)
    BY <1>1, <1>6, <1>13, <2>2, <2>3, ExtendsOrder
  <2>5. trie[b].count > 1
    BY <1>3, <1>4, <2>2, <2>3
  <2>6. PICK d \in Children(b) : d # c
    BY <1>7, <2>5, ChildrenAre
  <2>7. /\ d \in DOMAIN trie /\ d \in Strings /\ d # <<>>
        /\ Len(d) = i + 1 /\ Extends(d, b)
    BY <1>3, <1>6, <2>6, TrieStrings, NodesAre DEF Children
  <2>8. PICK v \in DOMAIN told : Extends(v, d)
    BY <2>7 DEF TrieInv
  <2>9. v \in Strings /\ Extends(v, u)
    <3>1. v \in Strings
      BY TrieStrings
    <3>2. Extends(d, u)
      BY <1>6, <2>2, <2>4, <2>7, ExtendsOrder
    <3> QED
      BY <2>2, <2>7, <2>8, <3>1, <3>2, ExtendsOrder
  <2>10. Extends(w, v)
    BY <1>13, <2>9
  <2>11. Extends(w, d)
    BY <1>1, <2>7, <2>8, <2>9, <2>10, ExtendsOrder
  <2>12. d = c
    BY <1>5, <2>7, <2>11 DEF Extends
  <2> QED
    BY <2>6, <2>12
<1>14. Taken(w) = {u \in DOMAIN told : Extends(u, c)}
  BY <1>11, <1>12, <1>13
<1>15. Cut(w, LastBranch(w))
         = [q \in {r \in DOMAIN trie : ~Extends(r, c)} |->
              IF q = b THEN [trie[q] EXCEPT !.count = @ - 1] ELSE trie[q]]
  BY <1>2, <1>4, <1>5 DEF Cut
<1> QED
  BY <1>6, <1>7, <1>8, <1>9, <1>14, <1>15

\* Del of a word without children cuts its way off behind the last branch.
LEMMA CutKeeps ==
    ASSUME TrieInv, NEW w \in Words, Del(w), ~DelPanics(w), ~(trie[w].count > 0),
           edits' \in Nat
    PROVE  TrieInv'
<1> DEFINE Nodes == [count : Nat, isWord : BOOLEAN, payload : Payloads \union {NoPayload}]
<1>1. PICK b \in DOMAIN trie, c \in DOMAIN trie :
        /\ Cut(w, LastBranch(w))
             = [q \in {r \in DOMAIN trie : ~Extends(r, c)} |->
                  IF q = b THEN [trie[q] EXCEPT !.count = @ - 1] ELSE trie[q]]
        /\ Taken(w) = {u \in DOMAIN told : Extends(u, c)}
        /\ Len(c) = Len(b) + 1 /\ Extends(c, b)
        /\ b = <<>> \/ trie[b].count > 1
  BY CutIs
<1>2. /\ trie' = [q \in {r \in DOMAIN trie : ~Extends(r, c)} |->
                    IF q = b THEN [trie[q] EXCEPT !.count = @ - 1] ELSE trie[q]]
      /\ told' = [u \in DOMAIN told \ Taken(w) |-> told[u]]
      /\ UNCHANGED broken
  BY <1>1 DEF Del, Without
<1>3. /\ DOMAIN trie' = {r \in DOMAIN trie : ~Extends(r, c)}
      /\ DOMAIN told' = {u \in DOMAIN told : ~Extends(u, c)}
      /\ \A u \in DOMAIN told' : told'[u] = told[u]
  BY <1>1, <1>2
<1>4. b \in Strings /\ c \in Strings /\ Len(b) \in Nat /\ DOMAIN trie \subseteq Strings
  BY TrieStrings, ExtendsOrder
<1>5. c \in Children(b)
  BY <1>1 DEF Children
<1>6. /\ IsFiniteSet(Children(b)) /\ trie[b].count \in Nat /\ trie[b].count - 1 \in Nat
      /\ trie[b].count = Cardinality(Children(b))
  BY <1>5, ChildrenAre DEF TrieInv
<1>7. trie \in [DOMAIN trie -> Nodes]
  BY DEF TrieInv, TrieTypeOK
<1>8. ASSUME NEW q \in DOMAIN trie'
      PROVE  /\ trie'[q] \in Nodes
             /\ trie'[q].count = IF q = b THEN trie[q].count - 1 ELSE trie[q].count
             /\ trie'[q].isWord = trie[q].isWord /\ trie'[q].payload = trie[q].payload
  <2>1. trie'[q] = IF q = b THEN [trie[q] EXCEPT !.count = @ - 1] ELSE trie[q]
    BY <1>2, <1>3
  <2>2. q \in DOMAIN trie /\ trie[q] \in Nodes
    BY <1>3, <1>7
  <2> QED
    BY <1>6, <2>1, <2>2
<1>9. TrieTypeOK'
  <2>1. trie' \in [DOMAIN trie' -> Nodes]
    <3>1. trie' = [q \in DOMAIN trie' |-> trie'[q]]
      BY <1>2
    <3> HIDE DEF Nodes
    <3> QED
      BY <1>8, <3>1
  <2>2. told' \in [DOMAIN told' -> Payloads]
    BY <1>2, <1>3 DEF TrieInv, TrieTypeOK
  <2> QED
    BY <1>2, <1>3, <2>1, <2>2 DEF TrieInv, TrieTypeOK
<1>10. /\ IsFiniteSet(DOMAIN trie') /\ <<>> \in DOMAIN trie'
  <2>1. ~Extends(<<>>, c)
    BY <1>1, <1>4, NodesAre, ExtendsOrder
  <2>2. DOMAIN trie' \subseteq DOMAIN trie
    BY <1>3
  <2>3. IsFiniteSet(DOMAIN trie) /\ <<>> \in DOMAIN trie
    BY DEF TrieInv
  <2>4. IsFiniteSet(DOMAIN trie')
    BY <2>2, <2>3, FS_Subset
  <2> QED
    BY <1>3, <2>1, <2>3, <2>4
<1>11. ASSUME NEW q \in DOMAIN trie', NEW i \in 0..Len(q)
       PROVE  Upto(q, i) \in DOMAIN trie'
  <2>1. q \in DOMAIN trie /\ q \in Strings /\ ~Extends(q, c)
    BY <1>3, <1>4
  <2>2. Upto(q, i) \in DOMAIN trie
    BY <2>1 DEF TrieInv
  <2>3. Upto(q, i) \in Strings /\ Extends(q, Upto(q, i))
    BY <2>1, Beginnings
  <2>4. ~Extends(Upto(q, i), c)
    BY <1>4, <2>1, <2>3, ExtendsOrder
  <2> QED
    BY <1>3, <2>2, <2>4
<1>12. ASSUME NEW q \in DOMAIN trie'
       PROVE  /\ trie'[q].isWord <=> q \in DOMAIN told'
              /\ trie'[q].count = Cardinality(Children(q)')
              /\ q # <<>> => \E u \in DOMAIN told' : Extends(u, q)
  <2>1. q \in DOMAIN trie /\ q \in Strings /\ ~Extends(q, c) /\ Len(q) \in Nat
    BY <1>3, <1>4, ExtendsOrder
  <2>2. trie'[q].isWord <=> q \in DOMAIN told'
    BY <1>3, <1>8, <2>1 DEF TrieInv
  <2>3. Children(q)' = {r \in Children(q) : ~Extends(r, c)}
    BY <1>3 DEF Children
  <2>4. ASSUME NEW r \in Children(q), Extends(r, c)
        PROVE  q = b /\ r = c
    <3>1. r \in Strings /\ Len(r) = Len(q) + 1 /\ Extends(r, q) /\ Len(r) \in Nat
      BY <1>4, ExtendsOrder DEF Children
    <3>2. Len(c) <= Len(r) /\ Len(c) \in Nat
      BY <1>4, <2>4, <3>1, ExtendsOrder
    <3>3. ~(Len(c) <= Len(q))
      BY <1>4, <2>1, <2>4, <3>1, ExtendsOrder
    <3>4. r = c
      BY <1>4, <2>1, <2>4, <3>1, <3>2, <3>3, ExtendsOrder
    <3>5. q = b
      <4>1. Len(b) = Len(q) /\ Extends(c, b) /\ Extends(c, q)
        BY <1>1, <1>4, <2>1, <3>1, <3>4
      <4> QED
        BY <1>4, <2>1, <4>1, ExtendsOrder
    <3> QED
      BY <3>4, <3>5
  <2>5. trie'[q].count = Cardinality(Children(q)')
    <3>1. CASE q = b
      <4>1. Children(q)' = Children(b) \ {c}
        BY <1>4, <2>3, <2>4, <3>1, ExtendsOrder
      <4>2. Cardinality(Children(b) \ {c}) = Cardinality(Children(b)) - 1
        BY <1>5, <1>6, FS_RemoveElement
      <4> QED
        BY <1>6, <1>8, <3>1, <4>1, <4>2
    <3>2. CASE q # b
      <4>1. Children(q)' = Children(q)
        BY <2>3, <2>4, <3>2
      <4> QED
        BY <1>8, <2>1, <3>2, <4>1 DEF TrieInv
    <3> QED
      BY <3>1, <3>2
  <2>6. ASSUME q # <<>>
        PROVE  \E u \in DOMAIN told' : Extends(u, q)
    <3>1. PICK u \in DOMAIN told : Extends(u, q)
      BY <2>1, <2>6 DEF TrieInv
    <3>2. CASE ~Extends(u, c)
      BY <1>3, <3>1, <3>2
    <3>3. CASE Extends(u, c)
      <4>1. u \in Strings /\ Len(q) >= 1
        BY <2>1, <2>6, TrieStrings, NodesAre
      <4>2. ~(Len(c) <= Len(q))
        BY <1>4, <2>1, <3>1, <3>3, <4>1, ExtendsOrder
      <4>3. Len(q) <= Len(b)
        BY <1>1, <1>4, <2>1, <4>2
      <4>4. Extends(u, b)
        BY <1>1, <1>4, <3>3, <4>1, ExtendsOrder
      <4>5. Extends(b, q)
        BY <1>4, <2>1, <3>1, <4>1, <4>3, <4>4, ExtendsOrder
      <4>6. b # <<>>
        BY <1>4, <2>1, <4>1, <4>3, NodesAre
      <4>7. PICK d \in Children(b) : d # c
        BY <1>1, <4>6, ChildrenAre
      <4>8. /\ d \in DOMAIN trie /\ d \in Strings /\ Len(d) = Len(c) /\ Extends(d, b)
            /\ d # <<>>
        BY <1>1, <1>4, <4>7, NodesAre DEF Children
      <4>9. PICK v \in DOMAIN told : Extends(v, d)
        BY <4>8 DEF TrieInv
      <4>10. v \in Strings
        BY TrieStrings
      <4>11. Extends(v, q)
        <5>1. Extends(d, q)
          BY <1>4, <2>1, <4>5, <4>8, ExtendsOrder
        <5> QED
          BY <2>1, <4>8, <4>9, <4>10, <5>1, ExtendsOrder
      <4>12. ~Extends(v, c)
        <5>1. ASSUME Extends(v, c)
              PROVE  FALSE
          <6>1. Extends(c, d)
            BY <1>4, <4>8, <4>9, <4>10, <5>1, ExtendsOrder
          <6> QED
            BY <1>4, <4>7, <4>8, <6>1, ExtendsOrder
        <5> QED
          BY <5>1
      <4> QED
        BY <1>3, <4>11, <4>12
    <3> QED
      BY <3>2, <3>3
  <2> QED
    BY <2>2, <2>5, <2>6
<1>13. \A u \in DOMAIN told' : u \in DOMAIN trie' /\ trie'[u].payload = told'[u]
  <2>1. SUFFICES ASSUME NEW u \in DOMAIN told'
                 PROVE  u \in DOMAIN trie' /\ trie'[u].payload = told'[u]
    OBVIOUS
  <2>2. u \in DOMAIN told /\ u \in DOMAIN trie /\ trie[u].payload = told[u]
    BY <1>3 DEF TrieInv
  <2>3. u \in DOMAIN trie'
    BY <1>3, <2>2
  <2> QED
    BY <1>3, <1>8, <2>2, <2>3
<1> QED
  BY <1>9, <1>10, <1>11, <1>12, <1>13 DEF TrieInv

-----------------------------------------------------------------------------
LEMMA TrieInvInit == TrieInit => TrieInv
<1>1. SUFFICES ASSUME TrieInit
               PROVE  TrieInv
  OBVIOUS
<1>2. /\ DOMAIN trie = {<<>>} /\ DOMAIN told = {} /\ broken = FALSE /\ edits = 0
      /\ trie[<<>>] = NewNode /\ trie = [p \in {<<>>} |-> NewNode] /\ told = <<>>
  <2>1. /\ broken = FALSE /\ edits = 0
        /\ trie = [p \in {<<>>} |-> NewNode] /\ told = <<>>
    BY <1>1 DEF TrieInit
  <2>2. DOMAIN told = {}
    BY <2>1
  <2> QED
    BY <2>1, <2>2
<1>3. TrieTypeOK
  <2>1. NewNode \in [count : Nat, isWord : BOOLEAN, payload : Payloads \union {NoPayload}]
    BY DEF NewNode
  <2>2. told \in [DOMAIN told -> Payloads]
    BY <1>2
  <2> QED
    BY <1>2, <2>1, <2>2 DEF TrieTypeOK
<1>4. IsFiniteSet(DOMAIN trie)
  BY <1>2, FS_Singleton
<1>5. Children(<<>>) = {}
  BY <1>2, NodesAre DEF Children
<1>6. Cardinality({}) = 0
  BY FS_EmptySet
<1>7. NewNode.count = 0 /\ ~NewNode.isWord
  BY DEF NewNode
<1>8. \A i \in 0..Len(<<>>) : Upto(<<>>, i) = <<>>
  BY NodesAre
<1> QED
  BY <1>2, <1>3, <1>4, <1>5, <1>6, <1>7, <1>8 DEF TrieInv

LEMMA TrieInvStep == TrieInv /\ [TrieNext]_trieVars => TrieInv'
<1>1. SUFFICES ASSUME TrieInv, [TrieNext]_trieVars
               PROVE  TrieInv'
  OBVIOUS
<1>2. CASE TrieNext
  <2>1. edits' \in Nat
    BY <1>2, <1>1 DEF TrieNext, TrieInv, TrieTypeOK
  <2>2. PICK w \in Words : Del(w) \/ \E p \in Payloads : Insert(w, p)
    BY <1>2 DEF TrieNext
  <2>3. CASE \E p \in Payloads : Insert(w, p)
    BY <1>1, <2>1, <2>3, InsertKeeps
  <2>4. CASE Del(w) /\ DelPanics(w)
    <3>1. broken' = TRUE /\ UNCHANGED <<trie, told>>
      BY <2>4 DEF Del
    <3> QED
      BY <1>1, <2>1, <3>1 DEF TrieInv, TrieTypeOK, Children
  <2>5. CASE Del(w) /\ ~DelPanics(w)
    BY <1>1, <2>1, <2>5, UnmarkKeeps, CutKeeps
  <2> QED
    BY <2>2, <2>3, <2>4, <2>5
<1>3. CASE UNCHANGED trieVars
  BY <1>1, <1>3 DEF TrieInv, TrieTypeOK, Children, trieVars
<1> QED
  BY <1>1, <1>2, <1>3

\* After any sequence of Insert and Del, which may panic, the trie is the words
\* it was told (utils/tree/trie_tree.go): what Find and FindAll answer, what
\* Count says, and which words Del works for.
THEOREM WordsCorrect == TrieSpec => []TrieIsItsWords
<1>1. TrieInit => TrieInv
  BY TrieInvInit
<1>2. TrieInv /\ [TrieNext]_trieVars => TrieInv'
  BY TrieInvStep
<1>3. TrieInv => TrieIsItsWords
  BY TrieInvMeans
<1> QED
  BY <1>1, <1>2, <1>3, PTL DEF TrieSpec
-----------------------------------------------------------------------------
(* The chain.  For every chain that is short enough for int8, whatever its  *)
(* handlers do: the handlers run in order and once, Abort stops them, a     *)
(* chain that is not aborted runs to its end, and Recovery protects all     *)
(* that stands after it.  The inductive invariant bounds the index by what  *)
(* has incremented it (every handler that began or returned, and every call *)
(* of Next) and ties it, until Abort, to the number of handlers that have   *)
(* run.                                                                     *)

\* Chains for which the index cannot leave int8, nor reach a handler after
\* Abort.
ShortChain == N + N + MaxNexts <= 64

LEMMA Int8Id == ASSUME NEW x \in 0..127 PROVE Int8(x) = x
  BY DEF Int8

LEMMA AbortIndexIs63 == abortIndex = 63
  BY DEF abortIndex

LEMMA Prefix ==
    ASSUME NEW s \in Seq(Handlers), NEW k \in 0..Len(s)
    PROVE  /\ SubSeq(s, 1, k) \in Seq(Handlers)
           /\ Len(SubSeq(s, 1, k)) = k
           /\ \A i \in 1..k : SubSeq(s, 1, k)[i] = s[i]
  BY SubSeqProperties

LEMMA Push ==
    ASSUME NEW s \in Seq(Handlers), NEW h \in Handlers
    PROVE  /\ Append(s, h) \in Seq(Handlers)
           /\ Len(Append(s, h)) = Len(s) + 1
           /\ \A i \in 1..Len(s) : Append(s, h)[i] = s[i]
           /\ Append(s, h)[Len(s) + 1] = h
  BY AppendProperties

-----------------------------------------------------------------------------
\* The index is at most what has incremented it since it was 0 or, by Abort,
\* abortIndex.
IndexBounded ==
    /\ index >= 0
    /\ Len(stack) <= Len(ran)
    /\ index <= (IF aborted THEN 63 ELSE 0) + 2 * Len(ran) - Len(stack) + nexts

\* Until Abort the index is that of the handler that began last, in its body,
\* and that of the next one in a loop, or the chain is at its end.
IndexOnTrack ==
    ~aborted =>
        /\ phase = "body" => \/ Top \notin Recoveries /\ index = Len(ran) - 1
                             \/ Len(ran) = N /\ index >= N
        /\ phase = "loop" => \/ index = Len(ran)
                             \/ Len(ran) = N /\ index >= N

IndexAborted ==
    aborted => /\ phase = "body" => index >= 63
               /\ phase = "loop" => index >= 64

\* As long as handlers are left to run, no Recovery has returned.
RecoveriesOnStack ==
    ~aborted /\ phase \in {"body", "loop"} /\ Len(ran) < N =>
        \A r \in Recoveries : r < Len(ran) => \E i \in 1..Len(stack) : stack[i] = r

Guarded ==
    \A j \in 1..Len(stack) : \A r \in Recoveries :
        r < stack[j] => \E i \in 1..j : stack[i] = r

Inv ==
    /\ ChainTypeOK /\ InOrderOnce /\ DoneRanAll /\ CrashOnlyUnguarded
    /\ IndexBounded /\ IndexOnTrack /\ IndexAborted
    /\ RecoveriesOnStack /\ Guarded

LEMMA AtMostN == ASSUME ChainTypeOK, InOrderOnce PROVE Len(ran) <= N
<1>1. SUFFICES ASSUME Len(ran) > N PROVE FALSE
  BY ChainAssumption DEF ChainTypeOK
<1>2. N + 1 \in 1..Len(ran)
  BY <1>1, ChainAssumption DEF ChainTypeOK
<1>3. ran[N + 1] = N /\ ran[N + 1] \in Handlers
  BY <1>2, ChainAssumption DEF ChainTypeOK, InOrderOnce
<1>4. QED
  BY <1>3, ChainAssumption DEF Handlers

LEMMA InitInv == ShortChain /\ ChainInit => Inv
<1> SUFFICES ASSUME ShortChain, ChainInit PROVE Inv
  OBVIOUS
<1>1. /\ stack \in Seq(Handlers) /\ ran \in Seq(Handlers)
      /\ Len(stack) = 1 /\ Len(ran) = 1 /\ stack[1] = 0 /\ ran[1] = 0
  BY ChainAssumption DEF ChainInit, Handlers
<1>2. ChainTypeOK /\ IndexBounded
  <2>1. index \in {0, 1} /\ phase \in {"body", "loop"} /\ stack # <<>>
    BY <1>1 DEF ChainInit
  <2>2. nexts \in 0..MaxNexts /\ nexts = 0 /\ aborted = FALSE
    BY ChainAssumption DEF ChainInit
  <2>3. ChainTypeOK
    <3>1. index \in -128..127
      BY <2>1
    <3>2. QED
      BY <1>1, <2>1, <2>2, <3>1 DEF ChainTypeOK
  <2>4. IndexBounded
    BY <1>1, <2>1, <2>2, ChainAssumption DEF IndexBounded
  <2>5. QED
    BY <2>3, <2>4
<1>3. InOrderOnce /\ DoneRanAll /\ CrashOnlyUnguarded /\ IndexOnTrack /\ IndexAborted
  BY <1>1 DEF ChainInit, InOrderOnce, DoneRanAll, CrashOnlyUnguarded,
              IndexOnTrack, IndexAborted, Top
<1>4. RecoveriesOnStack /\ Guarded
  BY <1>1, RecoveriesAssumption
     DEF ChainInit, RecoveriesOnStack, Guarded, Handlers
<1>5. QED
  BY <1>2, <1>3, <1>4 DEF Inv

-----------------------------------------------------------------------------
LEMMA StepCallHandler == ShortChain /\ Inv /\ CallHandler => Inv'
<1> SUFFICES ASSUME ShortChain, Inv, CallHandler PROVE Inv'
  OBVIOUS
<1> USE DEF Inv, ChainTypeOK
<1>1. /\ Len(ran) \in Nat /\ Len(stack) \in Nat /\ Len(ran) <= N
      /\ N \in Nat /\ N <= 32 /\ index \in Int
  BY AtMostN, ChainAssumption DEF ShortChain
<1>2. /\ index >= 0 /\ index < N /\ phase = "loop" /\ ~aborted
      /\ index \in Handlers /\ index' \in 0..127 /\ index + 1 \in 0..127
  <2>1. Int8(N) = N
    <3>1. N \in 0..127
      BY <1>1, ChainAssumption
    <3>2. QED
      BY <3>1, Int8Id
  <2>2. index >= 0 /\ index < N /\ phase = "loop"
    BY <2>1 DEF CallHandler
  <2>3. ~aborted
    <3>1. ~(index >= 64)
      BY <1>1, <2>2
    <3>2. QED
      BY <2>2, <3>1 DEF IndexAborted
  <2>4. index \in Handlers
    BY <1>1, <2>2 DEF Handlers
  <2>5. index + 1 \in 0..127
    BY <1>1, <2>2
  <2>6. index' \in {index, Int8(index + 1)}
    BY DEF CallHandler, Begin
  <2>7. index' \in 0..127
    <3>1. Int8(index + 1) = index + 1
      BY <2>5, Int8Id
    <3>2. index \in 0..127
      BY <1>1, <2>2
    <3>3. QED
      BY <2>5, <2>6, <3>1, <3>2
  <2>8. QED
    BY <2>2, <2>3, <2>4, <2>5, <2>7
<1>3. index = Len(ran)
  BY <1>1, <1>2 DEF IndexOnTrack
<1>4. /\ stack' = Append(stack, index) /\ ran' = Append(ran, index)
      /\ UNCHANGED <<aborted, nexts>>
  BY DEF CallHandler, Begin
<1>5. \/ index \in Recoveries /\ index' = index + 1 /\ phase' = "loop"
      \/ index \notin Recoveries /\ index' = index /\ phase' = "body"
  <2>1. Int8(index + 1) = index + 1
    BY <1>2, <1>3, Int8Id
  <2>2. QED
    BY <2>1 DEF CallHandler, Begin
<1>6. /\ ran' \in Seq(Handlers) /\ Len(ran') = Len(ran) + 1
      /\ \A i \in 1..Len(ran) : ran'[i] = ran[i]
      /\ ran'[Len(ran) + 1] = index
  BY <1>2, <1>3, <1>4, Push
<1>7. /\ stack' \in Seq(Handlers) /\ Len(stack') = Len(stack) + 1
      /\ \A i \in 1..Len(stack) : stack'[i] = stack[i]
      /\ stack'[Len(stack) + 1] = index
  BY <1>2, <1>3, <1>4, Push
<1>8. ChainTypeOK'
  <2>1. index' \in -128..127
    BY <1>2, <1>3
  <2>2. stack' # <<>> /\ phase' \in {"body", "loop"}
    BY <1>1, <1>5, <1>7
  <2>3. QED
    BY <1>4, <1>6, <1>7, <2>1, <2>2
<1>9. InOrderOnce'
  <2> SUFFICES ASSUME NEW i \in 1..Len(ran) + 1 PROVE ran'[i] = i - 1
    BY <1>6 DEF InOrderOnce
  <2>1. CASE i \in 1..Len(ran)
    BY <1>6, <2>1 DEF InOrderOnce
  <2>2. CASE i = Len(ran) + 1
    BY <1>1, <1>2, <1>3, <1>6, <2>2
  <2>3. QED
    BY <1>1, <2>1, <2>2
<1>10. DoneRanAll' /\ CrashOnlyUnguarded'
  BY <1>5 DEF DoneRanAll, CrashOnlyUnguarded
<1>11. IndexBounded'
  BY <1>1, <1>2, <1>3, <1>4, <1>5, <1>6, <1>7 DEF IndexBounded
<1>12. IndexOnTrack' /\ IndexAborted'
  <2>1. Top' = index
    BY <1>1, <1>7 DEF Top
  <2>2. QED
    BY <1>1, <1>2, <1>3, <1>4, <1>5, <1>6, <2>1 DEF IndexOnTrack, IndexAborted
<1>13. RecoveriesOnStack'
  <2> SUFFICES ASSUME NEW r \in Recoveries, r < Len(ran) + 1
               PROVE  \E i \in 1..Len(stack) + 1 : stack'[i] = r
    BY <1>6, <1>7 DEF RecoveriesOnStack
  <2>1. CASE r < Len(ran)
    <3>1. \E i \in 1..Len(stack) : stack[i] = r
      BY <1>2, <1>3, <2>1 DEF RecoveriesOnStack
    <3>2. QED
      BY <1>1, <1>7, <3>1
  <2>2. CASE ~(r < Len(ran))
    <3>1. r = index
      BY <1>1, <1>2, <1>3, <2>2, RecoveriesAssumption DEF Handlers
    <3>2. QED
      BY <1>1, <1>7, <3>1
  <2>3. QED
    BY <2>1, <2>2
<1>14. Guarded'
  <2> SUFFICES ASSUME NEW j \in 1..Len(stack) + 1, NEW r \in Recoveries,
                      r < stack'[j]
               PROVE  \E i \in 1..j : stack'[i] = r
    BY <1>7 DEF Guarded
  <2>1. CASE j \in 1..Len(stack)
    <3>1. PICK i \in 1..j : stack[i] = r
      BY <1>7, <2>1 DEF Guarded
    <3>2. i \in 1..Len(stack)
      BY <1>1, <2>1
    <3>3. QED
      BY <1>7, <3>1, <3>2
  <2>2. CASE j = Len(stack) + 1
    <3>1. \E i \in 1..Len(stack) : stack[i] = r
      BY <1>2, <1>3, <1>7, <2>2 DEF RecoveriesOnStack
    <3>2. QED
      BY <1>1, <1>7, <2>2, <3>1
  <2>3. QED
    BY <1>1, <2>1, <2>2
<1>15. QED
  BY <1>8, <1>9, <1>10, <1>11, <1>12, <1>13, <1>14

LEMMA StepEndLoop == ShortChain /\ Inv /\ EndLoop => Inv'
<1> SUFFICES ASSUME ShortChain, Inv, EndLoop PROVE Inv'
  OBVIOUS
<1> USE DEF Inv, ChainTypeOK
<1>1. N <= 32 /\ Len(ran) \in Nat /\ Len(stack) \in Nat
  BY ChainAssumption DEF ShortChain
<1>2. index >= N /\ phase = "loop"
  <2>1. Int8(N) = N
    <3>1. N \in 0..127
      BY <1>1, ChainAssumption
    <3>2. QED
      BY <3>1, Int8Id
  <2>2. QED
    BY <2>1 DEF EndLoop
<1>3. /\ phase' \in {"done", "body"} /\ (phase' = "body" => stack # <<>>)
      /\ UNCHANGED <<index, stack, ran, aborted, nexts>>
  BY DEF EndLoop
<1>4. ~aborted => Len(ran) = N
  <2> SUFFICES ASSUME ~aborted PROVE Len(ran) = N
    OBVIOUS
  <2>1. index = Len(ran) \/ Len(ran) = N
    BY <1>2 DEF IndexOnTrack
  <2>2. Len(ran) <= N
    BY AtMostN
  <2>3. QED
    BY <1>1, <1>2, <2>1, <2>2, ChainAssumption
<1>5. ChainTypeOK' /\ InOrderOnce' /\ DoneRanAll' /\ CrashOnlyUnguarded' /\ IndexBounded'
  BY <1>3, <1>4 DEF InOrderOnce, DoneRanAll, CrashOnlyUnguarded, IndexBounded
<1>6. IndexOnTrack' /\ IndexAborted'
  BY <1>2, <1>3, <1>4 DEF IndexOnTrack, IndexAborted
<1>7. RecoveriesOnStack' /\ Guarded'
  BY <1>3, <1>4, ChainAssumption DEF RecoveriesOnStack, Guarded
<1>8. QED
  BY <1>5, <1>6, <1>7

LEMMA StepCallNext == ShortChain /\ Inv /\ CallNext => Inv'
<1> SUFFICES ASSUME ShortChain, Inv, CallNext PROVE Inv'
  OBVIOUS
<1> USE DEF Inv, ChainTypeOK
<1>1. Len(ran) \in Nat /\ Len(stack) \in Nat /\ Len(ran) <= N
      /\ nexts \in Nat /\ nexts < MaxNexts
  BY AtMostN, ChainAssumption DEF CallNext
<1>2. phase = "body" /\ Top \notin Recoveries
  BY DEF CallNext, Body
<1>3. index' = index + 1
  <2>1. index + 1 \in 0..127
    BY <1>1, ChainAssumption DEF IndexBounded, ShortChain
  <2>2. QED
    BY <2>1, Int8Id DEF CallNext
<1>4. phase' = "loop" /\ nexts' = nexts + 1 /\ UNCHANGED <<stack, ran, aborted>>
  BY DEF CallNext
<1>5. IndexBounded'
  BY <1>1, <1>3, <1>4 DEF IndexBounded
<1>6. ChainTypeOK'
  BY <1>1, <1>3, <1>4, <1>5, ChainAssumption DEF IndexBounded, ShortChain
<1>7. InOrderOnce' /\ DoneRanAll' /\ CrashOnlyUnguarded'
  BY <1>4 DEF InOrderOnce, DoneRanAll, CrashOnlyUnguarded
<1>8. IndexOnTrack' /\ IndexAborted'
  BY <1>1, <1>2, <1>3, <1>4, ChainAssumption DEF IndexOnTrack, IndexAborted
<1>9. RecoveriesOnStack' /\ Guarded'
  BY <1>2, <1>4 DEF RecoveriesOnStack, Guarded
<1>10. QED
  BY <1>5, <1>6, <1>7, <1>8, <1>9

LEMMA StepAbort == ShortChain /\ Inv /\ Abort => Inv'
<1> SUFFICES ASSUME ShortChain, Inv, Abort PROVE Inv'
  OBVIOUS
<1> USE DEF Inv, ChainTypeOK
<1>1. /\ index' = 63 /\ aborted' = TRUE /\ phase = "body"
      /\ UNCHANGED <<phase, stack, ran, nexts>>
  BY AbortIndexIs63 DEF Abort, Body
<1>2. Len(ran) \in Nat /\ Len(stack) \in Nat
  OBVIOUS
<1>3. QED
  BY <1>1, <1>2
     DEF InOrderOnce, DoneRanAll, CrashOnlyUnguarded, IndexBounded,
         IndexOnTrack, IndexAborted, RecoveriesOnStack, Guarded

LEMMA StepReturn == ShortChain /\ Inv /\ Return => Inv'
<1> SUFFICES ASSUME ShortChain, Inv, Return PROVE Inv'
  OBVIOUS
<1> USE DEF Inv, ChainTypeOK
<1> DEFINE k == Len(stack) - 1
<1>1. /\ Len(ran) \in Nat /\ Len(stack) \in Nat \ {0} /\ Len(ran) <= N
      /\ nexts \in Nat /\ nexts <= MaxNexts /\ phase = "body"
  BY AtMostN, ChainAssumption, EmptySeq DEF Return
<1>2. /\ stack' \in Seq(Handlers) /\ Len(stack') = k
      /\ \A i \in 1..k : stack'[i] = stack[i]
  <2>1. k \in 0..Len(stack) /\ stack' = SubSeq(stack, 1, k)
    BY <1>1 DEF Return
  <2> HIDE DEF k
  <2>2. QED
    BY <2>1, Prefix
<1>3. index' = index + 1
  <2>1. index + 1 \in 0..127
    BY <1>1, ChainAssumption DEF IndexBounded, ShortChain
  <2>2. QED
    BY <2>1, Int8Id DEF Return
<1>4. phase' = "loop" /\ UNCHANGED <<ran, aborted, nexts>>
  BY DEF Return
<1>5. IndexBounded'
  BY <1>1, <1>2, <1>3, <1>4 DEF IndexBounded
<1>6. ChainTypeOK'
  BY <1>1, <1>2, <1>3, <1>4, <1>5, ChainAssumption DEF IndexBounded, ShortChain
<1>7. InOrderOnce' /\ DoneRanAll' /\ CrashOnlyUnguarded'
  BY <1>4 DEF InOrderOnce, DoneRanAll, CrashOnlyUnguarded
<1>8. IndexOnTrack' /\ IndexAborted'
  BY <1>1, <1>3, <1>4, ChainAssumption DEF IndexOnTrack, IndexAborted
<1>9. RecoveriesOnStack'
  <2> SUFFICES ASSUME ~aborted, Len(ran) < N, NEW r \in Recoveries, r < Len(ran)
               PROVE  \E i \in 1..k : stack'[i] = r
    BY <1>2, <1>4 DEF RecoveriesOnStack
  <2>1. Top \notin Recoveries
    BY <1>1 DEF IndexOnTrack
  <2>2. PICK i \in 1..Len(stack) : stack[i] = r
    BY <1>1 DEF RecoveriesOnStack
  <2>3. i \in 1..k
    BY <1>1, <2>1, <2>2 DEF Top
  <2>4. QED
    BY <1>2, <2>2, <2>3
<1>10. Guarded'
  <2> SUFFICES ASSUME NEW j \in 1..k, NEW r \in Recoveries, r < stack[j]
               PROVE  \E i \in 1..j : stack'[i] = r
    BY <1>2 DEF Guarded
  <2>1. PICK i \in 1..j : stack[i] = r
    BY <1>1 DEF Guarded
  <2>2. i \in 1..k
    BY <1>1
  <2>3. QED
    BY <1>2, <2>1, <2>2
<1>11. QED
  BY <1>5, <1>6, <1>7, <1>8, <1>9, <1>10

LEMMA StepPanic == ShortChain /\ Inv /\ Panic => Inv'
<1> SUFFICES ASSUME ShortChain, Inv, Panic PROVE Inv'
  OBVIOUS
<1> USE DEF Inv, ChainTypeOK
<1>1. /\ phase = "body" /\ Top \notin Recoveries /\ UNCHANGED <<ran, nexts>>
      /\ Len(ran) \in Nat /\ Len(stack) \in Nat \ {0}
  BY EmptySeq DEF Panic, Body, IndexBounded
<1>2. CASE /\ Guards(Len(stack)) = {} /\ phase' = "crashed"
           /\ UNCHANGED <<index, stack, aborted>>
  <2>1. ASSUME NEW r \in Recoveries PROVE Top < r
    <3>1. Top \in Handlers /\ Top # r
      BY <1>1 DEF Top
    <3>2. ~(r < Top)
      BY <1>1, <1>2 DEF Guarded, Guards, Top
    <3>3. QED
      BY <3>1, <3>2, RecoveriesAssumption DEF Handlers
  <2>2. CrashOnlyUnguarded'
    BY <1>1, <1>2, <2>1 DEF CrashOnlyUnguarded, Top
  <2>3. QED
    BY <1>1, <1>2, <2>2
       DEF InOrderOnce, DoneRanAll, IndexBounded, IndexOnTrack,
           IndexAborted, RecoveriesOnStack, Guarded
<1>3. ASSUME NEW k \in Guards(Len(stack)), stack' = SubSeq(stack, 1, k),
             phase' = "body", index' = abortIndex, aborted' = TRUE
      PROVE  Inv'
  <2>1. k \in 1..Len(stack)
    BY DEF Guards
  <2>2. /\ stack' \in Seq(Handlers) /\ Len(stack') = k
        /\ \A i \in 1..k : stack'[i] = stack[i]
    BY <1>1, <1>3, <2>1, Prefix
  <2>3. index' = 63
    BY <1>3, AbortIndexIs63
  <2>4. ChainTypeOK' /\ IndexBounded' /\ IndexAborted'
    BY <1>1, <1>3, <2>1, <2>2, <2>3, EmptySeq DEF IndexBounded, IndexAborted
  <2>5. Guarded'
    BY <1>1, <2>1, <2>2 DEF Guarded
  <2>6. QED
    BY <1>1, <1>3, <2>4, <2>5
       DEF InOrderOnce, DoneRanAll, CrashOnlyUnguarded, IndexOnTrack,
           RecoveriesOnStack
<1>4. QED
  BY <1>2, <1>3 DEF Panic

LEMMA InvStep == ShortChain /\ Inv /\ [ChainNext]_chainVars => Inv'
<1>1. Inv /\ UNCHANGED chainVars => Inv'
  BY DEF chainVars, Inv, ChainTypeOK, InOrderOnce, DoneRanAll, CrashOnlyUnguarded,
         IndexBounded, IndexOnTrack, IndexAborted, RecoveriesOnStack, Guarded,
         Top
<1>2. QED
  BY <1>1, StepCallHandler, StepEndLoop, StepCallNext, StepAbort, StepReturn,
     StepPanic DEF ChainNext, ChainOver

-----------------------------------------------------------------------------
\* The handlers of a short chain run in order and at most once, all of them
\* unless the chain is aborted, and Recovery keeps the process from crashing.
THEOREM ChainCorrect ==
    ShortChain /\ ChainSpec => [](InOrderOnce /\ DoneRanAll /\ CrashOnlyUnguarded)
<1> SUFFICES ASSUME ShortChain PROVE ChainSpec => [](InOrderOnce /\ DoneRanAll /\ CrashOnlyUnguarded)
  OBVIOUS
<1>1. ChainSpec => []Inv
  <2>1. ChainInit => Inv
    BY InitInv
  <2>2. Inv /\ [ChainNext]_chainVars => Inv'
    BY InvStep
  <2>3. QED
    BY <2>1, <2>2, PTL DEF ChainSpec
<1>2. Inv => InOrderOnce /\ DoneRanAll /\ CrashOnlyUnguarded
  BY DEF Inv
<1>3. QED
  BY <1>1, <1>2, PTL

\* No handler of a short chain begins after Abort.
THEOREM AbortCorrect == ShortChain /\ ChainSpec => AbortStops
<1> SUFFICES ASSUME ShortChain PROVE ChainSpec => AbortStops
  OBVIOUS
<1>1. ChainSpec => []Inv
  <2>1. ChainInit => Inv
    BY InitInv
  <2>2. Inv /\ [ChainNext]_chainVars => Inv'
    BY InvStep
  <2>3. QED
    BY <2>1, <2>2, PTL DEF ChainSpec
<1>2. Inv /\ [ChainNext]_chainVars => [aborted => ran' = ran]_chainVars
  <2> SUFFICES ASSUME Inv, [ChainNext]_chainVars, aborted PROVE ran' = ran
    BY DEF chainVars
  <2>1. ASSUME CallHandler PROVE FALSE
    <3>1. N <= 32 /\ Int8(N) = N
      <4>1. N \in 0..127 /\ N <= 32
        BY ChainAssumption DEF ShortChain
      <4>2. QED
        BY <4>1, Int8Id
    <3>2. QED
      BY <2>1, <3>1, ChainAssumption DEF CallHandler, Inv, IndexAborted, ChainTypeOK
  <2>2. QED
    BY <2>1 DEF ChainNext, EndLoop, CallNext, Abort, Return, Panic, ChainOver, chainVars
<1>3. QED
  BY <1>1, <1>2, PTL DEF ChainSpec, AbortStops

\* The handlers of a short chain run in the order of the chain, each at most once.
THEOREM OrderCorrect == ShortChain /\ ChainSpec => []InOrderOnce
  BY ChainCorrect, PTL

\* A short chain that is over has run all of its handlers, unless it was aborted
\* or one of them panicked.
THEOREM CompletionCorrect == ShortChain /\ ChainSpec => []DoneRanAll
  BY ChainCorrect, PTL

-----------------------------------------------------------------------------
(* Routes.  What Add has registered never changes, for all programs,        *)
(* middleware and names.  A route's chain has an array of its own, and      *)
(* append writes only into the array of its slice or into a new one; so it  *)
(* is enough that no router's slice ever comes to point into the array of a *)
(* chain.                                                                   *)

Router(V) == [handlerMembers: Slice, groups: Slice, from: Nat,
              used: Seq(V), path: Seq(V)]
Route(V) == [name: Seq(V), chain: Slice, added: Seq(V), declared: Seq(V),
             used: Seq(V)]

\* No router's slice points into the array of a route's chain.
Apart ==
    \A r \in DOMAIN routers : \A i \in DOMAIN handlerMap :
        /\ routers[r].handlerMembers.array # handlerMap[i].chain.array
        /\ routers[r].groups.array # handlerMap[i].chain.array

HasArray == \A i \in DOMAIN handlerMap : handlerMap[i].chain.array # 0

IInv(V) ==
    /\ arrays \in Seq(Seq(V))
    /\ routers \in Seq(Router(V))
    /\ handlerMap \in Seq(Route(V))
    /\ RouterTypeOK
    /\ Apart
    /\ HasArray
    /\ ChainsStay

\* What is passed to the routers is of V.
Values(V) ==
    /\ Middlewares \subseteq Seq(V)
    /\ Names \subseteq V
    /\ Handler \in V
    /\ Unused \in V

\* A new router whose slices are slices of the new arrays, and none of a
\* chain's, keeps the invariant.
LEMMA NewRouter ==
    ASSUME NEW V, IInv(V), NEW new \in Router(V), NEW own \in Nat,
           routers' = Append(routers, new),
           UNCHANGED <<handlerMap, panicked>>,
           arrays' \in Seq(Seq(V)), Kept(arrays, arrays', own),
           \A i \in DOMAIN handlerMap : handlerMap[i].chain.array # own,
           IsSlice(arrays', new.handlerMembers), IsSlice(arrays', new.groups),
           \A i \in DOMAIN handlerMap :
             /\ new.handlerMembers.array # handlerMap[i].chain.array
             /\ new.groups.array # handlerMap[i].chain.array
    PROVE  IInv(V)'
<1> USE DEF IInv
<1>1. /\ routers' \in Seq(Router(V)) /\ DOMAIN routers' = DOMAIN routers \cup {Len(routers) + 1}
      /\ \A r \in DOMAIN routers : routers'[r] = routers[r]
      /\ routers'[Len(routers) + 1] = new
  BY AppendProperties
<1>2. \A r \in DOMAIN routers : routers[r] \in Router(V)
  OBVIOUS
<1>3. \A i \in DOMAIN handlerMap : handlerMap[i] \in Route(V)
  OBVIOUS
<1>4. Len(arrays) \in Nat /\ Len(arrays') \in Nat
  OBVIOUS
<1>5. ASSUME NEW s \in Slice, IsSlice(arrays, s)
      PROVE  /\ IsSlice(arrays', s)
             /\ s.array # own => Contents(arrays', s) = Contents(arrays, s)
  BY <1>4, <1>5, SliceStays
<1>6. RouterTypeOK'
  <2>1. \A r \in DOMAIN routers : /\ IsSlice(arrays', routers[r].handlerMembers)
                                  /\ IsSlice(arrays', routers[r].groups)
    BY <1>2, <1>5 DEF RouterTypeOK, Router
  <2>2. \A i \in DOMAIN handlerMap : IsSlice(arrays', handlerMap[i].chain)
    BY <1>3, <1>5 DEF RouterTypeOK, Route
  <2> QED
    BY <1>1, <2>1, <2>2 DEF RouterTypeOK
<1>7. Apart' /\ HasArray'
  BY <1>1 DEF Apart, HasArray
<1>8. ChainsStay'
  BY <1>3, <1>5 DEF ChainsStay, RouterTypeOK, Route
<1> QED
  BY <1>1, <1>6, <1>7, <1>8

\* What the invariant says of one router.
LEMMA RouterFacts ==
    ASSUME NEW V, IInv(V), NEW r \in DOMAIN routers
    PROVE  /\ routers[r] \in Router(V) /\ r \in Nat
           /\ routers[r].handlerMembers \in Slice /\ routers[r].groups \in Slice
           /\ routers[r].handlerMembers.array \in Nat
           /\ routers[r].groups.array \in Nat
           /\ IsSlice(arrays, routers[r].handlerMembers)
           /\ IsSlice(arrays, routers[r].groups)
<1>1. routers[r] \in Router(V) /\ r \in Nat
  BY DEF IInv
<1>2. routers[r].handlerMembers \in Slice /\ routers[r].groups \in Slice
  BY <1>1 DEF Router
<1>3. /\ routers[r].handlerMembers.array \in Nat
      /\ routers[r].groups.array \in Nat
  BY <1>2 DEF Slice
<1>4. /\ IsSlice(arrays, routers[r].handlerMembers)
      /\ IsSlice(arrays, routers[r].groups)
  BY DEF IInv, RouterTypeOK
<1> QED
  BY <1>1, <1>2, <1>3, <1>4

LEMMA UseKeeps ==
    ASSUME NEW V, Values(V), IInv(V), NEW r \in DOMAIN routers, Use(r)
    PROVE  IInv(V)'
<1>1. PICK ms \in Middlewares :
        LET s == routers[r].handlerMembers
        IN  /\ arrays' = Appended(arrays, s, ms, Unused)
            /\ routers' = Append(routers,
                 [routers[r] EXCEPT !.handlerMembers = AppendTo(arrays, s, ms),
                                    !.used = @ \o ms, !.from = r])
  BY DEF Use
<1> DEFINE s == routers[r].handlerMembers
           t == AppendTo(arrays, s, ms)
           given == routers[r].used \o ms
           new == [routers[r] EXCEPT !.handlerMembers = t,
                                     !.used = given, !.from = r]
<1>2. routers[r] \in Router(V) /\ s \in Slice /\ IsSlice(arrays, s)
      /\ routers[r].groups \in Slice /\ IsSlice(arrays, routers[r].groups)
      /\ s.array \in Nat /\ r \in Nat
  BY RouterFacts
<1>3. ms \in Seq(V) /\ Unused \in V /\ arrays \in Seq(Seq(V))
  BY DEF Values, IInv
<1>4. /\ arrays' \in Seq(Seq(V)) /\ Kept(arrays, arrays', s.array)
      /\ t \in Slice /\ IsSlice(arrays', t)
      /\ t.array \in {s.array, Len(arrays) + 1}
  BY <1>1, <1>2, <1>3, AppendKeeps
<1> HIDE DEF t
<1>5. new \in Router(V) /\ new.handlerMembers = t /\ new.groups = routers[r].groups
  <2>1. given \in Seq(V)
    BY <1>2, <1>3, ConcatProperties DEF Router
  <2> HIDE DEF given
  <2> QED
    BY <1>2, <1>4, <2>1 DEF Router
<1>6. routers' = Append(routers, new)
  BY <1>1, <1>2 DEF t, Router
<1>7. UNCHANGED <<handlerMap, panicked>>
  BY DEF Use
<1>8. \A i \in DOMAIN handlerMap : /\ handlerMap[i].chain.array # s.array
                                   /\ handlerMap[i].chain.array # routers[r].groups.array
                                   /\ handlerMap[i].chain.array # Len(arrays) + 1
  <2>1. \A i \in DOMAIN handlerMap : handlerMap[i].chain.array \in 0..Len(arrays)
    BY DEF IInv, RouterTypeOK, IsSlice
  <2>2. Len(arrays) \in Nat
    BY <1>3
  <2> QED
    BY <2>1, <2>2 DEF IInv, Apart
<1>9. IsSlice(arrays', routers[r].groups)
  BY <1>2, <1>3, <1>4, SliceStays
<1> HIDE DEF new
<1> QED
  BY <1>2, <1>4, <1>5, <1>6, <1>7, <1>8, <1>9, NewRouter

LEMMA GroupKeeps ==
    ASSUME NEW V, Values(V), IInv(V), NEW r \in DOMAIN routers, Group(r)
    PROVE  IInv(V)'
<1>1. PICK name \in Names :
        LET s == routers[r].groups
        IN  /\ arrays' = Appended(arrays, s, <<name>>, Unused)
            /\ routers' = Append(routers,
                 [routers[r] EXCEPT !.groups = AppendTo(arrays, s, <<name>>),
                                    !.path = Append(@, name), !.from = r])
  BY DEF Group
<1> DEFINE s == routers[r].groups
           t == AppendTo(arrays, s, <<name>>)
           given == Append(routers[r].path, name)
           new == [routers[r] EXCEPT !.groups = t,
                                     !.path = given, !.from = r]
<1>2. routers[r] \in Router(V) /\ s \in Slice /\ IsSlice(arrays, s)
      /\ routers[r].handlerMembers \in Slice
      /\ IsSlice(arrays, routers[r].handlerMembers)
      /\ s.array \in Nat /\ r \in Nat
  BY RouterFacts
<1>3. <<name>> \in Seq(V) /\ name \in V /\ Unused \in V /\ arrays \in Seq(Seq(V))
  BY DEF Values, IInv
<1>4. /\ arrays' \in Seq(Seq(V)) /\ Kept(arrays, arrays', s.array)
      /\ t \in Slice /\ IsSlice(arrays', t)
      /\ t.array \in {s.array, Len(arrays) + 1}
  BY <1>1, <1>2, <1>3, AppendKeeps
<1> HIDE DEF t
<1>5. new \in Router(V) /\ new.groups = t
      /\ new.handlerMembers = routers[r].handlerMembers
  <2>1. given \in Seq(V)
    BY <1>2, <1>3, AppendProperties DEF Router
  <2> HIDE DEF given
  <2> QED
    BY <1>2, <1>4, <2>1 DEF Router
<1>6. routers' = Append(routers, new)
  BY <1>1, <1>2 DEF t, Router
<1>7. UNCHANGED <<handlerMap, panicked>>
  BY DEF Group
<1>8. \A i \in DOMAIN handlerMap :
        /\ handlerMap[i].chain.array # s.array
        /\ handlerMap[i].chain.array # routers[r].handlerMembers.array
        /\ handlerMap[i].chain.array # Len(arrays) + 1
  <2>1. \A i \in DOMAIN handlerMap : handlerMap[i].chain.array \in 0..Len(arrays)
    BY DEF IInv, RouterTypeOK, IsSlice
  <2>2. Len(arrays) \in Nat
    BY <1>3
  <2> QED
    BY <2>1, <2>2 DEF IInv, Apart
<1>9. IsSlice(arrays', routers[r].handlerMembers)
  BY <1>2, <1>3, <1>4, SliceStays
<1> HIDE DEF new
<1> QED
  BY <1>2, <1>4, <1>5, <1>6, <1>7, <1>8, <1>9, NewRouter

LEMMA AddKeeps ==
    ASSUME NEW V, Values(V), IInv(V), NEW r \in DOMAIN routers, Add(r)
    PROVE  IInv(V)'
<1>1. PICK n \in Names :
        LET name == Append(Contents(arrays, routers[r].groups), n)
            chain == Append(Contents(arrays, routers[r].handlerMembers), Handler)
        IN  IF name \in Registered
            THEN panicked' = TRUE /\ UNCHANGED <<arrays, handlerMap>>
            ELSE /\ arrays' = Append(arrays, chain)
                 /\ handlerMap' = Append(handlerMap,
                      [name |-> name, added |-> chain,
                       chain |-> [array |-> Len(arrays) + 1, len |-> Len(chain)],
                       declared |-> Append(routers[r].path, n),
                       used |-> Append(routers[r].used, Handler)])
                 /\ UNCHANGED panicked
  BY DEF Add
<1>2. UNCHANGED routers
  BY DEF Add
<1> DEFINE name == Append(Contents(arrays, routers[r].groups), n)
           chain == Append(Contents(arrays, routers[r].handlerMembers), Handler)
<1>3. CASE name \in Registered
  BY <1>1, <1>2, <1>3 DEF IInv, RouterTypeOK, Apart, HasArray, ChainsStay
<1>4. CASE name \notin Registered
  <2> DEFINE own == [array |-> Len(arrays) + 1, len |-> Len(chain)]
             new == [name |-> name, added |-> chain, chain |-> own,
                     declared |-> Append(routers[r].path, n),
                     used |-> Append(routers[r].used, Handler)]
  <2>1. arrays' = Append(arrays, chain) /\ handlerMap' = Append(handlerMap, new)
        /\ UNCHANGED panicked
    BY <1>1, <1>4
  <2>2. /\ routers[r] \in Router(V)
        /\ routers[r].handlerMembers \in Slice /\ routers[r].groups \in Slice
        /\ IsSlice(arrays, routers[r].handlerMembers)
        /\ IsSlice(arrays, routers[r].groups)
    BY RouterFacts
  <2>3. n \in V /\ Handler \in V /\ arrays \in Seq(Seq(V)) /\ Len(arrays) \in Nat
    BY DEF Values, IInv
  <2>4. name \in Seq(V) /\ chain \in Seq(V) /\ Len(chain) \in Nat \ {0}
    <3>1. /\ Contents(arrays, routers[r].handlerMembers) \in Seq(V)
          /\ Contents(arrays, routers[r].groups) \in Seq(V)
      BY <2>2, <2>3, ContentsType
    <3> QED
      BY <2>3, <3>1, AppendProperties
  <2> HIDE DEF name, chain
  <2>5. new \in Route(V) /\ new.chain = own /\ new.added = chain
    BY <2>2, <2>3, <2>4 DEF Route, Router, Slice
  <2> HIDE DEF new
  <2>6. /\ arrays' \in Seq(Seq(V)) /\ Len(arrays') = Len(arrays) + 1
        /\ \A k \in 1..Len(arrays) : arrays'[k] = arrays[k]
        /\ arrays'[Len(arrays) + 1] = chain
    BY <2>1, <2>3, <2>4, AppendProperties
  <2>7. /\ handlerMap' \in Seq(Route(V))
        /\ DOMAIN handlerMap' = DOMAIN handlerMap \cup {Len(handlerMap) + 1}
        /\ \A i \in DOMAIN handlerMap : handlerMap'[i] = handlerMap[i]
        /\ handlerMap'[Len(handlerMap) + 1] = new
    BY <2>1, <2>5, AppendProperties DEF IInv
  <2>8. Kept(arrays, arrays', 0)
    BY <2>3, <2>6 DEF Kept
  <2>9. ASSUME NEW x \in Slice, IsSlice(arrays, x)
        PROVE  IsSlice(arrays', x) /\ Contents(arrays', x) = Contents(arrays, x)
    <3>1. Len(arrays') \in Nat
      BY <2>3, <2>6
    <3> QED
      BY <2>3, <2>8, <2>9, <3>1, SliceStays
  <2>10. IsSlice(arrays', own) /\ Contents(arrays', own) = chain
    <3>1. own.array = Len(arrays) + 1 /\ own.len = Len(chain) /\ own.array # 0
      BY <2>3
    <3>2. IsSlice(arrays', own)
      BY <2>3, <2>4, <2>6, <3>1 DEF IsSlice, CapOf
    <3>3. SubSeq(chain, 1, Len(chain)) = chain
      BY <2>4, SubSeqFull
    <3> QED
      BY <2>6, <3>1, <3>2, <3>3 DEF Contents
  <2>11. \A i \in DOMAIN handlerMap : handlerMap[i] \in Route(V)
    BY DEF IInv
  <2>12. \A k \in DOMAIN routers : routers[k] \in Router(V)
    BY DEF IInv
  <2>13. RouterTypeOK'
    <3>1. \A k \in DOMAIN routers : /\ IsSlice(arrays', routers[k].handlerMembers)
                                    /\ IsSlice(arrays', routers[k].groups)
      BY <2>9, <2>12 DEF IInv, RouterTypeOK, Router
    <3>2. \A i \in DOMAIN handlerMap : IsSlice(arrays', handlerMap[i].chain)
      BY <2>9, <2>11 DEF IInv, RouterTypeOK, Route
    <3> QED
      BY <1>2, <2>1, <2>5, <2>7, <2>10, <3>1, <3>2 DEF IInv, RouterTypeOK
  <2>14. Apart'
    <3>1. \A k \in DOMAIN routers :
            /\ routers[k].handlerMembers.array # Len(arrays) + 1
            /\ routers[k].groups.array # Len(arrays) + 1
      BY <2>3 DEF IInv, RouterTypeOK, IsSlice
    <3> QED
      BY <1>2, <2>5, <2>7, <3>1 DEF IInv, Apart
  <2>15. HasArray'
    BY <2>3, <2>5, <2>7 DEF IInv, HasArray
  <2>16. ChainsStay'
    <3>1. \A i \in DOMAIN handlerMap :
            Contents(arrays', handlerMap[i].chain) = handlerMap[i].added
      BY <2>9, <2>11 DEF IInv, RouterTypeOK, ChainsStay, Route
    <3> QED
      BY <2>5, <2>7, <2>10, <3>1 DEF ChainsStay
  <2> QED
    BY <1>2, <2>6, <2>7, <2>13, <2>14, <2>15, <2>16 DEF IInv
<1> QED
  BY <1>3, <1>4

LEMMA FirstRouter ==
    ASSUME NEW V, RouterInit
    PROVE  IInv(V)
<1> DEFINE first == [handlerMembers |-> Nil, groups |-> Nil, from |-> 0,
                     used |-> <<>>, path |-> <<>>]
<1>1. arrays = <<>> /\ routers = <<first>> /\ handlerMap = <<>> /\ panicked = FALSE
  BY DEF RouterInit
<1>2. Nil \in Slice /\ IsSlice(arrays, Nil)
  BY <1>1 DEF Nil, Slice, IsSlice, CapOf
<1>3. first \in Router(V) /\ first.handlerMembers = Nil /\ first.groups = Nil
  BY <1>2 DEF Router
<1> HIDE DEF first
<1>4. RouterTypeOK
  <2>1. DOMAIN routers = {1} /\ routers[1] = first /\ DOMAIN handlerMap = {}
    BY <1>1
  <2>2. panicked \in BOOLEAN
    BY <1>1, Zenon
  <2> QED
    BY <1>2, <1>3, <2>1, <2>2, Zenon DEF RouterTypeOK
<1>5. Apart /\ HasArray /\ ChainsStay
  BY <1>1 DEF Apart, HasArray, ChainsStay
<1> QED
  BY <1>1, <1>3, <1>4, <1>5 DEF IInv

LEMMA StepKeeps ==
    ASSUME NEW V, Values(V), IInv(V), [RouterNext]_routerVars
    PROVE  IInv(V)'
<1>1. CASE UNCHANGED routerVars
  BY <1>1 DEF routerVars, IInv, RouterTypeOK, Apart, HasArray, ChainsStay
<1>2. CASE \E r \in DOMAIN routers : Use(r)
  BY <1>2, UseKeeps
<1>3. CASE \E r \in DOMAIN routers : Group(r)
  BY <1>3, GroupKeeps
<1>4. CASE \E r \in DOMAIN routers : Add(r)
  BY <1>4, AddKeeps
<1> QED
  BY <1>1, <1>2, <1>3, <1>4 DEF RouterNext

\* For every program: the chain that Add has registered (ws/router.go:38) is
\* never overwritten by a later Use, Group or Add.
THEOREM ChainsCorrect ==
    ASSUME NEW CONSTANT V, Values(V)
    PROVE  RouterSpec => [](RouterTypeOK /\ ChainsStay)
<1>1. RouterInit => IInv(V)
  BY FirstRouter
<1>2. IInv(V) /\ [RouterNext]_routerVars => IInv(V)'
  BY StepKeeps
<1>3. IInv(V) => RouterTypeOK /\ ChainsStay
  BY DEF IInv
<1> QED
  BY <1>1, <1>2, <1>3, PTL DEF RouterSpec

-----------------------------------------------------------------------------
(* Linear programs: one that extends no router twice has the routes it      *)
(* declares.  Each router of such a program extends the one before, so that *)
(* only the last one can still be extended: its slices are the longest in   *)
(* their arrays, and append writes behind all others.                       *)

InLine == \A j \in DOMAIN routers : routers[j].from = j - 1

\* What the slices hold is what the routers were told.
AsTold ==
    \A j \in DOMAIN routers :
        /\ Contents(arrays, routers[j].handlerMembers) = routers[j].used
        /\ Contents(arrays, routers[j].groups) = routers[j].path

Longest ==
    \A j \in DOMAIN routers :
        /\ Within(routers[j].handlerMembers, routers[Len(routers)].handlerMembers)
        /\ Within(routers[j].groups, routers[Len(routers)].groups)

\* Middleware and group names are in arrays of their own.
Separate ==
    \A j, k \in DOMAIN routers :
        routers[j].handlerMembers.array = routers[k].groups.array =>
            routers[k].groups.array = 0

\* A route was added as its router was told.
AddedAsTold ==
    \A i \in DOMAIN handlerMap : /\ handlerMap[i].added = handlerMap[i].used
                                 /\ handlerMap[i].name = handlerMap[i].declared

Straight == /\ InLine /\ AsTold /\ Longest /\ Separate /\ AddedAsTold


\* A program that is still linear has extended the last router.
LEMMA ExtendsLast ==
    ASSUME NEW V, IInv(V), Linear => Straight, NEW r \in DOMAIN routers,
           NEW new, new.from = r, routers' = Append(routers, new), Linear'
    PROVE  Linear /\ r = Len(routers) /\ Straight
<1>1. /\ DOMAIN routers = 1..Len(routers) /\ Len(routers) \in Nat
      /\ DOMAIN routers' = 1..Len(routers) + 1
      /\ \A j \in DOMAIN routers : routers'[j] = routers[j]
      /\ routers'[Len(routers) + 1] = new
  BY DEF IInv
<1>2. Linear
  BY <1>1 DEF Linear
<1>3. r = Len(routers)
  <2> SUFFICES ASSUME r # Len(routers) PROVE FALSE
    OBVIOUS
  <2>1. r + 1 \in DOMAIN routers
    BY <1>1
  <2>2. routers[r + 1].from = r
    BY <1>1, <1>2, <2>1 DEF Straight, InLine
  <2>3. routers'[r + 1].from = routers'[Len(routers) + 1].from
    BY <1>1, <2>1, <2>2
  <2> QED
    BY <1>1, <2>1, <2>3 DEF Linear
<1> QED
  BY <1>2, <1>3

\* The next router of a linear program: what the others hold is kept, and its
\* slices hold what it was told, are the longest in their arrays and separate
\* from those of the others.
LEMMA NextInLine ==
    ASSUME NEW V, IInv(V), Straight, NEW new \in Router(V),
           routers' = Append(routers, new), new.from = Len(routers),
           UNCHANGED handlerMap,
           \A j \in DOMAIN routers :
             /\ Contents(arrays', routers[j].handlerMembers)
                  = Contents(arrays, routers[j].handlerMembers)
             /\ Contents(arrays', routers[j].groups) = Contents(arrays, routers[j].groups)
             /\ Within(routers[j].handlerMembers, new.handlerMembers)
             /\ Within(routers[j].groups, new.groups)
             /\ routers[j].handlerMembers.array = new.groups.array
                  => new.groups.array = 0
             /\ new.handlerMembers.array = routers[j].groups.array
                  => routers[j].groups.array = 0,
           Contents(arrays', new.handlerMembers) = new.used,
           Contents(arrays', new.groups) = new.path,
           new.handlerMembers.array = new.groups.array => new.groups.array = 0
    PROVE  Straight'
<1>1. /\ DOMAIN routers = 1..Len(routers) /\ Len(routers) \in Nat
      /\ DOMAIN routers' = 1..Len(routers) + 1
      /\ Len(routers') = Len(routers) + 1
      /\ \A j \in DOMAIN routers : routers'[j] = routers[j]
      /\ routers'[Len(routers) + 1] = new
  BY DEF IInv
<1>2. \A j \in DOMAIN routers' : j \in DOMAIN routers \/ j = Len(routers) + 1
  BY <1>1
<1>3. InLine'
  BY <1>1, <1>2 DEF Straight, InLine
<1>4. AsTold'
  BY <1>1, <1>2 DEF Straight, AsTold
<1>5. Longest'
  <2>1. /\ new.handlerMembers.len \in Nat /\ new.groups.len \in Nat
    BY DEF Router, Slice
  <2>2. Within(new.handlerMembers, new.handlerMembers) /\ Within(new.groups, new.groups)
    BY <2>1 DEF Within
  <2>3. ASSUME NEW j \in DOMAIN routers'
        PROVE  /\ Within(routers'[j].handlerMembers, new.handlerMembers)
               /\ Within(routers'[j].groups, new.groups)
    BY <1>1, <1>2, <2>2
  <2> QED
    BY <1>1, <2>3 DEF Longest
<1>6. Separate'
  <2>1. ASSUME NEW j \in DOMAIN routers', NEW k \in DOMAIN routers',
               routers'[j].handlerMembers.array = routers'[k].groups.array
        PROVE  routers'[k].groups.array = 0
    <3>1. CASE j \in DOMAIN routers /\ k \in DOMAIN routers
      BY <1>1, <2>1, <3>1 DEF Straight, Separate
    <3>2. CASE j \notin DOMAIN routers \/ k \notin DOMAIN routers
      BY <1>1, <1>2, <2>1, <3>2
    <3> QED
      BY <3>1, <3>2
  <2> QED
    BY <2>1 DEF Separate
<1>7. AddedAsTold'
  BY DEF Straight, AddedAsTold
<1> QED
  BY <1>3, <1>4, <1>5, <1>6, <1>7 DEF Straight

\* What append leaves of slices that are Within its own, and what it returns.
LEMMA AppendInLine ==
    ASSUME NEW V, IInv(V), Straight, NEW s \in Slice, IsSlice(arrays, s),
           NEW xs \in Seq(V), NEW zero \in V,
           arrays' = Appended(arrays, s, xs, zero)
    PROVE  /\ Contents(arrays', AppendTo(arrays, s, xs)) = Contents(arrays, s) \o xs
           /\ \A u \in Slice : IsSlice(arrays, u) /\ Within(u, s) =>
                /\ Contents(arrays', u) = Contents(arrays, u)
                /\ Within(u, AppendTo(arrays, s, xs))
           /\ \A u \in Slice : IsSlice(arrays, u) /\ (u.array = s.array => u.array = 0) =>
                /\ Contents(arrays', u) = Contents(arrays, u)
                /\ u.array = AppendTo(arrays, s, xs).array => u.array = 0
<1> DEFINE t == AppendTo(arrays, s, xs)
<1>1. arrays \in Seq(Seq(V)) /\ Len(arrays) \in Nat
  BY DEF IInv
<1>2. Contents(arrays', t) = Contents(arrays, s) \o xs
  BY <1>1, AppendContents
<1>3. t.array \in {s.array, Len(arrays) + 1} /\ t.len = s.len + Len(xs)
  BY DEF AppendTo
<1> HIDE DEF t
<1>4. ASSUME NEW u \in Slice, IsSlice(arrays, u), Within(u, s)
      PROVE  Contents(arrays', u) = Contents(arrays, u) /\ Within(u, t)
  <2>1. Contents(arrays', u) = Contents(arrays, u)
    BY <1>1, <1>4, AppendSpares
  <2>2. /\ u.len \in Nat /\ s.len \in Nat /\ Len(xs) \in Nat /\ u.array \in Nat
        /\ u.array <= Len(arrays)
    BY <1>1, <1>4 DEF Slice, IsSlice
  <2>3. Within(u, t)
    BY <1>1, <1>3, <1>4, <2>2 DEF Within
  <2> QED
    BY <2>1, <2>3
<1>5. ASSUME NEW u \in Slice, IsSlice(arrays, u), u.array = s.array => u.array = 0
      PROVE  /\ Contents(arrays', u) = Contents(arrays, u)
             /\ u.array = t.array => u.array = 0
  <2>1. u.array \in Nat /\ u.array <= Len(arrays) /\ (u.array = 0 => u.len = 0)
        /\ s.len \in Nat
    BY <1>1, <1>5 DEF Slice, IsSlice, CapOf
  <2>2. Within(u, s)
    BY <1>5, <2>1 DEF Within
  <2>3. Contents(arrays', u) = Contents(arrays, u)
    BY <1>4, <1>5, <2>2
  <2> QED
    BY <1>1, <1>3, <1>5, <2>1, <2>3
<1> QED
  BY <1>2, <1>4, <1>5 DEF t

LEMMA UseInLine ==
    ASSUME NEW V, Values(V), IInv(V), Linear => Straight,
           NEW r \in DOMAIN routers, Use(r), Linear'
    PROVE  Straight'
<1>1. PICK ms \in Middlewares :
        LET s == routers[r].handlerMembers
        IN  /\ arrays' = Appended(arrays, s, ms, Unused)
            /\ routers' = Append(routers,
                 [routers[r] EXCEPT !.handlerMembers = AppendTo(arrays, s, ms),
                                    !.used = @ \o ms, !.from = r])
  BY DEF Use
<1> DEFINE s == routers[r].handlerMembers
           t == AppendTo(arrays, s, ms)
           given == routers[r].used \o ms
           new == [routers[r] EXCEPT !.handlerMembers = t,
                                     !.used = given, !.from = r]
<1>2. routers[r] \in Router(V) /\ s \in Slice /\ IsSlice(arrays, s)
      /\ routers[r].groups \in Slice /\ IsSlice(arrays, routers[r].groups)
      /\ r \in Nat
  BY RouterFacts
<1>3. ms \in Seq(V) /\ Unused \in V /\ arrays \in Seq(Seq(V))
  BY DEF Values, IInv
<1>4. arrays' = Appended(arrays, s, ms, Unused) /\ routers' = Append(routers, new)
      /\ UNCHANGED handlerMap
  BY <1>1, <1>2 DEF Router, Use
<1>5. /\ new \in Router(V) /\ new.handlerMembers = t /\ new.used = given
      /\ new.groups = routers[r].groups /\ new.path = routers[r].path /\ new.from = r
  <2>1. given \in Seq(V) /\ t \in Slice
    BY <1>2, <1>3, AppendKeeps, ConcatProperties DEF Router
  <2> HIDE DEF given, t
  <2> QED
    BY <1>2, <2>1 DEF Router
<1> HIDE DEF new
<1>6. Linear /\ r = Len(routers) /\ Straight
  BY <1>4, <1>5, ExtendsLast
<1>7. /\ Contents(arrays', t) = Contents(arrays, s) \o ms
      /\ \A u \in Slice : IsSlice(arrays, u) /\ Within(u, s) =>
           Contents(arrays', u) = Contents(arrays, u) /\ Within(u, t)
      /\ \A u \in Slice : IsSlice(arrays, u) /\ (u.array = s.array => u.array = 0) =>
           /\ Contents(arrays', u) = Contents(arrays, u)
           /\ u.array = t.array => u.array = 0
  BY <1>2, <1>3, <1>4, <1>6, AppendInLine
<1> HIDE DEF t
<1>8. ASSUME NEW j \in DOMAIN routers
      PROVE  /\ Contents(arrays', routers[j].handlerMembers)
                  = Contents(arrays, routers[j].handlerMembers)
             /\ Contents(arrays', routers[j].groups) = Contents(arrays, routers[j].groups)
             /\ Within(routers[j].handlerMembers, t)
             /\ Within(routers[j].groups, routers[r].groups)
             /\ routers[j].handlerMembers.array = routers[r].groups.array
                  => routers[r].groups.array = 0
             /\ t.array = routers[j].groups.array => routers[j].groups.array = 0
  <2>1. /\ routers[j].handlerMembers \in Slice /\ routers[j].groups \in Slice
        /\ IsSlice(arrays, routers[j].handlerMembers)
        /\ IsSlice(arrays, routers[j].groups)
    BY RouterFacts
  <2>2. /\ Within(routers[j].handlerMembers, s)
        /\ Within(routers[j].groups, routers[r].groups)
    BY <1>6 DEF Straight, Longest
  <2>3. /\ routers[j].groups.array = s.array => routers[j].groups.array = 0
        /\ routers[j].handlerMembers.array = routers[r].groups.array
                  => routers[r].groups.array = 0
    BY <1>6 DEF Straight, Separate
  <2> QED
    BY <1>7, <2>1, <2>2, <2>3
<1>9. Contents(arrays', t) = given /\ Contents(arrays', routers[r].groups) = routers[r].path
  BY <1>6, <1>7, <1>8 DEF Straight, AsTold
<1>10. t.array = routers[r].groups.array => routers[r].groups.array = 0
  BY <1>8
<1> HIDE DEF given, s
<1> QED
  BY <1>4, <1>5, <1>6, <1>8, <1>9, <1>10, NextInLine

LEMMA GroupInLine ==
    ASSUME NEW V, Values(V), IInv(V), Linear => Straight,
           NEW r \in DOMAIN routers, Group(r), Linear'
    PROVE  Straight'
<1>1. PICK name \in Names :
        LET s == routers[r].groups
        IN  /\ arrays' = Appended(arrays, s, <<name>>, Unused)
            /\ routers' = Append(routers,
                 [routers[r] EXCEPT !.groups = AppendTo(arrays, s, <<name>>),
                                    !.path = Append(@, name), !.from = r])
  BY DEF Group
<1> DEFINE s == routers[r].groups
           t == AppendTo(arrays, s, <<name>>)
           given == Append(routers[r].path, name)
           new == [routers[r] EXCEPT !.groups = t,
                                     !.path = given, !.from = r]
<1>2. routers[r] \in Router(V) /\ s \in Slice /\ IsSlice(arrays, s)
      /\ routers[r].handlerMembers \in Slice
      /\ IsSlice(arrays, routers[r].handlerMembers)
      /\ r \in Nat /\ routers[r].path \in Seq(V)
  BY RouterFacts DEF Router
<1>3. <<name>> \in Seq(V) /\ name \in V /\ Unused \in V /\ arrays \in Seq(Seq(V))
  BY DEF Values, IInv
<1>4. arrays' = Appended(arrays, s, <<name>>, Unused) /\ routers' = Append(routers, new)
      /\ UNCHANGED handlerMap
  BY <1>1, <1>2 DEF Router, Group
<1>5. /\ new \in Router(V) /\ new.groups = t /\ new.path = given
      /\ new.handlerMembers = routers[r].handlerMembers
      /\ new.used = routers[r].used /\ new.from = r
  <2>1. given \in Seq(V) /\ t \in Slice
    BY <1>2, <1>3, AppendKeeps, AppendProperties
  <2> HIDE DEF given, t
  <2> QED
    BY <1>2, <2>1 DEF Router
<1> HIDE DEF new
<1>6. Linear /\ r = Len(routers) /\ Straight
  BY <1>4, <1>5, ExtendsLast
<1>7. /\ Contents(arrays', t) = Contents(arrays, s) \o <<name>>
      /\ \A u \in Slice : IsSlice(arrays, u) /\ Within(u, s) =>
           Contents(arrays', u) = Contents(arrays, u) /\ Within(u, t)
      /\ \A u \in Slice : IsSlice(arrays, u) /\ (u.array = s.array => u.array = 0) =>
           /\ Contents(arrays', u) = Contents(arrays, u)
           /\ u.array = t.array => u.array = 0
  BY <1>2, <1>3, <1>4, <1>6, AppendInLine
<1> HIDE DEF t
<1>8. ASSUME NEW j \in DOMAIN routers
      PROVE  /\ Contents(arrays', routers[j].handlerMembers)
                  = Contents(arrays, routers[j].handlerMembers)
             /\ Contents(arrays', routers[j].groups) = Contents(arrays, routers[j].groups)
             /\ Within(routers[j].handlerMembers, routers[r].handlerMembers)
             /\ Within(routers[j].groups, t)
             /\ routers[j].handlerMembers.array = t.array => t.array = 0
             /\ routers[r].handlerMembers.array = routers[j].groups.array
                  => routers[j].groups.array = 0
  <2>1. /\ routers[j].handlerMembers \in Slice /\ routers[j].groups \in Slice
        /\ IsSlice(arrays, routers[j].handlerMembers)
        /\ IsSlice(arrays, routers[j].groups)
    BY RouterFacts
  <2>2. /\ Within(routers[j].handlerMembers, routers[r].handlerMembers)
        /\ Within(routers[j].groups, s)
    BY <1>6 DEF Straight, Longest
  <2>3. /\ routers[j].handlerMembers.array = s.array
             => routers[j].handlerMembers.array = 0
        /\ routers[r].handlerMembers.array = routers[j].groups.array
                  => routers[j].groups.array = 0
    BY <1>6 DEF Straight, Separate
  <2> QED
    BY <1>7, <2>1, <2>2, <2>3
<1>9. Contents(arrays', t) = given
      /\ Contents(arrays', routers[r].handlerMembers) = routers[r].used
  <2>1. routers[r].path \o <<name>> = given
    BY <1>2, <1>3
  <2> QED
    BY <1>6, <1>7, <1>8, <2>1 DEF Straight, AsTold
<1>10. routers[r].handlerMembers.array = t.array => t.array = 0
  BY <1>8
<1> HIDE DEF given, s
<1> QED
  BY <1>4, <1>5, <1>6, <1>8, <1>9, <1>10, NextInLine

\* A route gets the middleware and the name that its router was told.
LEMMA AddInLine ==
    ASSUME NEW V, Values(V), IInv(V), Linear => Straight,
           NEW r \in DOMAIN routers, Add(r), Linear'
    PROVE  Straight'
<1>1. UNCHANGED routers
  BY DEF Add
<1>2. Linear /\ Straight
  BY <1>1 DEF Linear
<1>3. /\ Contents(arrays, routers[r].handlerMembers) = routers[r].used
      /\ Contents(arrays, routers[r].groups) = routers[r].path
  BY <1>2 DEF Straight, AsTold
<1>4. PICK n \in Names :
        LET name == Append(routers[r].path, n)
            chain == Append(routers[r].used, Handler)
        IN  IF name \in Registered
            THEN panicked' = TRUE /\ UNCHANGED <<arrays, handlerMap>>
            ELSE /\ arrays' = Append(arrays, chain)
                 /\ handlerMap' = Append(handlerMap,
                      [name |-> name, added |-> chain,
                       chain |-> [array |-> Len(arrays) + 1, len |-> Len(chain)],
                       declared |-> name, used |-> chain])
                 /\ UNCHANGED panicked
  BY <1>3 DEF Add
<1> DEFINE name == Append(routers[r].path, n)
           chain == Append(routers[r].used, Handler)
           new == [name |-> name, added |-> chain,
                   chain |-> [array |-> Len(arrays) + 1, len |-> Len(chain)],
                   declared |-> name, used |-> chain]
<1>5. CASE name \in Registered
  BY <1>1, <1>2, <1>4, <1>5 DEF Straight, InLine, AsTold, Longest, Separate, AddedAsTold
<1>6. CASE name \notin Registered
  <2>1. /\ arrays' = Append(arrays, chain) /\ handlerMap' = Append(handlerMap, new)
        /\ new.name = new.declared /\ new.added = new.used
    BY <1>4, <1>6
  <2> HIDE DEF new
  <2>2. chain \in Seq(V) /\ arrays \in Seq(Seq(V)) /\ Len(arrays) \in Nat
    <3>1. routers[r].used \in Seq(V) /\ Handler \in V
      BY RouterFacts DEF Router, Values
    <3> QED
      BY <3>1, AppendProperties DEF IInv
  <2> HIDE DEF chain
  <2>3. Kept(arrays, arrays', 0) /\ Len(arrays') \in Nat
    <3>1. /\ arrays' \in Seq(Seq(V)) /\ Len(arrays') = Len(arrays) + 1
          /\ \A k \in 1..Len(arrays) : arrays'[k] = arrays[k]
      BY <2>1, <2>2, AppendProperties
    <3> QED
      BY <2>2, <3>1 DEF Kept
  <2>4. ASSUME NEW x \in Slice, IsSlice(arrays, x)
        PROVE  Contents(arrays', x) = Contents(arrays, x)
    BY <2>2, <2>3, <2>4, SliceStays
  <2>5. AsTold'
    <3>1. ASSUME NEW j \in DOMAIN routers
          PROVE  /\ Contents(arrays', routers[j].handlerMembers) = routers[j].used
                 /\ Contents(arrays', routers[j].groups) = routers[j].path
      BY <1>2, <2>4, RouterFacts DEF Straight, AsTold
    <3> QED
      BY <1>1, <3>1 DEF AsTold
  <2>6. InLine' /\ Longest' /\ Separate'
    BY <1>1, <1>2 DEF Straight, InLine, Longest, Separate
  <2>7. AddedAsTold'
    <3>1. /\ DOMAIN handlerMap' = DOMAIN handlerMap \cup {Len(handlerMap) + 1}
          /\ \A i \in DOMAIN handlerMap : handlerMap'[i] = handlerMap[i]
          /\ handlerMap'[Len(handlerMap) + 1] = new
      BY <2>1 DEF IInv
    <3> QED
      BY <1>2, <2>1, <3>1 DEF Straight, AddedAsTold
  <2> QED
    BY <2>5, <2>6, <2>7 DEF Straight
<1> QED
  BY <1>5, <1>6

LEMMA FirstIsStraight ==
    ASSUME RouterInit
    PROVE  Straight
<1>1. /\ arrays = <<>> /\ DOMAIN routers = {1} /\ Len(routers) = 1 /\ DOMAIN handlerMap = {}
      /\ routers[1].handlerMembers = Nil /\ routers[1].groups = Nil
      /\ routers[1].used = <<>> /\ routers[1].path = <<>> /\ routers[1].from = 0
  BY DEF RouterInit
<1>2. Nil.array = 0 /\ Nil.len = 0 /\ Contents(arrays, Nil) = <<>>
  BY DEF Nil, Contents
<1> QED
  BY <1>1, <1>2 DEF Straight, InLine, AsTold, Longest, Within, Separate, AddedAsTold

LEMMA StepInLine ==
    ASSUME NEW V, Values(V), IInv(V), Linear => Straight, [RouterNext]_routerVars
    PROVE  (Linear => Straight)'
<1> SUFFICES ASSUME Linear' PROVE Straight'
  OBVIOUS
<1>1. CASE UNCHANGED routerVars
  BY <1>1 DEF routerVars, Linear, Straight, InLine, AsTold, Longest, Separate, AddedAsTold
<1>2. CASE \E r \in DOMAIN routers : Use(r)
  BY <1>2, UseInLine
<1>3. CASE \E r \in DOMAIN routers : Group(r)
  BY <1>3, GroupInLine
<1>4. CASE \E r \in DOMAIN routers : Add(r)
  BY <1>4, AddInLine
<1> QED
  BY <1>1, <1>2, <1>3, <1>4 DEF RouterNext

\* For every program that extends no router twice: each route runs the
\* middleware that Use was given on its way (ws/router.go:44), in order, and
\* then its handler, and has the name that its groups say.
THEOREM LinearCorrect ==
    ASSUME NEW CONSTANT V, Values(V)
    PROVE  RouterSpec => []LinearRoutesAsDeclared
<1> DEFINE Told == IInv(V) /\ (Linear => Straight)
<1>1. RouterInit => Told
  BY FirstRouter, FirstIsStraight
<1>2. Told /\ [RouterNext]_routerVars => Told'
  BY StepKeeps, StepInLine
<1>3. Told => LinearRoutesAsDeclared
  BY DEF LinearRoutesAsDeclared, RoutesAsDeclared, Straight, AddedAsTold, IInv, ChainsStay
<1> QED
  BY <1>1, <1>2, <1>3, PTL DEF RouterSpec
=============================================================================
