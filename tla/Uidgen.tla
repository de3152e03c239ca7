------------------------------- MODULE Uidgen -------------------------------
(***************************************************************************)
(* uidgen.GenSid (utils/uidgen/simple_uid.go).  An id is the day and a      *)
(* sequence number; the number is the global counter, moved forward to the  *)
(* tenths of a millisecond of the day by a compare-and-swap.  Every atomic  *)
(* operation and every reading of the clock is one step.  Year and day of   *)
(* the year are one number; the sixteen digits are the pair <<day, seq>>.   *)
(***************************************************************************)
EXTENDS Naturals

CONSTANTS
    Callers,     \* the goroutines that generate ids
    TicksPerDay, \* 86400 * 100000 in the code, counted to 10^-5 s
    Days,        \* bound: the clock stops at the end of day Days
    MaxIds       \* bound: ids generated in all

ASSUME ClockAssumption == /\ TicksPerDay \in Nat \ {0} /\ Days \in Nat \ {0}
                          /\ MaxIds \in Nat

VARIABLES
    clock,    \* [day, tick]: time.Now
    counter,  \* the global counter
    pc,       \* pc of a call: "now", "add" or "cas"
    now,      \* now[p]: the time p has read
    seq,      \* seq[p]: what AddUint64 has returned to p
    issued,   \* history: the ids returned
    before,   \* history, before[p]: the ids returned when the call began
    last,     \* history: the id returned last
    repeated, \* history: an id was returned twice
    lost,     \* history: a compare-and-swap has failed
    started   \* number of calls

idsVars == <<clock, counter, pc, now, seq, issued, before, last, repeated, lost,
          started>>

Times == [day: 1..Days, tick: 0..TicksPerDay - 1]
Ids == (1..Days) \X Nat

IdsTypeOK ==
    /\ clock \in Times
    /\ counter \in Nat
    /\ pc \in [Callers -> {"now", "add", "cas"}]
    /\ now \in [Callers -> Times]
    /\ seq \in [Callers -> Nat]
    /\ issued \subseteq Ids /\ before \in [Callers -> SUBSET Ids]
    /\ last \in Ids
    /\ repeated \in BOOLEAN /\ lost \in BOOLEAN
    /\ started \in Nat

IdsInit ==
    /\ clock \in [day: {1}, tick: 0..TicksPerDay - 1]
    /\ counter = 0
    /\ pc = [p \in Callers |-> "now"]
    /\ now = [p \in Callers |-> clock]
    /\ seq = [p \in Callers |-> 0]
    /\ issued = {} /\ before = [p \in Callers |-> {}] /\ last = <<1, 0>>
    /\ repeated = FALSE /\ lost = FALSE
    /\ started = 0

\* Mutant: the ticks of the day go on over midnight.
TickOverMidnight ==
    /\ clock.day < Days
    /\ clock' = [day |-> clock.day + (clock.tick + 1) \div TicksPerDay,
                 tick |-> clock.tick + 1]
    /\ UNCHANGED <<counter, pc, now, seq, issued, before, last, repeated, lost,
                   started>>

Tick ==
    /\ \/ /\ clock.tick < TicksPerDay - 1
          /\ clock' = [clock EXCEPT !.tick = @ + 1]
       \/ /\ clock.tick = TicksPerDay - 1 /\ clock.day < Days
          /\ clock' = [day |-> clock.day + 1, tick |-> 0]
    /\ UNCHANGED <<counter, pc, now, seq, issued, before, last, repeated, lost,
                   started>>

Now(p) ==
    /\ pc[p] = "now" /\ started < MaxIds
    /\ now' = [now EXCEPT ![p] = clock]
    /\ pc' = [pc EXCEPT ![p] = "add"]
    /\ before' = [before EXCEPT ![p] = issued]
    /\ started' = started + 1
    /\ UNCHANGED <<clock, counter, seq, issued, last, repeated, lost>>

Issue(p, n) ==
    LET id == <<now[p].day, n>>
    IN  /\ issued' = issued \union {id}
        /\ last' = id
        /\ repeated' = (repeated \/ id \in issued)
        /\ pc' = [pc EXCEPT ![p] = "now"]

\* AddUint64, and the return of a number that is not behind the clock.
AddUint64(p) ==
    /\ pc[p] = "add"
    /\ counter' = counter + 1
    /\ seq' = [seq EXCEPT ![p] = counter + 1]
    /\ IF counter + 1 < now[p].tick
       THEN /\ pc' = [pc EXCEPT ![p] = "cas"]
            /\ UNCHANGED <<issued, last, repeated>>
       ELSE Issue(p, counter + 1)
    /\ UNCHANGED <<clock, now, before, lost, started>>

\* Mutant: the counter is left behind the clock.
CasForgotten(p) ==
    /\ pc[p] = "cas"
    /\ Issue(p, now[p].tick)
    /\ UNCHANGED <<clock, counter, now, seq, before, lost, started>>

\* CompareAndSwapUint64, whose result is ignored.
CompareAndSwap(p) ==
    /\ pc[p] = "cas"
    /\ counter' = IF counter = seq[p] THEN now[p].tick ELSE counter
    /\ lost' = (lost \/ counter # seq[p])
    /\ Issue(p, now[p].tick)
    /\ UNCHANGED <<clock, now, seq, before, started>>

IdsNext == Tick \/ \E p \in Callers : Now(p) \/ AddUint64(p) \/ CompareAndSwap(p)
IdsSpec == IdsInit /\ [][IdsNext]_idsVars

-----------------------------------------------------------------------------
(* Properties.                                                              *)

\* GenSid is safe for concurrent use and generates no id twice
\* (simple_uid.go:20 and simple_uid_test.go:66-69).
NoDuplicates == ~repeated

\* An id is generated twice only after a compare-and-swap has failed, that
\* is, when another call has added between the two atomic operations of one.
DuplicatesNeedALostSwap == repeated => lost

\* Until then, an id is greater than all that were returned before its call
\* began, also over midnight, when the ticks of the day start again from 0
\* while the counter does not.
Before(i, j) == i[1] < j[1] \/ (i[1] = j[1] /\ i[2] < j[2])
IncreasingUntilLost ==
    [][\A p \in Callers :
         pc[p] # "now" /\ pc'[p] = "now" /\ ~lost'
            => \A id \in before[p] : Before(id, last')]_idsVars
=============================================================================
