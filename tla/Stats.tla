-------------------------------- MODULE Stats --------------------------------
(***************************************************************************)
(* The collector of statistics (stats).  Each call of Collect starts a      *)
(* goroutine that runs doCollect for ever; its lock guards the window of     *)
(* records and not netStats, from which the rates are computed.  Of a record *)
(* the model keeps the sent bytes: what netStats says they were and when.    *)
(*                                                                         *)
(* The counters of the network interfaces go up, wrap around and fall when   *)
(* an interface goes away.                                                   *)
(***************************************************************************)
EXTENDS Naturals, Sequences

CONSTANTS
    Collections,  \* the goroutines that Collect has started
    Modulus,      \* the counters have so many values: 2^64
    capacity,
    MaxClock,     \* bound: the time
    MaxTraffic    \* bound: the bytes that are sent in a unit of time

ASSUME StatsAssumption == /\ Modulus \in Nat \ {0} /\ capacity \in Nat \ {0}
                          /\ MaxClock \in Nat /\ MaxTraffic \in Nat

NoTime == 0

VARIABLES
    hubThere,  \* InitManager has made the hub
    sentBytes, \* the bytes sent, as the interfaces count them
    time,
    netStats,  \* LastSent and LastTime
    collect,   \* where a doCollect is, and its locals
    stats,     \* the window of records
    traffic,   \* history: the bytes that were sent until a time
    records,   \* history: all records
    overlap,   \* history: two were between reading and writing netStats
    fell       \* history: the times at which the counters fell
statsVars == <<hubThere, sentBytes, time, netStats, collect, stats,
               traffic, records, overlap, fell>>

Steps == {"sleep", "rate", "update", "append"}
Records == [from : Nat, to : Nat, sent : Nat]
Collectings == [pc : Steps, total : 0..(Modulus - 1), rec : Records]

NoRecord == [from |-> NoTime, to |-> NoTime, sent |-> 0]
IsReading(r) == r.to # NoTime
Resting == [pc |-> "sleep", total |-> 0, rec |-> NoRecord]

StatsInit ==
    /\ hubThere = FALSE /\ sentBytes \in 0..(Modulus - 1) /\ time = 1
    /\ netStats = [LastSent |-> 0, LastTime |-> NoTime]
    /\ collect = [g \in Collections |-> Resting]
    /\ stats = <<>> /\ traffic = <<0>> /\ records = <<>>
    /\ overlap = FALSE /\ fell = {}

-----------------------------------------------------------------------------
Environment ==
    \/ /\ ~hubThere /\ hubThere' = TRUE
       /\ UNCHANGED <<sentBytes, time, traffic, fell>>
    \/ /\ time < MaxClock /\ time' = time + 1
       /\ \E n \in 0..MaxTraffic :
            /\ traffic' = Append(traffic, traffic[time] + n)
            /\ sentBytes' = (sentBytes + n) % Modulus
       /\ UNCHANGED <<hubThere, fell>>
    \/ /\ sentBytes > 0 /\ sentBytes' \in 0..(sentBytes - 1)
       /\ fell' = fell \union {time}
       /\ UNCHANGED <<hubThere, time, traffic>>

Collecting(g, pc) == collect[g].pc = pc
CollectStep(g, r) == collect' = [collect EXCEPT ![g] = r]

\* IOCounters, which may fail, and the time.
ReadCounters(g) ==
    /\ Collecting(g, "sleep") /\ hubThere
    /\ \/ CollectStep(g, [Resting EXCEPT !.pc = "append"])
       \/ CollectStep(g, [pc |-> "rate", total |-> sentBytes,
                          rec |-> [NoRecord EXCEPT !.to = time]])
    /\ UNCHANGED <<netStats, stats, records>>

\* Mutant: what is less than before counts as nothing.
SentUnwrapped(total) == IF total < netStats.LastSent THEN 0
                        ELSE total - netStats.LastSent

\* The difference of two uint64.
Sent(total) == (total + Modulus - netStats.LastSent) % Modulus

\* The first reading has no rate.
Rate(g) ==
    /\ Collecting(g, "rate")
    /\ CollectStep(g, [collect[g] EXCEPT !.pc = "update", !.rec =
         IF netStats.LastTime = NoTime THEN @
         ELSE [from |-> netStats.LastTime, to |-> @.to, sent |-> Sent(collect[g].total)]])
    /\ UNCHANGED <<netStats, stats, records>>

\* Mutant: the time is not kept when there is one.
UpdateSent(g) ==
    /\ Collecting(g, "update") /\ CollectStep(g, [collect[g] EXCEPT !.pc = "append"])
    /\ netStats' = [LastSent |-> collect[g].total,
                    LastTime |-> IF netStats.LastTime = NoTime THEN collect[g].rec.to
                                 ELSE netStats.LastTime]
    /\ UNCHANGED <<stats, records>>

UpdateNetStats(g) ==
    /\ Collecting(g, "update") /\ CollectStep(g, [collect[g] EXCEPT !.pc = "append"])
    /\ netStats' = [LastSent |-> collect[g].total, LastTime |-> collect[g].rec.to]
    /\ UNCHANGED <<stats, records>>

\* Mutant: the oldest record goes before there are too many.
WindowEarly(s) == IF Len(s) >= capacity THEN Tail(s) ELSE s

Window(s) == IF Len(s) > capacity THEN Tail(s) ELSE s

AppendRecord(g) ==
    /\ Collecting(g, "append") /\ CollectStep(g, Resting)
    /\ stats' = Window(Append(stats, collect[g].rec))
    /\ records' = Append(records, collect[g].rec)
    /\ UNCHANGED netStats

doCollect(g) == ReadCounters(g) \/ Rate(g) \/ UpdateNetStats(g) \/ AppendRecord(g)

StatsNext ==
    /\ \/ Environment /\ UNCHANGED <<netStats, collect, stats, records>>
       \/ /\ \E g \in Collections : doCollect(g)
          /\ UNCHANGED <<hubThere, sentBytes, time, traffic, fell>>
    /\ overlap' = (overlap \/ \E g, h \in Collections :
                      g # h /\ collect'[g].pc # "sleep" /\ collect'[h].pc # "sleep")

StatsSpec == StatsInit /\ [][StatsNext]_statsVars

-----------------------------------------------------------------------------
(* Properties.                                                              *)

\* A record without a reading has no times.
StatsTypeOK ==
    /\ hubThere \in BOOLEAN /\ overlap \in BOOLEAN
    /\ sentBytes \in 0..(Modulus - 1) /\ time \in Nat \ {0} /\ fell \subseteq Nat
    /\ traffic \in Seq(Nat) /\ Len(traffic) = time
    /\ netStats \in [LastSent : 0..(Modulus - 1), LastTime : Nat]
    /\ collect \in [Collections -> Collectings]
    /\ stats \in Seq(Records) /\ records \in Seq(Records)

Unbroken(from, to) == \A t \in from..to : t \notin fell

\* The bytes behind a rate are those that were sent in the time behind it,
\* also when the counter wraps around, unless an interface has gone away in
\* that time or two goroutines have collected at once (stats.go:124).
RatesAreTraffic ==
    \A i \in DOMAIN records :
        LET r == records[i]
        IN  /\ ~overlap /\ r.from # NoTime
            /\ traffic[r.to] - traffic[r.from] < Modulus
            /\ Unbroken(r.from, r.to)
            => r.sent = traffic[r.to] - traffic[r.from]

\* Of the records before a place, the last reading is of this time, if there
\* is one.
LastReading(i, t) ==
    \/ t = NoTime /\ \A j \in 1..(i - 1) : ~IsReading(records[j])
    \/ \E j \in 1..(i - 1) : /\ IsReading(records[j]) /\ records[j].to = t
                            /\ \A k \in (j + 1)..(i - 1) : ~IsReading(records[k])

\* The times behind the rates meet, so that no traffic is counted twice and
\* none is missed, whatever readings fail in between; only the first reading
\* has no rate.
TimesMeet ==
    ~overlap => \A i \in DOMAIN records :
                    IsReading(records[i]) => LastReading(i, records[i].from)

LatestOf(s) ==
    LET n == IF Len(s) < capacity THEN Len(s) ELSE capacity
    IN  SubSeq(s, Len(s) - n + 1, Len(s))

\* The window has the latest records, as many as it can hold.
WindowIsLatest == stats = LatestOf(records)

\* The records are true: their rates are the traffic of times that meet, and
\* the window has the latest of them.
RecordsAreTrue == RatesAreTraffic /\ TimesMeet /\ WindowIsLatest
=============================================================================
