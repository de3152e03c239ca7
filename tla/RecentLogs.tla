----------------------------- MODULE RecentLogs -----------------------------
(***************************************************************************)
(* The ring buffer of a client's recent log lines (ws/client.go).  Reader,  *)
(* Request, Write and the hub log to it concurrently; Log updates it and    *)
(* GetRecentLogs reads it under Client.mu, so each is one step.             *)
(***************************************************************************)
EXTENDS Integers, Sequences

CONSTANTS
    Lines,    \* the lines that are logged
    Blank,    \* the zero value of the array's elements
    Capacity  \* 100 in the code

ASSUME CapacityAssumption == Capacity \in Nat \ {0}

VARIABLES recentLogs, recentIdx, recentCount
logsVars == <<recentLogs, recentIdx, recentCount>>

Slots == 0..Capacity - 1

LogsTypeOK ==
    /\ recentLogs \in [Slots -> Lines \union {Blank}]
    /\ recentIdx \in Slots
    /\ recentCount \in 0..Capacity

LogsInit ==
    /\ recentLogs = [i \in Slots |-> Blank]
    /\ recentIdx = 0
    /\ recentCount = 0

\* Mutant: the counter is not held at the capacity of the array.
LogCountsOn(line) ==
    /\ recentLogs' = [recentLogs EXCEPT ![recentIdx] = line]
    /\ recentIdx' = (recentIdx + 1) % Capacity
    /\ recentCount' = IF recentCount <= Capacity THEN recentCount + 1
                                                 ELSE recentCount

Log(line) ==
    /\ recentLogs' = [recentLogs EXCEPT ![recentIdx] = line]
    /\ recentIdx' = (recentIdx + 1) % Capacity
    /\ recentCount' = IF recentCount < Capacity THEN recentCount + 1
                                                ELSE recentCount

Oldest == (recentIdx - recentCount + Capacity) % Capacity

\* Mutant: the oldest line is looked for at the start of the array.
GetFromStart == [i \in 1..recentCount |-> recentLogs[i - 1]]

GetRecentLogs ==
    [i \in 1..recentCount |-> recentLogs[(Oldest + i - 1) % Capacity]]

LogsNext == \E line \in Lines : Log(line)
LogsSpec == LogsInit /\ [][LogsNext]_logsVars

-----------------------------------------------------------------------------
\* The ring buffer implements the tail of the log: at every moment what
\* GetRecentLogs returns is the last lines, in the order they were logged,
\* also after the index has wrapped.
Log0 == INSTANCE LogTail WITH tail <- GetRecentLogs
ReturnsLastLines == Log0!Spec

\* Until the buffer is full the next slot is the first that is free.
FilledInOrder == recentCount < Capacity => recentIdx = recentCount
=============================================================================
