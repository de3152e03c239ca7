------------------------------ MODULE LogTail ------------------------------
(* What Client.GetRecentLogs promises ("ring buffer (last 100 items)",      *)
(* ws/client.go:62): the last Capacity lines logged, oldest first.          *)
EXTENDS Naturals, Sequences

CONSTANTS Lines, Capacity
VARIABLE tail

LastLines(s) == IF Len(s) <= Capacity THEN s ELSE Tail(s)

Init == tail = <<>>
Log(line) == tail' = LastLines(Append(tail, line))
Next == \E line \in Lines : Log(line)
Spec == Init /\ [][Next]_tail
=============================================================================
