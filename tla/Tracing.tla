------------------------------- MODULE Tracing -------------------------------
(***************************************************************************)
(* The span of a request (middlewares/telemetry.go,                         *)
(* middlewares/recovery.go, telemetry, ws/context_telemetry.go).  The       *)
(* middleware around a handler are entered in their order and left in the   *)
(* opposite one, by return or by panic.  Telemetry starts a span, puts it   *)
(* into the context of the request, where it stays, and ends it when it is  *)
(* left; Recovery and Observe write to the span that the context has.       *)
(***************************************************************************)
EXTENDS Naturals, Sequences

CONSTANTS
    MaxChain,  \* bound: the middleware around the handler
    MaxActs    \* bound: what the handler does

ASSUME TraceAssumption == MaxChain \in Nat /\ MaxActs \in Nat

Middleware == {"telemetry", "recovery", "audit"}   \* audit observes after Next
Answers == {"none", "ok", "failed", "maintenance"}

VARIABLES
    chain,    \* the middleware of the action
    depth,    \* those that are entered
    way,      \* "in" and "out", or "panic" and "crash"; "over"
    answer,   \* Context.Response
    spans,    \* the spans: where they were started and what was done to them
    current,  \* the span of the context, 0 is the noop span
    acts,     \* what the handler has done
    hasPanicked  \* history: the handler has panicked
traceVars == <<chain, depth, way, answer, spans, current, acts, hasPanicked>>

TraceInit ==
    /\ chain \in UNION {[1..n -> Middleware] : n \in 0..MaxChain}
    /\ depth = 0 /\ way = "in" /\ answer = "none" /\ spans = <<>>
    /\ current = 0 /\ acts = 0 /\ hasPanicked = FALSE

\* By the one at a place of the chain, the span of the context is told.
Told(what, by) ==
    IF current = 0 THEN spans
    ELSE [spans EXCEPT ![current].events = Append(@, [what |-> what, by |-> by])]

-----------------------------------------------------------------------------
Enter ==
    /\ way = "in" /\ depth < Len(chain)
    /\ depth' = depth + 1
    /\ IF chain[depth + 1] = "telemetry"
       THEN /\ spans' = Append(spans, [at |-> depth + 1, events |-> <<>>])
            /\ current' = Len(spans) + 1
       ELSE UNCHANGED <<spans, current>>
    /\ UNCHANGED <<chain, way, answer, acts, hasPanicked>>

\* The handler answers, observes, panics or returns.
Act ==
    /\ way = "in" /\ depth = Len(chain)
    /\ \/ /\ acts < MaxActs /\ answer' \in {"ok", "failed"}
          /\ UNCHANGED <<way, spans, hasPanicked>>
       \/ /\ acts < MaxActs /\ spans' = Told("fields", depth + 1)
          /\ UNCHANGED <<way, answer, hasPanicked>>
       \/ way' = "panic" /\ hasPanicked' = TRUE /\ UNCHANGED <<answer, spans>>
       \/ way' = "out" /\ UNCHANGED <<answer, spans, hasPanicked>>
    /\ acts' = acts + 1
    /\ UNCHANGED <<chain, depth, current>>

StatusOf(a) == CASE a = "none" -> "unset" [] a = "ok" -> "status ok"
                 [] OTHER -> "error status"

Mine == CHOOSE s \in DOMAIN spans : spans[s].at = depth

\* Mutant: the span is not ended by a panic.
EndSpanOnReturn ==
    /\ depth > 0 /\ chain[depth] = "telemetry"
    /\ spans' = [spans EXCEPT ![Mine].events = @ \o
                   (IF way = "panic" THEN <<>>
                    ELSE <<[what |-> StatusOf(answer), by |-> depth],
                           [what |-> "end", by |-> depth]>>)]
    /\ UNCHANGED <<way, answer>>

\* Mutant: the span ends before its status is set.
EndSpanEarly ==
    /\ depth > 0 /\ chain[depth] = "telemetry"
    /\ spans' = [spans EXCEPT ![Mine].events = @ \o
                   <<[what |-> "end", by |-> depth],
                     [what |-> StatusOf(answer), by |-> depth]>>]
    /\ UNCHANGED <<way, answer>>

\* The deferred function of Telemetry.
EndSpan ==
    /\ depth > 0 /\ chain[depth] = "telemetry"
    /\ spans' = [spans EXCEPT ![Mine].events = @ \o
                   <<[what |-> "fields", by |-> depth],
                     [what |-> StatusOf(answer), by |-> depth],
                     [what |-> "end", by |-> depth]>>]
    /\ UNCHANGED <<way, answer>>

\* Mutant: the answer is sent and the span is not told.
RecoverSilently ==
    /\ depth > 0 /\ chain[depth] = "recovery"
    /\ UNCHANGED spans
    /\ way' = "out"
    /\ answer' = IF way = "panic" THEN "maintenance" ELSE answer

\* The deferred function of Recovery.
Recover ==
    /\ depth > 0 /\ chain[depth] = "recovery"
    /\ spans' = IF way = "out" \/ current = 0 THEN spans
                ELSE [spans EXCEPT ![current].events = @ \o
                        <<[what |-> "error", by |-> depth],
                          [what |-> "error status", by |-> depth]>>]
    /\ way' = "out"
    /\ answer' = IF way = "panic" THEN "maintenance" ELSE answer

\* What a middleware does after Next a panic leaves out.
Audit ==
    /\ depth > 0 /\ chain[depth] = "audit"
    /\ spans' = IF way = "out" THEN Told("fields", depth) ELSE spans
    /\ UNCHANGED <<way, answer>>

Leave ==
    /\ way \in {"out", "panic"} /\ depth > 0
    /\ EndSpan \/ Recover \/ Audit
    /\ depth' = depth - 1
    /\ UNCHANGED <<chain, current, acts, hasPanicked>>

\* Without a Recovery the panic ends the process.
Finish ==
    /\ way \in {"out", "panic"} /\ depth = 0
    /\ way' = IF way = "out" THEN "over" ELSE "crash"
    /\ UNCHANGED <<chain, depth, answer, spans, current, acts, hasPanicked>>

TraceNext == Enter \/ Act \/ Leave \/ Finish

TraceSpec == TraceInit /\ [][TraceNext]_traceVars

-----------------------------------------------------------------------------
(* Properties.                                                              *)

Events == [what : {"fields", "unset", "status ok", "error", "error status", "end"}, by : Nat]
Spans == [at : 1..Len(chain), events : Seq(Events)]

\* A span is where the chain has a Telemetry, and the context has the latest.
TraceTypeOK ==
    /\ chain \in Seq(Middleware) /\ depth \in 0..Len(chain)
    /\ way \in {"in", "out", "panic", "over", "crash"} /\ answer \in Answers
    /\ spans \in Seq(Spans) /\ current = Len(spans)
    /\ \A s \in DOMAIN spans : chain[spans[s].at] = "telemetry"
    /\ acts \in Nat /\ hasPanicked \in BOOLEAN

Indices(s, what) == {i \in DOMAIN spans[s].events : spans[s].events[i].what = what}
Over == way \in {"over", "crash"}

\* Every span that was started is ended once, whichever way the request ends.
SpansEndOnce ==
    Over => \A s \in DOMAIN spans :
              \E i \in Indices(s, "end") : Indices(s, "end") = {i}

\* Only those that the chain has before a Telemetry can write to its span
\* after the end: Recovery among them, which is why README.md:272 has it behind
\* Telemetry.
LateWritesComeFromOutside ==
    \A s \in DOMAIN spans : \A i \in DOMAIN spans[s].events :
        (\E j \in Indices(s, "end") : j < i) => spans[s].events[i].by < spans[s].at

\* A panic that a Recovery behind the last Telemetry catches is on the span of
\* that Telemetry, with an error status as its last, before the span ends, also
\* when the handler had answered before.
PanicIsOnSpan ==
    \A s \in DOMAIN spans :
        LET behind == {i \in DOMAIN chain : i > spans[s].at}
        IN  /\ Over /\ hasPanicked /\ \E i \in behind : chain[i] = "recovery"
            /\ \A i \in behind : chain[i] # "telemetry"
            => \E e, j \in DOMAIN spans[s].events :
                 /\ e < j /\ spans[s].events[e].what = "error"
                 /\ spans[s].events[j].what = "error status"
                 /\ spans[s].events[j + 1].what = "end"

\* Whatever the order of the middleware and wherever the handler panics, a
\* span ends once, tells of a panic before its end, and what is written to it
\* later comes from outside of its Telemetry.
SpansTellTheRequest == SpansEndOnce /\ LateWritesComeFromOutside /\ PanicIsOnSpan
=============================================================================
