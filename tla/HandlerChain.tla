---------------------------- MODULE HandlerChain ----------------------------
(***************************************************************************)
(* One request through its chain of handlers (ws/dispatcher.go,             *)
(* ws/context.go, middlewares/recovery.go).  Dispatcher calls handlers[0]   *)
(* itself and then Context.Next; a handler may call Next, which runs the    *)
(* handlers that have not run yet inside it, any number of times.  Abort    *)
(* only moves the int8 index to abortIndex, and both the loop of Next and   *)
(* Next itself go on incrementing it.                                       *)
(*                                                                         *)
(* Every handler is called by Dispatcher or by a loop of Next, and both     *)
(* increment the index and test it when the handler returns, so that the    *)
(* stack of handlers is all there is of the goroutine's stack.              *)
(***************************************************************************)
EXTENDS Integers, Sequences

CONSTANTS
    N,           \* len(ctx.handlers)
    Recoveries,  \* the positions of middlewares.Recovery in the chain
    MaxNexts     \* bound: the calls of Next by the other handlers

Handlers == 0..N - 1
Int8(x) == ((x + 128) % 256) - 128
abortIndex == 127 \div 2

ASSUME ChainAssumption == N \in Nat \ {0} /\ MaxNexts \in Nat
ASSUME RecoveriesAssumption == Recoveries \subseteq Handlers

VARIABLES
    phase,    \* "body" of the top handler, "loop" of the innermost Next,
              \* "done" when Dispatcher returns, or "crashed" by a panic
    index,    \* Context.index
    stack,    \* the handlers that have not returned
    ran,      \* history: the handlers that were started, in order
    aborted,  \* history: Abort was called
    nexts     \* calls of Next by handlers other than Recovery
chainVars == <<phase, index, stack, ran, aborted, nexts>>

ChainTypeOK ==
    /\ phase \in {"body", "loop", "done", "crashed"}
    /\ index \in -128..127
    /\ stack \in Seq(Handlers)
    /\ ran \in Seq(Handlers)
    /\ aborted \in BOOLEAN
    /\ nexts \in 0..MaxNexts
    /\ phase = "body" => stack # <<>>

\* Mutant: Recovery returns without calling Next.
BeginPlain(s, i, h) == stack' = Append(s, h) /\ index' = i /\ phase' = "body"

\* Handler h begins.  The body of Recovery is a call of Next.
Begin(s, i, h) ==
    /\ stack' = Append(s, h)
    /\ IF h \in Recoveries THEN index' = Int8(i + 1) /\ phase' = "loop"
                           ELSE index' = i /\ phase' = "body"

ChainInit ==
    /\ stack = <<0>> /\ ran = <<0>>
    /\ IF 0 \in Recoveries THEN index = 1 /\ phase = "loop"
                           ELSE index = 0 /\ phase = "body"
    /\ aborted = FALSE
    /\ nexts = 0

Top == stack[Len(stack)]
Body == phase = "body" /\ Top \notin Recoveries

\* The loop of Next calls the next handler ...
CallHandler ==
    /\ phase = "loop" /\ index >= 0 /\ index < Int8(N)
    /\ Begin(stack, index, index)
    /\ ran' = Append(ran, index)
    /\ UNCHANGED <<aborted, nexts>>

\* Mutant: the loop stops before the last handler.
EndLoopEarly ==
    /\ phase = "loop" /\ index >= Int8(N) - 1
    /\ phase' = IF stack = <<>> THEN "done" ELSE "body"
    /\ UNCHANGED <<index, stack, ran, aborted, nexts>>

\* ... or Next returns to its caller, a handler or at last Dispatcher.
EndLoop ==
    /\ phase = "loop" /\ index >= Int8(N)
    /\ phase' = IF stack = <<>> THEN "done" ELSE "body"
    /\ UNCHANGED <<index, stack, ran, aborted, nexts>>

CallNext ==
    /\ Body /\ nexts < MaxNexts
    /\ nexts' = nexts + 1
    /\ index' = Int8(index + 1)
    /\ phase' = "loop"
    /\ UNCHANGED <<stack, ran, aborted>>

\* Mutant: Abort moves the index only to the end of the chain's first half.
AbortHalfway ==
    /\ Body
    /\ index' = N \div 2 /\ aborted' = TRUE
    /\ UNCHANGED <<phase, stack, ran, nexts>>

Abort ==
    /\ Body
    /\ index' = abortIndex /\ aborted' = TRUE
    /\ UNCHANGED <<phase, stack, ran, nexts>>

\* Mutant: the index is only incremented by Next.
ReturnUncounted ==
    /\ phase = "body"
    /\ stack' = SubSeq(stack, 1, Len(stack) - 1)
    /\ phase' = "loop"
    /\ UNCHANGED <<index, ran, aborted, nexts>>

\* A handler returns, into a loop of Next or to Dispatcher, which calls Next.
Return ==
    /\ phase = "body"
    /\ stack' = SubSeq(stack, 1, Len(stack) - 1)
    /\ index' = Int8(index + 1)
    /\ phase' = "loop"
    /\ UNCHANGED <<ran, aborted, nexts>>

\* The Recovery handlers below position n of the stack.
Guards(n) == {i \in 1..n : stack[i] \in Recoveries}

\* Mutant: the frame of Recovery itself is unwound.
PanicPopsRecovery ==
    /\ Body
    /\ \E i \in Guards(Len(stack)) :
         /\ \A j \in Guards(Len(stack)) : j <= i
         /\ stack' = SubSeq(stack, 1, i - 1)
         /\ phase' = "body"
         /\ index' = abortIndex /\ aborted' = TRUE
    /\ UNCHANGED <<ran, nexts>>

\* A handler panics, or Next indexes the chain below zero: the innermost
\* Recovery on the stack answers the client, aborts and returns; without one
\* the process crashes.
Panic ==
    /\ Body \/ (phase = "loop" /\ index < 0)
    /\ \/ /\ Guards(Len(stack)) = {}
          /\ phase' = "crashed"
          /\ UNCHANGED <<index, stack, aborted>>
       \/ \E i \in Guards(Len(stack)) :
            /\ \A j \in Guards(Len(stack)) : j <= i
            /\ stack' = SubSeq(stack, 1, i)
            /\ phase' = "body"
            /\ index' = abortIndex /\ aborted' = TRUE
    /\ UNCHANGED <<ran, nexts>>

ChainOver == phase \in {"done", "crashed"} /\ UNCHANGED chainVars

ChainNext == CallHandler \/ EndLoop \/ CallNext \/ Abort \/ Return \/ Panic \/ ChainOver
ChainSpec == ChainInit /\ [][ChainNext]_chainVars

-----------------------------------------------------------------------------
(* Properties.                                                              *)

\* Handlers run in the order of the chain and none runs twice, however they
\* nest their calls of Next, return early or are cut short by a panic.
InOrderOnce == \A i \in 1..Len(ran) : ran[i] = i - 1

\* "Abort gives up the calls of the following methods" (context.go:38).
AbortStops == [][aborted => ran' = ran]_chainVars

\* A chain that nobody aborts runs to its end, whether or not its handlers
\* call Next.
DoneRanAll == phase = "done" /\ ~aborted => Len(ran) = N

\* Only a handler that stands before every Recovery of the chain can crash
\* the process, at any depth and also after Next has returned to it.
CrashOnlyUnguarded ==
    phase = "crashed" =>
        stack # <<>> /\ \A r \in Recoveries : Top < r
=============================================================================
