------------------------------- MODULE Worker -------------------------------
(***************************************************************************)
(* The task worker (worker/worker.go).  Tasks are registered under their     *)
(* names, Run hands what is registered to the server, and Add, which any     *)
(* goroutine calls, puts a task into the queue in redis if its type is       *)
(* registered.  No lock guards Router and Running.  The asynq server retries *)
(* a task that it has no handler for.                                        *)
(***************************************************************************)
EXTENDS Naturals, Sequences

CONSTANTS
    Tasks,      \* the names of tasks; NoName among them
    NoName,
    MaxQueued   \* bound: the tasks that are added

ASSUME WorkerAssumption == MaxQueued \in Nat

VARIABLES
    engine,  \* Router; the mux, once it is made; Running
    queue,   \* the tasks in redis
    added,   \* the tasks that Add has accepted so far
    late     \* history: those registered between the mux and Running
workerVars == <<engine, queue, added, late>>

WorkerTypeOK ==
    /\ engine \in [Router: SUBSET Tasks, made: BOOLEAN, mux: SUBSET Tasks,
                   Running: BOOLEAN]
    /\ queue \in Seq(Tasks) /\ added \in 0..MaxQueued /\ late \in SUBSET Tasks

WorkerInit ==
    /\ engine = [Router |-> {}, made |-> FALSE, mux |-> {}, Running |-> FALSE]
    /\ queue = <<>> /\ added = 0 /\ late = {}

\* Mutant: a task is registered also when the server runs.
RegisterAlways(t) ==
    /\ engine' = [engine EXCEPT !.Router = @ \union ({t} \ {NoName})]
    /\ late' = IF engine.made /\ ~engine.Running THEN late \union {t} ELSE late
    /\ UNCHANGED <<queue, added>>

Register(t) ==
    /\ engine' = IF engine.Running \/ t = NoName THEN engine
                 ELSE [engine EXCEPT !.Router = @ \union {t}]
    /\ late' = IF engine.made /\ ~engine.Running THEN late \union {t} ELSE late
    /\ UNCHANGED <<queue, added>>

\* Run: the mux, Running, and the server.
MakeMux ==
    /\ ~engine.made
    /\ engine' = [engine EXCEPT !.made = TRUE, !.mux = engine.Router]
    /\ UNCHANGED <<queue, added, late>>

StartServer ==
    /\ engine.made /\ ~engine.Running
    /\ engine' = [engine EXCEPT !.Running = TRUE]
    /\ UNCHANGED <<queue, added, late>>

\* A task whose type is not registered is refused.
AddTask(t) ==
    /\ t \in engine.Router /\ added < MaxQueued
    /\ queue' = Append(queue, t) /\ added' = added + 1
    /\ UNCHANGED <<engine, late>>

\* The server takes the first task, and puts it back if it has no handler.
Process ==
    /\ engine.Running /\ queue # <<>>
    /\ queue' = IF Head(queue) \in engine.mux THEN Tail(queue)
                ELSE Append(Tail(queue), Head(queue))
    /\ UNCHANGED <<engine, added, late>>

WorkerNext == \/ \E t \in Tasks : Register(t) \/ AddTask(t)
              \/ MakeMux \/ StartServer \/ Process
WorkerSpec == WorkerInit /\ [][WorkerNext]_workerVars

\* Every task that Add accepts has a handler once the server runs, unless it
\* was registered after Run had made the mux and before it set Running
\* (worker.go:76): such a task is retried and never served.
AcceptedIsServed ==
    engine.Running => \A i \in DOMAIN queue : queue[i] \in engine.mux \union late
=============================================================================
