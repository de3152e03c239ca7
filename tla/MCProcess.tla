------------------------------ MODULE MCProcess ------------------------------
(* One of the parts of a process that do not touch each other's state; the  *)
(* others stay as they were at first.                                       *)
EXTENDS HandlerChain, RecentLogs, Uidgen, Router, Trie, Tracing, Stores,
        LangFile, Stats, Startup, Worker

CONSTANTS m1, m2, p1, p2, p3
VARIABLE unit

\* A client can log and a chain run on without end; the others may stop.
Endless == {"chain", "logs"}
Units == Endless \union {"ids", "router", "trie", "tracing", "stores", "lang",
                        "stats", "startup", "worker"}
OneOrThree == {<<m1>>, <<m2>>, <<m1, m2, m1>>}
SameHash == [m \in Messages |-> IF m = "m2" THEN 2 ELSE 1]

\* What the parts that are not checked begin with.
MCInit ==
    /\ unit \in Units
    /\ ChainInit /\ LogsInit /\ IdsInit /\ RouterInit /\ TrieInit /\ TraceInit
    /\ StoresInit /\ LangInit /\ StatsInit /\ StartInit /\ WorkerInit
    /\ unit # "ids" => clock.tick = 0
    /\ unit # "tracing" => chain = <<>>
    /\ unit # "stores" => kind = "server"
    /\ unit # "lang" => exists
    /\ unit # "stats" => sentBytes = 0
    /\ unit # "startup" => \A f \in FileNames : configs[f] = "edited"

parts == <<chainVars, logsVars, idsVars, routerVars, trieVars, traceVars,
           storeVars, langVars, statsVars, startVars, workerVars>>

Work ==
    /\ IF unit = "chain" THEN ChainNext ELSE UNCHANGED chainVars
    /\ IF unit = "logs" THEN LogsNext ELSE UNCHANGED logsVars
    /\ IF unit = "ids" THEN IdsNext ELSE UNCHANGED idsVars
    /\ IF unit = "router" THEN RouterNext ELSE UNCHANGED routerVars
    /\ IF unit = "trie" THEN TrieNext ELSE UNCHANGED trieVars
    /\ IF unit = "tracing" THEN TraceNext ELSE UNCHANGED traceVars
    /\ IF unit = "stores" THEN StoresNext ELSE UNCHANGED storeVars
    /\ IF unit = "lang" THEN LangNext ELSE UNCHANGED langVars
    /\ IF unit = "stats" THEN StatsNext ELSE UNCHANGED statsVars
    /\ IF unit = "startup" THEN StartNext ELSE UNCHANGED startVars
    /\ IF unit = "worker" THEN WorkerNext ELSE UNCHANGED workerVars

\* The routes are registered once, a request ends, and bounds are reached.
Stop == unit \notin Endless /\ UNCHANGED parts

MCNext == (Work \/ Stop) /\ UNCHANGED unit
MCSpec == MCInit /\ [][MCNext]_<<unit, parts>>

\* The parts that have proofs keep their types; one that is not checked stays
\* at a first state.
TypeOK ==
    /\ unit = "chain" => ChainTypeOK
    /\ unit = "logs" => LogsTypeOK
    /\ unit = "ids" => IdsTypeOK
    /\ unit = "router" => RouterTypeOK
    /\ unit = "trie" => TrieTypeOK
    /\ unit = "tracing" => TraceTypeOK
    /\ unit = "stores" => StoresTypeOK
    /\ unit = "lang" => LangTypeOK
    /\ unit = "stats" => StatsTypeOK
    /\ unit = "startup" => StartTypeOK
    /\ unit = "worker" => WorkerTypeOK

\* Bounds: what a property leaves out is not followed further, or not through
\* all that may come after it.
Careful == ~careless
Calm == \/ twice = {}
        \/ setting = "first" /\ \A s \in DOMAIN stores : ~stores[s].failed
Few == Len(records) <= 3 /\ (overlap => Len(records) <= 1)
=============================================================================
