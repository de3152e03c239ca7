---------------------------- MODULE ProcessProofs ----------------------------
(***************************************************************************)
(* The smaller parts of a process, for all their goroutines, processes,     *)
(* files, tasks and bounds: the task worker, the start of a program, the    *)
(* collector of statistics, the language file, the stores and the span of a *)
(* request.                                                                 *)
(***************************************************************************)
EXTENDS MCProcess, PartProofs, FiniteSetTheorems, SequenceTheorems, TLAPS

-----------------------------------------------------------------------------
(* The task worker.                                                         *)

\* The mux has every task that is registered, or it was registered late; and
\* only registered tasks are in the queue.
WorkerInv ==
    /\ WorkerTypeOK
    /\ engine.Running => engine.made
    /\ engine.made => engine.Router \subseteq engine.mux \union late
    /\ \A i \in DOMAIN queue : queue[i] \in engine.Router

\* For every set of tasks and however many are added: once the server runs, a
\* task that Add has accepted has a handler or was registered late
\* (worker/worker.go:76).
THEOREM WorkerCorrect == WorkerSpec => [](WorkerTypeOK /\ AcceptedIsServed)
<1>1. WorkerInit => WorkerInv
  BY WorkerAssumption DEF WorkerInit, WorkerInv, WorkerTypeOK
<1>2. WorkerInv /\ [WorkerNext]_workerVars => WorkerInv'
  <2> SUFFICES ASSUME WorkerInv, [WorkerNext]_workerVars
               PROVE  WorkerInv'
    OBVIOUS
  <2> USE WorkerAssumption DEF WorkerInv, WorkerTypeOK
  <2>1. CASE UNCHANGED workerVars
    BY <2>1 DEF workerVars
  <2>2. ASSUME NEW t \in Tasks, Register(t)
        PROVE  WorkerInv'
    <3>1. CASE engine.Running \/ t = NoName
      BY <2>2, <3>1 DEF Register
    <3>2. CASE ~(engine.Running \/ t = NoName)
      BY <2>2, <3>2 DEF Register
    <3> QED
      BY <3>1, <3>2
  <2>3. ASSUME NEW t \in Tasks, AddTask(t)
        PROVE  WorkerInv'
    <3>1. queue' \in Seq(Tasks) /\ \A i \in DOMAIN queue' : queue'[i] \in engine.Router
      BY <2>3 DEF AddTask
    <3>2. added' \in 0..MaxQueued /\ UNCHANGED <<engine, late>>
      BY <2>3 DEF AddTask
    <3> QED
      BY <3>1, <3>2
  <2>4. CASE MakeMux
    BY <2>4 DEF MakeMux
  <2>5. CASE StartServer
    BY <2>5 DEF StartServer
  <2>6. CASE Process
    <3>1. Head(queue) \in Tasks /\ Tail(queue) \in Seq(Tasks) /\ Head(queue) = queue[1]
          /\ Len(Tail(queue)) = Len(queue) - 1
          /\ \A i \in 1..Len(Tail(queue)) : Tail(queue)[i] = queue[i + 1]
      BY <2>6, HeadTailProperties DEF Process
    <3>2. queue' \in Seq(Tasks) /\ \A i \in DOMAIN queue' : queue'[i] \in engine.Router
      <4>1. CASE queue' = Tail(queue)
        BY <3>1, <4>1
      <4>2. CASE queue' = Append(Tail(queue), Head(queue))
        <5> DEFINE rest == Tail(queue)
                   first == Head(queue)
        <5>1. first \in engine.Router /\ \A i \in 1..Len(rest) : rest[i] \in engine.Router
          BY <2>6, <3>1 DEF Process
        <5>2. rest \in Seq(Tasks) /\ first \in Tasks /\ queue' = Append(rest, first)
          BY <3>1, <4>2
        <5> HIDE DEF rest, first
        <5> QED
          BY <5>1, <5>2
      <4> QED
        BY <2>6, <4>1, <4>2 DEF Process
    <3>3. UNCHANGED <<engine, added, late>>
      BY <2>6 DEF Process
    <3> QED
      BY <3>2, <3>3
  <2> QED
    BY <2>1, <2>2, <2>3, <2>4, <2>5, <2>6 DEF WorkerNext
<1>3. WorkerInv => WorkerTypeOK /\ AcceptedIsServed
  BY DEF WorkerInv, WorkerTypeOK, AcceptedIsServed
<1> QED
  BY <1>1, <1>2, <1>3, PTL DEF WorkerSpec

-----------------------------------------------------------------------------
(* The start of a program.                                                  *)

\* Only one process writes a file, the one that has made it.
FillersAreAlone ==
    \A p, q \in Being("fill") : proc[p].file = proc[q].file => p = q

\* An empty file is being written, or its writer has died.
EmptyIsUnfinished ==
    /\ \A p \in Being("fill") : configs[proc[p].file] = "empty"
    /\ \A f \in FileNames : configs[f] = "empty" => Unfinished(f)

StartInv == /\ StartTypeOK
            /\ FillersAreAlone
            /\ EmptyIsUnfinished
            /\ RunsOnConfiguration

\* A step of a process that does not write.
LEMMA StartAdvances ==
    ASSUME StartInv, NEW p \in Processes, NEW new, ~Stage(p, "fill"),
           new \in [pc: Stages, file: FileNames, remote: BOOLEAN, dev: BOOLEAN,
                   with: Versions, unfinished: BOOLEAN],
           new.pc # "fill",
           new.pc \in {"fetch", "listen", "serve"} /\ ~new.remote =>
               \/ new.with \in {"default", "edited"}
               \/ new.with = "empty" /\ new.unfinished,
           proc' = [proc EXCEPT ![p] = new], UNCHANGED <<configs, editions, cut>>,
           listener' \in SUBSET Processes
    PROVE  StartInv'
<1> USE DEF StartInv
<1>1. StartTypeOK'
  BY DEF StartTypeOK
<1>2. /\ proc'[p] = new /\ \A q \in Processes \ {p} : proc'[q] = proc[q]
  BY DEF StartTypeOK
<1>3. Being("fill")' = Being("fill") /\ p \notin Being("fill")
  BY <1>2 DEF Being, Stage
<1>4. \A q \in Being("fill") : proc'[q] = proc[q]
  BY <1>2, <1>3 DEF Being
<1>5. FillersAreAlone'
  BY <1>3, <1>4 DEF FillersAreAlone
<1>6. EmptyIsUnfinished'
  BY <1>3, <1>4 DEF EmptyIsUnfinished, Unfinished, BeingWritten
<1>7. RunsOnConfiguration'
  BY <1>2 DEF RunsOnConfiguration, Running
<1> QED
  BY <1>1, <1>5, <1>6, <1>7

\* What the invariant says of a process.
LEMMA StartTypes ==
    ASSUME StartInv, NEW p \in Processes
    PROVE  /\ proc[p].pc \in Stages /\ proc[p].file \in FileNames
           /\ proc[p].remote \in BOOLEAN /\ proc[p].dev \in BOOLEAN
           /\ proc[p].with \in Versions /\ proc[p].unfinished \in BOOLEAN
           /\ DOMAIN proc = Processes /\ configs[proc[p].file] \in Versions
  BY DEF StartInv, StartTypeOK

\* The options of the command line are read.
LEMMA InitOptionsKeeps ==
    ASSUME StartInv, NEW p \in Processes, InitOptions(p)
    PROVE  StartInv'
<1>1. PICK option \in FileNames, dev \in BOOLEAN, remote \in BOOLEAN :
         proc' = [proc EXCEPT ![p] = [NotStarted EXCEPT
           !.pc = "read", !.file = NameOf(option, dev), !.dev = dev, !.remote = remote]]
  BY DEF InitOptions
<1> DEFINE new == [NotStarted EXCEPT
           !.pc = "read", !.file = NameOf(option, dev), !.dev = dev, !.remote = remote]
<1>2. NameOf(option, dev) \in FileNames
  BY DEF NameOf, FileNames
<1>3. new.pc = "read" /\ new \in [pc: Stages, file: FileNames, remote: BOOLEAN,
             dev: BOOLEAN, with: Versions, unfinished: BOOLEAN]
  BY <1>2 DEF NotStarted, Stages, Versions
<1> HIDE DEF new
<1>4. ~Stage(p, "fill") /\ UNCHANGED <<configs, editions, cut, listener>>
  BY DEF InitOptions, Stage
<1> QED
  BY <1>1, <1>3, <1>4, StartAdvances DEF StartInv, StartTypeOK, new

\* viper reads the file that is there.
LEMMA ReadInConfigKeeps ==
    ASSUME StartInv, NEW p \in Processes, ReadInConfig(p)
    PROVE  StartInv'
<1> DEFINE c == configs[proc[p].file]
           stage == IF c \notin {ABSENT, "broken"} \/ proc[p].remote THEN "fetch"
                 ELSE IF c = ABSENT THEN "create" ELSE "exit 1"
           unfinished == Unfinished(proc[p].file)
           new == [proc[p] EXCEPT !.with = c, !.unfinished = unfinished, !.pc = stage]
<1>1. proc' = [proc EXCEPT ![p] = new]
  BY StartTypes DEF ReadInConfig
<1>2. ~Stage(p, "fill") /\ UNCHANGED <<configs, editions, cut, listener>>
  BY DEF ReadInConfig, Stage
<1>3. unfinished \in BOOLEAN
  BY DEF Unfinished, BeingWritten
<1>4. c = "empty" => unfinished
  BY StartTypes DEF StartInv, EmptyIsUnfinished
<1>5. c \in Versions /\ stage \in {"fetch", "create", "exit 1"}
      /\ (stage = "fetch" /\ ~proc[p].remote => c \in {"empty", "default", "edited"})
  BY StartTypes DEF Versions
<1>6. proc[p] \in [pc: Stages, file: FileNames, remote: BOOLEAN, dev: BOOLEAN,
                   with: Versions, unfinished: BOOLEAN]
  BY DEF StartInv, StartTypeOK
<1> HIDE DEF c, unfinished, stage
<1>7. /\ new \in [pc: Stages, file: FileNames, remote: BOOLEAN, dev: BOOLEAN,
                   with: Versions, unfinished: BOOLEAN]
      /\ new.pc = stage /\ new.with = c /\ new.unfinished = unfinished
      /\ new.remote = proc[p].remote
  BY <1>3, <1>5, <1>6 DEF Stages
<1> HIDE DEF new
<1>8. new.pc # "fill" /\ (new.pc \in {"fetch", "listen", "serve"} /\ ~new.remote =>
               \/ new.with \in {"default", "edited"}
               \/ new.with = "empty" /\ new.unfinished)
  BY <1>4, <1>5, <1>7
<1>9. listener' \in SUBSET Processes
  BY <1>2 DEF StartInv, StartTypeOK
<1> QED
  BY <1>1, <1>2, <1>7, <1>8, <1>9, StartAdvances

\* A process that goes on with what it has read.
LEMMA GoesOnKeeps ==
    ASSUME StartInv, NEW p \in Processes, NEW from, NEW stage,
           Stage(p, from), Advance(p, stage),
           from \in {"fetch", "listen"}, stage \in {"listen", "serve", "exit 0", "exit 1"},
           UNCHANGED <<configs, editions, cut>>, listener' \in SUBSET Processes
    PROVE  StartInv'
<1> DEFINE new == [proc[p] EXCEPT !.pc = stage]
<1>1. proc' = [proc EXCEPT ![p] = new] /\ ~Stage(p, "fill")
  BY DEF Advance, Stage
<1>2. proc[p] \in [pc: Stages, file: FileNames, remote: BOOLEAN, dev: BOOLEAN,
                   with: Versions, unfinished: BOOLEAN]
  BY DEF StartInv, StartTypeOK
<1>3. /\ new \in [pc: Stages, file: FileNames, remote: BOOLEAN, dev: BOOLEAN,
                   with: Versions, unfinished: BOOLEAN]
      /\ new.pc = stage /\ new.with = proc[p].with
      /\ new.unfinished = proc[p].unfinished /\ new.remote = proc[p].remote
  BY <1>2 DEF Stages
<1> HIDE DEF new
<1>4. ~proc[p].remote => \/ proc[p].with \in {"default", "edited"}
                         \/ proc[p].with = "empty" /\ proc[p].unfinished
  BY DEF StartInv, RunsOnConfiguration, Running, Stage
<1>5. new.pc # "fill" /\ (new.pc \in {"fetch", "listen", "serve"} /\ ~new.remote =>
               \/ new.with \in {"default", "edited"}
               \/ new.with = "empty" /\ new.unfinished)
  BY <1>3, <1>4
<1> QED
  BY <1>1, <1>3, <1>5, StartAdvances

\* Somebody edits a file.
LEMMA EditFileKeeps ==
    ASSUME StartInv, EditFile
    PROVE  StartInv'
<1>1. PICK f \in FileNames, c \in {ABSENT, "edited", "broken"} :
        /\ ~BeingWritten(f) /\ configs' = [configs EXCEPT ![f] = c] /\ cut' = cut \ {f}
  BY DEF EditFile
<1>2. /\ editions < MaxEditions /\ editions' = editions + 1
      /\ UNCHANGED <<proc, listener>>
  BY DEF EditFile
<1>3. /\ configs \in [FileNames -> Versions] /\ configs'[f] = c /\ c # "empty"
      /\ \A g \in FileNames \ {f} : configs'[g] = configs[g]
  BY <1>1 DEF StartInv, StartTypeOK, ABSENT
<1>4. StartTypeOK'
  BY <1>1, <1>2, StartupAssumption DEF StartInv, StartTypeOK, Versions
<1>5. FillersAreAlone' /\ RunsOnConfiguration' /\ Being("fill")' = Being("fill")
  BY <1>2 DEF StartInv, FillersAreAlone, RunsOnConfiguration, Running, Being
<1>6. EmptyIsUnfinished'
  <2>1. ASSUME NEW p \in Being("fill")
        PROVE  proc[p].file \in FileNames \ {f}
    BY <1>1, StartTypes DEF Being, BeingWritten
  <2> QED
    BY <1>1, <1>2, <1>3, <1>5, <2>1
    DEF StartInv, EmptyIsUnfinished, Unfinished, BeingWritten
<1> QED
  BY <1>4, <1>5, <1>6 DEF StartInv

\* A process that writes keeps the types.
LEMMA WriteTypes ==
    ASSUME StartInv, NEW p \in Processes, NEW stage \in Stages, NEW c \in Versions,
           configs' = [configs EXCEPT ![proc[p].file] = c], Advance(p, stage),
           UNCHANGED <<listener, editions, cut>>
    PROVE  StartTypeOK'
<1> DEFINE new == [proc[p] EXCEPT !.pc = stage]
<1>1. proc' = [proc EXCEPT ![p] = new]
  BY DEF Advance
<1>2. new \in [pc: Stages, file: FileNames, remote: BOOLEAN, dev: BOOLEAN,
               with: Versions, unfinished: BOOLEAN]
  BY DEF StartInv, StartTypeOK
<1> HIDE DEF new
<1>3. proc' \in [Processes -> [pc: Stages, file: FileNames, remote: BOOLEAN,
                              dev: BOOLEAN, with: Versions, unfinished: BOOLEAN]]
  BY <1>1, <1>2 DEF StartInv, StartTypeOK
<1>4. configs' \in [FileNames -> Versions]
  BY DEF StartInv, StartTypeOK
<1> QED
  BY <1>3, <1>4 DEF StartInv, StartTypeOK

\* A program that finds no file makes one.
LEMMA CreateKeeps ==
    ASSUME StartInv, NEW p \in Processes, Stage(p, "create"),
           configs[proc[p].file] = ABSENT,
           configs' = [configs EXCEPT ![proc[p].file] = "empty"],
           Advance(p, "fill"), UNCHANGED <<listener, editions, cut>>
    PROVE  StartInv'
<1> DEFINE f == proc[p].file
<1>1. f \in FileNames /\ DOMAIN proc = Processes
  BY StartTypes
<1>2. /\ proc'[p].pc = "fill" /\ proc'[p].file = f
      /\ \A q \in Processes \ {p} : proc'[q] = proc[q]
  BY <1>1 DEF Advance
<1>3. /\ configs'[f] = "empty" /\ \A g \in FileNames \ {f} : configs'[g] = configs[g]
  BY <1>1 DEF StartInv, StartTypeOK
<1>4. StartTypeOK'
  BY WriteTypes DEF Stages, Versions
<1>5. Being("fill")' = Being("fill") \union {p}
  BY <1>2 DEF Being, Stage
<1>6. ASSUME NEW q \in Being("fill") \ {p}
      PROVE  proc'[q] = proc[q] /\ proc[q].file \in FileNames \ {f} /\ q \in Processes
  BY <1>2, StartTypes DEF StartInv, EmptyIsUnfinished, Being, ABSENT
<1>7. FillersAreAlone'
  BY <1>2, <1>5, <1>6 DEF StartInv, FillersAreAlone
<1>8. EmptyIsUnfinished'
  <2>1. \A q \in Being("fill")' : configs'[proc'[q].file] = "empty"
    BY <1>2, <1>3, <1>5, <1>6 DEF StartInv, EmptyIsUnfinished
  <2>2. \A g \in FileNames : configs'[g] = "empty" => Unfinished(g)'
    BY <1>2, <1>3, <1>5, <1>6 DEF StartInv, EmptyIsUnfinished, Unfinished, BeingWritten, Stage
  <2> QED
    BY <2>1, <2>2 DEF EmptyIsUnfinished
<1>9. RunsOnConfiguration'
  BY <1>2 DEF StartInv, RunsOnConfiguration, Running
<1> QED
  BY <1>4, <1>7, <1>8, <1>9 DEF StartInv

\* It writes the defaults into the one that it has made.
LEMMA FillDefaultKeeps ==
    ASSUME StartInv, NEW p \in Processes, FillDefault(p)
    PROVE  StartInv'
<1> DEFINE f == proc[p].file
<1>1. f \in FileNames /\ DOMAIN proc = Processes
  BY StartTypes
<1>2. /\ proc'[p].pc = "exit 0" /\ \A q \in Processes \ {p} : proc'[q] = proc[q]
      /\ UNCHANGED <<listener, editions, cut>>
  <2>1. proc' = [proc EXCEPT ![p].pc = "exit 0"] /\ UNCHANGED <<listener, editions, cut>>
    BY DEF FillDefault, Advance
  <2>2. proc'[p].pc = "exit 0" /\ \A q \in Processes \ {p} : proc'[q] = proc[q]
    BY <2>1 DEF StartInv, StartTypeOK
  <2> QED
    BY <2>1, <2>2
<1>3. /\ configs'[f] = "default" /\ \A g \in FileNames \ {f} : configs'[g] = configs[g]
  BY <1>1 DEF StartInv, StartTypeOK, FillDefault
<1>4. StartTypeOK'
  BY WriteTypes DEF FillDefault, Stages, Versions
<1>5. Being("fill")' = Being("fill") \ {p} /\ p \in Being("fill")
  BY <1>2 DEF Being, Stage, FillDefault
<1>6. ASSUME NEW q \in Being("fill") \ {p}
      PROVE  proc'[q] = proc[q] /\ proc[q].file \in FileNames \ {f} /\ q \in Processes
  BY <1>2, <1>5, StartTypes DEF StartInv, FillersAreAlone, Being
<1>7. FillersAreAlone'
  BY <1>5, <1>6 DEF StartInv, FillersAreAlone
<1>8. EmptyIsUnfinished'
  <2>1. \A q \in Being("fill")' : configs'[proc'[q].file] = "empty"
    BY <1>3, <1>5, <1>6 DEF StartInv, EmptyIsUnfinished
  <2>2. \A g \in FileNames : configs'[g] = "empty" => Unfinished(g)'
    BY <1>1, <1>2, <1>3, <1>5, <1>6
    DEF StartInv, EmptyIsUnfinished, Unfinished, BeingWritten
  <2> QED
    BY <2>1, <2>2 DEF EmptyIsUnfinished
<1>9. RunsOnConfiguration'
  BY <1>2 DEF StartInv, RunsOnConfiguration, Running
<1> QED
  BY <1>4, <1>7, <1>8, <1>9 DEF StartInv

\* A process ends wherever it is.
LEMMA DieKeeps ==
    ASSUME StartInv, NEW p \in Processes, Die(p)
    PROVE  StartInv'
<1>1. DOMAIN proc = Processes
  BY StartTypes
<1>2. /\ proc'[p] = NotStarted /\ \A q \in Processes \ {p} : proc'[q] = proc[q]
      /\ UNCHANGED <<configs, editions>> /\ cut \subseteq cut'
      /\ cut' \subseteq FileNames
  BY <1>1 DEF Die, StartInv, StartTypeOK
<1>3. StartTypeOK'
  <2>1. NotStarted \in [pc: Stages, file: FileNames, remote: BOOLEAN, dev: BOOLEAN,
                        with: Versions, unfinished: BOOLEAN]
    BY DEF NotStarted, Stages, FileNames, Versions
  <2> QED
    BY <1>1, <1>2, <2>1 DEF Die, StartInv, StartTypeOK
<1>4. Being("fill")' = Being("fill") \ {p}
  BY <1>2 DEF Being, NotStarted
<1>5. p \in Being("fill") => proc[p].file \in cut'
  BY StartTypes DEF Die, Being, Stage
<1>6. ASSUME NEW q \in Being("fill") \ {p}
      PROVE  proc'[q] = proc[q] /\ q \in Processes
  BY <1>2 DEF Being
<1>7. FillersAreAlone'
  BY <1>4, <1>6 DEF StartInv, FillersAreAlone
<1>8. EmptyIsUnfinished'
  <2>1. \A q \in Being("fill")' : configs'[proc'[q].file] = "empty"
    BY <1>2, <1>4, <1>6 DEF StartInv, EmptyIsUnfinished
  <2>2. \A g \in FileNames : configs'[g] = "empty" => Unfinished(g)'
    BY <1>2, <1>4, <1>5, <1>6 DEF StartInv, EmptyIsUnfinished, Unfinished, BeingWritten
  <2> QED
    BY <2>1, <2>2 DEF EmptyIsUnfinished
<1>9. RunsOnConfiguration'
  BY <1>2 DEF StartInv, RunsOnConfiguration, Running, NotStarted
<1> QED
  BY <1>3, <1>7, <1>8, <1>9 DEF StartInv

\* Only CreateDefault and FillDefault write, each to the file of its process.
LEMMA FilesChangeByWriters ==
    ASSUME StartInv, [StartNext]_startVars, editions' = editions,
           NEW f \in FileNames, configs'[f] # configs[f]
    PROVE  \/ configs[f] = ABSENT /\ configs'[f] = "empty"
           \/ /\ configs[f] = "empty" /\ configs'[f] = "default"
              /\ Cardinality({p \in Being("fill") : proc[p].file = f}) = 1
<1>1. CASE \E p \in Processes : CreateDefault(p)
  BY <1>1, StartTypes DEF CreateDefault, StartInv, StartTypeOK
<1>2. CASE \E p \in Processes : FillDefault(p)
  <2>1. PICK p \in Processes : FillDefault(p)
    BY <1>2
  <2>2. proc[p].file = f /\ configs'[f] = "default" /\ p \in Being("fill")
    BY <2>1, StartTypes DEF FillDefault, StartInv, StartTypeOK, Being, Stage
  <2>3. configs[f] = "empty" /\ {q \in Being("fill") : proc[q].file = f} = {p}
    BY <2>2 DEF StartInv, EmptyIsUnfinished, FillersAreAlone
  <2> QED
    BY <2>2, <2>3, FS_Singleton
<1>3. CASE ~((\E p \in Processes : CreateDefault(p)) \/ (\E p \in Processes : FillDefault(p)))
  <2>1. ~EditFile
    BY DEF StartInv, StartTypeOK, EditFile
  <2>2. UNCHANGED configs
    BY <1>3, <2>1 DEF StartNext, startVars, InitOptions, ReadInConfig, FetchRemote,
                      Listen, Die
  <2> QED
    BY <2>2
<1> QED
  BY <1>1, <1>2, <1>3

LEMMA StartStays == StartSpec => []StartInv
<1>1. StartInit => StartInv
  <2> SUFFICES ASSUME StartInit PROVE StartInv
    OBVIOUS
  <2> USE DEF StartInit
  <2>1. \A p \in Processes : proc[p] = NotStarted
    OBVIOUS
  <2>2. NotStarted \in [pc: Stages, file: FileNames, remote: BOOLEAN, dev: BOOLEAN,
                        with: Versions, unfinished: BOOLEAN]
    BY DEF NotStarted, Stages, FileNames, Versions
  <2>3. StartTypeOK
    BY <2>2, StartupAssumption DEF StartTypeOK, Versions, Nobody
  <2>4. Being("fill") = {}
    BY <2>1 DEF Being, NotStarted
  <2>5. \A f \in FileNames : configs[f] # "empty"
    BY DEF ABSENT
  <2> QED
    BY <2>1, <2>3, <2>4, <2>5 DEF StartInv, FillersAreAlone, EmptyIsUnfinished,
                                  RunsOnConfiguration, Running, NotStarted
<1>2. StartInv /\ [StartNext]_startVars => StartInv'
  <2> SUFFICES ASSUME StartInv, [StartNext]_startVars
               PROVE  StartInv'
    OBVIOUS
  <2>1. CASE UNCHANGED startVars
    BY <2>1 DEF startVars, StartInv, StartTypeOK, FillersAreAlone, EmptyIsUnfinished,
                Unfinished, BeingWritten, RunsOnConfiguration, Running, Being
  <2>2. CASE EditFile
    BY <2>2, EditFileKeeps
  <2>3. ASSUME NEW p \in Processes, InitOptions(p) PROVE StartInv'
    BY <2>3, InitOptionsKeeps
  <2>4. ASSUME NEW p \in Processes, ReadInConfig(p) PROVE StartInv'
    BY <2>4, ReadInConfigKeeps
  <2>5. ASSUME NEW p \in Processes, CreateDefault(p) PROVE StartInv'
    <3>1. CASE configs[proc[p].file] = ABSENT
      BY <2>5, <3>1, CreateKeeps DEF CreateDefault
    <3>2. CASE configs[proc[p].file] # ABSENT
      <4> DEFINE new == [proc[p] EXCEPT !.pc = "exit 1"]
      <4>1. proc' = [proc EXCEPT ![p] = new] /\ UNCHANGED <<configs, listener, editions, cut>>
            /\ ~Stage(p, "fill")
        BY <2>5, <3>2 DEF CreateDefault, Advance, Stage
      <4>2. new \in [pc: Stages, file: FileNames, remote: BOOLEAN, dev: BOOLEAN,
                     with: Versions, unfinished: BOOLEAN] /\ new.pc = "exit 1"
        BY DEF StartInv, StartTypeOK, Stages
      <4> HIDE DEF new
      <4> QED
        BY <4>1, <4>2, StartAdvances DEF StartInv, StartTypeOK
    <3> QED
      BY <3>1, <3>2
  <2>6. ASSUME NEW p \in Processes, FillDefault(p) PROVE StartInv'
    BY <2>6, FillDefaultKeeps
  <2>7. ASSUME NEW p \in Processes, FetchRemote(p) PROVE StartInv'
    BY <2>7, GoesOnKeeps DEF FetchRemote, StartInv, StartTypeOK
  <2>8. ASSUME NEW p \in Processes, Listen(p) PROVE StartInv'
    BY <2>8, GoesOnKeeps DEF Listen, StartInv, StartTypeOK
  <2>9. ASSUME NEW p \in Processes, Die(p) PROVE StartInv'
    BY <2>9, DieKeeps
  <2> QED
    BY <2>1, <2>2, <2>3, <2>4, <2>5, <2>6, <2>7, <2>8, <2>9 DEF StartNext
<1> QED
  BY <1>1, <1>2, PTL DEF StartSpec

\* For every number of processes, however often they are started, die and are
\* edited around: a process runs on a configuration (app.go:117), and the
\* program writes only to a file that it has made, and one process to each
\* (app_config_test.go:13).
THEOREM StartCorrect == StartSpec => ConfigurationIsKept
<1>1. StartInv => RunsOnConfiguration
  BY DEF StartInv
<1>2. StartInv /\ [StartNext]_startVars =>
        [editions' = editions =>
           \A f \in FileNames :
             configs'[f] # configs[f] =>
                 \/ configs[f] = ABSENT /\ configs'[f] = "empty"
                 \/ /\ configs[f] = "empty" /\ configs'[f] = "default"
                    /\ Cardinality({p \in Being("fill") : proc[p].file = f}) = 1]_startVars
  BY FilesChangeByWriters
<1> QED
  BY <1>1, <1>2, StartStays, PTL DEF StartSpec, ConfigurationIsKept, FilesAreTheUsers

-----------------------------------------------------------------------------
(* The stores.                                                              *)

Busy(s) == {p \in StoreUsers : goes[p].store = s /\ goes[p].pc \in {"open", "set"}}
Making == {p \in StoreUsers : goes[p].pc = "make"}

\* What a goroutine holds is there, and a connection is one of its store.
HandlesHold ==
    /\ storeMap = Len(stores) /\ Len(stores) <= MaxStores /\ Len(dbs) <= MaxOpens
    /\ \A p \in StoreUsers :
         /\ goes[p].pc \in {"idle", "make"} => ~goes[p].hooked
         /\ goes[p].pc \in {"have", "open", "set", "got"} =>
              goes[p].store \in DOMAIN stores
         /\ goes[p].pc \in {"set", "got"} =>
              goes[p].db \in DOMAIN dbs /\ dbs[goes[p].db].store = goes[p].store
         /\ goes[p].pc = "open" /\ kind \in {"sqlite", "redis"} =>
              goes[p].wants = goes[p].conf
         /\ goes[p].pc = "open" => goes[p].wants # NoOptions
         /\ kind = "redis" => goes[p].given = NoOptions
    /\ \A s \in DOMAIN stores :
         /\ stores[s].db # 0 => /\ stores[s].db \in DOMAIN dbs
                                /\ dbs[stores[s].db].store = s
         /\ kind = "redis" => stores[s].options = NoOptions
    /\ \A d \in DOMAIN dbs : dbs[d].store \in DOMAIN stores

\* The store is made once, unless two made it at a time.
MadeOnce ==
    0 \notin twice => /\ Len(stores) <= 1
                      /\ \A p, q \in Making : p = q
                      /\ Making # {} => Len(stores) = 0

\* A store is opened by one goroutine at a time until it has its connection.
OpenedOnce(s) ==
    /\ \A p, q \in Busy(s) : p = q
    /\ stores[s].db # 0 =>
         /\ Busy(s) = {}
         /\ \A d \in DOMAIN dbs : dbs[d].store = s => d = stores[s].db
         /\ \A p \in StoreUsers : goes[p].store = s /\ goes[p].pc = "got" =>
              goes[p].db = stores[s].db
    /\ stores[s].db = 0 =>
         /\ \A p \in StoreUsers : ~(goes[p].store = s /\ goes[p].pc = "got")
         /\ \A d \in DOMAIN dbs : dbs[d].store = s =>
              \E p \in Busy(s) : goes[p].pc = "set" /\ goes[p].db = d

\* The options that a configuration has given are those of the Use that opens.
OptionsOfUse(s) ==
    kind = "server" =>
        /\ stores[s].options \in Settings => stores[s].db # 0 \/ Busy(s) # {}
        /\ \A p \in Busy(s) : goes[p].pc = "open" =>
             stores[s].options \in {FromCaller, goes[p].wants}

UndisturbedAreFine ==
    \A s \in (DOMAIN stores) \ twice : ~stores[s].failed => OpenedOnce(s) /\ OptionsOfUse(s)

\* The connections that whoever has registered the callback in time can get.
CallbackIsHeard ==
    \A p \in StoreUsers : goes[p].hooked =>
        LET s == goes[p].store
        IN  /\ stores[s].hasCallback
            /\ stores[s].db # 0 => dbs[stores[s].db].hooked
            /\ \A q \in StoreUsers : goes[q].store = s /\ goes[q].pc = "set" =>
                 dbs[goes[q].db].hooked
            /\ goes[p].pc = "got" => dbs[goes[p].db].hooked

StoresInv ==
    /\ StoresTypeOK
    /\ HandlesHold
    /\ MadeOnce
    /\ UndisturbedAreFine
    /\ OptionsAreCurrent
    /\ CallbackIsHeard

\* A set that does not have more than one element has one or none.
LEMMA NotMany ==
    ASSUME NEW S, IsFiniteSet(S), ~(Cardinality(S) > 1)
    PROVE  \A x, y \in S : x = y
<1>1. Cardinality(S) \in Nat
  BY FS_CardinalityType
<1>2. Cardinality(S) = 0 \/ Cardinality(S) = 1
  BY <1>1
<1> QED
  BY <1>2, FS_EmptySet, FS_Singleton

\* What the history says: nobody else makes, or opens, at the same time.
LEMMA TwiceTells ==
    ASSUME StoresInv, twice' = twice \union Both',
           Len(stores') \in Nat, DOMAIN stores' = 1..Len(stores'), Len(stores') <= MaxStores
    PROVE  /\ twice \subseteq twice' /\ twice' \in SUBSET (0..MaxStores)
           /\ 0 \notin twice' => \A p, q \in Making' : p = q
           /\ \A s \in (DOMAIN stores') \ twice' :
                s \notin twice /\ \A p, q \in Busy(s)' : p = q
<1>1. IsFiniteSet(StoreUsers) /\ MaxStores \in Nat
  BY StoresAssumption
<1>2. twice' \in SUBSET (0..MaxStores)
  <2>1. Both' \subseteq {0} \union DOMAIN stores'
    BY DEF Both
  <2>2. {0} \union DOMAIN stores' \subseteq 0..MaxStores
    BY <1>1
  <2>3. twice \subseteq 0..MaxStores
    BY DEF StoresInv, StoresTypeOK
  <2> QED
    BY <2>1, <2>2, <2>3
<1>3. ASSUME 0 \notin twice'
      PROVE  \A p, q \in Making' : p = q
  <2>1. IsFiniteSet(Making')
    BY <1>1, FS_Subset DEF Making
  <2>2. ~(Cardinality(Making') > 1)
    BY <1>3 DEF Both, Making
  <2> QED
    BY <2>1, <2>2, NotMany
<1>4. ASSUME NEW s \in (DOMAIN stores') \ twice'
      PROVE  s \notin twice /\ \A p, q \in Busy(s)' : p = q
  <2>1. IsFiniteSet(Busy(s)')
    BY <1>1, FS_Subset DEF Busy
  <2>2. ~(Cardinality(Busy(s)') > 1)
    BY <1>4 DEF Both, Busy
  <2>3. \A p, q \in Busy(s)' : p = q
    BY <2>1, <2>2, NotMany
  <2> QED
    BY <1>4, <2>3
<1> QED
  BY <1>2, <1>3, <1>4

\* What a goroutine gets into, and what a store becomes.
LEMMA GoesTo ==
    ASSUME StoresInv, NEW p \in StoreUsers, NEW r \in Goings, Goes(p, r)
    PROVE  /\ goes' \in [StoreUsers -> Goings] /\ goes'[p] = r
           /\ \A q \in StoreUsers \ {p} : goes'[q] = goes[q]
  BY DEF StoresInv, StoresTypeOK, Goes

\* A step that is one of a store and of its settings.
LEMMA StoreBecomes ==
    ASSUME StoresInv, NEW s \in DOMAIN stores, NEW v \in StoreValues,
           stores' = [stores EXCEPT ![s] = v]
    PROVE  /\ stores' \in Seq(StoreValues) /\ Len(stores') = Len(stores)
           /\ DOMAIN stores' = DOMAIN stores /\ stores'[s] = v
           /\ \A t \in (DOMAIN stores) \ {s} : stores'[t] = stores[t]
  BY DEF StoresInv, StoresTypeOK

\* A step that leaves the opening of a store to those who were at it.
Left(q, s) ==
    \/ goes'[q] = goes[q]
    \/ /\ ~(goes[q].store = s /\ goes[q].pc \in {"open", "set"})
       /\ ~(goes'[q].store = s /\ goes'[q].pc \in {"open", "set", "got"})

\* What a step of another store leaves as it was.
LEMMA LeftAlone ==
    ASSUME NEW s, OpenedOnce(s), OptionsOfUse(s), UNCHANGED kind,
           stores'[s].db = stores[s].db,
           stores'[s].options \in {stores[s].options, FromCaller},
           \A q \in StoreUsers : Left(q, s),
           \A d \in DOMAIN dbs' : dbs'[d].store = s =>
               d \in DOMAIN dbs /\ dbs[d].store = s
    PROVE  OpenedOnce(s)' /\ OptionsOfUse(s)'
<1>1. Busy(s)' = Busy(s)
  BY DEF Busy, Left
<1>2. \A q \in Busy(s) : goes'[q] = goes[q]
  BY DEF Busy, Left
<1>3. \A q \in StoreUsers : goes'[q].store = s /\ goes'[q].pc = "got" => goes'[q] = goes[q]
  BY DEF Left
<1>4. OpenedOnce(s)'
  BY <1>1, <1>2, <1>3 DEF OpenedOnce
<1>5. FromCaller \notin Settings
  BY DEF FromCaller, Settings
<1>6. OptionsOfUse(s)'
  BY <1>1, <1>2, <1>5 DEF OptionsOfUse
<1> QED
  BY <1>4, <1>6

\* A step of a goroutine that is not at opening, and does not get to it.
LEMMA QuietKeeps ==
    ASSUME StoresInv, NEW p \in StoreUsers, NEW r \in Goings, Goes(p, r),
           twice' = twice \union Both',
           UNCHANGED <<kind, setting, storeMap, dbs>>,
           stores' \in Seq(StoreValues), Len(stores') = Len(stores),
           \A s \in DOMAIN stores :
             /\ stores'[s].db = stores[s].db /\ stores'[s].failed = stores[s].failed
             /\ stores[s].hasCallback => stores'[s].hasCallback
             /\ stores'[s].options \in {stores[s].options, FromCaller}
             /\ kind = "redis" => stores'[s].options = stores[s].options,
           goes[p].pc \notin {"open", "set"}, r.pc \in {"idle", "make", "have"},
           r.pc = "make" => Len(stores) = 0,
           r.pc = "have" => r.store \in DOMAIN stores,
           kind = "redis" => r.given = NoOptions,
           r.hooked =>
             /\ r.pc = "have" /\ stores'[r.store].hasCallback
             /\ \/ goes[p].hooked /\ goes[p].store = r.store
                \/ Untouched(r.store)
    PROVE  StoresInv'
<1>1. /\ goes' \in [StoreUsers -> Goings] /\ goes'[p] = r
      /\ \A q \in StoreUsers \ {p} : goes'[q] = goes[q]
  BY GoesTo
<1>2. /\ DOMAIN stores' = DOMAIN stores /\ Len(stores') \in Nat
      /\ DOMAIN stores' = 1..Len(stores') /\ Len(stores') <= MaxStores
  BY DEF StoresInv, StoresTypeOK, HandlesHold
<1>3. /\ twice \subseteq twice' /\ twice' \in SUBSET (0..MaxStores)
      /\ 0 \notin twice' => \A a, b \in Making' : a = b
      /\ \A s \in (DOMAIN stores') \ twice' :
           s \notin twice /\ \A a, b \in Busy(s)' : a = b
  BY <1>2, TwiceTells
<1>4. StoresTypeOK'
  BY <1>1, <1>3 DEF StoresInv, StoresTypeOK
<1>5. HandlesHold'
  <2>1. ASSUME NEW q \in StoreUsers
        PROVE  /\ goes'[q].pc \in {"idle", "make"} => ~goes'[q].hooked
               /\ goes'[q].pc \in {"have", "open", "set", "got"} =>
                    goes'[q].store \in DOMAIN stores
               /\ goes'[q].pc \in {"set", "got"} =>
                    goes'[q].db \in DOMAIN dbs /\ dbs[goes'[q].db].store = goes'[q].store
               /\ goes'[q].pc = "open" /\ kind \in {"sqlite", "redis"} =>
                    goes'[q].wants = goes'[q].conf
               /\ goes'[q].pc = "open" => goes'[q].wants # NoOptions
               /\ kind = "redis" => goes'[q].given = NoOptions
    <3>1. CASE q = p
      BY <1>1, <3>1
    <3>2. CASE q # p
      BY <1>1, <3>2 DEF StoresInv, HandlesHold
    <3> QED
      BY <3>1, <3>2
  <2>2. ASSUME NEW s \in DOMAIN stores
        PROVE  /\ stores'[s].db # 0 => /\ stores'[s].db \in DOMAIN dbs
                                       /\ dbs[stores'[s].db].store = s
               /\ kind = "redis" => stores'[s].options = NoOptions
    BY DEF StoresInv, HandlesHold
  <2> QED
    BY <1>2, <2>1, <2>2 DEF StoresInv, HandlesHold
<1>6. MadeOnce'
  <2>1. Making' \subseteq Making \union {p} /\ (p \in Making' => Len(stores) = 0)
    BY <1>1 DEF Making
  <2> QED
    BY <1>3, <2>1 DEF StoresInv, MadeOnce
<1>7. UndisturbedAreFine'
  <2>1. ASSUME NEW s \in (DOMAIN stores') \ twice', ~stores'[s].failed
        PROVE  OpenedOnce(s)' /\ OptionsOfUse(s)'
    <3>1. s \in (DOMAIN stores) \ twice /\ ~stores[s].failed
      BY <1>2, <1>3, <2>1
    <3>2. OpenedOnce(s) /\ OptionsOfUse(s)
      BY <3>1 DEF StoresInv, UndisturbedAreFine
    <3>3. \A q \in StoreUsers : Left(q, s)
      BY <1>1 DEF Left
    <3>4. /\ stores'[s].db = stores[s].db
          /\ stores'[s].options \in {stores[s].options, FromCaller}
      BY <3>1
    <3> QED
      BY <3>2, <3>3, <3>4, LeftAlone
  <2> QED
    BY <2>1 DEF UndisturbedAreFine
<1>8. OptionsAreCurrent'
  <2>1. \A d \in DOMAIN dbs : dbs[d].store \in DOMAIN stores
    BY DEF StoresInv, HandlesHold
  <2>2. \A s \in DOMAIN stores : (s \in twice => s \in twice')
                                 /\ stores'[s].failed = stores[s].failed
    BY <1>3
  <2> QED
    BY <2>1, <2>2 DEF StoresInv, OptionsAreCurrent
<1>9. CallbackIsHeard'
  <2>1. ASSUME NEW q \in StoreUsers, goes'[q].hooked
        PROVE  LET s == goes'[q].store
               IN  /\ stores'[s].hasCallback
                   /\ stores'[s].db # 0 => dbs[stores'[s].db].hooked
                   /\ \A a \in StoreUsers : goes'[a].store = s /\ goes'[a].pc = "set" =>
                        dbs[goes'[a].db].hooked
                   /\ goes'[q].pc = "got" => dbs[goes'[q].db].hooked
    <3> DEFINE s == goes'[q].store
    <3>1. s \in DOMAIN stores /\ stores'[s].hasCallback
      <4>1. CASE q = p
        BY <1>1, <2>1, <4>1
      <4>2. CASE q # p
        <5>1. goes'[q] = goes[q] /\ goes[q] \in Goings
          BY <1>1, <4>2 DEF StoresInv, StoresTypeOK
        <5>2. goes[q].pc \in {"idle", "make", "have", "open", "set", "got"}
          BY <5>1 DEF Goings
        <5>3. s \in DOMAIN stores /\ stores[s].hasCallback
          BY <2>1, <5>1, <5>2 DEF StoresInv, HandlesHold, CallbackIsHeard
        <5> QED
          BY <5>3
      <4> QED
        BY <4>1, <4>2
    <3>2. \A a \in StoreUsers : goes'[a].pc \in {"set", "got"} => goes'[a] = goes[a]
      BY <1>1
    <3>3. \/ goes[q].hooked /\ goes[q].store = s
          \/ Untouched(s) /\ goes'[q].pc = "have"
      BY <1>1, <2>1
    <3>4. stores'[s].db = stores[s].db
      BY <3>1
    <3>5. CASE goes[q].hooked /\ goes[q].store = s
      BY <3>1, <3>2, <3>4, <3>5 DEF StoresInv, CallbackIsHeard
    <3>6. CASE Untouched(s) /\ goes'[q].pc = "have"
      BY <3>1, <3>2, <3>4, <3>6 DEF Untouched
    <3> QED
      BY <3>3, <3>5, <3>6
  <2> QED
    BY <2>1 DEF CallbackIsHeard
<1> QED
  BY <1>4, <1>5, <1>6, <1>7, <1>8, <1>9 DEF StoresInv

\* What a goroutine without a store is at.
LEMMA AsleepIsGoing == Asleep \in Goings
  BY StoresAssumption DEF Asleep, Goings, Choices

\* It has no connection and promises nothing.
LEMMA AsleepHasNone ==
    Asleep.pc = "idle" /\ ~Asleep.hooked /\ Asleep.given = NoOptions
  BY DEF Asleep

\* The store of the key is made.
LEMMA MakeKeeps ==
    ASSUME StoresInv, NEW p \in StoreUsers, Make(p), twice' = twice \union Both'
    PROVE  StoresInv'
<1> DEFINE new == [options |-> goes[p].given, hasCallback |-> FALSE, db |-> 0,
                   failed |-> FALSE]
           n == Len(stores) + 1
           r == [Asleep EXCEPT !.store = n, !.pc = "have"]
<1>1. /\ goes[p].pc = "make" /\ n \in 0..MaxStores /\ MaxStores \in Nat
      /\ stores' = Append(stores, new) /\ storeMap' = n
      /\ Goes(p, r) /\ UNCHANGED <<kind, setting, dbs>>
  BY StoresAssumption DEF Make, StoresInv, StoresTypeOK
<1>2. r \in Goings /\ r.pc = "have" /\ r.store = n /\ ~r.hooked /\ r.given = NoOptions
  <2> HIDE DEF n
  <2> QED
    BY <1>1, AsleepIsGoing, AsleepHasNone DEF Goings
<1> HIDE DEF r
<1>3. new \in StoreValues /\ new.options \in {NoOptions, FromCaller} /\ new.db = 0
      /\ new.options = goes[p].given
  <2>1. goes[p].given \in {NoOptions, FromCaller}
    BY DEF StoresInv, StoresTypeOK, Goings
  <2> QED
    BY <2>1, StoresAssumption DEF StoreValues, Choices
<1> HIDE DEF new
<1>4. /\ stores' \in Seq(StoreValues) /\ Len(stores') = n
      /\ DOMAIN stores' = DOMAIN stores \union {n} /\ n \notin DOMAIN stores
      /\ DOMAIN stores' = 1..n
      /\ stores'[n] = new /\ \A s \in DOMAIN stores : stores'[s] = stores[s]
  BY <1>1, <1>3, AppendProperties DEF StoresInv, StoresTypeOK
<1>5. /\ goes' \in [StoreUsers -> Goings] /\ goes'[p] = r
      /\ \A q \in StoreUsers \ {p} : goes'[q] = goes[q]
  BY <1>1, <1>2, GoesTo
<1>6. /\ twice \subseteq twice' /\ twice' \in SUBSET (0..MaxStores)
      /\ 0 \notin twice' => \A a, b \in Making' : a = b
      /\ \A s \in (DOMAIN stores') \ twice' :
           s \notin twice /\ \A a, b \in Busy(s)' : a = b
  BY <1>1, <1>4, TwiceTells
<1> HIDE DEF n
<1>7. StoresTypeOK'
  BY <1>1, <1>4, <1>5, <1>6 DEF StoresInv, StoresTypeOK
<1>8. HandlesHold'
  <2>1. ASSUME NEW q \in StoreUsers
        PROVE  /\ goes'[q].pc \in {"idle", "make"} => ~goes'[q].hooked
               /\ goes'[q].pc \in {"have", "open", "set", "got"} =>
                    goes'[q].store \in DOMAIN stores'
               /\ goes'[q].pc \in {"set", "got"} =>
                    goes'[q].db \in DOMAIN dbs /\ dbs[goes'[q].db].store = goes'[q].store
               /\ goes'[q].pc = "open" /\ kind \in {"sqlite", "redis"} =>
                    goes'[q].wants = goes'[q].conf
               /\ goes'[q].pc = "open" => goes'[q].wants # NoOptions
               /\ kind = "redis" => goes'[q].given = NoOptions
    <3>1. CASE q = p
      BY <1>2, <1>4, <1>5, <3>1
    <3>2. CASE q # p
      BY <1>4, <1>5, <3>2 DEF StoresInv, HandlesHold
    <3> QED
      BY <3>1, <3>2
  <2>2. ASSUME NEW s \in DOMAIN stores'
        PROVE  /\ stores'[s].db # 0 => /\ stores'[s].db \in DOMAIN dbs
                                       /\ dbs[stores'[s].db].store = s
               /\ kind = "redis" => stores'[s].options = NoOptions
    BY <1>3, <1>4 DEF StoresInv, HandlesHold
  <2> QED
    BY <1>1, <1>4, <2>1, <2>2 DEF StoresInv, HandlesHold
<1>9. MadeOnce'
  <2>1. Making' = Making \ {p} /\ p \in Making
    BY <1>1, <1>2, <1>5 DEF Making
  <2> QED
    BY <1>4, <1>6, <2>1 DEF StoresInv, MadeOnce, n
<1>10. UndisturbedAreFine'
  <2>1. ASSUME NEW s \in (DOMAIN stores) \ twice', ~stores'[s].failed
        PROVE  OpenedOnce(s)' /\ OptionsOfUse(s)'
    <3>1. s \in (DOMAIN stores) \ twice /\ ~stores[s].failed
      BY <1>4, <1>6, <2>1
    <3>2. OpenedOnce(s) /\ OptionsOfUse(s)
      BY <3>1 DEF StoresInv, UndisturbedAreFine
    <3>3. \A q \in StoreUsers : Left(q, s)
      BY <1>1, <1>2, <1>5 DEF Left
    <3> QED
      BY <1>1, <1>4, <3>2, <3>3, LeftAlone
  <2>2. ASSUME NEW s, s = n
        PROVE  OpenedOnce(s)' /\ OptionsOfUse(s)'
    <3>1. \A q \in StoreUsers : goes'[q].pc \in {"open", "set", "got"} => goes'[q].store # s
      BY <1>2, <1>4, <1>5, <2>2 DEF StoresInv, HandlesHold
    <3>2. \A d \in DOMAIN dbs' : dbs'[d].store # s
      BY <1>1, <1>4, <2>2 DEF StoresInv, HandlesHold
    <3>3. Busy(s)' = {}
      BY <3>1 DEF Busy
    <3>4. OpenedOnce(s)'
      BY <1>3, <1>4, <2>2, <3>1, <3>2, <3>3 DEF OpenedOnce
    <3>5. stores'[s].options \notin Settings
      BY <1>3, <1>4, <2>2 DEF Settings, NoOptions, FromCaller
    <3> QED
      BY <3>3, <3>4, <3>5 DEF OptionsOfUse
  <2> QED
    BY <1>4, <2>1, <2>2 DEF UndisturbedAreFine
<1>11. OptionsAreCurrent'
  BY <1>1, <1>4, <1>6 DEF StoresInv, HandlesHold, OptionsAreCurrent
<1>12. CallbackIsHeard'
  <2>1. ASSUME NEW q \in StoreUsers, goes'[q].hooked
        PROVE  LET s == goes'[q].store
               IN  /\ stores'[s].hasCallback
                   /\ stores'[s].db # 0 => dbs[stores'[s].db].hooked
                   /\ \A a \in StoreUsers : goes'[a].store = s /\ goes'[a].pc = "set" =>
                        dbs[goes'[a].db].hooked
                   /\ goes'[q].pc = "got" => dbs[goes'[q].db].hooked
    <3>1. q # p /\ goes'[q] = goes[q] /\ goes[q] \in Goings
      BY <1>2, <1>5, <2>1 DEF StoresInv, StoresTypeOK
    <3>2. goes[q].pc \in {"idle", "make", "have", "open", "set", "got"}
      BY <3>1 DEF Goings
    <3>3. goes[q].store \in DOMAIN stores
      BY <2>1, <3>1, <3>2 DEF StoresInv, HandlesHold
    <3>4. \A a \in StoreUsers : goes'[a].pc = "set" => goes'[a] = goes[a]
      BY <1>2, <1>5
    <3> QED
      BY <1>4, <2>1, <3>1, <3>3, <3>4 DEF StoresInv, CallbackIsHeard
  <2> QED
    BY <1>1, <2>1 DEF CallbackIsHeard
<1> QED
  BY <1>7, <1>8, <1>9, <1>10, <1>11, <1>12 DEF StoresInv

\* A store that is connected is used.
LEMMA UseConnectedKeeps ==
    ASSUME StoresInv, NEW p \in StoreUsers, goes[p].pc = "have",
           stores[goes[p].store].db # 0,
           Goes(p, [goes[p] EXCEPT !.db = stores[goes[p].store].db, !.pc = "got"]),
           UNCHANGED <<kind, setting, storeMap, stores, dbs>>,
           twice' = twice \union Both'
    PROVE  StoresInv'
<1> DEFINE db == stores[goes[p].store].db
           r == [goes[p] EXCEPT !.db = db, !.pc = "got"]
<1>1. /\ goes[p] \in Goings /\ goes[p].store \in DOMAIN stores
      /\ db \in DOMAIN dbs /\ dbs[db].store = goes[p].store /\ db \in 0..MaxOpens
  <2>1. goes[p] \in Goings /\ goes[p].store \in DOMAIN stores
    BY DEF StoresInv, StoresTypeOK, HandlesHold
  <2>2. stores[goes[p].store] \in StoreValues
    BY <2>1 DEF StoresInv, StoresTypeOK
  <2> QED
    BY <2>1, <2>2 DEF StoresInv, HandlesHold, StoreValues
<1>2. r \in Goings /\ r.pc = "got" /\ r.db = db /\ r.store = goes[p].store
      /\ r.hooked = goes[p].hooked /\ r.given = goes[p].given
  <2> HIDE DEF db
  <2> QED
    BY <1>1 DEF Goings
<1>3. Goes(p, r)
  OBVIOUS
<1> HIDE DEF r
<1>4. /\ goes' \in [StoreUsers -> Goings] /\ goes'[p] = r
      /\ \A q \in StoreUsers \ {p} : goes'[q] = goes[q]
  BY <1>2, <1>3, GoesTo
<1>5. Len(stores) \in Nat /\ DOMAIN stores = 1..Len(stores) /\ Len(stores) <= MaxStores
  BY DEF StoresInv, StoresTypeOK, HandlesHold
<1>6. /\ twice \subseteq twice' /\ twice' \in SUBSET (0..MaxStores)
      /\ 0 \notin twice' => \A a, b \in Making' : a = b
      /\ \A s \in (DOMAIN stores) \ twice' :
           s \notin twice /\ \A a, b \in Busy(s)' : a = b
  BY <1>5, TwiceTells
<1>7. StoresTypeOK'
  BY <1>4, <1>6 DEF StoresInv, StoresTypeOK
<1>8. HandlesHold'
  BY <1>1, <1>2, <1>4 DEF StoresInv, HandlesHold
<1>9. MadeOnce'
  <2>1. Making' = Making
    BY <1>2, <1>4 DEF Making
  <2> QED
    BY <1>6, <2>1 DEF StoresInv, MadeOnce
<1>10. UndisturbedAreFine'
  <2>1. ASSUME NEW s \in (DOMAIN stores') \ twice', ~stores'[s].failed
        PROVE  OpenedOnce(s)' /\ OptionsOfUse(s)'
    <3>1. OpenedOnce(s) /\ OptionsOfUse(s)
      BY <1>6, <2>1 DEF StoresInv, UndisturbedAreFine
    <3>2. CASE s # goes[p].store
      <4>1. \A q \in StoreUsers : Left(q, s)
        BY <1>2, <1>4, <3>2 DEF Left
      <4> QED
        BY <3>1, <4>1, LeftAlone
    <3>3. CASE s = goes[p].store
      <4>1. Busy(s)' = Busy(s)
        BY <1>2, <1>4 DEF Busy
      <4>4. stores'[s].db = db /\ db # 0 /\ dbs' = dbs
        BY <3>3
      <4>5. \A q \in StoreUsers : goes'[q].store = s /\ goes'[q].pc = "got" =>
              goes'[q].db = db
        BY <1>2, <1>4, <3>1, <3>3, <4>4 DEF OpenedOnce
      <4>6. \A d \in DOMAIN dbs : dbs[d].store = s => d = db
        BY <3>1, <4>4, <3>3 DEF OpenedOnce
      <4>7. Busy(s)' = {} /\ stores' = stores
        BY <3>1, <3>3, <4>1, <4>4 DEF OpenedOnce
      <4>2. OpenedOnce(s)'
        <5> HIDE DEF db
        <5> QED
          BY <4>4, <4>5, <4>6, <4>7 DEF OpenedOnce
      <4>3. OptionsOfUse(s)'
        BY <4>4, <4>7 DEF OptionsOfUse
      <4> QED
        BY <4>2, <4>3
    <3> QED
      BY <3>2, <3>3
  <2> QED
    BY <2>1 DEF UndisturbedAreFine
<1>11. OptionsAreCurrent'
  BY <1>6 DEF StoresInv, OptionsAreCurrent
<1>12. CallbackIsHeard'
  <2>1. \A a \in StoreUsers : goes'[a].pc = "set" => goes'[a] = goes[a]
    BY <1>2, <1>4
  <2>2. \A q \in StoreUsers : /\ goes'[q].store = goes[q].store
                              /\ goes'[q].hooked = goes[q].hooked
                              /\ goes'[q].pc = "got" => q = p \/ goes'[q] = goes[q]
    BY <1>2, <1>4
  <2> QED
    BY <1>2, <1>4, <2>1, <2>2, SMTT(30) DEF StoresInv, CallbackIsHeard
<1> QED
  BY <1>7, <1>8, <1>9, <1>10, <1>11, <1>12 DEF StoresInv

\* The first use of a store opens it.
LEMMA UseOpensKeeps ==
    ASSUME StoresInv, NEW p \in StoreUsers, NEW s, s = goes[p].store,
           goes[p].pc = "have", stores[s].db = 0, Usable,
           stores' = [stores EXCEPT ![s].options =
                        IF @ = NoOptions /\ kind # "redis" THEN setting ELSE @],
           Goes(p, [goes[p] EXCEPT !.conf = setting, !.wants = Wanted(s), !.pc = "open"]),
           UNCHANGED <<kind, setting, storeMap, dbs>>,
           twice' = twice \union Both'
    PROVE  StoresInv'
<1> DEFINE wants == Wanted(s)
           options == IF stores[s].options = NoOptions /\ kind # "redis" THEN setting
                      ELSE stores[s].options
           r == [goes[p] EXCEPT !.conf = setting, !.wants = wants, !.pc = "open"]
           v == [stores[s] EXCEPT !.options = options]
<1>1. /\ goes[p] \in Goings /\ s \in DOMAIN stores /\ stores[s] \in StoreValues
      /\ setting \in Settings /\ kind \in Kinds
      /\ kind = "redis" => stores[s].options = NoOptions
  BY DEF StoresInv, StoresTypeOK, HandlesHold
<1>2. /\ wants \in Settings \union {FromCaller} /\ options \in Choices
      /\ kind \in {"sqlite", "redis"} => wants = setting
      /\ kind = "redis" => options = NoOptions
      /\ kind = "server" /\ stores[s].options \notin Settings => options \in {FromCaller, wants}
  BY <1>1 DEF Wanted, Choices, StoreValues, Settings, NoOptions, FromCaller
<1>3. r \in Goings /\ r.pc = "open" /\ r.conf = setting /\ r.wants = wants
      /\ r.store = s /\ r.hooked = goes[p].hooked /\ r.given = goes[p].given
  <2> HIDE DEF wants
  <2> QED
    BY <1>1, <1>2 DEF Goings, Choices
<1>4. v \in StoreValues /\ v.options = options /\ v.db = stores[s].db
      /\ v.hasCallback = stores[s].hasCallback /\ v.failed = stores[s].failed
  <2> HIDE DEF options
  <2> QED
    BY <1>1, <1>2 DEF StoreValues
<1>5. Goes(p, r) /\ stores' = [stores EXCEPT ![s] = v]
  OBVIOUS
<1> HIDE DEF r, v, wants, options
<1>6. /\ goes' \in [StoreUsers -> Goings] /\ goes'[p] = r
      /\ \A q \in StoreUsers \ {p} : goes'[q] = goes[q]
  BY <1>3, <1>5, GoesTo
<1>7. /\ stores' \in Seq(StoreValues) /\ Len(stores') = Len(stores)
      /\ DOMAIN stores' = DOMAIN stores /\ stores'[s] = v
      /\ \A t \in (DOMAIN stores) \ {s} : stores'[t] = stores[t]
  BY <1>1, <1>4, <1>5, StoreBecomes
<1>8. Len(stores) \in Nat /\ DOMAIN stores = 1..Len(stores) /\ Len(stores) <= MaxStores
  BY DEF StoresInv, StoresTypeOK, HandlesHold
<1>9. /\ twice \subseteq twice' /\ twice' \in SUBSET (0..MaxStores)
      /\ 0 \notin twice' => \A a, b \in Making' : a = b
      /\ \A t \in (DOMAIN stores') \ twice' :
           t \notin twice /\ \A a, b \in Busy(t)' : a = b
  BY <1>7, <1>8, TwiceTells
<1>10. \A t \in DOMAIN stores : /\ stores'[t].db = stores[t].db
                                /\ stores'[t].failed = stores[t].failed
                                /\ stores'[t].hasCallback = stores[t].hasCallback
  BY <1>4, <1>7
<1>11. StoresTypeOK'
  BY <1>6, <1>7, <1>9 DEF StoresInv, StoresTypeOK
<1>12. HandlesHold'
  <2>1. ASSUME NEW q \in StoreUsers
        PROVE  /\ goes'[q].pc \in {"idle", "make"} => ~goes'[q].hooked
               /\ goes'[q].pc \in {"have", "open", "set", "got"} =>
                    goes'[q].store \in DOMAIN stores
               /\ goes'[q].pc \in {"set", "got"} =>
                    goes'[q].db \in DOMAIN dbs /\ dbs[goes'[q].db].store = goes'[q].store
               /\ goes'[q].pc = "open" /\ kind \in {"sqlite", "redis"} =>
                    goes'[q].wants = goes'[q].conf
               /\ goes'[q].pc = "open" => goes'[q].wants # NoOptions
               /\ kind = "redis" => goes'[q].given = NoOptions
    <3>1. CASE q = p
      <4>1. kind = "redis" => goes[p].given = NoOptions
        BY DEF StoresInv, HandlesHold
      <4>2. wants # NoOptions
        BY <1>2 DEF Settings, NoOptions, FromCaller
      <4> QED
        BY <1>1, <1>2, <1>3, <1>6, <3>1, <4>1, <4>2
    <3>2. CASE q # p
      BY <1>6, <3>2 DEF StoresInv, HandlesHold
    <3> QED
      BY <3>1, <3>2
  <2>2. ASSUME NEW t \in DOMAIN stores
        PROVE  /\ stores'[t].db # 0 => /\ stores'[t].db \in DOMAIN dbs
                                       /\ dbs[stores'[t].db].store = t
               /\ kind = "redis" => stores'[t].options = NoOptions
    BY <1>2, <1>4, <1>7, <1>10 DEF StoresInv, HandlesHold
  <2> QED
    BY <1>7, <2>1, <2>2 DEF StoresInv, HandlesHold
<1>13. MadeOnce'
  <2>1. Making' = Making
    BY <1>3, <1>6 DEF Making
  <2> QED
    BY <1>7, <1>9, <2>1 DEF StoresInv, MadeOnce
<1>14. UndisturbedAreFine'
  <2>1. ASSUME NEW t \in (DOMAIN stores) \ twice', ~stores'[t].failed
        PROVE  OpenedOnce(t)' /\ OptionsOfUse(t)'
    <3>1. OpenedOnce(t) /\ OptionsOfUse(t) /\ \A a, b \in Busy(t)' : a = b
      BY <1>7, <1>9, <1>10, <2>1 DEF StoresInv, UndisturbedAreFine
    <3>2. CASE t # s
      <4>1. \A q \in StoreUsers : Left(q, t)
        BY <1>3, <1>6, <3>2 DEF Left
      <4> QED
        BY <1>7, <3>1, <3>2, <4>1, LeftAlone
    <3>3. CASE t = s
      <4>1. Busy(s)' = Busy(s) \union {p} /\ p \notin Busy(s)
        BY <1>3, <1>6 DEF Busy
      <4>2. Busy(s) = {} /\ Busy(s)' = {p}
        BY <3>1, <3>3, <4>1
      <4>3. \A q \in StoreUsers : goes'[q].pc = "got" => goes'[q] = goes[q]
        BY <1>3, <1>6
      <4>4. OpenedOnce(s)'
        BY <1>10, <2>1, <3>1, <3>3, <4>2, <4>3 DEF OpenedOnce
      <4>5. kind = "server" => stores[s].options \notin Settings
        BY <3>1, <3>3, <4>2 DEF OptionsOfUse
      <4>6. OptionsOfUse(s)'
        BY <1>2, <1>3, <1>4, <1>6, <1>7, <4>2, <4>5 DEF OptionsOfUse
      <4> QED
        BY <3>3, <4>4, <4>6
    <3> QED
      BY <3>2, <3>3
  <2> QED
    BY <1>7, <2>1 DEF UndisturbedAreFine
<1>15. OptionsAreCurrent'
  <2>1. \A d \in DOMAIN dbs : dbs[d].store \in DOMAIN stores
    BY DEF StoresInv, HandlesHold
  <2> QED
    BY <1>9, <1>10, <2>1 DEF StoresInv, OptionsAreCurrent
<1>16. CallbackIsHeard'
  <2>1. \A a \in StoreUsers : goes'[a].pc \in {"set", "got"} => goes'[a] = goes[a]
    BY <1>3, <1>6
  <2>2. \A q \in StoreUsers : goes'[q].store = goes[q].store /\ goes'[q].hooked = goes[q].hooked
    BY <1>3, <1>6
  <2>3. ASSUME NEW q \in StoreUsers, goes[q].hooked
        PROVE  goes[q].store \in DOMAIN stores
    <3>1. goes[q].pc \in {"idle", "make", "have", "open", "set", "got"}
      BY DEF StoresInv, StoresTypeOK, Goings
    <3> QED
      BY <2>3, <3>1 DEF StoresInv, HandlesHold
  <2> QED
    BY <1>10, <2>1, <2>2, <2>3 DEF StoresInv, CallbackIsHeard
<1> QED
  BY <1>11, <1>12, <1>13, <1>14, <1>15, <1>16 DEF StoresInv

\* A Use that fails.
LEMMA FailKeeps ==
    ASSUME StoresInv, NEW p \in StoreUsers, goes[p].pc \in {"open", "set"},
           Fail(p), UNCHANGED <<kind, setting, storeMap, dbs>>,
           twice' = twice \union Both'
    PROVE  StoresInv'
<1> DEFINE s == goes[p].store
           v == [stores[s] EXCEPT !.failed = TRUE]
<1>1. s \in DOMAIN stores /\ stores[s] \in StoreValues
  BY DEF StoresInv, StoresTypeOK, HandlesHold
<1>2. v \in StoreValues /\ v.db = stores[s].db /\ v.failed = TRUE
      /\ v.hasCallback = stores[s].hasCallback /\ v.options = stores[s].options
  BY <1>1 DEF StoreValues
<1>3. Goes(p, Asleep) /\ stores' = [stores EXCEPT ![s] = v]
  BY DEF Fail, Done
<1>4. Asleep \in Goings /\ Asleep.pc = "idle" /\ ~Asleep.hooked /\ Asleep.given = NoOptions
  BY AsleepIsGoing, AsleepHasNone
<1> HIDE DEF v
<1>5. /\ goes' \in [StoreUsers -> Goings] /\ goes'[p] = Asleep
      /\ \A q \in StoreUsers \ {p} : goes'[q] = goes[q]
  BY <1>3, <1>4, GoesTo
<1>6. /\ stores' \in Seq(StoreValues) /\ Len(stores') = Len(stores)
      /\ DOMAIN stores' = DOMAIN stores /\ stores'[s] = v
      /\ \A t \in (DOMAIN stores) \ {s} : stores'[t] = stores[t]
  BY <1>1, <1>2, <1>3, StoreBecomes
<1> HIDE DEF s
<1>7. Len(stores) \in Nat /\ DOMAIN stores = 1..Len(stores) /\ Len(stores) <= MaxStores
  BY DEF StoresInv, StoresTypeOK, HandlesHold
<1>8. /\ twice \subseteq twice' /\ twice' \in SUBSET (0..MaxStores)
      /\ 0 \notin twice' => \A a, b \in Making' : a = b
      /\ \A t \in (DOMAIN stores') \ twice' :
           t \notin twice /\ \A a, b \in Busy(t)' : a = b
  BY <1>6, <1>7, TwiceTells
<1>9. \A t \in DOMAIN stores : /\ stores'[t].db = stores[t].db
                               /\ stores[t].failed => stores'[t].failed
                               /\ stores'[t].options = stores[t].options
                               /\ stores'[t].hasCallback = stores[t].hasCallback
  BY <1>2, <1>6
<1>10. StoresTypeOK'
  BY <1>5, <1>6, <1>8 DEF StoresInv, StoresTypeOK
<1>11. HandlesHold'
  <2>1. ASSUME NEW q \in StoreUsers
        PROVE  /\ goes'[q].pc \in {"idle", "make"} => ~goes'[q].hooked
               /\ goes'[q].pc \in {"have", "open", "set", "got"} =>
                    goes'[q].store \in DOMAIN stores
               /\ goes'[q].pc \in {"set", "got"} =>
                    goes'[q].db \in DOMAIN dbs /\ dbs[goes'[q].db].store = goes'[q].store
               /\ goes'[q].pc = "open" /\ kind \in {"sqlite", "redis"} =>
                    goes'[q].wants = goes'[q].conf
               /\ goes'[q].pc = "open" => goes'[q].wants # NoOptions
               /\ kind = "redis" => goes'[q].given = NoOptions
    <3>1. CASE q = p
      BY <1>4, <1>5, <3>1
    <3>2. CASE q # p
      BY <1>5, <3>2 DEF StoresInv, HandlesHold
    <3> QED
      BY <3>1, <3>2
  <2>2. ASSUME NEW t \in DOMAIN stores
        PROVE  /\ stores'[t].db # 0 => /\ stores'[t].db \in DOMAIN dbs
                                       /\ dbs[stores'[t].db].store = t
               /\ kind = "redis" => stores'[t].options = NoOptions
    BY <1>9 DEF StoresInv, HandlesHold
  <2> QED
    BY <1>6, <2>1, <2>2 DEF StoresInv, HandlesHold
<1>12. MadeOnce'
  <2>1. Making' = Making
    BY <1>4, <1>5 DEF Making
  <2> QED
    BY <1>6, <1>8, <2>1 DEF StoresInv, MadeOnce
<1>13. UndisturbedAreFine'
  <2>1. ASSUME NEW t \in (DOMAIN stores) \ twice', ~stores'[t].failed
        PROVE  OpenedOnce(t)' /\ OptionsOfUse(t)'
    <3>1. OpenedOnce(t) /\ OptionsOfUse(t) /\ t # s
      BY <1>2, <1>6, <1>8, <1>9, <2>1 DEF StoresInv, UndisturbedAreFine
    <3>2. \A q \in StoreUsers : Left(q, t)
      BY <1>4, <1>5, <3>1 DEF Left, s
    <3> QED
      BY <1>9, <3>1, <3>2, LeftAlone
  <2> QED
    BY <1>6, <2>1 DEF UndisturbedAreFine
<1>14. OptionsAreCurrent'
  <2>1. \A d \in DOMAIN dbs : dbs[d].store \in DOMAIN stores
    BY DEF StoresInv, HandlesHold
  <2> QED
    BY <1>8, <1>9, <2>1 DEF StoresInv, OptionsAreCurrent
<1>15. CallbackIsHeard'
  <2>1. \A a \in StoreUsers : goes'[a].pc \in {"set", "got"} => goes'[a] = goes[a]
    BY <1>4, <1>5
  <2>2. \A q \in StoreUsers : goes'[q].hooked => goes'[q] = goes[q]
    BY <1>4, <1>5
  <2>3. ASSUME NEW q \in StoreUsers, goes[q].hooked
        PROVE  goes[q].store \in DOMAIN stores
    <3>1. goes[q].pc \in {"idle", "make", "have", "open", "set", "got"}
      BY DEF StoresInv, StoresTypeOK, Goings
    <3> QED
      BY <2>3, <3>1 DEF StoresInv, HandlesHold
  <2> QED
    BY <1>9, <2>1, <2>2, <2>3 DEF StoresInv, CallbackIsHeard
<1> QED
  BY <1>10, <1>11, <1>12, <1>13, <1>14, <1>15 DEF StoresInv

\* A connection is opened.
LEMMA OpenKeeps ==
    ASSUME StoresInv, NEW p \in StoreUsers, goes[p].pc = "open",
           NEW s, s = goes[p].store,
           UNCHANGED <<kind, setting, storeMap, stores>>, Len(dbs) < MaxOpens,
           dbs' = Append(dbs, [store |-> s, options |-> Opened(p),
                               wants |-> goes[p].wants, hooked |-> stores[s].hasCallback]),
           Goes(p, [goes[p] EXCEPT !.db = Len(dbs) + 1, !.pc = "set"]),
           twice' = twice \union Both'
    PROVE  StoresInv'
<1> DEFINE opened == Opened(p)
           new == [store |-> s, options |-> opened,
                   wants |-> goes[p].wants, hooked |-> stores[s].hasCallback]
           r == [goes[p] EXCEPT !.db = Len(dbs) + 1, !.pc = "set"]
<1>1. goes[p] \in Goings /\ s \in DOMAIN stores /\ stores[s] \in StoreValues /\ kind \in Kinds
  BY DEF StoresInv, StoresTypeOK, HandlesHold
<1>2. opened \in Choices
  BY <1>1 DEF Opened, Goings, StoreValues
<1> HIDE DEF opened
<1>3. s \in 1..MaxStores
  <2>1. Len(stores) \in Nat /\ DOMAIN stores = 1..Len(stores) /\ Len(stores) <= MaxStores
    BY DEF StoresInv, StoresTypeOK, HandlesHold
  <2> QED
    BY <1>1, <2>1, StoresAssumption
<1>4. new \in Connections /\ new.store = s /\ new.options = opened
      /\ new.wants = goes[p].wants /\ new.hooked = stores[s].hasCallback
  BY <1>1, <1>2, <1>3 DEF Connections, Goings, StoreValues
<1> HIDE DEF new
<1>5. r \in Goings /\ r.db = Len(dbs) + 1 /\ r.pc = "set" /\ r.store = s
      /\ r.hooked = goes[p].hooked /\ r.given = goes[p].given
  <2>1. Len(dbs) + 1 \in 0..MaxOpens
    BY StoresAssumption DEF StoresInv, StoresTypeOK
  <2> QED
    BY <1>1, <2>1 DEF Goings
<1>6. Goes(p, r) /\ dbs' = Append(dbs, new)
  BY DEF new, opened
<1> HIDE DEF r
<1>7. /\ goes' \in [StoreUsers -> Goings] /\ goes'[p] = r
      /\ \A q \in StoreUsers \ {p} : goes'[q] = goes[q]
  BY <1>5, <1>6, GoesTo
<1>8. /\ dbs' \in Seq(Connections) /\ DOMAIN dbs' = DOMAIN dbs \union {r.db}
      /\ r.db \notin DOMAIN dbs /\ dbs'[r.db] = new /\ Len(dbs') <= MaxOpens
      /\ \A d \in DOMAIN dbs : dbs'[d] = dbs[d]
  BY <1>4, <1>5, <1>6, AppendProperties, StoresAssumption DEF StoresInv, StoresTypeOK
<1>9. Len(stores) \in Nat /\ DOMAIN stores = 1..Len(stores) /\ Len(stores) <= MaxStores
  BY DEF StoresInv, StoresTypeOK, HandlesHold
<1>10. /\ twice \subseteq twice' /\ twice' \in SUBSET (0..MaxStores)
       /\ 0 \notin twice' => \A a, b \in Making' : a = b
       /\ \A t \in (DOMAIN stores) \ twice' :
            t \notin twice /\ \A a, b \in Busy(t)' : a = b
  BY <1>9, TwiceTells
<1>11. StoresTypeOK'
  BY <1>7, <1>8, <1>10 DEF StoresInv, StoresTypeOK
<1>12. HandlesHold'
  <2>1. ASSUME NEW q \in StoreUsers
        PROVE  /\ goes'[q].pc \in {"idle", "make"} => ~goes'[q].hooked
               /\ goes'[q].pc \in {"have", "open", "set", "got"} =>
                    goes'[q].store \in DOMAIN stores
               /\ goes'[q].pc \in {"set", "got"} =>
                    goes'[q].db \in DOMAIN dbs' /\ dbs'[goes'[q].db].store = goes'[q].store
               /\ goes'[q].pc = "open" /\ kind \in {"sqlite", "redis"} =>
                    goes'[q].wants = goes'[q].conf
               /\ goes'[q].pc = "open" => goes'[q].wants # NoOptions
               /\ kind = "redis" => goes'[q].given = NoOptions
    <3>1. CASE q = p
      <4>1. kind = "redis" => goes[p].given = NoOptions
        BY DEF StoresInv, HandlesHold
      <4> QED
        BY <1>1, <1>4, <1>5, <1>7, <1>8, <3>1, <4>1
    <3>2. CASE q # p
      BY <1>7, <1>8, <3>2 DEF StoresInv, HandlesHold
    <3> QED
      BY <3>1, <3>2
  <2>2. ASSUME NEW t \in DOMAIN stores
        PROVE  /\ stores[t].db # 0 => /\ stores[t].db \in DOMAIN dbs'
                                      /\ dbs'[stores[t].db].store = t
               /\ kind = "redis" => stores[t].options = NoOptions
    BY <1>8 DEF StoresInv, HandlesHold
  <2>3. \A d \in DOMAIN dbs' : dbs'[d].store \in DOMAIN stores
    BY <1>1, <1>4, <1>8 DEF StoresInv, HandlesHold
  <2> QED
    BY <1>8, <2>1, <2>2, <2>3 DEF StoresInv, HandlesHold
<1>13. MadeOnce'
  <2>1. Making' = Making
    BY <1>5, <1>7 DEF Making
  <2> QED
    BY <1>10, <2>1 DEF StoresInv, MadeOnce
<1>14. p \in Busy(s)
  BY DEF Busy
<1>15. UndisturbedAreFine'
  <2>1. ASSUME NEW t \in (DOMAIN stores) \ twice', ~stores[t].failed
        PROVE  OpenedOnce(t)' /\ OptionsOfUse(t)'
    <3>1. OpenedOnce(t) /\ OptionsOfUse(t)
      BY <1>10, <2>1 DEF StoresInv, UndisturbedAreFine
    <3>2. CASE t # s
      <4>1. \A q \in StoreUsers : Left(q, t)
        BY <1>5, <1>7, <3>2 DEF Left
      <4>2. \A d \in DOMAIN dbs' : dbs'[d].store = t => d \in DOMAIN dbs /\ dbs[d].store = t
        BY <1>4, <1>8, <3>2
      <4> QED
        BY <3>1, <4>1, <4>2, LeftAlone
    <3>3. CASE t = s
      <4>1. Busy(s) = {p} /\ stores[s].db = 0 /\ ~(\E d \in DOMAIN dbs : dbs[d].store = s)
        BY <1>14, <3>1, <3>3 DEF OpenedOnce
      <4>2. Busy(s)' = {p}
        BY <1>5, <1>7, <4>1 DEF Busy
      <4>3. \A q \in StoreUsers : goes'[q].pc = "got" => goes'[q] = goes[q]
        BY <1>5, <1>7
      <4>4. \A d \in DOMAIN dbs' : dbs'[d].store = s => d = r.db
        BY <1>8, <4>1
      <4>5. OpenedOnce(s)'
        BY <1>5, <1>7, <3>1, <3>3, <4>1, <4>2, <4>3, <4>4 DEF OpenedOnce
      <4>6. OptionsOfUse(s)'
        BY <1>5, <1>7, <4>2 DEF OptionsOfUse
      <4> QED
        BY <3>3, <4>5, <4>6
    <3> QED
      BY <3>2, <3>3
  <2> QED
    BY <2>1 DEF UndisturbedAreFine
<1>16. OptionsAreCurrent'
  <2>1. \A d \in DOMAIN dbs : dbs[d].store \in DOMAIN stores
    BY DEF StoresInv, HandlesHold
  <2>2. \/ s \in twice' \/ stores[s].failed
        \/ opened = goes[p].wants
        \/ opened = FromCaller /\ kind = "server"
    <3>1. CASE kind \in {"sqlite", "redis"}
      BY <3>1 DEF opened, Opened, StoresInv, HandlesHold
    <3>2. CASE kind = "server"
      <4>1. s \in twice' \/ stores[s].failed \/ OptionsOfUse(s)
        BY <1>1, <1>10 DEF StoresInv, UndisturbedAreFine
      <4> QED
        BY <1>14, <3>2, <4>1 DEF opened, Opened, OptionsOfUse
    <3> QED
      BY <1>1, <3>1, <3>2 DEF Kinds
  <2>3. ASSUME NEW d \in DOMAIN dbs'
        PROVE  LET t == dbs'[d].store
               IN  \/ t \in twice' \/ stores[t].failed
                   \/ dbs'[d].options = dbs'[d].wants
                   \/ dbs'[d].options = FromCaller /\ kind = "server"
    <3>1. CASE d \in DOMAIN dbs
      BY <1>8, <1>10, <2>1, <3>1 DEF StoresInv, OptionsAreCurrent
    <3>2. CASE d = r.db
      BY <1>4, <1>8, <2>2, <3>2
    <3> QED
      BY <1>8, <3>1, <3>2
  <2> QED
    BY <2>3 DEF OptionsAreCurrent
<1>17. CallbackIsHeard'
  <2>1. \A a \in StoreUsers : goes'[a].pc \in {"set", "got"} => a = p \/ goes'[a] = goes[a]
    BY <1>7
  <2>2. \A q \in StoreUsers : goes'[q].store = goes[q].store /\ goes'[q].hooked = goes[q].hooked
    BY <1>5, <1>7
  <2>3. ASSUME NEW q \in StoreUsers, goes[q].hooked
        PROVE  /\ goes[q].store \in DOMAIN stores /\ stores[goes[q].store].hasCallback
               /\ stores[goes[q].store].db # 0 => stores[goes[q].store].db \in DOMAIN dbs
    <3>1. goes[q].pc \in {"idle", "make", "have", "open", "set", "got"}
      BY DEF StoresInv, StoresTypeOK, Goings
    <3> QED
      BY <2>3, <3>1 DEF StoresInv, HandlesHold, CallbackIsHeard
  <2>4. \A a \in StoreUsers : goes[a].pc \in {"set", "got"} => goes[a].db \in DOMAIN dbs
    BY DEF StoresInv, HandlesHold
  <2>5. ASSUME NEW q \in StoreUsers, goes'[q].hooked
        PROVE  LET t == goes'[q].store
               IN  /\ stores[t].hasCallback
                   /\ stores[t].db # 0 => dbs'[stores[t].db].hooked
                   /\ \A a \in StoreUsers : goes'[a].store = t /\ goes'[a].pc = "set" =>
                        dbs'[goes'[a].db].hooked
                   /\ goes'[q].pc = "got" => dbs'[goes'[q].db].hooked
    <3> DEFINE t == goes[q].store
    <3>1. goes[q].hooked /\ goes'[q].store = t
      BY <2>2, <2>5
    <3>2. stores[t].hasCallback /\ (stores[t].db # 0 => dbs'[stores[t].db].hooked)
      BY <1>8, <2>3, <3>1 DEF StoresInv, CallbackIsHeard
    <3>3. ASSUME NEW a \in StoreUsers, goes'[a].store = t, goes'[a].pc = "set"
          PROVE  dbs'[goes'[a].db].hooked
      <4>1. CASE a = p
        BY <1>4, <1>5, <1>7, <1>8, <3>2, <3>3, <4>1
      <4>2. CASE a # p
        BY <1>7, <1>8, <2>4, <3>1, <3>3, <4>2 DEF StoresInv, CallbackIsHeard
      <4> QED
        BY <4>1, <4>2
    <3>4. goes'[q].pc = "got" => dbs'[goes'[q].db].hooked
      BY <1>5, <1>7, <1>8, <2>1, <2>4, <3>1 DEF StoresInv, CallbackIsHeard
    <3> QED
      BY <3>1, <3>2, <3>3, <3>4
  <2> QED
    BY <2>5 DEF CallbackIsHeard
<1> QED
  BY <1>11, <1>12, <1>13, <1>15, <1>16, <1>17 DEF StoresInv

\* The store gets its connection.
LEMMA SetKeeps ==
    ASSUME StoresInv, NEW p \in StoreUsers, goes[p].pc = "set",
           NEW s, s = goes[p].store, NEW db, db = goes[p].db,
           stores' = [stores EXCEPT ![s].db = db],
           Goes(p, [goes[p] EXCEPT !.pc = "got"]),
           UNCHANGED <<kind, setting, storeMap, dbs>>,
           twice' = twice \union Both'
    PROVE  StoresInv'
<1> DEFINE v == [stores[s] EXCEPT !.db = db]
           r == [goes[p] EXCEPT !.pc = "got"]
<1>1. /\ goes[p] \in Goings /\ s \in DOMAIN stores /\ stores[s] \in StoreValues
      /\ db \in 0..MaxOpens /\ db # 0 /\ db \in DOMAIN dbs /\ dbs[db].store = s
  <2>1. goes[p] \in Goings /\ s \in DOMAIN stores /\ stores[s] \in StoreValues
        /\ db \in DOMAIN dbs /\ dbs[db].store = s
    BY DEF StoresInv, StoresTypeOK, HandlesHold
  <2>2. db \in 0..MaxOpens
    BY <2>1 DEF Goings
  <2>3. DOMAIN dbs = 1..Len(dbs)
    BY DEF StoresInv, StoresTypeOK
  <2> QED
    BY <2>1, <2>2, <2>3
<1>2. v \in StoreValues /\ v.db = db /\ v.failed = stores[s].failed
      /\ v.hasCallback = stores[s].hasCallback /\ v.options = stores[s].options
  BY <1>1 DEF StoreValues
<1>3. r \in Goings /\ r.pc = "got" /\ r.db = db /\ r.store = s
      /\ r.hooked = goes[p].hooked /\ r.given = goes[p].given
  BY <1>1 DEF Goings
<1>4. Goes(p, r) /\ stores' = [stores EXCEPT ![s] = v]
  OBVIOUS
<1> HIDE DEF v, r
<1>5. /\ goes' \in [StoreUsers -> Goings] /\ goes'[p] = r
      /\ \A q \in StoreUsers \ {p} : goes'[q] = goes[q]
  BY <1>3, <1>4, GoesTo
<1>6. /\ stores' \in Seq(StoreValues) /\ Len(stores') = Len(stores)
      /\ DOMAIN stores' = DOMAIN stores /\ stores'[s] = v
      /\ \A t \in (DOMAIN stores) \ {s} : stores'[t] = stores[t]
  BY <1>1, <1>2, <1>4, StoreBecomes
<1>7. Len(stores) \in Nat /\ DOMAIN stores = 1..Len(stores) /\ Len(stores) <= MaxStores
  BY DEF StoresInv, StoresTypeOK, HandlesHold
<1>8. /\ twice \subseteq twice' /\ twice' \in SUBSET (0..MaxStores)
      /\ 0 \notin twice' => \A a, b \in Making' : a = b
      /\ \A t \in (DOMAIN stores') \ twice' :
           t \notin twice /\ \A a, b \in Busy(t)' : a = b
  BY <1>6, <1>7, TwiceTells
<1>9. \A t \in DOMAIN stores : /\ stores'[t].db = IF t = s THEN db ELSE stores[t].db
                               /\ stores'[t].failed = stores[t].failed
                               /\ stores'[t].options = stores[t].options
                               /\ stores'[t].hasCallback = stores[t].hasCallback
  BY <1>2, <1>6
<1>10. StoresTypeOK'
  BY <1>5, <1>6, <1>8 DEF StoresInv, StoresTypeOK
<1>11. HandlesHold'
  <2>1. ASSUME NEW q \in StoreUsers
        PROVE  /\ goes'[q].pc \in {"idle", "make"} => ~goes'[q].hooked
               /\ goes'[q].pc \in {"have", "open", "set", "got"} =>
                    goes'[q].store \in DOMAIN stores
               /\ goes'[q].pc \in {"set", "got"} =>
                    goes'[q].db \in DOMAIN dbs /\ dbs[goes'[q].db].store = goes'[q].store
               /\ goes'[q].pc = "open" /\ kind \in {"sqlite", "redis"} =>
                    goes'[q].wants = goes'[q].conf
               /\ goes'[q].pc = "open" => goes'[q].wants # NoOptions
               /\ kind = "redis" => goes'[q].given = NoOptions
    <3>1. CASE q = p
      <4>1. kind = "redis" => goes[p].given = NoOptions
        BY DEF StoresInv, HandlesHold
      <4> QED
        BY <1>1, <1>3, <1>5, <3>1, <4>1
    <3>2. CASE q # p
      BY <1>5, <3>2 DEF StoresInv, HandlesHold
    <3> QED
      BY <3>1, <3>2
  <2>2. ASSUME NEW t \in DOMAIN stores
        PROVE  /\ stores'[t].db # 0 => /\ stores'[t].db \in DOMAIN dbs
                                       /\ dbs[stores'[t].db].store = t
               /\ kind = "redis" => stores'[t].options = NoOptions
    BY <1>1, <1>9 DEF StoresInv, HandlesHold
  <2> QED
    BY <1>6, <2>1, <2>2 DEF StoresInv, HandlesHold
<1>12. MadeOnce'
  <2>1. Making' = Making
    BY <1>3, <1>5 DEF Making
  <2> QED
    BY <1>6, <1>8, <2>1 DEF StoresInv, MadeOnce
<1>13. p \in Busy(s)
  BY DEF Busy
<1>14. UndisturbedAreFine'
  <2>1. ASSUME NEW t \in (DOMAIN stores) \ twice', ~stores'[t].failed
        PROVE  OpenedOnce(t)' /\ OptionsOfUse(t)'
    <3>1. OpenedOnce(t) /\ OptionsOfUse(t)
      BY <1>6, <1>8, <1>9, <2>1 DEF StoresInv, UndisturbedAreFine
    <3>2. CASE t # s
      <4>1. \A q \in StoreUsers : Left(q, t)
        BY <1>3, <1>5, <3>2 DEF Left
      <4> QED
        BY <1>9, <3>1, <3>2, <4>1, LeftAlone
    <3>3. CASE t = s
      <4>1. Busy(s) = {p} /\ stores[s].db = 0
        BY <1>13, <3>1, <3>3 DEF OpenedOnce
      <4>2. Busy(s)' = {}
        BY <1>3, <1>5, <4>1 DEF Busy
      <4>3. \A d \in DOMAIN dbs : dbs[d].store = s => d = db
        BY <3>1, <3>3, <4>1 DEF OpenedOnce
      <4>4. \A q \in StoreUsers : goes'[q].store = s /\ goes'[q].pc = "got" => goes'[q].db = db
        BY <1>3, <1>5, <3>1, <3>3, <4>1 DEF OpenedOnce
      <4>5. stores'[s].db = db
        BY <1>1, <1>9
      <4>6. OpenedOnce(s)'
        BY <1>1, <4>2, <4>3, <4>4, <4>5 DEF OpenedOnce
      <4>7. OptionsOfUse(s)'
        BY <1>1, <4>2, <4>5 DEF OptionsOfUse
      <4> QED
        BY <3>3, <4>6, <4>7
    <3> QED
      BY <3>2, <3>3
  <2> QED
    BY <1>6, <2>1 DEF UndisturbedAreFine
<1>15. OptionsAreCurrent'
  <2>1. \A d \in DOMAIN dbs : dbs[d].store \in DOMAIN stores
    BY DEF StoresInv, HandlesHold
  <2> QED
    BY <1>8, <1>9, <2>1 DEF StoresInv, OptionsAreCurrent
<1>16. CallbackIsHeard'
  <2>1. \A a \in StoreUsers : goes'[a].pc = "set" => goes'[a] = goes[a]
    BY <1>3, <1>5
  <2>2. \A q \in StoreUsers : /\ goes'[q].store = goes[q].store
                              /\ goes'[q].hooked = goes[q].hooked
                              /\ goes'[q].pc = "got" => q = p \/ goes'[q] = goes[q]
    BY <1>3, <1>5
  <2>3. ASSUME NEW q \in StoreUsers, goes[q].hooked
        PROVE  /\ goes[q].store \in DOMAIN stores
               /\ goes[q].store = s => dbs[db].hooked
    <3>1. goes[q].pc \in {"idle", "make", "have", "open", "set", "got"}
      BY DEF StoresInv, StoresTypeOK, Goings
    <3> QED
      BY <2>3, <3>1 DEF StoresInv, HandlesHold, CallbackIsHeard
  <2>4. ASSUME NEW q \in StoreUsers, goes'[q].hooked
        PROVE  LET t == goes'[q].store
               IN  /\ stores'[t].hasCallback
                   /\ stores'[t].db # 0 => dbs[stores'[t].db].hooked
                   /\ \A a \in StoreUsers : goes'[a].store = t /\ goes'[a].pc = "set" =>
                        dbs[goes'[a].db].hooked
                   /\ goes'[q].pc = "got" => dbs[goes'[q].db].hooked
    <3> DEFINE t == goes[q].store
    <3>1. goes[q].hooked /\ goes'[q].store = t /\ t \in DOMAIN stores
      BY <2>2, <2>3, <2>4
    <3>2. stores'[t].hasCallback /\ (stores'[t].db # 0 => dbs[stores'[t].db].hooked)
      BY <1>9, <2>3, <3>1 DEF StoresInv, CallbackIsHeard
    <3>3. ASSUME NEW a \in StoreUsers, goes'[a].store = t, goes'[a].pc = "set"
          PROVE  dbs[goes'[a].db].hooked
      BY <2>1, <3>1, <3>3 DEF StoresInv, CallbackIsHeard
    <3>4. goes'[q].pc = "got" => dbs[goes'[q].db].hooked
      BY <1>3, <1>5, <2>2, <2>3, <3>1 DEF StoresInv, CallbackIsHeard
    <3> QED
      BY <3>1, <3>2, <3>3, <3>4
  <2> QED
    BY <2>4 DEF CallbackIsHeard
<1> QED
  BY <1>10, <1>11, <1>12, <1>14, <1>15, <1>16 DEF StoresInv

\* A goroutine asks for the store, sets its options or its callback, or is done.
LEMMA QuietStepKeeps ==
    ASSUME StoresInv, NEW p \in StoreUsers, twice' = twice \union Both',
           Ask(p) \/ Options(p) \/ Callback(p) \/ Drop(p) \/ Got(p)
    PROVE  StoresInv'
<1>1. /\ goes[p] \in Goings /\ DOMAIN stores = 1..Len(stores) /\ Len(stores) \in Nat
      /\ stores \in Seq(StoreValues) /\ storeMap = Len(stores)
      /\ storeMap \in 0..MaxStores
  BY DEF StoresInv, StoresTypeOK, HandlesHold
<1>2. Asleep \in Goings /\ Asleep.pc = "idle" /\ ~Asleep.hooked /\ Asleep.given = NoOptions
  BY AsleepIsGoing, AsleepHasNone
<1>3. CASE Ask(p)
  <2>1. PICK given \in {NoOptions, FromCaller} :
          /\ kind = "redis" => given = NoOptions
          /\ Goes(p, [Asleep EXCEPT !.store = storeMap, !.given = given,
                        !.pc = IF storeMap = 0 THEN "make" ELSE "have"])
    BY <1>3 DEF Ask
  <2> DEFINE stage == IF storeMap = 0 THEN "make" ELSE "have"
             r == [Asleep EXCEPT !.store = storeMap, !.given = given, !.pc = stage]
  <2>2. r \in Goings /\ r.pc = stage /\ r.store = storeMap /\ r.given = given /\ ~r.hooked
    <3>1. stage \in {"make", "have"}
      OBVIOUS
    <3> HIDE DEF stage
    <3> QED
      BY <1>1, <1>2, <3>1 DEF Goings
  <2>3. Goes(p, r)
    BY <2>1
  <2> HIDE DEF r
  <2>4. goes[p].pc = "idle" /\ UNCHANGED <<kind, setting, storeMap, stores, dbs>>
    BY <1>3 DEF Ask
  <2> QED
    BY <1>1, <2>1, <2>2, <2>3, <2>4, QuietKeeps
<1>4. CASE Options(p)
  <2> DEFINE s == goes[p].store
             v == [stores[s] EXCEPT !.options = FromCaller]
  <2>1. s \in DOMAIN stores /\ stores[s] \in StoreValues /\ goes[p].pc = "have"
    BY <1>4 DEF Options, StoresInv, StoresTypeOK, HandlesHold
  <2>2. v \in StoreValues /\ v.db = stores[s].db /\ v.failed = stores[s].failed
        /\ v.hasCallback = stores[s].hasCallback /\ v.options = FromCaller
    BY <2>1 DEF StoreValues, Choices
  <2>3. stores' = [stores EXCEPT ![s] = v]
    BY <1>4 DEF Options
  <2> HIDE DEF v
  <2>4. /\ stores' \in Seq(StoreValues) /\ Len(stores') = Len(stores)
        /\ DOMAIN stores' = DOMAIN stores /\ stores'[s] = v
        /\ \A t \in (DOMAIN stores) \ {s} : stores'[t] = stores[t]
    BY <2>1, <2>2, <2>3, StoreBecomes
  <2>5. Goes(p, goes[p]) /\ kind # "redis" /\ UNCHANGED <<kind, setting, storeMap, dbs>>
    BY <1>4 DEF Options, Goes, StoresInv, StoresTypeOK
  <2>6. \A t \in DOMAIN stores :
          /\ stores'[t].db = stores[t].db /\ stores'[t].failed = stores[t].failed
          /\ stores[t].hasCallback => stores'[t].hasCallback
          /\ stores'[t].options \in {stores[t].options, FromCaller}
    BY <2>2, <2>4
  <2>7. goes[p].hooked => stores[s].hasCallback
    BY DEF StoresInv, CallbackIsHeard
  <2>8. kind = "redis" => goes[p].given = NoOptions
    BY <2>5
  <2> QED
    BY <1>1, <2>1, <2>4, <2>5, <2>6, <2>7, <2>8, QuietKeeps
<1>5. CASE Callback(p)
  <2> DEFINE s == goes[p].store
             v == [stores[s] EXCEPT !.hasCallback = TRUE]
             hooked == goes[p].hooked \/ Untouched(s)
             r == [goes[p] EXCEPT !.hooked = hooked]
  <2>1. s \in DOMAIN stores /\ stores[s] \in StoreValues /\ goes[p].pc = "have"
    BY <1>5 DEF Callback, StoresInv, StoresTypeOK, HandlesHold
  <2>2. v \in StoreValues /\ v.db = stores[s].db /\ v.failed = stores[s].failed
        /\ v.hasCallback /\ v.options = stores[s].options
    BY <2>1 DEF StoreValues
  <2>3. hooked \in BOOLEAN
    BY <1>1 DEF Goings, Untouched
  <2>4. Goes(p, r) /\ kind # "redis" /\ UNCHANGED <<kind, setting, storeMap, dbs>>
        /\ stores' = [stores EXCEPT ![s] = v]
    BY <1>5 DEF Callback
  <2> HIDE DEF hooked, v
  <2>5. r \in Goings /\ r.pc = "have" /\ r.store = s /\ r.given = goes[p].given
        /\ r.hooked = hooked
    BY <1>1, <2>1, <2>3 DEF Goings
  <2> HIDE DEF r
  <2>6. /\ stores' \in Seq(StoreValues) /\ Len(stores') = Len(stores)
        /\ DOMAIN stores' = DOMAIN stores /\ stores'[s] = v
        /\ \A t \in (DOMAIN stores) \ {s} : stores'[t] = stores[t]
    BY <2>1, <2>2, <2>4, StoreBecomes
  <2>7. \A t \in DOMAIN stores :
          /\ stores'[t].db = stores[t].db /\ stores'[t].failed = stores[t].failed
          /\ stores[t].hasCallback => stores'[t].hasCallback
          /\ stores'[t].options = stores[t].options
    BY <2>2, <2>6
  <2>8. r.hooked => /\ stores'[s].hasCallback
                    /\ goes[p].hooked \/ Untouched(s)
    BY <2>2, <2>5, <2>6 DEF hooked
  <2>9. kind = "redis" => r.given = NoOptions
    BY <2>4
  <2> QED
    BY <2>1, <2>4, <2>5, <2>6, <2>7, <2>8, <2>9, QuietKeeps
<1>6. CASE Drop(p) \/ Got(p)
  <2>1. /\ Goes(p, Asleep) /\ goes[p].pc \in {"have", "got"}
        /\ UNCHANGED <<kind, setting, storeMap, stores, dbs>>
    BY <1>6 DEF Drop, Got, Done
  <2> QED
    BY <1>1, <1>2, <2>1, QuietKeeps
<1> QED
  BY <1>3, <1>4, <1>5, <1>6

\* The configuration changes.
LEMMA ReconfigureKeeps ==
    ASSUME StoresInv, Reconfigure, twice' = twice \union Both'
    PROVE  StoresInv'
<1>1. /\ setting' \in Settings /\ UNCHANGED <<kind, storeMap, stores, dbs, goes>>
  BY DEF Reconfigure
<1>2. Len(stores') \in Nat /\ DOMAIN stores' = 1..Len(stores') /\ Len(stores') <= MaxStores
  BY <1>1 DEF StoresInv, StoresTypeOK, HandlesHold
<1>3. /\ twice \subseteq twice' /\ twice' \in SUBSET (0..MaxStores)
      /\ \A s \in (DOMAIN stores') \ twice' : s \notin twice
  BY <1>2, TwiceTells
<1>4. StoresTypeOK' /\ HandlesHold'
  BY <1>1, <1>3 DEF StoresInv, StoresTypeOK, HandlesHold
<1>5. MadeOnce'
  BY <1>1, <1>3 DEF StoresInv, MadeOnce, Making
<1>6. UndisturbedAreFine'
  BY <1>1, <1>3 DEF StoresInv, UndisturbedAreFine, OpenedOnce, OptionsOfUse, Busy
<1>7. OptionsAreCurrent' /\ CallbackIsHeard'
  BY <1>1, <1>3 DEF StoresInv, OptionsAreCurrent, CallbackIsHeard
<1> QED
  BY <1>4, <1>5, <1>6, <1>7 DEF StoresInv

\* The steps of one store.
LEMMA StoreStepKeeps ==
    ASSUME StoresInv, NEW p \in StoreUsers, StoreStep(p), twice' = twice \union Both'
    PROVE  StoresInv'
<1>1. CASE Ask(p) \/ Options(p) \/ Callback(p) \/ Drop(p) \/ Got(p)
  BY <1>1, QuietStepKeeps
<1>2. CASE Make(p)
  BY <1>2, MakeKeeps
<1>3. CASE UseConfig(p)
  <2> DEFINE s == goes[p].store
  <2>1. goes[p].pc = "have" /\ UNCHANGED <<kind, setting, storeMap, dbs>>
    BY <1>3 DEF UseConfig
  <2>2. CASE /\ stores[s].db # 0
             /\ Goes(p, [goes[p] EXCEPT !.db = stores[s].db, !.pc = "got"])
             /\ UNCHANGED stores
    BY <2>1, <2>2, UseConnectedKeeps
  <2>3. CASE Done(p) /\ UNCHANGED stores
    BY <2>1, <2>3, QuietStepKeeps DEF Drop
  <2>4. CASE /\ stores[s].db = 0 /\ Usable
             /\ stores' = [stores EXCEPT ![s].options =
                             IF @ = NoOptions /\ kind # "redis" THEN setting ELSE @]
             /\ Goes(p, [goes[p] EXCEPT !.conf = setting, !.wants = Wanted(s),
                                    !.pc = "open"])
    BY <2>1, <2>4, UseOpensKeeps
  <2> QED
    BY <1>3, <2>2, <2>3, <2>4 DEF UseConfig
<1>4. CASE Open(p)
  <2>1. CASE Fail(p) /\ UNCHANGED dbs
    BY <1>4, <2>1, FailKeeps DEF Open
  <2>2. CASE ~(Fail(p) /\ UNCHANGED dbs)
    BY <1>4, <2>2, OpenKeeps DEF Open
  <2> QED
    BY <2>1, <2>2
<1>5. CASE Set(p)
  <2>1. CASE Fail(p)
    BY <1>5, <2>1, FailKeeps DEF Set
  <2>2. CASE ~Fail(p)
    BY <1>5, <2>2, SetKeeps DEF Set
  <2> QED
    BY <2>1, <2>2
<1> QED
  BY <1>1, <1>2, <1>3, <1>4, <1>5 DEF StoreStep

\* For every number of goroutines and every history of asking, configuring,
\* failing and changes of the file: those who use the store of a key agree on
\* the store (store/use.go:18), the connection, its options
\* (store/use_mysql.go:78) and the callback, but for the exceptions named.
THEOREM UsesCorrect == StoresSpec => [](StoresTypeOK /\ UsesAgree)
<1>1. StoresInit => StoresInv
  <2> SUFFICES ASSUME StoresInit PROVE StoresInv
    OBVIOUS
  <2> USE DEF StoresInit
  <2>1. /\ stores = <<>> /\ dbs = <<>> /\ twice = {} /\ storeMap = 0
        /\ \A p \in StoreUsers : goes[p] = Asleep
    OBVIOUS
  <2>2. Asleep \in Goings /\ Asleep.pc = "idle" /\ ~Asleep.hooked /\ Asleep.given = NoOptions
    BY AsleepIsGoing, AsleepHasNone
  <2>3. StoresTypeOK
    BY <2>2, StoresAssumption DEF StoresTypeOK, Settings
  <2>4. HandlesHold
    BY <2>1, <2>2, StoresAssumption DEF HandlesHold
  <2>5. MadeOnce /\ UndisturbedAreFine /\ OptionsAreCurrent /\ CallbackIsHeard
    BY <2>1, <2>2 DEF MadeOnce, Making, UndisturbedAreFine, OptionsAreCurrent, CallbackIsHeard
  <2> QED
    BY <2>3, <2>4, <2>5 DEF StoresInv
<1>2. StoresInv /\ [StoresNext]_storeVars => StoresInv'
  <2> SUFFICES ASSUME StoresInv, [StoresNext]_storeVars
               PROVE  StoresInv'
    OBVIOUS
  <2>1. CASE UNCHANGED storeVars
    BY <2>1 DEF storeVars, StoresInv, StoresTypeOK, HandlesHold, MadeOnce, Making,
                UndisturbedAreFine, OpenedOnce, OptionsOfUse, Busy, OptionsAreCurrent,
                CallbackIsHeard
  <2>2. CASE StoresNext
    BY <2>2, ReconfigureKeeps, StoreStepKeeps DEF StoresNext
  <2> QED
    BY <2>1, <2>2
<1>3. StoresInv => StoresTypeOK /\ UsesAgree
  <2> SUFFICES ASSUME StoresInv PROVE UsesAgree
    BY DEF StoresInv
  <2>1. StoreIsShared
    BY DEF StoresInv, MadeOnce, StoreIsShared
  <2>2. ConnectionIsShared
    <3>1. ASSUME NEW s \in (DOMAIN stores) \ twice, ~stores[s].failed
          PROVE  /\ Cardinality({d \in DOMAIN dbs : dbs[d].store = s}) <= 1
                 /\ \A p \in StoreUsers : goes[p].store = s /\ goes[p].pc = "got"
                      => goes[p].db = stores[s].db
      <4> DEFINE opened == {d \in DOMAIN dbs : dbs[d].store = s}
      <4>1. OpenedOnce(s)
        BY <3>1 DEF StoresInv, UndisturbedAreFine
      <4>2. \A c, d \in opened : c = d
        BY <4>1 DEF OpenedOnce
      <4>3. opened = {} \/ \E d : opened = {d}
        BY <4>2
      <4>4. Cardinality(opened) <= 1
        <5> HIDE DEF opened
        <5>1. CASE opened = {}
          BY <5>1, FS_EmptySet
        <5>2. ASSUME NEW d, opened = {d} PROVE Cardinality(opened) <= 1
          BY <5>2, FS_Singleton
        <5> QED
          BY <4>3, <5>1, <5>2
      <4> QED
        BY <4>1, <4>4 DEF OpenedOnce
    <3> QED
      BY <3>1 DEF ConnectionIsShared
  <2>3. OptionsAreCurrent /\ CallbackSeesConnection
    BY DEF StoresInv, CallbackIsHeard, CallbackSeesConnection
  <2> QED
    BY <2>1, <2>2, <2>3 DEF UsesAgree
<1> QED
  BY <1>1, <1>2, <1>3, PTL DEF StoresSpec

-----------------------------------------------------------------------------
(* The collector of statistics.                                             *)

\* Two numbers that the counters do not tell apart.
Congruent(a, b) == \E k \in Int : a - b = k * Modulus

Since(from, to) == traffic[to] - traffic[from]

\* A counter that was read at a time tells of what was sent since then.
Counts(count, at, total, to) == Unbroken(at, to) => Congruent(total, count + Since(at, to))

RateIsTraffic(r) ==
    /\ r.from <= r.to
    /\ r.from # NoTime /\ Since(r.from, r.to) < Modulus
       /\ Unbroken(r.from, r.to)
         => r.sent = Since(r.from, r.to)

PastRecords == [from : 0..time, to : 0..time, sent : Nat]

\* One goroutine at a time is awake.
AloneIsAwake ==
    \A g, h \in Collections : g # h => Collecting(g, "sleep") \/ Collecting(h, "sleep")

\* The traffic grows, and no time is later than now.
TimesArePast ==
    /\ \A i, j \in 1..time : i <= j => traffic[i] <= traffic[j]
    /\ netStats.LastTime <= time
    /\ \A g \in Collections : collect[g].rec \in PastRecords
    /\ \A i \in DOMAIN records : records[i] \in PastRecords

\* netStats is a reading of the counters, and what is sent since then they
\* count.
NetStatsCount ==
    netStats.LastTime # NoTime => Counts(netStats.LastSent, netStats.LastTime, sentBytes, time)

\* What an awake goroutine has read, the time before it, and its rate.
ReadingCounts(g) ==
    LET c == collect[g]
    IN  c.pc # "sleep" /\ IsReading(c.rec) =>
          /\ c.rec.to # NoTime
          /\ netStats.LastTime <= c.rec.to
          /\ c.pc # "append" => Counts(c.total, c.rec.to, sentBytes, time)
          /\ c.pc = "rate" => /\ c.rec.from = NoTime
                              /\ netStats.LastTime # NoTime =>
                                   Counts(netStats.LastSent, netStats.LastTime, c.total, c.rec.to)
          /\ c.pc = "update" => c.rec.from = netStats.LastTime
          /\ c.pc = "append" => netStats.LastTime = c.rec.to
          /\ c.pc # "rate" => RateIsTraffic(c.rec)

Unread(g) == /\ collect[g].pc \in {"rate", "update"} => IsReading(collect[g].rec)
             /\ ~IsReading(collect[g].rec) => collect[g].rec = NoRecord
             /\ collect[g].pc = "sleep" => collect[g].rec = NoRecord

Appending(g) == Collecting(g, "append") /\ IsReading(collect[g].rec)

\* netStats has the time of the last reading, which is among the records or
\* about to be.
LastIsKept ==
    /\ (\A g \in Collections : ~Appending(g)) => LastReading(Len(records) + 1, netStats.LastTime)
    /\ \A g \in Collections : Appending(g) => LastReading(Len(records) + 1, collect[g].rec.from)

RecordsTell == \A i \in DOMAIN records : RateIsTraffic(records[i])

StatsInv ==
    /\ StatsTypeOK
    /\ TimesArePast
    /\ WindowIsLatest
    /\ \A g \in Collections : Unread(g)
    /\ ~overlap => /\ AloneIsAwake
                   /\ NetStatsCount
                   /\ \A g \in Collections : ReadingCounts(g)
                   /\ RecordsTell
                   /\ LastIsKept
                   /\ TimesMeet

-----------------------------------------------------------------------------
\* The remainder is one of the numbers of the counters, and not told apart.
LEMMA Remainders ==
    ASSUME NEW a \in Int
    PROVE  a % Modulus \in 0..(Modulus - 1) /\ Congruent(a % Modulus, a)
<1> USE StatsAssumption
<1>1. a % Modulus \in 0..(Modulus - 1)
  OBVIOUS
<1>2. a = Modulus * (a \div Modulus) + (a % Modulus) /\ a \div Modulus \in Int
  OBVIOUS
<1>3. -(a \div Modulus) \in Int /\ (a % Modulus) - a = (-(a \div Modulus)) * Modulus
  BY <1>1, <1>2
<1> QED
  BY <1>1, <1>3 DEF Congruent

\* Congruent numbers stay so when the same is added, and congruence carries on.
LEMMA CongruentAdds ==
    ASSUME NEW a \in Int, NEW b \in Int, NEW n \in Int, Congruent(a, b)
    PROVE  Congruent(a + n, b + n)
<1>1. PICK k \in Int : a - b = k * Modulus
  BY DEF Congruent
<1>2. (a + n) - (b + n) = k * Modulus
  BY <1>1, StatsAssumption
<1> QED
  BY <1>2 DEF Congruent

\* Every number is congruent to itself.
LEMMA CongruentItself ==
    ASSUME NEW a \in Int
    PROVE  Congruent(a, a)
<1>1. a - a = 0 * Modulus /\ 0 \in Int
  BY StatsAssumption
<1> QED
  BY <1>1 DEF Congruent

\* Numbers that are congruent to the same one are congruent.
LEMMA CongruentCarries ==
    ASSUME NEW a \in Int, NEW b \in Int, NEW c \in Int, Congruent(a, b), Congruent(b, c)
    PROVE  Congruent(a, c)
<1>1. PICK k \in Int : a - b = k * Modulus
  BY DEF Congruent
<1>2. PICK l \in Int : b - c = l * Modulus
  BY DEF Congruent
<1>3. k + l \in Int /\ a - c = (k + l) * Modulus
  BY <1>1, <1>2, StatsAssumption
<1> QED
  BY <1>3 DEF Congruent

\* Two numbers of the counters that are congruent are the same.
LEMMA CongruentSame ==
    ASSUME NEW a \in 0..(Modulus - 1), NEW b \in 0..(Modulus - 1), Congruent(a, b)
    PROVE  a = b
<1> USE StatsAssumption
<1>1. PICK k \in Int : a - b = k * Modulus
  BY DEF Congruent
<1>2. a - b < Modulus /\ b - a < Modulus
  OBVIOUS
<1>3. CASE k >= 1
  <2>1. k * Modulus >= Modulus
    BY <1>3
  <2> QED
    BY <1>1, <1>2, <2>1
<1>4. CASE k <= -1
  <2>1. k * Modulus <= -Modulus
    BY <1>4
  <2> QED
    BY <1>1, <1>2, <2>1
<1>5. CASE k = 0
  BY <1>1, <1>5
<1> QED
  BY <1>3, <1>4, <1>5

\* The difference of two readings is what was sent between them, when that is
\* less than the counters can hold.
LEMMA SentIsTraffic ==
    ASSUME StatsTypeOK, NEW total \in 0..(Modulus - 1), NEW n \in Nat, n < Modulus,
           Congruent(total, netStats.LastSent + n)
    PROVE  Sent(total) = n
<1> DEFINE lastSent == netStats.LastSent
<1>1. lastSent \in 0..(Modulus - 1) /\ Modulus \in Nat
  BY StatsAssumption DEF StatsTypeOK
<1> HIDE DEF lastSent
<1>2. Congruent(total + (Modulus - lastSent), lastSent + n + (Modulus - lastSent))
  <2>1. total \in Int /\ lastSent + n \in Int /\ Modulus - lastSent \in Int
    BY <1>1
  <2>2. Congruent(total, lastSent + n)
    BY DEF lastSent
  <2> QED
    BY <2>1, <2>2, CongruentAdds
<1>3. total + (Modulus - lastSent) = total + Modulus - lastSent
      /\ lastSent + n + (Modulus - lastSent) = n + Modulus
  BY <1>1
<1>4. Congruent(total + Modulus - lastSent, n + Modulus)
  BY <1>2, <1>3
<1>5. Congruent(n + Modulus, n)
  <2>1. (n + Modulus) - n = 1 * Modulus
    BY <1>1
  <2> QED
    BY <2>1 DEF Congruent
<1>6. Congruent(total + Modulus - lastSent, n)
  BY <1>1, <1>4, <1>5, CongruentCarries
<1>7. /\ Sent(total) \in 0..(Modulus - 1)
      /\ Congruent(Sent(total), total + Modulus - lastSent)
  BY <1>1, Remainders, SMTT(30) DEF Sent, lastSent
<1>8. Congruent(Sent(total), n)
  BY <1>1, <1>6, <1>7, CongruentCarries
<1> QED
  BY <1>1, <1>7, <1>8, CongruentSame

-----------------------------------------------------------------------------
\* A reading of the counters still counts.
Counting(c, at) == Counts(c, at, sentBytes, time)

\* What is sent between two goroutines' steps, and a fall of the counters,
\* leave a rate as it was.
LEMMA RatesStay ==
    ASSUME TimesArePast, NEW r \in PastRecords, RateIsTraffic(r),
           time \in Nat, time' \in Nat, time <= time',
           \A i \in 1..time : traffic'[i] = traffic[i],
           fell \subseteq fell'
    PROVE  RateIsTraffic(r)'
<1>1. r.from \in 0..time /\ r.to \in 0..time /\ r.from <= r.to
  BY DEF PastRecords, RateIsTraffic
<1>2. CASE r.from = NoTime
  BY <1>1, <1>2 DEF RateIsTraffic
<1>3. CASE r.from # NoTime
  <2>1. r.from \in 1..time /\ r.to \in 1..time
    BY <1>1, <1>3 DEF NoTime
  <2>2. traffic'[r.from] = traffic[r.from] /\ traffic'[r.to] = traffic[r.to]
    BY <2>1
  <2> QED
    BY <1>1, <2>2 DEF RateIsTraffic, Since, Unbroken
<1> QED
  BY <1>2, <1>3

\* A step that leaves what was counted and read.
LEMMA CountersKeep ==
    ASSUME StatsInv, StatsTypeOK', time <= time',
           UNCHANGED <<netStats, collect, stats, records>>,
           ~overlap' => ~overlap,
           \A i \in 1..time : traffic'[i] = traffic[i],
           \A i, j \in 1..time' : i <= j => traffic'[i] <= traffic'[j],
           fell \subseteq fell',
           \A c \in 0..(Modulus - 1), at \in 1..time : Counting(c, at) => Counting(c, at)'
    PROVE  StatsInv'
<1>1. time \in Nat /\ time' \in Nat
  BY DEF StatsInv, StatsTypeOK
<1>2. TimesArePast'
  <2>1. PastRecords \subseteq PastRecords'
    BY <1>1 DEF PastRecords
  <2>2. netStats'.LastTime <= time'
    BY <1>1 DEF StatsInv, StatsTypeOK, TimesArePast
  <2> QED
    BY <2>1, <2>2 DEF StatsInv, TimesArePast
<1>3. WindowIsLatest' /\ \A g \in Collections : Unread(g)'
  BY DEF StatsInv, WindowIsLatest, Unread
<1>4. ASSUME ~overlap'
      PROVE  /\ AloneIsAwake'
             /\ NetStatsCount'
             /\ \A g \in Collections : ReadingCounts(g)'
             /\ RecordsTell'
             /\ LastIsKept'
             /\ TimesMeet'
  <2>1. /\ AloneIsAwake /\ NetStatsCount /\ RecordsTell /\ LastIsKept /\ TimesMeet
        /\ \A g \in Collections : ReadingCounts(g)
        /\ ~overlap
    BY <1>4 DEF StatsInv
  <2>2. AloneIsAwake' /\ LastIsKept' /\ TimesMeet'
    BY <2>1 DEF AloneIsAwake, Collecting, LastIsKept, Appending, TimesMeet, LastReading
  <2>3. NetStatsCount'
    <3> SUFFICES ASSUME netStats.LastTime # NoTime
                 PROVE  Counting(netStats.LastSent, netStats.LastTime)'
      BY DEF NetStatsCount, Counting
    <3>1. netStats.LastSent \in 0..(Modulus - 1) /\ netStats.LastTime \in 1..time
      BY DEF StatsInv, StatsTypeOK, TimesArePast, NoTime
    <3>2. Counting(netStats.LastSent, netStats.LastTime)
      BY <2>1 DEF NetStatsCount, Counting
    <3> QED
      BY <3>1, <3>2
  <2>4. ASSUME NEW g \in Collections
        PROVE  ReadingCounts(g)'
    <3> DEFINE c == collect[g]
    <3> SUFFICES ASSUME c.pc # "sleep", IsReading(c.rec)
                 PROVE  ReadingCounts(g)'
      BY DEF ReadingCounts
    <3>1. /\ c \in Collectings /\ c.rec \in PastRecords
      BY DEF StatsInv, StatsTypeOK, TimesArePast
    <3>2. ReadingCounts(g)
      BY <2>1
    <3>3. c.rec.to \in 1..time /\ c.rec.from \in 0..time /\ c.total \in 0..(Modulus - 1)
      BY <3>1, <3>2 DEF Collectings, PastRecords, ReadingCounts, NoTime
    <3>4. c.pc # "append" => Counts(c.total, c.rec.to, sentBytes, time)'
      BY <3>2, <3>3 DEF ReadingCounts, Counting
    <3>5. c.pc # "rate" => RateIsTraffic(c.rec)'
      BY <1>1, <3>1, <3>2, RatesStay DEF ReadingCounts, StatsInv
    <3>6. c.pc = "rate" /\ netStats.LastTime # NoTime =>
             Counts(netStats.LastSent, netStats.LastTime, c.total, c.rec.to)'
      <4> SUFFICES ASSUME c.pc = "rate", netStats.LastTime # NoTime
                   PROVE  Counts(netStats.LastSent, netStats.LastTime, c.total, c.rec.to)'
        OBVIOUS
      <4>1. netStats.LastTime \in 1..time
        BY DEF StatsInv, StatsTypeOK, TimesArePast, NoTime
      <4>2. Since(netStats.LastTime, c.rec.to)' = Since(netStats.LastTime, c.rec.to)
        BY <3>3, <4>1 DEF Since
      <4>3. Counts(netStats.LastSent, netStats.LastTime, c.total, c.rec.to)
        BY <3>2 DEF ReadingCounts
      <4> QED
        BY <4>2, <4>3 DEF Counts, Unbroken
    <3> QED
      BY <3>2, <3>4, <3>5, <3>6 DEF ReadingCounts
  <2>5. RecordsTell'
    <3> SUFFICES ASSUME NEW i \in DOMAIN records
                 PROVE  RateIsTraffic(records[i])'
      BY DEF RecordsTell
    <3>1. records[i] \in PastRecords /\ RateIsTraffic(records[i])
      BY <2>1 DEF StatsInv, TimesArePast, RecordsTell
    <3> QED
      BY <1>1, <3>1, RatesStay DEF StatsInv
  <2> QED
    BY <2>2, <2>3, <2>4, <2>5
<1> QED
  BY <1>2, <1>3, <1>4 DEF StatsInv

\* The counters go up and around, and fall.
LEMMA EnvironmentKeeps ==
    ASSUME StatsInv, Environment, UNCHANGED <<netStats, collect, stats, records>>,
           overlap' \in BOOLEAN, ~overlap' => ~overlap
    PROVE  StatsInv'
<1> USE StatsAssumption
<1>1. /\ StatsTypeOK /\ TimesArePast
      /\ time \in Nat \ {0} /\ traffic \in Seq(Nat) /\ Len(traffic) = time
      /\ sentBytes \in 0..(Modulus - 1)
  BY DEF StatsInv, StatsTypeOK
<1>2. CASE UNCHANGED <<sentBytes, time, traffic, fell>>
  <2>1. hubThere' \in BOOLEAN
    BY <1>1, <1>2 DEF Environment, StatsTypeOK
  <2>2. StatsTypeOK'
    BY <1>1, <1>2, <2>1 DEF StatsTypeOK
  <2>3. \A i, j \in 1..time' : i <= j => traffic'[i] <= traffic'[j]
    BY <1>1, <1>2 DEF TimesArePast
  <2>4. \A c \in 0..(Modulus - 1), at \in 1..time : Counting(c, at) => Counting(c, at)'
    BY <1>2 DEF Counting, Counts, Unbroken, Since
  <2> QED
    BY <1>1, <1>2, <2>2, <2>3, <2>4, CountersKeep
<1>3. ASSUME NEW n \in 0..MaxTraffic, time' = time + 1,
             traffic' = Append(traffic, traffic[time] + n),
             sentBytes' = (sentBytes + n) % Modulus, UNCHANGED <<hubThere, fell>>
      PROVE  StatsInv'
  <2>1. /\ traffic' \in Seq(Nat) /\ Len(traffic') = time'
        /\ \A i \in 1..time : traffic'[i] = traffic[i] /\ traffic[i] \in Nat
        /\ traffic'[time'] = traffic[time] + n
    BY <1>1, <1>3
  <2>2. sentBytes' \in 0..(Modulus - 1) /\ Congruent(sentBytes', sentBytes + n)
    <3>1. sentBytes + n \in Int
      BY <1>1
    <3>2. /\ (sentBytes + n) % Modulus \in 0..(Modulus - 1)
          /\ Congruent((sentBytes + n) % Modulus, sentBytes + n)
      BY <3>1, Remainders
    <3> QED
      BY <1>3, <3>2
  <2>3. StatsTypeOK'
    BY <1>1, <1>3, <2>1, <2>2 DEF StatsTypeOK
  <2>4. ASSUME NEW i \in 1..time', NEW j \in 1..time', i <= j
        PROVE  traffic'[i] <= traffic'[j]
    <3>1. CASE j \in 1..time
      BY <1>1, <2>1, <2>4, <3>1 DEF TimesArePast
    <3>2. CASE j = time' /\ i \in 1..time
      <4>1. traffic[i] <= traffic[time]
        BY <1>1, <3>2 DEF TimesArePast
      <4> QED
        BY <1>1, <1>3, <2>1, <3>2, <4>1
    <3>3. CASE i = j
      <4>1. traffic'[i] \in Nat
        BY <1>1, <1>3, <2>1
      <4> QED
        BY <3>3, <4>1
    <3> QED
      BY <1>1, <1>3, <2>4, <3>1, <3>2, <3>3
  <2>5. ASSUME NEW c \in 0..(Modulus - 1), NEW at \in 1..time, Counting(c, at)
        PROVE  Counting(c, at)'
    <3> SUFFICES ASSUME Unbroken(at, time)'
                 PROVE  Congruent(sentBytes', c + Since(at, time)')
      BY DEF Counting, Counts
    <3>1. Unbroken(at, time)
      BY <1>1, <1>3 DEF Unbroken
    <3>2. Congruent(sentBytes, c + Since(at, time))
      BY <2>5, <3>1 DEF Counting, Counts
    <3>3. /\ Since(at, time) \in Int
          /\ Since(at, time)' = Since(at, time) + n
      BY <1>1, <1>3, <2>1 DEF Since
    <3>4. Congruent(sentBytes + n, c + Since(at, time) + n)
      <4>1. sentBytes \in Int /\ c + Since(at, time) \in Int /\ n \in Int
        BY <1>1, <3>3
      <4> QED
        BY <3>2, <4>1, CongruentAdds
    <3>5. c + Since(at, time) + n = c + Since(at, time)'
      BY <3>3
    <3>6. Congruent(sentBytes + n, c + Since(at, time)')
      BY <3>4, <3>5
    <3> QED
      BY <1>1, <2>2, <3>3, <3>6, CongruentCarries
  <2>6. time <= time' /\ fell \subseteq fell'
    BY <1>1, <1>3
  <2>7. \A i \in 1..time : traffic'[i] = traffic[i]
    BY <2>1
  <2> QED
    BY <2>3, <2>4, <2>5, <2>6, <2>7, CountersKeep
<1>4. CASE /\ sentBytes > 0 /\ sentBytes' \in 0..(sentBytes - 1)
           /\ fell' = fell \union {time} /\ UNCHANGED <<hubThere, time, traffic>>
  <2>1. StatsTypeOK'
    BY <1>1, <1>4 DEF StatsTypeOK
  <2>2. \A c \in 0..(Modulus - 1), at \in 1..time : ~Unbroken(at, time)'
    BY <1>1, <1>4 DEF Unbroken
  <2>3. \A c \in 0..(Modulus - 1), at \in 1..time : Counting(c, at) => Counting(c, at)'
    BY <2>2 DEF Counting, Counts
  <2>4. \A i, j \in 1..time' : i <= j => traffic'[i] <= traffic'[j]
    BY <1>1, <1>4 DEF TimesArePast
  <2>5. time <= time' /\ fell \subseteq fell' /\ \A i \in 1..time : traffic'[i] = traffic[i]
    BY <1>1, <1>4
  <2> QED
    BY <2>1, <2>3, <2>4, <2>5, CountersKeep
<1>5. CASE time' = time + 1
  <2>1. PICK n \in 0..MaxTraffic : /\ traffic' = Append(traffic, traffic[time] + n)
                                   /\ sentBytes' = (sentBytes + n) % Modulus
                                   /\ UNCHANGED <<hubThere, fell>>
    BY <1>1, <1>5 DEF Environment
  <2> QED
    BY <1>3, <1>5, <2>1
<1> QED
  BY <1>2, <1>4, <1>5 DEF Environment

-----------------------------------------------------------------------------
Surroundings == <<hubThere, sentBytes, time, traffic, fell>>

\* A step of one goroutine.
LEMMA CollectMoves ==
    ASSUME StatsInv, NEW g \in Collections, NEW r \in Collectings, CollectStep(g, r)
    PROVE  /\ collect' \in [Collections -> Collectings] /\ collect'[g] = r
           /\ \A h \in Collections : h # g => collect'[h] = collect[h]
BY DEF StatsInv, StatsTypeOK, CollectStep

\* As long as no two were awake, the others sleep before and after the step of
\* a goroutine that is awake.
LEMMA OthersSleep ==
    ASSUME StatsInv, NEW g \in Collections, NEW r \in Collectings, CollectStep(g, r),
           ~overlap' => ~overlap /\ AloneIsAwake', ~overlap',
           collect[g].pc # "sleep" \/ r.pc # "sleep"
    PROVE  /\ \A h \in Collections : h # g => /\ collect'[h] = collect[h]
                                              /\ collect[h].pc = "sleep"
           /\ AloneIsAwake /\ NetStatsCount /\ RecordsTell /\ LastIsKept /\ TimesMeet
           /\ \A h \in Collections : ReadingCounts(h)
<1>1. /\ AloneIsAwake /\ AloneIsAwake'
      /\ NetStatsCount /\ RecordsTell /\ LastIsKept /\ TimesMeet
      /\ \A h \in Collections : ReadingCounts(h)
  BY DEF StatsInv
<1>2. /\ collect'[g] = r
      /\ \A h \in Collections : h # g => collect'[h] = collect[h]
  BY CollectMoves
<1> QED
  BY <1>1, <1>2 DEF AloneIsAwake, Collecting

\* A step of one goroutine keeps what it does not write to.
LEMMA CollectKeeps ==
    ASSUME StatsInv, NEW g \in Collections, NEW r \in Collectings, CollectStep(g, r),
           UNCHANGED Surroundings, StatsTypeOK', netStats'.LastTime <= time,
           r.rec \in PastRecords, Unread(g)',
           WindowIsLatest', \A i \in DOMAIN records' : records'[i] \in PastRecords,
           ~overlap' => /\ AloneIsAwake'
                        /\ NetStatsCount'
                        /\ ReadingCounts(g)'
                        /\ \A h \in Collections : h # g => collect'[h].pc = "sleep"
                        /\ RecordsTell'
                        /\ LastIsKept'
                        /\ TimesMeet'
    PROVE  StatsInv'
<1>1. /\ collect'[g] = r
      /\ \A h \in Collections : h # g => collect'[h] = collect[h]
  BY CollectMoves
<1>2. PastRecords' = PastRecords
  BY DEF PastRecords, Surroundings
<1>3. TimesArePast'
  <2>1. \A h \in Collections : collect'[h].rec \in PastRecords
    BY <1>1 DEF StatsInv, TimesArePast
  <2>2. \A i, j \in 1..time' : i <= j => traffic'[i] <= traffic'[j]
    BY DEF StatsInv, TimesArePast, Surroundings
  <2>3. netStats'.LastTime <= time'
    BY DEF Surroundings
  <2> QED
    BY <1>2, <2>1, <2>2, <2>3 DEF TimesArePast
<1>4. \A h \in Collections : Unread(h)'
  <2>1. ASSUME NEW h \in Collections, h # g PROVE Unread(h)'
    BY <1>1, <2>1 DEF StatsInv, Unread
  <2> QED
    BY <2>1
<1>5. ~overlap' => \A h \in Collections : ReadingCounts(h)'
  <2>1. ASSUME ~overlap', NEW h \in Collections, h # g PROVE ReadingCounts(h)'
    BY <2>1 DEF ReadingCounts
  <2> QED
    BY <2>1
<1> QED
  BY <1>3, <1>4, <1>5 DEF StatsInv

\* Where nothing is kept of the records, the last reading is the same.
LEMMA LastReadingStays ==
    ASSUME StatsTypeOK, StatsTypeOK', NEW i \in 1..(Len(records) + 1), NEW t,
           \A j \in DOMAIN records : records'[j] = records[j]
    PROVE  LastReading(i, t)' <=> LastReading(i, t)
<1>1. \A j \in 1..(i - 1) : j \in DOMAIN records
  BY DEF StatsTypeOK
<1> QED
  BY <1>1 DEF LastReading

\* The counters are read, or there is no hub.
LEMMA ReadCountersKeeps ==
    ASSUME StatsInv, NEW g \in Collections, ReadCounters(g), UNCHANGED Surroundings,
           overlap' \in BOOLEAN, ~overlap' => ~overlap /\ AloneIsAwake'
    PROVE  StatsInv'
<1> USE StatsAssumption
<1>1. /\ StatsTypeOK /\ TimesArePast /\ time \in Nat \ {0} /\ collect[g] \in Collectings
      /\ sentBytes \in 0..(Modulus - 1) /\ collect[g].pc = "sleep"
      /\ UNCHANGED <<netStats, stats, records>>
  BY DEF StatsInv, StatsTypeOK, ReadCounters, Collecting
<1>2. WindowIsLatest'
  BY <1>1 DEF StatsInv, WindowIsLatest
<1>3. PICK r \in Collectings :
        /\ CollectStep(g, r) /\ r.rec \in PastRecords
        /\ \/ r.pc = "append" /\ r.rec = NoRecord
           \/ /\ r.pc = "rate" /\ r.total = sentBytes /\ IsReading(r.rec)
              /\ r.rec.to = time /\ r.rec.from = NoTime
  <2>1. CASE CollectStep(g, [Resting EXCEPT !.pc = "append"])
    <3> DEFINE r == [Resting EXCEPT !.pc = "append"]
    <3>1. NoRecord \in Records /\ NoRecord \in PastRecords
      BY <1>1 DEF NoRecord, Records, PastRecords, NoTime
    <3>2. r = [pc |-> "append", total |-> 0, rec |-> NoRecord]
      BY DEF Resting
    <3>3. r \in Collectings /\ r.pc = "append" /\ r.rec = NoRecord
      BY <3>1, <3>2 DEF Collectings, Steps
    <3> QED
      BY <2>1, <3>1, <3>3
  <2>2. CASE CollectStep(g, [pc |-> "rate", total |-> sentBytes, rec |-> [NoRecord EXCEPT !.to = time]])
    <3> DEFINE rec == [NoRecord EXCEPT !.to = time]
               r == [pc |-> "rate", total |-> sentBytes, rec |-> rec]
    <3>1. rec \in Records /\ rec \in PastRecords /\ IsReading(rec) /\ rec.to = time /\ rec.from = NoTime
      BY <1>1 DEF NoRecord, IsReading, Records, PastRecords, NoTime
    <3> HIDE DEF rec
    <3>2. r \in Collectings /\ r.pc = "rate" /\ r.total = sentBytes /\ r.rec = rec
      BY <1>1, <3>1 DEF Collectings, Steps
    <3> HIDE DEF r
    <3>3. CollectStep(g, r)
      BY <2>2 DEF r, rec
    <3> QED
      BY <3>1, <3>2, <3>3
  <2> QED
    BY <2>1, <2>2 DEF ReadCounters
<1>4. /\ collect' \in [Collections -> Collectings] /\ collect'[g] = r
      /\ \A h \in Collections : h # g => collect'[h] = collect[h]
  BY <1>3, CollectMoves
<1>5. StatsTypeOK'
  BY <1>1, <1>4 DEF StatsTypeOK, Surroundings
<1>6. Unread(g)'
  BY <1>3, <1>4 DEF Unread, NoRecord
<1>7. netStats'.LastTime <= time /\ \A i \in DOMAIN records' : records'[i] \in PastRecords
  BY <1>1 DEF TimesArePast
<1>8. ASSUME ~overlap'
      PROVE  /\ AloneIsAwake' /\ NetStatsCount' /\ ReadingCounts(g)'
             /\ \A h \in Collections : h # g => collect'[h].pc = "sleep"
             /\ RecordsTell' /\ LastIsKept' /\ TimesMeet'
  <2>1. /\ \A h \in Collections : h # g => collect'[h] = collect[h] /\ collect[h].pc = "sleep"
        /\ NetStatsCount /\ RecordsTell /\ LastIsKept /\ TimesMeet
    BY <1>3, <1>8, OthersSleep
  <2>2. NetStatsCount' /\ RecordsTell' /\ TimesMeet'
    BY <1>1, <2>1 DEF NetStatsCount, Counts, Unbroken, Since, RecordsTell, RateIsTraffic,
                      TimesMeet, LastReading, Surroundings
  <2>3. LastIsKept'
    <3>1. \A h \in Collections : ~Appending(h) /\ ~Appending(h)'
      BY <1>1, <1>3, <1>4, <2>1 DEF Appending, Collecting, NoRecord, IsReading
    <3> QED
      BY <1>1, <2>1, <3>1 DEF LastIsKept, LastReading
  <2>4. ReadingCounts(g)'
    <3>1. CASE r.pc = "append"
      BY <1>3, <1>4, <3>1 DEF ReadingCounts, NoRecord, IsReading
    <3>2. CASE r.pc = "rate"
      <4>1. /\ r.total = sentBytes /\ r.rec.to = time /\ r.rec.from = NoTime
            /\ netStats.LastTime <= time
        BY <1>1, <1>3, <3>2 DEF TimesArePast, NoRecord
      <4>2. Counts(sentBytes, time, sentBytes, time)'
        <5>1. traffic[time] \in Nat
          BY <1>1 DEF StatsTypeOK
        <5>2. sentBytes + Since(time, time) = sentBytes /\ sentBytes \in Int
          BY <1>1, <5>1 DEF Since
        <5>3. Congruent(sentBytes, sentBytes + Since(time, time))
          BY <5>2, CongruentItself
        <5> QED
          BY <5>3 DEF Counts, Since, Surroundings
      <4>3. netStats.LastTime # NoTime =>
               Counts(netStats.LastSent, netStats.LastTime, sentBytes, time)'
        BY <1>1, <2>2 DEF NetStatsCount
      <4> QED
        BY <1>1, <1>4, <3>2, <4>1, <4>2, <4>3 DEF ReadingCounts, NoTime, Surroundings
    <3> QED
      BY <1>3, <3>1, <3>2
  <2> QED
    BY <1>8, <2>1, <2>2, <2>3, <2>4
<1> QED
  BY <1>2, <1>3, <1>5, <1>6, <1>7, <1>8, CollectKeeps

\* The rates are worked out from this and the last reading.
LEMMA RateKeeps ==
    ASSUME StatsInv, NEW g \in Collections, Rate(g), UNCHANGED Surroundings,
           overlap' \in BOOLEAN, ~overlap' => ~overlap /\ AloneIsAwake'
    PROVE  StatsInv'
<1> USE StatsAssumption
<1> DEFINE c == collect[g]
<1>1. /\ StatsTypeOK /\ TimesArePast /\ time \in Nat \ {0} /\ c \in Collectings
      /\ c.pc = "rate" /\ IsReading(c.rec) /\ c.rec \in PastRecords /\ c.rec \in Records
      /\ c.total \in 0..(Modulus - 1)
      /\ netStats.LastSent \in 0..(Modulus - 1) /\ netStats.LastTime \in 0..time
      /\ UNCHANGED <<netStats, stats, records>>
  BY DEF StatsInv, StatsTypeOK, Rate, Collecting, Collectings, Unread, TimesArePast
<1>2. WindowIsLatest'
  BY <1>1 DEF StatsInv, WindowIsLatest
<1>3. PICK rec \in Records :
        /\ CollectStep(g, [c EXCEPT !.pc = "update", !.rec = rec])
        /\ rec \in PastRecords /\ IsReading(rec) /\ rec.to = c.rec.to
        /\ netStats.LastTime = NoTime => rec.from = c.rec.from
        /\ netStats.LastTime # NoTime => rec.from = netStats.LastTime /\ rec.sent = Sent(c.total)
  <2>1. CASE netStats.LastTime = NoTime
    BY <1>1, <2>1 DEF Rate
  <2>2. CASE netStats.LastTime # NoTime
    <3> DEFINE rec == [from |-> netStats.LastTime, to |-> c.rec.to, sent |-> Sent(c.total)]
    <3>1. Sent(c.total) \in Nat
      BY <1>1 DEF Sent
    <3>2. rec \in Records
      BY <1>1, <3>1 DEF Records
    <3>3. /\ rec.to = c.rec.to /\ rec.from = netStats.LastTime
          /\ rec.sent = Sent(c.total)
      BY <1>1 DEF Records
    <3>4. rec \in PastRecords
      BY <1>1, <3>2, <3>3 DEF Records, PastRecords
    <3>5. CollectStep(g, [c EXCEPT !.pc = "update", !.rec = rec])
      BY <2>2 DEF Rate
    <3>6. IsReading(rec)
      BY <1>1, <3>3 DEF IsReading
    <3> HIDE DEF rec
    <3> QED
      BY <1>1, <2>2, <3>6, <3>2, <3>3, <3>4, <3>5
  <2> QED
    BY <2>1, <2>2
<1>4. PICK r \in Collectings :
        CollectStep(g, r) /\ r.pc = "update" /\ r.total = c.total /\ r.rec = rec
  <2> DEFINE r == [c EXCEPT !.pc = "update", !.rec = rec]
  <2>1. r \in Collectings /\ r.pc = "update" /\ r.total = c.total /\ r.rec = rec
    BY <1>1, <1>3 DEF Collectings, Steps
  <2> QED
    BY <1>3, <2>1
<1>5. /\ collect' \in [Collections -> Collectings] /\ collect'[g] = r
      /\ \A h \in Collections : h # g => collect'[h] = collect[h]
  BY <1>4, CollectMoves
<1>6. StatsTypeOK'
  BY <1>1, <1>5 DEF StatsTypeOK, Surroundings
<1>7. Unread(g)'
  BY <1>3, <1>4, <1>5 DEF Unread
<1>8. netStats'.LastTime <= time /\ \A i \in DOMAIN records' : records'[i] \in PastRecords
  BY <1>1 DEF TimesArePast
<1>9. ASSUME ~overlap'
      PROVE  /\ AloneIsAwake' /\ NetStatsCount' /\ ReadingCounts(g)'
             /\ \A h \in Collections : h # g => collect'[h].pc = "sleep"
             /\ RecordsTell' /\ LastIsKept' /\ TimesMeet'
  <2>1. /\ \A h \in Collections : h # g => collect'[h] = collect[h] /\ collect[h].pc = "sleep"
        /\ NetStatsCount /\ RecordsTell /\ LastIsKept /\ TimesMeet /\ ReadingCounts(g)
    BY <1>1, <1>4, <1>9, OthersSleep
  <2>2. NetStatsCount' /\ RecordsTell' /\ TimesMeet'
    BY <1>1, <2>1 DEF NetStatsCount, Counts, Unbroken, Since, RecordsTell, RateIsTraffic,
                      TimesMeet, LastReading, Surroundings
  <2>3. LastIsKept'
    <3>1. \A h \in Collections : ~Appending(h) /\ ~Appending(h)'
      BY <1>1, <1>4, <1>5, <2>1 DEF Appending, Collecting
    <3> QED
      BY <1>1, <2>1, <3>1 DEF LastIsKept, LastReading
  <2>4. /\ c.rec.to \in 1..time /\ netStats.LastTime <= c.rec.to /\ c.rec.from = NoTime
        /\ Counts(c.total, c.rec.to, sentBytes, time)
        /\ netStats.LastTime # NoTime =>
             Counts(netStats.LastSent, netStats.LastTime, c.total, c.rec.to)
    BY <1>1, <2>1 DEF ReadingCounts, PastRecords, NoTime
  <2>5. RateIsTraffic(rec)
    <3>1. CASE netStats.LastTime = NoTime
      BY <1>1, <1>3, <2>4, <3>1 DEF RateIsTraffic, NoTime
    <3>2. CASE netStats.LastTime # NoTime
      <4> DEFINE n == Since(netStats.LastTime, c.rec.to)
      <4>1. n \in Nat
        <5>1. netStats.LastTime \in 1..time /\ c.rec.to \in 1..time
          BY <1>1, <2>4, <3>2 DEF NoTime
        <5>2. /\ traffic[netStats.LastTime] \in Nat /\ traffic[c.rec.to] \in Nat
              /\ traffic[netStats.LastTime] <= traffic[c.rec.to]
          <6>1. traffic \in Seq(Nat) /\ Len(traffic) = time /\ time \in Nat
            BY <1>1 DEF StatsTypeOK
          <6>2. traffic[netStats.LastTime] \in Nat /\ traffic[c.rec.to] \in Nat
            BY <5>1, <6>1
          <6>3. traffic[netStats.LastTime] <= traffic[c.rec.to]
            BY <1>1, <2>4, <5>1 DEF TimesArePast
          <6> QED
            BY <6>2, <6>3
        <5> QED
          BY <5>2 DEF Since
      <4>2. ASSUME n < Modulus, Unbroken(netStats.LastTime, c.rec.to)
            PROVE  Sent(c.total) = n
        <5>1. Congruent(c.total, netStats.LastSent + n)
          BY <2>4, <3>2, <4>2 DEF Counts
        <5> HIDE DEF n
        <5> QED
          BY <1>1, <4>1, <4>2, <5>1, SentIsTraffic
      <4> QED
        BY <1>3, <2>4, <3>2, <4>2 DEF RateIsTraffic
    <3> QED
      BY <3>1, <3>2
  <2>6. RateIsTraffic(rec)' /\ Counts(r.total, r.rec.to, sentBytes, time)'
    BY <1>3, <1>4, <2>4, <2>5 DEF RateIsTraffic, Counts, Since, Unbroken, Surroundings
  <2>7. rec.from = netStats.LastTime
    BY <1>3, <2>4
  <2>8. ReadingCounts(g)'
    BY <1>1, <1>3, <1>4, <1>5, <2>4, <2>6, <2>7 DEF ReadingCounts, NoTime, Surroundings
  <2> QED
    BY <1>9, <2>1, <2>2, <2>3, <2>8
<1> QED
  BY <1>2, <1>3, <1>4, <1>6, <1>7, <1>8, <1>9, CollectKeeps

\* The reading becomes the last one.
LEMMA UpdateNetStatsKeeps ==
    ASSUME StatsInv, NEW g \in Collections, UpdateNetStats(g), UNCHANGED Surroundings,
           overlap' \in BOOLEAN, ~overlap' => ~overlap /\ AloneIsAwake'
    PROVE  StatsInv'
<1> USE StatsAssumption
<1> DEFINE c == collect[g]
<1>1. /\ StatsTypeOK /\ TimesArePast /\ time \in Nat \ {0} /\ c \in Collectings
      /\ c.pc = "update" /\ IsReading(c.rec) /\ c.rec \in PastRecords /\ c.rec \in Records
      /\ c.total \in 0..(Modulus - 1)
      /\ netStats' = [LastSent |-> c.total, LastTime |-> c.rec.to]
      /\ UNCHANGED <<stats, records>>
  BY DEF StatsInv, StatsTypeOK, UpdateNetStats, Collecting, Collectings, Unread, TimesArePast
<1>2. WindowIsLatest'
  BY <1>1 DEF StatsInv, WindowIsLatest
<1>3. c.rec.to \in 0..time
  BY <1>1 DEF PastRecords
<1>4. PICK r \in Collectings :
        CollectStep(g, r) /\ r.pc = "append" /\ r.total = c.total /\ r.rec = c.rec
  <2> DEFINE r == [c EXCEPT !.pc = "append"]
  <2>1. r \in Collectings /\ r.pc = "append" /\ r.total = c.total /\ r.rec = c.rec
    BY <1>1 DEF Collectings, Steps
  <2> QED
    BY <2>1 DEF UpdateNetStats
<1>5. /\ collect' \in [Collections -> Collectings] /\ collect'[g] = r
      /\ \A h \in Collections : h # g => collect'[h] = collect[h]
  BY <1>4, CollectMoves
<1>6. StatsTypeOK'
  <2>1. netStats' \in [LastSent : 0..(Modulus - 1), LastTime : Nat]
    BY <1>1, <1>3
  <2> QED
    BY <1>1, <1>5, <2>1 DEF StatsTypeOK, Surroundings
<1>7. Unread(g)'
  BY <1>1, <1>4, <1>5 DEF Unread
<1>8. netStats'.LastTime <= time /\ \A i \in DOMAIN records' : records'[i] \in PastRecords
  BY <1>1, <1>3 DEF TimesArePast
<1>9. ASSUME ~overlap'
      PROVE  /\ AloneIsAwake' /\ NetStatsCount' /\ ReadingCounts(g)'
             /\ \A h \in Collections : h # g => collect'[h].pc = "sleep"
             /\ RecordsTell' /\ LastIsKept' /\ TimesMeet'
  <2>1. /\ \A h \in Collections : h # g => collect'[h] = collect[h] /\ collect[h].pc = "sleep"
        /\ NetStatsCount /\ RecordsTell /\ LastIsKept /\ TimesMeet /\ ReadingCounts(g)
    BY <1>1, <1>4, <1>9, OthersSleep
  <2>2. RecordsTell' /\ TimesMeet'
    BY <1>1, <2>1 DEF Unbroken, Since, RecordsTell, RateIsTraffic,
                      TimesMeet, LastReading, Surroundings
  <2>3. /\ c.rec.to # NoTime /\ c.rec.from = netStats.LastTime
        /\ Counts(c.total, c.rec.to, sentBytes, time) /\ RateIsTraffic(c.rec)
    BY <1>1, <2>1 DEF ReadingCounts
  <2>4. Counts(r.total, r.rec.to, sentBytes, time)' /\ RateIsTraffic(r.rec)'
    BY <1>4, <2>3 DEF RateIsTraffic, Counts, Since, Unbroken, Surroundings
  <2>5. NetStatsCount'
    BY <1>1, <1>4, <2>4 DEF NetStatsCount, Counts, Since, Unbroken, Surroundings
  <2>6. LastIsKept'
    <3>1. \A h \in Collections : ~Appending(h) /\ (h # g => ~Appending(h)')
      BY <1>1, <2>1 DEF Appending, Collecting
    <3>2. LastReading(Len(records) + 1, netStats.LastTime)
      BY <2>1, <3>1 DEF LastIsKept
    <3>3. Appending(g)' /\ LastReading(Len(records) + 1, r.rec.from)'
      BY <1>1, <1>4, <1>5, <2>3, <3>2 DEF Appending, Collecting, LastReading
    <3> QED
      BY <1>5, <3>1, <3>3 DEF LastIsKept
  <2>7. ReadingCounts(g)'
    BY <1>1, <1>3, <1>4, <1>5, <2>3, <2>4 DEF ReadingCounts, NoTime, Surroundings
  <2> QED
    BY <1>9, <2>1, <2>2, <2>5, <2>6, <2>7
<1> QED
  BY <1>1, <1>2, <1>4, <1>6, <1>7, <1>8, <1>9, CollectKeeps

\* How many of so many records the window can hold.
Held(n) == IF n < capacity THEN n ELSE capacity

\* The window has so many of the latest records as it has places.
LEMMA LatestOfIs ==
    ASSUME NEW s \in Seq(Records), NEW n, n = Len(s)
    PROVE  /\ LatestOf(s) \in Seq(Records) /\ Len(LatestOf(s)) = Held(n)
           /\ \A i \in 1..Held(n) : LatestOf(s)[i] = s[n - Held(n) + i]
<1> USE StatsAssumption
<1> DEFINE from == n - Held(n) + 1
<1>1. n \in Nat /\ Held(n) \in 0..n /\ from \in 1..(n + 1)
  <2>1. n \in Nat /\ capacity \in Nat
    OBVIOUS
  <2>2. Held(n) \in 0..n
    BY <2>1 DEF Held
  <2> QED
    BY <2>1, <2>2
<1>2. LatestOf(s) = SubSeq(s, from, n)
  BY DEF LatestOf, Held
<1>3. from - 1 <= n /\ n - from + 1 = Held(n) /\ n \in (from - 1)..Len(s)
  BY <1>1
<1> HIDE DEF from
<1>4. \A i \in from..n : s[i] \in Records
  BY <1>1
<1>5. /\ SubSeq(s, from, n) \in Seq(Records)
      /\ Len(SubSeq(s, from, n)) = Held(n)
      /\ \A i \in 1..Held(n) : SubSeq(s, from, n)[i] = s[from + i - 1]
  BY <1>1, <1>3, SubSeqProperties
<1>6. \A i \in 1..Held(n) : from + i - 1 = n - Held(n) + i
  BY <1>1 DEF from
<1> QED
  BY <1>2, <1>5, <1>6

\* The window stays the end of the records.
LEMMA WindowSlides ==
    ASSUME NEW s \in Seq(Records), NEW w, w = LatestOf(s), NEW r \in Records
    PROVE  /\ Window(Append(w, r)) = LatestOf(Append(s, r))
           /\ Window(Append(w, r)) \in Seq(Records)
<1> USE StatsAssumption
<1>1. PICK n, m : n = Len(s) /\ n \in Nat /\ m = n + 1 /\ m \in Nat
  OBVIOUS
<1>2. /\ w \in Seq(Records) /\ Len(w) = Held(n)
      /\ \A i \in 1..Held(n) : w[i] = s[n - Held(n) + i]
  BY <1>1, LatestOfIs
<1>3. /\ Append(s, r) \in Seq(Records) /\ Len(Append(s, r)) = n + 1
      /\ Append(s, r)[n + 1] = r
      /\ \A i \in 1..n : Append(s, r)[i] = s[i]
  BY <1>1, AppendProperties
<1>4. PICK next, end : next = Append(s, r) /\ end = LatestOf(next)
  OBVIOUS
<1>5. /\ end \in Seq(Records) /\ Len(end) = Held(m)
      /\ \A i \in 1..Held(m) : end[i] = next[m - Held(m) + i]
  <2>1. next \in Seq(Records) /\ m = Len(next)
    BY <1>1, <1>3, <1>4
  <2> QED
    BY <1>4, <2>1, LatestOfIs, ZenonT(40)
<1>6. PICK more : more = Append(w, r)
  OBVIOUS
<1>7. /\ more \in Seq(Records) /\ Len(more) = Held(n) + 1 /\ more[Held(n) + 1] = r
      /\ \A i \in 1..Held(n) : more[i] = w[i]
  BY <1>2, <1>6, AppendProperties
<1>8. CASE n < capacity
  <2>1. Held(n) = n /\ Held(m) = n + 1 /\ Window(more) = more
    BY <1>1, <1>7, <1>8 DEF Held, Window
  <2>2. ASSUME NEW i \in 1..(n + 1) PROVE more[i] = end[i]
    <3>1. m - Held(m) + i = i
      BY <1>1, <2>1
    <3>2. end[i] = next[i]
      BY <1>1, <1>5, <2>1, <3>1
    <3>3. CASE i = n + 1
      BY <1>3, <1>4, <1>7, <2>1, <3>2, <3>3
    <3>4. CASE i \in 1..n
      <4>1. n - Held(n) + i = i
        BY <1>1, <2>1
      <4> QED
        BY <1>2, <1>3, <1>4, <1>7, <2>1, <3>2, <3>4, <4>1
    <3> QED
      BY <1>1, <3>3, <3>4
  <2>3. more = end
    BY <1>5, <1>7, <2>1, <2>2, SeqEqual
  <2> QED
    BY <1>4, <1>5, <1>6, <2>1, <2>3
<1>9. CASE n >= capacity
  <2>1. Held(n) = capacity /\ Held(m) = capacity /\ Window(more) = Tail(more)
    BY <1>1, <1>7, <1>9 DEF Held, Window
  <2>2. PICK rest : rest = Tail(more)
    OBVIOUS
  <2>3. /\ rest \in Seq(Records) /\ Len(rest) = capacity
        /\ \A i \in 1..capacity : rest[i] = more[i + 1]
    <3>1. more # <<>>
      BY <1>7, <2>1
    <3>2. Len(more) - 1 = capacity
      BY <1>7, <2>1
    <3> QED
      BY <1>7, <2>2, <3>1, <3>2, HeadTailProperties
  <2>4. ASSUME NEW i \in 1..capacity PROVE rest[i] = end[i]
    <3>1. PICK k : k = n + 1 - capacity + i /\ k \in 1..(n + 1)
      BY <1>1, <1>9
    <3>2. end[i] = next[k]
      BY <1>1, <1>5, <2>1, <3>1
    <3>3. CASE i = capacity
      <4>1. k = n + 1
        BY <1>1, <3>1, <3>3
      <4> QED
        BY <1>3, <1>4, <1>7, <2>1, <2>3, <3>2, <3>3, <4>1
    <3>4. CASE i + 1 \in 1..capacity
      <4>1. n - capacity + (i + 1) = k /\ k \in 1..n
        BY <1>1, <1>9, <3>1, <3>4
      <4>2. rest[i] = w[i + 1]
        BY <1>7, <2>1, <2>3, <3>4
      <4>3. w[i + 1] = s[k]
        BY <1>2, <2>1, <3>4, <4>1
      <4> QED
        BY <1>3, <1>4, <3>2, <4>1, <4>2, <4>3
    <3> QED
      BY <3>3, <3>4
  <2>5. rest = end
    BY <1>5, <2>1, <2>3, <2>4, SeqEqual
  <2> QED
    BY <1>4, <1>5, <1>6, <2>1, <2>2, <2>5
<1> QED
  BY <1>1, <1>8, <1>9

\* The record is added to the window.
LEMMA AppendRecordKeeps ==
    ASSUME StatsInv, NEW g \in Collections, AppendRecord(g), UNCHANGED Surroundings,
           overlap' \in BOOLEAN, ~overlap' => ~overlap /\ AloneIsAwake'
    PROVE  StatsInv'
<1> USE StatsAssumption
<1> DEFINE c == collect[g]
<1>0. PICK n : n = Len(records)
  OBVIOUS
<1>1. /\ StatsTypeOK /\ TimesArePast /\ time \in Nat \ {0} /\ c \in Collectings
      /\ c.pc = "append" /\ c.rec \in PastRecords /\ c.rec \in Records
      /\ CollectStep(g, Resting) /\ netStats' = netStats
      /\ records' = Append(records, c.rec) /\ stats' = Window(Append(stats, c.rec))
      /\ records \in Seq(Records) /\ n \in Nat
  BY <1>0 DEF StatsInv, StatsTypeOK, AppendRecord, Collecting, Collectings, TimesArePast
<1>2. WindowIsLatest' /\ stats' \in Seq(Records) /\ records' \in Seq(Records)
  <2>1. stats = LatestOf(records)
    BY DEF StatsInv, WindowIsLatest
  <2>2. /\ stats' = LatestOf(Append(records, c.rec))
        /\ Window(Append(stats, c.rec)) \in Seq(Records)
    BY <1>1, <2>1, WindowSlides
  <2>3. WindowIsLatest'
    BY <1>1, <2>2 DEF WindowIsLatest, LatestOf
  <2> QED
    BY <1>1, <2>2, <2>3
<1>3. /\ Resting \in Collectings /\ Resting.pc = "sleep" /\ Resting.rec = NoRecord
      /\ NoRecord \in PastRecords /\ ~IsReading(NoRecord)
  BY <1>1 DEF Resting, NoRecord, Collectings, Steps, Records, PastRecords, NoTime, IsReading
<1>4. /\ collect' \in [Collections -> Collectings] /\ collect'[g] = Resting
      /\ \A h \in Collections : h # g => collect'[h] = collect[h]
  BY <1>1, <1>3, CollectMoves
<1>5. StatsTypeOK'
  BY <1>1, <1>2, <1>4 DEF StatsTypeOK, Surroundings
<1>6. Unread(g)'
  BY <1>3, <1>4 DEF Unread
<1>7. /\ Len(records') = n + 1 /\ DOMAIN records' = 1..(n + 1)
      /\ \A i \in 1..n : i \in DOMAIN records /\ records'[i] = records[i]
      /\ records'[n + 1] = c.rec
  BY <1>0, <1>1, <1>2
<1>8. \A i \in DOMAIN records' : records'[i] \in PastRecords
  BY <1>1, <1>7 DEF TimesArePast
<1>9. netStats'.LastTime <= time
  BY <1>1 DEF TimesArePast
<1>10. ASSUME NEW t, NEW i \in 1..(n + 1)
       PROVE  LastReading(i, t)' <=> LastReading(i, t)
  BY <1>0, <1>1, <1>5, <1>7, LastReadingStays
<1>11. ASSUME ~overlap'
       PROVE  /\ AloneIsAwake' /\ NetStatsCount' /\ ReadingCounts(g)'
              /\ \A h \in Collections : h # g => collect'[h].pc = "sleep"
              /\ RecordsTell' /\ LastIsKept' /\ TimesMeet'
  <2>1. /\ \A h \in Collections : h # g => collect'[h] = collect[h] /\ collect[h].pc = "sleep"
        /\ NetStatsCount /\ RecordsTell /\ LastIsKept /\ TimesMeet /\ ReadingCounts(g)
        /\ ~overlap
    BY <1>1, <1>3, <1>11, OthersSleep
  <2>2. NetStatsCount' /\ ReadingCounts(g)'
    BY <1>1, <1>3, <1>4, <2>1 DEF NetStatsCount, Counts, Unbroken, Since, ReadingCounts, Surroundings
  <2>3. IsReading(c.rec) \/ c.rec = NoRecord
    BY DEF StatsInv, Unread
  <2>4. RecordsTell'
    <3>1. RateIsTraffic(c.rec)
      <4>1. CASE IsReading(c.rec)
        BY <1>1, <2>1, <4>1 DEF ReadingCounts
      <4>2. CASE c.rec = NoRecord
        BY <4>2 DEF RateIsTraffic, NoRecord, NoTime
      <4> QED
        BY <2>3, <4>1, <4>2
    <3>2. ASSUME NEW i \in 1..(n + 1) PROVE RateIsTraffic(records'[i])
      <4>1. i = n + 1 \/ i \in 1..n
        BY <1>0, <1>1
      <4> QED
        BY <1>7, <2>1, <3>1, <4>1 DEF RecordsTell
    <3>3. ASSUME NEW r, RateIsTraffic(r) PROVE RateIsTraffic(r)'
      BY <3>3 DEF RateIsTraffic, Since, Unbroken, Surroundings
    <3> QED
      BY <1>7, <3>2 DEF RecordsTell, RateIsTraffic, Since, Unbroken, Surroundings
  <2>5. IsReading(c.rec) => LastReading(n + 1, c.rec.from) /\ netStats.LastTime = c.rec.to
    BY <1>0, <1>1, <2>1 DEF LastIsKept, Appending, Collecting, ReadingCounts
  <2>6. LastIsKept'
    <3>1. \A h \in Collections : ~Appending(h)'
      BY <1>3, <1>4, <2>1 DEF Appending, Collecting
    <3>2. LastReading(n + 2, netStats.LastTime)'
      <4>1. CASE IsReading(c.rec)
        <5>1. n + 1 \in 1..((n + 2) - 1) /\ ((n + 1) + 1)..((n + 2) - 1) = {}
          BY <1>1
        <5>2. IsReading(records'[n + 1]) /\ records'[n + 1].to = netStats'.LastTime
          BY <1>1, <1>7, <2>5, <4>1
        <5> QED
          BY <5>1, <5>2 DEF LastReading
      <4>2. CASE ~IsReading(c.rec)
        <5>1. \A h \in Collections : ~Appending(h)
          BY <1>1, <2>1, <4>2 DEF Appending, Collecting
        <5>2. LastReading(n + 1, netStats.LastTime)
          BY <1>0, <2>1, <5>1 DEF LastIsKept
        <5>3. ~IsReading(records'[n + 1])
          BY <1>7, <4>2
        <5> QED
          BY <1>1, <1>7, <5>2, <5>3 DEF LastReading
      <4> QED
        BY <4>1, <4>2
    <3>3. Len(records') + 1 = n + 2
      BY <1>1, <1>7
    <3> QED
      BY <3>1, <3>2, <3>3 DEF LastIsKept
  <2>7. TimesMeet'
    <3> SUFFICES ASSUME NEW i \in 1..(n + 1), NEW r, r = records'[i], IsReading(r)
                 PROVE  LastReading(i, r.from)'
      BY <1>7 DEF TimesMeet
    <3>1. LastReading(i, r.from)
      <4>1. CASE i = n + 1
        BY <1>7, <2>5, <4>1
      <4>2. CASE i \in 1..n
        BY <1>7, <2>1, <4>2 DEF TimesMeet
      <4> QED
        BY <1>0, <1>1, <4>1, <4>2
    <3> QED
      BY <1>10, <3>1
  <2> QED
    BY <1>11, <2>1, <2>2, <2>4, <2>6, <2>7
<1> QED
  BY <1>1, <1>2, <1>3, <1>5, <1>6, <1>8, <1>9, <1>11, CollectKeeps

\* For all goroutines, however large the counters and the window: the rates
\* are the traffic of times that meet, and the window has the latest records
\* (stats/stats.go:124).
THEOREM RecordsCorrect == StatsSpec => [](StatsTypeOK /\ RecordsAreTrue)
<1>1. StatsInit => StatsInv
  <2> SUFFICES ASSUME StatsInit PROVE StatsInv
    OBVIOUS
  <2> USE StatsAssumption
  <2>1. /\ NoRecord \in Records /\ NoRecord \in PastRecords /\ ~IsReading(NoRecord)
        /\ Resting \in Collectings /\ Resting.pc = "sleep" /\ Resting.rec = NoRecord
    BY DEF StatsInit, NoRecord, Resting, Records, PastRecords, Collectings, Steps, IsReading, NoTime
  <2>2. /\ time = 1 /\ traffic = <<0>> /\ records = <<>> /\ stats = <<>>
        /\ netStats = [LastSent |-> 0, LastTime |-> NoTime]
        /\ \A g \in Collections : collect[g] = Resting
        /\ Len(records) = 0 /\ DOMAIN records = {}
    BY DEF StatsInit
  <2>3. StatsTypeOK
    <3>1. traffic \in Seq(Nat) /\ Len(traffic) = time /\ time \in Nat \ {0}
      BY <2>2
    <3>2. netStats \in [LastSent : 0..(Modulus - 1), LastTime : Nat]
      BY <2>2 DEF NoTime
    <3>3. collect \in [Collections -> Collectings]
      BY <2>1 DEF StatsInit
    <3>4. stats \in Seq(Records) /\ records \in Seq(Records)
      BY <2>2
    <3> QED
      BY <3>1, <3>2, <3>3, <3>4 DEF StatsInit, StatsTypeOK
  <2>4. TimesArePast
    BY <2>1, <2>2 DEF TimesArePast, NoTime
  <2>5. WindowIsLatest
    <3>1. Len(LatestOf(<<>>)) = 0 /\ LatestOf(<<>>) \in Seq(Records)
      <4>0. <<>> \in Seq(Records) /\ Len(<<>>) = 0
        OBVIOUS
      <4>1. PICK s, n : s = <<>> /\ s \in Seq(Records) /\ n = Len(s) /\ n = 0
        BY <4>0
      <4>2. Held(n) = 0
        BY <4>1 DEF Held
      <4>3. LatestOf(s) \in Seq(Records) /\ Len(LatestOf(s)) = Held(n)
        BY <4>1, LatestOfIs
      <4> QED
        BY <4>1, <4>2, <4>3
    <3> QED
      BY <2>2, <3>1 DEF WindowIsLatest
  <2>6. \A g \in Collections : Unread(g) /\ ReadingCounts(g) /\ ~Appending(g)
    BY <2>1, <2>2 DEF Unread, ReadingCounts, Appending, Collecting
  <2>7. AloneIsAwake /\ NetStatsCount /\ RecordsTell /\ TimesMeet
    BY <2>1, <2>2 DEF AloneIsAwake, Collecting, NetStatsCount, RecordsTell, TimesMeet
  <2>8. LastIsKept
    BY <2>2, <2>6 DEF LastIsKept, LastReading
  <2> QED
    BY <2>3, <2>4, <2>5, <2>6, <2>7, <2>8 DEF StatsInv
<1>2. StatsInv /\ [StatsNext]_statsVars => StatsInv'
  <2> SUFFICES ASSUME StatsInv, [StatsNext]_statsVars
               PROVE  StatsInv'
    OBVIOUS
  <2>1. CASE UNCHANGED statsVars
    BY <2>1, ZenonT(40) DEF statsVars, StatsInv, StatsTypeOK, TimesArePast, PastRecords, WindowIsLatest,
                Unread, AloneIsAwake, Collecting, NetStatsCount, Counts, Unbroken, Since,
                ReadingCounts, RateIsTraffic, RecordsTell, LastIsKept, Appending, LastReading,
                TimesMeet
  <2>2. CASE StatsNext
    <3>1. overlap' \in BOOLEAN /\ (~overlap' => ~overlap /\ AloneIsAwake')
      BY <2>2 DEF StatsNext, AloneIsAwake, Collecting, StatsInv, StatsTypeOK
    <3>2. CASE Environment /\ UNCHANGED <<netStats, collect, stats, records>>
      BY <3>1, <3>2, EnvironmentKeeps
    <3>3. ASSUME NEW g \in Collections, doCollect(g), UNCHANGED Surroundings
          PROVE  StatsInv'
      BY <3>1, <3>3, ReadCountersKeeps, RateKeeps, UpdateNetStatsKeeps, AppendRecordKeeps
         DEF doCollect
    <3> QED
      BY <2>2, <3>2, <3>3 DEF StatsNext, Surroundings
  <2> QED
    BY <2>1, <2>2
<1>3. StatsInv => StatsTypeOK /\ RecordsAreTrue
  <2> SUFFICES ASSUME StatsInv PROVE RecordsAreTrue
    BY DEF StatsInv
  <2>1. RatesAreTraffic
    BY DEF StatsInv, RecordsTell, RatesAreTraffic, RateIsTraffic, Since
  <2>2. TimesMeet
    BY DEF StatsInv, TimesMeet
  <2> QED
    BY <2>1, <2>2 DEF StatsInv, RecordsAreTrue
<1> QED
  BY <1>1, <1>2, <1>3, PTL DEF StatsSpec

-----------------------------------------------------------------------------
(* The language file.                                                       *)

\* Entries that have all that was collected.
Collected(f) ==
    /\ \A s \in sent : \E t \in sent : Key(t.action, s.msg) \in DOMAIN f
    /\ \A e \in filed : e[1] \in DOMAIN f /\ f[e[1]] = e[2]

\* SendCode is done with a message of the action that a langInfo has.
ActionIsSent(i) == \E t \in sent : t.action = infos[i].action

Setting(p) == sender[p].pc \in {"set", "truncate", "write"}

\* One SendCode at a time.
OneSends == \A p, q \in Senders : p # q => At(p, "idle") \/ At(q, "idle")

\* Before it has a langInfo there is none; the one it has is the one that is
\* kept, if any, and has its action or that of a message that was sent before.
SenderHolds(p) ==
    /\ sender[p].pc \in {"stat", "create", "read"} => langMap = 0
    /\ At(p, "create") => ~exists
    /\ Setting(p) =>
         /\ langMap \in {0, sender[p].info}
         /\ \/ infos[sender[p].info].action = sender[p].action
            \/ ActionIsSent(sender[p].info)
    /\ At(p, "set") => infos[sender[p].info].data = file
    /\ sender[p].pc \in {"truncate", "write"} =>
         /\ Collected(infos[sender[p].info].data)
         /\ SetKey(p) \in DOMAIN infos[sender[p].info].data

\* At rest the langInfo that is kept is the file.
KeptIsFile ==
    (\A p \in Senders : At(p, "idle")) /\ langMap # 0
        => infos[langMap].data = file /\ ActionIsSent(langMap)

LangInv ==
    /\ LangTypeOK
    /\ ~careless => /\ OneSends
                    /\ \A p \in Senders : SenderHolds(p)
                    /\ KeptIsFile
                    /\ ~Writing => Collected(file)

-----------------------------------------------------------------------------
\* An entry more, and no entry.
LEMMA WithIsEntries ==
    ASSUME NEW f \in Entries, NEW k \in Keys, NEW m \in Messages
    PROVE  With(f, k, m) \in Entries
<1>1. PICK D \in SUBSET Keys : f \in [D -> Messages]
  BY DEF Entries
<1>2. With(f, k, m) \in [D \union {k} -> Messages] /\ D \union {k} \in SUBSET Keys
  BY <1>1 DEF With
<1> QED
  BY <1>2 DEF Entries

\* An empty file has entries.
LEMMA NoEntriesIsEntries == NoEntries \in Entries /\ DOMAIN NoEntries = {}
<1>1. NoEntries \in [{} -> Messages] /\ DOMAIN NoEntries = {}
  BY DEF NoEntries
<1> QED
  BY <1>1 DEF Entries

\* The entry of one key.
LEMMA EntryOfKey ==
    ASSUME NEW f \in Entries, NEW k \in DOMAIN f
    PROVE  k \in Keys /\ f[k] \in Messages
BY DEF Entries

\* What has been collected is in more entries, and in the file after a step.
LEMMA WithCollects ==
    ASSUME NEW f, Collected(f), NEW k, k \notin DOMAIN f, NEW m
    PROVE  Collected(With(f, k, m)) /\ k \in DOMAIN With(f, k, m)
BY DEF Collected, With

\* The key that a SendCode sets.
LEMMA SetKeyIsKey ==
    ASSUME LangTypeOK, NEW p \in Senders, Setting(p)
    PROVE  /\ SetKey(p) \in Keys /\ sender[p].msg \in Messages
           /\ sender[p].action \in Actions
           /\ sender[p].info \in DOMAIN infos
           /\ infos[sender[p].info].data \in Entries
           /\ infos[sender[p].info].action \in Actions
<1>1. /\ sender[p].msg \in Messages /\ sender[p].action \in Actions
      /\ sender[p].info \in 0..Len(infos) /\ sender[p].info # 0
      /\ infos \in Seq(Infos)
  BY DEF LangTypeOK, Setting, At
<1>2. sender[p].info \in DOMAIN infos
  BY <1>1
<1>3. infos[sender[p].info] \in Infos
  BY <1>1, <1>2
<1> QED
  BY <1>1, <1>2, <1>3 DEF SetKey, Key, Keys, Infos

\* A step of one SendCode.
LEMMA SenderMoves ==
    ASSUME LangTypeOK, NEW p \in Senders, NEW stage \in SendSteps, Step(p, stage)
    PROVE  /\ sender' \in [Senders -> Sending]
           /\ sender'[p].pc = stage /\ sender'[p].action = sender[p].action
           /\ sender'[p].msg = sender[p].msg /\ sender'[p].info = sender[p].info
           /\ \A q \in Senders : q # p => sender'[q] = sender[q]
BY DEF LangTypeOK, Step, Sending

\* The history of the file.
FiledInStep ==
    filed' = IF Writing' THEN filed ELSE filed \union {<<k, file'[k]>> : k \in DOMAIN file'}

\* What is on file after a step that leaves the file.
LEMMA FiledKeeps ==
    ASSUME LangTypeOK, FiledInStep, file' \in Entries
    PROVE  filed' \subseteq (Keys \X Messages)
<1>1. {<<k, file'[k]>> : k \in DOMAIN file'} \subseteq (Keys \X Messages)
  BY EntryOfKey
<1> QED
  BY <1>1 DEF LangTypeOK, FiledInStep

-----------------------------------------------------------------------------
\* A file that has as much as another collects as much.
LEMMA CollectsOn ==
    ASSUME FiledInStep, NEW f, file' = f,
           \A s \in sent' : \E t \in sent' : Key(t.action, s.msg) \in DOMAIN f,
           \A e \in filed : e[1] \in DOMAIN f /\ f[e[1]] = e[2]
    PROVE  Collected(file)'
<1>1. \A e \in filed' : e[1] \in DOMAIN f /\ f[e[1]] = e[2]
  BY DEF FiledInStep
<1> QED
  BY <1>1 DEF Collected, Key

\* A step that collects nothing and leaves the file.
LEMMA SameFileCollects ==
    ASSUME FiledInStep, UNCHANGED <<file, sent>>, Collected(file)
    PROVE  Collected(file)'
BY CollectsOn DEF Collected

\* When one SendCode takes a step alone, what holds for it is all that is to
\* be shown.
OthersIdle(p) == \A q \in Senders : q # p => sender[q].pc = "idle" /\ sender'[q].pc = "idle"

\* A step of the only sender there is.
LEMMA AloneKeeps ==
    ASSUME LangInv, NEW p \in Senders, LangTypeOK',
           ~careless' => ~careless /\ OneSends',
           \A q \in Senders : q # p => sender'[q] = sender[q],
           sender[p].pc # "idle" \/ sender'[p].pc # "idle",
           ~careless' /\ ~careless /\ OthersIdle(p)
             => /\ SenderHolds(p)' /\ KeptIsFile'
                /\ ~(sender'[p].pc = "write") => Collected(file)'
    PROVE  LangInv'
<1> SUFFICES ASSUME ~careless'
             PROVE  /\ OneSends' /\ KeptIsFile' /\ \A q \in Senders : SenderHolds(q)'
                    /\ ~Writing' => Collected(file)'
  BY DEF LangInv
<1>1. ~careless /\ OneSends' /\ OneSends
  BY DEF LangInv
<1>2. OthersIdle(p)
  BY <1>1 DEF OthersIdle, OneSends, At
<1>3. /\ SenderHolds(p)' /\ KeptIsFile'
      /\ ~(sender'[p].pc = "write") => Collected(file)'
  BY <1>1, <1>2
<1>4. ASSUME NEW q \in Senders, q # p PROVE SenderHolds(q)'
  BY <1>2, <1>4 DEF OthersIdle, SenderHolds, At, Setting
<1> QED
  BY <1>1, <1>3, <1>4 DEF Writing, At

\* A step of SendCode in which nothing is sent and the file is as it was.
LEMMA QuietCollects ==
    ASSUME LangInv, ~careless, NEW p \in Senders, OthersIdle(p), ~At(p, "write"),
           FiledInStep, UNCHANGED <<file, sent>>
    PROVE  Collected(file)'
<1>1. ~Writing
  BY DEF Writing, OthersIdle, At
<1> QED
  BY <1>1, SameFileCollects DEF LangInv

\* A message is sent.
LEMMA SendCodeKeeps ==
    ASSUME LangInv, NEW p \in Senders, SendCode(p), FiledInStep,
           careless' \in BOOLEAN, ~careless' => ~careless /\ OneSends'
    PROVE  LangInv'
<1>1. LangTypeOK /\ sender[p].pc = "idle" /\ UNCHANGED <<exists, file, infos, langMap, sent>>
  BY DEF LangInv, SendCode, At
<1>2. PICK a \in Actions, m \in Messages :
        sender' = [sender EXCEPT ![p] =
                     [pc |-> IF langMap = 0 THEN "stat" ELSE "set",
                      action |-> a, msg |-> m, info |-> langMap]]
  BY DEF SendCode
<1>3. PICK x \in Sending :
        /\ sender' = [sender EXCEPT ![p] = x]
        /\ x.pc = (IF langMap = 0 THEN "stat" ELSE "set")
        /\ x.action = a /\ x.msg = m /\ x.info = langMap
  <2> DEFINE x == [pc |-> IF langMap = 0 THEN "stat" ELSE "set",
                   action |-> a, msg |-> m, info |-> langMap]
  <2>1. x \in Sending
    <3>1. langMap \in Nat
      BY <1>1 DEF LangTypeOK
    <3>2. x.pc \in SendSteps
      BY DEF SendSteps
    <3> QED
      BY <3>1, <3>2 DEF Sending
  <2> QED
    BY <1>2, <2>1
<1>4. /\ sender' \in [Senders -> Sending] /\ sender'[p] = x
      /\ \A q \in Senders : q # p => sender'[q] = sender[q]
  BY <1>1, <1>3 DEF LangTypeOK
<1>5. LangTypeOK'
  <2>1. filed' \subseteq (Keys \X Messages)
    BY <1>1, FiledKeeps DEF LangTypeOK
  <2>2. \A q \in Senders : /\ sender'[q].info \in 0..Len(infos)
                           /\ ~At(q, "idle")' => /\ sender'[q].action \in Actions
                                                 /\ sender'[q].msg \in Messages
                           /\ sender'[q].pc \in {"set", "truncate", "write"} => sender'[q].info # 0
                           /\ At(q, "write")' => exists
    BY <1>1, <1>3, <1>4 DEF LangTypeOK, At
  <2> QED
    BY <1>1, <1>4, <2>1, <2>2 DEF LangTypeOK
<1>6. ASSUME ~careless, OthersIdle(p)
      PROVE  SenderHolds(p)' /\ KeptIsFile' /\ Collected(file)'
  <2>1. KeptIsFile /\ (\A q \in Senders : At(q, "idle"))
    BY <1>1, <1>6 DEF LangInv, OthersIdle, At
  <2>2. SenderHolds(p)'
    <3>1. CASE langMap = 0
      BY <1>1, <1>3, <1>4, <3>1 DEF SenderHolds, At, Setting
    <3>2. CASE langMap # 0
      BY <1>1, <1>3, <1>4, <2>1, <3>2 DEF SenderHolds, At, Setting, KeptIsFile, ActionIsSent
    <3> QED
      BY <3>1, <3>2
  <2>3. KeptIsFile'
    BY <1>3, <1>4 DEF KeptIsFile, At
  <2>4. Collected(file)'
    BY <1>1, <1>6, QuietCollects DEF At
  <2> QED
    BY <2>2, <2>3, <2>4
<1> QED
  BY <1>3, <1>4, <1>5, <1>6, AloneKeeps

\* What the file tells the one who looks.
LEMMA FileLooks ==
    ASSUME LangInv, NEW p \in Senders, StatFile(p) \/ CreateFile(p), FiledInStep,
           careless' \in BOOLEAN, ~careless' => ~careless /\ OneSends'
    PROVE  LangInv'
<1>1. /\ LangTypeOK /\ sender[p].pc \in {"stat", "create"}
      /\ UNCHANGED <<infos, langMap, sent>>
  BY DEF LangInv, StatFile, CreateFile, At
<1>2. PICK stage \in {"create", "read"} :
        /\ Step(p, stage)
        /\ sender[p].pc = "stat" => UNCHANGED <<exists, file>> /\ (stage = "create" => ~exists)
        /\ sender[p].pc = "create" => exists' = TRUE /\ file' = NoEntries /\ stage = "read"
  BY DEF StatFile, CreateFile, At
<1>3. /\ sender' \in [Senders -> Sending]
      /\ sender'[p].pc = stage /\ sender'[p].action = sender[p].action
      /\ sender'[p].msg = sender[p].msg /\ sender'[p].info = sender[p].info
      /\ \A q \in Senders : q # p => sender'[q] = sender[q]
  BY <1>1, <1>2, SenderMoves DEF SendSteps
<1>4. /\ exists' \in BOOLEAN /\ (exists => exists') /\ file' \in Entries
      /\ (~exists' => file' = NoEntries)
  <2>1. CASE sender[p].pc = "stat"
    BY <1>1, <1>2, <2>1 DEF LangTypeOK
  <2>2. CASE sender[p].pc = "create"
    <3>1. exists' = TRUE /\ file' = NoEntries
      BY <1>2, <2>2
    <3> QED
      BY <3>1, NoEntriesIsEntries
  <2> QED
    BY <1>1, <2>1, <2>2
<1>5. LangTypeOK'
  <2>1. filed' \subseteq (Keys \X Messages)
    BY <1>1, <1>4, FiledKeeps
  <2>2. \A q \in Senders : /\ sender'[q].info \in 0..Len(infos)
                           /\ ~At(q, "idle")' => /\ sender'[q].action \in Actions
                                                 /\ sender'[q].msg \in Messages
                           /\ sender'[q].pc \in {"set", "truncate", "write"} => sender'[q].info # 0
                           /\ At(q, "write")' => exists'
    BY <1>1, <1>3, <1>4 DEF LangTypeOK, At
  <2> QED
    BY <1>1, <1>3, <1>4, <2>1, <2>2 DEF LangTypeOK
<1>6. ASSUME ~careless, OthersIdle(p)
      PROVE  SenderHolds(p)' /\ KeptIsFile' /\ Collected(file)'
  <2>1. langMap = 0 /\ (sender[p].pc = "create" => ~exists)
    BY <1>1, <1>6 DEF LangInv, SenderHolds, At
  <2>2. SenderHolds(p)'
    BY <1>1, <1>2, <1>3, <2>1 DEF SenderHolds, At, Setting
  <2>3. KeptIsFile'
    BY <1>3 DEF KeptIsFile, At
  <2>4. file' = file
    BY <1>1, <1>2, <2>1 DEF LangTypeOK
  <2>5. Collected(file)'
    BY <1>1, <1>6, <2>4, QuietCollects DEF At
  <2> QED
    BY <2>2, <2>3, <2>5
<1> QED
  BY <1>1, <1>3, <1>5, <1>6, AloneKeeps

\* The file is read.
LEMMA ReadLangKeeps ==
    ASSUME LangInv, NEW p \in Senders, ReadLang(p), FiledInStep,
           careless' \in BOOLEAN, ~careless' => ~careless /\ OneSends'
    PROVE  LangInv'
<1>0. PICK n \in Nat : n = Len(infos)
  BY DEF LangInv, LangTypeOK
<1>1. /\ LangTypeOK /\ sender[p].pc = "read" /\ UNCHANGED <<exists, file, sent>>
      /\ sender[p].action \in Actions /\ sender[p].msg \in Messages
      /\ infos' = Append(infos, [action |-> sender[p].action, data |-> file])
      /\ langMap' = IF file = NoEntries THEN langMap ELSE n + 1
      /\ sender' = [sender EXCEPT ![p].pc = "set", ![p].info = n + 1]
  BY <1>0 DEF LangInv, ReadLang, At, LangTypeOK
<1>2. PICK i : i = [action |-> sender[p].action, data |-> file]
  OBVIOUS
<1>3. i \in Infos /\ i.action = sender[p].action /\ i.data = file
  BY <1>1, <1>2 DEF Infos, LangTypeOK
<1>4. /\ infos' \in Seq(Infos) /\ Len(infos') = n + 1 /\ infos'[n + 1] = i
  BY <1>0, <1>1, <1>2, <1>3, AppendProperties DEF LangTypeOK
<1>5. /\ sender' \in [Senders -> Sending]
      /\ sender'[p].pc = "set" /\ sender'[p].action = sender[p].action
      /\ sender'[p].msg = sender[p].msg /\ sender'[p].info = n + 1
      /\ \A q \in Senders : q # p => sender'[q] = sender[q]
  <2>1. sender \in [Senders -> Sending]
    BY <1>1 DEF LangTypeOK
  <2>2. \A q \in Senders : q # p => sender'[q] = sender[q]
    BY <1>1, <2>1
  <2>3. sender[p] \in Sending
    BY <2>1
  <2>4. sender' = [sender EXCEPT ![p] = [sender[p] EXCEPT !.pc = "set", !.info = n + 1]]
    BY <1>1, <2>1
  <2>5. PICK x : x = [sender[p] EXCEPT !.pc = "set", !.info = n + 1]
    OBVIOUS
  <2>6. /\ x \in Sending /\ x.pc = "set" /\ x.info = n + 1
        /\ x.action = sender[p].action /\ x.msg = sender[p].msg
    <3>1. PICK k \in Nat : k = n + 1
      OBVIOUS
    <3>2. x = [sender[p] EXCEPT !.pc = "set", !.info = k]
      BY <2>5, <3>1
    <3>3. /\ x.pc = "set" /\ x.info = k
          /\ x.action = sender[p].action /\ x.msg = sender[p].msg
      BY <2>3, <3>2 DEF Sending
    <3>4. x = [pc |-> "set", action |-> sender[p].action, msg |-> sender[p].msg, info |-> k]
      BY <2>3, <3>2 DEF Sending
    <3>5. x \in Sending
      BY <1>1, <3>4 DEF Sending, SendSteps
    <3> QED
      BY <3>1, <3>3, <3>5
  <2>7. sender'[p] = x
    BY <2>1, <2>4, <2>5
  <2>8. sender' \in [Senders -> Sending]
    BY <2>1, <2>4, <2>5, <2>6
  <2> QED
    BY <2>2, <2>6, <2>7, <2>8
<1>6. LangTypeOK'
  <2>1. filed' \subseteq (Keys \X Messages)
    BY <1>1, FiledKeeps DEF LangTypeOK
  <2>2. \A q \in Senders : /\ sender'[q].info \in 0..(n + 1)
                           /\ ~At(q, "idle")' => /\ sender'[q].action \in Actions
                                                 /\ sender'[q].msg \in Messages
                           /\ sender'[q].pc \in {"set", "truncate", "write"} => sender'[q].info # 0
                           /\ At(q, "write")' => exists
    BY <1>0, <1>1, <1>5 DEF LangTypeOK, At
  <2>3. langMap' \in 0..(n + 1)
    BY <1>0, <1>1 DEF LangTypeOK
  <2> QED
    BY <1>1, <1>4, <1>5, <2>1, <2>2, <2>3 DEF LangTypeOK
<1>7. ASSUME ~careless, OthersIdle(p)
      PROVE  SenderHolds(p)' /\ KeptIsFile' /\ Collected(file)'
  <2>1. langMap = 0
    BY <1>1, <1>7 DEF LangInv, SenderHolds, At
  <2>2. SenderHolds(p)'
    BY <1>1, <1>3, <1>4, <1>5, <2>1 DEF SenderHolds, At, Setting
  <2>3. KeptIsFile'
    BY <1>5 DEF KeptIsFile, At
  <2>4. Collected(file)'
    BY <1>1, <1>7, QuietCollects DEF At
  <2> QED
    BY <2>2, <2>3, <2>4
<1> QED
  BY <1>1, <1>5, <1>6, <1>7, AloneKeeps

\* SendCode is done with a message whose key the file has.
LEMMA FinishedCollects ==
    ASSUME LangTypeOK, NEW p \in Senders, Finished(p), FiledInStep,
           NEW i, i = infos[sender[p].info], NEW f, file' = f,
           Collected(f), Key(i.action, sender[p].msg) \in DOMAIN f,
           i.action = sender[p].action \/ \E t \in sent : t.action = i.action
    PROVE  Collected(file)' /\ \E t \in sent' : t.action = i.action
<1>1. PICK s : s = [action |-> sender[p].action, msg |-> sender[p].msg]
  OBVIOUS
<1>2. sent' = sent \union {s} /\ s.action = sender[p].action /\ s.msg = sender[p].msg
  BY <1>1 DEF Finished
<1>3. PICK t \in sent' : t.action = i.action
  BY <1>2
<1>4. \A r \in sent' : \E u \in sent' : Key(u.action, r.msg) \in DOMAIN f
  BY <1>2, <1>3 DEF Collected
<1>5. \A e \in filed : e[1] \in DOMAIN f /\ f[e[1]] = e[2]
  BY DEF Collected
<1> QED
  BY <1>3, <1>4, <1>5, CollectsOn

\* The types after a sender is done.
LEMMA FinishedTypes ==
    ASSUME LangTypeOK, NEW p \in Senders, Finished(p), FiledInStep, sender[p].pc # "idle",
           file' \in Entries, ~exists => file' = NoEntries, careless' \in BOOLEAN,
           UNCHANGED <<exists, infos, langMap>>
    PROVE  /\ LangTypeOK'
           /\ sender'[p].pc = "idle"
           /\ \A q \in Senders : q # p => sender'[q] = sender[q]
<1>1. Out \in Sending /\ Out.pc = "idle" /\ Out.info = 0
  BY DEF Out, Sending, SendSteps
<1>2. /\ sender' \in [Senders -> Sending] /\ sender'[p] = Out
      /\ \A q \in Senders : q # p => sender'[q] = sender[q]
  BY <1>1 DEF LangTypeOK, Finished
<1>3. filed' \subseteq (Keys \X Messages)
  BY FiledKeeps
<1>4. sent' \subseteq [action : Actions, msg : Messages]
  BY DEF LangTypeOK, Finished, At
<1>5. \A q \in Senders : /\ sender'[q].info \in 0..Len(infos)
                         /\ ~At(q, "idle")' => /\ sender'[q].action \in Actions
                                               /\ sender'[q].msg \in Messages
                         /\ sender'[q].pc \in {"set", "truncate", "write"} => sender'[q].info # 0
                         /\ At(q, "write")' => exists
  BY <1>1, <1>2 DEF LangTypeOK, At
<1> QED
  BY <1>1, <1>2, <1>3, <1>4, <1>5 DEF LangTypeOK

\* An entry that is there already is not written.
LEMMA SetEntryFinishes ==
    ASSUME LangInv, NEW p \in Senders, At(p, "set"), Finished(p), FiledInStep,
           SetKey(p) \in DOMAIN infos[sender[p].info].data,
           UNCHANGED <<exists, file, infos, langMap>>,
           careless' \in BOOLEAN, ~careless' => ~careless /\ OneSends'
    PROVE  LangInv'
<1>1. LangTypeOK /\ sender[p].pc = "set" /\ file' \in Entries
  BY DEF LangInv, At, LangTypeOK
<1>2. PICK i : i = infos[sender[p].info]
  OBVIOUS
<1>3. /\ LangTypeOK' /\ sender'[p].pc = "idle"
      /\ \A q \in Senders : q # p => sender'[q] = sender[q]
  BY <1>1, FinishedTypes DEF LangTypeOK
<1>4. ASSUME ~careless, OthersIdle(p)
      PROVE  SenderHolds(p)' /\ KeptIsFile' /\ Collected(file)'
  <2>1. /\ SenderHolds(p) /\ Collected(file)
    BY <1>1, <1>4 DEF LangInv, Writing, OthersIdle, At
  <2>2. /\ i.data = file /\ langMap \in {0, sender[p].info}
        /\ i.action = sender[p].action \/ \E t \in sent : t.action = i.action
    BY <1>1, <1>2, <2>1 DEF SenderHolds, At, Setting, ActionIsSent
  <2>3. Collected(file)' /\ \E t \in sent' : t.action = i.action
    BY <1>1, <1>2, <2>1, <2>2, FinishedCollects DEF SetKey
  <2>4. SenderHolds(p)'
    BY <1>3 DEF SenderHolds, At, Setting
  <2>5. KeptIsFile'
    BY <1>2, <2>2, <2>3 DEF KeptIsFile, ActionIsSent
  <2> QED
    BY <2>3, <2>4, <2>5
<1> QED
  BY <1>1, <1>3, <1>4, AloneKeeps

\* An entry is added and the file is to be written.
LEMMA SetEntryAdds ==
    ASSUME LangInv, NEW p \in Senders, At(p, "set"), FiledInStep,
           SetKey(p) \notin DOMAIN infos[sender[p].info].data,
           infos' = [infos EXCEPT ![sender[p].info].data = With(@, SetKey(p), sender[p].msg)],
           Step(p, "truncate"), UNCHANGED <<exists, file, langMap, sent>>,
           careless' \in BOOLEAN, ~careless' => ~careless /\ OneSends'
    PROVE  LangInv'
<1>1. LangTypeOK /\ sender[p].pc = "set" /\ Setting(p)
  BY DEF LangInv, At, Setting
<1>2. PICK n, i, k, m : n = sender[p].info /\ i = infos[n] /\ k = SetKey(p) /\ m = sender[p].msg
  OBVIOUS
<1>3. /\ k \in Keys /\ m \in Messages /\ n \in DOMAIN infos /\ i \in Infos
      /\ i.data \in Entries /\ i.action \in Actions /\ infos \in Seq(Infos)
  <2>1. /\ k \in Keys /\ m \in Messages /\ n \in DOMAIN infos
        /\ i.data \in Entries /\ i.action \in Actions
    BY <1>1, <1>2, SetKeyIsKey
  <2>2. infos \in Seq(Infos)
    BY <1>1 DEF LangTypeOK
  <2>3. i \in Infos
    BY <1>2, <2>1, <2>2
  <2> QED
    BY <2>1, <2>2, <2>3
<1>4. PICK d : d = With(i.data, k, m)
  OBVIOUS
<1>5. PICK j : j = [i EXCEPT !.data = d]
  OBVIOUS
<1>6. d \in Entries /\ j \in Infos /\ j.data = d /\ j.action = i.action
  <2>1. d \in Entries
    BY <1>3, <1>4, WithIsEntries
  <2> QED
    BY <1>3, <1>5, <2>1 DEF Infos
<1>7. infos' = [infos EXCEPT ![n] = j]
  BY <1>2, <1>4, <1>5
<1>8. infos' \in Seq(Infos) /\ Len(infos') = Len(infos) /\ infos'[n] = j
  <2>1. PICK l \in Nat : l = Len(infos) /\ infos \in [1..l -> Infos] /\ n \in 1..l
    BY <1>3
  <2>2. infos' \in [1..l -> Infos] /\ infos'[n] = j
    BY <1>6, <1>7, <2>1
  <2>3. infos' \in Seq(Infos) /\ Len(infos') = l
    BY <2>1, <2>2
  <2> QED
    BY <2>1, <2>2, <2>3
<1>9. /\ sender' \in [Senders -> Sending]
      /\ sender'[p].pc = "truncate" /\ sender'[p].action = sender[p].action
      /\ sender'[p].msg = m /\ sender'[p].info = n
      /\ \A q \in Senders : q # p => sender'[q] = sender[q]
  BY <1>1, <1>2, SenderMoves DEF SendSteps
<1>10. LangTypeOK'
  <2>1. filed' \subseteq (Keys \X Messages)
    BY <1>1, FiledKeeps DEF LangTypeOK
  <2>2. \A q \in Senders : /\ sender'[q].info \in 0..Len(infos)
                           /\ ~At(q, "idle")' => /\ sender'[q].action \in Actions
                                                 /\ sender'[q].msg \in Messages
                           /\ sender'[q].pc \in {"set", "truncate", "write"} => sender'[q].info # 0
                           /\ At(q, "write")' => exists
    BY <1>1, <1>2, <1>9 DEF LangTypeOK, At
  <2> QED
    BY <1>1, <1>8, <1>9, <2>1, <2>2 DEF LangTypeOK
<1>11. ASSUME ~careless, OthersIdle(p)
       PROVE  SenderHolds(p)' /\ KeptIsFile' /\ Collected(file)'
  <2>1. /\ SenderHolds(p) /\ Collected(file)
    BY <1>1, <1>11 DEF LangInv, Writing, OthersIdle, At
  <2>2. /\ i.data = file /\ langMap \in {0, n}
        /\ i.action = sender[p].action \/ \E t \in sent : t.action = i.action
    BY <1>1, <1>2, <2>1 DEF SenderHolds, At, Setting, ActionIsSent
  <2>3. Collected(d) /\ k \in DOMAIN d
    BY <1>2, <1>4, <2>1, <2>2, WithCollects
  <2>4. \A l \in DOMAIN file : l \in DOMAIN d /\ d[l] = file[l]
    BY <1>2, <1>4, <2>2 DEF With
  <2>5. Collected(d)'
    <3>1. \A e \in filed' : e[1] \in DOMAIN d /\ d[e[1]] = e[2]
      BY <2>3, <2>4 DEF Collected, FiledInStep
    <3> QED
      BY <2>3, <3>1 DEF Collected
  <2>6. SetKey(p)' = k
    BY <1>2, <1>6, <1>8, <1>9 DEF SetKey, Key
  <2>7. SenderHolds(p)'
    <3>1. infos'[sender'[p].info].data = d /\ infos'[sender'[p].info].action = i.action
      BY <1>6, <1>8, <1>9
    <3>2. Collected(infos[sender[p].info].data)'
      BY <2>5, <3>1 DEF Collected, Key
    <3>3. SetKey(p)' \in DOMAIN infos'[sender'[p].info].data
      BY <2>3, <2>6, <3>1
    <3>4. /\ langMap' \in {0, sender'[p].info}
          /\ \/ infos'[sender'[p].info].action = sender'[p].action
             \/ ActionIsSent(sender[p].info)'
      BY <1>9, <2>2, <3>1 DEF ActionIsSent
    <3> QED
      BY <1>9, <3>2, <3>3, <3>4 DEF SenderHolds, At, Setting
  <2>8. KeptIsFile'
    BY <1>9 DEF KeptIsFile, At
  <2>9. Collected(file)'
    BY <1>1, <1>11, QuietCollects DEF At
  <2> QED
    BY <2>7, <2>8, <2>9
<1> QED
  BY <1>1, <1>9, <1>10, <1>11, AloneKeeps

\* The file is made empty.
LEMMA TruncateKeeps ==
    ASSUME LangInv, NEW p \in Senders, Truncate(p), FiledInStep,
           careless' \in BOOLEAN, ~careless' => ~careless /\ OneSends'
    PROVE  LangInv'
<1>1. /\ LangTypeOK /\ sender[p].pc = "truncate" /\ Setting(p) /\ Step(p, "write")
      /\ exists' = TRUE /\ file' = NoEntries /\ UNCHANGED <<infos, langMap, sent>>
  BY DEF LangInv, At, Setting, Truncate
<1>2. /\ sender' \in [Senders -> Sending]
      /\ sender'[p].pc = "write" /\ sender'[p].action = sender[p].action
      /\ sender'[p].msg = sender[p].msg /\ sender'[p].info = sender[p].info
      /\ \A q \in Senders : q # p => sender'[q] = sender[q]
  BY <1>1, SenderMoves DEF SendSteps
<1>3. LangTypeOK'
  <2>1. filed' \subseteq (Keys \X Messages)
    BY <1>1, FiledKeeps, NoEntriesIsEntries
  <2>2. \A q \in Senders : /\ sender'[q].info \in 0..Len(infos)
                           /\ ~At(q, "idle")' => /\ sender'[q].action \in Actions
                                                 /\ sender'[q].msg \in Messages
                           /\ sender'[q].pc \in {"set", "truncate", "write"} => sender'[q].info # 0
    BY <1>1, <1>2 DEF LangTypeOK, At
  <2> QED
    BY <1>1, <1>2, <2>1, <2>2, NoEntriesIsEntries DEF LangTypeOK
<1>4. ASSUME ~careless, OthersIdle(p)
      PROVE  SenderHolds(p)' /\ KeptIsFile'
  <2>1. SenderHolds(p)
    BY <1>4 DEF LangInv
  <2>2. filed' = filed
    BY <1>2 DEF FiledInStep, Writing, At
  <2>3. Collected(infos[sender[p].info].data)'
    BY <1>1, <1>2, <2>1, <2>2 DEF SenderHolds, Collected, Key
  <2>4. SetKey(p)' = SetKey(p)
    BY <1>1, <1>2 DEF SetKey, Key
  <2>5. SenderHolds(p)'
    BY <1>1, <1>2, <2>1, <2>3, <2>4 DEF SenderHolds, At, Setting, ActionIsSent
  <2>6. KeptIsFile'
    BY <1>2 DEF KeptIsFile, At
  <2> QED
    BY <2>5, <2>6
<1> QED
  BY <1>1, <1>2, <1>3, <1>4, AloneKeeps

\* It is written.
LEMMA WriteLangFileKeeps ==
    ASSUME LangInv, NEW p \in Senders, WriteLangFile(p), FiledInStep,
           careless' \in BOOLEAN, ~careless' => ~careless /\ OneSends'
    PROVE  LangInv'
<1>1. /\ LangTypeOK /\ sender[p].pc = "write" /\ Setting(p) /\ exists
      /\ Finished(p) /\ file' = infos[sender[p].info].data
      /\ UNCHANGED <<exists, infos, langMap>>
  BY DEF LangInv, At, Setting, WriteLangFile, LangTypeOK
<1>2. PICK i : i = infos[sender[p].info]
  OBVIOUS
<1>3. i.data \in Entries
  BY <1>1, <1>2, SetKeyIsKey
<1>4. /\ LangTypeOK' /\ sender'[p].pc = "idle"
      /\ \A q \in Senders : q # p => sender'[q] = sender[q]
  BY <1>1, <1>2, <1>3, FinishedTypes
<1>5. ASSUME ~careless, OthersIdle(p)
      PROVE  SenderHolds(p)' /\ KeptIsFile' /\ Collected(file)'
  <2>1. SenderHolds(p)
    BY <1>5 DEF LangInv
  <2>2. /\ Collected(i.data) /\ Key(i.action, sender[p].msg) \in DOMAIN i.data
        /\ langMap \in {0, sender[p].info}
        /\ i.action = sender[p].action \/ \E t \in sent : t.action = i.action
    BY <1>1, <1>2, <2>1 DEF SenderHolds, Setting, ActionIsSent, SetKey
  <2>3. PICK f : f = i.data
    OBVIOUS
  <2>4. Collected(file)' /\ \E t \in sent' : t.action = i.action
    BY <1>1, <1>2, <2>2, <2>3, FinishedCollects
  <2>5. SenderHolds(p)'
    BY <1>4 DEF SenderHolds, At, Setting
  <2>6. KeptIsFile'
    BY <1>1, <1>2, <2>2, <2>4 DEF KeptIsFile, ActionIsSent
  <2> QED
    BY <2>4, <2>5, <2>6
<1> QED
  BY <1>1, <1>4, <1>5, AloneKeeps

\* What is in the file is still there after a restart, unless a SendCode was
\* between os.Create and the write.
LEMMA RestartLangKeeps ==
    ASSUME LangInv, RestartLang, FiledInStep, careless' \in BOOLEAN,
           ~careless' => ~careless /\ ~Writing
    PROVE  LangInv'
<1>1. /\ LangTypeOK /\ infos' = <<>> /\ langMap' = 0
      /\ sender' = [p \in Senders |-> Out] /\ UNCHANGED <<exists, file, sent>>
  BY DEF LangInv, RestartLang
<1>2. Out \in Sending /\ Out.pc = "idle" /\ Out.info = 0
  BY DEF Out, Sending, SendSteps
<1>3. sender' \in [Senders -> Sending] /\ \A q \in Senders : sender'[q] = Out
  BY <1>1, <1>2
<1>4. LangTypeOK'
  <2>1. filed' \subseteq (Keys \X Messages)
    BY <1>1, FiledKeeps DEF LangTypeOK
  <2>2. infos' \in Seq(Infos) /\ Len(infos') = 0
    BY <1>1
  <2> QED
    BY <1>1, <1>2, <1>3, <2>1, <2>2 DEF LangTypeOK, At
<1>5. ASSUME ~careless'
      PROVE  /\ OneSends' /\ KeptIsFile' /\ (\A p \in Senders : SenderHolds(p)')
             /\ Collected(file)'
  <2>1. Collected(file)'
    BY <1>1, <1>5, SameFileCollects DEF LangInv
  <2> QED
    BY <1>1, <1>2, <1>3, <2>1 DEF OneSends, KeptIsFile, SenderHolds, At, Setting
<1> QED
  BY <1>4, <1>5 DEF LangInv

\* For all requests, actions and messages, whatever messages share a hash:
\* what SendCode is done with is in the language file and stays there, through
\* restarts (ws/context_i18n.go, ws/context_lang.go:41).
THEOREM FileCorrect == LangSpec => [](LangTypeOK /\ FileCollects)
<1>1. LangInit => LangInv
  <2> SUFFICES ASSUME LangInit PROVE LangInv
    OBVIOUS
  <2>1. Out \in Sending /\ Out.pc = "idle" /\ Out.info = 0
    BY DEF Out, Sending, SendSteps
  <2>2. /\ infos = <<>> /\ Len(infos) = 0 /\ infos \in Seq(Infos)
        /\ sender \in [Senders -> Sending] /\ \A p \in Senders : sender[p] = Out
    BY <2>1 DEF LangInit
  <2>3. LangTypeOK
    <3>1. /\ exists \in BOOLEAN /\ careless \in BOOLEAN /\ file \in Entries
          /\ (~exists => file = NoEntries)
      BY NoEntriesIsEntries DEF LangInit
    <3>2. sent \subseteq [action : Actions, msg : Messages] /\ filed \subseteq (Keys \X Messages)
          /\ langMap = 0
      BY DEF LangInit
    <3>3. \A p \in Senders : sender[p].info = 0 /\ sender[p].pc = "idle"
      BY <2>1, <2>2
    <3> QED
      BY <2>2, <3>1, <3>2, <3>3 DEF LangTypeOK, At
  <2>4. OneSends /\ KeptIsFile /\ \A p \in Senders : SenderHolds(p)
    BY <2>1, <2>2 DEF LangInit, OneSends, KeptIsFile, SenderHolds, At, Setting
  <2>5. Collected(file)
    BY DEF LangInit, Collected
  <2> QED
    BY <2>3, <2>4, <2>5 DEF LangInv
<1>2. LangInv /\ [LangNext]_langVars => LangInv'
  <2> SUFFICES ASSUME LangInv, [LangNext]_langVars
               PROVE  LangInv'
    OBVIOUS
  <2>1. CASE UNCHANGED langVars
    BY <2>1 DEF langVars, LangInv, LangTypeOK, At, OneSends, SenderHolds, Setting, ActionIsSent,
                KeptIsFile, Collected, Key, SetKey, Writing
  <2>2. CASE LangNext
    <3>1. /\ FiledInStep /\ careless' \in BOOLEAN
          /\ ~careless' => ~careless /\ ~Careless
      BY <2>2 DEF LangNext, FiledInStep, LangInv, LangTypeOK
    <3>2. ~careless' => ~careless /\ OneSends'
      BY <3>1 DEF Careless, OneSends, At
    <3>3. CASE RestartLang
      <4>1. \A p \in Senders : sender'[p].pc = "idle"
        BY <3>3 DEF RestartLang, Out
      <4>2. ~careless' => ~careless /\ ~Writing
        BY <3>1, <3>3, <4>1 DEF Careless, RestartLang, Writing
      <4> QED
        BY <3>1, <3>3, <4>2, RestartLangKeeps
    <3>4. ASSUME NEW p \in Senders, SetEntry(p)
          PROVE  LangInv'
      BY <3>1, <3>2, <3>4, SetEntryFinishes, SetEntryAdds DEF SetEntry
    <3>5. ASSUME NEW p \in Senders,
                 \/ SendCode(p) \/ StatFile(p) \/ CreateFile(p) \/ ReadLang(p)
                 \/ Truncate(p) \/ WriteLangFile(p)
          PROVE  LangInv'
      BY <3>1, <3>2, <3>5, SendCodeKeeps, FileLooks, ReadLangKeeps, TruncateKeeps,
         WriteLangFileKeeps
    <3> QED
      BY <2>2, <3>3, <3>4, <3>5 DEF LangNext
  <2> QED
    BY <2>1, <2>2
<1>3. LangInv => LangTypeOK /\ FileCollects
  BY DEF LangInv, FileCollects, MessagesStay, EntriesStay, Collected
<1> QED
  BY <1>1, <1>2, <1>3, PTL DEF LangSpec

-----------------------------------------------------------------------------
(* The span of a request.                                                   *)

Ends(ev) == {i \in DOMAIN ev : ev[i].what = "end"}

\* Seen from a depth of the chain: a span has one end if its Telemetry is left
\* and none before, and what comes after the end is from outside.
SpanFine(at, ev, d) ==
    /\ at <= d => Ends(ev) = {}
    /\ at > d => \E i \in DOMAIN ev : Ends(ev) = {i}
    /\ \A i, j \in DOMAIN ev : j \in Ends(ev) /\ j < i => ev[i].by < at

\* The spans are those of the Telemetry that were entered, in their order.
SpansInOrder ==
    /\ \A s, t \in DOMAIN spans : s < t => spans[s].at < spans[t].at
    /\ \A i \in 1..depth : chain[i] = "telemetry" => \E s \in DOMAIN spans : spans[s].at = i
    /\ way = "in" => \A s \in DOMAIN spans : spans[s].at <= depth

LastTelemetry(at) ==
    /\ \E i \in DOMAIN chain : i > at /\ chain[i] = "recovery"
    /\ \A i \in DOMAIN chain : i > at => chain[i] # "telemetry"

TellsPanic(ev) ==
    \E e, j \in DOMAIN ev : /\ e < j /\ j + 1 \in DOMAIN ev
                            /\ ev[e].what = "error" /\ ev[j].what = "error status"
                            /\ ev[j + 1].what = "end"

HasError(ev) == \E e \in DOMAIN ev : ev[e].what = "error"

\* A panic passes every Recovery that is left.
PanicPasses ==
    /\ hasPanicked => way # "in"
    /\ way \in {"over", "crash"} => depth = 0
    /\ way \in {"panic", "crash"} => \A i \in (depth + 1)..Len(chain) : chain[i] # "recovery"

\* One that was caught is on the span of the context and is the answer.
CaughtIsKnown ==
    hasPanicked /\ way \in {"out", "over"} =>
      /\ answer = "maintenance"
      /\ current # 0 => HasError(spans[current].events)

\* The last Telemetry of the chain, once left, has told of it.
LeftTells ==
    \A s \in DOMAIN spans :
      hasPanicked /\ spans[s].at > depth /\ LastTelemetry(spans[s].at)
        => TellsPanic(spans[s].events)

PanicIsKnown == PanicPasses /\ CaughtIsKnown /\ LeftTells

TraceInv ==
    /\ TraceTypeOK
    /\ SpansInOrder
    /\ \A s \in DOMAIN spans : SpanFine(spans[s].at, spans[s].events, depth)
    /\ PanicIsKnown

-----------------------------------------------------------------------------
\* A sequence of l and one of k events make one.
Joined(new, l, ev, k, m) ==
    /\ l \in Nat /\ k \in Nat /\ new \in Seq(Events) /\ Len(new) = l + k
    /\ DOMAIN new = 1..(l + k) /\ DOMAIN ev = 1..l /\ DOMAIN m = 1..k
    /\ \A i \in 1..l : i \in 1..(l + k) /\ new[i] = ev[i]
    /\ \A i \in 1..k : l + i \in 1..(l + k) /\ new[l + i] = m[i]
    /\ \A i \in 1..(l + k) : i \in 1..l \/ \E j \in 1..k : i = l + j

\* Concatenation of events is that.
LEMMA EventsMore ==
    ASSUME NEW ev \in Seq(Events), NEW m \in Seq(Events),
           NEW l, l = Len(ev), NEW k, k = Len(m), NEW new, new = ev \o m
    PROVE  Joined(new, l, ev, k, m)
<1>1. k \in Nat /\ l \in Nat /\ DOMAIN ev = 1..l /\ DOMAIN m = 1..k
  OBVIOUS
<1>2. /\ new \in Seq(Events) /\ Len(new) = l + k
      /\ \A i \in 1..(l + k) : new[i] = IF i <= l THEN ev[i] ELSE m[i - l]
  BY ConcatProperties
<1>3. DOMAIN new = 1..(l + k)
  BY <1>2
<1>4. \A i \in 1..l : i \in 1..(l + k) /\ new[i] = ev[i]
  BY <1>1, <1>2
<1>5. ASSUME NEW i \in 1..k
      PROVE  l + i \in 1..(l + k) /\ new[l + i] = m[i]
  <2>1. l + i \in 1..(l + k) /\ ~(l + i <= l) /\ (l + i) - l = i
    BY <1>1
  <2> QED
    BY <1>2, <2>1
<1>6. ASSUME NEW i \in 1..(l + k), i \notin 1..l
      PROVE  \E j \in 1..k : i = l + j
  <2>1. i - l \in 1..k /\ i = l + (i - l)
    BY <1>1, <1>6
  <2> QED
    BY <2>1
<1> QED
  BY <1>1, <1>2, <1>3, <1>4, <1>5, <1>6 DEF Joined

\* What is written to a span without an end, as long as its Telemetry is not
\* left or from outside of it.
LEMMA FineGrows ==
    ASSUME NEW at \in Nat, NEW d \in Nat, NEW ev \in Seq(Events), NEW m \in Seq(Events),
           SpanFine(at, ev, d),
           \A k \in 1..Len(m) : m[k].what # "end" /\ (m[k].by < at \/ at <= d)
    PROVE  SpanFine(at, ev \o m, d)
<1>1. PICK l, k, new : l = Len(ev) /\ k = Len(m) /\ new = ev \o m
  OBVIOUS
<1>2. /\ l \in Nat /\ k \in Nat /\ DOMAIN new = 1..(l + k) /\ DOMAIN ev = 1..l
      /\ \A i \in 1..l : i \in 1..(l + k) /\ new[i] = ev[i]
      /\ \A i \in 1..k : l + i \in 1..(l + k) /\ new[l + i] = m[i]
      /\ \A i \in 1..(l + k) : i \in 1..l \/ \E j \in 1..k : i = l + j
  <2>1. Joined(new, l, ev, k, m)
    <3>1. Joined(new, l, ev, k, m)
      BY <1>1, EventsMore
    <3> QED
      BY <3>1 DEF Joined
  <2> QED
    BY <2>1 DEF Joined
<1>3. Ends(new) = Ends(ev)
  <2>1. \A i \in 1..k : new[l + i].what # "end"
    BY <1>1, <1>2
  <2>2. \A i \in 1..(l + k) : i \notin 1..l => new[i].what # "end"
    BY <1>2, <2>1
  <2> QED
    BY <1>2, <2>2 DEF Ends
<1>4. ASSUME NEW i \in DOMAIN new, NEW j \in DOMAIN new, j \in Ends(new), j < i
      PROVE  new[i].by < at
  <2>1. j \in Ends(ev) /\ j \in DOMAIN ev
    BY <1>3, <1>4 DEF Ends
  <2>2. CASE i \in DOMAIN ev
    BY <1>2, <1>4, <2>1, <2>2 DEF SpanFine
  <2>3. CASE i \notin DOMAIN ev
    <3>1. PICK n \in 1..k : new[i] = m[n]
      BY <1>2, <2>3, ZenonT(40)
    <3>2. ~(at <= d)
      BY <2>1 DEF SpanFine
    <3> QED
      BY <1>1, <3>1, <3>2
  <2> QED
    BY <2>2, <2>3
<1>5. at > d => \E i \in DOMAIN new : Ends(new) = {i}
  BY <1>2, <1>3 DEF SpanFine
<1> QED
  BY <1>1, <1>3, <1>4, <1>5 DEF SpanFine

\* The span of a Telemetry that is left.
LEMMA FineEnds ==
    ASSUME NEW at \in Nat \ {0}, NEW ev \in Seq(Events), SpanFine(at, ev, at),
           NEW m \in Seq(Events), Len(m) = 3,
           m[1].what # "end", m[2].what # "end", m[3].what = "end"
    PROVE  SpanFine(at, ev \o m, at - 1)
<1>1. PICK l, k, new : l = Len(ev) /\ k = Len(m) /\ new = ev \o m
  OBVIOUS
<1>2. /\ l \in Nat /\ DOMAIN ev = 1..l /\ DOMAIN new = 1..(l + 3)
      /\ \A i \in 1..l : new[i] = ev[i]
      /\ new[l + 1] = m[1] /\ new[l + 2] = m[2] /\ new[l + 3] = m[3]
  <2>1. /\ l \in Nat /\ k \in Nat /\ DOMAIN new = 1..(l + k) /\ DOMAIN ev = 1..l
        /\ \A i \in 1..l : new[i] = ev[i]
        /\ \A i \in 1..k : new[l + i] = m[i]
    <3>1. Joined(new, l, ev, k, m)
      BY <1>1, EventsMore
    <3> QED
      BY <3>1 DEF Joined
  <2>2. k = 3 /\ 1 \in 1..k /\ 2 \in 1..k /\ 3 \in 1..k
    BY <1>1
  <2> QED
    BY <2>1, <2>2
<1>3. Ends(ev) = {}
  BY DEF SpanFine
<1>4. Ends(new) = {l + 3} /\ l + 3 \in DOMAIN new
  <2>1. \A i \in DOMAIN new : i \in DOMAIN ev \/ i = l + 1 \/ i = l + 2 \/ i = l + 3
    BY <1>2
  <2>2. \A i \in DOMAIN ev : new[i].what # "end"
    BY <1>2, <1>3 DEF Ends
  <2>3. l + 3 \in DOMAIN new
    BY <1>2
  <2> QED
    BY <1>2, <2>1, <2>2, <2>3 DEF Ends
<1>5. \A i, j \in DOMAIN new : j \in Ends(new) => ~(j < i)
  BY <1>2, <1>4
<1> QED
  BY <1>1, <1>4, <1>5 DEF SpanFine

\* What is on a span stays there.
LEMMA TellingGrows ==
    ASSUME NEW ev \in Seq(Events), NEW m \in Seq(Events)
    PROVE  /\ TellsPanic(ev) => TellsPanic(ev \o m)
           /\ HasError(ev) \/ (\E k \in 1..Len(m) : m[k].what = "error") => HasError(ev \o m)
<1>1. PICK l, k, new : l = Len(ev) /\ k = Len(m) /\ new = ev \o m
  OBVIOUS
<1>2. /\ \A i \in DOMAIN ev : i \in DOMAIN new /\ new[i] = ev[i]
      /\ \A i \in 1..Len(m) : l + i \in DOMAIN new /\ new[l + i] = m[i]
  <2>1. /\ l \in Nat /\ k \in Nat /\ DOMAIN new = 1..(l + k) /\ DOMAIN ev = 1..l
        /\ \A i \in 1..l : i \in 1..(l + k) /\ new[i] = ev[i]
        /\ \A i \in 1..k : l + i \in 1..(l + k) /\ new[l + i] = m[i]
    BY <1>1, EventsMore
  <2> QED
    BY <1>1, <2>1
<1>3. TellsPanic(ev) => TellsPanic(new)
  BY <1>2 DEF TellsPanic
<1>4. HasError(ev) \/ (\E i \in 1..Len(m) : m[i].what = "error") => HasError(new)
  BY <1>2 DEF HasError
<1> QED
  BY <1>1, <1>3, <1>4

\* The three events of a Telemetry that is left, after an error.
ErrorEnding(m) == Len(m) = 3 /\ m[2].what = "error status" /\ m[3].what = "end"

\* A span with an error that ends with an error status.
LEMMA EndTells ==
    ASSUME NEW ev \in Seq(Events), HasError(ev), NEW m \in Seq(Events), ErrorEnding(m)
    PROVE  TellsPanic(ev \o m)
<1>1. PICK l, k, new : l = Len(ev) /\ k = Len(m) /\ new = ev \o m
  OBVIOUS
<1>2. Joined(new, l, ev, k, m)
  BY <1>1, EventsMore
<1>3. k = 3
  BY <1>1 DEF ErrorEnding
<1>4. /\ l \in Nat /\ DOMAIN ev = 1..l /\ DOMAIN new = 1..(l + 3)
      /\ \A i \in 1..l : new[i] = ev[i]
      /\ new[l + 2] = m[2] /\ new[l + 3] = m[3]
  BY <1>2, <1>3 DEF Joined
<1>5. PICK e \in DOMAIN ev : ev[e].what = "error"
  BY DEF HasError
<1>6. /\ e \in DOMAIN new /\ l + 2 \in DOMAIN new /\ (l + 2) + 1 \in DOMAIN new
      /\ e < l + 2 /\ (l + 2) + 1 = l + 3 /\ new[e] = ev[e]
  BY <1>4
<1>7. PICK j : j = l + 2
  OBVIOUS
<1>8. new[j].what = "error status" /\ new[j + 1].what = "end" /\ new[e].what = "error"
  BY <1>4, <1>5, <1>6, <1>7 DEF ErrorEnding
<1>9. e \in DOMAIN new /\ j \in DOMAIN new /\ j + 1 \in DOMAIN new /\ e < j
  BY <1>6, <1>7
<1>10. TellsPanic(new)
  BY <1>8, <1>9 DEF TellsPanic
<1> QED
  BY <1>1, <1>10

-----------------------------------------------------------------------------
WritesTo(c, m) == spans' = [spans EXCEPT ![c].events = @ \o m]

\* One span is written to.
LEMMA SpanWritten ==
    ASSUME TraceTypeOK, NEW c \in DOMAIN spans, NEW m \in Seq(Events), WritesTo(c, m)
    PROVE  /\ spans' \in Seq(Spans) /\ Len(spans') = Len(spans) /\ DOMAIN spans' = DOMAIN spans
           /\ \A s \in DOMAIN spans : spans'[s].at = spans[s].at
           /\ \A s \in DOMAIN spans : s # c => spans'[s].events = spans[s].events
           /\ spans'[c].events = spans[c].events \o m
<1>1. PICK l \in Nat : l = Len(spans) /\ DOMAIN spans = 1..l /\ spans \in [1..l -> Spans]
  BY DEF TraceTypeOK
<1>2. spans[c] \in Spans /\ spans[c].events \in Seq(Events)
  BY <1>1 DEF Spans
<1>3. PICK ev : ev = spans[c].events \o m /\ ev \in Seq(Events)
  BY <1>2, ConcatProperties
<1>4. PICK x : x = [spans[c] EXCEPT !.events = ev]
  OBVIOUS
<1>5. x \in Spans /\ x.at = spans[c].at /\ x.events = ev
  BY <1>2, <1>3, <1>4 DEF Spans
<1>6. spans' = [spans EXCEPT ![c] = x]
  BY <1>3, <1>4 DEF WritesTo
<1>7. spans' \in [1..l -> Spans] /\ spans'[c] = x /\ \A s \in 1..l : s # c => spans'[s] = spans[s]
  BY <1>1, <1>5, <1>6
<1>8. spans' \in Seq(Spans) /\ Len(spans') = l /\ DOMAIN spans' = 1..l
  BY <1>1, <1>7
<1> QED
  BY <1>1, <1>3, <1>5, <1>7, <1>8

\* What is done to the spans while no Telemetry is left.
SpansCarry ==
    /\ spans' \in Seq(Spans) /\ Len(spans') = Len(spans) /\ DOMAIN spans' = DOMAIN spans
    /\ \A s \in DOMAIN spans :
         /\ spans'[s].at = spans[s].at
         /\ SpanFine(spans[s].at, spans'[s].events, depth)
         /\ TellsPanic(spans[s].events) => TellsPanic(spans'[s].events)
         /\ HasError(spans[s].events) => HasError(spans'[s].events)

\* A step that leaves the spans carries them.
LEMMA SameSpansCarry ==
    ASSUME TraceInv, spans' = spans
    PROVE  SpansCarry
BY DEF SpansCarry, TraceInv, TraceTypeOK

\* One span and its place in the chain.
LEMMA SpanTyped ==
    ASSUME TraceTypeOK, NEW s \in DOMAIN spans
    PROVE  /\ spans[s] \in Spans /\ spans[s].at \in 1..Len(chain) /\ spans[s].at \in Nat \ {0}
           /\ spans[s].events \in Seq(Events) /\ chain[spans[s].at] = "telemetry"
           /\ Len(chain) \in Nat /\ depth \in Nat
<1>1. spans[s] \in Spans /\ Len(chain) \in Nat
  BY DEF TraceTypeOK
<1> QED
  BY <1>1 DEF Spans, TraceTypeOK

\* What is written without an end, from outside of a Telemetry that is left.
QuietBy(m, by) == \A k \in 1..Len(m) : m[k].what # "end" /\ m[k].by = by

\* So does one that writes to a span quietly.
LEMMA WritingCarries ==
    ASSUME TraceInv, NEW c \in DOMAIN spans, NEW m \in Seq(Events), WritesTo(c, m),
           NEW by \in Nat, QuietBy(m, by), by < spans[c].at \/ spans[c].at <= depth
    PROVE  /\ SpansCarry
           /\ (\E k \in 1..Len(m) : m[k].what = "error") => HasError(spans'[c].events)
<1>1. TraceTypeOK
  BY DEF TraceInv
<1>2. /\ spans' \in Seq(Spans) /\ Len(spans') = Len(spans) /\ DOMAIN spans' = DOMAIN spans
      /\ \A s \in DOMAIN spans : spans'[s].at = spans[s].at
      /\ \A s \in DOMAIN spans : s # c => spans'[s].events = spans[s].events
      /\ spans'[c].events = spans[c].events \o m
  BY <1>1, SpanWritten
<1>3. /\ spans[c].at \in Nat /\ spans[c].events \in Seq(Events) /\ depth \in Nat
  BY <1>1, SpanTyped
<1>4. PICK at, ev, d : at = spans[c].at /\ ev = spans[c].events /\ d = depth
  OBVIOUS
<1>5. SpanFine(at, ev \o m, d)
  <2>1. SpanFine(at, ev, d)
    BY <1>4 DEF TraceInv
  <2>2. \A k \in 1..Len(m) : m[k].what # "end" /\ (m[k].by < at \/ at <= d)
    BY <1>4 DEF QuietBy
  <2>3. at \in Nat /\ d \in Nat /\ ev \in Seq(Events)
    BY <1>3, <1>4
  <2> QED
    BY <2>1, <2>2, <2>3, FineGrows
<1>6. /\ TellsPanic(ev) => TellsPanic(ev \o m)
      /\ HasError(ev) \/ (\E k \in 1..Len(m) : m[k].what = "error") => HasError(ev \o m)
  BY <1>3, <1>4, TellingGrows
<1>7. ASSUME NEW s \in DOMAIN spans
      PROVE  /\ spans'[s].at = spans[s].at
             /\ SpanFine(spans[s].at, spans'[s].events, depth)
             /\ TellsPanic(spans[s].events) => TellsPanic(spans'[s].events)
             /\ HasError(spans[s].events) => HasError(spans'[s].events)
  <2>1. CASE s = c
    BY <1>2, <1>4, <1>5, <1>6, <2>1
  <2>2. CASE s # c
    BY <1>2, <2>2 DEF TraceInv
  <2> QED
    BY <2>1, <2>2
<1> QED
  BY <1>2, <1>4, <1>6, <1>7 DEF SpansCarry

-----------------------------------------------------------------------------
EventOf(what, by) == [what |-> what, by |-> by]

\* The span of the context is told.
LEMMA ToldCarries ==
    ASSUME TraceInv, NEW by \in Nat, spans' = Told("fields", by),
           current # 0 => by < spans[current].at \/ spans[current].at <= depth
    PROVE  SpansCarry
<1>1. CASE current = 0
  BY <1>1, SameSpansCarry DEF Told
<1>2. CASE current # 0
  <2>1. TraceTypeOK /\ current \in DOMAIN spans
    BY <1>2 DEF TraceInv, TraceTypeOK
  <2>2. PICK e : e = [what |-> "fields", by |-> by]
    OBVIOUS
  <2>3. e \in Events /\ e.what # "end" /\ e.by = by
    BY <2>2 DEF Events
  <2>4. <<e>> \in Seq(Events) /\ Len(<<e>>) = 1 /\ <<e>>[1] = e
    BY <2>3
  <2>5. QuietBy(<<e>>, by)
    BY <2>3, <2>4 DEF QuietBy
  <2>6. spans[current].events \in Seq(Events)
    BY <2>1, SpanTyped
  <2>7. Append(spans[current].events, e) = spans[current].events \o <<e>>
    BY <2>3, <2>6, AppendIsConcat
  <2>8. WritesTo(current, <<e>>)
    <3>1. spans' = [spans EXCEPT ![current].events = Append(@, e)]
      BY <1>2, <2>2 DEF Told
    <3> QED
      BY <2>7, <3>1 DEF WritesTo
  <2>9. by < spans[current].at \/ spans[current].at <= depth
    BY <1>2
  <2>10. PICK m, c : m = <<e>> /\ c = current
    OBVIOUS
  <2>11. c \in DOMAIN spans /\ m \in Seq(Events) /\ WritesTo(c, m) /\ QuietBy(m, by)
    BY <2>1, <2>4, <2>5, <2>8, <2>10
  <2>12. by < spans[c].at \/ spans[c].at <= depth
    BY <2>9, <2>10
  <2> QED
    BY <2>11, <2>12, WritingCarries
<1> QED
  BY <1>1, <1>2

\* The types after a step that does not start a span.
LEMMA CarryTypes ==
    ASSUME TraceTypeOK, SpansCarry, UNCHANGED <<chain, current>>,
           depth' \in 0..Len(chain), way' \in {"in", "out", "panic", "over", "crash"},
           answer' \in Answers, acts' \in Nat, hasPanicked' \in BOOLEAN
    PROVE  TraceTypeOK'
<1>1. Spans' = Spans
  BY DEF Spans
<1>2. \A s \in DOMAIN spans' : chain[spans'[s].at] = "telemetry"
  BY DEF TraceTypeOK, SpansCarry
<1>3. spans' \in Seq(Spans)' /\ current' = Len(spans')
  BY <1>1 DEF TraceTypeOK, SpansCarry
<1> QED
  BY <1>2, <1>3 DEF TraceTypeOK

\* A middleware is entered; Telemetry starts a span.
LEMMA EnterKeeps ==
    ASSUME TraceInv, Enter
    PROVE  TraceInv'
<1>1. /\ TraceTypeOK /\ way = "in" /\ depth < Len(chain) /\ depth' = depth + 1
      /\ UNCHANGED <<chain, way, answer, acts, hasPanicked>>
      /\ ~hasPanicked /\ depth \in Nat /\ Len(chain) \in Nat
      /\ \A s \in DOMAIN spans : spans[s].at <= depth
  BY DEF TraceInv, Enter, PanicIsKnown, PanicPasses, SpansInOrder, TraceTypeOK
<1>2. PanicIsKnown'
  BY <1>1 DEF PanicIsKnown, PanicPasses, CaughtIsKnown, LeftTells
<1>3. \A s \in DOMAIN spans : /\ spans[s].at \in Nat /\ spans[s].at <= depth
                              /\ Ends(spans[s].events) = {}
                              /\ SpanFine(spans[s].at, spans[s].events, depth + 1)
  <2>1. ASSUME NEW s \in DOMAIN spans
        PROVE  /\ spans[s].at \in Nat /\ spans[s].at <= depth
               /\ Ends(spans[s].events) = {}
               /\ SpanFine(spans[s].at, spans[s].events, depth + 1)
    <3>1. spans[s].at \in Nat /\ spans[s].at <= depth
      BY <1>1, SpanTyped
    <3>2. Ends(spans[s].events) = {}
      BY <3>1 DEF TraceInv, SpanFine
    <3> QED
      BY <1>1, <3>1, <3>2 DEF SpanFine
  <2> QED
    BY <2>1
<1>4. CASE chain[depth + 1] = "telemetry"
  <2>1. PICK x, l : x = [at |-> depth + 1, events |-> <<>>] /\ l = Len(spans)
    OBVIOUS
  <2>2. /\ x \in Spans /\ x.at = depth + 1 /\ x.events = <<>>
        /\ l \in Nat /\ spans \in Seq(Spans) /\ current' = l + 1
        /\ spans' = Append(spans, x)
    BY <1>1, <1>4, <2>1 DEF Spans, Enter, TraceTypeOK
  <2>3. /\ spans' \in Seq(Spans) /\ Len(spans') = l + 1
        /\ DOMAIN spans' = 1..(l + 1) /\ DOMAIN spans = 1..l
        /\ spans'[l + 1] = x /\ \A s \in 1..l : spans'[s] = spans[s]
    BY <2>1, <2>2, AppendProperties
  <2> \A s \in 1..(l + 1) : s \in 1..l \/ s = l + 1
    <3>1. l \in Nat
      BY <2>2
    <3> QED
      BY <3>1
  <2>4. TraceTypeOK'
    <3>1. Spans' = Spans
      BY <1>1 DEF Spans
    <3>2. \A s \in 1..(l + 1) : chain[spans'[s].at] = "telemetry"
      <4>1. \A s \in 1..(l + 1) : s \in 1..l \/ s = l + 1
        BY <2>2
      <4> QED
        BY <1>1, <1>4, <2>2, <2>3, <4>1 DEF TraceTypeOK
    <3> QED
      BY <1>1, <2>2, <2>3, <3>1, <3>2 DEF TraceTypeOK
  <2>5. SpansInOrder'
    <3>1. ASSUME NEW s \in 1..(l + 1), NEW t \in 1..(l + 1), s < t
          PROVE  spans'[s].at < spans'[t].at
      <4>1. CASE t = l + 1
        <5>1. s \in 1..l
          BY <2>2, <3>1, <4>1
        <5>2. spans'[s] = spans[s] /\ spans'[t] = x
          BY <2>3, <4>1, <5>1
        <5>3. spans[s].at \in Nat /\ spans[s].at <= depth
          BY <1>3, <2>3, <5>1
        <5> QED
          BY <1>1, <2>2, <5>2, <5>3
      <4>2. CASE t \in 1..l
        <5>1. s \in 1..l
          BY <2>2, <3>1, <4>2
        <5> QED
          BY <2>3, <3>1, <4>2, <5>1 DEF TraceInv, SpansInOrder
      <4> QED
        BY <4>1, <4>2
    <3>2. ASSUME NEW i \in 1..(depth + 1), chain[i] = "telemetry"
          PROVE  \E s \in 1..(l + 1) : spans'[s].at = i
      <4>1. CASE i = depth + 1
        BY <2>2, <2>3, <4>1
      <4>2. CASE i \in 1..depth
        <5>1. PICK s \in 1..l : spans[s].at = i
          BY <2>3, <3>2, <4>2 DEF TraceInv, SpansInOrder
        <5> QED
          BY <2>2, <2>3, <5>1
      <4> QED
        BY <1>1, <4>1, <4>2
    <3>3. \A s \in 1..(l + 1) : spans'[s].at <= depth + 1
      <4>1. \A s \in 1..(l + 1) : s \in 1..l \/ s = l + 1
        BY <2>2
      <4> QED
        BY <1>1, <1>3, <2>2, <2>3, <4>1
    <3> QED
      BY <1>1, <2>3, <3>1, <3>2, <3>3 DEF SpansInOrder
  <2>6. ASSUME NEW s \in 1..(l + 1)
        PROVE  SpanFine(spans'[s].at, spans'[s].events, depth + 1)
    <3>1. CASE s = l + 1
      <4>1. Ends(<<>>) = {}
        BY DEF Ends
      <4>2. SpanFine(depth + 1, <<>>, depth + 1)
        BY <1>1, <4>1 DEF SpanFine
      <4>3. spans'[s] = x
        BY <2>3, <3>1
      <4>4. spans'[s].at = depth + 1 /\ spans'[s].events = <<>>
        BY <2>2, <4>3
      <4> QED
        BY <4>2, <4>4
    <3>2. CASE s \in 1..l
      BY <1>3, <2>3, <3>2
    <3> QED
      BY <3>1, <3>2
  <2>7. \A s \in DOMAIN spans' : SpanFine(spans[s].at, spans[s].events, depth)'
    BY <1>1, <2>3, <2>6 DEF SpanFine, Ends
  <2> QED
    BY <1>2, <2>4, <2>5, <2>7 DEF TraceInv
<1>5. CASE chain[depth + 1] # "telemetry"
  <2>1. spans' = spans /\ current' = current
    BY <1>5 DEF Enter
  <2>2. TraceTypeOK'
    BY <1>1, <2>1 DEF TraceTypeOK, Spans
  <2>3. SpansInOrder'
    <3>1. \A i \in 1..(depth + 1) : i \in 1..depth \/ i = depth + 1
      BY <1>1
    <3>2. \A s \in DOMAIN spans : spans[s].at <= depth + 1
      BY <1>1, <1>3
    <3> QED
      BY <1>1, <1>5, <2>1, <3>1, <3>2 DEF TraceInv, SpansInOrder
  <2>4. \A s \in DOMAIN spans' : SpanFine(spans[s].at, spans[s].events, depth)'
    BY <1>1, <1>3, <2>1 DEF SpanFine, Ends
  <2> QED
    BY <1>2, <2>2, <2>3, <2>4 DEF TraceInv
<1> QED
  BY <1>4, <1>5

\* After a step in which no Telemetry is entered or left.
LEMMA CarryKeeps ==
    ASSUME TraceInv, SpansCarry, TraceTypeOK', UNCHANGED <<chain, current>>,
           depth' = depth \/ (depth' = depth - 1 /\ chain[depth] # "telemetry" /\ depth > 0),
           way' = "in" => way = "in" /\ depth' = depth,
           PanicIsKnown'
    PROVE  TraceInv'
<1>1. TraceTypeOK /\ depth \in Nat /\ DOMAIN spans' = DOMAIN spans
  BY DEF TraceInv, TraceTypeOK, SpansCarry
<1>2. SpansInOrder'
  <2>1. \A i \in 1..depth' : i \in 1..depth
    BY <1>1
  <2> QED
    BY <1>1, <2>1 DEF TraceInv, SpansInOrder, SpansCarry
<1>3. ASSUME NEW s \in DOMAIN spans
      PROVE  SpanFine(spans[s].at, spans[s].events, depth)'
  <2>1. /\ spans'[s].at = spans[s].at /\ spans[s].at \in Nat
        /\ SpanFine(spans[s].at, spans'[s].events, depth)
        /\ chain[spans[s].at] = "telemetry"
    BY <1>1, SpanTyped DEF SpansCarry
  <2>2. SpanFine(spans'[s].at, spans'[s].events, depth')
    <3>1. CASE depth' = depth
      BY <2>1, <3>1
    <3>2. CASE depth' = depth - 1 /\ chain[depth] # "telemetry" /\ depth > 0
      <4>1. spans[s].at # depth
        BY <2>1, <3>2
      <4>2. /\ spans[s].at <= depth - 1 => spans[s].at <= depth
            /\ spans[s].at > depth - 1 => spans[s].at > depth
        BY <1>1, <2>1, <4>1
      <4> QED
        BY <2>1, <3>2, <4>2 DEF SpanFine
    <3> QED
      BY <3>1, <3>2
  <2> QED
    BY <2>2 DEF SpanFine, Ends
<1> QED
  BY <1>1, <1>2, <1>3 DEF TraceInv

\* Since the one that is left, what was told of a panic stays told.
LEMMA CarryTells ==
    ASSUME TraceInv, SpansCarry, UNCHANGED <<chain, current, hasPanicked>>,
           depth' = depth - 1, chain[depth] # "telemetry", depth > 0
    PROVE  LeftTells'
<1>1. TraceTypeOK /\ DOMAIN spans' = DOMAIN spans
  BY DEF TraceInv, SpansCarry
<1>2. ASSUME NEW s \in DOMAIN spans, hasPanicked, spans'[s].at > depth - 1,
             NEW at, at = spans[s].at, LastTelemetry(at)'
      PROVE  TellsPanic(spans'[s].events)
  <2>1. /\ spans'[s].at = spans[s].at
        /\ spans[s].at \in Nat /\ depth \in Nat /\ spans[s].at # depth
    BY <1>1, SpanTyped DEF SpansCarry
  <2>2. spans[s].at > depth
    BY <1>2, <2>1
  <2>3. LastTelemetry(at)
    BY <1>2 DEF LastTelemetry
  <2>4. TellsPanic(spans[s].events)
    BY <1>2, <2>2, <2>3 DEF TraceInv, PanicIsKnown, LeftTells
  <2> QED
    BY <2>4 DEF SpansCarry
<1>3. ASSUME NEW s \in DOMAIN spans, hasPanicked, spans'[s].at > depth - 1,
             LastTelemetry(spans[s].at)'
      PROVE  TellsPanic(spans[s].events)'
  <2>1. PICK at : at = spans[s].at
    OBVIOUS
  <2>2. spans'[s].at = at
    BY <2>1 DEF SpansCarry
  <2>3. LastTelemetry(at)'
    BY <1>3, <2>2 DEF LastTelemetry
  <2>4. TellsPanic(spans'[s].events)
    BY <1>2, <1>3, <2>1, <2>3
  <2> QED
    BY <2>4 DEF TellsPanic
<1> QED
  BY <1>1, <1>3 DEF LeftTells

\* The handler answers, observes, panics or returns.
LEMMA ActKeeps ==
    ASSUME TraceInv, Act
    PROVE  TraceInv'
<1>1. /\ TraceTypeOK /\ way = "in" /\ depth = Len(chain) /\ acts' = acts + 1
      /\ UNCHANGED <<chain, depth, current>>
      /\ hasPanicked = FALSE /\ depth \in Nat /\ acts' \in Nat
      /\ \A s \in DOMAIN spans : spans[s].at <= depth
  BY DEF TraceInv, Act, PanicIsKnown, PanicPasses, SpansInOrder, TraceTypeOK
<1>2. /\ answer' \in Answers /\ hasPanicked' \in BOOLEAN /\ way' \in {"in", "panic", "out"}
      /\ hasPanicked' <=> way' = "panic"
  <2>1. answer' \in Answers
    BY <1>1 DEF Act, TraceTypeOK, Answers
  <2> QED
    BY <1>1, <2>1 DEF Act
<1>3. SpansCarry
  <2>1. CASE spans' = spans
    BY <2>1, SameSpansCarry
  <2>2. CASE spans' = Told("fields", depth + 1)
    <3>1. current # 0 => spans[current].at <= depth
      BY <1>1 DEF TraceTypeOK
    <3>2. PICK by \in Nat : by = depth + 1
      BY <1>1
    <3> QED
      BY <2>2, <3>1, <3>2, ToldCarries
  <2> QED
    BY <2>1, <2>2 DEF Act
<1>4. TraceTypeOK'
  BY <1>1, <1>2, <1>3, CarryTypes DEF TraceTypeOK
<1>5. PanicIsKnown'
  <2>1. PanicPasses'
    BY <1>1, <1>2 DEF PanicPasses
  <2>2. CaughtIsKnown'
    BY <1>1, <1>2 DEF CaughtIsKnown
  <2>3. LeftTells'
    <3>1. \A s \in DOMAIN spans' : ~(spans'[s].at > depth)
      <4>1. ASSUME NEW s \in DOMAIN spans
            PROVE  ~(spans'[s].at > depth)
        BY <1>1, <1>3, SpanTyped DEF SpansCarry
      <4> QED
        BY <1>3, <4>1 DEF SpansCarry
    <3> QED
      BY <1>1, <3>1 DEF LeftTells
  <2> QED
    BY <2>1, <2>2, <2>3 DEF PanicIsKnown
<1> QED
  BY <1>1, <1>3, <1>4, <1>5, CarryKeeps

\* The sequences that are written.
LEMMA TwoEvents ==
    ASSUME NEW e \in Events, NEW f \in Events, NEW m, m = <<e, f>>
    PROVE  m \in Seq(Events) /\ Len(m) = 2 /\ m[1] = e /\ m[2] = f
OBVIOUS

\* Three of them.
LEMMA ThreeEvents ==
    ASSUME NEW e \in Events, NEW f \in Events, NEW g \in Events, NEW m, m = <<e, f, g>>
    PROVE  m \in Seq(Events) /\ Len(m) = 3 /\ m[1] = e /\ m[2] = f /\ m[3] = g
OBVIOUS

\* Recovery is left: what it catches it answers, and writes to the span.
LEMMA RecoverKeeps ==
    ASSUME TraceInv, way \in {"out", "panic"}, Recover, depth' = depth - 1,
           UNCHANGED <<chain, current, acts, hasPanicked>>
    PROVE  TraceInv'
<1>1. /\ TraceTypeOK /\ depth > 0 /\ chain[depth] = "recovery" /\ way' = "out"
      /\ depth \in Nat /\ answer \in Answers /\ PanicIsKnown
  <2>1. depth > 0 /\ chain[depth] = "recovery" /\ way' = "out"
    BY DEF Recover
  <2> QED
    BY <2>1 DEF TraceInv, TraceTypeOK
<1>2. /\ SpansCarry
      /\ way = "panic" /\ current # 0 => HasError(spans'[current].events)
  <2>1. CASE way = "out" \/ current = 0
    BY <2>1, SameSpansCarry DEF Recover
  <2>2. CASE way = "panic" /\ current # 0
    <3>1. PICK e, f, m, c : /\ e = [what |-> "error", by |-> depth]
                            /\ f = [what |-> "error status", by |-> depth]
                            /\ m = <<e, f>> /\ c = current
      OBVIOUS
    <3>2. c \in DOMAIN spans
      <4>1. current \in DOMAIN spans
        BY <2>2 DEF TraceInv, TraceTypeOK
      <4> QED
        BY <3>1, <4>1
    <3>3. /\ m \in Seq(Events) /\ Len(m) = 2 /\ m[1] = e /\ m[2] = f
          /\ e.what = "error" /\ f.what = "error status" /\ e.by = depth /\ f.by = depth
      <4>1. e \in Events /\ f \in Events
        BY <1>1, <3>1 DEF Events
      <4>2. m \in Seq(Events) /\ Len(m) = 2 /\ m[1] = e /\ m[2] = f
        BY <3>1, <4>1, TwoEvents
      <4>3. e.what = "error" /\ f.what = "error status" /\ e.by = depth /\ f.by = depth
        BY <3>1
      <4> QED
        BY <4>2, <4>3
    <3>4. QuietBy(m, depth) /\ \E k \in 1..Len(m) : m[k].what = "error"
      <4> Len(m) = 2
        BY <3>3
      <4>1. \A k \in 1..Len(m) : k = 1 \/ k = 2
        OBVIOUS
      <4>2. 1 \in 1..Len(m) /\ m[1].what = "error"
        <5>1. 1 \in 1..Len(m)
          OBVIOUS
        <5> QED
          BY <3>3, <5>1
      <4>3. m[1].what # "end" /\ m[2].what # "end" /\ m[1].by = depth /\ m[2].by = depth
        BY <3>3
      <4>4. QuietBy(m, depth)
        BY <4>1, <4>3 DEF QuietBy
      <4> QED
        BY <4>2, <4>4
    <3>5. WritesTo(c, m)
      BY <2>2, <3>1 DEF Recover, WritesTo
    <3>6. depth < spans[c].at \/ spans[c].at <= depth
      BY <1>1, <3>2, SpanTyped
    <3>7. SpansCarry /\ HasError(spans'[c].events)
      BY <1>1, <3>2, <3>3, <3>4, <3>5, <3>6, WritingCarries
    <3> QED
      BY <3>1, <3>7
  <2> QED
    BY <2>1, <2>2
<1>3. answer' \in Answers /\ (way = "panic" => answer' = "maintenance")
      /\ (way = "out" => answer' = answer)
  BY <1>1 DEF Recover, Answers
<1>4. TraceTypeOK'
  BY <1>1, <1>2, <1>3, CarryTypes DEF TraceTypeOK
<1>5. PanicIsKnown'
  <2>1. PanicPasses'
    BY <1>1 DEF PanicPasses
  <2>2. CaughtIsKnown'
    <3>1. current # 0 => current \in DOMAIN spans
      BY <1>1 DEF TraceTypeOK
    <3>2. hasPanicked /\ current # 0 => HasError(spans'[current].events)
      BY <1>1, <1>2, <3>1 DEF PanicIsKnown, CaughtIsKnown, SpansCarry
    <3>3. hasPanicked => answer' = "maintenance"
      BY <1>1, <1>3 DEF PanicIsKnown, CaughtIsKnown
    <3> QED
      BY <3>2, <3>3 DEF CaughtIsKnown, HasError
  <2>3. LeftTells'
    BY <1>1, <1>2, CarryTells
  <2> QED
    BY <2>1, <2>2, <2>3 DEF PanicIsKnown
<1> QED
  BY <1>1, <1>2, <1>4, <1>5, CarryKeeps

\* A middleware that observes after Next is left.
LEMMA AuditKeeps ==
    ASSUME TraceInv, way \in {"out", "panic"}, Audit, depth' = depth - 1,
           UNCHANGED <<chain, current, acts, hasPanicked>>
    PROVE  TraceInv'
<1>1. /\ TraceTypeOK /\ depth > 0 /\ chain[depth] = "audit" /\ way' = way
      /\ depth \in Nat /\ answer' = answer /\ PanicIsKnown
  BY DEF TraceInv, Audit, TraceTypeOK
<1>2. SpansCarry
  <2>1. CASE spans' = spans
    BY <2>1, SameSpansCarry
  <2>2. CASE spans' = Told("fields", depth)
    <3>1. ASSUME current # 0
          PROVE  depth < spans[current].at \/ spans[current].at <= depth
      <4>1. PICK c \in DOMAIN spans : c = current
        BY <1>1, <3>1 DEF TraceTypeOK
      <4>2. spans[c].at \in Nat
        BY <1>1, SpanTyped
      <4> QED
        BY <1>1, <4>1, <4>2
    <3> QED
      BY <1>1, <2>2, <3>1, ToldCarries
  <2> QED
    BY <2>1, <2>2 DEF Audit
<1>3. TraceTypeOK'
  BY <1>1, <1>2, CarryTypes DEF TraceTypeOK
<1>4. PanicIsKnown'
  <2>1. PanicPasses'
    <3>1. \A i \in (depth' + 1)..Len(chain) : i = depth \/ i \in (depth + 1)..Len(chain)
      BY <1>1
    <3> QED
      BY <1>1, <3>1 DEF PanicIsKnown, PanicPasses
  <2>2. CaughtIsKnown'
    <3>1. current # 0 => current \in DOMAIN spans
      BY <1>1 DEF TraceTypeOK
    <3>2. hasPanicked /\ way \in {"out", "over"} =>
            answer = "maintenance" /\ (current # 0 => HasError(spans'[current].events))
      BY <1>1, <1>2, <3>1 DEF PanicIsKnown, CaughtIsKnown, SpansCarry
    <3> QED
      BY <1>1, <3>2 DEF CaughtIsKnown, HasError
  <2>3. LeftTells'
    BY <1>1, <1>2, CarryTells
  <2> QED
    BY <2>1, <2>2, <2>3 DEF PanicIsKnown
<1> QED
  BY <1>1, <1>2, <1>3, <1>4, CarryKeeps

\* Telemetry is left: its span gets the answer as its status and its end.
LEMMA EndSpanKeeps ==
    ASSUME TraceInv, way \in {"out", "panic"}, EndSpan, depth' = depth - 1,
           UNCHANGED <<chain, current, acts, hasPanicked>>
    PROVE  TraceInv'
<1>1. depth > 0 /\ chain[depth] = "telemetry" /\ way' = way /\ answer' = answer
  BY DEF EndSpan
<1>2. /\ TraceTypeOK /\ SpansInOrder /\ PanicPasses /\ CaughtIsKnown /\ LeftTells
      /\ \A s \in DOMAIN spans : SpanFine(spans[s].at, spans[s].events, depth)
  BY DEF TraceInv, PanicIsKnown
<1>3. depth \in Nat \ {0} /\ Len(chain) \in Nat /\ answer \in Answers /\ way' # "in"
  BY <1>1, <1>2 DEF TraceTypeOK
<1>4. PICK c : c = Mine
  OBVIOUS
<1>5. /\ c \in DOMAIN spans /\ spans[c].at = depth
      /\ \A s \in DOMAIN spans : s # c => spans[s].at # depth
  <2>1. PICK s \in DOMAIN spans : spans[s].at = depth
    BY <1>1, <1>2, <1>3 DEF SpansInOrder
  <2>2. c \in DOMAIN spans /\ spans[c].at = depth
    BY <1>4, <2>1 DEF Mine
  <2>3. ASSUME NEW t \in DOMAIN spans, t # c
        PROVE  spans[t].at # depth
    <3>1. t \in Nat /\ c \in Nat
      BY <1>2, <2>2 DEF TraceTypeOK
    <3>2. t < c \/ c < t
      BY <2>3, <3>1
    <3>3. spans[t].at < spans[c].at \/ spans[c].at < spans[t].at
      BY <1>2, <2>2, <3>2 DEF SpansInOrder
    <3> QED
      BY <1>3, <2>2, <3>3
  <2> QED
    BY <2>2, <2>3
<1>6. PICK e, f, g, m : /\ e = [what |-> "fields", by |-> depth]
                        /\ f = [what |-> StatusOf(answer), by |-> depth]
                        /\ g = [what |-> "end", by |-> depth]
                        /\ m = <<e, f, g>>
  OBVIOUS
<1>7. /\ StatusOf(answer) \in {"unset", "status ok", "error status"}
      /\ answer = "maintenance" => StatusOf(answer) = "error status"
  BY <1>3 DEF StatusOf, Answers
<1>8. /\ e \in Events /\ f \in Events /\ g \in Events
      /\ e.what # "end" /\ f.what = StatusOf(answer) /\ f.what # "end" /\ g.what = "end"
  BY <1>3, <1>6, <1>7 DEF Events
<1>9. m \in Seq(Events) /\ Len(m) = 3 /\ m[1] = e /\ m[2] = f /\ m[3] = g
  BY <1>6, <1>8, ThreeEvents
<1>10. WritesTo(c, m)
  BY <1>4, <1>6 DEF EndSpan, WritesTo
<1>11. /\ spans' \in Seq(Spans) /\ Len(spans') = Len(spans) /\ DOMAIN spans' = DOMAIN spans
       /\ \A s \in DOMAIN spans : spans'[s].at = spans[s].at
       /\ \A s \in DOMAIN spans : s # c => spans'[s].events = spans[s].events
       /\ spans'[c].events = spans[c].events \o m
  BY <1>2, <1>5, <1>9, <1>10, SpanWritten
<1>12. spans[c].events \in Seq(Events)
  BY <1>2, <1>5, SpanTyped
<1>13. PICK ev, at : ev = spans[c].events /\ at = depth
  OBVIOUS
<1>14. SpanFine(at, ev \o m, at - 1)
  <2>1. SpanFine(at, ev, at)
    BY <1>2, <1>5, <1>13
  <2>2. at \in Nat \ {0} /\ ev \in Seq(Events)
    BY <1>3, <1>12, <1>13
  <2>3. m[1].what # "end" /\ m[2].what # "end" /\ m[3].what = "end"
    BY <1>8, <1>9
  <2> QED
    BY <1>9, <2>1, <2>2, <2>3, FineEnds
<1>15. TraceTypeOK'
  <2>1. Spans' = Spans
    BY DEF Spans
  <2>2. \A s \in DOMAIN spans' : chain[spans'[s].at] = "telemetry"
    BY <1>2, <1>11 DEF TraceTypeOK
  <2>3. spans' \in Seq(Spans)' /\ current' = Len(spans') /\ depth' \in 0..Len(chain)
    BY <1>2, <1>3, <1>11, <2>1 DEF TraceTypeOK
  <2> QED
    BY <1>1, <1>2, <2>2, <2>3 DEF TraceTypeOK
<1>16. SpansInOrder'
  <2>1. \A i \in 1..(depth - 1) : i \in 1..depth
    BY <1>3
  <2>2. \A s, t \in DOMAIN spans' : s < t => spans'[s].at < spans'[t].at
    BY <1>2, <1>11 DEF SpansInOrder
  <2>3. \A i \in 1..(depth - 1) :
          chain[i] = "telemetry" => \E s \in DOMAIN spans' : spans'[s].at = i
    BY <1>2, <1>11, <2>1 DEF SpansInOrder
  <2> QED
    BY <1>3, <2>2, <2>3 DEF SpansInOrder
<1>17. ASSUME NEW s \in DOMAIN spans
       PROVE  SpanFine(spans[s].at, spans[s].events, depth)'
  <2>1. SpanFine(spans'[s].at, spans'[s].events, depth - 1)
    <3>1. CASE s = c
      BY <1>5, <1>11, <1>13, <1>14, <3>1
    <3>2. CASE s # c
      <4>1. /\ spans[s].at \in Nat /\ spans[s].at # depth
            /\ spans'[s].at = spans[s].at /\ spans'[s].events = spans[s].events
        BY <1>2, <1>5, <1>11, <3>2, SpanTyped
      <4>2. /\ spans[s].at <= depth - 1 => spans[s].at <= depth
            /\ spans[s].at > depth - 1 => spans[s].at > depth
        BY <1>3, <4>1
      <4> QED
        BY <1>2, <4>1, <4>2 DEF SpanFine
    <3> QED
      BY <3>1, <3>2
  <2> QED
    BY <2>1 DEF SpanFine, Ends
<1>18. PanicPasses'
  <2>1. \A i \in (depth' + 1)..Len(chain) : i = depth \/ i \in (depth + 1)..Len(chain)
    BY <1>3
  <2> QED
    BY <1>1, <1>2, <1>3, <2>1 DEF PanicPasses
<1>19. CaughtIsKnown'
  <2>1. \A s \in DOMAIN spans : HasError(spans[s].events) => HasError(spans'[s].events)
    <3>1. HasError(ev) => HasError(ev \o m)
      BY <1>9, <1>12, <1>13, TellingGrows
    <3> QED
      BY <1>11, <1>13, <3>1
  <2>2. current # 0 => current \in DOMAIN spans
    BY <1>2 DEF TraceTypeOK
  <2>3. hasPanicked /\ way \in {"out", "over"} =>
          answer = "maintenance" /\ (current # 0 => HasError(spans'[current].events))
    BY <1>2, <2>1, <2>2 DEF CaughtIsKnown
  <2> QED
    BY <1>1, <2>3 DEF CaughtIsKnown, HasError
<1>20. LeftTells'
  <2>1. ASSUME NEW s \in DOMAIN spans, hasPanicked, spans[s].at > depth - 1,
               NEW x, x = spans[s].at, LastTelemetry(x)'
        PROVE  TellsPanic(spans'[s].events)
    <3>1. LastTelemetry(x) /\ x \in Nat
      BY <1>2, <2>1, SpanTyped DEF LastTelemetry
    <3>2. CASE s # c
      <4>1. spans[s].at > depth
        BY <1>3, <1>5, <2>1, <3>1, <3>2
      <4> QED
        BY <1>2, <1>11, <2>1, <3>1, <3>2, <4>1 DEF LeftTells
    <3>3. CASE s = c
      <4>1. x = depth
        BY <1>5, <2>1, <3>3
      <4>2. PICK i \in DOMAIN chain : i > depth /\ chain[i] = "recovery"
        BY <3>1, <4>1 DEF LastTelemetry
      <4>3. i \in (depth + 1)..Len(chain)
        BY <1>2, <1>3, <4>2 DEF TraceTypeOK
      <4>4. way = "out"
        BY <1>2, <4>2, <4>3 DEF PanicPasses
      <4>5. current = c
        <5>1. current \in Nat /\ c \in 1..current /\ current \in DOMAIN spans
          BY <1>2, <1>5 DEF TraceTypeOK
        <5>2. ASSUME c < current
              PROVE  FALSE
          <6>1. spans[current].at > depth
            BY <1>2, <1>3, <1>5, <5>1, <5>2, SpanTyped DEF SpansInOrder
          <6>2. spans[current].at \in DOMAIN chain /\ chain[spans[current].at] = "telemetry"
            BY <1>2, <5>1, SpanTyped DEF TraceTypeOK
          <6> QED
            BY <3>1, <4>1, <6>1, <6>2 DEF LastTelemetry
        <5> QED
          BY <5>1, <5>2
      <4>6. answer = "maintenance" /\ HasError(spans[c].events)
        <5>1. current # 0
          BY <1>2, <1>5, <4>5 DEF TraceTypeOK
        <5> QED
          BY <1>2, <2>1, <4>4, <4>5, <5>1 DEF CaughtIsKnown
      <4>7. ErrorEnding(m)
        BY <1>7, <1>8, <1>9, <4>6 DEF ErrorEnding
      <4>8. TellsPanic(ev \o m)
        BY <1>9, <1>12, <1>13, <4>6, <4>7, EndTells
      <4> QED
        BY <1>11, <1>13, <3>3, <4>8
    <3> QED
      BY <3>2, <3>3
  <2>2. ASSUME NEW s \in DOMAIN spans, hasPanicked, spans'[s].at > depth - 1,
               LastTelemetry(spans[s].at)'
        PROVE  TellsPanic(spans[s].events)'
    <3>1. PICK x : x = spans[s].at
      OBVIOUS
    <3>2. spans'[s].at = x
      BY <1>11, <3>1
    <3>3. LastTelemetry(x)'
      BY <2>2, <3>2 DEF LastTelemetry
    <3>4. TellsPanic(spans'[s].events)
      BY <2>1, <2>2, <3>1, <3>2, <3>3
    <3> QED
      BY <3>4 DEF TellsPanic
  <2> QED
    BY <1>11, <2>2 DEF LeftTells
<1> QED
  BY <1>11, <1>15, <1>16, <1>17, <1>18, <1>19, <1>20 DEF TraceInv, PanicIsKnown

\* The request has ended, or the process.
LEMMA FinishKeeps ==
    ASSUME TraceInv, Finish
    PROVE  TraceInv'
<1>1. /\ TraceTypeOK /\ way \in {"out", "panic"} /\ depth = 0
      /\ way' \in {"over", "crash"} /\ (way' = "over" <=> way = "out")
      /\ UNCHANGED <<chain, depth, answer, spans, current, acts, hasPanicked>>
  BY DEF TraceInv, Finish
<1>2. SpansCarry
  BY <1>1, SameSpansCarry
<1>3. TraceTypeOK'
  BY <1>1, <1>2, CarryTypes DEF TraceTypeOK
<1>4. PanicPasses' /\ CaughtIsKnown'
  BY <1>1 DEF TraceInv, PanicIsKnown, PanicPasses, CaughtIsKnown, HasError
<1>5. LeftTells'
  BY <1>1 DEF TraceInv, PanicIsKnown, LeftTells, LastTelemetry, TellsPanic
<1> QED
  BY <1>1, <1>2, <1>3, <1>4, <1>5, CarryKeeps DEF PanicIsKnown

\* At the end no part of the chain is entered any more, so that what is known
\* of the spans that are left is the property.
LEMMA SpansFollow ==
    ASSUME TraceInv
    PROVE  SpansTellTheRequest
<1>1. /\ TraceTypeOK /\ PanicPasses /\ LeftTells
      /\ \A s \in DOMAIN spans : /\ SpanFine(spans[s].at, spans[s].events, depth)
                                 /\ spans[s].at \in Nat \ {0}
  BY SpanTyped DEF TraceInv, PanicIsKnown
<1>2. Over => depth = 0
  BY <1>1 DEF Over, PanicPasses
<1>3. \A s \in DOMAIN spans : Indices(s, "end") = Ends(spans[s].events)
  BY DEF Indices, Ends
<1>4. SpansEndOnce
  <2>1. ASSUME Over, NEW s \in DOMAIN spans
        PROVE  \E i \in Indices(s, "end") : Indices(s, "end") = {i}
    <3>1. PICK i \in DOMAIN spans[s].events : Ends(spans[s].events) = {i}
      BY <1>1, <1>2, <2>1 DEF SpanFine
    <3> QED
      BY <1>3, <3>1
  <2> QED
    BY <2>1 DEF SpansEndOnce
<1>5. LateWritesComeFromOutside
  BY <1>1, <1>3 DEF LateWritesComeFromOutside, SpanFine, Ends
<1>6. PanicIsOnSpan
  <2>1. ASSUME NEW s \in DOMAIN spans, Over, hasPanicked,
               \E i \in {j \in DOMAIN chain : j > spans[s].at} : chain[i] = "recovery",
               \A i \in {j \in DOMAIN chain : j > spans[s].at} : chain[i] # "telemetry"
        PROVE  \E e, j \in DOMAIN spans[s].events :
                 /\ e < j /\ spans[s].events[e].what = "error"
                 /\ spans[s].events[j].what = "error status"
                 /\ spans[s].events[j + 1].what = "end"
    <3>1. LastTelemetry(spans[s].at) /\ spans[s].at > depth
      BY <1>1, <1>2, <2>1 DEF LastTelemetry
    <3>2. TellsPanic(spans[s].events)
      BY <1>1, <2>1, <3>1 DEF LeftTells
    <3> QED
      BY <3>2 DEF TellsPanic
  <2> QED
    BY <2>1 DEF PanicIsOnSpan
<1> QED
  BY <1>4, <1>5, <1>6 DEF SpansTellTheRequest

\* Whatever the chain of middleware and wherever the handler panics: a span is
\* ended once, tells of a panic that a Recovery behind it caught before its
\* end, and what is written after the end comes from outside of its Telemetry
\* (middlewares/telemetry.go, middlewares/recovery.go).
THEOREM SpansCorrect == TraceSpec => [](TraceTypeOK /\ SpansTellTheRequest)
<1>1. TraceInit => TraceInv
  <2>1. ASSUME TraceInit
        PROVE  TraceInv
    <3>1. chain \in Seq(Middleware)
      BY <2>1, TraceAssumption DEF TraceInit
    <3>2. spans = <<>> /\ DOMAIN spans = {} /\ Len(spans) = 0 /\ spans \in Seq(Spans)
      BY <2>1 DEF TraceInit
    <3>3. TraceTypeOK
      <4>1. Len(chain) \in Nat
        BY <3>1
      <4>2. depth = 0 /\ way = "in" /\ answer = "none" /\ current = 0 /\ acts = 0 /\ hasPanicked = FALSE
        BY <2>1 DEF TraceInit
      <4>3. depth \in 0..Len(chain) /\ acts \in Nat /\ answer \in Answers /\ hasPanicked \in BOOLEAN
        <5>1. depth \in 0..Len(chain) /\ acts \in Nat
          BY <4>1, <4>2
        <5>2. answer \in Answers
          BY <4>2 DEF Answers
        <5>3. hasPanicked \in BOOLEAN
          BY <4>2
        <5> QED
          BY <5>1, <5>2, <5>3
      <4>4. current = Len(spans) /\ \A s \in DOMAIN spans : chain[spans[s].at] = "telemetry"
        BY <3>2, <4>2
      <4> QED
        BY <3>1, <3>2, <4>2, <4>3, <4>4 DEF TraceTypeOK
    <3>4. SpansInOrder /\ PanicIsKnown
      BY <2>1, <3>2 DEF TraceInit, SpansInOrder, PanicIsKnown, PanicPasses, CaughtIsKnown, LeftTells
    <3> QED
      BY <3>2, <3>3, <3>4 DEF TraceInv
  <2> QED
    BY <2>1
<1>2. TraceInv /\ [TraceNext]_traceVars => TraceInv'
  <2>1. ASSUME TraceInv, UNCHANGED traceVars
        PROVE  TraceInv'
    <3>1. /\ UNCHANGED <<chain, depth, way, answer, spans, current, acts, hasPanicked>>
          /\ TraceTypeOK /\ PanicIsKnown
      BY <2>1 DEF traceVars, TraceInv
    <3>2. TraceTypeOK'
      BY <3>1 DEF TraceTypeOK, Spans
    <3>3. PanicPasses' /\ CaughtIsKnown'
      BY <3>1 DEF PanicIsKnown, PanicPasses, CaughtIsKnown, HasError
    <3>4. LeftTells'
      BY <3>1 DEF PanicIsKnown, LeftTells, LastTelemetry, TellsPanic
    <3> QED
      BY <2>1, <3>1, <3>2, <3>3, <3>4, SameSpansCarry, CarryKeeps DEF PanicIsKnown
  <2>2. ASSUME TraceInv, Leave
        PROVE  TraceInv'
    BY <2>2, EndSpanKeeps, RecoverKeeps, AuditKeeps DEF Leave
  <2> QED
    BY <2>1, <2>2, EnterKeeps, ActKeeps, FinishKeeps DEF TraceNext
<1>3. TraceInv => TraceTypeOK /\ SpansTellTheRequest
  BY SpansFollow DEF TraceInv
<1> QED
  BY <1>1, <1>2, <1>3, PTL DEF TraceSpec

-----------------------------------------------------------------------------
(* One part at a time, as they are checked together.                        *)

\* The part that takes steps takes those of its own specification.
LEMMA FollowsOne ==
    [MCNext]_<<unit, parts>> =>
      /\ unit = "chain" => [ChainNext]_chainVars
      /\ unit = "chain" <=> (unit = "chain")'
      /\ unit = "logs" => [LogsNext]_logsVars
      /\ unit = "logs" <=> (unit = "logs")'
      /\ unit = "ids" => [IdsNext]_idsVars
      /\ unit = "ids" <=> (unit = "ids")'
      /\ unit = "router" => [RouterNext]_routerVars
      /\ unit = "router" <=> (unit = "router")'
      /\ unit = "trie" => [TrieNext]_trieVars
      /\ unit = "trie" <=> (unit = "trie")'
      /\ unit = "tracing" => [TraceNext]_traceVars
      /\ unit = "tracing" <=> (unit = "tracing")'
      /\ unit = "stores" => [StoresNext]_storeVars
      /\ unit = "stores" <=> (unit = "stores")'
      /\ unit = "lang" => [LangNext]_langVars
      /\ unit = "lang" <=> (unit = "lang")'
      /\ unit = "stats" => [StatsNext]_statsVars
      /\ unit = "stats" <=> (unit = "stats")'
      /\ unit = "startup" => [StartNext]_startVars
      /\ unit = "startup" <=> (unit = "startup")'
      /\ unit = "worker" => [WorkerNext]_workerVars
      /\ unit = "worker" <=> (unit = "worker")'
<1> SUFFICES ASSUME [MCNext]_<<unit, parts>>
             PROVE  /\ unit' = unit
                    /\ unit = "chain" => [ChainNext]_chainVars
                    /\ unit = "logs" => [LogsNext]_logsVars
                    /\ unit = "ids" => [IdsNext]_idsVars
                    /\ unit = "router" => [RouterNext]_routerVars
                    /\ unit = "trie" => [TrieNext]_trieVars
                    /\ unit = "tracing" => [TraceNext]_traceVars
                    /\ unit = "stores" => [StoresNext]_storeVars
                    /\ unit = "lang" => [LangNext]_langVars
                    /\ unit = "stats" => [StatsNext]_statsVars
                    /\ unit = "startup" => [StartNext]_startVars
                    /\ unit = "worker" => [WorkerNext]_workerVars
  OBVIOUS
<1>1. CASE Work /\ UNCHANGED unit
  BY <1>1 DEF Work
<1>2. CASE UNCHANGED <<unit, parts>>
  BY <1>2 DEF parts
<1> QED
  BY <1>1, <1>2 DEF MCNext, Stop

\* The part that is followed stays in its types (MCProcess), for every chain
\* that is short enough for int8 and every instance of the others.
THEOREM PartsCorrect ==
    ASSUME ShortChain, NEW CONSTANT V, Values(V)
    PROVE  MCSpec => []TypeOK
<1>1. MCInit => /\ ChainInit /\ LogsInit /\ IdsInit /\ RouterInit /\ TrieInit /\ TraceInit
                /\ StoresInit /\ LangInit /\ StatsInit /\ StartInit /\ WorkerInit
  BY DEF MCInit
<1>2. MCSpec => [](unit = "chain" => ChainTypeOK)
  <2>1. ChainInit => Inv
    BY InitInv
  <2>2. Inv /\ [ChainNext]_chainVars => Inv'
    BY InvStep
  <2>3. Inv => ChainTypeOK
    BY DEF Inv
  <2> QED
    BY <1>1, <2>1, <2>2, <2>3, FollowsOne, PTL DEF MCSpec
<1>3. MCSpec => [](unit = "logs" => LogsTypeOK)
  BY <1>1, FollowsOne, IndexCorrect, PTL DEF MCSpec, LogsSpec
<1>4. MCSpec => [](unit = "ids" => IdsTypeOK)
  BY <1>1, FollowsOne, TypeCorrect, PTL DEF MCSpec, IdsSpec
<1>5. MCSpec => [](unit = "router" => RouterTypeOK)
  <2>1. RouterSpec => [](RouterTypeOK /\ ChainsStay)
    BY ChainsCorrect
  <2> QED
    BY <1>1, <2>1, FollowsOne, PTL DEF MCSpec, RouterSpec
<1>6. MCSpec => [](unit = "trie" => TrieTypeOK)
  <2>1. TrieInit => TrieInv
    BY TrieInvInit
  <2>2. TrieInv /\ [TrieNext]_trieVars => TrieInv'
    BY TrieInvStep
  <2>3. TrieInv => TrieTypeOK
    BY DEF TrieInv
  <2> QED
    BY <1>1, <2>1, <2>2, <2>3, FollowsOne, PTL DEF MCSpec
<1>7. MCSpec => [](unit = "tracing" => TraceTypeOK)
  BY <1>1, FollowsOne, SpansCorrect, PTL DEF MCSpec, TraceSpec
<1>8. MCSpec => [](unit = "stores" => StoresTypeOK)
  BY <1>1, FollowsOne, UsesCorrect, PTL DEF MCSpec, StoresSpec
<1>9. MCSpec => [](unit = "lang" => LangTypeOK)
  BY <1>1, FollowsOne, FileCorrect, PTL DEF MCSpec, LangSpec
<1>10. MCSpec => [](unit = "stats" => StatsTypeOK)
  BY <1>1, FollowsOne, RecordsCorrect, PTL DEF MCSpec, StatsSpec
<1>11. MCSpec => [](unit = "startup" => StartTypeOK)
  <2>1. StartInv => StartTypeOK
    BY DEF StartInv
  <2> QED
    BY <1>1, <2>1, FollowsOne, StartStays, PTL DEF MCSpec, StartSpec
<1>12. MCSpec => [](unit = "worker" => WorkerTypeOK)
  BY <1>1, FollowsOne, WorkerCorrect, PTL DEF MCSpec, WorkerSpec
<1> QED
  BY <1>2, <1>3, <1>4, <1>5, <1>6, <1>7, <1>8, <1>9, <1>10, <1>11, <1>12,
     PTL DEF TypeOK
=============================================================================
