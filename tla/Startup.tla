------------------------------- MODULE Startup -------------------------------
(***************************************************************************)
(* The start of a program (app.go, app_config.go, app_server.go, options.go, *)
(* internal/config): Init reads the configuration file, or writes the        *)
(* default one and ends the process; Start serves on the port of the         *)
(* configuration.  Processes are started at the same time and over again in  *)
(* one directory, by builds for development and for release, and die at any  *)
(* time; the user edits the files.                                           *)
(***************************************************************************)
EXTENDS Naturals, FiniteSets

CONSTANTS
    Processes,
    MaxEditions   \* bound: the times that the user edits a file

ASSUME StartupAssumption == MaxEditions \in Nat

FileNames == {"config", "config-dev"}
ABSENT == "absent"

VARIABLES
    configs,   \* the configuration files
    proc,      \* where a process is, its options and what it has found
    listener,  \* the process that has the port, or none
    editions,  \* the user's edits so far
    cut        \* history: the files that a process has died in writing
startVars == <<configs, proc, listener, editions, cut>>

NotStarted == [pc |-> "down", file |-> "config", remote |-> FALSE, dev |-> FALSE,
               with |-> ABSENT, unfinished |-> FALSE]
Nobody == {}

Versions == {ABSENT, "empty", "default", "edited", "broken"}
Stages == {"down", "read", "create", "fill", "fetch", "listen", "serve",
           "exit 0", "exit 1"}

StartTypeOK ==
    /\ configs \in [FileNames -> Versions]
    /\ proc \in [Processes -> [pc: Stages, file: FileNames, remote: BOOLEAN,
                               dev: BOOLEAN, with: Versions, unfinished: BOOLEAN]]
    /\ listener \in SUBSET Processes /\ editions \in 0..MaxEditions
    /\ cut \in SUBSET FileNames

StartInit ==
    /\ configs \in [FileNames -> {ABSENT, "edited"}]
    /\ proc = [p \in Processes |-> NotStarted]
    /\ listener = Nobody /\ editions = 0 /\ cut = {}

Stage(p, pc) == proc[p].pc = pc
Advance(p, pc) == proc' = [proc EXCEPT ![p].pc = pc]
Being(pc) == {p \in Processes : proc[p].pc = pc}
BeingWritten(f) == \E p \in Being("fill") : proc[p].file = f

-----------------------------------------------------------------------------
\* The user edits a file, or removes it, while the program is not writing it.
EditFile ==
    /\ editions < MaxEditions /\ editions' = editions + 1
    /\ \E f \in FileNames, c \in {ABSENT, "edited", "broken"} :
         /\ ~BeingWritten(f) /\ configs' = [configs EXCEPT ![f] = c]
         /\ cut' = cut \ {f}
    /\ UNCHANGED <<proc, listener>>

\* The suffix of a build that has no version.
NameOf(option, dev) == IF dev THEN "config-dev" ELSE option

\* Init: the options, the name of the file.
InitOptions(p) ==
    /\ Stage(p, "down")
    /\ \E option \in FileNames, dev, remote \in BOOLEAN :
         proc' = [proc EXCEPT ![p] = [NotStarted EXCEPT
           !.pc = "read", !.file = NameOf(option, dev), !.dev = dev, !.remote = remote]]
    /\ UNCHANGED <<configs, listener, editions, cut>>

\* A process is writing it, or has died in it.
Unfinished(f) == BeingWritten(f) \/ f \in cut

\* viper.ReadInConfig.  With a remote provider an error is only told.
ReadInConfig(p) ==
    /\ Stage(p, "read")
    /\ LET c == configs[proc[p].file]
       IN  proc' = [proc EXCEPT ![p].with = c,
             ![p].unfinished = Unfinished(proc[p].file), ![p].pc =
             IF c \notin {ABSENT, "broken"} \/ proc[p].remote THEN "fetch"
             ELSE IF c = ABSENT THEN "create" ELSE "exit 1"]
    /\ UNCHANGED <<configs, listener, editions, cut>>

\* Mutant: the file is opened without O_EXCL.
CreateTruncating(p) ==
    /\ Stage(p, "create")
    /\ configs' = [configs EXCEPT ![proc[p].file] = "empty"]
    /\ Advance(p, "fill")
    /\ UNCHANGED <<listener, editions, cut>>

\* OpenFile with O_CREATE and O_EXCL.
CreateDefault(p) ==
    /\ Stage(p, "create")
    /\ IF configs[proc[p].file] = ABSENT
       THEN configs' = [configs EXCEPT ![proc[p].file] = "empty"] /\ Advance(p, "fill")
       ELSE UNCHANGED configs /\ Advance(p, "exit 1")
    /\ UNCHANGED <<listener, editions, cut>>

\* Mutant: the process goes on with what it has found before.
FillAndRun(p) ==
    /\ Stage(p, "fill")
    /\ configs' = [configs EXCEPT ![proc[p].file] = "default"]
    /\ Advance(p, "fetch")
    /\ UNCHANGED <<listener, editions, cut>>

\* WriteString and Close, and the process ends.
FillDefault(p) ==
    /\ Stage(p, "fill")
    /\ configs' = [configs EXCEPT ![proc[p].file] = "default"]
    /\ Advance(p, "exit 0")
    /\ UNCHANGED <<listener, editions, cut>>

\* The rest of Init: the remote configuration, if there is a provider, the port
\* and the logger.  It ends the process when what it has read does not do.
FetchRemote(p) ==
    /\ Stage(p, "fetch")
    /\ Advance(p, "listen") \/ Advance(p, "exit 1")
    /\ UNCHANGED <<configs, listener, editions, cut>>

\* ListenAndServe, on one port for all.
Listen(p) ==
    /\ Stage(p, "listen")
    /\ IF listener = Nobody
       THEN listener' = {p} /\ Advance(p, "serve")
       ELSE UNCHANGED listener /\ Advance(p, "exit 0")
    /\ UNCHANGED <<configs, editions, cut>>

\* The process dies, or has ended and is started again.
Die(p) ==
    /\ proc[p].pc # "down"
    /\ cut' = cut \union {f \in FileNames : Stage(p, "fill") /\ proc[p].file = f}
    /\ listener' = listener \ {p}
    /\ proc' = [proc EXCEPT ![p] = NotStarted]
    /\ UNCHANGED <<configs, editions>>

StartNext ==
    \/ EditFile
    \/ \E p \in Processes :
         \/ InitOptions(p) \/ ReadInConfig(p) \/ CreateDefault(p) \/ FillDefault(p)
         \/ FetchRemote(p) \/ Listen(p) \/ Die(p)
StartSpec == StartInit /\ [][StartNext]_startVars

-----------------------------------------------------------------------------
(* Properties.                                                              *)

Running(p) == proc[p].pc \in {"fetch", "listen", "serve"}

\* A process that goes on has read a configuration, the default one or an
\* edited one, or it has a remote one: but when another process was just
\* writing the file, or has died in it, it goes on with an empty one, which
\* viper takes for a configuration without keys (app.go:117).  Once the
\* default file is written, every start runs on it until it is edited.
RunsOnConfiguration ==
    \A p \in Processes :
        Running(p) /\ ~proc[p].remote =>
            \/ proc[p].with \in {"default", "edited"}
            \/ proc[p].with = "empty" /\ proc[p].unfinished

\* The program never changes what is in a file: it writes to a file that it
\* has made, and only the process that has made it (app_config_test.go:13).
FilesAreTheUsers ==
    [][editions' = editions =>
         \A f \in FileNames :
             configs'[f] # configs[f] =>
                 \/ configs[f] = ABSENT /\ configs'[f] = "empty"
                 \/ /\ configs[f] = "empty" /\ configs'[f] = "default"
                    /\ Cardinality({p \in Being("fill") : proc[p].file = f}) = 1]_startVars

\* Processes that are started at once, die and are started again run on a
\* configuration and leave the user's files alone.
ConfigurationIsKept == []RunsOnConfiguration /\ FilesAreTheUsers
=============================================================================
