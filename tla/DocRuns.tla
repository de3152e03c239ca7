------------------------------ MODULE DocRuns ------------------------------
(***************************************************************************)
(* Runs of `aqi docgen init` over the life of a project                     *)
(* (internal/cli/cli_docgen.go), step by step, with the files they leave    *)
(* behind.  Between runs the source, the commit and the configuration       *)
(* change; a run may be cut off, and a write may fail.                      *)
(***************************************************************************)
EXTENDS DocGenerator

CONSTANTS
    Sources,      \* the router directory's files, as versions of it
    LabelledPrefixes, \* the prefixes whose group name the user edits
    MaxCommit,    \* bound: commits
    MaxEdits,     \* bound: steps of the user
    MaxRuns       \* bound: runs

VARIABLES
    commit,       \* git rev-list --count HEAD, or NoGit
    config,       \* doc-config.yaml, and whether it is missing, good or corrupt
    snapshots,    \* api_snapshots.json
    documents,    \* the documents in docs/, by file name
    viewer,       \* the list of documents in api_viewer.html
    run,          \* the run under way, or Idle
    edits,        \* the user's steps and the runs so far
    history       \* what has happened, for the properties
outputs == <<config, snapshots, documents, viewer>>
runVars == <<commit, config, snapshots, documents, viewer, run, edits, history>>

NoConfig == [groupNames |-> <<>>, appDocuments |-> <<>>, state |-> "missing"]
Corrupt == [NoConfig EXCEPT !.state = "corrupt"]
Good(c) == [groupNames |-> c.groupNames, appDocuments |-> c.appDocuments,
            state |-> "good"]
\* templates/docgen/doc-config.yaml
TemplateConfig == Good([groupNames |-> [p \in {} |-> p], appDocuments |-> <<>>])

Router == "router"
Sub == "router/sub"
Idle == [pc |-> "idle"]
DocFile(fileName, format) == <<fileName, format>>

RunsInit ==
    /\ commit \in {NoGit, 1}
    /\ config = NoConfig
    /\ snapshots = <<>>
    /\ documents = [f \in {} |-> NoChange]
    /\ viewer = {}
    /\ run = Idle
    /\ edits = [steps |-> 0, runs |-> 0]
    /\ history = [wentBack |-> FALSE, unsaved |-> FALSE, untold |-> FALSE,
                  shared |-> FALSE, told |-> {}, current |-> {}]

-----------------------------------------------------------------------------
(* The user, between runs.                                                  *)

Edited == run = Idle /\ edits.steps < MaxEdits
          /\ edits' = [edits EXCEPT !.steps = @ + 1]

EditSource ==
    /\ Edited
    /\ \E s \in Sources : s # dirs /\ dirs' = s
    /\ UNCHANGED <<commit, config, snapshots, documents, viewer, run, history>>

\* A commit of what is edited, or a checkout of an earlier one.
Commit ==
    /\ Edited
    /\ commit # NoGit
    /\ \E c \in 1..MaxCommit, s \in Sources :
         /\ c \in {commit - 1, commit + 1}
         /\ commit' = c
         /\ dirs' = s
         /\ history' = [history EXCEPT !.wentBack = @ \/ c < commit]
    /\ UNCHANGED <<config, snapshots, documents, viewer, run>>

\* A group or an entry gets a label of the user's; the file is broken, or
\* deleted.
EditConfig ==
    /\ Edited
    /\ config.state = "good"
    /\ \/ \E p \in LabelledPrefixes \cap DOMAIN config.groupNames :
            config' = [config EXCEPT !.groupNames[p] = "users"]
       \/ \E i \in DOMAIN config.appDocuments :
            config' = [config EXCEPT !.appDocuments[i].label = "users"]
       \/ config' = Corrupt
       \/ config' = NoConfig
    /\ UNCHANGED <<dirs, commit, snapshots, documents, viewer, run, history>>

-----------------------------------------------------------------------------
(* A run.                                                                   *)

\* The router files that the scan finds, with the actions of each: a file is
\* opened in the router directory under its base name, wherever it was found.
Scan == ScanRouterFiles(ReadDir(Router) \o ReadDir(Sub))
RouterFiles ==
    [i \in DOMAIN Scan.files |->
       [fileName |-> Scan.files[i].fileName,
        actions |-> ParseRouterFile(Router, Scan.files[i].fileName,
                                    Scan.files[i].funcName)]]
AllActions(rfs) == UNION {ToSet(rfs[i].actions) : i \in DOMAIN rfs}
SharedFile(rfs) ==
    \E i, j \in DOMAIN rfs : i # j /\ rfs[i].fileName = rfs[j].fileName

StartRun(format) ==
    /\ run = Idle /\ edits.runs < MaxRuns
    /\ edits' = [edits EXCEPT !.runs = @ + 1]
    /\ run' = [pc |-> IF Scan.failed \/ Scan.files = <<>> THEN "template" ELSE "load",
               format |-> format, routerFiles |-> RouterFiles,
               changelog |-> NoChange, listed |-> <<>>, next |-> 1,
               config |-> NoConfig]
    /\ history' = [history EXCEPT !.shared = @ \/ SharedFile(RouterFiles)]
    /\ UNCHANGED <<dirs, commit, outputs>>

\* LoadCategoryConfig: a missing file is written from the actions, missing
\* groups are added; a file that does not parse ends the documents' part.
LoadCategoryConfig ==
    /\ run.pc = "load"
    /\ LET actions == AllActions(run.routerFiles)
           loaded == IF config.state = "missing"
                     THEN Good(generateDefaultConfig(actions))
                     ELSE WithMissingGroups(config, actions)
       IN  \/ /\ config.state = "corrupt"
              /\ run' = [run EXCEPT !.pc = "template"]
              /\ UNCHANGED config
           \/ /\ config.state # "corrupt"
              /\ run' = [run EXCEPT !.pc = "changelog", !.config = loaded]
              /\ config' = loaded
           \/ \* The file cannot be written: no default, or only a warning.
              /\ config.state # "corrupt" /\ loaded # config
              /\ run' = IF config.state = "missing" THEN [run EXCEPT !.pc = "template"]
                        ELSE [run EXCEPT !.pc = "changelog", !.config = loaded]
              /\ UNCHANGED config
    /\ UNCHANGED <<dirs, commit, snapshots, documents, viewer, edits, history>>

\* The snapshot is written before any document, and a failure to write it is
\* not looked at.
GenerateGlobalChangelog ==
    /\ run.pc = "changelog"
    /\ LET current == NamesIn(run.routerFiles)
           entry == IF run.format = "json"
                    THEN ChangelogOf(commit, current, snapshots) ELSE NoChange
       IN  /\ run' = [run EXCEPT !.pc = "documents", !.changelog = entry]
           /\ \/ snapshots' = IF entry = NoChange THEN snapshots
                              ELSE SnapshotsAfter(commit, current, snapshots)
              \/ entry # NoChange /\ UNCHANGED snapshots
           /\ history' = IF run.format = "json" /\ commit # NoGit
                         THEN [history EXCEPT !.current = current,
                                 !.unsaved = snapshots' = snapshots /\ entry # NoChange]
                         ELSE history
    /\ UNCHANGED <<dirs, commit, config, documents, viewer, edits>>

\* The document of the next router file; one without actions is passed over.
WriteDocument ==
    /\ run.pc = "documents" /\ run.next \in DOMAIN run.routerFiles
    /\ LET rf == run.routerFiles[run.next]
           file == DocFile(rf.fileName, run.format)
           doc == IF run.format = "json"
                  THEN GenerateJSON(rf, run.config, run.changelog)
                  ELSE GenerateMarkdown(rf, run.config)
           told == IF doc.changelog = NoChange THEN {} ELSE doc.changelog.added
       IN  \/ /\ rf.actions # <<>>
              /\ documents' = [f \in DOMAIN documents \cup {file} |->
                                 IF f = file THEN doc ELSE documents[f]]
              /\ run' = [run EXCEPT !.next = @ + 1,
                           !.listed = Append(@, [file |-> file, label |-> "generated"])]
              /\ history' = [history EXCEPT !.told = @ \cup told]
           \/ /\ UNCHANGED documents
              /\ run' = [run EXCEPT !.next = @ + 1]
              /\ UNCHANGED history
    /\ UNCHANGED <<dirs, commit, config, snapshots, viewer, edits>>

\* The run has written the snapshot of a change and no document.
Untold == run.changelog # NoChange /\ run.listed = <<>>

UpdateDocuments ==
    /\ run.pc = "documents" /\ run.next \notin DOMAIN run.routerFiles
    /\ run' = [run EXCEPT !.pc = "template"]
    /\ history' = [history EXCEPT !.untold = @ \/ Untold]
    /\ \/ config' = IF run.listed = <<>> THEN config
                    ELSE UpdateDocumentsInConfig(config, run.listed, run.format)
       \/ \* The file cannot be written.
          run.listed # <<>> /\ UNCHANGED config
    /\ UNCHANGED <<dirs, commit, snapshots, documents, viewer, edits>>

\* The template stands in for a missing docs/doc-config.yaml, and the viewer
\* gets the list of that file.
WriteViewer ==
    /\ run.pc = "template"
    /\ config' = IF config.state = "missing" THEN TemplateConfig ELSE config
    /\ viewer' = {d.file : d \in ToSet(config'.appDocuments)}
    /\ run' = Idle
    /\ UNCHANGED <<dirs, commit, snapshots, documents, edits, history>>

\* The process is ended between two steps.
CutOff ==
    /\ run # Idle
    /\ run' = Idle
    /\ history' = [history EXCEPT !.untold = @ \/ Untold]
    /\ UNCHANGED <<dirs, commit, edits, outputs>>

Generate == \/ LoadCategoryConfig \/ GenerateGlobalChangelog \/ WriteDocument
            \/ UpdateDocuments \/ WriteViewer

RunsNext ==
    \/ EditSource \/ Commit \/ EditConfig
    \/ \E format \in {"json", "md"} : StartRun(format)
    \/ Generate
    \/ CutOff

RunsSpec ==
    RunsInit /\ dirs \in Sources /\ [][RunsNext]_<<dirs, runVars>>

-----------------------------------------------------------------------------
(* Safety.                                                                  *)

\* A run never takes the user's labels away: group names stay, and so do the
\* entries of the run's format and of the documents it writes, with their
\* labels.
LabelsKept ==
    [][Generate /\ config.state = "good" =>
         /\ config'.state = "good"
         /\ \A p \in DOMAIN config.groupNames :
              /\ p \in DOMAIN config'.groupNames
              /\ config'.groupNames[p] = config.groupNames[p]
         /\ \A d \in ToSet(config.appDocuments) :
              HasExt(d, run.format) => d \in ToSet(config'.appDocuments)]_runVars

\* The versions of the snapshots are distinct, and the latest one is what the
\* last run that compared found, unless its snapshot failed to be written or
\* the repository has gone back to an earlier commit: then the older version's
\* snapshot was replaced in the middle of the list.
SnapshotsAreLatest ==
    /\ Len(snapshots) <= MaxSnapshots
    /\ \A i, j \in DOMAIN snapshots :
         snapshots[i].version = snapshots[j].version => i = j
    /\ ~history.wentBack /\ ~history.unsaved =>
         history.current = IF snapshots = <<>> THEN {} ELSE Last(snapshots).actions

\* Every action of the latest snapshot was announced as added by some
\* document, unless a run saved the snapshot and then wrote no document: what
\* a snapshot has is never announced again.
AddedIsTold ==
    run = Idle /\ ~history.untold /\ snapshots # <<>> =>
        Last(snapshots).actions \subseteq history.told

\* Once a run is over, the viewer's list is that of the configuration and its
\* documents are there; a document is listed twice only after two functions
\* of one file registered actions, whose documents overwrite each other.
ViewerShowsDocuments ==
    run = Idle =>
        /\ viewer \subseteq DOMAIN documents
        /\ ~history.shared => \A i, j \in DOMAIN config.appDocuments :
             config.appDocuments[i].file = config.appDocuments[j].file => i = j

ActionsShown(doc) ==
    UNION {{a.name : a \in g.actions} : g \in doc.groups}

\* The documents that a run has written show all the actions of their router
\* file, each in the group that the configuration names, as long as no two
\* functions share the file.
DocumentsComplete ==
    run # Idle /\ ~SharedFile(run.routerFiles) =>
        \A i \in DOMAIN run.listed :
          \A rf \in ToSet(run.routerFiles) :
            run.listed[i].file = DocFile(rf.fileName, run.format) =>
             /\ ActionsShown(documents[run.listed[i].file])
                  = {a.name : a \in ToSet(rf.actions)}
             /\ \A a \in ToSet(rf.actions) :
                  GroupOf(a) # NoGroup => \E g \in documents[run.listed[i].file].groups :
                     /\ g.name = run.config.groupNames[GroupOf(a)]
                     /\ a.name \in {b.name : b \in g.actions}

\* The log of changes over any sequence of runs, edits and commits: a snapshot
\* for each version, the latest of them what is there, and nothing in it that
\* was not announced.
ChangesAreTold == SnapshotsAreLatest /\ AddedIsTold

\* The documents stand: those that a run writes are complete, and those that
\* the viewer lists are there, also after runs that were cut off.
DocumentsStand == DocumentsComplete /\ ViewerShowsDocuments
=============================================================================
