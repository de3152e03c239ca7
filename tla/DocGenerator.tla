---------------------------- MODULE DocGenerator ----------------------------
(***************************************************************************)
(* What `aqi docgen` writes (internal/docgen/generator.go, and the          *)
(* configuration in internal/docgen/parser.go): the documents, the log of   *)
(* changes with its snapshots, and doc-config.yaml.  Lists that the code    *)
(* sorts before it writes them are sets here.                               *)
(***************************************************************************)
EXTENDS DocParser

CONSTANTS
    Parts,         \* strings.Split(name, ".") of the names of actions
    NoGit,         \* the version outside of a git repository
    MaxSnapshots   \* 50 in the code

NoChange == [k |-> "none"]   \* the nil *ChangelogEntry

ASSUME SnapshotsAssumption == MaxSnapshots \in Nat \ {0}

-----------------------------------------------------------------------------
(* doc-config.yaml: groupNames by prefix, and appDocuments.                 *)

PrefixesOf(actions) == {Parts[a.name][1] : a \in actions}

generateDefaultConfig(actions) ==
    [groupNames |-> [p \in PrefixesOf(actions) |-> p], appDocuments |-> <<>>]

\* Prefixes that the file lacks get themselves for a name.
WithMissingGroups(config, actions) ==
    [config EXCEPT !.groupNames =
       [p \in DOMAIN @ \cup PrefixesOf(actions) |->
          IF p \in DOMAIN @ THEN @[p] ELSE p]]

\* A file name is a base name and an extension.
HasExt(doc, format) == doc.file[2] = format

\* Mutant: the entries of the file are replaced by the generated ones.
MergedFresh(existing, documents, format) == documents

\* Mutant: all the generated entries are appended.
MergedTwice(existing, documents, format) == existing \o documents

\* Entries of the format stay as the user has edited them, entries of the
\* other format go, and documents without an entry are added; a document that
\* is in the list twice is then added twice.
MergedDocuments(existing, documents, format) ==
    LET generated == {d.file : d \in ToSet(documents)}
        kept == OnlyIn(existing, {d \in ToSet(existing) :
                                    d.file \in generated \/ HasExt(d, format)})
        known == {d.file : d \in ToSet(kept)}
    IN  kept \o OnlyIn(documents, {d \in ToSet(documents) : d.file \notin known})

UpdateDocumentsInConfig(config, documents, format) ==
    [config EXCEPT !.appDocuments = MergedDocuments(@, documents, format)]

-----------------------------------------------------------------------------
(* Documents.                                                               *)

NoGroup == ""   \* of the actions without a prefix
GroupOf(a) == IF Len(Parts[a.name]) > 1 THEN Parts[a.name][1] ELSE NoGroup

\* Mutant: an action replaces the group's earlier ones.
groupByActionPrefixLast(actions) ==
    [g \in {GroupOf(a) : a \in ToSet(actions)} |->
       {Last(SelectSeq(actions, LAMBDA a : GroupOf(a) = g))}]

groupByActionPrefix(actions) ==
    [g \in {GroupOf(a) : a \in ToSet(actions)} |->
       {a \in ToSet(actions) : GroupOf(a) = g}]

getGroupDisplayName(config, g) ==
    IF g \in DOMAIN config.groupNames THEN config.groupNames[g] ELSE g

getJSONExampleValue(type) ==
    CASE type \in {"int", "uint", "int32", "uint32", "int64", "uint64"} -> "0"
      [] type = "bool" -> "true"
      [] type = "[]string" -> "[]"
      [] OTHER -> "''"

\* The params of the example request: the required parameters, those of a
\* path under their parent; the value of a parent hides the path behind it.
ExampleParams(params) ==
    LET Put(e, p) ==
          CASE ~p.required -> e
            [] p.required /\ Len(p.name) = 1 ->
                 [n \in {m \in DOMAIN e : m[1] # p.name[1]} \cup {p.name} |->
                    IF n = p.name THEN getJSONExampleValue(p.type) ELSE e[n]]
            [] p.required /\ Len(p.name) > 1 ->
                 IF <<p.name[1]>> \in DOMAIN e THEN e
                 ELSE [n \in DOMAIN e \cup {p.name} |->
                         IF n = p.name THEN getJSONExampleValue(p.type) ELSE e[n]]
    IN  FoldLeft(Put, [n \in {} |-> ""], params)

buildJSONAction(a) ==
    [name |-> a.name, params |-> a.params, returns |-> a.returns,
     middlewareChain |-> a.middlewareChain, example |-> ExampleParams(a.params)]

\* The groups of a router file as the document shows them.
GroupsShown(actions, config) ==
    LET groups == groupByActionPrefix(actions)
    IN  {[name |-> getGroupDisplayName(config, g),
          actions |-> {buildJSONAction(a) : a \in groups[g]}] :
         g \in DOMAIN groups}

\* Mutant: the log of changes is not passed on.
GenerateJSONPlain(rf, config, changelog) ==
    [groups |-> GroupsShown(rf.actions, config), changelog |-> NoChange]

GenerateJSON(rf, config, changelog) ==
    [groups |-> GroupsShown(rf.actions, config), changelog |-> changelog]

\* A Markdown document has no log of changes.
GenerateMarkdown(rf, config) ==
    [groups |-> GroupsShown(rf.actions, config), changelog |-> NoChange]

-----------------------------------------------------------------------------
(* The log of changes.                                                      *)

NamesIn(routerFiles) ==
    UNION {{a.name : a \in ToSet(routerFiles[i].actions)} : i \in DOMAIN routerFiles}

ChangelogOf(version, current, snapshots) ==
    LET previous == IF snapshots = <<>> THEN {} ELSE Last(snapshots).actions
    IN  IF version = NoGit \/ previous = current THEN NoChange
        ELSE [version |-> version, added |-> current \ previous,
              removed |-> previous \ current]

LastOnes(s, n) == IF Len(s) > n THEN SubSeq(s, Len(s) - n + 1, Len(s)) ELSE s

\* Mutant: a version's snapshot is added to what the file has of it.
SnapshotsAppended(version, current, snapshots) ==
    LastOnes(Append(snapshots, [version |-> version, actions |-> current]),
             MaxSnapshots)

\* A snapshot of the same version is replaced where it is.
SnapshotsAfter(version, current, snapshots) ==
    LET snapshot == [version |-> version, actions |-> current]
        i == SelectInSeq(snapshots, LAMBDA s : s.version = version)
    IN  LastOnes(IF i = 0 THEN Append(snapshots, snapshot)
                 ELSE [snapshots EXCEPT ![i] = snapshot], MaxSnapshots)
=============================================================================
