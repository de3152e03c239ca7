---------------------------- MODULE DocPrograms ----------------------------
(***************************************************************************)
(* Programs, written a statement at a time, and what docgen makes of them:  *)
(* what is documented is compared with what the program does.  The second   *)
(* half of a comparison is Go's and this library's meaning of the program,  *)
(* not the parser's.                                                        *)
(***************************************************************************)
EXTENDS DocParser

CONSTANTS
    Projects,       \* the source trees to begin with
    Writable,       \* the functions to write: [dir, file, func], by position
    Statements(_),  \* the statements that may be written in one of them
    Locals,         \* the identifiers that have to be declared before use
    MaxStatements(_) \* bound: the statements of each

VARIABLE writing    \* the function that is written

\* What Go's parser returns: directories have files of different names, and
\* functions have sequences of statements, as calls have of arguments.
IsSeq(s) == s \in Seq(ToSet(s))
IsBody(body) ==
    /\ IsSeq(body)
    /\ \A i \in DOMAIN body :
         body[i].k = "decl" /\ IsCall(body[i].value) => IsSeq(body[i].value.args)
IsFile(file) ==
    /\ {"name", "funcs"} \subseteq DOMAIN file
    /\ IsSeq(file.funcs)
    /\ \A i \in DOMAIN file.funcs :
         "body" \in DOMAIN file.funcs[i] /\ IsBody(file.funcs[i].body)
IsTree(tree) ==
    \A d \in DOMAIN tree :
      /\ IsSeq(tree[d])
      /\ \A i \in DOMAIN tree[d] : IsFile(tree[d][i])
      /\ \A i, j \in DOMAIN tree[d] : tree[d][i].name = tree[d][j].name => i = j

ASSUME ProgramsAssumption ==
    /\ \A tree \in Projects : IsTree(tree)
    /\ \A w \in Writable : \A s \in Statements(w) : IsBody(s)

ProgramInit == dirs \in Projects /\ writing \in Writable

BodyOf(w) == dirs[w.dir][w.file].funcs[w.func].body

\* The identifiers that a node of the tree uses.
UsedIn(e) ==
    CASE e.k = "ident" -> {e.x}
      [] e.k = "call" -> {e.on, IF e.recv = None THEN "" ELSE e.recv.on}
                         \cup {a.e.x : a \in {b \in ToSet(e.args) : b.k = "addr"}}
                         \cup {a.x : a \in {b \in ToSet(e.args) : b.k = "ident"}}
      [] OTHER -> {}
Used(n) == IF n.k # "decl" THEN UsedIn(n)
           ELSE UsedIn(n.value) \cup (IF n.tok = "=" THEN {n.var} ELSE {})
Compiles(body) ==
    \A i \in DOMAIN body : \A v \in Used(body[i]) \cap Locals :
        \E j \in 1..i - 1 : body[j].k = "decl" /\ body[j].var = v

Write ==
    /\ Len(BodyOf(writing)) < MaxStatements(writing)
    /\ \E s \in {t \in Statements(writing) : Compiles(BodyOf(writing) \o t)} :
         dirs' = [dirs EXCEPT ![writing.dir][writing.file].funcs[writing.func].body
                                 = @ \o s]
    /\ UNCHANGED writing

ProgramSpec == ProgramInit /\ [][Write]_<<dirs, writing>>

-----------------------------------------------------------------------------
(* The routers of a program (ws/router.go).                                 *)

\* The chain that a router expression stands for, where env has the chains of
\* the variables: Use extends a copy, Group and a variable keep the chain.
MiddlewareOf(args) == [i \in DOMAIN args |-> args[i].name]
Applied(chain, c) ==
    CASE c.name = "NewRouter" -> <<>>
      [] c.name = "Use" -> chain \o MiddlewareOf(c.args)
      [] OTHER -> chain
SimpleRouter(env, e) ==
    IF e.k = "ident" THEN ChainIn(env, e.x) ELSE Applied(ChainIn(env, e.on), e)
RouterOf(env, e) ==
    IF e.k = "call" /\ e.recv # None
    THEN Applied(SimpleRouter(env, e.recv), e) ELSE SimpleRouter(env, e)

\* The chains that the routes are registered with, as the body runs.
AtFirst == [env |-> NoChains, chains |-> <<>>]
Ran(m, s) ==
    CASE s.k = "decl" ->
           [m EXCEPT !.env = WithChain(@, s.var, RouterOf(@, s.value))]
      [] s.k # "decl" /\ s.name = "Add" ->
           [m EXCEPT !.chains = Append(@, IF s.recv = None THEN ChainIn(m.env, s.on)
                                          ELSE SimpleRouter(m.env, s.recv))]
      [] OTHER -> m
ChainsRun(body) ==
    LET after[i \in 0..Len(body)] ==
          IF i = 0 THEN AtFirst ELSE Ran(after[i - 1], body[i])
    IN  after[Len(body)].chains

\* A program whose variables are assigned once, by :=, from NewRouter or from
\* Use of a variable with middleware of a package, and that adds its routes to
\* variables it has declared.
Declarations(body) == {i \in DOMAIN body : body[i].k = "decl"}
AssignedOnce(body) ==
    \A i, j \in Declarations(body) : body[i].var = body[j].var => i = j
PlainRouters(body) ==
    /\ AssignedOnce(body)
    /\ \A i \in Declarations(body) :
         /\ body[i].tok = ":="
         /\ IsCall(body[i].value)
         /\ body[i].value.name \in {"NewRouter", "Use"}
         /\ body[i].value.recv = None
         /\ \A j \in DOMAIN body[i].value.args : IsCall(body[i].value.args[j])
    /\ \A i \in DOMAIN body \ Declarations(body) : body[i].name = "Add" =>
         /\ IsRoute(body[i]) /\ body[i].recv = None
         /\ \E j \in Declarations(body) : j < i /\ body[j].var = body[i].on

RouterDir == "router"
RouterFile == dirs[RouterDir][1]
DocumentedRoutes == ParseRouterFile(RouterDir, RouterFile.name, "Actions")
RouterBody == Last(FuncsNamed(RouterFile, "Actions")).body

\* A route of a plain program is documented with the middleware it runs
\* behind: buildMiddlewareMap follows Use from router to router.
ChainsAsRun ==
    PlainRouters(RouterBody) =>
        \A i \in DOMAIN DocumentedRoutes :
            DocumentedRoutes[i].middlewareChain = ChainsRun(RouterBody)[i]

-----------------------------------------------------------------------------
(* The requests of a handler (ws/context_params.go, ws/context_binding.go). *)

JSONNames(f) ==
    CASE f.tag.json = <<>> \/ f.tag.json[1] = "" -> ToSet(f.names)
      [] f.tag.json = <<"-">> -> {}
      [] OTHER -> {f.tag.json[1]}
FieldNames(st) == UNION {JSONNames(st.fields[i]) : i \in DOMAIN st.fields}

\* The struct of a type in a file, by Go's rules: a package's types are those
\* of all its files.
StructsOf(t, file, dir) ==
    LET d == IF t.k = "sel" THEN findPackagePath(t.x, file) ELSE dir
        name == IF t.k = "sel" THEN t.sel ELSE t.x
    IN  IF t.k = "struct" THEN {t}
        ELSE {s.type : s \in UNION {ToSet(StructsNamed(f, name)) :
                                    f \in ToSet(ReadDir(d))}}

DeclarationOf(body, v) ==
    CHOOSE d \in ToSet(body) : d.k = "decl" /\ d.var = v
Pointee(t) == IF t.k = "wrap" THEN t.x ELSE t

\* The names that a call on the context `a` reads from the request.
NamesRead(c, body, file, dir) ==
    LET t == TypeGiven(DeclarationOf(body, BoundVar(c)))
        fields == UNION {FieldNames(st) : st \in StructsOf(Pointee(t), file, dir)}
    IN  CASE c.on # "a" -> {}
          [] c.name \in Getters -> {<<c.args[1].v>>}
          [] c.name = "GetPagination" -> {<<"page", "current">>, <<"page", "pageSize">>}
          [] c.name \in Binders -> {<<n>> : n \in fields}
          [] c.name = "BindingJsonPath" ->
               IF t.k = "wrap" THEN {<<c.args[2].v>>}
               ELSE {<<c.args[2].v, n>> : n \in fields}
          [] OTHER -> {}

\* A handler whose variables are declared once, with a type, and before they
\* are bound; that calls only its context; and whose structs have no embedded
\* fields, no options without a name and no column that gorm fills.
PlainField(f) ==
    /\ Len(f.names) = 1
    /\ ~shouldSkipGormField(f.tag)
    /\ ~(Len(f.tag.json) > 1 /\ f.tag.json[1] = "")
PlainHandler(body, file, dir) ==
    /\ AssignedOnce(body)
    /\ \A i \in Declarations(body) :
         LET given == TypeGiven(body[i])
         IN  /\ given.k # "call"
             /\ body[i].tok = "var" => body[i].type # None
             /\ \A st \in StructsOf(Pointee(given), file, dir) :
                  \A f \in DOMAIN st.fields : PlainField(st.fields[f])
    /\ \A i \in DOMAIN body : body[i].k = "call" =>
         /\ body[i].on = "a"
         /\ body[i].name \in Binders \cup {"BindingJsonPath"} =>
              \E j \in Declarations(body) : j < i /\ body[j].var = BoundVar(body[i])

Handler == [dir |-> "internal/login", file |-> 1, func |-> 1]
HandlerFile == dirs[Handler.dir][Handler.file]
HandlerBody == BodyOf(Handler)
HandlerDoc == parseHandler(Sel("login", "Login"), RouterFile, RouterDir)
ParamNames == {p.name : p \in ToSet(HandlerDoc.params)}
AllParse == \A d \in DOMAIN dirs : \A i \in DOMAIN dirs[d] : dirs[d][i].parses

\* The documented parameters of a plain handler are what it reads, in a tree
\* whose files all parse.
ParamsAsRead ==
    AllParse /\ PlainHandler(HandlerBody, HandlerFile, Handler.dir) =>
        ParamNames = UNION {NamesRead(c, HandlerBody, HandlerFile, Handler.dir) :
                            c \in ToSet(CallsOf(HandlerBody))}

\* A parameter is listed twice only by a handler that binds a whole struct:
\* its fields are appended without a look at what is listed.
TwiceOnlyByStruct ==
    (\E i, j \in DOMAIN HandlerDoc.params :
        i # j /\ HandlerDoc.params[i].name = HandlerDoc.params[j].name)
    => \E c \in ToSet(CallsOf(HandlerBody)) : c.name \in Binders

\* The error codes are those that the handler sends as numbers, each once and
\* with the longest text it is sent with, and data is announced by a handler
\* whose last answer in the source is Send, whatever the branches before.
Answers == {i \in DOMAIN HandlerBody :
              /\ HandlerBody[i].k = "call" /\ HandlerBody[i].on = "a"
              /\ HandlerBody[i].name \in {"Send", "SendOk", "SendCode"}}
ErrorsSent == {[code |-> HandlerBody[i].args[1].n,
                text |-> extractStringValue(HandlerBody[i].args[2])] :
               i \in {j \in Answers : /\ HandlerBody[j].name = "SendCode"
                                      /\ HandlerBody[j].args[1].k = "int"
                                      /\ HandlerBody[j].args[1].n > 0}}
AnswersAsSent ==
    LET codes == HandlerDoc.returns.codes
        Documents(i, e) == codes[i].code = e.code
    IN  AllParse =>
          /\ \A e \in ErrorsSent :
               Cardinality({i \in DOMAIN codes : Documents(i, e)}) = 1
          /\ \A i \in DOMAIN codes : \E e \in ErrorsSent :
               /\ Documents(i, e)
               /\ codes[i].message = IF e.text = "" THEN NoMessage ELSE e.text
               /\ \A o \in ErrorsSent :
                    o.code = e.code => Bytes(o.text) <= Bytes(codes[i].message)
          /\ HandlerDoc.returns.hasData =
               (Answers # {} /\ HandlerBody[Max(Answers)].name = "Send")

\* The middleware documented for a route is the middleware it runs behind, in
\* every plain program (internal/docgen/parser.go:170).
RoutesAsRun == writing \in Writable => ChainsAsRun

\* A handler is documented as it works: the parameters that it reads, each
\* once, and the answers that it sends.
HandlersAsRun ==
    writing \in Writable => ParamsAsRead /\ TwiceOnlyByStruct /\ AnswersAsSent
=============================================================================
