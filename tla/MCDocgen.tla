------------------------------ MODULE MCDocgen ------------------------------
(* One of two: a program is written, or docgen is run on versions of one.   *)
EXTENDS DocPrograms, DocRuns

CONSTANTS MCMaxRouter, MCMaxHandler

File(name, funcs, types, imports) ==
    [name |-> name, package |-> "p", parses |-> TRUE, imports |-> imports,
     funcs |-> funcs, types |-> types]
Func(name, body) == [name |-> name, doc |-> "does " \o name, body |-> body]
Import(dir, last) == [dir |-> dir, last |-> last, internal |-> TRUE]
Tag(json, gorm) == [json |-> json, gorm |-> gorm]
NoTag == Tag(<<>>, {})
Field(names, type, tag) == [names |-> names, type |-> type, tag |-> tag]
Ptr(x) == Wrap(<<"*">>, x)

Let(v, e) == IF e.k = "call" THEN <<Decl(":=", v, None, e), e>>
             ELSE <<Decl(":=", v, None, e)>>
Var(v, t) == <<Decl("var", v, t, None)>>
A(name, args) == <<Call("a", name, args)>>
Mw(name) == Call("mw", name, <<>>)

LoginRoute(name) == <<Lit(name), Sel("login", "Login")>>
RouterStatements == {
    Let("auth", Call("r", "Use", <<Mw("Auth"), Mw("Log")>>)),
    Let("adm", Call("auth", "Use", <<Mw("Adm")>>)),
    Let("auth", Call("r", "Use", <<CallFunc("Own", <<>>)>>)),
    <<Decl("var", "auth", None, Call("r", "Use", <<Mw("Log")>>))>>,
    <<Decl("=", "r", None, Call("r", "Use", <<Mw("Log")>>))>>,
    Let("grp", Call("auth", "Group", <<Lit("g")>>)),
    Let("al", Id("auth")),
    <<CallOn(Call("r", "Use", <<Mw("Log")>>), "Add", LoginRoute("ping")),
      Call("r", "Use", <<Mw("Log")>>)>>,
    <<Call("r", "Add", LoginRoute("ping"))>>,
    <<Call("adm", "Add", <<Lit("user.get"), Id("List")>>)>>,
    <<Call("grp", "Add", <<Lit("user.del"), FuncLit(A("SendOk", <<>>))>>)>>,
    <<Call("al", "Add", <<Lit("user.del"), Id("Login")>>)>>}
HandlerStatements == {
    Var("req", Id("Req")), Var("req", Ptr(Id("Far"))),
    Let("req", CompLit(Sel("model", "User"))), Let("req", CompLit(Id("Odd"))),
    Let("req", CallFunc("newReq", <<>>)),
    Var("ids", Wrap(<<"[]">>, Id("string"))),
    <<Decl("var", "ids", None, CompLit(Id("Req")))>>,
    A("BindingJson", <<Addr(Id("req"))>>), A("BindingJson", <<Id("req")>>),
    A("BindingJsonPath", <<Addr(Id("req")), Lit("user")>>),
    A("BindingJsonPath", <<Addr(Id("ids")), Lit("ids")>>),
    A("Get", <<Lit("name")>>), A("GetInt", <<Lit("page")>>),
    <<Call("cache", "Get", <<Lit("k")>>)>>, A("GetPagination", <<>>),
    A("Send", <<Id("x")>>), A("SendOk", <<>>),
    A("SendCode", <<Num(1), Lit("no")>>),
    A("SendCode", <<Num(1), Call("err", "Error", <<>>)>>),
    A("SendCode", <<Num(2), Lit("")>>), A("SendCode", <<Id("code"), Lit("no")>>)}

Login == File("login.go", <<Func("Login", <<>>)>>,
    <<[name |-> "Req", type |-> Struct(<<
         Field(<<"Name">>, Id("string"), Tag(<<"name">>, {})),
         Field(<<"Age">>, Ptr(Id("int")), NoTag),
         Field(<<"Pwd">>, Id("string"), Tag(<<"-">>, {}))>>)],
      [name |-> "Odd", type |-> Struct(<<
         Field(<<"A", "B">>, Id("int"), NoTag),
         Field(<<"C">>, Id("int"), Tag(<<"", "omitempty">>, {})),
         Field(<<>>, Id("Req"), NoTag)>>)]>>,
    <<Import("internal/model", "model")>>)
Far == File("far.go", <<>>, <<[name |-> "Far", type |-> Struct(<<
         Field(<<"Far">>, Sel("time", "Time"), Tag(<<"far", "omitempty">>, {}))>>)]>>, <<>>)
Model == File("user.go", <<Func("List", A("Send", <<Id("x")>>))>>,
    <<[name |-> "User", type |-> Struct(<<
         Field(<<"Id">>, Id("uint"), Tag(<<"id">>, {"primaryKey", "autoIncrement"})),
         Field(<<"Mail">>, Wrap(<<"[]">>, Id("string")), Tag(<<"mail">>, {}))>>)]>>, <<>>)
RoutesOf(body) == File("a.go", <<Func("Actions", body)>>, <<>>,
    <<Import("internal/login", "login"), Import("internal/model", "model")>>)
Broken(f) == [f EXCEPT !.parses = FALSE]
NewRouter == Let("r", Call("ws", "NewRouter", <<>>))

MCProjects == {
    [d \in {"router", "internal/login", "internal/model"} |->
       CASE d = "router" -> <<RoutesOf(NewRouter)>>
         [] d = "internal/login" -> <<Login, far>>
         [] OTHER -> <<Model>>] : far \in {Far, Broken(Far)}}
MCWritable == {[dir |-> "router", file |-> 1, func |-> 1], Handler}
MCMaxStatements(w) == IF w = Handler THEN MCMaxHandler ELSE MCMaxRouter
MCStatements(w) ==
    IF w = Handler THEN HandlerStatements ELSE RouterStatements

Routes(name, names) ==
    Func(name, [i \in DOMAIN names |-> Call("r", "Add", <<Lit(names[i]), Id("h")>>)])
Source(files, sub) ==
    [d \in {"router", "router/sub"} |-> IF d = "router" THEN files ELSE sub]
RFile(name, funcs) == File(name, funcs, <<>>, <<>>)
MCSources == {
    Source(<<RFile("a", <<Routes("Actions", <<"user.get">>)>>)>>, <<>>),
    Source(<<RFile("a", <<Routes("Actions", <<"user.get", "user.del">>)>>),
             RFile("b", <<Routes("events", <<"user.get">>), Routes("Pings", <<"ping">>)>>)>>,
           <<>>),
    Source(<<RFile("a", <<Routes("Actions", <<"user.del">>),
                          Routes("Admin", <<"ping">>)>>)>>, <<>>),
    Source(<<RFile("a", <<Routes("Actions", <<"user.get">>)>>),
             Broken(RFile("b", <<Routes("Pings", <<"ping">>)>>))>>, <<>>),
    Source(<<>>, <<RFile("c", <<Routes("Actions", <<"ping">>)>>)>>)}

MCParts == [n \in {"ping", "user.get", "user.del"} |->
    CASE n = "ping" -> <<"ping">> [] n = "user.get" -> <<"user", "get">>
      [] OTHER -> <<"user", "del">>]

Init ==
    \/ ProgramInit /\ RunsInit /\ commit = NoGit
    \/ /\ dirs \in {t \in MCSources : Len(t["router"]) = 1} /\ RunsInit
       /\ writing = None
Next ==
    \/ writing # None /\ Write /\ UNCHANGED runVars
    \/ writing = None /\ RunsNext /\ UNCHANGED writing
Spec == Init /\ [][Next]_<<dirs, writing, runVars>>
=============================================================================
