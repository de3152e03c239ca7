----------------------------- MODULE DocParser -----------------------------
(***************************************************************************)
(* What `aqi docgen` reads out of a project's source                        *)
(* (internal/docgen/parser.go).  The source is given as Go's parser leaves  *)
(* it, cut down to what docgen looks at: a function's body is the sequence  *)
(* of its calls and declarations in the order of ast.Inspect.  A parameter's *)
(* name is a sequence, so that "page.current" is <<"page", "current">>.     *)
(***************************************************************************)
EXTENDS Naturals, SequencesExt

VARIABLE dirs   \* the files of each directory, in the order of os.ReadDir

-----------------------------------------------------------------------------
(* The tree of Go's parser.                                                 *)

None == [k |-> "none"]
Id(x) == [k |-> "ident", x |-> x]
Lit(s) == [k |-> "lit", v |-> s]
Num(n) == [k |-> "int", n |-> n]
Sel(x, name) == [k |-> "sel", x |-> x, sel |-> name]
Addr(e) == [k |-> "addr", e |-> e]
Struct(fields) == [k |-> "struct", fields |-> fields]
CompLit(type) == [k |-> "complit", type |-> type]
\* A type behind pointers and slices, the outermost first; x is neither.
Wrap(by, x) == [k |-> "wrap", by |-> by, x |-> x]
FuncLit(body) == [k |-> "func", body |-> body]
\* A call of the method name of the identifier `on`, or of what the call
\* recv returns, where `on` is "".  A plain function is called on nothing.
Call(on, name, args) ==
    [k |-> "call", fun |-> "sel", on |-> on, recv |-> None, name |-> name,
     args |-> args]
CallOn(recv, name, args) == [Call("", name, args) EXCEPT !.recv = recv]
CallFunc(name, args) == [Call("", name, args) EXCEPT !.fun = "ident"]
\* tok is "var", ":=" or "=".
Decl(tok, var, type, value) ==
    [k |-> "decl", tok |-> tok, var |-> var, type |-> type, value |-> value]

IsCall(n) == n.k = "call" /\ n.fun = "sel"
CallsOf(body) == SelectSeq(body, IsCall)

\* The elements of s that are in S, in their order.
OnlyIn(s, S) ==
    LET upto[i \in 0..Len(s)] ==
          IF i = 0 THEN <<>>
          ELSE IF s[i] \in S THEN Append(upto[i - 1], s[i]) ELSE upto[i - 1]
    IN  upto[Len(s)]

FuncsNamed(file, name) ==
    OnlyIn(file.funcs, {fn \in ToSet(file.funcs) : fn.name = name})
StructsNamed(file, name) ==
    SelectSeq(file.types, LAMBDA t : t.name = name /\ t.type.k = "struct")
ReadDir(dir) == IF dir \in DOMAIN dirs THEN dirs[dir] ELSE <<>>
Parsed(dir) == OnlyIn(ReadDir(dir), {f \in ToSet(ReadDir(dir)) : f.parses})

-----------------------------------------------------------------------------
(* Routers.                                                                 *)

\* The functions of the files with an Add call; the walk ends with an error
\* at a file that does not parse.
Registers(fn) ==
    /\ \E i \in DOMAIN fn.body : IsCall(fn.body[i]) /\ fn.body[i].name = "Add"
    /\ fn.name # "events"

ScanRouterFiles(walked) ==
    [failed |-> \E i \in DOMAIN walked : ~walked[i].parses,
     files |-> FlattenSeq([i \in DOMAIN walked |->
        LET fns == SelectSeq(walked[i].funcs, Registers)
        IN  [j \in DOMAIN fns |-> [fileName |-> walked[i].name,
                                   funcName |-> fns[j].name]]])]

extractStringLiteral(e) == IF e.k = "lit" THEN e.v ELSE ""

extractMiddlewares(args) ==
    LET called == OnlyIn(args, {a \in ToSet(args) : IsCall(a)})
    IN  [i \in DOMAIN called |-> called[i].name]

\* The chains of variables; one that has none is not in the map.
NoChains == [v \in {} |-> <<>>]
ChainIn(chains, v) == IF v \in DOMAIN chains THEN chains[v] ELSE <<>>
WithChain(chains, v, chain) ==
    [w \in DOMAIN chains \cup {v} |-> IF w = v THEN chain ELSE chains[w]]

\* Mutant: a router made by Use is documented without its parent's middleware.
AssignedOwn(chains, s) ==
    IF s.k = "decl" /\ s.tok # "var"
    THEN WithChain(chains, s.var,
           IF IsCall(s.value) /\ s.value.name = "Use"
           THEN extractMiddlewares(s.value.args) ELSE <<>>)
    ELSE chains

\* The chain of each variable, from the last assignment to it: only what
\* NewRouter and Use return is known.
Assigned(chains, s) ==
    IF s.k = "decl" /\ s.tok # "var"
    THEN WithChain(chains, s.var,
           IF IsCall(s.value) /\ s.value.name = "Use"
           THEN ChainIn(chains, s.value.on) \o extractMiddlewares(s.value.args)
           ELSE <<>>)
    ELSE chains
buildMiddlewareMap(body) ==
    LET upto[i \in 0..Len(body)] ==
          IF i = 0 THEN NoChains ELSE Assigned(upto[i - 1], body[i])
    IN  upto[Len(body)]

-----------------------------------------------------------------------------
(* Finding a function or a type in the project.                             *)

\* The path an import gives to a package of the project, by its last element.
findPackagePath(pkg, file) ==
    LET i == SelectInSeq(file.imports, LAMBDA p : p.internal /\ p.last = pkg)
    IN  IF i = 0 THEN "" ELSE file.imports[i].dir

\* The first file that parses and has the function; None when there is none.
findHandlerFile(dir, name) ==
    LET i == SelectInSeq(Parsed(dir), LAMBDA f : FuncsNamed(f, name) # <<>>)
    IN  IF i = 0 THEN None ELSE Parsed(dir)[i]

findPackageByFuncName(name, file) ==
    LET i == SelectInSeq(file.imports,
               LAMBDA p : p.internal /\ findHandlerFile(p.dir, name) # None)
    IN  IF i = 0 THEN "" ELSE file.imports[i].dir

findTypeFile(dir, name) ==
    LET i == SelectInSeq(Parsed(dir), LAMBDA f : StructsNamed(f, name) # <<>>)
    IN  IF i = 0 THEN None ELSE Parsed(dir)[i]

-----------------------------------------------------------------------------
(* Struct fields.  A tag holds json's name and options, and gorm's settings. *)

\* An option without a name is taken for a name.
extractJSONTag(tag) ==
    CASE tag.json = <<>> -> ""
      [] Len(tag.json) > 1 /\ tag.json[1] = "" -> "," \o tag.json[2]
      [] OTHER -> tag.json[1]

shouldSkipGormField(tag) ==
    \/ /\ "primaryKey" \in tag.gorm
       /\ tag.gorm \cap {"autoIncrement", "autoIncrement:true",
                         "autoIncrement:false"} # {}
    \/ tag.gorm \cap {"default:CURRENT_TIMESTAMP", "default:current_timestamp",
                      "default:now()"} # {}

isOptional(type, tag) ==
    \/ type.k = "wrap" /\ type.by[1] = "*"
    \/ \E i \in DOMAIN tag.json : tag.json[i] = "omitempty"

getTypeString(t) ==
    LET NameOf(b) == CASE b.k = "ident" -> b.x
                       [] b.k = "sel" -> b.x \o "." \o b.sel
                       [] OTHER -> "any"
    IN  IF t.k = "wrap" THEN FoldRight(LAMBDA w, s : w \o s, t.by, NameOf(t.x))
                        ELSE NameOf(t)

\* Mutant: a parameter is listed again.
AddAgain(params, p) == Append(params, p)

AddOnce(params, p) ==
    IF \E i \in DOMAIN params : params[i].name = p.name
    THEN params ELSE Append(params, p)

Param(name, type, required) ==
    [name |-> name, type |-> type, required |-> required]

\* The parameters of a struct's fields: an embedded field has no names, and
\* of several names the first counts.
FieldParams(st, prefix) ==
    LET Shown(f) == /\ f.names # <<>>
                    /\ extractJSONTag(f.tag) # "-"
                    /\ ~shouldSkipGormField(f.tag)
        NameOf(f) == IF extractJSONTag(f.tag) = "" THEN f.names[1]
                     ELSE extractJSONTag(f.tag)
        shown == SelectSeq(st.fields, Shown)
    IN  [i \in DOMAIN shown |->
           Param(Append(prefix, NameOf(shown[i])), getTypeString(shown[i].type),
                 ~isOptional(shown[i].type, shown[i].tag))]

extractFieldsFromStruct(st, params) == params \o FieldParams(st, <<>>)

\* Mutant: the prefix is forgotten.
extractFieldsWithoutPrefix(st, params, prefix) ==
    FoldLeft(AddOnce, params, FieldParams(st, <<>>))

extractFieldsFromStructWithPrefix(st, params, prefix) ==
    FoldLeft(AddOnce, params, FieldParams(st, prefix))

\* All the structs of that name in a file are taken.
parseExternalType(file, name, params) ==
    FoldLeft(LAMBDA ps, t : extractFieldsFromStruct(t.type, ps), params,
             StructsNamed(file, name))

parseExternalTypeWithPrefix(file, name, params, prefix) ==
    FoldLeft(LAMBDA ps, t : extractFieldsFromStructWithPrefix(t.type, ps, prefix),
             params, StructsNamed(file, name))

SamePackage(dir, file) ==
    SelectSeq(Parsed(dir), LAMBDA f : f.package = file.package)

\* A type of the package is looked for in the handler's file, then in the
\* others; one of another package in the directory of the import.
extractStructFieldsWithPackage(type, params, file, dir) ==
    LET pointee == IF type.k = "wrap" /\ Range(type.by) = {"*"}
                   THEN type.x ELSE type
        t == IF pointee.k = "complit" THEN pointee.type ELSE pointee
        others == SelectSeq(SamePackage(dir, file),
                            LAMBDA f : StructsNamed(f, t.x) # <<>>)
        found == IF t.k = "sel" THEN findTypeFile(findPackagePath(t.x, file), t.sel)
                 ELSE IF StructsNamed(file, t.x) # <<>> THEN file
                 ELSE IF others # <<>> THEN others[1] ELSE None
    IN  CASE t.k = "struct" -> extractFieldsFromStruct(t, params)
          [] t.k = "ident" /\ found # None -> parseExternalType(found, t.x, params)
          [] t.k = "sel" /\ found # None -> parseExternalType(found, t.sel, params)
          [] OTHER -> params

-----------------------------------------------------------------------------
(* The parameters that a handler's body reads.                              *)

Binders == {"BindingJson", "BindingValidateJson", "GetJson"}
Getters == {"Get", "GetInt", "GetBool", "GetId"}

\* The variable whose address is the first argument of a binding call.
BoundVar(c) ==
    IF c.args # <<>> /\ c.args[1].k = "addr" /\ c.args[1].e.k = "ident"
    THEN c.args[1].e.x ELSE ""

TypeGiven(d) ==
    CASE d.type # None -> d.type
      [] d.value.k = "complit" -> d.value.type
      [] OTHER -> d.value

\* The last declaration of the variable in the body decides on its type.
VarType(body, v) ==
    LET ds == SelectSeq(body, LAMBDA n : n.k = "decl" /\ n.tok # "=" /\ n.var = v)
    IN  IF ds = <<>> THEN None ELSE TypeGiven(Last(ds))

BoundStruct(c, body, params, file, dir) ==
    LET type == VarType(body, BoundVar(c))
    IN  IF BoundVar(c) = "" \/ type = None THEN params
        ELSE extractStructFieldsWithPackage(type, params, file, dir)

\* BindingJsonPath does not infer the type of var v = value.
PathType(body, v) ==
    VarType(SelectSeq(body, LAMBDA n : ~(n.k = "decl" /\ n.tok = "var"
                                          /\ n.type = None)), v)

BoundPath(c, body, params, file, dir) ==
    LET type == PathType(body, BoundVar(c))
        path == <<IF extractStringLiteral(c.args[2]) = "" THEN "path"
                  ELSE extractStringLiteral(c.args[2])>>
        WithPrefix(ps, f) == parseExternalTypeWithPrefix(f, type.x, ps, path)
        pkgDir == findPackagePath(type.x, file)
    IN  CASE Len(c.args) < 2 \/ BoundVar(c) = "" -> params
          [] type.k = "struct" -> extractFieldsFromStructWithPrefix(type, params, path)
          [] type.k = "ident" -> FoldLeft(WithPrefix, params, SamePackage(dir, file))
          [] type.k = "sel" ->
               IF findTypeFile(pkgDir, type.sel) = None THEN params
               ELSE parseExternalTypeWithPrefix(findTypeFile(pkgDir, type.sel),
                                                type.sel, params, path)
          [] OTHER -> AddOnce(params, Param(path, getTypeString(type), TRUE))

Paginated(c, params, file) ==
    LET ws == findPackagePath("ws", file)
        page == findTypeFile(ws, "Page")
    IN  CASE c.on = "" -> params
          [] ws = "" -> AddOnce(AddOnce(params,
                          Param(<<"page", "current">>, "int", FALSE)),
                          Param(<<"page", "pageSize">>, "int", FALSE))
          [] page = None -> params
          [] OTHER -> parseExternalTypeWithPrefix(page, "Page", params, <<"page">>)

Got(c, params) ==
    LET key == IF c.args = <<>> THEN "" ELSE extractStringLiteral(c.args[1])
        type == CASE c.name = "GetInt" -> "int" [] c.name = "GetBool" -> "bool"
                  [] c.name = "GetId" -> "uint" [] OTHER -> "string"
    IN  IF c.on = "" \/ key = "" THEN params
        ELSE AddOnce(params, Param(<<key>>, type, TRUE))

extractParamsFromFuncBody(body, params, file, dir) ==
    FoldLeft(LAMBDA ps, c :
        CASE c.name \in Binders -> BoundStruct(c, body, ps, file, dir)
          [] c.name = "BindingJsonPath" -> BoundPath(c, body, ps, file, dir)
          [] c.name \in {"GetPagination", "GetMaxPagination"} ->
                Paginated(c, ps, file)
          [] c.name \in Getters -> Got(c, ps)
          [] OTHER -> ps,
        params, CallsOf(body))

-----------------------------------------------------------------------------
(* What a handler's body answers.                                           *)

ErrorMessage == "error text"   \* stands for what err.Error() is shown as
NoMessage == "error"           \* stands for what no message is shown as
\* The lengths in bytes; the two texts are Chinese, three bytes a character.
Bytes(msg) == CASE msg = ErrorMessage -> 12 [] msg = NoMessage -> 6
                [] OTHER -> Len(msg)

extractIntValue(e) == IF e.k = "int" THEN e.n ELSE 0

extractStringValue(e) ==
    CASE e.k = "lit" -> e.v
      [] e.k = "call" /\ e.fun = "sel" /\ e.name = "Error" -> ErrorMessage
      [] e.k = "ident" -> e.x
      [] OTHER -> ""

\* Mutant: a code that is known is listed again.
WithErrorCodeTwice(codes, code, msg) ==
    Append(codes, [code |-> code, message |-> msg])

\* One entry for a code, with the longest of its messages.
WithErrorCode(codes, code, msg) ==
    LET i == SelectInSeq(codes, LAMBDA e : e.code = code)
    IN  CASE i = 0 -> Append(codes, [code |-> code, message |-> msg])
          [] i # 0 /\ Bytes(msg) > Bytes(codes[i].message) ->
               [codes EXCEPT ![i].message = msg]
          [] OTHER -> codes

NoReturns == [type |-> "", codes |-> <<>>, hasData |-> FALSE]

extractReturnsFromFuncBody(body, returns) ==
    LET Answer(r, c) ==
          CASE c.on = "" -> r
            [] c.on # "" /\ c.name = "Send" ->
                 [r EXCEPT !.hasData = TRUE,
                           !.type = IF c.args = <<>> THEN @
                                    ELSE getTypeString(c.args[1])]
            [] c.on # "" /\ c.name = "SendOk" -> [r EXCEPT !.hasData = FALSE]
            [] c.on # "" /\ c.name = "SendCode" ->
                 LET code == IF Len(c.args) < 2 THEN 0 ELSE extractIntValue(c.args[1])
                     said == extractStringValue(c.args[2])
                 IN  [r EXCEPT !.hasData = FALSE,
                               !.codes = IF code = 0 THEN @
                                         ELSE WithErrorCode(@, code,
                                                IF said = "" THEN NoMessage ELSE said)]
            [] OTHER -> r
    IN  FoldLeft(Answer, returns, CallsOf(body))

-----------------------------------------------------------------------------
(* Handlers and routes.                                                     *)

Undocumented == [params |-> <<>>, returns |-> NoReturns, description |-> ""]

\* All the functions and methods of a name count; those of another package
\* give their comment too.
DocumentFuncs(fns, file, dir, described) ==
    FoldLeft(LAMBDA d, fn :
        [params |-> extractParamsFromFuncBody(fn.body, d.params, file, dir),
         returns |-> extractReturnsFromFuncBody(fn.body, d.returns),
         description |-> IF described /\ fn.doc # "" THEN fn.doc
                         ELSE d.description],
        Undocumented, fns)

parseExternalHandler(dir, name) ==
    LET file == findHandlerFile(dir, name)
    IN  IF file = None THEN Undocumented
        ELSE DocumentFuncs(FuncsNamed(file, name), file, dir, TRUE)

\* An identifier is a function of the router's file, or else of any package
\* that file imports.
parseHandler(handler, file, dir) ==
    CASE handler.k = "sel" ->
           parseExternalHandler(findPackagePath(handler.x, file), handler.sel)
      [] handler.k = "ident" /\ FuncsNamed(file, handler.x) # <<>> ->
           DocumentFuncs(FuncsNamed(file, handler.x), file, dir, FALSE)
      [] handler.k = "ident" /\ FuncsNamed(file, handler.x) = <<>> ->
           parseExternalHandler(findPackageByFuncName(handler.x, file), handler.x)
      [] handler.k = "func" ->
           DocumentFuncs(<<[name |-> "", doc |-> "", body |-> handler.body]>>,
                         file, dir, FALSE)
      [] OTHER -> Undocumented

IsRoute(n) == /\ IsCall(n) /\ n.name = "Add" /\ Len(n.args) >= 2
              /\ extractStringLiteral(n.args[1]) # ""
RoutesIn(body) == OnlyIn(body, {n \in ToSet(body) : IsRoute(n)})

\* The actions that the last function of that name adds; none when the file
\* is not in the directory, or does not parse.
ParseRouterFile(dir, fileName, funcName) ==
    LET files == OnlyIn(Parsed(dir), {f \in ToSet(Parsed(dir)) : f.name = fileName})
        fns == FuncsNamed(files[1], funcName)
        body == Last(fns).body
        routes == RoutesIn(body)
        chains == buildMiddlewareMap(body)
    IN  IF files = <<>> \/ fns = <<>> THEN <<>>
        ELSE [i \in DOMAIN routes |->
                LET handler == parseHandler(routes[i].args[2], files[1], dir)
                IN  [name |-> extractStringLiteral(routes[i].args[1]),
                     middlewareGroup |-> routes[i].on,
                     middlewareChain |-> ChainIn(chains, routes[i].on),
                     params |-> handler.params, returns |-> handler.returns,
                     description |-> handler.description]]
=============================================================================
