-------------------------------- MODULE Mcp --------------------------------
(***************************************************************************)
(* The MCP server (mcp/server.go, context.go, schema.go, tool.go): JSON-RPC *)
(* requests over HTTP, and tools whose handlers run in goroutines of their  *)
(* own, under a timeout, while the request waits.                           *)
(***************************************************************************)
EXTENDS Naturals, FiniteSets, SequencesExt

CONSTANTS
    Calls,        \* the HTTP requests
    Requests,     \* what a request may hold
    ToolChoices,  \* what may be registered: [name, tool]
    MaxSends,     \* bound: what a handler sends
    NoResult      \* nothing in the channel done

ASSUME SendsAssumption == MaxSends \in Nat
ASSUME RequestsAssumption ==
    \A req \in Requests :
        {req.post, req.authorized, req.parses, req.valid, req.id} \subseteq BOOLEAN

VARIABLES
    tools,        \* Server.tools
    initialized,  \* Server.initialized
    calls         \* the requests, with the goroutines of their handlers
vars == <<tools, initialized, calls>>

-----------------------------------------------------------------------------
(* Schemas and arguments.  A JSON value is its kind; a "numeral" is a string *)
(* that reads as a number.                                                  *)

EmptyObjectSchema ==
    [type |-> "object", properties |-> [p \in {} |-> ""], required |-> <<>>]
normalizeSchema(schema) ==
    IF schema.type = "" THEN EmptyObjectSchema ELSE schema
validateInputSchema(schema) == normalizeSchema(schema).type = "object"

\* Mutant: a fraction passes for an integer.
validateArgumentTypeLoose(type, value) ==
    value \in CASE type = "string" -> {"string", "numeral", "null"}
                [] type \in {"number", "integer"} -> {"integer", "fraction", "numeral"}
                [] type = "boolean" -> {"boolean", "null"}
                [] type = "object" -> {"object", "null"}
                [] type = "array" -> {"array", "null"}
                [] OTHER -> {value}

\* What encoding/json takes for the type: null leaves a variable as it is,
\* which is no number, and a json.Number is also read from a string.
validateArgumentType(type, value) ==
    value \in CASE type = "string" -> {"string", "numeral", "null"}
                [] type = "number" -> {"integer", "fraction", "numeral"}
                [] type = "integer" -> {"integer", "numeral"}
                [] type = "boolean" -> {"boolean", "null"}
                [] type = "object" -> {"object", "null"}
                [] type = "array" -> {"array", "null"}
                [] OTHER -> {value}

\* args is the object's members, or NotObject.
NotObject == [notObject |-> "value"]
validateArguments(schema, args) ==
    /\ args # NotObject
    /\ ToSet(schema.required) \subseteq DOMAIN args
    /\ \A p \in DOMAIN schema.properties \cap DOMAIN args :
         validateArgumentType(schema.properties[p], args[p])

\* What JSON Schema means by the types the code knows.
JsonTypes == {"string", "number", "integer", "boolean", "object", "array"}
IsOfType(type, value) ==
    value \in CASE type = "string" -> {"string", "numeral"}
                [] type = "number" -> {"integer", "fraction"}
                [] OTHER -> {type}

-----------------------------------------------------------------------------
(* What a handler sends, and the result that is made of it.                 *)

Silent == [set |-> FALSE, err |-> FALSE, code |-> 0, msg |-> "", data |-> "nil"]
Said == [Silent EXCEPT !.set = TRUE]
\* Send (of data that JSON can or cannot encode), SendOk, SendMsg, SendCode
\* and Error; Error(nil) sends nothing.
Sends == {[Said EXCEPT !.data = "data"], [Said EXCEPT !.data = "unencodable"],
          Said, [Said EXCEPT !.msg = "msg"],
          [Said EXCEPT !.code = 1, !.msg = "msg"],
          [Said EXCEPT !.err = TRUE]}

Result(isError, text, data) == [isError |-> isError, text |-> text, data |-> data]
errorToolResult(text) == Result(TRUE, text, "nil")
textSummary(data, msg) ==
    CASE msg # "" -> msg [] msg = "" /\ data = "nil" -> "ok" [] OTHER -> data

\* responseData, and the result that callTool makes of it.
ResultOf(r) ==
    CASE r.err -> Result(TRUE, "err", "nil")
      [] ~r.err /\ r.code # 0 -> Result(TRUE, textSummary("response", r.msg), "response")
      [] ~r.err /\ r.code = 0 /\ r.msg # "" -> Result(FALSE, r.msg, "response")
      [] OTHER -> Result(FALSE, textSummary(r.data, ""), r.data)

-----------------------------------------------------------------------------
(* Answers.  An answer that cannot be encoded is an empty body.             *)

Status(code) == [kind |-> "status", code |-> code]
RpcError(id, code) == [kind |-> "error", id |-> id, code |-> code]
RpcResult(id, result) ==
    IF result.data = "unencodable" THEN [kind |-> "empty"]
    ELSE [kind |-> "result", id |-> id, result |-> result]
Unanswered == [kind |-> "none"]
Plain == Result(FALSE, "", "nil")   \* the results of initialize, ping and list

Idle == [pc |-> "idle", req |-> NoResult, tool |-> NoResult, ctxDone |-> FALSE,
         handler |-> "none", response |-> Silent, sent |-> 0, done |-> NoResult,
         answer |-> Unanswered]

Init ==
    /\ tools = [n \in {} |-> NoResult]
    /\ initialized = FALSE
    /\ calls = [c \in Calls |-> Idle]

-----------------------------------------------------------------------------
\* Tool panics on a name that is taken, without a handler, and for a schema
\* that is not an object's.
Tool ==
    /\ \E t \in ToolChoices :
         /\ t.name \notin DOMAIN tools
         /\ validateInputSchema(t.tool.schema)
         /\ tools' = [n \in DOMAIN tools \cup {t.name} |->
              IF n = t.name
              THEN [t.tool EXCEPT !.schema = normalizeSchema(t.tool.schema)]
              ELSE tools[n]]
    /\ UNCHANGED <<initialized, calls>>

\* The answer to a request that runs no tool, or CallTool.
CallTool == [kind |-> "call"]
dispatch(req) ==
    CASE req.method = "notifications/initialized" -> Status(202)
      [] req.method \in {"initialize", "ping", "tools/list"} -> RpcResult(req.id, Plain)
      [] req.method = "tools/call" ->
           IF /\ req.name \in DOMAIN tools
              /\ validateArguments(tools[req.name].schema, req.args)
           THEN CallTool ELSE RpcError(req.id, "invalid params")
      [] OTHER -> RpcError(req.id, "method not found")

\* Mutant: a notification's result is written.
serveHTTPAnswers(req) ==
    CASE ~req.post -> Status(405)
      [] req.post /\ ~req.authorized -> Status(401)
      [] req.post /\ req.authorized /\ ~req.parses -> RpcError(FALSE, "parse error")
      [] req.post /\ req.authorized /\ req.parses /\ ~req.valid ->
           RpcError(req.id, "invalid request")
      [] OTHER -> dispatch(req)

\* A request without an id is a notification: a status is all it gets.
serveHTTP(req) ==
    CASE ~req.post -> Status(405)
      [] req.post /\ ~req.authorized -> Status(401)
      [] req.post /\ req.authorized /\ ~req.parses -> RpcError(FALSE, "parse error")
      [] req.post /\ req.authorized /\ req.parses /\ ~req.valid ->
           RpcError(req.id, "invalid request")
      [] OTHER -> IF req.id \/ dispatch(req) = CallTool THEN dispatch(req)
                  ELSE Status(202)

Served(req) == req.post /\ req.authorized /\ req.parses /\ req.valid

Receive(c) ==
    /\ calls[c].pc = "idle"
    /\ \E req \in Requests :
         /\ calls' = [calls EXCEPT ![c] =
              IF serveHTTP(req) = CallTool
              THEN [Idle EXCEPT !.pc = "waiting", !.req = req, !.handler = "running",
                                !.tool = tools[req.name]]
              ELSE [Idle EXCEPT !.pc = "answered", !.req = req,
                                !.answer = serveHTTP(req)]]
         /\ initialized' = (initialized \/ (Served(req)
                              /\ req.method = "notifications/initialized"))
    /\ UNCHANGED tools

-----------------------------------------------------------------------------
(* A tool's call: the goroutine of its handler.                             *)

HandlerSends(c) ==
    /\ calls[c].handler = "running" /\ calls[c].sent < MaxSends
    /\ \E s \in Sends :
         calls' = [calls EXCEPT ![c].response = s, ![c].sent = @ + 1]
    /\ UNCHANGED <<tools, initialized>>

\* The handler returns or panics, at a moment of its own; then the outcome is
\* sent on done.
HandlerEnds(c) ==
    /\ calls[c].handler = "running"
    /\ \E how \in {"returned", "panicked"} :
         calls' = [calls EXCEPT ![c].handler = how]
    /\ UNCHANGED <<tools, initialized>>

\* Mutant: done has no buffer.
RoomUnbuffered(c) == calls[c].pc = "waiting"
\* done has room for one.
Room(c) == calls[c].done = NoResult

Ended == {"returned", "panicked"}
Deliver(c) ==
    /\ calls[c].handler \in Ended /\ Room(c)
    /\ calls' = [calls EXCEPT ![c].handler = "gone",
                              ![c].done = [panic |-> calls[c].handler = "panicked"]]
    /\ UNCHANGED <<tools, initialized>>

-----------------------------------------------------------------------------
(* callTool: the select of the waiting request, which takes either case when *)
(* both are ready.                                                          *)

TimerFires(c) ==
    /\ calls[c].pc = "waiting" /\ ~calls[c].ctxDone /\ calls[c].tool.timeout
    /\ calls' = [calls EXCEPT ![c].ctxDone = TRUE]
    /\ UNCHANGED <<tools, initialized>>

ClientLeaves(c) ==
    /\ calls[c].pc = "waiting" /\ ~calls[c].ctxDone
    /\ calls' = [calls EXCEPT ![c].ctxDone = TRUE]
    /\ UNCHANGED <<tools, initialized>>

\* Mutant: a notification gets no status.
AnswerWithNothing(c, result) ==
    calls' = [calls EXCEPT ![c].pc = "answered",
                ![c].answer = IF calls[c].req.id THEN RpcResult(TRUE, result)
                              ELSE Unanswered]

AnswerWith(c, result) ==
    calls' = [calls EXCEPT ![c].pc = "answered",
                ![c].answer = IF calls[c].req.id THEN RpcResult(TRUE, result)
                              ELSE Status(202)]

\* Mutant: what the handler has sent so far is answered.
TakeDeadlinePartial(c) ==
    /\ calls[c].pc = "waiting" /\ calls[c].ctxDone
    /\ AnswerWith(c, ResultOf(calls[c].response))
    /\ UNCHANGED <<tools, initialized>>

TakeDeadline(c) ==
    /\ calls[c].pc = "waiting" /\ calls[c].ctxDone
    /\ AnswerWith(c, errorToolResult("deadline"))
    /\ UNCHANGED <<tools, initialized>>

TakeDone(c) ==
    /\ calls[c].pc = "waiting" /\ calls[c].done # NoResult
    /\ AnswerWith(c, IF calls[c].done.panic THEN errorToolResult("panic")
                     ELSE ResultOf(calls[c].response))
    /\ UNCHANGED <<tools, initialized>>

Select(c) == TakeDeadline(c) \/ TakeDone(c)

Next ==
    \/ Tool
    \/ \E c \in Calls : \/ Receive(c) \/ HandlerSends(c) \/ HandlerEnds(c) \/ Deliver(c)
                        \/ TimerFires(c) \/ ClientLeaves(c) \/ Select(c)

\* Goroutines and timers run; nothing says that a handler ends.
Spec == /\ Init /\ [][Next]_vars
        /\ \A c \in Calls : /\ WF_vars(Deliver(c)) /\ WF_vars(TimerFires(c))
                            /\ WF_vars(Select(c))

-----------------------------------------------------------------------------
\* What is registered, said, made of it and answered.
Registered == {[t.tool EXCEPT !.schema = normalizeSchema(t.tool.schema)] : t \in ToolChoices}
ASSUME NoResultAssumption ==
    NoResult \notin Registered /\ NoResult \notin [panic: BOOLEAN]
Texts == {"", "ok", "msg", "err", "panic", "deadline", "data", "unencodable", "response"}
Results == [isError: BOOLEAN, text: Texts, data: {"nil", "data", "unencodable", "response"}]
Codes == {"parse error", "invalid request", "invalid params", "method not found"}
Answers ==
    {Unanswered} \cup {Status(code) : code \in {202, 401, 405}}
    \cup {RpcError(id, code) : id \in BOOLEAN, code \in Codes}
    \cup {RpcResult(id, result) : id \in BOOLEAN, result \in Results}

CallStates ==
    [pc: {"idle", "waiting", "answered"}, req: Requests \cup {NoResult},
     tool: Registered \cup {NoResult}, ctxDone: BOOLEAN,
     handler: {"none", "running", "gone"} \cup Ended,
     response: {Silent} \cup Sends, sent: 0..MaxSends,
     done: [panic: BOOLEAN] \cup {NoResult}, answer: Answers]

TypeOK ==
    /\ \A n \in DOMAIN tools : tools[n] \in Registered
    /\ initialized \in BOOLEAN
    /\ calls \in [Calls -> CallStates]
    /\ \A c \in Calls : calls[c].pc = "answered" <=> calls[c].answer # Unanswered

\* A tool's answer that is no error says what the handler had sent when it
\* returned; what a handler sends before it panics, or before it is out of
\* time, is never answered.
AnswerIsTheHandlers ==
    \A c \in Calls :
        calls[c].answer.kind = "result" /\ calls[c].tool # NoResult
        /\ ~calls[c].answer.result.isError =>
            /\ calls[c].handler = "gone" /\ ~calls[c].done.panic
            /\ ~calls[c].response.err /\ calls[c].response.code = 0
            /\ calls[c].answer.result.data
                 = IF calls[c].response.msg # "" THEN "response"
                   ELSE calls[c].response.data

\* A request with an id gets an answer with its id, and one without gets a
\* status and no body.  The exceptions of the code: what does not parse has
\* no id; an invalid request is answered in any case; initialized is never
\* answered; and a result that JSON cannot encode leaves the body empty.
AnsweredByItsId ==
    \A c \in Calls : calls[c].pc = "answered" /\ Served(calls[c].req) =>
        LET answer == calls[c].answer
        IN  IF calls[c].req.id /\ calls[c].req.method # "notifications/initialized"
            THEN \/ answer.kind \in {"result", "error"} /\ answer.id
                 \/ answer.kind = "empty" /\ calls[c].response.data = "unencodable"
            ELSE answer = Status(202)

\* A handler runs with the arguments that its tool requires, each of the type
\* that the schema gives, except that null passes for anything but a number
\* and a string of digits for a number; anything passes for a type that the
\* code does not know, and arguments that the schema does not know pass,
\* additionalProperties or not.
ArgumentsAsDeclared ==
    \A c \in Calls : calls[c].handler # "none" =>
        LET args == calls[c].req.args
            schema == calls[c].tool.schema
        IN  /\ \A i \in DOMAIN schema.required : schema.required[i] \in DOMAIN args
            /\ \A p \in DOMAIN schema.properties \cap DOMAIN args :
                 \/ schema.properties[p] \notin JsonTypes
                 \/ IsOfType(schema.properties[p], args[p])
                 \/ args[p] = "null" /\ schema.properties[p] \notin {"number", "integer"}
                 \/ args[p] = "numeral" /\ schema.properties[p] \in {"number", "integer"}

\* A handler that has ended lets its goroutine end, whether or not anybody
\* waits for it any more: done has room for its outcome.
HandlersLeave ==
    \A c \in Calls : calls[c].handler \in Ended ~> calls[c].handler = "gone"

\* A call with a timeout is answered, although its handler may never end; one
\* without is answered once its handler ends.
TimedCallsAreAnswered ==
    \A c \in Calls : (calls[c].pc = "waiting"
                      /\ (calls[c].tool.timeout \/ calls[c].handler \in Ended))
                     ~> calls[c].pc = "answered"

\* Calls end: the request is answered as far as its tool's timeout promises,
\* and the handler's goroutine goes when the handler does, in either order.
CallsEnd == HandlersLeave /\ TimedCallsAreAnswered
=============================================================================
