------------------------------ MODULE McpProofs ------------------------------
(***************************************************************************)
(* What the MCP server answers, for all requests, tools and handlers.       *)
(***************************************************************************)
EXTENDS Mcp, TLAPS

-----------------------------------------------------------------------------
(* The invariant, one call at a time.                                       *)

\* The outcome of a handler is there when the handler has left, and an answer
\* made of what the handler has sent needs that outcome.
Outcome(k) ==
    /\ k.done # NoResult => k.handler = "gone"
    /\ k.answer.kind = "empty" => k.handler = "gone" /\ k.response.data = "unencodable"

\* Only the call of a tool waits, and its request was served.
WaitsForATool(k) ==
    k.pc = "waiting" => /\ Served(k.req) /\ k.req.method = "tools/call"
                        /\ k.req \in Requests

\* A call that waits has a handler, and a listed tool.
Occupied(k) == k.pc = "waiting" => k.handler # "none"

\* The properties, of one call.
IsTheHandlers(k) ==
    k.answer.kind = "result" /\ k.tool # NoResult /\ ~k.answer.result.isError =>
        /\ k.handler = "gone" /\ ~k.done.panic
        /\ ~k.response.err /\ k.response.code = 0
        /\ k.answer.result.data = IF k.response.msg # "" THEN "response" ELSE k.response.data
ById(k) ==
    k.pc = "answered" /\ Served(k.req) =>
        IF k.req.id /\ k.req.method # "notifications/initialized"
        THEN \/ k.answer.kind \in {"result", "error"} /\ k.answer.id
             \/ k.answer.kind = "empty" /\ k.response.data = "unencodable"
        ELSE k.answer = Status(202)
Declared(k) ==
    k.handler # "none" =>
        /\ \A i \in DOMAIN k.tool.schema.required :
             k.tool.schema.required[i] \in DOMAIN k.req.args
        /\ \A p \in DOMAIN k.tool.schema.properties \cap DOMAIN k.req.args :
             \/ k.tool.schema.properties[p] \notin JsonTypes
             \/ IsOfType(k.tool.schema.properties[p], k.req.args[p])
             \/ /\ k.req.args[p] = "null"
                /\ k.tool.schema.properties[p] \notin {"number", "integer"}
             \/ /\ k.req.args[p] = "numeral"
                /\ k.tool.schema.properties[p] \in {"number", "integer"}

Good(k) ==
    /\ k \in CallStates /\ (k.pc = "answered" <=> k.answer # Unanswered)
    /\ Outcome(k) /\ WaitsForATool(k) /\ Occupied(k)
    /\ IsTheHandlers(k) /\ ById(k) /\ Declared(k)

Inv ==
    /\ \A n \in DOMAIN tools : tools[n] \in Registered
    /\ initialized \in BOOLEAN
    /\ calls \in [Calls -> CallStates]
    /\ \A c \in Calls : Good(calls[c])

-----------------------------------------------------------------------------
(* Answers and arguments.                                                   *)

\* What Inv says of the calls is about each of them alone.
LEMMA OneCall ==
    ASSUME Inv, NEW c \in Calls, NEW new, Good(new), calls' = [calls EXCEPT ![c] = new],
           UNCHANGED tools, initialized' \in BOOLEAN
    PROVE  Inv'
<1>1. new \in CallStates
  BY DEF Good
<1>2. \A d \in Calls : calls'[d] = IF d = c THEN new ELSE calls[d]
  BY DEF Inv
<1>3. calls' \in [Calls -> CallStates]
  BY <1>1 DEF Inv
<1> QED
  BY <1>2, <1>3 DEF Inv

\* An argument that passes is of its type, but for null and numerals.
LEMMA PassingArgument ==
    ASSUME NEW type, NEW value, validateArgumentType(type, value)
    PROVE  \/ type \notin JsonTypes
           \/ IsOfType(type, value)
           \/ value = "null" /\ type \notin {"number", "integer"}
           \/ value = "numeral" /\ type \in {"number", "integer"}
  BY DEF validateArgumentType, IsOfType, JsonTypes

LEMMA PassingArguments ==
    ASSUME NEW schema, NEW args, validateArguments(schema, args)
    PROVE  /\ \A i \in DOMAIN schema.required : schema.required[i] \in DOMAIN args
           /\ \A p \in DOMAIN schema.properties \cap DOMAIN args :
                \/ schema.properties[p] \notin JsonTypes
                \/ IsOfType(schema.properties[p], args[p])
                \/ args[p] = "null" /\ schema.properties[p] \notin {"number", "integer"}
                \/ args[p] = "numeral" /\ schema.properties[p] \in {"number", "integer"}
<1>1. \A i \in DOMAIN schema.required : schema.required[i] \in ToSet(schema.required)
  BY DEF ToSet
<1>2. /\ ToSet(schema.required) \subseteq DOMAIN args
      /\ \A p \in DOMAIN schema.properties \cap DOMAIN args :
           validateArgumentType(schema.properties[p], args[p])
  BY DEF validateArguments
<1> QED
  BY <1>1, <1>2, PassingArgument

\* An encoded result is a result, or an empty body.
LEMMA EncodedResult ==
    ASSUME NEW id \in BOOLEAN, NEW result \in Results
    PROVE  /\ RpcResult(id, result) \in Answers /\ RpcResult(id, result) # Unanswered
           /\ \/ /\ RpcResult(id, result).kind = "result" /\ RpcResult(id, result).id = id
                 /\ RpcResult(id, result).result = result
              \/ RpcResult(id, result).kind = "empty" /\ result.data = "unencodable"
<1>1. RpcResult(id, result) \in Answers
  BY DEF Answers
<1>2. CASE result.data = "unencodable"
  <2>1. RpcResult(id, result) = [kind |-> "empty"]
    BY <1>2 DEF RpcResult
  <2>2. RpcResult(id, result).kind = "empty"
    BY <2>1
  <2>3. Unanswered.kind = "none"
    BY DEF Unanswered
  <2> QED
    BY <1>1, <1>2, <2>2, <2>3
<1>3. CASE result.data # "unencodable"
  <2>1. RpcResult(id, result) = [kind |-> "result", id |-> id, result |-> result]
    BY <1>3 DEF RpcResult
  <2>2. /\ RpcResult(id, result).kind = "result" /\ RpcResult(id, result).id = id
        /\ RpcResult(id, result).result = result
    BY <2>1
  <2>3. Unanswered.kind = "none"
    BY DEF Unanswered
  <2> QED
    BY <1>1, <2>2, <2>3
<1> QED
  BY <1>2, <1>3

\* The result made of what a handler has sent.
LEMMA HandlersResult ==
    ASSUME NEW r \in {Silent} \cup Sends
    PROVE  /\ ResultOf(r) \in Results
           /\ ResultOf(r).data = "unencodable" => r.data = "unencodable"
           /\ ~ResultOf(r).isError =>
                /\ ~r.err /\ r.code = 0
                /\ ResultOf(r).data = IF r.msg # "" THEN "response" ELSE r.data
<1>1. \/ r.err /\ r.code = 0
      \/ ~r.err /\ r.code = 1 /\ r.msg = "msg"
      \/ ~r.err /\ r.code = 0 /\ r.msg = "msg" /\ r.data = "nil"
      \/ ~r.err /\ r.code = 0 /\ r.msg = "" /\ r.data \in {"nil", "data", "unencodable"}
  <2>1. CASE r \in {Silent, Said}
    <3>1. /\ ~Silent.err /\ Silent.code = 0 /\ Silent.msg = "" /\ Silent.data = "nil"
          /\ ~Said.err /\ Said.code = 0 /\ Said.msg = "" /\ Said.data = "nil"
      BY DEF Said, Silent
    <3> QED
      BY <2>1, <3>1
  <2>2. CASE r = [Said EXCEPT !.data = "data"]
    BY <2>2 DEF Said, Silent
  <2>3. CASE r = [Said EXCEPT !.data = "unencodable"]
    BY <2>3 DEF Said, Silent
  <2>4. CASE r = [Said EXCEPT !.msg = "msg"]
    BY <2>4 DEF Said, Silent
  <2>5. CASE r = [Said EXCEPT !.code = 1, !.msg = "msg"]
    BY <2>5 DEF Said, Silent
  <2>6. CASE r = [Said EXCEPT !.err = TRUE]
    BY <2>6 DEF Said, Silent
  <2> QED
    BY <2>1, <2>2, <2>3, <2>4, <2>5, <2>6 DEF Sends
<1>2. CASE r.err
  BY <1>1, <1>2 DEF ResultOf, Result, Results, Texts
<1>3. CASE ~r.err /\ r.code = 1 /\ r.msg = "msg"
  BY <1>3 DEF ResultOf, Result, Results, Texts, textSummary
<1>4. CASE ~r.err /\ r.code = 0 /\ r.msg = "msg" /\ r.data = "nil"
  BY <1>4 DEF ResultOf, Result, Results, Texts, textSummary
<1>5. CASE ~r.err /\ r.code = 0 /\ r.msg = "" /\ r.data \in {"nil", "data", "unencodable"}
  BY <1>5 DEF ResultOf, Result, Results, Texts, textSummary
<1> QED
  BY <1>1, <1>2, <1>3, <1>4, <1>5

LEMMA Kinds ==
    /\ CallTool.kind = "call" /\ Unanswered.kind = "none"
    /\ \A code : Status(code).kind = "status"
    /\ \A id, code : RpcError(id, code).kind = "error"
    /\ Plain \in Results /\ Plain.data # "unencodable"
  BY DEF CallTool, Unanswered, Status, RpcError, Plain, Result, Results, Texts

LEMMA StatusAnswer == {Status(202), Status(401), Status(405)} \subseteq Answers
  BY DEF Answers

LEMMA ErrorAnswer ==
    ASSUME NEW id \in BOOLEAN, NEW code \in Codes
    PROVE  /\ RpcError(id, code) \in Answers
           /\ RpcError(id, code).kind = "error" /\ RpcError(id, code).id = id
<1>1. RpcError(id, code) \in Answers
  BY DEF Answers
<1>2. RpcError(id, code).kind = "error" /\ RpcError(id, code).id = id
  BY DEF RpcError
<1> QED
  BY <1>1, <1>2

LEMMA PlainResult ==
    ASSUME NEW id \in BOOLEAN
    PROVE  /\ RpcResult(id, Plain) \in Answers
           /\ RpcResult(id, Plain).kind = "result" /\ RpcResult(id, Plain).id = id
  BY Kinds, EncodedResult

\* What dispatch answers to a request that calls no tool.
LEMMA DispatchAnswers ==
    ASSUME NEW req \in Requests, dispatch(req) # CallTool
    PROVE  /\ dispatch(req) \in Answers
           /\ req.method = "notifications/initialized" => dispatch(req) = Status(202)
           /\ req.method # "notifications/initialized" =>
                dispatch(req).kind \in {"result", "error"} /\ dispatch(req).id = req.id
<1>0. req.id \in BOOLEAN
  BY RequestsAssumption
<1>1. CASE req.method = "notifications/initialized"
  <2>1. dispatch(req) = Status(202)
    BY <1>1 DEF dispatch
  <2> QED
    BY <1>1, <2>1 DEF Answers
<1>2. CASE req.method \in {"initialize", "ping", "tools/list"}
  <2>1. dispatch(req) = RpcResult(req.id, Plain)
    BY <1>2 DEF dispatch
  <2> QED
    BY <1>0, <1>2, <2>1, PlainResult
<1>3. CASE req.method = "tools/call"
  <2>1. dispatch(req) = RpcError(req.id, "invalid params")
    BY <1>3 DEF dispatch
  <2>2. "invalid params" \in Codes
    BY DEF Codes
  <2> QED
    BY <1>0, <1>3, <2>1, <2>2, ErrorAnswer
<1>4. CASE req.method \notin {"notifications/initialized", "initialize", "ping", "tools/list",
                              "tools/call"}
  <2>1. dispatch(req) = RpcError(req.id, "method not found")
    BY <1>4 DEF dispatch
  <2>2. "method not found" \in Codes
    BY DEF Codes
  <2> QED
    BY <1>0, <1>4, <2>1, <2>2, ErrorAnswer
<1> QED
  BY <1>1, <1>2, <1>3, <1>4

\* When it calls one.
LEMMA DispatchCalls ==
    ASSUME NEW req \in Requests, dispatch(req) = CallTool
    PROVE  /\ req.method = "tools/call" /\ req.name \in DOMAIN tools
           /\ validateArguments(tools[req.name].schema, req.args)
<1>0. req.id \in BOOLEAN
  BY RequestsAssumption
<1>1. req.method # "notifications/initialized"
  <2> SUFFICES ASSUME req.method = "notifications/initialized" PROVE FALSE
    OBVIOUS
  <2>1. dispatch(req) = Status(202)
    BY DEF dispatch
  <2> QED
    BY <2>1, Kinds
<1>2. req.method \notin {"initialize", "ping", "tools/list"}
  <2> SUFFICES ASSUME req.method \in {"initialize", "ping", "tools/list"} PROVE FALSE
    OBVIOUS
  <2>1. dispatch(req) = RpcResult(req.id, Plain)
    BY DEF dispatch
  <2> QED
    BY <1>0, <2>1, Kinds, PlainResult
<1>3. req.method = "tools/call"
  <2> SUFFICES ASSUME req.method # "tools/call" PROVE FALSE
    OBVIOUS
  <2>1. dispatch(req) = RpcError(req.id, "method not found")
    BY <1>1, <1>2 DEF dispatch
  <2> QED
    BY <2>1, Kinds
<1>4. dispatch(req) # RpcError(req.id, "invalid params")
  BY Kinds
<1> QED
  BY <1>3, <1>4 DEF dispatch

LEMMA UnservedAnswers ==
    ASSUME NEW req \in Requests, ~Served(req)
    PROVE  \/ serveHTTP(req) \in {Status(405), Status(401)}
           \/ serveHTTP(req) \in {RpcError(FALSE, "parse error"), RpcError(req.id, "invalid request")}
<1>0. /\ req.post \in BOOLEAN /\ req.authorized \in BOOLEAN /\ req.parses \in BOOLEAN
      /\ req.valid \in BOOLEAN
  BY RequestsAssumption
<1>1. CASE ~req.post
  BY <1>0, <1>1 DEF serveHTTP
<1>2. CASE req.post /\ ~req.authorized
  <2>1. serveHTTP(req) = Status(401)
    BY <1>0, <1>2 DEF serveHTTP
  <2> QED
    BY <2>1
<1>3. CASE req.post /\ req.authorized /\ ~req.parses
  BY <1>0, <1>3 DEF serveHTTP
<1>4. CASE req.post /\ req.authorized /\ req.parses /\ ~req.valid
  BY <1>0, <1>4 DEF serveHTTP
<1> QED
  BY <1>1, <1>2, <1>3, <1>4 DEF Served

LEMMA ServeAnswers ==
    ASSUME NEW req \in Requests, serveHTTP(req) # CallTool
    PROVE  /\ serveHTTP(req) \in Answers /\ serveHTTP(req) # Unanswered
           /\ serveHTTP(req).kind # "empty"
           /\ Served(req) =>
                IF req.id /\ req.method # "notifications/initialized"
                THEN serveHTTP(req).kind \in {"result", "error"} /\ serveHTTP(req).id
                ELSE serveHTTP(req) = Status(202)
<1>0. /\ req.post \in BOOLEAN /\ req.authorized \in BOOLEAN /\ req.parses \in BOOLEAN
      /\ req.valid \in BOOLEAN /\ req.id \in BOOLEAN
  BY RequestsAssumption
<1>1. CASE ~Served(req)
  <2>1. \/ serveHTTP(req) \in {Status(405), Status(401)}
        \/ serveHTTP(req) \in {RpcError(FALSE, "parse error"), RpcError(req.id, "invalid request")}
    BY <1>1, UnservedAnswers
  <2>2. {Status(405), Status(401)} \subseteq Answers
    BY DEF Answers
  <2>3. {"parse error", "invalid request"} \subseteq Codes
    BY DEF Codes
  <2>4. serveHTTP(req) \in Answers
    BY <1>0, <2>1, <2>2, <2>3, ErrorAnswer, ZenonT(40)
  <2> QED
    BY <1>1, <2>1, <2>4, Kinds, ZenonT(40)
<1>2. CASE Served(req)
  <2>1. serveHTTP(req) = IF req.id \/ dispatch(req) = CallTool THEN dispatch(req)
                         ELSE Status(202)
    BY <1>0, <1>2 DEF serveHTTP, Served
  <2>2. dispatch(req) # CallTool
    BY <2>1
  <2>3. CASE req.id
    <3>1. serveHTTP(req) = dispatch(req) /\ req.id = TRUE
      BY <1>0, <2>1, <2>3
    <3> QED
      BY <1>2, <2>2, <2>3, <3>1, DispatchAnswers, Kinds
  <2>4. CASE ~req.id
    <3>1. serveHTTP(req) = Status(202)
      BY <2>1, <2>2, <2>4
    <3>2. Status(202) \in Answers
      BY DEF Answers
    <3> QED
      BY <2>4, <3>1, <3>2, Kinds
  <2> QED
    BY <2>3, <2>4
<1> QED
  BY <1>1, <1>2

LEMMA ServeCalls ==
    ASSUME NEW req \in Requests, serveHTTP(req) = CallTool
    PROVE  /\ Served(req) /\ req.method = "tools/call" /\ req.name \in DOMAIN tools
           /\ validateArguments(tools[req.name].schema, req.args)
<1>0. /\ req.post \in BOOLEAN /\ req.authorized \in BOOLEAN /\ req.parses \in BOOLEAN
      /\ req.valid \in BOOLEAN /\ req.id \in BOOLEAN
  BY RequestsAssumption
<1>1. Served(req)
  <2> SUFFICES ASSUME ~Served(req) PROVE FALSE
    OBVIOUS
  <2>1. \/ serveHTTP(req) \in {Status(405), Status(401)}
        \/ serveHTTP(req) \in {RpcError(FALSE, "parse error"), RpcError(req.id, "invalid request")}
    BY UnservedAnswers
  <2> QED
    BY <2>1, Kinds, ZenonT(40)
<1>2. serveHTTP(req) = IF req.id \/ dispatch(req) = CallTool THEN dispatch(req)
                       ELSE Status(202)
  BY <1>0, <1>1 DEF serveHTTP, Served
<1>3. dispatch(req) = CallTool
  BY <1>2, Kinds
<1> QED
  BY <1>1, <1>3, DispatchCalls

-----------------------------------------------------------------------------
(* The steps of one call.                                                   *)

\* A call that goes on keeps what it has been asked and answered, and so what
\* is said of its answer as long as its handler is at work.
LEMMA GoesOn ==
    ASSUME NEW k, Good(k), NEW new \in CallStates,
           new.pc = k.pc, new.req = k.req, new.tool = k.tool, new.answer = k.answer,
           k.handler # "none", new.handler # "none",
           \/ new.handler = k.handler /\ new.response = k.response /\ new.done = k.done
           \/ k.handler # "gone" /\ (new.done # NoResult => new.handler = "gone")
    PROVE  Good(new)
<1>1. Outcome(new)
  BY DEF Good, Outcome
<1>5. Occupied(new)
  BY DEF Occupied
<1>2. WaitsForATool(new) /\ Declared(new)
  BY DEF Good, WaitsForATool, Declared
<1>3. IsTheHandlers(new)
  BY DEF Good, IsTheHandlers
<1>4. ById(new)
  BY DEF Good, ById, Outcome
<1> QED
  BY <1>1, <1>2, <1>3, <1>4, <1>5 DEF Good

\* An answer with a result: of the outcome of the handler, or an error.
LEMMA AnswersGood ==
    ASSUME NEW k, Good(k), k.pc = "waiting", k.handler # "none", NEW result \in Results,
           result.data = "unencodable" => k.handler = "gone" /\ k.response.data = "unencodable",
           ~result.isError =>
             /\ k.handler = "gone" /\ ~k.done.panic /\ ~k.response.err /\ k.response.code = 0
             /\ result.data = IF k.response.msg # "" THEN "response" ELSE k.response.data,
           NEW answer, answer = IF k.req.id THEN RpcResult(TRUE, result) ELSE Status(202)
    PROVE  Good([k EXCEPT !.pc = "answered", !.answer = answer])
<1> DEFINE new == [k EXCEPT !.pc = "answered", !.answer = answer]
<1>0. /\ Served(k.req) /\ k.req.method = "tools/call" /\ k.req.id \in BOOLEAN
      /\ k \in CallStates
  BY RequestsAssumption DEF Good, WaitsForATool
<1>1. /\ answer \in Answers /\ answer # Unanswered
      /\ answer.kind = "empty" => result.data = "unencodable"
      /\ answer.kind = "result" => answer.result = result
      /\ IF k.req.id
         THEN \/ answer.kind \in {"result", "error"} /\ answer.id
              \/ answer.kind = "empty" /\ result.data = "unencodable"
         ELSE answer = Status(202)
  <2>1. CASE k.req.id
    <3>1. answer = RpcResult(TRUE, result)
      BY <2>1
    <3> QED
      BY <2>1, <3>1, EncodedResult
  <2>2. CASE ~k.req.id
    <3>1. answer = Status(202)
      BY <2>2
    <3> QED
      BY <2>2, <3>1, StatusAnswer, Kinds, ZenonT(40)
  <2> QED
    BY <2>1, <2>2
<1>2. /\ new \in CallStates /\ new.pc = "answered" /\ new.answer = answer
      /\ new.req = k.req /\ new.tool = k.tool /\ new.handler = k.handler
      /\ new.response = k.response /\ new.done = k.done
  <2>1. k \in CallStates /\ answer \in Answers
    BY <1>0, <1>1
  <2> QED
    BY ONLY <2>1 DEF CallStates, new
<1> HIDE DEF new
<1>3. Outcome(new) /\ WaitsForATool(new) /\ Occupied(new) /\ Declared(new)
  BY <1>1, <1>2 DEF Good, Outcome, WaitsForATool, Occupied, Declared
<1>4. IsTheHandlers(new)
  BY <1>1, <1>2 DEF IsTheHandlers
<1>5. ById(new)
  BY <1>0, <1>1, <1>2 DEF ById
<1>6. Good(new)
  BY <1>1, <1>2, <1>3, <1>4, <1>5 DEF Good
<1> QED
  BY <1>6 DEF new

LEMMA IdleTyped == Idle \in CallStates
<1>1. Unanswered \in Answers
  BY DEF Answers
<1>2. 0 \in 0..MaxSends
  BY SendsAssumption
<1> QED
  BY <1>1, <1>2 DEF Idle, CallStates

LEMMA ReceiveStep == ASSUME Inv, NEW c \in Calls, Receive(c) PROVE Inv'
<1>1. PICK req \in Requests :
        /\ calls' = [calls EXCEPT ![c] =
             IF serveHTTP(req) = CallTool
             THEN [Idle EXCEPT !.pc = "waiting", !.req = req, !.handler = "running",
                               !.tool = tools[req.name]]
             ELSE [Idle EXCEPT !.pc = "answered", !.req = req, !.answer = serveHTTP(req)]]
        /\ initialized' = (initialized \/ (Served(req)
                             /\ req.method = "notifications/initialized"))
  BY DEF Receive
<1>2. UNCHANGED tools /\ initialized' \in BOOLEAN
  BY <1>1 DEF Receive
<1>3. CASE serveHTTP(req) = CallTool
  <2> DEFINE new == [Idle EXCEPT !.pc = "waiting", !.req = req, !.handler = "running",
                                 !.tool = tools[req.name]]
  <2>1. tools[req.name] \in Registered
    BY <1>3, ServeCalls DEF Inv
  <2>2. /\ new.pc = "waiting" /\ new.req = req /\ new.handler = "running"
        /\ new.tool = tools[req.name] /\ new.done = NoResult /\ new.answer = Unanswered
    BY DEF Idle
  <2>3. new \in CallStates
    BY <2>1, IdleTyped DEF CallStates
  <2>4. calls' = [calls EXCEPT ![c] = new]
    BY <1>1, <1>3
  <2> HIDE DEF new
  <2>5. Outcome(new) /\ IsTheHandlers(new) /\ ById(new)
    BY <2>2, Kinds DEF Outcome, IsTheHandlers, ById
  <2>6. WaitsForATool(new) /\ Occupied(new) /\ Declared(new)
    BY <1>3, <2>2, ServeCalls, PassingArguments DEF WaitsForATool, Occupied, Declared
  <2>7. Good(new)
    BY <2>2, <2>3, <2>5, <2>6 DEF Good
  <2> QED
    BY <1>2, <2>4, <2>7, OneCall
<1>4. CASE serveHTTP(req) # CallTool
  <2> DEFINE new == [Idle EXCEPT !.pc = "answered", !.req = req, !.answer = serveHTTP(req)]
  <2>1. /\ new.pc = "answered" /\ new.req = req /\ new.handler = "none"
        /\ new.tool = NoResult /\ new.done = NoResult /\ new.answer = serveHTTP(req)
    BY DEF Idle
  <2>2. new \in CallStates
    <3>1. serveHTTP(req) \in Answers
      BY <1>4, ServeAnswers
    <3> QED
      BY <3>1, IdleTyped DEF CallStates
  <2>3. calls' = [calls EXCEPT ![c] = new]
    BY <1>1, <1>4
  <2> HIDE DEF new
  <2>4. /\ Outcome(new) /\ IsTheHandlers(new) /\ WaitsForATool(new)
        /\ Occupied(new) /\ Declared(new)
    BY <1>4, <2>1, ServeAnswers DEF Outcome, IsTheHandlers, WaitsForATool, Occupied, Declared
  <2>5. ById(new)
    BY <1>4, <2>1, ServeAnswers DEF ById
  <2>6. Good(new)
    BY <1>4, <2>1, <2>2, <2>4, <2>5, ServeAnswers DEF Good
  <2> QED
    BY <1>2, <2>3, <2>6, OneCall
<1> QED
  BY <1>3, <1>4

\* The goroutine of the handler, and the context.
LEMMA HandlerStep ==
    ASSUME Inv, NEW c \in Calls,
           \/ HandlerSends(c) \/ HandlerEnds(c) \/ Deliver(c) \/ TimerFires(c) \/ ClientLeaves(c)
    PROVE  Inv'
<1>0. /\ calls[c] \in CallStates /\ Good(calls[c]) /\ initialized \in BOOLEAN
      /\ calls[c].done # NoResult => calls[c].handler = "gone"
  BY DEF Inv, Good, Outcome
<1>1. ASSUME HandlerSends(c) PROVE Inv'
  <2>1. PICK s \in Sends : calls' = [calls EXCEPT ![c].response = s, ![c].sent = @ + 1]
    BY <1>1 DEF HandlerSends
  <2> DEFINE new == [calls[c] EXCEPT !.response = s, !.sent = @ + 1]
  <2>2. calls[c].handler = "running" /\ calls[c].sent + 1 \in 0..MaxSends
    BY <1>0, <1>1, SendsAssumption DEF HandlerSends, CallStates
  <2>3. /\ new \in CallStates /\ new.pc = calls[c].pc /\ new.req = calls[c].req
        /\ new.tool = calls[c].tool /\ new.answer = calls[c].answer
        /\ new.done = calls[c].done /\ new.handler = "running"
    BY <1>0, <2>2 DEF CallStates
  <2>4. calls' = [calls EXCEPT ![c] = new]
    BY <2>1 DEF Inv
  <2> HIDE DEF new
  <2>5. Good(new)
    BY <1>0, <2>2, <2>3, GoesOn
  <2> QED
    BY <1>0, <1>1, <2>4, <2>5, OneCall DEF HandlerSends
<1>2. ASSUME HandlerEnds(c) PROVE Inv'
  <2>1. PICK how \in Ended : calls' = [calls EXCEPT ![c].handler = how]
    BY <1>2 DEF HandlerEnds, Ended
  <2> DEFINE new == [calls[c] EXCEPT !.handler = how]
  <2>2. calls[c].handler = "running"
    BY <1>2 DEF HandlerEnds
  <2>3. /\ new \in CallStates /\ new.pc = calls[c].pc /\ new.req = calls[c].req
        /\ new.tool = calls[c].tool /\ new.answer = calls[c].answer
        /\ new.done = calls[c].done /\ new.handler = how /\ how # "none"
    BY <1>0 DEF CallStates, Ended
  <2>4. calls' = [calls EXCEPT ![c] = new]
    BY <2>1 DEF Inv
  <2> HIDE DEF new
  <2>5. Good(new)
    BY <1>0, <2>2, <2>3, GoesOn
  <2> QED
    BY <1>0, <1>2, <2>4, <2>5, OneCall DEF HandlerEnds
<1>3. ASSUME Deliver(c) PROVE Inv'
  <2> DEFINE outcome == [panic |-> calls[c].handler = "panicked"]
             new == [calls[c] EXCEPT !.handler = "gone", !.done = outcome]
  <2>1. calls' = [calls EXCEPT ![c].handler = "gone", ![c].done = outcome]
        /\ calls[c].handler \in Ended
    BY <1>3 DEF Deliver
  <2>2. calls[c].handler # "gone" /\ calls[c].handler # "none" /\ outcome \in [panic: BOOLEAN]
    BY <2>1 DEF Ended
  <2>3. /\ new \in CallStates /\ new.pc = calls[c].pc /\ new.req = calls[c].req
        /\ new.tool = calls[c].tool /\ new.answer = calls[c].answer
        /\ new.handler = "gone"
    BY <1>0, <2>2 DEF CallStates
  <2>4. calls' = [calls EXCEPT ![c] = new]
    BY <2>1 DEF Inv
  <2> HIDE DEF new
  <2>5. Good(new)
    BY <1>0, <2>2, <2>3, GoesOn
  <2> QED
    BY <1>0, <1>3, <2>4, <2>5, OneCall DEF Deliver
<1>4. ASSUME TimerFires(c) \/ ClientLeaves(c) PROVE Inv'
  <2> DEFINE new == [calls[c] EXCEPT !.ctxDone = TRUE]
  <2>1. calls' = [calls EXCEPT ![c].ctxDone = TRUE] /\ UNCHANGED <<tools, initialized>>
    BY <1>4 DEF TimerFires, ClientLeaves
  <2>2. /\ new \in CallStates /\ new.pc = calls[c].pc /\ new.req = calls[c].req
        /\ new.tool = calls[c].tool /\ new.answer = calls[c].answer
        /\ new.handler = calls[c].handler /\ new.response = calls[c].response
        /\ new.done = calls[c].done
    BY <1>0 DEF CallStates
  <2>3. calls' = [calls EXCEPT ![c] = new]
    BY <2>1 DEF Inv
  <2> HIDE DEF new
  <2>4. Good(new)
    BY <1>0, <2>2, ZenonT(40) DEF Good, Outcome, WaitsForATool, Occupied, IsTheHandlers, ById, Declared
  <2> QED
    BY <1>0, <2>1, <2>3, <2>4, OneCall
<1> QED
  BY <1>1, <1>2, <1>3, <1>4

\* The select of the waiting request.
LEMMA SelectStep == ASSUME Inv, NEW c \in Calls, Select(c) PROVE Inv'
<1> DEFINE k == calls[c]
           result == IF TakeDeadline(c) THEN errorToolResult("deadline")
                     ELSE IF k.done.panic THEN errorToolResult("panic")
                     ELSE ResultOf(k.response)
           answer == IF k.req.id THEN RpcResult(TRUE, result) ELSE Status(202)
<1>0. k \in CallStates /\ Good(k) /\ initialized \in BOOLEAN
  BY DEF Inv, Good
<1>1. /\ k.pc = "waiting" /\ UNCHANGED <<tools, initialized>>
      /\ calls' = [calls EXCEPT ![c].pc = "answered", ![c].answer = answer]
      /\ ~TakeDeadline(c) => k.done # NoResult
  <2>1. CASE TakeDeadline(c)
    BY <2>1 DEF TakeDeadline, AnswerWith
  <2>2. CASE ~TakeDeadline(c)
    BY <2>2 DEF Select, TakeDone, AnswerWith
  <2> QED
    BY <2>1, <2>2
<1>2. /\ k.handler # "none"
      /\ k.done # NoResult => k.handler = "gone"
  BY <1>0, <1>1 DEF Good, Outcome, Occupied
<1>3. /\ errorToolResult("deadline") \in Results /\ errorToolResult("deadline").isError
      /\ errorToolResult("deadline").data = "nil"
      /\ errorToolResult("panic") \in Results /\ errorToolResult("panic").isError
      /\ errorToolResult("panic").data = "nil"
  BY DEF errorToolResult, Result, Results, Texts
<1>4. k.response \in {Silent} \cup Sends
  BY <1>0 DEF CallStates
<1>5. /\ result \in Results
      /\ result.data = "unencodable" => k.handler = "gone" /\ k.response.data = "unencodable"
      /\ ~result.isError =>
           /\ k.handler = "gone" /\ ~k.done.panic /\ ~k.response.err /\ k.response.code = 0
           /\ result.data = IF k.response.msg # "" THEN "response" ELSE k.response.data
  <2>1. CASE TakeDeadline(c)
    BY <1>3, <2>1
  <2>2. CASE ~TakeDeadline(c) /\ k.done.panic
    BY <1>3, <2>2
  <2>3. CASE ~TakeDeadline(c) /\ ~k.done.panic
    <3>1. result = ResultOf(k.response) /\ k.handler = "gone"
      BY <1>1, <1>2, <2>3
    <3> QED
      BY <1>4, <2>3, <3>1, HandlersResult
  <2> QED
    BY <2>1, <2>2, <2>3
<1>6. calls' = [calls EXCEPT ![c] = [k EXCEPT !.pc = "answered", !.answer = answer]]
  BY <1>1 DEF Inv
<1> HIDE DEF result
<1>7. Good([k EXCEPT !.pc = "answered", !.answer = answer])
  BY <1>0, <1>1, <1>2, <1>5, AnswersGood
<1> QED
  BY <1>0, <1>1, <1>6, <1>7, OneCall

LEMMA ToolStep == ASSUME Inv, Tool PROVE Inv'
<1>1. PICK t \in ToolChoices :
        tools' = [n \in DOMAIN tools \cup {t.name} |->
                    IF n = t.name THEN [t.tool EXCEPT !.schema = normalizeSchema(t.tool.schema)]
                    ELSE tools[n]]
  BY DEF Tool
<1>2. [t.tool EXCEPT !.schema = normalizeSchema(t.tool.schema)] \in Registered
  BY DEF Registered
<1>3. \A n \in DOMAIN tools' : tools'[n] \in Registered
  BY <1>1, <1>2 DEF Inv
<1> QED
  BY <1>3 DEF Tool, Inv

LEMMA InitInv == Init => Inv
<1> SUFFICES ASSUME Init PROVE Inv
  OBVIOUS
<1>1. Good(Idle)
  <2>1. /\ Idle.pc = "idle" /\ Idle.handler = "none" /\ Idle.done = NoResult
        /\ Idle.answer = Unanswered
    BY DEF Idle
  <2> QED
    BY <2>1, IdleTyped, Kinds
    DEF Good, Outcome, WaitsForATool, IsTheHandlers, ById, Declared, Occupied
<1> QED
  BY <1>1, IdleTyped DEF Init, Inv

LEMMA Step == Inv /\ [Next]_vars => Inv'
<1> SUFFICES ASSUME Inv, [Next]_vars PROVE Inv'
  OBVIOUS
<1>1. CASE UNCHANGED vars
  BY <1>1 DEF vars, Inv
<1> QED
  BY <1>1, ToolStep, ReceiveStep, HandlerStep, SelectStep DEF Next

\* Inv holds in every behaviour.
THEOREM TypeCorrect == Spec => []TypeOK
<1>1. Inv => TypeOK
  BY DEF Inv, Good, TypeOK
<1> QED
  BY <1>1, InitInv, Step, PTL DEF Spec

\* For all requests, tools and handlers: a tool's answer that is no error is
\* made of what the handler had sent when it returned.
THEOREM HandlersCorrect == Spec => []AnswerIsTheHandlers
<1>1. Inv => AnswerIsTheHandlers
  BY DEF Inv, Good, IsTheHandlers, AnswerIsTheHandlers
<1> QED
  BY <1>1, InitInv, Step, PTL DEF Spec

\* For all requests, tools and handlers: a request with an id is answered by
\* that id, and one without by a status alone.
THEOREM IdsCorrect == Spec => []AnsweredByItsId
<1>1. Inv => AnsweredByItsId
  BY DEF Inv, Good, ById, AnsweredByItsId
<1> QED
  BY <1>1, InitInv, Step, PTL DEF Spec

\* For all schemas and arguments: no handler runs without an argument that its
\* tool requires, or with one of another type, but for null and numerals.
THEOREM ArgumentsCorrect == Spec => []ArgumentsAsDeclared
<1>1. Inv => ArgumentsAsDeclared
  BY DEF Inv, Good, Declared, ArgumentsAsDeclared
<1> QED
  BY <1>1, InitInv, Step, PTL DEF Spec
=============================================================================
