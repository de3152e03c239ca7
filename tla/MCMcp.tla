------------------------------- MODULE MCMcp -------------------------------
EXTENDS Mcp

Good == [post |-> TRUE, authorized |-> TRUE, parses |-> TRUE, valid |-> TRUE,
         id |-> TRUE, method |-> "ping", name |-> "", args |-> NotObject]
CallOf(name, args) == [Good EXCEPT !.method = "tools/call", !.name = name, !.args = args]
Args(names, value) == [n \in names |-> value]
MCRequests ==
    {[Good EXCEPT !.post = FALSE], [Good EXCEPT !.authorized = FALSE],
     [Good EXCEPT !.parses = FALSE], [Good EXCEPT !.valid = FALSE, !.id = FALSE],
     [Good EXCEPT !.method = "notifications/initialized"], Good,
     [Good EXCEPT !.id = FALSE], [Good EXCEPT !.method = "other"]}
    \cup {CallOf("slow", Args({"n"}, v)) : v \in {"integer", "fraction", "null"}}
    \cup {CallOf("slow", Args({"s"}, "null")), CallOf("slow", NotObject),
          [CallOf("slow", Args({"n", "s", "x"}, "numeral")) EXCEPT !.id = FALSE]}
    \cup {CallOf("open", Args({}, "")), CallOf("open", Args({"x"}, "array"))}

Declares == [type |-> "object", required |-> <<"n">>,
             properties |-> [p \in {"n", "s", "x"} |->
                               CASE p = "n" -> "integer" [] p = "s" -> "string"
                                 [] p = "x" -> ""]]
NoType == [EmptyObjectSchema EXCEPT !.type = ""]
MCTools == {[name |-> "slow", tool |-> [schema |-> Declares, timeout |-> TRUE]],
            [name |-> "open", tool |-> [schema |-> NoType, timeout |-> FALSE]],
            [name |-> "open", tool |-> [schema |-> [NoType EXCEPT !.type = "array"],
                                        timeout |-> TRUE]]}
=============================================================================
