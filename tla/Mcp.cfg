SPECIFICATION Spec
CONSTANTS
    Calls = {c1}
    Requests <- MCRequests
    ToolChoices <- MCTools
    MaxSends = 3
    NoResult = NoResult
CHECK_DEADLOCK FALSE
INVARIANTS AnswerIsTheHandlers AnsweredByItsId ArgumentsAsDeclared
PROPERTIES CallsEnd
