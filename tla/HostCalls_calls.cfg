SPECIFICATION Spec
CONSTANTS
    Text <- MCText
    Request <- MCRequest
    Reply <- MCReply
    MaxCalls = 2
INVARIANTS
    TypeOK
    ReplyMatchesCall
    BufferMatchesResult
    HandlerGetsArguments
    ErrorMeansInvalid
    DecodeIsBase64
PROPERTY CallEnds
CHECK_DEADLOCK FALSE
