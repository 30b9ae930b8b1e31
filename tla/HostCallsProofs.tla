--------------------------- MODULE HostCallsProofs ---------------------------
(***************************************************************************)
(* Proofs about HostCalls, for every number of calls and every set of      *)
(* requests, replies and texts.                                            *)
(***************************************************************************)
EXTENDS HostCalls, Base64Proofs

Responses == Reply \cup {NoReply}

\* The pipe from the host holds nothing, the one answer to this call, or the two
\* halves of a line that is too long, none of which readjson can use.
OneAnswer ==
    \/ down = <<>>
    \/ \E r \in Responses, e \in BOOLEAN : down = <<Piece(serial, r, e)>>
    \/ down = <<Piece(serial, NoReply, TRUE), Piece(serial, NoReply, TRUE)>>

\* There is something in the pipes only while trampoline waits for the answer,
\* and in one of them at a time.
Pipes ==
    /\ pc # "exited" =>
         /\ OneAnswer
         /\ pc # "wait" => down = <<>>
         /\ pc \notin {"rest", "wait"} => up = "none"
         /\ pc = "rest" => up # "line"
         /\ down # <<>> => up = "none"
    /\ host = "closed" => up = "none"

\* From the answer on, ret and errno are what it says.
Taken ==
    /\ reply.id = serial
    /\ IF reply.kind = "error" THEN ret = -1 /\ errno = reply.code
       ELSE ret = reply.code /\ errno = 0

Matched ==
    /\ pc \in {"decode", "stub"} => Taken
    /\ pc = "idle" => reply.id = serial /\ (serial > 0 => Taken)

\* The numbers that the stubs compare.
Numbers == call \in Request /\ call.room \in Nat /\ ret \in Int /\ serial \in Nat

\* The inductive invariant.
IInv == DecodeInv /\ Pipes /\ Matched /\ Numbers /\ BufferMatchesResult

-----------------------------------------------------------------------------

\* Writing to an empty pipe.
LEMMA WriteFirst ==
    ASSUME NEW p, NEW q
    PROVE  Append(<<>>, p) = <<p>> /\ <<>> \o <<p, q>> = <<p, q>>
OBVIOUS

\* Nothing was called yet.
LEMMA InitInv == Init => IInv
<1> SUFFICES ASSUME Init PROVE IInv
  OBVIOUS
<1>1. DecodeInv
  BY DEF Init, DecodeInit, DecodeInv, RoomInv, DecodeTypeOK, Paid, ErrorWasRead,
         Collected, DecodeIsBase64
<1>2. Pipes /\ Matched
  BY DEF Init, Pipes, OneAnswer, Matched
<1>3. Numbers /\ BufferMatchesResult
  BY CallsAssumption DEF Init, Numbers, BufferMatchesResult
<1> QED BY <1>1, <1>2, <1>3 DEF IInv

LEMMA IssueKeepsInv ==
    ASSUME IInv, NEW r \in Request, Issue(r)
    PROVE  IInv'
<1>1. DecodeInv'
  BY StutterKeepsInv DEF Issue, IInv
<1>2. Pipes' /\ Matched' /\ BufferMatchesResult'
  BY DEF Issue, IInv, Pipes, OneAnswer, Matched, BufferMatchesResult
<1>3. Numbers'
  BY CallsAssumption DEF Issue, IInv, Numbers
<1> QED BY <1>1, <1>2, <1>3 DEF IInv

LEMMA WriteKeepsInv ==
    ASSUME IInv, WriteJson
    PROVE  IInv'
<1>1. DecodeInv'
  BY StutterKeepsInv DEF WriteJson, IInv
<1>2. Pipes'
  BY DEF WriteJson, IInv, Pipes, OneAnswer
<1>3. Matched' /\ BufferMatchesResult' /\ Numbers'
  BY DEF WriteJson, IInv, Matched, BufferMatchesResult, Numbers
<1> QED BY <1>1, <1>2, <1>3 DEF IInv

\* A line that trampoline can use is the only piece in the pipe.
LEMMA UsableIsLast ==
    ASSUME IInv, pc = "wait", down # <<>>, Head(down).response.kind # "none"
    PROVE  /\ Head(down).id = serial /\ Head(down).response \in Reply
           /\ Tail(down) = <<>> /\ up = "none"
<1>1. OneAnswer /\ up = "none"
  BY DEF IInv, Pipes
<1>2. ASSUME NEW r \in Responses, NEW e \in BOOLEAN, down = <<Piece(serial, r, e)>>
      PROVE  Head(down).id = serial /\ Head(down).response \in Reply /\ Tail(down) = <<>>
  <2>1. Head(down) = Piece(serial, r, e) /\ Tail(down) = <<>>
    BY <1>2
  <2>2. r.kind # "none"
    BY <2>1 DEF Piece
  <2>3. r \in Reply
    BY <2>2 DEF Responses, NoReply
  <2> QED BY <2>1, <2>3 DEF Piece
<1>3. ~(down = <<Piece(serial, NoReply, TRUE), Piece(serial, NoReply, TRUE)>>)
  BY DEF Piece, NoReply
<1> QED BY <1>1, <1>2, <1>3 DEF OneAnswer

LEMMA ReadKeepsInv ==
    ASSUME IInv, ReadJson
    PROVE  IInv'
<1> DEFINE r == Head(down).response
<1>1. /\ pc = "wait" /\ down # <<>> /\ down' = Tail(down)
      /\ reply' = [id |-> Head(down).id, kind |-> r.kind, code |-> r.code]
      /\ UNCHANGED <<call, serial, up, host, wrote>>
  BY DEF ReadJson
<1>2. Numbers /\ Pipes /\ DecodeInv
  BY DEF IInv
<1>3. CASE r.kind = "error" /\ TakeError(r)
  <2>1. Head(down).id = serial /\ r \in Reply /\ Tail(down) = <<>> /\ up = "none"
    BY <1>1, <1>3, UsableIsLast
  <2>2. /\ UNCHANGED decodeVars /\ errno' = r.code /\ ret' = -1 /\ pc' \in {"exited", "stub"}
    BY <1>3 DEF TakeError, Exit
  <2>3. DecodeInv'
    BY <1>2, <2>2, StutterKeepsInv
  <2>4. Pipes'
    BY <1>1, <1>2, <2>1, <2>2 DEF Pipes, OneAnswer
  <2>5. Matched'
    BY <1>1, <1>3, <2>1, <2>2 DEF Matched, Taken
  <2>6. Numbers' /\ BufferMatchesResult'
    BY <1>1, <1>2, <2>2 DEF Numbers, BufferMatchesResult
  <2> QED BY <2>3, <2>4, <2>5, <2>6 DEF IInv
<1>4. CASE r.kind = "result" /\ TakeResult(r)
  <2>1. Head(down).id = serial /\ r \in Reply /\ Tail(down) = <<>> /\ up = "none"
    BY <1>1, <1>4, UsableIsLast
  <2>2. errno' = 0 /\ ret' = r.code /\ pc' \in {"decode", "stub"} /\ r.code \in Int
    BY <1>4, <2>1, CallsAssumption DEF TakeResult
  <2>3. DecodeInv'
    <3>1. CASE UNCHANGED decodeVars
      BY <1>2, <3>1, StutterKeepsInv
    <3>2. CASE r.base64 /\ StartDecode(r.text)
      <4>1. r.text \in Text
        BY <1>4, <2>1, <3>2, CallsAssumption
      <4> QED BY <3>2, <4>1, StartKeepsInv
    <3> QED BY <1>4, <3>1, <3>2 DEF TakeResult
  <2>4. Pipes'
    BY <1>1, <1>2, <2>1, <2>2 DEF Pipes, OneAnswer
  <2>5. Matched'
    BY <1>1, <1>4, <2>1, <2>2 DEF Matched, Taken
  <2>6. Numbers' /\ BufferMatchesResult'
    BY <1>1, <1>2, <2>2 DEF Numbers, BufferMatchesResult
  <2> QED BY <2>3, <2>4, <2>5, <2>6 DEF IInv
<1>5. CASE r.kind = "none" /\ TakeNeither
  <2>1. pc' = "exited" /\ UNCHANGED <<decodeVars, value, ret, errno>>
    BY <1>5 DEF TakeNeither, Exit
  <2>2. DecodeInv'
    BY <1>2, <2>1, StutterKeepsInv
  <2> QED
    BY <1>1, <1>2, <2>1, <2>2 DEF IInv, Pipes, Matched, Numbers, BufferMatchesResult
<1> QED BY <1>3, <1>4, <1>5 DEF ReadJson

LEMMA EofKeepsInv ==
    ASSUME IInv, ReadEof
    PROVE  IInv'
<1>1. /\ pc' = "exited" /\ UNCHANGED decodeVars
      /\ UNCHANGED <<call, serial, up, host, ret>>
  BY DEF ReadEof, Exit
<1>2. DecodeInv'
  BY <1>1, StutterKeepsInv DEF IInv
<1> QED BY <1>1, <1>2 DEF IInv, Pipes, Matched, Numbers, BufferMatchesResult

LEMMA DecodeKeepsInv ==
    ASSUME IInv, DecodeData
    PROVE  IInv'
<1>1. /\ pc = "decode" /\ pc' \in {"decode", "stub", "exited"}
      /\ UNCHANGED <<call, serial, up, down, host, reply, ret, errno, wrote>>
  BY DEF DecodeData, Exit
<1>2. DecodeInv'
  <2>1. CASE Decode
    BY <2>1, CharKeepsInv, EndKeepsInv DEF Decode, IInv
  <2>2. CASE UNCHANGED decodeVars
    BY <2>2, StutterKeepsInv DEF IInv
  <2> QED BY <2>1, <2>2 DEF DecodeData
<1>3. Pipes'
  BY <1>1 DEF IInv, Pipes, OneAnswer
<1>4. Matched' /\ Numbers' /\ BufferMatchesResult'
  BY <1>1 DEF IInv, Matched, Taken, Numbers, BufferMatchesResult
<1> QED BY <1>2, <1>3, <1>4 DEF IInv

\* What a stub that returns has filled.
LEMMA StubFills ==
    ASSUME Numbers, ~Stub.exits
    PROVE  /\ call.fn \in {"read", "readlink", "poll"} => Stub.filled <= call.room
           /\ ret < 0 => Stub.filled = 0
           /\ call.fn = "read" /\ ret > 0 => Stub.filled = ret
           /\ call.fn \in {"stat", "lstat", "fstat"} => (ret = 0) = (Stub.filled = StatFields)
           /\ call.fn = "statfs" => (ret >= 0) = (Stub.filled = StatfsFields)
           /\ call.fn = "poll" /\ ret > 0 => Stub.filled = call.room
<1>1. call.room \in Nat /\ ret \in Int
  BY DEF Numbers
<1>2. CASE call.fn = "read"
  <2>1. Stub = ReadStub
    BY <1>2 DEF Stub
  <2> QED BY <1>1, <1>2, <2>1 DEF ReadStub, Filled, Refused
<1>3. CASE call.fn \in {"stat", "lstat", "fstat"}
  <2>1. Stub = StatStub
    BY <1>3 DEF Stub, LstatStub, FstatStub
  <2> QED BY <1>1, <1>3, <2>1 DEF StatStub, Filled, Refused, StatFields
<1>4. CASE call.fn = "readlink"
  <2>1. Stub = ReadlinkStub
    BY <1>4 DEF Stub
  <2> QED BY <1>1, <1>4, <2>1 DEF ReadlinkStub, Filled, Refused
<1>5. CASE call.fn = "statfs"
  <2>1. Stub = StatfsStub
    BY <1>5 DEF Stub
  <2> QED BY <1>1, <1>5, <2>1 DEF StatfsStub, Filled, Refused, StatfsFields
<1>6. CASE call.fn = "poll"
  <2>1. Stub = PollStub
    BY <1>6 DEF Stub
  <2> QED BY <1>1, <1>6, <2>1 DEF PollStub, Filled, Refused
<1>7. CASE call.fn \notin {"read", "stat", "lstat", "fstat", "readlink", "statfs", "poll"}
  <2>1. Stub = Plain
    BY <1>7 DEF Stub
  <2> QED BY <1>7, <2>1 DEF Plain, Filled
<1> QED BY <1>2, <1>3, <1>4, <1>5, <1>6, <1>7

LEMMA ReturnKeepsInv ==
    ASSUME IInv, Return
    PROVE  IInv'
<1>1. pc = "stub" /\ UNCHANGED <<call, serial, up, down, host, reply, value, ret, errno>>
  BY DEF Return
<1>2. CASE Stub.exits /\ Exit(EPROTO) /\ UNCHANGED <<decodeVars, wrote>>
  <2>1. pc' = "exited" /\ DecodeInv'
    BY <1>2, StutterKeepsInv DEF Exit, IInv
  <2> QED BY <1>1, <2>1 DEF IInv, Pipes, Matched, Numbers, BufferMatchesResult
<1>3. CASE ~Stub.exits /\ pc' = "idle" /\ wrote' = Stub.filled /\ EndDecode
  <2>1. DecodeInv'
    BY <1>3, GoneKeepsInv
  <2>2. Pipes'
    BY <1>1, <1>3 DEF IInv, Pipes, OneAnswer
  <2>3. Matched' /\ Numbers'
    BY <1>1, <1>3 DEF IInv, Matched, Taken, Numbers
  <2>4. BufferMatchesResult'
    BY <1>1, <1>3, StubFills DEF IInv, BufferMatchesResult
  <2> QED BY <2>1, <2>2, <2>3, <2>4 DEF IInv
<1> QED BY <1>2, <1>3 DEF Return

LEMMA AnswerKeepsInv ==
    ASSUME IInv, HostAnswers
    PROVE  IInv'
<1>1. /\ host = "open" /\ up = "line" /\ up' = "none"
      /\ UNCHANGED <<decodeVars, pc, call, serial, host, reply, ret, errno, wrote>>
  BY DEF HostAnswers
<1>2. DecodeInv'
  BY <1>1, StutterKeepsInv DEF IInv
<1>3. Pipes'
  <2>1. pc \in {"exited", "wait"} /\ (pc = "wait" => down = <<>>)
    BY <1>1 DEF IInv, Pipes
  <2>2. pc = "wait" => OneAnswer'
    <3> SUFFICES ASSUME pc = "wait" PROVE OneAnswer'
      OBVIOUS
    <3>1. CASE \E r \in Reply : down' = Append(down, Piece(serial, r, TRUE))
      <4>1. PICK r \in Reply : down' = Append(down, Piece(serial, r, TRUE))
        BY <3>1
      <4>2. down' = <<Piece(serial, r, TRUE)>>
        BY <2>1, <4>1, WriteFirst
      <4>3. down' = <<Piece(serial', r, TRUE)>> /\ r \in Responses
        BY <1>1, <4>2 DEF Responses
      <4> QED BY <4>3 DEF OneAnswer
    <3>2. CASE down' = down \o <<Piece(serial, NoReply, TRUE), Piece(serial, NoReply, TRUE)>>
      <4>1. down' = <<Piece(serial, NoReply, TRUE), Piece(serial, NoReply, TRUE)>>
        BY <2>1, <3>2, WriteFirst
      <4> QED BY <1>1, <4>1 DEF OneAnswer
    <3>3. CASE down' = Append(down, Piece(serial, NoReply, FALSE))
      <4>1. down' = <<Piece(serial, NoReply, FALSE)>>
        BY <2>1, <3>3, WriteFirst
      <4>2. down' = <<Piece(serial', NoReply, FALSE)>> /\ NoReply \in Responses
        BY <1>1, <4>1 DEF Responses
      <4> QED BY <4>2 DEF OneAnswer
    <3> QED BY <3>1, <3>2, <3>3 DEF HostAnswers
  <2> QED BY <1>1, <2>1, <2>2 DEF Pipes
<1>4. Matched' /\ Numbers' /\ BufferMatchesResult'
  BY <1>1 DEF IInv, Matched, Taken, Numbers, BufferMatchesResult
<1> QED BY <1>2, <1>3, <1>4 DEF IInv

\* Whatever made the host close the pipes.
LEMMA CloseKeepsInv ==
    ASSUME IInv, HostCloses
    PROVE  IInv'
<1>1. /\ host' = "closed" /\ up' = "none"
      /\ UNCHANGED <<decodeVars, pc, call, serial, down, reply, ret, errno, wrote>>
  BY DEF HostCloses
<1>2. DecodeInv'
  BY <1>1, StutterKeepsInv DEF IInv
<1>3. Pipes'
  BY <1>1 DEF IInv, Pipes, OneAnswer
<1>4. Matched' /\ Numbers' /\ BufferMatchesResult'
  BY <1>1 DEF IInv, Matched, Taken, Numbers, BufferMatchesResult
<1> QED BY <1>2, <1>3, <1>4 DEF IInv

\* Every step of stub, trampoline and host keeps the invariant.
LEMMA Inductive == Spec => []IInv
<1>1. IInv /\ [Next]_vars => IInv'
  <2> SUFFICES ASSUME IInv, [Next]_vars PROVE IInv'
    OBVIOUS
  <2>1. CASE \E r \in Request : Issue(r)
    BY <2>1, IssueKeepsInv
  <2>2. CASE WriteJson
    BY <2>2, WriteKeepsInv
  <2>3. CASE ReadJson
    BY <2>3, ReadKeepsInv
  <2>4. CASE ReadEof
    BY <2>4, EofKeepsInv
  <2>5. CASE DecodeData
    BY <2>5, DecodeKeepsInv
  <2>6. CASE Return
    BY <2>6, ReturnKeepsInv
  <2>7. CASE HostAnswers
    BY <2>7, AnswerKeepsInv
  <2>8. CASE HostRefuses \/ HostTimesOut
    BY <2>8, CloseKeepsInv DEF HostRefuses, HostTimesOut
  <2>9. CASE UNCHANGED vars
    <3>1. UNCHANGED <<decodeVars, callVars>>
      BY <2>9 DEF vars
    <3>2. DecodeInv'
      BY <3>1, StutterKeepsInv DEF IInv
    <3>3. Pipes'
      BY <3>1 DEF callVars, IInv, Pipes, OneAnswer
    <3>4. Matched' /\ Numbers' /\ BufferMatchesResult'
      BY <3>1 DEF callVars, IInv, Matched, Taken, Numbers, BufferMatchesResult
    <3> QED BY <3>2, <3>3, <3>4 DEF IInv
  <2> QED BY <2>1, <2>2, <2>3, <2>4, <2>5, <2>6, <2>7, <2>8, <2>9 DEF Next, CallerStep, HostStep
<1> QED BY InitInv, <1>1, PTL DEF Spec

-----------------------------------------------------------------------------
(* Types, and the arguments of a request *)

\* What a process leaves as its status.
LEMMA ExitTyped ==
    ASSUME NEW code \in Int, Exit(code)
    PROVE  pc' = "exited" /\ status' \in 0 .. 255
  BY DEF Exit

\* A stub fills a number of bytes or members.
LEMMA FilledTyped ==
    ASSUME Numbers, ~Stub.exits
    PROVE  Stub.filled \in Nat
<1>1. call.room \in Nat /\ ret \in Int
  BY DEF Numbers
<1>2. CASE call.fn = "read"
  <2>1. Stub = ReadStub
    BY <1>2 DEF Stub
  <2> QED BY <1>1, <2>1 DEF ReadStub, Filled, Refused
<1>3. CASE call.fn \in {"stat", "lstat", "fstat"}
  <2>1. Stub = StatStub
    BY <1>3 DEF Stub, LstatStub, FstatStub
  <2> QED BY <1>1, <2>1 DEF StatStub, Filled, Refused, StatFields
<1>4. CASE call.fn = "readlink"
  <2>1. Stub = ReadlinkStub
    BY <1>4 DEF Stub
  <2> QED BY <1>1, <2>1 DEF ReadlinkStub, Filled, Refused
<1>5. CASE call.fn = "statfs"
  <2>1. Stub = StatfsStub
    BY <1>5 DEF Stub
  <2> QED BY <1>1, <2>1 DEF StatfsStub, Filled, Refused, StatfsFields
<1>6. CASE call.fn = "poll"
  <2>1. Stub = PollStub
    BY <1>6 DEF Stub
  <2> QED BY <1>1, <2>1 DEF PollStub, Filled, Refused
<1>7. CASE call.fn \notin {"read", "stat", "lstat", "fstat", "readlink", "statfs", "poll"}
  <2>1. Stub = Plain
    BY <1>7 DEF Stub
  <2> QED BY <2>1 DEF Plain, Filled
<1> QED BY <1>2, <1>3, <1>4, <1>5, <1>6, <1>7

\* The rest of TypeOK, relative to the invariant.
LEMMA StepTyped ==
    ASSUME IInv, IInv', TypeOK, [Next]_vars
    PROVE  TypeOK'
<1>1. DecodeTypeOK' /\ call' \in Request /\ ret' \in Int
  BY DEF IInv, DecodeInv, RoomInv, Numbers
<1>2. ASSUME NEW r \in Request, Issue(r) PROVE TypeOK'
  BY <1>1, <1>2, CallsAssumption DEF Issue, TypeOK
<1>3. CASE WriteJson
  BY <1>1, <1>3 DEF WriteJson, TypeOK, EPIPE
<1>4. CASE ReadJson
  <2> DEFINE r == Head(down).response
  <2>1. pc = "wait" /\ down # <<>> /\ UNCHANGED <<call, serial, up, host, wrote>>
    BY <1>4 DEF ReadJson
  <2>2. CASE r.kind = "error" /\ TakeError(r)
    <3>1. r.code \in Int
      BY <2>1, <2>2, UsableIsLast, CallsAssumption
    <3>2. /\ errno' \in Int /\ pc' \in {"exited", "stub"} /\ status' \in 0 .. 255
      BY <2>2, <3>1, ExitTyped DEF TakeError, TypeOK, EPROTO
    <3> QED BY <1>1, <2>1, <3>2 DEF TypeOK
  <2>3. CASE r.kind = "result" /\ TakeResult(r)
    BY <1>1, <2>1, <2>3 DEF TakeResult, TypeOK
  <2>4. CASE r.kind = "none" /\ TakeNeither
    BY <1>1, <2>1, <2>4, ExitTyped DEF TakeNeither, TypeOK, EPROTO
  <2> QED BY <1>4, <2>2, <2>3, <2>4 DEF ReadJson
<1>5. CASE ReadEof
  <2>1. -errno \in Int /\ -EIO \in Int /\ EIO \in Int
    BY DEF TypeOK, EIO
  <2>2. pc' = "exited" /\ status' \in 0 .. 255 /\ errno' \in Int
    BY <1>5, <2>1, ExitTyped DEF ReadEof, TypeOK
  <2> QED BY <1>1, <1>5, <2>2 DEF ReadEof, TypeOK
<1>6. CASE DecodeData
  <2>1. Exit(EPROTO) => pc' = "exited" /\ status' \in 0 .. 255
    BY ExitTyped DEF EPROTO
  <2>2. pc = "decode" /\ \/ UNCHANGED <<pc, status>>
                         \/ pc' = "stub" /\ UNCHANGED status
                         \/ Exit(EPROTO)
    BY <1>6 DEF DecodeData
  <2>3. pc' \in {"decode", "stub", "exited"} /\ status' \in 0 .. 255
    BY <2>1, <2>2 DEF TypeOK
  <2> QED BY <1>1, <1>6, <2>3 DEF DecodeData, TypeOK
<1>7. CASE Return
  <2>1. pc' \in {"idle", "exited"} /\ status' \in 0 .. 255 /\ wrote' \in Nat
    BY <1>7, ExitTyped, FilledTyped DEF Return, TypeOK, EPROTO, IInv
  <2> QED BY <1>1, <1>7, <2>1 DEF Return, TypeOK
<1>8. CASE HostAnswers
  BY <1>1, <1>8 DEF HostAnswers, TypeOK
<1>9. CASE HostRefuses \/ HostTimesOut
  BY <1>1, <1>9 DEF HostRefuses, HostTimesOut, HostCloses, TypeOK
<1>10. CASE UNCHANGED vars
  BY <1>1, <1>10 DEF vars, callVars, TypeOK
<1> QED BY <1>2, <1>3, <1>4, <1>5, <1>6, <1>7, <1>8, <1>9, <1>10 DEF Next, CallerStep, HostStep

\* Every variable keeps its type; of the status of the process the parent sees
\* eight bits, whatever errno exit is called with.
THEOREM TypeCorrect == Spec => []TypeOK
<1>1. Init => TypeOK
  BY CallsAssumption DEF Init, DecodeInit, TypeOK, DecodeTypeOK
<1>2. IInv /\ IInv' /\ TypeOK /\ [Next]_vars => TypeOK'
  BY StepTyped
<1> QED BY <1>1, <1>2, Inductive, PTL DEF Spec

\* The handler of every stub and of every command of fcntl is sent enough, but for
\* the mode of openat.
LEMMA EnoughArguments ==
    ASSUME NEW r \in Request
    PROVE  IF r.fn = "openat" /\ r.cmd = "O_CREAT"
           THEN NumArgs(r) = HandlerNeeds(r) - 1
           ELSE NumArgs(r) >= HandlerNeeds(r)
<1>1. r.fn \in StubName
  BY CallsAssumption
<1>2. CASE r.fn = "fcntl"
  BY <1>2 DEF NumArgs, HandlerNeeds, FcntlArgs, IntArg
<1>3. CASE r.fn \in {"openat", "lseek"}
  BY <1>3 DEF NumArgs, HandlerNeeds, OpenatArgs, LseekArgs
<1>4. CASE r.fn \in {"read", "access", "poll"}
  BY <1>4 DEF NumArgs, HandlerNeeds, AccessArgs
<1>5. CASE r.fn \in {"close", "dup", "stat", "lstat", "fstat", "readlink", "statfs"}
  BY <1>5 DEF NumArgs, HandlerNeeds, CloseArgs, DupArgs
<1> QED BY <1>1, <1>2, <1>3, <1>4, <1>5 DEF StubName

\* Whatever fcntl command or call the program makes, the request in the pipe
\* carries the arguments that the handler of SyscallHandler uses, except for the
\* mode of an openat that may create a file.
THEOREM ArgumentsArrive == Spec => []HandlerGetsArguments
<1>1. IInv => HandlerGetsArguments
  BY EnoughArguments DEF IInv, Numbers, HandlerGetsArguments
<1> QED BY Inductive, <1>1, PTL

-----------------------------------------------------------------------------

\* However the host answers, and although trampoline looks at no id, what a call
\* returns is the answer to this call, and nothing is left for the next.
THEOREM AnswersMatch == Spec => []ReplyMatchesCall
<1>1. IInv => ReplyMatchesCall
  BY DEF IInv, Pipes, Matched, Taken, ReplyMatchesCall
<1> QED BY Inductive, <1>1, PTL

\* For every reply and every buffer, what the stubs of sbio.c report is what
\* they have filled, and no buffer is overrun.
THEOREM BuffersMatch == Spec => []BufferMatchesResult
<1>1. IInv => BufferMatchesResult
  BY DEF IInv
<1> QED BY Inductive, <1>1, PTL

\* base64decode as trampoline calls it, between calls included: only an invalid
\* character makes it fail.
THEOREM DecodeFailsOnInvalid == Spec => []ErrorMeansInvalid
<1>1. IInv => ErrorMeansInvalid
  BY DEF IInv, DecodeInv, RoomInv, Paid, ErrorWasRead, ErrorMeansInvalid
<1> QED BY Inductive, <1>1, PTL

\* And what it writes for the text of a reply are the bits of its characters.
THEOREM DecodesReplies == Spec => []DecodeIsBase64
<1>1. IInv => DecodeIsBase64
  BY DEF IInv, DecodeInv
<1> QED BY Inductive, <1>1, PTL

===============================================================================
