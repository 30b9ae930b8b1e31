------------------------------ MODULE HostCalls ------------------------------
(***************************************************************************)
(* Calls of the C side to the host: trampoline, writejson and readjson of  *)
(* sblibc.c, the stubs of sbio.c that go through them, and the loop of     *)
(* RPCServer::run at the other end of the two pipes.  The stubs are taken  *)
(* for themselves, in a process that has the pipes.  The host answers      *)
(* trampoline's format; the RPCServer of this commit does not know it and  *)
(* refuses each line, which is one of its behaviours here.                 *)
(*                                                                         *)
(* A JSON value is its type t, its length n, and whether its members are   *)
(* those the stub asks for (ok); an object may have a member data.         *)
(***************************************************************************)
EXTENDS Base64

CONSTANTS
    Request,  \* the calls: fn, the command of fcntl or the flag O_CREAT of openat, the
              \* size of the caller's buffer
    Reply,    \* the responses the host may give
    MaxCalls  \* bound on the number of calls

\* The system calls whose stubs go through trampoline.
StubName == {"fcntl", "read", "close", "stat", "lstat", "fstat", "readlink", "openat", "lseek",
             "dup", "statfs", "access", "poll"}

ASSUME CallsAssumption ==
    /\ MaxCalls \in Nat
    /\ \A r \in Request : r.fn \in StubName /\ r.room \in Nat
    /\ \A r \in Reply : /\ r.code \in Int
                        /\ r.kind = "result" /\ r.base64 => r.text \in Text

EIO == 5
EPIPE == 32
EPROTO == 71
StatFields == 13
StatfsFields == 10

NoValue == [t |-> "null", n |-> 0, ok |-> FALSE]
NoReply == [kind |-> "none", code |-> 0]

VARIABLES
    pc,      \* "idle", "request" and "rest" (writejson), "wait" (readjson), "decode", "stub", "exited"
    call,    \* the request of the current call
    serial,  \* its number; the id that trampoline sends is always 0
    up,      \* the pipe to the host: "none", "part" or "line"
    down,    \* the pipe from the host: what fgets can return piece by piece
    host,    \* "open" or "closed"
    reply,   \* of the line the last readjson returned: whose answer, and its code
    value,   \* *out
    ret, errno, status,
    wrote    \* how much of the caller's buffer the last call filled

callVars == <<pc, call, serial, up, down, host, reply, value, ret, errno, status, wrote>>
vars == <<decodeVars, callVars>>

\* A piece of the answer to call id: a line, the end of which (ends) is a newline
\* or the end of fgets's buffer, or a part of a line.
Piece(id, r, ends) == [id |-> id, response |-> r, ends |-> ends]

Init ==
    /\ DecodeInit
    /\ pc = "idle" /\ serial = 0 /\ call \in Request
    /\ up = "none" /\ down = <<>> /\ host = "open"
    /\ reply = [id |-> 0, kind |-> "none", code |-> 0] /\ value = NoValue
    /\ ret = 0 /\ errno = 0 /\ status = 0 /\ wrote = 0

-----------------------------------------------------------------------------
(* trampoline *)

\* Mutant of Exit: the code itself, not its low eight bits.
ExitRaw(code) == pc' = "exited" /\ status' = code

Exit(code) == pc' = "exited" /\ status' = code % 256

IntArg == {"F_DUPFD", "F_DUPFD_CLOEXEC", "F_SETFD", "F_SETFL", "F_SETOWN", "F_SETSIG",
           "F_SETLEASE", "F_NOTIFY", "F_SETPIPE_SZ", "F_ADD_SEALS"}
LockArg == {"F_SETLK", "F_SETLKW", "F_GETLK", "F_OFD_SETLK", "F_OFD_SETLKW", "F_OFD_GETLK"}
OwnerArg == {"F_GETOWN_EX", "F_SETOWN_EX"}

\* Mutant of FcntlArgs: setting flags is taken for reading them.
FcntlArgsWithoutSetfl(cmd) == IF cmd \in (IntArg \ {"F_SETFL"}) \cup LockArg \cup OwnerArg THEN 3 ELSE 2

FcntlArgs(cmd) == IF cmd \in IntArg \cup LockArg \cup OwnerArg THEN 3 ELSE 2

CloseArgs == 1
OpenatArgs == 3   \* a fourth is computed and not sent
LseekArgs == 3
DupArgs == 1
AccessArgs == 2

\* The arguments that trampoline puts into params.
NumArgs(r) ==
    CASE r.fn = "fcntl" -> FcntlArgs(r.cmd)
      [] r.fn = "close" -> CloseArgs
      [] r.fn = "openat" -> OpenatArgs
      [] r.fn = "lseek" -> LseekArgs
      [] r.fn = "dup" -> DupArgs
      [] r.fn = "access" -> AccessArgs
      [] r.fn \in {"stat", "lstat", "fstat", "readlink", "statfs"} -> 1
      [] r.fn \in {"read", "poll"} -> 2

HasOut(fn) == fn \in {"read", "stat", "lstat", "fstat", "readlink", "statfs", "poll"}

\* A stub is called and trampoline puts the request together.
Issue(r) ==
    /\ pc = "idle" /\ serial < MaxCalls
    /\ pc' = "request" /\ call' = r /\ serial' = serial + 1
    /\ value' = NoValue /\ wrote' = 0
    /\ UNCHANGED <<decodeVars, up, down, host, reply, ret, errno, status>>

\* writejson: one write of the buffer or several.  A closed pipe is noticed
\* neither by fprintf nor by feof; it leaves EPIPE in errno.
WriteJson ==
    /\ pc \in {"request", "rest"}
    /\ \/ /\ host = "open" /\ up' = "line" /\ pc' = "wait" /\ UNCHANGED errno
       \/ /\ host = "open" /\ pc = "request" /\ up' = "part" /\ pc' = "rest" /\ UNCHANGED errno
       \/ /\ host = "closed" /\ errno' = EPIPE /\ pc' = "wait" /\ UNCHANGED up
    /\ UNCHANGED <<decodeVars, call, serial, down, host, reply, value, ret, status, wrote>>

\* Codes of JSON-RPC itself.
Reserved(code) == -32768 <= code /\ code <= -32000

TakeError(r) ==
    \/ Reserved(r.code) /\ Exit(EPROTO) /\ errno' = r.code /\ ret' = -1 /\ UNCHANGED <<decodeVars, value>>
    \/ /\ ~Reserved(r.code) /\ pc' = "stub" /\ errno' = r.code /\ ret' = -1
       /\ value' = IF HasOut(call.fn) THEN [t |-> "object", n |-> 2, ok |-> FALSE] ELSE NoValue
       /\ UNCHANGED <<decodeVars, status>>

TakeResult(r) ==
    /\ errno' = 0 /\ ret' = r.code
    /\ \/ /\ ~HasOut(call.fn) /\ pc' = "stub" /\ UNCHANGED <<decodeVars, value>>
       \/ /\ HasOut(call.fn) /\ ~r.base64 /\ pc' = "stub" /\ value' = r.data /\ UNCHANGED decodeVars
       \/ /\ HasOut(call.fn) /\ r.base64 /\ pc' = "decode" /\ StartDecode(r.text) /\ UNCHANGED value
    /\ UNCHANGED status

\* Mutant of TakeNeither: a response that cannot be used is a failed call.
TakeNeitherReturns ==
    pc' = "stub" /\ ret' = -1 /\ errno' = EPROTO /\ UNCHANGED <<decodeVars, value, status>>

\* Neither error nor result, a line that is not JSON, a line cut at 65535 bytes.
TakeNeither == Exit(EPROTO) /\ UNCHANGED <<decodeVars, value, ret, errno>>

\* readjson returns a line and trampoline takes it apart.
ReadJson ==
    /\ pc = "wait" /\ down # <<>> /\ Head(down).ends
    /\ down' = Tail(down)
    /\ LET r == Head(down).response IN
       /\ reply' = [id |-> Head(down).id, kind |-> r.kind, code |-> r.code]
       /\ \/ r.kind = "error" /\ TakeError(r)
          \/ r.kind = "result" /\ TakeResult(r)
          \/ r.kind = "none" /\ TakeNeither
    /\ UNCHANGED <<call, serial, up, host, wrote>>

\* End of file, before a line or within one: exit(-errno).
ReadEof ==
    /\ pc = "wait" /\ host = "closed"
    /\ \/ down = <<>> /\ Exit(-errno) /\ UNCHANGED errno
       \/ down # <<>> /\ ~Head(down).ends /\ Exit(-EIO) /\ errno' = EIO
    /\ UNCHANGED <<decodeVars, call, serial, up, down, host, reply, value, ret, wrote>>

DecodeData ==
    /\ pc = "decode"
    /\ \/ Decode /\ UNCHANGED <<pc, value, status>>
       \/ /\ verdict = "ok" /\ pc' = "stub"
          /\ value' = [t |-> "string", n |-> Len(out), ok |-> TRUE] /\ UNCHANGED <<decodeVars, status>>
       \/ verdict = "error" /\ Exit(EPROTO) /\ UNCHANGED <<decodeVars, value>>
    /\ UNCHANGED <<call, serial, up, down, host, reply, ret, errno, wrote>>

-----------------------------------------------------------------------------
(* The stubs of sbio.c, from the return of trampoline on.  A stub has either *)
(* filled so much of the caller's buffer or it calls exit(EPROTO).           *)

Refused == [exits |-> TRUE, filled |-> 0]
Filled(n) == [exits |-> FALSE, filled |-> n]

\* json_object_object_get_ex(out, "data", &data)
Data == IF "data" \in DOMAIN value THEN value.data ELSE NoValue

Plain == Filled(0)   \* fcntl, close, openat, lseek, dup, access

\* Mutant of ReadStub: data that does not fit is cut, as readlink does.
ReadStubCut ==
    CASE ret <= 0 -> Filled(0)
      [] ret > 0 /\ Data.t = "string" /\ Data.n = ret
            -> Filled(IF Data.n > call.room THEN call.room ELSE Data.n)
      [] OTHER -> Refused

ReadStub ==
    CASE ret <= 0 -> Filled(0)
      [] ret > 0 /\ Data.t = "string" /\ Data.n <= call.room /\ Data.n = ret -> Filled(Data.n)
      [] OTHER -> Refused

StatStub ==
    CASE ret # 0 -> Filled(0)
      [] ret = 0 /\ Data.t = "object" /\ Data.ok -> Filled(StatFields)
      [] OTHER -> Refused

LstatStub == StatStub

FstatStub == StatStub

\* The return value stays the length of the link, also when it was cut.
ReadlinkStub ==
    CASE ret <= 0 -> Filled(0)
      [] ret > 0 /\ Data.t = "string" /\ Data.n = ret
            -> Filled(IF Data.n > call.room THEN call.room ELSE Data.n)
      [] OTHER -> Refused

StatfsStub ==
    CASE ret < 0 -> Filled(0)
      [] ret >= 0 /\ Data.t = "object" /\ Data.ok -> Filled(StatfsFields)
      [] OTHER -> Refused

\* The buffer of poll is the array of nfds entries.
PollStub ==
    CASE ret <= 0 -> Filled(0)
      [] ret > 0 /\ Data.t = "array" /\ Data.n > 0 /\ Data.n = call.room /\ Data.ok -> Filled(Data.n)
      [] OTHER -> Refused

Stub ==
    CASE call.fn = "read" -> ReadStub
      [] call.fn = "stat" -> StatStub
      [] call.fn = "lstat" -> LstatStub
      [] call.fn = "fstat" -> FstatStub
      [] call.fn = "readlink" -> ReadlinkStub
      [] call.fn = "statfs" -> StatfsStub
      [] call.fn = "poll" -> PollStub
      [] OTHER -> Plain

Return ==
    /\ pc = "stub"
    /\ \/ Stub.exits /\ Exit(EPROTO) /\ UNCHANGED <<decodeVars, wrote>>
       \/ /\ ~Stub.exits /\ pc' = "idle" /\ wrote' = Stub.filled /\ UNCHANGED status
          /\ EndDecode
    /\ UNCHANGED <<call, serial, up, down, host, reply, value, ret, errno>>

-----------------------------------------------------------------------------
(* RPCServer::run *)

\* A whole line is answered: as a line, as one that is too long for readjson's
\* buffer, or, when the pipe cannot take all of it, in part.
HostAnswers ==
    /\ host = "open" /\ up = "line"
    /\ up' = "none"
    /\ \/ \E r \in Reply : down' = Append(down, Piece(serial, r, TRUE))
       \/ down' = down \o <<Piece(serial, NoReply, TRUE), Piece(serial, NoReply, TRUE)>>
       \/ down' = Append(down, Piece(serial, NoReply, FALSE))
    /\ UNCHANGED <<decodeVars, pc, call, serial, host, reply, value, ret, errno, status, wrote>>

HostCloses ==
    /\ host' = "closed" /\ up' = "none"
    /\ UNCHANGED <<decodeVars, pc, call, serial, down, reply, value, ret, errno, status, wrote>>

\* A line that is not a call, a part of a line included; or the process ends.
HostRefuses == host = "open" /\ up # "none" /\ HostCloses

\* Mutant of HostTimesOut: stream_select waits without a timeout.
HostTimesOutNever == host = "open" /\ up = "none" /\ pc = "exited" /\ HostCloses

\* stream_select: five seconds without a byte.
HostTimesOut == host = "open" /\ up = "none" /\ HostCloses

-----------------------------------------------------------------------------
CallerStep == WriteJson \/ ReadJson \/ ReadEof \/ DecodeData \/ Return
HostStep == HostAnswers \/ HostRefuses \/ HostTimesOut

Next == (\E r \in Request : Issue(r)) \/ CallerStep \/ HostStep

\* A call that was begun goes on, and the host's selects have timeouts.
Spec == Init /\ [][Next]_vars /\ WF_vars(CallerStep) /\ WF_vars(HostStep)

-----------------------------------------------------------------------------
(* Properties *)

TypeOK ==
    /\ DecodeTypeOK
    /\ pc \in {"idle", "request", "rest", "wait", "decode", "stub", "exited"}
    /\ call \in Request /\ serial \in 0 .. MaxCalls
    /\ up \in {"none", "part", "line"} /\ host \in {"open", "closed"}
    /\ ret \in Int /\ errno \in Int /\ status \in 0 .. 255 /\ wrote \in Nat

\* What a call returns comes from the answer to this very call.  trampoline
\* sends the same id each time and does not look at the one it gets, so all
\* rests on one answer per request: a line that was cut or refused must never
\* leave its rest in the pipe for the next call to read.
ReplyMatchesCall ==
    /\ pc = "idle" => reply.id = serial /\ down = <<>>
    /\ pc = "idle" /\ serial > 0 =>
         IF reply.kind = "error" THEN ret = -1 /\ errno = reply.code
         ELSE ret = reply.code /\ errno = 0

\* What a stub reports is what its caller finds in the buffer, and the buffer
\* is never overrun: read fills as many bytes as it returns, stat and poll fill
\* all or nothing, and a failed call leaves the buffer alone.
BufferMatchesResult ==
    pc = "idle" /\ serial > 0 =>
        /\ call.fn \in {"read", "readlink", "poll"} => wrote <= call.room
        /\ ret < 0 => wrote = 0
        /\ call.fn = "read" /\ ret > 0 => wrote = ret
        /\ call.fn \in {"stat", "lstat", "fstat"} => (ret = 0) = (wrote = StatFields)
        /\ call.fn = "statfs" => (ret >= 0) = (wrote = StatfsFields)
        /\ call.fn = "poll" /\ ret > 0 => wrote = call.room

\* Every call ends: it returns or the process exits, however the host answers,
\* in part or not at all, and whenever it gives up.  After a part of an answer
\* both sides wait for the other; the host's timeout is what ends it.
CallEnds == pc \in {"request", "wait"} ~> pc \in {"idle", "exited"}

\* The methods of SyscallHandler: how many arguments they use.  The mode of openat
\* counts when a file may be created.
HandlerNeeds(r) ==
    CASE r.fn = "fcntl" /\ r.cmd \in {"F_DUPFD", "F_DUPFD_CLOEXEC", "F_SETFD", "F_SETFL"} -> 3
      [] r.fn = "fcntl" /\ r.cmd \notin {"F_DUPFD", "F_DUPFD_CLOEXEC", "F_SETFD", "F_SETFL"} -> 2
      [] r.fn = "openat" -> IF r.cmd = "O_CREAT" THEN 4 ELSE 3
      [] r.fn = "lseek" -> 3
      [] r.fn \in {"read", "access", "poll"} -> 2
      [] OTHER -> 1

\* A request carries the arguments that the host's handler uses: the switch of the
\* fcntl stub and the one of SyscallHandler::fcntl agree on the commands that take
\* one.  The one request that lacks an argument, and lacks no more than that, is an
\* openat with O_CREAT: its stub computes the mode and does not send it, the handler
\* takes 0, and VirtualFS::open answers ENOENT where EROFS was meant.
HandlerGetsArguments ==
    up = "line" =>
        IF call.fn = "openat" /\ call.cmd = "O_CREAT"
        THEN NumArgs(call) = HandlerNeeds(call) - 1
        ELSE NumArgs(call) >= HandlerNeeds(call)

===============================================================================
