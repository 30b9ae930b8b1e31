------------------------------ MODULE Requests ------------------------------
(***************************************************************************)
(* The sandboxed program and its parent: the seccomp filter and the SIGSYS *)
(* handler of sandbox-child.c, the stubs of sbio.c as they behave in the   *)
(* child, the request loop of run_parent and the end of both processes.    *)
(* The child is in the sandbox when the model begins, a point the          *)
(* handshake of Lifecycle does not reach at this commit.                   *)
(*                                                                         *)
(* A system call is its number, the name the kernel knows it by, and the   *)
(* arguments the filter looks at.  The program is arbitrary; besides its   *)
(* calls it may write datagrams of its own to the socket, as the filter    *)
(* allows.  A datagram is its size and the fields of its header.           *)
(***************************************************************************)
EXTENDS Preload

CONSTANTS
    Syscall,    \* the calls of the program: [nr, name, fd, cmd, flags]
    Number,     \* the number by which the kernel knows each name
    Raw,        \* datagrams of the program: [size, ns, nr, str, array]
    BufLen,     \* sizes of the buffers the program gives to getpwnam_r and getpwuid_r
    Errno,      \* what errno may hold when the host's pipe is at its end
    Junk,       \* what the uninitialised variable length of run_parent may hold
    MaxFrames,  \* signal frames the stack has room for
    MaxSteps    \* bound on the actions of the program

\* The second argument and the flags, as far as the filter and the stubs tell them apart.
Command == {"", "set", "NULL", "block", "unblock", "F_GETFD", "F_GETFL", "RUSAGE_SELF", "self"}
Flag == {"MAP_ANONYMOUS", "MAP_PRIVATE", "MAP_SHARED", "MAP_GROWSDOWN", "MAP_STACK"}

Call == [nr : Int, name : DOMAIN Number, fd : Int, cmd : Command, flags : SUBSET Flag]

\* The numbers of x86_64 (asm/unistd_64.h of the kernel).
x86_64 ==
    [read |-> 0, open |-> 2, close |-> 3, stat |-> 4, fstat |-> 5, lstat |-> 6, poll |-> 7,
     lseek |-> 8, mmap |-> 9, rt_sigaction |-> 13, rt_sigprocmask |-> 14, access |-> 21,
     dup |-> 32, getpid |-> 39, fcntl |-> 72, getdents |-> 78, readlink |-> 89, statfs |-> 137, exit_group |-> 231,
     openat |-> 257]

ASSUME CallAssumption ==
    /\ Syscall \subseteq Call /\ \A c \in Syscall : c.nr = Number[c.name]
    /\ \A name \in DOMAIN x86_64 : name \in DOMAIN Number /\ Number[name] = x86_64[name]
    /\ \A name \in DOMAIN Number : Number[name] \in Int
    /\ \A m, n \in DOMAIN Number : Number[m] = Number[n] => m = n

ASSUME BoundsAssumption ==
    /\ MaxFrames \in Nat \ {0} /\ MaxSteps \in Nat
    /\ \A d \in Raw : d.size \in Nat \ {0} /\ d.nr \in Nat /\ d.str \in Nat
    /\ Junk \subseteq Nat /\ BufLen \subseteq Nat /\ Errno \subseteq Int

NS_SYS == 0
RPCSOCK == 3
PIPEOUT == 4
SIGSEGV == 11
SIGTERM == 15
SIGSYS == 31
ENOENT == 2
EIO == 5
EPROTO == 71
HeaderSize == 6
BufSize == 65536

VARIABLES
    child,     \* "loaded", "run", "trap", "stub", "reply", "exiting", "zombie", "gone"
    frames,    \* the calls whose handlers are on the stack, with the stub of each
    cstatus,   \* exit status of the child, or minus its signal
    ignores,   \* does the program ignore SIGTERM
    mask,      \* the signals the program has blocked
    sigterm,   \* is SIGTERM pending in the child
    steps,     \* actions of the program so far
    parent,    \* "loop", "args", "dispatch", "forward", "kill", "returning", "exited"
    ret, pstatus,
    fnamelen, length, str,   \* of the request: see run_parent; str is strlen of the buffer
    sigchld,
    toParent, toChild,       \* datagrams
    host                     \* its ends of the parent's pipes: "open" or "closed"

signalVars == <<ignores, mask, sigterm>>
childVars == <<child, frames, cstatus, signalVars, steps>>
parentVars == <<parent, ret, pstatus, fnamelen, length, str>>
preloadVars == <<sb_enabled, pw>>
vars == <<preloadVars, childVars, parentVars, sigchld, toParent, toChild, host>>

Init ==
    /\ PreloadInit
    /\ child = "loaded" /\ frames = <<>> /\ cstatus = 0
    /\ ignores = FALSE /\ mask = {} /\ sigterm = FALSE /\ steps = 0
    /\ parent = "loop" /\ ret = 0 /\ pstatus = 0
    /\ fnamelen = 0 /\ length \in Junk /\ str = 0
    /\ sigchld = FALSE /\ toParent = <<>> /\ toChild = <<>> /\ host = "open"

-----------------------------------------------------------------------------
(* The child *)

ChildEnds(status) == child' = "exiting" /\ cstatus' = status

\* The rules of run_child.
Allowed(c) ==
    \/ c.name \in {"read", "write", "readv", "writev", "fstat"} /\ c.fd = RPCSOCK
    \/ c.name = "fcntl" /\ c.fd = RPCSOCK /\ c.cmd \in {"F_GETFD", "F_GETFL"}
    \/ c.name = "mmap" /\ {"MAP_ANONYMOUS", "MAP_PRIVATE"} \subseteq c.flags
    \/ c.name \in {"brk", "munmap", "mprotect", "sigreturn", "rt_sigreturn", "rt_sigprocmask",
                   "sigaltstack", "futex", "uname", "exit_group", "exit"}
    \/ c.name = "rt_sigaction" /\ (c.fd # SIGSYS \/ c.cmd = "NULL")
    \/ c.name = "getrusage" /\ c.cmd = "RUSAGE_SELF"
    \/ c.name = "tgkill" /\ c.cmd = "self"

nsyscalls == 322

\* Mutant of syscalls: the line of an entry before "dup" is missing.
syscallsShort ==
    [read |-> 0, open |-> 2, close |-> 3, stat |-> 4, fstat |-> 5, lstat |-> 6, poll |-> 7,
     lseek |-> 8, mmap |-> 9, access |-> 21, dup |-> 31, fcntl |-> 71, getdents |-> 77,
     readlink |-> 88, statfs |-> 136, openat |-> 256]

\* The positions in syscalls[], as it is for x86_64, of the names with a stub.
syscalls ==
    [read |-> 0, open |-> 2, close |-> 3, stat |-> 4, fstat |-> 5, lstat |-> 6, poll |-> 7,
     lseek |-> 8, mmap |-> 9, access |-> 21, dup |-> 32, fcntl |-> 72, getdents |-> 78,
     readlink |-> 89, statfs |-> 137, openat |-> 257]

NameAt(nr) ==
    IF \E s \in DOMAIN syscalls : syscalls[s] = nr
    THEN CHOOSE s \in DOMAIN syscalls : syscalls[s] = nr ELSE "another"

arg_map == {"open", "fcntl", "close", "read", "stat", "fstat", "lstat", "readlink", "openat",
            "getdents", "lseek", "dup", "mmap", "statfs", "access", "poll"}

\* The stub sigsys_handler finds, if there is one.
StubOf(c) ==
    IF c.nr < nsyscalls /\ NameAt(c.nr) \in arg_map THEN NameAt(c.nr) ELSE "none"

\* A call that the filter does not allow raises SIGSYS, which ends a program that
\* has blocked it.  The handler runs on the same stack and is not masked; a stack
\* that is full is a SIGSEGV.
Trap(c) ==
    \/ SIGSYS \in mask /\ ChildEnds(-SIGSYS) /\ UNCHANGED frames
    \/ SIGSYS \notin mask /\ Len(frames) = MaxFrames /\ ChildEnds(-SIGSEGV) /\ UNCHANGED frames
    \/ /\ SIGSYS \notin mask /\ Len(frames) # MaxFrames
       /\ frames' = Append(frames, [call |-> c, stub |-> StubOf(c)])
       /\ child' = "trap" /\ UNCHANGED cstatus

\* The call that the topmost handler is about to make for its stub.
Top == frames[Len(frames)]

Pop == frames' = SubSeq(frames, 1, Len(frames) - 1) /\ UNCHANGED cstatus

\* The handler stores the result in the context and returns: to the program, or
\* to the stub that made the call.
StubReturns == Pop /\ child' = IF Len(frames) = 1 THEN "run" ELSE "stub"

\* run_child calls enable_sandbox and, at length, the program.
ChildEnables ==
    /\ child = "loaded" /\ child' = "run" /\ EnableSandbox
    /\ UNCHANGED <<frames, cstatus, signalVars, steps, parentVars, sigchld, toParent, toChild, host>>

\* An action of the program.
Running == child = "run" /\ steps < MaxSteps /\ steps' = steps + 1

ProgramCalls(c) ==
    /\ Running
    /\ \/ /\ ~Allowed(c) /\ Trap(c) /\ UNCHANGED <<ignores, mask>>
       \/ /\ Allowed(c) /\ c.name = "exit_group" /\ ChildEnds(0) /\ UNCHANGED <<frames, ignores, mask>>
       \/ /\ Allowed(c) /\ c.name = "rt_sigaction" /\ ignores' = (ignores \/ c.fd = SIGTERM)
          /\ UNCHANGED <<child, frames, cstatus, mask>>
       \/ /\ Allowed(c) /\ c.name = "rt_sigprocmask"
          /\ mask' = IF c.cmd = "block" THEN mask \cup {c.fd} ELSE mask \ {c.fd}
          /\ UNCHANGED <<child, frames, cstatus, ignores>>
    /\ UNCHANGED <<preloadVars, sigterm, parentVars, sigchld, toParent, toChild, host>>

\* The Python part of run_child: a stage that fails leaves -1, a main.py that
\* cannot be opened its errno, and -ret is returned from main.
PythonEnds ==
    /\ child = "run"
    /\ \E code \in {0, -1, ENOENT} : ChildEnds((-code) % 256)
    /\ UNCHANGED <<preloadVars, frames, signalVars, steps, parentVars, sigchld, toParent, toChild, host>>

\* The preloaded library answers; had it passed the calls on, they would be
\* trapped, and no stub be found.
ProgramAsksUser(name, buflen) ==
    /\ Running
    /\ sb_enabled
    /\ GetpwnamR(name, buflen) \/ GetpwuidR(GetId("getuid"), buflen) \/ GetpwuidR(0, buflen)
    /\ UNCHANGED <<child, frames, cstatus, signalVars, parentVars, sigchld, toParent, toChild, host>>

ProgramWrites(d) ==
    /\ Running /\ parent # "exited"
    /\ toParent' = Append(toParent, d)
    /\ UNCHANGED <<preloadVars, child, frames, cstatus, signalVars, parentVars, sigchld, toChild, host>>

\* sigsys_handler: a call without a stub is exit(SIGSYS).
SigsysHandler ==
    /\ child = "trap"
    /\ \/ Top.stub = "none" /\ ChildEnds(SIGSYS)
       \/ Top.stub # "none" /\ child' = "stub" /\ UNCHANGED cstatus
    /\ UNCHANGED <<preloadVars, frames, signalVars, steps, parentVars, sigchld, toParent, toChild, host>>

\* The open stub: header, path without its terminator, flags and mode in one
\* datagram; a parent that is gone is exit(EIO).
OpenRequest == [size |-> HeaderSize + 1 + 4 + 4, ns |-> NS_SYS, nr |-> 2, str |-> 9, array |-> FALSE]

OpenStub ==
    /\ child = "stub" /\ Top.stub = "open"
    /\ \/ parent # "exited" /\ toParent' = Append(toParent, OpenRequest) /\ child' = "reply" /\ UNCHANGED cstatus
       \/ parent = "exited" /\ ChildEnds(EIO) /\ UNCHANGED toParent
    /\ UNCHANGED <<preloadVars, frames, signalVars, steps, parentVars, sigchld, toChild, host>>

OpenReply ==
    /\ child = "reply" /\ toChild # <<>>
    /\ toChild' = Tail(toChild)
    /\ StubReturns
    /\ UNCHANGED <<preloadVars, signalVars, steps, parentVars, sigchld, toParent, host>>

\* The mmap stub: refused flags; an anonymous mapping, trapped when it is not
\* private, or failing; then lseek, which is trapped.
MmapStub ==
    /\ child = "stub" /\ Top.stub = "mmap"
    /\ \/ Top.call.flags \cap {"MAP_SHARED", "MAP_GROWSDOWN", "MAP_STACK"} # {} /\ StubReturns
       \/ /\ Top.call.flags \cap {"MAP_SHARED", "MAP_GROWSDOWN", "MAP_STACK"} = {}
          /\ LET inner == [Top.call EXCEPT !.flags = @ \cup {"MAP_ANONYMOUS"}] IN
             \/ Allowed(inner) /\ StubReturns
             \/ Allowed(inner) /\ Trap([Top.call EXCEPT !.nr = Number["lseek"], !.name = "lseek"])
             \/ ~Allowed(inner) /\ Trap(inner)
    /\ UNCHANGED <<preloadVars, signalVars, steps, parentVars, sigchld, toParent, toChild, host>>

\* Mutant of TrampolineStub: trampoline refuses to work in the child.
TrampolineStubRefuses ==
    /\ child = "stub" /\ Top.stub \in arg_map \ {"open", "mmap"}
    /\ StubReturns
    /\ UNCHANGED <<preloadVars, signalVars, steps, parentVars, sigchld, toParent, toChild, host>>

\* All other stubs call trampoline: writejson opens PIPEOUT, which the child
\* does not have, and fdopen asks for its flags first.
TrampolineStub ==
    /\ child = "stub" /\ Top.stub \in arg_map \ {"open", "mmap"}
    /\ Trap([nr |-> Number["fcntl"], name |-> "fcntl", fd |-> PIPEOUT, cmd |-> "F_GETFL", flags |-> {}])
    /\ UNCHANGED <<preloadVars, signalVars, steps, parentVars, sigchld, toParent, toChild, host>>

\* SIGTERM ends the child wherever it is, a read included, unless it is blocked.
ChildKilled ==
    /\ sigterm /\ ~ignores /\ SIGTERM \notin mask /\ child \notin {"exiting", "zombie", "gone"}
    /\ ChildEnds(-SIGTERM)
    /\ UNCHANGED <<preloadVars, frames, signalVars, steps, parentVars, sigchld, toParent, toChild, host>>

ChildTerminates ==
    /\ child = "exiting"
    /\ child' = IF parent = "exited" THEN "gone" ELSE "zombie"
    /\ sigchld' = (parent # "exited")
    /\ UNCHANGED <<preloadVars, frames, cstatus, signalVars, steps, parentVars, toParent, toChild, host>>

-----------------------------------------------------------------------------
(* run_parent, from its loop on *)

Fail(code) == parent' = "kill" /\ ret' = code

Least(a, b) == IF a < b THEN a ELSE b

\* readv of the three fields of the header; a request of the documented six
\* bytes fails the test for four, so that length is never set.
ReadHeader ==
    /\ parent = "loop" /\ toParent # <<>>
    /\ toParent' = Tail(toParent)
    /\ LET d == Head(toParent)
           got == Least(d.size, HeaderSize)
       IN \/ got # 4 /\ Fail(got) /\ UNCHANGED fnamelen
          \/ got = 4 /\ d.ns = NS_SYS /\ d.nr >= nsyscalls /\ Fail(got) /\ UNCHANGED fnamelen
          \/ /\ got = 4 /\ d.ns = NS_SYS /\ d.nr < nsyscalls
             /\ fnamelen' = d.nr /\ ret' = got
             /\ parent' = IF length > 0 THEN "args" ELSE "dispatch"
          \/ got = 4 /\ d.ns # NS_SYS /\ d.nr + length > BufSize /\ Fail(got) /\ UNCHANGED fnamelen
          \/ /\ got = 4 /\ d.ns # NS_SYS /\ d.nr + length <= BufSize
             /\ fnamelen' = d.nr /\ ret' = got /\ parent' = "forward"
    /\ str' = 0   \* memset
    /\ UNCHANGED <<preloadVars, childVars, pstatus, length, sigchld, toChild, host>>

ReadArgs ==
    /\ parent = "args" /\ toParent # <<>>
    /\ toParent' = Tail(toParent)
    /\ LET d == Head(toParent)
           got == Least(d.size, length)
       IN \/ got # length /\ Fail(got) /\ UNCHANGED str
          \/ got = length /\ ret' = got /\ parent' = "dispatch" /\ str' = Least(d.str, length)
    /\ UNCHANGED <<preloadVars, childVars, pstatus, fnamelen, length, sigchld, toChild, host>>

\* The search for the handler stops at the first entry with another name.
Handler(name) == IF name = "open" THEN "fcntl" ELSE "open"

\* Each argument must begin within the buffer: the path of open and its terminator
\* are followed by the flags, of four bytes, and the mode; those of fcntl are ints.
ArgsFit(stub) == stub = "open" => str + 5 < BufSize

\* Mutant of ParentExits: the code itself, not its low eight bits.
ParentExitsRaw(code) == parent' = "returning" /\ pstatus' = code

ParentExits(code) == parent' = "returning" /\ pstatus' = code % 256

\* A call of trampoline does not return after an answer that is none, or at the end
\* of the pipe, when errno is what was left there, 0 by the last good answer.
HostExits ==
    \/ host = "open" /\ ParentExits(EPROTO)
    \/ host = "closed" /\ \E e \in Errno : ParentExits(-e)

\* open_node answers a descriptor or -1, of which the child gets a datagram; it
\* asks the host for some nodes, build_tree may exit, and a null node (ParentFS) is
\* a SIGSEGV.  The fcntl stub calls the host, and leaves the arguments where the
\* length of the answer is expected.
Dispatch ==
    /\ parent = "dispatch"
    /\ LET stub == Handler(NameAt(fnamelen)) IN
       \/ ~ArgsFit(stub) /\ Fail(-1) /\ UNCHANGED <<pstatus, toChild>>
       \/ /\ ArgsFit(stub) /\ (stub = "open" \/ host = "open") /\ child \notin {"exiting", "zombie", "gone"}
          /\ toChild' = Append(toChild, "response") /\ ret' = 8 /\ parent' = "loop" /\ UNCHANGED pstatus
       \/ /\ ArgsFit(stub) /\ (stub = "open" \/ host = "open")
          /\ (stub = "fcntl" \/ child \in {"exiting", "zombie", "gone"})
          /\ Fail(-1) /\ UNCHANGED <<pstatus, toChild>>
       \/ ArgsFit(stub) /\ HostExits /\ UNCHANGED <<ret, toChild>>
       \/ /\ ArgsFit(stub) /\ stub = "open"
          /\ (ParentExits(1) \/ ParentExits(128 + SIGSEGV)) /\ UNCHANGED <<ret, toChild>>
    /\ UNCHANGED <<preloadVars, childVars, fnamelen, length, str, sigchld, toParent, host>>

\* A request of another namespace goes to the host; its answer goes nowhere.
Forward ==
    /\ parent = "forward"
    /\ LET want == fnamelen + length
           d == Head(toParent)
       IN \/ want = 0 /\ Fail(0) /\ UNCHANGED <<pstatus, toParent>>   \* reads nothing, which is no array
          \/ /\ want > 0 /\ toParent # <<>> /\ toParent' = Tail(toParent)
             /\ \/ d.size < want /\ Fail(-1) /\ UNCHANGED pstatus
                \/ d.size >= want /\ ~d.array /\ Fail(want) /\ UNCHANGED pstatus
                \/ /\ d.size >= want /\ d.array /\ host = "open"
                   /\ ret' = 0 /\ parent' = "loop" /\ UNCHANGED pstatus
                \/ d.size >= want /\ d.array /\ HostExits /\ UNCHANGED ret
    /\ UNCHANGED <<preloadVars, childVars, fnamelen, length, str, sigchld, toChild, host>>

\* Mutant of KillChild: the loop is left without the kill.
KillChildNot ==
    /\ parent = "kill" /\ ParentExits(ret)
    /\ UNCHANGED <<preloadVars, childVars, ret, fnamelen, length, str, sigchld, toParent, toChild, host>>

\* Mutant of KillChild: the loop's failure is not reported.
KillChildQuietly ==
    /\ parent = "kill"
    /\ sigterm' = TRUE
    /\ ParentExits(0)
    /\ UNCHANGED <<preloadVars, child, frames, cstatus, ignores, mask, steps, ret, fnamelen, length, str, sigchld, toParent, toChild, host>>

\* "fail:"
KillChild ==
    /\ parent = "kill"
    /\ sigterm' = TRUE
    /\ ParentExits(ret)
    /\ UNCHANGED <<preloadVars, child, frames, cstatus, ignores, mask, steps, ret, fnamelen, length, str, sigchld, toParent, toChild, host>>

ParentEnds ==
    /\ parent = "returning" /\ parent' = "exited"
    /\ child' = IF child = "zombie" THEN "gone" ELSE child
    /\ UNCHANGED <<preloadVars, frames, cstatus, signalVars, steps, ret, pstatus, fnamelen, length, str, sigchld, toParent, toChild, host>>

\* sigchld_handler
SigchldHandler ==
    /\ sigchld /\ parent # "exited"
    /\ parent' = "exited" /\ pstatus' = cstatus % 256
    /\ sigchld' = FALSE /\ child' = "gone"
    /\ UNCHANGED <<preloadVars, frames, cstatus, signalVars, steps, ret, fnamelen, length, str, toParent, toChild, host>>

\* RPCServer::run ends, at any time, and closes the pipes.
HostCloses ==
    /\ host = "open" /\ host' = "closed"
    /\ UNCHANGED <<preloadVars, childVars, parentVars, sigchld, toParent, toChild>>

-----------------------------------------------------------------------------
Program ==
    \/ PythonEnds
    \/ \E c \in Syscall : ProgramCalls(c)
    \/ \E d \in Raw : ProgramWrites(d)
    \/ \E name \in {"sandbox", "root", "other"}, buflen \in BufLen : ProgramAsksUser(name, buflen)

ChildStep ==
    \/ ChildEnables \/ SigsysHandler \/ OpenStub \/ OpenReply \/ MmapStub \/ TrampolineStub
    \/ ChildKilled \/ ChildTerminates

ParentStep == ReadHeader \/ ReadArgs \/ Dispatch \/ Forward \/ KillChild \/ ParentEnds \/ SigchldHandler

Next == Program \/ ChildStep \/ ParentStep \/ HostCloses

\* The kernel runs both processes and delivers signals; nothing is assumed of
\* the program.
Spec == Init /\ [][Next]_vars /\ WF_vars(ChildStep) /\ WF_vars(ParentStep) /\ WF_vars(ChildKilled)

-----------------------------------------------------------------------------
(* Properties *)

Ended == child \in {"exiting", "zombie", "gone"}

TypeOK ==
    /\ child \in {"loaded", "run", "trap", "stub", "reply", "exiting", "zombie", "gone"}
    /\ parent \in {"loop", "args", "dispatch", "forward", "kill", "returning", "exited"}
    /\ frames \in Seq([call : Call, stub : arg_map \cup {"none"}]) /\ Len(frames) <= MaxFrames
    /\ cstatus \in -64 .. 255 /\ pstatus \in 0 .. 255
    /\ steps \in 0 .. MaxSteps /\ ret \in Int /\ str \in Nat
    /\ mask \subseteq Int /\ host \in {"open", "closed"}
    /\ child \in {"trap", "stub", "reply"} => frames # <<>>
    /\ child \in {"loaded", "run"} => frames = <<>>

\* Every trapped call, also one that a stub makes from within the handler, gets
\* the stub of its own name, and none where arg_map has none: the position of
\* a name in syscalls[] is the number the kernel reports.
TrapFindsStub ==
    \A k \in DOMAIN frames :
        frames[k].stub = IF frames[k].call.name \in arg_map THEN frames[k].call.name ELSE "none"

\* "these functions only work on the parent process, calling from child will
\* result in sandbox termination" (sbcontext.h): a trapped call whose stub
\* uses trampoline never returns to the program, also from within mmap.
TrampolineEndsChild ==
    (\E k \in DOMAIN frames : frames[k].stub \in arg_map \ {"open", "mmap"}) ~> Ended

\* When the loop of the parent gives up, the child ends, wherever it is and
\* whatever it waits for, unless the program ignores SIGTERM or keeps it blocked
\* for ever, both of which the filter allows.
AbortEndsChild == parent = "kill" ~> (Ended \/ [](ignores \/ SIGTERM \in mask))

\* The status 0 is the child's own success, however the kill, the child's death,
\* SIGCHLD and the end of the host interleave.  There are two exceptions: a loop that
\* gave up returns a count of bytes, which may be a multiple of 256; and a host that
\* closes its pipes under a call leaves -errno, which may be 0, before any kill.
SuccessIsChilds ==
    parent = "exited" /\ pstatus = 0 =>
        \/ child = "gone" /\ cstatus = 0
        \/ sigterm /\ ret % 256 = 0
        \/ host = "closed" /\ ~sigterm

\* A call of open that reached the parent returns to the program: the loop
\* accepts a request of the structure documented above it.
OpenAnswered == child = "reply" ~> child = "run"

===============================================================================
