------------------------------ MODULE Lifecycle ------------------------------
(***************************************************************************)
(* The life of one sandbox: the host (Sandbox.php, RPCServer.php), the     *)
(* parent process (sandbox.c, run_parent) and the sandboxed child          *)
(* (run_child), from main to the status the host reaps.                    *)
(*                                                                         *)
(* The host talks to the parent over two pipes, one request at a time; the *)
(* parent talks to the child over a datagram socketpair.  A read from a    *)
(* datagram socket takes one datagram, drops what does not fit, and does   *)
(* not end when the other side goes away.  Requests and replies appear as  *)
(* what the parent's trampoline() makes of them, datagrams as their sizes. *)
(***************************************************************************)
EXTENDS Integers, Sequences

CONSTANTS
    LongSize, \* sizeof(unsigned long): 8 on x86_64, 4 on i386
    PathLen,  \* length of the virtual python path
    Code      \* the codes of the host's results, any integers

ASSUME AbiAssumption == LongSize \in {4, 8} /\ PathLen \in Nat
ASSUME CodeAssumption == Code \subseteq Int

IntSize == 4
SIGXCPU == 24
EPROTO == 71
SIGKILLED == 137   \* how a wait reports a process ended by SIGKILL

\* What exit(n) leaves in the low eight bits of the wait status.
ExitStatus(n) == n % 256

Calls == {"getlimits", "getfs", "getpythonpath"}
Sends == {"sendlimits", "sendpath"}
Reads == {"limits", "pathlen", "path"}

VARIABLES
    host,     \* "serving" (RPCServer::run), "closing" (pipes closed, in
              \* proc_close) or "done"
    pipe,     \* "idle", "request", or a reply: "result", "error", "invalid"
    code,     \* the code of the last result
    parent,   \* where the parent is in main and run_parent
    pstatus,  \* its exit status
    handler,  \* is sigchld_handler registered
    sigchld,  \* is SIGCHLD pending in the parent
    child,    \* where the child is in main and run_child
    cstatus,  \* [by |-> "exit" or "signal", n |-> status or signal number]
    toChild   \* datagrams in the child's socket

vars == <<host, pipe, code, parent, pstatus, handler, sigchld, child, cstatus, toChild>>
hostVars == <<host, pipe, code>>
parentVars == <<parent, pstatus, handler>>
childVars == <<child, cstatus>>

ParentPc == {"main", "registered", "loop", "returning", "exited"} \cup Calls \cup Sends
ChildPc == {"none", "setup", "sandbox", "python", "exiting", "zombie", "gone"} \cup Reads

TypeOK ==
    /\ host \in {"serving", "closing", "done"}
    /\ pipe \in {"idle", "request", "result", "error", "invalid"}
    /\ code \in Int
    /\ parent \in ParentPc
    /\ pstatus \in 0 .. 255
    /\ handler \in BOOLEAN /\ sigchld \in BOOLEAN
    /\ child \in ChildPc
    /\ cstatus \in [by : {"exit", "signal"}, n : 0 .. 255]
    /\ toChild \in Seq([kind : {"limits", "path"}, size : Nat])

Init ==
    /\ host = "serving" /\ pipe = "idle" /\ code = 0
    /\ parent = "main" /\ pstatus = 0 /\ handler = FALSE /\ sigchld = FALSE
    /\ child = "none" /\ cstatus = [by |-> "exit", n |-> 0]
    /\ toChild = <<>>

-----------------------------------------------------------------------------
(* The parent *)

Forked == parent \notin {"main", "registered"}
ParentAlive == parent # "exited"

\* Mutant of ParentReturns: the code itself, not its low eight bits.
ParentReturnsRaw(n) ==
    /\ parent' = "returning"
    /\ pstatus' = n

\* exit(n), or a return from main.
ParentReturns(n) ==
    /\ parent' = "returning"
    /\ pstatus' = ExitStatus(n)

\* Mutant of Sigaction: the handler is registered after the fork.
SigactionAfterFork ==
    /\ \/ parent = "main" /\ parent' = "registered" /\ UNCHANGED handler
       \/ parent = "getlimits" /\ ~handler /\ handler' = TRUE /\ UNCHANGED parent
    /\ UNCHANGED <<hostVars, pstatus, sigchld, childVars, toChild>>

\* Mutant of Sigaction: the handler is not registered.
SigactionMissing ==
    /\ parent = "main"
    /\ parent' = "registered"
    /\ UNCHANGED <<hostVars, pstatus, handler, sigchld, childVars, toChild>>

\* main up to sigaction: the handler is in place before there is a child.
\* A failing check ends the process before the fork.
Sigaction ==
    /\ parent = "main"
    /\ parent' = "registered" /\ handler' = TRUE
    /\ UNCHANGED <<hostVars, pstatus, sigchld, childVars, toChild>>

MainFails ==
    /\ parent \in {"main", "registered"}
    /\ ParentReturns(1)
    /\ UNCHANGED <<hostVars, handler, sigchld, childVars, toChild>>

Fork ==
    /\ parent = "registered"
    /\ parent' = "getlimits" /\ child' = "setup"
    /\ UNCHANGED <<hostVars, pstatus, handler, sigchld, cstatus, toChild>>

\* trampoline() writes its request ...
Call ==
    /\ parent \in Calls /\ pipe = "idle" /\ host = "serving"
    /\ pipe' = "request"
    /\ UNCHANGED <<host, code, parentVars, sigchld, childVars, toChild>>

\* Mutant of After: the limits are sent last.
AfterPathFirst(call) ==
    CASE call = "getlimits" -> "getpythonpath"
      [] call = "getfs" -> "sendlimits"
      [] call = "getpythonpath" -> "sendpath"

After(call) ==
    CASE call = "getlimits" -> "sendlimits"
      [] call = "getfs" -> "getpythonpath"
      [] call = "getpythonpath" -> "sendpath"

\* ... and blocks in readjson() for the reply.  run_parent goes on after a
\* result with the code 0 and returns any other code as it is, -1 after an error;
\* an invalid response exits.  build_tree, after getfs, exits when it cannot stat
\* a path, and changes no state of this module otherwise.
Reply ==
    /\ parent \in Calls
    /\ \/ pipe = "result" /\ code = 0 /\ parent' = After(parent) /\ UNCHANGED pstatus
       \/ pipe = "result" /\ code = 0 /\ parent = "getfs" /\ ParentReturns(1)
       \/ pipe = "result" /\ code # 0 /\ ParentReturns(code)
       \/ pipe = "error" /\ ParentReturns(-1)
       \/ pipe = "invalid" /\ ParentReturns(EPROTO)
    /\ pipe' = "idle"
    /\ UNCHANGED <<host, code, handler, sigchld, childVars, toChild>>

\* End of file: exit(-errno).  A request written to the closed pipe set errno
\* to EPIPE (32; SIGPIPE is ignored, as inherited from the PHP CLI); when it
\* was written before, nothing sets errno, which trampoline() left at 0.
Eof ==
    /\ parent \in Calls /\ host # "serving"
    /\ \/ pipe = "idle" /\ ParentReturns(-32)
       \/ pipe = "request" /\ ParentReturns(0)
    /\ UNCHANGED <<hostVars, handler, sigchld, childVars, toChild>>

\* The child's end of the socketpair is open until the child's files are
\* closed; a write then fails and run_parent returns -1.
ChildSocketOpen == child \notin {"exiting", "zombie", "gone"}

Datagram(send) ==
    IF send = "sendlimits" THEN [kind |-> "limits", size |-> 3 * IntSize]
    ELSE [kind |-> "path", size |-> IntSize + PathLen]

Send ==
    /\ parent \in Sends
    /\ \/ /\ ChildSocketOpen
          /\ toChild' = Append(toChild, Datagram(parent))
          /\ parent' = IF parent = "sendlimits" THEN "getfs" ELSE "loop"
          /\ UNCHANGED pstatus
       \/ /\ ~ChildSocketOpen
          /\ ParentReturns(-1)
          /\ UNCHANGED toChild
    /\ UNCHANGED <<hostVars, handler, sigchld, childVars>>

ParentExits ==
    /\ parent = "returning"
    /\ parent' = "exited"
    /\ child' = IF child = "zombie" THEN "gone" ELSE child   \* reaped by init
    /\ UNCHANGED <<hostVars, pstatus, handler, sigchld, cstatus, toChild>>

\* Mutant of HandlerStatus: WEXITSTATUS, which is 0 after a signal, of every
\* status.
HandlerStatusOfExit(s) == IF s.by = "exit" THEN s.n ELSE 0

\* sigchld_handler interrupts the parent wherever it is, run_parent's blocking
\* reads included, and exits with the child's status or minus its signal.
HandlerStatus(s) == IF s.by = "exit" THEN s.n ELSE ExitStatus(-s.n)

SigchldHandler ==
    /\ sigchld /\ Forked /\ ParentAlive
    /\ parent' = "exited" /\ pstatus' = HandlerStatus(cstatus)
    /\ sigchld' = FALSE /\ child' = "gone"
    /\ UNCHANGED <<hostVars, handler, cstatus, toChild>>

-----------------------------------------------------------------------------
(* The child *)

ChildExits(n) ==
    /\ child' = "exiting"
    /\ cstatus' = [by |-> "exit", n |-> ExitStatus(n)]

\* main after the fork: close the inherited fds, move the socket to fd 3.
ChildSetup ==
    /\ child = "setup"
    /\ \/ child' = "limits" /\ UNCHANGED cstatus
       \/ ChildExits(-1)
    /\ UNCHANGED <<hostVars, parentVars, sigchld, toChild>>

\* Bytes that each read of run_child asks for, and where it goes on.
Want(pc) ==
    CASE pc = "limits" -> 2 * LongSize
      [] pc = "pathlen" -> IntSize
      [] pc = "path" -> PathLen

AfterRead(pc) ==
    CASE pc = "limits" -> "sandbox"
      [] pc = "pathlen" -> "path"
      [] pc = "path" -> "python"

\* read(RPCSOCK): one datagram, the rest of which is lost.  A short read, or
\* an empty python path, is cleanup with "return -ret".
ReadDatagram ==
    /\ child \in Reads /\ toChild # <<>>
    /\ LET size == Head(toChild).size
           got == IF size < Want(child) THEN size ELSE Want(child)
       IN  IF got = Want(child) /\ ~(child = "pathlen" /\ PathLen = 0)
           THEN child' = AfterRead(child) /\ UNCHANGED cstatus
           ELSE ChildExits(-got)
    /\ toChild' = Tail(toChild)
    /\ UNCHANGED <<hostVars, parentVars, sigchld>>

\* setrlimit, seccomp and the preloader.  A failing call is an exit with its
\* errno (1 here), except that a failing seccomp_init leaves ret at 0.
EnterSandbox ==
    /\ child = "sandbox"
    /\ \/ child' = "pathlen" /\ UNCHANGED cstatus
       \/ \E n \in {0, 1} : ChildExits(n)
    /\ UNCHANGED <<hostVars, parentVars, sigchld, toChild>>

\* The kernel ends the child: CPU limit, memory.
ChildKilled ==
    /\ child \in Reads \cup {"setup", "sandbox"}
    /\ child' = "exiting" /\ cstatus' = [by |-> "signal", n |-> SIGXCPU]
    /\ UNCHANGED <<hostVars, parentVars, sigchld, toChild>>

\* The files are closed first, then the parent is notified.  Without a parent
\* there is nobody to notify; without a handler the signal is ignored.
ChildTerminates ==
    /\ child = "exiting"
    /\ child' = IF ParentAlive THEN "zombie" ELSE "gone"
    /\ sigchld' = (handler /\ ParentAlive)
    /\ UNCHANGED <<hostVars, parentVars, cstatus, toChild>>

-----------------------------------------------------------------------------
(* The host *)

\* A host that speaks trampoline()'s JSON-RPC.  RPCServer::run at this commit
\* does not: it takes every request for "Invalid JSON" and closes, the first
\* of the behaviours below.
HostAnswers ==
    /\ host = "serving" /\ pipe = "request"
    /\ \/ pipe' = "result" /\ code' \in Code
       \/ pipe' \in {"error", "invalid"} /\ UNCHANGED code
    /\ UNCHANGED <<host, parentVars, sigchld, childVars, toChild>>

\* RPCServer::run breaks out of its loop at any time (timeouts, a line it
\* cannot use, end of file); the finally block closes the pipes ...
HostCloses ==
    /\ host = "serving"
    /\ host' = "closing"
    /\ UNCHANGED <<pipe, code, parentVars, sigchld, childVars, toChild>>

\* ... and proc_close waits for the parent.
HostReaps ==
    /\ host = "closing" /\ parent = "exited"
    /\ host' = "done"
    /\ UNCHANGED <<pipe, code, parentVars, sigchld, childVars, toChild>>

\* An exit() in an application's handler skips the finally block, and
\* Sandbox::__destruct kills the parent if it runs.
HostDestructs ==
    /\ host = "serving" /\ pipe = "request"
    /\ host' = "done"
    /\ parent' = "exited"
    /\ pstatus' = IF ParentAlive THEN SIGKILLED ELSE pstatus
    /\ child' = IF child = "zombie" THEN "gone" ELSE child
    /\ UNCHANGED <<pipe, code, handler, sigchld, cstatus, toChild>>

-----------------------------------------------------------------------------
ParentStep ==
    \/ Sigaction \/ MainFails \/ Fork \/ Call \/ Reply \/ Eof \/ Send
    \/ ParentExits \/ SigchldHandler

ChildStep == ChildSetup \/ ReadDatagram \/ EnterSandbox \/ ChildTerminates

Next == ParentStep \/ ChildStep \/ ChildKilled
        \/ HostAnswers \/ HostCloses \/ HostReaps \/ HostDestructs

\* The kernel runs both processes and delivers the signal; the host's select
\* has a timeout of five seconds, so it does not serve an idle parent forever.
Fairness ==
    /\ WF_vars(ParentStep) /\ WF_vars(SigchldHandler) /\ WF_vars(ChildStep)
    /\ WF_vars(HostAnswers) /\ WF_vars(HostCloses) /\ WF_vars(HostReaps)

Spec == Init /\ [][Next]_vars /\ Fairness

-----------------------------------------------------------------------------
(* Properties *)

\* The SIGCHLD of a child that ends is never lost, even when the child ends
\* before the parent has entered run_parent: as long as the child is a zombie
\* the signal is pending.  The handler is the parent's only way out of its
\* request loop, so a lost signal is a parent that never ends.
SigchldNotLost == child = "zombie" /\ ParentAlive => sigchld

\* The status 0 that proc_close returns is the child's own success, or the result
\* of a host that went away first, or a code of the host's that eight bits do not
\* show (run_parent returns a result's code, and exit keeps its low byte); no other
\* failed handshake, signal or early return of run_parent looks like success.
SuccessIsExplained ==
    parent = "exited" /\ pstatus = 0 =>
        \/ host # "serving"
        \/ child = "gone" /\ cstatus.by = "exit" /\ cstatus.n = 0
        \/ pipe = "idle" /\ code # 0 /\ ExitStatus(code) = 0

\* The child never takes one message of the handshake for another: what waits
\* for it while it expects the limits starts with the limits, and past that
\* point only the python path is under way.  Nothing is under way when it asks
\* for the path itself, which came, and went, with the length.
HandshakeOrder ==
    /\ child \in {"setup", "limits"} =>
         /\ Len(toChild) <= 2
         /\ \A i \in DOMAIN toChild : toChild[i].kind = IF i = 1 THEN "limits" ELSE "path"
    /\ child \in {"sandbox", "pathlen"} =>
         /\ Len(toChild) <= 1
         /\ \A i \in DOMAIN toChild : toChild[i].kind = "path"
    /\ child = "path" => toChild = <<>>

\* A child that ends, for whatever reason and wherever the parent is at that
\* moment, ends the parent.
ChildEndsParent == child \in {"exiting", "zombie"} ~> parent = "exited"

\* Sandbox::run returns: proc_close does not wait forever.
HostGetsStatus == <>(host = "done")

\* sandbox-parent.c:79: "Our child expects a string containing the virtual
\* python path, so give that too": once sent, it is received, or the child is
\* at an end.
PathReceived == parent = "loop" ~> child \notin Reads

=============================================================================
