----------------------------- MODULE MCRequests -----------------------------
(* System calls and datagrams for Requests, with the numbers of x86_64. *)
EXTENDS Requests

\* The numbers of the kernel, with a call that syscalls[] does not reach.
MCNumber == [name \in DOMAIN x86_64 \cup {"new"} |-> IF name = "new" THEN 400 ELSE x86_64[name]]

Sys(name, fd, cmd, flags) ==
    [nr |-> MCNumber[name], name |-> name, fd |-> fd, cmd |-> cmd, flags |-> flags]

\* Every call with a stub, calls without, an unknown number, mappings of every kind,
\* the two uses of rt_sigaction, and signals blocked and unblocked.
MCSyscall ==
    {Sys(name, 5, "", {}) : name \in arg_map}
    \cup {Sys("getpid", 0, "", {}), Sys("exit_group", 0, "", {}), Sys("rt_sigaction", SIGTERM, "set", {}),
          Sys("rt_sigaction", SIGSYS, "set", {}), Sys("mmap", 5, "", {"MAP_PRIVATE"}),
          Sys("mmap", 5, "", {"MAP_SHARED"}),
          Sys("rt_sigprocmask", SIGTERM, "block", {}), Sys("rt_sigprocmask", SIGTERM, "unblock", {}),
          Sys("rt_sigprocmask", SIGSYS, "block", {}), Sys("new", 0, "", {})}

Datagram(size, ns, nr, s, array) == [size |-> size, ns |-> ns, nr |-> nr, str |-> s, array |-> array]

\* Headers of four bytes, which the loop accepts, the data behind them, and a
\* header of six.
MCRaw ==
    {Datagram(4, NS_SYS, 2, 1, FALSE), Datagram(4, NS_SYS, 3, 2, FALSE), Datagram(4, NS_SYS, 322, 1, FALSE),
     Datagram(4, 1, 5, 1, TRUE), Datagram(4, 1, 65535, 1, FALSE), Datagram(4, 1, 256, 1, FALSE),
     Datagram(4, 1, 0, 1, FALSE), Datagram(256, 1, 5, 3, FALSE),
     Datagram(6, 1, 5, 1, FALSE), Datagram(70000, 1, 5, 65535, TRUE), Datagram(70000, 1, 5, 3, FALSE)}
===============================================================================
