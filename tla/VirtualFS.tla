------------------------------ MODULE VirtualFS ------------------------------
(***************************************************************************)
(* The descriptor layer of the PHP host: the table VirtualFS::$fds, the    *)
(* reference-counted descriptor objects (FDBase, VirtualFD, RealFD, DirFD, *)
(* StatOnlyFD) and the system calls of SyscallHandler that use them.  The  *)
(* RPC loop runs one call at a time, so one action is one whole call, from *)
(* the arguments to the reply.                                             *)
(*                                                                         *)
(* Path resolution appears through its result: Lookup[base][path] is what  *)
(* VirtualFS::getNode finds below a base node.  The contents of files are  *)
(* abstracted to their length, flags to sets of flag names.                *)
(***************************************************************************)
EXTENDS Integers, FiniteSets

CONSTANTS
    MaxFDs,        \* Configuration "MaxFDs"
    MaxReadLength, \* Configuration "MaxReadLength"
    Handle,        \* identities of the descriptor objects that open() creates
    NoFd,          \* an unset entry of $fds
    Node, Root,    \* the nodes of the tree, and its root
    Kind,          \* the class of every node
    Len,           \* bytes of a file, raw entries of a RealDir
    Path,          \* path arguments
    AT_FDCWD, Absent, NotDir,
    Lookup,        \* [Node \cup {AT_FDCWD} -> [Path -> Node \cup {Absent, NotDir}]]
    OpenFlags,     \* flag arguments of open, F_SETFL, F_SETFD
    Lengths,       \* length arguments of read
    Offsets,       \* offset arguments of lseek
    MaxPos,        \* bound on file offsets
    MaxStdRefs     \* bound on the reference count of a StatOnlyFD

VirtualKind == {"VirtualFile", "SinkholeFile", "ZerofillFile", "VirtualDir"}
NodeKind == VirtualKind \cup {"RealFile", "RealDir"}

Std == {"STDIN", "STDOUT", "STDERR"}
Obj == Std \cup Handle
Fd == 0 .. MaxFDs - 1

\* Flags that F_SETFL may set (O_ASYNC is not defined in Constants.php and
\* counts as no flag at all).
SetflFlags == {"O_APPEND", "O_DIRECT", "O_NOATIME", "O_NONBLOCK"}
Flag == SetflFlags \cup {"O_RDWR", "O_CREAT", "O_EXCL", "O_CLOEXEC"}

Errno == {"OK", "EPERM", "ENOENT", "EBADF", "EEXIST", "ENOTDIR", "EISDIR",
          "EINVAL", "EMFILE", "EROFS", "EINTR"}

ASSUME SizesAssumption ==
    /\ MaxFDs \in Nat /\ MaxFDs >= 5
    /\ MaxReadLength \in Nat /\ MaxPos \in Nat /\ MaxStdRefs \in Nat \ {0}
    /\ Lengths \subseteq Nat /\ Offsets \subseteq Int

ASSUME ObjectsAssumption ==
    /\ Std \cap Handle = {} /\ NoFd \notin Obj
    /\ OpenFlags \subseteq SUBSET Flag

ASSUME TreeAssumption ==
    /\ Root \in Node /\ Absent \notin Node /\ NotDir \notin Node
    /\ AT_FDCWD \notin Node /\ AT_FDCWD \notin Int
    /\ Kind \in [Node -> NodeKind] /\ Kind[Root] = "VirtualDir"
    /\ Len \in [Node -> Nat]
    /\ Lookup \in [Node \cup {AT_FDCWD} -> [Path -> Node \cup {Absent, NotDir}]]

VARIABLES
    fds,       \* VirtualFS::$fds
    node,      \* FDBase::$node
    refcount,  \* FDBase::$refcount
    handle,    \* the resource: "open", "failed" (fopen returned false) or
               \* "closed" ($node, or $fh, is null; or no such object)
    pos,       \* VirtualFD::$pos, the offset of RealFD::$fh, DirFD::$off
    fdFlags,   \* FDBase::$fdFlags
    fileFlags, \* FDBase::$fileFlags
    server,    \* "up", or "dead" after a PHP fatal error
    reply      \* code and errno of the last reply

objVars == <<node, refcount, handle, pos, fdFlags, fileFlags>>
vars == <<fds, node, refcount, handle, pos, fdFlags, fileFlags, server, reply>>

TypeOK ==
    /\ fds \in [Fd -> Obj \cup {NoFd}]
    /\ node \in [Obj -> Node]
    /\ refcount \in [Obj -> Nat]
    /\ handle \in [Obj -> {"open", "failed", "closed"}]
    /\ pos \in [Obj -> Nat]
    /\ fdFlags \in [Obj -> SUBSET {"FD_CLOEXEC"}]
    /\ fileFlags \in [Obj -> SUBSET Flag]
    /\ server \in {"up", "dead"}
    /\ reply \in [code : Int, errno : Errno]

StdioTable ==
    [i \in Fd |-> CASE i = 0 -> "STDIN" [] i = 1 -> "STDOUT"
                    [] i = 2 -> "STDERR" [] OTHER -> NoFd]

Init ==
    /\ fds = StdioTable
    /\ node = [o \in Obj |-> Root]
    /\ refcount = [o \in Obj |-> IF o \in Std THEN 1 ELSE 0]
    /\ handle = [o \in Obj |-> IF o \in Std THEN "open" ELSE "closed"]
    /\ pos = [o \in Obj |-> 0]
    /\ fdFlags = [o \in Obj |-> {}]
    /\ fileFlags = [o \in Obj |-> {}]
    /\ server = "up"
    /\ reply = [code |-> 0, errno |-> "OK"]

-----------------------------------------------------------------------------
(* Helpers *)

Least(a, b) == IF a <= b THEN a ELSE b

Class(o) ==
    IF o \in Std THEN "StatOnlyFD"
    ELSE IF Kind[node[o]] \in VirtualKind THEN "VirtualFD"
    ELSE IF Kind[node[o]] = "RealFile" THEN "RealFD" ELSE "DirFD"

\* FDBase::__construct: the descriptor flags that open flags ask for.
Cloexec(flags) == IF "O_CLOEXEC" \in flags THEN {"FD_CLOEXEC"} ELSE {}

IsSet(fd) == fd \in Fd /\ fds[fd] # NoFd

ValidateFd(fd, allowSpecial) ==
    IF fd \in 3 .. 4 \/ (fd \in 0 .. 2 /\ ~allowSpecial) THEN "EPERM"
    ELSE IF IsSet(fd) THEN "OK" ELSE "EBADF"

\* Mutant of FreeFds: the search starts at 3.
FreeFdsFrom3 == {i \in 3 .. MaxFDs - 1 : fds[i] = NoFd}

FreeFds == {i \in 5 .. MaxFDs - 1 : fds[i] = NoFd}

\* Mutant of FirstFree: any free entry will do.
AnyFree(i) == i \in FreeFds

FirstFree(i) == i \in FreeFds /\ \A j \in FreeFds : i <= j

Referenced(o) == \E i \in Fd : fds[i] = o

Reply(code, errno) == reply' = [code |-> code, errno |-> errno]
Fail(errno) == Reply(-1, errno) /\ UNCHANGED <<fds, objVars, server>>
Answer(code) == Reply(code, "OK") /\ UNCHANGED <<fds, objVars, server>>

\* A call on null, or of an undefined method, ends the PHP process.
FatalError == server' = "dead" /\ UNCHANGED <<fds, objVars, reply>>

-----------------------------------------------------------------------------
(* open, openat, dup, close *)

\* What getNode does with the base descriptor: "OK" or the errno it throws.
BaseErrno(base) == IF base = AT_FDCWD THEN "OK" ELSE ValidateFd(base, FALSE)

GetNode(path, base) ==
    Lookup[IF base = AT_FDCWD THEN AT_FDCWD ELSE node[fds[base]]][path]

\* mode is TRUE when the mode argument has a write bit (0222).
OpenErrno(path, flags, mode, base) ==
    IF BaseErrno(base) # "OK" THEN BaseErrno(base)
    ELSE IF GetNode(path, base) = NotDir THEN "ENOTDIR"
    ELSE IF GetNode(path, base) = Absent
         THEN IF "O_CREAT" \in flags /\ mode THEN "EROFS" ELSE "ENOENT"
    ELSE IF flags \cap {"O_CREAT", "O_EXCL"} # {} THEN "EEXIST"
    ELSE IF FreeFds = {} THEN "EMFILE" ELSE "OK"

\* Node::open: the resource of a new object.  fopen of a RealFile can fail,
\* which open() does not notice; opendir of a RealDir is taken to succeed.
OpenOutcomes(n) == IF Kind[n] = "RealFile" THEN {"open", "failed"} ELSE {"open"}

\* Mutant of NewObject: the first entry is not counted.
NewObjectUncounted(o, n, flags) ==
    /\ ~Referenced(o)
    /\ node' = [node EXCEPT ![o] = n]
    /\ refcount' = [refcount EXCEPT ![o] = 0]
    /\ \E h \in OpenOutcomes(n) : handle' = [handle EXCEPT ![o] = h]
    /\ pos' = [pos EXCEPT ![o] = 0]
    /\ fdFlags' = [fdFlags EXCEPT ![o] = Cloexec(flags)]
    /\ fileFlags' = [fileFlags EXCEPT ![o] = flags]

NewObject(o, n, flags) ==
    /\ ~Referenced(o)
    /\ node' = [node EXCEPT ![o] = n]
    /\ refcount' = [refcount EXCEPT ![o] = 1]
    /\ \E h \in OpenOutcomes(n) : handle' = [handle EXCEPT ![o] = h]
    /\ pos' = [pos EXCEPT ![o] = 0]
    /\ fdFlags' = [fdFlags EXCEPT ![o] = Cloexec(flags)]
    /\ fileFlags' = [fileFlags EXCEPT ![o] = flags]

Open(path, flags, mode, base) ==
    LET errno == OpenErrno(path, flags, mode, base) IN
    \/ errno # "OK" /\ Fail(errno)
    \/ /\ errno = "OK"
       /\ \E i \in FreeFds, o \in Handle :
            /\ FirstFree(i)
            /\ NewObject(o, GetNode(path, base), flags)
            /\ fds' = [fds EXCEPT ![i] = o]
            /\ Reply(i, "OK")
       /\ UNCHANGED server

\* VirtualFS::dup.  $maxFds is not the variable that was assigned: the test
\* "$newFd >= $maxFds" compares with null and holds for every $newFd.
DupErrno(oldFd, newFd) ==
    IF ValidateFd(oldFd, TRUE) # "OK" THEN ValidateFd(oldFd, TRUE)
    ELSE IF newFd # 0 THEN "EINVAL"
    ELSE IF FreeFds = {} THEN "EMFILE" ELSE "OK"

\* Mutant of Dup: the entry is copied, the reference count forgotten.
DupUncounted(oldFd, newFd) ==
    LET errno == DupErrno(oldFd, newFd) IN
    \/ errno # "OK" /\ Fail(errno)
    \/ /\ errno = "OK"
       /\ \E i \in FreeFds : FirstFree(i) /\ fds' = [fds EXCEPT ![i] = fds[oldFd]]
                                          /\ Reply(i, "OK")
       /\ UNCHANGED <<objVars, server>>

\* Mutant of Dup: the reference is counted before the search for an entry.
DupCountsFirst(oldFd, newFd) ==
    LET errno == DupErrno(oldFd, newFd) IN
    \/ errno \notin {"OK", "EMFILE"} /\ Fail(errno)
    \/ /\ errno \in {"OK", "EMFILE"}
       /\ refcount[fds[oldFd]] < MaxFDs
       /\ refcount' = [refcount EXCEPT ![fds[oldFd]] = @ + 1]
       /\ \/ FreeFds = {} /\ Reply(-1, "EMFILE") /\ UNCHANGED fds
          \/ \E i \in FreeFds : FirstFree(i) /\ fds' = [fds EXCEPT ![i] = fds[oldFd]]
                                             /\ Reply(i, "OK")
       /\ UNCHANGED <<node, handle, pos, fdFlags, fileFlags, server>>

\* dup(oldFd) is newFd = 0; fcntl(F_DUPFD) passes its argument.
Dup(oldFd, newFd) ==
    LET errno == DupErrno(oldFd, newFd) IN
    \/ errno # "OK" /\ Fail(errno)
    \/ /\ errno = "OK"
       /\ fds[oldFd] \in Std => refcount[fds[oldFd]] < MaxStdRefs
       /\ \E i \in FreeFds :
            /\ FirstFree(i)
            /\ fds' = [fds EXCEPT ![i] = fds[oldFd]]
            /\ refcount' = [refcount EXCEPT ![fds[oldFd]] = @ + 1]
            /\ Reply(i, "OK")
       /\ UNCHANGED <<node, handle, pos, fdFlags, fileFlags, server>>

\* FDBase::close of the object o that fd designates, then unset($fds[fd]).
\* The last count calls closeInternal, which refuses a closed object; the
\* entry is then still set.  An object that no entry refers to any more is
\* destroyed, and its destructor closes what is still open.
CloseObject(fd, o) ==
    LET last == refcount[o] = 1
        thrown == last /\ handle[o] = "closed"
        gone == ~thrown /\ \A j \in Fd \ {fd} : fds[j] # o
    IN  /\ refcount' = [refcount EXCEPT ![o] = @ - 1]
        /\ handle' = [handle EXCEPT ![o] = IF last \/ gone THEN "closed" ELSE @]
        /\ fds' = IF thrown THEN fds ELSE [fds EXCEPT ![fd] = NoFd]
        /\ IF thrown THEN Reply(-1, "EBADF") ELSE Reply(0, "OK")
        /\ node' = IF gone THEN [node EXCEPT ![o] = Root] ELSE node
        /\ pos' = IF gone THEN [pos EXCEPT ![o] = 0] ELSE pos
        /\ fdFlags' = IF gone THEN [fdFlags EXCEPT ![o] = {}] ELSE fdFlags
        /\ fileFlags' = IF gone THEN [fileFlags EXCEPT ![o] = {}] ELSE fileFlags

Close(fd) ==
    LET errno == ValidateFd(fd, FALSE) IN
    \/ errno # "OK" /\ Fail(errno)
    \/ /\ errno = "OK" /\ fds[fd] \in Std
       /\ fds' = [fds EXCEPT ![fd] = NoFd]    \* StatOnlyFD::close is a no-op
       /\ Reply(0, "OK")
       /\ UNCHANGED <<objVars, server>>
    \/ /\ errno = "OK" /\ fds[fd] \in Handle
       /\ CloseObject(fd, fds[fd])
       /\ UNCHANGED server

-----------------------------------------------------------------------------
(* read, lseek, getdents, fstat, poll *)

\* Bytes that a read of n bytes delivers.
Delivered(o, n) ==
    LET rest == IF pos[o] < Len[node[o]] THEN Len[node[o]] - pos[o] ELSE 0 IN
    CASE Kind[node[o]] = "SinkholeFile" -> 0
      [] Kind[node[o]] = "ZerofillFile" -> n
      [] Kind[node[o]] = "VirtualFile" -> Least(n, rest)
      [] Kind[node[o]] = "RealFile" ->
           IF handle[o] = "open" THEN Least(n, rest) ELSE 0

\* How far a read of n bytes moves the offset: VirtualFD::read adds $length.
Advance(o, n) == IF Class(o) = "VirtualFD" THEN n ELSE Delivered(o, n)

\* EPERM, EBADF and EISDIR are thrown by the read of the object's class.
ReadErrno(fd) ==
    IF ValidateFd(fd, FALSE) # "OK" THEN ValidateFd(fd, FALSE)
    ELSE IF fds[fd] \in Std THEN "EPERM"
    ELSE IF handle[fds[fd]] = "closed" THEN "EBADF"
    ELSE IF Class(fds[fd]) = "DirFD" THEN "EISDIR" ELSE "OK"

\* Mutant of Read: the offset moves by the length before it was clamped.
ReadUnclamped(fd, length) ==
    LET errno == ReadErrno(fd)
        o == fds[fd]
    IN
    \/ errno # "OK" /\ Fail(errno)
    \/ /\ errno = "OK" /\ Kind[node[o]] # "VirtualDir"
       /\ pos[o] + length <= MaxPos
       /\ pos' = [pos EXCEPT ![o] = @ + length]
       /\ Reply(Delivered(o, Least(length, MaxReadLength)), "OK")
       /\ UNCHANGED <<fds, node, refcount, handle, fdFlags, fileFlags, server>>

Read(fd, length) ==
    LET errno == ReadErrno(fd)
        o == fds[fd]
        n == Least(length, MaxReadLength)
    IN
    \/ errno # "OK" /\ Fail(errno)
    \/ errno = "OK" /\ Kind[node[o]] = "VirtualDir" /\ FatalError
    \/ /\ errno = "OK" /\ Kind[node[o]] # "VirtualDir"
       /\ pos[o] + Advance(o, n) <= MaxPos
       /\ pos' = [pos EXCEPT ![o] = @ + Advance(o, n)]
       /\ Reply(Delivered(o, n), "OK")
       /\ UNCHANGED <<fds, node, refcount, handle, fdFlags, fileFlags, server>>

SeekTarget(o, offset, whence) ==
    offset + (CASE whence = "SEEK_SET" -> 0
                [] whence = "SEEK_CUR" -> pos[o]
                [] whence = "SEEK_END" -> Len[node[o]])

\* Mutant of SeekErrno: no test for a negative target.
SeekErrnoUnchecked(fd, offset, whence) ==
    IF ValidateFd(fd, FALSE) # "OK" THEN ValidateFd(fd, FALSE)
    ELSE IF whence = "other" THEN "EINVAL"
    ELSE IF fds[fd] \in Std THEN "EPERM" ELSE "OK"

\* whence may be any number: "other" stands for those that are not SEEK_*.
SeekErrno(fd, offset, whence) ==
    IF ValidateFd(fd, FALSE) # "OK" THEN ValidateFd(fd, FALSE)
    ELSE IF whence = "other" THEN "EINVAL"
    ELSE IF fds[fd] \in Std THEN "EPERM"
    ELSE IF handle[fds[fd]] = "closed" THEN "EBADF"
    ELSE IF Class(fds[fd]) = "DirFD"
         THEN IF offset = 0 /\ whence = "SEEK_SET" THEN "OK" ELSE "EINVAL"
    ELSE IF handle[fds[fd]] = "failed" THEN "OK"
    ELSE IF SeekTarget(fds[fd], offset, whence) < 0 THEN "EINVAL" ELSE "OK"

\* A VirtualDir has no getLen method, so SEEK_END on one is a fatal error.
\* RealFD::seek returns the status of fseek, not the offset.
Lseek(fd, offset, whence) ==
    LET errno == SeekErrno(fd, offset, whence)
        o == fds[fd]
        open == ValidateFd(fd, FALSE) = "OK" /\ o \in Handle
        fatal == open /\ whence = "SEEK_END" /\ Kind[node[o]] = "VirtualDir"
                      /\ handle[o] # "closed"
    IN
    \/ fatal /\ FatalError
    \/ ~fatal /\ errno # "OK" /\ Fail(errno)
    \/ ~fatal /\ errno = "OK" /\ handle[o] = "failed" /\ Answer(0)
    \/ /\ ~fatal /\ errno = "OK" /\ handle[o] = "open"
       /\ SeekTarget(o, offset, whence) <= MaxPos
       /\ pos' = [pos EXCEPT ![o] = SeekTarget(o, offset, whence)]
       /\ Reply(IF Class(o) = "VirtualFD" THEN pos'[o] ELSE 0, "OK")
       /\ UNCHANGED <<fds, node, refcount, handle, fdFlags, fileFlags, server>>

\* DirFD::getdents moves $off over the entries it returns and the entries
\* the white list hides; which ones those are is left open here.  Every
\* other class inherits FDBase::getdents, a VirtualDir's VirtualFD too.
Getdents(fd) ==
    LET errno == IF ValidateFd(fd, FALSE) # "OK" THEN ValidateFd(fd, FALSE)
                 ELSE IF Class(fds[fd]) # "DirFD" THEN "ENOTDIR"
                 ELSE IF handle[fds[fd]] = "closed" THEN "EBADF" ELSE "OK"
        o == fds[fd]
    IN
    \/ errno # "OK" /\ Fail(errno)
    \/ /\ errno = "OK"
       /\ \E off \in pos[o] .. Len[node[o]] :
            /\ pos' = [pos EXCEPT ![o] = off]
            /\ \E n \in 0 .. off - pos[o] : Reply(n, "OK")
       /\ UNCHANGED <<fds, node, refcount, handle, fdFlags, fileFlags, server>>

\* RealFD::stat and VirtualFD::stat refuse a closed object, DirFD::stat does not.
Fstat(fd) ==
    LET errno == IF ValidateFd(fd, TRUE) # "OK" THEN ValidateFd(fd, TRUE)
                 ELSE IF handle[fds[fd]] = "closed" /\ Class(fds[fd]) # "DirFD"
                      THEN "EBADF" ELSE "OK"
    IN IF errno = "OK" THEN Answer(0) ELSE Fail(errno)

\* poll of one descriptor.  events holds "POLLIN" or not; a RealFD (a
\* duplicate of stdio is one) is ready or not as stream_select says, and the
\* select fails on a failed fopen (EINTR, not defined in Constants.php, goes
\* out as its name).  The test for POLLNVAL indexes an object as an array, a
\* fatal error.
Poll(fd, events) ==
    LET o == fds[fd]
        virtual == Class(o) = "VirtualFD"
        real == Class(o) \in {"RealFD", "StatOnlyFD"}
        pollin == "POLLIN" \in events
    IN
    \/ fd \in 0 .. 4 /\ Fail("EPERM")
    \/ fd \notin 0 .. 4 /\ ~IsSet(fd) /\ FatalError
    \/ /\ fd \notin 0 .. 4 /\ IsSet(fd)
       /\ \/ /\ virtual /\ pollin
             /\ IF Kind[node[o]] = "VirtualDir" \/ handle[o] = "closed"
                THEN FatalError
                ELSE Answer(IF pos[o] < Len[node[o]] THEN 1 ELSE 0)
          \/ /\ (virtual /\ ~pollin) \/ (real /\ events = {}) \/ Class(o) = "DirFD"
             /\ Answer(0)
          \/ /\ real /\ events # {}
             /\ \/ handle[o] = "open" /\ \E n \in 0 .. 1 : Answer(n)
                \/ Fail("EINTR")

-----------------------------------------------------------------------------
(* fcntl *)

GetFlags(fd) ==
    LET errno == ValidateFd(fd, FALSE) IN
    IF errno = "OK" THEN Answer(0) ELSE Fail(errno)

SetFlags(fd, flags) ==
    LET errno == ValidateFd(fd, FALSE) IN
    \/ errno # "OK" /\ Fail(errno)
    \/ /\ errno = "OK"
       /\ fdFlags' = [fdFlags EXCEPT ![fds[fd]] = flags]
       /\ Reply(0, "OK")
       /\ UNCHANGED <<fds, node, refcount, handle, pos, fileFlags, server>>

\* FDBase::setMode: the flags, computed as the code computes them: mode &=
\* settable; mask = ~(old ^ mode); new = (old & mask) | mode.
NewFileFlags(old, arg) ==
    LET mode == arg \cap SetflFlags
        changed == (old \ mode) \cup (mode \ old)
    IN  (old \ changed) \cup mode

SetMode(fd, arg) ==
    LET errno == ValidateFd(fd, FALSE) IN
    \/ errno # "OK" /\ Fail(errno)
    \/ /\ errno = "OK"
       /\ fileFlags' = [fileFlags EXCEPT ![fds[fd]] = NewFileFlags(@, arg)]
       /\ Reply(0, "OK")
       /\ UNCHANGED <<fds, node, refcount, handle, pos, fdFlags, server>>

\* Every other command.
FcntlOther == Fail("EINVAL")

-----------------------------------------------------------------------------
\* Descriptor arguments: also -1 and one past the table.
FdArg == -1 .. MaxFDs
Whence == {"SEEK_SET", "SEEK_CUR", "SEEK_END", "other"}

Next ==
    /\ server = "up"
    /\ \/ \E path \in Path, flags \in OpenFlags, mode \in BOOLEAN,
             base \in FdArg \cup {AT_FDCWD} : Open(path, flags, mode, base)
       \/ \E fd \in FdArg, newFd \in {0, 5} : Dup(fd, newFd)
       \/ \E fd \in FdArg : Close(fd)
       \/ \E fd \in FdArg, length \in Lengths : Read(fd, length)
       \/ \E fd \in FdArg, offset \in Offsets, whence \in Whence :
             Lseek(fd, offset, whence)
       \/ \E fd \in FdArg : Getdents(fd)
       \/ \E fd \in FdArg : Fstat(fd)
       \/ \E fd \in FdArg, events \in SUBSET {"POLLIN", "POLLOUT"} : Poll(fd, events)
       \/ \E fd \in FdArg : GetFlags(fd)
       \/ \E fd \in FdArg, arg \in OpenFlags : SetFlags(fd, Cloexec(arg))
       \/ \E fd \in FdArg, arg \in OpenFlags : SetMode(fd, arg)
       \/ FcntlOther

Spec == Init /\ [][Next]_vars

-----------------------------------------------------------------------------
(* Properties *)

\* The reference count that FDBase::dup and FDBase::close keep by hand is the
\* number of entries of $fds that hold the object; a StatOnlyFD, whose close
\* is a no-op, only ever over-counts.
RefcountExact ==
    /\ \A o \in Handle : refcount[o] = Cardinality({i \in Fd : fds[i] = o})
    /\ \A o \in Std : refcount[o] >= 1

\* closeInternal runs with the last close and not before: an object that some
\* descriptor designates still has its node or its file handle, so no valid
\* descriptor answers EBADF, and a resource no descriptor designates is closed.
OpenIffReferenced ==
    \A o \in Handle : handle[o] # "closed" <=> Referenced(o)

\* fds 0-2 always designate the three StatOnlyFD objects, whatever duplicates
\* of them are closed, and fds 3-4 (the RPC pipes of the child) are never
\* handed out by open or dup.
StdioPinned ==
    /\ \A i \in 0 .. 4 : fds[i] = StdioTable[i]
    /\ \A o \in Std : handle[o] = "open"

\* A call that answers with an errno has changed no descriptor, count, offset
\* or flag (closeInternal, thrown from after the decrement in FDBase::close,
\* would be the exception).
ErrorsLeaveNoTrace ==
    [][reply'.errno # "OK" => UNCHANGED <<fds, objVars>>]_vars

\* A read skips no byte of a file: everything between the old and the new
\* offset, up to the end of the file, was delivered, also when the length was
\* clamped to MaxReadLength or the read was short.
NoBytesSkipped ==
    [][\A fd \in FdArg, length \in Lengths :
         LET o == fds[fd] IN
         (/\ Read(fd, length) /\ reply'.errno = "OK" /\ server' = "up"
          /\ Kind[node[o]] \in {"VirtualFile", "RealFile"})
         => reply'.code =
              IF pos[o] < Len[node[o]]
              THEN Least(pos'[o], Len[node[o]]) - pos[o] ELSE 0]_vars

\* The descriptor layer implements the descriptor table a process expects.
Table == INSTANCE DescriptorTable WITH
    Size <- MaxFDs, First <- 5, Description <- Handle, None <- NoFd,
    Initial <- StdioTable, table <- fds,
    open <- {o \in Handle : handle[o] # "closed"},
    verdict <- IF reply.errno \in {"OK", "EMFILE"} THEN reply.errno ELSE "refused"

\* Every call is a step of DescriptorTable: open and dup hand out the lowest
\* free descriptor from 5 on, only the last close of an object closes it, and
\* EMFILE is the answer of a full table only.
ImplementsTable == Table!Spec

=============================================================================
