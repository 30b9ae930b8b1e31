--------------------------- MODULE VirtualFSProofs ---------------------------
(***************************************************************************)
(* Proofs about VirtualFS: the type invariant, the exact reference counts, *)
(* the resources that live exactly as long as a descriptor designates      *)
(* them, and the pinned stdio descriptors, for every size of the table,    *)
(* every tree and every set of arguments.                                  *)
(***************************************************************************)
EXTENDS VirtualFS, FiniteSetTheorems, TLAPS

\* The entries of table f that hold o.
Holders(f, o) == {i \in Fd : f[i] = o}

\* The invariant that is inductive: each part needs the others.
IInv == TypeOK /\ RefcountExact /\ OpenIffReferenced /\ StdioPinned

\* The descriptors are finite in number, so their subsets have a cardinality.
LEMMA HoldersFinite ==
    ASSUME NEW f, NEW o
    PROVE  /\ IsFiniteSet(Holders(f, o))
           /\ Cardinality(Holders(f, o)) \in Nat
           /\ Cardinality(Holders(f, o)) = 0 <=> Holders(f, o) = {}
<1>1. IsFiniteSet(Fd)
  BY FS_Interval, SizesAssumption DEF Fd
<1>2. IsFiniteSet(Holders(f, o))
  BY <1>1, FS_Subset DEF Holders
<1>. QED
  BY <1>2, FS_CardinalityType, FS_EmptySet

\* Setting a free entry to o (open, dup) adds one holder of o and changes the
\* holders of no other object.
LEMMA HoldersAdd ==
    ASSUME NEW f \in [Fd -> Obj \cup {NoFd}], NEW i \in Fd, f[i] = NoFd,
           NEW o \in Obj
    PROVE  LET g == [f EXCEPT ![i] = o] IN
           /\ Cardinality(Holders(g, o)) = Cardinality(Holders(f, o)) + 1
           /\ \A p \in Obj \ {o} : Holders(g, p) = Holders(f, p)
<1>. DEFINE g == [f EXCEPT ![i] = o]
<1>1. i \notin Holders(f, o)
  BY ObjectsAssumption DEF Holders
<1>2. Holders(g, o) = Holders(f, o) \cup {i}
  BY DEF Holders
<1>3. Cardinality(Holders(g, o)) = Cardinality(Holders(f, o)) + 1
  BY <1>1, <1>2, HoldersFinite, FS_AddElement
<1>4. \A p \in Obj \ {o} : Holders(g, p) = Holders(f, p)
  BY ObjectsAssumption DEF Holders
<1>. QED
  BY <1>3, <1>4

\* Unsetting an entry that held o (close) removes one holder of o and changes
\* the holders of no other object.
LEMMA HoldersRemove ==
    ASSUME NEW f \in [Fd -> Obj \cup {NoFd}], NEW i \in Fd,
           NEW o \in Obj, f[i] = o
    PROVE  LET g == [f EXCEPT ![i] = NoFd] IN
           /\ Cardinality(Holders(g, o)) = Cardinality(Holders(f, o)) - 1
           /\ Cardinality(Holders(f, o)) >= 1
           /\ \A p \in Obj \ {o} : Holders(g, p) = Holders(f, p)
<1>. DEFINE g == [f EXCEPT ![i] = NoFd]
<1>1. i \in Holders(f, o)
  BY DEF Holders
<1>2. Holders(g, o) = Holders(f, o) \ {i}
  BY ObjectsAssumption DEF Holders
<1>3. Cardinality(Holders(g, o)) = Cardinality(Holders(f, o)) - 1
  <2>1. IsFiniteSet(Holders(f, o))
    BY HoldersFinite
  <2>2. Cardinality(Holders(f, o) \ {i}) = Cardinality(Holders(f, o)) - 1
    BY <1>1, <2>1, FS_RemoveElement
  <2>. QED
    BY <1>2, <2>2
<1>4. Cardinality(Holders(f, o)) >= 1
  BY <1>1, HoldersFinite
<1>5. \A p \in Obj \ {o} : Holders(g, p) = Holders(f, p)
  BY ObjectsAssumption DEF Holders
<1>. QED
  BY <1>3, <1>4, <1>5

\* A holder is a reference.
LEMMA HoldersReferenced ==
    \A o : Referenced(o) <=> Holders(fds, o) # {}
BY DEF Referenced, Holders

\* The initial table holds the stdio objects only.
THEOREM InitInv == Init => IInv
<1>. SUFFICES ASSUME Init PROVE IInv
  OBVIOUS
<1>1. TypeOK
  BY SizesAssumption, ObjectsAssumption, TreeAssumption
  DEF Init, TypeOK, StdioTable, Obj, Std, Fd, Errno
<1>2. \A o \in Handle : Holders(fds, o) = {}
  BY ObjectsAssumption DEF Init, StdioTable, Obj, Std, Holders
<1>3. RefcountExact
  <2>1. ASSUME NEW o \in Handle PROVE refcount[o] = Cardinality(Holders(fds, o))
    BY <1>2, HoldersFinite, ObjectsAssumption DEF Init, Obj
  <2>. QED
    BY <2>1 DEF Init, RefcountExact, Obj, Holders
<1>4. OpenIffReferenced
  BY <1>2, HoldersReferenced, ObjectsAssumption DEF Init, OpenIffReferenced, Obj
<1>5. StdioPinned
  BY DEF Init, StdioPinned, Obj
<1>. QED
  BY <1>1, <1>3, <1>4, <1>5 DEF IInv

-----------------------------------------------------------------------------
(* The steps that leave the table, the counts and the resources alone *)

\* Only open, dup and close can disturb more than the types.
LEMMA Frame ==
    ASSUME IInv, TypeOK', UNCHANGED <<fds, refcount, handle>>
    PROVE  IInv'
BY DEF IInv, RefcountExact, OpenIffReferenced, StdioPinned, Referenced

\* ValidateFd answers with an errno, and with "OK" for a set entry only.
LEMMA ValidateFdResult ==
    ASSUME NEW fd, NEW special \in BOOLEAN
    PROVE  /\ ValidateFd(fd, special) \in {"OK", "EPERM", "EBADF"}
           /\ ValidateFd(fd, special) = "OK" => IsSet(fd)
           /\ ValidateFd(fd, FALSE) = "OK" => fd \notin 0 .. 4
BY DEF ValidateFd, IsSet

\* A set entry holds an object, and its fields have their types.
LEMMA SetFdObject ==
    ASSUME TypeOK, NEW fd, IsSet(fd)
    PROVE  /\ fd \in Fd
           /\ fds[fd] \in Obj
           /\ node[fds[fd]] \in Node
           /\ pos[fds[fd]] \in Nat
           /\ Len[node[fds[fd]]] \in Nat
           /\ Kind[node[fds[fd]]] \in NodeKind
BY TreeAssumption DEF TypeOK, IsSet

\* Replies without any other change preserve the types.
LEMMA FailType ==
    ASSUME TypeOK, NEW errno \in Errno, Fail(errno)
    PROVE  TypeOK' /\ UNCHANGED <<fds, refcount, handle>>
BY DEF TypeOK, Fail, Reply, objVars

LEMMA AnswerType ==
    ASSUME TypeOK, NEW code \in Int, Answer(code)
    PROVE  TypeOK' /\ UNCHANGED <<fds, refcount, handle>>
BY DEF TypeOK, Answer, Reply, objVars, Errno

LEMMA FatalType ==
    ASSUME TypeOK, FatalError
    PROVE  TypeOK' /\ UNCHANGED <<fds, refcount, handle>>
BY DEF TypeOK, FatalError, objVars

\* A step that only moves one offset, to a natural number.
LEMMA MoveType ==
    ASSUME TypeOK, NEW o \in Obj, NEW p \in Nat, NEW code \in Int,
           pos' = [pos EXCEPT ![o] = p], Reply(code, "OK"),
           UNCHANGED <<fds, node, refcount, handle, fdFlags, fileFlags, server>>
    PROVE  TypeOK' /\ UNCHANGED <<fds, refcount, handle>>
BY DEF TypeOK, Reply, Errno

LEMMA ReadStep ==
    ASSUME IInv, NEW fd \in FdArg, NEW length \in Lengths, Read(fd, length)
    PROVE  IInv'
<1>. DEFINE o == fds[fd]
            n == Least(length, MaxReadLength)
<1>0. TypeOK /\ n \in Nat
  BY SizesAssumption DEF IInv, Least
<1>1. ReadErrno(fd) \in Errno
  BY ValidateFdResult DEF ReadErrno, Errno
<1>2. CASE ReadErrno(fd) # "OK" /\ Fail(ReadErrno(fd))
  BY <1>0, <1>1, <1>2, FailType, Frame
<1>3. CASE FatalError
  BY <1>0, <1>3, FatalType, Frame
<1>4. CASE /\ ReadErrno(fd) = "OK" /\ Kind[node[o]] # "VirtualDir"
           /\ pos' = [pos EXCEPT ![o] = @ + Advance(o, n)]
           /\ Reply(Delivered(o, n), "OK")
           /\ UNCHANGED <<fds, node, refcount, handle, fdFlags, fileFlags, server>>
  <2>1. IsSet(fd) /\ o \notin Std /\ Class(o) # "DirFD"
    BY <1>4, ValidateFdResult DEF ReadErrno
  <2>2. /\ o \in Obj /\ pos[o] \in Nat /\ Len[node[o]] \in Nat
        /\ Kind[node[o]] \in NodeKind
    BY <1>0, <2>1, SetFdObject
  <2>3. Kind[node[o]] \in {"VirtualFile", "SinkholeFile", "ZerofillFile", "RealFile"}
    BY <1>4, <2>1, <2>2 DEF Class, NodeKind, VirtualKind
  <2>4. Delivered(o, n) \in Nat
    <3>1. Least(n, IF pos[o] < Len[node[o]] THEN Len[node[o]] - pos[o] ELSE 0) \in Nat
      BY <1>0, <2>2 DEF Least
    <3>. HIDE DEF n, o
    <3>. QED
      BY <1>0, <2>3, <3>1 DEF Delivered
  <2>5. Advance(o, n) \in Nat
    BY <1>0, <2>4 DEF Advance
  <2>6. pos' = [pos EXCEPT ![o] = pos[o] + Advance(o, n)]
    BY <1>4
  <2>7. pos[o] + Advance(o, n) \in Nat
    BY <2>2, <2>5
  <2>8. Delivered(o, n) \in Int
    BY <2>4
  <2>. DEFINE p == pos[o] + Advance(o, n)
              code == Delivered(o, n)
  <2>9. /\ p \in Nat /\ code \in Int
        /\ pos' = [pos EXCEPT ![o] = p] /\ Reply(code, "OK")
    BY <1>4, <2>6, <2>7, <2>8
  <2>. HIDE DEF p, code, n, o
  <2>. QED
    BY <1>0, <1>4, <2>2, <2>9, MoveType, Frame
<1>. QED
  BY <1>2, <1>3, <1>4 DEF Read

LEMMA LseekStep ==
    ASSUME IInv, NEW fd \in FdArg, NEW offset \in Offsets, NEW whence \in Whence,
           Lseek(fd, offset, whence)
    PROVE  IInv'
<1>. DEFINE o == fds[fd]
            t == SeekTarget(o, offset, whence)
            errno == SeekErrno(fd, offset, whence)
<1>0. TypeOK /\ offset \in Int
  BY SizesAssumption DEF IInv
<1>1. errno \in Errno
  BY ValidateFdResult DEF SeekErrno, Errno
<1>2. CASE errno # "OK" /\ Fail(errno)
  BY <1>0, <1>1, <1>2, FailType, Frame
<1>3. CASE FatalError
  BY <1>0, <1>3, FatalType, Frame
<1>4. CASE Answer(0)
  BY <1>0, <1>4, AnswerType, Frame
<1>5. CASE /\ errno = "OK" /\ handle[o] = "open"
           /\ pos' = [pos EXCEPT ![o] = t]
           /\ Reply(IF Class(o) = "VirtualFD" THEN pos'[o] ELSE 0, "OK")
           /\ UNCHANGED <<fds, node, refcount, handle, fdFlags, fileFlags, server>>
  <2>1. IsSet(fd) /\ whence # "other"
    BY <1>5, ValidateFdResult DEF SeekErrno
  <2>2. o \in Obj /\ pos[o] \in Nat /\ Len[node[o]] \in Nat
    BY <1>0, <2>1, SetFdObject
  <2>3. t \in Int
    BY <1>0, <2>1, <2>2 DEF SeekTarget, Whence
  <2>4. t >= 0
    <3>1. CASE Class(o) = "DirFD"
      <4>1. offset = 0 /\ whence = "SEEK_SET"
        BY <1>5, <3>1 DEF SeekErrno
      <4>. QED
        BY <4>1 DEF SeekTarget
    <3>2. CASE Class(o) # "DirFD"
      <4>1. ~(t < 0)
        BY <1>5, <3>2 DEF SeekErrno
      <4>. QED
        BY <4>1, <2>3
    <3>. QED
      BY <3>1, <3>2
  <2>5. t \in Nat
    BY <2>3, <2>4
  <2>6. pos'[o] = t
    BY <1>0, <1>5, <2>2 DEF TypeOK
  <2>7. (IF Class(o) = "VirtualFD" THEN pos'[o] ELSE 0) \in Int
    BY <2>3, <2>6
  <2>. HIDE DEF t, o
  <2>. QED
    BY <1>0, <1>5, <2>2, <2>5, <2>7, MoveType, Frame
<1>. QED
  BY <1>2, <1>3, <1>4, <1>5 DEF Lseek

LEMMA GetdentsStep ==
    ASSUME IInv, NEW fd \in FdArg, Getdents(fd)
    PROVE  IInv'
<1>. DEFINE o == fds[fd]
            errno == IF ValidateFd(fd, FALSE) # "OK" THEN ValidateFd(fd, FALSE)
                     ELSE IF Class(o) # "DirFD" THEN "ENOTDIR"
                     ELSE IF handle[o] = "closed" THEN "EBADF" ELSE "OK"
<1>0. TypeOK
  BY DEF IInv
<1>1. errno \in Errno
  BY ValidateFdResult DEF Errno
<1>2. CASE errno # "OK" /\ Fail(errno)
  BY <1>0, <1>1, <1>2, FailType, Frame
<1>3. CASE /\ errno = "OK"
           /\ \E off \in pos[o] .. Len[node[o]] :
                /\ pos' = [pos EXCEPT ![o] = off]
                /\ \E n \in 0 .. off - pos[o] : Reply(n, "OK")
           /\ UNCHANGED <<fds, node, refcount, handle, fdFlags, fileFlags, server>>
  <2>1. o \in Obj /\ pos[o] \in Nat /\ Len[node[o]] \in Nat
    BY <1>0, <1>3, ValidateFdResult, SetFdObject
  <2>2. PICK off \in pos[o] .. Len[node[o]] :
          /\ pos' = [pos EXCEPT ![o] = off]
          /\ \E n \in 0 .. off - pos[o] : Reply(n, "OK")
    BY <1>3
  <2>3. PICK n \in 0 .. off - pos[o] : Reply(n, "OK")
    BY <2>2
  <2>4. off \in Nat /\ n \in Int
    BY <2>1
  <2>. QED
    BY <1>0, <1>3, <2>1, <2>2, <2>3, <2>4, MoveType, Frame
<1>. QED
  BY <1>2, <1>3 DEF Getdents

\* fstat, poll and the queries of fcntl change nothing but the reply.
LEMMA QueryStep ==
    ASSUME IInv, NEW fd \in FdArg, NEW events,
           Fstat(fd) \/ Poll(fd, events) \/ GetFlags(fd) \/ FcntlOther
    PROVE  IInv'
<1>0. TypeOK
  BY DEF IInv
<1>1. ASSUME NEW errno \in Errno, Fail(errno) PROVE IInv'
  BY <1>0, <1>1, FailType, Frame
<1>2. ASSUME NEW code \in Int, Answer(code) PROVE IInv'
  BY <1>0, <1>2, AnswerType, Frame
<1>3. CASE FatalError
  BY <1>0, <1>3, FatalType, Frame
<1>4. CASE Fstat(fd)
  <2>. DEFINE errno == IF ValidateFd(fd, TRUE) # "OK" THEN ValidateFd(fd, TRUE)
                       ELSE IF handle[fds[fd]] = "closed" /\ Class(fds[fd]) # "DirFD"
                            THEN "EBADF" ELSE "OK"
  <2>1. errno \in Errno
    BY ValidateFdResult DEF Errno
  <2>2. Answer(0) \/ Fail(errno)
    BY <1>4 DEF Fstat
  <2>. HIDE DEF errno
  <2>. QED
    BY <1>1, <1>2, <2>1, <2>2
<1>5. CASE Poll(fd, events)
  BY <1>1, <1>2, <1>3, <1>5 DEF Poll, Errno
<1>6. CASE GetFlags(fd)
  <2>. DEFINE errno == ValidateFd(fd, FALSE)
  <2>1. errno \in Errno
    BY ValidateFdResult DEF Errno
  <2>2. Answer(0) \/ Fail(errno)
    BY <1>6 DEF GetFlags
  <2>. HIDE DEF errno
  <2>. QED
    BY <1>1, <1>2, <2>1, <2>2
<1>7. CASE FcntlOther
  BY <1>1, <1>7 DEF FcntlOther, Errno
<1>. QED
  BY <1>4, <1>5, <1>6, <1>7

LEMMA SetFlagsStep ==
    ASSUME IInv, NEW fd \in FdArg, NEW flags \in SUBSET {"FD_CLOEXEC"},
           SetFlags(fd, flags)
    PROVE  IInv'
<1>0. TypeOK
  BY DEF IInv
<1>1. CASE ValidateFd(fd, FALSE) # "OK" /\ Fail(ValidateFd(fd, FALSE))
  BY <1>0, <1>1, ValidateFdResult, FailType, Frame DEF Errno
<1>2. CASE /\ fdFlags' = [fdFlags EXCEPT ![fds[fd]] = flags]
           /\ Reply(0, "OK")
           /\ UNCHANGED <<fds, node, refcount, handle, pos, fileFlags, server>>
  <2>0. fdFlags' \in [Obj -> SUBSET {"FD_CLOEXEC"}]
    BY <1>0, <1>2 DEF TypeOK
  <2>1. TypeOK'
    BY <1>0, <1>2, <2>0 DEF TypeOK, Reply, Errno
  <2>. QED
    BY <1>2, <2>1, Frame
<1>. QED
  BY <1>1, <1>2 DEF SetFlags

LEMMA SetModeStep ==
    ASSUME IInv, NEW fd \in FdArg, NEW arg \in OpenFlags, SetMode(fd, arg)
    PROVE  IInv'
<1>0. TypeOK
  BY DEF IInv
<1>1. CASE ValidateFd(fd, FALSE) # "OK" /\ Fail(ValidateFd(fd, FALSE))
  BY <1>0, <1>1, ValidateFdResult, FailType, Frame DEF Errno
<1>2. CASE /\ ValidateFd(fd, FALSE) = "OK"
           /\ fileFlags' = [fileFlags EXCEPT ![fds[fd]] = NewFileFlags(@, arg)]
           /\ Reply(0, "OK")
           /\ UNCHANGED <<fds, node, refcount, handle, pos, fdFlags, server>>
  <2>1. fds[fd] \in Obj
    BY <1>0, <1>2, ValidateFdResult, SetFdObject
  <2>2. NewFileFlags(fileFlags[fds[fd]], arg) \in SUBSET Flag
    BY <1>0, <2>1, ObjectsAssumption DEF TypeOK, NewFileFlags, SetflFlags, Flag
  <2>3. TypeOK'
    BY <1>0, <1>2, <2>1, <2>2 DEF TypeOK, Reply, Errno
  <2>. QED
    BY <1>2, <2>3, Frame
<1>. QED
  BY <1>1, <1>2 DEF SetMode

-----------------------------------------------------------------------------
(* open, dup and close *)

\* What an allocation picks is an unset entry above the stdio entries.
LEMMA FreeFdUnset ==
    ASSUME NEW i \in FreeFds
    PROVE  i \in Fd /\ i \in 5 .. MaxFDs - 1 /\ fds[i] = NoFd
BY SizesAssumption DEF FreeFds, Fd

\* A step of open, once it is allowed.
LEMMA OpenAllocates ==
    ASSUME IInv, NEW i \in FreeFds, NEW o \in Handle, NEW n \in Node,
           NEW flags \in SUBSET Flag, NewObject(o, n, flags),
           fds' = [fds EXCEPT ![i] = o], Reply(i, "OK"), UNCHANGED server
    PROVE  IInv'
<1>0. /\ TypeOK /\ i \in Fd /\ i \in 5 .. MaxFDs - 1 /\ fds[i] = NoFd
      /\ o \in Obj /\ o \notin Std
  BY FreeFdUnset, ObjectsAssumption DEF IInv, Obj
<1>1. PICK h \in {"open", "failed"} : handle' = [handle EXCEPT ![o] = h]
  BY DEF NewObject, OpenOutcomes
<1>2. Cloexec(flags) \in SUBSET {"FD_CLOEXEC"}
  BY DEF Cloexec
<1>3. TypeOK'
  BY <1>0, <1>1, <1>2 DEF TypeOK, NewObject, Reply, Errno
<1>4. /\ Cardinality(Holders(fds', o)) = Cardinality(Holders(fds, o)) + 1
      /\ \A p \in Obj \ {o} : Holders(fds', p) = Holders(fds, p)
  <2>1. fds \in [Fd -> Obj \cup {NoFd}]
    BY <1>0 DEF TypeOK
  <2>2. LET g == [fds EXCEPT ![i] = o] IN
        /\ Cardinality(Holders(g, o)) = Cardinality(Holders(fds, o)) + 1
        /\ \A p \in Obj \ {o} : Holders(g, p) = Holders(fds, p)
    BY ONLY <1>0, <2>1, HoldersAdd
  <2>. QED
    BY <2>2
<1>5. Cardinality(Holders(fds, o)) = 0
  BY HoldersReferenced, HoldersFinite DEF NewObject
<1>6. RefcountExact'
  <2>1. ASSUME NEW p \in Handle PROVE refcount'[p] = Cardinality(Holders(fds', p))
    <3>1. refcount[p] = Cardinality(Holders(fds, p))
      BY DEF IInv, RefcountExact, Holders
    <3>2. CASE p = o
      BY <1>0, <1>4, <1>5, <3>2 DEF TypeOK, NewObject
    <3>3. CASE p # o
      BY <1>0, <1>4, <3>1, <3>3 DEF TypeOK, NewObject, Obj
    <3>. QED
      BY <3>2, <3>3
  <2>2. ASSUME NEW p \in Std PROVE refcount'[p] >= 1
    BY <1>0 DEF IInv, RefcountExact, TypeOK, NewObject, Obj
  <2>. QED
    BY <2>1, <2>2 DEF RefcountExact, Holders
<1>7. OpenIffReferenced'
  <2>1. ASSUME NEW p \in Handle PROVE handle'[p] # "closed" <=> Referenced(p)'
    <3>1. CASE p = o
      BY <1>0, <1>1, <3>1 DEF TypeOK, Referenced
    <3>2. CASE p # o
      <4>1. handle'[p] = handle[p]
        BY <1>0, <1>1, <3>2 DEF TypeOK, Obj
      <4>2. Referenced(p)' <=> Referenced(p)
        BY <1>0, <1>4, <3>2 DEF Referenced, Holders, Obj
      <4>. QED
        BY <4>1, <4>2 DEF IInv, OpenIffReferenced
    <3>. QED
      BY <3>1, <3>2
  <2>. QED
    BY <2>1 DEF OpenIffReferenced
<1>8. StdioPinned'
  BY <1>0, <1>1, SizesAssumption DEF IInv, StdioPinned, TypeOK, Fd, Obj
<1>. QED
  BY <1>3, <1>6, <1>7, <1>8 DEF IInv

\* What open finds: a node, unless OpenErrno says otherwise.
LEMMA OpenFinds ==
    ASSUME TypeOK, NEW path \in Path, NEW flags, NEW mode,
           NEW base \in FdArg \cup {AT_FDCWD},
           OpenErrno(path, flags, mode, base) = "OK"
    PROVE  GetNode(path, base) \in Node
<1>1. /\ BaseErrno(base) = "OK"
      /\ GetNode(path, base) # NotDir /\ GetNode(path, base) # Absent
  BY DEF OpenErrno
<1>2. CASE base = AT_FDCWD
  BY <1>1, <1>2, TreeAssumption DEF GetNode
<1>3. CASE base # AT_FDCWD
  <2>1. IsSet(base)
    BY <1>1, <1>3, ValidateFdResult DEF BaseErrno
  <2>2. node[fds[base]] \in Node
    BY <2>1, SetFdObject
  <2>. QED
    BY <1>1, <1>3, <2>2, TreeAssumption DEF GetNode
<1>. QED
  BY <1>2, <1>3

LEMMA OpenStep ==
    ASSUME IInv, NEW path \in Path, NEW flags \in OpenFlags, NEW mode \in BOOLEAN,
           NEW base \in FdArg \cup {AT_FDCWD}, Open(path, flags, mode, base)
    PROVE  IInv'
<1>. DEFINE errno == OpenErrno(path, flags, mode, base)
<1>0. TypeOK /\ flags \in SUBSET Flag
  BY ObjectsAssumption DEF IInv
<1>1. errno \in Errno
  BY ValidateFdResult DEF OpenErrno, BaseErrno, Errno
<1>2. CASE errno # "OK" /\ Fail(errno)
  BY <1>0, <1>1, <1>2, FailType, Frame
<1>3. CASE errno = "OK" /\ ~(errno # "OK" /\ Fail(errno))
  <2>1. PICK i \in FreeFds, o \in Handle :
          /\ NewObject(o, GetNode(path, base), flags)
          /\ fds' = [fds EXCEPT ![i] = o]
          /\ Reply(i, "OK")
          /\ UNCHANGED server
    BY <1>3 DEF Open
  <2>2. GetNode(path, base) \in Node
    BY <1>0, <1>3, OpenFinds
  <2>. QED
    BY <1>0, <2>1, <2>2, OpenAllocates
<1>. QED
  BY <1>2, <1>3 DEF Open

\* A step of dup, once it is allowed.
LEMMA DupAllocates ==
    ASSUME IInv, NEW i \in FreeFds, NEW o \in Obj, Referenced(o),
           fds' = [fds EXCEPT ![i] = o],
           refcount' = [refcount EXCEPT ![o] = refcount[o] + 1], Reply(i, "OK"),
           UNCHANGED <<node, handle, pos, fdFlags, fileFlags, server>>
    PROVE  IInv'
<1>0. TypeOK /\ i \in Fd /\ i \in 5 .. MaxFDs - 1 /\ fds[i] = NoFd
  BY FreeFdUnset DEF IInv
<1>1. TypeOK'
  BY <1>0 DEF TypeOK, Reply, Errno
<1>2. /\ Cardinality(Holders(fds', o)) = Cardinality(Holders(fds, o)) + 1
      /\ \A p \in Obj \ {o} : Holders(fds', p) = Holders(fds, p)
  <2>1. fds \in [Fd -> Obj \cup {NoFd}]
    BY <1>0 DEF TypeOK
  <2>2. LET g == [fds EXCEPT ![i] = o] IN
        /\ Cardinality(Holders(g, o)) = Cardinality(Holders(fds, o)) + 1
        /\ \A p \in Obj \ {o} : Holders(g, p) = Holders(fds, p)
    BY ONLY <1>0, <2>1, HoldersAdd
  <2>. QED
    BY <2>2
<1>3. RefcountExact'
  <2>1. ASSUME NEW p \in Handle PROVE refcount'[p] = Cardinality(Holders(fds', p))
    <3>1. refcount[p] = Cardinality(Holders(fds, p)) /\ p \in Obj
      BY DEF IInv, RefcountExact, Holders, Obj
    <3>2. CASE p = o
      BY <1>0, <1>2, <3>1, <3>2 DEF TypeOK
    <3>3. CASE p # o
      BY <1>0, <1>2, <3>1, <3>3 DEF TypeOK
    <3>. QED
      BY <3>2, <3>3
  <2>2. ASSUME NEW p \in Std PROVE refcount'[p] >= 1
    BY <1>0 DEF IInv, RefcountExact, TypeOK, Obj
  <2>. QED
    BY <2>1, <2>2 DEF RefcountExact, Holders
<1>4. OpenIffReferenced'
  <2>1. ASSUME NEW p \in Handle PROVE Referenced(p)' <=> Referenced(p)
    <3>1. CASE p = o
      BY <1>0, <3>1 DEF TypeOK, Referenced
    <3>2. CASE p # o
      BY <1>2, <3>2 DEF Referenced, Holders, Obj
    <3>. QED
      BY <3>1, <3>2
  <2>. QED
    BY <2>1 DEF IInv, OpenIffReferenced
<1>5. StdioPinned'
  BY <1>0, SizesAssumption DEF IInv, StdioPinned, TypeOK, Fd
<1>. QED
  BY <1>1, <1>3, <1>4, <1>5 DEF IInv

LEMMA DupStep ==
    ASSUME IInv, NEW fd \in FdArg, NEW newFd \in {0, 5}, Dup(fd, newFd)
    PROVE  IInv'
<1>. DEFINE errno == DupErrno(fd, newFd)
<1>0. TypeOK
  BY DEF IInv
<1>1. errno \in Errno
  BY ValidateFdResult DEF DupErrno, Errno
<1>2. CASE errno # "OK" /\ Fail(errno)
  BY <1>0, <1>1, <1>2, FailType, Frame
<1>3. CASE errno = "OK" /\ ~(errno # "OK" /\ Fail(errno))
  <2>1. PICK i \in FreeFds :
          /\ fds' = [fds EXCEPT ![i] = fds[fd]]
          /\ refcount' = [refcount EXCEPT ![fds[fd]] = refcount[fds[fd]] + 1]
          /\ Reply(i, "OK")
          /\ UNCHANGED <<node, handle, pos, fdFlags, fileFlags, server>>
    BY <1>3 DEF Dup
  <2>2. IsSet(fd)
    BY <1>3, ValidateFdResult DEF DupErrno
  <2>3. fds[fd] \in Obj /\ Referenced(fds[fd])
    BY <1>0, <2>2, SetFdObject DEF Referenced
  <2>. QED
    BY <2>1, <2>3, DupAllocates
<1>. QED
  BY <1>2, <1>3 DEF Dup

\* The entry that close unsets is above the stdio entries.
LEMMA CloseUnsets ==
    ASSUME IInv, NEW fd, ValidateFd(fd, FALSE) = "OK", NEW o \in Obj, fds[fd] = o,
           fds' = [fds EXCEPT ![fd] = NoFd]
    PROVE  /\ fd \in Fd /\ fd \notin 0 .. 4
           /\ Cardinality(Holders(fds', o)) = Cardinality(Holders(fds, o)) - 1
           /\ Cardinality(Holders(fds, o)) >= 1
           /\ \A p \in Obj \ {o} : Holders(fds', p) = Holders(fds, p)
<1>1. fd \in Fd /\ fd \notin 0 .. 4
  BY ValidateFdResult DEF IsSet
<1>2. fds \in [Fd -> Obj \cup {NoFd}]
  BY DEF IInv, TypeOK
<1>3. LET g == [fds EXCEPT ![fd] = NoFd] IN
      /\ Cardinality(Holders(g, o)) = Cardinality(Holders(fds, o)) - 1
      /\ Cardinality(Holders(fds, o)) >= 1
      /\ \A p \in Obj \ {o} : Holders(g, p) = Holders(fds, p)
  BY <1>1, <1>2, HoldersRemove
<1>. QED
  BY <1>1, <1>3

\* Closing a descriptor of an object that open() created: the last count and
\* the last reference go together, so the object is closed exactly then.
LEMMA CloseObjectStep ==
    ASSUME IInv, NEW fd, ValidateFd(fd, FALSE) = "OK", fds[fd] \in Handle,
           CloseObject(fd, fds[fd]), UNCHANGED server
    PROVE  /\ IInv'
           /\ fds' = [fds EXCEPT ![fd] = NoFd]
           /\ handle' = [handle EXCEPT ![fds[fd]] =
                           IF \E j \in Fd \ {fd} : fds[j] = fds[fd] THEN @ ELSE "closed"]
           /\ reply' = [code |-> 0, errno |-> "OK"]
<1>. DEFINE o == fds[fd]
            last == refcount[o] = 1
            gone == \A j \in Fd \ {fd} : fds[j] # o
<1>0. TypeOK /\ o \in Handle /\ o \in Obj /\ o \notin Std /\ fd \in Fd
  BY ValidateFdResult, ObjectsAssumption DEF IInv, Obj, IsSet
<1>1. handle[o] # "closed"
  BY <1>0 DEF IInv, OpenIffReferenced, Referenced
<1>2. /\ refcount' = [refcount EXCEPT ![o] = refcount[o] - 1]
      /\ handle' = [handle EXCEPT ![o] = IF last \/ gone THEN "closed" ELSE handle[o]]
      /\ fds' = [fds EXCEPT ![fd] = NoFd]
      /\ reply' = [code |-> 0, errno |-> "OK"]
      /\ node' = IF gone THEN [node EXCEPT ![o] = Root] ELSE node
      /\ pos' = IF gone THEN [pos EXCEPT ![o] = 0] ELSE pos
      /\ fdFlags' = IF gone THEN [fdFlags EXCEPT ![o] = {}] ELSE fdFlags
      /\ fileFlags' = IF gone THEN [fileFlags EXCEPT ![o] = {}] ELSE fileFlags
  BY <1>1 DEF CloseObject, Reply
<1>3. /\ fd \notin 0 .. 4
      /\ Cardinality(Holders(fds', o)) = Cardinality(Holders(fds, o)) - 1
      /\ Cardinality(Holders(fds, o)) >= 1
      /\ \A p \in Obj \ {o} : Holders(fds', p) = Holders(fds, p)
  BY <1>0, <1>2, CloseUnsets
<1>4. refcount[o] = Cardinality(Holders(fds, o)) /\ refcount[o] \in Nat
  BY <1>0 DEF IInv, RefcountExact, Holders, TypeOK
<1>5. gone <=> Holders(fds', o) = {}
  BY <1>0, <1>2, ObjectsAssumption DEF Holders, TypeOK
<1>6. last <=> gone
  <2>1. last <=> Cardinality(Holders(fds', o)) = 0
    BY <1>3, <1>4, HoldersFinite
  <2>. QED
    BY <1>5, <2>1, HoldersFinite
<1>7. TypeOK'
  <2>1. refcount[o] - 1 \in Nat
    BY <1>3, <1>4
  <2>2. fds' \in [Fd -> Obj \cup {NoFd}] /\ refcount' \in [Obj -> Nat]
    BY <1>0, <1>2, <2>1 DEF TypeOK
  <2>3. handle' \in [Obj -> {"open", "failed", "closed"}]
    BY <1>0, <1>2 DEF TypeOK
  <2>4. node' \in [Obj -> Node] /\ pos' \in [Obj -> Nat]
    BY <1>0, <1>2, TreeAssumption DEF TypeOK
  <2>5. fdFlags' \in [Obj -> SUBSET {"FD_CLOEXEC"}] /\ fileFlags' \in [Obj -> SUBSET Flag]
    BY <1>0, <1>2 DEF TypeOK
  <2>. QED
    BY <1>0, <1>2, <2>2, <2>3, <2>4, <2>5 DEF TypeOK, Errno
<1>8. RefcountExact'
  <2>1. ASSUME NEW p \in Handle PROVE refcount'[p] = Cardinality(Holders(fds', p))
    <3>1. refcount[p] = Cardinality(Holders(fds, p)) /\ p \in Obj
      BY DEF IInv, RefcountExact, Holders, Obj
    <3>2. CASE p = o
      BY <1>0, <1>2, <1>3, <3>1, <3>2 DEF TypeOK
    <3>3. CASE p # o
      BY <1>0, <1>2, <1>3, <3>1, <3>3 DEF TypeOK
    <3>. QED
      BY <3>2, <3>3
  <2>2. ASSUME NEW p \in Std PROVE refcount'[p] >= 1
    BY <1>0, <1>2 DEF IInv, RefcountExact, TypeOK, Obj
  <2>. QED
    BY <2>1, <2>2 DEF RefcountExact, Holders
<1>9. OpenIffReferenced'
  <2>1. ASSUME NEW p \in Handle PROVE handle'[p] # "closed" <=> Referenced(p)'
    <3>1. CASE p = o
      <4>1. Referenced(p)' <=> ~gone
        BY <1>5, <3>1 DEF Referenced, Holders
      <4>2. handle'[o] = "closed" <=> gone
        BY <1>0, <1>1, <1>2, <1>6 DEF TypeOK
      <4>. QED
        BY <3>1, <4>1, <4>2
    <3>2. CASE p # o
      <4>1. handle'[p] = handle[p]
        BY <1>0, <1>2, <3>2 DEF TypeOK, Obj
      <4>2. Referenced(p)' <=> Referenced(p)
        BY <1>3, <3>2 DEF Referenced, Holders, Obj
      <4>. QED
        BY <4>1, <4>2 DEF IInv, OpenIffReferenced
    <3>. QED
      BY <3>1, <3>2
  <2>. QED
    BY <2>1 DEF OpenIffReferenced
<1>10. StdioPinned'
  BY <1>0, <1>2, <1>3, SizesAssumption DEF IInv, StdioPinned, TypeOK, Fd, Obj
<1>11. handle' = [handle EXCEPT ![o] = IF gone THEN "closed" ELSE handle[o]]
  BY <1>2, <1>6
<1>. QED
  BY <1>2, <1>7, <1>8, <1>9, <1>10, <1>11 DEF IInv

LEMMA CloseStep ==
    ASSUME IInv, NEW fd \in FdArg, Close(fd)
    PROVE  IInv'
<1>0. TypeOK
  BY DEF IInv
<1>1. CASE ValidateFd(fd, FALSE) # "OK" /\ Fail(ValidateFd(fd, FALSE))
  BY <1>0, <1>1, ValidateFdResult, FailType, Frame DEF Errno
<1>2. CASE /\ ValidateFd(fd, FALSE) = "OK" /\ fds[fd] \in Std
           /\ fds' = [fds EXCEPT ![fd] = NoFd]
           /\ Reply(0, "OK")
           /\ UNCHANGED <<objVars, server>>
  <2>0. fds[fd] \in Obj
    BY <1>2 DEF Obj
  <2>1. /\ fd \in Fd /\ fd \notin 0 .. 4
        /\ \A p \in Handle : Holders(fds', p) = Holders(fds, p)
    BY <1>2, <2>0, CloseUnsets, ObjectsAssumption DEF Obj
  <2>2. TypeOK'
    <3>1. fds' \in [Fd -> Obj \cup {NoFd}]
      BY <1>0, <1>2 DEF TypeOK
    <3>. QED
      BY <1>0, <1>2, <3>1 DEF TypeOK, objVars, Reply, Errno
  <2>3. RefcountExact' /\ OpenIffReferenced'
    BY <1>2, <2>1 DEF IInv, RefcountExact, OpenIffReferenced, Referenced, Holders, objVars
  <2>4. StdioPinned'
    BY <1>0, <1>2, <2>1, SizesAssumption DEF IInv, StdioPinned, TypeOK, Fd, objVars
  <2>. QED
    BY <2>2, <2>3, <2>4 DEF IInv
<1>3. CASE /\ ValidateFd(fd, FALSE) = "OK" /\ fds[fd] \in Handle
           /\ CloseObject(fd, fds[fd]) /\ UNCHANGED server
  BY <1>3, CloseObjectStep
<1>. QED
  BY <1>1, <1>2, <1>3 DEF Close

-----------------------------------------------------------------------------
(* The invariants *)

\* Every call preserves the invariant.
THEOREM NextInv == IInv /\ [Next]_vars => IInv'
<1>. SUFFICES ASSUME IInv, [Next]_vars PROVE IInv'
  OBVIOUS
<1>1. CASE UNCHANGED vars
  BY <1>1 DEF vars, IInv, TypeOK, RefcountExact, OpenIffReferenced, StdioPinned, Referenced
<1>2. CASE Next
  <2>1. ASSUME NEW path \in Path, NEW flags \in OpenFlags, NEW mode \in BOOLEAN,
               NEW base \in FdArg \cup {AT_FDCWD}, Open(path, flags, mode, base)
        PROVE  IInv'
    BY <2>1, OpenStep
  <2>2. ASSUME NEW fd \in FdArg, NEW newFd \in {0, 5}, Dup(fd, newFd) PROVE IInv'
    BY <2>2, DupStep
  <2>3. ASSUME NEW fd \in FdArg, Close(fd) PROVE IInv'
    BY <2>3, CloseStep
  <2>4. ASSUME NEW fd \in FdArg, NEW length \in Lengths, Read(fd, length) PROVE IInv'
    BY <2>4, ReadStep
  <2>5. ASSUME NEW fd \in FdArg, NEW offset \in Offsets, NEW whence \in Whence,
               Lseek(fd, offset, whence)
        PROVE  IInv'
    BY <2>5, LseekStep
  <2>6. ASSUME NEW fd \in FdArg, Getdents(fd) PROVE IInv'
    BY <2>6, GetdentsStep
  <2>7. ASSUME NEW fd \in FdArg, NEW events,
               Fstat(fd) \/ Poll(fd, events) \/ GetFlags(fd)
        PROVE  IInv'
    BY <2>7, QueryStep
  <2>8. ASSUME FcntlOther PROVE IInv'
    <3>1. -1 \in FdArg
      BY SizesAssumption DEF FdArg
    <3>. QED
      BY <2>8, <3>1, QueryStep
  <2>9. ASSUME NEW fd \in FdArg, NEW arg \in OpenFlags, SetFlags(fd, Cloexec(arg))
        PROVE  IInv'
    BY <2>9, SetFlagsStep DEF Cloexec
  <2>10. ASSUME NEW fd \in FdArg, NEW arg \in OpenFlags, SetMode(fd, arg) PROVE IInv'
    BY <2>10, SetModeStep
  <2>. QED
    BY <1>2, <2>1, <2>2, <2>3, <2>4, <2>5, <2>6, <2>7, <2>8, <2>9, <2>10 DEF Next
<1>. QED
  BY <1>1, <1>2

\* The inductive invariant holds in every reachable state.
THEOREM InvariantHolds == Spec => []IInv
BY InitInv, NextInv, PTL DEF Spec

\* Every variable of the descriptor layer keeps its type.
THEOREM TypeCorrect == Spec => []TypeOK
<1>1. IInv => TypeOK
  BY DEF IInv
<1>. QED
  BY <1>1, InvariantHolds, PTL

\* The reference count is the number of descriptors.
THEOREM CountsAreExact == Spec => []RefcountExact
<1>1. IInv => RefcountExact
  BY DEF IInv
<1>. QED
  BY <1>1, InvariantHolds, PTL

\* A resource is open exactly as long as a descriptor designates it.
THEOREM ResourcesFollowDescriptors == Spec => []OpenIffReferenced
<1>1. IInv => OpenIffReferenced
  BY DEF IInv
<1>. QED
  BY <1>1, InvariantHolds, PTL

\* The stdio descriptors and the pipes are never reassigned.
THEOREM StdioStaysPinned == Spec => []StdioPinned
<1>1. IInv => StdioPinned
  BY DEF IInv
<1>. QED
  BY <1>1, InvariantHolds, PTL

-----------------------------------------------------------------------------
(* Action properties and refinement *)

\* What a step other than a successful open, dup or close does to the table
\* and the resources, and when it may answer EMFILE.
Quiet ==
    /\ UNCHANGED <<fds, handle>>
    /\ reply' \in [code : Int, errno : Errno]
    /\ reply'.errno # "OK" => UNCHANGED objVars
    /\ reply'.errno = "EMFILE" => FreeFds = {} \/ reply' = reply

LEMMA FailQuiet ==
    ASSUME NEW errno \in Errno, Fail(errno), errno = "EMFILE" => FreeFds = {}
    PROVE  Quiet
BY DEF Quiet, Fail, Reply, objVars

LEMMA AnswerQuiet ==
    ASSUME NEW code \in Int, Answer(code)
    PROVE  Quiet
BY DEF Quiet, Answer, Reply, objVars, Errno

LEMMA FatalQuiet ==
    ASSUME TypeOK, FatalError
    PROVE  Quiet
BY DEF Quiet, FatalError, objVars, TypeOK

\* A successful call that changes neither the table nor a resource.
LEMMA OkQuiet ==
    ASSUME TypeOK', UNCHANGED <<fds, handle>>, NEW code, Reply(code, "OK")
    PROVE  Quiet
BY DEF Quiet, Reply, TypeOK

LEMMA ReadQuiet ==
    ASSUME IInv, NEW fd \in FdArg, NEW length \in Lengths, Read(fd, length)
    PROVE  Quiet
<1>. DEFINE errno == ReadErrno(fd)
<1>0. TypeOK /\ TypeOK'
  BY ReadStep DEF IInv
<1>1. errno \in Errno /\ errno # "EMFILE"
  BY ValidateFdResult DEF ReadErrno, Errno
<1>. HIDE DEF errno
<1>2. CASE errno # "OK" /\ Fail(errno)
  BY <1>1, <1>2, FailQuiet
<1>3. CASE FatalError
  BY <1>0, <1>3, FatalQuiet
<1>4. ASSUME NEW code, Reply(code, "OK"), UNCHANGED <<fds, handle>> PROVE Quiet
  BY <1>0, <1>4, OkQuiet
<1>. QED
  BY <1>2, <1>3, <1>4 DEF Read, errno

LEMMA LseekQuiet ==
    ASSUME IInv, NEW fd \in FdArg, NEW offset \in Offsets, NEW whence \in Whence,
           Lseek(fd, offset, whence)
    PROVE  Quiet
<1>. DEFINE errno == SeekErrno(fd, offset, whence)
<1>0. TypeOK /\ TypeOK'
  BY LseekStep DEF IInv
<1>1. errno \in Errno /\ errno # "EMFILE"
  BY ValidateFdResult DEF SeekErrno, Errno
<1>. HIDE DEF errno
<1>2. CASE errno # "OK" /\ Fail(errno)
  BY <1>1, <1>2, FailQuiet
<1>3. CASE FatalError
  BY <1>0, <1>3, FatalQuiet
<1>4. CASE Answer(0)
  BY <1>4, AnswerQuiet
<1>5. ASSUME NEW code, Reply(code, "OK"), UNCHANGED <<fds, handle>> PROVE Quiet
  BY <1>0, <1>5, OkQuiet
<1>. QED
  BY <1>2, <1>3, <1>4, <1>5 DEF Lseek, errno

LEMMA GetdentsQuiet ==
    ASSUME IInv, NEW fd \in FdArg, Getdents(fd)
    PROVE  Quiet
<1>. DEFINE errno == IF ValidateFd(fd, FALSE) # "OK" THEN ValidateFd(fd, FALSE)
                     ELSE IF Class(fds[fd]) # "DirFD" THEN "ENOTDIR"
                     ELSE IF handle[fds[fd]] = "closed" THEN "EBADF" ELSE "OK"
<1>0. TypeOK'
  BY GetdentsStep DEF IInv
<1>1. errno \in Errno /\ errno # "EMFILE"
  BY ValidateFdResult DEF Errno
<1>. HIDE DEF errno
<1>2. CASE errno # "OK" /\ Fail(errno)
  BY <1>1, <1>2, FailQuiet
<1>3. ASSUME NEW code, Reply(code, "OK"), UNCHANGED <<fds, handle>> PROVE Quiet
  BY <1>0, <1>3, OkQuiet
<1>. QED
  BY <1>2, <1>3 DEF Getdents, errno

LEMMA QueryQuiet ==
    ASSUME IInv, NEW fd \in FdArg, NEW events,
           Fstat(fd) \/ Poll(fd, events) \/ GetFlags(fd) \/ FcntlOther
    PROVE  Quiet
<1>0. TypeOK
  BY DEF IInv
<1>1. ASSUME NEW errno \in Errno \ {"EMFILE"}, Fail(errno) PROVE Quiet
  BY <1>1, FailQuiet
<1>2. ASSUME NEW code \in Int, Answer(code) PROVE Quiet
  BY <1>2, AnswerQuiet
<1>3. CASE FatalError
  BY <1>0, <1>3, FatalQuiet
<1>4. CASE Fstat(fd)
  <2>. DEFINE errno == IF ValidateFd(fd, TRUE) # "OK" THEN ValidateFd(fd, TRUE)
                       ELSE IF handle[fds[fd]] = "closed" /\ Class(fds[fd]) # "DirFD"
                            THEN "EBADF" ELSE "OK"
  <2>1. errno \in Errno \ {"EMFILE"}
    BY ValidateFdResult DEF Errno
  <2>2. Answer(0) \/ Fail(errno)
    BY <1>4 DEF Fstat
  <2>. HIDE DEF errno
  <2>. QED
    BY <1>1, <1>2, <2>1, <2>2
<1>5. CASE Poll(fd, events)
  BY <1>1, <1>2, <1>3, <1>5 DEF Poll, Errno
<1>6. CASE GetFlags(fd)
  <2>. DEFINE errno == ValidateFd(fd, FALSE)
  <2>1. errno \in Errno \ {"EMFILE"}
    BY ValidateFdResult DEF Errno
  <2>2. Answer(0) \/ Fail(errno)
    BY <1>6 DEF GetFlags
  <2>. HIDE DEF errno
  <2>. QED
    BY <1>1, <1>2, <2>1, <2>2
<1>7. CASE FcntlOther
  BY <1>1, <1>7 DEF FcntlOther, Errno
<1>. QED
  BY <1>4, <1>5, <1>6, <1>7

LEMMA FlagsQuiet ==
    ASSUME IInv, TypeOK', NEW fd \in FdArg, NEW arg, NEW flags,
           SetFlags(fd, flags) \/ SetMode(fd, arg)
    PROVE  Quiet
<1>. DEFINE errno == ValidateFd(fd, FALSE)
<1>1. errno \in Errno /\ errno # "EMFILE"
  BY ValidateFdResult DEF Errno
<1>. HIDE DEF errno
<1>2. CASE errno # "OK" /\ Fail(errno)
  BY <1>1, <1>2, FailQuiet
<1>3. ASSUME NEW code, Reply(code, "OK"), UNCHANGED <<fds, handle>> PROVE Quiet
  BY <1>3, OkQuiet
<1>. QED
  BY <1>2, <1>3 DEF SetFlags, SetMode, errno

\* What the successful open, dup and close do to the table and the resources.
Allocates(i, o) ==
    /\ FirstFree(i)
    /\ fds' = [fds EXCEPT ![i] = o]
    /\ reply' = [code |-> i, errno |-> "OK"]

Opens ==
    \E i \in FreeFds, o \in Handle, h \in {"open", "failed"} :
        /\ ~Referenced(o) /\ Allocates(i, o)
        /\ handle' = [handle EXCEPT ![o] = h]

Dups ==
    \E i \in FreeFds, fd \in Fd :
        /\ fds[fd] # NoFd /\ Allocates(i, fds[fd])
        /\ UNCHANGED handle

Closes ==
    \E fd \in Fd :
        /\ fd \notin 0 .. 4 /\ fds[fd] # NoFd
        /\ fds' = [fds EXCEPT ![fd] = NoFd]
        /\ handle' = IF fds[fd] \in Std THEN handle
                     ELSE [handle EXCEPT ![fds[fd]] =
                            IF \E j \in Fd \ {fd} : fds[j] = fds[fd] THEN @ ELSE "closed"]
        /\ reply' = [code |-> 0, errno |-> "OK"]

LEMMA OpenKind ==
    ASSUME IInv, NEW path \in Path, NEW flags \in OpenFlags, NEW mode \in BOOLEAN,
           NEW base \in FdArg \cup {AT_FDCWD}, Open(path, flags, mode, base)
    PROVE  Quiet \/ Opens
<1>. DEFINE errno == OpenErrno(path, flags, mode, base)
<1>1. errno \in Errno /\ (errno = "EMFILE" => FreeFds = {})
  BY ValidateFdResult DEF OpenErrno, BaseErrno, Errno
<1>2. CASE errno # "OK" /\ Fail(errno)
  <2>. HIDE DEF errno
  <2>. QED
    BY <1>1, <1>2, FailQuiet
<1>3. CASE errno = "OK" /\ ~(errno # "OK" /\ Fail(errno))
  <2>1. PICK i \in FreeFds, o \in Handle :
          /\ FirstFree(i)
          /\ NewObject(o, GetNode(path, base), flags)
          /\ fds' = [fds EXCEPT ![i] = o]
          /\ Reply(i, "OK")
    BY <1>3 DEF Open
  <2>2. PICK h \in {"open", "failed"} : handle' = [handle EXCEPT ![o] = h]
    BY <2>1 DEF NewObject, OpenOutcomes
  <2>3. ~Referenced(o) /\ Allocates(i, o)
    BY <2>1 DEF NewObject, Allocates, Reply
  <2>. QED
    BY <2>2, <2>3 DEF Opens
<1>. QED
  BY <1>2, <1>3 DEF Open

LEMMA DupKind ==
    ASSUME IInv, NEW fd \in FdArg, NEW newFd \in {0, 5}, Dup(fd, newFd)
    PROVE  Quiet \/ Dups
<1>. DEFINE errno == DupErrno(fd, newFd)
<1>1. errno \in Errno /\ (errno = "EMFILE" => FreeFds = {})
  BY ValidateFdResult DEF DupErrno, Errno
<1>2. CASE errno # "OK" /\ Fail(errno)
  <2>. HIDE DEF errno
  <2>. QED
    BY <1>1, <1>2, FailQuiet
<1>3. CASE errno = "OK" /\ ~(errno # "OK" /\ Fail(errno))
  <2>1. IsSet(fd)
    BY <1>3, ValidateFdResult DEF DupErrno
  <2>2. PICK i \in FreeFds : Allocates(i, fds[fd]) /\ UNCHANGED handle
    BY <1>3 DEF Dup, Allocates, Reply
  <2>. QED
    BY <2>1, <2>2 DEF Dups, IsSet
<1>. QED
  BY <1>2, <1>3 DEF Dup

LEMMA CloseKind ==
    ASSUME IInv, NEW fd \in FdArg, Close(fd)
    PROVE  Quiet \/ Closes
<1>. DEFINE errno == ValidateFd(fd, FALSE)
<1>1. errno \in Errno /\ errno # "EMFILE"
  BY ValidateFdResult DEF Errno
<1>2. CASE errno # "OK" /\ Fail(errno)
  <2>. HIDE DEF errno
  <2>. QED
    BY <1>1, <1>2, FailQuiet
<1>3. CASE errno = "OK" /\ fds[fd] \in Std /\ ~(errno # "OK" /\ Fail(errno))
  <2>1. fd \in Fd /\ fd \notin 0 .. 4 /\ fds[fd] # NoFd
    BY <1>3, ValidateFdResult DEF IsSet
  <2>2. /\ fds' = [fds EXCEPT ![fd] = NoFd]
        /\ reply' = [code |-> 0, errno |-> "OK"] /\ handle' = handle
    BY <1>3, ObjectsAssumption DEF Close, Reply, objVars
  <2>. QED
    BY <1>3, <2>1, <2>2 DEF Closes
<1>4. CASE errno = "OK" /\ fds[fd] \in Handle /\ ~(errno # "OK" /\ Fail(errno))
  <2>1. fd \in Fd /\ fd \notin 0 .. 4 /\ fds[fd] # NoFd /\ fds[fd] \notin Std
    BY <1>4, ValidateFdResult, ObjectsAssumption DEF IsSet
  <2>2. CloseObject(fd, fds[fd]) /\ UNCHANGED server
    BY <1>4, <2>1 DEF Close
  <2>3. /\ fds' = [fds EXCEPT ![fd] = NoFd]
        /\ handle' = [handle EXCEPT ![fds[fd]] =
                        IF \E j \in Fd \ {fd} : fds[j] = fds[fd] THEN @ ELSE "closed"]
        /\ reply' = [code |-> 0, errno |-> "OK"]
    BY <1>4, <2>2, CloseObjectStep
  <2>. QED
    BY <2>1, <2>3 DEF Closes
<1>. QED
  BY <1>2, <1>3, <1>4 DEF Close

\* Every call is one of these four kinds of step.
LEMMA StepKinds ==
    ASSUME IInv, Next
    PROVE  Quiet \/ Opens \/ Dups \/ Closes
<1>0. TypeOK'
  BY NextInv DEF IInv
<1>1. ASSUME NEW path \in Path, NEW flags \in OpenFlags, NEW mode \in BOOLEAN,
             NEW base \in FdArg \cup {AT_FDCWD}, Open(path, flags, mode, base)
      PROVE  Quiet \/ Opens
  BY <1>1, OpenKind
<1>2. ASSUME NEW fd \in FdArg, NEW newFd \in {0, 5}, Dup(fd, newFd)
      PROVE  Quiet \/ Dups
  BY <1>2, DupKind
<1>3. ASSUME NEW fd \in FdArg, Close(fd) PROVE Quiet \/ Closes
  BY <1>3, CloseKind
<1>4. ASSUME NEW fd \in FdArg, NEW length \in Lengths, Read(fd, length) PROVE Quiet
  BY <1>4, ReadQuiet
<1>5. ASSUME NEW fd \in FdArg, NEW offset \in Offsets, NEW whence \in Whence,
             Lseek(fd, offset, whence)
      PROVE  Quiet
  BY <1>5, LseekQuiet
<1>6. ASSUME NEW fd \in FdArg, Getdents(fd) PROVE Quiet
  BY <1>6, GetdentsQuiet
<1>7. ASSUME NEW fd \in FdArg, NEW events, Fstat(fd) \/ Poll(fd, events) \/ GetFlags(fd)
      PROVE  Quiet
  BY <1>7, QueryQuiet
<1>8. ASSUME FcntlOther PROVE Quiet
  <2>1. -1 \in FdArg
    BY SizesAssumption DEF FdArg
  <2>. QED
    BY <1>8, <2>1, QueryQuiet
<1>9. ASSUME NEW fd \in FdArg, NEW arg, NEW flags, SetFlags(fd, flags) \/ SetMode(fd, arg)
      PROVE  Quiet
  BY <1>0, <1>9, FlagsQuiet
<1>. QED
  BY <1>1, <1>2, <1>3, <1>4, <1>5, <1>6, <1>7, <1>8, <1>9 DEF Next

\* An error reply comes with no change of a descriptor or of its object.
THEOREM ErrorsAreClean == Spec => ErrorsLeaveNoTrace
<1>1. IInv /\ [Next]_vars => [reply'.errno # "OK" => UNCHANGED <<fds, objVars>>]_vars
  <2>. SUFFICES ASSUME IInv, Next, reply'.errno # "OK"
                PROVE  UNCHANGED <<fds, objVars>>
    BY DEF vars
  <2>1. ~Opens /\ ~Dups /\ ~Closes
    BY DEF Opens, Dups, Closes, Allocates
  <2>. QED
    BY <2>1, StepKinds DEF Quiet
<1>. QED
  BY <1>1, InvariantHolds, PTL DEF Spec, ErrorsLeaveNoTrace

\* What a successful read of a file reports, and how far it moves the offset:
\* a VirtualFD moves by the clamped length, a RealFD by what it delivered.
LEMMA ReadDelivers ==
    ASSUME NEW p \in Nat, NEW len \in Nat, NEW n \in Nat, NEW step \in Nat,
           step \in {n, Least(n, IF p < len THEN len - p ELSE 0)}
    PROVE  Least(n, IF p < len THEN len - p ELSE 0)
             = IF p < len THEN Least(p + step, len) - p ELSE 0
<1>1. CASE p < len
  BY <1>1 DEF Least
<1>2. CASE ~(p < len)
  BY <1>2 DEF Least
<1>. QED
  BY <1>1, <1>2

\* A file whose fopen failed delivers nothing and does not move.
LEMMA ReadNothing ==
    ASSUME NEW p \in Nat, NEW len \in Nat
    PROVE  0 = IF p < len THEN Least(p + 0, len) - p ELSE 0
BY DEF Least

LEMMA ReadSkipsNothing ==
    ASSUME IInv, NEW fd \in FdArg, NEW length \in Lengths, Read(fd, length),
           reply'.errno = "OK", server' = "up",
           Kind[node[fds[fd]]] \in {"VirtualFile", "RealFile"}
    PROVE  reply'.code = IF pos[fds[fd]] < Len[node[fds[fd]]]
                         THEN Least(pos'[fds[fd]], Len[node[fds[fd]]]) - pos[fds[fd]]
                         ELSE 0
<1>. DEFINE o == fds[fd]
            n == Least(length, MaxReadLength)
            p == pos[o]
            len == Len[node[o]]
            rest == IF p < len THEN len - p ELSE 0
<1>0. TypeOK /\ n \in Nat
  BY SizesAssumption DEF IInv, Least
<1>1. /\ ReadErrno(fd) = "OK"
      /\ pos' = [pos EXCEPT ![o] = p + Advance(o, n)]
      /\ reply' = [code |-> Delivered(o, n), errno |-> "OK"]
  <2>1. ~(ReadErrno(fd) # "OK" /\ Fail(ReadErrno(fd)))
    BY DEF Fail, Reply
  <2>2. ~FatalError
    BY DEF FatalError
  <2>. QED
    BY <2>1, <2>2 DEF Read, Reply
<1>2. IsSet(fd) /\ o \notin Std /\ Class(o) # "DirFD"
  BY <1>1, ValidateFdResult DEF ReadErrno
<1>3. o \in Obj /\ p \in Nat /\ len \in Nat
  BY <1>0, <1>2, SetFdObject
<1>4. Least(n, rest) \in Nat
  BY <1>0, <1>3 DEF Least
<1>5. p + Advance(o, n) = pos'[o]
  BY <1>0, <1>1, <1>3 DEF TypeOK
<1>6. CASE Kind[node[o]] = "VirtualFile"
  <2>1. Delivered(o, n) = Least(n, rest)
    BY <1>6 DEF Delivered
  <2>2. Advance(o, n) = n
    BY <1>2, <1>6 DEF Advance, Class, VirtualKind
  <2>. HIDE DEF n, p, len, o
  <2>3. Least(n, rest) = IF p < len THEN Least(p + n, len) - p ELSE 0
    BY <1>0, <1>3, ReadDelivers
  <2>. QED
    BY <1>1, <1>5, <2>1, <2>2, <2>3 DEF o, p, len
<1>7. CASE Kind[node[o]] = "RealFile" /\ handle[o] = "open"
  <2>1. Delivered(o, n) = Least(n, rest)
    BY <1>7 DEF Delivered
  <2>2. Advance(o, n) = Least(n, rest)
    BY <1>2, <1>7, <2>1 DEF Advance, Class, VirtualKind
  <2>. HIDE DEF n, p, len, o
  <2>3. Least(n, rest) = IF p < len THEN Least(p + Least(n, rest), len) - p ELSE 0
    BY <1>0, <1>3, <1>4, ReadDelivers
  <2>. QED
    BY <1>1, <1>5, <2>1, <2>2, <2>3 DEF o, p, len
<1>8. CASE Kind[node[o]] = "RealFile" /\ handle[o] # "open"
  <2>1. Delivered(o, n) = 0
    BY <1>8 DEF Delivered
  <2>2. Advance(o, n) = 0
    BY <1>2, <1>8, <2>1 DEF Advance, Class, VirtualKind
  <2>. HIDE DEF n, p, len, o
  <2>3. 0 = IF p < len THEN Least(p + 0, len) - p ELSE 0
    BY <1>3, ReadNothing
  <2>. QED
    BY <1>1, <1>5, <2>1, <2>2, <2>3 DEF o, p, len
<1>. QED
  BY <1>6, <1>7, <1>8

\* A read that succeeds reports every byte it moves the offset over.
THEOREM ReadsSkipNothing == Spec => NoBytesSkipped
<1>1. IInv /\ [Next]_vars =>
        [\A fd \in FdArg, length \in Lengths :
           LET o == fds[fd] IN
           (/\ Read(fd, length) /\ reply'.errno = "OK" /\ server' = "up"
            /\ Kind[node[o]] \in {"VirtualFile", "RealFile"})
           => reply'.code =
                IF pos[o] < Len[node[o]]
                THEN Least(pos'[o], Len[node[o]]) - pos[o] ELSE 0]_vars
  BY ReadSkipsNothing
<1>. QED
  BY <1>1, InvariantHolds, PTL DEF Spec, NoBytesSkipped

-----------------------------------------------------------------------------
\* A quiet step is a step of the abstract table that allocates nothing.
LEMMA QuietMaps ==
    ASSUME TypeOK, Quiet
    PROVE  [Table!Next]_(Table!vars)
<1>1. CASE reply'.errno = "EMFILE" /\ reply' = reply
  BY <1>1 DEF Quiet, Table!vars
<1>2. CASE reply'.errno = "EMFILE" /\ FreeFds = {}
  BY <1>2 DEF Quiet, Table!Next, Table!Exhausted, Table!Free, FreeFds
<1>3. CASE reply'.errno # "EMFILE"
  BY <1>3 DEF Quiet, Table!Next, Table!Other
<1>. QED
  BY <1>1, <1>2, <1>3 DEF Quiet

LEMMA OpensMaps ==
    ASSUME IInv, Opens
    PROVE  Table!Next
<1>1. PICK i \in FreeFds, o \in Handle, h \in {"open", "failed"} :
        /\ ~Referenced(o) /\ Allocates(i, o)
        /\ handle' = [handle EXCEPT ![o] = h]
  BY DEF Opens
<1>2. handle[o] = "closed" /\ o \in Obj /\ handle \in [Obj -> {"open", "failed", "closed"}]
  BY <1>1 DEF IInv, OpenIffReferenced, TypeOK, Obj
<1>3. {p \in Handle : handle'[p] # "closed"} = {p \in Handle : handle[p] # "closed"} \cup {o}
  BY <1>1, <1>2 DEF Obj
<1>4. Table!Lowest(i) /\ i \in Table!Free
  BY <1>1 DEF Allocates, FirstFree, FreeFds, Table!Lowest, Table!Free
<1>5. Table!Open(o)
  BY <1>1, <1>2, <1>3, <1>4 DEF Table!Open, Allocates
<1>. QED
  BY <1>5 DEF Table!Next

LEMMA DupsMaps ==
    ASSUME Dups
    PROVE  Table!Next
<1>1. PICK i \in FreeFds, fd \in Fd :
        fds[fd] # NoFd /\ Allocates(i, fds[fd]) /\ UNCHANGED handle
  BY DEF Dups
<1>2. Table!Lowest(i) /\ i \in Table!Free
  BY <1>1 DEF Allocates, FirstFree, FreeFds, Table!Lowest, Table!Free
<1>3. Table!Dup(fd)
  BY <1>1, <1>2 DEF Table!Dup, Allocates
<1>. QED
  BY <1>3 DEF Table!Next, Table!Descriptor, Fd

LEMMA ClosesMaps ==
    ASSUME IInv, Closes
    PROVE  Table!Next
<1>1. PICK fd \in Fd :
        /\ fd \notin 0 .. 4 /\ fds[fd] # NoFd
        /\ fds' = [fds EXCEPT ![fd] = NoFd]
        /\ handle' = IF fds[fd] \in Std THEN handle
                     ELSE [handle EXCEPT ![fds[fd]] =
                            IF \E j \in Fd \ {fd} : fds[j] = fds[fd] THEN @ ELSE "closed"]
        /\ reply' = [code |-> 0, errno |-> "OK"]
  BY DEF Closes
<1>2. /\ fds[fd] \in Obj /\ handle \in [Obj -> {"open", "failed", "closed"}]
      /\ fd >= 5 /\ Std \cap Handle = {}
  BY <1>1, SizesAssumption, ObjectsAssumption DEF IInv, TypeOK, Fd
<1>. DEFINE live == {p \in Handle : handle[p] # "closed"}
<1>3. {p \in Handle : handle'[p] # "closed"} =
        IF \E j \in Fd \ {fd} : fds[j] = fds[fd] THEN live ELSE live \ {fds[fd]}
  <2>1. CASE fds[fd] \in Std
    BY <1>1, <1>2, <2>1
  <2>2. CASE fds[fd] \notin Std /\ \E j \in Fd \ {fd} : fds[j] = fds[fd]
    BY <1>1, <1>2, <2>2 DEF Obj
  <2>3. CASE fds[fd] \notin Std /\ ~\E j \in Fd \ {fd} : fds[j] = fds[fd]
    BY <1>1, <1>2, <2>3 DEF Obj
  <2>. QED
    BY <2>1, <2>2, <2>3
<1>4. Table!Close(fd)
  BY <1>1, <1>2, <1>3 DEF Table!Close, Table!Descriptor, Fd
<1>. QED
  BY <1>1, <1>4 DEF Table!Next, Table!Descriptor, Fd

\* The descriptor layer implements DescriptorTable: initial states map to
\* initial states, and every call maps to a step of the table or a stutter.
THEOREM Refinement == Spec => ImplementsTable
<1>1. Init => Table!Init
  <2>. SUFFICES ASSUME Init PROVE Table!Init
    OBVIOUS
  <2>1. {o \in Handle : handle[o] # "closed"} = {}
    BY ObjectsAssumption DEF Init, Obj
  <2>. QED
    BY <2>1 DEF Init, Table!Init
<1>2. IInv /\ [Next]_vars => [Table!Next]_(Table!vars)
  <2>. SUFFICES ASSUME IInv, [Next]_vars PROVE [Table!Next]_(Table!vars)
    OBVIOUS
  <2>1. CASE UNCHANGED vars
    BY <2>1 DEF vars, Table!vars
  <2>2. CASE Next
    <3>1. TypeOK
      BY DEF IInv
    <3>. QED
      BY <2>2, <3>1, StepKinds, QuietMaps, OpensMaps, DupsMaps, ClosesMaps
  <2>. QED
    BY <2>1, <2>2
<1>. QED
  BY <1>1, <1>2, InvariantHolds, PTL DEF Spec, ImplementsTable, Table!Spec

=============================================================================
