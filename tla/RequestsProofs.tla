---------------------------- MODULE RequestsProofs ----------------------------
(***************************************************************************)
(* Proofs about Requests, for every program: every set of system calls and *)
(* datagrams, every value of the uninitialised length, every stack.        *)
(***************************************************************************)
EXTENDS Requests, TLAPS

Frame == [call : Call, stub : arg_map \cup {"none"}]

\* The child's and the parent's part of TypeOK.
ChildType ==
    /\ child \in {"loaded", "run", "trap", "stub", "reply", "exiting", "zombie", "gone"}
    /\ frames \in Seq(Frame) /\ Len(frames) <= MaxFrames
    /\ cstatus \in -64 .. 255 /\ steps \in 0 .. MaxSteps /\ mask \subseteq Int
    /\ child \in {"trap", "stub", "reply"} => frames # <<>>
    /\ child \in {"loaded", "run"} => frames = <<>>

ParentType ==
    /\ parent \in {"loop", "args", "dispatch", "forward", "kill", "returning", "exited"}
    /\ pstatus \in 0 .. 255 /\ ret \in Int /\ str \in Nat
    /\ host \in {"open", "closed"}

\* The numbers the loop computes with.
Datagrams == Seq(Raw \cup {OpenRequest})
Numbers == length \in Nat /\ fnamelen \in Nat /\ toParent \in Datagrams

\* The parent has left its loop.
Left == parent \in {"returning", "exited"}

\* A status is explained from the time the parent leaves its loop on, which it does
\* after the kill.
StatusExplained ==
    /\ sigterm => Left
    /\ Left /\ pstatus = 0 =>
           \/ child = "gone" /\ cstatus = 0
           \/ sigterm /\ ret % 256 = 0
           \/ host = "closed" /\ ~sigterm

\* The inductive invariant.
IInv == ChildType /\ ParentType /\ Numbers /\ StatusExplained

-----------------------------------------------------------------------------

\* The two halves are TypeOK.
LEMMA TypeParts == ChildType /\ ParentType => TypeOK
BY DEF ChildType, ParentType, TypeOK, Frame

\* The names that have a stub are the names of syscalls[] in the model, and each
\* stands at the number the kernel knows it by.
LEMMA NumbersOfStubs ==
    ASSUME NEW name \in arg_map
    PROVE  /\ name \in DOMAIN syscalls /\ name \in DOMAIN Number
           /\ syscalls[name] = Number[name] /\ Number[name] \in Int /\ Number[name] < nsyscalls
<1>1. name \in DOMAIN x86_64 /\ name \in DOMAIN syscalls /\ syscalls[name] = x86_64[name]
  BY DEF arg_map, x86_64, syscalls
<1>2. name \in DOMAIN Number /\ Number[name] = x86_64[name] /\ Number[name] \in Int
  BY <1>1, CallAssumption
<1>3. x86_64[name] < nsyscalls
  BY DEF arg_map, x86_64, nsyscalls
<1> QED BY <1>1, <1>2, <1>3

\* A datagram of the program or of the open stub has the fields of a request.
LEMMA DatagramFields ==
    ASSUME NEW d \in Raw \cup {OpenRequest}
    PROVE  d.size \in Nat \ {0} /\ d.nr \in Nat /\ d.str \in Nat
BY BoundsAssumption DEF OpenRequest, HeaderSize

\* The next datagram, and the rest of them.
LEMMA NextDatagram ==
    ASSUME Numbers, toParent # <<>>
    PROVE  /\ Head(toParent).size \in Nat \ {0} /\ Head(toParent).nr \in Nat
           /\ Head(toParent).str \in Nat
           /\ Tail(toParent) \in Datagrams
<1>1. Head(toParent) \in Raw \cup {OpenRequest} /\ Tail(toParent) \in Datagrams
  BY DEF Numbers, Datagrams
<1> QED BY <1>1, DatagramFields

\* The program starts, and length holds anything.
LEMMA InitInv == Init => IInv
BY BoundsAssumption
DEF Init, IInv, ChildType, ParentType, Numbers, Datagrams, StatusExplained, Left

-----------------------------------------------------------------------------
(* The child.  Its steps leave the parent's variables alone, and a child   *)
(* that is gone takes none.                                                *)

LEMMA ChildKeepsInv ==
    ASSUME IInv, UNCHANGED <<parentVars, sigterm, host>>, child # "gone",
           ChildType', toParent' \in Datagrams
    PROVE  IInv'
<1>1. ParentType' /\ Numbers'
  BY DEF IInv, ParentType, Numbers, parentVars
<1>2. StatusExplained'
  BY DEF IInv, StatusExplained, Left, parentVars
<1> QED BY <1>1, <1>2 DEF IInv

\* A trap pushes a frame or, on a full stack, ends the child.
LEMMA TrapKeepsType ==
    ASSUME ChildType, NEW c \in Call, Trap(c), steps' \in 0 .. MaxSteps, mask' = mask
    PROVE  ChildType'
<1>1. CASE Len(frames) = MaxFrames \/ SIGSYS \in mask
  <2>1. child' = "exiting" /\ cstatus' \in {-SIGSEGV, -SIGSYS} /\ frames' = frames
    BY <1>1 DEF Trap, ChildEnds
  <2> QED BY <2>1 DEF ChildType, SIGSEGV, SIGSYS
<1>2. CASE ~(Len(frames) = MaxFrames \/ SIGSYS \in mask)
  <2>1. frames' = Append(frames, [call |-> c, stub |-> StubOf(c)]) /\ child' = "trap" /\ cstatus' = cstatus
    BY <1>2 DEF Trap
  <2>2. [call |-> c, stub |-> StubOf(c)] \in Frame
    BY DEF Frame, StubOf
  <2>3. frames' \in Seq(Frame) /\ Len(frames') = Len(frames) + 1 /\ frames' # <<>>
    BY <2>1, <2>2 DEF ChildType
  <2>4. Len(frames') <= MaxFrames
    BY <1>2, <2>3, BoundsAssumption DEF ChildType
  <2> QED BY <2>1, <2>3, <2>4 DEF ChildType
<1> QED BY <1>1, <1>2

\* A sequence without its last element.
LEMMA AllButLast ==
    ASSUME NEW S, NEW s \in Seq(S), Len(s) \in Nat \ {0}
    PROVE  /\ SubSeq(s, 1, Len(s) - 1) \in Seq(S)
           /\ Len(SubSeq(s, 1, Len(s) - 1)) = Len(s) - 1
<1> DEFINE front == [i \in 1 .. Len(s) - 1 |-> s[i]]
<1>1. s \in [1 .. Len(s) -> S]
  OBVIOUS
<1>2. SubSeq(s, 1, Len(s) - 1) = front
  <2>1. SubSeq(s, 1, Len(s) - 1) = [i \in 1 .. (1 + (Len(s) - 1) - 1) |-> s[i + 1 - 1]]
    OBVIOUS
  <2> QED BY <1>1, <2>1
<1>3. front \in Seq(S) /\ Len(front) = Len(s) - 1
  BY <1>1
<1> QED BY <1>2, <1>3

\* A stub's return pops its frame; the last one returns to the program.
LEMMA ReturnKeepsType ==
    ASSUME ChildType, child \in {"stub", "reply"}, StubReturns, UNCHANGED <<steps, mask>>
    PROVE  ChildType'
<1>1. /\ frames' = SubSeq(frames, 1, Len(frames) - 1) /\ cstatus' = cstatus
      /\ child' = IF Len(frames) = 1 THEN "run" ELSE "stub"
  BY DEF StubReturns, Pop
<1>2. frames \in Seq(Frame) /\ Len(frames) \in Nat \ {0} /\ Len(frames) <= MaxFrames
  BY DEF ChildType
<1>3. frames' \in Seq(Frame) /\ Len(frames') = Len(frames) - 1
  BY <1>1, <1>2, AllButLast
<1>4. Len(frames') <= MaxFrames
  BY <1>2, <1>3, BoundsAssumption
<1>5. Len(frames) = 1 => frames' = <<>>
  BY <1>2, <1>3
<1>6. Len(frames) # 1 => frames' # <<>>
  BY <1>2, <1>3
<1> QED BY <1>1, <1>3, <1>4, <1>5, <1>6 DEF ChildType

LEMMA EnableKeepsInv ==
    ASSUME IInv, ChildEnables
    PROVE  IInv'
<1>1. ChildType' /\ toParent' \in Datagrams
  BY DEF ChildEnables, IInv, ChildType, Numbers, signalVars
<1> QED BY <1>1, ChildKeepsInv DEF ChildEnables, signalVars

LEMMA StepsStayBounded ==
    ASSUME IInv, Running
    PROVE  steps' \in 0 .. MaxSteps /\ child = "run"
BY BoundsAssumption DEF Running, IInv, ChildType

LEMMA CallKeepsInv ==
    ASSUME IInv, NEW c \in Syscall, ProgramCalls(c)
    PROVE  IInv'
<1>1. c \in Call /\ steps' \in 0 .. MaxSteps /\ child = "run"
  BY CallAssumption, StepsStayBounded DEF ProgramCalls
<1>2. ChildType'
  <2>1. CASE Trap(c) /\ mask' = mask
    BY <1>1, <2>1, TrapKeepsType DEF IInv
  <2>2. CASE ChildEnds(0) /\ UNCHANGED <<frames, mask>>
    BY <1>1, <2>2 DEF ChildEnds, IInv, ChildType
  <2>3. CASE UNCHANGED <<child, frames, cstatus>>
    <3>1. c.fd \in Int
      BY <1>1 DEF Call
    <3>2. mask' \in {mask, mask \cup {c.fd}, mask \ {c.fd}}
      BY <1>1, <2>3 DEF ProgramCalls, Trap, ChildEnds
    <3>3. mask' \subseteq Int
      BY <3>1, <3>2 DEF IInv, ChildType
    <3> QED BY <1>1, <2>3, <3>3 DEF IInv, ChildType
  <2> QED BY <2>1, <2>2, <2>3 DEF ProgramCalls
<1>3. toParent' \in Datagrams
  BY DEF ProgramCalls, IInv, Numbers
<1> QED BY <1>1, <1>2, <1>3, ChildKeepsInv DEF ProgramCalls

LEMMA PythonKeepsInv ==
    ASSUME IInv, PythonEnds
    PROVE  IInv'
<1>1. child = "run" /\ child' = "exiting" /\ cstatus' \in -64 .. 255
  BY DEF PythonEnds, ChildEnds, ENOENT
<1>2. ChildType' /\ toParent' \in Datagrams
  BY <1>1 DEF PythonEnds, IInv, ChildType, Numbers, signalVars
<1> QED BY <1>1, <1>2, ChildKeepsInv DEF PythonEnds, signalVars

LEMMA AskKeepsInv ==
    ASSUME IInv, NEW name, NEW buflen, ProgramAsksUser(name, buflen)
    PROVE  IInv'
<1>1. steps' \in 0 .. MaxSteps /\ child = "run"
  BY StepsStayBounded DEF ProgramAsksUser
<1>2. ChildType' /\ toParent' \in Datagrams
  BY <1>1 DEF ProgramAsksUser, IInv, ChildType, Numbers, signalVars
<1> QED BY <1>1, <1>2, ChildKeepsInv DEF ProgramAsksUser, signalVars

LEMMA WriteKeepsInv ==
    ASSUME IInv, NEW d \in Raw, ProgramWrites(d)
    PROVE  IInv'
<1>1. steps' \in 0 .. MaxSteps /\ child = "run"
  BY StepsStayBounded DEF ProgramWrites
<1>2. ChildType'
  BY <1>1 DEF ProgramWrites, IInv, ChildType, signalVars
<1>3. toParent' \in Datagrams
  BY DEF ProgramWrites, IInv, Numbers, Datagrams
<1> QED BY <1>1, <1>2, <1>3, ChildKeepsInv DEF ProgramWrites, signalVars

\* A handler that goes on, or ends the child, with its frame in place.
LEMMA FramesStay ==
    ASSUME ChildType, child \in {"trap", "stub"}, UNCHANGED <<frames, steps, mask>>,
           child' \in {"stub", "reply", "exiting"},
           cstatus' = cstatus \/ cstatus' \in 0 .. 255
    PROVE  ChildType'
<1>1. frames # <<>> /\ frames' = frames
  BY DEF ChildType
<1>2. cstatus' \in -64 .. 255
  <2>1. cstatus \in -64 .. 255
    BY DEF ChildType
  <2>2. CASE cstatus' = cstatus
    BY <2>1, <2>2
  <2>3. CASE cstatus' \in 0 .. 255
    BY <2>3
  <2> QED BY <2>2, <2>3
<1>3. frames' \in Seq(Frame) /\ Len(frames') <= MaxFrames /\ steps' \in 0 .. MaxSteps /\ mask' \subseteq Int
  BY DEF ChildType
<1> QED BY <1>1, <1>2, <1>3 DEF ChildType

LEMMA SigsysKeepsInv ==
    ASSUME IInv, SigsysHandler
    PROVE  IInv'
<1>1. child = "trap" /\ UNCHANGED <<frames, steps, mask, toParent, parentVars, sigterm, host>>
  BY DEF SigsysHandler, signalVars
<1>2. \/ child' = "exiting" /\ cstatus' = 31
      \/ child' = "stub" /\ cstatus' = cstatus
  BY DEF SigsysHandler, ChildEnds, SIGSYS
<1>3. ChildType'
  BY <1>1, <1>2, FramesStay DEF IInv
<1>4. toParent' \in Datagrams
  BY <1>1 DEF IInv, Numbers
<1> QED BY <1>1, <1>3, <1>4, ChildKeepsInv

LEMMA OpenKeepsInv ==
    ASSUME IInv, OpenStub \/ OpenReply
    PROVE  IInv'
<1>1. CASE OpenStub
  <2>1. ChildType'
    <3>1. child = "stub" /\ UNCHANGED <<frames, steps, mask>>
      BY <1>1 DEF OpenStub, signalVars
    <3>2. \/ child' = "exiting" /\ cstatus' = 5
          \/ child' = "reply" /\ cstatus' = cstatus
      BY <1>1 DEF OpenStub, ChildEnds, EIO
    <3> QED BY <3>1, <3>2, FramesStay DEF IInv
  <2>2. toParent' \in Datagrams
    BY <1>1 DEF OpenStub, IInv, Numbers, Datagrams
  <2> QED BY <1>1, <2>1, <2>2, ChildKeepsInv DEF OpenStub, signalVars
<1>2. CASE OpenReply
  <2>1. ChildType'
    BY <1>2, ReturnKeepsType DEF OpenReply, IInv, signalVars
  <2>2. toParent' \in Datagrams
    BY <1>2 DEF OpenReply, IInv, Numbers
  <2> QED BY <1>2, <2>1, <2>2, ChildKeepsInv DEF OpenReply, signalVars
<1> QED BY <1>1, <1>2

\* The call of the topmost frame.
LEMMA TopIsCall ==
    ASSUME ChildType, child = "stub"
    PROVE  Top.call \in Call
<1>1. frames \in Seq(Frame) /\ Len(frames) \in 1 .. Len(frames)
  BY DEF ChildType
<1>2. Top \in Frame
  BY <1>1 DEF Top
<1> QED BY <1>2 DEF Frame

\* The calls the mmap stub derives from the one that was trapped.
LEMMA ChangedCall ==
    ASSUME NEW c \in Call, NEW n \in Int, NEW name \in DOMAIN Number, NEW f \in SUBSET Flag
    PROVE  [c EXCEPT !.flags = f] \in Call /\ [c EXCEPT !.nr = n, !.name = name] \in Call
BY DEF Call

LEMMA MmapKeepsInv ==
    ASSUME IInv, MmapStub
    PROVE  IInv'
<1> DEFINE inner == [Top.call EXCEPT !.flags = @ \cup {"MAP_ANONYMOUS"}]
           seek == [Top.call EXCEPT !.nr = Number["lseek"], !.name = "lseek"]
<1>1. child = "stub" /\ UNCHANGED <<parentVars, sigterm, mask, host, steps, toParent>>
  BY DEF MmapStub, signalVars
<1>2. Top.call \in Call
  BY <1>1, TopIsCall DEF IInv
<1>3. inner \in Call /\ seek \in Call
  <2>1. Top.call.flags \cup {"MAP_ANONYMOUS"} \in SUBSET Flag
    BY <1>2 DEF Call, Flag
  <2>2. "lseek" \in DOMAIN Number /\ Number["lseek"] \in Int
    BY NumbersOfStubs DEF arg_map
  <2> QED BY <1>2, <2>1, <2>2, ChangedCall
<1>4. steps' \in 0 .. MaxSteps
  BY <1>1 DEF IInv, ChildType
<1>5. ChildType'
  <2> HIDE DEF inner, seek
  <2>1. CASE StubReturns
    BY <1>1, <2>1, ReturnKeepsType DEF IInv
  <2>2. CASE Trap(seek)
    BY <1>1, <1>3, <1>4, <2>2, TrapKeepsType DEF IInv
  <2>3. CASE Trap(inner)
    BY <1>1, <1>3, <1>4, <2>3, TrapKeepsType DEF IInv
  <2> QED BY <2>1, <2>2, <2>3 DEF MmapStub, inner, seek
<1>6. toParent' \in Datagrams
  BY <1>1 DEF IInv, Numbers
<1> QED BY <1>1, <1>5, <1>6, ChildKeepsInv

LEMMA TrampolineKeepsInv ==
    ASSUME IInv, TrampolineStub
    PROVE  IInv'
<1> DEFINE c == [nr |-> Number["fcntl"], name |-> "fcntl", fd |-> PIPEOUT, cmd |-> "F_GETFL", flags |-> {}]
<1>1. c \in Call
  <2>1. /\ "fcntl" \in DOMAIN Number /\ Number["fcntl"] \in Int
        /\ PIPEOUT \in Int /\ "F_GETFL" \in Command
    BY NumbersOfStubs DEF PIPEOUT, Command, arg_map
  <2> QED BY <2>1 DEF Call
<1>2. child = "stub" /\ Trap(c) /\ UNCHANGED <<parentVars, sigterm, mask, host, steps, toParent>>
  BY DEF TrampolineStub, signalVars
<1>3. steps' \in 0 .. MaxSteps /\ toParent' \in Datagrams
  BY <1>2 DEF IInv, ChildType, Numbers
<1>4. ChildType'
  <2> HIDE DEF c
  <2> QED BY <1>1, <1>2, <1>3, TrapKeepsType DEF IInv
<1> QED BY <1>2, <1>3, <1>4, ChildKeepsInv

LEMMA KilledKeepsInv ==
    ASSUME IInv, ChildKilled \/ ChildTerminates
    PROVE  IInv'
<1>1. CASE ChildKilled
  <2>1. ChildType' /\ toParent' \in Datagrams
    BY <1>1 DEF ChildKilled, ChildEnds, SIGTERM, IInv, ChildType, Numbers, signalVars
  <2> QED BY <1>1, <2>1, ChildKeepsInv DEF ChildKilled, signalVars
<1>2. CASE ChildTerminates
  <2>1. ChildType' /\ toParent' \in Datagrams
    BY <1>2 DEF ChildTerminates, IInv, ChildType, Numbers, signalVars
  <2> QED BY <1>2, <2>1, ChildKeepsInv DEF ChildTerminates, signalVars
<1> QED BY <1>1, <1>2

-----------------------------------------------------------------------------
(* The parent.  Within the loop there is no status yet; every way out of   *)
(* it sets one that is explained.                                          *)

LEMMA LoopKeepsInv ==
    ASSUME IInv, UNCHANGED <<childVars, host>>, ParentType', Numbers', ~Left,
           ~Left' \/ pstatus' # 0 \/ host = "closed"
    PROVE  IInv'
<1>1. ChildType'
  BY DEF IInv, ChildType, childVars, signalVars
<1>2. ~sigterm /\ ~sigterm' /\ host' = host
  BY DEF IInv, StatusExplained, childVars, signalVars
<1> QED BY <1>1, <1>2 DEF IInv, StatusExplained

\* The smaller of two numbers is one of them.
LEMMA LeastIsNat ==
    ASSUME NEW a \in Nat, NEW b \in Nat
    PROVE  Least(a, b) \in Nat
BY DEF Least

LEMMA HeaderKeepsInv ==
    ASSUME IInv, ReadHeader
    PROVE  IInv'
<1> DEFINE d == Head(toParent)
<1>1. parent = "loop" /\ toParent # <<>> /\ UNCHANGED <<childVars, pstatus, length, host>> /\ str' = 0
      /\ toParent' = Tail(toParent)
  BY DEF ReadHeader
<1>2. d.size \in Nat /\ d.nr \in Nat /\ toParent' \in Datagrams
  BY <1>1, NextDatagram DEF IInv
<1>3. Least(d.size, HeaderSize) \in Nat
  BY <1>2, LeastIsNat DEF HeaderSize
<1>4. ret' \in Int /\ parent' \in {"kill", "args", "dispatch", "forward"}
  BY <1>3 DEF ReadHeader, Fail
<1>5. fnamelen' \in Nat
  BY <1>2 DEF ReadHeader, IInv, Numbers
<1>6. ParentType' /\ Numbers'
  BY <1>1, <1>2, <1>4, <1>5 DEF IInv, ParentType, Numbers
<1> QED BY <1>1, <1>4, <1>6, LoopKeepsInv DEF Left

LEMMA ArgsKeepsInv ==
    ASSUME IInv, ReadArgs
    PROVE  IInv'
<1> DEFINE d == Head(toParent)
<1>1. parent = "args" /\ toParent # <<>> /\ UNCHANGED <<childVars, pstatus, length, fnamelen, host>>
      /\ toParent' = Tail(toParent)
  BY DEF ReadArgs
<1>2. d.size \in Nat /\ d.str \in Nat /\ toParent' \in Datagrams /\ length \in Nat
  BY <1>1, NextDatagram DEF IInv, Numbers
<1>3. Least(d.size, length) \in Nat /\ Least(d.str, length) \in Nat
  BY <1>2, LeastIsNat
<1>4. ret' \in Int /\ parent' \in {"kill", "dispatch"} /\ str' \in Nat
  BY <1>3 DEF ReadArgs, Fail, IInv, ParentType
<1>5. ParentType' /\ Numbers'
  BY <1>1, <1>2, <1>4 DEF IInv, ParentType, Numbers
<1> QED BY <1>1, <1>4, <1>5, LoopKeepsInv DEF Left

\* The statuses the parent leaves when a call of trampoline does not return.
LEMMA ExitStatus ==
    ASSUME HostExits
    PROVE  parent' = "returning" /\ pstatus' \in 0 .. 255 /\ (pstatus' # 0 \/ host = "closed")
<1>1. CASE host = "open" /\ ParentExits(EPROTO)
  BY <1>1 DEF ParentExits, EPROTO
<1>2. CASE host = "closed" /\ \E e \in Errno : ParentExits(-e)
  <2>1. PICK e \in Errno : parent' = "returning" /\ pstatus' = (-e) % 256
    BY <1>2 DEF ParentExits
  <2>2. -e \in Int
    BY BoundsAssumption
  <2> QED BY <1>2, <2>1, <2>2
<1> QED BY <1>1, <1>2 DEF HostExits

LEMMA DispatchKeepsInv ==
    ASSUME IInv, Dispatch
    PROVE  IInv'
<1>1. parent = "dispatch" /\ UNCHANGED <<childVars, fnamelen, length, str, toParent, host>>
  BY DEF Dispatch
<1>2. \/ parent' \in {"kill", "loop"} /\ ret' \in {-1, 8} /\ pstatus' = pstatus
      \/ parent' = "returning" /\ pstatus' \in {1, 139} /\ ret' = ret
      \/ HostExits /\ ret' = ret
  BY DEF Dispatch, Fail, ParentExits, SIGSEGV
<1>3. \/ parent' \in {"kill", "loop"} /\ ret' \in {-1, 8} /\ pstatus' = pstatus
      \/ /\ parent' = "returning" /\ pstatus' \in 0 .. 255 /\ ret' = ret
         /\ pstatus' # 0 \/ host = "closed"
  BY <1>2, ExitStatus
<1>4. ParentType' /\ Numbers'
  BY <1>1, <1>3 DEF IInv, ParentType, Numbers
<1> QED BY <1>1, <1>3, <1>4, LoopKeepsInv DEF Left

LEMMA ForwardKeepsInv ==
    ASSUME IInv, Forward
    PROVE  IInv'
<1>1. parent = "forward" /\ UNCHANGED <<childVars, fnamelen, length, str, host>> /\ fnamelen + length \in Nat
  BY DEF Forward, IInv, Numbers
<1>2. \/ parent' \in {"kill", "loop"} /\ ret' \in Int /\ pstatus' = pstatus
      \/ HostExits /\ ret' = ret
  BY <1>1 DEF Forward, Fail
<1>3. \/ parent' \in {"kill", "loop"} /\ ret' \in Int /\ pstatus' = pstatus
      \/ /\ parent' = "returning" /\ pstatus' \in 0 .. 255 /\ ret' = ret
         /\ pstatus' # 0 \/ host = "closed"
  BY <1>2, ExitStatus
<1>4. toParent' \in Datagrams
  <2>1. toParent # <<>> => Tail(toParent) \in Datagrams
    BY NextDatagram DEF IInv
  <2> QED BY <2>1 DEF Forward, IInv, Numbers
<1>5. ParentType' /\ Numbers'
  BY <1>1, <1>3, <1>4 DEF IInv, ParentType, Numbers
<1> QED BY <1>1, <1>3, <1>5, LoopKeepsInv DEF Left

\* The count the loop gave up on becomes the status.
LEMMA KillKeepsInv ==
    ASSUME IInv, KillChild
    PROVE  IInv'
<1>1. /\ sigterm' = TRUE /\ parent' = "returning" /\ pstatus' = ret % 256 /\ ret' = ret
      /\ UNCHANGED <<child, frames, cstatus, mask, steps, fnamelen, length, str, toParent, host>>
  BY DEF KillChild, ParentExits
<1>2. ret \in Int /\ ret % 256 \in 0 .. 255
  BY DEF IInv, ParentType
<1>3. ChildType'
  BY <1>1 DEF IInv, ChildType
<1>4. ParentType' /\ Numbers'
  BY <1>1, <1>2 DEF IInv, ParentType, Numbers
<1>5. StatusExplained'
  BY <1>1 DEF StatusExplained, Left
<1> QED BY <1>3, <1>4, <1>5 DEF IInv

LEMMA EndKeepsInv ==
    ASSUME IInv, ParentEnds
    PROVE  IInv'
<1>1. /\ parent = "returning" /\ parent' = "exited"
      /\ child' = IF child = "zombie" THEN "gone" ELSE child
      /\ UNCHANGED <<frames, cstatus, sigterm, mask, steps, ret, pstatus, fnamelen, length, str, toParent, host>>
  BY DEF ParentEnds, signalVars
<1>2. ChildType'
  BY <1>1 DEF IInv, ChildType
<1>3. ParentType' /\ Numbers'
  BY <1>1 DEF IInv, ParentType, Numbers
<1>4. StatusExplained'
  BY <1>1 DEF IInv, StatusExplained, Left
<1> QED BY <1>2, <1>3, <1>4 DEF IInv

\* The status of the child is 0 only when its low eight bits are.
LEMMA HandlerKeepsInv ==
    ASSUME IInv, SigchldHandler
    PROVE  IInv'
<1>1. /\ parent' = "exited" /\ pstatus' = cstatus % 256 /\ child' = "gone"
      /\ UNCHANGED <<frames, cstatus, sigterm, mask, steps, ret, fnamelen, length, str, toParent, host>>
  BY DEF SigchldHandler, signalVars
<1>2. cstatus \in -64 .. 255
  BY DEF IInv, ChildType
<1>3. cstatus % 256 \in 0 .. 255 /\ (cstatus % 256 = 0 => cstatus = 0)
  BY <1>2
<1>4. ChildType'
  BY <1>1 DEF IInv, ChildType
<1>5. ParentType' /\ Numbers'
  BY <1>1, <1>3 DEF IInv, ParentType, Numbers
<1>6. StatusExplained'
  BY <1>1, <1>3 DEF StatusExplained, Left
<1> QED BY <1>4, <1>5, <1>6 DEF IInv

\* The host ends and changes nothing of the two processes.
LEMMA HostKeepsInv ==
    ASSUME IInv, HostCloses
    PROVE  IInv'
<1>1. host' = "closed" /\ UNCHANGED <<childVars, parentVars, toParent>>
  BY DEF HostCloses
<1>2. ChildType' /\ ParentType' /\ Numbers'
  BY <1>1 DEF childVars, signalVars, parentVars, IInv, ChildType, ParentType, Numbers
<1>3. StatusExplained'
  BY <1>1 DEF childVars, signalVars, parentVars, IInv, StatusExplained, Left
<1> QED BY <1>2, <1>3 DEF IInv

-----------------------------------------------------------------------------

\* Every step of program, child, parent and host keeps the invariant.
LEMMA Inductive == Spec => []IInv
<1>1. IInv /\ [Next]_vars => IInv'
  <2> SUFFICES ASSUME IInv, [Next]_vars PROVE IInv'
    OBVIOUS
  <2>1. CASE Program
    BY <2>1, PythonKeepsInv, CallKeepsInv, WriteKeepsInv, AskKeepsInv DEF Program
  <2>2. CASE ChildStep
    BY <2>2, EnableKeepsInv, SigsysKeepsInv, OpenKeepsInv, MmapKeepsInv, TrampolineKeepsInv,
       KilledKeepsInv DEF ChildStep
  <2>3. CASE ParentStep
    BY <2>3, HeaderKeepsInv, ArgsKeepsInv, DispatchKeepsInv, ForwardKeepsInv, KillKeepsInv,
       EndKeepsInv, HandlerKeepsInv DEF ParentStep
  <2>4. CASE UNCHANGED vars
    <3>1. UNCHANGED <<childVars, parentVars, toParent, host>>
      BY <2>4 DEF vars
    <3>2. ChildType' /\ ParentType' /\ Numbers'
      BY <3>1 DEF childVars, signalVars, parentVars, IInv, ChildType, ParentType, Numbers
    <3>3. StatusExplained'
      BY <3>1 DEF childVars, signalVars, parentVars, IInv, StatusExplained, Left
    <3> QED BY <3>2, <3>3 DEF IInv
  <2> QED BY <2>1, <2>2, <2>3, <2>4, HostKeepsInv DEF Next
<1> QED BY InitInv, <1>1, PTL DEF Spec

-----------------------------------------------------------------------------
(* The stub of a trapped call *)

\* sigsys_handler finds the stub of the name of a call that has the kernel's number.
LEMMA StubOfName ==
    ASSUME NEW c \in Call, c.nr = Number[c.name]
    PROVE  StubOf(c) = IF c.name \in arg_map THEN c.name ELSE "none"
<1>1. c.name \in DOMAIN Number
  BY DEF Call
<1>2. DOMAIN syscalls = arg_map
  BY DEF syscalls, arg_map
<1>3. ASSUME NEW s \in DOMAIN syscalls, syscalls[s] = c.nr PROVE s = c.name
  <2>1. s \in DOMAIN Number /\ Number[s] = Number[c.name]
    BY <1>2, <1>3, NumbersOfStubs
  <2> QED BY <1>1, <2>1, CallAssumption
<1>4. CASE c.name \in arg_map
  <2>1. c.name \in DOMAIN syscalls /\ syscalls[c.name] = c.nr /\ c.nr < nsyscalls
    BY <1>4, NumbersOfStubs
  <2>2. NameAt(c.nr) = c.name
    BY <1>3, <2>1 DEF NameAt
  <2> QED BY <1>4, <2>1, <2>2 DEF StubOf
<1>5. CASE c.name \notin arg_map
  <2>1. NameAt(c.nr) = "another"
    BY <1>2, <1>3, <1>5 DEF NameAt
  <2>2. "another" \notin arg_map
    BY DEF arg_map
  <2> QED BY <1>5, <2>1, <2>2 DEF StubOf
<1> QED BY <1>4, <1>5

\* Trapped calls have the number of their name, and the stub of it.
NamedFrame(f) ==
    /\ f.call.nr = Number[f.call.name]
    /\ f.stub = IF f.call.name \in arg_map THEN f.call.name ELSE "none"

FramesNamed == \A k \in DOMAIN frames : NamedFrame(frames[k])

LEMMA TrapKeepsNames ==
    ASSUME ChildType, FramesNamed, NEW c \in Call, c.nr = Number[c.name], Trap(c)
    PROVE  FramesNamed'
<1>1. CASE frames' = frames
  BY <1>1 DEF FramesNamed
<1>2. CASE frames' = Append(frames, [call |-> c, stub |-> StubOf(c)])
  <2>1. PICK f : f = [call |-> c, stub |-> StubOf(c)]
    OBVIOUS
  <2>2. NamedFrame(f)
    BY <2>1, StubOfName DEF NamedFrame
  <2>3. /\ frames \in Seq(Frame) /\ frames' = Append(frames, f) /\ f \in Frame
    BY <1>2, <2>1 DEF ChildType, Frame, StubOf
  <2>4. ASSUME NEW k \in DOMAIN frames' PROVE frames'[k] = f \/ (k \in DOMAIN frames /\ frames'[k] = frames[k])
    BY <2>3
  <2> QED BY <2>2, <2>4 DEF FramesNamed
<1> QED BY <1>1, <1>2 DEF Trap

LEMMA ReturnKeepsNames ==
    ASSUME ChildType, FramesNamed, child \in {"stub", "reply"}, StubReturns
    PROVE  FramesNamed'
<1>1. frames' = SubSeq(frames, 1, Len(frames) - 1)
  BY DEF StubReturns, Pop
<1>2. frames \in Seq(Frame) /\ Len(frames) \in Nat \ {0}
  BY DEF ChildType
<1>3. frames' = [i \in 1 .. (1 + (Len(frames) - 1) - 1) |-> frames[i + 1 - 1]]
  BY <1>1, <1>2
<1>4. ASSUME NEW k \in DOMAIN frames' PROVE k \in DOMAIN frames /\ frames'[k] = frames[k]
  BY <1>2, <1>3
<1> QED BY <1>4 DEF FramesNamed

LEMMA MmapKeepsNames ==
    ASSUME IInv, FramesNamed, MmapStub
    PROVE  FramesNamed'
<1>1. PICK c \in Call : c = Top.call
  BY TopIsCall DEF MmapStub, IInv
<1>2. c.nr = Number[c.name]
  <2>1. frames \in Seq(Frame) /\ Len(frames) \in DOMAIN frames
    BY DEF MmapStub, IInv, ChildType
  <2> QED BY <1>1, <2>1 DEF FramesNamed, NamedFrame, Top
<1>3. PICK inner : inner = [c EXCEPT !.flags = @ \cup {"MAP_ANONYMOUS"}]
  OBVIOUS
<1>4. PICK seek : seek = [c EXCEPT !.nr = Number["lseek"], !.name = "lseek"]
  OBVIOUS
<1>5. inner \in Call /\ inner.nr = Number[inner.name]
  <2>1. c.flags \cup {"MAP_ANONYMOUS"} \in SUBSET Flag
    BY DEF Call, Flag
  <2> QED BY <1>2, <1>3, <2>1 DEF Call
<1>6. seek \in Call /\ seek.nr = Number[seek.name]
  <2>1. "lseek" \in DOMAIN Number /\ Number["lseek"] \in Int
    BY NumbersOfStubs DEF arg_map
  <2> QED BY <1>4, <2>1 DEF Call
<1>7. child = "stub" /\ (StubReturns \/ Trap(seek) \/ Trap(inner))
  BY <1>1, <1>3, <1>4 DEF MmapStub
<1>8. CASE StubReturns
  BY <1>7, <1>8, ReturnKeepsNames DEF IInv
<1>9. CASE Trap(seek)
  BY <1>6, <1>9, TrapKeepsNames DEF IInv
<1>10. CASE Trap(inner)
  BY <1>5, <1>10, TrapKeepsNames DEF IInv
<1> QED BY <1>7, <1>8, <1>9, <1>10

LEMMA TrampolineKeepsNames ==
    ASSUME IInv, FramesNamed, TrampolineStub
    PROVE  FramesNamed'
<1>1. PICK c : c = [nr |-> Number["fcntl"], name |-> "fcntl", fd |-> PIPEOUT, cmd |-> "F_GETFL", flags |-> {}]
  OBVIOUS
<1>2. c \in Call /\ c.nr = Number[c.name]
  <2>1. /\ "fcntl" \in DOMAIN Number /\ Number["fcntl"] \in Int
        /\ PIPEOUT \in Int /\ "F_GETFL" \in Command
    BY NumbersOfStubs DEF PIPEOUT, Command, arg_map
  <2> QED BY <1>1, <2>1 DEF Call
<1>3. Trap(c)
  BY <1>1 DEF TrampolineStub
<1> QED BY <1>2, <1>3, TrapKeepsNames DEF IInv

LEMMA StepKeepsNames ==
    ASSUME IInv, FramesNamed, [Next]_vars
    PROVE  FramesNamed'
<1>1. ASSUME UNCHANGED frames PROVE FramesNamed'
  BY <1>1 DEF FramesNamed
<1>2. ASSUME NEW c \in Syscall, ProgramCalls(c) PROVE FramesNamed'
  <2>1. c \in Call /\ c.nr = Number[c.name]
    BY CallAssumption
  <2>2. CASE Trap(c)
    BY <2>1, <2>2, TrapKeepsNames DEF IInv
  <2> QED BY <1>1, <1>2, <2>2 DEF ProgramCalls
<1>3. CASE Program /\ ~\E c \in Syscall : ProgramCalls(c)
  BY <1>1, <1>3 DEF Program, PythonEnds, ProgramWrites, ProgramAsksUser
<1>4. CASE OpenReply
  BY <1>4, ReturnKeepsNames DEF OpenReply, IInv
<1>5. CASE MmapStub \/ TrampolineStub
  BY <1>5, MmapKeepsNames, TrampolineKeepsNames
<1>6. CASE ChildEnables \/ SigsysHandler \/ OpenStub \/ ChildKilled \/ ChildTerminates
  BY <1>1, <1>6 DEF ChildEnables, SigsysHandler, OpenStub, ChildKilled, ChildTerminates
<1>7. CASE ParentStep \/ HostCloses
  BY <1>1, <1>7 DEF HostCloses, ParentStep, ReadHeader, ReadArgs, Dispatch, Forward, KillChild, ParentEnds,
                    SigchldHandler, childVars
<1>8. CASE UNCHANGED vars
  BY <1>1, <1>8 DEF vars, childVars
<1> QED BY <1>2, <1>3, <1>4, <1>5, <1>6, <1>7, <1>8 DEF Next, ChildStep

\* For every program, every number of nested traps and every call that a stub
\* makes itself, sigsys_handler finds the stub of the call that was trapped.
THEOREM TrapsFindStubs == Spec => []TrapFindsStub
<1>1. Init => FramesNamed
  BY DEF Init, FramesNamed
<1>2. IInv /\ FramesNamed /\ [Next]_vars => FramesNamed'
  BY StepKeepsNames
<1>3. FramesNamed => TrapFindsStub
  BY DEF FramesNamed, NamedFrame, TrapFindsStub
<1> QED BY <1>1, <1>2, <1>3, Inductive, PTL DEF Spec

-----------------------------------------------------------------------------
(* The preloaded library *)

\* An entry in a buffer of any size.
LEMMA AnswerIsWhole ==
    ASSUME NEW who \in {"sandbox", "root"}, NEW buflen \in Nat, pw' = Answer(who, buflen)
    PROVE  PwEntryIsWhole'
<1>1. CASE pw' = NoEntry(ERANGE)
  BY <1>1 DEF PwEntryIsWhole, NoEntry
<1>2. CASE pw' # NoEntry(ERANGE)
  <2>1. /\ Account[who].size <= buflen
        /\ pw' = [code |-> 0, who |-> who, off |-> Account[who].off,
                  uid |-> Account[who].uid, gid |-> Account[who].gid, buflen |-> buflen]
    BY <1>2 DEF Answer, Account
  <2>2. CASE who = "sandbox"
    <3>1. /\ pw'.off = <<0, 8, 10, 11, 16>> /\ Account[who].len = <<7, 1, 0, 4, 10>> /\ 27 <= buflen
          /\ pw'.who = "sandbox" /\ pw'.uid = SB_UID /\ pw'.gid = SB_GID /\ pw'.buflen = buflen
      BY <2>1, <2>2 DEF Account
    <3>2. Getpwnam("sandbox") = "sandbox" /\ Getpwuid(SB_UID) = "sandbox"
      BY DEF Getpwnam, Getpwuid, Static
    <3>3. Static["sandbox"] = [uid |-> SB_UID, gid |-> SB_GID, len |-> <<7, 1, 0, 4, 10>>]
      BY DEF Static
    <3> QED BY <2>2, <3>1, <3>2, <3>3 DEF PwEntryIsWhole
  <2>3. CASE who = "root"
    <3>1. /\ pw'.off = <<0, 5, 7, 8, 14>> /\ Account[who].len = <<4, 1, 0, 5, 7>> /\ 22 <= buflen
          /\ pw'.who = "root" /\ pw'.uid = 0 /\ pw'.gid = 0 /\ pw'.buflen = buflen
      BY <2>1, <2>3 DEF Account
    <3>2. Getpwnam("root") = "root" /\ Getpwuid(0) = "root"
      BY DEF Getpwnam, Getpwuid, Static, SB_UID
    <3>3. Static["root"] = [uid |-> 0, gid |-> 0, len |-> <<4, 1, 0, 5, 7>>]
      BY DEF Static
    <3> QED BY <2>3, <3>1, <3>2, <3>3 DEF PwEntryIsWhole
  <2> QED BY <2>2, <2>3
<1> QED BY <1>1, <1>2

LEMMA StepKeepsEntry ==
    ASSUME PwEntryIsWhole, [Next]_vars
    PROVE  PwEntryIsWhole'
<1>1. ASSUME UNCHANGED pw PROVE PwEntryIsWhole'
  BY <1>1 DEF PwEntryIsWhole
<1>2. ASSUME NEW name, NEW buflen \in BufLen, ProgramAsksUser(name, buflen) PROVE PwEntryIsWhole'
  <2>1. buflen \in Nat
    BY BoundsAssumption
  <2>2. \/ pw' = NoEntry(0)
        \/ \E who \in {"sandbox", "root"} : pw' = Answer(who, buflen)
    BY <1>2 DEF ProgramAsksUser, GetpwnamR, GetpwuidR, Account
  <2>3. CASE pw' = NoEntry(0)
    BY <2>3 DEF PwEntryIsWhole, NoEntry
  <2> QED BY <2>1, <2>2, <2>3, AnswerIsWhole
<1>3. CASE Program /\ ~\E name \in {"sandbox", "root", "other"}, buflen \in BufLen : ProgramAsksUser(name, buflen)
  BY <1>1, <1>3 DEF Program, PythonEnds, ProgramWrites, ProgramCalls, preloadVars
<1>4. CASE ChildStep
  BY <1>1, <1>4 DEF ChildStep, ChildEnables, EnableSandbox, SigsysHandler, OpenStub, OpenReply,
                    MmapStub, TrampolineStub, ChildKilled, ChildTerminates, preloadVars
<1>5. CASE ParentStep \/ HostCloses
  BY <1>1, <1>5 DEF HostCloses, ParentStep, ReadHeader, ReadArgs, Dispatch, Forward, KillChild, ParentEnds,
                    SigchldHandler, preloadVars
<1>6. CASE UNCHANGED vars
  BY <1>1, <1>6 DEF vars, preloadVars
<1> QED BY <1>2, <1>3, <1>4, <1>5, <1>6 DEF Next, Program

\* For every size of the caller's buffer, getpwnam_r and getpwuid_r return an
\* entry whose strings lie one behind the other and end within the buffer.
THEOREM EntriesAreWhole == Spec => []PwEntryIsWhole
<1>1. Init => PwEntryIsWhole
  BY DEF Init, PreloadInit, NoEntry, PwEntryIsWhole
<1> QED BY <1>1, StepKeepsEntry, PTL DEF Spec

-----------------------------------------------------------------------------

\* For every program, the handlers never have more frames than the stack has
\* room for, a stub always has its frame, and statuses are of eight bits.
THEOREM TypeCorrect == Spec => []TypeOK
<1>1. IInv => TypeOK
  BY TypeParts DEF IInv
<1> QED BY Inductive, <1>1, PTL

\* For every program, value of length and errno, and interleaving of kill, exit,
\* SIGCHLD and the host's end, 0 is the child's own status, a count of bytes, or what
\* a host that closed its pipes under a call left in errno.
THEOREM SuccessIsTheChilds == Spec => []SuccessIsChilds
<1>1. IInv => SuccessIsChilds
  BY DEF IInv, StatusExplained, Left, SuccessIsChilds
<1> QED BY Inductive, <1>1, PTL

===============================================================================
