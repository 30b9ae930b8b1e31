--------------------------- MODULE LifecycleProofs ---------------------------
(***************************************************************************)
(* Proofs about Lifecycle, for both sizes of unsigned long, every length   *)
(* of the python path and all codes of results.                            *)
(***************************************************************************)
EXTENDS Lifecycle, TLAPS

\* The handler is there from before the fork on: sandbox.c registers it first.
HandlerInPlace ==
    parent = "registered" \/ child # "none" \/ sigchld => handler

\* A signal that ends a process is not 0, so minus the signal is not success.
SignalsAreSignals == cstatus.by = "signal" => cstatus.n \in 1 .. 127

\* The host's last result had a code that exit turns into 0.
CodeIsLost == pipe = "idle" /\ code # 0 /\ ExitStatus(code) = 0

\* A parent on its way out with status 0 lost its host, or such a code.
ReturnsAreFailures ==
    parent = "returning" /\ pstatus = 0 => host # "serving" \/ CodeIsLost

\* How far the parent is tells what it has sent, and so how far the child is.
\* (A child that is exiting, zombie or gone no longer reads.)
Handshake ==
    /\ parent \in {"main", "registered"} => child = "none"
    /\ child = "none" =>
         parent \in {"main", "registered", "returning", "exited"} /\ toChild = <<>>
    /\ parent \in {"getlimits", "sendlimits"} =>
         child \notin {"sandbox", "pathlen", "path"} /\ toChild = <<>>
    /\ parent \in {"getfs", "getpythonpath", "sendpath"} =>
         /\ child # "path"
         /\ child \in {"setup", "limits"} => Len(toChild) = 1
         /\ child \in {"sandbox", "pathlen"} => toChild = <<>>
    /\ child # "python"

\* The inductive invariant.
IInv ==
    /\ TypeOK
    /\ SigchldNotLost /\ HandlerInPlace
    /\ SuccessIsExplained /\ SignalsAreSignals /\ ReturnsAreFailures
    /\ HandshakeOrder /\ Handshake

\* The parts of IInv that the provers take up together.
Signals == SigchldNotLost /\ HandlerInPlace
Success == SuccessIsExplained /\ SignalsAreSignals /\ ReturnsAreFailures
Order == HandshakeOrder /\ Handshake

-----------------------------------------------------------------------------

\* exit() keeps the low eight bits of its argument.
LEMMA ExitStatusIsByte ==
    ASSUME NEW n \in Int
    PROVE  ExitStatus(n) \in 0 .. 255
BY DEF ExitStatus

\* exit(-(WTERMSIG(status))) and exit(-errno) are not success.
LEMMA MinusStatus ==
    ASSUME NEW n \in 1 .. 255
    PROVE  ExitStatus(-n) \in 1 .. 255
<1>1. (-n) % 256 = 256 - n
  OBVIOUS
<1> QED BY <1>1 DEF ExitStatus

\* A small positive code is kept.
LEMMA SmallStatus ==
    ASSUME NEW n \in 0 .. 255
    PROVE  ExitStatus(n) = n
BY DEF ExitStatus

\* The codes main, run_parent and run_child return for their failures are not
\* success.
LEMMA FailureCodes ==
    /\ ExitStatus(1) \in 1 .. 255 /\ ExitStatus(-1) \in 1 .. 255
    /\ ExitStatus(-32) \in 1 .. 255 /\ ExitStatus(EPROTO) \in 1 .. 255
    /\ ExitStatus(0) = 0
<1>1. ExitStatus(-1) \in 1 .. 255 /\ ExitStatus(-32) \in 1 .. 255
  BY MinusStatus
<1>2. ExitStatus(0) = 0 /\ ExitStatus(1) = 1 /\ ExitStatus(71) = 71
  BY SmallStatus
<1> QED BY <1>1, <1>2 DEF EPROTO

\* What is in a sequence of datagrams is a datagram.
LEMMA ElementType ==
    ASSUME NEW S, NEW s \in Seq(S), NEW i \in 1 .. Len(s)
    PROVE  s[i] \in S
OBVIOUS

\* The sizes of the datagrams are numbers.
LEMMA DatagramType ==
    ASSUME NEW send \in Sends
    PROVE  Datagram(send) \in [kind : {"limits", "path"}, size : Nat]
BY AbiAssumption DEF Sends, Datagram, IntSize

\* The invariant holds at first: no process but the parent, nothing sent.
LEMMA InitInv == Init => IInv
<1> SUFFICES ASSUME Init PROVE IInv OBVIOUS
<1>1. TypeOK
  <2>1. cstatus \in [by : {"exit", "signal"}, n : 0 .. 255]
    BY DEF Init
  <2>2. toChild \in Seq([kind : {"limits", "path"}, size : Nat])
    BY DEF Init
  <2>3. code \in Int
    BY DEF Init
  <2> QED BY <2>1, <2>2, <2>3 DEF Init, TypeOK, ParentPc, ChildPc
<1>2. HandshakeOrder /\ Handshake
  BY DEF Init, HandshakeOrder, Handshake
<1> QED
  BY <1>1, <1>2 DEF Init, IInv, SigchldNotLost, HandlerInPlace, SuccessIsExplained,
         SignalsAreSignals, ReturnsAreFailures, CodeIsLost

\* Sigaction preserves the invariant.
LEMMA SigactionInv == IInv /\ Sigaction => IInv'
<1> SUFFICES ASSUME IInv, Sigaction PROVE IInv' OBVIOUS
<1>1. TypeOK'
    BY DEF IInv, TypeOK, ParentPc, ChildPc, hostVars, parentVars, childVars,
         Sigaction, Calls, Sends, Reads
<1>2. Signals'
  BY DEF IInv, TypeOK, Signals, SigchldNotLost, HandlerInPlace, ParentAlive,
         hostVars, parentVars, childVars, Sigaction
<1>3. Success'
  BY DEF IInv, TypeOK, Success, SuccessIsExplained, SignalsAreSignals,
         ReturnsAreFailures, CodeIsLost, hostVars, parentVars, childVars, Sigaction
<1>4. Order'
  BY DEF IInv, TypeOK, Order, HandshakeOrder, Handshake, hostVars, parentVars,
         childVars, Sigaction
<1> QED BY <1>1, <1>2, <1>3, <1>4 DEF IInv, Signals, Success, Order

\* MainFails preserves the invariant.
LEMMA MainFailsInv == IInv /\ MainFails => IInv'
<1> SUFFICES ASSUME IInv, MainFails PROVE IInv' OBVIOUS
<1>0. parent' = "returning" /\ pstatus' \in 1 .. 255
  BY FailureCodes DEF MainFails, ParentReturns
<1>1. TypeOK'
  BY <1>0 DEF IInv, TypeOK, ParentPc, ChildPc, Calls, Sends, Reads,
         hostVars, parentVars, childVars, MainFails
<1>2. Signals'
  BY <1>0 DEF IInv, TypeOK, Signals, SigchldNotLost, HandlerInPlace, ParentAlive,
         hostVars, parentVars, childVars, MainFails
<1>3. Success'
  <2>1. pstatus' # 0 BY <1>0
  <2> QED BY <1>0, <2>1 DEF IInv, TypeOK, Success, SuccessIsExplained, SignalsAreSignals,
         ReturnsAreFailures, CodeIsLost, hostVars, parentVars, childVars, MainFails
<1>4. Order'
  BY <1>0 DEF IInv, TypeOK, Order, HandshakeOrder, Handshake, hostVars,
         parentVars, childVars, MainFails
<1> QED BY <1>1, <1>2, <1>3, <1>4 DEF IInv, Signals, Success, Order

\* Fork preserves the invariant.
LEMMA ForkInv == IInv /\ Fork => IInv'
<1> SUFFICES ASSUME IInv, Fork PROVE IInv' OBVIOUS
<1>1. TypeOK'
    BY DEF IInv, TypeOK, ParentPc, ChildPc, hostVars, parentVars, childVars,
         Fork, Calls, Sends, Reads
<1>2. Signals'
  BY DEF IInv, TypeOK, Signals, SigchldNotLost, HandlerInPlace, ParentAlive,
         hostVars, parentVars, childVars, Fork
<1>3. Success'
  BY DEF IInv, TypeOK, Success, SuccessIsExplained, SignalsAreSignals,
         ReturnsAreFailures, CodeIsLost, hostVars, parentVars, childVars, Fork
<1>4. Order'
  BY DEF IInv, TypeOK, Order, HandshakeOrder, Handshake, hostVars, parentVars,
         childVars, Fork
<1> QED BY <1>1, <1>2, <1>3, <1>4 DEF IInv, Signals, Success, Order

\* Call preserves the invariant.
LEMMA CallInv == IInv /\ Call => IInv'
<1> SUFFICES ASSUME IInv, Call PROVE IInv' OBVIOUS
<1>1. TypeOK'
    BY DEF IInv, TypeOK, ParentPc, ChildPc, hostVars, parentVars, childVars,
         Call, Calls, Sends, Reads
<1>2. Signals'
  BY DEF IInv, TypeOK, Signals, SigchldNotLost, HandlerInPlace, ParentAlive,
         hostVars, parentVars, childVars, Call
<1>3. Success'
  <2>1. parent \in Calls /\ parent' = parent /\ cstatus' = cstatus
    BY DEF Call, parentVars, childVars
  <2>2. parent \notin {"returning", "exited"}
    BY <2>1 DEF Calls
  <2> QED BY <2>1, <2>2 DEF IInv, TypeOK, Success, SuccessIsExplained, SignalsAreSignals,
         ReturnsAreFailures, CodeIsLost, hostVars, parentVars, childVars, Call
<1>4. Order'
  BY DEF IInv, TypeOK, Order, HandshakeOrder, Handshake, hostVars, parentVars,
         childVars, Call
<1> QED BY <1>1, <1>2, <1>3, <1>4 DEF IInv, Signals, Success, Order

\* Reply preserves the invariant.
LEMMA ReplyInv == IInv /\ Reply => IInv'
<1> SUFFICES ASSUME IInv, Reply PROVE IInv' OBVIOUS
<1>0. \/ parent' = "returning" /\ pstatus' \in 0 .. 255 /\ (pstatus' = 0 => CodeIsLost')
      \/ /\ \/ parent = "getlimits" /\ parent' = "sendlimits"
            \/ parent = "getfs" /\ parent' = "getpythonpath"
            \/ parent = "getpythonpath" /\ parent' = "sendpath"
         /\ pstatus' = pstatus
  <2>1. CASE pipe = "result" /\ code = 0 /\ parent' = After(parent) /\ pstatus' = pstatus
    BY <2>1 DEF Reply, After, Calls
  <2>2. CASE ParentReturns(1) \/ ParentReturns(-1) \/ ParentReturns(EPROTO)
    BY <2>2, FailureCodes DEF ParentReturns
  <2>3. CASE code # 0 /\ ParentReturns(code)
    <3>1. code \in Int /\ ExitStatus(code) \in 0 .. 255
      BY ExitStatusIsByte DEF IInv, TypeOK
    <3>2. pipe' = "idle" /\ code' = code /\ pstatus' = ExitStatus(code) /\ parent' = "returning"
      BY <2>3 DEF Reply, ParentReturns
    <3> QED BY <2>3, <3>1, <3>2 DEF CodeIsLost
  <2> QED BY <2>1, <2>2, <2>3 DEF Reply
<1>1. TypeOK'
  <2>1. parent' \in ParentPc
    BY <1>0 DEF ParentPc, Calls, Sends
  <2>2. pstatus' \in 0 .. 255
    BY <1>0 DEF IInv, TypeOK
  <2> QED BY <2>1, <2>2 DEF IInv, TypeOK, ParentPc, ChildPc, Calls, Sends, Reads,
         hostVars, parentVars, childVars, Reply
<1>2. Signals'
  BY <1>0 DEF IInv, TypeOK, Signals, SigchldNotLost, HandlerInPlace, ParentAlive,
         hostVars, parentVars, childVars, Reply, Calls
<1>3. Success'
  <2>1. parent' = "returning" /\ pstatus' = 0 => CodeIsLost'
    BY <1>0
  <2>2. parent' # "exited"
    BY <1>0
  <2> QED BY <2>1, <2>2 DEF IInv, TypeOK, Success, SuccessIsExplained, SignalsAreSignals,
         ReturnsAreFailures, CodeIsLost, hostVars, parentVars, childVars, Reply
<1>4. Order'
  BY <1>0 DEF IInv, TypeOK, Order, HandshakeOrder, Handshake, hostVars,
         parentVars, childVars, Reply
<1> QED BY <1>1, <1>2, <1>3, <1>4 DEF IInv, Signals, Success, Order

\* Eof preserves the invariant.
LEMMA EofInv == IInv /\ Eof => IInv'
<1> SUFFICES ASSUME IInv, Eof PROVE IInv' OBVIOUS
<1>0. /\ parent' = "returning" /\ pstatus' \in 0 .. 255
      /\ host' # "serving"
  BY FailureCodes DEF Eof, ParentReturns, hostVars
<1>1. TypeOK'
  BY <1>0 DEF IInv, TypeOK, ParentPc, ChildPc, Calls, Sends, Reads,
         hostVars, parentVars, childVars, Eof
<1>2. Signals'
  BY <1>0 DEF IInv, TypeOK, Signals, SigchldNotLost, HandlerInPlace, ParentAlive,
         hostVars, parentVars, childVars, Eof, Calls
<1>3. Success'
  BY <1>0 DEF IInv, TypeOK, Success, SuccessIsExplained, SignalsAreSignals,
         ReturnsAreFailures, CodeIsLost, hostVars, parentVars, childVars, Eof
<1>4. Order'
  BY <1>0 DEF IInv, TypeOK, Order, HandshakeOrder, Handshake, hostVars,
         parentVars, childVars, Eof
<1> QED BY <1>1, <1>2, <1>3, <1>4 DEF IInv, Signals, Success, Order

\* Send preserves the invariant.
LEMMA SendInv == IInv /\ Send => IInv'
<1> SUFFICES ASSUME IInv, Send PROVE IInv' OBVIOUS
<1>1. CASE ~ChildSocketOpen
  <2>0. parent' = "returning" /\ pstatus' \in 1 .. 255 /\ toChild' = toChild
    BY <1>1, FailureCodes DEF Send, ParentReturns
  <2>1. TypeOK'
    BY <2>0 DEF IInv, TypeOK, ParentPc, ChildPc, Calls, Sends, Reads,
         hostVars, parentVars, childVars, Send
  <2>2. Signals'
    BY <2>0 DEF IInv, TypeOK, Signals, SigchldNotLost, HandlerInPlace, ParentAlive,
         hostVars, parentVars, childVars, Send, Sends
  <2>3. Success'
    <3>1. pstatus' # 0 BY <2>0
    <3> QED BY <2>0, <3>1 DEF IInv, TypeOK, Success, SuccessIsExplained, SignalsAreSignals,
         ReturnsAreFailures, CodeIsLost, hostVars, parentVars, childVars, Send
  <2>4. Order'
    BY <2>0 DEF IInv, TypeOK, Order, HandshakeOrder, Handshake, hostVars,
         parentVars, childVars, Send
  <2> QED BY <2>1, <2>2, <2>3, <2>4 DEF IInv, Signals, Success, Order
<1>2. CASE ChildSocketOpen
  <2>0. /\ toChild' = Append(toChild, Datagram(parent))
        /\ parent' = IF parent = "sendlimits" THEN "getfs" ELSE "loop"
        /\ pstatus' = pstatus
    BY <1>2 DEF Send
  <2>1. TypeOK'
    <3>1. toChild' \in Seq([kind : {"limits", "path"}, size : Nat])
      BY <2>0, DatagramType DEF IInv, TypeOK, Send
    <3> QED BY <2>0, <3>1 DEF IInv, TypeOK, ParentPc, ChildPc, Calls, Sends, Reads,
         hostVars, parentVars, childVars, Send
  <2>2. Signals'
    BY <2>0 DEF IInv, TypeOK, Signals, SigchldNotLost, HandlerInPlace, ParentAlive,
         hostVars, parentVars, childVars, Send, Sends
  <2>3. Success'
    BY <2>0 DEF IInv, TypeOK, Success, SuccessIsExplained, SignalsAreSignals,
         ReturnsAreFailures, CodeIsLost, hostVars, parentVars, childVars, Send
  <2>4. Order'
    <3>1. CASE parent = "sendlimits"
      <4>1. toChild' = <<Datagram(parent)>> /\ Datagram(parent).kind = "limits"
        BY <2>0, <3>1 DEF IInv, Handshake, Datagram
      <4> QED BY <2>0, <3>1, <4>1, <1>2 DEF IInv, TypeOK, Order, HandshakeOrder, Handshake, hostVars,
         parentVars, childVars, Send, ChildSocketOpen
    <3>2. CASE parent = "sendpath"
      <4>1. /\ Len(toChild') = Len(toChild) + 1
            /\ toChild'[Len(toChild) + 1].kind = "path"
            /\ \A i \in 1 .. Len(toChild) : toChild'[i] = toChild[i]
        BY <2>0, <3>2 DEF IInv, TypeOK, Datagram
      <4>2. DOMAIN toChild' = 1 .. Len(toChild) + 1 /\ DOMAIN toChild = 1 .. Len(toChild)
        BY <2>0 DEF IInv, TypeOK
      <4>3. child' = child /\ child \notin {"none", "path", "python"}
        BY <3>2 DEF IInv, Handshake, Send, childVars
      <4> QED BY <2>0, <3>2, <4>1, <4>2, <4>3 DEF IInv, TypeOK, Order, HandshakeOrder, Handshake
    <3> QED BY <3>1, <3>2 DEF Send, Sends
  <2> QED BY <2>1, <2>2, <2>3, <2>4 DEF IInv, Signals, Success, Order
<1> QED BY <1>1, <1>2

\* ParentExits preserves the invariant.
LEMMA ParentExitsInv == IInv /\ ParentExits => IInv'
<1> SUFFICES ASSUME IInv, ParentExits PROVE IInv' OBVIOUS
<1>1. TypeOK'
    BY DEF IInv, TypeOK, ParentPc, ChildPc, hostVars, parentVars, childVars,
         ParentExits, Calls, Sends, Reads
<1>2. Signals'
  BY DEF IInv, TypeOK, Signals, SigchldNotLost, HandlerInPlace, ParentAlive,
         hostVars, parentVars, childVars, ParentExits
<1>3. Success'
  BY DEF IInv, TypeOK, Success, SuccessIsExplained, SignalsAreSignals,
         ReturnsAreFailures, CodeIsLost, hostVars, parentVars, childVars, ParentExits
<1>4. Order'
  BY DEF IInv, TypeOK, Order, HandshakeOrder, Handshake, hostVars, parentVars,
         childVars, ParentExits
<1> QED BY <1>1, <1>2, <1>3, <1>4 DEF IInv, Signals, Success, Order

\* SigchldHandler preserves the invariant.
LEMMA SigchldHandlerInv == IInv /\ SigchldHandler => IInv'
<1> SUFFICES ASSUME IInv, SigchldHandler PROVE IInv' OBVIOUS
<1>0. /\ pstatus' \in 0 .. 255
      /\ pstatus' = 0 => cstatus.by = "exit" /\ cstatus.n = 0
  <2>1. CASE cstatus.by = "exit"
    BY <2>1 DEF IInv, TypeOK, SigchldHandler, HandlerStatus
  <2>2. CASE cstatus.by # "exit"
    <3>1. cstatus.n \in 1 .. 255
      BY <2>2 DEF IInv, TypeOK, SignalsAreSignals
    <3>2. ExitStatus(-cstatus.n) \in 1 .. 255
      BY <3>1, MinusStatus
    <3> QED BY <2>2, <3>2 DEF SigchldHandler, HandlerStatus
  <2> QED BY <2>1, <2>2
<1>1. TypeOK'
  BY <1>0 DEF IInv, TypeOK, ParentPc, ChildPc, Calls, Sends, Reads,
         hostVars, parentVars, childVars, SigchldHandler
<1>2. Signals'
  BY DEF IInv, TypeOK, Signals, SigchldNotLost, HandlerInPlace, ParentAlive,
         hostVars, parentVars, childVars, SigchldHandler
<1>3. Success'
  BY <1>0 DEF IInv, TypeOK, Success, SuccessIsExplained, SignalsAreSignals,
         ReturnsAreFailures, CodeIsLost, hostVars, parentVars, childVars, SigchldHandler
<1>4. Order'
  BY DEF IInv, TypeOK, Order, HandshakeOrder, Handshake, hostVars,
         parentVars, childVars, SigchldHandler
<1> QED BY <1>1, <1>2, <1>3, <1>4 DEF IInv, Signals, Success, Order

\* ChildSetup preserves the invariant.
LEMMA ChildSetupInv == IInv /\ ChildSetup => IInv'
<1> SUFFICES ASSUME IInv, ChildSetup PROVE IInv' OBVIOUS
<1>1. TypeOK'
    BY FailureCodes DEF IInv, TypeOK, ParentPc, ChildPc, hostVars,
         parentVars, childVars, ChildSetup, ChildExits, Calls, Sends, Reads
<1>2. Signals'
  BY FailureCodes DEF IInv, TypeOK, Signals, SigchldNotLost, HandlerInPlace, ParentAlive,
         hostVars, parentVars, childVars, ChildSetup, ChildExits
<1>3. Success'
  BY FailureCodes DEF IInv, TypeOK, Success, SuccessIsExplained, SignalsAreSignals,
         ReturnsAreFailures, CodeIsLost, hostVars, parentVars, childVars, ChildSetup, ChildExits
<1>4. Order'
  BY FailureCodes DEF IInv, TypeOK, Order, HandshakeOrder, Handshake, hostVars, parentVars,
         childVars, ChildSetup, ChildExits
<1> QED BY <1>1, <1>2, <1>3, <1>4 DEF IInv, Signals, Success, Order

\* ReadDatagram preserves the invariant.
LEMMA ReadDatagramInv == IInv /\ ReadDatagram => IInv'
<1> SUFFICES ASSUME IInv, ReadDatagram PROVE IInv' OBVIOUS
<1> DEFINE size == Head(toChild).size
           got == IF size < Want(child) THEN size ELSE Want(child)
<1>a. /\ Len(toChild) >= 1 /\ Head(toChild) = toChild[1]
      /\ toChild' = Tail(toChild) /\ Len(toChild') = Len(toChild) - 1
      /\ \A i \in 1 .. Len(toChild) - 1 : toChild'[i] = toChild[i + 1]
      /\ toChild' \in Seq([kind : {"limits", "path"}, size : Nat])
  BY DEF IInv, TypeOK, ReadDatagram
<1>b. got \in Int
  <2>0. toChild[1] \in [kind : {"limits", "path"}, size : Nat]
    <3>1. toChild \in Seq([kind : {"limits", "path"}, size : Nat])
      BY DEF IInv, TypeOK
    <3>2. Len(toChild) \in Nat /\ 1 \in 1 .. Len(toChild)
      BY <3>1, <1>a
    <3> QED BY <3>1, <3>2, ElementType
  <2>1. size \in Nat
    BY <1>a, <2>0
  <2>2. Want(child) \in Nat
    BY AbiAssumption DEF ReadDatagram, Reads, Want, IntSize
  <2> QED BY <2>1, <2>2
<1>0. \/ child' = AfterRead(child) /\ cstatus' = cstatus
      \/ child' = "exiting" /\ \E n \in 0 .. 255 : cstatus' = [by |-> "exit", n |-> n]
  <2>1. ExitStatus(-got) \in 0 .. 255
    <3> HIDE DEF got
    <3> QED BY <1>b, ExitStatusIsByte
  <2> QED BY <2>1 DEF ReadDatagram, ChildExits
<1>c. \/ child = "limits" /\ child' = "sandbox" /\ cstatus' = cstatus
      \/ child = "pathlen" /\ child' = "path" /\ cstatus' = cstatus
      \/ child = "path"
      \/ child' = "exiting" /\ \E n \in 0 .. 255 : cstatus' = [by |-> "exit", n |-> n]
  BY <1>0 DEF ReadDatagram, AfterRead, Reads
<1>d. child # "path" /\ child \in {"limits", "pathlen"}
  BY <1>a DEF IInv, HandshakeOrder, ReadDatagram, Reads
<1>1. TypeOK'
  <2>1. child' \in ChildPc
    BY <1>c, <1>d DEF ChildPc, Reads
  <2>2. cstatus' \in [by : {"exit", "signal"}, n : 0 .. 255]
    BY <1>c, <1>d DEF IInv, TypeOK
  <2> QED BY <1>a, <2>1, <2>2 DEF IInv, TypeOK, ParentPc, ChildPc, Calls, Sends, Reads,
         hostVars, parentVars, childVars, ReadDatagram
<1>2. Signals'
  BY <1>c, <1>d DEF IInv, TypeOK, Signals, SigchldNotLost, HandlerInPlace, ParentAlive,
         hostVars, parentVars, childVars, ReadDatagram
<1>3. Success'
  <2>1. cstatus'.by = "exit" \/ cstatus' = cstatus
    BY <1>c, <1>d
  <2>2. UNCHANGED <<hostVars, parentVars>>
    BY DEF ReadDatagram
  <2>3. SuccessIsExplained'
    BY <1>d, <2>2 DEF IInv, Success, SuccessIsExplained, hostVars, parentVars
  <2>4. SignalsAreSignals'
    BY <2>1 DEF IInv, Success, SignalsAreSignals
  <2>5. ReturnsAreFailures'
    BY <2>2 DEF IInv, Success, ReturnsAreFailures, CodeIsLost, hostVars, parentVars
  <2> QED BY <2>3, <2>4, <2>5 DEF Success
<1>4. Order'
  <2>1. DOMAIN toChild' = 1 .. Len(toChild) - 1 /\ DOMAIN toChild = 1 .. Len(toChild)
    BY <1>a DEF IInv, TypeOK
  <2>2. CASE child' = "exiting"
    BY <1>d, <2>2 DEF IInv, TypeOK, Order, HandshakeOrder, Handshake, hostVars,
         parentVars, childVars, ReadDatagram
  <2>3. CASE child = "limits" /\ child' = "sandbox"
    BY <1>a, <2>1, <2>3 DEF IInv, TypeOK, Order, HandshakeOrder, Handshake, hostVars,
         parentVars, childVars, ReadDatagram
  <2>4. CASE child = "pathlen" /\ child' = "path"
    BY <1>a, <2>1, <2>4 DEF IInv, TypeOK, Order, HandshakeOrder, Handshake, hostVars,
         parentVars, childVars, ReadDatagram
  <2> QED BY <1>c, <1>d, <2>2, <2>3, <2>4
<1> QED BY <1>1, <1>2, <1>3, <1>4 DEF IInv, Signals, Success, Order

\* EnterSandbox preserves the invariant.
LEMMA EnterSandboxInv == IInv /\ EnterSandbox => IInv'
<1> SUFFICES ASSUME IInv, EnterSandbox PROVE IInv' OBVIOUS
<1>0. \/ child' = "pathlen" /\ cstatus' = cstatus
      \/ child' = "exiting" /\ \E n \in 0 .. 255 : cstatus' = [by |-> "exit", n |-> n]
  BY FailureCodes DEF EnterSandbox, ChildExits
<1>1. TypeOK'
  BY <1>0 DEF IInv, TypeOK, ParentPc, ChildPc, Calls, Sends, Reads,
         hostVars, parentVars, childVars, EnterSandbox
<1>2. Signals'
  BY <1>0 DEF IInv, TypeOK, Signals, SigchldNotLost, HandlerInPlace, ParentAlive,
         hostVars, parentVars, childVars, EnterSandbox
<1>3. Success'
  <2>1. cstatus'.by = "exit" \/ cstatus' = cstatus
    BY <1>0
  <2> QED BY <2>1 DEF IInv, TypeOK, Success, SuccessIsExplained, SignalsAreSignals,
         ReturnsAreFailures, CodeIsLost, hostVars, parentVars, childVars, EnterSandbox
<1>4. Order'
  BY <1>0 DEF IInv, TypeOK, Order, HandshakeOrder, Handshake, hostVars,
         parentVars, childVars, EnterSandbox
<1> QED BY <1>1, <1>2, <1>3, <1>4 DEF IInv, Signals, Success, Order

\* ChildTerminates preserves the invariant.
LEMMA ChildTerminatesInv == IInv /\ ChildTerminates => IInv'
<1> SUFFICES ASSUME IInv, ChildTerminates PROVE IInv' OBVIOUS
<1>1. TypeOK'
    BY DEF IInv, TypeOK, ParentPc, ChildPc, hostVars, parentVars, childVars,
         ChildTerminates, ParentAlive, Calls, Sends, Reads
<1>2. Signals'
  BY DEF IInv, TypeOK, Signals, SigchldNotLost, HandlerInPlace, ParentAlive,
         hostVars, parentVars, childVars, ChildTerminates
<1>3. Success'
  BY DEF IInv, TypeOK, Success, SuccessIsExplained, SignalsAreSignals,
         ReturnsAreFailures, CodeIsLost, hostVars, parentVars, childVars, ChildTerminates, ParentAlive
<1>4. Order'
  BY DEF IInv, TypeOK, Order, HandshakeOrder, Handshake, hostVars, parentVars,
         childVars, ChildTerminates, ParentAlive
<1> QED BY <1>1, <1>2, <1>3, <1>4 DEF IInv, Signals, Success, Order

\* ChildKilled preserves the invariant.
LEMMA ChildKilledInv == IInv /\ ChildKilled => IInv'
<1> SUFFICES ASSUME IInv, ChildKilled PROVE IInv' OBVIOUS
<1>1. TypeOK'
    BY DEF IInv, TypeOK, ParentPc, ChildPc, hostVars, parentVars, childVars,
         ChildKilled, Reads, SIGXCPU, Calls, Sends
<1>2. Signals'
  BY DEF IInv, TypeOK, Signals, SigchldNotLost, HandlerInPlace, ParentAlive,
         hostVars, parentVars, childVars, ChildKilled, Reads, SIGXCPU
<1>3. Success'
  BY DEF IInv, TypeOK, Success, SuccessIsExplained, SignalsAreSignals,
         ReturnsAreFailures, CodeIsLost, hostVars, parentVars, childVars, ChildKilled, Reads, SIGXCPU
<1>4. Order'
  BY DEF IInv, TypeOK, Order, HandshakeOrder, Handshake, hostVars, parentVars,
         childVars, ChildKilled, Reads, SIGXCPU
<1> QED BY <1>1, <1>2, <1>3, <1>4 DEF IInv, Signals, Success, Order

\* HostAnswers preserves the invariant.
LEMMA HostAnswersInv == IInv /\ HostAnswers => IInv'
<1> SUFFICES ASSUME IInv, HostAnswers PROVE IInv' OBVIOUS
<1>1. TypeOK'
  <2>1. code' \in Int
    BY CodeAssumption DEF IInv, TypeOK, HostAnswers
  <2> QED BY <2>1 DEF IInv, TypeOK, ParentPc, ChildPc, hostVars, parentVars, childVars,
         HostAnswers, Calls, Sends, Reads
<1>2. Signals'
  BY DEF IInv, TypeOK, Signals, SigchldNotLost, HandlerInPlace, ParentAlive,
         hostVars, parentVars, childVars, HostAnswers
<1>3. Success'
  BY DEF IInv, TypeOK, Success, SuccessIsExplained, SignalsAreSignals,
         ReturnsAreFailures, CodeIsLost, hostVars, parentVars, childVars, HostAnswers
<1>4. Order'
  BY DEF IInv, TypeOK, Order, HandshakeOrder, Handshake, hostVars, parentVars,
         childVars, HostAnswers
<1> QED BY <1>1, <1>2, <1>3, <1>4 DEF IInv, Signals, Success, Order

\* HostCloses preserves the invariant.
LEMMA HostClosesInv == IInv /\ HostCloses => IInv'
<1> SUFFICES ASSUME IInv, HostCloses PROVE IInv' OBVIOUS
<1>1. TypeOK'
    BY DEF IInv, TypeOK, ParentPc, ChildPc, hostVars, parentVars, childVars,
         HostCloses, Calls, Sends, Reads
<1>2. Signals'
  BY DEF IInv, TypeOK, Signals, SigchldNotLost, HandlerInPlace, ParentAlive,
         hostVars, parentVars, childVars, HostCloses
<1>3. Success'
  BY DEF IInv, TypeOK, Success, SuccessIsExplained, SignalsAreSignals,
         ReturnsAreFailures, CodeIsLost, hostVars, parentVars, childVars, HostCloses
<1>4. Order'
  BY DEF IInv, TypeOK, Order, HandshakeOrder, Handshake, hostVars, parentVars,
         childVars, HostCloses
<1> QED BY <1>1, <1>2, <1>3, <1>4 DEF IInv, Signals, Success, Order

\* HostReaps preserves the invariant.
LEMMA HostReapsInv == IInv /\ HostReaps => IInv'
<1> SUFFICES ASSUME IInv, HostReaps PROVE IInv' OBVIOUS
<1>1. TypeOK'
    BY DEF IInv, TypeOK, ParentPc, ChildPc, hostVars, parentVars, childVars,
         HostReaps, Calls, Sends, Reads
<1>2. Signals'
  BY DEF IInv, TypeOK, Signals, SigchldNotLost, HandlerInPlace, ParentAlive,
         hostVars, parentVars, childVars, HostReaps
<1>3. Success'
  BY DEF IInv, TypeOK, Success, SuccessIsExplained, SignalsAreSignals,
         ReturnsAreFailures, CodeIsLost, hostVars, parentVars, childVars, HostReaps
<1>4. Order'
  BY DEF IInv, TypeOK, Order, HandshakeOrder, Handshake, hostVars, parentVars,
         childVars, HostReaps
<1> QED BY <1>1, <1>2, <1>3, <1>4 DEF IInv, Signals, Success, Order

\* HostDestructs preserves the invariant.
LEMMA HostDestructsInv == IInv /\ HostDestructs => IInv'
<1> SUFFICES ASSUME IInv, HostDestructs PROVE IInv' OBVIOUS
<1>1. TypeOK'
    BY DEF IInv, TypeOK, ParentPc, ChildPc, hostVars, parentVars, childVars,
         HostDestructs, ParentAlive, SIGKILLED, Calls, Sends, Reads
<1>2. Signals'
  BY DEF IInv, TypeOK, Signals, SigchldNotLost, HandlerInPlace, ParentAlive,
         hostVars, parentVars, childVars, HostDestructs, SIGKILLED
<1>3. Success'
  BY DEF IInv, TypeOK, Success, SuccessIsExplained, SignalsAreSignals,
         ReturnsAreFailures, CodeIsLost, hostVars, parentVars, childVars, HostDestructs, ParentAlive, SIGKILLED
<1>4. Order'
  BY DEF IInv, TypeOK, Order, HandshakeOrder, Handshake, hostVars, parentVars,
         childVars, HostDestructs, ParentAlive, SIGKILLED
<1> QED BY <1>1, <1>2, <1>3, <1>4 DEF IInv, Signals, Success, Order

-----------------------------------------------------------------------------

\* Every step, also one that changes nothing, preserves the invariant.
THEOREM NextInv == IInv /\ [Next]_vars => IInv'
<1> SUFFICES ASSUME IInv, [Next]_vars PROVE IInv' OBVIOUS
<1>1. CASE ParentStep
  BY <1>1, SigactionInv, MainFailsInv, ForkInv, CallInv, ReplyInv, EofInv, SendInv,
     ParentExitsInv, SigchldHandlerInv DEF ParentStep
<1>2. CASE ChildStep
  BY <1>2, ChildSetupInv, ReadDatagramInv, EnterSandboxInv, ChildTerminatesInv
     DEF ChildStep
<1>3. CASE ChildKilled \/ HostAnswers \/ HostCloses \/ HostReaps \/ HostDestructs
  BY <1>3, ChildKilledInv, HostAnswersInv, HostClosesInv, HostReapsInv, HostDestructsInv
<1>4. CASE UNCHANGED vars
  <2>1. TypeOK' BY <1>4 DEF IInv, TypeOK, vars
  <2>2. Signals'
    BY <1>4 DEF IInv, Signals, SigchldNotLost, HandlerInPlace, ParentAlive, vars
  <2>3. Success'
    BY <1>4 DEF IInv, Success, SuccessIsExplained, SignalsAreSignals, ReturnsAreFailures, CodeIsLost, vars
  <2>4. Order' BY <1>4 DEF IInv, Order, HandshakeOrder, Handshake, vars
  <2> QED BY <2>1, <2>2, <2>3, <2>4 DEF IInv, Signals, Success, Order
<1> QED BY <1>1, <1>2, <1>3, <1>4 DEF Next

\* The inductive invariant is an invariant of the three processes.
THEOREM InvariantHolds == Spec => []IInv
BY InitInv, NextInv, PTL DEF Spec

\* Every variable keeps its type; exit statuses fit the eight bits of a wait.
THEOREM TypeCorrect == Spec => []TypeOK
<1>1. IInv => TypeOK BY DEF IInv
<1> QED BY <1>1, InvariantHolds, PTL

\* SIGCHLD is never lost, for every order in which the processes run: sandbox.c
\* registers sigchld_handler before it forks.
THEOREM SigchldIsNotLost == Spec => []SigchldNotLost
<1>1. IInv => SigchldNotLost BY DEF IInv
<1> QED BY <1>1, InvariantHolds, PTL

\* An exit status of 0 is the child's, or that of a parent whose host is gone or
\* sent a code that is a multiple of 256.
THEOREM SuccessExplained == Spec => []SuccessIsExplained
<1>1. IInv => SuccessIsExplained BY DEF IInv
<1> QED BY <1>1, InvariantHolds, PTL

\* The messages of the handshake arrive in the order run_child reads them, and
\* the python path is gone when it is asked for, whatever its length.
THEOREM HandshakeInOrder == Spec => []HandshakeOrder
<1>1. IInv => HandshakeOrder BY DEF IInv
<1> QED BY <1>1, InvariantHolds, PTL

=============================================================================
