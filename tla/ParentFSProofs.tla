---------------------------- MODULE ParentFSProofs ----------------------------
(***************************************************************************)
(* Proofs about the file system of the parent (ParentFS): get_node and     *)
(* open_node keep their types; the node get_node returns has the options   *)
(* that build_tree left in the node of getfs it lies below; and no         *)
(* open_node reaches a real file that the filters or the missing "follow"  *)
(* of that node exclude.  All of it whatever flags are in fresh memory.    *)
(*                                                                         *)
(* The invariants to carry are about the one proxy node, which every call  *)
(* writes: TypeInv (its filters are patterns), GivenInv (its options and   *)
(* the verdict on the first name below its node, which hold for ever) and  *)
(* ReachedInv (what is known of it while get_node stands on it, which the  *)
(* first answer of the host to getnode ends).                              *)
(***************************************************************************)
EXTENDS ParentFS, TLAPS

Pattern == {f \in Seq(Component) : Len(f) > 0}

\* Types, those of the paths and of the patterns of filters included.
TypeInv ==
    /\ flags \in [Tree -> SUBSET Flag]
    /\ proxy \in [real : Realpath, flags : SUBSET Flag, filter : {NoFilter} \cup SUBSET Pattern]
    /\ remote \in [name : Component \cup {"/"}, real : BOOLEAN, flags : SUBSET Flag]
    /\ pc \in {"idle", "getcwd", "cwd", "walk", "found", "crashed"}
    /\ call.path \in Seq(Component)
    /\ todo \in Seq(Component)
    /\ cur \in Tree \cup {"proxy", "remote", "NULL"}
    /\ DOMAIN fds = 4 .. MaxFds - 1
    /\ \A i \in DOMAIN fds : fds[i] # Unused =>
         fds[i].file \in Realpath /\ fds[i].flags \subseteq Flag
    /\ reply.code \in {-1, 0} \cup DOMAIN fds

SameOptions(F, G) == F \ {"DIRECTORY"} = G \ {"DIRECTORY"}

\* The flags of a node are those it asks for and those its memory held.
AskedFor(F, n) == \E junk \in Junk[n] : SameOptions(F, Option[n] \cup junk)

\* The filters of its node, which has the flags F, allow the first name of a real file.
FirstAllowed(F, real) ==
    Filter[real.top] # NoFilter =>
        (Matching(Filter[real.top], real.names[1]) # {} <=> "BLACKLIST" \notin F)

\* What stays true of the proxy node and of the open files, stale or not.
GivenInv ==
    /\ \A n \in Node : AskedFor(flags[n], n)
    /\ proxy.real # NoReal => proxy.real.names # <<>>
    /\ proxy.real.top \in HasReal =>
         /\ SameOptions(proxy.flags, flags[proxy.real.top])
         /\ FirstAllowed(flags[proxy.real.top], proxy.real)
    /\ \A i \in DOMAIN fds : fds[i].file.top \in HasReal =>
         fds[i].file.names = <<>> \/ FirstAllowed(flags[fds[i].file.top], fds[i].file)

LinksFollowed(F, real) ==
    \A k \in DOMAIN real.names :
        IsLink([real EXCEPT !.names = SubSeq(@, 1, k)]) => "FOLLOW" \in F

\* A real file that get_node may have got to, below a node with the flags F.
Reached(F, real) ==
    /\ LinksFollowed(F, real)
    /\ Len(real.names) <= 2 => FilterAllows(F, real.top, real.names)

\* The filters below a name.
Below(filter, name) == {Tail(f) : f \in {g \in Matching(filter, name) : Len(g) > 1}}

\* What get_node knows of the proxy node it stands on, and of the open files.
ReachedInv ==
    /\ cur = "remote" => remote # NoRemote
    /\ remote = NoRemote =>
         /\ cur = "proxy" /\ proxy.real.top \in HasReal =>
              /\ Reached(flags[proxy.real.top], proxy.real)
              /\ Len(proxy.real.names) = 1 /\ Filter[proxy.real.top] # NoFilter =>
                   proxy.filter = Below(Filter[proxy.real.top], proxy.real.names[1])
         /\ \A i \in DOMAIN fds : fds[i].file.top \in HasReal =>
              Reached(flags[fds[i].file.top], fds[i].file)

\* The inductive invariant.
IInv == TypeInv /\ GivenInv /\ ReachedInv

-----------------------------------------------------------------------------
(* Types *)

LEMMA BuildFlagsTyped ==
    ASSUME NEW options \in SUBSET Flag, NEW hasReal, NEW real, NEW junk \in SUBSET Flag
    PROVE  BuildFlags(options, hasReal, real, junk) \in SUBSET Flag
<1>1. DirectoryFlag(real) \subseteq Flag
  BY DEF DirectoryFlag, Flag
<1> QED BY <1>1 DEF BuildFlags

LEMMA InitTyped == Init => TypeInv
<1> SUFFICES ASSUME Init PROVE TypeInv
  OBVIOUS
<1>1. flags \in [Tree -> SUBSET Flag]
  <2> PICK junk \in [Node -> UNION {Junk[n] : n \in Node}] :
        flags = [n \in Tree |->
            IF n = "root" THEN {}
            ELSE BuildFlags(Option[n], n \in HasReal, RealOf(n), junk[n])]
    BY DEF Init
  <2>1. ASSUME NEW n \in Node
        PROVE  BuildFlags(Option[n], n \in HasReal, RealOf(n), junk[n]) \in SUBSET Flag
    <3>1. Option[n] \in SUBSET Flag /\ junk[n] \in SUBSET Flag
      BY GetfsAssumption
    <3> QED BY <3>1, BuildFlagsTyped
  <2> QED BY <2>1 DEF Tree
<1>2. proxy \in [real : Realpath, flags : SUBSET Flag, filter : {NoFilter} \cup SUBSET Pattern]
  <2>1. NoReal \in Realpath
    BY DEF Realpath
  <2> QED BY <2>1 DEF Init
<1>3. remote \in [name : Component \cup {"/"}, real : BOOLEAN, flags : SUBSET Flag]
  BY DEF Init, NoRemote
<1>4. call.path \in Seq(Component) /\ todo \in Seq(Component)
  BY DEF Init
<1>5. /\ DOMAIN fds = 4 .. MaxFds - 1 /\ \A i \in DOMAIN fds : fds[i] = Unused
      /\ reply.code = 0
  BY DEF Init
<1>6. /\ pc \in {"idle", "getcwd", "cwd", "walk", "found", "crashed"}
      /\ cur \in Tree \cup {"proxy", "remote", "NULL"}
  BY DEF Init
<1> QED BY <1>1, <1>2, <1>3, <1>4, <1>5, <1>6 DEF TypeInv

LEMMA TypeInvImplies == TypeInv => TypeOK
  BY DEF TypeInv, TypeOK, Pattern

\* The flags, the realpath and the filter of the node cur points to.
LEMMA CurTyped ==
    ASSUME TypeInv
    PROVE  /\ NodeReal(cur) \in Realpath
           /\ cur # "NULL" => NodeFlags(cur) \in SUBSET Flag
           /\ NodeFilter(cur) # NoFilter => NodeFilter(cur) \in SUBSET Pattern
<1>1. NodeReal(cur) \in Realpath
  <2>1. ASSUME NEW n \in HasReal \cup {"remote"} PROVE RealOf(n) \in Realpath
    BY DEF RealOf, Realpath
  <2>2. NoReal \in Realpath /\ proxy.real \in Realpath
    BY DEF TypeInv, Realpath
  <2> QED BY <2>1, <2>2 DEF NodeReal
<1>2. cur # "NULL" => NodeFlags(cur) \in SUBSET Flag
  <2>1. CASE cur \in Tree
    <3>1. cur # "proxy" /\ cur # "remote"
      BY <2>1, GetfsAssumption DEF Tree
    <3>2. NodeFlags(cur) = flags[cur]
      BY <3>1 DEF NodeFlags
    <3> QED BY <2>1, <3>2 DEF TypeInv
  <2>2. CASE cur = "proxy"
    BY <2>2 DEF NodeFlags, TypeInv
  <2>3. CASE cur = "remote"
    BY <2>3 DEF NodeFlags, TypeInv
  <2> QED BY <2>1, <2>2, <2>3 DEF TypeInv
<1>3. NodeFilter(cur) # NoFilter => NodeFilter(cur) \in SUBSET Pattern
  <2>1. CASE cur = "proxy"
    <3>1. NodeFilter(cur) = proxy.filter
      BY <2>1, GetfsAssumption DEF NodeFilter
    <3> QED BY <3>1 DEF TypeInv
  <2>2. CASE cur \in HasReal /\ cur # "proxy"
    <3>1. NodeFilter(cur) = Filter[cur]
      BY <2>2 DEF NodeFilter
    <3> QED BY <2>2, <3>1, GetfsAssumption DEF Pattern
  <2>3. CASE cur \notin HasReal /\ cur # "proxy"
    BY <2>3 DEF NodeFilter
  <2> QED BY <2>1, <2>2, <2>3
<1> QED BY <1>1, <1>2, <1>3

\* A name appended to a realpath.
Under(real, name) == [real EXCEPT !.names = Append(@, name)]

LEMMA UnderTyped ==
    ASSUME NEW real \in Realpath, NEW name \in Component, real # NoReal
    PROVE  /\ Under(real, name) \in Realpath /\ Under(real, name).top = real.top
           /\ Under(real, name).names = Append(real.names, name)
           /\ Under(real, name).names # <<>>
<1>1. real \in [top : HasReal \cup {"remote"}, names : Seq(Component)]
  BY DEF Realpath
<1>2. Append(real.names, name) \in Seq(Component) /\ Append(real.names, name) # <<>>
  BY <1>1
<1> QED BY <1>1, <1>2 DEF Realpath, Under

\* The filters of the next level are patterns again.
LEMMA AdvancedTyped ==
    ASSUME TypeInv, NEW name
    PROVE  Advanced(cur, name) \in {NoFilter} \cup SUBSET Pattern
<1> SUFFICES ASSUME NodeFilter(cur) # NoFilter, cur # "proxy"
             PROVE  Advanced(cur, name) \in SUBSET Pattern
  BY DEF Advanced
<1>1. ASSUME NEW g \in NodeFilter(cur), Len(g) > 1 PROVE Tail(g) \in Pattern
  BY <1>1, CurTyped DEF Pattern
<1> QED BY <1>1 DEF Advanced, Matching

\* The next component of a path.
LEMMA HeadTyped ==
    ASSUME TypeInv, todo # <<>>
    PROVE  Head(todo) \in Component /\ Tail(todo) \in Seq(Component)
  BY DEF TypeInv

Pointer == Tree \cup {"proxy", "remote", "NULL"}

\* The types of what get_node keeps of a walk.
WalkTyped ==
    /\ pc \in {"idle", "getcwd", "cwd", "walk", "found", "crashed"}
    /\ todo \in Seq(Component) /\ cur \in Pointer

LEMMA GoOnTyped ==
    ASSUME TypeInv, Walking, cur' \in Pointer, todo' = Tail(todo), UNCHANGED pc
    PROVE  WalkTyped'
  BY HeadTyped DEF TypeInv, Walking, WalkTyped, Pointer

LEMMA GiveUpTyped == GiveUp => WalkTyped'
  BY DEF GiveUp, WalkTyped, Pointer

\* Where ".." and a name of the tree lead.
LEMMA MoveTyped ==
    ASSUME TypeInv
    PROVE  /\ cur # "NULL" => ParentOf(cur) \in Pointer
           /\ \A name : Children(cur, name) \subseteq Pointer
<1>1. CASE cur \in Node
  <2>1. Parent[cur] \in Tree /\ cur # "proxy" /\ cur # "remote" /\ cur # "root"
    BY <1>1, GetfsAssumption
  <2> QED BY <2>1 DEF ParentOf, Pointer, Children, Tree
<1>2. CASE cur \in {"proxy", "remote", "root"}
  BY <1>2 DEF ParentOf, Pointer, Children, Tree
<1>3. CASE cur = "NULL"
  BY <1>3 DEF Pointer, Children, Tree
<1> QED BY <1>1, <1>2, <1>3 DEF TypeInv, Tree

\* A step of get_node that only moves.
LEMMA MovesTyped ==
    ASSUME TypeInv, WalkTyped', UNCHANGED <<flags, proxy, remote, fds, reply>>,
           call'.path \in Seq(Component)
    PROVE  TypeInv'
  BY DEF TypeInv, WalkTyped, Pointer

LEMMA AskHostTyped ==
    ASSUME TypeInv, NEW name \in Component, AskHost(name)
    PROVE  TypeInv'
<1>1. Walking /\ UNCHANGED <<flags, proxy, call, fds, reply>>
  BY DEF AskHost, Searching, tableVars
<1>2. CASE GiveUp /\ UNCHANGED remote
  <2>1. call'.path \in Seq(Component)
    BY <1>1 DEF TypeInv
  <2> QED BY <1>1, <1>2, <2>1, GiveUpTyped, MovesTyped
<1>3. CASE ~(GiveUp /\ UNCHANGED remote)
  <2> PICK answer \in Answer, junk \in Junk["remote"] :
        /\ remote' = [name |-> name, real |-> answer.real,
                      flags |-> BuildFlags(answer.flags, answer.real, RealOf("remote"), junk)]
        /\ GoOn("remote")
    BY <1>3 DEF AskHost
  <2>1. WalkTyped'
    BY <1>1, GoOnTyped DEF GoOn, Pointer
  <2>2. answer.real \in BOOLEAN /\ answer.flags \in SUBSET Flag /\ junk \in SUBSET Flag
    BY GetfsAssumption
  <2>3. BuildFlags(answer.flags, answer.real, RealOf("remote"), junk) \in SUBSET Flag
    BY <2>2, BuildFlagsTyped
  <2>4. remote' \in [name : Component \cup {"/"}, real : BOOLEAN, flags : SUBSET Flag]
    BY <2>2, <2>3
  <2> QED BY <1>1, <2>1, <2>4 DEF TypeInv, WalkTyped, Pointer
<1> QED BY <1>2, <1>3

LEMMA SearchRealTyped ==
    ASSUME TypeInv, NEW name \in Component, SearchReal(name)
    PROVE  TypeInv'
<1> DEFINE real == Under(NodeReal(cur), name)
<1>1. Walking /\ cur # "NULL" /\ NodeReal(cur) # NoReal /\ UNCHANGED <<flags, remote, call, fds, reply>>
  BY DEF SearchReal, SearchingReal, Searching, tableVars
<1>2. real \in Realpath
  <2> PICK r \in Realpath : r = NodeReal(cur)
    BY CurTyped
  <2> QED BY <1>1, UnderTyped
<1>3. Inherited(cur) \in SUBSET Flag /\ DirectoryFlag(real) \in SUBSET Flag
  BY <1>1, CurTyped DEF Inherited, DirectoryFlag, Flag
<1>4. proxy' \in [real : Realpath, flags : SUBSET Flag, filter : {NoFilter} \cup SUBSET Pattern]
  <2>1. \/ proxy' = proxy
        \/ proxy' = [real |-> real, filter |-> Advanced(cur, name),
                     flags |-> Inherited(cur) \cup DirectoryFlag(real)]
        \/ proxy' = [real |-> real, filter |-> NoFilter, flags |-> Inherited(cur)]
    BY DEF SearchReal, Under
  <2>2. Advanced(cur, name) \in {NoFilter} \cup SUBSET Pattern
    BY AdvancedTyped
  <2>3. proxy \in [real : Realpath, flags : SUBSET Flag, filter : {NoFilter} \cup SUBSET Pattern]
    BY DEF TypeInv
  <2> HIDE DEF real
  <2> QED BY <1>2, <1>3, <2>1, <2>2, <2>3
<1>5. WalkTyped'
  <2>1. GiveUp \/ GoOn("NULL") \/ GoOn("proxy")
    BY DEF SearchReal
  <2> QED BY <1>1, <2>1, GiveUpTyped, GoOnTyped DEF GoOn, Pointer
<1> QED BY <1>1, <1>4, <1>5 DEF TypeInv, WalkTyped, Pointer

LEMMA FinishOpenTyped ==
    ASSUME TypeInv, FinishOpen
    PROVE  TypeInv'
<1>1. UNCHANGED <<flags, proxy, remote, call, todo>> /\ cur' = "NULL" /\ pc' = "idle"
  BY DEF FinishOpen
<1>2. CASE UNCHANGED fds /\ reply'.code = -1
  BY <1>1, <1>2 DEF TypeInv
<1>3. CASE ~(UNCHANGED fds /\ reply'.code = -1)
  <2>1. PICK i \in Free : /\ OpenErrno = "OK" /\ fds' = [fds EXCEPT ![i] = NewEntry]
                          /\ reply' = [code |-> i, errno |-> "OK"]
    BY <1>3 DEF FinishOpen, Fails
  <2>2. cur # "NULL"
    BY <2>1 DEF OpenErrno
  <2>3. NewEntry.file \in Realpath /\ NewEntry.flags \subseteq Flag
    BY <2>2, CurTyped DEF NewEntry
  <2>4. i \in DOMAIN fds
    BY DEF Free
  <2>5. /\ DOMAIN fds' = DOMAIN fds /\ fds'[i] = NewEntry
        /\ \A j \in DOMAIN fds : j # i => fds'[j] = fds[j]
    BY <2>1, <2>4 DEF TypeInv
  <2>6. \A j \in DOMAIN fds' : fds'[j] # Unused =>
          fds'[j].file \in Realpath /\ fds'[j].flags \subseteq Flag
    BY <2>3, <2>5 DEF TypeInv
  <2>7. reply'.code \in {-1, 0} \cup DOMAIN fds'
    BY <2>1, <2>4, <2>5
  <2> QED BY <1>1, <2>5, <2>6, <2>7 DEF TypeInv
<1> QED BY <1>2, <1>3

LEMMA StepTyped == TypeInv /\ [Next]_vars => TypeInv'
<1> SUFFICES ASSUME TypeInv, [Next]_vars PROVE TypeInv'
  OBVIOUS
<1>1. CASE UNCHANGED vars
  BY <1>1 DEF TypeInv, vars
<1>2. ASSUME NEW request \in Request, OpenNode(request) PROVE TypeInv'
  <2>1. request.path \in Seq(Component)
    BY GetfsAssumption
  <2>2. WalkTyped'
    BY <1>2, <2>1 DEF OpenNode, WalkTyped, TypeInv, Pointer, Tree
  <2> QED BY <1>2, <2>1, <2>2, MovesTyped DEF OpenNode, tableVars
<1>3. CASE Skip
  <2>1. WalkTyped'
    BY <1>3, GoOnTyped DEF Skip, GoOn, TypeInv, Pointer
  <2> QED BY <1>3, <2>1, MovesTyped DEF Skip, tableVars, TypeInv
<1>4. CASE DotDot
  <2>1. WalkTyped'
    BY <1>4, GoOnTyped, MoveTyped DEF DotDot, GoOn
  <2> QED BY <1>4, <2>1, MovesTyped DEF DotDot, tableVars, TypeInv
<1>5. CASE NullDereference
  BY <1>5 DEF NullDereference, tableVars, TypeInv
<1>6. CASE WalkEnds
  <2>1. WalkTyped'
    BY <1>6 DEF WalkEnds, WalkTyped, TypeInv, Pointer
  <2> QED BY <1>6, <2>1, MovesTyped DEF WalkEnds, tableVars, TypeInv
<1>7. CASE GetCwd
  <2>1. WalkTyped'
    BY <1>7, GiveUpTyped, GetfsAssumption DEF GetCwd, WalkTyped, Pointer, Tree
  <2> QED BY <1>7, <2>1, MovesTyped DEF GetCwd, tableVars, TypeInv
<1>8. ASSUME NEW name \in {todo[i] : i \in DOMAIN todo},
             \/ AskHost(name) \/ EnterChild(name) \/ Stay(name)
             \/ RefuseReal(name) \/ SearchReal(name)
      PROVE TypeInv'
  <2>1. name \in Component
    BY DEF TypeInv
  <2>2. CASE AskHost(name)
    BY <2>1, <2>2, AskHostTyped
  <2>3. CASE EnterChild(name)
    <3>1. WalkTyped'
      BY <2>3, GoOnTyped, MoveTyped DEF EnterChild, Searching, GoOn
    <3> QED BY <2>3, <3>1, MovesTyped DEF EnterChild, tableVars, TypeInv
  <2>4. CASE Stay(name)
    <3>1. WalkTyped'
      BY <2>4, GoOnTyped DEF Stay, Searching, GoOn, TypeInv, Pointer
    <3> QED BY <2>4, <3>1, MovesTyped DEF Stay, tableVars, TypeInv
  <2>5. CASE RefuseReal(name)
    BY <2>5, GiveUpTyped, MovesTyped DEF RefuseReal, tableVars, TypeInv
  <2>6. CASE SearchReal(name)
    BY <2>1, <2>6, SearchRealTyped
  <2> QED BY <1>8, <2>2, <2>3, <2>4, <2>5, <2>6
<1>9. CASE FinishOpen
  BY <1>9, FinishOpenTyped
<1> QED BY <1>1, <1>2, <1>3, <1>4, <1>5, <1>6, <1>7, <1>8, <1>9 DEF Next, Walk

\* Every variable keeps its type, whatever build_tree finds in the memory of a
\* new node: get_node never hands fnmatch an empty pattern, cur is NULL or a
\* node that exists, and an open file has a realpath and flags.
THEOREM TypeCorrect == Spec => []TypeOK
<1>1. Spec => []TypeInv
  BY InitTyped, StepTyped, PTL DEF Spec
<1> QED BY <1>1, TypeInvImplies, PTL

-----------------------------------------------------------------------------
(* Filters and links of one real file *)

LEMMA NotEmpty == ASSUME NEW s, Len(s) > 0 PROVE s # <<>>
  OBVIOUS

LEMMA LastOfTwo ==
    ASSUME NEW k \in Nat, NEW n, n = k + 1, k > 0, n <= 2
    PROVE  k = 1 /\ n = 2
  OBVIOUS

\* A realpath below a node of the tree.
TreeReal == [top : HasReal, names : Seq(Component)]

LEMMA RealOfTree ==
    ASSUME NEW real \in Realpath, real.top \in HasReal
    PROVE  real \in TreeReal
<1>1. NoReal.top = "none" /\ "none" \notin HasReal
  BY GetfsAssumption DEF NoReal
<1> QED BY <1>1 DEF Realpath, TreeReal

LEMMA UnderReal ==
    ASSUME NEW real \in TreeReal, NEW name \in Component
    PROVE  /\ Under(real, name) \in TreeReal /\ Under(real, name).top = real.top
           /\ Under(real, name).names = Append(real.names, name)
           /\ Len(real.names) \in Nat /\ Len(Under(real, name).names) = Len(real.names) + 1
           /\ Under(real, name).names[Len(real.names) + 1] = name
           /\ \A i \in 1 .. Len(real.names) : Under(real, name).names[i] = real.names[i]
  BY DEF TreeReal, Under

\* The patterns of a node's filters have a first component.
LEMMA PatternHead ==
    ASSUME NEW n \in HasReal, Filter[n] # NoFilter, NEW f \in Filter[n]
    PROVE  f \in Seq(Component) /\ Len(f) \in Nat /\ Len(f) > 0 /\ Head(f) = f[1]
<1>1. f \in Seq(Component) /\ Len(f) > 0
  BY GetfsAssumption
<1> QED BY <1>1

\* A blacklist that allows the first name allows everything below it: get_node
\* refuses a directory whose name begins a longer entry of a blacklist.
LEMMA BlacklistAllows ==
    ASSUME NEW F, NEW real \in TreeReal, real.names # <<>>, FirstAllowed(F, real),
           "BLACKLIST" \in F
    PROVE  FilterAllows(F, real.top, real.names)
<1> SUFFICES ASSUME Filter[real.top] # NoFilter,
                    NEW f \in Filter[real.top]
             PROVE  ~MatchesTo(f, real.names, Len(f))
  BY DEF FilterAllows
<1>1. real.top \in HasReal
  BY DEF TreeReal
<1>2. Len(f) \in Nat /\ Len(f) > 0 /\ Head(f) = f[1]
  BY <1>1, PatternHead
<1>3. ~Match(Head(f), real.names[1])
  BY DEF FirstAllowed, Matching
<1> QED BY <1>2, <1>3 DEF MatchesTo

\* The file of the node itself.
LEMMA TopAllowed ==
    ASSUME NEW F, NEW n \in HasReal
    PROVE  RealOf(n) \in TreeReal /\ Reached(F, RealOf(n))
<1>1. /\ RealOf(n) \in TreeReal /\ RealOf(n).top = n /\ RealOf(n).names = <<>>
      /\ Len(RealOf(n).names) = 0
  BY DEF RealOf, TreeReal
<1>2. LinksFollowed(F, RealOf(n))
  BY <1>1 DEF LinksFollowed
<1>3. FilterAllows(F, n, <<>>)
  <2> SUFFICES ASSUME Filter[n] # NoFilter PROVE FilterAllows(F, n, <<>>)
    BY DEF FilterAllows
  <2>1. CASE "BLACKLIST" \in F
    BY <2>1, PatternHead DEF FilterAllows
  <2>2. CASE "BLACKLIST" \notin F
    <3>1. PICK f \in Filter[n] : TRUE
      BY GetfsAssumption
    <3>2. MatchesTo(f, <<>>, 0)
      BY PatternHead DEF MatchesTo
    <3> QED BY <2>2, <3>1, <3>2 DEF FilterAllows
  <2> QED BY <2>1, <2>2
<1> QED BY <1>1, <1>2, <1>3 DEF Reached

\* A file in the directory of the node.
LEMMA FirstLevelAllowed ==
    ASSUME NEW F, NEW real \in TreeReal, Len(real.names) = 1, FirstAllowed(F, real)
    PROVE  FilterAllows(F, real.top, real.names)
<1>1. CASE "BLACKLIST" \in F
  <2>1. Len(real.names) > 0
    OBVIOUS
  <2>2. real.names # <<>>
    BY <2>1, NotEmpty, Zenon
  <2> QED BY <1>1, <2>2, BlacklistAllows
<1>2. CASE Filter[real.top] = NoFilter
  BY <1>2 DEF FilterAllows
<1>3. CASE "BLACKLIST" \notin F /\ Filter[real.top] # NoFilter
  <2>1. PICK f \in Filter[real.top] : Match(Head(f), real.names[1])
    BY <1>3 DEF FirstAllowed, Matching
  <2>2. Len(f) \in Nat /\ Len(f) > 0 /\ Head(f) = f[1]
    BY <1>3, PatternHead DEF TreeReal
  <2>3. MatchesTo(f, real.names, 1)
    BY <2>1, <2>2 DEF MatchesTo
  <2> QED BY <1>3, <2>3 DEF FilterAllows
<1> QED BY <1>1, <1>2, <1>3

\* A file one directory further down, which the advanced filters allowed.
LEMMA SecondLevelAllowed ==
    ASSUME NEW F, NEW real \in TreeReal, Len(real.names) = 2, FirstAllowed(F, real),
           Filter[real.top] # NoFilter => "BLACKLIST" \in F
             \/ Matching(Below(Filter[real.top], real.names[1]), real.names[2]) # {}
    PROVE  FilterAllows(F, real.top, real.names)
<1>1. CASE "BLACKLIST" \in F
  <2>1. Len(real.names) > 0
    OBVIOUS
  <2>2. real.names # <<>>
    BY <2>1, NotEmpty, Zenon
  <2> QED BY <1>1, <2>2, BlacklistAllows
<1>2. CASE Filter[real.top] = NoFilter
  BY <1>2 DEF FilterAllows
<1>3. CASE "BLACKLIST" \notin F /\ Filter[real.top] # NoFilter
  <2>1. PICK g \in Below(Filter[real.top], real.names[1]) : Match(Head(g), real.names[2])
    BY <1>3 DEF Matching
  <2>2. PICK f \in Filter[real.top] :
          Match(Head(f), real.names[1]) /\ Len(f) > 1 /\ g = Tail(f)
    BY DEF Below, Matching
  <2>3. f \in Seq(Component) /\ Len(f) \in Nat /\ Head(f) = f[1]
    BY <1>3, PatternHead DEF TreeReal
  <2>4. Head(g) = f[2]
    BY <2>2, <2>3
  <2>5. MatchesTo(f, real.names, 2)
    BY <2>1, <2>2, <2>3, <2>4 DEF MatchesTo
  <2> QED BY <1>3, <2>5 DEF FilterAllows
<1> QED BY <1>1, <1>2, <1>3

\* A link that may be followed, below links that may be.
LEMMA FollowedBelow ==
    ASSUME NEW F, NEW real \in TreeReal, NEW name \in Component, NEW below, below = Under(real, name),
           LinksFollowed(F, real), IsLink(below) => "FOLLOW" \in F
    PROVE  LinksFollowed(F, below)
<1> DEFINE len == Len(real.names)
<1>1. /\ below \in TreeReal /\ below.top = real.top /\ Len(below.names) = len + 1 /\ len \in Nat
      /\ below.names = Append(real.names, name)
  BY UnderReal
<1>d. DOMAIN below.names = 1 .. len + 1
  BY <1>1 DEF TreeReal
<1> SUFFICES ASSUME NEW k \in 1 .. len + 1,
                    IsLink([below EXCEPT !.names = SubSeq(@, 1, k)])
             PROVE  "FOLLOW" \in F
  BY <1>1, <1>d DEF LinksFollowed
<1>2. CASE k = len + 1
  <2>1. SubSeq(below.names, 1, k) = below.names
    BY <1>1, <1>2 DEF TreeReal
  <2>2. [below EXCEPT !.names = SubSeq(@, 1, k)] = below
    BY <1>1, <2>1 DEF TreeReal
  <2> QED BY <2>2
<1>3. CASE k # len + 1
  <2>1. k \in DOMAIN real.names
    BY <1>1, <1>3 DEF TreeReal
  <2>2. SubSeq(below.names, 1, k) = SubSeq(real.names, 1, k)
    BY <1>1, <1>3 DEF TreeReal
  <2>3. [below EXCEPT !.names = SubSeq(@, 1, k)] = [real EXCEPT !.names = SubSeq(@, 1, k)]
    BY <1>1, <2>2 DEF TreeReal
  <2> QED BY <2>1, <2>3 DEF LinksFollowed
<1> QED BY <1>2, <1>3

-----------------------------------------------------------------------------
(* The proxy node *)

LEMMA InitGiven == Init => GivenInv /\ ReachedInv
<1> SUFFICES ASSUME Init PROVE GivenInv /\ ReachedInv
  OBVIOUS
<1>1. ASSUME NEW n \in Node PROVE AskedFor(flags[n], n)
  <2>1. PICK junk \in [Node -> UNION {Junk[x] : x \in Node}] :
        /\ \A x \in Node : junk[x] \in Junk[x]
        /\ flags = [x \in Tree |->
             IF x = "root" THEN {}
             ELSE BuildFlags(Option[x], x \in HasReal, RealOf(x), junk[x])]
    BY DEF Init
  <2>2. junk[n] \in Junk[n]
    BY <2>1
  <2>3. flags[n] = BuildFlags(Option[n], n \in HasReal, RealOf(n), junk[n])
    BY <2>1, GetfsAssumption DEF Tree
  <2>4. SameOptions(flags[n], Option[n] \cup junk[n])
    BY <2>3 DEF BuildFlags, DirectoryFlag, SameOptions
  <2> QED BY <2>2, <2>4 DEF AskedFor
<1>2. proxy.real = NoReal /\ NoReal.top \notin HasReal
  BY GetfsAssumption DEF Init, NoReal
<1>3. \A i \in DOMAIN fds : fds[i].file.top \notin HasReal
  BY <1>2 DEF Init, Unused
<1>4. cur = "NULL"
  BY DEF Init
<1> QED BY <1>1, <1>2, <1>3, <1>4 DEF GivenInv, ReachedInv

\* What the node cur points to is, when it has a realpath below a node of the
\* tree: that node, or proxy.
LEMMA CurGiven ==
    ASSUME TypeInv, GivenInv, NodeReal(cur) # NoReal, NodeReal(cur).top \in HasReal
    PROVE  /\ NodeReal(cur) \in TreeReal
           /\ SameOptions(NodeFlags(cur), flags[NodeReal(cur).top])
           /\ \/ /\ cur = "proxy" /\ NodeReal(cur) = proxy.real /\ NodeFilter(cur) = proxy.filter
                 /\ proxy.real.names # <<>> /\ FirstAllowed(flags[proxy.real.top], proxy.real)
              \/ /\ cur # "proxy" /\ cur \in HasReal
                 /\ NodeReal(cur) = RealOf(cur) /\ NodeFilter(cur) = Filter[cur]
<1>1. NodeReal(cur) \in TreeReal
  BY CurTyped, RealOfTree
<1>2. CASE cur = "proxy"
  <2>1. /\ NodeReal(cur) = proxy.real /\ NodeFilter(cur) = proxy.filter
        /\ NodeFlags(cur) = proxy.flags
    BY <1>2, GetfsAssumption DEF NodeReal, NodeFilter, NodeFlags
  <2> QED BY <1>1, <1>2, <2>1 DEF GivenInv
<1>3. CASE cur # "proxy"
  <2>1. NodeReal(cur) = RealOf(cur)
    BY <1>3 DEF NodeReal
  <2>2. cur \in HasReal
    BY <2>1 DEF RealOf
  <2>3. NodeFilter(cur) = Filter[cur] /\ NodeFlags(cur) = flags[cur]
    BY <1>3, <2>2, GetfsAssumption DEF NodeFilter, NodeFlags
  <2> QED BY <1>1, <1>3, <2>1, <2>2, <2>3 DEF RealOf, SameOptions
<1> QED BY <1>2, <1>3

\* The first name of the file that SearchReal finds.
LEMMA FirstSearched ==
    ASSUME TypeInv, GivenInv, NEW name \in Component, NEW below,
           NodeReal(cur) # NoReal, NodeReal(cur).top \in HasReal, Permitted(cur, name),
           below = Under(NodeReal(cur), name)
    PROVE  FirstAllowed(flags[below.top], below)
<1>1. PICK real \in TreeReal : real = NodeReal(cur)
  BY CurGiven
<1>2. below = Under(real, name)
  BY <1>1
<1>3. /\ below.top = real.top
      /\ below.names[Len(real.names) + 1] = name
      /\ \A i \in 1 .. Len(real.names) : below.names[i] = real.names[i]
  BY <1>2, UnderReal
<1>4. CASE cur = "proxy"
  <2>1. real = proxy.real /\ real.names # <<>> /\ FirstAllowed(flags[real.top], real)
    BY <1>1, <1>4, CurGiven
  <2>2. 1 \in 1 .. Len(real.names)
    BY <2>1 DEF TreeReal
  <2>3. below.names[1] = real.names[1]
    BY <1>3, <2>2
  <2> QED BY <1>3, <2>1, <2>3 DEF FirstAllowed
<1>5. CASE cur # "proxy"
  <2>1. real = RealOf(cur) /\ NodeFilter(cur) = Filter[cur] /\ SameOptions(NodeFlags(cur), flags[real.top])
    BY <1>1, <1>5, CurGiven
  <2>2. real.top = cur /\ Len(real.names) = 0
    BY <2>1 DEF RealOf
  <2>3. below.names[1] = name /\ below.top = cur
    BY <1>3, <2>2
  <2>4. "BLACKLIST" \in NodeFlags(cur) <=> "BLACKLIST" \in flags[cur]
    BY <2>1, <2>2 DEF SameOptions
  <2> QED BY <2>1, <2>3, <2>4 DEF FirstAllowed, Permitted
<1> QED BY <1>4, <1>5

LEMMA SearchRealGiven ==
    ASSUME TypeInv, GivenInv, NEW name \in Component, SearchReal(name)
    PROVE  GivenInv'
<1>1. PICK real \in Realpath : real = NodeReal(cur)
  BY CurTyped
<1>2. PICK below : below = Under(real, name)
  OBVIOUS
<1>3. NodeReal(cur) # NoReal /\ Permitted(cur, name) /\ UNCHANGED <<flags, fds>>
  BY DEF SearchReal, SearchingReal, tableVars
<1>4. \/ proxy' = proxy
      \/ proxy'.real = below /\ SameOptions(proxy'.flags, NodeFlags(cur))
  <2>1. \/ proxy' = proxy
        \/ proxy' = [real |-> below, filter |-> Advanced(cur, name),
                     flags |-> Inherited(cur) \cup DirectoryFlag(below)]
        \/ proxy' = [real |-> below, filter |-> NoFilter, flags |-> Inherited(cur)]
    BY <1>1, <1>2 DEF SearchReal, Under
  <2> QED BY <2>1 DEF Inherited, DirectoryFlag, SameOptions
<1>5. below.top = real.top /\ below.names = Append(real.names, name) /\ below.names # <<>>
  BY <1>1, <1>2, <1>3, UnderTyped
<1>6. CASE proxy' = proxy
  BY <1>3, <1>6 DEF GivenInv
<1>7. CASE proxy'.real = below /\ SameOptions(proxy'.flags, NodeFlags(cur))
  <2>1. ASSUME below.top \in HasReal
        PROVE  SameOptions(proxy'.flags, flags[below.top]) /\ FirstAllowed(flags[below.top], below)
    <3>1. FirstAllowed(flags[below.top], below)
      BY <1>1, <1>2, <1>3, <1>5, <2>1, FirstSearched
    <3>2. SameOptions(NodeFlags(cur), flags[below.top])
      BY <1>1, <1>3, <1>5, <2>1, CurGiven
    <3> QED BY <1>7, <3>1, <3>2 DEF SameOptions
  <2> QED BY <1>3, <1>5, <1>7, <2>1 DEF GivenInv
<1> QED BY <1>4, <1>6, <1>7

LEMMA FinishOpenGiven ==
    ASSUME TypeInv, GivenInv, FinishOpen
    PROVE  GivenInv'
<1>1. UNCHANGED <<flags, proxy>>
  BY DEF FinishOpen
<1>2. CASE UNCHANGED fds
  BY <1>1, <1>2 DEF GivenInv
<1>3. CASE ~UNCHANGED fds
  <2>1. PICK i \in Free : fds' = [fds EXCEPT ![i] = NewEntry]
    BY <1>3 DEF FinishOpen, Fails
  <2>2. /\ i \in DOMAIN fds /\ DOMAIN fds' = DOMAIN fds /\ fds'[i].file = NodeReal(cur)
        /\ \A j \in DOMAIN fds : j # i => fds'[j] = fds[j]
    BY <2>1 DEF Free, TypeInv, NewEntry
  <2>3. ASSUME NodeReal(cur).top \in HasReal
        PROVE  NodeReal(cur).names = <<>> \/ FirstAllowed(flags[NodeReal(cur).top], NodeReal(cur))
    <3>1. NodeReal(cur) # NoReal
      BY <2>3, GetfsAssumption DEF NoReal
    <3> QED BY <2>3, <3>1, CurGiven DEF RealOf
  <2> QED BY <1>1, <2>2, <2>3 DEF GivenInv
<1> QED BY <1>2, <1>3

\* A step that moves cur, to the proxy node only once the host has answered.
LEMMA MoveReached ==
    ASSUME ReachedInv, UNCHANGED <<flags, proxy, remote, fds>>,
           cur' # cur => /\ cur' = "proxy" => remote # NoRemote
                         /\ cur' = "remote" => remote # NoRemote
    PROVE  ReachedInv'
<1>1. cur' = "remote" => remote' # NoRemote
  BY DEF ReachedInv
<1>2. remote' = NoRemote /\ cur' = "proxy" => cur = "proxy"
  OBVIOUS
<1> QED BY <1>1, <1>2 DEF ReachedInv

\* The file of the node cur points to.
LEMMA CurReached ==
    ASSUME TypeInv, GivenInv, ReachedInv, remote = NoRemote,
           NodeReal(cur) # NoReal, NodeReal(cur).top \in HasReal
    PROVE  Reached(flags[NodeReal(cur).top], NodeReal(cur))
<1>1. CASE cur = "proxy"
  BY <1>1, CurGiven DEF ReachedInv
<1>2. CASE cur # "proxy"
  <2>1. PICK n \in HasReal : n = cur
    BY <1>2, CurGiven
  <2> QED BY <1>2, <2>1, CurGiven, TopAllowed
<1> QED BY <1>1, <1>2

LEMMA FinishOpenReached ==
    ASSUME TypeInv, GivenInv, ReachedInv, FinishOpen
    PROVE  ReachedInv'
<1>1. UNCHANGED <<flags, proxy, remote>> /\ cur' = "NULL"
  BY DEF FinishOpen
<1>2. CASE UNCHANGED fds
  BY <1>1, <1>2, MoveReached
<1>3. CASE ~UNCHANGED fds
  <2>1. PICK i \in Free : fds' = [fds EXCEPT ![i] = NewEntry]
    BY <1>3 DEF FinishOpen, Fails
  <2>2. /\ i \in DOMAIN fds /\ DOMAIN fds' = DOMAIN fds /\ fds'[i].file = NodeReal(cur)
        /\ \A j \in DOMAIN fds : j # i => fds'[j] = fds[j]
    BY <2>1 DEF Free, TypeInv, NewEntry
  <2>3. ASSUME NodeReal(cur).top \in HasReal, remote = NoRemote
        PROVE  Reached(flags[NodeReal(cur).top], NodeReal(cur))
    <3>1. NodeReal(cur) # NoReal
      BY <2>3, GetfsAssumption DEF NoReal
    <3> QED BY <2>3, <3>1, CurReached
  <2>4. remote = NoRemote =>
          \A j \in DOMAIN fds' : fds'[j].file.top \in HasReal =>
            Reached(flags[fds'[j].file.top], fds'[j].file)
    BY <2>2, <2>3 DEF ReachedInv
  <2> QED BY <1>1, <2>4 DEF ReachedInv
<1> QED BY <1>2, <1>3

\* An entry that SearchReal found and that becomes the proxy node.
LEMMA FoundReached ==
    ASSUME TypeInv, GivenInv, ReachedInv, NEW name \in Component, NEW below,
           remote = NoRemote, NodeReal(cur) # NoReal, NodeReal(cur).top \in HasReal,
           Permitted(cur, name), Followed(cur, below),
           below = Under(NodeReal(cur), name)
    PROVE  /\ Reached(flags[below.top], below)
           /\ Len(below.names) = 1 /\ Filter[below.top] # NoFilter =>
                Advanced(cur, name) = Below(Filter[below.top], below.names[1])
<1>1. PICK real \in TreeReal : real = NodeReal(cur)
  BY CurGiven
<1>2. below = Under(real, name)
  BY <1>1
<1>3. /\ below \in TreeReal /\ below.top = real.top
      /\ Len(below.names) = Len(real.names) + 1 /\ Len(real.names) \in Nat
      /\ below.names[Len(real.names) + 1] = name
      /\ \A i \in 1 .. Len(real.names) : below.names[i] = real.names[i]
  BY <1>2, UnderReal
<1>4. /\ "BLACKLIST" \in NodeFlags(cur) <=> "BLACKLIST" \in flags[real.top]
      /\ "FOLLOW" \in NodeFlags(cur) <=> "FOLLOW" \in flags[real.top]
  BY <1>1, CurGiven DEF SameOptions
<1>5. FirstAllowed(flags[below.top], below)
  BY FirstSearched
<1>6. LinksFollowed(flags[below.top], below)
  <2>1. LinksFollowed(flags[real.top], real)
    BY <1>1, CurReached DEF Reached
  <2>2. IsLink(below) => "FOLLOW" \in flags[real.top]
    BY <1>4 DEF Followed
  <2>3. flags[below.top] = flags[real.top]
    BY <1>3
  <2> QED BY <1>2, <2>1, <2>2, <2>3, FollowedBelow
<1>7. CASE cur = "proxy"
  <2>1. /\ real = proxy.real /\ NodeFilter(cur) = proxy.filter /\ real.names # <<>>
    BY <1>1, <1>7, CurGiven
  <2>2. Len(real.names) > 0
    BY <2>1 DEF TreeReal
  <2>3. ASSUME Len(below.names) <= 2 PROVE FilterAllows(flags[below.top], below.top, below.names)
    <3>1. Len(real.names) = 1 /\ Len(below.names) = 2
      BY <1>3, <2>2, <2>3, LastOfTwo, Zenon
    <3>2. below.names[1] = real.names[1] /\ below.names[2] = name
      BY <1>3, <3>1
    <3>3. ASSUME Filter[real.top] # NoFilter, "BLACKLIST" \notin flags[real.top]
          PROVE  Matching(Below(Filter[real.top], real.names[1]), name) # {}
      <4>1. proxy.filter = Below(Filter[real.top], real.names[1])
        BY <1>1, <1>7, <2>1, <3>1, <3>3 DEF ReachedInv
      <4>2. proxy.filter # NoFilter
        <5>1. real.top \in HasReal
          BY DEF TreeReal
        <5>2. {g \in Matching(Filter[real.top], real.names[1]) : Len(g) > 1} \in SUBSET Filter[real.top]
          BY DEF Matching
        <5> QED BY <3>3, <4>1, <5>1, <5>2, GetfsAssumption DEF Below
      <4>3. Matching(proxy.filter, name) # {}
        BY <1>4, <2>1, <3>3, <4>2 DEF Permitted
      <4> QED BY <4>1, <4>3
    <3> QED BY <1>3, <1>5, <3>1, <3>2, <3>3, SecondLevelAllowed
  <2>4. Len(below.names) # 1
    BY <1>3, <2>2
  <2> QED BY <1>6, <2>3, <2>4 DEF Reached
<1>8. CASE cur # "proxy"
  <2>1. real = RealOf(cur) /\ NodeFilter(cur) = Filter[cur]
    BY <1>1, <1>8, CurGiven
  <2>2. real.top = cur /\ Len(real.names) = 0
    BY <2>1 DEF RealOf
  <2>3. Len(below.names) = 1 /\ below.names[1] = name /\ below.top = cur
    BY <1>3, <2>2
  <2>4. FilterAllows(flags[below.top], below.top, below.names)
    BY <1>3, <1>5, <2>3, FirstLevelAllowed
  <2>5. Filter[cur] # NoFilter => Advanced(cur, name) = Below(Filter[cur], name)
    BY <1>8, <2>1 DEF Advanced, Below
  <2> QED BY <1>6, <2>3, <2>4, <2>5 DEF Reached
<1> QED BY <1>7, <1>8

LEMMA SearchRealReached ==
    ASSUME TypeInv, GivenInv, ReachedInv, NEW name \in Component, SearchReal(name)
    PROVE  ReachedInv'
<1>1. NodeReal(cur) # NoReal /\ Permitted(cur, name) /\ UNCHANGED <<flags, remote, fds>>
  BY DEF SearchReal, SearchingReal, tableVars
<1>2. PICK below : below = Under(NodeReal(cur), name)
  OBVIOUS
<1>3. \/ cur' = "NULL"
      \/ /\ cur' = "proxy" /\ Followed(cur, below)
         /\ proxy'.real = below /\ proxy'.filter = Advanced(cur, name)
  BY <1>2 DEF SearchReal, Under, GoOn, GiveUp
<1>4. CASE cur' = "NULL"
  BY <1>1, <1>4 DEF ReachedInv
<1>5. CASE cur' = "proxy" /\ Followed(cur, below)
           /\ proxy'.real = below /\ proxy'.filter = Advanced(cur, name)
  <2>1. below.top = NodeReal(cur).top
    <3>1. PICK real \in Realpath : real = NodeReal(cur)
      BY CurTyped
    <3>2. below = Under(real, name)
      BY <1>2, <3>1
    <3> QED BY <1>1, <3>1, <3>2, UnderTyped
  <2>2. ASSUME remote = NoRemote, below.top \in HasReal
        PROVE  /\ Reached(flags[below.top], below)
               /\ Len(below.names) = 1 /\ Filter[below.top] # NoFilter =>
                    proxy'.filter = Below(Filter[below.top], below.names[1])
    BY <1>1, <1>2, <1>5, <2>1, <2>2, FoundReached
  <2> QED BY <1>1, <1>5, <2>2 DEF ReachedInv
<1> QED BY <1>3, <1>4, <1>5

LEMMA AskHostReached ==
    ASSUME TypeInv, ReachedInv, NEW name \in Component, AskHost(name)
    PROVE  ReachedInv'
<1>1. UNCHANGED <<flags, proxy, fds>>
  BY DEF AskHost, tableVars
<1>2. CASE cur' = "NULL" /\ UNCHANGED remote
  BY <1>1, <1>2, MoveReached
<1>3. CASE remote'.name = name
  <2>1. NoRemote.name = "/" /\ name # "/"
    BY DEF NoRemote, Component
  <2> QED BY <1>3, <2>1 DEF ReachedInv
<1> QED BY <1>2, <1>3 DEF AskHost, GiveUp

\* GivenInv and ReachedInv are inductive, relative to the types.
LEMMA StepGiven ==
    ASSUME TypeInv, GivenInv, ReachedInv, [Next]_vars
    PROVE  GivenInv' /\ ReachedInv'
<1>1. ASSUME UNCHANGED <<flags, proxy, fds>> PROVE GivenInv'
  BY <1>1 DEF GivenInv
<1>2. CASE UNCHANGED vars
  BY <1>1, <1>2, MoveReached DEF vars
<1>3. ASSUME NEW request \in Request, OpenNode(request) PROVE GivenInv' /\ ReachedInv'
  BY <1>1, <1>3, MoveReached DEF OpenNode, tableVars
<1>4. CASE Skip
  BY <1>1, <1>4, MoveReached DEF Skip, GoOn, tableVars
<1>5. CASE DotDot
  <2>1. UNCHANGED <<flags, proxy, remote, fds>> /\ cur' = ParentOf(cur) /\ cur # "NULL"
    BY <1>5 DEF DotDot, GoOn, tableVars
  <2>2. cur # "remote" => ParentOf(cur) # "proxy" /\ ParentOf(cur) # "remote"
    <3>1. CASE cur \in Node
      <4>1. Parent[cur] \in Tree /\ cur # "proxy" /\ cur # "remote" /\ cur # "root"
        BY <3>1, GetfsAssumption
      <4> QED BY <4>1, GetfsAssumption DEF ParentOf, Tree
    <3>2. CASE cur \in {"proxy", "root"}
      BY <3>2 DEF ParentOf
    <3> QED BY <2>1, <3>1, <3>2 DEF TypeInv, Tree
  <2>3. cur = "remote" => remote # NoRemote
    BY DEF ReachedInv
  <2> QED BY <1>1, <2>1, <2>2, <2>3, MoveReached
<1>6. CASE NullDereference
  BY <1>1, <1>6, MoveReached DEF NullDereference, tableVars
<1>7. CASE WalkEnds
  BY <1>1, <1>7, MoveReached DEF WalkEnds, tableVars
<1>8. CASE GetCwd
  BY <1>1, <1>8, MoveReached DEF GetCwd, GiveUp, tableVars
<1>9. ASSUME NEW name \in {todo[i] : i \in DOMAIN todo},
             \/ AskHost(name) \/ EnterChild(name) \/ Stay(name)
             \/ RefuseReal(name) \/ SearchReal(name)
      PROVE  GivenInv' /\ ReachedInv'
  <2>1. name \in Component
    BY DEF TypeInv
  <2>2. CASE AskHost(name)
    BY <1>1, <2>1, <2>2, AskHostReached DEF AskHost, tableVars
  <2>3. CASE EnterChild(name)
    <3>1. PICK child \in Children(cur, name) : cur' = child
      BY <2>3 DEF EnterChild, GoOn
    <3>2. UNCHANGED <<flags, proxy, remote, fds>>
      BY <2>3 DEF EnterChild, tableVars
    <3>3. child # "proxy" /\ (child = "remote" => remote # NoRemote)
      BY <3>1, GetfsAssumption DEF Children
    <3> QED BY <1>1, <3>1, <3>2, <3>3, MoveReached
  <2>4. CASE Stay(name)
    BY <1>1, <2>4, MoveReached DEF Stay, GoOn, tableVars
  <2>5. CASE RefuseReal(name)
    BY <1>1, <2>5, MoveReached DEF RefuseReal, GiveUp, tableVars
  <2>6. CASE SearchReal(name)
    BY <2>1, <2>6, SearchRealGiven, SearchRealReached
  <2> QED BY <1>9, <2>2, <2>3, <2>4, <2>5, <2>6
<1>10. CASE FinishOpen
  BY <1>10, FinishOpenGiven, FinishOpenReached
<1> QED BY <1>2, <1>3, <1>4, <1>5, <1>6, <1>7, <1>8, <1>9, <1>10 DEF Next, Walk

LEMMA Invariance == Spec => []IInv
<1>1. Init => IInv
  BY InitTyped, InitGiven DEF IInv
<1>2. IInv /\ [Next]_vars => IInv'
  BY StepTyped, StepGiven DEF IInv
<1> QED BY <1>1, <1>2, PTL DEF Spec

LEMMA InvGivesOptions == IInv => OptionsAreGiven
<1> SUFFICES ASSUME IInv, NEW n \in Node, n = TopOf(cur) PROVE OptionsAreGiven
  BY DEF OptionsAreGiven
<1>1. SameOptions(NodeFlags(cur), flags[n])
  <2>1. CASE cur = "proxy"
    <3>1. n = proxy.real.top /\ NodeFlags(cur) = proxy.flags
      BY <2>1 DEF TopOf, NodeFlags
    <3>2. proxy.real \in Realpath /\ NoReal.top \notin Node /\ "remote" \notin Node
      BY GetfsAssumption DEF IInv, TypeInv, NoReal
    <3>3. n \in HasReal
      BY <3>1, <3>2 DEF Realpath
    <3> QED BY <3>1, <3>3 DEF IInv, GivenInv
  <2>2. CASE cur # "proxy"
    <3>1. n = cur
      BY <2>2 DEF TopOf
    <3> QED BY <2>2, <3>1, GetfsAssumption DEF NodeFlags, SameOptions
  <2> QED BY <2>1, <2>2
<1>2. PICK junk \in Junk[n] : SameOptions(flags[n], Option[n] \cup junk)
  BY DEF IInv, GivenInv, AskedFor
<1> QED BY <1>1, <1>2 DEF OptionsAreGiven, SameOptions

\* What the invariants say of an opened file, or of the one just found.
LEMMA OpenedReached ==
    ASSUME IInv, NEW real \in OfTree
    PROVE  /\ real \in TreeReal
           /\ real.names = <<>> \/ FirstAllowed(flags[real.top], real)
           /\ remote = NoRemote => Reached(flags[real.top], real)
<1>1. real.top \in HasReal
  BY DEF OfTree
<1>2. CASE real = proxy.real /\ cur = "proxy"
  <2>1. proxy.real \in Realpath
    BY DEF IInv, TypeInv
  <2>2. FirstAllowed(flags[real.top], real) /\ (remote = NoRemote => Reached(flags[real.top], real))
    BY <1>1, <1>2 DEF IInv, GivenInv, ReachedInv
  <2> QED BY <1>1, <1>2, <2>1, <2>2, RealOfTree
<1>3. CASE ~(real = proxy.real /\ cur = "proxy")
  <2>1. PICK i \in DOMAIN fds : real = fds[i].file /\ fds[i] # Unused
    BY <1>3 DEF OfTree, Opened, Free
  <2>2. real \in Realpath
    BY <2>1 DEF IInv, TypeInv
  <2>3. real.names = <<>> \/ FirstAllowed(flags[real.top], real)
    BY <1>1, <2>1 DEF IInv, GivenInv
  <2>4. remote = NoRemote => Reached(flags[real.top], real)
    BY <1>1, <2>1 DEF IInv, ReachedInv
  <2> QED BY <1>1, <2>2, <2>3, <2>4, RealOfTree
<1> QED BY <1>2, <1>3

LEMMA InvFilters == IInv => FiltersOfTwoLevels
<1> SUFFICES ASSUME IInv, NEW real \in OfTree,
                    "BLACKLIST" \in flags[real.top]
                      \/ (Len(real.names) <= 2 /\ remote = NoRemote)
             PROVE  FilterAllows(flags[real.top], real.top, real.names)
  BY DEF FiltersOfTwoLevels
<1>1. /\ real \in TreeReal
      /\ real.names = <<>> \/ FirstAllowed(flags[real.top], real)
      /\ remote = NoRemote => Reached(flags[real.top], real)
  BY OpenedReached
<1>2. CASE Len(real.names) <= 2 /\ remote = NoRemote
  BY <1>1, <1>2 DEF Reached
<1>3. CASE "BLACKLIST" \in flags[real.top] /\ real.names # <<>>
  BY <1>1, <1>3, BlacklistAllows
<1>4. CASE "BLACKLIST" \in flags[real.top] /\ real.names = <<>>
  <2>1. real.top \in HasReal
    BY <1>1 DEF TreeReal
  <2>2. RealOf(real.top).top = real.top /\ RealOf(real.top).names = <<>> /\ Len(<<>>) <= 2
    BY DEF RealOf
  <2>3. FilterAllows(flags[real.top], real.top, <<>>)
    BY <2>1, <2>2, TopAllowed DEF Reached
  <2> QED BY <1>4, <2>3
<1> QED BY <1>2, <1>3, <1>4

LEMMA InvLinks == IInv => SymlinksRespectedWithoutHost
<1> SUFFICES ASSUME IInv, remote = NoRemote, NEW real \in OfTree
             PROVE  LinksFollowed(flags[real.top], real)
  BY DEF SymlinksRespectedWithoutHost, SymlinksRespected, LinksFollowed
<1> QED BY OpenedReached DEF Reached

\* The node get_node returns has the options that build_tree left in the node of
\* getfs it lies below, at every depth and after every history of calls: those that
\* getfs asks for, and beyond them only what the memory of that node held.
THEOREM OptionsGiven == Spec => []OptionsAreGiven
  BY Invariance, InvGivesOptions, PTL

\* No history of calls makes open_node reach a real file that the filters of
\* its node, with the flags build_tree left in it, exclude: at every depth for a blacklist, in the first two levels
\* for a whitelist while the host has answered no getnode.
THEOREM FiltersHold == Spec => []FiltersOfTwoLevels
  BY Invariance, InvFilters, PTL

\* Nor does it reach a real file behind a symbolic link below a node that
\* build_tree left without "follow" while the host has answered no getnode.
THEOREM LinksHold == Spec => []SymlinksRespectedWithoutHost
  BY Invariance, InvLinks, PTL

===============================================================================
