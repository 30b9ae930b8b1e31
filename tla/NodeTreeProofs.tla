---------------------------- MODULE NodeTreeProofs ----------------------------
(***************************************************************************)
(* Proofs about NodeTree, for every number of nodes and names, every disk, *)
(* every set of nodes the application makes and every path.                *)
(***************************************************************************)
EXTENDS NodeTree, TLAPS

Component == Name \cup {".", ".."}

\* The constructed nodes; that every one but the root has a name.
Objects ==
    /\ DOMAIN obj = Handle
    /\ \A h \in Handle : obj[h] # Unborn =>
         /\ obj[h].kind \in DirKind \cup FileKind /\ obj[h].options \in Option
         /\ h # Root => obj[h].name \in Name
    /\ obj[Root] # Unborn

Links ==
    /\ parent \in [Handle -> Handle \cup {None}]
    /\ nodes \in [Handle -> [Name -> Handle \cup {None}]]
    /\ path \in [Handle -> Seq(Name) \cup {NoPath}]

\* Only a constructed node has a parent, which is a directory; the root has none.
Parents ==
    \A h \in Handle : parent[h] # None => h \in Born \ {Root} /\ IsDirBase(parent[h])

\* The path of a node, with null as the empty string.
PathOf(h) == IF path[h] = NoPath THEN <<>> ELSE path[h]

\* The directories whose listings getNode may get to: those with a path, and
\* the root.  A directory that was removed keeps its listing, with stale paths.
Placed(d) == d = Root \/ path[d] # NoPath

\* Only constructed nodes are listed, and not the root.
Listings == \A d \in Handle, n \in Name : nodes[d][n] # None => nodes[d][n] \in Born \ {Root}

\* A listed node has the path below its directory, but for what the history excepts.
Paths ==
    /\ path[Root] = NoPath
    /\ \A d \in Handle, n \in Name :
         nodes[d][n] # None /\ nodes[d][n] \notin renamed /\ d \notin uprooted /\ Placed(d) =>
             path[nodes[d][n]] = PathBelow(d, n)

\* The root is never attached, and so never under another key.
History == renamed \subseteq Handle \ {Root} /\ uprooted \subseteq Handle \ {Root}

TreeInv ==
    Objects /\ Links /\ Listings /\ ListedHasParent /\ Parents /\ Paths /\ History

\* getNode is at a placed node, below which lie the components it has left.
WalkInv ==
    /\ pc \in {"idle", "normalize", "isset", "get", "found"} /\ at \in Born
    /\ asked \in Seq(Name) /\ todo \in Seq(Component) /\ via \subseteq Handle
    /\ IF pc = "normalize" THEN at = Root ELSE todo \in Seq(Name)
    /\ pc \in {"isset", "get", "found"} /\ WayIsPlain =>
         Placed(at) /\ asked = PathOf(at) \o todo
    /\ pc = "get" => todo # <<>> /\ nodes[at][Head(todo)] # None
    /\ pc = "found" => todo = <<>> /\ at # Root

DiskInv == disk \subseteq DOMAIN Disk

\* The inductive invariant.
IInv == TreeInv /\ WalkInv /\ DiskInv

-----------------------------------------------------------------------------
(* Facts about single nodes and paths *)

\* A directory is a constructed node.
LEMMA DirIsBorn == ASSUME NEW d \in Handle, IsDirBase(d) PROVE d \in Born
<1>1. Unborn.kind = "unborn"
  BY DEF Unborn
<1>2. obj[d] # Unborn
  BY <1>1 DEF IsDirBase, DirKind
<1> QED BY <1>2 DEF Born

LEMMA PathBelowIsPath ==
    ASSUME Links, NEW d \in Handle, NEW n \in Name
    PROVE  /\ PathBelow(d, n) \in Seq(Name) /\ PathBelow(d, n) # NoPath
           /\ PathOf(d) \in Seq(Name) /\ PathBelow(d, n) = Append(PathOf(d), n)
<1>1. path[d] = NoPath \/ path[d] \in Seq(Name)
  BY DEF Links
<1>2. PathOf(d) \in Seq(Name)
  BY <1>1 DEF PathOf
<1>3. PathBelow(d, n) = Append(PathOf(d), n)
  BY DEF PathBelow, PathOf
<1>4. Append(PathOf(d), n) \in Seq(Name)
  BY <1>2
<1>5. NoPath \notin Seq(Name)
  BY TreeAssumption
<1> QED BY <1>2, <1>3, <1>4, <1>5

\* A listed node is constructed and not the root.
LEMMA ListedIsBorn ==
    ASSUME TreeInv, NEW d \in Handle, NEW n \in Name, nodes[d][n] # None
    PROVE  /\ nodes[d][n] \in Born \ {Root}
           /\ nodes[d][n] \notin renamed => parent[nodes[d][n]] = d /\ obj[nodes[d][n]].name = n
BY DEF TreeInv, Listings, ListedHasParent

\* A node before its construction is in nobody's listing, and nobody's parent.
LEMMA UnbornIsAlone ==
    ASSUME TreeInv, NEW h \in Handle, obj[h] = Unborn
    PROVE  /\ h # Root /\ parent[h] = None
           /\ \A x \in Handle : parent[x] # h
           /\ \A d \in Handle, n \in Name : nodes[d][n] # h
<1>1. h \notin Born
  BY DEF Born
<1>2. h # Root /\ parent[h] = None
  BY <1>1 DEF TreeInv, Objects, Parents
<1>3. ASSUME NEW x \in Handle PROVE parent[x] # h
  <2> SUFFICES ASSUME parent[x] = h PROVE FALSE
    OBVIOUS
  <2>1. IsDirBase(h)
    BY TreeAssumption DEF TreeInv, Parents
  <2> QED BY <1>1, <2>1, DirIsBorn
<1>4. ASSUME NEW d \in Handle, NEW n \in Name PROVE nodes[d][n] # h
  BY <1>1, ListedIsBorn, TreeAssumption
<1> QED BY <1>2, <1>3, <1>4

-----------------------------------------------------------------------------
(* Steps that change the tree *)

\* A step that lists h in d by the name m, or not at all, or under another key,
\* and no other node anew.
Lists(d, h, m) ==
    \A e \in Handle, n \in Name :
        \/ nodes'[e][n] \in {None, nodes[e][n]} \ {h}
        \/ e = d /\ n = m /\ nodes'[e][n] \in {None, h}
        \/ nodes'[e][n] = h /\ h \in renamed'

\* The history of a step that attaches h to d.
Recorded(d, h) ==
    /\ History' /\ renamed \subseteq renamed' /\ uprooted \subseteq uprooted'
    /\ renamed' \subseteq renamed \cup {h} /\ (HasChildren(h, d) => h \in uprooted')

\* A node h gets the parent d and the path below it, and is listed by d or by
\* nobody.
LEMMA PlacingKeepsTree ==
    ASSUME TreeInv, NEW h \in Handle \ {Root}, NEW d \in Handle, NEW m \in Name, NEW p \in Seq(Name),
           IsDirBase(d), d # h => p = PathBelow(d, m), Recorded(d, h),
           Objects', obj'[h] # Unborn, obj'[h].name = m,
           \A x \in Handle : obj'[x] = obj[x] \/ (x = h /\ obj[h] = Unborn),
           parent' = [parent EXCEPT ![h] = d],
           path' = [path EXCEPT ![h] = p],
           nodes' \in [Handle -> [Name -> Handle \cup {None}]], Lists(d, h, m)
    PROVE  TreeInv'
<1>1. /\ parent'[h] = d /\ \A x \in Handle \ {h} : parent'[x] = parent[x]
      /\ path'[h] = p /\ \A x \in Handle \ {h} : path'[x] = path[x]
  BY DEF TreeInv, Links
<1>2. Links' /\ \A x \in Handle : IsDirBase(x) => obj'[x] = obj[x]
  BY DirIsBorn DEF TreeInv, Links, Born
<1>3. ASSUME NEW e \in Handle, NEW n \in Name, nodes'[e][n] # None
      PROVE  \/ nodes'[e][n] = h /\ (h \notin renamed' => e = d /\ n = m)
             \/ /\ nodes'[e][n] # h /\ nodes'[e][n] = nodes[e][n] /\ nodes[e][n] \in Born \ {Root}
                /\ nodes[e][n] \notin renamed =>
                     /\ parent[nodes[e][n]] = e /\ obj[nodes[e][n]].name = n
                     /\ (e = h => h \in uprooted')
  <2>1. CASE nodes'[e][n] = h
    BY <2>1 DEF Lists
  <2>2. CASE nodes'[e][n] # h
    <3>1. nodes'[e][n] = nodes[e][n]
      BY <1>3, <2>2 DEF Lists
    <3>2. /\ nodes[e][n] \in Born \ {Root}
          /\ nodes[e][n] \notin renamed => parent[nodes[e][n]] = e /\ obj[nodes[e][n]].name = n
      BY <1>3, <3>1, ListedIsBorn
    <3>3. nodes[e][n] \notin renamed /\ e = h => h \in uprooted'
      BY <3>2 DEF Recorded, HasChildren, Born
    <3> QED BY <2>2, <3>1, <3>2, <3>3
  <2> QED BY <2>1, <2>2
<1>4. ListedHasParent'
  <2> SUFFICES ASSUME NEW e \in Handle, NEW n \in Name, nodes'[e][n] # None, nodes'[e][n] \notin renamed'
               PROVE  parent'[nodes'[e][n]] = e /\ obj'[nodes'[e][n]].name = n
    BY DEF ListedHasParent
  <2>1. CASE nodes'[e][n] = h
    BY <1>1, <1>3, <2>1
  <2>2. CASE nodes'[e][n] # h
    <3>1. nodes'[e][n] \notin renamed
      BY DEF Recorded
    <3>2. /\ nodes'[e][n] = nodes[e][n] /\ nodes[e][n] \in Handle \ {h}
          /\ parent[nodes[e][n]] = e /\ obj[nodes[e][n]].name = n
      BY <1>3, <2>2, <3>1 DEF Born
    <3> QED BY <1>1, <3>2
  <2> QED BY <2>1, <2>2
<1>5. Parents'
  <2> SUFFICES ASSUME NEW x \in Handle, parent'[x] # None
               PROVE  obj'[x] # Unborn /\ x # Root /\ obj'[parent'[x]].kind \in DirKind
    BY DEF Parents, Born, IsDirBase
  <2>1. CASE x = h
    BY <1>1, <1>2, <2>1 DEF IsDirBase
  <2>2. CASE x # h
    <3>1. parent'[x] = parent[x] /\ parent[x] \in Handle
      BY <1>1, <2>2 DEF TreeInv, Links
    <3>2. x \in Born \ {Root} /\ IsDirBase(parent[x])
      BY <3>1 DEF TreeInv, Parents
    <3>3. obj'[parent[x]] = obj[parent[x]]
      BY <1>2, <3>1, <3>2
    <3> QED BY <2>2, <3>1, <3>2, <3>3 DEF Born, IsDirBase
  <2> QED BY <2>1, <2>2
<1>6. Paths'
  <2>1. path'[Root] = NoPath
    BY <1>1, TreeAssumption DEF TreeInv, Paths
  <2>2. ASSUME NEW e \in Handle, NEW n \in Name, nodes'[e][n] # None, nodes'[e][n] \notin renamed',
               e \notin uprooted', Placed(e)'
        PROVE  path'[nodes'[e][n]] = PathBelow(e, n)'
    <3>1. CASE nodes'[e][n] = h
      <4>1. e = d /\ n = m
        BY <1>3, <2>2, <3>1
      <4>2. d # h
        BY <2>2, <4>1 DEF Recorded, HasChildren
      <4>3. path'[d] = path[d]
        BY <1>1, <4>2
      <4> QED BY <1>1, <3>1, <4>1, <4>2, <4>3 DEF PathBelow
    <3>2. CASE nodes'[e][n] # h
      <4>1. nodes'[e][n] \notin renamed /\ e \notin uprooted
        BY <2>2 DEF Recorded
      <4>2. nodes'[e][n] = nodes[e][n] /\ nodes[e][n] \in Handle \ {h} /\ e # h
        BY <1>3, <2>2, <3>2, <4>1 DEF Born
      <4>3. path'[e] = path[e] /\ path'[nodes[e][n]] = path[nodes[e][n]]
        BY <1>1, <4>2
      <4>4. Placed(e)
        BY <2>2, <4>3 DEF Placed
      <4>5. path[nodes[e][n]] = PathBelow(e, n)
        BY <2>2, <4>1, <4>2, <4>4 DEF TreeInv, Paths
      <4> QED BY <4>2, <4>3, <4>5 DEF PathBelow
    <3> QED BY <3>1, <3>2
  <2> QED BY <2>1, <2>2 DEF Paths
<1>7. Listings'
  <2> SUFFICES ASSUME NEW e \in Handle, NEW n \in Name, nodes'[e][n] # None
               PROVE  nodes'[e][n] \in Handle \ {Root} /\ obj'[nodes'[e][n]] # Unborn
    BY DEF Listings, Born
  <2>1. CASE nodes'[e][n] = h
    BY <2>1
  <2>2. CASE nodes'[e][n] # h
    <3>1. nodes'[e][n] = nodes[e][n] /\ nodes[e][n] \in Born \ {Root}
      BY <1>3, <2>2
    <3> QED BY <2>2, <3>1 DEF Born
  <2> QED BY <2>1, <2>2
<1> QED BY <1>2, <1>4, <1>5, <1>6, <1>7 DEF TreeInv, Recorded

\* The steps of the tree while getNode is idle leave it idle.
LEMMA IdleKeepsWalk ==
    ASSUME IInv, pc = "idle", TreeInv', \A x \in Handle : obj[x] # Unborn => obj'[x] # Unborn,
           UNCHANGED <<disk, walkVars>>
    PROVE  IInv'
<1>1. at' \in Born'
  BY DEF IInv, WalkInv, Born, walkVars
<1>2. pc' = "idle" /\ asked' = asked /\ todo' = todo /\ via' = via
  BY DEF walkVars
<1>3. WalkInv'
  BY <1>1, <1>2 DEF IInv, WalkInv
<1>4. DiskInv'
  BY DEF IInv, DiskInv
<1> QED BY <1>3, <1>4 DEF IInv

\* A new node takes an object that nothing refers to.
LEMMA BirthKeepsObjects ==
    ASSUME Objects, NEW h \in Handle, obj[h] = Unborn, NEW g,
           g.kind \in DirKind \cup FileKind, g.name \in Name, g.options \in Option,
           obj' = [obj EXCEPT ![h] = g]
    PROVE  /\ Objects' /\ obj'[h] = g /\ g # Unborn
           /\ \A x \in Handle \ {h} : obj'[x] = obj[x]
           /\ \A x \in Handle : obj[x] # Unborn => obj'[x] # Unborn
<1>1. Unborn.kind = "unborn"
  BY DEF Unborn
<1>2. g # Unborn
  BY <1>1 DEF DirKind, FileKind
<1>3. /\ DOMAIN obj' = Handle /\ obj'[h] = g
      /\ \A x \in Handle \ {h} : obj'[x] = obj[x]
  BY DEF Objects
<1>4. Objects'
  BY <1>2, <1>3, TreeAssumption DEF Objects
<1> QED BY <1>2, <1>3, <1>4

\* What the application makes.
LEMMA GivenIsNode ==
    ASSUME NEW g \in Given
    PROVE  g.kind \in DirKind \cup FileKind /\ g.name \in Name /\ g.options \in Option
BY TreeAssumption

LEMMA ConstructKeepsInv ==
    ASSUME IInv, NEW h \in Handle, NEW g \in Given, Construct(h, g)
    PROVE  IInv'
<1>1. pc = "idle" /\ obj[h] = Unborn /\ obj' = [obj EXCEPT ![h] = g]
      /\ UNCHANGED <<parent, path, nodes, renamed, uprooted, disk, walkVars>>
  BY DEF Construct, historyVars
<1>2. TreeInv
  BY DEF IInv
<1>3. /\ Objects' /\ \A x \in Handle \ {h} : obj'[x] = obj[x]
      /\ \A x \in Handle : obj[x] # Unborn => obj'[x] # Unborn
  BY <1>1, <1>2, GivenIsNode, BirthKeepsObjects DEF TreeInv
<1>4. Links'
  BY <1>1, <1>2 DEF TreeInv, Links
<1>5. ListedHasParent'
  <2> SUFFICES ASSUME NEW e \in Handle, NEW n \in Name, nodes[e][n] # None, nodes[e][n] \notin renamed
               PROVE  parent[nodes[e][n]] = e /\ obj'[nodes[e][n]].name = n
    BY <1>1 DEF ListedHasParent
  <2>1. nodes[e][n] \in Born /\ parent[nodes[e][n]] = e /\ obj[nodes[e][n]].name = n
    BY <1>2, ListedIsBorn
  <2> QED BY <1>1, <1>3, <2>1 DEF Born
<1>6. Parents'
  <2> SUFFICES ASSUME NEW x \in Handle, parent[x] # None
               PROVE  obj'[x] # Unborn /\ x # Root /\ obj'[parent[x]].kind \in DirKind
    BY <1>1 DEF Parents, Born, IsDirBase
  <2>1. x \in Born \ {Root} /\ IsDirBase(parent[x]) /\ parent[x] \in Handle
    BY <1>2 DEF TreeInv, Parents, Links
  <2>2. parent[x] # h
    BY <1>1, <1>2, UnbornIsAlone
  <2> QED BY <1>3, <2>1, <2>2 DEF Born, IsDirBase
<1>7. Paths'
  BY <1>1, <1>2 DEF TreeInv, Paths, Placed, PathBelow
<1>8. Listings' /\ History'
  BY <1>1, <1>2, <1>3 DEF TreeInv, Listings, History, Born
<1> QED BY <1>1, <1>3, <1>4, <1>5, <1>6, <1>7, <1>8, IdleKeepsWalk DEF TreeInv

LEMMA ConstructInKeepsInv ==
    ASSUME IInv, NEW h \in Handle, NEW g \in Given, NEW d \in Handle, ConstructIn(h, g, d)
    PROVE  IInv'
<1>1. /\ pc = "idle" /\ obj[h] = Unborn /\ IsDirBase(d) /\ obj' = [obj EXCEPT ![h] = g]
      /\ nodes' = [nodes EXCEPT ![d][g.name] = None]
      /\ parent' = [parent EXCEPT ![h] = d] /\ path' = [path EXCEPT ![h] = PathBelow(d, g.name)]
      /\ UNCHANGED <<renamed, uprooted, disk, walkVars>>
  BY DEF ConstructIn, historyVars
<1>2. TreeInv
  BY DEF IInv
<1>3. /\ Objects' /\ obj'[h] = g /\ g # Unborn /\ \A x \in Handle \ {h} : obj'[x] = obj[x]
      /\ \A x \in Handle : obj[x] # Unborn => obj'[x] # Unborn
  BY <1>1, <1>2, GivenIsNode, BirthKeepsObjects DEF TreeInv
<1>4. /\ h # Root /\ \A x \in Handle : parent[x] # h
      /\ \A e \in Handle, n \in Name : nodes[e][n] # h
  BY <1>1, <1>2, UnbornIsAlone
<1>5. d # h
  BY <1>1, DirIsBorn DEF Born
<1>6. g.name \in Name
  BY GivenIsNode
<1>7. nodes' \in [Handle -> [Name -> Handle \cup {None}]]
  BY <1>1, <1>2, <1>6 DEF TreeInv, Links
<1>8. ASSUME NEW e \in Handle, NEW n \in Name
      PROVE  nodes'[e][n] \in {None, nodes[e][n]} \ {h}
  BY <1>1, <1>2, <1>4, <1>6, TreeAssumption DEF TreeInv, Links
<1>9. Lists(d, h, g.name)
  BY <1>8 DEF Lists
<1>10. Recorded(d, h)
  BY <1>1, <1>2, <1>4, <1>5 DEF Recorded, TreeInv, History, HasChildren
<1>11. TreeInv'
  <2>1. PathBelow(d, g.name) \in Seq(Name)
    BY <1>2, <1>6, PathBelowIsPath DEF TreeInv
  <2> QED BY <1>1, <1>2, <1>3, <1>4, <1>5, <1>6, <1>7, <1>9, <1>10, <2>1, PlacingKeepsTree
<1> QED BY <1>1, <1>3, <1>11, IdleKeepsWalk

\* The listings after $d[$key] = $h: one entry of d is h, or, when h was in d, none;
\* the entry of the old parent is gone.
LEMMA AttachedListings ==
    ASSUME Links, NEW h \in Handle, NEW d \in Handle, NEW key \in Name, obj[h].name \in Name
    PROVE  /\ Attached(d, key, h) \in [Handle -> [Name -> Handle \cup {None}]]
           /\ \A e \in Handle, n \in Name :
                \/ Attached(d, key, h)[e][n] = nodes[e][n]
                   /\ (nodes[e][n] = h => e # parent[h] \/ n # obj[h].name)
                \/ e = d /\ n = key /\ Attached(d, key, h)[e][n] \in {None, h}
                \/ nodes[e][n] = h /\ Attached(d, key, h)[e][n] = None
<1> DEFINE m == obj[h].name
           added == [nodes EXCEPT ![d][key] = h]
           removed == [added EXCEPT ![parent[h]][m] = None]
<1>1. m \in Name /\ nodes \in [Handle -> [Name -> Handle \cup {None}]]
  BY DEF Links
<1>2. added \in [Handle -> [Name -> Handle \cup {None}]]
  BY <1>1
<1>3. ASSUME NEW e \in Handle, NEW n \in Name
      PROVE  added[e][n] = IF e = d /\ n = key THEN h ELSE nodes[e][n]
  BY <1>1
<1>4. CASE parent[h] # None /\ HasChild(added, parent[h], h)
  <2>1. parent[h] \in Handle /\ added[parent[h]][m] = h
    BY <1>4 DEF Links, HasChild
  <2>2. Attached(d, key, h) = removed
    BY <1>4 DEF Attached, Removed
  <2>3. removed \in [Handle -> [Name -> Handle \cup {None}]]
    BY <1>1, <1>2, <2>1
  <2>4. ASSUME NEW e \in Handle, NEW n \in Name
        PROVE  removed[e][n] = IF e = parent[h] /\ n = m THEN None ELSE added[e][n]
    BY <1>1, <1>2, <2>1
  <2> HIDE DEF removed, added
  <2> QED BY <1>3, <2>1, <2>2, <2>3, <2>4
<1>5. CASE ~(parent[h] # None /\ HasChild(added, parent[h], h))
  <2>1. Attached(d, key, h) = added
    BY <1>5 DEF Attached, Removed
  <2>2. parent[h] # None => added[parent[h]][m] # h
    BY <1>5 DEF HasChild
  <2>3. parent[h] \in Handle \cup {None}
    BY DEF Links
  <2> HIDE DEF added
  <2>4. ASSUME NEW e \in Handle, NEW n \in Name, ~(e = d /\ n = key)
        PROVE  added[e][n] = nodes[e][n] /\ (nodes[e][n] = h => e # parent[h] \/ n # m)
    BY <1>3, <2>2, <2>3, <2>4, TreeAssumption
  <2> QED BY <1>2, <1>3, <2>1, <2>4
<1> QED BY <1>4, <1>5

LEMMA OffsetSetKeepsInv ==
    ASSUME IInv, NEW d \in Handle, NEW key \in Name, NEW h \in Handle, OffsetSet(d, key, h)
    PROVE  IInv'
<1> DEFINE m == obj[h].name
<1>1. /\ pc = "idle" /\ h \in Born \ {Root} /\ IsDirBase(d)
      /\ nodes' = Attached(d, key, h) /\ parent' = [parent EXCEPT ![h] = d]
      /\ path' = [path EXCEPT ![h] = PathAttached(d, key, h)]
      /\ renamed' = IF key = m THEN renamed ELSE renamed \cup {h}
      /\ uprooted' = IF HasChildren(h, d) THEN uprooted \cup {h} ELSE uprooted
      /\ UNCHANGED <<obj, disk, walkVars>>
  BY DEF OffsetSet
<1>2. TreeInv
  BY DEF IInv
<1>3. m \in Name /\ obj[h] # Unborn
  BY <1>1, <1>2 DEF TreeInv, Objects, Born
<1>4. Objects'
  BY <1>1, <1>2 DEF TreeInv, Objects
<1>5. nodes' \in [Handle -> [Name -> Handle \cup {None}]]
  BY <1>1, <1>2, <1>3, AttachedListings DEF TreeInv
<1>6. ASSUME NEW e \in Handle, NEW n \in Name
      PROVE  \/ nodes'[e][n] \in {None, nodes[e][n]} \ {h}
             \/ e = d /\ n = m /\ nodes'[e][n] \in {None, h}
             \/ nodes'[e][n] = h /\ h \in renamed'
  <2>1. CASE h \in renamed'
    BY <1>1, <1>2, <1>3, <2>1, AttachedListings, TreeAssumption DEF TreeInv
  <2>2. CASE h \notin renamed'
    <3>1. key = m /\ h \notin renamed
      BY <1>1, <2>2
    <3>2. nodes[e][n] = h => e = parent[h] /\ n = m
      BY <1>2, <3>1, ListedIsBorn, TreeAssumption
    <3>3. \/ nodes'[e][n] = nodes[e][n] /\ (nodes[e][n] = h => e # parent[h] \/ n # m)
          \/ e = d /\ n = m /\ nodes'[e][n] \in {None, h}
          \/ nodes[e][n] = h /\ nodes'[e][n] = None
      BY <1>1, <1>2, <1>3, <3>1, AttachedListings DEF TreeInv
    <3> QED BY <3>2, <3>3, TreeAssumption
  <2> QED BY <2>1, <2>2
<1>7. obj'[h].name = m /\ obj'[h] # Unborn /\ obj' = obj
  BY <1>1, <1>3
<1>8. Recorded(d, h)
  BY <1>1, <1>2 DEF Recorded, TreeInv, History, Born
<1>9. PathAttached(d, key, h) \in Seq(Name) /\ (d # h => PathAttached(d, key, h) = PathBelow(d, m))
  <2>1. PathBelow(d, m) \in Seq(Name) /\ <<m>> \in Seq(Name)
    BY <1>2, <1>3, PathBelowIsPath DEF TreeInv
  <2> QED BY <2>1 DEF PathAttached
<1> HIDE DEF m
<1>10. PICK name \in Name : name = m
  BY <1>3
<1>11. TreeInv'
  <2>1. Lists(d, h, name)
    BY <1>6, <1>10 DEF Lists
  <2>2. PICK q \in Seq(Name) : q = PathAttached(d, key, h)
    BY <1>9
  <2>3. d # h => q = PathBelow(d, name)
    BY <1>9, <1>10, <2>2
  <2>4. path' = [path EXCEPT ![h] = q]
    BY <1>1, <2>2
  <2>5. /\ obj'[h].name = name /\ h \in Handle \ {Root}
        /\ \A x \in Handle : obj'[x] = obj[x] \/ (x = h /\ obj[h] = Unborn)
    BY <1>1, <1>7, <1>10
  <2> QED BY <1>1, <1>2, <1>4, <1>5, <1>7, <1>8, <2>1, <2>3, <2>4, <2>5, PlacingKeepsTree
<1> QED BY <1>1, <1>11, IdleKeepsWalk

LEMMA OffsetUnsetKeepsInv ==
    ASSUME IInv, NEW d \in Handle, NEW key \in Name, OffsetUnset(d, key)
    PROVE  IInv'
<1> DEFINE h == nodes[d][key]
<1>1. /\ pc = "idle" /\ h # None
      /\ nodes' = [nodes EXCEPT ![d][key] = None] /\ parent' = [parent EXCEPT ![h] = None]
      /\ path' = [path EXCEPT ![h] = NoPath]
      /\ UNCHANGED <<obj, renamed, uprooted, disk, walkVars>>
  BY DEF OffsetUnset, historyVars
<1>2. TreeInv
  BY DEF IInv
<1>3. h \in Born \ {Root} /\ (h \notin renamed => parent[h] = d /\ obj[h].name = key)
  BY <1>1, <1>2, ListedIsBorn
<1>4. /\ \A x \in Handle \ {h} : parent'[x] = parent[x] /\ path'[x] = path[x]
      /\ parent'[h] = None /\ path'[h] = NoPath
  BY <1>1, <1>2, <1>3 DEF TreeInv, Links, Born
<1>5. Objects' /\ Links'
  BY <1>1, <1>2, <1>3 DEF TreeInv, Objects, Links, Born
<1>6. ASSUME NEW e \in Handle, NEW n \in Name, nodes'[e][n] # None
      PROVE  /\ nodes'[e][n] = nodes[e][n] /\ nodes[e][n] \in Born \ {Root}
             /\ nodes[e][n] \notin renamed =>
                  nodes[e][n] # h /\ parent[nodes[e][n]] = e /\ obj[nodes[e][n]].name = n
  <2>1. nodes'[e][n] = nodes[e][n] /\ ~(e = d /\ n = key)
    BY <1>1, <1>2, <1>6 DEF TreeInv, Links
  <2>2. /\ nodes[e][n] \in Born \ {Root}
        /\ nodes[e][n] \notin renamed => parent[nodes[e][n]] = e /\ obj[nodes[e][n]].name = n
    BY <1>2, <1>6, <2>1, ListedIsBorn
  <2> HIDE DEF h
  <2> QED BY <1>3, <2>1, <2>2
<1> HIDE DEF h
<1>7. ListedHasParent'
  BY <1>1, <1>4, <1>6 DEF ListedHasParent, Born
<1>8. Parents'
  <2> SUFFICES ASSUME NEW x \in Handle, parent'[x] # None
               PROVE  obj[x] # Unborn /\ x # Root /\ obj[parent'[x]].kind \in DirKind
    BY <1>1 DEF Parents, Born, IsDirBase
  <2>1. parent'[x] = parent[x]
    BY <1>4
  <2> QED BY <1>2, <2>1 DEF TreeInv, Parents, Born, IsDirBase
<1>9. Paths'
  <2>1. path'[Root] = NoPath
    BY <1>2, <1>3, <1>4, TreeAssumption DEF TreeInv, Paths
  <2>2. ASSUME NEW e \in Handle, NEW n \in Name, nodes'[e][n] # None, nodes'[e][n] \notin renamed',
               e \notin uprooted', Placed(e)'
        PROVE  path'[nodes'[e][n]] = PathBelow(e, n)'
    <3>1. e # h
      BY <1>3, <1>4, <2>2 DEF Placed
    <3>2. nodes'[e][n] = nodes[e][n] /\ nodes[e][n] \in Handle \ {h} /\ nodes[e][n] \notin renamed
      BY <1>1, <1>6, <2>2 DEF Born
    <3>3. path'[e] = path[e] /\ path'[nodes[e][n]] = path[nodes[e][n]]
      BY <1>4, <3>1, <3>2
    <3>4. Placed(e)
      BY <2>2, <3>3 DEF Placed
    <3>5. path[nodes[e][n]] = PathBelow(e, n)
      BY <1>1, <1>2, <2>2, <3>2, <3>4 DEF TreeInv, Paths
    <3> QED BY <3>2, <3>3, <3>5 DEF PathBelow
  <2> QED BY <2>1, <2>2 DEF Paths
<1>10. Listings' /\ History'
  BY <1>1, <1>2, <1>6 DEF TreeInv, Listings, History, Born
<1>11. TreeInv'
  BY <1>5, <1>7, <1>8, <1>9, <1>10 DEF TreeInv
<1> QED BY <1>1, <1>11, IdleKeepsWalk

-----------------------------------------------------------------------------
(* getNode *)

\* A name that is found on disk gets a new node, below the one getNode is at.
LEMMA FoundKeepsInv ==
    ASSUME IInv, NEW h \in Handle, Found(h)
    PROVE  IInv'
<1> DEFINE n == Head(todo)
           g == [kind |-> Scan(at, n), name |-> n, real |-> Resolved(at, n),
                 options |-> obj[at].options]
<1>1. /\ pc = "isset" /\ todo # <<>> /\ obj[at].kind = "RealDir" /\ nodes[at][n] = None
      /\ Scan(at, n) \in {"RealDir", "RealFile"}
      /\ obj[h] = Unborn /\ obj' = [obj EXCEPT ![h] = g] /\ nodes' = [nodes EXCEPT ![at][n] = h]
      /\ parent' = [parent EXCEPT ![h] = at] /\ path' = [path EXCEPT ![h] = PathBelow(at, n)]
      /\ pc' = "get" /\ UNCHANGED <<renamed, uprooted, disk, at, todo, asked, via>>
  BY DEF Found, Discover, Cache, historyVars
<1>2. TreeInv /\ at \in Handle /\ todo \in Seq(Name) /\ asked \in Seq(Name) /\ todo \in Seq(Component)
  BY <1>1 DEF IInv, WalkInv, Born
<1>3. n \in Name
  BY <1>1, <1>2
<1>4. IsDirBase(at) /\ obj[at].options \in Option /\ at # h
  <2>1. IsDirBase(at)
    BY <1>1 DEF IsDirBase, DirKind
  <2>2. obj[at] # Unborn
    BY <1>2, <2>1, DirIsBorn DEF Born
  <2> QED BY <1>1, <1>2, <2>1, <2>2 DEF TreeInv, Objects
<1>5. g.kind \in DirKind \cup FileKind /\ g.name = n /\ g.options \in Option
  BY <1>1, <1>4 DEF DirKind, FileKind
<1> HIDE DEF n, g
<1>6. /\ Objects' /\ obj'[h] = g /\ g # Unborn /\ \A x \in Handle \ {h} : obj'[x] = obj[x]
      /\ \A x \in Handle : obj[x] # Unborn => obj'[x] # Unborn
  BY <1>1, <1>2, <1>3, <1>5, BirthKeepsObjects DEF TreeInv
<1>7. /\ h # Root /\ \A x \in Handle : parent[x] # h
      /\ \A e \in Handle, k \in Name : nodes[e][k] # h
  BY <1>1, <1>2, UnbornIsAlone
<1>8. nodes' \in [Handle -> [Name -> Handle \cup {None}]]
  BY <1>1, <1>2, <1>3 DEF TreeInv, Links
<1>9. ASSUME NEW e \in Handle, NEW k \in Name
      PROVE  \/ nodes'[e][k] \in {None, nodes[e][k]} \ {h}
             \/ e = at /\ k = n /\ nodes'[e][k] \in {None, h}
  BY <1>1, <1>2, <1>3, <1>7 DEF TreeInv, Links
<1>10. TreeInv'
  <2>1. PICK d \in Handle, name \in Name : d = at /\ name = n
    BY <1>2, <1>3
  <2>2. /\ h \in Handle \ {Root} /\ d \in Handle \ {h} /\ IsDirBase(d)
        /\ parent' = [parent EXCEPT ![h] = d] /\ path' = [path EXCEPT ![h] = PathBelow(d, name)]
    BY <1>1, <1>4, <1>7, <2>1
  <2>3. obj'[h] # Unborn /\ obj'[h].name = name
    BY <1>5, <1>6, <2>1
  <2>4. Lists(d, h, name)
    BY <1>9, <2>1 DEF Lists
  <2>5. Recorded(d, h)
    BY <1>1, <1>2, <1>7, <2>2 DEF Recorded, TreeInv, History, HasChildren
  <2>6. PathBelow(d, name) \in Seq(Name)
    BY <1>2, PathBelowIsPath DEF TreeInv
  <2>7. \A x \in Handle : obj'[x] = obj[x] \/ (x = h /\ obj[h] = Unborn)
    BY <1>1, <1>6
  <2> QED BY <1>2, <1>6, <1>7, <1>8, <2>2, <2>3, <2>4, <2>5, <2>6, <2>7, PlacingKeepsTree
<1>11. WalkInv'
  <2>1. at' \in Born' /\ pc' = "get" /\ at' = at /\ todo' = todo /\ asked' = asked
        /\ via' = via /\ via \subseteq Handle
    BY <1>1, <1>6 DEF IInv, WalkInv, Born
  <2>2. path'[at] = path[at]
    BY <1>1, <1>2, <1>4 DEF TreeInv, Links
  <2>3. WayIsPlain' => Placed(at)' /\ asked' = PathOf(at)' \o todo'
    BY <1>1, <2>1, <2>2 DEF IInv, WalkInv, WayIsPlain, Placed, PathOf
  <2>4. nodes'[at][Head(todo)] = h /\ h # None
    BY <1>1, <1>2, <1>3, TreeAssumption DEF TreeInv, Links, n
  <2> QED BY <1>1, <1>2, <2>1, <2>3, <2>4 DEF WalkInv
<1> QED BY <1>1, <1>10, <1>11 DEF IInv, DiskInv

\* A step that leaves the nodes alone leaves all there is to say about them.
LEMMA TreeStays ==
    ASSUME TreeInv, UNCHANGED treeVars
    PROVE  TreeInv' /\ Born' = Born /\ \A h \in Handle : Placed(h)' = Placed(h) /\ PathOf(h)' = PathOf(h)
<1> USE DEF treeVars, historyVars
<1>1. Objects' /\ Links'
  BY DEF TreeInv, Objects, Links
<1>2. ListedHasParent' /\ Parents'
  BY DEF TreeInv, ListedHasParent, Parents, Born, IsDirBase
<1>3. Paths'
  BY DEF TreeInv, Paths, Placed, PathBelow
<1>4. Born' = Born /\ \A h \in Handle : Placed(h)' = Placed(h) /\ PathOf(h)' = PathOf(h)
  BY DEF Born, Placed, PathOf
<1>5. Listings' /\ History'
  BY DEF TreeInv, Listings, History, Born
<1> QED BY <1>1, <1>2, <1>3, <1>4, <1>5 DEF TreeInv

\* The root is a constructed node, where every look-up begins.
LEMMA RootIsBorn == ASSUME TreeInv PROVE Root \in Born
BY TreeAssumption DEF TreeInv, Objects, Born

LEMMA StartKeepsInv ==
    ASSUME IInv, NEW base \in Seq(Name), NEW p \in Path, Start(base, p)
    PROVE  IInv'
<1>1. TreeInv' /\ Born' = Born
  BY TreeStays DEF IInv, Start
<1>2. base \o p \in Seq(Component)
  <2>1. base \in Seq(Component)
    BY DEF Component
  <2>2. p \in Seq(Component)
    BY TreeAssumption DEF Component
  <2> QED BY <2>1, <2>2
<1>3. pc' = "normalize" /\ at' \in Born' /\ at' = Root /\ asked' \in Seq(Name) /\ todo' \in Seq(Component)
      /\ via' = {}
  BY <1>1, <1>2, RootIsBorn DEF Start, IInv
<1>4. WalkInv'
  BY <1>3 DEF WalkInv
<1> QED BY <1>1, <1>4 DEF Start, IInv, DiskInv

\* A sequence without its last element.
LEMMA FrontIsSeq ==
    ASSUME NEW S, NEW s \in Seq(S), s # <<>>
    PROVE  Front(s) \in Seq(S)
<1>1. Len(s) \in Nat \ {0} /\ s \in [1 .. Len(s) -> S]
  OBVIOUS
<1>2. Front(s) = [i \in 1 .. (1 + (Len(s) - 1) - 1) |-> s[i + 1 - 1]]
  BY DEF Front
<1>3. Front(s) = [i \in 1 .. Len(s) - 1 |-> s[i]]
  BY <1>1, <1>2
<1> QED BY <1>1, <1>3

\* What normalizePath leaves are names.
LEMMA NormalizedIsPath ==
    ASSUME NEW np \in Seq(Name), NEW c \in Component
    PROVE  Normalized(np, c) \in Seq(Name)
<1>1. CASE c = "."
  BY <1>1 DEF Normalized
<1>2. CASE c = ".."
  BY <1>2, FrontIsSeq DEF Normalized
<1>3. CASE c \in Name
  <2>1. c # "." /\ c # ".."
    BY <1>3, TreeAssumption
  <2> QED BY <1>3, <2>1 DEF Normalized
<1> QED BY <1>1, <1>2, <1>3 DEF Component

LEMMA NormalizeKeepsInv ==
    ASSUME IInv, NormalizePath
    PROVE  IInv'
<1>1. TreeInv' /\ Born' = Born
  BY TreeStays DEF IInv, NormalizePath
<1>2. /\ pc = "normalize" /\ at' = at /\ at \in Born /\ asked \in Seq(Name) /\ todo \in Seq(Component)
      /\ via' \subseteq Handle
  BY DEF IInv, WalkInv, NormalizePath
<1>3. WalkInv'
  <2>1. CASE todo # <<>> /\ todo' = Tail(todo) /\ asked' = Normalized(asked, Head(todo)) /\ pc' = pc
    <3>1. Head(todo) \in Component /\ Tail(todo) \in Seq(Component)
      BY <1>2, <2>1
    <3>2. asked' \in Seq(Name)
      BY <1>2, <2>1, <3>1, NormalizedIsPath
    <3>3. at' = Root /\ at' \in Born' /\ pc' = "normalize" /\ todo' \in Seq(Component)
      BY <1>1, <1>2, <2>1, <3>1 DEF IInv, WalkInv
    <3> QED BY <1>2, <3>2, <3>3 DEF WalkInv
  <2>2. CASE todo = <<>> /\ todo' = asked /\ pc' = "isset" /\ asked' = asked
    <3>1. asked \in Seq(Component)
      BY <1>2 DEF Component
    <3>2. at = Root /\ Placed(at)'
      BY <1>2 DEF IInv, WalkInv, Placed
    <3>3. PathOf(at)' = <<>>
      BY <1>1, <1>2, <3>2 DEF TreeInv, Paths, PathOf
    <3>4. asked' = PathOf(at)' \o todo'
      BY <1>2, <2>2, <3>3
    <3>5. /\ at' \in Born' /\ pc' = "isset" /\ asked' \in Seq(Name)
          /\ todo' \in Seq(Name) /\ todo' \in Seq(Component)
      BY <1>1, <1>2, <2>2, <3>1
    <3> QED BY <1>2, <3>2, <3>4, <3>5 DEF WalkInv
  <2> QED BY <2>1, <2>2 DEF NormalizePath
<1> QED BY <1>1, <1>3 DEF NormalizePath, IInv, DiskInv

LEMMA ListedKeepsInv ==
    ASSUME IInv, Listed
    PROVE  IInv'
<1>1. TreeInv' /\ Born' = Born /\ \A h \in Handle : Placed(h)' = Placed(h) /\ PathOf(h)' = PathOf(h)
  BY TreeStays DEF IInv, Listed
<1>2. /\ pc = "isset" /\ todo # <<>> /\ nodes[at][Head(todo)] # None /\ pc' = "get"
      /\ UNCHANGED <<nodes, path, renamed, uprooted, at, todo, asked, via>>
  BY DEF Listed, treeVars, historyVars
<1>3. at \in Born /\ asked \in Seq(Name) /\ todo \in Seq(Name) /\ todo \in Seq(Component)
      /\ via \subseteq Handle /\ (WayIsPlain => Placed(at) /\ asked = PathOf(at) \o todo)
  BY <1>2 DEF IInv, WalkInv
<1>4. WayIsPlain' = WayIsPlain /\ Placed(at)' = Placed(at) /\ PathOf(at)' = PathOf(at)
  BY <1>2 DEF Placed, PathOf, WayIsPlain
<1>5. WalkInv'
  BY <1>1, <1>2, <1>3, <1>4 DEF WalkInv
<1> QED BY <1>1, <1>5 DEF Listed, IInv, DiskInv

\* Every answer ends the look-up.
LEMMA LeaveKeepsInv ==
    ASSUME IInv, Missing \/ Return
    PROVE  IInv'
<1>1. Leave /\ UNCHANGED <<treeVars, disk>>
  BY DEF Missing, Return
<1>2. TreeInv' /\ Born' = Born
  BY <1>1, TreeStays DEF IInv
<1>3. pc' = "idle" /\ at' \in Born' /\ asked' \in Seq(Name) /\ todo' \in Seq(Name) /\ todo' \in Seq(Component)
      /\ via' = {}
  BY <1>1, <1>2, RootIsBorn DEF Leave, IInv
<1>4. WalkInv'
  BY <1>3 DEF WalkInv
<1> QED BY <1>1, <1>2, <1>4 DEF IInv, DiskInv

\* A component moves from what is left to the path of the node.
LEMMA OneComponent ==
    ASSUME NEW S, NEW s \in Seq(S), NEW t \in Seq(S), t # <<>>
    PROVE  s \o t = Append(s, Head(t)) \o Tail(t)
OBVIOUS

LEMMA TailOfOne ==
    ASSUME NEW S, NEW t \in Seq(S), Len(t) = 1
    PROVE  Tail(t) = <<>>
<1>1. t # <<>>
  OBVIOUS
<1>2. Tail(t) \in Seq(S) /\ Len(Tail(t)) = 0
  BY <1>1
<1>3. ASSUME NEW s \in Seq(S), s # <<>> PROVE Len(s) \in Nat \ {0}
  BY <1>3
<1> QED BY <1>2, <1>3

LEMMA GetKeepsInv ==
    ASSUME IInv, Get
    PROVE  IInv'
<1> DEFINE n == Head(todo)
           h == nodes[at][n]
<1>1. TreeInv' /\ Born' = Born
  BY TreeStays DEF IInv, Get
<1>2. /\ pc = "get" /\ at' = h /\ todo' = Tail(todo) /\ pc' = IF Len(todo) = 1 THEN "found" ELSE "isset"
      /\ via' = via \cup {at} /\ UNCHANGED <<path, asked, renamed, uprooted>>
  BY DEF Get, treeVars, historyVars
<1>3. /\ TreeInv /\ at \in Handle /\ asked \in Seq(Name) /\ todo \in Seq(Name) /\ todo # <<>>
      /\ (WayIsPlain => Placed(at) /\ asked = PathOf(at) \o todo) /\ h # None /\ via \subseteq Handle
  BY <1>2 DEF IInv, WalkInv, Born
<1>4. n \in Name /\ Tail(todo) \in Seq(Name)
  BY <1>3
<1>5. h \in Born \ {Root}
  BY <1>3, <1>4, ListedIsBorn
<1>6. ASSUME WayIsPlain'
      PROVE  Placed(at)' /\ asked' = PathOf(at)' \o todo'
  <2>1. WayIsPlain /\ at \notin uprooted /\ h \notin renamed
    BY <1>2, <1>6 DEF WayIsPlain
  <2>2. Placed(at) /\ asked = PathOf(at) \o todo
    BY <1>3, <2>1
  <2>3. path[h] = PathBelow(at, n)
    BY <1>3, <1>4, <2>1, <2>2 DEF TreeInv, Paths
  <2>4. PathBelow(at, n) # NoPath /\ PathOf(at) \in Seq(Name) /\ PathBelow(at, n) = Append(PathOf(at), n)
    <3> HIDE DEF n
    <3> QED BY <1>3, <1>4, PathBelowIsPath DEF TreeInv
  <2>5. asked = path[h] \o Tail(todo)
    BY <1>3, <2>2, <2>3, <2>4, OneComponent
  <2>6. Placed(at)' /\ PathOf(at)' = path[h]
    BY <1>2, <2>3, <2>4 DEF Placed, PathOf
  <2> QED BY <1>2, <2>5, <2>6
<1>7. Len(todo) = 1 => Tail(todo) = <<>>
  BY <1>3, TailOfOne
<1>8. Tail(todo) \in Seq(Component)
  BY <1>4 DEF Component
<1>9. /\ at' \in Born' /\ at' # Root /\ asked' \in Seq(Name) /\ todo' \in Seq(Name) /\ todo' \in Seq(Component)
      /\ pc' \in {"isset", "found"} /\ (pc' = "found" => todo' = <<>>) /\ via' \subseteq Handle
  BY <1>1, <1>2, <1>3, <1>4, <1>5, <1>7, <1>8
<1>10. WalkInv'
  BY <1>6, <1>9 DEF WalkInv
<1> QED BY <1>1, <1>10 DEF Get, IInv, DiskInv

\* The disk changes under getNode, which notices nothing before it looks.
LEMMA DiskKeepsInv ==
    ASSUME IInv, NEW real \in Volatile, DiskChanges(real)
    PROVE  IInv'
<1>1. UNCHANGED <<treeVars, walkVars>>
  BY DEF DiskChanges
<1>2. TreeInv'
  BY <1>1, TreeStays DEF IInv
<1>3. WalkInv'
  BY <1>1 DEF IInv, WalkInv, WayIsPlain, Born, Placed, PathOf, treeVars, historyVars, walkVars
<1>4. DiskInv'
  BY TreeAssumption DEF DiskChanges, IInv, DiskInv
<1> QED BY <1>2, <1>3, <1>4 DEF IInv

-----------------------------------------------------------------------------

\* A tree of the root alone.
LEMMA InitInv == Init => IInv
<1> SUFFICES ASSUME Init PROVE IInv
  OBVIOUS
<1>1. Objects
  <2>1. RootNode # Unborn /\ RootNode.kind \in DirKind /\ RootNode.options \in Option
    <3>1. RootNode.kind = "VirtualDir" /\ Unborn.kind = "unborn"
      BY DEF RootNode, Unborn
    <3>2. NoOptions \in Option
      BY DEF NoOptions, Option
    <3> QED BY <3>1, <3>2 DEF DirKind, RootNode
  <2> QED BY <2>1, TreeAssumption DEF Init, Objects
<1>2. Links /\ Parents
  BY DEF Init, Links, Parents
<1>3. ListedHasParent /\ Listings /\ Paths /\ History
  BY TreeAssumption DEF Init, ListedHasParent, Listings, Paths, History
<1>4. at \in Born
  BY <1>1, TreeAssumption DEF Init, Objects, Born
<1>5. WalkInv
  BY <1>4 DEF Init, WalkInv
<1>6. DiskInv
  BY DEF Init, DiskInv
<1> QED BY <1>1, <1>2, <1>3, <1>5, <1>6 DEF IInv, TreeInv

\* Every step keeps the invariant.
LEMMA NextKeepsInv == IInv /\ [Next]_vars => IInv'
<1> SUFFICES ASSUME IInv, [Next]_vars PROVE IInv'
  OBVIOUS
<1>1. ASSUME NEW h \in Handle, NEW g \in Given, Construct(h, g) PROVE IInv'
  BY <1>1, ConstructKeepsInv
<1>2. ASSUME NEW h \in Handle, NEW g \in Given, NEW d \in Handle, ConstructIn(h, g, d) PROVE IInv'
  BY <1>2, ConstructInKeepsInv
<1>3. ASSUME NEW d \in Handle, NEW key \in Name,
             OffsetUnset(d, key) \/ \E h \in Handle : OffsetSet(d, key, h)
      PROVE  IInv'
  BY <1>3, OffsetUnsetKeepsInv, OffsetSetKeepsInv
<1>4. ASSUME NEW p \in Path, GetNode(p) PROVE IInv'
  BY <1>4, StartKeepsInv, TreeAssumption DEF GetNode
<1>5. ASSUME NEW p \in Path, NEW h \in Born, GetNodeAt(h, p) PROVE IInv'
  <2>1. PathOf(h) \in Seq(Name)
    BY DEF IInv, TreeInv, Links, PathOf, Born
  <2>2. PICK base \in Seq(Name) : base = PathOf(h)
    BY <2>1
  <2>3. Start(base, p)
    BY <1>5, <2>2 DEF GetNodeAt, PathOf
  <2> QED BY <2>3, StartKeepsInv
<1>6. ASSUME NEW h \in Handle, Found(h) PROVE IInv'
  BY <1>6, FoundKeepsInv
<1>7. CASE NormalizePath \/ Listed \/ Missing \/ Get \/ Return
  BY <1>7, NormalizeKeepsInv, ListedKeepsInv, LeaveKeepsInv, GetKeepsInv
<1>8. ASSUME NEW real \in Volatile, DiskChanges(real) PROVE IInv'
  BY <1>8, DiskKeepsInv
<1>9. CASE UNCHANGED vars
  <2>1. UNCHANGED <<treeVars, walkVars, disk>>
    BY <1>9 DEF vars
  <2>2. TreeInv'
    BY <2>1, TreeStays DEF IInv
  <2> QED BY <2>1, <2>2 DEF IInv, WalkInv, WayIsPlain, DiskInv, Born, Placed, PathOf, treeVars, historyVars, walkVars
<1> QED BY <1>1, <1>2, <1>3, <1>4, <1>5, <1>6, <1>7, <1>8, <1>9 DEF Next

LEMMA Inductive == Spec => []IInv
BY InitInv, NextKeepsInv, PTL DEF Spec

-----------------------------------------------------------------------------

\* The tree and getNode keep their types: between isset and the access the child
\* stays in the listing, however the disk changes.
THEOREM TypeCorrect == Spec => []TypeOK
<1>1. IInv => TypeOK
  BY DEF IInv, TreeInv, Objects, Links, History, WalkInv, DiskInv, TypeOK
<1> QED BY Inductive, <1>1, PTL

\* After any sequence of constructions, moves, removals and look-ups a listed node
\* has the directory that lists it as its parent, and so is in one place, unless it
\* was listed under another key.
THEOREM OnePlace == Spec => []ListedHasParent
<1>1. IInv => ListedHasParent
  BY DEF IInv, TreeInv
<1> QED BY Inductive, <1>1, PTL

\* getNode finds a node by the path the node has, for every path and every base,
\* unless a directory on the way was attached with its children or a node on it was
\* listed under another key.
THEOREM FoundByPath == Spec => []FoundHasPath
<1>1. IInv => FoundHasPath
  <2> SUFFICES ASSUME IInv, pc = "found", WayIsPlain PROVE path[at] = asked
    BY DEF FoundHasPath
  <2>1. at \in Handle /\ todo = <<>> /\ path[at] # NoPath /\ asked = PathOf(at) \o todo
    BY DEF IInv, WalkInv, Placed, Born
  <2>2. path[at] \in Seq(Name)
    BY <2>1 DEF IInv, TreeInv, Links
  <2> QED BY <2>1, <2>2 DEF PathOf
<1> QED BY Inductive, <1>1, PTL

\* Attaching a node takes no other from its directory, the one it replaces excepted.
THEOREM NoOtherIsLost == Spec => OthersStay
<1>1. ASSUME IInv, [Next]_vars
      PROVE  [\A d, h \in Handle, key \in Name : OffsetSet(d, key, h) =>
                \A e \in Handle, n \in Name :
                   nodes[e][n] \in {None, h} \/ (e = d /\ n = key)
                       \/ nodes'[e][n] = nodes[e][n]]_vars
  <2> SUFFICES ASSUME NEW d \in Handle, NEW h \in Handle, NEW key \in Name, OffsetSet(d, key, h),
                      NEW e \in Handle, NEW n \in Name
               PROVE  nodes[e][n] \in {None, h} \/ (e = d /\ n = key)
                          \/ nodes'[e][n] = nodes[e][n]
    OBVIOUS
  <2>1. obj[h].name \in Name /\ Links /\ nodes' = Attached(d, key, h)
    BY <1>1 DEF OffsetSet, IInv, TreeInv, Objects, Born
  <2> QED BY <2>1, AttachedListings
<1> QED BY Inductive, <1>1, PTL DEF Spec, OthersStay

===============================================================================
