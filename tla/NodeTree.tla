------------------------------- MODULE NodeTree -------------------------------
(***************************************************************************)
(* The node tree of the PHP host: construction of nodes, the ArrayAccess   *)
(* of directories (DirBase), the parent link and path of a node (Node),    *)
(* the real children a RealDir finds on disk and caches, and getNode of    *)
(* VirtualFS, one step for isset($node[$p]) and one for $node[$p].         *)
(*                                                                         *)
(* A path is the sequence of its components, and the path null is NoPath.  *)
(***************************************************************************)
EXTENDS Integers, Sequences, FiniteSets, SequencesExt

CONSTANTS
    Handle,    \* PHP objects for nodes
    Root,      \* $root of VirtualFS
    None,      \* null
    NoPath,    \* null, as a path
    Name,      \* names of nodes
    Disk,      \* the real file system: a function from real paths to
               \* "dir", "file", "dirlink", "filelink" or "loop"
    Volatile,  \* the real paths that come and go
    Target,    \* where the links lead, after at most ten of them
    Given,     \* the nodes the application makes: kind, name, real path, options
    Path,      \* arguments of getNode: sequences over Name, "." and ".."
    Cwd,       \* $cwd
    MaxDepth   \* bound on the paths of the nodes the application attaches

DirKind == {"VirtualDir", "RealDir"}
FileKind == {"VirtualFile", "RealFile"}
Option == [recurse : BOOLEAN, followSymlinks : BOOLEAN,
           fileWhitelist : SUBSET (Name \cup {"*"}),
           subdirWhitelist : SUBSET (Name \cup {"*"})]

ASSUME TreeAssumption ==
    /\ MaxDepth \in Nat /\ Root \in Handle /\ None \notin Handle /\ {".", ".."} \cap Name = {}
    /\ Volatile \subseteq DOMAIN Disk
    /\ \A g \in Given : g.kind \in DirKind \cup FileKind /\ g.name \in Name
                        /\ g.options \in Option
    /\ NoPath \notin Seq(Name)
    /\ Path \subseteq Seq(Name \cup {".", ".."}) /\ Cwd \in Seq(Name)
    /\ \A real \in DOMAIN Disk : Disk[real] \in {"dirlink", "filelink"} => real \in DOMAIN Target

VARIABLES
    obj,     \* the constructed nodes, Unborn before
    parent,  \* $parent
    path,    \* $path
    nodes,   \* $nodes of a directory: [Name -> Handle \cup {None}]
    disk,    \* the real paths that exist
    pc,      \* getNode: "idle", "normalize", "isset", "get", "found"
    at,      \* its $node
    todo,    \* components it has still to normalise, then to look up
    asked,   \* the path it was called for, normalised
    \* history, for the properties only:
    renamed, \* the nodes that were once listed under a key other than their name
    uprooted,\* the directories that were attached when they had children
    via      \* the directories getNode has looked into

historyVars == <<renamed, uprooted>>
treeVars == <<obj, parent, path, nodes, historyVars>>
walkVars == <<pc, at, todo, asked, via>>
vars == <<treeVars, disk, walkVars>>

NoOptions == [recurse |-> FALSE, followSymlinks |-> FALSE,
              fileWhitelist |-> {}, subdirWhitelist |-> {}]
Unborn == [kind |-> "unborn", name |-> "", real |-> <<>>, options |-> NoOptions]
RootNode == [kind |-> "VirtualDir", name |-> "", real |-> <<>>, options |-> NoOptions]
Born == {h \in Handle : obj[h] # Unborn}
IsDirBase(h) == obj[h].kind \in DirKind

Init ==
    /\ obj = [h \in Handle |-> IF h = Root THEN RootNode ELSE Unborn]
    /\ parent = [h \in Handle |-> None]
    /\ path = [h \in Handle |-> NoPath]
    /\ nodes = [h \in Handle |-> [n \in Name |-> None]]
    /\ disk \in {DOMAIN Disk \ gone : gone \in SUBSET Volatile}
    /\ pc = "idle" /\ at = Root /\ todo = <<>> /\ asked = <<>>
    /\ renamed = {} /\ uprooted = {} /\ via = {}

-----------------------------------------------------------------------------
(* What a RealDir finds on disk *)

\* checkFile and checkSubdir: an empty whitelist allows everything.
CheckFile(d, name) ==
    LET list == obj[d].options.fileWhitelist IN list = {} \/ {name, "*"} \cap list # {}
CheckSubdir(d, name) ==
    LET list == obj[d].options.subdirWhitelist IN list = {} \/ {name, "*"} \cap list # {}

\* What getChild makes of a name that is not in $nodes: a link is followed
\* first, if it may be, and "loop" stands for more than ten links.
Resolved(d, name) ==
    LET real == Append(obj[d].real, name)
        link == real \in disk /\ Disk[real] \in {"dirlink", "filelink"}
    IN IF link /\ obj[d].options.followSymlinks THEN Target[real] ELSE real

Scan(d, name) ==
    LET real == Resolved(d, name)
        options == obj[d].options
        dir == Disk[real] = "dir"
    IN
    IF real \notin disk \/ Disk[real] \in {"dirlink", "filelink"} THEN "null"
    ELSE IF Disk[real] = "loop" THEN IF options.followSymlinks THEN "ELOOP" ELSE "null"
    ELSE IF dir THEN IF options.recurse /\ CheckSubdir(d, name)
                     THEN "RealDir" ELSE "null"
    ELSE IF CheckFile(d, name) THEN "RealFile" ELSE "null"

-----------------------------------------------------------------------------
(* Node and DirBase *)

\* Mutant of PathBelow: the path of the parent is left out.
PathBelowNothing(d, name) == <<name>>

\* "{$parent->getPath()}/{$this->getName()}": null is the empty string.
PathBelow(d, name) == Append(IF path[d] = NoPath THEN <<>> ELSE path[d], name)

\* Mutant of HasChild: any node of that name will do.
HasChildNamed(listing, d, h) == listing[d][obj[h].name] # None

HasChild(listing, d, h) == listing[d][obj[h].name] = h

\* Mutant of Attached: a moved node stays with its old parent too.
AttachedTwice(d, key, h) == [nodes EXCEPT ![d][key] = h]

\* setParent removes h from the parent it had after h was added to d, also when
\* that is the same directory; removeChild looks for it under its own name.
Removed(d, key, h) ==
    parent[h] # None /\ HasChild([nodes EXCEPT ![d][key] = h], parent[h], h)

\* The listings after $d[$key] = $h.
Attached(d, key, h) ==
    LET added == [nodes EXCEPT ![d][key] = h] IN
    IF Removed(d, key, h) THEN [added EXCEPT ![parent[h]][obj[h].name] = None] ELSE added

\* The path of h after that.  A node that was removed has none, which matters
\* when it is also the new parent.
PathAttached(d, key, h) ==
    IF d = h /\ Removed(d, key, h) THEN <<obj[h].name>> ELSE PathBelow(d, obj[h].name)

\* new VirtualDir($fs, $name), without a parent.
Construct(h, g) ==
    /\ pc = "idle" /\ obj[h] = Unborn
    /\ obj' = [obj EXCEPT ![h] = g]
    /\ UNCHANGED <<parent, path, nodes, historyVars, disk, walkVars>>

\* With a parent the constructor calls addChild and then setParent once more,
\* which removes the node from the parent it already has.
ConstructIn(h, g, d) ==
    /\ pc = "idle" /\ obj[h] = Unborn /\ IsDirBase(d)
    /\ Len(PathBelow(d, g.name)) <= MaxDepth
    /\ obj' = [obj EXCEPT ![h] = g]
    /\ nodes' = [nodes EXCEPT ![d][g.name] = None]
    /\ parent' = [parent EXCEPT ![h] = d]
    /\ path' = [path EXCEPT ![h] = PathBelow(d, g.name)]
    /\ UNCHANGED <<historyVars, disk, walkVars>>

\* Is h, once it is in d, the parent of a node?
HasChildren(h, d) == h = d \/ \E x \in Handle : parent[x] = h

\* removeChild of the old parent of h finds no other node on disk.
AnsweredFromListing(d, key, h) ==
    parent[h] # None /\ ~(parent[h] = d /\ key = obj[h].name) =>
        \/ nodes[parent[h]][obj[h].name] # None
        \/ obj[parent[h]].kind = "VirtualDir"
        \/ Scan(parent[h], obj[h].name) = "null"

\* $d[$key] = $h, and with the name of h for the key $d[] = $h and addChild.  The
\* children of h keep the paths they have.  The root, which has no name, is not
\* attached.
OffsetSet(d, key, h) ==
    /\ pc = "idle" /\ h \in Born \ {Root} /\ IsDirBase(d)
    /\ Len(PathAttached(d, key, h)) <= MaxDepth
    /\ AnsweredFromListing(d, key, h)
    /\ nodes' = Attached(d, key, h)
    /\ parent' = [parent EXCEPT ![h] = d]
    /\ path' = [path EXCEPT ![h] = PathAttached(d, key, h)]
    /\ renamed' = IF key = obj[h].name THEN renamed ELSE renamed \cup {h}
    /\ uprooted' = IF HasChildren(h, d) THEN uprooted \cup {h} ELSE uprooted
    /\ UNCHANGED <<obj, disk, walkVars>>

\* unset($d[$key]), and with the name of a child for the key removeChild.  A real
\* file that is not listed yet would be listed and taken out again.
OffsetUnset(d, key) ==
    /\ pc = "idle" /\ IsDirBase(d) /\ nodes[d][key] # None
    /\ LET h == nodes[d][key] IN
         /\ parent' = [parent EXCEPT ![h] = None]
         /\ path' = [path EXCEPT ![h] = NoPath]
    /\ nodes' = [nodes EXCEPT ![d][key] = None]
    /\ UNCHANGED <<obj, historyVars, disk, walkVars>>

-----------------------------------------------------------------------------
(* Real children *)

\* Mutant of Cache: the node is returned and not remembered.
CacheNothing(d, name, h) == nodes

Cache(d, name, h) == [nodes EXCEPT ![d][name] = h]

\* A node for a real child: it inherits the options, and is constructed with
\* a parent and then listed (addChildInternal).
Discover(d, name, h) ==
    /\ obj[h] = Unborn
    /\ obj' = [obj EXCEPT ![h] = [kind |-> Scan(d, name), name |-> name,
                                  real |-> Resolved(d, name), options |-> obj[d].options]]
    /\ nodes' = Cache(d, name, h)
    /\ parent' = [parent EXCEPT ![h] = d]
    /\ path' = [path EXCEPT ![h] = PathBelow(d, name)]
    /\ UNCHANGED historyVars

\* The real file system changes between any two steps.
DiskChanges(real) ==
    /\ disk' = IF real \in disk THEN disk \ {real} ELSE disk \cup {real}
    /\ UNCHANGED <<treeVars, walkVars>>

-----------------------------------------------------------------------------
(* VirtualFS::getNode *)

\* A turn of the loop of SandboxUtil::normalizePath: array_pop of an empty array
\* does nothing.
Normalized(np, p) ==
    IF p = "." THEN np
    ELSE IF p = ".." THEN (IF np = <<>> THEN np ELSE Front(np))
    ELSE Append(np, p)

\* getNode calls normalizePath first, of a relative path.
Start(base, p) ==
    /\ pc = "idle" /\ pc' = "normalize"
    /\ todo' = base \o p /\ asked' = <<>> /\ at' = Root /\ via' = {}
    /\ UNCHANGED <<treeVars, disk>>

NormalizePath ==
    /\ pc = "normalize"
    /\ \/ /\ todo # <<>> /\ todo' = Tail(todo)
          /\ asked' = Normalized(asked, Head(todo)) /\ UNCHANGED pc
       \/ todo = <<>> /\ todo' = asked /\ pc' = "isset" /\ UNCHANGED asked
    /\ UNCHANGED <<treeVars, disk, at, via>>

\* Relative to the working directory, or to the node of a descriptor.
GetNode(p) == Start(Cwd, p)
GetNodeAt(h, p) == Start(IF path[h] = NoPath THEN <<>> ELSE path[h], p)

\* isset($node[$p]) of a child that is listed.
Listed ==
    /\ pc = "isset" /\ todo # <<>> /\ IsDirBase(at) /\ nodes[at][Head(todo)] # None
    /\ pc' = "get"
    /\ UNCHANGED <<treeVars, disk, at, todo, asked, via>>

\* isset($node[$p]) that finds the child on disk.
Found(h) ==
    /\ pc = "isset" /\ todo # <<>>
    /\ obj[at].kind = "RealDir" /\ nodes[at][Head(todo)] = None
    /\ Scan(at, Head(todo)) \in {"RealDir", "RealFile"}
    /\ Discover(at, Head(todo), h)
    /\ pc' = "get"
    /\ UNCHANGED <<disk, at, todo, asked, via>>

Leave == pc' = "idle" /\ at' = Root /\ todo' = <<>> /\ asked' = <<>> /\ via' = {}

\* ENOTDIR, ELOOP and null; the path "/" has one component, which is empty
\* and which no directory lists.
Missing ==
    /\ pc = "isset"
    /\ \/ todo = <<>> /\ asked = <<>>
       \/ todo # <<>> /\ ~IsDirBase(at)
       \/ /\ todo # <<>> /\ IsDirBase(at) /\ nodes[at][Head(todo)] = None
          /\ \/ obj[at].kind = "VirtualDir"
             \/ obj[at].kind = "RealDir" /\ Scan(at, Head(todo)) \in {"null", "ELOOP"}
    /\ Leave
    /\ UNCHANGED <<treeVars, disk>>

\* $node = $node[$p], from the listing.
Get ==
    /\ pc = "get"
    /\ at' = nodes[at][Head(todo)] /\ via' = via \cup {at}
    /\ todo' = Tail(todo)
    /\ pc' = IF Len(todo) = 1 THEN "found" ELSE "isset"
    /\ UNCHANGED <<treeVars, disk, asked>>

Return ==
    /\ pc = "found" /\ Leave
    /\ UNCHANGED <<treeVars, disk>>

-----------------------------------------------------------------------------
Next ==
    \/ \E h \in Handle, g \in Given : Construct(h, g) \/ \E d \in Handle : ConstructIn(h, g, d)
    \/ \E d \in Handle, key \in Name : OffsetUnset(d, key) \/ \E h \in Handle : OffsetSet(d, key, h)
    \/ \E p \in Path : GetNode(p) \/ \E h \in Born : GetNodeAt(h, p)
    \/ \E h \in Handle : Found(h)
    \/ NormalizePath \/ Listed \/ Missing \/ Get \/ Return
    \/ \E real \in Volatile : DiskChanges(real)

Spec == Init /\ [][Next]_vars

-----------------------------------------------------------------------------
(* Properties *)

\* Every variable keeps its type.  getNode never holds null: between isset and
\* the access the child is in the listing, whatever happens on disk.
TypeOK ==
    /\ \A h \in Handle : obj[h] # Unborn =>
         obj[h].kind \in DirKind \cup FileKind /\ obj[h].options \in Option
    /\ parent \in [Handle -> Handle \cup {None}]
    /\ nodes \in [Handle -> [Name -> Handle \cup {None}]]
    /\ disk \subseteq DOMAIN Disk
    /\ pc \in {"idle", "normalize", "isset", "get", "found"}
    /\ at \in Born
    /\ via \subseteq Handle /\ renamed \subseteq Handle /\ uprooted \subseteq Handle

\* A node that a directory lists has that directory as its parent and its name
\* as the key, and so no node is in two places, after any sequence of
\* constructions, moves, removals and look-ups.  Only a node that was listed under
\* another key can be: removeChild does not find it there.
ListedHasParent ==
    \A d \in Handle, n \in Name :
        nodes[d][n] # None /\ nodes[d][n] \notin renamed =>
            parent[nodes[d][n]] = d /\ obj[nodes[d][n]].name = n

\* No directory on the way of getNode was attached with its children, and no
\* node on it was listed under another key.
WayIsPlain == at \notin renamed /\ via \cap (renamed \cup uprooted) = {}

\* The path of a node that getNode found is the path it was found by, which
\* openat relies on when it takes it for the base of another path.  It is
\* stored once, when a node is attached, and the children of a directory that is
\* moved keep the old one: no other history makes it wrong.
FoundHasPath == pc = "found" /\ WayIsPlain => path[at] = asked

\* Attaching a node takes no other node from its directory, except the one
\* whose key it takes; setParent of a node that was replaced must leave its
\* replacement alone.
OthersStay ==
    [][\A d, h \in Handle, key \in Name : OffsetSet(d, key, h) =>
         \A e \in Handle, n \in Name :
            nodes[e][n] \in {None, h} \/ (e = d /\ n = key)
                \/ nodes'[e][n] = nodes[e][n]]_vars

===============================================================================
