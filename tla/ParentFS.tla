------------------------------- MODULE ParentFS -------------------------------
(***************************************************************************)
(* The virtual file system of the parent process (sandbox-parent.c):       *)
(* build_tree, get_node and open_node.  One open_node call runs at a time; *)
(* every turn of get_node's loop over the components of a path is a step.  *)
(*                                                                         *)
(* A pointer to a node is a node of the tree, "proxy" (the static node     *)
(* that every real file is returned in), "remote" (proxy.child, the node   *)
(* the host answered last) or "NULL".  A realpath is the node it was given *)
(* to and the names appended to it since.                                  *)
(***************************************************************************)
EXTENDS Integers, Sequences, FiniteSets

CONSTANTS
    MaxFds,   \* MAX_FDS
    Node,     \* the nodes of getfs, the root excepted
    Parent,   \* [Node -> Node \cup {"root"}]
    Option,   \* their "follow", "recurse", ... of getfs: [Node -> SUBSET Flag]
    HasReal,  \* the nodes with a "realpath"
    Filter,   \* their "filter", a set of sequences of patterns, or NoFilter
    NoFilter,
    FileKind, \* the real file system: a function from realpaths to kinds
    Answer,   \* what the host may answer to getnode: options, and if a realpath
    Cwd,      \* what it answers to getcwd
    Request,  \* calls of open_node
    Junk      \* the flags that the memory of a node, fresh from malloc, can hold

Flag == {"FOLLOW", "RECURSE", "BLACKLIST", "PROXY", "WRITABLE", "DIRECTORY"}

\* The bits of the mode argument that open_node tests as if they were flags:
\* O_WRONLY|O_RDWR, O_CREAT|O_EXCL and O_DIRECTORY.
ModeBit == {"0003", "0300", "O_DIRECTORY"}

\* The components of a path, which strtok leaves without a slash.
Component == STRING \ {"/"}

Tree == Node \cup {"root"}
NoReal == [top |-> "none", names |-> <<>>]
RealOf(n) == [top |-> n, names |-> <<>>]
Unused == [file |-> NoReal, flags |-> {"unused"}]
NoRemote == [name |-> "/", real |-> FALSE, flags |-> {}]

ASSUME SizeAssumption == MaxFds \in Nat /\ MaxFds > 4
\* build_tree ends the process when it cannot stat a realpath.
ASSUME GetfsAssumption ==
    /\ Node \cap {"root", "proxy", "remote", "NULL", "none"} = {}
    /\ Parent \in [Node -> Tree] /\ Option \in [Node -> SUBSET Flag]
    /\ HasReal \subseteq Node /\ \A n \in HasReal : RealOf(n) \in DOMAIN FileKind
    /\ \A n \in HasReal : Filter[n] # NoFilter =>
         Filter[n] # {} /\ \A f \in Filter[n] : f \in Seq(Component) /\ Len(f) > 0
    /\ \A n \in HasReal : Filter[n] # NoFilter =>
         \A F \in SUBSET Filter[n] : {Tail(f) : f \in F} # NoFilter
    /\ Answer \subseteq [flags : SUBSET Flag, real : BOOLEAN]
    /\ (\E a \in Answer : a.real) => RealOf("remote") \in DOMAIN FileKind
    /\ Junk \in [Node \cup {"remote"} -> SUBSET SUBSET Flag]
    /\ Cwd \in Seq(Component) /\ \A r \in Request : r.path \in Seq(Component)
    /\ \A r \in Request : r.flags \subseteq {"O_CREAT"} /\ r.mode \subseteq ModeBit

VARIABLES
    flags,   \* flags of the nodes of the tree, as build_tree left them
    proxy,   \* realpath, flags and filter of the static proxy node
    remote,  \* proxy.child
    pc,      \* "idle", "getcwd", "cwd" or "walk" (get_node), "found", "crashed"
    call,    \* the arguments of open_node
    todo,    \* components get_node has not looked at
    cur,     \* get_node's cur
    fds,     \* the descriptor table from 4 on
    reply    \* result and errno of the last open_node

vars == <<flags, proxy, remote, pc, call, todo, cur, fds, reply>>
tableVars == <<fds, reply>>

KindOf(real) == IF real \in DOMAIN FileKind THEN FileKind[real] ELSE "absent"
IsDir(real) == KindOf(real) \in {"dir", "dirlink"}
IsLink(real) == KindOf(real) \in {"dirlink", "filelink", "dangling"}
DirectoryFlag(real) == IF IsDir(real) THEN {"DIRECTORY"} ELSE {}

-----------------------------------------------------------------------------
(* build_tree *)

\* The flags build_tree adds to those in the memory of a new node: the
\* options, where stat replaces "dir" for a node with a realpath.
BuildFlags(options, hasReal, real, junk) ==
    junk \cup IF hasReal THEN (options \ {"DIRECTORY"}) \cup DirectoryFlag(real)
              ELSE options

Init ==
    /\ \E junk \in [Node -> UNION {Junk[n] : n \in Node}] :
         /\ \A n \in Node : junk[n] \in Junk[n]
         /\ flags = [n \in Tree |->
              IF n = "root" THEN {}
              ELSE BuildFlags(Option[n], n \in HasReal, RealOf(n), junk[n])]
    /\ proxy = [real |-> NoReal, flags |-> {}, filter |-> NoFilter]
    /\ remote = NoRemote
    /\ pc = "idle"
    /\ call = [path |-> <<>>, absolute |-> TRUE, flags |-> {}, mode |-> {}]
    /\ todo = <<>> /\ cur = "NULL"
    /\ fds = [i \in 4 .. MaxFds - 1 |-> Unused]
    /\ reply = [code |-> 0, errno |-> "OK"]

-----------------------------------------------------------------------------
(* get_node *)

NodeReal(p) ==
    IF p = "proxy" THEN proxy.real
    ELSE IF p \in HasReal \/ (p = "remote" /\ remote.real) THEN RealOf(p) ELSE NoReal

NodeFlags(p) ==
    CASE p = "proxy" -> proxy.flags [] p = "remote" -> remote.flags [] OTHER -> flags[p]

NodeFilter(p) ==
    CASE p = "proxy" -> proxy.filter [] p \in HasReal -> Filter[p] [] OTHER -> NoFilter

\* Nothing sets the parent of the proxy node; that of a remote one is proxy.
ParentOf(p) ==
    CASE p = "proxy" -> "NULL" [] p = "remote" -> "proxy"
      [] p = "root" -> "root" [] OTHER -> Parent[p]

\* Children are attached to directories, and a remote node to proxy, which
\* keeps it when it comes to stand for another file.
Children(p, name) ==
    {n \in Node : n = name /\ Parent[n] = p /\ (p = "root" \/ "DIRECTORY" \in flags[p])}
    \cup {n \in {"remote"} : p = "proxy" /\ remote # NoRemote /\ remote.name = name}

\* fnmatch, with "*" as the only wildcard.
Match(pattern, name) == pattern = "*" \/ pattern = name

Matching(filter, name) == {f \in filter : Match(Head(f), name)}

\* Mutant of Permitted: a blacklist is taken for a whitelist.
PermittedWhitelist(p, name) ==
    NodeFilter(p) # NoFilter => Matching(NodeFilter(p), name) # {}

Permitted(p, name) ==
    NodeFilter(p) # NoFilter =>
        (Matching(NodeFilter(p), name) # {} <=> "BLACKLIST" \notin NodeFlags(p))

\* Mutant of Advanced: a filter without a slash is advanced too.
AdvancedPastEnd(p, name) ==
    IF p = "proxy" \/ NodeFilter(p) = NoFilter THEN NoFilter
    ELSE {Tail(f) : f \in Matching(NodeFilter(p), name)}

\* The filters of the next level.  The code frees and clears proxy.filter
\* before it reads cur->filter, which is the same field when cur is proxy.
Advanced(p, name) ==
    IF p = "proxy" \/ NodeFilter(p) = NoFilter THEN NoFilter
    ELSE {Tail(f) : f \in {g \in Matching(NodeFilter(p), name) : Len(g) > 1}}

Walking == pc \in {"cwd", "walk"} /\ todo # <<>>
\* A component that get_node looks up in cur.
Searching(name) ==
    /\ Walking /\ cur # "NULL"
    /\ name = Head(todo) /\ name \notin {".", ".."}

GoOn(p) == cur' = p /\ todo' = Tail(todo) /\ UNCHANGED pc
\* "goto cleanup" with cur = NULL; a failed cwd fails the whole call.
GiveUp == cur' = "NULL" /\ todo' = <<>> /\ pc' = "found"

Skip ==
    /\ Walking /\ Head(todo) = "."
    /\ GoOn(cur)
    /\ UNCHANGED <<flags, proxy, remote, call, tableVars>>

DotDot ==
    /\ Walking /\ Head(todo) = ".." /\ cur # "NULL"
    /\ GoOn(ParentOf(cur))
    /\ UNCHANGED <<flags, proxy, remote, call, tableVars>>

\* cur is dereferenced without a test, and json_object_new_string takes the
\* length of a realpath that may be NULL.
NullDereference ==
    /\ Walking /\ Head(todo) # "."
    /\ \/ cur = "NULL"
       \/ /\ cur # "NULL" /\ Head(todo) # ".." /\ "PROXY" \in NodeFlags(cur)
          /\ NodeReal(cur) = NoReal
    /\ pc' = "crashed"
    /\ UNCHANGED <<flags, proxy, remote, call, todo, cur, tableVars>>

\* The host is asked for the node; build_tree makes it proxy.child.
AskHost(name) ==
    /\ Searching(name) /\ "PROXY" \in NodeFlags(cur) /\ NodeReal(cur) # NoReal
    /\ \/ GiveUp /\ UNCHANGED remote
       \/ \E answer \in Answer, junk \in Junk["remote"] :
            /\ remote' = [name |-> name, real |-> answer.real,
                          flags |-> BuildFlags(answer.flags, answer.real,
                                               RealOf("remote"), junk)]
            /\ GoOn("remote")
    /\ UNCHANGED <<flags, proxy, call, tableVars>>

\* A child of cur with the name shadows a real file.
EnterChild(name) ==
    /\ Searching(name) /\ "PROXY" \notin NodeFlags(cur)
    /\ \E child \in Children(cur, name) : GoOn(child)
    /\ UNCHANGED <<flags, proxy, remote, call, tableVars>>

\* Neither a child nor a real directory to search: cur stays where it is.
Stay(name) ==
    /\ Searching(name) /\ "PROXY" \notin NodeFlags(cur) /\ Children(cur, name) = {}
    /\ NodeReal(cur) = NoReal \/ "RECURSE" \notin NodeFlags(cur)
    /\ GoOn(cur)
    /\ UNCHANGED <<flags, proxy, remote, call, tableVars>>

\* Mutant of Followed: symbolic links are always followed.
FollowedAlways(p, real) == TRUE

Followed(p, real) == IsLink(real) => "FOLLOW" \in NodeFlags(p)

\* Mutant of Inherited: the flags are or-ed into those proxy had.
InheritedOred(p) == proxy.flags \cup (NodeFlags(p) \ {"DIRECTORY"})

Inherited(p) == NodeFlags(p) \ {"DIRECTORY"}

SearchingReal(name) ==
    /\ Searching(name) /\ "PROXY" \notin NodeFlags(cur) /\ Children(cur, name) = {}
    /\ NodeReal(cur) # NoReal /\ "RECURSE" \in NodeFlags(cur)

\* A filter refuses the name, or opendir fails.
RefuseReal(name) ==
    /\ SearchingReal(name)
    /\ ~Permitted(cur, name) \/ ~IsDir(NodeReal(cur))
    /\ GiveUp
    /\ UNCHANGED <<flags, proxy, remote, call, tableVars>>

\* The search in the real directory of cur: no entry (and cur is NULL from
\* here on), an entry that becomes proxy, a link that is not followed, an
\* entry whose lstat or stat fails (a dangling link, or a file that is gone
\* since readdir).
SearchReal(name) ==
    LET real == [NodeReal(cur) EXCEPT !.names = Append(@, name)]
        found == [real |-> real, filter |-> NoFilter, flags |-> Inherited(cur)]
    IN
    /\ SearchingReal(name) /\ Permitted(cur, name) /\ IsDir(NodeReal(cur))
    /\ \/ KindOf(real) = "absent" /\ GoOn("NULL") /\ UNCHANGED proxy
       \/ /\ KindOf(real) \notin {"absent", "dangling"} /\ Followed(cur, real)
          /\ proxy' = [found EXCEPT !.filter = Advanced(cur, name),
                                    !.flags = @ \cup DirectoryFlag(real)]
          /\ GoOn("proxy")
       \/ KindOf(real) # "absent" /\ ~Followed(cur, real) /\ proxy' = found /\ GoOn("NULL")
       \/ KindOf(real) # "absent" /\ proxy' = found /\ GiveUp
    /\ UNCHANGED <<flags, remote, call, tableVars>>

\* The end of a path; that of the cwd goes on with the path itself.
WalkEnds ==
    /\ pc \in {"cwd", "walk"} /\ todo = <<>>
    /\ \/ /\ pc = "cwd" /\ cur # "NULL"
          /\ pc' = "walk" /\ todo' = call.path
       \/ /\ pc = "walk" \/ cur = "NULL"
          /\ pc' = "found" /\ UNCHANGED todo
    /\ UNCHANGED <<flags, proxy, remote, call, cur, tableVars>>

GetCwd ==
    /\ pc = "getcwd"
    /\ \/ GiveUp
       \/ pc' = "cwd" /\ cur' = "root" /\ todo' = Cwd
    /\ UNCHANGED <<flags, proxy, remote, call, tableVars>>

-----------------------------------------------------------------------------
(* open_node *)

OpenNode(request) ==
    /\ pc = "idle"
    /\ call' = request
    /\ \/ request.absolute /\ pc' = "walk" /\ cur' = "root" /\ todo' = request.path
       \/ ~request.absolute /\ pc' = "getcwd" /\ UNCHANGED <<cur, todo>>
    /\ UNCHANGED <<flags, proxy, remote, tableVars>>

OpenErrno ==
    LET dir == "DIRECTORY" \in NodeFlags(cur) IN
    IF cur = "NULL" THEN IF "O_CREAT" \in call.flags THEN "EROFS" ELSE "ENOENT"
    ELSE IF dir /\ "0003" \in call.mode THEN "EISDIR"
    ELSE IF "0300" \in call.mode THEN "EEXIST"
    ELSE IF "WRITABLE" \notin NodeFlags(cur) /\ "0003" \in call.mode THEN "EROFS"
    ELSE IF dir /\ "O_DIRECTORY" \notin call.mode THEN "ENOTDIR"
    ELSE "OK"

Free == {i \in DOMAIN fds : fds[i] = Unused}

\* The real file that was opened and the copied flags.
NewEntry == [file |-> NodeReal(cur), flags |-> NodeFlags(cur)]

Fails(errno) == reply' = [code |-> -1, errno |-> errno] /\ UNCHANGED fds

\* The real open can fail; a virtual node is not opened at all (a TODO).
FinishOpen ==
    /\ pc = "found" /\ pc' = "idle"
    /\ \/ OpenErrno # "OK" /\ Fails(OpenErrno)
       \/ OpenErrno = "OK" /\ NodeReal(cur) # NoReal /\ Fails("open")
       \/ OpenErrno = "OK" /\ Free = {} /\ Fails("EMFILE")
       \/ /\ OpenErrno = "OK"
          /\ \E i \in Free :
               /\ \A j \in Free : i <= j
               /\ fds' = [fds EXCEPT ![i] = NewEntry]
               /\ reply' = [code |-> i, errno |-> "OK"]
    /\ cur' = "NULL"
    /\ UNCHANGED <<flags, proxy, remote, call, todo>>

-----------------------------------------------------------------------------
Walk ==
    \/ Skip \/ DotDot \/ NullDereference \/ WalkEnds \/ GetCwd
    \/ \E name \in {todo[i] : i \in DOMAIN todo} :
         \/ AskHost(name) \/ EnterChild(name) \/ Stay(name)
         \/ RefuseReal(name) \/ SearchReal(name)

Next == (\E request \in Request : OpenNode(request)) \/ Walk \/ FinishOpen

Spec == Init /\ [][Next]_vars

-----------------------------------------------------------------------------
(* Properties *)

Realpath == [top : HasReal \cup {"remote"}, names : Seq(Component)] \cup {NoReal}

\* Every variable keeps its type.  Filters are the point of it: a pattern
\* that get_node hands to fnmatch has a first component, at every depth.
TypeOK ==
    /\ flags \in [Tree -> SUBSET Flag]
    /\ proxy.flags \subseteq Flag /\ proxy.real \in Realpath
    /\ proxy.filter # NoFilter => \A f \in proxy.filter : Len(f) > 0
    /\ remote.flags \subseteq Flag /\ remote.real \in BOOLEAN
    /\ pc \in {"idle", "getcwd", "cwd", "walk", "found", "crashed"}
    /\ cur \in Tree \cup {"proxy", "remote", "NULL"}
    /\ DOMAIN fds = 4 .. MaxFds - 1
    /\ \A i \in DOMAIN fds : fds[i] # Unused =>
         fds[i].file \in Realpath /\ fds[i].flags \subseteq Flag
    /\ reply.code \in {-1, 0} \cup DOMAIN fds

\* The real files that were opened, and the one get_node has just found.
Opened == {fds[i].file : i \in DOMAIN fds \ Free}
          \cup {real \in {proxy.real} : pc = "found" /\ cur = "proxy"}
OfTree == {real \in Opened : real.top \in HasReal}

\* Do the first k components of a filter match?
MatchesTo(f, names, k) == Len(f) >= k /\ \A i \in 1 .. k : Match(f[i], names[i])

\* What the filters of a node with the flags F say of a file below it: no entry of
\* a blacklist matches it or a directory on the way; an entry of a whitelist matches
\* all its components.
FilterAllows(F, top, names) ==
    \/ Filter[top] = NoFilter
    \/ /\ "BLACKLIST" \in F
       /\ \A f \in Filter[top] : Len(f) <= Len(names) => ~MatchesTo(f, names, Len(f))
    \/ /\ "BLACKLIST" \notin F
       /\ \E f \in Filter[top] : MatchesTo(f, names, Len(names))

\* No call of open_node, after whatever calls before it, reaches a real file
\* that the filters of its node exclude, as a blacklist or a whitelist according to
\* the flags build_tree left in the node: at every depth for a blacklist; in the
\* first two levels for a whitelist, as long as the host has answered no
\* getnode, so that ".." cannot lead to the proxy node, which an earlier call
\* may have left without its filters.
FiltersOfTwoLevels ==
    \A real \in OfTree :
        "BLACKLIST" \in flags[real.top] \/ (Len(real.names) <= 2 /\ remote = NoRemote)
            => FilterAllows(flags[real.top], real.top, real.names)

\* A real file behind a symbolic link is reached only below a node that build_tree
\* left with "follow".
SymlinksRespected ==
    \A real \in OfTree : \A k \in DOMAIN real.names :
        IsLink([real EXCEPT !.names = SubSeq(@, 1, k)]) => "FOLLOW" \in flags[real.top]

\* The same as long as the host has answered no getnode (see FiltersOfTwoLevels).
SymlinksRespectedWithoutHost == remote = NoRemote => SymlinksRespected

\* The node a found node has its options from.
TopOf(p) == IF p = "proxy" THEN proxy.real.top ELSE p

\* The node get_node returns, a real file at any depth included, has exactly the
\* options that build_tree left in the node of getfs it lies below, whatever the
\* proxy node held before.  These are what getfs asks for and, since build_tree ors
\* them into memory it has not cleared, what that memory held; nothing gets lost.
OptionsAreGiven ==
    pc = "found" /\ TopOf(cur) \in Node =>
        LET n == TopOf(cur) IN
        /\ NodeFlags(cur) \ {"DIRECTORY"} = flags[n] \ {"DIRECTORY"}
        /\ \E junk \in Junk[n] :
             NodeFlags(cur) \ {"DIRECTORY"} = (Option[n] \cup junk) \ {"DIRECTORY"}

===============================================================================
