# A TLA+ model of python-sandbox

python-sandbox runs untrusted Python in a child process under seccomp. Three
parties take part in it:

    PHP host  --(two pipes, JSON-RPC lines)--  parent process  --(datagram socketpair)--  child
    Sandbox.php, RPCServer.php,                sandbox.c,                               sandbox-child.c,
    VirtualFS.php, ...                         sandbox-parent.c, sblibc.c               sbio.c, libsbpreload.c

The child's system calls are answered by the parent or, through it, by the
host; both keep a virtual file system. The repository is in the middle of a
rewrite at this commit: the parent has just begun to answer calls itself, its
request loop rejects every request of the documented form, `open_node` has a misspelt variable
(`newnodw`), `fds` is given a field it does not have, and the host's RPC server does not accept what the parent sends.
The models follow the code as it stands and, where a typing error stops it from
compiling, the only reading it can have. Components that cannot reach each other
at this commit are modelled for themselves.

## Inventory

| Component | State | Operations | Talks to |
|---|---|---|---|
| Descriptor layer of the host (`VirtualFS.php`, `FDBase.php`, `VirtualFD.php`, `RealFD.php`, `DirFD.php`, `StatOnlyFD.php`) | table `$fds`; per object: node, reference count, resource, offset, two sets of flags | open, openat, dup, close, read, lseek, getdents, fstat, poll, fcntl | called by `SyscallHandler`, one call at a time; opens nodes of the tree |
| Node tree of the host (`Node.php`, `DirBase.php`, `RealDir.php`, `VirtualDir.php`, ...) | listing of every directory, parent link and path of every node; real children found on disk are cached | construct, attach, move, remove, look up | the application builds it; `getNode` walks it; the disk changes under it |
| Life cycle (`sandbox.c`, `run_parent`, `run_child`, `Sandbox.php`) | where each process is, exit statuses, SIGCHLD, datagrams, pipes | main, fork, handshake, signal handler, `proc_close`, `__destruct` | all three parties |
| `trampoline`, `readjson`, `writejson`, `base64decode` (`sblibc.c`) | the two pipes, the buffer of a line | one request, one reply; every other outcome ends the process | stubs to host |
| RPC server (`RPCServer.php`) | non-blocking pipes, deadline | read a line, call a handler, write a line | host to parent |
| Node tree of the parent (`build_tree`, `get_node`, `open_node`) | tree of nodes, one static `proxy` node and its child, table `fds` | build, resolve a path component by component, open | asks the host for nodes and the working directory; reads the disk |
| Request loop of the parent (`run_parent`) | header fields, buffer | read a header and arguments, dispatch or forward, answer; give up and kill the child | child, host |
| Stubs (`sbio.c`) | static request and response vectors, the caller's buffers | one per system call: a datagram and its answer (open), or a call of `trampoline` | parent or host |
| Seccomp filter and SIGSYS trap of the child (`sandbox-child.c`) | signal frames on one stack | allow or trap a call, find its stub, store its result | kernel, stubs |
| Preloaded library (`libsbpreload.c`) | one flag | ids and password entries without system calls | the program |
| System call tables, Python library, configuration | constants | | |

What is hard in it: the processes interleave freely (a child may end before its
parent has left `fork`); messages have no type and a datagram read with the
wrong size is lost; timeouts of the host race answers; reference counts, parent
links and paths are kept by hand over long sequences of calls; the parent keeps
one static node that every look-up overwrites; the disk changes between two
system calls; lines arrive in parts on non-blocking pipes and answers carry no
usable id; the trap handler runs into itself; host and stub compute sizes
independently of each other. `PROJECT.json` lists these hazards by line.

What makes the components correct:

* descriptors: counts, resources and table agree; the lowest free descriptor is
  handed out; a refused call changes nothing; reads skip nothing;
* life cycle: the end of the child reaches the parent and the host; success is
  reported only for success; no message of the handshake is taken for another;
* node trees: a path resolves to the node it names, within the filters and
  options that node was given, whatever was resolved before;
* calls to the host: a call returns its own answer or the process ends, it ends
  in any case, and the caller's buffer holds what the return value says;
* directories: each entry is delivered once, in pages that fit;
* trap and request loop: a trapped call runs its own stub, a loop that gives up
  takes the child with it, and a status of 0 is the child's.

## Modules

| Module | Models | Extended by |
|---|---|---|
| `DescriptorTable` | abstract: what a process expects of a descriptor table | implemented by `VirtualFS` |
| `VirtualFS` | descriptor layer and system calls of the host | `MCVirtualFS`, `VirtualFSProofs` |
| `Lifecycle` | host, parent and child from `main` to the reaped status | `LifecycleProofs` |
| `ParentFS` | `build_tree`, `get_node`, `open_node` | `MCParentFS`, `ParentFSProofs` |
| `NodeTree` | node tree of the host, `normalizePath`, `getNode` | `MCNodeTree`, `NodeTreeProofs` |
| `Base64` | `base64decode` | `HostCalls`, `Base64Proofs` |
| `HostCalls` | `trampoline`, the stubs that use it, `RPCServer::run` | `MCHostCalls`, `HostCallsProofs` |
| `Dirents` | `DirFD::getdents` and the getdents stub | `MCDirents`, `DirentsProofs` |
| `Preload` | `libsbpreload.c` | `Requests` |
| `Requests` | filter, trap and stubs of the child, request loop of the parent | `MCRequests`, `RequestsProofs` |

### VirtualFS

The RPC server handles one request at a time, so an action is a whole call, from
its arguments to the reply, errors included. `fds` is `$fds`; the other
variables are the fields of the descriptor objects, indexed by object identity
(`Handle` for those `open` creates, `Std` for the three `StatOnlyFD`). `handle`
is the resource: `closeInternal` makes it "closed", an `fopen` that returns
false leaves "failed". A file is its length, a set of flags a set of names, and
path resolution its result (`Lookup`). A PHP fatal error (`server = "dead"`) is
an outcome of the calls that can run into one: a type error ends the host, and
no further call is answered. How many entries `getdents` returns is a free
choice here and computed in `Dirents`. The actions carry the names of the methods.

`ImplementsTable` is the refinement: the table is `$fds`, the open descriptions
are the objects with a resource, the verdict is the errno reduced to OK, EMFILE
and refused.

### Lifecycle

One step is one system call or signal delivery of one process. `parent` and
`child` are program counters named after what comes next (`getlimits`,
`sendlimits`, ... ; `limits`, `pathlen`, `path`). A datagram is its kind and
size; a read takes one datagram and loses what does not fit, and does not end
when the peer goes away. The sizes of `int` and `unsigned long` are those of the
ABI, which is a constant (`LongSize`). `trampoline` is a request and what the
parent makes of the reply: the result, or one of its three `exit`s. A result
carries a number (`Code`, any set of integers), which `run_parent` returns when it
is not 0 and of which `exit` keeps eight bits. A host that
answers the parent's JSON-RPC is external: the `RPCServer` of this commit breaks
off at the first request, which is `HostCloses`; `HostAnswers` lets the model
go beyond it.

### ParentFS

One call of `open_node` at a time; a turn of the loop of `get_node` is a step.
The static `proxy` node and its child (`remote`) are variables that survive from
call to call, because that is where the code can go wrong. A real path is the
node it was given to and the names appended since. `Junk` is what the flags in
memory from `malloc` can hold, node by node: nothing in `parent_stale`; in
`parent_walk` the real directory `r` may be built over a leftover FOLLOW or
BLACKLIST. The properties speak of the flags that `build_tree` left in a node,
and `OptionsAreGiven` also says what these can be. Left out: the
pointers of uninitialised nodes, the missing terminator of filter
lists, filters in an answer of the host, a working directory that is itself
relative, and two siblings of the same name.

### NodeTree

`nodes`, `parent` and `path` are the three copies of the shape of the tree.
`Attached` is what `$d[$key] = $h` does to the listings, with the call of
`removeChild` inside `setParent`; `$d[] = $h` is the same with the name of `$h`
for the key. `OffsetSet` and `OffsetUnset` take any key and any node, a directory
with children and the directory itself included. `setParent` writes the path of
the node alone, so that the children of a directory that is moved keep stale
ones, and `removeChild` looks under the node's own name, so that a node listed
under another key stays there. Three history variables let the properties tell
these cases from all others: `renamed` (nodes once listed under a foreign key),
`uprooted` (directories attached when they had children) and `via` (the
directories `getNode` came through). `normalizePath` takes one step per component
of the path (`todo` is `$pp`, `asked` is `$np`); `getNode` then takes two, one
for `isset($node[$p])` and one for `$node[$p]`, and the disk may change between
any of them. Left out is a removal that first has to find the file on disk, by
`unset` or in `setParent` (`AnsweredFromListing`). `MaxDepth` bounds the paths
of attached nodes, the number of handles the number of nodes. Patterns are names
and `*`.

### Base64 and HostCalls

`Base64` has one step per character of `base64decode`; a character is its entry
in the table `d[]`. `StartDecode` is the call in `trampoline`, with the buffer it
allocates. `HostCalls` extends it: a stub is called (`Issue`), `trampoline` writes
the request in one piece or two (`WriteJson`), waits for a line (`ReadJson`,
`ReadEof`), decodes (`DecodeData`), and the stub checks the value and fills the
caller's buffer (`ReadStub`, `StatStub`, ...: how much is filled, or `Refused`,
which is exit(EPROTO)). `up` and `down` are the pipes; `down` holds the pieces
that `fgets` can return, each with the call it answers, which the code cannot
see and the property `ReplyMatchesCall` uses. The host answers in any form,
answers with more than the 65535 bytes `readjson` takes, writes a part of the
line, refuses, or closes after five seconds. A JSON value is its type, its length
and whether its members are the ones asked for. `HandlerNeeds` is the number of
arguments the handler of the host makes use of, which for `openat` depends on
O_CREAT. The stubs run in a process that
has the pipes. The host that answers `trampoline` is external; the `RPCServer`
of this commit refuses each line, one of the behaviours here.

### Dirents

Host and stub of one getdents call: `Skip`, `Hide`, `List` and `Answer` are the
loops of `DirFD::getdents`, `CopyEntry` and `Return` the one of the stub. An entry
is the length of its name, whether it is a directory and whether the filter of
the node shows it. `Misc` is the fixed part of a `linux_dirent`. `ends` and
`delivered` are history. The directory does not change while it is read.

### Preload and Requests

`Requests` begins where the child has passed the handshake and the parent has
entered its loop. The program is arbitrary: it makes calls from `Syscall`,
writes datagrams from `Raw` to the socket, which the filter allows, and asks the
preloaded library (`Preload`) for users. The stages of the interpreter in
`run_child` are part of it; what they can return is `PythonEnds`. A call the filter (`Allowed`) does not let
through pushes a frame; `SigsysHandler` looks for the stub by the position of
the name in `syscalls[]`, of which the model has the positions of the x86_64
list, while the number of a call comes from the kernel (`Number`, which agrees
with the table `x86_64` taken from the kernel's headers and has one name per
number). `TrampolineStub`
is what every stub but open and mmap does in the child: `writejson` opens a
descriptor the child does not have, and `fdopen` traps again, until the stack is
full. The parent's loop has every branch of the code; `length`, which no
accepted header sets, starts with any value of `Junk`. The host may close its
pipes at any time (`HostCloses`); a call of `trampoline` under way or made later
is then an exit with one of the values of `Errno`, 0 among them (`HostExits`).
The filter allows `rt_sigaction` and `rt_sigprocmask`: the program may ignore
SIGTERM (`ignores`) and block or unblock signals (`mask`); a blocked SIGSYS makes
a trap fatal. `KillChild`, the end of the child and `SigchldHandler` interleave.

## Runs

Passing:

* `vfs_table`: three descriptors for three objects, so that objects are shared,
  released, replaced and the table runs full. Counts are exact, resources follow
  descriptors, stdio stays in place, `DescriptorTable` is implemented.
* `vfs_calls`: two descriptors and a node of every class, lengths below, at and
  above `MaxReadLength`, offsets to one past the largest file. Refused calls
  leave no trace, reads skip no byte.
* `life_lp64`: both processes and the host on x86_64, with result codes 0, 5 and
  256. SIGCHLD is not lost, a status 0 is the child's, or that of a host that was
  gone or answered with a multiple of 256, the end of the child ends the parent, and
  `Sandbox::run` returns. (That the last one holds is due to the limits the
  child refuses there: see `life_path`.)
* `life_ilp32`: the same on i386, where the handshake gets further. No message
  is taken for another.
* `parent_walk`: sequences of calls over a tree with virtual, real, filtered and
  remote nodes, links, missing files and relative paths, one node in memory with
  leftover flags. What is found has the flags of its node, blacklists hold at every depth and whitelists for two
  levels, and links are followed only where the option is set; for whitelists
  and links as long as the host has answered no `getnode`.
* `tree_walk`: the root and two more nodes, constructed by the application or found on disk, attached
  under either name, moved with what is in them, replaced, removed and looked up.
  Without a foreign key no node is in two places; moving one disturbs no other;
  and a node is found by exactly its path, unless a node with a foreign key or a
  directory that was moved with its children is on the way.
* `host_calls`: two calls of any of the stubs against every host. A call returns
  its own answer, reads and stats fill what they report, requests carry the
  arguments the handlers of the host use (the mode of openat with O_CREAT is the
  one exception), base64 is decoded bit by bit as defined,
  the buffer is always large enough, and every call ends.
* `dir_pages`: every directory of up to four entries, with buffers that change
  from call to call, down to one smaller than any entry. The stub never meets an entry
  that does not fit, each shown entry comes once, and 0 means the end, or an
  entry larger than the whole buffer.
* `requests`: every call with a stub and some without, datagrams of every kind.
  Nested traps find their own stubs, a call that needs the host ends the child,
  a loop that gives up ends the child unless the program ignores SIGTERM or blocks
  it for ever, 0 is the
  child's own status but for the two cases `SuccessIsChilds` names (a count of bytes
  that is a multiple of 256, and a host that closed its pipes under a call), and password
  entries are whole in the tightest buffer.

Violated, each a disagreement between the code and its own comments
(`findings` in `PROJECT.json` quotes them):

* `life_path`: on i386 the child loses the path with the datagram whose first
  four bytes it read, and all three parties wait for ever.
* `parent_stale`: a path through a node of the host and `..` finds what an
  earlier call left in the proxy node, here a link that was refused.
* `request_open`: the request of the open stub has the documented header of six
  bytes; the loop requires four, gives up and sends the child SIGTERM.

Further deviations that the models contain, without a run of their own:
F_SETFL clears flags it should leave alone (`VirtualFS!NewFileFlags`); on x86_64
the child refuses the limits, 12 bytes for 16 (`Lifecycle!Want`); early
returns of the parent and the kill of `__destruct` leave the child behind
(`Lifecycle`); whitelists are lost on the way to the third real level
(`ParentFS!Advanced`), and an `lstat` that fails leaves a proxy node without its
whitelist, which a later path through a node of the host and `..` comes to
(`SearchReal`); stubs look for data inside the data `trampoline` has
already taken out, so that replies of the documented form end the process
(`HostCalls!Data`); readlink returns the whole length of a link it has cut
(`ReadlinkStub`); openat does not send its mode, and O_CREAT is answered ENOENT
where EROFS was meant (`OpenatArgs`); getdents returns
0 for an entry larger than the buffer (`Dirents!Answer`); the loop gives open the
stub of fcntl and every other call that of open (`Requests!Handler`), uses a
length it never reads (`length`), drops the answers to forwarded requests
(`Forward`), and can end with 0 when the count of bytes it gave up on is a multiple
of 256, or when the host closes its pipes under a forwarded or dispatched call
(`SuccessIsChilds`, `HostExits`); a program may ignore or block SIGTERM and
outlive its parent (`ignores`, `mask`);
O_CREAT without O_EXCL answers EEXIST (`VirtualFS!OpenErrno`); a host that closes
the pipes between a request and its answer gets status 0 (`Lifecycle!Eof`), and so
does one that answers the handshake with a nonzero multiple of 256 (`Reply`); a
name missing in a virtual directory finds the directory (`ParentFS!Stay`);
paths that go on after a missing real file, or `..` after a real one, lead to a
null pointer (`NullDereference`); `open_node` tests the mode where the flags are
meant (`OpenErrno`), and leaves the real file open when the table is full; flags are or-ed into memory from `malloc` (`Junk`); a PHP
node constructed with a parent, or attached twice to the same one, is not
listed by it (`NodeTree!ConstructIn`, `Attached`); a node listed under a key other
than its name can stay in two places (`Removed`), and the nodes below a directory
that is moved keep their old paths, which `openat` goes by (`OffsetSet`).

Bounds. Each bound is a constant of its module. Descriptors, objects and nodes
are few because every property relates at most two of them to a third; the
offset bound leaves room for a read past the end of the largest file and a
seek back. `ParentFS` has one free descriptor in `parent_walk`, so that the
second successful call finds the table full. In `NodeTree` a directory that was put
in itself is checked and not followed any further (`NotInItself`), since its paths
grow with every move; the proofs have no such bound. Two calls of `HostCalls` are the
least that let an answer reach the wrong one (`MaxCalls`); the texts are all of
up to three characters of a few kinds and some longer ones. The stack of
`Requests` has room for four frames, enough for mmap, lseek, fcntl and one more to
overflow it (`MaxFrames`), and the program takes three actions (`MaxSteps`): a
header, its data, and a call or exit. `BufLen` has the sizes of both password
entries and one less.
Deadlock checking is off: a dead server, a crashed parent and an ended
sandbox stop, and the bounds on offsets and nodes stop the rest. Symmetry is used
for object identities only, and never with liveness.

Fairness. `Lifecycle`, `HostCalls` and `Requests` have liveness properties. In
`Lifecycle` the kernel schedules both
processes and delivers a pending signal (weak fairness of `ParentStep`,
`ChildStep`, `SigchldHandler`); the host's `stream_select` has a timeout of five
seconds, so it answers or closes (`HostAnswers`, `HostCloses`), and `proc_close`
returns when the parent has ended (`HostReaps`). Nothing is assumed of
`ChildKilled` and `HostDestructs`, which may never happen. In `HostCalls` a call
that was begun goes on while it can (`CallerStep`) and the host, whose
`stream_select` calls have timeouts, answers or closes (`HostStep`); new calls are
not assumed. In `Requests` both processes run (`ChildStep`, `ParentStep`) and a
signal that is pending and not ignored is delivered (`ChildKilled`); nothing is
assumed of the program.

## Proofs

`VirtualFSProofs` proves, for every table size, set of objects, tree and set of
arguments (the named assumptions of `VirtualFS` are all it uses):

* `TypeCorrect`, `CountsAreExact`, `ResourcesFollowDescriptors` and
  `StdioStaysPinned` from the inductive invariant
  `IInv == TypeOK /\ RefcountExact /\ OpenIffReferenced /\ StdioPinned`. The
  conjuncts need each other: a close releases the resource when the count
  reaches 0, which is right only because the count is exact; the count stays
  exact because a new object is one no entry holds, which is
  `OpenIffReferenced`. Counting is in three lemmas about `Holders`, the entries
  that hold an object.
* `ErrorsAreClean`, an action property, from the same invariant: `closeInternal`
  can throw after the decrement, but not for an object that is referenced.
* `ReadsSkipNothing`, another action property: arithmetic about the two ways to
  move an offset (`ReadDelivers`).
* `Refinement`: every call maps to a step of `DescriptorTable`. `StepKinds`
  sorts the steps into quiet ones, opens, dups and closes, and each kind is
  mapped by a lemma.

`LifecycleProofs` proves, for both ABIs, every length of the path and every set of
result codes,
`TypeCorrect`, `SigchldIsNotLost`, `SuccessExplained` and `HandshakeInOrder`. The
invariant adds to these that the handler is registered from `fork` on
(`HandlerInPlace`), that a child ended by a signal has a signal number and that an
early return is a failure or a code of the host's (so that no other 0 is among
their statuses), and where
the two processes can be relative to each other and to the datagrams under
way (`Handshake`). The latter also says that the child never starts Python.

`Base64Proofs` proves for every text that `base64decode` stays inside its input
and its output (`DecodeTypeCorrect`, `NeverOutOfRoom`) and that what it computes
is base64 (`DecodesAsBase64`). For the room, the invariant charges each byte
written and each character waiting in `buf` to a character consumed. For the
bits it says where each character read so far is (`Decoded`): in the bytes
(`Holds`: four characters in three bytes), or in `buf`, so many characters from
its end (`Kept`). The place of a character is the number of characters before
it, a cardinality, so that no induction over the text is needed. Lemmas about
`\div` and `%` say that a shift moves the characters in `buf` up, that the bytes
of a full and of an unfinished group hold its characters (`Fills`), and that
bytes that hold a character have its bits (`HoldsBits`). The theorems are
about `DecodeSpec`, the algorithm by itself.

`HostCallsProofs` proves `TypeCorrect`, `AnswersMatch`, `BuffersMatch`,
`ArgumentsArrive`, `DecodeFailsOnInvalid` and `DecodesReplies` for every number
of calls and every set of requests, replies and texts. `trampoline` compares no
id, so that an answer is the right one
only because nothing else can be in the pipe: the invariant says what may be in
which pipe at which point of the call (`Pipes`, `OneAnswer`) and that ret and
errno are the answer's from the time it is taken (`Matched`). `DecodeInv` of
`Base64Proofs` is carried along, with a lemma for the steps that leave the
decoder alone. `ArgumentsArrive` compares, stub by stub and command by command,
what `sbio.c` sends with what `SyscallHandler` uses (`EnoughArguments`), and finds
that openat with O_CREAT lacks exactly the mode.

`NodeTreeProofs` proves `TypeCorrect`, `OnePlace`, `FoundByPath` and
`NoOtherIsLost` for every set of nodes, names, paths, every disk and every bound. The
invariant `TreeInv` ties the three copies of the shape together: what is listed
exists (`Listings`), has the directory as its parent, and, below a directory that
has a path, has the path of the directory and its name (`Paths`); nodes in
`renamed` are excepted from the last two, what `uprooted` directories list from
the last. A move breaks the paths only below the node that is moved, which has a
child then and so is recorded (`Recorded`). `WalkInv` says that the path of
the node `getNode` has reached, followed by the components it has left, is the
path asked for as long as the way is plain, and that between `isset` and the access the child is listed.

`ParentFSProofs` proves, for every tree of `getfs`, every disk, every set of
requests and every number of descriptors, `TypeCorrect`, `OptionsGiven`,
`FiltersHold` and `LinksHold`, all for any flags that memory from `malloc` may
hold (`Junk`): they are about the flags as `build_tree` leaves them, its options
or-ed into what was there. The
invariant follows the static `proxy` node. `GivenInv` holds whatever an earlier
call has left in it: its flags are those of the node it is below, and the
filters of that node allow its first name, which is why a blacklist, whose
entries refuse already at their first component, holds at every depth.
`ReachedInv` is about the calls before the host answers a `getnode`: where
`get_node` stands, links were followed only as allowed, and below the first name
the proxy has what is left of the filters of its node, so that a whitelist holds for the
second.

`RequestsProofs` proves `TypeCorrect`, `SuccessIsTheChilds`, `TrapsFindStubs`
and `EntriesAreWhole` for every program, that is, every set of calls and of
datagrams, every size of the stack, every value of `length` and every set of errnos. The invariant
has the types of the two processes, that a waiting datagram has a size, and that
a status is explained from the moment the parent leaves its loop, one step
before the property looks at it (`StatusExplained`); that the exit of a call of the
host is not 0 while the host is there is a lemma (`ExitStatus`). The child's steps share one
lemma (`ChildKeepsInv`: a child that is gone takes none), the parent's steps
inside the loop another. That a trap finds its stub compares the positions of
`syscalls[]` with the numbers of the kernel, name by name, and needs for nested
traps that every frame on the stack has the number and the stub of its own call
(`FramesNamed`).

`DirentsProofs` proves `TypeCorrect`, `StubNeverExits`, `DeliveredOnce` and
`ZeroIsTheEnd` for every directory, every buffer and every `Misc` other than 0.
The invariant ties the two computations of sizes together through `ends`
(`Counted` for the host, `Agreed` for the stub), and says that every shown entry
up to `$off` is delivered or still on the page (`Complete`), in order
(`Ordered`).

Every invariant and every action property that a passing run checks is also
proved. Checked by TLC only: the liveness properties (`ChildEndsParent`,
`HostGetsStatus`, `CallEnds`, `TrampolineEndsChild`, `AbortEndsChild`), which
need fairness, and the violations. The proofs are about the models under their
named assumptions; that the models are the code rests on reading both.

## Not modelled

* The text of JSON lines: a value is what the code asks of it.
* stat, lstat, access, readlink, statfs and the id calls on the side of the host:
  they change nothing, and their results are free in `HostCalls`.
* The list of system calls for i386. It lacks the entries 222, 223, 251 and
  285, so that from there on a name stands before its number (openat, labelled
  295, is at 291) and `nsyscalls` is larger than the list.
* What a trapped call returns to the program. The handler stores the stub's -1
  where the kernel would put a negative errno, which libc reads as EPERM.
* The bytes of a request: `open` sends its path without the NUL the parent's
  `strlen` needs.
* The part of the mmap stub behind its lseek, which ends the child; `isatty` and
  `ttyname` of the preloaded library, which return constants; resource limits;
  the Python library, which speaks a format the C side no longer knows;
  `VirtualFD::write`, which nothing calls.

## Plan

1. Done: `VirtualFS` with `DescriptorTable`, `Lifecycle`, `ParentFS`, `NodeTree`.
2. Done: `HostCalls` with `Base64`, `Dirents`, `Requests` with `Preload`.
3. Done: proofs of the invariants and action properties of all of them.
4. `getNode` of `NodeTree` in place of the constant `Lookup` of `VirtualFS`, as a
   refinement.
