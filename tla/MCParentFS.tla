------------------------------ MODULE MCParentFS ------------------------------
(***************************************************************************)
(* Instances of ParentFS for TLC: one tree and one real file system, and   *)
(* the calls each run makes.                                               *)
(***************************************************************************)
EXTENDS ParentFS

\* A virtual directory with a file, a real directory with a whitelist and a
\* virtual child, one with a blacklist and every option, a real file, and
\* two whose contents only the host knows, one of them without a realpath.
MCNode == {"v", "f", "r", "s", "b", "e", "p", "q"}
MCParent == [n \in MCNode |-> IF n = "f" THEN "v" ELSE IF n = "s" THEN "r" ELSE "root"]
MCHasReal == {"r", "b", "e", "p"}
MCOption == [n \in MCNode |->
    CASE n = "v" -> {"DIRECTORY"} [] n = "r" -> {"RECURSE"}
      [] n = "b" -> {"RECURSE", "BLACKLIST", "FOLLOW", "WRITABLE"}
      [] n \in {"p", "q"} -> {"PROXY"} [] OTHER -> {}]
MCFilter == [n \in MCHasReal |->
    CASE n = "r" -> {<<"a", "d", "x">>, <<"a", "x">>, <<"k">>, <<"l">>}
      [] n = "b" -> {<<"c">>, <<"a", "x">>} [] OTHER -> NoFilter]

Real(top, names) == [top |-> top, names |-> names]
MCDirs == {Real("r", <<>>), Real("r", <<"a">>), Real("r", <<"a", "d">>), Real("b", <<>>),
           Real("p", <<>>), Real("remote", <<>>)}
MCFiles == {Real("r", <<"c">>), Real("r", <<"k">>), Real("r", <<"a", "x">>),
            Real("r", <<"a", "y">>), Real("r", <<"a", "d", "x">>), Real("r", <<"a", "d", "y">>),
            Real("e", <<>>), Real("b", <<"c">>), Real("b", <<"l", "x">>), Real("remote", <<"x">>)}
MCLinks == {Real("b", <<"l">>), Real("r", <<"l">>), Real("b", <<"o">>)}
MCFileKind == [real \in MCDirs \cup MCFiles \cup MCLinks |->
    CASE real \in MCDirs -> "dir" [] real \in MCFiles -> "file"
      [] real = Real("b", <<"l">>) -> "dirlink"
      [] real = Real("r", <<"l">>) -> "filelink" [] OTHER -> "dangling"]

\* The host answers with a virtual directory or with a real one.
MCAnswer == {[flags |-> {"DIRECTORY"}, real |-> FALSE],
             [flags |-> {"RECURSE", "WRITABLE"}, real |-> TRUE]}
MCCwd == <<"r">>

Reads == {[flags |-> {}, mode |-> {}], [flags |-> {}, mode |-> {"O_DIRECTORY"}]}
Refused == {[flags |-> {"O_CREAT"}, mode |-> {"0300"}],
            [flags |-> {}, mode |-> {"0003", "O_DIRECTORY"}]}
Calls(paths, bases, uses) ==
    {[path |-> path, absolute |-> base, flags |-> use.flags, mode |-> use.mode] :
        path \in paths, base \in bases, use \in uses}

RealPaths == {<<"r", "s">>, <<"r", "k">>, <<"r", "l">>, <<"r", "a", "x">>, <<"r", "a", "y">>,
              <<"b", "c">>, <<"b", "l", "x">>, <<"b", "o">>, <<"b", "a">>, <<"b", "z", "x">>, <<"e">>}
VirtualPaths == {<<"v", "f">>, <<"v", ".", "g">>, <<"v", "..", "e">>}
HostPaths == {<<"p", "x", "..", "y">>, <<"q", "x">>, <<"p", "x">>, <<"p", "x", "x">>, <<"p", "y", "..", "x">>}

\* Paths of every kind, relative ones too.
WalkRequest ==
    Calls(RealPaths \cup VirtualPaths \cup HostPaths, {TRUE}, Reads)
    \cup Calls({<<"e">>, <<"r", "l">>, <<"v">>, <<"b", "l">>, <<"b", "a">>}, {TRUE}, Refused)
    \cup Calls({<<"a", "x">>, <<"a", "y">>, <<"..", "e">>, <<"a", "d", "x">>}, {FALSE}, Reads)

DeepRequest == Calls({<<"r", "a", "d", "x">>, <<"r", "a", "d", "y">>}, {TRUE}, Reads)
StaleRequest == Calls({<<"r", "l">>, <<"p", "y", "..">>}, {TRUE}, Reads)

\* Cleared memory; and memory with flags that getfs does not ask for.
Zeroed == [n \in MCNode \cup {"remote"} |-> {{}}]
Reused == [Zeroed EXCEPT !["r"] = {{}, {"FOLLOW"}, {"BLACKLIST"}}]

===============================================================================
