------------------------------ MODULE MCNodeTree ------------------------------
(***************************************************************************)
(* Instances of NodeTree for TLC: a real directory with a subdirectory, a  *)
(* link and a loop, and nodes that shadow its contents.                    *)
(***************************************************************************)
EXTENDS NodeTree

MCName == {"a", "b"}
MCDisk == [real \in {<<"r">>, <<"r", "a">>, <<"r", "b">>, <<"s">>, <<"s", "b">>} |->
    CASE real \in {<<"r">>, <<"s">>} -> "dir" [] real = <<"r", "a">> -> "file"
      [] real = <<"r", "b">> -> "dirlink" [] OTHER -> "loop"]
MCTarget == [real \in {<<"r", "b">>} |-> <<"s">>]
MCVolatile == {<<"r", "a">>}

Follows == [recurse |-> TRUE, followSymlinks |-> TRUE,
            fileWhitelist |-> {"a"}, subdirWhitelist |-> {"*"}]
Made(kind, name, options) ==
    [kind |-> kind, name |-> name, options |-> options,
     real |-> IF kind = "RealDir" THEN <<"r">> ELSE <<>>]

MCGiven == {Made("RealDir", "a", Follows), Made("VirtualDir", "b", NoOptions)}

MCPath == {<<"b">>, <<"..", ".", "a", "a">>}
MCCwd == <<"b">>

\* A directory that was put in itself is checked, and not followed any further.
NotInItself == \A h \in Handle : parent[h] # h

Symmetry == Permutations(Handle \ {Root})

===============================================================================
