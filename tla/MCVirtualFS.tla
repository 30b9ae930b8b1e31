----------------------------- MODULE MCVirtualFS -----------------------------
(***************************************************************************)
(* Instances of VirtualFS for TLC: a tree with a node of every class the   *)
(* runs tell apart, and mutants of the calls.                              *)
(***************************************************************************)
EXTENDS VirtualFS, TLC

\* One node of each class; the path of a node is its name, except that
\* getNode finds no node for the root itself.
MCNode == {"root", "tmp", "script", "zero", "null", "lib", "python"}
MCKind == [n \in MCNode |->
    CASE n \in {"root", "tmp"} -> "VirtualDir" [] n = "script" -> "VirtualFile"
      [] n = "zero" -> "ZerofillFile"  [] n = "null" -> "SinkholeFile"
      [] n = "lib" -> "RealDir"        [] n = "python" -> "RealFile"]
MCLen == [n \in MCNode |->
    IF n \in {"script", "python"} THEN 2 ELSE IF n = "lib" THEN 1 ELSE 0]

MCPath == (MCNode \ {"root"}) \cup {"missing", "below_script"}

\* Seen from a file, every relative path runs into the file.
MCLookup == [b \in MCNode \cup {AT_FDCWD} |-> [p \in MCPath |->
    IF p = "below_script" THEN NotDir
    ELSE IF b \in MCNode /\ MCKind[b] \notin {"VirtualDir", "RealDir"} THEN NotDir
    ELSE IF p = "missing" THEN Absent ELSE p]]

\* Fewer nodes for the run with more descriptors.
FewPath == {"script", "python", "missing"}
FewLookup == [b \in MCNode \cup {AT_FDCWD} |-> [p \in FewPath |-> MCLookup[b][p]]]

MCFlags == {{}, {"O_RDWR", "O_CLOEXEC"}, {"O_CREAT"}, {"O_NONBLOCK"}}
FewFlags == {{}, {"O_CREAT"}}
MCLengths == {1, 2}
MCOffsets == {-1, 0}
FewLengths == {2}
FewOffsets == {0}

HandleSymmetry == Permutations(Handle)

=============================================================================
