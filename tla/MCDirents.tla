------------------------------ MODULE MCDirents ------------------------------
(* Directories for Dirents. *)
EXTENDS Dirents

MCEntry ==
    {[len |-> n, dir |-> FALSE, shown |-> TRUE] : n \in {1, 4}}
    \cup {[len |-> 2, dir |-> TRUE, shown |-> b] : b \in BOOLEAN}
    \cup {[len |-> 1, dir |-> FALSE, shown |-> FALSE]}

MCDirectory == UNION {[1 .. n -> MCEntry] : n \in 0 .. 4}
===============================================================================
