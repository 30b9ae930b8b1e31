--------------------------- MODULE DescriptorTable ---------------------------
(***************************************************************************)
(* What a process may expect of the descriptor table that answers its      *)
(* system calls, whatever implements it: descriptors below First are fixed, *)
(* open and dup hand out the lowest free descriptor, a description is open  *)
(* exactly as long as a descriptor designates it, and EMFILE is answered   *)
(* only by a table with no free descriptor.                                *)
(*                                                                         *)
(* VirtualFS.tla, the model of PythonSandbox/VirtualFS.php, implements     *)
(* this specification (VirtualFS!Table).                                   *)
(***************************************************************************)
EXTENDS Integers

CONSTANTS
    Size,        \* descriptors are 0 .. Size-1
    First,       \* the first descriptor that open and dup hand out
    Description, \* open file descriptions the process can create; the others
                 \* of Initial exist from the start and never close
    None,        \* a descriptor that designates nothing
    Initial      \* the table of a new process

VARIABLES
    table,   \* table[d]: the description that descriptor d designates
    open,    \* the descriptions (of Description) that hold a resource
    verdict  \* of the last call: "OK", "EMFILE" or "refused"

vars == <<table, open, verdict>>

Descriptor == 0 .. Size - 1

Free == {d \in First .. Size - 1 : table[d] = None}

Lowest(d) == d \in Free /\ \A e \in Free : d <= e

Init ==
    /\ table = Initial
    /\ open = {}
    /\ verdict = "OK"

\* A new description on the lowest free descriptor.
Open(o) ==
    /\ o \notin open
    /\ \E d \in Free : Lowest(d) /\ table' = [table EXCEPT ![d] = o]
    /\ open' = open \cup {o}
    /\ verdict' = "OK"

\* One more descriptor, the lowest free one, for what d designates.
Dup(d) ==
    /\ table[d] # None
    /\ \E e \in Free : Lowest(e) /\ table' = [table EXCEPT ![e] = table[d]]
    /\ verdict' = "OK"
    /\ UNCHANGED open

\* The last descriptor of a description closes it, no other one does.
Close(d) ==
    /\ d >= First
    /\ table[d] # None
    /\ table' = [table EXCEPT ![d] = None]
    /\ open' = IF \E e \in Descriptor \ {d} : table[e] = table[d]
               THEN open ELSE open \ {table[d]}
    /\ verdict' = "OK"

\* Any call that allocates and releases nothing.
Other ==
    /\ verdict' \in {"OK", "refused"}
    /\ UNCHANGED <<table, open>>

Exhausted ==
    /\ Free = {}
    /\ verdict' = "EMFILE"
    /\ UNCHANGED <<table, open>>

Next ==
    \/ \E o \in Description : Open(o)
    \/ \E d \in Descriptor : Dup(d) \/ Close(d)
    \/ Other
    \/ Exhausted

Spec == Init /\ [][Next]_vars

==============================================================================
