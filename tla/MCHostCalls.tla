----------------------------- MODULE MCHostCalls -----------------------------
(* Calls, answers and base64 texts for HostCalls. *)
EXTENDS HostCalls

\* Every text of up to three characters and some of several groups, with
\* whitespace, padding and an invalid character in every place.
MCText ==
    UNION {[1 .. n -> {41, 63, WHITESPACE, EQUALS, INVALID}] : n \in 0 .. 3}
    \cup {[<<19, 22, 5, 46, 19>> EXCEPT ![i] = c] : i \in 1 .. 5, c \in {WHITESPACE, EQUALS, INVALID}}
    \cup {<<19, 22, 5, 46, 19, 22>>, <<19, 64, 22, 5, 46, 64, 19, 22, 5>>,
          <<1, 2, 3, 4, 5, 6, 7, 8>>, <<1, 2, 3, 4, 5, 65, 6, 66>>, <<60, 61, 62, 63, 63, 66, 1>>}

MCRequest ==
    {[fn |-> f, cmd |-> "none", room |-> 2] :
        f \in {"close", "read", "stat", "lstat", "fstat", "readlink", "openat", "lseek", "dup",
               "statfs", "access", "poll"}}
    \cup {[fn |-> "openat", cmd |-> "O_CREAT", room |-> 0]}
    \cup {[fn |-> "fcntl", cmd |-> c, room |-> 0] :
            c \in {"F_GETFL", "F_SETFL", "F_DUPFD", "F_GETLK", "F_SETOWN_EX"}}

Value(t, n, ok) == [t |-> t, n |-> n, ok |-> ok]

\* A member data of the value of data, which is where the stubs look for it.
Within(v) == [t |-> "object", n |-> 1, ok |-> FALSE, data |-> v]

Values ==
    {Value("string", n, TRUE) : n \in 0 .. 3}
    \cup {Value(t, 2, ok) : t \in {"object", "array"}, ok \in BOOLEAN}
    \cup {Value("array", n, TRUE) : n \in {0, 1}}

Result(code, v) == [kind |-> "result", code |-> code, data |-> v, base64 |-> FALSE]

MCReply ==
    {NoReply} \cup {[kind |-> "error", code |-> c] : c \in {2, -32601}}
    \cup {Result(c, v) : c \in {-1, 0, 2, 3}, v \in {NoValue} \cup Values}
    \cup {Result(c, Within(v)) : c \in {-1, 0, 2, 3}, v \in Values}
    \cup {[kind |-> "result", code |-> c, text |-> x, base64 |-> TRUE] : c \in {0, 3}, x \in MCText}
===============================================================================
