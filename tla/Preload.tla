------------------------------- MODULE Preload -------------------------------
(***************************************************************************)
(* libsbpreload.c: libc functions that the sandboxed child finds before    *)
(* those of libc.  Until enable_sandbox they pass on to the next one.  A   *)
(* string in the buffer of a reentrant function is its place in the entry  *)
(* (name, password, gecos, directory, shell) and its length.               *)
(***************************************************************************)
EXTENDS Integers, Sequences

SB_UID == 1000
SB_GID == 1000
ERANGE == 34

\* Mutant of Account: the home directory starts where the gecos field does.
AccountShifted ==
    [sandbox |-> [uid |-> SB_UID, gid |-> SB_GID, len |-> <<7, 1, 0, 4, 10>>,
                  off |-> <<0, 8, 10, 10, 15>>, size |-> 27],
     root    |-> [uid |-> 0, gid |-> 0, len |-> <<4, 1, 0, 5, 7>>,
                  off |-> <<0, 5, 7, 8, 14>>, size |-> 22]]

\* SB_PWD_BUF and RT_PWD_BUF as the lengths of their strings, with the offsets
\* and sizes defined beside them.
Account ==
    [sandbox |-> [uid |-> SB_UID, gid |-> SB_GID, len |-> <<7, 1, 0, 4, 10>>,
                  off |-> <<0, 8, 10, 11, 16>>, size |-> 27],
     root    |-> [uid |-> 0, gid |-> 0, len |-> <<4, 1, 0, 5, 7>>,
                  off |-> <<0, 5, 7, 8, 14>>, size |-> 22]]

\* sb_pwd and rt_pwd, which the functions without a buffer return.
Static ==
    [sandbox |-> [uid |-> SB_UID, gid |-> SB_GID, len |-> <<7, 1, 0, 4, 10>>],
     root    |-> [uid |-> 0, gid |-> 0, len |-> <<4, 1, 0, 5, 7>>]]

Getpwnam(name) == IF name \in DOMAIN Static THEN name ELSE "null"

Getpwuid(uid) == IF uid = SB_UID THEN "sandbox" ELSE IF uid = 0 THEN "root" ELSE "null"

VARIABLES
    sb_enabled,
    pw   \* the last answer of getpwnam_r or getpwuid_r

NoEntry(code) == [code |-> code, who |-> "null", off |-> <<>>, uid |-> 0, gid |-> 0, buflen |-> 0]

PreloadInit == sb_enabled = FALSE /\ pw = NoEntry(0)

EnableSandbox == sb_enabled' = TRUE /\ UNCHANGED pw

\* getuid, geteuid, getgid, getegid
GetId(fn) == IF fn \in {"getuid", "geteuid"} THEN SB_UID ELSE SB_GID

\* The entry is copied to the caller's buffer, which must have room for it.
Answer(who, buflen) ==
    IF buflen < Account[who].size THEN NoEntry(ERANGE)
    ELSE [code |-> 0, who |-> who, off |-> Account[who].off,
          uid |-> Account[who].uid, gid |-> Account[who].gid, buflen |-> buflen]

GetpwnamR(name, buflen) ==
    /\ pw' = IF name \in DOMAIN Account THEN Answer(name, buflen) ELSE NoEntry(0)
    /\ UNCHANGED sb_enabled

GetpwuidR(uid, buflen) ==
    /\ pw' = IF uid = SB_UID THEN Answer("sandbox", buflen)
             ELSE IF uid = 0 THEN Answer("root", buflen) ELSE NoEntry(0)
    /\ UNCHANGED sb_enabled

-----------------------------------------------------------------------------
\* The pointers of an entry lead to its own strings, each with its terminator
\* inside the buffer of the caller, however tight the buffer is; and all look-ups
\* agree: getpwnam and getpwuid lead from the name and the uid of the entry to
\* a static entry with the same ids and strings.
PwEntryIsWhole ==
    pw.who # "null" =>
        LET end(j) == pw.off[j] + Account[pw.who].len[j] + 1 IN
        /\ pw.off[1] = 0 /\ \A j \in 1 .. 4 : pw.off[j + 1] = end(j)
        /\ end(5) <= pw.buflen
        /\ Getpwnam(pw.who) = pw.who /\ Getpwuid(pw.uid) = pw.who
        /\ Static[pw.who] = [uid |-> pw.uid, gid |-> pw.gid, len |-> Account[pw.who].len]
===============================================================================
