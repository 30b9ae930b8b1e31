------------------------------- MODULE Dirents -------------------------------
(***************************************************************************)
(* Reading a directory: DirFD::getdents in the host chooses the entries of *)
(* a page, the getdents stub of sbio.c lays them out in the caller's       *)
(* buffer.  Each side computes the sizes for itself.  A step is one call   *)
(* of readdir or one turn of the stub's loop.  The entries reach the stub  *)
(* where it looks for them, in a member data of the value that trampoline  *)
(* returns; a reply without one ends the process (HostCalls).              *)
(***************************************************************************)
EXTENDS Integers, Sequences

CONSTANTS
    Directory,  \* directories: sequences of [len, dir, shown], the length of a
                \* name, is it a directory, does the node's filter show it
    Size,       \* sizes of the caller's buffer
    Misc        \* offsetof(struct linux_dirent, d_name) + 2: 20, or 12 on i386

Entry == [len : Nat, dir : BOOLEAN, shown : BOOLEAN]

ASSUME DirectoryAssumption == Directory \subseteq Seq(Entry)
ASSUME SizeAssumption == Size \subseteq Nat /\ Misc \in Nat \ {0}

VARIABLES
    dir,        \* the directory, as readdir lists it
    pos,        \* position of the handle
    off,        \* $off: the entries that are done with
    page, used, \* $arr (as positions in dir) and $used
    size,       \* the size of the buffer of the current call
    pc,         \* "idle", "skip" and "scan" (the host), "copy" (the stub), "exited"
    i, end,     \* the stub's i and off
    ret,        \* what the last call returned
    ends,       \* history: $used after each entry of the page
    delivered   \* history: the entries the caller got since the last rewind

hostVars == <<pos, off, page, used, ends>>
stubVars == <<i, end>>
vars == <<dir, hostVars, size, pc, stubVars, ret, delivered>>

Init ==
    /\ dir \in Directory /\ pos = 0 /\ off = 0 /\ page = <<>> /\ used = 0
    /\ size = 0 /\ pc = "idle" /\ i = 0 /\ end = 0 /\ ret = 1
    /\ ends = <<>> /\ delivered = <<>>

-----------------------------------------------------------------------------
(* DirFD *)

\* lseek(fd, 0, SEEK_SET); every other seek is refused.
Seek ==
    /\ pc = "idle"
    /\ pos' = 0 /\ off' = 0 /\ delivered' = <<>> /\ ret' = 1
    /\ UNCHANGED <<dir, page, used, size, pc, stubVars, ends>>

\* Mutant of Getdents: $used goes on from the previous page.
GetdentsUsedKept(s) ==
    /\ pc = "idle"
    /\ size' = s /\ pc' = "skip" /\ pos' = 0 /\ page' = <<>> /\ ends' = <<>>
    /\ UNCHANGED <<dir, off, used, stubVars, ret, delivered>>

\* The stub sends the size of its buffer and of the fixed part of an entry.
Getdents(s) ==
    /\ pc = "idle"
    /\ size' = s /\ pc' = "skip" /\ pos' = 0 /\ page' = <<>> /\ used' = 0 /\ ends' = <<>>
    /\ UNCHANGED <<dir, off, stubVars, ret, delivered>>

\* Mutant of Skip: one entry too few.
SkipTooFew ==
    /\ pc = "skip"
    /\ \/ pos < off - 1 /\ pos' = pos + 1 /\ UNCHANGED pc
       \/ pos >= off - 1 /\ pc' = "scan" /\ UNCHANGED pos
    /\ UNCHANGED <<dir, off, page, used, ends, size, stubVars, ret, delivered>>

\* The entries of earlier calls are read again.
Skip ==
    /\ pc = "skip"
    /\ \/ pos < off /\ pos' = pos + 1 /\ UNCHANGED pc
       \/ pos = off /\ pc' = "scan" /\ UNCHANGED pos
    /\ UNCHANGED <<dir, off, page, used, ends, size, stubVars, ret, delivered>>

CheckSubdir(e) == e.dir /\ e.shown
CheckFile(e) == ~e.dir /\ e.shown
Shown(e) == CheckSubdir(e) \/ CheckFile(e)

\* Mutant of Fits: the fixed part of the entry is not counted.
FitsWithoutStruct(e) == used + e.len <= size

Fits(e) == used + Misc + e.len <= size

\* Mutant of Hide: the entry is not counted as done.
HideUncounted ==
    /\ pc = "scan" /\ pos < Len(dir) /\ ~Shown(dir[pos + 1])
    /\ pos' = pos + 1
    /\ UNCHANGED <<dir, off, page, used, ends, size, pc, stubVars, ret, delivered>>

Hide ==
    /\ pc = "scan" /\ pos < Len(dir) /\ ~Shown(dir[pos + 1])
    /\ pos' = pos + 1 /\ off' = off + 1
    /\ UNCHANGED <<dir, page, used, ends, size, pc, stubVars, ret, delivered>>

List ==
    /\ pc = "scan" /\ pos < Len(dir) /\ Shown(dir[pos + 1]) /\ Fits(dir[pos + 1])
    /\ pos' = pos + 1 /\ off' = off + 1
    /\ page' = Append(page, pos + 1)
    /\ used' = used + Misc + dir[pos + 1].len
    /\ ends' = Append(ends, used + Misc + dir[pos + 1].len)
    /\ UNCHANGED <<dir, size, pc, stubVars, ret, delivered>>

\* The end of the directory, or an entry that does not fit.  The handler
\* answers the number of entries; the stub returns at once when it is 0.
Answer ==
    /\ pc = "scan"
    /\ \/ pos = Len(dir) /\ UNCHANGED pos
       \/ pos < Len(dir) /\ Shown(dir[pos + 1]) /\ ~Fits(dir[pos + 1]) /\ pos' = pos + 1
    /\ \/ page = <<>> /\ pc' = "idle" /\ ret' = 0
       \/ page # <<>> /\ pc' = "copy" /\ UNCHANGED ret
    /\ UNCHANGED <<dir, off, page, used, ends, size, stubVars, delivered>>

-----------------------------------------------------------------------------
(* SYS(getdents) *)

Reclen(k) == Misc + dir[page[k]].len

\* One turn of the loop.  An entry behind the end of the buffer "indicates a bug
\* in the parent process" and is exit(EPROTO).
CopyEntry ==
    /\ pc = "copy" /\ i < Len(page)
    /\ IF end + Reclen(i + 1) > size
       THEN pc' = "exited" /\ UNCHANGED <<stubVars, delivered>>
       ELSE /\ i' = i + 1 /\ end' = end + Reclen(i + 1)
            /\ delivered' = Append(delivered, page[i + 1]) /\ UNCHANGED pc
    /\ UNCHANGED <<dir, hostVars, size, ret>>

Return ==
    /\ pc = "copy" /\ i = Len(page)
    /\ pc' = "idle" /\ ret' = end /\ i' = 0 /\ end' = 0
    /\ UNCHANGED <<dir, hostVars, size, delivered>>

-----------------------------------------------------------------------------
Next ==
    \/ Seek \/ (\E s \in Size : Getdents(s)) \/ Skip \/ Hide \/ List \/ Answer
    \/ CopyEntry \/ Return

Spec == Init /\ [][Next]_vars

-----------------------------------------------------------------------------
(* Properties *)

TypeOK ==
    /\ dir \in Seq(Entry) /\ off \in 0 .. Len(dir) /\ pos \in 0 .. Len(dir)
    /\ page \in Seq(1 .. Len(dir)) /\ delivered \in Seq(1 .. Len(dir))
    /\ ends \in Seq(Nat) /\ used \in Nat /\ size \in Nat
    /\ i \in 0 .. Len(page) /\ end \in Nat /\ ret \in Nat
    /\ pc \in {"idle", "skip", "scan", "copy", "exited"}

\* The stub's test for "a bug in the parent process" never fires: what the host
\* counted as fitting is what the stub needs, entry by entry.
PagesFit == pc # "exited"

\* Between calls the caller has every entry up to $off that the filter shows,
\* each exactly once and in order, whatever the sizes of the buffers were.
EachEntryOnce ==
    pc = "idle" =>
        /\ \A j, k \in DOMAIN delivered : j < k => delivered[j] < delivered[k]
        /\ \A e \in 1 .. off : Shown(dir[e]) => \E j \in DOMAIN delivered : delivered[j] = e
        /\ \A j \in DOMAIN delivered : delivered[j] <= off /\ Shown(dir[delivered[j]])

\* A return of 0, which callers take for the end of the directory, is the end:
\* every shown entry was delivered, unless the next one is larger than the
\* caller's whole buffer (where the kernel would answer EINVAL).
EndMeansEnd ==
    pc = "idle" /\ ret = 0 =>
        \/ off = Len(dir)
        \/ off < Len(dir) /\ Shown(dir[off + 1]) /\ Misc + dir[off + 1].len > size

===============================================================================
