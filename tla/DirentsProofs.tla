---------------------------- MODULE DirentsProofs ----------------------------
(***************************************************************************)
(* Proofs about Dirents, for every directory, every size of the buffer and *)
(* both layouts of struct linux_dirent.                                    *)
(***************************************************************************)
EXTENDS Dirents, TLAPS

\* $off counts what readdir has returned and the page has room for.
Positions ==
    /\ pc = "skip" => pos <= off /\ page = <<>>
    /\ pc = "scan" => pos = off

EndBefore(k) == IF k = 1 THEN 0 ELSE ends[k - 1]

\* $used grows by the size of each entry and never passes the caller's size.
Counted ==
    /\ Len(ends) = Len(page)
    /\ \A k \in 1 .. Len(page) :
         ends[k] = EndBefore(k) + Misc + dir[page[k]].len /\ ends[k] <= size
    /\ used = IF page = <<>> THEN 0 ELSE ends[Len(page)]

\* The stub's off is the host's $used after as many entries.
Agreed ==
    /\ pc # "copy" => i = 0 /\ end = 0
    /\ pc = "copy" => page # <<>> /\ end = EndBefore(i + 1)

\* What is delivered and what is still on the page, in order.
Ordered ==
    /\ \A j, k \in 1 .. Len(delivered) : j < k => delivered[j] < delivered[k]
    /\ \A j \in 1 .. Len(delivered) : delivered[j] <= off /\ Shown(dir[delivered[j]])
    /\ pc # "idle" =>
         /\ \A j, k \in 1 .. Len(page) : j < k => page[j] < page[k]
         /\ \A k \in 1 .. Len(page) : page[k] <= off /\ Shown(dir[page[k]])
         /\ \A j \in 1 .. Len(delivered), k \in i + 1 .. Len(page) : delivered[j] < page[k]

Got(e) == \E j \in 1 .. Len(delivered) : delivered[j] = e
Pending(e) == pc # "idle" /\ \E k \in i + 1 .. Len(page) : page[k] = e

\* No shown entry behind $off is lost.
Complete == \A e \in 1 .. off : Shown(dir[e]) => Got(e) \/ Pending(e)

\* The inductive invariant.
IInv ==
    /\ TypeOK /\ Positions /\ Counted /\ Agreed /\ PagesFit
    /\ Ordered /\ Complete /\ EndMeansEnd

\* The parts of it about sizes and about entries.
Sizes == TypeOK /\ Positions /\ Counted /\ Agreed /\ PagesFit
Entries == Ordered /\ Complete

-----------------------------------------------------------------------------

\* An entry's name has a length.
LEMMA LengthOfEntry ==
    ASSUME TypeOK, NEW e \in 1 .. Len(dir)
    PROVE  dir[e] \in Entry /\ dir[e].len \in Nat
<1>1. dir[e] \in Entry
  BY DEF TypeOK
<1> QED BY <1>1 DEF Entry

\* What the invariant says of the entries of the page during a call.
LEMMA OnPage ==
    ASSUME IInv, pc # "idle"
    PROVE  /\ Len(page) \in Nat
           /\ \A k \in 1 .. Len(page) :
                page[k] \in 1 .. Len(dir) /\ page[k] <= off /\ Shown(dir[page[k]])
           /\ \A j, k \in 1 .. Len(page) : j < k => page[j] < page[k]
           /\ \A j \in 1 .. Len(delivered), k \in i + 1 .. Len(page) : delivered[j] < page[k]
<1>1. Len(page) \in Nat /\ \A k \in 1 .. Len(page) : page[k] \in 1 .. Len(dir)
  BY DEF IInv, TypeOK
<1>2. /\ \A k \in 1 .. Len(page) : page[k] <= off /\ Shown(dir[page[k]])
      /\ \A j, k \in 1 .. Len(page) : j < k => page[j] < page[k]
      /\ \A j \in 1 .. Len(delivered), k \in i + 1 .. Len(page) : delivered[j] < page[k]
  BY DEF IInv, Ordered
<1> QED BY <1>1, <1>2

\* What it says of the entries that are delivered.
LEMMA OnDelivered ==
    ASSUME IInv
    PROVE  /\ Len(delivered) \in Nat
           /\ \A j \in 1 .. Len(delivered) :
                delivered[j] \in 1 .. Len(dir) /\ delivered[j] <= off /\ Shown(dir[delivered[j]])
           /\ \A j, k \in 1 .. Len(delivered) : j < k => delivered[j] < delivered[k]
<1>1. Len(delivered) \in Nat /\ \A j \in 1 .. Len(delivered) : delivered[j] \in 1 .. Len(dir)
  BY DEF IInv, TypeOK
<1>2. /\ \A j \in 1 .. Len(delivered) : delivered[j] <= off /\ Shown(dir[delivered[j]])
      /\ \A j, k \in 1 .. Len(delivered) : j < k => delivered[j] < delivered[k]
  BY DEF IInv, Ordered
<1> QED BY <1>1, <1>2

\* The first call finds nothing used and nothing delivered.
LEMMA InitInv == Init => IInv
<1> SUFFICES ASSUME Init PROVE IInv
  OBVIOUS
<1>1. dir \in Seq(Entry)
  BY DirectoryAssumption DEF Init
<1> QED
  BY <1>1 DEF Init, IInv, TypeOK, Positions, Counted, Agreed, PagesFit, Ordered,
              Complete, EndMeansEnd

LEMMA SeekKeepsInv ==
    ASSUME IInv, Seek
    PROVE  IInv'
<1>1. Sizes'
  <2>1. TypeOK'
    <3>1. Len(dir) \in Nat /\ Len(dir') = Len(dir)
      BY DEF Seek, IInv, TypeOK
    <3> QED BY <3>1 DEF Seek, IInv, TypeOK, stubVars
  <2>2. Counted'
    BY DEF Seek, IInv, Counted, EndBefore
  <2> QED BY <2>1, <2>2 DEF Seek, IInv, Sizes, Positions, Agreed, PagesFit, stubVars
<1>2. Entries'
  BY DEF Seek, Entries, Ordered, Complete
<1>3. EndMeansEnd'
  BY DEF Seek, EndMeansEnd
<1> QED BY <1>1, <1>2, <1>3 DEF IInv, Sizes, Entries

LEMMA GetdentsKeepsInv ==
    ASSUME IInv, NEW s \in Size, Getdents(s)
    PROVE  IInv'
<1>1. s \in Nat
  BY SizeAssumption
<1>2. Sizes'
  BY <1>1 DEF Getdents, IInv, Sizes, TypeOK, Positions, Counted, Agreed, PagesFit, stubVars
<1>3. Ordered'
  <2>1. Len(page') = 0 /\ i' = 0 /\ UNCHANGED <<dir, off, delivered>>
    BY DEF Getdents, IInv, Agreed, stubVars
  <2> QED BY <2>1 DEF IInv, Ordered, Shown, CheckSubdir, CheckFile
<1>4. Complete'
  BY DEF Getdents, IInv, Complete, Got, Pending, Shown, CheckSubdir, CheckFile, stubVars
<1>5. EndMeansEnd'
  BY DEF Getdents, EndMeansEnd
<1> QED BY <1>2, <1>3, <1>4, <1>5 DEF IInv, Sizes

LEMMA SkipKeepsInv ==
    ASSUME IInv, Skip
    PROVE  IInv'
<1>1. /\ pc = "skip" /\ pc' \in {"skip", "scan"}
      /\ UNCHANGED <<dir, off, page, used, ends, size, stubVars, ret, delivered>>
  BY DEF Skip
<1>2. Sizes'
  BY <1>1 DEF Skip, IInv, Sizes, TypeOK, Positions, Counted, EndBefore, Agreed, PagesFit, stubVars
<1>3. Ordered'
  BY <1>1 DEF IInv, Ordered, Shown, CheckSubdir, CheckFile, stubVars
<1>4. Complete'
  BY <1>1 DEF IInv, Complete, Got, Pending, Shown, CheckSubdir, CheckFile, stubVars
<1>5. EndMeansEnd'
  BY <1>1 DEF EndMeansEnd
<1> QED BY <1>2, <1>3, <1>4, <1>5 DEF IInv, Sizes

LEMMA HideKeepsInv ==
    ASSUME IInv, Hide
    PROVE  IInv'
<1>1. /\ pc = "scan" /\ off' = off + 1 /\ ~Shown(dir[off + 1]) /\ off < Len(dir)
      /\ UNCHANGED <<dir, page, used, ends, size, pc, stubVars, ret, delivered>>
  BY DEF Hide, IInv, Positions
<1>2. Sizes'
  BY <1>1 DEF Hide, IInv, Sizes, TypeOK, Positions, Counted, EndBefore, Agreed, PagesFit, stubVars
<1>3. Ordered'
  BY <1>1 DEF IInv, TypeOK, Ordered, Shown, CheckSubdir, CheckFile, stubVars
<1>4. Complete'
  <2> SUFFICES ASSUME NEW e \in 1 .. off', Shown(dir[e])
               PROVE  (Got(e) \/ Pending(e))'
    BY <1>1 DEF Complete, Shown, CheckSubdir, CheckFile
  <2>1. e \in 1 .. off
    BY <1>1 DEF IInv, TypeOK
  <2> QED BY <1>1, <2>1 DEF IInv, Complete, Got, Pending, stubVars
<1>5. EndMeansEnd'
  BY <1>1 DEF EndMeansEnd
<1> QED BY <1>2, <1>3, <1>4, <1>5 DEF IInv, Sizes

\* Append at the end of a sequence.
LEMMA AppendElements ==
    ASSUME NEW S, NEW seq \in Seq(S), NEW x \in S
    PROVE  /\ Append(seq, x) \in Seq(S) /\ Len(Append(seq, x)) = Len(seq) + 1
           /\ Append(seq, x) # <<>>
           /\ \A k \in 1 .. Len(seq) : Append(seq, x)[k] = seq[k]
           /\ Append(seq, x)[Len(seq) + 1] = x
OBVIOUS

LEMMA ListKeepsInv ==
    ASSUME IInv, List
    PROVE  IInv'
<1> DEFINE here == off + 1
           top == used + Misc + dir[here].len
<1>1. /\ pc = "scan" /\ pc' = "scan" /\ pos = off /\ off < Len(dir)
      /\ Shown(dir[here]) /\ Fits(dir[here])
      /\ pos' = here /\ off' = here /\ page' = Append(page, here)
      /\ used' = top /\ ends' = Append(ends, top)
      /\ UNCHANGED <<dir, size, stubVars, ret, delivered>>
  BY DEF List, IInv, Positions
<1>2. here \in 1 .. Len(dir) /\ off \in Nat
  BY <1>1 DEF IInv, TypeOK
<1>3. dir[here].len \in Nat /\ Misc \in Nat /\ used \in Nat /\ top \in Nat
  BY <1>2, LengthOfEntry, SizeAssumption DEF IInv, TypeOK
<1>4. /\ page' \in Seq(1 .. Len(dir)) /\ Len(page') = Len(page) + 1 /\ page' # <<>>
      /\ \A k \in 1 .. Len(page) : page'[k] = page[k]
      /\ page'[Len(page) + 1] = here
  <2> HIDE DEF here
  <2>1. page \in Seq(1 .. Len(dir))
    BY DEF IInv, TypeOK
  <2> QED BY <1>1, <1>2, <2>1, AppendElements
<1>5. /\ ends' \in Seq(Nat) /\ Len(ends') = Len(ends) + 1
      /\ \A k \in 1 .. Len(ends) : ends'[k] = ends[k]
      /\ ends'[Len(ends) + 1] = top
  BY <1>1, <1>3, AppendElements DEF IInv, TypeOK
<1>6. Len(page) \in Nat /\ Len(ends) = Len(page) /\ i = 0 /\ i' = 0
  BY <1>1 DEF IInv, TypeOK, Counted, Agreed, stubVars
<1>7. TypeOK'
  BY <1>1, <1>2, <1>3, <1>4, <1>5, <1>6 DEF IInv, TypeOK, stubVars
<1>8. Counted'
  <2>1. Len(ends') = Len(page') /\ used' = ends'[Len(page')]
    BY <1>1, <1>4, <1>5, <1>6
  <2>2. ASSUME NEW k \in 1 .. Len(page')
        PROVE  ends'[k] = EndBefore(k)' + Misc + dir[page'[k]].len /\ ends'[k] <= size
    <3>1. CASE k \in 1 .. Len(page)
      <4>1. ends'[k] = ends[k] /\ page'[k] = page[k]
        BY <1>4, <1>5, <1>6, <3>1
      <4>2. EndBefore(k)' = EndBefore(k)
        BY <1>5, <1>6, <3>1 DEF EndBefore
      <4> QED BY <3>1, <4>1, <4>2 DEF IInv, Counted
    <3>2. CASE k = Len(page) + 1
      <4>1. EndBefore(k)' = used
        <5>1. CASE Len(page) = 0
          BY <1>6, <3>2, <5>1 DEF IInv, TypeOK, Counted, EndBefore
        <5>2. CASE Len(page) # 0
          <6>1. page # <<>> /\ used = ends[Len(page)]
            BY <5>2 DEF IInv, Counted
          <6>2. ends'[Len(page)] = ends[Len(page)]
            BY <1>5, <1>6, <5>2
          <6> QED BY <1>6, <3>2, <5>2, <6>1, <6>2 DEF EndBefore
        <5> QED BY <5>1, <5>2
      <4>2. ends'[k] = top /\ page'[k] = here
        BY <1>4, <1>5, <1>6, <3>2
      <4>3. top <= size
        BY <1>1, <1>3 DEF Fits
      <4> QED BY <4>1, <4>2, <4>3
    <3> QED BY <1>4, <1>6, <3>1, <3>2
  <2> QED BY <1>1, <1>4, <2>1, <2>2 DEF Counted
<1>9. (Positions /\ Agreed /\ PagesFit)'
  BY <1>1, <1>6 DEF IInv, Positions, Agreed, PagesFit, stubVars
<1>10. Ordered'
  <2>1. ASSUME NEW j \in 1 .. Len(page'), NEW k \in 1 .. Len(page'), j < k
        PROVE  page'[j] < page'[k]
    <3>1. j \in 1 .. Len(page) /\ page'[j] = page[j] /\ page[j] <= off /\ page[j] \in Int
      <4>1. j \in 1 .. Len(page)
        BY <1>4, <1>6, <2>1
      <4> QED BY <1>1, <1>4, <4>1, OnPage
    <3>2. CASE k \in 1 .. Len(page)
      BY <1>1, <1>4, <2>1, <3>1, <3>2, OnPage
    <3>3. CASE k = Len(page) + 1
      BY <1>2, <1>4, <3>1, <3>3
    <3> QED BY <1>4, <1>6, <3>2, <3>3
  <2>2. ASSUME NEW k \in 1 .. Len(page')
        PROVE  page'[k] <= off' /\ Shown(dir[page'[k]])
    <3>1. CASE k \in 1 .. Len(page)
      BY <1>1, <1>2, <1>4, <3>1, OnPage
    <3>2. CASE k = Len(page) + 1
      BY <1>1, <1>2, <1>4, <3>2
    <3> QED BY <1>4, <1>6, <3>1, <3>2
  <2>3. ASSUME NEW j \in 1 .. Len(delivered), NEW k \in 1 .. Len(page')
        PROVE  delivered[j] < page'[k]
    <3>1. delivered[j] \in Int /\ delivered[j] <= off
      BY OnDelivered
    <3>2. CASE k \in 1 .. Len(page)
      BY <1>1, <1>4, <1>6, <3>2, OnPage
    <3>3. CASE k = Len(page) + 1
      BY <1>2, <1>4, <3>1, <3>3
    <3> QED BY <1>4, <1>6, <3>2, <3>3
  <2>4. /\ \A j, k \in 1 .. Len(delivered) : j < k => delivered[j] < delivered[k]
        /\ \A j \in 1 .. Len(delivered) : delivered[j] <= off' /\ Shown(dir[delivered[j]])
    <3>1. off' = off + 1
      BY <1>1
    <3>2. ASSUME NEW j \in 1 .. Len(delivered)
          PROVE  delivered[j] <= off' /\ Shown(dir[delivered[j]])
      <4>1. delivered[j] \in Int /\ delivered[j] <= off /\ Shown(dir[delivered[j]])
        BY OnDelivered
      <4> QED BY <1>2, <3>1, <4>1
    <3> QED BY <3>2, OnDelivered
  <2> QED BY <1>1, <1>6, <2>1, <2>2, <2>3, <2>4 DEF Ordered, Shown, CheckSubdir, CheckFile
<1>11. Complete'
  <2> SUFFICES ASSUME NEW e \in 1 .. off', Shown(dir[e])
               PROVE  (Got(e) \/ Pending(e))'
    BY <1>1 DEF Complete, Shown, CheckSubdir, CheckFile
  <2>1. CASE e = here
    BY <1>1, <1>4, <1>6, <2>1 DEF Pending
  <2>2. CASE e \in 1 .. off
    BY <1>1, <1>4, <1>6, <2>2 DEF IInv, Complete, Got, Pending
  <2> QED BY <1>1, <1>2, <2>1, <2>2
<1>12. EndMeansEnd'
  BY <1>1 DEF EndMeansEnd
<1> QED BY <1>7, <1>8, <1>9, <1>10, <1>11, <1>12 DEF IInv

LEMMA AnswerKeepsInv ==
    ASSUME IInv, Answer
    PROVE  IInv'
<1>1. /\ pc = "scan" /\ pos = off
      /\ UNCHANGED <<dir, off, page, used, ends, size, stubVars, delivered>>
      /\ \/ page = <<>> /\ pc' = "idle" /\ ret' = 0
         \/ page # <<>> /\ pc' = "copy" /\ UNCHANGED ret
  BY DEF Answer, IInv, Positions
<1>2. i = 0 /\ end = 0
  BY <1>1 DEF IInv, Agreed
<1>3. Sizes'
  <2>1. pos' \in 0 .. Len(dir)
    BY DEF Answer, IInv, TypeOK
  <2>2. TypeOK'
    BY <1>1, <2>1 DEF IInv, TypeOK, stubVars
  <2>3. Counted'
    BY <1>1 DEF IInv, Counted, EndBefore
  <2> QED
    BY <1>1, <1>2, <2>2, <2>3 DEF Sizes, Positions, EndBefore, Agreed, PagesFit, stubVars
<1>4. Ordered'
  BY <1>1 DEF IInv, Ordered, Shown, CheckSubdir, CheckFile, stubVars
<1>5. Complete'
  <2> SUFFICES ASSUME NEW e \in 1 .. off, Shown(dir[e])
               PROVE  (Got(e) \/ Pending(e))'
    BY <1>1 DEF Complete, Shown, CheckSubdir, CheckFile
  <2>1. Got(e) \/ \E k \in i + 1 .. Len(page) : page[k] = e
    BY DEF IInv, Complete, Pending
  <2> QED BY <1>1, <1>2, <2>1 DEF Got, Pending, stubVars
<1>6. EndMeansEnd'
  <2>1. CASE page # <<>>
    BY <1>1, <2>1 DEF EndMeansEnd
  <2>2. CASE page = <<>>
    <3>1. used = 0
      BY <2>2 DEF IInv, Counted
    <3>2. CASE off = Len(dir)
      BY <1>1, <3>2 DEF EndMeansEnd
    <3>3. CASE off < Len(dir) /\ Shown(dir[off + 1]) /\ ~Fits(dir[off + 1])
      <4>1. dir[off + 1].len \in Nat /\ size \in Nat /\ Misc \in Nat
        BY <3>3, LengthOfEntry, SizeAssumption DEF IInv, TypeOK
      <4>2. Misc + dir[off + 1].len > size
        BY <3>1, <3>3, <4>1 DEF Fits
      <4> QED BY <1>1, <3>3, <4>2 DEF EndMeansEnd, Shown, CheckSubdir, CheckFile
    <3> QED BY <1>1, <3>2, <3>3 DEF Answer
  <2> QED BY <2>1, <2>2
<1> QED BY <1>3, <1>4, <1>5, <1>6 DEF IInv, Sizes

\* The host has counted the entry the stub is about to copy.
LEMMA CopyFits ==
    ASSUME IInv, pc = "copy", i < Len(page)
    PROVE  /\ i + 1 \in 1 .. Len(page) /\ Reclen(i + 1) \in Nat \ {0}
           /\ end + Reclen(i + 1) = ends[i + 1] /\ ends[i + 1] <= size
<1>1. i + 1 \in 1 .. Len(page)
  BY DEF IInv, TypeOK
<1>2. page[i + 1] \in 1 .. Len(dir)
  BY <1>1 DEF IInv, TypeOK
<1>3. dir[page[i + 1]].len \in Nat
  BY <1>2, LengthOfEntry DEF IInv
<1>4. Reclen(i + 1) \in Nat \ {0}
  BY <1>3, SizeAssumption DEF Reclen
<1>5. /\ ends[i + 1] = EndBefore(i + 1) + Misc + dir[page[i + 1]].len
      /\ ends[i + 1] <= size /\ end = EndBefore(i + 1)
  BY <1>1 DEF IInv, Counted, Agreed
<1>6. end \in Nat
  BY DEF IInv, TypeOK
<1> QED BY <1>1, <1>3, <1>4, <1>5, <1>6, SizeAssumption DEF Reclen

LEMMA CopyKeepsInv ==
    ASSUME IInv, CopyEntry
    PROVE  IInv'
<1> DEFINE n == i + 1
<1>1. pc = "copy" /\ i < Len(page) /\ UNCHANGED <<dir, hostVars, size, ret>>
  BY DEF CopyEntry
<1>2. n \in 1 .. Len(page) /\ end + Reclen(n) = ends[n] /\ ends[n] <= size
  BY <1>1, CopyFits
<1>3. end \in Nat /\ size \in Nat /\ ends[n] \in Nat /\ page[n] \in 1 .. Len(dir) /\ i \in Nat
      /\ Len(page) \in Nat
  <2>1. /\ end \in Nat /\ size \in Nat /\ i \in Nat /\ Len(page) \in Nat
        /\ ends \in Seq(Nat) /\ page \in Seq(1 .. Len(dir))
    BY DEF IInv, TypeOK
  <2>2. Len(ends) = Len(page)
    BY DEF IInv, Counted
  <2>3. page[n] \in 1 .. Len(dir)
    BY <1>2, <2>1
  <2>4. ends[n] \in Nat
    BY <1>2, <2>1, <2>2
  <2> QED BY <2>1, <2>3, <2>4
<1>4. i' = n /\ end' = ends[n] /\ delivered' = Append(delivered, page[n]) /\ pc' = "copy"
  BY <1>1, <1>2, <1>3 DEF CopyEntry
<1>5. /\ delivered' \in Seq(1 .. Len(dir)) /\ Len(delivered') = Len(delivered) + 1
      /\ \A k \in 1 .. Len(delivered) : delivered'[k] = delivered[k]
      /\ delivered'[Len(delivered) + 1] = page[n] /\ Len(delivered) \in Nat
  BY <1>3, <1>4, AppendElements DEF IInv, TypeOK
<1>6. Sizes'
  <2>1. TypeOK'
    BY <1>1, <1>2, <1>3, <1>4, <1>5 DEF IInv, TypeOK, hostVars
  <2>2. Counted'
    BY <1>1 DEF IInv, Counted, EndBefore, hostVars
  <2>3. Agreed'
    BY <1>1, <1>2, <1>3, <1>4 DEF IInv, Agreed, EndBefore, hostVars
  <2> QED BY <1>4, <2>1, <2>2, <2>3 DEF Sizes, Positions, PagesFit
<1>7. Ordered'
  <2>1. ASSUME NEW j \in 1 .. Len(delivered'), NEW k \in 1 .. Len(delivered'), j < k
        PROVE  delivered'[j] < delivered'[k]
    <3>1. j \in 1 .. Len(delivered) /\ delivered'[j] = delivered[j]
      BY <1>5, <2>1
    <3>2. CASE k \in 1 .. Len(delivered)
      BY <1>5, <2>1, <3>1, <3>2, OnDelivered
    <3>3. CASE k = Len(delivered) + 1
      BY <1>1, <1>2, <1>3, <1>5, <3>1, <3>3, OnPage
    <3> QED BY <1>5, <3>2, <3>3
  <2>2. ASSUME NEW j \in 1 .. Len(delivered')
        PROVE  delivered'[j] <= off /\ Shown(dir[delivered'[j]])
    <3>1. CASE j \in 1 .. Len(delivered)
      BY <1>5, <3>1, OnDelivered
    <3>2. CASE j = Len(delivered) + 1
      BY <1>1, <1>2, <1>5, <3>2, OnPage
    <3> QED BY <1>5, <3>1, <3>2
  <2>3. ASSUME NEW j \in 1 .. Len(delivered'), NEW k \in n + 1 .. Len(page)
        PROVE  delivered'[j] < page[k]
    <3>1. k \in i + 1 .. Len(page) /\ k \in 1 .. Len(page) /\ n < k
      BY <1>3
    <3>2. CASE j \in 1 .. Len(delivered)
      BY <1>1, <1>5, <3>1, <3>2, OnPage
    <3>3. CASE j = Len(delivered) + 1
      BY <1>1, <1>2, <1>5, <3>1, <3>3, OnPage
    <3> QED BY <1>5, <3>2, <3>3
  <2>4. /\ \A j, k \in 1 .. Len(page) : j < k => page[j] < page[k]
        /\ \A k \in 1 .. Len(page) : page[k] <= off /\ Shown(dir[page[k]])
    BY <1>1, OnPage
  <2>5. UNCHANGED <<dir, off, page>>
    BY <1>1 DEF hostVars
  <2> QED BY <1>4, <2>1, <2>2, <2>3, <2>4, <2>5 DEF Ordered, Shown, CheckSubdir, CheckFile
<1>8. Complete'
  <2>1. UNCHANGED <<dir, off, page>>
    BY <1>1 DEF hostVars
  <2> SUFFICES ASSUME NEW e \in 1 .. off, Shown(dir[e])
               PROVE  (Got(e) \/ Pending(e))'
    BY <2>1 DEF Complete, Shown, CheckSubdir, CheckFile
  <2>2. CASE Got(e)
    BY <1>5, <2>2 DEF Got
  <2>3. CASE Pending(e)
    <3>1. PICK k \in i + 1 .. Len(page) : page[k] = e
      BY <2>3 DEF Pending
    <3>2. CASE k = n
      BY <1>5, <3>1, <3>2 DEF Got
    <3>3. CASE k # n
      <4>1. k \in n + 1 .. Len(page)
        BY <1>3, <3>3
      <4> QED BY <1>4, <2>1, <3>1, <4>1 DEF Pending
    <3> QED BY <3>2, <3>3
  <2> QED BY <2>2, <2>3 DEF IInv, Complete
<1>9. EndMeansEnd'
  BY <1>4 DEF EndMeansEnd
<1> QED BY <1>6, <1>7, <1>8, <1>9 DEF IInv, Sizes

\* A page that is not empty takes some bytes: its return is not 0.
LEMMA ReturnKeepsInv ==
    ASSUME IInv, Return
    PROVE  IInv'
<1>1. /\ pc = "copy" /\ i = Len(page) /\ pc' = "idle" /\ ret' = end /\ i' = 0 /\ end' = 0
      /\ UNCHANGED <<dir, hostVars, size, delivered>>
  BY DEF Return
<1>2. end \in Nat /\ Len(page) \in Nat
  BY DEF IInv, TypeOK
<1>3. Sizes'
  <2>1. TypeOK'
    BY <1>1, <1>2 DEF IInv, TypeOK, hostVars
  <2>2. Counted'
    BY <1>1 DEF IInv, Counted, EndBefore, hostVars
  <2> QED BY <1>1, <2>1, <2>2 DEF Sizes, Positions, Agreed, PagesFit
<1>4. Ordered'
  BY <1>1 DEF IInv, Ordered, Shown, CheckSubdir, CheckFile, hostVars
<1>5. Complete'
  <2>1. UNCHANGED <<dir, off, delivered>>
    BY <1>1 DEF hostVars
  <2> SUFFICES ASSUME NEW e \in 1 .. off, Shown(dir[e])
               PROVE  Got(e)'
    BY <2>1 DEF Complete, Shown, CheckSubdir, CheckFile
  <2>2. ~Pending(e)
    BY <1>1, <1>2 DEF Pending
  <2> QED BY <2>1, <2>2 DEF IInv, Complete, Got
<1>6. EndMeansEnd'
  <2> DEFINE n == Len(page)
  <2>1. page # <<>> /\ end = EndBefore(n + 1)
    BY <1>1 DEF IInv, Agreed
  <2>2. n \in 1 .. n
    BY <1>2, <2>1 DEF IInv, TypeOK
  <2>3. end = ends[n]
    BY <2>1, <2>2 DEF EndBefore
  <2>4. ends[n] = EndBefore(n) + Misc + dir[page[n]].len
    BY <2>2 DEF IInv, Counted
  <2>5. EndBefore(n) \in Nat
    BY <2>2 DEF EndBefore, IInv, TypeOK, Counted
  <2>6. dir[page[n]].len \in Nat
    <3>1. page[n] \in 1 .. Len(dir)
      BY <2>2 DEF IInv, TypeOK
    <3> QED BY <3>1, LengthOfEntry DEF IInv
  <2>7. end # 0
    BY <2>3, <2>4, <2>5, <2>6, SizeAssumption
  <2> QED BY <1>1, <2>7 DEF EndMeansEnd
<1> QED BY <1>3, <1>4, <1>5, <1>6 DEF IInv, Sizes

\* Every step keeps the invariant.
LEMMA Inductive == Spec => []IInv
<1>1. IInv /\ [Next]_vars => IInv'
  <2> SUFFICES ASSUME IInv, [Next]_vars PROVE IInv'
    OBVIOUS
  <2>1. CASE Seek
    BY <2>1, SeekKeepsInv
  <2>2. CASE \E s \in Size : Getdents(s)
    BY <2>2, GetdentsKeepsInv
  <2>3. CASE Skip
    BY <2>3, SkipKeepsInv
  <2>4. CASE Hide
    BY <2>4, HideKeepsInv
  <2>5. CASE List
    BY <2>5, ListKeepsInv
  <2>6. CASE Answer
    BY <2>6, AnswerKeepsInv
  <2>7. CASE CopyEntry
    BY <2>7, CopyKeepsInv
  <2>8. CASE Return
    BY <2>8, ReturnKeepsInv
  <2>9. CASE UNCHANGED vars
    BY <2>9 DEF vars, hostVars, stubVars, IInv, TypeOK, Positions, Counted, EndBefore, Agreed,
                PagesFit, Ordered, Complete, Got, Pending, EndMeansEnd, Shown, CheckSubdir, CheckFile
  <2> QED BY <2>1, <2>2, <2>3, <2>4, <2>5, <2>6, <2>7, <2>8, <2>9 DEF Next
<1> QED BY InitInv, <1>1, PTL DEF Spec

-----------------------------------------------------------------------------

\* For every directory, the handle and both sides of a getdents call keep
\* their types.
THEOREM TypeCorrect == Spec => []TypeOK
<1>1. IInv => TypeOK
  BY DEF IInv
<1> QED BY Inductive, <1>1, PTL

\* For every directory and buffer, the stub of sbio.c never finds an entry
\* behind the end of the buffer: what DirFD::getdents counted is what it needs.
THEOREM StubNeverExits == Spec => []PagesFit
<1>1. IInv => PagesFit
  BY DEF IInv
<1> QED BY Inductive, <1>1, PTL

\* For every directory and every sequence of getdents calls with buffers of
\* any size, each shown entry comes exactly once and in order.
THEOREM DeliveredOnce == Spec => []EachEntryOnce
<1>1. IInv => EachEntryOnce
  <2> SUFFICES ASSUME IInv, pc = "idle" PROVE EachEntryOnce
    BY DEF EachEntryOnce
  <2>1. DOMAIN delivered = 1 .. Len(delivered)
    BY DEF IInv, TypeOK
  <2> QED BY <2>1 DEF IInv, Ordered, Complete, Got, Pending, EachEntryOnce
<1> QED BY Inductive, <1>1, PTL

\* For every directory, getdents returns 0 at its end, or where the next entry
\* is larger than the whole buffer.
THEOREM ZeroIsTheEnd == Spec => []EndMeansEnd
<1>1. IInv => EndMeansEnd
  BY DEF IInv
<1> QED BY Inductive, <1>1, PTL

===============================================================================
