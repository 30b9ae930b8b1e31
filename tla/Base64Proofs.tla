----------------------------- MODULE Base64Proofs -----------------------------
(***************************************************************************)
(* Proofs about Base64, for every set of texts.                            *)
(***************************************************************************)
EXTENDS Base64, FiniteSetTheorems, TLAPS

\* Each byte written and each character waiting in buf was paid for by a
\* character consumed, so the buffer of Len(text) + 1 bytes cannot be full.
Paid ==
    /\ verdict = "running" => room = Len(text) + 1 /\ Len(out) + iter <= in
    /\ Len(out) <= room

ErrorWasRead == verdict = "error" => in > 0 /\ text[in] = INVALID

\* The invariant behind the room in the buffer.
RoomInv == DecodeTypeOK /\ Paid /\ ErrorWasRead

-----------------------------------------------------------------------------

\* A full group is three bytes.
LEMMA GroupIsThreeBytes ==
    ASSUME NEW b \in Nat
    PROVE  Group(b) \in Seq(0 .. 255) /\ Len(Group(b)) = 3
<1>1. ByteAt(b, 65536) \in 0 .. 255 /\ ByteAt(b, 256) \in 0 .. 255 /\ ByteAt(b, 1) \in 0 .. 255
  BY DEF ByteAt
<1> QED BY <1>1 DEF Group

\* What is left of a group has fewer bytes than it had characters.
LEMMA RestIsShort ==
    ASSUME buf \in Nat, iter \in 0 .. 3
    PROVE  Rest \in Seq(0 .. 255) /\ Len(Rest) <= iter
<1>1. /\ ByteAt(buf, 1024) \in 0 .. 255 /\ ByteAt(buf, 4) \in 0 .. 255
      /\ ByteAt(buf, 16) \in 0 .. 255
  BY DEF ByteAt
<1>2. CASE iter = 3
  BY <1>1, <1>2 DEF Rest
<1>3. CASE iter = 2
  BY <1>1, <1>3 DEF Rest
<1>4. CASE iter \in {0, 1}
  <2>1. Rest = <<>>
    BY <1>4 DEF Rest
  <2> QED BY <2>1
<1> QED BY <1>2, <1>3, <1>4

\* The collected bits are a number.
LEMMA ShiftedIsNat ==
    ASSUME buf \in Nat
    PROVE  \A ch \in Char : Shifted(ch) \in Nat
BY DEF Shifted, Char

\* A store that fits is made: base64decode does not return 1 there.
LEMMA EmitSucceeds ==
    ASSUME RoomInv, NEW bytes \in Seq(0 .. 255), NEW next, Emit(bytes, next),
           Len(out) + Len(bytes) <= room
    PROVE  /\ out' \in Seq(0 .. 255) /\ Len(out') = Len(out) + Len(bytes)
           /\ buf' = 0 /\ iter' = 0 /\ verdict' = next
<1>1. out' = out \o bytes /\ buf' = 0 /\ iter' = 0 /\ verdict' = next
  <2>1. ~(Len(out) + Len(bytes) > room)
    BY DEF RoomInv, DecodeTypeOK
  <2> QED BY <2>1 DEF Emit
<1> QED BY <1>1 DEF RoomInv, DecodeTypeOK

\* The call, with the buffer that trampoline allocates.
LEMMA StartKeepsRoom ==
    ASSUME NEW input \in Text, StartDecode(input)
    PROVE  RoomInv'
<1>1. input \in Seq(Char)
  BY TextAssumption
<1> QED
  BY <1>1 DEF StartDecode, RoomInv, DecodeTypeOK, Paid, ErrorWasRead

\* One turn of the loop.
LEMMA CharKeepsRoom ==
    ASSUME RoomInv, DecodeChar
    PROVE  RoomInv'
<1> DEFINE c == text[in + 1]
<1>1. /\ verdict = "running" /\ in < Len(text) /\ text' = text /\ room' = room
      /\ in' = IF c = EQUALS THEN Len(text) ELSE in + 1
  BY DEF DecodeChar
<1>2. c \in Char /\ in \in Nat /\ in' \in 0 .. Len(text) /\ in' > in
  <2>1. in \in Nat /\ in + 1 \in 1 .. Len(text) /\ text \in Seq(Char)
    BY <1>1 DEF RoomInv, DecodeTypeOK
  <2>2. c \in Char
    BY <2>1
  <2> QED BY <1>1, <2>1, <2>2
<1>3. room = Len(text) + 1 /\ Len(out) + iter <= in
  BY <1>1 DEF RoomInv, Paid
<1>4. CASE c \in {WHITESPACE, EQUALS} /\ UNCHANGED <<iter, buf, out, verdict>>
  BY <1>1, <1>2, <1>3, <1>4 DEF RoomInv, DecodeTypeOK, Paid, ErrorWasRead
<1>5. CASE c = INVALID /\ verdict' = "error" /\ UNCHANGED <<iter, buf, out>>
  <2>1. in' = in + 1 /\ text'[in'] = INVALID
    BY <1>1, <1>5 DEF INVALID, EQUALS
  <2> QED BY <1>1, <1>2, <1>5, <2>1 DEF RoomInv, DecodeTypeOK, Paid, ErrorWasRead
<1>6. CASE /\ c < WHITESPACE /\ iter < 3
           /\ buf' = Shifted(c) /\ iter' = iter + 1 /\ UNCHANGED <<out, verdict>>
  <2>1. buf' \in Nat
    BY <1>2, <1>6, ShiftedIsNat DEF RoomInv, DecodeTypeOK
  <2>2. in' = in + 1
    BY <1>1, <1>2, <1>6 DEF EQUALS, WHITESPACE, Char
  <2> QED BY <1>1, <1>2, <1>3, <1>6, <2>1, <2>2 DEF RoomInv, DecodeTypeOK, Paid, ErrorWasRead
<1>7. CASE c < WHITESPACE /\ iter = 3 /\ Emit(Group(Shifted(c)), "running")
  <2>1. Shifted(c) \in Nat
    BY <1>2, ShiftedIsNat DEF RoomInv, DecodeTypeOK
  <2>2. Group(Shifted(c)) \in Seq(0 .. 255) /\ Len(Group(Shifted(c))) = 3
    BY <2>1, GroupIsThreeBytes
  <2>3. Len(out) + Len(Group(Shifted(c))) <= room
    BY <1>1, <1>2, <1>3, <1>7, <2>2 DEF RoomInv, DecodeTypeOK
  <2>4. /\ out' \in Seq(0 .. 255) /\ Len(out') = Len(out) + 3
        /\ buf' = 0 /\ iter' = 0 /\ verdict' = "running"
    BY <1>7, <2>2, <2>3, EmitSucceeds
  <2> QED BY <1>1, <1>2, <1>3, <1>7, <2>4 DEF RoomInv, DecodeTypeOK, Paid, ErrorWasRead
<1> QED BY <1>4, <1>5, <1>6, <1>7 DEF DecodeChar

\* The bytes of the unfinished group.
LEMMA EndKeepsRoom ==
    ASSUME RoomInv, DecodeEnd
    PROVE  RoomInv'
<1>1. verdict = "running" /\ UNCHANGED <<text, in, room>> /\ Emit(Rest, "ok")
  BY DEF DecodeEnd
<1>2. Rest \in Seq(0 .. 255) /\ Len(Rest) <= iter /\ Len(Rest) \in Nat
  BY RestIsShort DEF RoomInv, DecodeTypeOK
<1>3. Len(out) + Len(Rest) <= room
  BY <1>1, <1>2 DEF RoomInv, DecodeTypeOK, Paid
<1>4. /\ out' \in Seq(0 .. 255) /\ Len(out') = Len(out) + Len(Rest)
      /\ buf' = 0 /\ iter' = 0 /\ verdict' = "ok"
  BY <1>1, <1>2, <1>3, EmitSucceeds
<1> QED BY <1>1, <1>3, <1>4 DEF RoomInv, DecodeTypeOK, Paid, ErrorWasRead

\* The locals are gone.
LEMMA GoneKeepsRoom ==
    ASSUME EndDecode
    PROVE  RoomInv'
BY DEF EndDecode, RoomInv, DecodeTypeOK, Paid, ErrorWasRead

\* What is not running is not disturbed.
LEMMA StutterKeepsRoom ==
    ASSUME RoomInv, UNCHANGED decodeVars
    PROVE  RoomInv'
BY DEF decodeVars, RoomInv, DecodeTypeOK, Paid, ErrorWasRead

-----------------------------------------------------------------------------
(* Counting the characters *)

\* How many base64 characters come before position p.
Index(t, p) == Cardinality(Digits(t, p - 1))

\* The characters are finite in number, also those up to a position.
LEMMA DigitsFinite ==
    ASSUME NEW t \in Seq(Char), NEW n \in Int
    PROVE  IsFiniteSet(Digits(t, n)) /\ Cardinality(Digits(t, n)) \in Nat
<1>1. IsFiniteSet(1 .. Len(t))
  BY FS_Interval
<1>2. Digits(t, n) \subseteq 1 .. Len(t)
  BY DEF Digits, Significant
<1> QED BY <1>1, <1>2, FS_Subset, FS_CardinalityType

\* A character that was read counts one more than the ones before it.
LEMMA IndexBelow ==
    ASSUME NEW t \in Seq(Char), NEW n \in Int, NEW p \in Digits(t, n)
    PROVE  Index(t, p) \in Nat /\ Index(t, p) < Cardinality(Digits(t, n))
<1>1. p \in Int /\ p <= n
  BY DEF Digits, Significant
<1>2. IsFiniteSet(Digits(t, p - 1)) /\ Index(t, p) \in Nat
  <2>1. p - 1 \in Int
    BY <1>1
  <2> QED BY <2>1, DigitsFinite, Zenon DEF Index
<1>3. p \notin Digits(t, p - 1)
  BY <1>1 DEF Digits
<1>4. Cardinality(Digits(t, p - 1) \cup {p}) = Index(t, p) + 1
  BY <1>2, <1>3, FS_AddElement DEF Index
<1>5. Digits(t, p - 1) \cup {p} \subseteq Digits(t, n)
  BY <1>1 DEF Digits, Significant
<1>6. IsFiniteSet(Digits(t, n)) /\ Cardinality(Digits(t, n)) \in Nat
  BY DigitsFinite
<1>7. Cardinality(Digits(t, p - 1) \cup {p}) <= Cardinality(Digits(t, n))
  BY <1>5, <1>6, FS_Subset
<1> QED BY <1>2, <1>4, <1>6, <1>7

\* The next character, when no pad character was read so far.
LEMMA DigitsNext ==
    ASSUME NEW t \in Seq(Char), NEW n \in 0 .. Len(t) - 1,
           \A j \in 1 .. n : t[j] # EQUALS
    PROVE  /\ t[n + 1] < WHITESPACE =>
                /\ Digits(t, n + 1) = Digits(t, n) \cup {n + 1}
                /\ Cardinality(Digits(t, n + 1)) = Cardinality(Digits(t, n)) + 1
           /\ t[n + 1] \in {WHITESPACE, INVALID} => Digits(t, n + 1) = Digits(t, n)
           /\ t[n + 1] = EQUALS =>
                /\ Digits(t, Len(t)) = Digits(t, n)
                /\ \A i \in Significant(t) : i <= n
           /\ t[n + 1] # EQUALS => n + 1 \in Significant(t)
<1>1. n + 1 \in 1 .. Len(t) /\ t[n + 1] \in Char
  OBVIOUS
<1>2. t[n + 1] # EQUALS => n + 1 \in Significant(t)
  BY <1>1 DEF Significant
<1>3. Digits(t, n + 1) = Digits(t, n) \cup {i \in Significant(t) : i = n + 1 /\ t[i] < WHITESPACE}
  BY DEF Digits, Significant
<1>4. ASSUME t[n + 1] < WHITESPACE
      PROVE  /\ Digits(t, n + 1) = Digits(t, n) \cup {n + 1}
             /\ Cardinality(Digits(t, n + 1)) = Cardinality(Digits(t, n)) + 1
  <2>1. n + 1 \in Significant(t)
    BY <1>1, <1>2, <1>4 DEF WHITESPACE, EQUALS, Char
  <2>2. Digits(t, n + 1) = Digits(t, n) \cup {n + 1}
    BY <1>3, <1>4, <2>1
  <2>3. n + 1 \notin Digits(t, n)
    BY DEF Digits
  <2>4. IsFiniteSet(Digits(t, n))
    BY DigitsFinite
  <2> QED BY <2>2, <2>3, <2>4, FS_AddElement
<1>5. ASSUME t[n + 1] \in {WHITESPACE, INVALID} PROVE Digits(t, n + 1) = Digits(t, n)
  <2>1. ~(t[n + 1] < WHITESPACE)
    BY <1>5 DEF WHITESPACE, INVALID
  <2>2. {i \in Significant(t) : i = n + 1 /\ t[i] < WHITESPACE} = {}
    BY <2>1
  <2> QED BY <1>3, <2>2
<1>6. ASSUME t[n + 1] = EQUALS
      PROVE  Digits(t, Len(t)) = Digits(t, n) /\ \A i \in Significant(t) : i <= n
  <2>1. \A i \in Significant(t) : i <= n
    BY <1>1, <1>6 DEF Significant
  <2> QED BY <2>1 DEF Digits, Significant
<1> QED BY <1>2, <1>4, <1>5, <1>6

-----------------------------------------------------------------------------
(* Where the bits of a character are *)

\* The character that j others follow in buf.
Kept(b, j, c) ==
    c = CASE j = 0 -> b % 64
          [] j = 1 -> (b \div 64) % 64
          [] j = 2 -> (b \div 4096) % 64
          [] j = 3 -> (b \div 262144) % 64

\* The bytes of o from f on, as far as they reach, hold character c, the r-th
\* of four: four characters are three bytes.
Part(o, f, r, c) ==
    LET full(i) == f + i <= Len(o)
    IN  /\ r = 0 /\ full(1) => o[f + 1] \div 4 = c
        /\ r = 1 => /\ full(1) => o[f + 1] % 4 = c \div 16
                    /\ full(2) => o[f + 2] \div 16 = c % 16
        /\ r = 2 => /\ full(2) => o[f + 2] % 16 = c \div 4
                    /\ full(3) => o[f + 3] \div 64 = c % 4
        /\ r = 3 /\ full(3) => o[f + 3] % 64 = c

\* Character c, the k-th of the text, is in the bytes of o.
Holds(o, k, c) == Part(o, 3 * (k \div 4), k % 4, c)

\* The bits of a byte and of a character of which it holds a part.
LEMMA PowerValues ==
    /\ Power[8 - 0] = 128 /\ Power[8 - 1] = 64 /\ Power[8 - 2] = 32 /\ Power[8 - 3] = 16
    /\ Power[8 - 4] = 8 /\ Power[8 - 5] = 4 /\ Power[8 - 6] = 2 /\ Power[8 - 7] = 1
    /\ Power[6 - 0] = 32 /\ Power[6 - 1] = 16 /\ Power[6 - 2] = 8 /\ Power[6 - 3] = 4
    /\ Power[6 - 4] = 2 /\ Power[6 - 5] = 1
BY DEF Power

LEMMA FirstBits ==
    ASSUME NEW y \in 0 .. 255, NEW c \in 0 .. 63, NEW b \in 0 .. 5
    PROVE  b \in 0 .. 5 /\ y \div 4 = c => BitOf(y, 8, b) = BitOf(c, 6, b)
<1>1. ASSUME y \div 4 = c, b \in 0 .. 5
      PROVE  BitOf(y, 8, b) = BitOf(c, 6, b)
  <2>1. BitOf(y, 8, 0) = BitOf(c, 6, 0)
    BY <1>1, PowerValues DEF BitOf
  <2>2. BitOf(y, 8, 1) = BitOf(c, 6, 1)
    BY <1>1, PowerValues DEF BitOf
  <2>3. BitOf(y, 8, 2) = BitOf(c, 6, 2)
    BY <1>1, PowerValues DEF BitOf
  <2>4. BitOf(y, 8, 3) = BitOf(c, 6, 3)
    BY <1>1, PowerValues DEF BitOf
  <2>5. BitOf(y, 8, 4) = BitOf(c, 6, 4)
    BY <1>1, PowerValues DEF BitOf
  <2>6. BitOf(y, 8, 5) = BitOf(c, 6, 5)
    BY <1>1, PowerValues DEF BitOf
  <2>7. b = 0 \/ b = 1 \/ b = 2 \/ b = 3 \/ b = 4 \/ b = 5
    BY <1>1
  <2> QED BY <2>1, <2>2, <2>3, <2>4, <2>5, <2>6, <2>7
<1> QED BY <1>1

LEMMA SecondBits ==
    ASSUME NEW y \in 0 .. 255, NEW c \in 0 .. 63, NEW b \in 0 .. 5
    PROVE  /\ b \in 0 .. 1 /\ y % 4 = c \div 16 => BitOf(y, 8, b + 6) = BitOf(c, 6, b)
           /\ b \in 2 .. 5 /\ y \div 16 = c % 16 => BitOf(y, 8, b - 2) = BitOf(c, 6, b)
<1>1. ASSUME y % 4 = c \div 16, b \in 0 .. 1
      PROVE  BitOf(y, 8, b + 6) = BitOf(c, 6, b)
  <2>1. BitOf(y, 8, 6) = BitOf(c, 6, 0)
    BY <1>1, PowerValues DEF BitOf
  <2>2. BitOf(y, 8, 7) = BitOf(c, 6, 1)
    BY <1>1, PowerValues DEF BitOf
  <2>3. (b = 0 /\ b + 6 = 6) \/ (b = 1 /\ b + 6 = 7)
    BY <1>1
  <2> QED BY <2>1, <2>2, <2>3
<1>2. ASSUME y \div 16 = c % 16, b \in 2 .. 5
      PROVE  BitOf(y, 8, b - 2) = BitOf(c, 6, b)
  <2>1. BitOf(y, 8, 0) = BitOf(c, 6, 2)
    BY <1>2, PowerValues DEF BitOf
  <2>2. BitOf(y, 8, 1) = BitOf(c, 6, 3)
    BY <1>2, PowerValues DEF BitOf
  <2>3. BitOf(y, 8, 2) = BitOf(c, 6, 4)
    BY <1>2, PowerValues DEF BitOf
  <2>4. BitOf(y, 8, 3) = BitOf(c, 6, 5)
    BY <1>2, PowerValues DEF BitOf
  <2>5. \/ (b = 2 /\ b - 2 = 0) \/ (b = 3 /\ b - 2 = 1)
        \/ (b = 4 /\ b - 2 = 2) \/ (b = 5 /\ b - 2 = 3)
    BY <1>2
  <2> QED BY <2>1, <2>2, <2>3, <2>4, <2>5
<1> QED BY <1>1, <1>2

LEMMA ThirdBits ==
    ASSUME NEW y \in 0 .. 255, NEW c \in 0 .. 63, NEW b \in 0 .. 5
    PROVE  /\ b \in 0 .. 3 /\ y % 16 = c \div 4 => BitOf(y, 8, b + 4) = BitOf(c, 6, b)
           /\ b \in 4 .. 5 /\ y \div 64 = c % 4 => BitOf(y, 8, b - 4) = BitOf(c, 6, b)
<1>1. ASSUME y % 16 = c \div 4, b \in 0 .. 3
      PROVE  BitOf(y, 8, b + 4) = BitOf(c, 6, b)
  <2>1. BitOf(y, 8, 4) = BitOf(c, 6, 0)
    BY <1>1, PowerValues DEF BitOf
  <2>2. BitOf(y, 8, 5) = BitOf(c, 6, 1)
    BY <1>1, PowerValues DEF BitOf
  <2>3. BitOf(y, 8, 6) = BitOf(c, 6, 2)
    BY <1>1, PowerValues DEF BitOf
  <2>4. BitOf(y, 8, 7) = BitOf(c, 6, 3)
    BY <1>1, PowerValues DEF BitOf
  <2>5. \/ (b = 0 /\ b + 4 = 4) \/ (b = 1 /\ b + 4 = 5)
        \/ (b = 2 /\ b + 4 = 6) \/ (b = 3 /\ b + 4 = 7)
    BY <1>1
  <2> QED BY <2>1, <2>2, <2>3, <2>4, <2>5
<1>2. ASSUME y \div 64 = c % 4, b \in 4 .. 5
      PROVE  BitOf(y, 8, b - 4) = BitOf(c, 6, b)
  <2>1. BitOf(y, 8, 0) = BitOf(c, 6, 4)
    BY <1>2, PowerValues DEF BitOf
  <2>2. BitOf(y, 8, 1) = BitOf(c, 6, 5)
    BY <1>2, PowerValues DEF BitOf
  <2>3. (b = 4 /\ b - 4 = 0) \/ (b = 5 /\ b - 4 = 1)
    BY <1>2
  <2> QED BY <2>1, <2>2, <2>3
<1> QED BY <1>1, <1>2

LEMMA FourthBits ==
    ASSUME NEW y \in 0 .. 255, NEW c \in 0 .. 63, NEW b \in 0 .. 5
    PROVE  b \in 0 .. 5 /\ y % 64 = c => BitOf(y, 8, b + 2) = BitOf(c, 6, b)
<1>1. ASSUME y % 64 = c, b \in 0 .. 5
      PROVE  BitOf(y, 8, b + 2) = BitOf(c, 6, b)
  <2>1. BitOf(y, 8, 2) = BitOf(c, 6, 0)
    BY <1>1, PowerValues DEF BitOf
  <2>2. BitOf(y, 8, 3) = BitOf(c, 6, 1)
    BY <1>1, PowerValues DEF BitOf
  <2>3. BitOf(y, 8, 4) = BitOf(c, 6, 2)
    BY <1>1, PowerValues DEF BitOf
  <2>4. BitOf(y, 8, 5) = BitOf(c, 6, 3)
    BY <1>1, PowerValues DEF BitOf
  <2>5. BitOf(y, 8, 6) = BitOf(c, 6, 4)
    BY <1>1, PowerValues DEF BitOf
  <2>6. BitOf(y, 8, 7) = BitOf(c, 6, 5)
    BY <1>1, PowerValues DEF BitOf
  <2>7. \/ (b = 0 /\ b + 2 = 2) \/ (b = 1 /\ b + 2 = 3) \/ (b = 2 /\ b + 2 = 4)
        \/ (b = 3 /\ b + 2 = 5) \/ (b = 4 /\ b + 2 = 6) \/ (b = 5 /\ b + 2 = 7)
    BY <1>1
  <2> QED BY <2>1, <2>2, <2>3, <2>4, <2>5, <2>6, <2>7
<1> QED BY <1>1

\* One more character in buf: the others move up.
LEMMA KeptShift ==
    ASSUME NEW b \in Nat, NEW c \in 0 .. 63
    PROVE  /\ Kept(b * 64 + c, 0, c)
           /\ \A d : \A j \in 0 .. 2 : Kept(b, j, d) => Kept(b * 64 + c, j + 1, d)
<1> DEFINE s == b * 64 + c
<1>1. s \in Nat /\ s \div 64 = b /\ s % 64 = c
  OBVIOUS
<1> HIDE DEF s
<1>2. s \div 4096 = (s \div 64) \div 64
  BY <1>1
<1>3. s \div 262144 = (s \div 64) \div 4096
  BY <1>1
<1>4. Kept(s, 0, c)
  BY <1>1 DEF Kept
<1>5. ASSUME NEW j \in 0 .. 2, NEW d, Kept(b, j, d) PROVE Kept(s, j + 1, d)
  <2>1. CASE j = 0
    BY <1>1, <1>5, <2>1 DEF Kept
  <2>2. CASE j = 1
    BY <1>1, <1>2, <1>5, <2>2 DEF Kept
  <2>3. CASE j = 2
    BY <1>1, <1>3, <1>5, <2>3 DEF Kept
  <2> QED BY <2>1, <2>2, <2>3
<1> QED BY <1>4, <1>5 DEF s

\* The elements of a sequence, and the length of two.
LEMMA ConcatLen ==
    ASSUME NEW S, NEW a \in Seq(S), NEW b \in Seq(S) PROVE Len(a \o b) = Len(a) + Len(b)
OBVIOUS

LEMMA BytesOf ==
    ASSUME NEW S, NEW o \in Seq(S), NEW j \in 1 .. Len(o) PROVE o[j] \in S
OBVIOUS

\* Bit e of byte m of group q.
LEMMA BytePosition ==
    ASSUME NEW q \in Nat, NEW m \in 0 .. 2, NEW e \in 0 .. 7, NEW n \in Nat,
           NEW i, i = 24 * q + 8 * m + e, i < 8 * n
    PROVE  i \div 8 = 3 * q + m /\ i % 8 = e /\ 3 * q + m + 1 \in 1 .. n
<1> DEFINE a == 3 * q + m
<1>1. a \in Nat /\ i = 8 * a + e
  OBVIOUS
<1> HIDE DEF a
<1>2. (8 * a + e) \div 8 = a /\ (8 * a + e) % 8 = e
  BY <1>1
<1>3. 8 * a + e < 8 * n => a < n
  BY <1>1
<1>4. a + 1 \in 1 .. n
  BY <1>1, <1>3
<1> QED BY <1>1, <1>2, <1>4 DEF a

\* The bits of c are bits of the bytes that hold it.
LEMMA HoldsBits ==
    ASSUME NEW o \in Seq(0 .. 255), NEW k \in Nat, NEW c \in 0 .. 63, Holds(o, k, c),
           NEW b \in 0 .. 5, 6 * k + b < 8 * Len(o)
    PROVE  BitOf(o[(6 * k + b) \div 8 + 1], 8, (6 * k + b) % 8) = BitOf(c, 6, b)
<1> DEFINE q == k \div 4
           r == k % 4
           i == 6 * k + b
<1>1. q \in Nat /\ r \in 0 .. 3 /\ i = 24 * q + 6 * r + b
  <2>1. q \in Nat /\ r \in 0 .. 3 /\ k = 4 * q + r
    OBVIOUS
  <2> HIDE DEF q, r
  <2> QED BY <2>1
<1>2. i < 8 * Len(o) /\ Len(o) \in Nat
  OBVIOUS
<1>0. \A j \in 1 .. Len(o) : o[j] \in 0 .. 255
  BY BytesOf
<1>3. CASE r = 0
  <2>1. i \div 8 = 3 * q /\ i % 8 = b /\ 3 * q + 1 \in 1 .. Len(o)
    <3> DEFINE e == b
               m == 0
    <3>1. i = 24 * q + 8 * m + e /\ e \in 0 .. 7 /\ m \in 0 .. 2
      BY <1>1, <1>3
    <3> HIDE DEF q, r, i, e, m
    <3>2. i \div 8 = 3 * q + m /\ i % 8 = e /\ 3 * q + m + 1 \in 1 .. Len(o)
      BY <1>1, <1>2, <3>1, BytePosition, Zenon
    <3> QED BY <1>1, <3>2 DEF e, m
  <2>2. o[3 * q + 1] \div 4 = c /\ o[3 * q + 1] \in 0 .. 255
    BY <1>0, <1>3, <2>1 DEF Holds, Part
  <2> QED BY <2>1, <2>2, FirstBits
<1>4. CASE r = 1 /\ b \in 0 .. 1
  <2>1. i \div 8 = 3 * q /\ i % 8 = b + 6 /\ 3 * q + 1 \in 1 .. Len(o)
    <3> DEFINE e == b + 6
               m == 0
    <3>1. i = 24 * q + 8 * m + e /\ e \in 0 .. 7 /\ m \in 0 .. 2
      BY <1>1, <1>4
    <3> HIDE DEF q, r, i, e, m
    <3>2. i \div 8 = 3 * q + m /\ i % 8 = e /\ 3 * q + m + 1 \in 1 .. Len(o)
      BY <1>1, <1>2, <3>1, BytePosition, Zenon
    <3> QED BY <1>1, <3>2 DEF e, m
  <2>2. o[3 * q + 1] % 4 = c \div 16 /\ o[3 * q + 1] \in 0 .. 255
    BY <1>0, <1>4, <2>1 DEF Holds, Part
  <2> QED BY <1>4, <2>1, <2>2, SecondBits
<1>5. CASE r = 1 /\ b \in 2 .. 5
  <2>1. i \div 8 = 3 * q + 1 /\ i % 8 = b - 2 /\ 3 * q + 2 \in 1 .. Len(o)
    <3> DEFINE e == b - 2
               m == 1
    <3>1. i = 24 * q + 8 * m + e /\ e \in 0 .. 7 /\ m \in 0 .. 2
      BY <1>1, <1>5
    <3> HIDE DEF q, r, i, e, m
    <3>2. i \div 8 = 3 * q + m /\ i % 8 = e /\ 3 * q + m + 1 \in 1 .. Len(o)
      BY <1>1, <1>2, <3>1, BytePosition, Zenon
    <3> QED BY <1>1, <3>2 DEF e, m
  <2>2. o[3 * q + 2] \div 16 = c % 16 /\ o[3 * q + 2] \in 0 .. 255
    BY <1>0, <1>5, <2>1 DEF Holds, Part
  <2>3. i \div 8 + 1 = 3 * q + 2
    BY <2>1, <1>1
  <2> QED BY <1>5, <2>1, <2>2, <2>3, SecondBits
<1>6. CASE r = 2 /\ b \in 0 .. 3
  <2>1. i \div 8 = 3 * q + 1 /\ i % 8 = b + 4 /\ 3 * q + 2 \in 1 .. Len(o)
    <3> DEFINE e == b + 4
               m == 1
    <3>1. i = 24 * q + 8 * m + e /\ e \in 0 .. 7 /\ m \in 0 .. 2
      BY <1>1, <1>6
    <3> HIDE DEF q, r, i, e, m
    <3>2. i \div 8 = 3 * q + m /\ i % 8 = e /\ 3 * q + m + 1 \in 1 .. Len(o)
      BY <1>1, <1>2, <3>1, BytePosition, Zenon
    <3> QED BY <1>1, <3>2 DEF e, m
  <2>2. o[3 * q + 2] % 16 = c \div 4 /\ o[3 * q + 2] \in 0 .. 255
    BY <1>0, <1>6, <2>1 DEF Holds, Part
  <2>3. i \div 8 + 1 = 3 * q + 2
    BY <2>1, <1>1
  <2> QED BY <1>6, <2>1, <2>2, <2>3, ThirdBits
<1>7. CASE r = 2 /\ b \in 4 .. 5
  <2>1. i \div 8 = 3 * q + 2 /\ i % 8 = b - 4 /\ 3 * q + 3 \in 1 .. Len(o)
    <3> DEFINE e == b - 4
               m == 2
    <3>1. i = 24 * q + 8 * m + e /\ e \in 0 .. 7 /\ m \in 0 .. 2
      BY <1>1, <1>7
    <3> HIDE DEF q, r, i, e, m
    <3>2. i \div 8 = 3 * q + m /\ i % 8 = e /\ 3 * q + m + 1 \in 1 .. Len(o)
      BY <1>1, <1>2, <3>1, BytePosition, Zenon
    <3> QED BY <1>1, <3>2 DEF e, m
  <2>2. o[3 * q + 3] \div 64 = c % 4 /\ o[3 * q + 3] \in 0 .. 255
    BY <1>0, <1>7, <2>1 DEF Holds, Part
  <2>3. i \div 8 + 1 = 3 * q + 3
    BY <2>1, <1>1
  <2> QED BY <1>7, <2>1, <2>2, <2>3, ThirdBits
<1>8. CASE r = 3
  <2>1. i \div 8 = 3 * q + 2 /\ i % 8 = b + 2 /\ 3 * q + 3 \in 1 .. Len(o)
    <3> DEFINE e == b + 2
               m == 2
    <3>1. i = 24 * q + 8 * m + e /\ e \in 0 .. 7 /\ m \in 0 .. 2
      BY <1>1, <1>8
    <3> HIDE DEF q, r, i, e, m
    <3>2. i \div 8 = 3 * q + m /\ i % 8 = e /\ 3 * q + m + 1 \in 1 .. Len(o)
      BY <1>1, <1>2, <3>1, BytePosition, Zenon
    <3> QED BY <1>1, <3>2 DEF e, m
  <2>2. o[3 * q + 3] % 64 = c /\ o[3 * q + 3] \in 0 .. 255
    BY <1>0, <1>8, <2>1 DEF Holds, Part
  <2>3. i \div 8 + 1 = 3 * q + 3
    BY <2>1, <1>1
  <2> QED BY <2>1, <2>2, <2>3, FourthBits
<1>9. r = 0 \/ r = 1 \/ r = 2 \/ r = 3
  BY <1>1
<1> QED BY <1>3, <1>4, <1>5, <1>6, <1>7, <1>8, <1>9

-----------------------------------------------------------------------------
(* The state of the loop *)

\* After n characters of t: g groups are in o, and it characters in b; every
\* character read is in the bytes or in b.
Decoded(t, n, o, it, b, g) ==
    /\ Len(o) = 3 * g
    /\ Cardinality(Digits(t, n)) = 4 * g + it
    /\ \A p \in Digits(t, n) :
         /\ Holds(o, Index(t, p), t[p])
         /\ Index(t, p) >= 4 * g => Kept(b, 4 * g + it - 1 - Index(t, p), t[p])

\* Whole bytes that do not reach the k-th character hold nothing of it.
LEMMA HoldsBeyond ==
    ASSUME NEW o \in Seq(0 .. 255), NEW g \in Nat, Len(o) = 3 * g,
           NEW k \in Nat, k >= 4 * g, NEW c
    PROVE  Holds(o, k, c)
<1>1. 3 * (k \div 4) >= 3 * g
  <2>1. k \div 4 >= g /\ k \div 4 \in Nat
    OBVIOUS
  <2> QED BY <2>1
<1>2. \A j \in 1 .. 3 : ~(3 * (k \div 4) + j <= Len(o))
  BY <1>1
<1> QED BY <1>2 DEF Holds, Part

\* Bytes that are appended do not touch the groups before them.
LEMMA HoldsAppend ==
    ASSUME NEW o \in Seq(0 .. 255), NEW bytes \in Seq(0 .. 255), NEW g \in Nat,
           Len(o) = 3 * g, NEW k \in Nat, k < 4 * g, NEW c, Holds(o, k, c)
    PROVE  Holds(o \o bytes, k, c)
<1> DEFINE q == k \div 4
<1>1. q \in Nat /\ 3 * q + 3 <= 3 * g
  <2>1. q \in Nat /\ q < g
    OBVIOUS
  <2> HIDE DEF q
  <2> QED BY <2>1
<1> HIDE DEF q
<1>2. \A j \in 1 .. 3 : 3 * q + j \in 1 .. Len(o)
  BY <1>1
<1>3. \A j \in 1 .. 3 : (o \o bytes)[3 * q + j] = o[3 * q + j]
  BY <1>2
<1>4. \A j \in 1 .. 3 : 3 * q + j <= Len(o) /\ 3 * q + j <= Len(o \o bytes)
  BY <1>2
<1> QED BY <1>3, <1>4 DEF Holds, Part, q

\* The characters of group g, which the appended bytes are to hold.
LEMMA HoldsGroup ==
    ASSUME NEW o \in Seq(0 .. 255), NEW bytes \in Seq(0 .. 255), NEW g \in Nat,
           Len(o) = 3 * g, NEW r \in 0 .. 3, NEW c, Holds(bytes, r, c)
    PROVE  Holds(o \o bytes, 4 * g + r, c)
<1>1. (4 * g + r) \div 4 = g /\ (4 * g + r) % 4 = r /\ r \div 4 = 0 /\ r % 4 = r
  OBVIOUS
<1>2. \A j \in 1 .. 3 : /\ 3 * g + j <= Len(o \o bytes) <=> j <= Len(bytes)
                        /\ j <= Len(bytes) => (o \o bytes)[3 * g + j] = bytes[j]
  OBVIOUS
<1>3. /\ Holds(o \o bytes, 4 * g + r, c) <=> Part(o \o bytes, 3 * g, r, c)
      /\ Holds(bytes, r, c) <=> Part(bytes, 0, r, c)
  <2>1. 3 * (r \div 4) = 0
    BY <1>1
  <2> QED BY <1>1, <2>1 DEF Holds
<1>4. \A j \in 1 .. 3 : 0 + j = j
  OBVIOUS
<1>5. ASSUME Part(bytes, 0, r, c) PROVE Part(o \o bytes, 3 * g, r, c)
  <2> DEFINE all == o \o bytes
             f == 3 * g
  <2>1. \A j \in 1 .. 3 : /\ f + j <= Len(all) => j <= Len(bytes)
                          /\ j <= Len(bytes) => all[f + j] = bytes[j]
    BY <1>2
  <2> SUFFICES Part(all, f, r, c)
    OBVIOUS
  <2> HIDE DEF all, f
  <2>2. CASE r = 0
    BY <1>4, <1>5, <2>1, <2>2 DEF Part
  <2>3. CASE r = 1
    BY <1>4, <1>5, <2>1, <2>3 DEF Part
  <2>4. CASE r = 2
    BY <1>4, <1>5, <2>1, <2>4 DEF Part
  <2>5. CASE r = 3
    BY <1>4, <1>5, <2>1, <2>5 DEF Part
  <2>6. r = 0 \/ r = 1 \/ r = 2 \/ r = 3
    OBVIOUS
  <2> QED BY <2>2, <2>3, <2>4, <2>5, <2>6
<1> QED BY <1>3, <1>5

\* A character that does not count, or the end at a pad character.
LEMMA DecodedSame ==
    ASSUME NEW t, NEW n, NEW m, NEW o, NEW it, NEW b, NEW g,
           Decoded(t, n, o, it, b, g), Digits(t, m) = Digits(t, n)
    PROVE  Decoded(t, m, o, it, b, g)
BY DEF Decoded

\* One more character in buf.
LEMMA DecodedShift ==
    ASSUME NEW t \in Seq(Char), NEW n \in 0 .. Len(t) - 1,
           \A j \in 1 .. n : t[j] # EQUALS, t[n + 1] < WHITESPACE,
           NEW o \in Seq(0 .. 255), NEW it \in 0 .. 3, NEW b \in Nat, NEW g \in Nat,
           Decoded(t, n, o, it, b, g)
    PROVE  Decoded(t, n + 1, o, it + 1, b * 64 + t[n + 1], g)
<1> DEFINE c == t[n + 1]
           s == b * 64 + c
<1>1. c \in 0 .. 63
  <2>1. c \in Char /\ c < WHITESPACE
    OBVIOUS
  <2> HIDE DEF c
  <2> QED BY <2>1 DEF Char, WHITESPACE
<1>2. /\ Digits(t, n + 1) = Digits(t, n) \cup {n + 1}
      /\ Cardinality(Digits(t, n + 1)) = 4 * g + it + 1
  BY DigitsNext DEF Decoded
<1>3. Index(t, n + 1) = 4 * g + it
  <2>1. (n + 1) - 1 = n
    OBVIOUS
  <2> QED BY <2>1 DEF Index, Decoded
<1>4. Kept(s, 0, c) /\ \A d : \A j \in 0 .. 2 : Kept(b, j, d) => Kept(s, j + 1, d)
  BY <1>1, KeptShift
<1> HIDE DEF s
<1>5. Holds(o, 4 * g + it, c)
  <2>1. 4 * g + it \in Nat /\ 4 * g + it >= 4 * g
    OBVIOUS
  <2> QED BY <2>1, HoldsBeyond DEF Decoded
<1>6. ASSUME NEW p \in Digits(t, n + 1)
      PROVE  /\ Holds(o, Index(t, p), t[p])
             /\ Index(t, p) >= 4 * g => Kept(s, 4 * g + (it + 1) - 1 - Index(t, p), t[p])
  <2>1. CASE p = n + 1
    <3>1. 4 * g + (it + 1) - 1 - (4 * g + it) = 0
      OBVIOUS
    <3> QED BY <1>3, <1>4, <1>5, <2>1, <3>1
  <2>2. CASE p \in Digits(t, n)
    <3> DEFINE k == Index(t, p)
    <3>1. k \in Nat /\ k < 4 * g + it
      BY <2>2, IndexBelow DEF Decoded
    <3>2. Holds(o, k, t[p]) /\ (k >= 4 * g => Kept(b, 4 * g + it - 1 - k, t[p]))
      BY <2>2 DEF Decoded
    <3> HIDE DEF k
    <3>3. ASSUME k >= 4 * g PROVE Kept(s, 4 * g + (it + 1) - 1 - k, t[p])
      <4> DEFINE j == 4 * g + it - 1 - k
      <4>1. j \in 0 .. 2 /\ 4 * g + (it + 1) - 1 - k = j + 1
        BY <3>1, <3>3
      <4>2. Kept(b, j, t[p])
        BY <3>2, <3>3
      <4> HIDE DEF j
      <4> QED BY <1>4, <4>1, <4>2
    <3> QED BY <3>2, <3>3 DEF k
  <2> QED BY <1>2, <2>1, <2>2
<1>7. Len(o) = 3 * g /\ Cardinality(Digits(t, n + 1)) = 4 * g + (it + 1)
  BY <1>2 DEF Decoded
<1>8. Decoded(t, n + 1, o, it + 1, s, g)
  BY <1>6, <1>7 DEF Decoded
<1> QED BY <1>8 DEF s

\* The bytes made of the it characters in b hold them.
Fills(bytes, it, b) ==
    \A c : \A r \in 0 .. it - 1 : Kept(b, it - 1 - r, c) => Holds(bytes, r, c)

LEMMA GroupFills ==
    ASSUME NEW s \in Nat
    PROVE  Fills(Group(s), 4, s)
<1> DEFINE x == ByteAt(s, 65536)
           y == ByteAt(s, 256)
           z == ByteAt(s, 1)
<1>1. x \div 4 = (s \div 262144) % 64
  BY DEF ByteAt
<1>2. x % 4 = ((s \div 4096) % 64) \div 16
  BY DEF ByteAt
<1>3. y \div 16 = ((s \div 4096) % 64) % 16
  BY DEF ByteAt
<1>4. y % 16 = ((s \div 64) % 64) \div 4
  BY DEF ByteAt
<1>5. z \div 64 = ((s \div 64) % 64) % 4
  BY DEF ByteAt
<1>6. z % 64 = s % 64
  BY DEF ByteAt
<1> HIDE DEF x, y, z
<1>7. ASSUME NEW c, Kept(s, 3, c) PROVE Holds(<<x, y, z>>, 0, c)
  <2>1. c = (s \div 262144) % 64
    BY <1>7 DEF Kept
  <2> QED BY <1>1, <1>2, <1>3, <1>4, <1>5, <1>6, <2>1 DEF Holds, Part
<1>8. ASSUME NEW c, Kept(s, 2, c) PROVE Holds(<<x, y, z>>, 1, c)
  <2>1. c = (s \div 4096) % 64
    BY <1>8 DEF Kept
  <2> QED BY <1>1, <1>2, <1>3, <1>4, <1>5, <1>6, <2>1 DEF Holds, Part
<1>9. ASSUME NEW c, Kept(s, 1, c) PROVE Holds(<<x, y, z>>, 2, c)
  <2>1. c = (s \div 64) % 64
    BY <1>9 DEF Kept
  <2> QED BY <1>1, <1>2, <1>3, <1>4, <1>5, <1>6, <2>1 DEF Holds, Part
<1>10. ASSUME NEW c, Kept(s, 0, c) PROVE Holds(<<x, y, z>>, 3, c)
  <2>1. c = s % 64
    BY <1>10 DEF Kept
  <2> QED BY <1>1, <1>2, <1>3, <1>4, <1>5, <1>6, <2>1 DEF Holds, Part
<1>11. \A r \in 0 .. 4 - 1 : \/ (r = 0 /\ 4 - 1 - r = 3) \/ (r = 1 /\ 4 - 1 - r = 2)
                           \/ (r = 2 /\ 4 - 1 - r = 1) \/ (r = 3 /\ 4 - 1 - r = 0)
  OBVIOUS
<1>12. Fills(<<x, y, z>>, 4, s)
  BY <1>7, <1>8, <1>9, <1>10, <1>11 DEF Fills
<1> QED BY <1>12 DEF Group, x, y, z

LEMMA RestOfThreeFills ==
    ASSUME NEW s \in Nat
    PROVE  Fills(<<ByteAt(s, 1024), ByteAt(s, 4)>>, 3, s)
<1> DEFINE x == ByteAt(s, 1024)
           y == ByteAt(s, 4)
<1>1. x \div 4 = (s \div 4096) % 64
  BY DEF ByteAt
<1>2. x % 4 = ((s \div 64) % 64) \div 16
  BY DEF ByteAt
<1>3. y \div 16 = ((s \div 64) % 64) % 16
  BY DEF ByteAt
<1>4. y % 16 = (s % 64) \div 4
  BY DEF ByteAt
<1> HIDE DEF x, y
<1>5. ASSUME NEW c, Kept(s, 2, c) PROVE Holds(<<x, y>>, 0, c)
  <2>1. c = (s \div 4096) % 64
    BY <1>5 DEF Kept
  <2> QED BY <1>1, <1>2, <1>3, <1>4, <2>1 DEF Holds, Part
<1>6. ASSUME NEW c, Kept(s, 1, c) PROVE Holds(<<x, y>>, 1, c)
  <2>1. c = (s \div 64) % 64
    BY <1>6 DEF Kept
  <2> QED BY <1>1, <1>2, <1>3, <1>4, <2>1 DEF Holds, Part
<1>7. ASSUME NEW c, Kept(s, 0, c) PROVE Holds(<<x, y>>, 2, c)
  <2>1. c = s % 64
    BY <1>7 DEF Kept
  <2> QED BY <1>1, <1>2, <1>3, <1>4, <2>1 DEF Holds, Part
<1>8. \A r \in 0 .. 3 - 1 : \/ (r = 0 /\ 3 - 1 - r = 2) \/ (r = 1 /\ 3 - 1 - r = 1)
                           \/ (r = 2 /\ 3 - 1 - r = 0)
  OBVIOUS
<1>9. Fills(<<x, y>>, 3, s)
  BY <1>5, <1>6, <1>7, <1>8 DEF Fills
<1> QED BY <1>9 DEF x, y

LEMMA RestOfTwoFills ==
    ASSUME NEW s \in Nat
    PROVE  Fills(<<ByteAt(s, 16)>>, 2, s)
<1> DEFINE x == ByteAt(s, 16)
<1>1. x \div 4 = (s \div 64) % 64
  BY DEF ByteAt
<1>2. x % 4 = (s % 64) \div 16
  BY DEF ByteAt
<1> HIDE DEF x
<1>3. ASSUME NEW c, Kept(s, 1, c) PROVE Holds(<<x>>, 0, c)
  <2>1. c = (s \div 64) % 64
    BY <1>3 DEF Kept
  <2> QED BY <1>1, <1>2, <2>1 DEF Holds, Part
<1>4. ASSUME NEW c, Kept(s, 0, c) PROVE Holds(<<x>>, 1, c)
  <2>1. c = s % 64
    BY <1>4 DEF Kept
  <2> QED BY <1>1, <1>2, <2>1 DEF Holds, Part
<1>5. \A r \in 0 .. 2 - 1 : (r = 0 /\ 2 - 1 - r = 1) \/ (r = 1 /\ 2 - 1 - r = 0)
  OBVIOUS
<1>6. Fills(<<x>>, 2, s)
  BY <1>3, <1>4, <1>5 DEF Fills
<1> QED BY <1>6 DEF x

\* A single character, or none, makes no byte.
LEMMA NothingFills ==
    ASSUME NEW it \in 0 .. 1, NEW b
    PROVE  Fills(<<>>, it, b)
<1>1. ASSUME NEW r \in 0 .. it - 1, NEW c PROVE Holds(<<>>, r, c)
  <2>1. r = 0 /\ r \div 4 = 0 /\ Len(<<>>) = 0
    OBVIOUS
  <2> QED BY <2>1 DEF Holds, Part
<1> QED BY <1>1 DEF Fills

\* The bytes of the characters in b, appended to those of the whole groups,
\* hold every character read.
LEMMA DecodedEmit ==
    ASSUME NEW t \in Seq(Char), NEW n \in Int, NEW o \in Seq(0 .. 255), NEW it \in 0 .. 4,
           NEW b, NEW g \in Nat, Decoded(t, n, o, it, b, g),
           NEW bytes \in Seq(0 .. 255), Fills(bytes, it, b)
    PROVE  \A p \in Digits(t, n) : Holds(o \o bytes, Index(t, p), t[p])
<1> SUFFICES ASSUME NEW p \in Digits(t, n) PROVE Holds(o \o bytes, Index(t, p), t[p])
  OBVIOUS
<1> DEFINE k == Index(t, p)
<1>1. k \in Nat /\ k < 4 * g + it /\ Len(o) = 3 * g
  BY IndexBelow DEF Decoded
<1>2. Holds(o, k, t[p]) /\ (k >= 4 * g => Kept(b, 4 * g + it - 1 - k, t[p]))
  BY DEF Decoded
<1> HIDE DEF k
<1>3. CASE k < 4 * g
  BY <1>1, <1>2, <1>3, HoldsAppend DEF k
<1>4. CASE k >= 4 * g
  <2> DEFINE r == k - 4 * g
  <2>1. r \in 0 .. 3 /\ r \in 0 .. it - 1 /\ k = 4 * g + r /\ 4 * g + it - 1 - k = it - 1 - r
    BY <1>1, <1>4
  <2> HIDE DEF r
  <2>2. Holds(bytes, r, t[p])
    BY <1>2, <1>4, <2>1 DEF Fills
  <2> QED BY <1>1, <2>1, <2>2, HoldsGroup DEF k
<1> QED BY <1>1, <1>3, <1>4

\* The fourth character: a group more, and an empty buf.
LEMMA DecodedGroup ==
    ASSUME NEW t \in Seq(Char), NEW n \in Int, NEW o \in Seq(0 .. 255), NEW s \in Nat,
           NEW g \in Nat, Decoded(t, n, o, 4, s, g)
    PROVE  Decoded(t, n, o \o Group(s), 0, 0, g + 1)
<1>1. Group(s) \in Seq(0 .. 255) /\ Len(Group(s)) = 3
  BY GroupIsThreeBytes
<1>2. \A p \in Digits(t, n) : Holds(o \o Group(s), Index(t, p), t[p])
  BY <1>1, GroupFills, DecodedEmit
<1>3. Len(o) = 3 * g /\ Cardinality(Digits(t, n)) = 4 * g + 4
  BY DEF Decoded
<1>4. Len(o \o Group(s)) = 3 * (g + 1) /\ 4 * g + 4 = 4 * (g + 1) + 0
  <2>1. Len(o \o Group(s)) = Len(o) + Len(Group(s))
    BY <1>1, ConcatLen
  <2> QED BY <1>1, <1>3, <2>1
<1>5. \A p \in Digits(t, n) : ~(Index(t, p) >= 4 * (g + 1))
  BY <1>3, IndexBelow
<1> QED BY <1>2, <1>3, <1>4, <1>5 DEF Decoded

\* 4 * g + i characters are 3 * g whole bytes and those of i characters.
LEMMA WholeBytes ==
    ASSUME NEW g \in Nat, NEW i \in 0 .. 3
    PROVE  3 * g + (6 * i) \div 8 = (6 * (4 * g + i)) \div 8
OBVIOUS

-----------------------------------------------------------------------------
(* The steps *)

\* While the loop runs: nothing behind a pad character is read, no invalid
\* character was met, and what was read is decoded.
Collected ==
    verdict = "running" =>
        /\ in = Len(text) \/ \A j \in 1 .. in : text[j] # EQUALS
        /\ \A i \in Significant(text) : i <= in => text[i] # INVALID
        /\ \E g \in Nat : Decoded(text, in, out, iter, buf, g)

\* The inductive invariant.
DecodeInv == RoomInv /\ Collected /\ DecodeIsBase64

\* Nothing is read yet.
LEMMA StartKeepsInv ==
    ASSUME NEW input \in Text, StartDecode(input)
    PROVE  DecodeInv'
<1>1. input \in Seq(Char)
  BY TextAssumption
<1>2. Digits(input, 0) = {} /\ \A i \in Significant(input) : ~(i <= 0)
  BY <1>1 DEF Digits, Significant
<1>3. Cardinality(Digits(input, 0)) = 0
  BY <1>2, FS_EmptySet
<1>4. Decoded(input, 0, <<>>, 0, 0, 0)
  BY <1>2, <1>3 DEF Decoded
<1>5. Collected'
  BY <1>2, <1>4 DEF StartDecode, Collected
<1>6. DecodeIsBase64'
  BY DEF StartDecode, DecodeIsBase64
<1> QED BY <1>5, <1>6, StartKeepsRoom DEF DecodeInv

\* One turn of the loop.
LEMMA CharKeepsInv ==
    ASSUME DecodeInv, DecodeChar
    PROVE  DecodeInv'
<1> DEFINE c == text[in + 1]
<1>1. RoomInv'
  BY CharKeepsRoom DEF DecodeInv
<1>2. /\ verdict = "running" /\ in < Len(text) /\ text' = text
      /\ in' = IF c = EQUALS THEN Len(text) ELSE in + 1
  BY DEF DecodeChar
<1>3. /\ text \in Seq(Char) /\ out \in Seq(0 .. 255) /\ iter \in 0 .. 3 /\ buf \in Nat
      /\ in \in 0 .. Len(text) - 1 /\ c \in Char
  <2>1. /\ text \in Seq(Char) /\ out \in Seq(0 .. 255) /\ iter \in 0 .. 3 /\ buf \in Nat
        /\ in \in 0 .. Len(text)
    BY DEF DecodeInv, RoomInv, DecodeTypeOK
  <2>2. in \in 0 .. Len(text) - 1 /\ in + 1 \in 1 .. Len(text)
    BY <1>2, <2>1
  <2> QED BY <2>1, <2>2
<1>4. /\ \A j \in 1 .. in : text[j] # EQUALS
      /\ \A i \in Significant(text) : i <= in => text[i] # INVALID
  BY <1>2, <1>3 DEF DecodeInv, Collected
<1>5. PICK g \in Nat : Decoded(text, in, out, iter, buf, g)
  BY <1>2 DEF DecodeInv, Collected
<1>6. ASSUME c # EQUALS, c # INVALID
      PROVE  /\ \A j \in 1 .. in' : text[j] # EQUALS
             /\ \A i \in Significant(text) : i <= in' => text[i] # INVALID
  BY <1>2, <1>3, <1>4, <1>6 DEF Significant
<1>7. CASE c = EQUALS /\ UNCHANGED <<iter, buf, out, verdict>>
  <2>1. /\ Digits(text, Len(text)) = Digits(text, in)
        /\ \A i \in Significant(text) : i <= in
    BY <1>3, <1>4, <1>7, DigitsNext
  <2>2. Decoded(text, in', out, iter, buf, g)
    BY <1>2, <1>5, <1>7, <2>1, DecodedSame
  <2>3. Collected'
    BY <1>2, <1>4, <1>7, <2>1, <2>2 DEF Collected
  <2>4. DecodeIsBase64'
    BY <1>2, <1>7 DEF DecodeIsBase64
  <2> QED BY <1>1, <2>3, <2>4 DEF DecodeInv
<1>8. CASE c = WHITESPACE /\ UNCHANGED <<iter, buf, out, verdict>>
  <2>0. c # EQUALS /\ c # INVALID
    BY <1>8 DEF WHITESPACE, EQUALS, INVALID
  <2>1. Digits(text, in + 1) = Digits(text, in)
    BY <1>3, <1>4, <1>8, DigitsNext
  <2>2. Decoded(text, in', out, iter, buf, g)
    BY <1>2, <1>5, <2>0, <2>1, DecodedSame
  <2>3. Collected'
    BY <1>2, <1>6, <1>8, <2>0, <2>2 DEF Collected
  <2>4. DecodeIsBase64'
    BY <1>2, <1>8 DEF DecodeIsBase64
  <2> QED BY <1>1, <2>3, <2>4 DEF DecodeInv
<1>9. CASE c = INVALID /\ verdict' = "error" /\ UNCHANGED <<iter, buf, out>>
  <2>0. c # EQUALS
    BY <1>9 DEF INVALID, EQUALS
  <2>1. in + 1 \in Significant(text)
    BY <1>3, <1>4, <2>0, DigitsNext
  <2>2. Collected'
    BY <1>9 DEF Collected
  <2>3. DecodeIsBase64'
    BY <1>2, <1>9, <2>1 DEF DecodeIsBase64
  <2> QED BY <1>1, <2>2, <2>3 DEF DecodeInv
<1>10. ASSUME c < WHITESPACE
       PROVE  /\ c # EQUALS /\ c # INVALID /\ in' = in + 1 /\ Shifted(c) \in Nat
              /\ Decoded(text, in', out, iter + 1, Shifted(c), g)
  <2>1. c # EQUALS /\ c # INVALID
    BY <1>3, <1>10 DEF WHITESPACE, EQUALS, INVALID, Char
  <2>2. in' = in + 1
    BY <1>2, <2>1
  <2>3. Decoded(text, in + 1, out, iter + 1, buf * 64 + c, g)
    BY <1>3, <1>4, <1>5, <1>10, DecodedShift
  <2>4. Shifted(c) \in Nat
    BY <1>3, ShiftedIsNat
  <2> QED BY <2>1, <2>2, <2>3, <2>4 DEF Shifted
<1>11. CASE /\ c < WHITESPACE /\ iter < 3
            /\ buf' = Shifted(c) /\ iter' = iter + 1 /\ UNCHANGED <<out, verdict>>
  <2>1. Collected'
    BY <1>2, <1>6, <1>10, <1>11 DEF Collected
  <2>2. DecodeIsBase64'
    BY <1>2, <1>11 DEF DecodeIsBase64
  <2> QED BY <1>1, <2>1, <2>2 DEF DecodeInv
<1>12. CASE c < WHITESPACE /\ iter = 3 /\ Emit(Group(Shifted(c)), "running")
  <2>1. Group(Shifted(c)) \in Seq(0 .. 255) /\ Len(Group(Shifted(c))) = 3
    BY <1>10, <1>12, GroupIsThreeBytes
  <2>2. ~(Len(out) + Len(Group(Shifted(c))) > room)
    BY <1>2, <1>3, <1>12, <2>1 DEF DecodeInv, RoomInv, Paid
  <2>3. out' = out \o Group(Shifted(c)) /\ buf' = 0 /\ iter' = 0 /\ verdict' = "running"
    BY <1>12, <2>2 DEF Emit
  <2>4. in' \in Int /\ Decoded(text, in', out, 4, Shifted(c), g)
    BY <1>3, <1>10, <1>12
  <2> DEFINE s == Shifted(c)
             n == in'
  <2>5. s \in Nat /\ n \in Int /\ Decoded(text, n, out, 4, s, g)
    BY <1>10, <1>12, <2>4
  <2> HIDE DEF s, n
  <2>6. Decoded(text, n, out \o Group(s), 0, 0, g + 1)
    BY <1>3, <2>5, DecodedGroup
  <2>7. Decoded(text', in', out', iter', buf', g + 1) /\ g + 1 \in Nat
    BY <1>2, <2>3, <2>6 DEF s, n
  <2>8. Collected'
    BY <1>2, <1>6, <1>10, <1>12, <2>7 DEF Collected
  <2>9. DecodeIsBase64'
    BY <2>3 DEF DecodeIsBase64
  <2> QED BY <1>1, <2>8, <2>9 DEF DecodeInv
<1> QED BY <1>7, <1>8, <1>9, <1>11, <1>12 DEF DecodeChar

\* The end: the bytes are the whole bytes the characters make.
LEMMA EndKeepsInv ==
    ASSUME DecodeInv, DecodeEnd
    PROVE  DecodeInv'
<1>1. RoomInv'
  BY EndKeepsRoom DEF DecodeInv
<1>2. /\ verdict = "running" /\ in = Len(text) /\ text' = text /\ Emit(Rest, "ok")
      /\ text \in Seq(Char) /\ out \in Seq(0 .. 255) /\ iter \in 0 .. 3 /\ buf \in Nat
      /\ Len(text) \in Nat
  BY DEF DecodeEnd, DecodeInv, RoomInv, DecodeTypeOK
<1>3. PICK g \in Nat : Decoded(text, in, out, iter, buf, g)
  BY <1>2 DEF DecodeInv, Collected
<1>4. Rest \in Seq(0 .. 255) /\ Len(Rest) <= iter /\ Len(Rest) \in Nat
  BY <1>2, RestIsShort
<1>5. out' = out \o Rest /\ verdict' = "ok"
  <2>1. ~(Len(out) + Len(Rest) > room)
    BY <1>2, <1>4 DEF DecodeInv, RoomInv, DecodeTypeOK, Paid
  <2> QED BY <1>2, <2>1 DEF Emit
<1>6. Fills(Rest, iter, buf) /\ Len(Rest) = (6 * iter) \div 8
  <2>1. CASE iter = 3
    BY <1>2, <2>1, RestOfThreeFills DEF Rest
  <2>2. CASE iter = 2
    BY <1>2, <2>2, RestOfTwoFills DEF Rest
  <2>3. CASE iter \in 0 .. 1
    <3>1. Rest = <<>> /\ Len(<<>>) = 0 /\ (6 * iter) \div 8 = 0
      BY <2>3 DEF Rest
    <3> QED BY <2>3, <3>1, NothingFills
  <2> QED BY <1>2, <2>1, <2>2, <2>3
<1>7. \A p \in Digits(text, Len(text)) : Holds(out', Index(text, p), text[p])
  <2>1. in \in Int /\ iter \in 0 .. 4
    BY <1>2
  <2>2. \A p \in Digits(text, in) : Holds(out \o Rest, Index(text, p), text[p])
    BY <1>2, <1>3, <1>4, <1>6, <2>1, DecodedEmit
  <2> QED BY <1>2, <1>5, <2>2
<1>8. Len(out') = (6 * Cardinality(Digits(text, Len(text)))) \div 8
  <2>1. Len(out) = 3 * g /\ Cardinality(Digits(text, Len(text))) = 4 * g + iter
    BY <1>2, <1>3 DEF Decoded
  <2>2. Len(out') = 3 * g + (6 * iter) \div 8
    <3>1. Len(out \o Rest) = Len(out) + Len(Rest)
      BY <1>2, <1>4, ConcatLen
    <3> QED BY <1>5, <1>6, <2>1, <3>1
  <2>3. 3 * g + (6 * iter) \div 8 = (6 * (4 * g + iter)) \div 8
    BY <1>2, WholeBytes
  <2> QED BY <2>1, <2>2, <2>3
<1>9. \A p \in Digits(text, Len(text)), b \in 0 .. 5 :
        LET i == 6 * Cardinality(Digits(text, p - 1)) + b IN
        i < 8 * Len(out') =>
          BitOf(out'[i \div 8 + 1], 8, i % 8) = BitOf(text[p], 6, b)
  <2> SUFFICES ASSUME NEW p \in Digits(text, Len(text)), NEW b \in 0 .. 5,
                      6 * Index(text, p) + b < 8 * Len(out')
               PROVE  BitOf(out'[(6 * Index(text, p) + b) \div 8 + 1], 8,
                            (6 * Index(text, p) + b) % 8) = BitOf(text[p], 6, b)
    BY DEF Index
  <2>1. Index(text, p) \in Nat
    BY <1>2, IndexBelow
  <2>2. text[p] \in 0 .. 63
    <3>1. text[p] \in Char /\ text[p] < WHITESPACE
      BY <1>2 DEF Digits, Significant
    <3> DEFINE d == text[p]
    <3>2. d \in Char /\ d < WHITESPACE
      BY <3>1
    <3> HIDE DEF d
    <3>3. d \in 0 .. 63
      BY <3>2 DEF Char, WHITESPACE
    <3> QED BY <3>3 DEF d
  <2>3. Holds(out', Index(text, p), text[p])
    BY <1>7
  <2>4. out' \in Seq(0 .. 255)
    BY <1>2, <1>4, <1>5
  <2> QED BY <2>1, <2>2, <2>3, <2>4, HoldsBits
<1>10. \A i \in Significant(text) : text[i] # INVALID
  BY <1>2 DEF DecodeInv, Collected, Significant
<1>11. DecodeIsBase64'
  BY <1>2, <1>5, <1>8, <1>9, <1>10 DEF DecodeIsBase64
<1>12. Collected'
  BY <1>5 DEF Collected
<1> QED BY <1>1, <1>11, <1>12 DEF DecodeInv

\* The locals are gone.
LEMMA GoneKeepsInv ==
    ASSUME EndDecode
    PROVE  DecodeInv'
<1>1. verdict' = "none"
  BY DEF EndDecode
<1> QED BY <1>1, GoneKeepsRoom DEF DecodeInv, Collected, DecodeIsBase64

\* What is not running is not disturbed.
LEMMA StutterKeepsInv ==
    ASSUME DecodeInv, UNCHANGED decodeVars
    PROVE  DecodeInv'
<1>1. RoomInv'
  BY StutterKeepsRoom DEF DecodeInv
<1> QED BY <1>1 DEF decodeVars, DecodeInv, Collected, DecodeIsBase64

\* Every step of base64decode keeps the invariant.
LEMMA DecodeInductive == DecodeSpec => []DecodeInv
<1>1. DecodeInit => DecodeInv
  BY DEF DecodeInit, DecodeInv, RoomInv, DecodeTypeOK, Paid, ErrorWasRead,
         Collected, DecodeIsBase64
<1>2. DecodeInv /\ [DecodeNext]_decodeVars => DecodeInv'
  <2> SUFFICES ASSUME DecodeInv, [DecodeNext]_decodeVars PROVE DecodeInv'
    OBVIOUS
  <2>1. CASE \E input \in Text : StartDecode(input)
    BY <2>1, StartKeepsInv
  <2>2. CASE DecodeChar
    BY <2>2, CharKeepsInv
  <2>3. CASE DecodeEnd
    BY <2>3, EndKeepsInv
  <2>4. CASE UNCHANGED decodeVars
    BY <2>4, StutterKeepsInv
  <2> QED BY <2>1, <2>2, <2>3, <2>4 DEF DecodeNext, Decode
<1> QED BY <1>1, <1>2, PTL DEF DecodeSpec

-----------------------------------------------------------------------------

\* For every text, base64decode consumes no more characters than there are and
\* writes bytes.
THEOREM DecodeTypeCorrect == DecodeSpec => []DecodeTypeOK
<1>1. DecodeInv => DecodeTypeOK
  BY DEF DecodeInv, RoomInv
<1> QED BY DecodeInductive, <1>1, PTL

\* For every text, the buffer of trampoline is never too small: base64decode
\* fails at an invalid character and nowhere else.
THEOREM NeverOutOfRoom == DecodeSpec => []ErrorMeansInvalid
<1>1. DecodeInv => ErrorMeansInvalid
  BY DEF DecodeInv, RoomInv, Paid, ErrorWasRead, ErrorMeansInvalid
<1> QED BY DecodeInductive, <1>1, PTL

\* For every text, whatever whitespace and padding it has: base64decode fails
\* exactly when an invalid character counts, and otherwise the bits it writes
\* are the bits of the characters, as many whole bytes as they make.
THEOREM DecodesAsBase64 == DecodeSpec => []DecodeIsBase64
<1>1. DecodeInv => DecodeIsBase64
  BY DEF DecodeInv
<1> QED BY DecodeInductive, <1>1, PTL

===============================================================================
