-------------------------------- MODULE Base64 --------------------------------
(***************************************************************************)
(* base64decode of sblibc.c.  A character appears as its entry in the      *)
(* table d[]: its six bits, or one of the three classes behind them.  One  *)
(* turn of the loop is a step.  The caller is trampoline, whose buffer has *)
(* one byte more than the text has characters.                             *)
(***************************************************************************)
EXTENDS Integers, Sequences, FiniteSets

WHITESPACE == 64
EQUALS == 65
INVALID == 66
Char == 0 .. 66

CONSTANT Text   \* the texts to decode
ASSUME TextAssumption == Text \subseteq Seq(Char)

VARIABLES
    text,    \* the characters of the input
    in,      \* how many of them are consumed
    iter,    \* characters in buf
    buf,     \* the bits collected since the last full group
    out,     \* the bytes written; len is their number
    room,    \* *outLen on entry, the size of the caller's buffer
    verdict  \* "none" before the call, "running", then "ok" or "error"

decodeVars == <<text, in, iter, buf, out, room, verdict>>

DecodeInit ==
    /\ text = <<>> /\ in = 0 /\ iter = 0 /\ buf = 0 /\ out = <<>>
    /\ room = 0 /\ verdict = "none"

\* Mutant of StartDecode: a buffer for the whole groups of the text only.
StartDecodeTight(input) ==
    /\ text' = input /\ in' = 0 /\ iter' = 0 /\ buf' = 0 /\ out' = <<>>
    /\ room' = 3 * (Len(input) \div 4) /\ verdict' = "running"

\* malloc(b64_len) and the call.
StartDecode(input) ==
    /\ text' = input /\ in' = 0 /\ iter' = 0 /\ buf' = 0 /\ out' = <<>>
    /\ room' = Len(input) + 1 /\ verdict' = "running"

\* The buffer is freed and the locals are gone.
EndDecode ==
    /\ text' = <<>> /\ in' = 0 /\ iter' = 0 /\ buf' = 0 /\ out' = <<>>
    /\ room' = 0 /\ verdict' = "none"

-----------------------------------------------------------------------------
\* (b >> k) & 255, the shift given as a power of two.
ByteAt(b, power) == (b \div power) % 256

\* "if ((len += n) > *outLen) return 1;" and the stores behind it.
Emit(bytes, next) ==
    IF Len(out) + Len(bytes) > room
    THEN verdict' = "error" /\ UNCHANGED <<iter, buf, out>>
    ELSE out' = out \o bytes /\ buf' = 0 /\ iter' = 0 /\ verdict' = next

\* buf << 6 | c
Shifted(c) == buf * 64 + c

\* Four characters are three bytes.
Group(b) == <<ByteAt(b, 65536), ByteAt(b, 256), ByteAt(b, 1)>>

\* Mutant of Rest: the bits of an unfinished group are taken from its low end.
RestUnaligned ==
    CASE iter = 3 -> <<ByteAt(buf, 256), ByteAt(buf, 1)>>
      [] iter = 2 -> <<ByteAt(buf, 1)>>
      [] OTHER -> <<>>

\* What an unfinished group holds; a single character is dropped.
Rest ==
    CASE iter = 3 -> <<ByteAt(buf, 1024), ByteAt(buf, 4)>>
      [] iter = 2 -> <<ByteAt(buf, 16)>>
      [] OTHER -> <<>>

DecodeChar ==
    /\ verdict = "running" /\ in < Len(text)
    /\ LET c == text[in + 1] IN
       /\ in' = IF c = EQUALS THEN Len(text) ELSE in + 1   \* in = end
       /\ \/ c \in {WHITESPACE, EQUALS} /\ UNCHANGED <<iter, buf, out, verdict>>
          \/ c = INVALID /\ verdict' = "error" /\ UNCHANGED <<iter, buf, out>>
          \/ /\ c < WHITESPACE /\ iter < 3
             /\ buf' = Shifted(c) /\ iter' = iter + 1 /\ UNCHANGED <<out, verdict>>
          \/ c < WHITESPACE /\ iter = 3 /\ Emit(Group(Shifted(c)), "running")
    /\ UNCHANGED <<text, room>>

DecodeEnd ==
    /\ verdict = "running" /\ in >= Len(text)
    /\ Emit(Rest, "ok")
    /\ UNCHANGED <<text, in, room>>

Decode == DecodeChar \/ DecodeEnd

\* The algorithm for itself: one text after the other.
DecodeNext ==
    \/ verdict # "running" /\ \E input \in Text : StartDecode(input)
    \/ Decode

DecodeSpec == DecodeInit /\ [][DecodeNext]_decodeVars

-----------------------------------------------------------------------------
(* Properties *)

DecodeTypeOK ==
    /\ text \in Seq(Char) /\ in \in 0 .. Len(text)
    /\ iter \in 0 .. 3 /\ buf \in Nat
    /\ out \in Seq(0 .. 255) /\ room \in Nat
    /\ verdict \in {"none", "running", "ok", "error"}

\* The buffer trampoline allocates is always large enough: the tests for its
\* end in base64decode never reject a text, so an error means that the text
\* has a character that is not base64, and it is one that was reached.
ErrorMeansInvalid ==
    /\ Len(out) <= room
    /\ verdict = "error" => in > 0 /\ text[in] = INVALID

\* The positions of text t that count: those before its first pad character.
Significant(t) == {i \in DOMAIN t : \A j \in 1 .. i : t[j] # EQUALS}

\* The base64 characters among the first n of them.
Digits(t, n) == {i \in Significant(t) : i <= n /\ t[i] < WHITESPACE}

\* Bit i, from the high end, of a number of the given width.
Power == <<1, 2, 4, 8, 16, 32, 64, 128>>
BitOf(n, width, i) == (n \div Power[width - i]) % 2

\* Against the definition of base64: the bits of the bytes are the bits of
\* the characters, as many whole bytes as they make, wherever whitespace and
\* padding are; and everything without an invalid character is decoded.
DecodeIsBase64 ==
    verdict \in {"ok", "error"} =>
        /\ verdict = "error" <=> \E i \in Significant(text) : text[i] = INVALID
        /\ verdict = "ok" =>
             /\ Len(out) = (6 * Cardinality(Digits(text, Len(text)))) \div 8
             /\ \A p \in Digits(text, Len(text)), b \in 0 .. 5 :
                  LET i == 6 * Cardinality(Digits(text, p - 1)) + b IN
                  i < 8 * Len(out) =>
                    BitOf(out[i \div 8 + 1], 8, i % 8) = BitOf(text[p], 6, b)

===============================================================================
