------------------------------- MODULE Base64 -------------------------------
(* tools/base64.*: a message's payload is decoded by b64_decode when the queue *)
(* takes it, and the header of the registration is encoded by b64_encode.      *)
(* Characters are their codes, bytes are 0 to 255.                             *)
EXTENDS Integers, Sequences

CONSTANTS Bytes,    \* the bytes payloads are made of
          MaxLen    \* bound on the length of a payload

VARIABLES input, encoded, output, pc

vars == <<input, encoded, output, pc>>

------------------------------------------------------------------------------
(* The two tables. *)

ENC_B64 == [v \in 0 .. 63 |->
    IF v < 26 THEN v + 65 ELSE IF v < 52 THEN v + 71
    ELSE IF v < 62 THEN v - 4 ELSE IF v = 62 THEN 43 ELSE 47]

B64_ALPH == [ch \in 0 .. 255 |->
    IF ch \in 65 .. 90 THEN ch - 65 ELSE IF ch \in 97 .. 122 THEN ch - 71
    ELSE IF ch \in 48 .. 57 THEN ch + 4
    ELSE IF ch = 43 THEN 62 ELSE IF ch = 47 THEN 63 ELSE 0]

PAD == 61

------------------------------------------------------------------------------
(* Decoding: four characters are 24 bits, 24 bits are three bytes. *)

\* The group of the four characters after the q-th group; the fields do not
\* overlap, so | is +.
DecodeLine(text, q) ==
    LET v(k) == B64_ALPH[text[4 * q + k]]
    IN  64 * (64 * (64 * v(1) + v(2)) + v(3)) + v(4)

ByteAt(text, j) ==
    LET line == DecodeLine(text, (j - 1) \div 3)
        k == (j - 1) % 3
    IN  IF k = 0 THEN ((line \div 256) \div 256) % 256
        ELSE IF k = 1 THEN (line \div 256) % 256
        ELSE line % 256

PadOf(text) == (IF text[Len(text)] = PAD THEN 1 ELSE 0)
               + (IF text[Len(text) - 1] = PAD THEN 1 ELSE 0)
BytesIn(text) == (Len(text) * 6 - PadOf(text) * 4) \div 8
DecodedLen(text) == IF PadOf(text) > 0 THEN BytesIn(text) - 1 ELSE BytesIn(text)

\* For a positive multiple of four characters; the code reads past the end of
\* any other text.
b64_decode(text) == [j \in 1 .. DecodedLen(text) |-> ByteAt(text, j)]

------------------------------------------------------------------------------
(* Encoding. *)

Groups(n) == (n + 2) \div 3

\* Missing bytes are the pad counter as it stands: the first is 0, the second 1.
EncodeByte(s, q, k) ==
    IF 3 * q + k <= Len(s) THEN s[3 * q + k] ELSE 3 * q + k - Len(s) - 1

\* char is signed: a byte above 127 brings ones into all bits above it.
EncodeLine(a, b, c) ==
    IF c > 127 THEN 256 * (256 * 255 + 255) + c
    ELSE IF b > 127 THEN 256 * (256 * 255 + b) + c
    ELSE 256 * (256 * a + b) + c

\* The k-th of the four values of 24 bits.
Six(line, k) ==
    IF k = 0 THEN (((line \div 64) \div 64) \div 64) % 64
    ELSE IF k = 1 THEN ((line \div 64) \div 64) % 64
    ELSE IF k = 2 THEN (line \div 64) % 64
    ELSE line % 64

\* The characters of all groups; PAD where no bit of a byte is left.
Text(n, line) ==
    [i \in 1 .. 4 * Groups(n) |->
        LET q == (i - 1) \div 4
            k == (i - 1) % 4
        IN  IF 3 * q + k > n THEN PAD ELSE ENC_B64[Six(line[q], k)]]

b64_encode(s) ==
    Text(Len(s), [q \in 0 .. Groups(Len(s)) - 1 |->
        EncodeLine(EncodeByte(s, q, 1), EncodeByte(s, q, 2), EncodeByte(s, q, 3))])

\* What the server's encoder sends: the bits of the bytes, and zeros after them.
Standard(s) ==
    LET byte(i) == IF i <= Len(s) THEN s[i] ELSE 0
    IN  Text(Len(s), [q \in 0 .. Groups(Len(s)) - 1 |->
            256 * (256 * byte(3 * q + 1) + byte(3 * q + 2)) + byte(3 * q + 3)])

------------------------------------------------------------------------------
Init ==
    /\ \E n \in 1 .. MaxLen : input \in [1 .. n -> Bytes]
    /\ encoded = << >> /\ output = << >> /\ pc = "send"

Send ==
    /\ pc = "send" /\ pc' = "decode"
    /\ encoded' = Standard(input)
    /\ UNCHANGED <<input, output>>

Decode ==
    /\ pc = "decode" /\ pc' = "done"
    /\ output' = b64_decode(encoded)
    /\ UNCHANGED <<input, encoded>>

Next == Send \/ Decode

Spec == Init /\ [][Next]_vars

------------------------------------------------------------------------------
\* Refuted: what is decoded is what was sent.  Of a payload that ends with one
\* pad character the last byte is cut off as well (base64.cpp:47).
DecodedAsSent == pc = "done" => output = input

\* The same of every other payload, whatever its length; PayloadsDecoded of
\* Base64Proofs.
DecodedUnlessOnePad == Len(input) % 3 # 2 => DecodedAsSent

==============================================================================
