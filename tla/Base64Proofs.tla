----------------------------- MODULE Base64Proofs -----------------------------
(* Base64 of any length: the encoder agrees with the standard on plain text,   *)
(* and the decoder gives back every payload that is not two bytes more than a  *)
(* multiple of three.                                                          *)
EXTENDS Base64, SequenceTheorems, TLAPS

Byte == 0 .. 255
Sextet == 0 .. 63

\* Three bytes as 24 bits, and the k-th byte of 24 bits.
Join(a, b, c) == 256 * (256 * a + b) + c
Split(x, k) == IF k = 0 THEN ((x \div 256) \div 256) % 256
               ELSE IF k = 1 THEN (x \div 256) % 256 ELSE x % 256
Top(x) == (x \div 256) \div 256

\* The tables are inverse, and no encoded value looks like padding.
LEMMA Tables ==
    /\ \A v \in Sextet : /\ ENC_B64[v] # PAD
                         /\ B64_ALPH[ENC_B64[v]] = v
    /\ B64_ALPH[PAD] = 0
  BY SMT DEF ENC_B64, B64_ALPH, PAD, Sextet

\* Twenty-four bits are four values of six bits.
LEMMA Sixes ==
    ASSUME NEW x \in Nat, Top(x) \in Byte
    PROVE  \E a, b, c, d \in Sextet :
              /\ Six(x, 0) = a /\ Six(x, 1) = b /\ Six(x, 2) = c /\ Six(x, 3) = d
              /\ x = 64 * (64 * (64 * a + b) + c) + d
<1>1. PICK y \in Nat, d \in Sextet : x = 64 * y + d /\ x \div 64 = y /\ x % 64 = d
  <2>1. x \div 64 \in Nat /\ (x % 64) \in Sextet /\ x = 64 * (x \div 64) + (x % 64)
    BY SMT DEF Sextet
  <2> QED
    BY SMT, <2>1
<1>2. PICK z \in Nat, c \in Sextet : y = 64 * z + c /\ y \div 64 = z /\ y % 64 = c
  <2>1. y \div 64 \in Nat /\ (y % 64) \in Sextet /\ y = 64 * (y \div 64) + (y % 64)
    BY SMT DEF Sextet
  <2> QED
    BY SMT, <2>1
<1>3. PICK a \in Sextet, b \in Sextet : z = 64 * a + b /\ z \div 64 = a /\ z % 64 = b
  <2>1. z \div 64 \in Nat /\ (z % 64) \in Sextet /\ z = 64 * (z \div 64) + (z % 64)
    BY SMT DEF Sextet
  <2>2. z \div 64 \in Sextet
    BY SMT, <1>1, <1>2, <2>1 DEF Sextet, Byte, Top
  <2> QED
    BY SMT, <2>1, <2>2
<1>4. a % 64 = a
  BY SMT DEF Sextet
<1>5. Six(x, 0) = a /\ Six(x, 1) = b /\ Six(x, 2) = c /\ Six(x, 3) = d
  BY SMT, <1>1, <1>2, <1>3, <1>4 DEF Six
<1>6. x = 64 * (64 * (64 * a + b) + c) + d
  BY SMT, <1>1, <1>2, <1>3 DEF Sextet
<1> WITNESS a \in Sextet, b \in Sextet, c \in Sextet, d \in Sextet
<1> QED
  BY <1>5, <1>6

\* Twenty-four bits are three bytes; the last values of six bits are zero where
\* the last bytes are.
LEMMA Eights ==
    ASSUME NEW a \in Byte, NEW b \in Byte, NEW c \in Byte,
           NEW x, x = Join(a, b, c)
    PROVE  /\ x \in Nat /\ Top(x) \in Byte
           /\ Split(x, 0) = a /\ Split(x, 1) = b /\ Split(x, 2) = c
           /\ c = 0 => Six(x, 3) = 0
           /\ b = 0 /\ c = 0 => Six(x, 2) = 0
<1>1. x \in Nat /\ x = 256 * (256 * a + b) + c
  BY SMT DEF Byte, Join
<1>2. x \div 256 = 256 * a + b /\ (256 * a + b) % 256 = b /\ (256 * a + b) \div 256 = a
  BY SMT, <1>1 DEF Byte
<1>3. x % 256 = c /\ a % 256 = a
  BY SMT, <1>1 DEF Byte
<1>4. c = 0 => x % 64 = 0
  BY SMT, <1>1 DEF Byte
<1>5. b = 0 /\ c = 0 => x \div 64 = 1024 * a /\ (1024 * a) % 64 = 0
  BY SMT, <1>1 DEF Byte
<1> QED
  BY SMT, <1>1, <1>2, <1>3, <1>4, <1>5 DEF Six, Split, Top

\* The four characters of a group.
LEMMA TextGroup ==
    ASSUME NEW n \in Nat, NEW line, NEW q \in 0 .. Groups(n) - 1
    PROVE  /\ Text(n, line)[4 * q + 1] = ENC_B64[Six(line[q], 0)]
           /\ Text(n, line)[4 * q + 2] = ENC_B64[Six(line[q], 1)]
           /\ Text(n, line)[4 * q + 3] =
                 IF 3 * q + 1 >= n THEN PAD ELSE ENC_B64[Six(line[q], 2)]
           /\ Text(n, line)[4 * q + 4] =
                 IF 3 * q + 2 >= n THEN PAD ELSE ENC_B64[Six(line[q], 3)]
<1>1. Groups(n) \in Nat /\ q \in Nat /\ 3 * q < n
  BY SMT DEF Groups
<1>2. ASSUME NEW k \in 0 .. 3
      PROVE  Text(n, line)[4 * q + k + 1] =
                IF 3 * q + k > n THEN PAD ELSE ENC_B64[Six(line[q], k)]
  <2>1. 4 * q + k + 1 \in 1 .. 4 * Groups(n)
    BY SMT, <1>1
  <2>2. (4 * q + k + 1 - 1) \div 4 = q /\ (4 * q + k + 1 - 1) % 4 = k
    BY SMT, <1>1
  <2> QED
    BY SMT, <2>1, <2>2 DEF Text
<1>3. /\ 4 * q + 0 + 1 = 4 * q + 1 /\ 4 * q + 1 + 1 = 4 * q + 2
      /\ 4 * q + 2 + 1 = 4 * q + 3 /\ 4 * q + 3 + 1 = 4 * q + 4
  BY SMT, <1>1
<1>4. Text(n, line)[4 * q + 1] = ENC_B64[Six(line[q], 0)]
  BY SMT, <1>1, <1>2, <1>3
<1>5. Text(n, line)[4 * q + 2] = ENC_B64[Six(line[q], 1)]
  BY SMT, <1>1, <1>2, <1>3
<1>6. Text(n, line)[4 * q + 3] = IF 3 * q + 2 > n THEN PAD ELSE ENC_B64[Six(line[q], 2)]
  BY SMT, <1>1, <1>2, <1>3
<1>7. Text(n, line)[4 * q + 4] = IF 3 * q + 3 > n THEN PAD ELSE ENC_B64[Six(line[q], 3)]
  BY SMT, <1>1, <1>2, <1>3
<1> QED
  BY SMT, <1>1, <1>4, <1>5, <1>6, <1>7

\* The value of a group of the standard text.
StandardByte(s, i) == IF i <= Len(s) THEN s[i] ELSE 0
StandardLine(s, q) ==
    Join(StandardByte(s, 3 * q + 1), StandardByte(s, 3 * q + 2), StandardByte(s, 3 * q + 3))

LEMMA ByteRange ==
    ASSUME NEW s \in Seq(Byte), NEW i \in Nat, i > 0
    PROVE  StandardByte(s, i) \in Byte
<1>1. CASE i <= Len(s)
  <2>1. i \in 1 .. Len(s)
    BY SMT, <1>1
  <2>2. s[i] \in Byte
    BY <2>1, ElementOfSeq
  <2> QED
    BY <1>1, <2>2 DEF StandardByte
<1>2. CASE ~(i <= Len(s))
  BY SMT, <1>2 DEF StandardByte, Byte
<1> QED
  BY <1>1, <1>2

LEMMA StandardText ==
    ASSUME NEW s
    PROVE  Standard(s) = Text(Len(s), [q \in 0 .. Groups(Len(s)) - 1 |-> StandardLine(s, q)])
  BY SMT DEF Standard, StandardLine, StandardByte, Join

\* The bytes and the values of a group.
LEMMA GroupBits ==
    ASSUME NEW s \in Seq(Byte), NEW q \in Nat
    PROVE  /\ StandardLine(s, q) \in Nat /\ Top(StandardLine(s, q)) \in Byte
           /\ Split(StandardLine(s, q), 0) = StandardByte(s, 3 * q + 1)
           /\ Split(StandardLine(s, q), 1) = StandardByte(s, 3 * q + 2)
           /\ Split(StandardLine(s, q), 2) = StandardByte(s, 3 * q + 3)
           /\ 3 * q + 2 >= Len(s) => Six(StandardLine(s, q), 3) = 0
           /\ 3 * q + 1 >= Len(s) => Six(StandardLine(s, q), 2) = 0
<1>1. /\ StandardByte(s, 3 * q + 1) \in Byte
      /\ StandardByte(s, 3 * q + 2) \in Byte
      /\ StandardByte(s, 3 * q + 3) \in Byte
  BY SMT, ByteRange
<1>2. Len(s) \in Nat
  BY LenProperties
<1>3. 3 * q + 2 >= Len(s) => StandardByte(s, 3 * q + 3) = 0
  BY SMT, <1>2 DEF StandardByte
<1>4. 3 * q + 1 >= Len(s) =>
          StandardByte(s, 3 * q + 2) = 0 /\ StandardByte(s, 3 * q + 3) = 0
  BY SMT, <1>2 DEF StandardByte
<1> QED
  BY <1>1, <1>3, <1>4, Eights DEF StandardLine

\* A group is decoded to the bits it was encoded from, padding included.
LEMMA DecodedLine ==
    ASSUME NEW s \in Seq(Byte), NEW q \in 0 .. Groups(Len(s)) - 1
    PROVE  DecodeLine(Standard(s), q) = StandardLine(s, q)
<1> DEFINE n == Len(s)
           T == Standard(s)
<1>1. n \in Nat /\ q \in Nat
  BY SMT, LenProperties DEF Groups
<1>2. PICK x \in Nat : x = StandardLine(s, q) /\ Top(x) \in Byte
  BY <1>1, GroupBits
<1>3. PICK a, b, c, d \in Sextet :
          /\ Six(x, 0) = a /\ Six(x, 1) = b /\ Six(x, 2) = c /\ Six(x, 3) = d
          /\ x = 64 * (64 * (64 * a + b) + c) + d
  BY <1>2, Sixes
<1>4. /\ T[4 * q + 1] = ENC_B64[a]
      /\ T[4 * q + 2] = ENC_B64[b]
      /\ T[4 * q + 3] = IF 3 * q + 1 >= n THEN PAD ELSE ENC_B64[c]
      /\ T[4 * q + 4] = IF 3 * q + 2 >= n THEN PAD ELSE ENC_B64[d]
  <2> DEFINE line == [r \in 0 .. Groups(n) - 1 |-> StandardLine(s, r)]
  <2>1. T = Text(n, line) /\ line[q] = x
    BY <1>2, StandardText
  <2> HIDE DEF line, T
  <2> QED
    BY <1>1, <1>3, <2>1, TextGroup
<1>5. (3 * q + 1 >= n => c = 0) /\ (3 * q + 2 >= n => d = 0)
  <2>1. /\ 3 * q + 2 >= n => Six(StandardLine(s, q), 3) = 0
        /\ 3 * q + 1 >= n => Six(StandardLine(s, q), 2) = 0
    BY <1>1, GroupBits
  <2> QED
    BY <1>2, <1>3, <2>1
<1>6. /\ B64_ALPH[T[4 * q + 1]] = a /\ B64_ALPH[T[4 * q + 2]] = b
      /\ B64_ALPH[T[4 * q + 3]] = c /\ B64_ALPH[T[4 * q + 4]] = d
  BY <1>4, <1>5, Tables
<1>7. DecodeLine(T, q) = 64 * (64 * (64 * a + b) + c) + d
  BY <1>6 DEF DecodeLine
<1> QED
  BY <1>2, <1>3, <1>7

\* The length, which is where two bytes in the last group go wrong.
LEMMA DecodedLength ==
    ASSUME NEW s \in Seq(Byte), Len(s) > 0, Len(s) % 3 # 2
    PROVE  DecodedLen(Standard(s)) = Len(s)
<1> DEFINE T == Standard(s)
<1>1. PICK n \in Nat : n = Len(s) /\ n > 0 /\ n % 3 # 2
  BY LenProperties
<1>2. PICK q \in Nat : Groups(n) = q + 1 /\ (n = 3 * q + 1 \/ n = 3 * q + 3)
  <2>1. Groups(n) - 1 \in Nat /\ Groups(n) = Groups(n) - 1 + 1
    BY SMT, <1>1 DEF Groups
  <2>2. n = 3 * (Groups(n) - 1) + 1 \/ n = 3 * (Groups(n) - 1) + 3
    BY SMT, <1>1 DEF Groups
  <2> QED
    BY <2>1, <2>2
<1>3. PICK c, d \in Sextet :
        /\ T[4 * q + 3] = IF 3 * q + 1 >= n THEN PAD ELSE ENC_B64[c]
        /\ T[4 * q + 4] = IF 3 * q + 2 >= n THEN PAD ELSE ENC_B64[d]
  <2> DEFINE line == [r \in 0 .. Groups(n) - 1 |-> StandardLine(s, r)]
  <2>1. q \in 0 .. Groups(n) - 1
    BY SMT, <1>2
  <2>2. T = Text(n, line) /\ line[q] = StandardLine(s, q)
    BY <1>1, <2>1, StandardText
  <2>3. PICK x \in Nat : x = StandardLine(s, q) /\ Top(x) \in Byte
    BY GroupBits
  <2>4. PICK c, d \in Sextet : Six(x, 2) = c /\ Six(x, 3) = d
    BY <2>3, Sixes
  <2> HIDE DEF line, T
  <2> QED
    BY <2>1, <2>2, <2>3, <2>4, TextGroup
<1>4. Len(T) = 4 * q + 4
  <2>1. 4 * Groups(n) \in Nat /\ 4 * Groups(n) = 4 * q + 4
    BY SMT, <1>2
  <2>2. Len(T) = 4 * Groups(n)
    BY SMT, <1>1, <2>1, StandardText DEF Text
  <2> QED
    BY <2>1, <2>2
<1>5. CASE n = 3 * q + 3
  <2>1. T[4 * q + 3] # PAD /\ T[4 * q + 4] # PAD
    <3>1. ~(3 * q + 1 >= n) /\ ~(3 * q + 2 >= n)
      BY SMT, <1>5
    <3> QED
      BY <1>3, <3>1, Tables
  <2>2. Len(T) - 1 = 4 * q + 3
    BY SMT, <1>4
  <2>3. PadOf(T) = 0
    BY SMT, <1>4, <2>1, <2>2 DEF PadOf
  <2>4. ((4 * q + 4) * 6 - 0 * 4) \div 8 = n
    BY SMT, <1>5
  <2>5. BytesIn(T) = n
    BY <1>4, <2>3, <2>4 DEF BytesIn
  <2>6. DecodedLen(T) = n
    BY SMT, <2>3, <2>5 DEF DecodedLen
  <2> QED
    BY <1>1, <2>6
<1>6. CASE n = 3 * q + 1
  <2>1. T[4 * q + 3] = PAD /\ T[4 * q + 4] = PAD
    <3>1. 3 * q + 1 >= n /\ 3 * q + 2 >= n
      BY SMT, <1>6
    <3> QED
      BY <1>3, <3>1
  <2>2. Len(T) - 1 = 4 * q + 3
    BY SMT, <1>4
  <2>3. PadOf(T) = 2
    BY SMT, <1>4, <2>1, <2>2 DEF PadOf
  <2>4. ((4 * q + 4) * 6 - 2 * 4) \div 8 = n + 1
    BY SMT, <1>6
  <2>5. BytesIn(T) = n + 1
    BY <1>4, <2>3, <2>4 DEF BytesIn
  <2>6. DecodedLen(T) = n
    BY SMT, <2>3, <2>5 DEF DecodedLen
  <2> QED
    BY <1>1, <2>6
<1> QED
  BY <1>1, <1>2, <1>5, <1>6

\* Every payload but the ones that are two bytes more than a multiple of three is
\* decoded to the bytes that were sent, whatever its length (base64.cpp:7-51).
THEOREM DecodesUnlessOnePad ==
    ASSUME NEW s \in Seq(Byte), Len(s) > 0, Len(s) % 3 # 2
    PROVE  b64_decode(Standard(s)) = s
<1> DEFINE T == Standard(s)
<1>1. PICK n \in Nat : n = Len(s)
  BY LenProperties
<1>2. b64_decode(T) = [j \in 1 .. n |-> ByteAt(T, j)]
  BY <1>1, DecodedLength DEF b64_decode
<1>3. ASSUME NEW j \in 1 .. n
      PROVE  ByteAt(T, j) = s[j]
  <2>1. PICK q \in 0 .. Groups(n) - 1, k \in 0 .. 2 :
          (j - 1) \div 3 = q /\ (j - 1) % 3 = k /\ j = 3 * q + k + 1
    <3>1. /\ (j - 1) \div 3 \in 0 .. Groups(n) - 1
          /\ (j - 1) % 3 \in 0 .. 2
          /\ j = 3 * ((j - 1) \div 3) + ((j - 1) % 3) + 1
      BY SMT DEF Groups
    <3> QED
      BY SMT, <3>1
  <2>2. DecodeLine(T, q) = StandardLine(s, q) /\ q \in Nat
    BY SMT, <1>1, <2>1, DecodedLine DEF Groups
  <2>3. ByteAt(T, j) = Split(StandardLine(s, q), k)
    BY <2>1, <2>2 DEF ByteAt, Split
  <2>4. /\ Split(StandardLine(s, q), 0) = StandardByte(s, 3 * q + 1)
        /\ Split(StandardLine(s, q), 1) = StandardByte(s, 3 * q + 2)
        /\ Split(StandardLine(s, q), 2) = StandardByte(s, 3 * q + 3)
    BY <2>2, GroupBits
  <2>6. /\ k = 0 => 3 * q + 1 = j
        /\ k = 1 => 3 * q + 2 = j
        /\ k = 2 => 3 * q + 3 = j
    BY SMT, <2>1, <2>2
  <2>7. k = 0 \/ k = 1 \/ k = 2
    BY SMT, <2>1
  <2>8. StandardByte(s, j) = s[j]
    BY SMT, <1>1 DEF StandardByte
  <2> QED
    BY <2>3, <2>4, <2>6, <2>7, <2>8
<1>4. s = [j \in 1 .. n |-> s[j]]
  BY <1>1, SMT
<1>5. [j \in 1 .. n |-> ByteAt(T, j)] = [j \in 1 .. n |-> s[j]]
  <2> HIDE DEF T
  <2> QED
    BY <1>3, Zenon
<1> QED
  BY <1>2, <1>4, <1>5, Zenon

\* Text without a byte above 127 is encoded as the standard says, although the
\* bytes that fill its last group are not zero (base64.cpp:53-85).
THEOREM EncodesPlainText ==
    ASSUME NEW s \in Seq(0 .. 127)
    PROVE  b64_encode(s) = Standard(s)
<1> DEFINE G == 0 .. Groups(Len(s)) - 1
           L(q) == EncodeLine(EncodeByte(s, q, 1), EncodeByte(s, q, 2), EncodeByte(s, q, 3))
           t == [q \in G |-> StandardLine(s, q)]
           e == [q \in G |-> L(q)]
<1>1. PICK n \in Nat : n = Len(s)
  BY LenProperties
<1>2. s \in Seq(Byte)
  BY SMT DEF Byte
<1>3. ASSUME NEW q \in G, NEW k \in 0 .. 3, ~(3 * q + k > n)
      PROVE  Six(L(q), k) = Six(StandardLine(s, q), k)
  <2>1. q \in Nat /\ 3 * q + 1 <= n
    BY SMT, <1>1 DEF Groups
  <2>2. ASSUME NEW i \in 1 .. n
        PROVE  s[i] \in 0 .. 127
    BY <1>1, ElementOfSeq
  <2>3. PICK a \in 0 .. 127 : a = s[3 * q + 1]
    BY SMT, <2>1, <2>2
  <2>4. CASE 3 * q + 2 <= n
    <3>1. PICK b \in 0 .. 127, c \in 0 .. 127 :
            /\ EncodeByte(s, q, 2) = b /\ EncodeByte(s, q, 3) = c
            /\ StandardByte(s, 3 * q + 2) = b /\ StandardByte(s, 3 * q + 3) = c
      <4>1. s[3 * q + 2] \in 0 .. 127
        BY SMT, <2>1, <2>2, <2>4
      <4>2. EncodeByte(s, q, 2) = s[3 * q + 2] /\ StandardByte(s, 3 * q + 2) = s[3 * q + 2]
        BY <1>1, <2>4 DEF EncodeByte, StandardByte
      <4>3. CASE 3 * q + 3 <= n
        <5>1. s[3 * q + 3] \in 0 .. 127
          BY SMT, <2>1, <2>2, <4>3
        <5> QED
          BY <1>1, <4>1, <4>2, <4>3, <5>1 DEF EncodeByte, StandardByte
      <4>4. CASE ~(3 * q + 3 <= n)
        <5>1. 3 * q + 3 - n - 1 = 0 /\ 0 \in 0 .. 127
          BY SMT, <2>1, <2>4, <4>4
        <5> QED
          BY <1>1, <4>1, <4>2, <4>4, <5>1 DEF EncodeByte, StandardByte
      <4> QED
        BY <4>3, <4>4
    <3>2. EncodeByte(s, q, 1) = a /\ StandardByte(s, 3 * q + 1) = a
      BY <1>1, <2>1, <2>3 DEF EncodeByte, StandardByte
    <3>3. ~(b > 127) /\ ~(c > 127)
      BY SMT
    <3>4. L(q) = StandardLine(s, q)
      BY <3>1, <3>2, <3>3 DEF EncodeLine, StandardLine, Join
    <3> QED
      BY <3>4
  <2>5. CASE ~(3 * q + 2 <= n)
    <3>1. n = 3 * q + 1 /\ (k = 0 \/ k = 1)
      BY SMT, <2>1, <2>5, <1>3
    <3>2. /\ EncodeByte(s, q, 1) = a /\ StandardByte(s, 3 * q + 1) = a
          /\ StandardByte(s, 3 * q + 2) = 0 /\ StandardByte(s, 3 * q + 3) = 0
      BY SMT, <1>1, <2>1, <2>3, <3>1 DEF EncodeByte, StandardByte
    <3>3. EncodeByte(s, q, 2) = 0 /\ EncodeByte(s, q, 3) = 1
      BY SMT, <1>1, <2>1, <3>1 DEF EncodeByte
    <3>4. PICK x \in Nat : StandardLine(s, q) = x /\ L(q) = x + 1 /\ x \div 64 = (x + 1) \div 64
      <4> DEFINE y == 256 * (256 * a + 0)
      <4>1. y \in Nat /\ y + 0 \in Nat /\ (y + 0) \div 64 = (y + 0 + 1) \div 64
        BY SMT
      <4>2. y + 1 = y + 0 + 1
        BY SMT
      <4>3. StandardLine(s, q) = y + 0
        BY <3>2 DEF StandardLine, Join
      <4>4. L(q) = y + 1
        <5>1. ~(0 > 127) /\ ~(1 > 127)
          BY SMT
        <5> QED
          BY <3>2, <3>3, <5>1 DEF EncodeLine
      <4> HIDE DEF y
      <4> QED
        BY <4>1, <4>2, <4>3, <4>4
    <3> QED
      BY <3>1, <3>4 DEF Six
  <2> QED
    BY <2>4, <2>5
<1>4. Text(Len(s), e) = Text(Len(s), t)
  <2> DEFINE C(line, i) == IF 3 * ((i - 1) \div 4) + ((i - 1) % 4) > n THEN PAD
                           ELSE ENC_B64[Six(line[(i - 1) \div 4], (i - 1) % 4)]
  <2>1. ASSUME NEW i \in 1 .. 4 * Groups(n)
        PROVE  C(e, i) = C(t, i)
    <3>1. (i - 1) \div 4 \in G /\ (i - 1) % 4 \in 0 .. 3
      BY SMT, <1>1 DEF Groups
    <3>2. /\ e[(i - 1) \div 4] = L((i - 1) \div 4)
          /\ t[(i - 1) \div 4] = StandardLine(s, (i - 1) \div 4)
      BY <3>1
    <3> QED
      BY <1>3, <3>1, <3>2
  <2>2. [i \in 1 .. 4 * Groups(n) |-> C(e, i)] = [i \in 1 .. 4 * Groups(n) |-> C(t, i)]
    <3> HIDE DEF C
    <3> QED
      BY <2>1, Zenon
  <2>3. Text(n, e) = [i \in 1 .. 4 * Groups(n) |-> C(e, i)]
    <3> HIDE DEF e
    <3> QED
      BY Zenon DEF Text
  <2>4. Text(n, t) = [i \in 1 .. 4 * Groups(n) |-> C(t, i)]
    <3> HIDE DEF t
    <3> QED
      BY Zenon DEF Text
  <2> HIDE DEF e, t
  <2> QED
    BY <1>1, <2>2, <2>3, <2>4
<1> QED
  BY <1>4, StandardText DEF b64_encode

\* Every payload the queue decodes is the one that was sent, unless its last
\* group holds two bytes (telemetry_queue.cpp:107).
THEOREM PayloadsDecoded ==
    ASSUME Bytes \subseteq Byte, MaxLen \in Nat
    PROVE  Spec => []DecodedUnlessOnePad
<1> DEFINE Inv == /\ input \in Seq(Byte) /\ Len(input) > 0
                  /\ pc \in {"send", "decode", "done"}
                  /\ pc = "decode" => encoded = Standard(input)
                  /\ pc = "done" => output = b64_decode(Standard(input))
<1>1. Init => Inv
  <2> SUFFICES ASSUME Init PROVE Inv
    OBVIOUS
  <2>1. PICK n \in 1 .. MaxLen : input \in [1 .. n -> Bytes]
    BY DEF Init
  <2>2. input \in Seq(Byte) /\ Len(input) = n /\ n > 0
    BY SMT, <2>1
  <2> QED
    BY SMT, <2>2 DEF Init
<1>2. Inv /\ [Next]_vars => Inv'
  BY DEF Next, Send, Decode, vars
<1>3. Inv => DecodedUnlessOnePad
  BY DecodesUnlessOnePad DEF DecodedUnlessOnePad, DecodedAsSent
<1> QED
  BY <1>1, <1>2, <1>3, PTL DEF Spec

===============================================================================
