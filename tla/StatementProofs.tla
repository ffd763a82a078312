--------------------------- MODULE StatementProofs ---------------------------
(***************************************************************************)
(* One statement at a time: what the matcher makes of the expressions it   *)
(* was compiled to and converted from, for every packet and every operand  *)
(* that can be written.                                                    *)
(***************************************************************************)
EXTENDS Statements, Document, ListProofs

(***************************************************************************)
(* Bytes                                                                   *)
(***************************************************************************)
\* Sequences of one, two and four bytes.
LEMMA OneByte ==
    ASSUME NEW a \in Byte
    PROVE  <<a>> \in Seq(Byte) /\ Len(<<a>>) = 1 /\ <<a>>[1] = a
OBVIOUS

LEMMA TwoBytes ==
    ASSUME NEW a \in Byte, NEW b \in Byte
    PROVE  <<a, b>> \in Seq(Byte) /\ Len(<<a, b>>) = 2 /\ <<a, b>>[1] = a /\ <<a, b>>[2] = b
OBVIOUS

LEMMA SameSeq ==
    ASSUME NEW S, NEW s \in Seq(S), NEW t \in Seq(S), Len(s) = Len(t),
           \A i \in 1 .. Len(s) : s[i] = t[i]
    PROVE  s = t
OBVIOUS

LEMMA WordIs ==
    ASSUME NEW n \in Byte
    PROVE  /\ Word(n) \in Seq(Byte) /\ Len(Word(n)) = 4 /\ Word(n) # Refused /\ Word(n) # Undecodable
           /\ Word(n)[1] = n /\ Word(n)[2] = 0 /\ Word(n)[3] = 0 /\ Word(n)[4] = 0
           /\ \A k \in Byte : Word(n) = Word(k) <=> n = k
<1>1. 0 \in Byte
  BY DEF Byte
<1>2. ASSUME NEW k \in Byte
      PROVE  /\ Word(k) \in Seq(Byte) /\ Len(Word(k)) = 4
             /\ Word(k)[1] = k /\ Word(k)[2] = 0 /\ Word(k)[3] = 0 /\ Word(k)[4] = 0
  BY <1>1 DEF Word
<1>3. Len(Refused) = 0 /\ Len(Undecodable) = 1
  BY DEF Refused, Undecodable
<1> QED
  BY <1>2, <1>3

\* Bytes are not what a load refuses or an operand that is not hexadecimal.
LEMMA BytesAreRead ==
    ASSUME NEW s \in Seq(Byte)
    PROVE  /\ s # Undecodable
           /\ Len(s) > 0 => s # Refused
<1>1. Undecodable[1] = 256 /\ Len(Undecodable) = 1 /\ Len(Refused) = 0
  BY DEF Undecodable, Refused
<1>2. Len(s) = 1 => s[1] \in Byte
  OBVIOUS
<1>3. 256 \notin Byte
  BY DEF Byte
<1> QED
  BY <1>1, <1>2, <1>3

LEMMA TruncatedBytes ==
    ASSUME NEW s \in Seq(Byte), NEW n \in 0 .. Len(s)
    PROVE  /\ Truncate(s, n) \in Seq(Byte) /\ Len(Truncate(s, n)) = n
           /\ \A i \in 1 .. n : Truncate(s, n)[i] = s[i]
           /\ n = Len(s) => Truncate(s, n) = s
<1>1. /\ SubSeq(s, 1, n) \in Seq(Byte) /\ Len(SubSeq(s, 1, n)) = n
      /\ \A i \in 1 .. n : SubSeq(s, 1, n)[i] = s[i]
  OBVIOUS
<1> DEFINE t == SubSeq(s, 1, n)
<1> HIDE DEF t
<1>2. n = Len(s) => t = s
  BY <1>1, SameSeq DEF t
<1> QED
  BY <1>1, <1>2 DEF Truncate, t

\* What is used of ports as numbers.
LEMMA PortIs ==
    /\ \A q \in Port : q \in Int /\ 0 <= q /\ q <= 65535
    /\ \A q \in Port : q # 65535 => q + 1 \in Port
    /\ \A q \in Port : q \div 256 \in Byte /\ q % 256 \in Byte /\ (q \div 256) * 256 + (q % 256) = q
    /\ 0 \in Port
<1>1. \A n, q \in Int : q \in 0 .. n <=> 0 <= q /\ q <= n
  BY SMT
<1>2. \A n \in Int : \A q \in 0 .. n : q \in Int
  BY SMT
<1> DEFINE Upto(n) == 0 .. n
<1>3. \A n, q : n \in Int => (q \in Upto(n) <=> q \in Int /\ 0 <= q /\ q <= n)
  BY <1>1, <1>2, SMT
<1>4. Port = Upto(65535) /\ Byte = Upto(255)
  BY SMT DEF Port, Byte
<1> HIDE DEF Upto
<1>5. \A q : q \in Port <=> q \in Int /\ 0 <= q /\ q <= 65535
  BY <1>3, <1>4, SMT
<1>6. \A q : q \in Byte <=> q \in Int /\ 0 <= q /\ q <= 255
  BY <1>3, <1>4, SMT
<1>7. ASSUME NEW q \in Int
      PROVE  (q \div 256) * 256 + (q % 256) = q /\ q % 256 \in Int /\ 0 <= q % 256 /\ q % 256 <= 255
  BY <1>7, SMT
<1>8. \A q \in Int : 0 <= q /\ q <= 65535 => q \div 256 \in Int /\ 0 <= q \div 256 /\ q \div 256 <= 255
  BY SMT
<1>9. \A q \in Port : q \div 256 \in Byte /\ q % 256 \in Byte /\ (q \div 256) * 256 + (q % 256) = q
  BY <1>5, <1>6, <1>7, <1>8, SMT
<1>10. \A q \in Port : q # 65535 => q + 1 \in Port
  BY <1>5, SMT
<1>11. \A q \in Port : q \in Int /\ 0 <= q /\ q <= 65535
  BY <1>5, SMT
<1>12. 0 \in Port
  BY <1>5, SMT
<1> QED
  BY <1>9, <1>10, <1>11, <1>12, SMT

\* Two numbers of two digits are ordered as their digits are.
LEMMA TwoDigits ==
    ASSUME NEW a \in Byte, NEW b \in Byte, NEW c \in Byte, NEW d \in Byte
    PROVE  a * 256 + b < c * 256 + d <=> a < c \/ (a = c /\ b < d)
BY DEF Byte

\* The order of two ports is that of their bytes.
LEMMA PortBytesAre ==
    ASSUME NEW p \in Port
    PROVE  /\ PortBytes(p) \in Seq(Byte) /\ Len(PortBytes(p)) = 2
           /\ PortBytes(p)[1] = p \div 256 /\ PortBytes(p)[2] = p % 256
           /\ PortOf(PortBytes(p)) = p
           /\ PortBytes(p) # Refused /\ PortBytes(p) # Undecodable
<1> DEFINE a == p \div 256  b == p % 256
<1>1. a \in Byte /\ b \in Byte /\ a * 256 + b = p
  BY PortIs
<1>2. PortBytes(p) = <<a, b>>
  BY DEF PortBytes
<1>3. PortOf(PortBytes(p)) = PortBytes(p)[1] * 256 + PortBytes(p)[2]
  BY DEF PortOf
<1> HIDE DEF a, b
<1>4. PortBytes(p) \in Seq(Byte) /\ Len(PortBytes(p)) = 2 /\ PortBytes(p)[1] = a /\ PortBytes(p)[2] = b
  BY <1>1, <1>2, TwoBytes
<1>5. PortBytes(p) # Refused /\ PortBytes(p) # Undecodable
  BY <1>4, BytesAreRead
<1> QED
  BY <1>1, <1>3, <1>4, <1>5 DEF a, b

LEMMA PortOrder ==
    ASSUME NEW p \in Port, NEW q \in Port
    PROVE  /\ PortBytes(p) = PortBytes(q) <=> p = q
           /\ Less(PortBytes(p), PortBytes(q)) <=> p < q
<1> DEFINE a == PortBytes(p)  b == PortBytes(q)
<1>1. /\ a \in Seq(Byte) /\ Len(a) = 2 /\ a[1] = p \div 256 /\ a[2] = p % 256 /\ PortOf(a) = p
      /\ b \in Seq(Byte) /\ Len(b) = 2 /\ b[1] = q \div 256 /\ b[2] = q % 256 /\ PortOf(b) = q
  BY PortBytesAre
<1> HIDE DEF a, b
<1>2. Less(a, b) <=> a[1] < b[1] \/ (a[1] = b[1] /\ a[2] < b[2])
  <2>1. DOMAIN b = 1 .. 2
    BY <1>1
  <2>2. Less(a, b) <=> \/ a[1] < b[1] /\ \A j \in 1 .. 0 : a[j] = b[j]
                       \/ a[2] < b[2] /\ \A j \in 1 .. 1 : a[j] = b[j]
    BY <2>1 DEF Less
  <2>3. (\A j \in 1 .. 0 : a[j] = b[j]) /\ ((\A j \in 1 .. 1 : a[j] = b[j]) <=> a[1] = b[1])
    OBVIOUS
  <2> QED
    BY <2>2, <2>3
<1>3. p < q <=> p \div 256 < q \div 256 \/ (p \div 256 = q \div 256 /\ p % 256 < q % 256)
  <2> DEFINE pa == p \div 256  pb == p % 256  qa == q \div 256  qb == q % 256
  <2>1. /\ pa \in Byte /\ pb \in Byte /\ pa * 256 + pb = p
        /\ qa \in Byte /\ qb \in Byte /\ qa * 256 + qb = q
    BY PortIs
  <2> HIDE DEF pa, pb, qa, qb
  <2>2. p < q <=> pa < qa \/ (pa = qa /\ pb < qb)
    BY <2>1, TwoDigits
  <2> QED
    BY <2>2 DEF pa, pb, qa, qb
<1>4. a = b <=> p = q
  BY <1>1
<1> QED
  BY <1>1, <1>2, <1>3, <1>4 DEF a, b

(***************************************************************************)
(* Bits                                                                    *)
(***************************************************************************)
\* A byte is its eight bits.
LEMMA BitsOf ==
    ASSUME NEW a \in Byte
    PROVE  /\ \A k \in 0 .. 7 : Bit(a, k) \in {0, 1}
           /\ a = Bit(a, 0) + 2 * Bit(a, 1) + 4 * Bit(a, 2) + 8 * Bit(a, 3) + 16 * Bit(a, 4)
                  + 32 * Bit(a, 5) + 64 * Bit(a, 6) + 128 * Bit(a, 7)
<1>1. /\ 2^0 = 1 /\ 2^1 = 2 /\ 2^2 = 4 /\ 2^3 = 8 /\ 2^4 = 16 /\ 2^5 = 32 /\ 2^6 = 64 /\ 2^7 = 128
  OBVIOUS
<1>2. /\ Bit(a, 0) = a % 2 /\ Bit(a, 1) = (a \div 2) % 2 /\ Bit(a, 2) = (a \div 4) % 2
      /\ Bit(a, 3) = (a \div 8) % 2 /\ Bit(a, 4) = (a \div 16) % 2 /\ Bit(a, 5) = (a \div 32) % 2
      /\ Bit(a, 6) = (a \div 64) % 2 /\ Bit(a, 7) = (a \div 128) % 2
  BY <1>1 DEF Bit, Byte
<1>3. \A k \in 0 .. 7 : k \in {0, 1, 2, 3, 4, 5, 6, 7}
  OBVIOUS
<1>4. a = (a % 2) + 2 * ((a \div 2) % 2) + 4 * ((a \div 4) % 2) + 8 * ((a \div 8) % 2)
          + 16 * ((a \div 16) % 2) + 32 * ((a \div 32) % 2) + 64 * ((a \div 64) % 2)
          + 128 * ((a \div 128) % 2)
  BY DEF Byte
<1>5. \A x \in Nat : x % 2 \in {0, 1}
  OBVIOUS
<1>6. \A k \in 0 .. 7 : Bit(a, k) \in {0, 1}
  <2>1. a \in Nat /\ a \div 2 \in Nat /\ a \div 4 \in Nat /\ a \div 8 \in Nat /\ a \div 16 \in Nat
        /\ a \div 32 \in Nat /\ a \div 64 \in Nat /\ a \div 128 \in Nat
    BY DEF Byte
  <2> QED
    BY <1>2, <1>3, <1>5, <2>1
<1> QED
  BY <1>2, <1>4, <1>6

LEMMA SameBits ==
    ASSUME NEW a \in Byte, NEW b \in Byte, \A k \in 0 .. 7 : Bit(a, k) = Bit(b, k)
    PROVE  a = b
<1>1. Bit(a, 0) = Bit(b, 0) /\ Bit(a, 1) = Bit(b, 1) /\ Bit(a, 2) = Bit(b, 2) /\ Bit(a, 3) = Bit(b, 3)
  OBVIOUS
<1>2. Bit(a, 4) = Bit(b, 4) /\ Bit(a, 5) = Bit(b, 5) /\ Bit(a, 6) = Bit(b, 6) /\ Bit(a, 7) = Bit(b, 7)
  OBVIOUS
<1>3. /\ a = Bit(a, 0) + 2 * Bit(a, 1) + 4 * Bit(a, 2) + 8 * Bit(a, 3) + 16 * Bit(a, 4)
             + 32 * Bit(a, 5) + 64 * Bit(a, 6) + 128 * Bit(a, 7)
      /\ b = Bit(b, 0) + 2 * Bit(b, 1) + 4 * Bit(b, 2) + 8 * Bit(b, 3) + 16 * Bit(b, 4)
             + 32 * Bit(b, 5) + 64 * Bit(b, 6) + 128 * Bit(b, 7)
  BY BitsOf
<1> QED
  BY <1>1, <1>2, <1>3

\* Eight bits make a byte, of which they are the bits.
LEMMA SumOfBits ==
    ASSUME NEW c0 \in {0, 1}, NEW c1 \in {0, 1}, NEW c2 \in {0, 1}, NEW c3 \in {0, 1},
           NEW c4 \in {0, 1}, NEW c5 \in {0, 1}, NEW c6 \in {0, 1}, NEW c7 \in {0, 1},
           NEW s, s = c0 + 2 * c1 + 4 * c2 + 8 * c3 + 16 * c4 + 32 * c5 + 64 * c6 + 128 * c7
    PROVE  /\ s \in Byte
           /\ Bit(s, 0) = c0 /\ Bit(s, 1) = c1 /\ Bit(s, 2) = c2 /\ Bit(s, 3) = c3
           /\ Bit(s, 4) = c4 /\ Bit(s, 5) = c5 /\ Bit(s, 6) = c6 /\ Bit(s, 7) = c7
<1>1. /\ 2^0 = 1 /\ 2^1 = 2 /\ 2^2 = 4 /\ 2^3 = 8 /\ 2^4 = 16 /\ 2^5 = 32 /\ 2^6 = 64 /\ 2^7 = 128
  OBVIOUS
<1>2. s \in Byte
  BY DEF Byte
<1>3. /\ Bit(s, 0) = s % 2 /\ Bit(s, 1) = (s \div 2) % 2 /\ Bit(s, 2) = (s \div 4) % 2
      /\ Bit(s, 3) = (s \div 8) % 2 /\ Bit(s, 4) = (s \div 16) % 2 /\ Bit(s, 5) = (s \div 32) % 2
      /\ Bit(s, 6) = (s \div 64) % 2 /\ Bit(s, 7) = (s \div 128) % 2
  BY <1>1, <1>2 DEF Bit, Byte
<1>4. s % 2 = c0
  OBVIOUS
<1>5. s \div 2 = c1 + 2 * c2 + 4 * c3 + 8 * c4 + 16 * c5 + 32 * c6 + 64 * c7
  OBVIOUS
<1>6. s \div 4 = c2 + 2 * c3 + 4 * c4 + 8 * c5 + 16 * c6 + 32 * c7
  OBVIOUS
<1>7. s \div 8 = c3 + 2 * c4 + 4 * c5 + 8 * c6 + 16 * c7
  OBVIOUS
<1>8. s \div 16 = c4 + 2 * c5 + 4 * c6 + 8 * c7
  OBVIOUS
<1>9. s \div 32 = c5 + 2 * c6 + 4 * c7
  OBVIOUS
<1>10. s \div 64 = c6 + 2 * c7 /\ s \div 128 = c7
  OBVIOUS
<1>11. (s \div 2) % 2 = c1 /\ (s \div 4) % 2 = c2
  BY <1>5, <1>6
<1>12. (s \div 8) % 2 = c3 /\ (s \div 16) % 2 = c4
  BY <1>7, <1>8
<1>13. (s \div 32) % 2 = c5 /\ (s \div 64) % 2 = c6 /\ (s \div 128) % 2 = c7
  BY <1>9, <1>10
<1> QED
  BY <1>2, <1>3, <1>4, <1>11, <1>12, <1>13

LEMMA MaskByteIs ==
    ASSUME NEW a \in Byte, NEW mask \in Byte, NEW xor \in Byte
    PROVE  /\ MaskByte(a, mask, xor) \in Byte
           /\ \A k \in 0 .. 7 :
                 Bit(MaskByte(a, mask, xor), k) = (Bit(a, k) * Bit(mask, k) + Bit(xor, k)) % 2
<1> DEFINE c(k) == (Bit(a, k) * Bit(mask, k) + Bit(xor, k)) % 2
           s == MaskByte(a, mask, xor)
<1>1. \A k \in 0 .. 7 : c(k) \in {0, 1}
  <2>1. \A x, y, z \in {0, 1} : (x * y + z) % 2 \in {0, 1}
    OBVIOUS
  <2>2. \A k \in 0 .. 7 : Bit(a, k) \in {0, 1} /\ Bit(mask, k) \in {0, 1} /\ Bit(xor, k) \in {0, 1}
    BY BitsOf
  <2> QED
    BY <2>1, <2>2
<1>2. s = 2^0 * c(0) + 2^1 * c(1) + 2^2 * c(2) + 2^3 * c(3) + 2^4 * c(4) + 2^5 * c(5) + 2^6 * c(6)
          + 2^7 * c(7)
  BY DEF MaskByte
<1> HIDE DEF c, s
<1>3. s = c(0) + 2 * c(1) + 4 * c(2) + 8 * c(3) + 16 * c(4) + 32 * c(5) + 64 * c(6) + 128 * c(7)
  <2>1. /\ 2^0 = 1 /\ 2^1 = 2 /\ 2^2 = 4 /\ 2^3 = 8 /\ 2^4 = 16 /\ 2^5 = 32 /\ 2^6 = 64 /\ 2^7 = 128
    OBVIOUS
  <2>2. 1 * c(0) = c(0)
    BY <1>1
  <2> QED
    BY <1>2, <2>1, <2>2
<1>4. /\ s \in Byte
      /\ Bit(s, 0) = c(0) /\ Bit(s, 1) = c(1) /\ Bit(s, 2) = c(2) /\ Bit(s, 3) = c(3)
      /\ Bit(s, 4) = c(4) /\ Bit(s, 5) = c(5) /\ Bit(s, 6) = c(6) /\ Bit(s, 7) = c(7)
  BY <1>1, <1>3, SumOfBits
<1>5. \A k \in 0 .. 7 : k \in {0, 1, 2, 3, 4, 5, 6, 7}
  OBVIOUS
<1>6. \A k \in 0 .. 7 : Bit(s, k) = c(k)
  BY <1>4, <1>5
<1> QED
  BY <1>4, <1>6 DEF c, s

\* A mask without a xor keeps the bits that are set in it.
LEMMA MaskKeeps ==
    ASSUME NEW a \in Byte, NEW mask \in Byte
    PROVE  /\ MaskByte(a, mask, 0) \in Byte
           /\ \A k \in 0 .. 7 : Bit(MaskByte(a, mask, 0), k) = Bit(a, k) * Bit(mask, k)
<1>1. 0 \in Byte
  BY DEF Byte
<1>2. \A k \in 0 .. 7 : Bit(0, k) = 0
  <2>1. Bit(0, 0) = 0 /\ Bit(0, 1) = 0 /\ Bit(0, 2) = 0 /\ Bit(0, 3) = 0
    <3>1. /\ 2^0 = 1 /\ 2^1 = 2 /\ 2^2 = 4 /\ 2^3 = 8
      OBVIOUS
    <3> QED
      BY <3>1 DEF Bit
  <2>2. Bit(0, 4) = 0 /\ Bit(0, 5) = 0 /\ Bit(0, 6) = 0 /\ Bit(0, 7) = 0
    <3>1. /\ 2^4 = 16 /\ 2^5 = 32 /\ 2^6 = 64 /\ 2^7 = 128
      OBVIOUS
    <3> QED
      BY <3>1 DEF Bit
  <2>3. \A k \in 0 .. 7 : k \in {0, 1, 2, 3, 4, 5, 6, 7}
    OBVIOUS
  <2> QED
    BY <2>1, <2>2, <2>3
<1>3. \A x, y \in {0, 1} : (x * y + 0) % 2 = x * y
  OBVIOUS
<1>4. \A k \in 0 .. 7 : Bit(a, k) \in {0, 1} /\ Bit(mask, k) \in {0, 1}
  BY BitsOf
<1> QED
  BY <1>1, <1>2, <1>3, <1>4, MaskByteIs

\* The bytes a mask of an address is made of: the first j bits of a byte.
FirstBits(j) == 256 - 2^(8 - j)

LEMMA FirstBitsAre ==
    ASSUME NEW j \in 0 .. 8
    PROVE  /\ FirstBits(j) \in Byte
           /\ \A k \in 0 .. 7 : Bit(FirstBits(j), k) = IF k >= 8 - j THEN 1 ELSE 0
<1>1. /\ 2^0 = 1 /\ 2^1 = 2 /\ 2^2 = 4 /\ 2^3 = 8 /\ 2^4 = 16 /\ 2^5 = 32 /\ 2^6 = 64 /\ 2^7 = 128
      /\ 2^8 = 256
  OBVIOUS
<1>2. ASSUME NEW v \in Nat, v < 256
      PROVE  /\ Bit(v, 0) = v % 2 /\ Bit(v, 1) = (v \div 2) % 2 /\ Bit(v, 2) = (v \div 4) % 2
             /\ Bit(v, 3) = (v \div 8) % 2 /\ Bit(v, 4) = (v \div 16) % 2 /\ Bit(v, 5) = (v \div 32) % 2
             /\ Bit(v, 6) = (v \div 64) % 2 /\ Bit(v, 7) = (v \div 128) % 2
  BY <1>1 DEF Bit
<1>3. \A k \in 0 .. 7 : k \in {0, 1, 2, 3, 4, 5, 6, 7}
  OBVIOUS
<1>4. j \in {0, 1, 2, 3, 4, 5, 6, 7, 8}
  OBVIOUS
<1>5. /\ FirstBits(0) = 0 /\ FirstBits(1) = 128 /\ FirstBits(2) = 192 /\ FirstBits(3) = 224
      /\ FirstBits(4) = 240 /\ FirstBits(5) = 248 /\ FirstBits(6) = 252 /\ FirstBits(7) = 254
      /\ FirstBits(8) = 255
  BY <1>1 DEF FirstBits
<1>6. CASE j \in {0, 1, 2}
  BY <1>2, <1>3, <1>5, <1>6 DEF Byte
<1>7. CASE j \in {3, 4, 5}
  BY <1>2, <1>3, <1>5, <1>7 DEF Byte
<1>8. CASE j \in {6, 7, 8}
  BY <1>2, <1>3, <1>5, <1>8 DEF Byte
<1> QED
  BY <1>4, <1>6, <1>7, <1>8

LEMMA MaskWhole ==
    ASSUME NEW a \in Byte
    PROVE  MaskByte(a, 255, 0) = a /\ MaskByte(a, 0, 0) = 0 /\ MaskByte(0, a, 0) = 0
<1>1. 255 = FirstBits(8) /\ 0 = FirstBits(0) /\ 0 \in 0 .. 8 /\ 8 \in 0 .. 8
  <2>1. 2^0 = 1 /\ 2^8 = 256
    OBVIOUS
  <2> QED
    BY <2>1 DEF FirstBits
<1>2. /\ 255 \in Byte /\ 0 \in Byte
      /\ \A k \in 0 .. 7 : Bit(255, k) = 1 /\ Bit(0, k) = 0
  <2>1. 255 \in Byte /\ \A k \in 0 .. 7 : Bit(255, k) = 1
    BY <1>1, FirstBitsAre
  <2>2. 0 \in Byte /\ \A k \in 0 .. 7 : Bit(0, k) = 0
    BY <1>1, FirstBitsAre
  <2> QED
    BY <2>1, <2>2
<1>3. \A k \in 0 .. 7 : Bit(a, k) \in {0, 1}
  BY BitsOf
<1>4. \A x \in {0, 1} : x * 1 = x /\ x * 0 = 0 /\ 0 * x = 0
  OBVIOUS
<1>5. /\ MaskByte(a, 255, 0) \in Byte /\ MaskByte(a, 0, 0) \in Byte /\ MaskByte(0, a, 0) \in Byte
      /\ \A k \in 0 .. 7 : /\ Bit(MaskByte(a, 255, 0), k) = Bit(a, k)
                           /\ Bit(MaskByte(a, 0, 0), k) = Bit(0, k)
                           /\ Bit(MaskByte(0, a, 0), k) = Bit(0, k)
  BY <1>2, <1>3, <1>4, MaskKeeps
<1> QED
  BY <1>2, <1>5, SameBits

(***************************************************************************)
(* The machine                                                             *)
(***************************************************************************)
MachineFields == {"regs", "act", "out"}
Undecided     == ""

\* A machine that runs on: registers 1 and 2, if filled, hold bytes.
GoodRegs(regs) == DOMAIN regs \subseteq {1, 2} /\ \A x \in DOMAIN regs : regs[x] \in Seq(Byte)
Running(mm)    == DOMAIN mm = MachineFields /\ mm.out = Undecided /\ GoodRegs(mm.regs)

\* What one expression can make of it: the outcome, the action left as it was;
\* the same with register 1 filled.
Stops(n, mm, out) ==
    DOMAIN n = MachineFields /\ n.out = out /\ n.act = mm.act /\ GoodRegs(n.regs)
Holding(n, mm, v) ==
    Stops(n, mm, Undecided) /\ 1 \in DOMAIN n.regs /\ n.regs[1] = v

LEMMA RunsOn ==
    ASSUME NEW mm, Running(mm)
    PROVE  /\ Stops(mm, mm, Undecided)
           /\ \A out : Stops(Ends(mm, out), mm, out)
BY DEF Running, Stops, Ends, MachineFields

LEMMA RunsOnIf ==
    ASSUME NEW mm, Running(mm), NEW holds \in BOOLEAN
    PROVE  IF holds THEN Stops(Requires(mm, holds), mm, Undecided)
           ELSE Stops(Requires(mm, holds), mm, "NoMatch")
BY RunsOn DEF Requires

Filled(regs, x, v, new) ==
    /\ GoodRegs(new)
    /\ DOMAIN new = DOMAIN regs \union {x}
    /\ new[x] = v
    /\ \A y \in DOMAIN regs : y # x => new[y] = regs[y]

LEMMA FillingIs ==
    ASSUME NEW regs, GoodRegs(regs), NEW x \in {1, 2}, NEW v \in Seq(Byte)
    PROVE  Filled(regs, x, v, Filling(regs, x, v))
BY DEF Filled, Filling, GoodRegs

LEMMA LoadsFill ==
    ASSUME NEW mm, Running(mm), NEW v \in Seq(Byte)
    PROVE  Holding(Loads(mm, 1, v), mm, v)
<1> DEFINE R == Filling(mm.regs, 1, v)  n == Loads(mm, 1, v)
<1>1. GoodRegs(R) /\ 1 \in DOMAIN R /\ R[1] = v
  <2>1. GoodRegs(mm.regs)
    BY DEF Running
  <2> QED
    BY <2>1 DEF Filling, GoodRegs
<1>2. DOMAIN mm = MachineFields /\ mm.out = Undecided
  BY DEF Running
<1>3. n = [mm EXCEPT !.regs = R]
  BY DEF Loads
<1> HIDE DEF R, n
<1>4. DOMAIN n = MachineFields /\ n.regs = R /\ n.act = mm.act /\ n.out = mm.out
  BY <1>2, <1>3 DEF MachineFields
<1>5. Holding(n, mm, v)
  BY <1>1, <1>2, <1>4 DEF Holding, Stops
<1> QED
  BY <1>5 DEF n

(***************************************************************************)
(* One expression at a time                                                *)
(***************************************************************************)
\* A load gives up when it has no value, and fills its register when it has.
Loaded(n, mm, v) == IF v = Refused THEN Stops(n, mm, "Unknown") ELSE Holding(n, mm, v)

LEMMA LoadsKnownFill ==
    ASSUME NEW mm, Running(mm), NEW v \in Seq(Byte)
    PROVE  Loaded(LoadsKnown(mm, 1, v), mm, v)
<1>1. CASE v = Refused
  BY <1>1, RunsOn DEF LoadsKnown, Loaded
<1>2. CASE v # Refused
  BY <1>2, LoadsFill DEF LoadsKnown, Loaded
<1> QED
  BY <1>1, <1>2

LEMMA PayloadLoads ==
    ASSUME NEW mm, Running(mm), NEW p, NEW r, NEW i, NEW sets, r[i].k = "payload", r[i].reg = 1,
           PayloadBytes(p, r[i]) \in Seq(Byte)
    PROVE  Loaded(Exec(p, r, sets, i, mm), mm, PayloadBytes(p, r[i]))
<1>1. Exec(p, r, sets, i, mm) = LoadsKnown(mm, 1, PayloadBytes(p, r[i]))
  BY DEF Exec
<1> QED
  BY <1>1, LoadsKnownFill

LEMMA MetaLoads ==
    ASSUME NEW mm, Running(mm), NEW p, NEW r, NEW i, NEW sets, r[i].k = "meta", r[i].reg = 1,
           ~MetaAbsent(r[i].key), MetaBytes(p, r[i].key) \in Seq(Byte)
    PROVE  Loaded(Exec(p, r, sets, i, mm), mm, MetaBytes(p, r[i].key))
<1>1. Exec(p, r, sets, i, mm) = ExecMeta(p, r[i], mm)
  BY DEF Exec
<1>2. ExecMeta(p, r[i], mm) = LoadsKnown(mm, 1, MetaBytes(p, r[i].key))
  BY DEF ExecMeta
<1> QED
  BY <1>1, <1>2, LoadsKnownFill

LEMMA CtLoads ==
    ASSUME NEW mm, Running(mm), NEW p, NEW r, NEW i, NEW sets, r[i].k = "ct", r[i].reg = 1,
           CtBytes(p, r[i].key) \in Seq(Byte)
    PROVE  Loaded(Exec(p, r, sets, i, mm), mm, CtBytes(p, r[i].key))
<1>1. Exec(p, r, sets, i, mm) = LoadsKnown(mm, 1, CtBytes(p, r[i].key))
  BY DEF Exec
<1> QED
  BY <1>1, LoadsKnownFill

LEMMA FibLoads ==
    ASSUME NEW mm, Running(mm), NEW p, NEW r, NEW i, NEW sets, r[i].k = "fib", r[i].reg = 1,
           FibBytes(p, r[i]) \in Seq(Byte)
    PROVE  Loaded(Exec(p, r, sets, i, mm), mm, FibBytes(p, r[i]))
<1>1. Exec(p, r, sets, i, mm) = LoadsKnown(mm, 1, FibBytes(p, r[i]))
  BY DEF Exec
<1> QED
  BY <1>1, LoadsKnownFill

\* A compare of a register that holds enough with an operand it can read.
LEMMA CompareTells ==
    ASSUME NEW mm, Running(mm), NEW p, NEW r, NEW i, NEW sets,
           NEW op \in {"eq", "neq", "gte", "lte", "gt", "lt"}, NEW data \in Seq(Byte), r[i] = Cmp(op, data),
           1 \in DOMAIN mm.regs, Len(data) <= Len(mm.regs[1])
    PROVE  Exec(p, r, sets, i, mm) = Requires(mm, CmpHolds(op, Truncate(mm.regs[1], Len(data)), data))
<1>1. r[i].k = "cmp" /\ r[i].op = op /\ r[i].reg = 1 /\ r[i].data = data
  BY DEF Cmp
<1>2. Exec(p, r, sets, i, mm) = ExecCmp(r[i], mm)
  BY <1>1 DEF Exec
<1>3. Holds(mm, 1, Len(data))
  BY DEF Holds, Running, GoodRegs
<1>4. data # Undecodable
  BY BytesAreRead
<1> QED
  BY <1>1, <1>2, <1>3, <1>4 DEF ExecCmp

\* A mask, with or without a xor.
MaskOf(e, mask, xor) ==
    /\ e.k = "bitwise" /\ e.src = 1 /\ e.reg = 1 /\ e.mask = mask /\ e.xor = xor
    /\ mask \in Seq(Byte) /\ xor \in Seq(Byte)
    /\ xor = <<>> \/ (Len(xor) = Len(mask) /\ (\A j \in 1 .. Len(xor) : xor[j] = 0))
Masks(w, v, mask) ==
    /\ w \in Seq(Byte) /\ Len(w) = Len(mask) /\ Len(mask) <= Len(v)
    /\ \A j \in 1 .. Len(mask) : w[j] = MaskByte(v[j], mask[j], 0)

LEMMA MaskFills ==
    ASSUME NEW mm, Running(mm), NEW p, NEW r, NEW i, NEW sets, NEW mask, NEW xor, NEW w,
           MaskOf(r[i], mask, xor), 1 \in DOMAIN mm.regs, Masks(w, mm.regs[1], mask)
    PROVE  Holding(Exec(p, r, sets, i, mm), mm, w)
<1>0. /\ r[i].k = "bitwise" /\ r[i].src = 1 /\ r[i].reg = 1 /\ r[i].mask = mask /\ r[i].xor = xor
      /\ mask \in Seq(Byte) /\ xor \in Seq(Byte)
      /\ xor = <<>> \/ (Len(xor) = Len(mask) /\ (\A j \in 1 .. Len(xor) : xor[j] = 0))
      /\ w \in Seq(Byte) /\ Len(w) = Len(mask) /\ Len(mask) <= Len(mm.regs[1])
      /\ \A j \in 1 .. Len(mask) : w[j] = MaskByte(mm.regs[1][j], mask[j], 0)
  BY DEF MaskOf, Masks
<1> DEFINE x == IF xor = <<>> THEN [j \in DOMAIN mask |-> 0] ELSE xor
           v == [j \in DOMAIN mask |-> MaskByte(mm.regs[1][j], mask[j], x[j])]
           e == r[i]
<1>1. e.k = "bitwise" /\ e.src = 1 /\ e.reg = 1 /\ e.mask = mask /\ e.xor = xor
  BY <1>0
<1>2. Exec(p, r, sets, i, mm) = ExecBitwise(e, mm)
  BY <1>1 DEF Exec
<1>3. mm.regs[1] \in Seq(Byte) /\ 0 \in Byte
  BY DEF Running, GoodRegs, Byte
<1>4. x \in Seq(Byte) /\ Len(x) = Len(mask) /\ \A j \in 1 .. Len(mask) : x[j] = 0
  BY <1>0, <1>3
<1>5. Holds(mm, 1, Len(mask)) /\ mask # Undecodable /\ x # Undecodable
  <2>1. Holds(mm, 1, Len(mask))
    BY <1>0, <1>3 DEF Holds
  <2> HIDE DEF x
  <2> QED
    BY <1>0, <1>4, <2>1, BytesAreRead
<1> HIDE DEF e
<1>6. ExecBitwise(e, mm) = Loads(mm, 1, v)
  BY <1>1, <1>4, <1>5 DEF ExecBitwise
<1> HIDE DEF x
<1>7. v = w
  <2>1. DOMAIN mask = 1 .. Len(mask)
    BY <1>0
  <2>2. v = [j \in 1 .. Len(mask) |-> w[j]]
    BY <1>0, <1>4, <2>1
  <2>3. w = [j \in 1 .. Len(w) |-> w[j]]
    BY <1>0
  <2> QED
    BY <1>0, <2>2, <2>3
<1> HIDE DEF v
<1>8. Holding(Loads(mm, 1, w), mm, w)
  BY <1>0, LoadsFill
<1> QED
  BY <1>2, <1>6, <1>7, <1>8

\* What nothing is known of.
LEMMA UnknownStops ==
    ASSUME NEW mm, Running(mm), NEW p, NEW r, NEW i, NEW sets, r[i] \in {Unknown, Bare("later")}
    PROVE  Stops(Exec(p, r, sets, i, mm), mm, "Unknown")
<1>1. r[i].k \in {"unknown", "later"}
  BY DEF Unknown, Bare
<1>2. Exec(p, r, sets, i, mm) = Ends(mm, "Unknown")
  BY <1>1 DEF Exec
<1> QED
  BY <1>2, RunsOn

LEMMA OtherPasses ==
    ASSUME NEW mm, Running(mm), NEW p, NEW r, NEW i, NEW sets, r[i] = Other
    PROVE  Stops(Exec(p, r, sets, i, mm), mm, Undecided)
<1>1. r[i].k = "other"
  BY DEF Other
<1>2. Exec(p, r, sets, i, mm) = mm
  BY <1>1 DEF Exec
<1> QED
  BY <1>2, RunsOn

(***************************************************************************)
(* The expressions of a statement, as a document holds them                *)
(***************************************************************************)
IsXt(e) == e.k \in {"match", "target"}

\* An extension as this build reads g, with a payload.
Xt(kind, name, rev, decoded, arg, raw) ==
    [k |-> "xt", kind |-> kind, name |-> name, rev |-> rev, decoded |-> decoded, arg |-> arg,
     raw |-> raw]
ReadOf(g) == DecodeInfo(g.name, g.rev, g.info)
Ext(g, raw) == Xt(g.k, g.name, g.rev, ReadOf(g).decoded, ReadOf(g).arg, raw)

\* What collection makes of the kernel's expression g, and what every build
\* that can read it makes of it again.
Garbled == [type |-> "garbled"]
AsCollected(e, g) ==
    IF IsXt(g) THEN e \in {Ext(g, NoPayload), Ext(g, g.info)} ELSE e = ConvertExpr(g)
AsReread(e, g) ==
    \/ AsCollected(e, g)
    \/ IsXt(g) /\ e = Ext(g, Garbled)
    \/ ~IsXt(g) /\ ConvertExpr(g) = Unknown /\ e = Bare("later")

\* One that the document has as the kernel had it.
Plain(g) == ~IsXt(g) /\ ConvertExpr(g) = g /\ g.k # "unknown"

LEMMA PlainStays ==
    ASSUME NEW g, Plain(g), NEW e, AsReread(e, g)
    PROVE  e = g
<1>1. Unknown.k = "unknown"
  BY DEF Unknown
<1> QED
  BY <1>1 DEF Plain, AsReread, AsCollected

LEMMA UnknownStays ==
    ASSUME NEW g, ~IsXt(g), ConvertExpr(g) = Unknown, NEW e, AsReread(e, g)
    PROVE  e \in {Unknown, Bare("later")}
BY DEF AsReread, AsCollected

LEMMA PlainShapes ==
    /\ Plain(LoadPort)
    /\ \A data : \A op \in CmpOps : Plain(Cmp(op, data))
    /\ \A field, off, len : Plain(AddrAt(field, off, len))
    /\ \A mask, xor : Plain([k |-> "bitwise", src |-> 1, reg |-> 1, mask |-> mask, xor |-> xor])
    /\ \A x, data : Plain([k |-> "immediate", reg |-> x, data |-> data])
    /\ \A key \in MetaKeys : Plain([k |-> "meta", key |-> key, reg |-> 1])
    /\ \A from, to : Plain([k |-> "range", op |-> "neq", reg |-> 1, from |-> from, to |-> to])
    /\ \A set, invert : Plain([k |-> "lookup", reg |-> 1, set |-> set, setID |-> 0,
                               invert |-> invert, dest |-> FALSE])
<1>1. Plain(LoadPort)
  BY DEF Plain, IsXt, ConvertExpr, LoadPort, Named, PayloadBases
<1>2. \A data : \A op \in CmpOps : Plain(Cmp(op, data))
  BY DEF Plain, IsXt, ConvertExpr, Cmp, Named
<1>3. \A field, off, len : Plain(AddrAt(field, off, len))
  BY DEF Plain, IsXt, ConvertExpr, AddrAt, Named, PayloadBases
<1>4. /\ \A mask, xor : Plain([k |-> "bitwise", src |-> 1, reg |-> 1, mask |-> mask, xor |-> xor])
      /\ \A x, data : Plain([k |-> "immediate", reg |-> x, data |-> data])
  BY DEF Plain, IsXt, ConvertExpr
<1>5. \A key \in MetaKeys : Plain([k |-> "meta", key |-> key, reg |-> 1])
  BY DEF Plain, IsXt, ConvertExpr, Named
<1>6. \A from, to : Plain([k |-> "range", op |-> "neq", reg |-> 1, from |-> from, to |-> to])
  BY DEF Plain, IsXt, ConvertExpr, Named, CmpOps
<1>7. \A set, invert : Plain([k |-> "lookup", reg |-> 1, set |-> set, setID |-> 0,
                              invert |-> invert, dest |-> FALSE])
  BY DEF Plain, IsXt, ConvertExpr
<1> QED
  BY <1>1, <1>2, <1>3, <1>4, <1>5, <1>6, <1>7

(***************************************************************************)
(* Where a rule is in a statement                                          *)
(***************************************************************************)
\* What the load of a statement finds in the packet, and what a mask leaves.
PrefixLen(st)    == IF st.bits % 8 = 0 THEN st.bits \div 8 ELSE 4
PrefixAddr(st, p) == IF st.field = "saddr" THEN p.src ELSE p.dst
Loading(st, p) ==
    CASE st.s \in {"port", "between", "outside", "masked", "in-set"} -> PortBytes(p.dport)
      [] st.s = "prefix"   -> Truncate(PrefixAddr(st, p), PrefixLen(st))
      [] st.s = "proto"    -> ProtoNumber(p.proto)
      [] st.s = "iifname"  -> Ifname(p.iif)
      [] st.s = "iif"      -> Ifindex(p.iifIndex)
      [] st.s \in {"ct-new", "ct-old"} -> Word(8)
      [] st.s = "ct-dnat"  -> Word(IF p.dnatApplied THEN 32 ELSE 0)
      [] st.s = "local"    -> Word(IF p.dstIsLocal THEN 2 ELSE 1)
      [] st.s = "no-route" -> IF p.srcRouteDev = p.iif THEN Word(1) ELSE Refused
      [] OTHER             -> Refused
Masking(st, p) ==
    CASE st.s = "masked"  -> <<p.dport \div 256, 0>>
      [] st.s = "prefix"  -> [j \in 1 .. 4 |-> MaskByte(Loading(st, p)[j], MaskBytes(4, st.bits)[j], 0)]
      [] st.s = "ct-new"  -> Word(8)
      [] st.s = "ct-old"  -> Word(0)
      [] st.s = "ct-dnat" -> Word(IF p.dnatApplied THEN 32 ELSE 0)
      [] OTHER            -> Refused

\* What the register holds before the o-th expression of a statement; and of
\* the two compares of an interval, the first has been passed.
Within(st, p, o, regs) ==
    o # 1 /\ st.s # "set-ct-mark" =>
        /\ Loading(st, p) # Refused /\ 1 \in DOMAIN regs
        /\ o = 2 \/ st.s = "between" => regs[1] = Loading(st, p)
        /\ o = 3 /\ st.s = "between" => p.dport >= st.lo
        /\ o = 3 /\ st.s # "between" => regs[1] = Masking(st, p)

\* One expression further, or decided as the author meant.
Advances(st, p, o, mm, n) ==
    /\ DOMAIN n = MachineFields /\ GoodRegs(n.regs) /\ n.act = mm.act
    /\ \/ /\ n.out = Undecided
          /\ IF o = Len(Compile(st)) THEN Says(st, p) = "yes" ELSE Within(st, p, o + 1, n.regs)
       \/ n.out = "NoMatch" /\ Says(st, p) = "no"
       \/ n.out \in {"Unknown", "Skipped"} /\ Says(st, p) = "unknown"

LEMMA StopsAdvance ==
    ASSUME NEW st, NEW p, NEW o, NEW mm, NEW n
    PROVE  /\ Stops(n, mm, "NoMatch") /\ Says(st, p) = "no" => Advances(st, p, o, mm, n)
           /\ Stops(n, mm, "Unknown") /\ Says(st, p) = "unknown" => Advances(st, p, o, mm, n)
           /\ Stops(n, mm, "Skipped") /\ Says(st, p) = "unknown" => Advances(st, p, o, mm, n)
           /\ Stops(n, mm, Undecided) /\ o = Len(Compile(st)) /\ Says(st, p) = "yes"
                  => Advances(st, p, o, mm, n)
           /\ Stops(n, mm, Undecided) /\ o # Len(Compile(st)) /\ Within(st, p, o + 1, n.regs)
                  => Advances(st, p, o, mm, n)
BY DEF Stops, Advances

\* What can be written in a statement of each kind, and in a packet.
LEMMA Operands ==
    ASSUME NEW st \in Statement
    PROVE  /\ st.s = "port" => st.op \in {"eq", "neq", "gt", "lt"} /\ st.port \in Port
           /\ st.s \in {"between", "outside"} => st.lo \in Port /\ st.hi \in Port
           /\ st.s = "masked" => st.high \in Byte
           /\ st.s = "in-set" => st.set \in {x.set.name : x \in Range(PortSets)} /\ st.invert \in BOOLEAN
           /\ st.s = "prefix" => st \in Prefix
           /\ st.s = "proto" => st.op \in {"eq", "neq"} /\ st.number \in Byte
           /\ st.s \in {"iifname", "route-by"} => st.name \in Name
           /\ st.s = "iif" => st.index \in Byte
           /\ st.s = "xt-state" => st.states \in SUBSET Nat /\ st.invert \in BOOLEAN
                                   /\ st.others \in SUBSET (Nat \ {StateFlag})
           /\ st.s = "xt-types" => st \in TypesMatch
           /\ st.s = "recent" => st.rev \in {0, 1} /\ st.check \in Nat /\ st.invert \in BOOLEAN
<1>1. CASE st \in Prefix
  BY <1>1 DEF Prefix
<1>2. CASE st \in TypesMatch
  BY <1>2 DEF TypesMatch
<1>3. CASE st \notin Prefix /\ st \notin TypesMatch
  <2>1. \/ st \in [s : {"port"}, op : {"eq", "neq", "gt", "lt"}, port : Port]
        \/ st \in [s : {"between", "outside"}, lo : Port, hi : Port]
        \/ st \in [s : {"masked"}, high : Byte]
        \/ st \in [s : {"in-set"}, set : {x.set.name : x \in Range(PortSets)}, invert : BOOLEAN]
        \/ st \in [s : {"proto"}, op : {"eq", "neq"}, number : Byte]
        \/ st \in [s : {"iifname", "route-by"}, name : Name]
        \/ st \in [s : {"iif"}, index : Byte]
        \/ st \in [s : {"xt-state"}, states : SUBSET Nat, invert : BOOLEAN,
                   others : SUBSET (Nat \ {StateFlag})]
        \/ st \in [s : {"recent"}, rev : {0, 1}, check : Nat, invert : BOOLEAN]
        \/ st \in [s : {"skuid-0", "mark", "ct-new", "ct-old", "ct-dnat", "ct-mark", "set-ct-mark",
                        "local", "no-route", "opaque", "socket", "xt-icmp", "limit", "log", "quota",
                        "last"}]
    BY <1>3 DEF Statement
  <2>2. CASE st \in [s : {"in-set"}, set : {x.set.name : x \in Range(PortSets)}, invert : BOOLEAN]
    BY <2>2
  <2>3. CASE st \in [s : {"xt-state"}, states : SUBSET Nat, invert : BOOLEAN,
                     others : SUBSET (Nat \ {StateFlag})]
    BY <2>3
  <2>4. CASE \/ st \in [s : {"port"}, op : {"eq", "neq", "gt", "lt"}, port : Port]
             \/ st \in [s : {"between", "outside"}, lo : Port, hi : Port]
             \/ st \in [s : {"masked"}, high : Byte]
             \/ st \in [s : {"proto"}, op : {"eq", "neq"}, number : Byte]
    BY <2>4
  <2>5. CASE \/ st \in [s : {"iifname", "route-by"}, name : Name]
             \/ st \in [s : {"iif"}, index : Byte]
             \/ st \in [s : {"recent"}, rev : {0, 1}, check : Nat, invert : BOOLEAN]
    BY <2>5
  <2>6. CASE st \in [s : {"skuid-0", "mark", "ct-new", "ct-old", "ct-dnat", "ct-mark", "set-ct-mark",
                          "local", "no-route", "opaque", "socket", "xt-icmp", "limit", "log", "quota",
                          "last"}]
    BY <2>6
  <2> QED
    BY <2>1, <2>2, <2>3, <2>4, <2>5, <2>6
<1> QED
  BY <1>1, <1>2, <1>3

LEMMA PacketIs ==
    ASSUME NEW p \in Packet
    PROVE  /\ p.dport \in Port /\ p.iif \in Name /\ p.iifIndex \in Byte /\ p.ctState = "new"
           /\ p.dnatApplied \in BOOLEAN /\ p.dstIsLocal \in BOOLEAN /\ p.proto \in {"tcp", "udp"}
           /\ p.src \in Address /\ p.dst \in Address /\ p.srcRouteDev \in Seq(Byte)
BY DEF Packet

\* The rule is before the o-th expression of a statement.
Reading(st, p, o, mm, r, i) ==
    /\ Running(mm) /\ o \in DOMAIN Compile(st) /\ Within(st, p, o, mm.regs)
    /\ AsReread(r[i], Compile(st)[o])

\* After a load: the next expression is within, or nothing is known.
LEMMA LoadAdvances ==
    ASSUME NEW st, NEW p, NEW mm, NEW n, st.s # "set-ct-mark", Len(Compile(st)) # 1,
           Loaded(n, mm, Loading(st, p)), Loading(st, p) = Refused => Says(st, p) = "unknown"
    PROVE  Advances(st, p, 1, mm, n)
<1>1. CASE Loading(st, p) = Refused
  BY <1>1, StopsAdvance DEF Loaded
<1>2. CASE Loading(st, p) # Refused
  <2>1. Stops(n, mm, Undecided) /\ 1 \in DOMAIN n.regs /\ n.regs[1] = Loading(st, p)
    BY <1>2 DEF Loaded, Holding
  <2>2. Within(st, p, 2, n.regs)
    BY <1>2, <2>1 DEF Within
  <2>3. 1 + 1 = 2
    OBVIOUS
  <2> QED
    BY <2>1, <2>2, <2>3, StopsAdvance
<1> QED
  BY <1>1, <1>2

\* After the last compare of a statement.
LEMMA CompareAdvances ==
    ASSUME NEW st, NEW p, NEW mm, Running(mm), NEW r, NEW i, NEW o, o = Len(Compile(st)),
           NEW op \in {"eq", "neq", "gte", "lte", "gt", "lt"}, NEW data \in Seq(Byte), r[i] = Cmp(op, data),
           1 \in DOMAIN mm.regs, Len(data) <= Len(mm.regs[1]),
           CmpHolds(op, Truncate(mm.regs[1], Len(data)), data) => Says(st, p) = "yes",
           ~CmpHolds(op, Truncate(mm.regs[1], Len(data)), data) => Says(st, p) = "no"
    PROVE  Advances(st, p, o, mm, Exec(p, r, Sets, i, mm))
<1> DEFINE holds == CmpHolds(op, Truncate(mm.regs[1], Len(data)), data)
<1>1. Exec(p, r, Sets, i, mm) = Requires(mm, holds)
  BY CompareTells
<1>2. CASE holds
  <2>1. Exec(p, r, Sets, i, mm) = mm
    BY <1>1, <1>2 DEF Requires
  <2> QED
    BY <1>2, <2>1, RunsOn, StopsAdvance
<1>3. CASE ~holds
  <2>1. Exec(p, r, Sets, i, mm) = Ends(mm, "NoMatch")
    BY <1>1, <1>3 DEF Requires
  <2> QED
    BY <1>3, <2>1, RunsOn, StopsAdvance
<1> QED
  BY <1>2, <1>3

(***************************************************************************)
(* Ports                                                                   *)
(***************************************************************************)
PortKinds == {"port", "between", "outside", "masked", "in-set"}

LEMMA PortIsLoaded ==
    ASSUME NEW st, st.s \in PortKinds, NEW p \in Packet, NEW mm, Running(mm), NEW r, NEW i,
           AsReread(r[i], LoadPort), Len(Compile(st)) # 1
    PROVE  Advances(st, p, 1, mm, Exec(p, r, Sets, i, mm))
<1>1. r[i] = LoadPort
  BY PlainShapes, PlainStays
<1>2. PayloadBytes(p, r[i]) = PortBytes(p.dport)
  BY <1>1 DEF LoadPort, PayloadBytes, TransportBytes
<1>3. PortBytes(p.dport) \in Seq(Byte) /\ PortBytes(p.dport) # Refused
  BY PacketIs, PortBytesAre
<1>4. r[i].k = "payload" /\ r[i].reg = 1
  BY <1>1 DEF LoadPort
<1>5. Loaded(Exec(p, r, Sets, i, mm), mm, PortBytes(p.dport))
  BY <1>2, <1>3, <1>4, PayloadLoads
<1>6. Loading(st, p) = PortBytes(p.dport)
  BY DEF Loading, PortKinds
<1> HIDE DEF Loading
<1>7. st.s # "set-ct-mark"
  BY DEF PortKinds
<1> QED
  BY <1>3, <1>5, <1>6, <1>7, LoadAdvances

\* Once it is loaded.
LEMMA PortIsHeld ==
    ASSUME NEW st, st.s \in PortKinds, NEW p \in Packet, NEW mm, Running(mm), Within(st, p, 2, mm.regs)
    PROVE  1 \in DOMAIN mm.regs /\ mm.regs[1] = PortBytes(p.dport)
<1>1. Loading(st, p) = PortBytes(p.dport)
  BY DEF Loading, PortKinds
<1>2. st.s # "set-ct-mark"
  BY DEF PortKinds
<1> QED
  BY <1>1, <1>2 DEF Within

\* Compares of a port are compares of its number.
LEMMA PortCompares ==
    ASSUME NEW p \in Port, NEW q \in Port
    PROVE  /\ Truncate(PortBytes(p), Len(PortBytes(q))) = PortBytes(p)
           /\ CmpHolds("eq", PortBytes(p), PortBytes(q)) <=> p = q
           /\ CmpHolds("neq", PortBytes(p), PortBytes(q)) <=> p # q
           /\ CmpHolds("gte", PortBytes(p), PortBytes(q)) <=> p >= q
           /\ CmpHolds("lte", PortBytes(p), PortBytes(q)) <=> p <= q
           /\ CmpHolds("gt", PortBytes(p), PortBytes(q)) <=> p > q
           /\ CmpHolds("lt", PortBytes(p), PortBytes(q)) <=> p < q
<1> DEFINE a == PortBytes(p)  b == PortBytes(q)
<1>1. /\ a \in Seq(Byte) /\ Len(a) = 2 /\ Len(b) = 2
      /\ a = b <=> p = q
      /\ Less(a, b) <=> p < q
      /\ Less(b, a) <=> q < p
  BY PortBytesAre, PortOrder
<1>2. p \in Int /\ q \in Int
  BY PortIs
<1> HIDE DEF a, b
<1>3. Truncate(a, Len(b)) = a
  <2>1. 2 \in 0 .. Len(a)
    BY <1>1
  <2> QED
    BY <1>1, <2>1, TruncatedBytes
<1>4. /\ CmpHolds("eq", a, b) <=> a = b
      /\ CmpHolds("neq", a, b) <=> a # b
      /\ CmpHolds("gte", a, b) <=> ~Less(a, b)
      /\ CmpHolds("lte", a, b) <=> ~Less(b, a)
      /\ CmpHolds("gt", a, b) <=> Less(b, a)
      /\ CmpHolds("lt", a, b) <=> Less(a, b)
  BY DEF CmpHolds
<1> QED
  BY <1>1, <1>2, <1>3, <1>4 DEF a, b

\* The second expression of a port statement; `between` has a third.
LEMMA PortStatement ==
    ASSUME NEW st \in Statement, st.s = "port", NEW p \in Packet, NEW mm, NEW o, NEW r, NEW i,
           Reading(st, p, o, mm, r, i)
    PROVE  Advances(st, p, o, mm, Exec(p, r, Sets, i, mm))
<1>1. Compile(st) = <<LoadPort, Cmp(st.op, PortBytes(st.port))>>
  BY DEF Compile
<1>2. /\ Len(Compile(st)) = 2 /\ o \in {1, 2}
      /\ Compile(st)[1] = LoadPort /\ Compile(st)[2] = Cmp(st.op, PortBytes(st.port))
  BY <1>1 DEF Reading
<1>3. st.op \in {"eq", "neq", "gt", "lt"} /\ st.port \in Port /\ p.dport \in Port /\ Running(mm)
  BY Operands, PacketIs DEF Reading
<1>4. CASE o = 1
  BY <1>2, <1>3, <1>4, PortIsLoaded DEF Reading, PortKinds
<1>5. CASE o = 2
  <2>1. r[i] = Cmp(st.op, PortBytes(st.port))
    <3>1. st.op \in CmpOps
      BY <1>3 DEF CmpOps
    <3> QED
      BY <1>2, <1>5, <3>1, PlainShapes, PlainStays DEF Reading
  <2>2. 1 \in DOMAIN mm.regs /\ mm.regs[1] = PortBytes(p.dport)
    BY <1>3, <1>5, PortIsHeld DEF Reading, PortKinds
  <2> DEFINE holds == CmpHolds(st.op, PortBytes(p.dport), PortBytes(st.port))
  <2>3. /\ Truncate(mm.regs[1], Len(PortBytes(st.port))) = PortBytes(p.dport)
        /\ PortBytes(st.port) \in Seq(Byte) /\ Len(PortBytes(st.port)) <= Len(mm.regs[1])
    BY <1>3, <2>2, PortCompares, PortBytesAre
  <2>4. /\ st.op = "eq" => (holds <=> p.dport = st.port)
        /\ st.op = "neq" => (holds <=> p.dport # st.port)
        /\ st.op = "gt" => (holds <=> p.dport > st.port)
        /\ st.op = "lt" => (holds <=> p.dport < st.port)
    BY <1>3, PortCompares
  <2> HIDE DEF holds
  <2>5. (holds => Says(st, p) = "yes") /\ (~holds => Says(st, p) = "no")
    <3>1. CASE st.op = "eq"
      BY <2>4, <3>1 DEF Says, YesNo
    <3>2. CASE st.op = "neq"
      BY <2>4, <3>2 DEF Says, YesNo
    <3>3. CASE st.op = "gt"
      BY <2>4, <3>3 DEF Says, YesNo
    <3>4. CASE st.op = "lt"
      BY <2>4, <3>4 DEF Says, YesNo
    <3> QED
      BY <1>3, <3>1, <3>2, <3>3, <3>4
  <2> QED
    BY <1>2, <1>3, <1>5, <2>1, <2>2, <2>3, <2>5, CompareAdvances DEF holds
<1> QED
  BY <1>2, <1>4, <1>5

LEMMA PortRange ==
    ASSUME NEW q \in Port, NEW lo \in Port, NEW hi \in Port
    PROVE  /\ q \in lo .. hi <=> q >= lo /\ q <= hi
           /\ q \notin lo .. hi <=> q < lo \/ hi < q
           /\ q \div 256 \in Byte /\ 0 \in Byte /\ 255 \in Byte
<1>1. q \in Int /\ lo \in Int /\ hi \in Int /\ q \div 256 \in Byte
  BY PortIs
<1>2. 0 \in Byte /\ 255 \in Byte
  BY DEF Byte
<1>3. /\ q \in lo .. hi <=> q >= lo /\ q <= hi
      /\ q \notin lo .. hi <=> q < lo \/ hi < q
  BY <1>1
<1> QED
  BY <1>1, <1>2, <1>3

\* A machine that an expression leaves as it is, and one it ends.
LEMMA PassAdvances ==
    ASSUME NEW st, NEW p, NEW o, NEW mm, Running(mm),
           o = Len(Compile(st)) => Says(st, p) = "yes",
           o # Len(Compile(st)) => Within(st, p, o + 1, mm.regs)
    PROVE  Advances(st, p, o, mm, mm)
<1>1. Stops(mm, mm, Undecided)
  BY RunsOn
<1> QED
  BY <1>1, StopsAdvance

LEMMA EndAdvances ==
    ASSUME NEW st, NEW p, NEW o, NEW mm, Running(mm)
    PROVE  /\ Says(st, p) = "no" => Advances(st, p, o, mm, Ends(mm, "NoMatch"))
           /\ Says(st, p) = "unknown" => Advances(st, p, o, mm, Ends(mm, "Unknown"))
           /\ Says(st, p) = "unknown" => Advances(st, p, o, mm, Ends(mm, "Skipped"))
<1>1. /\ Stops(Ends(mm, "NoMatch"), mm, "NoMatch")
      /\ Stops(Ends(mm, "Unknown"), mm, "Unknown")
      /\ Stops(Ends(mm, "Skipped"), mm, "Skipped")
  BY RunsOn
<1> QED
  BY <1>1, StopsAdvance

LEMMA BetweenStatement ==
    ASSUME NEW st \in Statement, st.s = "between", NEW p \in Packet, NEW mm, NEW o, NEW r, NEW i,
           Reading(st, p, o, mm, r, i)
    PROVE  Advances(st, p, o, mm, Exec(p, r, Sets, i, mm))
<1>1. Compile(st) = <<LoadPort, Cmp("gte", PortBytes(st.lo)), Cmp("lte", PortBytes(st.hi))>>
  BY DEF Compile
<1>2. /\ Len(Compile(st)) = 3 /\ o \in {1, 2, 3}
      /\ Compile(st)[1] = LoadPort /\ Compile(st)[2] = Cmp("gte", PortBytes(st.lo))
      /\ Compile(st)[3] = Cmp("lte", PortBytes(st.hi))
  BY <1>1 DEF Reading
<1>3. st.lo \in Port /\ st.hi \in Port /\ p.dport \in Port /\ Running(mm)
  BY Operands, PacketIs DEF Reading
<1>4. st.s \in PortKinds /\ "gte" \in CmpOps /\ "lte" \in CmpOps /\ st.s # "set-ct-mark"
  BY DEF PortKinds, CmpOps
<1>5. CASE o = 1
  BY <1>2, <1>3, <1>4, <1>5, PortIsLoaded DEF Reading
<1>6. Says(st, p) = IF p.dport >= st.lo /\ p.dport <= st.hi THEN "yes" ELSE "no"
  <2>1. Says(st, p) = IF p.dport \in st.lo .. st.hi THEN "yes" ELSE "no"
    BY DEF Says, YesNo
  <2>2. p.dport \in st.lo .. st.hi <=> p.dport >= st.lo /\ p.dport <= st.hi
    BY <1>3, PortRange
  <2> QED
    BY <2>1, <2>2
<1>7. CASE o = 2
  <2>1. r[i] = Cmp("gte", PortBytes(st.lo))
    BY <1>2, <1>4, <1>7, PlainShapes, PlainStays DEF Reading
  <2>2. 1 \in DOMAIN mm.regs /\ mm.regs[1] = PortBytes(p.dport)
    BY <1>3, <1>4, <1>7, PortIsHeld DEF Reading
  <2> DEFINE data == PortBytes(st.lo)  holds == CmpHolds("gte", PortBytes(p.dport), data)
  <2>3. /\ Truncate(mm.regs[1], Len(data)) = PortBytes(p.dport)
        /\ data \in Seq(Byte) /\ Len(data) <= Len(mm.regs[1])
    BY <1>3, <2>2, PortCompares, PortBytesAre
  <2>4. holds <=> p.dport >= st.lo
    BY <1>3, PortCompares
  <2>5. Exec(p, r, Sets, i, mm) = Requires(mm, CmpHolds("gte", Truncate(mm.regs[1], Len(data)), data))
    BY <1>3, <2>1, <2>2, <2>3, CompareTells
  <2>6. Exec(p, r, Sets, i, mm) = Requires(mm, holds)
    BY <2>3, <2>5
  <2> HIDE DEF data, holds
  <2>7. CASE holds
    <3>1. Exec(p, r, Sets, i, mm) = mm
      BY <2>6, <2>7 DEF Requires
    <3>2. Loading(st, p) # Refused
      BY <1>4, <1>7 DEF Reading, Within
    <3>3. Loading(st, p) = PortBytes(p.dport)
      BY <1>4 DEF Loading
    <3>4. Within(st, p, o + 1, mm.regs)
      BY <1>7, <2>2, <2>4, <2>7, <3>2, <3>3 DEF Within
    <3>5. Running(mm) /\ o # Len(Compile(st))
      BY <1>2, <1>3, <1>7
    <3>6. Advances(st, p, o, mm, mm)
      BY <3>4, <3>5, PassAdvances
    <3> QED
      BY <3>1, <3>6
  <2>8. CASE ~holds
    <3>1. Exec(p, r, Sets, i, mm) = Ends(mm, "NoMatch")
      BY <2>6, <2>8 DEF Requires
    <3>2. Says(st, p) = "no"
      BY <1>6, <2>4, <2>8
    <3> QED
      BY <1>3, <3>1, <3>2, EndAdvances
  <2> QED
    BY <2>7, <2>8
<1>8. CASE o = 3
  <2>1. r[i] = Cmp("lte", PortBytes(st.hi))
    BY <1>2, <1>4, <1>8, PlainShapes, PlainStays DEF Reading
  <2>2. 1 \in DOMAIN mm.regs /\ mm.regs[1] = PortBytes(p.dport) /\ p.dport >= st.lo
    <3>1. Loading(st, p) = PortBytes(p.dport)
      BY <1>4 DEF Loading
    <3> QED
      BY <1>4, <1>8, <3>1 DEF Reading, Within
  <2> DEFINE data == PortBytes(st.hi)  holds == CmpHolds("lte", PortBytes(p.dport), data)
  <2>3. /\ Truncate(mm.regs[1], Len(data)) = PortBytes(p.dport)
        /\ data \in Seq(Byte) /\ Len(data) <= Len(mm.regs[1])
    BY <1>3, <2>2, PortCompares, PortBytesAre
  <2>4. holds <=> p.dport <= st.hi
    BY <1>3, PortCompares
  <2> HIDE DEF holds
  <2>5. (holds => Says(st, p) = "yes") /\ (~holds => Says(st, p) = "no")
    BY <1>6, <2>2, <2>4
  <2> QED
    BY <1>2, <1>3, <1>8, <2>1, <2>2, <2>3, <2>5, CompareAdvances DEF holds
<1> QED
  BY <1>2, <1>5, <1>7, <1>8

LEMMA OutsideStatement ==
    ASSUME NEW st \in Statement, st.s = "outside", NEW p \in Packet, NEW mm, NEW o, NEW r, NEW i,
           Reading(st, p, o, mm, r, i)
    PROVE  Advances(st, p, o, mm, Exec(p, r, Sets, i, mm))
<1> DEFINE g == [k |-> "range", op |-> "neq", reg |-> 1, from |-> PortBytes(st.lo), to |-> PortBytes(st.hi)]
<1>1. Compile(st) = <<LoadPort, g>>
  BY DEF Compile
<1> HIDE DEF g
<1>2. /\ Len(Compile(st)) = 2 /\ o \in {1, 2} /\ Compile(st)[1] = LoadPort /\ Compile(st)[2] = g
  BY <1>1 DEF Reading
<1>3. st.lo \in Port /\ st.hi \in Port /\ p.dport \in Port /\ Running(mm)
  BY Operands, PacketIs DEF Reading
<1>4. st.s \in PortKinds
  BY DEF PortKinds
<1>5. CASE o = 1
  BY <1>2, <1>3, <1>4, <1>5, PortIsLoaded DEF Reading
<1>6. CASE o = 2
  <2>1. r[i] = g
    BY <1>2, <1>6, PlainShapes, PlainStays DEF Reading, g
  <2>2. 1 \in DOMAIN mm.regs /\ mm.regs[1] = PortBytes(p.dport)
    BY <1>3, <1>4, <1>6, PortIsHeld DEF Reading
  <2> DEFINE v == PortBytes(p.dport)  a == PortBytes(st.lo)  b == PortBytes(st.hi)
  <2>3. /\ Truncate(mm.regs[1], Len(a)) = v /\ Len(a) = 2 /\ Len(b) = 2 /\ Len(mm.regs[1]) = 2
        /\ Undecodable \notin {a, b}
        /\ Less(v, a) <=> p.dport < st.lo
        /\ Less(b, v) <=> st.hi < p.dport
    BY <1>3, <2>2, PortCompares, PortBytesAre, PortOrder
  <2>4. g.k = "range" /\ g.op = "neq" /\ g.reg = 1 /\ g.from = a /\ g.to = b
    BY DEF g
  <2> HIDE DEF v, a, b
  <2>5. Exec(p, r, Sets, i, mm) = ExecRange(g, mm)
    BY <2>1, <2>4 DEF Exec
  <2>6. Holds(mm, 1, Len(a))
    BY <2>2, <2>3 DEF Holds
  <2>7. ExecRange(g, mm) = Requires(mm, (~Less(v, a) /\ ~Less(b, v)) = ("neq" = "eq"))
    BY <2>3, <2>4, <2>6 DEF ExecRange
  <2>8. Says(st, p) = IF p.dport < st.lo \/ st.hi < p.dport THEN "yes" ELSE "no"
    <3>1. Says(st, p) = IF p.dport \notin st.lo .. st.hi THEN "yes" ELSE "no"
      BY DEF Says, YesNo
    <3>2. p.dport \notin st.lo .. st.hi <=> p.dport < st.lo \/ st.hi < p.dport
      BY <1>3, PortRange
    <3> QED
      BY <3>1, <3>2
  <2>9. CASE Less(v, a) \/ Less(b, v)
    <3>1. Requires(mm, (~Less(v, a) /\ ~Less(b, v)) = ("neq" = "eq")) = mm
      BY <2>9 DEF Requires
    <3>2. Says(st, p) = "yes"
      BY <2>3, <2>8, <2>9
    <3>3. Advances(st, p, o, mm, mm)
      BY <1>2, <1>3, <1>6, <3>2, PassAdvances
    <3> QED
      BY <2>5, <2>7, <3>1, <3>3
  <2>10. CASE ~(Less(v, a) \/ Less(b, v))
    <3>1. Requires(mm, (~Less(v, a) /\ ~Less(b, v)) = ("neq" = "eq")) = Ends(mm, "NoMatch")
      BY <2>10 DEF Requires
    <3> QED
      BY <1>3, <2>3, <2>5, <2>7, <2>8, <2>10, <3>1, EndAdvances
  <2> QED
    BY <2>9, <2>10
<1> QED
  BY <1>2, <1>5, <1>6

LEMMA MaskedStatement ==
    ASSUME NEW st \in Statement, st.s = "masked", NEW p \in Packet, NEW mm, NEW o, NEW r, NEW i,
           Reading(st, p, o, mm, r, i)
    PROVE  Advances(st, p, o, mm, Exec(p, r, Sets, i, mm))
<1> DEFINE g == [k |-> "bitwise", src |-> 1, reg |-> 1, mask |-> <<255, 0>>, xor |-> <<>>]
           data == <<st.high, 0>>
           high == p.dport \div 256
<1>1. Compile(st) = <<LoadPort, g, Cmp("eq", data)>>
  BY DEF Compile
<1>2. Plain(g) /\ Plain(Cmp("eq", data))
  BY PlainShapes DEF CmpOps
<1>3. st.high \in Byte /\ p.dport \in Port /\ Running(mm) /\ st.s \in PortKinds
      /\ st.s # "set-ct-mark" /\ st.s # "between"
  BY Operands, PacketIs DEF Reading, PortKinds
<1>4. 0 \in Byte /\ 255 \in Byte /\ high \in Byte
  BY <1>3, PortRange
<1>5. /\ PortBytes(p.dport)[1] = high /\ PortBytes(p.dport)[2] \in Byte /\ Len(PortBytes(p.dport)) = 2
  BY <1>3, PortBytesAre
<1>6. data \in Seq(Byte) /\ Len(data) = 2
  BY <1>3, <1>4
<1>7. (<<high, 0>> = data) <=> high = st.high
  OBVIOUS
<1>8. Masking(st, p) = <<high, 0>>
  BY DEF Masking
<1>9. Says(st, p) = IF high = st.high THEN "yes" ELSE "no"
  BY DEF Says, YesNo
<1>10. <<high, 0>> \in Seq(Byte) /\ Len(<<high, 0>>) = 2
  BY <1>4
<1>11. <<255, 0>> \in Seq(Byte) /\ Len(<<255, 0>>) = 2 /\ <<>> \in Seq(Byte)
  BY <1>4
<1> HIDE DEF data, high
<1>12. g.k = "bitwise"
  OBVIOUS
<1>13. /\ Len(Compile(st)) = 3 /\ o \in {1, 2, 3} /\ Compile(st)[1] = LoadPort /\ Compile(st)[2] = g
       /\ Compile(st)[3] = Cmp("eq", data)
  BY <1>1 DEF Reading
<1>14. CASE o = 1
  BY <1>3, <1>13, <1>14, PortIsLoaded DEF Reading
<1>15. CASE o = 2
  <2>1. r[i] = g
    BY <1>2, <1>13, <1>15, PlainStays DEF Reading
  <2>2. 1 \in DOMAIN mm.regs /\ mm.regs[1] = PortBytes(p.dport)
    BY <1>3, <1>15, PortIsHeld DEF Reading
  <2> DEFINE n == Exec(p, r, Sets, i, mm)
             mask == <<255, 0>>
             none == <<>>
             w == <<high, 0>>
  <2>3. Holding(n, mm, w)
    <3>1. mask[1] = 255 /\ mask[2] = 0 /\ w[1] = high /\ w[2] = 0 /\ w \in Seq(Byte) /\ Len(w) = 2
      BY <1>10
    <3>2. r[i].k = "bitwise" /\ r[i].src = 1 /\ r[i].reg = 1 /\ r[i].mask = mask /\ r[i].xor = none
      BY <2>1
    <3>3. mask \in Seq(Byte) /\ none \in Seq(Byte) /\ Len(mask) = 2 /\ none = <<>>
      BY <1>11
    <3> HIDE DEF mask, none, n, w, g
    <3>4. w[1] = MaskByte(mm.regs[1][1], mask[1], 0) /\ w[2] = MaskByte(mm.regs[1][2], mask[2], 0)
      BY <1>4, <1>5, <2>2, <3>1, MaskWhole
    <3>5. \A j \in 1 .. 2 : j = 1 \/ j = 2
      OBVIOUS
    <3>6. \A j \in 1 .. Len(mask) : w[j] = MaskByte(mm.regs[1][j], mask[j], 0)
      BY <3>3, <3>4, <3>5
    <3>7. Len(mask) <= Len(mm.regs[1])
      BY <1>5, <2>2, <3>3
    <3>8. MaskOf(r[i], mask, none)
      BY <3>2, <3>3 DEF MaskOf
    <3>9. Masks(w, mm.regs[1], mask)
      BY <3>1, <3>3, <3>6, <3>7 DEF Masks
    <3>10. Holding(Exec(p, r, Sets, i, mm), mm, w)
      BY <1>3, <2>2, <3>8, <3>9, MaskFills
    <3> QED
      BY <3>10 DEF n
  <2>4. w = <<high, 0>>
    OBVIOUS
  <2> HIDE DEF n, w
  <2>5. Within(st, p, 3, n.regs)
    <3>1. Loading(st, p) # Refused
      BY <1>3, <1>15 DEF Reading, Within
    <3> QED
      BY <1>3, <1>8, <2>3, <2>4, <3>1 DEF Within, Holding
  <2>6. 2 + 1 = 3 /\ o # Len(Compile(st))
    BY <1>13, <1>15
  <2> QED
    BY <1>15, <2>3, <2>5, <2>6, StopsAdvance DEF Holding, n
<1>16. CASE o = 3
  <2>1. r[i] = Cmp("eq", data)
    BY <1>2, <1>13, <1>16, PlainStays DEF Reading
  <2>2. 1 \in DOMAIN mm.regs /\ mm.regs[1] = <<high, 0>>
    BY <1>3, <1>8, <1>16 DEF Reading, Within
  <2>3. Truncate(<<high, 0>>, 2) = <<high, 0>>
    <3>1. 2 \in 0 .. Len(<<high, 0>>)
      BY <1>10
    <3> QED
      BY <1>10, <3>1, TruncatedBytes
  <2>4. CmpHolds("eq", <<high, 0>>, data) <=> high = st.high
    BY <1>7 DEF CmpHolds
  <2>5. Truncate(mm.regs[1], Len(data)) = <<high, 0>> /\ Len(data) <= Len(mm.regs[1])
    BY <1>6, <1>10, <2>2, <2>3
  <2> QED
    <3>1. o = Len(Compile(st)) /\ Running(mm) /\ data \in Seq(Byte)
      BY <1>3, <1>6, <1>13, <1>16
    <3>2. /\ CmpHolds("eq", Truncate(mm.regs[1], Len(data)), data) => Says(st, p) = "yes"
          /\ ~CmpHolds("eq", Truncate(mm.regs[1], Len(data)), data) => Says(st, p) = "no"
      BY <1>9, <2>4, <2>5
    <3> QED
      BY <2>1, <2>2, <2>5, <3>1, <3>2, CompareAdvances
<1> QED
  BY <1>13, <1>14, <1>15, <1>16

(***************************************************************************)
(* Interfaces, protocols and routes                                        *)
(***************************************************************************)
\* A load of two expressions, and the one compare after it.
Decides(st, p, op, v, data) ==
    /\ op \in {"eq", "neq"} /\ v \in Seq(Byte) /\ data \in Seq(Byte) /\ Len(data) <= Len(v)
    /\ CmpHolds(op, Truncate(v, Len(data)), data) => Says(st, p) = "yes"
    /\ ~CmpHolds(op, Truncate(v, Len(data)), data) => Says(st, p) = "no"

LEMMA LastCompares ==
    ASSUME NEW st, NEW p, NEW o, NEW mm, Running(mm), NEW r, NEW i, NEW op, NEW data,
           AsReread(r[i], Cmp(op, data)), o = Len(Compile(st)),
           1 \in DOMAIN mm.regs, Decides(st, p, op, mm.regs[1], data)
    PROVE  Advances(st, p, o, mm, Exec(p, r, Sets, i, mm))
<1>1. op \in {"eq", "neq", "gte", "lte", "gt", "lt"} /\ op \in CmpOps
  BY DEF CmpOps, Decides
<1>2. r[i] = Cmp(op, data)
  BY <1>1, PlainShapes, PlainStays
<1> QED
  BY <1>1, <1>2, CompareAdvances DEF Decides

LEMMA SecondCompares ==
    ASSUME NEW st, NEW p, NEW mm, Running(mm), NEW r, NEW i, NEW op, NEW data,
           AsReread(r[i], Cmp(op, data)), Len(Compile(st)) = 2,
           st.s # "set-ct-mark", Within(st, p, 2, mm.regs), Decides(st, p, op, Loading(st, p), data)
    PROVE  Advances(st, p, 2, mm, Exec(p, r, Sets, i, mm))
<1>1. 1 \in DOMAIN mm.regs /\ mm.regs[1] = Loading(st, p)
  BY DEF Within
<1> QED
  BY <1>1, LastCompares

LEMMA NothingIsRefused ==
    /\ Refused \in Seq(Byte)
    /\ \A p : MetaBytes(p, "unknown") = Refused
<1>1. Refused \in Seq(Byte)
  BY DEF Refused
<1>2. \A p : MetaBytes(p, "unknown") = Refused
  BY DEF MetaBytes
<1> QED
  BY <1>1, <1>2

\* A statement whose first expression loads what it is about.
Loadable(st, p) ==
    /\ Loading(st, p) \in Seq(Byte)
    /\ Loading(st, p) = Refused => Says(st, p) = "unknown"
    /\ Len(Compile(st)) # 1 /\ st.s # "set-ct-mark"

LEMMA LoadedAdvances ==
    ASSUME NEW st, NEW p, Loadable(st, p), NEW mm, NEW n, Loaded(n, mm, Loading(st, p))
    PROVE  Advances(st, p, 1, mm, n)
BY LoadAdvances DEF Loadable

LEMMA MetaIsLoaded ==
    ASSUME NEW st, NEW p, Loadable(st, p), NEW mm, Running(mm), NEW r, NEW i,
           r[i].k = "meta", r[i].reg = 1, ~MetaAbsent(r[i].key),
           Loading(st, p) = MetaBytes(p, r[i].key)
    PROVE  Advances(st, p, 1, mm, Exec(p, r, Sets, i, mm))
<1>1. MetaBytes(p, r[i].key) \in Seq(Byte)
  BY DEF Loadable
<1>2. Loaded(Exec(p, r, Sets, i, mm), mm, MetaBytes(p, r[i].key))
  BY <1>1, MetaLoads
<1> QED
  BY <1>2, LoadedAdvances

LEMMA FieldStays ==
    ASSUME NEW key, NEW e, AsReread(e, [k |-> "meta", key |-> key, reg |-> 1])
    PROVE  e.k = "meta" /\ e.reg = 1 /\ e.key = Named(MetaKeys, key)
<1> DEFINE g == [k |-> "meta", key |-> key, reg |-> 1]
           h == [k |-> "meta", key |-> Named(MetaKeys, key), reg |-> 1]
<1>1. ~IsXt(g)
  BY DEF IsXt
<1>2. ConvertExpr(g) = h
  BY DEF ConvertExpr
<1>3. h.k = "meta" /\ h.reg = 1 /\ h.key = Named(MetaKeys, key) /\ Unknown.k = "unknown"
  BY DEF Unknown
<1> HIDE DEF g, h
<1>4. e = h
  BY <1>1, <1>2, <1>3 DEF AsReread, AsCollected, g
<1> QED
  BY <1>3, <1>4

LEMMA ProtoStatement ==
    ASSUME NEW st \in Statement, st.s = "proto", NEW p \in Packet, NEW mm, NEW o, NEW r, NEW i,
           Reading(st, p, o, mm, r, i)
    PROVE  Advances(st, p, o, mm, Exec(p, r, Sets, i, mm))
<1> DEFINE data == <<st.number>>  v == ProtoNumber(p.proto)
<1>1. Compile(st) = <<[k |-> "meta", key |-> "l4proto", reg |-> 1], Cmp(st.op, data)>>
  BY DEF Compile
<1>2. /\ Len(Compile(st)) = 2 /\ o \in {1, 2}
      /\ Compile(st)[1] = [k |-> "meta", key |-> "l4proto", reg |-> 1]
      /\ Compile(st)[2] = Cmp(st.op, data)
  BY <1>1 DEF Reading
<1>3. st.op \in {"eq", "neq"} /\ st.number \in Byte /\ Running(mm)
  BY Operands DEF Reading
<1>4. data \in Seq(Byte) /\ Len(data) = 1
  BY <1>3, OneByte
<1>5. v \in Seq(Byte) /\ Len(v) = 1
  <2>1. 17 \in Byte /\ 6 \in Byte
    BY DEF Byte
  <2>2. << 17 >> \in Seq(Byte) /\ << 6 >> \in Seq(Byte) /\ Len(<< 17 >>) = 1 /\ Len(<< 6 >>) = 1
    BY <2>1, OneByte
  <2> QED
    BY <2>2 DEF ProtoNumber
<1>6. Loading(st, p) = v /\ MetaBytes(p, "l4proto") = v
  BY DEF Loading, MetaBytes
<1>7. Says(st, p) = IF (v = data) = (st.op = "eq") THEN "yes" ELSE "no"
  BY DEF Says, YesNo
<1> HIDE DEF data, v
<1>8. v # Refused /\ Truncate(v, Len(data)) = v
  <2>1. 1 \in 0 .. Len(v)
    BY <1>5
  <2> QED
    BY <1>4, <1>5, <2>1, BytesAreRead, TruncatedBytes
<1>9. CASE o = 1
  <2>1. Named(MetaKeys, "l4proto") = "l4proto" /\ ~MetaAbsent("l4proto")
    BY DEF MetaKeys, MetaAbsent, Named
  <2>2. r[i].k = "meta" /\ r[i].reg = 1 /\ r[i].key = "l4proto"
    BY <1>2, <1>9, <2>1, FieldStays DEF Reading
  <2>3. Loadable(st, p)
    BY <1>2, <1>5, <1>6, <1>8 DEF Loadable
  <2>4. ~MetaAbsent(r[i].key) /\ Loading(st, p) = MetaBytes(p, r[i].key) /\ Running(mm)
    BY <1>3, <1>6, <2>1, <2>2
  <2>5. Advances(st, p, 1, mm, Exec(p, r, Sets, i, mm))
    BY <2>2, <2>3, <2>4, MetaIsLoaded
  <2> QED
    BY <1>9, <2>5
<1>10. CASE o = 2
  <2>1. AsReread(r[i], Cmp(st.op, data)) /\ Within(st, p, 2, mm.regs)
    BY <1>2, <1>10 DEF Reading
  <2>2. Decides(st, p, st.op, v, data)
    <3>1. CmpHolds(st.op, v, data) <=> (v = data) = (st.op = "eq")
      BY <1>3 DEF CmpHolds
    <3> QED
      BY <1>3, <1>4, <1>5, <1>7, <1>8, <3>1 DEF Decides
  <2> QED
    BY <1>2, <1>3, <1>6, <1>10, <2>1, <2>2, SecondCompares
<1> QED
  BY <1>2, <1>9, <1>10

\* What the first expression leaves unknown, and what follows is not reached.
LEMMA NotLoaded ==
    ASSUME NEW st, NEW p, NEW mm, NEW o, NEW r, NEW i, Reading(st, p, o, mm, r, i),
           Loading(st, p) = Refused, st.s # "set-ct-mark"
    PROVE  o = 1
BY DEF Reading, Within

LEMMA UnknownAdvances ==
    ASSUME NEW st, NEW p, Says(st, p) = "unknown", NEW o, NEW mm, Running(mm), NEW r, NEW i,
           NEW g, ~IsXt(g), ConvertExpr(g) = Unknown, AsReread(r[i], g)
    PROVE  Advances(st, p, o, mm, Exec(p, r, Sets, i, mm))
<1>1. r[i] \in {Unknown, Bare("later")}
  BY UnknownStays
<1>2. Stops(Exec(p, r, Sets, i, mm), mm, "Unknown")
  BY <1>1, UnknownStops
<1> QED
  BY <1>2, StopsAdvance

LEMMA IifnameStatement ==
    ASSUME NEW st \in Statement, st.s = "iifname", NEW p \in Packet, NEW mm, NEW o, NEW r, NEW i,
           Reading(st, p, o, mm, r, i)
    PROVE  Advances(st, p, o, mm, Exec(p, r, Sets, i, mm))
<1> DEFINE data == st.name  v == Ifname(p.iif)
<1>1. Compile(st) = <<[k |-> "meta", key |-> "iifname", reg |-> 1], Cmp("eq", data)>>
  BY DEF Compile
<1>2. /\ Len(Compile(st)) = 2 /\ o \in {1, 2}
      /\ Compile(st)[1] = [k |-> "meta", key |-> "iifname", reg |-> 1]
      /\ Compile(st)[2] = Cmp("eq", data)
  BY <1>1 DEF Reading
<1>3. data \in Name /\ p.iif \in Name /\ Running(mm)
  BY Operands, PacketIs DEF Reading
<1>4. data \in Seq(Byte) /\ Len(data) \in Nat /\ Len(data) <= 16
  <2>1. \A k \in 1 .. 16 : k \in Nat /\ k <= 16
    OBVIOUS
  <2>2. data \in Seq(Byte) /\ Len(data) \in 1 .. 16
    BY <1>3 DEF Name, IfnameLen
  <2> HIDE DEF data
  <2> QED
    BY <2>1, <2>2
<1>5. v \in Seq(Byte) /\ Len(v) = 16
  <2>1. 0 \in Byte /\ p.iif \in Seq(Byte) /\ IfnameLen = 16
    BY <1>3 DEF Byte, Name, IfnameLen
  <2>2. \A j \in 1 .. 16 : j <= Len(p.iif) => p.iif[j] \in Byte
    BY <2>1
  <2>3. v = [j \in 1 .. 16 |-> IF j <= Len(p.iif) THEN p.iif[j] ELSE 0]
    BY <2>1 DEF Ifname
  <2> HIDE DEF v
  <2> QED
    BY <2>1, <2>2, <2>3
<1>6. Loading(st, p) = v /\ MetaBytes(p, "iifname") = v
  BY DEF Loading, MetaBytes
<1>7. Says(st, p) = IF Truncate(v, Len(data)) = data THEN "yes" ELSE "no"
  BY DEF Says, YesNo
<1> HIDE DEF data, v
<1>8. v # Refused
  <2>1. Len(v) > 0
    BY <1>5
  <2> QED
    BY <1>5, <2>1, BytesAreRead
<1>9. CASE o = 1
  <2>1. Named(MetaKeys, "iifname") = "iifname" /\ ~MetaAbsent("iifname")
    BY DEF MetaKeys, MetaAbsent, Named
  <2>2. r[i].k = "meta" /\ r[i].reg = 1 /\ r[i].key = "iifname"
    BY <1>2, <1>9, <2>1, FieldStays DEF Reading
  <2>3. Loadable(st, p)
    BY <1>2, <1>5, <1>6, <1>8 DEF Loadable
  <2>4. ~MetaAbsent(r[i].key) /\ Loading(st, p) = MetaBytes(p, r[i].key) /\ Running(mm)
    BY <1>3, <1>6, <2>1, <2>2
  <2>5. Advances(st, p, 1, mm, Exec(p, r, Sets, i, mm))
    BY <2>2, <2>3, <2>4, MetaIsLoaded
  <2> QED
    BY <1>9, <2>5
<1>10. CASE o = 2
  <2>1. AsReread(r[i], Cmp("eq", data)) /\ Within(st, p, 2, mm.regs)
    BY <1>2, <1>10 DEF Reading
  <2>2. Decides(st, p, "eq", v, data)
    <3>1. CmpHolds("eq", Truncate(v, Len(data)), data) <=> Truncate(v, Len(data)) = data
      BY DEF CmpHolds
    <3>2. Len(data) <= Len(v)
      BY <1>4, <1>5
    <3> QED
      BY <1>4, <1>5, <1>7, <3>1, <3>2 DEF Decides
  <2> QED
    BY <1>2, <1>3, <1>6, <1>10, <2>1, <2>2, SecondCompares
<1> QED
  BY <1>2, <1>9, <1>10

\* Words are compared whole.
LEMMA WordCompares ==
    ASSUME NEW n \in Byte, NEW k \in Byte
    PROVE  /\ Word(n) \in Seq(Byte) /\ Len(Word(k)) <= Len(Word(n)) /\ Word(n) # Refused
           /\ CmpHolds("eq", Truncate(Word(n), Len(Word(k))), Word(k)) <=> n = k
           /\ CmpHolds("neq", Truncate(Word(n), Len(Word(k))), Word(k)) <=> n # k
<1>1. /\ Word(n) \in Seq(Byte) /\ Len(Word(n)) = 4 /\ Len(Word(k)) = 4 /\ Word(n) # Refused
      /\ Word(n) = Word(k) <=> n = k
  BY WordIs
<1>2. 4 \in 0 .. Len(Word(n))
  BY <1>1
<1>3. Truncate(Word(n), 4) = Word(n)
  BY <1>1, <1>2, TruncatedBytes
<1>4. /\ CmpHolds("eq", Word(n), Word(k)) <=> Word(n) = Word(k)
      /\ CmpHolds("neq", Word(n), Word(k)) <=> Word(n) # Word(k)
  BY DEF CmpHolds
<1> QED
  BY <1>1, <1>3, <1>4

LEMMA IifStatement ==
    ASSUME NEW st \in Statement, st.s = "iif", NEW p \in Packet, NEW mm, NEW o, NEW r, NEW i,
           Reading(st, p, o, mm, r, i)
    PROVE  Advances(st, p, o, mm, Exec(p, r, Sets, i, mm))
<1>1. Compile(st) = <<[k |-> "meta", key |-> "iif", reg |-> 1], Cmp("eq", Word(st.index))>>
  BY DEF Compile
<1>2. /\ Len(Compile(st)) = 2 /\ o \in {1, 2}
      /\ Compile(st)[1] = [k |-> "meta", key |-> "iif", reg |-> 1]
      /\ Compile(st)[2] = Cmp("eq", Word(st.index))
  BY <1>1 DEF Reading
<1>3. st.index \in Byte /\ p.iifIndex \in Byte /\ Running(mm)
  BY Operands, PacketIs DEF Reading
<1>4. Loading(st, p) = Ifindex(p.iifIndex) /\ MetaBytes(p, "iif") = Ifindex(p.iifIndex)
  BY DEF Loading, MetaBytes
<1>5. Says(st, p) = IF p.iifIndex = 0 THEN "unknown" ELSE IF p.iifIndex = st.index THEN "yes" ELSE "no"
  BY DEF Says, YesNo
<1>6. CASE o = 1
  <2>1. Named(MetaKeys, "iif") = "iif" /\ ~MetaAbsent("iif")
    BY DEF MetaKeys, MetaAbsent, Named
  <2>2. r[i].k = "meta" /\ r[i].reg = 1 /\ r[i].key = "iif"
    BY <1>2, <1>6, <2>1, FieldStays DEF Reading
  <2>3. Loadable(st, p)
    <3>1. Ifindex(p.iifIndex) \in Seq(Byte) /\ (Ifindex(p.iifIndex) = Refused => p.iifIndex = 0)
      BY <1>3, WordIs, NothingIsRefused DEF Ifindex
    <3> QED
      BY <1>2, <1>4, <1>5, <3>1 DEF Loadable
  <2>4. ~MetaAbsent(r[i].key) /\ Loading(st, p) = MetaBytes(p, r[i].key) /\ Running(mm)
    BY <1>3, <1>4, <2>1, <2>2
  <2>5. Advances(st, p, 1, mm, Exec(p, r, Sets, i, mm))
    BY <2>2, <2>3, <2>4, MetaIsLoaded
  <2> QED
    BY <1>6, <2>5
<1>7. CASE o = 2
  <2>1. AsReread(r[i], Cmp("eq", Word(st.index))) /\ Within(st, p, 2, mm.regs)
    BY <1>2, <1>7 DEF Reading
  <2>2. p.iifIndex # 0 /\ Loading(st, p) = Word(p.iifIndex)
    BY <1>4, <2>1 DEF Within, Ifindex
  <2>3. Decides(st, p, "eq", Word(p.iifIndex), Word(st.index))
    BY <1>3, <1>5, <2>2, WordCompares, WordIs DEF Decides
  <2> QED
    BY <1>2, <1>3, <1>7, <2>1, <2>2, <2>3, SecondCompares
<1> QED
  BY <1>2, <1>6, <1>7

LEMMA SkuidStatement ==
    ASSUME NEW st \in Statement, st.s = "skuid-0", NEW p \in Packet, NEW mm, NEW o, NEW r, NEW i,
           Reading(st, p, o, mm, r, i)
    PROVE  Advances(st, p, o, mm, Exec(p, r, Sets, i, mm))
<1>1. Compile(st) = <<[k |-> "meta", key |-> "skuid", reg |-> 1], Cmp("eq", Word(0))>>
  BY DEF Compile
<1>2. Loading(st, p) = Refused /\ Says(st, p) = "no"
  BY DEF Loading, Says
<1>3. o = 1 /\ Running(mm) /\ AsReread(r[i], [k |-> "meta", key |-> "skuid", reg |-> 1])
  <2>1. o = 1
    BY <1>2, NotLoaded
  <2> QED
    BY <1>1, <2>1 DEF Reading
<1>4. Named(MetaKeys, "skuid") = "skuid" /\ MetaAbsent("skuid")
  BY DEF MetaKeys, MetaAbsent, Named
<1>5. r[i].k = "meta" /\ r[i].key = "skuid"
  BY <1>3, <1>4, FieldStays
<1>6. Exec(p, r, Sets, i, mm) = Ends(mm, "NoMatch")
  BY <1>4, <1>5 DEF Exec, ExecMeta
<1> QED
  BY <1>2, <1>3, <1>6, EndAdvances

LEMMA MarkStatement ==
    ASSUME NEW st \in Statement, st.s = "mark", NEW p \in Packet, NEW mm, NEW o, NEW r, NEW i,
           Reading(st, p, o, mm, r, i)
    PROVE  Advances(st, p, o, mm, Exec(p, r, Sets, i, mm))
<1>1. Compile(st) = <<[k |-> "meta", key |-> "mark", reg |-> 1], Cmp("eq", Word(0))>>
  BY DEF Compile
<1>2. Loading(st, p) = Refused /\ Says(st, p) = "unknown"
  BY DEF Loading, Says
<1>3. o = 1 /\ Running(mm) /\ AsReread(r[i], [k |-> "meta", key |-> "mark", reg |-> 1])
  <2>1. o = 1
    BY <1>2, NotLoaded
  <2> QED
    BY <1>1, <2>1 DEF Reading
<1>4. Named(MetaKeys, "mark") = "unknown" /\ ~MetaAbsent("unknown")
  BY DEF MetaKeys, MetaAbsent, Named
<1>5. r[i].k = "meta" /\ r[i].key = "unknown" /\ r[i].reg = 1
  BY <1>3, <1>4, FieldStays
<1>6. Loadable(st, p)
  <2>1. Len(Compile(st)) # 1
    BY <1>1
  <2> QED
    BY <1>2, <2>1, NothingIsRefused DEF Loadable
<1>7. ~MetaAbsent(r[i].key) /\ Loading(st, p) = MetaBytes(p, r[i].key)
  BY <1>2, <1>4, <1>5, NothingIsRefused
<1>8. Advances(st, p, 1, mm, Exec(p, r, Sets, i, mm))
  BY <1>3, <1>5, <1>6, <1>7, MetaIsLoaded
<1> QED
  BY <1>3, <1>8

\* What the collector does not convert: the connection's mark, read or
\* written, and the device a route leaves by.
LEMMA CtMarkStatement ==
    ASSUME NEW st \in Statement, st.s = "ct-mark", NEW p \in Packet, NEW mm, NEW o, NEW r, NEW i,
           Reading(st, p, o, mm, r, i)
    PROVE  Advances(st, p, o, mm, Exec(p, r, Sets, i, mm))
<1> DEFINE g == [k |-> "ct", key |-> "mark", reg |-> 1, source |-> FALSE]
<1>1. Compile(st) = <<g, Cmp("eq", Word(0))>>
  BY DEF Compile
<1>2. Loading(st, p) = Refused /\ Says(st, p) = "unknown"
  BY DEF Loading, Says
<1>3. ~IsXt(g) /\ ConvertExpr(g) = Unknown
  BY DEF IsXt, ConvertExpr, ConvertCt
<1> HIDE DEF g
<1>4. o = 1 /\ Running(mm) /\ AsReread(r[i], g)
  <2>1. o = 1
    BY <1>2, NotLoaded
  <2> QED
    BY <1>1, <2>1 DEF Reading
<1> QED
  BY <1>2, <1>3, <1>4, UnknownAdvances

LEMMA RouteByStatement ==
    ASSUME NEW st \in Statement, st.s = "route-by", NEW p \in Packet, NEW mm, NEW o, NEW r, NEW i,
           Reading(st, p, o, mm, r, i)
    PROVE  Advances(st, p, o, mm, Exec(p, r, Sets, i, mm))
<1> DEFINE g == [k |-> "fib", flags |-> {"saddr", "oifname"}, reg |-> 1]
<1>1. Compile(st) = <<g, Cmp("eq", Ifname(st.name))>>
  BY DEF Compile
<1>2. Loading(st, p) = Refused /\ Says(st, p) = "unknown"
  BY DEF Loading, Says
<1>3. ~IsXt(g) /\ ConvertExpr(g) = Unknown
  <2>1. g.flags \intersect {"addrtype", "oif", "oifname"} = {"oifname"}
    OBVIOUS
  <2>2. ConvertFib(g) = Unknown
    BY <2>1 DEF ConvertFib
  <2> QED
    BY <2>2 DEF IsXt, ConvertExpr
<1> HIDE DEF g
<1>4. o = 1 /\ Running(mm) /\ AsReread(r[i], g)
  <2>1. o = 1
    BY <1>2, NotLoaded
  <2> QED
    BY <1>1, <2>1 DEF Reading
<1> QED
  BY <1>2, <1>3, <1>4, UnknownAdvances

LEMMA SetCtMarkStatement ==
    ASSUME NEW st \in Statement, st.s = "set-ct-mark", NEW p \in Packet, NEW mm, NEW o, NEW r, NEW i,
           Reading(st, p, o, mm, r, i)
    PROVE  Advances(st, p, o, mm, Exec(p, r, Sets, i, mm))
<1> DEFINE a == [k |-> "immediate", reg |-> 1, data |-> Word(1)]
           g == [k |-> "ct", key |-> "mark", reg |-> 1, source |-> TRUE]
<1>1. Compile(st) = <<a, g>>
  BY DEF Compile
<1>2. Says(st, p) = "unknown"
  BY DEF Says
<1>3. ~IsXt(g) /\ ConvertExpr(g) = Unknown
  BY DEF IsXt, ConvertExpr, ConvertCt
<1>4. Plain(a)
  BY PlainShapes
<1>5. a.k = "immediate" /\ a.reg = 1 /\ a.data = Word(1)
  OBVIOUS
<1> HIDE DEF a, g
<1>6. /\ Len(Compile(st)) = 2 /\ o \in {1, 2} /\ Compile(st)[1] = a /\ Compile(st)[2] = g /\ Running(mm)
  BY <1>1 DEF Reading
<1>7. CASE o = 1
  <2>1. r[i] = a
    BY <1>4, <1>6, <1>7, PlainStays DEF Reading
  <2>2. Word(1) \in Seq(Byte) /\ Word(1) # Undecodable
    <3>1. 1 \in Byte
      BY DEF Byte
    <3> QED
      BY <3>1, WordIs
  <2>3. Exec(p, r, Sets, i, mm) = Loads(mm, 1, Word(1))
    BY <1>5, <2>1, <2>2 DEF Exec
  <2> DEFINE n == Exec(p, r, Sets, i, mm)
  <2>4. Stops(n, mm, Undecided)
    BY <1>6, <2>2, <2>3, LoadsFill DEF Holding
  <2> HIDE DEF n
  <2>5. Within(st, p, o + 1, n.regs)
    BY DEF Within
  <2>6. o # Len(Compile(st))
    BY <1>6, <1>7
  <2>7. Advances(st, p, o, mm, n)
    BY <2>4, <2>5, <2>6, StopsAdvance
  <2> QED
    BY <2>7 DEF n
<1>8. CASE o = 2
  BY <1>2, <1>3, <1>6, <1>8, UnknownAdvances DEF Reading
<1> QED
  BY <1>6, <1>7, <1>8

\* What is converted to something known.
LEMMA ConvertedStays ==
    ASSUME NEW g, ~IsXt(g), ConvertExpr(g).k # "unknown", NEW e, AsReread(e, g)
    PROVE  e = ConvertExpr(g)
<1>1. Unknown.k = "unknown"
  BY DEF Unknown
<1> QED
  BY <1>1 DEF AsReread, AsCollected

LEMMA FibIsLoaded ==
    ASSUME NEW st, NEW p, Loadable(st, p), NEW mm, Running(mm), NEW r, NEW i,
           r[i].k = "fib", r[i].reg = 1, Loading(st, p) = FibBytes(p, r[i])
    PROVE  Advances(st, p, 1, mm, Exec(p, r, Sets, i, mm))
<1>1. FibBytes(p, r[i]) \in Seq(Byte)
  BY DEF Loadable
<1>2. Loaded(Exec(p, r, Sets, i, mm), mm, FibBytes(p, r[i]))
  BY <1>1, FibLoads
<1> QED
  BY <1>2, LoadedAdvances

LEMMA CtIsLoaded ==
    ASSUME NEW st, NEW p, Loadable(st, p), NEW mm, Running(mm), NEW r, NEW i,
           r[i].k = "ct", r[i].reg = 1, Loading(st, p) = CtBytes(p, r[i].key)
    PROVE  Advances(st, p, 1, mm, Exec(p, r, Sets, i, mm))
<1>1. CtBytes(p, r[i].key) \in Seq(Byte)
  BY DEF Loadable
<1>2. Loaded(Exec(p, r, Sets, i, mm), mm, CtBytes(p, r[i].key))
  BY <1>1, CtLoads
<1> QED
  BY <1>2, LoadedAdvances

LEMMA SmallWords == \A n \in {0, 1, 2, 8, 32} : n \in Byte
BY DEF Byte

LEMMA LocalStatement ==
    ASSUME NEW st \in Statement, st.s = "local", NEW p \in Packet, NEW mm, NEW o, NEW r, NEW i,
           Reading(st, p, o, mm, r, i)
    PROVE  Advances(st, p, o, mm, Exec(p, r, Sets, i, mm))
<1> DEFINE g == [k |-> "fib", flags |-> {"daddr", "addrtype"}, reg |-> 1]
           h == [k |-> "fib", query |-> "addrtype", source |-> "daddr", iface |-> FALSE, reg |-> 1]
           v == Word(IF p.dstIsLocal THEN 2 ELSE 1)
<1>1. Compile(st) = <<g, Cmp("eq", Word(2))>>
  BY DEF Compile
<1>2. ~IsXt(g) /\ ConvertExpr(g) = h
  <2> DEFINE source == g.flags \intersect {"saddr", "daddr"}
             result == g.flags \intersect {"addrtype", "oif", "oifname"}
  <2>1. source = {"daddr"} /\ result = {"addrtype"}
    OBVIOUS
  <2>2. Cardinality(source) = 1 /\ (CHOOSE s \in source : TRUE) = "daddr"
    <3>1. Cardinality({"daddr"}) = 1
      BY FS_Singleton
    <3> QED
      BY <2>1, <3>1
  <2> HIDE DEF source, result
  <2>3. ConvertFib(g) = h
    BY <2>1, <2>2 DEF ConvertFib, source, result
  <2> QED
    BY <2>3 DEF ConvertExpr, IsXt
<1>3. h.k = "fib" /\ h.reg = 1 /\ FibBytes(p, h) = v
  BY DEF FibBytes
<1>4. Loading(st, p) = v
  BY DEF Loading
<1>5. Says(st, p) = IF p.dstIsLocal THEN "yes" ELSE "no"
  BY DEF Says, YesNo
<1> HIDE DEF g, h
<1>6. /\ Len(Compile(st)) = 2 /\ o \in {1, 2} /\ Compile(st)[1] = g /\ Compile(st)[2] = Cmp("eq", Word(2))
      /\ Running(mm)
  BY <1>1 DEF Reading
<1>7. v \in Seq(Byte) /\ v # Refused
  BY SmallWords, WordIs
<1>8. CASE o = 1
  <2>1. r[i] = h
    BY <1>2, <1>3, <1>6, <1>8, ConvertedStays DEF Reading
  <2>2. Loadable(st, p)
    BY <1>4, <1>6, <1>7 DEF Loadable
  <2> HIDE DEF v
  <2>3. Advances(st, p, 1, mm, Exec(p, r, Sets, i, mm))
    BY <1>3, <1>4, <1>6, <2>1, <2>2, FibIsLoaded
  <2> QED
    BY <1>8, <2>3
<1>9. CASE o = 2
  <2>1. AsReread(r[i], Cmp("eq", Word(2))) /\ Within(st, p, 2, mm.regs)
    BY <1>6, <1>9 DEF Reading
  <2>2. Decides(st, p, "eq", v, Word(2))
    <3>1. CASE p.dstIsLocal
      BY <1>5, <3>1, SmallWords, WordCompares, WordIs DEF Decides
    <3>2. CASE ~p.dstIsLocal
      BY <1>5, <3>2, SmallWords, WordCompares, WordIs DEF Decides
    <3> QED
      BY <3>1, <3>2
  <2> HIDE DEF v
  <2> QED
    BY <1>4, <1>6, <1>9, <2>1, <2>2, SecondCompares
<1> QED
  BY <1>6, <1>8, <1>9

\* A route that is there is the one asked for when the packet came in on it.
LEMMA NoRouteStatement ==
    ASSUME NEW st \in Statement, st.s = "no-route", NEW p \in Packet, NEW mm, NEW o, NEW r, NEW i,
           Reading(st, p, o, mm, r, i)
    PROVE  Advances(st, p, o, mm, Exec(p, r, Sets, i, mm))
<1> DEFINE g == [k |-> "fib", flags |-> {"saddr", "iif", "oif", "present"}, reg |-> 1]
           h == [k |-> "fib", query |-> "oif-present", source |-> "saddr", iface |-> TRUE, reg |-> 1]
           v == IF p.srcRouteDev = p.iif THEN Word(1) ELSE Refused
<1>1. Compile(st) = <<g, Cmp("eq", Word(0))>>
  BY DEF Compile
<1>2. ~IsXt(g) /\ ConvertExpr(g) = h
  <2> DEFINE source == g.flags \intersect {"saddr", "daddr"}
             result == g.flags \intersect {"addrtype", "oif", "oifname"}
  <2>1. source = {"saddr"} /\ result = {"oif"} /\ "present" \in g.flags /\ "iif" \in g.flags
        /\ result # {"addrtype"}
    OBVIOUS
  <2>2. Cardinality(source) = 1 /\ (CHOOSE s \in source : TRUE) = "saddr"
    <3>1. Cardinality({"saddr"}) = 1
      BY FS_Singleton
    <3> QED
      BY <2>1, <3>1
  <2>3. g.reg = 1
    OBVIOUS
  <2> HIDE DEF source, result
  <2>4. ConvertFib(g) = [k |-> "fib", query |-> "oif-present", source |-> "saddr",
                         iface |-> "oif-present" = "oif-present" /\ "iif" \in g.flags, reg |-> 1]
    BY <2>1, <2>2, <2>3 DEF ConvertFib, source, result
  <2>5. ConvertFib(g) = h
    BY <2>1, <2>4
  <2> QED
    BY <2>5 DEF ConvertExpr, IsXt
<1>3. h.k = "fib" /\ h.reg = 1 /\ FibBytes(p, h) = v
  <2>1. p.iif # <<>> /\ p.srcRouteDev \in Seq(Byte)
    <3>1. p.iif \in Seq(Byte) /\ Len(p.iif) \in 1 .. IfnameLen
      BY PacketIs DEF Name
    <3>2. \A k \in 1 .. IfnameLen : k # 0
      BY DEF IfnameLen
    <3>3. Len(p.iif) # 0
      BY <3>1, <3>2
    <3> QED
      BY <3>3, PacketIs
  <2>2. h.query = "oif-present" /\ h.iface
    OBVIOUS
  <2>3. FibBytes(p, h) = IF p.srcRouteDev = <<>> \/ (h.iface /\ p.iif # <<>> /\ p.srcRouteDev # p.iif)
                         THEN Refused ELSE Word(1)
    BY <2>2 DEF FibBytes
  <2> QED
    BY <2>1, <2>2, <2>3
<1>4. Loading(st, p) = v
  BY DEF Loading
<1>5. Says(st, p) = IF p.srcRouteDev = p.iif THEN "no" ELSE "unknown"
  BY DEF Says
<1> HIDE DEF g, h
<1>6. /\ Len(Compile(st)) = 2 /\ o \in {1, 2} /\ Compile(st)[1] = g /\ Compile(st)[2] = Cmp("eq", Word(0))
      /\ Running(mm)
  BY <1>1 DEF Reading
<1>7. v \in Seq(Byte) /\ (v = Refused => Says(st, p) = "unknown")
  BY <1>5, SmallWords, WordIs, NothingIsRefused
<1>8. CASE o = 1
  <2>1. r[i] = h
    BY <1>2, <1>3, <1>6, <1>8, ConvertedStays DEF Reading
  <2>2. Loadable(st, p)
    BY <1>4, <1>6, <1>7 DEF Loadable
  <2> HIDE DEF v
  <2>3. Advances(st, p, 1, mm, Exec(p, r, Sets, i, mm))
    BY <1>3, <1>4, <1>6, <2>1, <2>2, FibIsLoaded
  <2> QED
    BY <1>8, <2>3
<1>9. CASE o = 2
  <2>1. AsReread(r[i], Cmp("eq", Word(0))) /\ Within(st, p, 2, mm.regs)
    BY <1>6, <1>9 DEF Reading
  <2>2. p.srcRouteDev = p.iif /\ Loading(st, p) = Word(1)
    BY <1>4, <2>1 DEF Within
  <2>3. Decides(st, p, "eq", Word(1), Word(0))
    BY <1>5, <2>2, SmallWords, WordCompares, WordIs DEF Decides
  <2> HIDE DEF v
  <2> QED
    BY <1>6, <1>9, <2>1, <2>2, <2>3, SecondCompares
<1> QED
  BY <1>6, <1>8, <1>9

(***************************************************************************)
(* The state of the connection                                             *)
(***************************************************************************)
LEMMA MaskedBits ==
    /\ MaskByte(8, 8, 0) = 8 /\ MaskByte(8, 2, 0) = 0 /\ MaskByte(32, 32, 0) = 32 /\ MaskByte(0, 32, 0) = 0
    /\ \A a \in Byte : MaskByte(0, a, 0) = 0
<1>1. ASSUME NEW a \in Byte PROVE MaskByte(a, a, 0) = a
  <2>1. \A k \in 0 .. 7 : Bit(a, k) \in {0, 1}
    BY BitsOf
  <2>2. \A x \in {0, 1} : x * x = x
    OBVIOUS
  <2>3. MaskByte(a, a, 0) \in Byte /\ \A k \in 0 .. 7 : Bit(MaskByte(a, a, 0), k) = Bit(a, k)
    BY <2>1, <2>2, MaskKeeps
  <2> QED
    BY <2>3, SameBits
<1>2. MaskByte(8, 2, 0) = 0
  <2>1. /\ 2^0 = 1 /\ 2^1 = 2 /\ 2^2 = 4 /\ 2^3 = 8 /\ 2^4 = 16 /\ 2^5 = 32 /\ 2^6 = 64 /\ 2^7 = 128
    OBVIOUS
  <2>2. \A k \in 0 .. 7 : k \in {0, 1, 2, 3, 4, 5, 6, 7}
    OBVIOUS
  <2>3. ASSUME NEW v \in Nat, v < 256
        PROVE  /\ Bit(v, 0) = v % 2 /\ Bit(v, 1) = (v \div 2) % 2 /\ Bit(v, 2) = (v \div 4) % 2
               /\ Bit(v, 3) = (v \div 8) % 2 /\ Bit(v, 4) = (v \div 16) % 2 /\ Bit(v, 5) = (v \div 32) % 2
               /\ Bit(v, 6) = (v \div 64) % 2 /\ Bit(v, 7) = (v \div 128) % 2
    BY <2>1 DEF Bit
  <2>4. (\A k \in 0 .. 7 : Bit(0, k) = 0) /\ (\A k \in 0 .. 7 : Bit(8, k) * Bit(2, k) = 0)
    BY <2>2, <2>3
  <2>5. 0 \in Byte /\ 8 \in Byte /\ 2 \in Byte
    BY DEF Byte
  <2>6. MaskByte(8, 2, 0) \in Byte /\ \A k \in 0 .. 7 : Bit(MaskByte(8, 2, 0), k) = Bit(0, k)
    BY <2>3, <2>4, <2>5, MaskKeeps
  <2> QED
    BY <2>5, <2>6, SameBits
<1>3. 8 \in Byte /\ 32 \in Byte
  BY DEF Byte
<1> QED
  BY <1>1, <1>2, <1>3, MaskWhole

\* A word of which a mask leaves a bit, or nothing.
LEMMA WordMasks ==
    ASSUME NEW n \in Byte, NEW bit \in Byte
    PROVE  Masks(Word(MaskByte(n, bit, 0)), Word(n), Word(bit))
<1> DEFINE c == MaskByte(n, bit, 0)
<1>1. c \in Byte
  BY MaskKeeps
<1>2. MaskByte(0, 0, 0) = 0
  <2>1. 0 \in Byte
    BY DEF Byte
  <2> QED
    BY <2>1, MaskWhole
<1> HIDE DEF c
<1>3. /\ Word(c) \in Seq(Byte) /\ Len(Word(c)) = 4 /\ Len(Word(bit)) = 4 /\ Len(Word(n)) = 4
      /\ Word(c)[1] = c /\ Word(c)[2] = 0 /\ Word(c)[3] = 0 /\ Word(c)[4] = 0
  BY <1>1, WordIs
<1>4. Word(n)[1] = n /\ Word(n)[2] = 0 /\ Word(n)[3] = 0 /\ Word(n)[4] = 0
  BY WordIs
<1>5. Word(bit)[1] = bit /\ Word(bit)[2] = 0 /\ Word(bit)[3] = 0 /\ Word(bit)[4] = 0
  BY WordIs
<1>6. \A j \in 1 .. 4 : j = 1 \/ j = 2 \/ j = 3 \/ j = 4
  OBVIOUS
<1>7. Word(c)[1] = MaskByte(Word(n)[1], Word(bit)[1], 0)
  BY <1>3, <1>4, <1>5 DEF c
<1>8. \A j \in 2 .. 4 : Word(c)[j] = MaskByte(Word(n)[j], Word(bit)[j], 0)
  <2>1. \A j \in 2 .. 4 : Word(c)[j] = 0 /\ Word(n)[j] = 0 /\ Word(bit)[j] = 0
    <3>1. \A j \in 2 .. 4 : j = 2 \/ j = 3 \/ j = 4
      OBVIOUS
    <3> QED
      BY <1>3, <1>4, <1>5, <3>1
  <2> QED
    BY <1>2, <2>1
<1>9. \A j \in 1 .. 4 : j = 1 \/ j \in 2 .. 4
  OBVIOUS
<1>10. \A j \in 1 .. 4 : Word(c)[j] = MaskByte(Word(n)[j], Word(bit)[j], 0)
  BY <1>7, <1>8, <1>9
<1> QED
  BY <1>3, <1>10 DEF Masks, c

\* After a mask: the next expression is within.
LEMMA MaskAdvances ==
    ASSUME NEW st, NEW p, st.s # "set-ct-mark", st.s # "between", Len(Compile(st)) = 3,
           NEW mm, Running(mm), Within(st, p, 2, mm.regs), NEW r, NEW i, NEW mask, NEW xor,
           MaskOf(r[i], mask, xor), Masks(Masking(st, p), Loading(st, p), mask)
    PROVE  Advances(st, p, 2, mm, Exec(p, r, Sets, i, mm))
<1> DEFINE n == Exec(p, r, Sets, i, mm)
<1>1. 1 \in DOMAIN mm.regs /\ mm.regs[1] = Loading(st, p) /\ Loading(st, p) # Refused
  BY DEF Within
<1>2. Holding(n, mm, Masking(st, p))
  BY <1>1, MaskFills
<1> HIDE DEF n
<1>3. Stops(n, mm, Undecided) /\ Within(st, p, 3, n.regs)
  BY <1>1, <1>2 DEF Holding, Within
<1>4. 2 # Len(Compile(st)) /\ 2 + 1 = 3
  OBVIOUS
<1>5. Advances(st, p, 2, mm, n)
  BY <1>3, <1>4, StopsAdvance
<1> QED
  BY <1>5 DEF n

LEMMA ThirdCompares ==
    ASSUME NEW st, NEW p, NEW mm, Running(mm), NEW r, NEW i, NEW op, NEW data,
           AsReread(r[i], Cmp(op, data)), Len(Compile(st)) = 3,
           st.s # "set-ct-mark", st.s # "between", Within(st, p, 3, mm.regs),
           Decides(st, p, op, Masking(st, p), data)
    PROVE  Advances(st, p, 3, mm, Exec(p, r, Sets, i, mm))
<1>1. 1 \in DOMAIN mm.regs /\ mm.regs[1] = Masking(st, p)
  BY DEF Within
<1> QED
  BY <1>1, LastCompares

BitKinds == {"ct-new", "ct-old", "ct-dnat"}

LEMMA BitStatement ==
    ASSUME NEW st, st.s \in BitKinds, NEW p, NEW key \in {"state", "status"},
           NEW bit \in Byte, NEW n \in Byte, NEW c \in Byte, c = MaskByte(n, bit, 0),
           Compile(st) = CtBit(key, bit), Loading(st, p) = Word(n), CtBytes(p, key) = Word(n),
           Masking(st, p) = Word(c),
           c # 0 => Says(st, p) = "yes", c = 0 => Says(st, p) = "no",
           NEW mm, NEW o, NEW r, NEW i, Reading(st, p, o, mm, r, i)
    PROVE  Advances(st, p, o, mm, Exec(p, r, Sets, i, mm))
<1> DEFINE g == [k |-> "ct", key |-> key, reg |-> 1, source |-> FALSE]
           h == [k |-> "ct", key |-> key, reg |-> 1]
           mask == Word(bit)  xor == Word(0)
           b == [k |-> "bitwise", src |-> 1, reg |-> 1, mask |-> mask, xor |-> xor]
<1>1. Compile(st) = <<g, b, Cmp("neq", Word(0))>>
  BY DEF CtBit
<1>2. ~IsXt(g) /\ ConvertExpr(g) = h
  BY DEF IsXt, ConvertExpr, ConvertCt
<1>3. h.k = "ct" /\ h.reg = 1 /\ h.key = key
  OBVIOUS
<1>4. Plain(b)
  BY PlainShapes
<1>5. b.k = "bitwise" /\ b.src = 1 /\ b.reg = 1 /\ b.mask = mask /\ b.xor = xor
  OBVIOUS
<1>6. st.s # "set-ct-mark" /\ st.s # "between" /\ 0 \in Byte
  BY DEF BitKinds, Byte
<1> HIDE DEF g, h, b
<1>7. /\ Len(Compile(st)) = 3 /\ o \in {1, 2, 3}
      /\ Compile(st)[1] = g /\ Compile(st)[2] = b /\ Compile(st)[3] = Cmp("neq", Word(0)) /\ Running(mm)
  BY <1>1 DEF Reading
<1>8. CASE o = 1
  <2>1. r[i] = h
    BY <1>2, <1>3, <1>7, <1>8, ConvertedStays DEF Reading
  <2>2. Loadable(st, p)
    BY <1>6, <1>7, WordIs DEF Loadable
  <2>3. Advances(st, p, 1, mm, Exec(p, r, Sets, i, mm))
    BY <1>3, <1>7, <2>1, <2>2, CtIsLoaded
  <2> QED
    BY <1>8, <2>3
<1>9. CASE o = 2
  <2>1. r[i] = b /\ Within(st, p, 2, mm.regs)
    BY <1>4, <1>7, <1>9, PlainStays DEF Reading
  <2>2. /\ mask \in Seq(Byte) /\ xor \in Seq(Byte) /\ Len(mask) = 4 /\ Len(xor) = 4
        /\ xor[1] = 0 /\ xor[2] = 0 /\ xor[3] = 0 /\ xor[4] = 0
    BY <1>6, WordIs
  <2> HIDE DEF mask, xor
  <2>3. \A j \in 1 .. 4 : xor[j] = 0
    <3>1. \A j \in 1 .. 4 : j = 1 \/ j = 2 \/ j = 3 \/ j = 4
      OBVIOUS
    <3> QED
      BY <2>2, <3>1
  <2>4. MaskOf(r[i], mask, xor)
    BY <1>5, <2>1, <2>2, <2>3 DEF MaskOf
  <2>5. Masks(Masking(st, p), Loading(st, p), mask)
    BY WordMasks DEF mask
  <2>6. Advances(st, p, 2, mm, Exec(p, r, Sets, i, mm))
    BY <1>6, <1>7, <2>1, <2>4, <2>5, MaskAdvances
  <2> QED
    BY <1>9, <2>6
<1>10. CASE o = 3
  <2>1. AsReread(r[i], Cmp("neq", Word(0))) /\ Within(st, p, 3, mm.regs)
    BY <1>7, <1>10 DEF Reading
  <2>2. Decides(st, p, "neq", Word(c), Word(0))
    BY <1>6, WordCompares, WordIs DEF Decides
  <2>3. Advances(st, p, 3, mm, Exec(p, r, Sets, i, mm))
    BY <1>6, <1>7, <2>1, <2>2, ThirdCompares
  <2> QED
    BY <1>10, <2>3
<1> QED
  BY <1>7, <1>8, <1>9, <1>10

LEMMA CtStatement ==
    ASSUME NEW st \in Statement, st.s \in BitKinds, NEW p \in Packet, NEW mm, NEW o, NEW r, NEW i,
           Reading(st, p, o, mm, r, i)
    PROVE  Advances(st, p, o, mm, Exec(p, r, Sets, i, mm))
<1>1. p.ctState = "new" /\ p.dnatApplied \in BOOLEAN
  BY PacketIs
<1>2. 0 \in Byte /\ 2 \in Byte /\ 8 \in Byte /\ 32 \in Byte
  BY SmallWords
<1>3. CtBytes(p, "state") = Word(8) /\ CtBytes(p, "status") = Word(IF p.dnatApplied THEN 32 ELSE 0)
  BY <1>1 DEF CtBytes
<1>4. CASE st.s = "ct-new"
  <2>1. /\ Compile(st) = CtBit("state", 8) /\ Loading(st, p) = Word(8) /\ Masking(st, p) = Word(8)
        /\ Says(st, p) = "yes"
    BY <1>4 DEF Compile, Loading, Masking, Says
  <2> QED
    BY <1>2, <1>3, <2>1, MaskedBits, BitStatement
<1>5. CASE st.s = "ct-old"
  <2>1. /\ Compile(st) = CtBit("state", 2) /\ Loading(st, p) = Word(8) /\ Masking(st, p) = Word(0)
        /\ Says(st, p) = "no"
    BY <1>5 DEF Compile, Loading, Masking, Says
  <2> QED
    BY <1>2, <1>3, <2>1, MaskedBits, BitStatement
<1>6. CASE st.s = "ct-dnat" /\ p.dnatApplied
  <2>1. /\ Compile(st) = CtBit("status", 32) /\ Loading(st, p) = Word(32) /\ Masking(st, p) = Word(32)
        /\ Says(st, p) = "yes"
    BY <1>6 DEF Compile, Loading, Masking, Says, YesNo
  <2> QED
    BY <1>2, <1>3, <1>6, <2>1, MaskedBits, BitStatement
<1>7. CASE st.s = "ct-dnat" /\ ~p.dnatApplied
  <2>1. /\ Compile(st) = CtBit("status", 32) /\ Loading(st, p) = Word(0) /\ Masking(st, p) = Word(0)
        /\ Says(st, p) = "no"
    BY <1>7 DEF Compile, Loading, Masking, Says, YesNo
  <2> QED
    BY <1>2, <1>3, <1>7, <2>1, MaskedBits, BitStatement
<1> QED
  BY <1>4, <1>5, <1>6, <1>7 DEF BitKinds

(***************************************************************************)
(* Prefixes                                                                *)
(***************************************************************************)
FourBytes(a) == a \in Seq(Byte) /\ Len(a) = 4

LEMMA ByteAt ==
    ASSUME NEW a \in Seq(Byte), NEW j \in 1 .. Len(a)
    PROVE  a[j] \in Byte
OBVIOUS

LEMMA FourBytesAre ==
    /\ \A f \in [1 .. 4 -> Byte] : FourBytes(f)
    /\ \A a : FourBytes(a) => \A j \in 1 .. 4 : a[j] \in Byte
<1>1. \A f \in [1 .. 4 -> Byte] : FourBytes(f)
  <2> SUFFICES ASSUME NEW f \in [1 .. 4 -> Byte]
               PROVE  f \in Seq(Byte) /\ Len(f) = 4
    BY DEF FourBytes
  <2> DEFINE g == [j \in 1 .. 4 |-> f[j]]
  <2>1. f = g /\ \A j \in 1 .. 4 : f[j] \in Byte
    OBVIOUS
  <2>2. g \in Seq(Byte) /\ Len(g) = 4
    BY <2>1
  <2> QED
    BY <2>1, <2>2
<1>2. ASSUME NEW a \in Seq(Byte), Len(a) = 4, NEW j \in 1 .. 4
      PROVE  a[j] \in Byte
  <2>1. j \in 1 .. Len(a)
    BY <1>2
  <2> QED
    BY <1>2, <2>1, ByteAt
<1> QED
  BY <1>1, <1>2 DEF FourBytes

\* The k-th bit of the j-th byte, the lowest of a byte being its last.
LEMMA BitPlace ==
    ASSUME NEW a, NEW j \in 1 .. 4, NEW k \in 0 .. 7
    PROVE  8 * j - k \in 1 .. 32 /\ AddrBit(a, 8 * j - k) = Bit(a[j], k)
<1> DEFINE i == 8 * j - k
<1>1. i \in 1 .. 32 /\ (i + 7) \div 8 = j
  OBVIOUS
<1>2. (8 - (i % 8)) % 8 = k
  <2>1. CASE k = 0
    BY <2>1
  <2>2. CASE k # 0
    <3>1. i = 8 * (j - 1) + (8 - k) /\ 8 - k \in 1 .. 7 /\ j - 1 \in Nat
      BY <2>2
    <3>2. i % 8 = 8 - k
      BY <3>1
    <3> QED
      BY <3>2
  <2> QED
    BY <2>1, <2>2
<1> QED
  BY <1>1, <1>2 DEF AddrBit

LEMMA EveryBit == \A i \in 1 .. 32 : \E j \in 1 .. 4, k \in 0 .. 7 : i = 8 * j - k
<1> SUFFICES ASSUME NEW i \in 1 .. 32
             PROVE  \E j \in 1 .. 4, k \in 0 .. 7 : i = 8 * j - k
  OBVIOUS
<1> DEFINE j == (i + 7) \div 8
<1>1. j \in 1 .. 4 /\ 8 * j - i \in 0 .. 7
  OBVIOUS
<1>2. i = 8 * j - (8 * j - i)
  BY <1>1
<1> HIDE DEF j
<1> QED
  BY <1>1, <1>2

LEMMA InPrefixIs ==
    ASSUME NEW st \in Prefix, NEW a
    PROVE  /\ st.bits \in 1 .. 32 /\ FourBytes(st.addr) /\ st.op \in {"eq", "neq"} /\ st.s = "prefix"
           /\ st.field \in {"saddr", "daddr"}
           /\ InPrefix(a, st) <=> \A j \in 1 .. 4, k \in 0 .. 7 :
                  8 * j - k <= st.bits => Bit(a[j], k) = Bit(st.addr[j], k)
           /\ \A j \in 1 .. 4, k \in 0 .. 7 : 8 * j - k > st.bits => Bit(st.addr[j], k) = 0
<1>1. /\ st.bits \in 1 .. 32 /\ st.addr \in [1 .. 4 -> Byte] /\ st.op \in {"eq", "neq"}
      /\ st.s = "prefix" /\ st.field \in {"saddr", "daddr"}
      /\ \A i \in st.bits + 1 .. 32 : AddrBit(st.addr, i) = 0
  BY DEF Prefix
<1>2. FourBytes(st.addr)
  BY <1>1, FourBytesAre
<1>3. InPrefix(a, st) <=> \A i \in 1 .. 32 : i <= st.bits => AddrBit(a, i) = AddrBit(st.addr, i)
  <2>1. \A i : i \in 1 .. st.bits <=> i \in 1 .. 32 /\ i <= st.bits
    BY <1>1
  <2> QED
    BY <2>1 DEF InPrefix
<1>4. (\A i \in 1 .. 32 : i <= st.bits => AddrBit(a, i) = AddrBit(st.addr, i))
      <=> \A j \in 1 .. 4, k \in 0 .. 7 :
             8 * j - k <= st.bits => AddrBit(a, 8 * j - k) = AddrBit(st.addr, 8 * j - k)
  BY EveryBit, BitPlace
<1>5. \A j \in 1 .. 4, k \in 0 .. 7 :
         AddrBit(a, 8 * j - k) = Bit(a[j], k) /\ AddrBit(st.addr, 8 * j - k) = Bit(st.addr[j], k)
  BY BitPlace
<1>6. \A j \in 1 .. 4, k \in 0 .. 7 : 8 * j - k > st.bits => 8 * j - k \in st.bits + 1 .. 32
  BY <1>1
<1>7. \A j \in 1 .. 4, k \in 0 .. 7 : 8 * j - k > st.bits => Bit(st.addr[j], k) = 0
  BY <1>1, <1>5, <1>6
<1>8. InPrefix(a, st) <=> \A j \in 1 .. 4, k \in 0 .. 7 :
          8 * j - k <= st.bits => Bit(a[j], k) = Bit(st.addr[j], k)
  BY <1>3, <1>4, <1>5
<1> QED
  BY <1>1, <1>2, <1>7, <1>8

\* A prefix of whole bytes is one of equal bytes.
LEMMA WholeBytes ==
    ASSUME NEW st \in Prefix, st.bits % 8 = 0, NEW a, FourBytes(a), NEW n, n = st.bits \div 8
    PROVE  /\ n \in 1 .. 4
           /\ InPrefix(a, st) <=> Truncate(a, n) = Truncate(st.addr, n)
<1> DEFINE b == st.addr
<1>1. st.bits \in 1 .. 32 /\ FourBytes(b)
  BY InPrefixIs
<1>2. n \in 1 .. 4 /\ st.bits = 8 * n
  BY <1>1
<1>3. \A j \in 1 .. 4, k \in 0 .. 7 : 8 * j - k <= st.bits <=> j <= n
  BY <1>2
<1>4. InPrefix(a, st) <=> \A j \in 1 .. 4 : j <= n => \A k \in 0 .. 7 : Bit(a[j], k) = Bit(b[j], k)
  BY <1>3, InPrefixIs
<1>5. \A j \in 1 .. 4 : a[j] \in Byte /\ b[j] \in Byte
  BY <1>1, FourBytesAre
<1>6. \A j \in 1 .. 4 : (\A k \in 0 .. 7 : Bit(a[j], k) = Bit(b[j], k)) <=> a[j] = b[j]
  BY <1>5, SameBits
<1>7. InPrefix(a, st) <=> \A j \in 1 .. n : a[j] = b[j]
  <2>1. \A m \in 1 .. 4 : \A j : j \in 1 .. m <=> j \in 1 .. 4 /\ j <= m
    OBVIOUS
  <2> QED
    BY <1>2, <1>4, <1>6, <2>1
<1>8. n \in 0 .. Len(a) /\ n \in 0 .. Len(b) /\ a \in Seq(Byte) /\ b \in Seq(Byte)
  BY <1>1, <1>2 DEF FourBytes
<1>9. /\ Truncate(a, n) \in Seq(Byte) /\ Len(Truncate(a, n)) = n
      /\ Truncate(b, n) \in Seq(Byte) /\ Len(Truncate(b, n)) = n
      /\ \A j \in 1 .. n : Truncate(a, n)[j] = a[j] /\ Truncate(b, n)[j] = b[j]
  BY <1>8, TruncatedBytes
<1> HIDE DEF b
<1>10. Truncate(a, n) = Truncate(b, n) <=> \A j \in 1 .. n : a[j] = b[j]
  BY <1>9, SameSeq
<1> QED
  BY <1>2, <1>7, <1>10 DEF b

\* A byte of a mask has the bits that are in the prefix.
LEMMA MaskBytesAre ==
    ASSUME NEW bits \in 1 .. 32
    PROVE  /\ FourBytes(MaskBytes(4, bits))
           /\ \A j \in 1 .. 4, k \in 0 .. 7 :
                 Bit(MaskBytes(4, bits)[j], k) = IF 8 * j - k <= bits THEN 1 ELSE 0
<1> DEFINE mask == MaskBytes(4, bits)
<1>1. mask = [j \in 1 .. 4 |-> CASE 8 * j <= bits -> 255
                                 [] 8 * (j - 1) >= bits -> 0
                                 [] OTHER -> 256 - 2^(8 * j - bits)]
  BY DEF MaskBytes
<1>2. 255 = FirstBits(8) /\ 0 = FirstBits(0)
  <2>1. 2^0 = 1 /\ 2^8 = 256
    OBVIOUS
  <2> QED
    BY <2>1 DEF FirstBits
<1>3. ASSUME NEW j \in 1 .. 4
      PROVE  \E x \in 0 .. 8 : /\ mask[j] = FirstBits(x)
                               /\ \A k \in 0 .. 7 : k >= 8 - x <=> 8 * j - k <= bits
  <2>1. CASE 8 * j <= bits
    <3>1. mask[j] = FirstBits(8)
      BY <1>1, <1>2, <2>1
    <3>2. \A k \in 0 .. 7 : k >= 8 - 8 <=> 8 * j - k <= bits
      BY <2>1
    <3> QED
      BY <3>1, <3>2
  <2>2. CASE 8 * (j - 1) >= bits
    <3>1. ~(8 * j <= bits)
      BY <2>2
    <3>2. mask[j] = FirstBits(0)
      BY <1>1, <1>2, <2>2, <3>1
    <3>3. \A k \in 0 .. 7 : k >= 8 - 0 <=> 8 * j - k <= bits
      BY <2>2
    <3> QED
      BY <3>2, <3>3
  <2>3. CASE ~(8 * j <= bits) /\ ~(8 * (j - 1) >= bits)
    <3> DEFINE x == 8 - (8 * j - bits)
    <3>1. x \in 0 .. 8 /\ 8 - x = 8 * j - bits
      BY <2>3
    <3>2. mask[j] = 256 - 2^(8 * j - bits)
      BY <1>1, <2>3
    <3>3. \A k \in 0 .. 7 : k >= 8 - x <=> 8 * j - k <= bits
      BY <2>3
    <3> HIDE DEF x
    <3>4. mask[j] = FirstBits(x)
      BY <3>1, <3>2 DEF FirstBits
    <3> QED
      BY <3>1, <3>3, <3>4
  <2> QED
    BY <2>1, <2>2, <2>3
<1>4. DOMAIN mask = 1 .. 4 /\ mask = [j \in 1 .. 4 |-> mask[j]]
  BY <1>1
<1> HIDE DEF mask
<1>5. \A j \in 1 .. 4 : mask[j] \in Byte /\ \A k \in 0 .. 7 : Bit(mask[j], k) = IF 8 * j - k <= bits THEN 1 ELSE 0
  <2> SUFFICES ASSUME NEW j \in 1 .. 4
               PROVE  mask[j] \in Byte /\ \A k \in 0 .. 7 : Bit(mask[j], k) = IF 8 * j - k <= bits THEN 1 ELSE 0
    OBVIOUS
  <2>1. PICK y \in 0 .. 8 : /\ mask[j] = FirstBits(y)
                            /\ \A k \in 0 .. 7 : k >= 8 - y <=> 8 * j - k <= bits
    BY <1>3
  <2> QED
    BY <2>1, FirstBitsAre
<1>6. FourBytes(mask)
  <2>1. mask \in [1 .. 4 -> Byte]
    BY <1>4, <1>5
  <2> QED
    BY <2>1, FourBytesAre
<1> QED
  BY <1>5, <1>6 DEF mask

\* Any other prefix is the bytes that its mask leaves.
LEMMA MaskedPrefix ==
    ASSUME NEW st \in Prefix, NEW a, FourBytes(a), NEW w, FourBytes(w),
           \A j \in 1 .. 4 : w[j] = MaskByte(a[j], MaskBytes(4, st.bits)[j], 0)
    PROVE  InPrefix(a, st) <=> w = st.addr
<1> DEFINE b == st.addr  mask == MaskBytes(4, st.bits)
<1>1. /\ st.bits \in 1 .. 32 /\ FourBytes(b)
      /\ InPrefix(a, st) <=> \A j \in 1 .. 4, k \in 0 .. 7 : 8 * j - k <= st.bits => Bit(a[j], k) = Bit(b[j], k)
      /\ \A j \in 1 .. 4, k \in 0 .. 7 : 8 * j - k > st.bits => Bit(b[j], k) = 0
  BY InPrefixIs
<1>2. /\ FourBytes(mask)
      /\ \A j \in 1 .. 4, k \in 0 .. 7 : Bit(mask[j], k) = IF 8 * j - k <= st.bits THEN 1 ELSE 0
  BY <1>1, MaskBytesAre
<1>3. \A j \in 1 .. 4 : w[j] = MaskByte(a[j], mask[j], 0)
  OBVIOUS
<1> HIDE DEF b, mask
<1>4. \A j \in 1 .. 4 : a[j] \in Byte /\ b[j] \in Byte /\ mask[j] \in Byte /\ w[j] \in Byte
  BY <1>1, <1>2, FourBytesAre
<1>5. \A j \in 1 .. 4, k \in 0 .. 7 : Bit(w[j], k) = Bit(a[j], k) * Bit(mask[j], k)
  BY <1>3, <1>4, MaskKeeps
<1>6. \A j \in 1 .. 4, k \in 0 .. 7 : Bit(a[j], k) \in {0, 1}
  BY <1>4, BitsOf
<1>7. \A x \in {0, 1} : x * 1 = x /\ x * 0 = 0
  OBVIOUS
<1>8. \A j \in 1 .. 4, k \in 0 .. 7 : Bit(w[j], k) = IF 8 * j - k <= st.bits THEN Bit(a[j], k) ELSE 0
  BY <1>2, <1>5, <1>6, <1>7
<1>9. \A j \in 1 .. 4, k \in 0 .. 7 : 8 * j - k <= st.bits \/ 8 * j - k > st.bits
  BY <1>1
<1>10. InPrefix(a, st) <=> \A j \in 1 .. 4 : \A k \in 0 .. 7 : Bit(w[j], k) = Bit(b[j], k)
  BY <1>1, <1>8, <1>9
<1>11. \A j \in 1 .. 4 : (\A k \in 0 .. 7 : Bit(w[j], k) = Bit(b[j], k)) <=> w[j] = b[j]
  BY <1>4, SameBits
<1>12. InPrefix(a, st) <=> \A j \in 1 .. 4 : w[j] = b[j]
  BY <1>10, <1>11
<1>13. w = b <=> \A j \in 1 .. 4 : w[j] = b[j]
  <2>1. w \in Seq(Byte) /\ b \in Seq(Byte) /\ Len(w) = 4 /\ Len(b) = 4
    BY <1>1 DEF FourBytes
  <2> QED
    BY <2>1, SameSeq
<1> QED
  BY <1>12, <1>13 DEF b

\* A load of an address, or of its first bytes.
ShortAddresses(p) == p.family = "ip" /\ FourBytes(p.src) /\ FourBytes(p.dst)

LEMMA AddressLoads ==
    ASSUME NEW p, ShortAddresses(p), NEW field \in {"saddr", "daddr"}, NEW n \in 1 .. 4,
           NEW a, a = IF field = "saddr" THEN p.src ELSE p.dst
    PROVE  PayloadBytes(p, AddrAt(field, 0, n)) = Truncate(a, n)
<1> DEFINE e == AddrAt(field, 0, n)
           at == IF field = "saddr" THEN 12 ELSE 16
<1>1. e.base = "network" /\ e.off = at + 0 /\ e.len = n
  BY DEF AddrAt
<1>2. p.src \in Seq(Byte) /\ Len(p.src) = 4 /\ p.dst \in Seq(Byte) /\ Len(p.dst) = 4 /\ p.family = "ip"
  BY DEF ShortAddresses, FourBytes
<1> HIDE DEF e
<1>3. PayloadBytes(p, e) = LET src == AddrWindow(p.src, 4, 12, e)
                           IN  IF src # Refused THEN src ELSE AddrWindow(p.dst, 4, 16, e)
  <2>1. PayloadBytes(p, e) = NetworkBytes(p, e)
    BY <1>1 DEF PayloadBytes
  <2>2. e.off # 9 /\ 12 + 4 = 16
    BY <1>1
  <2> QED
    BY <1>2, <2>1, <2>2 DEF NetworkBytes
<1>4. ASSUME NEW s \in Seq(Byte), Len(s) = 4
      PROVE  Truncate(s, n) # Refused
  <2>1. n \in 0 .. Len(s) /\ n > 0
    BY <1>4
  <2>2. Truncate(s, n) \in Seq(Byte) /\ Len(Truncate(s, n)) = n
    BY <2>1, TruncatedBytes
  <2>3. Len(Truncate(s, n)) > 0
    BY <2>1, <2>2
  <2> QED
    BY <2>2, <2>3, BytesAreRead
<1>5. CASE field = "saddr"
  <2>1. e.off = 12 /\ a = p.src
    BY <1>1, <1>5
  <2>2. AddrWindow(p.src, 4, 12, e) = Truncate(p.src, n)
    <3>1. e.len > 0 /\ e.off >= 12 /\ e.off - 12 + e.len <= 4 /\ Len(p.src) = 4
          /\ e.off - 12 + 1 = 1 /\ e.off - 12 + e.len = n
      BY <1>1, <1>2, <2>1
    <3> QED
      BY <3>1 DEF AddrWindow, Truncate
  <2>3. Truncate(p.src, n) # Refused
    BY <1>2, <1>4
  <2> QED
    BY <1>3, <2>1, <2>2, <2>3 DEF e
<1>6. CASE field = "daddr"
  <2>1. e.off = 16 /\ a = p.dst
    BY <1>1, <1>6
  <2>2. AddrWindow(p.src, 4, 12, e) = Refused
    <3>1. ~(e.off - 12 + e.len <= 4)
      BY <1>1, <2>1
    <3> QED
      BY <3>1 DEF AddrWindow
  <2>3. AddrWindow(p.dst, 4, 16, e) = Truncate(p.dst, n)
    <3>1. e.len > 0 /\ e.off >= 16 /\ e.off - 16 + e.len <= 4 /\ Len(p.dst) = 4
          /\ e.off - 16 + 1 = 1 /\ e.off - 16 + e.len = n
      BY <1>1, <1>2, <2>1
    <3> QED
      BY <3>1 DEF AddrWindow, Truncate
  <2> QED
    BY <1>3, <2>1, <2>2, <2>3 DEF e
<1> QED
  BY <1>5, <1>6 DEF e

LEMMA PrefixIsLoaded ==
    ASSUME NEW st \in Prefix, NEW p, ShortAddresses(p), NEW mm, Running(mm), NEW r, NEW i, NEW n \in 1 .. 4,
           n = PrefixLen(st), Len(Compile(st)) # 1, AsReread(r[i], AddrAt(st.field, 0, n))
    PROVE  /\ Advances(st, p, 1, mm, Exec(p, r, Sets, i, mm))
<1> DEFINE a == PrefixAddr(st, p)
<1>1. st.field \in {"saddr", "daddr"} /\ st.s = "prefix"
  BY InPrefixIs
<1>2. a = IF st.field = "saddr" THEN p.src ELSE p.dst
  BY DEF PrefixAddr
<1>3. FourBytes(a)
  BY <1>1, <1>2 DEF ShortAddresses
<1>4. r[i] = AddrAt(st.field, 0, n)
  BY PlainShapes, PlainStays
<1>5. PayloadBytes(p, r[i]) = Truncate(a, n)
  BY <1>1, <1>2, <1>4, AddressLoads
<1>6. Truncate(a, n) \in Seq(Byte) /\ Truncate(a, n) # Refused
  <2>1. a \in Seq(Byte) /\ n \in 0 .. Len(a) /\ n > 0
    BY <1>3 DEF FourBytes
  <2>2. Truncate(a, n) \in Seq(Byte) /\ Len(Truncate(a, n)) > 0
    BY <2>1, TruncatedBytes
  <2> QED
    BY <2>2, BytesAreRead
<1>7. Loading(st, p) = Truncate(a, n)
  BY <1>1 DEF Loading
<1>8. r[i].k = "payload" /\ r[i].reg = 1
  BY <1>4 DEF AddrAt
<1> HIDE DEF a
<1>9. Loadable(st, p)
  BY <1>1, <1>6, <1>7 DEF Loadable
<1>10. Loaded(Exec(p, r, Sets, i, mm), mm, PayloadBytes(p, r[i]))
  BY <1>5, <1>6, <1>8, PayloadLoads
<1> QED
  BY <1>5, <1>7, <1>9, <1>10, LoadedAdvances

LEMMA PrefixSays ==
    ASSUME NEW st \in Prefix, NEW p
    PROVE  Says(st, p) = IF InPrefix(PrefixAddr(st, p), st) = (st.op = "eq") THEN "yes" ELSE "no"
<1>1. st.s = "prefix"
  BY InPrefixIs
<1> QED
  BY <1>1 DEF Says, YesNo, PrefixAddr

\* What a compare decides that tells whether an address is in a prefix.
LEMMA PrefixDecides ==
    ASSUME NEW st \in Prefix, NEW p, NEW v \in Seq(Byte), NEW data \in Seq(Byte), Len(data) = Len(v),
           InPrefix(PrefixAddr(st, p), st) <=> v = data
    PROVE  Decides(st, p, st.op, v, data)
<1> DEFINE in == InPrefix(PrefixAddr(st, p), st)
<1>1. Truncate(v, Len(data)) = v
  <2>1. Len(data) \in 0 .. Len(v)
    OBVIOUS
  <2> QED
    BY <2>1, TruncatedBytes
<1>2. st.op \in {"eq", "neq"}
  BY InPrefixIs
<1>3. in <=> v = data
  OBVIOUS
<1>4. Says(st, p) = IF in = (st.op = "eq") THEN "yes" ELSE "no"
  BY PrefixSays
<1>5. in \in BOOLEAN
  BY DEF InPrefix
<1> HIDE DEF in
<1>6. CASE st.op = "eq"
  <2>1. CmpHolds(st.op, v, data) <=> v = data
    BY <1>6 DEF CmpHolds
  <2>2. Says(st, p) = IF in THEN "yes" ELSE "no"
    BY <1>4, <1>5, <1>6
  <2>3. Len(data) <= Len(v)
    OBVIOUS
  <2> QED
    BY <1>1, <1>2, <1>3, <2>1, <2>2, <2>3 DEF Decides
<1>7. CASE st.op = "neq"
  <2>1. CmpHolds(st.op, v, data) <=> v # data
    BY <1>7 DEF CmpHolds
  <2>2. Says(st, p) = IF ~in THEN "yes" ELSE "no"
    BY <1>4, <1>5, <1>7
  <2>3. Len(data) <= Len(v)
    OBVIOUS
  <2> QED
    BY <1>1, <1>2, <1>3, <2>1, <2>2, <2>3 DEF Decides
<1> QED
  BY <1>2, <1>6, <1>7

LEMMA WholePrefixStatement ==
    ASSUME NEW st \in Prefix, st.bits % 8 = 0, NEW p, ShortAddresses(p), NEW mm, NEW o, NEW r, NEW i,
           Reading(st, p, o, mm, r, i)
    PROVE  Advances(st, p, o, mm, Exec(p, r, Sets, i, mm))
<1> DEFINE n == st.bits \div 8
           a == PrefixAddr(st, p)
           v == Truncate(a, n)
           data == Truncate(st.addr, n)
<1>1. st.s = "prefix" /\ FourBytes(st.addr) /\ st.op \in {"eq", "neq"} /\ st.field \in {"saddr", "daddr"}
  BY InPrefixIs
<1>2. Compile(st) = <<AddrAt(st.field, 0, n), Cmp(st.op, data)>>
  BY <1>1 DEF Compile, CompilePrefix
<1>3. FourBytes(a)
  BY <1>1 DEF PrefixAddr, ShortAddresses
<1>4. n \in 1 .. 4 /\ (InPrefix(a, st) <=> v = data)
  BY <1>3, WholeBytes
<1>5. n = PrefixLen(st)
  BY DEF PrefixLen
<1>6. Loading(st, p) = v
  BY <1>1, <1>5 DEF Loading
<1> HIDE DEF n
<1>7. v \in Seq(Byte) /\ data \in Seq(Byte) /\ Len(v) = n /\ Len(data) = n
  <2>1. a \in Seq(Byte) /\ st.addr \in Seq(Byte) /\ n \in 0 .. Len(a) /\ n \in 0 .. Len(st.addr)
    BY <1>1, <1>3, <1>4 DEF FourBytes
  <2> QED
    BY <2>1, TruncatedBytes
<1> HIDE DEF v, data
<1>8. /\ Len(Compile(st)) = 2 /\ o \in {1, 2} /\ Running(mm)
      /\ Compile(st)[1] = AddrAt(st.field, 0, n) /\ Compile(st)[2] = Cmp(st.op, data)
  BY <1>2 DEF Reading
<1>9. CASE o = 1
  <2>1. AsReread(r[i], AddrAt(st.field, 0, n)) /\ Len(Compile(st)) # 1
    BY <1>8, <1>9 DEF Reading
  <2>2. Advances(st, p, 1, mm, Exec(p, r, Sets, i, mm))
    BY <1>4, <1>5, <1>8, <2>1, PrefixIsLoaded
  <2> QED
    BY <1>9, <2>2
<1>10. CASE o = 2
  <2>1. AsReread(r[i], Cmp(st.op, data)) /\ Within(st, p, 2, mm.regs)
    BY <1>8, <1>10 DEF Reading
  <2>2. Decides(st, p, st.op, v, data)
    BY <1>4, <1>7, PrefixDecides
  <2>3. st.s # "set-ct-mark"
    BY <1>1
  <2>4. Advances(st, p, 2, mm, Exec(p, r, Sets, i, mm))
    BY <1>6, <1>8, <2>1, <2>2, <2>3, SecondCompares
  <2> QED
    BY <1>10, <2>4
<1> QED
  BY <1>8, <1>9, <1>10

LEMMA MaskedPrefixStatement ==
    ASSUME NEW st \in Prefix, st.bits % 8 # 0, NEW p, ShortAddresses(p), NEW mm, NEW o, NEW r, NEW i,
           Reading(st, p, o, mm, r, i)
    PROVE  Advances(st, p, o, mm, Exec(p, r, Sets, i, mm))
<1> DEFINE a == PrefixAddr(st, p)
           mask == MaskBytes(4, st.bits)
           none == <<>>
           g == [k |-> "bitwise", src |-> 1, reg |-> 1, mask |-> mask, xor |-> none]
           w == Masking(st, p)
<1>1. st.s = "prefix" /\ FourBytes(st.addr) /\ st.op \in {"eq", "neq"} /\ st.field \in {"saddr", "daddr"}
      /\ st.bits \in 1 .. 32
  BY InPrefixIs
<1>2. Compile(st) = <<AddrAt(st.field, 0, 4), g, Cmp(st.op, st.addr)>>
  BY <1>1 DEF Compile, CompilePrefix
<1>3. Plain(g)
  BY PlainShapes
<1>4. g.k = "bitwise" /\ g.src = 1 /\ g.reg = 1 /\ g.mask = mask /\ g.xor = none
  OBVIOUS
<1>5. FourBytes(a)
  BY <1>1 DEF PrefixAddr, ShortAddresses
<1>6. 4 = PrefixLen(st)
  BY DEF PrefixLen
<1>7. Loading(st, p) = a
  <2>1. Loading(st, p) = Truncate(a, 4)
    BY <1>1, <1>6 DEF Loading
  <2>2. a \in Seq(Byte) /\ 4 \in 0 .. Len(a) /\ 4 = Len(a)
    BY <1>5 DEF FourBytes
  <2> QED
    BY <2>1, <2>2, TruncatedBytes
<1>8. FourBytes(mask)
  BY <1>1, MaskBytesAre
<1> HIDE DEF a
<1>9. w = [j \in 1 .. 4 |-> MaskByte(a[j], mask[j], 0)]
  BY <1>1, <1>7 DEF Masking
<1> HIDE DEF mask, none, g
<1>10. FourBytes(w) /\ \A j \in 1 .. 4 : w[j] = MaskByte(a[j], mask[j], 0)
  <2>1. \A j \in 1 .. 4 : a[j] \in Byte /\ mask[j] \in Byte
    BY <1>5, <1>8, FourBytesAre
  <2>2. \A j \in 1 .. 4 : MaskByte(a[j], mask[j], 0) \in Byte
    BY <2>1, MaskKeeps
  <2>3. w \in [1 .. 4 -> Byte]
    BY <1>9, <2>2
  <2> QED
    BY <1>9, <2>3, FourBytesAre
<1>11. InPrefix(a, st) <=> w = st.addr
  BY <1>5, <1>10, MaskedPrefix DEF mask
<1> HIDE DEF w
<1>12. /\ Len(Compile(st)) = 3 /\ o \in {1, 2, 3} /\ Running(mm)
       /\ Compile(st)[1] = AddrAt(st.field, 0, 4) /\ Compile(st)[2] = g
       /\ Compile(st)[3] = Cmp(st.op, st.addr)
  BY <1>2 DEF Reading
<1>13. st.s # "set-ct-mark" /\ st.s # "between"
  BY <1>1
<1>14. CASE o = 1
  <2>1. AsReread(r[i], AddrAt(st.field, 0, 4)) /\ Len(Compile(st)) # 1 /\ 4 \in 1 .. 4
    BY <1>12, <1>14 DEF Reading
  <2>2. Advances(st, p, 1, mm, Exec(p, r, Sets, i, mm))
    BY <1>6, <1>12, <2>1, PrefixIsLoaded
  <2> QED
    BY <1>14, <2>2
<1>15. CASE o = 2
  <2>1. r[i] = g /\ Within(st, p, 2, mm.regs)
    BY <1>3, <1>12, <1>15, PlainStays DEF Reading
  <2>2. mask \in Seq(Byte) /\ Len(mask) = 4 /\ none \in Seq(Byte) /\ none = <<>>
    BY <1>8 DEF FourBytes, none
  <2>3. MaskOf(r[i], mask, none)
    BY <1>4, <2>1, <2>2 DEF MaskOf
  <2>4. Masks(w, a, mask)
    BY <1>5, <1>10, <2>2 DEF Masks, FourBytes
  <2>5. Masks(Masking(st, p), Loading(st, p), mask)
    BY <1>7, <2>4 DEF w
  <2>6. Advances(st, p, 2, mm, Exec(p, r, Sets, i, mm))
    BY <1>12, <1>13, <2>1, <2>3, <2>5, MaskAdvances
  <2> QED
    BY <1>15, <2>6
<1>16. CASE o = 3
  <2>1. AsReread(r[i], Cmp(st.op, st.addr)) /\ Within(st, p, 3, mm.regs)
    BY <1>12, <1>16 DEF Reading
  <2>2. w \in Seq(Byte) /\ st.addr \in Seq(Byte) /\ Len(st.addr) = Len(w)
    BY <1>1, <1>10 DEF FourBytes
  <2>3. Decides(st, p, st.op, w, st.addr)
    BY <1>11, <2>2, PrefixDecides DEF a
  <2>4. Decides(st, p, st.op, Masking(st, p), st.addr)
    BY <2>3 DEF w
  <2>5. Advances(st, p, 3, mm, Exec(p, r, Sets, i, mm))
    BY <1>12, <1>13, <2>1, <2>4, ThirdCompares
  <2> QED
    BY <1>16, <2>5
<1> QED
  BY <1>12, <1>14, <1>15, <1>16

(***************************************************************************)
(* Sets                                                                    *)
(***************************************************************************)
\* A lookup finds the set of the table that it names.
LEMMA NamedSet ==
    ASSUME NEW name \in {x.set.name : x \in Range(PortSets)}, NEW e, e.set = name
    PROVE  SetOf(name) \in Range(PortSets) /\ FindSet(e, Sets) = {SetOf(name).set}
<1> DEFINE named == {i \in DOMAIN Sets : IF e.set # "" THEN Sets[i].name = e.set
                                         ELSE e.setID # 0 /\ Sets[i].id = e.setID}
<1>1. FindSet(e, Sets) = {Sets[i] : i \in {j \in named : \A k \in named : j <= k}}
  BY DEF FindSet
<1>2. PICK n \in DOMAIN PortSets : PortSets[n].set.name = name
  BY DEF Range
<1>3. /\ DOMAIN PortSets = 1 .. Len(PortSets)
      /\ \A i, j \in DOMAIN PortSets : PortSets[i].set.name = PortSets[j].set.name => i = j
      /\ \A x \in Range(PortSets) : x.set.name # NoName
  BY PortSetsAssumption
<1>4. DOMAIN Sets = DOMAIN PortSets /\ \A i \in DOMAIN PortSets : Sets[i] = PortSets[i].set
  BY DEF Sets
<1>5. \A i \in DOMAIN PortSets : PortSets[i].set.name = name <=> i = n
  BY <1>2, <1>3
<1>6. e.set # ""
  <2>1. name # NoName
    BY <1>3
  <2> QED
    BY <2>1 DEF NoName
<1>7. named = {n}
  <2>1. \A i : i \in named <=> i \in DOMAIN Sets /\ Sets[i].name = e.set
    BY <1>6
  <2> HIDE DEF named
  <2>2. \A i : i \in named <=> i = n
    BY <1>2, <1>4, <1>5, <2>1
  <2> QED
    BY <2>2
<1> HIDE DEF named
<1>8. FindSet(e, Sets) = {PortSets[n].set}
  <2>1. n <= n
    BY <1>3
  <2>2. {j \in named : \A k \in named : j <= k} = {n}
    BY <1>7, <2>1
  <2> QED
    BY <1>1, <1>4, <2>2
<1>9. SetOf(name) = PortSets[n]
  <2>1. \A x \in Range(PortSets) : x.set.name = name <=> x = PortSets[n]
    BY <1>2, <1>5 DEF Range
  <2>2. PortSets[n] \in Range(PortSets)
    BY DEF Range
  <2> QED
    BY <2>1, <2>2 DEF SetOf
<1> QED
  BY <1>8, <1>9 DEF Range

\* The elements of an ordinary set are ports, each of them once.
BoundAt(s, j) == PortOf(s.elements[j].key)
WrittenRanges(ranges) ==
    \A r \in ranges : /\ r.lo \in Port /\ r.hi \in Port /\ r.lo <= r.hi
                      /\ r.hi # 65535 => r.hi + 1 \in Port

LEMMA BoundsArePorts ==
    ASSUME NEW s, NEW ranges, WrittenRanges(ranges), PlainSet(s, ranges), NEW j \in DOMAIN s.elements
    PROVE  BoundAt(s, j) \in Port /\ s.elements[j].key = PortBytes(BoundAt(s, j))
<1>1. s.elements[j] \in Range(s.elements) /\ 0 \in Port
  <2>1. s.elements[j] \in Range(s.elements)
    BY DEF Range
  <2> QED
    BY <2>1, PortIs
<1>2. \E q \in Port : s.elements[j].key = PortBytes(q)
  <2>1. CASE s.interval
    <3>1. Bounds(s.elements, ranges)
      BY <2>1 DEF PlainSet
    <3>2. \/ \E r \in ranges : s.elements[j].key = PortBytes(r.lo)
          \/ \E r \in ranges : r.hi < 65535 /\ s.elements[j].key = PortBytes(r.hi + 1)
          \/ s.elements[j].key = PortBytes(0)
      BY <1>1, <3>1 DEF Bounds
    <3>3. \A r \in ranges : r.hi < 65535 => r.hi # 65535
      OBVIOUS
    <3> QED
      BY <1>1, <3>2, <3>3 DEF WrittenRanges
  <2>2. CASE ~s.interval
    <3>1. {el.key : el \in Range(s.elements)} = {PortBytes(r.lo) : r \in ranges}
      BY <2>2 DEF PlainSet
    <3>2. \E r \in ranges : s.elements[j].key = PortBytes(r.lo)
      BY <1>1, <3>1
    <3> QED
      BY <3>2 DEF WrittenRanges
  <2> QED
    BY <2>1, <2>2
<1> QED
  BY <1>2, PortBytesAre DEF BoundAt

\* They are sorted by their ports.
LEMMA SortedByPort ==
    ASSUME NEW s, NEW ranges, WrittenRanges(ranges), PlainSet(s, ranges),
           NEW i \in DOMAIN s.elements, NEW j \in DOMAIN s.elements, ~(i < i)
    PROVE  Sorted(s, i, j) <=> BoundAt(s, i) < BoundAt(s, j)
<1> DEFINE a == BoundAt(s, i)  b == BoundAt(s, j)
<1>1. a \in Port /\ b \in Port /\ s.elements[i].key = PortBytes(a) /\ s.elements[j].key = PortBytes(b)
  BY BoundsArePorts
<1>2. s.elements[i].key = s.elements[j].key => i = j
  BY DEF PlainSet
<1>3. Sorted(s, i, j) <=> Less(PortBytes(a), PortBytes(b)) \/ (PortBytes(a) = PortBytes(b) /\ i < j)
  BY <1>1 DEF Sorted
<1> HIDE DEF a, b
<1>4. Less(PortBytes(a), PortBytes(b)) <=> a < b
  BY <1>1, PortOrder
<1>5. ~(PortBytes(a) = PortBytes(b) /\ i < j)
  BY <1>1, <1>2
<1> QED
  BY <1>3, <1>4, <1>5 DEF a, b

\* The ranges of an interval set are apart, and its elements bound them.
Apart(ranges) == \A r, q \in ranges : r = q \/ r.hi + 1 < q.lo \/ q.hi + 1 < r.lo
Bounding(s, ranges) ==
    /\ \A r \in ranges : \E j \in DOMAIN s.elements : ~s.elements[j].end /\ BoundAt(s, j) = r.lo
    /\ \A r \in ranges : r.hi # 65535 =>
          \E j \in DOMAIN s.elements : s.elements[j].end /\ BoundAt(s, j) = r.hi + 1
    /\ \A j \in DOMAIN s.elements :
          IF s.elements[j].end
          THEN (\E r \in ranges : BoundAt(s, j) = r.hi + 1) \/ \A r \in ranges : BoundAt(s, j) < r.lo
          ELSE \E r \in ranges : BoundAt(s, j) = r.lo

LEMMA IntervalBounds ==
    ASSUME NEW s, NEW ranges, WrittenRanges(ranges), PlainSet(s, ranges), s.interval
    PROVE  Apart(ranges) /\ Bounding(s, ranges)
<1>1. Bounds(s.elements, ranges)
  BY DEF PlainSet
<1>2. Apart(ranges)
  BY <1>1 DEF Bounds, Apart
<1>3. \A q \in Port : PortOf(PortBytes(q)) = q
  BY PortBytesAre
<1>4. \A j \in DOMAIN s.elements : s.elements[j] \in Range(s.elements)
  BY DEF Range
<1>5. \A el \in Range(s.elements) : \E j \in DOMAIN s.elements : el = s.elements[j]
  BY DEF Range
<1>6. \A r \in ranges : \E j \in DOMAIN s.elements : ~s.elements[j].end /\ BoundAt(s, j) = r.lo
  <2> SUFFICES ASSUME NEW r \in ranges
               PROVE  \E j \in DOMAIN s.elements : ~s.elements[j].end /\ BoundAt(s, j) = r.lo
    OBVIOUS
  <2>1. PICK el \in Range(s.elements) : ~el.end /\ el.key = PortBytes(r.lo)
    BY <1>1 DEF Bounds
  <2>2. r.lo \in Port
    BY DEF WrittenRanges
  <2> QED
    BY <1>3, <1>5, <2>1, <2>2 DEF BoundAt
<1>7. \A r \in ranges : r.hi # 65535 =>
          \E j \in DOMAIN s.elements : s.elements[j].end /\ BoundAt(s, j) = r.hi + 1
  <2> SUFFICES ASSUME NEW r \in ranges, r.hi # 65535
               PROVE  \E j \in DOMAIN s.elements : s.elements[j].end /\ BoundAt(s, j) = r.hi + 1
    OBVIOUS
  <2>1. PICK el \in Range(s.elements) : el.end /\ el.key = PortBytes(r.hi + 1)
    BY <1>1 DEF Bounds
  <2>2. r.hi + 1 \in Port
    BY DEF WrittenRanges
  <2> QED
    BY <1>3, <1>5, <2>1, <2>2 DEF BoundAt
<1>8. ASSUME NEW j \in DOMAIN s.elements
      PROVE  IF s.elements[j].end
             THEN (\E r \in ranges : BoundAt(s, j) = r.hi + 1) \/ \A r \in ranges : BoundAt(s, j) < r.lo
             ELSE \E r \in ranges : BoundAt(s, j) = r.lo
  <2>1. CASE s.elements[j].end
    <3>1. CASE \E r \in ranges : r.hi < 65535 /\ s.elements[j].key = PortBytes(r.hi + 1)
      <4>1. PICK r \in ranges : r.hi < 65535 /\ s.elements[j].key = PortBytes(r.hi + 1)
        BY <3>1
      <4>2. r.hi # 65535
        BY <4>1
      <4>3. r.hi + 1 \in Port
        BY <4>2 DEF WrittenRanges
      <4>4. BoundAt(s, j) = r.hi + 1
        BY <1>3, <4>1, <4>3 DEF BoundAt
      <4> QED
        BY <2>1, <4>4
    <3>2. CASE s.elements[j].key = PortBytes(0) /\ \A r \in ranges : r.lo > 0
      <4>1. 0 \in Port
        BY PortIs
      <4>2. BoundAt(s, j) = 0
        BY <1>3, <3>2, <4>1 DEF BoundAt
      <4>3. \A r \in ranges : BoundAt(s, j) < r.lo
        BY <3>2, <4>2
      <4> QED
        BY <2>1, <4>3
    <3> QED
      BY <1>1, <1>4, <2>1, <3>1, <3>2 DEF Bounds
  <2>2. CASE ~s.elements[j].end
    <3>1. PICK r \in ranges : s.elements[j].key = PortBytes(r.lo)
      BY <1>1, <1>4, <2>2 DEF Bounds
    <3>2. r.lo \in Port
      BY DEF WrittenRanges
    <3>3. BoundAt(s, j) = r.lo
      BY <1>3, <3>1, <3>2 DEF BoundAt
    <3> QED
      BY <2>2, <3>3
  <2> QED
    BY <2>1, <2>2
<1>9. Bounding(s, ranges)
  BY <1>6, <1>7, <1>8 DEF Bounding
<1> QED
  BY <1>2, <1>9

\* No two starts meet, and a range is searched as it was written.
LEMMA StartsAreApart ==
    ASSUME NEW s, NEW ranges, WrittenRanges(ranges), Apart(ranges), Bounding(s, ranges),
           NEW i \in DOMAIN s.elements, NEW j \in DOMAIN s.elements,
           ~s.elements[i].end, ~s.elements[j].end, BoundAt(s, i) < BoundAt(s, j)
    PROVE  \E k \in DOMAIN s.elements : BoundAt(s, i) < BoundAt(s, k) /\ BoundAt(s, k) < BoundAt(s, j)
<1>1. PICK r \in ranges : BoundAt(s, i) = r.lo
  BY DEF Bounding
<1>2. PICK q \in ranges : BoundAt(s, j) = q.lo
  BY DEF Bounding
<1>3. r.lo \in Int /\ r.hi \in Int /\ q.lo \in Int /\ q.hi \in Int /\ r.lo <= r.hi /\ q.lo <= q.hi /\ q.lo <= 65535
  <2>1. \A x \in Port : x \in Int /\ x <= 65535
    BY PortIs
  <2> QED
    BY <2>1 DEF WrittenRanges
<1>4. r.lo < q.lo
  BY <1>1, <1>2
<1>5. r.hi + 1 < q.lo
  <2>1. r # q
    BY <1>3, <1>4
  <2>2. r.hi + 1 < q.lo \/ q.hi + 1 < r.lo
    BY <2>1 DEF Apart
  <2> QED
    BY <1>3, <1>4, <2>2
<1>6. r.hi # 65535
  BY <1>3, <1>5
<1>7. PICK k \in DOMAIN s.elements : BoundAt(s, k) = r.hi + 1
  BY <1>6 DEF Bounding
<1> QED
  BY <1>1, <1>2, <1>3, <1>5, <1>7

LEMMA NoTwoStarts ==
    ASSUME NEW s, NEW ranges, WrittenRanges(ranges), PlainSet(s, ranges), s.interval,
           \A i \in DOMAIN s.elements : i \in Int
    PROVE  ~TwoStarts(s)
<1> SUFFICES ASSUME TwoStarts(s)
             PROVE  FALSE
  OBVIOUS
<1>1. PICK i \in DOMAIN s.elements : \E j \in NextBound(s, i) : ~s.elements[i].end /\ ~s.elements[j].end
  BY DEF TwoStarts
<1>2. PICK j \in NextBound(s, i) : ~s.elements[i].end /\ ~s.elements[j].end
  BY <1>1
<1>3. /\ j \in DOMAIN s.elements /\ Sorted(s, i, j)
      /\ ~ \E k \in DOMAIN s.elements : Sorted(s, i, k) /\ Sorted(s, k, j)
  BY DEF NextBound
<1>4. \A k, l \in DOMAIN s.elements : Sorted(s, k, l) <=> BoundAt(s, k) < BoundAt(s, l)
  <2>1. \A k \in DOMAIN s.elements : ~(k < k)
    OBVIOUS
  <2> QED
    BY <2>1, SortedByPort
<1>5. Apart(ranges) /\ Bounding(s, ranges)
  BY IntervalBounds
<1> QED
  BY <1>2, <1>3, <1>4, <1>5, StartsAreApart

LEMMA MembersAreWritten ==
    ASSUME NEW s, NEW ranges, WrittenRanges(ranges), PlainSet(s, ranges), s.interval,
           \A i \in DOMAIN s.elements : i \in Int, NEW v \in Port
    PROVE  IntervalMember(PortBytes(v), s) <=> \E r \in ranges : r.lo <= v /\ v <= r.hi
<1> DEFINE b(j) == BoundAt(s, j)
           E == DOMAIN s.elements
<1>1. \A k, l \in E : Sorted(s, k, l) <=> b(k) < b(l)
  <2>1. \A k \in E : ~(k < k)
    OBVIOUS
  <2> QED
    BY <2>1, SortedByPort
<1>2. Apart(ranges) /\ Bounding(s, ranges)
  BY IntervalBounds
<1>3. \A x \in Port : x \in Int /\ x <= 65535
  BY PortIs
<1>4. \A j \in E : b(j) \in Int /\ s.elements[j].key = PortBytes(b(j)) /\ b(j) \in Port
  BY <1>3, BoundsArePorts
<1>5. \A j \in E : /\ Less(PortBytes(v), s.elements[j].key) <=> v < b(j)
  BY <1>4, PortOrder
<1>6. \A r \in ranges : r.lo \in Int /\ r.hi \in Int /\ r.lo <= r.hi /\ r.hi <= 65535
  BY <1>3 DEF WrittenRanges
<1>7. \A j \in E : NextBound(s, j) = {k \in E : b(j) < b(k) /\ ~ \E l \in E : b(j) < b(l) /\ b(l) < b(k)}
  BY <1>1 DEF NextBound
<1>8. IntervalMember(PortBytes(v), s) <=>
        \E i \in E : /\ ~s.elements[i].end /\ ~(v < b(i))
                     /\ \A j \in NextBound(s, i) : v < b(j)
  <2>1. \A i \in E : \A j \in NextBound(s, i) : j \in E
    BY DEF NextBound
  <2> QED
    BY <1>5, <2>1 DEF IntervalMember
<1>9. v \in Int
  BY <1>3
<1> HIDE DEF b
<1>10. ASSUME NEW i \in E, NEW k \in E, ~s.elements[i].end, NEW r \in ranges, b(i) = r.lo, b(i) < b(k)
       PROVE  r.hi < b(k)
  <2>1. CASE ~s.elements[k].end
    <3>1. PICK q \in ranges : b(k) = q.lo
      BY <1>2, <2>1 DEF Bounding, b
    <3>2. r # q
      BY <1>6, <1>10, <3>1
    <3>3. r.hi + 1 < q.lo \/ q.hi + 1 < r.lo
      BY <1>2, <3>2 DEF Apart
    <3> QED
      BY <1>6, <1>10, <3>1, <3>3
  <2>2. CASE s.elements[k].end
    <3>1. (\E q \in ranges : b(k) = q.hi + 1) \/ \A q \in ranges : b(k) < q.lo
      BY <1>2, <2>2 DEF Bounding, b
    <3>2. b(k) \in Int /\ b(i) \in Int
      BY <1>4
    <3>3. ~(b(k) < r.lo)
      BY <1>10, <3>2
    <3>4. PICK q \in ranges : b(k) = q.hi + 1
      BY <3>1, <3>3
    <3>5. r = q \/ r.hi + 1 < q.lo \/ q.hi + 1 < r.lo
      BY <1>2 DEF Apart
    <3> QED
      BY <1>6, <1>10, <3>4, <3>5
  <2> QED
    BY <2>1, <2>2
<1>11. ASSUME NEW r \in ranges, r.lo <= v, v <= r.hi
       PROVE  IntervalMember(PortBytes(v), s)
  <2>1. PICK i \in E : ~s.elements[i].end /\ b(i) = r.lo
    BY <1>2 DEF Bounding, b
  <2>2. \A j \in NextBound(s, i) : j \in E /\ b(i) < b(j)
    BY <1>7
  <2>3. \A j \in NextBound(s, i) : r.hi < b(j)
    BY <1>10, <2>1, <2>2
  <2>4. \A j \in NextBound(s, i) : v < b(j)
    BY <1>4, <1>6, <1>9, <1>11, <2>2, <2>3
  <2>5. ~(v < b(i))
    BY <1>6, <1>9, <1>11, <2>1
  <2> QED
    BY <1>8, <2>1, <2>4, <2>5
<1>12. ASSUME IntervalMember(PortBytes(v), s)
       PROVE  \E r \in ranges : r.lo <= v /\ v <= r.hi
  <2>1. PICK i \in E : /\ ~s.elements[i].end /\ ~(v < b(i))
                       /\ \A j \in NextBound(s, i) : v < b(j)
    BY <1>8, <1>12
  <2>2. PICK r \in ranges : b(i) = r.lo
    BY <1>2, <2>1 DEF Bounding, b
  <2>3. r.lo <= v
    BY <1>6, <1>9, <2>1, <2>2
  <2>4. CASE r.hi = 65535
    <3>1. v <= 65535
      BY <1>3
    <3> QED
      BY <2>3, <2>4, <3>1
  <2>5. CASE r.hi # 65535
    <3>1. PICK k \in E : b(k) = r.hi + 1
      BY <1>2, <2>5 DEF Bounding, b
    <3>2. b(i) < b(k)
      BY <1>6, <2>2, <3>1
    <3>3. \A l \in E : b(i) < b(l) => r.hi < b(l)
      BY <1>10, <2>1, <2>2
    <3>4. ~ \E l \in E : b(i) < b(l) /\ b(l) < b(k)
      BY <1>4, <1>6, <3>1, <3>3
    <3>5. k \in NextBound(s, i)
      BY <1>7, <3>2, <3>4
    <3>6. v < r.hi + 1
      BY <2>1, <3>1, <3>5
    <3> QED
      BY <1>6, <1>9, <2>3, <3>6
  <2> QED
    BY <2>4, <2>5
<1> QED
  BY <1>11, <1>12

\* What the table's sets are (the assumption about them, one set at a time).
LEMMA SetIs ==
    ASSUME NEW x \in Range(PortSets)
    PROVE  /\ x.readable \in BOOLEAN /\ x.set.interval \in BOOLEAN
           /\ WrittenRanges(x.ranges)
           /\ x.readable => PlainSet(x.set, x.ranges)
           /\ ~x.readable => OddSet(x.set)
           /\ \A j \in DOMAIN x.set.elements : j \in Int
           /\ x.set.elements # <<>> => 1 \in DOMAIN x.set.elements
<1>1. /\ x.readable \in BOOLEAN /\ x.set.interval \in BOOLEAN
      /\ x.set.elements \in Seq(Range(x.set.elements))
      /\ \A r \in x.ranges : r \in [lo : Port, hi : Port] /\ r.lo <= r.hi
      /\ x.readable => PlainSet(x.set, x.ranges)
      /\ ~x.readable => OddSet(x.set)
  BY PortSetsAssumption
<1>2. WrittenRanges(x.ranges)
  <2>1. \A q \in Port : q # 65535 => q + 1 \in Port
    BY PortIs
  <2> QED
    BY <1>1, <2>1 DEF WrittenRanges
<1>3. /\ \A j \in DOMAIN x.set.elements : j \in Int
      /\ x.set.elements # <<>> => 1 \in DOMAIN x.set.elements
  <2> DEFINE els == x.set.elements
  <2>1. els \in Seq(Range(els))
    BY <1>1
  <2> HIDE DEF els
  <2>2. (\A j \in DOMAIN els : j \in Int) /\ (els # <<>> => 1 \in DOMAIN els)
    BY <2>1
  <2> QED
    BY <2>2 DEF els
<1> QED
  BY <1>1, <1>2, <1>3

\* The keys of an ordinary set are two bytes, and readable.
LEMMA KeysAreRead ==
    ASSUME NEW s, NEW ranges, WrittenRanges(ranges), PlainSet(s, ranges)
    PROVE  /\ PlainKeys(s)
           /\ \A j \in DOMAIN s.elements : Len(s.elements[j].key) = 2
<1>1. \A j \in DOMAIN s.elements : /\ Len(s.elements[j].key) = 2
                                   /\ s.elements[j].key # Undecodable
  BY BoundsArePorts, PortBytesAre
<1>2. \A el \in Range(s.elements) : Len(el.key) = 2 /\ el.key # Undecodable
  BY <1>1 DEF Range
<1>3. \A el \in Range(s.elements) : ~el.val /\ ~el.keyEnd
  BY DEF PlainSet
<1> QED
  BY <1>1, <1>2, <1>3 DEF PlainKeys

\* Whether a port is in a set.
LEMMA MemberIs ==
    ASSUME NEW x \in Range(PortSets), x.readable, NEW v \in Port
    PROVE  /\ x.set.interval => ~TwoStarts(x.set) /\ (IntervalMember(PortBytes(v), x.set) <=> HasPort(x, v))
           /\ ~x.set.interval => (FlatMember(PortBytes(v), x.set) <=> HasPort(x, v))
<1>1. /\ WrittenRanges(x.ranges) /\ PlainSet(x.set, x.ranges)
      /\ \A j \in DOMAIN x.set.elements : j \in Int
  BY SetIs
<1>2. \A r \in x.ranges : v \in r.lo .. r.hi <=> r.lo <= v /\ v <= r.hi
  BY <1>1, PortRange DEF WrittenRanges
<1>3. HasPort(x, v) <=> \E r \in x.ranges : r.lo <= v /\ v <= r.hi
  BY <1>2 DEF HasPort
<1>4. CASE x.set.interval
  BY <1>1, <1>3, <1>4, NoTwoStarts, MembersAreWritten
<1>5. CASE ~x.set.interval
  <2>1. /\ \A r \in x.ranges : r.lo = r.hi
        /\ {el.key : el \in Range(x.set.elements)} = {PortBytes(r.lo) : r \in x.ranges}
    BY <1>1, <1>5 DEF PlainSet
  <2>2. FlatMember(PortBytes(v), x.set) <=> \E r \in x.ranges : PortBytes(r.lo) = PortBytes(v)
    <3>1. FlatMember(PortBytes(v), x.set) <=> PortBytes(v) \in {el.key : el \in Range(x.set.elements)}
      BY DEF FlatMember
    <3> QED
      BY <2>1, <3>1
  <2>3. \A r \in x.ranges : PortBytes(r.lo) = PortBytes(v) <=> r.lo = v
    BY <1>1, PortOrder DEF WrittenRanges
  <2>4. \A q \in Port : q \in Int
    BY PortIs
  <2>5. \A r \in x.ranges : r.lo = v <=> r.lo <= v /\ v <= r.hi
    BY <1>1, <2>1, <2>4 DEF WrittenRanges
  <2> QED
    BY <1>3, <1>5, <2>2, <2>3, <2>5
<1> QED
  BY <1>4, <1>5

LEMMA LookupTells ==
    ASSUME NEW x \in Range(PortSets), NEW e, FindSet(e, Sets) = {x.set}, e.invert \in BOOLEAN, NEW v \in Port
    PROVE  /\ ~x.readable => LookupMatch(PortBytes(v), e, Sets) = "refused"
           /\ x.readable => LookupMatch(PortBytes(v), e, Sets)
                            = IF HasPort(x, v) # e.invert THEN "hit" ELSE "miss"
<1> DEFINE reg == PortBytes(v)
           s == CHOOSE y \in FindSet(e, Sets) : TRUE
           w == Truncate(reg, Len(s.elements[1].key))
           member == IF s.interval THEN IntervalMember(w, s) ELSE FlatMember(w, s)
           bad == \/ FindSet(e, Sets) = {} \/ s.isMap \/ s.concat \/ s.elements = <<>>
                  \/ ~PlainKeys(s) \/ Len(reg) < Len(s.elements[1].key)
                  \/ s.interval /\ TwoStarts(s)
<1>1. LookupMatch(reg, e, Sets) = IF bad THEN "refused" ELSE IF member # e.invert THEN "hit" ELSE "miss"
  BY DEF LookupMatch
<1>2. s = x.set
  OBVIOUS
<1>3. FindSet(e, Sets) # {}
  OBVIOUS
<1>4. reg \in Seq(Byte) /\ Len(reg) = 2
  BY PortBytesAre
<1>5. member \in BOOLEAN
  BY DEF IntervalMember, FlatMember
<1> HIDE DEF s, reg
<1>6. CASE ~x.readable
  <2>1. OddSet(s)
    BY <1>2, <1>6, SetIs
  <2>2. bad
    BY <2>1 DEF OddSet, PlainKeys
  <2> HIDE DEF bad, member
  <2> QED
    BY <1>1, <1>6, <2>2 DEF reg
<1>7. CASE x.readable
  <2>1. /\ WrittenRanges(x.ranges) /\ PlainSet(s, x.ranges) /\ s.interval \in BOOLEAN
        /\ s.elements # <<>> => 1 \in DOMAIN s.elements
    BY <1>2, <1>7, SetIs
  <2>2. ~s.isMap /\ ~s.concat /\ s.elements # <<>>
    BY <2>1 DEF PlainSet
  <2>3. PlainKeys(s) /\ Len(s.elements[1].key) = 2
    BY <2>1, <2>2, KeysAreRead
  <2>4. w = reg
    <3>1. 2 \in 0 .. Len(reg) /\ 2 = Len(reg)
      BY <1>4
    <3> QED
      BY <1>4, <2>3, <3>1, TruncatedBytes
  <2>5. /\ s.interval => ~TwoStarts(s) /\ (IntervalMember(reg, s) <=> HasPort(x, v))
        /\ ~s.interval => (FlatMember(reg, s) <=> HasPort(x, v))
    BY <1>2, <1>7, MemberIs DEF reg
  <2>6. member <=> HasPort(x, v)
    BY <2>1, <2>4, <2>5
  <2>7. ~bad
    BY <1>3, <1>4, <2>1, <2>2, <2>3, <2>5
  <2>8. HasPort(x, v) \in BOOLEAN
    BY DEF HasPort
  <2> HIDE DEF bad, member
  <2>9. member = HasPort(x, v)
    BY <1>5, <2>6, <2>8
  <2> QED
    BY <1>1, <1>7, <2>7, <2>9 DEF reg
<1> QED
  BY <1>6, <1>7

LEMMA InSetStatement ==
    ASSUME NEW st \in Statement, st.s = "in-set", NEW p \in Packet, NEW mm, NEW o, NEW r, NEW i,
           Reading(st, p, o, mm, r, i)
    PROVE  Advances(st, p, o, mm, Exec(p, r, Sets, i, mm))
<1> DEFINE g == [k |-> "lookup", reg |-> 1, set |-> st.set, setID |-> 0,
                 invert |-> st.invert, dest |-> FALSE]
           x == SetOf(st.set)
<1>1. Compile(st) = <<LoadPort, g>>
  BY DEF Compile
<1>2. Plain(g)
  BY PlainShapes
<1>3. g.k = "lookup" /\ g.reg = 1 /\ g.set = st.set /\ g.invert = st.invert /\ ~g.dest
  OBVIOUS
<1>4. Says(st, p) = IF x.readable THEN (IF HasPort(x, p.dport) # st.invert THEN "yes" ELSE "no") ELSE "unknown"
  BY DEF Says, YesNo
<1> HIDE DEF g, x
<1>5. /\ Len(Compile(st)) = 2 /\ o \in {1, 2} /\ Compile(st)[1] = LoadPort /\ Compile(st)[2] = g
  BY <1>1 DEF Reading
<1>6. p.dport \in Port /\ Running(mm) /\ st.s \in PortKinds /\ st.invert \in BOOLEAN
      /\ st.set \in {y.set.name : y \in Range(PortSets)}
  BY Operands, PacketIs DEF Reading, PortKinds
<1>7. CASE o = 1
  BY <1>5, <1>6, <1>7, PortIsLoaded DEF Reading
<1>8. CASE o = 2
  <2>1. r[i] = g
    BY <1>2, <1>5, <1>8, PlainStays DEF Reading
  <2>2. 1 \in DOMAIN mm.regs /\ mm.regs[1] = PortBytes(p.dport)
    BY <1>6, <1>8, PortIsHeld DEF Reading
  <2>3. x \in Range(PortSets) /\ FindSet(g, Sets) = {x.set}
    BY <1>3, <1>6, NamedSet DEF x
  <2> DEFINE found == LookupMatch(PortBytes(p.dport), g, Sets)
  <2>4. /\ ~x.readable => found = "refused"
        /\ x.readable => found = IF HasPort(x, p.dport) # st.invert THEN "hit" ELSE "miss"
    BY <1>3, <1>6, <2>3, LookupTells
  <2>5. Exec(p, r, Sets, i, mm) = ExecLookup(g, Sets, mm)
    BY <1>3, <2>1 DEF Exec
  <2> HIDE DEF found
  <2>6. ExecLookup(g, Sets, mm) = CASE found = "hit" -> mm
                                    [] found = "miss" -> Ends(mm, "NoMatch")
                                    [] OTHER -> Ends(mm, "Unknown")
    BY <1>3, <2>2 DEF ExecLookup, found
  <2>7. CASE ~x.readable
    <3>1. Says(st, p) = "unknown" /\ ExecLookup(g, Sets, mm) = Ends(mm, "Unknown")
      BY <1>4, <2>4, <2>6, <2>7
    <3> QED
      BY <1>6, <2>5, <3>1, EndAdvances
  <2>8. CASE x.readable /\ HasPort(x, p.dport) # st.invert
    <3>1. Says(st, p) = "yes" /\ ExecLookup(g, Sets, mm) = mm
      BY <1>4, <2>4, <2>6, <2>8
    <3>2. Advances(st, p, o, mm, mm)
      BY <1>5, <1>6, <1>8, <3>1, PassAdvances
    <3> QED
      BY <2>5, <3>1, <3>2
  <2>9. CASE x.readable /\ ~(HasPort(x, p.dport) # st.invert)
    <3>1. Says(st, p) = "no" /\ ExecLookup(g, Sets, mm) = Ends(mm, "NoMatch")
      BY <1>4, <2>4, <2>6, <2>9
    <3> QED
      BY <1>6, <2>5, <3>1, EndAdvances
  <2> QED
    BY <2>7, <2>8, <2>9
<1> QED
  BY <1>5, <1>7, <1>8

(***************************************************************************)
(* Extensions                                                              *)
(***************************************************************************)
\* The tables of names, read off.
LEMMA TablesAre ==
    /\ DOMAIN CtStateNames = {1, 2, 4, 8} /\ DOMAIN RecentModes = {1, 2, 4, 8}
    /\ DOMAIN AddrTypeNames = {1, 2, 4, 8, 16, 32}
    /\ CtStateNames[1] = "invalid" /\ CtStateNames[2] = "established" /\ CtStateNames[4] = "related"
    /\ CtStateNames[8] = "new"
    /\ RecentModes[1] = "rcheck" /\ RecentModes[2] = "set" /\ RecentModes[4] = "update"
    /\ RecentModes[8] = "remove"
    /\ AddrTypeNames[1] = "unspec" /\ AddrTypeNames[2] = "unicast" /\ AddrTypeNames[4] = "local"
    /\ AddrTypeNames[8] = "broadcast" /\ AddrTypeNames[16] = "anycast" /\ AddrTypeNames[32] = "multicast"
<1>1. /\ DOMAIN CtStateNames = {1, 2, 4, 8}
      /\ CtStateNames[1] = "invalid" /\ CtStateNames[2] = "established" /\ CtStateNames[4] = "related"
      /\ CtStateNames[8] = "new"
  BY DEF CtStateNames
<1>2. /\ DOMAIN RecentModes = {1, 2, 4, 8}
      /\ RecentModes[1] = "rcheck" /\ RecentModes[2] = "set" /\ RecentModes[4] = "update"
      /\ RecentModes[8] = "remove"
  BY DEF RecentModes
<1>3. /\ DOMAIN AddrTypeNames = {1, 2, 4, 8, 16, 32}
      /\ AddrTypeNames[1] = "unspec" /\ AddrTypeNames[2] = "unicast" /\ AddrTypeNames[4] = "local"
      /\ AddrTypeNames[8] = "broadcast" /\ AddrTypeNames[16] = "anycast" /\ AddrTypeNames[32] = "multicast"
  BY DEF AddrTypeNames
<1> QED
  BY <1>1, <1>2, <1>3

LEMMA NothingIs == Nothing.kind = "none"
BY DEF Nothing, Act

\* What an extension is found to say.
Told(x, mm, n) ==
    /\ x = XtUnresolved => n \in {Ends(mm, "Skipped"), Ends(mm, "Unknown")}
    /\ x = XtMatches(TRUE) => n = mm
    /\ x = XtMatches(FALSE) => n = Ends(mm, "NoMatch")

LEMMA XtTells ==
    ASSUME NEW p, NEW r, NEW i, r[i].k = "xt", NEW mm, Running(mm), NEW sets
    PROVE  Told(XtExpr(p, r[i]), mm, Exec(p, r, sets, i, mm))
<1> SUFFICES /\ XtExpr(p, r[i]) = XtUnresolved =>
                   Exec(p, r, sets, i, mm) \in {Ends(mm, "Skipped"), Ends(mm, "Unknown")}
             /\ XtExpr(p, r[i]) = XtMatches(TRUE) => Exec(p, r, sets, i, mm) = mm
             /\ XtExpr(p, r[i]) = XtMatches(FALSE) => Exec(p, r, sets, i, mm) = Ends(mm, "NoMatch")
  BY Zenon DEF Told
<1> DEFINE x == XtExpr(p, r[i])
<1>1. Exec(p, r, sets, i, mm) = ExecXt(p, r, i, mm)
  BY DEF Exec
<1>2. ExecXt(p, r, i, mm) = IF ~x.ok
                            THEN Ends(mm, IF SkippableUnresolvedMatch(p, r, i) THEN "Skipped" ELSE "Unknown")
                            ELSE IF ~x.hit THEN Ends(mm, "NoMatch")
                            ELSE IF x.act.kind = "none" THEN mm ELSE [mm EXCEPT !.act = x.act]
  BY DEF ExecXt
<1>3. ~XtUnresolved.ok
  BY DEF XtUnresolved
<1>4. /\ XtMatches(TRUE).ok /\ XtMatches(TRUE).hit /\ XtMatches(TRUE).act.kind = "none"
      /\ XtMatches(FALSE).ok /\ ~XtMatches(FALSE).hit
  BY NothingIs DEF XtMatches
<1> HIDE DEF x
<1>5. CASE x = XtUnresolved
  <2>1. x # XtMatches(TRUE) /\ x # XtMatches(FALSE)
    BY <1>3, <1>4, <1>5
  <2> QED
    BY <1>1, <1>2, <1>3, <1>5, <2>1 DEF x
<1>6. CASE x = XtMatches(TRUE)
  <2>1. x # XtUnresolved /\ x # XtMatches(FALSE)
    BY <1>3, <1>4, <1>6
  <2> QED
    BY <1>1, <1>2, <1>4, <1>6, <2>1 DEF x
<1>7. CASE x = XtMatches(FALSE)
  <2>1. x # XtUnresolved /\ x # XtMatches(TRUE)
    BY <1>3, <1>4, <1>7
  <2> QED
    BY <1>1, <1>2, <1>4, <1>7, <2>1 DEF x
<1> QED
  BY <1>5, <1>6, <1>7 DEF x

\* What the statement says, an extension tells.
Tells(st, p, x) ==
    \/ x = XtUnresolved /\ Says(st, p) = "unknown"
    \/ x = XtMatches(TRUE) /\ Says(st, p) = "yes"
    \/ x = XtMatches(FALSE) /\ Says(st, p) = "no"

LEMMA XtAdvances ==
    ASSUME NEW st, NEW p, NEW g, Compile(st) = <<g>>, NEW mm, NEW o, NEW r, NEW i,
           Reading(st, p, o, mm, r, i), IsXt(g),
           \A raw : XtExpr(p, Ext(g, raw)) = XtExpr(p, Ext(g, NoPayload)),
           Tells(st, p, XtExpr(p, Ext(g, NoPayload)))
    PROVE  Advances(st, p, o, mm, Exec(p, r, Sets, i, mm))
<1>1. Len(Compile(st)) = 1 /\ o = 1 /\ Compile(st)[1] = g /\ Running(mm)
  BY DEF Reading
<1>2. \E raw : r[i] = Ext(g, raw)
  BY <1>1 DEF Reading, AsReread, AsCollected
<1>3. r[i].k = "xt" /\ XtExpr(p, r[i]) = XtExpr(p, Ext(g, NoPayload))
  BY <1>2 DEF Ext, Xt
<1>4. Tells(st, p, XtExpr(p, r[i]))
  BY <1>3
<1> DEFINE n == Exec(p, r, Sets, i, mm)
           x == XtExpr(p, r[i])
<1>5. /\ x = XtUnresolved => n \in {Ends(mm, "Skipped"), Ends(mm, "Unknown")}
      /\ x = XtMatches(TRUE) => n = mm
      /\ x = XtMatches(FALSE) => n = Ends(mm, "NoMatch")
  <2>1. r[i].k = "xt" /\ Running(mm)
    BY <1>1, <1>3
  <2>2. Told(XtExpr(p, r[i]), mm, Exec(p, r, Sets, i, mm))
    BY <2>1, XtTells, Zenon
  <2> QED
    BY <2>2 DEF Told
<1>6. /\ Says(st, p) = "no" => Advances(st, p, o, mm, Ends(mm, "NoMatch"))
      /\ Says(st, p) = "unknown" => Advances(st, p, o, mm, Ends(mm, "Unknown"))
      /\ Says(st, p) = "unknown" => Advances(st, p, o, mm, Ends(mm, "Skipped"))
  BY <1>1, EndAdvances
<1>7. Says(st, p) = "yes" => Advances(st, p, o, mm, mm)
  BY <1>1, PassAdvances
<1>8. Tells(st, p, x)
  BY <1>4
<1> HIDE DEF n, x
<1>9. Advances(st, p, o, mm, n)
  BY <1>5, <1>6, <1>7, <1>8 DEF Tells
<1> QED
  BY <1>9 DEF n

LEMMA ExtIs ==
    ASSUME NEW name, NEW rev, NEW info, NEW raw
    PROVE  LET g == Match(name, rev, info)
               e == Ext(g, raw)
           IN  /\ IsXt(g) /\ e.kind = "match" /\ e.name = name /\ e.k = "xt"
               /\ e.decoded = DecodeInfo(name, rev, info).decoded
               /\ e.arg = DecodeInfo(name, rev, info).arg
BY DEF Match, IsXt, Ext, Xt, ReadOf

\* What is not one of the four extensions that are read.
LEMMA UnreadMatch ==
    ASSUME NEW st, NEW p, NEW name, NEW rev, NEW info, NEW mm, NEW o, NEW r, NEW i,
           Reading(st, p, o, mm, r, i), Compile(st) = <<Match(name, rev, info)>>,
           name \in {"geoip", "socket", "icmp"},
           name = "icmp" => Says(st, p) = "no", name # "icmp" => Says(st, p) = "unknown"
    PROVE  Advances(st, p, o, mm, Exec(p, r, Sets, i, mm))
<1> DEFINE g == Match(name, rev, info)
<1>1. IsXt(g) /\ \A raw : Ext(g, raw).kind = "match" /\ Ext(g, raw).name = name
  BY ExtIs
<1> HIDE DEF g
<1>2. \A raw : XtExpr(p, Ext(g, raw)) = XtMatch(p, Ext(g, raw))
  BY <1>1 DEF XtExpr
<1>3. \A raw : XtMatch(p, Ext(g, raw)) = IF name = "icmp" THEN XtMatches(FALSE) ELSE XtUnresolved
  BY <1>1 DEF XtMatch
<1>4. \A raw : XtExpr(p, Ext(g, raw)) = IF name = "icmp" THEN XtMatches(FALSE) ELSE XtUnresolved
  BY <1>2, <1>3
<1>6. \A raw : XtExpr(p, Ext(g, raw)) = XtExpr(p, Ext(g, NoPayload))
  BY <1>4
<1>7. Tells(st, p, XtExpr(p, Ext(g, NoPayload)))
  <2>1. CASE name = "icmp"
    <3>1. XtExpr(p, Ext(g, NoPayload)) = XtMatches(FALSE) /\ Says(st, p) = "no"
      BY <1>4, <2>1
    <3> QED
      BY <3>1 DEF Tells
  <2>2. CASE name # "icmp"
    <3>1. XtExpr(p, Ext(g, NoPayload)) = XtUnresolved /\ Says(st, p) = "unknown"
      BY <1>4, <2>2
    <3> QED
      BY <3>1 DEF Tells
  <2> QED
    BY <2>1, <2>2
<1>5. Compile(st) = <<g>>
  BY DEF g
<1> QED
  BY <1>1, <1>5, <1>6, <1>7, XtAdvances

LEMMA UnreadStatement ==
    ASSUME NEW st, st.s \in {"opaque", "socket", "xt-icmp"}, NEW p, NEW mm, NEW o, NEW r, NEW i,
           Reading(st, p, o, mm, r, i)
    PROVE  Advances(st, p, o, mm, Exec(p, r, Sets, i, mm))
<1>1. CASE st.s = "opaque"
  <2>1. Compile(st) = <<Match("geoip", 0, Bytes(8))>> /\ Says(st, p) = "unknown"
    BY <1>1 DEF Compile, Says
  <2> QED
    BY <2>1, UnreadMatch
<1>2. CASE st.s = "socket"
  <2>1. Compile(st) = <<Match("socket", 0, NoPayload)>> /\ Says(st, p) = "unknown"
    BY <1>2 DEF Compile, Says
  <2> QED
    BY <2>1, UnreadMatch
<1>3. CASE st.s = "xt-icmp"
  <2>1. Compile(st) = <<Match("icmp", 0, Bytes(4))>> /\ Says(st, p) = "no"
    BY <1>3 DEF Compile, Says
  <2> QED
    BY <2>1, UnreadMatch
<1> QED
  BY <1>1, <1>2, <1>3

LEMMA RecentStatement ==
    ASSUME NEW st \in Statement, st.s = "recent", NEW p, NEW mm, NEW o, NEW r, NEW i,
           Reading(st, p, o, mm, r, i)
    PROVE  Advances(st, p, o, mm, Exec(p, r, Sets, i, mm))
<1> DEFINE info == [type |-> "bytes", len |-> 232, checkSet |-> st.check, invert |-> st.invert]
           g == Match("recent", st.rev, info)
           read == DecodeInfo("recent", st.rev, info)
           known == st.rev = 1 /\ st.check \in {1, 2, 4, 8}
<1>1. Compile(st) = <<g>>
  BY DEF Compile
<1>2. st.rev \in {0, 1} /\ st.check \in Nat /\ st.invert \in BOOLEAN
  BY Operands
<1>3. IsXt(g) /\ \A raw : /\ Ext(g, raw).kind = "match" /\ Ext(g, raw).name = "recent"
                          /\ Ext(g, raw).decoded = read.decoded /\ Ext(g, raw).arg = read.arg
  BY ExtIs
<1>4. /\ info.type = "bytes" /\ info.len = 232 /\ info.checkSet = st.check /\ info.invert = st.invert
  OBVIOUS
<1> HIDE DEF info, g
<1>5. read = RecentOf("recent", st.rev, info)
  BY <1>4 DEF DecodeInfo
<1>6. read = IF known THEN Decodes(TRUE, [mode |-> RecentModes[st.check], invert |-> st.invert]) ELSE Undecoded
  <2>1. DOMAIN RecentModes = {1, 2, 4, 8}
    BY TablesAre
  <2>2. read = IF st.rev = 1 /\ st.check \in {1, 2, 4, 8}
               THEN Decodes(TRUE, [mode |-> RecentModes[st.check], invert |-> st.invert]) ELSE Undecoded
    BY <1>4, <1>5, <2>1, Zenon DEF RecentOf
  <2> QED
    BY <2>2
<1> HIDE DEF read
<1>7. \A raw : XtExpr(p, Ext(g, raw)) = XtMatch(p, Ext(g, raw))
  BY <1>3 DEF XtExpr
<1>8. Says(st, p) = IF known THEN (IF (st.check = 2) # st.invert THEN "yes" ELSE "no") ELSE "unknown"
  BY DEF Says, YesNo
<1>9. CASE ~known
  <2>1. ~read.decoded
    BY <1>6, <1>9 DEF Undecoded, Decodes
  <2>2. \A raw : XtMatch(p, Ext(g, raw)) = XtUnresolved
    BY <1>3, <2>1 DEF XtMatch
  <2>3. Says(st, p) = "unknown"
    BY <1>8, <1>9
  <2>4. Tells(st, p, XtExpr(p, Ext(g, NoPayload)))
    BY <1>7, <2>2, <2>3 DEF Tells
  <2> QED
    BY <1>1, <1>3, <1>7, <2>2, <2>4, XtAdvances
<1>10. CASE known
  <2>1. read.decoded /\ read.arg.mode = RecentModes[st.check] /\ read.arg.invert = st.invert
    BY <1>6, <1>10 DEF Decodes
  <2>2. /\ RecentModes[st.check] \in {"set", "check", "rcheck", "update", "remove"}
        /\ RecentModes[st.check] = "set" <=> st.check = 2
    BY <1>10, TablesAre
  <2> DEFINE hit == (st.check = 2) # st.invert
  <2>3. \A raw : XtMatch(p, Ext(g, raw)) = XtMatches((RecentModes[st.check] = "set") # st.invert)
    BY <1>3, <2>1, <2>2 DEF XtMatch
  <2>4. ((RecentModes[st.check] = "set") # st.invert) = hit /\ hit \in BOOLEAN
    BY <1>2, <2>2
  <2>5. Says(st, p) = IF hit THEN "yes" ELSE "no"
    BY <1>8, <1>10
  <2> HIDE DEF hit
  <2>6. \A raw : XtMatch(p, Ext(g, raw)) = XtMatches(hit)
    BY <2>3, <2>4
  <2>7. Tells(st, p, XtExpr(p, Ext(g, NoPayload)))
    <3>1. hit = TRUE \/ hit = FALSE
      BY <2>4
    <3> QED
      BY <1>7, <2>5, <2>6, <3>1 DEF Tells
  <2> QED
    BY <1>1, <1>3, <1>7, <2>6, <2>7, XtAdvances
<1> QED
  BY <1>9, <1>10

\* The names of a word of flags.
LEMMA NamesAre ==
    ASSUME NEW mask
    PROVE  /\ "new" \in NamesOf(CtStateNames, mask) <=> 8 \in mask
           /\ NamesOf(AddrTypeNames, mask) \subseteq KnownAddrTypes
           /\ "unicast" \in NamesOf(AddrTypeNames, mask) <=> 2 \in mask
           /\ "local" \in NamesOf(AddrTypeNames, mask) <=> 4 \in mask
           /\ mask \subseteq DOMAIN AddrTypeNames => (NamesOf(AddrTypeNames, mask) = {} <=> mask = {})
<1>1. "new" \in NamesOf(CtStateNames, mask) <=> 8 \in mask
  <2>1. \A b \in DOMAIN CtStateNames : CtStateNames[b] = "new" => b = 8
    BY TablesAre
  <2>2. 8 \in DOMAIN CtStateNames /\ CtStateNames[8] = "new"
    BY TablesAre
  <2> QED
    BY <2>1, <2>2, Zenon DEF NamesOf
<1>2. \A b \in DOMAIN AddrTypeNames : AddrTypeNames[b] \in KnownAddrTypes
  BY TablesAre DEF KnownAddrTypes
<1>3. NamesOf(AddrTypeNames, mask) \subseteq KnownAddrTypes
  BY <1>2, Zenon DEF NamesOf
<1>4. "unicast" \in NamesOf(AddrTypeNames, mask) <=> 2 \in mask
  <2>1. \A b \in DOMAIN AddrTypeNames : AddrTypeNames[b] = "unicast" => b = 2
    BY TablesAre
  <2>2. 2 \in DOMAIN AddrTypeNames /\ AddrTypeNames[2] = "unicast"
    BY TablesAre
  <2> QED
    BY <2>1, <2>2, Zenon DEF NamesOf
<1>5. "local" \in NamesOf(AddrTypeNames, mask) <=> 4 \in mask
  <2>1. \A b \in DOMAIN AddrTypeNames : AddrTypeNames[b] = "local" => b = 4
    BY TablesAre
  <2>2. 4 \in DOMAIN AddrTypeNames /\ AddrTypeNames[4] = "local"
    BY TablesAre
  <2> QED
    BY <2>1, <2>2, Zenon DEF NamesOf
<1>6. mask \subseteq DOMAIN AddrTypeNames => (NamesOf(AddrTypeNames, mask) = {} <=> mask = {})
  BY Zenon DEF NamesOf
<1> QED
  BY <1>1, <1>3, <1>4, <1>5, <1>6

\* A match that is read when all of its payload is, and tells what was meant.
LEMMA ReadMatch ==
    ASSUME NEW st, NEW p, NEW name, NEW rev, NEW info, NEW mm, NEW o, NEW r, NEW i,
           Reading(st, p, o, mm, r, i), Compile(st) = <<Match(name, rev, info)>>,
           NEW hit \in BOOLEAN, NEW known \in BOOLEAN,
           \A e : /\ e.name = name /\ e.decoded = DecodeInfo(name, rev, info).decoded
                  /\ e.arg = DecodeInfo(name, rev, info).arg
                  => XtMatch(p, e) = IF known THEN XtMatches(hit) ELSE XtUnresolved,
           Says(st, p) = IF known THEN (IF hit THEN "yes" ELSE "no") ELSE "unknown"
    PROVE  Advances(st, p, o, mm, Exec(p, r, Sets, i, mm))
<1> DEFINE g == Match(name, rev, info)
<1>1. /\ IsXt(g)
      /\ \A raw : /\ Ext(g, raw).kind = "match" /\ Ext(g, raw).name = name
                  /\ Ext(g, raw).decoded = DecodeInfo(name, rev, info).decoded
                  /\ Ext(g, raw).arg = DecodeInfo(name, rev, info).arg
  BY ExtIs
<1>2. Compile(st) = <<g>>
  OBVIOUS
<1> HIDE DEF g
<1>3. \A raw : XtExpr(p, Ext(g, raw)) = XtMatch(p, Ext(g, raw))
  BY <1>1 DEF XtExpr
<1>4. \A raw : XtExpr(p, Ext(g, raw)) = IF known THEN XtMatches(hit) ELSE XtUnresolved
  BY <1>1, <1>3
<1>5. \A raw : XtExpr(p, Ext(g, raw)) = XtExpr(p, Ext(g, NoPayload))
  BY <1>4
<1>6. Tells(st, p, XtExpr(p, Ext(g, NoPayload)))
  <2>1. CASE ~known
    <3>1. XtExpr(p, Ext(g, NoPayload)) = XtUnresolved /\ Says(st, p) = "unknown"
      BY <1>4, <2>1
    <3> QED
      BY <3>1 DEF Tells
  <2>2. CASE known /\ hit
    <3>1. XtExpr(p, Ext(g, NoPayload)) = XtMatches(TRUE) /\ Says(st, p) = "yes"
      BY <1>4, <2>2
    <3> QED
      BY <3>1 DEF Tells
  <2>3. CASE known /\ ~hit
    <3>1. XtExpr(p, Ext(g, NoPayload)) = XtMatches(FALSE) /\ Says(st, p) = "no"
      BY <1>4, <2>3
    <3> QED
      BY <3>1 DEF Tells
  <2> QED
    BY <2>1, <2>2, <2>3
<1> QED
  BY <1>1, <1>2, <1>5, <1>6, XtAdvances

LEMMA XtStateStatement ==
    ASSUME NEW st \in Statement, st.s = "xt-state", NEW p \in Packet, NEW mm, NEW o, NEW r, NEW i,
           Reading(st, p, o, mm, r, i)
    PROVE  Advances(st, p, o, mm, Exec(p, r, Sets, i, mm))
<1> DEFINE info == [type |-> "conntrack", match |-> {StateFlag} \union st.others,
                    invert |-> IF st.invert THEN {StateFlag} ELSE {}, states |-> st.states]
           read == DecodeInfo("conntrack", 3, info)
           known == st.others \subseteq {AliasFlag}
           hit == (8 \in st.states) # st.invert
<1>1. Compile(st) = <<Match("conntrack", 3, info)>>
  BY DEF Compile
<1>2. st.states \in SUBSET Nat /\ st.invert \in BOOLEAN /\ st.others \in SUBSET (Nat \ {StateFlag})
  BY Operands
<1>3. Says(st, p) = IF known THEN (IF hit THEN "yes" ELSE "no") ELSE "unknown"
  BY DEF Says, YesNo
<1>4. /\ info.type = "conntrack" /\ info.match = {StateFlag} \union st.others
      /\ info.invert = (IF st.invert THEN {StateFlag} ELSE {}) /\ info.states = st.states
  OBVIOUS
<1> HIDE DEF info
<1>5. read = ConntrackOf(info)
  BY <1>4 DEF DecodeInfo
<1>6. StateFlag \in info.match /\ (StateFlag \in info.invert <=> st.invert)
  BY <1>2, <1>4
<1>7. ConntrackKnown(info) <=> known
  BY <1>2, <1>4 DEF ConntrackKnown
<1>8. /\ read.decoded = ConntrackKnown(info)
      /\ read.arg.matchesState = (StateFlag \in info.match)
      /\ read.arg.states = IF StateFlag \in info.match THEN NamesOf(CtStateNames, info.states) ELSE {}
      /\ read.arg.invert = (StateFlag \in info.invert)
  BY <1>5 DEF ConntrackOf, Decodes
<1>9. /\ read.decoded <=> known
      /\ read.arg.matchesState
      /\ "new" \in read.arg.states <=> 8 \in st.states
      /\ read.arg.invert <=> st.invert
  <2>1. read.arg.states = NamesOf(CtStateNames, st.states)
    BY <1>4, <1>6, <1>8
  <2>2. read.decoded <=> known
    BY <1>7, <1>8, Zenon
  <2>3. read.arg.matchesState
    BY <1>6, <1>8, Zenon
  <2>4. read.arg.invert <=> st.invert
    BY <1>6, <1>8, Zenon
  <2> QED
    BY <2>1, <2>2, <2>3, <2>4, NamesAre
<1>10. p.ctState = "new"
  BY PacketIs
<1> HIDE DEF read
<1>11. ASSUME NEW e, e.name = "conntrack", e.decoded = read.decoded, e.arg = read.arg
       PROVE  XtMatch(p, e) = IF known THEN XtMatches(hit) ELSE XtUnresolved
  <2>1. CASE known
    <3>1. XtMatch(p, e) = XtMatches(("new" \in read.arg.states) # read.arg.invert)
      BY <1>9, <1>10, <1>11, <2>1 DEF XtMatch
    <3>2. (("new" \in read.arg.states) # read.arg.invert) = hit
      <4>1. read.arg.invert = (StateFlag \in info.invert)
        BY <1>8, Zenon
      <4>2. (StateFlag \in info.invert) \in BOOLEAN
        OBVIOUS
      <4>3. read.arg.invert = st.invert
        <5>1. read.arg.invert \in BOOLEAN
          BY <4>1, <4>2
        <5> QED
          BY <1>2, <1>9, <5>1
      <4>4. ("new" \in read.arg.states) = (8 \in st.states)
        <5>1. "new" \in read.arg.states <=> 8 \in st.states
          BY <1>9
        <5> QED
          BY <5>1, SMT
      <4> QED
        BY <4>3, <4>4
    <3> QED
      BY <2>1, <3>1, <3>2
  <2>2. CASE ~known
    BY <1>9, <1>11, <2>2 DEF XtMatch
  <2> QED
    BY <2>1, <2>2
<1>12. hit \in BOOLEAN /\ known \in BOOLEAN
  OBVIOUS
<1> HIDE DEF hit, known
<1> QED
  BY <1>1, <1>3, <1>11, <1>12, ReadMatch DEF read

\* The types of an address: of either revision, the same reading.
TypesInfo(st) ==
    IF st.rev = 0
    THEN [type |-> "addrtype", rev |-> 0, dst |-> st.dst, src |-> st.src,
          invertDst |-> st.invert, invertSrc |-> FALSE]
    ELSE [type |-> "addrtype", rev |-> st.rev, dst |-> st.dst, src |-> st.src,
          flags |-> (IF st.invert THEN {2} ELSE {}) \union st.limits]

TypesKnown(st) == st.limits = {} /\ st.dst \union st.src \subseteq DOMAIN AddrTypeNames

LEMMA TypesMatchIs ==
    ASSUME NEW st \in TypesMatch
    PROVE  /\ st.rev \in {0, 1} /\ st.invert \in BOOLEAN /\ st.limits \subseteq {4, 8}
           /\ st.dst \union st.src # {} /\ (st.rev = 0 => st.limits = {}) /\ st.s = "xt-types"
BY DEF TypesMatch

LEMMA TypesAreRead ==
    ASSUME NEW st \in TypesMatch, NEW read, read = AddrTypesOf(TypesInfo(st))
    PROVE  /\ read.decoded <=> TypesKnown(st)
           /\ read.arg.dst = NamesOf(AddrTypeNames, st.dst)
           /\ read.arg.src = NamesOf(AddrTypeNames, st.src)
           /\ read.arg.invertDst = st.invert /\ read.arg.invertSrc = FALSE
<1> DEFINE info == TypesInfo(st)
<1>1. /\ st.rev \in {0, 1} /\ st.invert \in BOOLEAN /\ st.limits \subseteq {4, 8}
      /\ st.dst \union st.src # {} /\ (st.rev = 0 => st.limits = {})
  BY TypesMatchIs
<1>2. info.dst = st.dst /\ info.src = st.src /\ info.rev = st.rev
  BY <1>1 DEF TypesInfo
<1>3. st.rev = 0 => info.invertDst = st.invert /\ info.invertSrc = FALSE
  BY DEF TypesInfo
<1>4. st.rev = 1 => info.flags = (IF st.invert THEN {2} ELSE {}) \union st.limits
  BY DEF TypesInfo
<1> HIDE DEF info
<1> DEFINE whole == /\ info.dst \union info.src \subseteq DOMAIN AddrTypeNames
                    /\ info.rev = 1 => {4, 8} \intersect info.flags = {}
<1>5. /\ read.decoded = whole
      /\ read.arg.dst = NamesOf(AddrTypeNames, info.dst)
      /\ read.arg.src = NamesOf(AddrTypeNames, info.src)
      /\ read.arg.invertDst = IF info.rev = 1 THEN 2 \in info.flags ELSE info.invertDst
      /\ read.arg.invertSrc = IF info.rev = 1 THEN 1 \in info.flags ELSE info.invertSrc
  BY DEF AddrTypesOf, Decodes, info
<1>6. CASE st.rev = 0
  <2>1. st.limits = {} /\ info.rev # 1
    BY <1>1, <1>2, <1>6
  <2>2. whole <=> TypesKnown(st)
    BY <1>2, <2>1 DEF TypesKnown
  <2>3. read.arg.invertDst = st.invert /\ read.arg.invertSrc = FALSE
    BY <1>3, <1>5, <1>6, <2>1
  <2> QED
    BY <1>2, <1>5, <2>2, <2>3, Zenon
<1>7. CASE st.rev = 1
  <2>1. {4, 8} \intersect info.flags = {} <=> st.limits = {}
    BY <1>1, <1>4, <1>7
  <2>2. whole <=> TypesKnown(st)
    BY <1>2, <1>7, <2>1 DEF TypesKnown
  <2>3. (2 \in info.flags <=> st.invert) /\ ~(1 \in info.flags)
    BY <1>1, <1>4, <1>7
  <2>4. read.arg.invertDst = (2 \in info.flags) /\ read.arg.invertSrc = (1 \in info.flags)
    BY <1>2, <1>5, <1>7
  <2>5. (2 \in info.flags) = st.invert
    BY <1>1, <2>3
  <2>6. (1 \in info.flags) = FALSE
    BY <2>3
  <2> QED
    BY <1>2, <1>5, <2>2, <2>4, <2>5, <2>6, Zenon
<1> QED
  BY <1>1, <1>6, <1>7

\* The names say of a packet what the flags do.
LEMMA TypesHoldAs ==
    ASSUME NEW st \in TypesMatch, TypesKnown(st), NEW p, NEW a,
           a.dst = NamesOf(AddrTypeNames, st.dst), a.src = NamesOf(AddrTypeNames, st.src),
           a.invertDst = st.invert, a.invertSrc = FALSE
    PROVE  /\ AddrTypeHolds(p, a) <=> TypesHold(st, p)
           /\ a.dst \union a.src # {} /\ a.dst \union a.src \subseteq KnownAddrTypes
<1> DEFINE D == NamesOf(AddrTypeNames, st.dst)
           C == NamesOf(AddrTypeNames, st.src)
<1>1. st.dst \subseteq DOMAIN AddrTypeNames /\ st.src \subseteq DOMAIN AddrTypeNames
  BY DEF TypesKnown
<1>2. /\ D = {} <=> st.dst = {}
      /\ C = {} <=> st.src = {}
      /\ "local" \in D <=> 4 \in st.dst
      /\ "unicast" \in D <=> 2 \in st.dst
      /\ "unicast" \in C <=> 2 \in st.src
      /\ D \subseteq KnownAddrTypes /\ C \subseteq KnownAddrTypes
  BY <1>1, NamesAre
<1>3. a.dst = D /\ a.src = C
  OBVIOUS
<1> HIDE DEF D, C
<1>4. st.dst \union st.src # {} /\ st.invert \in BOOLEAN
  BY TypesMatchIs
<1>5. (a.src # {} => ("unicast" \in a.src) # a.invertSrc) <=> (st.src # {} => 2 \in st.src)
  <2>1. a.src # {} <=> st.src # {}
    BY <1>2, <1>3
  <2>2. ("unicast" \in a.src) # a.invertSrc <=> "unicast" \in a.src
    <3>1. a.invertSrc = FALSE
      OBVIOUS
    <3>2. CASE "unicast" \in a.src
      BY <3>1, <3>2
    <3>3. CASE ~("unicast" \in a.src)
      <4>1. ("unicast" \in a.src) = FALSE
        BY <3>3, SMT
      <4> QED
        BY <3>1, <3>3, <4>1, Zenon
    <3> QED
      BY <3>2, <3>3, Zenon
  <2>3. "unicast" \in a.src <=> 2 \in st.src
    BY <1>2, <1>3
  <2> QED
    BY <2>1, <2>2, <2>3, Zenon
<1>6. ASSUME st.dst # {}
      PROVE  ((IF p.dstIsLocal THEN "local" ELSE "unicast") \in a.dst) # a.invertDst
             <=> ((IF p.dstIsLocal THEN 4 ELSE 2) \in st.dst) # st.invert
  <2>1. CASE p.dstIsLocal
    BY <1>2, <1>3, <1>4, <2>1
  <2>2. CASE ~p.dstIsLocal
    BY <1>2, <1>3, <1>4, <2>2
  <2> QED
    BY <2>1, <2>2
<1>7. a.dst # {} <=> st.dst # {}
  BY <1>2, <1>3
<1>8. AddrTypeHolds(p, a) <=> TypesHold(st, p)
  BY <1>5, <1>6, <1>7 DEF AddrTypeHolds, TypesHold
<1> QED
  BY <1>2, <1>3, <1>4, <1>8

LEMMA XtTypesStatement ==
    ASSUME NEW st \in Statement, st.s = "xt-types", NEW p \in Packet, NEW mm, NEW o, NEW r, NEW i,
           Reading(st, p, o, mm, r, i)
    PROVE  Advances(st, p, o, mm, Exec(p, r, Sets, i, mm))
<1> DEFINE info == TypesInfo(st)
           read == DecodeInfo("addrtype", st.rev, info)
           known == TypesKnown(st)
           hit == TypesHold(st, p)
<1>1. st \in TypesMatch
  BY Operands
<1>2. Compile(st) = <<Match("addrtype", st.rev, info)>>
  BY DEF Compile, TypesInfo
<1>3. info.type = "addrtype"
  BY DEF TypesInfo
<1>4. Says(st, p) = IF known THEN (IF hit THEN "yes" ELSE "no") ELSE "unknown"
  BY DEF Says, YesNo, TypesKnown
<1>5. read = AddrTypesOf(info)
  BY <1>3 DEF DecodeInfo
<1>6. /\ read.decoded <=> TypesKnown(st)
      /\ read.arg.dst = NamesOf(AddrTypeNames, st.dst)
      /\ read.arg.src = NamesOf(AddrTypeNames, st.src)
      /\ read.arg.invertDst = st.invert /\ read.arg.invertSrc = FALSE
  BY <1>1, <1>5, TypesAreRead
<1> HIDE DEF read, info
<1>7. ASSUME NEW e, e.name = "addrtype", e.decoded = read.decoded, e.arg = read.arg
      PROVE  XtMatch(p, e) = IF known THEN XtMatches(hit) ELSE XtUnresolved
  <2>1. CASE known
    <3>1. /\ AddrTypeHolds(p, e.arg) <=> TypesHold(st, p)
          /\ e.arg.dst \union e.arg.src # {} /\ e.arg.dst \union e.arg.src \subseteq KnownAddrTypes
      BY <1>1, <1>6, <1>7, <2>1, TypesHoldAs
    <3>2. XtMatch(p, e) = XtMatches(AddrTypeHolds(p, e.arg))
      BY <1>6, <1>7, <2>1, <3>1 DEF XtMatch
    <3>3. AddrTypeHolds(p, e.arg) = TypesHold(st, p)
      <4>1. AddrTypeHolds(p, e.arg) \in BOOLEAN /\ TypesHold(st, p) \in BOOLEAN
        BY DEF AddrTypeHolds, TypesHold
      <4> QED
        BY <3>1, <4>1
    <3> QED
      BY <2>1, <3>2, <3>3
  <2>2. CASE ~known
    BY <1>6, <1>7, <2>2 DEF XtMatch
  <2> QED
    BY <2>1, <2>2
<1>8. hit \in BOOLEAN /\ known \in BOOLEAN
  BY DEF TypesHold, TypesKnown
<1> HIDE DEF hit, known
<1> QED
  BY <1>2, <1>4, <1>7, <1>8, ReadMatch DEF read

(***************************************************************************)
(* Every statement                                                         *)
(***************************************************************************)
\* What is passed over: a limit is taken to hold, and a log does nothing.
LEMMA PassedStatement ==
    ASSUME NEW st, st.s \in {"limit", "log"}, NEW p, NEW mm, NEW o, NEW r, NEW i,
           Reading(st, p, o, mm, r, i)
    PROVE  Advances(st, p, o, mm, Exec(p, r, Sets, i, mm))
<1> DEFINE g == [k |-> st.s]
<1>1. Compile(st) = <<g>> /\ Says(st, p) = "yes"
  BY DEF Compile, Says
<1>2. ~IsXt(g) /\ ConvertExpr(g) = Other
  BY DEF IsXt, ConvertExpr
<1>3. ConvertExpr(g).k # "unknown"
  BY <1>2 DEF Other
<1> HIDE DEF g
<1>4. Len(Compile(st)) = 1 /\ o = 1 /\ Compile(st)[1] = g /\ Running(mm)
  BY <1>1 DEF Reading
<1>5. r[i] = Other
  BY <1>2, <1>3, <1>4, ConvertedStays DEF Reading
<1>6. Stops(Exec(p, r, Sets, i, mm), mm, Undecided)
  BY <1>4, <1>5, OtherPasses
<1> QED
  BY <1>1, <1>4, <1>6, StopsAdvance

LEMMA QuotaStatement ==
    ASSUME NEW st, st.s = "quota", NEW p, NEW mm, NEW o, NEW r, NEW i,
           Reading(st, p, o, mm, r, i)
    PROVE  Advances(st, p, o, mm, Exec(p, r, Sets, i, mm))
<1> DEFINE g == [k |-> st.s]
<1>1. Compile(st) = <<g>> /\ Says(st, p) = "unknown"
  BY DEF Compile, Says
<1>2. ~IsXt(g) /\ ConvertExpr(g) = Unknown
  BY DEF IsXt, ConvertExpr
<1> HIDE DEF g
<1>3. o = 1 /\ Compile(st)[1] = g /\ Running(mm)
  BY <1>1 DEF Reading
<1> QED
  BY <1>1, <1>2, <1>3, UnknownAdvances DEF Reading

\* A statement of any kind but the one the library drops.
StatementIsOf(st, p) ==
    /\ st \in Statement /\ st.s # "last"
    /\ p \in Packet
    /\ st.s = "prefix" => ShortAddresses(p)

LEMMA StatementKindsAre ==
    ASSUME NEW st \in Statement
    PROVE  \/ st.s \in PortKinds \/ st.s \in BitKinds \/ st \in Prefix
           \/ st.s \in {"proto", "iifname", "iif", "skuid-0", "mark", "ct-mark", "route-by"}
           \/ st.s \in {"set-ct-mark", "local", "no-route", "xt-state", "xt-types", "recent"}
           \/ st.s \in {"opaque", "socket", "xt-icmp", "limit", "log", "quota", "last"}
BY DEF Statement, Prefix, TypesMatch, PortKinds, BitKinds

\* MatchRule reads a rule one expression at a time (match.go:24-216): each
\* expression of a statement, as any build left it in a document, takes it one
\* expression further into the statement, or decides the statement as its
\* author meant it, whatever the packet.
THEOREM StatementsAdvance ==
    ASSUME NEW st, NEW p, StatementIsOf(st, p), NEW mm, NEW o, NEW r, NEW i,
           Reading(st, p, o, mm, r, i)
    PROVE  Advances(st, p, o, mm, Exec(p, r, Sets, i, mm))
<1>1. st \in Statement /\ st.s # "last" /\ p \in Packet /\ (st.s = "prefix" => ShortAddresses(p))
  BY DEF StatementIsOf
<1>2. CASE st.s \in PortKinds
  BY <1>1, <1>2, PortStatement, BetweenStatement, OutsideStatement, MaskedStatement, InSetStatement
     DEF PortKinds
<1>3. CASE st.s \in BitKinds
  BY <1>1, <1>3, CtStatement
<1>4. CASE st \in Prefix
  <2>1. st.s = "prefix"
    BY <1>4, InPrefixIs
  <2> QED
    BY <1>1, <1>4, <2>1, WholePrefixStatement, MaskedPrefixStatement
<1>5. CASE st.s \in {"proto", "iifname", "iif", "skuid-0", "mark", "ct-mark", "route-by"}
  BY <1>1, <1>5, ProtoStatement, IifnameStatement, IifStatement, SkuidStatement, MarkStatement,
     CtMarkStatement, RouteByStatement
<1>6. CASE st.s \in {"set-ct-mark", "local", "no-route", "xt-state", "xt-types", "recent"}
  BY <1>1, <1>6, SetCtMarkStatement, LocalStatement, NoRouteStatement, XtStateStatement,
     XtTypesStatement, RecentStatement
<1>7. CASE st.s \in {"opaque", "socket", "xt-icmp", "limit", "log", "quota", "last"}
  BY <1>1, <1>7, UnreadStatement, PassedStatement, QuotaStatement
<1> QED
  BY <1>1, <1>2, <1>3, <1>4, <1>5, <1>6, <1>7, StatementKindsAre

(***************************************************************************)
(* What a rule does                                                        *)
(***************************************************************************)
Rewriting(to, port) == Act("dnat", "", [ip |-> to, port |-> port])
Refusing            == Act("reject", "", NoDNAT)
Doing(kind)         == Act(kind, "", NoDNAT)
ActKinds            == VerdictKinds \union {"none", "reject", "dnat"}

\* What is written, and what is not followed.
Outcome(d, p) ==
    CASE d.d = "verdict" -> Act(d.kind, d.chain, NoDNAT)
      [] d.d = "reject"  -> Refusing
      [] d.d = "xt" /\ d.name = "REJECT"     -> Doing("drop")
      [] d.d = "xt" /\ d.name = "MASQUERADE" -> Doing("accept")
      [] d.d \in {"dnat", "xt-dnat"} -> Rewriting(d.to, IF d.port = 0 THEN p.dport ELSE d.port)
      [] OTHER -> Nothing
NotFollowed(d) ==
    d.d \in {"snat", "xt-dnat-0"} \/ (d.d = "xt" /\ d.name \notin {"LOG", "REJECT", "MASQUERADE"})
Portless(d) == d.d = "xt-dnat" /\ d.port = 0

LEMMA ActsAre ==
    /\ \A kind, chain, dnat : Act(kind, chain, dnat).kind = kind
    /\ Nothing.kind = "none" /\ Refusing.kind = "reject"
    /\ \A to, port : Rewriting(to, port).kind = "dnat"
    /\ \A kind : Doing(kind).kind = kind
<1>1. \A kind, chain, dnat : Act(kind, chain, dnat).kind = kind
  BY DEF Act
<1> QED
  BY <1>1, Zenon DEF Nothing, Refusing, Rewriting, Doing

\* What is before the j-th expression of what is done, and after the last.
Before(d, p, j, mm) ==
    IF j = Len(CompileDoes(d)) + 1
    THEN mm.act.kind \in ActKinds /\ ~NotFollowed(d) /\ (~Portless(d) => mm.act = Outcome(d, p))
    ELSE /\ mm.act = Nothing
         /\ d.d = "dnat" /\ j # 1 => 1 \in DOMAIN mm.regs /\ mm.regs[1] = d.to
         /\ d.d = "dnat" /\ j = 3 => 2 \in DOMAIN mm.regs /\ mm.regs[2] = PortBytes(d.port)

Does(d, p, j, n) ==
    /\ DOMAIN n = MachineFields /\ GoodRegs(n.regs) /\ n.act.kind \in ActKinds
    /\ \/ n.out = Undecided /\ Before(d, p, j + 1, n)
       \/ n.out \in {"Unknown", "Skipped"} /\ NotFollowed(d)

LEMMA DeedIs ==
    ASSUME NEW d \in Deed
    PROVE  /\ d.d \in {"none", "reject", "verdict", "dnat", "xt-dnat", "snat", "xt-dnat-0", "xt"}
           /\ d.d = "verdict" => d.kind \in VerdictKinds
           /\ d.d \in {"dnat", "xt-dnat", "snat", "xt-dnat-0"} => d.to \in Address
           /\ d.d \in {"dnat", "xt-dnat"} => d.port \in Port
BY DEF Deed

LEMMA AddressIs ==
    ASSUME NEW a \in Address
    PROVE  a \in Seq(Byte) /\ Len(a) \in {4, 16} /\ a # Undecodable
<1>1. a \in Seq(Byte) /\ Len(a) \in {4, 16}
  BY DEF Address
<1> QED
  BY <1>1, BytesAreRead

\* An action taken, an expression given up on.
LEMMA ActsOn ==
    ASSUME NEW mm, Running(mm), NEW a
    PROVE  LET n == [mm EXCEPT !.act = a]
           IN  DOMAIN n = MachineFields /\ n.out = Undecided /\ n.act = a /\ n.regs = mm.regs
                /\ GoodRegs(n.regs)
BY DEF Running, MachineFields

LEMMA LastIsDone ==
    ASSUME NEW d, NEW p, NEW j, j = Len(CompileDoes(d)), NEW mm, Running(mm), NEW a,
           a.kind \in ActKinds, ~NotFollowed(d), ~Portless(d) => a = Outcome(d, p)
    PROVE  Does(d, p, j, [mm EXCEPT !.act = a])
<1> DEFINE n == [mm EXCEPT !.act = a]
<1>1. DOMAIN n = MachineFields /\ n.out = Undecided /\ n.act = a /\ GoodRegs(n.regs)
  BY ActsOn
<1> HIDE DEF n
<1>2. Does(d, p, j, n)
  BY <1>1 DEF Does, Before
<1> QED
  BY <1>2 DEF n

LEMMA GivenUp ==
    ASSUME NEW d, NotFollowed(d), NEW p, NEW j, NEW mm, mm.act = Nothing, NEW n,
           Stops(n, mm, "Unknown") \/ Stops(n, mm, "Skipped")
    PROVE  Does(d, p, j, n)
<1>1. Nothing.kind \in ActKinds
  BY ActsAre DEF ActKinds
<1> QED
  BY <1>1 DEF Does, Stops

\* A verdict, and a rejection.
LEMMA VerdictDone ==
    ASSUME NEW d \in Deed, d.d \in {"verdict", "reject"}, NEW p, NEW mm, Running(mm), NEW j, NEW r, NEW i,
           j \in DOMAIN CompileDoes(d), AsReread(r[i], CompileDoes(d)[j])
    PROVE  Does(d, p, j, Exec(p, r, Sets, i, mm))
<1> DEFINE g == CompileDoes(d)[1]
           a == IF d.d = "verdict" THEN Act(d.kind, d.chain, NoDNAT) ELSE Refusing
<1>1. Len(CompileDoes(d)) = 1 /\ j = 1
  BY DEF CompileDoes
<1>2. d.d = "verdict" => d.kind \in VerdictKinds
  BY DeedIs
<1>3. ~IsXt(g) /\ ConvertExpr(g).k = "verdict"
  <2>1. CASE d.d = "verdict"
    <3>1. g = [k |-> "verdict", kind |-> d.kind, chain |-> d.chain]
      BY <2>1 DEF CompileDoes
    <3> QED
      BY <3>1 DEF IsXt, ConvertExpr
  <2>2. CASE d.d = "reject"
    <3>1. g.k = "reject"
      BY <2>2 DEF CompileDoes
    <3> HIDE DEF g
    <3>2. ~IsXt(g)
      BY <3>1 DEF IsXt
    <3>3. ConvertExpr(g) = [k |-> "verdict", kind |-> "reject", chain |-> NoName]
      BY <3>1, Zenon DEF ConvertExpr, NoName
    <3>4. ConvertExpr(g).k = "verdict"
      BY <3>3
    <3> QED
      BY <3>2, <3>4
  <2> QED
    BY <2>1, <2>2
<1>4. a = Act(ConvertExpr(g).kind, ConvertExpr(g).chain, NoDNAT)
  <2>1. CASE d.d = "verdict"
    <3>1. g = [k |-> "verdict", kind |-> d.kind, chain |-> d.chain]
      BY <2>1 DEF CompileDoes
    <3>2. ConvertExpr(g).kind = d.kind /\ ConvertExpr(g).chain = d.chain
      BY <1>2, <2>1, <3>1 DEF ConvertExpr, Named
    <3> QED
      BY <2>1, <3>2
  <2>2. CASE d.d = "reject"
    <3>1. g.k = "reject"
      BY <2>2 DEF CompileDoes
    <3> HIDE DEF g
    <3>2. ConvertExpr(g) = [k |-> "verdict", kind |-> "reject", chain |-> NoName]
      BY <3>1, Zenon DEF ConvertExpr, NoName
    <3>3. ConvertExpr(g).kind = "reject" /\ ConvertExpr(g).chain = NoName
      BY <3>2
    <3>4. Refusing = Act("reject", NoName, NoDNAT)
      BY Zenon DEF Refusing, NoName
    <3> QED
      BY <2>2, <3>3, <3>4
  <2> QED
    BY <2>1, <2>2
<1>5. a.kind \in ActKinds
  BY <1>2, ActsAre DEF ActKinds
<1>6. a = Outcome(d, p)
  BY DEF Outcome
<1> HIDE DEF g, a
<1>7. r[i] = ConvertExpr(g)
  BY <1>1, <1>3, ConvertedStays DEF g
<1>8. Exec(p, r, Sets, i, mm) = [mm EXCEPT !.act = a]
  BY <1>3, <1>4, <1>7 DEF Exec
<1>9. j = Len(CompileDoes(d))
  BY <1>1
<1>10. ~NotFollowed(d)
  BY DEF NotFollowed
<1>11. Does(d, p, j, [mm EXCEPT !.act = a])
  BY <1>5, <1>6, <1>9, <1>10, LastIsDone
<1> QED
  BY <1>8, <1>11

\* A rewrite of the native kind: its address, perhaps its port, and the rewrite.
ImmediateOf(x, v) == [k |-> "immediate", reg |-> x, data |-> v]
RewriteOf(type, q) == [k |-> "nat", type |-> type, addr |-> 1, proto |-> q]

LEMMA ImmediateFills ==
    ASSUME NEW mm, Running(mm), NEW p, NEW r, NEW i, NEW x \in {1, 2}, NEW v \in Seq(Byte),
           r[i] = ImmediateOf(x, v)
    PROVE  LET n == Exec(p, r, Sets, i, mm)
           IN  /\ Stops(n, mm, Undecided)
               /\ x \in DOMAIN n.regs /\ n.regs[x] = v
               /\ \A y \in DOMAIN mm.regs : y # x => y \in DOMAIN n.regs /\ n.regs[y] = mm.regs[y]
<1>1. v # Undecodable
  BY BytesAreRead
<1>2. r[i].k = "immediate" /\ r[i].reg = x /\ r[i].data = v
  BY DEF ImmediateOf
<1>3. Exec(p, r, Sets, i, mm) = [mm EXCEPT !.regs = Filling(mm.regs, x, v)]
  BY <1>1, <1>2 DEF Exec, Loads
<1>4. /\ GoodRegs(Filling(mm.regs, x, v))
      /\ DOMAIN Filling(mm.regs, x, v) = DOMAIN mm.regs \union {x}
      /\ Filling(mm.regs, x, v)[x] = v
      /\ \A y \in DOMAIN mm.regs : y # x => Filling(mm.regs, x, v)[y] = mm.regs[y]
  <2>1. GoodRegs(mm.regs)
    BY DEF Running
  <2>2. Filled(mm.regs, x, v, Filling(mm.regs, x, v))
    BY <2>1, FillingIs, Zenon
  <2> QED
    BY <2>2 DEF Filled
<1> DEFINE f == Filling(mm.regs, x, v)
           n == [mm EXCEPT !.regs = f]
<1> HIDE DEF f
<1>5. DOMAIN n = MachineFields /\ n.out = mm.out /\ n.act = mm.act /\ n.regs = f
  BY DEF Running, MachineFields
<1>6. Exec(p, r, Sets, i, mm) = n
  BY <1>3 DEF f
<1> HIDE DEF n
<1> QED
  BY <1>4, <1>5, <1>6 DEF Stops, Running, f

LEMMA RewriteActs ==
    ASSUME NEW mm, Running(mm), NEW p, NEW r, NEW i, NEW q \in {0, 2}, r[i] = RewriteOf("dnat", q),
           NEW to \in Address, 1 \in DOMAIN mm.regs, mm.regs[1] = to,
           NEW port, q = 0 => port = p.dport,
           q = 2 => port \in Port /\ 2 \in DOMAIN mm.regs /\ mm.regs[2] = PortBytes(port)
    PROVE  Exec(p, r, Sets, i, mm) = [mm EXCEPT !.act = Rewriting(to, port)]
<1>1. r[i].k = "nat" /\ r[i].type = "dnat" /\ r[i].addr = 1 /\ r[i].proto = q
  BY DEF RewriteOf
<1>2. Len(mm.regs[1]) \in {4, 16}
  BY AddressIs
<1>3. q = 2 => Len(mm.regs[2]) = 2 /\ PortOf(mm.regs[2]) = port
  BY PortBytesAre
<1>4. NatResolves(r[i], mm.regs)
  BY <1>1, <1>2, <1>3 DEF NatResolves
<1>5. (IF r[i].proto = 0 THEN p.dport ELSE PortOf(mm.regs[r[i].proto])) = port
  BY <1>1, <1>3
<1>6. NatAction(p, r[i], mm.regs)
      = Rewriting(mm.regs[r[i].addr], IF r[i].proto = 0 THEN p.dport ELSE PortOf(mm.regs[r[i].proto]))
  BY Zenon DEF NatAction, Rewriting
<1>7. NatAction(p, r[i], mm.regs) = Rewriting(to, port)
  BY <1>1, <1>5, <1>6
<1>8. Exec(p, r, Sets, i, mm) = ExecNAT(p, r[i], mm)
  BY <1>1 DEF Exec
<1> QED
  BY <1>4, <1>7, <1>8 DEF ExecNAT

LEMMA Joined ==
    ASSUME NEW a, NEW b, NEW c
    PROVE  <<a>> \o <<>> \o <<c>> = <<a, c>> /\ <<a>> \o <<b>> \o <<c>> = <<a, b, c>>
<1> DEFINE S == {a, b, c}
<1>1. <<a>> \in Seq(S) /\ <<b>> \in Seq(S) /\ <<c>> \in Seq(S) /\ <<>> \in Seq(S)
  OBVIOUS
<1>2. \A s \in Seq(S) : s \o <<>> = s
  OBVIOUS
<1>7. ASSUME NEW x \in S PROVE <<a>> \o <<x>> = <<a, x>>
  <2>1. <<x>> \in Seq(S) /\ <<a, x>> \in Seq(S) /\ Len(<<a, x>>) = 2
    OBVIOUS
  <2>2. <<a>> \o <<x>> \in Seq(S) /\ Len(<<a>> \o <<x>>) = 2
    BY <1>1, <2>1
  <2>3. \A k \in 1 .. 2 : (<<a>> \o <<x>>)[k] = <<a, x>>[k]
    BY <1>1, <2>1
  <2> QED
    BY <2>1, <2>2, <2>3, SameSeq
<1>3. <<a>> \o <<c>> = <<a, c>>
  BY <1>7
<1>4. <<a>> \o <<b>> = <<a, b>>
  BY <1>7
<1>5. <<a, b>> \in Seq(S) /\ Len(<<a, b>>) = 2
  OBVIOUS
<1>6. <<a, b>> \o <<c>> = <<a, b, c>>
  <2>1. <<a, b, c>> \in Seq(S) /\ Len(<<a, b, c>>) = 3
    OBVIOUS
  <2>2. <<a, b>> \o <<c>> \in Seq(S) /\ Len(<<a, b>> \o <<c>>) = 3
    BY <1>1, <1>5
  <2>3. \A k \in 1 .. 3 : (<<a, b>> \o <<c>>)[k] = <<a, b, c>>[k]
    BY <1>1, <1>5
  <2> QED
    BY <2>1, <2>2, <2>3, SameSeq
<1> QED
  BY <1>1, <1>2, <1>3, <1>4, <1>6

LEMMA RewriteShapes ==
    /\ \A q : ~IsXt(RewriteOf("dnat", q)) /\ Plain(RewriteOf("dnat", q))
    /\ \A q : ~IsXt(RewriteOf("snat", q)) /\ ConvertExpr(RewriteOf("snat", q)) = Unknown
    /\ \A x, v : Plain(ImmediateOf(x, v))
<1>1. \A type, q : /\ RewriteOf(type, q).k = "nat" /\ RewriteOf(type, q).type = type
  BY DEF RewriteOf
<1>2. \A type, q : ConvertExpr(RewriteOf(type, q)) = ConvertNAT(RewriteOf(type, q))
  <2>1. \A e : e.k = "nat" => ConvertExpr(e) = ConvertNAT(e)
    BY DEF ConvertExpr
  <2> QED
    BY <1>1, <2>1
<1>3. \A type, q : ~IsXt(RewriteOf(type, q))
  BY <1>1 DEF IsXt
<1>4. \A x, v : Plain(ImmediateOf(x, v))
  BY PlainShapes DEF ImmediateOf
<1> QED
  BY <1>1, <1>2, <1>3, <1>4 DEF ConvertNAT, Plain

LEMMA RewriteDone ==
    ASSUME NEW d \in Deed, d.d = "dnat", NEW p, NEW mm, Running(mm), NEW j, NEW r, NEW i,
           j \in DOMAIN CompileDoes(d), AsReread(r[i], CompileDoes(d)[j]), Before(d, p, j, mm)
    PROVE  Does(d, p, j, Exec(p, r, Sets, i, mm))
<1> DEFINE n == Exec(p, r, Sets, i, mm)
           q == IF d.port = 0 THEN 0 ELSE 2
           port == IF d.port = 0 THEN p.dport ELSE d.port
           last == IF d.port = 0 THEN 2 ELSE 3
<1>1. d.to \in Address /\ d.port \in Port /\ d.to \in Seq(Byte)
  BY DeedIs, AddressIs
<1>2. CompileDoes(d) = IF d.port = 0 THEN <<ImmediateOf(1, d.to), RewriteOf("dnat", 0)>>
                       ELSE <<ImmediateOf(1, d.to), ImmediateOf(2, PortBytes(d.port)), RewriteOf("dnat", 2)>>
  <2>1. CompileDoes(d) = <<ImmediateOf(1, d.to)>>
                         \o (IF d.port = 0 THEN <<>> ELSE <<ImmediateOf(2, PortBytes(d.port))>>)
                         \o <<RewriteOf("dnat", IF d.port = 0 THEN 0 ELSE 2)>>
    BY Zenon DEF CompileDoes, ImmediateOf, RewriteOf
  <2>2. CASE d.port = 0
    BY <2>1, <2>2, Joined
  <2>3. CASE d.port # 0
    BY <2>1, <2>3, Joined
  <2> QED
    BY <2>2, <2>3
<1>3. /\ Len(CompileDoes(d)) = last /\ j \in 1 .. last
      /\ CompileDoes(d)[1] = ImmediateOf(1, d.to)
      /\ CompileDoes(d)[last] = RewriteOf("dnat", q)
      /\ d.port # 0 => CompileDoes(d)[2] = ImmediateOf(2, PortBytes(d.port))
  BY <1>2
<1>4. \A k : Nothing.kind \in ActKinds /\ Rewriting(d.to, k).kind \in ActKinds
  BY ActsAre DEF ActKinds
<1>5. Outcome(d, p) = Rewriting(d.to, port)
  BY DEF Outcome
<1> HIDE DEF n, q, port
<1>6. CASE j = 1
  <2>1. r[i] = ImmediateOf(1, d.to)
    BY <1>3, <1>6, RewriteShapes, PlainStays
  <2>2. Stops(n, mm, Undecided) /\ 1 \in DOMAIN n.regs /\ n.regs[1] = d.to
    BY <1>1, <2>1, ImmediateFills DEF n
  <2>3. mm.act = Nothing
    BY <1>3, <1>6 DEF Before
  <2>4. Before(d, p, 2, n)
    BY <1>3, <2>2, <2>3 DEF Before, Stops
  <2>5. Does(d, p, j, n)
    BY <1>4, <1>6, <2>2, <2>3, <2>4 DEF Does, Stops
  <2> QED
    BY <2>5 DEF n
<1>7. CASE d.port # 0 /\ j = 2
  <2>1. r[i] = ImmediateOf(2, PortBytes(d.port))
    BY <1>3, <1>7, RewriteShapes, PlainStays
  <2>2. mm.act = Nothing /\ 1 \in DOMAIN mm.regs /\ mm.regs[1] = d.to
    BY <1>3, <1>7 DEF Before
  <2>3. PortBytes(d.port) \in Seq(Byte)
    BY <1>1, PortBytesAre
  <2>4. /\ Stops(n, mm, Undecided) /\ 2 \in DOMAIN n.regs /\ n.regs[2] = PortBytes(d.port)
        /\ \A y \in DOMAIN mm.regs : y # 2 => y \in DOMAIN n.regs /\ n.regs[y] = mm.regs[y]
    BY <2>1, <2>3, ImmediateFills DEF n
  <2>5. 1 \in DOMAIN n.regs /\ n.regs[1] = d.to
    BY <2>2, <2>4
  <2>6. Before(d, p, 3, n)
    BY <1>3, <1>7, <2>2, <2>4, <2>5 DEF Before, Stops
  <2>7. Does(d, p, j, n)
    BY <1>4, <1>7, <2>2, <2>4, <2>6 DEF Does, Stops
  <2> QED
    BY <2>7 DEF n
<1>8. CASE j = last
  <2>1. r[i] = RewriteOf("dnat", q)
    BY <1>3, <1>8, RewriteShapes, PlainStays
  <2>2. 1 \in DOMAIN mm.regs /\ mm.regs[1] = d.to
    BY <1>3, <1>8 DEF Before
  <2>3. q \in {0, 2} /\ (q = 0 => port = p.dport)
        /\ (q = 2 => port \in Port /\ 2 \in DOMAIN mm.regs /\ mm.regs[2] = PortBytes(port))
    BY <1>1, <1>3, <1>8 DEF Before, q, port
  <2>4. n = [mm EXCEPT !.act = Rewriting(d.to, port)]
    BY <1>1, <2>1, <2>2, <2>3, RewriteActs DEF n
  <2>5. j = Len(CompileDoes(d)) /\ Rewriting(d.to, port).kind \in ActKinds
    BY <1>3, <1>4, <1>8
  <2>6. ~NotFollowed(d)
    BY DEF NotFollowed
  <2>7. Does(d, p, j, [mm EXCEPT !.act = Rewriting(d.to, port)])
    BY <1>5, <2>5, <2>6, LastIsDone
  <2> QED
    BY <2>4, <2>7 DEF n
<1> QED
  BY <1>3, <1>6, <1>7, <1>8

\* A rewrite of the source: its register is filled, and no more is known.
LEMMA SourceRewriteDone ==
    ASSUME NEW d \in Deed, d.d = "snat", NEW p, NEW mm, Running(mm), NEW j, NEW r, NEW i,
           j \in DOMAIN CompileDoes(d), AsReread(r[i], CompileDoes(d)[j]), Before(d, p, j, mm)
    PROVE  Does(d, p, j, Exec(p, r, Sets, i, mm))
<1> DEFINE n == Exec(p, r, Sets, i, mm)
<1>1. d.to \in Address /\ d.to \in Seq(Byte)
  BY DeedIs, AddressIs
<1>2. CompileDoes(d) = <<ImmediateOf(1, d.to), RewriteOf("snat", 0)>>
  BY DEF CompileDoes, ImmediateOf, RewriteOf
<1>3. /\ Len(CompileDoes(d)) = 2 /\ j \in 1 .. 2
      /\ CompileDoes(d)[1] = ImmediateOf(1, d.to) /\ CompileDoes(d)[2] = RewriteOf("snat", 0)
  BY <1>2
<1>4. mm.act = Nothing /\ NotFollowed(d)
  BY <1>3 DEF Before, NotFollowed
<1>5. Nothing.kind \in ActKinds
  BY ActsAre DEF ActKinds
<1> HIDE DEF n
<1>6. CASE j = 1
  <2>1. r[i] = ImmediateOf(1, d.to)
    BY <1>3, <1>6, RewriteShapes, PlainStays
  <2>2. Stops(n, mm, Undecided)
    BY <1>1, <2>1, ImmediateFills DEF n
  <2>3. Before(d, p, 2, n)
    BY <1>3, <1>4, <2>2 DEF Before, Stops
  <2>4. Does(d, p, j, n)
    BY <1>4, <1>5, <1>6, <2>2, <2>3 DEF Does, Stops
  <2> QED
    BY <2>4 DEF n
<1>7. CASE j = 2
  <2>1. r[i] \in {Unknown, Bare("later")}
    BY <1>3, <1>7, RewriteShapes, UnknownStays
  <2>2. Stops(n, mm, "Unknown")
    BY <2>1, UnknownStops DEF n
  <2>3. Does(d, p, j, n)
    BY <1>4, <2>2, GivenUp
  <2> QED
    BY <2>3 DEF n
<1> QED
  BY <1>3, <1>6, <1>7

\* The targets of iptables: not followed, without effect, or an action.
Targets(d, p, name, rev, info, a) ==
    \A e : /\ e.name = name /\ e.decoded = DecodeInfo(name, rev, info).decoded
           /\ e.arg = DecodeInfo(name, rev, info).arg
           => \/ XtTarget(e) = XtUnresolved /\ NotFollowed(d)
              \/ XtTarget(e) = XtMatches(TRUE) /\ Outcome(d, p) = Nothing /\ ~NotFollowed(d)
              \/ XtTarget(e) = XtDoes(a) /\ (~Portless(d) => Outcome(d, p) = a) /\ ~NotFollowed(d)

LEMMA TargetDone ==
    ASSUME NEW d, NEW p, NEW name, NEW rev, NEW info, CompileDoes(d) = <<Target(name, rev, info)>>,
           NEW mm, Running(mm), NEW j, NEW r, NEW i,
           j \in DOMAIN CompileDoes(d), AsReread(r[i], CompileDoes(d)[j]), mm.act = Nothing,
           NEW a, a.kind \in ActKinds \ {"none"}, Targets(d, p, name, rev, info, a)
    PROVE  Does(d, p, j, Exec(p, r, Sets, i, mm))
<1> DEFINE g == Target(name, rev, info)
           n == Exec(p, r, Sets, i, mm)
           x == XtExpr(p, r[i])
<1>1. Len(CompileDoes(d)) = 1 /\ j = 1 /\ CompileDoes(d)[j] = g
  OBVIOUS
<1>2. IsXt(g) /\ g.k = "target" /\ g.name = name /\ g.rev = rev /\ g.info = info
  BY DEF IsXt, Target
<1> HIDE DEF g
<1>3. \E raw : r[i] = Ext(g, raw)
  BY <1>1, <1>2 DEF AsReread, AsCollected
<1>4. /\ r[i].k = "xt" /\ r[i].kind = "target" /\ r[i].name = name
      /\ r[i].decoded = DecodeInfo(name, rev, info).decoded
      /\ r[i].arg = DecodeInfo(name, rev, info).arg
  BY <1>2, <1>3 DEF Ext, Xt, ReadOf
<1>5. x = XtTarget(r[i])
  BY <1>4 DEF XtExpr
<1>6. \/ x = XtUnresolved /\ NotFollowed(d)
      \/ x = XtMatches(TRUE) /\ Outcome(d, p) = Nothing /\ ~NotFollowed(d)
      \/ x = XtDoes(a) /\ (~Portless(d) => Outcome(d, p) = a) /\ ~NotFollowed(d)
  BY <1>4, <1>5 DEF Targets
<1>7. n = ExecXt(p, r, i, mm)
  BY <1>4 DEF Exec
<1>8. Nothing.kind \in ActKinds
  BY ActsAre DEF ActKinds
<1>12. /\ x = XtUnresolved => n \in {Ends(mm, "Skipped"), Ends(mm, "Unknown")}
       /\ x = XtMatches(TRUE) => n = mm
  <2>1. r[i].k = "xt" /\ Running(mm)
    BY <1>4
  <2> HIDE DEF g
  <2>2. Told(XtExpr(p, r[i]), mm, Exec(p, r, Sets, i, mm))
    BY <2>1, XtTells, Zenon
  <2> QED
    BY <2>2 DEF Told
<1> HIDE DEF n
<1>9. CASE x = XtUnresolved /\ NotFollowed(d)
  <2>1. n \in {Ends(mm, "Skipped"), Ends(mm, "Unknown")}
    BY <1>9, <1>12
  <2>2. Stops(n, mm, "Unknown") \/ Stops(n, mm, "Skipped")
    BY <2>1, RunsOn
  <2>3. Does(d, p, j, n)
    BY <1>9, <2>2, GivenUp
  <2> QED
    BY <2>3 DEF n
<1>10. CASE x = XtMatches(TRUE) /\ Outcome(d, p) = Nothing /\ ~NotFollowed(d)
  <2>1. n = mm
    BY <1>10, <1>12
  <2>2. Before(d, p, j + 1, mm)
    BY <1>1, <1>8, <1>10 DEF Before
  <2>3. Does(d, p, j, mm)
    BY <1>8, <2>2 DEF Does, Running
  <2> QED
    BY <2>1, <2>3 DEF n
<1>11. CASE x = XtDoes(a) /\ (~Portless(d) => Outcome(d, p) = a) /\ ~NotFollowed(d)
  <2>1. x.ok /\ x.hit /\ x.act = a
    BY <1>11 DEF XtDoes
  <2> HIDE DEF x
  <2>2. n = [mm EXCEPT !.act = a]
    BY <1>7, <2>1 DEF ExecXt, x
  <2>3. Does(d, p, j, [mm EXCEPT !.act = a])
    BY <1>1, <1>11, LastIsDone
  <2> QED
    BY <2>2, <2>3 DEF n
<1> QED
  BY <1>6, <1>9, <1>10, <1>11

LEMMA RewriteTargetDone ==
    ASSUME NEW d \in Deed, d.d \in {"xt-dnat", "xt-dnat-0"}, NEW p, NEW mm, Running(mm), NEW j, NEW r, NEW i,
           j \in DOMAIN CompileDoes(d), AsReread(r[i], CompileDoes(d)[j]), Before(d, p, j, mm)
    PROVE  Does(d, p, j, Exec(p, r, Sets, i, mm))
<1>1. d.to \in Address /\ d.to # Undecodable /\ (d.d = "xt-dnat" => d.port \in Port)
  BY DeedIs, AddressIs
<1>2. CASE d.d = "xt-dnat"
  <2> DEFINE info == [type |-> "nat-range", minIP |-> d.to, minPort |-> d.port]
             a == Rewriting(d.to, d.port)
  <2>1. CompileDoes(d) = <<Target("DNAT", 2, info)>>
    BY <1>2 DEF CompileDoes
  <2>2. /\ DecodeInfo("DNAT", 2, info).decoded
        /\ DecodeInfo("DNAT", 2, info).arg.minIP = d.to
        /\ DecodeInfo("DNAT", 2, info).arg.minPort = d.port
    BY DEF DecodeInfo, Decodes
  <2>3. a.kind \in ActKinds \ {"none"}
    BY ActsAre DEF ActKinds
  <2>4. (~Portless(d) => Outcome(d, p) = a) /\ ~NotFollowed(d)
    BY <1>2 DEF Outcome, Portless, NotFollowed
  <2>5. \A to, port : Act("dnat", "", [ip |-> to, port |-> port]) = Rewriting(to, port)
    BY Zenon DEF Rewriting
  <2>6. mm.act = Nothing
    <3>1. Len(CompileDoes(d)) = 1 /\ j = 1
      BY <2>1
    <3> QED
      BY <3>1 DEF Before
  <2> HIDE DEF info, a
  <2>7. ASSUME NEW e, e.name = "DNAT", e.decoded = DecodeInfo("DNAT", 2, info).decoded,
               e.arg = DecodeInfo("DNAT", 2, info).arg
        PROVE  XtTarget(e) = XtDoes(a)
    <3>1. XtTarget(e) = XtDoes(Act("dnat", "", [ip |-> e.arg.minIP, port |-> e.arg.minPort]))
      <4>1. e.decoded /\ e.arg.minIP # Undecodable
        BY <1>1, <2>2, <2>7
      <4> QED
        BY <2>7, <4>1, Zenon DEF XtTarget
    <3>2. XtTarget(e) = XtDoes(Rewriting(e.arg.minIP, e.arg.minPort))
      BY <2>5, <3>1, Zenon
    <3> QED
      BY <2>2, <2>7, <3>2 DEF a
  <2>8. Targets(d, p, "DNAT", 2, info, a)
    BY <2>4, <2>7 DEF Targets
  <2> QED
    BY <2>1, <2>3, <2>6, <2>8, TargetDone
<1>3. CASE d.d = "xt-dnat-0"
  <2> DEFINE info == [type |-> "multi-range", minIP |-> d.to]
  <2>1. CompileDoes(d) = <<Target("DNAT", 0, info)>>
    BY <1>3 DEF CompileDoes
  <2>2. ~DecodeInfo("DNAT", 0, info).decoded
    BY DEF DecodeInfo, Decodes, Undecoded
  <2>3. NotFollowed(d)
    BY <1>3 DEF NotFollowed
  <2>4. mm.act = Nothing
    <3>1. Len(CompileDoes(d)) = 1 /\ j = 1
      BY <2>1
    <3> QED
      BY <3>1 DEF Before
  <2>5. Doing("drop").kind \in ActKinds \ {"none"}
    BY ActsAre DEF ActKinds, VerdictKinds
  <2> HIDE DEF info
  <2>6. ASSUME NEW e, e.name = "DNAT", e.decoded = DecodeInfo("DNAT", 0, info).decoded
        PROVE  XtTarget(e) = XtUnresolved
    BY <2>2, <2>6 DEF XtTarget
  <2>7. Targets(d, p, "DNAT", 0, info, Doing("drop"))
    BY <2>3, <2>6 DEF Targets
  <2> QED
    BY <2>1, <2>4, <2>5, <2>7, TargetDone
<1> QED
  BY <1>2, <1>3

LEMMA XtTargetDone ==
    ASSUME NEW d \in Deed, d.d = "xt", NEW p, NEW mm, Running(mm), NEW j, NEW r, NEW i,
           j \in DOMAIN CompileDoes(d), AsReread(r[i], CompileDoes(d)[j]), Before(d, p, j, mm)
    PROVE  Does(d, p, j, Exec(p, r, Sets, i, mm))
<1> DEFINE a == IF d.name = "REJECT" THEN Doing("drop") ELSE Doing("accept")
<1>1. CompileDoes(d) = <<Target(d.name, 0, Bytes(8))>>
  BY DEF CompileDoes
<1>2. ~DecodeInfo(d.name, 0, Bytes(8)).decoded
  <2>1. Bytes(8).type = "bytes"
    BY DEF Bytes
  <2>2. DecodeInfo(d.name, 0, Bytes(8)) = RecentOf(d.name, 0, Bytes(8))
    BY <2>1 DEF DecodeInfo
  <2>3. RecentOf(d.name, 0, Bytes(8)) = Undecoded
    BY DEF RecentOf
  <2> QED
    BY <2>2, <2>3 DEF Undecoded, Decodes
<1>3. mm.act = Nothing
  <2>1. Len(CompileDoes(d)) = 1 /\ j = 1
    BY <1>1
  <2> QED
    BY <2>1 DEF Before
<1>4. a.kind \in ActKinds \ {"none"}
  BY ActsAre DEF ActKinds, VerdictKinds
<1>6. \A kind : Act(kind, "", NoDNAT) = Doing(kind)
  BY Zenon DEF Doing
<1>7. /\ d.name = "REJECT" \/ d.name = "MASQUERADE" => Outcome(d, p) = a
      /\ d.name = "LOG" => Outcome(d, p) = Nothing
      /\ NotFollowed(d) <=> d.name \notin {"LOG", "REJECT", "MASQUERADE"}
  BY DEF Outcome, NotFollowed
<1> HIDE DEF a
<1>8. ASSUME NEW e, e.name = d.name, e.decoded = DecodeInfo(d.name, 0, Bytes(8)).decoded
      PROVE  \/ XtTarget(e) = XtUnresolved /\ NotFollowed(d)
             \/ XtTarget(e) = XtMatches(TRUE) /\ Outcome(d, p) = Nothing /\ ~NotFollowed(d)
             \/ XtTarget(e) = XtDoes(a) /\ (~Portless(d) => Outcome(d, p) = a) /\ ~NotFollowed(d)
  <2>1. CASE d.name = "REJECT"
    <3>1. XtTarget(e) = XtDoes(Act("drop", "", NoDNAT))
      <4>1. e.name = "REJECT" /\ e.name # "DNAT"
        BY <1>8, <2>1
      <4> QED
        BY <4>1, Zenon DEF XtTarget
    <3>2. a = Doing("drop")
      BY <2>1 DEF a
    <3>3. XtTarget(e) = XtDoes(a)
      <4>1. \A kind : XtDoes(Act(kind, "", NoDNAT)) = XtDoes(Doing(kind))
        BY <1>6, Zenon
      <4>2. XtTarget(e) = XtDoes(Doing("drop"))
        BY <3>1, <4>1, Zenon
      <4> QED
        BY <3>2, <4>2
    <3> QED
      BY <1>7, <2>1, <3>3
  <2>2. CASE d.name = "LOG"
    <3>1. XtTarget(e) = XtMatches(TRUE)
      BY <1>8, <2>2 DEF XtTarget
    <3> QED
      BY <1>7, <2>2, <3>1
  <2>3. CASE d.name = "MASQUERADE"
    <3>1. XtTarget(e) = XtDoes(Act("accept", "", NoDNAT))
      <4>1. e.name = "MASQUERADE" /\ e.name # "DNAT" /\ e.name # "REJECT" /\ e.name # "LOG"
        BY <1>8, <2>3
      <4> QED
        BY <4>1, Zenon DEF XtTarget
    <3>2. a = Doing("accept")
      BY <2>3 DEF a
    <3>3. XtTarget(e) = XtDoes(a)
      <4>1. \A kind : XtDoes(Act(kind, "", NoDNAT)) = XtDoes(Doing(kind))
        BY <1>6, Zenon
      <4>2. XtTarget(e) = XtDoes(Doing("accept"))
        BY <3>1, <4>1, Zenon
      <4> QED
        BY <3>2, <4>2
    <3> QED
      BY <1>7, <2>3, <3>3
  <2>4. CASE d.name \notin {"LOG", "REJECT", "MASQUERADE"}
    <3>1. XtTarget(e) = XtUnresolved
      BY <1>2, <1>8, <2>4 DEF XtTarget
    <3> QED
      BY <1>7, <2>4, <3>1
  <2> QED
    BY <2>1, <2>2, <2>3, <2>4
<1>9. Targets(d, p, d.name, 0, Bytes(8), a)
  BY <1>8 DEF Targets
<1> QED
  BY <1>1, <1>3, <1>4, <1>9, TargetDone

\* What a rule does once its statements hold (match.go:157-230, 512-545): each
\* expression of it takes MatchRule one expression further, does what is
\* written, or is one that it declares it does not follow.
THEOREM DeedsAreDone ==
    ASSUME NEW d \in Deed, NEW p, NEW mm, Running(mm), NEW j, NEW r, NEW i,
           j \in DOMAIN CompileDoes(d), AsReread(r[i], CompileDoes(d)[j]), Before(d, p, j, mm)
    PROVE  Does(d, p, j, Exec(p, r, Sets, i, mm))
<1>1. d.d \in {"none", "reject", "verdict", "dnat", "xt-dnat", "snat", "xt-dnat-0", "xt"}
  BY DeedIs
<1>2. d.d # "none"
  <2>1. d.d = "none" => CompileDoes(d) = <<>>
    BY DEF CompileDoes
  <2> QED
    BY <2>1
<1> QED
  BY <1>1, <1>2, VerdictDone, RewriteDone, SourceRewriteDone, RewriteTargetDone, XtTargetDone

\* Before anything of it is done.
LEMMA NothingDone ==
    ASSUME NEW d \in Deed, NEW p, NEW mm, mm.act = Nothing
    PROVE  Before(d, p, 1, mm)
<1>1. Nothing.kind \in ActKinds
  BY ActsAre DEF ActKinds
<1>2. Len(CompileDoes(d)) = 0 => d.d = "none"
  <2>1. d.d = "dnat" => Len(CompileDoes(d)) \in {2, 3}
    <3> DEFINE a == [k |-> "immediate", reg |-> 1, data |-> d.to]
               b == [k |-> "immediate", reg |-> 2, data |-> PortBytes(d.port)]
               c == [k |-> "nat", type |-> "dnat", addr |-> 1, proto |-> IF d.port = 0 THEN 0 ELSE 2]
    <3>1. d.d = "dnat" => CompileDoes(d) = <<a>> \o (IF d.port = 0 THEN <<>> ELSE <<b>>) \o <<c>>
      BY Zenon DEF CompileDoes
    <3> HIDE DEF a, b, c
    <3>2. (<<a>> \o <<>> \o <<c>> = <<a, c>>) /\ (<<a>> \o <<b>> \o <<c>> = <<a, b, c>>)
      BY Joined
    <3>3. d.d = "dnat" => CompileDoes(d) \in {<<a, c>>, <<a, b, c>>}
      BY <3>1, <3>2
    <3> QED
      BY <3>3
  <2>2. d.d \in {"reject", "verdict", "xt-dnat", "snat", "xt-dnat-0", "xt"} => Len(CompileDoes(d)) \in {1, 2}
    BY DEF CompileDoes
  <2> QED
    BY <2>1, <2>2, DeedIs
<1>3. d.d = "none" => Outcome(d, p) = Nothing /\ ~NotFollowed(d)
  BY DEF Outcome, NotFollowed
<1> QED
  BY <1>1, <1>2, <1>3 DEF Before
====
