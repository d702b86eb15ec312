---------------------------- MODULE ConfigProofs ----------------------------
(***************************************************************************)
(* Packets mean the same on both sides, and the server does what its file  *)
(* says, for messages, files and lists of any length.                      *)
(***************************************************************************)
EXTENDS Config, SequenceTheorems, WellFoundedInduction, TLAPS

Byte == 0..255
Word == {n \in Nat : n \div 16777216 < 256}

LEMMA Sizes ==
  /\ MaxAlloc \in Nat \ {0} /\ SizeT \in Nat /\ MaxAlloc + 16 < SizeT
  /\ Octet \subseteq Byte /\ MaxBody \in 0..MaxAlloc /\ Numbers \subseteq Word
BY SizesAssumption, SMT DEF Byte, Word

(* A uint32_t and its four bytes. *)
LEMMA WordInMemory ==
  ASSUME NEW n \in Word
  PROVE  InMemory(n) \in Seq(Byte) /\ Len(InMemory(n)) = 4 /\ Uint32(InMemory(n)) = n
<1> DEFINE a == n % 256
           b == (n \div 256) % 256
           c == (n \div 65536) % 256
           d == (n \div 16777216) % 256
<1>1. n \in Nat /\ n \div 16777216 < 256
  BY DEF Word
<1>2. a \in Byte /\ b \in Byte /\ c \in Byte /\ d \in Byte
  BY <1>1, SMT DEF Byte
<1>3. n = a + 256 * (b + 256 * (c + 256 * d))
  BY <1>1, SMT
<1>4. InMemory(n) = <<a, b, c, d>>
  BY DEF InMemory
<1> HIDE DEF a, b, c, d
<1>5. <<a, b, c, d>> \in Seq(Byte) /\ Len(<<a, b, c, d>>) = 4
  BY <1>2
<1>6. Uint32(<<a, b, c, d>>) = a + 256 * (b + 256 * (c + 256 * d))
  BY <1>2 DEF Uint32, Byte
<1> QED BY <1>3, <1>4, <1>5, <1>6, Zenon

LEMMA Digits ==
  ASSUME NEW x \in Byte, NEW y \in Byte, NEW z \in Byte, NEW q \in Nat
  PROVE  /\ (x + 256 * q) % 256 = x /\ (x + 256 * q) \div 256 = q
         /\ (x + 256 * (y + 256 * q)) \div 65536 = q
         /\ (x + 256 * (y + 256 * (z + 256 * q))) \div 16777216 = q
<1>1. (x + 256 * q) % 256 = x /\ (x + 256 * q) \div 256 = q
  BY SMT DEF Byte
<1>2. (x + 256 * (y + 256 * q)) \div 65536 = q
  BY SMT DEF Byte
<1>3. (x + 256 * (y + 256 * (z + 256 * q))) \div 16777216 = q
  BY SMT DEF Byte
<1> QED BY <1>1, <1>2, <1>3

LEMMA WordOfBytes ==
  ASSUME NEW b \in Seq(Byte), Len(b) = 4
  PROVE  Uint32(b) \in Word /\ InMemory(Uint32(b)) = b
<1> PICK w \in Byte, x \in Byte, y \in Byte, z \in Byte : b = <<w, x, y, z>>
  <2>1. \A i \in 1..4 : b[i] \in Byte
    BY ElementOfSeq
  <2>2. b = <<b[1], b[2], b[3], b[4]>>
    OBVIOUS
  <2>3. b[1] \in Byte /\ b[2] \in Byte /\ b[3] \in Byte /\ b[4] \in Byte
    BY <2>1
  <2> QED BY <2>2, <2>3, Zenon
<1> PICK n : n = w + 256 * (x + 256 * (y + 256 * z))
  OBVIOUS
<1>1. Uint32(b) = n
  BY DEF Uint32
<1>2. y + 256 * z \in Nat /\ x + 256 * (y + 256 * z) \in Nat /\ n \in Nat /\ z \in Nat
  BY SMT DEF Byte
<1>3. n % 256 = w /\ n \div 256 = x + 256 * (y + 256 * z)
  BY <1>2, Digits
<1>4. n \div 65536 = y + 256 * z
  BY <1>2, Digits
<1>5. n \div 16777216 = z
  BY <1>2, Digits
<1>6. (x + 256 * (y + 256 * z)) % 256 = x /\ (y + 256 * z) % 256 = y /\ z % 256 = z
  <2>1. (x + 256 * (y + 256 * z)) % 256 = x
    BY <1>2, Digits
  <2>2. (y + 256 * z) % 256 = y
    BY <1>2, Digits
  <2>3. z % 256 = z /\ z < 256
    BY SMT DEF Byte
  <2> QED BY <2>1, <2>2, <2>3
<1>7. n \in Word
  BY <1>2, <1>5, SMT DEF Word, Byte
<1>8. InMemory(n) = <<w, x, y, z>>
  BY <1>3, <1>4, <1>5, <1>6 DEF InMemory
<1> QED BY <1>1, <1>7, <1>8

(* A difference in size_t is right when it is not negative, and larger     *)
(* than any allocation when it is.                                         *)
LEMMA Mod ==
  ASSUME NEW x \in Int, NEW m \in Nat \ {0}
  PROVE  (x >= 0 /\ x < m => x % m = x) /\ (x < 0 /\ x >= -m => x % m = x + m)
<1>1. PICK q \in Int, r \in 0..(m - 1) : x = m * q + r /\ x % m = r
  BY SMT
<1>2. ASSUME NEW k \in Int PROVE k >= 1 => m * k >= m
  <2>1. ASSUME k >= 1 PROVE m * k >= m
    <3>1. PICK d \in Nat : k = d + 1
      <4>1. k - 1 \in Nat /\ k = (k - 1) + 1
        BY <2>1
      <4> QED BY <4>1
    <3>2. m * k = m * d + m /\ m * d \in Nat
      BY <3>1, SMT
    <3> QED BY <3>2, SMT
  <2> QED BY <2>1
<1>3. m * (-q) = -(m * q) /\ m * q \in Int /\ m * (-q - 1) = -(m * q) - m /\ m * (q + 1) = m * q + m
  BY SMT
<1>4. (q >= 1 => m * q >= m) /\ (-q >= 1 => m * (-q) >= m) /\ (-q - 1 >= 1 => m * (-q - 1) >= m)
      /\ (q + 1 >= 1 => q = -1 \/ m * (q + 1) >= m)
  BY <1>2, SMT
<1>5. PICK p \in Int : p = m * q
  BY <1>3
<1>6. x >= 0 /\ x < m => q = 0
  BY <1>1, <1>3, <1>4, <1>5, SMT
<1>7. x < 0 /\ x >= -m => q = -1
  <2> SUFFICES ASSUME x < 0, x >= -m PROVE q = -1
    OBVIOUS
  <2>1. ~(q >= 0)
    <3>1. q = 0 => p = 0
      BY <1>5, SMT
    <3> QED BY <1>1, <1>3, <1>4, <1>5, <3>1, SMT
  <2>2. ~(q < -1)
    BY <1>1, <1>3, <1>4, <1>5, SMT
  <2> QED BY <2>1, <2>2
<1>8. (q = 0 => m * q = 0) /\ (q = -1 => m * q = -m)
  BY SMT
<1> QED BY <1>1, <1>6, <1>7, <1>8, SMT

LEMMA MinusFits ==
  ASSUME NEW length \in Nat, NEW header \in 0..length, length - header <= MaxAlloc
  PROVE  Minus(length, header) = length - header /\ Allocates(Minus(length, header))
<1>1. SizeT \in Nat \ {0} /\ length - header \in Int /\ length - header >= 0 /\ length - header < SizeT
  BY Sizes
<1>2. (length - header) % SizeT = length - header
  BY <1>1, Mod
<1> QED BY <1>2 DEF Minus, Allocates

LEMMA MinusWraps ==
  ASSUME NEW length \in Nat, NEW header \in 0..16, length < header
  PROVE  ~Allocates(Minus(length, header))
<1>1. /\ SizeT \in Nat \ {0} /\ length - header \in Int
      /\ length - header < 0 /\ length - header >= -SizeT
  BY Sizes
<1>2. (length - header) % SizeT = length - header + SizeT
  BY <1>1, Mod
<1> QED BY <1>2, Sizes DEF Minus, Allocates

(* The bytes after the first k. *)
LEMMA FromProperties ==
  ASSUME NEW S, NEW b \in Seq(S), NEW k \in 0..Len(b)
  PROVE  /\ From(b, k) \in Seq(S) /\ Len(From(b, k)) = Len(b) - k
         /\ \A i \in 1..(Len(b) - k) : From(b, k)[i] = b[i + k]
  BY SubSeqProperties DEF From

----------------------------------------------------------------------------
(* Messages. *)

Bytes(b) == b \in Seq(Byte) /\ Len(b) <= MaxBody + 5

LEMMA TuplesAreBytes ==
  ASSUME NEW n \in Nat, NEW b \in [1..n -> Octet]
  PROVE  b \in Seq(Byte) /\ Len(b) = n
<1>1. b \in [1..n -> Byte]
  BY Sizes DEF Byte
<1> QED BY <1>1

LEMMA BodyBytes ==
  ASSUME NEW b \in Body
  PROVE  b \in Seq(Byte) /\ Len(b) \in 0..MaxBody
<1>1. PICK n \in 0..MaxBody : b \in [1..n -> Octet]
  BY DEF Body
<1> QED BY <1>1, TuplesAreBytes, Sizes

LEMMA IdBytes ==
  ASSUME NEW id \in StreamId
  PROVE  id \in Seq(Byte) /\ Len(id) = 4 /\ Uint32(id) \in Word
<1>1. id \in Seq(Byte) /\ Len(id) = 4
  BY TuplesAreBytes DEF StreamId
<1> QED BY <1>1, WordOfBytes

(* The bytes after the first k are those of b. *)
LEMMA FromIs ==
  ASSUME NEW m \in Seq(Byte), NEW b \in Seq(Byte), NEW k \in Nat, Len(m) = Len(b) + k,
         \A j \in 1..Len(b) : m[j + k] = b[j]
  PROVE  From(m, k) = b
<1>1. k \in 0..Len(m) /\ Len(m) - k = Len(b)
  OBVIOUS
<1>2. /\ From(m, k) \in Seq(Byte) /\ Len(From(m, k)) = Len(m) - k
      /\ \A i \in 1..(Len(m) - k) : From(m, k)[i] = m[i + k]
  BY <1>1, FromProperties
<1>3. \A i \in 1..Len(From(m, k)) : From(m, k)[i] = b[i]
  BY <1>1, <1>2
<1> QED BY <1>1, <1>2, <1>3, SeqEqual

(* z is made of the k bytes of x and then those of y. *)
Joins(z, x, k, y) ==
  /\ z \in Seq(Byte) /\ Len(z) = k + Len(y)
  /\ \A j \in 1..k : z[j] = x[j]
  /\ \A j \in 1..Len(y) : z[j + k] = y[j]

LEMMA Joined ==
  ASSUME NEW x \in Seq(Byte), NEW y \in Seq(Byte), NEW k \in Nat, Len(x) = k
  PROVE  Joins(x \o y, x, k, y)
<1>1. /\ x \o y \in Seq(Byte) /\ Len(x \o y) = Len(x) + Len(y)
      /\ \A i \in 1..(Len(x) + Len(y)) : (x \o y)[i] = IF i <= Len(x) THEN x[i] ELSE y[i - Len(x)]
  BY ConcatProperties
<1> PICK z : z = x \o y
  OBVIOUS
<1>2. PICK n \in Nat : n = Len(y)
  OBVIOUS
<1>3. /\ z \in Seq(Byte) /\ Len(z) = k + n
      /\ \A i \in 1..(k + n) : z[i] = IF i <= k THEN x[i] ELSE y[i - k]
  BY <1>1, <1>2
<1>4. ASSUME NEW j \in 1..k PROVE z[j] = x[j]
  <2>1. j \in 1..(k + n) /\ j <= k
    BY <1>2
  <2> QED BY <1>3, <2>1, Zenon
<1>5. ASSUME NEW j \in 1..n PROVE z[j + k] = y[j]
  <2>1. j + k \in 1..(k + n) /\ ~(j + k <= k) /\ (j + k) - k = j
    BY <1>2
  <2>2. z[j + k] = y[(j + k) - k]
    BY <1>3, <2>1, Zenon
  <2> QED BY <2>1, <2>2, Zenon
<1> QED BY <1>2, <1>3, <1>4, <1>5 DEF Joins

(* One byte, four and a body behind each other. *)
Wire(t, i, b) == <<t>> \o i \o b

IsWire(m, t, i, b) ==
  /\ m \in Seq(Byte) /\ Len(m) = Len(b) + 5 /\ m[1] = t
  /\ \A k \in 1..4 : m[k + 1] = i[k]
  /\ \A k \in 1..Len(b) : m[k + 5] = b[k]

LEMMA WireBytes ==
  ASSUME NEW t \in Byte, NEW i \in Seq(Byte), Len(i) = 4, NEW b \in Seq(Byte)
  PROVE  IsWire(Wire(t, i, b), t, i, b)
<1> PICK a : a = <<t>>
  OBVIOUS
<1>1. a \in Seq(Byte) /\ Len(a) = 1 /\ a[1] = t
  OBVIOUS
<1>2. Joins(a \o i, a, 1, i)
  BY <1>1, Joined
<1> PICK h : h = a \o i
  OBVIOUS
<1>3. /\ h \in Seq(Byte) /\ Len(h) = 5 /\ h[1] = t
      /\ \A j \in 1..4 : h[j + 1] = i[j]
  BY <1>1, <1>2 DEF Joins
<1>4. Joins(h \o b, h, 5, b)
  BY <1>3, Joined
<1>5. Wire(t, i, b) = h \o b
  BY Zenon DEF Wire
<1> PICK m : m = h \o b
  OBVIOUS
<1>6. Joins(m, h, 5, b)
  BY <1>4, Zenon
<1>7. \A j \in 1..4 : j + 1 \in 1..5
  OBVIOUS
<1>8. m[1] = t /\ \A k \in 1..4 : m[k + 1] = i[k]
  BY <1>3, <1>6, <1>7 DEF Joins
<1>9. IsWire(m, t, i, b)
  BY <1>6, <1>8 DEF Joins, IsWire
<1> QED BY <1>5, <1>9, Zenon

LEMMA WireApart ==
  ASSUME NEW m, NEW t, NEW i \in Seq(Byte), Len(i) = 4, NEW b \in Seq(Byte), IsWire(m, t, i, b)
  PROVE  SubSeq(m, 2, 5) = i /\ From(m, 5) = b
<1> USE DEF IsWire
<1>1. SubSeq(m, 2, 5) = i
  <2>1. SubSeq(m, 2, 5) \in Seq(Byte) /\ Len(SubSeq(m, 2, 5)) = 4
        /\ \A k \in 1..4 : SubSeq(m, 2, 5)[k] = m[k + 1]
    OBVIOUS
  <2> QED BY <2>1, SeqEqual
<1>2. From(m, 5) = b
  BY FromIs
<1> QED BY <1>1, <1>2

(* Every message of five bytes or more is put together that way. *)
LEMMA MessageIsWire ==
  ASSUME NEW m \in Seq(Byte), Len(m) >= 5
  PROVE  /\ m[1] \in Byte /\ SubSeq(m, 2, 5) \in Seq(Byte) /\ Len(SubSeq(m, 2, 5)) = 4
         /\ From(m, 5) \in Seq(Byte) /\ Len(From(m, 5)) = Len(m) - 5
         /\ m = Wire(m[1], SubSeq(m, 2, 5), From(m, 5))
<1>1. m[1] \in Byte
  BY ElementOfSeq
<1>2. /\ SubSeq(m, 2, 5) \in Seq(Byte) /\ Len(SubSeq(m, 2, 5)) = 4
      /\ \A k \in 1..4 : SubSeq(m, 2, 5)[k] = m[k + 1]
  OBVIOUS
<1>3. /\ From(m, 5) \in Seq(Byte) /\ Len(From(m, 5)) = Len(m) - 5
      /\ \A k \in 1..(Len(m) - 5) : From(m, 5)[k] = m[k + 5]
  <2>1. 5 \in 0..Len(m)
    OBVIOUS
  <2> QED BY <2>1, FromProperties, Zenon
<1> PICK t, i, b : t = m[1] /\ i = SubSeq(m, 2, 5) /\ b = From(m, 5)
  OBVIOUS
<1>4. /\ t \in Byte /\ i \in Seq(Byte) /\ Len(i) = 4 /\ b \in Seq(Byte) /\ Len(b) = Len(m) - 5
      /\ \A k \in 1..4 : i[k] = m[k + 1]
      /\ \A k \in 1..Len(b) : b[k] = m[k + 5]
  BY <1>1, <1>2, <1>3
<1>5. IsWire(Wire(t, i, b), t, i, b)
  BY <1>4, WireBytes
<1> PICK w : w = Wire(t, i, b)
  OBVIOUS
<1>w. IsWire(w, t, i, b)
  BY <1>5, Zenon
<1>6. w \in Seq(Byte) /\ Len(w) = Len(m)
  BY <1>4, <1>w DEF IsWire
<1>7. ASSUME NEW k \in 1..Len(m) PROVE w[k] = m[k]
  <2>1. CASE k = 1
    BY <1>w, <2>1, Zenon DEF IsWire
  <2>2. CASE k \in 2..5
    <3>1. k - 1 \in 1..4 /\ (k - 1) + 1 = k
      BY <2>2
    <3>2. w[(k - 1) + 1] = i[k - 1] /\ i[k - 1] = m[(k - 1) + 1]
      BY <1>4, <1>w, <3>1, Zenon DEF IsWire
    <3> QED BY <3>1, <3>2, Zenon
  <2>3. CASE ~(k = 1) /\ ~(k \in 2..5)
    <3>1. k - 5 \in 1..Len(b) /\ (k - 5) + 5 = k
      BY <1>4, <2>3
    <3>2. w[(k - 5) + 5] = b[k - 5] /\ b[k - 5] = m[(k - 5) + 5]
      BY <1>4, <1>w, <3>1, Zenon DEF IsWire
    <3> QED BY <3>1, <3>2, Zenon
  <2> QED BY <2>1, <2>2, <2>3, Zenon
<1>8. m = w
  BY <1>6, <1>7, SeqEqual
<1> QED BY <1>1, <1>2, <1>3, <1>8, Zenon

LEMMA MessageBytes ==
  ASSUME NEW m \in Message \cup Connects
  PROVE  Bytes(m)
<1>1. ASSUME NEW t \in Byte, NEW id \in Seq(Byte), Len(id) = 4, NEW b \in Body, m = Wire(t, id, b)
      PROVE  Bytes(m)
  <2>1. b \in Seq(Byte) /\ Len(b) \in 0..MaxBody
    BY BodyBytes
  <2>2. m \in Seq(Byte) /\ Len(m) = Len(b) + 5
    BY <1>1, <2>1, WireBytes DEF IsWire
  <2> QED BY <2>1, <2>2, Sizes DEF Bytes
<1>2. CASE \E t \in 0..6, id \in StreamId, b \in Body : m = <<t>> \o id \o b
  <2>1. PICK t \in 0..6, id \in StreamId, b \in Body : m = Wire(t, id, b)
    BY <1>2, Zenon DEF Wire
  <2>2. t \in Byte
    BY DEF Byte
  <2> QED BY <1>1, <2>1, <2>2, IdBytes
<1>3. CASE \E b \in Body : m = <<PACKET_CONNECT, 0, 0, 0, 0>> \o b
  <2>1. PICK b \in Body : m = <<1, 0, 0, 0, 0>> \o b
    BY <1>3 DEF PACKET_CONNECT
  <2>2. <<1, 0, 0, 0, 0>> = <<1>> \o <<0, 0, 0, 0>> /\ <<0, 0, 0, 0>> \in Seq(Byte)
        /\ Len(<<0, 0, 0, 0>>) = 4 /\ 1 \in Byte
    BY DEF Byte
  <2>3. PICK id : id = <<0, 0, 0, 0>>
    OBVIOUS
  <2>4. m = Wire(1, id, b) /\ id \in Seq(Byte) /\ Len(id) = 4 /\ 1 \in Byte
    BY <2>1, <2>2, <2>3, Zenon DEF Wire
  <2> QED BY <1>1, <2>4, Zenon
<1>4. CASE \E n \in 0..4 : m \in [1..n -> Octet]
  <2>1. PICK n \in 0..4 : m \in [1..n -> Octet]
    BY <1>4
  <2>2. m \in Seq(Byte) /\ Len(m) = n
    BY <2>1, TuplesAreBytes
  <2> QED BY <2>2, Sizes DEF Bytes
<1>5. HeaderSize - 1 = 4
  BY DEF HeaderSize
<1>6. m \in Connects => \E b \in Body : m = <<PACKET_CONNECT, 0, 0, 0, 0>> \o b
  BY Zenon DEF Connects
<1>7. \/ m \in {<<r.type>> \o r.id \o r.body : r \in [type : 0..6, id : StreamId, body : Body]}
      \/ m \in UNION {[1..n -> Octet] : n \in 0..4}
      \/ m \in Connects
  <2>1. 0..(HeaderSize - 1) = 0..4
    BY <1>5, Zenon
  <2> QED BY <2>1, Zenon DEF Message
<1>8. m \in {<<r.type>> \o r.id \o r.body : r \in [type : 0..6, id : StreamId, body : Body]} =>
        \E t \in 0..6, id \in StreamId, b \in Body : m = <<t>> \o id \o b
  <2> SUFFICES ASSUME NEW r \in [type : 0..6, id : StreamId, body : Body],
                      m = <<r.type>> \o r.id \o r.body
               PROVE  \E t \in 0..6, id \in StreamId, b \in Body : m = <<t>> \o id \o b
    BY Zenon
  <2>1. r.type \in 0..6 /\ r.id \in StreamId /\ r.body \in Body
    OBVIOUS
  <2> QED BY <2>1, Zenon
<1>9. m \in UNION {[1..n -> Octet] : n \in 0..4} => \E n \in 0..4 : m \in [1..n -> Octet]
  BY Zenon
<1> QED BY <1>2, <1>3, <1>4, <1>6, <1>7, <1>8, <1>9, Zenon

----------------------------------------------------------------------------
(* Taking packets apart and putting them together. *)

LEMMA Parsed ==
  ASSUME NEW m, Bytes(m), Len(m) >= 5
  PROVE  /\ Minus(Len(m), HeaderSize) = Len(m) - 5
         /\ WispPacket(m) = Packet(m[1], Uint32(SubSeq(m, 2, 5)), From(m, 5))
         /\ Len(From(m, 5)) = Len(m) - 5 /\ From(m, 5) \in Seq(Byte) /\ From(m, 5) = From(m, HeaderSize)
<1>1. m \in Seq(Byte) /\ Len(m) \in Nat /\ Len(m) <= MaxBody + 5 /\ 5 \in 0..Len(m)
  BY DEF Bytes
<1>2. MaxBody \in Nat /\ MaxBody <= MaxAlloc
  BY Sizes
<1>3. Minus(Len(m), 5) = Len(m) - 5
  BY <1>1, <1>2, MinusFits, Sizes
<1>4. Len(From(m, 5)) = Len(m) - 5 /\ From(m, 5) \in Seq(Byte)
  BY <1>1, MessageIsWire
<1>5. HeaderSize = 5
  BY DEF HeaderSize
<1>6. WispPacket(m) = Packet(m[1], Uint32(SubSeq(m, 2, 5)), From(m, 5))
  BY <1>3, <1>4, <1>5, Zenon DEF WispPacket, Packet
<1> QED BY <1>3, <1>4, <1>5, <1>6, Zenon

LEMMA Reserialized ==
  ASSUME NEW m, Bytes(m), Len(m) >= 5
  PROVE  serialize(WispPacket(m)) = m
<1> PICK i, b : i = SubSeq(m, 2, 5) /\ b = From(m, 5)
  OBVIOUS
<1>1. /\ m[1] \in Byte /\ i \in Seq(Byte) /\ Len(i) = 4
      /\ b \in Seq(Byte) /\ m = Wire(m[1], i, b)
  BY MessageIsWire, Zenon DEF Bytes
<1>2. WispPacket(m) = Packet(m[1], Uint32(i), b)
  BY Parsed, Zenon
<1>3. InMemory(Uint32(i)) = i
  BY <1>1, WordOfBytes
<1>4. SubSeq(b, 1, Len(b)) = b
  BY <1>1, SubSeqFull
<1> PICK u : u = Uint32(i)
  OBVIOUS
<1>5. serialize(Packet(m[1], u, b)) = <<m[1]>> \o InMemory(u) \o SubSeq(b, 1, Len(b))
  BY Zenon DEF serialize, Packet
<1> QED BY <1>1, <1>2, <1>3, <1>4, <1>5, Zenon DEF Wire

(* What is sent is taken apart to what was meant. *)
LEMMA Decoded ==
  ASSUME NEW t \in Byte, NEW n \in Word, NEW b \in Seq(Byte), Len(b) <= MaxAlloc + 16
  PROVE  WispPacket(serialize(Packet(t, n, b))) = Packet(t, n, b)
<1> PICK i : i = InMemory(n)
  OBVIOUS
<1>1. i \in Seq(Byte) /\ Len(i) = 4 /\ Uint32(i) = n
  BY WordInMemory
<1>2. SubSeq(b, 1, Len(b)) = b
  BY SubSeqFull
<1> PICK m : m = Wire(t, i, b)
  OBVIOUS
<1>3. serialize(Packet(t, n, b)) = m
  <2>1. serialize(Packet(t, n, b)) = <<t>> \o InMemory(n) \o SubSeq(b, 1, Len(b))
    BY Zenon DEF serialize, Packet
  <2> QED BY <1>2, <2>1, Zenon DEF Wire
<1>4. IsWire(m, t, i, b)
  BY <1>1, WireBytes
<1>5. SubSeq(m, 2, 5) = i /\ From(m, 5) = b
  BY <1>1, <1>4, WireApart
<1>6. m[1] = t /\ Len(m) = Len(b) + 5 /\ Len(b) \in Nat
  BY <1>4 DEF IsWire
<1>7. Minus(Len(m), 5) = Len(b)
  <2>1. SizeT \in Nat \ {0} /\ Len(b) \in Int /\ Len(b) >= 0 /\ Len(b) < SizeT
    BY <1>6, Sizes
  <2>2. Len(b) % SizeT = Len(b)
    BY <2>1, Mod
  <2>3. Len(m) - 5 = Len(b)
    BY <1>6
  <2> QED BY <2>2, <2>3, Zenon DEF Minus
<1>8. HeaderSize = 5
  BY DEF HeaderSize
<1>9. WispPacket(m) = Packet(t, n, b)
  BY <1>1, <1>5, <1>6, <1>7, <1>8, Zenon DEF WispPacket, Packet
<1> QED BY <1>3, <1>9, Zenon

LEMMA InfoInverts ==
  ASSUME NEW d \in Seq(Byte), Len(d) >= 2, Len(d) <= MaxAlloc
  PROVE  /\ serializeInfo(InfoPacket(d)) = d
         /\ NewInfo(d[1], d[2], From(d, 2)) = InfoPacket(d)
<1> PICK b : b = From(d, 2)
  OBVIOUS
<1>1. 2 \in 0..Len(d) /\ Len(d) - 2 <= MaxAlloc /\ Len(d) \in Nat
  BY Sizes
<1>2. /\ b \in Seq(Byte) /\ Len(b) = Len(d) - 2
      /\ \A j \in 1..(Len(d) - 2) : b[j] = d[j + 2]
  BY <1>1, FromProperties, Zenon
<1>3. Minus(Len(d), 2) = Len(d) - 2
  BY <1>1, MinusFits
<1>4. NewInfo(d[1], d[2], From(d, 2)) = InfoPacket(d)
  BY <1>2, <1>3, Zenon DEF NewInfo, InfoPacket
<1> PICK x : x = <<d[1], d[2]>>
  OBVIOUS
<1>5. serializeInfo(InfoPacket(d)) = x \o b
  BY Zenon DEF serializeInfo, InfoPacket
<1>6. d[1] \in Byte /\ d[2] \in Byte
  <2>1. \A i \in 1..Len(d) : d[i] \in Byte
    BY ElementOfSeq
  <2> QED BY <1>1, <2>1
<1>7. x \in Seq(Byte) /\ Len(x) = 2 /\ x[1] = d[1] /\ x[2] = d[2]
  BY <1>6
<1>8. Joins(x \o b, x, 2, b)
  BY <1>2, <1>7, Joined
<1> PICK w : w = x \o b
  OBVIOUS
<1>9. Joins(w, x, 2, b)
  BY <1>8, Zenon
<1>10. w \in Seq(Byte) /\ Len(w) = Len(d)
  BY <1>1, <1>2, <1>9 DEF Joins
<1>11. ASSUME NEW k \in 1..Len(d) PROVE w[k] = d[k]
  <2>1. CASE k \in 1..2
    <3>1. w[k] = x[k] /\ (k = 1 \/ k = 2)
      BY <1>9, <2>1 DEF Joins
    <3> QED BY <1>7, <3>1, Zenon
  <2>2. CASE k \notin 1..2
    <3>1. k - 2 \in 1..(Len(d) - 2) /\ k - 2 \in 1..Len(b) /\ (k - 2) + 2 = k
      BY <1>1, <1>2, <2>2
    <3>2. w[(k - 2) + 2] = b[k - 2] /\ b[k - 2] = d[(k - 2) + 2]
      BY <1>2, <1>9, <3>1, Zenon DEF Joins
    <3> QED BY <3>1, <3>2, Zenon
  <2> QED BY <2>1, <2>2
<1>12. w = d
  BY <1>10, <1>11, SeqEqual
<1> QED BY <1>4, <1>5, <1>12, Zenon

----------------------------------------------------------------------------
(* The host name of a CONNECT. *)

LEMMA Least ==
  ASSUME NEW T \in SUBSET Nat, T # {}
  PROVE  \E x \in T : \A y \in T : x <= y
<1>1. PICK R : IsWellFoundedOn(R, Nat) /\ \A x, y \in Nat : y < x => <<y, x>> \in R
  <2>1. \A x, y \in Nat : y < x => <<y, x>> \in OpToRel(<, Nat)
    BY DEF OpToRel
  <2> QED BY <2>1, NatLessThanWellFounded, Zenon
<1>2. PICK x \in T : \A y \in T : ~(<<y, x>> \in R)
  BY <1>1, WFMin, Zenon
<1>3. ASSUME NEW y \in T PROVE x <= y
  <2>1. x \in Nat /\ y \in Nat
    OBVIOUS
  <2>2. ~(y < x)
    BY <1>1, <1>2, <2>1, Zenon
  <2> QED BY <2>1, <2>2
<1> QED BY <1>2, <1>3

(* z is where the string in b ends. *)
Ends(b, z) == z \in 1..Len(b) /\ b[z] = 0 /\ \A j \in 1..(z - 1) : b[j] # 0

LEMMA StringEnds ==
  ASSUME NEW b \in Seq(Byte), NEW k \in 1..Len(b), b[k] = 0
  PROVE  \E z \in 1..Len(b) : Ends(b, z)
<1> DEFINE T == {i \in 1..Len(b) : b[i] = 0}
<1>1. T \in SUBSET Nat /\ k \in T
  OBVIOUS
<1>2. PICK z \in T : \A y \in T : z <= y
  <2> HIDE DEF T
  <2> QED BY <1>1, Least
<1>3. z \in 1..Len(b) /\ b[z] = 0
  BY <1>2
<1>4. ASSUME NEW j \in 1..(z - 1), b[j] = 0 PROVE FALSE
  <2>1. j \in 1..Len(b) /\ ~(z <= j)
    BY <1>3
  <2> QED BY <1>2, <1>4, <2>1
<1> QED BY <1>3, <1>4 DEF Ends

LEMMA StringIs ==
  ASSUME NEW b \in Seq(Byte), NEW z, Ends(b, z)
  PROVE  CString(b) = SubSeq(b, 1, z - 1)
<1> DEFINE P(i) == b[i] = 0 /\ \A j \in 1..(i - 1) : b[j] # 0
           y == CHOOSE i \in DOMAIN b : P(i)
<1>1. DOMAIN b = 1..Len(b)
  BY LenProperties
<1>2. z \in DOMAIN b /\ P(z)
  BY <1>1, Zenon DEF Ends
<1>3. y \in DOMAIN b /\ P(y)
  BY <1>2, Zenon
<1>4. CString(b) = SubSeq(b, 1, y - 1)
  BY Zenon DEF CString
<1> HIDE DEF y
<1>5. y \in Nat /\ z \in Nat /\ y >= 1 /\ z >= 1
  BY <1>1, <1>2, <1>3
<1>6. ~(y < z) /\ ~(z < y)
  <2>1. y < z => y \in 1..(z - 1)
    BY <1>5
  <2>2. z < y => z \in 1..(y - 1)
    BY <1>5
  <2> QED BY <1>2, <1>3, <2>1, <2>2, Zenon
<1>7. y = z
  BY <1>5, <1>6
<1> QED BY <1>4, <1>7, Zenon

(* A zero behind a string that has one already changes nothing. *)
LEMMA ZeroBehind ==
  ASSUME NEW b \in Seq(Byte), Len(b) >= 1, b[Len(b)] = 0
  PROVE  Terminated(b) /\ CString(b) = CString(b \o <<0>>)
<1>1. Len(b) \in 1..Len(b) /\ DOMAIN b = 1..Len(b)
  BY LenProperties
<1>2. PICK z \in 1..Len(b) : Ends(b, z)
  BY <1>1, StringEnds
<1> PICK o, n : o = <<0>> /\ n = Len(b)
  OBVIOUS
<1>3. o \in Seq(Byte) /\ Len(o) = 1 /\ n \in Nat
  BY DEF Byte
<1>4. Joins(b \o o, b, n, o)
  BY <1>3, Joined
<1> PICK c : c = b \o o
  OBVIOUS
<1>5. c \in Seq(Byte) /\ Len(c) = n + 1 /\ \A j \in 1..n : c[j] = b[j]
  BY <1>3, <1>4 DEF Joins
<1>6. z \in 1..Len(c) /\ z \in 1..n /\ \A j \in 1..(z - 1) : j \in 1..n
  BY <1>2, <1>5
<1>7. Ends(c, z)
  BY <1>2, <1>5, <1>6, Zenon DEF Ends
<1>8. CString(b) = SubSeq(b, 1, z - 1) /\ CString(c) = SubSeq(c, 1, z - 1)
  BY <1>2, <1>5, <1>7, StringIs
<1>9. SubSeq(b, 1, z - 1) = SubSeq(c, 1, z - 1)
  <2> PICK s, t : s = SubSeq(b, 1, z - 1) /\ t = SubSeq(c, 1, z - 1)
    OBVIOUS
  <2>1. s \in Seq(Byte) /\ Len(s) = z - 1 /\ \A j \in 1..(z - 1) : s[j] = b[j]
    BY <1>6
  <2>2. t \in Seq(Byte) /\ Len(t) = z - 1 /\ \A j \in 1..(z - 1) : t[j] = c[j]
    BY <1>5, <1>6
  <2>3. \A j \in 1..Len(s) : s[j] = t[j]
    BY <1>5, <1>6, <2>1, <2>2
  <2>4. s = t
    BY <2>1, <2>2, <2>3, SeqEqual
  <2> QED BY <2>4
<1>10. Terminated(b)
  BY <1>1, Zenon DEF Terminated
<1> QED BY <1>8, <1>9, <1>10, Zenon

LEMMA ZeroAppended ==
  ASSUME NEW b \in Seq(Byte)
  PROVE  Terminated(Append(b, 0)) /\ Append(b, 0) = b \o <<0>>
<1>1. 0 \in Byte
  BY DEF Byte
<1>2. /\ Append(b, 0) \in Seq(Byte) /\ Len(Append(b, 0)) = Len(b) + 1
      /\ Append(b, 0)[Len(b) + 1] = 0
  BY <1>1, AppendProperties
<1>3. DOMAIN Append(b, 0) = 1..(Len(b) + 1) /\ Len(b) + 1 \in 1..(Len(b) + 1)
  BY <1>2, LenProperties
<1>4. Append(b, 0) = b \o <<0>>
  BY <1>1, AppendIsConcat
<1> QED BY <1>2, <1>3, <1>4, Zenon DEF Terminated

(* What the constructor of ConnectPacket makes of a whole message. *)
LEMMA Connect ==
  ASSUME NEW m, Bytes(m), Len(m) >= 8
  PROVE  LET c == ConnectPacket(From(m, 5))
         IN /\ c.stream_type = m[6] /\ c.destination_port = m[7] + 256 * m[8]
            /\ NameEnds(m) =>
                 /\ Terminated(c.destination_hostname)
                 /\ CString(c.destination_hostname) = CString(From(m, 8) \o <<0>>)
            /\ ~NameEnds(m) => c.destination_hostname = <<>>
<1> PICK d, b : d = From(m, 5) /\ b = From(m, 8)
  OBVIOUS
<1>1. m \in Seq(Byte) /\ Len(m) \in Nat /\ 5 \in 0..Len(m) /\ 8 \in 0..Len(m)
  BY DEF Bytes
<1>2. /\ d \in Seq(Byte) /\ Len(d) = Len(m) - 5
      /\ \A j \in 1..(Len(m) - 5) : d[j] = m[j + 5]
  BY <1>1, FromProperties, Zenon
<1>3. /\ b \in Seq(Byte) /\ Len(b) = Len(m) - 8
      /\ \A j \in 1..(Len(m) - 8) : b[j] = m[j + 8]
  BY <1>1, FromProperties, Zenon
<1>4. From(d, 3) = b
  <2>1. Len(d) = Len(b) + 3
    BY <1>1, <1>2, <1>3
  <2>2. ASSUME NEW j \in 1..Len(b) PROVE d[j + 3] = b[j]
    <3>1. j + 3 \in 1..(Len(m) - 5) /\ j \in 1..(Len(m) - 8) /\ (j + 3) + 5 = j + 8
      BY <1>1, <1>3
    <3>2. d[j + 3] = m[(j + 3) + 5] /\ b[j] = m[j + 8]
      BY <1>2, <1>3, <3>1, Zenon
    <3> QED BY <3>1, <3>2, Zenon
  <2>3. 3 \in Nat
    OBVIOUS
  <2> QED BY <1>2, <1>3, <2>1, <2>2, <2>3, FromIs
<1>5. d[1] = m[6] /\ d[2] = m[7] /\ d[3] = m[8]
  <2>1. 1 \in 1..(Len(m) - 5) /\ 2 \in 1..(Len(m) - 5) /\ 3 \in 1..(Len(m) - 5)
    BY <1>1
  <2>2. d[1] = m[1 + 5] /\ d[2] = m[2 + 5] /\ d[3] = m[3 + 5]
    BY <1>2, <2>1, Zenon
  <2>3. 1 + 5 = 6 /\ 2 + 5 = 7 /\ 3 + 5 = 8
    OBVIOUS
  <2> QED BY <2>2, <2>3, Zenon
<1>6. Uint16(SubSeq(d, 2, 3)) = d[2] + 256 * d[3]
  <2> PICK s : s = SubSeq(d, 2, 3)
    OBVIOUS
  <2>1. s[1] = d[2] /\ s[2] = d[3]
    BY <1>1, <1>2
  <2> QED BY <2>1, Zenon DEF Uint16
<1>7. Last(d) = d[Len(d)]
  BY Zenon DEF Last
<1>a. ASSUME Len(m) > 8
      PROVE  d[Len(d)] = b[Len(b)] /\ Len(b) >= 1
  <2>1. Len(d) \in 1..(Len(m) - 5) /\ Len(b) \in 1..(Len(m) - 8) /\ Len(d) + 5 = Len(b) + 8 /\ Len(b) >= 1
    BY <1>1, <1>2, <1>3, <1>a
  <2>2. d[Len(d)] = m[Len(d) + 5] /\ b[Len(b)] = m[Len(b) + 8]
    BY <1>2, <1>3, <2>1, Zenon
  <2> QED BY <2>1, <2>2, Zenon
<1>b. ASSUME ~(Len(m) > 8)
      PROVE  Len(m) = 8 /\ d[Len(d)] = m[8] /\ b = <<>>
  <2> PICK lm, ld, lb : lm = Len(m) /\ ld = Len(d) /\ lb = Len(b)
    OBVIOUS
  <2>0. lm \in Nat /\ lm >= 8 /\ ~(lm > 8) /\ ld = lm - 5 /\ lb = lm - 8
    BY <1>1, <1>2, <1>3, <1>b, Zenon
  <2>1. Len(m) = 8 /\ Len(d) = 3 /\ Len(b) = 0
    <3>1. lm = 8 /\ ld = 3 /\ lb = 0
      BY ONLY <2>0, SMT
    <3> QED BY <3>1, Zenon
  <2>2. b = <<>>
    BY <1>3, <2>1, EmptySeq, Zenon
  <2> QED BY <1>5, <2>1, <2>2, Zenon
<1> PICK h : h = IF Last(d) # 0 THEN Append(b, 0) ELSE b
  OBVIOUS
<1>8. /\ NameEnds(m) => Terminated(h) /\ CString(h) = CString(b \o <<0>>)
      /\ ~NameEnds(m) => h = <<>>
  <2>1. CASE Last(d) # 0
    <3>1. Terminated(h) /\ CString(h) = CString(b \o <<0>>)
      BY <1>3, <2>1, ZeroAppended, Zenon
    <3>2. NameEnds(m)
      BY <1>7, <1>b, <2>1, Zenon DEF NameEnds
    <3> QED BY <3>1, <3>2
  <2>2. CASE Last(d) = 0 /\ Len(m) > 8
    <3>1. Terminated(h) /\ CString(h) = CString(b \o <<0>>)
      BY <1>3, <1>7, <1>a, <2>2, ZeroBehind, Zenon
    <3>2. NameEnds(m)
      BY <2>2, Zenon DEF NameEnds
    <3> QED BY <3>1, <3>2
  <2>3. CASE Last(d) = 0 /\ ~(Len(m) > 8)
    <3>1. ~NameEnds(m) /\ h = <<>>
      BY <1>7, <1>b, <2>3, Zenon DEF NameEnds
    <3> QED BY <3>1
  <2> QED BY <2>1, <2>2, <2>3
<1>9. ConnectPacket(d) = [stream_type |-> d[1], destination_port |-> Uint16(SubSeq(d, 2, 3)),
                          destination_hostname |-> h]
  BY <1>4, Zenon DEF ConnectPacket
<1>10. /\ ConnectPacket(d).stream_type = d[1]
       /\ ConnectPacket(d).destination_port = d[2] + 256 * d[3]
       /\ ConnectPacket(d).destination_hostname = h
  <2> PICK c, x, y : c = ConnectPacket(d) /\ x = d[1] /\ y = Uint16(SubSeq(d, 2, 3))
    OBVIOUS
  <2>1. c = [stream_type |-> x, destination_port |-> y, destination_hostname |-> h]
    BY <1>9, Zenon
  <2>2. c.stream_type = x /\ c.destination_port = y /\ c.destination_hostname = h
    BY ONLY <2>1, SMT
  <2> QED BY <1>6, <2>2, Zenon
<1> QED BY <1>5, <1>8, <1>10, Zenon

----------------------------------------------------------------------------
(* The loop thread and its message. *)

Read ==
  /\ Bytes(view)
  /\ at \in {"parsed", "connect"} => Len(view) >= 5 /\ packet = WispPacket(view)
  /\ at = "connect" => Len(view) >= 8 /\ inner = ConnectPacket(From(view, 5))

PacketInv == Read /\ DiesOnTruncatedOnly /\ SentDecodes

LEMMA PacketFields ==
  ASSUME NEW t, NEW n, NEW b, NEW p, p = Packet(t, n, b)
  PROVE  p.packet_type = t /\ p.stream_id = n /\ p.data = b /\ p.data_len = Len(b)
  BY SMT DEF Packet

LEMMA NothingRead == Bytes(<<>>)
<1>1. <<>> \in Seq(Byte) /\ Len(<<>>) = 0
  BY EmptySeq
<1> QED BY <1>1, Sizes DEF Bytes

LEMMA Fits ==
  ASSUME NEW m, Bytes(m)
  PROVE  /\ m \in Seq(Byte) /\ Len(m) \in Nat
         /\ Allocates(Minus(Len(m), HeaderSize)) => Len(m) >= 5
         /\ Len(m) >= 5 => Allocates(Minus(Len(m), HeaderSize))
         /\ Len(m) >= 5 => /\ WispPacket(m).packet_type = m[1]
                           /\ WispPacket(m).data = From(m, 5)
                           /\ WispPacket(m).data_len = Len(m) - 5
         /\ Len(m) >= 8 => Allocates(Minus(Len(m) - 5, 3))
         /\ Len(m) >= 5 /\ Allocates(Minus(Len(m) - 5, 3)) => Len(m) >= 8
<1>1. m \in Seq(Byte) /\ Len(m) \in Nat /\ Len(m) <= MaxBody + 5 /\ HeaderSize = 5
  BY DEF Bytes, HeaderSize
<1>2. MaxBody \in Nat /\ MaxBody <= MaxAlloc /\ MaxAlloc \in Nat
  BY Sizes
<1>3. ASSUME Len(m) >= 5 PROVE Allocates(Minus(Len(m), HeaderSize))
  <2>1. 5 \in 0..Len(m) /\ Len(m) - 5 <= MaxAlloc
    BY <1>1, <1>2, <1>3
  <2> QED BY <1>1, <2>1, MinusFits
<1>4. ASSUME Len(m) < 5 PROVE ~Allocates(Minus(Len(m), HeaderSize))
  <2>1. 5 \in 0..16
    OBVIOUS
  <2> QED BY <1>1, <1>4, <2>1, MinusWraps
<1>5. ASSUME Len(m) >= 8 PROVE Allocates(Minus(Len(m) - 5, 3))
  <2>1. Len(m) - 5 \in Nat /\ 3 \in 0..(Len(m) - 5) /\ (Len(m) - 5) - 3 <= MaxAlloc
    BY <1>1, <1>2, <1>5
  <2> QED BY <2>1, MinusFits
<1>6. ASSUME Len(m) >= 5, Len(m) < 8 PROVE ~Allocates(Minus(Len(m) - 5, 3))
  <2>1. Len(m) - 5 \in Nat /\ 3 \in 0..16 /\ Len(m) - 5 < 3
    BY <1>1, <1>6
  <2> QED BY <2>1, MinusWraps
<1>7. ASSUME Len(m) >= 5
      PROVE  /\ WispPacket(m).packet_type = m[1] /\ WispPacket(m).data = From(m, 5)
             /\ WispPacket(m).data_len = Len(m) - 5
  <2>1. /\ WispPacket(m) = Packet(m[1], Uint32(SubSeq(m, 2, 5)), From(m, 5))
        /\ Len(From(m, 5)) = Len(m) - 5
    BY <1>7, Parsed
  <2> QED BY <2>1, PacketFields
<1>8. (Len(m) >= 5 \/ Len(m) < 5) /\ (Len(m) >= 8 \/ Len(m) < 8)
  BY <1>1
<1> QED BY <1>1, <1>3, <1>4, <1>5, <1>6, <1>7, <1>8, Zenon

(* What a packet of the server says. *)
Says(type, data) ==
  CASE type = PACKET_CONTINUE -> ContinuePacket(data).buffer_remaining
    [] type = PACKET_CLOSE -> ClosePacket(data).close_reason
    [] type = PACKET_DATA -> DataPacket(data).stream_payload

LEMMA SendsWhatItMeans ==
  ASSUME NEW type \in Byte, NEW id \in Word, NEW data \in Seq(Byte), Len(data) <= MaxAlloc + 16,
         NEW value, value = Says(type, data), SendPacket(type, id, value, data), PacketInv
  PROVE  PacketInv'
<1> PICK p : p = Packet(type, id, data)
  OBVIOUS
<1>1. /\ at' = "sent" /\ meant' = [packet |-> p, value |-> value] /\ wire' = serialize(p)
      /\ view' = view /\ packet' = packet /\ inner' = inner
  BY Zenon DEF SendPacket
<1>2. Read' /\ DiesOnTruncatedOnly'
  BY <1>1 DEF PacketInv, Read, DiesOnTruncatedOnly, Bytes
<1>3. WispPacket(wire') = p
  BY <1>1, Decoded, Zenon
<1>4. meant'.packet = p /\ meant'.value = value
  BY ONLY <1>1, SMT
<1>5. p.packet_type = type /\ p.data = data
  BY PacketFields
<1>6. SentDecodes'
  BY <1>3, <1>4, <1>5, Zenon DEF SentDecodes, Says
<1> QED BY <1>2, <1>6 DEF PacketInv

LEMMA SaysContinue ==
  ASSUME NEW n \in Word
  PROVE  LET data == serializeContinue([buffer_remaining |-> n])
         IN data \in Seq(Byte) /\ Len(data) = 4 /\ n = Says(PACKET_CONTINUE, data)
<1> PICK data : data = InMemory(n)
  OBVIOUS
<1>1. serializeContinue([buffer_remaining |-> n]) = data
  <2>1. [buffer_remaining |-> n].buffer_remaining = n
    OBVIOUS
  <2> QED BY <2>1, Zenon DEF serializeContinue
<1>2. data \in Seq(Byte) /\ Len(data) = 4 /\ Uint32(data) = n
  BY WordInMemory
<1>3. SubSeq(data, 1, 4) = data
  BY <1>2, SubSeqFull
<1>4. ContinuePacket(data).buffer_remaining = n
  <2>1. ContinuePacket(data) = [buffer_remaining |-> n]
    BY <1>2, <1>3, Zenon DEF ContinuePacket
  <2> QED BY ONLY <2>1, SMT
<1>5. Says(PACKET_CONTINUE, data) = n
  BY <1>4, SMT DEF Says, PACKET_CONTINUE, PACKET_CLOSE, PACKET_DATA
<1> QED BY <1>1, <1>2, <1>5, Zenon

LEMMA SaysClose ==
  ASSUME NEW r \in Byte
  PROVE  LET data == serializeClose([close_reason |-> r])
         IN data \in Seq(Byte) /\ Len(data) = 1 /\ r = Says(PACKET_CLOSE, data)
<1> PICK data : data = <<r>>
  OBVIOUS
<1>1. serializeClose([close_reason |-> r]) = data
  <2>1. [close_reason |-> r].close_reason = r
    OBVIOUS
  <2> QED BY <2>1, Zenon DEF serializeClose
<1>2. data \in Seq(Byte) /\ Len(data) = 1 /\ data[1] = r
  OBVIOUS
<1>3. ClosePacket(data).close_reason = r
  <2>1. ClosePacket(data) = [close_reason |-> r]
    BY <1>2, Zenon DEF ClosePacket
  <2> QED BY ONLY <2>1, SMT
<1>4. Says(PACKET_CLOSE, data) = r
  BY <1>3, SMT DEF Says, PACKET_CONTINUE, PACKET_CLOSE, PACKET_DATA
<1> QED BY <1>1, <1>2, <1>4, Zenon

LEMMA SaysData ==
  ASSUME NEW data
  PROVE  data = Says(PACKET_DATA, data)
<1>1. DataPacket(data).stream_payload = data
  BY SMT DEF DataPacket
<1> QED BY <1>1, SMT DEF Says, PACKET_CONTINUE, PACKET_CLOSE, PACKET_DATA

LEMMA PacketStep ==
  ASSUME PacketInv, ConfigNext \/ UNCHANGED <<vars, configVars>>
  PROVE  PacketInv'
<1> USE DEF PacketInv, vars
<1>1. CASE UNCHANGED vars
  BY <1>1 DEF Read, Bytes, DiesOnTruncatedOnly, SentDecodes
<1>2. ASSUME NEW m, receive(m), m \in Message \cup Connects PROVE PacketInv'
  <2>1. Bytes(m)
    BY <1>2, MessageBytes
  <2>2. view' = m /\ at' # "connect" /\ at' # "sent"
    BY <1>2, Zenon DEF receive
  <2>3. CASE Len(m) >= 5
    <3>1. at' = "parsed" /\ packet' = WispPacket(m)
      BY <1>2, <2>1, <2>3, Fits, Zenon DEF receive
    <3> QED BY <2>1, <2>2, <2>3, <3>1 DEF Read, Bytes, DiesOnTruncatedOnly, SentDecodes
  <2>4. CASE ~(Len(m) >= 5)
    <3>1. at' = "dead" /\ Len(m) < 5
      <4>1. ~Allocates(Minus(Len(m), HeaderSize)) /\ Len(m) \in Nat
        BY <2>1, <2>4, Fits, Zenon
      <4> QED BY <1>2, <2>4, <4>1 DEF receive
    <3> QED BY <2>1, <2>2, <3>1 DEF Read, Bytes, DiesOnTruncatedOnly, SentDecodes
  <2> QED BY <2>3, <2>4
<1>3. ASSUME Receive PROVE PacketInv'
  <2>1. \E m \in Message \cup Connects : receive(m)
    BY <1>3, Zenon DEF Receive
  <2> QED BY <1>2, <2>1
<1>4. ASSUME handle_connect PROVE PacketInv'
  <2>1. /\ Bytes(view) /\ Len(view) >= 5 /\ packet = WispPacket(view) /\ at = "parsed"
        /\ view' = view /\ packet' = packet
    BY <1>4, Zenon DEF handle_connect, Read
  <2>2. /\ packet.packet_type = view[1] /\ packet.data = From(view, 5)
        /\ packet.data_len = Len(view) - 5
    BY <2>1, Fits, Zenon
  <2>3. CASE Len(view) >= 8
    <3>1. at' = "connect" /\ inner' = ConnectPacket(From(view, 5))
      BY <1>4, <2>1, <2>2, <2>3, Fits, Zenon DEF handle_connect
    <3> QED BY <2>1, <2>3, <3>1 DEF Read, Bytes, DiesOnTruncatedOnly, SentDecodes
  <2>4. CASE ~(Len(view) >= 8)
    <3>1. ~Allocates(Minus(Len(view) - 5, 3)) /\ Len(view) \in Nat
      BY <2>1, <2>4, Fits, Zenon
    <3>2. at' = "dead" /\ view[1] = PACKET_CONNECT
      BY <1>4, <2>2, <3>1, Zenon DEF handle_connect
    <3>3. Len(view) < 8
      BY <2>4, <3>1
    <3> QED BY <2>1, <3>2, <3>3 DEF Read, Bytes, DiesOnTruncatedOnly, SentDecodes
  <2> QED BY <2>3, <2>4
<1>5. ASSUME Ignore PROVE PacketInv'
  <2>1. at' = "idle" /\ view' = <<>>
    BY <1>5, Zenon DEF Ignore
  <2>2. Bytes(<<>>)
    BY NothingRead
  <2>3. Bytes(view)'
    BY <2>1, <2>2, Zenon DEF Bytes
  <2> QED BY <2>1, <2>3 DEF Read, DiesOnTruncatedOnly, SentDecodes
<1>6. ASSUME Sent PROVE PacketInv'
  BY <1>6 DEF Sent, Read, Bytes, DiesOnTruncatedOnly, SentDecodes
<1>7. ASSUME Senders PROVE PacketInv'
  <2>1. MaxAlloc \in Nat /\ MaxBody \in Nat /\ MaxBody <= MaxAlloc
    BY Sizes
  <2>2. PACKET_CLOSE \in Byte /\ PACKET_CONTINUE \in Byte /\ PACKET_DATA \in Byte
    BY DEF PACKET_CLOSE, PACKET_CONTINUE, PACKET_DATA, Byte
  <2>3. ASSUME NEW n \in Numbers, NEW id \in StreamId, send_close(n % 256, Uint32(id))
        PROVE  PacketInv'
    <3>1. n \in Word /\ n % 256 \in Byte
      <4>1. n \in Word
        BY Sizes
      <4>2. n \in Nat
        BY <4>1 DEF Word
      <4> QED BY <4>1, <4>2 DEF Byte
    <3> PICK r, data : r = n % 256 /\ data = serializeClose([close_reason |-> r])
      OBVIOUS
    <3>2. data \in Seq(Byte) /\ Len(data) = 1 /\ r = Says(PACKET_CLOSE, data)
      BY <3>1, SaysClose, Zenon
    <3>3. SendPacket(PACKET_CLOSE, Uint32(id), r, data)
      BY <2>3, Zenon DEF send_close
    <3>4. Len(data) <= MaxAlloc + 16
      BY ONLY <2>1, <3>2
    <3>5. Uint32(id) \in Word
      BY IdBytes
    <3> QED BY <2>2, <3>2, <3>3, <3>4, <3>5, SendsWhatItMeans
  <2>4. ASSUME NEW n \in Numbers, NEW id \in StreamId, send_continue(n, Uint32(id))
        PROVE  PacketInv'
    <3>1. n \in Word
      BY Sizes
    <3> PICK data : data = serializeContinue([buffer_remaining |-> n])
      OBVIOUS
    <3>2. data \in Seq(Byte) /\ Len(data) = 4 /\ n = Says(PACKET_CONTINUE, data)
      BY <3>1, SaysContinue, Zenon
    <3>3. SendPacket(PACKET_CONTINUE, Uint32(id), n, data)
      BY <2>4, Zenon DEF send_continue
    <3>4. Len(data) <= MaxAlloc + 16
      BY ONLY <2>1, <3>2
    <3>5. Uint32(id) \in Word
      BY IdBytes
    <3> QED BY <2>2, <3>2, <3>3, <3>4, <3>5, SendsWhatItMeans
  <2>5. ASSUME NEW id \in StreamId, NEW b \in Body, send_data(Uint32(id), b)
        PROVE  PacketInv'
    <3>1. b \in Seq(Byte) /\ Len(b) \in 0..MaxBody
      BY BodyBytes
    <3>2. Len(b) <= MaxAlloc + 16
      BY <2>1, <3>1
    <3>3. SendPacket(PACKET_DATA, Uint32(id), b, b)
      BY <2>5, Zenon DEF send_data
    <3>4. Uint32(id) \in Word /\ b = Says(PACKET_DATA, b)
      BY IdBytes, SaysData
    <3> QED BY <2>2, <3>1, <3>2, <3>3, <3>4, SendsWhatItMeans
  <2> QED BY <1>7, <2>3, <2>4, <2>5, Zenon DEF Senders
<1>8. \/ UNCHANGED vars \/ Receive \/ handle_connect \/ Ignore \/ Sent \/ Senders
  <2>1. CASE UNCHANGED <<vars, configVars>>
    BY <2>1
  <2>2. CASE ReadRoot \/ ReadChild \/ ReadEnd \/ set_conf \/ Answered
    BY <2>2, Zenon DEF ReadRoot, ReadChild, ReadEnd, set_conf, Answered
  <2>3. CASE open_stream \/ IgnoreOther
    BY <2>3, Zenon DEF open_stream, IgnoreOther
  <2> QED BY <2>1, <2>2, <2>3, Zenon DEF ConfigNext, Serve
<1> QED BY <1>1, <1>3, <1>4, <1>5, <1>6, <1>7, <1>8, Zenon

LEMMA PacketInit == ConfigInit => PacketInv
<1> SUFFICES ASSUME ConfigInit PROVE PacketInv
  OBVIOUS
<1>1. at = "idle" /\ view = <<>>
  BY DEF ConfigInit, Init
<1>2. Bytes(view)
  BY <1>1, NothingRead
<1> QED BY <1>1, <1>2 DEF PacketInv, Read, DiesOnTruncatedOnly, SentDecodes

(* What the loop thread knows of its message and of the packet it sends. *)
THEOREM PacketInvariant == ConfigSpec => []PacketInv
<1>1. PacketInv /\ [ConfigNext]_<<vars, configVars>> => PacketInv'
  BY PacketStep
<1> QED BY <1>1, PacketInit, PTL DEF ConfigSpec

(* No message ends the process but one that is too short for the fields   *)
(* that the constructors read, whatever its length and its bytes.          *)
THEOREM OnlyTruncatedDies == ConfigSpec => []DiesOnTruncatedOnly
<1>1. PacketInv => DiesOnTruncatedOnly
  BY DEF PacketInv
<1> QED BY <1>1, PacketInvariant, PTL

(* What the server puts on the wire, the constructors of packets.h take    *)
(* apart to what it meant.                                                 *)
THEOREM SentIsDecoded == ConfigSpec => []SentDecodes
<1>1. PacketInv => SentDecodes
  BY DEF PacketInv
<1> QED BY <1>1, PacketInvariant, PTL

(* serialize() is the inverse of the constructor of WispPacket on every    *)
(* message the server accepts, and the one of InfoPacket on its payload.   *)
THEOREM SerializedAgain == ConfigSpec => []SerializeInverts
<1>1. ASSUME PacketInv, at = "parsed"
      PROVE  /\ serialize(packet) = view
             /\ packet.data_len >= 2 =>
                  /\ serializeInfo(InfoPacket(packet.data)) = packet.data
                  /\ NewInfo(packet.data[1], packet.data[2], From(packet.data, 2))
                       = InfoPacket(packet.data)
  <2>1. Bytes(view) /\ Len(view) >= 5 /\ packet = WispPacket(view)
    BY <1>1 DEF PacketInv, Read
  <2>2. serialize(packet) = view
    BY <2>1, Reserialized, Zenon
  <2>3. packet.data = From(view, 5) /\ packet.data_len = Len(view) - 5
    BY <2>1, Fits, Zenon
  <2>4. From(view, 5) \in Seq(Byte) /\ Len(From(view, 5)) = Len(view) - 5
    BY <2>1, Parsed, Zenon
  <2>5. Len(From(view, 5)) <= MaxAlloc
    BY <2>1, <2>4, Sizes DEF Bytes
  <2> PICK d : d = From(view, 5)
    OBVIOUS
  <2>6. Len(d) >= 2 => /\ serializeInfo(InfoPacket(d)) = d
                       /\ NewInfo(d[1], d[2], From(d, 2)) = InfoPacket(d)
    BY <2>4, <2>5, InfoInverts, Zenon
  <2> QED BY <2>2, <2>3, <2>4, <2>6, Zenon
<1>2. PacketInv => SerializeInverts
  BY <1>1, Zenon DEF SerializeInverts
<1> QED BY <1>2, PacketInvariant, PTL

LEMMA HostnameKept == PacketInv => HostnameAsSent
<1> SUFFICES ASSUME PacketInv, at = "connect"
             PROVE  HostnameAsSent
  BY Zenon DEF HostnameAsSent
<1>1. Bytes(view) /\ Len(view) >= 8 /\ inner = ConnectPacket(From(view, 5))
  BY DEF PacketInv, Read
<1> QED BY <1>1, Connect, Zenon DEF HostnameAsSent

(* The block list and getaddrinfo() get the type, the port and the name    *)
(* that the client sent, terminated by it or not, for a message of any     *)
(* length; only for an empty name before a port below 256 do they get a    *)
(* buffer of no bytes instead.                                             *)
THEOREM HostnameReachesTheList == ConfigSpec => []HostnameAsSent
BY HostnameKept, PacketInvariant, PTL

----------------------------------------------------------------------------
(* The configuration file. *)

Member == [type : {"port"}, port : Nat] \cup [type : {"hostname"}, hostname : Hostname]
BlockType == {"absent", "none", "white", "black", "grey"}
ConfigType == [pcap_capture : BOOLEAN, port_number : SUBSET Nat, block_type : BlockType,
               block_members : Seq(Member)]

Outcomes == {"none", "ok", "serving", "no port"}

LEMMA LastIs ==
  ASSUME NEW S \in SUBSET Nat, NEW x \in S, \A y \in S : y <= x
  PROVE  Max(S) = x
<1> DEFINE z == CHOOSE n \in S : \A y \in S : n >= y
<1>1. \A y \in S : x >= y
  OBVIOUS
<1>2. z \in S /\ \A y \in S : z >= y
  BY <1>1, Zenon
<1>3. Max(S) = z
  BY Zenon DEF Max
<1> HIDE DEF z
<1>4. z = x
  BY <1>1, <1>2
<1> QED BY <1>3, <1>4

LEMMA FirstIs ==
  ASSUME NEW S \in SUBSET Nat, NEW x \in S, \A y \in S : x <= y
  PROVE  Min(S) = x
<1> DEFINE z == CHOOSE n \in S : \A y \in S : n =< y
<1>1. z \in S /\ \A y \in S : z <= y
  BY Zenon
<1>2. Min(S) = z
  BY Zenon DEF Min
<1> HIDE DEF z
<1>3. z = x
  BY <1>1
<1> QED BY <1>2, <1>3

LEMMA DocumentShape ==
  ASSUME NEW d \in Document
  PROVE  /\ d.elements \in Seq(Element)
         /\ d.load \in {"loaded", "no --config", "no file", "no root"}
         /\ d.block_type \in {"absent", "none", "white", "black", "grey"}
         /\ d.load # "loaded" => d.elements = <<>>
<1> DEFINE E == UNION {[1..n -> Element] : n \in 0..MaxElements}
<1>1. ASSUME NEW s \in E PROVE s \in Seq(Element)
  <2>1. PICK n \in 0..MaxElements : s \in [1..n -> Element]
    BY Zenon
  <2>2. n \in Nat
    BY ConfigAssumption
  <2> QED BY <2>1, <2>2
<1>2. <<>> \in Seq(Element)
  BY EmptySeq
<1> HIDE DEF E
<1>3. \/ d \in [load : {"loaded"}, block_type : {"absent", "none", "white", "black", "grey"}, elements : E]
      \/ d \in [load : {"no --config", "no file", "no root"}, block_type : {"absent"}, elements : {<<>>}]
  BY Zenon DEF Document, E
<1> QED BY <1>1, <1>2, <1>3

LEMMA NoError ==
  ASSUME NEW e, e.attribute = "ok", e.name # "unknown"
  PROVE  Error(e) = "none"
  BY SMT DEF Error

LEMMA AnError ==
  ASSUME NEW e, \/ e.name = "unknown"
                \/ /\ e.name \in {"port", "list_port", "pcap", "list_hostname"}
                   /\ e.attribute = "missing"
                \/ e.name \in {"port", "list_port", "pcap"} /\ e.attribute = "bad"
  PROVE  Error(e) \notin Outcomes
<1>1. /\ \A n \in {"port", "list_port", "pcap", "list_hostname"} : FailedToFind[n] \notin Outcomes
      /\ \A n \in {"port", "list_port", "pcap"} : FailedToParse[n] \notin Outcomes
      /\ "Unknown element." \notin Outcomes
  BY SMT DEF FailedToFind, FailedToParse, Outcomes
<1>2. \/ Error(e) = "Unknown element."
      \/ Error(e) = FailedToFind[e.name] /\ e.name \in {"port", "list_port", "pcap", "list_hostname"}
      \/ Error(e) = FailedToParse[e.name] /\ e.name \in {"port", "list_port", "pcap"}
  <2>1. CASE e.name = "unknown"
    BY <2>1, SMT DEF Error
  <2>2. CASE e.name \in {"port", "list_port", "pcap", "list_hostname"} /\ e.attribute = "missing"
    <3>1. e.name # "unknown" /\ "missing" # "bad"
      BY <2>2
    <3>2. Error(e) = FailedToFind[e.name]
      BY ONLY <2>2, <3>1, SMT DEF Error
    <3> QED BY <2>2, <3>2
  <2>3. CASE e.name \in {"port", "list_port", "pcap"} /\ e.attribute = "bad"
    <3>1. e.name # "unknown" /\ "missing" # "bad"
      BY <2>3
    <3>2. Error(e) = FailedToParse[e.name]
      BY ONLY <2>3, <3>1, SMT DEF Error
    <3> QED BY <2>3, <3>2
  <2> QED BY <2>1, <2>2, <2>3
<1> QED BY <1>1, <1>2

LEMMA ElementShape ==
  ASSUME NEW e \in Element
  PROVE  /\ e.attribute = "ok" => Error(e) = "none" /\ e.name # "unknown"
         /\ e.attribute # "ok" => Error(e) \notin Outcomes
         /\ e.attribute = "ok" /\ e.name \in {"port", "list_port"} => e.value \in Nat
         /\ e.attribute = "ok" /\ e.name = "pcap" => e.value \in BOOLEAN
         /\ e.attribute = "ok" /\ e.name = "list_hostname" => e.value \in Hostname
         /\ e.name \in {"port", "list_port", "pcap", "list_hostname", "unknown"}
<1>1. CASE e \in [name : {"port", "list_port"}, attribute : {"ok"}, value : Unsigned]
  <2>1. e.name \in {"port", "list_port"} /\ e.attribute = "ok" /\ e.value \in Unsigned
    BY <1>1, SMT
  <2>2. e.value \in Nat
    BY <2>1, ConfigAssumption, Zenon
  <2>3. Error(e) = "none"
    BY <2>1, NoError
  <2> QED BY <2>1, <2>2, <2>3
<1>2. CASE e \in [name : {"pcap"}, attribute : {"ok"}, value : BOOLEAN]
  <2>1. e.name = "pcap" /\ e.attribute = "ok"
    BY <1>2, SMT
  <2>2. e.value \in BOOLEAN
    BY <1>2, Zenon
  <2>3. Error(e) = "none"
    BY <2>1, NoError
  <2> QED BY <2>1, <2>2, <2>3
<1>3. CASE e \in [name : {"list_hostname"}, attribute : {"ok"}, value : Hostname]
  <2>1. e.name = "list_hostname" /\ e.attribute = "ok" /\ e.value \in Hostname
    BY <1>3, SMT
  <2>2. Error(e) = "none"
    BY <2>1, NoError
  <2> QED BY <2>1, <2>2
<1>4. CASE e \in [name : {"port", "list_port", "pcap"}, attribute : {"missing", "bad"}, value : {FALSE}]
  <2>1. e.name \in {"port", "list_port", "pcap"} /\ e.attribute \in {"missing", "bad"}
    BY <1>4, SMT
  <2>2. Error(e) \notin Outcomes
    BY <2>1, AnError
  <2> QED BY <2>1, <2>2
<1>5. CASE e \in [name : {"list_hostname", "unknown"}, attribute : {"missing"}, value : {FALSE}]
  <2>1. e.name \in {"list_hostname", "unknown"} /\ e.attribute = "missing"
    BY <1>5, SMT
  <2>2. Error(e) \notin Outcomes
    BY <2>1, AnError
  <2> QED BY <2>1, <2>2
<1> QED BY <1>1, <1>2, <1>3, <1>4, <1>5, Zenon DEF Element

(* The last of the elements up to n with a name. *)
LastUpTo(d, name, n, i) ==
  /\ i \in 1..n /\ d.elements[i].name = name
  /\ \A j \in (i + 1)..n : d.elements[j].name # name
NoneUpTo(d, name, n) == \A i \in 1..n : d.elements[i].name # name

PortMember(c, v) == \E k \in DOMAIN c.block_members :
                      c.block_members[k].type = "port" /\ c.block_members[k].port = v
HostnameMember(c, v) == \E k \in DOMAIN c.block_members :
                          c.block_members[k].type = "hostname" /\ c.block_members[k].hostname = v
ListedUpTo(d, name, n, v) == \E i \in 1..n : d.elements[i].name = name /\ d.elements[i].value = v

(* c is what the first n elements say. *)
PortRead(c, d, n) == \/ c.port_number = {} /\ NoneUpTo(d, "port", n)
                     \/ \E i \in 1..n : /\ LastUpTo(d, "port", n, i)
                                        /\ c.port_number = {d.elements[i].value}
PcapRead(c, d, n) == \/ c.pcap_capture = FALSE /\ NoneUpTo(d, "pcap", n)
                     \/ \E i \in 1..n : /\ LastUpTo(d, "pcap", n, i)
                                        /\ c.pcap_capture = d.elements[i].value
ListRead(c, d, n) == \A v : /\ PortMember(c, v) <=> ListedUpTo(d, "list_port", n, v)
                            /\ HostnameMember(c, v) <=> ListedUpTo(d, "list_hostname", n, v)
TypeRead(c, d) == c.block_type = IF d.block_type = "absent" THEN "none" ELSE d.block_type

Collected(c, d, n) ==
  /\ c \in ConfigType /\ TypeRead(c, d)
  /\ PortRead(c, d, n) /\ PcapRead(c, d, n) /\ ListRead(c, d, n)

LEMMA CollectsNone ==
  ASSUME NEW c \in ConfigType, NEW d, TypeRead(c, d),
         c.port_number = {}, c.pcap_capture = FALSE, c.block_members = <<>>
  PROVE  Collected(c, d, 0)
<1>1. 1..0 = {} /\ DOMAIN <<>> = {}
  OBVIOUS
<1>2. PortRead(c, d, 0) /\ PcapRead(c, d, 0)
  BY <1>1, Zenon DEF PortRead, PcapRead, NoneUpTo
<1>3. ListRead(c, d, 0)
  BY <1>1, Zenon DEF ListRead, PortMember, HostnameMember, ListedUpTo
<1> QED BY <1>2, <1>3 DEF Collected

LEMMA UpToNext ==
  ASSUME NEW d, NEW n \in Nat, NEW name
  PROVE  /\ d.elements[n + 1].name # name /\ NoneUpTo(d, name, n) => NoneUpTo(d, name, n + 1)
         /\ \A i \in 1..n : d.elements[n + 1].name # name /\ LastUpTo(d, name, n, i) =>
                              i \in 1..(n + 1) /\ LastUpTo(d, name, n + 1, i)
         /\ d.elements[n + 1].name = name =>
              n + 1 \in 1..(n + 1) /\ LastUpTo(d, name, n + 1, n + 1)
         /\ \A v : ListedUpTo(d, name, n + 1, v) <=>
                     \/ ListedUpTo(d, name, n, v)
                     \/ d.elements[n + 1].name = name /\ d.elements[n + 1].value = v
<1>1. /\ \A i \in 1..(n + 1) : i \in 1..n \/ i = n + 1
      /\ \A i \in 1..n : i \in 1..(n + 1)
      /\ n + 1 \in 1..(n + 1) /\ \A j \in ((n + 1) + 1)..(n + 1) : FALSE
      /\ \A i \in 1..n : \A j \in (i + 1)..(n + 1) : j \in (i + 1)..n \/ j = n + 1
  OBVIOUS
<1>2. d.elements[n + 1].name # name /\ NoneUpTo(d, name, n) => NoneUpTo(d, name, n + 1)
  BY <1>1, Zenon DEF NoneUpTo
<1>3. ASSUME NEW i \in 1..n, d.elements[n + 1].name # name, LastUpTo(d, name, n, i)
      PROVE  i \in 1..(n + 1) /\ LastUpTo(d, name, n + 1, i)
  BY <1>1, <1>3, Zenon DEF LastUpTo
<1>4. d.elements[n + 1].name = name => LastUpTo(d, name, n + 1, n + 1)
  BY <1>1, Zenon DEF LastUpTo
<1>5. ASSUME NEW v
      PROVE  ListedUpTo(d, name, n + 1, v) <=>
               \/ ListedUpTo(d, name, n, v)
               \/ d.elements[n + 1].name = name /\ d.elements[n + 1].value = v
  BY <1>1, Zenon DEF ListedUpTo
<1> QED BY <1>1, <1>2, <1>3, <1>4, <1>5, Zenon

OneMore(a, c, m, v) ==
  /\ PortMember(a, v) <=> PortMember(c, v) \/ (m.type = "port" /\ m.port = v)
  /\ HostnameMember(a, v) <=> HostnameMember(c, v) \/ (m.type = "hostname" /\ m.hostname = v)

LEMMA MembersNext ==
  ASSUME NEW c, c.block_members \in Seq(Member), NEW m \in Member,
         NEW a, a.block_members = Append(c.block_members, m), NEW v
  PROVE  OneMore(a, c, m, v)
<1> PICK s, t : s = c.block_members /\ t = a.block_members
  OBVIOUS
<1> PICK n : n = Len(s)
  OBVIOUS
<1>1. n \in Nat /\ s \in Seq(Member) /\ DOMAIN s = 1..n
  BY LenProperties
<1>2. /\ t \in Seq(Member) /\ Len(t) = n + 1 /\ t[n + 1] = m
      /\ \A k \in 1..n : t[k] = s[k]
  <2>1. t = Append(s, m)
    BY Zenon
  <2> QED BY ONLY <1>1, <2>1, m \in Member, n = Len(s), AppendProperties
<1>3. DOMAIN t = 1..(n + 1)
  BY <1>2, LenProperties
<1>4. /\ \A k \in 1..(n + 1) : k \in 1..n \/ k = n + 1
      /\ \A k \in 1..n : k \in 1..(n + 1)
      /\ n + 1 \in 1..(n + 1)
  BY <1>1
<1>5. PortMember(a, v) <=> PortMember(c, v) \/ (m.type = "port" /\ m.port = v)
  BY <1>1, <1>2, <1>3, <1>4, Zenon DEF PortMember
<1>6. HostnameMember(a, v) <=> HostnameMember(c, v) \/ (m.type = "hostname" /\ m.hostname = v)
  BY <1>1, <1>2, <1>3, <1>4, Zenon DEF HostnameMember
<1> QED BY <1>5, <1>6 DEF OneMore

LEMMA ListKept ==
  ASSUME NEW d, NEW n \in Nat, NEW c, NEW a, ListRead(c, d, n), a.block_members = c.block_members,
         d.elements[n + 1].name # "list_port", d.elements[n + 1].name # "list_hostname"
  PROVE  ListRead(a, d, n + 1)
<1> SUFFICES ASSUME NEW v
             PROVE  /\ PortMember(a, v) <=> ListedUpTo(d, "list_port", n + 1, v)
                    /\ HostnameMember(a, v) <=> ListedUpTo(d, "list_hostname", n + 1, v)
  BY Zenon DEF ListRead
<1>1. (PortMember(a, v) <=> PortMember(c, v)) /\ (HostnameMember(a, v) <=> HostnameMember(c, v))
  BY Zenon DEF PortMember, HostnameMember
<1>2. ListedUpTo(d, "list_port", n + 1, v) <=> ListedUpTo(d, "list_port", n, v)
  BY UpToNext, Zenon
<1>3. ListedUpTo(d, "list_hostname", n + 1, v) <=> ListedUpTo(d, "list_hostname", n, v)
  BY UpToNext, Zenon
<1> QED BY <1>1, <1>2, <1>3, Zenon DEF ListRead

LEMMA CollectsPort ==
  ASSUME NEW d, NEW n \in Nat, NEW c, Collected(c, d, n), NEW e, e = d.elements[n + 1],
         e.name = "port", e.value \in Nat
  PROVE  Collected(Apply(c, e), d, n + 1)
<1> PICK a : a = Apply(c, e)
  OBVIOUS
<1>1. c \in ConfigType
  BY DEF Collected
<1>2. a = [c EXCEPT !.port_number = {e.value}]
  BY Zenon DEF Apply
<1>3. /\ a \in ConfigType /\ a.port_number = {e.value} /\ a.block_type = c.block_type
      /\ a.block_members = c.block_members
  BY <1>1, <1>2 DEF ConfigType
<1>4. a.pcap_capture = c.pcap_capture
  BY <1>1, <1>2, Zenon DEF ConfigType
<1>5. "port" # "pcap" /\ "port" # "list_port" /\ "port" # "list_hostname"
  OBVIOUS
<1>6. PortRead(a, d, n + 1)
  BY <1>3, UpToNext, Zenon DEF PortRead
<1>7. PcapRead(a, d, n + 1)
  BY <1>4, <1>5, UpToNext, Zenon DEF PcapRead, Collected
<1>8. ListRead(a, d, n + 1)
  BY <1>3, <1>5, ListKept, Zenon DEF Collected
<1>9. TypeRead(a, d)
  BY <1>3, Zenon DEF TypeRead, Collected
<1> QED BY <1>3, <1>6, <1>7, <1>8, <1>9, Zenon DEF Collected

LEMMA CollectsPcap ==
  ASSUME NEW d, NEW n \in Nat, NEW c, Collected(c, d, n), NEW e, e = d.elements[n + 1],
         e.name = "pcap", e.value \in BOOLEAN
  PROVE  Collected(Apply(c, e), d, n + 1)
<1> PICK a : a = Apply(c, e)
  OBVIOUS
<1>1. c \in ConfigType
  BY DEF Collected
<1>2. "pcap" # "port" /\ "pcap" # "list_port" /\ "pcap" # "list_hostname"
  OBVIOUS
<1>3. a = [c EXCEPT !.pcap_capture = e.value]
  BY <1>2, Zenon DEF Apply
<1>4. /\ a.port_number = c.port_number /\ a.block_type = c.block_type
      /\ a.block_members = c.block_members
  BY <1>1, <1>3 DEF ConfigType
<1>5. a \in ConfigType /\ a.pcap_capture = e.value
  BY <1>1, <1>3, Zenon DEF ConfigType
<1>6. PortRead(a, d, n + 1)
  BY <1>2, <1>4, UpToNext, Zenon DEF PortRead, Collected
<1>7. PcapRead(a, d, n + 1)
  BY <1>5, UpToNext, Zenon DEF PcapRead
<1>8. ListRead(a, d, n + 1)
  BY <1>2, <1>4, ListKept, Zenon DEF Collected
<1>9. TypeRead(a, d)
  BY <1>4, Zenon DEF TypeRead, Collected
<1> QED BY <1>5, <1>6, <1>7, <1>8, <1>9, Zenon DEF Collected

(* A member more. *)
LEMMA CollectsMember ==
  ASSUME NEW d, NEW n \in Nat, NEW c, Collected(c, d, n), NEW e, e = d.elements[n + 1],
         NEW m \in Member, NEW a, a = [c EXCEPT !.block_members = Append(@, m)],
         \/ e.name = "list_port" /\ m = MemberPort(e.value)
         \/ e.name = "list_hostname" /\ m = MemberHostname(e.value)
  PROVE  Collected(a, d, n + 1)
<1>1. c \in ConfigType
  BY DEF Collected
<1>2. c.block_members \in Seq(Member)
  BY <1>1 DEF ConfigType
<1>3. a = [c EXCEPT !.block_members = Append(c.block_members, m)]
  BY <1>1, Zenon DEF ConfigType
<1> PICK s : s = Append(c.block_members, m)
  OBVIOUS
<1>4. s \in Seq(Member)
  BY <1>2, AppendProperties
<1>5. /\ a.port_number = c.port_number /\ a.block_type = c.block_type
      /\ a.block_members = s
  BY <1>1, <1>3 DEF ConfigType
<1>6. a \in ConfigType /\ a.pcap_capture = c.pcap_capture
  BY <1>1, <1>3, <1>4, Zenon DEF ConfigType
<1>7. e.name # "port" /\ e.name # "pcap" /\ "list_port" # "list_hostname"
  OBVIOUS
<1>8. PortRead(a, d, n + 1)
  BY <1>5, <1>7, UpToNext, Zenon DEF PortRead, Collected
<1>9. PcapRead(a, d, n + 1)
  BY <1>6, <1>7, UpToNext, Zenon DEF PcapRead, Collected
<1>10. ASSUME NEW v
       PROVE  /\ PortMember(a, v) <=> ListedUpTo(d, "list_port", n + 1, v)
              /\ HostnameMember(a, v) <=> ListedUpTo(d, "list_hostname", n + 1, v)
  <2>1. /\ PortMember(a, v) <=> PortMember(c, v) \/ (m.type = "port" /\ m.port = v)
        /\ HostnameMember(a, v) <=> HostnameMember(c, v) \/ (m.type = "hostname" /\ m.hostname = v)
    <3>1. a.block_members = Append(c.block_members, m)
      BY <1>5, Zenon
    <3>2. OneMore(a, c, m, v)
      BY ONLY <1>2, <3>1, m \in Member, MembersNext
    <3> QED BY <3>2 DEF OneMore
  <2>2. /\ PortMember(c, v) <=> ListedUpTo(d, "list_port", n, v)
        /\ HostnameMember(c, v) <=> ListedUpTo(d, "list_hostname", n, v)
    BY Zenon DEF Collected, ListRead
  <2>3. /\ ListedUpTo(d, "list_port", n + 1, v) <=>
             ListedUpTo(d, "list_port", n, v) \/ (e.name = "list_port" /\ e.value = v)
        /\ ListedUpTo(d, "list_hostname", n + 1, v) <=>
             ListedUpTo(d, "list_hostname", n, v) \/ (e.name = "list_hostname" /\ e.value = v)
    BY UpToNext, Zenon
  <2>4. /\ (m.type = "port" /\ m.port = v) <=> (e.name = "list_port" /\ e.value = v)
        /\ (m.type = "hostname" /\ m.hostname = v) <=> (e.name = "list_hostname" /\ e.value = v)
    <3>1. CASE e.name = "list_port" /\ m = MemberPort(e.value)
      <4>1. m.type = "port" /\ m.port = e.value
        BY <3>1 DEF MemberPort
      <4>2. m.type # "hostname" /\ e.name # "list_hostname"
        BY <3>1, <4>1
      <4> QED BY <3>1, <4>1, <4>2, Zenon
    <3>2. CASE e.name = "list_hostname" /\ m = MemberHostname(e.value)
      <4>1. m.type = "hostname" /\ m.hostname = e.value
        BY <3>2 DEF MemberHostname
      <4>2. m.type # "port" /\ e.name # "list_port"
        BY <3>2, <4>1
      <4> QED BY <3>2, <4>1, <4>2, Zenon
    <3> QED BY <3>1, <3>2
  <2> QED BY <2>1, <2>2, <2>3, <2>4, Zenon
<1>11. ListRead(a, d, n + 1)
  BY <1>10, Zenon DEF ListRead
<1>12. TypeRead(a, d)
  BY <1>5, Zenon DEF TypeRead, Collected
<1> QED BY <1>6, <1>8, <1>9, <1>11, <1>12, Zenon DEF Collected

(* One turn of the loop. *)
LEMMA CollectsNext ==
  ASSUME NEW d \in Document, NEW n \in Nat, n + 1 \in 1..Len(d.elements),
         NEW c, Collected(c, d, n), d.elements[n + 1].attribute = "ok"
  PROVE  Collected(Apply(c, d.elements[n + 1]), d, n + 1)
<1> PICK e : e = d.elements[n + 1]
  OBVIOUS
<1>1. e \in Element
  <2>1. d.elements \in Seq(Element)
    BY DocumentShape
  <2> QED BY <2>1, ElementOfSeq
<1>2. /\ e.name \in {"port", "list_port", "pcap", "list_hostname"}
      /\ e.name \in {"port", "list_port"} => e.value \in Nat
      /\ e.name = "pcap" => e.value \in BOOLEAN
      /\ e.name = "list_hostname" => e.value \in Hostname
  BY <1>1, ElementShape
<1>3. CASE e.name = "port"
  <2>1. e.value \in Nat
    BY <1>2, <1>3
  <2> QED BY <1>3, <2>1, CollectsPort, Zenon
<1>4. CASE e.name = "pcap"
  BY <1>2, <1>4, CollectsPcap, Zenon
<1>5. CASE e.name = "list_port"
  <2>1. e.value \in Nat /\ "list_port" # "port" /\ "list_port" # "pcap"
    BY <1>2, <1>5
  <2>2. Apply(c, e) = [c EXCEPT !.block_members = Append(@, MemberPort(e.value))]
    BY <1>5, <2>1, Zenon DEF Apply
  <2>3. MemberPort(e.value) \in Member
    BY <2>1 DEF MemberPort, Member
  <2> QED BY <1>5, <2>2, <2>3, CollectsMember, Zenon
<1>6. CASE e.name = "list_hostname"
  <2>1. /\ e.value \in Hostname /\ "list_hostname" # "port" /\ "list_hostname" # "pcap"
        /\ "list_hostname" # "list_port"
    BY <1>2, <1>6
  <2>2. Apply(c, e) = [c EXCEPT !.block_members = Append(@, MemberHostname(e.value))]
    BY <1>6, <2>1, Zenon DEF Apply
  <2>3. MemberHostname(e.value) \in Member
    BY <2>1 DEF MemberHostname, Member
  <2> QED BY <1>6, <2>2, <2>3, CollectsMember, Zenon
<1> QED BY <1>2, <1>3, <1>4, <1>5, <1>6

(* What is known of the file while it is read, when it was read, and when  *)
(* it was refused.                                                         *)
Sound(n) == /\ doc.load = "loaded" /\ doc.block_type # "grey"
            /\ \A i \in 1..n : doc.elements[i].attribute = "ok"

ReadUpTo(n) == n \in Nat /\ n <= Len(doc.elements) /\ Sound(n) /\ Collected(ret, doc, n)

Reading == result = "none" => /\ conf = Default
                              /\ \/ child = 0 /\ ret = Default
                                 \/ \E n \in Nat : child = n + 1 /\ ReadUpTo(n)
WasRead == result = "ok" => ReadUpTo(Len(doc.elements))
Served == result \in {"serving", "no port"} /\ doc.load # "no --config" =>
            Sound(Len(doc.elements)) /\ Collected(conf, doc, Len(doc.elements))
Failed == result \notin Outcomes =>
            /\ conf = Default
            /\ \/ doc.load # "loaded" \/ doc.block_type = "grey"
               \/ Bad # {} /\ result = Error(doc.elements[Min(Bad)])

FileInv == doc \in Document /\ Reading /\ WasRead /\ Served /\ Failed

LEMMA FileUnchanged ==
  ASSUME FileInv, UNCHANGED <<doc, child, ret, result, conf>>
  PROVE  FileInv'
<1>1. doc' = doc /\ child' = child /\ ret' = ret /\ result' = result /\ conf' = conf
  BY Zenon
<1> USE DEF FileInv
<1>2. Reading' /\ WasRead'
  BY <1>1, Zenon DEF Reading, WasRead, ReadUpTo, Sound
<1>3. Served'
  BY <1>1, Zenon DEF Served, Sound
<1>4. Failed'
  BY <1>1, Zenon DEF Failed, Bad
<1> QED BY <1>1, <1>2, <1>3, <1>4, Zenon

LEMMA DefaultIs ==
  /\ Default \in ConfigType /\ Default.block_type = "none"
  /\ Default.port_number = {} /\ Default.pcap_capture = FALSE /\ Default.block_members = <<>>
<1>1. <<>> \in Seq(Member)
  BY EmptySeq
<1>2. Default.block_type = "none" /\ Default.port_number = {} /\ Default.block_members = <<>>
  BY DEF Default, NoPort
<1>3. Default.pcap_capture = FALSE
  BY Zenon DEF Default
<1>4. FALSE \in BOOLEAN /\ {} \in SUBSET Nat
  BY Zenon
<1>5. "none" \in BlockType
  BY DEF BlockType
<1>6. Default \in ConfigType
  BY <1>1, <1>4, <1>5, Zenon DEF Default, ConfigType, NoPort
<1> QED BY <1>2, <1>3, <1>6

LEMMA RootRead ==
  ASSUME FileInv, ReadRoot
  PROVE  FileInv'
<1> USE DEF FileInv
<1>1. /\ result = "none" /\ child = 0 /\ doc.load # "no --config"
      /\ doc' = doc /\ conf' = conf
  BY Zenon DEF ReadRoot
<1>2. conf = Default /\ ret = Default
  <2>1. \A n \in Nat : n + 1 # 0
    OBVIOUS
  <2> QED BY <1>1, <2>1, Zenon DEF Reading
<1>3. /\ doc.load \in {"loaded", "no --config", "no file", "no root"}
      /\ doc.block_type \in {"absent", "none", "white", "black", "grey"}
      /\ doc.elements \in Seq(Element)
  BY DocumentShape, Zenon
<1>4. ASSUME result' \notin Outcomes, doc.load # "loaded" \/ doc.block_type = "grey"
      PROVE  FileInv'
  <2>1. result' # "none" /\ result' # "ok" /\ result' # "serving" /\ result' # "no port"
    BY <1>4 DEF Outcomes
  <2>2. Reading' /\ WasRead' /\ Served'
    BY <2>1, Zenon DEF Reading, WasRead, Served
  <2>3. Failed'
    BY <1>1, <1>2, <1>4, Zenon DEF Failed
  <2> QED BY <1>1, <2>2, <2>3, Zenon
<1>5. CASE doc.load = "no file"
  <2>1. result' = "Failed to get file."
    BY <1>5, Zenon DEF ReadRoot, Return
  <2>2. result' \notin Outcomes /\ doc.load # "loaded"
    BY <1>5, <2>1 DEF Outcomes
  <2> QED BY <1>4, <2>2
<1>6. CASE doc.load = "no root"
  <2>1. "no root" # "no file" /\ "no root" # "loaded"
    OBVIOUS
  <2>2. result' = "Failed to find root."
    BY <1>6, <2>1, Zenon DEF ReadRoot, Return
  <2>3. result' \notin Outcomes
    BY <2>2 DEF Outcomes
  <2> QED BY <1>4, <1>6, <2>1, <2>3
<1>7. CASE doc.load = "loaded" /\ doc.block_type = "grey"
  <2>1. "loaded" # "no file" /\ "loaded" # "no root"
    OBVIOUS
  <2>2. result' = "Attribute block_type has invalid value"
    BY <1>7, <2>1, Zenon DEF ReadRoot, Return
  <2>3. result' \notin Outcomes
    BY <2>2 DEF Outcomes
  <2> QED BY <1>4, <1>7, <2>3
<1>8. CASE doc.load = "loaded" /\ doc.block_type # "grey"
  <2>1. "loaded" # "no file" /\ "loaded" # "no root"
    OBVIOUS
  <2>2. /\ child' = 1 /\ result' = "none"
        /\ ret' = IF doc.block_type = "absent" THEN Default
                  ELSE [Default EXCEPT !.block_type = doc.block_type]
    BY <1>1, <1>2, <1>8, <2>1, Zenon DEF ReadRoot
  <2>3. ret' \in ConfigType
    <3>1. doc.block_type \in BlockType
      BY <1>3, Zenon DEF BlockType
    <3> QED BY <2>2, <3>1, DefaultIs, Zenon DEF ConfigType
  <2>4. TypeRead(ret', doc)
    <3>1. doc.block_type # "absent" =>
            [Default EXCEPT !.block_type = doc.block_type].block_type = doc.block_type
      BY DefaultIs DEF Default
    <3> QED BY <2>2, <3>1, DefaultIs, Zenon DEF TypeRead
  <2>5. ret'.port_number = {} /\ ret'.block_members = <<>>
    BY <2>2, DefaultIs, SMT DEF Default, NoPort
  <2>6. ret'.pcap_capture = FALSE
    <3>1. CASE doc.block_type = "absent"
      BY <2>2, <3>1, DefaultIs, Zenon
    <3>2. CASE doc.block_type # "absent"
      <4>1. [Default EXCEPT !.block_type = doc.block_type].pcap_capture = Default.pcap_capture
        BY Zenon DEF Default
      <4> QED BY <2>2, <3>2, <4>1, DefaultIs, Zenon
    <3> QED BY <3>1, <3>2
  <2>7. Collected(ret', doc, 0)
    BY <2>3, <2>4, <2>5, <2>6, CollectsNone
  <2>8. 0 \in Nat /\ 0 <= Len(doc.elements) /\ 1 = 0 + 1 /\ 1..0 = {}
    <3>1. Len(doc.elements) \in Nat
      BY <1>3, LenProperties
    <3> QED BY ONLY <3>1, SMT
  <2>9. (0 \in Nat /\ child = 0 + 1 /\ ReadUpTo(0))'
    BY <1>1, <1>8, <2>2, <2>7, <2>8, Zenon DEF ReadUpTo, Sound
  <2>10. Reading'
    BY <1>1, <1>2, <2>9, Zenon DEF Reading
  <2>11. WasRead' /\ Served' /\ Failed'
    BY <2>2 DEF WasRead, Served, Failed, Outcomes
  <2> QED BY <1>1, <2>10, <2>11, Zenon
<1> QED BY <1>1, <1>3, <1>5, <1>6, <1>7, <1>8

LEMMA ChildRead ==
  ASSUME FileInv, ReadChild
  PROVE  FileInv'
<1> USE DEF FileInv
<1> PICK s, e : s = doc.elements /\ e = doc.elements[child]
  OBVIOUS
<1>1. /\ result = "none" /\ child \in DOMAIN s /\ doc' = doc /\ conf' = conf
      /\ IF Error(e) # "none" THEN Return(Error(e))
         ELSE ret' = Apply(ret, e) /\ child' = child + 1 /\ result' = result
  BY Zenon DEF ReadChild
<1>2. s \in Seq(Element) /\ Len(s) \in Nat /\ DOMAIN s = 1..Len(s)
  BY DocumentShape, LenProperties, Zenon
<1>3. PICK n \in Nat : child = n + 1 /\ ReadUpTo(n)
  <2>1. child # 0
    BY ONLY <1>1, <1>2, SMT
  <2> QED BY <1>1, <2>1, Zenon DEF Reading
<1>4. conf = Default
  BY <1>1, Zenon DEF Reading
<1>5. e \in Element /\ n + 1 \in 1..Len(s)
  BY ONLY <1>1, <1>2, <1>3, e = s[child], ElementOfSeq, SMT
<1>6. CASE e.attribute = "ok"
  <2>1. Error(e) = "none"
    BY <1>5, <1>6, ElementShape, Zenon
  <2>2. ret' = Apply(ret, e) /\ child' = child + 1 /\ result' = "none"
    BY <1>1, <2>1, Zenon
  <2>3. Sound(n) /\ Collected(ret, doc, n)
    BY <1>3, Zenon DEF ReadUpTo
  <2>4. Collected(ret', doc, n + 1)
    BY <1>3, <1>5, <1>6, <2>2, <2>3, CollectsNext, Zenon
  <2>5. Sound(n + 1)
    <3>1. \A i \in 1..(n + 1) : i \in 1..n \/ i = n + 1
      OBVIOUS
    <3> QED BY <1>3, <1>6, <2>3, <3>1, Zenon DEF Sound
  <2>6. n + 1 \in Nat /\ n + 1 <= Len(s) /\ child' = (n + 1) + 1
    BY ONLY <1>2, <1>3, <1>5, <2>2, n \in Nat, SMT
  <2>7. \E k \in Nat : child' = k + 1 /\ ReadUpTo(k)'
    <3> PICK k : k = n + 1
      OBVIOUS
    <3>1. ReadUpTo(k)'
      BY <1>1, <2>4, <2>5, <2>6, Zenon DEF ReadUpTo, Sound
    <3> QED BY <2>6, <3>1, Zenon
  <2>8. Reading'
    BY <1>1, <1>4, <2>7, Zenon DEF Reading
  <2>9. WasRead' /\ Served' /\ Failed'
    BY <2>2 DEF WasRead, Served, Failed, Outcomes
  <2> QED BY <1>1, <2>8, <2>9, Zenon
<1>7. CASE e.attribute # "ok"
  <2>1. Error(e) \notin Outcomes
    BY <1>5, <1>7, ElementShape, Zenon
  <2>2. Error(e) # "none"
    BY <2>1 DEF Outcomes
  <2>3. result' = Error(e)
    BY <1>1, <2>2, Zenon DEF Return
  <2>4. child \in Bad /\ Bad \in SUBSET Nat
    <3>1. child \in Bad
      BY <1>1, <1>7, Zenon DEF Bad
    <3>2. Bad \in SUBSET (1..Len(s))
      BY <1>2, Zenon DEF Bad
    <3> QED BY <1>2, <3>1, <3>2
  <2>5. ASSUME NEW y \in Bad PROVE child <= y
    <3>1. y \in 1..Len(s) /\ doc.elements[y].attribute # "ok"
      BY <1>2, Zenon DEF Bad
    <3>2. y \notin 1..n
      BY <1>3, <3>1, Zenon DEF ReadUpTo, Sound
    <3> QED BY ONLY <1>2, <1>3, <3>1, <3>2, n \in Nat, SMT
  <2>6. Min(Bad) = child /\ Bad # {}
    BY <2>4, <2>5, FirstIs
  <2>7. result' # "none" /\ result' # "ok" /\ result' # "serving" /\ result' # "no port"
    BY <2>1, <2>3 DEF Outcomes
  <2>8. Reading' /\ WasRead' /\ Served'
    BY <2>7, Zenon DEF Reading, WasRead, Served
  <2>9. Bad' = Bad
    BY <1>1, Zenon DEF Bad
  <2>10. Failed'
    BY <1>1, <1>4, <2>3, <2>6, <2>9, Zenon DEF Failed
  <2> QED BY <1>1, <2>8, <2>10, Zenon
<1> QED BY <1>6, <1>7

LEMMA EndRead ==
  ASSUME FileInv, ReadEnd
  PROVE  FileInv'
<1> USE DEF FileInv
<1> PICK l : l = Len(doc.elements)
  OBVIOUS
<1>1. /\ result = "none" /\ child = l + 1 /\ result' = "ok" /\ doc' = doc /\ conf' = conf
      /\ ret' = ret
  BY Zenon DEF ReadEnd, Return
<1>2. l \in Nat
  BY DocumentShape, LenProperties
<1>3. PICK n \in Nat : child = n + 1 /\ ReadUpTo(n)
  <2>1. child # 0
    BY ONLY <1>1, <1>2, SMT
  <2> QED BY <1>1, <2>1, Zenon DEF Reading
<1>4. n = l
  BY ONLY <1>1, <1>2, <1>3, n \in Nat, SMT
<1>5. WasRead'
  BY <1>1, <1>3, <1>4, Zenon DEF WasRead, ReadUpTo, Sound
<1>6. Reading' /\ Served' /\ Failed'
  BY <1>1 DEF Reading, Served, Failed, Outcomes
<1> QED BY <1>1, <1>5, <1>6, Zenon

LEMMA ConfSet ==
  ASSUME FileInv, set_conf
  PROVE  FileInv'
<1> USE DEF FileInv
<1>1. doc' = doc /\ result' \in {"no port", "serving"}
  BY Zenon DEF set_conf
<1>2. \/ result = "ok" /\ conf' = ret
      \/ doc.load = "no --config"
  BY Zenon DEF set_conf
<1>3. Reading' /\ WasRead' /\ Failed'
  BY <1>1 DEF Reading, WasRead, Failed, Outcomes
<1>4. Served'
  BY <1>1, <1>2, Zenon DEF Served, WasRead, ReadUpTo, Sound
<1> QED BY <1>1, <1>3, <1>4, Zenon

LEMMA FileStep ==
  ASSUME FileInv, ConfigNext \/ UNCHANGED <<vars, configVars>>
  PROVE  FileInv'
<1>1. CASE Serve \/ UNCHANGED <<vars, configVars>>
  <2>1. UNCHANGED <<doc, child, ret, result, conf>>
    BY <1>1, Zenon DEF Serve, open_stream, Answered, configVars
  <2> QED BY <2>1, FileUnchanged
<1> QED BY <1>1, RootRead, ChildRead, EndRead, ConfSet, Zenon DEF ConfigNext

LEMMA FileInit == ConfigInit => FileInv
<1> SUFFICES ASSUME ConfigInit PROVE FileInv
  OBVIOUS
<1>1. doc \in Document /\ child = 0 /\ ret = Default /\ result = "none" /\ conf = Default
  BY Zenon DEF ConfigInit
<1>2. Reading /\ WasRead /\ Served /\ Failed
  BY <1>1 DEF Reading, WasRead, Served, Failed, Outcomes
<1> QED BY <1>1, <1>2 DEF FileInv

(* How far the file is read, and what read_config() has made of it. *)
THEOREM FileInvariant == ConfigSpec => []FileInv
<1>1. FileInv /\ [ConfigNext]_<<vars, configVars>> => FileInv'
  BY FileStep
<1> QED BY <1>1, FileInit, PTL DEF ConfigSpec

(* A file of any length is accepted as a whole or refused for the first    *)
(* thing that is wrong with it, and then nothing of it is configured.      *)
THEOREM WholeFileOrNothing == ConfigSpec => []AllOrNothing
<1>1. ASSUME FileInv PROVE AllOrNothing
  <2> PICK l : l = Len(doc.elements)
    OBVIOUS
  <2>1. DOMAIN doc.elements = 1..l
    BY <1>1, DocumentShape, LenProperties, Zenon DEF FileInv
  <2>2. ASSUME result \in {"ok", "serving", "no port"}, doc.load # "no --config"
        PROVE  doc.load = "loaded" /\ doc.block_type # "grey" /\ Bad = {}
    <3>1. Sound(l)
      BY <1>1, <2>2 DEF FileInv, WasRead, Served, ReadUpTo
    <3> QED BY <2>1, <3>1, Zenon DEF Sound, Bad
  <2>3. result \notin {"none", "ok", "serving", "no port"} =>
          /\ \/ doc.load # "loaded" \/ doc.block_type = "grey"
             \/ Bad # {} /\ result = Error(doc.elements[Min(Bad)])
          /\ conf = Default
    BY <1>1, Zenon DEF FileInv, Failed, Outcomes
  <2> QED BY <2>2, <2>3, Zenon DEF AllOrNothing
<1>2. FileInv => AllOrNothing
  BY <1>1
<1> QED BY <1>2, FileInvariant, PTL

----------------------------------------------------------------------------
(* Opening streams by the list. *)

(* What open_stream() answered to a CONNECT with a host name. *)
Answer(p, connects) ==
  NameEnds(p) => connects = ~Refused(p[6], CString(From(p, 8) \o <<0>>), p[7] + 256 * p[8])

AskedInv == \/ asked = NotAsked
            \/ result = "serving" /\ Answer(asked.packet, asked.connects)

LEMMA AskedStep ==
  ASSUME PacketInv, AskedInv, ConfigNext \/ UNCHANGED <<vars, configVars>>
  PROVE  AskedInv'
<1>1. CASE asked' = asked /\ result' = result /\ conf' = conf
  BY <1>1, Zenon DEF AskedInv, Answer, Refused, is_matched_hostname, is_matched_port
<1>2. CASE ReadRoot \/ ReadChild \/ ReadEnd \/ set_conf
  <2>1. asked' = asked /\ result \in {"none", "ok"}
    BY <1>2, Zenon DEF ReadRoot, ReadChild, ReadEnd, set_conf
  <2>2. result # "serving"
    BY <2>1
  <2> QED BY <2>1, <2>2, Zenon DEF AskedInv
<1>3. CASE Answered
  BY <1>3, Zenon DEF Answered, AskedInv
<1>4. CASE open_stream /\ result = "serving"
  <2>1. at = "connect" /\ result' = "serving" /\ conf' = conf
    BY <1>4, Zenon DEF open_stream
  <2>2. PICK host \in IF Terminated(inner.destination_hostname)
                      THEN {CString(inner.destination_hostname)} ELSE Hostname :
          asked' = [packet |-> view,
                    connects |-> ~Refused(inner.stream_type, host, inner.destination_port)]
    BY <1>4, Zenon DEF open_stream
  <2> PICK refused : refused = ~Refused(inner.stream_type, host, inner.destination_port)
    OBVIOUS
  <2>3. asked'.packet = view /\ asked'.connects = refused
    BY <2>2, Zenon
  <2>4. ASSUME NameEnds(view)
        PROVE  refused = ~Refused(view[6], CString(From(view, 8) \o <<0>>), view[7] + 256 * view[8])
    <3>1. Bytes(view) /\ Len(view) >= 8 /\ inner = ConnectPacket(From(view, 5))
      BY <2>1 DEF PacketInv, Read
    <3>2. /\ inner.stream_type = view[6] /\ inner.destination_port = view[7] + 256 * view[8]
          /\ Terminated(inner.destination_hostname)
          /\ CString(inner.destination_hostname) = CString(From(view, 8) \o <<0>>)
      BY <2>4, <3>1, Connect, Zenon
    <3>3. host = CString(From(view, 8) \o <<0>>)
      BY <2>2, <3>2, Zenon
    <3> QED BY <3>2, <3>3, Zenon
  <2>5. Answer(view, refused)
    BY <2>4, Zenon DEF Answer
  <2>6. Answer(asked.packet, asked.connects)'
    BY <2>1, <2>3, <2>5, Zenon DEF Answer, Refused, is_matched_hostname, is_matched_port
  <2> QED BY <2>1, <2>6, Zenon DEF AskedInv
<1>5. \/ asked' = asked /\ result' = result /\ conf' = conf
      \/ ReadRoot \/ ReadChild \/ ReadEnd \/ set_conf \/ Answered
      \/ open_stream /\ result = "serving"
  BY Zenon DEF ConfigNext, Serve, configVars
<1> QED BY <1>1, <1>2, <1>3, <1>4, <1>5, Zenon

(* The inductive invariant of the questions: what open_stream() answered   *)
(* is what the block list in force says of the host name and port that it  *)
(* was asked about.                                                        *)
THEOREM AskedInvariant == ConfigSpec => []AskedInv
<1>1. ConfigInit => AskedInv
  BY Zenon DEF ConfigInit, AskedInv
<1>2. PacketInv /\ AskedInv /\ [ConfigNext]_<<vars, configVars>> => AskedInv'
  BY AskedStep
<1> QED BY <1>1, <1>2, PacketInvariant, PTL DEF ConfigSpec

(* The last element of the whole file with a name. *)
LEMMA LastOfIs ==
  ASSUME doc \in Document, NEW name
  PROVE  /\ NoneUpTo(doc, name, Len(doc.elements)) => LastOf(name) = {}
         /\ \A i : LastUpTo(doc, name, Len(doc.elements), i) => LastOf(name) = {doc.elements[i].value}
<1> PICK l : l = Len(doc.elements)
  OBVIOUS
<1> DEFINE named == {i \in DOMAIN doc.elements : doc.elements[i].name = name}
<1>1. DOMAIN doc.elements = 1..l /\ l \in Nat
  BY DocumentShape, LenProperties, Zenon
<1>2. NoneUpTo(doc, name, l) => named = {}
  BY <1>1, Zenon DEF NoneUpTo
<1>3. LastOf(name) = IF named = {} THEN {} ELSE {doc.elements[Max(named)].value}
  BY Zenon DEF LastOf
<1>4. ASSUME NEW i, LastUpTo(doc, name, l, i) PROVE named # {} /\ Max(named) = i
  <2>1. i \in 1..l /\ i \in named
    BY <1>1, <1>4, Zenon DEF LastUpTo
  <2>2. named \in SUBSET (1..l)
    BY <1>1, Zenon
  <2>3. named \in SUBSET Nat
    BY ONLY <1>1, <2>2, SMT
  <2>4. ASSUME NEW y \in named PROVE y <= i
    <3>1. y \in 1..l /\ y \notin (i + 1)..l
      BY <1>1, <1>4, Zenon DEF LastUpTo
    <3> QED BY ONLY <1>1, <2>1, <3>1, SMT
  <2> HIDE DEF named
  <2>5. Max(named) = i
    BY <2>1, <2>3, <2>4, LastIs
  <2> QED BY <2>1, <2>5
<1> QED BY <1>2, <1>3, <1>4, Zenon

LEMMA ServesInv ==
  ASSUME FileInv, AskedInv, result \in {"serving", "no port"}, doc.load = "loaded"
  PROVE  /\ conf.port_number = LastOf("port") /\ conf.pcap_capture = (TRUE \in LastOf("pcap"))
         /\ \A host : is_matched_hostname(host) <=> Listed("list_hostname", host)
         /\ \A port : is_matched_port(port) <=> Listed("list_port", port)
         /\ (conf.block_type = "black" <=> doc.block_type = "black")
         /\ (conf.block_type = "white" <=> doc.block_type = "white")
<1> PICK l : l = Len(doc.elements)
  OBVIOUS
<1>1. doc \in Document /\ Sound(l) /\ Collected(conf, doc, l)
  <2>1. doc.load # "no --config"
    OBVIOUS
  <2> QED BY <2>1, Zenon DEF FileInv, Served
<1>2. doc.elements \in Seq(Element) /\ DOMAIN doc.elements = 1..l /\ l \in Nat
  BY <1>1, DocumentShape, LenProperties, Zenon
<1>3. conf.port_number = LastOf("port")
  BY <1>1, LastOfIs, Zenon DEF Collected, PortRead
<1>4. conf.pcap_capture = (TRUE \in LastOf("pcap"))
  <2>1. CASE conf.pcap_capture = FALSE /\ NoneUpTo(doc, "pcap", l)
    <3>1. LastOf("pcap") = {}
      BY <1>1, <2>1, LastOfIs, Zenon
    <3>2. (TRUE \in {}) = FALSE
      BY ONLY SMT
    <3> QED BY <2>1, <3>1, <3>2, Zenon
  <2>2. CASE \E i \in 1..l : LastUpTo(doc, "pcap", l, i) /\ conf.pcap_capture = doc.elements[i].value
    <3>1. PICK i \in 1..l : LastUpTo(doc, "pcap", l, i) /\ conf.pcap_capture = doc.elements[i].value
      BY <2>2
    <3>2. LastOf("pcap") = {doc.elements[i].value}
      BY <1>1, <3>1, LastOfIs, Zenon
    <3>3. doc.elements[i] \in Element
      BY <1>2, ElementOfSeq
    <3>4. doc.elements[i].attribute = "ok" /\ doc.elements[i].name = "pcap"
      BY <1>1, <3>1, Zenon DEF Sound, LastUpTo
    <3>5. doc.elements[i].value \in BOOLEAN
      BY <3>3, <3>4, ElementShape, Zenon
    <3>6. (TRUE \in {doc.elements[i].value}) = doc.elements[i].value
      <4> PICK v : v = doc.elements[i].value
        OBVIOUS
      <4>1. v = TRUE \/ v = FALSE
        BY <3>5, Zenon
      <4>2. (TRUE \in {TRUE}) = TRUE
        BY ONLY SMT
      <4>3. (TRUE \in {FALSE}) = FALSE
        BY ONLY SMT
      <4>4. (TRUE \in {v}) = v
        BY <4>1, <4>2, <4>3, Zenon
      <4> QED BY <4>4, Zenon
    <3> QED BY <3>1, <3>2, <3>6, Zenon
  <2> QED BY <1>1, <2>1, <2>2, Zenon DEF Collected, PcapRead
<1>5. ListRead(conf, doc, l) /\ TypeRead(conf, doc)
  BY <1>1, Zenon DEF Collected
<1>6. ASSUME NEW host PROVE is_matched_hostname(host) <=> Listed("list_hostname", host)
  <2>1. HostnameMember(conf, host) <=> ListedUpTo(doc, "list_hostname", l, host)
    BY <1>5, Zenon DEF ListRead
  <2> QED BY <1>2, <2>1, Zenon DEF HostnameMember, ListedUpTo, is_matched_hostname, Listed
<1>7. ASSUME NEW port PROVE is_matched_port(port) <=> Listed("list_port", port)
  <2>1. PortMember(conf, port) <=> ListedUpTo(doc, "list_port", l, port)
    BY <1>5, Zenon DEF ListRead
  <2> QED BY <1>2, <2>1, Zenon DEF PortMember, ListedUpTo, is_matched_port, Listed
<1>8. /\ conf.block_type = "black" <=> doc.block_type = "black"
      /\ conf.block_type = "white" <=> doc.block_type = "white"
  <2>1. "none" # "black" /\ "none" # "white" /\ "absent" # "black" /\ "absent" # "white"
    OBVIOUS
  <2> QED BY <1>5, <2>1, Zenon DEF TypeRead
<1> QED BY <1>3, <1>4, <1>6, <1>7, <1>8, Zenon

(* The server binds the last port of a file and follows exactly the        *)
(* CONNECTs that its list leaves, compared byte by byte and in full, for a *)
(* file, a list and a message of any length.                               *)
THEOREM TheFileIsServed == ConfigSpec => []ServesTheFile
<1>1. ASSUME FileInv, AskedInv, result \in {"serving", "no port"}, doc.load = "loaded"
      PROVE  NameEnds(asked.packet) /\ asked.packet[6] \in {1, 2} =>
               LET host == CString(From(asked.packet, 8) \o <<0>>)
                   port == asked.packet[7] + 256 * asked.packet[8]
               IN asked.connects =
                    CASE doc.block_type = "black" -> ~(\/ Listed("list_hostname", host)
                                                       \/ Listed("list_port", port))
                      [] doc.block_type = "white" -> /\ Listed("list_hostname", host)
                                                     /\ Listed("list_port", port)
                      [] OTHER -> TRUE
  <2> PICK p, host, port : /\ p = asked.packet /\ host = CString(From(p, 8) \o <<0>>)
                           /\ port = p[7] + 256 * p[8]
    OBVIOUS
  <2> SUFFICES ASSUME NameEnds(p), p[6] \in {1, 2}
               PROVE  asked.connects =
                        CASE doc.block_type = "black" -> ~(\/ Listed("list_hostname", host)
                                                           \/ Listed("list_port", port))
                          [] doc.block_type = "white" -> /\ Listed("list_hostname", host)
                                                         /\ Listed("list_port", port)
                          [] OTHER -> TRUE
    BY Zenon
  <2>1. asked # NotAsked
    <3>1. NotAsked.packet = <<>>
      BY Zenon DEF NotAsked
    <3>2. ~(Len(<<>>) > 8) /\ Len(<<>>) # 8
      OBVIOUS
    <3> QED BY <3>1, <3>2, Zenon DEF NameEnds
  <2>2. asked.connects = ~Refused(p[6], host, port)
    BY <1>1, <2>1, Zenon DEF AskedInv, Answer
  <2>3. /\ is_matched_hostname(host) <=> Listed("list_hostname", host)
        /\ is_matched_port(port) <=> Listed("list_port", port)
        /\ (conf.block_type = "black" <=> doc.block_type = "black")
        /\ (conf.block_type = "white" <=> doc.block_type = "white")
    BY <1>1, ServesInv, Zenon
  <2>4. "black" # "white"
    OBVIOUS
  <2>5. Refused(p[6], host, port) <=>
          \/ doc.block_type = "black" /\ (Listed("list_hostname", host) \/ Listed("list_port", port))
          \/ doc.block_type = "white" /\ ~(Listed("list_hostname", host) /\ Listed("list_port", port))
    BY <2>3, Zenon DEF Refused
  <2>6. CASE doc.block_type = "black"
    <3>1. (~Refused(p[6], host, port)) = ~(Listed("list_hostname", host) \/ Listed("list_port", port))
      BY <2>4, <2>5, <2>6, Zenon
    <3> QED BY <2>2, <2>4, <2>6, <3>1, Zenon
  <2>7. CASE doc.block_type = "white"
    <3>1. (~Refused(p[6], host, port)) = (Listed("list_hostname", host) /\ Listed("list_port", port))
      BY <2>4, <2>5, <2>7, Zenon
    <3> QED BY <2>2, <2>4, <2>7, <3>1, Zenon
  <2>8. CASE doc.block_type # "black" /\ doc.block_type # "white"
    <3>1. (~Refused(p[6], host, port)) = TRUE
      BY <2>5, <2>8, Zenon
    <3> QED BY <2>2, <2>8, <3>1, Zenon
  <2> QED BY <2>6, <2>7, <2>8, Zenon
<1>2. FileInv /\ AskedInv => ServesTheFile
  BY <1>1, ServesInv, Zenon DEF ServesTheFile
<1> QED BY <1>2, FileInvariant, AskedInvariant, PTL
=============================================================================
