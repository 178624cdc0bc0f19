------------------------- MODULE OscMessage_proofs -------------------------
(***************************************************************************)
(* OSC messages of any values and any bytes: what a sender pushes arrives, *)
(* what a receiver accepts it has understood to the last byte, the chain   *)
(* of calls tells the truth, and no message is the beginning of another.   *)
(***************************************************************************)
EXTENDS OscMessage, FlattenLemmas

Byte == 0..255

\* The bytes w are in raw, behind the first p bytes.
Holds(raw, p, w) == p + Len(w) <= Len(raw) /\ \A i \in 1..Len(w) : raw[p + i] = w[i]

-----------------------------------------------------------------------------
(* Places *)

\* The least of a set of numbers that is not empty.
LEMMA MinIsLeast ==
    ASSUME NEW T, T \subseteq Nat, T # {}
    PROVE  Min(T) \in T /\ \A y \in T : Min(T) <= y
<1>1. \E n \in T : \A m \in T : n <= m
    BY LeastNat
<1> QED
    BY <1>1 DEF Min

\* Concatenation, place by place.
LEMMA Places ==
    ASSUME NEW S, NEW a \in Seq(S), NEW b \in Seq(S)
    PROVE  /\ Len(a) \in Nat /\ Len(b) \in Nat
           /\ a \o b \in Seq(S) /\ Len(a \o b) = Len(a) + Len(b)
           /\ \A i \in 1..Len(a) : (a \o b)[i] = a[i]
           /\ \A i \in 1..Len(b) : (a \o b)[Len(a) + i] = b[i]
<1>1. /\ Len(a) \in Nat /\ Len(b) \in Nat
      /\ a \o b \in Seq(S) /\ Len(a \o b) = Len(a) + Len(b)
      /\ \A i \in 1..(Len(a) + Len(b)) : (a \o b)[i] = IF i <= Len(a) THEN a[i] ELSE b[i - Len(a)]
    BY ConcatProperties, LenProperties
<1> QED
    BY <1>1

LEMMA JoinedPlaces ==
    ASSUME NEW S, NEW a \in Seq(S), NEW b \in Seq(S)
    PROVE  /\ Len(a) \in Nat /\ Len(b) \in Nat
           /\ Joined(a, b) \in Seq(S) /\ Len(Joined(a, b)) = Len(a) + Len(b)
           /\ \A i \in 1..Len(a) : Joined(a, b)[i] = a[i]
           /\ \A i \in 1..Len(b) : Joined(a, b)[Len(a) + i] = b[i]
BY Places DEF Joined

LEMMA JoinedLen ==
    ASSUME NEW S, NEW a \in Seq(S), NEW b \in Seq(S)
    PROVE  Len(Joined(a, b)) = Len(a) + Len(b)
BY JoinedPlaces

\* What is in the parts is in the whole.
LEMMA HoldsParts ==
    ASSUME NEW S, NEW a \in Seq(S), NEW b \in Seq(S)
    PROVE  Holds(a \o b, 0, a) /\ Holds(a \o b, Len(a), b)
<1> DEFINE c == a \o b
<1>1. /\ Len(a) \in Nat /\ Len(b) \in Nat /\ Len(c) = Len(a) + Len(b)
      /\ \A i \in 1..Len(a) : c[i] = a[i]
      /\ \A i \in 1..Len(b) : c[Len(a) + i] = b[i]
    BY Places
<1> HIDE DEF c
<1>2. Holds(c, 0, a) /\ Holds(c, Len(a), b)
    BY <1>1 DEF Holds
<1> QED
    BY <1>2 DEF c

\* And it stays there when more is appended.
LEMMA HoldsLonger ==
    ASSUME NEW S, NEW a \in Seq(S), NEW b \in Seq(S),
           NEW p \in Nat, NEW w \in Seq(S), Holds(a, p, w)
    PROVE  Holds(a \o b, p, w)
<1> DEFINE c == a \o b
<1>1. /\ Len(a) \in Nat /\ Len(b) \in Nat /\ Len(c) = Len(a) + Len(b) /\ Len(w) \in Nat
      /\ \A i \in 1..Len(a) : c[i] = a[i]
    BY Places, LenProperties
<1> HIDE DEF c
<1>2. Holds(c, p, w)
    BY <1>1, SMTT(30) DEF Holds
<1> QED
    BY <1>2 DEF c

\* A part of a part is a part of the whole.
LEMMA HoldsDeeper ==
    ASSUME NEW raw, NEW p \in Nat, NEW q \in Nat, NEW S, NEW v \in Seq(S), NEW w \in Seq(S),
           Len(raw) \in Nat, Holds(raw, p, w), Holds(w, q, v)
    PROVE  Holds(raw, p + q, v)
<1>1. Len(v) \in Nat /\ Len(w) \in Nat
    BY LenProperties
<1>2. p + q + Len(v) <= Len(raw)
    BY <1>1 DEF Holds
<1>3. ASSUME NEW i \in 1..Len(v)
      PROVE  raw[p + q + i] = v[i]
  <2>1. w[q + i] = v[i]
      BY DEF Holds
  <2>2. q + i \in 1..Len(w)
      BY <1>1 DEF Holds
  <2>3. raw[p + (q + i)] = w[q + i]
      BY <2>2 DEF Holds
  <2>4. p + (q + i) = p + q + i
      BY <1>1
  <2> QED
      BY <2>1, <2>3, <2>4
<1> QED
    BY <1>2, <1>3 DEF Holds

\* The bytes at a place are those that are read from there.
LEMMA HoldsRead ==
    ASSUME NEW S, NEW raw \in Seq(S), NEW w \in Seq(S), NEW p \in Nat, Holds(raw, p, w)
    PROVE  SubSeq(raw, p + 1, p + Len(w)) = w
<1>1. Len(raw) \in Nat /\ Len(w) \in Nat /\ p + Len(w) <= Len(raw)
    BY LenProperties DEF Holds
<1>2. \A i \in (p + 1)..(p + Len(w)) : raw[i] \in S
    BY <1>1, ElementOfSeq
<1>3. /\ SubSeq(raw, p + 1, p + Len(w)) \in Seq(S)
      /\ Len(SubSeq(raw, p + 1, p + Len(w))) = Len(w)
      /\ \A i \in 1..Len(w) : SubSeq(raw, p + 1, p + Len(w))[i] = raw[p + i]
    BY <1>1, <1>2, SubSeqProperties
<1>4. \A i \in 1..Len(w) : SubSeq(raw, p + 1, p + Len(w))[i] = w[i]
    BY <1>3 DEF Holds
<1> QED
    BY <1>3, <1>4, SeqEqual

-----------------------------------------------------------------------------
(* Padding *)

\* The next multiple of four.
LEMMA CeilFacts ==
    ASSUME NEW n \in Nat
    PROVE  Ceil4(n) \in Nat /\ n <= Ceil4(n) /\ Ceil4(n) <= n + 3 /\ Ceil4(n) % 4 = 0
BY DEF Ceil4

LEMMA CeilShift ==
    ASSUME NEW p \in Nat, NEW n \in Nat, p % 4 = 0
    PROVE  Ceil4(p + n) = p + Ceil4(n) /\ Ceil4(p) = p
<1>1. PICK q \in Nat : p = 4 * q
  <2>1. p \div 4 \in Nat /\ p = 4 * (p \div 4)
      OBVIOUS
  <2> QED
      BY <2>1
<1> QED
    BY <1>1 DEF Ceil4

LEMMA FoursAdd ==
    ASSUME NEW a \in Nat, NEW b \in Nat, a % 4 = 0, b % 4 = 0
    PROVE  (a + b) % 4 = 0
<1>1. PICK m \in Nat : a = 4 * m
  <2>1. a \div 4 \in Nat /\ a = 4 * (a \div 4)
      OBVIOUS
  <2> QED
      BY <2>1
<1>2. PICK n \in Nat : b = 4 * n
  <2>1. b \div 4 \in Nat /\ b = 4 * (b \div 4)
      OBVIOUS
  <2> QED
      BY <2>1
<1>3. a + b = 4 * (m + n)
    BY <1>1, <1>2
<1> QED
    BY <1>3

\* Padding adds up to three zeros.
LEMMA ZerosFacts ==
    ASSUME NEW n \in Nat
    PROVE  Zeros(n) \in Seq(Byte) /\ Len(Zeros(n)) = n /\ \A i \in 1..n : Zeros(n)[i] = 0
<1>1. Zeros(n) = [i \in 1..n |-> 0]
    BY DEF Zeros
<1>2. \A i \in 1..n : 0 \in Byte
    BY DEF Byte
<1>3. Zeros(n) \in [1..n -> Byte]
    BY <1>1, <1>2
<1>4. Zeros(n) \in Seq(Byte)
    BY <1>3, SeqDef
<1>5. Len(Zeros(n)) = n
    BY <1>1, <1>4, LenProperties
<1> QED
    BY <1>1, <1>4, <1>5

LEMMA PaddedFacts ==
    ASSUME NEW w \in Seq(Byte)
    PROVE  /\ Padded(w) \in Seq(Byte) /\ Len(Padded(w)) = Ceil4(Len(w))
           /\ Len(w) \in Nat
           /\ \A i \in 1..Len(w) : Padded(w)[i] = w[i]
           /\ \A i \in (Len(w) + 1)..Ceil4(Len(w)) : Padded(w)[i] = 0
<1>1. Len(w) \in Nat
    BY LenProperties
<1>2. Ceil4(Len(w)) \in Nat /\ Len(w) <= Ceil4(Len(w))
    BY <1>1, CeilFacts
<1>3. PICK n \in Nat : n = Ceil4(Len(w)) - Len(w)
    BY <1>1, <1>2
<1>4. PICK z \in Seq(Byte) : z = Zeros(n) /\ Len(z) = n /\ \A i \in 1..n : z[i] = 0
    BY ZerosFacts
<1>5. Padded(w) = Joined(w, z)
    BY <1>3, <1>4 DEF Padded, Joined
<1>6. /\ Joined(w, z) \in Seq(Byte) /\ Len(Joined(w, z)) = Len(w) + Len(z)
      /\ \A i \in 1..Len(w) : Joined(w, z)[i] = w[i]
      /\ \A i \in 1..Len(z) : Joined(w, z)[Len(w) + i] = z[i]
  <2>1. Joined(w, z) \in Seq(Byte)
      BY JoinedPlaces
  <2>2. Len(Joined(w, z)) = Len(w) + Len(z)
      BY JoinedPlaces
  <2>3. \A i \in 1..Len(w) : Joined(w, z)[i] = w[i]
      BY JoinedPlaces
  <2>4. \A i \in 1..Len(z) : Joined(w, z)[Len(w) + i] = z[i]
      BY JoinedPlaces
  <2> QED
      BY <2>1, <2>2, <2>3, <2>4
<1>7. ASSUME NEW i \in (Len(w) + 1)..Ceil4(Len(w))
      PROVE  Padded(w)[i] = 0
  <2>1. i - Len(w) \in 1..n /\ i = Len(w) + (i - Len(w))
      BY <1>1, <1>2, <1>3
  <2>2. Joined(w, z)[Len(w) + (i - Len(w))] = z[i - Len(w)]
      BY <1>4, <1>6, <2>1
  <2> QED
      BY <1>4, <1>5, <2>1, <2>2
<1> QED
    BY <1>1, <1>2, <1>3, <1>4, <1>5, <1>6, <1>7

\* What is held with its padding is held, with zeros behind it.
LEMMA HoldsPadded ==
    ASSUME NEW raw \in Seq(Byte), NEW p \in Nat, p % 4 = 0, NEW w \in Seq(Byte),
           Holds(raw, p, Padded(w))
    PROVE  /\ Holds(raw, p, w) /\ ZeroPadding(raw, p + Len(w))
           /\ p + Ceil4(Len(w)) <= Len(raw) /\ Len(w) \in Nat
<1>1. /\ Len(Padded(w)) = Ceil4(Len(w)) /\ Len(w) \in Nat
      /\ \A i \in 1..Len(w) : Padded(w)[i] = w[i]
      /\ \A i \in (Len(w) + 1)..Ceil4(Len(w)) : Padded(w)[i] = 0
    BY PaddedFacts
<1>2. Ceil4(Len(w)) \in Nat /\ Len(w) <= Ceil4(Len(w)) /\ Ceil4(p + Len(w)) = p + Ceil4(Len(w))
    BY <1>1, CeilFacts, CeilShift
<1>3. Len(raw) \in Nat /\ DOMAIN raw = 1..Len(raw)
    BY LenProperties
<1>4. p + Ceil4(Len(w)) <= Len(raw) /\ \A i \in 1..Ceil4(Len(w)) : raw[p + i] = Padded(w)[i]
    BY <1>1 DEF Holds
<1>5. Holds(raw, p, w)
  <2>1. p + Len(w) <= Len(raw)
      BY <1>1, <1>2, <1>3, <1>4
  <2>2. ASSUME NEW i \in 1..Len(w) PROVE raw[p + i] = w[i]
    <3>1. i \in 1..Ceil4(Len(w))
        BY <1>1, <1>2
    <3> QED
        BY <1>1, <1>4, <3>1
  <2> QED
      BY <2>1, <2>2 DEF Holds
<1>6. ASSUME NEW i \in (p + Len(w) + 1)..Ceil4(p + Len(w))
      PROVE  At(raw, i) = 0
  <2>0. i \in (p + Len(w) + 1)..(p + Ceil4(Len(w)))
      BY <1>2
  <2>a. PICK len \in Nat : len = Len(w)
      BY <1>1
  <2>b. PICK end \in Nat : end = Ceil4(Len(w))
      BY <1>2
  <2>c. PICK all \in Nat : all = Len(raw) /\ DOMAIN raw = 1..all
      BY <1>3, Zenon
  <2>d. i \in (p + len + 1)..(p + end)
      BY <2>0, <2>a, <2>b
  <2>1. i - p \in (Len(w) + 1)..Ceil4(Len(w)) /\ i = p + (i - p) /\ i - p \in 1..Ceil4(Len(w))
    <3>1. i - p \in (len + 1)..end /\ i = p + (i - p) /\ i - p \in 1..end
        BY <2>d
    <3> QED
        BY <2>a, <2>b, <3>1
  <2>2. raw[p + (i - p)] = Padded(w)[i - p]
      BY <1>4, <2>1
  <2>3. Padded(w)[i - p] = 0
      BY <1>1, <2>1
  <2>4. i \in DOMAIN raw
    <3>1. p + end <= all
        BY <1>4, <2>b, <2>c
    <3>2. i \in 1..all
        BY <2>d, <3>1
    <3> QED
        BY <2>c, <3>2, Zenon
  <2> QED
      BY <2>1, <2>2, <2>3, <2>4 DEF At
<1> QED
    BY <1>1, <1>4, <1>5, <1>6 DEF ZeroPadding

\* A text ends at the first 0.
LEMMA TextEnds ==
    ASSUME NEW raw \in Seq(Byte), NEW p \in Nat, NEW n \in Nat, p + n < Len(raw),
           \A i \in 1..n : raw[p + i] # 0, raw[p + n + 1] = 0
    PROVE  EndOfText(raw, p) = p + n
<1> DEFINE T == {i \in p..Len(raw) : i = Len(raw) \/ raw[i + 1] = 0}
<1>1. Len(raw) \in Nat
    BY LenProperties
<1>2. T \subseteq Nat /\ p + n \in T
    BY <1>1
<1>3. Min(T) \in T /\ \A y \in T : Min(T) <= y
  <2> HIDE DEF T
  <2> QED
      BY <1>2, MinIsLeast
<1>4. ASSUME NEW i \in T, i < p + n
      PROVE  FALSE
  <2>1. i \in Nat /\ p <= i /\ raw[i + 1] = 0
      BY <1>1, <1>4
  <2>2. (i + 1) - p \in 1..n /\ i + 1 = p + ((i + 1) - p)
      BY <1>4, <2>1
  <2>3. raw[p + ((i + 1) - p)] # 0
      BY <2>2
  <2> QED
      BY <2>1, <2>2, <2>3
<1>5. Min(T) = p + n
  <2>1. Min(T) \in Nat /\ Min(T) <= p + n /\ ~(Min(T) < p + n)
    <3> HIDE DEF T
    <3> QED
        BY <1>2, <1>3, <1>4
  <2> QED
      BY <2>1
<1> QED
    BY <1>5 DEF EndOfText

-----------------------------------------------------------------------------
(* Numbers *)

\* What 32 bits hold.
IsInt32(v) == v \in Int /\ -MaxInt - 1 <= v /\ v <= MaxInt

\* A number in base 256.
LEMMA Base256 ==
    ASSUME NEW v \in Int
    PROVE  /\ v = 256 * (v \div 256) + (v % 256)
           /\ v \div 65536 = (v \div 256) \div 256
           /\ v \div 16777216 = (v \div 65536) \div 256
<1>1. PICK v1 \in Int : v1 = v \div 256
    OBVIOUS
<1>2. PICK d \in 0..255 : d = v % 256
    OBVIOUS
<1>3. v = 256 * v1 + d
    BY <1>1, <1>2
<1>4. PICK v2 \in Int : v2 = v1 \div 256
    OBVIOUS
<1>5. PICK c \in 0..255 : c = v1 % 256
    OBVIOUS
<1>6. v1 = 256 * v2 + c
    BY <1>4, <1>5
<1>7. v \div 65536 = v2
    BY <1>3, <1>6
<1>8. PICK v3 \in Int : v3 = v2 \div 256
    OBVIOUS
<1>9. PICK b \in 0..255 : b = v2 % 256
    OBVIOUS
<1>10. v2 = 256 * v3 + b
    BY <1>8, <1>9
<1>11. v \div 16777216 = v3
  <2>1. v = 16777216 * v3 + (65536 * b + 256 * c + d)
      BY <1>3, <1>6, <1>10
  <2>2. 0 <= 65536 * b + 256 * c + d /\ 65536 * b + 256 * c + d < 16777216
      OBVIOUS
  <2>3. PICK low \in Int : low = 65536 * b + 256 * c + d
      OBVIOUS
  <2> QED
      BY <2>1, <2>2, <2>3
<1>12. v = 256 * (v \div 256) + (v % 256)
    BY <1>1, <1>2, <1>3
<1>13. v \div 65536 = (v \div 256) \div 256
    BY <1>1, <1>4, <1>7
<1>14. v \div 16777216 = (v \div 65536) \div 256
    BY <1>7, <1>8, <1>11
<1> QED
    BY <1>12, <1>13, <1>14

\* Four bytes and what they are as a sequence.
LEMMA FourBytes ==
    ASSUME NEW a \in Byte, NEW b \in Byte, NEW c \in Byte, NEW d \in Byte
    PROVE  /\ <<a, b, c, d>> \in Seq(Byte) /\ Len(<<a, b, c, d>>) = 4
           /\ <<a, b, c, d>>[1] = a /\ <<a, b, c, d>>[2] = b
           /\ <<a, b, c, d>>[3] = c /\ <<a, b, c, d>>[4] = d
OBVIOUS

\* What the bytes of a number are.
LEMMA Int32Digits ==
    ASSUME NEW v \in Int
    PROVE  \E h \in Int, a \in Byte, b \in Byte, c \in Byte, d \in Byte :
              /\ h = v \div 16777216 /\ a = h % 256
              /\ v = h * 16777216 + b * 65536 + c * 256 + d
              /\ Int32Bytes(v) = <<a, b, c, d>>
<1>1. PICK v1 \in Int : v1 = v \div 256
    OBVIOUS
<1>2. PICK v2 \in Int : v2 = v \div 65536
    OBVIOUS
<1>3. PICK h \in Int : h = v \div 16777216
    OBVIOUS
<1>4. PICK d \in Byte : d = v % 256
    BY DEF Byte
<1>5. PICK c \in Byte : c = v1 % 256
    BY DEF Byte
<1>6. PICK b \in Byte : b = v2 % 256
    BY DEF Byte
<1>7. PICK a \in Byte : a = h % 256
    BY DEF Byte
<1>8. v = 256 * v1 + d
    BY <1>1, <1>4, Base256
<1>9. v1 = 256 * v2 + c
  <2>1. v2 = v1 \div 256
      BY <1>1, <1>2, Base256
  <2> QED
      BY <2>1, <1>5, Base256
<1>10. v2 = 256 * h + b
  <2>1. h = v2 \div 256
      BY <1>2, <1>3, Base256
  <2> QED
      BY <2>1, <1>6, Base256
<1>11. v = h * 16777216 + b * 65536 + c * 256 + d
    BY <1>8, <1>9, <1>10 DEF Byte
<1>12. Int32Bytes(v) = <<a, b, c, d>>
    BY <1>1, <1>2, <1>3, <1>4, <1>5, <1>6, <1>7 DEF Int32Bytes
<1> QED
    BY <1>3, <1>7, <1>11, <1>12

LEMMA Int32BytesFacts ==
    ASSUME NEW v \in Int
    PROVE  Int32Bytes(v) \in Seq(Byte) /\ Len(Int32Bytes(v)) = 4
<1>1. PICK h \in Int, a \in Byte, b \in Byte, c \in Byte, d \in Byte :
              Int32Bytes(v) = <<a, b, c, d>>
    BY Int32Digits
<1> QED
    BY <1>1, FourBytes

\* pod2bytes and bytes2pod are each other's inverse.
THEOREM Int32Survives == \A v : IsInt32(v) => Int32Of(Int32Bytes(v)) = v
<1> SUFFICES ASSUME NEW v, IsInt32(v) PROVE Int32Of(Int32Bytes(v)) = v
    OBVIOUS
<1>0. v \in Int /\ -2147483648 <= v /\ v <= 2147483647
    BY SMT DEF IsInt32, MaxInt
<1>1. PICK h \in Int, a \in Byte, b \in Byte, c \in Byte, d \in Byte :
              /\ h = v \div 16777216 /\ a = h % 256
              /\ v = h * 16777216 + b * 65536 + c * 256 + d
              /\ Int32Bytes(v) = <<a, b, c, d>>
    BY <1>0, Int32Digits
<1>2. -128 <= h /\ h <= 127
    BY <1>0, <1>1
<1>3. h = IF a < 128 THEN a ELSE a - 256
    BY <1>1, <1>2
<1>4. Int32Of(<<a, b, c, d>>) =
          (IF a < 128 THEN a ELSE a - 256) * 16777216 + b * 65536 + c * 256 + d
    BY FourBytes DEF Int32Of
<1> QED
    BY <1>1, <1>3, <1>4

\* And every four bytes are those of one int of 32 bits: bytes2pod and pod2bytes
\* are inverse to each other.
THEOREM BytesSurvive ==
    \A w \in Seq(Byte) : Len(w) = 4 => IsInt32(Int32Of(w)) /\ Int32Bytes(Int32Of(w)) = w
<1> SUFFICES ASSUME NEW w \in Seq(Byte), Len(w) = 4
             PROVE  IsInt32(Int32Of(w)) /\ Int32Bytes(Int32Of(w)) = w
    OBVIOUS
<1>0. w[1] \in Byte /\ w[2] \in Byte /\ w[3] \in Byte /\ w[4] \in Byte
  <2>1. \A i \in 1..4 : w[i] \in Byte
      BY ElementOfSeq
  <2> QED
      BY <2>1
<1>1. PICK a \in Byte : a = w[1]
    BY <1>0
<1>2. PICK b \in Byte : b = w[2]
    BY <1>0
<1>3. PICK c \in Byte : c = w[3]
    BY <1>0
<1>4. PICK d \in Byte : d = w[4]
    BY <1>0
<1>5. PICK h \in Int : h = IF a < 128 THEN a ELSE a - 256
    BY DEF Byte
<1>6. h % 256 = a /\ -128 <= h /\ h <= 127
  <2>1. a \in Int /\ 0 <= a /\ a <= 255
      BY DEF Byte
  <2> QED
      BY <1>5, <2>1
<1>7. PICK v \in Int : v = h * 16777216 + b * 65536 + c * 256 + d
  <2>1. b \in Int /\ c \in Int /\ d \in Int
      BY DEF Byte
  <2>2. h * 16777216 + b * 65536 + c * 256 + d \in Int
      BY <2>1
  <2> QED
      BY <2>2
<1>8. v = Int32Of(w)
    BY <1>1, <1>2, <1>3, <1>4, <1>5, <1>7 DEF Int32Of
<1>9. IsInt32(v)
    BY <1>6, <1>7, SMT DEF IsInt32, Byte, MaxInt
<1>10. v % 256 = d
    BY <1>7 DEF Byte
<1>11. (v \div 256) % 256 = c
  <2>1. v \div 256 = h * 65536 + b * 256 + c
      BY <1>7 DEF Byte
  <2> QED
      BY <2>1 DEF Byte
<1>12. (v \div 65536) % 256 = b
  <2>1. v \div 65536 = h * 256 + b
      BY <1>7 DEF Byte
  <2> QED
      BY <2>1 DEF Byte
<1>13. v \div 16777216 = h
    BY <1>7 DEF Byte
<1>14. Int32Bytes(v) = <<a, b, c, d>>
    BY <1>6, <1>10, <1>11, <1>12, <1>13 DEF Int32Bytes
<1>15. w = <<a, b, c, d>>
  <2>1. \A i \in 1..4 : w[i] = <<a, b, c, d>>[i]
      BY <1>1, <1>2, <1>3, <1>4, FourBytes
  <2> QED
      BY <2>1, FourBytes, SeqEqual
<1> QED
    BY <1>8, <1>9, <1>14, <1>15

-----------------------------------------------------------------------------
(* A value's bytes *)

Pods == {Int32Tag, FloatTag, Int64Tag, DoubleTag}

LEMMA TagsApart ==
    /\ DOMAIN PodSize = Pods /\ \A tag \in Pods : PodSize[tag] \in {4, 8}
    /\ Bools \cap Pods = {} /\ StringTag \notin Bools \cup Pods /\ BlobTag \notin Bools \cup Pods
    /\ StringTag # BlobTag
BY DEF PodSize, Pods, Bools, TrueTag, FalseTag, Int32Tag, FloatTag, Int64Tag, DoubleTag,
       StringTag, BlobTag

LEMMA ValueFacts ==
    ASSUME NEW v \in Value
    PROVE  /\ v.tag \in Bools \cup Pods \cup {StringTag, BlobTag}
           /\ v = [tag |-> v.tag, bytes |-> v.bytes]
           /\ v.bytes \in Seq(Byte) /\ Len(v.bytes) \in Nat /\ Len(v.bytes) < MaxInt
           /\ v.tag \in Bools => v.bytes = <<>>
           /\ v.tag \in Pods => Len(v.bytes) = PodSize[v.tag]
           /\ v.tag = StringTag => \A i \in 1..Len(v.bytes) : v.bytes[i] # 0
<1>1. /\ v \in [tag : Bools \cup Pods \cup {StringTag, BlobTag}, bytes : Seq(0..255)]
      /\ v.tag \in Bools => v.bytes = <<>>
      /\ v.tag \in Pods => Len(v.bytes) = PodSize[v.tag]
      /\ v.tag = StringTag => v.bytes \in Seq(1..255)
      /\ Len(v.bytes) < MaxInt
    BY TagsApart DEF Value
<1>2. v.bytes \in Seq(Byte)
    BY <1>1 DEF Byte
<1>3. Len(v.bytes) \in Nat
    BY <1>2, LenProperties
<1>4. ASSUME v.tag = StringTag, NEW i \in 1..Len(v.bytes)
      PROVE  v.bytes[i] # 0
  <2>1. PICK b \in 1..255 : v.bytes[i] = b
      BY <1>1, <1>4, ElementOfSeq
  <2>2. b # 0
      OBVIOUS
  <2> QED
      BY <2>1, <2>2
<1> QED
    BY <1>1, <1>2, <1>3, <1>4

\* What is stored of a value of each type.
LEMMA StoredPlain ==
    ASSUME NEW v \in Value, v.tag \in Bools \cup Pods
    PROVE  Stored(v) = v.bytes
<1>1. v.tag # StringTag /\ v.tag # BlobTag
    BY TagsApart
<1> QED
    BY <1>1 DEF Stored

LEMMA StoredString ==
    ASSUME NEW v \in Value, v.tag = StringTag
    PROVE  Stored(v) = Append(v.bytes, 0) /\ Len(Stored(v)) = Len(v.bytes) + 1
           /\ Stored(v) \in Seq(Byte)
<1>1. v.bytes \in Seq(Byte) /\ 0 \in Byte
    BY ValueFacts DEF Byte
<1>2. Stored(v) = CString(v.bytes)
    BY TagsApart DEF Stored
<1>3. PICK w \in Seq(Byte) : w = Append(v.bytes, 0) /\ Len(w) = Len(v.bytes) + 1
  <2>1. Append(v.bytes, 0) \in Seq(Byte)
      BY <1>1, AppendProperties
  <2>2. Len(Append(v.bytes, 0)) = Len(v.bytes) + 1
      BY <1>1, AppendProperties
  <2> QED
      BY <2>1, <2>2
<1> QED
    BY <1>2, <1>3 DEF CString

LEMMA StoredBlob ==
    ASSUME NEW v \in Value, v.tag = BlobTag
    PROVE  Stored(v) = Joined(Int32Bytes(Len(v.bytes)), v.bytes)
           /\ Len(Stored(v)) = Len(v.bytes) + 4 /\ Stored(v) \in Seq(Byte)
<1>1. v.bytes \in Seq(Byte) /\ Len(v.bytes) \in Nat
    BY ValueFacts
<1>2. PICK size \in Seq(Byte) : size = Int32Bytes(Len(v.bytes)) /\ Len(size) = 4
    BY <1>1, Int32BytesFacts
<1>3. Stored(v) = Joined(size, v.bytes)
  <2>1. v.tag # StringTag
      BY TagsApart
  <2> QED
      BY <1>2, <2>1 DEF Stored, Joined
<1>4. Joined(size, v.bytes) \in Seq(Byte) /\ Len(Joined(size, v.bytes)) = Len(size) + Len(v.bytes)
  <2>1. Joined(size, v.bytes) \in Seq(Byte)
      BY <1>1, JoinedType
  <2>2. Len(Joined(size, v.bytes)) = Len(size) + Len(v.bytes)
      BY <1>1, JoinedLen
  <2> QED
      BY <2>1, <2>2
<1> QED
    BY <1>1, <1>2, <1>3, <1>4

LEMMA StoredType ==
    ASSUME NEW v \in Value
    PROVE  Stored(v) \in Seq(Byte) /\ Len(Stored(v)) \in Nat
<1>1. v.tag \in Bools \cup Pods \cup {StringTag, BlobTag} /\ v.bytes \in Seq(Byte)
    BY ValueFacts
<1>2. Stored(v) \in Seq(Byte)
    BY <1>1, StoredPlain, StoredString, StoredBlob
<1> QED
    BY <1>2, LenProperties

\* A string's bytes and its 0, where they are in raw.
LEMMA HoldsCString ==
    ASSUME NEW raw \in Seq(Byte), NEW p \in Nat, NEW s \in Seq(Byte),
           \A i \in 1..Len(s) : s[i] # 0, Holds(raw, p, Append(s, 0))
    PROVE  EndOfText(raw, p) = p + Len(s) /\ p + Len(s) < Len(raw) /\ Holds(raw, p, s)
<1>1. Len(s) \in Nat /\ Len(raw) \in Nat
    BY LenProperties
<1>2. /\ Len(Append(s, 0)) = Len(s) + 1
      /\ \A i \in 1..Len(s) : Append(s, 0)[i] = s[i]
      /\ Append(s, 0)[Len(s) + 1] = 0
  <2>1. 0 \in Byte
      BY DEF Byte
  <2> QED
      BY <1>1, <2>1, AppendProperties
<1> DEFINE w == Append(s, 0)
<1>3. p + Len(w) <= Len(raw) /\ \A i \in 1..Len(w) : raw[p + i] = w[i]
    BY DEF Holds
<1>4. Len(w) = Len(s) + 1 /\ w[Len(s) + 1] = 0 /\ \A i \in 1..Len(s) : w[i] = s[i]
    BY <1>2
<1> HIDE DEF w
<1>5. p + Len(s) < Len(raw)
    BY <1>1, <1>3, <1>4
<1>6. \A i \in 1..Len(s) : raw[p + i] = s[i]
    BY <1>1, <1>3, <1>4
<1>7. raw[p + (Len(s) + 1)] = 0
    BY <1>1, <1>3, <1>4
<1>8. p + Len(s) + 1 = p + (Len(s) + 1)
    BY <1>1
<1>9. raw[p + Len(s) + 1] = 0
    BY <1>7, <1>8
<1>10. EndOfText(raw, p) = p + Len(s)
  <2>1. PICK n \in Nat : n = Len(s)
      BY <1>1
  <2>2. /\ p + n < Len(raw)
        /\ \A i \in 1..n : raw[p + i] # 0
        /\ raw[p + n + 1] = 0
      BY <1>5, <1>6, <1>9, <2>1
  <2> QED
      BY <2>1, <2>2, TextEnds
<1>11. Holds(raw, p, s)
    BY <1>1, <1>5, <1>6 DEF Holds
<1> QED
    BY <1>5, <1>10, <1>11

\* A blob's size and its bytes, where they are in raw.
LEMMA HoldsBlob ==
    ASSUME NEW raw \in Seq(Byte), NEW p \in Nat, NEW s \in Seq(Byte),
           Len(s) < MaxInt, Holds(raw, p, Joined(Int32Bytes(Len(s)), s))
    PROVE  BlobSize(raw, p) = Len(s) + 4 /\ p + Len(s) + 4 <= Len(raw) /\ Holds(raw, p + 4, s)
<1>1. Len(s) \in Nat /\ Len(raw) \in Nat
    BY LenProperties
<1>2. PICK size \in Seq(Byte) : size = Int32Bytes(Len(s)) /\ Len(size) = 4
    BY <1>1, Int32BytesFacts
<1>3. PICK w \in Seq(Byte) : w = Joined(size, s) /\ Len(w) = 4 + Len(s)
  <2>1. Joined(size, s) \in Seq(Byte)
      BY JoinedType
  <2>2. Len(Joined(size, s)) = Len(size) + Len(s)
      BY JoinedLen
  <2> QED
      BY <1>2, <2>1, <2>2
<1>4. Holds(w, 0, size) /\ Holds(w, 4, s)
  <2>1. Holds(w, 0, size) /\ Holds(w, Len(size), s)
      BY <1>3, HoldsParts DEF Joined
  <2> QED
      BY <1>2, <2>1
<1>5. Holds(raw, p, w)
    BY <1>2, <1>3
<1>6. Holds(raw, p, size)
  <2>1. Holds(raw, p + 0, size)
      BY <1>1, <1>4, <1>5, HoldsDeeper
  <2> QED
      BY <2>1
<1>7. Holds(raw, p + 4, s)
    BY <1>1, <1>4, <1>5, HoldsDeeper
<1>8. p + Len(s) + 4 <= Len(raw)
    BY <1>1, <1>3, <1>5 DEF Holds
<1>9. SubSeq(raw, p + 1, p + 4) = size
    BY <1>2, <1>6, HoldsRead
<1>10. Int32Of(size) = Len(s)
  <2>1. MaxInt \in Nat
      BY SMT DEF MaxInt
  <2>2. IsInt32(Len(s))
      BY <1>1, <2>1 DEF IsInt32
  <2> QED
      BY <1>2, <2>2, Int32Survives
<1>11. BlobSize(raw, p) = Len(s) + 4
  <2>1. Len(s) \in -4..Len(raw)
      BY <1>1, <1>8
  <2> QED
      BY <1>9, <1>10, <2>1 DEF BlobSize
<1> QED
    BY <1>7, <1>8, <1>11

\* getArgSize's size of each type.
LEMMA ClaimedSizes ==
    ASSUME NEW raw, NEW p, NEW tag
    PROVE  /\ tag \in Bools => ClaimedSize(raw, tag, p) = 0
           /\ tag \in Pods => ClaimedSize(raw, tag, p) = PodSize[tag]
           /\ tag = StringTag /\ EndOfText(raw, p) # Len(raw) =>
                ClaimedSize(raw, tag, p) = EndOfText(raw, p) - p + 1
           /\ tag = BlobTag /\ p # Len(raw) => ClaimedSize(raw, tag, p) = BlobSize(raw, p)
<1>1. tag \in Bools => ClaimedSize(raw, tag, p) = 0
    BY TagsApart DEF ClaimedSize
<1>2. tag \in Pods => ClaimedSize(raw, tag, p) = PodSize[tag]
    BY TagsApart DEF ClaimedSize
<1>3. tag = StringTag /\ EndOfText(raw, p) # Len(raw) =>
                ClaimedSize(raw, tag, p) = EndOfText(raw, p) - p + 1
    BY TagsApart DEF ClaimedSize
<1>4. tag = BlobTag /\ p # Len(raw) => ClaimedSize(raw, tag, p) = BlobSize(raw, p)
    BY TagsApart DEF ClaimedSize
<1> QED
    BY <1>1, <1>2, <1>3, <1>4

\* Where a value's bytes are, with their padding, getArgSize finds its size.
LEMMA ArgSizeStored ==
    ASSUME NEW raw \in Seq(Byte), NEW p \in Nat, p % 4 = 0, NEW v \in Value,
           Holds(raw, p, Padded(Stored(v)))
    PROVE  ArgSize(raw, v.tag, p) = Len(Stored(v)) /\ p + Ceil4(Len(Stored(v))) <= Len(raw)
<1>1. PICK w \in Seq(Byte) : w = Stored(v) /\ Len(w) \in Nat
    BY StoredType
<1>2. Holds(raw, p, w) /\ ZeroPadding(raw, p + Len(w)) /\ p + Ceil4(Len(w)) <= Len(raw)
    BY <1>1, HoldsPadded
<1>3. Len(raw) \in Nat /\ p + Len(w) <= Len(raw)
    BY <1>2, LenProperties DEF Holds
<1>4. v.tag \in Bools \cup Pods \cup {StringTag, BlobTag}
    BY ValueFacts
<1>5. PICK s \in Seq(Byte) : s = v.bytes /\ Len(s) \in Nat /\ Len(s) < MaxInt
    BY ValueFacts
<1>6. ClaimedSize(raw, v.tag, p) = Len(w)
  <2>1. CASE v.tag \in Bools
    <3>1. w = <<>>
        BY <1>1, <2>1, StoredPlain, ValueFacts
    <3>2. Len(w) = 0
        BY <3>1
    <3> QED
        BY <2>1, <3>2, ClaimedSizes
  <2>2. CASE v.tag \in Pods
    <3>1. Len(w) = PodSize[v.tag]
        BY <1>1, <2>2, StoredPlain, ValueFacts
    <3> QED
        BY <2>2, <3>1, ClaimedSizes
  <2>3. CASE v.tag = StringTag
    <3>1. w = Append(s, 0) /\ Len(w) = Len(s) + 1
        BY <1>1, <1>5, <2>3, StoredString
    <3>2. \A i \in 1..Len(s) : s[i] # 0
        BY <1>5, <2>3, ValueFacts
    <3>3. Holds(raw, p, Append(s, 0))
        BY <1>2, <3>1
    <3>4. EndOfText(raw, p) = p + Len(s)
        BY <3>2, <3>3, HoldsCString
    <3>5. EndOfText(raw, p) # Len(raw) /\ EndOfText(raw, p) - p + 1 = Len(w)
      <4>1. PICK n \in Nat : n = Len(s)
          BY <1>5
      <4> QED
          BY <1>3, <3>1, <3>4, <4>1
    <3> QED
        BY <2>3, <3>5, ClaimedSizes
  <2>4. CASE v.tag = BlobTag
    <3>1. w = Joined(Int32Bytes(Len(s)), s) /\ Len(w) = Len(s) + 4
        BY <1>1, <1>5, <2>4, StoredBlob
    <3>2. Holds(raw, p, Joined(Int32Bytes(Len(s)), s))
        BY <1>2, <3>1
    <3>3. BlobSize(raw, p) = Len(s) + 4
        BY <1>5, <3>2, HoldsBlob
    <3>4. p # Len(raw)
        BY <1>3, <1>5, <3>1
    <3> QED
        BY <2>4, <3>1, <3>3, <3>4, ClaimedSizes
  <2> QED
      BY <1>4, <2>1, <2>2, <2>3, <2>4
<1>7. ArgSize(raw, v.tag, p) = Len(w)
  <2>1. Len(w) # -1 /\ ~(p + Len(w) > Len(raw))
      BY <1>1, <1>3
  <2> QED
      BY <1>2, <1>6, <2>1 DEF ArgSize
<1> QED
    BY <1>1, <1>2, <1>7

\* The bytes of an argument: behind a blob's size and in front of a string's 0.
ReadAt(raw, tag, p, size) ==
    SubSeq(raw, p + 1 + (IF tag = BlobTag THEN 4 ELSE 0),
                p + size - (IF tag = StringTag THEN 1 ELSE 0))

\* And reading them there gives the value back.
LEMMA StoredIsRead ==
    ASSUME NEW raw \in Seq(Byte), NEW p \in Nat, p % 4 = 0, NEW v \in Value,
           Holds(raw, p, Padded(Stored(v)))
    PROVE  ReadAt(raw, v.tag, p, Len(Stored(v))) = v.bytes
<1>1. PICK w \in Seq(Byte) : w = Stored(v) /\ Len(w) \in Nat
    BY StoredType
<1>2. Holds(raw, p, w)
    BY <1>1, HoldsPadded
<1>4. /\ v.tag \in Bools \cup Pods \cup {StringTag, BlobTag}
      /\ v.bytes \in Seq(Byte) /\ Len(v.bytes) < MaxInt
    BY ValueFacts
<1>5. PICK s \in Seq(Byte) : s = v.bytes /\ Len(s) < MaxInt
    BY ValueFacts
<1>3. PICK n \in Nat : n = Len(s)
    BY LenProperties
<1>6. CASE v.tag \in Bools \cup Pods
  <2>1. v.tag # StringTag /\ v.tag # BlobTag
      BY <1>6, TagsApart
  <2>2. w = v.bytes
      BY <1>1, <1>6, StoredPlain
  <2>3. SubSeq(raw, p + 1, p + Len(w)) = w
      BY <1>2, HoldsRead
  <2>4. p + 1 + 0 = p + 1 /\ p + Len(w) - 0 = p + Len(w)
      BY <1>1
  <2> QED
      BY <1>1, <2>1, <2>2, <2>3, <2>4 DEF ReadAt
<1>7. CASE v.tag = StringTag
  <2>1. v.tag # BlobTag
      BY <1>7, TagsApart
  <2>2. w = Append(s, 0) /\ Len(w) = n + 1
      BY <1>1, <1>3, <1>5, <1>7, StoredString
  <2>3. Holds(raw, p, s)
    <3>1. \A i \in 1..Len(s) : s[i] # 0
        BY <1>5, <1>7, ValueFacts
    <3> QED
        BY <1>2, <1>5, <2>2, <3>1, HoldsCString
  <2>4. SubSeq(raw, p + 1, p + n) = s
      BY <1>3, <2>3, HoldsRead
  <2>5. Len(w) = n + 1
      BY <2>2
  <2>6. p + 1 + 0 = p + 1 /\ p + Len(w) - 1 = p + n
      BY <2>5
  <2> QED
      BY <1>1, <1>5, <1>7, <2>1, <2>4, <2>6 DEF ReadAt
<1>8. CASE v.tag = BlobTag
  <2>1. v.tag # StringTag
      BY <1>8, TagsApart
  <2>2. w = Joined(Int32Bytes(Len(v.bytes)), v.bytes) /\ Len(w) = n + 4
      BY <1>1, <1>3, <1>5, <1>8, StoredBlob
  <2>3. Holds(raw, p + 4, s)
      BY <1>2, <1>5, <2>2, HoldsBlob
  <2>4. SubSeq(raw, (p + 4) + 1, (p + 4) + n) = s
    <3>1. PICK q \in Nat : q = p + 4
        OBVIOUS
    <3>2. SubSeq(raw, q + 1, q + Len(s)) = s
        BY <2>3, <3>1, HoldsRead
    <3> QED
        BY <1>3, <3>1, <3>2
  <2>5. Len(w) = n + 4
      BY <2>2
  <2>6. p + 1 + 4 = (p + 4) + 1 /\ p + Len(w) - 0 = (p + 4) + n
      BY <2>5
  <2> QED
      BY <1>1, <1>5, <1>8, <2>1, <2>4, <2>6 DEF ReadAt
<1> QED
    BY <1>4, <1>6, <1>7, <1>8

-----------------------------------------------------------------------------
(* The loops *)

FirstScan(argsAt) == [pos |-> argsAt, arguments |-> <<>>, bad |-> FALSE]

\* The equation of ScanArgs' recursive function, up to n.
Scans(f, raw, tags, argsAt, n) ==
    f = [k \in 0..n |-> IF k = 0 THEN FirstScan(argsAt) ELSE ScanArg(f[k - 1], tags[k], raw)]

\* The equation, value by value.
LEMMA ScansAt ==
    ASSUME NEW f, NEW raw, NEW tags, NEW argsAt, NEW n \in Nat, Scans(f, raw, tags, argsAt, n)
    PROVE  /\ f[0] = FirstScan(argsAt)
           /\ \A k \in 1..n : f[k] = ScanArg(f[k - 1], tags[k], raw)
BY DEF Scans

\* A function that solves it up to n, and one value more.
LEMMA ScansOneMore ==
    ASSUME NEW raw, NEW tags, NEW argsAt, NEW n \in Nat, NEW f, Scans(f, raw, tags, argsAt, n)
    PROVE  \E g : Scans(g, raw, tags, argsAt, n + 1)
<1> DEFINE last == ScanArg(f[n], tags[n + 1], raw)
           g == [k \in 0..(n + 1) |-> IF k = n + 1 THEN last ELSE f[k]]
<1>1. ASSUME NEW k \in 0..(n + 1)
      PROVE  g[k] = IF k = 0 THEN FirstScan(argsAt) ELSE ScanArg(g[k - 1], tags[k], raw)
  <2>1. CASE k = n + 1
    <3>1. g[k] = last /\ g[n] = f[n] /\ k - 1 = n /\ k # 0
        BY <2>1
    <3> QED
        BY <2>1, <3>1
  <2>2. CASE k # n + 1
    <3>1. k \in 0..n /\ g[k] = f[k] /\ (k # 0 => g[k - 1] = f[k - 1])
        BY <2>2
    <3>2. f[k] = IF k = 0 THEN FirstScan(argsAt) ELSE ScanArg(f[k - 1], tags[k], raw)
        BY <3>1 DEF Scans
    <3> QED
        BY <3>1, <3>2
  <2> QED
      BY <2>1, <2>2
<1>2. g = [k \in 0..(n + 1) |-> g[k]]
    OBVIOUS
<1> HIDE DEF g
<1>3. Scans(g, raw, tags, argsAt, n + 1)
    BY <1>1, <1>2 DEF Scans
<1> QED
    BY <1>3

LEMMA ScansExist ==
    ASSUME NEW raw, NEW tags, NEW argsAt, NEW m \in Nat
    PROVE  \E f : Scans(f, raw, tags, argsAt, m)
<1> DEFINE Solved == {n \in Nat : \E f : Scans(f, raw, tags, argsAt, n)}
<1>1. 0 \in Solved
  <2>1. Scans([k \in 0..0 |-> FirstScan(argsAt)], raw, tags, argsAt, 0)
      BY DEF Scans
  <2> QED
      BY <2>1
<1>2. ASSUME NEW n \in Nat, n \in Solved PROVE n + 1 \in Solved
    BY <1>2, ScansOneMore
<1>3. Nat \subseteq Solved
  <2> HIDE DEF Solved
  <2> QED
      BY <1>1, <1>2, NatSetInduction
<1> QED
    BY <1>3

\* So the loop over the tags is what its definition says it is.
LEMMA ScanArgsUnrolled ==
    ASSUME NEW raw, NEW tags, NEW argsAt, Len(tags) \in Nat
    PROVE  \E f : /\ Scans(f, raw, tags, argsAt, Len(tags))
                  /\ ScanArgs(raw, tags, argsAt) = f[Len(tags)]
<1> DEFINE scan == CHOOSE f : Scans(f, raw, tags, argsAt, Len(tags))
<1>1. Scans(scan, raw, tags, argsAt, Len(tags))
    BY ScansExist
<1>2. ScanArgs(raw, tags, argsAt) = scan[Len(tags)]
    BY DEF ScanArgs, Scans, FirstScan
<1> QED
    BY <1>1, <1>2

\* The equation of PushAll's recursive function, up to n.
Pushes(f, m, values, n) ==
    f = [k \in 0..n |-> IF k = 0 THEN m ELSE Push(f[k - 1], values[k])]

LEMMA PushesAt ==
    ASSUME NEW f, NEW m, NEW values, NEW n \in Nat, Pushes(f, m, values, n)
    PROVE  f[0] = m /\ \A k \in 1..n : f[k] = Push(f[k - 1], values[k])
BY DEF Pushes

LEMMA PushesOneMore ==
    ASSUME NEW m, NEW values, NEW n \in Nat, NEW f, Pushes(f, m, values, n)
    PROVE  \E g : Pushes(g, m, values, n + 1)
<1> DEFINE last == Push(f[n], values[n + 1])
           g == [k \in 0..(n + 1) |-> IF k = n + 1 THEN last ELSE f[k]]
<1>1. ASSUME NEW k \in 0..(n + 1)
      PROVE  g[k] = IF k = 0 THEN m ELSE Push(g[k - 1], values[k])
  <2>1. CASE k = n + 1
    <3>1. g[k] = last /\ g[n] = f[n] /\ k - 1 = n /\ k # 0
        BY <2>1
    <3> QED
        BY <2>1, <3>1
  <2>2. CASE k # n + 1
    <3>1. k \in 0..n /\ g[k] = f[k] /\ (k # 0 => g[k - 1] = f[k - 1])
        BY <2>2
    <3>2. f[k] = IF k = 0 THEN m ELSE Push(f[k - 1], values[k])
        BY <3>1 DEF Pushes
    <3> QED
        BY <3>1, <3>2
  <2> QED
      BY <2>1, <2>2
<1>2. g = [k \in 0..(n + 1) |-> g[k]]
    OBVIOUS
<1> HIDE DEF g
<1>3. Pushes(g, m, values, n + 1)
    BY <1>1, <1>2 DEF Pushes
<1> QED
    BY <1>3

LEMMA PushesExist ==
    ASSUME NEW m, NEW values, NEW k \in Nat
    PROVE  \E f : Pushes(f, m, values, k)
<1> DEFINE Solved == {n \in Nat : \E f : Pushes(f, m, values, n)}
<1>1. 0 \in Solved
  <2>1. Pushes([k0 \in 0..0 |-> m], m, values, 0)
      BY DEF Pushes
  <2> QED
      BY <2>1
<1>2. ASSUME NEW n \in Nat, n \in Solved PROVE n + 1 \in Solved
    BY <1>2, PushesOneMore
<1>3. Nat \subseteq Solved
  <2> HIDE DEF Solved
  <2> QED
      BY <1>1, <1>2, NatSetInduction
<1> QED
    BY <1>3

LEMMA PushAllUnrolled ==
    ASSUME NEW m, NEW values, Len(values) \in Nat
    PROVE  \E f : /\ Pushes(f, m, values, Len(values))
                  /\ PushAll(m, values) = f[Len(values)]
<1> DEFINE after == CHOOSE f : Pushes(f, m, values, Len(values))
<1>1. Pushes(after, m, values, Len(values))
    BY PushesExist
<1>2. PushAll(m, values) = after[Len(values)]
    BY DEF PushAll, Pushes
<1> QED
    BY <1>1, <1>2

-----------------------------------------------------------------------------
(* Arguments laid out one behind the other *)

(* From base to the end, raw is the values' bytes with their padding; value *)
(* i begins at[i] bytes from the front.                                      *)
Laid(raw, base, values, at) ==
    /\ at \in [1..(Len(values) + 1) -> Nat]
    /\ at[1] = base /\ at[Len(values) + 1] = Len(raw)
    /\ \A i \in 1..(Len(values) + 1) : at[i] % 4 = 0
    /\ \A i \in 1..Len(values) :
        /\ at[i + 1] = at[i] + Ceil4(Len(Stored(values[i])))
        /\ Holds(raw, at[i], Padded(Stored(values[i])))

LEMMA LaidAt ==
    ASSUME NEW raw, NEW base, NEW values \in Seq(Value), NEW at, Laid(raw, base, values, at)
    PROVE  /\ \A i \in 1..(Len(values) + 1) : at[i] \in Nat /\ at[i] % 4 = 0
           /\ \A i \in 1..Len(values) :
                /\ at[i + 1] = at[i] + Ceil4(Len(Stored(values[i])))
                /\ Holds(raw, at[i], Padded(Stored(values[i])))
<1>1. at \in [1..(Len(values) + 1) -> Nat]
    BY DEF Laid
<1>2. \A i \in 1..(Len(values) + 1) : at[i] \in Nat
    BY <1>1
<1> QED
    BY <1>2 DEF Laid

ScanState == [pos : Nat, arguments : Seq([pos : Nat, size : Nat]), bad : BOOLEAN]

\* One turn of the loop, if the argument is not malformed.
LEMMA ScanGood ==
    ASSUME NEW raw, NEW tag, NEW scan \in ScanState, ~scan.bad,
           NEW size \in Nat, size = ArgSize(raw, tag, scan.pos)
    PROVE  /\ ScanArg(scan, tag, raw) \in ScanState
           /\ ~ScanArg(scan, tag, raw).bad
           /\ ScanArg(scan, tag, raw).pos = scan.pos + Ceil4(size)
           /\ ScanArg(scan, tag, raw).arguments
                = Append(scan.arguments, [pos |-> scan.pos, size |-> size])
<1>1. Ceil4(size) \in Nat
    BY CeilFacts
<1>2. PICK next \in Nat : next = scan.pos + Ceil4(size)
    BY <1>1 DEF ScanState
<1>3. PICK arg \in [pos : Nat, size : Nat] : arg = [pos |-> scan.pos, size |-> size]
    BY DEF ScanState
<1>4. scan.arguments \in Seq([pos : Nat, size : Nat])
    BY DEF ScanState
<1>5. PICK args \in Seq([pos : Nat, size : Nat]) : args = Append(scan.arguments, arg)
    BY <1>4, AppendProperties
<1>6. ScanArg(scan, tag, raw) = [scan EXCEPT !.arguments = args, !.pos = next]
    BY <1>2, <1>3, <1>5 DEF ScanArg
<1>7. [scan EXCEPT !.arguments = args, !.pos = next] \in ScanState
    BY DEF ScanState
<1>8. /\ [scan EXCEPT !.arguments = args, !.pos = next].bad = scan.bad
      /\ [scan EXCEPT !.arguments = args, !.pos = next].pos = next
      /\ [scan EXCEPT !.arguments = args, !.pos = next].arguments = args
    BY DEF ScanState
<1> QED
    BY <1>2, <1>3, <1>5, <1>6, <1>7, <1>8

\* What the loop has found of the first k values.
Found(scan, values, at, k) ==
    /\ scan \in ScanState /\ ~scan.bad /\ scan.pos = at[k + 1]
    /\ Len(scan.arguments) = k
    /\ \A i \in 1..k : scan.arguments[i] = [pos |-> at[i], size |-> Len(Stored(values[i]))]

\* Each turn finds one value more.
LEMMA FindsOneMore ==
    ASSUME NEW raw \in Seq(Byte), NEW base \in Nat, NEW values \in Seq(Value), NEW at,
           Laid(raw, base, values, at), NEW k \in Nat, k + 1 <= Len(values),
           NEW tag, tag = values[k + 1].tag, NEW scan, Found(scan, values, at, k)
    PROVE  Found(ScanArg(scan, tag, raw), values, at, k + 1)
<1>1. Len(values) \in Nat /\ k + 1 \in 1..Len(values)
    BY LenProperties
<1>2. PICK v \in Value : v = values[k + 1]
    BY <1>1, ElementOfSeq
<1>3. PICK p \in Nat : p = at[k + 1] /\ p % 4 = 0
  <2>1. k + 1 \in 1..(Len(values) + 1)
      BY <1>1
  <2>2. at[k + 1] \in Nat /\ at[k + 1] % 4 = 0
      BY <2>1, LaidAt
  <2> QED
      BY <2>2
<1>4. Holds(raw, p, Padded(Stored(v))) /\ at[(k + 1) + 1] = p + Ceil4(Len(Stored(v)))
    BY <1>1, <1>2, <1>3, LaidAt, ZenonT(60)
<1>5. PICK size \in Nat : size = Len(Stored(v))
    BY StoredType
<1>6. size = ArgSize(raw, tag, scan.pos)
    BY <1>2, <1>3, <1>4, <1>5, ArgSizeStored DEF Found
<1>7. PICK next : next = ScanArg(scan, tag, raw)
    OBVIOUS
<1>8. scan \in ScanState /\ ~scan.bad /\ scan.pos = p
    BY <1>3 DEF Found
<1>9. /\ next \in ScanState /\ ~next.bad /\ next.pos = p + Ceil4(size)
      /\ next.arguments = Append(scan.arguments, [pos |-> p, size |-> size])
    BY <1>6, <1>7, <1>8, ScanGood, ZenonT(60)
<1>10. /\ Len(next.arguments) = k + 1
       /\ \A i \in 1..(k + 1) :
            next.arguments[i] = [pos |-> at[i], size |-> Len(Stored(values[i]))]
  <2>1. scan.arguments \in Seq([pos : Nat, size : Nat]) /\ Len(scan.arguments) = k
      BY <1>8 DEF ScanState, Found
  <2>2. PICK args \in Seq([pos : Nat, size : Nat]) :
            args = scan.arguments /\ Len(args) = k
      BY <2>1
  <2>3. PICK arg \in [pos : Nat, size : Nat] : arg = [pos |-> p, size |-> size]
      OBVIOUS
  <2>4. Len(Append(args, arg)) = k + 1 /\ Append(args, arg)[k + 1] = arg
      BY <2>2, AppendProperties
  <2>5. \A i \in 1..k : Append(args, arg)[i] = args[i]
      BY <2>2, AppendProperties
  <2>6. \A i \in 1..k : args[i] = [pos |-> at[i], size |-> Len(Stored(values[i]))]
      BY <2>2 DEF Found
  <2>7. arg = [pos |-> at[k + 1], size |-> Len(Stored(values[k + 1]))]
      BY <1>2, <1>3, <1>5, <2>3
  <2>8. next.arguments = Append(args, arg)
      BY <1>9, <2>2, <2>3
  <2>9. Len(next.arguments) = k + 1
      BY <2>4, <2>8
  <2>10. ASSUME NEW i \in 1..(k + 1)
         PROVE  next.arguments[i] = [pos |-> at[i], size |-> Len(Stored(values[i]))]
    <3>1. CASE i = k + 1
        BY <2>4, <2>7, <2>8, <3>1
    <3>2. CASE i \in 1..k
        BY <2>5, <2>6, <2>8, <3>2
    <3> QED
        BY <3>1, <3>2
  <2> QED
      BY <2>9, <2>10
<1>11. next.pos = at[(k + 1) + 1]
    BY <1>4, <1>5, <1>9
<1>12. Found(next, values, at, k + 1)
    BY <1>9, <1>10, <1>11 DEF Found
<1> QED
    BY <1>7, <1>12

\* So the loop finds all of them, and ends where the bytes end.
LEMMA FindsAll ==
    ASSUME NEW raw \in Seq(Byte), NEW base \in Nat, NEW values \in Seq(Value), NEW at,
           Laid(raw, base, values, at), NEW tags, Len(tags) = Len(values),
           \A i \in 1..Len(values) : tags[i] = values[i].tag
    PROVE  Found(ScanArgs(raw, tags, base), values, at, Len(values))
<1>1. Len(values) \in Nat
    BY LenProperties
<1>2. PICK f : Scans(f, raw, tags, base, Len(values)) /\ ScanArgs(raw, tags, base) = f[Len(values)]
    BY <1>1, ScanArgsUnrolled
<1> DEFINE S == {k \in Nat : k <= Len(values) => Found(f[k], values, at, k)}
<1>3. 0 \in S
  <2>1. f[0] = FirstScan(base)
      BY <1>1, <1>2, ScansAt
  <2>2. FirstScan(base) \in ScanState
    <3>1. <<>> \in Seq([pos : Nat, size : Nat])
        BY EmptySeq
    <3> QED
        BY <3>1 DEF FirstScan, ScanState
  <2>3. at[0 + 1] = base
      BY DEF Laid
  <2>4. Found(f[0], values, at, 0)
      BY <2>1, <2>2, <2>3 DEF Found, FirstScan
  <2> QED
      BY <2>4
<1>4. ASSUME NEW k \in Nat, k \in S PROVE k + 1 \in S
  <2>1. CASE k + 1 <= Len(values)
    <3>1. Found(f[k], values, at, k)
        BY <1>1, <1>4, <2>1
    <3>2. k + 1 \in 1..Len(values)
        BY <1>1, <2>1
    <3>3. f[k + 1] = ScanArg(f[k], tags[k + 1], raw)
      <4>1. f[k + 1] = ScanArg(f[(k + 1) - 1], tags[k + 1], raw)
          BY <1>1, <1>2, <3>2, ScansAt
      <4>2. (k + 1) - 1 = k
          OBVIOUS
      <4> QED
          BY <4>1, <4>2
    <3>4. tags[k + 1] = values[k + 1].tag
        BY <3>2
    <3>5. Found(f[k + 1], values, at, k + 1)
        BY <2>1, <3>1, <3>3, <3>4, FindsOneMore
    <3> QED
        BY <3>5
  <2>2. CASE ~(k + 1 <= Len(values))
      BY <2>2
  <2> QED
      BY <2>1, <2>2
<1>5. Len(values) \in S
  <2> HIDE DEF S
  <2>1. Nat \subseteq S
      BY <1>3, <1>4, NatSetInduction
  <2> QED
      BY <1>1, <2>1
<1> QED
    BY <1>1, <1>2, <1>5

\* Nothing is laid out in no bytes.
LEMMA LaidNothing ==
    ASSUME NEW values, Len(values) = 0
    PROVE  Laid(<<>>, 0, values, [i \in 1..1 |-> 0])
BY DEF Laid

\* One value more.
LEMMA LaidMore ==
    ASSUME NEW raw \in Seq(Byte), NEW base \in Nat, NEW values \in Seq(Value), NEW at,
           Laid(raw, base, values, at), NEW v \in Value
    PROVE  \E to : Laid(Joined(raw, Padded(Stored(v))), base, Append(values, v), to)
<1>1. PICK n \in Nat : n = Len(values)
    BY LenProperties
<1>2. PICK len \in Nat : len = Len(raw)
    BY LenProperties
<1>3. PICK w \in Seq(Byte) : w = Padded(Stored(v)) /\ Len(w) = Ceil4(Len(Stored(v)))
    BY StoredType, PaddedFacts
<1>4. PICK size \in Nat : size = Len(w) /\ size % 4 = 0
  <2>1. Ceil4(Len(Stored(v))) \in Nat /\ Ceil4(Len(Stored(v))) % 4 = 0
      BY StoredType, CeilFacts
  <2> QED
      BY <1>3, <2>1
<1>5. PICK c \in Seq(Byte) : c = Joined(raw, w)
    BY JoinedType
<1>6. Len(c) = len + size
    BY <1>2, <1>4, <1>5, JoinedLen
<1>7. PICK more \in Seq(Value) : more = Append(values, v)
    BY AppendProperties
<1>8. Len(more) = n + 1 /\ more[n + 1] = v
    BY <1>1, <1>7, AppendProperties
<1>9. \A i \in 1..n : more[i] = values[i]
    BY <1>1, <1>7, AppendProperties
<1>10. at \in [1..(n + 1) -> Nat] /\ at[1] = base /\ at[n + 1] = len
    BY <1>1, <1>2 DEF Laid
<1>11. \A i \in 1..(n + 1) : at[i] \in Nat /\ at[i] % 4 = 0
    BY <1>1, LaidAt
<1>12. \A i \in 1..n : /\ at[i + 1] = at[i] + Ceil4(Len(Stored(values[i])))
                       /\ Holds(raw, at[i], Padded(Stored(values[i])))
    BY <1>1, LaidAt
<1> DEFINE to == [i \in 1..(n + 2) |-> IF i = n + 2 THEN len + size ELSE at[i]]
<1>13. /\ to \in [1..((n + 1) + 1) -> Nat] /\ to[1] = base /\ to[(n + 1) + 1] = Len(c)
       /\ \A i \in 1..(n + 1) : to[i] = at[i]
  <2>1. (n + 1) + 1 = n + 2
      OBVIOUS
  <2>2. \A i \in 1..(n + 1) : i \in 1..(n + 2) /\ i # n + 2
      OBVIOUS
  <2>3. \A i \in 1..(n + 1) : to[i] = at[i]
      BY <2>2
  <2>4. to[n + 2] = len + size
      OBVIOUS
  <2>5. \A i \in 1..(n + 2) : to[i] \in Nat
      BY <1>11
  <2>6. to \in [1..(n + 2) -> Nat]
      BY <2>5
  <2>7. to[1] = base
      BY <1>10, <2>3
  <2> QED
      BY <1>6, <2>1, <2>3, <2>4, <2>6, <2>7
<1> HIDE DEF to
<1>14. to[(n + 1) + 1] % 4 = 0
  <2>1. at[n + 1] % 4 = 0
    <3>1. n + 1 \in 1..(n + 1)
        OBVIOUS
    <3> QED
        BY <1>11, <3>1
  <2>2. (len + size) % 4 = 0
      BY <1>4, <1>10, <2>1, FoursAdd
  <2> QED
      BY <1>6, <1>13, <2>2
<1>15. ASSUME NEW i \in 1..((n + 1) + 1) PROVE to[i] % 4 = 0
  <2>1. CASE i = (n + 1) + 1
      BY <1>14, <2>1
  <2>2. CASE i \in 1..(n + 1)
      BY <1>11, <1>13, <2>2
  <2> QED
      BY <2>1, <2>2
<1>16. ASSUME NEW i \in 1..(n + 1)
       PROVE  /\ to[i + 1] = to[i] + Ceil4(Len(Stored(more[i])))
              /\ Holds(c, to[i], Padded(Stored(more[i])))
  <2>1. CASE i = n + 1
    <3>1. to[i] = len /\ to[i + 1] = len + size /\ more[i] = v
        BY <1>6, <1>8, <1>10, <1>13, <2>1
    <3>2. Holds(c, len, w)
        BY <1>2, <1>5, HoldsParts DEF Joined
    <3> QED
        BY <1>3, <1>4, <3>1, <3>2
  <2>2. CASE i \in 1..n
    <3>1. to[i] = at[i] /\ to[i + 1] = at[i + 1] /\ more[i] = values[i]
      <4>1. i + 1 \in 1..(n + 1)
          BY <2>2
      <4> QED
          BY <1>9, <1>13, <2>2, <4>1
    <3>2. PICK q \in Nat : q = at[i]
        BY <1>11
    <3>3. PICK u \in Seq(Byte) : u = Padded(Stored(values[i]))
      <4>1. values[i] \in Value
          BY <1>1, <2>2, ElementOfSeq
      <4> QED
          BY <4>1, StoredType, PaddedFacts
    <3>4. Holds(raw, q, u)
        BY <1>12, <2>2, <3>2, <3>3
    <3>5. Holds(c, q, u)
        BY <1>5, <3>4, HoldsLonger DEF Joined
    <3> QED
        BY <1>12, <2>2, <3>1, <3>2, <3>3, <3>5
  <2> QED
      BY <2>1, <2>2
<1>17. Laid(c, base, more, to)
    BY <1>8, <1>13, <1>15, <1>16 DEF Laid
<1> QED
    BY <1>3, <1>5, <1>7, <1>17

\* What is laid out is so behind anything that ends at a multiple of four.
LEMMA LaidBehind ==
    ASSUME NEW raw \in Seq(Byte), NEW values \in Seq(Value), NEW at, Laid(raw, 0, values, at),
           NEW w \in Seq(Byte), Len(w) % 4 = 0
    PROVE  \E to : Laid(Joined(w, raw), Len(w), values, to)
<1>1. PICK n \in Nat : n = Len(values)
    BY LenProperties
<1>2. PICK len \in Nat : len = Len(raw)
    BY LenProperties
<1>3. PICK base \in Nat : base = Len(w) /\ base % 4 = 0
    BY LenProperties
<1>4. PICK c \in Seq(Byte) : c = Joined(w, raw)
    BY JoinedType
<1>5. Len(c) = base + len
    BY <1>2, <1>3, <1>4, JoinedLen
<1>6. at[1] = 0 /\ at[n + 1] = len
    BY <1>1, <1>2 DEF Laid
<1>7. \A i \in 1..(n + 1) : at[i] \in Nat /\ at[i] % 4 = 0
    BY <1>1, LaidAt
<1>8. \A i \in 1..n : /\ at[i + 1] = at[i] + Ceil4(Len(Stored(values[i])))
                      /\ Holds(raw, at[i], Padded(Stored(values[i])))
    BY <1>1, LaidAt
<1> DEFINE to == [i \in 1..(n + 1) |-> base + at[i]]
<1>9. /\ to \in [1..(n + 1) -> Nat]
      /\ to[1] = base /\ to[n + 1] = Len(c)
      /\ \A i \in 1..(n + 1) : to[i] = base + at[i]
  <2>1. \A i \in 1..(n + 1) : base + at[i] \in Nat
      BY <1>7
  <2>2. to \in [1..(n + 1) -> Nat]
      BY <2>1
  <2> QED
      BY <1>5, <1>6, <2>2
<1> HIDE DEF to
<1>10. ASSUME NEW i \in 1..(n + 1) PROVE to[i] % 4 = 0
  <2>1. PICK q \in Nat : q = at[i] /\ q % 4 = 0
      BY <1>7
  <2> QED
      BY <1>3, <1>9, <2>1, FoursAdd, ZenonT(60)
<1>11. ASSUME NEW i \in 1..n
       PROVE  /\ to[i + 1] = to[i] + Ceil4(Len(Stored(values[i])))
              /\ Holds(c, to[i], Padded(Stored(values[i])))
  <2>1. PICK v \in Value : v = values[i]
      BY <1>1, ElementOfSeq
  <2>2. PICK q \in Nat : q = at[i]
      BY <1>7
  <2>3. PICK u \in Seq(Byte) : u = Padded(Stored(v)) /\ Len(u) = Ceil4(Len(Stored(v)))
      BY StoredType, PaddedFacts
  <2>4. PICK size \in Nat : size = Ceil4(Len(Stored(v)))
      BY <2>3, LenProperties
  <2>5. at[i + 1] = q + size /\ Holds(raw, q, u)
      BY <1>8, <2>1, <2>2, <2>3, <2>4
  <2>6. to[i] = base + q /\ to[i + 1] = base + (q + size)
    <3>1. i \in 1..(n + 1) /\ i + 1 \in 1..(n + 1)
        OBVIOUS
    <3> QED
        BY <1>9, <2>2, <2>5, <3>1
  <2>7. Holds(c, base, raw)
      BY <1>3, <1>4, HoldsParts DEF Joined
  <2>8. Holds(c, base + q, u)
      BY <2>5, <2>7, <1>5, HoldsDeeper
  <2> QED
      BY <2>1, <2>3, <2>4, <2>6, <2>8
<1>12. Laid(c, base, values, to)
    BY <1>1, <1>9, <1>10, <1>11 DEF Laid
<1> QED
    BY <1>3, <1>4, <1>12

-----------------------------------------------------------------------------
(* Messages *)

\* A text and its padding, where they are in raw.
LEMMA HoldsText ==
    ASSUME NEW raw \in Seq(Byte), NEW p \in Nat, p % 4 = 0, NEW s \in Seq(Byte),
           \A i \in 1..Len(s) : s[i] # 0, Len(s) > 0, Holds(raw, p, Padded(CString(s)))
    PROVE  EndOfText(raw, p) = p + Len(s) /\ HasText(raw, p, s[1]) /\ Holds(raw, p, s)
<1>1. PICK n \in Nat : n = Len(s) /\ n > 0
    BY LenProperties
<1>2. PICK w \in Seq(Byte) : w = CString(s) /\ w = Append(s, 0) /\ Len(w) = n + 1
  <2>1. 0 \in Byte
      BY DEF Byte
  <2>2. Append(s, 0) \in Seq(Byte)
      BY <2>1, AppendProperties
  <2>3. Len(Append(s, 0)) = n + 1
      BY <1>1, <2>1, AppendProperties
  <2> QED
      BY <2>2, <2>3 DEF CString
<1>3. Holds(raw, p, w) /\ ZeroPadding(raw, p + Len(w))
    BY <1>2, HoldsPadded
<1>4. EndOfText(raw, p) = p + n /\ p + n < Len(raw) /\ Holds(raw, p, s)
    BY <1>1, <1>2, <1>3, HoldsCString
<1>5. At(raw, p + 1) = s[1]
  <2>1. raw[p + 1] = s[1]
      BY <1>1, <1>4 DEF Holds
  <2>2. p + 1 \in DOMAIN raw
    <3>1. DOMAIN raw = 1..Len(raw) /\ Len(raw) \in Nat
        BY LenProperties
    <3> QED
        BY <1>1, <1>4, <3>1
  <2> QED
      BY <2>1, <2>2 DEF At
<1>6. ZeroPadding(raw, EndOfText(raw, p) + 1)
  <2>1. p + Len(w) = (p + n) + 1
      BY <1>2, SMTT(30)
  <2> QED
      BY <1>3, <1>4, <2>1
<1>7. HasText(raw, p, s[1])
    BY <1>4, <1>5, <1>6 DEF HasText
<1> QED
    BY <1>1, <1>4, <1>7

\* Without them, no message is built.
LEMMA BuiltNot ==
    ASSUME NEW raw,
           ~(HasText(raw, 0, Slash) /\ HasText(raw, Ceil4(EndOfText(raw, 0) + 1), Comma))
    PROVE  Built(raw).err # "none" /\ Built(raw).arguments = <<>> /\ Built(raw).tags = <<>>
BY DEF Built, NoMessage

Errs == {"none", "address", "tags", "arguments"}

MessageRecord ==
    [address : Seq(Byte), tags : Seq(Byte), arguments : Seq([pos : Nat, size : Nat]),
     storage : Seq(Byte), err : Errs]

(* The message m has the address a and the values. *)
Carries(m, a, values) ==
    /\ m \in MessageRecord
    /\ m.address = a /\ m.err = IF At(a, 1) = Slash THEN "none" ELSE "address"
    /\ Len(m.tags) = Len(values)
    /\ \A i \in 1..Len(values) : m.tags[i] = values[i].tag
    /\ \E at : Laid(m.storage, 0, values, at)

LEMMA CarriesNothing ==
    ASSUME NEW a \in Seq(1..255)
    PROVE  Carries(InitMessage(a), a, <<>>)
<1>1. a \in Seq(Byte)
    BY SMTT(30) DEF Byte
<1>2. <<>> \in Seq(Byte) /\ <<>> \in Seq([pos : Nat, size : Nat]) /\ Len(<<>>) = 0
    BY EmptySeq
<1>3. NoMessage \in MessageRecord
  <2>1. PICK e : e = <<>> /\ e \in Seq(Byte) /\ e \in Seq([pos : Nat, size : Nat])
      BY <1>2
  <2>2. NoMessage = [address |-> e, tags |-> e, arguments |-> e, storage |-> e, err |-> "none"]
      BY <2>1 DEF NoMessage
  <2>3. "none" \in Errs
      BY DEF Errs
  <2> QED
      BY <2>1, <2>2, <2>3 DEF MessageRecord
<1>4. PICK err \in Errs : err = IF At(a, 1) = Slash THEN "none" ELSE "address"
    BY DEF Errs
<1>5. PICK m : m = [NoMessage EXCEPT !.address = a, !.err = err]
    OBVIOUS
<1>6. m = InitMessage(a)
    BY <1>4, <1>5 DEF InitMessage
<1>7. m \in MessageRecord
    BY <1>1, <1>3, <1>5 DEF MessageRecord
<1>8. m.address = a /\ m.err = err /\ m.tags = <<>> /\ m.storage = <<>>
    BY <1>5 DEF NoMessage
<1>9. \E at : Laid(<<>>, 0, <<>>, at)
    BY <1>2, LaidNothing
<1>10. Carries(m, a, <<>>)
    BY <1>2, <1>4, <1>7, <1>8, <1>9 DEF Carries
<1> QED
    BY <1>6, <1>10

\* pushXXX.
LEMMA CarriesOneMore ==
    ASSUME NEW m, NEW a, NEW values \in Seq(Value), Carries(m, a, values), NEW v \in Value
    PROVE  Carries(Push(m, v), a, Append(values, v))
<1>1. PICK n \in Nat : n = Len(values)
    BY LenProperties
<1>2. PICK storage \in Seq(Byte) : storage = m.storage
    BY DEF Carries, MessageRecord
<1>3. PICK tags \in Seq(Byte) : tags = m.tags /\ Len(tags) = n
    BY <1>1 DEF Carries, MessageRecord
<1>4. PICK arguments \in Seq([pos : Nat, size : Nat]) : arguments = m.arguments
    BY DEF Carries, MessageRecord
<1>5. PICK w \in Seq(Byte) : w = Padded(Stored(v))
    BY StoredType, PaddedFacts
<1>6. PICK tag \in Byte : tag = v.tag
    BY ValueFacts, SMTT(30) DEF Byte, Bools, Pods, TrueTag, FalseTag, Int32Tag, FloatTag, Int64Tag,
                      DoubleTag, StringTag, BlobTag
<1>7. PICK arg \in [pos : Nat, size : Nat] :
         arg = [pos |-> Len(storage),
                size |-> IF tag \in Bools THEN Len(storage) ELSE Len(Stored(v))]
  <2>1. PICK len \in Nat : len = Len(storage)
      BY LenProperties
  <2>2. PICK size \in Nat : size = IF tag \in Bools THEN Len(storage) ELSE Len(Stored(v))
      BY <2>1, StoredType
  <2>3. [pos |-> len, size |-> size] \in [pos : Nat, size : Nat]
      OBVIOUS
  <2> QED
      BY <2>1, <2>2, <2>3
<1>8. PICK tags2 \in Seq(Byte) : tags2 = Append(tags, tag)
    BY AppendProperties
<1>9. PICK arguments2 \in Seq([pos : Nat, size : Nat]) : arguments2 = Append(arguments, arg)
    BY AppendProperties
<1>10. PICK storage2 \in Seq(Byte) : storage2 = Joined(storage, w)
    BY JoinedType
<1>11. PICK next : next = [m EXCEPT !.tags = tags2, !.arguments = arguments2,
                                    !.storage = storage2]
    OBVIOUS
<1>12. Push(m, v) = next
    BY <1>2, <1>3, <1>4, <1>5, <1>6, <1>7, <1>8, <1>9, <1>10, <1>11 DEF Push, Joined
<1>13. m \in MessageRecord
    BY DEF Carries
<1>14. next \in MessageRecord
    BY <1>11, <1>13 DEF MessageRecord
<1>15. /\ next.address = m.address /\ next.err = m.err /\ next.tags = tags2
       /\ next.storage = storage2
    BY <1>11, <1>13 DEF MessageRecord
<1>16. PICK more \in Seq(Value) : more = Append(values, v)
    BY AppendProperties
<1>17. Len(more) = n + 1 /\ more[n + 1] = v
    BY <1>1, <1>16, AppendProperties
<1>18. \A i \in 1..n : more[i] = values[i]
    BY <1>1, <1>16, AppendProperties
<1>19. Len(tags2) = n + 1 /\ tags2[n + 1] = tag
    BY <1>3, <1>8, AppendProperties, SMTT(30)
<1>20. \A i \in 1..n : tags2[i] = tags[i]
    BY <1>3, <1>8, AppendProperties
<1>21. \A i \in 1..n : tags[i] = values[i].tag
    BY <1>1, <1>3 DEF Carries
<1>22. ASSUME NEW i \in 1..(n + 1) PROVE tags2[i] = more[i].tag
  <2>1. CASE i = n + 1
      BY <1>6, <1>17, <1>19, <2>1
  <2>2. CASE i \in 1..n
      BY <1>18, <1>20, <1>21, <2>2
  <2> QED
      BY <2>1, <2>2
<1>23. \E to : Laid(storage2, 0, more, to)
  <2>1. PICK at : Laid(storage, 0, values, at)
      BY <1>2 DEF Carries
  <2> QED
      BY <1>5, <1>10, <1>16, <2>1, LaidMore
<1>24. m.address = a /\ m.err = IF At(a, 1) = Slash THEN "none" ELSE "address"
    BY DEF Carries
<1>25. Carries(next, a, more)
    BY <1>14, <1>15, <1>17, <1>19, <1>22, <1>23, <1>24 DEF Carries
<1> QED
    BY <1>12, <1>16, <1>25

\* Some calls of pushXXX, and one more.
LEMMA OneMoreOf ==
    ASSUME NEW S, NEW s \in Seq(S), NEW k \in Nat, k + 1 <= Len(s)
    PROVE  /\ SubSeq(s, 1, k) \in Seq(S) /\ s[k + 1] \in S
           /\ SubSeq(s, 1, k + 1) = Append(SubSeq(s, 1, k), s[k + 1])
<1>1. PICK n \in Nat : n = Len(s)
    BY LenProperties
<1>2. \A i \in 1..n : s[i] \in S
    BY <1>1, ElementOfSeq
<1>3. PICK t \in Seq(S) : /\ t = SubSeq(s, 1, k) /\ Len(t) = k
                          /\ \A i \in 1..k : t[i] = s[i]
  <2>1. \A i \in 1..k : s[i] \in S
      BY <1>1, <1>2
  <2>2. SubSeq(s, 1, k) \in Seq(S)
      BY <2>1, SubSeqProperties
  <2>3. Len(SubSeq(s, 1, k)) = k
      BY <2>1, SubSeqProperties
  <2>4. \A i \in 1..k : SubSeq(s, 1, k)[i] = s[i]
      BY <2>1, SubSeqProperties
  <2> QED
      BY <2>2, <2>3, <2>4
<1>4. s[k + 1] \in S
    BY <1>1, <1>2
<1>5. PICK u \in Seq(S) : /\ u = SubSeq(s, 1, k + 1) /\ Len(u) = k + 1
                          /\ \A i \in 1..(k + 1) : u[i] = s[i]
  <2>1. \A i \in 1..(k + 1) : s[i] \in S
      BY <1>1, <1>2
  <2>2. SubSeq(s, 1, k + 1) \in Seq(S)
      BY <2>1, SubSeqProperties
  <2>3. Len(SubSeq(s, 1, k + 1)) = k + 1
      BY <2>1, SubSeqProperties
  <2>4. \A i \in 1..(k + 1) : SubSeq(s, 1, k + 1)[i] = s[i]
      BY <2>1, SubSeqProperties
  <2> QED
      BY <2>2, <2>3, <2>4
<1>6. PICK c \in Seq(S) : c = Append(t, s[k + 1]) /\ Len(c) = k + 1
  <2>1. Append(t, s[k + 1]) \in Seq(S)
      BY <1>4, AppendProperties
  <2>2. Len(Append(t, s[k + 1])) = k + 1
      BY <1>3, <1>4, AppendProperties
  <2> QED
      BY <2>1, <2>2
<1>7. c[k + 1] = s[k + 1] /\ \A i \in 1..k : c[i] = t[i]
  <2>1. c[k + 1] = s[k + 1]
      BY <1>3, <1>4, <1>6, AppendProperties
  <2>2. \A i \in 1..k : c[i] = t[i]
      BY <1>3, <1>4, <1>6, AppendProperties
  <2> QED
      BY <2>1, <2>2
<1>8. u = c
  <2>1. ASSUME NEW i \in 1..(k + 1) PROVE u[i] = c[i]
    <3>1. CASE i = k + 1
        BY <1>5, <1>7, <3>1
    <3>2. CASE i \in 1..k
        BY <1>3, <1>5, <1>7, <3>2
    <3> QED
        BY <3>1, <3>2
  <2> QED
      BY <1>5, <1>6, <2>1, SeqEqual
<1> QED
    BY <1>3, <1>4, <1>5, <1>6, <1>8

\* So several calls of pushXXX make a message that carries their values.
LEMMA PushAllCarries ==
    ASSUME NEW a \in Seq(1..255), NEW values \in Seq(Value)
    PROVE  Carries(PushAll(InitMessage(a), values), a, values)
<1>1. PICK n \in Nat : n = Len(values)
    BY LenProperties
<1>2. PICK f : Pushes(f, InitMessage(a), values, n) /\ PushAll(InitMessage(a), values) = f[n]
    BY <1>1, PushAllUnrolled
<1> DEFINE S == {k \in Nat : k <= n => Carries(f[k], a, SubSeq(values, 1, k))}
<1>3. 0 \in S
  <2>1. f[0] = InitMessage(a)
      BY <1>2, PushesAt
  <2>2. SubSeq(values, 1, 0) = <<>>
      BY SubSeqEmpty
  <2> QED
      BY <2>1, <2>2, CarriesNothing
<1>4. ASSUME NEW k \in Nat, k \in S PROVE k + 1 \in S
  <2>1. CASE k + 1 <= n
    <3>1. Carries(f[k], a, SubSeq(values, 1, k))
        BY <1>4, <2>1
    <3>2. PICK some \in Seq(Value) : some = SubSeq(values, 1, k)
        BY <1>1, <2>1, OneMoreOf
    <3>3. PICK v \in Value : v = values[k + 1]
        BY <1>1, <2>1, OneMoreOf
    <3>4. SubSeq(values, 1, k + 1) = Append(some, v)
        BY <1>1, <2>1, <3>2, <3>3, OneMoreOf
    <3>5. f[k + 1] = Push(f[k], v)
      <4>1. f[k + 1] = Push(f[(k + 1) - 1], values[k + 1])
          BY <1>2, <2>1, PushesAt
      <4>2. (k + 1) - 1 = k
          OBVIOUS
      <4> QED
          BY <3>3, <4>1, <4>2
    <3>6. Carries(Push(f[k], v), a, Append(some, v))
        BY <3>1, <3>2, CarriesOneMore
    <3>7. Carries(f[k + 1], a, SubSeq(values, 1, k + 1))
        BY <3>4, <3>5, <3>6
    <3> QED
        BY <3>7
  <2>2. CASE ~(k + 1 <= n)
      BY <2>2
  <2> QED
      BY <2>1, <2>2
<1>5. n \in S
  <2> HIDE DEF S
  <2>1. Nat \subseteq S
      BY <1>3, <1>4, NatSetInduction
  <2> QED
      BY <2>1
<1>6. SubSeq(values, 1, n) = values
    BY <1>1, SubSeqFull
<1>7. Carries(f[n], a, SubSeq(values, 1, n))
    BY <1>5
<1> HIDE DEF S
<1> QED
    BY <1>2, <1>6, <1>7

(* The message r, received, is the message m with its values. *)
Arrived(r, m, values) ==
    /\ r \in MessageRecord /\ r.err = "none" /\ r.address = m.address /\ r.tags = m.tags
    /\ r.storage = Packed(m)
    /\ Len(r.arguments) = Len(values)
    /\ \A i \in 1..Len(values) : ValueAt(r, i) = values[i]

\* A text that begins a message or its tags: without a 0, and not empty.
Text(s) == s \in Seq(Byte) /\ Len(s) > 0 /\ \A i \in 1..Len(s) : s[i] # 0

LEMMA TextPadded ==
    ASSUME NEW s, Text(s)
    PROVE  /\ Padded(CString(s)) \in Seq(Byte) /\ Len(s) \in Nat
           /\ Len(Padded(CString(s))) = Ceil4(Len(s) + 1)
<1>1. s \in Seq(Byte) /\ 0 \in Byte
    BY DEF Text, Byte
<1>2. PICK w \in Seq(Byte) : w = CString(s) /\ Len(w) = Len(s) + 1
  <2>1. Append(s, 0) \in Seq(Byte)
      BY <1>1, AppendProperties
  <2>2. Len(Append(s, 0)) = Len(s) + 1
      BY <1>1, AppendProperties
  <2> QED
      BY <2>1, <2>2 DEF CString
<1>3. Padded(w) \in Seq(Byte)
    BY PaddedFacts
<1>4. Len(Padded(w)) = Ceil4(Len(w))
    BY PaddedFacts
<1>5. Len(s) \in Nat
    BY <1>1, LenProperties
<1> QED
    BY <1>2, <1>3, <1>4, <1>5

\* The text is found where it is, and the next one behind its padding.
LEMMA TextFound ==
    ASSUME NEW raw \in Seq(Byte), NEW p \in Nat, p % 4 = 0, NEW s, Text(s),
           Holds(raw, p, Padded(CString(s)))
    PROVE  /\ EndOfText(raw, p) = p + Len(s) /\ HasText(raw, p, s[1])
           /\ Ceil4(EndOfText(raw, p) + 1) = p + Ceil4(Len(s) + 1)
           /\ SubSeq(raw, p + 1, p + Len(s)) = s
<1>1. PICK t \in Seq(Byte) : t = s /\ Len(t) > 0 /\ \A i \in 1..Len(t) : t[i] # 0
    BY DEF Text
<1>2. Holds(raw, p, Padded(CString(t)))
    BY <1>1
<1>3. EndOfText(raw, p) = p + Len(t) /\ HasText(raw, p, t[1]) /\ Holds(raw, p, t)
    BY <1>1, <1>2, HoldsText
<1>4. PICK n \in Nat : n = Len(t)
    BY LenProperties
<1>5. Ceil4(EndOfText(raw, p) + 1) = p + Ceil4(n + 1)
  <2>1. n + 1 \in Nat /\ (p + n) + 1 = p + (n + 1)
      OBVIOUS
  <2>2. Ceil4(p + (n + 1)) = p + Ceil4(n + 1)
      BY <2>1, CeilShift
  <2> QED
      BY <1>3, <1>4, <2>1, <2>2
<1>6. SubSeq(raw, p + 1, p + Len(t)) = t
    BY <1>3, HoldsRead
<1> QED
    BY <1>1, <1>3, <1>4, <1>5, <1>6

(* In raw are the address a and the tags, behind a comma, each with its 0   *)
(* and its padding; the arguments begin at argsAt.                          *)
Spelled(raw, a, tags, argsAt) ==
    /\ Text(a) /\ a[1] = Slash /\ Text(Joined(<<Comma>>, tags))
    /\ Holds(raw, 0, Padded(CString(a)))
    /\ Holds(raw, Ceil4(Len(a) + 1), Padded(CString(Joined(<<Comma>>, tags))))
    /\ argsAt = Ceil4(Len(a) + 1) + Ceil4(Len(Joined(<<Comma>>, tags)) + 1)

\* What buildFromRawData reads of them.
ReadAs(raw, a, tags, argsAt) ==
    \E end, tagsAt, tagsEnd :
        /\ end = EndOfText(raw, 0) /\ HasText(raw, 0, Slash) /\ a = SubSeq(raw, 1, end)
        /\ tagsAt = Ceil4(end + 1) /\ HasText(raw, tagsAt, Comma)
        /\ tagsEnd = EndOfText(raw, tagsAt) /\ argsAt = Ceil4(tagsEnd + 1)
        /\ tags = SubSeq(raw, tagsAt + 2, tagsEnd)

LEMMA SpelledIsRead ==
    ASSUME NEW raw \in Seq(Byte), NEW a, NEW tags \in Seq(Byte), NEW argsAt,
           Spelled(raw, a, tags, argsAt)
    PROVE  ReadAs(raw, a, tags, argsAt) /\ argsAt \in Nat
<1>1. PICK n \in Nat : n = Len(tags)
    BY LenProperties
<1>2. PICK comma \in Seq(Byte) : comma = <<Comma>> /\ Len(comma) = 1 /\ comma[1] = Comma
  <2>1. PICK b \in Byte : b = Comma
      BY DEF Comma, Byte
  <2>2. <<b>> \in Seq(Byte) /\ Len(<<b>>) = 1 /\ <<b>>[1] = b
      OBVIOUS
  <2> QED
      BY <2>1, <2>2
<1>3. PICK c \in Seq(Byte) : c = Joined(<<Comma>>, tags)
    BY <1>2, JoinedType
<1>4. Len(c) = n + 1 /\ c[1] = Comma
  <2>1. Len(c) = Len(comma) + Len(tags)
      BY <1>2, <1>3, JoinedLen
  <2>2. \A i \in 1..Len(comma) : c[i] = comma[i]
      BY <1>2, <1>3, JoinedPlaces, ZenonT(60)
  <2> QED
      BY <1>1, <1>2, <2>1, <2>2
<1>5. Holds(c, 1, tags)
    BY <1>2, <1>3, HoldsParts DEF Joined
<1>6. Text(a) /\ a[1] = Slash /\ Holds(raw, 0, Padded(CString(a)))
    BY DEF Spelled
<1>7. PICK m \in Nat : m = Len(a)
    BY <1>6, TextPadded
<1>8. PICK tagsAt \in Nat : tagsAt = Ceil4(m + 1) /\ tagsAt % 4 = 0
  <2>1. PICK q \in Nat : q = m + 1
      OBVIOUS
  <2>2. Ceil4(q) \in Nat /\ Ceil4(q) % 4 = 0
      BY CeilFacts
  <2> QED
      BY <2>1, <2>2
<1>9. Text(c) /\ Holds(raw, tagsAt, Padded(CString(c)))
    BY <1>3, <1>7, <1>8 DEF Spelled
<1>10. PICK more \in Nat : more = Ceil4(Len(c) + 1)
    BY <1>4, CeilFacts, SMTT(30)
<1>11. argsAt = tagsAt + more
    BY <1>3, <1>7, <1>8, <1>10 DEF Spelled
<1>12. EndOfText(raw, 0) = m
  <2>1. EndOfText(raw, 0) = 0 + Len(a)
      BY <1>6, TextFound
  <2> QED
      BY <1>7, <2>1
<1>13. HasText(raw, 0, Slash)
    BY <1>6, TextFound
<1>14. a = SubSeq(raw, 1, m)
  <2>1. SubSeq(raw, 0 + 1, 0 + Len(a)) = a
      BY <1>6, TextFound
  <2> QED
      BY <1>7, <2>1
<1>15. EndOfText(raw, tagsAt) = tagsAt + (n + 1)
  <2>1. EndOfText(raw, tagsAt) = tagsAt + Len(c)
      BY <1>8, <1>9, TextFound
  <2> QED
      BY <1>4, <2>1
<1>16. HasText(raw, tagsAt, Comma)
    BY <1>4, <1>8, <1>9, TextFound
<1>17. Ceil4(EndOfText(raw, tagsAt) + 1) = argsAt
  <2>1. Ceil4(EndOfText(raw, tagsAt) + 1) = tagsAt + Ceil4(Len(c) + 1)
      BY <1>8, <1>9, TextFound
  <2> QED
      BY <1>10, <1>11, <2>1
<1>18. SubSeq(raw, tagsAt + 2, EndOfText(raw, tagsAt)) = tags
  <2>1. Holds(raw, tagsAt, c)
      BY <1>4, <1>8, <1>9, HoldsText DEF Text
  <2>2. Len(raw) \in Nat
      BY LenProperties
  <2>3. PICK q \in Nat : q = tagsAt + 1
      OBVIOUS
  <2>4. Holds(raw, q, tags)
      BY <1>5, <2>1, <2>2, <2>3, HoldsDeeper
  <2>5. SubSeq(raw, q + 1, q + Len(tags)) = tags
      BY <2>4, HoldsRead
  <2>6. q + 1 = tagsAt + 2 /\ q + n = tagsAt + (n + 1)
      BY <2>3
  <2> QED
      BY <1>1, <1>15, <2>5, <2>6
<1>19. PICK tagsEnd : tagsEnd = EndOfText(raw, tagsAt)
    OBVIOUS
<1>20. ReadAs(raw, a, tags, argsAt)
  <2>1. argsAt = Ceil4(tagsEnd + 1) /\ tags = SubSeq(raw, tagsAt + 2, tagsEnd)
      BY <1>17, <1>18, <1>19
  <2> QED
      BY <1>8, <1>12, <1>13, <1>14, <1>16, <1>19, <2>1 DEF ReadAs
<1> QED
    BY <1>11, <1>20

\* What is built of them.
LEMMA ReadIsBuilt ==
    ASSUME NEW raw, NEW a, NEW tags, NEW argsAt, ReadAs(raw, a, tags, argsAt),
           NEW scan, scan = ScanArgs(raw, tags, argsAt)
    PROVE  Built(raw) = [address |-> a, tags |-> tags, arguments |-> scan.arguments,
                         storage |-> raw,
                         err |-> IF scan.bad \/ scan.pos # Len(raw) THEN "arguments" ELSE "none"]
<1>1. PICK end, tagsAt, tagsEnd :
        /\ end = EndOfText(raw, 0) /\ HasText(raw, 0, Slash) /\ a = SubSeq(raw, 1, end)
        /\ tagsAt = Ceil4(end + 1) /\ HasText(raw, tagsAt, Comma)
        /\ tagsEnd = EndOfText(raw, tagsAt) /\ argsAt = Ceil4(tagsEnd + 1)
        /\ tags = SubSeq(raw, tagsAt + 2, tagsEnd)
    BY DEF ReadAs
<1> QED
    BY <1>1 DEF Built, NoMessage

\* And with the values laid out behind them, each is found.
LEMMA SpelledIsBuilt ==
    ASSUME NEW raw \in Seq(Byte), NEW a, NEW tags \in Seq(Byte), NEW argsAt,
           Spelled(raw, a, tags, argsAt),
           NEW values \in Seq(Value), Len(tags) = Len(values),
           \A i \in 1..Len(values) : tags[i] = values[i].tag,
           NEW at, Laid(raw, argsAt, values, at)
    PROVE  \E scan : /\ Found(scan, values, at, Len(values))
                     /\ Built(raw) = [address |-> a, tags |-> tags, arguments |-> scan.arguments,
                                      storage |-> raw, err |-> "none"]
<1>1. ReadAs(raw, a, tags, argsAt) /\ argsAt \in Nat
    BY SpelledIsRead
<1>2. PICK scan : scan = ScanArgs(raw, tags, argsAt)
    OBVIOUS
<1>3. Found(scan, values, at, Len(values))
    BY <1>1, <1>2, FindsAll
<1>4. ~scan.bad /\ scan.pos = Len(raw)
    BY <1>3 DEF Found, Laid
<1>5. Built(raw) = [address |-> a, tags |-> tags, arguments |-> scan.arguments,
                    storage |-> raw,
                    err |-> IF scan.bad \/ scan.pos # Len(raw) THEN "arguments" ELSE "none"]
    BY <1>1, <1>2, ReadIsBuilt
<1> QED
    BY <1>3, <1>4, <1>5

\* An address, as a text.
LEMMA AddressIsText ==
    ASSUME NEW a \in Seq(1..255), At(a, 1) = Slash
    PROVE  Text(a) /\ a[1] = Slash
<1>1. a \in Seq(Byte) /\ Len(a) \in Nat /\ DOMAIN a = 1..Len(a)
    BY LenProperties DEF Byte
<1>2. \A i \in 1..Len(a) : a[i] # 0
  <2>1. ASSUME NEW i \in 1..Len(a) PROVE a[i] # 0
    <3>1. PICK b \in 1..255 : b = a[i]
        BY ElementOfSeq
    <3>2. b # 0
        OBVIOUS
    <3> QED
        BY <3>1, <3>2
  <2> QED
      BY <2>1
<1>3. 1 \in DOMAIN a /\ a[1] = Slash
    BY DEF At, Slash
<1> QED
    BY <1>1, <1>2, <1>3 DEF Text

\* Type tags behind a comma, as a text.
LEMMA TagsAreText ==
    ASSUME NEW tags \in Seq(Byte), \A i \in 1..Len(tags) : tags[i] # 0
    PROVE  /\ Joined(<<Comma>>, tags) \in Seq(Byte) /\ Text(Joined(<<Comma>>, tags))
           /\ Joined(<<Comma>>, tags) = <<Comma>> \o tags
<1>1. PICK n \in Nat : n = Len(tags)
    BY LenProperties
<1>2. PICK comma \in Seq(Byte) : comma = <<Comma>> /\ Len(comma) = 1 /\ comma[1] # 0
  <2>1. PICK b \in Byte : b = Comma /\ b # 0
      BY DEF Comma, Byte
  <2>2. <<b>> \in Seq(Byte) /\ Len(<<b>>) = 1 /\ <<b>>[1] = b
      OBVIOUS
  <2> QED
      BY <2>1, <2>2
<1>3. PICK c \in Seq(Byte) : c = Joined(comma, tags)
    BY JoinedType
<1>4. Len(c) = 1 + n
    BY <1>1, <1>2, <1>3, JoinedLen
<1>5. \A i \in 1..1 : c[i] = comma[i]
  <2>1. \A i \in 1..Len(comma) : Joined(comma, tags)[i] = comma[i]
      BY JoinedPlaces
  <2> QED
      BY <1>2, <1>3, <2>1
<1>6. \A i \in 1..n : c[1 + i] = tags[i]
  <2>1. \A i \in 1..Len(tags) : Joined(comma, tags)[Len(comma) + i] = tags[i]
      BY JoinedPlaces
  <2> QED
      BY <1>1, <1>2, <1>3, <2>1
<1>7. ASSUME NEW i \in 1..Len(c) PROVE c[i] # 0
  <2>1. CASE i = 1
      BY <1>2, <1>5, <2>1
  <2>2. CASE i # 1
    <3>1. PICK k \in 1..n : i = 1 + k
        BY <1>4, <2>2
    <3> QED
        BY <1>1, <1>6, <3>1
  <2> QED
      BY <2>1, <2>2
<1>8. Text(c)
    BY <1>4, <1>7 DEF Text
<1>9. c = <<Comma>> \o tags
    BY <1>2, <1>3 DEF Joined
<1> QED
    BY <1>2, <1>3, <1>8, <1>9

\* The packet a message makes, part by part.
LEMMA PackedIsSpelled ==
    ASSUME NEW m, NEW a \in Seq(1..255), At(a, 1) = Slash,
           NEW values \in Seq(Value), Carries(m, a, values)
    PROVE  /\ Packed(m) \in Seq(Byte)
           /\ \E argsAt, at : /\ Spelled(Packed(m), a, m.tags, argsAt)
                              /\ Laid(Packed(m), argsAt, values, at)
<1>1. Text(a) /\ a[1] = Slash
    BY AddressIsText
<1>2. PICK tags \in Seq(Byte) : tags = m.tags /\ Len(tags) = Len(values)
    BY DEF Carries, MessageRecord
<1>3. \A i \in 1..Len(tags) : tags[i] # 0
  <2>1. ASSUME NEW i \in 1..Len(tags) PROVE tags[i] # 0
    <3>1. PICK v \in Value : v = values[i]
        BY <1>2, <2>1, ElementOfSeq
    <3>2. tags[i] = v.tag
        BY <1>2, <2>1, <3>1 DEF Carries
    <3>3. v.tag # 0
        BY ValueFacts, SMTT(30) DEF Bools, Pods, TrueTag, FalseTag, Int32Tag, FloatTag, Int64Tag,
                          DoubleTag, StringTag, BlobTag
    <3> QED
        BY <3>2, <3>3
  <2> QED
      BY <2>1
<1>4. PICK c : c = Joined(<<Comma>>, tags) /\ Text(c) /\ c = <<Comma>> \o tags
    BY <1>3, TagsAreText
<1>5. PICK S \in Seq(Byte) : S = m.storage
    BY DEF Carries, MessageRecord
<1>6. PICK at0 : Laid(S, 0, values, at0)
    BY <1>5 DEF Carries
<1>7. PICK A \in Seq(Byte) : A = Padded(CString(a)) /\ Len(A) = Ceil4(Len(a) + 1)
    BY <1>1, TextPadded
<1>8. PICK T \in Seq(Byte) : T = Padded(CString(c)) /\ Len(T) = Ceil4(Len(c) + 1)
    BY <1>4, TextPadded
<1>9. PICK aLen \in Nat : aLen = Len(A) /\ aLen % 4 = 0
  <2>1. PICK q \in Nat : q = Len(a) + 1
      BY <1>1, TextPadded
  <2>2. Ceil4(q) \in Nat /\ Ceil4(q) % 4 = 0
      BY CeilFacts
  <2> QED
      BY <1>7, <2>1, <2>2
<1>10. PICK tLen \in Nat : tLen = Len(T) /\ tLen % 4 = 0
  <2>1. PICK q \in Nat : q = Len(c) + 1
      BY <1>4, TextPadded
  <2>2. Ceil4(q) \in Nat /\ Ceil4(q) % 4 = 0
      BY CeilFacts
  <2> QED
      BY <1>8, <2>1, <2>2
<1>11. PICK W \in Seq(Byte) : W = Joined(A, T) /\ Len(W) = aLen + tLen
  <2>1. Joined(A, T) \in Seq(Byte)
      BY JoinedType
  <2>2. Len(Joined(A, T)) = Len(A) + Len(T)
      BY JoinedLen
  <2> QED
      BY <1>9, <1>10, <2>1, <2>2
<1>12. PICK raw \in Seq(Byte) : raw = Joined(W, S)
    BY JoinedType
<1>13. Packed(m) = raw
  <2>1. m.err = "none" /\ m.address = a
      BY DEF Carries
  <2>2. Packed(m) = Padded(CString(a)) \o Padded(CString(<<Comma>> \o tags)) \o S
      BY <1>2, <1>5, <2>1 DEF Packed
  <2>3. raw = (A \o T) \o S
      BY <1>11, <1>12 DEF Joined
  <2> QED
      BY <1>4, <1>7, <1>8, <2>2, <2>3
<1>14. Holds(raw, 0, A) /\ Holds(raw, aLen, T)
  <2>1. Holds(W, 0, A)
      BY <1>11, HoldsParts DEF Joined
  <2>2. Holds(W, aLen, T)
      BY <1>9, <1>11, HoldsParts DEF Joined
  <2>3. Holds(raw, 0, A)
      BY <1>12, <2>1, HoldsLonger DEF Joined
  <2>4. Holds(raw, aLen, T)
      BY <1>12, <2>2, HoldsLonger DEF Joined
  <2> QED
      BY <2>3, <2>4
<1>15. Spelled(raw, a, tags, Len(W))
    BY <1>1, <1>4, <1>7, <1>8, <1>9, <1>10, <1>11, <1>14 DEF Spelled
<1>16. \E at : Laid(raw, Len(W), values, at)
  <2>1. Len(W) % 4 = 0
      BY <1>9, <1>10, <1>11, FoursAdd
  <2> QED
      BY <1>6, <1>12, <2>1, LaidBehind
<1> QED
    BY <1>2, <1>13, <1>15, <1>16

\* So what is sent arrives: the receiver reads each value as it was pushed.
LEMMA SentArrives ==
    ASSUME NEW m, NEW a \in Seq(1..255), NEW values \in Seq(Value), Carries(m, a, values),
           m.err = "none"
    PROVE  Arrived(Built(Packed(m)), m, values)
<1>1. At(a, 1) = Slash
    BY DEF Carries
<1>2. PICK raw \in Seq(Byte) : raw = Packed(m)
    BY <1>1, PackedIsSpelled
<1>3. PICK argsAt, at : Spelled(raw, a, m.tags, argsAt) /\ Laid(raw, argsAt, values, at)
    BY <1>1, <1>2, PackedIsSpelled
<1>4. PICK tags \in Seq(Byte) : /\ tags = m.tags /\ Len(tags) = Len(values)
                                /\ \A i \in 1..Len(values) : tags[i] = values[i].tag
    BY DEF Carries, MessageRecord
<1>5. PICK scan : /\ Found(scan, values, at, Len(values))
                  /\ Built(raw) = [address |-> a, tags |-> tags, arguments |-> scan.arguments,
                                   storage |-> raw, err |-> "none"]
    BY <1>3, <1>4, SpelledIsBuilt
<1>6. PICK arguments \in Seq([pos : Nat, size : Nat]) :
        /\ arguments = scan.arguments /\ Len(arguments) = Len(values)
        /\ \A i \in 1..Len(values) :
              arguments[i] = [pos |-> at[i], size |-> Len(Stored(values[i]))]
    BY <1>5 DEF Found, ScanState
<1>7. PICK r : r = [address |-> a, tags |-> tags, arguments |-> arguments,
                    storage |-> raw, err |-> "none"]
    OBVIOUS
<1>8. r \in MessageRecord
  <2>1. a \in Seq(Byte)
      BY <1>1, AddressIsText DEF Text
  <2> QED
      BY <1>7, <2>1 DEF MessageRecord, Errs
<1>9. ASSUME NEW i \in 1..Len(values) PROVE ValueAt(r, i) = values[i]
  <2>1. PICK v \in Value : v = values[i]
      BY ElementOfSeq
  <2>2. PICK p \in Nat : p = at[i] /\ p % 4 = 0
    <3>1. i \in 1..(Len(values) + 1)
        BY LenProperties
    <3>2. at[i] \in Nat /\ at[i] % 4 = 0
        BY <1>3, <3>1, LaidAt
    <3> QED
        BY <3>2
  <2>3. Holds(raw, p, Padded(Stored(v)))
      BY <1>3, <2>1, <2>2, LaidAt
  <2>4. ReadAt(raw, v.tag, p, Len(Stored(v))) = v.bytes
      BY <2>2, <2>3, StoredIsRead
  <2>5. r.arguments[i].pos = p /\ r.arguments[i].size = Len(Stored(v)) /\ r.tags[i] = v.tag
        /\ r.storage = raw
    <3>1. arguments[i] = [pos |-> p, size |-> Len(Stored(v))]
        BY <1>6, <2>1, <2>2
    <3>2. tags[i] = v.tag
        BY <1>4, <2>1
    <3>3. r.arguments = arguments /\ r.tags = tags /\ r.storage = raw
        BY <1>7
    <3> QED
        BY <3>1, <3>2, <3>3, SMTT(30)
  <2>6. ValueAt(r, i) = [tag |-> v.tag, bytes |-> ReadAt(raw, v.tag, p, Len(Stored(v)))]
      BY <2>5 DEF ValueAt, ReadAt
  <2>7. v = [tag |-> v.tag, bytes |-> v.bytes]
      BY ValueFacts
  <2> QED
      BY <2>1, <2>4, <2>6, <2>7
<1>10. Arrived(r, m, values)
  <2>1. m.address = a
      BY DEF Carries
  <2> QED
      BY <1>2, <1>4, <1>6, <1>7, <1>8, <1>9, <2>1 DEF Arrived
<1> QED
    BY <1>2, <1>5, <1>6, <1>7, <1>10

-----------------------------------------------------------------------------
(* Any bytes *)

\* A packet comes in words.
IsPacket(raw) == raw \in Seq(Byte) /\ Len(raw) % 4 = 0 /\ Len(raw) < MaxInt

\* The first multiple of four is not past another.
LEMMA CeilLeast ==
    ASSUME NEW n \in Nat, NEW m \in Nat, n <= m, m % 4 = 0
    PROVE  Ceil4(n) <= m
<1>1. PICK q \in Nat : m = 4 * q
  <2>1. m \div 4 \in Nat /\ m = 4 * (m \div 4)
      OBVIOUS
  <2> QED
      BY <2>1
<1> QED
    BY <1>1 DEF Ceil4

\* Where a text ends: at the first 0, or where the bytes end.
LEMMA EndOfTextFacts ==
    ASSUME NEW raw \in Seq(Byte), NEW p \in Nat, p <= Len(raw)
    PROVE  \E n \in Nat : /\ EndOfText(raw, p) = p + n /\ p + n <= Len(raw)
                          /\ p + n # Len(raw) => raw[p + n + 1] = 0
                          /\ \A i \in 1..n : raw[p + i] # 0
<1> DEFINE T == {i \in p..Len(raw) : i = Len(raw) \/ raw[i + 1] = 0}
<1>1. PICK len \in Nat : len = Len(raw)
    BY LenProperties
<1>2. T \subseteq Nat /\ len \in T
    BY <1>1
<1>3. Min(T) \in T /\ \A y \in T : Min(T) <= y
  <2> HIDE DEF T
  <2> QED
      BY <1>2, MinIsLeast
<1>4. PICK e : e = Min(T)
    OBVIOUS
<1>5. e \in T /\ \A y \in T : e <= y
    BY <1>3, <1>4
<1>6. e \in Nat /\ p <= e /\ e <= len /\ (e = len \/ raw[e + 1] = 0)
    BY <1>1, <1>5
<1>7. PICK n \in Nat : e = p + n
    BY <1>6
<1>8. ASSUME NEW i \in 1..n PROVE raw[p + i] # 0
  <2>1. PICK j \in Nat : j = (p + i) - 1 /\ j + 1 = p + i /\ p <= j /\ j < e
      BY <1>7
  <2>2. j \in p..Len(raw) /\ ~(e <= j)
      BY <1>1, <1>6, <2>1
  <2>3. j \notin T
      BY <1>5, <2>2
  <2>4. raw[j + 1] # 0
      BY <2>2, <2>3
  <2> QED
      BY <2>1, <2>4
<1>9. EndOfText(raw, p) = e
    BY <1>4 DEF EndOfText
<1>10. (p + n) + 1 = e + 1
    BY <1>7
<1> QED
    BY <1>1, <1>6, <1>7, <1>8, <1>9, <1>10

\* getArgSize's size is a size, unless the argument is malformed.
LEMMA ClaimedIsSize ==
    ASSUME NEW raw \in Seq(Byte), NEW p \in Nat, p <= Len(raw), NEW tag
    PROVE  /\ ClaimedSize(raw, tag, p) \in Nat \cup {-1}
           /\ ClaimedSize(raw, tag, p) # -1 => tag \in Bools \cup Pods \cup {StringTag, BlobTag}
<1>1. CASE tag \in Bools
    BY <1>1, ClaimedSizes
<1>2. CASE tag \in Pods
    BY <1>2, ClaimedSizes, TagsApart
<1>3. CASE tag = StringTag
  <2>1. PICK n \in Nat : EndOfText(raw, p) = p + n
      BY EndOfTextFacts
  <2>2. EndOfText(raw, p) - p + 1 = n + 1
      BY <2>1
  <2>3. CASE EndOfText(raw, p) # Len(raw)
      BY <1>3, <2>2, <2>3, ClaimedSizes
  <2>4. CASE EndOfText(raw, p) = Len(raw)
    <3>1. ClaimedSize(raw, tag, p) = -1
        BY <1>3, <2>4, TagsApart DEF ClaimedSize
    <3> QED
        BY <3>1
  <2> QED
      BY <2>3, <2>4
<1>4. CASE tag = BlobTag
  <2>1. CASE p # Len(raw)
    <3>1. BlobSize(raw, p) \in Nat \cup {-1}
      <4>1. PICK len \in Nat : len = Len(raw)
          BY LenProperties
      <4> QED
          BY <4>1 DEF BlobSize
    <3> QED
        BY <1>4, <2>1, <3>1, ClaimedSizes
  <2>2. CASE p = Len(raw)
    <3>1. ClaimedSize(raw, tag, p) = -1
        BY <1>4, <2>2, TagsApart DEF ClaimedSize
    <3> QED
        BY <3>1
  <2> QED
      BY <2>1, <2>2
<1>5. CASE tag \notin Bools \cup Pods \cup {StringTag, BlobTag}
  <2>1. ClaimedSize(raw, tag, p) = -1
      BY <1>5, TagsApart DEF ClaimedSize
  <2> QED
      BY <2>1
<1> QED
    BY <1>1, <1>2, <1>3, <1>4, <1>5

LEMMA ArgSizeFacts ==
    ASSUME NEW raw, IsPacket(raw), NEW p \in Nat, p <= Len(raw), p % 4 = 0, NEW tag,
           ArgSize(raw, tag, p) # -1
    PROVE  \E size \in Nat :
              /\ size = ArgSize(raw, tag, p) /\ size = ClaimedSize(raw, tag, p)
              /\ p + size <= Len(raw) /\ p + Ceil4(size) <= Len(raw)
              /\ ZeroPadding(raw, p + size)
              /\ tag \in Bools \cup Pods \cup {StringTag, BlobTag}
<1>1. raw \in Seq(Byte)
    BY DEF IsPacket
<1>2. PICK len \in Nat : len = Len(raw) /\ len % 4 = 0
    BY <1>1, LenProperties DEF IsPacket
<1>3. PICK size : size = ClaimedSize(raw, tag, p)
    OBVIOUS
<1>4. size # -1 /\ ~(p + size > Len(raw)) /\ ZeroPadding(raw, p + size)
      /\ ArgSize(raw, tag, p) = size
    BY <1>3 DEF ArgSize
<1>5. size \in Nat /\ tag \in Bools \cup Pods \cup {StringTag, BlobTag}
    BY <1>1, <1>3, <1>4, ClaimedIsSize
<1>6. p + size <= len
    BY <1>2, <1>4, <1>5
<1>7. p + Ceil4(size) <= len
  <2>1. PICK q \in Nat : q = p + size
      BY <1>5
  <2>2. Ceil4(q) <= len
      BY <1>2, <1>6, <2>1, CeilLeast
  <2>3. Ceil4(p + size) = p + Ceil4(size)
      BY <1>5, CeilShift
  <2> QED
      BY <2>1, <2>2, <2>3
<1> QED
    BY <1>2, <1>3, <1>4, <1>5, <1>6, <1>7

\* Where the first k arguments are, and that each has a size: the next begins
\* behind its padding, within the bytes.
Measured(raw, tags, base, at, k) ==
    /\ at \in [1..(k + 1) -> Nat] /\ at[1] = base
    /\ \A i \in 1..(k + 1) : at[i] % 4 = 0 /\ at[i] <= Len(raw)
    /\ \A i \in 1..k : /\ ArgSize(raw, tags[i], at[i]) # -1
                       /\ at[i + 1] = at[i] + Ceil4(ArgSize(raw, tags[i], at[i]))

\* What the loop has noted of them.
Noted(scan, raw, tags, at, k) ==
    /\ scan.pos = at[k + 1] /\ Len(scan.arguments) = k
    /\ \A i \in 1..k :
        scan.arguments[i] = [pos |-> at[i], size |-> ArgSize(raw, tags[i], at[i])]

\* One argument more.
LEMMA MeasuresOneMore ==
    ASSUME NEW raw, IsPacket(raw), NEW tags, NEW base, NEW k \in Nat, NEW at,
           Measured(raw, tags, base, at, k), ArgSize(raw, tags[k + 1], at[k + 1]) # -1
    PROVE  \E to : /\ Measured(raw, tags, base, to, k + 1)
                   /\ \A i \in 1..(k + 1) : to[i] = at[i]
                   /\ to[(k + 1) + 1] = at[k + 1] + Ceil4(ArgSize(raw, tags[k + 1], at[k + 1]))
<1>1. at \in [1..(k + 1) -> Nat] /\ at[1] = base
    BY DEF Measured
<1>2. PICK p \in Nat : p = at[k + 1] /\ p % 4 = 0 /\ p <= Len(raw)
  <2>1. k + 1 \in 1..(k + 1)
      OBVIOUS
  <2> QED
      BY <1>1, <2>1 DEF Measured
<1>3. PICK size \in Nat : size = ArgSize(raw, tags[k + 1], p) /\ p + Ceil4(size) <= Len(raw)
    BY <1>2, ArgSizeFacts
<1>4. PICK next \in Nat : next = p + Ceil4(size) /\ next % 4 = 0 /\ next <= Len(raw)
  <2>1. PICK c \in Nat : c = Ceil4(size) /\ c % 4 = 0
      BY CeilFacts
  <2>2. (p + c) % 4 = 0
      BY <1>2, <2>1, FoursAdd
  <2>3. p + c \in Nat /\ p + c <= Len(raw)
      BY <1>3, <2>1
  <2> QED
      BY <2>1, <2>2, <2>3
<1> DEFINE to == [i \in 1..((k + 1) + 1) |-> IF i = (k + 1) + 1 THEN next ELSE at[i]]
<1>5. /\ to \in [1..((k + 1) + 1) -> Nat]
      /\ \A i \in 1..(k + 1) : to[i] = at[i]
      /\ to[(k + 1) + 1] = next
    BY <1>1
<1> HIDE DEF to
<1>6. to[1] = base
    BY <1>1, <1>5
<1>7. ASSUME NEW i \in 1..((k + 1) + 1) PROVE to[i] % 4 = 0 /\ to[i] <= Len(raw)
  <2>1. CASE i = (k + 1) + 1
      BY <1>4, <1>5, <2>1
  <2>2. CASE i \in 1..(k + 1)
    <3>1. at[i] % 4 = 0 /\ at[i] <= Len(raw)
        BY <2>2 DEF Measured
    <3> QED
        BY <1>5, <2>2, <3>1
  <2> QED
      BY <2>1, <2>2
<1>8. ASSUME NEW i \in 1..(k + 1)
      PROVE  /\ ArgSize(raw, tags[i], to[i]) # -1
             /\ to[i + 1] = to[i] + Ceil4(ArgSize(raw, tags[i], to[i]))
  <2>1. CASE i = k + 1
    <3>1. to[i] = p /\ to[i + 1] = next
        BY <1>2, <1>5, <2>1
    <3> QED
        BY <1>2, <1>3, <1>4, <2>1, <3>1
  <2>2. CASE i \in 1..k
    <3>1. to[i] = at[i] /\ to[i + 1] = at[i + 1]
      <4>1. i + 1 \in 1..(k + 1)
          BY <2>2
      <4> QED
          BY <1>5, <4>1
    <3>2. ArgSize(raw, tags[i], at[i]) # -1 /\ at[i + 1] = at[i] + Ceil4(ArgSize(raw, tags[i], at[i]))
        BY <2>2 DEF Measured
    <3> QED
        BY <3>1, <3>2
  <2> QED
      BY <2>1, <2>2
<1>9. Measured(raw, tags, base, to, k + 1)
    BY <1>5, <1>6, <1>7, <1>8 DEF Measured
<1> QED
    BY <1>2, <1>3, <1>4, <1>5, <1>9

\* One turn of the loop over any bytes.
LEMMA NotesOneMore ==
    ASSUME NEW raw, IsPacket(raw), NEW tags, NEW base, NEW k \in Nat,
           NEW scan \in ScanState, ~scan.bad, NEW at, Measured(raw, tags, base, at, k),
           Noted(scan, raw, tags, at, k),
           ~ScanArg(scan, tags[k + 1], raw).bad
    PROVE  /\ ScanArg(scan, tags[k + 1], raw) \in ScanState
           /\ \E to : /\ Measured(raw, tags, base, to, k + 1)
                      /\ Noted(ScanArg(scan, tags[k + 1], raw), raw, tags, to, k + 1)
<1>1. PICK p \in Nat : p = at[k + 1] /\ p % 4 = 0 /\ p <= Len(raw)
  <2>1. k + 1 \in 1..(k + 1)
      OBVIOUS
  <2> QED
      BY <2>1 DEF Measured
<1>2. scan.pos = p
    BY <1>1 DEF Noted
<1>3. ArgSize(raw, tags[k + 1], p) # -1
  <2>1. ASSUME ArgSize(raw, tags[k + 1], p) = -1 PROVE FALSE
    <3>1. ScanArg(scan, tags[k + 1], raw) = [scan EXCEPT !.bad = TRUE]
        BY <1>2, <2>1 DEF ScanArg
    <3>2. [scan EXCEPT !.bad = TRUE].bad = TRUE
        BY DEF ScanState
    <3> QED
        BY <3>1, <3>2
  <2> QED
      BY <2>1
<1>4. PICK size \in Nat : size = ArgSize(raw, tags[k + 1], p)
    BY <1>1, <1>3, ArgSizeFacts
<1>5. PICK next : next = ScanArg(scan, tags[k + 1], raw)
    OBVIOUS
<1>6. /\ next \in ScanState /\ next.pos = p + Ceil4(size)
      /\ next.arguments = Append(scan.arguments, [pos |-> p, size |-> size])
    BY <1>2, <1>4, <1>5, ScanGood
<1>7. PICK to : /\ Measured(raw, tags, base, to, k + 1)
                /\ \A i \in 1..(k + 1) : to[i] = at[i]
                /\ to[(k + 1) + 1] = p + Ceil4(size)
  <2>1. ArgSize(raw, tags[k + 1], at[k + 1]) # -1
      BY <1>1, <1>3
  <2>2. \E to : /\ Measured(raw, tags, base, to, k + 1)
                /\ \A i \in 1..(k + 1) : to[i] = at[i]
                /\ to[(k + 1) + 1] = at[k + 1] + Ceil4(ArgSize(raw, tags[k + 1], at[k + 1]))
      BY <2>1, MeasuresOneMore
  <2> QED
      BY <1>1, <1>4, <2>2
<1>8. PICK args \in Seq([pos : Nat, size : Nat]) :
        /\ args = scan.arguments /\ Len(args) = k
        /\ \A i \in 1..k : args[i] = [pos |-> at[i], size |-> ArgSize(raw, tags[i], at[i])]
  <2>1. scan.arguments \in Seq([pos : Nat, size : Nat])
      BY DEF ScanState
  <2> QED
      BY <2>1 DEF Noted
<1>9. PICK arg \in [pos : Nat, size : Nat] : arg = [pos |-> p, size |-> size]
    OBVIOUS
<1>10. /\ Len(Append(args, arg)) = k + 1 /\ Append(args, arg)[k + 1] = arg
       /\ \A i \in 1..k : Append(args, arg)[i] = args[i]
    BY <1>8, AppendProperties
<1>11. PICK more : more = Append(args, arg)
    OBVIOUS
<1>12. ASSUME NEW i \in 1..(k + 1)
       PROVE  more[i] = [pos |-> to[i], size |-> ArgSize(raw, tags[i], to[i])]
  <2>1. CASE i = k + 1
      BY <1>1, <1>4, <1>7, <1>9, <1>10, <1>11, <2>1
  <2>2. CASE i \in 1..k
      BY <1>7, <1>8, <1>10, <1>11, <2>2
  <2> QED
      BY <2>1, <2>2
<1>13. next.arguments = more /\ next.pos = to[(k + 1) + 1] /\ Len(more) = k + 1
    BY <1>6, <1>7, <1>8, <1>9, <1>10, <1>11
<1>14. Noted(next, raw, tags, to, k + 1)
    BY <1>12, <1>13 DEF Noted
<1> QED
    BY <1>5, <1>6, <1>7, <1>14

\* The loop over the type tags, whatever they and the bytes are.
LEMMA ScanArgsFacts ==
    ASSUME NEW raw, IsPacket(raw), NEW tags \in Seq(Byte), NEW base \in Nat,
           base % 4 = 0, base <= Len(raw)
    PROVE  \/ ScanArgs(raw, tags, base).bad = TRUE
           \/ /\ ScanArgs(raw, tags, base) \in ScanState /\ ~ScanArgs(raw, tags, base).bad
              /\ \E at : /\ Measured(raw, tags, base, at, Len(tags))
                         /\ Noted(ScanArgs(raw, tags, base), raw, tags, at, Len(tags))
<1>1. Len(tags) \in Nat
    BY LenProperties
<1>2. PICK f : Scans(f, raw, tags, base, Len(tags)) /\ ScanArgs(raw, tags, base) = f[Len(tags)]
    BY <1>1, ScanArgsUnrolled
<1> DEFINE Good(k) == /\ f[k] \in ScanState
                      /\ ~f[k].bad => \E at : /\ Measured(raw, tags, base, at, k)
                                              /\ Noted(f[k], raw, tags, at, k)
           S == {k \in Nat : k <= Len(tags) => Good(k)}
<1>3. 0 \in S
  <2>1. f[0] = FirstScan(base)
      BY <1>1, <1>2, ScansAt
  <2>2. FirstScan(base) \in ScanState
    <3>1. <<>> \in Seq([pos : Nat, size : Nat])
        BY EmptySeq
    <3> QED
        BY <3>1 DEF FirstScan, ScanState
  <2>3. PICK at : at = [i \in 1..1 |-> base]
      OBVIOUS
  <2>4. Measured(raw, tags, base, at, 0)
      BY <2>3 DEF Measured
  <2>5. Noted(FirstScan(base), raw, tags, at, 0)
      BY <2>3 DEF Noted, FirstScan
  <2> QED
      BY <2>1, <2>2, <2>4, <2>5
<1>4. ASSUME NEW k \in Nat, k \in S PROVE k + 1 \in S
  <2>1. CASE k + 1 <= Len(tags)
    <3>1. Good(k)
        BY <1>1, <1>4, <2>1
    <3>2. k + 1 \in 1..Len(tags)
        BY <1>1, <2>1
    <3>3. f[k + 1] = ScanArg(f[k], tags[k + 1], raw)
      <4>1. f[k + 1] = ScanArg(f[(k + 1) - 1], tags[k + 1], raw)
          BY <1>1, <1>2, <3>2, ScansAt
      <4>2. (k + 1) - 1 = k
          OBVIOUS
      <4> QED
          BY <4>1, <4>2
    <3>4. PICK scan \in ScanState : scan = f[k]
        BY <3>1
    <3>5. CASE scan.bad
      <4>1. PICK next : next = [scan EXCEPT !.bad = TRUE]
          OBVIOUS
      <4>2. f[k + 1] = next
          BY <3>3, <3>4, <3>5, <4>1 DEF ScanArg
      <4>3. next \in ScanState /\ next.bad
          BY <4>1 DEF ScanState
      <4> QED
          BY <4>2, <4>3
    <3>6. CASE ~scan.bad /\ ArgSize(raw, tags[k + 1], scan.pos) = -1
      <4>1. PICK next : next = [scan EXCEPT !.bad = TRUE]
          OBVIOUS
      <4>2. f[k + 1] = next
          BY <3>3, <3>4, <3>6, <4>1 DEF ScanArg
      <4>3. next \in ScanState /\ next.bad
          BY <4>1 DEF ScanState
      <4> QED
          BY <4>2, <4>3
    <3>7. CASE ~scan.bad /\ ArgSize(raw, tags[k + 1], scan.pos) # -1
      <4>1. PICK at : Measured(raw, tags, base, at, k) /\ Noted(scan, raw, tags, at, k)
          BY <3>1, <3>4, <3>7
      <4>2. PICK p \in Nat : p = at[k + 1] /\ p % 4 = 0 /\ p <= Len(raw)
        <5>1. k + 1 \in 1..(k + 1)
            OBVIOUS
        <5> QED
            BY <4>1, <5>1 DEF Measured
      <4>3. scan.pos = p
          BY <4>1, <4>2 DEF Noted
      <4>4. PICK size \in Nat : size = ArgSize(raw, tags[k + 1], scan.pos)
          BY <3>7, <4>2, <4>3, ArgSizeFacts
      <4>5. ~ScanArg(scan, tags[k + 1], raw).bad
          BY <3>7, <4>4, ScanGood
      <4>6. /\ ScanArg(scan, tags[k + 1], raw) \in ScanState
            /\ \E to : /\ Measured(raw, tags, base, to, k + 1)
                       /\ Noted(ScanArg(scan, tags[k + 1], raw), raw, tags, to, k + 1)
          BY <3>7, <4>1, <4>5, NotesOneMore
      <4> QED
          BY <3>3, <3>4, <4>6
    <3> QED
        BY <3>5, <3>6, <3>7
  <2>2. CASE ~(k + 1 <= Len(tags))
      BY <2>2
  <2> QED
      BY <2>1, <2>2
<1>5. Len(tags) \in S
  <2> HIDE DEF S
  <2>1. Nat \subseteq S
      BY <1>3, <1>4, NatSetInduction
  <2> QED
      BY <1>1, <2>1
<1>6. Good(Len(tags))
    BY <1>1, <1>5
<1>7. CASE f[Len(tags)].bad
  <2>1. f[Len(tags)].bad = TRUE
      BY <1>6, <1>7 DEF ScanState
  <2> QED
      BY <1>2, <2>1
<1>8. CASE ~f[Len(tags)].bad
    BY <1>2, <1>6, <1>8
<1> QED
    BY <1>7, <1>8

\* n bytes of raw, behind the first p.
LEMMA PartFacts ==
    ASSUME NEW raw \in Seq(Byte), NEW p \in Nat, NEW n \in Nat, p + n <= Len(raw)
    PROVE  /\ SubSeq(raw, p + 1, p + n) \in Seq(Byte) /\ Len(SubSeq(raw, p + 1, p + n)) = n
           /\ \A i \in 1..n : SubSeq(raw, p + 1, p + n)[i] = raw[p + i]
           /\ Holds(raw, p, SubSeq(raw, p + 1, p + n))
<1>1. PICK len \in Nat : len = Len(raw)
    BY LenProperties
<1>2. ASSUME NEW i \in (p + 1)..(p + n) PROVE raw[i] \in Byte
  <2>1. i \in 1..Len(raw)
      BY <1>1, <1>2
  <2> QED
      BY <2>1, ElementOfSeq
<1>3. PICK b \in Int, e \in Int : b = p + 1 /\ e = p + n
    OBVIOUS
<1>4. PICK w : w = SubSeq(raw, b, e)
    OBVIOUS
<1>5. w \in Seq(Byte) /\ Len(w) = n
  <2>1. \A i \in b..e : raw[i] \in Byte
      BY <1>2, <1>3
  <2>2. SubSeq(raw, b, e) \in Seq(Byte)
      BY <2>1, SubSeqProperties
  <2>3. Len(SubSeq(raw, b, e)) = IF b <= e THEN e - b + 1 ELSE 0
      BY <2>1, SubSeqProperties
  <2> QED
      BY <1>3, <1>4, <2>2, <2>3
<1>6. ASSUME NEW i \in 1..n PROVE w[i] = raw[p + i]
  <2>1. \A k \in b..e : raw[k] \in Byte
      BY <1>2, <1>3
  <2>2. i \in 1..(e - b + 1)
      BY <1>3
  <2>3. SubSeq(raw, b, e)[i] = raw[b + i - 1]
      BY <2>1, <2>2, SubSeqProperties
  <2>4. b + i - 1 = p + i
      BY <1>3
  <2> QED
      BY <1>4, <2>3, <2>4
<1>7. Holds(raw, p, w)
    BY <1>5, <1>6 DEF Holds
<1>8. w = SubSeq(raw, p + 1, p + n)
    BY <1>3, <1>4
<1> QED
    BY <1>5, <1>6, <1>7, <1>8

\* What is held, with zeros behind it, is held with its padding.
LEMMA PadsHold ==
    ASSUME NEW raw \in Seq(Byte), NEW p \in Nat, p % 4 = 0, NEW w \in Seq(Byte),
           Holds(raw, p, w), ZeroPadding(raw, p + Len(w)), p + Ceil4(Len(w)) <= Len(raw)
    PROVE  Holds(raw, p, Padded(w))
<1>1. PICK n \in Nat : n = Len(w)
    BY LenProperties
<1>2. PICK c \in Nat : c = Ceil4(n) /\ n <= c
    BY CeilFacts
<1>3. PICK u \in Seq(Byte) : u = Padded(w) /\ Len(u) = c
    BY <1>1, <1>2, PaddedFacts
<1>4. (\A i \in 1..n : u[i] = w[i]) /\ (\A i \in (n + 1)..c : u[i] = 0)
    BY <1>1, <1>2, <1>3, PaddedFacts
<1>5. Ceil4(p + n) = p + c
    BY <1>2, CeilShift
<1>6. PICK len \in Nat : len = Len(raw) /\ DOMAIN raw = 1..len
    BY LenProperties
<1>7. p + c <= len
    BY <1>1, <1>2, <1>6
<1>8. ASSUME NEW i \in 1..c PROVE raw[p + i] = u[i]
  <2>1. CASE i \in 1..n
    <3>1. raw[p + i] = w[i]
        BY <1>1, <2>1 DEF Holds
    <3> QED
        BY <1>4, <2>1, <3>1
  <2>2. CASE i \in (n + 1)..c
    <3>1. PICK j \in Nat : j = p + i
        OBVIOUS
    <3>2. j \in (p + n + 1)..Ceil4(p + n) /\ j \in DOMAIN raw
        BY <1>5, <1>6, <1>7, <2>2, <3>1
    <3>3. At(raw, j) = 0
        BY <1>1, <3>2 DEF ZeroPadding
    <3> QED
        BY <1>4, <2>2, <3>1, <3>2, <3>3 DEF At
  <2> QED
      BY <2>1, <2>2
<1> QED
    BY <1>3, <1>6, <1>7, <1>8 DEF Holds

\* Behind the first p bytes of raw is the text s, of n characters, with its 0 and
\* its padding.
TextAt(raw, p, s, n) ==
    /\ Text(s) /\ n = Len(s) /\ EndOfText(raw, p) = p + n
    /\ s = SubSeq(raw, p + 1, p + n) /\ Holds(raw, p, Padded(CString(s)))
    /\ Ceil4(EndOfText(raw, p) + 1) = p + Ceil4(n + 1)
    /\ p + Ceil4(n + 1) <= Len(raw)

\* So is a text buildFromRawData finds.
LEMMA TextThere ==
    ASSUME NEW raw, IsPacket(raw), NEW p \in Nat, p % 4 = 0, p <= Len(raw), NEW c, c # 0,
           HasText(raw, p, c)
    PROVE  \E s \in Seq(Byte), n \in Nat : TextAt(raw, p, s, n) /\ s[1] = c
<1>1. raw \in Seq(Byte)
    BY DEF IsPacket
<1>2. PICK len \in Nat : len = Len(raw) /\ len % 4 = 0 /\ DOMAIN raw = 1..len
    BY <1>1, LenProperties DEF IsPacket
<1>3. PICK n \in Nat : /\ EndOfText(raw, p) = p + n
                       /\ p + n # Len(raw) => raw[p + n + 1] = 0
                       /\ \A i \in 1..n : raw[p + i] # 0
    BY <1>1, EndOfTextFacts
<1>4. p + n < len /\ ZeroPadding(raw, (p + n) + 1) /\ At(raw, p + 1) = c
    BY <1>2, <1>3 DEF HasText
<1>5. raw[p + n + 1] = 0
    BY <1>2, <1>3, <1>4
<1>6. p + 1 \in DOMAIN raw /\ raw[p + 1] = c /\ n > 0
  <2>1. p + 1 \in DOMAIN raw /\ raw[p + 1] = c
      BY <1>4 DEF At
  <2>2. n # 0
      BY <1>5, <2>1
  <2> QED
      BY <2>1, <2>2
<1>7. PICK s \in Seq(Byte) : /\ s = SubSeq(raw, p + 1, p + n) /\ Len(s) = n
                             /\ \A i \in 1..n : s[i] = raw[p + i]
  <2>1. p + n <= Len(raw)
      BY <1>2, <1>4
  <2>2. SubSeq(raw, p + 1, p + n) \in Seq(Byte)
      BY <1>1, <2>1, PartFacts
  <2>3. Len(SubSeq(raw, p + 1, p + n)) = n
      BY <1>1, <2>1, PartFacts
  <2>4. \A i \in 1..n : SubSeq(raw, p + 1, p + n)[i] = raw[p + i]
      BY <1>1, <2>1, PartFacts
  <2> QED
      BY <2>2, <2>3, <2>4
<1>8. Text(s) /\ s[1] = c
  <2>1. Len(s) = n /\ \A i \in 1..n : s[i] = raw[p + i]
      BY <1>7
  <2>2. 1 \in 1..n
      BY <1>6
  <2>3. s[1] = raw[p + 1]
      BY <2>1, <2>2
  <2>4. ASSUME NEW i \in 1..n PROVE s[i] # 0
    <3>1. raw[p + i] # 0
        BY <1>3
    <3> QED
        BY <2>1, <3>1
  <2> QED
      BY <1>6, <2>1, <2>3, <2>4 DEF Text
<1>9. PICK w \in Seq(Byte) : w = CString(s) /\ Len(w) = n + 1 /\ w[n + 1] = 0
                             /\ \A i \in 1..n : w[i] = s[i]
  <2>1. 0 \in Byte
      BY DEF Byte
  <2>2. Append(s, 0) \in Seq(Byte)
      BY <2>1, AppendProperties
  <2>4. Len(s) = n
      BY <1>7
  <2>3. Len(Append(s, 0)) = n + 1 /\ Append(s, 0)[n + 1] = 0
        /\ \A i \in 1..n : Append(s, 0)[i] = s[i]
      BY <2>1, <2>4, AppendProperties
  <2> QED
      BY <2>2, <2>3 DEF CString
<1>10. Holds(raw, p, w)
  <2>1. p + (n + 1) <= len
      BY <1>4
  <2>2. ASSUME NEW i \in 1..(n + 1) PROVE raw[p + i] = w[i]
    <3>1. CASE i = n + 1
      <4>1. p + i = p + n + 1
          BY <3>1
      <4> QED
          BY <1>5, <1>9, <3>1, <4>1
    <3>2. CASE i \in 1..n
        BY <1>7, <1>9, <3>2
    <3> QED
        BY <3>1, <3>2
  <2> QED
      BY <1>2, <1>9, <2>1, <2>2 DEF Holds
<1>11. Ceil4((p + n) + 1) = p + Ceil4(n + 1) /\ p + Ceil4(n + 1) <= len
  <2>1. PICK q \in Nat : q = n + 1 /\ p + q = (p + n) + 1
      OBVIOUS
  <2>2. Ceil4(p + q) = p + Ceil4(q)
      BY CeilShift
  <2>3. PICK k \in Nat : k = p + q /\ k <= len
      BY <1>4, <2>1
  <2>4. Ceil4(k) <= len
      BY <1>2, <2>3, CeilLeast
  <2> QED
      BY <2>1, <2>2, <2>3, <2>4
<1>12. Holds(raw, p, Padded(w))
  <2>1. p + Len(w) = (p + n) + 1 /\ p + Ceil4(Len(w)) <= Len(raw)
      BY <1>2, <1>9, <1>11
  <2>2. ZeroPadding(raw, p + Len(w))
      BY <1>4, <2>1
  <2> QED
      BY <1>1, <1>10, <2>1, <2>2, PadsHold
<1>13. TextAt(raw, p, s, n)
    BY <1>2, <1>3, <1>7, <1>8, <1>9, <1>11, <1>12 DEF TextAt
<1> QED
    BY <1>8, <1>13

\* What the receiver makes of an argument.
ReadValue(raw, tag, p, size) == [tag |-> tag, bytes |-> ReadAt(raw, tag, p, size)]

\* A string getArgSize lets pass is stored as it is there.
LEMMA StringThere ==
    ASSUME NEW raw, IsPacket(raw), NEW p \in Nat, p <= Len(raw), NEW size \in Nat,
           size = ClaimedSize(raw, StringTag, p), size # -1, p + size <= Len(raw)
    PROVE  /\ ReadValue(raw, StringTag, p, size) \in Value
           /\ Stored(ReadValue(raw, StringTag, p, size)) = SubSeq(raw, p + 1, p + size)
<1>1. raw \in Seq(Byte)
    BY DEF IsPacket
<1>2. PICK len \in Nat : len = Len(raw) /\ len < MaxInt
    BY <1>1, LenProperties DEF IsPacket
<1>3. PICK n \in Nat : /\ EndOfText(raw, p) = p + n
                       /\ p + n # Len(raw) => raw[p + n + 1] = 0
                       /\ \A i \in 1..n : raw[p + i] # 0
    BY <1>1, EndOfTextFacts
<1>4. EndOfText(raw, p) # Len(raw)
  <2>1. ASSUME EndOfText(raw, p) = Len(raw) PROVE FALSE
    <3>1. ClaimedSize(raw, StringTag, p) = -1
        BY <2>1, TagsApart DEF ClaimedSize
    <3> QED
        BY <3>1
  <2> QED
      BY <2>1
<1>5. size = n + 1
  <2>1. ClaimedSize(raw, StringTag, p) = EndOfText(raw, p) - p + 1
      BY <1>4, ClaimedSizes
  <2> QED
      BY <1>3, <2>1
<1>6. p + n < len /\ p + (n + 1) <= len /\ raw[p + n + 1] = 0
    BY <1>2, <1>3, <1>4, <1>5
<1>7. PICK s \in Seq(Byte) : s = SubSeq(raw, p + 1, p + n)
  <2>1. p + n <= Len(raw)
      BY <1>2, <1>6
  <2> QED
      BY <1>1, <2>1, PartFacts
<1>8. Len(s) = n /\ \A i \in 1..n : s[i] = raw[p + i]
  <2>1. p + n <= Len(raw)
      BY <1>2, <1>6
  <2>2. Len(SubSeq(raw, p + 1, p + n)) = n
      BY <1>1, <2>1, PartFacts
  <2>3. \A i \in 1..n : SubSeq(raw, p + 1, p + n)[i] = raw[p + i]
      BY <1>1, <2>1, PartFacts
  <2> QED
      BY <1>7, <2>2, <2>3
<1>9. PICK w \in Seq(Byte) : w = SubSeq(raw, p + 1, p + (n + 1))
  <2>1. p + (n + 1) <= Len(raw) /\ n + 1 \in Nat
      BY <1>2, <1>6
  <2> QED
      BY <1>1, <2>1, PartFacts
<1>10. Len(w) = n + 1 /\ \A i \in 1..(n + 1) : w[i] = raw[p + i]
  <2>1. p + (n + 1) <= Len(raw) /\ n + 1 \in Nat
      BY <1>2, <1>6
  <2>2. Len(SubSeq(raw, p + 1, p + (n + 1))) = n + 1
      BY <1>1, <2>1, PartFacts
  <2>3. \A i \in 1..(n + 1) : SubSeq(raw, p + 1, p + (n + 1))[i] = raw[p + i]
      BY <1>1, <2>1, PartFacts
  <2> QED
      BY <1>9, <2>2, <2>3
<1>11. PICK v : v = [tag |-> StringTag, bytes |-> s]
    OBVIOUS
<1>12. ReadValue(raw, StringTag, p, size) = v
  <2>1. p + 1 + 0 = p + 1 /\ p + size - 1 = p + n /\ StringTag # BlobTag
      BY <1>5, TagsApart
  <2> QED
      BY <1>7, <1>11, <2>1 DEF ReadValue, ReadAt
<1>13. v \in Value
  <2>1. s \in Seq(1..255)
    <3>1. ASSUME NEW i \in 1..n PROVE s[i] \in 1..255
      <4>1. s[i] \in Byte
          BY <1>8, ElementOfSeq
      <4>2. raw[p + i] # 0
          BY <1>3
      <4>3. s[i] # 0
          BY <1>8, <4>2
      <4> QED
          BY <4>1, <4>3 DEF Byte
    <3>2. s \in [1..n -> Byte] /\ s = [i \in 1..n |-> s[i]]
        BY <1>8, LenProperties
    <3>3. s \in [1..n -> 1..255]
        BY <3>1, <3>2
    <3> QED
        BY <3>3, SeqDef
  <2>2. StringTag \notin Bools /\ StringTag \notin DOMAIN PodSize
      BY TagsApart
  <2>3. Len(s) < MaxInt
    <3>1. MaxInt \in Int
        BY SMT DEF MaxInt
    <3> QED
        BY <1>2, <1>6, <1>8, <3>1
  <2>4. v.tag = StringTag /\ v.bytes = s
      BY <1>11
  <2>5. v \in [tag : Bools \cup DOMAIN PodSize \cup {StringTag, BlobTag}, bytes : Seq(0..255)]
      BY <1>11 DEF Byte
  <2> QED
      BY <2>1, <2>2, <2>3, <2>4, <2>5 DEF Value
<1>14. Stored(v) = w
  <2>1. v.tag = StringTag /\ v.bytes = s
      BY <1>11
  <2>2. PICK u \in Seq(Byte) : u = Stored(v) /\ u = Append(s, 0)
      BY <1>13, <2>1, StoredString
  <2>3. 0 \in Byte
      BY DEF Byte
  <2>4. Len(u) = n + 1 /\ u[n + 1] = 0 /\ \A i \in 1..n : u[i] = s[i]
    <3>1. Len(s) = n
        BY <1>8
    <3>2. Len(Append(s, 0)) = n + 1 /\ Append(s, 0)[n + 1] = 0
          /\ \A i \in 1..n : Append(s, 0)[i] = s[i]
        BY <2>3, <3>1, AppendProperties, SMTT(30)
    <3> QED
        BY <2>2, <3>2
  <2>5. ASSUME NEW i \in 1..(n + 1) PROVE u[i] = w[i]
    <3>1. CASE i = n + 1
      <4>1. w[n + 1] = raw[p + (n + 1)] /\ p + (n + 1) = p + n + 1
          BY <1>10, SMTT(30)
      <4> QED
          BY <1>6, <2>4, <3>1, <4>1
    <3>2. CASE i \in 1..n
      <4>1. s[i] = raw[p + i] /\ w[i] = raw[p + i] /\ u[i] = s[i]
          BY <1>8, <1>10, <2>4, <3>2
      <4> QED
          BY <4>1
    <3> QED
        BY <3>1, <3>2
  <2>6. Len(w) = n + 1
      BY <1>10
  <2>7. u = w
      BY <2>4, <2>5, <2>6, SeqEqual
  <2> QED
      BY <2>2, <2>7
<1> QED
    BY <1>5, <1>9, <1>12, <1>13, <1>14

\* A blob, too, if its size did not wrap around.
LEMMA BlobThere ==
    ASSUME NEW raw, IsPacket(raw), NEW p \in Nat, p <= Len(raw), NEW size \in Nat,
           size = ClaimedSize(raw, BlobTag, p), size >= 4, p + size <= Len(raw)
    PROVE  /\ ReadValue(raw, BlobTag, p, size) \in Value
           /\ Stored(ReadValue(raw, BlobTag, p, size)) = SubSeq(raw, p + 1, p + size)
<1>1. raw \in Seq(Byte)
    BY DEF IsPacket
<1>2. PICK len \in Nat : len = Len(raw) /\ len < MaxInt
    BY <1>1, LenProperties DEF IsPacket
<1>3. PICK n \in Nat : size = n + 4
  <2>1. size - 4 \in Nat /\ size = (size - 4) + 4
      OBVIOUS
  <2> QED
      BY <2>1
<1>4. p + (n + 4) <= len /\ p + 4 <= len /\ (p + 4) + n <= len /\ p # len
    BY <1>2, <1>3
<1>5. PICK q \in Nat : q = p + 4
    OBVIOUS
<1>6. PICK head \in Seq(Byte) : head = SubSeq(raw, p + 1, p + 4)
  <2>1. p + 4 <= Len(raw)
      BY <1>2, <1>4
  <2> QED
      BY <1>1, <2>1, PartFacts
<1>7. Len(head) = 4 /\ \A i \in 1..4 : head[i] = raw[p + i]
  <2>1. p + 4 <= Len(raw)
      BY <1>2, <1>4
  <2>2. Len(SubSeq(raw, p + 1, p + 4)) = 4
      BY <1>1, <2>1, PartFacts
  <2>3. \A i \in 1..4 : SubSeq(raw, p + 1, p + 4)[i] = raw[p + i]
    <3>1. PICK four \in Nat : four = 4
        OBVIOUS
    <3>2. \A i \in 1..four : SubSeq(raw, p + 1, p + four)[i] = raw[p + i]
        BY <1>1, <2>1, <3>1, PartFacts
    <3> QED
        BY <3>1, <3>2
  <2> QED
      BY <1>6, <2>2, <2>3
<1>8. PICK s \in Seq(Byte) : s = SubSeq(raw, q + 1, q + n)
  <2>1. q + n <= Len(raw)
      BY <1>2, <1>4, <1>5
  <2> QED
      BY <1>1, <2>1, PartFacts
<1>9. Len(s) = n /\ \A i \in 1..n : s[i] = raw[q + i]
  <2>1. q + n <= Len(raw)
      BY <1>2, <1>4, <1>5
  <2>2. Len(SubSeq(raw, q + 1, q + n)) = n
      BY <1>1, <2>1, PartFacts
  <2>3. \A i \in 1..n : SubSeq(raw, q + 1, q + n)[i] = raw[q + i]
      BY <1>1, <2>1, PartFacts
  <2> QED
      BY <1>8, <2>2, <2>3
<1>10. PICK w \in Seq(Byte) : w = SubSeq(raw, p + 1, p + (n + 4))
  <2>1. p + (n + 4) <= Len(raw) /\ n + 4 \in Nat
      BY <1>2, <1>4
  <2> QED
      BY <1>1, <2>1, PartFacts
<1>11. Len(w) = n + 4 /\ \A i \in 1..(n + 4) : w[i] = raw[p + i]
  <2>1. p + (n + 4) <= Len(raw) /\ n + 4 \in Nat
      BY <1>2, <1>4
  <2>2. Len(SubSeq(raw, p + 1, p + (n + 4))) = n + 4
      BY <1>1, <2>1, PartFacts
  <2>3. \A i \in 1..(n + 4) : SubSeq(raw, p + 1, p + (n + 4))[i] = raw[p + i]
      BY <1>1, <2>1, PartFacts
  <2> QED
      BY <1>10, <2>2, <2>3
<1>12. Int32Bytes(n) = head
  <2>1. PICK k : k = Int32Of(head) /\ IsInt32(k) /\ Int32Bytes(k) = head
      BY <1>7, BytesSurvive
  <2>2. size = BlobSize(raw, p)
      BY <1>2, <1>4, ClaimedSizes
  <2>3. BlobSize(raw, p) = IF k \in -4..Len(raw) THEN k + 4 ELSE -1
      BY <1>6, <2>1 DEF BlobSize
  <2>4. k \in Int
      BY <2>1 DEF IsInt32
  <2>5. k = n
      BY <1>3, <2>2, <2>3, <2>4
  <2> QED
      BY <2>1, <2>5
<1>13. PICK v : v = [tag |-> BlobTag, bytes |-> s]
    OBVIOUS
<1>14. ReadValue(raw, BlobTag, p, size) = v
  <2>1. p + 1 + 4 = q + 1 /\ p + size - 0 = q + n /\ StringTag # BlobTag
      BY <1>3, <1>5, TagsApart
  <2> QED
      BY <1>8, <1>13, <2>1 DEF ReadValue, ReadAt
<1>15. v \in Value
  <2>1. BlobTag \notin Bools /\ BlobTag \notin DOMAIN PodSize /\ BlobTag # StringTag
      BY TagsApart
  <2>2. Len(s) < MaxInt
    <3>1. MaxInt \in Int
        BY SMT DEF MaxInt
    <3>2. n < MaxInt
        BY <1>2, <1>4, <3>1
    <3> QED
        BY <1>9, <3>2
  <2>3. v.tag = BlobTag /\ v.bytes = s
      BY <1>13
  <2>4. v \in [tag : Bools \cup DOMAIN PodSize \cup {StringTag, BlobTag}, bytes : Seq(0..255)]
      BY <1>13 DEF Byte
  <2> QED
      BY <2>1, <2>2, <2>3, <2>4 DEF Value
<1>16. Stored(v) = w
  <2>1. v.tag = BlobTag /\ v.bytes = s /\ Len(s) = n
      BY <1>9, <1>13
  <2>2. PICK u \in Seq(Byte) : u = Stored(v) /\ u = Joined(head, s)
      BY <1>12, <1>15, <2>1, StoredBlob
  <2>3. Len(u) = 4 + n
      BY <1>7, <2>1, <2>2, JoinedLen, ZenonT(60)
  <2>4. \A i \in 1..4 : u[i] = head[i]
    <3>1. \A i \in 1..Len(head) : Joined(head, s)[i] = head[i]
        BY JoinedPlaces
    <3> QED
        BY <1>7, <2>2, <3>1
  <2>5. \A i \in 1..n : u[4 + i] = s[i]
    <3>1. \A i \in 1..Len(s) : Joined(head, s)[Len(head) + i] = s[i]
        BY JoinedPlaces
    <3> QED
        BY <1>7, <2>1, <2>2, <3>1
  <2>6. ASSUME NEW i \in 1..(4 + n) PROVE u[i] = w[i]
    <3>1. CASE i \in 1..4
      <4>1. u[i] = head[i] /\ head[i] = raw[p + i]
          BY <1>7, <2>4, <3>1
      <4>2. w[i] = raw[p + i]
        <5>1. i \in 1..(n + 4)
            OBVIOUS
        <5> QED
            BY <1>11, <5>1
      <4> QED
          BY <4>1, <4>2
    <3>2. CASE i \notin 1..4
      <4>1. PICK k \in 1..n : i = 4 + k
        <5>1. i - 4 \in 1..n /\ i = 4 + (i - 4)
            BY <3>2
        <5> QED
            BY <5>1
      <4>2. u[4 + k] = s[k] /\ s[k] = raw[q + k]
          BY <1>9, <2>5
      <4>3. w[i] = raw[p + i]
        <5>1. i \in 1..(n + 4)
            OBVIOUS
        <5> QED
            BY <1>11, <5>1
      <4>4. p + i = q + k
          BY <1>5, <4>1
      <4> QED
          BY <4>1, <4>2, <4>3, <4>4
    <3> QED
        BY <3>1, <3>2
  <2>7. Len(w) = 4 + n
      BY <1>11
  <2>8. u = w
      BY <2>3, <2>6, <2>7, SeqEqual
  <2> QED
      BY <2>2, <2>8
<1> QED
    BY <1>3, <1>10, <1>14, <1>15, <1>16

\* So is a number, and a truth value is no bytes.
LEMMA PlainThere ==
    ASSUME NEW raw, IsPacket(raw), NEW p \in Nat, p <= Len(raw), NEW size \in Nat,
           NEW tag \in Bools \cup Pods, size = ClaimedSize(raw, tag, p), p + size <= Len(raw)
    PROVE  /\ ReadValue(raw, tag, p, size) \in Value
           /\ Stored(ReadValue(raw, tag, p, size)) = SubSeq(raw, p + 1, p + size)
<1>1. raw \in Seq(Byte)
    BY DEF IsPacket
<1>2. PICK w \in Seq(Byte) : w = SubSeq(raw, p + 1, p + size)
    BY <1>1, PartFacts
<1>3. Len(w) = size
  <2>1. Len(SubSeq(raw, p + 1, p + size)) = size
      BY <1>1, PartFacts
  <2> QED
      BY <1>2, <2>1
<1>4. tag # StringTag /\ tag # BlobTag
    BY TagsApart
<1>5. PICK v : v = [tag |-> tag, bytes |-> w]
    OBVIOUS
<1>6. ReadValue(raw, tag, p, size) = v
  <2>1. p + 1 + 0 = p + 1 /\ p + size - 0 = p + size
      OBVIOUS
  <2> QED
      BY <1>2, <1>4, <1>5, <2>1 DEF ReadValue, ReadAt
<1>7. tag \in Bools => w = <<>>
  <2>1. ASSUME tag \in Bools PROVE w = <<>>
    <3>1. Len(w) = 0
        BY <1>3, <2>1, ClaimedSizes
    <3> QED
        BY <3>1, EmptySeq
  <2> QED
      BY <2>1
<1>8. tag \in Pods => Len(w) = PodSize[tag]
    BY <1>3, ClaimedSizes
<1>9. Len(w) < MaxInt
  <2>1. PICK len \in Nat : len = Len(raw) /\ len < MaxInt
      BY <1>1, LenProperties DEF IsPacket
  <2>2. MaxInt \in Int
      BY SMT DEF MaxInt
  <2>3. size <= len
      BY <2>1
  <2> QED
      BY <1>3, <2>1, <2>2, <2>3
<1>10. v \in Value
  <2>1. v.tag = tag /\ v.bytes = w
      BY <1>5
  <2>2. v \in [tag : Bools \cup DOMAIN PodSize \cup {StringTag, BlobTag}, bytes : Seq(0..255)]
      BY <1>5, TagsApart DEF Byte
  <2>3. DOMAIN PodSize = Pods
      BY TagsApart
  <2> QED
      BY <1>4, <1>7, <1>8, <1>9, <2>1, <2>2, <2>3 DEF Value
<1>11. Stored(v) = w
  <2>1. v.tag = tag /\ v.bytes = w
      BY <1>5
  <2> QED
      BY <1>10, <2>1, StoredPlain
<1> QED
    BY <1>2, <1>6, <1>10, <1>11

\* Whatever getArgSize lets pass is a value, stored as pushXXX would store it.
LEMMA ArgumentThere ==
    ASSUME NEW raw, IsPacket(raw), NEW p \in Nat, p <= Len(raw), p % 4 = 0, NEW tag,
           NEW size, size = ArgSize(raw, tag, p), size # -1, ~(tag = BlobTag /\ size < 4)
    PROVE  /\ ReadValue(raw, tag, p, size) \in Value
           /\ Len(Stored(ReadValue(raw, tag, p, size))) = size
           /\ Holds(raw, p, Padded(Stored(ReadValue(raw, tag, p, size))))
<1>1. raw \in Seq(Byte)
    BY DEF IsPacket
<1>2. PICK n \in Nat : /\ n = size /\ n = ClaimedSize(raw, tag, p)
                       /\ p + n <= Len(raw) /\ p + Ceil4(n) <= Len(raw)
                       /\ ZeroPadding(raw, p + n)
                       /\ tag \in Bools \cup Pods \cup {StringTag, BlobTag}
    BY ArgSizeFacts
<1>3. PICK w \in Seq(Byte) : w = SubSeq(raw, p + 1, p + n)
    BY <1>1, <1>2, PartFacts
<1>4. Len(w) = n /\ Holds(raw, p, w)
    BY <1>1, <1>2, <1>3, PartFacts
<1>5. ReadValue(raw, tag, p, n) \in Value /\ Stored(ReadValue(raw, tag, p, n)) = w
  <2>1. CASE tag \in Bools \cup Pods
      BY <1>2, <1>3, <2>1, PlainThere
  <2>2. CASE tag = StringTag
      BY <1>2, <1>3, <2>2, StringThere
  <2>3. CASE tag = BlobTag
    <3>1. n >= 4
        BY <1>2, <2>3
    <3> QED
        BY <1>2, <1>3, <2>3, <3>1, BlobThere
  <2> QED
      BY <1>2, <2>1, <2>2, <2>3
<1>6. Holds(raw, p, Padded(w))
  <2>1. ZeroPadding(raw, p + Len(w)) /\ p + Ceil4(Len(w)) <= Len(raw)
      BY <1>2, <1>4
  <2> QED
      BY <1>1, <1>4, <2>1, PadsHold
<1> QED
    BY <1>2, <1>4, <1>5, <1>6

\* The head of a packet that is accepted: an address and type tags.
LEMMA HeadThere ==
    ASSUME NEW raw, IsPacket(raw), HasText(raw, 0, Slash),
           HasText(raw, Ceil4(EndOfText(raw, 0) + 1), Comma)
    PROVE  \E a \in Seq(Byte), tags \in Seq(Byte), argsAt \in Nat :
              /\ Spelled(raw, a, tags, argsAt) /\ ReadAs(raw, a, tags, argsAt)
              /\ argsAt % 4 = 0 /\ argsAt <= Len(raw)
<1>1. raw \in Seq(Byte) /\ Len(raw) \in Nat
    BY LenProperties DEF IsPacket
<1>2. Slash # 0 /\ Comma # 0 /\ Comma \in Byte
    BY DEF Slash, Comma, Byte
<1>3. PICK a \in Seq(Byte), n \in Nat :
        /\ Text(a) /\ a[1] = Slash /\ n = Len(a) /\ EndOfText(raw, 0) = 0 + n
        /\ a = SubSeq(raw, 0 + 1, 0 + n) /\ Holds(raw, 0, Padded(CString(a)))
        /\ Ceil4(EndOfText(raw, 0) + 1) = 0 + Ceil4(n + 1)
        /\ 0 + Ceil4(n + 1) <= Len(raw)
  <2>1. \E s \in Seq(Byte), h \in Nat : TextAt(raw, 0, s, h) /\ s[1] = Slash
      BY <1>1, <1>2, TextThere
  <2> QED
      BY <2>1 DEF TextAt
<1>4. PICK tagsAt \in Nat : tagsAt = Ceil4(n + 1) /\ tagsAt % 4 = 0
  <2>1. PICK q \in Nat : q = n + 1
      OBVIOUS
  <2>2. Ceil4(q) \in Nat /\ Ceil4(q) % 4 = 0
      BY CeilFacts
  <2> QED
      BY <2>1, <2>2
<1>5. EndOfText(raw, 0) = n /\ a = SubSeq(raw, 1, n) /\ tagsAt = Ceil4(EndOfText(raw, 0) + 1)
      /\ tagsAt <= Len(raw)
    BY <1>3, <1>4
<1>6. HasText(raw, tagsAt, Comma)
    BY <1>5
<1>7. PICK c \in Seq(Byte), m \in Nat :
        /\ Text(c) /\ c[1] = Comma /\ m = Len(c) /\ EndOfText(raw, tagsAt) = tagsAt + m
        /\ c = SubSeq(raw, tagsAt + 1, tagsAt + m) /\ Holds(raw, tagsAt, Padded(CString(c)))
        /\ Ceil4(EndOfText(raw, tagsAt) + 1) = tagsAt + Ceil4(m + 1)
        /\ tagsAt + Ceil4(m + 1) <= Len(raw)
  <2>1. PICK char : char = Comma /\ char # 0
      BY <1>2
  <2>2. HasText(raw, tagsAt, char) /\ tagsAt % 4 = 0 /\ tagsAt <= Len(raw)
      BY <1>4, <1>5, <1>6, <2>1
  <2>3. \E s \in Seq(Byte), h \in Nat : TextAt(raw, tagsAt, s, h) /\ s[1] = char
      BY <2>1, <2>2, TextThere
  <2> QED
      BY <2>1, <2>3 DEF TextAt
<1>8. PICK more \in Nat : more = Ceil4(m + 1) /\ more % 4 = 0 /\ m + 1 <= more
  <2>1. PICK q \in Nat : q = m + 1
      OBVIOUS
  <2>2. Ceil4(q) \in Nat /\ Ceil4(q) % 4 = 0 /\ q <= Ceil4(q)
      BY CeilFacts
  <2> QED
      BY <2>1, <2>2
<1>9. PICK argsAt \in Nat : argsAt = tagsAt + more /\ argsAt % 4 = 0 /\ argsAt <= Len(raw)
  <2>1. (tagsAt + more) % 4 = 0
      BY <1>4, <1>8, FoursAdd
  <2>2. tagsAt + more <= Len(raw)
      BY <1>7, <1>8
  <2> QED
      BY <2>1, <2>2
<1>10. PICK k \in Nat : m = k + 1
  <2>1. m > 0
      BY <1>7 DEF Text
  <2>2. m - 1 \in Nat /\ m = (m - 1) + 1
      BY <2>1
  <2> QED
      BY <2>2
<1>11. PICK q \in Nat : q = tagsAt + 1 /\ q + k = tagsAt + m /\ q + 1 = tagsAt + 2
                        /\ q + k <= Len(raw)
    BY <1>1, <1>7, <1>8, <1>10
<1>12. PICK tags \in Seq(Byte) : tags = SubSeq(raw, q + 1, q + k)
    BY <1>1, <1>11, PartFacts
<1>13. Len(tags) = k /\ \A i \in 1..k : tags[i] = raw[q + i]
  <2>1. Len(SubSeq(raw, q + 1, q + k)) = k
      BY <1>1, <1>11, PartFacts
  <2>2. \A i \in 1..k : SubSeq(raw, q + 1, q + k)[i] = raw[q + i]
      BY <1>1, <1>11, PartFacts
  <2> QED
      BY <1>12, <2>1, <2>2
<1>14. \A i \in 1..m : c[i] = raw[tagsAt + i]
  <2>1. tagsAt + m <= Len(raw)
      BY <1>11
  <2>2. \A i \in 1..m : SubSeq(raw, tagsAt + 1, tagsAt + m)[i] = raw[tagsAt + i]
      BY <1>1, <2>1, PartFacts
  <2> QED
      BY <1>7, <2>2
<1>15. PICK comma \in Seq(Byte) : comma = <<Comma>> /\ Len(comma) = 1 /\ comma[1] = Comma
  <2>1. PICK b \in Byte : b = Comma
      BY <1>2
  <2>2. <<b>> \in Seq(Byte) /\ Len(<<b>>) = 1 /\ <<b>>[1] = b
      OBVIOUS
  <2> QED
      BY <2>1, <2>2
<1>16. Joined(comma, tags) = c
  <2>1. PICK j \in Seq(Byte) : j = Joined(comma, tags)
      BY JoinedType
  <2>2. Len(j) = 1 + k
      BY <1>13, <1>15, <2>1, JoinedLen
  <2>3. j[1] = Comma
    <3>1. \A i \in 1..Len(comma) : Joined(comma, tags)[i] = comma[i]
        BY JoinedPlaces
    <3> QED
        BY <1>15, <2>1, <3>1, SMTT(30)
  <2>4. \A i \in 1..k : j[1 + i] = tags[i]
    <3>1. \A i \in 1..Len(tags) : Joined(comma, tags)[Len(comma) + i] = tags[i]
        BY JoinedPlaces
    <3> QED
        BY <1>13, <1>15, <2>1, <3>1
  <2>5. ASSUME NEW i \in 1..(1 + k) PROVE j[i] = c[i]
    <3>1. CASE i = 1
        BY <1>7, <2>3, <3>1
    <3>2. CASE i # 1
      <4>1. PICK h \in 1..k : i = 1 + h
        <5>1. i - 1 \in 1..k /\ i = 1 + (i - 1)
            BY <3>2
        <5> QED
            BY <5>1
      <4>2. j[1 + h] = tags[h] /\ tags[h] = raw[q + h]
          BY <1>13, <2>4
      <4>3. i \in 1..m /\ q + h = tagsAt + i
          BY <1>10, <1>11, <4>1
      <4>4. c[i] = raw[tagsAt + i]
          BY <1>14, <4>3
      <4> QED
          BY <4>1, <4>2, <4>3, <4>4
    <3> QED
        BY <3>1, <3>2
  <2>6. Len(c) = 1 + k
      BY <1>7, <1>10
  <2>7. j = c
      BY <2>2, <2>5, <2>6, SeqEqual
  <2> QED
      BY <2>1, <2>7
<1>17. Spelled(raw, a, tags, argsAt)
    BY <1>3, <1>4, <1>7, <1>8, <1>9, <1>15, <1>16 DEF Spelled
<1>18. ReadAs(raw, a, tags, argsAt)
  <2>1. PICK tagsEnd : tagsEnd = EndOfText(raw, tagsAt)
      OBVIOUS
  <2>2. tags = SubSeq(raw, tagsAt + 2, tagsEnd)
      BY <1>7, <1>11, <1>12, <2>1
  <2>3. argsAt = Ceil4(tagsEnd + 1)
      BY <1>7, <1>8, <1>9, <2>1
  <2>4. n = EndOfText(raw, 0) /\ tagsAt = Ceil4(n + 1)
      BY <1>4, <1>5
  <2> QED
      BY <1>5, <1>6, <2>1, <2>2, <2>3, <2>4 DEF ReadAs
<1> QED
    BY <1>9, <1>17, <1>18

\* What is known of a packet that is accepted.
LEMMA AcceptedFacts ==
    ASSUME NEW raw, IsPacket(raw), Built(raw).err = "none"
    PROVE  \E a \in Seq(Byte), tags \in Seq(Byte), argsAt \in Nat, scan \in ScanState : \E at :
              /\ Spelled(raw, a, tags, argsAt)
              /\ Measured(raw, tags, argsAt, at, Len(tags)) /\ at[Len(tags) + 1] = Len(raw)
              /\ Noted(scan, raw, tags, at, Len(tags))
              /\ Built(raw) = [address |-> a, tags |-> tags, arguments |-> scan.arguments,
                               storage |-> raw, err |-> "none"]
<1>1. HasText(raw, 0, Slash) /\ HasText(raw, Ceil4(EndOfText(raw, 0) + 1), Comma)
    BY BuiltNot
<1>2. PICK a \in Seq(Byte), tags \in Seq(Byte), argsAt \in Nat :
              /\ Spelled(raw, a, tags, argsAt) /\ ReadAs(raw, a, tags, argsAt)
              /\ argsAt % 4 = 0 /\ argsAt <= Len(raw)
    BY <1>1, HeadThere
<1>3. PICK scan : scan = ScanArgs(raw, tags, argsAt)
    OBVIOUS
<1>4. PICK err : err = IF scan.bad \/ scan.pos # Len(raw) THEN "arguments" ELSE "none"
    OBVIOUS
<1>5. Built(raw) = [address |-> a, tags |-> tags, arguments |-> scan.arguments,
                    storage |-> raw, err |-> err]
    BY <1>2, <1>3, <1>4, ReadIsBuilt
<1>6. err = "none"
    BY <1>5
<1>7. scan.bad # TRUE /\ scan.pos = Len(raw)
    BY <1>4, <1>6
<1>8. PICK at : /\ scan \in ScanState
                /\ Measured(raw, tags, argsAt, at, Len(tags))
                /\ Noted(scan, raw, tags, at, Len(tags))
    BY <1>2, <1>3, <1>7, ScanArgsFacts
<1>9. at[Len(tags) + 1] = Len(raw)
    BY <1>7, <1>8 DEF Noted
<1> QED
    BY <1>2, <1>5, <1>6, <1>8, <1>9

-----------------------------------------------------------------------------
(* Written again *)

\* The first p bytes of x and y are the same.
Agree(x, y, p) == \A j \in 1..p : x[j] = y[j]

\* Two sequences that hold the same bytes behind a common beginning.
LEMMA AgreeFurther ==
    ASSUME NEW x, NEW y, NEW p \in Nat, NEW w \in Seq(Byte), NEW n \in Nat, n = Len(w),
           Agree(x, y, p), Holds(x, p, w), Holds(y, p, w)
    PROVE  Agree(x, y, p + n)
<1> SUFFICES ASSUME NEW j \in 1..(p + n) PROVE x[j] = y[j]
    BY DEF Agree
<1>1. CASE j \in 1..p
    BY <1>1 DEF Agree
<1>2. CASE j \notin 1..p
  <2>1. PICK i \in 1..n : j = p + i
    <3>1. j - p \in 1..n /\ j = p + (j - p)
        BY <1>2
    <3> QED
        BY <3>1
  <2>2. x[p + i] = w[i] /\ y[p + i] = w[i]
      BY DEF Holds
  <2> QED
      BY <2>1, <2>2
<1> QED
    BY <1>1, <1>2

LEMMA SpelledSame ==
    ASSUME NEW x, NEW y, NEW a, NEW tags, NEW p \in Nat, NEW q,
           Spelled(x, a, tags, p), Spelled(y, a, tags, q)
    PROVE  q = p /\ Agree(x, y, p)
<1>1. PICK A \in Seq(Byte) : A = Padded(CString(a)) /\ Len(A) = Ceil4(Len(a) + 1)
    BY TextPadded DEF Spelled
<1>2. PICK c : c = Joined(<<Comma>>, tags)
    OBVIOUS
<1>3. PICK T \in Seq(Byte) : T = Padded(CString(c)) /\ Len(T) = Ceil4(Len(c) + 1)
    BY <1>2, TextPadded DEF Spelled
<1>4. PICK n \in Nat : n = Len(A)
    BY LenProperties
<1>5. PICK m \in Nat : m = Len(T)
    BY LenProperties
<1>6. p = n + m /\ q = n + m
    BY <1>1, <1>2, <1>3, <1>4, <1>5 DEF Spelled
<1>7. Holds(x, 0, A) /\ Holds(y, 0, A) /\ Holds(x, n, T) /\ Holds(y, n, T)
    BY <1>1, <1>2, <1>3, <1>4 DEF Spelled
<1>8. Agree(x, y, 0 + n)
  <2>1. Agree(x, y, 0)
      BY DEF Agree
  <2> QED
      BY <1>4, <1>7, <2>1, AgreeFurther
<1>9. Agree(x, y, n)
    BY <1>8
<1>10. Agree(x, y, n + m)
    BY <1>5, <1>7, <1>9, AgreeFurther
<1> QED
    BY <1>6, <1>10

\* The same values behind the same beginning are the same bytes.
LEMMA LaidSame ==
    ASSUME NEW x \in Seq(Byte), NEW y \in Seq(Byte), NEW base \in Nat, NEW values \in Seq(Value),
           NEW at, NEW to, Laid(x, base, values, at), Laid(y, base, values, to),
           Agree(x, y, base)
    PROVE  x = y
<1>1. PICK n \in Nat : n = Len(values)
    BY LenProperties
<1> DEFINE Same(k) == at[k + 1] = to[k + 1] /\ Agree(x, y, at[k + 1])
           S == {k \in Nat : k <= n => Same(k)}
<1>2. 0 \in S
  <2>1. at[0 + 1] = base /\ to[0 + 1] = base
      BY DEF Laid
  <2> QED
      BY <2>1
<1>3. ASSUME NEW k \in Nat, k \in S PROVE k + 1 \in S
  <2>1. CASE k + 1 <= n
    <3>1. Same(k)
        BY <1>3, <2>1
    <3>2. k + 1 \in 1..Len(values) /\ k + 1 \in 1..(Len(values) + 1)
        BY <1>1, <2>1
    <3>3. PICK v \in Value : v = values[k + 1]
        BY <3>2, ElementOfSeq
    <3>4. PICK p \in Nat : p = at[k + 1] /\ p = to[k + 1]
        BY <3>1, <3>2, LaidAt
    <3>5. PICK w \in Seq(Byte) : w = Padded(Stored(v)) /\ Len(w) = Ceil4(Len(Stored(v)))
        BY StoredType, PaddedFacts
    <3>6. PICK m \in Nat : m = Len(w)
        BY LenProperties
    <3>7. at[(k + 1) + 1] = p + m /\ Holds(x, p, w)
      <4>1. /\ at[(k + 1) + 1] = at[k + 1] + Ceil4(Len(Stored(values[k + 1])))
            /\ Holds(x, at[k + 1], Padded(Stored(values[k + 1])))
          BY <3>2, LaidAt
      <4> QED
          BY <3>3, <3>4, <3>5, <3>6, <4>1
    <3>8. to[(k + 1) + 1] = p + m /\ Holds(y, p, w)
      <4>1. /\ to[(k + 1) + 1] = to[k + 1] + Ceil4(Len(Stored(values[k + 1])))
            /\ Holds(y, to[k + 1], Padded(Stored(values[k + 1])))
          BY <3>2, LaidAt
      <4> QED
          BY <3>3, <3>4, <3>5, <3>6, <4>1
    <3>9. Agree(x, y, p)
        BY <3>1, <3>4
    <3>10. Agree(x, y, p + m)
        BY <3>6, <3>7, <3>8, <3>9, AgreeFurther
    <3>11. Same(k + 1)
        BY <3>7, <3>8, <3>10
    <3> QED
        BY <3>11
  <2>2. CASE ~(k + 1 <= n)
      BY <2>2
  <2> QED
      BY <2>1, <2>2
<1>4. Same(n)
  <2>1. n \in S
    <3> HIDE DEF S
    <3>1. Nat \subseteq S
        BY <1>2, <1>3, NatSetInduction
    <3> QED
        BY <3>1
  <2> QED
      BY <2>1
<1>5. at[n + 1] = Len(x) /\ to[n + 1] = Len(y)
    BY <1>1 DEF Laid
<1>6. Len(x) = Len(y) /\ \A j \in 1..Len(x) : x[j] = y[j]
    BY <1>4, <1>5 DEF Agree
<1> QED
    BY <1>6, SeqEqual

\* The values read from a packet that is accepted.
ValuesOf(m) == [i \in DOMAIN m.arguments |-> ValueAt(m, i)]

\* They are laid out in it as pushXXX would lay them out.
LEMMA ValuesThere ==
    ASSUME NEW raw, IsPacket(raw), NEW tags \in Seq(Byte), NEW base \in Nat, NEW at,
           Measured(raw, tags, base, at, Len(tags)), at[Len(tags) + 1] = Len(raw),
           NEW scan \in ScanState, Noted(scan, raw, tags, at, Len(tags)),
           NEW m, m.storage = raw, m.tags = tags, m.arguments = scan.arguments, ~SizeWrapped(m)
    PROVE  /\ ValuesOf(m) \in Seq(Value) /\ Len(ValuesOf(m)) = Len(tags)
           /\ \A i \in 1..Len(tags) : ValuesOf(m)[i].tag = tags[i]
           /\ Laid(raw, base, ValuesOf(m), at)
<1>1. PICK n \in Nat : n = Len(tags)
    BY LenProperties
<1>0. PICK arguments \in Seq([pos : Nat, size : Nat]) :
        /\ arguments = m.arguments /\ Len(arguments) = n
        /\ \A i \in 1..n : arguments[i] = [pos |-> at[i], size |-> ArgSize(raw, tags[i], at[i])]
    BY <1>1 DEF Noted, ScanState
<1>2. DOMAIN arguments = 1..n
    BY <1>0, LenProperties
<1>3. ASSUME NEW i \in 1..n
      PROVE  /\ ValueAt(m, i) \in Value /\ ValueAt(m, i).tag = tags[i]
             /\ at[i + 1] = at[i] + Ceil4(Len(Stored(ValueAt(m, i))))
             /\ Holds(raw, at[i], Padded(Stored(ValueAt(m, i))))
  <2>1. PICK p \in Nat : p = at[i] /\ p % 4 = 0 /\ p <= Len(raw)
    <3>1. i \in 1..(n + 1)
        OBVIOUS
    <3> QED
        BY <1>1, <3>1 DEF Measured
  <2>2. PICK tag : tag = tags[i]
      OBVIOUS
  <2>3. PICK size : /\ size = ArgSize(raw, tag, p) /\ size # -1
                    /\ at[i + 1] = p + Ceil4(size)
      BY <1>1, <2>1, <2>2 DEF Measured
  <2>4. arguments[i] = [pos |-> p, size |-> size]
      BY <1>0, <2>1, <2>2, <2>3
  <2>5. ~(tag = BlobTag /\ size < 4)
    <3>1. ~(m.tags[i] = BlobTag /\ m.arguments[i].size < 4)
        BY <1>0, <1>2 DEF SizeWrapped
    <3> QED
        BY <1>0, <2>2, <2>4, <3>1
  <2>6. PICK v : v = ReadValue(raw, tag, p, size)
      OBVIOUS
  <2>7. v \in Value /\ Len(Stored(v)) = size /\ Holds(raw, p, Padded(Stored(v)))
      BY <2>1, <2>3, <2>5, <2>6, ArgumentThere
  <2>8. ValueAt(m, i) = v
      BY <1>0, <2>2, <2>4, <2>6 DEF ValueAt, ReadValue, ReadAt
  <2>9. v.tag = tag
      BY <2>6 DEF ReadValue
  <2> QED
      BY <2>1, <2>2, <2>3, <2>7, <2>8, <2>9
<1>4. PICK values \in Seq(Value) : values = ValuesOf(m) /\ Len(values) = n
                                   /\ \A i \in 1..n : values[i] = ValueAt(m, i)
  <2>1. ValuesOf(m) = [i \in 1..n |-> ValueAt(m, i)]
      BY <1>0, <1>2 DEF ValuesOf
  <2>2. \A i \in 1..n : ValueAt(m, i) \in Value
      BY <1>3
  <2>3. ValuesOf(m) \in [1..n -> Value]
      BY <2>1, <2>2
  <2>4. ValuesOf(m) \in Seq(Value)
      BY <2>3, SeqDef
  <2>5. Len(ValuesOf(m)) = n
      BY <2>1, <2>4, LenProperties
  <2> QED
      BY <2>1, <2>4, <2>5
<1>5. \A i \in 1..n : values[i].tag = tags[i]
    BY <1>3, <1>4
<1>6. Laid(raw, base, values, at)
  <2>1. at \in [1..(n + 1) -> Nat] /\ at[1] = base /\ at[n + 1] = Len(raw)
        /\ \A i \in 1..(n + 1) : at[i] % 4 = 0
      BY <1>1 DEF Measured
  <2>2. \A i \in 1..n : /\ at[i + 1] = at[i] + Ceil4(Len(Stored(values[i])))
                        /\ Holds(raw, at[i], Padded(Stored(values[i])))
      BY <1>3, <1>4
  <2> QED
      BY <1>4, <2>1, <2>2 DEF Laid
<1> QED
    BY <1>1, <1>4, <1>5, <1>6

\* So the packet that is accepted is the one its values make.
LEMMA WrittenAgain ==
    ASSUME NEW raw, IsPacket(raw), NEW m, m = Built(raw), m.err = "none", ~SizeWrapped(m)
    PROVE  Packed(PushAll(InitMessage(m.address), ValuesOf(m))) = m.storage
<1>1. raw \in Seq(Byte)
    BY DEF IsPacket
<1>2. PICK a \in Seq(Byte), tags \in Seq(Byte), argsAt \in Nat, scan \in ScanState :
          \E at :
              /\ Spelled(raw, a, tags, argsAt)
              /\ Measured(raw, tags, argsAt, at, Len(tags)) /\ at[Len(tags) + 1] = Len(raw)
              /\ Noted(scan, raw, tags, at, Len(tags))
              /\ Built(raw) = [address |-> a, tags |-> tags, arguments |-> scan.arguments,
                               storage |-> raw, err |-> "none"]
    BY AcceptedFacts
<1>3. PICK at :
              /\ Spelled(raw, a, tags, argsAt)
              /\ Measured(raw, tags, argsAt, at, Len(tags)) /\ at[Len(tags) + 1] = Len(raw)
              /\ Noted(scan, raw, tags, at, Len(tags))
              /\ Built(raw) = [address |-> a, tags |-> tags, arguments |-> scan.arguments,
                               storage |-> raw, err |-> "none"]
    BY <1>2
<1>4. m.storage = raw /\ m.tags = tags /\ m.arguments = scan.arguments /\ m.address = a
    BY <1>3
<1>5. PICK values \in Seq(Value) :
        /\ values = ValuesOf(m) /\ Len(values) = Len(tags)
        /\ \A i \in 1..Len(tags) : values[i].tag = tags[i]
        /\ Laid(raw, argsAt, values, at)
  <2>4. /\ ValuesOf(m) \in Seq(Value) /\ Len(ValuesOf(m)) = Len(tags)
        /\ \A i \in 1..Len(tags) : ValuesOf(m)[i].tag = tags[i]
        /\ Laid(raw, argsAt, ValuesOf(m), at)
      BY <1>3, <1>4, ValuesThere, SMTT(30)
  <2> QED
      BY <2>4
<1>6. a \in Seq(1..255) /\ At(a, 1) = Slash
  <2>1. Text(a) /\ a[1] = Slash
      BY <1>3 DEF Spelled
  <2>2. PICK n \in Nat : n = Len(a) /\ n > 0 /\ DOMAIN a = 1..n
      BY <2>1, LenProperties DEF Text
  <2>3. ASSUME NEW i \in 1..n PROVE a[i] \in 1..255
    <3>1. a[i] \in Byte /\ a[i] # 0
        BY <2>1, <2>2, ElementOfSeq DEF Text
    <3> QED
        BY <3>1 DEF Byte
  <2>4. a \in [1..n -> Byte] /\ a = [i \in 1..n |-> a[i]]
      BY <2>2, LenProperties
  <2>5. a \in [1..n -> 1..255]
      BY <2>3, <2>4
  <2>6. a \in Seq(1..255)
      BY <2>5, SeqDef
  <2>7. 1 \in DOMAIN a
      BY <2>2
  <2> QED
      BY <2>1, <2>6, <2>7 DEF At
<1>7. PICK again : again = PushAll(InitMessage(a), values) /\ Carries(again, a, values)
    BY <1>6, PushAllCarries
<1>8. again.tags = tags
  <2>1. PICK t \in Seq(Byte) : t = again.tags /\ Len(t) = Len(values)
                               /\ \A i \in 1..Len(values) : t[i] = values[i].tag
      BY <1>7 DEF Carries, MessageRecord
  <2>2. Len(t) = Len(tags) /\ \A i \in 1..Len(t) : t[i] = tags[i]
      BY <1>5, <2>1
  <2>3. t = tags
      BY <2>2, SeqEqual
  <2> QED
      BY <2>1, <2>3
<1>9. PICK packed \in Seq(Byte) : packed = Packed(again)
    BY <1>6, <1>7, PackedIsSpelled
<1>10. PICK from, to : Spelled(packed, a, tags, from) /\ Laid(packed, from, values, to)
  <2>1. \E p, q : Spelled(packed, a, again.tags, p) /\ Laid(packed, p, values, q)
      BY <1>6, <1>7, <1>9, PackedIsSpelled
  <2> QED
      BY <1>8, <2>1
<1>11. from = argsAt /\ Agree(raw, packed, argsAt)
    BY <1>3, <1>10, SpelledSame
<1>12. raw = packed
  <2>1. Laid(packed, argsAt, values, to)
      BY <1>10, <1>11
  <2> QED
      BY <1>1, <1>5, <1>11, <2>1, LaidSame
<1> QED
    BY <1>4, <1>5, <1>7, <1>9, <1>12

\* A message is written as its address and its values are, however it was made.
LEMMA CarriesSame ==
    ASSUME NEW a \in Seq(1..255), At(a, 1) = Slash, NEW values \in Seq(Value),
           NEW m, Carries(m, a, values), NEW n, Carries(n, a, values)
    PROVE  Packed(m) = Packed(n)
<1>1. PICK x \in Seq(Byte) : x = Packed(m)
    BY PackedIsSpelled
<1>2. PICK y \in Seq(Byte) : y = Packed(n)
    BY PackedIsSpelled
<1>3. PICK tags \in Seq(Byte) : tags = m.tags /\ tags = n.tags
  <2>1. PICK t \in Seq(Byte) : t = m.tags /\ Len(t) = Len(values)
                               /\ \A i \in 1..Len(values) : t[i] = values[i].tag
      BY DEF Carries, MessageRecord
  <2>2. PICK u \in Seq(Byte) : u = n.tags /\ Len(u) = Len(values)
                               /\ \A i \in 1..Len(values) : u[i] = values[i].tag
      BY DEF Carries, MessageRecord
  <2>3. Len(t) = Len(u) /\ \A i \in 1..Len(t) : t[i] = u[i]
      BY <2>1, <2>2
  <2>4. t = u
      BY <2>3, SeqEqual
  <2> QED
      BY <2>1, <2>2, <2>4
<1>4. PICK p, at : Spelled(x, a, tags, p) /\ Laid(x, p, values, at)
  <2>1. \E q, to : Spelled(x, a, m.tags, q) /\ Laid(x, q, values, to)
      BY <1>1, PackedIsSpelled
  <2> QED
      BY <1>3, <2>1
<1>5. PICK q, to : Spelled(y, a, tags, q) /\ Laid(y, q, values, to)
  <2>1. \E r, fro : Spelled(y, a, n.tags, r) /\ Laid(y, r, values, fro)
      BY <1>2, PackedIsSpelled
  <2> QED
      BY <1>3, <2>1
<1>6. p \in Nat
    BY <1>4, SpelledIsRead
<1>7. q = p /\ Agree(x, y, p)
    BY <1>4, <1>5, <1>6, SpelledSame
<1>8. x = y
  <2>1. Laid(y, p, values, to)
      BY <1>5, <1>7
  <2> QED
      BY <1>4, <1>6, <1>7, <2>1, LaidSame
<1> QED
    BY <1>1, <1>2, <1>8

\* What a receiver knows of a message it accepts: its tags and arguments.
Shaped(m) ==
    /\ m.tags \in Seq(Byte) /\ m.arguments \in Seq([pos : Nat, size : Nat])
    /\ Len(m.arguments) = Len(m.tags)

LEMMA AcceptedIsShaped ==
    ASSUME NEW raw, IsPacket(raw), Built(raw).err = "none"
    PROVE  Shaped(Built(raw))
<1>1. PICK a \in Seq(Byte), tags \in Seq(Byte), argsAt \in Nat, scan \in ScanState :
          \E at :
              /\ Spelled(raw, a, tags, argsAt)
              /\ Measured(raw, tags, argsAt, at, Len(tags)) /\ at[Len(tags) + 1] = Len(raw)
              /\ Noted(scan, raw, tags, at, Len(tags))
              /\ Built(raw) = [address |-> a, tags |-> tags, arguments |-> scan.arguments,
                               storage |-> raw, err |-> "none"]
    BY AcceptedFacts
<1>2. PICK at :
              /\ Spelled(raw, a, tags, argsAt)
              /\ Measured(raw, tags, argsAt, at, Len(tags)) /\ at[Len(tags) + 1] = Len(raw)
              /\ Noted(scan, raw, tags, at, Len(tags))
              /\ Built(raw) = [address |-> a, tags |-> tags, arguments |-> scan.arguments,
                               storage |-> raw, err |-> "none"]
    BY <1>1
<1>3. PICK arguments \in Seq([pos : Nat, size : Nat]) :
        arguments = scan.arguments /\ Len(arguments) = Len(tags)
    BY <1>2 DEF Noted, ScanState
<1>4. Built(raw).tags = tags /\ Built(raw).arguments = arguments
    BY <1>2, <1>3
<1> QED
    BY <1>3, <1>4 DEF Shaped

-----------------------------------------------------------------------------
(* The chain of calls *)

\* The call with this tag takes the i-th argument.
Fits(m, i, tag) == tag \in {AnyType, IF m.tags[i] \in Bools THEN TrueTag ELSE m.tags[i]}

LEMMA FitsIsTagFits ==
    ASSUME NEW m, NEW i, NEW tag, tag # FalseTag
    PROVE  Fits(m, i, tag) <=> tag = AnyType \/ TagFits(m, i, tag)
<1>1. Bools = {TrueTag, FalseTag} /\ TrueTag # FalseTag
    BY DEF Bools, TrueTag, FalseTag
<1> QED
    BY <1>1 DEF Fits, TagFits

\* The reader, changed.
LEMMA ReaderMoved ==
    ASSUME NEW r, NEW idx, NEW err, NEW test, r = [idx |-> idx, err |-> err, test |-> test],
           NEW next, NEW error
    PROVE  [r EXCEPT !.idx = next, !.err = error] = [idx |-> next, err |-> error, test |-> test]
<1>1. PICK q : q = [r EXCEPT !.idx = next, !.err = error]
    OBVIOUS
<1>2. q.idx = next /\ q.err = error /\ q.test = test /\ DOMAIN q = {"idx", "err", "test"}
    BY <1>1
<1>3. q = [idx |-> next, err |-> error, test |-> test]
    BY <1>1, <1>2
<1> QED
    BY <1>1, <1>3

ReaderIs(r, next, error, pattern) == r = [idx |-> next, err |-> error, test |-> pattern]

LEMMA ReaderHas ==
    ASSUME NEW r, NEW next, NEW error, NEW pattern, ReaderIs(r, next, error, pattern)
    PROVE  r.idx = next /\ r.err = error /\ r.test = pattern
BY DEF ReaderIs

\* One call of popXXX, as long as there was no error.
LEMMA PopGood ==
    ASSUME NEW m, NEW r, NEW idx \in Nat, NEW test, ReaderIs(r, idx, "none", test),
           NEW tag, tag # FalseTag, NEW len \in Nat, Len(m.arguments) = len
    PROVE  /\ idx < len /\ Fits(m, idx + 1, tag) =>
                ReaderIs(Pop(m, r, tag), idx + 1, "none", test)
           /\ ~(idx < len /\ Fits(m, idx + 1, tag)) =>
                \E next \in Nat : \E error :
                    error # "none" /\ ReaderIs(Pop(m, r, tag), next, error, test)
<1> r = [idx |-> idx, err |-> "none", test |-> test]
    BY DEF ReaderIs
<1>1. Fits(m, idx + 1, tag) <=> tag = AnyType \/ TagFits(m, idx + 1, tag)
    BY FitsIsTagFits
<1>2. r.idx = idx /\ r.err = "none" /\ r.test = test
    OBVIOUS
<1>3. ASSUME idx < len, Fits(m, idx + 1, tag)
      PROVE  ReaderIs(Pop(m, r, tag), idx + 1, "none", test)
  <2>1. Pop(m, r, tag) = [r EXCEPT !.idx = idx + 1, !.err = "none"]
      BY <1>1, <1>2, <1>3 DEF Pop
  <2>2. [r EXCEPT !.idx = idx + 1, !.err = "none"] = [idx |-> idx + 1, err |-> "none", test |-> test]
    <3>1. PICK q : q = [r EXCEPT !.idx = idx + 1, !.err = "none"]
        OBVIOUS
    <3>2. q.idx = idx + 1 /\ q.err = "none" /\ q.test = test /\ DOMAIN q = {"idx", "err", "test"}
        BY <3>1
    <3>3. q = [idx |-> idx + 1, err |-> "none", test |-> test]
        BY <3>2, <3>1
    <3> QED
        BY <3>1, <3>3
  <2> QED
      BY <2>1, <2>2 DEF ReaderIs
<1>4. ASSUME ~(idx < len /\ Fits(m, idx + 1, tag))
      PROVE  \E next \in Nat : \E error :
                    error # "none" /\ ReaderIs(Pop(m, r, tag), next, error, test)
  <2>1. PICK next \in Nat : next = IF tag = TrueTag \/ (tag = AnyType /\ idx < len) THEN idx + 1
                                   ELSE idx
      OBVIOUS
  <2>2. PICK error : error = IF idx < len THEN "type" ELSE "not enough"
      OBVIOUS
  <2>3. Pop(m, r, tag) = [idx |-> next, err |-> error, test |-> test]
    <3>1. Pop(m, r, tag) = [r EXCEPT !.idx = next, !.err = error]
        BY <1>1, <1>2, <1>4, <2>1, <2>2 DEF Pop, ErrorIn
    <3> QED
        BY <3>1, ReaderMoved
  <2> QED
      BY <2>2, <2>3 DEF ReaderIs
<1> QED
    BY <1>3, <1>4

\* An error stays.
LEMMA PopBad ==
    ASSUME NEW m, NEW r, NEW idx \in Nat, NEW err, err # "none", NEW test,
           ReaderIs(r, idx, err, test), NEW tag
    PROVE  \E next \in Nat : ReaderIs(Pop(m, r, tag), next, err, test)
<1> r = [idx |-> idx, err |-> err, test |-> test]
    BY DEF ReaderIs
<1>1. r.idx = idx /\ r.err = err /\ r.test = test
    OBVIOUS
<1>2. PICK next \in Nat :
        next = IF tag = TrueTag \/ (tag = AnyType /\ idx < Len(m.arguments)) THEN idx + 1 ELSE idx
    OBVIOUS
<1>3. Pop(m, r, tag) = [idx |-> next, err |-> err, test |-> test]
  <2>1. Pop(m, r, tag) = [r EXCEPT !.idx = next, !.err = err]
      BY <1>1, <1>2 DEF Pop, ErrorIn
  <2> QED
      BY <2>1, ReaderMoved
<1> QED
    BY <1>3 DEF ReaderIs

-----------------------------------------------------------------------------
(* No message is the beginning of another one *)

Begins(x, y) == Len(x) <= Len(y) /\ \A i \in 1..Len(x) : y[i] = x[i]

\* What the shorter one holds, the longer one holds at the same place.
LEMMA HoldsBoth ==
    ASSUME NEW x \in Seq(Byte), NEW y \in Seq(Byte), Begins(x, y),
           NEW p \in Nat, NEW w \in Seq(Byte), Holds(x, p, w)
    PROVE  Holds(y, p, w)
<1>1. PICK n \in Nat, m \in Nat, k \in Nat : n = Len(x) /\ m = Len(y) /\ k = Len(w)
    BY LenProperties
<1>2. /\ n <= m /\ \A i \in 1..n : y[i] = x[i]
      /\ p + k <= n /\ \A i \in 1..k : x[p + i] = w[i]
    BY <1>1 DEF Begins, Holds
<1>3. \A i \in 1..k : p + i \in 1..n
    BY <1>2
<1>4. \A i \in 1..k : y[p + i] = w[i]
    BY <1>2, <1>3, Zenon
<1>5. p + k <= m
    BY <1>2
<1> QED
    BY <1>1, <1>4, <1>5 DEF Holds

\* The address and the type tags end where they end in the shorter one.
LEMMA SpelledBoth ==
    ASSUME NEW x \in Seq(Byte), NEW y \in Seq(Byte), Begins(x, y),
           NEW a, NEW tags, NEW argsAt, Spelled(x, a, tags, argsAt)
    PROVE  Spelled(y, a, tags, argsAt)
<1>1. PICK A \in Seq(Byte) : A = Padded(CString(a)) /\ Len(A) = Ceil4(Len(a) + 1)
    BY TextPadded DEF Spelled
<1>2. PICK T \in Seq(Byte) : T = Padded(CString(Joined(<<Comma>>, tags)))
    BY TextPadded DEF Spelled
<1>3. PICK n \in Nat : n = Len(A)
    BY LenProperties
<1>4. Holds(x, 0, A) /\ Holds(x, n, T)
    BY <1>1, <1>2, <1>3 DEF Spelled
<1>5. Holds(y, 0, A) /\ Holds(y, n, T)
    BY <1>4, HoldsBoth
<1> QED
    BY <1>1, <1>2, <1>3, <1>5, Zenon DEF Spelled

\* There is one way to read them.
LEMMA ReadAsOnce ==
    ASSUME NEW raw, NEW a, NEW tags, NEW p, NEW b, NEW more, NEW q,
           ReadAs(raw, a, tags, p), ReadAs(raw, b, more, q)
    PROVE  b = a /\ more = tags /\ q = p
<1>1. PICK end, tagsAt, tagsEnd :
        /\ end = EndOfText(raw, 0) /\ HasText(raw, 0, Slash) /\ a = SubSeq(raw, 1, end)
        /\ tagsAt = Ceil4(end + 1) /\ HasText(raw, tagsAt, Comma)
        /\ tagsEnd = EndOfText(raw, tagsAt) /\ p = Ceil4(tagsEnd + 1)
        /\ tags = SubSeq(raw, tagsAt + 2, tagsEnd)
    BY DEF ReadAs
<1>2. PICK lastAt, moreAt, moreEnd :
        /\ lastAt = EndOfText(raw, 0) /\ HasText(raw, 0, Slash) /\ b = SubSeq(raw, 1, lastAt)
        /\ moreAt = Ceil4(lastAt + 1) /\ HasText(raw, moreAt, Comma)
        /\ moreEnd = EndOfText(raw, moreAt) /\ q = Ceil4(moreEnd + 1)
        /\ more = SubSeq(raw, moreAt + 2, moreEnd)
    BY DEF ReadAs
<1>3. lastAt = end
    BY <1>1, <1>2
<1>4. moreAt = tagsAt
    BY <1>1, <1>2, <1>3
<1>5. moreEnd = tagsEnd
    BY <1>1, <1>2, <1>4
<1> QED
    BY <1>1, <1>2, <1>3, <1>4, <1>5

\* And so does each argument.
LEMMA ClaimedBoth ==
    ASSUME NEW x, IsPacket(x), NEW y, IsPacket(y), Begins(x, y),
           NEW p \in Nat, p % 4 = 0, p <= Len(x), NEW tag, ArgSize(x, tag, p) # -1
    PROVE  ClaimedSize(y, tag, p) = ClaimedSize(x, tag, p)
<1>1. x \in Seq(Byte) /\ y \in Seq(Byte)
    BY DEF IsPacket
<1>2. PICK n \in Nat, m \in Nat : n = Len(x) /\ m = Len(y) /\ n % 4 = 0
    BY <1>1, LenProperties DEF IsPacket
<1>3. n <= m /\ \A i \in 1..n : y[i] = x[i]
    BY <1>2 DEF Begins
<1>4. PICK size \in Nat :
         /\ size = ClaimedSize(x, tag, p) /\ p + size <= n
         /\ tag \in Bools \cup Pods \cup {StringTag, BlobTag}
    BY <1>2, ArgSizeFacts
<1>5. CASE tag \in Bools \cup Pods
  <2>1. tag \in Bools \/ tag \in Pods
      BY <1>5
  <2> QED
      BY <2>1, ClaimedSizes, Zenon
<1>6. CASE tag = StringTag
  <2>1. EndOfText(x, p) # n
    <3>1. ASSUME EndOfText(x, p) = n PROVE FALSE
      <4>1. ClaimedSize(x, tag, p) = -1
          BY <1>2, <1>6, <3>1, TagsApart DEF ClaimedSize
      <4> QED
          BY <1>4, <4>1
    <3> QED
        BY <3>1
  <2>2. PICK k \in Nat :
           /\ EndOfText(x, p) = p + k /\ p + k <= n
           /\ p + k # n => x[p + k + 1] = 0
           /\ \A i \in 1..k : x[p + i] # 0
      BY <1>1, <1>2, EndOfTextFacts
  <2>3. p + k < n /\ x[p + k + 1] = 0
      BY <2>1, <2>2
  <2>4. p + k + 1 \in 1..n /\ \A i \in 1..k : p + i \in 1..n
      BY <2>3
  <2>5. y[p + k + 1] = 0 /\ \A i \in 1..k : y[p + i] # 0
      BY <1>3, <2>2, <2>3, <2>4, Zenon
  <2>6. p + k < Len(y)
      BY <1>2, <1>3, <2>3
  <2>7. EndOfText(y, p) = p + k
      BY <1>1, <2>5, <2>6, TextEnds
  <2>8. EndOfText(y, p) # Len(y) /\ EndOfText(x, p) # Len(x)
      BY <1>2, <2>1, <2>6, <2>7
  <2>9. /\ ClaimedSize(y, tag, p) = EndOfText(y, p) - p + 1
        /\ ClaimedSize(x, tag, p) = EndOfText(x, p) - p + 1
      BY <1>6, <2>8, ClaimedSizes
  <2> QED
      BY <2>2, <2>7, <2>9
<1>7. CASE tag = BlobTag
  <2>1. p # n
    <3>1. ASSUME p = n PROVE FALSE
      <4>1. ClaimedSize(x, tag, p) = -1
          BY <1>2, <1>7, <3>1, TagsApart DEF ClaimedSize
      <4> QED
          BY <1>4, <4>1
    <3> QED
        BY <3>1
  <2>2. p + 4 <= n
    <3>1. PICK a \in Nat, b \in Nat : p = 4 * a /\ n = 4 * b
      <4>1. p \div 4 \in Nat /\ p = 4 * (p \div 4) /\ n \div 4 \in Nat /\ n = 4 * (n \div 4)
          BY <1>2
      <4> QED
          BY <4>1
    <3>2. a # b /\ a <= b
        BY <1>2, <2>1, <3>1
    <3> QED
        BY <3>1, <3>2
  <2>3. PICK w \in Seq(Byte) : w = SubSeq(x, p + 1, p + 4) /\ Len(w) = 4 /\ Holds(x, p, w)
      BY <1>1, <1>2, <2>2, PartFacts
  <2>4. Holds(y, p, w)
      BY <1>1, <2>3, HoldsBoth
  <2>5. SubSeq(y, p + 1, p + 4) = w
    <3>1. SubSeq(y, p + 1, p + Len(w)) = w
        BY <1>1, <2>4, HoldsRead
    <3> QED
        BY <2>3, <3>1, Zenon
  <2>6. PICK v : v = Int32Of(w)
      OBVIOUS
  <2>7. /\ BlobSize(x, p) = IF v \in -4..n THEN v + 4 ELSE -1
        /\ BlobSize(y, p) = IF v \in -4..m THEN v + 4 ELSE -1
      BY <1>2, <2>3, <2>5, <2>6, Zenon DEF BlobSize
  <2>8. /\ ClaimedSize(x, tag, p) = BlobSize(x, p)
        /\ ClaimedSize(y, tag, p) = BlobSize(y, p)
    <3>1. p # Len(x) /\ p # Len(y)
        BY <1>2, <1>3, <2>2
    <3> QED
        BY <1>7, <3>1, ClaimedSizes
  <2>9. v \in -4..n
      BY <1>4, <2>7, <2>8
  <2>10. v \in -4..m
      BY <1>3, <2>9
  <2> QED
      BY <2>7, <2>8, <2>9, <2>10
<1> QED
    BY <1>4, <1>5, <1>6, <1>7

\* With its padding.
LEMMA ArgSizeBoth ==
    ASSUME NEW x, IsPacket(x), NEW y, IsPacket(y), Begins(x, y),
           NEW p \in Nat, p % 4 = 0, p <= Len(x), NEW tag, ArgSize(x, tag, p) # -1
    PROVE  ArgSize(y, tag, p) = ArgSize(x, tag, p)
<1>1. x \in Seq(Byte) /\ y \in Seq(Byte)
    BY DEF IsPacket
<1>2. PICK n \in Nat, m \in Nat : n = Len(x) /\ m = Len(y) /\ n % 4 = 0
    BY <1>1, LenProperties DEF IsPacket
<1>3. n <= m /\ \A i \in 1..n : y[i] = x[i]
    BY <1>2 DEF Begins
<1>4. PICK size \in Nat :
         /\ size = ArgSize(x, tag, p) /\ size = ClaimedSize(x, tag, p) /\ p + size <= n
         /\ p + Ceil4(size) <= n /\ ZeroPadding(x, p + size)
    BY <1>2, ArgSizeFacts
<1>5. ClaimedSize(y, tag, p) = size
  <2>1. ClaimedSize(y, tag, p) = ClaimedSize(x, tag, p)
      BY ClaimedBoth
  <2> QED
      BY <1>4, <2>1
<1>6. PICK q \in Nat : q = p + size
    BY <1>4
<1>7. PICK c \in Nat : c = Ceil4(q) /\ c <= n
  <2>1. Ceil4(q) \in Nat /\ Ceil4(p + size) = p + Ceil4(size)
      BY CeilFacts, CeilShift
  <2> QED
      BY <1>4, <1>6, <2>1
<1>8. DOMAIN x = 1..n /\ DOMAIN y = 1..m
    BY <1>1, <1>2, LenProperties
<1>9. ZeroPadding(y, q)
  <2>1. \A i \in (q + 1)..c : i \in 1..n /\ i \in 1..m
      BY <1>3, <1>7
  <2>2. \A i \in (q + 1)..c : At(x, i) = 0
      BY <1>4, <1>6, <1>7, Zenon DEF ZeroPadding
  <2>3. \A i \in (q + 1)..c : At(x, i) = x[i] /\ At(y, i) = y[i]
      BY <1>8, <2>1, Zenon DEF At
  <2>4. \A i \in (q + 1)..c : At(y, i) = 0
      BY <1>3, <2>1, <2>2, <2>3, Zenon
  <2> QED
      BY <1>7, <2>4, Zenon DEF ZeroPadding
<1>10. size # -1 /\ ~(p + size > Len(y))
    BY <1>2, <1>3, <1>4
<1> QED
    BY <1>4, <1>5, <1>6, <1>9, <1>10 DEF ArgSize

\* So the last one ends where the shorter one does.
LEMMA MeasuredBoth ==
    ASSUME NEW x, IsPacket(x), NEW y, IsPacket(y), Begins(x, y),
           NEW tags \in Seq(Byte), NEW base, NEW at, NEW to,
           Measured(x, tags, base, at, Len(tags)), Measured(y, tags, base, to, Len(tags))
    PROVE  to[Len(tags) + 1] = at[Len(tags) + 1]
<1>1. PICK n \in Nat : n = Len(tags)
    BY LenProperties
<1>2. Measured(x, tags, base, at, n) /\ Measured(y, tags, base, to, n)
    BY <1>1
<1> DEFINE S == {k \in Nat : k <= n => to[k + 1] = at[k + 1]}
<1>3. 0 \in S
    BY <1>2 DEF Measured
<1>4. ASSUME NEW k \in Nat, k \in S PROVE k + 1 \in S
  <2>1. CASE k + 1 <= n
    <3>1. k + 1 \in 1..n /\ k + 1 \in 1..(n + 1) /\ to[k + 1] = at[k + 1]
        BY <1>4, <2>1
    <3>2. PICK p \in Nat : p = at[k + 1] /\ p % 4 = 0 /\ p <= Len(x)
        BY <1>2, <3>1 DEF Measured
    <3>3. /\ ArgSize(x, tags[k + 1], p) # -1
          /\ at[(k + 1) + 1] = p + Ceil4(ArgSize(x, tags[k + 1], p))
        BY <1>2, <3>1, <3>2 DEF Measured
    <3>4. to[(k + 1) + 1] = p + Ceil4(ArgSize(y, tags[k + 1], p))
        BY <1>2, <3>1, <3>2 DEF Measured
    <3>5. ArgSize(y, tags[k + 1], p) = ArgSize(x, tags[k + 1], p)
        BY <3>2, <3>3, ArgSizeBoth
    <3> QED
        BY <3>3, <3>4, <3>5
  <2>2. CASE ~(k + 1 <= n)
      BY <2>2
  <2> QED
      BY <2>1, <2>2
<1>5. n \in S
  <2> HIDE DEF S
  <2>1. Nat \subseteq S
      BY <1>3, <1>4, NatSetInduction
  <2> QED
      BY <2>1
<1> QED
    BY <1>1, <1>5

\* So the shorter one is the whole of the longer one.
LEMMA AcceptedOnce ==
    ASSUME NEW x, IsPacket(x), Built(x).err = "none",
           NEW y, IsPacket(y), Built(y).err = "none", Begins(x, y)
    PROVE  x = y
<1>1. x \in Seq(Byte) /\ y \in Seq(Byte)
    BY DEF IsPacket
<1>2. PICK a \in Seq(Byte), tags \in Seq(Byte), p \in Nat :
         \E at : /\ Spelled(x, a, tags, p)
                 /\ Measured(x, tags, p, at, Len(tags)) /\ at[Len(tags) + 1] = Len(x)
    BY AcceptedFacts
<1>3. PICK b \in Seq(Byte), more \in Seq(Byte), q \in Nat :
         \E to : /\ Spelled(y, b, more, q)
                 /\ Measured(y, more, q, to, Len(more)) /\ to[Len(more) + 1] = Len(y)
    BY AcceptedFacts
<1>4. Spelled(x, a, tags, p) /\ Spelled(y, b, more, q)
    BY <1>2, <1>3
<1>5. ReadAs(y, a, tags, p) /\ ReadAs(y, b, more, q)
    BY <1>1, <1>4, SpelledBoth, SpelledIsRead
<1>6. b = a /\ more = tags /\ q = p
    BY <1>5, ReadAsOnce
<1>7. PICK at : Measured(x, tags, p, at, Len(tags)) /\ at[Len(tags) + 1] = Len(x)
    BY <1>2
<1>8. PICK to : Measured(y, tags, p, to, Len(tags)) /\ to[Len(tags) + 1] = Len(y)
    BY <1>3, <1>6
<1>9. Len(x) = Len(y)
    BY <1>7, <1>8, MeasuredBoth
<1> QED
    BY <1>1, <1>9, SeqEqual DEF Begins

\* What buildFromRawData accepts begins with a slash, and none of it is the
\* beginning of another message: its type tags say how far its arguments go.
\* That is what the packets' reader and writer take for granted of messages.
THEOREM AcceptedStandApart ==
    \A x, y : IsPacket(x) /\ Built(x).err = "none" =>
        /\ x # <<>> /\ x[1] = Slash
        /\ IsPacket(y) /\ Built(y).err = "none" /\ IsPrefix(x, y) => x = y
<1> SUFFICES ASSUME NEW x, NEW y, IsPacket(x), Built(x).err = "none"
             PROVE  /\ x # <<>> /\ x[1] = Slash
                    /\ IsPacket(y) /\ Built(y).err = "none" /\ IsPrefix(x, y) => x = y
    OBVIOUS
<1>1. x \in Seq(Byte)
    BY DEF IsPacket
<1>2. PICK n \in Nat : n = Len(x) /\ DOMAIN x = 1..n
    BY <1>1, LenProperties
<1>3. At(x, 1) = Slash
  <2>1. HasText(x, 0, Slash)
      BY BuiltNot
  <2>2. 0 + 1 = 1
      OBVIOUS
  <2> QED
      BY <2>1, <2>2 DEF HasText
<1>4. x # <<>> /\ x[1] = Slash
  <2>1. 1 \in DOMAIN x
      BY <1>3 DEF At, Slash
  <2>2. n # 0
      BY <1>2, <2>1
  <2> QED
      BY <1>1, <1>2, <1>3, <2>1, <2>2, EmptySeq DEF At
<1>5. ASSUME IsPacket(y), Built(y).err = "none", IsPrefix(x, y) PROVE x = y
  <2>1. y \in Seq(Byte)
      BY <1>5 DEF IsPacket
  <2>2. PICK m \in Nat : m = Len(y)
      BY <2>1, LenProperties
  <2>3. n <= m /\ SubSeq(x, 1, n) = SubSeq(y, 1, n)
      BY <1>2, <1>5, <2>2 DEF IsPrefix
  <2>4. \A i \in 1..n : x[i] \in Byte /\ y[i] \in Byte
      BY <1>1, <1>2, <2>1, <2>2, <2>3, ElementOfSeq
  <2>5. \A i \in 1..n : SubSeq(x, 1, n)[i] = x[i]
      BY <2>4, SubSeqProperties
  <2>6. \A i \in 1..n : SubSeq(y, 1, n)[i] = y[i]
      BY <2>4, SubSeqProperties
  <2>7. \A i \in 1..n : y[i] = x[i]
      BY <2>3, <2>5, <2>6, Zenon
  <2>8. Begins(x, y)
      BY <1>2, <2>2, <2>3, <2>7 DEF Begins
  <2> QED
      BY <1>5, <2>8, AcceptedOnce
<1> QED
    BY <1>4, <1>5
=============================================================================
