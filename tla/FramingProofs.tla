---- MODULE FramingProofs ----
(***************************************************************************)
(* What the remaining length codec computes, for every length, and that    *)
(* listen finds the packets in the bytes, however the network cuts them.   *)
(*                                                                         *)
(* The invariant says where listen is: what it has seen of the present     *)
(* packet, what is buffered and what is on the way are together the bytes  *)
(* of the packets that were sent and not yet handled.  A read moves the    *)
(* cut, a handled packet takes its bytes from the front, one that is sent  *)
(* adds its bytes at the end.                                              *)
(***************************************************************************)
EXTENDS Framing, SequenceTheorems, TLAPS

\* Powers of the base grow.
LEMMA Powers ==
    /\ Power[1] = 1 /\ Power[2] = Base /\ Power[3] = Base * Base /\ Power[4] = Base * Base * Base
    /\ \A i \in 1..4 : Power[i] \in Nat \ {0}
    /\ Power[2] < Power[3] /\ Power[3] < Power[4] /\ 1 < Power[2]
<1>1. Base \in Nat /\ Base > 1
  BY FramingAssumption
<1>2. Base * Base \in Nat /\ Base * Base > Base
  BY <1>1
<1>3. Base * Base * Base \in Nat /\ Base * Base * Base > Base * Base
  BY <1>1, <1>2
<1> QED
  BY <1>1, <1>2, <1>3 DEF Power

\* Quotient and remainder.
LEMMA Division ==
    ASSUME NEW x \in Nat
    PROVE  /\ x \div Base \in Nat /\ x % Base \in 0..(Base - 1)
           /\ x = Base * (x \div Base) + (x % Base)
<1>1. Base \in Nat /\ Base > 0
  BY FramingAssumption
<1> QED
  BY <1>1

\* A remainder keeps its value, with the continuation bit and without it.
LEMMA DigitBack ==
    ASSUME NEW d \in 0..(Base - 1)
    PROVE  d % Base = d /\ (d + Base) % Base = d
<1>1. Base \in Nat /\ Base > 0
  BY FramingAssumption
<1>2. d % Base = d
  BY <1>1
<1>3. (d + Base) % Base = d
  <2>1. /\ (d + Base) \div Base \in Int /\ (d + Base) % Base \in 0..(Base - 1)
        /\ d + Base = Base * ((d + Base) \div Base) + ((d + Base) % Base)
    BY <1>1
  <2> QED
    BY <1>1, <2>1
<1> QED
  BY <1>2, <1>3

\* A number below a square or a cube has as many digits.
LEMMA Quotients ==
    ASSUME NEW x \in Nat
    PROVE  /\ x < Base => x \div Base = 0
           /\ x < Base * Base => x \div Base < Base
           /\ x < Base * Base * Base => (x \div Base) \div Base < Base
<1>1. Base \in Nat /\ Base > 1
  BY FramingAssumption
<1>2. /\ x \div Base \in Nat /\ x % Base \in 0..(Base - 1)
      /\ x = Base * (x \div Base) + (x % Base)
  BY Division
<1>3. x < Base => x \div Base = 0
  BY <1>1, <1>2
<1>4. ASSUME x < Base * Base PROVE x \div Base < Base
  BY <1>1, <1>2, <1>4
<1>5. ASSUME x < Base * Base * Base PROVE (x \div Base) \div Base < Base
  <2>1. x \div Base < Base * Base
    BY <1>1, <1>2, <1>5
  <2>2. /\ (x \div Base) \div Base \in Nat /\ (x \div Base) % Base \in 0..(Base - 1)
        /\ x \div Base = Base * ((x \div Base) \div Base) + ((x \div Base) % Base)
    BY <1>2, Division
  <2> QED
    BY <1>1, <1>2, <2>1, <2>2
<1> QED
  BY <1>3, <1>4, <1>5

\* Dividing twice is dividing by the square.
LEMMA DivTwice ==
    ASSUME NEW x \in Nat
    PROVE  x \div (Base * Base) = (x \div Base) \div Base
  BY FramingAssumption

\* The value of a number from its three lowest digits.
LEMMA ThreeDigits ==
    ASSUME NEW x \in Nat, x < Base * Base * Base
    PROVE  x = (x % Base) + ((x \div Base) % Base) * Base + (((x \div Base) \div Base) % Base) * (Base * Base)
<1> DEFINE q == x \div Base
           r == q \div Base
<1>1. Base \in Nat /\ Base > 1
  BY FramingAssumption
<1>2. q \in Nat /\ x % Base \in Nat /\ x = Base * q + (x % Base)
  BY Division
<1>3. r \in Nat /\ q % Base \in Nat /\ q = Base * r + (q % Base)
  BY <1>2, Division
<1>4. r \in 0..(Base - 1)
  BY <1>1, <1>3, Quotients
<1>5. r % Base = r
  BY <1>4, DigitBack
<1>6. x = Base * (Base * r + (q % Base)) + (x % Base)
  BY <1>2, <1>3
<1> HIDE DEF r, q
<1>7. Base * (Base * r + (q % Base)) = (q % Base) * Base + r * (Base * Base)
  BY <1>1, <1>3
<1>8. x = (x % Base) + (q % Base) * Base + r * (Base * Base)
  BY <1>1, <1>2, <1>3, <1>6, <1>7
<1> QED
  BY <1>5, <1>8 DEF r, q

\* Decode gives back every length of one to three bytes that Encode was given
\* (bytes/encoding.go:8-39).
THEOREM RoundTrip == \A x \in 1..(Power[4] - 1) : Decode(Encode(x)) = x
<1> SUFFICES ASSUME NEW x \in 1..(Power[4] - 1)
             PROVE  Decode(Encode(x)) = x
  OBVIOUS
<1> DEFINE e == Encode(x)
           d1 == x % Base
           d2 == (x \div Base) % Base
           d3 == ((x \div Base) \div Base) % Base
<1>1. Base \in Nat /\ Base > 1
  BY FramingAssumption
<1>2. x \in Nat /\ x < Base * Base * Base
  BY <1>1, Powers
<1>3. x = d1 + d2 * Base + d3 * (Base * Base)
  BY <1>2, ThreeDigits
<1>4. x \div Base \in Nat /\ (x \div Base) \div Base \in Nat
  BY <1>2, Division
<1>5. d1 \in 0..(Base - 1) /\ d2 \in 0..(Base - 1) /\ d3 \in 0..(Base - 1)
  BY <1>2, <1>4, Division
<1>6. /\ (x \div Power[1]) % Base = d1 /\ (x \div Power[2]) % Base = d2
      /\ (x \div Power[3]) % Base = d3
  <2>1. x \div 1 = x
    BY <1>2
  <2>2. x \div (Base * Base) = (x \div Base) \div Base
    BY <1>2, DivTwice
  <2> QED
    BY <2>1, <2>2, Powers
<1>7. /\ d1 % Base = d1 /\ (d1 + Base) % Base = d1
      /\ d2 % Base = d2 /\ (d2 + Base) % Base = d2
      /\ d3 % Base = d3
  BY <1>5, DigitBack
<1> HIDE DEF d1, d2, d3
<1>8. CASE x < Power[2]
  <2>1. Digits(x) = 1
    BY <1>2, <1>8, Powers DEF Digits
  <2>2. Len(e) = 1 /\ e[1] = d1
    BY <1>5, <1>1, <1>6, <2>1 DEF Encode
  <2>3. d2 = 0 /\ d3 = 0
    <3>1. x \div Base = 0
      BY <1>2, <1>8, Powers, Quotients
    <3> QED
      BY <3>1, <1>1 DEF d2, d3
  <2> HIDE DEF e
  <2>4. Decode(e) = d1
    BY <1>1, <1>5, <1>7, <2>2, Powers DEF Decode
  <2> QED
    BY <1>1, <1>3, <1>5, <2>3, <2>4 DEF e
<1>9. CASE x >= Power[2] /\ x < Power[3]
  <2>1. Digits(x) = 2
    BY <1>2, <1>9, Powers DEF Digits
  <2>2. Len(e) = 2 /\ e[1] = d1 + Base /\ e[2] = d2
    BY <1>5, <1>1, <1>6, <2>1 DEF Encode
  <2>3. d3 = 0
    <3>1. x \div Base < Base
      BY <1>2, <1>9, Powers, Quotients
    <3>2. (x \div Base) \div Base = 0
      BY <3>1, <1>4, Quotients
    <3> QED
      BY <3>2, <1>1 DEF d3
  <2> HIDE DEF e
  <2>4. Decode(e) = d1 + d2 * Base
    BY <1>1, <1>5, <1>7, <2>2, Powers DEF Decode
  <2> QED
    BY <1>1, <1>3, <1>5, <2>3, <2>4 DEF e
<1>10. CASE x >= Power[3]
  <2>1. Digits(x) = 3
    BY <1>2, <1>10, Powers DEF Digits
  <2>2. Len(e) = 3 /\ e[1] = d1 + Base /\ e[2] = d2 + Base /\ e[3] = d3
    BY <1>5, <1>1, <1>6, <2>1 DEF Encode
  <2> HIDE DEF e
  <2>3. /\ (e[1] % Base) * Power[1] = d1 /\ (e[2] % Base) * Power[2] = d2 * Base
        /\ (e[3] % Base) * Power[3] = d3 * (Base * Base)
    BY <1>1, <1>5, <1>7, <2>2, Powers
  <2>4. Decode(e) = d1 + d2 * Base + d3 * (Base * Base)
    BY <2>2, <2>3 DEF Decode
  <2> QED
    BY <1>1, <1>3, <1>5, <2>4 DEF e
<1> QED
  BY <1>1, <1>2, <1>8, <1>9, <1>10, Powers

\* A length that MQTT lets a client encode in four bytes is refused
\* (bytes/encoding.go:28-32).
THEOREM FourBytesRefused == \A x \in Power[4]..(Power[4] * Base - 1) : Decode(Encode(x)) = Malformed
<1> SUFFICES ASSUME NEW x \in Power[4]..(Power[4] * Base - 1)
             PROVE  Decode(Encode(x)) = Malformed
  OBVIOUS
<1>1. Digits(x) = 4
  <2>1. Base \in Nat /\ Base > 1
    BY FramingAssumption
  <2>2. Power[2] \in Nat /\ Power[3] \in Nat /\ Power[4] \in Nat
    BY Powers
  <2>3. x \in Int /\ x >= Power[4]
    BY <2>1, <2>2
  <2> QED
    BY <2>2, <2>3, Powers DEF Digits
<1>2. Len(Encode(x)) = 4
  BY <1>1 DEF Encode
<1> QED
  BY <1>2 DEF Decode

----------------------------------------------------------------------------
\* The bytes of a packet.

\* The length bytes of a packet.
LengthField(p) == IF p.body = <<>> THEN <<0>> ELSE Encode(Len(p.body))

\* A digit is a byte, and tells whether another one follows.
LEMMA DigitByte ==
    ASSUME NEW x \in Nat, NEW i \in 1..4
    PROVE  LET d == (x \div Power[i]) % Base IN d \in 0..(Base - 1) /\ d \in Bytes /\ d + Base \in Bytes
<1> DEFINE y == x \div Power[i]
           d == y % Base
<1>1. Base \in Nat /\ Base > 1
  BY FramingAssumption
<1>2. y \in Nat
  <2>1. Power[i] \in Nat \ {0}
    BY Powers
  <2>2. \A n \in Nat \ {0} : x \div n \in Nat
    OBVIOUS
  <2> QED
    BY <2>1, <2>2
<1>3. d \in 0..(Base - 1)
  BY <1>2, Division
<1> HIDE DEF d
<1>4. d \in Bytes /\ d + Base \in Bytes
  BY <1>1, <1>3 DEF Bytes
<1> QED
  BY <1>3, <1>4 DEF d

\* The length bytes of a packet are one to four, all but the last one say that
\* another one follows, and Decode makes the length of them, if they are three
\* at most.
LEMMA FieldOf ==
    ASSUME NEW p \in Packets
    PROVE  LET e == LengthField(p)
           IN  /\ e \in Seq(Bytes) /\ Len(e) \in 1..4
               /\ \A i \in 1..(Len(e) - 1) : e[i] >= Base
               /\ e[Len(e)] < Base
               /\ Decode(e) = IF Len(p.body) < Power[4] THEN Len(p.body) ELSE Malformed
<1> DEFINE e == LengthField(p)
           n == Len(p.body)
<1>1. Base \in Nat /\ Base > 1
  BY FramingAssumption
<1>2. p.body \in Seq(Bytes) /\ n \in Nat /\ n < Base * Base * Base * Base
  BY FramingAssumption
<1>3. Power[1] = 1 /\ \A i \in 1..4 : Power[i] \in Nat /\ Power[i] > 0
  BY Powers
<1>4. CASE p.body = <<>>
  <2>1. e = <<0>> /\ n = 0
    BY <1>4 DEF LengthField
  <2>2. 0 \in Bytes
    BY <1>1 DEF Bytes
  <2>3. e \in Seq(Bytes) /\ Len(e) = 1 /\ e[1] = 0
    BY <2>1, <2>2
  <2>4. Decode(e) = 0
    <3>1. 0 % Base = 0
      BY <1>1
    <3>2. Len(e) = 1 /\ e[1] = 0
      BY <2>3
    <3> HIDE DEF e
    <3> QED
      BY <1>3, <3>1, <3>2 DEF Decode
  <2> QED
    BY <1>1, <1>3, <2>1, <2>3, <2>4
<1>5. CASE p.body # <<>>
  <2>1. n \in Nat /\ n > 0
    BY <1>2, <1>5
  <2>2. e = [i \in 1..Digits(n) |-> ((n \div Power[i]) % Base) + (IF i < Digits(n) THEN Base ELSE 0)]
    BY <1>5 DEF LengthField, Encode
  <2>3. Digits(n) \in 1..4
    BY <1>3, <2>1 DEF Digits
  <2>4. \A i \in 1..Digits(n) : (n \div Power[i]) % Base \in 0..(Base - 1)
                               /\ (n \div Power[i]) % Base \in Bytes
                               /\ ((n \div Power[i]) % Base) + Base \in Bytes
    <3>1. ASSUME NEW i \in 1..Digits(n)
          PROVE  (n \div Power[i]) % Base \in 0..(Base - 1)
                 /\ (n \div Power[i]) % Base \in Bytes /\ ((n \div Power[i]) % Base) + Base \in Bytes
      <4>1. i \in 1..4
        BY <2>3
      <4> QED
        BY <2>1, <4>1, DigitByte
    <3> QED
      BY <3>1
  <2>5. Len(e) = Digits(n) /\ e \in Seq(Bytes)
    <3>1. \A i \in 1..Digits(n) : ((n \div Power[i]) % Base) + (IF i < Digits(n) THEN Base ELSE 0) \in Bytes
      BY <1>1, <2>4
    <3>2. e \in [1..Digits(n) -> Bytes]
      BY <2>2, <3>1
    <3> HIDE DEF e
    <3> QED
      BY <2>3, <3>2
  <2>6. \A i \in 1..(Len(e) - 1) : e[i] >= Base
    <3>1. ASSUME NEW i \in 1..(Len(e) - 1) PROVE e[i] >= Base
      <4>1. i \in 1..Digits(n) /\ i < Digits(n)
        BY <2>3, <2>5
      <4>2. e[i] = ((n \div Power[i]) % Base) + Base
        BY <2>2, <4>1
      <4>3. (n \div Power[i]) % Base \in 0..(Base - 1)
        BY <2>4, <4>1
      <4> QED
        BY <1>1, <4>2, <4>3
    <3> QED
      BY <3>1
  <2>7. e[Len(e)] < Base
    <3>1. Digits(n) \in 1..Digits(n)
      BY <2>3
    <3>2. e[Digits(n)] = ((n \div Power[Digits(n)]) % Base) + 0
      BY <2>2, <3>1
    <3>3. (n \div Power[Digits(n)]) % Base \in 0..(Base - 1)
      BY <2>4, <3>1
    <3> QED
      BY <1>1, <2>5, <3>2, <3>3
  <2>8. Decode(e) = IF n < Power[4] THEN n ELSE Malformed
    <3>1. e = Encode(n)
      BY <1>5 DEF LengthField
    <3>2. CASE n < Power[4]
      <4>1. n \in 1..(Power[4] - 1)
        BY <1>3, <2>1, <3>2
      <4> QED
        BY <3>1, <3>2, <4>1, RoundTrip
    <3>3. CASE n >= Power[4]
      <4>1. n \in Power[4]..(Power[4] * Base - 1)
        <5>1. Power[4] * Base = Base * Base * Base * Base /\ Power[4] * Base \in Nat
          BY <1>1, Powers
        <5> QED
          BY <1>2, <1>3, <3>3, <5>1
      <4> QED
        BY <1>3, <2>1, <3>1, <3>3, <4>1, FourBytesRefused
    <3> QED
      BY <1>3, <2>1, <3>2, <3>3
  <2> QED
    BY <2>3, <2>5, <2>6, <2>7, <2>8
<1> QED
  BY <1>4, <1>5

\* The bytes of a packet are those of its header, its length and its body.
LEMMA WireOf ==
    ASSUME NEW p \in Packets
    PROVE  /\ Wire(p) = (<<p.first>> \o LengthField(p)) \o p.body /\ Wire(p) \in Seq(Bytes)
           /\ p.first \in Bytes /\ p.body \in Seq(Bytes)
           /\ Len(Wire(p)) = 1 + Len(LengthField(p)) + Len(p.body)
           /\ Wire(p)[1] = p.first
           /\ \A i \in 1..Len(LengthField(p)) : Wire(p)[i + 1] = LengthField(p)[i]
<1> DEFINE e == LengthField(p)
           h == <<p.first>> \o e
<1>1. p.first \in Bytes /\ p.body \in Seq(Bytes)
  BY FramingAssumption
<1>2. e \in Seq(Bytes) /\ Len(e) \in 1..4
  BY FieldOf
<1>3. Wire(p) = h \o p.body
  BY DEF Wire, LengthField
<1> HIDE DEF e
<1>4. <<p.first>> \in Seq(Bytes) /\ Len(<<p.first>>) = 1 /\ <<p.first>>[1] = p.first
  BY <1>1
<1>5. h \in Seq(Bytes) /\ Len(h) = 1 + Len(e) /\ h[1] = p.first /\ \A i \in 1..Len(e) : h[i + 1] = e[i]
  <2>1. /\ h \in Seq(Bytes) /\ Len(h) = Len(<<p.first>>) + Len(e)
        /\ \A i \in 1..(Len(<<p.first>>) + Len(e)) :
              h[i] = IF i <= Len(<<p.first>>) THEN <<p.first>>[i] ELSE e[i - Len(<<p.first>>)]
    BY <1>2, <1>4, ConcatProperties
  <2> QED
    BY <1>2, <1>4, <2>1
<1> HIDE DEF h
<1>6. /\ h \o p.body \in Seq(Bytes) /\ Len(h \o p.body) = Len(h) + Len(p.body)
      /\ \A i \in 1..(Len(h) + Len(p.body)) :
            (h \o p.body)[i] = IF i <= Len(h) THEN h[i] ELSE p.body[i - Len(h)]
  <2>1. h \in Seq(Bytes) /\ p.body \in Seq(Bytes)
    BY <1>1, <1>5
  <2> QED
    BY <2>1, ConcatProperties
<1>7. Len(p.body) \in Nat
  BY <1>1
<1>8. (h \o p.body)[1] = p.first /\ \A i \in 1..Len(e) : (h \o p.body)[i + 1] = e[i]
  BY <1>2, <1>5, <1>6, <1>7
<1> QED
  BY <1>1, <1>2, <1>3, <1>5, <1>6, <1>8 DEF e, h

----------------------------------------------------------------------------
\* Pieces of a sequence.

\* Two ways to cut a sequence in two.
LEMMA Aligned ==
    ASSUME NEW a \in Seq(Bytes), NEW b \in Seq(Bytes), NEW c \in Seq(Bytes), NEW d \in Seq(Bytes),
           a \o b = c \o d
    PROVE  /\ \A i \in 1..Len(a) : i <= Len(c) => a[i] = c[i]
           /\ Len(a) = Len(c) => a = c /\ b = d
<1>1. Len(a) \in Nat /\ Len(b) \in Nat /\ Len(c) \in Nat /\ Len(d) \in Nat
  OBVIOUS
<1>2. /\ Len(a \o b) = Len(a) + Len(b)
      /\ \A i \in 1..(Len(a) + Len(b)) : (a \o b)[i] = IF i <= Len(a) THEN a[i] ELSE b[i - Len(a)]
  BY ConcatProperties
<1>3. /\ Len(c \o d) = Len(c) + Len(d)
      /\ \A i \in 1..(Len(c) + Len(d)) : (c \o d)[i] = IF i <= Len(c) THEN c[i] ELSE d[i - Len(c)]
  BY ConcatProperties
<1>4. Len(a) + Len(b) = Len(c) + Len(d)
  BY <1>2, <1>3
<1>5. ASSUME NEW i \in 1..Len(a), i <= Len(c) PROVE a[i] = c[i]
  <2>1. i \in 1..(Len(a) + Len(b)) /\ i \in 1..(Len(c) + Len(d)) /\ i <= Len(a)
    BY <1>1, <1>5
  <2>2. (a \o b)[i] = a[i] /\ (c \o d)[i] = c[i]
    BY <1>2, <1>3, <1>5, <2>1
  <2> QED
    BY <2>2
<1>6. ASSUME Len(a) = Len(c) PROVE a = c /\ b = d
  <2>1. a = c
    BY <1>1, <1>5, <1>6, SeqEqual
  <2>2. Len(b) = Len(d)
    BY <1>1, <1>4, <1>6
  <2>3. ASSUME NEW i \in 1..Len(b) PROVE b[i] = d[i]
    <3>1. LET j == i + Len(a) IN /\ j \in 1..(Len(a) + Len(b)) /\ j \in 1..(Len(c) + Len(d))
                                 /\ ~(j <= Len(a)) /\ ~(j <= Len(c)) /\ j - Len(a) = i /\ j - Len(c) = i
      BY <1>1, <1>4, <1>6
    <3>2. (a \o b)[i + Len(a)] = b[i] /\ (c \o d)[i + Len(a)] = d[i]
      BY <1>2, <1>3, <3>1
    <3> QED
      BY <3>2
  <2>4. b = d
    BY <2>2, <2>3, SeqEqual
  <2> QED
    BY <2>1, <2>4
<1> QED
  BY <1>5, <1>6

\* Two sequences that are cut in the same place.
LEMMA Cancelled ==
    \A a, b, c, d \in Seq(Bytes) : a \o b = c \o d /\ Len(a) = Len(c) => a = c /\ b = d
  BY Aligned

\* Three pieces, in whichever way they are put together.
LEMMA Assoc == \A a, b, c \in Seq(Bytes) : (a \o b) \o c = a \o (b \o c)
  BY ConcatAssociative

\* A sequence of two bytes.
LEMMA TwoOf ==
    ASSUME NEW s \in Seq(Bytes), Len(s) = 2
    PROVE  s[1] \in Bytes /\ s[2] \in Bytes /\ s = <<s[1]>> \o <<s[2]>> /\ <<s[2]>> \in Seq(Bytes) \ {<<>>}
<1>1. s[1] \in Bytes
  OBVIOUS
<1>2. s[2] \in Bytes
  OBVIOUS
<1>3. s = <<s[1]>> \o <<s[2]>>
  <2>1. Len(<<s[1]>> \o <<s[2]>>) = 2
    OBVIOUS
  <2>2. (<<s[1]>> \o <<s[2]>>)[1] = s[1]
    OBVIOUS
  <2>3. (<<s[1]>> \o <<s[2]>>)[2] = s[2]
    OBVIOUS
  <2>4. <<s[1]>> \o <<s[2]>> \in Seq(Bytes)
    BY <1>1, <1>2
  <2> QED
    BY <2>1, <2>2, <2>3, <2>4, SeqEqual
<1>4. <<s[2]>> \in Seq(Bytes) \ {<<>>}
  BY <1>2
<1> QED
  BY <1>1, <1>2, <1>3, <1>4

\* A byte at the end.
LEMMA OneMore ==
    ASSUME NEW s \in Seq(Bytes), NEW x \in Bytes
    PROVE  /\ Append(s, x) \in Seq(Bytes) /\ Append(s, x) # <<>> /\ Len(Append(s, x)) = Len(s) + 1
           /\ Append(s, x) = s \o <<x>> /\ Append(s, x)[Len(s) + 1] = x
<1>1. Append(s, x) \in Seq(Bytes)
  OBVIOUS
<1>2. Len(Append(s, x)) = Len(s) + 1
  OBVIOUS
<1>3. Append(s, x) # <<>>
  <2>1. Len(<<>>) = 0 /\ Len(s) \in Nat
    OBVIOUS
  <2> QED
    BY <1>2, <2>1
<1>4. Append(s, x) = s \o <<x>>
  OBVIOUS
<1>5. Append(s, x)[Len(s) + 1] = x
  OBVIOUS
<1> QED
  BY <1>1, <1>2, <1>3, <1>4, <1>5

\* A piece moves from the front of b to the end of a.
LEMMA Moved ==
    ASSUME NEW a \in Seq(Bytes), NEW b \in Seq(Bytes), NEW c \in Seq(Bytes), NEW k \in 0..Len(b)
    PROVE  /\ SubSeq(b, 1, k) \in Seq(Bytes) /\ Len(SubSeq(b, 1, k)) = k
           /\ SubSeq(b, k + 1, Len(b)) \in Seq(Bytes)
           /\ a \o SubSeq(b, 1, k) \in Seq(Bytes) /\ Len(a \o SubSeq(b, 1, k)) = Len(a) + k
           /\ (a \o SubSeq(b, 1, k)) \o (SubSeq(b, k + 1, Len(b)) \o c) = a \o (b \o c)
<1> DEFINE x == SubSeq(b, 1, k)
           y == SubSeq(b, k + 1, Len(b))
<1>1. Len(b) \in Nat /\ Len(a) \in Nat /\ k \in Nat /\ k <= Len(b) /\ \A i \in 1..Len(b) : b[i] \in Bytes
  OBVIOUS
<1>2. x \in Seq(Bytes) /\ Len(x) = k
  BY <1>1
<1>3. y \in Seq(Bytes)
  BY <1>1
<1>4. x \o y = b
  <2>1. 1 \in 1..(Len(b) + 1) /\ k \in (1 - 1)..Len(b) /\ Len(b) \in k..Len(b)
    BY <1>1
  <2>2. x \o y = SubSeq(b, 1, Len(b))
    BY <2>1, ConcatAdjacentSubSeq
  <2> QED
    BY <2>2, SubSeqFull
<1> HIDE DEF x, y
<1>5. a \o x \in Seq(Bytes) /\ Len(a \o x) = Len(a) + k
  BY <1>2, ConcatProperties
<1>6. (a \o x) \o (y \o c) = a \o (b \o c)
  <2>1. y \o c \in Seq(Bytes)
    BY <1>3
  <2>2. (a \o x) \o (y \o c) = a \o (x \o (y \o c))
    <3>1. a \in Seq(Bytes) /\ x \in Seq(Bytes)
      BY <1>2
    <3> QED
      BY <2>1, <3>1, Assoc, SMTT(30), ZenonT(30)
  <2>3. (x \o y) \o c = x \o (y \o c)
    <3>1. x \in Seq(Bytes) /\ y \in Seq(Bytes) /\ c \in Seq(Bytes)
      BY <1>2, <1>3
    <3> QED
      BY <3>1, Assoc, SMTT(30), ZenonT(30)
  <2> QED
    BY <1>4, <2>2, <2>3
<1> QED
  BY <1>2, <1>3, <1>5, <1>6 DEF x, y

----------------------------------------------------------------------------
\* The types.

\* A length is a number, or it is refused.
LEMMA DecodeType ==
    ASSUME NEW s \in Seq(Bytes)
    PROVE  Decode(s) \in Nat \cup {Malformed}
<1> DEFINE part(i) == IF i <= Len(s) THEN (s[i] % Base) * Power[i] ELSE 0
<1>1. Base \in Nat /\ Base > 1
  BY FramingAssumption
<1>2. ASSUME NEW i \in 1..3 PROVE part(i) \in Nat
  <2>1. Power[i] \in Nat
    BY Powers
  <2>2. CASE i <= Len(s)
    <3>1. s[i] \in Nat
      <4>1. s[i] \in Bytes
        BY <2>2
      <4> QED
        BY <1>1, <4>1 DEF Bytes
    <3>2. s[i] % Base \in Nat
      <4>1. s[i] % Base \in 0..(Base - 1)
        BY <3>1, Division
      <4> QED
        BY <1>1, <4>1
    <3>3. \A x, y \in Nat : x * y \in Nat
      OBVIOUS
    <3> QED
      BY <2>1, <2>2, <3>2, <3>3
  <2> QED
    BY <2>2
<1>3. part(1) \in Nat /\ part(2) \in Nat /\ part(3) \in Nat
  BY <1>2
<1> HIDE DEF part
<1>4. part(1) + part(2) + part(3) \in Nat
  BY <1>3
<1>5. Decode(s) = IF Len(s) > 3 THEN Malformed ELSE part(1) + part(2) + part(3)
  BY DEF Decode, part
<1> QED
  BY <1>4, <1>5

\* What a read takes stays in order, and is not more than it wants.
LEMMA Taken ==
    ASSUME TypeOK, NEW n \in Nat, Len(got) < n, Take(n)
    PROVE  /\ got' \in Seq(Bytes) /\ buf' \in Seq(Bytes)
           /\ Len(got') <= n /\ Len(got') > Len(got)
           /\ \E k \in 0..Len(buf) : got' = got \o SubSeq(buf, 1, k) /\ buf' = SubSeq(buf, k + 1, Len(buf))
<1> DEFINE k == IF n - Len(got) < Len(buf) THEN n - Len(got) ELSE Len(buf)
<1>1. got \in Seq(Bytes) /\ buf \in Seq(Bytes) /\ buf # <<>>
      /\ Len(buf) \in Nat /\ Len(got) \in Nat /\ net \in Seq(Bytes)
  BY DEF TypeOK, Take
<1>2. Len(buf) > 0
  BY <1>1
<1>3. k \in 0..Len(buf) /\ k > 0 /\ Len(got) + k <= n
  BY <1>1, <1>2
<1>4. got' = got \o SubSeq(buf, 1, k) /\ buf' = SubSeq(buf, k + 1, Len(buf))
  BY DEF Take
<1> HIDE DEF k
<1>5. got' \in Seq(Bytes) /\ Len(got') = Len(got) + k /\ buf' \in Seq(Bytes)
  BY <1>1, <1>3, <1>4, Moved
<1>6. Len(got') <= n /\ Len(got') > Len(got)
  BY <1>1, <1>3, <1>5
<1>7. \E j \in 0..Len(buf) : got' = got \o SubSeq(buf, 1, j) /\ buf' = SubSeq(buf, j + 1, Len(buf))
  BY <1>3, <1>4
<1> QED
  BY <1>5, <1>6, <1>7

\* The length that is waited for.
LEMMA WantType ==
    ASSUME TypeOK
    PROVE  RemLen \in Nat \cup {Malformed} /\ (RemLen # Malformed => Want \in Nat)
<1>1. RemLen \in Nat \cup {Malformed}
  BY DecodeType DEF TypeOK, RemLen
<1> QED
  BY <1>1, FramingAssumption DEF Want

\* The types after every step.
LEMMA NextTypes == TypeOK /\ [Next]_vars => TypeOK'
<1> SUFFICES ASSUME TypeOK, [Next]_vars PROVE TypeOK'
  OBVIOUS
<1>1. /\ ws \in BOOLEAN /\ hungUp \in BOOLEAN /\ connected \in BOOLEAN
      /\ short \in BOOLEAN /\ lost \in BOOLEAN
      /\ pc \in {"start", "header", "length", "body", "closed"}
      /\ net \in Seq(Bytes) /\ buf \in Seq(Bytes) /\ got \in Seq(Bytes)
      /\ first \in Bytes /\ lens \in Seq(Bytes) \ {<<>>}
      /\ pc = "header" => Len(got) < 2
      /\ pc = "body" => RemLen # Malformed /\ Len(got) < Want
      /\ sent \in Seq(Packets) /\ handled \in Seq(Packets)
  BY DEF TypeOK
<1>2. Base \in Nat /\ Base > 1 /\ 0 \in Bytes
  BY FramingAssumption DEF Bytes
<1>3. ASSUME NEW p \in Packets, Send(p) PROVE TypeOK'
  <2>1. net' \in Seq(Bytes)
    <3>1. Wire(p) \in Seq(Bytes) /\ net' = net \o Wire(p)
      BY <1>3, WireOf DEF Send
    <3> QED
      BY <1>1, <3>1
  <2>2. sent' \in Seq(Packets)
    BY <1>1, <1>3 DEF Send
  <2> QED
    BY <1>1, <1>3, <2>1, <2>2 DEF Send, TypeOK, RemLen, Want, peerVars, packetVars
<1>4. CASE HangUp \/ TakeOver
  BY <1>1, <1>4 DEF HangUp, TakeOver, TypeOK, RemLen, Want, peerVars, packetVars
<1>5. ASSUME NEW k \in 1..BufSize, Receive(k) PROVE TypeOK'
  <2>1. k \in 0..Len(net)
    BY <1>1, <1>5, FramingAssumption DEF Receive
  <2>2. buf' \in Seq(Bytes) /\ net' \in Seq(Bytes)
    BY <1>1, <1>5, <2>1, Moved DEF Receive
  <2> QED
    BY <1>1, <1>5, <2>2 DEF Receive, TypeOK, RemLen, Want, peerVars, packetVars
<1>6. CASE ReadFails \/ Leave
  BY <1>1, <1>6 DEF ReadFails, Leave, TypeOK, RemLen, Want, peerVars, packetVars
<1>7. CASE Start
  <2>1. got' = <<>> /\ Len(<<>>) = 0 /\ <<>> \in Seq(Bytes) /\ pc' = "header"
    BY <1>7 DEF Start
  <2>2. buf' \in Seq(Bytes) /\ lost' \in BOOLEAN
    <3>1. (buf' = <<>> /\ lost' = (lost \/ buf # <<>>)) \/ (buf' = buf /\ lost' = lost)
      BY <1>7 DEF Start
    <3> QED
      BY <1>1, <2>1, <3>1
  <2> QED
    BY <1>1, <1>7, <2>1, <2>2 DEF Start, TypeOK, RemLen, Want, peerVars, packetVars
<1>8. CASE ReadHeader
  <2>1. /\ got' \in Seq(Bytes) /\ buf' \in Seq(Bytes) /\ Len(got') <= 2 /\ Len(got') > Len(got)
        /\ Len(got) \in Nat /\ Len(got') \in Nat
    BY <1>1, <1>8, Taken DEF ReadHeader
  <2>2. CASE Len(got') = 2
    <3>1. got'[1] \in Bytes /\ <<got'[2]>> \in Seq(Bytes) \ {<<>>}
      BY <2>1, <2>2, TwoOf
    <3>2. first' = got'[1] /\ lens' = <<got'[2]>> /\ pc' = "length" /\ short' = short
      BY <1>8, <2>2 DEF ReadHeader, WantsHeader
    <3> QED
      BY <1>1, <1>8, <2>1, <3>1, <3>2 DEF ReadHeader, TypeOK, peerVars, packetVars
  <2>3. CASE Len(got') # 2 /\ ws
    <3>1. first' = first /\ lens' = lens /\ pc' = pc /\ short' = short /\ pc = "header"
      BY <1>8, <2>3 DEF ReadHeader
    <3>2. Len(got') < 2
      <4>1. \A m \in Nat : m <= 2 /\ m # 2 => m < 2
        OBVIOUS
      <4> QED
        BY <2>1, <2>3, <4>1
    <3> QED
      BY <1>1, <1>8, <2>1, <3>1, <3>2 DEF ReadHeader, TypeOK, peerVars, packetVars
  <2>4. CASE Len(got') # 2 /\ ~ws
    <3>1. got' \in Seq(Bytes) /\ Len(got') = 1 /\ got'[1] \in Bytes
      <4>1. Len(got') = 1
        <5>1. \A m, n \in Nat : m > n /\ m <= 2 /\ m # 2 => m = 1
          OBVIOUS
        <5> QED
          BY <2>1, <2>4, <5>1
      <4>2. 1 \in 1..Len(got')
        BY <4>1
      <4> QED
        BY <2>1, <4>1, <4>2, ElementOfSeq
    <3>2. Append(got', 0)[1] = got'[1]
      BY <3>1
    <3>3. Append(got', 0)[2] = 0
      <4>1. Append(got', 0)[Len(got') + 1] = 0
        BY <1>2, <3>1, OneMore
      <4> QED
        BY <3>1, <4>1
    <3>4. <<0>> \in Seq(Bytes) \ {<<>>}
      BY <1>2
    <3>5. /\ first' = Append(got', 0)[1] /\ lens' = <<Append(got', 0)[2]>>
          /\ pc' = "length" /\ short' = TRUE
      BY <1>8, <2>4 DEF ReadHeader, WantsHeader
    <3> QED
      BY <1>1, <1>8, <2>1, <3>1, <3>2, <3>3, <3>4, <3>5 DEF ReadHeader, TypeOK, peerVars, packetVars
  <2> QED
    BY <2>2, <2>3, <2>4
<1>9. CASE ReadLength
  <2>1. buf # <<>>
    BY <1>9 DEF ReadLength
  <2>2. Head(buf) \in Bytes /\ Tail(buf) \in Seq(Bytes)
    BY <1>1, <2>1
  <2>3. lens' \in Seq(Bytes) \ {<<>>} /\ buf' \in Seq(Bytes)
    <3>1. lens' = Append(lens, Head(buf)) /\ buf' = Tail(buf)
      BY <1>9 DEF ReadLength
    <3> QED
      BY <1>1, <2>2, <3>1, OneMore
  <2> QED
    BY <1>1, <1>9, <2>3 DEF ReadLength, TypeOK, peerVars, packetVars
<1>10. CASE Break
  BY <1>1, <1>10 DEF Break, TypeOK, RemLen, Want, peerVars, packetVars
<1>11. CASE HandlePing
  <2>1. [first |-> first, body |-> <<>>] \in Packets
    BY <1>1, <1>11, FramingAssumption DEF HandlePing
  <2>2. handled' \in Seq(Packets)
    BY <1>1, <1>11, <2>1 DEF HandlePing
  <2> QED
    BY <1>1, <1>11, <2>2 DEF HandlePing, TypeOK, RemLen, Want, peerVars, packetVars
<1>12. CASE StartBody
  <2>1. got' = <<>> /\ Len(<<>>) = 0 /\ <<>> \in Seq(Bytes) /\ pc' = "body"
    BY <1>12 DEF StartBody
  <2>2. RemLen # Malformed /\ Want > 0
    <3>1. RemLen \in Nat \cup {Malformed} /\ Malformed = -1
      BY WantType DEF Malformed
    <3> QED
      BY <1>12, <3>1, FramingAssumption DEF StartBody, Want
  <2>3. RemLen' = RemLen /\ Want' = Want
    BY <1>12 DEF StartBody, RemLen, Want, peerVars
  <2> QED
    BY <1>1, <1>12, <2>1, <2>2, <2>3 DEF StartBody, TypeOK, peerVars, packetVars
<1>13. CASE ReadBody
  <2>1. RemLen # Malformed /\ Want \in Nat /\ Len(got) < Want
    BY <1>1, <1>13, WantType DEF ReadBody
  <2>2. got' \in Seq(Bytes) /\ buf' \in Seq(Bytes) /\ Len(got') <= Want /\ Len(got') \in Nat
    BY <1>1, <1>13, <2>1, Taken DEF ReadBody
  <2>3. RemLen' = RemLen /\ Want' = Want
    BY <1>13 DEF ReadBody, RemLen, Want, peerVars
  <2>4. CASE ~Full
    <3>1. pc' = pc /\ handled' = handled
      BY <1>13, <2>4 DEF ReadBody
    <3>2. Len(got') < Want
      BY <2>1, <2>2, <2>4 DEF Full
    <3> QED
      BY <1>1, <1>13, <2>1, <2>2, <2>3, <3>1, <3>2 DEF ReadBody, TypeOK, peerVars
  <2>5. CASE Full
    <3> DEFINE p == [first |-> first, body |-> got']
    <3>1. \/ p \in Packets /\ pc' = "start" /\ handled' = Append(handled, p)
          \/ pc' = "closed" /\ handled' = handled
      BY <1>13, <2>5 DEF ReadBody
    <3> HIDE DEF p
    <3>2. handled' \in Seq(Packets)
      <4>1. p \in Packets => Append(handled, p) \in Seq(Packets)
        BY <1>1
      <4> QED
        BY <1>1, <3>1, <4>1
    <3> QED
      BY <1>1, <1>13, <2>1, <2>2, <2>3, <3>1, <3>2 DEF ReadBody, TypeOK, peerVars
  <2> QED
    BY <2>4, <2>5
<1>14. CASE UNCHANGED vars
  BY <1>1, <1>14 DEF vars, peerVars, packetVars, TypeOK, RemLen, Want
<1> QED
  BY <1>3, <1>4, <1>5, <1>6, <1>7, <1>8, <1>9, <1>10, <1>11, <1>12, <1>13, <1>14 DEF Next, Listen

----------------------------------------------------------------------------
\* The bytes of the packets, and what listen has seen of them.

\* S[i] is what the client sends from its i-th packet on.
Stream(S) ==
    /\ S \in [1..(Len(sent) + 1) -> Seq(Bytes)] /\ S[Len(sent) + 1] = <<>>
    /\ \A i \in 1..Len(sent) : S[i] = Wire(sent[i]) \o S[i + 1]

\* What listen has taken of the present packet, and the packet it belongs to.
Seen == CASE pc = "header" -> got
          [] pc = "length" -> <<first>> \o lens
          [] pc = "body"   -> (<<first>> \o lens) \o got
          [] OTHER         -> <<>>

Present == sent[Len(handled) + 1]

\* listen is at a place of the stream: it has handled the packets before that
\* place, what it has seen and what is to come is the rest, and it knows no
\* more of the present packet than its bytes say.
At(S) ==
    /\ Len(handled) <= Len(sent) /\ \A i \in 1..Len(handled) : handled[i] = sent[i]
    /\ pc # "closed" => Seen \o (buf \o net) = S[Len(handled) + 1]
    /\ pc \in {"length", "body"} => Len(handled) < Len(sent)
    /\ pc = "length" => Len(lens) <= Len(LengthField(Present))
    /\ pc = "body" => Len(lens) = Len(LengthField(Present)) /\ Want = Len(Present.body)

\* A connection that is not disturbed is at a place of its stream.
StreamInv == ~Disturbed => \E S : Stream(S) /\ At(S)

\* The rest of the stream after n packets.
LEMMA RestOf ==
    ASSUME TypeOK, NEW S, Stream(S), NEW n \in Nat, n <= Len(sent)
    PROVE  /\ S[n + 1] \in Seq(Bytes)
           /\ n = Len(sent) => S[n + 1] = <<>>
           /\ n < Len(sent) => /\ sent[n + 1] \in Packets /\ S[n + 2] \in Seq(Bytes)
                               /\ S[n + 1] = Wire(sent[n + 1]) \o S[n + 2]
<1>1. Len(sent) \in Nat /\ sent \in Seq(Packets)
  BY DEF TypeOK
<1>2. n + 1 \in 1..(Len(sent) + 1)
  BY <1>1
<1>3. S[n + 1] \in Seq(Bytes)
  BY <1>2 DEF Stream
<1>4. ASSUME n < Len(sent)
      PROVE  /\ sent[n + 1] \in Packets /\ S[n + 2] \in Seq(Bytes)
             /\ S[n + 1] = Wire(sent[n + 1]) \o S[n + 2]
  <2>1. n + 1 \in 1..Len(sent) /\ n + 2 \in 1..(Len(sent) + 1) /\ (n + 1) + 1 = n + 2
    BY <1>1, <1>4
  <2>2. sent[n + 1] \in Packets
    BY <1>1, <2>1, ElementOfSeq
  <2> QED
    BY <2>1, <2>2 DEF Stream
<1> QED
  BY <1>3, <1>4 DEF Stream

\* The types of what has been seen.
LEMMA SeenType ==
    ASSUME TypeOK
    PROVE  /\ <<first>> \o lens \in Seq(Bytes) /\ Len(<<first>> \o lens) = Len(lens) + 1
           /\ (<<first>> \o lens)[1] = first
           /\ \A i \in 1..Len(lens) : (<<first>> \o lens)[i + 1] = lens[i]
           /\ Seen \in Seq(Bytes) /\ buf \o net \in Seq(Bytes) /\ Len(lens) \in Nat \ {0}
           /\ Len(handled) \in Nat /\ Len(sent) \in Nat
<1> DEFINE f == <<first>>
<1>1. first \in Bytes /\ lens \in Seq(Bytes) /\ lens # <<>> /\ got \in Seq(Bytes)
      /\ buf \in Seq(Bytes) /\ net \in Seq(Bytes)
  BY DEF TypeOK
<1>2. f \in Seq(Bytes) /\ Len(f) = 1 /\ f[1] = first
  BY <1>1
<1>3. Len(lens) \in Nat \ {0}
  BY <1>1, EmptySeq
<1>4. /\ f \o lens \in Seq(Bytes) /\ Len(f \o lens) = Len(f) + Len(lens)
      /\ \A i \in 1..(Len(f) + Len(lens)) : (f \o lens)[i] = IF i <= Len(f) THEN f[i] ELSE lens[i - Len(f)]
  <2> HIDE DEF f
  <2> QED
    BY <1>1, <1>2, ConcatProperties
<1> HIDE DEF f
<1>5. Len(f \o lens) = Len(lens) + 1 /\ (f \o lens)[1] = first
  BY <1>2, <1>3, <1>4
<1>6. ASSUME NEW i \in 1..Len(lens) PROVE (f \o lens)[i + 1] = lens[i]
  <2>1. i + 1 \in 1..(1 + Len(lens)) /\ ~(i + 1 <= 1) /\ (i + 1) - 1 = i
    BY <1>3
  <2> QED
    BY <1>2, <1>4, <2>1
<1>7. (f \o lens) \o got \in Seq(Bytes) /\ buf \o net \in Seq(Bytes) /\ <<>> \in Seq(Bytes)
  BY <1>1, <1>4
<1>8. Seen \in Seq(Bytes)
  BY <1>1, <1>4, <1>7 DEF Seen, f
<1>9. Len(handled) \in Nat /\ Len(sent) \in Nat
  BY DEF TypeOK
<1> QED
  BY <1>3, <1>4, <1>5, <1>6, <1>7, <1>8, <1>9 DEF f

\* What has been seen of a packet are its first bytes.
LEMMA SeenOf ==
    ASSUME TypeOK, NEW S, Stream(S), At(S), pc \in {"length", "body"}
    PROVE  LET e == LengthField(Present)
           IN  /\ Present \in Packets /\ first = Present.first
               /\ \A i \in 1..Len(lens) : lens[i] = e[i]
               /\ Len(lens) <= Len(e) /\ e \in Seq(Bytes) /\ Len(e) \in 1..4
               /\ Seen \o (buf \o net) = Wire(Present) \o S[Len(handled) + 2]
               /\ S[Len(handled) + 2] \in Seq(Bytes)
<1> DEFINE e == LengthField(Present)
           h == <<first>> \o lens
           w == Wire(Present)
           r == S[Len(handled) + 2]
<1>1. Len(handled) < Len(sent) /\ pc # "closed" /\ Len(handled) \in Nat
  BY SeenType DEF At
<1>2. Present \in Packets /\ r \in Seq(Bytes) /\ Seen \o (buf \o net) = w \o r
  <2>1. Len(handled) <= Len(sent)
    BY DEF At
  <2>2. Seen \o (buf \o net) = S[Len(handled) + 1]
    BY <1>1 DEF At
  <2>3. /\ sent[Len(handled) + 1] \in Packets /\ S[Len(handled) + 2] \in Seq(Bytes)
        /\ S[Len(handled) + 1] = Wire(sent[Len(handled) + 1]) \o S[Len(handled) + 2]
    BY <1>1, <2>1, RestOf
  <2> QED
    BY <2>2, <2>3 DEF Present
<1>3. /\ h \in Seq(Bytes) /\ Len(h) = Len(lens) + 1 /\ h[1] = first
      /\ \A i \in 1..Len(lens) : h[i + 1] = lens[i]
      /\ Len(lens) \in Nat \ {0} /\ buf \o net \in Seq(Bytes)
  BY SeenType
<1>4. e \in Seq(Bytes) /\ Len(e) \in 1..4
  BY <1>2, FieldOf
<1>5. /\ w \in Seq(Bytes) /\ Len(w) = 1 + Len(e) + Len(Present.body) /\ w[1] = Present.first
      /\ \A i \in 1..Len(e) : w[i + 1] = e[i]
      /\ Len(Present.body) \in Nat
  <2>1. Present.body \in Seq(Bytes) /\ w \in Seq(Bytes)
    BY <1>2, WireOf
  <2>2. Len(Present.body) \in Nat
    BY <2>1
  <2>3. Len(w) = 1 + Len(e) + Len(Present.body) /\ w[1] = Present.first
    BY <1>2, WireOf
  <2>4. \A i \in 1..Len(e) : w[i + 1] = e[i]
    BY <1>2, WireOf
  <2> QED
    BY <2>1, <2>2, <2>3, <2>4
<1>6. Len(lens) <= Len(e)
  BY <1>3, <1>4 DEF At
<1>7. PICK x \in Seq(Bytes) : Seen \o (buf \o net) = h \o x
  <2>1. CASE pc = "length"
    <3>1. Seen = h
      BY <2>1 DEF Seen
    <3> QED
      BY <1>3, <3>1
  <2>2. CASE pc = "body"
    <3>1. Seen = h \o got
      BY <2>2 DEF Seen
    <3>2. got \in Seq(Bytes)
      BY DEF TypeOK
    <3> HIDE DEF h
    <3>3. h \in Seq(Bytes) /\ buf \o net \in Seq(Bytes)
      BY <1>3
    <3>4. (h \o got) \o (buf \o net) = h \o (got \o (buf \o net))
      BY <3>2, <3>3, Assoc
    <3>5. got \o (buf \o net) \in Seq(Bytes)
      BY <3>2, <3>3, ConcatProperties
    <3> QED
      BY <3>1, <3>4, <3>5
  <2> QED
    BY <2>1, <2>2
<1> HIDE DEF e, h, w, r
<1>8. \A i \in 1..Len(h) : i <= Len(w) => h[i] = w[i]
  <2>1. h \o x = w \o r
    BY <1>2, <1>7
  <2>2. h \in Seq(Bytes) /\ w \in Seq(Bytes) /\ r \in Seq(Bytes) /\ x \in Seq(Bytes)
    BY <1>2, <1>3, <1>5
  <2> QED
    BY <2>1, <2>2, Aligned
<1>9. \A l, m, n, o, b \in Nat : l <= m /\ n = l + 1 /\ o = 1 + m + b =>
         /\ 1 \in 1..n /\ 1 <= o
         /\ \A i \in 1..l : i + 1 \in 1..n /\ i + 1 <= o /\ i \in 1..m
  OBVIOUS
<1>10. /\ 1 \in 1..Len(h) /\ 1 <= Len(w)
       /\ \A i \in 1..Len(lens) : i + 1 \in 1..Len(h) /\ i + 1 <= Len(w) /\ i \in 1..Len(e)
  <2>1. Len(lens) \in Nat /\ Len(e) \in Nat /\ Len(h) \in Nat /\ Len(w) \in Nat /\ Len(Present.body) \in Nat
    <3>1. Len(lens) \in Nat
      BY <1>3
    <3>2. Len(e) \in Nat
      BY <1>4
    <3>3. h \in Seq(Bytes) /\ w \in Seq(Bytes)
      BY <1>3, <1>5
    <3>4. Len(h) \in Nat /\ Len(w) \in Nat
      BY <3>3
    <3> QED
      BY <1>5, <3>1, <3>2, <3>4
  <2>2. Len(h) = Len(lens) + 1 /\ Len(w) = 1 + Len(e) + Len(Present.body)
    BY <1>3, <1>5
  <2> QED
    BY <1>6, <1>9, <2>1, <2>2
<1>11. first = Present.first
  BY <1>3, <1>5, <1>8, <1>10
<1>12. ASSUME NEW i \in 1..Len(lens) PROVE lens[i] = e[i]
  <2>1. h[i + 1] = w[i + 1] /\ h[i + 1] = lens[i] /\ i \in 1..Len(e)
    BY <1>3, <1>8, <1>10
  <2> QED
    BY <1>5, <2>1
<1> QED
  BY <1>2, <1>4, <1>6, <1>11, <1>12 DEF e, w, r

\* When no length byte follows, all of them have been seen.
LEMMA HeaderOf ==
    ASSUME TypeOK, NEW S, Stream(S), At(S), Header
    PROVE  /\ Present \in Packets /\ first = Present.first /\ lens = LengthField(Present)
           /\ RemLen = IF Len(Present.body) < Power[4] THEN Len(Present.body) ELSE Malformed
<1> DEFINE e == LengthField(Present)
<1>1. /\ Present \in Packets /\ first = Present.first
      /\ \A i \in 1..Len(lens) : lens[i] = e[i]
      /\ Len(lens) <= Len(e) /\ e \in Seq(Bytes) /\ Len(e) \in 1..4
  BY SeenOf DEF Header
<1>2. /\ \A i \in 1..(Len(e) - 1) : e[i] >= Base
      /\ Decode(e) = IF Len(Present.body) < Power[4] THEN Len(Present.body) ELSE Malformed
  BY <1>1, FieldOf
<1>3. lens \in Seq(Bytes)
      /\ Len(lens) \in Nat \ {0} /\ Base \in Nat
  BY SeenType, FramingAssumption DEF TypeOK
<1> HIDE DEF e
<1>4. lens[Len(lens)] < Base
  <2>1. Len(lens) \in 1..Len(lens)
    BY <1>3
  <2>2. lens[Len(lens)] \in Bytes
    BY <1>3, <2>1, ElementOfSeq
  <2> QED
    BY <1>3, <2>2 DEF Header, Continues, Last, Bytes
<1>5. Len(lens) = Len(e)
  <2>1. SUFFICES ASSUME Len(lens) < Len(e) PROVE FALSE
    BY <1>1, <1>3
  <2>2. Len(lens) \in 1..(Len(e) - 1) /\ Len(lens) \in 1..Len(lens)
    BY <1>1, <1>3, <2>1
  <2>3. e[Len(lens)] >= Base /\ e[Len(lens)] = lens[Len(lens)]
    BY <1>1, <1>2, <2>2
  <2>4. e[Len(lens)] \in Nat
    <3>1. Len(lens) \in 1..Len(e)
      BY <1>1, <2>2
    <3>2. e[Len(lens)] \in Bytes
      BY <1>1, <3>1, ElementOfSeq
    <3> QED
      BY <1>3, <3>2 DEF Bytes
  <2> QED
    BY <1>3, <1>4, <2>3, <2>4
<1>6. lens = e
  BY <1>1, <1>3, <1>5, SeqEqual
<1> QED
  BY <1>1, <1>2, <1>6 DEF e, RemLen

----------------------------------------------------------------------------
\* The place in the stream after each step.

\* What the client has not yet sent does not matter: listen and the network.
LEMMA SameStream ==
    ASSUME NEW S, Stream(S), sent' = sent
    PROVE  Stream(S)'
  BY DEF Stream

\* The network brings a segment.
LEMMA AtReceive ==
    ASSUME TypeOK, NEW S, At(S), NEW k \in 1..BufSize, Receive(k)
    PROVE  At(S)'
<1>1. net \in Seq(Bytes) /\ k \in 0..Len(net) /\ buf = <<>> /\ <<>> \in Seq(Bytes)
  BY FramingAssumption DEF TypeOK, Receive
<1>2. buf' = SubSeq(net, 1, k) /\ net' = SubSeq(net, k + 1, Len(net))
  BY DEF Receive
<1>3. buf' \in Seq(Bytes) /\ net' \in Seq(Bytes) /\ buf' \o net' = net
  <2>1. buf' \in Seq(Bytes) /\ net' \in Seq(Bytes)
    BY <1>1, <1>2, Moved
  <2>2. Len(net) \in Nat
    BY <1>1
  <2>3. 1 \in 1..(Len(net) + 1) /\ k \in (1 - 1)..Len(net) /\ Len(net) \in k..Len(net)
    BY <1>1, <2>2
  <2>4. buf' \o net' = SubSeq(net, 1, Len(net))
    BY <1>1, <1>2, <2>3, ConcatAdjacentSubSeq
  <2>5. SubSeq(net, 1, Len(net)) = net
    BY <1>1, SubSeqFull
  <2> QED
    BY <2>1, <2>4, <2>5
<1>4. buf \o net = net
  BY <1>1, ConcatEmptySeq
<1>5. UNCHANGED <<sent, handled, pc, got, first, lens>>
  BY DEF Receive, peerVars, packetVars
<1>6. Seen' = Seen
  BY <1>5 DEF Seen
<1> QED
  BY <1>3, <1>4, <1>5, <1>6 DEF At, Present, Want, RemLen

\* The client hangs up, or another connection takes over.
LEMMA AtHangUp ==
    ASSUME NEW S, At(S), HangUp \/ TakeOver \/ UNCHANGED vars
    PROVE  At(S)'
<1>1. UNCHANGED <<sent, handled, pc, got, first, lens, buf, net>>
  BY DEF HangUp, TakeOver, vars, peerVars, packetVars
<1> QED
  BY <1>1 DEF At, Seen, Present, Want, RemLen

\* The next turn of the loop: nothing is dropped.
LEMMA AtStart ==
    ASSUME NEW S, At(S), Start, ~Disturbed'
    PROVE  At(S)'
<1>1. UNCHANGED <<sent, handled, net>> /\ pc = "start" /\ pc' = "header" /\ got' = <<>>
  BY DEF Start, peerVars
<1>2. buf' = buf
  BY DEF Start, Disturbed
<1>3. Seen' = Seen
  BY <1>1 DEF Seen
<1> QED
  BY <1>1, <1>2, <1>3 DEF At

\* Of the bytes a read takes none is lost.
LEMMA TakenInOrder ==
    ASSUME TypeOK, NEW n \in Nat, Len(got) < n, Take(n), net' = net
    PROVE  /\ got' \in Seq(Bytes) /\ Len(got') \in Nat /\ Len(got') <= n /\ Len(got') > 0
           /\ buf' \o net' \in Seq(Bytes)
           /\ got' \o (buf' \o net') = got \o (buf \o net)
<1>1. /\ got' \in Seq(Bytes) /\ buf' \in Seq(Bytes)
      /\ Len(got') <= n /\ Len(got') > Len(got)
  BY Taken
<1>2. PICK k \in 0..Len(buf) : got' = got \o SubSeq(buf, 1, k) /\ buf' = SubSeq(buf, k + 1, Len(buf))
  BY Taken
<1>3. got \in Seq(Bytes) /\ buf \in Seq(Bytes) /\ net \in Seq(Bytes)
  BY DEF TypeOK
<1>4. got' \o (buf' \o net') = got \o (buf \o net)
  <2>1. got \in Seq(Bytes) /\ buf \in Seq(Bytes) /\ net \in Seq(Bytes) /\ k \in 0..Len(buf)
    BY <1>3
  <2>2. (got \o SubSeq(buf, 1, k)) \o (SubSeq(buf, k + 1, Len(buf)) \o net) = got \o (buf \o net)
    BY <2>1, Moved, SMTT(30), ZenonT(30)
  <2> QED
    BY <1>2, <2>2
<1>5. buf' \o net' \in Seq(Bytes)
  BY <1>1, <1>3
<1>6. Len(got') \in Nat /\ Len(got) \in Nat
  BY <1>1, <1>3
<1>7. Len(got') > 0
  <2>1. \A l, m \in Nat : l > m => l > 0
    OBVIOUS
  <2> QED
    BY <1>1, <1>6, <2>1
<1> QED
  BY <1>1, <1>4, <1>5, <1>6, <1>7

\* A byte that has been seen belongs to a packet.
LEMMA SomethingSeen ==
    ASSUME TypeOK, NEW S, Stream(S), Len(handled) <= Len(sent),
           NEW a \in Seq(Bytes), NEW b \in Seq(Bytes), Len(a) > 0, a \o b = S[Len(handled) + 1]
    PROVE  Len(handled) < Len(sent) /\ Present \in Packets
<1>1. Len(handled) \in Nat /\ Len(sent) \in Nat
  BY DEF TypeOK
<1>2. a \o b # <<>>
  <2>1. a # <<>>
    <3>1. Len(<<>>) = 0
      OBVIOUS
    <3> QED
      BY <3>1
  <2> QED
    BY <2>1, ConcatEqualIffEmpty
<1>3. Len(handled) # Len(sent)
  BY <1>1, <1>2, RestOf
<1>4. Len(handled) < Len(sent)
  BY <1>1, <1>3
<1> QED
  BY <1>1, <1>4, RestOf DEF Present

\* The header is read.
LEMMA AtReadHeader ==
    ASSUME TypeOK, NEW S, Stream(S), At(S), ReadHeader, ~Disturbed'
    PROVE  At(S)'
<1>1. pc = "header" /\ Take(2) /\ UNCHANGED <<sent, handled, net>>
  BY DEF ReadHeader, peerVars
<1>2. Len(got) < 2
  BY <1>1 DEF TypeOK
<1>3. /\ got' \in Seq(Bytes) /\ Len(got') \in Nat /\ Len(got') > 0
      /\ buf' \o net' \in Seq(Bytes) /\ got' \o (buf' \o net') = got \o (buf \o net)
  BY <1>1, <1>2, TakenInOrder
<1>4. got' \o (buf' \o net') = S[Len(handled) + 1] /\ Len(handled) <= Len(sent)
  <2>1. Seen = got
    BY <1>1 DEF Seen
  <2> QED
    BY <1>1, <1>3, <2>1 DEF At
<1>5. CASE Len(got') = 2
  <2>1. first' = got'[1] /\ lens' = <<got'[2]>> /\ pc' = "length"
    BY <1>5 DEF ReadHeader, WantsHeader
  <2>2. Seen' = got'
    <3>1. got' = <<got'[1]>> \o <<got'[2]>>
      BY <1>3, <1>5, TwoOf
    <3> QED
      BY <2>1, <3>1 DEF Seen
  <2>3. Len(handled) < Len(sent) /\ Present \in Packets
    BY <1>3, <1>4, SomethingSeen
  <2>4. Len(lens') <= Len(LengthField(Present))
    <3>1. Len(lens') = 1
      BY <2>1
    <3>2. Len(LengthField(Present)) \in 1..4
      BY <2>3, FieldOf
    <3> QED
      BY <3>1, <3>2
  <2>5. Present' = Present
    BY <1>1 DEF Present
  <2> QED
    BY <1>1, <1>4, <2>1, <2>2, <2>3, <2>4, <2>5 DEF At
<1>6. CASE Len(got') # 2
  <2>1. pc' = pc
    BY <1>6 DEF ReadHeader, Disturbed
  <2>2. Seen' = got'
    BY <1>1, <2>1 DEF Seen
  <2> QED
    BY <1>1, <1>4, <2>1, <2>2 DEF At
<1> QED
  BY <1>5, <1>6

\* Another length byte is read.
LEMMA AtReadLength ==
    ASSUME TypeOK, NEW S, Stream(S), At(S), ReadLength
    PROVE  At(S)'
<1> DEFINE e == LengthField(Present)
           h == <<first>> \o lens
           b == Head(buf)
<1>1. /\ pc = "length" /\ pc' = "length" /\ Continues /\ buf # <<>>
      /\ lens' = Append(lens, b) /\ buf' = Tail(buf) /\ UNCHANGED <<sent, handled, net, first>>
  BY DEF ReadLength, peerVars
<1>2. buf \in Seq(Bytes) /\ net \in Seq(Bytes) /\ lens \in Seq(Bytes)
      /\ Len(lens) \in Nat \ {0} /\ Base \in Nat
  BY SeenType, FramingAssumption DEF TypeOK
<1>3. b \in Bytes /\ Tail(buf) \in Seq(Bytes) /\ buf = <<b>> \o Tail(buf) /\ <<b>> \in Seq(Bytes)
  <2>1. b \in Bytes /\ Tail(buf) \in Seq(Bytes)
    BY <1>1, <1>2, HeadTailProperties
  <2>2. buf = <<b>> \o Tail(buf)
    <3>1. \A s \in Seq(Bytes) : s # <<>> => s = <<Head(s)>> \o Tail(s)
      OBVIOUS
    <3> QED
      BY <1>1, <1>2, <3>1
  <2> QED
    BY <2>1, <2>2
<1>4. h \in Seq(Bytes) /\ <<first>> \in Seq(Bytes)
  BY SeenType DEF TypeOK
<1> HIDE DEF b
<1>5. lens' = lens \o <<b>> /\ Len(lens') = Len(lens) + 1
  BY <1>1, <1>2, <1>3, OneMore
<1>6. Seen' = h \o <<b>>
  <2>1. Seen' = <<first>> \o (lens \o <<b>>)
    BY <1>1, <1>5 DEF Seen
  <2> QED
    BY <1>2, <1>3, <1>4, <2>1, Assoc
<1>7. Seen' \o (buf' \o net') = Seen \o (buf \o net)
  <2>1. Seen = h
    BY <1>1 DEF Seen
  <2> HIDE DEF h
  <2>2. Tail(buf) \o net \in Seq(Bytes)
    BY <1>2, <1>3
  <2>3. (h \o <<b>>) \o (Tail(buf) \o net) = h \o (<<b>> \o (Tail(buf) \o net))
    <3>1. h \in Seq(Bytes) /\ <<b>> \in Seq(Bytes)
      BY <1>3, <1>4
    <3> QED
      BY <2>2, <3>1, Assoc, SMTT(30), ZenonT(30)
  <2>4. (<<b>> \o Tail(buf)) \o net = <<b>> \o (Tail(buf) \o net)
    <3>1. <<b>> \in Seq(Bytes) /\ Tail(buf) \in Seq(Bytes) /\ net \in Seq(Bytes)
      BY <1>2, <1>3
    <3> QED
      BY <3>1, Assoc
  <2> QED
    BY <1>1, <1>3, <1>6, <2>1, <2>3, <2>4
<1>8. Len(lens') <= Len(e)
  <2>1. /\ Present \in Packets /\ \A i \in 1..Len(lens) : lens[i] = e[i]
        /\ Len(lens) <= Len(e) /\ e \in Seq(Bytes) /\ Len(e) \in 1..4
    BY <1>1, SeenOf
  <2>2. e[Len(e)] < Base
    BY <2>1, FieldOf
  <2> HIDE DEF e
  <2>3. lens[Len(lens)] >= Base /\ Len(lens) \in 1..Len(lens)
    BY <1>1, <1>2 DEF Continues, Last
  <2>4. e[Len(e)] \in Nat
    <3>1. Len(e) \in 1..Len(e)
      <4>1. \A m \in 1..4 : m \in 1..m
        OBVIOUS
      <4> QED
        BY <2>1, <4>1
    <3>2. e[Len(e)] \in Bytes
      BY <2>1, <3>1, ElementOfSeq
    <3> QED
      BY <1>2, <3>2 DEF Bytes
  <2>5. Len(lens) # Len(e)
    <3>1. lens[Len(lens)] = e[Len(lens)]
      BY <2>1, <2>3
    <3> QED
      BY <1>2, <2>2, <2>3, <2>4, <3>1
  <2>6. \A l, m \in Nat : l <= m /\ l # m => l + 1 <= m
    OBVIOUS
  <2>7. Len(e) \in Nat
    BY <2>1
  <2> QED
    BY <1>2, <1>5, <2>1, <2>5, <2>6, <2>7
<1>9. Present' = Present
  BY <1>1 DEF Present
<1> QED
  BY <1>1, <1>7, <1>8, <1>9 DEF At

\* The connection is given up for what is in the header.
LEMMA AtBreak ==
    ASSUME TypeOK, NEW S, Stream(S), At(S), Break
    PROVE  At(S)' /\ Len(handled) < Len(sent) /\ Len(Present.body) >= Power[4]
<1>1. pc' = "closed" /\ UNCHANGED <<sent, handled>> /\ Header
  BY DEF Break, peerVars
<1>2. /\ Present \in Packets /\ first = Present.first
      /\ RemLen = IF Len(Present.body) < Power[4] THEN Len(Present.body) ELSE Malformed
  BY <1>1, HeaderOf
<1>3. Len(handled) < Len(sent)
  BY <1>1 DEF At, Header
<1>4. Len(Present.body) \in Nat /\ Power[4] \in Nat
  <2>1. Present.body \in Seq(Bytes)
    BY <1>2, WireOf
  <2> QED
    BY <2>1, Powers
<1>5. Len(Present.body) >= Power[4]
  <2>1. SUFFICES ASSUME RemLen = Len(Present.body) PROVE FALSE
    BY <1>2, <1>4
  <2>2. /\ TypeOf[first] = "ack" => RemLen = AckRemLen
        /\ TypeOf[first] = "body" => RemLen >= MinRemLen
        /\ TypeOf[first] # "none"
    BY <1>2, <2>1, FramingAssumption
  <2>3. RemLen # Malformed
    BY <1>4, <2>1 DEF Malformed
  <2> QED
    BY <1>4, <2>1, <2>2, <2>3, FramingAssumption DEF Break
<1>6. At(S)'
  BY <1>1 DEF At
<1> QED
  BY <1>3, <1>5, <1>6

\* A packet is handled: the place is the start of the next one.
LEMMA AtNext ==
    ASSUME TypeOK, NEW S, Stream(S), At(S), Len(handled) < Len(sent), Present \in Packets,
           handled' = Append(handled, Present), sent' = sent, pc' = "start",
           NEW a \in Seq(Bytes), NEW b \in Seq(Bytes), a \o b = Wire(Present) \o S[Len(handled) + 2],
           Len(a) = Len(Wire(Present)), buf' \o net' = b
    PROVE  At(S)' /\ a = Wire(Present)
<1>1. Len(handled) \in Nat /\ Len(sent) \in Nat /\ handled \in Seq(Packets) /\ Len(handled) <= Len(sent)
  BY DEF TypeOK, At
<1>2. S[Len(handled) + 2] \in Seq(Bytes)
  BY <1>1, RestOf
<1>3. a = Wire(Present) /\ b = S[Len(handled) + 2]
  <2>1. Wire(Present) \in Seq(Bytes)
    BY WireOf
  <2>2. \A x, y \in Seq(Bytes) : a \o x = Wire(Present) \o y => a = Wire(Present) /\ x = y
    BY <2>1, Cancelled
  <2> QED
    BY <1>2, <2>2
<1>4. Len(handled') = Len(handled) + 1
  BY <1>1
<1>5. Len(handled') + 1 = Len(handled) + 2 /\ Len(handled') <= Len(sent)
  BY <1>1, <1>4
<1>6. ASSUME NEW i \in 1..Len(handled') PROVE handled'[i] = sent[i]
  <2>1. CASE i = Len(handled) + 1
    BY <1>1, <2>1 DEF Present
  <2>2. CASE i # Len(handled) + 1
    <3>1. i \in 1..Len(handled)
      BY <1>1, <1>4, <2>2
    <3>2. handled'[i] = handled[i]
      BY <1>1, <3>1
    <3> QED
      BY <3>1, <3>2 DEF At
  <2> QED
    BY <2>1, <2>2
<1>7. Seen' = <<>>
  BY DEF Seen
<1>8. Seen' \o (buf' \o net') = S[Len(handled') + 1]
  <2>1. <<>> \o b = b
    BY ConcatEmptySeq
  <2> QED
    BY <1>3, <1>5, <1>7, <2>1
<1> QED
  BY <1>3, <1>5, <1>6, <1>8 DEF At

\* A ping is handled.
LEMMA AtPing ==
    ASSUME TypeOK, NEW S, Stream(S), At(S), HandlePing
    PROVE  At(S)'
<1> DEFINE p == Present
           h == <<first>> \o lens
<1>1. /\ pc = "length" /\ pc' = "start" /\ Header /\ RemLen # Malformed /\ TypeOf[first] = "ping"
      /\ handled' = Append(handled, [first |-> first, body |-> <<>>]) /\ UNCHANGED <<sent, buf, net>>
  BY DEF HandlePing, Header, peerVars
<1>2. p \in Packets /\ first = p.first /\ lens = LengthField(p)
  BY <1>1, HeaderOf
<1>3. p.body = <<>>
  BY <1>1, <1>2, FramingAssumption
<1>4. p = [first |-> first, body |-> <<>>]
  <2>1. p \in [first : Bytes, body : Seq(Bytes)]
    BY <1>2, FramingAssumption
  <2>2. p = [first |-> p.first, body |-> p.body]
    BY <2>1
  <2> QED
    BY <1>2, <1>3, <2>2
<1>5. /\ Seen \o (buf \o net) = Wire(p) \o S[Len(handled) + 2] /\ Len(handled) < Len(sent)
  BY <1>1, SeenOf DEF At
<1>6. Seen = h /\ h \in Seq(Bytes) /\ buf \o net \in Seq(Bytes) /\ Len(h) = Len(lens) + 1 /\ Len(lens) \in Nat
  <2>1. Seen = h
    BY <1>1 DEF Seen
  <2> QED
    BY <2>1, SeenType
<1>7. Len(h) = Len(Wire(p))
  <2>1. Len(Wire(p)) = 1 + Len(LengthField(p)) + Len(p.body)
    BY <1>2, WireOf
  <2>2. Len(<<>>) = 0
    OBVIOUS
  <2> QED
    BY <1>2, <1>3, <1>6, <2>1, <2>2
<1> HIDE DEF h
<1>8. handled' = Append(handled, Present)
  BY <1>1, <1>4
<1>9. buf' \o net' = buf \o net /\ sent' = sent /\ pc' = "start"
  BY <1>1
<1> QED
  BY <1>2, <1>5, <1>6, <1>7, <1>8, <1>9, AtNext

\* A body begins.
LEMMA AtStartBody ==
    ASSUME TypeOK, NEW S, Stream(S), At(S), StartBody
    PROVE  At(S)'
<1>1. /\ pc = "length" /\ pc' = "body" /\ got' = <<>> /\ Header
      /\ UNCHANGED <<sent, handled, buf, net, first, lens>>
  BY DEF StartBody, Header, peerVars
<1>2. /\ Present \in Packets /\ first = Present.first /\ lens = LengthField(Present)
      /\ RemLen = IF Len(Present.body) < Power[4] THEN Len(Present.body) ELSE Malformed
  BY <1>1, HeaderOf
<1>3. RemLen # Malformed
  BY FramingAssumption DEF StartBody, Malformed
<1>4. Want = Len(Present.body)
  <2>1. RemLen = Len(Present.body)
    BY <1>2, <1>3
  <2> QED
    BY <1>2, <2>1, FramingAssumption DEF Want
<1>5. Seen' = Seen
  <2>1. <<first>> \o lens \in Seq(Bytes)
    BY SeenType
  <2>2. (<<first>> \o lens) \o <<>> = <<first>> \o lens
    BY <2>1, ConcatEmptySeq
  <2>3. Seen = <<first>> \o lens
    BY <1>1 DEF Seen
  <2> QED
    BY <1>1, <2>2, <2>3 DEF Seen
<1>6. Present' = Present /\ Want' = Want
  BY <1>1 DEF Present, Want, RemLen
<1> QED
  BY <1>1, <1>2, <1>4, <1>5, <1>6 DEF At

\* A body is read, and handled when it is complete.
LEMMA AtReadBody ==
    ASSUME TypeOK, NEW S, Stream(S), At(S), ReadBody
    PROVE  At(S)' /\ pc' # "closed"
<1> DEFINE p == Present
           h == <<first>> \o lens
<1>1. pc = "body" /\ Take(Want) /\ UNCHANGED <<sent, net, first, lens>>
  BY DEF ReadBody, peerVars
<1>2. Len(got) < Want /\ Want \in Nat
  BY <1>1, WantType DEF TypeOK
<1>3. /\ got' \in Seq(Bytes) /\ buf' \o net' \in Seq(Bytes)
      /\ got' \o (buf' \o net') = got \o (buf \o net)
  BY <1>1, <1>2, TakenInOrder
<1>4. p \in Packets /\ first = p.first /\ Seen \o (buf \o net) = Wire(p) \o S[Len(handled) + 2]
  BY <1>1, SeenOf
<1>5. Len(handled) < Len(sent) /\ Len(lens) = Len(LengthField(p)) /\ Want = Len(p.body)
  BY <1>1 DEF At
<1>6. h \in Seq(Bytes) /\ Len(h) = Len(lens) + 1 /\ Len(lens) \in Nat /\ buf \o net \in Seq(Bytes)
  BY SeenType
<1>7. (h \o got') \o (buf' \o net') = Seen \o (buf \o net)
  <2>1. got \in Seq(Bytes) /\ Seen = h \o got
    BY <1>1 DEF TypeOK, Seen
  <2> HIDE DEF h
  <2>2. (h \o got') \o (buf' \o net') = h \o (got' \o (buf' \o net'))
    BY <1>3, <1>6, Assoc
  <2>3. (h \o got) \o (buf \o net) = h \o (got \o (buf \o net))
    BY <1>6, <2>1, Assoc
  <2> QED
    BY <1>3, <2>1, <2>2, <2>3
<1>8. CASE ~Full
  <2>1. pc' = "body" /\ handled' = handled
    BY <1>1, <1>8 DEF ReadBody
  <2>2. Seen' = h \o got'
    BY <1>1, <2>1 DEF Seen
  <2>3. Present' = Present /\ Want' = Want
    BY <1>1, <2>1 DEF Present, Want, RemLen
  <2>4. Seen' \o (buf' \o net') = Seen \o (buf \o net)
    BY <1>7, <2>2
  <2> QED
    BY <1>1, <2>1, <2>3, <2>4 DEF At
<1>9. CASE Full
  <2> DEFINE a == h \o got'
  <2>1. Len(got') = Len(p.body) /\ Len(p.body) \in Nat
    BY <1>2, <1>5, <1>9 DEF Full
  <2>2. a \in Seq(Bytes) /\ Len(a) = Len(Wire(p))
    <3> HIDE DEF h
    <3>1. a \in Seq(Bytes) /\ Len(a) = Len(h) + Len(got')
      BY <1>3, <1>6, ConcatProperties
    <3>2. Len(Wire(p)) = 1 + Len(LengthField(p)) + Len(p.body)
      BY <1>4, WireOf
    <3>3. \A l, m \in Nat : (l + 1) + m = 1 + l + m
      OBVIOUS
    <3> QED
      BY <1>5, <1>6, <2>1, <3>1, <3>2, <3>3
  <2>3. S[Len(handled) + 2] \in Seq(Bytes) /\ Wire(p) \in Seq(Bytes)
    BY <1>1, <1>4, SeenOf, WireOf
  <2>4. a \o (buf' \o net') = Wire(p) \o S[Len(handled) + 2]
    BY <1>4, <1>7
  <2> HIDE DEF a
  <2>5. a = Wire(p)
    <3>1. \A x, y \in Seq(Bytes) : a \o x = Wire(p) \o y => a = Wire(p)
      BY <2>2, <2>3, Cancelled
    <3> QED
      BY <1>3, <2>3, <2>4, <3>1
  <2>6. got' = p.body
    <3>1. <<p.first>> \o LengthField(p) \in Seq(Bytes) /\ Len(<<p.first>> \o LengthField(p)) = Len(h)
          /\ p.body \in Seq(Bytes)
      <4>1. LengthField(p) \in Seq(Bytes) /\ p.first \in Bytes /\ p.body \in Seq(Bytes)
        BY <1>4, FieldOf, WireOf
      <4>2. <<p.first>> \in Seq(Bytes) /\ Len(<<p.first>>) = 1
        BY <4>1
      <4>3. /\ <<p.first>> \o LengthField(p) \in Seq(Bytes)
            /\ Len(<<p.first>> \o LengthField(p)) = Len(<<p.first>>) + Len(LengthField(p))
        BY <4>1, <4>2, ConcatProperties
      <4> QED
        BY <1>5, <1>6, <4>1, <4>2, <4>3
    <3>2. h \o got' = (<<p.first>> \o LengthField(p)) \o p.body
      BY <1>4, <2>5, WireOf DEF a
    <3> HIDE DEF h
    <3> QED
      BY <1>3, <1>6, <3>1, <3>2, Cancelled
  <2>7. [first |-> first, body |-> got'] = p
    <3>1. p \in [first : Bytes, body : Seq(Bytes)]
      BY <1>4, FramingAssumption
    <3>2. p = [first |-> p.first, body |-> p.body]
      BY <3>1
    <3> QED
      BY <1>4, <2>6, <3>2
  <2>8. handled' = Append(handled, Present) /\ pc' = "start"
    BY <1>4, <1>9, <2>7 DEF ReadBody
  <2>9. At(S)'
    BY <1>1, <1>3, <1>4, <1>5, <2>2, <2>4, <2>8, AtNext
  <2> QED
    BY <2>8, <2>9
<1> QED
  BY <1>8, <1>9

\* The client sends a packet: the stream becomes longer by its bytes.
LEMMA AtSend ==
    ASSUME TypeOK, NEW S, Stream(S), At(S), NEW p \in Packets, Send(p)
    PROVE  \E T : Stream(T)' /\ At(T)'
<1> DEFINE n == Len(sent)
           w == Wire(p)
           Longer == [i \in 1..(n + 2) |-> IF i <= n + 1 THEN S[i] \o w ELSE <<>>]
<1>1. /\ sent' = Append(sent, p) /\ net' = net \o w
      /\ UNCHANGED <<buf, pc, got, first, lens, handled>>
  BY DEF Send, packetVars
<1>2. n \in Nat /\ sent \in Seq(Packets) /\ w \in Seq(Bytes) /\ <<>> \in Seq(Bytes)
      /\ buf \in Seq(Bytes) /\ net \in Seq(Bytes) /\ Seen \in Seq(Bytes) /\ Len(handled) \in Nat
  <2>1. sent \in Seq(Packets) /\ <<>> \in Seq(Bytes) /\ buf \in Seq(Bytes) /\ net \in Seq(Bytes)
    BY DEF TypeOK
  <2>2. w \in Seq(Bytes)
    BY WireOf
  <2>3. n \in Nat /\ Seen \in Seq(Bytes) /\ Len(handled) \in Nat
    BY SeenType
  <2> QED
    BY <2>1, <2>2, <2>3
<1> HIDE DEF w
<1>3. Len(sent') = n + 1 /\ sent'[n + 1] = p /\ \A i \in 1..n : sent'[i] = sent[i]
  <2>1. Len(sent') = n + 1
    BY <1>1, <1>2
  <2>2. sent'[n + 1] = p
    BY <1>1, <1>2
  <2>3. \A i \in 1..n : sent'[i] = sent[i]
    BY <1>1, <1>2
  <2> QED
    BY <2>1, <2>2, <2>3
<1>4. \A i \in 1..(n + 1) : S[i] \in Seq(Bytes)
  BY <1>2 DEF Stream
<1>5. Len(sent') + 1 = n + 2
  BY <1>2, <1>3
<1>6. \A i \in 1..(n + 1) : Longer[i] = S[i] \o w
  <2>1. \A i \in 1..(n + 1) : i \in 1..(n + 2) /\ i <= n + 1
    BY <1>2
  <2> QED
    BY <2>1
<1>7. Longer[n + 2] = <<>>
  BY <1>2
<1>8. Longer \in [1..(Len(sent') + 1) -> Seq(Bytes)]
  <2>1. \A i \in 1..(n + 2) : (IF i <= n + 1 THEN S[i] \o w ELSE <<>>) \in Seq(Bytes)
    <3>1. ASSUME NEW i \in 1..(n + 2), i <= n + 1 PROVE S[i] \o w \in Seq(Bytes)
      <4>1. i \in 1..(n + 1)
        BY <1>2, <3>1
      <4>2. S[i] \in Seq(Bytes)
        BY <1>4, <4>1
      <4> QED
        BY <1>2, <4>2
    <3> QED
      BY <1>2, <3>1
  <2> QED
    BY <1>5, <2>1
<1> HIDE DEF Longer
<1>9. PICK T : /\ T \in [1..(Len(sent') + 1) -> Seq(Bytes)] /\ T[n + 2] = <<>>
               /\ \A i \in 1..(n + 1) : T[i] = S[i] \o w
  BY <1>6, <1>7, <1>8
<1>10. ASSUME NEW i \in 1..Len(sent') PROVE T[i] = Wire(sent'[i]) \o T[i + 1]
  <2>1. CASE i = n + 1
    <3>1. T[i] = <<>> \o w /\ i + 1 = n + 2
      <4>1. S[n + 1] = <<>>
        BY DEF Stream
      <4>2. n + 1 \in 1..(n + 1) /\ (n + 1) + 1 = n + 2
        BY <1>2
      <4>3. T[n + 1] = S[n + 1] \o w
        BY <1>9, <4>2
      <4> QED
        BY <2>1, <4>1, <4>2, <4>3
    <3>2. <<>> \o w = w /\ w \o <<>> = w
      BY <1>2, ConcatEmptySeq
    <3> QED
      BY <1>3, <1>9, <2>1, <3>1, <3>2 DEF w
  <2>2. CASE i # n + 1
    <3>1. i \in 1..n /\ i \in 1..(n + 1) /\ i + 1 \in 1..(n + 1)
      BY <1>2, <1>3, <2>2
    <3>2. S[i] = Wire(sent[i]) \o S[i + 1] /\ sent'[i] = sent[i]
      BY <1>3, <3>1 DEF Stream
    <3>3. Wire(sent[i]) \in Seq(Bytes)
      <4>1. sent[i] \in Packets
        BY <1>2, <3>1, ElementOfSeq
      <4> QED
        BY <4>1, WireOf
    <3>4. S[i + 1] \in Seq(Bytes)
      BY <1>4, <3>1
    <3>5. w \in Seq(Bytes)
      BY <1>2
    <3>6. (Wire(sent[i]) \o S[i + 1]) \o w = Wire(sent[i]) \o (S[i + 1] \o w)
      BY <3>3, <3>4, <3>5, Assoc
    <3> QED
      BY <1>9, <3>1, <3>2, <3>6
  <2> QED
    BY <2>1, <2>2
<1>11. Stream(T)'
  BY <1>5, <1>9, <1>10 DEF Stream
<1>12. Len(handled) <= n /\ Len(handled) + 1 \in 1..(n + 1)
  BY <1>2 DEF At
<1>13. Seen' = Seen
  BY <1>1 DEF Seen
<1>14. pc # "closed" => Seen' \o (buf' \o net') = T[Len(handled) + 1]
  <2>1. /\ buf \in Seq(Bytes) /\ net \in Seq(Bytes) /\ w \in Seq(Bytes) /\ Seen \in Seq(Bytes)
        /\ buf \o net \in Seq(Bytes)
    BY <1>2
  <2>2. (buf \o net) \o w = buf \o (net \o w)
    BY <2>1, Assoc
  <2>3. (Seen \o (buf \o net)) \o w = Seen \o ((buf \o net) \o w)
    <3>1. \A r, q \in Seq(Bytes) : (r \o q) \o w = r \o (q \o w)
      BY <2>1, Assoc, SMTT(30), ZenonT(30)
    <3> QED
      BY <2>1, <3>1
  <2>4. pc # "closed" => Seen \o (buf \o net) = S[Len(handled) + 1]
    BY DEF At
  <2> QED
    BY <1>1, <1>9, <1>12, <1>13, <2>2, <2>3, <2>4
<1>15. Len(handled) < n => Present' = Present
  <2>1. Len(handled) < n => Len(handled) + 1 \in 1..n
    BY <1>2
  <2> QED
    BY <1>1, <1>3, <2>1 DEF Present
<1>16. Len(handled') <= Len(sent') /\ \A i \in 1..Len(handled') : handled'[i] = sent'[i]
  <2>1. \A i \in 1..Len(handled) : i \in 1..n
    BY <1>2, <1>12
  <2>2. \A i \in 1..Len(handled) : handled[i] = sent[i]
    BY DEF At
  <2>3. Len(handled) <= n + 1
    BY <1>2, <1>12
  <2> QED
    BY <1>1, <1>3, <2>1, <2>2, <2>3
<1>17. Len(handled) < n => Len(handled') < Len(sent')
  BY <1>1, <1>2, <1>3
<1>18. Want' = Want
  BY <1>1 DEF Want, RemLen
<1>19. At(T)'
  <2>1. pc' \in {"length", "body"} => Len(handled) < n
    BY <1>1 DEF At
  <2>2. pc' = "length" => Len(lens') <= Len(LengthField(Present'))
    BY <1>1, <1>15, <2>1 DEF At
  <2>3. pc' = "body" => Len(lens') = Len(LengthField(Present')) /\ Want' = Len(Present'.body)
    BY <1>1, <1>15, <1>18, <2>1 DEF At
  <2>4. pc' # "closed" => Seen' \o (buf' \o net') = T[Len(handled') + 1]
    BY <1>1, <1>14
  <2> QED
    BY <1>16, <1>17, <2>1, <2>2, <2>3, <2>4 DEF At
<1> QED
  BY <1>11, <1>19

----------------------------------------------------------------------------
\* The inductive invariant.
FrameInv == TypeOK /\ StreamInv /\ ClosedForAReason

\* It holds at the start.
LEMMA InitFrame == Init => FrameInv
<1> SUFFICES ASSUME Init PROVE FrameInv
  OBVIOUS
<1>1. 0 \in Bytes
  BY FramingAssumption DEF Bytes
<1>2. TypeOK
  <2>1. <<0>> \in Seq(Bytes) \ {<<>>} /\ <<>> \in Seq(Bytes) /\ <<>> \in Seq(Packets)
    BY <1>1
  <2> QED
    BY <1>1, <2>1 DEF Init, TypeOK
<1>3. StreamInv
  <2> DEFINE S == [i \in 1..1 |-> <<>>]
  <2>1. sent = <<>> /\ handled = <<>> /\ pc = "start" /\ buf = <<>> /\ net = <<>> /\ Len(<<>>) = 0
    BY DEF Init
  <2>2. <<>> \in Seq(Bytes) /\ <<>> \o <<>> = <<>>
    OBVIOUS
  <2>3. S \in [1..(Len(sent) + 1) -> Seq(Bytes)] /\ S[Len(sent) + 1] = <<>> /\ S[Len(handled) + 1] = <<>>
    BY <2>1, <2>2
  <2> HIDE DEF S
  <2>4. Stream(S)
    BY <2>1, <2>3 DEF Stream
  <2>5. At(S)
    BY <2>1, <2>2, <2>3 DEF At, Seen
  <2> QED
    BY <2>4, <2>5 DEF StreamInv
<1> QED
  BY <1>2, <1>3 DEF FrameInv, ClosedForAReason, Init

\* A connection that is disturbed stays so.
LEMMA DisturbedStays == TypeOK /\ [Next]_vars /\ Disturbed => Disturbed'
<1> SUFFICES ASSUME TypeOK, [Next]_vars PROVE (short => short') /\ (lost => lost')
  BY DEF Disturbed
<1>1. ASSUME NEW p \in Packets, Send(p) PROVE (short => short') /\ (lost => lost')
  BY <1>1 DEF Send
<1>2. ASSUME NEW k \in 1..BufSize, Receive(k) PROVE (short => short') /\ (lost => lost')
  BY <1>2 DEF Receive
<1>3. ASSUME HangUp \/ TakeOver \/ ReadFails \/ Leave \/ ReadLength \/ Break \/ HandlePing \/ StartBody \/ ReadBody
      PROVE  (short => short') /\ (lost => lost')
  <2>1. UNCHANGED <<short, lost>>
    BY <1>3 DEF HangUp, TakeOver, ReadFails, Leave, ReadLength, Break, HandlePing, StartBody, ReadBody
  <2> QED
    BY <2>1
<1>4. ASSUME Start PROVE (short => short') /\ (lost => lost')
  <2>1. short' = short /\ (lost' = (lost \/ buf # <<>>) \/ lost' = lost)
    BY <1>4 DEF Start
  <2> QED
    BY <2>1 DEF TypeOK
<1>5. ASSUME ReadHeader PROVE (short => short') /\ (lost => lost')
  <2>1. (short' = short \/ short' = TRUE) /\ lost' = lost
    BY <1>5 DEF ReadHeader
  <2> QED
    BY <2>1 DEF TypeOK
<1>6. ASSUME UNCHANGED vars PROVE (short => short') /\ (lost => lost')
  BY <1>6 DEF vars
<1> QED
  BY <1>1, <1>2, <1>3, <1>4, <1>5, <1>6 DEF Next, Listen

\* Every step keeps the place in the stream, and the reason to be closed.
LEMMA NextFrame == FrameInv /\ [Next]_vars => StreamInv' /\ ClosedForAReason'
<1> SUFFICES ASSUME FrameInv, [Next]_vars, ~Disturbed'
             PROVE  (\E S : Stream(S)' /\ At(S)') /\ ClosedForAReason'
  BY DEF StreamInv, ClosedForAReason
<1>1. TypeOK /\ ClosedForAReason /\ ~Disturbed /\ \E S : Stream(S) /\ At(S)
  BY DisturbedStays DEF FrameInv, StreamInv
<1>2. PICK S : Stream(S) /\ At(S)
  BY <1>1
<1>3. sent' = sent => Stream(S)'
  BY <1>2, SameStream
<1>4. Len(handled) \in Nat /\ Len(sent) \in Nat /\ sent \in Seq(Packets)
  BY <1>1 DEF TypeOK
<1>5. ASSUME NEW p \in Packets, Send(p) PROVE (\E T : Stream(T)' /\ At(T)') /\ ClosedForAReason'
  <2>1. /\ sent' = Append(sent, p) /\ ~hungUp /\ UNCHANGED <<pc, handled, connected>>
    BY <1>5 DEF Send, packetVars
  <2>2. pc' = "closed" /\ connected' => Len(handled) < Len(sent) /\ Len(sent[Len(handled) + 1].body) >= Power[4]
    BY <1>1, <2>1 DEF ClosedForAReason
  <2>3. Len(handled) < Len(sent) => /\ Len(handled') < Len(sent')
                                    /\ sent'[Len(handled') + 1] = sent[Len(handled) + 1]
    <3>1. SUFFICES ASSUME Len(handled) < Len(sent)
                   PROVE  Len(handled') < Len(sent') /\ sent'[Len(handled') + 1] = sent[Len(handled) + 1]
      OBVIOUS
    <3>2. Len(handled) + 1 \in 1..Len(sent)
      BY <1>4, <3>1
    <3>3. sent'[Len(handled) + 1] = sent[Len(handled) + 1]
      BY <1>4, <2>1, <3>2
    <3>4. Len(sent') = Len(sent) + 1
      BY <1>4, <2>1
    <3> QED
      BY <1>4, <2>1, <3>1, <3>3, <3>4
  <2>4. ClosedForAReason'
    BY <2>2, <2>3 DEF ClosedForAReason
  <2> QED
    BY <1>1, <1>2, <1>5, <2>4, AtSend
<1>6. ASSUME HangUp \/ TakeOver \/ UNCHANGED vars PROVE (\E T : Stream(T)' /\ At(T)') /\ ClosedForAReason'
  <2>1. At(S)'
    BY <1>2, <1>6, AtHangUp
  <2>2. /\ UNCHANGED <<sent, handled, pc, net>> /\ (hungUp' = hungUp \/ ~hungUp)
        /\ (connected' = connected \/ ~connected')
    BY <1>6 DEF HangUp, TakeOver, vars, peerVars, packetVars
  <2>3. ClosedForAReason'
    <3>1. connected' => connected
      BY <2>2
    <3>2. hungUp => hungUp'
      BY <2>2
    <3> QED
      BY <1>1, <2>2, <3>1, <3>2 DEF ClosedForAReason
  <2> QED
    BY <1>3, <2>1, <2>2, <2>3
<1>7. ASSUME sent' = sent, pc' # "closed", At(S)' PROVE (\E T : Stream(T)' /\ At(T)') /\ ClosedForAReason'
  BY <1>3, <1>7 DEF ClosedForAReason
<1>8. ASSUME NEW k \in 1..BufSize, Receive(k) PROVE (\E T : Stream(T)' /\ At(T)') /\ ClosedForAReason'
  <2>1. sent' = sent /\ pc' # "closed"
    BY <1>8 DEF Receive, Reading, peerVars, packetVars
  <2> QED
    BY <1>1, <1>2, <1>7, <1>8, <2>1, AtReceive
<1>9. ASSUME ReadFails \/ Leave PROVE (\E T : Stream(T)' /\ At(T)') /\ ClosedForAReason'
  <2>1. /\ pc' = "closed" /\ ((net' = <<>> /\ hungUp') \/ ~connected')
        /\ UNCHANGED <<sent, handled>>
    BY <1>9 DEF ReadFails, Leave, peerVars
  <2>2. At(S)'
    BY <1>2, <2>1 DEF At
  <2> QED
    BY <1>3, <2>1, <2>2 DEF ClosedForAReason
<1>10. ASSUME Start PROVE (\E T : Stream(T)' /\ At(T)') /\ ClosedForAReason'
  <2>1. sent' = sent /\ pc' # "closed"
    BY <1>10 DEF Start, peerVars
  <2> QED
    BY <1>2, <1>7, <1>10, <2>1, AtStart
<1>11. ASSUME ReadHeader PROVE (\E T : Stream(T)' /\ At(T)') /\ ClosedForAReason'
  <2>1. sent' = sent /\ pc' # "closed"
    BY <1>11 DEF ReadHeader, WantsHeader, peerVars
  <2> QED
    BY <1>1, <1>2, <1>7, <1>11, <2>1, AtReadHeader
<1>12. ASSUME ReadLength PROVE (\E T : Stream(T)' /\ At(T)') /\ ClosedForAReason'
  <2>1. sent' = sent /\ pc' # "closed"
    BY <1>12 DEF ReadLength, peerVars
  <2> QED
    BY <1>1, <1>2, <1>7, <1>12, <2>1, AtReadLength
<1>13. ASSUME Break PROVE (\E T : Stream(T)' /\ At(T)') /\ ClosedForAReason'
  <2>1. At(S)' /\ Len(handled) < Len(sent) /\ Len(Present.body) >= Power[4]
    BY <1>1, <1>2, <1>13, AtBreak
  <2>2. UNCHANGED <<sent, handled>>
    BY <1>13 DEF Break, peerVars
  <2> QED
    BY <1>3, <2>1, <2>2 DEF ClosedForAReason, Present
<1>14. ASSUME HandlePing PROVE (\E T : Stream(T)' /\ At(T)') /\ ClosedForAReason'
  <2>1. sent' = sent /\ pc' # "closed"
    BY <1>14 DEF HandlePing, peerVars
  <2> QED
    BY <1>1, <1>2, <1>7, <1>14, <2>1, AtPing
<1>15. ASSUME StartBody PROVE (\E T : Stream(T)' /\ At(T)') /\ ClosedForAReason'
  <2>1. sent' = sent /\ pc' # "closed"
    BY <1>15 DEF StartBody, peerVars
  <2> QED
    BY <1>1, <1>2, <1>7, <1>15, <2>1, AtStartBody
<1>16. ASSUME ReadBody PROVE (\E T : Stream(T)' /\ At(T)') /\ ClosedForAReason'
  <2>1. sent' = sent
    BY <1>16 DEF ReadBody, peerVars
  <2> QED
    BY <1>1, <1>2, <1>7, <1>16, <2>1, AtReadBody
<1> QED
  BY <1>5, <1>6, <1>8, <1>9, <1>10, <1>11, <1>12, <1>13, <1>14, <1>15, <1>16 DEF Next, Listen

\* It holds for ever.
LEMMA AlwaysFrame == Spec => []FrameInv
<1>1. Init => FrameInv
  BY InitFrame
<1>2. FrameInv /\ [Next]_vars => FrameInv'
  BY NextTypes, NextFrame DEF FrameInv
<1> QED
  BY <1>1, <1>2, PTL DEF Spec

----------------------------------------------------------------------------
\* The types, whatever the bytes: no read takes more than it asked for
\* (client.go:60-105).
THEOREM FramingTypes == Spec => []TypeOK
<1>1. FrameInv => TypeOK
  BY DEF FrameInv
<1> QED
  BY <1>1, AlwaysFrame, PTL

\* However segments and frames cut the bytes, the length listen decodes is that
\* of the packet sent next, or it is refused from four length bytes on
\* (bytes/encoding.go:22-39, client.go:139-160).
THEOREM LengthDecoded == Spec => []DecodesTheLength
<1>1. FrameInv => DecodesTheLength
  <2> SUFFICES ASSUME FrameInv, Header, ~Disturbed
               PROVE  RemLen = IF Len(Present.body) < Power[4] THEN Len(Present.body) ELSE Malformed
    BY DEF DecodesTheLength, Present
  <2>1. PICK S : Stream(S) /\ At(S)
    BY DEF FrameInv, StreamInv
  <2> QED
    BY <2>1, HeaderOf DEF FrameInv
<1> QED
  BY <1>1, AlwaysFrame, PTL

\* However segments and frames cut the bytes, the packets handled are those the
\* client has sent, whole and in order, as long as no read falls short and no
\* frame goes on after its packet (client.go:44-105, 120-160).
THEOREM SentIsHandled == Spec => []HandledAsSent
<1>1. FrameInv => HandledAsSent
  <2> SUFFICES ASSUME FrameInv, ~Disturbed PROVE IsPrefix(handled, sent)
    BY DEF HandledAsSent
  <2>1. PICK S : Stream(S) /\ At(S)
    BY DEF FrameInv, StreamInv
  <2>2. handled \in Seq(Packets) /\ sent \in Seq(Packets) /\ Len(handled) \in Nat /\ Len(sent) \in Nat
    BY DEF FrameInv, TypeOK
  <2>3. Len(handled) <= Len(sent) /\ \A i \in 1..Len(handled) : handled[i] = sent[i]
    BY <2>1 DEF At
  <2>4. \A i \in 1..Len(handled) : sent[i] \in Packets
    BY <2>2, <2>3
  <2>5. SubSeq(handled, 1, Len(handled)) = SubSeq(sent, 1, Len(handled))
    <3>1. SubSeq(handled, 1, Len(handled)) = handled
      BY <2>2, SubSeqFull
    <3>2. /\ SubSeq(sent, 1, Len(handled)) \in Seq(Packets)
          /\ Len(SubSeq(sent, 1, Len(handled))) = Len(handled)
          /\ \A i \in 1..Len(handled) : SubSeq(sent, 1, Len(handled))[i] = sent[i]
      BY <2>2, <2>3
    <3>3. SubSeq(sent, 1, Len(handled)) = handled
      BY <2>2, <2>3, <3>2, SeqEqual
    <3> QED
      BY <3>1, <3>3
  <2> QED
    BY <2>3, <2>5 DEF IsPrefix
<1> QED
  BY <1>1, AlwaysFrame, PTL

\* listen ends a connection only for a reason: the client has closed it, another
\* one has taken over its client id, the next packet is too long, or the stream was
\* disturbed (client.go:121-172, broker.go:170-175, bytes/encoding.go:26-32).
THEOREM ReasonToClose == Spec => []ClosedForAReason
<1>1. FrameInv => ClosedForAReason
  BY DEF FrameInv
<1> QED
  BY <1>1, AlwaysFrame, PTL
====
