---------------------------- MODULE CodecProofs ----------------------------
(* What Decode makes of frames, for any messages and any limit.            *)
EXTENDS Codec, SequenceTheorems, TLAPS

(* A prefix says the length that was written, whatever the length.         *)
LEMMA PrefixLemma ==
    ASSUME NEW n \in Nat, n <= GiB
    PROVE  /\ ToBigEndian(n) \in Seq(Byte)
           /\ Len(ToBigEndian(n)) = LenPrefix
           /\ FromBigEndian(ToBigEndian(n)) = n
  <1> DEFINE c == n \div 256
             b == c \div 256
             a == b \div 256
  <1>1. n \in Nat /\ a < 256
    BY SMT DEF GiB
  <1>2. c \in Nat /\ n % 256 \in 0..255 /\ n = (c * 256) + (n % 256)
    BY <1>1
  <1>3. b \in Nat /\ c % 256 \in 0..255 /\ c = (b * 256) + (c % 256)
    BY <1>2
  <1>4. a \in Nat /\ b % 256 \in 0..255 /\ b = (a * 256) + (b % 256)
    BY <1>3
  <1>5. a % 256 = a
    BY <1>1, <1>4
  <1>6. ToBigEndian(n) = <<a % 256, b % 256, c % 256, n % 256>>
    BY DEF ToBigEndian
  <1> HIDE DEF a, b, c
  <1>7. FromBigEndian(ToBigEndian(n)) = n
    <2>1. FromBigEndian(<<a % 256, b % 256, c % 256, n % 256>>)
              = ((((((a % 256) * 256) + (b % 256)) * 256) + (c % 256)) * 256)
                    + (n % 256)
      BY DEF FromBigEndian
    <2> QED
      BY <1>2, <1>3, <1>4, <1>5, <1>6, <2>1
  <1>8. ToBigEndian(n) \in Seq(Byte) /\ Len(ToBigEndian(n)) = LenPrefix
    BY <1>1, <1>2, <1>3, <1>4, <1>5, <1>6 DEF Byte, LenPrefix
  <1> QED
    BY <1>7, <1>8

(* A piece of a sequence is known by its elements.                         *)
LEMMA PieceLemma ==
    ASSUME NEW S, NEW s \in Seq(S), NEW t \in Seq(S), NEW a \in Nat,
           NEW b \in Nat, b = a + Len(t), b <= Len(s),
           \A i \in 1..Len(t) : s[a + i] = t[i]
    PROVE  SubSeq(s, a + 1, b) = t
  <1> DEFINE m == a + 1
             u == SubSeq(s, m, b)
  <1>1. Len(s) \in Nat /\ Len(t) \in Nat
    BY LenProperties
  <1>2. \A i \in m..b : s[i] \in S
    BY <1>1, ElementOfSeq
  <1>3. m \in Int /\ b \in Int
    OBVIOUS
  <1> HIDE DEF m, u
  <1>4. /\ u \in Seq(S)
        /\ Len(u) = IF m <= b THEN b - m + 1 ELSE 0
        /\ \A i \in 1..(b - m + 1) : u[i] = s[m + i - 1]
    BY <1>2, <1>3, SubSeqProperties DEF u
  <1>5. Len(u) = Len(t)
    BY <1>1, <1>4 DEF m
  <1>6. \A i \in 1..Len(u) : u[i] = t[i]
    <2> SUFFICES ASSUME NEW i \in 1..Len(u) PROVE u[i] = t[i]
      OBVIOUS
    <2>1. m + i - 1 = a + i /\ i \in 1..(b - m + 1)
      BY <1>1, <1>5 DEF m
    <2>2. u[i] = s[a + i]
      BY <1>4, <2>1
    <2> QED
      BY <1>5, <2>2
  <1> QED
    BY <1>4, <1>5, <1>6, SeqEqual DEF m, u

(* What fits into a frame is not too long for the prefix.                  *)
LEMMA FitsLemma ==
    ASSUME NEW m \in Messages, Len(Body[m]) <= MaxFrameLen
    PROVE  Len(Body[m]) <= GiB
  <1>1. Len(Body[m]) \in Nat
    BY BodyAssumption, LenProperties
  <1> QED
    BY <1>1, MaxFrameLenAssumption DEF GiB

(* Where the parts of a frame are in the bytes that begin with it.         *)
LEMMA FrameLemma ==
    ASSUME NEW m \in Messages, Len(Body[m]) <= GiB,
           NEW rest \in Seq(Byte)
    PROVE  LET s == Encode(m) \o rest
               k == Len(Body[m])
           IN  /\ k \in Nat /\ Len(rest) \in Nat
               /\ s \in Seq(Byte)
               /\ Len(Encode(m)) = LenPrefix + k
               /\ Len(s) = LenPrefix + k + Len(rest)
               /\ FromBigEndian(s) = k
               /\ \A i \in 1..k : s[LenPrefix + i] = Body[m][i]
               /\ \A i \in 1..Len(rest) : s[LenPrefix + k + i] = rest[i]
  <1> DEFINE k == Len(Body[m])
             p == ToBigEndian(k)
             e == Encode(m)
             s == e \o rest
  <1>1. Body[m] \in Seq(Byte) /\ k \in Nat /\ Len(rest) \in Nat
    <2>1. Body[m] \in Seq(Byte)
      BY BodyAssumption
    <2>2. Len(Body[m]) \in Nat /\ Len(rest) \in Nat
      BY <2>1, LenProperties
    <2> QED
      BY <2>1, <2>2
  <1>2. p \in Seq(Byte) /\ Len(p) = LenPrefix /\ FromBigEndian(p) = k
    BY <1>1, PrefixLemma
  <1>3. /\ e \in Seq(Byte)
        /\ Len(e) = LenPrefix + k
        /\ \A i \in 1..(LenPrefix + k) :
              e[i] = IF i <= LenPrefix THEN p[i] ELSE Body[m][i - LenPrefix]
    <2> HIDE DEF p
    <2>1. e = p \o Body[m]
      BY DEF Encode, p
    <2> QED
      BY <1>1, <1>2, <2>1, ConcatProperties
  <1> HIDE DEF e, p
  <1>4. /\ s \in Seq(Byte)
        /\ Len(s) = LenPrefix + k + Len(rest)
        /\ \A i \in 1..(LenPrefix + k + Len(rest)) :
              s[i] = IF i <= LenPrefix + k THEN e[i]
                                           ELSE rest[i - (LenPrefix + k)]
    BY <1>1, <1>3, ConcatProperties
  <1> HIDE DEF k, s
  <1>5. \A i \in 1..4 : s[i] = p[i]
    BY <1>1, <1>3, <1>4 DEF LenPrefix
  <1>6. FromBigEndian(s) = k
    BY <1>2, <1>5 DEF FromBigEndian
  <1>7. \A i \in 1..k : s[LenPrefix + i] = Body[m][i]
    BY <1>1, <1>3, <1>4 DEF LenPrefix
  <1>8. \A i \in 1..Len(rest) : s[LenPrefix + k + i] = rest[i]
    BY <1>1, <1>4 DEF LenPrefix
  <1> QED
    BY <1>1, <1>3, <1>4, <1>6, <1>7, <1>8 DEF k, s, e

(* What is deserialized from a slice that starts with a body: no other     *)
(* message's body is in front of it, as neither starts with the other.     *)
LEMMA DeserializeLemma ==
    ASSUME NEW m \in Messages, NEW rest
    PROVE  Deserialize(Body[m], rest) = Item(m, rest)
  <1>1. Body[m] \in Seq(Byte) /\ Len(Body[m]) \in Nat
    BY BodyAssumption, LenProperties
  <1>2. Starts(Body[m], m)
    BY <1>1 DEF Starts
  <1>3. \A n \in Messages : Starts(Body[m], n) => n = m
    BY BodyAssumption
  <1> QED
    BY <1>2, <1>3 DEF Deserialize

(* The frame of a message that fits is decoded as soon as its last byte is *)
(* in the buffer, and nothing of what follows it is touched: the next      *)
(* frame is found where this one ends (codec.rs, decode).                  *)
THEOREM WholeFrame ==
    ASSUME NEW m \in Messages, Len(Body[m]) <= MaxFrameLen,
           NEW rest \in Seq(Byte)
    PROVE  Decode(Encode(m) \o rest) = Item(m, rest)
  <1> DEFINE s == Encode(m) \o rest
             k == Len(Body[m])
  <1>1. /\ k \in Nat /\ Len(rest) \in Nat /\ k <= MaxFrameLen
        /\ s \in Seq(Byte)
        /\ Len(s) = LenPrefix + k + Len(rest)
        /\ FromBigEndian(s) = k
        /\ \A i \in 1..k : s[LenPrefix + i] = Body[m][i]
        /\ \A i \in 1..Len(rest) : s[LenPrefix + k + i] = rest[i]
    BY FitsLemma, FrameLemma
  <1>2. Body[m] \in Seq(Byte)
    BY BodyAssumption
  <1> DEFINE end == LenPrefix + k
             body == SubSeq(s, LenPrefix + 1, end)
             left == SubSeq(s, end + 1, Len(s))
  <1>3. end \in Nat /\ LenPrefix \in Nat /\ Len(s) \in Nat
    BY <1>1 DEF LenPrefix
  <1>4. Decode(s) = Deserialize(body, left)
    <2>1. ~(Len(s) < LenPrefix) /\ ~(k > MaxFrameLen) /\ ~(Len(s) < end)
      BY <1>1, MaxFrameLenAssumption DEF LenPrefix
    <2> QED
      BY <1>1, <2>1, Zenon DEF Decode
  <1>5. body = Body[m]
    <2> HIDE DEF s
    <2> QED
      BY <1>1, <1>2, <1>3, PieceLemma
  <1>6. left = rest
    <2>1. Len(s) = end + Len(rest) /\ Len(s) <= Len(s)
      BY <1>1, <1>3
    <2>2. \A i \in 1..Len(rest) : s[end + i] = rest[i]
      BY <1>1
    <2> HIDE DEF s, end
    <2> QED
      BY <1>1, <1>3, <2>1, <2>2, PieceLemma
  <1> QED
    BY <1>4, <1>5, <1>6, DeserializeLemma

(* Of a frame that has not arrived whole nothing is taken, wherever it is  *)
(* cut: the bytes stay in the buffer until the rest comes (codec.rs,       *)
(* decode, its two returns of None).                                       *)
THEOREM PartOfFrame ==
    ASSUME NEW m \in Messages, Len(Body[m]) <= MaxFrameLen,
           NEW buf \in Seq(Byte), NEW missing \in Seq(Byte),
           buf \o missing = Encode(m), missing # <<>>
    PROVE  Decode(buf) = More(buf)
  <1> DEFINE k == Len(Body[m])
             e == Encode(m)
  <1>1. /\ <<>> \in Seq(Byte)
        /\ Len(buf) \in Nat
        /\ Len(missing) \in Nat \ {0}
    BY EmptySeq, LenProperties
  <1>2. /\ k \in Nat
        /\ Len(e) = LenPrefix + k
        /\ FromBigEndian(e \o <<>>) = k
    BY <1>1, FitsLemma, FrameLemma
  <1>3. /\ buf \o missing \in Seq(Byte)
        /\ Len(buf \o missing) = Len(buf) + Len(missing)
        /\ \A i \in 1..(Len(buf) + Len(missing)) :
              (buf \o missing)[i] = IF i <= Len(buf) THEN buf[i]
                                    ELSE missing[i - Len(buf)]
    BY ConcatProperties
  <1> HIDE DEF e
  <1>4. /\ e \in Seq(Byte)
        /\ Len(e) = Len(buf) + Len(missing)
        /\ \A i \in 1..(Len(buf) + Len(missing)) :
              e[i] = IF i <= Len(buf) THEN buf[i] ELSE missing[i - Len(buf)]
    <2>1. buf \o missing = e
      BY DEF e
    <2> QED
      BY <1>3, <2>1
  <1>5. FromBigEndian(e) = k
    BY <1>2, <1>4, ConcatEmptySeq
  <1>6. CASE Len(buf) < LenPrefix
    BY <1>6 DEF Decode
  <1>7. CASE ~(Len(buf) < LenPrefix)
    <2>1. e[1] = buf[1] /\ e[2] = buf[2] /\ e[3] = buf[3] /\ e[4] = buf[4]
      BY <1>1, <1>4, <1>7 DEF LenPrefix
    <2>2. FromBigEndian(buf) = k
      BY <1>5, <2>1 DEF FromBigEndian
    <2>3. ~(k > MaxFrameLen) /\ Len(buf) < LenPrefix + k
      BY <1>1, <1>2, <1>4, MaxFrameLenAssumption DEF LenPrefix
    <2> QED
      BY <1>7, <2>2, <2>3, Zenon DEF Decode
  <1> QED
    BY <1>6, <1>7

(* A message too large for a frame is encoded all the same and refused by  *)
(* its prefix: the sender is not told, and the receiver hangs up on it     *)
(* (codec.rs, encode has no limit and decode has).                         *)
THEOREM TooLarge ==
    ASSUME NEW m \in Messages, Len(Body[m]) > MaxFrameLen,
           Len(Body[m]) <= GiB, NEW rest \in Seq(Byte)
    PROVE  Decode(Encode(m) \o rest) = Failed(Encode(m) \o rest)
  <1> DEFINE s == Encode(m) \o rest
             k == Len(Body[m])
  <1>1. /\ k \in Nat /\ Len(rest) \in Nat
        /\ Len(s) = LenPrefix + k + Len(rest)
        /\ FromBigEndian(s) = k
    BY FrameLemma
  <1> HIDE DEF s
  <1> QED
    BY <1>1 DEF Decode, LenPrefix, s
=============================================================================
