------------------------------- MODULE Codec -------------------------------
(***************************************************************************)
(* The frames on a connection (src/src/transport/codec.rs): the length of  *)
(* a message's body in four bytes, most significant first, then the body.  *)
(*                                                                         *)
(* What serde and bincode make of a message is a parameter.  bincode reads *)
(* from the front, knows by itself where a message ends, and lets the rest *)
(* of the slice be: no body starts with the body of another message.       *)
(***************************************************************************)
EXTENDS Naturals, Sequences

CONSTANTS
    Messages,     \* ClientMsg on the way up, ServerMsg on the way down
    Body,         \* bincode::serialize
    MaxFrameLen   \* MAX_FRAME_LEN, 1 MiB in the code

Byte == 0..255

\* The first bytes of a slice are the body of m.
Starts(slice, m) ==
    /\ Len(Body[m]) <= Len(slice)
    /\ \A i \in 1..Len(Body[m]) : slice[i] = Body[m][i]

ASSUME BodyAssumption ==
    /\ Body \in [Messages -> Seq(Byte)]
    /\ \A m, n \in Messages : Starts(Body[n], m) => m = n

\* One GiB, well below what four bytes can say.
GiB == 1073741824
ASSUME MaxFrameLenAssumption == MaxFrameLen \in Nat /\ MaxFrameLen <= GiB

LenPrefix == 4

\* u32::to_be_bytes; the first of the four remainders is the cast to u32.
ToBigEndian(n) ==
    <<(((n \div 256) \div 256) \div 256) % 256, ((n \div 256) \div 256) % 256,
      (n \div 256) % 256, n % 256>>

\* u32::from_be_bytes
FromBigEndian(b) == ((b[1] * 256 + b[2]) * 256 + b[3]) * 256 + b[4]

\* BincodeCodec::encode: what a message adds to the buffer.  There is no limit
\* on this side.
Encode(m) == ToBigEndian(Len(Body[m])) \o Body[m]

\* What decode returns, and what it leaves in the buffer.
More(buf) == [result |-> "more", rest |-> buf]
Failed(buf) == [result |-> "failed", rest |-> buf]
Item(m, buf) == [result |-> "item", item |-> m, rest |-> buf]

\* bincode::deserialize
Deserialize(slice, buf) ==
    IF \E m \in Messages : Starts(slice, m)
    THEN Item(CHOOSE m \in Messages : Starts(slice, m), buf)
    ELSE Failed(buf)

\* BincodeCodec::decode.  A frame that is too large is refused by its prefix
\* alone and stays in the buffer, one that is not a message is taken off it.
Decode(buf) ==
    LET len == FromBigEndian(buf)
        end == LenPrefix + len
    IN  IF Len(buf) < LenPrefix THEN More(buf)
        ELSE IF len > MaxFrameLen THEN Failed(buf)
        ELSE IF Len(buf) < end THEN More(buf)
        ELSE Deserialize(SubSeq(buf, LenPrefix + 1, end),
                         SubSeq(buf, end + 1, Len(buf)))
=============================================================================
