---------------------------- MODULE TransportMC ----------------------------
(* Small instances of the connections and of the frames on them.           *)
EXTENDS Transport, Codec, SequencesExt

\* Messages with a body of one, two and three bytes; the last does not fit.
Names == {"ack", "assign", "long"}
Bodies == [m \in Names |-> CASE m = "ack" -> <<0>>
                             [] m = "assign" -> <<1, 0>>
                             [] m = "long" -> <<1, 1, 0>>]
Fits == {m \in Messages : Len(Body[m]) <= MaxFrameLen}

\* tokio_util's Framed: what has arrived is decoded until the codec asks for
\* more; after an error nothing is read any more.
Reader == [buf |-> <<>>, out |-> <<>>, failed |-> FALSE]
DecodeOnce(r) ==
    LET d == Decode(r.buf)
    IN  [buf |-> d.rest,
         out |-> IF d.result = "item" /\ ~r.failed THEN Append(r.out, d.item)
                                                   ELSE r.out,
         failed |-> r.failed \/ d.result = "failed"]
Receive(r, chunk) ==
    LET buf == r.buf \o chunk
    IN  FoldLeft(LAMBDA s, i : DecodeOnce(s), [r EXCEPT !.buf = buf], buf)

\* The bytes up to j arrive in chunks that end at h, i and j.
Read3(stream, h, i, j) ==
    FoldLeft(Receive, Reader, <<SubSeq(stream, 1, h), SubSeq(stream, h + 1, i),
                                SubSeq(stream, i + 1, j)>>)

Streams == UNION {[1..n -> Messages] : n \in 0..2}
Wire(ms) == FoldLeft(LAMBDA bytes, m : bytes \o Encode(m), <<>>, ms)

(* However the bytes of up to two messages are cut into chunks, and        *)
(* wherever they stop coming, the reader has the messages whose frames have *)
(* arrived whole, up to the first that is too large, which ends the reading. *)
ASSUME FramesSurviveCuts ==
    \A ms \in Streams : \A j \in 0..Len(Wire(ms)) :
        \A i \in 0..j : \A h \in 0..i :
            LET r == Read3(Wire(ms), h, i, j)
                whole == {n \in 0..Len(ms) :
                            /\ Len(Wire(SubSeq(ms, 1, n))) <= j
                            /\ \A k \in 1..n : ms[k] \in Fits}
            IN  /\ r.out = SubSeq(ms, 1, Max(whole))
                /\ ~r.failed => r.buf = SubSeq(Wire(ms),
                                        Len(Wire(r.out)) + 1, j)
                /\ r.failed => \E k \in 1..Len(ms) : ms[k] \notin Fits

\* A body that is no message fails and takes its frame with it; one with bytes
\* behind the message does not fail.
ASSUME OddBodies ==
    /\ Decode(<<0, 0, 0, 1, 9, 5>>) = Failed(<<5>>)
    /\ Decode(<<0, 0, 0, 0, 5>>) = Failed(<<5>>)
    /\ Decode(<<0, 0, 0, 2, 0, 7, 5>>) = Item("ack", <<5>>)
    /\ Decode(<<1, 0, 0, 0>>) = Failed(<<1, 0, 0, 0>>)

ASSUME PrefixesReadBack ==
    \A n \in UNION {(k - 1)..(k + 1) : k \in {256, 65536, 16777216}} :
        FromBigEndian(ToBigEndian(n)) = n
=============================================================================
