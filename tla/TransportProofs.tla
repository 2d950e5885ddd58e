-------------------------- MODULE TransportProofs --------------------------
(* The registry and the downlinks, for any fleet and any number of         *)
(* connections.                                                            *)
EXTENDS Transport, TLAPS

USE NamesAssumption, BoundsAssumption

(* A connection that was not opened has had no traffic, and every other    *)
(* one has a robot and a handler.                                          *)
Opened ==
    \A c \in Conns :
        IF client[c] = "unused"
        THEN handler[c] = "none" /\ got[c] = <<>> /\ down[c] = <<>>
        ELSE owner[c] \in Robots /\ handler[c] # "none"

Inv == TypeOK /\ Opened /\ EntryIsServed /\ InOrderAndOnce

----------------------------------------------------------------------------
(* Sequences.                                                              *)

(* What a concatenation is made of.                                        *)
LEMMA ConcatLemma ==
    ASSUME NEW S, NEW s \in Seq(S), NEW t \in Seq(S)
    PROVE  /\ s \o t \in Seq(S)
           /\ Len(s) \in Nat /\ Len(t) \in Nat
           /\ Len(s \o t) = Len(s) + Len(t)
           /\ \A i \in 1..Len(s) : (s \o t)[i] = s[i]
           /\ \A i \in 1..Len(t) : (s \o t)[Len(s) + i] = t[i]
  OBVIOUS

(* Sending puts the message at the end.                                    *)
LEMMA AppendLemma ==
    ASSUME NEW S, NEW s \in Seq(S), NEW e \in S
    PROVE  /\ Append(s, e) \in Seq(S)
           /\ Len(s) \in Nat
           /\ Len(Append(s, e)) = Len(s) + 1
           /\ \A i \in 1..Len(s) : Append(s, e)[i] = s[i]
           /\ Append(s, e)[Len(s) + 1] = e
  OBVIOUS

(* Taking the head of a channel leaves a channel; the rest moves up.       *)
LEMMA TailLemma ==
    ASSUME NEW S, NEW s \in Seq(S), s # <<>>
    PROVE  /\ Head(s) \in S
           /\ Head(s) = s[1]
           /\ Tail(s) \in Seq(S)
           /\ Len(Tail(s)) = Len(s) - 1
           /\ Len(s) \in Nat \ {0}
           /\ \A i \in 1..Len(Tail(s)) : Tail(s)[i] = s[i + 1]
  OBVIOUS

(* A frame that is put into the channel is the last of the downlink.       *)
LEMMA DownlinkGrows ==
    ASSUME NEW S, NEW g \in Seq(S), NEW d \in Seq(S), NEW e \in S
    PROVE  /\ Len(g \o d) \in Nat
           /\ Len(g \o Append(d, e)) = Len(g \o d) + 1
           /\ \A i \in 1..Len(g \o d) : (g \o Append(d, e))[i] = (g \o d)[i]
           /\ (g \o Append(d, e))[Len(g \o d) + 1] = e
<1>1. /\ Append(d, e) \in Seq(S) /\ Len(d) \in Nat
      /\ Len(Append(d, e)) = Len(d) + 1
      /\ \A i \in 1..Len(d) : Append(d, e)[i] = d[i]
      /\ Append(d, e)[Len(d) + 1] = e
  BY AppendLemma
<1>2. /\ Len(g) \in Nat
      /\ Len(g \o d) = Len(g) + Len(d)
      /\ \A i \in 1..Len(g) : (g \o d)[i] = g[i]
      /\ \A i \in 1..Len(d) : (g \o d)[Len(g) + i] = d[i]
  BY ConcatLemma
<1>3. /\ Len(g \o Append(d, e)) = Len(g) + Len(d) + 1
      /\ \A i \in 1..Len(g) : (g \o Append(d, e))[i] = g[i]
      /\ \A i \in 1..(Len(d) + 1) :
            (g \o Append(d, e))[Len(g) + i] = Append(d, e)[i]
  BY <1>1, ConcatLemma
<1>4. ASSUME NEW i \in 1..Len(g \o d)
      PROVE  (g \o Append(d, e))[i] = (g \o d)[i]
  <2>1. CASE i \in 1..Len(g)
    BY <1>2, <1>3, <2>1
  <2>2. CASE i \notin 1..Len(g)
    <3>1. i - Len(g) \in 1..Len(d) /\ i = Len(g) + (i - Len(g))
      BY <1>1, <1>2, <2>2
    <3> QED
      BY <1>1, <1>2, <1>3, <3>1
  <2> QED
    BY <2>1, <2>2
<1>5. (g \o Append(d, e))[Len(g) + (Len(d) + 1)] = e
  BY <1>1, <1>3
<1> QED
  BY <1>1, <1>2, <1>3, <1>4, <1>5

(* A frame that is lost moves those behind it up.                          *)
LEMMA DownlinkShrinks ==
    ASSUME NEW S, NEW g \in Seq(S), NEW d \in Seq(S), d # <<>>
    PROVE  /\ Len(g \o Tail(d)) = Len(g \o d) - 1
           /\ Len(g) \in Nat /\ Len(g \o d) \in Nat
           /\ \A i \in 1..Len(g \o Tail(d)) :
                (g \o Tail(d))[i] = (g \o d)[IF i <= Len(g) THEN i ELSE i + 1]
<1>1. /\ Tail(d) \in Seq(S)
      /\ Len(Tail(d)) = Len(d) - 1 /\ Len(d) \in Nat \ {0}
      /\ \A i \in 1..(Len(d) - 1) : Tail(d)[i] = d[i + 1]
  BY TailLemma
<1>2. /\ Len(g) \in Nat
      /\ Len(g \o d) = Len(g) + Len(d)
      /\ \A i \in 1..Len(g) : (g \o d)[i] = g[i]
      /\ \A i \in 1..Len(d) : (g \o d)[Len(g) + i] = d[i]
  BY ConcatLemma
<1>3. /\ Len(g \o Tail(d)) = Len(g) + (Len(d) - 1)
      /\ \A i \in 1..Len(g) : (g \o Tail(d))[i] = g[i]
      /\ \A i \in 1..(Len(d) - 1) : (g \o Tail(d))[Len(g) + i] = Tail(d)[i]
  BY <1>1, ConcatLemma
<1>4. ASSUME NEW i \in 1..Len(g \o Tail(d)), i > Len(g)
      PROVE  (g \o Tail(d))[i] = (g \o d)[i + 1]
  <2> DEFINE j == i - Len(g)
  <2>1. /\ j \in 1..(Len(d) - 1) /\ j + 1 \in 1..Len(d)
        /\ i = Len(g) + j /\ i + 1 = Len(g) + (j + 1)
    BY <1>1, <1>2, <1>3, <1>4
  <2>2. (g \o Tail(d))[i] = Tail(d)[j] /\ (g \o d)[i + 1] = d[j + 1]
    BY <1>2, <1>3, <2>1
  <2> QED
    BY <1>1, <2>1, <2>2
<1> QED
  BY <1>1, <1>2, <1>3, <1>4
----------------------------------------------------------------------------
(* Order.                                                                  *)

\* q is what is left of s when some of it is taken out.
Embeds(q, s) ==
    \E m \in [1..Len(q) -> 1..Len(s)] :
        /\ \A i \in 1..Len(q) : q[i] = s[m[i]]
        /\ \A i, j \in 1..Len(q) : i < j => m[i] < m[j]

(* Every downlink is a sequence of frames.                                 *)
LEMMA DownlinkType ==
    ASSUME TypeOK, NEW c \in Conns
    PROVE  /\ got[c] \in Seq(ServerMsg) /\ down[c] \in Seq(ServerMsg)
           /\ Downlink(c) \in Seq(ServerMsg)
           /\ Len(Downlink(c)) \in Nat
           /\ \A i \in 1..Len(Downlink(c)) : Downlink(c)[i] \in ServerMsg
  BY ConcatLemma DEF TypeOK, Downlink

(* Also after a step.                                                      *)
LEMMA NextDownlinkType ==
    ASSUME TypeOK', NEW c \in Conns
    PROVE  /\ got'[c] \in Seq(ServerMsg) /\ down'[c] \in Seq(ServerMsg)
           /\ Len(Downlink(c)') \in Nat
  BY ConcatLemma DEF TypeOK, Downlink, ServerMsg

(* Losing frames keeps the rest in order, and adds no copies.              *)
LEMMA LossKeepsOrder ==
    ASSUME TypeOK, TypeOK', InOrderAndOnce, UNCHANGED pumpVars,
           \A c \in Conns :
                \/ Len(Downlink(c)') = 0
                \/ owner'[c] = owner[c] /\ Embeds(Downlink(c)', Downlink(c))
    PROVE  InOrderAndOnce'
<1>0. UNCHANGED <<target, pumped, dropped>>
  BY DEF pumpVars
<1>1. ASSUME NEW c \in Conns, NEW i \in 1..Len(Downlink(c)'),
             Downlink(c)'[i] # RegisterAck
      PROVE  /\ Downlink(c)'[i] <= pumped /\ Downlink(c)'[i] \notin dropped
             /\ target[Downlink(c)'[i]] = owner'[c]
             /\ \A j \in 1..(i - 1) : Downlink(c)'[j] < Downlink(c)'[i]
  <2>0. Len(Downlink(c)') \in Nat /\ Len(Downlink(c)) \in Nat
    BY DownlinkType, NextDownlinkType
  <2>1. owner'[c] = owner[c] /\ Embeds(Downlink(c)', Downlink(c))
    BY <2>0
  <2>2. PICK m \in [1..Len(Downlink(c)') -> 1..Len(Downlink(c))] :
            /\ \A k \in 1..Len(Downlink(c)') :
                    Downlink(c)'[k] = Downlink(c)[m[k]]
            /\ \A k, l \in 1..Len(Downlink(c)') : k < l => m[k] < m[l]
    BY <2>1 DEF Embeds
  <2>3. /\ m[i] \in 1..Len(Downlink(c))
        /\ Downlink(c)[m[i]] = Downlink(c)'[i]
    BY <2>2
  <2>4. /\ Downlink(c)[m[i]] <= pumped /\ Downlink(c)[m[i]] \notin dropped
        /\ target[Downlink(c)[m[i]]] = owner[c]
        /\ \A j \in 1..(m[i] - 1) : Downlink(c)[j] < Downlink(c)[m[i]]
    BY <1>1, <2>3 DEF InOrderAndOnce
  <2>5. ASSUME NEW j \in 1..(i - 1)
        PROVE  Downlink(c)'[j] < Downlink(c)'[i]
    <3>1. /\ j \in 1..Len(Downlink(c)') /\ j < i
      BY <2>0
    <3>2. m[j] \in 1..Len(Downlink(c)) /\ m[j] < m[i]
      BY <2>2, <3>1
    <3>3. m[j] \in 1..(m[i] - 1)
      BY <2>0, <2>3, <3>2
    <3> QED
      BY <2>2, <2>3, <2>4, <3>1, <3>3
  <2> QED
    BY <2>1, <2>3, <2>4, <2>5
<1>2. ASSUME NEW c \in Conns, NEW d \in Conns, c # d,
             NEW i \in 1..Len(Downlink(c)'), NEW j \in 1..Len(Downlink(d)'),
             Downlink(c)'[i] = Downlink(d)'[j]
      PROVE  Downlink(c)'[i] = RegisterAck
  <2>0. /\ Len(Downlink(c)') \in Nat /\ Len(Downlink(d)') \in Nat
    BY DownlinkType, NextDownlinkType
  <2>1. Embeds(Downlink(c)', Downlink(c)) /\ Embeds(Downlink(d)', Downlink(d))
    BY <2>0
  <2>2. PICK k \in 1..Len(Downlink(c)) : Downlink(c)[k] = Downlink(c)'[i]
    BY <2>1 DEF Embeds
  <2>3. PICK l \in 1..Len(Downlink(d)) : Downlink(d)[l] = Downlink(d)'[j]
    BY <2>1 DEF Embeds
  <2> QED
    BY <1>2, <2>2, <2>3 DEF InOrderAndOnce
<1> QED
  BY <1>0, <1>1, <1>2 DEF InOrderAndOnce, Downlink

(* A connection whose downlink keeps its frames keeps its order.           *)
LEMMA SameEmbeds ==
    ASSUME NEW q, NEW s, Len(s) \in Nat, Len(q) = Len(s),
           \A i \in 1..Len(s) : q[i] = s[i]
    PROVE  Embeds(q, s)
<1> DEFINE m == [i \in 1..Len(q) |-> i]
<1>1. /\ m \in [1..Len(q) -> 1..Len(s)]
      /\ \A i \in 1..Len(q) : q[i] = s[m[i]]
      /\ \A i, j \in 1..Len(q) : i < j => m[i] < m[j]
  OBVIOUS
<1> QED
  BY <1>1 DEF Embeds

(* A frame that is written leaves the downlink as it was.                  *)
LEMMA DownlinkMoves ==
    ASSUME TypeOK, TypeOK', NEW c \in Conns, Write(c)
    PROVE  /\ Len(Downlink(c)') = Len(Downlink(c))
           /\ Embeds(Downlink(c)', Downlink(c))
<1> DEFINE g == Len(got[c])
           d == Len(down[c])
<1>0. /\ got[c] \in Seq(ServerMsg) /\ down[c] \in Seq(ServerMsg)
      /\ got'[c] \in Seq(ServerMsg) /\ down'[c] \in Seq(ServerMsg)
  BY DownlinkType, NextDownlinkType
<1>1. /\ down[c] # <<>>
      /\ got'[c] = Append(got[c], Head(down[c]))
      /\ down'[c] = Tail(down[c])
  BY DEF Write, TypeOK
<1>2. /\ Head(down[c]) \in ServerMsg /\ Head(down[c]) = down[c][1]
      /\ Len(down'[c]) = d - 1 /\ d \in Nat \ {0}
      /\ \A i \in 1..(d - 1) : down'[c][i] = down[c][i + 1]
  BY <1>0, <1>1, TailLemma
<1>3. /\ Len(got'[c]) = g + 1 /\ g \in Nat
      /\ \A i \in 1..g : got'[c][i] = got[c][i]
      /\ got'[c][g + 1] = down[c][1]
  BY <1>0, <1>1, <1>2, AppendLemma
<1>4. \A s, t \in Seq(ServerMsg) :
            /\ Len(s \o t) = Len(s) + Len(t)
            /\ \A i \in 1..Len(s) : (s \o t)[i] = s[i]
            /\ \A i \in 1..Len(t) : (s \o t)[Len(s) + i] = t[i]
  BY ConcatLemma
<1>5. /\ Len(Downlink(c)) = g + d
      /\ \A i \in 1..g : Downlink(c)[i] = got[c][i]
      /\ \A i \in 1..d : Downlink(c)[g + i] = down[c][i]
  <2>1. /\ Len(got[c] \o down[c]) = Len(got[c]) + Len(down[c])
        /\ \A i \in 1..Len(got[c]) : (got[c] \o down[c])[i] = got[c][i]
        /\ \A i \in 1..Len(down[c]) :
                (got[c] \o down[c])[Len(got[c]) + i] = down[c][i]
    BY <1>0, <1>4, Zenon
  <2> QED
    BY <2>1, Zenon DEF Downlink
<1>6. /\ Len(Downlink(c)') = Len(got'[c]) + Len(down'[c])
      /\ \A i \in 1..Len(got'[c]) : Downlink(c)'[i] = got'[c][i]
      /\ \A i \in 1..Len(down'[c]) :
            Downlink(c)'[Len(got'[c]) + i] = down'[c][i]
  <2>1. /\ Len(got'[c] \o down'[c]) = Len(got'[c]) + Len(down'[c])
        /\ \A i \in 1..Len(got'[c]) : (got'[c] \o down'[c])[i] = got'[c][i]
        /\ \A i \in 1..Len(down'[c]) :
                (got'[c] \o down'[c])[Len(got'[c]) + i] = down'[c][i]
    BY <1>0, <1>4, Zenon
  <2> QED
    BY <2>1, Zenon DEF Downlink
<1> HIDE DEF g, d
<1>7. ASSUME NEW i \in 1..Len(Downlink(c))
      PROVE  Downlink(c)'[i] = Downlink(c)[i]
  <2>1. CASE i \in 1..g
    BY <1>2, <1>3, <1>5, <1>6, <2>1
  <2>2. CASE i = g + 1
    BY <1>2, <1>3, <1>5, <1>6, <2>2
  <2>3. CASE i > g + 1
    <3> DEFINE j == i - (g + 1)
    <3>1. /\ j \in 1..(d - 1) /\ j + 1 \in 1..d
          /\ i = (g + 1) + j /\ i = g + (j + 1)
      BY <1>2, <1>3, <1>5, <2>3
    <3> HIDE DEF j
    <3>2. Downlink(c)'[(g + 1) + j] = down'[c][j]
      BY <1>2, <1>3, <1>6, <3>1
    <3>3. Downlink(c)[g + (j + 1)] = down[c][j + 1]
      BY <1>5, <3>1
    <3> QED
      BY <1>2, <3>1, <3>2, <3>3
  <2> QED
    BY <1>2, <1>3, <1>5, <2>1, <2>2, <2>3
<1>8. Len(Downlink(c)') = Len(Downlink(c)) /\ Len(Downlink(c)) \in Nat
  BY <1>2, <1>3, <1>5, <1>6
<1> QED
  BY <1>7, <1>8, SameEmbeds

(* A frame that is lost from the channel leaves the others in order.       *)
LEMMA TailEmbeds ==
    ASSUME NEW S, NEW g \in Seq(S), NEW d \in Seq(S), d # <<>>
    PROVE  Embeds(g \o Tail(d), g \o d)
<1> DEFINE q == g \o Tail(d)
           s == g \o d
           m == [i \in 1..Len(q) |-> IF i <= Len(g) THEN i ELSE i + 1]
<1>1. /\ Len(q) = Len(s) - 1
      /\ Len(g) \in Nat /\ Len(s) \in Nat
      /\ \A i \in 1..Len(q) : q[i] = s[IF i <= Len(g) THEN i ELSE i + 1]
  BY DownlinkShrinks
<1> HIDE DEF q, s
<1>2. /\ m \in [1..Len(q) -> 1..Len(s)]
      /\ \A i \in 1..Len(q) : q[i] = s[m[i]]
      /\ \A i, j \in 1..Len(q) : i < j => m[i] < m[j]
  BY <1>1
<1>3. Embeds(q, s)
  BY <1>2 DEF Embeds
<1> QED
  BY <1>3 DEF q, s

(* Without its channel a downlink is what the robot has received.          *)
LEMMA EmptyEmbeds ==
    ASSUME NEW S, NEW g \in Seq(S), NEW d \in Seq(S)
    PROVE  Embeds(g \o <<>>, g \o d)
<1> DEFINE q == g \o <<>>
           s == g \o d
           m == [i \in 1..Len(q) |-> i]
<1>1. /\ Len(s) = Len(g) + Len(d) /\ Len(g) \in Nat /\ Len(d) \in Nat
      /\ \A i \in 1..Len(g) : s[i] = g[i]
  BY ConcatLemma
<1>2. Len(q) = Len(g) /\ \A i \in 1..Len(g) : q[i] = g[i]
  <2>1. <<>> \in Seq(S) /\ Len(<<>>) = 0
    OBVIOUS
  <2> QED
    BY <2>1, ConcatLemma
<1> HIDE DEF q, s
<1>3. /\ m \in [1..Len(q) -> 1..Len(s)]
      /\ \A i \in 1..Len(q) : q[i] = s[m[i]]
      /\ \A i, j \in 1..Len(q) : i < j => m[i] < m[j]
  BY <1>1, <1>2
<1>4. Embeds(q, s)
  BY <1>3 DEF Embeds
<1> QED
  BY <1>4 DEF q, s

(* What a handler or the pump sends is the last frame of the downlink.     *)
LEMMA AppendedDownlink ==
    ASSUME TypeOK, NEW c \in Conns, NEW e \in ServerMsg, UNCHANGED got,
           down' = [down EXCEPT ![c] = Append(@, e)]
    PROVE  /\ Len(Downlink(c)) \in Nat
           /\ Len(Downlink(c)') = Len(Downlink(c)) + 1
           /\ \A i \in 1..Len(Downlink(c)) : Downlink(c)'[i] = Downlink(c)[i]
           /\ Downlink(c)'[Len(Downlink(c)) + 1] = e
<1>1. /\ got[c] \in Seq(ServerMsg) /\ down[c] \in Seq(ServerMsg)
      /\ got'[c] = got[c] /\ down'[c] = Append(down[c], e)
  BY DownlinkType DEF TypeOK
<1>2. /\ Len(got[c] \o down[c]) \in Nat
      /\ Len(got[c] \o Append(down[c], e)) = Len(got[c] \o down[c]) + 1
      /\ \A i \in 1..Len(got[c] \o down[c]) :
                (got[c] \o Append(down[c], e))[i] = (got[c] \o down[c])[i]
      /\ (got[c] \o Append(down[c], e))[Len(got[c] \o down[c]) + 1] = e
  <2>1. \A g, d \in Seq(ServerMsg), x \in ServerMsg :
            /\ Len(g \o d) \in Nat
            /\ Len(g \o Append(d, x)) = Len(g \o d) + 1
            /\ \A i \in 1..Len(g \o d) : (g \o Append(d, x))[i] = (g \o d)[i]
            /\ (g \o Append(d, x))[Len(g \o d) + 1] = x
    BY DownlinkGrows
  <2> QED
    BY <1>1, <2>1, Zenon
<1>3. Downlink(c)' = got[c] \o Append(down[c], e)
  BY <1>1 DEF Downlink
<1> QED
  BY <1>2, <1>3 DEF Downlink

(* A new frame at the end of one downlink keeps the order if it is the     *)
(* acknowledgement, or an assignment to its robot with a number that none  *)
(* had before.                                                             *)
LEMMA GrowthKeepsOrder ==
    ASSUME TypeOK, TypeOK', InOrderAndOnce, NEW c \in Conns,
           NEW e \in ServerMsg,
           UNCHANGED <<owner, got, target>>,
           down' = [down EXCEPT ![c] = Append(@, e)],
           pumped' \in {pumped, pumped + 1}, UNCHANGED dropped,
           \/ e = RegisterAck
           \/ e = pumped + 1 /\ pumped' = e /\ target[e] = owner[c]
    PROVE  InOrderAndOnce'
<1>0. /\ pumped \in Nat /\ dropped \subseteq 1..pumped
      /\ ServerMsg \subseteq Nat /\ RegisterAck = 0
  BY DEF TypeOK, ServerMsg, RegisterAck
<1>1. /\ Len(Downlink(c)) \in Nat
      /\ Len(Downlink(c)') = Len(Downlink(c)) + 1
      /\ \A i \in 1..Len(Downlink(c)) : Downlink(c)'[i] = Downlink(c)[i]
      /\ Downlink(c)'[Len(Downlink(c)) + 1] = e
  BY AppendedDownlink
<1>2. \A d \in Conns \ {c} : Downlink(d)' = Downlink(d)
  BY DEF Downlink, TypeOK
<1>3. ASSUME NEW d \in Conns, NEW i \in 1..Len(Downlink(d))
      PROVE  /\ Downlink(d)[i] \in Nat
             /\ Downlink(d)[i] # RegisterAck =>
                    /\ Downlink(d)[i] <= pumped
                    /\ Downlink(d)[i] \notin dropped
                    /\ target[Downlink(d)[i]] = owner[d]
                    /\ \A j \in 1..(i - 1) : Downlink(d)[j] < Downlink(d)[i]
  BY <1>0, DownlinkType DEF InOrderAndOnce
<1>4. ASSUME NEW d \in Conns, NEW i \in 1..Len(Downlink(d)')
      PROVE  IF d = c /\ i = Len(Downlink(c)) + 1
             THEN Downlink(d)'[i] = e
             ELSE /\ i \in 1..Len(Downlink(d))
                  /\ Downlink(d)'[i] = Downlink(d)[i]
  BY <1>1, <1>2
<1>5. ASSUME NEW d \in Conns, NEW i \in 1..Len(Downlink(d)'),
             Downlink(d)'[i] # RegisterAck
      PROVE  /\ Downlink(d)'[i] <= pumped' /\ Downlink(d)'[i] \notin dropped'
             /\ target'[Downlink(d)'[i]] = owner'[d]
             /\ \A j \in 1..(i - 1) : Downlink(d)'[j] < Downlink(d)'[i]
  <2>1. CASE d = c /\ i = Len(Downlink(c)) + 1
    <3>1. Downlink(d)'[i] = e /\ e = pumped + 1 /\ pumped' = e
      BY <1>4, <1>5, <2>1
    <3>2. ASSUME NEW j \in 1..(i - 1) PROVE Downlink(d)'[j] < e
      <4>1. j \in 1..Len(Downlink(c)) /\ Downlink(d)'[j] = Downlink(c)[j]
        BY <1>1, <2>1
      <4> QED
        BY <1>0, <1>3, <3>1, <4>1
    <3> QED
      BY <1>0, <1>5, <2>1, <3>1, <3>2
  <2>2. CASE ~(d = c /\ i = Len(Downlink(c)) + 1)
    <3>1. i \in 1..Len(Downlink(d)) /\ Downlink(d)'[i] = Downlink(d)[i]
      BY <1>4, <2>2
    <3>2. ASSUME NEW j \in 1..(i - 1)
          PROVE  Downlink(d)'[j] < Downlink(d)'[i]
      <4>1. /\ j \in 1..Len(Downlink(d)) /\ j \in 1..Len(Downlink(d)')
            /\ ~(d = c /\ j = Len(Downlink(c)) + 1)
        <5>1. Len(Downlink(d)) \in Nat /\ Len(Downlink(d)') \in Nat
          BY DownlinkType, NextDownlinkType
        <5> QED
          BY <1>1, <2>2, <3>1, <5>1
      <4>2. Downlink(d)'[j] = Downlink(d)[j]
        BY <1>4, <4>1
      <4> QED
        BY <1>3, <1>5, <3>1, <4>2
    <3> QED
      BY <1>0, <1>3, <1>5, <3>1, <3>2
  <2> QED
    BY <2>1, <2>2
<1>6. ASSUME NEW b \in Conns, NEW d \in Conns, b # d,
             NEW i \in 1..Len(Downlink(b)'), NEW j \in 1..Len(Downlink(d)'),
             Downlink(b)'[i] = Downlink(d)'[j], Downlink(b)'[i] # RegisterAck
      PROVE  FALSE
  <2>1. ASSUME NEW f \in Conns, NEW k \in 1..Len(Downlink(f)'),
               Downlink(f)'[k] = e, e # RegisterAck
        PROVE  f = c /\ k = Len(Downlink(c)) + 1
    BY <1>0, <1>3, <1>4, <2>1
  <2>2. CASE Downlink(b)'[i] = e
    BY <1>6, <2>1, <2>2
  <2>3. CASE Downlink(b)'[i] # e
    <3>1. /\ i \in 1..Len(Downlink(b)) /\ Downlink(b)'[i] = Downlink(b)[i]
          /\ j \in 1..Len(Downlink(d)) /\ Downlink(d)'[j] = Downlink(d)[j]
      <4>1. ~(b = c /\ i = Len(Downlink(c)) + 1)
        BY <1>4, <2>3
      <4>2. ~(d = c /\ j = Len(Downlink(c)) + 1)
        BY <1>4, <1>6, <2>3
      <4> QED
        BY <1>4, <4>1, <4>2
    <3>2. Downlink(b)[i] = Downlink(d)[j] => Downlink(b)[i] = RegisterAck
      BY <1>6, <3>1 DEF InOrderAndOnce
    <3> QED
      BY <1>6, <3>1, <3>2
  <2> QED
    BY <2>2, <2>3
<1>7. \A b, d \in Conns :
        \A i \in 1..Len(Downlink(b)'), j \in 1..Len(Downlink(d)') :
            Downlink(b)'[i] = Downlink(d)'[j] /\ b # d
                => Downlink(b)'[i] = RegisterAck
  BY <1>6
<1> QED
  BY <1>5, <1>7 DEF InOrderAndOnce, Downlink

(* Every step keeps the order on the downlinks.                            *)
LEMMA OrderStep ==
    ASSUME Inv, TypeOK', [Next]_vars
    PROVE  InOrderAndOnce'
<1> USE DEF Inv
<1>0. \A c \in Conns :
        /\ got[c] \in Seq(ServerMsg) /\ down[c] \in Seq(ServerMsg)
        /\ Len(Downlink(c)) \in Nat
        /\ \A i \in 1..Len(Downlink(c)) : Downlink(c)[i] \in ServerMsg
  BY DownlinkType
<1>1. CASE UNCHANGED <<owner, got, down, target, pumped, dropped>>
  <2>1. \A c \in Conns : Downlink(c)' = Downlink(c)
    BY <1>1 DEF Downlink
  <2> QED
    BY <1>1, <2>1 DEF InOrderAndOnce
<1>2. ASSUME NEW c \in Conns, NEW r \in Robots, Connect(c, r)
      PROVE  InOrderAndOnce'
  <2>1. /\ UNCHANGED pumpVars
        /\ \A d \in Conns : Downlink(d)' = Downlink(d)
        /\ \A d \in Conns \ {c} : owner'[d] = owner[d]
    BY <1>2 DEF Connect, Downlink, TypeOK
  <2>2. Len(Downlink(c)') = 0
    <3>1. got[c] = <<>> /\ down[c] = <<>>
      BY <1>2 DEF Connect, Opened
    <3>2. Downlink(c) = <<>> \o <<>>
      BY <3>1 DEF Downlink
    <3>3. <<>> \in Seq(ServerMsg) /\ Len(<<>>) = 0
      OBVIOUS
    <3>4. Len(Downlink(c)) = 0
      BY <3>2, <3>3, ConcatLemma
    <3> QED
      BY <2>1, <3>4
  <2>3. \A d \in Conns \ {c} : Embeds(Downlink(d)', Downlink(d))
    BY <1>0, <2>1, SameEmbeds
  <2> QED
    BY <2>1, <2>2, <2>3, LossKeepsOrder
<1>3. ASSUME NEW c \in Conns, Acknowledge(c) PROVE InOrderAndOnce'
  <2>1. RegisterAck \in ServerMsg
    BY DEF RegisterAck, ServerMsg
  <2>2. /\ UNCHANGED <<owner, got, target>>
        /\ down' = [down EXCEPT ![c] = Append(@, RegisterAck)]
        /\ pumped' \in {pumped, pumped + 1} /\ UNCHANGED dropped
    BY <1>3 DEF Acknowledge, pumpVars
  <2> QED
    BY <2>1, <2>2, GrowthKeepsOrder
<1>4. ASSUME NEW c \in Conns, UNCHANGED <<owner, pumpVars>>,
             \A d \in Conns \ {c} : Downlink(d)' = Downlink(d),
             Embeds(Downlink(c)', Downlink(c))
      PROVE  InOrderAndOnce'
  <2>1. \A d \in Conns \ {c} : Embeds(Downlink(d)', Downlink(d))
    BY <1>0, <1>4, SameEmbeds
  <2> QED
    BY <1>4, <2>1, LossKeepsOrder
<1>5. ASSUME NEW c \in Conns, Write(c) PROVE InOrderAndOnce'
  <2>1. /\ UNCHANGED <<owner, pumpVars>>
        /\ \A d \in Conns \ {c} : Downlink(d)' = Downlink(d)
    BY <1>5 DEF Write, Downlink, TypeOK
  <2>2. Embeds(Downlink(c)', Downlink(c))
    BY <1>5, DownlinkMoves
  <2> QED
    BY <1>4, <2>1, <2>2
<1>6. ASSUME NEW c \in Conns, WriteInVain(c) PROVE InOrderAndOnce'
  <2>1. /\ UNCHANGED <<owner, pumpVars>>
        /\ \A d \in Conns \ {c} : Downlink(d)' = Downlink(d)
    BY <1>6 DEF WriteInVain, Downlink, TypeOK
  <2>2. /\ down[c] # <<>>
        /\ got'[c] = got[c]
        /\ down'[c] = Tail(down[c]) \/ down'[c] = <<>>
    BY <1>6 DEF WriteInVain, TypeOK
  <2>3. Embeds(got[c] \o Tail(down[c]), got[c] \o down[c])
    BY <1>0, <2>2, TailEmbeds
  <2>4. Embeds(got[c] \o <<>>, got[c] \o down[c])
    BY <1>0, EmptyEmbeds
  <2>5. Embeds(Downlink(c)', Downlink(c))
    BY <2>2, <2>3, <2>4 DEF Downlink
  <2> QED
    BY <1>4, <2>1, <2>5
<1>7. ASSUME NEW r \in Robots, Dispatch(r) PROVE InOrderAndOnce'
  <2>1. /\ UNCHANGED <<owner, got, down, pumped, dropped>>
        /\ \A c \in Conns : Downlink(c)' = Downlink(c)
    BY <1>7 DEF Dispatch, Downlink, serverVars
  <2>2. /\ pumped \in 0..Len(target) /\ Len(target) \in Nat
        /\ \A n \in 1..Len(target) : target'[n] = target[n]
    BY <1>7, AppendLemma DEF Dispatch, TypeOK
  <2>3. ASSUME NEW c \in Conns, NEW i \in 1..Len(Downlink(c)),
               Downlink(c)[i] # RegisterAck, Downlink(c)[i] <= pumped
        PROVE  target'[Downlink(c)[i]] = target[Downlink(c)[i]]
    <3>1. Downlink(c)[i] \in 1..Len(target)
      BY <1>0, <2>2, <2>3 DEF ServerMsg, RegisterAck
    <3> QED
      BY <2>2, <3>1
  <2> QED
    BY <2>1, <2>3 DEF InOrderAndOnce
<1>8. CASE Pump
  <2> DEFINE n == pumped + 1
             c == registry[target[n]]
  <2>0. /\ pumped \in Nat /\ n \in 1..Len(target) /\ n \in ServerMsg
        /\ target[n] \in Robots
        /\ pumped' = n
        /\ UNCHANGED <<owner, got, target>>
    BY <1>8 DEF Pump, TypeOK, ServerMsg
  <2>1. CASE c \in Conns /\ writer[c] # "ended"
    <3>1. owner[c] = target[n]
      BY <2>0, <2>1 DEF EntryIsServed
    <3>2. UNCHANGED dropped /\ down' = [down EXCEPT ![c] = Append(@, n)]
      BY <1>8, <2>1 DEF Pump, Conns, NoConn
    <3> HIDE DEF c
    <3> QED
      BY <2>0, <2>1, <3>1, <3>2, GrowthKeepsOrder
  <2>2. CASE ~(c \in Conns /\ writer[c] # "ended")
    <3>1. UNCHANGED down /\ dropped' \in {dropped, dropped \cup {n}}
      BY <1>8, <2>2 DEF Pump
    <3>2. \A d \in Conns : Downlink(d)' = Downlink(d)
      BY <2>0, <3>1 DEF Downlink
    <3>3. \A d \in Conns : \A i \in 1..Len(Downlink(d)) :
                Downlink(d)[i] \in Nat
      BY <1>0 DEF ServerMsg
    <3> QED
      BY <2>0, <3>1, <3>2, <3>3 DEF InOrderAndOnce
  <2> QED
    BY <2>1, <2>2
<1>9. ASSUME NEW c \in Conns,
             \/ \E f \in ClientMsg : SendUp(c, f)
             \/ Close(c) \/ ReadFirst(c) \/ Insert(c) \/ Read(c) \/ Unlist(c)
             \/ Release(c) \/ Join(c) \/ WriterEnds(c)
      PROVE  UNCHANGED <<owner, got, down, target, pumped, dropped>>
  BY <1>9 DEF SendUp, Close, ReadFirst, Insert, Read, Unlist, Release, Join,
              WriterEnds, serverVars, pumpVars
<1>10. UNCHANGED vars
            => UNCHANGED <<owner, got, down, target, pumped, dropped>>
  BY DEF vars, serverVars, pumpVars
<1> QED
  BY <1>1, <1>2, <1>3, <1>5, <1>6, <1>7, <1>8, <1>9, <1>10
  DEF Next, Fleet, HandlerStep, WriterStep

----------------------------------------------------------------------------
(* Types and the registry.                                                 *)

(* What a handler leaves in the socket is a sequence of frames.            *)
LEMMA ReadTyping ==
    ASSUME TypeOK, NEW c \in Conns, ReadFirst(c) \/ Read(c)
    PROVE  up' \in [Conns -> Seq(ClientMsg)]
<1>1. up \in [Conns -> Seq(ClientMsg)] /\ <<>> \in Seq(ClientMsg)
  BY DEF TypeOK
<1>2. CASE up' = [up EXCEPT ![c] = <<>>]
  BY <1>1, <1>2
<1>3. CASE up[c] # <<>> /\ up' = [up EXCEPT ![c] = Tail(@)]
  <2>1. Tail(up[c]) \in Seq(ClientMsg)
    BY <1>1, <1>3, TailLemma
  <2> QED
    BY <1>1, <1>3, <2>1
<1> QED
  BY <1>2, <1>3 DEF ReadFirst, Read, Frame, Hangup

(* Every variable keeps its type.                                          *)
LEMMA TypeStep ==
    ASSUME Inv, [Next]_vars
    PROVE  TypeOK'
<1> USE DEF Inv, TypeOK
<1>1. ASSUME NEW c \in Conns, NEW r \in Robots, Connect(c, r) PROVE TypeOK'
  BY <1>1 DEF Connect, pumpVars, Phases
<1>2. ASSUME NEW c \in Conns, NEW f \in ClientMsg, SendUp(c, f) PROVE TypeOK'
  BY <1>2, AppendLemma DEF SendUp, serverVars, pumpVars
<1>3. ASSUME NEW c \in Conns, Close(c) PROVE TypeOK'
  BY <1>3 DEF Close, serverVars, pumpVars
<1>4. ASSUME NEW c \in Conns, ReadFirst(c) PROVE TypeOK'
  <2>1. owner[c] \in Robots
    BY <1>4 DEF ReadFirst, Opened, Frame, Hangup
  <2>2. up' \in [Conns -> Seq(ClientMsg)]
    BY <1>4, ReadTyping
  <2> QED
    BY <1>4, <2>1, <2>2 DEF ReadFirst, MoveTo, Phases, pumpVars
<1>5. ASSUME NEW c \in Conns, Insert(c) PROVE TypeOK'
  BY <1>5 DEF Insert, MoveTo, Phases, pumpVars
<1>6. ASSUME NEW c \in Conns, Acknowledge(c) PROVE TypeOK'
  BY <1>6, AppendLemma
  DEF Acknowledge, MoveTo, Phases, pumpVars, ServerMsg, RegisterAck
<1>7. ASSUME NEW c \in Conns, Read(c) PROVE TypeOK'
  <2>1. up' \in [Conns -> Seq(ClientMsg)]
    BY <1>7, ReadTyping
  <2> QED
    BY <1>7, <2>1 DEF Read, MoveTo, Phases, pumpVars
<1>8. ASSUME NEW c \in Conns, Unlist(c) PROVE TypeOK'
  BY <1>8 DEF Unlist, MoveTo, Phases, pumpVars
<1>9. ASSUME NEW c \in Conns, Release(c) \/ Join(c) PROVE TypeOK'
  BY <1>9 DEF Release, Join, MoveTo, Phases, pumpVars
<1>10. ASSUME NEW c \in Conns, Write(c) PROVE TypeOK'
  BY <1>10, AppendLemma, TailLemma DEF Write, pumpVars
<1>11. ASSUME NEW c \in Conns, WriteInVain(c) PROVE TypeOK'
  <2>1. down' \in [Conns -> Seq(ServerMsg)]
    <3>1. down[c] \in Seq(ServerMsg) /\ down[c] # <<>>
      BY <1>11 DEF WriteInVain
    <3>2. Tail(down[c]) \in Seq(ServerMsg) /\ <<>> \in Seq(ServerMsg)
      BY <3>1, TailLemma
    <3> QED
      BY <1>11, <3>2 DEF WriteInVain
  <2> QED
    BY <1>11, <2>1 DEF WriteInVain, pumpVars
<1>12. ASSUME NEW c \in Conns, WriterEnds(c) PROVE TypeOK'
  BY <1>12 DEF WriterEnds, pumpVars
<1>13. ASSUME NEW r \in Robots, Dispatch(r) PROVE TypeOK'
  BY <1>13, AppendLemma DEF Dispatch, serverVars
<1>14. CASE Pump
  <2>1. pumped + 1 \in 1..Len(target) /\ pumped + 1 \in ServerMsg
    BY <1>14 DEF Pump, ServerMsg
  <2>2. down' \in [Conns -> Seq(ServerMsg)]
    BY <1>14, <2>1, AppendLemma DEF Pump
  <2> QED
    BY <1>14, <2>1, <2>2 DEF Pump
<1>15. CASE UNCHANGED vars
  BY <1>15 DEF vars, serverVars, pumpVars
<1> QED
  BY <1>1, <1>2, <1>3, <1>4, <1>5, <1>6, <1>7, <1>8, <1>9, <1>10, <1>11,
     <1>12, <1>13, <1>14, <1>15
  DEF Next, Fleet, HandlerStep, WriterStep

(* A handler that moves on keeps both, if it does not leave the phases in  *)
(* which its connection may be listed.                                     *)
LEMMA HandlerMoves ==
    ASSUME Inv, NEW c \in Conns, NEW phase \in Phases \ {"none"},
           handler[c] # "none",
           handler[c] \in {"listed", "reading", "unlisting"}
                => phase \in {"listed", "reading", "unlisting"},
           handler' = [handler EXCEPT ![c] = phase],
           UNCHANGED <<registry, owner, client, got, down>>
    PROVE  Opened' /\ EntryIsServed'
<1>1. Opened'
  BY DEF Inv, TypeOK, Opened
<1>2. EntryIsServed'
  BY DEF Inv, TypeOK, EntryIsServed
<1> QED
  BY <1>1, <1>2

(* A connection has traffic, a robot and a handler only once it is open,   *)
(* and the registry's entries stay with handlers that will remove them.    *)
LEMMA RegistryStep ==
    ASSUME Inv, [Next]_vars
    PROVE  Opened' /\ EntryIsServed'
<1> USE DEF Inv, TypeOK, Opened, EntryIsServed
<1>1. ASSUME NEW c \in Conns, NEW r \in Robots, Connect(c, r)
      PROVE  Opened' /\ EntryIsServed'
  BY <1>1 DEF Connect
<1>2. ASSUME NEW c \in Conns, NEW f \in ClientMsg, SendUp(c, f)
      PROVE  Opened' /\ EntryIsServed'
  BY <1>2 DEF SendUp, serverVars
<1>3. ASSUME NEW c \in Conns, Close(c) PROVE Opened' /\ EntryIsServed'
  BY <1>3 DEF Close, serverVars
<1>4. ASSUME NEW c \in Conns, ReadFirst(c) PROVE Opened' /\ EntryIsServed'
  <2>1. CASE UNCHANGED handler
    BY <1>4, <2>1 DEF ReadFirst
  <2>2. CASE \E phase \in {"onboarded", "refused"} : MoveTo(c, phase)
    BY <1>4, <2>2, HandlerMoves DEF ReadFirst, MoveTo, Phases
  <2> QED
    BY <1>4, <2>1, <2>2 DEF ReadFirst
<1>5. ASSUME NEW c \in Conns, Insert(c) PROVE Opened' /\ EntryIsServed'
  BY <1>5 DEF Insert, MoveTo
<1>6. ASSUME NEW c \in Conns, Acknowledge(c) PROVE Opened' /\ EntryIsServed'
  BY <1>6 DEF Acknowledge, MoveTo
<1>7. ASSUME NEW c \in Conns, Read(c) PROVE Opened' /\ EntryIsServed'
  <2>1. CASE UNCHANGED handler
    BY <1>7, <2>1 DEF Read
  <2>2. CASE MoveTo(c, "unlisting")
    BY <1>7, <2>2, HandlerMoves DEF Read, MoveTo, Phases
  <2> QED
    BY <1>7, <2>1, <2>2 DEF Read
<1>8. ASSUME NEW c \in Conns, Unlist(c) PROVE Opened' /\ EntryIsServed'
  BY <1>8 DEF Unlist, MoveTo, NoConn, Conns
<1>9. ASSUME NEW c \in Conns, Release(c) \/ Join(c)
      PROVE  Opened' /\ EntryIsServed'
  <2>1. CASE Release(c)
    <3>1. MoveTo(c, "joining") /\ handler[c] = "releasing"
      BY <2>1 DEF Release
    <3>2. UNCHANGED <<registry, owner, client, got, down>>
      BY <2>1 DEF Release
    <3> QED
      BY <3>1, <3>2, HandlerMoves DEF MoveTo, Phases
  <2>2. CASE Join(c)
    <3>1. MoveTo(c, "ended") /\ handler[c] = "joining"
      BY <2>2 DEF Join
    <3>2. UNCHANGED <<registry, owner, client, got, down>>
      BY <2>2 DEF Join
    <3> QED
      BY <3>1, <3>2, HandlerMoves DEF MoveTo, Phases
  <2> QED
    BY <1>9, <2>1, <2>2
<1>10. ASSUME NEW c \in Conns, Write(c) \/ WriteInVain(c) \/ WriterEnds(c)
       PROVE  Opened' /\ EntryIsServed'
  BY <1>10 DEF Write, WriteInVain, WriterEnds
<1>11. ASSUME NEW r \in Robots, Dispatch(r) PROVE Opened' /\ EntryIsServed'
  BY <1>11 DEF Dispatch, serverVars
<1>12. CASE Pump
  <2>1. target[pumped + 1] \in Robots
    BY <1>12 DEF Pump
  <2>2. /\ UNCHANGED <<registry, owner, client, got, handler>>
        /\ \A c \in Conns :
                c # registry[target[pumped + 1]] => down'[c] = down[c]
    BY <1>12 DEF Pump
  <2>3. \A r \in Robots, c \in Conns :
            registry[r] = c => client[c] # "unused"
    BY ONLY EntryIsServed, Opened DEF EntryIsServed, Opened
  <2>4. \A c \in Conns : client[c] = "unused" => down'[c] = down[c]
    BY ONLY <2>1, <2>2, <2>3
  <2>5. Opened'
    BY ONLY <2>2, <2>4, Opened DEF Opened
  <2>6. EntryIsServed'
    BY ONLY <2>2, EntryIsServed DEF EntryIsServed
  <2> QED
    BY <2>5, <2>6
<1>13. CASE UNCHANGED vars
  BY <1>13 DEF vars, serverVars
<1> QED
  BY <1>1, <1>2, <1>3, <1>4, <1>5, <1>6, <1>7, <1>8, <1>9, <1>10, <1>11,
     <1>12, <1>13
  DEF Next, Fleet, HandlerStep, WriterStep

----------------------------------------------------------------------------
(* The theorems.                                                           *)

(* The inductive invariant: types, registry and order hold together, since *)
(* the pump relies on the registry for whose connection it sends into.     *)
THEOREM Invariance == Spec => []Inv
<1>1. Init => Inv
  <2> SUFFICES ASSUME Init PROVE Inv
    OBVIOUS
  <2>1. TypeOK
    BY DEF Init, TypeOK, Phases, Conns, NoConn
  <2>2. Opened /\ EntryIsServed
    BY DEF Init, Opened, EntryIsServed, Conns, NoConn
  <2>3. \A c \in Conns : Len(Downlink(c)) = 0
    BY DEF Init, Downlink
  <2>4. InOrderAndOnce
    BY <2>3 DEF InOrderAndOnce
  <2> QED
    BY <2>1, <2>2, <2>4 DEF Inv
<1>2. Inv /\ [Next]_vars => Inv'
  BY TypeStep, RegistryStep, OrderStep DEF Inv
<1> QED
  BY <1>1, <1>2, PTL DEF Spec

(* Every variable keeps its type: the pump never gets ahead of what was    *)
(* dispatched, and has dropped only what it took.                          *)
THEOREM Typing == Spec => []TypeOK
<1>1. Inv => TypeOK
  BY DEF Inv
<1> QED
  BY <1>1, Invariance, PTL

(* The registry names only connections of the robot whose handler has yet  *)
(* to take the entry off.                                                  *)
THEOREM Served == Spec => []EntryIsServed
<1>1. Inv => EntryIsServed
  BY DEF Inv
<1> QED
  BY <1>1, Invariance, PTL

(* Assignments go down in order, to their robot, and at most once, however *)
(* its connections overlap.                                                *)
THEOREM Delivery == Spec => []InOrderAndOnce
<1>1. Inv => InOrderAndOnce
  BY DEF Inv
<1> QED
  BY <1>1, Invariance, PTL

----------------------------------------------------------------------------
(* Nothing is lost.                                                        *)

(* A downlink gets shorter in one way only: a frame is written to a robot  *)
(* that has gone.                                                          *)
LEMMA LossStep ==
    ASSUME TypeOK, TypeOK', [Next]_vars
    PROVE  \A c \in Conns :
                Len(Downlink(c)') < Len(Downlink(c)) => client[c] = "closed"
<1> SUFFICES ASSUME NEW b \in Conns, client[b] # "closed"
             PROVE  ~(Len(Downlink(b)') < Len(Downlink(b)))
  OBVIOUS
<1>0. got[b] \in Seq(ServerMsg) /\ down[b] \in Seq(ServerMsg)
      /\ Len(Downlink(b)) \in Nat
  BY DownlinkType
<1>1. CASE got'[b] = got[b] /\ down'[b] = down[b]
  <2>1. Downlink(b)' = Downlink(b)
    BY <1>1 DEF Downlink
  <2> QED
    BY <1>0, <2>1
<1>2. ASSUME NEW e \in ServerMsg, UNCHANGED got,
             down' = [down EXCEPT ![b] = Append(@, e)]
      PROVE  ~(Len(Downlink(b)') < Len(Downlink(b)))
  <2>1. Len(Downlink(b)') = Len(Downlink(b)) + 1
    BY <1>2, AppendedDownlink
  <2> QED
    BY <1>0, <2>1
<1>3. ASSUME NEW c \in Conns, Acknowledge(c)
      PROVE  ~(Len(Downlink(b)') < Len(Downlink(b)))
  <2>1. RegisterAck \in ServerMsg
    BY DEF RegisterAck, ServerMsg
  <2>2. /\ UNCHANGED got
        /\ down' = [down EXCEPT ![c] = Append(@, RegisterAck)]
    BY <1>3 DEF Acknowledge
  <2> QED
    BY <1>1, <1>2, <2>1, <2>2 DEF TypeOK
<1>4. ASSUME NEW c \in Conns, Write(c)
      PROVE  ~(Len(Downlink(b)') < Len(Downlink(b)))
  <2>1. CASE c = b
    <3>1. Len(Downlink(b)') = Len(Downlink(b))
      BY <1>4, <2>1, DownlinkMoves
    <3> QED
      BY <1>0, <3>1
  <2>2. CASE c # b
    BY <1>1, <1>4, <2>2 DEF Write, TypeOK
  <2> QED
    BY <2>1, <2>2
<1>5. ASSUME NEW c \in Conns, WriteInVain(c)
      PROVE  ~(Len(Downlink(b)') < Len(Downlink(b)))
  BY <1>1, <1>5 DEF WriteInVain, TypeOK
<1>6. CASE Pump
  <2> DEFINE n == pumped + 1
             c == registry[target[n]]
  <2>1. n \in ServerMsg /\ UNCHANGED got
    BY <1>6 DEF Pump, TypeOK, ServerMsg
  <2>2. \/ UNCHANGED down
        \/ c \in Conns /\ down' = [down EXCEPT ![c] = Append(@, n)]
    BY <1>6 DEF Pump
  <2> HIDE DEF n, c
  <2> QED
    BY <1>1, <1>2, <2>1, <2>2 DEF TypeOK
<1>7. ASSUME NEW c \in Conns,
             \/ \E r \in Robots : Connect(c, r)
             \/ \E f \in ClientMsg : SendUp(c, f)
             \/ Close(c) \/ ReadFirst(c) \/ Insert(c) \/ Read(c) \/ Unlist(c)
             \/ Release(c) \/ Join(c) \/ WriterEnds(c)
      PROVE  UNCHANGED <<got, down>>
  BY <1>7 DEF Connect, SendUp, Close, ReadFirst, Insert, Read, Unlist,
              Release, Join, WriterEnds, serverVars
<1>8. ASSUME NEW r \in Robots, Dispatch(r) PROVE UNCHANGED <<got, down>>
  BY <1>8 DEF Dispatch, serverVars
<1>9. UNCHANGED vars => UNCHANGED <<got, down>>
  BY DEF vars, serverVars
<1> QED
  BY <1>1, <1>3, <1>4, <1>5, <1>6, <1>7, <1>8, <1>9
  DEF Next, Fleet, HandlerStep, WriterStep

(* What the pump has put into a channel is lost only with the robot,       *)
(* whatever the server does with the connection (handle_connection: the    *)
(* writer empties the channel before it ends).                             *)
THEOREM Lossless == Spec => NothingLost
<1>1. Inv /\ Inv' /\ [Next]_vars
        => [\A c \in Conns : Len(Downlink(c)') < Len(Downlink(c))
                                => client[c] = "closed"]_vars
  BY LossStep DEF Inv
<1> QED
  BY <1>1, Invariance, PTL DEF Spec, NothingLost
=============================================================================
