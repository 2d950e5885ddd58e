--------------------------- MODULE ConflictProofs ---------------------------
(***************************************************************************)
(* The cycles that ConflictAnalysis reports are cycles of the wait-for     *)
(* graph, no jam goes without a report unless the limit was reached, and   *)
(* who gives way is the least urgent: for any fleet, any positions and any *)
(* limit.                                                                  *)
(***************************************************************************)
EXTENDS ConflictAnalysis, SequenceTheorems, WellFoundedInduction, TLAPS

\* The path leads along edges, it crosses itself nowhere, the grey robots
\* are those on it, and what is still to be looked at are neighbours.
OnPath ==
    /\ \A i \in 1..(Len(path) - 1) : path[i + 1] \in adj[path[i]]
    /\ \A i, j \in 1..Len(path) : path[i] = path[j] => i = j
    /\ \A r \in Robots :
            color[r] = "grey" <=> \E i \in 1..Len(path) : path[i] = r
    /\ \A r \in Robots : rest[r] \subseteq adj[r]

\* Nobody waits for himself, and outside the search nothing is on the way.
AtRest ==
    /\ \A r \in Robots : r \notin adj[r]
    /\ pc # "search" => path = <<>> /\ rest = [r \in Robots |-> {}]
    /\ pc = "analyze" => result = <<>> /\ resolved = 0

Inv == TypeOK /\ OnPath /\ AtRest /\ CyclesAreReal

(* What all steps of the search have in common.                            *)
LEMMA TopLemma ==
    ASSUME TypeOK, path # <<>>
    PROVE  Len(path) \in Nat \ {0} /\ Top \in Robots
<1>1. Len(path) \in Nat \ {0}
  BY DEF TypeOK
<1> QED
  BY <1>1 DEF TypeOK, Top

(* Entering a robot that is neither on the path nor known, along an edge.  *)
LEMMA EnterStep ==
    ASSUME Inv, NEW r \in Robots, color[r] # "grey", Enter(r),
           path # <<>> => r \in adj[Top],
           UNCHANGED adj,
           rest' \in [Robots -> SUBSET Robots],
           \A s \in Robots : rest'[s] \subseteq adj[s]
    PROVE  OnPath' /\ path' \in Seq(Robots)
<1>1. /\ path \in Seq(Robots) /\ path' = Append(path, r)
      /\ color' = [color EXCEPT ![r] = "grey"]
      /\ color \in [Robots -> {"white", "grey", "black"}]
  BY DEF Inv, TypeOK, Enter
<1>2. /\ path' \in Seq(Robots) /\ Len(path) \in Nat
      /\ Len(path') = Len(path) + 1
      /\ \A i \in 1..Len(path) : path'[i] = path[i]
      /\ path'[Len(path) + 1] = r
  BY <1>1, AppendProperties
<1>3. \A i \in 1..Len(path) : path[i] # r /\ path[i] \in Robots
  BY <1>1 DEF Inv, OnPath
<1>4. \A i \in 1..(Len(path') - 1) : path'[i + 1] \in adj'[path'[i]]
  <2> SUFFICES ASSUME NEW i \in 1..Len(path)
               PROVE  path'[i + 1] \in adj[path'[i]]
    BY <1>2
  <2>1. CASE i = Len(path)
    <3>1. path # <<>> /\ path[i] = Top
      BY <2>1, <1>1 DEF Top
    <3> QED
      BY <2>1, <3>1, <1>2
  <2>2. CASE i # Len(path)
    <3>1. i \in 1..(Len(path) - 1) /\ i + 1 \in 1..Len(path)
      BY <2>2, <1>2
    <3> QED
      BY <3>1, <1>2 DEF Inv, OnPath
  <2> QED
    BY <2>1, <2>2
<1>5. \A i, j \in 1..Len(path') : path'[i] = path'[j] => i = j
  BY <1>2, <1>3 DEF Inv, OnPath
<1>6. \A s \in Robots :
            color'[s] = "grey" <=> \E i \in 1..Len(path') : path'[i] = s
  <2> SUFFICES ASSUME NEW s \in Robots
               PROVE  color'[s] = "grey"
                        <=> \E i \in 1..Len(path') : path'[i] = s
    OBVIOUS
  <2>1. CASE s = r
    <3>1. color'[s] = "grey"
      BY <1>1, <2>1
    <3>2. Len(path) + 1 \in 1..Len(path')
      BY <1>2
    <3> QED
      BY <3>1, <3>2, <2>1, <1>2
  <2>2. CASE s # r
    <3>1. color'[s] = color[s]
      BY <1>1, <2>2
    <3>2. (\E i \in 1..Len(path') : path'[i] = s)
                <=> \E i \in 1..Len(path) : path[i] = s
      BY <1>2, <2>2
    <3> QED
      BY <3>1, <3>2 DEF Inv, OnPath
  <2> QED
    BY <2>1, <2>2
<1> QED
  BY <1>2, <1>4, <1>5, <1>6 DEF OnPath

(* dfs returns: the last robot leaves the path, and becomes black.         *)
LEMMA RetreatStep ==
    ASSUME Inv, Retreat
    PROVE  OnPath' /\ path' \in Seq(Robots)
<1> DEFINE n == Len(path)
<1>1. /\ path \in Seq(Robots) /\ n \in Nat \ {0}
      /\ path' = SubSeq(path, 1, n - 1)
      /\ color' = [color EXCEPT ![path[n]] = "black"]
      /\ color \in [Robots -> {"white", "grey", "black"}]
      /\ UNCHANGED <<adj, rest>>
      /\ path[n] \in Robots
  BY TopLemma DEF Inv, TypeOK, Retreat, Top
<1>2. \A i \in 1..(n - 1) : path[i] \in Robots
  BY <1>1
<1>3. /\ path' \in Seq(Robots) /\ Len(path') = n - 1
      /\ \A i \in 1..(n - 1) : path'[i] = path[i]
  <2> DEFINE q == SubSeq(path, 1, n - 1)
  <2>1. /\ q \in Seq(Robots)
        /\ Len(q) = IF 1 <= n - 1 THEN (n - 1) - 1 + 1 ELSE 0
        /\ \A i \in 1..((n - 1) - 1 + 1) : q[i] = path[1 + i - 1]
    <3>1. 1 \in Int /\ n - 1 \in Int
      BY <1>1
    <3> HIDE DEF n
    <3> QED
      BY <1>2, <3>1, SubSeqProperties
  <2>2. path' = q
    BY <1>1
  <2> HIDE DEF q, n
  <2>3. Len(q) = n - 1
    BY <1>1, <2>1
  <2>4. \A i \in 1..(n - 1) : q[i] = path[i]
    BY <1>1, <2>1
  <2> QED
    BY <2>1, <2>2, <2>3, <2>4
<1> HIDE DEF n
<1>4. \A i \in 1..(Len(path') - 1) : path'[i + 1] \in adj'[path'[i]]
  BY <1>1, <1>3 DEF Inv, OnPath, n
<1>5. \A i, j \in 1..Len(path') : path'[i] = path'[j] => i = j
  BY <1>1, <1>3 DEF Inv, OnPath, n
<1>6. \A s \in Robots :
            color'[s] = "grey" <=> \E i \in 1..Len(path') : path'[i] = s
  <2> SUFFICES ASSUME NEW s \in Robots
               PROVE  color'[s] = "grey"
                        <=> \E i \in 1..Len(path') : path'[i] = s
    OBVIOUS
  <2>1. CASE s = path[n]
    <3>1. color'[s] # "grey"
      BY <1>1, <2>1
    <3>2. \A i \in 1..(n - 1) : path[i] # s
      BY <1>1, <2>1 DEF Inv, OnPath, n
    <3> QED
      BY <3>1, <3>2, <1>3
  <2>2. CASE s # path[n]
    <3>1. color'[s] = color[s]
      BY <1>1, <2>2
    <3>2. (\E i \in 1..n : path[i] = s) <=> \E i \in 1..(n - 1) : path[i] = s
      BY <1>1, <2>2
    <3> QED
      BY <3>1, <3>2, <1>3 DEF Inv, OnPath, n
  <2> QED
    BY <2>1, <2>2
<1> QED
  BY <1>1, <1>3, <1>4, <1>5, <1>6 DEF Inv, OnPath

(* The segment of the path that an edge back closes is a cycle.            *)
LEMMA CloseStep ==
    ASSUME Inv, NEW v \in Robots, CloseCycle(v)
    PROVE  /\ result' \in Seq(Seq(Robots))
           /\ Len(result') >= Len(result)
           /\ CyclesAreReal'
<1> DEFINE n == Len(path)
           p == Position(v)
           c == Cycle(v)
<1>1. /\ path \in Seq(Robots) /\ n \in Nat \ {0}
      /\ v \in adj[path[n]]
      /\ \A i \in 1..(n - 1) : path[i + 1] \in adj[path[i]]
      /\ \A i, j \in 1..n : path[i] = path[j] => i = j
      /\ \A i \in 1..n : path[i] \in Robots
      /\ \A r \in Robots : r \notin adj[r]
      /\ result \in Seq(Seq(Robots))
      /\ UNCHANGED adj
  BY TopLemma DEF Inv, TypeOK, OnPath, AtRest, CloseCycle, Top
<1>2. p \in 1..n /\ path[p] = v
  BY DEF Inv, OnPath, CloseCycle, Position
<1>3. p \in 1..(n - 1)
  BY <1>1, <1>2
<1>4. /\ c \in Seq(Robots) /\ Len(c) = n - p + 1
      /\ \A i \in 1..(n - p + 1) : c[i] = path[p + i - 1]
  <2>1. p \in Int /\ n \in Int /\ \A i \in p..n : path[i] \in Robots
    BY <1>1, <1>2
  <2>2. c = SubSeq(path, p, n)
    BY DEF Cycle
  <2>3. p <= n
    BY <1>1, <1>2
  <2> HIDE DEF c, p, n
  <2> QED
    BY <2>1, <2>2, <2>3, SubSeqProperties
<1> HIDE DEF n, p, c
<1>5. Len(c) >= 2
  BY <1>1, <1>3, <1>4
<1>6. \A i, j \in 1..Len(c) : c[i] = c[j] => i = j
  <2> SUFFICES ASSUME NEW i \in 1..Len(c), NEW j \in 1..Len(c), c[i] = c[j]
               PROVE  i = j
    OBVIOUS
  <2>1. p + i - 1 \in 1..n /\ p + j - 1 \in 1..n
    BY <1>1, <1>3, <1>4
  <2>2. path[p + i - 1] = path[p + j - 1]
    BY <1>4
  <2>3. p + i - 1 = p + j - 1
    BY <2>1, <2>2, <1>1
  <2> QED
    BY <2>3, <1>1, <1>3, <1>4
<1>7. \A i \in 1..(Len(c) - 1) : c[i + 1] \in adj[c[i]]
  <2> SUFFICES ASSUME NEW i \in 1..(Len(c) - 1)
               PROVE  c[i + 1] \in adj[c[i]]
    OBVIOUS
  <2>1. /\ i \in 1..(n - p + 1) /\ i + 1 \in 1..(n - p + 1)
        /\ p + i - 1 \in 1..(n - 1) /\ p + (i + 1) - 1 = (p + i - 1) + 1
    <3>1. n \in Nat /\ p \in 1..(n - 1) /\ Len(c) = n - p + 1
      BY <1>1, <1>3, <1>4
    <3> QED
      BY ONLY <3>1, i \in 1..(Len(c) - 1)
  <2>2. c[i] = path[p + i - 1]
    BY <2>1, <1>4
  <2>3. c[i + 1] = path[p + (i + 1) - 1]
    BY ONLY <2>1, <1>4
  <2>4. path[(p + i - 1) + 1] \in adj[path[p + i - 1]]
    BY <2>1, <1>1
  <2> QED
    BY <2>1, <2>2, <2>3, <2>4
<1>8. c[1] \in adj[c[Len(c)]]
  <2>1. /\ 1 \in 1..(n - p + 1) /\ p + 1 - 1 = p
        /\ Len(c) \in 1..(n - p + 1) /\ p + Len(c) - 1 = n
    BY <1>1, <1>3, <1>4
  <2>2. c[1] = v /\ c[Len(c)] = path[n]
    BY <2>1, <1>2, <1>4
  <2> QED
    BY <2>2, <1>1
<1>9. CASE result' = result
  BY <1>1, <1>9 DEF Inv, CyclesAreReal
<1>10. CASE result' = Append(result, c)
  <2>1. c \in Seq(Robots) /\ result \in Seq(Seq(Robots))
    BY <1>1, <1>4
  <2>2. /\ Append(result, c) \in Seq(Seq(Robots))
        /\ Len(Append(result, c)) = Len(result) + 1
        /\ \A k \in 1..Len(result) : Append(result, c)[k] = result[k]
        /\ Append(result, c)[Len(result) + 1] = c
    BY <2>1, AppendProperties
  <2>3. Len(result) \in Nat
    BY <2>1
  <2> DEFINE Real(x) ==
        /\ Len(x) >= 2
        /\ \A i, j \in 1..Len(x) : x[i] = x[j] => i = j
        /\ \A i \in 1..(Len(x) - 1) : x[i + 1] \in adj[x[i]]
        /\ x[1] \in adj[x[Len(x)]]
  <2>4. \A k \in 1..Len(result) : Real(result[k])
    BY DEF Inv, CyclesAreReal
  <2>5. Real(c)
    BY <1>5, <1>6, <1>7, <1>8
  <2>6. CyclesAreReal' <=> \A k \in 1..Len(result') : Real(result'[k])
    BY <1>1, Zenon DEF CyclesAreReal
  <2> HIDE DEF Real
  <2>7. \A k \in 1..Len(result') : Real(result'[k])
    <3> SUFFICES ASSUME NEW k \in 1..(Len(result) + 1) PROVE Real(result'[k])
      BY <1>10, <2>2
    <3>1. CASE k \in 1..Len(result)
      BY <1>10, <2>2, <2>4, <3>1
    <3>2. CASE k \notin 1..Len(result)
      <4>1. k = Len(result) + 1
        BY <2>3, <3>2
      <4> QED
        BY <1>10, <2>2, <2>5, <4>1
    <3> QED
      BY <3>1, <3>2
  <2>8. result' \in Seq(Seq(Robots)) /\ Len(result') >= Len(result)
    BY <1>10, <2>2, <2>3
  <2> QED
    BY <2>6, <2>7, <2>8
<1> QED
  BY <1>9, <1>10 DEF CloseCycle, c

----------------------------------------------------------------------------
(* The invariant, action by action.                                        *)

(* A step of the search that stays on its path, or moves along it, keeps   *)
(* what the search has in common with the rest of the frame.               *)
LEMMA SearchStep ==
    ASSUME Inv, pc = "search",
           UNCHANGED <<fleetVars, pc, adj, priority, resolved>>,
           roots' \subseteq Robots,
           color' \in [Robots -> {"white", "grey", "black"}],
           rest' \in [Robots -> SUBSET Robots],
           path' \in Seq(Robots), OnPath',
           result' \in Seq(Seq(Robots)), Len(result') >= Len(result),
           CyclesAreReal'
    PROVE  Inv'
<1>1. resolved' \in 0..Len(result')
  BY DEF Inv, TypeOK
<1>2. TypeOK'
  BY <1>1 DEF Inv, TypeOK, fleetVars
<1>3. AtRest'
  BY DEF Inv, AtRest
<1> QED
  BY <1>2, <1>3 DEF Inv

(* A step of the search that reports nothing.                              *)
LEMMA QuietStep ==
    ASSUME Inv, UNCHANGED <<adj, result>>
    PROVE  /\ result' \in Seq(Seq(Robots))
           /\ Len(result') >= Len(result)
           /\ CyclesAreReal'
  BY DEF Inv, TypeOK, CyclesAreReal

LEMMA InvStep ==
    ASSUME Inv, [Next]_vars
    PROVE  Inv'
<1>1. CASE Analyze
  <2>1. /\ UNCHANGED <<fleetVars, color, path, rest, result, priority, resolved>>
        /\ pc = "analyze" /\ pc' = "search"
        /\ path = <<>> /\ result = <<>> /\ rest = [r \in Robots |-> {}]
    BY <1>1 DEF Analyze, Inv, AtRest
  <2>2. /\ adj' \in [Robots -> SUBSET Robots] /\ roots' \subseteq Robots
        /\ \A r \in Robots : r \notin adj'[r]
    BY <1>1 DEF Analyze, WaitsFor, Occupancy
  <2>3. TypeOK'
    BY <2>1, <2>2 DEF Inv, TypeOK, fleetVars
  <2>4. OnPath'
    BY <2>1 DEF Inv, OnPath
  <2>5. AtRest' /\ CyclesAreReal'
    BY <2>1, <2>2 DEF AtRest, CyclesAreReal
  <2> QED
    BY <2>3, <2>4, <2>5 DEF Inv
<1>2. ASSUME NEW r \in Robots, TakeRoot(r) PROVE Inv'
  <2>1. /\ pc = "search" /\ path = <<>> /\ roots' \subseteq Robots
        /\ UNCHANGED <<fleetVars, pc, adj, result, priority, resolved>>
    BY <1>2 DEF TakeRoot, Inv, TypeOK
  <2>2. CASE color[r] = "black"
    <3>1. UNCHANGED <<color, path, rest>>
      BY <1>2, <2>2 DEF TakeRoot
    <3>2. OnPath'
      BY <2>1, <3>1 DEF Inv, OnPath
    <3> QED
      BY <2>1, <3>1, <3>2, SearchStep, QuietStep DEF Inv, TypeOK
  <2>3. CASE color[r] # "black"
    <3>1. Enter(r) /\ rest' = [rest EXCEPT ![r] = adj[r]]
      BY <1>2, <2>3 DEF TakeRoot
    <3>2. /\ rest' \in [Robots -> SUBSET Robots]
          /\ \A s \in Robots : rest'[s] \subseteq adj[s]
      BY <3>1 DEF Inv, TypeOK, OnPath
    <3>3. color[r] # "grey"
      BY <2>1 DEF Inv, OnPath
    <3>4. OnPath' /\ path' \in Seq(Robots)
      BY <2>1, <3>1, <3>2, <3>3, EnterStep
    <3>5. color' \in [Robots -> {"white", "grey", "black"}]
      BY <3>1 DEF Enter, Inv, TypeOK
    <3> QED
      BY <2>1, <3>2, <3>4, <3>5, SearchStep, QuietStep
  <2> QED
    BY <2>2, <2>3
<1>3. ASSUME NEW v \in Robots, Descend(v) PROVE Inv'
  <2>1. /\ pc = "search" /\ path # <<>> /\ color[v] # "grey"
        /\ v \in adj[Top] /\ Top \in Robots
        /\ roots' \subseteq Robots
        /\ UNCHANGED <<fleetVars, pc, adj, result, priority, resolved>>
        /\ Enter(v)
    BY <1>3, TopLemma DEF Descend, Inv, TypeOK, OnPath
  <2>2. /\ rest' \in [Robots -> SUBSET Robots]
        /\ \A s \in Robots : rest'[s] \subseteq adj[s]
    BY <1>3, <2>1 DEF Descend, Inv, TypeOK, OnPath
  <2>3. OnPath' /\ path' \in Seq(Robots)
    BY <2>1, <2>2, EnterStep
  <2>4. color' \in [Robots -> {"white", "grey", "black"}]
    BY <2>1 DEF Enter, Inv, TypeOK
  <2> QED
    BY <2>1, <2>2, <2>3, <2>4, SearchStep, QuietStep
<1>4. ASSUME NEW v \in Robots, Break(v) \/ CloseCycle(v) \/ SkipDone(v)
      PROVE  Inv'
  <2>1. /\ pc = "search" /\ path # <<>> /\ Top \in Robots
        /\ UNCHANGED <<fleetVars, pc, adj, roots, color, path, priority,
                       resolved>>
        /\ rest' \in {[rest EXCEPT ![Top] = {}], [rest EXCEPT ![Top] = @ \ {v}]}
    BY <1>4, TopLemma DEF Break, CloseCycle, SkipDone, Inv
  <2>2. /\ rest' \in [Robots -> SUBSET Robots]
        /\ \A s \in Robots : rest'[s] \subseteq rest[s]
    <3>1. rest \in [Robots -> SUBSET Robots]
      BY DEF Inv, TypeOK
    <3>2. CASE rest' = [rest EXCEPT ![Top] = {}]
      BY ONLY <3>1, <3>2, <2>1
    <3>3. CASE rest' = [rest EXCEPT ![Top] = @ \ {v}]
      BY ONLY <3>1, <3>3, <2>1
    <3> QED
      BY <2>1, <3>2, <3>3
  <2>3. OnPath'
    BY <2>1, <2>2 DEF Inv, OnPath
  <2>4. /\ result' \in Seq(Seq(Robots)) /\ Len(result') >= Len(result)
        /\ CyclesAreReal'
    <3>1. CASE CloseCycle(v)
      BY <3>1, CloseStep
    <3>2. CASE Break(v) \/ SkipDone(v)
      BY <3>2, QuietStep DEF Break, SkipDone
    <3> QED
      BY <1>4, <3>1, <3>2
  <2>5. roots' \subseteq Robots /\ path' \in Seq(Robots)
        /\ color' \in [Robots -> {"white", "grey", "black"}]
    BY <2>1 DEF Inv, TypeOK
  <2> QED
    BY <2>1, <2>2, <2>3, <2>4, <2>5, SearchStep
<1>5. CASE Retreat
  <2>1. /\ pc = "search" /\ path # <<>> /\ Top \in Robots
        /\ UNCHANGED <<fleetVars, pc, adj, roots, rest, result, priority,
                       resolved>>
        /\ color' = [color EXCEPT ![Top] = "black"]
    BY <1>5, TopLemma DEF Retreat, Inv
  <2>2. /\ roots' \subseteq Robots /\ rest' \in [Robots -> SUBSET Robots]
        /\ color' \in [Robots -> {"white", "grey", "black"}]
    BY <2>1 DEF Inv, TypeOK
  <2> QED
    BY <1>5, <2>1, <2>2, RetreatStep, QuietStep, SearchStep
<1>6. CASE EndSearch
  <2>1. TypeOK'
    BY <1>6 DEF EndSearch, Inv, TypeOK, fleetVars
  <2>2. /\ path = <<>> /\ pc' = "resolve" /\ UNCHANGED <<adj, path, result>>
        /\ color' = [r \in Robots |-> "white"]
        /\ rest' = [r \in Robots |-> {}]
    BY <1>6 DEF EndSearch
  <2>3. Len(path) = 0
    BY <2>2
  <2>4. OnPath'
    <3>1. \A r \in Robots : color'[r] # "grey" /\ rest'[r] = {}
      BY <2>2
    <3> QED
      BY <2>2, <2>3, <3>1 DEF OnPath
  <2>5. AtRest'
    BY <2>2 DEF Inv, AtRest
  <2>6. CyclesAreReal'
    BY <2>2 DEF Inv, CyclesAreReal
  <2> QED
    BY <2>1, <2>4, <2>5, <2>6 DEF Inv
<1>7. CASE Parole
  <2>1. /\ pc = "resolve" /\ UNCHANGED <<node, searchVars, pc, priority>>
        /\ resolved' = resolved + 1 /\ resolved < Len(result)
    BY <1>7 DEF Parole
  <2>2. /\ status' \in [Robots -> {"Idle", "Busy", "Offline"}]
        /\ target' \in [Robots -> Nodes \cup {NoNode}]
    BY <1>7 DEF Parole, Inv, TypeOK
  <2>3. TypeOK'
    BY <2>1, <2>2 DEF Inv, TypeOK, searchVars
  <2>4. UNCHANGED <<adj, color, path, rest, result, pc>>
    BY <2>1 DEF searchVars
  <2>5. OnPath' /\ CyclesAreReal'
    BY <2>4 DEF Inv, OnPath, CyclesAreReal
  <2>6. AtRest'
    BY <2>1, <2>4 DEF Inv, AtRest
  <2> QED
    BY <2>3, <2>5, <2>6 DEF Inv
<1>8. CASE EndFrame
  <2>1. TypeOK'
    BY <1>8, PrioritiesAssumption DEF EndFrame, Inv, TypeOK, fleetVars
  <2>2. /\ UNCHANGED <<color, path, rest>>
        /\ path = <<>> /\ result' = <<>> /\ resolved' = 0
        /\ pc' = "analyze" /\ adj' = [r \in Robots |-> {}]
        /\ rest = [r \in Robots |-> {}]
    BY <1>8 DEF EndFrame, Inv, AtRest
  <2>3. OnPath'
    BY <2>2 DEF Inv, OnPath
  <2>4. AtRest' /\ CyclesAreReal'
    BY <2>2 DEF AtRest, CyclesAreReal
  <2> QED
    BY <2>1, <2>3, <2>4 DEF Inv
<1>9. CASE UNCHANGED vars
  <2>1. /\ UNCHANGED <<status, node, target, adj, roots, color, path, rest>>
        /\ UNCHANGED <<result, pc, priority, resolved>>
    BY <1>9 DEF vars, fleetVars, searchVars
  <2>2. TypeOK'
    BY <2>1 DEF Inv, TypeOK
  <2>3. OnPath'
    BY <2>1 DEF Inv, OnPath
  <2>4. AtRest' /\ CyclesAreReal'
    BY <2>1 DEF Inv, AtRest, CyclesAreReal
  <2> QED
    BY <2>2, <2>3, <2>4 DEF Inv
<1> QED
  BY <1>1, <1>2, <1>3, <1>4, <1>5, <1>6, <1>7, <1>8, <1>9 DEF Next, Look

----------------------------------------------------------------------------
(* The theorems.                                                           *)

(* The inductive invariant: types, the path and its colours, and that what *)
(* was reported so far is real, hold together.                             *)
THEOREM Invariance == Spec => []Inv
<1>1. Init => Inv
  <2> SUFFICES ASSUME Init PROVE Inv
    OBVIOUS
  <2>1. TypeOK
    BY PrioritiesAssumption DEF Init, TypeOK
  <2> QED
    BY <2>1 DEF Init, Inv, OnPath, AtRest, CyclesAreReal
<1>2. Inv /\ [Next]_vars => Inv'
  BY InvStep
<1> QED
  BY <1>1, <1>2, PTL DEF Spec

(* Every variable keeps its type; no more cycles are resolved than were    *)
(* reported.                                                               *)
THEOREM Typing == Spec => []TypeOK
<1>1. Inv => TypeOK
  BY DEF Inv
<1> QED
  BY <1>1, Invariance, PTL

(* What the analysis reports as deadlocks are cycles of waiting robots.    *)
THEOREM Soundness == Spec => []CyclesAreReal
<1>1. Inv => CyclesAreReal
  BY DEF Inv
<1> QED
  BY <1>1, Invariance, PTL

----------------------------------------------------------------------------
(* Least elements.  An induction over positions is a least counterexample. *)

(* Every nonempty set of naturals has a least element.                     *)
LEMMA Least ==
    ASSUME NEW T \in SUBSET Nat, T # {}
    PROVE  \E m \in T : \A n \in T : m <= n
<1>1. \A m, n \in Nat : m < n => <<m, n>> \in OpToRel(<, Nat)
  BY DEF OpToRel
<1>2. PICK m \in T : \A n \in T : <<n, m>> \notin OpToRel(<, Nat)
  BY NatLessThanWellFounded, WFMin
<1>3. \A n \in T : ~ (n < m) /\ n \in Nat
  BY <1>1, <1>2
<1> QED
  BY ONLY <1>3, m \in T, T \in SUBSET Nat

(* What holds at a position of 1..n and passes on to the next one holds    *)
(* from there to n.                                                        *)
LEMMA Onward ==
    ASSUME NEW n \in Nat, NEW P \in SUBSET (1..n), NEW j \in P,
           \A i \in 1..(n - 1) : i \in P => i + 1 \in P
    PROVE  j..n \subseteq P
<1> DEFINE T == {k \in j..n : k \notin P}
<1> SUFFICES ASSUME T # {} PROVE FALSE
  OBVIOUS
<1>1. T \in SUBSET Nat
  OBVIOUS
<1>2. PICK m \in T : \A k \in T : m <= k
  <2> HIDE DEF T
  <2> QED
    BY <1>1, Least
<1>3. m \in j..n /\ m \notin P /\ m # j
  BY <1>2
<1>4. m - 1 \in j..n /\ m - 1 \in 1..(n - 1) /\ ~ (m <= m - 1) /\ (m - 1) + 1 = m
  BY <1>3
<1>5. m - 1 \in P
  BY <1>2, <1>4
<1> QED
  BY <1>3, <1>4, <1>5

----------------------------------------------------------------------------
(* What Reaches is: the least relation that contains the edges and is      *)
(* transitive.                                                             *)

LEMMA ReachEdge ==
    ASSUME NEW g, NEW u, NEW v \in g[u]
    PROVE  Reaches(g, u, v)
  BY DEF Reaches

LEMMA ReachOn ==
    ASSUME NEW g, NEW u, NEW v, NEW w, Reaches(g, u, v), Reaches(g, v, w)
    PROVE  Reaches(g, u, w)
<1> SUFFICES ASSUME NEW S \in SUBSET Robots,
                    g[u] \subseteq S, \A x \in S : g[x] \subseteq S
             PROVE  w \in S
  BY DEF Reaches
<1>1. v \in S
  BY DEF Reaches
<1> QED
  BY <1>1 DEF Reaches

(* Who reaches a robot has a neighbour that is it, or reaches it.          *)
LEMMA ReachVia ==
    ASSUME NEW g \in [Robots -> SUBSET Robots],
           NEW u \in Robots, NEW r \in Robots, Reaches(g, u, r)
    PROVE  \E v \in g[u] : v = r \/ Reaches(g, v, r)
<1> DEFINE S == {w \in Robots : w # r /\ ~ Reaches(g, w, r)}
<1> SUFFICES ASSUME g[u] \subseteq S PROVE FALSE
  OBVIOUS
<1>1. \A w \in S : g[w] \subseteq S
  <2> SUFFICES ASSUME NEW w \in S, NEW x \in g[w], x \notin S PROVE FALSE
    OBVIOUS
  <2>1. x \in Robots
    OBVIOUS
  <2>2. x = r \/ Reaches(g, x, r)
    BY <2>1
  <2>3. Reaches(g, w, r)
    BY <2>2, ReachEdge, ReachOn
  <2> QED
    BY <2>3
<1>2. S \in SUBSET Robots /\ r \notin S
  OBVIOUS
<1> HIDE DEF S
<1> QED
  BY <1>1, <1>2 DEF Reaches

(* Robots on one cycle reach each other.                                   *)
LEMMA CycleReaches ==
    ASSUME NEW g, NEW c \in Seq(Robots), Len(c) >= 2,
           \A i \in 1..(Len(c) - 1) : c[i + 1] \in g[c[i]],
           c[1] \in g[c[Len(c)]],
           NEW a \in 1..Len(c), NEW b \in 1..Len(c)
    PROVE  Reaches(g, c[a], c[b])
<1> SUFFICES ASSUME NEW S \in SUBSET Robots,
                    g[c[a]] \subseteq S, \A x \in S : g[x] \subseteq S
             PROVE  c[b] \in S
  BY DEF Reaches
<1> DEFINE n == Len(c)
           P == {k \in 1..n : c[k] \in S}
<1>1. n \in Nat /\ n >= 2 /\ P \in SUBSET (1..n)
  OBVIOUS
<1>2. \A i \in 1..(n - 1) : i \in P => i + 1 \in P
  <2> SUFFICES ASSUME NEW i \in 1..(n - 1), c[i] \in S
               PROVE  i + 1 \in 1..n /\ c[i + 1] \in S
    OBVIOUS
  <2>1. i + 1 \in 1..n
    BY <1>1
  <2> QED
    BY <2>1
<1>3. \A j \in P : j..n \subseteq P
  <2> HIDE DEF P, n
  <2> QED
    BY <1>1, <1>2, Onward
<1>4. n \in P
  <2>1. CASE a = n
    <3>1. 1 \in P
      BY <2>1, <1>1
    <3> QED
      BY <3>1, <1>1, <1>3
  <2>2. CASE a # n
    <3>1. a + 1 \in 1..n /\ a \in 1..(n - 1)
      BY <2>2, <1>1
    <3>2. a + 1 \in P
      BY <3>1
    <3>3. n \in (a + 1)..n
      BY <3>1, <1>1
    <3> QED
      BY <3>2, <3>3, <1>3
  <2> QED
    BY <2>1, <2>2
<1>5. 1 \in P
  BY <1>4, <1>1
<1>6. b \in 1..n /\ 1..n \subseteq P
  BY <1>5, <1>3
<1> QED
  BY <1>6

----------------------------------------------------------------------------
(* What the search has seen.  All of it holds while there is room for      *)
(* another cycle: at the limit the loops over neighbours are left early.   *)

\* Two robots that are on one reported cycle.
Together(u, v) ==
    \E k \in 1..Len(result) : u \in Range(result[k]) /\ v \in Range(result[k])

Searching == pc = "search" /\ Len(result) < MaxCycles

\* A frame starts with nobody visited.
Fresh == pc # "search" => color = [r \in Robots |-> "white"]

\* Who waits for somebody and was not visited is still to be started from.
StartsKept ==
    Searching => \A r \in Robots :
                    adj[r] # {} /\ color[r] = "white" => r \in roots

\* A neighbour v of u that the search has dealt with: it is done, or it is
\* on the path and the edge was reported.
Settled(u, v) == color[v] = "black" \/ (color[v] = "grey" /\ Together(u, v))

\* Of robots that are done, all edges were dealt with.
DoneSettled ==
    Searching => \A u \in Robots : color[u] = "black" =>
                    \A v \in adj[u] : Settled(u, v)

\* Of robots on the path, all but those still to be looked at, and the one
\* along which the path goes on.
PathSettled ==
    Searching => \A i \in 1..Len(path) : \A v \in adj[path[i]] \ rest[path[i]] :
                    Settled(path[i], v) \/ (i < Len(path) /\ v = path[i + 1])

\* But for edges that were reported, waiting among robots that are done
\* leads nowhere back: each set of them has one that waits for none of it.
NoHiddenCycle ==
    Searching => \A S \in SUBSET {r \in Robots : color[r] = "black"} :
                    S # {} => \E u \in S : \A v \in adj[u] \cap S : Together(u, v)

JamInv ==
    /\ Fresh /\ StartsKept /\ DoneSettled /\ PathSettled /\ NoHiddenCycle
    /\ NoJamMissed

(* A report stays a report.                                                *)
LEMMA TogetherStays ==
    ASSUME Inv, Inv', NEW v \in Robots,
           UNCHANGED result \/ CloseCycle(v)
    PROVE  /\ \A a, b : Together(a, b) => Together(a, b)'
           /\ Len(result) <= Len(result')
<1>1. CASE UNCHANGED result
  BY <1>1 DEF Together, Inv, TypeOK
<1>2. CASE CloseCycle(v)
  <2>1. result' = result \/ result' = Append(result, Cycle(v))
    BY <1>2 DEF CloseCycle
  <2>2. result \in Seq(Seq(Robots))
    BY DEF Inv, TypeOK
  <2>3. /\ Len(result) <= Len(result') /\ Len(result) \in Nat
        /\ Len(result') \in Nat
        /\ \A k \in 1..Len(result) : result'[k] = result[k]
    <3>1. CASE result' = result
      BY <2>2, <3>1
    <3>2. CASE result' = Append(result, Cycle(v))
      BY <2>2, <3>2
    <3> QED
      BY <2>1, <3>1, <3>2
  <2> QED
    BY <2>3 DEF Together
<1> QED
  BY <1>1, <1>2

(* The edge that closes a cycle is on a report: the new one, or one of the *)
(* same robots.                                                            *)
LEMMA CloseReports ==
    ASSUME Inv, Inv', NEW v \in Robots, CloseCycle(v), NEW u, u = Top
    PROVE  Together(u, v)'
<1> DEFINE n == Len(path)
           p == Position(v)
           c == Cycle(v)
<1>1. /\ path \in Seq(Robots) /\ n \in Nat \ {0}
      /\ \A i \in 1..n : path[i] \in Robots
      /\ result \in Seq(Seq(Robots))
      /\ path' = path
  BY TopLemma DEF Inv, TypeOK, CloseCycle
<1>2. p \in 1..n /\ path[p] = v
  BY DEF Inv, OnPath, CloseCycle, Position
<1>3. /\ c \in Seq(Robots) /\ Len(c) = n - p + 1
      /\ \A i \in 1..(n - p + 1) : c[i] = path[p + i - 1]
  <2>1. p \in Int /\ n \in Int /\ \A i \in p..n : path[i] \in Robots
    BY <1>1, <1>2
  <2>2. c = SubSeq(path, p, n)
    BY DEF Cycle
  <2>3. p <= n
    BY <1>1, <1>2
  <2> HIDE DEF c, p, n
  <2> QED
    BY <2>1, <2>2, <2>3, SubSeqProperties
<1> HIDE DEF n, p, c
<1>4. c[1] = v /\ c[n - p + 1] = Top
  <2>1. 1 \in 1..(n - p + 1) /\ n - p + 1 \in 1..(n - p + 1)
    BY <1>1, <1>2
  <2>2. p + 1 - 1 = p /\ p + (n - p + 1) - 1 = n
    BY <1>1, <1>2
  <2> QED
    BY <2>1, <2>2, <1>2, <1>3 DEF Top, n
<1>5. v \in Range(c) /\ Top \in Range(c)
  BY <1>1, <1>2, <1>3, <1>4 DEF Range
<1>6. \E k \in 1..Len(result') : Range(result'[k]) = Range(c)
  <2>1. CASE Seen(c)
    <3>1. result' = result
      BY <2>1 DEF CloseCycle, c
    <3> QED
      BY <2>1, <3>1 DEF Seen
  <2>2. CASE ~ Seen(c)
    <3>1. result' = Append(result, c)
      BY <2>2 DEF CloseCycle, c
    <3>2. Len(result) + 1 \in 1..Len(result') /\ result'[Len(result) + 1] = c
      BY <1>1, <1>3, <3>1
    <3> QED
      BY <3>2
  <2> QED
    BY <2>1, <2>2
<1> QED
  BY <1>5, <1>6 DEF Together

(* What was dealt with stays so: colours only darken.                      *)
LEMMA SettledStays ==
    ASSUME NEW u, NEW v,
           Settled(u, v), Together(u, v) => Together(u, v)',
           color[v] = "black" => color'[v] = "black",
           color[v] = "grey" => color'[v] \in {"grey", "black"}
    PROVE  Settled(u, v)'
  BY DEF Settled

(* Entering a robot that was not visited hides nothing, whoever it was     *)
(* entered from: a root, or the last robot of the path.                    *)
LEMMA EnterSettles ==
    ASSUME Inv, Inv', JamInv, NEW r \in Robots, color[r] = "white", Enter(r),
           pc = "search", UNCHANGED <<pc, adj, result>>,
           rest'[r] = adj[r],
           \A s \in Robots : s # r /\ (path # <<>> => s # Top)
                                => rest'[s] = rest[s],
           path # <<>> => rest'[Top] = rest[Top] \ {r},
           \A s \in roots : s = r \/ s \in roots'
    PROVE  JamInv'
<1>1. /\ path \in Seq(Robots) /\ path' = Append(path, r)
      /\ color' = [color EXCEPT ![r] = "grey"]
      /\ color \in [Robots -> {"white", "grey", "black"}]
      /\ adj \in [Robots -> SUBSET Robots]
  BY DEF Inv, TypeOK, Enter
<1>2. /\ Len(path) \in Nat /\ Len(path') = Len(path) + 1
      /\ \A i \in 1..Len(path) : path'[i] = path[i] /\ path[i] \in Robots
      /\ path'[Len(path) + 1] = r
  BY <1>1, AppendProperties
<1>3. /\ \A a, b : Together(a, b)' <=> Together(a, b)
      /\ Searching' <=> Searching
  BY DEF Together, Searching
<1>4. \A u, v \in Robots : Settled(u, v) => Settled(u, v)'
  BY <1>1, <1>3, SettledStays
<1>5. \A s \in Robots : (color'[s] = "black" <=> color[s] = "black")
                        /\ (color'[s] = "white" => color[s] = "white" /\ s # r)
  BY <1>1
<1>6. Fresh' /\ NoJamMissed'
  BY DEF Fresh, NoJamMissed
<1>7. StartsKept'
  BY <1>3, <1>5 DEF JamInv, StartsKept
<1>8. DoneSettled'
  <2> SUFFICES ASSUME Searching, NEW u \in Robots, color[u] = "black",
                      NEW v \in adj[u]
               PROVE  Settled(u, v)'
    BY <1>3, <1>5 DEF DoneSettled
  <2>1. v \in Robots /\ Settled(u, v)
    BY <1>1 DEF JamInv, DoneSettled
  <2> QED
    BY <2>1, <1>4
<1>9. PathSettled'
  <2> SUFFICES ASSUME Searching, NEW i \in 1..(Len(path) + 1),
                      NEW u, u = path'[i], NEW v \in adj[u] \ rest'[u]
               PROVE  \/ Settled(u, v)'
                      \/ i < Len(path) + 1 /\ v = path'[i + 1]
    BY <1>2, <1>3 DEF PathSettled
  <2>1. CASE i = Len(path) + 1
    BY <2>1, <1>2
  <2>2. CASE i \in 1..Len(path) /\ v \notin rest[u]
    <3>1. u = path[i] /\ u \in Robots /\ v \in Robots
      BY <2>2, <1>1, <1>2
    <3>2. Settled(u, v) \/ (i < Len(path) /\ v = path[i + 1])
      BY <2>2, <3>1 DEF JamInv, PathSettled
    <3>3. CASE Settled(u, v)
      BY <3>1, <3>3, <1>4
    <3>4. CASE i < Len(path) /\ v = path[i + 1]
      <4>1. i + 1 \in 1..Len(path)
        BY <2>2, <3>4, <1>2
      <4> QED
        BY <4>1, <3>4, <1>2
    <3> QED
      BY <3>2, <3>3, <3>4
  <2>3. CASE i \in 1..Len(path) /\ v \in rest[u]
    <3>1. u = path[i] /\ u \in Robots /\ path # <<>>
      BY <2>3, <1>1, <1>2
    <3>2. u # r
      BY <2>3, <3>1 DEF Inv, OnPath
    <3>3. u = Top
      BY <2>3, <3>1, <3>2
    <3>4. v = r
      BY <2>3, <3>1, <3>3
    <3>5. i = Len(path)
      <4>1. Len(path) \in 1..Len(path)
        BY <2>3, <1>2
      <4>2. path[i] = path[Len(path)]
        BY <3>1, <3>3 DEF Top
      <4>3. \A k, l \in 1..Len(path) : path[k] = path[l] => k = l
        BY DEF Inv, OnPath
      <4> QED
        BY ONLY <4>1, <4>2, <4>3, <2>3
    <3> QED
      BY <3>4, <3>5, <1>2
  <2> QED
    BY <2>1, <2>2, <2>3, <1>2
<1>10. NoHiddenCycle'
  <2>1. {s \in Robots : color'[s] = "black"} = {s \in Robots : color[s] = "black"}
    BY <1>5
  <2> QED
    BY <2>1, <1>3 DEF JamInv, NoHiddenCycle
<1> QED
  BY <1>6, <1>7, <1>8, <1>9, <1>10 DEF JamInv

(* Looking at a neighbour that is on the path or done settles the edge to  *)
(* it.                                                                     *)
LEMMA LookSettles ==
    ASSUME Inv, Inv', JamInv, NEW v \in Robots, CloseCycle(v) \/ SkipDone(v)
    PROVE  JamInv'
<1>1. /\ pc = "search" /\ path # <<>> /\ Top \in Robots
      /\ UNCHANGED <<pc, adj, roots, color, path>>
      /\ rest' = [rest EXCEPT ![Top] = @ \ {v}]
      /\ path \in Seq(Robots) /\ Len(path) \in Nat \ {0}
      /\ rest \in [Robots -> SUBSET Robots]
  BY TopLemma DEF CloseCycle, SkipDone, Inv, TypeOK
<1>2. /\ \A a, b : Together(a, b) => Together(a, b)'
      /\ Len(result) <= Len(result')
  BY TogetherStays DEF SkipDone
<1>3. Searching' => Searching
  BY <1>1, <1>2, MaxCyclesAssumption DEF Searching, Inv, TypeOK
<1>4. \A a, b : Settled(a, b) => Settled(a, b)'
  BY <1>1, <1>2, SettledStays
<1>5. ASSUME NEW u, u = Top PROVE Settled(u, v)'
  <2>1. CASE CloseCycle(v)
    <3>1. Together(u, v)'
      BY <1>5, <2>1, CloseReports
    <3>2. color'[v] = "grey"
      BY <1>1, <2>1 DEF CloseCycle
    <3> QED
      BY <3>1, <3>2 DEF Settled
  <2>2. CASE SkipDone(v)
    BY <1>1, <2>2 DEF Settled, SkipDone
  <2> QED
    BY <2>1, <2>2
<1>6. Fresh' /\ NoJamMissed'
  BY <1>1 DEF Fresh, NoJamMissed
<1>7. StartsKept'
  BY <1>1, <1>3 DEF JamInv, StartsKept
<1>8. DoneSettled'
  BY <1>1, <1>3, <1>4 DEF JamInv, DoneSettled
<1>9. PathSettled'
  <2> SUFFICES ASSUME Searching, NEW i \in 1..Len(path),
                      NEW u, u = path[i], NEW w \in adj[u] \ rest'[u]
               PROVE  \/ Settled(u, w)'
                      \/ i < Len(path) /\ w = path[i + 1]
    BY <1>1, <1>3 DEF PathSettled
  <2>1. u \in Robots
    BY <1>1 DEF Inv, TypeOK
  <2>2. CASE w \notin rest[u]
    <3>1. Settled(u, w) \/ (i < Len(path) /\ w = path[i + 1])
      BY <2>2, <1>3 DEF JamInv, PathSettled
    <3> QED
      BY <3>1, <1>4
  <2>3. CASE w \in rest[u]
    <3>1. u = Top /\ w = v
      BY <2>1, <2>3, <1>1
    <3> QED
      BY <3>1, <1>5
  <2> QED
    BY <2>2, <2>3
<1>10. NoHiddenCycle'
  BY <1>1, <1>2, <1>3 DEF JamInv, NoHiddenCycle
<1> QED
  BY <1>6, <1>7, <1>8, <1>9, <1>10 DEF JamInv

(* A robot is left when all its edges were dealt with: the cycles through  *)
(* it and robots that were left earlier are among the reports.             *)
LEMMA RetreatSettles ==
    ASSUME Inv, Inv', JamInv, Retreat
    PROVE  JamInv'
<1> DEFINE n == Len(path)
           t == Top
<1>1. /\ pc = "search" /\ path \in Seq(Robots) /\ n \in Nat \ {0}
      /\ t \in Robots /\ t = path[n] /\ rest[t] = {}
      /\ path' = SubSeq(path, 1, n - 1)
      /\ color' = [color EXCEPT ![t] = "black"]
      /\ color \in [Robots -> {"white", "grey", "black"}]
      /\ adj \in [Robots -> SUBSET Robots]
      /\ UNCHANGED <<pc, adj, roots, rest, result>>
  BY TopLemma DEF Retreat, Inv, TypeOK, Top
<1>2. /\ Len(path') = n - 1
      /\ \A i \in 1..(n - 1) : path'[i] = path[i] /\ path[i] \in Robots
      /\ \A i \in 1..(n - 1) : path[i] # t
  <2>1. \A i \in 1..n : path[i] \in Robots
    BY <1>1
  <2>2. 1 \in Int /\ n - 1 \in Int /\ \A i \in 1..(n - 1) : path[i] \in Robots
    BY <1>1, <2>1
  <2> DEFINE q == SubSeq(path, 1, n - 1)
  <2>3. \A i \in 1..(n - 1) : path[i] # t
    BY <1>1 DEF Inv, OnPath
  <2> HIDE DEF n, t
  <2>4. /\ Len(q) = IF 1 <= n - 1 THEN (n - 1) - 1 + 1 ELSE 0
        /\ \A i \in 1..((n - 1) - 1 + 1) : q[i] = path[1 + i - 1]
    BY <2>2, SubSeqProperties
  <2>5. path' = q
    BY <1>1
  <2> HIDE DEF q
  <2>6. Len(q) = n - 1 /\ \A i \in 1..(n - 1) : q[i] = path[i]
    BY <1>1, <2>4
  <2> QED
    BY <2>2, <2>3, <2>5, <2>6
<1> HIDE DEF n, t
<1>3. /\ \A a, b : Together(a, b)' <=> Together(a, b)
      /\ Searching' <=> Searching
  BY <1>1 DEF Together, Searching
<1>4. color[t] = "grey"
  BY <1>1, n \in 1..n DEF Inv, OnPath, n
<1>5. \A u, v \in Robots : Settled(u, v) => Settled(u, v)'
  BY <1>1, <1>3, SettledStays
<1>6. ASSUME Searching, NEW v \in adj[t]
      PROVE  v \in Robots /\ Settled(t, v)
  <2>1. n \in 1..Len(path) /\ v \in adj[path[n]] \ rest[path[n]]
    BY <1>1, <1>6 DEF n
  <2>2. Settled(path[n], v) \/ n < Len(path)
    BY <1>6, <2>1 DEF JamInv, PathSettled
  <2> QED
    BY <1>1, <1>6, <2>2 DEF n
<1>7. Fresh' /\ NoJamMissed'
  BY <1>1 DEF Fresh, NoJamMissed
<1>8. StartsKept'
  <2>1. \A r \in Robots : color'[r] = "white" => color[r] = "white"
    BY <1>1
  <2> QED
    BY <1>1, <1>3, <2>1 DEF JamInv, StartsKept
<1>9. DoneSettled'
  <2> SUFFICES ASSUME Searching, NEW u \in Robots, color'[u] = "black",
                      NEW v \in adj[u]
               PROVE  Settled(u, v)'
    BY <1>1, <1>3 DEF DoneSettled
  <2>1. CASE u = t
    BY <2>1, <1>1, <1>5, <1>6
  <2>2. CASE u # t
    <3>1. color[u] = "black" /\ v \in Robots
      BY <2>2, <1>1
    <3>2. Settled(u, v)
      BY <3>1 DEF JamInv, DoneSettled
    <3> QED
      BY <3>1, <3>2, <1>5
  <2> QED
    BY <2>1, <2>2
<1>10. PathSettled'
  <2> SUFFICES ASSUME Searching, NEW i \in 1..(n - 1),
                      NEW u, u = path'[i], NEW v \in adj[u] \ rest[u]
               PROVE  \/ Settled(u, v)'
                      \/ i < n - 1 /\ v = path'[i + 1]
    BY <1>1, <1>2, <1>3 DEF PathSettled
  <2>1. u \in Robots /\ u = path[i] /\ v \in Robots /\ i \in 1..Len(path)
    BY <1>1, <1>2 DEF n
  <2>2. Settled(u, v) \/ (i < Len(path) /\ v = path[i + 1])
    BY <2>1 DEF JamInv, PathSettled
  <2>3. CASE Settled(u, v)
    BY <2>1, <2>3, <1>5
  <2>4. CASE v = path[i + 1] /\ i = n - 1
    <3>1. v = t
      BY <1>1, <2>4
    <3>2. color'[v] = "black"
      BY <1>1, <3>1
    <3> QED
      BY <3>2 DEF Settled
  <2>5. CASE v = path[i + 1] /\ i # n - 1
    <3>1. i + 1 \in 1..(n - 1)
      BY <1>1, <2>5
    <3> QED
      BY <1>1, <1>2, <2>5, <3>1
  <2> QED
    BY <2>2, <2>3, <2>4, <2>5
<1>11. NoHiddenCycle'
  <2> SUFFICES ASSUME Searching,
                      NEW S \in SUBSET {r \in Robots : color'[r] = "black"},
                      S # {}
               PROVE  \E u \in S : \A v \in adj[u] \cap S : Together(u, v)
    BY <1>1, <1>3 DEF NoHiddenCycle
  <2> DEFINE D == S \ {t}
  <2>1. D \in SUBSET {r \in Robots : color[r] = "black"}
    BY <1>1
  <2>2. CASE D = {}
    <3>1. S = {t}
      BY <2>2
    <3>2. t \notin adj[t]
      BY <1>1 DEF Inv, AtRest
    <3> QED
      BY <3>1, <3>2
  <2>3. CASE D # {}
    <3> HIDE DEF D
    <3>1. PICK u \in D : \A v \in adj[u] \cap D : Together(u, v)
      BY <2>1, <2>3 DEF JamInv, NoHiddenCycle
    <3>2. u \in S /\ color[u] = "black"
      BY <2>1 DEF D
    <3>3. ASSUME t \in adj[u] PROVE Together(u, t)
      <4>1. Settled(u, t)
        BY <2>1, <3>2, <3>3 DEF JamInv, DoneSettled
      <4> QED
        BY <4>1, <1>4 DEF Settled
    <3> QED
      BY <3>1, <3>2, <3>3 DEF D
  <2> QED
    BY <2>2, <2>3
<1> QED
  BY <1>7, <1>8, <1>9, <1>10, <1>11 DEF JamInv

(* When the search is over everything with an edge is done.  The robots    *)
(* that r waits for and that wait for r form a set in which each waits for *)
(* another one of it: an edge of it is on a report.                        *)
LEMMA EndReports ==
    ASSUME Inv, JamInv, EndSearch
    PROVE  NoJamMissed'
<1>1. /\ pc = "search" /\ path = <<>> /\ UNCHANGED <<adj, result>>
      /\ adj \in [Robots -> SUBSET Robots]
      /\ result \in Seq(Seq(Robots))
      /\ Len(result) \in Nat
  BY DEF EndSearch, Inv, TypeOK
<1> SUFFICES ASSUME Len(result) < MaxCycles,
                    NEW r \in Robots, Reaches(adj, r, r)
             PROVE  \E k \in 1..Len(result) : \A s \in Range(result[k]) :
                        Reaches(adj, r, s) /\ Reaches(adj, s, r)
  BY <1>1 DEF NoJamMissed
<1>2. Searching /\ roots = {}
  BY <1>1, MaxCyclesAssumption DEF Searching, EndSearch
<1> DEFINE C == {s \in Robots : Reaches(adj, r, s) /\ Reaches(adj, s, r)}
<1>3. \A u \in C : \E v \in adj[u] : v \in C
  <2> SUFFICES ASSUME NEW u \in C PROVE \E v \in adj[u] : v \in C
    OBVIOUS
  <2>1. PICK v \in adj[u] : v = r \/ Reaches(adj, v, r)
    BY <1>1, ReachVia
  <2>2. v \in Robots
    BY <1>1
  <2>3. Reaches(adj, r, v)
    BY ReachEdge, ReachOn
  <2> QED
    BY <2>1, <2>2, <2>3
<1>4. C \in SUBSET {s \in Robots : color[s] = "black"}
  <2> SUFFICES ASSUME NEW u \in C PROVE color[u] = "black"
    OBVIOUS
  <2>1. adj[u] # {}
    BY <1>3
  <2>2. color[u] # "white"
    BY <1>2, <2>1 DEF JamInv, StartsKept
  <2>3. color[u] # "grey"
    BY <1>1 DEF Inv, OnPath
  <2> QED
    BY <2>2, <2>3 DEF Inv, TypeOK
<1>5. r \in C
  OBVIOUS
<1>6. PICK u \in C : \A v \in adj[u] \cap C : Together(u, v)
  <2> HIDE DEF C
  <2> QED
    BY <1>2, <1>4, <1>5 DEF JamInv, NoHiddenCycle
<1>7. PICK k \in 1..Len(result) : u \in Range(result[k])
  BY <1>3, <1>6 DEF Together
<1> DEFINE c == result[k]
<1>8. /\ c \in Seq(Robots) /\ Len(c) >= 2
      /\ \A i \in 1..(Len(c) - 1) : c[i + 1] \in adj[c[i]]
      /\ c[1] \in adj[c[Len(c)]]
  BY <1>1 DEF Inv, CyclesAreReal
<1>9. ASSUME NEW s \in Range(c)
      PROVE  Reaches(adj, u, s) /\ Reaches(adj, s, u)
  <2>1. PICK a \in 1..Len(c) : c[a] = u
    BY <1>7, <1>8 DEF Range
  <2>2. PICK b \in 1..Len(c) : c[b] = s
    BY <1>8, <1>9 DEF Range
  <2> HIDE DEF c
  <2> QED
    BY <1>8, <2>1, <2>2, CycleReaches
<1> QED
  BY <1>6, <1>9, ReachOn

(* Action by action.                                                       *)
LEMMA JamStep ==
    ASSUME Inv, Inv', JamInv, [Next]_vars
    PROVE  JamInv'
<1>1. CASE Analyze
  <2>1. /\ pc = "analyze" /\ pc' = "search" /\ path = <<>>
        /\ UNCHANGED <<color, path>>
        /\ color = [s \in Robots |-> "white"]
        /\ roots' = {b \in Robots : adj'[b] # {}}
    BY <1>1 DEF Analyze, Inv, AtRest, JamInv, Fresh
  <2>2. Fresh' /\ NoJamMissed'
    BY <2>1 DEF Fresh, NoJamMissed
  <2>3. StartsKept'
    BY <2>1 DEF StartsKept
  <2>4. DoneSettled' /\ NoHiddenCycle'
    <3>1. \A s \in Robots : color'[s] # "black"
      BY <2>1
    <3> QED
      BY <3>1 DEF DoneSettled, NoHiddenCycle
  <2>5. PathSettled'
    BY <2>1 DEF PathSettled
  <2> QED
    BY <2>2, <2>3, <2>4, <2>5 DEF JamInv
<1>2. ASSUME NEW r \in Robots, TakeRoot(r) PROVE JamInv'
  <2>1. /\ pc = "search" /\ path = <<>> /\ roots' = roots \ {r}
        /\ UNCHANGED <<pc, adj, result>>
        /\ rest \in [Robots -> SUBSET Robots]
        /\ color \in [Robots -> {"white", "grey", "black"}]
    BY <1>2 DEF TakeRoot, Inv, TypeOK
  <2>2. CASE color[r] = "black"
    <3>1. UNCHANGED <<color, path, rest>>
      BY <1>2, <2>2 DEF TakeRoot
    <3>2. Searching' <=> Searching
      BY <2>1 DEF Searching
    <3>3. StartsKept'
      BY <2>1, <2>2, <3>1, <3>2 DEF JamInv, StartsKept
    <3>4. Fresh' /\ NoJamMissed'
      BY <2>1 DEF Fresh, NoJamMissed
    <3>5. DoneSettled' /\ PathSettled' /\ NoHiddenCycle'
      BY <2>1, <3>1, <3>2
        DEF JamInv, DoneSettled, PathSettled, NoHiddenCycle, Settled, Together
    <3> QED
      BY <3>3, <3>4, <3>5 DEF JamInv
  <2>3. CASE color[r] # "black"
    <3>1. Enter(r) /\ rest' = [rest EXCEPT ![r] = adj[r]]
      BY <1>2, <2>3 DEF TakeRoot
    <3>2. color[r] = "white"
      BY <2>1, <2>3 DEF Inv, OnPath
    <3> QED
      BY <2>1, <3>1, <3>2, EnterSettles
  <2> QED
    BY <2>2, <2>3
<1>3. ASSUME NEW v \in Robots, Descend(v) PROVE JamInv'
  <2>1. /\ pc = "search" /\ path # <<>> /\ color[v] = "white" /\ Enter(v)
        /\ UNCHANGED <<pc, adj, roots, result>>
        /\ rest' = [rest EXCEPT ![Top] = @ \ {v}, ![v] = adj[v]]
        /\ rest \in [Robots -> SUBSET Robots]
        /\ Top \in Robots
    BY <1>3, TopLemma DEF Descend, Inv, TypeOK
  <2>2. Top # v
    <3>1. color[Top] = "grey"
      <4>1. Len(path) \in 1..Len(path)
        BY <2>1 DEF Inv, TypeOK
      <4> QED
        BY <2>1, <4>1 DEF Inv, OnPath, Top
    <3> QED
      BY <2>1, <3>1
  <2>3. /\ rest'[v] = adj[v] /\ rest'[Top] = rest[Top] \ {v}
        /\ \A s \in Robots : s # v /\ s # Top => rest'[s] = rest[s]
    BY <2>1, <2>2
  <2> QED
    BY <2>1, <2>3, EnterSettles
<1>4. ASSUME NEW v \in Robots, CloseCycle(v) \/ SkipDone(v) PROVE JamInv'
  BY <1>4, LookSettles
<1>5. ASSUME NEW v \in Robots, Break(v) PROVE JamInv'
  <2>1. ~ Searching' /\ pc' = "search"
    BY <1>5, MaxCyclesAssumption DEF Break, Searching, Inv, TypeOK
  <2> QED
    BY <2>1 DEF JamInv, Fresh, StartsKept, DoneSettled, PathSettled,
                NoHiddenCycle, NoJamMissed
<1>6. CASE Retreat
  BY <1>6, RetreatSettles
<1>7. CASE EndSearch
  <2>1. pc' = "resolve" /\ color' = [s \in Robots |-> "white"]
    BY <1>7 DEF EndSearch
  <2>2. NoJamMissed'
    BY <1>7, EndReports
  <2> QED
    BY <2>1, <2>2 DEF JamInv, Fresh, Searching, StartsKept, DoneSettled,
                      PathSettled, NoHiddenCycle
<1>8. CASE Parole
  <2>1. pc' = "resolve" /\ pc = "resolve" /\ UNCHANGED <<color, adj, result>>
    BY <1>8 DEF Parole, searchVars
  <2>2. NoJamMissed' /\ Fresh'
    BY <2>1 DEF JamInv, NoJamMissed, Fresh
  <2> QED
    BY <2>1, <2>2 DEF JamInv, Searching, StartsKept, DoneSettled, PathSettled,
                      NoHiddenCycle
<1>9. CASE EndFrame
  <2>1. pc' = "analyze" /\ pc = "resolve" /\ UNCHANGED color
    BY <1>9 DEF EndFrame
  <2> QED
    BY <2>1 DEF JamInv, Fresh, Searching, StartsKept, DoneSettled, PathSettled,
                NoHiddenCycle, NoJamMissed
<1>10. CASE UNCHANGED vars
  BY <1>10 DEF vars, searchVars, JamInv, Fresh, Searching, StartsKept,
               DoneSettled, PathSettled, NoHiddenCycle, NoJamMissed, Settled,
               Together
<1> QED
  BY <1>1, <1>2, <1>3, <1>4, <1>5, <1>6, <1>7, <1>8, <1>9, <1>10
    DEF Next, Look

(* Of robots that wait for each other in a circle at least one cycle is    *)
(* reported, unless the search stopped at the limit: the search looks at   *)
(* each robot once, and that is enough.                                    *)
THEOREM Completeness == Spec => []NoJamMissed
<1>1. Init => JamInv
  BY DEF Init, JamInv, Fresh, Searching, StartsKept, DoneSettled, PathSettled,
         NoHiddenCycle, NoJamMissed
<1>2. Inv /\ Inv' /\ JamInv /\ [Next]_vars => JamInv'
  BY JamStep
<1>3. JamInv => NoJamMissed
  BY DEF JamInv
<1> QED
  BY <1>1, <1>2, <1>3, Invariance, PTL DEF Spec

----------------------------------------------------------------------------
(* Who gives way.                                                          *)

(* A sequence of naturals is bounded.                                      *)
LEMMA Bounded ==
    ASSUME NEW c \in Seq(Nat), Len(c) >= 1
    PROVE  \E x \in Nat : \A i \in 1..Len(c) : c[i] <= x
<1> DEFINE n == Len(c)
           P == {j \in 1..n : \E x \in Nat : \A i \in 1..j : c[i] <= x}
<1>1. n \in Nat /\ n >= 1 /\ \A i \in 1..n : c[i] \in Nat
  OBVIOUS
<1> HIDE DEF n
<1>2. 1 \in P
  <2>1. c[1] \in Nat /\ \A i \in 1..1 : c[i] <= c[1]
    BY <1>1
  <2> QED
    BY <1>1, <2>1
<1>3. ASSUME NEW j \in 1..(n - 1), j \in P PROVE j + 1 \in P
  <2>1. PICK x \in Nat : \A i \in 1..j : c[i] <= x
    BY <1>3
  <2>2. j + 1 \in 1..n /\ c[j + 1] \in Nat
    BY <1>1
  <2>3. CASE c[j + 1] <= x
    <3>1. \A i \in 1..(j + 1) : c[i] <= x
      <4> SUFFICES ASSUME NEW i \in 1..(j + 1) PROVE c[i] <= x
        OBVIOUS
      <4>1. i \in 1..j \/ i = j + 1
        OBVIOUS
      <4> QED
        BY <4>1, <2>1, <2>3
    <3> QED
      BY <2>2, <3>1
  <2>4. CASE ~ (c[j + 1] <= x)
    <3>1. \A i \in 1..(j + 1) : c[i] <= c[j + 1]
      <4> SUFFICES ASSUME NEW i \in 1..(j + 1) PROVE c[i] <= c[j + 1]
        OBVIOUS
      <4>1. i \in 1..j \/ i = j + 1
        OBVIOUS
      <4>2. i \in 1..n /\ c[i] \in Nat
        BY <1>1
      <4> QED
        BY <4>1, <4>2, <2>1, <2>2, <2>4
    <3> QED
      BY <2>2, <3>1
  <2> QED
    BY <2>3, <2>4
<1>4. P \in SUBSET (1..n)
  OBVIOUS
<1>5. n \in P
  <2> HIDE DEF P
  <2>1. 1..n \subseteq P
    BY <1>1, <1>2, <1>3, <1>4, Onward
  <2> QED
    BY <1>1, <2>1
<1> QED
  BY <1>5 DEF n

(* Every set of naturals that is not empty and has a bound has a greatest  *)
(* element.                                                                *)
LEMMA Greatest ==
    ASSUME NEW T \in SUBSET Nat, T # {},
           NEW x \in Nat, \A n \in T : n <= x
    PROVE  \E m \in T : \A n \in T : n <= m
<1> DEFINE U == {y \in Nat : \A n \in T : n <= y}
<1>1. PICK m \in U : \A y \in U : m <= y
  <2>1. U \in SUBSET Nat /\ x \in U
    OBVIOUS
  <2> HIDE DEF U
  <2> QED
    BY <2>1, Least
<1>2. ASSUME m \notin T PROVE FALSE
  <2>1. \A n \in T : n \in Nat /\ n <= m /\ n # m
    BY <1>1, <1>2
  <2>2. m \in Nat
    BY <1>1
  <2>3. PICK n \in T : TRUE
    OBVIOUS
  <2>4. m - 1 \in Nat
    BY <2>1, <2>2, <2>3
  <2>5. \A k \in T : k <= m - 1
    BY <2>1, <2>2
  <2>6. m <= m - 1
    BY <1>1, <2>4, <2>5
  <2> QED
    BY <2>2, <2>6
<1> QED
  BY <1>1, <1>2

(* pick_victim finds one, and nobody on the cycle is less urgent.          *)
LEMMA VictimYields ==
    ASSUME TypeOK, NEW c \in Seq(Robots), Len(c) >= 1
    PROVE  /\ Victim(c) \in Range(c)
           /\ \A b \in Range(c) : Yields(Victim(c), b)
<1> DEFINE R == Range(c)
           T == {priority[b] : b \in R}
<1>1. /\ R \in SUBSET Nat /\ R \in SUBSET Robots
      /\ \A b \in R : priority[b] \in Nat
      /\ c[1] \in R
      /\ \A b \in R : \E i \in 1..Len(c) : b = c[i]
  <2>1. 1 \in 1..Len(c) /\ DOMAIN c = 1..Len(c)
        /\ \A i \in 1..Len(c) : c[i] \in Robots
    OBVIOUS
  <2>2. R = {c[i] : i \in 1..Len(c)}
    BY <2>1 DEF Range
  <2>3. R \in SUBSET Robots /\ c[1] \in R
        /\ \A b \in R : \E i \in 1..Len(c) : b = c[i]
    BY <2>1, <2>2
  <2> HIDE DEF R
  <2> QED
    BY <2>3, RobotsAssumption, PrioritiesAssumption DEF TypeOK
<1>2. T \in SUBSET Nat /\ T # {}
  BY <1>1
<1>3. PICK p \in T : \A q \in T : p <= q
  <2> HIDE DEF T
  <2> QED
    BY <1>2, Least
<1> DEFINE L == {b \in R : priority[b] = p}
<1>4. L \in SUBSET Nat /\ L # {}
  BY <1>1, <1>3
<1>5. PICK x \in Nat : \A b \in L : b <= x
  <2>1. c \in Seq(Nat)
    BY RobotsAssumption
  <2>2. PICK y \in Nat : \A i \in 1..Len(c) : c[i] <= y
    BY <2>1, Bounded
  <2> HIDE DEF R
  <2>3. \A b \in L : b <= y
    BY <1>1, <2>2
  <2> QED
    BY <2>3
<1>6. PICK a \in L : \A b \in L : b <= a
  <2> HIDE DEF L
  <2> QED
    BY <1>4, <1>5, Greatest
<1>7. \A b \in R : Yields(a, b)
  <2> SUFFICES ASSUME NEW b \in R PROVE Yields(a, b)
    OBVIOUS
  <2>1. priority[a] = p /\ p <= priority[b]
    BY <1>3, <1>6
  <2>2. a \in Nat /\ b \in Nat /\ p \in Nat /\ priority[b] \in Nat
    BY <1>1, <1>2, <1>3, <1>6
  <2>3. CASE priority[b] = p
    <3>1. b <= a
      BY <1>6, <2>3
    <3> QED
      BY <2>1, <2>2, <2>3, <3>1 DEF Yields
  <2>4. CASE priority[b] # p
    BY <2>1, <2>2, <2>4 DEF Yields
  <2> QED
    BY <2>3, <2>4
<1>8. a \in R
  BY <1>6
<1> HIDE DEF R
<1> QED
  BY <1>7, <1>8 DEF Victim, R

\* What LeastUrgentGivesWay says of a step.
GivesWay ==
    \A r \in Robots : target[r] # NoNode /\ target'[r] = NoNode =>
        \E k \in 1..Len(result) :
            /\ r \in Range(result[k])
            /\ \A s \in Range(result[k]) : priority[s] >= priority[r]

LEMMA GivesWayStep ==
    ASSUME Inv, [Next]_vars
    PROVE  GivesWay
<1> SUFFICES ASSUME NEW r \in Robots, target[r] # NoNode, target'[r] = NoNode
             PROVE  \E k \in 1..Len(result) :
                        /\ r \in Range(result[k])
                        /\ \A s \in Range(result[k]) : priority[s] >= priority[r]
  BY DEF GivesWay
<1>1. Parole
  BY DEF Next, Look, Analyze, TakeRoot, Descend, Break, CloseCycle, SkipDone,
         Retreat, EndSearch, EndFrame, vars, fleetVars
<1> DEFINE k == resolved + 1
           c == result[k]
           v == Victim(c)
<1>2. k \in 1..Len(result) /\ result \in Seq(Seq(Robots))
  BY <1>1 DEF Parole, Inv, TypeOK
<1>3. c \in Seq(Robots) /\ Len(c) >= 1
  BY <1>2 DEF Inv, CyclesAreReal
<1>4. v \in Range(c) /\ \A b \in Range(c) : Yields(v, b)
  <2> HIDE DEF c
  <2> QED
    BY <1>3, VictimYields DEF Inv
<1>5. \A s \in Robots : target'[s] # target[s] => s = v
  BY <1>1 DEF Parole, Inv, TypeOK
<1>6. r = v
  BY <1>5
<1>7. \A s \in Range(c) : priority[s] >= priority[r]
  <2> SUFFICES ASSUME NEW s \in Range(c) PROVE priority[s] >= priority[r]
    OBVIOUS
  <2>1. Yields(r, s)
    BY <1>4, <1>6
  <2>2. s \in Robots
    BY <1>3 DEF Range
  <2>3. priority[s] \in Nat /\ priority[r] \in Nat
    BY <2>2, PrioritiesAssumption DEF Inv, TypeOK
  <2> QED
    BY <2>1, <2>3 DEF Yields
<1> QED
  BY <1>2, <1>4, <1>6, <1>7

(* An urgent task is not taken away for a lesser one.                      *)
THEOREM LeastUrgentFirst == Spec => LeastUrgentGivesWay
<1>1. Inv /\ [Next]_vars => [GivesWay]_vars
  BY GivesWayStep
<1> QED
  BY <1>1, Invariance, PTL DEF Spec, LeastUrgentGivesWay, GivesWay

----------------------------------------------------------------------------
(* What a frame achieves.                                                  *)

\* Of each report that was resolved a robot is bound nowhere.
CyclesAreCut ==
    /\ pc # "resolve" => resolved = 0
    /\ \A k \in 1..resolved : \E r \in Range(result[k]) : target[r] = NoNode

LEMMA CutStep ==
    ASSUME Inv, Inv', CyclesAreCut, [Next]_vars
    PROVE  CyclesAreCut'
<1>1. CASE Parole
  <2> DEFINE k == resolved + 1
             c == result[k]
             v == Victim(c)
  <2>1. /\ k \in 1..Len(result) /\ result \in Seq(Seq(Robots))
        /\ resolved' = resolved + 1 /\ resolved \in Nat
        /\ UNCHANGED <<pc, result>> /\ pc = "resolve"
    BY <1>1 DEF Parole, Inv, TypeOK, searchVars
  <2>2. c \in Seq(Robots) /\ Len(c) >= 1
    BY <2>1 DEF Inv, CyclesAreReal
  <2>3. v \in Range(c) /\ v \in Robots
    <3> HIDE DEF c
    <3>1. v \in Range(c)
      BY <2>2, VictimYields DEF Inv
    <3> QED
      BY <2>2, <3>1 DEF Range
  <2>4. /\ target'[v] = NoNode
        /\ \A r : target[r] = NoNode /\ r \in Robots => target'[r] = NoNode
    <3> HIDE DEF v
    <3>1. target \in [Robots -> Nodes \cup {NoNode}]
      BY DEF Inv, TypeOK
    <3>2. \/ target' = [target EXCEPT ![v] = NoNode]
          \/ target' = target /\ target[v] = NoNode
      BY <1>1 DEF Parole, v
    <3> QED
      BY <2>3, <3>1, <3>2
  <2> SUFFICES ASSUME NEW j \in 1..(resolved + 1)
               PROVE  \E r \in Range(result[j]) : target'[r] = NoNode
    BY <2>1 DEF CyclesAreCut
  <2>5. CASE j = resolved + 1
    BY <2>3, <2>4, <2>5
  <2>6. CASE j # resolved + 1
    <3>1. j \in 1..resolved /\ j \in 1..Len(result)
      BY <2>1, <2>6
    <3>2. PICK r \in Range(result[j]) : target[r] = NoNode
      BY <3>1 DEF CyclesAreCut
    <3>3. r \in Robots
      BY <2>1, <3>1, <3>2 DEF Range
    <3> QED
      BY <2>4, <3>2, <3>3
  <2> QED
    BY <2>5, <2>6
<1>2. CASE EndFrame
  BY <1>2 DEF EndFrame, CyclesAreCut
<1>3. CASE pc # "resolve" /\ UNCHANGED <<target, resolved>>
  BY <1>3 DEF CyclesAreCut
<1>4. CASE UNCHANGED vars
  BY <1>4 DEF vars, fleetVars, searchVars, CyclesAreCut
<1> QED
  BY <1>1, <1>2, <1>3, <1>4
    DEF Next, Look, Analyze, TakeRoot, Descend, Break, CloseCycle, SkipDone,
        Retreat, EndSearch, fleetVars

(* When the reports of a frame are resolved, each jam it saw has a robot   *)
(* that is bound nowhere: what is reported of a jam lies within it, and is *)
(* resolved by taking a task of it.                                        *)
THEOREM Headway == Spec => []EveryJamGivesWay
<1>1. Init => CyclesAreCut
  BY DEF Init, CyclesAreCut
<1>2. Inv /\ Inv' /\ CyclesAreCut /\ [Next]_vars => CyclesAreCut'
  BY CutStep
<1>3. Inv /\ CyclesAreCut /\ NoJamMissed => EveryJamGivesWay
  <2> SUFFICES ASSUME Inv, CyclesAreCut, NoJamMissed,
                      pc = "resolve", resolved = Len(result),
                      Len(result) < MaxCycles,
                      NEW r \in Robots, Reaches(adj, r, r)
               PROVE  \E s \in Robots : /\ Reaches(adj, r, s)
                                        /\ Reaches(adj, s, r)
                                        /\ target[s] = NoNode
    BY DEF EveryJamGivesWay
  <2>1. PICK k \in 1..Len(result) : \A s \in Range(result[k]) :
                Reaches(adj, r, s) /\ Reaches(adj, s, r)
    BY DEF NoJamMissed
  <2>2. PICK s \in Range(result[k]) : target[s] = NoNode
    BY DEF CyclesAreCut
  <2>3. s \in Robots
    <3>1. result[k] \in Seq(Robots)
      BY DEF Inv, TypeOK
    <3> QED
      BY <3>1 DEF Range
  <2> QED
    BY <2>1, <2>2, <2>3
<1> QED
  BY <1>1, <1>2, <1>3, Invariance, Completeness, PTL DEF Spec
=============================================================================
