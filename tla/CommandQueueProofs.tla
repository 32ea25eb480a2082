------------------------- MODULE CommandQueueProofs -------------------------
(***************************************************************************)
(* Proofs about CommandQueue, for any lanes, calls, waiters and number of  *)
(* resets.  The heart is PumpLemma, what one pump does to one lane, and    *)
(* DrainLemma, that drainLane turns lane state that is merely consistent   *)
(* into lane state that is consistent and work conserving.  Each action is *)
(* then: its own writes keep the lane state consistent, and the pump it    *)
(* ends with does the rest.                                                *)
(***************************************************************************)
EXTENDS CommandQueue, FiniteSetTheorems, SequenceTheorems, TLAPS

(* The operators below take every value they speak of as an argument, so that *)
(* the lemmas hold of a state, of its successor and of what is written in    *)
(* between alike.                                                            *)

\* Consistency of lane and call state, before or after pumping.
Consistent(q, act, max, gen, ph, lo, tg) ==
  /\ q \in [Lanes -> Seq(Tasks)]
  /\ act \in [Lanes -> SUBSET Tasks]
  /\ \A l \in Lanes : IsFiniteSet(act[l])
  /\ max \in [Lanes -> Nat \ {0}]
  /\ gen \in [Lanes -> Nat]
  /\ ph \in [Tasks -> Phases]
  /\ lo \in [Tasks -> Lanes]
  /\ tg \in [Tasks -> Nat]
  /\ \A l \in Lanes : \A i, j \in 1..Len(q[l]) : q[l][i] = q[l][j] => i = j
  /\ \A l \in Lanes : {q[l][i] : i \in 1..Len(q[l])}
                        = {t \in Tasks : ph[t] = "queued" /\ lo[t] = l}
  /\ \A l \in Lanes : act[l] = {t \in Tasks : /\ ph[t] = "running"
                                              /\ lo[t] = l
                                              /\ tg[t] = gen[l]}
  /\ \A t \in Tasks : ph[t] = "running" => tg[t] <= gen[lo[t]]

\* The lanes of ls hold nobody back while they have a free slot.
Busy(ls, q, act, max) ==
  \A l \in ls : q[l] # <<>> => Cardinality(act[l]) >= max[l]

\* DrainLanes, with q2, act2, ph2 and tg2 for the new values.
Drained(ls, q, act, max, gen, ph, lo, tg, q2, act2, ph2, tg2) ==
  LET starts(l) == IF l \in ls THEN PumpStarts(q[l], act[l], max[l])
                               ELSE {}
      started == UNION {starts(l) : l \in Lanes}
  IN  /\ q2 = [l \in Lanes |-> IF l \in ls THEN PumpLeaves(q[l], act[l], max[l])
                                           ELSE q[l]]
      /\ act2 = [l \in Lanes |-> act[l] \cup starts(l)]
      /\ ph2 = [t \in Tasks |-> IF t \in started THEN "running" ELSE ph[t]]
      /\ tg2 = [t \in Tasks |-> IF t \in started THEN gen[lo[t]] ELSE tg[t]]

\* LaneServers' Admit, with line2 and busy2 for the new values.
Admitted(line, busy, c, line2, busy2) ==
  \E n \in 0..Len(line) :
    /\ line2 = SubSeq(line, n + 1, Len(line))
    /\ busy2 = busy \cup {line[i] : i \in 1..n}
    /\ n > 0 => Cardinality(busy2) <= c
    /\ n < Len(line) => Cardinality(busy2) >= c

\* What the lemmas below show of such a drain: the new state is consistent and
\* busy, each lane of ls took calls in from its front and no other lane moved,
\* and only calls that were waiting gained a slot.
Pumped(ls, q, act, max, gen, ph, lo, tg, q2, act2, ph2, tg2) ==
  /\ Consistent(q2, act2, max, gen, ph2, lo, tg2)
  /\ Busy(Lanes, q2, act2, max)
  /\ \A l \in Lanes : l \in ls => Admitted(q[l], act[l], max[l], q2[l], act2[l])
  /\ \A l \in Lanes : l \notin ls => q2[l] = q[l] /\ act2[l] = act[l]
  /\ \A l \in Lanes : \A t \in act2[l] :
        t \in act[l] \/ (t \in Tasks /\ ph[t] = "queued")
  /\ \A t \in Tasks : ph2[t] = ph[t] \/ ph2[t] = "running"

-----------------------------------------------------------------------------
\* The first n entries of a queue without repetition are n calls.
LEMMA PrefixCardinality ==
  ASSUME NEW S, NEW q \in Seq(S), NEW n \in 0..Len(q),
         \A i, j \in 1..Len(q) : q[i] = q[j] => i = j,
         NEW P, P = {q[i] : i \in 1..n}
  PROVE  IsFiniteSet(P) /\ Cardinality(P) = n
<1> DEFINE f == [i \in 1..n |-> q[i]]
<1>1. n \in Nat /\ 1..n \subseteq 1..Len(q)
  BY LenProperties
<1>2. f \in Bijection(1..n, P)
  <2>1. f \in [1..n -> P]
    OBVIOUS
  <2>2. \A a, b \in 1..n : f[a] = f[b] => a = b
    BY <1>1
  <2>3. \A y \in P : \E a \in 1..n : f[a] = y
    OBVIOUS
  <2> QED
    BY <2>1, <2>2, <2>3 DEF Bijection, Injection, Surjection, IsInjective
<1>3. ExistsBijection(1..n, P)
  BY <1>2 DEF ExistsBijection
<1>4. IsFiniteSet(1..n) /\ Cardinality(1..n) = n
  BY <1>1, FS_Interval
<1> QED
  BY <1>3, <1>4, FS_Bijection

\* What one pump does to one lane: it starts entries from the front only, leaves
\* the lane within its slots if it starts any, and full if it leaves any.
LEMMA PumpLemma ==
  ASSUME NEW S, NEW q \in Seq(S), NEW act \in SUBSET S, IsFiniteSet(act),
         NEW max \in Nat \ {0},
         \A i, j \in 1..Len(q) : q[i] = q[j] => i = j,
         \A i \in 1..Len(q) : q[i] \notin act
  PROVE  LET n == PumpCount(q, act, max)
             busy == act \cup {q[i] : i \in 1..n}
         IN  /\ n \in 0..Len(q)
             /\ IsFiniteSet(busy)
             /\ n > 0 => Cardinality(busy) <= max
             /\ n < Len(q) => Cardinality(busy) >= max
<1> DEFINE n == PumpCount(q, act, max)
           P == {q[i] : i \in 1..n}
<1>1. Cardinality(act) \in Nat /\ Len(q) \in Nat
  BY FS_CardinalityType, LenProperties
<1>2. n \in 0..Len(q)
  BY <1>1 DEF PumpCount
<1>6. n > 0 => Cardinality(act) + n <= max
  BY <1>1 DEF PumpCount
<1>7. n < Len(q) => Cardinality(act) + n >= max
  BY <1>1 DEF PumpCount
<1> HIDE DEF n
<1>3. IsFiniteSet(P) /\ Cardinality(P) = n
  BY <1>2, PrefixCardinality
<1>4. act \cap P = {}
  BY <1>1, <1>2
<1>5. /\ IsFiniteSet(act \cup P)
      /\ Cardinality(act \cup P) = Cardinality(act) + n
  <2> HIDE DEF P
  <2>1. Cardinality(act \cap P) = 0
    BY <1>4, FS_EmptySet
  <2>2. /\ IsFiniteSet(act \cup P)
        /\ Cardinality(act \cup P)
             = Cardinality(act) + Cardinality(P) - Cardinality(act \cap P)
    BY <1>3, FS_Union
  <2> QED
    BY <1>1, <1>2, <1>3, <2>1, <2>2
<1> QED
  BY <1>2, <1>5, <1>6, <1>7 DEF n

\* What is left of a queue after its first n entries.
LEMMA SuffixLemma ==
  ASSUME NEW S, NEW q \in Seq(S), NEW n \in 0..Len(q),
         NEW r, r = SubSeq(q, n + 1, Len(q))
  PROVE  /\ r \in Seq(S)
         /\ Len(r) = Len(q) - n
         /\ \A i \in 1..Len(r) : r[i] = q[n + i]
<1>1. Len(q) \in Nat /\ \A i \in (n + 1)..Len(q) : q[i] \in S
  BY LenProperties, ElementOfSeq
<1>2. /\ r \in Seq(S)
      /\ Len(r) = IF n + 1 <= Len(q) THEN Len(q) - (n + 1) + 1 ELSE 0
      /\ \A i \in 1..(Len(q) - (n + 1) + 1) : r[i] = q[(n + 1) + i - 1]
  <2> DEFINE m == n + 1
             k == Len(q)
  <2>1. m \in Int /\ k \in Int /\ \A i \in m..k : q[i] \in S
    BY <1>1
  <2> HIDE DEF m, k
  <2>2. /\ SubSeq(q, m, k) \in Seq(S)
        /\ Len(SubSeq(q, m, k)) = IF m <= k THEN k - m + 1 ELSE 0
        /\ \A i \in 1..k - m + 1 : SubSeq(q, m, k)[i] = q[m + i - 1]
    BY <2>1, SubSeqProperties
  <2> QED
    BY <2>2 DEF m, k
<1> QED
  BY <1>1, <1>2

\* drainLane on the lanes ls, from a consistent lane state in which the other
\* lanes are busy: the result is consistent, and every lane is busy.
LEMMA DrainLemma ==
  ASSUME NEW ls \in SUBSET Lanes, NEW q, NEW act, NEW max, NEW gen, NEW ph,
         NEW lo, NEW tg, NEW q2, NEW act2, NEW ph2, NEW tg2,
         Consistent(q, act, max, gen, ph, lo, tg), Busy(Lanes \ ls, q, act, max),
         Drained(ls, q, act, max, gen, ph, lo, tg, q2, act2, ph2, tg2)
  PROVE  Pumped(ls, q, act, max, gen, ph, lo, tg, q2, act2, ph2, tg2)
<1> DEFINE n == [l \in Lanes |-> PumpCount(q[l], act[l], max[l])]
           front == [l \in Lanes |-> {q[l][i] : i \in 1..n[l]}]
           starts == [l \in Lanes |-> IF l \in ls THEN front[l] ELSE {}]
           started == UNION {starts[l] : l \in Lanes}
<1>n. \A l \in Lanes : n[l] = PumpCount(q[l], act[l], max[l])
  OBVIOUS
<1>f. \A l \in Lanes : front[l] = {q[l][i] : i \in 1..n[l]}
  OBVIOUS
<1>s. \A l \in Lanes : starts[l] = IF l \in ls THEN front[l] ELSE {}
  OBVIOUS
<1>d. \A l \in Lanes : starts[l] = IF l \in ls THEN PumpStarts(q[l], act[l], max[l]) ELSE {}
  BY <1>n, <1>f, <1>s DEF PumpStarts
<1> HIDE DEF n, front, starts
\* The hypotheses, unfolded.
<1>1. /\ q2 = [l \in Lanes |-> IF l \in ls
                                     THEN PumpLeaves(q[l], act[l], max[l])
                                     ELSE q[l]]
      /\ act2 = [l \in Lanes |-> act[l] \cup starts[l]]
      /\ ph2 = [t \in Tasks |-> IF t \in started THEN "running" ELSE ph[t]]
      /\ tg2 = [t \in Tasks |-> IF t \in started
                                              THEN gen[lo[t]]
                                              ELSE tg[t]]
  <2>1. [l \in Lanes |-> act[l] \cup starts[l]]
          = [l \in Lanes |-> act[l] \cup IF l \in ls THEN PumpStarts(q[l], act[l], max[l]) ELSE {}]
    BY <1>d
  <2>2. started = UNION {IF l \in ls THEN PumpStarts(q[l], act[l], max[l]) ELSE {} : l \in Lanes}
    BY <1>d
  <2> QED
    BY <2>1, <2>2 DEF Drained
<1>2. /\ q \in [Lanes -> Seq(Tasks)]
      /\ act \in [Lanes -> SUBSET Tasks]
      /\ \A l \in Lanes : IsFiniteSet(act[l])
      /\ max \in [Lanes -> Nat \ {0}]
      /\ gen \in [Lanes -> Nat]
      /\ ph \in [Tasks -> Phases]
      /\ lo \in [Tasks -> Lanes]
      /\ tg \in [Tasks -> Nat]
  BY DEF Consistent
<1>3. \A l \in Lanes : \A i, j \in 1..Len(q[l]) : q[l][i] = q[l][j] => i = j
  BY DEF Consistent
<1>4. \A l \in Lanes, t \in Tasks :
        (\E i \in 1..Len(q[l]) : q[l][i] = t) <=> ph[t] = "queued" /\ lo[t] = l
  <2>1. \A l \in Lanes : {q[l][i] : i \in 1..Len(q[l])}
                          = {t \in Tasks : ph[t] = "queued" /\ lo[t] = l}
    BY DEF Consistent
  <2> QED
    BY <2>1
<1>5. \A l \in Lanes, t \in Tasks :
        t \in act[l] <=> /\ ph[t] = "running"
                        /\ lo[t] = l
                        /\ tg[t] = gen[l]
  BY DEF Consistent
<1>6. \A t \in Tasks : ph[t] = "running" => tg[t] <= gen[lo[t]]
  BY DEF Consistent
\* What the pump of one lane does.
<1>8. \A l \in Lanes : Len(q[l]) \in Nat /\ \A i \in 1..Len(q[l]) : q[l][i] \in Tasks
  BY <1>2, LenProperties, ElementOfSeq
<1>9. \A l \in Lanes : \A i \in 1..Len(q[l]) : q[l][i] \notin act[l]
  BY <1>4, <1>5, <1>8
<1>10. \A l \in Lanes :
         /\ n[l] \in 0..Len(q[l])
         /\ IsFiniteSet(act[l] \cup front[l])
         /\ n[l] > 0 => Cardinality(act[l] \cup front[l]) <= max[l]
         /\ n[l] < Len(q[l]) => Cardinality(act[l] \cup front[l]) >= max[l]
  <2> SUFFICES ASSUME NEW l \in Lanes
               PROVE  LET k == PumpCount(q[l], act[l], max[l])
                          busy == act[l] \cup {q[l][i] : i \in 1..k}
                      IN  /\ k \in 0..Len(q[l])
                          /\ IsFiniteSet(busy)
                          /\ k > 0 => Cardinality(busy) <= max[l]
                          /\ k < Len(q[l]) => Cardinality(busy) >= max[l]
    BY <1>n, <1>f
  <2>1. /\ q[l] \in Seq(Tasks) /\ act[l] \in SUBSET Tasks
        /\ IsFiniteSet(act[l]) /\ max[l] \in Nat \ {0}
        /\ \A i, j \in 1..Len(q[l]) : q[l][i] = q[l][j] => i = j
        /\ \A i \in 1..Len(q[l]) : q[l][i] \notin act[l]
    BY <1>2, <1>3, <1>9
  <2> QED
    BY <2>1, PumpLemma
<1>11. \A l \in Lanes : n[l] \in 0..Len(q[l])
  BY <1>10
<1>12. \A l \in Lanes, t \in Tasks : t \in front[l] <=> \E i \in 1..n[l] : q[l][i] = t
  BY <1>f
<1>13. \A l \in Lanes : \A i \in 1..Len(q[l]) : q[l][i] \in front[l] <=> i \in 1..n[l]
  BY <1>3, <1>8, <1>11, <1>12
<1>14. \A l \in Lanes : \A t \in front[l] : t \in Tasks /\ ph[t] = "queued" /\ lo[t] = l
  <2> SUFFICES ASSUME NEW l \in Lanes, NEW i \in 1..n[l]
               PROVE  LET t == q[l][i] IN t \in Tasks /\ ph[t] = "queued" /\ lo[t] = l
    BY <1>f
  <2>1. i \in 1..Len(q[l])
    BY <1>8, <1>11
  <2> QED
    BY <2>1, <1>4, <1>8
<1>15. \A t \in Tasks : t \in started <=> t \in starts[lo[t]]
  <2>1. \A t \in Tasks : lo[t] \in Lanes
    BY <1>2
  <2>2. \A l \in Lanes : \A t \in starts[l] : lo[t] = l
    BY <1>14, <1>s
  <2> QED
    BY <2>1, <2>2
<1> HIDE DEF started
<1>16. \A l \in Lanes : l \notin ls => q2[l] = q[l] /\ starts[l] = {}
  BY <1>1, <1>s
<1>17. \A l \in Lanes : l \in ls => q2[l] = SubSeq(q[l], n[l] + 1, Len(q[l]))
  BY <1>1, <1>n DEF PumpLeaves
<1>18. \A l \in Lanes : l \in ls =>
         /\ q2[l] \in Seq(Tasks)
         /\ Len(q2[l]) = Len(q[l]) - n[l]
         /\ \A i \in 1..Len(q2[l]) : q2[l][i] = q[l][n[l] + i]
  <2> SUFFICES ASSUME NEW l \in Lanes, l \in ls
               PROVE  /\ q2[l] \in Seq(Tasks)
                      /\ Len(q2[l]) = Len(q[l]) - n[l]
                      /\ \A i \in 1..Len(q2[l]) : q2[l][i] = q[l][n[l] + i]
    OBVIOUS
  <2>1. q[l] \in Seq(Tasks) /\ n[l] \in 0..Len(q[l])
    BY <1>2, <1>11
  <2>2. q2[l] = SubSeq(q[l], n[l] + 1, Len(q[l]))
    BY <1>17
  <2> DEFINE r == q2[l]
             p == q[l]
             k == n[l]
  <2>3. p \in Seq(Tasks) /\ k \in 0..Len(p) /\ r = SubSeq(p, k + 1, Len(p))
    BY <2>1, <2>2
  <2> HIDE DEF r, p, k
  <2>4. /\ r \in Seq(Tasks)
        /\ Len(r) = Len(p) - k
        /\ \A i \in 1..Len(r) : r[i] = p[k + i]
    BY <2>3, SuffixLemma
  <2> QED
    BY <2>4 DEF r, p, k
\* The conclusions, one conjunct at a time.
<1>19. /\ q2 \in [Lanes -> Seq(Tasks)]
       /\ act2 \in [Lanes -> SUBSET Tasks]
       /\ ph2 \in [Tasks -> Phases]
       /\ tg2 \in [Tasks -> Nat]
  <2>1. \A l \in Lanes : q2[l] \in Seq(Tasks)
    BY <1>2, <1>16, <1>18
  <2>2. \A l \in Lanes : act[l] \cup starts[l] \in SUBSET Tasks
    BY <1>2, <1>14, <1>s
  <2>3. ph2 \in [Tasks -> Phases]
    BY <1>1, <1>2 DEF Phases
  <2>4. tg2 \in [Tasks -> Nat]
    BY <1>1, <1>2
  <2> QED
    BY <1>1, <2>1, <2>2, <2>3, <2>4
<1>20. \A l \in Lanes : IsFiniteSet(act2[l])
  BY <1>1, <1>2, <1>10, <1>s
<1>21. \A l \in Lanes : \A i, j \in 1..Len(q2[l]) :
         q2[l][i] = q2[l][j] => i = j
  <2> SUFFICES ASSUME NEW l \in Lanes, NEW i \in 1..Len(q2[l]),
                      NEW j \in 1..Len(q2[l]), q2[l][i] = q2[l][j]
               PROVE  i = j
    OBVIOUS
  <2>1. CASE l \notin ls
    BY <2>1, <1>3, <1>16
  <2>2. CASE l \in ls
    <3>0. Len(q2[l]) = Len(q[l]) - n[l] /\ Len(q[l]) \in Nat /\ n[l] \in 0..Len(q[l])
      BY <2>2, <1>8, <1>11, <1>18
    <3>1. n[l] + i \in 1..Len(q[l]) /\ n[l] + j \in 1..Len(q[l])
      BY <3>0
    <3>2. q[l][n[l] + i] = q[l][n[l] + j]
      BY <2>2, <1>18
    <3>3. n[l] + i = n[l] + j
      BY <3>1, <3>2, <1>3
    <3> QED
      BY <3>3, <1>8, <1>11
  <2> QED
    BY <2>1, <2>2
<1>22. \A l \in Lanes, t \in Tasks :
         (\E i \in 1..Len(q2[l]) : q2[l][i] = t)
           <=> ph2[t] = "queued" /\ lo[t] = l
  <2> SUFFICES ASSUME NEW l \in Lanes, NEW t \in Tasks
               PROVE  (\E i \in 1..Len(q2[l]) : q2[l][i] = t)
                        <=> ph2[t] = "queued" /\ lo[t] = l
    OBVIOUS
  <2>1. ph2[t] = "queued" <=> ph[t] = "queued" /\ t \notin starts[lo[t]]
    BY <1>1, <1>15
  <2>2. CASE l \notin ls
    BY <2>1, <2>2, <1>4, <1>16
  <2>3. CASE l \in ls
    <3>1. ASSUME NEW i \in 1..Len(q2[l]), q2[l][i] = t
          PROVE  ph2[t] = "queued" /\ lo[t] = l
      <4>1. n[l] + i \in 1..Len(q[l]) /\ n[l] + i \notin 1..n[l] /\ q[l][n[l] + i] = t
        <5>1. Len(q2[l]) = Len(q[l]) - n[l] /\ Len(q[l]) \in Nat /\ n[l] \in 0..Len(q[l])
          BY <2>3, <1>8, <1>11, <1>18
        <5>2. q[l][n[l] + i] = t
          BY <3>1, <2>3, <1>18
        <5> QED
          BY <5>1, <5>2
      <4>2. ph[t] = "queued" /\ lo[t] = l
        BY <4>1, <1>4
      <4>3. t \notin front[l]
        BY <4>1, <1>13
      <4> QED
        BY <4>2, <4>3, <2>1, <2>3, <1>s
    <3>2. ASSUME ph2[t] = "queued", lo[t] = l
          PROVE  \E i \in 1..Len(q2[l]) : q2[l][i] = t
      <4>1. PICK k \in 1..Len(q[l]) : q[l][k] = t
        BY <3>2, <2>1, <1>4
      <4>2. k \notin 1..n[l]
        BY <4>1, <3>2, <2>1, <2>3, <1>13, <1>s
      <4>3. /\ k - n[l] \in 1..(Len(q[l]) - n[l])
            /\ n[l] + (k - n[l]) = k
        BY <4>2, <1>8, <1>11
      <4>4. q2[l][k - n[l]] = t
        BY <4>1, <4>3, <2>3, <1>18
      <4> QED
        BY <4>3, <4>4, <2>3, <1>18
    <3> QED
      BY <3>1, <3>2
  <2> QED
    BY <2>2, <2>3
<1>23. \A l \in Lanes, t \in Tasks :
         t \in act2[l] <=> /\ ph2[t] = "running"
                                    /\ lo[t] = l
                                    /\ tg2[t] = gen[l]
  <2> SUFFICES ASSUME NEW l \in Lanes, NEW t \in Tasks
               PROVE  t \in act[l] \cup starts[l] <=> /\ ph2[t] = "running"
                                                      /\ lo[t] = l
                                                      /\ tg2[t] = gen[l]
    BY <1>1
  <2>1. t \in starts[l] => lo[t] = l /\ ph[t] = "queued"
    BY <1>14, <1>s
  <2>2. CASE t \in started
    <3>1. t \in starts[lo[t]] /\ ph2[t] = "running" /\ tg2[t] = gen[lo[t]]
      BY <2>2, <1>1, <1>15
    <3>2. ph[t] = "queued"
      BY <3>1, <1>2, <1>14, <1>s
    <3> QED
      BY <3>1, <3>2, <2>1, <1>5
  <2>3. CASE t \notin started
    <3>1. t \notin starts[l] /\ ph2[t] = ph[t] /\ tg2[t] = tg[t]
      BY <2>3, <2>1, <1>1, <1>15
    <3> QED
      BY <3>1, <1>5
  <2> QED
    BY <2>2, <2>3
<1>24. \A t \in Tasks : ph2[t] = "running" => tg2[t] <= gen[lo[t]]
  <2> SUFFICES ASSUME NEW t \in Tasks, ph2[t] = "running"
               PROVE  tg2[t] <= gen[lo[t]]
    OBVIOUS
  <2>1. gen[lo[t]] \in Nat
    BY <1>2, <1>2
  <2> QED
    BY <2>1, <1>1, <1>6
<1>25. Consistent(q2, act2, max, gen, ph2, lo, tg2)
  <2>1. /\ \A l \in Lanes : {q2[l][i] : i \in 1..Len(q2[l])}
                             = {t \in Tasks : ph2[t] = "queued" /\ lo[t] = l}
        /\ \A l \in Lanes : act2[l]
                             = {t \in Tasks : /\ ph2[t] = "running"
                                              /\ lo[t] = l
                                              /\ tg2[t] = gen[l]}
    <3>1. \A l \in Lanes : \A i \in 1..Len(q2[l]) : q2[l][i] \in Tasks
      BY <1>19, ElementOfSeq
    <3>2. \A l \in Lanes : act2[l] \subseteq Tasks
      BY <1>19
    <3> QED
      BY <3>1, <3>2, <1>22, <1>23
  <2> QED
    BY <2>1, <1>1, <1>2, <1>19, <1>20, <1>21, <1>24 DEF Consistent
<1>26. Busy(Lanes, q2, act2, max)
  <2> SUFFICES ASSUME NEW l \in Lanes, q2[l] # <<>>
               PROVE  Cardinality(act2[l]) >= max[l]
    BY DEF Busy
  <2>1. CASE l \in ls
    <3>1. Len(q2[l]) # 0
      BY <1>19, EmptySeq
    <3>2. n[l] < Len(q[l])
      BY <3>1, <2>1, <1>8, <1>11, <1>18
    <3> QED
      BY <3>2, <2>1, <1>1, <1>10, <1>s
  <2>2. CASE l \notin ls
    BY <2>2, <1>1, <1>16 DEF Busy
  <2> QED
    BY <2>1, <2>2
<1>27. \A l \in Lanes : l \in ls => Admitted(q[l], act[l], max[l], q2[l], act2[l])
  <2> SUFFICES ASSUME NEW l \in Lanes, l \in ls
               PROVE  Admitted(q[l], act[l], max[l], q2[l], act2[l])
    OBVIOUS
  <2>1. /\ q2[l] = SubSeq(q[l], n[l] + 1, Len(q[l]))
        /\ act2[l] = act[l] \cup {q[l][i] : i \in 1..n[l]}
    BY <1>1, <1>f, <1>s, <1>17
  <2>2. /\ n[l] > 0 => Cardinality(act2[l]) <= max[l]
        /\ n[l] < Len(q[l]) => Cardinality(act2[l]) >= max[l]
    BY <1>1, <1>10, <1>s
  <2>3. n[l] \in 0..Len(q[l])
    BY <1>11
  <2> DEFINE A(k) == /\ q2[l] = SubSeq(q[l], k + 1, Len(q[l]))
                     /\ act2[l] = act[l] \cup {q[l][i] : i \in 1..k}
                     /\ k > 0 => Cardinality(act2[l]) <= max[l]
                     /\ k < Len(q[l]) => Cardinality(act2[l]) >= max[l]
  <2>4. A(n[l])
    BY <2>1, <2>2
  <2>5. Admitted(q[l], act[l], max[l], q2[l], act2[l]) <=> \E k \in 0..Len(q[l]) : A(k)
    BY DEF Admitted
  <2> HIDE DEF A
  <2> QED
    BY <2>3, <2>4, <2>5
<1>28. \A l \in Lanes : l \notin ls => q2[l] = q[l] /\ act2[l] = act[l]
  BY <1>1, <1>16
<1>29. \A l \in Lanes : \A t \in act2[l] :
        t \in act[l] \/ (t \in Tasks /\ ph[t] = "queued")
  BY <1>1, <1>14, <1>s
<1>30. \A t \in Tasks : ph2[t] = ph[t] \/ ph2[t] = "running"
  BY <1>1
<1> QED
  BY <1>19, <1>25, <1>26, <1>27, <1>28, <1>29, <1>30 DEF Pumped

-----------------------------------------------------------------------------
(* The inductive invariant *)

LaneInv ==
  /\ Consistent(queue, activeTaskIds, maxConcurrent, generation, phase, laneOf,
                taskGeneration)
  /\ Busy(Lanes, queue, activeTaskIds, maxConcurrent)

WaiterInv ==
  /\ waiterState \in [Waiters -> {"idle", "waiting", "drained", "expired"}]
  /\ activeAtStart \in [Waiters -> SUBSET Tasks]
  /\ DrainedVerdict

IInv == gatewayDraining \in BOOLEAN /\ LaneInv /\ WaiterInv

\* Each state invariant of the specification is a part of IInv.
LEMMA InvImplies ==
  ASSUME IInv
  PROVE  TypeOK /\ QueueAccounting /\ SlotAccounting /\ WorkConserving /\ DrainedVerdict
BY DEF IInv, LaneInv, Consistent, Busy, WaiterInv, TypeOK, QueueAccounting,
       SlotAccounting, WorkConserving

LEMMA InitInv == Init => IInv
<1> SUFFICES ASSUME Init PROVE IInv
  OBVIOUS
<1> USE DEF Init
<1>2. Consistent(queue, activeTaskIds, maxConcurrent, generation, phase, laneOf,
                 taskGeneration)
  <2>1. \A l \in Lanes : queue[l] \in Seq(Tasks) /\ Len(queue[l]) = 0
    BY EmptySeq
  <2>2. \A l \in Lanes : IsFiniteSet(activeTaskIds[l])
    BY FS_EmptySet
  <2>3. \A l \in Lanes : {queue[l][i] : i \in 1..Len(queue[l])}
                          = {t \in Tasks : phase[t] = "queued" /\ laneOf[t] = l}
    BY <2>1
  <2> QED
    BY <2>1, <2>2, <2>3 DEF Consistent, Phases
<1>3. Busy(Lanes, queue, activeTaskIds, maxConcurrent)
  BY DEF Busy
<1>4. WaiterInv
  BY DEF WaiterInv, DrainedVerdict
<1> QED
  BY <1>2, <1>3, <1>4 DEF IInv, LaneInv

\* Waiters that do not move keep their verdicts when no call that has started
\* goes back, and only calls that had not started gain a slot.
LEMMA WaiterLemma ==
  ASSUME IInv, UNCHANGED waiterVars,
         \A t \in Tasks : phase[t] \notin {"absent", "queued"}
                            => phase'[t] \notin {"absent", "queued"},
         \A l \in Lanes : \A t \in activeTaskIds'[l] :
            t \in activeTaskIds[l] \/ phase[t] \in {"absent", "queued"}
  PROVE  WaiterInv'
<1>1. /\ waiterState \in [Waiters -> {"idle", "waiting", "drained", "expired"}]
      /\ activeAtStart \in [Waiters -> SUBSET Tasks]
      /\ waiterState' = waiterState /\ activeAtStart' = activeAtStart
  BY DEF IInv, WaiterInv, waiterVars
<1>2. ASSUME NEW w \in Waiters
      PROVE  /\ \A t \in activeAtStart[w] : phase'[t] \notin {"absent", "queued"}
             /\ waiterState[w] = "drained" => activeAtStart[w] \cap AllActive' = {}
  <2>1. /\ \A t \in activeAtStart[w] : t \in Tasks /\ phase[t] \notin {"absent", "queued"}
        /\ waiterState[w] = "drained" => activeAtStart[w] \cap AllActive = {}
    BY <1>1 DEF IInv, WaiterInv, DrainedVerdict
  <2> QED
    BY <2>1 DEF AllActive
<1> QED
  BY <1>1, <1>2 DEF WaiterInv, DrainedVerdict

\* An action that writes the lane state q, act, max, gen, ph and then drains ls
\* keeps the invariant if what it wrote is consistent, takes no slot, sends no
\* call back, and leaves the lanes outside ls busy.
LEMMA DrainStep ==
  ASSUME IInv, laneOf' = laneOf, UNCHANGED waiterVars, gatewayDraining' \in BOOLEAN,
         NEW ls \in SUBSET Lanes, NEW q, NEW act, NEW max, NEW gen, NEW ph,
         Consistent(q, act, max, gen, ph, laneOf, taskGeneration),
         Busy(Lanes \ ls, q, act, max),
         DrainLanes(ls, q, act, max, gen, ph),
         \A l \in Lanes : act[l] \subseteq activeTaskIds[l],
         \A t \in Tasks : ph[t] \in {"absent", "queued"}
                            => phase[t] \in {"absent", "queued"}
  PROVE  IInv'
<1>1. /\ Drained(ls, q, act, max, gen, ph, laneOf, taskGeneration,
                 queue', activeTaskIds', phase', taskGeneration')
      /\ maxConcurrent' = max /\ generation' = gen
  BY DEF DrainLanes, Drained
<1>2. /\ Consistent(queue', activeTaskIds', max, gen, phase', laneOf, taskGeneration')
      /\ Busy(Lanes, queue', activeTaskIds', max)
      /\ \A l \in Lanes : \A t \in activeTaskIds'[l] :
           t \in act[l] \/ (t \in Tasks /\ ph[t] = "queued")
      /\ \A t \in Tasks : phase'[t] = ph[t] \/ phase'[t] = "running"
  <2>1. Pumped(ls, q, act, max, gen, ph, laneOf, taskGeneration,
               queue', activeTaskIds', phase', taskGeneration')
    BY <1>1, DrainLemma
  <2> QED
    BY <2>1 DEF Pumped
<1>3. LaneInv'
  BY <1>1, <1>2 DEF LaneInv
<1>4. WaiterInv'
  <2>1. \A t \in Tasks : phase[t] \notin {"absent", "queued"}
                          => phase'[t] \notin {"absent", "queued"}
    BY <1>2
  <2>2. \A l \in Lanes : \A t \in activeTaskIds'[l] :
          t \in activeTaskIds[l] \/ phase[t] \in {"absent", "queued"}
    BY <1>2
  <2> QED
    BY <2>1, <2>2, WaiterLemma
<1> QED
  BY <1>3, <1>4 DEF IInv

\* The instance counts with the same Cardinality.
LEMMA SameCardinality == \A S : Servers!Cardinality(S) = Cardinality(S)
BY DEF Servers!Cardinality, Cardinality

\* The lane steps of such an action: what each drained lane does is given, the
\* others must have been left as they were.
LEMMA DrainServers ==
  ASSUME laneOf' = laneOf,
         NEW ls \in SUBSET Lanes, NEW q, NEW act, NEW max, NEW gen, NEW ph,
         Consistent(q, act, max, gen, ph, laneOf, taskGeneration),
         Busy(Lanes \ ls, q, act, max),
         DrainLanes(ls, q, act, max, gen, ph),
         \A l \in Lanes : l \notin ls =>
            q[l] = queue[l] /\ act[l] = activeTaskIds[l] /\ max[l] = maxConcurrent[l],
         \A l \in Lanes : Servers!Admit(l, q[l], act[l], max[l]) /\ l \in ls
                           => Servers!LaneStep(l)
  PROVE  Servers!Next
<1>1. /\ Drained(ls, q, act, max, gen, ph, laneOf, taskGeneration,
                 queue', activeTaskIds', phase', taskGeneration')
      /\ maxConcurrent' = max
  BY DEF DrainLanes, Drained
<1>2. /\ \A l \in Lanes : l \in ls =>
            Admitted(q[l], act[l], max[l], queue'[l], activeTaskIds'[l])
      /\ \A l \in Lanes : l \notin ls => queue'[l] = q[l] /\ activeTaskIds'[l] = act[l]
      /\ Consistent(queue', activeTaskIds', max, gen, phase', laneOf, taskGeneration')
  <2>1. Pumped(ls, q, act, max, gen, ph, laneOf, taskGeneration,
               queue', activeTaskIds', phase', taskGeneration')
    BY <1>1, DrainLemma
  <2> QED
    BY <2>1 DEF Pumped
<1>3. \A l \in Lanes : Servers!LaneStep(l)
  <2> SUFFICES ASSUME NEW l \in Lanes
               PROVE  Servers!LaneStep(l)
    OBVIOUS
  <2>1. CASE l \in ls
    <3>1. Admitted(q[l], act[l], max[l], queue'[l], activeTaskIds'[l])
      BY <2>1, <1>2
    <3>2. Servers!Admit(l, q[l], act[l], max[l])
      BY <3>1, <1>1, SameCardinality DEF Admitted, Servers!Admit
    <3> QED
      BY <3>2, <2>1
  <2>2. CASE l \notin ls
    <3>1. Servers!Idle(l)
      BY <2>2, <1>1, <1>2 DEF Servers!Idle
    <3> QED
      BY <3>1 DEF Servers!LaneStep
  <2> QED
    BY <2>1, <2>2
<1>4. DOMAIN queue' = Lanes /\ DOMAIN activeTaskIds' = Lanes /\ DOMAIN maxConcurrent' = Lanes
  BY <1>1, <1>2 DEF Consistent
<1> QED
  BY <1>3, <1>4 DEF Servers!Next

\* Lane variables that do not change are servers that do nothing.
LEMMA IdleServers ==
  ASSUME UNCHANGED <<queue, activeTaskIds, maxConcurrent>>
  PROVE  UNCHANGED Servers!vars
BY DEF Servers!vars

-----------------------------------------------------------------------------
(* The actions, one by one *)

\* What a step from an invariant state must be shown to do.
Good == IInv' /\ (Servers!Next \/ UNCHANGED Servers!vars)

\* DrainStep and DrainServers in one: an action that ends in a drain is good if
\* its own writes are consistent, and are steps of the servers once drained.
LEMMA DrainGood ==
  ASSUME IInv, laneOf' = laneOf, UNCHANGED waiterVars, gatewayDraining' \in BOOLEAN,
         NEW ls \in SUBSET Lanes, NEW q, NEW act, NEW max, NEW gen, NEW ph,
         Consistent(q, act, max, gen, ph, laneOf, taskGeneration),
         Busy(Lanes \ ls, q, act, max),
         DrainLanes(ls, q, act, max, gen, ph),
         \A l \in Lanes : act[l] \subseteq activeTaskIds[l],
         \A t \in Tasks : ph[t] \in {"absent", "queued"}
                            => phase[t] \in {"absent", "queued"},
         \A l \in Lanes : l \notin ls =>
            q[l] = queue[l] /\ act[l] = activeTaskIds[l] /\ max[l] = maxConcurrent[l],
         \A l \in Lanes : Servers!Admit(l, q[l], act[l], max[l]) /\ l \in ls
                           => Servers!LaneStep(l)
  PROVE  Good
<1>1. IInv'
  BY DrainStep
<1>2. Servers!Next
  BY DrainServers
<1> QED
  BY <1>1, <1>2 DEF Good

\* A call added to the end of a queue.
LEMMA AppendLemma ==
  ASSUME NEW S, NEW s \in Seq(S), NEW t \in S, NEW r, r = Append(s, t),
         \A i, j \in 1..Len(s) : s[i] = s[j] => i = j,
         \A i \in 1..Len(s) : s[i] # t
  PROVE  /\ r \in Seq(S)
         /\ \A i, j \in 1..Len(r) : r[i] = r[j] => i = j
         /\ {r[i] : i \in 1..Len(r)} = {s[i] : i \in 1..Len(s)} \cup {t}
<1>1. /\ r \in Seq(S)
      /\ Len(r) = Len(s) + 1
      /\ Len(s) \in Nat
      /\ \A i \in 1..Len(s) : r[i] = s[i]
      /\ r[Len(s) + 1] = t
  BY AppendProperties, LenProperties
<1>2. \A i \in 1..Len(r) : i \in 1..Len(s) \/ i = Len(s) + 1
  BY <1>1
<1>3. \A i \in 1..Len(s) : i \in 1..Len(r)
  BY <1>1
<1>4. Len(s) + 1 \in 1..Len(r)
  BY <1>1
<1>5. \A i, j \in 1..Len(r) : r[i] = r[j] => i = j
  BY <1>1, <1>2
<1>6. {r[i] : i \in 1..Len(r)} = {s[i] : i \in 1..Len(s)} \cup {t}
  BY <1>1, <1>2, <1>3, <1>4
<1> QED
  BY <1>1, <1>5, <1>6

\* Consistency does not look beyond who is queued and who is running.
LEMMA SamePhases ==
  ASSUME NEW q, NEW act, NEW max, NEW gen, NEW ph, NEW lo, NEW tg,
         Consistent(q, act, max, gen, ph, lo, tg),
         NEW ph2 \in [Tasks -> Phases],
         \A t \in Tasks : (ph2[t] = "queued") <=> (ph[t] = "queued"),
         \A t \in Tasks : (ph2[t] = "running") <=> (ph[t] = "running")
  PROVE  Consistent(q, act, max, gen, ph2, lo, tg)
<1>1. \A l \in Lanes : {q[l][i] : i \in 1..Len(q[l])}
                        = {t \in Tasks : ph2[t] = "queued" /\ lo[t] = l}
  <2> SUFFICES ASSUME NEW l \in Lanes
               PROVE  {q[l][i] : i \in 1..Len(q[l])}
                        = {t \in Tasks : ph2[t] = "queued" /\ lo[t] = l}
    OBVIOUS
  <2>1. {q[l][i] : i \in 1..Len(q[l])} = {t \in Tasks : ph[t] = "queued" /\ lo[t] = l}
    BY DEF Consistent
  <2>2. {t \in Tasks : ph[t] = "queued" /\ lo[t] = l}
          = {t \in Tasks : ph2[t] = "queued" /\ lo[t] = l}
    OBVIOUS
  <2> QED
    BY <2>1, <2>2
<1>2. \A l \in Lanes : act[l] = {t \in Tasks : /\ ph2[t] = "running"
                                              /\ lo[t] = l
                                              /\ tg[t] = gen[l]}
  <2>1. \A l \in Lanes : act[l] = {t \in Tasks : /\ ph[t] = "running"
                                                /\ lo[t] = l
                                                /\ tg[t] = gen[l]}
    BY DEF Consistent
  <2> QED
    BY <2>1
<1>3. /\ q \in [Lanes -> Seq(Tasks)]
      /\ act \in [Lanes -> SUBSET Tasks]
      /\ \A l \in Lanes : IsFiniteSet(act[l])
      /\ max \in [Lanes -> Nat \ {0}]
      /\ gen \in [Lanes -> Nat]
      /\ lo \in [Tasks -> Lanes]
      /\ tg \in [Tasks -> Nat]
      /\ \A l \in Lanes : \A i, j \in 1..Len(q[l]) : q[l][i] = q[l][j] => i = j
      /\ \A t \in Tasks : ph2[t] = "running" => tg[t] <= gen[lo[t]]
  BY DEF Consistent
<1> QED
  BY ONLY <1>1, <1>2, <1>3, ph2 \in [Tasks -> Phases] DEF Consistent

LEMMA EnqueueStep ==
  ASSUME IInv, NEW t \in Tasks, Enqueue(t)
  PROVE  Good
<1>1. /\ phase[t] = "absent" /\ laneOf' = laneOf /\ UNCHANGED waiterVars
      /\ gatewayDraining' = gatewayDraining /\ gatewayDraining \in BOOLEAN
      /\ Consistent(queue, activeTaskIds, maxConcurrent, generation, phase, laneOf,
                    taskGeneration)
      /\ Busy(Lanes, queue, activeTaskIds, maxConcurrent)
  BY DEF Enqueue, IInv, LaneInv
<1> DEFINE l == laneOf[t]
<1>2. l \in Lanes /\ phase \in [Tasks -> Phases]
  BY <1>1 DEF Consistent
<1>3. CASE gatewayDraining
  <2>1. /\ phase' = [phase EXCEPT ![t] = "refused"]
        /\ UNCHANGED <<queue, activeTaskIds, maxConcurrent, generation, taskGeneration>>
    BY <1>3 DEF Enqueue, laneVars
  <2>2. Consistent(queue, activeTaskIds, maxConcurrent, generation, phase', laneOf,
                   taskGeneration)
    <3>1. phase' \in [Tasks -> Phases]
      BY <2>1, <1>2 DEF Phases, Settled
    <3>2. /\ \A u \in Tasks : (phase'[u] = "queued") <=> (phase[u] = "queued")
          /\ \A u \in Tasks : (phase'[u] = "running") <=> (phase[u] = "running")
      BY <2>1, <1>1, <1>2
    <3> QED
      BY <3>1, <3>2, <1>1, SamePhases
  <2>3. WaiterInv'
    BY <2>1, <1>1, <1>2, WaiterLemma
  <2>4. LaneInv'
    BY <2>1, <2>2, <1>1 DEF LaneInv
  <2>5. UNCHANGED Servers!vars
    BY <2>1, IdleServers
  <2> QED
    BY <2>3, <2>4, <2>5, <1>1 DEF IInv, Good
<1>4. CASE ~gatewayDraining
  <2> DEFINE q == [queue EXCEPT ![l] = Append(@, t)]
             ph == [phase EXCEPT ![t] = "queued"]
  <2>1. DrainLanes({l}, q, activeTaskIds, maxConcurrent, generation, ph)
    BY <1>4 DEF Enqueue
  <2>2. /\ queue \in [Lanes -> Seq(Tasks)]
        /\ \A m \in Lanes : \A i, j \in 1..Len(queue[m]) : queue[m][i] = queue[m][j] => i = j
    BY <1>1 DEF Consistent
  <2>3. \A m \in Lanes : {queue[m][i] : i \in 1..Len(queue[m])}
                          = {u \in Tasks : phase[u] = "queued" /\ laneOf[u] = m}
    BY <1>1 DEF Consistent
  <2>4. q[l] = Append(queue[l], t) /\ \A m \in Lanes : m # l => q[m] = queue[m]
    BY <2>2, <1>2
  <2>5. /\ ph[t] = "queued"
        /\ \A u \in Tasks : u # t => ph[u] = phase[u]
        /\ ph \in [Tasks -> Phases]
    BY <1>2 DEF Phases
  <2>q. q = [m \in Lanes |-> q[m]]
    BY <2>2
  <2> HIDE DEF q, ph
  <2>6. \A i \in 1..Len(queue[l]) : queue[l][i] # t
    BY <2>3, <1>1, <1>2
  <2>7. ASSUME NEW m \in Lanes, m = l
        PROVE  /\ q[m] \in Seq(Tasks)
               /\ \A i, j \in 1..Len(q[m]) : q[m][i] = q[m][j] => i = j
               /\ {q[m][i] : i \in 1..Len(q[m])}
                    = {queue[m][i] : i \in 1..Len(queue[m])} \cup {t}
    <3>1. /\ queue[m] \in Seq(Tasks)
          /\ \A i, j \in 1..Len(queue[m]) : queue[m][i] = queue[m][j] => i = j
          /\ \A i \in 1..Len(queue[m]) : queue[m][i] # t
          /\ q[m] = Append(queue[m], t)
      BY <2>2, <2>4, <2>6, <2>7
    <3> QED
      BY <3>1, AppendLemma
  <2>8. Consistent(q, activeTaskIds, maxConcurrent, generation, ph, laneOf, taskGeneration)
    <3>0. \A m \in Lanes : m = l \/ q[m] = queue[m]
      BY <2>4
    <3>1. \A m \in Lanes : q[m] \in Seq(Tasks)
      BY <3>0, <2>2, <2>7
    <3>2. \A m \in Lanes : \A i, j \in 1..Len(q[m]) : q[m][i] = q[m][j] => i = j
      <4> HIDE DEF l
      <4> QED
        BY <3>0, <2>2, <2>7
    <3>3. \A m \in Lanes : {q[m][i] : i \in 1..Len(q[m])}
                            = {u \in Tasks : ph[u] = "queued" /\ laneOf[u] = m}
      <4>1. \A m \in Lanes, u \in Tasks :
              ph[u] = "queued" /\ laneOf[u] = m
                <=> (phase[u] = "queued" /\ laneOf[u] = m) \/ (u = t /\ m = l)
        BY <2>5, <1>1
      <4>2. ASSUME NEW m \in Lanes
            PROVE  {q[m][i] : i \in 1..Len(q[m])}
                     = {u \in Tasks : ph[u] = "queued" /\ laneOf[u] = m}
        <5>1. CASE m = l
          <6>1. {u \in Tasks : ph[u] = "queued" /\ laneOf[u] = m}
                  = {u \in Tasks : phase[u] = "queued" /\ laneOf[u] = m} \cup {t}
            BY <4>1, <5>1
          <6>2. {q[m][i] : i \in 1..Len(q[m])}
                  = {queue[m][i] : i \in 1..Len(queue[m])} \cup {t}
            BY <5>1, <2>7
          <6> QED
            BY <6>1, <6>2, <2>3
        <5>2. CASE m # l
          <6>1. {u \in Tasks : ph[u] = "queued" /\ laneOf[u] = m}
                  = {u \in Tasks : phase[u] = "queued" /\ laneOf[u] = m}
            BY <4>1, <5>2
          <6>2. q[m] = queue[m]
            BY <5>2, <2>4
          <6> QED
            BY <6>1, <6>2, <2>3
        <5> QED
          BY <5>1, <5>2
      <4> QED
        BY <4>2
    <3>4. \A m \in Lanes : activeTaskIds[m]
                            = {u \in Tasks : /\ ph[u] = "running"
                                             /\ laneOf[u] = m
                                             /\ taskGeneration[u] = generation[m]}
      <4>1. \A u \in Tasks : ph[u] = "running" <=> phase[u] = "running"
        BY <2>5, <1>1
      <4> QED
        BY <4>1, <1>1 DEF Consistent
    <3>5. \A u \in Tasks : ph[u] = "running" => taskGeneration[u] <= generation[laneOf[u]]
      BY <2>5, <1>1 DEF Consistent
    <3>6. q \in [Lanes -> Seq(Tasks)]
      BY <3>1, <2>q
    <3> QED
      BY <3>2, <3>3, <3>4, <3>5, <3>6, <2>5, <1>1 DEF Consistent
  <2>9. Busy(Lanes \ {l}, q, activeTaskIds, maxConcurrent)
    BY <2>4, <1>1 DEF Busy
  <2>10. \A u \in Tasks : ph[u] \in {"absent", "queued"} => phase[u] \in {"absent", "queued"}
    BY <2>5, <1>1
  <2>11. \A m \in Lanes : Servers!Admit(m, q[m], activeTaskIds[m], maxConcurrent[m])
                            /\ m \in {l} => Servers!LaneStep(m)
    BY <2>4 DEF Servers!LaneStep, Servers!Arrive
  <2> HIDE DEF l
  <2>12. \A m \in Lanes : m \notin {l} => /\ q[m] = queue[m]
                                          /\ activeTaskIds[m] = activeTaskIds[m]
                                          /\ maxConcurrent[m] = maxConcurrent[m]
    BY <2>4
  <2>13. {l} \in SUBSET Lanes /\ gatewayDraining' \in BOOLEAN
    BY <1>1, <1>2
  <2> QED
    BY <2>1, <2>8, <2>9, <2>10, <2>11, <2>12, <2>13, <1>1, DrainGood
<1> QED
  BY <1>1, <1>3, <1>4

LEMMA FinishStep ==
  ASSUME IInv, NEW t \in Tasks, NEW outcome \in {"resolved", "rejected"},
         Finish(t, outcome)
  PROVE  Good
<1>1. /\ phase[t] = "running" /\ laneOf' = laneOf /\ UNCHANGED waiterVars
      /\ gatewayDraining' \in BOOLEAN
      /\ Consistent(queue, activeTaskIds, maxConcurrent, generation, phase, laneOf,
                    taskGeneration)
      /\ Busy(Lanes, queue, activeTaskIds, maxConcurrent)
  BY DEF Finish, IInv, LaneInv
<1> DEFINE freed == SlotsFreedBy(t)
           act == [l \in Lanes |-> IF l \in freed THEN activeTaskIds[l] \ {t}
                                                  ELSE activeTaskIds[l]]
           ph == [phase EXCEPT ![t] = outcome]
<1>2. DrainLanes(freed, queue, act, maxConcurrent, generation, ph)
  BY DEF Finish
<1>3. /\ laneOf[t] \in Lanes
      /\ phase \in [Tasks -> Phases]
      /\ activeTaskIds \in [Lanes -> SUBSET Tasks]
      /\ \A l \in Lanes : IsFiniteSet(activeTaskIds[l])
  BY <1>1 DEF Consistent
<1>4. \A l \in Lanes : l \in freed <=> (laneOf[t] = l /\ taskGeneration[t] = generation[l])
  BY <1>3 DEF SlotsFreedBy
<1>5. freed \in SUBSET Lanes
  BY <1>3 DEF SlotsFreedBy
<1>6. /\ ph \in [Tasks -> Phases]
      /\ ph[t] = outcome
      /\ \A u \in Tasks : u # t => ph[u] = phase[u]
  BY <1>3 DEF Phases, Settled
<1>7. /\ \A l \in Lanes : l \in freed => act[l] = activeTaskIds[l] \ {t}
      /\ \A l \in Lanes : l \notin freed => act[l] = activeTaskIds[l]
      /\ act = [l \in Lanes |-> act[l]]
  OBVIOUS
<1> HIDE DEF freed, act, ph
<1>8. \A l \in Lanes, u \in Tasks :
        u \in activeTaskIds[l] <=> /\ phase[u] = "running"
                                   /\ laneOf[u] = l
                                   /\ taskGeneration[u] = generation[l]
  BY <1>1 DEF Consistent
<1>9. \A l \in Lanes : l \in freed => t \in activeTaskIds[l]
  BY <1>1, <1>4, <1>8
<1>10. Consistent(queue, act, maxConcurrent, generation, ph, laneOf, taskGeneration)
  <2>1. \A l \in Lanes : IsFiniteSet(act[l])
    BY <1>3, <1>7, FS_RemoveElement
  <2>2. act \in [Lanes -> SUBSET Tasks]
    <3>1. \A l \in Lanes : act[l] \in SUBSET Tasks
      BY <1>3, <1>7
    <3> QED
      BY <3>1, <1>7
  <2>3. \A l \in Lanes, u \in Tasks :
          u \in act[l] <=> /\ ph[u] = "running"
                           /\ laneOf[u] = l
                           /\ taskGeneration[u] = generation[l]
    <3> SUFFICES ASSUME NEW l \in Lanes, NEW u \in Tasks
                 PROVE  u \in act[l] <=> /\ ph[u] = "running"
                                         /\ laneOf[u] = l
                                         /\ taskGeneration[u] = generation[l]
      OBVIOUS
    <3>1. CASE u = t
      BY <3>1, <1>4, <1>6, <1>7, <1>8
    <3>2. CASE u # t
      BY <3>2, <1>6, <1>7, <1>8
    <3> QED
      BY <3>1, <3>2
  <2>4. \A l \in Lanes : act[l] = {u \in Tasks : /\ ph[u] = "running"
                                                /\ laneOf[u] = l
                                                /\ taskGeneration[u] = generation[l]}
    <3>1. \A l \in Lanes : act[l] \subseteq Tasks
      BY <2>2
    <3> QED
      BY <3>1, <2>3
  <2>5. \A l \in Lanes : {queue[l][i] : i \in 1..Len(queue[l])}
                          = {u \in Tasks : ph[u] = "queued" /\ laneOf[u] = l}
    <3>1. \A l \in Lanes : {queue[l][i] : i \in 1..Len(queue[l])}
                            = {u \in Tasks : phase[u] = "queued" /\ laneOf[u] = l}
      BY <1>1 DEF Consistent
    <3>2. \A u \in Tasks : (ph[u] = "queued") <=> (phase[u] = "queued")
      BY <1>1, <1>6
    <3> SUFFICES ASSUME NEW l \in Lanes
                 PROVE  {queue[l][i] : i \in 1..Len(queue[l])}
                          = {u \in Tasks : ph[u] = "queued" /\ laneOf[u] = l}
      OBVIOUS
    <3>3. {u \in Tasks : ph[u] = "queued" /\ laneOf[u] = l}
            = {u \in Tasks : phase[u] = "queued" /\ laneOf[u] = l}
      BY <3>2
    <3> QED
      BY <3>1, <3>3
  <2>6. \A u \in Tasks : ph[u] = "running" => taskGeneration[u] <= generation[laneOf[u]]
    <3>1. \A u \in Tasks : ph[u] = "running" => phase[u] = "running"
      BY <1>1, <1>6
    <3> QED
      BY <3>1, <1>1 DEF Consistent
  <2>7. /\ queue \in [Lanes -> Seq(Tasks)]
        /\ maxConcurrent \in [Lanes -> Nat \ {0}]
        /\ generation \in [Lanes -> Nat]
        /\ laneOf \in [Tasks -> Lanes]
        /\ taskGeneration \in [Tasks -> Nat]
        /\ \A l \in Lanes : \A i, j \in 1..Len(queue[l]) : queue[l][i] = queue[l][j] => i = j
    BY <1>1 DEF Consistent
  <2> QED
    BY ONLY <2>1, <2>2, <2>4, <2>5, <2>6, <2>7, <1>6 DEF Consistent
<1>11. Busy(Lanes \ freed, queue, act, maxConcurrent)
  BY <1>1, <1>7 DEF Busy
<1>12. \A l \in Lanes : act[l] \subseteq activeTaskIds[l]
  BY <1>7
<1>13. \A u \in Tasks : ph[u] \in {"absent", "queued"} => phase[u] \in {"absent", "queued"}
  BY <1>6
<1>14. \A l \in Lanes : l \notin freed => /\ queue[l] = queue[l]
                                          /\ act[l] = activeTaskIds[l]
                                          /\ maxConcurrent[l] = maxConcurrent[l]
  BY <1>7
<1>15. \A l \in Lanes : Servers!Admit(l, queue[l], act[l], maxConcurrent[l]) /\ l \in freed
                         => Servers!LaneStep(l)
  BY <1>7, <1>9 DEF Servers!LaneStep, Servers!Leave
<1> QED
  BY <1>1, <1>2, <1>5, <1>10, <1>11, <1>12, <1>13, <1>14, <1>15, DrainGood

LEMMA SetConcurrencyStep ==
  ASSUME IInv, NEW l \in Lanes, NEW n \in ConcurrencyArgs,
         SetCommandLaneConcurrency(l, n)
  PROVE  Good
<1> DEFINE max == [maxConcurrent EXCEPT ![l] = IF n < 1 THEN 1 ELSE n]
<1>1. /\ laneOf' = laneOf /\ UNCHANGED waiterVars /\ gatewayDraining' \in BOOLEAN
      /\ Consistent(queue, activeTaskIds, maxConcurrent, generation, phase, laneOf,
                    taskGeneration)
      /\ Busy(Lanes, queue, activeTaskIds, maxConcurrent)
      /\ DrainLanes({l}, queue, activeTaskIds, max, generation, phase)
      /\ maxConcurrent' = max
  BY DEF SetCommandLaneConcurrency, IInv, LaneInv, DrainLanes
<1>2. maxConcurrent \in [Lanes -> Nat \ {0}]
  BY <1>1 DEF Consistent
<1>3. /\ max \in [Lanes -> Nat \ {0}]
      /\ \A m \in Lanes : m # l => max[m] = maxConcurrent[m]
  BY <1>2, ConcurrencyAssumption
<1> HIDE DEF max
<1>4. Consistent(queue, activeTaskIds, max, generation, phase, laneOf, taskGeneration)
  BY <1>1, <1>3 DEF Consistent
<1>5. Busy(Lanes \ {l}, queue, activeTaskIds, max)
  BY <1>1, <1>3 DEF Busy
<1>6. \A m \in Lanes : m \notin {l} => /\ queue[m] = queue[m]
                                       /\ activeTaskIds[m] = activeTaskIds[m]
                                       /\ max[m] = maxConcurrent[m]
  BY <1>3
<1>7. \A m \in Lanes : Servers!Admit(m, queue[m], activeTaskIds[m], max[m]) /\ m \in {l}
                        => Servers!LaneStep(m)
  <2> SUFFICES ASSUME NEW m \in Lanes,
                      Servers!Admit(m, queue[m], activeTaskIds[m], max[m])
               PROVE  Servers!LaneStep(m)
    OBVIOUS
  <2>1. maxConcurrent'[m] = max[m] /\ max[m] \in Nat \ {0}
    BY <1>1, <1>3
  <2>2. Servers!Resize(m)
    BY <2>1 DEF Servers!Resize
  <2> QED
    BY <2>2 DEF Servers!LaneStep
<1> QED
  BY <1>1, <1>4, <1>5, <1>6, <1>7, DrainGood

\* Clearing a lane empties its queue and settles exactly the calls that were in it.
LEMMA ClearStep ==
  ASSUME IInv, NEW l \in Lanes, ClearCommandLane(l)
  PROVE  Good
<1> DEFINE pending == {queue[l][i] : i \in 1..Len(queue[l])}
<1>1. /\ laneOf' = laneOf /\ UNCHANGED waiterVars /\ gatewayDraining' \in BOOLEAN
      /\ activeTaskIds' = activeTaskIds /\ maxConcurrent' = maxConcurrent
      /\ generation' = generation /\ taskGeneration' = taskGeneration
      /\ Consistent(queue, activeTaskIds, maxConcurrent, generation, phase, laneOf,
                    taskGeneration)
      /\ Busy(Lanes, queue, activeTaskIds, maxConcurrent)
      /\ queue' = [queue EXCEPT ![l] = <<>>]
      /\ phase' = [t \in Tasks |-> IF t \in pending THEN "cleared" ELSE phase[t]]
  BY DEF ClearCommandLane, IInv, LaneInv
<1>2. /\ queue \in [Lanes -> Seq(Tasks)]
      /\ activeTaskIds \in [Lanes -> SUBSET Tasks]
      /\ maxConcurrent \in [Lanes -> Nat \ {0}]
      /\ generation \in [Lanes -> Nat]
      /\ phase \in [Tasks -> Phases]
      /\ laneOf \in [Tasks -> Lanes]
      /\ taskGeneration \in [Tasks -> Nat]
      /\ \A m \in Lanes : IsFiniteSet(activeTaskIds[m])
  BY <1>1 DEF Consistent
<1>3. \A m \in Lanes : {queue[m][i] : i \in 1..Len(queue[m])}
                        = {t \in Tasks : phase[t] = "queued" /\ laneOf[t] = m}
  BY <1>1 DEF Consistent
<1>4. \A t \in Tasks : t \in pending <=> (phase[t] = "queued" /\ laneOf[t] = l)
  BY <1>3
<1> HIDE DEF pending
<1>5. /\ queue'[l] = <<>>
      /\ \A m \in Lanes : m # l => queue'[m] = queue[m]
      /\ queue' \in [Lanes -> Seq(Tasks)]
  <2>1. <<>> \in Seq(Tasks)
    BY EmptySeq
  <2> QED
    BY <1>1, <1>2, <2>1
<1>6. /\ phase' \in [Tasks -> Phases]
      /\ \A t \in Tasks : t \in pending => phase'[t] = "cleared"
      /\ \A t \in Tasks : t \notin pending => phase'[t] = phase[t]
  BY <1>1, <1>2 DEF Phases, Settled
<1>7. Consistent(queue', activeTaskIds, maxConcurrent, generation, phase', laneOf,
                 taskGeneration)
  <2>1. \A m \in Lanes : \A i, j \in 1..Len(queue'[m]) : queue'[m][i] = queue'[m][j] => i = j
    <3>1. \A m \in Lanes : \A i, j \in 1..Len(queue[m]) : queue[m][i] = queue[m][j] => i = j
      BY <1>1 DEF Consistent
    <3>2. Len(queue'[l]) = 0
      BY <1>5
    <3> QED
      BY <3>1, <3>2, <1>5
  <2>2. \A m \in Lanes : {queue'[m][i] : i \in 1..Len(queue'[m])}
                          = {t \in Tasks : phase'[t] = "queued" /\ laneOf[t] = m}
    <3> SUFFICES ASSUME NEW m \in Lanes
                 PROVE  {queue'[m][i] : i \in 1..Len(queue'[m])}
                          = {t \in Tasks : phase'[t] = "queued" /\ laneOf[t] = m}
      OBVIOUS
    <3>1. CASE m = l
      <4>1. Len(queue'[m]) = 0
        BY <3>1, <1>5
      <4>2. {t \in Tasks : phase'[t] = "queued" /\ laneOf[t] = m} = {}
        BY <3>1, <1>4, <1>6
      <4> QED
        BY <4>1, <4>2
    <3>2. CASE m # l
      <4>1. {t \in Tasks : phase'[t] = "queued" /\ laneOf[t] = m}
              = {t \in Tasks : phase[t] = "queued" /\ laneOf[t] = m}
        BY <3>2, <1>4, <1>6
      <4>2. queue'[m] = queue[m]
        BY <3>2, <1>5
      <4> QED
        BY <4>1, <4>2, <1>3
    <3> QED
      BY <3>1, <3>2
  <2>3. \A t \in Tasks : (phase'[t] = "running") <=> (phase[t] = "running")
    BY <1>4, <1>6
  <2>4. \A m \in Lanes : activeTaskIds[m]
                          = {t \in Tasks : /\ phase'[t] = "running"
                                           /\ laneOf[t] = m
                                           /\ taskGeneration[t] = generation[m]}
    <3>1. \A m \in Lanes : activeTaskIds[m]
                            = {t \in Tasks : /\ phase[t] = "running"
                                             /\ laneOf[t] = m
                                             /\ taskGeneration[t] = generation[m]}
      BY <1>1 DEF Consistent
    <3> QED
      BY <3>1, <2>3
  <2>5. \A t \in Tasks : phase'[t] = "running" => taskGeneration[t] <= generation[laneOf[t]]
    <3>1. \A t \in Tasks : phase[t] = "running" => taskGeneration[t] <= generation[laneOf[t]]
      BY <1>1 DEF Consistent
    <3> QED
      BY <3>1, <2>3
  <2> QED
    BY ONLY <2>1, <2>2, <2>4, <2>5, <1>2, <1>5, <1>6 DEF Consistent
<1>8. Busy(Lanes, queue', activeTaskIds, maxConcurrent)
  BY <1>1, <1>5 DEF Busy
<1>9. LaneInv'
  BY <1>1, <1>7, <1>8 DEF LaneInv
<1>10. WaiterInv'
  <2>1. \A t \in Tasks : phase[t] \notin {"absent", "queued"}
                          => phase'[t] \notin {"absent", "queued"}
    BY <1>6
  <2>2. \A m \in Lanes : \A t \in activeTaskIds'[m] :
          t \in activeTaskIds[m] \/ phase[t] \in {"absent", "queued"}
    BY <1>1
  <2> QED
    BY <2>1, <2>2, <1>1, WaiterLemma
<1>11. Servers!Next
  <2>1. \A m \in Lanes : Servers!LaneStep(m)
    BY <1>1, <1>5 DEF Servers!LaneStep, Servers!Flush, Servers!Idle
  <2>2. /\ DOMAIN queue' = Lanes
        /\ DOMAIN activeTaskIds' = Lanes
        /\ DOMAIN maxConcurrent' = Lanes
    BY <1>1, <1>2, <1>5
  <2> QED
    BY <2>1, <2>2 DEF Servers!Next
<1> QED
  BY <1>1, <1>9, <1>10, <1>11 DEF IInv, Good

\* Of a reset, each lane is a server started anew; one whose queue is empty takes
\* nothing in.
LEMMA ResetStep ==
  ASSUME IInv, ResetAllLanes
  PROVE  Good
<1> DEFINE ls == {l \in Lanes : queue[l] # <<>>}
           act == [l \in Lanes |-> {}]
           gen == [l \in Lanes |-> generation[l] + 1]
<1>1. /\ laneOf' = laneOf /\ UNCHANGED waiterVars /\ gatewayDraining' \in BOOLEAN
      /\ Consistent(queue, activeTaskIds, maxConcurrent, generation, phase, laneOf,
                    taskGeneration)
      /\ DrainLanes(ls, queue, act, maxConcurrent, gen, phase)
  BY DEF ResetAllLanes, IInv, LaneInv
<1>2. /\ queue \in [Lanes -> Seq(Tasks)]
      /\ maxConcurrent \in [Lanes -> Nat \ {0}]
      /\ generation \in [Lanes -> Nat]
      /\ phase \in [Tasks -> Phases]
      /\ laneOf \in [Tasks -> Lanes]
      /\ taskGeneration \in [Tasks -> Nat]
      /\ \A l \in Lanes : \A i, j \in 1..Len(queue[l]) : queue[l][i] = queue[l][j] => i = j
      /\ \A l \in Lanes : {queue[l][i] : i \in 1..Len(queue[l])}
                            = {t \in Tasks : phase[t] = "queued" /\ laneOf[t] = l}
  BY <1>1 DEF Consistent
<1>3. \A t \in Tasks : phase[t] = "running" => taskGeneration[t] <= generation[laneOf[t]]
  BY <1>1 DEF Consistent
<1>4. /\ \A l \in Lanes : act[l] = {} /\ gen[l] = generation[l] + 1
      /\ act \in [Lanes -> SUBSET Tasks]
      /\ gen \in [Lanes -> Nat]
      /\ \A l \in Lanes : IsFiniteSet(act[l])
  BY <1>2, FS_EmptySet
<1>5. \A l \in Lanes : l \in ls <=> queue[l] # <<>>
  OBVIOUS
<1>6. ls \in SUBSET Lanes
  OBVIOUS
<1> HIDE DEF ls, act, gen
<1>7. Consistent(queue, act, maxConcurrent, gen, phase, laneOf, taskGeneration)
  <2>1. \A l \in Lanes, t \in Tasks :
          ~(phase[t] = "running" /\ laneOf[t] = l /\ taskGeneration[t] = gen[l])
    BY <1>2, <1>3, <1>4
  <2>2. \A l \in Lanes : act[l] = {t \in Tasks : /\ phase[t] = "running"
                                                /\ laneOf[t] = l
                                                /\ taskGeneration[t] = gen[l]}
    BY <2>1, <1>4
  <2>3. \A t \in Tasks : phase[t] = "running" => taskGeneration[t] <= gen[laneOf[t]]
    BY <1>2, <1>3, <1>4
  <2>4. /\ act \in [Lanes -> SUBSET Tasks]
        /\ gen \in [Lanes -> Nat]
        /\ \A l \in Lanes : IsFiniteSet(act[l])
    BY <1>4
  <2> QED
    BY ONLY <2>2, <2>3, <2>4, <1>2 DEF Consistent
<1>8. Busy(Lanes \ ls, queue, act, maxConcurrent)
  BY <1>5 DEF Busy
<1>9. IInv'
  <2>1. \A l \in Lanes : act[l] \subseteq activeTaskIds[l]
    BY <1>4
  <2>2. \A t \in Tasks : phase[t] \in {"absent", "queued"} => phase[t] \in {"absent", "queued"}
    OBVIOUS
  <2> QED
    BY <2>1, <2>2, <1>1, <1>6, <1>7, <1>8, DrainStep
<1>10. /\ maxConcurrent' = maxConcurrent
       /\ Pumped(ls, queue, act, maxConcurrent, gen, phase, laneOf, taskGeneration,
                 queue', activeTaskIds', phase', taskGeneration')
  <2>1. Drained(ls, queue, act, maxConcurrent, gen, phase, laneOf, taskGeneration,
                queue', activeTaskIds', phase', taskGeneration')
    BY <1>1 DEF DrainLanes, Drained
  <2> QED
    BY <2>1, <1>1, <1>6, <1>7, <1>8, DrainLemma DEF DrainLanes
<1>11. \A l \in Lanes : Servers!LaneStep(l)
  <2> SUFFICES ASSUME NEW l \in Lanes
               PROVE  Servers!Restart(l)
    BY DEF Servers!LaneStep
  <2>1. CASE l \in ls
    <3>1. Admitted(queue[l], {}, maxConcurrent[l], queue'[l], activeTaskIds'[l])
      BY <2>1, <1>4, <1>10 DEF Pumped
    <3> QED
      BY <3>1, <1>10, SameCardinality DEF Admitted, Servers!Admit, Servers!Restart
  <2>2. CASE l \notin ls
    <3>1. queue[l] = <<>> /\ queue'[l] = <<>> /\ activeTaskIds'[l] = {}
      BY <2>2, <1>4, <1>5, <1>10 DEF Pumped
    <3>2. 0 \in 0..Len(<<>>) /\ SubSeq(<<>>, 1, Len(<<>>)) = <<>> /\ ~(0 < Len(<<>>))
      OBVIOUS
    <3>3. {} \cup {queue[l][i] : i \in 1..0} = {}
      OBVIOUS
    <3>4. Admitted(queue[l], {}, maxConcurrent[l], queue'[l], activeTaskIds'[l])
      BY <3>1, <3>2, <3>3 DEF Admitted
    <3> QED
      BY <3>4, <1>10, SameCardinality DEF Admitted, Servers!Admit, Servers!Restart
  <2> QED
    BY <2>1, <2>2
<1>12. DOMAIN queue' = Lanes /\ DOMAIN activeTaskIds' = Lanes /\ DOMAIN maxConcurrent' = Lanes
  BY <1>10 DEF Pumped, Consistent
<1> QED
  BY <1>9, <1>11, <1>12 DEF Servers!Next, Good

\* An action that leaves lanes and calls alone only has waiters to answer for.
LEMMA WaiterStep ==
  ASSUME IInv, gatewayDraining' \in BOOLEAN, UNCHANGED <<laneVars, callVars>>, WaiterInv'
  PROVE  Good
<1>1. /\ queue' = queue /\ activeTaskIds' = activeTaskIds
      /\ maxConcurrent' = maxConcurrent /\ generation' = generation
      /\ phase' = phase /\ laneOf' = laneOf /\ taskGeneration' = taskGeneration
  BY DEF laneVars, callVars
<1>2. LaneInv'
  BY <1>1 DEF IInv, LaneInv
<1>3. UNCHANGED Servers!vars
  BY <1>1, IdleServers
<1> QED
  BY <1>2, <1>3 DEF IInv, Good

LEMMA MarkDrainingStep ==
  ASSUME IInv, MarkGatewayDraining
  PROVE  Good
<1>1. /\ gatewayDraining' \in BOOLEAN
      /\ UNCHANGED <<laneVars, callVars>> /\ UNCHANGED waiterVars
      /\ activeTaskIds' = activeTaskIds /\ phase' = phase
  BY DEF MarkGatewayDraining, laneVars, callVars
<1>2. WaiterInv'
  BY <1>1, WaiterLemma
<1> QED
  BY <1>1, <1>2, WaiterStep

\* The tasks that hold a slot have started.
LEMMA ActiveHasStarted ==
  ASSUME IInv
  PROVE  /\ AllActive \subseteq Tasks
         /\ \A t \in AllActive : phase[t] \notin {"absent", "queued"}
<1>1. \A l \in Lanes : activeTaskIds[l] = {t \in Tasks : /\ phase[t] = "running"
                                                        /\ laneOf[t] = l
                                                        /\ taskGeneration[t] = generation[l]}
  BY DEF IInv, LaneInv, Consistent
<1> QED
  BY <1>1 DEF AllActive

LEMMA WaitStep ==
  ASSUME IInv, NEW w \in Waiters, WaitForActiveTasks(w) \/ PollActiveTasks(w)
  PROVE  Good
<1>1. /\ gatewayDraining' = gatewayDraining /\ gatewayDraining \in BOOLEAN
      /\ UNCHANGED <<laneVars, callVars>>
      /\ activeTaskIds' = activeTaskIds /\ phase' = phase
  BY DEF WaitForActiveTasks, PollActiveTasks, laneVars, callVars, IInv
<1>2. AllActive' = AllActive
  BY <1>1 DEF AllActive
<1>3. /\ waiterState \in [Waiters -> {"idle", "waiting", "drained", "expired"}]
      /\ activeAtStart \in [Waiters -> SUBSET Tasks]
      /\ \A v \in Waiters : /\ \A t \in activeAtStart[v] : phase[t] \notin {"absent", "queued"}
                            /\ waiterState[v] = "drained"
                                 => activeAtStart[v] \cap AllActive = {}
  BY DEF IInv, WaiterInv, DrainedVerdict
<1>4. /\ waiterState' \in [Waiters -> {"idle", "waiting", "drained", "expired"}]
      /\ activeAtStart' \in [Waiters -> SUBSET Tasks]
      /\ \A v \in Waiters :
           /\ activeAtStart'[v] = activeAtStart[v] \/ activeAtStart'[v] = AllActive
           /\ waiterState'[v] = "drained" => activeAtStart'[v] \cap AllActive = {}
  <2>1. CASE WaitForActiveTasks(w)
    BY <2>1, <1>3, ActiveHasStarted DEF WaitForActiveTasks, DrainCheck
  <2>2. CASE PollActiveTasks(w)
    BY <2>2, <1>3 DEF PollActiveTasks, DrainCheck
  <2> QED
    BY <2>1, <2>2
<1>5. WaiterInv'
  BY <1>1, <1>2, <1>3, <1>4, ActiveHasStarted DEF WaiterInv, DrainedVerdict
<1> QED
  BY <1>1, <1>5, WaiterStep

LEMMA NextStep ==
  ASSUME IInv, [Next]_vars
  PROVE  Good
<1>1. CASE TaskNext
  BY <1>1, EnqueueStep, FinishStep DEF TaskNext, FinishAny
<1>2. CASE LaneNext
  BY <1>2, SetConcurrencyStep, ClearStep, MarkDrainingStep, ResetStep DEF LaneNext
<1>3. CASE WaiterNext
  BY <1>3, WaitStep DEF WaiterNext
<1>4. CASE UNCHANGED vars
  <2>1. /\ gatewayDraining' = gatewayDraining /\ gatewayDraining \in BOOLEAN
        /\ UNCHANGED <<laneVars, callVars>> /\ UNCHANGED waiterVars
        /\ activeTaskIds' = activeTaskIds /\ phase' = phase
    BY <1>4 DEF vars, laneVars, callVars, IInv
  <2>2. WaiterInv'
    BY <2>1, WaiterLemma
  <2> QED
    BY <2>1, <2>2, WaiterStep
<1> QED
  BY <1>1, <1>2, <1>3, <1>4 DEF Next

-----------------------------------------------------------------------------
(* The theorems *)

\* The inductive invariant holds in every state, and every step is one of the
\* servers' steps or does not touch them.
THEOREM Invariance == Spec => []IInv
<1>1. IInv /\ [Next]_vars => IInv'
  BY NextStep DEF Good
<1> QED
  BY InitInv, <1>1, PTL DEF Spec

\* Every variable keeps its type: TypeOK, for any number of lanes and calls.
THEOREM TypeCorrect == Spec => []TypeOK
<1>1. IInv => TypeOK
  BY InvImplies
<1> QED
  BY Invariance, <1>1, PTL

\* No call is dropped without settling and none waits twice: QueueAccounting.
THEOREM NoCallLost == Spec => []QueueAccounting
<1>1. IInv => QueueAccounting
  BY InvImplies
<1> QED
  BY Invariance, <1>1, PTL

\* No slot leaks and none is given back twice, whatever is reset: SlotAccounting.
THEOREM NoSlotLost == Spec => []SlotAccounting
<1>1. IInv => SlotAccounting
  BY InvImplies
<1> QED
  BY Invariance, <1>1, PTL

\* A lane with a free slot has an empty queue after every step: WorkConserving.
THEOREM NoLostWakeup == Spec => []WorkConserving
<1>1. IInv => WorkConserving
  BY InvImplies
<1> QED
  BY Invariance, <1>1, PTL

\* waitForActiveTasks never reports "drained" of tasks that hold slots.
THEOREM TruthfulDrain == Spec => []DrainedVerdict
<1>1. IInv => DrainedVerdict
  BY InvImplies
<1> QED
  BY Invariance, <1>1, PTL

\* The command queue implements the FIFO servers of LaneServers.
THEOREM Refinement == Spec => LanesAreServers
<1>1. Init => Servers!Init
  BY DEF Init, Servers!Init
<1>2. IInv /\ [Next]_vars => [Servers!Next]_Servers!vars
  BY NextStep DEF Good
<1> QED
  BY Invariance, <1>1, <1>2, PTL DEF Spec, LanesAreServers, Servers!Spec

\* A reset settles nothing, runs on what runs and drops no queued call.
THEOREM ResetKeepsCalls == Spec => ResetPreservesWork
<1> DEFINE Kept == generation' # generation =>
                     \A t \in Tasks :
                       /\ phase[t] = "queued" => phase'[t] \in {"queued", "running"}
                       /\ phase[t] = "running" => phase'[t] = "running"
<1>1. ASSUME [Next]_vars, generation' # generation
      PROVE  ResetAllLanes
  <2>1. ~ UNCHANGED vars
    BY <1>1 DEF vars, laneVars
  <2>2. ~ WaiterNext
    BY <1>1 DEF WaiterNext, WaitForActiveTasks, PollActiveTasks, laneVars
  <2>3. ~ TaskNext
    BY <1>1 DEF TaskNext, FinishAny, Enqueue, Finish, DrainLanes, laneVars
  <2>4. CASE LaneNext
    BY <1>1, <2>4 DEF LaneNext, SetCommandLaneConcurrency, ClearCommandLane,
                      MarkGatewayDraining, DrainLanes, laneVars
  <2> QED
    BY <1>1, <2>1, <2>2, <2>3, <2>4 DEF Next
<1>2. ResetAllLanes => Kept
  BY DEF ResetAllLanes, DrainLanes
<1>3. [Next]_vars => [Kept]_vars
  BY <1>1, <1>2
<1> QED
  BY <1>3, PTL DEF Spec, ResetPreservesWork
=============================================================================
