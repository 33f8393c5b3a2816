--------------------------- MODULE TopicMatchProofs ---------------------------
(* get_subscribed finds exactly the matching filters, for every tree and    *)
(* topic.  What the loops compute is shown by induction on the levels, in   *)
(* the form of a least level at which it would fail.                        *)
EXTENDS TopicMatch, TLAPS, WellFoundedInduction, SequenceTheorems

\* A non-empty set of naturals has a least member.
LEMMA LeastOf ==
  ASSUME NEW T \in SUBSET Nat, T # {}
  PROVE  \E m \in T : \A k \in T : m <= k
<1> DEFINE R == OpToRel(<, Nat)
<1>1. IsWellFoundedOn(R, Nat)
  BY NatLessThanWellFounded
<1>2. PICK m \in T : \A k \in T : ~(<<k, m>> \in R)
  BY <1>1, WFMin
<1>3. \A k \in T : ~(k < m)
  BY <1>2 DEF OpToRel
<1> QED  BY <1>3

\* A non-empty set of naturals with an upper bound has a largest member.
LEMMA LargestOf ==
  ASSUME NEW T \in SUBSET Nat, T # {}, NEW bound \in Nat, \A k \in T : k <= bound
  PROVE  \E m \in T : \A k \in T : k <= m
<1> DEFINE D == {bound - k : k \in T}
<1>1. D \in SUBSET Nat /\ D # {}
  <2>1. \A k \in T : bound - k \in Nat
    OBVIOUS
  <2>2. PICK k \in T : TRUE
    OBVIOUS
  <2>3. bound - k \in D
    OBVIOUS
  <2> QED  BY <2>1, <2>3
<1>2. PICK d \in D : \A x \in D : d <= x
  <2> HIDE DEF D
  <2> QED  BY <1>1, LeastOf
<1>3. PICK m \in T : d = bound - m
  OBVIOUS
<1>4. \A k \in T : k <= m
  <2> TAKE k \in T
  <2>1. bound - k \in D  OBVIOUS
  <2>2. bound - m <= bound - k
    BY <1>2, <1>3, <2>1
  <2> QED  BY <2>2
<1> QED  BY <1>4

-----------------------------------------------------------------------------
(* The loop over the levels. *)

\* What topicmatchs is after each level is well defined.
LEMMA TopicMatchesLoop ==
  ASSUME NEW topic \in Seq(Level)
  PROVE  TopicMatches(topic) =
           [n \in 0 .. Len(topic) |->
              IF n = 0 THEN << <<>> >> ELSE Descend(TopicMatches(topic)[n - 1], topic[n])]
<1> DEFINE Loops(g, m) ==
             g = [n \in 0 .. m |-> IF n = 0 THEN << <<>> >> ELSE Descend(g[n - 1], topic[n])]
           Bad == {m \in Nat : ~ \E g : Loops(g, m)}
<1>1. Bad = {}
  <2> SUFFICES ASSUME Bad # {}  PROVE FALSE
    OBVIOUS
  <2>1. PICK m \in Bad : \A k \in Bad : m <= k
    <3>1. Bad \in SUBSET Nat  OBVIOUS
    <3> HIDE DEF Bad
    <3> QED  BY <3>1, LeastOf
  <2>2. m \in Nat /\ ~ \E g : Loops(g, m)
    BY <2>1
  <2>3. CASE m = 0
    <3> DEFINE g == [n \in 0 .. 0 |-> << <<>> >>]
    <3>1. Loops(g, 0)
      OBVIOUS
    <3> QED  BY <2>2, <2>3, <3>1
  <2>4. CASE m # 0
    <3>1. m - 1 \in Nat /\ m - 1 \notin Bad
      <4>1. m - 1 \in Nat /\ ~(m <= m - 1)
        BY <2>2, <2>4
      <4> HIDE DEF Bad
      <4> QED  BY <2>1, <4>1
    <3>2. PICK g : Loops(g, m - 1)
      BY <3>1
    <3> DEFINE h == [n \in 0 .. m |-> IF n = m THEN Descend(g[m - 1], topic[m]) ELSE g[n]]
    <3>3. \A n \in 0 .. (m - 1) :
             g[n] = IF n = 0 THEN << <<>> >> ELSE Descend(g[n - 1], topic[n])
      BY <3>1, <3>2
    <3>4. \A n \in 0 .. m :
             h[n] = IF n = 0 THEN << <<>> >> ELSE Descend(h[n - 1], topic[n])
      <4> TAKE n \in 0 .. m
      <4>1. CASE n = m
        <5>1. h[n] = Descend(g[n - 1], topic[n]) /\ h[n - 1] = g[n - 1]
          BY <4>1, <3>1, <2>2, <2>4
        <5> QED  BY <5>1, <4>1, <2>4
      <4>2. CASE n # m
        <5>1. h[n] = g[n] /\ n \in 0 .. (m - 1)
          BY <4>2, <2>2
        <5>2. n # 0 => h[n - 1] = g[n - 1]
          BY <4>2, <2>2
        <5> QED  BY <5>1, <5>2, <3>3
      <4> QED  BY <4>1, <4>2
    <3>5. h = [n \in 0 .. m |-> h[n]]
      OBVIOUS
    <3> HIDE DEF h
    <3>6. Loops(h, m)
      BY <3>4, <3>5
    <3> QED  BY <2>2, <3>6
  <2> QED  BY <2>3, <2>4
<1>2. \E g : Loops(g, Len(topic))
  BY <1>1
<1>3. TopicMatches(topic) = CHOOSE g : Loops(g, Len(topic))
  BY DEF TopicMatches
<1>4. Loops(TopicMatches(topic), Len(topic))
  <2> HIDE DEF Loops
  <2> QED  BY <1>2, <1>3
<1> QED  BY <1>4

\* The paths that match the first n levels of the topic, literally or by a "+".
Prefixes(topic, n) ==
    {p \in Seq(Level) : /\ Len(p) = n
                         /\ \A i \in 1 .. n : LevelMatches(p[i], topic[i])}

\* What one more level does to them.
LEMMA DescendOK ==
  ASSUME NEW topic \in Seq(Level), NEW n \in 1 .. Len(topic),
         NEW matches \in Seq(Seq(Level)),
         {matches[i] : i \in DOMAIN matches} = Prefixes(topic, n - 1)
  PROVE  /\ Descend(matches, topic[n]) \in Seq(Seq(Level))
         /\ {Descend(matches, topic[n])[k] : k \in DOMAIN Descend(matches, topic[n])}
              = Prefixes(topic, n)
<1> DEFINE m == Len(matches)
           level == topic[n]
           next == Descend(matches, level)
           add(k) == IF k % 2 = 1 THEN "+" ELSE level
<1>0. /\ m \in Nat /\ n \in Nat /\ n - 1 \in Nat /\ level \in Level
      /\ DOMAIN matches = 1 .. m
      /\ \A i \in 1 .. m : matches[i] \in Seq(Level)
  OBVIOUS
<1>1. \A k \in 1 .. (2 * m) : (k + 1) \div 2 \in 1 .. m
  BY <1>0
<1>2. next = [k \in 1 .. (2 * m) |-> Append(matches[(k + 1) \div 2], add(k))]
  BY DEF Descend
<1> HIDE DEF m, next, level
<1>3. \A k : add(k) \in {"+", level} /\ add(k) \in Level
  <2>1. "+" \in Level
    BY DEF Level
  <2>2. \A k : add(k) = "+" \/ add(k) = level
    OBVIOUS
  <2> QED  BY <1>0, <2>1, <2>2
<1>4. \A k \in 1 .. (2 * m) : next[k] = Append(matches[(k + 1) \div 2], add(k))
  BY <1>2
<1>5. \A k \in 1 .. (2 * m) : next[k] \in Seq(Level)
  <2> TAKE k \in 1 .. (2 * m)
  <2> DEFINE q == matches[(k + 1) \div 2]
  <2>1. q \in Seq(Level) /\ add(k) \in Level /\ next[k] = Append(q, add(k))
    BY <1>0, <1>1, <1>3, <1>4
  <2> HIDE DEF add, q
  <2> QED  BY <2>1
<1>6. /\ next \in Seq(Seq(Level))
      /\ DOMAIN next = 1 .. (2 * m)
  <2>1. 2 * m \in Nat
    BY <1>0
  <2>2. next \in [1 .. (2 * m) -> Seq(Level)]
    BY <1>2, <1>5
  <2> QED  BY <2>1, <2>2
<1>7. ASSUME NEW k \in 1 .. (2 * m)
      PROVE  next[k] \in Prefixes(topic, n)
  <2> DEFINE q == matches[(k + 1) \div 2]
  <2>1. q \in Prefixes(topic, n - 1)
    BY <1>0, <1>1
  <2>2. q \in Seq(Level) /\ Len(q) = n - 1
        /\ \A i \in 1 .. (n - 1) : LevelMatches(q[i], topic[i])
    BY <2>1 DEF Prefixes
  <2>3. next[k] = Append(q, add(k)) /\ add(k) \in Level /\ LevelMatches(add(k), topic[n])
    BY <1>3, <1>4 DEF LevelMatches, level
  <2> HIDE DEF q, add
  <2>4. /\ Len(next[k]) = n
        /\ \A i \in 1 .. (n - 1) : next[k][i] = q[i]
        /\ next[k][n] = add(k)
    BY <1>0, <2>2, <2>3
  <2>5. \A i \in 1 .. n : LevelMatches(next[k][i], topic[i])
    BY <1>0, <2>2, <2>3, <2>4
  <2> QED  BY <1>5, <2>4, <2>5 DEF Prefixes
<1>8. ASSUME NEW p \in Prefixes(topic, n)
      PROVE  \E k \in 1 .. (2 * m) : next[k] = p
  <2> DEFINE q == SubSeq(p, 1, n - 1)
  <2>1. p \in Seq(Level) /\ Len(p) = n /\ \A i \in 1 .. n : LevelMatches(p[i], topic[i])
    BY DEF Prefixes
  <2>2. /\ q \in Seq(Level) /\ Len(q) = n - 1
        /\ \A i \in 1 .. (n - 1) : q[i] = p[i]
        /\ p = Append(q, p[n])
    BY <1>0, <2>1
  <2> HIDE DEF q
  <2>3. q \in Prefixes(topic, n - 1)
    BY <1>0, <2>1, <2>2 DEF Prefixes
  <2>4. PICK i \in 1 .. m : matches[i] = q
    BY <1>0, <2>3
  <2>5. p[n] \in {level, "+"}
    BY <1>0, <2>1 DEF LevelMatches, level
  <2>6. CASE p[n] = "+"
    <3> DEFINE k == 2 * i - 1
    <3>1. k \in 1 .. (2 * m) /\ (k + 1) \div 2 = i /\ k % 2 = 1
      BY <1>0
    <3> HIDE DEF k
    <3>2. next[k] = Append(matches[i], "+")
      BY <1>4, <3>1
    <3> QED  BY <2>2, <2>4, <2>6, <3>1, <3>2
  <2>7. CASE p[n] = level
    <3> DEFINE k == 2 * i
    <3>1. k \in 1 .. (2 * m) /\ (k + 1) \div 2 = i /\ k % 2 # 1
      BY <1>0
    <3> HIDE DEF k
    <3>2. next[k] = Append(matches[i], level)
      BY <1>4, <3>1
    <3> QED  BY <2>2, <2>4, <2>7, <3>1, <3>2
  <2> QED  BY <2>5, <2>6, <2>7
<1>9. {next[k] : k \in DOMAIN next} = Prefixes(topic, n)
  <2> HIDE DEF add
  <2>1. \A x \in {next[k] : k \in DOMAIN next} : x \in Prefixes(topic, n)
    BY <1>6, <1>7
  <2>2. \A x \in Prefixes(topic, n) : x \in {next[k] : k \in DOMAIN next}
    BY <1>6, <1>8
  <2> QED  BY <2>1, <2>2
<1> QED  BY <1>6, <1>9 DEF next, level

\* topicmatchs after n levels holds the paths that match those, and no others.
LEMMA TopicMatchesAre ==
  ASSUME NEW topic \in Seq(Level), NEW n \in 0 .. Len(topic)
  PROVE  /\ TopicMatches(topic)[n] \in Seq(Seq(Level))
         /\ {TopicMatches(topic)[n][i] : i \in DOMAIN TopicMatches(topic)[n]} = Prefixes(topic, n)
<1> DEFINE after == TopicMatches(topic)
           Right(k) == /\ after[k] \in Seq(Seq(Level))
                       /\ {after[k][i] : i \in DOMAIN after[k]} = Prefixes(topic, k)
           Bad == {k \in 0 .. Len(topic) : ~Right(k)}
<1>1. /\ after[0] = << <<>> >>
      /\ \A k \in 1 .. Len(topic) : after[k] = Descend(after[k - 1], topic[k])
  <2> DEFINE body(k) == IF k = 0 THEN << <<>> >> ELSE Descend(after[k - 1], topic[k])
  <2>0. after = [k \in 0 .. Len(topic) |-> body(k)] /\ Len(topic) \in Nat
    BY TopicMatchesLoop
  <2> HIDE DEF after, body
  <2>1. \A k \in 0 .. Len(topic) : after[k] = body(k)
    BY <2>0
  <2> QED  BY <2>0, <2>1 DEF body
<1> HIDE DEF after
<1>2. Right(0)
  <2>1. after[0] \in Seq(Seq(Level))
    BY <1>1
  <2>2. DOMAIN after[0] = {1} /\ after[0][1] = <<>>
    BY <1>1
  <2>3. \A p \in Seq(Level) : Len(p) = 0 <=> p = <<>>
    BY EmptySeq
  <2>4. \A p : p \in Prefixes(topic, 0) <=> (p \in Seq(Level) /\ Len(p) = 0)
    BY DEF Prefixes
  <2>5. <<>> \in Seq(Level)
    OBVIOUS
  <2>6. Prefixes(topic, 0) = {<<>>}
    BY <2>3, <2>4, <2>5
  <2> QED  BY <2>1, <2>2, <2>6
<1>3. Bad = {}
  <2> SUFFICES ASSUME Bad # {}  PROVE FALSE
    OBVIOUS
  <2>1. PICK k \in Bad : \A j \in Bad : k <= j
    <3>1. Bad \in SUBSET Nat  OBVIOUS
    <3> HIDE DEF Bad
    <3> QED  BY <3>1, LeastOf
  <2>2. k \in 0 .. Len(topic) /\ ~Right(k)
    BY <2>1
  <2> HIDE DEF Right
  <2>3. k # 0
    BY <1>2, <2>2
  <2>4. k \in 1 .. Len(topic) /\ k - 1 \in 0 .. Len(topic) /\ ~(k <= k - 1)
    BY <2>2, <2>3
  <2>5. Right(k - 1)
    BY <2>1, <2>4
  <2>6. /\ after[k - 1] \in Seq(Seq(Level))
        /\ {after[k - 1][i] : i \in DOMAIN after[k - 1]} = Prefixes(topic, k - 1)
    BY <2>5 DEF Right
  <2>7. Right(k)
    <3> DEFINE matches == after[k - 1]
    <3>1. after[k] = Descend(matches, topic[k])
      BY <2>4, <1>1
    <3>2. matches \in Seq(Seq(Level)) /\ {matches[i] : i \in DOMAIN matches} = Prefixes(topic, k - 1)
      BY <2>6
    <3> HIDE DEF matches
    <3>3. /\ Descend(matches, topic[k]) \in Seq(Seq(Level))
          /\ {Descend(matches, topic[k])[i] : i \in DOMAIN Descend(matches, topic[k])}
               = Prefixes(topic, k)
      BY <2>4, <3>2, DescendOK
    <3> QED  BY <3>1, <3>3 DEF Right
  <2> QED  BY <2>2, <2>7
<1>4. Right(n)
  BY <1>3
<1> QED  BY <1>4 DEF after

-----------------------------------------------------------------------------
(* The visits. *)

\* The rounds of the loops and the indices of topicmatchs in each.
LEMMA VisitsAre ==
  ASSUME NEW topic \in Seq(Level)
  PROVE  /\ \A v \in Visits(topic) :
               /\ v = <<v[1], v[2]>>
               /\ v[1] \in 1 .. (Len(topic) + 1)
               /\ v[2] \in DOMAIN TopicMatches(topic)[v[1] - 1]
               /\ v[2] \in Nat
               /\ v[2] <= Len(TopicMatches(topic)[v[1] - 1])
         /\ \A n \in 1 .. (Len(topic) + 1) : \A i \in DOMAIN TopicMatches(topic)[n - 1] :
               <<n, i>> \in Visits(topic)
<1> DEFINE after == TopicMatches(topic)
<1>1. \A n \in 1 .. (Len(topic) + 1) : n - 1 \in 0 .. Len(topic)
  OBVIOUS
<1>2. \A n \in 1 .. (Len(topic) + 1) : after[n - 1] \in Seq(Seq(Level))
  BY <1>1, TopicMatchesAre
<1>3. \A n \in 1 .. (Len(topic) + 1) : \A i \in DOMAIN after[n - 1] :
         i \in Nat /\ i <= Len(after[n - 1])
  BY <1>2
<1> HIDE DEF after
<1>4. Visits(topic) = UNION {{n} \X DOMAIN after[n - 1] : n \in 1 .. (Len(topic) + 1)}
  BY DEF Visits, after
<1>5. ASSUME NEW v \in Visits(topic)
      PROVE  \E n \in 1 .. (Len(topic) + 1) : v \in {n} \X DOMAIN after[n - 1]
  BY <1>4
<1>6. ASSUME NEW v \in Visits(topic)
      PROVE  /\ v = <<v[1], v[2]>>
             /\ v[1] \in 1 .. (Len(topic) + 1)
             /\ v[2] \in DOMAIN after[v[1] - 1]
  BY <1>5
<1>7. ASSUME NEW n \in 1 .. (Len(topic) + 1), NEW i \in DOMAIN after[n - 1]
      PROVE  <<n, i>> \in Visits(topic)
  BY <1>4
<1> QED  BY <1>3, <1>6, <1>7 DEF after

\* Whatever is visited is a filter that matches the topic.
LEMMA VisitedMatches ==
  ASSUME NEW topic \in Seq(Level), NEW v \in Visits(topic)
  PROVE  FilterMatches(Visited(topic, v), topic)
<1> DEFINE n == v[1]
           after == TopicMatches(topic)[n - 1]
           node == after[v[2]]
           filter == Visited(topic, v)
<1>1. n \in 1 .. (Len(topic) + 1) /\ v[2] \in DOMAIN after /\ n - 1 \in 0 .. Len(topic)
  BY VisitsAre
<1>2. after \in Seq(Seq(Level)) /\ {after[i] : i \in DOMAIN after} = Prefixes(topic, n - 1)
  BY <1>1, TopicMatchesAre
<1>3. filter = IF n <= Len(topic) THEN Append(node, "#") ELSE node
  BY DEF Visited
<1> HIDE DEF n, after, filter
<1>4. node \in Prefixes(topic, n - 1)
  BY <1>1, <1>2
<1> HIDE DEF node
<1>5. /\ node \in Seq(Level) /\ Len(node) = n - 1
      /\ \A i \in 1 .. (n - 1) : LevelMatches(node[i], topic[i])
  BY <1>4 DEF Prefixes
<1>6. CASE n <= Len(topic)
  <2>1. /\ Len(filter) = n /\ filter[n] = "#"
        /\ \A i \in 1 .. (n - 1) : filter[i] = node[i]
    BY <1>1, <1>3, <1>5, <1>6 DEF Level
  <2> QED  BY <2>1, <1>1, <1>5, <1>6 DEF FilterMatches, filter
<1>7. CASE ~(n <= Len(topic))
  <2>1. n - 1 = Len(topic) /\ filter = node /\ DOMAIN filter = 1 .. Len(topic)
    BY <1>1, <1>3, <1>5, <1>7
  <2> QED  BY <2>1, <1>5 DEF FilterMatches, filter
<1> QED  BY <1>6, <1>7

\* Every filter that matches the topic is visited.
LEMMA MatchesVisited ==
  ASSUME NEW topic \in Seq(Level), NEW p \in Seq(Level) \ {<<>>}, FilterMatches(p, topic)
  PROVE  \E v \in Visits(topic) : Visited(topic, v) = p
<1>0. Len(topic) \in Nat /\ Len(p) \in Nat /\ Len(p) # 0
  BY EmptySeq
<1>1. CASE /\ Len(p) = Len(topic)
           /\ \A i \in DOMAIN p : LevelMatches(p[i], topic[i])
  <2> DEFINE n == Len(topic) + 1
             after == TopicMatches(topic)[n - 1]
  <2>1. n \in 1 .. (Len(topic) + 1) /\ n - 1 \in 0 .. Len(topic) /\ n - 1 = Len(topic) /\ n \in Nat
    BY <1>0
  <2>2. p \in Prefixes(topic, n - 1)
    BY <1>0, <1>1, <2>1 DEF Prefixes
  <2>3. {after[i] : i \in DOMAIN after} = Prefixes(topic, n - 1)
    BY <2>1, TopicMatchesAre
  <2>4. PICK i \in DOMAIN after : after[i] = p
    BY <2>2, <2>3
  <2>5. <<n, i>> \in Visits(topic)
    BY <2>1, VisitsAre
  <2>6. Visited(topic, <<n, i>>) = p
    BY <2>4, <1>0 DEF Visited
  <2> QED  BY <2>5, <2>6
<1>2. CASE /\ p[Len(p)] = "#"
           /\ Len(p) <= Len(topic)
           /\ \A i \in 1 .. (Len(p) - 1) : LevelMatches(p[i], topic[i])
  <2> DEFINE n == Len(p)
             q == SubSeq(p, 1, n - 1)
             after == TopicMatches(topic)[n - 1]
  <2>1. n \in 1 .. (Len(topic) + 1) /\ n - 1 \in 0 .. Len(topic)
    BY <1>0, <1>2
  <2>2. /\ q \in Seq(Level) /\ Len(q) = n - 1
        /\ \A i \in 1 .. (n - 1) : q[i] = p[i]
        /\ p = Append(q, p[n])
        /\ p[n] = "#"
    <3>1. n \in Nat /\ n # 0 /\ n - 1 \in Nat /\ p \in Seq(Level) /\ Len(p) = n
      BY <1>0
    <3>2. /\ q \in Seq(Level) /\ Len(q) = n - 1
          /\ \A i \in 1 .. (n - 1) : q[i] = p[i]
          /\ p = Append(q, p[n])
      <4> HIDE DEF n
      <4> QED  BY <3>1
    <3> QED  BY <1>2, <3>2
  <2> HIDE DEF q
  <2>3. q \in Prefixes(topic, n - 1)
    BY <1>2, <2>2 DEF Prefixes
  <2>4. {after[i] : i \in DOMAIN after} = Prefixes(topic, n - 1)
    BY <2>1, TopicMatchesAre
  <2>5. PICK i \in DOMAIN after : after[i] = q
    BY <2>3, <2>4
  <2>6. <<n, i>> \in Visits(topic)
    BY <2>1, VisitsAre
  <2>7. Visited(topic, <<n, i>>) = Append(after[i], "#")
    BY <1>2 DEF Visited
  <2> QED  BY <2>2, <2>5, <2>6, <2>7
<1> QED  BY <1>1, <1>2 DEF FilterMatches

\* Of some visits one is the last.
LEMMA LastVisit ==
  ASSUME NEW topic \in Seq(Level), NEW K \in SUBSET Visits(topic), K # {}
  PROVE  \E v \in K : \A w \in K : ~Before(v, w)
<1> DEFINE rounds == {v[1] : v \in K}
<1>1. \A v \in K : v[1] \in Nat /\ v[1] <= Len(topic) + 1 /\ v[2] \in Nat
  BY VisitsAre
<1>2. rounds \in SUBSET Nat /\ rounds # {} /\ \A k \in rounds : k <= Len(topic) + 1
  BY <1>1
<1>3. PICK n \in rounds : \A k \in rounds : k <= n
  <2>1. Len(topic) + 1 \in Nat  OBVIOUS
  <2> HIDE DEF rounds
  <2> QED  BY <1>2, <2>1, LargestOf
<1> DEFINE indices == {v[2] : v \in {w \in K : w[1] = n}}
           bound == Len(TopicMatches(topic)[n - 1])
<1>4. indices \in SUBSET Nat /\ indices # {}
  BY <1>1, <1>3
<1>5. bound \in Nat /\ \A k \in indices : k <= bound
  <2>1. PICK v \in K : v[1] = n
    BY <1>3
  <2>2. n - 1 \in 0 .. Len(topic)
    BY <2>1, VisitsAre
  <2>3. bound \in Nat
    BY <2>2, TopicMatchesAre
  <2>4. \A w \in K : w[1] = n => w[2] <= bound
    BY VisitsAre
  <2> HIDE DEF bound
  <2> QED  BY <2>3, <2>4
<1>6. PICK i \in indices : \A k \in indices : k <= i
  <2> HIDE DEF indices, bound
  <2> QED  BY <1>4, <1>5, LargestOf
<1>7. PICK v \in K : v[1] = n /\ v[2] = i
  OBVIOUS
<1>8. ASSUME NEW w \in K  PROVE ~Before(v, w)
  <2>1. w[1] <= n /\ (w[1] = n => w[2] <= i)
    BY <1>3, <1>6
  <2> QED  BY <1>1, <1>7, <2>1 DEF Before
<1> QED  BY <1>8

-----------------------------------------------------------------------------

\* get_subscribed: in any tree, a publish to any topic reaches exactly the
\* sessions that have a filter which matches it, each once and with the QoS of one
\* of those filters.  (No path of a tree is empty: split('/') returns a level.)
THEOREM SearchIsExact ==
  ASSUME NEW topic \in Seq(Level), NEW tree, DOMAIN tree \subseteq Seq(Level) \ {<<>>},
         \A p \in DOMAIN tree : \A e, f \in tree[p] :
            (e.session = f.session /\ e.generation = f.generation) => e = f
  PROVE  ReachesSubscribers(tree, topic)
<1> DEFINE found    == get_subscribed(tree, topic)
           at(v)    == Clients(tree, Visited(topic, v))
           matching == UNION {tree[p] : p \in {g \in DOMAIN tree : FilterMatches(g, topic)}}
           id(e)    == <<e.session, e.generation>>
           same(e, f) == f.session = e.session /\ f.generation = e.generation
<1>1. \A e : e \in found <=>
         \E v \in Visits(topic) :
            /\ e \in at(v)
            /\ \A w \in Visits(topic) : Before(v, w) => \A f \in at(w) : ~same(e, f)
  BY DEF get_subscribed
<1>2. \A v \in Visits(topic) : \A e \in at(v) :
         Visited(topic, v) \in DOMAIN tree /\ e \in tree[Visited(topic, v)]
  BY DEF Clients
<1>3. \A v \in Visits(topic) : \A e \in at(v) : e \in matching
  BY <1>2, VisitedMatches
<1>4. ASSUME NEW e \in matching
      PROVE  \E v \in Visits(topic) : e \in at(v)
  <2>1. PICK p \in DOMAIN tree : FilterMatches(p, topic) /\ e \in tree[p]
    OBVIOUS
  <2>2. PICK v \in Visits(topic) : Visited(topic, v) = p
    BY <2>1, MatchesVisited
  <2> QED  BY <2>1, <2>2 DEF Clients
<1> HIDE DEF found, at, matching
<1>5. found \subseteq matching
  BY <1>1, <1>3
<1>6. ASSUME NEW e \in matching
      PROVE  \E x \in found : same(e, x)
  <2> DEFINE K == {v \in Visits(topic) : \E x \in at(v) : same(e, x)}
  <2>1. K \in SUBSET Visits(topic) /\ K # {}
    BY <1>4
  <2>2. PICK v \in K : \A w \in K : ~Before(v, w)
    <3> HIDE DEF K
    <3> QED  BY <2>1, LastVisit
  <2>3. PICK x \in at(v) : same(e, x)
    OBVIOUS
  <2>4. \A w \in Visits(topic) : Before(v, w) => \A f \in at(w) : ~same(x, f)
    BY <2>2, <2>3
  <2> QED  BY <2>3, <2>4, <1>1
<1>7. ASSUME NEW e \in found, NEW f \in found, same(e, f)
      PROVE  e = f
  <2>1. PICK v \in Visits(topic) :
          /\ e \in at(v)
          /\ \A w \in Visits(topic) : Before(v, w) => \A x \in at(w) : ~same(e, x)
    BY <1>1
  <2>2. PICK u \in Visits(topic) :
          /\ f \in at(u)
          /\ \A w \in Visits(topic) : Before(u, w) => \A x \in at(w) : ~same(f, x)
    BY <1>1
  <2>3. ~Before(v, u) /\ ~Before(u, v)
    BY <1>7, <2>1, <2>2
  <2>4. /\ v = <<v[1], v[2]>> /\ v[1] \in Nat /\ v[2] \in Nat
        /\ u = <<u[1], u[2]>> /\ u[1] \in Nat /\ u[2] \in Nat
    BY VisitsAre
  <2>5. v[1] = u[1] /\ v[2] = u[2]
    BY <2>3, <2>4 DEF Before
  <2>6. v = u
    BY <2>4, <2>5
  <2> QED  BY <1>2, <1>7, <2>1, <2>2, <2>6
<1>8. {id(e) : e \in found} = {id(e) : e \in matching}
  <2>1. \A e \in matching : \E x \in found : id(x) = id(e)
    BY <1>6
  <2> HIDE DEF id
  <2> QED  BY <2>1, <1>5
<1>9. \A e, f \in found : id(e) = id(f) => e = f
  BY <1>7
<1> QED  BY <1>5, <1>8, <1>9 DEF ReachesSubscribers, found, matching

=============================================================================
