------------------------- MODULE SessionWorkerProofs -------------------------
(* Proofs about SessionWorker, for every value of its constants. *)
EXTENDS SessionWorker, TLAPS, WellFoundedInduction, FiniteSetTheorems, SequenceTheorems

-----------------------------------------------------------------------------
(* The ids of the rows. *)

\* A non-empty set of naturals has a least member.
LEMMA LeastNatural ==
  ASSUME NEW T \in SUBSET Nat, T # {}
  PROVE  \E m \in T : \A k \in T : m <= k
<1> DEFINE R == OpToRel(<, Nat)
<1>1. IsWellFoundedOn(R, Nat)
  BY NatLessThanWellFounded
<1>2. PICK m \in T : \A k \in T : ~(<<k, m>> \in R)
  BY <1>1, WFMin
<1>3. \A k \in T : ~(k < m)
  BY <1>2 DEF OpToRel
<1> QED  BY <1>3

\* SQLite's next rowid is a new one, larger than all others.
LEMMA NextRowIdIsNew ==
  ASSUME NEW rows \in SUBSET Row
  PROVE  /\ NextRowId(rows) \in Nat \ {0}
         /\ \A r \in rows : r.id < NextRowId(rows)
         /\ NextRowId(rows) = 1 \/ \E r \in rows : NextRowId(rows) = r.id + 1
<1> DEFINE Bounds == {n \in Nat : \A r \in rows : r.id <= n}
<1>0. \A r \in rows : r.id \in Nat /\ r.id <= MaxRowId /\ 1 <= r.id
  BY ConstantsOK DEF Row
<1>1. MaxRowId \in Bounds
  BY <1>0, ConstantsOK
<1>2. PICK m \in Bounds : \A k \in Bounds : m <= k
  <2> HIDE DEF Bounds
  <2>1. Bounds \in SUBSET Nat  BY DEF Bounds
  <2> QED  BY <1>1, <2>1, LeastNatural
<1>3. m \in {0} \cup {r.id : r \in rows}
  <2> SUFFICES ASSUME m # 0, \A r \in rows : r.id # m
               PROVE  FALSE
    OBVIOUS
  <2>1. m - 1 \in Bounds
    BY <1>0, <1>2
  <2> QED  BY <1>2, <2>1
<1> DEFINE n == CHOOSE n \in {0} \cup {r.id : r \in rows} : \A r \in rows : r.id <= n
<1>4. n \in {0} \cup {r.id : r \in rows} /\ \A r \in rows : r.id <= n
  BY <1>2, <1>3
<1> HIDE DEF n
<1>5. n \in Nat
  BY <1>4, <1>0
<1>6. 1 + n \in Nat \ {0} /\ \A r \in rows : r.id < 1 + n
  BY <1>0, <1>4, <1>5
<1>7. 1 + n = 1 \/ \E r \in rows : 1 + n = r.id + 1
  BY <1>0, <1>4, <1>5
<1> QED  BY <1>6, <1>7 DEF NextRowId, n

\* Deleting rows never makes the next id larger.
LEMMA NextRowIdMonotone ==
  ASSUME NEW rows \in SUBSET Row, NEW some \in SUBSET rows
  PROVE  NextRowId(some) <= NextRowId(rows)
<1>1. /\ NextRowId(rows) \in Nat \ {0}
      /\ \A r \in rows : r.id < NextRowId(rows)
      /\ \A r \in rows : r.id \in Nat
  BY NextRowIdIsNew, ConstantsOK DEF Row
<1>2. /\ NextRowId(some) \in Nat \ {0}
      /\ NextRowId(some) = 1 \/ \E r \in some : NextRowId(some) = r.id + 1
  BY NextRowIdIsNew
<1>3. CASE NextRowId(some) = 1
  BY <1>1, <1>3
<1>4. CASE \E r \in some : NextRowId(some) = r.id + 1
  BY <1>1, <1>4
<1> QED  BY <1>2, <1>3, <1>4

-----------------------------------------------------------------------------
(* Entries and rows. *)

Bounded(rows, next) == \A r \in rows : r.entry.msg < next

\* What the rest of the proofs uses of the shape of an entry.
LEMMA EntryShape ==
  ASSUME NEW e \in Entry
  PROVE  /\ e.mid \in Mids
         /\ e.type \in {"Publish", "PubRec"}
         /\ e.msg \in Nat
         /\ e.type = "PubRec" => e.msg = NoMsg
         /\ e.type = "Publish" => [e EXCEPT !.dup = TRUE] \in Entry
<1>1. CASE e \in [type : {"Publish"}, mid : Mids, qos : {1, 2}, dup : BOOLEAN, msg : Msgs]
  <2>1. [e EXCEPT !.dup = TRUE] \in Entry
    BY <1>1 DEF Entry
  <2> QED  BY <1>1, <2>1, ConstantsOK DEF Msgs
<1>2. CASE \E mid \in Mids : e = PubRecEntry(mid)
  BY <1>2 DEF PubRecEntry, NoMsg
<1> QED  BY <1>1, <1>2 DEF Entry

\* What internal_publish_message queues is an entry, whatever its dup flag.
LEMMA PublishEntryIsEntry ==
  ASSUME NEW mid \in Mids, NEW qos \in {1, 2}, NEW msg \in Msgs, NEW dup \in BOOLEAN
  PROVE  [PublishEntry(mid, qos, msg) EXCEPT !.dup = dup] \in Entry
BY DEF PublishEntry, Entry

\* The parts of a row.
LEMMA RowShape ==
  ASSUME NEW r \in Row
  PROVE  r.id \in Nat /\ r.entry \in Entry
BY ConstantsOK DEF Row

\* persist_qos_outgoing_store and Vec::push keep the rows and the queue alike.
LEMMA StoreAppends ==
  ASSUME NEW rows, RowsOK(rows), NEW queue \in Seq(Entry), Mirrors(queue, rows),
         Distinct(queue), NEW e \in Entry, NextRowId(rows) <= MaxRowId,
         \A i \in DOMAIN queue : queue[i].mid # e.mid,
         e.type = "Publish" => \A r \in rows : r.entry.msg < e.msg,
         NEW new, new = rows \cup {[id |-> NextRowId(rows), entry |-> e]}
  PROVE  /\ RowsOK(new)
         /\ Mirrors(Append(queue, e), new)
         /\ Distinct(Append(queue, e))
         /\ Append(queue, e) \in Seq(Entry)
         /\ MidsOf(Append(queue, e)) = MidsOf(queue) \cup {e.mid}
<1> DEFINE row == [id |-> NextRowId(rows), entry |-> e]
           q   == Append(queue, e)
<1>1. /\ NextRowId(rows) \in Nat \ {0}
      /\ \A r \in rows : r.id < NextRowId(rows)
  BY NextRowIdIsNew DEF RowsOK
<1>2. \A r \in rows : r.id \in Nat /\ r.entry \in Entry /\ r \in Row
  BY RowShape DEF RowsOK
<1>3. \A r \in rows : r.entry.mid # e.mid
  BY DEF Mirrors
<1>4. RowsOK(new)
  <2>1. row \in Row
    BY <1>1, ConstantsOK DEF Row
  <2>2. \A r \in new : r \in rows \/ r = row
    OBVIOUS
  <2>3. \A r1, r2 \in new : (r1.id = r2.id \/ r1.entry.mid = r2.entry.mid) => r1 = r2
    BY <1>1, <1>2, <1>3, <2>2 DEF RowsOK
  <2>4. \A r1, r2 \in new :
          (r1.id < r2.id /\ r1.entry.type = "Publish" /\ r2.entry.type = "Publish")
             => r1.entry.msg < r2.entry.msg
    BY <1>1, <1>2, <2>2 DEF RowsOK
  <2> QED  BY <2>1, <2>3, <2>4 DEF RowsOK
<1>5. /\ q \in Seq(Entry)
      /\ DOMAIN q = 1 .. Len(queue) + 1
      /\ DOMAIN queue = 1 .. Len(queue)
      /\ Len(queue) \in Nat
      /\ \A i \in DOMAIN queue : q[i] = queue[i]
      /\ q[Len(queue) + 1] = e
  BY AppendProperties, LenProperties
<1> HIDE DEF q
<1>6. \A i \in DOMAIN q : i \in DOMAIN queue \/ i = Len(queue) + 1
  BY <1>5
<1>7. Distinct(q)
  BY <1>5, <1>6 DEF Distinct
<1>8. Mirrors(q, new)
  <2>1. ASSUME NEW i \in DOMAIN q PROVE \E r \in new : r.entry = q[i]
    <3>1. CASE i \in DOMAIN queue
      <4>1. PICK r \in rows : r.entry = queue[i]
        BY <3>1 DEF Mirrors
      <4> QED  BY <3>1, <4>1, <1>5
    <3>2. CASE i = Len(queue) + 1
      <4>1. row \in new /\ row.entry = e
        OBVIOUS
      <4>2. q[i] = e
        BY <3>2, <1>5
      <4> QED  BY <4>1, <4>2
    <3> QED  BY <3>1, <3>2, <1>6
  <2>2. \A r \in new : \E i \in DOMAIN q : r.entry = q[i]
    <3> SUFFICES ASSUME NEW r \in new PROVE \E i \in DOMAIN q : r.entry = q[i]
      OBVIOUS
    <3>1. CASE r \in rows
      <4>1. PICK i \in DOMAIN queue : r.entry = queue[i]
        BY <3>1 DEF Mirrors
      <4> QED  BY <4>1, <1>5
    <3>2. CASE r = row
      <4>1. Len(queue) + 1 \in DOMAIN q
        BY <1>5
      <4> QED  BY <3>2, <4>1, <1>5
    <3> QED  BY <3>1, <3>2
  <2>3. ASSUME NEW r1 \in new, NEW r2 \in new, NEW i \in DOMAIN q, NEW j \in DOMAIN q,
               r1.entry = q[i], r2.entry = q[j], i < j
        PROVE  r1.id < r2.id
    <3>1. i \in DOMAIN queue
      BY <2>3, <1>5, <1>6
    <3>2. r1 \in rows
      BY <2>3, <3>1, <1>5
    <3>3. CASE j \in DOMAIN queue
      <4>1. r2 \in rows
        BY <2>3, <3>3, <1>5
      <4> QED  BY <2>3, <3>1, <3>2, <3>3, <4>1, <1>5 DEF Mirrors
    <3>4. CASE j = Len(queue) + 1
      <4>1. r2 = row
        BY <2>3, <3>4, <1>3, <1>5
      <4> QED  BY <3>2, <4>1, <1>1
    <3> QED  BY <3>3, <3>4, <1>6
  <2> QED  BY <2>1, <2>2, <2>3 DEF Mirrors
<1>9. MidsOf(q) = MidsOf(queue) \cup {e.mid}
  BY <1>5, <1>6 DEF MidsOf
<1> QED  BY <1>4, <1>5, <1>7, <1>8, <1>9 DEF q

\* persist_qos_outgoing_delete and Vec::remove keep them alike.
LEMMA DeleteRemoves ==
  ASSUME NEW rows, RowsOK(rows), NEW queue \in Seq(Entry), Mirrors(queue, rows),
         Distinct(queue), NEW pos \in DOMAIN queue,
         NEW left, left = {r \in rows : r.entry.mid # queue[pos].mid}
  PROVE  /\ RowsOK(left)
         /\ Mirrors(Without(queue, pos), left)
         /\ Distinct(Without(queue, pos))
         /\ Without(queue, pos) \in Seq(Entry)
         /\ MidsOf(Without(queue, pos)) = MidsOf(queue) \ {queue[pos].mid}
<1> DEFINE q    == Without(queue, pos)
           n    == Len(queue) - 1
           old(i) == IF i < pos THEN i ELSE i + 1
<1>1. /\ DOMAIN queue = 1 .. Len(queue)
      /\ Len(queue) \in Nat
      /\ \A i \in DOMAIN queue : queue[i] \in Entry
  BY LenProperties, ElementOfSeq
<1>2. n \in Nat
  BY <1>1
<1>3. /\ DOMAIN q = 1 .. n
      /\ \A i \in 1 .. n : q[i] = queue[old(i)]
  BY DEF Without
<1>4. \A i \in 1 .. n : old(i) \in DOMAIN queue /\ old(i) # pos
  BY <1>1
<1>5. \A i, j \in 1 .. n : /\ i < j => old(i) < old(j)
                           /\ old(i) = old(j) => i = j
  BY <1>1
<1>6. \A k \in DOMAIN queue : k # pos => \E i \in 1 .. n : old(i) = k
  <2> SUFFICES ASSUME NEW k \in DOMAIN queue, k # pos
               PROVE  \E i \in 1 .. n : old(i) = k
    OBVIOUS
  <2>1. CASE k < pos
    <3>1. k \in 1 .. n /\ old(k) = k
      BY <2>1, <1>1
    <3> QED  BY <3>1
  <2>2. CASE k > pos
    <3>1. k - 1 \in 1 .. n /\ old(k - 1) = k
      BY <2>2, <1>1
    <3> QED  BY <3>1
  <2> QED  BY <2>1, <2>2, <1>1
<1>7. \A k \in DOMAIN queue : k # pos <=> queue[k].mid # queue[pos].mid
  BY DEF Distinct
<1>8. q \in Seq(Entry)
  <2>1. \A i \in 1 .. n : q[i] \in Entry
    BY <1>1, <1>3, <1>4
  <2>2. q = [i \in 1 .. n |-> q[i]]
    BY DEF Without
  <2>3. q \in [1 .. n -> Entry]
    <3> HIDE DEF q
    <3> QED  BY <2>1, <2>2
  <2> HIDE DEF q, n
  <2> QED  BY <1>2, <2>3, SeqDef
<1> HIDE DEF q, n, old
<1>9. Distinct(q)
  BY <1>3, <1>4, <1>5 DEF Distinct
<1>10. RowsOK(left)
  BY DEF RowsOK
<1>11. Mirrors(q, left)
  <2>1. ASSUME NEW i \in DOMAIN q PROVE \E r \in left : r.entry = q[i]
    <3>1. PICK r \in rows : r.entry = queue[old(i)]
      BY <1>3, <1>4 DEF Mirrors
    <3>2. r \in left
      BY <3>1, <1>3, <1>4, <1>7
    <3> QED  BY <3>1, <3>2, <1>3
  <2>2. ASSUME NEW r \in left PROVE \E i \in DOMAIN q : r.entry = q[i]
    <3>1. PICK k \in DOMAIN queue : r.entry = queue[k]
      BY DEF Mirrors
    <3>2. PICK i \in 1 .. n : old(i) = k
      BY <3>1, <1>6
    <3> QED  BY <3>1, <3>2, <1>3
  <2>3. ASSUME NEW r1 \in left, NEW r2 \in left, NEW i \in DOMAIN q, NEW j \in DOMAIN q,
               r1.entry = q[i], r2.entry = q[j], i < j
        PROVE  r1.id < r2.id
    <3>1. old(i) \in DOMAIN queue /\ old(j) \in DOMAIN queue /\ old(i) < old(j)
      BY <2>3, <1>3, <1>4, <1>5
    <3>2. r1.entry = queue[old(i)] /\ r2.entry = queue[old(j)]
      BY <2>3, <1>3
    <3> QED  BY <3>1, <3>2 DEF Mirrors
  <2> QED  BY <2>1, <2>2, <2>3 DEF Mirrors
<1>12. MidsOf(q) = MidsOf(queue) \ {queue[pos].mid}
  <2>1. ASSUME NEW i \in DOMAIN q
        PROVE  \E k \in DOMAIN queue : q[i].mid = queue[k].mid /\ queue[k].mid # queue[pos].mid
    BY <1>3, <1>4, <1>7
  <2>2. ASSUME NEW k \in DOMAIN queue, queue[k].mid # queue[pos].mid
        PROVE  \E i \in DOMAIN q : q[i].mid = queue[k].mid
    BY <2>2, <1>3, <1>6, <1>7
  <2> QED  BY <2>1, <2>2 DEF MidsOf
<1> QED  BY <1>8, <1>9, <1>10, <1>11, <1>12 DEF q

\* persist_qos_outgoing_update_dup keeps the rows well-formed.
LEMMA MarkingKeepsRows ==
  ASSUME NEW rows, RowsOK(rows), NEW mids,
         \A r \in rows : r.entry.mid \in mids => r.entry.type = "Publish"
  PROVE  /\ RowsOK(Marked(rows, mids))
         /\ \A n : Bounded(rows, n) => Bounded(Marked(rows, mids), n)
<1> DEFINE marked  == Marked(rows, mids)
           mark(r) == IF r.entry.mid \in mids THEN [r EXCEPT !.entry.dup = TRUE] ELSE r
<1>1. ASSUME NEW r \in rows
      PROVE  /\ mark(r) \in Row
             /\ mark(r).id = r.id
             /\ mark(r).entry.mid = r.entry.mid
             /\ mark(r).entry.type = r.entry.type
             /\ mark(r).entry.msg = r.entry.msg
  <2>1. r \in Row /\ r.entry \in Entry
    BY RowShape DEF RowsOK
  <2>2. CASE r.entry.mid \notin mids
    BY <2>1, <2>2
  <2>3. CASE r.entry.mid \in mids
    <3> DEFINE e == [r.entry EXCEPT !.dup = TRUE]
    <3>1. e \in Entry
      BY <2>1, <2>3, EntryShape
    <3>2. /\ mark(r) = [id |-> r.id, entry |-> e]
          /\ r.id \in 1 .. MaxRowId
      BY <2>1, <2>3 DEF Row
    <3>3. e.mid = r.entry.mid /\ e.type = r.entry.type /\ e.msg = r.entry.msg
      BY <2>1 DEF Entry, PubRecEntry
    <3> HIDE DEF mark, e
    <3>4. mark(r).id = r.id /\ mark(r).entry = e
      BY <3>2
    <3>5. mark(r) \in Row
      BY <3>1, <3>2 DEF Row
    <3> QED  BY <3>3, <3>4, <3>5
  <2> QED  BY <2>2, <2>3
<1>2. \A x \in marked : \E r \in rows : x = mark(r)
  BY DEF Marked
<1> HIDE DEF mark, marked
<1>3. marked \subseteq Row
  BY <1>1, <1>2
<1>4. ASSUME NEW x1 \in marked, NEW x2 \in marked,
             x1.id = x2.id \/ x1.entry.mid = x2.entry.mid
      PROVE  x1 = x2
  <2>1. PICK r1 \in rows : x1 = mark(r1)
    BY <1>2
  <2>2. PICK r2 \in rows : x2 = mark(r2)
    BY <1>2
  <2>3. r1.id = r2.id \/ r1.entry.mid = r2.entry.mid
    BY <1>1, <1>4, <2>1, <2>2
  <2>4. r1 = r2
    BY <2>3 DEF RowsOK
  <2> QED  BY <2>1, <2>2, <2>4
<1>5. ASSUME NEW x1 \in marked, NEW x2 \in marked,
             x1.id < x2.id, x1.entry.type = "Publish", x2.entry.type = "Publish"
      PROVE  x1.entry.msg < x2.entry.msg
  <2>1. PICK r1 \in rows : x1 = mark(r1)
    BY <1>2
  <2>2. PICK r2 \in rows : x2 = mark(r2)
    BY <1>2
  <2>3. r1.id < r2.id /\ r1.entry.type = "Publish" /\ r2.entry.type = "Publish"
    BY <1>1, <1>5, <2>1, <2>2
  <2>4. r1.entry.msg < r2.entry.msg
    BY <2>3 DEF RowsOK
  <2> QED  BY <1>1, <2>1, <2>2, <2>4
<1>6. RowsOK(marked)
  BY <1>3, <1>4, <1>5 DEF RowsOK
<1>7. \A n : Bounded(rows, n) => Bounded(marked, n)
  BY <1>1, <1>2 DEF Bounded
<1> QED  BY <1>6, <1>7 DEF marked

\* qos_outgoing_set_dup of the first entries marks the same messages in memory
\* and in the database.
LEMMA MarkingMirrors ==
  ASSUME NEW rows, RowsOK(rows), NEW queue \in Seq(Entry), Mirrors(queue, rows),
         Distinct(queue), NEW k
  PROVE  /\ \A r \in rows : r.entry.mid \in DupMids(queue, k) => r.entry.type = "Publish"
         /\ SetDup(queue, k) \in Seq(Entry)
         /\ Distinct(SetDup(queue, k))
         /\ MidsOf(SetDup(queue, k)) = MidsOf(queue)
         /\ Mirrors(SetDup(queue, k), Marked(rows, DupMids(queue, k)))
<1> DEFINE mids    == DupMids(queue, k)
           marked  == Marked(rows, mids)
           mark(r) == IF r.entry.mid \in mids THEN [r EXCEPT !.entry.dup = TRUE] ELSE r
           q       == SetDup(queue, k)
           chosen(i) == i <= k /\ queue[i].type = "Publish"
<1>1. /\ DOMAIN queue = 1 .. Len(queue)
      /\ Len(queue) \in Nat
      /\ \A i \in DOMAIN queue : queue[i] \in Entry
  BY LenProperties, ElementOfSeq
<1>2. /\ DOMAIN q = DOMAIN queue
      /\ \A i \in DOMAIN queue :
            q[i] = IF chosen(i) THEN [queue[i] EXCEPT !.dup = TRUE] ELSE queue[i]
  BY DEF SetDup
<1>3. \A i \in DOMAIN queue : q[i] \in Entry /\ q[i].mid = queue[i].mid
  BY <1>1, <1>2, EntryShape DEF Entry, PubRecEntry
<1>4. ASSUME NEW i \in DOMAIN queue, NEW r \in rows, r.entry = queue[i]
      PROVE  mark(r).entry = q[i] /\ mark(r).id = r.id
  <2>1. r.entry.mid \in mids <=> (chosen(i) /\ ~queue[i].dup)
    BY <1>4 DEF DupMids, Distinct
  <2>2. r \in Row
    BY DEF RowsOK
  <2>3. CASE chosen(i) /\ ~queue[i].dup
    <3>1. mark(r) = [r EXCEPT !.entry.dup = TRUE]
      BY <2>1, <2>3
    <3>2. q[i] = [r.entry EXCEPT !.dup = TRUE]
      BY <1>2, <1>4, <2>3
    <3> HIDE DEF mark, q
    <3> QED  BY <2>2, <3>1, <3>2 DEF Row
  <2>4. CASE chosen(i) /\ queue[i].dup
    <3>1. mark(r) = r
      BY <2>1, <2>4
    <3>2. [queue[i] EXCEPT !.dup = TRUE] = queue[i]
      BY <1>1, <2>4 DEF Entry, PubRecEntry
    <3> HIDE DEF mark, q
    <3> QED  BY <3>1, <3>2, <1>2, <1>4, <2>4
  <2>5. CASE ~chosen(i)
    BY <2>1, <2>5, <1>2, <1>4
  <2> QED  BY <2>3, <2>4, <2>5
<1>5. ASSUME NEW r \in rows, r.entry.mid \in mids PROVE r.entry.type = "Publish"
  <2>1. PICK i \in DOMAIN queue : r.entry = queue[i]
    BY DEF Mirrors
  <2>2. PICK j \in DOMAIN queue : queue[j].type = "Publish" /\ r.entry.mid = queue[j].mid
    BY <1>5 DEF DupMids
  <2>3. i = j
    BY <2>1, <2>2 DEF Distinct
  <2> QED  BY <2>1, <2>2, <2>3
<1>6. q \in Seq(Entry)
  <2>1. q = [i \in 1 .. Len(queue) |-> q[i]]
    BY <1>1 DEF SetDup
  <2>2. q \in [1 .. Len(queue) -> Entry]
    <3> HIDE DEF q
    <3> QED  BY <2>1, <1>1, <1>3
  <2> HIDE DEF q
  <2> QED  BY <1>1, <2>2, SeqDef
<1>0. marked = {mark(r) : r \in rows}
  BY DEF Marked
<1> HIDE DEF q, mark, chosen, marked, mids
<1>7. Distinct(q)
  BY <1>2, <1>3 DEF Distinct
<1>8. MidsOf(q) = MidsOf(queue)
  BY <1>2, <1>3 DEF MidsOf
<1>9. Mirrors(q, marked)
  <2>1. ASSUME NEW i \in DOMAIN q PROVE \E x \in marked : x.entry = q[i]
    <3>1. PICK r \in rows : r.entry = queue[i]
      BY <1>2 DEF Mirrors
    <3>2. mark(r) \in marked /\ mark(r).entry = q[i]
      BY <3>1, <1>0, <1>2, <1>4
    <3> QED  BY <3>2
  <2>2. ASSUME NEW x \in marked PROVE \E i \in DOMAIN q : x.entry = q[i]
    <3>1. PICK r \in rows : x = mark(r)
      BY <1>0
    <3>2. PICK i \in DOMAIN queue : r.entry = queue[i]
      BY DEF Mirrors
    <3> QED  BY <3>1, <3>2, <1>2, <1>4
  <2>3. ASSUME NEW x1 \in marked, NEW x2 \in marked, NEW i \in DOMAIN q, NEW j \in DOMAIN q,
               x1.entry = q[i], x2.entry = q[j], i < j
        PROVE  x1.id < x2.id
    <3>1. PICK r1 \in rows : x1 = mark(r1)
      BY <1>0
    <3>2. PICK r2 \in rows : x2 = mark(r2)
      BY <1>0
    <3>3. PICK i1 \in DOMAIN queue : r1.entry = queue[i1]
      BY DEF Mirrors
    <3>4. PICK j1 \in DOMAIN queue : r2.entry = queue[j1]
      BY DEF Mirrors
    <3>5. i1 = i /\ j1 = j
      BY <2>3, <3>1, <3>2, <3>3, <3>4, <1>2, <1>4, <1>7 DEF Distinct
    <3>6. r1.id < r2.id
      BY <2>3, <3>3, <3>4, <3>5 DEF Mirrors
    <3> QED  BY <3>1, <3>2, <3>3, <3>4, <3>6, <1>4
  <2> QED  BY <2>1, <2>2, <2>3 DEF Mirrors
<1> QED  BY <1>5, <1>6, <1>7, <1>8, <1>9 DEF q, marked, mids

-----------------------------------------------------------------------------
(* Loading the queue. *)

\* Ids are bounded and unique, so there are finitely many rows.
LEMMA RowsFinite ==
  ASSUME NEW rows, RowsOK(rows)
  PROVE  IsFiniteSet(rows)
<1> DEFINE f == [r \in rows |-> r.id]
<1>1. f \in [rows -> 1 .. MaxRowId]
  BY DEF RowsOK, Row
<1>2. \A r1, r2 \in rows : f[r1] = f[r2] => r1 = r2
  BY DEF RowsOK
<1> HIDE DEF f
<1>3. f \in Injection(rows, 1 .. MaxRowId)
  BY <1>1, <1>2 DEF Injection, IsInjective
<1>4. IsFiniteSet(1 .. MaxRowId)
  BY FS_Interval, ConstantsOK
<1> QED  BY <1>3, <1>4, FS_Injection DEF ExistsInjection

\* What persistent_qosout_load returns is a queue the rows are in step with.
LEMMA LoadMirrors ==
  ASSUME NEW d, RowsOK(d.qosout), NEW queue \in persistent_qosout_load(d)
  PROVE  queue \in Seq(Entry) /\ Distinct(queue) /\ Mirrors(queue, d.qosout)
<1> DEFINE rows == d.qosout
           n    == Cardinality(rows)
<1>1. n \in Nat
  BY RowsFinite, FS_CardinalityType
<1>2. PICK f \in [1 .. n -> rows] :
         /\ Range(f) = rows
         /\ \A i, j \in DOMAIN f : i < j => f[i].id < f[j].id
         /\ queue = [i \in DOMAIN f |-> f[i].entry]
  BY DEF persistent_qosout_load
<1> HIDE DEF rows, n
<1>3. /\ DOMAIN queue = 1 .. n
      /\ \A i \in 1 .. n : queue[i] = f[i].entry /\ f[i] \in rows
  BY <1>2
<1>4. \A r \in rows : r \in Row /\ r.id \in Nat /\ r.entry \in Entry
  BY RowShape DEF RowsOK, rows
<1>5. queue \in Seq(Entry)
  <2>1. queue \in [1 .. n -> Entry]
    BY <1>2, <1>3, <1>4
  <2> QED  BY <1>1, <2>1, SeqDef
<1>6. \A i, j \in 1 .. n : f[i].entry.mid = f[j].entry.mid => i = j
  <2> SUFFICES ASSUME NEW i \in 1 .. n, NEW j \in 1 .. n, f[i].entry.mid = f[j].entry.mid
               PROVE  i = j
    OBVIOUS
  <2>1. f[i] = f[j]
    BY <1>3 DEF RowsOK, rows
  <2>2. f[i].id \in Nat
    BY <1>3, <1>4
  <2>3. ~(i < j) /\ ~(j < i)
    BY <1>1, <1>2, <2>1, <2>2
  <2> QED  BY <1>1, <2>3
<1>7. Distinct(queue)
  BY <1>3, <1>6 DEF Distinct
<1>8. Mirrors(queue, rows)
  <2>1. \A i \in DOMAIN queue : \E r \in rows : r.entry = queue[i]
    BY <1>3
  <2>2. ASSUME NEW r \in rows PROVE \E i \in DOMAIN queue : r.entry = queue[i]
    <3>1. PICK i \in 1 .. n : f[i] = r
      BY <1>2 DEF Range
    <3> QED  BY <3>1, <1>3
  <2>3. ASSUME NEW r1 \in rows, NEW r2 \in rows,
               NEW i \in DOMAIN queue, NEW j \in DOMAIN queue,
               r1.entry = queue[i], r2.entry = queue[j], i < j
        PROVE  r1.id < r2.id
    <3>1. r1 = f[i] /\ r2 = f[j]
      BY <2>3, <1>3 DEF RowsOK, rows
    <3> QED  BY <2>3, <3>1, <1>2, <1>3
  <2> QED  BY <2>1, <2>2, <2>3 DEF Mirrors
<1> QED  BY <1>5, <1>7, <1>8 DEF rows

\* Conversely, a queue the rows are in step with is what a restart loads.
LEMMA MirrorsLoads ==
  ASSUME NEW d, RowsOK(d.qosout), NEW queue \in Seq(Entry), Distinct(queue),
         Mirrors(queue, d.qosout)
  PROVE  queue \in persistent_qosout_load(d)
<1> DEFINE rows == d.qosout
           n    == Len(queue)
           f    == [i \in 1 .. n |-> CHOOSE r \in rows : r.entry = queue[i]]
<1>1. /\ DOMAIN queue = 1 .. n
      /\ n \in Nat
      /\ queue = [i \in 1 .. n |-> queue[i]]
  BY LenProperties
<1>2. \A i \in 1 .. n : f[i] \in rows /\ f[i].entry = queue[i]
  BY <1>1 DEF Mirrors
<1>3. f = [i \in 1 .. n |-> f[i]]
  OBVIOUS
<1> HIDE DEF rows, n, f
<1>4. f \in [1 .. n -> rows]
  BY <1>2, <1>3
<1>5. \A i, j \in 1 .. n : f[i] = f[j] => i = j
  BY <1>1, <1>2 DEF Distinct
<1>6. \A r \in rows : \E i \in 1 .. n : f[i] = r
  <2> SUFFICES ASSUME NEW r \in rows PROVE \E i \in 1 .. n : f[i] = r
    OBVIOUS
  <2>1. PICK i \in 1 .. n : r.entry = queue[i]
    BY <1>1 DEF Mirrors, rows
  <2> QED  BY <2>1, <1>2 DEF RowsOK, rows
<1>7. Cardinality(rows) = n
  <2>1. f \in Bijection(1 .. n, rows)
    BY <1>4, <1>5, <1>6 DEF Bijection, Injection, Surjection, IsInjective
  <2> QED  BY <2>1, <1>1, FS_CountingElements DEF ExistsBijection
<1>8. Range(f) = rows
  BY <1>4, <1>6 DEF Range
<1>9. \A i, j \in DOMAIN f : i < j => f[i].id < f[j].id
  BY <1>1, <1>2, <1>4 DEF Mirrors, rows
<1>10. queue = [i \in DOMAIN f |-> f[i].entry]
  BY <1>1, <1>2, <1>4
<1> QED  BY <1>4, <1>7, <1>8, <1>9, <1>10 DEF persistent_qosout_load, rows

-----------------------------------------------------------------------------
(* How a step may end. *)

\* A session that runs on.
LEMMA RunsOn ==
  ASSUME NEW s \in SessionType, NEW d, NEW h \in HistType,
         StoreOK(d), Indexed(s), InStep(s, d), Bounded(d.qosout, h.next),
         running' = TRUE, session' = s, db' = d, hist' = h,
         open' \subseteq Conns, out' \in Seq(Envelope)
  PROVE  IndInv'
<1>1. TypeOK'
  BY DEF TypeOK, StoreOK
<1>2. QueueIndexed' /\ StoreOK(db)' /\ InStep(session, db)' /\ running'
  BY DEF QueueIndexed
<1> QED  BY <1>1, <1>2 DEF IndInv, Bounded

\* MQTTSession::new is well-formed.
LEMMA NewSessionOK == NewSession \in SessionType /\ Indexed(NewSession)
<1>1. <<>> \in Seq(Entry) /\ DOMAIN <<>> = {}
  BY EmptySeq
<1>2. 1 \in Mids /\ 0 \in 0 .. MaxGeneration
  BY ConstantsOK DEF Mids
<1> QED  BY <1>1, <1>2 DEF NewSession, SessionType, Indexed, Distinct, MidsOf

\* A session that stops.
LEMMA Stopped ==
  ASSUME NEW d, NEW h \in HistType, StoreOK(d), Bounded(d.qosout, h.next),
         running' = FALSE, session' = NewSession, db' = d, hist' = h,
         open' \subseteq Conns, out' \in Seq(Envelope)
  PROVE  IndInv'
<1>1. TypeOK'
  BY NewSessionOK DEF TypeOK, StoreOK
<1>2. QueueIndexed' /\ StoreOK(db)' /\ ~running' /\ (session = NewSession)'
  BY NewSessionOK DEF QueueIndexed, NewSession
<1> QED  BY <1>1, <1>2 DEF IndInv, Bounded

-----------------------------------------------------------------------------
(* What is sent. *)

\* ConcatProperties without the elements.
LEMMA ConcatLength ==
  ASSUME NEW S, NEW s1 \in Seq(S), NEW s2 \in Seq(S)
  PROVE  s1 \o s2 \in Seq(S) /\ Len(s1 \o s2) = Len(s1) + Len(s2)
BY ConcatProperties

\* A handler may send nothing,
LEMMA NothingSent == <<>> \in Seq(Envelope)
BY EmptySeq

\* or one message to a client or to the router.
LEMMA OneSent ==
  ASSUME NEW c \in Conns \cup {Router}, NEW m \in Message
  PROVE  <<[to |-> c, msg |-> m]>> \in Seq(Envelope)
<1>1. [to |-> c, msg |-> m] \in Envelope
  BY DEF Envelope
<1> QED  BY <1>1

\* send_client_message sends at most one message, to an open connection.
LEMMA SendClientSends ==
  ASSUME open \subseteq Conns, NEW m \in Message
  PROVE  SendClient(m) \in Seq(Envelope)
BY OneSent, NothingSent DEF SendClient, Connected, ToClient

\* The packets the session sends are well-formed: DISCONNECT,
LEMMA DisconnectIsMessage == Disconnect \in Message
BY DEF Disconnect, Message

\* the acknowledgements,
LEMMA ControlIsMessage ==
  ASSUME NEW type \in {"PubAck", "PubRec", "PubRel", "PubComp"}, NEW mid \in Mids
  PROVE  Control(type, mid) \in Message
BY DEF Control, Message

\* and PUBLISH.
LEMMA PublishIsMessage ==
  ASSUME NEW mid \in Mids, NEW qos \in 0 .. 2, NEW dup \in BOOLEAN
  PROVE  PublishMsg(mid, qos, dup) \in Message
BY DEF PublishMsg, Message

\* run_loop ends after an error.
LEMMA StopStops ==
  ASSUME NEW client, NEW opened, NEW d, NEW h \in HistType, NEW sent \in Seq(Envelope),
         opened \subseteq Conns, StoreOK(d), Bounded(d.qosout, h.next),
         Stop(client, opened, d, sent), hist' = h
  PROVE  IndInv'
<1> DEFINE last == IF client \in opened THEN ToClient(client, Disconnect) ELSE <<>>
<1>1. last \in Seq(Envelope)
  BY OneSent, NothingSent, DisconnectIsMessage DEF ToClient
<1>2. out' = sent \o last
  BY DEF Stop
<1> HIDE DEF last
<1>3. out' \in Seq(Envelope)
  BY <1>1, <1>2, ConcatProperties
<1> QED  BY <1>3, Stopped DEF Stop

\* The task panics or the process dies.
LEMMA DieStops ==
  ASSUME NEW d, NEW h \in HistType, NEW sent \in Seq(Envelope),
         open \subseteq Conns, StoreOK(d), Bounded(d.qosout, h.next),
         Die(d, sent), hist' = h
  PROVE  IndInv'
BY Stopped DEF Die

\* Any failing call.
LEMMA HaltStops ==
  ASSUME NEW d, NEW h \in HistType, NEW sent \in Seq(Envelope),
         open \subseteq Conns, StoreOK(d), Bounded(d.qosout, h.next),
         Halt(d, sent), hist' = h
  PROVE  IndInv'
BY StopStops, DieStops DEF Halt

\* A handler that returned Ok or Err(Client).
LEMMA ContinueRuns ==
  ASSUME NEW s \in SessionType, NEW d, NEW h \in HistType, NEW sent \in Seq(Envelope),
         open \subseteq Conns, StoreOK(d), Indexed(s), InStep(s, d),
         Bounded(d.qosout, h.next), Continue(s, d, sent), hist' = h
  PROVE  IndInv'
BY RunsOn DEF Continue

-----------------------------------------------------------------------------
(* The actions, one lemma each. *)

\* The parts of the invariant, for a session in its loop.
LEMMA Running ==
  ASSUME IndInv, running
  PROVE  /\ session \in SessionType /\ Indexed(session) /\ InStep(session, db)
         /\ db \in DbType /\ StoreOK(db) /\ db.exists /\ RowsOK(db.qosout)
         /\ hist \in HistType /\ Bounded(db.qosout, hist.next)
         /\ open \subseteq Conns
         /\ Queue \in Seq(Entry) /\ Distinct(Queue) /\ Mirrors(Queue, db.qosout)
<1>1. session \in SessionType /\ Indexed(session) /\ InStep(session, db)
      /\ StoreOK(db) /\ hist \in HistType /\ Bounded(db.qosout, hist.next)
      /\ open \subseteq Conns
  BY DEF IndInv, TypeOK, QueueIndexed, Bounded
<1>2. session.qos_outgoing_messages \in Seq(Entry)
  BY <1>1 DEF SessionType
<1> QED  BY <1>1, <1>2 DEF StoreOK, Indexed, InStep, Queue

\* Any step that leaves the rows and the queue alone, whatever else it changes
\* in the session's client and subscriptions.
LEMMA SameQueue ==
  ASSUME IndInv, running, NEW s \in SessionType,
         s.generation = session.generation, s.next_message_id = session.next_message_id,
         s.qos_incoming = session.qos_incoming, s.qos_outgoing = session.qos_outgoing,
         s.qos_outgoing_messages = session.qos_outgoing_messages
  PROVE  Indexed(s) /\ InStep(s, db)
BY Running DEF Indexed, InStep

\* init_persist_session: the loaded session is in step with the rows.
LEMMA StartOK ==
  ASSUME IndInv, Start
  PROVE  IndInv'
<1> DEFINE d == [db EXCEPT !.exists = TRUE]
<1>1. PICK subs \in SUBSET Topics, queue \in persistent_qosout_load(db) :
         Continue(IF db.exists THEN LoadSession(subs, queue) ELSE NewSession, d, <<>>)
  BY DEF Start
<1>2. /\ StoreOK(db) /\ db \in DbType /\ RowsOK(db.qosout) /\ hist \in HistType
      /\ Bounded(db.qosout, hist.next) /\ open \subseteq Conns
  BY DEF IndInv, TypeOK, StoreOK, Bounded
<1>3. /\ d \in DbType /\ d.exists /\ d.qosout = db.qosout /\ d.qosin = db.qosin
      /\ d.generation = db.generation /\ d.next_mid = db.next_mid
  BY <1>2 DEF DbType
<1> HIDE DEF d
<1>4. StoreOK(d) /\ Bounded(d.qosout, hist.next)
  BY <1>2, <1>3 DEF StoreOK
<1>5. hist' = hist
  BY DEF Start
<1>6. CASE db.exists
  <2> DEFINE s == LoadSession(subs, queue)
  <2>1. queue \in Seq(Entry) /\ Distinct(queue) /\ Mirrors(queue, db.qosout)
    BY <1>2, LoadMirrors
  <2>2. MidsOf(queue) \subseteq Mids
    BY <2>1, LenProperties, ElementOfSeq, EntryShape DEF MidsOf
  <2>3. s \in SessionType
    BY <1>2, <2>1, <2>2 DEF LoadSession, SessionType, DbType
  <2>4. Indexed(s)
    BY <2>1 DEF Indexed, LoadSession
  <2>5. InStep(s, d)
    BY <2>1, <1>3 DEF InStep, LoadSession
  <2> HIDE DEF s
  <2>6. Continue(s, d, <<>>)
    BY <1>1, <1>6 DEF s
  <2> QED  BY <1>2, <1>4, <1>5, <2>3, <2>4, <2>5, <2>6, NothingSent, ContinueRuns
<1>7. CASE ~db.exists
  <2>1. db = NewDb
    BY <1>2, <1>7 DEF StoreOK
  <2>2. Mirrors(<<>>, {})
    BY DEF Mirrors
  <2>3. InStep(NewSession, d)
    BY <1>3, <2>1, <2>2 DEF InStep, NewDb, NewSession
  <2>4. Continue(NewSession, d, <<>>)
    BY <1>1, <1>7
  <2> QED  BY <1>2, <1>4, <1>5, <2>3, <2>4, NewSessionOK, NothingSent, ContinueRuns
<1> QED  BY <1>6, <1>7

\* A start that fails leaves at most the inserted row.
LEMMA StartFailsOK ==
  ASSUME IndInv, StartFails
  PROVE  IndInv'
<1> DEFINE d == [db EXCEPT !.exists = TRUE]
<1>1. /\ StoreOK(db) /\ db \in DbType /\ RowsOK(db.qosout) /\ hist \in HistType
      /\ Bounded(db.qosout, hist.next) /\ open \subseteq Conns
      /\ ~running /\ session = NewSession /\ running \in BOOLEAN
  BY DEF IndInv, TypeOK, StoreOK, Bounded, StartFails
<1>2. d \in DbType /\ d.exists /\ d.qosout = db.qosout
  BY <1>1 DEF DbType
<1> HIDE DEF d
<1>3. StoreOK(d) /\ Bounded(d.qosout, hist.next)
  BY <1>1, <1>2 DEF StoreOK
<1>4. /\ db' \in {db, d} /\ running' = FALSE /\ session' = NewSession
      /\ out' = <<>> /\ open' = open /\ hist' = hist
  BY <1>1 DEF StartFails, d
<1> QED  BY <1>1, <1>3, <1>4, NothingSent, Stopped

\* A message for another generation changes nothing.
LEMMA InternalPublishStaleOK ==
  ASSUME IndInv, NEW generation, InternalPublishStale(generation)
  PROVE  IndInv'
BY Running, NothingSent, ContinueRuns DEF InternalPublishStale

\* Sending to the client may only reset self.client.
LEMMA ClientSentOK ==
  ASSUME IndInv
  PROVE  [session EXCEPT !.client = ClientAfterSend] \in SessionType
BY DEF IndInv, TypeOK, SessionType, ClientAfterSend

\* QoS 0 is not queued.
LEMMA InternalPublishQos0OK ==
  ASSUME IndInv, InternalPublishQos0
  PROVE  IndInv'
<1> DEFINE s == [session EXCEPT !.client = ClientAfterSend]
           m == PublishMsg(0, 0, FALSE)
<1>1. running /\ Continue(s, db, SendClient(m)) /\ hist' = hist
  BY DEF InternalPublishQos0
<1>2. m \in Message
  <2>1. 0 \in Mids /\ 0 \in 0 .. 2
    BY ConstantsOK DEF Mids
  <2> QED  BY <2>1, PublishIsMessage
<1>3. SendClient(m) \in Seq(Envelope)
  BY <1>1, <1>2, Running, SendClientSends
<1>4. s \in SessionType
  BY ClientSentOK
<1>5. Indexed(s) /\ InStep(s, db)
  <2>1. /\ s.generation = session.generation /\ s.next_message_id = session.next_message_id
        /\ s.qos_incoming = session.qos_incoming /\ s.qos_outgoing = session.qos_outgoing
        /\ s.qos_outgoing_messages = session.qos_outgoing_messages
    BY <1>1, Running DEF SessionType
  <2> HIDE DEF s
  <2> QED  BY <1>1, <1>4, <2>1, SameQueue
<1> HIDE DEF s, m
<1> QED  BY <1>1, <1>3, <1>4, <1>5, Running, ContinueRuns

\* The process dies between two messages.
LEMMA CrashOK ==
  ASSUME IndInv, Crash
  PROVE  IndInv'
<1>1. /\ StoreOK(db) /\ hist \in HistType /\ Bounded(db.qosout, hist.next)
      /\ open \subseteq Conns
  BY DEF IndInv, TypeOK, Bounded
<1> QED  BY <1>1, NothingSent, DieStops DEF Crash

\* A connection opens or closes.
LEMMA ConnectionOK ==
  ASSUME IndInv, NEW c \in Conns, ClientOpens(c) \/ ClientCloses(c)
  PROVE  IndInv'
<1>1. /\ open' \subseteq Conns /\ out' \in Seq(Envelope)
      /\ UNCHANGED <<running, session, db, hist>>
  BY NothingSent DEF ClientOpens, ClientCloses, IndInv, TypeOK
<1> QED  BY <1>1 DEF IndInv, TypeOK, QueueIndexed

\* An acknowledgement finds the entry it is about.
LEMMA PositionFinds ==
  ASSUME IndInv, running, NEW mid, Queued(mid)
  PROVE  Position(mid) \in DOMAIN Queue /\ Queue[Position(mid)].mid = mid
<1>1. PICK i \in DOMAIN Queue : Queue[i].mid = mid
  BY DEF Queued
<1>2. \A j \in DOMAIN Queue : Queue[j].mid = mid => i <= j
  BY <1>1, Running, LenProperties DEF Distinct
<1> QED  BY <1>1, <1>2 DEF Position

\* The row and the entry of an identifier go together.
LEMMA DeletedOK ==
  ASSUME IndInv, running, NEW mid, Queued(mid)
  PROVE  LET d == persist_qos_outgoing_delete(db, mid)
             q == Without(Queue, Position(mid))
         IN  /\ StoreOK(d) /\ d.exists
             /\ d = [db EXCEPT !.qosout = d.qosout]
             /\ d.qosout \subseteq db.qosout
             /\ Mirrors(q, d.qosout) /\ Distinct(q) /\ q \in Seq(Entry)
             /\ MidsOf(q) = session.qos_outgoing \ {mid}
<1> DEFINE d    == persist_qos_outgoing_delete(db, mid)
           q    == Without(Queue, Position(mid))
           left == {r \in db.qosout : r.entry.mid # mid}
<1>1. Position(mid) \in DOMAIN Queue /\ Queue[Position(mid)].mid = mid
  BY PositionFinds
<1>2. /\ RowsOK(left) /\ Mirrors(q, left) /\ Distinct(q) /\ q \in Seq(Entry)
      /\ MidsOf(q) = MidsOf(Queue) \ {mid}
  <2>1. left = {r \in db.qosout : r.entry.mid # Queue[Position(mid)].mid}
    BY <1>1
  <2> HIDE DEF left
  <2>2. /\ RowsOK(left) /\ Mirrors(q, left) /\ Distinct(q) /\ q \in Seq(Entry)
        /\ MidsOf(q) = MidsOf(Queue) \ {Queue[Position(mid)].mid}
    <3>1. /\ RowsOK(db.qosout) /\ Queue \in Seq(Entry)
          /\ Mirrors(Queue, db.qosout) /\ Distinct(Queue)
      BY Running
    <3> QED  BY <1>1, <2>1, <3>1, DeleteRemoves
  <2> QED  BY <1>1, <2>2
<1>3. d = [db EXCEPT !.qosout = left] /\ d.qosout = left /\ d.exists /\ d \in DbType
  BY <1>2, Running DEF persist_qos_outgoing_delete, DbType, RowsOK
<1>4. session.qos_outgoing = MidsOf(Queue)
  BY Running DEF Indexed, Queue
<1>5. left \subseteq db.qosout
  OBVIOUS
<1> HIDE DEF d, q, left
<1>6. StoreOK(d)
  BY <1>2, <1>3 DEF StoreOK
<1> QED  BY <1>2, <1>3, <1>4, <1>5, <1>6 DEF d, q

\* qos_outgoing_remove.
LEMMA RemoveOK ==
  ASSUME IndInv, running, NEW mid, qos_outgoing_remove(mid),
         NEW h \in HistType, h.next = hist.next, hist' = h
  PROVE  IndInv'
<1>1. CASE Continue(session, db, <<>>)
  BY <1>1, Running, NothingSent, ContinueRuns
<1>2. CASE Halt(db, <<>>)
  BY <1>2, Running, NothingSent, HaltStops
<1>3. CASE /\ Queued(mid)
           /\ Continue([session EXCEPT
                      !.qos_outgoing = @ \ {mid},
                      !.qos_outgoing_messages = Without(@, Position(mid))],
                   persist_qos_outgoing_delete(db, mid), <<>>)
  <2> DEFINE q == Without(Queue, Position(mid))
             d == persist_qos_outgoing_delete(db, mid)
             s == [session EXCEPT !.qos_outgoing = @ \ {mid}, !.qos_outgoing_messages = q]
  <2>1. /\ StoreOK(d) /\ d.exists /\ d = [db EXCEPT !.qosout = d.qosout]
        /\ d.qosout \subseteq db.qosout
        /\ Mirrors(q, d.qosout) /\ Distinct(q) /\ q \in Seq(Entry)
        /\ MidsOf(q) = session.qos_outgoing \ {mid}
    BY <1>3, DeletedOK
  <2>2. Continue(s, d, <<>>)
    BY <1>3 DEF Queue
  <2> HIDE DEF q, d
  <2>3. /\ s \in SessionType
        /\ s.qos_outgoing = session.qos_outgoing \ {mid} /\ s.qos_outgoing_messages = q
        /\ s.generation = session.generation /\ s.next_message_id = session.next_message_id
        /\ s.qos_incoming = session.qos_incoming
    BY <2>1, Running DEF SessionType
  <2> HIDE DEF s
  <2>4. Indexed(s)
    BY <2>1, <2>3 DEF Indexed
  <2>5. /\ d.generation = db.generation /\ d.next_mid = db.next_mid /\ d.qosin = db.qosin
    BY <2>1, Running DEF DbType
  <2>6. InStep(s, d)
    BY <2>1, <2>3, <2>5, Running DEF InStep
  <2>7. Bounded(d.qosout, h.next)
    BY <2>1, Running DEF Bounded
  <2> QED  BY <2>1, <2>2, <2>3, <2>4, <2>6, <2>7, Running, NothingSent, ContinueRuns
<1> QED  BY <1>1, <1>2, <1>3 DEF qos_outgoing_remove

\* The history is typed whatever is answered.
LEMMA AnsweredOK ==
  ASSUME hist \in HistType, NEW packet, NEW mid
  PROVE  Answered(packet, mid) \in HistType /\ Answered(packet, mid).next = hist.next
BY DEF Answered, HistType

\* PUBACK and PUBCOMP.
LEMMA PubackOK ==
  ASSUME IndInv, NEW mid, Puback(mid) \/ Pubcomp(mid)
  PROVE  IndInv'
<1>1. running /\ qos_outgoing_remove(mid)
      /\ \E packet \in {"PubAck", "PubComp"} : hist' = Answered(packet, mid)
  BY DEF Puback, Pubcomp, ClientMayAnswer
<1> QED  BY <1>1, Running, AnsweredOK, RemoveOK

\* A new row and a new entry at the end of the queue.
LEMMA StoredOK ==
  ASSUME NEW d, StoreOK(d), d.exists, NEW q \in Seq(Entry), Mirrors(q, d.qosout),
         Distinct(q), NEW e \in Entry, NextRowId(d.qosout) <= MaxRowId,
         e.mid \notin MidsOf(q), e.type = "Publish" => Bounded(d.qosout, e.msg),
         NEW d2, d2 = persist_qos_outgoing_store(d, e)
  PROVE  /\ StoreOK(d2) /\ d2.exists /\ d2.generation = d.generation
         /\ d2.next_mid = d.next_mid /\ d2.qosin = d.qosin
         /\ d2.qosout = d.qosout \cup {[id |-> NextRowId(d.qosout), entry |-> e]}
         /\ Mirrors(Append(q, e), d2.qosout) /\ Distinct(Append(q, e))
         /\ Append(q, e) \in Seq(Entry)
         /\ MidsOf(Append(q, e)) = MidsOf(q) \cup {e.mid}
         /\ \A n : Bounded(d.qosout, n) /\ e.msg < n => Bounded(d2.qosout, n)
<1> DEFINE new == d.qosout \cup {[id |-> NextRowId(d.qosout), entry |-> e]}
<1>1. RowsOK(d.qosout) /\ d \in DbType
  BY DEF StoreOK
<1>2. \A i \in DOMAIN q : q[i].mid # e.mid
  BY DEF MidsOf
<1>3. e.type = "Publish" => \A r \in d.qosout : r.entry.msg < e.msg
  BY DEF Bounded
<1>4. \A n : Bounded(d.qosout, n) /\ e.msg < n => Bounded(new, n)
  BY DEF Bounded
<1>5. d2 = [d EXCEPT !.qosout = new]
  BY DEF persist_qos_outgoing_store
<1>6. new = d.qosout \cup {[id |-> NextRowId(d.qosout), entry |-> e]}
  OBVIOUS
<1> HIDE DEF new
<1>7. /\ RowsOK(new) /\ Mirrors(Append(q, e), new) /\ Distinct(Append(q, e))
      /\ Append(q, e) \in Seq(Entry) /\ MidsOf(Append(q, e)) = MidsOf(q) \cup {e.mid}
  BY <1>1, <1>2, <1>3, <1>6, StoreAppends
<1>8. /\ d2.exists /\ d2.generation = d.generation /\ d2.next_mid = d.next_mid
      /\ d2.qosin = d.qosin /\ d2.qosout = new /\ d2 \in DbType
  BY <1>1, <1>5, <1>7 DEF DbType, RowsOK
<1>9. StoreOK(d2)
  BY <1>7, <1>8 DEF StoreOK
<1> QED  BY <1>4, <1>6, <1>7, <1>8, <1>9

\* What Indexed and InStep ask of the fields of a session.
LEMMA Rebuilt ==
  ASSUME NEW s, NEW d, d.exists, s.qos_outgoing = MidsOf(s.qos_outgoing_messages),
         Distinct(s.qos_outgoing_messages), Mirrors(s.qos_outgoing_messages, d.qosout),
         d.generation = s.generation, d.next_mid = s.next_message_id,
         d.qosin = s.qos_incoming
  PROVE  Indexed(s) /\ InStep(s, d)
BY DEF Indexed, InStep

\* The entry that replaces a Publish.
LEMMA PubRecEntryIsEntry ==
  ASSUME NEW mid \in Mids
  PROVE  /\ PubRecEntry(mid) \in Entry /\ PubRecEntry(mid).mid = mid
         /\ PubRecEntry(mid).type = "PubRec" /\ PubRecEntry(mid).msg = 0
BY DEF PubRecEntry, Entry, NoMsg

\* PUBREC: the row and the entry are replaced, or added when there is none.
LEMMA PubrecOK ==
  ASSUME IndInv, NEW mid \in Mids, Pubrec(mid)
  PROVE  IndInv'
<1> DEFINE isPublish == Queued(mid) /\ Queue[Position(mid)].type = "Publish"
           isPubRec  == Queued(mid) /\ ~isPublish
           e  == PubRecEntry(mid)
           d1 == IF isPublish THEN persist_qos_outgoing_delete(db, mid) ELSE db
           d2 == IF isPubRec THEN db ELSE persist_qos_outgoing_store(d1, e)
           q1 == IF isPublish THEN Without(Queue, Position(mid)) ELSE Queue
           q2 == IF isPubRec THEN Queue ELSE Append(q1, e)
           s  == [session EXCEPT !.client = ClientAfterSend,
                                 !.qos_outgoing = @ \cup {mid},
                                 !.qos_outgoing_messages = q2]
           answered == Answered("PubRec", mid)
           sending  == SendClient(Control("PubRel", mid))
<1>1. /\ running /\ NextRowId(db.qosout) <= MaxRowId
      /\ \/ (Halt(db, <<>>) \/ (isPublish /\ Halt(d1, <<>>))) /\ hist' = answered
         \/ /\ Continue(s, d2, sending)
            /\ hist' = IF Connected
                       THEN [answered EXCEPT !.wire = @ \cup Owed({<<"PubComp", mid>>})]
                       ELSE answered
  BY DEF Pubrec, ClientMayAnswer
<1>2. /\ session \in SessionType /\ db \in DbType /\ StoreOK(db) /\ db.exists
      /\ RowsOK(db.qosout) /\ hist \in HistType /\ Bounded(db.qosout, hist.next)
      /\ open \subseteq Conns /\ Queue \in Seq(Entry) /\ Distinct(Queue)
      /\ Mirrors(Queue, db.qosout) /\ session.qos_outgoing = MidsOf(Queue)
      /\ db.generation = session.generation /\ db.next_mid = session.next_message_id
      /\ db.qosin = session.qos_incoming
  BY <1>1, Running DEF Indexed, InStep, Queue
<1>3. answered \in HistType /\ answered.next = hist.next
  BY <1>2, AnsweredOK
<1>4. \A h \in {answered, [answered EXCEPT !.wire = @ \cup Owed({<<"PubComp", mid>>})]} :
         h \in HistType /\ h.next = hist.next
  <2>1. Owed({<<"PubComp", mid>>}) \subseteq {"PubAck", "PubRec", "PubComp"} \X Mids
    BY DEF Owed
  <2> HIDE DEF answered
  <2> QED  BY <1>3, <2>1 DEF HistType
<1>5. sending \in Seq(Envelope)
  BY <1>2, ControlIsMessage, SendClientSends
<1> HIDE DEF answered, sending
<1>6. /\ StoreOK(d1) /\ d1.exists /\ d1.qosout \subseteq db.qosout
      /\ d1.generation = db.generation /\ d1.next_mid = db.next_mid /\ d1.qosin = db.qosin
      /\ Mirrors(q1, d1.qosout) /\ Distinct(q1) /\ q1 \in Seq(Entry)
      /\ isPublish => MidsOf(q1) = session.qos_outgoing \ {mid}
      /\ ~isPublish => q1 = Queue
  <2>1. CASE isPublish
    <3> DEFINE del == persist_qos_outgoing_delete(db, mid)
               rem == Without(Queue, Position(mid))
    <3>1. d1 = del /\ q1 = rem
      BY <2>1
    <3>2. /\ StoreOK(del) /\ del.exists /\ del = [db EXCEPT !.qosout = del.qosout]
          /\ del.qosout \subseteq db.qosout
          /\ Mirrors(rem, del.qosout) /\ Distinct(rem) /\ rem \in Seq(Entry)
          /\ MidsOf(rem) = session.qos_outgoing \ {mid}
      BY <1>1, <2>1, DeletedOK
    <3> HIDE DEF del, rem, d1, q1
    <3>3. del.generation = db.generation /\ del.next_mid = db.next_mid /\ del.qosin = db.qosin
      BY <1>2, <3>2 DEF DbType
    <3> QED  BY <2>1, <3>1, <3>2, <3>3
  <2>2. CASE ~isPublish
    BY <1>2, <2>2
  <2> QED  BY <2>1, <2>2
<1>7. Bounded(d1.qosout, hist.next)
  <2> HIDE DEF d1
  <2> QED  BY <1>2, <1>6 DEF Bounded
<1>8. CASE Halt(db, <<>>) /\ hist' = answered
  BY <1>2, <1>3, <1>8, NothingSent, HaltStops
<1>9. CASE Halt(d1, <<>>) /\ hist' = answered
  <2> HIDE DEF d1
  <2> QED  BY <1>2, <1>3, <1>6, <1>7, <1>9, NothingSent, HaltStops
<1>10. CASE Continue(s, d2, sending) /\ hist' \in {answered,
                  [answered EXCEPT !.wire = @ \cup Owed({<<"PubComp", mid>>})]}
  <2>1. /\ StoreOK(d2) /\ d2.exists /\ d2.generation = db.generation
        /\ d2.next_mid = db.next_mid /\ d2.qosin = db.qosin
        /\ Mirrors(q2, d2.qosout) /\ Distinct(q2) /\ q2 \in Seq(Entry)
        /\ MidsOf(q2) = session.qos_outgoing \cup {mid}
        /\ Bounded(d2.qosout, hist.next)
    <3>1. CASE isPubRec
      <4>1. d2 = db /\ q2 = Queue /\ mid \in session.qos_outgoing
        BY <3>1 DEF Queued
      <4> HIDE DEF d2, q2
      <4> QED  BY <1>2, <4>1
    <3>2. CASE ~isPubRec
      <4>1. d2 = persist_qos_outgoing_store(d1, e) /\ q2 = Append(q1, e)
        BY <3>2
      <4>2. mid \notin MidsOf(q1)
        <5>1. CASE isPublish
          BY <1>6, <5>1
        <5>2. CASE ~Queued(mid)
          <6>1. mid \notin MidsOf(Queue)
            BY <1>2, <5>2 DEF Queued, MidsOf
          <6> QED  BY <1>6, <5>2, <6>1
        <5> QED  BY <3>2, <5>1, <5>2
      <4>3. e \in Entry /\ e.mid = mid /\ e.type # "Publish" /\ e.msg = 0
        BY PubRecEntryIsEntry
      <4>4. MidsOf(q1) \cup {mid} = session.qos_outgoing \cup {mid}
        <5>1. CASE isPublish
          BY <1>6, <5>1
        <5>2. CASE ~isPublish
          BY <1>2, <1>6, <5>2
        <5> QED  BY <5>1, <5>2
      <4>5. NextRowId(d1.qosout) <= MaxRowId
        <5> HIDE DEF d1
        <5>1. NextRowId(d1.qosout) <= NextRowId(db.qosout)
          BY <1>2, <1>6, NextRowIdMonotone DEF RowsOK
        <5>2. NextRowId(d1.qosout) \in Nat /\ NextRowId(db.qosout) \in Nat
          BY <1>2, <1>6, NextRowIdIsNew DEF RowsOK
        <5> QED  BY <1>1, <5>1, <5>2, ConstantsOK
      <4>6. 0 < hist.next
        BY <1>2, ConstantsOK DEF HistType
      <4> HIDE DEF d1, q1, d2, q2, e
      <4>7. /\ StoreOK(d2) /\ d2.exists /\ d2.generation = d1.generation
            /\ d2.next_mid = d1.next_mid /\ d2.qosin = d1.qosin
            /\ Mirrors(Append(q1, e), d2.qosout) /\ Distinct(Append(q1, e))
            /\ Append(q1, e) \in Seq(Entry)
            /\ MidsOf(Append(q1, e)) = MidsOf(q1) \cup {e.mid}
            /\ \A n : Bounded(d1.qosout, n) /\ e.msg < n => Bounded(d2.qosout, n)
        BY <1>6, <4>1, <4>2, <4>3, <4>5, StoredOK
      <4> QED  BY <1>6, <1>7, <4>1, <4>3, <4>4, <4>6, <4>7
    <3> QED  BY <3>1, <3>2
  <2> HIDE DEF d2, q2
  <2>2. /\ s \in SessionType
        /\ s.qos_outgoing = session.qos_outgoing \cup {mid} /\ s.qos_outgoing_messages = q2
        /\ s.generation = session.generation /\ s.next_message_id = session.next_message_id
        /\ s.qos_incoming = session.qos_incoming
    BY <1>2, <2>1 DEF SessionType, ClientAfterSend
  <2> HIDE DEF s
  <2>3. Indexed(s) /\ InStep(s, d2)
    BY <1>2, <2>1, <2>2, Rebuilt
  <2> QED  BY <1>2, <1>4, <1>5, <1>10, <2>1, <2>2, <2>3, ContinueRuns
<1> QED
  <2> HIDE DEF d1, d2, s
  <2> QED  BY <1>1, <1>8, <1>9, <1>10

\* What a handler starts from.
LEMMA Loop ==
  ASSUME IndInv, running
  PROVE  /\ session \in SessionType /\ db \in DbType /\ StoreOK(db) /\ db.exists
         /\ RowsOK(db.qosout) /\ hist \in HistType /\ Bounded(db.qosout, hist.next)
         /\ open \subseteq Conns /\ Queue \in Seq(Entry) /\ Distinct(Queue)
         /\ Mirrors(Queue, db.qosout) /\ session.qos_outgoing = MidsOf(Queue)
         /\ db.generation = session.generation /\ db.next_mid = session.next_message_id
         /\ db.qosin = session.qos_incoming
BY Running DEF Indexed, InStep, Queue

\* persist_update_session_mid.
LEMMA MidSaved ==
  ASSUME NEW d, StoreOK(d), d.exists, NEW mid \in Mids,
         NEW d1, d1 = persist_update_session_mid(d, mid)
  PROVE  /\ StoreOK(d1) /\ d1.exists /\ d1.generation = d.generation
         /\ d1.next_mid = mid /\ d1.qosin = d.qosin /\ d1.qosout = d.qosout
<1>1. /\ d1 \in DbType /\ d1.exists /\ d1.generation = d.generation
      /\ d1.next_mid = mid /\ d1.qosin = d.qosin /\ d1.qosout = d.qosout
  BY DEF StoreOK, persist_update_session_mid, DbType
<1> QED  BY <1>1 DEF StoreOK

\* A routed QoS 1 or 2 message, stored and, when a client is there, sent.
LEMMA InternalPublishOK ==
  ASSUME IndInv, NEW qos \in {1, 2}, InternalPublish(qos)
  PROVE  IndInv'
<1> DEFINE mid     == session.next_message_id
           advance == NextMid(mid)
           entry   == PublishEntry(mid, qos, hist.next)
           d1      == persist_update_session_mid(db, advance)
           d2      == persist_qos_outgoing_store(d1, entry)
           d3      == persist_qos_outgoing_update_dup(d2, {mid})
           queue   == Append(Queue, [entry EXCEPT !.dup = Connected])
           sending == SendClient(PublishMsg(mid, qos, FALSE))
           stored  == [hist EXCEPT !.next = @ + 1, !.unseen = @ \cup {hist.next}]
           shown   == [hist EXCEPT !.next = @ + 1,
                                   !.wire = @ \cup Owed({<<Answer(qos), mid>>})]
           s       == [session EXCEPT
                         !.client = ClientAfterSend,
                         !.next_message_id = advance,
                         !.qos_outgoing = @ \cup {mid},
                         !.qos_outgoing_messages = queue]
           d4      == IF Connected THEN d3 ELSE d2
           dup     == [entry EXCEPT !.dup = TRUE]
<1>1. /\ running
      /\ hist.next \in Msgs
      /\ NextRowId(db.qosout) <= MaxRowId
      /\ \/ Halt(db, <<>>) /\ hist' = hist
         \/ Halt(d1, <<>>) /\ hist' = hist
         \/ /\ mid \notin session.qos_outgoing
            /\ Halt(d2, sending) \/ Halt(d3, sending)
            /\ hist' = shown
         \/ /\ mid \notin session.qos_outgoing
            /\ Continue(s, d4, sending)
            /\ hist' = IF Connected THEN shown ELSE stored
  BY DEF InternalPublish
<1>2. /\ session \in SessionType /\ db \in DbType /\ StoreOK(db) /\ db.exists
      /\ RowsOK(db.qosout) /\ hist \in HistType /\ Bounded(db.qosout, hist.next)
      /\ open \subseteq Conns /\ Queue \in Seq(Entry) /\ Distinct(Queue)
      /\ Mirrors(Queue, db.qosout) /\ session.qos_outgoing = MidsOf(Queue)
      /\ db.generation = session.generation /\ db.next_mid = session.next_message_id
      /\ db.qosin = session.qos_incoming
  BY <1>1, Loop
<1>3. mid \in Mids /\ advance \in Mids
  <2>1. mid \in Mids
    BY <1>2 DEF SessionType
  <2> QED  BY <2>1, ConstantsOK DEF NextMid, Mids
<1>4. /\ shown \in HistType /\ shown.next = hist.next + 1
      /\ stored \in HistType /\ stored.next = hist.next + 1
      /\ hist.next \in Nat
  <2>1. Owed({<<Answer(qos), mid>>}) \subseteq {"PubAck", "PubRec", "PubComp"} \X Mids
    BY <1>3 DEF Owed, Answer
  <2>2. hist.next + 1 \in 1 .. (MaxMsgs + 1) /\ hist.next \in Nat
    BY <1>1, ConstantsOK DEF Msgs
  <2> HIDE DEF mid
  <2> QED  BY <1>1, <1>2, <2>1, <2>2 DEF HistType
<1>5. sending \in Seq(Envelope)
  <2>1. PublishMsg(mid, qos, FALSE) \in Message
    <3>1. qos \in 0 .. 2
      OBVIOUS
    <3> QED  BY <1>3, <3>1, PublishIsMessage
  <2> QED  BY <1>2, <2>1, SendClientSends
<1>6. /\ StoreOK(d1) /\ d1.exists /\ d1.generation = db.generation
      /\ d1.next_mid = advance /\ d1.qosin = db.qosin /\ d1.qosout = db.qosout
  <2> HIDE DEF advance, d1
  <2> QED  BY <1>2, <1>3, MidSaved DEF d1
<1>7. /\ entry \in Entry /\ entry.mid = mid /\ entry.type = "Publish"
      /\ entry.msg = hist.next
      /\ dup \in Entry /\ dup.mid = mid /\ dup.type = "Publish" /\ dup.msg = hist.next
      /\ [entry EXCEPT !.dup = Connected] = IF Connected THEN dup ELSE entry
  <2>1. entry \in [type : {"Publish"}, mid : Mids, qos : {1, 2}, dup : BOOLEAN, msg : Msgs]
    BY <1>1, <1>3 DEF PublishEntry
  <2>2. entry \in Entry
    BY <2>1 DEF Entry
  <2>3. /\ entry.mid = mid /\ entry.type = "Publish" /\ entry.msg = hist.next
        /\ entry.dup = FALSE
    BY DEF PublishEntry
  <2> HIDE DEF entry
  <2>4. [entry EXCEPT !.dup = FALSE] = entry
    BY <2>1, <2>3
  <2>5. Connected \in BOOLEAN
    BY DEF Connected
  <2>6. dup \in Entry /\ dup.mid = mid /\ dup.type = "Publish" /\ dup.msg = hist.next
    BY <2>1, <2>2, <2>3, EntryShape
  <2>7. [entry EXCEPT !.dup = Connected] = IF Connected THEN dup ELSE entry
    BY <2>4, <2>5
  <2> QED  BY <2>2, <2>3, <2>6, <2>7
<1>8. CASE Halt(db, <<>>) /\ hist' = hist
  BY <1>2, <1>8, NothingSent, HaltStops
<1>9. CASE Halt(d1, <<>>) /\ hist' = hist
  <2> HIDE DEF d1
  <2> QED  BY <1>2, <1>6, <1>9, NothingSent, HaltStops
<1>10. ASSUME mid \notin session.qos_outgoing, NEW e \in {entry, dup},
              NEW d, d = persist_qos_outgoing_store(d1, e)
       PROVE  /\ StoreOK(d) /\ d.exists /\ d.generation = db.generation
              /\ d.next_mid = advance /\ d.qosin = db.qosin
              /\ d.qosout = db.qosout \cup {[id |-> NextRowId(db.qosout), entry |-> e]}
              /\ Mirrors(Append(Queue, e), d.qosout) /\ Distinct(Append(Queue, e))
              /\ Append(Queue, e) \in Seq(Entry)
              /\ MidsOf(Append(Queue, e)) = session.qos_outgoing \cup {mid}
              /\ Bounded(d.qosout, hist.next + 1)
  <2>1. e \in Entry /\ e.mid = mid /\ e.type = "Publish" /\ e.msg = hist.next
    BY <1>7
  <2>2. Bounded(db.qosout, hist.next + 1)
    <3>1. \A r \in db.qosout : r.entry.msg \in Nat
      BY <1>2, RowShape, EntryShape DEF RowsOK
    <3> QED  BY <1>2, <1>4, <3>1 DEF Bounded
  <2> HIDE DEF d1, mid, advance, entry, dup
  <2>3. NextRowId(d1.qosout) <= MaxRowId /\ Mirrors(Queue, d1.qosout)
        /\ e.mid \notin MidsOf(Queue) /\ Bounded(d1.qosout, e.msg)
    BY <1>1, <1>2, <1>6, <1>10, <2>1
  <2>4. /\ StoreOK(d) /\ d.exists /\ d.generation = d1.generation
        /\ d.next_mid = d1.next_mid /\ d.qosin = d1.qosin
        /\ d.qosout = d1.qosout \cup {[id |-> NextRowId(d1.qosout), entry |-> e]}
        /\ Mirrors(Append(Queue, e), d.qosout) /\ Distinct(Append(Queue, e))
        /\ Append(Queue, e) \in Seq(Entry)
        /\ MidsOf(Append(Queue, e)) = MidsOf(Queue) \cup {e.mid}
        /\ \A n : Bounded(d1.qosout, n) /\ e.msg < n => Bounded(d.qosout, n)
    BY <1>2, <1>6, <1>10, <2>1, <2>3, StoredOK
  <2>5. Bounded(d.qosout, hist.next + 1)
    <3>1. Bounded(d1.qosout, hist.next + 1)
      BY <1>6, <2>2
    <3>2. e.msg < hist.next + 1
      BY <1>4, <2>1
    <3> QED  BY <2>4, <3>1, <3>2
  <2> QED  BY <1>2, <1>6, <2>1, <2>4, <2>5
<1>11. ASSUME mid \notin session.qos_outgoing
       PROVE  d3 = persist_qos_outgoing_store(d1, dup)
  <2> DEFINE id == NextRowId(db.qosout)
  <2>1. /\ d2.qosout = db.qosout \cup {[id |-> id, entry |-> entry]}
        /\ d2 = [d1 EXCEPT !.qosout = d2.qosout]
    <3> HIDE DEF d1, entry
    <3> QED  BY <1>6 DEF persist_qos_outgoing_store, StoreOK, DbType
  <2>2. \A r \in db.qosout : r.entry.mid # mid
    BY <1>2, <1>11 DEF Mirrors, MidsOf
  <2> DEFINE mark(r) == IF r.entry.mid \in {mid} THEN [r EXCEPT !.entry.dup = TRUE] ELSE r
             marked  == Marked(d2.qosout, {mid})
  <2>3. d3 = [d2 EXCEPT !.qosout = marked]
    BY DEF persist_qos_outgoing_update_dup
  <2>4. \A r \in db.qosout : mark(r) = r
    BY <2>2
  <2>5. mark([id |-> id, entry |-> entry]) = [id |-> id, entry |-> dup]
    <3> HIDE DEF id, entry
    <3> QED  BY <1>7
  <2>6. marked = db.qosout \cup {[id |-> id, entry |-> dup]}
    <3>1. marked = {mark(r) : r \in d2.qosout}
      BY DEF Marked
    <3> HIDE DEF mark, marked, d2, dup, entry, id
    <3> QED  BY <2>1, <2>4, <2>5, <3>1
  <2> HIDE DEF marked, d2, d3, dup, d1
  <2>7. d3 = [d1 EXCEPT !.qosout = marked]
    BY <1>6, <2>1, <2>3 DEF StoreOK, DbType
  <2> QED  BY <1>6, <2>6, <2>7 DEF persist_qos_outgoing_store
<1>12. CASE /\ mid \notin session.qos_outgoing
            /\ Halt(d2, sending) \/ Halt(d3, sending)
            /\ hist' = shown
  <2>1. StoreOK(d2) /\ Bounded(d2.qosout, hist.next + 1)
    <3> HIDE DEF d1, d2, entry, dup, mid
    <3> QED  BY <1>10, <1>12 DEF d2
  <2>2. StoreOK(d3) /\ Bounded(d3.qosout, hist.next + 1)
    <3> HIDE DEF d1, d3, entry, dup, mid
    <3> QED  BY <1>10, <1>11, <1>12
  <2> HIDE DEF d2, d3, sending, shown
  <2> QED  BY <1>2, <1>4, <1>5, <1>12, <2>1, <2>2, HaltStops
<1>13. CASE /\ mid \notin session.qos_outgoing
            /\ Continue(s, d4, sending)
            /\ hist' = IF Connected THEN shown ELSE stored
  <2> DEFINE e == IF Connected THEN dup ELSE entry
  <2>1. d4 = persist_qos_outgoing_store(d1, e)
    BY <1>11, <1>13
  <2>2. queue = Append(Queue, e)
    BY <1>7
  <2>3. /\ StoreOK(d4) /\ d4.exists /\ d4.generation = db.generation
        /\ d4.next_mid = advance /\ d4.qosin = db.qosin
        /\ Mirrors(queue, d4.qosout) /\ Distinct(queue) /\ queue \in Seq(Entry)
        /\ MidsOf(queue) = session.qos_outgoing \cup {mid}
        /\ Bounded(d4.qosout, hist.next + 1)
    <3>1. e \in {entry, dup}
      OBVIOUS
    <3> HIDE DEF d1, d4, e, entry, dup, mid, advance, queue
    <3> QED  BY <1>10, <1>13, <2>1, <2>2, <3>1
  <2> HIDE DEF d4, queue, advance, sending, shown, stored
  <2>4. /\ s \in SessionType
        /\ s.qos_outgoing = session.qos_outgoing \cup {mid} /\ s.qos_outgoing_messages = queue
        /\ s.generation = session.generation /\ s.next_message_id = advance
        /\ s.qos_incoming = session.qos_incoming
    BY <1>2, <1>3, <2>3 DEF SessionType, ClientAfterSend
  <2> HIDE DEF s
  <2>5. Indexed(s) /\ InStep(s, d4)
    BY <1>2, <2>3, <2>4, Rebuilt
  <2> QED  BY <1>2, <1>4, <1>5, <1>13, <2>3, <2>4, <2>5, ContinueRuns
<1> QED
  <2> HIDE DEF mid, d1, d2, d3, d4, s, sending, shown, stored
  <2> QED  BY <1>1, <1>8, <1>9, <1>12, <1>13

\* publish_message and pubrel_message change qos_incoming and qosin together.
LEMMA IncomingOK ==
  ASSUME IndInv, running, NEW ids \in SUBSET Mids, NEW client \in Conns \cup {NoClient},
         NEW s, s = [session EXCEPT !.client = client, !.qos_incoming = ids],
         NEW d, d = [db EXCEPT !.qosin = ids]
  PROVE  s \in SessionType /\ Indexed(s) /\ InStep(s, d) /\ StoreOK(d) /\ d.qosout = db.qosout
<1>1. /\ s \in SessionType /\ s.qos_incoming = ids
      /\ s.qos_outgoing = session.qos_outgoing /\ s.qos_outgoing_messages = Queue
      /\ s.generation = session.generation /\ s.next_message_id = session.next_message_id
  BY Loop DEF SessionType, Queue
<1>2. /\ d \in DbType /\ d.exists /\ d.generation = db.generation
      /\ d.next_mid = db.next_mid /\ d.qosin = ids /\ d.qosout = db.qosout
  BY Loop DEF DbType
<1>3. StoreOK(d)
  BY <1>2, Loop DEF StoreOK
<1>4. Indexed(s) /\ InStep(s, d)
  BY <1>1, <1>2, Loop, Rebuilt
<1> QED  BY <1>1, <1>2, <1>3, <1>4

\* PUBREL: the identifier is forgotten.
LEMMA PubrelOK ==
  ASSUME IndInv, NEW mid \in Mids, Pubrel(mid)
  PROVE  IndInv'
<1> DEFINE ids == session.qos_incoming \ {mid}
           s   == [session EXCEPT !.client = ClientAfterSend, !.qos_incoming = ids]
           d   == [db EXCEPT !.qosin = ids]
           h   == [hist EXCEPT !.recd = @ \ {mid}]
           sending == SendClient(Control("PubComp", mid))
<1>1. running
  BY DEF Pubrel, ClientMayPublish
<1>2. CASE Halt(db, <<>>) /\ hist' = hist
  BY <1>1, <1>2, Loop, NothingSent, HaltStops
<1>3. CASE Continue(s, d, sending) /\ hist' = h
  <2>1. ids \in SUBSET Mids /\ ClientAfterSend \in Conns \cup {NoClient}
    BY <1>1, Loop DEF SessionType, ClientAfterSend
  <2>2. s \in SessionType /\ Indexed(s) /\ InStep(s, d) /\ StoreOK(d) /\ d.qosout = db.qosout
    <3>1. s = [session EXCEPT !.client = ClientAfterSend, !.qos_incoming = ids]
      OBVIOUS
    <3>2. d = [db EXCEPT !.qosin = ids]
      OBVIOUS
    <3> HIDE DEF ids, s, d
    <3> QED  BY <1>1, <2>1, <3>1, <3>2, IncomingOK
  <2>3. h \in HistType /\ h.next = hist.next
    BY <1>1, Loop DEF HistType
  <2>4. sending \in Seq(Envelope)
    BY <1>1, Loop, ControlIsMessage, SendClientSends
  <2> HIDE DEF s, d, h, sending
  <2> QED  BY <1>1, <1>3, <2>2, <2>3, <2>4, Loop, ContinueRuns
<1>4. db.qosin = session.qos_incoming
  BY <1>1, Loop
<1> QED  BY <1>2, <1>3, <1>4 DEF Pubrel, persist_qos_incoming_delete

\* A PUBLISH of the client.
LEMMA PublishOK ==
  ASSUME IndInv, NEW mid \in Mids, NEW qos \in 0 .. 2, Publish(mid, qos)
  PROVE  IndInv'
<1> DEFINE forward == ToRouter(PublishMsg(mid, qos, FALSE))
           answer  == IF qos = 0 THEN <<>> ELSE SendClient(Control(Answer(qos), mid))
           client  == IF qos = 0 THEN session.client ELSE ClientAfterSend
           silent  == [session EXCEPT !.client = client]
           held    == IF qos = 2 /\ Connected THEN [hist EXCEPT !.recd = @ \cup {mid}] ELSE hist
           ids     == session.qos_incoming \cup {mid}
           taken   == [session EXCEPT !.client = client, !.qos_incoming = ids]
           d       == [db EXCEPT !.qosin = ids]
<1>1. running
  BY DEF Publish, ClientMayPublish
<1>2. /\ session \in SessionType /\ db \in DbType /\ StoreOK(db)
      /\ hist \in HistType /\ Bounded(db.qosout, hist.next)
      /\ open \subseteq Conns /\ db.qosin = session.qos_incoming
  BY <1>1, Loop
<1>3. /\ \/ Continue(silent, db, answer) \/ Continue(silent, db, forward \o answer)
         \/ Continue(taken, d, forward \o answer)
         \/ Halt(db, <<>>) \/ Halt(db, forward)
      /\ hist' = held \/ hist' = hist
  <2>1. [silent EXCEPT !.qos_incoming = @ \cup {mid}] = taken
    BY <1>2 DEF SessionType
  <2>2. persist_qos_incoming_store(db, mid) = d
    BY <1>2 DEF persist_qos_incoming_store
  <2>3. silent = [session EXCEPT !.client = IF qos = 0 THEN @ ELSE ClientAfterSend]
    OBVIOUS
  <2> HIDE DEF silent, taken, d
  <2> QED  BY <2>1, <2>2, <2>3 DEF Publish
<1>4. held \in HistType /\ held.next = hist.next
  BY <1>2 DEF HistType
<1>5. /\ forward \in Seq(Envelope) /\ answer \in Seq(Envelope)
      /\ forward \o answer \in Seq(Envelope)
  <2>1. forward \in Seq(Envelope)
    BY PublishIsMessage, OneSent DEF ToRouter
  <2>2. answer \in Seq(Envelope)
    BY <1>2, ControlIsMessage, SendClientSends, NothingSent DEF Answer
  <2> HIDE DEF forward, answer
  <2> QED  BY <2>1, <2>2, ConcatProperties
<1>6. client \in Conns \cup {NoClient} /\ ids \in SUBSET Mids
  BY <1>2 DEF SessionType, ClientAfterSend
<1>7. silent \in SessionType /\ Indexed(silent) /\ InStep(silent, db)
  <2> HIDE DEF client
  <2>1. /\ silent \in SessionType
        /\ silent.generation = session.generation
        /\ silent.next_message_id = session.next_message_id
        /\ silent.qos_incoming = session.qos_incoming
        /\ silent.qos_outgoing = session.qos_outgoing
        /\ silent.qos_outgoing_messages = session.qos_outgoing_messages
    BY <1>2, <1>6 DEF SessionType
  <2> HIDE DEF silent
  <2> QED  BY <1>1, <2>1, SameQueue
<1>8. taken \in SessionType /\ Indexed(taken) /\ InStep(taken, d) /\ StoreOK(d)
      /\ d.qosout = db.qosout
  <2>1. taken = [session EXCEPT !.client = client, !.qos_incoming = ids]
    OBVIOUS
  <2>2. d = [db EXCEPT !.qosin = ids]
    OBVIOUS
  <2> HIDE DEF client, ids, taken, d
  <2> QED  BY <1>1, <1>6, <2>1, <2>2, IncomingOK
<1> HIDE DEF silent, taken, d, forward, answer, held
<1>9. Bounded(d.qosout, hist.next)
  BY <1>2, <1>8
<1>10. CASE Continue(silent, db, answer) \/ Continue(silent, db, forward \o answer)
  BY <1>2, <1>3, <1>4, <1>5, <1>7, <1>10, ContinueRuns
<1>11. CASE Continue(taken, d, forward \o answer)
  BY <1>2, <1>3, <1>4, <1>5, <1>8, <1>9, <1>11, ContinueRuns
<1>12. CASE Halt(db, <<>>) \/ Halt(db, forward)
  BY <1>2, <1>3, <1>4, <1>5, <1>12, NothingSent, HaltStops
<1> QED  BY <1>3, <1>10, <1>11, <1>12

\* What a client's channel takes of a list of messages.
LEMMA DeliveredSends ==
  ASSUME open \subseteq Conns, NEW c, NEW msgs \in Seq(Message), NEW n \in CanDeliver(c, msgs)
  PROVE  n \in 0 .. Len(msgs) /\ Delivered(c, msgs, n) \in Seq(Envelope)
<1>1. Len(msgs) \in Nat /\ \A i \in 1 .. Len(msgs) : msgs[i] \in Message
  BY LenProperties, ElementOfSeq
<1>2. n \in 0 .. Len(msgs)
  BY <1>1 DEF CanDeliver
<1>3. \A i \in 1 .. n : [to |-> c, msg |-> msgs[i]] \in Envelope
  BY <1>1, <1>2 DEF CanDeliver, Envelope
<1>4. Delivered(c, msgs, n) \in [1 .. n -> Envelope]
  BY <1>3 DEF Delivered
<1>5. n \in Nat
  BY <1>1, <1>2
<1> QED  BY <1>2, <1>4, <1>5, SeqDef

\* UNSUBSCRIBE.
LEMMA UnsubscribeOK ==
  ASSUME IndInv, NEW topics \in SUBSET Topics, Unsubscribe(topics)
  PROVE  IndInv'
<1> DEFINE s == [session EXCEPT !.client = ClientAfterSend, !.subscriptions = @ \ topics]
           request == ToRouter([type |-> "Unsubscribe", topics |-> topics])
           ack     == SendClient([type |-> "UnsubAck"])
<1>1. running /\ hist' = hist /\ (Halt(db, <<>>) \/ Continue(s, db, request \o ack))
  BY DEF Unsubscribe, ClientMayPublish
<1>2. CASE Halt(db, <<>>)
  BY <1>1, <1>2, Loop, NothingSent, HaltStops
<1>3. CASE Continue(s, db, request \o ack)
  <2>1. request \in Seq(Envelope)
    <3>1. [type |-> "Unsubscribe", topics |-> topics] \in Message
      BY DEF Message
    <3> QED  BY <3>1, OneSent DEF ToRouter
  <2>2. ack \in Seq(Envelope)
    <3>1. [type |-> "UnsubAck"] \in Message
      BY DEF Message
    <3> QED  BY <1>1, <3>1, Loop, SendClientSends
  <2>3. /\ s \in SessionType /\ s.generation = session.generation
        /\ s.next_message_id = session.next_message_id
        /\ s.qos_incoming = session.qos_incoming /\ s.qos_outgoing = session.qos_outgoing
        /\ s.qos_outgoing_messages = session.qos_outgoing_messages
    BY <1>1, Loop DEF SessionType, ClientAfterSend
  <2> HIDE DEF s, request, ack
  <2>4. request \o ack \in Seq(Envelope)
    BY <2>1, <2>2, ConcatProperties
  <2>5. Indexed(s) /\ InStep(s, db)
    BY <1>1, <2>3, SameQueue
  <2> QED  BY <1>1, <1>3, <2>3, <2>4, <2>5, Loop, ContinueRuns
<1> QED  BY <1>1, <1>2, <1>3

\* SUBSCRIBE, whatever the channel takes of the answers.
LEMMA SubscribeOK ==
  ASSUME IndInv, NEW topics \in SUBSET Topics, NEW retained \in Retained, NEW n \in Nat,
         Subscribe(topics, retained, n)
  PROVE  IndInv'
<1> DEFINE c         == session.client
           request   == ToRouter([type |-> "Subscribe", topics |-> topics])
           publishes == [i \in DOMAIN retained |->
                           PublishMsg(retained[i].mid, retained[i].qos, FALSE)]
           sends(ok) == <<[type |-> "SubAck", accepted |-> ok]>> \o publishes
           gone      == n < Len(sends(TRUE))
           owed      == {<<Answer(retained[i].qos), retained[i].mid>> :
                           i \in {j \in DOMAIN retained : j < n /\ retained[j].qos > 0}}
           heard     == [hist EXCEPT !.wire = @ \cup Owed(owed)]
           opened    == IF gone THEN open \ {c} ELSE open
           client    == IF gone THEN NoClient ELSE c
           s         == [session EXCEPT !.client = client, !.subscriptions = @ \cup topics]
<1>1. /\ running /\ n \in CanDeliver(c, sends(TRUE)) /\ hist' = heard
      /\ \/ /\ running' = TRUE /\ session' = s /\ db' = db /\ open' = opened
            /\ out' = request \o Delivered(c, sends(TRUE), n)
         \/ Stop(client, opened, db, request \o Delivered(c, sends(FALSE), n))
         \/ Die(db, request)
  BY DEF Subscribe, ClientMayPublish
<1>2. /\ session \in SessionType /\ StoreOK(db) /\ hist \in HistType
      /\ Bounded(db.qosout, hist.next) /\ open \subseteq Conns
  BY <1>1, Loop
<1>3. /\ retained \in Seq([mid : Mids, qos : 0 .. 2])
      /\ \A i \in DOMAIN retained : retained[i] \in [mid : Mids, qos : 0 .. 2]
      /\ DOMAIN retained = 1 .. Len(retained) /\ Len(retained) \in Nat
  BY ConstantsOK, LenProperties, ElementOfSeq
<1>4. publishes \in Seq(Message)
  <2>1. \A i \in 1 .. Len(retained) :
           PublishMsg(retained[i].mid, retained[i].qos, FALSE) \in Message
    BY <1>3, PublishIsMessage
  <2>2. publishes \in [1 .. Len(retained) -> Message]
    BY <1>3, <2>1
  <2> HIDE DEF publishes
  <2> QED  BY <1>3, <2>2, SeqDef
<1>5. request \in Seq(Envelope)
  <2>1. [type |-> "Subscribe", topics |-> topics] \in Message
    BY DEF Message
  <2> QED  BY <2>1, OneSent DEF ToRouter
<1> HIDE DEF publishes, request
<1>6. \A ok \in BOOLEAN :
         sends(ok) \in Seq(Message) /\ Len(sends(ok)) = 1 + Len(publishes)
  <2> SUFFICES ASSUME NEW ok \in BOOLEAN
               PROVE  sends(ok) \in Seq(Message) /\ Len(sends(ok)) = 1 + Len(publishes)
    OBVIOUS
  <2> DEFINE ack == <<[type |-> "SubAck", accepted |-> ok]>>
  <2>1. [type |-> "SubAck", accepted |-> ok] \in Message
    BY DEF Message
  <2>2. ack \in Seq(Message) /\ Len(ack) = 1
    BY <2>1
  <2> HIDE DEF ack
  <2>3. ack \o publishes \in Seq(Message) /\ Len(ack \o publishes) = 1 + Len(publishes)
    BY <1>4, <2>2, ConcatProperties
  <2> QED  BY <2>3 DEF ack
<1>7. n \in CanDeliver(c, sends(FALSE))
  BY <1>1, <1>6 DEF CanDeliver
<1> HIDE DEF sends
<1>8. \A ok \in BOOLEAN : request \o Delivered(c, sends(ok), n) \in Seq(Envelope)
  <2>1. \A ok \in BOOLEAN : n \in CanDeliver(c, sends(ok))
    BY <1>1, <1>7
  <2>2. \A ok \in BOOLEAN : Delivered(c, sends(ok), n) \in Seq(Envelope)
    BY <1>2, <1>6, <2>1, DeliveredSends
  <2> QED  BY <1>5, <2>2, ConcatProperties
<1>9. heard \in HistType /\ heard.next = hist.next
  <2>1. owed \subseteq {"PubAck", "PubRec", "PubComp"} \X Mids
    BY <1>3 DEF Answer
  <2>2. Owed(owed) \subseteq {"PubAck", "PubRec", "PubComp"} \X Mids
    <3> HIDE DEF owed
    <3> QED  BY <2>1 DEF Owed
  <2> HIDE DEF owed
  <2> QED  BY <1>2, <2>2 DEF HistType
<1>10. opened \subseteq Conns /\ client \in Conns \cup {NoClient}
  BY <1>2 DEF SessionType
<1> HIDE DEF heard, opened, client, c
<1>11. CASE /\ running' = TRUE /\ session' = s /\ db' = db /\ open' = opened
            /\ out' = request \o Delivered(c, sends(TRUE), n)
  <2>1. /\ s \in SessionType /\ s.generation = session.generation
        /\ s.next_message_id = session.next_message_id
        /\ s.qos_incoming = session.qos_incoming /\ s.qos_outgoing = session.qos_outgoing
        /\ s.qos_outgoing_messages = session.qos_outgoing_messages
    BY <1>2, <1>10 DEF SessionType
  <2> HIDE DEF s
  <2>2. Indexed(s) /\ InStep(s, db)
    BY <1>1, <2>1, SameQueue
  <2>3. out' \in Seq(Envelope)
    BY <1>8, <1>11
  <2> QED  BY <1>1, <1>2, <1>9, <1>10, <1>11, <2>1, <2>2, <2>3, RunsOn
<1>12. CASE Stop(client, opened, db, request \o Delivered(c, sends(FALSE), n))
  BY <1>1, <1>2, <1>8, <1>9, <1>10, <1>12, StopStops
<1>13. CASE Die(db, request)
  BY <1>1, <1>2, <1>5, <1>9, <1>13, DieStops
<1> QED  BY <1>1, <1>11, <1>12, <1>13

\* After any number of the calls of clean_session the queue and the rows are
\* alike; after none, one or all of them the whole session and its rows are.
LEMMA CleanOK ==
  ASSUME IndInv, running, session.generation < MaxGeneration, NEW calls \in 0 .. 4,
         NEW s, s = CleanSession(calls), NEW d, d = CleanDb(calls)
  PROVE  /\ s \in SessionType /\ StoreOK(d) /\ d.exists
         /\ s.qos_outgoing = MidsOf(s.qos_outgoing_messages)
         /\ Distinct(s.qos_outgoing_messages)
         /\ Mirrors(s.qos_outgoing_messages, d.qosout)
         /\ d.qosin = s.qos_incoming
         /\ d.qosout \subseteq db.qosout
         /\ (calls = 4 \/ s.qos_outgoing_messages # <<>>) =>
               d.generation = s.generation /\ d.next_mid = s.next_message_id
<1>1. /\ session \in SessionType /\ db \in DbType /\ StoreOK(db) /\ db.exists
      /\ RowsOK(db.qosout) /\ Queue \in Seq(Entry) /\ Distinct(Queue)
      /\ Mirrors(Queue, db.qosout) /\ session.qos_outgoing = MidsOf(Queue)
      /\ db.generation = session.generation /\ db.next_mid = session.next_message_id
      /\ db.qosin = session.qos_incoming
  BY Loop
<1>2. session.generation + 1 \in 0 .. MaxGeneration /\ 1 \in Mids
  BY <1>1, ConstantsOK DEF SessionType, Mids
<1>3. <<>> \in Seq(Entry) /\ MidsOf(<<>>) = {} /\ Distinct(<<>>) /\ Mirrors(<<>>, {})
  BY EmptySeq DEF MidsOf, Distinct, Mirrors
<1>4. /\ s.qos_incoming = IF calls >= 1 THEN {} ELSE session.qos_incoming
      /\ s.qos_outgoing = IF calls >= 2 THEN {} ELSE session.qos_outgoing
      /\ s.qos_outgoing_messages = IF calls >= 2 THEN <<>> ELSE Queue
      /\ s.generation = IF calls >= 3 THEN session.generation + 1 ELSE session.generation
      /\ s.next_message_id = IF calls >= 3 THEN 1 ELSE session.next_message_id
      /\ s \in SessionType
  BY <1>1, <1>2, <1>3 DEF CleanSession, SessionType, Queue
<1>5. /\ d.qosin = IF calls >= 1 THEN {} ELSE db.qosin
      /\ d.qosout = IF calls >= 2 THEN {} ELSE db.qosout
      /\ d.generation = IF calls >= 4 THEN session.generation + 1 ELSE db.generation
      /\ d.next_mid = IF calls >= 4 THEN 1 ELSE db.next_mid
      /\ d.exists /\ d \in DbType
  BY <1>1, <1>2 DEF CleanDb, DbType
<1>6. RowsOK(d.qosout)
  BY <1>1, <1>5 DEF RowsOK
<1>7. StoreOK(d) /\ d.qosout \subseteq db.qosout
  BY <1>5, <1>6 DEF StoreOK
<1>8. CASE calls >= 2
  BY <1>3, <1>4, <1>5, <1>7, <1>8
<1>9. CASE ~(calls >= 2)
  <2>1. ~(calls >= 3) /\ ~(calls >= 4) /\ calls # 4
    BY <1>9
  <2> QED  BY <1>1, <1>4, <1>5, <1>7, <1>9, <2>1
<1> QED  BY <1>8, <1>9

\* What send_queued_messages sends is well-formed.
LEMMA RedeliveryOK ==
  ASSUME NEW queue \in Seq(Entry)
  PROVE  Redelivery(queue) \in Seq(Message) /\ Len(Redelivery(queue)) = Len(queue)
<1>1. /\ DOMAIN queue = 1 .. Len(queue) /\ Len(queue) \in Nat
      /\ \A i \in 1 .. Len(queue) : queue[i] \in Entry
  BY LenProperties, ElementOfSeq
<1>2. ASSUME NEW e \in Entry
      PROVE  (IF e.type = "Publish" THEN PublishMsg(e.mid, e.qos, e.dup)
                                    ELSE Control("PubRel", e.mid)) \in Message
  <2>1. CASE e.type = "Publish"
    <3>1. e.mid \in Mids /\ e.qos \in 0 .. 2 /\ e.dup \in BOOLEAN
      BY <2>1 DEF Entry, PubRecEntry
    <3> QED  BY <2>1, <3>1, PublishIsMessage
  <2>2. CASE e.type # "Publish"
    BY <2>2, EntryShape, ControlIsMessage
  <2> QED  BY <2>1, <2>2
<1> DEFINE msgs == Redelivery(queue)
<1>3. DOMAIN msgs = 1 .. Len(queue) /\ msgs = [i \in 1 .. Len(queue) |-> msgs[i]]
  BY <1>1 DEF Redelivery
<1>4. ASSUME NEW i \in 1 .. Len(queue)
      PROVE  msgs[i] \in Message
  <2> DEFINE e == queue[i]
  <2>1. msgs[i] = IF e.type = "Publish" THEN PublishMsg(e.mid, e.qos, e.dup)
                                        ELSE Control("PubRel", e.mid)
    BY <1>1 DEF Redelivery
  <2>2. e \in Entry
    BY <1>1
  <2> HIDE DEF e, msgs
  <2> QED  BY <1>2, <2>1, <2>2
<1> HIDE DEF msgs
<1>5. msgs \in [1 .. Len(queue) -> Message]
  BY <1>3, <1>4
<1>6. msgs \in Seq(Message)
  BY <1>1, <1>5, SeqDef
<1>7. Len(msgs) \in Nat /\ DOMAIN msgs = 1 .. Len(msgs)
  BY <1>6, LenProperties
<1>8. Len(msgs) = Len(queue)
  BY <1>1, <1>3, <1>7
<1> QED  BY <1>6, <1>8 DEF msgs

\* The rows after persist_qos_outgoing_update_dup for the first k entries.
LEMMA SavedOK ==
  ASSUME NEW d, StoreOK(d), d.exists, NEW queue \in Seq(Entry), Mirrors(queue, d.qosout),
         Distinct(queue), NEW k
  PROVE  LET saved == persist_qos_outgoing_update_dup(d, DupMids(queue, k)) IN
         /\ StoreOK(saved) /\ saved.exists /\ saved.generation = d.generation
         /\ saved.next_mid = d.next_mid /\ saved.qosin = d.qosin
         /\ SetDup(queue, k) \in Seq(Entry) /\ Distinct(SetDup(queue, k))
         /\ MidsOf(SetDup(queue, k)) = MidsOf(queue)
         /\ Mirrors(SetDup(queue, k), saved.qosout)
         /\ \A n : Bounded(d.qosout, n) => Bounded(saved.qosout, n)
<1> DEFINE mids   == DupMids(queue, k)
           marked == Marked(d.qosout, mids)
           saved  == persist_qos_outgoing_update_dup(d, mids)
<1>1. RowsOK(d.qosout) /\ d \in DbType
  BY DEF StoreOK
<1>2. saved = [d EXCEPT !.qosout = marked]
  BY DEF persist_qos_outgoing_update_dup
<1>4. /\ \A r \in d.qosout : r.entry.mid \in mids => r.entry.type = "Publish"
      /\ SetDup(queue, k) \in Seq(Entry) /\ Distinct(SetDup(queue, k))
      /\ MidsOf(SetDup(queue, k)) = MidsOf(queue)
      /\ Mirrors(SetDup(queue, k), marked)
  BY <1>1, MarkingMirrors
<1>5. RowsOK(marked) /\ \A n : Bounded(d.qosout, n) => Bounded(marked, n)
  <2> HIDE DEF mids
  <2> QED  BY <1>1, <1>4, MarkingKeepsRows
<1> HIDE DEF mids, marked, saved
<1>6. /\ saved.exists /\ saved.generation = d.generation /\ saved.next_mid = d.next_mid
      /\ saved.qosin = d.qosin /\ saved.qosout = marked /\ saved \in DbType
  BY <1>1, <1>2, <1>5 DEF DbType, RowsOK
<1>7. StoreOK(saved)
  BY <1>5, <1>6 DEF StoreOK
<1> QED  BY <1>4, <1>5, <1>6, <1>7 DEF saved, mids

\* new_client_connected: takeover, clean session, CONNACK and redelivery.
LEMMA NewClientOK ==
  ASSUME IndInv, NEW c \in Conns, NEW cleanFlag \in BOOLEAN, NEW calls \in 0 .. 4,
         NEW n \in Nat, NewClient(c, cleanFlag, calls, n)
  PROVE  IndInv'
<1> DEFINE s       == IF cleanFlag THEN CleanSession(calls) ELSE session
           d       == IF cleanFlag THEN CleanDb(calls) ELSE db
           ok      == calls = 4
           queue   == s.qos_outgoing_messages
           sends   == <<ConnAck(ok, ~s.clean)>> \o Redelivery(queue)
           taken   == IF n = 0 THEN 0 ELSE n - 1
           gone    == n < Len(sends)
           opened  == IF gone THEN open \ {c} ELSE open
           request == IF cleanFlag /\ calls >= 3
                      THEN ToRouter([type |-> "Unsubscribe", topics |-> session.subscriptions])
                      ELSE <<>>
           sent    == SendClient(Disconnect) \o request \o Delivered(c, sends, n)
           saved(k) == persist_qos_outgoing_update_dup(d, DupMids(queue, k))
           owed    == {<<IF queue[i].type = "Publish" THEN Answer(queue[i].qos)
                                                      ELSE "PubComp", queue[i].mid>> :
                          i \in 1 .. taken}
           seen    == [hist EXCEPT
                         !.unseen = IF cleanFlag /\ calls >= 2 THEN {}
                                    ELSE @ \ {queue[i].msg : i \in 1 .. taken},
                         !.recd = IF cleanFlag THEN {} ELSE @,
                         !.wire = (IF cleanFlag THEN {} ELSE @) \cup Owed(owed)]
           client  == IF gone THEN NoClient ELSE c
           after   == [s EXCEPT !.client = client, !.clean = FALSE,
                                !.qos_outgoing_messages = SetDup(queue, taken)]
<1>1. /\ running /\ hist' = seen /\ n \in CanDeliver(c, sends)
      /\ cleanFlag => session.generation < MaxGeneration
      /\ ~cleanFlag => calls = 4
      /\ \/ /\ calls = 4 \/ queue # <<>>
            /\ running' = TRUE /\ session' = after /\ db' = saved(taken)
            /\ out' = sent /\ open' = opened
         \/ Stop(client, opened, saved(taken), sent)
         \/ Die(d, sent)
         \/ \E last \in {taken - 1, taken} : Stop(c, open, saved(last), sent) \/ Die(saved(last), sent)
  BY DEF NewClient
<1>2. /\ session \in SessionType /\ db \in DbType /\ StoreOK(db) /\ db.exists
      /\ hist \in HistType /\ Bounded(db.qosout, hist.next)
      /\ open \subseteq Conns /\ Queue \in Seq(Entry) /\ Distinct(Queue)
      /\ Mirrors(Queue, db.qosout) /\ session.qos_outgoing = MidsOf(Queue)
      /\ db.generation = session.generation /\ db.next_mid = session.next_message_id
      /\ db.qosin = session.qos_incoming
  BY <1>1, Loop
<1>3. /\ s \in SessionType /\ StoreOK(d) /\ d.exists
      /\ s.qos_outgoing = MidsOf(queue) /\ Distinct(queue) /\ Mirrors(queue, d.qosout)
      /\ d.qosin = s.qos_incoming /\ d.qosout \subseteq db.qosout
      /\ (calls = 4 \/ queue # <<>>) =>
            d.generation = s.generation /\ d.next_mid = s.next_message_id
  <2>1. CASE cleanFlag
    <3>1. s = CleanSession(calls) /\ d = CleanDb(calls)
      BY <2>1
    <3>2. session.generation < MaxGeneration
      BY <1>1, <2>1
    <3> HIDE DEF s, d
    <3> QED  BY <1>1, <3>1, <3>2, CleanOK
  <2>2. CASE ~cleanFlag
    BY <1>2, <2>2 DEF Queue
  <2> QED  BY <2>1, <2>2
<1> HIDE DEF s, d
<1>4. queue \in Seq(Entry) /\ s.clean \in BOOLEAN
  BY <1>3 DEF SessionType
<1> HIDE DEF queue
<1>5. /\ Len(queue) \in Nat /\ DOMAIN queue = 1 .. Len(queue)
      /\ \A i \in 1 .. Len(queue) : queue[i] \in Entry
  BY <1>4, LenProperties, ElementOfSeq
<1>6. sends \in Seq(Message) /\ Len(sends) = 1 + Len(queue)
  <2> DEFINE first == <<ConnAck(ok, ~s.clean)>>
  <2>1. ConnAck(ok, ~s.clean) \in Message
    BY <1>4 DEF ConnAck, Message
  <2>2. first \in Seq(Message) /\ Len(first) = 1
    BY <2>1
  <2>3. Redelivery(queue) \in Seq(Message) /\ Len(Redelivery(queue)) = Len(queue)
    BY <1>4, RedeliveryOK
  <2> HIDE DEF first
  <2>4. first \o Redelivery(queue) \in Seq(Message)
        /\ Len(first \o Redelivery(queue)) = 1 + Len(queue)
    <3> DEFINE rest == Redelivery(queue)
    <3>1. rest \in Seq(Message) /\ Len(rest) = Len(queue)
      BY <2>3
    <3> HIDE DEF rest
    <3>2. first \o rest \in Seq(Message) /\ Len(first \o rest) = Len(first) + Len(rest)
      BY <2>2, <3>1, ConcatLength
    <3> QED  BY <2>2, <3>1, <3>2 DEF rest
  <2> QED  BY <2>4 DEF first
<1> HIDE DEF sends
<1>7. n \in 0 .. Len(sends) /\ Delivered(c, sends, n) \in Seq(Envelope)
  BY <1>1, <1>2, <1>6, DeliveredSends
<1>8. 1 .. taken \subseteq 1 .. Len(queue)
  BY <1>5, <1>6, <1>7
<1>9. sent \in Seq(Envelope)
  <2>1. SendClient(Disconnect) \in Seq(Envelope)
    BY <1>2, DisconnectIsMessage, SendClientSends
  <2>2. request \in Seq(Envelope)
    <3>1. [type |-> "Unsubscribe", topics |-> session.subscriptions] \in Message
      BY <1>2 DEF SessionType, Message
    <3> QED  BY <3>1, OneSent, NothingSent DEF ToRouter
  <2> HIDE DEF request
  <2>3. SendClient(Disconnect) \o request \in Seq(Envelope)
    BY <2>1, <2>2, ConcatProperties
  <2> QED  BY <1>7, <2>3, ConcatProperties
<1>10. seen \in HistType /\ seen.next = hist.next
  <2>1. owed \subseteq {"PubAck", "PubRec", "PubComp"} \X Mids
    <3>1. \A e \in Entry : e.mid \in Mids
      BY EntryShape
    <3> HIDE DEF taken
    <3> QED  BY <1>5, <1>8, <3>1 DEF Answer
  <2>2. Owed(owed) \subseteq {"PubAck", "PubRec", "PubComp"} \X Mids
    <3> HIDE DEF owed
    <3> QED  BY <2>1 DEF Owed
  <2> HIDE DEF owed, taken
  <2> QED  BY <1>2, <2>2 DEF HistType
<1>11. opened \subseteq Conns /\ client \in Conns \cup {NoClient}
  BY <1>2
<1>12. Bounded(d.qosout, hist.next)
  BY <1>2, <1>3 DEF Bounded
<1>13. ASSUME NEW k
       PROVE  /\ StoreOK(saved(k)) /\ saved(k).exists
              /\ saved(k).generation = d.generation /\ saved(k).next_mid = d.next_mid
              /\ saved(k).qosin = d.qosin
              /\ SetDup(queue, k) \in Seq(Entry) /\ Distinct(SetDup(queue, k))
              /\ MidsOf(SetDup(queue, k)) = MidsOf(queue)
              /\ Mirrors(SetDup(queue, k), saved(k).qosout)
              /\ Bounded(saved(k).qosout, hist.next)
  <2>1. /\ StoreOK(saved(k)) /\ saved(k).exists
        /\ saved(k).generation = d.generation /\ saved(k).next_mid = d.next_mid
        /\ saved(k).qosin = d.qosin
        /\ SetDup(queue, k) \in Seq(Entry) /\ Distinct(SetDup(queue, k))
        /\ MidsOf(SetDup(queue, k)) = MidsOf(queue)
        /\ Mirrors(SetDup(queue, k), saved(k).qosout)
        /\ \A m : Bounded(d.qosout, m) => Bounded(saved(k).qosout, m)
    BY <1>3, <1>4, SavedOK
  <2> HIDE DEF saved
  <2> QED  BY <1>12, <2>1
<1> HIDE DEF saved, sent, seen, opened, client, taken
<1>14. CASE /\ calls = 4 \/ queue # <<>>
            /\ running' = TRUE /\ session' = after /\ db' = saved(taken)
            /\ out' = sent /\ open' = opened
  <2>1. /\ after \in SessionType /\ after.qos_outgoing = s.qos_outgoing
        /\ after.qos_outgoing_messages = SetDup(queue, taken)
        /\ after.generation = s.generation /\ after.next_message_id = s.next_message_id
        /\ after.qos_incoming = s.qos_incoming
    BY <1>3, <1>11, <1>13 DEF SessionType
  <2> HIDE DEF after
  <2>2. d.generation = s.generation /\ d.next_mid = s.next_message_id
    BY <1>3, <1>14
  <2>3. Indexed(after) /\ InStep(after, saved(taken))
    BY <1>3, <1>13, <2>1, <2>2, Rebuilt
  <2>4. seen.next = hist.next /\ Bounded(saved(taken).qosout, seen.next)
    BY <1>10, <1>13
  <2> QED  BY <1>1, <1>9, <1>10, <1>11, <1>13, <1>14, <2>1, <2>3, <2>4, RunsOn
<1>15. CASE Stop(client, opened, saved(taken), sent)
  BY <1>1, <1>9, <1>10, <1>11, <1>13, <1>15, StopStops
<1>16. CASE Die(d, sent)
  BY <1>1, <1>2, <1>3, <1>9, <1>10, <1>12, <1>16, DieStops
<1>17. CASE \E last \in {taken - 1, taken} : Stop(c, open, saved(last), sent) \/ Die(saved(last), sent)
  <2>1. PICK last \in {taken - 1, taken} : Stop(c, open, saved(last), sent) \/ Die(saved(last), sent)
    BY <1>17
  <2> QED  BY <1>1, <1>2, <1>9, <1>10, <1>13, <2>1, StopStops, DieStops
<1> QED
  <2> HIDE DEF after
  <2> QED  BY <1>1, <1>14, <1>15, <1>16, <1>17

-----------------------------------------------------------------------------
(* The invariant and what follows from it. *)

\* The invariant holds before the first start.
LEMMA InitOK ==
  ASSUME Init
  PROVE  IndInv
<1>1. NewDb \in DbType /\ NewDb.qosout = {}
  BY ConstantsOK DEF NewDb, DbType, Mids
<1>2. RowsOK({})
  BY DEF RowsOK
<1>3. StoreOK(NewDb)
  BY <1>1, <1>2 DEF StoreOK
<1>4. NewHist \in HistType
  BY ConstantsOK DEF NewHist, HistType
<1>5. TypeOK
  BY <1>1, <1>4, NewSessionOK, NothingSent DEF Init, TypeOK
<1> QED  BY <1>1, <1>3, <1>5, NewSessionOK DEF Init, IndInv, QueueIndexed

\* Every action keeps it.
LEMMA NextOK ==
  ASSUME IndInv, [Next]_vars
  PROVE  IndInv'
<1>1. CASE Start
  BY <1>1, StartOK
<1>2. CASE StartFails
  BY <1>2, StartFailsOK
<1>3. CASE \E mid \in Mids : Puback(mid) \/ Pubrec(mid) \/ Pubcomp(mid)
  BY <1>3, PubackOK, PubrecOK
<1>4. CASE \E mid \in ClientMids : Pubrel(mid) \/ \E qos \in 0 .. 2 : Publish(mid, qos)
  BY <1>4, ConstantsOK, PubrelOK, PublishOK
<1>5. CASE \E topics \in (SUBSET Topics) \ {{}} : Unsubscribe(topics)
  BY <1>5, UnsubscribeOK
<1>6. CASE \E topics \in (SUBSET Topics) \ {{}} :
              \E retained \in Retained : \E n \in 0 .. (1 + Len(retained)) :
                 Subscribe(topics, retained, n)
  <2>1. PICK topics \in (SUBSET Topics) \ {{}}, retained \in Retained :
           \E n \in 0 .. (1 + Len(retained)) : Subscribe(topics, retained, n)
    BY <1>6
  <2>2. PICK n \in 0 .. (1 + Len(retained)) : Subscribe(topics, retained, n)
    BY <2>1
  <2>3. n \in Nat
    BY <2>2
  <2> QED  BY <2>2, <2>3, SubscribeOK
<1>7. CASE InternalMessage
  BY <1>7, InternalPublishStaleOK, InternalPublishQos0OK, InternalPublishOK
     DEF InternalMessage
<1>8. CASE \E c \in Conns : ClientOpens(c) \/ ClientCloses(c)
  BY <1>8, ConnectionOK
<1>9. CASE \E c \in Conns : \E cleanFlag \in BOOLEAN, calls \in 0 .. 4, n \in 0 .. (1 + Len(Queue)) :
              NewClient(c, cleanFlag, calls, n)
  <2>1. PICK c \in Conns, cleanFlag \in BOOLEAN, calls \in 0 .. 4, n \in 0 .. (1 + Len(Queue)) :
           NewClient(c, cleanFlag, calls, n)
    BY <1>9
  <2>2. n \in Nat
    BY <2>1
  <2> QED  BY <2>1, <2>2, NewClientOK
<1>10. CASE Crash
  BY <1>10, CrashOK
<1>11. CASE UNCHANGED vars
  BY <1>11 DEF vars, IndInv, TypeOK, QueueIndexed
<1> QED
  BY <1>1, <1>2, <1>3, <1>4, <1>5, <1>6, <1>7, <1>8, <1>9, <1>10, <1>11
     DEF Next, ClientPacket

\* Every step of the session, whichever of its calls to the database or the
\* router fails, keeps the rows well-formed and, while the session runs, equal
\* to the queue in memory.
THEOREM Invariance == Spec => []IndInv
<1>1. Init => IndInv
  BY InitOK
<1>2. IndInv /\ [Next]_vars => IndInv'
  BY NextOK
<1> QED  BY <1>1, <1>2, PTL DEF Spec

\* Every variable keeps its type: identifiers stay within a u16, rows and
\* messages to clients and router are well-formed.
THEOREM TypeCorrect == Spec => []TypeOK
<1>1. IndInv => TypeOK
  BY DEF IndInv
<1> QED  BY <1>1, Invariance, PTL

\* qos_outgoing indexes qos_outgoing_messages and no identifier is used twice.
THEOREM QueueIsIndexed == Spec => []QueueIndexed
<1>1. IndInv => QueueIndexed
  BY DEF IndInv
<1> QED  BY <1>1, Invariance, PTL

\* A restart at any point restores the queue, the identifiers and the
\* generation of the running session.
THEOREM RestartRestores == Spec => []RestartLosesNothing
<1>1. IndInv => RestartLosesNothing
  <2> SUFFICES ASSUME IndInv, running
               PROVE  /\ db.exists
                      /\ db.generation = session.generation
                      /\ db.next_mid = session.next_message_id
                      /\ db.qosin = session.qos_incoming
                      /\ Queue \in persistent_qosout_load(db)
    BY DEF RestartLosesNothing
  <2>1. Queue \in persistent_qosout_load(db)
    BY Loop, MirrorsLoads
  <2> QED  BY <2>1, Loop
<1> QED  BY <1>1, Invariance, PTL

\* Queued messages stay in the order in which the router sent them.
THEOREM QueueStaysOrdered == Spec => []QueueOrdered
<1>1. ASSUME IndInv PROVE QueueOrdered
  <2>1. CASE running
    <3> SUFFICES ASSUME NEW i \in DOMAIN Queue, NEW j \in DOMAIN Queue, i < j,
                        Queue[i].type = "Publish", Queue[j].type = "Publish"
                 PROVE  Queue[i].msg < Queue[j].msg
      BY DEF QueueOrdered
    <3>1. RowsOK(db.qosout) /\ Mirrors(Queue, db.qosout)
      BY <1>1, <2>1, Loop
    <3>2. PICK r1 \in db.qosout : r1.entry = Queue[i]
      BY <3>1 DEF Mirrors
    <3>3. PICK r2 \in db.qosout : r2.entry = Queue[j]
      BY <3>1 DEF Mirrors
    <3>4. r1.id < r2.id
      BY <3>1, <3>2, <3>3 DEF Mirrors
    <3> QED  BY <3>1, <3>2, <3>3, <3>4 DEF RowsOK
  <2>2. CASE ~running
    <3>1. Queue = <<>>
      BY <1>1, <2>2 DEF IndInv, NewSession, Queue
    <3> QED  BY <3>1 DEF QueueOrdered
  <2> QED  BY <2>1, <2>2
<1>2. IndInv => QueueOrdered
  BY <1>1
<1> QED  BY <1>2, Invariance, PTL

=============================================================================
