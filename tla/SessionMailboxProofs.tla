------------------------- MODULE SessionMailboxProofs -------------------------
(***************************************************************************)
(* SessionWorker implements Mailbox, for every value of the constants: the *)
(* refinement that SessionMailbox states, step by step.                    *)
(***************************************************************************)
EXTENDS SessionMailbox, SessionDeliveryProofs

-----------------------------------------------------------------------------
(* The box as a function of the rows. *)

\* Membership in the parts of the box.
LEMMA PublishedHas ==
  ASSUME NEW rows, NEW dup, NEW x
  PROVE  x \in Published(rows, dup)
           <=> \E r \in rows : r.entry.type = "Publish" /\ r.entry.dup = dup /\ r.entry.msg = x
BY DEF Published

LEMMA ReleasedHas ==
  ASSUME NEW rows, NEW x
  PROVE  x \in Released(rows) <=> \E r \in rows : r.entry.type = "PubRec" /\ r.entry.mid = x
BY DEF Released

\* dup is a flag.
LEMMA EntryDup ==
  ASSUME NEW e \in Entry
  PROVE  e.dup \in BOOLEAN /\ (e.dup = TRUE \/ e.dup = FALSE)
<1>1. CASE e \in [type : {"Publish"}, mid : Mids, qos : {1, 2}, dup : BOOLEAN, msg : Msgs]
  <2>1. e.dup \in BOOLEAN
    BY <1>1
  <2> QED  BY <2>1
<1>2. CASE \E mid \in Mids : e = PubRecEntry(mid)
  <2>1. e.dup = FALSE
    BY <1>2 DEF PubRecEntry
  <2> QED  BY <2>1
<1> QED  BY <1>1, <1>2 DEF Entry

\* A row more.
LEMMA PublishedAdds ==
  ASSUME NEW rows, NEW row, NEW dup
  PROVE  /\ row.entry.type = "Publish" /\ row.entry.dup = dup =>
               Published(rows \cup {row}, dup) = Published(rows, dup) \cup {row.entry.msg}
         /\ ~(row.entry.type = "Publish" /\ row.entry.dup = dup) =>
               Published(rows \cup {row}, dup) = Published(rows, dup)
         /\ row.entry.type = "PubRec" =>
               Released(rows \cup {row}) = Released(rows) \cup {row.entry.mid}
         /\ row.entry.type # "PubRec" => Released(rows \cup {row}) = Released(rows)
BY DEF Published, Released

\* Two rows of one message are one row.
LEMMA OneRowPerMessage ==
  ASSUME NEW rows, RowsOK(rows), NEW r1 \in rows, NEW r2 \in rows,
         r1.entry.type = "Publish", r2.entry.type = "Publish", r1.entry.msg = r2.entry.msg
  PROVE  r1 = r2
<1>1. r1.id \in Nat /\ r2.id \in Nat /\ r1.entry.msg \in Nat
  BY RowShape, EntryShape DEF RowsOK
<1>2. ~(r1.id < r2.id) /\ ~(r2.id < r1.id)
  BY <1>1 DEF RowsOK
<1>3. r1.id = r2.id
  BY <1>1, <1>2
<1> QED  BY <1>3 DEF RowsOK

\* A row less.
LEMMA PublishedDrops ==
  ASSUME NEW rows, RowsOK(rows), NEW r \in rows, NEW left,
         left = {q \in rows : q.entry.mid # r.entry.mid}
  PROVE  /\ r.entry.type = "Publish" =>
               /\ \A dup : Published(left, dup) = Published(rows, dup) \ {r.entry.msg}
               /\ Released(left) = Released(rows)
         /\ r.entry.type = "PubRec" =>
               /\ \A dup : Published(left, dup) = Published(rows, dup)
               /\ Released(left) = Released(rows) \ {r.entry.mid}
<1>1. \A q \in rows : q \in left <=> q # r
  BY DEF RowsOK
<1>2. left \subseteq rows
  OBVIOUS
<1>3. ASSUME r.entry.type = "Publish"
      PROVE  \A dup : Published(left, dup) = Published(rows, dup) \ {r.entry.msg}
  <2> SUFFICES ASSUME NEW dup, NEW x
               PROVE  x \in Published(left, dup) <=> x \in Published(rows, dup) \ {r.entry.msg}
    OBVIOUS
  <2>1. ASSUME x \in Published(left, dup)
        PROVE  x \in Published(rows, dup) \ {r.entry.msg}
    <3>1. PICK q \in left : q.entry.type = "Publish" /\ q.entry.dup = dup /\ q.entry.msg = x
      BY <2>1, PublishedHas
    <3>2. x # r.entry.msg
      BY <1>1, <1>2, <1>3, <3>1, OneRowPerMessage
    <3> QED  BY <1>2, <3>1, <3>2, PublishedHas
  <2>2. ASSUME x \in Published(rows, dup) \ {r.entry.msg}
        PROVE  x \in Published(left, dup)
    <3>1. PICK q \in rows : q.entry.type = "Publish" /\ q.entry.dup = dup /\ q.entry.msg = x
      BY <2>2, PublishedHas
    <3> QED  BY <1>1, <2>2, <3>1, PublishedHas
  <2> QED  BY <2>1, <2>2
<1>4. r.entry.type = "Publish" => Released(left) = Released(rows)
  BY <1>1, <1>2 DEF Released
<1>5. r.entry.type = "PubRec" => \A dup : Published(left, dup) = Published(rows, dup)
  BY <1>1, <1>2 DEF Published
<1>6. r.entry.type = "PubRec" => Released(left) = Released(rows) \ {r.entry.mid}
  BY <1>1, <1>2 DEF Released
<1> QED  BY <1>3, <1>4, <1>5, <1>6

-----------------------------------------------------------------------------
(* Each effect is a step of the box, or none that it shows. *)

BoxStep == Box!Next \/ UNCHANGED Box!vars

\* The rows of messages stay: a QoS 2 identifier of the client may come or go.
LEMMA KeptStep ==
  ASSUME OutgoingKept, IncomingKept \/ IncomingMoves
  PROVE  BoxStep
<1>1. /\ Published(db.qosout, FALSE)' = Published(db.qosout, FALSE)
      /\ Published(db.qosout, TRUE)' = Published(db.qosout, TRUE)
      /\ Released(db.qosout)' = Released(db.qosout)
      /\ hist.next' = hist.next
  BY DEF OutgoingKept, Published, Released
<1>2. CASE db'.qosin = db.qosin
  BY <1>1, <1>2 DEF BoxStep, Box!vars
<1>3. CASE db'.qosin # db.qosin /\ \E mid \in Mids : \/ db'.qosin = db.qosin \cup {mid}
                                                     \/ db'.qosin = db.qosin \ {mid}
  <2>1. Box!Receive
    BY <1>1, <1>3 DEF Box!Receive, Box!Toggles
  <2> QED  BY <2>1 DEF BoxStep, Box!Next
<1> QED  BY <1>2, <1>3 DEF IncomingKept, IncomingMoves

\* A message enters.
LEMMA StoresStep ==
  ASSUME Stores, IncomingKept
  PROVE  BoxStep
<1>1. PICK e \in Entry : \E id : StoresRow(e, id)
  BY DEF Stores
<1>2. PICK id : StoresRow(e, id)
  BY <1>1
<1> DEFINE row == [id |-> id, entry |-> e]
<1>3. /\ e.type = "Publish" /\ e.msg = hist.next /\ hist'.next = hist.next + 1
      /\ db'.qosout = db.qosout \cup {row}
  BY <1>2 DEF StoresRow
<1>4. row.entry = e /\ (e.dup = TRUE \/ e.dup = FALSE)
  BY EntryDup
<1> HIDE DEF row
<1>5. /\ e.dup = FALSE => /\ Published(db'.qosout, FALSE) = Published(db.qosout, FALSE) \cup {hist.next}
                          /\ Published(db'.qosout, TRUE) = Published(db.qosout, TRUE)
      /\ e.dup = TRUE => /\ Published(db'.qosout, TRUE) = Published(db.qosout, TRUE) \cup {hist.next}
                         /\ Published(db'.qosout, FALSE) = Published(db.qosout, FALSE)
      /\ Released(db'.qosout) = Released(db.qosout)
  <2>1. /\ \A dup : e.dup = dup =>
               Published(db'.qosout, dup) = Published(db.qosout, dup) \cup {hist.next}
        /\ \A dup : e.dup # dup => Published(db'.qosout, dup) = Published(db.qosout, dup)
        /\ Released(db'.qosout) = Released(db.qosout)
    <3>1. /\ row.entry.type = "Publish" /\ row.entry.type # "PubRec"
          /\ row.entry.dup = e.dup /\ row.entry.msg = hist.next
      BY <1>3, <1>4
    <3>2. ASSUME NEW dup
          PROVE  /\ e.dup = dup =>
                       Published(db.qosout \cup {row}, dup) = Published(db.qosout, dup) \cup {hist.next}
                 /\ e.dup # dup =>
                       Published(db.qosout \cup {row}, dup) = Published(db.qosout, dup)
      <4>1. /\ row.entry.type = "Publish" /\ row.entry.dup = dup =>
                  Published(db.qosout \cup {row}, dup) = Published(db.qosout, dup) \cup {row.entry.msg}
            /\ ~(row.entry.type = "Publish" /\ row.entry.dup = dup) =>
                  Published(db.qosout \cup {row}, dup) = Published(db.qosout, dup)
        BY DEF Published
      <4> QED  BY <3>1, <4>1
    <3>3. Released(db.qosout \cup {row}) = Released(db.qosout)
      BY <3>1, PublishedAdds
    <3> QED  BY <1>3, <3>2, <3>3
  <2>2. TRUE # FALSE
    OBVIOUS
  <2> QED  BY <2>1, <2>2
<1>6. Box!Deposit
  BY <1>3, <1>4, <1>5 DEF Box!Deposit, IncomingKept
<1> QED  BY <1>6 DEF BoxStep, Box!Next

\* A message is confirmed, or the release of one is.
LEMMA AcknowledgesStep ==
  ASSUME IndInv, Acknowledges, IncomingKept
  PROVE  BoxStep
<1>1. PICK mid \in Mids : \E packet : AnswersWith(mid, packet)
  BY DEF Acknowledges
<1>2. PICK packet : AnswersWith(mid, packet)
  BY <1>1
<1>3. /\ hist'.next = hist.next /\ db'.qosin = db.qosin
      /\ \/ db'.qosout = db.qosout
         \/ db'.qosout = Rest(mid)
         \/ \E id : db'.qosout = Rest(mid) \cup {[id |-> id, entry |-> PubRecEntry(mid)]}
  BY <1>2 DEF AnswersWith, IncomingKept
<1>4. /\ RowsOK(db.qosout)
      /\ \A r \in db.qosout : /\ r.entry.type \in {"Publish", "PubRec"}
                              /\ r.entry.dup = TRUE \/ r.entry.dup = FALSE
  <2>1. RowsOK(db.qosout) /\ \A r \in db.qosout : r.entry \in Entry
    BY RowFacts
  <2>2. \A e \in Entry : /\ e.type \in {"Publish", "PubRec"}
                         /\ e.dup = TRUE \/ e.dup = FALSE
    BY EntryShape, EntryDup
  <2> QED  BY <2>1, <2>2
<1> DEFINE rows == db.qosout
           left == Rest(mid)
           msgs == Published(rows, FALSE) \cup Published(rows, TRUE)
<1>5. (\A r \in rows : r.entry.mid # mid) => left = rows
  BY DEF Rest
\* what is left
<1>6. ASSUME NEW r \in rows, r.entry.mid = mid
      PROVE  /\ r.entry.type = "Publish" =>
                   /\ \A dup : Published(left, dup) = Published(rows, dup) \ {r.entry.msg}
                   /\ Released(left) = Released(rows)
                   /\ r.entry.msg \in msgs
             /\ r.entry.type = "PubRec" =>
                   /\ \A dup : Published(left, dup) = Published(rows, dup)
                   /\ Released(left) = Released(rows) \ {mid}
                   /\ mid \in Released(rows)
  <2>1. left = {q \in rows : q.entry.mid # r.entry.mid}
    BY <1>6 DEF Rest
  <2>2. r.entry.type = "Publish" => r.entry.msg \in msgs
    BY <1>4, PublishedHas
  <2>3. r.entry.type = "PubRec" => mid \in Released(rows)
    BY <1>6, ReleasedHas
  <2> HIDE DEF left, rows, msgs
  <2>4. RowsOK(rows)
    BY <1>4 DEF rows
  <2> QED  BY <1>6, <2>1, <2>2, <2>3, <2>4, PublishedDrops
<1>7. CASE db'.qosout = db.qosout
  BY <1>3, <1>7 DEF BoxStep, Box!vars, Published, Released
<1>8. CASE db'.qosout = Rest(mid)
  <2>1. CASE \A r \in rows : r.entry.mid # mid
    BY <1>5, <1>7, <1>8, <2>1
  <2>2. ASSUME NEW r \in rows, r.entry.mid = mid, r.entry.type = "Publish"
        PROVE  BoxStep
    <3>1. Box!Confirm
      BY <1>3, <1>6, <1>8, <2>2 DEF Box!Confirm
    <3> QED  BY <3>1 DEF BoxStep, Box!Next
  <2>3. ASSUME NEW r \in rows, r.entry.mid = mid, r.entry.type = "PubRec"
        PROVE  BoxStep
    <3>1. Box!Release
      BY <1>3, <1>6, <1>8, <2>3 DEF Box!Release, Box!Toggles
    <3> QED  BY <3>1 DEF BoxStep, Box!Next
  <2> QED  BY <1>4, <2>1, <2>2, <2>3
<1>9. CASE \E id : db'.qosout = Rest(mid) \cup {[id |-> id, entry |-> PubRecEntry(mid)]}
  <2>1. PICK id : db'.qosout = Rest(mid) \cup {[id |-> id, entry |-> PubRecEntry(mid)]}
    BY <1>9
  <2> DEFINE row == [id |-> id, entry |-> PubRecEntry(mid)]
  <2>2. row.entry.type = "PubRec" /\ row.entry.mid = mid
    BY DEF PubRecEntry
  <2>3. db'.qosout = left \cup {row}
    BY <2>1
  <2> HIDE DEF row, left
  <2>4. /\ \A dup : Published(db'.qosout, dup) = Published(left, dup)
        /\ Released(db'.qosout) = Released(left) \cup {mid}
    BY <2>2, <2>3, PublishedAdds
  <2>5. CASE \A r \in rows : r.entry.mid # mid
    <3>1. mid \notin Released(rows)
      BY <2>5, ReleasedHas
    <3>2. Box!Release
      BY <1>3, <1>5, <2>4, <2>5, <3>1 DEF Box!Release, Box!Toggles
    <3> QED  BY <3>2 DEF BoxStep, Box!Next
  <2>6. ASSUME NEW r \in rows, r.entry.mid = mid, r.entry.type = "Publish"
        PROVE  BoxStep
    <3>1. /\ \A dup : Published(db'.qosout, dup) = Published(rows, dup) \ {r.entry.msg}
          /\ Released(db'.qosout) = Released(rows) \cup {mid}
          /\ r.entry.msg \in msgs
      BY <1>6, <2>4, <2>6
    <3>2. Box!Confirm
      <4> DEFINE m == r.entry.msg
      <4>1. /\ Published(db'.qosout, FALSE) = Published(db.qosout, FALSE) \ {m}
            /\ Published(db'.qosout, TRUE) = Published(db.qosout, TRUE) \ {m}
            /\ Released(db'.qosout) = Released(db.qosout) \cup {mid}
            /\ m \in Published(db.qosout, FALSE) \cup Published(db.qosout, TRUE)
        BY <3>1
      <4> HIDE DEF m, rows, msgs
      <4> QED  BY <1>3, <4>1 DEF Box!Confirm
    <3> QED  BY <3>2 DEF BoxStep, Box!Next
  <2>7. ASSUME NEW r \in rows, r.entry.mid = mid, r.entry.type = "PubRec"
        PROVE  BoxStep
    <3>1. /\ \A dup : Published(db'.qosout, dup) = Published(db.qosout, dup)
          /\ Released(db'.qosout) = Released(db.qosout)
      BY <1>6, <2>4, <2>7
    <3> QED  BY <1>3, <3>1 DEF BoxStep, Box!vars
  <2> QED  BY <1>4, <2>5, <2>6, <2>7
<1> QED  BY <1>3, <1>7, <1>8, <1>9

\* Messages are handed over, the oldest first; a clean session that fails early
\* may have forgotten the client's identifiers.
LEMMA ShowsStep ==
  ASSUME IndInv, Shows
  PROVE  BoxStep
<1>0. PICK taken \in 0 .. Len(Queue) : \E k \in 0 .. taken :
         db'.qosout = Marked(db.qosout, DupMids(Queue, k))
  BY DEF Shows
<1>1. PICK k \in 0 .. taken : db'.qosout = Marked(db.qosout, DupMids(Queue, k))
  BY <1>0
<1>2. /\ running /\ hist'.next = hist.next
      /\ db'.qosin = db.qosin \/ db'.qosin = {}
  BY DEF Shows
<1>3. /\ RowsOK(db.qosout) /\ Queue \in Seq(Entry) /\ Distinct(Queue)
      /\ Mirrors(Queue, db.qosout)
      /\ Len(Queue) \in Nat /\ DOMAIN Queue = 1 .. Len(Queue)
  BY <1>2, Loop, LenProperties
<1> DEFINE rows == db.qosout
           mids == DupMids(Queue, k)
           new  == db'.qosout
           same(m, r) == /\ m.entry.mid = r.entry.mid /\ m.entry.type = r.entry.type
                         /\ m.entry.msg = r.entry.msg /\ m.entry.qos = r.entry.qos
                         /\ r.entry.mid \in mids => m.entry.dup
                         /\ r.entry.mid \notin mids => m = r
           W(s) == Published(s, FALSE)
           H(s) == Published(s, TRUE)
<1>4. /\ \A r \in rows : \E m \in new : same(m, r)
      /\ \A m \in new : \E r \in rows : same(m, r)
  BY <1>1, <1>3, MarkedRow
\* a row is marked when its entry is among the first and was not marked before
<1>5. ASSUME NEW r \in rows
      PROVE  \E i \in DOMAIN Queue :
                /\ r.entry = Queue[i]
                /\ r.entry.mid \in mids <=> (i <= k /\ r.entry.type = "Publish" /\ ~r.entry.dup)
  <2>1. PICK i \in DOMAIN Queue : r.entry = Queue[i]
    BY <1>3 DEF Mirrors
  <2>2. ASSUME r.entry.mid \in mids
        PROVE  i <= k /\ r.entry.type = "Publish" /\ ~r.entry.dup
    <3>1. PICK j \in DOMAIN Queue :
             j <= k /\ Queue[j].type = "Publish" /\ ~Queue[j].dup /\ Queue[j].mid = r.entry.mid
      BY <2>2 DEF DupMids
    <3>2. j = i
      BY <1>3, <2>1, <3>1 DEF Distinct
    <3> QED  BY <2>1, <3>1, <3>2
  <2>3. ASSUME i <= k, r.entry.type = "Publish", ~r.entry.dup
        PROVE  r.entry.mid \in mids
    BY <2>1, <2>3 DEF DupMids
  <2> QED  BY <2>1, <2>2, <2>3
<1>6. /\ \A r \in rows : r.entry.dup = TRUE \/ r.entry.dup = FALSE
      /\ \A m \in new : m.entry.dup = TRUE \/ m.entry.dup = FALSE
  <2>1. \A r \in rows : r.entry \in Entry
    BY RowFacts
  <2>2. RowsOK(Marked(rows, mids))
    <3>1. \A r \in rows : r.entry.mid \in mids => r.entry.type = "Publish"
      BY <1>5
    <3> HIDE DEF rows, mids
    <3> QED  BY <1>3, <3>1, MarkingKeepsRows DEF rows
  <2>3. \A m \in new : m.entry \in Entry
    <3> HIDE DEF mids
    <3> QED  BY <1>1, <2>2, RowShape DEF RowsOK, mids
  <2> QED  BY <2>1, <2>3, EntryDup
<1> HIDE DEF rows, mids, new
<1>7. ASSUME NEW r \in rows, NEW m \in new, same(m, r), r.entry.type = "Publish"
      PROVE  /\ r.entry.mid \in mids => r.entry.dup = FALSE /\ m.entry.dup = TRUE
             /\ r.entry.mid \notin mids => m.entry.dup = r.entry.dup
  BY <1>5, <1>6, <1>7
<1>8. ASSUME NEW x, x \in W(new)
      PROVE  \E r \in rows : /\ r.entry.type = "Publish" /\ r.entry.dup = FALSE
                             /\ r.entry.msg = x /\ r.entry.mid \notin mids
  <2>1. PICK m \in new : m.entry.type = "Publish" /\ m.entry.dup = FALSE /\ m.entry.msg = x
    BY <1>8 DEF Published
  <2>2. PICK r \in rows : same(m, r)
    BY <1>4
  <2>3. r.entry.type = "Publish"
    BY <2>1, <2>2
  <2>4. r.entry.mid \notin mids
    BY <1>7, <2>1, <2>2, <2>3
  <2> QED  BY <2>1, <2>2, <2>3, <2>4
<1>9. W(new) \subseteq W(rows)
  BY <1>8 DEF Published
<1>10. ASSUME NEW x, x \in W(rows) \ W(new)
       PROVE  \E r \in rows : /\ r.entry.type = "Publish" /\ r.entry.msg = x
                              /\ r.entry.mid \in mids
  <2>1. PICK r \in rows : r.entry.type = "Publish" /\ r.entry.dup = FALSE /\ r.entry.msg = x
    BY <1>10 DEF Published
  <2>2. PICK m \in new : same(m, r)
    BY <1>4
  <2>3. ASSUME r.entry.mid \notin mids
        PROVE  FALSE
    <3>1. m = r
      BY <2>2, <2>3
    <3>2. x \in W(new)
      BY <2>1, <3>1 DEF Published
    <3> QED  BY <1>10, <3>2
  <2> QED  BY <2>1, <2>3
<1>11. H(new) = H(rows) \cup (W(rows) \ W(new))
  <2>1. ASSUME NEW x \in H(new)
        PROVE  x \in H(rows) \cup (W(rows) \ W(new))
    <3>1. PICK m \in new : m.entry.type = "Publish" /\ m.entry.dup = TRUE /\ m.entry.msg = x
      BY DEF Published
    <3>2. PICK r \in rows : same(m, r)
      BY <1>4
    <3>3. r.entry.type = "Publish" /\ r.entry.msg = x
      BY <3>1, <3>2
    <3>4. CASE r.entry.mid \notin mids
      <4>1. r.entry.dup = TRUE
        BY <1>7, <3>1, <3>2, <3>3, <3>4
      <4> QED  BY <3>3, <4>1 DEF Published
    <3>5. CASE r.entry.mid \in mids
      <4>1. x \in W(rows)
        <5>1. r.entry.dup = FALSE
          BY <1>7, <3>2, <3>3, <3>5
        <5> QED  BY <3>3, <5>1 DEF Published
      <4>2. x \notin W(new)
        <5> SUFFICES ASSUME x \in W(new) PROVE FALSE
          OBVIOUS
        <5>1. PICK q \in rows : q.entry.type = "Publish" /\ q.entry.msg = x /\ q.entry.mid \notin mids
          BY <1>8
        <5>2. q = r
          BY <1>3, <3>3, <5>1, OneRowPerMessage DEF rows
        <5> QED  BY <3>5, <5>1, <5>2
      <4> QED  BY <4>1, <4>2
    <3> QED  BY <3>4, <3>5
  <2>2. ASSUME NEW x \in H(rows)
        PROVE  x \in H(new)
    <3>1. PICK r \in rows : r.entry.type = "Publish" /\ r.entry.dup = TRUE /\ r.entry.msg = x
      BY DEF Published
    <3>2. PICK m \in new : same(m, r)
      BY <1>4
    <3>3. m.entry.dup = TRUE
      BY <1>7, <3>1, <3>2
    <3> QED  BY <3>1, <3>2, <3>3 DEF Published
  <2>3. ASSUME NEW x \in W(rows) \ W(new)
        PROVE  x \in H(new)
    <3>1. PICK r \in rows : r.entry.type = "Publish" /\ r.entry.msg = x /\ r.entry.mid \in mids
      BY <1>10
    <3>2. PICK m \in new : same(m, r)
      BY <1>4
    <3>3. m.entry.dup = TRUE
      BY <1>7, <3>1, <3>2
    <3> QED  BY <3>1, <3>2, <3>3 DEF Published
  <2> HIDE DEF H, W
  <2> QED  BY <2>1, <2>2, <2>3
\* the entries that are marked come before those that are not
<1>12. ASSUME NEW x \in W(rows) \ W(new), NEW y \in W(new)
       PROVE  x < y
  <2>1. PICK r \in rows : r.entry.type = "Publish" /\ r.entry.msg = x /\ r.entry.mid \in mids
    BY <1>10
  <2>2. PICK q \in rows : /\ q.entry.type = "Publish" /\ q.entry.dup = FALSE
                          /\ q.entry.msg = y /\ q.entry.mid \notin mids
    BY <1>8
  <2>3. PICK i \in DOMAIN Queue : r.entry = Queue[i] /\ i <= k
    BY <1>5, <2>1
  <2>4. PICK j \in DOMAIN Queue : q.entry = Queue[j] /\ ~(j <= k)
    BY <1>5, <2>2
  <2>5. i < j
    BY <1>1, <1>3, <2>3, <2>4
  <2>6. r.id < q.id
    BY <1>3, <2>3, <2>4, <2>5 DEF Mirrors, rows
  <2> QED  BY <1>3, <2>1, <2>2, <2>6 DEF RowsOK, rows
<1>13. Released(new) = Released(rows)
  <2>1. ASSUME NEW x
        PROVE  (\E r \in rows : r.entry.type = "PubRec" /\ r.entry.mid = x)
                  <=> \E m \in new : m.entry.type = "PubRec" /\ m.entry.mid = x
    BY <1>4
  <2>2. \A x : x \in Released(new) <=> x \in Released(rows)
    BY <2>1, ReleasedHas
  <2> QED  BY <2>2
<1>14. Box!Hands
  <2> HIDE DEF W, H
  <2>1. /\ W(new) \subseteq W(rows)
        /\ H(new) = H(rows) \cup (W(rows) \ W(new))
        /\ \A x \in W(rows) \ W(new), y \in W(new) : x < y
    BY <1>9, <1>11, <1>12
  <2> QED  BY <2>1 DEF Box!Hands, W, H, rows, new
<1>15. CASE db'.qosin = db.qosin
  <2>1. Box!HandOver
    BY <1>2, <1>13, <1>14, <1>15 DEF Box!HandOver, rows, new
  <2> QED  BY <2>1 DEF BoxStep, Box!Next
<1>16. CASE db'.qosin = {}
  <2>1. Box!Reset
    BY <1>2, <1>13, <1>14, <1>16 DEF Box!Reset, rows, new
  <2> QED  BY <2>1 DEF BoxStep, Box!Next
<1> QED  BY <1>2, <1>15, <1>16

\* A clean session.
LEMMA EmptiesStep ==
  ASSUME Empties
  PROVE  BoxStep
<1>1. /\ Published(db'.qosout, FALSE) = {} /\ Published(db'.qosout, TRUE) = {}
      /\ Released(db'.qosout) = {}
  BY DEF Empties, Published, Released
<1>2. Box!Reset
  BY <1>1 DEF Empties, Box!Reset
<1> QED  BY <1>2 DEF BoxStep, Box!Next

\* The first start finds an empty box.
LEMMA InitStep ==
  ASSUME Init
  PROVE  Box!Init
<1>1. /\ Published(db.qosout, FALSE) = {} /\ Published(db.qosout, TRUE) = {}
      /\ Released(db.qosout) = {} /\ db.qosin = {} /\ hist.next = 1
  BY DEF Init, NewDb, NewHist, Published, Released
<1> QED  BY <1>1 DEF Box!Init

\* A session is a mailbox: whatever its handlers, failures, crashes and
\* restarts do, messages enter once and in order, are handed over oldest first,
\* and leave one at a time when they are confirmed, or with a clean session.
THEOREM SessionIsMailbox == Spec => ImplementsMailbox
<1>1. Init => Box!Init
  BY InitStep
<1>2. IndInv /\ [Next]_vars => [Box!Next]_(Box!vars)
  <2> SUFFICES ASSUME IndInv, [Next]_vars
               PROVE  BoxStep
    BY DEF BoxStep
  <2>1. Effect
    BY NextEffect
  <2> QED  BY <2>1, KeptStep, StoresStep, AcknowledgesStep, ShowsStep, EmptiesStep DEF Effect
<1> QED  BY <1>1, <1>2, Invariance, PTL DEF Spec, ImplementsMailbox, Box!Spec

=============================================================================
