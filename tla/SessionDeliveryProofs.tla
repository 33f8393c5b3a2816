------------------------ MODULE SessionDeliveryProofs ------------------------
(***************************************************************************)
(* What a client of SessionWorker can rely on: nothing it was not shown is *)
(* dropped, nothing it was not shown is called a duplicate, its QoS 2      *)
(* messages are routed once, and a session that is called new is empty.    *)
(*                                                                         *)
(* Every step is first reduced to what it does to the rows and the history *)
(* (Effect); the invariants, and SessionMailboxProofs, need only that.     *)
(***************************************************************************)
EXTENDS SessionWorkerProofs

-----------------------------------------------------------------------------
(* What a step does to the rows and the history. *)

\* The messages stored for the client are left alone.
OutgoingKept ==
    /\ db'.qosout = db.qosout
    /\ hist'.next = hist.next /\ hist'.unseen = hist.unseen
    /\ Regular => hist'.wire \subseteq hist.wire

\* The identifiers of the client's own QoS 2 messages are left alone,
IncomingKept == db'.qosin = db.qosin /\ hist'.recd = hist.recd

\* or one of them is stored or released.
IncomingMoves ==
    \E mid \in Mids :
       \/ db'.qosin = db.qosin \cup {mid} /\ hist'.recd \subseteq hist.recd \cup {mid}
       \/ db'.qosin = db.qosin \ {mid} /\ hist'.recd = hist.recd \ {mid}

\* internal_publish_message stores a new message under a free identifier.
StoresRow(e, id) ==
    /\ e.type = "Publish" /\ e.msg = hist.next /\ hist.next \in Msgs
    /\ \A r \in db.qosout : r.entry.mid # e.mid
    /\ db'.qosout = db.qosout \cup {[id |-> id, entry |-> e]}
    /\ hist'.next = hist.next + 1
    /\ \/ /\ ~e.dup
          /\ hist'.unseen = hist.unseen \cup {hist.next}
          /\ hist'.wire = hist.wire
       \/ /\ hist'.unseen = hist.unseen
          /\ hist'.wire \subseteq hist.wire \cup {<<Owes(e), e.mid>>}

Stores == \E e \in Entry : \E id : StoresRow(e, id)

\* An acknowledgement takes the row of its identifier, or a PUBREC replaces it;
\* a second PUBREC changes no row.
Rest(mid) == {r \in db.qosout : r.entry.mid # mid}

AnswersWith(mid, packet) ==
    LET left == hist.wire \ {<<packet, mid>>} IN
    /\ Disciplined => <<packet, mid>> \in hist.wire
    /\ hist'.next = hist.next /\ hist'.unseen = hist.unseen
    /\ \/ /\ db'.qosout = Rest(mid)
          /\ hist'.wire = left
       \/ /\ \E id : db'.qosout = Rest(mid) \cup {[id |-> id, entry |-> PubRecEntry(mid)]}
          /\ hist'.wire \subseteq left \cup {<<"PubComp", mid>>}
       \/ /\ \E r \in db.qosout : r.entry.mid = mid /\ r.entry.type = "PubRec"
          /\ db'.qosout = db.qosout
          /\ hist'.wire \subseteq left \cup {<<"PubComp", mid>>}

Acknowledges == \E mid \in Mids : \E packet : AnswersWith(mid, packet)

\* new_client_connected sends the first entries of the queue, and saves dup of
\* all of them or of all but the last; a clean session that fails early may
\* have forgotten the client's identifiers.
Shows ==
    /\ running
    /\ hist'.next = hist.next
    /\ \E taken \in 0 .. Len(Queue) : \E k \in 0 .. taken :
          /\ db'.qosout = Marked(db.qosout, DupMids(Queue, k))
          /\ hist'.unseen = hist.unseen \ {Queue[i].msg : i \in 1 .. taken}
          /\ hist'.wire \subseteq
                hist.wire \cup {<<Owes(Queue[i]), Queue[i].mid>> : i \in 1 .. taken}
    /\ \/ db'.qosin = db.qosin /\ hist'.recd \subseteq hist.recd
       \/ db'.qosin = {} /\ hist'.recd = {}

\* A clean session.
Empties ==
    /\ db'.qosout = {} /\ db'.qosin = {}
    /\ hist'.next = hist.next
    /\ hist'.unseen = {} /\ hist'.recd = {} /\ hist'.wire = {}

Effect ==
    \/ OutgoingKept /\ (IncomingKept \/ IncomingMoves)
    \/ (Stores \/ Acknowledges) /\ IncomingKept
    \/ Shows
    \/ Empties

-----------------------------------------------------------------------------
(* The effect of each action. *)

\* A failing call leaves the rows as they were before it,
LEMMA HaltKeeps ==
  ASSUME NEW d, NEW sent, Halt(d, sent)
  PROVE  db' = d /\ session' = NewSession
BY DEF Halt, Stop, Die

\* and a handler that returns leaves what it has saved.
LEMMA ContinueKeeps ==
  ASSUME NEW s, NEW d, NEW sent, Continue(s, d, sent)
  PROVE  db' = d /\ session' = s
BY DEF Continue

\* Steps that touch neither the rows of messages nor the history.
LEMMA NothingChanges ==
  ASSUME db'.qosout = db.qosout, db'.qosin = db.qosin, hist' = hist
  PROVE  Effect
BY DEF Effect, OutgoingKept, IncomingKept

\* A start only reads.
LEMMA StartEffect ==
  ASSUME IndInv, Start \/ StartFails
  PROVE  Effect
<1>1. db \in DbType
  BY DEF IndInv, TypeOK
<1>2. db' \in {db, [db EXCEPT !.exists = TRUE]} /\ hist' = hist
  BY DEF Start, StartFails, Continue
<1>3. db'.qosout = db.qosout /\ db'.qosin = db.qosin
  BY <1>1, <1>2 DEF DbType
<1> QED  BY <1>2, <1>3, NothingChanges

\* So do connections, crashes, stale messages and messages of QoS 0.
LEMMA IdleEffect ==
  ASSUME \/ \E generation : InternalPublishStale(generation)
         \/ InternalPublishQos0
         \/ \E c : ClientOpens(c) \/ ClientCloses(c)
         \/ \E topics : Unsubscribe(topics)
         \/ Crash
         \/ UNCHANGED vars
  PROVE  Effect
<1>1. db' = db /\ hist' = hist
  BY DEF InternalPublishStale, InternalPublishQos0, ClientOpens, ClientCloses, Unsubscribe,
         Crash, Halt, Stop, Die, Continue, vars
<1> QED  BY <1>1, NothingChanges

\* A SUBSCRIBE has retained messages sent, which are not stored.
LEMMA SubscribeEffect ==
  ASSUME IndInv, NEW topics, NEW retained \in Retained, NEW n, Subscribe(topics, retained, n)
  PROVE  Effect
<1> DEFINE some == {j \in DOMAIN retained : j < n /\ retained[j].qos > 0}
           owed == {<<Answer(retained[i].qos), retained[i].mid>> : i \in some}
<1>1. db' = db /\ hist' = [hist EXCEPT !.wire = @ \cup Owed(owed)]
  BY DEF Subscribe, Stop, Die
<1>2. Regular => owed = {}
  <2>1. Regular => some = {}
    BY DEF Regular
  <2> HIDE DEF some
  <2> QED  BY <2>1
<1> HIDE DEF owed
<1>3. hist \in HistType
  BY DEF IndInv, TypeOK
<1>4. /\ hist'.next = hist.next /\ hist'.unseen = hist.unseen /\ hist'.recd = hist.recd
      /\ hist'.wire = hist.wire \cup Owed(owed)
  BY <1>1, <1>3 DEF HistType
<1>5. Regular => hist'.wire \subseteq hist.wire
  BY <1>2, <1>4 DEF Owed
<1> QED  BY <1>1, <1>4, <1>5 DEF Effect, OutgoingKept, IncomingKept

\* What is left of the answers under way.
LEMMA AnsweredLeaves ==
  ASSUME hist \in HistType, NEW packet, NEW mid
  PROVE  /\ Answered(packet, mid).next = hist.next
         /\ Answered(packet, mid).unseen = hist.unseen
         /\ Answered(packet, mid).recd = hist.recd
         /\ Answered(packet, mid).wire = hist.wire \ {<<packet, mid>>}
BY DEF Answered, HistType

\* persist_qos_outgoing_delete.
LEMMA DeleteLeaves ==
  ASSUME db \in DbType, NEW mid
  PROVE  /\ persist_qos_outgoing_delete(db, mid).qosout = Rest(mid)
         /\ persist_qos_outgoing_delete(db, mid).qosin = db.qosin
BY DEF persist_qos_outgoing_delete, DbType, Rest

\* PUBACK and PUBCOMP take a row, or none.
LEMMA PubackEffect ==
  ASSUME IndInv, NEW mid \in Mids, Puback(mid) \/ Pubcomp(mid)
  PROVE  Effect
<1>1. PICK packet \in {"PubAck", "PubComp"} :
         ClientMayAnswer(packet, mid) /\ hist' = Answered(packet, mid)
  BY DEF Puback, Pubcomp
<1>2. /\ Disciplined => <<packet, mid>> \in hist.wire
      /\ db' = db \/ db' = persist_qos_outgoing_delete(db, mid)
  BY <1>1 DEF Puback, Pubcomp, qos_outgoing_remove, Halt, Stop, Die, Continue, ClientMayAnswer
<1>3. db \in DbType /\ hist \in HistType
  BY DEF IndInv, TypeOK
<1>4. /\ hist'.next = hist.next /\ hist'.unseen = hist.unseen /\ hist'.recd = hist.recd
      /\ hist'.wire = hist.wire \ {<<packet, mid>>}
  BY <1>1, <1>3, AnsweredLeaves
<1>5. CASE db' = db
  BY <1>4, <1>5 DEF Effect, OutgoingKept, IncomingKept
<1>6. CASE db' = persist_qos_outgoing_delete(db, mid)
  <2>1. db'.qosout = Rest(mid) /\ db'.qosin = db.qosin
    BY <1>3, <1>6, DeleteLeaves
  <2>2. Acknowledges
    BY <1>2, <1>4, <2>1 DEF Acknowledges, AnswersWith
  <2> QED  BY <1>4, <2>1, <2>2 DEF Effect, IncomingKept
<1> QED  BY <1>2, <1>5, <1>6

\* An identifier that is not in the queue has no row.
LEMMA NotQueued ==
  ASSUME IndInv, running, NEW mid
  PROVE  /\ mid \notin session.qos_outgoing => \A r \in db.qosout : r.entry.mid # mid
         /\ ~Queued(mid) => \A r \in db.qosout : r.entry.mid # mid
<1>1. Mirrors(Queue, db.qosout) /\ session.qos_outgoing = MidsOf(Queue)
  BY Loop
<1>2. ASSUME NEW r \in db.qosout, r.entry.mid = mid
      PROVE  mid \in session.qos_outgoing /\ Queued(mid)
  <2>1. PICK i \in DOMAIN Queue : r.entry = Queue[i]
    BY <1>1 DEF Mirrors
  <2>2. mid \in MidsOf(Queue)
    BY <1>2, <2>1 DEF MidsOf
  <2> QED  BY <1>1, <1>2, <2>1, <2>2 DEF Queued
<1> QED  BY <1>2

\* An identifier that is has the row that its entry tells.
LEMMA QueuedRow ==
  ASSUME IndInv, running, NEW mid, Queued(mid)
  PROVE  \E r \in db.qosout : r.entry = Queue[Position(mid)] /\ r.entry.mid = mid
<1>1. Position(mid) \in DOMAIN Queue /\ Queue[Position(mid)].mid = mid
  BY PositionFinds
<1>2. Mirrors(Queue, db.qosout)
  BY Loop
<1>3. PICK r \in db.qosout : r.entry = Queue[Position(mid)]
  BY <1>1, <1>2 DEF Mirrors
<1> QED  BY <1>1, <1>3

\* PUBREC replaces a row, adds one or finds one of its own.
LEMMA PubrecEffect ==
  ASSUME IndInv, NEW mid \in Mids, Pubrec(mid)
  PROVE  Effect
<1> DEFINE isPublish == Queued(mid) /\ Queue[Position(mid)].type = "Publish"
           isPubRec  == Queued(mid) /\ ~isPublish
           del  == persist_qos_outgoing_delete(db, mid)
           d1   == IF isPublish THEN del ELSE db
           d2   == IF isPubRec THEN db ELSE persist_qos_outgoing_store(d1, PubRecEntry(mid))
           left == hist.wire \ {<<"PubRec", mid>>}
           more == left \cup {<<"PubComp", mid>>}
           answered == Answered("PubRec", mid)
<1>1. /\ running
      /\ Disciplined => <<"PubRec", mid>> \in hist.wire
      /\ \/ db' = db /\ hist' = answered
         \/ isPublish /\ db' = del /\ hist' = answered
         \/ /\ db' = d2
            /\ hist' \in {answered, [answered EXCEPT !.wire = @ \cup Owed({<<"PubComp", mid>>})]}
  BY DEF Pubrec, ClientMayAnswer, Halt, Stop, Die, Continue
<1>2. db \in DbType /\ hist \in HistType /\ db.qosout \in SUBSET Row
  BY DEF IndInv, TypeOK, DbType
<1>3. /\ answered.next = hist.next /\ answered.unseen = hist.unseen
      /\ answered.recd = hist.recd /\ answered.wire = left
      /\ answered \in HistType
  BY <1>2, AnsweredLeaves, AnsweredOK
<1> HIDE DEF answered
<1>4. /\ hist'.next = hist.next /\ hist'.unseen = hist.unseen /\ hist'.recd = hist.recd
      /\ hist'.wire \subseteq more
      /\ hist' = answered => hist'.wire = left
  <2>1. Owed({<<"PubComp", mid>>}) \subseteq {<<"PubComp", mid>>}
    BY DEF Owed
  <2>2. CASE hist' = answered
    BY <1>3, <2>2
  <2>3. CASE hist' = [answered EXCEPT !.wire = @ \cup Owed({<<"PubComp", mid>>})]
    BY <1>3, <2>1, <2>3 DEF HistType
  <2> QED  BY <1>1, <2>2, <2>3
<1>5. del.qosout = Rest(mid) /\ del.qosin = db.qosin /\ del \in DbType
  <2>1. Rest(mid) \subseteq db.qosout
    BY DEF Rest
  <2> QED  BY <1>2, <2>1, DeleteLeaves DEF persist_qos_outgoing_delete, DbType, Rest
<1> HIDE DEF del
<1>6. CASE db' = db /\ hist' = answered
  BY <1>4, <1>6 DEF Effect, OutgoingKept, IncomingKept
<1>7. CASE db' = del /\ hist' = answered
  <2>1. Acknowledges
    BY <1>1, <1>4, <1>5, <1>7 DEF Acknowledges, AnswersWith
  <2> QED  BY <1>4, <1>5, <1>7, <2>1 DEF Effect, IncomingKept
<1>8. CASE db' = d2 /\ isPubRec
  <2>1. db' = db
    BY <1>8
  <2>2. PICK r \in db.qosout : r.entry = Queue[Position(mid)] /\ r.entry.mid = mid
    BY <1>1, <1>8, QueuedRow
  <2>3. r.entry.type = "PubRec"
    BY <1>2, <1>8, <2>2, RowShape, EntryShape
  <2>4. Acknowledges
    BY <1>1, <1>4, <2>1, <2>2, <2>3 DEF Acknowledges, AnswersWith
  <2> QED  BY <1>4, <2>1, <2>4 DEF Effect, IncomingKept
<1>9. CASE db' = d2 /\ ~isPubRec
  <2>1. d1 \in DbType /\ d1.qosout = Rest(mid) /\ d1.qosin = db.qosin
    <3>1. CASE isPublish
      BY <1>5, <3>1
    <3>2. CASE ~isPublish
      <4>1. \A r \in db.qosout : r.entry.mid # mid
        BY <1>1, <1>9, <3>2, NotQueued
      <4> QED  BY <1>2, <3>2, <4>1 DEF Rest
    <3> QED  BY <3>1, <3>2
  <2>2. db' = persist_qos_outgoing_store(d1, PubRecEntry(mid))
    BY <1>9
  <2> HIDE DEF d1, d2
  <2>3. /\ db'.qosout = d1.qosout \cup {[id |-> NextRowId(d1.qosout), entry |-> PubRecEntry(mid)]}
        /\ db'.qosin = d1.qosin
    BY <2>1, <2>2 DEF persist_qos_outgoing_store, DbType
  <2>4. \E id : db'.qosout = Rest(mid) \cup {[id |-> id, entry |-> PubRecEntry(mid)]}
    BY <2>1, <2>3
  <2>5. Acknowledges
    BY <1>1, <1>4, <2>4 DEF Acknowledges, AnswersWith
  <2> QED  BY <1>4, <2>1, <2>3, <2>5 DEF Effect, IncomingKept
<1> QED
  <2> HIDE DEF isPublish, isPubRec, d2
  <2> QED  BY <1>1, <1>6, <1>7, <1>8, <1>9

\* PUBREL releases an identifier.
LEMMA PubrelEffect ==
  ASSUME IndInv, NEW mid \in Mids, Pubrel(mid)
  PROVE  Effect
<1>1. db \in DbType /\ hist \in HistType
  BY DEF IndInv, TypeOK
<1>2. \/ db' = db /\ hist' = hist
      \/ /\ db' = persist_qos_incoming_delete(db, mid)
         /\ hist' = [hist EXCEPT !.recd = @ \ {mid}]
  BY DEF Pubrel, Halt, Stop, Die, Continue
<1>3. CASE db' = db /\ hist' = hist
  BY <1>3, NothingChanges
<1>4. CASE /\ db' = persist_qos_incoming_delete(db, mid)
           /\ hist' = [hist EXCEPT !.recd = @ \ {mid}]
  <2>1. db'.qosout = db.qosout /\ db'.qosin = db.qosin \ {mid}
    BY <1>1, <1>4 DEF persist_qos_incoming_delete, DbType
  <2>2. /\ hist'.next = hist.next /\ hist'.unseen = hist.unseen /\ hist'.wire = hist.wire
        /\ hist'.recd = hist.recd \ {mid}
    BY <1>1, <1>4 DEF HistType
  <2> QED  BY <2>1, <2>2 DEF Effect, OutgoingKept, IncomingMoves
<1> QED  BY <1>2, <1>3, <1>4

\* A PUBLISH of QoS 2 stores one, or finds it stored.
LEMMA PublishEffect ==
  ASSUME IndInv, NEW mid \in Mids, NEW qos, Publish(mid, qos)
  PROVE  Effect
<1> DEFINE held == IF qos = 2 /\ Connected THEN [hist EXCEPT !.recd = @ \cup {mid}] ELSE hist
<1>1. /\ running
      /\ \/ db' = db /\ hist' = hist
         \/ /\ \/ db' = persist_qos_incoming_store(db, mid)
               \/ db' = db /\ mid \in session.qos_incoming
            /\ hist' = held
  BY DEF Publish, ClientMayPublish, Halt, Stop, Die, Continue
<1>2. db \in DbType /\ hist \in HistType /\ db.qosin = session.qos_incoming
  BY <1>1, Loop
<1>3. CASE db' = db /\ hist' = hist
  BY <1>3, NothingChanges
<1>4. CASE /\ \/ db' = persist_qos_incoming_store(db, mid)
              \/ db' = db /\ mid \in session.qos_incoming
           /\ hist' = held
  <2>1. db'.qosout = db.qosout /\ db'.qosin = db.qosin \cup {mid}
    BY <1>2, <1>4 DEF persist_qos_incoming_store, DbType
  <2>2. /\ hist'.next = hist.next /\ hist'.unseen = hist.unseen /\ hist'.wire = hist.wire
        /\ hist'.recd \subseteq hist.recd \cup {mid}
    BY <1>2, <1>4 DEF HistType
  <2> QED  BY <2>1, <2>2 DEF Effect, OutgoingKept, IncomingMoves
<1> QED  BY <1>1, <1>3, <1>4

\* Marking one new row.
LEMMA MarkedNewRow ==
  ASSUME NEW rows, NEW id, NEW e, \A r \in rows : r.entry.mid # e.mid
  PROVE  Marked(rows \cup {[id |-> id, entry |-> e]}, {e.mid})
           = rows \cup {[id |-> id, entry |-> [e EXCEPT !.dup = TRUE]]}
<1> DEFINE row == [id |-> id, entry |-> e]
           dup == [id |-> id, entry |-> [e EXCEPT !.dup = TRUE]]
           mark(r) == IF r.entry.mid \in {e.mid} THEN [r EXCEPT !.entry.dup = TRUE] ELSE r
<1>1. \A r \in rows : mark(r) = r
  OBVIOUS
<1>2. mark(row) = dup
  OBVIOUS
<1>3. Marked(rows \cup {row}, {e.mid}) = {mark(r) : r \in rows \cup {row}}
  BY DEF Marked
<1> HIDE DEF mark, row, dup
<1>4. {mark(r) : r \in rows \cup {row}} = rows \cup {dup}
  BY <1>1, <1>2
<1> QED  BY <1>3, <1>4 DEF row, dup

\* A routed message is stored, and sent when a client is there.
LEMMA InternalPublishEffect ==
  ASSUME IndInv, NEW qos \in {1, 2}, InternalPublish(qos)
  PROVE  Effect
<1> DEFINE mid     == session.next_message_id
           advance == NextMid(mid)
           entry   == PublishEntry(mid, qos, hist.next)
           dup     == [entry EXCEPT !.dup = TRUE]
           d1      == persist_update_session_mid(db, advance)
           d2      == persist_qos_outgoing_store(d1, entry)
           d3      == persist_qos_outgoing_update_dup(d2, {mid})
           stored  == [hist EXCEPT !.next = @ + 1, !.unseen = @ \cup {hist.next}]
           shown   == [hist EXCEPT !.next = @ + 1,
                                   !.wire = @ \cup Owed({<<Answer(qos), mid>>})]
           id      == NextRowId(db.qosout)
<1>1. /\ running
      /\ hist.next \in Msgs
      /\ \/ db' = db /\ hist' = hist
         \/ db' = d1 /\ hist' = hist
         \/ mid \notin session.qos_outgoing /\ db' \in {d2, d3} /\ hist' = shown
         \/ mid \notin session.qos_outgoing /\ db' = d2 /\ hist' = stored
  BY DEF InternalPublish, Halt, Stop, Die, Continue
<1>2. /\ session \in SessionType /\ db \in DbType /\ hist \in HistType
  BY <1>1, Loop
<1>3. mid \in Mids
  BY <1>2 DEF SessionType
<1>4. /\ d1.qosout = db.qosout /\ d1.qosin = db.qosin
      /\ d2.qosout = db.qosout \cup {[id |-> id, entry |-> entry]} /\ d2.qosin = db.qosin
      /\ d3.qosout = Marked(d2.qosout, {mid}) /\ d3.qosin = db.qosin
  <2> DEFINE row == [id |-> id, entry |-> entry]
  <2>1. /\ d1 = [db EXCEPT !.next_mid = advance]
        /\ d1.qosout = db.qosout /\ d1.qosin = db.qosin
    BY <1>2 DEF persist_update_session_mid, DbType
  <2>2. d2 = [d1 EXCEPT !.qosout = d1.qosout \cup {row}]
    BY <2>1 DEF persist_qos_outgoing_store
  <2>3. DOMAIN d1 = DOMAIN db
    BY <2>1
  <2>4. "qosout" \in DOMAIN db /\ "qosin" \in DOMAIN db
    BY <1>2 DEF DbType
  <2> HIDE DEF row, d1
  <2>5. d2.qosout = db.qosout \cup {row} /\ d2.qosin = db.qosin /\ DOMAIN d2 = DOMAIN db
    BY <2>1, <2>2, <2>3, <2>4
  <2>6. d3 = [d2 EXCEPT !.qosout = Marked(d2.qosout, {mid})]
    BY DEF persist_qos_outgoing_update_dup
  <2> HIDE DEF d2
  <2>7. d3.qosout = Marked(d2.qosout, {mid}) /\ d3.qosin = db.qosin
    BY <2>4, <2>5, <2>6
  <2> QED  BY <2>1, <2>5, <2>7 DEF row
<1>5. /\ entry \in Entry /\ entry.mid = mid /\ entry.type = "Publish" /\ ~entry.dup
      /\ entry.msg = hist.next /\ Owes(entry) = Answer(qos)
      /\ dup \in Entry /\ dup.mid = mid /\ dup.type = "Publish"
      /\ dup.msg = hist.next /\ Owes(dup) = Answer(qos)
  <2>1. entry \in [type : {"Publish"}, mid : Mids, qos : {1, 2}, dup : BOOLEAN, msg : Msgs]
    BY <1>1, <1>3 DEF PublishEntry
  <2>2. /\ entry.mid = mid /\ entry.type = "Publish" /\ entry.msg = hist.next
        /\ entry.dup = FALSE /\ entry.qos = qos
    BY DEF PublishEntry
  <2> HIDE DEF entry, mid
  <2>3. /\ dup \in [type : {"Publish"}, mid : Mids, qos : {1, 2}, dup : BOOLEAN, msg : Msgs]
        /\ dup.mid = mid /\ dup.type = "Publish" /\ dup.msg = hist.next /\ dup.qos = qos
    BY <2>1, <2>2
  <2> QED  BY <2>1, <2>2, <2>3 DEF Entry, Owes
<1>6. /\ shown.next = hist.next + 1 /\ shown.unseen = hist.unseen /\ shown.recd = hist.recd
      /\ shown.wire \subseteq hist.wire \cup {<<Answer(qos), mid>>}
      /\ stored.next = hist.next + 1 /\ stored.unseen = hist.unseen \cup {hist.next}
      /\ stored.recd = hist.recd /\ stored.wire = hist.wire
  <2>1. Owed({<<Answer(qos), mid>>}) \subseteq {<<Answer(qos), mid>>}
    BY DEF Owed
  <2> HIDE DEF mid
  <2> QED  BY <1>2, <2>1 DEF HistType
<1> HIDE DEF d1, d2, d3, entry, dup, shown, stored, mid, id
<1>7. CASE hist' = hist /\ (db' = db \/ db' = d1)
  BY <1>4, <1>7, NothingChanges
<1>8. CASE mid \notin session.qos_outgoing /\ db' \in {d2, d3} /\ hist' = shown
  <2>1. \A r \in db.qosout : r.entry.mid # mid
    BY <1>1, <1>8, NotQueued
  <2>2. d3.qosout = db.qosout \cup {[id |-> id, entry |-> dup]}
    <3>1. d3.qosout = Marked(db.qosout \cup {[id |-> id, entry |-> entry]}, {entry.mid})
      BY <1>4, <1>5
    <3>2. \A r \in db.qosout : r.entry.mid # entry.mid
      BY <1>5, <2>1
    <3>3. Marked(db.qosout \cup {[id |-> id, entry |-> entry]}, {entry.mid})
             = db.qosout \cup {[id |-> id, entry |-> [entry EXCEPT !.dup = TRUE]]}
      BY <3>2, MarkedNewRow
    <3> QED  BY <3>1, <3>3 DEF dup
  <2>3. PICK e \in {entry, dup} : db'.qosout = db.qosout \cup {[id |-> id, entry |-> e]}
    BY <1>4, <1>8, <2>2
  <2>4. Stores
    BY <1>1, <1>5, <1>6, <1>8, <2>1, <2>3 DEF Stores, StoresRow
  <2>5. IncomingKept
    BY <1>4, <1>6, <1>8 DEF IncomingKept
  <2> QED  BY <2>4, <2>5 DEF Effect
<1>9. CASE mid \notin session.qos_outgoing /\ db' = d2 /\ hist' = stored
  <2>1. \A r \in db.qosout : r.entry.mid # mid
    BY <1>1, <1>9, NotQueued
  <2>2. Stores
    BY <1>1, <1>4, <1>5, <1>6, <1>9, <2>1 DEF Stores, StoresRow
  <2>3. IncomingKept
    BY <1>4, <1>6, <1>9 DEF IncomingKept
  <2> QED  BY <2>2, <2>3 DEF Effect
<1> QED  BY <1>1, <1>7, <1>8, <1>9

\* clean_session after its first calls.
LEMMA CleanLeaves ==
  ASSUME IndInv, running, NEW calls \in 0 .. 4
  PROVE  LET s == CleanSession(calls)
             d == CleanDb(calls)
         IN  /\ d.qosin = (IF calls >= 1 THEN {} ELSE db.qosin)
             /\ d.qosout = (IF calls >= 2 THEN {} ELSE db.qosout)
             /\ s.qos_outgoing_messages = (IF calls >= 2 THEN <<>> ELSE Queue)
             /\ s.qos_incoming = (IF calls >= 1 THEN {} ELSE session.qos_incoming)
             /\ s.subscriptions = (IF calls >= 2 THEN {} ELSE session.subscriptions)
             /\ DOMAIN d = DOMAIN db /\ DOMAIN s = DOMAIN session
<1>1. session \in SessionType /\ db \in DbType
  BY Loop
<1> QED  BY <1>1 DEF CleanSession, CleanDb, SessionType, DbType, Queue

\* Nothing is marked when nothing was sent, and no row where there is none.
LEMMA MarkedNone ==
  ASSUME NEW rows, NEW queue \in Seq(Entry)
  PROVE  Marked(rows, DupMids(queue, 0)) = rows /\ \A mids : Marked({}, mids) = {}
<1>1. \A i \in DOMAIN queue : ~(i <= 0)
  BY LenProperties
<1>2. DupMids(queue, 0) = {}
  BY <1>1 DEF DupMids
<1> QED  BY <1>2 DEF Marked

\* A new client is shown the queue, or finds it empty.
LEMMA NewClientEffect ==
  ASSUME IndInv, NEW c \in Conns, NEW cleanFlag \in BOOLEAN, NEW calls \in 0 .. 4,
         NEW n \in Nat, NewClient(c, cleanFlag, calls, n)
  PROVE  Effect
<1> DEFINE s       == IF cleanFlag THEN CleanSession(calls) ELSE session
           d       == IF cleanFlag THEN CleanDb(calls) ELSE db
           ok      == calls = 4
           queue   == s.qos_outgoing_messages
           sends   == <<ConnAck(ok, ~s.clean)>> \o Redelivery(queue)
           taken   == IF n = 0 THEN 0 ELSE n - 1
           saved(k) == persist_qos_outgoing_update_dup(d, DupMids(queue, k))
           owed    == {<<IF queue[i].type = "Publish" THEN Answer(queue[i].qos)
                                                      ELSE "PubComp", queue[i].mid>> :
                          i \in 1 .. taken}
           shown   == {queue[i].msg : i \in 1 .. taken}
           emptied == cleanFlag /\ calls >= 2
           seen    == [hist EXCEPT
                         !.unseen = IF emptied THEN {} ELSE @ \ shown,
                         !.recd = IF cleanFlag THEN {} ELSE @,
                         !.wire = (IF cleanFlag THEN {} ELSE @) \cup Owed(owed)]
<1>1. /\ running /\ hist' = seen /\ n \in CanDeliver(c, sends)
      /\ \/ db' = d /\ n = 0
         \/ db' = saved(taken)
         \/ taken > 0 /\ \E last \in {taken - 1, taken} : db' = saved(last)
  <2>1. /\ running /\ hist' = seen /\ n \in CanDeliver(c, sends)
        /\ \/ db' = saved(taken)
           \/ \E client, opened, sent : Stop(client, opened, saved(taken), sent)
           \/ n = 0 /\ \E sent : Die(d, sent)
           \/ /\ taken > 0
              /\ \E last \in {taken - 1, taken} : \E sent :
                    Stop(c, open, saved(last), sent) \/ Die(saved(last), sent)
    BY DEF NewClient
  <2> HIDE DEF saved, d, seen, taken, sends
  <2> QED  BY <2>1 DEF Stop, Die
<1>2. /\ session \in SessionType /\ db \in DbType /\ hist \in HistType
      /\ Queue \in Seq(Entry)
  BY <1>1, Loop
<1>3. /\ d.qosout = (IF emptied THEN {} ELSE db.qosout)
      /\ queue = (IF emptied THEN <<>> ELSE Queue)
      /\ IF cleanFlag /\ calls >= 1 THEN d.qosin = {} ELSE d.qosin = db.qosin
      /\ DOMAIN d = DOMAIN db
  <2>1. CASE cleanFlag
    <3>1. s = CleanSession(calls) /\ d = CleanDb(calls)
      BY <2>1
    <3> HIDE DEF s, d
    <3> QED  BY <1>1, <2>1, <3>1, CleanLeaves
  <2>2. CASE ~cleanFlag
    BY <2>2 DEF Queue
  <2> QED  BY <2>1, <2>2
<1> HIDE DEF s, d
<1>4. queue \in Seq(Entry)
  BY <1>2, <1>3, EmptySeq
<1> HIDE DEF queue
<1>5. taken \in 0 .. Len(queue) /\ Len(queue) \in Nat
  <2> DEFINE first == <<ConnAck(ok, ~s.clean)>>
             rest  == Redelivery(queue)
  <2>1. Len(queue) \in Nat
    BY <1>4, LenProperties
  <2> DEFINE S == Message \cup {ConnAck(ok, ~s.clean)}
  <2>2. first \in Seq(S) /\ Len(first) = 1
    OBVIOUS
  <2>3. rest \in Seq(S) /\ Len(rest) = Len(queue)
    <3>1. rest \in Seq(Message) /\ Len(rest) = Len(queue)
      BY <1>4, RedeliveryOK
    <3>2. Message \subseteq S
      OBVIOUS
    <3> HIDE DEF rest, S
    <3> QED  BY <3>1, <3>2
  <2> HIDE DEF first, rest, S
  <2>4. Len(first \o rest) = Len(first) + Len(rest)
    BY <2>2, <2>3, ConcatLength
  <2>5. Len(sends) = 1 + Len(queue)
    BY <2>2, <2>3, <2>4 DEF first, rest
  <2> HIDE DEF sends
  <2> QED  BY <1>1, <2>1, <2>5 DEF CanDeliver
<1>6. \A k : saved(k).qosout = Marked(d.qosout, DupMids(queue, k)) /\ saved(k).qosin = d.qosin
  <2>1. "qosout" \in DOMAIN d /\ "qosin" \in DOMAIN d
    BY <1>2, <1>3 DEF DbType
  <2> QED  BY <2>1 DEF persist_qos_outgoing_update_dup
<1>7. PICK k \in 0 .. taken : db'.qosout = Marked(d.qosout, DupMids(queue, k)) /\ db'.qosin = d.qosin
  <2> HIDE DEF saved
  <2>1. CASE db' = d /\ n = 0
    <3>1. taken = 0 /\ Marked(d.qosout, DupMids(queue, 0)) = d.qosout
      BY <1>4, <2>1, MarkedNone
    <3> QED  BY <2>1, <3>1
  <2>2. CASE db' = saved(taken)
    <3> HIDE DEF taken
    <3> QED  BY <1>5, <1>6, <2>2
  <2>3. CASE taken > 0 /\ \E last \in {taken - 1, taken} : db' = saved(last)
    <3> HIDE DEF taken
    <3>1. PICK last \in {taken - 1, taken} : db' = saved(last)
      BY <2>3
    <3>2. last \in 0 .. taken
      BY <1>5, <2>3, <3>1
    <3> QED  BY <1>6, <3>1, <3>2
  <2> QED  BY <1>1, <2>1, <2>2, <2>3
<1>8. /\ hist'.next = hist.next
      /\ hist'.unseen = (IF emptied THEN {} ELSE hist.unseen \ shown)
      /\ hist'.recd = (IF cleanFlag THEN {} ELSE hist.recd)
      /\ hist'.wire = (IF cleanFlag THEN {} ELSE hist.wire) \cup Owed(owed)
      /\ Owed(owed) \subseteq owed
  <2> HIDE DEF owed, shown, emptied
  <2> QED  BY <1>1, <1>2 DEF HistType, Owed
<1>9. owed = {<<Owes(queue[i]), queue[i].mid>> : i \in 1 .. taken}
  BY DEF Owes
<1>10. CASE emptied
  <2>1. taken = 0
    <3>1. Len(queue) = 0
      BY <1>3, <1>10
    <3> QED  BY <1>5, <3>1
  <2>2. owed = {}
    BY <2>1
  <2> HIDE DEF owed, taken
  <2>3. hist'.wire = {} /\ hist'.unseen = {} /\ hist'.recd = {}
    BY <1>8, <1>10, <2>2
  <2>4. db'.qosout = {} /\ db'.qosin = {}
    <3>1. d.qosout = {} /\ d.qosin = {}
      BY <1>3, <1>10
    <3> QED  BY <1>4, <1>7, <3>1, MarkedNone
  <2> QED  BY <1>8, <2>3, <2>4 DEF Effect, Empties
<1>11. CASE ~emptied
  <2>1. queue = Queue /\ d.qosout = db.qosout
    BY <1>3, <1>11
  <2> HIDE DEF taken
  <2>2. /\ hist'.unseen = hist.unseen \ {Queue[i].msg : i \in 1 .. taken}
        /\ hist'.wire \subseteq
              hist.wire \cup {<<Owes(Queue[i]), Queue[i].mid>> : i \in 1 .. taken}
    <3>1. shown = {Queue[i].msg : i \in 1 .. taken}
      BY <2>1
    <3>2. owed = {<<Owes(Queue[i]), Queue[i].mid>> : i \in 1 .. taken}
      BY <1>9, <2>1
    <3> HIDE DEF shown, owed, emptied
    <3> QED  BY <1>8, <1>11, <3>1, <3>2
  <2>3. db'.qosout = Marked(db.qosout, DupMids(Queue, k))
    BY <1>7, <2>1
  <2>4. \/ db'.qosin = db.qosin /\ hist'.recd \subseteq hist.recd
        \/ db'.qosin = {} /\ hist'.recd = {}
    BY <1>3, <1>7, <1>8
  <2>5. taken \in 0 .. Len(Queue)
    BY <1>5, <2>1
  <2>6. Shows
    BY <1>1, <1>7, <1>8, <2>2, <2>3, <2>4, <2>5 DEF Shows
  <2> QED  BY <2>6 DEF Effect
<1> QED  BY <1>10, <1>11

\* The effect of any step.
LEMMA NextEffect ==
  ASSUME IndInv, [Next]_vars
  PROVE  Effect
<1>1. CASE Start \/ StartFails
  BY <1>1, StartEffect
<1>2. CASE \E mid \in Mids : Puback(mid) \/ Pubrec(mid) \/ Pubcomp(mid)
  BY <1>2, PubackEffect, PubrecEffect
<1>3. CASE \E mid \in ClientMids : Pubrel(mid) \/ \E qos \in 0 .. 2 : Publish(mid, qos)
  BY <1>3, ConstantsOK, PubrelEffect, PublishEffect
<1>4. CASE \E topics \in (SUBSET Topics) \ {{}} : Unsubscribe(topics)
  BY <1>4, IdleEffect
<1>5. CASE \E topics \in (SUBSET Topics) \ {{}} :
              \E retained \in Retained : \E n \in 0 .. (1 + Len(retained)) :
                 Subscribe(topics, retained, n)
  BY <1>5, SubscribeEffect
<1>6. CASE InternalMessage
  <2>1. CASE \E generation \in 0 .. MaxGeneration : InternalPublishStale(generation)
    BY <2>1, IdleEffect
  <2>2. CASE InternalPublishQos0
    BY <2>2, IdleEffect
  <2>3. CASE \E qos \in {1, 2} : InternalPublish(qos)
    BY <2>3, InternalPublishEffect
  <2> QED  BY <1>6, <2>1, <2>2, <2>3 DEF InternalMessage
<1>7. CASE \E c \in Conns : ClientOpens(c) \/ ClientCloses(c)
  BY <1>7, IdleEffect
<1>8. CASE \E c \in Conns : \E cleanFlag \in BOOLEAN, calls \in 0 .. 4, n \in 0 .. (1 + Len(Queue)) :
              NewClient(c, cleanFlag, calls, n)
  <2>1. PICK c \in Conns, cleanFlag \in BOOLEAN, calls \in 0 .. 4, n \in 0 .. (1 + Len(Queue)) :
           NewClient(c, cleanFlag, calls, n)
    BY <1>8
  <2>2. n \in Nat
    BY <2>1
  <2> QED  BY <2>1, <2>2, NewClientEffect
<1>9. CASE Crash
  BY <1>9, IdleEffect
<1>10. CASE UNCHANGED vars
  BY <1>10, IdleEffect
<1> QED
  BY <1>1, <1>2, <1>3, <1>4, <1>5, <1>6, <1>7, <1>8, <1>9, <1>10 DEF Next, ClientPacket

-----------------------------------------------------------------------------
(* The invariants, one lemma for each effect. *)

\* What IndInv says of the rows and the history.
LEMMA RowFacts ==
  ASSUME IndInv
  PROVE  /\ RowsOK(db.qosout) /\ hist \in HistType /\ hist.next \in Nat
         /\ \A m \in hist.unseen : m \in Msgs /\ m \in Nat /\ m # NoMsg
         /\ \A r \in db.qosout : /\ r.entry \in Entry /\ r.entry.msg \in Nat
                                 /\ r.entry.msg < hist.next
                                 /\ r.entry.type \in {"Publish", "PubRec"}
                                 /\ r.entry.type = "PubRec" => r.entry.msg = NoMsg
<1>1. /\ RowsOK(db.qosout) /\ hist \in HistType
      /\ \A r \in db.qosout : r.entry.msg < hist.next
  BY DEF IndInv, TypeOK, StoreOK
<1>2. hist.next \in Nat /\ \A m \in hist.unseen : m \in Msgs /\ m \in Nat /\ m # NoMsg
  BY <1>1, ConstantsOK DEF HistType, Msgs, NoMsg
<1>3. \A r \in db.qosout : r.entry \in Entry
  BY <1>1, RowShape DEF RowsOK
<1> QED  BY <1>1, <1>2, <1>3, EntryShape

\* The part of HandshakeInv about rows and history.
Shown ==
    /\ \A m \in hist.unseen : m < hist.next
    /\ DupWasSent
    /\ hist.recd \subseteq db.qosin

\* Steps that leave the rows alone,
LEMMA KeptOK ==
  ASSUME IndInv, Shown, Regular => WireOK /\ UnsentIsStored,
         OutgoingKept, IncomingKept \/ IncomingMoves
  PROVE  Shown' /\ (Regular => WireOK' /\ UnsentIsStored')
<1>1. Shown'
  BY DEF Shown, DupWasSent, OutgoingKept, IncomingKept, IncomingMoves
<1>2. Regular => WireOK'
  BY DEF WireOK, OutgoingKept
<1>3. Regular => UnsentIsStored'
  BY DEF UnsentIsStored, OutgoingKept
<1> QED  BY <1>1, <1>2, <1>3

\* steps that store a message,
LEMMA StoresOK ==
  ASSUME IndInv, Shown, Regular => WireOK /\ UnsentIsStored, Stores, IncomingKept
  PROVE  Shown' /\ (Regular => WireOK' /\ UnsentIsStored')
<1>0. PICK e \in Entry : \E id : StoresRow(e, id)
  BY DEF Stores, StoresRow
<1>a. PICK id : StoresRow(e, id)
  BY <1>0
<1>1. /\ e.type = "Publish" /\ e.msg = hist.next /\ hist.next \in Msgs
      /\ \A r \in db.qosout : r.entry.mid # e.mid
      /\ db'.qosout = db.qosout \cup {[id |-> id, entry |-> e]}
      /\ hist'.next = hist.next + 1
      /\ \/ /\ ~e.dup
            /\ hist'.unseen = hist.unseen \cup {hist.next}
            /\ hist'.wire = hist.wire
         \/ /\ hist'.unseen = hist.unseen
            /\ hist'.wire \subseteq hist.wire \cup {<<Owes(e), e.mid>>}
  BY <1>a DEF StoresRow
<1> DEFINE row == [id |-> id, entry |-> e]
<1>2. row.entry = e /\ row \in db'.qosout
  BY <1>1
<1>3. /\ hist.next \in Nat
      /\ \A r \in db.qosout : r.entry.msg \in Nat /\ r.entry.msg < hist.next
      /\ \A m \in hist.unseen : m \in Nat
  BY RowFacts
<1> HIDE DEF row
<1>4. \A m \in hist.unseen : m < hist.next
  BY DEF Shown
<1>5. hist.next \notin hist.unseen /\ \A r \in db.qosout : r.entry.msg # hist.next
  BY <1>3, <1>4
<1>6. \A m \in hist'.unseen : m < hist'.next
  BY <1>1, <1>3, <1>4
<1>7. DupWasSent'
  <2> SUFFICES ASSUME NEW r \in db'.qosout, r.entry.dup
               PROVE  r.entry.msg \notin hist'.unseen
    BY DEF DupWasSent
  <2>1. CASE r \in db.qosout
    BY <1>1, <1>5, <2>1 DEF Shown, DupWasSent
  <2>2. CASE r = row
    BY <1>1, <1>2, <1>5, <2>2
  <2> QED  BY <1>1, <2>1, <2>2 DEF row
<1>8. Shown'
  BY <1>6, <1>7 DEF Shown, IncomingKept
<1>9. ASSUME Regular PROVE WireOK'
  <2> SUFFICES ASSUME NEW w \in hist'.wire
               PROVE  \E r \in db'.qosout : /\ r.entry.mid = w[2] /\ w[1] = Owes(r.entry)
                                            /\ r.entry.msg \notin hist'.unseen
    BY DEF WireOK
  <2>1. CASE w \in hist.wire
    <3>1. PICK r \in db.qosout :
             r.entry.mid = w[2] /\ w[1] = Owes(r.entry) /\ r.entry.msg \notin hist.unseen
      BY <1>9, <2>1 DEF WireOK
    <3> QED  BY <1>1, <1>5, <3>1
  <2>2. CASE w = <<Owes(e), e.mid>> /\ hist'.unseen = hist.unseen
    BY <1>1, <1>2, <1>5, <2>2
  <2> QED  BY <1>1, <2>1, <2>2
<1>10. ASSUME Regular PROVE UnsentIsStored'
  <2> SUFFICES ASSUME NEW m \in hist'.unseen
               PROVE  \E r \in db'.qosout : m = r.entry.msg
    BY DEF UnsentIsStored
  <2>1. CASE m \in hist.unseen
    BY <1>1, <1>10, <2>1 DEF UnsentIsStored
  <2>2. CASE m = hist.next
    BY <1>1, <1>2, <2>2
  <2> QED  BY <1>1, <2>1, <2>2
<1> QED  BY <1>8, <1>9, <1>10

\* steps that acknowledge one,
LEMMA AcknowledgesOK ==
  ASSUME IndInv, Shown, Regular => WireOK /\ UnsentIsStored, Acknowledges, IncomingKept
  PROVE  Shown' /\ (Regular => WireOK' /\ UnsentIsStored')
<1>0. PICK mid \in Mids : \E packet : AnswersWith(mid, packet)
  BY DEF Acknowledges, AnswersWith
<1>a. PICK packet : AnswersWith(mid, packet)
  BY <1>0
<1>1. /\ Disciplined => <<packet, mid>> \in hist.wire
      /\ hist'.next = hist.next /\ hist'.unseen = hist.unseen
      /\ \/ /\ db'.qosout = Rest(mid)
            /\ hist'.wire = hist.wire \ {<<packet, mid>>}
         \/ /\ \E id : db'.qosout = Rest(mid) \cup {[id |-> id, entry |-> PubRecEntry(mid)]}
            /\ hist'.wire \subseteq (hist.wire \ {<<packet, mid>>}) \cup {<<"PubComp", mid>>}
         \/ /\ \E r \in db.qosout : r.entry.mid = mid /\ r.entry.type = "PubRec"
            /\ db'.qosout = db.qosout
            /\ hist'.wire \subseteq (hist.wire \ {<<packet, mid>>}) \cup {<<"PubComp", mid>>}
  BY <1>a DEF AnswersWith
<1>2. /\ RowsOK(db.qosout)
      /\ \A m \in hist.unseen : m # NoMsg
      /\ \A r \in db.qosout : r.entry.type = "PubRec" => r.entry.msg = NoMsg
  BY RowFacts
<1>3. /\ PubRecEntry(mid).mid = mid /\ PubRecEntry(mid).type = "PubRec"
      /\ PubRecEntry(mid).msg = NoMsg /\ PubRecEntry(mid).dup = FALSE
  BY DEF PubRecEntry
<1>4. \A r \in db'.qosout : r \in db.qosout \/ r.entry = PubRecEntry(mid)
  BY <1>1 DEF Rest
<1>5. Shown'
  <2>1. DupWasSent'
    BY <1>1, <1>3, <1>4 DEF Shown, DupWasSent
  <2> QED  BY <1>1, <2>1 DEF Shown, IncomingKept
\* the only answer under way for this identifier is this one, and its message was sent
<1>6. ASSUME Regular
      PROVE  /\ \A w \in hist.wire : w[2] = mid => w[1] = packet
             /\ \A r \in db.qosout : r.entry.mid = mid => r.entry.msg \notin hist.unseen
  <2>1. <<packet, mid>> \in hist.wire /\ WireOK
    BY <1>1, <1>6 DEF Regular
  <2>2. PICK r \in db.qosout :
           r.entry.mid = mid /\ packet = Owes(r.entry) /\ r.entry.msg \notin hist.unseen
    BY <2>1 DEF WireOK
  <2>3. \A r1 \in db.qosout : r1.entry.mid = mid => r1 = r
    BY <1>2, <2>2 DEF RowsOK
  <2>4. \A w \in hist.wire : w[2] = mid => w[1] = packet
    BY <2>1, <2>2, <2>3 DEF WireOK
  <2> QED  BY <2>2, <2>3, <2>4
<1>7. ASSUME Regular PROVE WireOK'
  <2> SUFFICES ASSUME NEW w \in hist'.wire
               PROVE  \E r \in db'.qosout : /\ r.entry.mid = w[2] /\ w[1] = Owes(r.entry)
                                            /\ r.entry.msg \notin hist'.unseen
    BY DEF WireOK
  <2>1. CASE w \in hist.wire \ {<<packet, mid>>}
    <3>1. PICK r \in db.qosout :
             r.entry.mid = w[2] /\ w[1] = Owes(r.entry) /\ r.entry.msg \notin hist.unseen
      BY <1>7, <2>1 DEF WireOK
    <3>2. w[2] # mid
      <4>1. w = <<w[1], w[2]>>
        BY <2>1, RowFacts DEF HistType
      <4> QED  BY <1>6, <1>7, <2>1, <4>1
    <3>3. r \in db'.qosout
      BY <1>1, <3>1, <3>2 DEF Rest
    <3> QED  BY <1>1, <3>1, <3>3
  <2>2. CASE /\ w = <<"PubComp", mid>>
             /\ \E r \in db'.qosout : r.entry.mid = mid /\ r.entry.type = "PubRec"
                                      /\ r.entry.msg = NoMsg
    BY <1>1, <1>2, <2>2 DEF Owes
  <2>3. CASE \E id : db'.qosout = Rest(mid) \cup {[id |-> id, entry |-> PubRecEntry(mid)]}
    <3>1. PICK id : db'.qosout = Rest(mid) \cup {[id |-> id, entry |-> PubRecEntry(mid)]}
      BY <2>3
    <3>2. [id |-> id, entry |-> PubRecEntry(mid)] \in db'.qosout
      BY <3>1
    <3>3. \E r \in db'.qosout : r.entry = PubRecEntry(mid)
      BY <3>2
    <3> QED  BY <1>1, <1>3, <2>1, <2>2, <3>3
  <2> QED  BY <1>1, <1>2, <2>1, <2>2, <2>3
<1>8. ASSUME Regular PROVE UnsentIsStored'
  <2> SUFFICES ASSUME NEW m \in hist'.unseen
               PROVE  \E r \in db'.qosout : m = r.entry.msg
    BY DEF UnsentIsStored
  <2>1. PICK r \in db.qosout : m = r.entry.msg
    BY <1>1, <1>8 DEF UnsentIsStored
  <2>2. r.entry.mid # mid
    BY <1>1, <1>6, <1>8, <2>1
  <2> QED  BY <1>1, <2>1, <2>2 DEF Rest
<1> QED  BY <1>5, <1>7, <1>8

\* The row of an entry of the queue is the only one with its identifier.
LEMMA RowOfEntry ==
  ASSUME IndInv, running, NEW i \in DOMAIN Queue
  PROVE  /\ \E r \in db.qosout : r.entry = Queue[i]
         /\ \A r \in db.qosout : r.entry.mid = Queue[i].mid => r.entry = Queue[i]
<1>1. Mirrors(Queue, db.qosout) /\ RowsOK(db.qosout)
  BY Loop
<1>2. PICK r \in db.qosout : r.entry = Queue[i]
  BY <1>1 DEF Mirrors
<1> QED  BY <1>1, <1>2 DEF RowsOK

\* A marked row is a row with another dup.
LEMMA MarkedRow ==
  ASSUME NEW rows, RowsOK(rows), NEW mids, NEW new, new = Marked(rows, mids)
  PROVE  /\ \A r \in rows : \E m \in new :
               /\ m.entry.mid = r.entry.mid /\ m.entry.type = r.entry.type
               /\ m.entry.msg = r.entry.msg /\ m.entry.qos = r.entry.qos
               /\ r.entry.mid \in mids => m.entry.dup
               /\ r.entry.mid \notin mids => m = r
         /\ \A m \in new : \E r \in rows :
               /\ m.entry.mid = r.entry.mid /\ m.entry.type = r.entry.type
               /\ m.entry.msg = r.entry.msg /\ m.entry.qos = r.entry.qos
               /\ r.entry.mid \in mids => m.entry.dup
               /\ r.entry.mid \notin mids => m = r
<1> DEFINE mark(r) == IF r.entry.mid \in mids THEN [r EXCEPT !.entry.dup = TRUE] ELSE r
<1>1. ASSUME NEW r \in rows
      PROVE  /\ mark(r).entry.mid = r.entry.mid /\ mark(r).entry.type = r.entry.type
             /\ mark(r).entry.msg = r.entry.msg /\ mark(r).entry.qos = r.entry.qos
             /\ r.entry.mid \in mids => mark(r).entry.dup
             /\ r.entry.mid \notin mids => mark(r) = r
  <2>1. r \in Row /\ r.entry \in Entry
    BY RowShape DEF RowsOK
  <2>2. DOMAIN r = {"id", "entry"} /\ DOMAIN r.entry = {"type", "mid", "qos", "dup", "msg"}
    BY <2>1 DEF Row, Entry, PubRecEntry
  <2>3. CASE r.entry.mid \in mids
    <3>1. mark(r) = [r EXCEPT !.entry = [r.entry EXCEPT !.dup = TRUE]]
      BY <2>3
    <3>2. mark(r).entry = [r.entry EXCEPT !.dup = TRUE]
      BY <2>2, <3>1
    <3> QED  BY <2>2, <2>3, <3>2
  <2>4. CASE r.entry.mid \notin mids
    BY <2>4
  <2> QED  BY <2>3, <2>4
<1>2. new = {mark(r) : r \in rows}
  BY DEF Marked
<1> HIDE DEF mark
<1> QED  BY <1>1, <1>2

\* steps that show the queue to a new client,
LEMMA ShowsOK ==
  ASSUME IndInv, Shown, Regular => WireOK /\ UnsentIsStored, Shows
  PROVE  Shown' /\ (Regular => WireOK' /\ UnsentIsStored')
<1>1. PICK taken \in 0 .. Len(Queue) : \E k \in 0 .. taken :
          /\ db'.qosout = Marked(db.qosout, DupMids(Queue, k))
          /\ hist'.unseen = hist.unseen \ {Queue[i].msg : i \in 1 .. taken}
          /\ hist'.wire \subseteq
                hist.wire \cup {<<Owes(Queue[i]), Queue[i].mid>> : i \in 1 .. taken}
  BY DEF Shows
<1>2. PICK k \in 0 .. taken :
          /\ db'.qosout = Marked(db.qosout, DupMids(Queue, k))
          /\ hist'.unseen = hist.unseen \ {Queue[i].msg : i \in 1 .. taken}
          /\ hist'.wire \subseteq
                hist.wire \cup {<<Owes(Queue[i]), Queue[i].mid>> : i \in 1 .. taken}
  BY <1>1
<1>3. /\ running /\ hist'.next = hist.next
      /\ \/ db'.qosin = db.qosin /\ hist'.recd \subseteq hist.recd
         \/ db'.qosin = {} /\ hist'.recd = {}
  BY DEF Shows
<1>4. /\ RowsOK(db.qosout) /\ Queue \in Seq(Entry)
      /\ Len(Queue) \in Nat /\ DOMAIN Queue = 1 .. Len(Queue)
  BY <1>3, Loop, LenProperties
<1>5. 1 .. taken \subseteq DOMAIN Queue /\ taken \in Nat /\ k \in Nat /\ k <= taken
  BY <1>1, <1>2, <1>4
<1> DEFINE mids == DupMids(Queue, k)
           same(m, r) == /\ m.entry.mid = r.entry.mid /\ m.entry.type = r.entry.type
                         /\ m.entry.msg = r.entry.msg /\ m.entry.qos = r.entry.qos
                         /\ r.entry.mid \in mids => m.entry.dup
                         /\ r.entry.mid \notin mids => m = r
<1>6. /\ \A r \in db.qosout : \E m \in db'.qosout : same(m, r)
      /\ \A m \in db'.qosout : \E r \in db.qosout : same(m, r)
  BY <1>2, <1>4, MarkedRow
<1>7. \A r \in db.qosout : r.entry.mid \in mids => r.entry.msg \notin hist'.unseen
  <2> SUFFICES ASSUME NEW r \in db.qosout, r.entry.mid \in mids
               PROVE  r.entry.msg \notin hist'.unseen
    OBVIOUS
  <2>1. PICK j \in DOMAIN Queue : j <= k /\ r.entry.mid = Queue[j].mid
    BY DEF DupMids
  <2>2. r.entry = Queue[j] /\ j \in 1 .. taken
    BY <1>3, <1>4, <1>5, <2>1, RowOfEntry
  <2> QED  BY <1>2, <2>2
<1> HIDE DEF mids
<1>8. Shown'
  <2>1. DupWasSent'
    <3> SUFFICES ASSUME NEW m \in db'.qosout, m.entry.dup
                 PROVE  m.entry.msg \notin hist'.unseen
      BY DEF DupWasSent
    <3>1. PICK r \in db.qosout : same(m, r)
      BY <1>6
    <3>2. CASE r.entry.mid \in mids
      BY <1>7, <3>1, <3>2
    <3>3. CASE r.entry.mid \notin mids
      BY <1>2, <3>1, <3>3 DEF Shown, DupWasSent
    <3> QED  BY <3>2, <3>3
  <2>2. \A m \in hist'.unseen : m < hist'.next
    BY <1>2, <1>3 DEF Shown
  <2> QED  BY <1>3, <2>1, <2>2 DEF Shown
<1>9. ASSUME Regular PROVE WireOK'
  <2> SUFFICES ASSUME NEW w \in hist'.wire
               PROVE  \E m \in db'.qosout : /\ m.entry.mid = w[2] /\ w[1] = Owes(m.entry)
                                            /\ m.entry.msg \notin hist'.unseen
    BY DEF WireOK
  <2>1. PICK r \in db.qosout :
           r.entry.mid = w[2] /\ w[1] = Owes(r.entry) /\ r.entry.msg \notin hist'.unseen
    <3>1. CASE w \in hist.wire
      BY <1>2, <1>9, <3>1 DEF WireOK
    <3>2. CASE \E i \in 1 .. taken : w = <<Owes(Queue[i]), Queue[i].mid>>
      <4>1. PICK i \in 1 .. taken : w = <<Owes(Queue[i]), Queue[i].mid>>
        BY <3>2
      <4>2. PICK r \in db.qosout : r.entry = Queue[i]
        BY <1>3, <1>5, RowOfEntry
      <4>3. Queue[i].msg \notin hist'.unseen
        BY <1>2
      <4> QED  BY <4>1, <4>2, <4>3
    <3> QED  BY <1>2, <3>1, <3>2
  <2>2. PICK m \in db'.qosout : same(m, r)
    BY <1>6
  <2> QED  BY <2>1, <2>2 DEF Owes
<1>10. ASSUME Regular PROVE UnsentIsStored'
  <2> SUFFICES ASSUME NEW m \in hist'.unseen
               PROVE  \E r \in db'.qosout : m = r.entry.msg
    BY DEF UnsentIsStored
  <2>1. PICK r \in db.qosout : m = r.entry.msg
    BY <1>2, <1>10 DEF UnsentIsStored
  <2> QED  BY <1>6, <2>1
<1> QED  BY <1>8, <1>9, <1>10

\* and steps that empty it.
LEMMA EmptiesOK ==
  ASSUME Empties
  PROVE  Shown' /\ (Regular => WireOK' /\ UnsentIsStored')
BY DEF Empties, Shown, DupWasSent, WireOK, UnsentIsStored

\* A session is marked clean only while it is new: clean_session marks it, and
\* the same handler unmarks it or ends the session.
LEMMA CleanIsNew ==
  ASSUME IndInv, session.clean => session = NewSession, [Next]_vars
  PROVE  session'.clean => session' = NewSession
<1>1. session \in SessionType /\ (running \/ session = NewSession)
  BY DEF IndInv, TypeOK
<1>2. CASE Start
  <2>1. PICK subs, queue : session' = IF db.exists THEN LoadSession(subs, queue) ELSE NewSession
    BY <1>2 DEF Start, Continue
  <2> QED  BY <2>1 DEF LoadSession
<1>3. CASE \/ StartFails \/ UNCHANGED vars
           \/ \E c \in Conns : ClientOpens(c) \/ ClientCloses(c)
           \/ \E generation : InternalPublishStale(generation)
  BY <1>3 DEF StartFails, ClientOpens, ClientCloses, InternalPublishStale, Continue, vars
<1>4. CASE Crash
  BY <1>4 DEF Crash, Die
<1>5. CASE /\ ~session.clean
           /\ session' = NewSession \/ session'.clean = session.clean
  BY <1>5
<1>6. CASE \E mid : Puback(mid) \/ Pubcomp(mid) \/ Pubrec(mid)
  <2>1. PICK mid : Puback(mid) \/ Pubcomp(mid) \/ Pubrec(mid)
    BY <1>6
  <2>2. ~session.clean
    BY <2>1 DEF Puback, Pubcomp, Pubrec, ClientMayAnswer
  <2>3. CASE qos_outgoing_remove(mid)
    BY <1>1, <1>5, <2>2, <2>3 DEF qos_outgoing_remove, Halt, Stop, Die, Continue, SessionType
  <2>4. CASE Pubrec(mid)
    <3>1. session' = NewSession \/
             \E queue : session' = [session EXCEPT !.client = ClientAfterSend,
                                                   !.qos_outgoing = @ \cup {mid},
                                                   !.qos_outgoing_messages = queue]
      BY <2>4 DEF Pubrec, Halt, Stop, Die, Continue
    <3> QED  BY <1>1, <1>5, <2>2, <3>1 DEF SessionType
  <2> QED  BY <2>1, <2>3, <2>4 DEF Puback, Pubcomp
<1>7. CASE \E mid : Pubrel(mid) \/ \E qos : Publish(mid, qos)
  <2>1. ~session.clean
    BY <1>7 DEF Pubrel, Publish, ClientMayPublish
  <2>2. session' = NewSession \/
           \E client, ids :
              \/ session' = [session EXCEPT !.client = client, !.qos_incoming = ids]
              \/ session' = [[session EXCEPT !.client = client] EXCEPT !.qos_incoming = ids]
              \/ session' = [session EXCEPT !.client = client]
    BY <1>7 DEF Pubrel, Publish, Halt, Stop, Die, Continue
  <2> QED  BY <1>1, <1>5, <2>1, <2>2 DEF SessionType
<1>8. CASE \E topics : Unsubscribe(topics) \/ \E retained, n : Subscribe(topics, retained, n)
  <2>1. ~session.clean
    BY <1>8 DEF Unsubscribe, Subscribe, ClientMayPublish
  <2>2. session' = NewSession \/
           \E client, subs : session' = [session EXCEPT !.client = client, !.subscriptions = subs]
    BY <1>8 DEF Unsubscribe, Subscribe, Halt, Stop, Die, Continue
  <2> QED  BY <1>1, <1>5, <2>1, <2>2 DEF SessionType
<1>9. CASE InternalPublishQos0
  BY <1>1, <1>5, <1>9 DEF InternalPublishQos0, Continue, SessionType
<1>10. CASE \E qos : InternalPublish(qos)
  <2>1. PICK qos : InternalPublish(qos)
    BY <1>10
  <2> DEFINE mid   == session.next_message_id
             queue == Append(Queue, [PublishEntry(mid, qos, hist.next) EXCEPT !.dup = Connected])
             after == [session EXCEPT !.client = ClientAfterSend,
                                      !.next_message_id = NextMid(mid),
                                      !.qos_outgoing = @ \cup {mid},
                                      !.qos_outgoing_messages = queue]
  <2>2. ~session.clean
    BY <2>1 DEF InternalPublish
  <2>3. session' = NewSession \/ session' = after
    BY <2>1 DEF InternalPublish, Halt, Stop, Die, Continue
  <2> HIDE DEF mid, queue
  <2> QED  BY <1>1, <1>5, <2>2, <2>3 DEF SessionType
<1>11. CASE \E c \in Conns : \E cleanFlag \in BOOLEAN, calls \in 0 .. 4, n \in 0 .. (1 + Len(Queue)) :
               NewClient(c, cleanFlag, calls, n)
  <2>1. PICK c \in Conns, cleanFlag \in BOOLEAN, calls \in 0 .. 4, n \in 0 .. (1 + Len(Queue)) :
           NewClient(c, cleanFlag, calls, n)
    BY <1>11
  <2> DEFINE s == IF cleanFlag THEN CleanSession(calls) ELSE session
  <2> DEFINE queue == s.qos_outgoing_messages
             sends == <<ConnAck(calls = 4, ~s.clean)>> \o Redelivery(queue)
             taken == IF n = 0 THEN 0 ELSE n - 1
             after == [s EXCEPT !.client = IF n < Len(sends) THEN NoClient ELSE c,
                                !.clean = FALSE,
                                !.qos_outgoing_messages = SetDup(queue, taken)]
  <2>2. session' = NewSession \/ session' = after
    BY <2>1 DEF NewClient, Stop, Die
  <2>3. DOMAIN s = DOMAIN session /\ "clean" \in DOMAIN session
    BY <1>1 DEF CleanSession, SessionType
  <2> HIDE DEF s, queue, sends, taken
  <2> QED  BY <2>2, <2>3
<1> QED
  BY <1>2, <1>3, <1>4, <1>6, <1>7, <1>8, <1>9, <1>10, <1>11
     DEF Next, ClientPacket, InternalMessage

-----------------------------------------------------------------------------
(* What the steps send: a CONNACK only to a new client, and a PUBLISH to the *)
(* router only for the client's own.                                         *)

Plain ==
    {e \in Envelope : /\ e.msg.type # "ConnAck"
                      /\ ~(e.to = Router /\ e.msg.type = "Publish")}

\* Other packets to a client,
LEMMA ClientPlain ==
  ASSUME NEW c \in Conns, NEW m \in Message, m.type # "ConnAck"
  PROVE  [to |-> c, msg |-> m] \in Plain /\ ToClient(c, m) \in Seq(Plain)
<1>1. [to |-> c, msg |-> m] \in Plain
  BY ConstantsOK DEF Plain, Envelope
<1> QED  BY <1>1 DEF ToClient

\* and other requests to the router are plain,
LEMMA RouterPlain ==
  ASSUME NEW m \in Message, m.type \notin {"ConnAck", "Publish"}
  PROVE  ToRouter(m) \in Seq(Plain)
<1>1. [to |-> Router, msg |-> m] \in Plain
  BY DEF Plain, Envelope
<1> QED  BY <1>1 DEF ToRouter

\* as is sending nothing,
LEMMA NonePlain == <<>> \in Seq(Plain)
BY EmptySeq

\* or what send_client_message sends,
LEMMA SendClientPlain ==
  ASSUME open \subseteq Conns, NEW m \in Message, m.type # "ConnAck"
  PROVE  SendClient(m) \in Seq(Plain)
<1>1. CASE Connected
  BY <1>1, ClientPlain DEF SendClient, Connected
<1>2. CASE ~Connected
  BY <1>2, NonePlain DEF SendClient
<1> QED  BY <1>1, <1>2

\* and the Disconnect of a session that stops.
LEMMA StopSends ==
  ASSUME NEW client, NEW opened, opened \subseteq Conns, NEW d, NEW S, Plain \subseteq S,
         NEW sent \in Seq(S), Stop(client, opened, d, sent)
  PROVE  out' \in Seq(S)
<1> DEFINE last == IF client \in opened THEN ToClient(client, Disconnect) ELSE <<>>
<1>1. Disconnect \in Message /\ Disconnect.type # "ConnAck"
  BY DisconnectIsMessage DEF Disconnect
<1>2. last \in Seq(Plain)
  BY <1>1, ClientPlain, NonePlain
<1>3. out' = sent \o last
  BY DEF Stop
<1> HIDE DEF last
<1>4. last \in Seq(S)
  BY <1>2
<1> QED  BY <1>3, <1>4, ConcatLength

\* Any failing call, and any handler that returns.
LEMMA HaltSends ==
  ASSUME open \subseteq Conns, NEW d, NEW S, Plain \subseteq S, NEW sent \in Seq(S),
         Halt(d, sent)
  PROVE  out' \in Seq(S)
<1>1. CASE Stop(session.client, open, d, sent)
  BY <1>1, StopSends
<1>2. CASE Die(d, sent)
  BY <1>2 DEF Die
<1> QED  BY <1>1, <1>2 DEF Halt

\* The prefix of a list of messages that a client takes.
LEMMA DeliveredFrom ==
  ASSUME open \subseteq Conns, NEW c, NEW T, NEW msgs \in Seq(T), NEW n \in CanDeliver(c, msgs),
         NEW S, c \in open => \A m \in T : [to |-> c, msg |-> m] \in S
  PROVE  Delivered(c, msgs, n) \in Seq(S)
<1>1. Len(msgs) \in Nat /\ \A i \in 1 .. Len(msgs) : msgs[i] \in T
  BY LenProperties, ElementOfSeq
<1>2. n \in 0 .. Len(msgs)
  BY <1>1 DEF CanDeliver
<1>3. \A i \in 1 .. n : [to |-> c, msg |-> msgs[i]] \in S
  BY <1>1, <1>2 DEF CanDeliver
<1>4. Delivered(c, msgs, n) \in [1 .. n -> S]
  BY <1>3 DEF Delivered
<1>5. n \in Nat
  BY <1>1, <1>2
<1> QED  BY <1>4, <1>5, SeqDef

\* Acknowledgements are answered with PUBREL or not at all.
LEMMA AnswersSend ==
  ASSUME IndInv, NEW mid \in Mids, Puback(mid) \/ Pubcomp(mid) \/ Pubrec(mid)
  PROVE  out' \in Seq(Plain)
<1>1. open \subseteq Conns
  BY DEF IndInv, TypeOK
<1>2. SendClient(Control("PubRel", mid)) \in Seq(Plain)
  <2>1. Control("PubRel", mid) \in Message /\ Control("PubRel", mid).type # "ConnAck"
    BY ControlIsMessage DEF Control
  <2> QED  BY <1>1, <2>1, SendClientPlain
<1>3. (\E d : Halt(d, <<>>)) \/ out' = <<>> \/ out' = SendClient(Control("PubRel", mid))
  BY DEF Puback, Pubcomp, Pubrec, qos_outgoing_remove, Continue
<1> QED  BY <1>1, <1>2, <1>3, NonePlain, HaltSends

\* PUBREL, UNSUBSCRIBE and routed messages.
LEMMA OthersSend ==
  ASSUME IndInv,
         \/ \E mid \in Mids : Pubrel(mid)
         \/ \E topics \in SUBSET Topics : Unsubscribe(topics)
         \/ InternalPublishQos0
         \/ \E qos \in {1, 2} : InternalPublish(qos)
  PROVE  out' \in Seq(Plain)
<1>1. open \subseteq Conns /\ session \in SessionType
  BY DEF IndInv, TypeOK
<1>2. ASSUME NEW mid \in Mids, Pubrel(mid)
      PROVE  out' \in Seq(Plain)
  <2>1. Control("PubComp", mid) \in Message /\ Control("PubComp", mid).type # "ConnAck"
    BY ControlIsMessage DEF Control
  <2>2. SendClient(Control("PubComp", mid)) \in Seq(Plain)
    BY <1>1, <2>1, SendClientPlain
  <2>3. Halt(db, <<>>) \/ out' = SendClient(Control("PubComp", mid))
    BY <1>2 DEF Pubrel, Continue
  <2> QED  BY <1>1, <2>2, <2>3, NonePlain, HaltSends
<1>3. ASSUME NEW topics \in SUBSET Topics, Unsubscribe(topics)
      PROVE  out' \in Seq(Plain)
  <2> DEFINE request == ToRouter([type |-> "Unsubscribe", topics |-> topics])
             ack     == SendClient([type |-> "UnsubAck"])
  <2>1. request \in Seq(Plain)
    <3>1. [type |-> "Unsubscribe", topics |-> topics] \in Message
      BY DEF Message
    <3> QED  BY <3>1, RouterPlain
  <2>2. ack \in Seq(Plain)
    <3>1. [type |-> "UnsubAck"] \in Message
      BY DEF Message
    <3> QED  BY <1>1, <3>1, SendClientPlain
  <2>3. Halt(db, <<>>) \/ out' = request \o ack
    BY <1>3 DEF Unsubscribe, Continue
  <2> HIDE DEF request, ack
  <2> QED  BY <1>1, <2>1, <2>2, <2>3, NonePlain, HaltSends, ConcatLength
<1>4. ASSUME NEW mid \in Mids, NEW qos \in 0 .. 2
      PROVE  SendClient(PublishMsg(mid, qos, FALSE)) \in Seq(Plain)
  <2>1. PublishMsg(mid, qos, FALSE) \in Message /\ PublishMsg(mid, qos, FALSE).type # "ConnAck"
    BY PublishIsMessage DEF PublishMsg
  <2> QED  BY <1>1, <2>1, SendClientPlain
<1>5. ASSUME InternalPublishQos0
      PROVE  out' \in Seq(Plain)
  <2>1. 0 \in Mids /\ 0 \in 0 .. 2
    BY ConstantsOK DEF Mids
  <2>2. SendClient(PublishMsg(0, 0, FALSE)) \in Seq(Plain)
    BY <1>4, <2>1
  <2>3. out' = SendClient(PublishMsg(0, 0, FALSE))
    BY <1>5 DEF InternalPublishQos0, Continue
  <2> QED  BY <2>2, <2>3
<1>6. ASSUME NEW qos \in {1, 2}, InternalPublish(qos)
      PROVE  out' \in Seq(Plain)
  <2> DEFINE sending == SendClient(PublishMsg(session.next_message_id, qos, FALSE))
  <2>1. sending \in Seq(Plain)
    <3>1. session.next_message_id \in Mids /\ qos \in 0 .. 2
      BY <1>1 DEF SessionType
    <3> QED  BY <1>4, <3>1
  <2>2. (\E d : Halt(d, <<>>) \/ Halt(d, sending)) \/ out' = sending
    BY <1>6 DEF InternalPublish, Continue
  <2> HIDE DEF sending
  <2> QED  BY <1>1, <2>1, <2>2, NonePlain, HaltSends
<1> QED  BY <1>2, <1>3, <1>5, <1>6

\* SUBACK and the retained messages.
LEMMA SubscribeSends ==
  ASSUME IndInv, NEW topics \in SUBSET Topics, NEW retained \in Retained, NEW n,
         Subscribe(topics, retained, n)
  PROVE  out' \in Seq(Plain)
<1> DEFINE c         == session.client
           request   == ToRouter([type |-> "Subscribe", topics |-> topics])
           publishes == [i \in DOMAIN retained |->
                           PublishMsg(retained[i].mid, retained[i].qos, FALSE)]
           sends(ok) == <<[type |-> "SubAck", accepted |-> ok]>> \o publishes
           gone      == n < Len(sends(TRUE))
           opened    == IF gone THEN open \ {c} ELSE open
           T         == {m \in Message : m.type # "ConnAck"}
<1>1. open \subseteq Conns
  BY DEF IndInv, TypeOK
<1>2. /\ n \in CanDeliver(c, sends(TRUE))
      /\ \/ out' = request \o Delivered(c, sends(TRUE), n)
         \/ Stop(IF gone THEN NoClient ELSE c, opened, db, request \o Delivered(c, sends(FALSE), n))
         \/ Die(db, request)
  BY DEF Subscribe
<1>3. request \in Seq(Plain)
  <2>1. [type |-> "Subscribe", topics |-> topics] \in Message
    BY DEF Message
  <2> QED  BY <2>1, RouterPlain
<1>4. publishes \in Seq(T)
  <2>1. retained \in Seq([mid : Mids, qos : 0 .. 2])
    BY ConstantsOK
  <2>2. /\ Len(retained) \in Nat /\ DOMAIN retained = 1 .. Len(retained)
        /\ \A i \in DOMAIN retained : retained[i] \in [mid : Mids, qos : 0 .. 2]
    BY <2>1, LenProperties, ElementOfSeq
  <2>3. \A i \in DOMAIN retained : PublishMsg(retained[i].mid, retained[i].qos, FALSE) \in T
    <3> SUFFICES ASSUME NEW i \in DOMAIN retained
                 PROVE  PublishMsg(retained[i].mid, retained[i].qos, FALSE) \in T
      OBVIOUS
    <3>1. retained[i].mid \in Mids /\ retained[i].qos \in 0 .. 2
      BY <2>2
    <3>2. PublishMsg(retained[i].mid, retained[i].qos, FALSE) \in Message
      BY <3>1, PublishIsMessage
    <3>3. PublishMsg(retained[i].mid, retained[i].qos, FALSE).type = "Publish"
      BY DEF PublishMsg
    <3> QED  BY <3>2, <3>3
  <2> HIDE DEF T
  <2>4. publishes \in [1 .. Len(retained) -> T]
    BY <2>2, <2>3
  <2> QED  BY <2>2, <2>4, SeqDef
<1>5. \A ok \in BOOLEAN : sends(ok) \in Seq(T) /\ Len(sends(ok)) = 1 + Len(publishes)
  <2> TAKE ok \in BOOLEAN
  <2> DEFINE first == <<[type |-> "SubAck", accepted |-> ok]>>
  <2>1. first \in Seq(T) /\ Len(first) = 1
    <3>1. [type |-> "SubAck", accepted |-> ok] \in Message
      BY DEF Message
    <3>2. [type |-> "SubAck", accepted |-> ok] \in T
      BY <3>1
    <3> HIDE DEF T
    <3> QED  BY <3>2
  <2> HIDE DEF first, publishes, T
  <2>2. first \o publishes \in Seq(T) /\ Len(first \o publishes) = 1 + Len(publishes)
    BY <1>4, <2>1, ConcatLength
  <2> QED  BY <2>2 DEF first
<1>6. c \in open => \A m \in T : [to |-> c, msg |-> m] \in Plain
  BY <1>1, ClientPlain
<1> HIDE DEF publishes, T, sends, request
<1>7. \A ok \in BOOLEAN : request \o Delivered(c, sends(ok), n) \in Seq(Plain)
  <2> TAKE ok \in BOOLEAN
  <2>1. n \in CanDeliver(c, sends(ok))
    BY <1>2, <1>5 DEF CanDeliver
  <2>2. Delivered(c, sends(ok), n) \in Seq(Plain)
    BY <1>1, <1>5, <1>6, <2>1, DeliveredFrom
  <2> QED  BY <1>3, <2>2, ConcatLength
<1>8. CASE Die(db, request)
  BY <1>3, <1>8 DEF Die
<1>9. CASE Stop(IF gone THEN NoClient ELSE c, opened, db, request \o Delivered(c, sends(FALSE), n))
  <2>1. opened \subseteq Conns
    BY <1>1
  <2> HIDE DEF opened, gone
  <2> QED  BY <1>7, <1>9, <2>1, StopSends
<1> QED  BY <1>2, <1>7, <1>8, <1>9

\* The client's own PUBLISH, which goes to the router unless it is known.
LEMMA PublishSends ==
  ASSUME IndInv, NEW mid \in Mids, NEW qos \in 0 .. 2, Publish(mid, qos)
  PROVE  \/ out' \in Seq(Plain)
         \/ /\ ~(qos = 2 /\ mid \in session.qos_incoming)
            /\ out' \in Seq(Plain \cup {[to |-> Router, msg |-> PublishMsg(mid, qos, FALSE)]})
<1> DEFINE forward == ToRouter(PublishMsg(mid, qos, FALSE))
           again   == qos = 2 /\ mid \in session.qos_incoming
           answer  == IF qos = 0 THEN <<>> ELSE SendClient(Control(Answer(qos), mid))
           S       == Plain \cup {[to |-> Router, msg |-> PublishMsg(mid, qos, FALSE)]}
<1>1. open \subseteq Conns
  BY DEF IndInv, TypeOK
<1>2. \/ again /\ out' = answer
      \/ ~again /\ out' = forward \o answer
      \/ ~again /\ (Halt(db, <<>>) \/ Halt(db, forward))
  BY DEF Publish, Continue
<1>3. answer \in Seq(Plain)
  <2>1. Control(Answer(qos), mid) \in Message /\ Control(Answer(qos), mid).type # "ConnAck"
    BY ControlIsMessage DEF Control, Answer
  <2>2. SendClient(Control(Answer(qos), mid)) \in Seq(Plain)
    BY <1>1, <2>1, SendClientPlain
  <2> QED  BY <2>2, NonePlain
<1>4. forward \in Seq(S) /\ Plain \subseteq S
  <2>1. [to |-> Router, msg |-> PublishMsg(mid, qos, FALSE)] \in S /\ Plain \subseteq S
    OBVIOUS
  <2> HIDE DEF S
  <2> QED  BY <2>1 DEF ToRouter
<1> HIDE DEF S, forward, answer
<1>5. answer \in Seq(S) /\ <<>> \in Seq(S)
  BY <1>3, <1>4, EmptySeq
<1>6. CASE again /\ out' = answer
  BY <1>3, <1>6
<1>7. CASE ~again /\ out' = forward \o answer
  <2>1. out' \in Seq(S)
    BY <1>4, <1>5, <1>7, ConcatLength
  <2> QED  BY <1>7, <2>1 DEF S
<1>8. CASE ~again /\ (Halt(db, <<>>) \/ Halt(db, forward))
  <2>1. out' \in Seq(S)
    BY <1>1, <1>4, <1>5, <1>8, HaltSends
  <2> QED  BY <1>8, <2>1 DEF S
<1> QED  BY <1>2, <1>6, <1>7, <1>8

\* CONNACK, the queue and, before them, Disconnect and the router's Unsubscribe.
LEMMA NewClientSends ==
  ASSUME IndInv, NEW c \in Conns, NEW cleanFlag \in BOOLEAN, NEW calls \in 0 .. 4, NEW n,
         NewClient(c, cleanFlag, calls, n),
         NEW s, s = (IF cleanFlag THEN CleanSession(calls) ELSE session)
  PROVE  out' \in Seq(Plain \cup {[to |-> c, msg |-> ConnAck(calls = 4, ~s.clean)]})
<1> DEFINE connack == ConnAck(calls = 4, ~s.clean)
           S       == Plain \cup {[to |-> c, msg |-> connack]}
           queue   == s.qos_outgoing_messages
           sends   == <<connack>> \o Redelivery(queue)
           gone    == n < Len(sends)
           opened  == IF gone THEN open \ {c} ELSE open
           request == IF cleanFlag /\ calls >= 3
                      THEN ToRouter([type |-> "Unsubscribe", topics |-> session.subscriptions])
                      ELSE <<>>
           sent    == SendClient(Disconnect) \o request \o Delivered(c, sends, n)
           T       == {m \in Message : m.type # "ConnAck"} \cup {connack}
<1>1. /\ running /\ n \in CanDeliver(c, sends)
      /\ \/ out' = sent
         \/ \E client, d : Stop(client, opened, d, sent)
         \/ \E d : Die(d, sent)
         \/ \E d : Stop(c, open, d, sent)
  BY DEF NewClient
<1>2. session \in SessionType /\ open \subseteq Conns /\ Queue \in Seq(Entry)
  BY <1>1, Loop
<1>3. queue \in Seq(Entry)
  <2>1. CASE cleanFlag
    <3>1. queue = (IF calls >= 2 THEN <<>> ELSE Queue)
      BY <1>1, <2>1, CleanLeaves
    <3> QED  BY <1>2, <3>1, EmptySeq
  <2>2. CASE ~cleanFlag
    BY <1>2, <2>2 DEF Queue
  <2> QED  BY <2>1, <2>2
<1> HIDE DEF queue
<1>4. Redelivery(queue) \in Seq({m \in Message : m.type # "ConnAck"})
  <2> DEFINE U == {m \in Message : m.type # "ConnAck"}
  <2>1. Redelivery(queue) \in Seq(Message) /\ Len(Redelivery(queue)) = Len(queue)
    BY <1>3, RedeliveryOK
  <2>2. /\ Len(queue) \in Nat /\ DOMAIN queue = 1 .. Len(queue)
        /\ \A i \in 1 .. Len(queue) : Redelivery(queue)[i] \in Message
    BY <1>3, <2>1, LenProperties, ElementOfSeq
  <2>3. \A i \in 1 .. Len(queue) : Redelivery(queue)[i].type # "ConnAck"
    BY <2>2 DEF Redelivery, PublishMsg, Control
  <2>4. \A i \in 1 .. Len(queue) : Redelivery(queue)[i] \in U
    BY <2>2, <2>3
  <2> HIDE DEF U
  <2>5. Redelivery(queue) \in [1 .. Len(queue) -> U]
    <3>1. Redelivery(queue) = [i \in 1 .. Len(queue) |-> Redelivery(queue)[i]]
      BY <2>2 DEF Redelivery
    <3> QED  BY <2>4, <3>1
  <2>6. Redelivery(queue) \in Seq(U)
    BY <2>2, <2>5, SeqDef
  <2> QED  BY <2>6 DEF U
<1>5. sends \in Seq(T)
  <2> DEFINE first == <<connack>>
             rest  == Redelivery(queue)
  <2>1. first \in Seq(T)
    <3>1. connack \in T
      OBVIOUS
    <3> HIDE DEF T
    <3> QED  BY <3>1
  <2>2. rest \in Seq(T)
    <3>1. {m \in Message : m.type # "ConnAck"} \subseteq T
      OBVIOUS
    <3> HIDE DEF T, rest
    <3> QED  BY <1>4, <3>1 DEF rest
  <2> HIDE DEF first, rest, T
  <2>3. first \o rest \in Seq(T)
    BY <2>1, <2>2, ConcatLength
  <2> QED  BY <2>3 DEF first, rest
<1>6. \A m \in T : [to |-> c, msg |-> m] \in S
  BY ClientPlain
<1>7. Plain \subseteq S /\ \A x \in Seq(Plain) : x \in Seq(S)
  <2>1. Plain \subseteq S
    OBVIOUS
  <2> HIDE DEF S
  <2> QED  BY <2>1
<1> HIDE DEF sends, T, S
<1>8. Delivered(c, sends, n) \in Seq(S)
  BY <1>1, <1>2, <1>5, <1>6, DeliveredFrom
<1>9. SendClient(Disconnect) \in Seq(S)
  <2>1. Disconnect \in Message /\ Disconnect.type # "ConnAck"
    BY DisconnectIsMessage DEF Disconnect
  <2> QED  BY <1>2, <1>7, <2>1, SendClientPlain
<1>10. request \in Seq(S)
  <2>1. [type |-> "Unsubscribe", topics |-> session.subscriptions] \in Message
    BY <1>2 DEF SessionType, Message
  <2> QED  BY <1>7, <2>1, RouterPlain, NonePlain
<1> HIDE DEF request
<1>11. sent \in Seq(S)
  <2>1. SendClient(Disconnect) \o request \in Seq(S)
    BY <1>9, <1>10, ConcatLength
  <2> QED  BY <1>8, <2>1, ConcatLength
<1>12. opened \subseteq Conns
  BY <1>2
<1> HIDE DEF sent, opened
<1>13. out' \in Seq(S)
  <2>1. CASE \E client, d : Stop(client, opened, d, sent)
    BY <1>7, <1>11, <1>12, <2>1, StopSends
  <2>2. CASE \E d : Die(d, sent)
    BY <1>11, <2>2 DEF Die
  <2>3. CASE \E d : Stop(c, open, d, sent)
    BY <1>2, <1>7, <1>11, <2>3, StopSends
  <2> QED  BY <1>1, <1>11, <2>1, <2>2, <2>3
<1> QED  BY <1>13 DEF S

\* Every other step sends plain messages only.
LEMMA NextSends ==
  ASSUME IndInv, Next
  PROVE  \/ out' \in Seq(Plain)
         \/ \E mid \in ClientMids : \E qos \in 0 .. 2 : Publish(mid, qos)
         \/ \E c \in Conns, cleanFlag \in BOOLEAN, calls \in 0 .. 4, n \in 0 .. (1 + Len(Queue)) :
               NewClient(c, cleanFlag, calls, n)
<1>1. CASE \/ Start \/ StartFails \/ Crash
           \/ \E c \in Conns : ClientOpens(c) \/ ClientCloses(c)
           \/ \E generation \in 0 .. MaxGeneration : InternalPublishStale(generation)
  <2>1. out' = <<>>
    BY <1>1 DEF Start, StartFails, Crash, Die, ClientOpens, ClientCloses,
                InternalPublishStale, Continue
  <2> QED  BY <2>1, NonePlain
<1>2. CASE \E mid \in Mids : Puback(mid) \/ Pubrec(mid) \/ Pubcomp(mid)
  BY <1>2, AnswersSend
<1>3. CASE \E mid \in ClientMids : Pubrel(mid)
  BY <1>3, ConstantsOK, OthersSend
<1>4. CASE \E topics \in (SUBSET Topics) \ {{}} : Unsubscribe(topics)
  BY <1>4, OthersSend
<1>5. CASE \E topics \in (SUBSET Topics) \ {{}} :
              \E retained \in Retained : \E n \in 0 .. (1 + Len(retained)) :
                 Subscribe(topics, retained, n)
  BY <1>5, SubscribeSends
<1>6. CASE InternalPublishQos0 \/ \E qos \in {1, 2} : InternalPublish(qos)
  BY <1>6, OthersSend
<1> QED
  BY <1>1, <1>2, <1>3, <1>4, <1>5, <1>6 DEF Next, ClientPacket, InternalMessage

-----------------------------------------------------------------------------
(* The invariant and what follows from it. *)

\* Every step keeps it.
LEMMA DeliveryNextOK ==
  ASSUME IndInv, DeliveryInv, [Next]_vars
  PROVE  DeliveryInv'
<1>1. Shown /\ (Regular => WireOK /\ UnsentIsStored) /\ (session.clean => session = NewSession)
  BY DEF DeliveryInv, HandshakeInv, Shown
<1>2. Effect
  BY NextEffect
<1>3. Shown' /\ (Regular => WireOK' /\ UnsentIsStored')
  BY <1>1, <1>2, KeptOK, StoresOK, AcknowledgesOK, ShowsOK, EmptiesOK DEF Effect
<1>4. session'.clean => session' = NewSession
  BY <1>1, CleanIsNew
<1>5. NewSession' = NewSession /\ Regular' = Regular
  BY DEF NewSession, Regular
<1>6. HandshakeInv'
  BY <1>3, <1>4, <1>5 DEF HandshakeInv, Shown
<1> QED  BY <1>3, <1>5, <1>6 DEF DeliveryInv

\* Rows, history and the answers under way fit together at all times.
THEOREM DeliveryInvariance == Spec => []DeliveryInv
<1>1. Init => DeliveryInv
  BY DEF Init, DeliveryInv, HandshakeInv, DupWasSent, WireOK, UnsentIsStored, NewDb, NewHist
<1>2. IndInv /\ DeliveryInv /\ [Next]_vars => DeliveryInv'
  BY DeliveryNextOK
<1> QED  BY <1>1, <1>2, Invariance, PTL DEF Spec

\* A message is marked as a duplicate only after it was sent (qos_outgoing_set_dup).
THEOREM DuplicatesWereSent == Spec => []DupWasSent
<1>1. DeliveryInv => DupWasSent
  BY DEF DeliveryInv, HandshakeInv
<1> QED  BY <1>1, DeliveryInvariance, PTL

\* With clients that answer what they were sent, no message that was sent to
\* nobody leaves the rows except in a clean session (qos_outgoing_remove).
THEOREM NothingUnsentIsDropped ==
  ASSUME Regular
  PROVE  Spec => []UnsentIsStored
<1>1. DeliveryInv => UnsentIsStored
  BY DEF DeliveryInv
<1> QED  BY <1>1, DeliveryInvariance, PTL

\* A QoS 2 message whose PUBREC the client holds is not given to the router again
\* before its PUBREL (publish_message, across restarts and takeovers).
THEOREM RoutedOnce == Spec => QoS2Once
<1> DEFINE A == \A i \in DOMAIN out' :
                   (out'[i].to = Router /\ out'[i].msg.type = "Publish" /\ out'[i].msg.qos = 2)
                      => out'[i].msg.mid \notin hist.recd
<1>1. ASSUME IndInv, DeliveryInv, Next
      PROVE  A
  <2>1. CASE out' \in Seq(Plain)
    BY <2>1, ElementOfSeq, LenProperties DEF Plain
  <2>2. CASE \E mid \in ClientMids : \E qos \in 0 .. 2 : Publish(mid, qos)
    <3>1. PICK mid \in ClientMids, qos \in 0 .. 2 : Publish(mid, qos)
      BY <2>2
    <3> DEFINE forward == [to |-> Router, msg |-> PublishMsg(mid, qos, FALSE)]
    <3>2. CASE /\ ~(qos = 2 /\ mid \in session.qos_incoming)
               /\ out' \in Seq(Plain \cup {forward})
      <4>1. forward.msg.qos = qos /\ forward.msg.mid = mid
        BY DEF PublishMsg
      <4>2. \A i \in DOMAIN out' : out'[i] \in Plain \cup {forward}
        BY <3>2, ElementOfSeq, LenProperties
      <4>3. db.qosin = session.qos_incoming
        BY <1>1, <3>1, Loop DEF Publish, ClientMayPublish
      <4>4. hist.recd \subseteq db.qosin
        BY <1>1 DEF DeliveryInv, HandshakeInv
      <4> HIDE DEF forward
      <4>5. ASSUME NEW i \in DOMAIN out', out'[i].to = Router, out'[i].msg.type = "Publish",
                   out'[i].msg.qos = 2
            PROVE  out'[i].msg.mid \notin hist.recd
        <5>1. out'[i] = forward
          BY <4>2, <4>5 DEF Plain
        <5> QED  BY <3>2, <4>1, <4>3, <4>4, <4>5, <5>1
      <4> QED  BY <4>5
    <3>3. mid \in Mids
      BY ConstantsOK
    <3> QED  BY <1>1, <2>1, <3>1, <3>2, <3>3, PublishSends
  <2>3. CASE \E c \in Conns, cleanFlag \in BOOLEAN, calls \in 0 .. 4, n \in 0 .. (1 + Len(Queue)) :
                NewClient(c, cleanFlag, calls, n)
    <3>1. PICK c \in Conns, cleanFlag \in BOOLEAN, calls \in 0 .. 4, n \in 0 .. (1 + Len(Queue)) :
             NewClient(c, cleanFlag, calls, n)
      BY <2>3
    <3> DEFINE s == IF cleanFlag THEN CleanSession(calls) ELSE session
               e == [to |-> c, msg |-> ConnAck(calls = 4, ~s.clean)]
    <3>2. out' \in Seq(Plain \cup {e})
      BY <1>1, <3>1, NewClientSends
    <3>3. e.to # Router
      BY ConstantsOK
    <3> HIDE DEF e
    <3>4. \A i \in DOMAIN out' : out'[i] \in Plain \cup {e}
      BY <3>2, ElementOfSeq, LenProperties
    <3> QED  BY <3>3, <3>4 DEF Plain
  <2> QED  BY <1>1, <2>1, <2>2, <2>3, NextSends
<1>2. IndInv /\ DeliveryInv /\ [Next]_vars => [A]_vars
  BY <1>1
<1> QED  BY <1>2, Invariance, DeliveryInvariance, PTL DEF Spec, QoS2Once

\* What a new client finds when no session is present and clean_session, if it
\* was asked for, succeeded.
LEMMA FreshIsEmpty ==
  ASSUME IndInv, DeliveryInv, NEW c \in Conns, NEW cleanFlag \in BOOLEAN, NEW calls \in 0 .. 4,
         NEW n \in Nat, NewClient(c, cleanFlag, calls, n), calls = 4,
         NEW s, s = (IF cleanFlag THEN CleanSession(calls) ELSE session), s.clean
  PROVE  /\ session'.qos_outgoing_messages = <<>> /\ session'.qos_incoming = {}
         /\ session'.subscriptions = {} /\ db'.qosout = {} /\ db'.qosin = {}
<1> DEFINE d     == IF cleanFlag THEN CleanDb(calls) ELSE db
           queue == s.qos_outgoing_messages
           sends == <<ConnAck(calls = 4, ~s.clean)>> \o Redelivery(queue)
           taken == IF n = 0 THEN 0 ELSE n - 1
           saved(k) == persist_qos_outgoing_update_dup(d, DupMids(queue, k))
           after == [s EXCEPT !.client = IF n < Len(sends) THEN NoClient ELSE c,
                              !.clean = FALSE,
                              !.qos_outgoing_messages = SetDup(queue, taken)]
<1>1. /\ running
      /\ \/ session' = after /\ db' = saved(taken)
         \/ session' = NewSession /\ (db' = d \/ \E k : db' = saved(k))
  BY DEF NewClient, Stop, Die
<1>2. session \in SessionType /\ db \in DbType
  BY <1>1, Loop
<1>3. /\ queue = <<>> /\ s.qos_incoming = {} /\ s.subscriptions = {}
      /\ d.qosout = {} /\ d.qosin = {} /\ DOMAIN d = DOMAIN db /\ DOMAIN s = DOMAIN session
  <2>1. CASE cleanFlag
    BY <1>1, <2>1, CleanLeaves
  <2>2. CASE ~cleanFlag
    <3>1. s = session /\ d = db /\ session = NewSession
      BY <2>2 DEF DeliveryInv, HandshakeInv
    <3>2. Queue = <<>> /\ session.qos_incoming = {} /\ session.subscriptions = {}
      BY <3>1 DEF NewSession, Queue
    <3>3. DOMAIN Queue = {}
      BY <3>2
    <3>4. db.qosout = {} /\ db.qosin = {}
      BY <1>1, <3>2, <3>3, Loop DEF Mirrors
    <3> QED  BY <3>1, <3>2, <3>4 DEF Queue
  <2> QED  BY <2>1, <2>2
<1>4. \A k : saved(k).qosout = {} /\ saved(k).qosin = {}
  <2>1. "qosout" \in DOMAIN d /\ "qosin" \in DOMAIN d
    BY <1>2, <1>3 DEF DbType
  <2> HIDE DEF d, queue
  <2>2. \A k : saved(k).qosout = Marked({}, DupMids(queue, k)) /\ saved(k).qosin = {}
    BY <1>3, <2>1 DEF persist_qos_outgoing_update_dup
  <2> QED  BY <2>2 DEF Marked
<1>5. SetDup(queue, taken) = <<>>
  <2>1. DOMAIN queue = {}
    BY <1>3
  <2> HIDE DEF queue
  <2> QED  BY <2>1 DEF SetDup
<1>6. /\ after.qos_outgoing_messages = <<>> /\ after.qos_incoming = {}
      /\ after.subscriptions = {}
  <2>1. /\ "qos_outgoing_messages" \in DOMAIN s /\ "qos_incoming" \in DOMAIN s
        /\ "subscriptions" \in DOMAIN s
    BY <1>2, <1>3 DEF SessionType
  <2> HIDE DEF sends, queue, taken
  <2> QED  BY <1>3, <1>5, <2>1
<1> HIDE DEF d, after, saved
<1> QED  BY <1>1, <1>3, <1>4, <1>6 DEF NewSession

\* A client that is told "accepted, no session present" starts from nothing
\* (new_client_connected and clean_session).
THEOREM NewMeansEmpty == Spec => NoSessionMeansNone
<1> DEFINE fresh == /\ session'.qos_outgoing_messages = <<>>
                    /\ session'.qos_incoming = {}
                    /\ session'.subscriptions = {}
                    /\ db'.qosout = {} /\ db'.qosin = {}
           A == \A i \in DOMAIN out' :
                   (out'[i].msg.type = "ConnAck" /\ out'[i].msg.accepted
                      /\ ~out'[i].msg.session_present) => fresh
<1>1. ASSUME IndInv, DeliveryInv, Next
      PROVE  A
  <2> HIDE DEF fresh
  <2>1. CASE out' \in Seq(Plain)
    BY <2>1, ElementOfSeq, LenProperties DEF Plain
  <2>2. CASE \E mid \in ClientMids : \E qos \in 0 .. 2 : Publish(mid, qos)
    <3>1. PICK mid \in ClientMids, qos \in 0 .. 2 : Publish(mid, qos)
      BY <2>2
    <3> DEFINE forward == [to |-> Router, msg |-> PublishMsg(mid, qos, FALSE)]
    <3>2. CASE out' \in Seq(Plain \cup {forward})
      <4>1. forward.msg.type # "ConnAck"
        BY DEF PublishMsg
      <4> HIDE DEF forward
      <4>2. \A i \in DOMAIN out' : out'[i] \in Plain \cup {forward}
        BY <3>2, ElementOfSeq, LenProperties
      <4> QED  BY <4>1, <4>2 DEF Plain
    <3>3. mid \in Mids
      BY ConstantsOK
    <3> QED  BY <1>1, <2>1, <3>1, <3>2, <3>3, PublishSends
  <2>3. CASE \E c \in Conns, cleanFlag \in BOOLEAN, calls \in 0 .. 4, n \in 0 .. (1 + Len(Queue)) :
                NewClient(c, cleanFlag, calls, n)
    <3>1. PICK c \in Conns, cleanFlag \in BOOLEAN, calls \in 0 .. 4, n \in 0 .. (1 + Len(Queue)) :
             NewClient(c, cleanFlag, calls, n)
      BY <2>3
    <3> DEFINE s == IF cleanFlag THEN CleanSession(calls) ELSE session
               e == [to |-> c, msg |-> ConnAck(calls = 4, ~s.clean)]
    <3>2. out' \in Seq(Plain \cup {e})
      BY <1>1, <3>1, NewClientSends
    <3>3. e.msg.accepted = (calls = 4) /\ e.msg.session_present = ~s.clean
      BY DEF ConnAck
    <3>4. calls = 4 /\ s.clean => fresh
      <4>1. n \in Nat
        OBVIOUS
      <4> HIDE DEF s
      <4> QED  BY <1>1, <3>1, <4>1, FreshIsEmpty DEF s, fresh
    <3> HIDE DEF e
    <3>5. \A i \in DOMAIN out' : out'[i] \in Plain \cup {e}
      BY <3>2, ElementOfSeq, LenProperties
    <3> HIDE DEF s
    <3> QED  BY <3>3, <3>4, <3>5 DEF Plain
  <2> QED  BY <1>1, <2>1, <2>2, <2>3, NextSends
<1>2. IndInv /\ DeliveryInv /\ [Next]_vars => [A]_vars
  BY <1>1
<1> QED  BY <1>2, Invariance, DeliveryInvariance, PTL DEF Spec, NoSessionMeansNone

=============================================================================
