---------------------------- MODULE SessionWorker ----------------------------
(***************************************************************************)
(* One MQTT session of the broker: the task MQTTSession                    *)
(* (sessions/sessionworker.rs) and the rows it keeps in SQLite             *)
(* (sessions/persistsql.rs).                                               *)
(*                                                                         *)
(* The task takes one message at a time from its channel and runs that     *)
(* message's handler to the end, so an action is one handler.  A handler   *)
(* makes several database calls, each its own transaction; every one can   *)
(* return an error, and the process can die in front of any of them.  Both *)
(* are alternatives of the handler's action: the effects up to that point  *)
(* stay and the session stops (Halt).  A client's channel can close at any *)
(* time, also between two messages sent by the same handler.               *)
(*                                                                         *)
(* The router and the clients are the environment; Subscriptions models    *)
(* the router's own state.                                                 *)
(***************************************************************************)
EXTENDS Naturals, SequencesExt

CONSTANTS
    Conns,          \* client connections, i.e. the ClientTx channels
    NoClient,       \* self.client = None
    Router,         \* the address of the router's channel
    Topics,         \* topic filters the client subscribes to
    MaxU16,         \* u16::MAX: 65535 in the code, small in the models
    ClientMids,     \* identifiers of the packets the client publishes
    Retained,       \* retained messages a SUBSCRIBE may be answered with:
                    \* a set of sequences of [mid, qos]
    Disciplined,    \* TRUE: clients acknowledge only what they were sent
    MaxMsgs,        \* bound: messages stored for the client
    MaxGeneration,  \* bound: completed clean sessions
    MaxRowId        \* bound: qosout_id

Mids == 0 .. MaxU16

ASSUME ConstantsOK ==
    /\ MaxU16 \in Nat \ {0}
    /\ MaxMsgs \in Nat
    /\ MaxGeneration \in Nat
    /\ MaxRowId \in Nat
    /\ NoClient \notin Conns
    /\ Router \notin Conns
    /\ ClientMids \subseteq Mids
    /\ Retained \subseteq Seq([mid : Mids, qos : 0 .. 2])
    /\ Disciplined \in BOOLEAN

VARIABLES
    running,    \* is the task's message loop running
    session,    \* the fields of MQTTSession; those of a new one when stopped
    db,         \* the session's rows: sessions, qosin and qosout
    open,       \* the connections whose client task still receives
    out,        \* what the last step sent: a sequence of [to, msg]
    hist        \* history and environment, never read by the broker

vars == <<running, session, db, open, out, hist>>

-----------------------------------------------------------------------------
(* Data.  Members of qos_outgoing_messages are MQTTMessage values of two    *)
(* kinds.  msg stands for topic and payload: the number of the routed       *)
(* message.  A PUBREC carries only its identifier.                          *)

NoMsg == 0
Msgs == 1 .. MaxMsgs

PublishEntryKeepsDup(mid, qos, msg) ==    \* mutant: message.set_dup(false) is lost
    [type |-> "Publish", mid |-> mid, qos |-> qos, dup |-> TRUE, msg |-> msg]

PublishEntry(mid, qos, msg) ==
    [type |-> "Publish", mid |-> mid, qos |-> qos, dup |-> FALSE, msg |-> msg]

PubRecEntry(mid) ==
    [type |-> "PubRec", mid |-> mid, qos |-> 0, dup |-> FALSE, msg |-> NoMsg]

Entry == [type : {"Publish"}, mid : Mids, qos : {1, 2}, dup : BOOLEAN, msg : Msgs]
            \cup {PubRecEntry(mid) : mid \in Mids}

\* A row of qosout with the row of messages it references.  retain is not
\* stored.  The id is SQLite's rowid: one more than the largest in use.
Row == [id : 1 .. MaxRowId, entry : Entry]

NextRowId(rows) ==
    1 + CHOOSE n \in {0} \cup {r.id : r \in rows} : \A r \in rows : r.id <= n

\* The fields of a new MQTTSession.
NewSession ==
    [client |-> NoClient, clean |-> TRUE, generation |-> 0, next_message_id |-> 1,
     qos_outgoing |-> {}, qos_outgoing_messages |-> <<>>, qos_incoming |-> {},
     subscriptions |-> {}]

\* Before the session's first start there is no row of it.
NewDb == [exists |-> FALSE, generation |-> 0, next_mid |-> 1, qosin |-> {}, qosout |-> {}]

NewHist ==
    [next |-> 1,             \* number of the next message to be stored
     unseen |-> {},          \* messages stored but sent to no client yet
     recd |-> {},            \* identifiers the client holds a PUBREC for
     wire |-> {}]            \* <<packet, mid>>: answers the clients still owe

\* Messages to the client and to the router.
Control(type, mid) == [type |-> type, mid |-> mid]
PublishMsg(mid, qos, dup) == [type |-> "Publish", mid |-> mid, qos |-> qos, dup |-> dup]
ConnAck(accepted, present) ==
    [type |-> "ConnAck", accepted |-> accepted, session_present |-> present]
Disconnect == [type |-> "Disconnect"]

\* The packet a client answers a PUBLISH with.
Answer(qos) == IF qos = 1 THEN "PubAck" ELSE "PubRec"

\* What is owed is recorded only where it restricts the clients.
Owed(answers) == IF Disciplined THEN answers ELSE {}

ToRouter(m) == <<[to |-> Router, msg |-> m]>>
ToClient(c, m) == <<[to |-> c, msg |-> m]>>

-----------------------------------------------------------------------------
(* The database calls of persistsql.rs. *)

\* persist_qos_outgoing_store: one transaction for the message and its row.
persist_qos_outgoing_store(d, entry) ==
    [d EXCEPT !.qosout = @ \cup {[id |-> NextRowId(d.qosout), entry |-> entry]}]

\* mutant: an acknowledgement also deletes smaller identifiers
DeleteUpTo(d, mid) == [d EXCEPT !.qosout = {r \in @ : r.entry.mid > mid}]

\* persist_qos_outgoing_delete: all rows with the identifier.
persist_qos_outgoing_delete(d, mid) ==
    [d EXCEPT !.qosout = {r \in @ : r.entry.mid # mid}]

\* It reads one such row first and fails when there is none.
CanDelete(d, mid) == \E r \in d.qosout : r.entry.mid = mid

\* mutant: dup is set in memory only
UpdateDupNothing(d, mids) == d

\* persist_qos_outgoing_update_dup, for a set of identifiers.
Marked(rows, mids) ==
    {IF r.entry.mid \in mids THEN [r EXCEPT !.entry.dup = TRUE] ELSE r : r \in rows}

persist_qos_outgoing_update_dup(d, mids) == [d EXCEPT !.qosout = Marked(@, mids)]

\* It returns the row's qosout_id as a u16: the call updates the row and then
\* fails when the id is larger, or when there is no row.
CanUpdateDup(d, mid) == \E r \in d.qosout : r.entry.mid = mid /\ r.id <= MaxU16

persist_qos_incoming_store(d, mid) == [d EXCEPT !.qosin = @ \cup {mid}]
persist_qos_incoming_delete(d, mid) == [d EXCEPT !.qosin = @ \ {mid}]

persist_update_session_mid(d, mid) == [d EXCEPT !.next_mid = mid]

LoadByMid(d) ==      \* mutant: ORDER BY mid
    {[i \in DOMAIN q |-> q[i].entry] :
        q \in {f \in [1 .. Cardinality(d.qosout) -> d.qosout] :
                  /\ Range(f) = d.qosout
                  /\ \A i, j \in DOMAIN f : i < j => f[i].entry.mid < f[j].entry.mid}}

\* persistent_qosout_load: the rows in the order they were inserted.
persistent_qosout_load(d) ==
    {[i \in DOMAIN q |-> q[i].entry] :
        q \in {f \in [1 .. Cardinality(d.qosout) -> d.qosout] :
                  /\ Range(f) = d.qosout
                  /\ \A i, j \in DOMAIN f : i < j => f[i].id < f[j].id}}

-----------------------------------------------------------------------------
(* The outgoing queue in memory. *)

Queue == session.qos_outgoing_messages

\* qos_outgoing_message_position: is there an entry, and the first one.
Queued(mid) ==
    /\ mid \in session.qos_outgoing
    /\ \E i \in DOMAIN Queue : Queue[i].mid = mid

Position(mid) ==
    CHOOSE i \in DOMAIN Queue :
        Queue[i].mid = mid /\ \A j \in DOMAIN Queue : Queue[j].mid = mid => i <= j

\* mutant: the entry behind the position is removed
WithoutNext(q, pos) ==
    [i \in 1 .. (Len(q) - 1) |-> IF i <= pos THEN q[i] ELSE q[i + 1]]

\* Vec::remove
Without(q, pos) ==
    [i \in 1 .. (Len(q) - 1) |-> IF i < pos THEN q[i] ELSE q[i + 1]]

\* qos_outgoing_set_dup of the first n entries of a queue that are Publish.
SetDup(q, n) ==
    [i \in DOMAIN q |->
        IF i <= n /\ q[i].type = "Publish" THEN [q[i] EXCEPT !.dup = TRUE] ELSE q[i]]

\* The identifiers whose rows that updates: dup is written only once.
DupMids(q, n) ==
    {q[i].mid : i \in {j \in DOMAIN q : j <= n /\ q[j].type = "Publish" /\ ~q[j].dup}}

\* mutant: the identifier outgrows a u16
NextMidUnbounded(mid) == mid + 1

\* next_message_id += 1 on a u16: the outcome of a build that wraps.
NextMid(mid) == (mid + 1) % (MaxU16 + 1)

-----------------------------------------------------------------------------
(* Sending and stopping. *)

\* send_client_message: a send to a client that is gone resets self.client.
Connected == session.client \in open
ClientAfterSend == IF Connected THEN session.client ELSE NoClient
SendClient(m) == IF Connected THEN ToClient(session.client, m) ELSE <<>>

\* run_loop after Err(Persist) or Err(Router): Disconnect to the client, then
\* the MQTTSession is dropped.  d and sent are what the handler did before.
Stop(client, opened, d, sent) ==
    /\ running' = FALSE
    /\ session' = NewSession
    /\ db' = d
    /\ out' = sent \o (IF client \in opened THEN ToClient(client, Disconnect) ELSE <<>>)
    /\ open' = opened

\* The task panics, or the process with all its connections dies.
Die(d, sent) ==
    /\ running' = FALSE
    /\ session' = NewSession
    /\ db' = d
    /\ out' = sent
    /\ open' \in {open, {}}

\* A call to the database or the router fails, or is never made.
Halt(d, sent) == Stop(session.client, open, d, sent) \/ Die(d, sent)

\* The handler returned Ok or Err(Client).
Continue(s, d, sent) ==
    /\ running' = TRUE
    /\ session' = s
    /\ db' = d
    /\ out' = sent
    /\ UNCHANGED open

-----------------------------------------------------------------------------
(* Start: init_persist_session reads or creates the session's row. *)

MidsOf(queue) == {queue[i].mid : i \in DOMAIN queue}

LoadSessionForgetsIncoming(subs, queue) ==       \* mutant: qosin is not loaded
    [client |-> NoClient, clean |-> FALSE,
     generation |-> db.generation, next_message_id |-> db.next_mid,
     qos_outgoing |-> MidsOf(queue),
     qos_outgoing_messages |-> queue,
     qos_incoming |-> {}, subscriptions |-> subs]

\* The fields of a session whose row exists.
LoadSession(subs, queue) ==
    [client |-> NoClient, clean |-> FALSE,
     generation |-> db.generation, next_message_id |-> db.next_mid,
     qos_outgoing |-> MidsOf(queue),
     qos_outgoing_messages |-> queue,
     qos_incoming |-> db.qosin, subscriptions |-> subs]

Start ==
    /\ ~running
    /\ \E subs \in SUBSET Topics :      \* load_persistent_subscriptions
       \E queue \in persistent_qosout_load(db) :
          Continue(IF db.exists THEN LoadSession(subs, queue) ELSE NewSession,
                   [db EXCEPT !.exists = TRUE], <<>>)
    /\ UNCHANGED hist

\* The row may have been inserted when the session fails to start.
StartFails ==
    /\ ~running
    /\ db' \in {db, [db EXCEPT !.exists = TRUE]}
    /\ out' = <<>>
    /\ UNCHANGED <<running, session, open, hist>>

-----------------------------------------------------------------------------
(* internal_publish_message: a message the router sends to a subscriber.    *)

\* The loop drops a message addressed to another generation.
InternalPublishStale(generation) ==
    /\ running
    /\ generation # session.generation
    /\ Continue(session, db, <<>>)
    /\ UNCHANGED hist

InternalPublishQos0 ==
    /\ running
    /\ ~session.clean       \* some client has connected and subscribed
    /\ Continue([session EXCEPT !.client = ClientAfterSend], db,
                SendClient(PublishMsg(0, 0, FALSE)))
    /\ UNCHANGED hist

\* QoS 1 and 2: qos_outgoing_insert, send, qos_outgoing_set_dup.
InternalPublish(qos) ==
    LET mid     == session.next_message_id
        advance == NextMid(mid)
        entry   == PublishEntry(mid, qos, hist.next)
        d1      == persist_update_session_mid(db, advance)
        d2      == persist_qos_outgoing_store(d1, entry)
        d3      == persist_qos_outgoing_update_dup(d2, {mid})
        queue   == Append(Queue, [entry EXCEPT !.dup = Connected])
        sending == SendClient(PublishMsg(mid, qos, FALSE))
        stored  == [hist EXCEPT !.next = @ + 1, !.unseen = @ \cup {hist.next}]
        shown   == [hist EXCEPT !.next = @ + 1,
                                !.wire = @ \cup Owed({<<Answer(qos), mid>>})]
        after   == [session EXCEPT
                      !.client = ClientAfterSend,
                      !.next_message_id = advance,
                      !.qos_outgoing = @ \cup {mid},
                      !.qos_outgoing_messages = queue]
    IN
    /\ running
    /\ ~session.clean       \* some client has connected and subscribed
    /\ hist.next \in Msgs
    /\ NextRowId(db.qosout) <= MaxRowId
    /\ \/ \* the identifier is not saved, or the increment overflows and panics
          /\ Halt(db, <<>>)
          /\ hist' = hist
       \/ \* "QoS outgoing mid duplicate found", or the message is not stored
          /\ Halt(d1, <<>>)
          /\ hist' = hist
       \/ \* dup is not saved, or saved but its qosout_id exceeds a u16
          /\ mid \notin session.qos_outgoing
          /\ Connected
          /\ \/ Halt(d2, sending)
             \/ ~CanUpdateDup(d2, mid) /\ Halt(d3, sending)
          /\ hist' = shown
       \/ /\ mid \notin session.qos_outgoing
          /\ Connected => CanUpdateDup(d2, mid)
          /\ Continue(after, IF Connected THEN d3 ELSE d2, sending)
          /\ hist' = IF Connected THEN shown ELSE stored

-----------------------------------------------------------------------------
(* Acknowledgements of the client.  They reach the session untagged: from   *)
(* the current connection or an earlier one.  A disciplined client sends    *)
(* only the answers it owes.                                                *)

ClientMayAnswer(packet, mid) ==
    /\ running
    /\ ~session.clean       \* a connection is handed to the session first
    /\ Disciplined => <<packet, mid>> \in hist.wire

Answered(packet, mid) == [hist EXCEPT !.wire = @ \ {<<packet, mid>>}]

\* qos_outgoing_remove, for any kind of entry.
qos_outgoing_remove(mid) ==
    \/ /\ ~Queued(mid)
       /\ Continue(session, db, <<>>)
    \/ /\ Queued(mid)
       /\ Halt(db, <<>>)
    \/ /\ Queued(mid)
       /\ CanDelete(db, mid)
       /\ Continue([session EXCEPT
                      !.qos_outgoing = @ \ {mid},
                      !.qos_outgoing_messages = Without(@, Position(mid))],
                   persist_qos_outgoing_delete(db, mid), <<>>)

Puback(mid) ==
    /\ ClientMayAnswer("PubAck", mid)
    /\ qos_outgoing_remove(mid)
    /\ hist' = Answered("PubAck", mid)

Pubcomp(mid) ==
    /\ ClientMayAnswer("PubComp", mid)
    /\ qos_outgoing_remove(mid)
    /\ hist' = Answered("PubComp", mid)

\* qos_outgoing_insert of a PUBREC, then a PUBREL to the client.  A queued
\* Publish is deleted in one transaction and the PubRec stored in another.
Pubrec(mid) ==
    LET isPublish == Queued(mid) /\ Queue[Position(mid)].type = "Publish"
        isPubRec  == Queued(mid) /\ ~isPublish
        d1 == IF isPublish THEN persist_qos_outgoing_delete(db, mid) ELSE db
        d2 == IF isPubRec THEN db ELSE persist_qos_outgoing_store(d1, PubRecEntry(mid))
        q1 == IF isPublish THEN Without(Queue, Position(mid)) ELSE Queue
        q2 == IF isPubRec THEN Queue ELSE Append(q1, PubRecEntry(mid))
        answered == Answered("PubRec", mid)
    IN
    /\ ClientMayAnswer("PubRec", mid)
    /\ NextRowId(db.qosout) <= MaxRowId
    /\ \/ /\ ~isPubRec
          /\ Halt(db, <<>>) \/ (isPublish /\ CanDelete(db, mid) /\ Halt(d1, <<>>))
          /\ hist' = answered
       \/ /\ isPublish => CanDelete(db, mid)
          /\ Continue([session EXCEPT
                         !.client = ClientAfterSend,
                         !.qos_outgoing = @ \cup {mid},
                         !.qos_outgoing_messages = q2],
                      d2, SendClient(Control("PubRel", mid)))
          /\ hist' = IF Connected
                     THEN [answered EXCEPT !.wire = @ \cup Owed({<<"PubComp", mid>>})]
                     ELSE answered

-----------------------------------------------------------------------------
(* Publishes of the client, QoS 2 with its two-step handshake. *)

ClientMayPublish == running /\ ~session.clean

\* publish_message.  The message goes to the router before a QoS 2 identifier
\* is stored; failing to answer the client is only logged.
Publish(mid, qos) ==
    LET forward == ToRouter(PublishMsg(mid, qos, FALSE))
        again   == qos = 2 /\ mid \in session.qos_incoming
        answer  == IF qos = 0 THEN <<>> ELSE SendClient(Control(Answer(qos), mid))
        silent  == [session EXCEPT !.client = IF qos = 0 THEN @ ELSE ClientAfterSend]
        held    == IF qos = 2 /\ Connected THEN [hist EXCEPT !.recd = @ \cup {mid}]
                                           ELSE hist
    IN
    /\ ClientMayPublish
    /\ \/ /\ again
          /\ Continue(silent, db, answer)
          /\ hist' = held
       \/ /\ ~again
          /\ qos < 2
          /\ Continue(silent, db, forward \o answer)
          /\ hist' = hist
       \/ /\ ~again
          /\ qos = 2            \* qos_incoming_store
          /\ Continue([silent EXCEPT !.qos_incoming = @ \cup {mid}],
                      persist_qos_incoming_store(db, mid), forward \o answer)
          /\ hist' = held
       \/ /\ ~again             \* the router is gone
          /\ Halt(db, <<>>)
          /\ hist' = hist
       \/ /\ ~again             \* the identifier is not stored
          /\ qos = 2
          /\ Halt(db, forward)
          /\ hist' = hist

\* pubrel_message: forget the identifier, then PUBCOMP.
Pubrel(mid) ==
    /\ ClientMayPublish
    /\ \/ /\ Halt(db, <<>>)
          /\ hist' = hist
       \/ /\ Continue([session EXCEPT !.client = ClientAfterSend,
                                      !.qos_incoming = @ \ {mid}],
                      persist_qos_incoming_delete(db, mid),
                      SendClient(Control("PubComp", mid)))
          /\ hist' = [hist EXCEPT !.recd = @ \ {mid}]

-----------------------------------------------------------------------------
(* Subscriptions.  The router owns them; the session remembers the filters  *)
(* so that a clean session can drop them all.                               *)

\* The prefix of a list of messages that is sent to c before its channel
\* closes; the rest, if any, is not.
Delivered(c, msgs, n) == [i \in 1 .. n |-> [to |-> c, msg |-> msgs[i]]]
CanDeliver(c, msgs) == IF c \in open THEN 0 .. Len(msgs) ELSE {0}

\* subscribe_message: every filter is noted, and requested from the router,
\* whose answer is awaited; then SUBACK and the retained messages.  One request
\* stands for the requests of all filters.
Subscribe(topics, retained, n) ==
    LET c        == session.client
        request  == ToRouter([type |-> "Subscribe", topics |-> topics])
        sends(ok) == <<[type |-> "SubAck", accepted |-> ok]>>
                       \o [i \in DOMAIN retained |->
                             PublishMsg(retained[i].mid, retained[i].qos, FALSE)]
        gone     == n < Len(sends(TRUE))
        owed     == {<<Answer(retained[i].qos), retained[i].mid>> :
                        i \in {j \in DOMAIN retained : j < n /\ retained[j].qos > 0}}
        heard    == [hist EXCEPT !.wire = @ \cup Owed(owed)]
        opened   == IF gone THEN open \ {c} ELSE open
    IN
    /\ ClientMayPublish
    /\ n \in CanDeliver(c, sends(TRUE))
    /\ \/ /\ running' = TRUE
          /\ session' = [session EXCEPT
                           !.client = IF gone THEN NoClient ELSE @,
                           !.subscriptions = @ \cup topics]
          /\ out' = request \o Delivered(c, sends(TRUE), n)
          /\ open' = opened
          /\ db' = db
          /\ hist' = heard
       \/ \* the router is gone or drops the response: Err(Router)
          /\ \/ Stop(IF gone THEN NoClient ELSE c, opened, db,
                     request \o Delivered(c, sends(FALSE), n))
             \/ n = 0 /\ Die(db, request)
          /\ hist' = heard

\* unsubscribe_message: sent to the router and not awaited.
Unsubscribe(topics) ==
    /\ ClientMayPublish
    /\ \/ Halt(db, <<>>)
       \/ Continue([session EXCEPT !.client = ClientAfterSend,
                                   !.subscriptions = @ \ topics],
                   db,
                   ToRouter([type |-> "Unsubscribe", topics |-> topics])
                     \o SendClient([type |-> "UnsubAck"]))
    /\ UNCHANGED hist

-----------------------------------------------------------------------------
(* new_client_connected: takeover, optional clean session, CONNACK and the  *)
(* queue.                                                                   *)

CleanSessionKeepsSubscriptions(calls) ==     \* mutant: subscriptions.clear() is lost
    [session EXCEPT
        !.qos_incoming          = IF calls >= 1 THEN {} ELSE @,
        !.qos_outgoing          = IF calls >= 2 THEN {} ELSE @,
        !.qos_outgoing_messages = IF calls >= 2 THEN <<>> ELSE @,
        !.clean                 = IF calls >= 3 THEN TRUE ELSE @,
        !.generation            = IF calls >= 3 THEN @ + 1 ELSE @,
        !.next_message_id       = IF calls >= 3 THEN 1 ELSE @]

\* clean_session makes four calls: clear qosin, clear qosout, the router's
\* Unsubscribe, save generation and next_mid.  The memory and the rows after
\* the first `calls` of them.
CleanSession(calls) ==
    [session EXCEPT
        !.qos_incoming          = IF calls >= 1 THEN {} ELSE @,
        !.qos_outgoing          = IF calls >= 2 THEN {} ELSE @,
        !.qos_outgoing_messages = IF calls >= 2 THEN <<>> ELSE @,
        !.subscriptions         = IF calls >= 2 THEN {} ELSE @,
        !.clean                 = IF calls >= 3 THEN TRUE ELSE @,
        !.generation            = IF calls >= 3 THEN @ + 1 ELSE @,
        !.next_message_id       = IF calls >= 3 THEN 1 ELSE @]

CleanDbKeepsMid(calls) ==    \* mutant: next_mid is not reset in the row
    [db EXCEPT
        !.qosin      = IF calls >= 1 THEN {} ELSE @,
        !.qosout     = IF calls >= 2 THEN {} ELSE @,
        !.generation = IF calls >= 4 THEN session.generation + 1 ELSE @]

CleanDb(calls) ==
    [db EXCEPT
        !.qosin      = IF calls >= 1 THEN {} ELSE @,
        !.qosout     = IF calls >= 2 THEN {} ELSE @,
        !.generation = IF calls >= 4 THEN session.generation + 1 ELSE @,
        !.next_mid   = IF calls >= 4 THEN 1 ELSE @]

\* send_queued_messages: a Publish as it is, a PubRec as PUBREL.
Redelivery(queue) ==
    [i \in DOMAIN queue |->
        IF queue[i].type = "Publish"
        THEN PublishMsg(queue[i].mid, queue[i].qos, queue[i].dup)
        ELSE Control("PubRel", queue[i].mid)]

\* c: the new connection; calls: how many calls of clean_session succeed, 4
\* also when it is not asked for; n: how many messages c's channel takes.
NewClient(c, cleanFlag, calls, n) ==
    LET s       == IF cleanFlag THEN CleanSession(calls) ELSE session
        d       == IF cleanFlag THEN CleanDb(calls) ELSE db
        ok      == calls = 4
        queue   == s.qos_outgoing_messages
        sends   == <<ConnAck(ok, ~s.clean)>> \o Redelivery(queue)
        taken   == IF n = 0 THEN 0 ELSE n - 1     \* entries of the queue sent
        gone    == n < Len(sends)
        opened  == IF gone THEN open \ {c} ELSE open
        sent    == SendClient(Disconnect) \o
                     (IF cleanFlag /\ calls >= 3
                      THEN ToRouter([type |-> "Unsubscribe", topics |-> session.subscriptions])
                      ELSE <<>>) \o Delivered(c, sends, n)
        \* the rows after qos_outgoing_set_dup of the first k entries
        saved(k) == persist_qos_outgoing_update_dup(d, DupMids(queue, k))
        saves(k) == \A mid \in DupMids(queue, k) : CanUpdateDup(d, mid)
        owed    == {<<IF queue[i].type = "Publish" THEN Answer(queue[i].qos)
                                                   ELSE "PubComp", queue[i].mid>> :
                       i \in 1 .. taken}
        seen    == [hist EXCEPT
                      !.unseen = IF cleanFlag /\ calls >= 2 THEN {}
                                 ELSE @ \ {queue[i].msg : i \in 1 .. taken},
                      !.recd = IF cleanFlag THEN {} ELSE @,
                      !.wire = (IF cleanFlag THEN {} ELSE @) \cup Owed(owed)]
    IN
    /\ running
    /\ c # session.client
    /\ cleanFlag => session.generation < MaxGeneration
    /\ ~cleanFlag => calls = 4
    /\ n \in CanDeliver(c, sends)
    /\ hist' = seen
    /\ \/ \* Ok or Err(Client).  A send that fails while the queue is sent
          \* hides the error of clean_session.
          /\ ok \/ (gone /\ queue # <<>>)
          /\ saves(taken)
          /\ running' = TRUE
          /\ session' = [s EXCEPT !.client = IF gone THEN NoClient ELSE c,
                                  !.clean = FALSE,
                                  !.qos_outgoing_messages = SetDup(queue, taken)]
          /\ db' = saved(taken)
          /\ out' = sent
          /\ open' = opened
       \/ \* clean_session failed
          /\ ~ok
          /\ ~(gone /\ queue # <<>>)
          /\ saves(taken)
          /\ Stop(IF gone THEN NoClient ELSE c, opened, saved(taken), sent)
       \/ \* clean_session is cut short
          /\ cleanFlag
          /\ n = 0
          /\ Die(d, sent)
       \/ \* dup of the last message taken is not saved, or saved but its
          \* qosout_id exceeds a u16
          /\ taken > 0
          /\ queue[taken].mid \in DupMids(queue, taken)
          /\ saves(taken - 1)
          /\ \E last \in IF CanUpdateDup(d, queue[taken].mid) THEN {taken - 1}
                                                              ELSE {taken - 1, taken} :
                Stop(c, open, saved(last), sent) \/ Die(saved(last), sent)

-----------------------------------------------------------------------------
(* Connections and failures. *)

ClientOpens(c) ==
    /\ open' = open \cup {c}
    /\ out' = <<>>
    /\ UNCHANGED <<running, session, db, hist>>

\* The client task ends: Disconnect, a network error or the keep-alive timer.
ClientCloses(c) ==
    /\ open' = open \ {c}
    /\ out' = <<>>
    /\ UNCHANGED <<running, session, db, hist>>

Crash ==
    /\ Die(db, <<>>)
    /\ UNCHANGED hist

-----------------------------------------------------------------------------
Init ==
    /\ running = FALSE
    /\ session = NewSession
    /\ db = NewDb
    /\ open = {}
    /\ out = <<>>
    /\ hist = NewHist

ClientPacket ==
    \/ \E mid \in Mids : Puback(mid) \/ Pubrec(mid) \/ Pubcomp(mid)
    \/ \E mid \in ClientMids : Pubrel(mid) \/ \E qos \in 0 .. 2 : Publish(mid, qos)
    \/ \E topics \in (SUBSET Topics) \ {{}} :
          \/ Unsubscribe(topics)
          \/ \E retained \in Retained : \E n \in 0 .. (1 + Len(retained)) :
                Subscribe(topics, retained, n)

InternalMessage ==
    \/ \E generation \in 0 .. MaxGeneration : InternalPublishStale(generation)
    \/ InternalPublishQos0
    \/ \E qos \in {1, 2} : InternalPublish(qos)

Next ==
    \/ Start \/ StartFails
    \/ ClientPacket
    \/ InternalMessage
    \/ \E c \in Conns :
          \/ ClientOpens(c) \/ ClientCloses(c)
          \/ \E cleanFlag \in BOOLEAN, calls \in 0 .. 4, n \in 0 .. (1 + Len(Queue)) :
                NewClient(c, cleanFlag, calls, n)
    \/ Crash

Spec == Init /\ [][Next]_vars

-----------------------------------------------------------------------------
(* Properties. *)

Message ==
    [type : {"PubAck", "PubRec", "PubRel", "PubComp"}, mid : Mids]
      \cup [type : {"Publish"}, mid : Mids, qos : 0 .. 2, dup : BOOLEAN]
      \cup [type : {"ConnAck"}, accepted : BOOLEAN, session_present : BOOLEAN]
      \cup [type : {"SubAck"}, accepted : BOOLEAN]
      \cup [type : {"Subscribe", "Unsubscribe"}, topics : SUBSET Topics]
      \cup [type : {"UnsubAck", "Disconnect"}]

Envelope == [to : Conns \cup {Router}, msg : Message]

SessionType ==
    [client : Conns \cup {NoClient}, clean : BOOLEAN,
     generation : 0 .. MaxGeneration, next_message_id : Mids,
     qos_outgoing : SUBSET Mids, qos_outgoing_messages : Seq(Entry),
     qos_incoming : SUBSET Mids, subscriptions : SUBSET Topics]

DbType ==
    [exists : BOOLEAN, generation : 0 .. MaxGeneration, next_mid : Mids,
     qosin : SUBSET Mids, qosout : SUBSET Row]

HistType ==
    [next : 1 .. (MaxMsgs + 1), unseen : SUBSET Msgs, recd : SUBSET Mids,
     wire : SUBSET ({"PubAck", "PubRec", "PubComp"} \X Mids)]

TypeOK ==
    /\ running \in BOOLEAN
    /\ session \in SessionType
    /\ db \in DbType
    /\ open \subseteq Conns
    /\ out \in Seq(Envelope)
    /\ hist \in HistType

-----------------------------------------------------------------------------
\* The set qos_outgoing is an index of the queue, and no identifier is in the
\* queue twice: an acknowledgement always finds the one message it is about.
Distinct(queue) == \A i, j \in DOMAIN queue : queue[i].mid = queue[j].mid => i = j

Indexed(s) ==
    LET queue == s.qos_outgoing_messages IN
    /\ s.qos_outgoing = MidsOf(queue)
    /\ Distinct(queue)

QueueIndexed == Indexed(session)

\* Whatever handler ran last, and whichever of its calls failed, a session that
\* is still running could be killed and restarted and would have the same
\* identifiers, generation and queue again, in the same order and with the same
\* dup flags.
RestartLosesNothing ==
    running =>
        /\ db.exists
        /\ db.generation = session.generation
        /\ db.next_mid = session.next_message_id
        /\ db.qosin = session.qos_incoming
        /\ Queue \in persistent_qosout_load(db)

\* Messages the session has not handed over yet are kept, and so redelivered,
\* in the order in which the router sent them, across restarts and takeovers.
QueueOrdered ==
    \A i, j \in DOMAIN Queue :
        (i < j /\ Queue[i].type = "Publish" /\ Queue[j].type = "Publish")
            => Queue[i].msg < Queue[j].msg

\* Only a message that has been sent before is ever marked as a duplicate.
DupWasSent ==
    \A r \in db.qosout : r.entry.dup => r.entry.msg \notin hist.unseen

\* With clients that answer only what they were sent, a message that was stored
\* for the client leaves the store only after it was sent: no acknowledgement,
\* failure or restart drops a message nobody has seen.  (A clean session empties
\* the store.)
UnsentIsStored ==
    hist.unseen \subseteq {r.entry.msg : r \in db.qosout}

\* Once a client has a PUBREC for its QoS 2 message, that message is not given
\* to the router again before the client's PUBREL, whatever restarts, takeovers
\* and retransmissions happen in between.
QoS2Once ==
    [][\A i \in DOMAIN out' :
          (out'[i].to = Router /\ out'[i].msg.type = "Publish" /\ out'[i].msg.qos = 2)
             => out'[i].msg.mid \notin hist.recd]_vars

\* A client that is told "accepted, no session present" starts from nothing: no
\* queued message, no QoS 2 identifier and no subscription of earlier clients.
NoSessionMeansNone ==
    [][\A i \in DOMAIN out' :
          (out'[i].msg.type = "ConnAck" /\ out'[i].msg.accepted
             /\ ~out'[i].msg.session_present)
             => /\ session'.qos_outgoing_messages = <<>>
                /\ session'.qos_incoming = {}
                /\ session'.subscriptions = {}
                /\ db'.qosout = {} /\ db'.qosin = {}]_vars

\* Every QoS 1 or 2 PUBLISH sent to a client has a non-zero identifier, which is
\* what the broker's own decoder asks of a PUBLISH.
IdentifierNonZero ==
    \A i \in DOMAIN out :
        (out[i].to # Router /\ out[i].msg.type = "Publish" /\ out[i].msg.qos > 0)
            => out[i].msg.mid # 0

-----------------------------------------------------------------------------
(* The inductive invariant behind QueueIndexed, RestartLosesNothing and      *)
(* QueueOrdered.  A restart takes the queue from the rows, so what the queue *)
(* must satisfy is asked of the rows, whether the session runs or not.       *)

\* No two rows have the same id or the same identifier, and rows of later
\* messages have larger ids.
RowsOK(rows) ==
    /\ rows \subseteq Row
    /\ \A r1, r2 \in rows : (r1.id = r2.id \/ r1.entry.mid = r2.entry.mid) => r1 = r2
    /\ \A r1, r2 \in rows :
          (r1.id < r2.id /\ r1.entry.type = "Publish" /\ r2.entry.type = "Publish")
             => r1.entry.msg < r2.entry.msg

\* A session that was never started has no rows.
StoreOK(d) == d \in DbType /\ RowsOK(d.qosout) /\ (d.exists \/ d = NewDb)

\* The rows are the queue: the same entries, in the same order.
Mirrors(queue, rows) ==
    /\ \A i \in DOMAIN queue : \E r \in rows : r.entry = queue[i]
    /\ \A r \in rows : \E i \in DOMAIN queue : r.entry = queue[i]
    /\ \A r1, r2 \in rows : \A i, j \in DOMAIN queue :
          (r1.entry = queue[i] /\ r2.entry = queue[j] /\ i < j) => r1.id < r2.id

InStep(s, d) ==
    /\ d.exists
    /\ d.generation = s.generation
    /\ d.next_mid = s.next_message_id
    /\ d.qosin = s.qos_incoming
    /\ Mirrors(s.qos_outgoing_messages, d.qosout)

IndInv ==
    /\ TypeOK
    /\ QueueIndexed
    /\ StoreOK(db)
    /\ \A r \in db.qosout : r.entry.msg < hist.next
    /\ IF running THEN InStep(session, db) ELSE session = NewSession

-----------------------------------------------------------------------------
(* The inductive invariants behind DupWasSent, QoS2Once, NoSessionMeansNone  *)
(* and UnsentIsStored, on top of IndInv.                                     *)

\* A session that no client has used is a new one; a message that is marked as
\* a duplicate was sent; and an identifier whose PUBREC the client holds has a
\* row, which every restart reads.
HandshakeInv ==
    /\ \A m \in hist.unseen : m < hist.next
    /\ DupWasSent
    /\ hist.recd \subseteq db.qosin
    /\ session.clean => session = NewSession

\* The clients the sessions are made for: they answer only what they were sent,
\* and are sent no retained message under an identifier of its publisher.
Regular ==
    /\ Disciplined
    /\ \A retained \in Retained : \A i \in DOMAIN retained : retained[i].qos = 0

\* The answer that completes what an entry of the queue has begun.
Owes(entry) == IF entry.type = "Publish" THEN Answer(entry.qos) ELSE "PubComp"

\* An answer under way is about the message that is stored under its identifier
\* now, and that message was sent: the identifier is not used again before.
WireOK ==
    \A w \in hist.wire : \E r \in db.qosout :
        r.entry.mid = w[2] /\ w[1] = Owes(r.entry) /\ r.entry.msg \notin hist.unseen

DeliveryInv == HandshakeInv /\ (Regular => WireOK /\ UnsentIsStored)

=============================================================================
