-------------------------------- MODULE Broker --------------------------------
(***************************************************************************)
(* The tasks of one broker and the channels between them: the broker task  *)
(* (broker/mod.rs), the registry of sessions (sessions/mod.rs), the router *)
(* (broker/router.rs), the session tasks as far as they talk to the others *)
(* (sessions/sessionworker.rs), and the connections that ask for a session *)
(* (server/mod.rs).                                                        *)
(*                                                                         *)
(* Sessions and routers come and go: one that meets an error leaves its    *)
(* loop, is dropped a moment later, and is replaced on the next request.   *)
(* Everyone else still holds its channel.  All channels are unbounded;     *)
(* sending fails only when the receiver has been dropped, and what is in   *)
(* the channel then is lost.                                               *)
(*                                                                         *)
(* SessionWorker and Subscriptions model what a session and the router do  *)
(* to their own state.  Here a session keeps its generation, filters and   *)
(* client, and a filter matches the topic of the same name.                *)
(***************************************************************************)
EXTENDS Naturals, SequencesExt

CONSTANTS
    Conns,          \* connections
    Clients,        \* session names
    Filters,        \* topic filters
    Ops,            \* packets the clients send
    Qos,            \* QoS of their subscriptions
    KeepAlive,      \* do the connections have a keep-alive timer
    MaxPackets,     \* bound: packets the clients send after CONNECT
    MaxFaults,      \* bound: database errors and process crashes
    MaxSessions     \* bound: session tasks ever started

ASSUME BoundsOK ==
    /\ KeepAlive \in BOOLEAN
    /\ Ops \subseteq {"subscribe", "unsubscribe", "publish"}
    /\ Qos \subseteq 0 .. 2
    /\ MaxPackets \in Nat /\ MaxFaults \in Nat /\ MaxSessions \in Nat
    /\ IsFiniteSet(Conns) /\ IsFiniteSet(Clients)

\* A connection asks for its session once, and a publish is forwarded once to
\* each session: there are never more tasks than this.
ASSUME EnoughSessions == Cardinality(Conns) + MaxPackets * Cardinality(Clients) <= MaxSessions

None == 0

VARIABLES
    broker,     \* the broker task: its step, requests, the router's channel
    registry,   \* per name: the session entered and the flag running
    router,     \* the present router: number, phase, channel, tree
    sess,       \* the session tasks, in the order of their start
    conn,       \* the connections
    db,         \* the rows: generations of sessions, subscriptions
    ghost       \* faults and packets so far, and what the properties need

vars == <<broker, registry, router, sess, conn, db, ghost>>

-----------------------------------------------------------------------------
(* Data. *)

\* step: "boot", "idle", "answer".  A request is [conn, name]; router_tx is the
\* number of a router.
NewBroker == [step |-> "boot", requests |-> <<>>, router_tx |-> None]

\* phase: "run"; "ended", out of its loop and not yet dropped; "gone".  sending
\* is who the message being published has still to be sent to.
NoRouter(inc) ==
    [inc |-> inc, phase |-> "gone", queue |-> <<>>, tree |-> {}, sending |-> {}]

\* The flag router_state.running is cleared when the router is dropped.
RouterRunning == router.phase # "gone"

NewRegistry == [n \in Clients |-> [inst |-> None, running |-> FALSE]]

\* phase: "init", "run", "saving": in clean_session with the generation unsaved,
\* "wait": for the router's answer, "ended", "gone".  pend is the message the
\* handler in progress is about.
NoMsg == [op |-> "none"]
NewSession(n, r) ==
    [name |-> n, phase |-> "init", router |-> r, client |-> None, generation |-> 0,
     subs |-> {}, queue |-> <<>>, pend |-> NoMsg, reply |-> "none"]

\* st: "idle", "asked", "granted": the session's channel is there, "attached":
\* NewClient is sent, "accepted", "closed".  told: a Disconnect or a refusal of
\* the session waits in the worker's channel.
NewConn ==
    [st |-> "idle", clean |-> FALSE, inst |-> None, subscribing |-> FALSE, told |-> FALSE]

\* Messages of the router's and the sessions' channels.  born is the generation
\* in which the client asked for the subscription; the code has no such field.
Subscribe(i, f, qos) ==
    [op |-> "subscribe", inst |-> i, name |-> sess[i].name, filter |-> f, qos |-> qos,
     generation |-> sess[i].generation]
Unsubscribe(n, fs) == [op |-> "unsubscribe", name |-> n, filters |-> fs]
Publish(f) == [op |-> "publish", topic |-> f]

NewClient(c, clean) == [op |-> "client", conn |-> c, clean |-> clean]
Packet(c, op, f, qos) == [op |-> op, conn |-> c, filter |-> f, qos |-> qos]

\* mutant: the tag is the session's generation when the message is sent
InternalTaggedNow(e) ==
    [op |-> "internal", generation |-> db.generation[e.name], qos |-> e.qos, born |-> e.born]

\* The tag is the generation the subscription was made in.
Internal(e) == [op |-> "internal", generation |-> e.generation, qos |-> e.qos, born |-> e.born]

Entry(n, f, qos, generation, born) ==
    [name |-> n, filter |-> f, qos |-> qos, generation |-> generation, born |-> born]
Row(e) == [name |-> e.name, filter |-> e.filter, qos |-> e.qos, born |-> e.born]

-----------------------------------------------------------------------------
(* What happens to the others. *)

Close(cs, S) ==
    [c \in Conns |-> IF c \in S THEN [NewConn EXCEPT !.st = "closed"] ELSE cs[c]]

\* The session's Disconnect, or its refusal; a closed channel loses it.
Tell(cs, S) ==
    [c \in Conns |-> IF c \in S /\ cs[c].st # "closed" THEN [cs[c] EXCEPT !.told = TRUE] ELSE cs[c]]

Accept(cs, c) == IF cs[c].st = "attached" THEN [cs EXCEPT ![c].st = "accepted"] ELSE cs

\* send_message_router succeeds until the router of the session is dropped.
RouterOpen(i) == router.inc = sess[i].router /\ router.phase # "gone"

ToRouter(m) == [router EXCEPT !.queue = Append(@, m)]

\* The next message of a session and the session without it.
Takes(i, op) == sess[i].phase = "run" /\ sess[i].queue # <<>> /\ Head(sess[i].queue).op = op
Took(i) == [sess[i] EXCEPT !.queue = Tail(@)]

\* The loop is left: "Disconnect client if connected".
Ended(s) == [s EXCEPT !.phase = "ended", !.client = None, !.pend = NoMsg, !.reply = "none"]
Gone(s) == [NewSession(s.name, None) EXCEPT !.phase = "gone"]
Leave(i, s, cs) ==
    /\ sess' = [sess EXCEPT ![i] = Ended(s)]
    /\ conn' = Tell(cs, {s.client} \cap Conns)

Fault == /\ ghost.faults < MaxFaults
         /\ ghost' = [ghost EXCEPT !.faults = @ + 1]

-----------------------------------------------------------------------------
(* The registry: a result is [sess, registry]. *)

\* start_session: a new channel, running = true, a new task.
start_session(st, n, r) ==
    [sess |-> Append(st.sess, NewSession(n, r)),
     registry |-> [st.registry EXCEPT ![n] = [inst |-> Len(st.sess) + 1, running |-> TRUE]]]

\* mutant: a restart leaves the flag as it is
RestartForgetsFlag(st, n, r) ==
    IF st.registry[n].running THEN st
    ELSE IF st.registry[n].inst = None THEN start_session(st, n, r)
    ELSE [start_session(st, n, r) EXCEPT !.registry[n].running = FALSE]

\* get_session: the vacant entry and the one whose task is dropped start one.
get_session(st, n, r) == IF st.registry[n].running THEN st ELSE start_session(st, n, r)

Present == [sess |-> sess, registry |-> registry]

-----------------------------------------------------------------------------
(* The broker task. *)

\* mutant: the generation is not read with the rows
LoadWithoutGeneration == {Entry(r.name, r.filter, r.qos, 0, r.born) : r \in db.rows}

\* load_persistent_subscriptions joins the session's present generation.
LoadTree == {Entry(r.name, r.filter, r.qos, db.generation[r.name], r.born) : r \in db.rows}

start_router(next) ==
    \/ /\ router' = [NoRouter(router.inc + 1) EXCEPT !.phase = "run", !.tree = LoadTree]
       /\ broker' = [broker EXCEPT !.step = next, !.router_tx = router.inc + 1]
       /\ UNCHANGED ghost
    \/ /\ Fault
       /\ broker' = [broker EXCEPT !.step = next, !.router_tx = None]
       /\ UNCHANGED router

\* run_loop starts the router before it looks at requests.
BrokerBoot ==
    /\ broker.step = "boot"
    /\ start_router("idle")
    /\ UNCHANGED <<registry, sess, conn, db>>

\* handle_session_request, up to the start of the router.
BrokerTake ==
    /\ broker.step = "idle" /\ broker.requests # <<>>
    /\ IF RouterRunning
       THEN broker' = [broker EXCEPT !.step = "answer"] /\ UNCHANGED <<router, ghost>>
       ELSE start_router("answer")
    /\ UNCHANGED <<registry, sess, conn, db>>

\* The rest of it: the session gets the router's channel, dead or alive, and
\* without one the answer is empty.
BrokerAnswer ==
    /\ broker.step = "answer"
    /\ LET r == Head(broker.requests)
           got == get_session(Present, r.name, broker.router_tx)
       IN  IF broker.router_tx = None
           THEN conn' = Close(conn, {r.conn}) /\ UNCHANGED <<sess, registry>>
           ELSE /\ sess' = got.sess /\ registry' = got.registry
                /\ conn' = [conn EXCEPT ![r.conn].st = "granted",
                                        ![r.conn].inst = got.registry[r.name].inst]
    /\ broker' = [broker EXCEPT !.step = "idle", !.requests = Tail(@)]
    /\ UNCHANGED <<router, db, ghost>>

BrokerStep == BrokerBoot \/ BrokerTake \/ BrokerAnswer

-----------------------------------------------------------------------------
(* The router.  Every handler can meet a database error, which ends it. *)

RouterReady == router.phase = "run" /\ router.sending = {} /\ router.queue # <<>>
RouterTakes(op) == RouterReady /\ Head(router.queue).op = op
RouterTook == [router EXCEPT !.queue = Tail(@)]

\* publish_message for one subscriber: a session that does not run is started
\* if the subscription has a QoS; a closed channel is only logged.
Forward(st, e) ==
    LET got == IF e.qos > 0 THEN get_session(st, e.name, router.inc) ELSE st
        i == got.registry[e.name].inst
    IN  IF got.registry[e.name].running
        THEN [got EXCEPT !.sess[i].queue = Append(@, Internal(e))]
        ELSE got

RouterPublish ==
    /\ RouterTakes("publish")
    /\ router' = [RouterTook EXCEPT !.sending =
                    {e \in router.tree : e.filter = Head(router.queue).topic}]
    /\ UNCHANGED <<broker, registry, sess, conn, db, ghost>>

\* The lock on the sessions is taken anew for each of them, in any order.
RouterForward ==
    /\ \E e \in router.sending :
          LET st == Forward(Present, e)
          IN  /\ sess' = st.sess /\ registry' = st.registry
              /\ router' = [router EXCEPT !.sending = @ \ {e}]
    /\ UNCHANGED <<broker, conn, db, ghost>>

\* The subscription is as in now; the session that waits is answered.
Subscribed(m, now) ==
    LET other(e) == ~(e.name = m.name /\ e.filter = m.filter)
    IN  /\ router' = [RouterTook EXCEPT !.tree = {e \in @ : other(e)} \cup now]
        /\ db' = [db EXCEPT !.rows = {r \in @ : other(r)} \cup {Row(e) : e \in now}]
        /\ sess' = [sess EXCEPT ![m.inst].reply = "ok"]

\* subscribe_message: a subscription held already with that QoS is left alone,
\* also its generation, and so is one whose new QoS cannot be stored.
RouterSubscribe ==
    /\ RouterTakes("subscribe")
    /\ LET m == Head(router.queue)
           held == {e \in router.tree : e.name = m.name /\ e.filter = m.filter}
           kept == {[e EXCEPT !.born = m.generation] : e \in held}
           same == \E e \in held : e.qos = m.qos
       IN  \/ same /\ Subscribed(m, kept) /\ UNCHANGED ghost
           \/ /\ ~same /\ UNCHANGED ghost
              /\ Subscribed(m, {Entry(m.name, m.filter, m.qos, m.generation, m.generation)})
           \/ ~same /\ held # {} /\ Fault /\ Subscribed(m, kept)
    /\ UNCHANGED <<broker, registry, conn>>

\* unsubscribe_message goes by the session's name.
Unsubscribed(S, n, fs) == {e \in S : ~(e.name = n /\ e.filter \in fs)}

RouterUnsubscribe ==
    /\ RouterTakes("unsubscribe")
    /\ LET m == Head(router.queue)
       IN  /\ router' = [RouterTook EXCEPT !.tree = Unsubscribed(@, m.name, m.filters)]
           /\ db' = [db EXCEPT !.rows = Unsubscribed(@, m.name, m.filters)]
    /\ UNCHANGED <<broker, registry, sess, conn, ghost>>

\* The names whose unsubscribe is among these messages.
Unsubscribing(ms) == {m.name : m \in {m \in Range(ms) : m.op = "unsubscribe" /\ m.filters # {}}}

\* The sessions that wait for the answer to one of these messages.
Waiting(ms) == {m.inst : m \in {m \in Range(ms) : m.op = "subscribe"}}

Dropped(ss, ms) ==
    [i \in DOMAIN ss |-> IF i \in Waiting(ms) THEN [ss[i] EXCEPT !.reply = "dropped"] ELSE ss[i]]

\* A database error: the handler has no effect, its answer is never sent.  Only
\* an unsubscribe may have deleted some of its rows before.
RouterFails ==
    /\ RouterReady
    /\ ghost.faults < MaxFaults
    /\ router' = [RouterTook EXCEPT !.phase = "ended"]
    /\ LET m == Head(router.queue)
       IN  IF m.op = "unsubscribe"
           THEN \E fs \in SUBSET m.filters :
                   /\ m.filters # {}
                   /\ db' = [db EXCEPT !.rows = Unsubscribed(@, m.name, fs)]
                   /\ ghost' = [ghost EXCEPT !.faults = @ + 1,
                                  !.revived = @ \cup Unsubscribing(<<[m EXCEPT !.filters = @ \ fs]>>)]
                   /\ UNCHANGED sess
           ELSE sess' = Dropped(sess, <<m>>) /\ Fault /\ UNCHANGED db
    /\ UNCHANGED <<broker, registry, conn>>

\* mutant: those who wait for an answer are not told
DropKeepsWaiting ==
    /\ router.phase = "ended"
    /\ router' = NoRouter(router.inc)
    /\ ghost' = [ghost EXCEPT !.revived = @ \cup Unsubscribing(router.queue)]
    /\ UNCHANGED <<broker, registry, sess, conn, db>>

\* Drop: what is in the channel is lost, and with it the answers waited for.
RouterDrop ==
    /\ router.phase = "ended"
    /\ router' = NoRouter(router.inc)
    /\ sess' = Dropped(sess, router.queue)
    /\ ghost' = [ghost EXCEPT !.revived = @ \cup Unsubscribing(router.queue)]
    /\ UNCHANGED <<broker, registry, conn, db>>

RouterStep ==
    \/ RouterPublish \/ RouterForward \/ RouterSubscribe \/ RouterUnsubscribe
    \/ RouterFails \/ RouterDrop

-----------------------------------------------------------------------------
(* A session task. *)

\* init_persist_session: the generation and the filters are loaded.
SessionInit(i) ==
    /\ sess[i].phase = "init"
    /\ \/ /\ sess' = [sess EXCEPT ![i].phase = "run", ![i].generation = db.generation[sess[i].name],
                        ![i].subs = {r.filter : r \in {r \in db.rows : r.name = sess[i].name}}]
          /\ UNCHANGED <<conn, ghost>>
       \/ Fault /\ Leave(i, sess[i], conn)
    /\ UNCHANGED <<broker, registry, router, db>>

\* new_client_connected without a clean session: the old client is told to go,
\* the new one accepted.  Redelivery can fail after that.
SessionNewClient(i) ==
    /\ Takes(i, "client") /\ ~Head(sess[i].queue).clean
    /\ LET c == Head(sess[i].queue).conn
           s == [Took(i) EXCEPT !.client = c]
           cs == Accept(Tell(conn, ({sess[i].client} \cap Conns) \ {c}), c)
       IN  \/ sess' = [sess EXCEPT ![i] = s] /\ conn' = cs /\ UNCHANGED ghost
           \/ Fault /\ Leave(i, s, cs)
    /\ UNCHANGED <<broker, registry, router, db>>

\* mutant: the filters are cleared before they are sent
UnsubscribeAfterClear(i) == ToRouter(Unsubscribe(sess[i].name, {}))

\* unsubscribe_all: one request for every filter the session knows of.
unsubscribe_all(i) == ToRouter(Unsubscribe(sess[i].name, sess[i].subs))

\* With one: clean_session up to the save of the generation.  It fails with the
\* rows it deletes first, or with the router; then the client is refused.
SessionClean(i) ==
    /\ Takes(i, "client") /\ Head(sess[i].queue).clean
    /\ LET c == Head(sess[i].queue).conn
           n == sess[i].name
           cs == Tell(conn, ({sess[i].client} \cap Conns) \ {c})
       IN  \/ /\ RouterOpen(i)
              /\ router' = unsubscribe_all(i)
              /\ sess' = [sess EXCEPT ![i] = [Took(i) EXCEPT !.client = None, !.subs = {},
                                                !.generation = @ + 1, !.phase = "saving", !.pend = Head(sess[i].queue)]]
              /\ conn' = cs
              /\ ghost' = [ghost EXCEPT !.granted = {g \in @ : g[1] # n}]
           \/ /\ ~RouterOpen(i) /\ UNCHANGED <<router, ghost>>
              /\ Leave(i, [Took(i) EXCEPT !.client = c], cs)
           \/ /\ Fault /\ UNCHANGED router
              /\ Leave(i, [Took(i) EXCEPT !.client = c], cs)
    /\ UNCHANGED <<broker, registry, db>>

\* persist_update_session_generation and the CONNACK.
SessionSave(i) ==
    /\ sess[i].phase = "saving"
    /\ LET s == [sess[i] EXCEPT !.phase = "run", !.client = sess[i].pend.conn, !.pend = NoMsg]
       IN  \/ /\ db' = [db EXCEPT !.generation[s.name] = s.generation]
              /\ sess' = [sess EXCEPT ![i] = s]
              /\ conn' = Accept(conn, s.client)
              /\ UNCHANGED ghost
           \/ Fault /\ Leave(i, s, conn) /\ UNCHANGED db
    /\ UNCHANGED <<broker, registry, router>>

\* subscribe_message: nothing else is handled until the router answers.  A
\* router that is gone makes it a refusal and the end of the session.
SessionSubscribe(i) ==
    /\ Takes(i, "subscribe")
    /\ LET m == Head(sess[i].queue)
           s == [Took(i) EXCEPT !.subs = @ \cup {m.filter}]
       IN  IF RouterOpen(i)
           THEN /\ router' = ToRouter(Subscribe(i, m.filter, m.qos))
                /\ sess' = [sess EXCEPT ![i] = [s EXCEPT !.phase = "wait", !.pend = m]]
                /\ UNCHANGED conn
           ELSE Leave(i, s, conn) /\ UNCHANGED router
    /\ UNCHANGED <<broker, registry, db, ghost>>

\* The answer, or the end of the router that was to give it.  The SUBACK goes to
\* whoever is the client by now.
SessionSuback(i) ==
    /\ sess[i].phase = "wait" /\ sess[i].reply # "none"
    /\ LET m == sess[i].pend
           s == [sess[i] EXCEPT !.phase = "run", !.pend = NoMsg, !.reply = "none"]
       IN  IF sess[i].reply = "ok"
           THEN /\ sess' = [sess EXCEPT ![i] = s]
                /\ conn' = IF s.client = m.conn THEN [conn EXCEPT ![m.conn].subscribing = FALSE] ELSE conn
                /\ ghost' = [ghost EXCEPT !.granted = @ \cup {<<s.name, m.filter>>}]
           ELSE Leave(i, s, conn) /\ UNCHANGED ghost
    /\ UNCHANGED <<broker, registry, router, db>>

\* unsubscribe_message and publish_message hand their request to the router.
SessionForward(i) ==
    /\ Takes(i, "unsubscribe") \/ Takes(i, "publish")
    /\ LET m == Head(sess[i].queue)
           unsub == m.op = "unsubscribe"
           s == IF unsub THEN [Took(i) EXCEPT !.subs = @ \ {m.filter}] ELSE Took(i)
       IN  /\ IF RouterOpen(i)
              THEN /\ router' = ToRouter(IF unsub THEN Unsubscribe(s.name, {m.filter}) ELSE Publish(m.filter))
                   /\ sess' = [sess EXCEPT ![i] = s]
                   /\ UNCHANGED conn
              ELSE Leave(i, s, conn) /\ UNCHANGED router
           /\ ghost' = [ghost EXCEPT !.granted = IF unsub THEN @ \ {<<s.name, m.filter>>} ELSE @]
    /\ UNCHANGED <<broker, registry, db>>

\* A message of the router counts only in the generation it is tagged with; one
\* with a QoS is stored.
Accepted(i, m) == m.generation = sess[i].generation

SessionInternal(i) ==
    /\ Takes(i, "internal")
    /\ \/ sess' = [sess EXCEPT ![i] = Took(i)] /\ UNCHANGED <<conn, ghost>>
       \/ /\ Accepted(i, Head(sess[i].queue)) /\ Head(sess[i].queue).qos > 0
          /\ Fault /\ Leave(i, Took(i), conn)
    /\ UNCHANGED <<broker, registry, router, db>>

\* Drop: the flag is cleared, the channel closed with what is in it.
SessionDrop(i) ==
    /\ sess[i].phase = "ended"
    /\ sess' = [sess EXCEPT ![i] = Gone(@)]
    /\ registry' = [registry EXCEPT ![sess[i].name].running = FALSE]
    /\ UNCHANGED <<broker, router, conn, db, ghost>>

SessionStep(i) ==
    \/ SessionInit(i) \/ SessionNewClient(i) \/ SessionClean(i) \/ SessionSave(i)
    \/ SessionSubscribe(i) \/ SessionSuback(i) \/ SessionForward(i) \/ SessionInternal(i)
    \/ SessionDrop(i)

-----------------------------------------------------------------------------
(* A connection: connect_stream, then its client worker. *)

\* An authenticated CONNECT: the session's channel is asked for.
Connect(c) ==
    /\ conn[c].st = "idle"
    /\ \E n \in Clients, clean \in BOOLEAN :
          /\ conn' = [conn EXCEPT ![c].st = "asked", ![c].clean = clean]
          /\ broker' = [broker EXCEPT !.requests = Append(@, [conn |-> c, name |-> n])]
    /\ UNCHANGED <<registry, router, sess, db, ghost>>

\* The channel that was granted may be closed by now.
SessionOpen(i) == sess[i].phase # "gone"

Attach(c) ==
    /\ conn[c].st = "granted"
    /\ IF SessionOpen(conn[c].inst)
       THEN /\ sess' = [sess EXCEPT ![conn[c].inst].queue = Append(@, NewClient(c, conn[c].clean))]
            /\ conn' = [conn EXCEPT ![c].st = "attached"]
       ELSE conn' = Close(conn, {c}) /\ UNCHANGED sess
    /\ UNCHANGED <<broker, registry, router, db, ghost>>

\* The worker forwards a packet, also one sent ahead of the CONNACK; a closed
\* channel closes the connection.
Send(c) ==
    /\ conn[c].st \in {"attached", "accepted"} /\ ghost.packets < MaxPackets
    /\ \E op \in Ops, f \in Filters, qos \in Qos \cup {0} :
          /\ IF op = "subscribe" THEN ~conn[c].subscribing /\ qos \in Qos ELSE qos = 0
          /\ IF SessionOpen(conn[c].inst)
             THEN /\ sess' = [sess EXCEPT ![conn[c].inst].queue = Append(@, Packet(c, op, f, qos))]
                  /\ conn' = [conn EXCEPT ![c].subscribing = @ \/ op = "subscribe"]
             ELSE conn' = Close(conn, {c}) /\ UNCHANGED sess
    /\ ghost' = [ghost EXCEPT !.packets = @ + 1]
    /\ UNCHANGED <<broker, registry, router, db>>

\* The worker reads the session's Disconnect; until then it goes on forwarding.
Told(c) ==
    /\ conn[c].told
    /\ conn' = Close(conn, {c})
    /\ UNCHANGED <<broker, registry, router, sess, db, ghost>>

\* The client goes away.
Disconnect(c) ==
    /\ conn[c].st \in {"attached", "accepted"}
    /\ conn' = Close(conn, {c})
    /\ UNCHANGED <<broker, registry, router, sess, db, ghost>>

\* mutant: the timer starts with the CONNACK
TimerFromConnack(c) == KeepAlive /\ conn[c].st = "accepted"

\* The worker starts the timer when it starts, set_keepalive_timer.
TimerRuns(c) == KeepAlive /\ conn[c].st \in {"attached", "accepted"}

\* The client has been silent for too long.
KeepAliveFires(c) ==
    /\ TimerRuns(c)
    /\ conn' = Close(conn, {c})
    /\ UNCHANGED <<broker, registry, router, sess, db, ghost>>

-----------------------------------------------------------------------------
\* The process dies; the rows stay.
Crash ==
    /\ ghost.faults < MaxFaults
    /\ broker' = NewBroker /\ registry' = NewRegistry /\ router' = NoRouter(router.inc)
    /\ sess' = [i \in DOMAIN sess |-> Gone(sess[i])]
    /\ conn' = Close(conn, {c \in Conns : conn[c].st # "idle"})
    /\ ghost' = [ghost EXCEPT !.faults = @ + 1, !.revived = @ \cup Unsubscribing(router.queue)]
    /\ UNCHANGED db

Init ==
    /\ broker = NewBroker /\ registry = NewRegistry /\ router = NoRouter(None)
    /\ sess = <<>> /\ conn = [c \in Conns |-> NewConn]
    /\ db = [generation |-> [n \in Clients |-> 0], rows |-> {}]
    /\ ghost = [faults |-> 0,    \* faults so far
                packets |-> 0,   \* packets sent so far
                granted |-> {},  \* <<name, filter>> with a SUBACK in this generation
                revived |-> {}]  \* names whose unsubscribe died with a router

Next ==
    \/ BrokerStep \/ RouterStep \/ Crash
    \/ \E i \in DOMAIN sess : SessionStep(i)
    \/ \E c \in Conns : Connect(c) \/ Attach(c) \/ Send(c) \/ Told(c) \/ Disconnect(c) \/ KeepAliveFires(c)

\* The runtime polls every task that can go on.  The timer of a client that has
\* yet to get its CONNACK expires: clients do not ping before.  Clients and
\* faults owe nothing.
Fairness ==
    /\ WF_vars(BrokerStep)
    /\ WF_vars(RouterStep)
    /\ \A i \in 1 .. MaxSessions : WF_vars(i \in DOMAIN sess /\ SessionStep(i))
    /\ \A c \in Conns : WF_vars(Attach(c)) /\ WF_vars(Told(c))
    /\ \A c \in Conns : WF_vars(conn[c].st = "attached" /\ KeepAliveFires(c))

Spec == Init /\ [][Next]_vars /\ Fairness

-----------------------------------------------------------------------------
(* Properties. *)

\* No two tasks run for one session: both would write its rows
\* (Sessions::get_session and the flag it shares with the task).
OneTaskPerSession ==
    \A i, j \in DOMAIN sess :
       sess[i].name = sess[j].name /\ sess[i].phase # "gone" /\ sess[j].phase # "gone" => i = j

\* A clean session never sees messages of the subscriptions before it, through
\* any restart of session or router, unless a router died with the
\* session's unsubscribe in its channel (clean_session, the generation tag,
\* load_persistent_subscriptions).
CleanIsolates ==
    \A i \in DOMAIN sess : \A m \in Range(sess[i].queue) :
       m.op = "internal" /\ Accepted(i, m) /\ sess[i].phase \notin {"init", "ended"}
          /\ sess[i].name \notin ghost.revived
       => m.born = sess[i].generation

\* A subscription the client got a SUBACK for is stored, and the router that
\* runs has it under the generation the session accepts; the exception is the
\* same (Subscriptions::subscribe, load_persistent_subscriptions).
GrantedIsLive ==
    \A g \in ghost.granted :
       \/ g[1] \in ghost.revived
       \/ /\ \E r \in db.rows : r.name = g[1] /\ r.filter = g[2]
          /\ router.phase = "run" =>
                \E e \in router.tree : /\ e.name = g[1] /\ e.filter = g[2]
                                       /\ e.generation = db.generation[g[1]]

\* A client that waits for a SUBACK gets it, or its connection is closed,
\* whatever happens to the session and the router meanwhile.
SubscribeEnds == \A c \in Conns : conn[c].subscribing ~> ~conn[c].subscribing

\* A client that has sent its CONNECT gets a CONNACK or its connection is
\* closed ("Session rx closed": the worker means to see that its session is gone).
ConnectEnds ==
    \A c \in Conns : conn[c].st = "asked" ~> conn[c].st \in {"accepted", "closed"}

-----------------------------------------------------------------------------
(* The invariant that makes them inductive. *)

SessionMsg ==
    [op : {"client"}, conn : Conns, clean : BOOLEAN]
    \cup [op : {"subscribe", "unsubscribe", "publish"}, conn : Conns, filter : Filters, qos : 0 .. 2]
    \cup [op : {"internal"}, generation : Nat, qos : 0 .. 2, born : Nat]

RouterMsg ==
    [op : {"subscribe"}, inst : Nat, name : Clients, filter : Filters, qos : 0 .. 2, generation : Nat]
    \cup [op : {"unsubscribe"}, name : Clients, filters : SUBSET Filters]
    \cup [op : {"publish"}, topic : Filters]

SessionType ==
    [name : Clients, phase : {"init", "run", "saving", "wait", "ended", "gone"}, router : Nat,
     client : Conns \cup {None}, generation : Nat, subs : SUBSET Filters, queue : Seq(SessionMsg),
     pend : SessionMsg \cup {NoMsg}, reply : {"none", "ok", "dropped"}]

ConnType ==
    [st : {"idle", "asked", "granted", "attached", "accepted", "closed"}, clean : BOOLEAN,
     inst : Nat, subscribing : BOOLEAN, told : BOOLEAN]

Entries == [name : Clients, filter : Filters, qos : 0 .. 2, generation : Nat, born : Nat]

TypeOK ==
    /\ broker \in [step : {"boot", "idle", "answer"}, router_tx : Nat,
                   requests : Seq([conn : Conns, name : Clients])]
    /\ registry \in [Clients -> [inst : Nat, running : BOOLEAN]]
    /\ router \in [inc : Nat, phase : {"run", "ended", "gone"}, queue : Seq(RouterMsg),
                   tree : SUBSET Entries, sending : SUBSET Entries]
    /\ sess \in Seq(SessionType)
    /\ conn \in [Conns -> ConnType]
    /\ db \in [generation : [Clients -> Nat],
               rows : SUBSET [name : Clients, filter : Filters, qos : 0 .. 2, born : Nat]]
    /\ ghost \in [faults : Nat, packets : Nat, granted : SUBSET (Clients \X Filters),
                  revived : SUBSET Clients]

\* The registry knows the task of a session from its start to its drop.
Registered ==
    /\ \A n \in Clients : LET i == registry[n].inst
                          IN  i = None \/ (i \in DOMAIN sess /\ sess[i].name = n)
    /\ \A i \in DOMAIN sess : sess[i].phase # "gone" =>
          registry[sess[i].name].inst = i /\ registry[sess[i].name].running

\* A router that is gone has an empty channel, and the broker starts the first one.
Started ==
    /\ router.phase = "gone" => router.queue = <<>>
    /\ broker.step = "boot" => router.phase = "gone"
    /\ broker.step = "answer" => broker.requests # <<>>

\* Only a handler that waits gets an answer; one that cleans up has a new client.
HandlersOK ==
    \A i \in DOMAIN sess :
       /\ sess[i].phase # "wait" => sess[i].reply = "none"
       /\ sess[i].phase = "saving" => sess[i].pend.op = "client"

\* Some unsubscribe of this filter waits in the router's channel.
Pending(n, f) == \E m \in Range(router.queue) : m.op = "unsubscribe" /\ m.name = n /\ f \in m.filters

\* A session has the generation of its row, and in clean_session the next one.
GenerationsOK ==
    \A i \in DOMAIN sess :
       /\ sess[i].phase \in {"run", "wait"} => sess[i].generation = db.generation[sess[i].name]
       /\ sess[i].phase = "saving" => /\ sess[i].generation = db.generation[sess[i].name] + 1
                                      /\ sess[i].subs = {}

\* A session knows the filters of all its rows that are not about to go.
FiltersKnown ==
    \A i \in DOMAIN sess : \A r \in db.rows :
       sess[i].phase \in {"run", "wait", "saving"} /\ r.name = sess[i].name /\ r.name \notin ghost.revived
       => r.filter \in sess[i].subs \/ Pending(r.name, r.filter)

\* A row is of the present generation or about to go.
RowsOK ==
    \A r \in db.rows :
       r.name \in ghost.revived \/ r.born = db.generation[r.name] \/ Pending(r.name, r.filter)

\* While the router runs its tree is what the rows say.
TreeOK == router.phase = "run" => db.rows = {Row(e) : e \in router.tree}

\* What is sent on account of a subscription is tagged with its generation.
TagsOK ==
    /\ \A e \in router.tree \cup router.sending : e.name \in ghost.revived \/ e.generation = e.born
    /\ \A i \in DOMAIN sess : \A m \in Range(sess[i].queue) :
          m.op = "internal" => sess[i].name \in ghost.revived \/ m.generation = m.born

\* Who has a subscribe in the router's channel waits for the answer ...
SubscriberWaits ==
    \A m \in Range(router.queue) : m.op = "subscribe" =>
       /\ m.inst \in DOMAIN sess
       /\ LET s == sess[m.inst] IN
          /\ s.phase = "wait" /\ s.reply = "none" /\ s.name = m.name
          /\ s.generation = m.generation /\ s.pend.filter = m.filter /\ m.filter \in s.subs

\* ... and sends nothing after it.
SubscribeIsLast ==
    \A j, k \in DOMAIN router.queue :
       /\ j < k /\ router.queue[j].op = "subscribe"
       /\ router.queue[k].op \in {"subscribe", "unsubscribe"}
       => router.queue[j].name # router.queue[k].name

Stored(n, f) == \E r \in db.rows : r.name = n /\ r.filter = f

\* What the router has confirmed is stored, and stays so.
AnswerHolds ==
    \A i \in DOMAIN sess :
       sess[i].phase = "wait" /\ sess[i].reply = "ok" =>
          /\ Stored(sess[i].name, sess[i].pend.filter)
          /\ ~\E m \in Range(router.queue) : m.op = "unsubscribe" /\ m.name = sess[i].name

GrantHolds == \A g \in ghost.granted : Stored(g[1], g[2]) /\ ~Pending(g[1], g[2])

IndInv ==
    /\ TypeOK /\ Registered /\ Started /\ HandlersOK
    /\ GenerationsOK /\ FiltersKnown /\ RowsOK /\ TreeOK /\ TagsOK
    /\ SubscriberWaits /\ SubscribeIsLast /\ AnswerHolds /\ GrantHolds
=============================================================================
