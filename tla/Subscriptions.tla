---------------------------- MODULE Subscriptions ----------------------------
(***************************************************************************)
(* The router's subscriptions and retained messages: Subscriptions         *)
(* (broker/topics.rs), its tables (broker/persistsql.rs) and the router's  *)
(* message loop around them (broker/router.rs).                            *)
(*                                                                         *)
(* The router handles one message at a time; an action is one message.     *)
(* Each call to the database is a transaction of its own that can fail, or *)
(* never be made because the process dies: the router then stops with what *)
(* was saved so far (Stop), its tree is dropped, and the next session that *)
(* is requested starts a router that loads the tables.                     *)
(***************************************************************************)
EXTENDS TopicMatch, FiniteSets

CONSTANTS
    Sessions,       \* session names; each stands for its row in sessions too
    Paths,          \* the topics and filters in use, sequences of levels
    TopicNames,     \* those of them that are published to
    Qos,            \* qualities of service
    Payloads,       \* non-empty retained messages
    NoMessage,      \* no retained message, or one with an empty payload
    MaxGeneration,  \* bound: clean sessions
    MaxTopicId      \* bound: topics.id

ASSUME SubscriptionsConstants ==
    /\ MaxGeneration \in Nat
    /\ MaxTopicId \in Nat
    /\ Qos \subseteq 0 .. 2
    /\ Paths \subseteq Seq(Level) \ {<<>>}   \* split('/') returns at least one level
    /\ TopicNames \subseteq Paths
    /\ NoMessage \notin Payloads

VARIABLES
    running,    \* is the router running
    topics,     \* the tree: per path the fields of a Topic
    gauges,     \* guage_subscriptions and guage_retained_messages
    tables      \* topics, subscriptions, and the generation column of sessions

vars == <<running, topics, gauges, tables>>

-----------------------------------------------------------------------------
None == 0       \* internal_id: None; the ids of rows start at 1

NewTopic == [internal_id |-> None, clients |-> {}, message |-> NoMessage]

\* A path without a node in the HashMaps is one with an empty Topic.
NewTree == [f \in Paths |-> NewTopic]
NoGauges == [subscriptions |-> 0, retained |-> 0]

Entry == [session : Sessions, generation : 0 .. MaxGeneration, qos : Qos]
TopicRow == [id : 1 .. MaxTopicId, topic : Paths, retained : Payloads \cup {NoMessage}]
SubscriptionRow == [session : Sessions, topic_id : 1 .. MaxTopicId, qos : Qos]

-----------------------------------------------------------------------------
(* The database calls. *)

\* SQLite's rowid: one more than the largest in use.
NextTopicId(t) ==
    1 + CHOOSE n \in {0} \cup {r.id : r \in t.topics} : \A r \in t.topics : r.id <= n

persist_topic_last(t, f) ==     \* mutant: the rowid of the insert before
    [t EXCEPT !.topics = @ \cup
        {[id |-> NextTopicId(t) - 1, topic |-> f, retained |-> NoMessage]}]

persist_topic(t, f) ==
    [t EXCEPT !.topics = @ \cup
        {[id |-> NextTopicId(t), topic |-> f, retained |-> NoMessage]}]

persist_delete_topic(t, ids) == [t EXCEPT !.topics = {r \in @ : r.id \notin ids}]

persist_subscribe(t, s, id, qos) ==
    [t EXCEPT !.subscriptions = @ \cup {[session |-> s, topic_id |-> id, qos |-> qos]}]

persist_update_subscribe(t, s, id, qos) ==
    [t EXCEPT !.subscriptions =
        {IF r.session = s /\ r.topic_id = id THEN [r EXCEPT !.qos = qos] ELSE r : r \in @}]

\* For the ids of several filters.
persist_unsubscribe(t, s, ids) ==
    [t EXCEPT !.subscriptions = {r \in @ : ~(r.session = s /\ r.topic_id \in ids)}]

\* persist_retain and persist_delete_retain write one column of the topic's row.
SetRetained(t, id, message) ==
    [t EXCEPT !.topics = {IF r.id = id THEN [r EXCEPT !.retained = message] ELSE r : r \in @}]

\* load_persistent_topics, _message and _subscriptions.  The generation is that
\* of the session's row now, not of the time it subscribed.
LoadTopic(f) ==
    LET row == CHOOSE r \in tables.topics : r.topic = f IN
    [internal_id |-> row.id,
     clients |-> {[session |-> r.session, generation |-> tables.generation[r.session],
                   qos |-> r.qos] :
                     r \in {x \in tables.subscriptions : x.topic_id = row.id}},
     message |-> row.retained]

-----------------------------------------------------------------------------
(* The tree. *)

Entries(node, s) == {e \in node.clients : e.session = s}

\* mutant: the old entry stays
set_subscribed_again(node, entry) == [node EXCEPT !.clients = @ \cup {entry}]

\* set_subscribed: HashMap::insert under the session's name.
set_subscribed(node, entry) ==
    [node EXCEPT !.clients = (@ \ Entries(node, entry.session)) \cup {entry}]

\* get_topic: a node without a row gets one, and its id.
GetTopicId(f) ==
    IF topics[f].internal_id = None THEN NextTopicId(tables) ELSE topics[f].internal_id
GetTopicTablesAlways(f) == persist_topic(tables, f)     \* mutant: a row each time
GetTopicTables(f) ==
    IF topics[f].internal_id = None THEN persist_topic(tables, f) ELSE tables
GetTopic(f) == [topics[f] EXCEPT !.internal_id = GetTopicId(f)]

Continue(tree, g, t) ==
    /\ running' = TRUE
    /\ topics' = tree
    /\ gauges' = g
    /\ tables' = t

\* Err(PersistError), or the process dies.  The gauges keep a value that
\* nothing reads before the next load sets them.
Stop(t) ==
    /\ running' = FALSE
    /\ topics' = NewTree
    /\ gauges' = NoGauges
    /\ tables' = t

-----------------------------------------------------------------------------
(* load_persistent_state, when the broker starts a router. *)

Load ==
    /\ ~running
    /\ Continue([f \in Paths |->
                    IF \E r \in tables.topics : r.topic = f THEN LoadTopic(f) ELSE NewTopic],
                [subscriptions |-> Cardinality(tables.subscriptions),
                 retained |-> Cardinality({r \in tables.topics : r.retained # NoMessage})],
                tables)

-----------------------------------------------------------------------------
(* subscribe_message *)

SubscribeMessage(s, generation, f, qos) ==
    LET id    == GetTopicId(f)
        t     == GetTopicTables(f)
        node  == GetTopic(f)
        entry == [session |-> s, generation |-> generation, qos |-> qos]
        old   == Entries(node, s)
        tree(n) == [topics EXCEPT ![f] = n]
    IN
    /\ running
    /\ id <= MaxTopicId
    /\ \/ Stop(tables)
       \/ /\ old = {}
          /\ \/ Stop(t)
             \/ Continue(tree(set_subscribed(node, entry)),
                         [gauges EXCEPT !.subscriptions = @ + 1],
                         persist_subscribe(t, s, id, qos))
       \/ \* the same QoS: nothing is updated, nor the entry's generation
          /\ \E e \in old : e.qos = qos
          /\ Continue(tree(node), gauges, t)
       \/ /\ \E e \in old : e.qos # qos
          /\ \/ Continue(tree(set_subscribed(node, entry)), gauges,
                         persist_update_subscribe(t, s, id, qos))
             \/ \* the update failed: the old QoS stays
                Continue(tree(node), gauges, t)

-----------------------------------------------------------------------------
(* unsubscribe_message: unsubscribe for every filter of the packet. *)

\* mutant: the topic's row is deleted although a retained message is left
DeletesSubscribed(f, s) == topics[f].clients = Entries(topics[f], s)

\* The last client goes and there is no retained message: the row goes too.
DeletesTopic(f, s) ==
    /\ topics[f].message = NoMessage
    /\ topics[f].clients = Entries(topics[f], s)

\* mutant: the id of the deleted row is kept
UnsubscribedKeepsId(f, s) == [topics[f] EXCEPT !.clients = @ \ Entries(topics[f], s)]

Unsubscribed(f, s) ==
    [internal_id |-> IF DeletesTopic(f, s) THEN None ELSE topics[f].internal_id,
     clients |-> topics[f].clients \ Entries(topics[f], s),
     message |-> topics[f].message]

\* The tables once the subscriptions to some filters, and then the topics of
\* those in `dropped`, are deleted.
UnsubscribedTables(s, filters, dropped) ==
    LET ids(fs) == {topics[f].internal_id : f \in fs} IN
    persist_delete_topic(persist_unsubscribe(tables, s, ids(filters)), ids(dropped))

UnsubscribeMessage(s, filters) ==
    LET subscribed == {f \in filters : Entries(topics[f], s) # {}}
        empties    == {f \in subscribed : DeletesTopic(f, s)}
    IN
    /\ running
    /\ \/ Continue([f \in Paths |-> IF f \in subscribed THEN Unsubscribed(f, s) ELSE topics[f]],
                   [gauges EXCEPT !.subscriptions = @ - Cardinality(subscribed)],
                   UnsubscribedTables(s, subscribed, empties))
       \/ \* stopped at filter f, after the filters in done
          \E done \in SUBSET subscribed : \E f \in subscribed \ done :
             \/ Stop(UnsubscribedTables(s, done, done \cap empties))
             \/ /\ f \in empties
                /\ Stop(UnsubscribedTables(s, done \cup {f}, done \cap empties))

-----------------------------------------------------------------------------
(* publish_message with the retain flag: retain.  Finding the subscribers   *)
(* and sending them the message changes nothing here (TopicMatch).          *)

Retain(f, message) ==
    LET id      == GetTopicId(f)
        t1      == GetTopicTables(f)
        t2      == SetRetained(t1, id, NoMessage)       \* persist_delete_retain
        t3      == IF message = NoMessage THEN t2 ELSE SetRetained(t2, id, message)
        node    == [GetTopic(f) EXCEPT !.message = message]
        deletes == message = NoMessage /\ node.clients = {}
        held(m) == IF m = NoMessage THEN 0 ELSE 1
    IN
    /\ running
    /\ id <= MaxTopicId
    /\ \/ Stop(tables)
       \/ Stop(t1)
       \/ /\ message # NoMessage \/ deletes
          /\ Stop(t2)
       \/ /\ \E r \in t1.topics : r.id = id     \* else its SELECT fails
          /\ Continue([topics EXCEPT ![f] =
                          IF deletes THEN [node EXCEPT !.internal_id = None] ELSE node],
                      [gauges EXCEPT !.retained = (@ + held(message)) - held(topics[f].message)],
                      IF deletes THEN persist_delete_topic(t3, {id}) ELSE t3)

-----------------------------------------------------------------------------
(* The rest of the process. *)

\* A session completes a clean session and saves its new generation.
SessionCleaned(s) ==
    /\ tables.generation[s] < MaxGeneration
    /\ tables' = [tables EXCEPT !.generation[s] = @ + 1]
    /\ UNCHANGED <<running, topics, gauges>>

Crash == running /\ Stop(tables)

Init ==
    /\ running = FALSE
    /\ topics = NewTree
    /\ gauges = NoGauges
    /\ tables = [topics |-> {}, subscriptions |-> {}, generation |-> [s \in Sessions |-> 0]]

Next ==
    \/ Load
    \/ \E s \in Sessions :
          \/ SessionCleaned(s)
          \/ \E f \in Paths, qos \in Qos : \E generation \in 0 .. tables.generation[s] :
                SubscribeMessage(s, generation, f, qos)
          \/ \E filters \in SUBSET Paths : UnsubscribeMessage(s, filters)
    \/ \E f \in TopicNames, message \in Payloads \cup {NoMessage} : Retain(f, message)
    \/ Crash

Spec == Init /\ [][Next]_vars

-----------------------------------------------------------------------------
(* Properties. *)

TopicType ==
    [internal_id : 0 .. MaxTopicId, clients : SUBSET Entry, message : Payloads \cup {NoMessage}]

TablesType ==
    [topics : SUBSET TopicRow, subscriptions : SUBSET SubscriptionRow,
     generation : [Sessions -> 0 .. MaxGeneration]]

TypeOK ==
    /\ running \in BOOLEAN
    /\ topics \in [Paths -> TopicType]
    /\ gauges \in [subscriptions : Nat, retained : Nat]
    /\ tables \in TablesType

\* Whatever a node still holds can be saved: the unwrap() of its id in
\* unsubscribe and retain never panics.
HeldHasId ==
    \A f \in Paths :
        (topics[f].clients # {} \/ topics[f].message # NoMessage)
            => topics[f].internal_id # None

\* The rows are well formed, in spite of ids that are reused and of stops in the
\* middle of any message: one row per topic, one subscription per session and
\* topic, and no subscription to a deleted topic that a new topic could inherit.
WellFormed(t) ==
    /\ \A r1, r2 \in t.topics :
          (r1.id = r2.id \/ r1.topic = r2.topic) => r1 = r2
    /\ \A r \in t.subscriptions : \E x \in t.topics : x.id = r.topic_id
    /\ \A r1, r2 \in t.subscriptions :
          (r1.session = r2.session /\ r1.topic_id = r2.topic_id) => r1 = r2

RowsWellFormed == WellFormed(tables)

\* While the router runs, a restart would find its subscriptions, with their
\* QoS, its retained messages and its ids again, and no others.
RestartKeepsTree ==
    running =>
        \A f \in Paths :
            IF \E r \in tables.topics : r.topic = f
            THEN /\ topics[f].internal_id = LoadTopic(f).internal_id
                 /\ topics[f].message = LoadTopic(f).message
                 /\ {<<e.session, e.qos>> : e \in topics[f].clients}
                      = {<<e.session, e.qos>> : e \in LoadTopic(f).clients}
            ELSE topics[f] = NewTopic

\* The gauges count the subscriptions and retained messages of the tree.
GaugesCount ==
    running =>
        /\ gauges.subscriptions =
              Cardinality({p \in Paths \X Entry : p[2] \in topics[p[1]].clients})
        /\ gauges.retained = Cardinality({f \in Paths : topics[f].message # NoMessage})

\* A publish goes to exactly the sessions whose stored subscriptions match its
\* topic: the tree, the ids and the search together.
StoredMeansRouted ==
    running =>
        \A name \in TopicNames :
            {e.session : e \in get_subscribed([f \in Paths |-> topics[f].clients], name)}
              = {r.session : r \in {x \in tables.subscriptions :
                    \E t \in tables.topics : t.id = x.topic_id /\ FilterMatches(t.topic, name)}}

-----------------------------------------------------------------------------
(* The inductive invariant behind all of these but StoredMeansRouted: the    *)
(* tree is compared with the rows node by node, the gauges with the rows.    *)

\* A topic without a row is empty; one with a row has its id, its retained
\* message and, for every session and QoS, its subscriptions.
NodeOK(f, node, t) ==
    \/ /\ \A r \in t.topics : r.topic # f
       /\ node = NewTopic
    \/ \E r \in t.topics :
          /\ r.topic = f
          /\ node.internal_id = r.id
          /\ node.message = r.retained
          /\ \A s \in Sessions, q \in Qos :
                (\E e \in node.clients : e.session = s /\ e.qos = q)
                   <=> [session |-> s, topic_id |-> r.id, qos |-> q] \in t.subscriptions

\* HashMap: one entry per session.
OneEntry(node) == \A e1, e2 \in node.clients : e1.session = e2.session => e1 = e2

StoreOK(t) ==
    /\ t \in TablesType
    /\ WellFormed(t)
    /\ IsFiniteSet(t.topics) /\ IsFiniteSet(t.subscriptions)

TreeOK(tree, t) ==
    /\ tree \in [Paths -> TopicType]
    /\ \A f \in Paths : OneEntry(tree[f]) /\ NodeOK(f, tree[f], t)

RetainedRows(t) == {r \in t.topics : r.retained # NoMessage}

GaugesOf(t) ==
    [subscriptions |-> Cardinality(t.subscriptions), retained |-> Cardinality(RetainedRows(t))]

IndInv ==
    /\ StoreOK(tables)
    /\ running \in BOOLEAN
    /\ IF running THEN TreeOK(topics, tables) /\ gauges = GaugesOf(tables)
                  ELSE topics = NewTree /\ gauges = NoGauges

=============================================================================
