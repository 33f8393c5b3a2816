------------------------- MODULE SubscriptionsProofs -------------------------
(* Proofs about Subscriptions, for every value of its constants. *)
EXTENDS Subscriptions, TopicMatchProofs, FiniteSetTheorems

-----------------------------------------------------------------------------
(* The rows and their ids. *)

\* What the columns of a row of topics hold.
LEMMA TopicRowFields ==
  ASSUME NEW r \in TopicRow
  PROVE  /\ r.id \in Nat /\ 1 <= r.id /\ r.id <= MaxTopicId
         /\ r.topic \in Paths
         /\ r.retained \in Payloads \cup {NoMessage}
         /\ r = [id |-> r.id, topic |-> r.topic, retained |-> r.retained]
BY SubscriptionsConstants DEF TopicRow

\* What the columns of a row of subscriptions hold.
LEMMA SubscriptionRowFields ==
  ASSUME NEW r \in SubscriptionRow
  PROVE  /\ r.session \in Sessions
         /\ r.topic_id \in Nat /\ 1 <= r.topic_id /\ r.topic_id <= MaxTopicId
         /\ r.qos \in Qos
         /\ r = [session |-> r.session, topic_id |-> r.topic_id, qos |-> r.qos]
BY SubscriptionsConstants DEF SubscriptionRow

\* What the fields of an entry of a node hold.
LEMMA EntryFields ==
  ASSUME NEW e \in Entry
  PROVE  /\ e.session \in Sessions
         /\ e.generation \in 0 .. MaxGeneration
         /\ e.qos \in Qos
         /\ e = [session |-> e.session, generation |-> e.generation, qos |-> e.qos]
BY DEF Entry

\* What the fields of a node hold.
LEMMA NodeFields ==
  ASSUME NEW node \in TopicType
  PROVE  /\ node.internal_id \in 0 .. MaxTopicId
         /\ node.clients \in SUBSET Entry
         /\ node.message \in Payloads \cup {NoMessage}
BY DEF TopicType

\* The tables are what the two sets of rows and the generations are.
LEMMA TablesFields ==
  ASSUME NEW t \in TablesType
  PROVE  /\ t.topics \in SUBSET TopicRow
         /\ t.subscriptions \in SUBSET SubscriptionRow
         /\ t.generation \in [Sessions -> 0 .. MaxGeneration]
         /\ t = [topics |-> t.topics, subscriptions |-> t.subscriptions,
                 generation |-> t.generation]
BY DEF TablesType

\* A call to the database replaces the rows of one table.
LEMMA TablesUpdate ==
  ASSUME NEW t \in TablesType, NEW S
  PROVE  /\ [t EXCEPT !.topics = S] =
               [topics |-> S, subscriptions |-> t.subscriptions, generation |-> t.generation]
         /\ [t EXCEPT !.subscriptions = S] =
               [topics |-> t.topics, subscriptions |-> S, generation |-> t.generation]
BY DEF TablesType

\* Likewise for a field of a node.
LEMMA NodeUpdate ==
  ASSUME NEW node \in TopicType, NEW x
  PROVE  /\ [node EXCEPT !.clients = x] =
               [internal_id |-> node.internal_id, clients |-> x, message |-> node.message]
         /\ [node EXCEPT !.message = x] =
               [internal_id |-> node.internal_id, clients |-> node.clients, message |-> x]
         /\ [node EXCEPT !.internal_id = x] =
               [internal_id |-> x, clients |-> node.clients, message |-> node.message]
BY DEF TopicType

\* SQLite's next rowid is a new one, larger than all others.
LEMMA NextTopicIdIsNew ==
  ASSUME NEW t \in TablesType
  PROVE  /\ NextTopicId(t) \in Nat \ {0}
         /\ \A r \in t.topics : r.id < NextTopicId(t)
<1> DEFINE Bounds == {n \in Nat : \A r \in t.topics : r.id <= n}
           n == CHOOSE n \in {0} \cup {r.id : r \in t.topics} : \A r \in t.topics : r.id <= n
<1>0. \A r \in t.topics : r.id \in Nat /\ r.id <= MaxTopicId /\ 1 <= r.id
  BY TablesFields, TopicRowFields
<1>1. MaxTopicId \in Bounds
  BY <1>0, SubscriptionsConstants
<1>2. PICK m \in Bounds : \A k \in Bounds : m <= k
  <2> HIDE DEF Bounds
  <2>1. Bounds \in SUBSET Nat  BY DEF Bounds
  <2> QED  BY <1>1, <2>1, LeastOf
<1>3. m \in {0} \cup {r.id : r \in t.topics}
  <2> SUFFICES ASSUME m # 0, \A r \in t.topics : r.id # m
               PROVE  FALSE
    OBVIOUS
  <2>1. m - 1 \in Bounds
    BY <1>0, <1>2
  <2> QED  BY <1>2, <2>1
<1>4. n \in {0} \cup {r.id : r \in t.topics} /\ \A r \in t.topics : r.id <= n
  BY <1>2, <1>3
<1> HIDE DEF n
<1>5. n \in Nat
  BY <1>4, <1>0
<1>6. 1 + n \in Nat \ {0} /\ \A r \in t.topics : r.id < 1 + n
  BY <1>0, <1>4, <1>5
<1> QED  BY <1>6 DEF NextTopicId, n

\* A one-to-one correspondence keeps the number of elements.
LEMMA SameSize ==
  ASSUME NEW S, NEW T, IsFiniteSet(S), NEW m \in [S -> T],
         \A x, y \in S : m[x] = m[y] => x = y,
         \A z \in T : \E x \in S : m[x] = z
  PROVE  IsFiniteSet(T) /\ Cardinality(T) = Cardinality(S)
<1>1. m \in Bijection(S, T)
  BY DEF Bijection, Injection, Surjection, IsInjective
<1>2. ExistsBijection(S, T)
  BY <1>1 DEF ExistsBijection
<1> QED  BY <1>2, FS_Bijection

\* The node of a topic with a row is what that row says.
LEMMA NodeOfRow ==
  ASSUME NEW t, StoreOK(t), NEW f, NEW node, NodeOK(f, node, t),
         NEW r \in t.topics, r.topic = f
  PROVE  /\ node.internal_id = r.id
         /\ node.message = r.retained
         /\ \A s \in Sessions, q \in Qos :
               (\E e \in node.clients : e.session = s /\ e.qos = q)
                  <=> [session |-> s, topic_id |-> r.id, qos |-> q] \in t.subscriptions
BY DEF NodeOK, StoreOK, WellFormed

\* A node that is not empty is that of a topic with a row.
LEMMA RowOfNode ==
  ASSUME NEW t, NEW f, NEW node, NodeOK(f, node, t),
         \/ node.clients # {}
         \/ node.message # NoMessage
         \/ node.internal_id # None
  PROVE  \E r \in t.topics : r.topic = f
BY DEF NodeOK, NewTopic

\* A node stays right when neither its row nor its subscriptions change.
LEMMA NodeUntouched ==
  ASSUME NEW t, NEW u, NEW f, NEW node, NodeOK(f, node, t),
         \A r \in t.topics \cup u.topics : r.topic = f => (r \in t.topics /\ r \in u.topics),
         \A r \in t.topics : r.topic = f =>
            \A s \in Sessions, q \in Qos :
               [session |-> s, topic_id |-> r.id, qos |-> q] \in t.subscriptions
                  <=> [session |-> s, topic_id |-> r.id, qos |-> q] \in u.subscriptions
  PROVE  NodeOK(f, node, u)
<1>1. CASE \A r \in t.topics : r.topic # f
  BY <1>1 DEF NodeOK
<1>2. CASE \E r \in t.topics : r.topic = f
  <2>1. PICK r \in t.topics :
          /\ r.topic = f
          /\ node.internal_id = r.id
          /\ node.message = r.retained
          /\ \A s \in Sessions, q \in Qos :
                (\E e \in node.clients : e.session = s /\ e.qos = q)
                   <=> [session |-> s, topic_id |-> r.id, qos |-> q] \in t.subscriptions
    BY <1>2 DEF NodeOK
  <2>2. r \in u.topics
    BY <2>1
  <2>3. \A s \in Sessions, q \in Qos :
           (\E e \in node.clients : e.session = s /\ e.qos = q)
              <=> [session |-> s, topic_id |-> r.id, qos |-> q] \in u.subscriptions
    BY <2>1
  <2> QED  BY <2>1, <2>2, <2>3 DEF NodeOK
<1> QED  BY <1>1, <1>2

-----------------------------------------------------------------------------
(* The calls to the database, and what each does to the tree's node: from   *)
(* tables that are right for the tree to tables that are right for the tree *)
(* after it.                                                                *)

\* Every row of subscriptions is to a topic that has a row.
LEMMA TopicOfSubscription ==
  ASSUME NEW t, StoreOK(t), NEW r \in t.subscriptions
  PROVE  \E x \in t.topics : x.id = r.topic_id
BY DEF StoreOK, WellFormed

\* get_topic saves a row for a topic that has none: nobody is subscribed to it,
\* although the id may have been another topic's before.
LEMMA PersistTopicOK ==
  ASSUME NEW t, StoreOK(t), NEW tree, TreeOK(tree, t),
         NEW f \in Paths, tree[f].internal_id = None, NextTopicId(t) <= MaxTopicId
  PROVE  LET u == persist_topic(t, f) IN
         /\ StoreOK(u)
         /\ TreeOK([tree EXCEPT ![f] = [tree[f] EXCEPT !.internal_id = NextTopicId(t)]], u)
         /\ GaugesOf(u) = GaugesOf(t)
         /\ tree[f] = NewTopic
<1> DEFINE u == persist_topic(t, f)
           id == NextTopicId(t)
           row == [id |-> id, topic |-> f, retained |-> NoMessage]
           node == [tree[f] EXCEPT !.internal_id = id]
<1>0. t \in TablesType /\ tree \in [Paths -> TopicType]
  BY DEF StoreOK, TreeOK
<1>1. /\ t.topics \in SUBSET TopicRow
      /\ t.subscriptions \in SUBSET SubscriptionRow
      /\ t.generation \in [Sessions -> 0 .. MaxGeneration]
      /\ t = [topics |-> t.topics, subscriptions |-> t.subscriptions,
              generation |-> t.generation]
  BY <1>0, TablesFields
<1>2. id \in Nat \ {0} /\ id <= MaxTopicId /\ \A r \in t.topics : r.id < id
  BY <1>0, NextTopicIdIsNew
<1>3. \A r \in t.topics : r.id \in Nat /\ r.id # 0 /\ r.id # id
  BY <1>1, <1>2, TopicRowFields
<1>4. (\A r \in t.topics : r.topic # f) /\ tree[f] = NewTopic
  BY <1>3 DEF TreeOK, NodeOK, None
<1>5. u = [topics |-> t.topics \cup {row}, subscriptions |-> t.subscriptions,
           generation |-> t.generation]
  BY <1>1 DEF persist_topic
<1>6. row \in TopicRow
  BY <1>2, SubscriptionsConstants DEF TopicRow
<1> HIDE DEF u, id
<1>7. /\ u.topics = t.topics \cup {row}
      /\ u.subscriptions = t.subscriptions
      /\ u.generation = t.generation
  BY <1>5
<1>8. u \in TablesType
  BY <1>1, <1>5, <1>6 DEF TablesType
<1>9. WellFormed(u)
  <2>1. WellFormed(t)  BY DEF StoreOK
  <2>2. \A r1, r2 \in u.topics : (r1.id = r2.id \/ r1.topic = r2.topic) => r1 = r2
    BY <2>1, <1>3, <1>4, <1>7 DEF WellFormed
  <2> QED  BY <2>1, <2>2, <1>7 DEF WellFormed
<1>10. IsFiniteSet(u.topics) /\ IsFiniteSet(u.subscriptions)
  BY <1>7, FS_AddElement DEF StoreOK
<1>11. RetainedRows(u) = RetainedRows(t)
  BY <1>7 DEF RetainedRows
<1>12. node = [internal_id |-> id, clients |-> {}, message |-> NoMessage]
  BY <1>4 DEF NewTopic
<1>13. node \in TopicType
  BY <1>2, <1>12, SubscriptionsConstants DEF TopicType
<1>14. NodeOK(f, node, u)
  <2>1. row \in u.topics /\ row.topic = f /\ row.id = id /\ row.retained = NoMessage
    BY <1>7
  <2>2. \A r \in t.subscriptions : r.topic_id # id
    BY <1>3, TopicOfSubscription
  <2>3. \A s, q : [session |-> s, topic_id |-> id, qos |-> q] \notin u.subscriptions
    BY <2>2, <1>7
  <2> HIDE DEF row, node
  <2>4. node.internal_id = row.id /\ node.message = row.retained /\ node.clients = {}
    BY <1>12, <2>1
  <2>5. \A s \in Sessions, q \in Qos :
           (\E e \in node.clients : e.session = s /\ e.qos = q)
              <=> [session |-> s, topic_id |-> row.id, qos |-> q] \in u.subscriptions
    BY <2>1, <2>3, <2>4
  <2> QED  BY <2>1, <2>4, <2>5 DEF NodeOK
<1>15. ASSUME NEW g \in Paths, g # f
       PROVE  NodeOK(g, tree[g], u)
  <2>1. NodeOK(g, tree[g], t)  BY DEF TreeOK
  <2> QED  BY <2>1, <1>7, <1>15, NodeUntouched
<1>16. TreeOK([tree EXCEPT ![f] = node], u)
  <2>1. OneEntry(node)
    BY <1>12 DEF OneEntry
  <2>2. [tree EXCEPT ![f] = node] \in [Paths -> TopicType]
    BY <1>0, <1>13
  <2> HIDE DEF node
  <2> QED  BY <2>1, <2>2, <1>0, <1>14, <1>15 DEF TreeOK
<1> QED  BY <1>4, <1>7, <1>8, <1>9, <1>10, <1>11, <1>16 DEF StoreOK, GaugesOf, u, id

\* set_subscribed for a session that is not subscribed, once persist_subscribe
\* has saved it.
LEMMA SubscribedOK ==
  ASSUME NEW t, StoreOK(t), NEW tree, TreeOK(tree, t),
         NEW f \in Paths, tree[f].internal_id # None,
         NEW entry \in Entry, Entries(tree[f], entry.session) = {}
  PROVE  LET u == persist_subscribe(t, entry.session, tree[f].internal_id, entry.qos) IN
         /\ StoreOK(u)
         /\ TreeOK([tree EXCEPT ![f] = set_subscribed(tree[f], entry)], u)
         /\ GaugesOf(u) = [subscriptions |-> GaugesOf(t).subscriptions + 1,
                           retained |-> GaugesOf(t).retained]
<1> DEFINE u == persist_subscribe(t, entry.session, tree[f].internal_id, entry.qos)
           id == tree[f].internal_id
           new == [session |-> entry.session, topic_id |-> id, qos |-> entry.qos]
           node == set_subscribed(tree[f], entry)
<1>0. t \in TablesType /\ tree \in [Paths -> TopicType] /\ tree[f] \in TopicType
  BY DEF StoreOK, TreeOK
<1>1. /\ t.topics \in SUBSET TopicRow
      /\ t.subscriptions \in SUBSET SubscriptionRow
      /\ t.generation \in [Sessions -> 0 .. MaxGeneration]
      /\ t = [topics |-> t.topics, subscriptions |-> t.subscriptions,
              generation |-> t.generation]
  BY <1>0, TablesFields
<1>2. NodeOK(f, tree[f], t) /\ OneEntry(tree[f])
  BY DEF TreeOK
<1>3. PICK row \in t.topics : row.topic = f
  BY <1>2, RowOfNode
<1>4. /\ row.id = id /\ tree[f].message = row.retained
      /\ \A s \in Sessions, q \in Qos :
            (\E e \in tree[f].clients : e.session = s /\ e.qos = q)
               <=> [session |-> s, topic_id |-> id, qos |-> q] \in t.subscriptions
  BY <1>2, <1>3, NodeOfRow
<1>5. /\ entry.session \in Sessions /\ entry.qos \in Qos
      /\ row.id \in Nat /\ 1 <= row.id /\ row.id <= MaxTopicId
  BY <1>1, EntryFields, TopicRowFields
<1>6. new \in SubscriptionRow
  BY <1>4, <1>5, SubscriptionsConstants DEF SubscriptionRow
<1>7. u = [topics |-> t.topics, subscriptions |-> t.subscriptions \cup {new},
           generation |-> t.generation]
  BY <1>0, TablesUpdate DEF persist_subscribe
<1>8. node = [tree[f] EXCEPT !.clients = tree[f].clients \cup {entry}]
  <2>1. tree[f].clients \ Entries(tree[f], entry.session) = tree[f].clients
    OBVIOUS
  <2> QED  BY <2>1 DEF set_subscribed
<1> HIDE DEF u, id, node
<1>9. /\ u.topics = t.topics
      /\ u.subscriptions = t.subscriptions \cup {new}
      /\ u.generation = t.generation
  BY <1>7
<1>10. u \in TablesType
  BY <1>1, <1>6, <1>7 DEF TablesType
<1>11. \A e \in tree[f].clients : e.session # entry.session
  BY DEF Entries
<1>12. \A r \in t.subscriptions : ~(r.session = entry.session /\ r.topic_id = id)
  <2> SUFFICES ASSUME NEW r \in t.subscriptions, r.session = entry.session, r.topic_id = id
               PROVE  FALSE
    OBVIOUS
  <2>1. r.qos \in Qos /\ r = [session |-> entry.session, topic_id |-> id, qos |-> r.qos]
    BY <1>1, SubscriptionRowFields
  <2> QED  BY <2>1, <1>4, <1>5, <1>11
<1>13. WellFormed(u)
  <2>1. WellFormed(t)  BY DEF StoreOK
  <2>2. \A r \in u.subscriptions : \E x \in u.topics : x.id = r.topic_id
    BY <2>1, <1>3, <1>4, <1>9 DEF WellFormed
  <2>3. \A r1, r2 \in u.subscriptions :
          (r1.session = r2.session /\ r1.topic_id = r2.topic_id) => r1 = r2
    BY <2>1, <1>9, <1>12 DEF WellFormed
  <2> QED  BY <2>1, <2>2, <2>3, <1>9 DEF WellFormed
<1>14. /\ IsFiniteSet(u.topics) /\ IsFiniteSet(u.subscriptions)
       /\ Cardinality(u.subscriptions) = Cardinality(t.subscriptions) + 1
  <2>1. new \notin t.subscriptions
    BY <1>12
  <2> HIDE DEF new
  <2> QED  BY <2>1, <1>9, FS_AddElement DEF StoreOK
<1>15. RetainedRows(u) = RetainedRows(t)
  BY <1>9 DEF RetainedRows
<1>16. /\ tree[f].clients \in SUBSET Entry
       /\ tree[f] = [internal_id |-> id, clients |-> tree[f].clients,
                     message |-> tree[f].message]
       /\ id \in 0 .. MaxTopicId
       /\ tree[f].message \in Payloads \cup {NoMessage}
  BY <1>0 DEF TopicType, id
<1>17. node = [internal_id |-> id, clients |-> tree[f].clients \cup {entry},
               message |-> tree[f].message]
  BY <1>8, <1>16
<1>18. /\ node \in TopicType
       /\ node.internal_id = id
       /\ node.message = row.retained
       /\ node.clients = tree[f].clients \cup {entry}
  BY <1>4, <1>16, <1>17 DEF TopicType
<1>19. OneEntry(node)
  BY <1>2, <1>11, <1>18 DEF OneEntry
<1>row. NodeOK(f, node, u)
  <2>1. \A s \in Sessions, q \in Qos :
           (\E e \in node.clients : e.session = s /\ e.qos = q)
              <=> [session |-> s, topic_id |-> id, qos |-> q] \in u.subscriptions
    <3> TAKE s \in Sessions, q \in Qos
    <3>1. CASE s = entry.session /\ q = entry.qos
      BY <3>1, <1>9, <1>18
    <3>2. CASE ~(s = entry.session /\ q = entry.qos)
      <4>1. [session |-> s, topic_id |-> id, qos |-> q] # new
        BY <3>2
      <4> QED  BY <3>2, <4>1, <1>4, <1>9, <1>18
    <3> QED  BY <3>1, <3>2
  <2> QED  BY <2>1, <1>3, <1>4, <1>9, <1>18 DEF NodeOK
<1>21. ASSUME NEW g \in Paths, g # f
       PROVE  NodeOK(g, tree[g], u)
  <2>1. NodeOK(g, tree[g], t)  BY DEF TreeOK
  <2>2. \A r \in t.topics : r.topic = g => r.id # id
    BY <1>3, <1>4, <1>21 DEF StoreOK, WellFormed
  <2>3. \A r \in t.topics : r.topic = g =>
          \A s \in Sessions, q \in Qos :
             [session |-> s, topic_id |-> r.id, qos |-> q] \in t.subscriptions
                <=> [session |-> s, topic_id |-> r.id, qos |-> q] \in u.subscriptions
    BY <2>2, <1>9
  <2> QED  BY <2>1, <2>3, <1>9, NodeUntouched
<1>22. TreeOK([tree EXCEPT ![f] = node], u)
  BY <1>0, <1>18, <1>19, <1>row, <1>21 DEF TreeOK
<1>23. Cardinality(t.subscriptions) \in Nat
  BY FS_CardinalityType DEF StoreOK
<1>24. GaugesOf(u) = [subscriptions |-> GaugesOf(t).subscriptions + 1,
                      retained |-> GaugesOf(t).retained]
  BY <1>14, <1>15 DEF GaugesOf
<1> QED  BY <1>9, <1>10, <1>13, <1>14, <1>22, <1>24 DEF StoreOK, u, id, node

\* set_subscribed for a session that is subscribed, once persist_update_subscribe
\* has saved the new QoS.
LEMMA ResubscribedOK ==
  ASSUME NEW t, StoreOK(t), NEW tree, TreeOK(tree, t),
         NEW f \in Paths, tree[f].internal_id # None,
         NEW entry \in Entry, Entries(tree[f], entry.session) # {}
  PROVE  LET u == persist_update_subscribe(t, entry.session, tree[f].internal_id, entry.qos) IN
         /\ StoreOK(u)
         /\ TreeOK([tree EXCEPT ![f] = set_subscribed(tree[f], entry)], u)
         /\ GaugesOf(u) = GaugesOf(t)
<1> DEFINE u == persist_update_subscribe(t, entry.session, tree[f].internal_id, entry.qos)
           id == tree[f].internal_id
           hit(r) == r.session = entry.session /\ r.topic_id = id
           upd(r) == IF hit(r) THEN [r EXCEPT !.qos = entry.qos] ELSE r
           new == [session |-> entry.session, topic_id |-> id, qos |-> entry.qos]
           node == set_subscribed(tree[f], entry)
           rest == tree[f].clients \ Entries(tree[f], entry.session)
<1>0. t \in TablesType /\ tree \in [Paths -> TopicType] /\ tree[f] \in TopicType
  BY DEF StoreOK, TreeOK
<1>1. /\ t.topics \in SUBSET TopicRow
      /\ t.subscriptions \in SUBSET SubscriptionRow
      /\ t.generation \in [Sessions -> 0 .. MaxGeneration]
  BY <1>0, TablesFields
<1>2. NodeOK(f, tree[f], t) /\ OneEntry(tree[f])
  BY DEF TreeOK
<1>3. PICK row \in t.topics : row.topic = f
  BY <1>2, RowOfNode
<1>4. /\ row.id = id /\ tree[f].message = row.retained
      /\ \A s \in Sessions, q \in Qos :
            (\E e \in tree[f].clients : e.session = s /\ e.qos = q)
               <=> [session |-> s, topic_id |-> id, qos |-> q] \in t.subscriptions
  BY <1>2, <1>3, NodeOfRow
<1>5. /\ entry.session \in Sessions /\ entry.qos \in Qos
      /\ row.id \in Nat /\ 1 <= row.id /\ row.id <= MaxTopicId
  BY <1>1, EntryFields, TopicRowFields
<1>6. new \in SubscriptionRow
  BY <1>4, <1>5, SubscriptionsConstants DEF SubscriptionRow
<1>7. u = [topics |-> t.topics, subscriptions |-> {upd(r) : r \in t.subscriptions},
           generation |-> t.generation]
  BY <1>0, TablesUpdate DEF persist_update_subscribe
<1>8. \A r \in t.subscriptions : hit(r) => upd(r) = new
  BY <1>1, SubscriptionRowFields
<1>9. \E r \in t.subscriptions : hit(r)
  <2>1. PICK e \in tree[f].clients : e.session = entry.session
    BY DEF Entries
  <2>2. e.qos \in Qos
    BY <1>0, NodeFields, EntryFields
  <2>3. [session |-> entry.session, topic_id |-> id, qos |-> e.qos] \in t.subscriptions
    BY <1>4, <1>5, <2>1, <2>2
  <2> QED  BY <2>3
<1> HIDE DEF u, id, node
<1>10. /\ u.topics = t.topics
       /\ u.subscriptions = {upd(r) : r \in t.subscriptions}
       /\ u.generation = t.generation
  BY <1>7
<1>11. u.subscriptions = {r \in t.subscriptions : ~hit(r)} \cup {new}
  <2> HIDE DEF new
  <2>1. \A r \in t.subscriptions : upd(r) = IF hit(r) THEN new ELSE r
    BY <1>8
  <2> HIDE DEF upd, hit
  <2>2. \A x \in u.subscriptions : x \in {r \in t.subscriptions : ~hit(r)} \cup {new}
    BY <2>1, <1>10
  <2>3. \A x \in {r \in t.subscriptions : ~hit(r)} \cup {new} : x \in u.subscriptions
    BY <2>1, <1>9, <1>10
  <2> QED  BY <2>2, <2>3
<1>12. u \in TablesType
  BY <1>1, <1>6, <1>7, <1>10, <1>11 DEF TablesType
<1>13. WellFormed(u)
  <2>1. WellFormed(t)  BY DEF StoreOK
  <2>2. \A r \in u.subscriptions : \E x \in u.topics : x.id = r.topic_id
    BY <2>1, <1>3, <1>4, <1>10, <1>11 DEF WellFormed
  <2>3. \A r1, r2 \in u.subscriptions :
          (r1.session = r2.session /\ r1.topic_id = r2.topic_id) => r1 = r2
    BY <2>1, <1>11 DEF WellFormed
  <2> QED  BY <2>1, <2>2, <2>3, <1>10 DEF WellFormed
<1>14. /\ IsFiniteSet(u.subscriptions)
       /\ Cardinality(u.subscriptions) = Cardinality(t.subscriptions)
  <2> DEFINE m == [r \in t.subscriptions |-> upd(r)]
  <2>1. m \in [t.subscriptions -> u.subscriptions]
    BY <1>10
  <2>2. ASSUME NEW x \in t.subscriptions, NEW y \in t.subscriptions, m[x] = m[y]
        PROVE  x = y
    <3>1. hit(x) <=> hit(y)
      BY <2>2, <1>8
    <3>2. CASE hit(x)
      BY <3>1, <3>2 DEF StoreOK, WellFormed
    <3>3. CASE ~hit(x)
      BY <2>2, <3>1, <3>3
    <3> QED  BY <3>2, <3>3
  <2>3. \A z \in u.subscriptions : \E x \in t.subscriptions : m[x] = z
    BY <1>10
  <2>4. IsFiniteSet(t.subscriptions)
    BY DEF StoreOK
  <2> HIDE DEF m
  <2> QED  BY <2>1, <2>2, <2>3, <2>4, SameSize
<1>15. RetainedRows(u) = RetainedRows(t)
  BY <1>10 DEF RetainedRows
<1>16. node = [internal_id |-> id, clients |-> rest \cup {entry}, message |-> tree[f].message]
  BY <1>0, NodeUpdate DEF set_subscribed, node, id
<1>17. /\ tree[f].clients \in SUBSET Entry
       /\ id \in 0 .. MaxTopicId
       /\ tree[f].message \in Payloads \cup {NoMessage}
  BY <1>0, NodeFields DEF id
<1>18. /\ node \in TopicType
       /\ node.internal_id = id
       /\ node.message = row.retained
       /\ node.clients = rest \cup {entry}
  BY <1>4, <1>16, <1>17 DEF TopicType
<1>19. OneEntry(node)
  BY <1>2, <1>18 DEF OneEntry, Entries
<1>row. NodeOK(f, node, u)
  <2>1. \A s \in Sessions, q \in Qos :
           (\E e \in node.clients : e.session = s /\ e.qos = q)
              <=> [session |-> s, topic_id |-> id, qos |-> q] \in u.subscriptions
    <3> TAKE s \in Sessions, q \in Qos
    <3> DEFINE x == [session |-> s, topic_id |-> id, qos |-> q]
    <3>1. CASE s = entry.session
      <4>1. x \in u.subscriptions <=> q = entry.qos
        BY <3>1, <1>11
      <4>2. (\E e \in node.clients : e.session = s /\ e.qos = q) <=> q = entry.qos
        BY <3>1, <1>18 DEF Entries
      <4> QED  BY <4>1, <4>2
    <3>2. CASE s # entry.session
      <4>1. x \in u.subscriptions <=> x \in t.subscriptions
        BY <3>2, <1>11
      <4>2. (\E e \in node.clients : e.session = s /\ e.qos = q)
               <=> (\E e \in tree[f].clients : e.session = s /\ e.qos = q)
        BY <3>2, <1>18 DEF Entries
      <4> QED  BY <4>1, <4>2, <1>4
    <3> QED  BY <3>1, <3>2
  <2>2. row \in u.topics
    BY <1>10
  <2> QED  BY <2>1, <2>2, <1>3, <1>4, <1>18 DEF NodeOK
<1>21. ASSUME NEW g \in Paths, g # f
       PROVE  NodeOK(g, tree[g], u)
  <2>1. NodeOK(g, tree[g], t)  BY DEF TreeOK
  <2>2. \A r \in t.topics : r.topic = g => r.id # id
    BY <1>3, <1>4, <1>21 DEF StoreOK, WellFormed
  <2>3. \A r \in t.topics : r.topic = g =>
          \A s \in Sessions, q \in Qos :
             [session |-> s, topic_id |-> r.id, qos |-> q] \in t.subscriptions
                <=> [session |-> s, topic_id |-> r.id, qos |-> q] \in u.subscriptions
    BY <2>2, <1>11
  <2> QED  BY <2>1, <2>3, <1>10, NodeUntouched
<1>22. TreeOK([tree EXCEPT ![f] = node], u)
  BY <1>0, <1>18, <1>19, <1>row, <1>21 DEF TreeOK
<1> QED  BY <1>10, <1>12, <1>13, <1>14, <1>15, <1>22 DEF StoreOK, GaugesOf, u, id, node

\* persist_retain and persist_delete_retain, and the node with that message.
LEMMA SetRetainedOK ==
  ASSUME NEW t, StoreOK(t), NEW tree, TreeOK(tree, t),
         NEW f \in Paths, tree[f].internal_id # None,
         NEW message \in Payloads \cup {NoMessage}
  PROVE  LET u == SetRetained(t, tree[f].internal_id, message)
             held(m) == IF m = NoMessage THEN 0 ELSE 1
         IN
         /\ StoreOK(u)
         /\ TreeOK([tree EXCEPT ![f] = [tree[f] EXCEPT !.message = message]], u)
         /\ GaugesOf(u) =
              [subscriptions |-> GaugesOf(t).subscriptions,
               retained |-> (GaugesOf(t).retained + held(message)) - held(tree[f].message)]
<1> DEFINE u == SetRetained(t, tree[f].internal_id, message)
           id == tree[f].internal_id
           node == [tree[f] EXCEPT !.message = message]
           held(m) == IF m = NoMessage THEN 0 ELSE 1
<1>0. t \in TablesType /\ tree \in [Paths -> TopicType] /\ tree[f] \in TopicType
  BY DEF StoreOK, TreeOK
<1>1. /\ t.topics \in SUBSET TopicRow
      /\ t.subscriptions \in SUBSET SubscriptionRow
      /\ t.generation \in [Sessions -> 0 .. MaxGeneration]
  BY <1>0, TablesFields
<1>2. NodeOK(f, tree[f], t) /\ OneEntry(tree[f])
  BY DEF TreeOK
<1>3. PICK row \in t.topics : row.topic = f
  BY <1>2, RowOfNode
<1>4. /\ row.id = id /\ tree[f].message = row.retained
      /\ \A s \in Sessions, q \in Qos :
            (\E e \in tree[f].clients : e.session = s /\ e.qos = q)
               <=> [session |-> s, topic_id |-> id, qos |-> q] \in t.subscriptions
  BY <1>2, <1>3, NodeOfRow
<1> DEFINE new == [row EXCEPT !.retained = message]
           upd(r) == IF r.id = id THEN [r EXCEPT !.retained = message] ELSE r
<1>5. /\ row \in TopicRow /\ row.id \in 1 .. MaxTopicId
      /\ new = [id |-> id, topic |-> f, retained |-> message]
  BY <1>1, <1>3, <1>4, TopicRowFields DEF TopicRow
<1>6. new \in TopicRow
  BY <1>4, <1>5 DEF TopicRow
<1>7. u = [topics |-> {upd(r) : r \in t.topics}, subscriptions |-> t.subscriptions,
           generation |-> t.generation]
  BY <1>0, TablesUpdate DEF SetRetained
<1>8. \A r \in t.topics : r.id = id => r = row
  BY <1>4 DEF StoreOK, WellFormed
<1> HIDE DEF u, id, node
<1>9. /\ u.topics = {upd(r) : r \in t.topics}
      /\ u.subscriptions = t.subscriptions
      /\ u.generation = t.generation
  BY <1>7
<1>10. u.topics = (t.topics \ {row}) \cup {new}
  BY <1>4, <1>8, <1>9
<1>11. new.id = id /\ new.topic = f /\ new.retained = message
  BY <1>5
<1> HIDE DEF new
<1>12. u \in TablesType
  BY <1>1, <1>6, <1>7, <1>9, <1>10 DEF TablesType
<1>13. WellFormed(u)
  <2>1. WellFormed(t)  BY DEF StoreOK
  <2>2. \A r1, r2 \in u.topics : (r1.id = r2.id \/ r1.topic = r2.topic) => r1 = r2
    BY <2>1, <1>3, <1>4, <1>10, <1>11 DEF WellFormed
  <2>3. \A r \in u.subscriptions : \E x \in u.topics : x.id = r.topic_id
    BY <2>1, <1>4, <1>9, <1>10, <1>11 DEF WellFormed
  <2> QED  BY <2>1, <2>2, <2>3, <1>9 DEF WellFormed
<1>14. IsFiniteSet(u.topics) /\ IsFiniteSet(t.topics \ {row}) /\ IsFiniteSet(t.topics)
  <2>1. IsFiniteSet(t.topics)  BY DEF StoreOK
  <2>2. IsFiniteSet(t.topics \ {row})  BY <2>1, FS_RemoveElement
  <2> QED  BY <2>1, <2>2, <1>10, FS_AddElement
<1>15. Cardinality(RetainedRows(u)) =
         (Cardinality(RetainedRows(t)) + held(message)) - held(tree[f].message)
  <2> DEFINE others == {r \in t.topics \ {row} : r.retained # NoMessage}
  <2>1. IsFiniteSet(others) /\ Cardinality(others) \in Nat
    BY <1>14, FS_Subset, FS_CardinalityType
  <2>2. row \notin others /\ new \notin others
    BY <1>8, <1>11
  <2>3. Cardinality(RetainedRows(t)) = Cardinality(others) + held(row.retained)
    <3>1. CASE row.retained = NoMessage
      <4>1. RetainedRows(t) = others  BY <3>1 DEF RetainedRows
      <4> QED  BY <3>1, <4>1, <2>1
    <3>2. CASE row.retained # NoMessage
      <4>1. RetainedRows(t) = others \cup {row}  BY <3>2 DEF RetainedRows
      <4> HIDE DEF others
      <4> QED  BY <3>2, <4>1, <2>1, <2>2, FS_AddElement
    <3> QED  BY <3>1, <3>2
  <2>4. Cardinality(RetainedRows(u)) = Cardinality(others) + held(message)
    <3>1. CASE message = NoMessage
      <4>1. RetainedRows(u) = others  BY <3>1, <1>10, <1>11 DEF RetainedRows
      <4> QED  BY <3>1, <4>1, <2>1
    <3>2. CASE message # NoMessage
      <4>1. RetainedRows(u) = others \cup {new}  BY <3>2, <1>10, <1>11 DEF RetainedRows
      <4> HIDE DEF others
      <4> QED  BY <3>2, <4>1, <2>1, <2>2, FS_AddElement
    <3> QED  BY <3>1, <3>2
  <2> HIDE DEF others
  <2> QED  BY <2>1, <2>3, <2>4, <1>4
<1>16. node = [internal_id |-> id, clients |-> tree[f].clients, message |-> message]
  BY <1>0 DEF TopicType, node, id
<1>17. /\ tree[f].clients \in SUBSET Entry
       /\ id \in 0 .. MaxTopicId
  BY <1>0, NodeFields DEF id
<1>18. /\ node \in TopicType
       /\ node.internal_id = new.id
       /\ node.message = new.retained
       /\ node.clients = tree[f].clients
  BY <1>11, <1>16, <1>17 DEF TopicType
<1>19. OneEntry(node)
  BY <1>2, <1>18 DEF OneEntry
<1>row. NodeOK(f, node, u)
  <2>1. \A s \in Sessions, q \in Qos :
           (\E e \in node.clients : e.session = s /\ e.qos = q)
              <=> [session |-> s, topic_id |-> new.id, qos |-> q] \in u.subscriptions
    BY <1>4, <1>9, <1>11, <1>18
  <2>2. new \in u.topics
    BY <1>10
  <2> QED  BY <2>1, <2>2, <1>11, <1>18 DEF NodeOK
<1>21. ASSUME NEW g \in Paths, g # f
       PROVE  NodeOK(g, tree[g], u)
  <2>1. NodeOK(g, tree[g], t)  BY DEF TreeOK
  <2>2. \A r \in t.topics \cup u.topics : r.topic = g => (r \in t.topics /\ r \in u.topics)
    BY <1>3, <1>10, <1>11, <1>21
  <2> QED  BY <2>1, <2>2, <1>9, NodeUntouched
<1>22. TreeOK([tree EXCEPT ![f] = node], u)
  BY <1>0, <1>18, <1>19, <1>row, <1>21 DEF TreeOK
<1>23. GaugesOf(u) =
         [subscriptions |-> GaugesOf(t).subscriptions,
          retained |-> (GaugesOf(t).retained + held(message)) - held(tree[f].message)]
  BY <1>9, <1>15 DEF GaugesOf
<1> QED  BY <1>9, <1>12, <1>13, <1>14, <1>22, <1>23 DEF StoreOK, u, id, node

\* retain of an empty payload deletes the row of a topic that nobody is
\* subscribed to: no subscription is left to a deleted topic.
LEMMA DeleteTopicOK ==
  ASSUME NEW t, StoreOK(t), NEW tree, TreeOK(tree, t),
         NEW f \in Paths, tree[f].internal_id # None,
         tree[f].clients = {}, tree[f].message = NoMessage
  PROVE  LET u == persist_delete_topic(t, {tree[f].internal_id}) IN
         /\ StoreOK(u)
         /\ TreeOK([tree EXCEPT ![f] = [tree[f] EXCEPT !.internal_id = None]], u)
         /\ GaugesOf(u) = GaugesOf(t)
<1> DEFINE u == persist_delete_topic(t, {tree[f].internal_id})
           id == tree[f].internal_id
           node == [tree[f] EXCEPT !.internal_id = None]
<1>0. t \in TablesType /\ tree \in [Paths -> TopicType] /\ tree[f] \in TopicType
  BY DEF StoreOK, TreeOK
<1>1. /\ t.topics \in SUBSET TopicRow
      /\ t.subscriptions \in SUBSET SubscriptionRow
      /\ t.generation \in [Sessions -> 0 .. MaxGeneration]
  BY <1>0, TablesFields
<1>2. NodeOK(f, tree[f], t)
  BY DEF TreeOK
<1>3. PICK row \in t.topics : row.topic = f
  BY <1>2, RowOfNode
<1>4. /\ row.id = id /\ row.retained = NoMessage
      /\ \A s \in Sessions, q \in Qos :
            [session |-> s, topic_id |-> id, qos |-> q] \notin t.subscriptions
  BY <1>2, <1>3, NodeOfRow
<1>5. u = [topics |-> {r \in t.topics : r.id \notin {id}}, subscriptions |-> t.subscriptions,
           generation |-> t.generation]
  BY <1>0, TablesUpdate DEF persist_delete_topic
<1>6. \A r \in t.topics : r.id = id <=> r = row
  BY <1>4 DEF StoreOK, WellFormed
<1>7. \A r \in t.subscriptions : r.topic_id # id
  BY <1>1, <1>4, SubscriptionRowFields
<1>8. node = NewTopic
  BY <1>0 DEF TopicType, NewTopic
<1> HIDE DEF u, id, node
<1>9. /\ u.topics = t.topics \ {row}
      /\ u.subscriptions = t.subscriptions
      /\ u.generation = t.generation
  BY <1>5, <1>6
<1>10. u \in TablesType
  BY <1>1, <1>5, <1>9 DEF TablesType
<1>11. WellFormed(u)
  <2>1. WellFormed(t)  BY DEF StoreOK
  <2>2. \A r \in u.subscriptions : \E x \in u.topics : x.id = r.topic_id
    BY <2>1, <1>6, <1>7, <1>9 DEF WellFormed
  <2> QED  BY <2>1, <2>2, <1>9 DEF WellFormed
<1>12. IsFiniteSet(u.topics) /\ IsFiniteSet(u.subscriptions)
  BY <1>9, FS_RemoveElement DEF StoreOK
<1>13. RetainedRows(u) = RetainedRows(t)
  BY <1>4, <1>9 DEF RetainedRows
<1>14. node \in TopicType /\ OneEntry(node)
  BY <1>8, SubscriptionsConstants DEF NewTopic, TopicType, OneEntry, None
<1>15. NodeOK(f, node, u)
  BY <1>3, <1>6, <1>8, <1>9 DEF NodeOK, StoreOK, WellFormed
<1>16. ASSUME NEW g \in Paths, g # f
       PROVE  NodeOK(g, tree[g], u)
  <2>1. NodeOK(g, tree[g], t)  BY DEF TreeOK
  <2>2. \A r \in t.topics \cup u.topics : r.topic = g => (r \in t.topics /\ r \in u.topics)
    BY <1>3, <1>9, <1>16
  <2> QED  BY <2>1, <2>2, <1>9, NodeUntouched
<1>17. TreeOK([tree EXCEPT ![f] = node], u)
  BY <1>0, <1>14, <1>15, <1>16 DEF TreeOK
<1> QED  BY <1>9, <1>10, <1>11, <1>12, <1>13, <1>17 DEF StoreOK, GaugesOf, u, id, node

-----------------------------------------------------------------------------
(* unsubscribe *)

\* The row of a topic with a subscribed client has the id of its node.
LEMMA RowOfSubscribed ==
  ASSUME StoreOK(tables), TreeOK(topics, tables),
         NEW s, NEW f \in Paths, Entries(topics[f], s) # {}
  PROVE  \E x \in tables.topics :
            /\ x.topic = f
            /\ x.id = topics[f].internal_id
            /\ x.retained = topics[f].message
            /\ \A z \in Sessions, q \in Qos :
                  (\E e \in topics[f].clients : e.session = z /\ e.qos = q)
                     <=> [session |-> z, topic_id |-> x.id, qos |-> q] \in tables.subscriptions
<1>1. NodeOK(f, topics[f], tables) /\ topics[f].clients # {}
  BY DEF TreeOK, Entries
<1>2. PICK x \in tables.topics : x.topic = f
  BY <1>1, RowOfNode
<1> QED  BY <1>1, <1>2, NodeOfRow

\* However many of its calls unsubscribe has made, for some of the filters of the
\* packet (done) and some of those that become empty (dropped), the rows are well
\* formed: exactly the subscriptions to the former and the topics of the latter go.
LEMMA UnsubscribedTablesOK ==
  ASSUME StoreOK(tables), TreeOK(topics, tables),
         NEW s \in Sessions, NEW done \in SUBSET Paths,
         \A f \in done : Entries(topics[f], s) # {},
         NEW dropped \in SUBSET done, \A f \in dropped : DeletesTopic(f, s)
  PROVE  LET u == UnsubscribedTables(s, done, dropped) IN
         /\ StoreOK(u)
         /\ u.topics = {x \in tables.topics : x.topic \notin dropped}
         /\ u.subscriptions =
              {r \in tables.subscriptions :
                 ~(r.session = s /\ \E x \in tables.topics : x.id = r.topic_id /\ x.topic \in done)}
<1> DEFINE u == UnsubscribedTables(s, done, dropped)
           ids(fs) == {topics[f].internal_id : f \in fs}
           left == persist_unsubscribe(tables, s, ids(done))
<1>0. tables \in TablesType /\ WellFormed(tables)
  BY DEF StoreOK
<1>1. /\ tables.topics \in SUBSET TopicRow
      /\ tables.subscriptions \in SUBSET SubscriptionRow
      /\ tables.generation \in [Sessions -> 0 .. MaxGeneration]
  BY <1>0, TablesFields
<1>row. ASSUME NEW f \in done
       PROVE  \E x \in tables.topics :
                /\ x.topic = f
                /\ \A z \in Sessions, q \in Qos :
                      (\E e \in topics[f].clients : e.session = z /\ e.qos = q)
                         <=> [session |-> z, topic_id |-> x.id, qos |-> q]
                                \in tables.subscriptions
  BY RowOfSubscribed
<1>2. ASSUME NEW fs \in SUBSET done, NEW x \in tables.topics
      PROVE  x.id \in ids(fs) <=> x.topic \in fs
  <2>1. ASSUME NEW f \in fs
        PROVE  \E y \in tables.topics : y.topic = f /\ y.id = topics[f].internal_id
    <3>1. f \in Paths /\ Entries(topics[f], s) # {}
      OBVIOUS
    <3> QED  BY <3>1, RowOfSubscribed
  <2>2. \A y \in tables.topics : (x.id = y.id \/ x.topic = y.topic) => x = y
    BY <1>0 DEF WellFormed
  <2> QED  BY <2>1, <2>2
<1>3. left = [topics |-> tables.topics,
              subscriptions |-> {r \in tables.subscriptions :
                                    ~(r.session = s /\ r.topic_id \in ids(done))},
              generation |-> tables.generation]
  BY <1>0, TablesUpdate DEF persist_unsubscribe
<1> HIDE DEF left
<1>4. left \in TablesType
  BY <1>1, <1>3 DEF TablesType
<1>5. u = [topics |-> {x \in tables.topics : x.id \notin ids(dropped)},
           subscriptions |-> {r \in tables.subscriptions :
                                 ~(r.session = s /\ r.topic_id \in ids(done))},
           generation |-> tables.generation]
  <2>1. u = persist_delete_topic(left, ids(dropped))
    BY DEF UnsubscribedTables, left
  <2>2. u = [topics |-> {x \in left.topics : x.id \notin ids(dropped)},
             subscriptions |-> left.subscriptions, generation |-> left.generation]
    <3> HIDE DEF ids, u
    <3> QED  BY <2>1, <1>4, TablesUpdate DEF persist_delete_topic
  <2> HIDE DEF ids, u
  <2> QED  BY <2>2, <1>3
<1> HIDE DEF u, ids
<1>6. u.topics = {x \in tables.topics : x.topic \notin dropped}
  BY <1>2, <1>5
<1>7. \A r \in tables.subscriptions :
         r.topic_id \in ids(done) <=> \E x \in tables.topics : x.id = r.topic_id /\ x.topic \in done
  BY <1>2, TopicOfSubscription
<1>8. u.subscriptions =
        {r \in tables.subscriptions :
           ~(r.session = s /\ \E x \in tables.topics : x.id = r.topic_id /\ x.topic \in done)}
  <2>1. u.subscriptions = {r \in tables.subscriptions :
                             ~(r.session = s /\ r.topic_id \in ids(done))}
    BY <1>5
  <2> QED  BY <2>1, <1>7
<1>9. u \in TablesType
  BY <1>1, <1>5 DEF TablesType
<1>10. \A r \in u.subscriptions : \E x \in u.topics : x.id = r.topic_id
  <2> SUFFICES ASSUME NEW r \in u.subscriptions
               PROVE  \E x \in u.topics : x.id = r.topic_id
    OBVIOUS
  <2>1. r \in tables.subscriptions
    BY <1>8
  <2>2. PICK x \in tables.topics : x.id = r.topic_id
    BY <2>1, TopicOfSubscription
  <2>3. CASE x.topic \in dropped
    <3>0. PICK f \in dropped : f = x.topic
      BY <2>3
    <3>1. f \in Paths /\ f \in done /\ DeletesTopic(f, s) /\ Entries(topics[f], s) # {}
      OBVIOUS
    <3>2. PICK y \in tables.topics :
            /\ y.topic = f
            /\ \A z \in Sessions, q \in Qos :
                  (\E e \in topics[f].clients : e.session = z /\ e.qos = q)
                     <=> [session |-> z, topic_id |-> y.id, qos |-> q] \in tables.subscriptions
      BY <1>row
    <3>3. y = x
      BY <3>0, <3>2, <1>0 DEF WellFormed
    <3>4. /\ r.session \in Sessions /\ r.qos \in Qos
          /\ r = [session |-> r.session, topic_id |-> x.id, qos |-> r.qos]
      BY <1>1, <2>1, <2>2, SubscriptionRowFields
    <3>5. \E e \in topics[f].clients : e.session = r.session /\ e.qos = r.qos
      BY <2>1, <3>2, <3>3, <3>4
    <3>6. r.session = s
      BY <3>1, <3>5 DEF DeletesTopic, Entries
    <3> QED  BY <3>0, <3>1, <3>6, <2>2, <1>8
  <2>4. CASE x.topic \notin dropped
    BY <2>2, <2>4, <1>6
  <2> QED  BY <2>3, <2>4
<1>11. WellFormed(u)
  <2>1. \A r1, r2 \in u.topics : (r1.id = r2.id \/ r1.topic = r2.topic) => r1 = r2
    BY <1>0, <1>6 DEF WellFormed
  <2>2. \A r1, r2 \in u.subscriptions :
          (r1.session = r2.session /\ r1.topic_id = r2.topic_id) => r1 = r2
    BY <1>0, <1>8 DEF WellFormed
  <2> QED  BY <2>1, <2>2, <1>10 DEF WellFormed
<1>12. IsFiniteSet(u.topics) /\ IsFiniteSet(u.subscriptions)
  <2>1. u.topics \in SUBSET tables.topics /\ u.subscriptions \in SUBSET tables.subscriptions
    BY <1>6, <1>8
  <2>2. IsFiniteSet(tables.topics) /\ IsFiniteSet(tables.subscriptions)
    BY DEF StoreOK
  <2> QED  BY <2>1, <2>2, FS_Subset
<1> QED  BY <1>6, <1>8, <1>9, <1>11, <1>12 DEF StoreOK, u

\* unsubscribe that got to its end: the tree is that of the rows that are left,
\* and as many subscriptions are gone as filters of the packet were subscribed.
LEMMA UnsubscribedOK ==
  ASSUME StoreOK(tables), TreeOK(topics, tables),
         NEW s \in Sessions, NEW subscribed \in SUBSET Paths,
         \A f \in subscribed : Entries(topics[f], s) # {}
  PROVE  LET empties == {f \in subscribed : DeletesTopic(f, s)}
             u == UnsubscribedTables(s, subscribed, empties)
         IN
         /\ StoreOK(u)
         /\ TreeOK([f \in Paths |-> IF f \in subscribed THEN Unsubscribed(f, s) ELSE topics[f]], u)
         /\ GaugesOf(u) =
              [GaugesOf(tables) EXCEPT !.subscriptions = @ - Cardinality(subscribed)]
<1> DEFINE empties == {f \in subscribed : DeletesTopic(f, s)}
           u == UnsubscribedTables(s, subscribed, empties)
           gone == {r \in tables.subscriptions :
                      r.session = s /\ \E x \in tables.topics :
                                          x.id = r.topic_id /\ x.topic \in subscribed}
           tree == [f \in Paths |-> IF f \in subscribed THEN Unsubscribed(f, s) ELSE topics[f]]
<1>0. /\ tables \in TablesType /\ WellFormed(tables)
      /\ topics \in [Paths -> TopicType]
  BY DEF StoreOK, TreeOK
<1>1. /\ tables.topics \in SUBSET TopicRow
      /\ tables.subscriptions \in SUBSET SubscriptionRow
  BY <1>0, TablesFields
<1>2. /\ StoreOK(u)
      /\ u.topics = {x \in tables.topics : x.topic \notin empties}
      /\ u.subscriptions =
            {r \in tables.subscriptions :
               ~(r.session = s /\ \E x \in tables.topics :
                                     x.id = r.topic_id /\ x.topic \in subscribed)}
  <2>1. empties \in SUBSET subscribed /\ \A f \in empties : DeletesTopic(f, s)
    OBVIOUS
  <2> HIDE DEF empties
  <2>2. \A dropped \in SUBSET subscribed : (\A f \in dropped : DeletesTopic(f, s)) =>
          LET v == UnsubscribedTables(s, subscribed, dropped) IN
          /\ StoreOK(v)
          /\ v.topics = {x \in tables.topics : x.topic \notin dropped}
          /\ v.subscriptions =
               {r \in tables.subscriptions :
                  ~(r.session = s /\ \E x \in tables.topics :
                                        x.id = r.topic_id /\ x.topic \in subscribed)}
    BY UnsubscribedTablesOK, Zenon
  <2> QED  BY <2>1, <2>2, Zenon
<1> HIDE DEF u
<1>3. u.subscriptions = tables.subscriptions \ gone
  BY <1>2
<1>4. ASSUME NEW f \in subscribed
      PROVE  /\ Unsubscribed(f, s) \in TopicType
             /\ OneEntry(Unsubscribed(f, s))
             /\ NodeOK(f, Unsubscribed(f, s), u)
  <2> DEFINE node == Unsubscribed(f, s)
             rest == topics[f].clients \ Entries(topics[f], s)
  <2>1. PICK x \in tables.topics :
            /\ x.topic = f
            /\ x.id = topics[f].internal_id
            /\ x.retained = topics[f].message
            /\ \A z \in Sessions, q \in Qos :
                  (\E e \in topics[f].clients : e.session = z /\ e.qos = q)
                     <=> [session |-> z, topic_id |-> x.id, qos |-> q] \in tables.subscriptions
    BY RowOfSubscribed
  <2>2. /\ topics[f] \in TopicType /\ OneEntry(topics[f])
        /\ topics[f].internal_id \in 0 .. MaxTopicId
        /\ topics[f].clients \in SUBSET Entry
        /\ topics[f].message \in Payloads \cup {NoMessage}
    <3>1. topics[f] \in TopicType /\ OneEntry(topics[f])
      BY <1>0 DEF TreeOK
    <3> QED  BY <3>1, NodeFields
  <2>3. node = [internal_id |-> IF DeletesTopic(f, s) THEN None ELSE topics[f].internal_id,
                clients |-> rest, message |-> topics[f].message]
    BY DEF Unsubscribed
  <2> HIDE DEF node
  <2>4. /\ node.clients = rest
        /\ node.message = topics[f].message
        /\ node.internal_id = IF DeletesTopic(f, s) THEN None ELSE topics[f].internal_id
    BY <2>3
  <2>5. node \in TopicType
    BY <2>2, <2>3, SubscriptionsConstants DEF TopicType, None
  <2>6. OneEntry(node)
    BY <2>2, <2>4 DEF OneEntry
  <2>7. CASE DeletesTopic(f, s)
    <3>1. node = NewTopic
      BY <2>3, <2>7 DEF DeletesTopic, NewTopic
    <3>2. \A r \in u.topics : r.topic # f
      BY <2>7, <1>2
    <3> QED  BY <2>5, <2>6, <3>1, <3>2 DEF NodeOK, node
  <2>8. CASE ~DeletesTopic(f, s)
    <3>1. x \in u.topics
      BY <2>1, <2>8, <1>2
    <3>2. ASSUME NEW z \in Sessions, NEW q \in Qos
          PROVE  (\E e \in node.clients : e.session = z /\ e.qos = q)
                    <=> [session |-> z, topic_id |-> x.id, qos |-> q] \in u.subscriptions
      <4> DEFINE r == [session |-> z, topic_id |-> x.id, qos |-> q]
      <4>1. r \in u.subscriptions <=> (r \in tables.subscriptions /\ z # s)
        BY <1>2, <2>1
      <4>2. (\E e \in node.clients : e.session = z /\ e.qos = q)
               <=> ((\E e \in topics[f].clients : e.session = z /\ e.qos = q) /\ z # s)
        BY <2>4 DEF Entries
      <4> QED  BY <4>1, <4>2, <2>1
    <3> QED  BY <2>1, <2>4, <2>5, <2>6, <2>8, <3>1, <3>2 DEF NodeOK, node
  <2> QED  BY <2>7, <2>8
<1>5. ASSUME NEW f \in Paths, f \notin subscribed
      PROVE  NodeOK(f, topics[f], u)
  <2>1. NodeOK(f, topics[f], tables)  BY DEF TreeOK
  <2>2. \A r \in tables.topics \cup u.topics :
           r.topic = f => (r \in tables.topics /\ r \in u.topics)
    BY <1>2, <1>5
  <2>3. \A r \in tables.topics : r.topic = f =>
          \A z \in Sessions, q \in Qos :
             [session |-> z, topic_id |-> r.id, qos |-> q] \in tables.subscriptions
                <=> [session |-> z, topic_id |-> r.id, qos |-> q] \in u.subscriptions
    BY <1>0, <1>2, <1>5 DEF WellFormed
  <2> QED  BY <2>1, <2>2, <2>3, NodeUntouched
<1>6. TreeOK(tree, u)
  <2>1. tree \in [Paths -> TopicType]
    BY <1>0, <1>4
  <2>2. \A f \in Paths : OneEntry(tree[f]) /\ NodeOK(f, tree[f], u)
    BY <1>4, <1>5 DEF TreeOK
  <2> QED  BY <2>1, <2>2 DEF TreeOK
<1>7. /\ IsFiniteSet(gone) /\ IsFiniteSet(tables.subscriptions)
      /\ Cardinality(u.subscriptions) = Cardinality(tables.subscriptions) - Cardinality(gone)
  <2>1. IsFiniteSet(tables.subscriptions)  BY DEF StoreOK
  <2>2. gone \in SUBSET tables.subscriptions /\ tables.subscriptions \cap gone = gone
    OBVIOUS
  <2> HIDE DEF gone
  <2>3. IsFiniteSet(gone)
    BY <2>1, <2>2, FS_Subset
  <2>4. Cardinality(tables.subscriptions \ gone) =
          Cardinality(tables.subscriptions) - Cardinality(tables.subscriptions \cap gone)
    BY <2>1, FS_Difference
  <2> QED  BY <2>1, <2>2, <2>3, <2>4, <1>3
<1>8. Cardinality(gone) = Cardinality(subscribed)
  <2> DEFINE m == [r \in gone |-> CHOOSE f \in subscribed :
                                    \E x \in tables.topics : x.id = r.topic_id /\ x.topic = f]
  <2>1. ASSUME NEW r \in gone
        PROVE  /\ m[r] \in subscribed
               /\ \E x \in tables.topics : x.id = r.topic_id /\ x.topic = m[r]
    OBVIOUS
  <2> HIDE DEF m
  <2>2. m \in [gone -> subscribed]
    BY <2>1 DEF m
  <2>3. ASSUME NEW r1 \in gone, NEW r2 \in gone, m[r1] = m[r2]
        PROVE  r1 = r2
    <3>1. r1.topic_id = r2.topic_id
      BY <2>1, <2>3, <1>0 DEF WellFormed
    <3> QED  BY <3>1, <1>0 DEF WellFormed
  <2>4. ASSUME NEW f \in subscribed
        PROVE  \E r \in gone : m[r] = f
    <3>1. PICK x \in tables.topics :
            /\ x.topic = f
            /\ \A z \in Sessions, q \in Qos :
                  (\E e \in topics[f].clients : e.session = z /\ e.qos = q)
                     <=> [session |-> z, topic_id |-> x.id, qos |-> q] \in tables.subscriptions
      BY RowOfSubscribed
    <3>2. PICK e \in topics[f].clients : e.session = s
      BY DEF Entries
    <3>3. e.qos \in Qos
      BY <1>0, NodeFields, EntryFields
    <3> DEFINE r == [session |-> s, topic_id |-> x.id, qos |-> e.qos]
    <3>4. r \in gone
      BY <3>1, <3>2, <3>3
    <3>5. r.topic_id = x.id
      OBVIOUS
    <3> HIDE DEF r, gone
    <3>6. m[r] = f
      BY <2>1, <3>1, <3>4, <3>5, <1>0 DEF WellFormed
    <3> QED  BY <3>4, <3>6
  <2> HIDE DEF gone
  <2> QED  BY <2>2, <2>3, <2>4, <1>7, SameSize
<1>9. RetainedRows(u) = RetainedRows(tables)
  <2>1. \A x \in tables.topics : x.topic \in empties => x.retained = NoMessage
    <3> SUFFICES ASSUME NEW x \in tables.topics, x.topic \in empties
                 PROVE  x.retained = NoMessage
      OBVIOUS
    <3>0. PICK f \in empties : f = x.topic
      OBVIOUS
    <3>1. f \in Paths /\ Entries(topics[f], s) # {} /\ DeletesTopic(f, s)
      OBVIOUS
    <3>2. PICK y \in tables.topics : y.topic = f /\ y.retained = topics[f].message
      BY <3>1, RowOfSubscribed
    <3> QED  BY <3>0, <3>1, <3>2, <1>0 DEF WellFormed, DeletesTopic
  <2> QED  BY <2>1, <1>2 DEF RetainedRows
<1>10. GaugesOf(u) = [GaugesOf(tables) EXCEPT !.subscriptions = @ - Cardinality(subscribed)]
  BY <1>7, <1>8, <1>9 DEF GaugesOf
<1> QED  BY <1>2, <1>6, <1>10 DEF u

-----------------------------------------------------------------------------
(* load_persistent_state *)

\* What is loaded for a topic that has a row is what its row and its
\* subscriptions say.
LEMMA LoadTopicOK ==
  ASSUME StoreOK(tables), NEW row \in tables.topics
  PROVE  /\ LoadTopic(row.topic) \in TopicType
         /\ LoadTopic(row.topic).internal_id = row.id
         /\ LoadTopic(row.topic).message = row.retained
         /\ OneEntry(LoadTopic(row.topic))
         /\ NodeOK(row.topic, LoadTopic(row.topic), tables)
<1> DEFINE f == row.topic
           to(r) == [session |-> r.session, generation |-> tables.generation[r.session],
                     qos |-> r.qos]
           subs == {x \in tables.subscriptions : x.topic_id = row.id}
           node == LoadTopic(f)
<1>0. tables \in TablesType /\ WellFormed(tables)
  BY DEF StoreOK
<1>1. /\ tables.topics \in SUBSET TopicRow
      /\ tables.subscriptions \in SUBSET SubscriptionRow
      /\ tables.generation \in [Sessions -> 0 .. MaxGeneration]
  BY <1>0, TablesFields
<1>2. (CHOOSE r \in tables.topics : r.topic = f) = row
  BY <1>0 DEF WellFormed
<1>3. node = [internal_id |-> row.id, clients |-> {to(r) : r \in subs},
              message |-> row.retained]
  BY <1>2 DEF LoadTopic
<1> HIDE DEF node
<1>4. /\ node.internal_id = row.id
      /\ node.clients = {to(r) : r \in subs}
      /\ node.message = row.retained
  BY <1>3
<1>5. \A r \in subs : /\ r.session \in Sessions /\ r.qos \in Qos
                      /\ tables.generation[r.session] \in 0 .. MaxGeneration
                      /\ r = [session |-> r.session, topic_id |-> row.id, qos |-> r.qos]
  BY <1>1, SubscriptionRowFields
<1>6. \A r \in subs : to(r) \in Entry /\ to(r).session = r.session /\ to(r).qos = r.qos
  BY <1>5 DEF Entry
<1>7. node.clients \in SUBSET Entry
  BY <1>4, <1>6
<1>8. node \in TopicType
  <2>1. row.id \in 0 .. MaxTopicId /\ row.retained \in Payloads \cup {NoMessage}
    BY <1>1, TopicRowFields
  <2> QED  BY <2>1, <1>3, <1>4, <1>7 DEF TopicType
<1>9. OneEntry(node)
  <2> SUFFICES ASSUME NEW r1 \in subs, NEW r2 \in subs, to(r1).session = to(r2).session
               PROVE  to(r1) = to(r2)
    BY <1>4 DEF OneEntry
  <2>1. r1 = r2
    BY <1>0, <1>6 DEF WellFormed
  <2> QED  BY <2>1
<1>10. NodeOK(f, node, tables)
  <2>1. ASSUME NEW s \in Sessions, NEW q \in Qos
        PROVE  (\E e \in node.clients : e.session = s /\ e.qos = q)
                  <=> [session |-> s, topic_id |-> row.id, qos |-> q] \in tables.subscriptions
    <3> DEFINE r == [session |-> s, topic_id |-> row.id, qos |-> q]
    <3>1. ASSUME r \in tables.subscriptions
          PROVE  \E e \in node.clients : e.session = s /\ e.qos = q
      <4>1. r \in subs /\ r.session = s /\ r.qos = q
        BY <3>1
      <4>2. to(r) \in node.clients /\ to(r).session = s /\ to(r).qos = q
        BY <4>1, <1>4, <1>6
      <4> QED  BY <4>2
    <3>2. ASSUME NEW e \in node.clients, e.session = s, e.qos = q
          PROVE  r \in tables.subscriptions
      <4>1. PICK x \in subs : e = to(x)
        BY <1>4
      <4>2. x.session = s /\ x.qos = q
        BY <3>2, <4>1, <1>6
      <4>3. x = r
        BY <4>2, <1>5
      <4> QED  BY <4>3
    <3> QED  BY <3>1, <3>2
  <2> HIDE DEF f
  <2>2. row.topic = f
    BY DEF f
  <2> QED  BY <2>1, <2>2, <1>4 DEF NodeOK
<1> QED  BY <1>4, <1>8, <1>9, <1>10 DEF node

\* A router that starts has the tree of the tables.
LEMMA LoadOK ==
  ASSUME StoreOK(tables)
  PROVE  TreeOK([f \in Paths |-> IF \E r \in tables.topics : r.topic = f
                                 THEN LoadTopic(f) ELSE NewTopic], tables)
<1> DEFINE tree == [f \in Paths |-> IF \E r \in tables.topics : r.topic = f
                                    THEN LoadTopic(f) ELSE NewTopic]
<1>1. ASSUME NEW f \in Paths
      PROVE  tree[f] \in TopicType /\ OneEntry(tree[f]) /\ NodeOK(f, tree[f], tables)
  <2>1. CASE \E r \in tables.topics : r.topic = f
    <3>1. PICK r \in tables.topics : r.topic = f
      BY <2>1
    <3>2. tree[f] = LoadTopic(r.topic)
      BY <3>1
    <3> QED  BY <3>1, <3>2, LoadTopicOK
  <2>2. CASE ~ \E r \in tables.topics : r.topic = f
    <3>1. tree[f] = NewTopic
      BY <2>2
    <3>2. NewTopic \in TopicType /\ OneEntry(NewTopic)
      BY SubscriptionsConstants DEF NewTopic, TopicType, OneEntry, None
    <3> QED  BY <2>2, <3>1, <3>2 DEF NodeOK
  <2> QED  BY <2>1, <2>2
<1>2. tree \in [Paths -> TopicType]
  BY <1>1
<1> HIDE DEF tree
<1> QED  BY <1>1, <1>2 DEF TreeOK, tree

-----------------------------------------------------------------------------
(* The steps. *)

\* A step after which the router goes on.
LEMMA ContinueOK ==
  ASSUME NEW tree, NEW g, NEW t, Continue(tree, g, t),
         StoreOK(t), TreeOK(tree, t), g = GaugesOf(t)
  PROVE  IndInv'
<1>1. running' = TRUE /\ topics' = tree /\ gauges' = g /\ tables' = t
  BY DEF Continue
<1>2. StoreOK(tables') /\ TreeOK(topics', tables') /\ gauges' = GaugesOf(tables')
  BY <1>1
<1>3. StoreOK(tables)' /\ TreeOK(topics, tables)' /\ GaugesOf(tables)' = GaugesOf(tables')
  BY <1>2 DEF StoreOK, TreeOK, WellFormed, GaugesOf, RetainedRows, OneEntry, NodeOK
<1> QED  BY <1>1, <1>2, <1>3 DEF IndInv

\* A step at which the router stops.
LEMMA StopOK ==
  ASSUME NEW t, Stop(t), StoreOK(t)
  PROVE  IndInv'
<1>1. running' = FALSE /\ topics' = NewTree /\ gauges' = NoGauges /\ tables' = t
  BY DEF Stop
<1>2. StoreOK(tables)'
  BY <1>1 DEF StoreOK, WellFormed
<1> QED  BY <1>1, <1>2 DEF IndInv

\* get_topic: the topic has a row and an id, and nothing else has changed.
LEMMA GetTopicOK ==
  ASSUME StoreOK(tables), TreeOK(topics, tables), NEW f \in Paths, GetTopicId(f) <= MaxTopicId
  PROVE  LET tree == [topics EXCEPT ![f] = GetTopic(f)] IN
         /\ StoreOK(GetTopicTables(f))
         /\ TreeOK(tree, GetTopicTables(f))
         /\ GaugesOf(GetTopicTables(f)) = GaugesOf(tables)
         /\ tree[f] = GetTopic(f)
         /\ GetTopic(f).internal_id = GetTopicId(f)
         /\ GetTopic(f).internal_id # None
         /\ GetTopic(f).message = topics[f].message
         /\ GetTopic(f).clients = topics[f].clients
<1>0. /\ tables \in TablesType /\ topics \in [Paths -> TopicType]
      /\ topics[f] \in TopicType
  BY DEF StoreOK, TreeOK
<1>1. GetTopic(f) = [internal_id |-> GetTopicId(f), clients |-> topics[f].clients,
                     message |-> topics[f].message]
  BY <1>0, NodeUpdate DEF GetTopic
<1>2. CASE topics[f].internal_id = None
  <2>1. NextTopicId(tables) # None
    BY <1>0, NextTopicIdIsNew DEF None
  <2>2. GetTopicId(f) = NextTopicId(tables) /\ GetTopicTables(f) = persist_topic(tables, f)
    BY <1>2 DEF GetTopicId, GetTopicTables
  <2>3. GetTopic(f) = [topics[f] EXCEPT !.internal_id = NextTopicId(tables)]
    BY <2>2 DEF GetTopic
  <2>4. /\ StoreOK(GetTopicTables(f))
        /\ TreeOK([topics EXCEPT ![f] = GetTopic(f)], GetTopicTables(f))
        /\ GaugesOf(GetTopicTables(f)) = GaugesOf(tables)
    BY <1>2, <2>2, <2>3, PersistTopicOK
  <2> QED  BY <1>0, <1>1, <2>1, <2>2, <2>4
<1>3. CASE topics[f].internal_id # None
  <2>1. GetTopicId(f) = topics[f].internal_id /\ GetTopicTables(f) = tables
    BY <1>3 DEF GetTopicId, GetTopicTables
  <2>2. topics[f] = [internal_id |-> topics[f].internal_id, clients |-> topics[f].clients,
                     message |-> topics[f].message]
    BY <1>0 DEF TopicType
  <2>3. GetTopic(f) = topics[f]
    BY <1>1, <2>1, <2>2
  <2>4. [topics EXCEPT ![f] = GetTopic(f)] = topics
    BY <1>0, <2>3
  <2> QED  BY <1>3, <2>1, <2>3, <2>4
<1> QED  BY <1>2, <1>3

LEMMA SubscribeMessageOK ==
  ASSUME IndInv, NEW s \in Sessions, NEW f \in Paths, NEW qos \in Qos,
         NEW generation \in 0 .. tables.generation[s],
         SubscribeMessage(s, generation, f, qos)
  PROVE  IndInv'
<1> DEFINE id    == GetTopicId(f)
           t     == GetTopicTables(f)
           node  == GetTopic(f)
           entry == [session |-> s, generation |-> generation, qos |-> qos]
           old   == Entries(node, s)
           tree(n) == [topics EXCEPT ![f] = n]
<1>0. /\ StoreOK(tables) /\ TreeOK(topics, tables) /\ gauges = GaugesOf(tables)
      /\ id <= MaxTopicId
  BY DEF IndInv, SubscribeMessage
<1>1. /\ StoreOK(t)
      /\ TreeOK(tree(node), t)
      /\ GaugesOf(t) = gauges
      /\ tree(node)[f] = node
      /\ node.internal_id = id
      /\ node.internal_id # None
  BY <1>0, GetTopicOK
<1>2. entry \in Entry /\ entry.session = s /\ entry.qos = qos
  <2>1. tables.generation[s] \in 0 .. MaxGeneration
    BY <1>0, TablesFields DEF StoreOK
  <2>2. generation \in 0 .. MaxGeneration
    BY <2>1, SubscriptionsConstants
  <2> QED  BY <2>2 DEF Entry
<1>3. \A n : [tree(node) EXCEPT ![f] = n] = tree(n)
  BY <1>0 DEF TreeOK
<1>4. \/ Stop(tables)
      \/ Stop(t)
      \/ /\ old = {}
         /\ Continue(tree(set_subscribed(node, entry)),
                     [gauges EXCEPT !.subscriptions = @ + 1],
                     persist_subscribe(t, s, id, qos))
      \/ Continue(tree(node), gauges, t)
      \/ /\ old # {}
         /\ Continue(tree(set_subscribed(node, entry)), gauges,
                     persist_update_subscribe(t, s, id, qos))
  BY DEF SubscribeMessage
<1> HIDE DEF id, t, node, entry, tree
<1>5. CASE Stop(tables)  BY <1>0, <1>5, StopOK
<1>6. CASE Stop(t)  BY <1>1, <1>6, StopOK
<1>7. CASE old = {} /\ Continue(tree(set_subscribed(node, entry)),
                                [gauges EXCEPT !.subscriptions = @ + 1],
                                persist_subscribe(t, s, id, qos))
  <2> DEFINE u == persist_subscribe(t, s, id, qos)
             before == tree(node)
  <2>1. before[f].internal_id # None /\ Entries(before[f], entry.session) = {}
    BY <1>1, <1>2, <1>7
  <2>2. /\ StoreOK(u)
        /\ TreeOK([before EXCEPT ![f] = set_subscribed(node, entry)], u)
        /\ GaugesOf(u) = [subscriptions |-> GaugesOf(t).subscriptions + 1,
                          retained |-> GaugesOf(t).retained]
    <3> HIDE DEF before
    <3>1. /\ StoreOK(t) /\ TreeOK(before, t) /\ before[f] = node
          /\ before[f].internal_id = id
      BY <1>1 DEF before
    <3>2. LET v == persist_subscribe(t, entry.session, before[f].internal_id, entry.qos) IN
          /\ StoreOK(v)
          /\ TreeOK([before EXCEPT ![f] = set_subscribed(before[f], entry)], v)
          /\ GaugesOf(v) = [subscriptions |-> GaugesOf(t).subscriptions + 1,
                            retained |-> GaugesOf(t).retained]
      <4>1. /\ StoreOK(t) /\ TreeOK(before, t) /\ entry \in Entry
            /\ before[f].internal_id # None /\ Entries(before[f], entry.session) = {}
        BY <1>2, <2>1, <3>1
      <4> HIDE DEF old
      <4> QED  BY <4>1, SubscribedOK
    <3> QED  BY <1>2, <3>1, <3>2
  <2> HIDE DEF u
  <2>3. TreeOK(tree(set_subscribed(node, entry)), u)
    BY <2>2, <1>3
  <2>4. GaugesOf(u) = [gauges EXCEPT !.subscriptions = @ + 1]
    BY <2>2, <1>0, <1>1 DEF GaugesOf
  <2> QED  BY <2>2, <2>3, <2>4, <1>7, ContinueOK DEF u
<1>8. CASE Continue(tree(node), gauges, t)
  BY <1>1, <1>8, ContinueOK
<1>9. CASE old # {} /\ Continue(tree(set_subscribed(node, entry)), gauges,
                                persist_update_subscribe(t, s, id, qos))
  <2> DEFINE u == persist_update_subscribe(t, s, id, qos)
             before == tree(node)
  <2>1. before[f].internal_id # None /\ Entries(before[f], entry.session) # {}
    BY <1>1, <1>2, <1>9
  <2>2. /\ StoreOK(u)
        /\ TreeOK([before EXCEPT ![f] = set_subscribed(node, entry)], u)
        /\ GaugesOf(u) = GaugesOf(t)
    <3> HIDE DEF before
    <3>1. /\ StoreOK(t) /\ TreeOK(before, t) /\ before[f] = node
          /\ before[f].internal_id = id
      BY <1>1 DEF before
    <3> QED  BY <1>2, <2>1, <3>1, ResubscribedOK
  <2> HIDE DEF u
  <2>3. TreeOK(tree(set_subscribed(node, entry)), u)
    BY <2>2, <1>3
  <2> QED  BY <2>2, <2>3, <1>1, <1>9, ContinueOK DEF u
<1> QED  BY <1>4, <1>5, <1>6, <1>7, <1>8, <1>9

LEMMA UnsubscribeMessageOK ==
  ASSUME IndInv, NEW s \in Sessions, NEW filters \in SUBSET Paths,
         UnsubscribeMessage(s, filters)
  PROVE  IndInv'
<1> DEFINE subscribed == {f \in filters : Entries(topics[f], s) # {}}
           empties == {f \in subscribed : DeletesTopic(f, s)}
           tree == [f \in Paths |-> IF f \in subscribed THEN Unsubscribed(f, s) ELSE topics[f]]
<1>0. StoreOK(tables) /\ TreeOK(topics, tables) /\ gauges = GaugesOf(tables)
  BY DEF IndInv, UnsubscribeMessage
<1>1. /\ subscribed \in SUBSET Paths
      /\ \A f \in subscribed : Entries(topics[f], s) # {}
      /\ empties \in SUBSET subscribed
      /\ \A f \in empties : DeletesTopic(f, s)
  OBVIOUS
<1>2. \/ Continue(tree, [gauges EXCEPT !.subscriptions = @ - Cardinality(subscribed)],
                  UnsubscribedTables(s, subscribed, empties))
      \/ \E done \in SUBSET subscribed, dropped \in SUBSET empties :
            /\ dropped \in SUBSET done
            /\ Stop(UnsubscribedTables(s, done, dropped))
  <2>1. CASE Continue(tree, [gauges EXCEPT !.subscriptions = @ - Cardinality(subscribed)],
                      UnsubscribedTables(s, subscribed, empties))
    BY <2>1
  <2>2. CASE \E done \in SUBSET subscribed : \E f \in subscribed \ done :
               \/ Stop(UnsubscribedTables(s, done, done \cap empties))
               \/ /\ f \in empties
                  /\ Stop(UnsubscribedTables(s, done \cup {f}, done \cap empties))
    <3> HIDE DEF subscribed, empties
    <3>1. PICK done \in SUBSET subscribed, f \in subscribed :
               \/ Stop(UnsubscribedTables(s, done, done \cap empties))
               \/ Stop(UnsubscribedTables(s, done \cup {f}, done \cap empties))
      BY <2>2
    <3>2. /\ done \cup {f} \in SUBSET subscribed
          /\ done \cap empties \in SUBSET empties
          /\ done \cap empties \in SUBSET done
          /\ done \cap empties \in SUBSET (done \cup {f})
      OBVIOUS
    <3> QED  BY <3>1, <3>2
  <2> HIDE DEF tree
  <2> QED  BY <2>1, <2>2 DEF UnsubscribeMessage, tree
<1>3. CASE Continue(tree, [gauges EXCEPT !.subscriptions = @ - Cardinality(subscribed)],
                    UnsubscribedTables(s, subscribed, empties))
  <2> DEFINE u == UnsubscribedTables(s, subscribed, empties)
  <2>1. /\ StoreOK(u)
        /\ TreeOK(tree, u)
        /\ GaugesOf(u) = [gauges EXCEPT !.subscriptions = @ - Cardinality(subscribed)]
    <3> HIDE DEF subscribed
    <3> QED  BY <1>0, <1>1, UnsubscribedOK
  <2> HIDE DEF u, tree, subscribed
  <2> QED  BY <2>1, <1>3, ContinueOK DEF u
<1>4. CASE \E done \in SUBSET subscribed, dropped \in SUBSET empties :
              /\ dropped \in SUBSET done
              /\ Stop(UnsubscribedTables(s, done, dropped))
  <2> HIDE DEF subscribed, empties
  <2>1. PICK done \in SUBSET subscribed, dropped \in SUBSET empties :
              /\ dropped \in SUBSET done
              /\ Stop(UnsubscribedTables(s, done, dropped))
    BY <1>4
  <2>2. /\ done \in SUBSET Paths
        /\ \A f \in done : Entries(topics[f], s) # {}
        /\ \A f \in dropped : DeletesTopic(f, s)
    BY <1>1
  <2>3. StoreOK(UnsubscribedTables(s, done, dropped))
    BY <1>0, <2>1, <2>2, UnsubscribedTablesOK
  <2> QED  BY <2>1, <2>3, StopOK
<1> QED  BY <1>2, <1>3, <1>4

LEMMA RetainOK ==
  ASSUME IndInv, NEW f \in Paths, NEW message \in Payloads \cup {NoMessage},
         Retain(f, message)
  PROVE  IndInv'
<1> DEFINE id      == GetTopicId(f)
           t1      == GetTopicTables(f)
           t2      == SetRetained(t1, id, NoMessage)
           t3      == IF message = NoMessage THEN t2 ELSE SetRetained(t2, id, message)
           node    == [GetTopic(f) EXCEPT !.message = message]
           deletes == message = NoMessage /\ node.clients = {}
           held(m) == IF m = NoMessage THEN 0 ELSE 1
           count   == (gauges.retained + held(message)) - held(topics[f].message)
           tree(n) == [topics EXCEPT ![f] = n]
           empty   == [GetTopic(f) EXCEPT !.message = NoMessage]
<1>0. /\ StoreOK(tables) /\ TreeOK(topics, tables) /\ gauges = GaugesOf(tables)
      /\ id <= MaxTopicId
  BY DEF IndInv, Retain
<1>1. /\ StoreOK(t1)
      /\ TreeOK(tree(GetTopic(f)), t1)
      /\ GaugesOf(t1) = gauges
      /\ tree(GetTopic(f))[f] = GetTopic(f)
      /\ GetTopic(f).internal_id = id
      /\ id # None
      /\ GetTopic(f).message = topics[f].message
  <2> HIDE DEF t1, id, tree
  <2> QED  BY <1>0, GetTopicOK DEF t1, id, tree
<1>2. /\ \A n, m : [tree(n) EXCEPT ![f] = m] = tree(m)
      /\ \A n : tree(n)[f] = n
  BY <1>0 DEF TreeOK
<1>3. \/ Stop(tables)
      \/ Stop(t1)
      \/ Stop(t2)
      \/ Continue(tree(IF deletes THEN [node EXCEPT !.internal_id = None] ELSE node),
                  [gauges EXCEPT !.retained = count],
                  IF deletes THEN persist_delete_topic(t3, {id}) ELSE t3)
  BY DEF Retain
<1>4. GetTopic(f) \in TopicType
  <2>1. tree(GetTopic(f)) \in [Paths -> TopicType]
    BY <1>1 DEF TreeOK
  <2> HIDE DEF tree
  <2> QED  BY <1>1, <2>1
<1>5. /\ node = [internal_id |-> id, clients |-> GetTopic(f).clients, message |-> message]
      /\ empty = [internal_id |-> id, clients |-> GetTopic(f).clients, message |-> NoMessage]
  BY <1>1, <1>4, NodeUpdate
<1>6. /\ node.internal_id = id /\ node.message = message
      /\ empty.internal_id = id /\ empty.message = NoMessage
      /\ [empty EXCEPT !.message = message] = node
      /\ message = NoMessage => empty = node
  BY <1>5
<1> HIDE DEF node, empty, tree, id
<1>7. /\ StoreOK(t2)
      /\ TreeOK(tree(empty), t2)
      /\ GaugesOf(t2) = [subscriptions |-> gauges.subscriptions,
                         retained |-> (gauges.retained + 0) - held(topics[f].message)]
  <2> DEFINE before == tree(GetTopic(f))
  <2>1. /\ TreeOK(before, t1)
        /\ before[f].internal_id = id
        /\ before[f].message = topics[f].message
        /\ [before[f] EXCEPT !.message = NoMessage] = empty
    BY <1>1 DEF empty
  <2>2. [before EXCEPT ![f] = empty] = tree(empty)
    BY <1>2
  <2> HIDE DEF before, t1
  <2>3. LET v == SetRetained(t1, before[f].internal_id, NoMessage) IN
        /\ StoreOK(v)
        /\ TreeOK([before EXCEPT ![f] = [before[f] EXCEPT !.message = NoMessage]], v)
        /\ GaugesOf(v) =
             [subscriptions |-> GaugesOf(t1).subscriptions,
              retained |-> (GaugesOf(t1).retained + held(NoMessage)) - held(before[f].message)]
    BY <1>1, <2>1, SetRetainedOK
  <2> QED  BY <1>1, <2>1, <2>2, <2>3
<1> HIDE DEF t1, t2
<1>8. /\ StoreOK(t3)
      /\ TreeOK(tree(node), t3)
      /\ GaugesOf(t3) = [gauges EXCEPT !.retained = count]
  <2>0. /\ gauges.retained \in Nat /\ held(topics[f].message) \in {0, 1}
        /\ gauges = [subscriptions |-> gauges.subscriptions, retained |-> gauges.retained]
    <3>1. IsFiniteSet(RetainedRows(tables))
      BY <1>0, FS_Subset DEF StoreOK, RetainedRows
    <3> QED  BY <3>1, <1>0, FS_CardinalityType DEF GaugesOf
  <2>1. CASE message = NoMessage
    <3>1. t3 = t2 /\ held(message) = 0 /\ empty = node
      BY <2>1, <1>6
    <3> HIDE DEF t3
    <3> QED  BY <2>0, <3>1, <1>7
  <2>2. CASE message # NoMessage
    <3> DEFINE before == tree(empty)
    <3>1. /\ TreeOK(before, t2)
          /\ before[f].internal_id = id
          /\ before[f].message = NoMessage
          /\ [before[f] EXCEPT !.message = message] = node
      BY <1>2, <1>6, <1>7
    <3>2. [before EXCEPT ![f] = node] = tree(node)
      BY <1>2
    <3>3. t3 = SetRetained(t2, id, message)
      BY <2>2
    <3> HIDE DEF before, t3
    <3>4. LET v == SetRetained(t2, before[f].internal_id, message) IN
          /\ StoreOK(v)
          /\ TreeOK([before EXCEPT ![f] = [before[f] EXCEPT !.message = message]], v)
          /\ GaugesOf(v) =
               [subscriptions |-> GaugesOf(t2).subscriptions,
                retained |-> (GaugesOf(t2).retained + held(message)) - held(before[f].message)]
      BY <1>1, <1>7, <3>1, SetRetainedOK
    <3>5. /\ StoreOK(t3)
          /\ TreeOK(tree(node), t3)
          /\ GaugesOf(t3) = [subscriptions |-> GaugesOf(t2).subscriptions,
                             retained |-> (GaugesOf(t2).retained + 1) - 0]
      BY <2>2, <3>1, <3>2, <3>3, <3>4
    <3>6. GaugesOf(t2) = [subscriptions |-> gauges.subscriptions,
                          retained |-> gauges.retained - held(topics[f].message)]
      BY <2>0, <1>7
    <3>7. GaugesOf(t3) = [subscriptions |-> gauges.subscriptions,
                          retained |-> ((gauges.retained - held(topics[f].message)) + 1) - 0]
      BY <3>5, <3>6
    <3>8. ((gauges.retained - held(topics[f].message)) + 1) - 0 = count
      BY <2>0, <2>2
    <3> HIDE DEF held, count
    <3> QED  BY <2>0, <3>5, <3>7, <3>8
  <2> QED  BY <2>1, <2>2
<1> HIDE DEF t3
<1>9. CASE Stop(tables)  BY <1>0, <1>9, StopOK
<1>10. CASE Stop(t1)  BY <1>1, <1>10, StopOK
<1>11. CASE Stop(t2)  BY <1>7, <1>11, StopOK
<1>12. CASE Continue(tree(IF deletes THEN [node EXCEPT !.internal_id = None] ELSE node),
                     [gauges EXCEPT !.retained = count],
                     IF deletes THEN persist_delete_topic(t3, {id}) ELSE t3)
  <2>1. CASE deletes
    <3> DEFINE before == tree(node)
               u == persist_delete_topic(t3, {id})
    <3>1. /\ TreeOK(before, t3)
          /\ before[f] = node
          /\ before[f].internal_id = id
          /\ before[f].clients = {}
          /\ before[f].message = NoMessage
      BY <2>1, <1>2, <1>6, <1>8
    <3>2. [before EXCEPT ![f] = [node EXCEPT !.internal_id = None]]
            = tree([node EXCEPT !.internal_id = None])
      BY <1>2
    <3> HIDE DEF before
    <3>3. LET v == persist_delete_topic(t3, {before[f].internal_id}) IN
          /\ StoreOK(v)
          /\ TreeOK([before EXCEPT ![f] = [before[f] EXCEPT !.internal_id = None]], v)
          /\ GaugesOf(v) = GaugesOf(t3)
      BY <1>1, <1>8, <3>1, DeleteTopicOK
    <3>4. /\ StoreOK(u)
          /\ TreeOK(tree([node EXCEPT !.internal_id = None]), u)
          /\ GaugesOf(u) = GaugesOf(t3)
      BY <3>1, <3>2, <3>3
    <3>5. Continue(tree([node EXCEPT !.internal_id = None]),
                   [gauges EXCEPT !.retained = count], u)
      BY <2>1, <1>12
    <3> HIDE DEF u
    <3> QED  BY <3>4, <3>5, <1>8, ContinueOK
  <2>2. CASE ~deletes
    <3>1. Continue(tree(node), [gauges EXCEPT !.retained = count], t3)
      BY <2>2, <1>12
    <3> QED  BY <3>1, <1>8, ContinueOK
  <2> QED  BY <2>1, <2>2
<1> QED  BY <1>3, <1>9, <1>10, <1>11, <1>12

\* A session's new generation is neither in the tree nor in its rows.
LEMMA SessionCleanedOK ==
  ASSUME IndInv, NEW s \in Sessions, SessionCleaned(s)
  PROVE  IndInv'
<1>0. /\ StoreOK(tables)
      /\ tables.generation[s] < MaxGeneration
      /\ tables' = [tables EXCEPT !.generation[s] = @ + 1]
      /\ UNCHANGED <<running, topics, gauges>>
  BY DEF IndInv, SessionCleaned
<1>1. /\ tables.topics \in SUBSET TopicRow
      /\ tables.subscriptions \in SUBSET SubscriptionRow
      /\ tables.generation \in [Sessions -> 0 .. MaxGeneration]
      /\ tables = [topics |-> tables.topics, subscriptions |-> tables.subscriptions,
                   generation |-> tables.generation]
  BY <1>0, TablesFields DEF StoreOK
<1> DEFINE later == [tables.generation EXCEPT ![s] = @ + 1]
<1>2. later \in [Sessions -> 0 .. MaxGeneration]
  BY <1>0, <1>1, SubscriptionsConstants
<1> HIDE DEF later
<1>3. tables' = [topics |-> tables.topics, subscriptions |-> tables.subscriptions,
                 generation |-> later]
  BY <1>0, <1>1 DEF later
<1>4. /\ tables'.topics = tables.topics
      /\ tables'.subscriptions = tables.subscriptions
      /\ tables' \in TablesType
  BY <1>1, <1>2, <1>3 DEF TablesType
<1>5. StoreOK(tables)'
  BY <1>0, <1>4 DEF StoreOK, WellFormed
<1>6. TreeOK(topics, tables) => TreeOK(topics, tables)'
  BY <1>0, <1>4 DEF TreeOK, NodeOK, OneEntry
<1>7. GaugesOf(tables)' = GaugesOf(tables)
  BY <1>4 DEF GaugesOf, RetainedRows
<1> QED  BY <1>0, <1>5, <1>6, <1>7 DEF IndInv

LEMMA InitOK ==
  ASSUME Init
  PROVE  IndInv
<1>1. /\ tables = [topics |-> {}, subscriptions |-> {}, generation |-> [s \in Sessions |-> 0]]
      /\ running = FALSE /\ topics = NewTree /\ gauges = NoGauges
  BY DEF Init
<1>2. [s \in Sessions |-> 0] \in [Sessions -> 0 .. MaxGeneration]
  BY SubscriptionsConstants
<1>3. tables \in TablesType
  BY <1>1, <1>2 DEF TablesType
<1>4. StoreOK(tables)
  BY <1>1, <1>3, FS_EmptySet DEF StoreOK, WellFormed
<1> QED  BY <1>1, <1>4 DEF IndInv

LEMMA NextOK ==
  ASSUME IndInv, [Next]_vars
  PROVE  IndInv'
<1>1. CASE Load
  <2>1. StoreOK(tables) /\ ~running
    BY <1>1 DEF IndInv, Load
  <2>2. TreeOK([f \in Paths |-> IF \E r \in tables.topics : r.topic = f
                                THEN LoadTopic(f) ELSE NewTopic], tables)
    BY <2>1, LoadOK
  <2>3. GaugesOf(tables) =
          [subscriptions |-> Cardinality(tables.subscriptions),
           retained |-> Cardinality({r \in tables.topics : r.retained # NoMessage})]
    BY DEF GaugesOf, RetainedRows
  <2> QED  BY <1>1, <2>1, <2>2, <2>3, ContinueOK DEF Load
<1>2. ASSUME NEW s \in Sessions, SessionCleaned(s)  PROVE IndInv'
  BY <1>2, SessionCleanedOK
<1>3. ASSUME NEW s \in Sessions, NEW f \in Paths, NEW qos \in Qos,
             NEW generation \in 0 .. tables.generation[s],
             SubscribeMessage(s, generation, f, qos)
      PROVE IndInv'
  BY <1>3, SubscribeMessageOK
<1>4. ASSUME NEW s \in Sessions, NEW filters \in SUBSET Paths, UnsubscribeMessage(s, filters)
      PROVE IndInv'
  BY <1>4, UnsubscribeMessageOK
<1>5. ASSUME NEW f \in TopicNames, NEW message \in Payloads \cup {NoMessage},
             Retain(f, message)
      PROVE IndInv'
  BY <1>5, RetainOK, SubscriptionsConstants
<1>6. CASE Crash
  <2>1. StoreOK(tables)
    BY DEF IndInv
  <2> QED  BY <1>6, <2>1, StopOK DEF Crash
<1>7. CASE UNCHANGED vars
  BY <1>7 DEF vars, IndInv, StoreOK, WellFormed, TreeOK, NodeOK, OneEntry, GaugesOf, RetainedRows
<1> QED  BY <1>1, <1>2, <1>3, <1>4, <1>5, <1>6, <1>7 DEF Next

-----------------------------------------------------------------------------
(* The theorems. *)

\* Whatever is subscribed, unsubscribed, retained and deleted, and wherever the
\* router stops, the tables are well formed and a running router's tree and
\* gauges are theirs.
THEOREM Invariance == Spec => []IndInv
<1>1. Init => IndInv
  BY InitOK
<1>2. IndInv /\ [Next]_vars => IndInv'
  BY NextOK
<1> QED  BY <1>1, <1>2, PTL DEF Spec

\* Type correctness.
THEOREM TypeCorrect == Spec => []TypeOK
<1>1. IndInv => TypeOK
  <2> SUFFICES ASSUME IndInv  PROVE TypeOK
    OBVIOUS
  <2>1. tables \in TablesType /\ running \in BOOLEAN
    BY DEF IndInv, StoreOK
  <2>2. topics \in [Paths -> TopicType]
    <3>1. NewTopic \in TopicType
      BY SubscriptionsConstants DEF NewTopic, TopicType, None
    <3>2. NewTree \in [Paths -> TopicType]
      BY <3>1 DEF NewTree
    <3> QED  BY <3>2 DEF IndInv, TreeOK
  <2>3. gauges \in [subscriptions : Nat, retained : Nat]
    <3>1. IsFiniteSet(tables.subscriptions) /\ IsFiniteSet(RetainedRows(tables))
      BY FS_Subset DEF IndInv, StoreOK, RetainedRows
    <3>2. GaugesOf(tables) \in [subscriptions : Nat, retained : Nat]
      BY <3>1, FS_CardinalityType DEF GaugesOf
    <3> QED  BY <3>2 DEF IndInv, NoGauges
  <2> QED  BY <2>1, <2>2, <2>3 DEF TypeOK
<1> QED  BY <1>1, Invariance, PTL

\* The tables are well formed after every step: a row id that is used again, a
\* message that stopped half-way and a crash never leave two rows for a topic, two
\* subscriptions of a session, or a subscription for a later topic to inherit.
THEOREM TablesStayWellFormed == Spec => []RowsWellFormed
<1>1. IndInv => RowsWellFormed
  BY DEF IndInv, StoreOK, RowsWellFormed
<1> QED  BY <1>1, Invariance, PTL

\* A node with a client or a retained message has the id of its row: the unwrap()
\* in unsubscribe and retain is safe.
THEOREM UnwrapIsSafe == Spec => []HeldHasId
<1>1. IndInv => HeldHasId
  <2> SUFFICES ASSUME IndInv, NEW f \in Paths,
                      topics[f].clients # {} \/ topics[f].message # NoMessage
               PROVE  topics[f].internal_id # None
    BY DEF HeldHasId
  <2>1. running /\ StoreOK(tables) /\ TreeOK(topics, tables)
    BY DEF IndInv, NewTree, NewTopic
  <2>2. NodeOK(f, topics[f], tables)
    BY <2>1 DEF TreeOK
  <2>3. PICK r \in tables.topics : r.topic = f
    BY <2>2, RowOfNode
  <2>4. topics[f].internal_id = r.id
    BY <2>1, <2>2, <2>3, NodeOfRow
  <2>5. r.id # 0
    BY <2>1, TablesFields, TopicRowFields DEF StoreOK
  <2> QED  BY <2>4, <2>5 DEF None
<1> QED  BY <1>1, Invariance, PTL

\* A router that is restarted finds the tree it had: ids, retained messages,
\* subscriptions and their QoS.
THEOREM NothingLostAtRestart == Spec => []RestartKeepsTree
<1>1. IndInv => RestartKeepsTree
  <2> SUFFICES ASSUME IndInv, running, NEW f \in Paths
               PROVE  IF \E r \in tables.topics : r.topic = f
                      THEN /\ topics[f].internal_id = LoadTopic(f).internal_id
                           /\ topics[f].message = LoadTopic(f).message
                           /\ {<<e.session, e.qos>> : e \in topics[f].clients}
                                = {<<e.session, e.qos>> : e \in LoadTopic(f).clients}
                      ELSE topics[f] = NewTopic
    BY DEF RestartKeepsTree
  <2>1. /\ StoreOK(tables) /\ topics[f] \in TopicType
        /\ NodeOK(f, topics[f], tables)
    BY DEF IndInv, TreeOK
  <2>2. CASE ~ \E r \in tables.topics : r.topic = f
    BY <2>1, <2>2 DEF NodeOK
  <2>3. CASE \E r \in tables.topics : r.topic = f
    <3>1. PICK r \in tables.topics : r.topic = f
      BY <2>3
    <3> DEFINE held == topics[f].clients
               loaded == LoadTopic(f).clients
               stored(s, q) == [session |-> s, topic_id |-> r.id, qos |-> q]
                                  \in tables.subscriptions
    <3>2. /\ LoadTopic(f) \in TopicType
          /\ LoadTopic(f).internal_id = r.id
          /\ LoadTopic(f).message = r.retained
          /\ NodeOK(f, LoadTopic(f), tables)
      BY <2>1, <3>1, LoadTopicOK
    <3>3. /\ topics[f].internal_id = r.id
          /\ topics[f].message = r.retained
          /\ \A s \in Sessions, q \in Qos :
                (\E e \in held : e.session = s /\ e.qos = q) <=> stored(s, q)
      BY <2>1, <3>1, NodeOfRow
    <3>4. \A s \in Sessions, q \in Qos :
             (\E e \in loaded : e.session = s /\ e.qos = q) <=> stored(s, q)
      BY <2>1, <3>1, <3>2, NodeOfRow
    <3>5. \A e \in held \cup loaded : e.session \in Sessions /\ e.qos \in Qos
      BY <2>1, <3>2, NodeFields, EntryFields
    <3> HIDE DEF held, loaded, stored
    <3>6. /\ \A e \in held : \E x \in loaded : x.session = e.session /\ x.qos = e.qos
          /\ \A e \in loaded : \E x \in held : x.session = e.session /\ x.qos = e.qos
      BY <3>3, <3>4, <3>5
    <3>7. {<<e.session, e.qos>> : e \in held} = {<<e.session, e.qos>> : e \in loaded}
      BY <3>6
    <3> QED  BY <2>3, <3>2, <3>3, <3>7 DEF held, loaded
  <2> QED  BY <2>2, <2>3
<1> QED  BY <1>1, Invariance, PTL

\* A running router's tree holds as many subscriptions as the table has rows.
LEMMA SubscriptionsCounted ==
  ASSUME StoreOK(tables), TreeOK(topics, tables)
  PROVE  Cardinality({p \in Paths \X Entry : p[2] \in topics[p[1]].clients})
           = Cardinality(tables.subscriptions)
<1> DEFINE pairs == {p \in Paths \X Entry : p[2] \in topics[p[1]].clients}
           names(r, p) == /\ \E x \in tables.topics : x.id = r.topic_id /\ x.topic = p[1]
                          /\ p[2].session = r.session /\ p[2].qos = r.qos
           m == [r \in tables.subscriptions |-> CHOOSE p \in pairs : names(r, p)]
<1>0. /\ tables \in TablesType /\ WellFormed(tables) /\ IsFiniteSet(tables.subscriptions)
      /\ topics \in [Paths -> TopicType]
      /\ \A f \in Paths : OneEntry(topics[f]) /\ NodeOK(f, topics[f], tables)
  BY DEF StoreOK, TreeOK
<1>1. /\ tables.topics \in SUBSET TopicRow
      /\ tables.subscriptions \in SUBSET SubscriptionRow
  BY <1>0, TablesFields
<1>2. \A f \in Paths : topics[f].clients \in SUBSET Entry
  BY <1>0, NodeFields
<1>3. ASSUME NEW x \in tables.topics
      PROVE  /\ x.topic \in Paths
             /\ \A s \in Sessions, q \in Qos :
                  (\E e \in topics[x.topic].clients : e.session = s /\ e.qos = q)
                     <=> [session |-> s, topic_id |-> x.id, qos |-> q] \in tables.subscriptions
  <2>1. x.topic \in Paths
    BY <1>1, TopicRowFields
  <2>2. NodeOK(x.topic, topics[x.topic], tables)
    BY <1>0, <2>1
  <2> QED  BY <2>1, <2>2, NodeOfRow
<1>4. ASSUME NEW r \in tables.subscriptions
      PROVE  \E p \in pairs : names(r, p)
  <2>1. PICK x \in tables.topics : x.id = r.topic_id
    BY TopicOfSubscription
  <2>2. /\ r.session \in Sessions /\ r.qos \in Qos
        /\ r = [session |-> r.session, topic_id |-> x.id, qos |-> r.qos]
    BY <2>1, <1>1, SubscriptionRowFields
  <2>3. PICK e \in topics[x.topic].clients : e.session = r.session /\ e.qos = r.qos
    BY <2>2, <1>3
  <2>4. <<x.topic, e>> \in pairs
    BY <2>3, <1>2, <1>3
  <2>5. names(r, <<x.topic, e>>)
    BY <2>1, <2>3
  <2> QED  BY <2>4, <2>5
<1>5. \A r \in tables.subscriptions : m[r] \in pairs /\ names(r, m[r])
  <2> HIDE DEF pairs, names
  <2> QED  BY <1>4
<1> HIDE DEF m
<1>6. m \in [tables.subscriptions -> pairs]
  BY <1>5 DEF m
<1>7. ASSUME NEW r1 \in tables.subscriptions, NEW r2 \in tables.subscriptions, m[r1] = m[r2]
      PROVE  r1 = r2
  <2>1. names(r1, m[r1]) /\ names(r2, m[r1])
    BY <1>5, <1>7
  <2>2. r1.session = r2.session /\ r1.topic_id = r2.topic_id
    BY <2>1, <1>0 DEF WellFormed
  <2> QED  BY <2>2, <1>0 DEF WellFormed
<1>8. ASSUME NEW p \in pairs
      PROVE  \E r \in tables.subscriptions : m[r] = p
  <2> DEFINE f == p[1]
             e == p[2]
  <2>1. f \in Paths /\ e \in Entry /\ e \in topics[f].clients /\ p = <<f, e>>
    OBVIOUS
  <2> HIDE DEF f, e
  <2>2. PICK x \in tables.topics : x.topic = f
    BY <2>1, <1>0, RowOfNode
  <2>3. e.session \in Sessions /\ e.qos \in Qos
    BY <2>1, EntryFields
  <2>4. PICK r \in tables.subscriptions :
              r = [session |-> e.session, topic_id |-> x.id, qos |-> e.qos]
    BY <2>1, <2>2, <2>3, <1>3
  <2>5. r.session = e.session /\ r.topic_id = x.id /\ r.qos = e.qos
    BY <2>4
  <2>6. m[r] \in pairs /\ names(r, m[r])
    BY <1>5
  <2>7. m[r][1] = f
    BY <2>2, <2>5, <2>6, <1>0 DEF WellFormed
  <2>8. m[r][2] \in topics[f].clients /\ m[r][2].session = e.session /\ m[r] = <<m[r][1], m[r][2]>>
    BY <2>5, <2>6, <2>7
  <2>9. m[r][2] = e
    BY <2>1, <2>8, <1>0 DEF OneEntry
  <2> QED  BY <2>1, <2>7, <2>8, <2>9
<1> HIDE DEF pairs
<1>9. Cardinality(pairs) = Cardinality(tables.subscriptions)
  BY <1>0, <1>6, <1>7, <1>8, SameSize
<1> QED  BY <1>9 DEF pairs

\* It holds as many retained messages as there are rows with one.
LEMMA RetainedCounted ==
  ASSUME StoreOK(tables), TreeOK(topics, tables)
  PROVE  Cardinality({f \in Paths : topics[f].message # NoMessage})
           = Cardinality(RetainedRows(tables))
<1> DEFINE held == {f \in Paths : topics[f].message # NoMessage}
           rows == RetainedRows(tables)
           m == [r \in rows |-> r.topic]
<1>0. /\ WellFormed(tables) /\ IsFiniteSet(rows)
      /\ tables.topics \in SUBSET TopicRow
      /\ \A f \in Paths : NodeOK(f, topics[f], tables)
  BY FS_Subset, TablesFields DEF StoreOK, TreeOK, RetainedRows
<1>1. \A r \in tables.topics : r.topic \in Paths /\ topics[r.topic].message = r.retained
  BY <1>0, TopicRowFields, NodeOfRow
<1>2. m \in [rows -> held]
  BY <1>1 DEF RetainedRows
<1>3. \A r1, r2 \in rows : m[r1] = m[r2] => r1 = r2
  BY <1>0 DEF RetainedRows, WellFormed
<1>4. ASSUME NEW f \in held
      PROVE  \E r \in rows : m[r] = f
  <2>1. PICK r \in tables.topics : r.topic = f
    BY <1>0, RowOfNode
  <2>2. r \in rows
    BY <1>1, <2>1 DEF RetainedRows
  <2> QED  BY <2>1, <2>2
<1> HIDE DEF held, m
<1> QED  BY <1>0, <1>2, <1>3, <1>4, SameSize DEF held

\* The gauges a running router reports are the numbers of subscriptions and of
\* retained messages in its tree, whatever failed or was repeated before.
THEOREM GaugesAreRight == Spec => []GaugesCount
<1>1. IndInv => GaugesCount
  <2> SUFFICES ASSUME IndInv, running
               PROVE  /\ gauges.subscriptions =
                           Cardinality({p \in Paths \X Entry : p[2] \in topics[p[1]].clients})
                      /\ gauges.retained =
                           Cardinality({f \in Paths : topics[f].message # NoMessage})
    BY DEF GaugesCount
  <2>1. StoreOK(tables) /\ TreeOK(topics, tables) /\ gauges = GaugesOf(tables)
    BY DEF IndInv
  <2>2. /\ gauges.subscriptions = Cardinality(tables.subscriptions)
        /\ gauges.retained = Cardinality(RetainedRows(tables))
    BY <2>1 DEF GaugesOf
  <2> QED  BY <2>1, <2>2, SubscriptionsCounted, RetainedCounted
<1> QED  BY <1>1, Invariance, PTL

\* A publish reaches exactly the sessions with a stored subscription that matches
\* its topic: the search finds what the tree holds, and the tree holds what the
\* tables do, whatever was reused, repeated or cut short before.
THEOREM PublishReachesStored == Spec => []StoredMeansRouted
<1>1. IndInv => StoredMeansRouted
  <2> SUFFICES ASSUME IndInv, running, NEW name \in TopicNames
               PROVE  {e.session : e \in get_subscribed([f \in Paths |-> topics[f].clients], name)}
                        = {r.session : r \in {x \in tables.subscriptions :
                              \E t \in tables.topics :
                                 t.id = x.topic_id /\ FilterMatches(t.topic, name)}}
    BY DEF StoredMeansRouted
  <2> DEFINE tree == [f \in Paths |-> topics[f].clients]
             found == get_subscribed(tree, name)
             matching == UNION {tree[f] : f \in {g \in DOMAIN tree : FilterMatches(g, name)}}
             stored == {x \in tables.subscriptions :
                          \E t \in tables.topics :
                             t.id = x.topic_id /\ FilterMatches(t.topic, name)}
  <2>0. /\ StoreOK(tables) /\ TreeOK(topics, tables)
        /\ tables.topics \in SUBSET TopicRow
        /\ tables.subscriptions \in SUBSET SubscriptionRow
    BY TablesFields DEF IndInv, StoreOK
  <2>1. ReachesSubscribers(tree, name)
    <3>1. name \in Seq(Level) /\ DOMAIN tree \subseteq Seq(Level) \ {<<>>}
      BY SubscriptionsConstants
    <3>2. \A p \in DOMAIN tree : \A e, f \in tree[p] :
             (e.session = f.session /\ e.generation = f.generation) => e = f
      BY <2>0 DEF TreeOK, OneEntry
    <3> HIDE DEF tree
    <3> QED  BY <3>1, <3>2, SearchIsExact
  <2>2. /\ \A e \in found : e \in matching
        /\ \A e \in matching : \E x \in found : x.session = e.session
    <3> DEFINE id(e) == <<e.session, e.generation>>
    <3>1. found \subseteq matching /\ {id(e) : e \in found} = {id(e) : e \in matching}
      BY <2>1 DEF ReachesSubscribers
    <3> HIDE DEF found, matching
    <3>2. ASSUME NEW e \in matching
          PROVE  \E x \in found : x.session = e.session
      <4>1. id(e) \in {id(x) : x \in found}
        BY <3>1
      <4>2. PICK x \in found : id(x) = id(e)
        BY <4>1
      <4> QED  BY <4>2
    <3> QED  BY <3>1, <3>2
  <2>3. ASSUME NEW e \in matching
        PROVE  \E r \in stored : r.session = e.session
    <3>1. PICK f \in Paths : FilterMatches(f, name) /\ e \in topics[f].clients
      OBVIOUS
    <3>2. NodeOK(f, topics[f], tables) /\ e \in Entry
      BY <2>0, <3>1, NodeFields DEF TreeOK
    <3>3. e.session \in Sessions /\ e.qos \in Qos
      BY <3>2, EntryFields
    <3>4. PICK t \in tables.topics : t.topic = f
      BY <3>1, <3>2, RowOfNode
    <3>5. [session |-> e.session, topic_id |-> t.id, qos |-> e.qos] \in tables.subscriptions
      BY <2>0, <3>1, <3>2, <3>3, <3>4, NodeOfRow
    <3> QED  BY <3>1, <3>4, <3>5
  <2>4. ASSUME NEW r \in stored
        PROVE  \E e \in matching : e.session = r.session
    <3>1. PICK t \in tables.topics : t.id = r.topic_id /\ FilterMatches(t.topic, name)
      OBVIOUS
    <3>2. t.topic \in Paths /\ NodeOK(t.topic, topics[t.topic], tables)
      BY <2>0, TopicRowFields DEF TreeOK
    <3>3. /\ r.session \in Sessions /\ r.qos \in Qos
          /\ r = [session |-> r.session, topic_id |-> t.id, qos |-> r.qos]
      BY <2>0, <3>1, SubscriptionRowFields
    <3>4. [session |-> r.session, topic_id |-> t.id, qos |-> r.qos] \in tables.subscriptions
      BY <3>3
    <3>5. PICK e \in topics[t.topic].clients : e.session = r.session /\ e.qos = r.qos
      BY <2>0, <3>2, <3>3, <3>4, NodeOfRow
    <3> QED  BY <3>1, <3>2, <3>5
  <2> HIDE DEF found, matching, stored
  <2>5. {e.session : e \in found} = {r.session : r \in stored}
    BY <2>2, <2>3, <2>4
  <2> QED  BY <2>5 DEF found, stored
<1> QED  BY <1>1, Invariance, PTL

=============================================================================
