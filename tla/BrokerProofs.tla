----------------------------- MODULE BrokerProofs -----------------------------
(***************************************************************************)
(* Proofs about Broker: one task per session, no message of an earlier     *)
(* clean session, and subscriptions that stay live once granted.           *)
(***************************************************************************)
EXTENDS Broker, TLAPS

-----------------------------------------------------------------------------
(* Channels. *)

LEMMA RangeEmpty == Range(<<>>) = {}
  BY DEF Range

LEMMA RangeOfAppend ==
  ASSUME NEW S, NEW s \in Seq(S), NEW e \in S
  PROVE  /\ Append(s, e) \in Seq(S) /\ Range(Append(s, e)) = Range(s) \cup {e}
         /\ Len(Append(s, e)) = Len(s) + 1
         /\ \A i \in DOMAIN s : Append(s, e)[i] = s[i]
         /\ Append(s, e)[Len(s) + 1] = e
         /\ DOMAIN s = 1 .. Len(s) /\ Len(s) \in Nat /\ DOMAIN Append(s, e) = 1 .. (Len(s) + 1)
<1>1. /\ Append(s, e) \in Seq(S) /\ Len(Append(s, e)) = Len(s) + 1 /\ Len(s) \in Nat
      /\ DOMAIN s = 1 .. Len(s) /\ DOMAIN Append(s, e) = 1 .. (Len(s) + 1)
      /\ \A i \in 1 .. Len(s) : Append(s, e)[i] = s[i]
      /\ Append(s, e)[Len(s) + 1] = e
  OBVIOUS
<1> DEFINE a == Append(s, e)
<1> HIDE DEF a
<1>2. \A i \in DOMAIN a : i \in DOMAIN s \/ i = Len(s) + 1
  BY <1>1 DEF a
<1>3. \A i \in DOMAIN s : i \in DOMAIN a
  BY <1>1 DEF a
<1>4. Len(s) + 1 \in DOMAIN a
  BY <1>1 DEF a
<1>5. Range(a) = Range(s) \cup {e}
  BY <1>1, <1>2, <1>3, <1>4 DEF Range, a
<1> QED  BY <1>1, <1>5 DEF a

LEMMA RangeOfTail ==
  ASSUME NEW S, NEW s \in Seq(S), s # <<>>
  PROVE  /\ Tail(s) \in Seq(S) /\ Head(s) \in S /\ Head(s) = s[1]
         /\ Range(s) = Range(Tail(s)) \cup {Head(s)}
         /\ DOMAIN s = 1 .. Len(s) /\ Len(s) \in Nat \ {0} /\ DOMAIN Tail(s) = 1 .. (Len(s) - 1)
         /\ \A i \in DOMAIN Tail(s) : Tail(s)[i] = s[i + 1]
<1>1. /\ Tail(s) \in Seq(S) /\ Head(s) \in S /\ Head(s) = s[1]
      /\ DOMAIN s = 1 .. Len(s) /\ Len(s) \in Nat \ {0} /\ DOMAIN Tail(s) = 1 .. (Len(s) - 1)
      /\ \A i \in 1 .. (Len(s) - 1) : Tail(s)[i] = s[i + 1]
  OBVIOUS
<1> DEFINE t == Tail(s)
<1> HIDE DEF t
<1>2. \A i \in DOMAIN s : i = 1 \/ (i - 1 \in DOMAIN t /\ s[i] = t[i - 1])
  BY <1>1 DEF t
<1>3. \A i \in DOMAIN t : i + 1 \in DOMAIN s /\ t[i] = s[i + 1]
  BY <1>1 DEF t
<1>4. 1 \in DOMAIN s
  BY <1>1
<1>5. Range(s) = Range(t) \cup {s[1]}
  <2>1. ASSUME NEW x \in Range(s) PROVE x \in Range(t) \cup {s[1]}
    BY <1>2 DEF Range
  <2>2. ASSUME NEW x \in Range(t) PROVE x \in Range(s)
    BY <1>3 DEF Range
  <2>3. s[1] \in Range(s)
    BY <1>4 DEF Range
  <2> QED  BY <2>1, <2>2, <2>3
<1> QED  BY <1>1, <1>5 DEF t

LEMMA InRange ==
  ASSUME NEW S, NEW s \in Seq(S)
  PROVE  /\ Range(s) \subseteq S
         /\ \A m \in Range(s) : \E i \in DOMAIN s : s[i] = m
         /\ \A i \in DOMAIN s : s[i] \in Range(s) /\ s[i] \in S
  BY DEF Range

-----------------------------------------------------------------------------
(* Records. *)

LEMMA NewSessionType ==
  ASSUME NEW n \in Clients, NEW r \in Nat
  PROVE  /\ NewSession(n, r) \in SessionType
         /\ NewSession(n, r).name = n /\ NewSession(n, r).phase = "init"
         /\ NewSession(n, r).queue = <<>> /\ NewSession(n, r).reply = "none"
  BY DEF NewSession, SessionType, None, NoMsg

LEMMA EndedType ==
  ASSUME NEW s \in SessionType
  PROVE  /\ Ended(s) \in SessionType /\ Ended(s).name = s.name /\ Ended(s).phase = "ended"
         /\ Ended(s).queue = s.queue /\ Ended(s).reply = "none"
  BY DEF Ended, SessionType, None, NoMsg

LEMMA GoneType ==
  ASSUME NEW s \in SessionType
  PROVE  /\ Gone(s) \in SessionType /\ Gone(s).name = s.name /\ Gone(s).phase = "gone"
         /\ Gone(s).queue = <<>> /\ Gone(s).reply = "none"
<1> DEFINE n == NewSession(s.name, None)
<1>1. n \in SessionType /\ n.name = s.name /\ n.queue = <<>> /\ n.reply = "none"
  BY NewSessionType DEF SessionType, None
<1> HIDE DEF n
<1>2. Gone(s) = [n EXCEPT !.phase = "gone"]
  BY DEF Gone, n
<1> QED  BY <1>1, <1>2 DEF SessionType

LEMMA TookType ==
  ASSUME sess \in Seq(SessionType), NEW i \in DOMAIN sess, sess[i].queue # <<>>
  PROVE  /\ Took(i) \in SessionType /\ Took(i).name = sess[i].name /\ Took(i).phase = sess[i].phase
         /\ Took(i).generation = sess[i].generation /\ Took(i).subs = sess[i].subs
         /\ Took(i).pend = sess[i].pend /\ Took(i).reply = sess[i].reply
         /\ Took(i).queue = Tail(sess[i].queue) /\ Took(i).client = sess[i].client
         /\ Head(sess[i].queue) \in SessionMsg
         /\ Range(sess[i].queue) = Range(Tail(sess[i].queue)) \cup {Head(sess[i].queue)}
<1>1. sess[i] \in SessionType
  OBVIOUS
<1>2. sess[i].queue \in Seq(SessionMsg)
  BY <1>1 DEF SessionType
<1>3. /\ Tail(sess[i].queue) \in Seq(SessionMsg) /\ Head(sess[i].queue) \in SessionMsg
      /\ Range(sess[i].queue) = Range(Tail(sess[i].queue)) \cup {Head(sess[i].queue)}
  BY <1>2, RangeOfTail
<1> DEFINE t == Tail(sess[i].queue)
<1> HIDE DEF t
<1>4. Took(i) = [sess[i] EXCEPT !.queue = t]
  BY DEF Took, t
<1>5. t \in Seq(SessionMsg)
  BY <1>3 DEF t
<1> QED  BY <1>1, <1>3, <1>4, <1>5 DEF SessionType, t

LEMMA SetSession ==
  ASSUME sess \in Seq(SessionType), NEW i \in DOMAIN sess, NEW s \in SessionType,
         sess' = [sess EXCEPT ![i] = s]
  PROVE  /\ sess' \in Seq(SessionType) /\ DOMAIN sess' = DOMAIN sess /\ sess'[i] = s
         /\ \A j \in DOMAIN sess : j # i => sess'[j] = sess[j]
  OBVIOUS

LEMMA CloseType ==
  ASSUME NEW cs \in [Conns -> ConnType], NEW S
  PROVE  Close(cs, S) \in [Conns -> ConnType]
  BY DEF Close, ConnType, NewConn, None

LEMMA TellType ==
  ASSUME NEW cs \in [Conns -> ConnType], NEW S
  PROVE  Tell(cs, S) \in [Conns -> ConnType]
<1>1. ASSUME NEW c \in Conns PROVE [cs[c] EXCEPT !.told = TRUE] \in ConnType
  BY DEF ConnType
<1> QED  BY <1>1 DEF Tell

LEMMA AcceptType ==
  ASSUME NEW cs \in [Conns -> ConnType], NEW c
  PROVE  Accept(cs, c) \in [Conns -> ConnType]
<1>1. ASSUME c \in Conns PROVE [cs[c] EXCEPT !.st = "accepted"] \in ConnType
  BY <1>1 DEF ConnType
<1>2. ASSUME c \in Conns PROVE [cs EXCEPT ![c].st = "accepted"] \in [Conns -> ConnType]
  BY <1>1, <1>2
<1>3. ASSUME c \notin Conns PROVE [cs EXCEPT ![c].st = "accepted"] = cs
  BY <1>3
<1> QED  BY <1>2, <1>3 DEF Accept

-----------------------------------------------------------------------------
(* The invariant without the types. *)

Core ==
  /\ Registered /\ Started /\ HandlersOK
  /\ GenerationsOK /\ FiltersKnown /\ RowsOK /\ TreeOK /\ TagsOK
  /\ SubscriberWaits /\ SubscribeIsLast /\ AnswerHolds /\ GrantHolds

GhostType ==
  [faults : Nat, packets : Nat, granted : SUBSET (Clients \X Filters), revived : SUBSET Clients]

\* The types one by one.
LEMMA Types ==
  ASSUME TypeOK
  PROVE  /\ broker.step \in {"boot", "idle", "answer"} /\ broker.router_tx \in Nat
         /\ broker.requests \in Seq([conn : Conns, name : Clients])
         /\ registry \in [Clients -> [inst : Nat, running : BOOLEAN]]
         /\ router.inc \in Nat /\ router.phase \in {"run", "ended", "gone"}
         /\ router.queue \in Seq(RouterMsg)
         /\ router.tree \subseteq Entries /\ router.sending \subseteq Entries
         /\ sess \in Seq(SessionType) /\ conn \in [Conns -> ConnType]
         /\ DOMAIN sess = 1 .. Len(sess) /\ Len(sess) \in Nat
         /\ \A i \in DOMAIN sess : sess[i] \in SessionType
         /\ db.generation \in [Clients -> Nat]
         /\ db.rows \subseteq [name : Clients, filter : Filters, qos : 0 .. 2, born : Nat]
         /\ ghost.faults \in Nat /\ ghost.packets \in Nat
         /\ ghost.granted \subseteq Clients \X Filters /\ ghost.revived \subseteq Clients
  BY DEF TypeOK

\* A session that goes on as it was, or leaves its loop while it waits for nothing.
Keeps(s, t) ==
  /\ t.name = s.name
  /\ \A m \in Range(t.queue) :
        m.op = "internal" => m \in Range(s.queue) \/ m.generation = m.born \/ s.name \in ghost.revived
  /\ \/ /\ t.phase = s.phase /\ t.generation = s.generation /\ t.subs = s.subs
        /\ t.pend = s.pend /\ t.reply = s.reply
     \/ /\ s.phase # "gone" /\ ~(s.phase = "wait" /\ s.reply = "none")
        /\ t.phase = "ended" /\ t.reply = "none"

\* A router that at most sends what it has begun to send.
CalmRouter ==
  /\ router'.phase = router.phase /\ router'.queue = router.queue /\ router'.tree = router.tree
  /\ router'.sending \subseteq router.sending

\* What is stored does not change, nor what the properties remember of it.
CalmRows ==
  /\ db' = db /\ ghost'.revived = ghost.revived /\ ghost'.granted \subseteq ghost.granted

\* A step of that kind.
LEMMA KeepsCore ==
  ASSUME Core, Started', CalmRouter, CalmRows, registry' = registry, DOMAIN sess' = DOMAIN sess,
         \A i \in DOMAIN sess : Keeps(sess[i], sess'[i])
  PROVE  Core'
<1>1. Registered'
  BY DEF Core, Registered, Keeps
<1>2. GenerationsOK'
  BY DEF Core, GenerationsOK, Keeps, CalmRows
<1>3. \A n, f : Pending(n, f)' <=> Pending(n, f)
  BY DEF Pending, CalmRouter
<1>4. FiltersKnown'
  BY <1>3 DEF Core, FiltersKnown, Keeps, CalmRows
<1>5. RowsOK'
  BY <1>3 DEF Core, RowsOK, CalmRows
<1>6. TreeOK'
  BY DEF Core, TreeOK, CalmRows, CalmRouter, Row
<1>7. TagsOK'
  BY DEF Core, TagsOK, CalmRows, CalmRouter, Keeps
<1>8. SubscriberWaits'
  BY DEF Core, SubscriberWaits, CalmRouter, Keeps
<1>9. SubscribeIsLast'
  BY DEF Core, SubscribeIsLast, CalmRouter
<1>10. \A n, f : Stored(n, f)' <=> Stored(n, f)
  BY DEF Stored, CalmRows
<1>11. AnswerHolds'
  BY <1>10 DEF Core, AnswerHolds, CalmRouter, Keeps
<1>12. GrantHolds'
  BY <1>3, <1>10 DEF Core, GrantHolds, CalmRows
<1>13. HandlersOK'
  BY DEF Core, HandlersOK, Keeps
<1> QED  BY <1>1, <1>2, <1>4, <1>5, <1>6, <1>7, <1>8, <1>9, <1>11, <1>12, <1>13 DEF Core

\* A new session that has yet to read its rows.
LEMMA AppearsCore ==
  ASSUME TypeOK, Core, Started', CalmRouter, CalmRows,
         NEW n \in Clients, ~registry[n].running,
         NEW s \in SessionType, s.name = n, s.phase = "init", s.reply = "none",
         \A m \in Range(s.queue) : m.op = "internal" => m.generation = m.born \/ n \in ghost.revived,
         sess' = Append(sess, s),
         registry' = [registry EXCEPT ![n] = [inst |-> Len(sess) + 1, running |-> TRUE]]
  PROVE  Core'
<1> DEFINE N == Len(sess)
<1>1. /\ DOMAIN sess = 1 .. N /\ N \in Nat /\ DOMAIN sess' = 1 .. (N + 1)
      /\ \A i \in DOMAIN sess : sess'[i] = sess[i] /\ i # N + 1
      /\ sess'[N + 1] = s
      /\ \A i \in DOMAIN sess' : i \in DOMAIN sess \/ i = N + 1
      /\ \A i \in DOMAIN sess : i \in DOMAIN sess'
      /\ N + 1 \in DOMAIN sess' /\ N + 1 # None
  BY Types, RangeOfAppend DEF None
<1>2. /\ registry'[n].inst = N + 1 /\ registry'[n].running
      /\ \A k \in Clients \ {n} : registry'[k] = registry[k]
      /\ registry \in [Clients -> [inst : Nat, running : BOOLEAN]]
  BY Types
<1> HIDE DEF N
<1>3. Registered'
  <2>1. ASSUME NEW i \in DOMAIN sess', sess'[i].phase # "gone"
        PROVE  registry'[sess'[i].name].inst = i /\ registry'[sess'[i].name].running
    <3>1. CASE i = N + 1
      BY <1>1, <1>2, <3>1
    <3>2. CASE i # N + 1
      <4>1. i \in DOMAIN sess /\ sess'[i] = sess[i] /\ sess[i].name \in Clients
        BY <1>1, <3>2, Types DEF SessionType
      <4>2. registry[sess[i].name].inst = i /\ registry[sess[i].name].running
        BY <4>1, <2>1 DEF Core, Registered
      <4> QED  BY <4>1, <4>2, <1>2
    <3> QED  BY <3>1, <3>2
  <2>2. ASSUME NEW k \in Clients
        PROVE  registry'[k].inst = None \/ (registry'[k].inst \in DOMAIN sess' /\ sess'[registry'[k].inst].name = k)
    BY <1>1, <1>2 DEF Core, Registered
  <2> QED  BY <2>1, <2>2 DEF Registered
<1>4. GenerationsOK'
  BY <1>1 DEF Core, GenerationsOK, CalmRows
<1>5. \A k, f : Pending(k, f)' <=> Pending(k, f)
  BY DEF Pending, CalmRouter
<1>6. FiltersKnown'
  BY <1>1, <1>5 DEF Core, FiltersKnown, CalmRows
<1>7. RowsOK'
  BY <1>5 DEF Core, RowsOK, CalmRows
<1>8. TreeOK'
  BY DEF Core, TreeOK, CalmRows, CalmRouter, Row
<1>9. TagsOK'
  BY <1>1 DEF Core, TagsOK, CalmRows, CalmRouter
<1>10. SubscriberWaits'
  BY <1>1 DEF Core, SubscriberWaits, CalmRouter
<1>11. SubscribeIsLast'
  BY DEF Core, SubscribeIsLast, CalmRouter
<1>12. \A k, f : Stored(k, f)' <=> Stored(k, f)
  BY DEF Stored, CalmRows
<1>13. AnswerHolds'
  BY <1>1, <1>12 DEF Core, AnswerHolds, CalmRouter
<1>14. GrantHolds'
  BY <1>5, <1>12 DEF Core, GrantHolds, CalmRows
<1>15. HandlersOK'
  BY <1>1 DEF Core, HandlersOK
<1> QED
  BY <1>3, <1>4, <1>6, <1>7, <1>8, <1>9, <1>10, <1>11, <1>13, <1>14, <1>15 DEF Core

-----------------------------------------------------------------------------
(* The broker's steps. *)

\* A new router, at a time when there is none.
LEMMA RouterStartsCore ==
  ASSUME TypeOK, Core, Started', router.phase = "gone",
         router' = [NoRouter(router.inc + 1) EXCEPT !.phase = "run", !.tree = LoadTree],
         registry' = registry, sess' = sess, db' = db, ghost' = ghost
  PROVE  Core'
<1>1. router'.phase = "run" /\ router'.queue = <<>> /\ router'.tree = LoadTree /\ router'.sending = {}
  BY DEF NoRouter
<1>2. router.queue = <<>> /\ Range(router'.queue) = {} /\ Range(router.queue) = {}
  BY <1>1, RangeEmpty DEF Core, Started
<1>3. \A n, f : Pending(n, f)' <=> Pending(n, f)
  BY <1>2 DEF Pending
<1>4. Registered' /\ GenerationsOK' /\ HandlersOK'
  BY DEF Core, Registered, GenerationsOK, HandlersOK
<1>5. FiltersKnown' /\ RowsOK'
  BY <1>3 DEF Core, FiltersKnown, RowsOK
<1>6. TreeOK'
  <2>1. ASSUME NEW r \in db.rows
        PROVE  r = Row(Entry(r.name, r.filter, r.qos, db.generation[r.name], r.born))
    BY Types DEF Row, Entry
  <2>2. db.rows = {Row(e) : e \in LoadTree}
    BY <2>1 DEF LoadTree
  <2> QED  BY <2>2, <1>1 DEF TreeOK, Row
<1>7. TagsOK'
  <2>1. ASSUME NEW e \in LoadTree PROVE e.name \in ghost.revived \/ e.generation = e.born
    <3>1. PICK r \in db.rows : e = Entry(r.name, r.filter, r.qos, db.generation[r.name], r.born)
      BY DEF LoadTree
    <3>2. r.name \in ghost.revived \/ r.born = db.generation[r.name]
      BY <1>2 DEF Core, RowsOK, Pending
    <3> QED  BY <3>1, <3>2 DEF Entry
  <2> QED  BY <2>1, <1>1 DEF Core, TagsOK
<1>8. SubscriberWaits' /\ SubscribeIsLast'
  BY <1>1, <1>2 DEF SubscriberWaits, SubscribeIsLast
<1>9. AnswerHolds' /\ GrantHolds'
  BY <1>2, <1>3 DEF Core, AnswerHolds, GrantHolds, Stored
<1> QED  BY <1>4, <1>5, <1>6, <1>7, <1>8, <1>9 DEF Core

LEMMA FaultType ==
  ASSUME TypeOK, Fault
  PROVE  /\ ghost' \in GhostType /\ ghost'.revived = ghost.revived /\ ghost'.granted = ghost.granted
<1>1. ghost \in GhostType
  BY DEF TypeOK, GhostType
<1>2. ghost' = [ghost EXCEPT !.faults = @ + 1]
  BY DEF Fault
<1> QED  BY <1>1, <1>2 DEF GhostType

LEMMA LoadTreeType ==
  ASSUME TypeOK
  PROVE  LoadTree \subseteq Entries
<1>1. ASSUME NEW r \in db.rows
      PROVE  Entry(r.name, r.filter, r.qos, db.generation[r.name], r.born) \in Entries
  BY Types DEF Entry, Entries
<1> QED  BY <1>1 DEF LoadTree

\* The router is started, or cannot be.
LEMMA StartRouterStep ==
  ASSUME TypeOK, Core, router.phase = "gone", NEW next \in {"idle", "answer"},
         next = "answer" => broker.requests # <<>>,
         start_router(next), UNCHANGED <<registry, sess, conn, db>>
  PROVE  TypeOK' /\ Core'
<1>1. CASE /\ router' = [NoRouter(router.inc + 1) EXCEPT !.phase = "run", !.tree = LoadTree]
           /\ broker' = [broker EXCEPT !.step = next, !.router_tx = router.inc + 1]
           /\ UNCHANGED ghost
  <2>1. /\ router'.phase = "run"
        /\ router' = [inc |-> router.inc + 1, phase |-> "run", queue |-> <<>>, tree |-> LoadTree,
                      sending |-> {}]
    BY <1>1 DEF NoRouter
  <2>2. /\ broker'.step = next /\ broker'.requests = broker.requests
        /\ broker' \in [step : {"boot", "idle", "answer"}, router_tx : Nat,
                        requests : Seq([conn : Conns, name : Clients])]
    <3>1. router.inc + 1 \in Nat
      BY Types
    <3> QED  BY <3>1, <1>1 DEF TypeOK
  <2>4. router' \in [inc : Nat, phase : {"run", "ended", "gone"}, queue : Seq(RouterMsg),
                     tree : SUBSET Entries, sending : SUBSET Entries]
    BY <2>1, LoadTreeType, Types
  <2>5. TypeOK'
    BY <1>1, <2>2, <2>4 DEF TypeOK
  <2>3. Started'
    BY <2>1, <2>2 DEF Started
  <2> QED  BY <1>1, <2>5, <2>3, RouterStartsCore
<1>2. CASE /\ Fault
           /\ broker' = [broker EXCEPT !.step = next, !.router_tx = None]
           /\ UNCHANGED router
  <2>5. /\ broker' \in [step : {"boot", "idle", "answer"}, router_tx : Nat,
                        requests : Seq([conn : Conns, name : Clients])]
    BY <1>2 DEF TypeOK, None
  <2>6. ghost' \in GhostType /\ CalmRows
    BY <1>2, FaultType DEF CalmRows
  <2>7. DOMAIN sess' = DOMAIN sess /\ registry' = registry
    OBVIOUS
  <2>1. TypeOK'
    BY <1>2, <2>5, <2>6 DEF TypeOK, GhostType
  <2>2. Started'
    BY <1>2 DEF Core, Started, TypeOK
  <2>3. \A i \in DOMAIN sess : Keeps(sess[i], sess'[i])
    BY DEF Keeps
  <2>4. CalmRouter
    BY <1>2 DEF CalmRouter
  <2> QED  BY <2>1, <2>2, <2>3, <2>4, <2>6, <2>7, KeepsCore
<1> QED  BY <1>1, <1>2 DEF start_router

LEMMA BrokerBootStep ==
  ASSUME TypeOK, Core, BrokerBoot
  PROVE  TypeOK' /\ Core'
<1>1. router.phase = "gone" /\ start_router("idle") /\ UNCHANGED <<registry, sess, conn, db>>
  BY DEF BrokerBoot, Core, Started
<1> QED  BY <1>1, StartRouterStep

LEMMA BrokerTakeStep ==
  ASSUME TypeOK, Core, BrokerTake
  PROVE  TypeOK' /\ Core'
<1>1. CASE RouterRunning
  <2>1. broker' = [broker EXCEPT !.step = "answer"]
        /\ UNCHANGED <<router, ghost, registry, sess, conn, db>> /\ broker.requests # <<>>
    BY <1>1 DEF BrokerTake
  <2>2. TypeOK' /\ Started'
    BY <2>1 DEF TypeOK, Core, Started
  <2>3. CalmRows /\ CalmRouter /\ \A i \in DOMAIN sess : Keeps(sess[i], sess'[i])
    BY <2>1 DEF Keeps, CalmRows, CalmRouter
  <2> QED  BY <2>1, <2>2, <2>3, KeepsCore
<1>2. CASE ~RouterRunning
  <2>1. router.phase = "gone" /\ broker.requests # <<>> /\ start_router("answer")
        /\ UNCHANGED <<registry, sess, conn, db>>
    BY <1>2 DEF BrokerTake, RouterRunning
  <2> QED  BY <2>1, StartRouterStep
<1> QED  BY <1>1, <1>2

LEMMA BrokerAnswerStep ==
  ASSUME TypeOK, Core, BrokerAnswer
  PROVE  TypeOK' /\ Core'
<1> DEFINE r == Head(broker.requests)
           n == r.name
<1>1. /\ r.conn \in Conns /\ n \in Clients
      /\ Tail(broker.requests) \in Seq([conn : Conns, name : Clients])
  <2>1. broker.requests # <<>> /\ broker.requests \in Seq([conn : Conns, name : Clients])
    BY Types DEF BrokerAnswer, Core, Started
  <2>2. r \in [conn : Conns, name : Clients]
    BY <2>1, RangeOfTail
  <2>3. Tail(broker.requests) \in Seq([conn : Conns, name : Clients])
    BY <2>1, RangeOfTail
  <2> QED  BY <2>2, <2>3
<1>2. /\ broker' = [broker EXCEPT !.step = "idle", !.requests = Tail(@)]
      /\ UNCHANGED <<router, db, ghost>>
  BY DEF BrokerAnswer
<1>3. /\ broker' \in [step : {"boot", "idle", "answer"}, router_tx : Nat,
                      requests : Seq([conn : Conns, name : Clients])]
      /\ broker'.step = "idle"
  BY <1>1, <1>2 DEF TypeOK
<1>4. Started' /\ CalmRows /\ CalmRouter
  BY <1>2, <1>3 DEF Core, Started, CalmRows, CalmRouter
<1>5. ASSUME sess' = sess, registry' = registry, conn' \in [Conns -> ConnType]
      PROVE  TypeOK' /\ Core'
  <2>1. TypeOK'
    BY <1>5, <1>2, <1>3 DEF TypeOK
  <2>2. \A i \in DOMAIN sess : Keeps(sess[i], sess'[i])
    BY <1>5 DEF Keeps
  <2> QED  BY <1>5, <2>1, <2>2, <1>4, KeepsCore
<1>6. CASE broker.router_tx = None
  <2>1. conn' = Close(conn, {r.conn}) /\ sess' = sess /\ registry' = registry
    BY <1>6 DEF BrokerAnswer
  <2> QED  BY <2>1, <1>5, CloseType, Types
<1>7. ASSUME NEW st \in {"granted"}, NEW inst \in Nat,
             conn' = [conn EXCEPT ![r.conn].st = st, ![r.conn].inst = inst]
      PROVE  conn' \in [Conns -> ConnType]
  <2>1. [conn[r.conn] EXCEPT !.st = st, !.inst = inst] \in ConnType
    BY <1>1, Types DEF ConnType
  <2>2. conn' = [conn EXCEPT ![r.conn] = [conn[r.conn] EXCEPT !.st = st, !.inst = inst]]
    BY <1>7, <1>1, Types
  <2> QED  BY <2>1, <2>2, <1>1, Types
<1>8. CASE broker.router_tx # None
  <2> DEFINE got == get_session(Present, n, broker.router_tx)
  <2>1. /\ sess' = got.sess /\ registry' = got.registry
        /\ conn' = [conn EXCEPT ![r.conn].st = "granted", ![r.conn].inst = got.registry[n].inst]
    BY <1>8 DEF BrokerAnswer
  <2>2. CASE registry[n].running
    <3>1. sess' = sess /\ registry' = registry
      BY <2>1, <2>2 DEF get_session, Present
    <3>2. registry[n].inst \in Nat
      BY <1>1, Types
    <3> QED  BY <3>1, <3>2, <2>1, <1>5, <1>7
  <2>3. CASE ~registry[n].running
    <3> DEFINE s == NewSession(n, broker.router_tx)
    <3>1. /\ sess' = Append(sess, s)
          /\ registry' = [registry EXCEPT ![n] = [inst |-> Len(sess) + 1, running |-> TRUE]]
      BY <2>1, <2>3 DEF get_session, start_session, Present
    <3>2. s \in SessionType /\ s.name = n /\ s.phase = "init" /\ s.queue = <<>> /\ s.reply = "none"
      BY <1>1, NewSessionType, Types
    <3>3. Range(s.queue) = {}
      BY <3>2, RangeEmpty
    <3>4. registry'[n].inst \in Nat /\ registry' \in [Clients -> [inst : Nat, running : BOOLEAN]]
      BY <3>1, <1>1, Types
    <3>5. conn' \in [Conns -> ConnType]
      BY <3>4, <2>1, <1>7
    <3> HIDE DEF s
    <3>6. sess' \in Seq(SessionType)
      BY <3>1, <3>2, Types, RangeOfAppend
    <3>7. TypeOK'
      BY <3>4, <3>5, <3>6, <1>2, <1>3 DEF TypeOK
    <3> QED  BY <3>1, <3>2, <3>3, <3>7, <2>3, <1>1, <1>4, AppearsCore
  <2> QED  BY <2>2, <2>3
<1> QED  BY <1>6, <1>8

-----------------------------------------------------------------------------
(* Steps that leave the sessions as they are but for their channels. *)

\* A message into a session's channel.
LEMMA SendKeeps ==
  ASSUME TypeOK, NEW x, NEW m \in SessionMsg,
         m.op = "internal" /\ x \in DOMAIN sess =>
            m.generation = m.born \/ sess[x].name \in ghost.revived,
         sess' = [sess EXCEPT ![x].queue = Append(@, m)]
  PROVE  /\ sess' \in Seq(SessionType) /\ DOMAIN sess' = DOMAIN sess
         /\ \A i \in DOMAIN sess : Keeps(sess[i], sess'[i])
<1>1. CASE x \notin DOMAIN sess
  <2>1. sess' = sess
    BY <1>1, Types
  <2> QED  BY <2>1, Types DEF Keeps
<1>2. CASE x \in DOMAIN sess
  <2> DEFINE q == Append(sess[x].queue, m)
             t == [sess[x] EXCEPT !.queue = q]
  <2>1. sess[x] \in SessionType /\ sess[x].queue \in Seq(SessionMsg)
    BY <1>2, Types DEF SessionType
  <2>2. q \in Seq(SessionMsg) /\ Range(q) = Range(sess[x].queue) \cup {m}
    BY <2>1, RangeOfAppend
  <2> HIDE DEF q
  <2>3. /\ t \in SessionType /\ t.queue = q /\ t.name = sess[x].name /\ t.phase = sess[x].phase
        /\ t.generation = sess[x].generation /\ t.subs = sess[x].subs
        /\ t.pend = sess[x].pend /\ t.reply = sess[x].reply
    BY <2>1, <2>2 DEF SessionType
  <2> HIDE DEF t
  <2>4. sess' = [sess EXCEPT ![x] = t]
    BY <1>2, Types DEF t, q
  <2>5. Keeps(sess[x], t)
    BY <2>2, <2>3, <1>2 DEF Keeps
  <2>6. /\ sess' \in Seq(SessionType) /\ DOMAIN sess' = DOMAIN sess /\ sess'[x] = t
        /\ \A j \in DOMAIN sess : j # x => sess'[j] = sess[j]
    BY <1>2, <2>3, <2>4, Types, SetSession
  <2>7. ASSUME NEW j \in DOMAIN sess PROVE Keeps(sess[j], sess'[j])
    <3>1. CASE j = x
      BY <3>1, <2>5, <2>6
    <3>2. CASE j # x
      BY <3>2, <2>6 DEF Keeps
    <3> QED  BY <3>1, <3>2
  <2> QED  BY <2>6, <2>7
<1> QED  BY <1>1, <1>2

\* A step of a connection.
LEMMA ConnectionCore ==
  ASSUME TypeOK, Core, Started', registry' = registry, router' = router, db' = db,
         ghost' \in GhostType, ghost'.revived = ghost.revived, ghost'.granted \subseteq ghost.granted,
         broker' \in [step : {"boot", "idle", "answer"}, router_tx : Nat,
                      requests : Seq([conn : Conns, name : Clients])],
         conn' \in [Conns -> ConnType], sess' \in Seq(SessionType), DOMAIN sess' = DOMAIN sess,
         \A i \in DOMAIN sess : Keeps(sess[i], sess'[i])
  PROVE  TypeOK' /\ Core'
<1>1. TypeOK'
  BY DEF TypeOK, GhostType
<1>2. CalmRouter /\ CalmRows
  BY DEF CalmRouter, CalmRows
<1> QED  BY <1>1, <1>2, KeepsCore

LEMMA ConnectStep ==
  ASSUME TypeOK, Core, NEW c \in Conns, Connect(c)
  PROVE  TypeOK' /\ Core'
<1>1. PICK n \in Clients, clean \in BOOLEAN :
         /\ conn' = [conn EXCEPT ![c].st = "asked", ![c].clean = clean]
         /\ broker' = [broker EXCEPT !.requests = Append(@, [conn |-> c, name |-> n])]
  BY DEF Connect
<1>2. UNCHANGED <<registry, router, sess, db, ghost>>
  BY DEF Connect
<1> DEFINE k == [conn[c] EXCEPT !.st = "asked", !.clean = clean]
<1>3. k \in ConnType
  BY Types DEF ConnType
<1>4. conn' = [conn EXCEPT ![c] = k]
  BY <1>1, Types
<1> HIDE DEF k
<1>5. conn' \in [Conns -> ConnType]
  BY <1>3, <1>4, Types
<1> DEFINE q == Append(broker.requests, [conn |-> c, name |-> n])
<1>6. q \in Seq([conn : Conns, name : Clients]) /\ q # <<>>
  <2>1. /\ broker.requests \in Seq([conn : Conns, name : Clients])
        /\ [conn |-> c, name |-> n] \in [conn : Conns, name : Clients]
    BY Types
  <2>2. /\ q \in Seq([conn : Conns, name : Clients]) /\ Len(q) = Len(broker.requests) + 1
        /\ Len(broker.requests) \in Nat
    BY <2>1, RangeOfAppend
  <2> QED  BY <2>2
<1> HIDE DEF q
<1>7. broker' = [broker EXCEPT !.requests = q]
  BY <1>1 DEF q
<1>8. /\ broker' \in [step : {"boot", "idle", "answer"}, router_tx : Nat,
                      requests : Seq([conn : Conns, name : Clients])]
      /\ broker'.step = broker.step /\ broker'.requests = q
  BY <1>6, <1>7 DEF TypeOK
<1>9. Started'
  BY <1>2, <1>6, <1>8 DEF Core, Started
<1>10. /\ ghost' \in GhostType /\ ghost'.revived = ghost.revived /\ ghost'.granted = ghost.granted
       /\ registry' = registry /\ router' = router /\ db' = db
       /\ sess' \in Seq(SessionType) /\ DOMAIN sess' = DOMAIN sess
  BY <1>2 DEF TypeOK, GhostType
<1>11. \A i \in DOMAIN sess : Keeps(sess[i], sess'[i])
  BY <1>2 DEF Keeps
<1> QED  BY <1>5, <1>8, <1>9, <1>10, <1>11, ConnectionCore

\* A connection that closes.
LEMMA ClosingStep ==
  ASSUME TypeOK, Core, NEW S, conn' = Close(conn, S),
         UNCHANGED <<broker, registry, router, sess, db>>,
         ghost' \in GhostType, ghost'.revived = ghost.revived, ghost'.granted = ghost.granted
  PROVE  TypeOK' /\ Core'
<1>1. conn' \in [Conns -> ConnType]
  BY CloseType, Types
<1>2. Started'
  BY DEF Core, Started
<1>3. \A i \in DOMAIN sess : Keeps(sess[i], sess'[i])
  BY DEF Keeps
<1>4. /\ registry' = registry /\ router' = router /\ db' = db
      /\ sess' \in Seq(SessionType) /\ DOMAIN sess' = DOMAIN sess
      /\ broker' \in [step : {"boot", "idle", "answer"}, router_tx : Nat,
                      requests : Seq([conn : Conns, name : Clients])]
  BY DEF TypeOK
<1> QED  BY <1>1, <1>2, <1>3, <1>4, ConnectionCore

\* A connection that sends to a session.
LEMMA SendingStep ==
  ASSUME TypeOK, Core, NEW x, NEW m \in SessionMsg, m.op # "internal",
         sess' = [sess EXCEPT ![x].queue = Append(@, m)],
         conn' \in [Conns -> ConnType],
         UNCHANGED <<broker, registry, router, db>>,
         ghost' \in GhostType, ghost'.revived = ghost.revived, ghost'.granted = ghost.granted
  PROVE  TypeOK' /\ Core'
<1>1. Started'
  BY DEF Core, Started
<1>2. /\ sess' \in Seq(SessionType) /\ DOMAIN sess' = DOMAIN sess
      /\ \A i \in DOMAIN sess : Keeps(sess[i], sess'[i])
  BY SendKeeps
<1>3. /\ registry' = registry /\ router' = router /\ db' = db
      /\ broker' \in [step : {"boot", "idle", "answer"}, router_tx : Nat,
                      requests : Seq([conn : Conns, name : Clients])]
  BY DEF TypeOK
<1> QED  BY <1>1, <1>2, <1>3, ConnectionCore

LEMMA AttachStep ==
  ASSUME TypeOK, Core, NEW c \in Conns, Attach(c)
  PROVE  TypeOK' /\ Core'
<1>1. UNCHANGED <<broker, registry, router, db>> /\ ghost' = ghost /\ ghost' \in GhostType
  BY DEF Attach, TypeOK, GhostType
<1>2. CASE SessionOpen(conn[c].inst)
  <2> DEFINE m == NewClient(c, conn[c].clean)
             k == [conn[c] EXCEPT !.st = "attached"]
  <2>1. /\ sess' = [sess EXCEPT ![conn[c].inst].queue = Append(@, m)]
        /\ conn' = [conn EXCEPT ![c].st = "attached"]
    BY <1>2 DEF Attach
  <2>2. conn[c] \in ConnType
    BY Types
  <2>3. k \in ConnType /\ m \in SessionMsg /\ m.op # "internal"
    BY <2>2 DEF ConnType, SessionMsg, NewClient
  <2>4. conn' = [conn EXCEPT ![c] = k]
    BY <2>1
  <2> HIDE DEF k, m
  <2>5. conn' \in [Conns -> ConnType]
    BY <2>3, <2>4, Types
  <2> QED  BY <1>1, <2>1, <2>3, <2>5, SendingStep
<1>3. CASE ~SessionOpen(conn[c].inst)
  <2>1. conn' = Close(conn, {c}) /\ sess' = sess
    BY <1>3 DEF Attach
  <2> QED  BY <1>1, <2>1, ClosingStep
<1> QED  BY <1>2, <1>3

LEMMA SendStep ==
  ASSUME TypeOK, Core, NEW c \in Conns, Send(c)
  PROVE  TypeOK' /\ Core'
<1>1. PICK op \in Ops, f \in Filters, qos \in Qos \cup {0} :
         /\ IF op = "subscribe" THEN ~conn[c].subscribing /\ qos \in Qos ELSE qos = 0
         /\ IF SessionOpen(conn[c].inst)
            THEN /\ sess' = [sess EXCEPT ![conn[c].inst].queue = Append(@, Packet(c, op, f, qos))]
                 /\ conn' = [conn EXCEPT ![c].subscribing = @ \/ op = "subscribe"]
            ELSE conn' = Close(conn, {c}) /\ UNCHANGED sess
  BY DEF Send
<1>2. /\ UNCHANGED <<broker, registry, router, db>> /\ ghost' \in GhostType
      /\ ghost'.revived = ghost.revived /\ ghost'.granted = ghost.granted
  <2>1. ghost \in GhostType /\ ghost' = [ghost EXCEPT !.packets = @ + 1]
    BY DEF TypeOK, GhostType, Send
  <2>2. /\ ghost' \in GhostType /\ ghost'.revived = ghost.revived /\ ghost'.granted = ghost.granted
    BY <2>1 DEF GhostType
  <2> QED  BY <2>2 DEF Send
<1>3. CASE SessionOpen(conn[c].inst)
  <2> DEFINE m == Packet(c, op, f, qos)
             b == conn[c].subscribing \/ op = "subscribe"
             k == [conn[c] EXCEPT !.subscribing = b]
  <2>1. /\ sess' = [sess EXCEPT ![conn[c].inst].queue = Append(@, m)]
        /\ conn' = [conn EXCEPT ![c].subscribing = @ \/ op = "subscribe"]
    BY <1>1, <1>3
  <2>2. conn[c] \in ConnType /\ b \in BOOLEAN
    BY Types
  <2>3. m \in SessionMsg /\ m.op # "internal"
    <3>1. op \in {"subscribe", "unsubscribe", "publish"} /\ qos \in 0 .. 2
      BY BoundsOK
    <3> QED  BY <3>1 DEF SessionMsg, Packet
  <2>4. conn' = [conn EXCEPT ![c] = k]
    BY <2>1, Types
  <2> HIDE DEF b
  <2>5. k \in ConnType
    BY <2>2 DEF ConnType
  <2> HIDE DEF k, m
  <2>6. conn' \in [Conns -> ConnType]
    BY <2>5, <2>4, Types
  <2> QED  BY <1>2, <2>1, <2>3, <2>6, SendingStep
<1>4. CASE ~SessionOpen(conn[c].inst)
  <2>1. conn' = Close(conn, {c}) /\ sess' = sess
    BY <1>1, <1>4
  <2> QED  BY <1>2, <2>1, ClosingStep
<1> QED  BY <1>3, <1>4

LEMMA LosingStep ==
  ASSUME TypeOK, Core, NEW c \in Conns, Told(c) \/ Disconnect(c) \/ KeepAliveFires(c)
  PROVE  TypeOK' /\ Core'
<1>1. /\ conn' = Close(conn, {c}) /\ UNCHANGED <<broker, registry, router, sess, db>>
      /\ ghost' = ghost /\ ghost' \in GhostType
  BY DEF Told, Disconnect, KeepAliveFires, TypeOK, GhostType
<1> QED  BY <1>1, ClosingStep

-----------------------------------------------------------------------------
(* Steps of a session that goes on as before, or ends. *)

\* The messages by kind.
LEMMA MessageKinds ==
  ASSUME NEW m \in SessionMsg
  PROVE  /\ m.op = "client" => m.conn \in Conns /\ m.clean \in BOOLEAN
         /\ m.op \in {"subscribe", "unsubscribe", "publish"} =>
               m.conn \in Conns /\ m.filter \in Filters /\ m.qos \in 0 .. 2
         /\ m.op = "internal" => m.generation \in Nat /\ m.qos \in 0 .. 2 /\ m.born \in Nat
  BY DEF SessionMsg

LEMMA RouterMessageKinds ==
  ASSUME NEW m \in RouterMsg
  PROVE  /\ m.op = "subscribe" =>
               /\ m.inst \in Nat /\ m.name \in Clients /\ m.filter \in Filters
               /\ m.qos \in 0 .. 2 /\ m.generation \in Nat
         /\ m.op = "unsubscribe" => m.name \in Clients /\ m.filters \in SUBSET Filters
         /\ m.op = "publish" => m.topic \in Filters
  BY DEF RouterMsg

\* The session leaves its loop.
LEMMA LeaveStep ==
  ASSUME TypeOK, Core, NEW i \in DOMAIN sess, NEW s \in SessionType, s.name = sess[i].name,
         Range(s.queue) \subseteq Range(sess[i].queue), sess[i].phase # "gone",
         ~(sess[i].phase = "wait" /\ sess[i].reply = "none"),
         NEW cs \in [Conns -> ConnType], Leave(i, s, cs),
         UNCHANGED <<broker, registry, router, db>>, ghost' \in GhostType,
         ghost'.revived = ghost.revived, ghost'.granted \subseteq ghost.granted
  PROVE  TypeOK' /\ Core'
<1> DEFINE t == Ended(s)
<1>1. sess' = [sess EXCEPT ![i] = t] /\ conn' = Tell(cs, {s.client} \cap Conns)
  BY DEF Leave
<1>2. t \in SessionType /\ t.name = sess[i].name /\ t.phase = "ended" /\ t.queue = s.queue
      /\ t.reply = "none"
  BY EndedType
<1>3. conn' \in [Conns -> ConnType]
  BY <1>1, TellType
<1> HIDE DEF t
<1>4. /\ sess' \in Seq(SessionType) /\ DOMAIN sess' = DOMAIN sess /\ sess'[i] = t
      /\ \A j \in DOMAIN sess : j # i => sess'[j] = sess[j]
  BY <1>1, <1>2, Types, SetSession
<1>5. ASSUME NEW j \in DOMAIN sess PROVE Keeps(sess[j], sess'[j])
  <2>1. CASE j = i
    BY <2>1, <1>2, <1>4 DEF Keeps
  <2>2. CASE j # i
    BY <2>2, <1>4 DEF Keeps
  <2> QED  BY <2>1, <2>2
<1>6. Started'
  BY DEF Core, Started
<1>7. /\ registry' = registry /\ router' = router /\ db' = db
      /\ broker' \in [step : {"boot", "idle", "answer"}, router_tx : Nat,
                      requests : Seq([conn : Conns, name : Clients])]
  BY DEF TypeOK
<1> QED  BY <1>3, <1>4, <1>5, <1>6, <1>7, ConnectionCore

\* The session handles a message and is as before.
LEMMA StayStep ==
  ASSUME TypeOK, Core, NEW i \in DOMAIN sess, NEW s \in SessionType, s.name = sess[i].name,
         Range(s.queue) \subseteq Range(sess[i].queue),
         s.phase = sess[i].phase, s.generation = sess[i].generation, s.subs = sess[i].subs,
         s.pend = sess[i].pend, s.reply = sess[i].reply,
         sess' = [sess EXCEPT ![i] = s], conn' \in [Conns -> ConnType],
         UNCHANGED <<broker, registry, router, db, ghost>>
  PROVE  TypeOK' /\ Core'
<1>4. /\ sess' \in Seq(SessionType) /\ DOMAIN sess' = DOMAIN sess /\ sess'[i] = s
      /\ \A j \in DOMAIN sess : j # i => sess'[j] = sess[j]
  BY Types, SetSession
<1>5. ASSUME NEW j \in DOMAIN sess PROVE Keeps(sess[j], sess'[j])
  <2>1. CASE j = i
    BY <2>1, <1>4 DEF Keeps
  <2>2. CASE j # i
    BY <2>2, <1>4 DEF Keeps
  <2> QED  BY <2>1, <2>2
<1>6. Started'
  BY DEF Core, Started
<1>7. /\ registry' = registry /\ router' = router /\ db' = db
      /\ ghost' \in GhostType /\ ghost'.revived = ghost.revived /\ ghost'.granted \subseteq ghost.granted
      /\ broker' \in [step : {"boot", "idle", "answer"}, router_tx : Nat,
                      requests : Seq([conn : Conns, name : Clients])]
  BY DEF TypeOK, GhostType
<1> QED  BY <1>4, <1>5, <1>6, <1>7, ConnectionCore

\* The head of a session's channel.
LEMMA TakesType ==
  ASSUME TypeOK, NEW i \in DOMAIN sess, NEW op, Takes(i, op)
  PROVE  /\ sess[i].phase = "run" /\ Head(sess[i].queue) \in SessionMsg
         /\ Head(sess[i].queue).op = op
         /\ Took(i) \in SessionType /\ Took(i).name = sess[i].name /\ Took(i).phase = "run"
         /\ Took(i).generation = sess[i].generation /\ Took(i).subs = sess[i].subs
         /\ Took(i).pend = sess[i].pend /\ Took(i).reply = sess[i].reply
         /\ Took(i).client = sess[i].client
         /\ Range(Took(i).queue) \subseteq Range(sess[i].queue)
<1>1. sess[i].phase = "run" /\ sess[i].queue # <<>> /\ Head(sess[i].queue).op = op
  BY DEF Takes
<1>2. sess \in Seq(SessionType)
  BY Types
<1> QED  BY <1>1, <1>2, TookType

LEMMA SessionInternalStep ==
  ASSUME TypeOK, Core, NEW i \in DOMAIN sess, SessionInternal(i)
  PROVE  TypeOK' /\ Core'
<1>1. Takes(i, "internal") /\ UNCHANGED <<broker, registry, router, db>>
  BY DEF SessionInternal
<1>2. /\ sess[i].phase = "run"
      /\ Took(i) \in SessionType /\ Took(i).name = sess[i].name /\ Took(i).phase = "run"
      /\ Took(i).generation = sess[i].generation /\ Took(i).subs = sess[i].subs
      /\ Took(i).pend = sess[i].pend /\ Took(i).reply = sess[i].reply
      /\ Range(Took(i).queue) \subseteq Range(sess[i].queue)
  BY <1>1, TakesType
<1>3. CASE sess' = [sess EXCEPT ![i] = Took(i)] /\ UNCHANGED <<conn, ghost>>
  <2>1. conn' \in [Conns -> ConnType]
    BY <1>3, Types
  <2> QED  BY <1>1, <1>2, <1>3, <2>1, StayStep
<1>4. CASE Fault /\ Leave(i, Took(i), conn)
  <2>1. ghost' \in GhostType /\ ghost'.revived = ghost.revived /\ ghost'.granted = ghost.granted
    BY <1>4, FaultType
  <2>2. conn \in [Conns -> ConnType]
    BY Types
  <2> QED  BY <1>1, <1>2, <1>4, <2>1, <2>2, LeaveStep
<1> QED  BY <1>3, <1>4 DEF SessionInternal

LEMMA SessionNewClientStep ==
  ASSUME TypeOK, Core, NEW i \in DOMAIN sess, SessionNewClient(i)
  PROVE  TypeOK' /\ Core'
<1> DEFINE c == Head(sess[i].queue).conn
           s == [Took(i) EXCEPT !.client = c]
           cs == Accept(Tell(conn, ({sess[i].client} \cap Conns) \ {c}), c)
<1>1. Takes(i, "client") /\ UNCHANGED <<broker, registry, router, db>>
  BY DEF SessionNewClient
<1>2. /\ sess[i].phase = "run" /\ Head(sess[i].queue) \in SessionMsg /\ Head(sess[i].queue).op = "client"
      /\ Took(i) \in SessionType /\ Took(i).name = sess[i].name /\ Took(i).phase = "run"
      /\ Took(i).generation = sess[i].generation /\ Took(i).subs = sess[i].subs
      /\ Took(i).pend = sess[i].pend /\ Took(i).reply = sess[i].reply
      /\ Range(Took(i).queue) \subseteq Range(sess[i].queue)
  BY <1>1, TakesType
<1>3. c \in Conns
  BY <1>2, MessageKinds
<1>4. cs \in [Conns -> ConnType]
  BY Types, TellType, AcceptType
<1>5. \/ sess' = [sess EXCEPT ![i] = s] /\ conn' = cs /\ UNCHANGED ghost
      \/ Fault /\ Leave(i, s, cs)
  BY DEF SessionNewClient
<1> HIDE DEF c
<1>6. /\ s \in SessionType /\ s.name = sess[i].name /\ s.phase = sess[i].phase
      /\ s.generation = sess[i].generation /\ s.subs = sess[i].subs
      /\ s.pend = sess[i].pend /\ s.reply = sess[i].reply /\ s.queue = Took(i).queue
  BY <1>2, <1>3 DEF SessionType
<1>7. Range(s.queue) \subseteq Range(sess[i].queue)
  BY <1>2, <1>6
<1> HIDE DEF s, cs
<1>8. CASE sess' = [sess EXCEPT ![i] = s] /\ conn' = cs /\ UNCHANGED ghost
  BY <1>1, <1>4, <1>6, <1>7, <1>8, StayStep
<1>9. CASE Fault /\ Leave(i, s, cs)
  <2>1. ghost' \in GhostType /\ ghost'.revived = ghost.revived /\ ghost'.granted = ghost.granted
    BY <1>9, FaultType
  <2> QED  BY <1>1, <1>2, <1>4, <1>6, <1>7, <1>9, <2>1, LeaveStep
<1> QED  BY <1>5, <1>8, <1>9

-----------------------------------------------------------------------------
(* The router forwards a message to a session. *)

LEMMA RouterForwardStep ==
  ASSUME TypeOK, Core, RouterForward
  PROVE  TypeOK' /\ Core'
<1>1. PICK e \in router.sending :
         /\ sess' = Forward(Present, e).sess /\ registry' = Forward(Present, e).registry
         /\ router' = [router EXCEPT !.sending = @ \ {e}]
  BY DEF RouterForward
<1>2. UNCHANGED <<broker, conn, db, ghost>>
  BY DEF RouterForward
<1> DEFINE n == e.name
           m == Internal(e)
<1>3. e \in Entries
  BY Types
<1>4. n \in Clients /\ m \in SessionMsg /\ m.op = "internal" /\ m.generation = e.generation /\ m.born = e.born
  BY <1>3 DEF Entries, Internal, SessionMsg
<1>5. m.generation = m.born \/ n \in ghost.revived
  BY <1>4 DEF Core, TagsOK
<1>6. /\ router' \in [inc : Nat, phase : {"run", "ended", "gone"}, queue : Seq(RouterMsg),
                      tree : SUBSET Entries, sending : SUBSET Entries]
      /\ CalmRouter
  BY <1>1 DEF TypeOK, CalmRouter
<1>7. CalmRows /\ Started'
  BY <1>2, <1>6 DEF CalmRows, CalmRouter, Core, Started
<1> HIDE DEF m, n
<1>8. ASSUME sess' \in Seq(SessionType), registry' \in [Clients -> [inst : Nat, running : BOOLEAN]]
      PROVE  TypeOK'
  BY <1>8, <1>2, <1>6 DEF TypeOK
<1>9. CASE registry[n].running
  <2> DEFINE x == registry[n].inst
  <2>1. sess' = [sess EXCEPT ![x].queue = Append(@, m)] /\ registry' = registry
    BY <1>1, <1>9 DEF Forward, get_session, Present, m, n
  <2>2. x \in DOMAIN sess => sess[x].name = n
    BY <1>4, Types DEF Core, Registered, None
  <2> HIDE DEF x
  <2>3. /\ sess' \in Seq(SessionType) /\ DOMAIN sess' = DOMAIN sess
        /\ \A i \in DOMAIN sess : Keeps(sess[i], sess'[i])
    BY <1>4, <1>5, <2>1, <2>2, SendKeeps
  <2> QED  BY <2>1, <2>3, <1>6, <1>7, <1>8, Types, KeepsCore
<1>10. CASE ~registry[n].running /\ e.qos = 0
  <2>1. sess' = sess /\ registry' = registry
    BY <1>1, <1>10 DEF Forward, Present, n
  <2>2. \A i \in DOMAIN sess : Keeps(sess[i], sess'[i])
    BY <2>1 DEF Keeps
  <2> QED  BY <2>1, <2>2, <1>6, <1>7, <1>8, Types, KeepsCore
<1>11. CASE ~registry[n].running /\ e.qos > 0
  <2> DEFINE s == NewSession(n, router.inc)
             x == Len(sess) + 1
             q == Append(<<>>, m)
             t == [s EXCEPT !.queue = q]
             ss == Append(sess, s)
             reg == [registry EXCEPT ![n] = [inst |-> x, running |-> TRUE]]
  <2>1. s \in SessionType /\ s.name = n /\ s.phase = "init" /\ s.queue = <<>> /\ s.reply = "none"
    BY <1>4, NewSessionType, Types
  <2>2. reg[n].inst = x /\ reg[n].running /\ reg \in [Clients -> [inst : Nat, running : BOOLEAN]]
    BY <1>4, Types
  <2>3. get_session(Present, n, router.inc) = [sess |-> ss, registry |-> reg]
    BY <1>11 DEF get_session, start_session, Present
  <2> HIDE DEF s, reg
  <2>4. sess' = [ss EXCEPT ![x].queue = Append(@, m)] /\ registry' = reg
    <3> DEFINE got == [sess |-> ss, registry |-> reg]
    <3>1. Forward(Present, e) = IF got.registry[n].running
                                THEN [got EXCEPT !.sess[got.registry[n].inst].queue = Append(@, m)]
                                ELSE got
      BY <1>11, <2>3 DEF Forward, m, n
    <3> HIDE DEF ss, x
    <3>2. Forward(Present, e) = [got EXCEPT !.sess[x].queue = Append(@, m)]
      BY <3>1, <2>2
    <3> QED  BY <3>2, <1>1
  <2>6. q \in Seq(SessionMsg) /\ Range(q) = {m}
    <3> DEFINE z == <<>>
    <3>1. z \in Seq(SessionMsg) /\ Range(z) = {}
      BY RangeEmpty
    <3> HIDE DEF z
    <3>2. Append(z, m) \in Seq(SessionMsg) /\ Range(Append(z, m)) = {m}
      BY <3>1, <1>4, RangeOfAppend
    <3> QED  BY <3>2 DEF z
  <2> HIDE DEF q
  <2>5. /\ t \in SessionType /\ t.name = n /\ t.phase = "init" /\ t.queue = q /\ t.reply = "none"
    BY <2>6, <2>1 DEF SessionType
  <2>7. ss[x] = s /\ DOMAIN ss = 1 .. x /\ x \in Nat /\ ss \in Seq(SessionType)
        /\ \A j \in DOMAIN sess : ss[j] = sess[j]
    BY <2>1, Types, RangeOfAppend
  <2>8. sess' = Append(sess, t)
    <3>1. sess' = [ss EXCEPT ![x] = t]
      BY <2>1, <2>4, <2>7 DEF q
    <3>2. sess' = [j \in 1 .. x |-> IF j = x THEN t ELSE ss[j]]
      BY <3>1, <2>7
    <3>3. Append(sess, t) = [j \in 1 .. x |-> IF j = x THEN t ELSE ss[j]]
      <4>1. /\ DOMAIN Append(sess, t) = 1 .. x /\ Append(sess, t)[x] = t
            /\ \A j \in DOMAIN sess : Append(sess, t)[j] = sess[j]
            /\ DOMAIN sess = 1 .. Len(sess) /\ Len(sess) \in Nat
            /\ Append(sess, t) \in Seq(SessionType)
        BY <2>5, Types, RangeOfAppend
      <4> HIDE DEF t
      <4>2. \A j \in 1 .. x : Append(sess, t)[j] = IF j = x THEN t ELSE ss[j]
        BY <4>1, <2>7
      <4> DEFINE a == Append(sess, t)
      <4>3. a \in Seq(SessionType) /\ DOMAIN a = 1 .. x
        BY <4>1
      <4> HIDE DEF a
      <4>4. a \in [1 .. x -> SessionType]
        BY <4>3
      <4>5. a = [j \in 1 .. x |-> a[j]]
        BY <4>4
      <4>6. \A j \in 1 .. x : a[j] = IF j = x THEN t ELSE ss[j]
        BY <4>2 DEF a
      <4>7. a = [j \in 1 .. x |-> IF j = x THEN t ELSE ss[j]]
        BY <4>5, <4>6
      <4> QED  BY <4>7 DEF a
    <3> QED  BY <3>2, <3>3
  <2> HIDE DEF t
  <2>9. sess' \in Seq(SessionType)
    BY <2>5, <2>8, Types, RangeOfAppend
  <2>10. \A k \in Range(t.queue) : k.op = "internal" => k.generation = k.born \/ n \in ghost.revived
    BY <2>5, <2>6, <1>5
  <2>11. registry' = [registry EXCEPT ![n] = [inst |-> Len(sess) + 1, running |-> TRUE]]
    BY <2>4 DEF reg
  <2>12. TypeOK'
    BY <1>8, <2>2, <2>4, <2>9
  <2> QED  BY <2>5, <2>8, <2>10, <2>11, <2>12, <1>4, <1>6, <1>7, <1>11, AppearsCore
<1> QED
  <2>1. e.qos \in 0 .. 2
    BY <1>3 DEF Entries
  <2> QED  BY <2>1, <1>9, <1>10, <1>11

-----------------------------------------------------------------------------
(* Steps of a session that asks something of the router or goes on changed. *)

\* OneTaskPerSession, from the registry.
LEMMA OneTask ==
  ASSUME Registered
  PROVE  OneTaskPerSession
  BY DEF Registered, OneTaskPerSession

\* What session i, that is t after the step, may send.
Proper(i, t, m) ==
  /\ m.op = "subscribe" =>
        /\ m.inst = i /\ m.name = t.name /\ m.generation = t.generation /\ m.filter = t.pend.filter
        /\ m.filter \in t.subs /\ t.phase = "wait" /\ t.reply = "none"
  /\ m.op = "unsubscribe" => m.name = t.name

\* The router's channel and what is new in it.
Sends(i, t) ==
  /\ router'.phase = router.phase /\ router'.tree = router.tree /\ router'.sending = router.sending
  /\ \/ router'.queue = router.queue
     \/ \E m \in RouterMsg : Proper(i, t, m) /\ router'.queue = Append(router.queue, m)

LEMMA SessionCore ==
  ASSUME TypeOK, Core, Started', NEW i \in DOMAIN sess, NEW t \in SessionType,
         t.name = sess[i].name, Range(t.queue) \subseteq Range(sess[i].queue),
         sess[i].phase # "gone", ~(sess[i].phase = "wait" /\ sess[i].reply = "none"),
         sess' = [sess EXCEPT ![i] = t], registry' = registry, db' = db,
         ghost'.revived = ghost.revived, Sends(i, t),
         t.phase \in {"run", "wait"} => t.generation = db.generation[t.name],
         t.phase = "saving" => t.generation = db.generation[t.name] + 1 /\ t.subs = {},
         \A r \in db.rows :
            t.phase \in {"run", "wait", "saving"} /\ r.name = t.name /\ r.name \notin ghost.revived
            => r.filter \in t.subs \/ Pending(r.name, r.filter)',
         t.reply = "none", t.phase = "saving" => t.pend.op = "client",
         GrantHolds'
  PROVE  Core'
<1>1. /\ sess' \in Seq(SessionType) /\ DOMAIN sess' = DOMAIN sess /\ sess'[i] = t
      /\ \A j \in DOMAIN sess : j # i => sess'[j] = sess[j]
  BY Types, SetSession
<1>2. \A j \in DOMAIN sess : sess[j].phase # "gone" /\ sess[j].name = t.name => j = i
  BY OneTask DEF Core, OneTaskPerSession
<1>3. /\ router'.phase = router.phase /\ router'.tree = router.tree /\ router'.sending = router.sending
  BY DEF Sends
<1>4. /\ \A m \in Range(router.queue) : m \in Range(router'.queue)
      /\ \A m \in Range(router'.queue) : m \in Range(router.queue) \/ Proper(i, t, m)
  <2>1. CASE router'.queue = router.queue
    BY <2>1
  <2>2. ASSUME NEW m \in RouterMsg, Proper(i, t, m), router'.queue = Append(router.queue, m)
        PROVE  /\ \A k \in Range(router.queue) : k \in Range(router'.queue)
               /\ \A k \in Range(router'.queue) : k \in Range(router.queue) \/ Proper(i, t, k)
    <3>1. Range(router'.queue) = Range(router.queue) \cup {m}
      BY <2>2, Types, RangeOfAppend
    <3> QED  BY <3>1, <2>2
  <2> QED  BY <2>1, <2>2 DEF Sends
<1>5. \A m \in Range(router'.queue) : m \in Range(router.queue) \/ Proper(i, t, m)
  BY <1>4
<1>6. \A m \in Range(router.queue) : m.op = "subscribe" => m.name # t.name /\ m.inst # i
  BY <1>2 DEF Core, SubscriberWaits
<1>7. Registered'
  BY <1>1 DEF Core, Registered
<1>8. GenerationsOK'
  BY <1>1 DEF Core, GenerationsOK
<1>9. \A n, f : Pending(n, f) => Pending(n, f)'
  BY <1>4 DEF Pending
<1>10. FiltersKnown'
  <2>1. ASSUME NEW j \in DOMAIN sess, NEW r \in db.rows,
               sess'[j].phase \in {"run", "wait", "saving"}, r.name = sess'[j].name,
               r.name \notin ghost.revived
        PROVE  r.filter \in sess'[j].subs \/ Pending(r.name, r.filter)'
    <3>1. CASE j = i
      BY <2>1, <3>1, <1>1
    <3>2. CASE j # i
      BY <2>1, <3>2, <1>1, <1>9 DEF Core, FiltersKnown
    <3> QED  BY <3>1, <3>2
  <2> QED  BY <2>1, <1>1 DEF FiltersKnown
<1>11. RowsOK'
  BY <1>9 DEF Core, RowsOK
<1>12. TreeOK'
  BY <1>3 DEF Core, TreeOK, Row
<1>13. TagsOK'
  BY <1>1, <1>3 DEF Core, TagsOK
<1>14. SubscriberWaits'
  <2>1. ASSUME NEW m \in Range(router'.queue), m.op = "subscribe"
        PROVE  /\ m.inst \in DOMAIN sess'
               /\ LET s == sess'[m.inst] IN
                  /\ s.phase = "wait" /\ s.reply = "none" /\ s.name = m.name
                  /\ s.generation = m.generation /\ s.pend.filter = m.filter /\ m.filter \in s.subs
    <3>1. CASE m \in Range(router.queue)
      <4>1. m.inst # i /\ m.inst \in DOMAIN sess
        BY <3>1, <2>1, <1>6 DEF Core, SubscriberWaits
      <4>2. sess'[m.inst] = sess[m.inst]
        BY <4>1, <1>1
      <4> QED  BY <4>1, <4>2, <3>1, <2>1, <1>1 DEF Core, SubscriberWaits
    <3>2. CASE Proper(i, t, m)
      BY <3>2, <2>1, <1>1 DEF Proper
    <3> QED  BY <3>1, <3>2, <1>5
  <2> QED  BY <2>1 DEF SubscriberWaits
<1>15. SubscribeIsLast'
  <2>1. CASE router'.queue = router.queue
    BY <2>1 DEF Core, SubscribeIsLast
  <2>2. ASSUME NEW m \in RouterMsg, Proper(i, t, m), router'.queue = Append(router.queue, m)
        PROVE  SubscribeIsLast'
    <3> DEFINE q == router.queue
               a == router'.queue
               N == Len(q)
    <3>1. /\ DOMAIN q = 1 .. N /\ DOMAIN a = 1 .. (N + 1) /\ N \in Nat /\ a[N + 1] = m
          /\ \A k \in DOMAIN q : a[k] = q[k]
      BY <2>2, Types, RangeOfAppend
    <3>2. \A k \in DOMAIN q : q[k] \in Range(q)
      BY Types, InRange
    <3> HIDE DEF a, q, N
    <3>3. ASSUME NEW j \in DOMAIN a, NEW k \in DOMAIN a, j < k, a[j].op = "subscribe",
                 a[k].op \in {"subscribe", "unsubscribe"}
          PROVE  a[j].name # a[k].name
      <4>1. j \in DOMAIN q /\ a[j] = q[j]
        BY <3>1, <3>3
      <4>2. CASE k \in DOMAIN q
        <5>1. a[k] = q[k]
          BY <4>2, <3>1
        <5> QED  BY <5>1, <4>1, <4>2, <3>3 DEF Core, SubscribeIsLast, q
      <4>3. CASE k = N + 1
        <5>1. m.name = t.name
          BY <4>3, <3>1, <3>3, <2>2 DEF Proper
        <5>2. q[j].name # t.name
          BY <4>1, <3>2, <3>3, <1>6 DEF q
        <5> QED  BY <5>1, <5>2, <4>1, <4>3, <3>1
      <4> QED  BY <4>2, <4>3, <3>1
    <3> QED  BY <3>3 DEF SubscribeIsLast, a
  <2> QED  BY <2>1, <2>2 DEF Sends
<1>16. \A n, f : Stored(n, f)' <=> Stored(n, f)
  BY DEF Stored
<1>17. AnswerHolds'
  <2>1. ASSUME NEW j \in DOMAIN sess, sess'[j].phase = "wait", sess'[j].reply = "ok"
        PROVE  /\ Stored(sess[j].name, sess[j].pend.filter)' /\ sess'[j] = sess[j]
               /\ \A m \in Range(router'.queue) : ~(m.op = "unsubscribe" /\ m.name = sess'[j].name)
    <3>1. j # i /\ sess'[j] = sess[j]
      BY <2>1, <1>1
    <3>2. /\ Stored(sess[j].name, sess[j].pend.filter) /\ sess[j].name # t.name
          /\ \A m \in Range(router.queue) : ~(m.op = "unsubscribe" /\ m.name = sess[j].name)
      BY <2>1, <3>1, <1>2 DEF Core, AnswerHolds
    <3>3. \A m \in Range(router'.queue) : ~(m.op = "unsubscribe" /\ m.name = sess[j].name)
      BY <3>2, <1>5 DEF Proper
    <3> QED  BY <3>1, <3>2, <3>3, <1>16
  <2> QED  BY <2>1, <1>1 DEF AnswerHolds
<1>18. HandlersOK'
  BY <1>1 DEF Core, HandlersOK
<1> QED  BY <1>7, <1>8, <1>10, <1>11, <1>12, <1>13, <1>14, <1>15, <1>17, <1>18 DEF Core

\* A message into the router's channel.
LEMMA ToRouterType ==
  ASSUME TypeOK, NEW m \in RouterMsg, router' = ToRouter(m)
  PROVE  /\ router' \in [inc : Nat, phase : {"run", "ended", "gone"}, queue : Seq(RouterMsg),
                         tree : SUBSET Entries, sending : SUBSET Entries]
         /\ router'.phase = router.phase /\ router'.tree = router.tree
         /\ router'.sending = router.sending /\ router'.queue = Append(router.queue, m)
         /\ Range(router'.queue) = Range(router.queue) \cup {m}
<1> DEFINE q == Append(router.queue, m)
<1>1. q \in Seq(RouterMsg) /\ Range(q) = Range(router.queue) \cup {m}
  BY Types, RangeOfAppend
<1>2. router' = [router EXCEPT !.queue = q]
  BY DEF ToRouter
<1> HIDE DEF q
<1>3. /\ router' \in [inc : Nat, phase : {"run", "ended", "gone"}, queue : Seq(RouterMsg),
                      tree : SUBSET Entries, sending : SUBSET Entries]
      /\ router'.phase = router.phase /\ router'.tree = router.tree
      /\ router'.sending = router.sending /\ router'.queue = q
  BY <1>1, <1>2 DEF TypeOK
<1> QED  BY <1>1, <1>3 DEF q

LEMMA SessionInitStep ==
  ASSUME TypeOK, Core, NEW i \in DOMAIN sess, SessionInit(i)
  PROVE  TypeOK' /\ Core'
<1>1. sess[i].phase = "init" /\ UNCHANGED <<broker, registry, router, db>>
  BY DEF SessionInit
<1>2. sess[i] \in SessionType /\ sess[i].name \in Clients
  BY Types DEF SessionType
<1> DEFINE g == db.generation[sess[i].name]
           fs == {r.filter : r \in {r \in db.rows : r.name = sess[i].name}}
           t == [sess[i] EXCEPT !.phase = "run", !.generation = g, !.subs = fs]
<1>3. CASE /\ sess' = [sess EXCEPT ![i].phase = "run", ![i].generation = db.generation[sess[i].name],
                         ![i].subs = {r.filter : r \in {r \in db.rows : r.name = sess[i].name}}]
           /\ UNCHANGED <<conn, ghost>>
  <2>1. g \in Nat /\ fs \subseteq Filters
    BY <1>2, Types
  <2>2. \A r \in db.rows : r.name = sess[i].name => r.filter \in fs
    OBVIOUS
  <2>3. sess' = [sess EXCEPT ![i] = t]
    BY <1>3, Types
  <2>4. t.generation = db.generation[sess[i].name]
    BY <1>2 DEF SessionType
  <2> HIDE DEF g, fs
  <2>5. /\ t \in SessionType /\ t.name = sess[i].name /\ t.phase = "run" /\ t.subs = fs
        /\ t.queue = sess[i].queue /\ t.reply = sess[i].reply
    BY <1>2, <2>1 DEF SessionType
  <2> HIDE DEF t
  <2>6. sess' \in Seq(SessionType)
    BY <2>3, <2>5, Types, SetSession
  <2>7. TypeOK' /\ Started' /\ GrantHolds'
    BY <1>1, <1>3, <2>6 DEF TypeOK, Core, Started, GrantHolds, Stored, Pending
  <2>8. registry' = registry /\ db' = db /\ ghost'.revived = ghost.revived /\ Sends(i, t)
    BY <1>1, <1>3 DEF Sends
  <2>9. \A r \in db.rows : r.name = t.name => r.filter \in t.subs
    BY <2>2, <2>5
  <2>10. t.reply = "none"
    BY <1>1, <2>5 DEF Core, HandlersOK
  <2> QED  BY <1>1, <2>10, <2>3, <2>4, <2>5, <2>7, <2>8, <2>9, SessionCore
<1>4. CASE Fault /\ Leave(i, sess[i], conn)
  <2>1. ghost' \in GhostType /\ ghost'.revived = ghost.revived /\ ghost'.granted = ghost.granted
    BY <1>4, FaultType
  <2>2. conn \in [Conns -> ConnType]
    BY Types
  <2> QED  BY <1>1, <1>2, <1>4, <2>1, <2>2, LeaveStep
<1> QED  BY <1>3, <1>4 DEF SessionInit

\* A session that cleans up asks to be unsubscribed from all it knows.
LEMMA SessionCleanStep ==
  ASSUME TypeOK, Core, NEW i \in DOMAIN sess, SessionClean(i)
  PROVE  TypeOK' /\ Core'
<1> DEFINE c == Head(sess[i].queue).conn
           n == sess[i].name
           k == Head(sess[i].queue)
           cs == Tell(conn, ({sess[i].client} \cap Conns) \ {c})
           u == Unsubscribe(n, sess[i].subs)
           g == sess[i].generation + 1
           o == Took(i)
           t == [o EXCEPT !.client = None, !.subs = {}, !.generation = g, !.phase = "saving", !.pend = k]
           s == [o EXCEPT !.client = c]
<1>1. Takes(i, "client") /\ UNCHANGED <<broker, registry, db>>
  BY DEF SessionClean
<1>2. /\ sess[i].phase = "run" /\ k \in SessionMsg /\ k.op = "client"
      /\ o \in SessionType /\ o.name = n /\ o.generation = sess[i].generation
      /\ o.reply = sess[i].reply
      /\ Range(o.queue) \subseteq Range(sess[i].queue)
  BY <1>1, TakesType
<1>3. c \in Conns
  BY <1>2, MessageKinds
<1>4. cs \in [Conns -> ConnType]
  BY Types, TellType
<1>10. sess[i] \in SessionType
  BY Types
<1>5. sess[i] \in SessionType /\ n \in Clients /\ sess[i].subs \subseteq Filters /\ g \in Nat
  BY <1>10 DEF SessionType
<1>6. CASE /\ RouterOpen(i)
           /\ router' = unsubscribe_all(i)
           /\ sess' = [sess EXCEPT ![i] = [Took(i) EXCEPT !.client = None, !.subs = {},
                                             !.generation = @ + 1, !.phase = "saving",
                                             !.pend = Head(sess[i].queue)]]
           /\ conn' = cs
           /\ ghost' = [ghost EXCEPT !.granted = {p \in @ : p[1] # n}]
  <2>1. sess' = [sess EXCEPT ![i] = t]
    BY <1>2, <1>6
  <2>2. u \in RouterMsg /\ u.op = "unsubscribe" /\ u.name = n /\ u.filters = sess[i].subs
    BY <1>5 DEF Unsubscribe, RouterMsg
  <2>3. router' = ToRouter(u) /\ router.phase # "gone"
    BY <1>6 DEF unsubscribe_all, RouterOpen
  <2>4. /\ ghost' \in GhostType /\ ghost'.revived = ghost.revived
        /\ ghost'.granted = {p \in ghost.granted : p[1] # n}
    <3>1. ghost \in GhostType
      BY DEF TypeOK, GhostType
    <3> HIDE DEF n
    <3> QED  BY <3>1, <1>6 DEF GhostType
  <2> HIDE DEF k, o, g, u, n, c, cs
  <2>5. /\ t \in SessionType /\ t.name = n /\ t.phase = "saving" /\ t.subs = {}
        /\ t.generation = g /\ t.queue = o.queue /\ t.reply = o.reply /\ t.pend = k
    BY <1>2, <1>3, <1>5 DEF SessionType, None
  <2>6. t.generation = db.generation[t.name] + 1
    <3>1. sess[i].generation = db.generation[n]
      BY <1>2 DEF Core, GenerationsOK, n
    <3> QED  BY <3>1, <2>5 DEF g
  <2> HIDE DEF t
  <2>7. /\ router' \in [inc : Nat, phase : {"run", "ended", "gone"}, queue : Seq(RouterMsg),
                        tree : SUBSET Entries, sending : SUBSET Entries]
        /\ router'.phase = router.phase /\ router'.tree = router.tree
        /\ router'.sending = router.sending /\ router'.queue = Append(router.queue, u)
        /\ Range(router'.queue) = Range(router.queue) \cup {u}
    BY <2>2, <2>3, ToRouterType
  <2>8. sess' \in Seq(SessionType)
    BY <2>1, <2>5, Types, SetSession
  <2>9. TypeOK'
    <3>1. conn' \in [Conns -> ConnType]
      BY <1>4, <1>6
    <3> QED  BY <1>1, <2>4, <2>7, <2>8, <3>1 DEF TypeOK, GhostType
  <2>10. Started'
    BY <1>1, <2>3, <2>7 DEF Core, Started
  <2>11. \A p, f : Pending(p, f)' <=> Pending(p, f) \/ (p = n /\ f \in sess[i].subs)
    BY <2>2, <2>7 DEF Pending
  <2>12. GrantHolds'
    BY <1>1, <2>4, <2>11 DEF Core, GrantHolds, Stored
  <2>13. Sends(i, t)
    BY <2>2, <2>5, <2>7 DEF Sends, Proper
  <2>14. ASSUME NEW r \in db.rows, r.name = t.name, r.name \notin ghost.revived
         PROVE  Pending(r.name, r.filter)'
    <3>1. r.filter \in sess[i].subs \/ Pending(r.name, r.filter)
      BY <2>14, <2>5, <1>2 DEF Core, FiltersKnown, n
    <3> QED  BY <3>1, <2>11, <2>14, <2>5
  <2>15. Range(t.queue) \subseteq Range(sess[i].queue) /\ t.name = sess[i].name
    BY <2>5, <1>2 DEF n
  <2>16. registry' = registry /\ db' = db
    BY <1>1
  <2>17. t.reply = "none"
    BY <1>2, <2>5 DEF Core, HandlersOK
  <2> QED
    BY <1>2, <2>17, <2>1, <2>4, <2>5, <2>6, <2>9, <2>10, <2>12, <2>13, <2>14, <2>15, <2>16, SessionCore
<1>7. ASSUME UNCHANGED router, Leave(i, s, cs), ghost' \in GhostType,
             ghost'.revived = ghost.revived, ghost'.granted = ghost.granted
      PROVE  TypeOK' /\ Core'
  <2> HIDE DEF o, c, cs
  <2>1. s \in SessionType /\ s.name = n /\ s.queue = o.queue
    BY <1>2, <1>3 DEF SessionType
  <2> HIDE DEF s
  <2> QED  BY <1>1, <1>2, <1>4, <1>7, <2>1, LeaveStep
<1>8. CASE ~RouterOpen(i) /\ UNCHANGED <<router, ghost>> /\ Leave(i, s, cs)
  <2>1. ghost' \in GhostType
    BY <1>8 DEF TypeOK, GhostType
  <2> QED  BY <1>7, <1>8, <2>1
<1>9. CASE Fault /\ UNCHANGED router /\ Leave(i, s, cs)
  BY <1>7, <1>9, FaultType
<1> QED  BY <1>6, <1>8, <1>9 DEF SessionClean

\* A session that subscribes waits for the answer.
LEMMA SessionSubscribeStep ==
  ASSUME TypeOK, Core, NEW i \in DOMAIN sess, SessionSubscribe(i)
  PROVE  TypeOK' /\ Core'
<1> DEFINE m == Head(sess[i].queue)
           n == sess[i].name
           o == Took(i)
           fs == sess[i].subs \cup {m.filter}
           s == [o EXCEPT !.subs = fs]
           t == [s EXCEPT !.phase = "wait", !.pend = m]
           u == Subscribe(i, m.filter, m.qos)
<1>1. Takes(i, "subscribe") /\ UNCHANGED <<broker, registry, db, ghost>>
  BY DEF SessionSubscribe
<1>2. /\ sess[i].phase = "run" /\ m \in SessionMsg /\ m.op = "subscribe"
      /\ o \in SessionType /\ o.name = n /\ o.generation = sess[i].generation
      /\ o.subs = sess[i].subs /\ o.reply = sess[i].reply
      /\ Range(o.queue) \subseteq Range(sess[i].queue)
  BY <1>1, TakesType
<1>3. m.filter \in Filters /\ m.qos \in 0 .. 2
  BY <1>2, MessageKinds
<1>4. sess[i] \in SessionType
  BY Types
<1>14. n \in Clients /\ fs \subseteq Filters /\ sess[i].generation \in Nat
  BY <1>3, <1>4 DEF SessionType
<1>5. n \in Clients /\ fs \subseteq Filters /\ sess[i].generation \in Nat /\ i \in Nat
  BY <1>14, Types
<1>6. [Took(i) EXCEPT !.subs = @ \cup {m.filter}] = s
  BY <1>2 DEF SessionType
<1>7. \/ /\ RouterOpen(i) /\ router' = ToRouter(u) /\ sess' = [sess EXCEPT ![i] = t]
         /\ UNCHANGED conn
      \/ Leave(i, s, conn) /\ UNCHANGED router
  BY <1>6 DEF SessionSubscribe
<1>8. ghost' \in GhostType /\ ghost' = ghost
  BY <1>1 DEF TypeOK, GhostType
<1>9. /\ u \in RouterMsg /\ u.op = "subscribe" /\ u.inst = i /\ u.name = n /\ u.filter = m.filter
      /\ u.generation = sess[i].generation
  BY <1>3, <1>5 DEF Subscribe, RouterMsg
<1>10. m.filter \in fs /\ sess[i].subs \subseteq fs
  OBVIOUS
<1> HIDE DEF m, o, fs, u, n
<1>11. /\ s \in SessionType /\ s.name = n /\ s.queue = o.queue /\ s.subs = fs
       /\ s.generation = sess[i].generation /\ s.reply = sess[i].reply
  BY <1>2, <1>5 DEF SessionType
<1> HIDE DEF s
<1>12. CASE /\ RouterOpen(i) /\ router' = ToRouter(u) /\ sess' = [sess EXCEPT ![i] = t]
            /\ UNCHANGED conn
  <2>1. /\ t \in SessionType /\ t.name = n /\ t.queue = o.queue /\ t.subs = fs
        /\ t.generation = sess[i].generation /\ t.phase = "wait" /\ t.pend = m
        /\ t.reply = sess[i].reply
    BY <1>2, <1>11 DEF SessionType
  <2> HIDE DEF t
  <2>2. /\ router' \in [inc : Nat, phase : {"run", "ended", "gone"}, queue : Seq(RouterMsg),
                        tree : SUBSET Entries, sending : SUBSET Entries]
        /\ router'.phase = router.phase /\ router'.tree = router.tree
        /\ router'.sending = router.sending /\ router'.queue = Append(router.queue, u)
        /\ Range(router'.queue) = Range(router.queue) \cup {u}
    BY <1>9, <1>12, ToRouterType
  <2>3. sess' \in Seq(SessionType)
    BY <1>12, <2>1, Types, SetSession
  <2>4. TypeOK'
    BY <1>1, <1>12, <2>2, <2>3 DEF TypeOK
  <2>5. Started'
    BY <1>1, <1>12, <2>2 DEF Core, Started, RouterOpen
  <2>6. \A p, f : Pending(p, f)' <=> Pending(p, f)
    BY <1>9, <2>2 DEF Pending
  <2>7. GrantHolds'
    BY <1>1, <2>6 DEF Core, GrantHolds, Stored
  <2>8. sess[i].reply = "none"
    BY <1>2 DEF Core, HandlersOK
  <2>9. Sends(i, t)
    BY <1>9, <1>10, <2>1, <2>2, <2>8 DEF Sends, Proper
  <2>10. t.generation = db.generation[t.name]
    BY <1>2, <2>1 DEF Core, GenerationsOK, n
  <2>11. ASSUME NEW r \in db.rows, r.name = t.name, r.name \notin ghost.revived
         PROVE  r.filter \in t.subs \/ Pending(r.name, r.filter)'
    <3>1. r.filter \in sess[i].subs \/ Pending(r.name, r.filter)
      BY <2>11, <2>1, <1>2 DEF Core, FiltersKnown, n
    <3> QED  BY <3>1, <2>1, <2>6, <1>10
  <2>12. Range(t.queue) \subseteq Range(sess[i].queue) /\ t.name = sess[i].name
    BY <2>1, <1>2 DEF n
  <2>13. registry' = registry /\ db' = db /\ ghost'.revived = ghost.revived
    BY <1>1
  <2> QED
    BY <1>2, <1>12, <2>1, <2>4, <2>5, <2>7, <2>8, <2>9, <2>10, <2>11, <2>12, <2>13, SessionCore
<1>13. CASE Leave(i, s, conn) /\ UNCHANGED router
  <2>1. Range(s.queue) \subseteq Range(sess[i].queue) /\ s.name = sess[i].name
    BY <1>2, <1>11 DEF n
  <2>2. conn \in [Conns -> ConnType]
    BY Types
  <2> QED  BY <1>1, <1>2, <1>8, <1>11, <1>13, <2>1, <2>2, LeaveStep
<1> QED  BY <1>7, <1>12, <1>13

\* The answer: what is granted is stored, and no unsubscribe is under way.
LEMMA SessionSubackStep ==
  ASSUME TypeOK, Core, NEW i \in DOMAIN sess, SessionSuback(i)
  PROVE  TypeOK' /\ Core'
<1> DEFINE m == sess[i].pend
           n == sess[i].name
           s == [sess[i] EXCEPT !.phase = "run", !.pend = NoMsg, !.reply = "none"]
<1>1. /\ sess[i].phase = "wait" /\ sess[i].reply # "none"
      /\ UNCHANGED <<broker, registry, router, db>>
  BY DEF SessionSuback
<1>2. sess[i] \in SessionType
  BY Types
<1>3. /\ s \in SessionType /\ s.name = n /\ s.phase = "run" /\ s.queue = sess[i].queue
      /\ s.generation = sess[i].generation /\ s.subs = sess[i].subs /\ s.reply = "none"
  BY <1>2 DEF SessionType
<1>4. \/ /\ sess[i].reply = "ok" /\ sess' = [sess EXCEPT ![i] = s]
         /\ conn' = IF s.client = m.conn THEN [conn EXCEPT ![m.conn].subscribing = FALSE] ELSE conn
         /\ ghost' = [ghost EXCEPT !.granted = @ \cup {<<s.name, m.filter>>}]
      \/ Leave(i, s, conn) /\ UNCHANGED ghost
  BY DEF SessionSuback
<1> HIDE DEF s
<1>5. CASE /\ sess[i].reply = "ok" /\ sess' = [sess EXCEPT ![i] = s]
           /\ conn' = IF s.client = m.conn THEN [conn EXCEPT ![m.conn].subscribing = FALSE] ELSE conn
           /\ ghost' = [ghost EXCEPT !.granted = @ \cup {<<s.name, m.filter>>}]
  <2>1. /\ Stored(n, m.filter)
        /\ \A k \in Range(router.queue) : ~(k.op = "unsubscribe" /\ k.name = n)
    BY <1>1, <1>5 DEF Core, AnswerHolds
  <2>2. n \in Clients /\ m.filter \in Filters
    BY <1>2, <2>1, Types DEF Stored, SessionType
  <2> HIDE DEF m, n
  <2>3. /\ ghost' \in GhostType /\ ghost'.revived = ghost.revived
        /\ ghost'.granted = ghost.granted \cup {<<n, m.filter>>}
    <3>1. ghost \in GhostType /\ <<n, m.filter>> \in Clients \X Filters
      BY <2>2 DEF TypeOK, GhostType
    <3>2. ghost' = [ghost EXCEPT !.granted = @ \cup {<<n, m.filter>>}]
      BY <1>5, <1>3
    <3> QED  BY <3>1, <3>2 DEF GhostType
  <2>4. conn' \in [Conns -> ConnType]
    <3>1. ASSUME m.conn \in Conns PROVE [conn[m.conn] EXCEPT !.subscribing = FALSE] \in ConnType
      BY <3>1, Types DEF ConnType
    <3>2. CASE m.conn \in Conns
      <4>1. [conn EXCEPT ![m.conn].subscribing = FALSE] \in [Conns -> ConnType]
        BY <3>1, <3>2, Types
      <4> QED  BY <4>1, <1>5, Types
    <3>3. CASE m.conn \notin Conns
      <4>1. [conn EXCEPT ![m.conn].subscribing = FALSE] = conn
        BY <3>3, Types
      <4> QED  BY <4>1, <1>5, Types
    <3> QED  BY <3>2, <3>3
  <2>5. sess' \in Seq(SessionType)
    BY <1>3, <1>5, Types, SetSession
  <2>6. TypeOK'
    BY <1>1, <2>3, <2>4, <2>5 DEF TypeOK, GhostType
  <2>7. Started'
    BY <1>1 DEF Core, Started
  <2>8. GrantHolds'
    <3>1. \A p, f : (Stored(p, f)' <=> Stored(p, f)) /\ (Pending(p, f)' <=> Pending(p, f))
      BY <1>1 DEF Stored, Pending
    <3>2. ~Pending(n, m.filter)
      BY <2>1 DEF Pending
    <3>3. ASSUME NEW p \in ghost'.granted PROVE Stored(p[1], p[2]) /\ ~Pending(p[1], p[2])
      BY <2>1, <2>3, <3>2 DEF Core, GrantHolds
    <3> QED  BY <3>1, <3>3 DEF GrantHolds
  <2>9. registry' = registry /\ db' = db /\ Sends(i, s) /\ s.name = sess[i].name
    BY <1>1, <1>3 DEF Sends, n
  <2>10. s.generation = db.generation[s.name]
    BY <1>1, <1>3 DEF Core, GenerationsOK, n
  <2>11. ASSUME NEW r \in db.rows, r.name = s.name, r.name \notin ghost.revived
         PROVE  r.filter \in s.subs \/ Pending(r.name, r.filter)'
    <3>1. r.filter \in sess[i].subs \/ Pending(r.name, r.filter)
      BY <2>11, <1>1, <1>3 DEF Core, FiltersKnown, n
    <3>2. Pending(r.name, r.filter)' <=> Pending(r.name, r.filter)
      BY <1>1 DEF Pending
    <3> QED  BY <3>1, <3>2, <1>3
  <2>12. sess[i].phase # "gone" /\ ~(sess[i].phase = "wait" /\ sess[i].reply = "none")
    BY <1>1
  <2> QED
    BY <1>3, <1>5, <2>3, <2>6, <2>7, <2>8, <2>9, <2>10, <2>11, <2>12, SessionCore
<1>6. CASE Leave(i, s, conn) /\ UNCHANGED ghost
  <2>1. ghost' \in GhostType
    BY <1>6 DEF TypeOK, GhostType
  <2>2. conn \in [Conns -> ConnType]
    BY Types
  <2> QED  BY <1>1, <1>3, <1>6, <2>1, <2>2, LeaveStep
<1> QED  BY <1>4, <1>5, <1>6

\* An unsubscribe or a publish of the client.
LEMMA SessionForwardStep ==
  ASSUME TypeOK, Core, NEW i \in DOMAIN sess, SessionForward(i)
  PROVE  TypeOK' /\ Core'
<1> DEFINE m == Head(sess[i].queue)
           n == sess[i].name
           o == Took(i)
           unsub == m.op = "unsubscribe"
           s == IF unsub THEN [o EXCEPT !.subs = @ \ {m.filter}] ELSE o
           u == IF unsub THEN Unsubscribe(n, {m.filter}) ELSE Publish(m.filter)
<1>1. UNCHANGED <<broker, registry, db>> /\ (Takes(i, "unsubscribe") \/ Takes(i, "publish"))
  BY DEF SessionForward
<1>2. /\ sess[i].phase = "run" /\ m \in SessionMsg /\ m.op \in {"unsubscribe", "publish"}
      /\ o \in SessionType /\ o.name = n /\ o.generation = sess[i].generation /\ o.phase = "run"
      /\ o.subs = sess[i].subs /\ o.reply = sess[i].reply
      /\ Range(o.queue) \subseteq Range(sess[i].queue)
  BY <1>1, TakesType
<1>3. m.filter \in Filters
  BY <1>2, MessageKinds
<1>4. sess[i] \in SessionType /\ n \in Clients
  BY Types DEF SessionType
<1>5. /\ \/ /\ RouterOpen(i)
            /\ router' = ToRouter(IF unsub THEN Unsubscribe(s.name, {m.filter}) ELSE Publish(m.filter))
            /\ sess' = [sess EXCEPT ![i] = s] /\ UNCHANGED conn
         \/ Leave(i, s, conn) /\ UNCHANGED router
      /\ ghost' = [ghost EXCEPT !.granted = IF unsub THEN @ \ {<<s.name, m.filter>>} ELSE @]
  BY DEF SessionForward
<1>6. /\ u \in RouterMsg /\ u.op # "subscribe"
      /\ unsub => u.op = "unsubscribe" /\ u.name = n /\ u.filters = {m.filter}
      /\ ~unsub => u.op # "unsubscribe"
  BY <1>3, <1>4 DEF Unsubscribe, Publish, RouterMsg
<1> HIDE DEF o, m, n
<1>7. /\ s \in SessionType /\ s.name = n /\ s.phase = "run" /\ s.queue = o.queue
      /\ s.generation = sess[i].generation /\ s.reply = sess[i].reply
      /\ s.subs = IF unsub THEN sess[i].subs \ {m.filter} ELSE sess[i].subs
  BY <1>2 DEF SessionType
<1>8. sess[i].reply = "none"
  BY <1>2 DEF Core, HandlersOK
<1>9. router' = ToRouter(u) \/ UNCHANGED router
  BY <1>5, <1>7
<1> HIDE DEF s, u
<1>10. /\ ghost' \in GhostType /\ ghost'.revived = ghost.revived
       /\ ghost'.granted = IF unsub THEN ghost.granted \ {<<n, m.filter>>} ELSE ghost.granted
  <2>1. ghost \in GhostType
    BY DEF TypeOK, GhostType
  <2> QED  BY <1>5, <1>7, <2>1 DEF GhostType
<1>11. Range(s.queue) \subseteq Range(sess[i].queue) /\ s.name = sess[i].name
  BY <1>2, <1>7 DEF n
<1>12. CASE RouterOpen(i) /\ router' = ToRouter(u) /\ sess' = [sess EXCEPT ![i] = s] /\ UNCHANGED conn
  <2>2. /\ router' \in [inc : Nat, phase : {"run", "ended", "gone"}, queue : Seq(RouterMsg),
                        tree : SUBSET Entries, sending : SUBSET Entries]
        /\ router'.phase = router.phase /\ router'.tree = router.tree
        /\ router'.sending = router.sending /\ router'.queue = Append(router.queue, u)
        /\ Range(router'.queue) = Range(router.queue) \cup {u}
    BY <1>6, <1>12, ToRouterType
  <2>3. sess' \in Seq(SessionType)
    BY <1>12, <1>7, Types, SetSession
  <2>4. TypeOK'
    BY <1>1, <1>10, <1>12, <2>2, <2>3 DEF TypeOK, GhostType
  <2>5. Started'
    BY <1>1, <1>12, <2>2 DEF Core, Started, RouterOpen
  <2>6. \A p, f : Pending(p, f)' <=> Pending(p, f) \/ (unsub /\ p = n /\ f = m.filter)
    BY <1>6, <2>2 DEF Pending
  <2>7. GrantHolds'
    <3>1. \A p, f : Stored(p, f)' <=> Stored(p, f)
      BY <1>1 DEF Stored
    <3>2. ASSUME NEW p \in ghost'.granted
          PROVE  Stored(p[1], p[2]) /\ ~Pending(p[1], p[2]) /\ ~(unsub /\ p[1] = n /\ p[2] = m.filter)
      <4>1. p \in ghost.granted /\ p \in Clients \X Filters /\ ~(unsub /\ p = <<n, m.filter>>)
        BY <1>10, Types
      <4> QED  BY <4>1 DEF Core, GrantHolds
    <3> QED  BY <2>6, <3>1, <3>2 DEF GrantHolds
  <2>9. Sends(i, s)
    BY <1>6, <1>7, <2>2 DEF Sends, Proper
  <2>10. s.generation = db.generation[s.name]
    BY <1>2, <1>7 DEF Core, GenerationsOK, n
  <2>11. ASSUME NEW r \in db.rows, r.name = s.name, r.name \notin ghost.revived
         PROVE  r.filter \in s.subs \/ Pending(r.name, r.filter)'
    <3>1. r.filter \in sess[i].subs \/ Pending(r.name, r.filter)
      BY <2>11, <1>7, <1>2 DEF Core, FiltersKnown, n
    <3> QED  BY <3>1, <1>7, <2>6, <2>11
  <2>13. registry' = registry /\ db' = db
    BY <1>1
  <2> QED
    BY <1>2, <1>7, <1>8, <1>10, <1>11, <1>12, <2>4, <2>5, <2>7, <2>9, <2>10, <2>11, <2>13, SessionCore
<1>13. CASE Leave(i, s, conn) /\ UNCHANGED router
  <2>1. conn \in [Conns -> ConnType] /\ ghost'.granted \subseteq ghost.granted
    BY <1>10, Types
  <2> QED  BY <1>1, <1>2, <1>7, <1>10, <1>11, <1>13, <2>1, LeaveStep
<1> QED  BY <1>5, <1>7, <1>12, <1>13 DEF u

\* The new generation is saved: all rows of the old one are about to go.
LEMMA SessionSaveStep ==
  ASSUME TypeOK, Core, NEW i \in DOMAIN sess, SessionSave(i)
  PROVE  TypeOK' /\ Core'
<1> DEFINE n == sess[i].name
           g == sess[i].generation
           c == sess[i].pend.conn
           s == [sess[i] EXCEPT !.phase = "run", !.client = c, !.pend = NoMsg]
<1>1. sess[i].phase = "saving" /\ UNCHANGED <<broker, registry, router>>
  BY DEF SessionSave
<1>2. sess[i] \in SessionType
  BY Types
<1>3. c \in Conns
  <2>1. sess[i].pend.op = "client" /\ sess[i].pend \in SessionMsg \cup {NoMsg}
    BY <1>1, <1>2 DEF Core, HandlersOK, SessionType
  <2>2. sess[i].pend \in SessionMsg
    BY <2>1 DEF NoMsg
  <2> QED  BY <2>1, <2>2, MessageKinds
<1>4. n \in Clients /\ g \in Nat /\ sess[i].subs = {}
  BY <1>1, <1>2 DEF Core, GenerationsOK, SessionType
<1>5. \/ /\ db' = [db EXCEPT !.generation[s.name] = s.generation]
         /\ sess' = [sess EXCEPT ![i] = s]
         /\ conn' = Accept(conn, s.client)
         /\ UNCHANGED ghost
      \/ Fault /\ Leave(i, s, conn) /\ UNCHANGED db
  BY DEF SessionSave
<1> HIDE DEF c
<1>6. /\ s \in SessionType /\ s.name = n /\ s.phase = "run" /\ s.queue = sess[i].queue
      /\ s.generation = g /\ s.subs = {} /\ s.reply = sess[i].reply
  BY <1>2, <1>3, <1>4 DEF SessionType
<1> HIDE DEF s
<1>7. CASE /\ db' = [db EXCEPT !.generation[s.name] = s.generation]
           /\ sess' = [sess EXCEPT ![i] = s]
           /\ conn' = Accept(conn, s.client)
           /\ UNCHANGED ghost
  <2>1. /\ sess' \in Seq(SessionType) /\ DOMAIN sess' = DOMAIN sess /\ sess'[i] = s
        /\ \A j \in DOMAIN sess : j # i => sess'[j] = sess[j]
    BY <1>6, <1>7, Types, SetSession
  <2>2. conn' \in [Conns -> ConnType]
    BY <1>7, Types, AcceptType
  <2>3. /\ db'.rows = db.rows /\ db'.generation[n] = g
        /\ \A p \in Clients \ {n} : db'.generation[p] = db.generation[p]
        /\ db' \in [generation : [Clients -> Nat],
                    rows : SUBSET [name : Clients, filter : Filters, qos : 0 .. 2, born : Nat]]
    <3> HIDE DEF n, g
    <3>1. db' = [db EXCEPT !.generation = [db.generation EXCEPT ![n] = g]]
      BY <1>6, <1>7
    <3>2. [db.generation EXCEPT ![n] = g] \in [Clients -> Nat]
      BY <1>4, Types
    <3>3. db'.rows = db.rows /\ db'.generation = [db.generation EXCEPT ![n] = g]
      BY <3>1 DEF TypeOK
    <3>4. db' \in [generation : [Clients -> Nat],
                   rows : SUBSET [name : Clients, filter : Filters, qos : 0 .. 2, born : Nat]]
      BY <3>1, <3>2 DEF TypeOK
    <3> QED  BY <1>4, <3>3, <3>4, Types
  <2>4. TypeOK'
    BY <1>1, <1>7, <2>1, <2>2, <2>3 DEF TypeOK
  <2>5. \A j \in DOMAIN sess : j # i /\ sess[j].phase # "gone" => sess[j].name \in Clients \ {n}
    BY <1>1, Types, OneTask DEF Core, OneTaskPerSession, SessionType
  <2>6. \A p, f : (Pending(p, f)' <=> Pending(p, f)) /\ (Stored(p, f)' <=> Stored(p, f))
    BY <1>1, <2>3 DEF Pending, Stored
  <2>7. Registered' /\ Started'
    BY <1>1, <1>6, <2>1 DEF Core, Registered, Started
  <2>8. HandlersOK'
    BY <1>1, <1>6, <2>1 DEF Core, HandlersOK
  <2>9. GenerationsOK'
    <3>1. ASSUME NEW j \in DOMAIN sess
          PROVE  /\ sess'[j].phase \in {"run", "wait"} => sess'[j].generation = db'.generation[sess'[j].name]
                 /\ sess'[j].phase = "saving" => /\ sess'[j].generation = db'.generation[sess'[j].name] + 1
                                                 /\ sess'[j].subs = {}
      <4>1. CASE j = i
        BY <4>1, <1>6, <2>1, <2>3
      <4>2. CASE j # i
        <5>1. sess'[j] = sess[j]
          BY <4>2, <2>1
        <5>2. sess[j].phase # "gone" => db'.generation[sess[j].name] = db.generation[sess[j].name]
          BY <4>2, <2>3, <2>5
        <5> QED  BY <5>1, <5>2 DEF Core, GenerationsOK
      <4> QED  BY <4>1, <4>2
    <3> QED  BY <3>1, <2>1 DEF GenerationsOK
  <2>10. \A r \in db.rows : r.name = n /\ r.name \notin ghost.revived => Pending(r.name, r.filter)
    BY <1>1, <1>4 DEF Core, FiltersKnown
  <2>11. FiltersKnown'
    <3>1. ASSUME NEW j \in DOMAIN sess, NEW r \in db.rows,
                 sess'[j].phase \in {"run", "wait", "saving"}, r.name = sess'[j].name,
                 r.name \notin ghost.revived
          PROVE  r.filter \in sess'[j].subs \/ Pending(r.name, r.filter)
      <4>1. CASE j = i
        BY <4>1, <3>1, <1>6, <2>1, <2>10
      <4>2. CASE j # i
        BY <4>2, <3>1, <2>1 DEF Core, FiltersKnown
      <4> QED  BY <4>1, <4>2
    <3> QED  BY <3>1, <2>1, <2>3, <2>6, <1>7 DEF FiltersKnown
  <2>12. RowsOK'
    <3>1. ASSUME NEW r \in db.rows
          PROVE  r.name \in ghost.revived \/ r.born = db'.generation[r.name] \/ Pending(r.name, r.filter)
      <4>1. CASE r.name = n
        BY <4>1, <2>10
      <4>2. CASE r.name # n
        BY <4>2, <2>3, Types DEF Core, RowsOK
      <4> QED  BY <4>1, <4>2
    <3> QED  BY <3>1, <2>3, <2>6, <1>7 DEF RowsOK
  <2>13. TreeOK'
    BY <1>1, <2>3 DEF Core, TreeOK, Row
  <2>14. TagsOK'
    BY <1>1, <1>6, <1>7, <2>1 DEF Core, TagsOK
  <2>15. SubscriberWaits'
    BY <1>1, <2>1 DEF Core, SubscriberWaits
  <2>16. SubscribeIsLast'
    BY <1>1 DEF Core, SubscribeIsLast
  <2>17. AnswerHolds'
    <3>1. ASSUME NEW j \in DOMAIN sess, sess'[j].phase = "wait", sess'[j].reply = "ok"
          PROVE  /\ sess'[j] = sess[j] /\ Stored(sess[j].name, sess[j].pend.filter)
                 /\ ~\E m \in Range(router.queue) : m.op = "unsubscribe" /\ m.name = sess[j].name
      BY <3>1, <1>6, <2>1 DEF Core, AnswerHolds
    <3> QED  BY <3>1, <2>1, <2>6, <1>1 DEF AnswerHolds
  <2>18. GrantHolds'
    BY <1>7, <2>6 DEF Core, GrantHolds
  <2> QED
    BY <2>4, <2>7, <2>8, <2>9, <2>11, <2>12, <2>13, <2>14, <2>15, <2>16, <2>17, <2>18 DEF Core
<1>8. CASE Fault /\ Leave(i, s, conn) /\ UNCHANGED db
  <2>1. ghost' \in GhostType /\ ghost'.revived = ghost.revived /\ ghost'.granted = ghost.granted
    BY <1>8, FaultType
  <2>2. conn \in [Conns -> ConnType]
    BY Types
  <2> QED  BY <1>1, <1>6, <1>8, <2>1, <2>2, LeaveStep
<1> QED  BY <1>5, <1>7, <1>8

\* The task is dropped, and its flag cleared.
LEMMA SessionDropStep ==
  ASSUME TypeOK, Core, NEW i \in DOMAIN sess, SessionDrop(i)
  PROVE  TypeOK' /\ Core'
<1> DEFINE n == sess[i].name
           t == Gone(sess[i])
<1>1. /\ sess[i].phase = "ended" /\ sess' = [sess EXCEPT ![i] = t]
      /\ registry' = [registry EXCEPT ![n].running = FALSE]
      /\ UNCHANGED <<broker, router, conn, db, ghost>>
  BY DEF SessionDrop
<1>2. sess[i] \in SessionType
  BY Types
<1>3. t \in SessionType /\ t.name = n /\ t.phase = "gone" /\ t.queue = <<>> /\ t.reply = "none"
  BY <1>2, GoneType
<1>4. Range(t.queue) = {}
  BY <1>3, RangeEmpty
<1>5. n \in Clients
  BY <1>2 DEF SessionType
<1> HIDE DEF t
<1>6. /\ sess' \in Seq(SessionType) /\ DOMAIN sess' = DOMAIN sess /\ sess'[i] = t
      /\ \A j \in DOMAIN sess : j # i => sess'[j] = sess[j]
  BY <1>1, <1>3, Types, SetSession
<1>7. \A j \in DOMAIN sess : j # i /\ sess[j].phase # "gone" => sess[j].name \in Clients \ {n}
  BY <1>1, Types, OneTask DEF Core, OneTaskPerSession, SessionType
<1>8. /\ registry' \in [Clients -> [inst : Nat, running : BOOLEAN]]
      /\ \A p \in Clients \ {n} : registry'[p] = registry[p]
      /\ registry'[n].inst = registry[n].inst
  <2>1. registry[n] \in [inst : Nat, running : BOOLEAN]
    BY <1>5, Types
  <2>2. [registry[n] EXCEPT !.running = FALSE] \in [inst : Nat, running : BOOLEAN]
    BY <2>1
  <2>3. registry' = [registry EXCEPT ![n] = [registry[n] EXCEPT !.running = FALSE]]
    BY <1>1
  <2> QED  BY <1>5, <2>1, <2>2, <2>3, Types
<1>9. TypeOK'
  BY <1>1, <1>6, <1>8 DEF TypeOK
<1>10. Registered'
  <2>1. ASSUME NEW j \in DOMAIN sess, sess'[j].phase # "gone"
        PROVE  registry'[sess'[j].name].inst = j /\ registry'[sess'[j].name].running
    BY <2>1, <1>3, <1>6, <1>7, <1>8 DEF Core, Registered
  <2>2. ASSUME NEW k \in Clients
        PROVE  registry'[k].inst = None \/ (registry'[k].inst \in DOMAIN sess' /\ sess'[registry'[k].inst].name = k)
    BY <1>3, <1>6, <1>8 DEF Core, Registered
  <2> QED  BY <2>1, <2>2, <1>6 DEF Registered
<1>11. Started' /\ HandlersOK' /\ GenerationsOK'
  BY <1>1, <1>3, <1>6 DEF Core, Started, HandlersOK, GenerationsOK
<1>12. \A p, f : (Pending(p, f)' <=> Pending(p, f)) /\ (Stored(p, f)' <=> Stored(p, f))
  BY <1>1 DEF Pending, Stored
<1>13. FiltersKnown'
  BY <1>1, <1>3, <1>6, <1>12 DEF Core, FiltersKnown
<1>14. RowsOK' /\ GrantHolds'
  BY <1>1, <1>12 DEF Core, RowsOK, GrantHolds
<1>15. TreeOK'
  BY <1>1 DEF Core, TreeOK, Row
<1>16. TagsOK'
  BY <1>1, <1>4, <1>6 DEF Core, TagsOK
<1>17. SubscriberWaits'
  BY <1>1, <1>6 DEF Core, SubscriberWaits
<1>18. SubscribeIsLast'
  BY <1>1 DEF Core, SubscribeIsLast
<1>19. AnswerHolds'
  <2>1. ASSUME NEW j \in DOMAIN sess, sess'[j].phase = "wait", sess'[j].reply = "ok"
        PROVE  /\ sess'[j] = sess[j] /\ Stored(sess[j].name, sess[j].pend.filter)
               /\ ~\E m \in Range(router.queue) : m.op = "unsubscribe" /\ m.name = sess[j].name
    BY <2>1, <1>3, <1>6 DEF Core, AnswerHolds
  <2> QED  BY <2>1, <1>1, <1>6, <1>12 DEF AnswerHolds
<1> QED
  BY <1>9, <1>10, <1>11, <1>13, <1>14, <1>15, <1>16, <1>17, <1>18, <1>19 DEF Core

-----------------------------------------------------------------------------
(* Steps of the router. *)

\* The router takes a message.
LEMMA RouterTookFacts ==
  ASSUME TypeOK, Core, router.queue # <<>>, router'.queue = Tail(router.queue)
  PROVE  /\ Head(router.queue) \in RouterMsg /\ router'.queue \in Seq(RouterMsg)
         /\ Range(router.queue) = Range(router'.queue) \cup {Head(router.queue)}
         /\ SubscribeIsLast'
         /\ Head(router.queue).op = "subscribe" =>
               \A m \in Range(router'.queue) :
                  m.op \in {"subscribe", "unsubscribe"} => m.name # Head(router.queue).name
<1> DEFINE q == router.queue
           a == router'.queue
<1>1. /\ a \in Seq(RouterMsg) /\ Head(q) \in RouterMsg /\ Head(q) = q[1]
      /\ Range(q) = Range(a) \cup {Head(q)}
      /\ DOMAIN q = 1 .. Len(q) /\ Len(q) \in Nat \ {0} /\ DOMAIN a = 1 .. (Len(q) - 1)
      /\ \A k \in DOMAIN a : a[k] = q[k + 1]
  BY Types, RangeOfTail
<1>2. \A m \in Range(a) : \E k \in DOMAIN a : a[k] = m
  BY <1>1, InRange
<1> HIDE DEF a
<1>3. \A j, k \in DOMAIN q :
         /\ j < k /\ q[j].op = "subscribe" /\ q[k].op \in {"subscribe", "unsubscribe"}
         => q[j].name # q[k].name
  BY DEF Core, SubscribeIsLast
<1> HIDE DEF q
<1>4. \A k \in DOMAIN a : k + 1 \in DOMAIN q /\ a[k] = q[k + 1] /\ k \in Nat \ {0}
  BY <1>1
<1>5. \A j, k \in DOMAIN a :
         /\ j < k /\ a[j].op = "subscribe" /\ a[k].op \in {"subscribe", "unsubscribe"}
         => a[j].name # a[k].name
  <2>1. SUFFICES ASSUME NEW j \in DOMAIN a, NEW k \in DOMAIN a,
                        j < k, a[j].op = "subscribe", a[k].op \in {"subscribe", "unsubscribe"}
                 PROVE  a[j].name # a[k].name
    OBVIOUS
  <2>2. j + 1 \in DOMAIN q /\ k + 1 \in DOMAIN q /\ j + 1 < k + 1 /\ a[j] = q[j + 1] /\ a[k] = q[k + 1]
    BY <1>4, <2>1
  <2> QED  BY <2>1, <2>2, <1>3
<1>6. SubscribeIsLast'
  BY <1>5 DEF SubscribeIsLast, a
<1>7. ASSUME q[1].op = "subscribe", NEW m \in Range(a), m.op \in {"subscribe", "unsubscribe"}
      PROVE  m.name # q[1].name
  <2>1. PICK k \in DOMAIN a : a[k] = m
    BY <1>2
  <2>2. k + 1 \in DOMAIN q /\ 1 \in DOMAIN q /\ 1 < k + 1 /\ q[k + 1] = m
    BY <2>1, <1>1, <1>4
  <2> QED  BY <2>2, <1>3, <1>7
<1> QED  BY <1>1, <1>6, <1>7 DEF a, q

LEMMA RouterPublishStep ==
  ASSUME TypeOK, Core, RouterPublish
  PROVE  TypeOK' /\ Core'
<1> DEFINE m == Head(router.queue)
           S == {e \in router.tree : e.filter = m.topic}
           q == Tail(router.queue)
<1>1. /\ router.queue # <<>> /\ m.op = "publish" /\ router.phase = "run"
      /\ UNCHANGED <<broker, registry, sess, conn, db, ghost>>
  BY DEF RouterPublish, RouterTakes, RouterReady
<1>2. q \in Seq(RouterMsg) /\ S \subseteq Entries /\ S \subseteq router.tree
  BY <1>1, Types, RangeOfTail
<1>3. router' = [[router EXCEPT !.queue = q] EXCEPT !.sending = S]
  BY DEF RouterPublish, RouterTook
<1> HIDE DEF q, S
<1>4. /\ router' \in [inc : Nat, phase : {"run", "ended", "gone"}, queue : Seq(RouterMsg),
                      tree : SUBSET Entries, sending : SUBSET Entries]
      /\ router'.phase = "run" /\ router'.queue = q /\ router'.tree = router.tree /\ router'.sending = S
  BY <1>1, <1>2, <1>3 DEF TypeOK
<1>5. /\ Range(router.queue) = Range(router'.queue) \cup {m} /\ SubscribeIsLast'
  BY <1>1, <1>4, RouterTookFacts DEF q
<1>6. TypeOK'
  BY <1>1, <1>4 DEF TypeOK
<1>7. \A p, f : (Pending(p, f)' <=> Pending(p, f)) /\ (Stored(p, f)' <=> Stored(p, f))
  BY <1>1, <1>5 DEF Pending, Stored
<1>8. Registered' /\ Started' /\ HandlersOK' /\ GenerationsOK'
  BY <1>1, <1>4 DEF Core, Registered, Started, HandlersOK, GenerationsOK
<1>9. FiltersKnown' /\ RowsOK' /\ GrantHolds'
  BY <1>1, <1>7 DEF Core, FiltersKnown, RowsOK, GrantHolds
<1>10. TreeOK'
  BY <1>1, <1>4 DEF Core, TreeOK, Row
<1>11. TagsOK'
  BY <1>1, <1>2, <1>4 DEF Core, TagsOK
<1>12. SubscriberWaits'
  BY <1>1, <1>5 DEF Core, SubscriberWaits
<1>13. AnswerHolds'
  BY <1>1, <1>5, <1>7 DEF Core, AnswerHolds
<1> QED  BY <1>5, <1>6, <1>8, <1>9, <1>10, <1>11, <1>12, <1>13 DEF Core

\* The router has stored a subscription and answers.
LEMMA SubscribedStep ==
  ASSUME TypeOK, Core, RouterTakes("subscribe"), NEW m, m = Head(router.queue),
         NEW now \in SUBSET Entries, now # {},
         \A e \in now : /\ e.name = m.name /\ e.filter = m.filter /\ e.born = m.generation
                        /\ e.name \in ghost.revived \/ e.generation = e.born,
         Subscribed(m, now), UNCHANGED <<broker, registry, conn>>,
         ghost' \in GhostType, ghost'.revived = ghost.revived, ghost'.granted = ghost.granted
  PROVE  TypeOK' /\ Core'
<1> DEFINE i == m.inst
           q == Tail(router.queue)
           other(e) == ~(e.name = m.name /\ e.filter = m.filter)
           tree == {e \in router.tree : other(e)} \cup now
           rows == {r \in db.rows : other(r)} \cup {Row(e) : e \in now}
           t == [sess[i] EXCEPT !.reply = "ok"]
<1>1. /\ router.queue # <<>> /\ m.op = "subscribe" /\ router.phase = "run" /\ m \in RouterMsg
      /\ q \in Seq(RouterMsg)
  BY Types, RangeOfTail DEF RouterTakes, RouterReady
<1>2. m.name \in Clients /\ m.filter \in Filters /\ m.generation \in Nat
  BY <1>1, RouterMessageKinds
<1>3. m \in Range(router.queue)
  BY <1>1, Types, RangeOfTail
<1>4. /\ i \in DOMAIN sess /\ sess[i].phase = "wait" /\ sess[i].reply = "none" /\ sess[i].name = m.name
      /\ sess[i].generation = m.generation /\ sess[i].pend.filter = m.filter /\ m.filter \in sess[i].subs
  BY <1>1, <1>3 DEF Core, SubscriberWaits
<1>5. m.generation = db.generation[m.name]
  BY <1>4 DEF Core, GenerationsOK
<1>6. \A j \in DOMAIN sess : sess[j].phase # "gone" /\ sess[j].name = m.name => j = i
  BY <1>4, OneTask DEF Core, OneTaskPerSession
<1>7. /\ router' = [[router EXCEPT !.queue = q] EXCEPT !.tree = tree]
      /\ db' = [db EXCEPT !.rows = rows]
      /\ sess' = [sess EXCEPT ![i].reply = "ok"]
  BY DEF Subscribed, RouterTook
<1>8. sess[i] \in SessionType
  BY <1>4, Types
<1>9. /\ t \in SessionType /\ t.name = m.name /\ t.phase = "wait" /\ t.reply = "ok"
      /\ t.queue = sess[i].queue /\ t.generation = sess[i].generation /\ t.subs = sess[i].subs
      /\ t.pend = sess[i].pend
  BY <1>4, <1>8 DEF SessionType
<1>10. sess' = [sess EXCEPT ![i] = t]
  BY <1>7
<1>11. tree \subseteq Entries /\ \A e \in tree : e \in router.tree \/ e \in now
  BY Types
<1>12. rows \subseteq [name : Clients, filter : Filters, qos : 0 .. 2, born : Nat]
  <2>1. \A e \in now : Row(e) \in [name : Clients, filter : Filters, qos : 0 .. 2, born : Nat]
    BY DEF Row, Entries
  <2> QED  BY <2>1, Types
<1>13. rows = {Row(e) : e \in tree}
  <2>1. db.rows = {Row(e) : e \in router.tree}
    BY <1>1 DEF Core, TreeOK
  <2>2. \A e \in router.tree : Row(e).name = e.name /\ Row(e).filter = e.filter
    BY DEF Row
  <2>3. ASSUME NEW r \in rows PROVE r \in {Row(e) : e \in tree}
    BY <2>1, <2>2, <2>3
  <2>4. ASSUME NEW e \in tree PROVE Row(e) \in rows
    BY <2>1, <2>2, <2>4
  <2> QED  BY <2>3, <2>4
<1>14. /\ \A r \in rows : r \in db.rows \/ (r.name = m.name /\ r.filter = m.filter /\ r.born = m.generation)
       /\ \E r \in rows : r.name = m.name /\ r.filter = m.filter
       /\ \A r \in db.rows : (r.name = m.name /\ r.filter = m.filter) \/ r \in rows
  <2>1. \A e \in now : Row(e) \in rows /\ Row(e).name = m.name /\ Row(e).filter = m.filter
                       /\ Row(e).born = m.generation
    BY DEF Row
  <2>2. \A r \in rows : r \in db.rows \/ \E e \in now : r = Row(e)
    OBVIOUS
  <2>3. \A r \in db.rows : other(r) => r \in rows
    OBVIOUS
  <2> QED  BY <2>1, <2>2, <2>3
<1> HIDE DEF t, tree, rows, q, other, i
<1>15. /\ sess' \in Seq(SessionType) /\ DOMAIN sess' = DOMAIN sess /\ sess'[i] = t
       /\ \A j \in DOMAIN sess : j # i => sess'[j] = sess[j]
  BY <1>4, <1>9, <1>10, Types, SetSession
<1>16. /\ router' \in [inc : Nat, phase : {"run", "ended", "gone"}, queue : Seq(RouterMsg),
                       tree : SUBSET Entries, sending : SUBSET Entries]
       /\ router'.phase = "run" /\ router'.queue = q /\ router'.tree = tree
       /\ router'.sending = router.sending
  BY <1>1, <1>7, <1>11 DEF TypeOK
<1>17. /\ db'.generation = db.generation /\ db'.rows = rows
       /\ db' \in [generation : [Clients -> Nat],
                   rows : SUBSET [name : Clients, filter : Filters, qos : 0 .. 2, born : Nat]]
  BY <1>7, <1>12 DEF TypeOK
<1>18. /\ Range(router.queue) = Range(router'.queue) \cup {m} /\ SubscribeIsLast'
       /\ \A k \in Range(router'.queue) : k.op \in {"subscribe", "unsubscribe"} => k.name # m.name
  BY <1>1, <1>16, RouterTookFacts DEF q
<1>19. TypeOK'
  BY <1>15, <1>16, <1>17 DEF TypeOK, GhostType
<1>20. /\ \A p, f : Pending(p, f)' <=> Pending(p, f)
       /\ \A p, f : Stored(p, f) => Stored(p, f)'
       /\ Stored(m.name, m.filter)'
  <2>1. \A p, f : Pending(p, f)' <=> Pending(p, f)
    BY <1>1, <1>18 DEF Pending
  <2>2. Stored(m.name, m.filter)'
    BY <1>14, <1>17 DEF Stored
  <2>3. \A p, f : Stored(p, f) => Stored(p, f)'
    BY <1>14, <1>17 DEF Stored
  <2> QED  BY <2>1, <2>2, <2>3
<1>21. Registered' /\ Started' /\ HandlersOK' /\ GenerationsOK'
  <2>1. Registered'
    BY <1>4, <1>9, <1>15 DEF Core, Registered
  <2>2. Started'
    BY <1>1, <1>16 DEF Core, Started
  <2>3. HandlersOK'
    BY <1>9, <1>15 DEF Core, HandlersOK
  <2>4. GenerationsOK'
    <3>1. \A j \in DOMAIN sess : /\ sess'[j].phase = sess[j].phase /\ sess'[j].name = sess[j].name
                                 /\ sess'[j].generation = sess[j].generation /\ sess'[j].subs = sess[j].subs
      BY <1>4, <1>9, <1>15
    <3> QED  BY <3>1, <1>15, <1>17 DEF Core, GenerationsOK
  <2> QED  BY <2>1, <2>2, <2>3, <2>4
<1>22. FiltersKnown'
  <2>1. ASSUME NEW j \in DOMAIN sess, NEW r \in rows,
               sess'[j].phase \in {"run", "wait", "saving"}, r.name = sess'[j].name,
               r.name \notin ghost.revived
        PROVE  r.filter \in sess'[j].subs \/ Pending(r.name, r.filter)
    <3>1. /\ sess[j].phase = sess'[j].phase /\ sess[j].name = sess'[j].name /\ sess[j].subs = sess'[j].subs
      BY <1>4, <1>9, <1>15
    <3>2. CASE r \in db.rows
      BY <2>1, <3>1, <3>2 DEF Core, FiltersKnown
    <3>3. CASE r.name = m.name /\ r.filter = m.filter
      <4>1. j = i
        BY <2>1, <3>1, <3>3, <1>6
      <4> QED  BY <4>1, <3>1, <3>3, <1>4
    <3> QED  BY <3>2, <3>3, <1>14
  <2> QED  BY <2>1, <1>15, <1>17, <1>20 DEF FiltersKnown
<1>23. RowsOK'
  <2>1. ASSUME NEW r \in rows
        PROVE  r.name \in ghost.revived \/ r.born = db.generation[r.name] \/ Pending(r.name, r.filter)
    BY <1>14, <1>5 DEF Core, RowsOK
  <2> QED  BY <2>1, <1>17, <1>20 DEF RowsOK
<1>24. TreeOK'
  BY <1>13, <1>16, <1>17 DEF TreeOK, Row
<1>25. TagsOK'
  <2>1. \A e \in router'.tree \cup router'.sending : e.name \in ghost.revived \/ e.generation = e.born
    BY <1>11, <1>16 DEF Core, TagsOK
  <2>2. \A j \in DOMAIN sess : sess'[j].queue = sess[j].queue /\ sess'[j].name = sess[j].name
    BY <1>4, <1>9, <1>15
  <2> QED  BY <2>1, <2>2, <1>15 DEF Core, TagsOK
<1>26. SubscriberWaits'
  <2>1. ASSUME NEW k \in Range(router'.queue), k.op = "subscribe"
        PROVE  k.inst # i /\ k \in Range(router.queue) /\ k.inst \in DOMAIN sess
    <3>1. k \in Range(router.queue) /\ k.name # m.name
      BY <1>18, <2>1
    <3>2. k.inst \in DOMAIN sess /\ sess[k.inst].name = k.name
      BY <3>1, <2>1 DEF Core, SubscriberWaits
    <3> QED  BY <3>1, <3>2, <1>4
  <2> QED  BY <2>1, <1>15 DEF Core, SubscriberWaits
<1>27. AnswerHolds'
  <2>1. ASSUME NEW j \in DOMAIN sess, sess'[j].phase = "wait", sess'[j].reply = "ok"
        PROVE  /\ Stored(sess[j].name, sess[j].pend.filter)'
               /\ ~\E k \in Range(router'.queue) : k.op = "unsubscribe" /\ k.name = sess'[j].name
    <3>1. CASE j = i
      <4>1. sess'[j].name = m.name /\ sess'[j].pend.filter = m.filter
        BY <3>1, <1>4, <1>9, <1>15
      <4> QED  BY <4>1, <1>18, <1>20
    <3>2. CASE j # i
      <4>1. sess'[j] = sess[j]
        BY <3>2, <1>15
      <4>2. /\ Stored(sess[j].name, sess[j].pend.filter)
            /\ ~\E k \in Range(router.queue) : k.op = "unsubscribe" /\ k.name = sess[j].name
        BY <2>1, <4>1 DEF Core, AnswerHolds
      <4> QED  BY <4>1, <4>2, <1>18, <1>20
    <3> QED  BY <3>1, <3>2
  <2> QED  BY <2>1, <1>15 DEF AnswerHolds
<1>28. GrantHolds'
  BY <1>20 DEF Core, GrantHolds
<1> QED
  BY <1>18, <1>19, <1>21, <1>22, <1>23, <1>24, <1>25, <1>26, <1>27, <1>28 DEF Core

LEMMA RouterSubscribeStep ==
  ASSUME TypeOK, Core, RouterSubscribe
  PROVE  TypeOK' /\ Core'
<1>1. PICK m : m = Head(router.queue)
  OBVIOUS
<1> DEFINE held == {e \in router.tree : e.name = m.name /\ e.filter = m.filter}
           kept == {[e EXCEPT !.born = m.generation] : e \in held}
           fresh == {Entry(m.name, m.filter, m.qos, m.generation, m.generation)}
<1>2. RouterTakes("subscribe") /\ UNCHANGED <<broker, registry, conn>>
  BY DEF RouterSubscribe
<1>3. \/ held # {} /\ Subscribed(m, kept) /\ UNCHANGED ghost
      \/ Subscribed(m, fresh) /\ UNCHANGED ghost
      \/ held # {} /\ Fault /\ Subscribed(m, kept)
  BY <1>1 DEF RouterSubscribe
<1>4. /\ router.queue # <<>> /\ m.op = "subscribe" /\ router.phase = "run" /\ m \in RouterMsg
      /\ m \in Range(router.queue)
  BY <1>1, <1>2, Types, RangeOfTail DEF RouterTakes, RouterReady
<1>5. m.name \in Clients /\ m.filter \in Filters /\ m.generation \in Nat /\ m.qos \in 0 .. 2
  BY <1>4, RouterMessageKinds
<1>6. m.generation = db.generation[m.name]
  BY <1>4 DEF Core, SubscriberWaits, GenerationsOK
<1>7. router'.queue = Tail(router.queue)
  <2>1. \A now : Subscribed(m, now) => router'.queue = Tail(router.queue)
    BY DEF Subscribed, RouterTook, TypeOK
  <2> QED  BY <1>3, <2>1
<1>8. /\ Range(router.queue) = Range(router'.queue) \cup {m}
      /\ \A k \in Range(router'.queue) : k.op \in {"subscribe", "unsubscribe"} => k.name # m.name
  BY <1>1, <1>4, <1>7, RouterTookFacts
<1>9. \A f : ~Pending(m.name, f)
  BY <1>4, <1>8 DEF Pending
<1>10. ghost' \in GhostType /\ ghost'.revived = ghost.revived /\ ghost'.granted = ghost.granted
  BY <1>3, FaultType DEF TypeOK, GhostType
<1>11. ASSUME NEW e \in held
       PROVE  e.name \in ghost.revived \/ e.generation = m.generation
  <2>1. Row(e) \in db.rows /\ Row(e).name = m.name /\ Row(e).born = e.born
    BY <1>4 DEF Core, TreeOK, Row
  <2>2. m.name \in ghost.revived \/ e.born = m.generation
    BY <2>1, <1>6, <1>9 DEF Core, RowsOK
  <2>3. e.name = m.name /\ (e.name \in ghost.revived \/ e.generation = e.born)
    BY DEF Core, TagsOK
  <2> QED  BY <2>2, <2>3
<1>12. \A e \in kept : /\ e \in Entries /\ e.name = m.name /\ e.filter = m.filter /\ e.born = m.generation
                       /\ e.name \in ghost.revived \/ e.generation = e.born
  <2>1. ASSUME NEW e \in held,
               NEW k, k = [e EXCEPT !.born = m.generation]
        PROVE  /\ k \in Entries /\ k.name = m.name /\ k.filter = m.filter /\ k.born = m.generation
               /\ k.name \in ghost.revived \/ k.generation = k.born
    <3>1. e \in Entries /\ e.name = m.name /\ e.filter = m.filter
      BY Types
    <3> QED  BY <2>1, <3>1, <1>5, <1>11 DEF Entries
  <2> QED  BY <2>1
<1>13. \A e \in fresh : /\ e \in Entries /\ e.name = m.name /\ e.filter = m.filter /\ e.born = m.generation
                        /\ e.name \in ghost.revived \/ e.generation = e.born
  BY <1>5 DEF Entry, Entries
<1>14. ASSUME NEW now \in {kept, fresh}, Subscribed(m, now), now # {} PROVE TypeOK' /\ Core'
  <2>1. /\ now \in SUBSET Entries
        /\ \A e \in now : /\ e.name = m.name /\ e.filter = m.filter /\ e.born = m.generation
                          /\ e.name \in ghost.revived \/ e.generation = e.born
    BY <1>12, <1>13
  <2> HIDE DEF kept, fresh
  <2> QED  BY <1>1, <1>2, <1>10, <1>14, <2>1, SubscribedStep
<1>15. fresh # {} /\ (held # {} => kept # {})
  OBVIOUS
<1> QED  BY <1>3, <1>14, <1>15

\* The router has deleted subscriptions and their rows.
LEMMA RouterUnsubscribeStep ==
  ASSUME TypeOK, Core, RouterUnsubscribe
  PROVE  TypeOK' /\ Core'
<1>1. PICK m : m = Head(router.queue)
  OBVIOUS
<1> DEFINE q == Tail(router.queue)
           tree == Unsubscribed(router.tree, m.name, m.filters)
           rows == Unsubscribed(db.rows, m.name, m.filters)
<1>2. /\ router.queue # <<>> /\ m.op = "unsubscribe" /\ router.phase = "run" /\ m \in RouterMsg
      /\ q \in Seq(RouterMsg) /\ UNCHANGED <<broker, registry, sess, conn, ghost>>
  BY <1>1, Types, RangeOfTail DEF RouterTakes, RouterReady, RouterUnsubscribe
<1>3. /\ router' = [[router EXCEPT !.queue = q] EXCEPT !.tree = tree]
      /\ db' = [db EXCEPT !.rows = rows]
  BY <1>1 DEF RouterUnsubscribe, RouterTook
<1>4. /\ tree \subseteq router.tree /\ rows \subseteq db.rows
      /\ \A r \in db.rows : r \in rows <=> ~(r.name = m.name /\ r.filter \in m.filters)
  BY DEF Unsubscribed
<1>5. rows = {Row(e) : e \in tree}
  <2>1. db.rows = {Row(e) : e \in router.tree}
    BY <1>2 DEF Core, TreeOK
  <2>2. \A e \in router.tree : Row(e).name = e.name /\ Row(e).filter = e.filter
    BY DEF Row
  <2>3. ASSUME NEW r \in rows PROVE r \in {Row(e) : e \in tree}
    BY <2>1, <2>2, <2>3 DEF Unsubscribed
  <2>4. ASSUME NEW e \in tree PROVE Row(e) \in rows
    BY <2>1, <2>2, <2>4 DEF Unsubscribed
  <2> QED  BY <2>3, <2>4
<1> HIDE DEF q, tree, rows
<1>6. /\ router' \in [inc : Nat, phase : {"run", "ended", "gone"}, queue : Seq(RouterMsg),
                      tree : SUBSET Entries, sending : SUBSET Entries]
      /\ router'.phase = "run" /\ router'.queue = q /\ router'.tree = tree
      /\ router'.sending = router.sending
  BY <1>2, <1>3, <1>4 DEF TypeOK
<1>7. /\ db'.generation = db.generation /\ db'.rows = rows
      /\ db' \in [generation : [Clients -> Nat],
                  rows : SUBSET [name : Clients, filter : Filters, qos : 0 .. 2, born : Nat]]
  BY <1>3, <1>4 DEF TypeOK
<1>8. Range(router.queue) = Range(router'.queue) \cup {m} /\ SubscribeIsLast'
  BY <1>1, <1>2, <1>6, RouterTookFacts DEF q
<1>9. TypeOK'
  BY <1>2, <1>6, <1>7 DEF TypeOK
<1>10. /\ \A p, f : Pending(p, f)' => Pending(p, f)
       /\ \A p, f : Pending(p, f) => Pending(p, f)' \/ (p = m.name /\ f \in m.filters)
       /\ \A f \in m.filters : Pending(m.name, f)
  BY <1>2, <1>8 DEF Pending
<1>11. /\ \A r \in rows : r \in db.rows /\ (Pending(r.name, r.filter) => Pending(r.name, r.filter)')
  BY <1>4, <1>10
<1>12. \A p, f : Stored(p, f) /\ ~Pending(p, f) => Stored(p, f)'
  BY <1>4, <1>7, <1>10 DEF Stored
<1>13. Registered' /\ Started' /\ HandlersOK' /\ GenerationsOK'
  BY <1>2, <1>6, <1>7 DEF Core, Registered, Started, HandlersOK, GenerationsOK
<1>14. FiltersKnown' /\ RowsOK'
  BY <1>2, <1>7, <1>11 DEF Core, FiltersKnown, RowsOK
<1>15. TreeOK'
  BY <1>5, <1>6, <1>7 DEF TreeOK, Row
<1>16. TagsOK'
  BY <1>2, <1>4, <1>6 DEF Core, TagsOK
<1>17. SubscriberWaits'
  BY <1>2, <1>8 DEF Core, SubscriberWaits
<1>18. AnswerHolds'
  <2>1. ASSUME NEW j \in DOMAIN sess, sess[j].phase = "wait", sess[j].reply = "ok"
        PROVE  /\ Stored(sess[j].name, sess[j].pend.filter)'
               /\ ~\E k \in Range(router'.queue) : k.op = "unsubscribe" /\ k.name = sess[j].name
    <3>1. /\ Stored(sess[j].name, sess[j].pend.filter)
          /\ ~\E k \in Range(router.queue) : k.op = "unsubscribe" /\ k.name = sess[j].name
      BY <2>1 DEF Core, AnswerHolds
    <3>2. ~Pending(sess[j].name, sess[j].pend.filter)
      BY <3>1 DEF Pending
    <3>3. PICK n, f : n = sess[j].name /\ f = sess[j].pend.filter
      OBVIOUS
    <3>4. Stored(n, f)'
      BY <3>1, <3>2, <3>3, <1>12
    <3> QED  BY <3>1, <3>3, <3>4, <1>2, <1>8
  <2> QED  BY <2>1, <1>2 DEF AnswerHolds
<1>19. GrantHolds'
  BY <1>2, <1>10, <1>12 DEF Core, GrantHolds
<1> QED
  BY <1>8, <1>9, <1>13, <1>14, <1>15, <1>16, <1>17, <1>18, <1>19 DEF Core

-----------------------------------------------------------------------------
(* The end of a router. *)

\* A session that is the same but for an answer that will not come.
Cut(s, t) ==
  /\ t.name = s.name /\ t.phase = s.phase /\ t.generation = s.generation /\ t.subs = s.subs
  /\ t.pend = s.pend /\ t.queue = s.queue
  /\ t.reply = s.reply \/ (s.phase = "wait" /\ t.reply = "dropped")

\* A router that does not run any more loses messages; rows may go, but none that
\* was not about to.
LEMMA LosesCore ==
  ASSUME Core, Started', SubscribeIsLast', router'.phase # "run",
         Range(router'.queue) \subseteq Range(router.queue),
         router'.tree \subseteq router.tree, router'.sending \subseteq router.sending,
         db'.generation = db.generation, db'.rows \subseteq db.rows,
         ghost.revived \subseteq ghost'.revived, ghost'.granted = ghost.granted,
         registry' = registry, DOMAIN sess' = DOMAIN sess,
         \A j \in DOMAIN sess : Cut(sess[j], sess'[j]),
         \A k \in Range(router'.queue) : k.op = "subscribe" => sess'[k.inst] = sess[k.inst],
         \A r \in db'.rows :
            Pending(r.name, r.filter) => Pending(r.name, r.filter)' \/ r.name \in ghost'.revived,
         \A p, f : Stored(p, f) /\ ~Pending(p, f) => Stored(p, f)'
  PROVE  Core'
<1>1. Registered'
  BY DEF Core, Registered, Cut
<1>2. GenerationsOK' /\ HandlersOK'
  BY DEF Core, GenerationsOK, HandlersOK, Cut
<1>3. FiltersKnown'
  BY DEF Core, FiltersKnown, Cut
<1>4. RowsOK'
  BY DEF Core, RowsOK
<1>5. TreeOK'
  BY DEF TreeOK
<1>6. TagsOK'
  BY DEF Core, TagsOK, Cut
<1>7. SubscriberWaits'
  BY DEF Core, SubscriberWaits
<1>8. \A p, f : Pending(p, f)' => Pending(p, f)
  BY DEF Pending
<1>9. AnswerHolds'
  <2>1. ASSUME NEW j \in DOMAIN sess, sess'[j].phase = "wait", sess'[j].reply = "ok"
        PROVE  /\ Stored(sess[j].name, sess[j].pend.filter)'
               /\ ~\E k \in Range(router'.queue) : k.op = "unsubscribe" /\ k.name = sess'[j].name
    <3>1. PICK n, f : n = sess[j].name /\ f = sess[j].pend.filter
      OBVIOUS
    <3>2. sess'[j].name = n /\ sess'[j].pend.filter = f /\ sess[j].phase = "wait" /\ sess[j].reply = "ok"
      BY <2>1, <3>1 DEF Cut
    <3>3. Stored(n, f) /\ ~\E k \in Range(router.queue) : k.op = "unsubscribe" /\ k.name = n
      BY <3>1, <3>2 DEF Core, AnswerHolds
    <3>4. ~Pending(n, f)
      BY <3>3 DEF Pending
    <3>5. Stored(n, f)'
      BY <3>3, <3>4
    <3> QED  BY <3>2, <3>3, <3>5
  <2> QED  BY <2>1 DEF AnswerHolds
<1>10. GrantHolds'
  BY <1>8 DEF Core, GrantHolds
<1> QED  BY <1>1, <1>2, <1>3, <1>4, <1>5, <1>6, <1>7, <1>9, <1>10 DEF Core

\* Those who wait are told, and nobody else is.
LEMMA DroppedSessions ==
  ASSUME TypeOK, Core, NEW ms, Range(ms) \subseteq Range(router.queue), sess' = Dropped(sess, ms)
  PROVE  /\ sess' \in Seq(SessionType) /\ DOMAIN sess' = DOMAIN sess
         /\ \A j \in DOMAIN sess : Cut(sess[j], sess'[j])
         /\ \A j \in DOMAIN sess : j \notin Waiting(ms) => sess'[j] = sess[j]
<1>1. ASSUME NEW j \in DOMAIN sess
      PROVE  [sess[j] EXCEPT !.reply = "dropped"] \in SessionType
  <2>1. sess[j] \in SessionType
    BY Types
  <2> QED  BY <2>1 DEF SessionType
<1>2. /\ DOMAIN sess' = DOMAIN sess /\ DOMAIN sess = 1 .. Len(sess) /\ Len(sess) \in Nat
      /\ \A j \in DOMAIN sess : sess'[j] = IF j \in Waiting(ms) THEN [sess[j] EXCEPT !.reply = "dropped"]
                                           ELSE sess[j]
      /\ sess' = [j \in 1 .. Len(sess) |-> IF j \in Waiting(ms) THEN [sess[j] EXCEPT !.reply = "dropped"]
                                           ELSE sess[j]]
  BY Types DEF Dropped
<1>3. \A j \in 1 .. Len(sess) : sess'[j] \in SessionType
  BY <1>1, <1>2, Types
<1>4. sess' \in Seq(SessionType)
  BY <1>2, <1>3
<1>5. ASSUME NEW j \in DOMAIN sess PROVE Cut(sess[j], sess'[j])
  <2>1. CASE j \in Waiting(ms)
    <3>1. PICK m \in Range(ms) : m.op = "subscribe" /\ m.inst = j
      BY <2>1 DEF Waiting
    <3>2. sess[j].phase = "wait"
      BY <3>1 DEF Core, SubscriberWaits
    <3>3. sess[j] \in SessionType /\ sess'[j] = [sess[j] EXCEPT !.reply = "dropped"]
      BY <2>1, <1>2, Types
    <3> QED  BY <3>2, <3>3 DEF Cut, SessionType
  <2>2. CASE j \notin Waiting(ms)
    BY <2>2, <1>2 DEF Cut
  <2> QED  BY <2>1, <2>2
<1> QED  BY <1>2, <1>4, <1>5

LEMMA UnsubscribingType ==
  ASSUME NEW ms, Range(ms) \subseteq RouterMsg
  PROVE  Unsubscribing(ms) \subseteq Clients
  BY RouterMessageKinds DEF Unsubscribing

LEMMA RouterDropStep ==
  ASSUME TypeOK, Core, RouterDrop
  PROVE  TypeOK' /\ Core'
<1> DEFINE U == Unsubscribing(router.queue)
<1>1. /\ router.phase = "ended" /\ router' = NoRouter(router.inc) /\ sess' = Dropped(sess, router.queue)
      /\ ghost' = [ghost EXCEPT !.revived = @ \cup U] /\ UNCHANGED <<broker, registry, conn, db>>
  BY DEF RouterDrop
<1>2. /\ sess' \in Seq(SessionType) /\ DOMAIN sess' = DOMAIN sess
      /\ \A j \in DOMAIN sess : Cut(sess[j], sess'[j])
  BY <1>1, DroppedSessions
<1>3. /\ router'.phase = "gone" /\ router'.queue = <<>> /\ router'.tree = {} /\ router'.sending = {}
      /\ router' \in [inc : Nat, phase : {"run", "ended", "gone"}, queue : Seq(RouterMsg),
                      tree : SUBSET Entries, sending : SUBSET Entries]
  BY <1>1, Types DEF NoRouter
<1>4. Range(router'.queue) = {}
  BY <1>3, RangeEmpty
<1>5. U \subseteq Clients
  BY Types, InRange, UnsubscribingType
<1>6. \A n, f : Pending(n, f) => n \in U
  BY DEF Pending, Unsubscribing
<1> HIDE DEF U
<1>7. /\ ghost' \in GhostType /\ ghost'.revived = ghost.revived \cup U /\ ghost'.granted = ghost.granted
  BY <1>1, <1>5 DEF TypeOK, GhostType
<1>8. TypeOK'
  BY <1>1, <1>2, <1>3, <1>7 DEF TypeOK, GhostType
<1>9. Started' /\ SubscribeIsLast'
  BY <1>1, <1>3 DEF Core, Started, SubscribeIsLast
<1>10. /\ \A k \in Range(router'.queue) : k.op = "subscribe" => sess'[k.inst] = sess[k.inst]
       /\ \A r \in db'.rows :
             Pending(r.name, r.filter) => Pending(r.name, r.filter)' \/ r.name \in ghost'.revived
       /\ \A p, f : Stored(p, f) /\ ~Pending(p, f) => Stored(p, f)'
  BY <1>1, <1>4, <1>6, <1>7 DEF Stored
<1>11. /\ router'.phase # "run" /\ Range(router'.queue) \subseteq Range(router.queue)
       /\ router'.tree \subseteq router.tree /\ router'.sending \subseteq router.sending
       /\ db'.generation = db.generation /\ db'.rows \subseteq db.rows
       /\ ghost.revived \subseteq ghost'.revived /\ registry' = registry
  BY <1>1, <1>3, <1>4, <1>7
<1>12. Core'
  BY <1>2, <1>7, <1>9, <1>10, <1>11, LosesCore
<1> QED  BY <1>8, <1>12

LEMMA FaultRevives ==
  ASSUME TypeOK, NEW U \in SUBSET Clients,
         ghost' = [ghost EXCEPT !.faults = @ + 1, !.revived = @ \cup U]
  PROVE  ghost' \in GhostType /\ ghost'.revived = ghost.revived \cup U /\ ghost'.granted = ghost.granted
<1> DEFINE f == ghost.faults + 1
           r == ghost.revived \cup U
<1>1. f \in Nat /\ r \in SUBSET Clients /\ ghost \in GhostType
  BY Types DEF TypeOK, GhostType
<1>2. ghost' = [ghost EXCEPT !.faults = f, !.revived = r]
  OBVIOUS
<1> HIDE DEF f, r
<1> QED  BY <1>1, <1>2 DEF GhostType, r

LEMMA RouterFailsStep ==
  ASSUME TypeOK, Core, RouterFails
  PROVE  TypeOK' /\ Core'
<1>1. PICK m : m = Head(router.queue)
  OBVIOUS
<1> DEFINE q == Tail(router.queue)
<1>2. /\ router.queue # <<>> /\ router.phase = "run" /\ m \in RouterMsg
      /\ q \in Seq(RouterMsg) /\ UNCHANGED <<broker, registry, conn>>
      /\ router' = [[router EXCEPT !.queue = q] EXCEPT !.phase = "ended"]
  BY <1>1, Types, RangeOfTail DEF RouterReady, RouterFails, RouterTook
<1> HIDE DEF q
<1>3. /\ router' \in [inc : Nat, phase : {"run", "ended", "gone"}, queue : Seq(RouterMsg),
                      tree : SUBSET Entries, sending : SUBSET Entries]
      /\ router'.phase = "ended" /\ router'.queue = q /\ router'.tree = router.tree
      /\ router'.sending = router.sending
  BY <1>2 DEF TypeOK
<1>4. /\ Range(router.queue) = Range(router'.queue) \cup {m} /\ SubscribeIsLast'
      /\ m.op = "subscribe" =>
            \A k \in Range(router'.queue) :
               k.op \in {"subscribe", "unsubscribe"} => k.name # m.name
  BY <1>1, <1>2, <1>3, RouterTookFacts DEF q
<1>5. Started'
  BY <1>2, <1>3 DEF Core, Started
<1>6. CASE m.op = "unsubscribe"
  <2>1. PICK fs \in SUBSET m.filters :
              /\ db' = [db EXCEPT !.rows = Unsubscribed(@, m.name, fs)]
              /\ ghost' = [ghost EXCEPT !.faults = @ + 1,
                             !.revived = @ \cup Unsubscribing(<<[m EXCEPT !.filters = @ \ fs]>>)]
              /\ UNCHANGED sess
    BY <1>1, <1>6 DEF RouterFails
  <2> DEFINE rows == Unsubscribed(db.rows, m.name, fs)
             k == [m EXCEPT !.filters = @ \ fs]
             U == Unsubscribing(<<k>>)
  <2>2. /\ rows \subseteq db.rows
        /\ \A r \in db.rows : r \in rows <=> ~(r.name = m.name /\ r.filter \in fs)
    BY DEF Unsubscribed
  <2>3. m \in [op : {"unsubscribe"}, name : Clients, filters : SUBSET Filters]
    BY <1>2, <1>6 DEF RouterMsg
  <2>4. k.op = "unsubscribe" /\ k.name = m.name /\ k.filters = m.filters \ fs
    BY <2>3
  <2>5. Range(<<k>>) = {k}
    BY DEF Range
  <2>6. U = IF m.filters \ fs # {} THEN {m.name} ELSE {}
    <3> HIDE DEF k
    <3>1. U = {x.name : x \in {x \in {k} : x.op = "unsubscribe" /\ x.filters # {}}}
      BY <2>5 DEF Unsubscribing
    <3> QED  BY <3>1, <2>4
  <2> HIDE DEF rows, U
  <2>7. /\ db'.generation = db.generation /\ db'.rows = rows
        /\ db' \in [generation : [Clients -> Nat],
                    rows : SUBSET [name : Clients, filter : Filters, qos : 0 .. 2, born : Nat]]
    BY <2>1, <2>2 DEF TypeOK, rows
  <2>8. ghost' \in GhostType /\ ghost'.revived = ghost.revived \cup U /\ ghost'.granted = ghost.granted
    <3>1. U \subseteq Clients
      BY <2>3, <2>6
    <3>2. ghost' = [ghost EXCEPT !.faults = @ + 1, !.revived = @ \cup U]
      BY <2>1 DEF U
    <3> QED  BY <3>1, <3>2, FaultRevives
  <2>9. TypeOK'
    BY <1>2, <1>3, <2>1, <2>7, <2>8 DEF TypeOK, GhostType
  <2>10. /\ \A p, f : Pending(p, f) => Pending(p, f)' \/ (p = m.name /\ f \in m.filters)
         /\ \A f \in m.filters : Pending(m.name, f)
    BY <1>4, <1>6 DEF Pending
  <2>11. ASSUME NEW r \in db'.rows, Pending(r.name, r.filter)
         PROVE  Pending(r.name, r.filter)' \/ r.name \in ghost'.revived
    <3>1. PICK p, f : p = r.name /\ f = r.filter
      OBVIOUS
    <3>2. CASE p = m.name /\ f \in m.filters
      <4>1. f \notin fs
        BY <3>1, <3>2, <2>2, <2>7
      <4> QED  BY <3>1, <3>2, <4>1, <2>6, <2>8
    <3> QED  BY <3>1, <3>2, <2>10, <2>11
  <2>12. \A p, f : Stored(p, f) /\ ~Pending(p, f) => Stored(p, f)'
    BY <2>2, <2>7, <2>10 DEF Stored
  <2>13. \A j \in DOMAIN sess : Cut(sess[j], sess'[j])
    BY <2>1 DEF Cut
  <2>14. /\ router'.phase # "run" /\ Range(router'.queue) \subseteq Range(router.queue)
         /\ router'.tree \subseteq router.tree /\ router'.sending \subseteq router.sending
         /\ db'.generation = db.generation /\ db'.rows \subseteq db.rows
         /\ ghost.revived \subseteq ghost'.revived /\ ghost'.granted = ghost.granted
         /\ registry' = registry /\ DOMAIN sess' = DOMAIN sess
         /\ \A x \in Range(router'.queue) : x.op = "subscribe" => sess'[x.inst] = sess[x.inst]
    BY <1>2, <1>3, <1>4, <2>1, <2>2, <2>7, <2>8
  <2>15. Core'
    BY <1>4, <1>5, <2>11, <2>12, <2>13, <2>14, LosesCore
  <2> QED  BY <2>9, <2>15
<1>7. CASE m.op # "unsubscribe"
  <2>1. sess' = Dropped(sess, <<m>>) /\ Fault /\ UNCHANGED db
    BY <1>1, <1>7 DEF RouterFails
  <2>2. Range(<<m>>) = {m}
    BY DEF Range
  <2>3. /\ sess' \in Seq(SessionType) /\ DOMAIN sess' = DOMAIN sess
        /\ \A j \in DOMAIN sess : Cut(sess[j], sess'[j])
        /\ \A j \in DOMAIN sess : j \notin Waiting(<<m>>) => sess'[j] = sess[j]
    BY <1>4, <2>1, <2>2, DroppedSessions
  <2>4. ghost' \in GhostType /\ ghost'.revived = ghost.revived /\ ghost'.granted = ghost.granted
    BY <2>1, FaultType
  <2>5. TypeOK'
    BY <1>2, <1>3, <2>1, <2>3, <2>4 DEF TypeOK, GhostType
  <2>6. ASSUME NEW k \in Range(router'.queue), k.op = "subscribe" PROVE sess'[k.inst] = sess[k.inst]
    <3>1. k.inst \in DOMAIN sess /\ sess[k.inst].name = k.name
      BY <2>6, <1>4 DEF Core, SubscriberWaits
    <3>2. m.op = "subscribe" => sess[m.inst].name = m.name /\ k.name # m.name
      BY <2>6, <1>4 DEF Core, SubscriberWaits
    <3>3. Waiting(<<m>>) = IF m.op = "subscribe" THEN {m.inst} ELSE {}
      BY <2>2 DEF Waiting
    <3>4. k.inst \notin Waiting(<<m>>)
      BY <3>1, <3>2, <3>3
    <3> QED  BY <3>1, <3>4, <2>3
  <2>7. \A p, f : Pending(p, f) => Pending(p, f)'
    BY <1>4, <1>7 DEF Pending
  <2>8. \A p, f : Stored(p, f) => Stored(p, f)'
    BY <2>1 DEF Stored
  <2>9. /\ router'.phase # "run" /\ Range(router'.queue) \subseteq Range(router.queue)
        /\ router'.tree \subseteq router.tree /\ router'.sending \subseteq router.sending
        /\ db'.generation = db.generation /\ db'.rows \subseteq db.rows
        /\ ghost.revived \subseteq ghost'.revived /\ registry' = registry
        /\ \A r \in db'.rows :
              Pending(r.name, r.filter) => Pending(r.name, r.filter)' \/ r.name \in ghost'.revived
        /\ \A p, f : Stored(p, f) /\ ~Pending(p, f) => Stored(p, f)'
    BY <1>2, <1>3, <1>4, <2>1, <2>4, <2>7, <2>8
  <2>10. Core'
    BY <1>4, <1>5, <2>3, <2>4, <2>6, <2>9, LosesCore
  <2> QED  BY <2>5, <2>10
<1> QED  BY <1>6, <1>7

-----------------------------------------------------------------------------
(* The end of the process, and the beginning. *)

LEMMA CrashStep ==
  ASSUME TypeOK, Core, Crash
  PROVE  TypeOK' /\ Core'
<1> DEFINE U == Unsubscribing(router.queue)
<1>1. /\ broker' = NewBroker /\ registry' = NewRegistry /\ router' = NoRouter(router.inc)
      /\ sess' = [i \in DOMAIN sess |-> Gone(sess[i])]
      /\ conn' = Close(conn, {c \in Conns : conn[c].st # "idle"})
      /\ ghost' = [ghost EXCEPT !.faults = @ + 1, !.revived = @ \cup U]
      /\ db' = db
  BY DEF Crash
<1>2. /\ DOMAIN sess = 1 .. Len(sess) /\ Len(sess) \in Nat
      /\ \A j \in DOMAIN sess : sess[j] \in SessionType
  BY Types
<1>3. \A j \in DOMAIN sess :
         /\ Gone(sess[j]) \in SessionType /\ Gone(sess[j]).phase = "gone"
         /\ Gone(sess[j]).reply = "none" /\ Gone(sess[j]).queue = <<>>
  BY <1>2, GoneType
<1>4. /\ DOMAIN sess' = DOMAIN sess /\ sess' \in Seq(SessionType)
      /\ \A j \in DOMAIN sess : sess'[j] = Gone(sess[j])
  BY <1>1, <1>2, <1>3
<1>5. \A j \in DOMAIN sess : sess'[j].phase = "gone" /\ sess'[j].reply = "none" /\ Range(sess'[j].queue) = {}
  BY <1>3, <1>4, RangeEmpty
<1>6. /\ router'.phase = "gone" /\ router'.queue = <<>> /\ router'.tree = {} /\ router'.sending = {}
      /\ router' \in [inc : Nat, phase : {"run", "ended", "gone"}, queue : Seq(RouterMsg),
                      tree : SUBSET Entries, sending : SUBSET Entries]
  BY <1>1, Types DEF NoRouter
<1>7. Range(router'.queue) = {}
  BY <1>6, RangeEmpty
<1>8. U \subseteq Clients
  BY Types, InRange, UnsubscribingType
<1>9. \A n, f : Pending(n, f) => n \in U
  BY DEF Pending, Unsubscribing
<1> HIDE DEF U
<1>10. /\ ghost' \in GhostType /\ ghost'.revived = ghost.revived \cup U /\ ghost'.granted = ghost.granted
  BY <1>1, <1>8, FaultRevives
<1>11. /\ broker' \in [step : {"boot", "idle", "answer"}, router_tx : Nat,
                       requests : Seq([conn : Conns, name : Clients])]
       /\ broker'.step = "boot"
  BY <1>1 DEF NewBroker, None
<1>12. /\ registry' \in [Clients -> [inst : Nat, running : BOOLEAN]]
       /\ \A n \in Clients : registry'[n].inst = None
  BY <1>1 DEF NewRegistry, None
<1>13. conn' \in [Conns -> ConnType]
  BY <1>1, Types, CloseType
<1>14. TypeOK'
  BY <1>1, <1>4, <1>6, <1>10, <1>11, <1>12, <1>13 DEF TypeOK, GhostType
<1>15. Registered' /\ Started' /\ HandlersOK' /\ GenerationsOK' /\ FiltersKnown' /\ AnswerHolds'
  <2>1. Registered'
    BY <1>4, <1>5, <1>12 DEF Registered
  <2>2. Started'
    BY <1>6, <1>11 DEF Started
  <2>3. HandlersOK' /\ GenerationsOK' /\ FiltersKnown' /\ AnswerHolds'
    BY <1>4, <1>5 DEF HandlersOK, GenerationsOK, FiltersKnown, AnswerHolds
  <2> QED  BY <2>1, <2>2, <2>3
<1>16. RowsOK'
  BY <1>1, <1>9, <1>10 DEF Core, RowsOK
<1>17. TreeOK' /\ SubscriberWaits' /\ SubscribeIsLast'
  BY <1>6, <1>7 DEF TreeOK, SubscriberWaits, SubscribeIsLast
<1>18. TagsOK'
  BY <1>4, <1>5, <1>6 DEF TagsOK
<1>19. GrantHolds'
  BY <1>1, <1>7, <1>10 DEF Core, GrantHolds, Stored, Pending
<1> QED  BY <1>14, <1>15, <1>16, <1>17, <1>18, <1>19 DEF Core

LEMMA InitInv ==
  ASSUME Init
  PROVE  TypeOK /\ Core
<1>1. /\ DOMAIN sess = {} /\ sess \in Seq(SessionType)
      /\ router.phase = "gone" /\ router.queue = <<>> /\ router.tree = {} /\ router.sending = {}
      /\ db.rows = {} /\ ghost.granted = {} /\ broker.step = "boot"
      /\ \A n \in Clients : registry[n].inst = None
  BY DEF Init, NoRouter, NewBroker, NewRegistry
<1>2. Range(router.queue) = {}
  BY <1>1, RangeEmpty
<1>3. TypeOK
  BY DEF Init, TypeOK, NewBroker, NewRegistry, NoRouter, NewConn, ConnType, None
<1>4. Core
  BY <1>1, <1>2 DEF Core, Registered, Started, HandlersOK, GenerationsOK, FiltersKnown, RowsOK, TreeOK,
                    TagsOK, SubscriberWaits, SubscribeIsLast, AnswerHolds, GrantHolds
<1> QED  BY <1>3, <1>4

-----------------------------------------------------------------------------
(* All steps. *)

LEMMA NextStep ==
  ASSUME TypeOK, Core, [Next]_vars
  PROVE  TypeOK' /\ Core'
<1>1. CASE BrokerStep
  BY <1>1, BrokerBootStep, BrokerTakeStep, BrokerAnswerStep DEF BrokerStep
<1>2. CASE RouterStep
  BY <1>2, RouterPublishStep, RouterForwardStep, RouterSubscribeStep, RouterUnsubscribeStep,
     RouterFailsStep, RouterDropStep DEF RouterStep
<1>3. CASE Crash
  BY <1>3, CrashStep
<1>4. ASSUME NEW i \in DOMAIN sess, SessionStep(i) PROVE TypeOK' /\ Core'
  BY <1>4, SessionInitStep, SessionNewClientStep, SessionCleanStep, SessionSaveStep,
     SessionSubscribeStep, SessionSubackStep, SessionForwardStep, SessionInternalStep,
     SessionDropStep DEF SessionStep
<1>5. ASSUME NEW c \in Conns,
             Connect(c) \/ Attach(c) \/ Send(c) \/ Told(c) \/ Disconnect(c) \/ KeepAliveFires(c)
      PROVE  TypeOK' /\ Core'
  BY <1>5, ConnectStep, AttachStep, SendStep, LosingStep
<1>6. CASE UNCHANGED vars
  <2>1. UNCHANGED <<broker, registry, router, sess, conn, db, ghost>>
    BY <1>6 DEF vars
  <2>2. TypeOK'
    BY <2>1 DEF TypeOK
  <2>3. Started'
    BY <2>1 DEF Core, Started
  <2>4. CalmRouter /\ CalmRows /\ registry' = registry /\ DOMAIN sess' = DOMAIN sess
    BY <2>1 DEF CalmRouter, CalmRows
  <2>5. \A i \in DOMAIN sess : Keeps(sess[i], sess'[i])
    BY <2>1 DEF Keeps
  <2> QED  BY <2>2, <2>3, <2>4, <2>5, KeepsCore
<1> QED  BY <1>1, <1>2, <1>3, <1>4, <1>5, <1>6 DEF Next

\* Whatever the broker, the routers, the sessions and the connections do, and
\* whenever a database call fails or the process dies, the registry knows every
\* task, the router's tree agrees with the rows, and every row, message and
\* answer is of the session's generation or about to be withdrawn.
THEOREM Invariance == Spec => []IndInv
<1>1. IndInv <=> TypeOK /\ Core
  BY DEF IndInv, Core
<1>2. Init => IndInv
  BY <1>1, InitInv
<1>3. IndInv /\ [Next]_vars => IndInv'
  <2>1. (TypeOK /\ Core)' => IndInv'
    BY DEF IndInv, Core
  <2> QED  BY <1>1, <2>1, NextStep
<1> QED  BY <1>2, <1>3, PTL DEF Spec

\* There are never two tasks for one session name that are not dropped, however
\* requests, publishes, restarts and the drop of the old task interleave
\* (Sessions::get_session and start_session).
THEOREM OneTaskOnly == Spec => []OneTaskPerSession
<1>1. IndInv => OneTaskPerSession
  BY OneTask DEF IndInv
<1> QED  BY <1>1, Invariance, PTL

\* A message the session accepts was asked for in the generation it is in: a
\* clean session is told nothing on account of the subscriptions before it
\* (clean_session, publish_message and the tag both compare).
THEOREM CleanSessionsIsolated == Spec => []CleanIsolates
<1>1. IndInv => CleanIsolates
  BY DEF IndInv, TagsOK, CleanIsolates, Accepted
<1> QED  BY <1>1, Invariance, PTL

\* What a SUBACK has granted is in the rows, and in the tree of a router that
\* runs under the generation the session is in, through restarts of both
\* (Subscriptions::subscribe, load_persistent_subscriptions).
THEOREM GrantsStayLive == Spec => []GrantedIsLive
<1>1. ASSUME IndInv, NEW g \in ghost.granted, g[1] \notin ghost.revived
      PROVE  /\ \E r \in db.rows : r.name = g[1] /\ r.filter = g[2]
             /\ router.phase = "run" =>
                   \E e \in router.tree : /\ e.name = g[1] /\ e.filter = g[2]
                                          /\ e.generation = db.generation[g[1]]
  <2>1. PICK r \in db.rows : r.name = g[1] /\ r.filter = g[2]
    BY <1>1 DEF IndInv, GrantHolds, Stored
  <2>2. r.born = db.generation[g[1]]
    BY <1>1, <2>1 DEF IndInv, GrantHolds, RowsOK
  <2>3. ASSUME router.phase = "run"
        PROVE  \E e \in router.tree : /\ e.name = g[1] /\ e.filter = g[2]
                                      /\ e.generation = db.generation[g[1]]
    <3>1. PICK e \in router.tree : r = Row(e)
      BY <1>1, <2>3 DEF IndInv, TreeOK
    <3>2. r.name = e.name /\ r.filter = e.filter /\ r.born = e.born
      BY <3>1 DEF Row
    <3>3. e.generation = e.born
      BY <1>1, <2>1, <3>2 DEF IndInv, TagsOK
    <3> QED  BY <2>1, <2>2, <3>2, <3>3
  <2> QED  BY <2>1, <2>3
<1>2. IndInv => GrantedIsLive
  BY <1>1 DEF GrantedIsLive
<1> QED  BY <1>2, Invariance, PTL

=============================================================================
