--------------------------- MODULE ConnectionProofs ---------------------------
(***************************************************************************)
(* Proofs about Connection: no client is heard by a session, or gets the   *)
(* larger packet limit, before it is authenticated; a session hears of a   *)
(* connection in order and without gaps; and no will is dropped but a      *)
(* second one with QoS 2.                                                  *)
(***************************************************************************)
EXTENDS Connection, TLAPS

-----------------------------------------------------------------------------
(* The log. *)

\* What Append does to a sequence.
LEMMA Appended ==
  ASSUME NEW S, NEW s \in Seq(S), NEW e \in S
  PROVE  /\ Append(s, e) \in Seq(S)
         /\ DOMAIN Append(s, e) = 1 .. (Len(s) + 1) /\ Len(Append(s, e)) = Len(s) + 1
         /\ DOMAIN s = 1 .. Len(s) /\ Len(s) \in Nat
         /\ \A i \in 1 .. Len(s) : Append(s, e)[i] = s[i]
         /\ Append(s, e)[Len(s) + 1] = e
  OBVIOUS

LEMMA AppendCases ==
  ASSUME NEW S, NEW s \in Seq(S), NEW e \in S, NEW i \in DOMAIN Append(s, e)
  PROVE  Append(s, e)[i] = e \/ (i \in DOMAIN s /\ Append(s, e)[i] = s[i])
<1> DEFINE a == Append(s, e)
<1>1. /\ DOMAIN a = 1 .. (Len(s) + 1) /\ Len(s) \in Nat /\ DOMAIN s = 1 .. Len(s)
      /\ \A j \in 1 .. Len(s) : a[j] = s[j]
      /\ a[Len(s) + 1] = e
  BY Appended
<1>2. i \in 1 .. Len(s) \/ i = Len(s) + 1
  BY <1>1
<1> HIDE DEF a
<1>3. a[i] = e \/ (i \in DOMAIN s /\ a[i] = s[i])
  BY <1>1, <1>2
<1> QED  BY <1>3 DEF a

\* What Tail does to one.
LEMMA TailShifts ==
  ASSUME NEW S, NEW s \in Seq(S), s # <<>>
  PROVE  /\ Tail(s) \in Seq(S) /\ Head(s) \in S /\ Head(s) = s[1]
         /\ DOMAIN s = 1 .. Len(s) /\ Len(s) \in Nat \ {0}
         /\ DOMAIN Tail(s) = 1 .. (Len(s) - 1)
         /\ \A i \in 1 .. (Len(s) - 1) : Tail(s)[i] = s[i + 1]
  OBVIOUS

\* An entry that may follow those of its connection.
Follows(l, m) ==
  LET mine == {j \in DOMAIN l : l[j].conn = m.conn}
  IN  /\ \A j \in mine : l[j].kind # "will"
      /\ m.kind = "client" => mine = {}
      /\ m.kind # "client" => mine # {}
      /\ m.kind = "packet" =>
            /\ \A j \in mine : l[j].kind = "packet" => l[j].n < m.n
            /\ m.n = 1 \/ \E j \in mine : l[j].kind = "packet" /\ l[j].n = m.n - 1

LEMMA AppendInOrder ==
  ASSUME NEW l \in Seq(LogEntry), InOrder(l), NEW m \in LogEntry, Follows(l, m)
  PROVE  InOrder(Append(l, m))
<1> DEFINE a == Append(l, m)
           N == Len(l)
           others(i) == {j \in DOMAIN a : a[j].conn = a[i].conn}
           before(i) == {j \in others(i) : j < i}
<1>1. /\ DOMAIN a = 1 .. (N + 1) /\ DOMAIN l = 1 .. N /\ N \in Nat
      /\ \A i \in 1 .. N : a[i] = l[i]
      /\ a[N + 1] = m
  BY Appended
<1> HIDE DEF a
<1>2. ASSUME NEW i \in 1 .. N
      PROVE  /\ a[i].kind = "client" => before(i) = {}
             /\ a[i].kind # "client" => \E j \in before(i) : a[j].kind = "client"
             /\ a[i].kind = "packet" =>
                   /\ \A j \in before(i) : a[j].kind = "packet" => a[j].n < a[i].n
                   /\ a[i].n = 1 \/ \E j \in before(i) : a[j].kind = "packet" /\ a[j].n = a[i].n - 1
             /\ a[i].kind = "will" => \A j \in others(i) : j <= i
  <2>1. before(i) = {j \in DOMAIN l : l[j].conn = l[i].conn /\ j < i} /\ a[i] = l[i]
    BY <1>1
  <2>2. \A j \in before(i) : a[j] = l[j]
    BY <1>1
  <2>3. a[i].kind = "will" => \A j \in others(i) : j <= i
    BY <1>1 DEF InOrder, Follows
  <2> QED  BY <2>1, <2>2, <2>3, <1>1 DEF InOrder
<1>3. \/ \E j \in before(N + 1) : a[j].kind = "client"
      \/ m.kind = "client"
  BY <1>1 DEF InOrder, Follows
<1>4. LET i == N + 1 IN
      /\ a[i].kind = "client" => before(i) = {}
      /\ a[i].kind # "client" => \E j \in before(i) : a[j].kind = "client"
      /\ a[i].kind = "packet" =>
            /\ \A j \in before(i) : a[j].kind = "packet" => a[j].n < a[i].n
            /\ a[i].n = 1 \/ \E j \in before(i) : a[j].kind = "packet" /\ a[j].n = a[i].n - 1
      /\ a[i].kind = "will" => \A j \in others(i) : j <= i
  BY <1>1, <1>3 DEF Follows
<1>5. \A i \in DOMAIN a : i \in 1 .. N \/ i = N + 1
  BY <1>1
<1> QED  BY <1>2, <1>4, <1>5 DEF InOrder, a

\* Entries of others do not matter to a connection.
LEMMA OthersLog ==
  ASSUME NEW l \in Seq(LogEntry), NEW m \in LogEntry, NEW c, m.conn # c,
         NEW k, LogOK(c, k, l)
  PROVE  LogOK(c, k, Append(l, m))
<1> DEFINE a == Append(l, m)
           N == Len(l)
<1>1. /\ DOMAIN a = 1 .. (N + 1) /\ DOMAIN l = 1 .. N /\ N \in Nat
      /\ \A i \in 1 .. N : a[i] = l[i]
      /\ a[N + 1] = m
  BY Appended
<1> HIDE DEF a
<1>2. Heard(c, a) <=> Heard(c, l)
  BY <1>1 DEF Heard
<1>3. \A i \in DOMAIN a : a[i].conn = c => i \in DOMAIN l /\ a[i] = l[i]
  BY <1>1
<1>4. \A i \in DOMAIN l : i \in DOMAIN a /\ a[i] = l[i]
  BY <1>1
<1>5. \A i \in DOMAIN a :
         a[i].conn = c =>
            /\ a[i].kind = "will" => k.st = "closed"
            /\ a[i].kind = "packet" /\ k.st = "running" =>
                  /\ a[i].n <= k.sent
                  /\ \A j \in DOMAIN k.socket :
                        k.socket[j].kind \in Forwarded => a[i].n < k.socket[j].n
  BY <1>3 DEF LogOK
<1>6. \A n \in 1 .. k.sent :
         \/ \E i \in DOMAIN a : a[i].conn = c /\ a[i].kind = "packet" /\ a[i].n = n
         \/ \E j \in DOMAIN k.socket : k.socket[j].kind \in Forwarded /\ k.socket[j].n = n
  BY <1>4 DEF LogOK
<1> QED  BY <1>2, <1>5, <1>6 DEF LogOK, a

-----------------------------------------------------------------------------
(* Steps of one connection. *)

\* The invariant in parts.
LEMMA Parts ==
  ASSUME IndInv
  PROVE  /\ conn \in [Conns -> ConnType] /\ auth \in Seq(Conns)
         /\ session \in [client : Conns \cup {None}, zero : BOOLEAN]
         /\ log \in Seq(LogEntry) /\ taken \in 0 .. Len(log) /\ ghost \in GhostType
         /\ \A c \in Conns : AccessOK(conn[c]) /\ SocketOK(conn[c]) /\ LogOK(c, conn[c], log)
         /\ InOrder(log) /\ AuthOK(auth, conn) /\ FateOK
  BY DEF IndInv, TypeOK

\* The fields of a message in the channel.
LEMMA EntryFields ==
  ASSUME NEW m \in LogEntry
  PROVE  m.conn \in Conns /\ m.kind \in {"client", "packet", "will"} /\ m.n \in Nat
  BY DEF LogEntry

LEMMA LogFields ==
  ASSUME NEW l \in Seq(LogEntry), NEW i \in DOMAIN l
  PROVE  l[i].conn \in Conns /\ l[i].kind \in {"client", "packet", "will"} /\ l[i].n \in Nat
<1>1. l[i] \in LogEntry
  OBVIOUS
<1> QED  BY <1>1, EntryFields

\* Wills keep their fates while the requests of those heard stay the same.
LEMMA FateKept ==
  ASSUME IndInv, log' = log, session'.zero = session.zero, taken' = taken,
         ghost'.fate = ghost.fate,
         \A c \in Conns : Heard(c, log) => conn'[c].req = conn[c].req
  PROVE  FateOK'
<1>0. \A c \in Conns : ghost.fate[c] # None => Heard(c, log)
  <2>1. \A c \in Conns :
           ghost.fate[c] # None => \E i \in DOMAIN log : log[i].conn = c /\ log[i].kind = "will"
    BY DEF IndInv, FateOK
  <2> QED  BY <2>1 DEF Heard
<1>1. \A c \in Conns : ghost.fate[c] # None => conn'[c].req = conn[c].req
  BY <1>0
<1>2. \A i \in DOMAIN log : log[i].conn \in Conns
  BY Parts, LogFields
<1>3. \A i \in DOMAIN log : conn'[log[i].conn].req = conn[log[i].conn].req
  BY <1>2 DEF Heard
<1>4. None \notin {"routed", "swallowed", "lost"}
  BY ConstantsOK
<1>5. WillIsPublished'
  <2> SUFFICES ASSUME NEW c \in Conns, ghost'.fate[c] = "swallowed"
               PROVE  /\ conn'[c].req.will = 2
                      /\ \E d \in Conns \ {c} : ghost'.fate[d] = "routed" /\ conn'[d].req.will = 2
    BY DEF WillIsPublished
  <2>1. conn[c].req.will = 2 /\ conn'[c].req = conn[c].req
    BY <1>1, <1>4 DEF IndInv, FateOK, WillIsPublished
  <2>2. PICK d \in Conns \ {c} : ghost.fate[d] = "routed" /\ conn[d].req.will = 2
    BY DEF IndInv, FateOK, WillIsPublished
  <2>3. conn'[d].req = conn[d].req
    BY <1>1, <1>4, <2>2
  <2> QED  BY <2>1, <2>2, <2>3
<1>6. session'.zero => \E c \in Conns : ghost'.fate[c] = "routed" /\ conn'[c].req.will = 2
  BY <1>1, <1>4 DEF IndInv, FateOK
<1> QED  BY <1>3, <1>5, <1>6 DEF IndInv, FateOK

\* A step of one connection that the session does not hear of.
LEMMA LocalStep ==
  ASSUME IndInv, NEW c \in Conns, NEW k \in ConnType, Upd(c, k),
         AccessOK(k), SocketOK(k), LogOK(c, k, log),
         k.req = conn[c].req \/ ~Heard(c, log),
         auth' \in Seq(Conns), AuthOK(auth', conn'),
         ghost' \in GhostType, ghost'.fate = ghost.fate,
         UNCHANGED <<session, log, taken>>
  PROVE  IndInv'
<1>1. /\ conn' \in [Conns -> ConnType] /\ conn'[c] = k
      /\ \A d \in Conns : d # c => conn'[d] = conn[d]
  BY Parts DEF Upd
<1>2. TypeOK'
  BY <1>1, Parts DEF TypeOK
<1>3. \A d \in Conns : AccessOK(conn'[d]) /\ SocketOK(conn'[d]) /\ LogOK(d, conn'[d], log')
  BY <1>1, Parts
<1>4. FateOK'
  BY <1>1, FateKept
<1>5. InOrder(log')
  BY Parts
<1> QED  BY <1>2, <1>3, <1>4, <1>5 DEF IndInv

\* The queue of the authentication service when a connection moves.
LEMMA AuthKept ==
  ASSUME IndInv, NEW c \in Conns, NEW k, Upd(c, k), conn[c].st = "auth" => k.st = "auth",
         auth' = auth
  PROVE  auth' \in Seq(Conns) /\ AuthOK(auth', conn')
<1>1. auth \in Seq(Conns) /\ conn \in [Conns -> ConnType] /\ AuthOK(auth, conn)
  BY Parts
<1>2. \A i \in DOMAIN auth : auth[i] \in Conns
  BY <1>1
<1> QED  BY <1>1, <1>2 DEF Upd, AuthOK

\* A step of one connection that puts a message into the session's channel.
LEMMA LogStep ==
  ASSUME IndInv, NEW c \in Conns, NEW k \in ConnType, Upd(c, k),
         NEW m \in LogEntry, m.conn = c, log' = Append(log, m), Follows(log, m),
         AccessOK(k), SocketOK(k), LogOK(c, k, Append(log, m)),
         k.req = conn[c].req, m.kind = "will" => k.req.will # None,
         auth' \in Seq(Conns), AuthOK(auth', conn'),
         UNCHANGED <<session, taken, ghost>>
  PROVE  IndInv'
<1>0. /\ conn \in [Conns -> ConnType] /\ log \in Seq(LogEntry) /\ taken \in 0 .. Len(log)
      /\ ghost \in GhostType /\ InOrder(log) /\ FateOK
      /\ session \in [client : Conns \cup {None}, zero : BOOLEAN]
  BY Parts
<1>1. /\ conn' \in [Conns -> ConnType] /\ conn'[c] = k
      /\ \A d \in Conns : d # c => conn'[d] = conn[d]
      /\ \A d \in Conns : conn'[d].req = conn[d].req
  BY <1>0 DEF Upd
<1>2. /\ DOMAIN log' = 1 .. (Len(log) + 1) /\ DOMAIN log = 1 .. Len(log) /\ Len(log) \in Nat
      /\ \A i \in 1 .. Len(log) : log'[i] = log[i]
      /\ log'[Len(log) + 1] = m /\ Len(log') = Len(log) + 1 /\ log' \in Seq(LogEntry)
  BY <1>0, Appended
<1>3. TypeOK'
  BY <1>0, <1>1, <1>2 DEF TypeOK
<1>4. \A d \in Conns : AccessOK(conn'[d]) /\ SocketOK(conn'[d]) /\ LogOK(d, conn'[d], log')
  BY <1>0, <1>1, Parts, OthersLog
<1>5. InOrder(log')
  BY <1>0, AppendInOrder
<1>6. FateOK'
  <2>1. ghost.fate[c] = None
    BY <1>0 DEF FateOK, Follows
  <2>2. WillIsPublished'
    <3>1. WillIsPublished
      BY <1>0 DEF FateOK
    <3> QED  BY <3>1, <1>1 DEF WillIsPublished
  <2>3. session'.zero => \E d \in Conns : ghost'.fate[d] = "routed" /\ conn'[d].req.will = 2
    BY <1>0, <1>1 DEF FateOK
  <2>4. \A d \in Conns :
           ghost'.fate[d] # None => \E i \in DOMAIN log' : log'[i].conn = d /\ log'[i].kind = "will"
    BY <1>0, <1>2 DEF FateOK
  <2>5. \A i \in DOMAIN log' :
           log'[i].kind = "will" =>
              /\ conn'[log'[i].conn].req.will # None
              /\ i > taken' => ghost'.fate[log'[i].conn] = None
    <3> SUFFICES ASSUME NEW i \in DOMAIN log', log'[i].kind = "will"
                 PROVE  /\ conn'[log'[i].conn].req.will # None
                        /\ i > taken' => ghost'.fate[log'[i].conn] = None
      OBVIOUS
    <3>1. CASE i = Len(log) + 1
      BY <3>1, <1>1, <1>2, <2>1
    <3>2. CASE i \in 1 .. Len(log)
      <4>1. log'[i] = log[i] /\ log[i].conn \in Conns /\ i \in DOMAIN log
        BY <3>2, <1>2, <1>0, LogFields
      <4>2. /\ conn[log[i].conn].req.will # None
            /\ i > taken => ghost.fate[log[i].conn] = None
        BY <3>2, <4>1, <1>0 DEF FateOK
      <4> QED  BY <4>1, <4>2, <1>1
    <3> QED  BY <3>1, <3>2, <1>2
  <2> QED  BY <2>2, <2>3, <2>4, <2>5 DEF FateOK
<1> QED  BY <1>3, <1>4, <1>5, <1>6 DEF IndInv

\* A connection that is over.
LEMMA ClosedOK ==
  ASSUME IndInv, NEW c \in Conns, NEW k \in ConnType,
         k.req = conn[c].req, k.limit = conn[c].limit
  PROVE  /\ Closed(k) \in ConnType /\ Closed(k).st = "closed" /\ Closed(k).req = k.req
         /\ AccessOK(Closed(k)) /\ SocketOK(Closed(k)) /\ LogOK(c, Closed(k), log)
         /\ Closed(k).limit = k.limit /\ Closed(k).socket = <<>> /\ Closed(k).sent = 0
<1>1. /\ Closed(k).st = "closed" /\ Closed(k).req = k.req /\ Closed(k).limit = k.limit
      /\ Closed(k).socket = <<>> /\ Closed(k).sent = 0
  BY DEF Closed, NewConn
<1>2. k.req \in Requests \cup {None} /\ k.limit \in {"pre", "post"}
  BY DEF ConnType
<1>3. Closed(k) \in ConnType
  <2>1. <<>> \in Seq(PacketType) /\ <<>> \in Seq(Hears)
    OBVIOUS
  <2> QED  BY <1>2, <2>1 DEF Closed, NewConn, ConnType
<1>4. AccessOK(conn[c]) /\ LogOK(c, conn[c], log)
  BY Parts
<1>5. DOMAIN <<>> = {}
  OBVIOUS
<1>6. AccessOK(Closed(k)) /\ SocketOK(Closed(k))
  BY <1>1, <1>4, <1>5 DEF AccessOK, SocketOK
<1>7. LogOK(c, Closed(k), log)
  BY <1>1, <1>4, <1>5 DEF LogOK
<1> QED  BY <1>1, <1>3, <1>6, <1>7

LEMMA ClosesOK ==
  ASSUME IndInv, NEW c \in Conns, NEW k \in ConnType, conn[c].st # "auth",
         k.req = conn[c].req, k.limit = conn[c].limit, Upd(c, Closed(k)),
         UNCHANGED <<auth, session, log, taken, ghost>>
  PROVE  IndInv'
<1>1. ghost' \in GhostType
  BY Parts
<1> QED  BY <1>1, ClosedOK, AuthKept, LocalStep

\* The worker's loop ends.
LEMMA EndsOK ==
  ASSUME IndInv, NEW c \in Conns, NEW k \in ConnType, conn[c].st = "running",
         k.req = conn[c].req, k.limit = conn[c].limit, Ends(c, k),
         UNCHANGED <<auth, session, taken, ghost>>
  PROVE  IndInv'
<1> DEFINE m == Entry(c, "will", k.sent)
<1>1. Upd(c, Closed(k))
  BY DEF Ends
<1>2. CASE log' = log
  BY <1>1, <1>2, ClosesOK
<1>3. CASE log' = Append(log, m) /\ k.req.will # None
  <2>1. m \in LogEntry /\ m.conn = c /\ m.kind = "will"
    BY DEF Entry, LogEntry, ConnType
  <2>2. log \in Seq(LogEntry) /\ LogOK(c, conn[c], log)
    BY Parts
  <2>3. Follows(log, m)
    BY <2>1, <2>2 DEF Follows, LogOK, Heard
  <2>4. LogOK(c, Closed(k), Append(log, m))
    <3> DEFINE a == Append(log, m)
    <3>1. /\ DOMAIN a = 1 .. (Len(log) + 1) /\ DOMAIN log = 1 .. Len(log)
          /\ \A i \in 1 .. Len(log) : a[i] = log[i]
          /\ a[Len(log) + 1] = m
      BY <2>1, <2>2, Appended
    <3> HIDE DEF a
    <3>2. Closed(k).st = "closed" /\ Closed(k).limit = "post" /\ Closed(k).sent = 0
      <4>1. conn[c].limit = "post"
        BY Parts DEF AccessOK
      <4> QED  BY <4>1, ClosedOK
    <3>3. LogOK(c, Closed(k), a)
      BY <3>2 DEF LogOK
    <3> QED  BY <3>3 DEF a
  <2>5. auth' \in Seq(Conns) /\ AuthOK(auth', conn')
    BY <1>1, AuthKept
  <2> QED  BY <1>1, <1>3, <2>1, <2>3, <2>4, <2>5, ClosedOK, LogStep
<1> QED  BY <1>2, <1>3 DEF Ends

\* A change that touches neither socket nor progress.
LEMMA QuietOK ==
  ASSUME IndInv, NEW c \in Conns, NEW k \in ConnType, Upd(c, k),
         k.st = conn[c].st, k.req = conn[c].req, k.limit = conn[c].limit,
         k.socket = conn[c].socket, k.sent = conn[c].sent,
         UNCHANGED <<auth, session, log, taken, ghost>>
  PROVE  IndInv'
<1>1. AccessOK(conn[c]) /\ SocketOK(conn[c]) /\ LogOK(c, conn[c], log)
  BY Parts
<1>2. AccessOK(k) /\ SocketOK(k) /\ LogOK(c, k, log)
  BY <1>1 DEF AccessOK, SocketOK, LogOK
<1>3. ghost' \in GhostType
  BY Parts
<1> QED  BY <1>2, <1>3, AuthKept, LocalStep

-----------------------------------------------------------------------------
(* The client. *)

LEMMA ClientConnectsOK ==
  ASSUME IndInv, NEW c \in Conns, ClientConnects(c)
  PROVE  IndInv'
<1> DEFINE k == [conn[c] EXCEPT !.st = "connect"]
<1>1. conn[c] \in ConnType
  BY Parts
<1>2. /\ k \in ConnType /\ k.st = "connect" /\ k.req = conn[c].req /\ k.limit = conn[c].limit
      /\ k.socket = conn[c].socket /\ k.sent = conn[c].sent
  BY <1>1 DEF ConnType
<1>3. Upd(c, k) /\ conn[c].st = "new" /\ UNCHANGED <<auth, session, log, taken, ghost>>
  BY DEF ClientConnects
<1> HIDE DEF k
<1>4. AccessOK(conn[c]) /\ SocketOK(conn[c]) /\ LogOK(c, conn[c], log) /\ ghost \in GhostType
  BY Parts
<1>5. AccessOK(k) /\ SocketOK(k) /\ LogOK(c, k, log)
  BY <1>2, <1>3, <1>4 DEF AccessOK, SocketOK, LogOK
<1> QED  BY <1>2, <1>3, <1>4, <1>5, AuthKept, LocalStep

LEMMA ClientReadsOK ==
  ASSUME IndInv, NEW c \in Conns, ClientReads(c) \/ ClientCloses(c)
  PROVE  IndInv'
<1>1. conn[c] \in ConnType
  BY Parts
<1>2. CASE ClientReads(c)
  <2>0. conn[c].out \in Nat /\ conn[c].out > 0
    BY <1>1, <1>2 DEF ConnType, ClientReads
  <2>1. [conn[c] EXCEPT !.out = @ - 1] \in ConnType
    <3>1. conn[c].out - 1 \in Nat
      BY <2>0
    <3> QED  BY <1>1, <3>1 DEF ConnType
  <2> QED  BY <1>1, <1>2, <2>1, QuietOK DEF ClientReads, ConnType
<1>3. CASE ClientCloses(c)
  <2>1. [conn[c] EXCEPT !.cut = TRUE] \in ConnType
    BY <1>1 DEF ConnType
  <2> QED  BY <1>1, <1>3, <2>1, QuietOK DEF ClientCloses, ConnType
<1> QED  BY <1>2, <1>3

\* The packets in a socket.
LEMMA PacketFields ==
  ASSUME NEW s \in Seq(PacketType), NEW i \in DOMAIN s
  PROVE  s[i].n \in Nat
<1>1. s[i] \in PacketType
  OBVIOUS
<1> QED  BY <1>1 DEF PacketType

\* A packet arrives in the socket.
LEMMA SocketGrows ==
  ASSUME NEW c, NEW l \in Seq(LogEntry), NEW k \in ConnType, NEW k2 \in ConnType,
         SocketOK(k), LogOK(c, k, l), NEW e \in PacketType, k2.socket = Append(k.socket, e),
         k2.st = k.st, k2.limit = k.limit,
         \/ e.kind \notin Forwarded /\ k2.sent = k.sent
         \/ e.kind \in Forwarded /\ e.n = k.sent + 1 /\ k2.sent = k.sent + 1
  PROVE  SocketOK(k2) /\ LogOK(c, k2, l)
<1> DEFINE N == Len(k.socket)
<1>1. k.socket \in Seq(PacketType) /\ k.sent \in Nat /\ k2.sent \in Nat
  BY DEF ConnType
<1>2. /\ DOMAIN k2.socket = 1 .. (N + 1) /\ DOMAIN k.socket = 1 .. N /\ N \in Nat
      /\ \A i \in 1 .. N : k2.socket[i] = k.socket[i]
      /\ k2.socket[N + 1] = e
  BY <1>1, Appended
<1>3. \A i \in 1 .. N : k.socket[i].n \in Nat
  BY <1>1, <1>2, PacketFields
<1>4. SocketOK(k2)
  BY <1>1, <1>2, <1>3 DEF SocketOK
<1>5. \A i \in DOMAIN l :
         l[i].conn = c =>
            /\ l[i].kind = "will" => k2.st = "closed"
            /\ l[i].kind = "packet" /\ k2.st = "running" =>
                  /\ l[i].n <= k2.sent
                  /\ \A j \in DOMAIN k2.socket :
                        k2.socket[j].kind \in Forwarded => l[i].n < k2.socket[j].n
  <2> SUFFICES ASSUME NEW i \in DOMAIN l, l[i].conn = c, l[i].kind = "packet", k2.st = "running"
               PROVE  /\ l[i].n <= k2.sent
                      /\ \A j \in DOMAIN k2.socket :
                            k2.socket[j].kind \in Forwarded => l[i].n < k2.socket[j].n
    BY DEF LogOK
  <2>1. /\ l[i].n <= k.sent
        /\ \A j \in DOMAIN k.socket : k.socket[j].kind \in Forwarded => l[i].n < k.socket[j].n
    BY DEF LogOK
  <2>2. l[i].n \in Nat
    BY LogFields
  <2> QED  BY <1>1, <1>2, <2>1, <2>2
<1>6. \A n \in 1 .. k2.sent :
         \/ \E i \in DOMAIN l : l[i].conn = c /\ l[i].kind = "packet" /\ l[i].n = n
         \/ \E j \in DOMAIN k2.socket : k2.socket[j].kind \in Forwarded /\ k2.socket[j].n = n
  <2> SUFFICES ASSUME NEW n \in 1 .. k2.sent,
                      ~\E i \in DOMAIN l : l[i].conn = c /\ l[i].kind = "packet" /\ l[i].n = n
               PROVE  \E j \in DOMAIN k2.socket : k2.socket[j].kind \in Forwarded /\ k2.socket[j].n = n
    OBVIOUS
  <2>1. CASE n \in 1 .. k.sent
    <3>1. PICK j \in DOMAIN k.socket : k.socket[j].kind \in Forwarded /\ k.socket[j].n = n
      BY <2>1 DEF LogOK
    <3> QED  BY <1>2, <3>1
  <2>2. CASE n = k.sent + 1
    BY <1>1, <1>2, <2>2
  <2> QED  BY <1>1, <2>1, <2>2
<1>7. Heard(c, l) => k2.st \in {"running", "closed"} /\ k2.limit = "post"
  BY DEF LogOK
<1>8. k2.st = "running" => Heard(c, l)
  BY DEF LogOK
<1> QED  BY <1>4, <1>5, <1>6, <1>7, <1>8 DEF LogOK

\* What is left in the socket when its first packet is taken.
LEMMA SocketShrinks ==
  ASSUME NEW k \in ConnType, k.socket # <<>>, SocketOK(k), AccessOK(k),
         NEW k2, k2 = [k EXCEPT !.socket = Tail(@)]
  PROVE  /\ k2 \in ConnType /\ SocketOK(k2) /\ AccessOK(k2)
         /\ k2.st = k.st /\ k2.req = k.req /\ k2.limit = k.limit /\ k2.sent = k.sent
         /\ k2.socket = Tail(k.socket)
<1>1. k.socket \in Seq(PacketType) /\ k.sent \in Nat
  BY DEF ConnType
<1>2. /\ Tail(k.socket) \in Seq(PacketType) /\ Len(k.socket) \in Nat \ {0}
      /\ DOMAIN k.socket = 1 .. Len(k.socket)
      /\ DOMAIN Tail(k.socket) = 1 .. (Len(k.socket) - 1)
      /\ \A i \in 1 .. (Len(k.socket) - 1) : Tail(k.socket)[i] = k.socket[i + 1]
  BY <1>1, TailShifts
<1>3. /\ k2 \in ConnType /\ k2.st = k.st /\ k2.req = k.req /\ k2.limit = k.limit
      /\ k2.sent = k.sent /\ k2.socket = Tail(k.socket)
  BY <1>2 DEF ConnType
<1>4. \A i \in DOMAIN k2.socket :
         i \in Nat /\ i + 1 \in DOMAIN k.socket /\ k2.socket[i] = k.socket[i + 1]
  BY <1>2, <1>3
<1>5. SocketOK(k2)
  BY <1>3, <1>4 DEF SocketOK
<1>6. AccessOK(k2)
  BY <1>3, <1>4 DEF AccessOK
<1> QED  BY <1>3, <1>5, <1>6

\* A packet that is not for the session leaves nothing to do;
LEMMA TakenOK ==
  ASSUME NEW c, NEW l \in Seq(LogEntry), NEW k \in ConnType, k.socket # <<>>,
         SocketOK(k), AccessOK(k), LogOK(c, k, l), Head(k.socket).kind \notin Forwarded,
         NEW k2, k2 = [k EXCEPT !.socket = Tail(@)]
  PROVE  LogOK(c, k2, l)
<1>1. k.socket \in Seq(PacketType)
  BY DEF ConnType
<1>2. /\ Len(k.socket) \in Nat \ {0} /\ DOMAIN k.socket = 1 .. Len(k.socket)
      /\ DOMAIN Tail(k.socket) = 1 .. (Len(k.socket) - 1) /\ Head(k.socket) = k.socket[1]
      /\ \A i \in 1 .. (Len(k.socket) - 1) : Tail(k.socket)[i] = k.socket[i + 1]
  BY <1>1, TailShifts
<1>3. k2.st = k.st /\ k2.limit = k.limit /\ k2.sent = k.sent /\ k2.socket = Tail(k.socket)
  BY SocketShrinks
<1>4. \A i \in DOMAIN k2.socket : i + 1 \in DOMAIN k.socket /\ k2.socket[i] = k.socket[i + 1]
  BY <1>2, <1>3
<1>5. \A j \in DOMAIN k.socket :
         k.socket[j].kind \in Forwarded =>
            j - 1 \in DOMAIN k2.socket /\ k2.socket[j - 1] = k.socket[j]
  BY <1>2, <1>3
<1>6. \A n \in 1 .. k.sent :
         \/ \E i \in DOMAIN l : l[i].conn = c /\ l[i].kind = "packet" /\ l[i].n = n
         \/ \E j \in DOMAIN k2.socket : k2.socket[j].kind \in Forwarded /\ k2.socket[j].n = n
  <2> SUFFICES ASSUME NEW n \in 1 .. k.sent,
                      ~\E i \in DOMAIN l : l[i].conn = c /\ l[i].kind = "packet" /\ l[i].n = n
               PROVE  \E j \in DOMAIN k2.socket : k2.socket[j].kind \in Forwarded /\ k2.socket[j].n = n
    OBVIOUS
  <2>1. PICK j \in DOMAIN k.socket : k.socket[j].kind \in Forwarded /\ k.socket[j].n = n
    BY DEF LogOK
  <2> QED  BY <1>5, <2>1
<1> QED  BY <1>3, <1>4, <1>6 DEF LogOK

\* one that is for the session is the next it has not heard.
LEMMA HandedOK ==
  ASSUME NEW c \in Conns, NEW l \in Seq(LogEntry), NEW k \in ConnType, k.socket # <<>>,
         SocketOK(k), AccessOK(k), LogOK(c, k, l), k.st = "running",
         Head(k.socket).kind \in Forwarded,
         NEW k2, k2 = [k EXCEPT !.socket = Tail(@)],
         NEW m, m = Entry(c, "packet", Head(k.socket).n)
  PROVE  m \in LogEntry /\ m.conn = c /\ Follows(l, m) /\ LogOK(c, k2, Append(l, m))
<1> DEFINE p == Head(k.socket)
           a == Append(l, m)
           N == Len(l)
<1>1. k.socket \in Seq(PacketType) /\ k.sent \in Nat
  BY DEF ConnType
<1>2. /\ Len(k.socket) \in Nat \ {0} /\ DOMAIN k.socket = 1 .. Len(k.socket)
      /\ DOMAIN Tail(k.socket) = 1 .. (Len(k.socket) - 1) /\ p = k.socket[1]
      /\ \A i \in 1 .. (Len(k.socket) - 1) : Tail(k.socket)[i] = k.socket[i + 1]
      /\ p \in PacketType
  BY <1>1, TailShifts
<1>3. k2.st = k.st /\ k2.limit = k.limit /\ k2.sent = k.sent /\ k2.socket = Tail(k.socket)
  BY SocketShrinks
<1>4. \A i \in DOMAIN k2.socket : i + 1 \in DOMAIN k.socket /\ k2.socket[i] = k.socket[i + 1]
  BY <1>2, <1>3
<1>5. p.n \in Nat /\ 1 <= p.n /\ p.n <= k.sent
  BY <1>2 DEF PacketType, SocketOK
<1>6. m \in LogEntry /\ m.conn = c /\ m.kind = "packet" /\ m.n = p.n
  BY <1>5 DEF Entry, LogEntry
<1>7. \A i \in DOMAIN k2.socket : k2.socket[i].kind \in Forwarded => p.n < k2.socket[i].n
  BY <1>2, <1>3, <1>4 DEF SocketOK
<1>8. \A i \in DOMAIN l : l[i].conn = c /\ l[i].kind = "packet" => l[i].n < p.n
  BY <1>2 DEF LogOK
<1>9. ASSUME NEW n \in 1 .. k.sent, n # p.n,
             ~\E j \in DOMAIN k2.socket : k2.socket[j].kind \in Forwarded /\ k2.socket[j].n = n
      PROVE  \E i \in DOMAIN l : l[i].conn = c /\ l[i].kind = "packet" /\ l[i].n = n
  <2>1. \A j \in DOMAIN k.socket : k.socket[j].kind \in Forwarded => k.socket[j].n # n
    <3> SUFFICES ASSUME NEW j \in DOMAIN k.socket, k.socket[j].kind \in Forwarded
                 PROVE  k.socket[j].n # n
      OBVIOUS
    <3>1. CASE j = 1
      BY <3>1, <1>2, <1>9
    <3>2. CASE j # 1
      <4>1. j - 1 \in DOMAIN k2.socket /\ k2.socket[j - 1] = k.socket[j]
        BY <3>2, <1>2, <1>3
      <4> QED  BY <4>1, <1>9
    <3> QED  BY <3>1, <3>2
  <2> QED  BY <2>1 DEF LogOK
<1>10. m.n = 1 \/ \E i \in DOMAIN l : l[i].conn = c /\ l[i].kind = "packet" /\ l[i].n = m.n - 1
  <2> SUFFICES ASSUME p.n # 1
               PROVE  \E i \in DOMAIN l : l[i].conn = c /\ l[i].kind = "packet" /\ l[i].n = p.n - 1
    BY <1>6
  <2>1. p.n - 1 \in 1 .. k.sent /\ p.n - 1 # p.n
    BY <1>1, <1>5
  <2>2. \A j \in DOMAIN k2.socket : k2.socket[j].kind \in Forwarded => k2.socket[j].n # p.n - 1
    <3>1. \A j \in DOMAIN k2.socket : k2.socket[j].n \in Nat
      BY <1>1, <1>4, PacketFields
    <3> QED  BY <1>5, <1>7, <3>1
  <2> QED  BY <2>1, <2>2, <1>9
<1>11. Follows(l, m)
  <2>1. \A i \in DOMAIN l : l[i].conn = c => l[i].kind # "will"
    BY DEF LogOK
  <2>2. \E i \in DOMAIN l : l[i].conn = c
    BY DEF LogOK, Heard
  <2> QED  BY <1>6, <1>8, <1>10, <2>1, <2>2 DEF Follows
<1>12. /\ DOMAIN a = 1 .. (N + 1) /\ DOMAIN l = 1 .. N /\ N \in Nat
       /\ \A i \in 1 .. N : a[i] = l[i]
       /\ a[N + 1] = m
  BY <1>6, Appended
<1> HIDE DEF a
<1>13. \A i \in DOMAIN a :
          a[i].conn = c =>
             /\ a[i].kind = "will" => k2.st = "closed"
             /\ a[i].kind = "packet" /\ k2.st = "running" =>
                   /\ a[i].n <= k2.sent
                   /\ \A j \in DOMAIN k2.socket :
                         k2.socket[j].kind \in Forwarded => a[i].n < k2.socket[j].n
  <2>1. ASSUME NEW i \in DOMAIN l, l[i].conn = c
        PROVE  /\ l[i].kind # "will"
               /\ l[i].kind = "packet" =>
                     /\ l[i].n <= k2.sent
                     /\ \A j \in DOMAIN k2.socket :
                           k2.socket[j].kind \in Forwarded => l[i].n < k2.socket[j].n
    BY <2>1, <1>3, <1>4 DEF LogOK
  <2>2. \A i \in DOMAIN a : (i \in DOMAIN l /\ a[i] = l[i]) \/ a[i] = m
    BY <1>12
  <2> QED  BY <2>1, <2>2, <1>3, <1>5, <1>6, <1>7
<1>14. \A n \in 1 .. k2.sent :
          \/ \E i \in DOMAIN a : a[i].conn = c /\ a[i].kind = "packet" /\ a[i].n = n
          \/ \E j \in DOMAIN k2.socket : k2.socket[j].kind \in Forwarded /\ k2.socket[j].n = n
  BY <1>3, <1>6, <1>9, <1>12
<1>15. Heard(c, a) /\ k2.limit = "post" /\ k2.st = "running"
  BY <1>3, <1>6, <1>12 DEF Heard, AccessOK
<1>16. LogOK(c, k2, a)
  BY <1>13, <1>14, <1>15 DEF LogOK
<1> QED  BY <1>6, <1>11, <1>16 DEF a

\* Sending: the CONNECT is the one request, the other packets are numbered.
LEMMA ClientSendsOK ==
  ASSUME IndInv, NEW c \in Conns, ClientSends(c)
  PROVE  IndInv'
<1>1. /\ conn[c] \in ConnType /\ AccessOK(conn[c]) /\ SocketOK(conn[c])
      /\ LogOK(c, conn[c], log) /\ log \in Seq(LogEntry) /\ ghost \in GhostType
  BY Parts
<1>2. ghost' \in GhostType /\ ghost'.fate = ghost.fate
  <2>1. ghost.packets + 1 \in Nat
    BY <1>1 DEF GhostType
  <2>2. ghost' = [ghost EXCEPT !.packets = @ + 1]
    BY DEF ClientSends
  <2> QED  BY <1>1, <2>1, <2>2 DEF GhostType
<1>3. UNCHANGED <<auth, session, log, taken>>
  BY DEF ClientSends
<1>4. conn[c].socket \in Seq(PacketType) /\ conn[c].sent \in Nat
  BY <1>1 DEF ConnType
<1>5. ASSUME NEW r \in Requests, conn[c].req = None,
             Upd(c, [conn[c] EXCEPT !.req = r, !.socket = Append(@, Packet("connect", 0))])
      PROVE  IndInv'
  <2> DEFINE e == Packet("connect", 0)
             k == [conn[c] EXCEPT !.req = r, !.socket = Append(@, e)]
  <2>1. e \in PacketType /\ e.kind \notin Forwarded
    BY DEF Packet, PacketType, Forwarded
  <2>2. Append(conn[c].socket, e) \in Seq(PacketType)
    BY <1>4, <2>1
  <2>3. /\ k \in ConnType /\ k.req = r /\ k.socket = Append(conn[c].socket, e)
        /\ k.st = conn[c].st /\ k.limit = conn[c].limit /\ k.sent = conn[c].sent
    BY <1>1, <2>2 DEF ConnType
  <2> HIDE DEF k, e
  <2>4. SocketOK(k) /\ LogOK(c, k, log)
    BY <1>1, <2>1, <2>3, SocketGrows
  <2>5. conn[c].limit # "post" /\ r # None
    BY <1>1, <1>5, ConstantsOK DEF AccessOK, Authenticated
  <2>6. AccessOK(k)
    BY <1>1, <1>5, <2>3, <2>5 DEF AccessOK
  <2>7. ~Heard(c, log)
    BY <1>1, <2>5 DEF LogOK
  <2>8. Upd(c, k)
    BY <1>5 DEF k, e
  <2> QED  BY <1>2, <1>3, <2>3, <2>4, <2>6, <2>7, <2>8, AuthKept, LocalStep
<1>6. ASSUME NEW kind \in Forwarded,
             Upd(c, [conn[c] EXCEPT !.sent = @ + 1,
                                    !.socket = Append(@, Packet(kind, conn[c].sent + 1))])
      PROVE  IndInv'
  <2> DEFINE e == Packet(kind, conn[c].sent + 1)
             k == [conn[c] EXCEPT !.sent = @ + 1, !.socket = Append(@, e)]
  <2>1. e \in PacketType /\ e.kind = kind /\ e.n = conn[c].sent + 1
    BY <1>4 DEF Packet, PacketType
  <2>2. Append(conn[c].socket, e) \in Seq(PacketType) /\ conn[c].sent + 1 \in Nat
    BY <1>4, <2>1
  <2>3. /\ k \in ConnType /\ k.req = conn[c].req /\ k.socket = Append(conn[c].socket, e)
        /\ k.st = conn[c].st /\ k.limit = conn[c].limit /\ k.sent = conn[c].sent + 1
    BY <1>1, <2>2 DEF ConnType
  <2> HIDE DEF k, e
  <2>4. SocketOK(k) /\ LogOK(c, k, log)
    BY <1>1, <2>1, <2>3, SocketGrows
  <2>5. e.kind # "connect"
    BY <2>1 DEF Forwarded
  <2>6. AccessOK(k)
    <3>1. \A i \in DOMAIN k.socket :
             k.socket[i] = e \/ (i \in DOMAIN conn[c].socket /\ k.socket[i] = conn[c].socket[i])
      BY <1>4, <2>1, <2>3, AppendCases
    <3> QED  BY <1>1, <2>3, <2>5, <3>1 DEF AccessOK
  <2>7. Upd(c, k)
    BY <1>6 DEF k, e
  <2> QED  BY <1>2, <1>3, <2>3, <2>4, <2>6, <2>7, AuthKept, LocalStep
<1>7. ASSUME NEW kind \in {"ping", "disconnect", "bad"},
             Upd(c, [conn[c] EXCEPT !.socket = Append(@, Packet(kind, 0))])
      PROVE  IndInv'
  <2> DEFINE e == Packet(kind, 0)
             k == [conn[c] EXCEPT !.socket = Append(@, e)]
  <2>1. e \in PacketType /\ e.kind = kind /\ kind \notin Forwarded /\ kind # "connect"
    BY DEF Packet, PacketType, Forwarded
  <2>2. Append(conn[c].socket, e) \in Seq(PacketType)
    BY <1>4, <2>1
  <2>3. /\ k \in ConnType /\ k.req = conn[c].req /\ k.socket = Append(conn[c].socket, e)
        /\ k.st = conn[c].st /\ k.limit = conn[c].limit /\ k.sent = conn[c].sent
    BY <1>1, <2>2 DEF ConnType
  <2> HIDE DEF k, e
  <2>4. SocketOK(k) /\ LogOK(c, k, log)
    BY <1>1, <2>1, <2>3, SocketGrows
  <2>5. AccessOK(k)
    <3>1. \A i \in DOMAIN k.socket :
             k.socket[i] = e \/ (i \in DOMAIN conn[c].socket /\ k.socket[i] = conn[c].socket[i])
      BY <1>4, <2>1, <2>3, AppendCases
    <3> QED  BY <1>1, <2>1, <2>3, <3>1 DEF AccessOK
  <2>6. Upd(c, k)
    BY <1>7 DEF k, e
  <2> QED  BY <1>2, <1>3, <2>3, <2>4, <2>5, <2>6, AuthKept, LocalStep
<1> QED  BY <1>5, <1>6, <1>7 DEF ClientSends

-----------------------------------------------------------------------------
(* connect and the authentication service. *)

LEMMA ConnectTimeoutOK ==
  ASSUME IndInv, NEW c \in Conns, ConnectTimeout(c)
  PROVE  IndInv'
  BY Parts, ClosesOK DEF ConnectTimeout

LEMMA FirstPacketOK ==
  ASSUME IndInv, NEW c \in Conns, FirstPacket(c)
  PROVE  IndInv'
<1> DEFINE p == Head(conn[c].socket)
           k == [conn[c] EXCEPT !.socket = Tail(@)]
<1>1. /\ conn[c] \in ConnType /\ AccessOK(conn[c]) /\ SocketOK(conn[c]) /\ ghost \in GhostType
      /\ LogOK(c, conn[c], log) /\ log \in Seq(LogEntry) /\ auth \in Seq(Conns)
      /\ AuthOK(auth, conn) /\ conn \in [Conns -> ConnType]
  BY Parts
<1>2. conn[c].st = "connect" /\ UNCHANGED <<session, log, taken, ghost>>
  BY DEF FirstPacket
<1>3. CASE Upd(c, Closed(conn[c])) /\ UNCHANGED auth
  BY <1>1, <1>2, <1>3, ClosesOK
<1>4. CASE conn[c].socket # <<>> /\ Upd(c, Closed(k)) /\ UNCHANGED auth
  <2>1. k \in ConnType /\ k.req = conn[c].req /\ k.limit = conn[c].limit
    BY <1>1, <1>4, SocketShrinks
  <2> QED  BY <1>2, <1>4, <2>1, ClosesOK
<1>5. CASE /\ conn[c].socket # <<>> /\ p.kind = "connect" /\ ~Refused(k.req)
           /\ Upd(c, [k EXCEPT !.st = "auth"]) /\ auth' = Append(auth, c)
  <2> DEFINE k2 == [k EXCEPT !.st = "auth"]
  <2>1. /\ k \in ConnType /\ SocketOK(k) /\ AccessOK(k) /\ k.st = "connect"
        /\ k.req = conn[c].req /\ k.limit = conn[c].limit
    BY <1>1, <1>2, <1>5, SocketShrinks
  <2>2. LogOK(c, k, log)
    BY <1>1, <1>5, TakenOK DEF Forwarded
  <2>3. k.req # None
    <3>1. 1 \in DOMAIN conn[c].socket /\ p = conn[c].socket[1]
      <4>1. conn[c].socket \in Seq(PacketType)
        BY <1>1 DEF ConnType
      <4> QED  BY <4>1, <1>5, TailShifts
    <3> QED  BY <1>1, <1>5, <2>1, <3>1 DEF AccessOK
  <2> HIDE DEF k
  <2>4. /\ k2 \in ConnType /\ k2.st = "auth" /\ k2.req = k.req /\ k2.limit = k.limit
        /\ k2.socket = k.socket /\ k2.sent = k.sent
    BY <2>1 DEF ConnType
  <2> HIDE DEF k2
  <2>5. AccessOK(k2) /\ SocketOK(k2)
    BY <1>5, <2>1, <2>3, <2>4 DEF AccessOK, SocketOK
  <2>6. LogOK(c, k2, log)
    <3>1. ~Heard(c, log)
      BY <1>1, <1>2 DEF LogOK
    <3>2. \A i \in DOMAIN log : log[i].conn # c
      BY <3>1 DEF Heard
    <3> QED  BY <2>1, <2>2, <2>4, <3>1, <3>2 DEF LogOK
  <2>7. Upd(c, k2)
    BY <1>5 DEF k2
  <2>8. auth' \in Seq(Conns) /\ AuthOK(auth', conn')
    <3>1. \A i \in DOMAIN auth : auth[i] \in Conns /\ auth[i] # c
      BY <1>1, <1>2 DEF AuthOK
    <3>2. /\ auth' \in Seq(Conns) /\ DOMAIN auth' = 1 .. (Len(auth) + 1)
          /\ DOMAIN auth = 1 .. Len(auth) /\ Len(auth) \in Nat
          /\ \A i \in 1 .. Len(auth) : auth'[i] = auth[i]
          /\ auth'[Len(auth) + 1] = c
      BY <1>1, <1>5, Appended
    <3>3. \A d \in Conns : conn'[d].st = IF d = c THEN "auth" ELSE conn[d].st
      BY <1>1, <2>4, <2>7 DEF Upd
    <3> QED  BY <1>1, <3>1, <3>2, <3>3 DEF AuthOK
  <2> QED  BY <1>1, <1>2, <2>1, <2>4, <2>5, <2>6, <2>7, <2>8, LocalStep
<1> QED  BY <1>3, <1>4, <1>5 DEF FirstPacket

LEMMA AuthAnswerOK ==
  ASSUME IndInv, AuthAnswer
  PROVE  IndInv'
<1> DEFINE c == Head(auth)
           code == check_password_internal(conn[c].req.user, conn[c].req.password)
           k == IF code = "Accepted" THEN [conn[c] EXCEPT !.st = "asking", !.limit = "post"]
                                     ELSE Closed(conn[c])
<1>1. auth \in Seq(Conns) /\ auth # <<>> /\ AuthOK(auth, conn) /\ conn \in [Conns -> ConnType]
  BY Parts DEF AuthAnswer
<1>2. /\ c \in Conns /\ c = auth[1] /\ auth' = Tail(auth) /\ auth' \in Seq(Conns)
      /\ DOMAIN auth = 1 .. Len(auth) /\ Len(auth) \in Nat \ {0}
      /\ DOMAIN auth' = 1 .. (Len(auth) - 1)
      /\ \A i \in 1 .. (Len(auth) - 1) : auth'[i] = auth[i + 1]
  BY <1>1, TailShifts DEF AuthAnswer
<1>3. Upd(c, k) /\ UNCHANGED <<session, log, taken, ghost>>
  BY DEF AuthAnswer
<1>4. conn[c].st = "auth"
  BY <1>1, <1>2 DEF AuthOK
<1>5. AuthOK(auth', conn')
  <2>1. \A i \in DOMAIN auth' : i + 1 \in DOMAIN auth /\ auth'[i] = auth[i + 1] /\ i + 1 # 1 /\ i \in Nat
    BY <1>2
  <2>2. \A i \in DOMAIN auth' : auth'[i] # c /\ auth'[i] \in Conns
    BY <1>1, <1>2, <2>1 DEF AuthOK
  <2>3. \A d \in Conns : d # c => conn'[d] = conn[d]
    BY <1>1, <1>3 DEF Upd
  <2> QED  BY <1>1, <2>1, <2>2, <2>3 DEF AuthOK
<1>6. /\ conn[c] \in ConnType /\ AccessOK(conn[c]) /\ SocketOK(conn[c])
      /\ LogOK(c, conn[c], log) /\ ghost \in GhostType
  BY <1>2, Parts
<1> HIDE DEF c
<1>7. CASE code = "Accepted"
  <2>1. /\ k \in ConnType /\ k.st = "asking" /\ k.limit = "post" /\ k.req = conn[c].req
        /\ k.socket = conn[c].socket /\ k.sent = conn[c].sent
    BY <1>6, <1>7 DEF ConnType
  <2>2. Authenticated(conn[c].req)
    BY <1>4, <1>6, <1>7 DEF AccessOK, Authenticated, Refused, check_password_internal
  <2> HIDE DEF k
  <2>3. AccessOK(k) /\ SocketOK(k)
    BY <1>6, <2>1, <2>2 DEF AccessOK, SocketOK
  <2>4. LogOK(c, k, log)
    <3>1. ~Heard(c, log)
      BY <1>4, <1>6 DEF LogOK
    <3>2. \A i \in DOMAIN log : log[i].conn # c
      BY <3>1 DEF Heard
    <3> QED  BY <1>6, <2>1, <3>1, <3>2 DEF LogOK
  <2> QED  BY <1>2, <1>3, <1>5, <1>6, <2>1, <2>3, <2>4, LocalStep
<1>8. CASE code # "Accepted"
  <2>1. k = Closed(conn[c])
    BY <1>8
  <2> QED  BY <1>2, <1>3, <1>5, <1>6, <2>1, ClosedOK, LocalStep
<1> QED  BY <1>7, <1>8

LEMMA AttachOK ==
  ASSUME IndInv, NEW c \in Conns, Attach(c)
  PROVE  IndInv'
<1> DEFINE k == set_keepalive_timer([conn[c] EXCEPT !.st = "running", !.tx = TRUE])
           m == Entry(c, "client", 0)
<1>1. /\ conn[c] \in ConnType /\ AccessOK(conn[c]) /\ SocketOK(conn[c])
      /\ LogOK(c, conn[c], log) /\ log \in Seq(LogEntry)
  BY Parts
<1>2. conn[c].st = "asking" /\ UNCHANGED <<auth, session, taken, ghost>>
  BY DEF Attach
<1>3. CASE Upd(c, Closed(conn[c])) /\ UNCHANGED log
  BY <1>1, <1>2, <1>3, ClosesOK
<1>4. CASE Upd(c, k) /\ log' = Append(log, m)
  <2>1. conn[c].limit = "post" /\ conn[c].req \in Requests
    BY <1>1, <1>2 DEF AccessOK, Authenticated, ConnType
  <2>2. (conn[c].req.keep_alive > 0) \in BOOLEAN
    BY <2>1, ConstantsOK DEF ConnectOK
  <2>3. /\ k \in ConnType /\ k.st = "running" /\ k.req = conn[c].req /\ k.limit = "post"
        /\ k.socket = conn[c].socket /\ k.sent = conn[c].sent
    BY <1>1, <2>1, <2>2 DEF ConnType, set_keepalive_timer
  <2> HIDE DEF k
  <2>4. m \in LogEntry /\ m.conn = c /\ m.kind = "client"
    BY DEF Entry, LogEntry
  <2>5. ~Heard(c, log)
    BY <1>1, <1>2 DEF LogOK
  <2>6. Follows(log, m)
    BY <2>4, <2>5 DEF Follows, Heard
  <2>7. AccessOK(k) /\ SocketOK(k)
    BY <1>1, <1>2, <2>1, <2>3 DEF AccessOK, SocketOK
  <2>8. LogOK(c, k, Append(log, m))
    <3> DEFINE a == Append(log, m)
    <3>1. /\ DOMAIN a = 1 .. (Len(log) + 1) /\ DOMAIN log = 1 .. Len(log) /\ Len(log) \in Nat
          /\ \A i \in 1 .. Len(log) : a[i] = log[i]
          /\ a[Len(log) + 1] = m
      BY <1>1, <2>4, Appended
    <3> HIDE DEF a
    <3>2. \A i \in DOMAIN log : log[i].conn # c
      BY <2>5 DEF Heard
    <3>3. \A i \in DOMAIN a : a[i].conn = c => a[i].kind = "client"
      BY <2>4, <3>1, <3>2
    <3>4. Heard(c, a)
      BY <2>4, <3>1 DEF Heard
    <3>5. \A n \in 1 .. k.sent : \E j \in DOMAIN k.socket : k.socket[j].kind \in Forwarded /\ k.socket[j].n = n
      BY <1>1, <2>3, <3>2 DEF LogOK
    <3>6. LogOK(c, k, a)
      BY <2>3, <3>3, <3>4, <3>5 DEF LogOK
    <3> QED  BY <3>6 DEF a
  <2>9. auth' \in Seq(Conns) /\ AuthOK(auth', conn')
    BY <1>2, <1>4, AuthKept
  <2> QED  BY <1>2, <1>4, <2>3, <2>4, <2>6, <2>7, <2>8, <2>9, LogStep
<1> QED  BY <1>3, <1>4 DEF Attach

-----------------------------------------------------------------------------
(* The worker. *)

\* A worker in its loop, or about to go on with it as k.
Loops(c, k) ==
  /\ k \in ConnType /\ k.st = "running"
  /\ k.req = conn[c].req /\ k.limit = conn[c].limit
  /\ AccessOK(k) /\ SocketOK(k) /\ LogOK(c, k, log)

LEMMA LoopsOn ==
  ASSUME IndInv, NEW c \in Conns, conn[c].st = "running", NEW k, Loops(c, k), Upd(c, k),
         UNCHANGED <<auth, session, log, taken, ghost>>
  PROVE  IndInv'
<1>1. ghost \in GhostType
  BY Parts
<1> QED  BY <1>1, AuthKept, LocalStep DEF Loops

\* Fields that only the worker looks at.
LEMMA LoopsStill ==
  ASSUME NEW c, NEW k, Loops(c, k), NEW k2 \in ConnType,
         k2.st = k.st, k2.req = k.req, k2.limit = k.limit, k2.socket = k.socket, k2.sent = k.sent
  PROVE  Loops(c, k2)
<1>1. AccessOK(k2) /\ SocketOK(k2)
  BY DEF Loops, AccessOK, SocketOK
<1>2. LogOK(c, k2, log)
  BY DEF Loops, LogOK
<1> QED  BY <1>1, <1>2 DEF Loops

\* send_client_message keeps the worker looping, or it ends.
LEMMA SendOK ==
  ASSUME IndInv, NEW c \in Conns, conn[c].st = "running", NEW k, Loops(c, k),
         send_client_message(c, k), UNCHANGED <<auth, session, taken, ghost>>
  PROVE  IndInv'
<1> DEFINE k2 == [k EXCEPT !.out = @ + 1, !.writing = FALSE]
           k3 == [k EXCEPT !.writing = TRUE]
<1>1. k \in ConnType /\ k.out \in Nat
  BY DEF Loops, ConnType
<1>2. /\ k2 \in ConnType /\ k2.st = k.st /\ k2.req = k.req /\ k2.limit = k.limit
      /\ k2.socket = k.socket /\ k2.sent = k.sent
  <2>1. k.out + 1 \in Nat
    BY <1>1
  <2> QED  BY <1>1, <2>1 DEF ConnType
<1>3. /\ k3 \in ConnType /\ k3.st = k.st /\ k3.req = k.req /\ k3.limit = k.limit
      /\ k3.socket = k.socket /\ k3.sent = k.sent
  BY <1>1 DEF ConnType
<1> HIDE DEF k2, k3
<1>4. Loops(c, k2) /\ Loops(c, k3)
  BY <1>2, <1>3, LoopsStill
<1>5. CASE Ends(c, k)
  BY <1>5, EndsOK DEF Loops
<1>6. CASE Ends(c, k2)
  BY <1>4, <1>6, EndsOK DEF Loops
<1>7. CASE Upd(c, k2) /\ UNCHANGED log
  BY <1>4, <1>7, LoopsOn
<1>8. CASE Upd(c, k3) /\ UNCHANGED log
  BY <1>4, <1>8, LoopsOn
<1>9. Ends(c, k) \/ GoesOn(c, k2) \/ (Upd(c, k3) /\ UNCHANGED log)
  BY DEF send_client_message, k2, k3
<1> QED  BY <1>5, <1>6, <1>7, <1>8, <1>9 DEF GoesOn

LEMMA RunningLoops ==
  ASSUME IndInv, NEW c \in Conns, conn[c].st = "running"
  PROVE  Loops(c, conn[c])
  BY Parts DEF Loops

LEMMA WorkerWritesOK ==
  ASSUME IndInv, NEW c \in Conns, WorkerWrites(c)
  PROVE  IndInv'
  BY RunningLoops, SendOK DEF WorkerWrites

LEMMA KeepAliveFiresOK ==
  ASSUME IndInv, NEW c \in Conns, KeepAliveFires(c)
  PROVE  IndInv'
<1> DEFINE k == [conn[c] EXCEPT !.timer = FALSE]
<1>1. conn[c] \in ConnType
  BY Parts
<1>2. k \in ConnType /\ k.req = conn[c].req /\ k.limit = conn[c].limit
  BY <1>1 DEF ConnType
<1> QED  BY <1>2, EndsOK DEF KeepAliveFires, Selects

LEMMA WorkerHearsOK ==
  ASSUME IndInv, NEW c \in Conns, WorkerHears(c)
  PROVE  IndInv'
<1> DEFINE k  == [conn[c] EXCEPT !.rx = Tail(@)]
           k2 == [k EXCEPT !.status = "Disconnect"]
<1>1. conn[c].st = "running" /\ conn[c].rx # <<>> /\ UNCHANGED <<auth, session, taken, ghost>>
  BY DEF WorkerHears, Selects
<1>2. conn[c] \in ConnType /\ Loops(c, conn[c])
  BY <1>1, RunningLoops DEF Loops
<1>3. conn[c].rx \in Seq(Hears) /\ Tail(conn[c].rx) \in Seq(Hears)
  BY <1>1, <1>2 DEF ConnType
<1>4. /\ k \in ConnType /\ k.st = conn[c].st /\ k.req = conn[c].req /\ k.limit = conn[c].limit
      /\ k.socket = conn[c].socket /\ k.sent = conn[c].sent
  BY <1>2, <1>3 DEF ConnType
<1>5. /\ k2 \in ConnType /\ k2.st = conn[c].st /\ k2.req = conn[c].req /\ k2.limit = conn[c].limit
      /\ k2.socket = conn[c].socket /\ k2.sent = conn[c].sent
  BY <1>2, <1>3 DEF ConnType
<1>6. Loops(c, k) /\ Loops(c, k2)
  BY <1>2, <1>4, <1>5, LoopsStill
<1>7. Ends(c, k) \/ send_client_message(c, k2) \/ send_client_message(c, k)
  BY DEF WorkerHears
<1> QED  BY <1>1, <1>4, <1>6, <1>7, EndsOK, SendOK

LEMMA WorkerReadsOK ==
  ASSUME IndInv, NEW c \in Conns, WorkerReads(c)
  PROVE  IndInv'
<1> DEFINE p  == Head(conn[c].socket)
           k  == [conn[c] EXCEPT !.socket = Tail(@)]
           k2 == disconnect_message(k)
<1>1. conn[c].st = "running" /\ UNCHANGED <<auth, session, taken, ghost>>
  BY DEF WorkerReads, Selects
<1>2. /\ conn[c] \in ConnType /\ AccessOK(conn[c]) /\ SocketOK(conn[c])
      /\ LogOK(c, conn[c], log) /\ log \in Seq(LogEntry)
  BY Parts
<1>3. CASE Ends(c, conn[c])
  BY <1>1, <1>2, <1>3, EndsOK
<1>4. CASE conn[c].socket # <<>> /\ ~Ends(c, conn[c])
  <2>1. /\ k \in ConnType /\ SocketOK(k) /\ AccessOK(k) /\ k.st = "running"
        /\ k.req = conn[c].req /\ k.limit = conn[c].limit
    BY <1>1, <1>2, <1>4, SocketShrinks
  <2>2. k2 \in ConnType /\ k2.req = conn[c].req /\ k2.limit = conn[c].limit
    BY <2>1 DEF disconnect_message, ConnType
  <2>3. CASE Ends(c, k)
    BY <1>1, <2>1, <2>3, EndsOK
  <2>4. CASE Ends(c, k2)
    BY <1>1, <2>2, <2>4, EndsOK
  <2>5. CASE p.kind = "ping" /\ send_client_message(c, k)
    <3>1. LogOK(c, k, log)
      BY <1>2, <1>4, <2>5, TakenOK DEF Forwarded
    <3>2. Loops(c, k)
      BY <2>1, <3>1 DEF Loops
    <3> QED  BY <1>1, <2>5, <3>2, SendOK
  <2>6. CASE /\ p.kind \notin {"bad", "connect", "disconnect", "ping"}
             /\ Upd(c, k) /\ log' = Append(log, Entry(c, "packet", p.n))
    <3> DEFINE m == Entry(c, "packet", p.n)
    <3>1. p.kind \in Forwarded
      <4>1. conn[c].socket \in Seq(PacketType)
        BY <1>2 DEF ConnType
      <4>2. p \in PacketType
        BY <1>4, <4>1, TailShifts
      <4> QED  BY <2>6, <4>2 DEF PacketType
    <3>2. m \in LogEntry /\ m.conn = c /\ Follows(log, m) /\ LogOK(c, k, Append(log, m))
      BY <1>1, <1>2, <1>4, <3>1, HandedOK
    <3>3. m.kind = "packet"
      BY DEF Entry
    <3>4. auth' \in Seq(Conns) /\ AuthOK(auth', conn')
      BY <1>1, <2>6, AuthKept
    <3> HIDE DEF m
    <3>5. log' = Append(log, m)
      BY <2>6 DEF m
    <3> QED  BY <1>1, <2>1, <2>6, <3>2, <3>3, <3>4, <3>5, LogStep
  <2> QED
    BY <1>4, <2>3, <2>4, <2>5, <2>6 DEF WorkerReads, DecodeError, reset_keepalive
<1> QED  BY <1>3, <1>4 DEF WorkerReads

-----------------------------------------------------------------------------
(* The session. *)

\* What the session does to the workers: their channels only.
Alike(cs) ==
  /\ cs \in [Conns -> ConnType]
  /\ \A c \in Conns : /\ cs[c].st = conn[c].st /\ cs[c].req = conn[c].req
                      /\ cs[c].limit = conn[c].limit /\ cs[c].socket = conn[c].socket
                      /\ cs[c].sent = conn[c].sent

LEMMA ToldAlike ==
  ASSUME NEW cs, Alike(cs), NEW c, NEW m \in Hears
  PROVE  Alike(Told(cs, c, m))
<1>1. CASE c \in Conns /\ cs[c].st = "running"
  <2> DEFINE k == [cs[c] EXCEPT !.rx = Append(@, m)]
  <2>1. cs[c] \in ConnType
    BY <1>1 DEF Alike
  <2>2. cs[c].rx \in Seq(Hears)
    BY <2>1 DEF ConnType
  <2>3. Append(cs[c].rx, m) \in Seq(Hears)
    BY <2>2
  <2>4. /\ k \in ConnType /\ k.st = cs[c].st /\ k.req = cs[c].req
        /\ k.limit = cs[c].limit /\ k.socket = cs[c].socket /\ k.sent = cs[c].sent
    BY <2>1, <2>3 DEF ConnType
  <2>5. Told(cs, c, m) = [cs EXCEPT ![c] = k]
    BY <1>1 DEF Told
  <2> HIDE DEF k
  <2> QED  BY <1>1, <2>4, <2>5 DEF Alike
<1> QED  BY <1>1 DEF Told

\* The parts of the invariant that a step of the session leaves alone.
LEMMA AlikeOK ==
  ASSUME IndInv, Alike(conn'), UNCHANGED <<auth, log>>
  PROVE  /\ \A c \in Conns : AccessOK(conn'[c]) /\ SocketOK(conn'[c]) /\ LogOK(c, conn'[c], log')
         /\ InOrder(log') /\ AuthOK(auth', conn') /\ auth' \in Seq(Conns)
         /\ log' \in Seq(LogEntry) /\ conn' \in [Conns -> ConnType]
<1>1. \A c \in Conns : AccessOK(conn'[c]) /\ SocketOK(conn'[c])
  BY Parts DEF AccessOK, SocketOK, Alike
<1>2. \A c \in Conns : LogOK(c, conn'[c], log)
  <2> SUFFICES ASSUME NEW c \in Conns  PROVE LogOK(c, conn'[c], log)
    OBVIOUS
  <2>1. LogOK(c, conn[c], log)
    BY Parts
  <2>2. /\ conn'[c].st = conn[c].st /\ conn'[c].limit = conn[c].limit
        /\ conn'[c].socket = conn[c].socket /\ conn'[c].sent = conn[c].sent
    BY DEF Alike
  <2> QED  BY <2>1, <2>2 DEF LogOK
<1>3. AuthOK(auth, conn')
  <2>1. auth \in Seq(Conns) /\ AuthOK(auth, conn)
    BY Parts
  <2>2. \A i \in DOMAIN auth : auth[i] \in Conns
    BY <2>1
  <2> QED  BY <2>1, <2>2 DEF AuthOK, Alike
<1> QED  BY <1>1, <1>2, <1>3, Parts DEF Alike

LEMMA SessionStepOK ==
  ASSUME IndInv, Alike(conn'), UNCHANGED <<auth, log>>,
         session' \in [client : Conns \cup {None}, zero : BOOLEAN],
         taken' \in 0 .. Len(log), ghost' \in GhostType, FateOK'
  PROVE  IndInv'
<1>1. TypeOK'
  BY AlikeOK DEF TypeOK
<1> QED  BY <1>1, AlikeOK DEF IndInv

LEMMA PresentOK ==
  ASSUME NEW cs, NEW c
  PROVE  Present(cs, c) \in Conns \cup {None}
  BY DEF Present

\* A message that is not a will.
LEMMA FateAside ==
  ASSUME IndInv, Alike(conn'), log' = log, session'.zero => session.zero,
         taken' \in Nat, taken <= taken', ghost' = ghost
  PROVE  FateOK'
<1>1. FateOK /\ taken \in Nat /\ log \in Seq(LogEntry)
  BY Parts
<1>2. \A c \in Conns : conn'[c].req = conn[c].req
  BY DEF Alike
<1>3. \A i \in DOMAIN log : log[i].conn \in Conns /\ i \in Nat
  BY <1>1, LogFields
<1>4. WillIsPublished'
  <2>1. WillIsPublished
    BY <1>1 DEF FateOK
  <2> QED  BY <1>2, <2>1 DEF WillIsPublished
<1>5. session'.zero => \E c \in Conns : ghost'.fate[c] = "routed" /\ conn'[c].req.will = 2
  BY <1>1, <1>2 DEF FateOK
<1>6. \A i \in DOMAIN log :
         log[i].kind = "will" =>
            /\ conn'[log[i].conn].req.will # None
            /\ i > taken' => ghost.fate[log[i].conn] = None
  BY <1>1, <1>2, <1>3 DEF FateOK
<1>7. \A c \in Conns :
         ghost.fate[c] # None => \E i \in DOMAIN log : log[i].conn = c /\ log[i].kind = "will"
  BY <1>1 DEF FateOK
<1> QED  BY <1>4, <1>5, <1>6, <1>7 DEF FateOK

\* A will is taken from the channel: published, or taken for a duplicate.
LEMMA FateOfWill ==
  ASSUME IndInv, NEW i \in DOMAIN log, i = taken + 1, log[i].kind = "will",
         Alike(conn'), log' = log, taken' = taken + 1,
         NEW c, c = log[i].conn, NEW qos, qos = conn[c].req.will,
         session'.zero = (session.zero \/ qos = 2),
         ghost' = [ghost EXCEPT !.fate[c] = IF Duplicate(qos) THEN "swallowed" ELSE "routed"]
  PROVE  FateOK' /\ ghost' \in GhostType
<1>1. /\ FateOK /\ taken \in Nat /\ log \in Seq(LogEntry) /\ ghost \in GhostType /\ InOrder(log)
      /\ session \in [client : Conns \cup {None}, zero : BOOLEAN]
  BY Parts
<1>2. \A d \in Conns : conn'[d].req = conn[d].req
  BY DEF Alike
<1>3. \A j \in DOMAIN log : log[j].conn \in Conns /\ j \in Nat
  BY <1>1, LogFields
<1>4. c \in Conns /\ ghost.fate[c] = None
  BY <1>1, <1>3 DEF FateOK
<1> DEFINE fate == IF Duplicate(qos) THEN "swallowed" ELSE "routed"
<1>5. ghost.fate \in [Conns -> {None, "routed", "swallowed", "lost"}]
  BY <1>1 DEF GhostType
<1>6. ghost'.fate = [ghost.fate EXCEPT ![c] = fate]
  BY <1>1 DEF GhostType
<1>7. /\ ghost'.fate[c] = fate
      /\ \A d \in Conns : d # c => ghost'.fate[d] = ghost.fate[d]
      /\ ghost'.fate \in [Conns -> {None, "routed", "swallowed", "lost"}]
  BY <1>4, <1>5, <1>6
<1>8. ghost' \in GhostType
  BY <1>1, <1>7 DEF GhostType
<1>9. None \notin {"routed", "swallowed", "lost"}
  BY ConstantsOK
<1>10. \A d \in Conns : ghost.fate[d] # None => d # c
  BY <1>4
<1>11. WillIsPublished'
  <2> SUFFICES ASSUME NEW d \in Conns, ghost'.fate[d] = "swallowed"
               PROVE  /\ conn'[d].req.will = 2
                      /\ \E e \in Conns \ {d} : ghost'.fate[e] = "routed" /\ conn'[e].req.will = 2
    BY DEF WillIsPublished
  <2>1. CASE d = c
    <3>1. Duplicate(qos)
      BY <1>7, <2>1
    <3>2. session.zero /\ qos = 2
      BY <3>1 DEF Duplicate
    <3>3. PICK e \in Conns : ghost.fate[e] = "routed" /\ conn[e].req.will = 2
      BY <1>1, <3>2 DEF FateOK
    <3>4. e # c
      BY <1>9, <1>10, <3>3
    <3>5. conn'[d].req.will = 2
      BY <1>2, <2>1, <3>2
    <3>6. ghost'.fate[e] = "routed" /\ conn'[e].req.will = 2 /\ e \in Conns \ {d}
      BY <1>2, <1>7, <2>1, <3>3, <3>4
    <3> QED  BY <3>5, <3>6
  <2>2. CASE d # c
    <3>1. /\ conn[d].req.will = 2
          /\ \E e \in Conns \ {d} : ghost.fate[e] = "routed" /\ conn[e].req.will = 2
      BY <1>1, <1>7, <2>2 DEF FateOK, WillIsPublished
    <3>2. PICK e \in Conns \ {d} : ghost.fate[e] = "routed" /\ conn[e].req.will = 2
      BY <3>1
    <3>3. e # c
      BY <1>9, <1>10, <3>2
    <3> QED  BY <1>2, <1>7, <3>1, <3>2, <3>3
  <2> QED  BY <2>1, <2>2
<1>12. session'.zero => \E d \in Conns : ghost'.fate[d] = "routed" /\ conn'[d].req.will = 2
  <2>1. CASE session.zero
    <3>1. PICK e \in Conns : ghost.fate[e] = "routed" /\ conn[e].req.will = 2
      BY <1>1, <2>1 DEF FateOK
    <3>2. e # c
      BY <1>9, <1>10, <3>1
    <3> QED  BY <1>2, <1>7, <3>1, <3>2
  <2>2. CASE ~session.zero /\ qos = 2
    BY <1>2, <1>4, <1>7, <2>2 DEF Duplicate
  <2> QED  BY <2>1, <2>2
<1>13. \A d \in Conns :
          ghost'.fate[d] # None => \E j \in DOMAIN log : log[j].conn = d /\ log[j].kind = "will"
  BY <1>1, <1>7 DEF FateOK
<1>14. \A j \in DOMAIN log :
          log[j].kind = "will" =>
             /\ conn'[log[j].conn].req.will # None
             /\ j > taken' => ghost'.fate[log[j].conn] = None
  <2> SUFFICES ASSUME NEW j \in DOMAIN log, log[j].kind = "will"
               PROVE  /\ conn'[log[j].conn].req.will # None
                      /\ j > taken' => ghost'.fate[log[j].conn] = None
    OBVIOUS
  <2>1. /\ conn[log[j].conn].req.will # None
        /\ j > taken => ghost.fate[log[j].conn] = None
    BY <1>1 DEF FateOK
  <2>2. j > taken' => log[j].conn # c
    <3>1. \A n \in DOMAIN log : log[n].conn = log[i].conn => n <= i
      BY <1>1 DEF InOrder
    <3> QED  BY <1>1, <1>3, <3>1
  <2> QED  BY <1>1, <1>2, <1>3, <1>7, <2>1, <2>2
<1> QED  BY <1>8, <1>11, <1>12, <1>13, <1>14 DEF FateOK

LEMMA SessionTakesOK ==
  ASSUME IndInv, SessionTakes
  PROVE  IndInv'
<1> DEFINE m == log[taken + 1]
<1>1. /\ FateOK /\ taken \in Nat /\ log \in Seq(LogEntry) /\ ghost \in GhostType
      /\ session \in [client : Conns \cup {None}, zero : BOOLEAN]
      /\ conn \in [Conns -> ConnType]
  BY Parts
<1>2. /\ taken < Len(log) /\ taken' = taken + 1 /\ UNCHANGED <<auth, log>>
  BY DEF SessionTakes
<1>3. taken + 1 \in DOMAIN log /\ taken' \in 0 .. Len(log) /\ taken' \in Nat /\ taken <= taken'
  BY <1>1, <1>2
<1>4. Alike(conn)
  BY <1>1 DEF Alike
<1>5. CASE NewClient(m)
  <2> DEFINE r == conn[m.conn].req
  <2>1. Alike(conn')
    BY <1>4, <1>5, ToldAlike DEF NewClient, Hears
  <2>2. session' = [client |-> Present(conn, m.conn), zero |-> session.zero /\ ~r.clean] /\ ghost' = ghost
    BY <1>5 DEF NewClient
  <2>3. session' \in [client : Conns \cup {None}, zero : BOOLEAN] /\ (session'.zero => session.zero)
    BY <2>2, PresentOK
  <2>4. FateOK'
    BY <1>2, <1>3, <2>1, <2>2, <2>3, FateAside
  <2> QED  BY <1>1, <1>2, <1>3, <2>1, <2>2, <2>3, <2>4, SessionStepOK
<1>6. CASE OtherPacket
  <2>1. Alike(conn')
    BY <1>4, <1>6, ToldAlike DEF OtherPacket, Hears
  <2>2. session' = [session EXCEPT !.client = Present(conn, @)] /\ ghost' = ghost
    BY <1>6 DEF OtherPacket
  <2>3. session' \in [client : Conns \cup {None}, zero : BOOLEAN] /\ (session'.zero => session.zero)
    BY <1>1, <2>2, PresentOK
  <2>4. FateOK'
    BY <1>2, <1>3, <2>1, <2>2, <2>3, FateAside
  <2> QED  BY <1>1, <1>2, <1>3, <2>1, <2>2, <2>3, <2>4, SessionStepOK
<1>7. CASE m.kind = "will" /\ WillMessage(m)
  <2> DEFINE qos == conn[m.conn].req.will
  <2>1. Alike(conn')
    BY <1>4, <1>7, ToldAlike DEF WillMessage, Hears
  <2>2. /\ session' = [client |-> Present(conn, session.client), zero |-> session.zero \/ qos = 2]
        /\ ghost' = [ghost EXCEPT !.fate[m.conn] = IF Duplicate(qos) THEN "swallowed" ELSE "routed"]
    BY <1>7 DEF WillMessage
  <2>3. /\ session' \in [client : Conns \cup {None}, zero : BOOLEAN]
        /\ session'.zero = (session.zero \/ qos = 2)
    BY <2>2, PresentOK
  <2>4. FateOK' /\ ghost' \in GhostType
    BY <1>2, <1>3, <1>7, <2>1, <2>2, <2>3, FateOfWill
  <2> QED  BY <1>2, <1>3, <2>1, <2>3, <2>4, SessionStepOK
<1> QED  BY <1>5, <1>6, <1>7 DEF SessionTakes

\* The session ends: the wills in its channel are lost, the others keep their
\* fates.
LEMMA SessionStopsOK ==
  ASSUME IndInv, SessionStops
  PROVE  IndInv'
<1>1. /\ FateOK /\ taken \in Nat /\ log \in Seq(LogEntry) /\ ghost \in GhostType
      /\ session \in [client : Conns \cup {None}, zero : BOOLEAN]
      /\ conn \in [Conns -> ConnType]
  BY Parts
<1>2. /\ taken' = Len(log) /\ UNCHANGED <<auth, log>> /\ session' = [session EXCEPT !.client = None]
      /\ taken < Len(log)
  BY DEF SessionStops
<1>3. Len(log) \in Nat /\ taken' \in 0 .. Len(log) /\ DOMAIN log = 1 .. Len(log)
  BY <1>1, <1>2
<1>4. session' \in [client : Conns \cup {None}, zero : BOOLEAN] /\ session'.zero = session.zero
  BY <1>1, <1>2
<1>5. Alike(conn)
  BY <1>1 DEF Alike
<1>6. Alike(conn')
  <2>1. \A cs \in Failed(log[taken + 1]) \cup {conn} : Alike(cs)
    <3>1. Alike(Told(conn, session.client, "Disconnect"))
      BY <1>5, ToldAlike DEF Hears
    <3>2. \A code \in {"Accepted", "ServerUnavailable"} : \A c :
             Alike(Told(Told(Told(conn, session.client, "Disconnect"), c, code), c, "Disconnect"))
      <4>1. \A code \in {"Accepted", "ServerUnavailable"} : \A c :
               Alike(Told(Told(conn, session.client, "Disconnect"), c, code))
        BY <3>1, ToldAlike DEF Hears
      <4> QED  BY <4>1, ToldAlike DEF Hears
    <3> QED  BY <1>5, <3>1, <3>2 DEF Failed
  <2>2. PICK cs \in Failed(log[taken + 1]) \cup {conn} :
           conn' = [c \in Conns |-> [cs[c] EXCEPT !.tx = FALSE]]
    BY DEF SessionStops
  <2>3. Alike(cs)
    BY <2>1, <2>2
  <2>4. ASSUME NEW c \in Conns
        PROVE  /\ conn'[c] \in ConnType /\ conn'[c].st = cs[c].st /\ conn'[c].req = cs[c].req
               /\ conn'[c].limit = cs[c].limit /\ conn'[c].socket = cs[c].socket
               /\ conn'[c].sent = cs[c].sent
    <3>1. cs[c] \in ConnType
      BY <2>3 DEF Alike
    <3> QED  BY <2>2, <3>1 DEF ConnType
  <2> QED  BY <2>2, <2>3, <2>4 DEF Alike
<1> DEFINE lost(c) == \E i \in taken + 1 .. Len(log) : log[i].conn = c /\ log[i].kind = "will"
           fate == [c \in Conns |-> IF lost(c) THEN "lost" ELSE ghost.fate[c]]
<1>7. ghost' = [ghost EXCEPT !.stops = @ + 1, !.fate = fate]
  BY DEF SessionStops
<1>8. ghost' \in GhostType /\ ghost'.fate = fate
  <2>1. fate \in [Conns -> {None, "routed", "swallowed", "lost"}] /\ ghost.stops + 1 \in Nat
    BY <1>1 DEF GhostType
  <2> HIDE DEF fate
  <2> QED  BY <1>1, <1>7, <2>1 DEF GhostType
<1>9. \A c \in Conns : lost(c) => ghost.fate[c] = None
  <2> SUFFICES ASSUME NEW i \in taken + 1 .. Len(log), log[i].kind = "will"
               PROVE  ghost.fate[log[i].conn] = None
    OBVIOUS
  <2>1. i \in DOMAIN log /\ i > taken
    BY <1>1, <1>3
  <2> QED  BY <1>1, <2>1 DEF FateOK
<1>10. None \notin {"routed", "swallowed", "lost"}
  BY ConstantsOK
<1>11. \A c \in Conns : ghost.fate[c] # None => fate[c] = ghost.fate[c]
  BY <1>9
<1>12. \A c \in Conns : fate[c] \in {"routed", "swallowed"} => ghost.fate[c] = fate[c]
  BY <1>9
<1> HIDE DEF fate
<1>13. FateOK'
  <2>1. \A c \in Conns : conn'[c].req = conn[c].req
    BY <1>6 DEF Alike
  <2>2. \A i \in DOMAIN log : log[i].conn \in Conns /\ i <= Len(log)
    BY <1>1, <1>3, LogFields
  <2>3. WillIsPublished'
    <3>1. WillIsPublished
      BY <1>1 DEF FateOK
    <3> QED  BY <1>8, <1>10, <1>11, <1>12, <2>1, <3>1 DEF WillIsPublished
  <2>4. session'.zero => \E c \in Conns : ghost'.fate[c] = "routed" /\ conn'[c].req.will = 2
    BY <1>1, <1>4, <1>8, <1>10, <1>11, <2>1 DEF FateOK
  <2>5. \A c \in Conns :
           ghost'.fate[c] # None => \E i \in DOMAIN log : log[i].conn = c /\ log[i].kind = "will"
    <3> SUFFICES ASSUME NEW c \in Conns, fate[c] # None
                 PROVE  \E i \in DOMAIN log : log[i].conn = c /\ log[i].kind = "will"
      BY <1>8
    <3>1. CASE lost(c)
      BY <3>1, <1>1, <1>3
    <3>2. CASE ~lost(c)
      BY <3>2, <1>1 DEF fate, FateOK
    <3> QED  BY <3>1, <3>2
  <2>6. \A i \in DOMAIN log :
           log[i].kind = "will" =>
              /\ conn'[log[i].conn].req.will # None
              /\ i > taken' => ghost'.fate[log[i].conn] = None
    BY <1>1, <1>2, <1>3, <2>1, <2>2 DEF FateOK
  <2> QED  BY <1>2, <2>3, <2>4, <2>5, <2>6 DEF FateOK
<1> QED  BY <1>2, <1>3, <1>4, <1>6, <1>8, <1>13, SessionStepOK

-----------------------------------------------------------------------------
(* The invariant and what follows from it. *)

\* It holds before the first connection.
LEMMA InitOK ==
  ASSUME Init
  PROVE  IndInv
<1>1. NewConn \in ConnType /\ NewConn.socket = <<>>
  <2>1. <<>> \in Seq(PacketType) /\ <<>> \in Seq(Hears)
    OBVIOUS
  <2> QED  BY <2>1 DEF NewConn, ConnType
<1>2. \A c \in Conns : conn[c] = NewConn
  BY DEF Init
<1>3. /\ <<>> \in Seq(Conns) /\ <<>> \in Seq(LogEntry) /\ DOMAIN <<>> = {} /\ Len(<<>>) = 0
  OBVIOUS
<1>4. TypeOK
  BY <1>1, <1>3 DEF Init, TypeOK, GhostType
<1>5. AccessOK(NewConn) /\ SocketOK(NewConn)
  BY <1>1, <1>3 DEF AccessOK, SocketOK, NewConn
<1>6. \A c \in Conns : LogOK(c, NewConn, log)
  BY <1>3 DEF Init, LogOK, Heard, NewConn
<1>7. InOrder(log) /\ AuthOK(auth, conn)
  BY <1>3 DEF Init, InOrder, AuthOK
<1>8. FateOK
  BY <1>3, ConstantsOK DEF Init, FateOK, WillIsPublished
<1> QED  BY <1>2, <1>4, <1>5, <1>6, <1>7, <1>8 DEF IndInv

\* Every step keeps it.
LEMMA NextOK ==
  ASSUME IndInv, [Next]_vars
  PROVE  IndInv'
<1>1. CASE AuthAnswer
  BY <1>1, AuthAnswerOK
<1>2. CASE SessionTakes
  BY <1>2, SessionTakesOK
<1>3. CASE SessionStops
  BY <1>3, SessionStopsOK
<1>4. CASE \E c \in Conns : ConnStep(c)
  <2>1. PICK c \in Conns : ConnStep(c)
    BY <1>4
  <2> QED
    BY <2>1, ClientConnectsOK, ClientSendsOK, ClientReadsOK, ConnectTimeoutOK, FirstPacketOK,
       AttachOK, WorkerReadsOK, WorkerHearsOK, WorkerWritesOK, KeepAliveFiresOK
       DEF ConnStep
<1>5. CASE UNCHANGED vars
  BY <1>5 DEF vars, IndInv, TypeOK, FateOK, WillIsPublished
<1> QED  BY <1>1, <1>2, <1>3, <1>4, <1>5 DEF Next

\* Every step of clients, workers, authentication service and session keeps
\* what is known of requests, sockets and the session's channel together.
THEOREM Invariance == Spec => []IndInv
<1>1. Init => IndInv
  BY InitOK
<1>2. IndInv /\ [Next]_vars => IndInv'
  BY NextOK
<1> QED  BY <1>1, <1>2, PTL DEF Spec

\* A session hears of a connection first its announcement, then the client's
\* packets in order and without gaps, and at most one will, at the end.
THEOREM SessionHearsInOrder == Spec => []HandedInOrder
<1>1. ASSUME IndInv PROVE HandedInOrder
  <2>1. \A i \in DOMAIN log : log[i].conn \in Conns
    BY <1>1, Parts, LogFields
  <2> QED  BY <1>1, <2>1, Parts DEF HandedInOrder, LogOK
<1>2. IndInv => HandedInOrder
  BY <1>1
<1> QED  BY <1>2, Invariance, PTL

\* Nobody without the right password reaches a session or the larger limit.
THEOREM AuthenticatedFirst == Spec => []OnlyAuthenticated
<1>1. ASSUME IndInv PROVE OnlyAuthenticated
  BY <1>1, Parts DEF OnlyAuthenticated, LogOK, AccessOK
<1>2. IndInv => OnlyAuthenticated
  BY <1>1
<1> QED  BY <1>2, Invariance, PTL

\* A will that a session takes is published, but for a second one with QoS 2.
THEOREM WillsArePublished == Spec => []WillIsPublished
<1>1. IndInv => WillIsPublished
  BY DEF IndInv, FateOK
<1> QED  BY <1>1, Invariance, PTL

=============================================================================
