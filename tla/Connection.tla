------------------------------ MODULE Connection ------------------------------
(***************************************************************************)
(* Connections from the first byte to the last: the task that reads the    *)
(* CONNECT (server/mod.rs), the authentication service (auth/), and the    *)
(* client worker between socket and session (client/clientworker.rs).      *)
(*                                                                         *)
(* All connections are of one client, so they share a session, which takes *)
(* one message at a time from its channel.  Of the session's own work      *)
(* (SessionWorker) only what concerns connections is here: the takeover,   *)
(* the CONNACK, and what becomes of a will.                                *)
(*                                                                         *)
(* A task that writes to a socket waits until the socket has room; while   *)
(* it does, it looks at nothing else.                                      *)
(***************************************************************************)
EXTENDS Naturals, Sequences, FiniteSets

CONSTANTS
    None,           \* no client, no will, no request yet
    Conns,          \* connections
    Requests,       \* the CONNECTs clients send: records as in ConnectOK
    Users,          \* the configured passwords: a function of user names
    SendBuffer,     \* messages the socket takes before the client reads one
    MaxPackets,     \* bound: what the clients send in all, CONNECTs included
    MaxStops        \* bound: sessions that end with an error

ConnectOK(r) ==
    /\ r.version \in Nat /\ r.id \in BOOLEAN        \* FALSE: the empty client id
    /\ r.keep_alive \in Nat /\ r.clean \in BOOLEAN
    /\ r.will \in {None} \cup 0 .. 2                \* the will's QoS

ASSUME ConstantsOK ==
    /\ None \notin Conns /\ None \notin Requests /\ None \notin {"routed", "swallowed", "lost"}
    /\ \A r \in Requests : ConnectOK(r)
    /\ SendBuffer \in Nat \ {0} /\ MaxPackets \in Nat /\ MaxStops \in Nat

VARIABLES
    conn,       \* the connections
    auth,       \* requests in the channel of the authentication service
    session,    \* the session: its client and whether 0 is in qos_incoming
    log,        \* every message ever put into the session's channel
    taken,      \* how many of them the session has taken
    ghost       \* bounds, and what became of the wills

vars == <<conn, auth, session, log, taken, ghost>>

-----------------------------------------------------------------------------
(* Data. *)

\* st: "new", "connect": waits for the CONNECT, "auth", "asking": for a
\* session, "running": the worker's loop, "closed".
\* socket: packets the worker has not read; cut: the client closed it.
\* out: messages the client has not read.  writing: the worker waits for room.
\* rx: the worker's channel from the session.  tx: is the session's still open.
NewConn ==
    [st |-> "new", req |-> None, limit |-> "pre",
     socket |-> <<>>, cut |-> FALSE, out |-> 0, sent |-> 0,
     writing |-> FALSE, status |-> "Connected", timer |-> FALSE, rx |-> <<>>, tx |-> FALSE]

\* A client's packet: n counts those that are forwarded to the session.
Packet(kind, n) == [kind |-> kind, n |-> n]
Forwarded == {"packet", "large"}    \* large: above the limit before authentication

Entry(c, kind, n) == [conn |-> c, kind |-> kind, n |-> n]

\* A connection that is over keeps what the properties speak of.
Closed(k) == [NewConn EXCEPT !.st = "closed", !.req = k.req, !.limit = k.limit]

Upd(c, k) == conn' = [conn EXCEPT ![c] = k]

-----------------------------------------------------------------------------
(* The client. *)

ClientConnects(c) ==
    /\ conn[c].st = "new"
    /\ Upd(c, [conn[c] EXCEPT !.st = "connect"])
    /\ UNCHANGED <<auth, session, log, taken, ghost>>

\* Anything may be sent, also ahead of an answer; the first CONNECT counts.
ClientSends(c) ==
    /\ conn[c].st \notin {"new", "closed"} /\ ~conn[c].cut
    /\ ghost.packets < MaxPackets
    /\ \/ \E r \in Requests :
            /\ conn[c].req = None
            /\ Upd(c, [conn[c] EXCEPT !.req = r, !.socket = Append(@, Packet("connect", 0))])
       \/ \E kind \in Forwarded :
            Upd(c, [conn[c] EXCEPT !.sent = @ + 1, !.socket = Append(@, Packet(kind, conn[c].sent + 1))])
       \/ \E kind \in {"ping", "disconnect", "bad"} :
            Upd(c, [conn[c] EXCEPT !.socket = Append(@, Packet(kind, 0))])
    /\ ghost' = [ghost EXCEPT !.packets = @ + 1]
    /\ UNCHANGED <<auth, session, log, taken>>

ClientReads(c) ==
    /\ conn[c].out > 0
    /\ Upd(c, [conn[c] EXCEPT !.out = @ - 1])
    /\ UNCHANGED <<auth, session, log, taken, ghost>>

ClientCloses(c) ==
    /\ conn[c].st \notin {"new", "closed"} /\ ~conn[c].cut
    /\ Upd(c, [conn[c] EXCEPT !.cut = TRUE])
    /\ UNCHANGED <<auth, session, log, taken, ghost>>

\* The decoder refuses the packet; what is in the socket of a client that is
\* gone may also be lost.
DecodeError(c, p) == p.kind = "bad" \/ (p.kind = "large" /\ conn[c].limit = "pre")

-----------------------------------------------------------------------------
(* connect: the first packet, within connect_timeout. *)

ConnectTimeout(c) ==
    /\ conn[c].st = "connect"
    /\ Upd(c, Closed(conn[c]))
    /\ UNCHANGED <<auth, session, log, taken, ghost>>

\* UnacceptableVersion or IdentifierRejected, before anyone is asked.
Refused(r) == r.version # 4 \/ ~r.id

FirstPacket(c) ==
    /\ conn[c].st = "connect"
    /\ \/ /\ conn[c].cut /\ Upd(c, Closed(conn[c])) /\ UNCHANGED auth
       \/ /\ conn[c].socket # <<>>
          /\ LET p == Head(conn[c].socket)
                 k == [conn[c] EXCEPT !.socket = Tail(@)]
             IN  IF DecodeError(c, p) \/ p.kind # "connect" \/ Refused(k.req)
                 THEN Upd(c, Closed(k)) /\ UNCHANGED auth
                 ELSE Upd(c, [k EXCEPT !.st = "auth"]) /\ auth' = Append(auth, c)
    /\ UNCHANGED <<session, log, taken, ghost>>

-----------------------------------------------------------------------------
(* The authentication service. *)

\* mutant: a known user is enough
check_user_only(user, password) ==
    IF user \in DOMAIN Users THEN "Accepted" ELSE "BadUsernameOrPassword"

check_password_internal(user, password) ==
    IF user \in DOMAIN Users /\ Users[user] = password THEN "Accepted" ELSE "BadUsernameOrPassword"

\* One request at a time, answered through the requester's own channel; then
\* connect returns and connect_stream raises the limit, or the client is refused.
AuthAnswer ==
    /\ auth # <<>>
    /\ LET c == Head(auth)
           code == check_password_internal(conn[c].req.user, conn[c].req.password)
       IN  Upd(c, IF code = "Accepted"
                  THEN [conn[c] EXCEPT !.st = "asking", !.limit = "post"]
                  ELSE Closed(conn[c]))
    /\ auth' = Tail(auth)
    /\ UNCHANGED <<session, log, taken, ghost>>

-----------------------------------------------------------------------------
(* connect_stream: the connection is announced to the session, then its     *)
(* worker runs.                                                             *)

\* mutant: off by one
set_keepalive_timer_above_one(k) == [k EXCEPT !.timer = k.req.keep_alive > 1]

\* set_keepalive_timer, at the start of run_loop.
set_keepalive_timer(k) == [k EXCEPT !.timer = k.req.keep_alive > 0]

\* mutant: the worker runs before the session knows of the connection
AttachUnannounced(c) ==
    /\ conn[c].st = "asking"
    /\ Upd(c, set_keepalive_timer([conn[c] EXCEPT !.st = "running", !.tx = TRUE]))
    /\ UNCHANGED <<auth, session, log, taken, ghost>>

Attach(c) ==
    /\ conn[c].st = "asking"
    /\ \/ \* no session, or it is gone by now
          Upd(c, Closed(conn[c])) /\ UNCHANGED log
       \/ /\ Upd(c, set_keepalive_timer([conn[c] EXCEPT !.st = "running", !.tx = TRUE]))
          /\ log' = Append(log, Entry(c, "client", 0))
    /\ UNCHANGED <<auth, session, taken, ghost>>

-----------------------------------------------------------------------------
(* The worker.  An iteration of its loop is one event of one of three        *)
(* sources and that event's handler.                                        *)

Selects(c) == conn[c].st = "running" /\ ~conn[c].writing

\* The loop ends: send_will unless the status is Disconnect.
Ends(c, k) ==
    /\ Upd(c, Closed(k))
    /\ log' = IF k.status # "Disconnect" /\ k.req.will # None /\ k.tx
              THEN Append(log, Entry(c, "will", k.sent)) ELSE log

\* After a message is written: the loop goes on or is left.
GoesOn(c, k) ==
    IF k.status = "Disconnect" THEN Ends(c, k) ELSE Upd(c, k) /\ UNCHANGED log

\* send_client_message: fails if the client is gone, waits if there is no room.
send_client_message(c, k) ==
    \/ k.cut /\ Ends(c, k)
    \/ k.out < SendBuffer /\ GoesOn(c, [k EXCEPT !.out = @ + 1, !.writing = FALSE])
    \/ k.out >= SendBuffer /\ ~k.writing /\ Upd(c, [k EXCEPT !.writing = TRUE]) /\ UNCHANGED log

WorkerWrites(c) ==
    /\ conn[c].st = "running" /\ conn[c].writing
    /\ send_client_message(c, conn[c])
    /\ UNCHANGED <<auth, session, taken, ghost>>

\* reset_keepalive starts the delay again; delays are not measured here, a timer
\* that is set can fire.
reset_keepalive(k) == k

disconnect_message(k) == [k EXCEPT !.timer = FALSE, !.status = "Disconnect"]

\* client_recv_event, and the socket's end or error.
WorkerReads(c) ==
    /\ Selects(c)
    /\ \/ conn[c].cut /\ Ends(c, conn[c])
       \/ /\ conn[c].socket # <<>>
          /\ LET p == Head(conn[c].socket)
                 k == [conn[c] EXCEPT !.socket = Tail(@)]
             IN  IF DecodeError(c, p) \/ p.kind = "connect" THEN Ends(c, k)
                 ELSE IF p.kind = "disconnect" THEN Ends(c, disconnect_message(k))
                 ELSE IF p.kind = "ping" THEN send_client_message(c, reset_keepalive(k))
                 ELSE IF k.tx \* send_message_session
                 THEN Upd(c, reset_keepalive(k)) /\ log' = Append(log, Entry(c, "packet", p.n))
                 ELSE Ends(c, k)
    /\ UNCHANGED <<auth, session, taken, ghost>>

\* client_rx_recv_event.
WorkerHears(c) ==
    /\ Selects(c) /\ conn[c].rx # <<>>
    /\ LET m == Head(conn[c].rx)
           k == [conn[c] EXCEPT !.rx = Tail(@)]
       IN  CASE m = "Disconnect" -> Ends(c, k)
             [] m = "ServerUnavailable" ->
                    send_client_message(c, [k EXCEPT !.status = "Disconnect"])
             [] OTHER -> send_client_message(c, k)
    /\ UNCHANGED <<auth, session, taken, ghost>>

\* timer_event: nothing has been read from the client for the keep-alive time.
KeepAliveFires(c) ==
    /\ Selects(c) /\ conn[c].timer
    /\ Ends(c, [conn[c] EXCEPT !.timer = FALSE])
    /\ UNCHANGED <<auth, session, taken, ghost>>

-----------------------------------------------------------------------------
(* The session. *)

\* The channel of a worker that has ended is closed; then self.client is None.
Told(cs, c, m) == IF c \in Conns /\ cs[c].st = "running" THEN [cs EXCEPT ![c].rx = Append(@, m)] ELSE cs
Present(cs, c) == IF c \in Conns /\ cs[c].st = "running" THEN c ELSE None

\* new_client_connected: the old client is told to go, a clean session forgets
\* the identifiers it received, the CONNACK is sent.
NewClient(m) ==
    LET cs == Told(conn, session.client, "Disconnect")
        r == conn[m.conn].req
    IN  /\ conn' = Told(cs, m.conn, "Accepted")
        /\ session' = [client |-> Present(conn, m.conn), zero |-> session.zero /\ ~r.clean]
        /\ UNCHANGED ghost

\* mutant: any identifier that was received counts, whatever the QoS
DuplicateOfAnyQos(qos) == session.zero

\* publish_message: a QoS 2 message whose identifier was received already is
\* only answered.  A will is a PUBLISH with identifier 0.
Duplicate(qos) == qos = 2 /\ session.zero

WillMessage(m) ==
    LET qos == conn[m.conn].req.will
        answer == IF qos = 0 THEN conn ELSE Told(conn, session.client, "PubAck or PubRec")
    IN  /\ conn' = answer
        /\ session' = [client |-> Present(conn, session.client), zero |-> session.zero \/ qos = 2]
        /\ ghost' = [ghost EXCEPT !.fate[m.conn] = IF Duplicate(qos) THEN "swallowed" ELSE "routed"]

\* Any other packet may be answered, to whoever is the client by now.
OtherPacket ==
    /\ \E answered \in BOOLEAN : conn' = IF answered THEN Told(conn, session.client, "answer") ELSE conn
    /\ session' = [session EXCEPT !.client = Present(conn, @)]
    /\ UNCHANGED ghost

SessionTakes ==
    /\ taken < Len(log)
    /\ taken' = taken + 1
    /\ LET m == log[taken + 1]
       IN  \/ m.kind = "client" /\ NewClient(m)
           \/ m.kind = "will" /\ WillMessage(m)
           \/ m.kind = "packet" /\ OtherPacket
    /\ UNCHANGED <<auth, log>>

\* A failed handler: the client is told to go.  A new one has its CONNACK by
\* then, a refusal if it was clean_session that failed.
Failed(m) ==
    LET old == Told(conn, session.client, "Disconnect")
        codes == {"Accepted"} \cup (IF conn[m.conn].req.clean THEN {"ServerUnavailable"} ELSE {})
    IN  IF m.kind = "client"
        THEN {Told(Told(old, m.conn, code), m.conn, "Disconnect") : code \in codes}
        ELSE {old}

\* The session ends in a handler, or in init_persist_session before it has a
\* client; its channel is dropped with what is in it.  The next connection gets
\* another session, with the same rows.
SessionStops ==
    /\ taken < Len(log) /\ ghost.stops < MaxStops
    /\ \E cs \in Failed(log[taken + 1]) \cup {conn} :
          /\ cs = conn => session.client = None
          /\ conn' = [c \in Conns |-> [cs[c] EXCEPT !.tx = FALSE]]
    /\ session' = [session EXCEPT !.client = None]
    /\ taken' = Len(log)
    /\ ghost' = [ghost EXCEPT !.stops = @ + 1,
                              !.fate = [c \in Conns |->
                                  IF \E i \in taken + 1 .. Len(log) : log[i].conn = c /\ log[i].kind = "will"
                                  THEN "lost" ELSE @[c]]]
    /\ UNCHANGED <<auth, log>>

-----------------------------------------------------------------------------
Init ==
    /\ conn = [c \in Conns |-> NewConn]
    /\ auth = <<>> /\ log = <<>> /\ taken = 0
    /\ session = [client |-> None, zero |-> FALSE]
    /\ ghost = [packets |-> 0, stops |-> 0, fate |-> [c \in Conns |-> None]]

ConnStep(c) ==
    \/ ClientConnects(c) \/ ClientSends(c) \/ ClientReads(c) \/ ClientCloses(c)
    \/ ConnectTimeout(c) \/ FirstPacket(c) \/ Attach(c)
    \/ WorkerReads(c) \/ WorkerHears(c) \/ WorkerWrites(c) \/ KeepAliveFires(c)

Next == AuthAnswer \/ SessionTakes \/ SessionStops \/ \E c \in Conns : ConnStep(c)

\* Every task that can go on does.  select! picks one of its ready branches at
\* random, so none that stays ready is passed over for ever.  Timers expire
\* because the packets of a client are bounded: it falls silent.
Fairness ==
    /\ WF_vars(AuthAnswer)
    /\ WF_vars(SessionTakes)
    /\ \A c \in Conns : /\ WF_vars(ConnectTimeout(c)) /\ WF_vars(FirstPacket(c)) /\ WF_vars(Attach(c))
                        /\ WF_vars(WorkerReads(c)) /\ WF_vars(WorkerHears(c))
                        /\ WF_vars(WorkerWrites(c)) /\ WF_vars(KeepAliveFires(c))

Spec == Init /\ [][Next]_vars /\ Fairness

-----------------------------------------------------------------------------
(* Properties. *)

\* What a session hears of a connection is its announcement, then a beginning of
\* what the client sent, in order and without gaps, then possibly its will
\* (connect_stream, run_loop of the worker).
InOrder(l) ==
    \A i \in DOMAIN l :
       LET others == {j \in DOMAIN l : l[j].conn = l[i].conn}
           before == {j \in others : j < i}
       IN  /\ l[i].kind = "client" => before = {}
           /\ l[i].kind # "client" => \E j \in before : l[j].kind = "client"
           /\ l[i].kind = "packet" =>
                 /\ \A j \in before : l[j].kind = "packet" => l[j].n < l[i].n
                 /\ l[i].n = 1 \/ \E j \in before : l[j].kind = "packet" /\ l[j].n = l[i].n - 1
           /\ l[i].kind = "will" => \A j \in others : j <= i

HandedInOrder ==
    /\ InOrder(log)
    /\ \A i \in DOMAIN log : log[i].kind = "will" => conn[log[i].conn].st = "closed"

\* Only a client with the right password is announced to a session or gets the
\* larger packet limit, however the requests interleave ("kept small to limit
\* pre-auth memory allocation").
Heard(c, l) == \E i \in DOMAIN l : l[i].conn = c

Authenticated(r) ==
    r # None /\ r.version = 4 /\ r.id /\ r.user \in DOMAIN Users /\ r.password = Users[r.user]

OnlyAuthenticated ==
    \A c \in Conns : Heard(c, log) \/ conn[c].limit = "post" => Authenticated(conn[c].req)

\* A will that reaches a session is published, but for a QoS 2 will after
\* another one: both are identifier 0 (send_will, publish_message).
WillIsPublished ==
    \A c \in Conns :
       ghost.fate[c] = "swallowed" =>
          /\ conn[c].req.will = 2
          /\ \E d \in Conns \ {c} : ghost.fate[d] = "routed" /\ conn[d].req.will = 2

\* A client that stops sending does not keep its connection: the CONNECT has its
\* timeout and, with a keep-alive, so has the rest.  The exception is a client
\* that reads nothing either: a worker that waits for room in the socket does
\* not look at its timer (run_loop, send_client_message).
SilentEnds ==
    \A c \in Conns :
       (conn[c].st # "new" /\ (conn[c].req # None => conn[c].req.keep_alive > 0))
          ~> \/ conn[c].st = "closed" \/ [](conn[c].writing)
             \/ (conn[c].req # None /\ conn[c].req.keep_alive = 0)

-----------------------------------------------------------------------------
(* The inductive invariant behind HandedInOrder, OnlyAuthenticated and       *)
(* WillIsPublished.                                                          *)

Hears == {"Disconnect", "Accepted", "ServerUnavailable", "PubAck or PubRec", "answer"}

PacketType == [kind : Forwarded \cup {"connect", "ping", "disconnect", "bad"}, n : Nat]

ConnType ==
    [st : {"new", "connect", "auth", "asking", "running", "closed"},
     req : Requests \cup {None}, limit : {"pre", "post"},
     socket : Seq(PacketType),
     cut : BOOLEAN, out : Nat, sent : Nat, writing : BOOLEAN,
     status : {"Connected", "Disconnect"}, timer : BOOLEAN, rx : Seq(Hears), tx : BOOLEAN]

LogEntry == [conn : Conns, kind : {"client", "packet", "will"}, n : Nat]

GhostType ==
    [packets : Nat, stops : Nat, fate : [Conns -> {None, "routed", "swallowed", "lost"}]]

TypeOK ==
    /\ conn \in [Conns -> ConnType]
    /\ auth \in Seq(Conns)
    /\ session \in [client : Conns \cup {None}, zero : BOOLEAN]
    /\ log \in Seq(LogEntry)
    /\ taken \in 0 .. Len(log)
    /\ ghost \in GhostType

\* Who has come how far.  req is what a "connect" in the socket stands for.
AccessOK(k) ==
    /\ k.st \in {"asking", "running"} => k.limit = "post"
    /\ k.st = "auth" => k.req # None /\ ~Refused(k.req)
    /\ k.limit = "post" => Authenticated(k.req)
    /\ (\E i \in DOMAIN k.socket : k.socket[i].kind = "connect") => k.req # None

\* The forwarded packets in the socket are numbered upwards, up to sent.
SocketOK(k) ==
    \A i \in DOMAIN k.socket :
       k.socket[i].kind \in Forwarded =>
          /\ 1 <= k.socket[i].n /\ k.socket[i].n <= k.sent
          /\ \A j \in DOMAIN k.socket :
                i < j /\ k.socket[j].kind \in Forwarded => k.socket[i].n < k.socket[j].n

\* While a connection is open every packet sent is in the channel or, behind
\* those, still in the socket.
LogOK(c, k, l) ==
    /\ Heard(c, l) => k.st \in {"running", "closed"} /\ k.limit = "post"
    /\ k.st = "running" => Heard(c, l)
    /\ \A i \in DOMAIN l :
          l[i].conn = c =>
             /\ l[i].kind = "will" => k.st = "closed"
             /\ l[i].kind = "packet" /\ k.st = "running" =>
                   /\ l[i].n <= k.sent
                   /\ \A j \in DOMAIN k.socket :
                         k.socket[j].kind \in Forwarded => l[i].n < k.socket[j].n
    /\ \A n \in 1 .. k.sent :
          \/ \E i \in DOMAIN l : l[i].conn = c /\ l[i].kind = "packet" /\ l[i].n = n
          \/ \E j \in DOMAIN k.socket : k.socket[j].kind \in Forwarded /\ k.socket[j].n = n

\* Who waits for the authentication service asked it once.
AuthOK(queue, cs) ==
    \A i, j \in DOMAIN queue :
       cs[queue[i]].st = "auth" /\ (queue[i] = queue[j] => i = j)

\* Identifier 0 is held because of a QoS 2 will that was published; a will that
\* is still in the channel has no fate.
FateOK ==
    /\ session.zero => \E c \in Conns : ghost.fate[c] = "routed" /\ conn[c].req.will = 2
    /\ \A c \in Conns :
          ghost.fate[c] # None => \E i \in DOMAIN log : log[i].conn = c /\ log[i].kind = "will"
    /\ \A i \in DOMAIN log :
          log[i].kind = "will" =>
             /\ conn[log[i].conn].req.will # None
             /\ i > taken => ghost.fate[log[i].conn] = None
    /\ WillIsPublished

IndInv ==
    /\ TypeOK
    /\ \A c \in Conns : AccessOK(conn[c]) /\ SocketOK(conn[c]) /\ LogOK(c, conn[c], log)
    /\ InOrder(log)
    /\ AuthOK(auth, conn)
    /\ FateOK
=============================================================================
