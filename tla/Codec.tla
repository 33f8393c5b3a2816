-------------------------------- MODULE Codec --------------------------------
(***************************************************************************)
(* The packet codec (messages/): the length field, the validation of names *)
(* and filters, the parsers and encoders of the packets, and MqttCodec,    *)
(* which cuts a byte stream into packets.                                  *)
(*                                                                         *)
(* A byte is a number in 0..255.  The state machine is one connection's    *)
(* Framed<T, MqttCodec>: bytes arrive in pieces of any size, decode is     *)
(* called until it asks for more, and an error ends the stream.            *)
(***************************************************************************)
EXTENDS Naturals, SequencesExt

CONSTANTS
    Streams,        \* what a client may send: sequences of packets, the last
                    \* of them possibly cut: [sent, cut]
    Names,          \* the names in them, as sequences of code points
    PreAuth,        \* max_packet_size before the CONNECT is authenticated
    PostAuth        \* max_packet_size afterwards

ASSUME LimitsOK == PreAuth \in Nat /\ PostAuth \in Nat

Bytes == 0 .. 255

Bit(byte, n) == (byte \div 2^n) % 2 = 1

-----------------------------------------------------------------------------
(* length.rs and Reader::read_varint. *)

MAX_LENGTH == 268435455

\* The value of the first n bytes of a length field, at most four: seven bits of
\* each, the lowest first.
LengthValue(b, n) ==
    LET digit(i) == IF i <= n THEN b[i] % 128 ELSE 0
    IN  digit(1) + 128 * digit(2) + 16384 * digit(3) + 2097152 * digit(4)

LengthEnds(b, n) == {k \in 1 .. n : k <= Len(b) /\ b[k] < 128}

FirstOf(ends) == CHOOSE k \in ends : \A j \in ends : k <= j

\* Ok(Some((len, lensize))), Ok(None) when more bytes are needed, Err.
read_size_check(b) ==
    LET ends == LengthEnds(b, 4)
    IN  IF ends # {} THEN [res |-> "some", len |-> LengthValue(b, FirstOf(ends)), size |-> FirstOf(ends)]
        ELSE IF Len(b) >= 4 THEN [res |-> "err"] ELSE [res |-> "none"]

\* The parser's own reading of the field: no byte may be missing.
read_varint(b) ==
    LET ends == LengthEnds(b, 4)
    IN  IF ends # {} THEN [ok |-> TRUE, len |-> LengthValue(b, FirstOf(ends)), size |-> FirstOf(ends)]
        ELSE [ok |-> FALSE]

encode_length[n \in Nat] ==
    IF n < 128 THEN <<n>> ELSE <<128 + (n % 128)>> \o encode_length[n \div 128]

u16(n) == <<n \div 256, n % 256>>

Prefixed(s) == u16(Len(s)) \o s

-----------------------------------------------------------------------------
(* validation.rs.  The iterator computes with value, which is still 0, in   *)
(* place of the lead byte, so only the continuation bytes count.            *)

NUL == 0
HASH == 35
PLUS == 43
SLASH == 47

\* Number of bytes announced by a lead byte; 0 when it is none.
CharSize(byte) ==
    CASE byte < 128 -> 1
      [] byte \in 192 .. 223 -> 2
      [] byte \in 224 .. 239 -> 3
      [] byte \in 240 .. 247 -> 4
      [] OTHER -> 0

\* UTF8Iterator::next at index i: a value and the next index, which stays i
\* when the lead byte is none or bytes are missing.
UTF8Next(s, i) ==
    LET n == CharSize(s[i])
        conts == SubSeq(s, i + 1, i + n - 1)
    IN  CASE n = 1 -> [value |-> s[i], index |-> i + 1]
          [] n = 0 \/ i + n - 1 > Len(s) -> [value |-> 0, index |-> i]
          [] OTHER ->
               [value |-> IF \A k \in DOMAIN conts : conts[k] \in 128 .. 191
                          THEN FoldLeft(LAMBDA v, c : v * 64 + (c % 64), 0, conts) ELSE 0,
                index |-> i + n]

\* What a loop over the iterator sees.  Every loop leaves at the first 0.
UTF8Values(s) ==
    LET from[i \in 1 .. Len(s) + 1] ==
            IF i > Len(s) THEN <<>>
            ELSE LET next == UTF8Next(s, i)
                 IN  IF next.value = 0 THEN <<0>> ELSE <<next.value>> \o from[next.index]
    IN  from[1]

qos_valid(qos) == qos <= 2

client_id_valid(s) == Len(s) <= 65535 /\ NUL \notin Range(UTF8Values(s))

publish_topic_valid(s) ==
    /\ Len(s) \in 1 .. 65535
    /\ Range(UTF8Values(s)) \cap {NUL, PLUS, HASH} = {}

\* The letter before the i-th, 0 for the first.
Previous(v, i) == IF i = 1 THEN 0 ELSE v[i - 1]

\* mutant: a level may go on behind a +
PlusPrefixAllowed(v) ==
    \A i \in DOMAIN v :
       /\ v[i] # NUL
       /\ Previous(v, i) # HASH
       /\ v[i] \in {HASH, PLUS} => Previous(v, i) \in {0, SLASH}

\* The loop of topic_filter_valid.
WildcardsValid(v) ==
    \A i \in DOMAIN v :
       /\ v[i] # NUL
       /\ Previous(v, i) # HASH
       /\ Previous(v, i) = PLUS => v[i] = SLASH
       /\ v[i] \in {HASH, PLUS} => Previous(v, i) \in {0, SLASH}

topic_filter_valid(s) == Len(s) \in 1 .. 65535 /\ WildcardsValid(UTF8Values(s))

\* UTF-8 itself: the bytes of a code point, and the strings String::from_utf8
\* takes.
UTF8(cp) ==
    LET cont(n) == 128 + ((cp \div 64^n) % 64)
    IN  CASE cp < 128 -> <<cp>>
          [] cp \in 128 .. 2047 -> <<192 + (cp \div 64), cont(0)>>
          [] cp \in 2048 .. 65535 -> <<224 + (cp \div 4096), cont(1), cont(0)>>
          [] OTHER -> <<240 + (cp \div 262144), cont(2), cont(1), cont(0)>>

UTF8String(cps) == FoldLeft(LAMBDA s, cp : s \o UTF8(cp), <<>>, cps)

from_utf8(s) ==
    LET lead(b, n) == IF n = 1 THEN b ELSE b % 2^(7 - n)
        cp(i, n) == FoldLeft(LAMBDA v, b : v * 64 + (b % 64), lead(s[i], n), SubSeq(s, i + 1, i + n - 1))
        ok[i \in 1 .. Len(s) + 1] ==
            \/ i > Len(s)
            \/ LET n == CharSize(s[i])
               IN  /\ n > 0 /\ i + n - 1 <= Len(s)
                   /\ cp(i, n) <= 1114111 /\ cp(i, n) \notin 55296 .. 57343
                   /\ UTF8(cp(i, n)) = SubSeq(s, i, i + n - 1)
                   /\ ok[i + n]
    IN  ok[1]

-----------------------------------------------------------------------------
(* The parsers.  A body is the frame behind its length field; a parser      *)
(* answers Ok(msg) or Fail.  reader.rs: nothing is read past the end.       *)

Fail == [ok |-> FALSE]
Ok(msg) == [ok |-> TRUE, msg |-> msg]

Has(b, i, n) == i + n - 1 <= Len(b)
ReadU16(b, i) == b[i] * 256 + b[i + 1]

HasString(b, i) == Has(b, i, 2) /\ Has(b, i + 2, ReadU16(b, i))
ReadString(b, i) == SubSeq(b, i + 2, i + 1 + ReadU16(b, i))
PastString(b, i) == i + 2 + ReadU16(b, i)

PublishFromBytes(flags, b) ==
    LET dup == Bit(flags, 3)
        qos == (flags \div 2) % 4
        id == PastString(b, 1)
        payload == IF qos > 0 THEN id + 2 ELSE id
    IN  IF /\ qos_valid(qos)
           /\ ~(dup /\ qos = 0)
           /\ HasString(b, 1)
           /\ publish_topic_valid(ReadString(b, 1))
           /\ from_utf8(ReadString(b, 1))
           /\ qos > 0 => Has(b, id, 2) /\ ReadU16(b, id) # 0
        THEN Ok([type |-> "Publish", dup |-> dup, qos |-> qos, retain |-> Bit(flags, 0),
                 topic |-> ReadString(b, 1), mid |-> IF qos > 0 THEN ReadU16(b, id) ELSE 0,
                 message |-> SubSeq(b, payload, Len(b))])
        ELSE Fail

\* The loop over topic filters, each followed by a QoS byte in a SUBSCRIBE.
Filters(b, withQos) ==
    LET from[i \in 1 .. Len(b) + 1] ==
            IF i > Len(b) THEN Ok(<<>>)
            ELSE IF /\ HasString(b, i)
                    /\ topic_filter_valid(ReadString(b, i))
                    /\ from_utf8(ReadString(b, i))
                    /\ withQos => Has(b, PastString(b, i), 1) /\ qos_valid(b[PastString(b, i)])
                 THEN LET next == PastString(b, i)
                          item == IF withQos THEN <<ReadString(b, i), b[next]>>
                                  ELSE <<ReadString(b, i)>>
                          rest == from[IF withQos THEN next + 1 ELSE next]
                      IN  IF rest.ok THEN Ok(<<item>> \o rest.msg) ELSE Fail
                 ELSE Fail
    IN  from[3]

\* At least one filter is needed.
WithFilters(type, mid, filters) ==
    IF filters.ok /\ filters.msg # <<>>
    THEN Ok([type |-> type, mid |-> mid, topics |-> filters.msg])
    ELSE Fail

SubscribeFromBytes(flags, b) ==
    IF flags = 2 /\ Has(b, 1, 2) /\ ReadU16(b, 1) # 0
    THEN WithFilters("Subscribe", ReadU16(b, 1), Filters(b, TRUE))
    ELSE Fail

\* The identifier is not checked here.
UnsubscribeFromBytes(flags, b) ==
    IF flags = 2 /\ Has(b, 1, 2)
    THEN WithFilters("Unsubscribe", ReadU16(b, 1), Filters(b, FALSE))
    ELSE Fail

\* PUBACK, PUBREC, PUBREL and PUBCOMP differ in the flags they require.
AckFromBytes(type, flags, b) ==
    IF flags = (IF type = "PubRel" THEN 2 ELSE 0) /\ Len(b) = 2
    THEN Ok([type |-> type, mid |-> ReadU16(b, 1)])
    ELSE Fail

PingReqFromBytes(flags, b) == IF flags = 0 /\ b = <<>> THEN Ok([type |-> "PingReq"]) ELSE Fail

NoWill == [topic |-> <<>>, message |-> <<>>, qos |-> 0, retain |-> FALSE]

\* The protocol name is skipped, whatever it is.
ConnectFromBytes(header, b) ==
    LET flags == b[8]
        willflag == Bit(flags, 2)
        willqos == (flags \div 8) % 4
        client == 11
        willtopic == PastString(b, client)
        willmsg == PastString(b, willtopic)
        username == IF willflag THEN PastString(b, willmsg) ELSE willtopic
        password == IF Bit(flags, 7) THEN PastString(b, username) ELSE username
        end == IF Bit(flags, 6) THEN PastString(b, password) ELSE password
        string(flag, i) == flag => HasString(b, i) /\ from_utf8(ReadString(b, i))
        optional(flag, i) == IF flag THEN ReadString(b, i) ELSE <<>>
    IN  IF /\ header = 0
           /\ Has(b, 1, 10) /\ ~Bit(flags, 0)
           /\ string(TRUE, client) /\ client_id_valid(ReadString(b, client))
           /\ IF willflag
              THEN /\ qos_valid(willqos)
                   /\ string(TRUE, willtopic) /\ publish_topic_valid(ReadString(b, willtopic))
                   /\ HasString(b, willmsg)
              ELSE willqos = 0 /\ ~Bit(flags, 5)
           /\ string(Bit(flags, 7), username)
           /\ string(Bit(flags, 6), password)
           /\ end = Len(b) + 1
        THEN Ok([type |-> "Connect", version |-> b[7], clean_session |-> Bit(flags, 1),
                 keepalive |-> ReadU16(b, 9), client |-> ReadString(b, client),
                 will |-> willflag,
                 willmsg |-> IF willflag
                             THEN [topic |-> ReadString(b, willtopic), message |-> ReadString(b, willmsg),
                                   qos |-> willqos, retain |-> Bit(flags, 5)]
                             ELSE NoWill,
                 username |-> optional(Bit(flags, 7), username),
                 password |-> optional(Bit(flags, 6), password)])
        ELSE Fail

TypeName ==
    <<"Connect", "ConnAck", "Publish", "PubAck", "PubRec", "PubRel", "PubComp", "Subscribe",
      "SubAck", "Unsubscribe", "UnsubAck", "PingReq", "PingResp", "Disconnect">>

TypeNumber(type) == CHOOSE n \in DOMAIN TypeName : TypeName[n] = type

\* A DISCONNECT is not parsed at all.  What only a server sends is refused,
\* and so are the types 0 and 15.
FromBytes(frame) ==
    LET number == frame[1] \div 16
        flags == frame[1] % 16
        length == read_varint(Tail(frame))
        b == SubSeq(frame, 2 + length.size, Len(frame))
        type == IF number \in DOMAIN TypeName THEN TypeName[number] ELSE "unknown"
    IN  IF type = "Disconnect" THEN Ok([type |-> "Disconnect"])
        ELSE IF ~length.ok THEN Fail
        ELSE CASE type = "Connect" -> ConnectFromBytes(flags, b)
               [] type = "Publish" -> PublishFromBytes(flags, b)
               [] type = "Subscribe" -> SubscribeFromBytes(flags, b)
               [] type = "Unsubscribe" -> UnsubscribeFromBytes(flags, b)
               [] type = "PingReq" -> PingReqFromBytes(flags, b)
               [] type \in {"PubAck", "PubRec", "PubRel", "PubComp"} -> AckFromBytes(type, flags, b)
               [] OTHER -> Fail

-----------------------------------------------------------------------------
(* The encoders.  A packet only a client sends has none. *)

Flag(b, n) == IF b THEN 2^n ELSE 0

Frame(type, flags, body) == <<16 * TypeNumber(type) + flags>> \o encode_length[Len(body)] \o body

\* Neither the session's dup flag nor any other sets bit 3.
PublishToBytes(m) ==
    Frame("Publish", Flag(m.retain, 0) + 2 * m.qos,
          Prefixed(m.topic) \o (IF m.qos > 0 THEN u16(m.mid) ELSE <<>>) \o m.message)

AckToBytes(m) == Frame(m.type, IF m.type = "PubRel" THEN 2 ELSE 0, u16(m.mid))

ConnackToBytes(m) == Frame("ConnAck", 0, <<Flag(m.session_present, 0), m.return_code>>)

SubackToBytes(m) == Frame("SubAck", 0, u16(m.mid) \o m.response)

UnsubackToBytes(m) == Frame("UnsubAck", 0, u16(m.mid))

PingRespToBytes(m) == Frame("PingResp", 0, <<>>)

\* Encoder::encode: nothing is written for a packet without an encoder.
encode(m) ==
    CASE m.type = "Publish" -> PublishToBytes(m)
      [] m.type \in {"PubAck", "PubRec", "PubRel", "PubComp"} -> AckToBytes(m)
      [] m.type = "ConnAck" -> ConnackToBytes(m)
      [] m.type = "SubAck" -> SubackToBytes(m)
      [] m.type = "UnsubAck" -> UnsubackToBytes(m)
      [] m.type = "PingResp" -> PingRespToBytes(m)
      [] OTHER -> <<>>

-----------------------------------------------------------------------------
(* MqttCodec::decode: one call on the bytes buffered so far. *)

NeedMore(buf) == [res |-> "none", rest |-> buf]

FrameSize(length) == 1 + length.size + length.len

\* What a parser's answer makes of the call; the frame is gone either way.
Parsed(answer, rest) ==
    IF answer.ok THEN [res |-> "some", msg |-> answer.msg, rest |-> rest]
    ELSE [res |-> "err", rest |-> rest]

\* split_to(frame_len) and the parser.
SplitFrame(buf, size) == Parsed(FromBytes(SubSeq(buf, 1, size)), SubSeq(buf, size + 1, Len(buf)))

TooLong(len, max) == len > max \/ len > MAX_LENGTH

\* mutant: a frame is complete only when a byte of the next one is there
DecodeOneByteLate(buf, max) ==
    LET length == read_size_check(Tail(buf))
    IN  IF buf = <<>> \/ length.res = "none" THEN NeedMore(buf)
        ELSE IF length.res = "err" \/ TooLong(length.len, max) THEN [res |-> "err", rest |-> buf]
        ELSE IF Len(buf) <= FrameSize(length) THEN NeedMore(buf)
        ELSE SplitFrame(buf, FrameSize(length))

\* mutant: the limit is checked when the whole frame is there
DecodeLimitLate(buf, max) ==
    LET length == read_size_check(Tail(buf))
    IN  IF buf = <<>> \/ length.res = "none" THEN NeedMore(buf)
        ELSE IF length.res = "err" THEN [res |-> "err", rest |-> buf]
        ELSE IF Len(buf) < FrameSize(length) THEN NeedMore(buf)
        ELSE IF TooLong(length.len, max) THEN [res |-> "err", rest |-> buf]
        ELSE SplitFrame(buf, FrameSize(length))

decode(buf, max) ==
    LET length == read_size_check(Tail(buf))
    IN  IF buf = <<>> \/ length.res = "none" THEN NeedMore(buf)
        ELSE IF length.res = "err" \/ TooLong(length.len, max) THEN [res |-> "err", rest |-> buf]
        ELSE IF Len(buf) < FrameSize(length) THEN NeedMore(buf)
        ELSE SplitFrame(buf, FrameSize(length))

-----------------------------------------------------------------------------
(* What a client sends, and what it should be decoded to, by the packets    *)
(* and not the bytes.                                                       *)

\* The packets a client builds and the broker does not, by the format.
ClientBytes(p) ==
    CASE p.type = "Connect" ->
           Frame("Connect", 0,
                 Prefixed(<<77, 81, 84, 84>>)
                 \o <<p.version,
                      Flag(p.clean_session, 1) + Flag(p.will, 2) + 8 * p.willmsg.qos
                        + Flag(p.willmsg.retain, 5) + Flag(p.password # <<>>, 6)
                        + Flag(p.username # <<>>, 7)>>
                 \o u16(p.keepalive) \o Prefixed(p.client)
                 \o (IF p.will THEN Prefixed(p.willmsg.topic) \o Prefixed(p.willmsg.message) ELSE <<>>)
                 \o (IF p.username # <<>> THEN Prefixed(p.username) ELSE <<>>)
                 \o (IF p.password # <<>> THEN Prefixed(p.password) ELSE <<>>))
      [] p.type = "Subscribe" ->
           Frame("Subscribe", 2,
                 FoldLeft(LAMBDA b, t : b \o Prefixed(t[1]) \o <<t[2]>>, u16(p.mid), p.topics))
      [] p.type = "Unsubscribe" ->
           Frame("Unsubscribe", 2, FoldLeft(LAMBDA b, t : b \o Prefixed(t[1]), u16(p.mid), p.topics))
      [] p.type \in {"PingReq", "Disconnect"} -> Frame(p.type, 0, <<>>)
      [] p.type = "Raw" -> p.bytes
      [] OTHER -> encode(p)

\* The bytes of the first i packets, for each i.
BytesOf(sent) ==
    LET upTo[i \in 0 .. Len(sent)] == IF i = 0 THEN <<>> ELSE upTo[i - 1] \o ClientBytes(sent[i])
    IN  upTo

StreamBytes(s) ==
    LET all == BytesOf(s.sent)[Len(s.sent)]
    IN  SubSeq(all, 1, Len(all) - s.cut)

\* The remaining length a packet announces, and its whole size.
SizeOf(p) ==
    IF p.type = "Raw" THEN p.len
    ELSE LET bytes == Len(ClientBytes(p))
         IN  CHOOSE n \in 0 .. bytes : 1 + Len(encode_length[n]) + n = bytes

WholeSize(p) == 1 + Len(encode_length[SizeOf(p)]) + SizeOf(p)

\* What is needed of a packet to know its length, or that the field has no end.
HeadSize(p) == IF SizeOf(p) > MAX_LENGTH THEN 5 ELSE 1 + Len(encode_length[SizeOf(p)])

\* A packet is made of bytes and announces its size; only of the last one may
\* bytes be missing, and not all.
ASSUME StreamsOK ==
    \A s \in Streams :
       /\ s.sent \in Seq(Range(s.sent)) /\ s.sent # <<>> /\ s.cut \in Nat
       /\ s.cut < Len(ClientBytes(s.sent[Len(s.sent)]))
       /\ \A i \in DOMAIN s.sent :
             LET p == s.sent[i] IN
             /\ ClientBytes(p) \in Seq(Bytes) /\ ClientBytes(p) # <<>> /\ SizeOf(p) \in Nat
             /\ Len(ClientBytes(p)) <= WholeSize(p)
             /\ i < Len(s.sent) => Len(ClientBytes(p)) = WholeSize(p)
             /\ read_size_check(Tail(ClientBytes(p))) =
                   IF SizeOf(p) > MAX_LENGTH THEN [res |-> "err"]
                   ELSE [res |-> "some", len |-> SizeOf(p), size |-> Len(encode_length[SizeOf(p)])]

\* The levels of a name, a sequence of code points.
Levels(cps) ==
    FoldLeft(LAMBDA levels, c : IF c = SLASH THEN Append(levels, <<>>)
                                ELSE [levels EXCEPT ![Len(levels)] = Append(@, c)],
             << <<>> >>, cps)

IsTopicName(cps) == cps # <<>> /\ Range(cps) \cap {NUL, PLUS, HASH} = {}

\* A wildcard is a whole level, and # the last one.
IsTopicFilter(cps) ==
    /\ cps # <<>> /\ NUL \notin Range(cps)
    /\ LET levels == Levels(cps)
       IN  \A i \in DOMAIN levels :
              Range(levels[i]) \cap {PLUS, HASH} # {} =>
                 \/ levels[i] = <<PLUS>>
                 \/ levels[i] = <<HASH>> /\ i = Len(levels)

Spells(s, cps) == s = UTF8String(cps)

Acceptable(p) ==
    CASE p.type = "Publish" ->
           /\ \E cps \in Names : Spells(p.topic, cps) /\ IsTopicName(cps)
           /\ p.qos <= 2
           /\ p.qos > 0 => p.mid # 0
           /\ p.dup => p.qos > 0
      [] p.type = "Subscribe" ->
           /\ p.mid # 0 /\ p.topics # <<>>
           /\ \A t \in Range(p.topics) :
                 t[2] <= 2 /\ \E cps \in Names : Spells(t[1], cps) /\ IsTopicFilter(cps)
      [] p.type = "Unsubscribe" ->
           /\ p.topics # <<>>
           /\ \A t \in Range(p.topics) : \E cps \in Names : Spells(t[1], cps) /\ IsTopicFilter(cps)
      [] p.type = "Connect" ->
           /\ \E cps \in Names : Spells(p.client, cps) /\ NUL \notin Range(cps)
           /\ IF p.will THEN /\ \E cps \in Names : Spells(p.willmsg.topic, cps) /\ IsTopicName(cps)
                             /\ p.willmsg.qos <= 2
                        ELSE p.willmsg.qos = 0 /\ ~p.willmsg.retain
      [] OTHER -> p.type \in {"PubAck", "PubRec", "PubRel", "PubComp", "PingReq", "Disconnect"}

\* How much of packet i is in the stream, whether that is all of it, and whether
\* it is over the limit in force when its turn comes.
There(s, i) == Len(ClientBytes(s.sent[i])) - (IF i = Len(s.sent) THEN s.cut ELSE 0)

Complete(s, i) == There(s, i) = WholeSize(s.sent[i])

OverLimit(s, i) ==
    SizeOf(s.sent[i]) > MAX_LENGTH \/ SizeOf(s.sent[i]) > (IF i = 1 THEN PreAuth ELSE PostAuth)

Good(s, i) == Complete(s, i) /\ ~OverLimit(s, i) /\ Acceptable(s.sent[i])

\* Packet i is to be refused: it is there and no packet, or enough of it is to
\* see that it is too long.
Refused(s, i) ==
    \/ Complete(s, i) /\ ~Good(s, i)
    \/ OverLimit(s, i) /\ There(s, i) >= HeadSize(s.sent[i])

\* The first n packets are good and the next one is not, if there is one; that n.
GoodUpTo(s, n) == (\A i \in 1 .. n : Good(s, i)) /\ (n < Len(s.sent) => ~Good(s, n + 1))

GoodPackets(s) == CHOOSE n \in 0 .. Len(s.sent) : GoodUpTo(s, n)

\* The packets to be delivered, the places in the stream where they end, and
\* whether the next one is to be refused.
Outcome(s) ==
    LET n == GoodPackets(s)
    IN  [msgs |-> SubSeq(s.sent, 1, n),
         ends |-> [k \in 1 .. n |-> Len(BytesOf(s.sent)[k])],
         refused |-> n < Len(s.sent) /\ Refused(s, n + 1)]

-----------------------------------------------------------------------------
(* One connection.  Framed reads into its buffer, calls decode until it     *)
(* answers None, reads again, and calls decode_eof, which is decode, at the *)
(* end of the stream.                                                       *)

VARIABLES
    stream,     \* what the client sends: a member of Streams
    outcome,    \* what it should be decoded to; never read by the codec
    wire,       \* its bytes that were not read yet
    buf,        \* the bytes read and not yet decoded
    readable,   \* is decode to be called before the next read
    max,        \* max_packet_size
    msgs,       \* the packets decode has returned
    status      \* "open", "eof": end seen, "closed": ended well, "error"

vars == <<stream, outcome, wire, buf, readable, max, msgs, status>>

Init ==
    /\ stream \in Streams
    /\ outcome = Outcome(stream)
    /\ wire = StreamBytes(stream)
    /\ buf = <<>> /\ readable = FALSE /\ max = PreAuth /\ msgs = <<>> /\ status = "open"

\* Bytes arrive, in whatever pieces TCP makes of them.
Read ==
    /\ status = "open" /\ ~readable
    /\ \E n \in 1 .. Len(wire) :
          /\ buf' = buf \o SubSeq(wire, 1, n)
          /\ wire' = SubSeq(wire, n + 1, Len(wire))
    /\ readable' = TRUE
    /\ UNCHANGED <<stream, outcome, max, msgs, status>>

\* The client has closed the stream.
ReadEof ==
    /\ status = "open" /\ ~readable /\ wire = <<>>
    /\ status' = "eof" /\ readable' = TRUE
    /\ UNCHANGED <<stream, outcome, wire, buf, max, msgs>>

\* set_max_packet_size: connect_stream raises the limit once the first packet,
\* the CONNECT, is authenticated, before it asks for the next packet.
SetMaxPacketSize ==
    /\ Len(msgs) = 1 /\ max = PreAuth /\ max # PostAuth
    /\ status \in {"open", "eof"}
    /\ max' = PostAuth
    /\ UNCHANGED <<stream, outcome, wire, buf, readable, msgs, status>>

\* At the end of the stream None is an error unless the buffer is empty.
Decoded(d) ==
    /\ buf' = d.rest
    /\ CASE d.res = "some" ->
              msgs' = Append(msgs, d.msg) /\ UNCHANGED <<readable, status>>
         [] d.res = "none" ->
              /\ readable' = FALSE
              /\ status' = IF status = "open" THEN "open"
                           ELSE IF buf = <<>> THEN "closed" ELSE "error"
              /\ UNCHANGED msgs
         [] d.res = "err" ->
              status' = "error" /\ readable' = FALSE /\ UNCHANGED msgs

\* One call of decode.
Decode ==
    /\ readable /\ status \in {"open", "eof"}
    /\ msgs = <<>> \/ max = PostAuth
    /\ Decoded(decode(buf, max))
    /\ UNCHANGED <<stream, outcome, wire, max>>

Next == Read \/ ReadEof \/ SetMaxPacketSize \/ Decode

Spec == Init /\ [][Next]_vars

-----------------------------------------------------------------------------
(* Properties. *)

\* However TCP cuts the stream, the client's packets are delivered complete,
\* unchanged and in order, up to the first that is malformed or over the limit,
\* and an error is reported only for such a packet or a stream that ends inside
\* one (MqttCodec::decode and the parsers).
DeliversWhatWasSent ==
    /\ IsPrefix(msgs, outcome.msgs)
    /\ status \in {"closed", "error"} => msgs = outcome.msgs
    /\ status = "error" => outcome.refused \/ (wire = <<>> /\ Len(msgs) < Len(stream.sent))
    /\ status = "closed" => Len(msgs) = Len(stream.sent)

\* A connection waiting for more bytes holds less than one frame of the limit
\* in force: a packet that announces more is refused before it is buffered
\* (MqttCodec::decode; the pre-authentication limit of connect_stream).
WaitsWithinLimit == status = "open" /\ ~readable => Len(buf) < 1 + 4 + max

\* A connection that waits for bytes has delivered every packet that has arrived
\* in full, also the last of the stream, and does not wait on a packet that is
\* to be refused.
NothingHeldBack ==
    status = "open" /\ ~readable =>
       /\ \A i \in DOMAIN outcome.ends :
             outcome.ends[i] <= Len(StreamBytes(stream)) - Len(wire) => i <= Len(msgs)
       /\ wire = <<>> => ~outcome.refused

\* A packet that is there in full is parsed as what it is, or refused if it is no
\* packet at all (FromBytes and the encoders, packet by packet).
PacketsParse ==
    \A i \in DOMAIN stream.sent :
       LET p == stream.sent[i]
           bytes == ClientBytes(p)
       IN  Len(bytes) = WholeSize(p) => FromBytes(bytes) = IF Acceptable(p) THEN Ok(p) ELSE Fail

\* What makes WaitsWithinLimit inductive: the buffer holds bytes, and between the first packet
\* and the larger limit nothing is read.
BufferInv ==
    /\ wire \in Seq(Bytes) /\ buf \in Seq(Bytes)
    /\ readable \in BOOLEAN /\ max \in {PreAuth, PostAuth}
    /\ status \in {"open", "eof", "closed", "error"}
    /\ msgs # <<>> /\ max # PostAuth => readable \/ status = "error"
    /\ WaitsWithinLimit

\* What follows the first k packets.
Behind(s, k) ==
    LET bytes == StreamBytes(s)
    IN  SubSeq(bytes, Len(BytesOf(s.sent)[k]) + 1, Len(bytes))

\* How far a connection is in its stream: what was delivered is the beginning of
\* what is good, what is buffered or on the wire is the rest, byte for byte, and who
\* waits for bytes needs them.
StreamInv ==
    /\ Len(msgs) \in 0 .. Len(outcome.msgs) /\ msgs = SubSeq(stream.sent, 1, Len(msgs))
    /\ msgs = <<>> => max = PreAuth
    /\ status # "error" => buf \o wire = Behind(stream, Len(msgs))
    /\ status \in {"eof", "closed"} => wire = <<>>
    /\ status = "open" /\ ~readable => decode(buf, max).res = "none"
    /\ DeliversWhatWasSent

\* A stream of packets with good topic names is not refused
\* (publish_topic_valid: "Null not allowed", "+ not allowed", "# not allowed").
GoodNamesAreAccepted == status = "error" => \E p \in Range(stream.sent) : ~Acceptable(p)

\* The dup flag of a PUBLISH survives to_bytes and from_bytes ("Fixed header
\* byte: dup/qos/retain flags").
DupIsOnTheWire == \A i \in DOMAIN msgs : msgs[i].dup = stream.sent[i].dup

=============================================================================
