------------------------------- MODULE MCCodec -------------------------------
(* Streams for Codec: one or two packets from sets that hold good packets     *)
(* and, field by field, malformed ones.                                       *)
EXTENDS Codec

a == 97
e_acute == 233      \* two bytes, the second one harmless
a_tilde == 227      \* two bytes, the second one ends in the bits of #
i_diaeresis == 239  \* the same with /
euro == 8364        \* three bytes

SeqsUpTo(S, n) == UNION {[1 .. k -> S] : k \in 0 .. n}

MCNames == SeqsUpTo({a, SLASH, PLUS, HASH, NUL}, 3) \cup SeqsUpTo({a, SLASH, e_acute, euro}, 2)

\* A multibyte letter at every place of a name.
WideNames == SeqsUpTo({a, SLASH, a_tilde, i_diaeresis}, 2)

Encoded(names) == {UTF8String(cps) : cps \in names}

\* Not UTF-8: a missing byte, a stray one, an overlong letter.
BadStrings == {<<195>>, <<a, 128>>, <<193, 161>>}

Publish(dup, qos, retain, topic, mid, message) ==
    [type |-> "Publish", dup |-> dup, qos |-> qos, retain |-> retain, topic |-> topic,
     mid |-> mid, message |-> message]

Long(n) == [i \in 1 .. n |-> a]

\* 3 bytes of topic and the payload: 127, 128 and 129 bytes.
LongPublishes == {Publish(FALSE, 0, FALSE, <<a>>, 0, Long(n)) : n \in {124, 125, 126}}

Publishes(dups) ==
    {p \in {Publish(dup, qos, retain, <<a>>, mid, msg) :
              dup \in dups, qos \in 0 .. 3, retain \in BOOLEAN, mid \in {0, 258}, msg \in {<<>>, <<7, 0>>}} :
       p.qos = 0 => p.mid = 0}
    \cup {Publish(FALSE, 0, FALSE, t, 0, <<>>) : t \in Encoded(MCNames) \cup BadStrings}

Subscribes ==
    {[type |-> "Subscribe", mid |-> mid, topics |-> ts] :
       mid \in {0, 256}, ts \in {<<>>, << <<<<a>>, 1>>, <<<<HASH>>, 2>> >>, << <<<<a>>, 3>> >>}}
    \cup {[type |-> "Subscribe", mid |-> 1, topics |-> << <<t, 0>> >>] :
            t \in Encoded(MCNames) \cup BadStrings}

Unsubscribes ==
    {[type |-> "Unsubscribe", mid |-> mid, topics |-> ts] :
       mid \in {0, 256}, ts \in {<<>>, << <<<<a>>>>, <<<<a, HASH>>>> >>, << <<<<a>>>>, <<<<PLUS>>>> >>}}

Acks == [type : {"PubAck", "PubRec", "PubRel", "PubComp"}, mid : {0, 65535}]

Connect(clean, will, willmsg, client, username, password) ==
    [type |-> "Connect", version |-> 4, clean_session |-> clean, keepalive |-> 258,
     client |-> client, will |-> will, willmsg |-> willmsg, username |-> username,
     password |-> password]

Will(topic, qos, retain) == [topic |-> topic, message |-> <<9>>, qos |-> qos, retain |-> retain]

Hello == Connect(TRUE, FALSE, NoWill, <<a>>, <<>>, <<>>)

Connects ==
    {Connect(FALSE, TRUE, Will(t, qos, TRUE), <<a>>, u, <<>>) :
       t \in {<<a>>, <<HASH>>}, qos \in 0 .. 3, u \in {<<>>, <<a, a>>}}
    \cup {Connect(TRUE, FALSE, w, c, u, p) :
            w \in {NoWill, [NoWill EXCEPT !.qos = 1], [NoWill EXCEPT !.retain = TRUE]},
            c \in {<<>>, <<a>>, <<NUL>>}, u \in {<<>>, <<a>>}, p \in {<<>>, <<a>>}}

Replies ==
    {[type |-> "ConnAck", session_present |-> TRUE, return_code |-> 0],
     [type |-> "SubAck", mid |-> 1, response |-> <<0, 128>>],
     [type |-> "UnsubAck", mid |-> 1], [type |-> "PingResp"]}

Simple == {[type |-> "PingReq"], [type |-> "Disconnect"]}

Raw(bytes, len) == [type |-> "Raw", bytes |-> bytes, len |-> len]

\* Wrong flags, a string that runs over the end, surplus bytes, unknown types.
Malformed ==
    {Raw(<<16 * n + f, 2, 0, 1>>, 2) : n \in {0, 4, 5, 6, 7, 15}, f \in {1, 3, 8}}
    \cup {Raw(<<48, 3, 0, 2, a>>, 3), Raw(<<193, 0>>, 0), Raw(<<192, 1, 0>>, 1),
          Raw(<<64, 3, 0, 1, 0>>, 3), Raw(<<64, 1, 0>>, 1), Raw(<<16, 2, 0, 4>>, 2),
          Raw(<<50, 4, 0, 1, a, 0>>, 4), Raw(<<130, 5, 0, 1, 0, 1, a>>, 5)}

\* The beginning of a packet of that length, around the limits of the field.
Announced ==
    {Raw(<<48>> \o encode_length[n], n) :
       n \in {127, 128, 16383, 16384, 2097151, PostAuth, PostAuth + 1, MAX_LENGTH}}
    \cup {Raw(<<48, 255, 255, 255, 255>>, MAX_LENGTH + 1)}

Stream(sent, cut) == [sent |-> sent, cut |-> cut]

Anything == Publishes({FALSE}) \cup Subscribes \cup Unsubscribes \cup Acks \cup Connects
              \cup Replies \cup Simple \cup Malformed

MCStreams ==
    {Stream(<<p>>, 0) : p \in Anything}
    \cup {Stream(<<Hello, p, q>>, cut) :
            p \in Anything \cup LongPublishes,
            q \in {[type |-> "PingReq"], Publish(FALSE, 1, TRUE, <<a>>, 1, <<5>>)}, cut \in 0 .. 1}
    \cup {Stream(<<Hello, p>>, 0) : p \in Announced}
    \cup {Stream(<<p>>, cut) : p \in LongPublishes, cut \in {0, 100}}

DupStreams == {Stream(<<p>>, 0) : p \in {p \in Publishes({TRUE}) : Acceptable(p)}}

WideStreams == {Stream(<<Publish(FALSE, 0, FALSE, t, 0, <<>>)>>, 0) : t \in Encoded(WideNames \ {<<>>})}
=============================================================================
