---------------------------- MODULE MCTopicMatch -----------------------------
(* get_subscribed on every tree that subscribing can build from some filters. *)
EXTENDS TopicMatch

CONSTANTS Sessions, MaxQos

Levels == {"a", "b"}
TopicNames == UNION {[1 .. n -> Levels] : n \in 1 .. 3}
Filters == { <<"a">>, <<"#">>, <<"+">>, <<"a", "b">>, <<"a", "+">>, <<"+", "b">>,
             <<"a", "#">>, <<"+", "#">>, <<"+", "+">>, <<"a", "+", "b">> }

VARIABLE tree

Entries(s) == [session : {s}, generation : {0}, qos : 0 .. MaxQos]

Init == tree = [f \in Filters |-> {}]

\* Topic::set_subscribed and set_unsubscribed
Subscribe(s, f, e) ==
    tree' = [tree EXCEPT ![f] = {x \in @ : x.session # s} \cup {e}]
Unsubscribe(s, f) ==
    tree' = [tree EXCEPT ![f] = {x \in @ : x.session # s}]

Next == \E s \in Sessions, f \in Filters :
    Unsubscribe(s, f) \/ \E e \in Entries(s) : Subscribe(s, f, e)

Spec == Init /\ [][Next]_tree

\* get_subscribed agrees with the definition of a match for every topic, however
\* literal, "+" and "#" filters of one or several sessions overlap.
MatchingIsExact == \A t \in TopicNames : ReachesSubscribers(tree, t)

=============================================================================
