----------------------------- MODULE TopicMatch ------------------------------
(***************************************************************************)
(* How the broker finds the subscribers of a topic:                        *)
(* Subscriptions::get_subscribed (broker/topics.rs), beside the definition *)
(* of which filters match a topic.                                         *)
(*                                                                         *)
(* A topic or a filter is a sequence of levels.  A tree gives each path    *)
(* its set of clients, [session, generation, qos]; the nested HashMaps of  *)
(* Topic are the paths.  A path that is not in the tree has no clients.    *)
(***************************************************************************)
EXTENDS Naturals, Sequences

\* Any string is a level of a topic or filter; the two wildcards are strings too.
Level == STRING \cup {"+", "#"}

Clients(tree, path) == IF path \in DOMAIN tree THEN tree[path] ELSE {}

\* mutant: below a "+" only literal levels are followed
DescendOnce(matches, level) ==
    [k \in 1 .. (2 * Len(matches)) |->
        LET node == matches[(k + 1) \div 2] IN
        Append(node, IF k % 2 = 1 /\ ~(node # <<>> /\ node[Len(node)] = "+")
                     THEN "+" ELSE level)]

\* The nodes one level below matches: for each the "+" and then the literal
\* (a HashMap that lacks one of them contributes no clients).
Descend(matches, level) ==
    [k \in 1 .. (2 * Len(matches)) |->
        Append(matches[(k + 1) \div 2], IF k % 2 = 1 THEN "+" ELSE level)]

\* topicmatchs after the first n levels of the topic.
TopicMatches(topic) ==
    LET after[n \in 0 .. Len(topic)] ==
          IF n = 0 THEN << <<>> >> ELSE Descend(after[n - 1], topic[n])
    IN  after

\* The two loops over topicmatchs: round n <= Len(topic) for level n, and one more
\* for what is left at the end.  A visit is a round and an index of topicmatchs.
Visits(topic) ==
    UNION {{n} \X DOMAIN TopicMatches(topic)[n - 1] : n \in 1 .. (Len(topic) + 1)}

\* mutant: a "#" in place of the last level is not looked for
VisitedEarly(topic, visit) ==
    LET node == TopicMatches(topic)[visit[1] - 1][visit[2]] IN
    IF visit[1] < Len(topic) THEN Append(node, "#") ELSE node

\* The node whose clients a visit collects: the "#" below a node that is descended
\* from, in the end the node itself.
Visited(topic, visit) ==
    LET node == TopicMatches(topic)[visit[1] - 1][visit[2]] IN
    IF visit[1] <= Len(topic) THEN Append(node, "#") ELSE node

Before(v, w) == v[1] < w[1] \/ (v[1] = w[1] /\ v[2] < w[2])

\* A HashMap from SessionId to qos: of a session found twice, the last counts.
get_subscribed(tree, topic) ==
    LET found(v) == Clients(tree, Visited(topic, v)) IN
    {e \in UNION {found(v) : v \in Visits(topic)} :
        \E v \in Visits(topic) :
            /\ e \in found(v)
            /\ \A w \in Visits(topic) : Before(v, w) =>
                  \A f \in found(w) : ~(f.session = e.session /\ f.generation = e.generation)}

-----------------------------------------------------------------------------
\* Which filters match a topic: "+" stands for one level, a final "#" for one
\* or more (this broker does not let "a/#" match "a").
LevelMatches(level, name) == level \in {name, "+"}

FilterMatches(filter, topic) ==
    \/ /\ Len(filter) = Len(topic)
       /\ \A i \in DOMAIN filter : LevelMatches(filter[i], topic[i])
    \/ /\ filter[Len(filter)] = "#"
       /\ Len(filter) <= Len(topic)
       /\ \A i \in 1 .. (Len(filter) - 1) : LevelMatches(filter[i], topic[i])

\* A publish reaches exactly the sessions that have a matching filter, each
\* once, with the QoS of one of its matching filters.
ReachesSubscribers(tree, topic) ==
    LET found    == get_subscribed(tree, topic)
        matching == UNION {tree[f] : f \in {g \in DOMAIN tree : FilterMatches(g, topic)}}
        id(e)    == <<e.session, e.generation>>
    IN  /\ found \subseteq matching
        /\ {id(e) : e \in found} = {id(e) : e \in matching}
        /\ \A e, f \in found : id(e) = id(f) => e = f

=============================================================================
