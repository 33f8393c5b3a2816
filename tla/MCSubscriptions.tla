--------------------------- MODULE MCSubscriptions ---------------------------
(* Subscriptions with constants TLC can enumerate. *)
EXTENDS Subscriptions, TLC

\* A topic and two filters that match it.
MCPaths == { <<"a", "b">>, <<"a", "#">>, <<"+", "b">> }
MCTopicNames == { <<"a", "b">> }

Symmetric == Permutations(Sessions)

=============================================================================
