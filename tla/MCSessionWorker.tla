--------------------------- MODULE MCSessionWorker ---------------------------
(* SessionWorker with constants TLC can enumerate. *)
EXTENDS SessionMailbox

\* No retained message, or one published with QoS 0.
MCNoRetained == {<<>>}

\* Retained messages with identifiers of their publishers: 0 is what a message
\* reloaded from the database has.
MCRetained == {<<>>, <<[mid |-> 0, qos |-> 1]>>, <<[mid |-> 2, qos |-> 2]>>}

Symmetric == Permutations(Conns)

\* out is written by every step and read by none: runs whose properties do not
\* mention it need not tell states apart by it.
WithoutOut == <<running, session, db, open, hist>>

=============================================================================
