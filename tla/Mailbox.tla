------------------------------- MODULE Mailbox -------------------------------
(***************************************************************************)
(* What a session promises, without tasks, connections, rows or crashes: a *)
(* mailbox.  Messages enter it one at a time and in order, are handed to   *)
(* the client any number of times, and leave it one at a time when the     *)
(* client confirms them; none leaves otherwise, none comes back, and only  *)
(* a reset empties the box.  The identifiers of unfinished QoS 2           *)
(* handshakes, of either direction, come and go one at a time too.         *)
(***************************************************************************)
EXTENDS Naturals

CONSTANT Mids       \* packet identifiers

VARIABLES
    next,       \* number of the next message
    waiting,    \* messages in the box that were never handed over, as far as it knows
    handed,     \* messages in the box that were
    releases,   \* outgoing identifiers the client has sent a PUBREC for
    received    \* incoming QoS 2 identifiers without a PUBREL

vars == <<next, waiting, handed, releases, received>>

Init ==
    /\ next = 1 /\ waiting = {} /\ handed = {}
    /\ releases = {} /\ received = {}

\* A message enters; it may be handed over at once.
Deposit ==
    /\ next' = next + 1
    /\ \/ waiting' = waiting \cup {next} /\ UNCHANGED handed
       \/ handed' = handed \cup {next} /\ UNCHANGED waiting
    /\ UNCHANGED <<releases, received>>

\* Messages are handed over, the oldest first.
Hands ==
    /\ waiting' \subseteq waiting
    /\ handed' = handed \cup (waiting \ waiting')
    /\ \A m \in waiting \ waiting', k \in waiting' : m < k

HandOver == Hands /\ UNCHANGED <<next, releases, received>>

\* One message is confirmed; with QoS 2 its release is pending.
Confirm ==
    /\ next' = next
    /\ \E m \in (waiting \cup handed) \ (waiting' \cup handed') :
          waiting' = waiting \ {m} /\ handed' = handed \ {m}
    /\ releases' = releases \/ \E mid \in Mids : releases' = releases \cup {mid}
    /\ UNCHANGED received

\* An identifier is added to a set or taken from it.
Toggles(before, after) ==
    before # after /\ \E mid \in Mids : after = before \cup {mid} \/ after = before \ {mid}

Release == Toggles(releases, releases') /\ UNCHANGED <<next, waiting, handed, received>>
Receive == Toggles(received, received') /\ UNCHANGED <<next, waiting, handed, releases>>

\* A clean session: all is forgotten.  One that fails may have forgotten what
\* was received, and what it keeps may be handed over.
Reset ==
    /\ received' = {} /\ next' = next
    /\ \/ waiting' = {} /\ handed' = {} /\ releases' = {}
       \/ Hands /\ UNCHANGED releases

Next == Deposit \/ HandOver \/ Confirm \/ Release \/ Receive \/ Reset

Spec == Init /\ [][Next]_vars
=============================================================================
