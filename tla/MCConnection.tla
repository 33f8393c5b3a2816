----------------------------- MODULE MCConnection -----------------------------
(* Connection for TLC. *)
EXTENDS Connection, TLC

CONSTANTS c1, c2

TwoConns == {c1, c2}
MCUsers == ("u1" :> "p1" @@ "u2" :> "p2")

Good == [version |-> 4, id |-> TRUE, user |-> "u1", password |-> "p1",
         keep_alive |-> 1, clean |-> FALSE, will |-> None]

\* Each refusal, and wills of QoS 1 and 2.
MCRequests ==
    {[Good EXCEPT !.version = 3], [Good EXCEPT !.id = FALSE], [Good EXCEPT !.password = "p2"],
     [Good EXCEPT !.keep_alive = 0, !.will = 1, !.clean = TRUE], [Good EXCEPT !.will = 2]}
=============================================================================
