---------------------------- MODULE SessionMailbox ----------------------------
(***************************************************************************)
(* SessionWorker is a Mailbox.  The box is the rows of the session, so a   *)
(* crash or a restart does nothing to it.                                  *)
(***************************************************************************)
EXTENDS SessionWorker

\* The messages stored in some rows, sent before or not, and the identifiers a
\* PUBCOMP is awaited for.
Published(rows, dup) ==
    {r.entry.msg : r \in {q \in rows : q.entry.type = "Publish" /\ q.entry.dup = dup}}

Released(rows) == {r.entry.mid : r \in {q \in rows : q.entry.type = "PubRec"}}

Box == INSTANCE Mailbox WITH
          next     <- hist.next,
          waiting  <- Published(db.qosout, FALSE),
          handed   <- Published(db.qosout, TRUE),
          releases <- Released(db.qosout),
          received <- db.qosin

\* A session is a mailbox, whichever of its database calls fail and wherever it
\* is killed: every message routed to it enters once and in order, is handed
\* over after the older ones, and leaves when it is confirmed or with a clean
\* session (all handlers of MQTTSession).
ImplementsMailbox == Box!Spec
=============================================================================
