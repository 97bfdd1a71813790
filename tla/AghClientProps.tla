--------------------------- MODULE AghClientProps ---------------------------
(***************************************************************************)
(* What makes the client of agh.c correct.                                 *)
(***************************************************************************)
EXTENDS AghClient

\* agh.c:59-70: what write_cb has put into the buffer is a prefix of the
\* document that the server sends to this very request in this round.
HoldsPrefix(q) ==
    IF q.reply = Nothing THEN q.body = <<>> /\ q.read = 0
    ELSE q.body = Pieces(q.reply.doc, 0, q.read)

\* A request of the round in flight, as the code and libcurl leave it between
\* two calls, also in the middle of a body and after a timeout there: only a
\* transfer that is over without an error holds all of its document.
RequestConsistent(q) ==
    /\ q.done <=> q.phase = "finished"
    /\ q.phase \in {"out", "added", "open", "sent"} => q.reply = Nothing
    /\ q.phase = "answered" => q.reply # Nothing /\ q.read < Parts
    /\ HoldsPrefix(q)
    /\ q.curl = "error" => q.done
    /\ q.done /\ q.curl = "OK" =>
          q.reply # Nothing /\ q.http = q.reply.http /\ q.read = Parts

\* agh.c:287-300 and 334-336: in_flight says whether the transfers are libcurl's
\* or the client's.  Between rounds libcurl holds neither of them, and within
\* one the buffers hold this round's documents only, never the tail of an
\* earlier one.
RoundConsistent ==
    /\ client.in_flight => \A r \in Requests : RequestConsistent(client.request[r])
    /\ ~client.in_flight => /\ client.elapsed = 0
                            /\ \A r \in Requests : client.request[r].phase = "out"
    /\ ~AllocMayFail /\ client.in_flight =>
          \A r \in Requests : client.request[r].phase # "out"

Round == INSTANCE RefreshRound WITH
            running <- client.in_flight,
            lost <- {r \in Requests : client.request[r].curl = "error"},
            given <- [r \in Requests |-> client.request[r].reply]

\* The promise of agh.h:73-81 for every step of the client: a refresh is a no-op
\* while one is in flight, each round reports exactly one result, and the
\* snapshot never takes a document of an earlier round or of the wrong request.
RefinesRefreshRound == Round!Spec

\* agh.c:331: "Each request carries its own timeout, so both always finish".
RoundEnds == client.in_flight ~> ~client.in_flight

=============================================================================
