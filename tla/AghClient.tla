----------------------------- MODULE AghClient -----------------------------
(***************************************************************************)
(* The asynchronous AdGuard Home client of adguard-dashboard/src/agh.c: one *)
(* libcurl multi handle carries two requests, /control/stats and           *)
(* /control/status, that are started together (agh_client_refresh) and     *)
(* driven from a timer (agh_client_pump) until both have finished.         *)
(*                                                                         *)
(* libcurl and the server are external: they are modelled by what agh.c    *)
(* sees of them.  The client is a record and every C function an operator  *)
(* from a client to the set of clients it can leave behind, so that a      *)
(* caller that makes two calls in one callback composes them in one step.  *)
(***************************************************************************)
EXTENDS Integers, Sequences

CONSTANTS
    Data,           \* statistics AdGuard Home can have, one value per content
    Protected,      \* the contents under which protection is enabled
    Bare,           \* a document that is JSON but has none of the fields
    Garbage,        \* an error page or a truncated document: not JSON
    Nothing,        \* no document
    Parts,          \* the chunks in which the body of a reply comes
    TimeoutTicks,   \* CURLOPT_TIMEOUT_MS, in ticks of the pump
    ConnectTicks,   \* CURLOPT_CONNECTTIMEOUT_MS, in ticks of the pump
    AllocMayFail,   \* may libcurl and realloc run out of memory?
    Moods           \* the ways the server may behave

ASSUME DocumentAssumption ==
    /\ Protected \subseteq Data
    /\ Bare \notin Data
    /\ Garbage \notin Data \cup {Bare}
    /\ Nothing \notin Data \cup {Bare, Garbage}

ASSUME PartsAssumption == Parts \in Nat \ {0}

ASSUME TimeoutAssumption ==
    /\ TimeoutTicks \in Nat \ {0}
    /\ ConnectTicks \in Nat \ {0}
    /\ AllocMayFail \in BOOLEAN
    /\ Moods \subseteq {"up", "refusing", "forbidding", "broken", "silent", "down"}

Requests == {"stats", "status"}
Json == Data \cup {Bare}
Documents == Json \cup {Garbage}

\* Where libcurl has a transfer: not in the multi handle, added but never
\* performed, connecting, request sent, reply received by the kernel, over.
Phases == {"out", "added", "open", "sent", "answered", "finished"}
Codes == {0, 200, 401, 403, 500}
Replies == [http : Codes \ {0}, doc : Documents]
\* What write_cb gets in one call: one part of one document.
Chunk == [doc : Documents, part : 1..Parts]
Results == {"OK", "FAILED", "UNAUTHORIZED"}

ASSUME NothingAssumption == Nothing \notin Replies

VARIABLES
    client,     \* struct agh_client, with libcurl's side of its transfers
    snapshot,   \* the agh_snapshot_t that pump fills in
    result,     \* what the last pump reported ("NONE": it returned false)
    server      \* AdGuard Home: the content it has and how it answers

clientVars == <<client, snapshot, result, server>>

(***************************************************************************)
(* A request_t (done, http, curl, body) and its transfer in libcurl: phase, *)
(* reply (what the server answers to it in this round) and read (how many   *)
(* chunks of the body libcurl has handed to write_cb).                     *)
(***************************************************************************)
Request ==
    [phase : Phases, reply : Replies \cup {Nothing}, read : 0..Parts,
     done : BOOLEAN, http : Codes, curl : {"OK", "error"}, body : Seq(Chunk)]

Client == [in_flight : BOOLEAN, elapsed : 0..TimeoutTicks, request : [Requests -> Request]]

\* numbers is everything parse_stats writes, Nothing until a round is parsed.
Snapshot == [numbers : Json \cup {Nothing}, protection : BOOLEAN]

Server == [data : Data, mood : Moods]

TypeOK ==
    /\ client \in Client
    /\ snapshot \in Snapshot
    /\ result \in Results \cup {"NONE"}
    /\ server \in Server

----------------------------------------------------------------------------
(***************************************************************************)
(* The response buffer and the parsers.                                    *)
(***************************************************************************)

\* Faulty variant: the buffer keeps what the last round left in it.
BodyKept(body) == body

BodyReset(body) == <<>>

\* The chunks of a document after the first n, up to the m-th.
Pieces(doc, n, m) == [i \in 1..(m - n) |-> [doc |-> doc, part |-> n + i]]

\* write_cb appends whatever arrives, chunk by chunk.
Written(body, chunks) == body \o chunks

\* cJSON_ParseWithLength reads the first value, which takes all the chunks of a
\* document in order, and ignores what follows it.
Parses(body) ==
    /\ Len(body) >= Parts /\ Head(body).doc \in Json
    /\ \A i \in 1..Parts : body[i] = [doc |-> Head(body).doc, part |-> i]

ParseStats(body, s) == [s EXCEPT !.numbers = Head(body).doc]

\* Only a document with a boolean protection_enabled changes the badge.
ParseStatus(body, s) ==
    IF Parses(body) /\ Head(body).doc \in Data
    THEN [s EXCEPT !.protection = Head(body).doc \in Protected]
    ELSE s

----------------------------------------------------------------------------
(***************************************************************************)
(* agh_client_refresh: nothing while a round is in flight, else both        *)
(* requests are reset and added.  What curl_multi_add_handle returns is     *)
(* ignored, so a transfer it refused stays out of the multi handle.         *)
(***************************************************************************)

Restarted(q, phase) ==
    [q EXCEPT !.body = BodyReset(q.body), !.done = FALSE, !.http = 0, !.curl = "OK",
              !.phase = phase, !.reply = Nothing, !.read = 0]

Added == IF AllocMayFail THEN SUBSET Requests ELSE {Requests}

RefreshWith(c, accepted) ==
    [in_flight |-> TRUE, elapsed |-> 0,
     request |-> [r \in Requests |-> Restarted(c.request[r],
                                             IF r \in accepted THEN "added" ELSE "out")]]

\* Faulty variant: a refresh restarts the round in flight.
RefreshedInFlight(c) == {RefreshWith(c, accepted) : accepted \in Added}

Refreshed(c) ==
    IF c.in_flight THEN {c} ELSE {RefreshWith(c, accepted) : accepted \in Added}

----------------------------------------------------------------------------
(***************************************************************************)
(* curl_multi_perform on one transfer: a transfer whose time is over ends   *)
(* with an error even if its reply has arrived; any other moves on as far   *)
(* as the server lets it, or breaks.                                        *)
(***************************************************************************)

\* libcurl hands on the body of the reply up to its m-th chunk.
Received(q, m) ==
    [q EXCEPT !.body = Written(q.body, Pieces(q.reply.doc, q.read, m)), !.read = m]

\* The DONE message of a transfer, as agh_client_pump's drain loop records it.
Finished(q, curl, http) ==
    [q EXCEPT !.phase = "finished", !.done = TRUE, !.curl = curl, !.http = http]

\* Faulty variant: set_common_opts sets the connect timeout only.
ConnectTimedOut(q, elapsed) == q.phase = "open" /\ elapsed >= ConnectTicks

TimedOut(q, elapsed) ==
    \/ q.phase \in {"open", "sent", "answered"} /\ elapsed >= TimeoutTicks
    \/ q.phase = "open" /\ elapsed >= ConnectTicks

\* The phases a live transfer can be in after a perform that does not end it.
NextPhases(phase, mood) ==
    CASE phase = "added" -> IF mood = "down" THEN {"open"} ELSE {"open", "sent"}
      [] phase = "open"  -> IF mood = "down" THEN {"open"} ELSE {"sent"}
      [] phase = "sent"  -> {"sent"}
      [] OTHER           -> {}

\* How much of the body has come is the network's choice; the last chunk ends
\* the transfer, and what has come of the others stays in the buffer.
Completions(q) ==
    IF q.phase = "answered"
    THEN {Received(q, m) : m \in {m \in q.read..(Parts - 1) : m > 0}}
         \cup {Finished(Received(q, Parts), "OK", q.reply.http)}
    ELSE {}

\* The connection is refused or lost, or write_cb returns 0 half way.
Breaks(q, mood) ==
    CASE q.phase = "answered" /\ (mood = "down" \/ AllocMayFail) ->
            {Finished(Received(q, m), "error", q.reply.http) : m \in q.read..(Parts - 1)}
      [] q.phase # "answered" /\ mood = "down" -> {Finished(q, "error", 0)}
      [] OTHER -> {}

\* CURLINFO_RESPONSE_CODE of a transfer that ran out of time.
CodeSeen(q) == IF q.read > 0 THEN q.reply.http ELSE 0

PerformOne(q, elapsed, mood) ==
    IF q.phase \in {"out", "finished"} THEN {q}
    ELSE IF TimedOut(q, elapsed) THEN {Finished(q, "error", CodeSeen(q))}
    ELSE {[q EXCEPT !.phase = p] : p \in NextPhases(q.phase, mood)}
         \cup Completions(q) \cup Breaks(q, mood)

WithRequests(c, stats, status) ==
    [c EXCEPT !.request = [r \in Requests |-> IF r = "stats" THEN stats ELSE status]]

Performed(c, mood) ==
    {WithRequests(c, a, b) : a \in PerformOne(c.request["stats"], c.elapsed, mood),
                             b \in PerformOne(c.request["status"], c.elapsed, mood)}

----------------------------------------------------------------------------
(***************************************************************************)
(* agh_client_pump: perform, and once both requests are done close the      *)
(* round and judge it.  The status request never changes the result.        *)
(***************************************************************************)

BothDone(c) == \A r \in Requests : c.request[r].done

\* Faulty variant: what came with a 200 is not parsed before it counts.
FetchResultUnparsed(c) ==
    LET stats == c.request["stats"]
    IN  IF stats.curl # "OK" \/ stats.body = <<>> THEN "FAILED"
        ELSE IF stats.http \in {401, 403} THEN "UNAUTHORIZED"
        ELSE IF stats.http = 200 THEN "OK" ELSE "FAILED"

\* Faulty variant: a status request that fails takes the statistics with it.
FetchResultOfBoth(c) ==
    LET stats == c.request["stats"]
    IN  IF \E r \in Requests : c.request[r].curl # "OK" THEN "FAILED"
        ELSE IF stats.http \in {401, 403} THEN "UNAUTHORIZED"
        ELSE IF stats.http = 200 /\ Parses(stats.body) THEN "OK"
        ELSE "FAILED"

FetchResult(c) ==
    LET stats == c.request["stats"]
    IN  IF stats.curl # "OK" THEN "FAILED"
        ELSE IF stats.http \in {401, 403} THEN "UNAUTHORIZED"
        ELSE IF stats.http = 200 /\ Parses(stats.body) THEN "OK"
        ELSE "FAILED"

\* Faulty variant: parse_stats clears the counters before it parses.
SnapshotAfterWiped(c, s) ==
    [s EXCEPT !.numbers = IF FetchResult(c) = "OK" THEN Head(c.request["stats"].body).doc ELSE Nothing]

SnapshotAfter(c, s) ==
    LET stats  == c.request["stats"]
        status == c.request["status"]
        counted == IF FetchResult(c) = "OK" THEN ParseStats(stats.body, s) ELSE s
    IN  IF status.curl = "OK" /\ status.http = 200
        THEN ParseStatus(status.body, counted)
        ELSE counted

Closed(c) ==
    [c EXCEPT !.in_flight = FALSE, !.elapsed = 0,
              !.request = [r \in Requests |-> [c.request[r] EXCEPT !.phase = "out"]]]

PumpReturn(c, s) ==
    IF BothDone(c)
    THEN [client |-> Closed(c), snapshot |-> SnapshotAfter(c, s), result |-> FetchResult(c)]
    ELSE [client |-> c, snapshot |-> s, result |-> "NONE"]

Pumped(c, s, mood) ==
    IF c.in_flight
    THEN {PumpReturn(d, s) : d \in Performed(c, mood)}
    ELSE {[client |-> c, snapshot |-> s, result |-> "NONE"]}

----------------------------------------------------------------------------
(***************************************************************************)
(* The server.                                                             *)
(***************************************************************************)

RepliesOf(s) ==
    CASE s.mood = "up"       -> {[http |-> 200, doc |-> s.data]}
      [] s.mood = "refusing" -> {[http |-> 401, doc |-> Garbage]}
      [] s.mood = "forbidding" -> {[http |-> 403, doc |-> Garbage]}
      [] s.mood = "broken"   -> {[http |-> 500, doc |-> Garbage],
                                 [http |-> 200, doc |-> Garbage],
                                 [http |-> 200, doc |-> Bare]}
      [] OTHER               -> {}

Owed(r) == client.request[r].phase = "sent" /\ RepliesOf(server) # {}

Answer(r) ==
    /\ client.request[r].phase = "sent"
    /\ \E reply \in RepliesOf(server) :
          client' = [client EXCEPT !.request[r].phase = "answered",
                                   !.request[r].reply = reply]
    /\ UNCHANGED <<snapshot, result, server>>

ServerChange ==
    /\ server' \in Server \ {server}
    /\ UNCHANGED <<client, snapshot, result>>

----------------------------------------------------------------------------
(***************************************************************************)
(* A caller that refreshes and pumps whenever it likes, and time.           *)
(***************************************************************************)

\* libcurl counts a transfer's time from its first perform.
Started(c) == \E r \in Requests : c.request[r].phase \notin {"out", "added"}

Aged(c) ==
    IF Started(c) /\ c.elapsed < TimeoutTicks THEN [c EXCEPT !.elapsed = @ + 1] ELSE c

Idle ==
    [in_flight |-> FALSE, elapsed |-> 0,
     request |-> [r \in Requests |->
        [phase |-> "out", reply |-> Nothing, read |-> 0,
         done |-> FALSE, http |-> 0, curl |-> "OK", body |-> <<>>]]]

\* Did a status request that is done say what the protection is?
SaysProtection(q) == q.curl = "OK" /\ q.http = 200 /\ Parses(q.body) /\ Head(q.body).doc \in Data

\* agh_client_destroy takes both transfers back and frees everything.
Destroyed(c) == Idle

Blank == [numbers |-> Nothing, protection |-> FALSE]

ClientInit ==
    /\ client = Idle
    /\ snapshot = Blank
    /\ result = "NONE"
    /\ server \in Server

Refresh ==
    /\ client' \in Refreshed(client)
    /\ UNCHANGED <<snapshot, result, server>>

Pump ==
    /\ \E p \in Pumped(client, snapshot, server.mood) :
          /\ client' = p.client
          /\ snapshot' = p.snapshot
          /\ result' = p.result
    /\ UNCHANGED server

ClientTick ==
    /\ client' = Aged(client)
    /\ UNCHANGED <<snapshot, result, server>>

ClientNext ==
    \/ Refresh
    \/ Pump
    \/ ClientTick
    \/ ServerChange
    \/ \E r \in Requests : Answer(r)

ClientSpec == ClientInit /\ [][ClientNext]_clientVars

\* The caller pumps from a periodic timer: the main loop of main.c never
\* stops calling it, and time passes between the calls.
FairClientSpec == ClientSpec /\ WF_clientVars(Pump) /\ WF_clientVars(ClientTick)

============================================================================
