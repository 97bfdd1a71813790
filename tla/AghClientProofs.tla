-------------------------- MODULE AghClientProofs --------------------------
(***************************************************************************)
(* Proofs, for every set of contents, timeout and behaviour of the server,  *)
(* that the client of agh.c keeps its types and the invariant of a round,   *)
(* and that it implements RefreshRound.                                    *)
(***************************************************************************)
EXTENDS AghClientProps, SequenceTheorems, TLAPS

----------------------------------------------------------------------------
(***************************************************************************)
(* What the C functions leave of a request_t.                              *)
(***************************************************************************)

Good(q) == q \in Request /\ RequestConsistent(q)

\* The chunks of a document are chunks, as many as were asked for.
LEMMA PiecesChunks ==
    ASSUME NEW doc \in Documents, NEW n \in 0..Parts, NEW m \in n..Parts
    PROVE  Pieces(doc, n, m) \in Seq(Chunk) /\ Len(Pieces(doc, n, m)) = m - n
<1>1. Parts \in Nat /\ n \in Nat /\ m \in Nat /\ n <= m /\ m <= Parts /\ m - n \in Nat
    BY PartsAssumption
<1>2. \A i \in 1..(m - n) : n + i \in 1..Parts
    BY <1>1
<1>3. \A i \in 1..(m - n) : [doc |-> doc, part |-> n + i] \in Chunk
    BY <1>2 DEF Chunk
<1> QED
    BY <1>1, <1>3 DEF Pieces

\* Two neighbouring runs of chunks are one.
LEMMA PiecesJoin ==
    ASSUME NEW doc \in Documents, NEW n \in 0..Parts, NEW m \in n..Parts
    PROVE  Pieces(doc, 0, n) \o Pieces(doc, n, m) = Pieces(doc, 0, m)
<1>1. Parts \in Nat /\ n \in Nat /\ m \in Nat /\ n <= m /\ m <= Parts
    BY PartsAssumption
<1> DEFINE a == Pieces(doc, 0, n)
           b == Pieces(doc, n, m)
           c == Pieces(doc, 0, m)
<1>2. /\ a \in Seq(Chunk) /\ b \in Seq(Chunk) /\ c \in Seq(Chunk)
      /\ Len(a) = n /\ Len(b) = m - n /\ Len(c) = m
    <2>1. 0 \in 0..Parts /\ n \in 0..Parts /\ m \in n..Parts /\ m \in 0..Parts
        BY <1>1
    <2>2. a \in Seq(Chunk) /\ Len(a) = n - 0
        BY <2>1, PiecesChunks
    <2>3. b \in Seq(Chunk) /\ Len(b) = m - n
        BY <2>1, PiecesChunks
    <2>4. c \in Seq(Chunk) /\ Len(c) = m - 0
        BY <2>1, PiecesChunks
    <2> QED
        BY <1>1, <2>2, <2>3, <2>4
<1>3. \A i \in 1..n : a[i] = [doc |-> doc, part |-> i]
    BY <1>1 DEF Pieces
<1>4. \A i \in 1..(m - n) : b[i] = [doc |-> doc, part |-> n + i]
    BY <1>1 DEF Pieces
<1>5. \A i \in 1..m : c[i] = [doc |-> doc, part |-> i]
    BY <1>1 DEF Pieces
<1> HIDE DEF a, b, c
<1>6. /\ a \o b \in Seq(Chunk) /\ Len(a \o b) = Len(a) + Len(b)
      /\ \A i \in 1..(Len(a) + Len(b)) : (a \o b)[i] = IF i <= Len(a) THEN a[i] ELSE b[i - Len(a)]
    BY <1>2, ConcatProperties
<1>7. ASSUME NEW i \in 1..Len(a \o b) PROVE (a \o b)[i] = c[i]
    <2>1. Len(a) + Len(b) = m /\ i \in 1..m
        BY <1>1, <1>2, <1>6
    <2>2. CASE i <= n
        <3>1. i \in 1..n /\ (a \o b)[i] = a[i]
            BY <1>1, <1>2, <1>6, <2>1, <2>2
        <3> QED
            BY <1>3, <1>5, <2>1, <3>1
    <2>3. CASE ~(i <= n)
        <3>1. i - n \in 1..(m - n) /\ n + (i - n) = i /\ (a \o b)[i] = b[i - n]
            BY <1>1, <1>2, <1>6, <2>1, <2>3
        <3>2. b[i - n] = [doc |-> doc, part |-> n + (i - n)]
            BY <1>4, <3>1
        <3> QED
            BY <1>5, <2>1, <3>1, <3>2
    <2> QED
        BY <2>2, <2>3
<1> QED
    <2>1. Len(a \o b) = Len(c)
        BY <1>1, <1>2, <1>6
    <2>2. a \o b = c
        BY <1>2, <1>6, <1>7, <2>1, SeqEqual
    <2> QED
        BY <2>2 DEF a, b, c

\* The reset of agh.c:291-295 leaves a request without a trace of the last round.
LEMMA RestartedGood ==
    ASSUME NEW q \in Request, NEW phase \in {"added", "out"}
    PROVE  /\ Good(Restarted(q, phase)) /\ Restarted(q, phase).reply = Nothing
           /\ Restarted(q, phase).phase = phase /\ Restarted(q, phase).curl = "OK"
<1>1. /\ phase \in Phases /\ 0 \in Codes /\ <<>> \in Seq(Chunk) /\ 0 \in 0..Parts
      /\ Nothing \in Replies \cup {Nothing} /\ FALSE \in BOOLEAN /\ "OK" \in {"OK", "error"}
    BY PartsAssumption DEF Phases, Codes
<1>2. Restarted(q, phase) \in Request
    BY <1>1, Zenon DEF Restarted, Request, BodyReset
<1> DEFINE f == Restarted(q, phase)
<1>3. /\ f.phase = phase /\ f.done = FALSE /\ f.curl = "OK" /\ f.http = 0
      /\ f.body = <<>> /\ f.reply = Nothing /\ f.read = 0
    BY DEF Restarted, Request, BodyReset
<1> QED
    BY <1>2, <1>3 DEF Good, RequestConsistent, HoldsPrefix

\* A transfer that ends in an error (agh.c:312-329) is consistent however much
\* of its reply it has received.
LEMMA BrokenGood ==
    ASSUME NEW q \in Request, HoldsPrefix(q), NEW http \in Codes
    PROVE  /\ Good(Finished(q, "error", http))
           /\ Finished(q, "error", http).reply = q.reply
           /\ Finished(q, "error", http).phase = "finished"
           /\ Finished(q, "error", http).curl = "error"
<1> DEFINE f == Finished(q, "error", http)
<1>1. "finished" \in Phases /\ TRUE \in BOOLEAN /\ "error" \in {"OK", "error"}
    BY DEF Phases
<1>2. f \in Request
    BY <1>1, Zenon DEF Finished, Request
<1>3. /\ f.phase = "finished" /\ f.done = TRUE /\ f.curl = "error" /\ f.reply = q.reply
      /\ f.body = q.body /\ f.read = q.read
    BY DEF Finished, Request
<1> QED
    BY <1>2, <1>3 DEF Good, RequestConsistent, HoldsPrefix

\* write_cb (agh.c:59-70) makes a longer prefix of a prefix and touches nothing else.
LEMMA ReceivedPrefix ==
    ASSUME NEW q \in Request, q.reply # Nothing, HoldsPrefix(q), NEW m \in q.read..Parts
    PROVE  LET p == Received(q, m)
           IN  /\ p \in Request /\ HoldsPrefix(p) /\ p.read = m
               /\ p.reply = q.reply /\ p.phase = q.phase /\ p.done = q.done /\ p.curl = q.curl
<1> DEFINE p == Received(q, m)
           doc == q.reply.doc
<1>1. doc \in Documents /\ q.read \in 0..Parts /\ m \in 0..Parts
    BY PartsAssumption DEF Request, Replies
<1>2. Written(q.body, Pieces(doc, q.read, m)) = Pieces(doc, 0, m)
    BY <1>1, PiecesJoin DEF HoldsPrefix, Written
<1>3. Pieces(doc, 0, m) \in Seq(Chunk)
    <2>1. 0 \in 0..Parts /\ m \in 0..Parts
        BY <1>1, PartsAssumption
    <2> QED
        BY <1>1, <2>1, PiecesChunks
<1>4. p = [q EXCEPT !.body = Pieces(doc, 0, m), !.read = m]
    BY <1>2 DEF Received
<1>5. p \in Request
    BY <1>1, <1>3, <1>4, Zenon DEF Request
<1>6. /\ p.body = Pieces(doc, 0, m) /\ p.read = m
      /\ p.reply = q.reply /\ p.phase = q.phase /\ p.done = q.done /\ p.curl = q.curl
    BY <1>4 DEF Request
<1>7. HoldsPrefix(p)
    BY <1>6 DEF HoldsPrefix
<1> QED
    BY <1>5, <1>6, <1>7

\* A transfer that ends well (agh.c:312-329) holds its reply and nothing else.
LEMMA CompleteGood ==
    ASSUME NEW q \in Request, q.reply # Nothing, HoldsPrefix(q)
    PROVE  LET f == Finished(Received(q, Parts), "OK", q.reply.http)
           IN  Good(f) /\ f.reply = q.reply /\ f.phase = "finished"
<1> DEFINE p == Received(q, Parts)
           f == Finished(p, "OK", q.reply.http)
<1>1. Parts \in q.read..Parts
    BY PartsAssumption DEF Request
<1>2. p \in Request /\ HoldsPrefix(p) /\ p.read = Parts /\ p.reply = q.reply
    BY <1>1, ReceivedPrefix
<1>3. q.reply.http \in Codes
    BY DEF Request, Replies
<1>4. "finished" \in Phases /\ TRUE \in BOOLEAN /\ "OK" \in {"OK", "error"}
    BY DEF Phases
<1>5. f \in Request
    BY <1>2, <1>3, <1>4, Zenon DEF Finished, Request
<1>6. /\ f.phase = "finished" /\ f.done = TRUE /\ f.curl = "OK" /\ f.reply = p.reply
      /\ f.http = q.reply.http /\ f.body = p.body /\ f.read = p.read
    BY <1>2 DEF Finished, Request
<1> QED
    BY <1>2, <1>5, <1>6 DEF Good, RequestConsistent, HoldsPrefix

\* curl_multi_perform (agh.c:307) takes one transfer from one consistent state
\* to another, never forgets what the server sent or that it failed, and never
\* drops a transfer.
LEMMA PerformOneGood ==
    ASSUME NEW q, Good(q), NEW elapsed, NEW mood, NEW p \in PerformOne(q, elapsed, mood)
    PROVE  /\ Good(p) /\ p.reply = q.reply /\ (q.phase # "out" => p.phase # "out")
           /\ q.curl = "error" => p.curl = "error"
<1>1. /\ q \in Request /\ RequestConsistent(q) /\ HoldsPrefix(q)
      /\ q.reply \in Replies \cup {Nothing} /\ q.phase \in Phases /\ q.read \in 0..Parts
      /\ q.curl \in {"OK", "error"} /\ 0 \in Codes
    BY DEF Good, Request, Codes, RequestConsistent
<1>2. CASE p = q
    BY <1>2
<1>3. CASE p = Finished(q, "error", CodeSeen(q))
    <2>1. CodeSeen(q) \in Codes
        BY <1>1 DEF CodeSeen, HoldsPrefix, Replies
    <2> QED
        BY <1>1, <1>3, <2>1, BrokenGood
<1>4. CASE q.phase \notin {"out", "finished"} /\ \E n \in NextPhases(q.phase, mood) : p = [q EXCEPT !.phase = n]
    <2>1. PICK n \in NextPhases(q.phase, mood) : p = [q EXCEPT !.phase = n]
        BY <1>4
    <2>2. n \in {"open", "sent"} /\ q.phase \in {"added", "open", "sent"}
        BY <1>1, <1>4 DEF NextPhases, Phases
    <2>3. n \in Phases
        BY <2>2 DEF Phases
    <2>4. p \in Request
        BY <1>1, <2>1, <2>3, Zenon DEF Request
    <2>5. /\ p.phase = n /\ p.reply = q.reply /\ p.done = q.done /\ p.body = q.body
          /\ p.read = q.read /\ p.curl = q.curl
        BY <1>1, <2>1 DEF Request
    <2>6. q.reply = Nothing /\ ~q.done
        BY <1>1, <2>2 DEF RequestConsistent
    <2>7. HoldsPrefix(p) /\ p.curl = "OK"
        BY <1>1, <2>5, <2>6 DEF HoldsPrefix, RequestConsistent
    <2> QED
        BY <1>1, <2>2, <2>4, <2>5, <2>6, <2>7 DEF Good, RequestConsistent
<1>5. CASE q.phase = "answered" /\ \E m \in q.read..(Parts - 1) : p = Received(q, m)
    <2>1. PICK m \in q.read..(Parts - 1) : p = Received(q, m)
        BY <1>5
    <2>2. q.reply # Nothing /\ ~q.done /\ q.curl = "OK"
        BY <1>1, <1>5 DEF RequestConsistent
    <2>3. m \in q.read..Parts /\ m < Parts
        BY <1>1, PartsAssumption
    <2>4. /\ p \in Request /\ HoldsPrefix(p) /\ p.read = m
          /\ p.reply = q.reply /\ p.phase = q.phase /\ p.done = q.done /\ p.curl = q.curl
        BY <1>1, <2>1, <2>2, <2>3, ReceivedPrefix
    <2> QED
        BY <1>5, <2>2, <2>3, <2>4 DEF Good, RequestConsistent
<1>6. CASE q.phase = "answered" /\ p = Finished(Received(q, Parts), "OK", q.reply.http)
    <2>1. q.reply # Nothing /\ q.curl = "OK"
        BY <1>1, <1>6 DEF RequestConsistent
    <2> QED
        BY <1>1, <1>6, <2>1, CompleteGood
<1>7. CASE p \in Breaks(q, mood)
    <2>1. CASE q.phase = "answered"
        <3>1. PICK m \in q.read..(Parts - 1) : p = Finished(Received(q, m), "error", q.reply.http)
            BY <1>7, <2>1 DEF Breaks
        <3>2. q.reply # Nothing /\ q.reply.http \in Codes
            BY <1>1, <2>1 DEF RequestConsistent, Replies
        <3>3. m \in q.read..Parts
            BY <1>1, PartsAssumption
        <3>4. Received(q, m) \in Request /\ HoldsPrefix(Received(q, m)) /\ Received(q, m).reply = q.reply
            BY <1>1, <3>2, <3>3, ReceivedPrefix
        <3> QED
            BY <3>1, <3>2, <3>4, BrokenGood
    <2>2. CASE q.phase # "answered"
        <3>1. p = Finished(q, "error", 0)
            BY <1>7, <2>2 DEF Breaks
        <3> QED
            BY <1>1, <3>1, BrokenGood
    <2> QED
        BY <2>1, <2>2
<1>8. \/ p = q
      \/ p = Finished(q, "error", CodeSeen(q))
      \/ q.phase \notin {"out", "finished"} /\ \E n \in NextPhases(q.phase, mood) : p = [q EXCEPT !.phase = n]
      \/ p \in Completions(q)
      \/ p \in Breaks(q, mood)
    BY DEF PerformOne
<1>9. p \in Completions(q) =>
        /\ q.phase = "answered"
        /\ \/ \E m \in q.read..(Parts - 1) : p = Received(q, m)
           \/ p = Finished(Received(q, Parts), "OK", q.reply.http)
    BY DEF Completions
<1> QED
    BY <1>1, <1>2, <1>3, <1>4, <1>5, <1>6, <1>7, <1>8, <1>9 DEF Good

----------------------------------------------------------------------------
(***************************************************************************)
(* The inductive invariant.  TypeOK alone is not inductive: that a reply is *)
(* there when it is read, and that the document parsed at the end of a      *)
(* round is one, is what RoundConsistent says.                             *)
(***************************************************************************)

Inv == TypeOK /\ RoundConsistent

\* A client whose round is in flight, as RoundConsistent has it.
Sound(c) ==
    /\ c \in Client
    /\ c.in_flight
    /\ \A r \in Requests : Good(c.request[r])
    /\ ~AllocMayFail => \A r \in Requests : c.request[r].phase # "out"

\* agh_client_refresh (agh.c:287-300) outside a round starts a sound one, with
\* no reply to any of its requests.
LEMMA RefreshSound ==
    ASSUME NEW c \in Client, ~c.in_flight, NEW d \in Refreshed(c)
    PROVE  Sound(d) /\ \A r \in Requests : d.request[r].reply = Nothing /\ d.request[r].curl = "OK"
<1>1. PICK accepted \in Added : d = RefreshWith(c, accepted)
    BY DEF Refreshed
<1>2. ASSUME NEW r \in Requests
      PROVE  /\ Good(d.request[r])
             /\ d.request[r].reply = Nothing /\ d.request[r].curl = "OK"
             /\ ~AllocMayFail => d.request[r].phase # "out"
    <2>1. c.request[r] \in Request
        BY DEF Client
    <2> DEFINE phase == IF r \in accepted THEN "added" ELSE "out"
    <2>2. phase \in {"added", "out"} /\ (~AllocMayFail => phase = "added")
        BY <1>1 DEF Added
    <2>3. d.request[r] = Restarted(c.request[r], phase)
        BY <1>1 DEF RefreshWith
    <2> QED
        BY <2>1, <2>2, <2>3, RestartedGood
<1>3. d \in Client
    BY <1>1, <1>2, TimeoutAssumption DEF RefreshWith, Client, Good
<1>4. d.in_flight
    BY <1>1 DEF RefreshWith
<1> QED
    BY <1>2, <1>3, <1>4 DEF Sound

\* One curl_multi_perform (agh.c:307-329) keeps a round sound and its replies.
LEMMA PerformSound ==
    ASSUME NEW c, Sound(c), NEW mood, NEW d \in Performed(c, mood)
    PROVE  /\ Sound(d) /\ \A r \in Requests : d.request[r].reply = c.request[r].reply
           /\ \A r \in Requests : c.request[r].curl = "error" => d.request[r].curl = "error"
<1>1. PICK a \in PerformOne(c.request["stats"], c.elapsed, mood),
           b \in PerformOne(c.request["status"], c.elapsed, mood) : d = WithRequests(c, a, b)
    BY DEF Performed
<1>2. Good(c.request["stats"]) /\ Good(c.request["status"])
    BY DEF Sound, Requests
<1>3. /\ Good(a) /\ a.reply = c.request["stats"].reply
      /\ c.request["stats"].phase # "out" => a.phase # "out"
      /\ c.request["stats"].curl = "error" => a.curl = "error"
    BY <1>2, PerformOneGood
<1>4. /\ Good(b) /\ b.reply = c.request["status"].reply
      /\ c.request["status"].phase # "out" => b.phase # "out"
      /\ c.request["status"].curl = "error" => b.curl = "error"
    BY <1>2, PerformOneGood
<1>5. c \in Client
    BY DEF Sound
<1>6. /\ d.in_flight = c.in_flight
      /\ d.request = [r \in Requests |-> IF r = "stats" THEN a ELSE b]
    BY <1>1, <1>5 DEF WithRequests, Client
<1>7. d.request \in [Requests -> Request]
    BY <1>3, <1>4, <1>6 DEF Good
<1>8. d \in Client
    BY <1>1, <1>5, <1>6, <1>7, Zenon DEF WithRequests, Client
<1>9. d.request["stats"] = a /\ d.request["status"] = b
    BY <1>6 DEF Requests
<1> QED
    BY <1>3, <1>4, <1>5, <1>6, <1>8, <1>9 DEF Sound, Requests

----------------------------------------------------------------------------
(***************************************************************************)
(* The end of a round: agh.c:331-372.                                      *)
(***************************************************************************)

\* The handles come back to the client (agh.c:334-336).
LEMMA ClosedOut ==
    ASSUME NEW c, Sound(c)
    PROVE  /\ Closed(c) \in Client
           /\ Closed(c).in_flight = FALSE
           /\ Closed(c).elapsed = 0
           /\ \A r \in Requests : /\ Closed(c).request[r].phase = "out"
                                  /\ Closed(c).request[r].reply = c.request[r].reply
                                  /\ Closed(c).request[r].curl = c.request[r].curl
<1>1. c \in Client /\ 0 \in 0..TimeoutTicks /\ FALSE \in BOOLEAN /\ "out" \in Phases
    BY TimeoutAssumption DEF Sound, Phases
<1> DEFINE out == [r \in Requests |-> [c.request[r] EXCEPT !.phase = "out"]]
<1>2. \A r \in Requests : c.request[r] \in Request
    BY <1>1 DEF Client
<1>3. ASSUME NEW r \in Requests
      PROVE  /\ [c.request[r] EXCEPT !.phase = "out"] \in Request
             /\ [c.request[r] EXCEPT !.phase = "out"].phase = "out"
             /\ [c.request[r] EXCEPT !.phase = "out"].reply = c.request[r].reply
             /\ [c.request[r] EXCEPT !.phase = "out"].curl = c.request[r].curl
    <2>1. [c.request[r] EXCEPT !.phase = "out"] \in Request
        BY <1>1, <1>2, Zenon DEF Request
    <2>2. /\ [c.request[r] EXCEPT !.phase = "out"].phase = "out"
          /\ [c.request[r] EXCEPT !.phase = "out"].reply = c.request[r].reply
          /\ [c.request[r] EXCEPT !.phase = "out"].curl = c.request[r].curl
        BY <1>2 DEF Request
    <2> QED
        BY <2>1, <2>2
<1>4. out \in [Requests -> Request]
    BY <1>3
<1>5. Closed(c) \in Client
    BY <1>1, <1>4, Zenon DEF Closed, Client
<1>6. Closed(c).in_flight = FALSE /\ Closed(c).elapsed = 0 /\ Closed(c).request = out
    BY <1>1 DEF Closed, Client
<1> QED
    BY <1>3, <1>5, <1>6

\* A transfer that is over without an error left its whole document in the
\* buffer, and what cJSON makes of that is the document, if it is JSON at all.
LEMMA WholeBody ==
    ASSUME NEW q, Good(q), q.done, q.curl = "OK"
    PROVE  /\ q.reply \in Replies /\ q.http = q.reply.http
           /\ Parses(q.body) <=> q.reply.doc \in Json
           /\ Head(q.body).doc = q.reply.doc
<1>1. q \in Request /\ RequestConsistent(q) /\ HoldsPrefix(q)
    BY DEF Good, RequestConsistent
<1>2. q.reply \in Replies /\ q.http = q.reply.http /\ q.read = Parts
    BY <1>1 DEF RequestConsistent, Request
<1> DEFINE doc == q.reply.doc
<1>3. doc \in Documents /\ doc = q.reply.doc /\ q.body = Pieces(doc, 0, Parts)
    BY <1>1, <1>2, NothingAssumption DEF HoldsPrefix, Replies
<1>4. Parts \in Nat /\ Parts >= 1 /\ 0 \in 0..Parts /\ Parts \in 0..Parts
    BY PartsAssumption
<1>5. q.body \in Seq(Chunk) /\ Len(q.body) = Parts
    BY <1>3, <1>4, PiecesChunks
<1>6. \A i \in 1..Parts : q.body[i] = [doc |-> doc, part |-> i]
    BY <1>3, <1>4 DEF Pieces
<1>7. Head(q.body).doc = doc
    <2>1. Head(q.body) = q.body[1]
        BY <1>4, <1>5
    <2>2. q.body[1] = [doc |-> doc, part |-> 1]
        BY <1>4, <1>6
    <2>3. [doc |-> doc, part |-> 1].doc = doc
        OBVIOUS
    <2> QED
        BY <2>1, <2>2, <2>3
<1> HIDE DEF doc
<1>8. Parses(q.body) <=> doc \in Json
    BY <1>4, <1>5, <1>6, <1>7 DEF Parses
<1> QED
    BY <1>2, <1>3, <1>7, <1>8

\* What is parsed is what the server sent in this round: agh.c:339-357 reports a
\* failure for a stats transfer that failed, a refusal for a 401 or 403 reply, a
\* success for a 200 with a JSON document - which then is the stats reply - and
\* a failure for any other reply.  The status request has no say.
LEMMA ResultMeaning ==
    ASSUME NEW c, Sound(c), BothDone(c)
    PROVE  /\ FetchResult(c) \in Results
           /\ c.request["stats"].curl # "error" => c.request["stats"].reply \in Replies
           /\ FetchResult(c) =
                 IF c.request["stats"].curl = "error" THEN "FAILED"
                 ELSE IF c.request["stats"].reply.http \in {401, 403} THEN "UNAUTHORIZED"
                 ELSE IF c.request["stats"].reply \in [http : {200}, doc : Json] THEN "OK"
                 ELSE "FAILED"
           /\ FetchResult(c) = "OK" =>
                 /\ c.request["stats"].reply.doc \in Json
                 /\ Head(c.request["stats"].body).doc = c.request["stats"].reply.doc
<1> DEFINE q == c.request["stats"]
<1>1. Good(q) /\ q.done
    BY DEF Sound, BothDone, Requests
<1>2. q.curl \in {"OK", "error"}
    BY <1>1 DEF Good, Request
<1>3. FetchResult(c) \in Results
    BY DEF FetchResult, Results
<1>4. CASE q.curl = "error"
    BY <1>3, <1>4 DEF FetchResult
<1>5. CASE q.curl = "OK"
    <2>1. /\ q.reply \in Replies /\ q.http = q.reply.http
          /\ Parses(q.body) <=> q.reply.doc \in Json
          /\ Head(q.body).doc = q.reply.doc
        BY <1>1, <1>5, WholeBody
    <2>2. q.reply \in [http : {200}, doc : Json] <=> q.reply.http = 200 /\ q.reply.doc \in Json
        BY <2>1 DEF Replies
    <2> QED
        BY <1>3, <1>5, <2>1, <2>2 DEF FetchResult
<1> QED
    BY <1>2, <1>4, <1>5

\* agh.c:359-369: the protection is what this round's status reply says, if that
\* request did not fail and says it, and stays otherwise.
LEMMA ProtectionMeaning ==
    ASSUME NEW c, Sound(c), BothDone(c), NEW s \in Snapshot
    PROVE  /\ SnapshotAfter(c, s) \in Snapshot
           /\ SnapshotAfter(c, s).numbers =
                 IF FetchResult(c) = "OK" THEN c.request["stats"].reply.doc ELSE s.numbers
           /\ SnapshotAfter(c, s).protection =
                 IF /\ c.request["status"].curl # "error"
                    /\ c.request["status"].reply \in [http : {200}, doc : Data]
                 THEN c.request["status"].reply.doc \in Protected ELSE s.protection
           /\ c.request["status"].curl # "error" => c.request["status"].reply \in Replies
<1> DEFINE q == c.request["status"]
           n == IF FetchResult(c) = "OK" THEN c.request["stats"].reply.doc ELSE s.numbers
           t == IF FetchResult(c) = "OK" THEN ParseStats(c.request["stats"].body, s) ELSE s
<1>1. Good(q) /\ q.done
    BY DEF Sound, BothDone, Requests
<1>2. n \in Json \cup {Nothing}
    BY ResultMeaning DEF Snapshot
<1>3. t \in Snapshot /\ t.numbers = n /\ t.protection = s.protection
    BY <1>2, ResultMeaning DEF ParseStats, Snapshot
<1>4. SnapshotAfter(c, s) = IF q.curl = "OK" /\ q.http = 200 THEN ParseStatus(q.body, t) ELSE t
    BY DEF SnapshotAfter
<1>5. q.curl \in {"OK", "error"}
    BY <1>1 DEF Good, Request
<1>6. CASE q.curl = "error"
    <2>1. SnapshotAfter(c, s) = t
        BY <1>4, <1>6
    <2> QED
        BY <1>3, <1>6, <2>1
<1>7. CASE q.curl = "OK"
    <2>1. /\ q.reply \in Replies /\ q.http = q.reply.http
          /\ Parses(q.body) <=> q.reply.doc \in Json
          /\ Head(q.body).doc = q.reply.doc
        BY <1>1, <1>7, WholeBody
    <2>2. q.reply \in [http : {200}, doc : Data] <=> q.reply.http = 200 /\ q.reply.doc \in Data
        BY <2>1 DEF Replies
    <2>3. CASE q.http = 200 /\ q.reply.doc \in Data
        <3>1. SnapshotAfter(c, s) = [t EXCEPT !.protection = q.reply.doc \in Protected]
            BY <1>4, <1>7, <2>1, <2>3 DEF ParseStatus, Json
        <3>2. (q.reply.doc \in Protected) \in BOOLEAN
            OBVIOUS
        <3>3. SnapshotAfter(c, s) \in Snapshot
            BY <1>3, <3>1, <3>2, Zenon DEF Snapshot
        <3>4. SnapshotAfter(c, s).numbers = n
            BY <1>3, <3>1 DEF Snapshot
        <3>5. SnapshotAfter(c, s).protection = (q.reply.doc \in Protected)
            BY <1>3, <3>1, Zenon DEF Snapshot
        <3> QED
            BY <1>7, <2>1, <2>2, <2>3, <3>3, <3>4, <3>5
    <2>4. CASE ~(q.http = 200 /\ q.reply.doc \in Data)
        <3>1. SnapshotAfter(c, s) = t
            BY <1>4, <2>1, <2>4 DEF ParseStatus
        <3> QED
            BY <1>3, <2>1, <2>2, <2>4, <3>1
    <2> QED
        BY <2>3, <2>4
<1> QED
    BY <1>5, <1>6, <1>7

----------------------------------------------------------------------------
(***************************************************************************)
(* The invariant, step by step.                                            *)
(***************************************************************************)

\* The invariant of a round in flight, in the form the lemmas above have it.
LEMMA InFlightSound ==
    ASSUME TypeOK
    PROVE  client.in_flight /\ RoundConsistent <=> Sound(client)
<1>1. client \in Client /\ \A r \in Requests : client.request[r] \in Request
    BY DEF TypeOK, Client
<1> QED
    BY <1>1 DEF RoundConsistent, Sound, Good

\* agh_client_create and _destroy (agh.c:236-285) leave nothing in flight.
LEMMA IdleClient ==
    /\ Idle \in Client /\ ~Idle.in_flight /\ Idle.elapsed = 0
    /\ \A r \in Requests : Idle.request[r].phase = "out"
<1>1. [phase |-> "out", reply |-> Nothing, done |-> FALSE, http |-> 0, curl |-> "OK",
       body |-> <<>>, read |-> 0] \in Request
    BY PartsAssumption DEF Request, Phases, Codes
<1>2. 0 \in 0..TimeoutTicks
    BY TimeoutAssumption
<1> QED
    BY <1>1, <1>2 DEF Idle, Client

\* agh_client_create (agh.c:236-263) leaves two idle requests and no round.
LEMMA InitInv == ClientInit => Inv
<1> SUFFICES ASSUME ClientInit PROVE Inv
    OBVIOUS
<1>1. client = Idle /\ client \in Client
    BY IdleClient DEF ClientInit
<1>2. TypeOK
    BY <1>1 DEF TypeOK, ClientInit, Blank, Snapshot
<1>3. RoundConsistent
    BY <1>1, IdleClient DEF RoundConsistent
<1> QED
    BY <1>2, <1>3 DEF Inv

\* agh_client_refresh (agh.c:287-300) keeps the invariant, round or no round.
LEMMA RefreshInv == Inv /\ Refresh => Inv'
<1> SUFFICES ASSUME Inv, Refresh PROVE Inv'
    OBVIOUS
<1>1. client \in Client /\ client' \in Refreshed(client) /\ UNCHANGED <<snapshot, result, server>>
    BY DEF Inv, TypeOK, Refresh
<1>2. CASE client.in_flight
    <2>1. client' = client
        BY <1>1, <1>2 DEF Refreshed
    <2> QED
        BY <1>1, <2>1 DEF Inv, TypeOK, RoundConsistent
<1>3. CASE ~client.in_flight
    <2>1. Sound(client')
        BY <1>1, <1>3, RefreshSound
    <2>2. TypeOK'
        BY <1>1, <2>1 DEF Inv, TypeOK, Sound
    <2>3. RoundConsistent'
        BY <2>1 DEF Sound, Good, RoundConsistent
    <2> QED
        BY <2>2, <2>3 DEF Inv
<1> QED
    BY <1>2, <1>3

\* agh_client_pump (agh.c:302-373) keeps it, whether or not the round ends.
LEMMA PumpInv == Inv /\ Pump => Inv'
<1> SUFFICES ASSUME Inv, Pump PROVE Inv'
    OBVIOUS
<1>1. PICK p \in Pumped(client, snapshot, server.mood) :
          client' = p.client /\ snapshot' = p.snapshot /\ result' = p.result
    BY DEF Pump
<1>2. server' = server /\ TypeOK /\ RoundConsistent /\ snapshot \in Snapshot
    BY DEF Pump, Inv, TypeOK
<1>3. CASE ~client.in_flight
    <2>1. client' = client /\ snapshot' = snapshot /\ result' = "NONE"
        BY <1>1, <1>3 DEF Pumped
    <2> QED
        BY <1>2, <2>1 DEF Inv, TypeOK, RoundConsistent
<1>4. CASE client.in_flight
    <2>1. PICK d \in Performed(client, server.mood) : p = PumpReturn(d, snapshot)
        BY <1>1, <1>4 DEF Pumped
    <2>2. Sound(d)
        BY <1>2, <1>4, <2>1, InFlightSound, PerformSound
    <2>3. CASE BothDone(d)
        <3>1. client' = Closed(d) /\ snapshot' = SnapshotAfter(d, snapshot) /\ result' = FetchResult(d)
            BY <1>1, <2>1, <2>3 DEF PumpReturn
        <3>2. TypeOK'
            BY <1>2, <2>2, <2>3, <3>1, ClosedOut, ResultMeaning, ProtectionMeaning DEF TypeOK
        <3>3. RoundConsistent'
            BY <2>2, <3>1, ClosedOut DEF RoundConsistent
        <3> QED
            BY <3>2, <3>3 DEF Inv
    <2>4. CASE ~BothDone(d)
        <3>1. client' = d /\ snapshot' = snapshot /\ result' = "NONE"
            BY <1>1, <2>1, <2>4 DEF PumpReturn
        <3>2. TypeOK'
            BY <1>2, <2>2, <3>1 DEF TypeOK, Sound
        <3>3. RoundConsistent'
            BY <2>2, <3>1 DEF Sound, Good, RoundConsistent
        <3> QED
            BY <3>2, <3>3 DEF Inv
    <2> QED
        BY <2>3, <2>4
<1> QED
    BY <1>3, <1>4

\* The time budget of a transfer (agh.c:226) is all that a tick changes.
LEMMA ClientTickInv == Inv /\ ClientTick => Inv'
<1> SUFFICES ASSUME Inv, ClientTick PROVE Inv'
    OBVIOUS
<1>1. /\ TypeOK /\ RoundConsistent /\ client \in Client
      /\ client' = Aged(client) /\ UNCHANGED <<snapshot, result, server>>
    BY DEF Inv, TypeOK, ClientTick
<1>2. CASE ~(Started(client) /\ client.elapsed < TimeoutTicks)
    <2>1. client' = client
        BY <1>1, <1>2 DEF Aged
    <2> QED
        BY <1>1, <2>1 DEF Inv, TypeOK, RoundConsistent
<1>3. CASE Started(client) /\ client.elapsed < TimeoutTicks
    <2>1. client' = [client EXCEPT !.elapsed = client.elapsed + 1]
        BY <1>1, <1>3 DEF Aged
    <2>2. client.elapsed + 1 \in 0..TimeoutTicks
        BY <1>1, <1>3, TimeoutAssumption DEF Client
    <2>3. client' \in Client
        BY <1>1, <2>1, <2>2, Zenon DEF Client
    <2>4. client'.in_flight = client.in_flight /\ client'.request = client.request
        BY <1>1, <2>1 DEF Client
    <2>5. client.in_flight
        BY <1>1, <1>3 DEF Started, RoundConsistent
    <2>6. TypeOK'
        BY <1>1, <2>3 DEF TypeOK
    <2>7. RoundConsistent'
        BY <1>1, <2>4, <2>5 DEF RoundConsistent
    <2> QED
        BY <2>6, <2>7 DEF Inv
<1> QED
    BY <1>2, <1>3

\* What the server holds or how it answers is no part of the client's state.
LEMMA ServerChangeInv == Inv /\ ServerChange => Inv'
BY DEF Inv, ServerChange, TypeOK, RoundConsistent

\* A reply that arrives is one the server can give, and it goes to one request.
LEMMA AnswerEffect ==
    ASSUME Inv, NEW r \in Requests, Answer(r)
    PROVE  \E reply \in Replies :
              /\ client' \in Client
              /\ client'.in_flight = client.in_flight
              /\ Good(client'.request[r])
              /\ client'.request[r].reply = reply
              /\ client'.request[r].phase = "answered"
              /\ client.in_flight
              /\ client.request[r].reply = Nothing
              /\ client'.request[r].curl = client.request[r].curl
              /\ \A x \in Requests \ {r} : client'.request[x] = client.request[x]
<1>1. /\ client \in Client /\ server \in Server /\ RoundConsistent
      /\ client.request[r].phase = "sent"
    BY DEF Inv, TypeOK, Answer
<1> DEFINE q == client.request[r]
<1>2. q \in Request /\ client.request \in [Requests -> Request]
    BY <1>1 DEF Client
<1>3. client.in_flight /\ RequestConsistent(q)
    BY <1>1 DEF RoundConsistent
<1>4. PICK reply \in RepliesOf(server) :
          client' = [client EXCEPT !.request[r].phase = "answered", !.request[r].reply = reply]
    BY DEF Answer
<1>5. reply \in Replies
    BY <1>1, <1>4 DEF RepliesOf, Replies, Codes, Documents, Json, Server
<1> DEFINE p == [q EXCEPT !.phase = "answered", !.reply = reply]
<1>6. p \in Request
    <2>1. "answered" \in Phases /\ reply \in Replies \cup {Nothing}
        BY <1>5 DEF Phases
    <2> QED
        BY <1>2, <2>1, Zenon DEF Request
<1>7. /\ p.phase = "answered" /\ p.reply = reply /\ p.done = q.done /\ p.body = q.body
      /\ p.read = q.read /\ p.curl = q.curl
    BY <1>2 DEF Request
<1>8. q.reply = Nothing /\ q.body = <<>> /\ q.read = 0 /\ q.curl # "error" /\ ~q.done
    BY <1>1, <1>3 DEF RequestConsistent, HoldsPrefix
<1>9. reply # Nothing /\ 0 < Parts
    BY <1>5, NothingAssumption, PartsAssumption
<1>10. Good(p)
    <2>1. Pieces(reply.doc, 0, 0) = <<>>
        BY DEF Pieces
    <2>2. HoldsPrefix(p)
        BY <1>7, <1>8, <1>9, <2>1 DEF HoldsPrefix
    <2> QED
        BY <1>6, <1>7, <1>8, <1>9, <2>2 DEF Good, RequestConsistent
<1>11. client'.request = [client.request EXCEPT ![r] = p] /\ client'.in_flight = client.in_flight
       /\ client'.elapsed = client.elapsed
    BY <1>1, <1>2, <1>4 DEF Client
<1>12. client' \in Client
    BY <1>1, <1>2, <1>4, <1>6, <1>11 DEF Client
<1> QED
    BY <1>2, <1>3, <1>5, <1>7, <1>8, <1>10, <1>11, <1>12

\* A reply arriving between two pumps (agh.c:307) keeps the invariant.
LEMMA AnswerInv == ASSUME NEW r \in Requests PROVE Inv /\ Answer(r) => Inv'
<1> SUFFICES ASSUME Inv, Answer(r) PROVE Inv'
    OBVIOUS
<1>1. PICK reply \in Replies :
          /\ client' \in Client
          /\ client'.in_flight = client.in_flight
          /\ Good(client'.request[r])
          /\ client'.request[r].reply = reply
          /\ client'.request[r].phase = "answered"
          /\ client.in_flight
          /\ client.request[r].reply = Nothing
          /\ \A x \in Requests \ {r} : client'.request[x] = client.request[x]
    BY AnswerEffect
<1>2. TypeOK'
    BY <1>1 DEF Inv, TypeOK, Answer
<1>3. RoundConsistent'
    <2>1. ASSUME NEW x \in Requests
          PROVE  /\ RequestConsistent(client'.request[x])
                 /\ ~AllocMayFail => client'.request[x].phase # "out"
        <3>1. CASE x = r
            BY <1>1, <3>1 DEF Good
        <3>2. CASE x # r
            <4>1. client'.request[x] = client.request[x]
                BY <1>1, <3>2
            <4>2. /\ RequestConsistent(client.request[x])
                  /\ ~AllocMayFail => client.request[x].phase # "out"
                BY <1>1 DEF Inv, RoundConsistent
            <4> QED
                BY <4>1, <4>2
        <3> QED
            BY <3>1, <3>2
    <2> QED
        BY <1>1, <2>1 DEF RoundConsistent
<1> QED
    BY <1>2, <1>3 DEF Inv

\* The invariant is inductive: one case per action of the client.
LEMMA NextInv == Inv /\ [ClientNext]_clientVars => Inv'
<1> SUFFICES ASSUME Inv, [ClientNext]_clientVars PROVE Inv'
    OBVIOUS
<1>1. CASE Refresh
    BY <1>1, RefreshInv
<1>2. CASE Pump
    BY <1>2, PumpInv
<1>3. CASE ClientTick
    BY <1>3, ClientTickInv
<1>4. CASE ServerChange
    BY <1>4, ServerChangeInv
<1>5. CASE \E r \in Requests : Answer(r)
    BY <1>5, AnswerInv
<1>6. CASE UNCHANGED clientVars
    BY <1>6 DEF clientVars, Inv, TypeOK, RoundConsistent
<1> QED
    BY <1>1, <1>2, <1>3, <1>4, <1>5, <1>6 DEF ClientNext

\* TypeOK and RoundConsistent hold together in every reachable state.
THEOREM Invariance == ClientSpec => []Inv
<1>1. ClientInit => Inv
    BY InitInv
<1>2. Inv /\ [ClientNext]_clientVars => Inv'
    BY NextInv
<1> QED
    BY <1>1, <1>2, PTL DEF ClientSpec

\* The client of agh.c keeps its types: no counter, code, phase or buffer ever
\* leaves the values the code handles, for every set of contents and timeout.
THEOREM TypeCorrect == ClientSpec => []TypeOK
<1>1. Inv => TypeOK
    BY DEF Inv
<1> QED
    BY <1>1, Invariance, PTL

\* agh.c:287-300, 334-336: in_flight tells the truth about the transfers, and a
\* buffer only ever holds the reply to its own request of the round in flight.
THEOREM RoundsConsistent == ClientSpec => []RoundConsistent
<1>1. Inv => RoundConsistent
    BY DEF Inv
<1> QED
    BY <1>1, Invariance, PTL

----------------------------------------------------------------------------
(***************************************************************************)
(* The client implements RefreshRound: every step of it, under the mapping  *)
(* of AghClientProps, is a step of the abstract specification or a stutter. *)
(***************************************************************************)

\* The requests of a client that failed, as AghClientProps maps them.
Lost(c) == {r \in Requests : c.request[r].curl = "error"}

\* A fresh client is a fresh abstract round (agh.h:68-69).
LEMMA RefineInit == ClientInit => Round!Init
BY DEF ClientInit, Round!Init, Idle, Blank, Requests, Round!Requests

\* agh.h:73-74: a refresh is Begin, or nothing while a round is in flight.
LEMMA RefineRefresh == Inv /\ Refresh => [Round!Next]_(Round!vars)
<1> SUFFICES ASSUME Inv, Refresh PROVE [Round!Next]_(Round!vars)
    OBVIOUS
<1>1. client \in Client /\ client' \in Refreshed(client) /\ UNCHANGED <<snapshot, result>>
    BY DEF Inv, TypeOK, Refresh
<1>2. CASE client.in_flight
    <2>1. client' = client
        BY <1>1, <1>2 DEF Refreshed
    <2> QED
        BY <1>1, <2>1 DEF Round!vars
<1>3. CASE ~client.in_flight
    <2>1. /\ \A r \in Requests : client'.request[r].reply = Nothing
          /\ Lost(client') = {}
        BY <1>1, <1>3, RefreshSound DEF Lost
    <2>2. client'.in_flight = TRUE
        BY <1>1, <1>3, RefreshSound DEF Sound, Client
    <2>3. Round!Begin
        BY <1>1, <1>3, <2>1, <2>2 DEF Round!Begin, Requests, Round!Requests, Lost
    <2> QED
        BY <2>3 DEF Round!Next
<1> QED
    BY <1>2, <1>3

\* The pump that closes a round is the abstract End.
LEMMA RefineEnd ==
    ASSUME Inv, client.in_flight, NEW d \in Performed(client, server.mood), BothDone(d),
           client' = Closed(d), snapshot' = SnapshotAfter(d, snapshot), result' = FetchResult(d)
    PROVE  Round!End
<1>1. TypeOK /\ RoundConsistent /\ snapshot \in Snapshot
    BY DEF Inv, TypeOK
<1>2. Sound(d) /\ \A r \in Requests : d.request[r].reply = client.request[r].reply
    BY <1>1, InFlightSound, PerformSound
<1>3. /\ client'.in_flight = FALSE
      /\ \A r \in Requests : client'.request[r].reply = client.request[r].reply
    BY <1>2, ClosedOut
<1> DEFINE stats == client.request["stats"].reply
           status == client.request["status"].reply
<1>4. stats = d.request["stats"].reply /\ status = d.request["status"].reply
    BY <1>2 DEF Requests
<1>5. Lost(client') = Lost(d) /\ Lost(client) \subseteq Lost(d) /\ Lost(d) \subseteq Requests
    <2>1. \A r \in Requests : client'.request[r].curl = d.request[r].curl
        BY <1>2, ClosedOut
    <2>2. \A r \in Requests : client.request[r].curl = "error" => d.request[r].curl = "error"
        BY <1>1, InFlightSound, PerformSound
    <2> QED
        BY <2>1, <2>2 DEF Lost
<1>6. /\ d.request["stats"].curl = "error" <=> "stats" \in Lost(d)
      /\ d.request["status"].curl = "error" <=> "status" \in Lost(d)
    BY DEF Lost, Requests
<1>7. /\ result' = IF "stats" \in Lost(d) THEN "FAILED"
                   ELSE IF stats.http \in {401, 403} THEN "UNAUTHORIZED"
                   ELSE IF stats \in [http : {200}, doc : Json] THEN "OK" ELSE "FAILED"
      /\ "stats" \notin Lost(d) => stats \in Replies
    BY <1>2, <1>4, <1>6, ResultMeaning
<1>8. /\ snapshot' \in Snapshot
      /\ snapshot'.numbers = IF result' = "OK" THEN stats.doc ELSE snapshot.numbers
      /\ snapshot'.protection =
            IF "status" \notin Lost(d) /\ status \in [http : {200}, doc : Data]
            THEN status.doc \in Protected ELSE snapshot.protection
      /\ "status" \notin Lost(d) => status \in Replies
    BY <1>1, <1>2, <1>4, <1>6, ProtectionMeaning
<1>9. Round!HasCounters(stats) <=> stats \in [http : {200}, doc : Json]
    BY DEF Round!HasCounters, Json, Round!Json
<1>10. stats \in Replies => (stats \in Round!Refusals <=> stats.http \in {401, 403})
    BY DEF Round!Refusals, Replies, Codes, Documents, Json, Round!Replies, Round!Json
<1>11. result' = IF "stats" \in Lost(d) THEN "FAILED"
                 ELSE IF stats \in Round!Refusals THEN "UNAUTHORIZED"
                 ELSE IF Round!HasCounters(stats) THEN "OK" ELSE "FAILED"
    BY <1>7, <1>9, <1>10
<1>12. snapshot' = [numbers |-> snapshot'.numbers, protection |-> snapshot'.protection]
    BY <1>8 DEF Snapshot
<1>13. snapshot' =
          [numbers |-> IF result' = "OK" THEN stats.doc ELSE snapshot.numbers,
           protection |-> IF "status" \notin Lost(d) /\ Round!SaysProtection(status)
                          THEN status.doc \in Protected ELSE snapshot.protection]
    BY <1>8, <1>12 DEF Round!SaysProtection
<1>14. \A r \in Requests \ Lost(d) : client.request[r].reply # Nothing
    BY <1>4, <1>7, <1>8, NothingAssumption DEF Requests
<1>15. [r \in Requests |-> client'.request[r].reply] = [r \in Requests |-> client.request[r].reply]
    BY <1>3
<1> QED
    BY <1>3, <1>5, <1>11, <1>13, <1>14, <1>15
    DEF Round!End, Round!Lose, Requests, Round!Requests, Lost

\* agh.h:76-81: a pump is End when it returns true, else Wait or nothing.
LEMMA RefinePump == Inv /\ Pump => [Round!Next]_(Round!vars)
<1> SUFFICES ASSUME Inv, Pump PROVE [Round!Next]_(Round!vars)
    OBVIOUS
<1>1. PICK p \in Pumped(client, snapshot, server.mood) :
          client' = p.client /\ snapshot' = p.snapshot /\ result' = p.result
    BY DEF Pump
<1>2. CASE ~client.in_flight
    <2>1. client' = client /\ snapshot' = snapshot /\ result' = "NONE"
        BY <1>1, <1>2 DEF Pumped
    <2> QED
        BY <1>2, <2>1 DEF Round!Next, Round!Wait
<1>3. CASE client.in_flight
    <2>1. PICK d \in Performed(client, server.mood) : p = PumpReturn(d, snapshot)
        BY <1>1, <1>3 DEF Pumped
    <2>2. CASE BothDone(d)
        <3>1. client' = Closed(d) /\ snapshot' = SnapshotAfter(d, snapshot) /\ result' = FetchResult(d)
            BY <1>1, <2>1, <2>2 DEF PumpReturn
        <3>2. Round!End
            BY <1>3, <2>2, <3>1, RefineEnd
        <3> QED
            BY <3>2 DEF Round!Next
    <2>3. CASE ~BothDone(d)
        <3>1. client' = d /\ snapshot' = snapshot /\ result' = "NONE"
            BY <1>1, <2>1, <2>3 DEF PumpReturn
        <3>2. Sound(d) /\ \A r \in Requests : d.request[r].reply = client.request[r].reply
            BY <1>3, InFlightSound, PerformSound DEF Inv
        <3>3. client'.in_flight = client.in_flight
            BY <1>3, <3>1, <3>2 DEF Sound, Client, Inv, TypeOK
        <3>4. Lost(client) \subseteq Lost(client') /\ Lost(client') \subseteq Requests
            BY <1>3, <2>1, <3>1, InFlightSound, PerformSound DEF Inv, Lost
        <3>5. Round!Wait
            BY <1>3, <3>1, <3>2, <3>3, <3>4 DEF Round!Wait, Round!Lose, Lost, Requests, Round!Requests
        <3> QED
            BY <3>5 DEF Round!Next
    <2> QED
        BY <2>2, <2>3
<1> QED
    BY <1>2, <1>3

\* A reply to a request in flight (agh.c:307) is the abstract Give.
LEMMA RefineAnswer ==
    ASSUME NEW r \in Requests
    PROVE  Inv /\ Answer(r) => [Round!Next]_(Round!vars)
<1> SUFFICES ASSUME Inv, Answer(r) PROVE Round!Give(r)
    BY DEF Round!Next, Requests, Round!Requests
<1>1. PICK reply \in Replies :
          /\ client' \in Client
          /\ client'.in_flight = client.in_flight
          /\ client'.request[r].reply = reply
          /\ client.in_flight
          /\ client.request[r].reply = Nothing
          /\ client'.request[r].curl = client.request[r].curl
          /\ \A x \in Requests \ {r} : client'.request[x] = client.request[x]
    BY AnswerEffect
<1>2. reply \in Round!Replies
    BY DEF Replies, Codes, Documents, Json, Round!Replies, Round!Json
<1> DEFINE given == [x \in Requests |-> client.request[x].reply]
           later == [x \in Requests |-> client'.request[x].reply]
<1>3. later = [given EXCEPT ![r] = reply]
    BY <1>1
<1>4. UNCHANGED <<snapshot, result>>
    BY DEF Answer
<1>5. Lost(client') = Lost(client)
    BY <1>1 DEF Lost
<1> QED
    BY <1>1, <1>2, <1>3, <1>4, <1>5 DEF Round!Give, Lost

\* Time and changes at the server leave the abstract round alone.
LEMMA RefineTime == Inv /\ (ClientTick \/ ServerChange) => UNCHANGED Round!vars
<1> SUFFICES ASSUME Inv, ClientTick \/ ServerChange PROVE UNCHANGED Round!vars
    OBVIOUS
<1>1. client'.in_flight = client.in_flight /\ client'.request = client.request
    BY DEF Inv, TypeOK, Client, ClientTick, Aged, ServerChange
<1>2. UNCHANGED <<snapshot, result>>
    BY DEF ClientTick, ServerChange
<1> QED
    BY <1>1, <1>2 DEF Round!vars

\* agh.h:73-81, for every set of contents and timeout: the client implements the
\* abstract round - one result per round, and nothing but this round's documents.
THEOREM Refinement == ClientSpec => RefinesRefreshRound
<1>1. ClientInit => Round!Init
    BY RefineInit
<1>2. Inv /\ [ClientNext]_clientVars => [Round!Next]_(Round!vars)
    <2> SUFFICES ASSUME Inv, [ClientNext]_clientVars PROVE [Round!Next]_(Round!vars)
        OBVIOUS
    <2>1. CASE Refresh
        BY <2>1, RefineRefresh
    <2>2. CASE Pump
        BY <2>2, RefinePump
    <2>3. CASE ClientTick \/ ServerChange
        BY <2>3, RefineTime
    <2>4. CASE \E r \in Requests : Answer(r)
        BY <2>4, RefineAnswer
    <2>5. CASE UNCHANGED clientVars
        BY <2>5 DEF clientVars, Round!vars
    <2> QED
        BY <2>1, <2>2, <2>3, <2>4, <2>5 DEF ClientNext
<1> QED
    BY <1>1, <1>2, Invariance, PTL DEF ClientSpec, RefinesRefreshRound, Round!Spec

=============================================================================
