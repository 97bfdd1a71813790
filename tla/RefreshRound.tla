---------------------------- MODULE RefreshRound ----------------------------
(***************************************************************************)
(* What agh.h promises of a refresh, without libcurl, timeouts or buffers:  *)
(* at most one round runs; the server gives each of its two requests at     *)
(* most one reply, and either may be lost; the round ends once, and what     *)
(* the replies are and which were lost decides its result and what the      *)
(* snapshot takes: the status request never has a say in the result.        *)
(***************************************************************************)

CONSTANTS Data, Protected, Bare, Garbage, Nothing

Json == Data \cup {Bare}
Requests == {"stats", "status"}
Replies == [http : {200, 401, 403, 500}, doc : Json \cup {Garbage}]
Refusals == {reply \in Replies : reply.http \in {401, 403}}

HasCounters(reply) == reply \in [http : {200}, doc : Json]

SaysProtection(reply) == reply \in [http : {200}, doc : Data]

VARIABLES
    running,    \* is a round running?
    given,      \* the reply each request was given in this round
    lost,       \* the requests of this round that failed
    snapshot,   \* the numbers and the protection state the caller holds
    result      \* what the last call to pump reported

vars == <<running, given, lost, snapshot, result>>

Init ==
    /\ running = FALSE
    /\ given = [r \in Requests |-> Nothing]
    /\ lost = {}
    /\ snapshot = [numbers |-> Nothing, protection |-> FALSE]
    /\ result = "NONE"

Begin ==
    /\ ~running
    /\ running' = TRUE
    /\ given' = [r \in Requests |-> Nothing]
    /\ lost' = {}
    /\ UNCHANGED <<snapshot, result>>

Give(r) ==
    /\ running
    /\ given[r] = Nothing
    /\ \E reply \in Replies : given' = [given EXCEPT ![r] = reply]
    /\ UNCHANGED <<running, lost, snapshot, result>>

\* A failed request fails for the rest of the round, whatever it was given.
Lose == lost \subseteq lost' /\ lost' \subseteq Requests

\* A pump that finds the round unfinished, or none.
Wait ==
    /\ result' = "NONE"
    /\ IF running THEN Lose ELSE UNCHANGED lost
    /\ UNCHANGED <<running, given, snapshot>>

End ==
    /\ running
    /\ running' = FALSE
    /\ given' = given
    /\ Lose
    /\ \A r \in Requests \ lost' : given[r] # Nothing
    /\ result' = IF "stats" \in lost' THEN "FAILED"
                 ELSE IF given["stats"] \in Refusals THEN "UNAUTHORIZED"
                 ELSE IF HasCounters(given["stats"]) THEN "OK" ELSE "FAILED"
    /\ snapshot' =
          [numbers |-> IF result' = "OK" THEN given["stats"].doc ELSE snapshot.numbers,
           protection |-> IF "status" \notin lost' /\ SaysProtection(given["status"])
                          THEN given["status"].doc \in Protected ELSE snapshot.protection]

Next == Begin \/ Wait \/ End \/ \E r \in Requests : Give(r)

Spec == Init /\ [][Next]_vars

=============================================================================
