--------------------------- MODULE DashboardProps ---------------------------
(***************************************************************************)
(* What makes the dashboard of main.c correct.                             *)
(***************************************************************************)
EXTENDS Dashboard, AghClientProps

\* main.c:35-37: "a failed fetch keeps the last good numbers on screen and only
\* the status line changes".  A round that ends well puts on the screen exactly
\* what the server sent to its own stats request; nothing else touches it.
NumbersComeFromTheRound ==
    [][IF PollCb /\ result' = "OK"
       THEN /\ client.request["stats"].reply # Nothing
            /\ screen'.numbers = client.request["stats"].reply.doc
       ELSE screen'.numbers = screen.numbers]_vars

\* main.c:97-114, ui.c:408: the numbers the program holds and those it shows
\* are the same outside the callback, and there are some exactly when a round
\* has succeeded: no failure, however late, blanks the screen or changes it.
ScreenKeepsLastGood ==
    /\ screen.numbers = snapshot.numbers
    /\ history.ok <=> screen.numbers # Nothing
    /\ screen.badge # "unknown" <=> history.ok

\* The status_cb that writes a header (the one that ends --self-check does not).
Reports == StatusCb /\ ~(self_check /\ applied >= 2)

\* main.c:122-154: whatever status_cb writes is true of the rounds as they
\* really ended when it writes it, and a round that ended badly is never
\* reported in the muted colour of good news.
HeaderTrue ==
    [][Reports =>
          /\ screen'.header = "updated" => history.last = "OK"
          /\ screen'.header = "stale" => history.last = "FAILED" /\ history.ok /\ ~history.refused
          /\ screen'.header = "rejected" <=> history.refused
          /\ screen'.header \in {"waiting", "updated"} => history.last \in {"NONE", "OK"}]_vars

\* main.c:122: "Keeps the header honest about how old the numbers are", as long
\* as the numbers are younger than one wrap of the tick counter (49.7 days).
AgeExactWithinAWrap ==
    [][Reports /\ screen'.header \in {"updated", "stale"} /\ history.age < TickMod =>
          screen'.age = history.age]_vars

\* main.c:223-224: poll_cb and status_cb are separate timers that a slow frame
\* can drive apart, yet a muted header never outlives a second bad round by more
\* than the status_cb that is already due, and never a third.  (Under
\* --self-check the last status_cb writes none.)
HeaderLag ==
    ~self_check /\ screen.header \in {"updated", "waiting"} =>
        failures <= (IF "status" \in todo THEN 2 ELSE 1)

\* main.c:116-119: the deadline is judged by a difference that survives the
\* wrap of the tick counter, so an attempt is never overdue by more than the
\* frame that holds poll_cb back.
AttemptOnTime ==
    pc \in {"sleep", "pass"} =>
        Elaps(last_attempt_tick) <= RefreshTicks + (IF todo = {} THEN 0 ELSE late)

\* ui.c:271-272: "green when filtering is on, red when it is off".  The badge
\* says disabled only if AdGuard Home has said anything about the protection.
RedBadgeWasTold == screen.badge = "disabled" => history.told

Healthy(d) == server.mood = "up" /\ server.data = d

\* The point of the program: once the server stays up with the content d, the
\* screen comes to show d and stays so, and the header keeps coming back to
\* "updated", whatever happened before.
Converges ==
    \A d \in Data : <>[](Healthy(d) /\ ~quit_flag) =>
        /\ <>[](screen.numbers = d /\ screen.badge = IF d \in Protected THEN "enabled" ELSE "disabled")
        /\ []<>(screen.header = "updated")

\* A server that stays away is reported: the header ends up red for good.
OutageShown ==
    <>[](server.mood \in {"down", "silent"} /\ ~quit_flag) =>
        <>[](screen.header \in {"stale", "unreachable", "rejected"})

\* main.c:226-235: a signal ends the program, however the callbacks and the
\* round in flight stand.
SignalEnds == quit_flag ~> pc = "exited"

\* README.md:113: --self-check "lets two refreshes land" and leaves by itself,
\* if the server lets them.
SelfCheckLeaves == self_check /\ <>[](server.mood = "up") => <>(pc = "exited")

=============================================================================
