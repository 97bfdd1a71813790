------------------------- MODULE SlintDashboardProps -------------------------
(***************************************************************************)
(* What makes the Slint dashboard correct.                                 *)
(***************************************************************************)
EXTENDS SlintDashboard

\* main.rs:119-129: once the channel is empty, the screen shows what the worker
\* sent last, if that was a snapshot: nothing older is left behind on it, in
\* whatever order the threads ran.  The badge is of the same fetch as the
\* numbers.
NewestShown ==
    open /\ channel = <<>> /\ sent \in Good =>
        screen.numbers = sent.numbers /\ screen.badge = sent.badge

\* main.rs:98-100: the header is judged anew at every tick, also when the worker
\* is stuck: "updated" never stands over data older than three refreshes, but
\* for the ticks the event loop is late.
FreshHeader ==
    open /\ screen.header = "updated" =>
        /\ latest # Nothing
        /\ latest.age <= StaleTicks + (IF due THEN late + 1 ELSE 0)

\* main.rs:62 and 109-117: the channel has no bound of its own; what keeps it
\* short is the sleep after every outcome, a failed one too.
BacklogBounded ==
    Len(channel) <= 1 + (MaxStall + 1) \div RefreshTicks

\* agh.rs:24: "Why a refresh attempt ended the way it did; the UI shows this in
\* the header."  A refusal the callback has just taken is in the header after.
RefusalReachesHeader ==
    [][UiTick /\ Drained # Nothing /\ Drained \in Bad /\ Drained.kind = "rejected" =>
          screen'.header = "rejected"]_vars

\* agh.rs:92-93: "The status endpoint is secondary: a failure leaves the badge
\* unknown rather than blanking the dashboard".  Whatever get() returns for the
\* status, statistics that were parsed become a snapshot.
StatusIsSecondary ==
    [][StatusReturns => worker'.outcome \in Good]_vars

Healthy(d) == server.mood = "up" /\ server.data = d /\ open

\* Once the server stays up with the content d, the screen comes to show d for
\* good, with the right badge, and the header ends up "updated" for good.
Converges ==
    \A d \in Data : <>[]Healthy(d) =>
        <>[](/\ screen.numbers = d
             /\ screen.badge = IF d \in Protected THEN "enabled" ELSE "disabled"
             /\ screen.header = "updated")

\* A server that stays away is reported, whether or not there is data to show.
OutageShown ==
    <>[](server.mood \in {"down", "silent", "refusing"} /\ open) =>
        <>[](screen.header \in {"stale", "rejected"})

=============================================================================
