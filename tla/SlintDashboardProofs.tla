------------------------ MODULE SlintDashboardProofs ------------------------
(***************************************************************************)
(* Proofs about the Slint dashboard, for every content, timeout, period,    *)
(* stall and behaviour of the server: its types, and the three invariants   *)
(* that say what the two threads make of the channel between them.          *)
(***************************************************************************)
EXTENDS SlintDashboardProps, TLAPS

(***************************************************************************)
(* The inductive invariant.                                                *)
(***************************************************************************)

\* fetch_loop holds what its place in the loop promises (main.rs:109-117).
WorkerHolds ==
    /\ worker.pc = "status" => worker.stats \in Json
    /\ worker.pc = "send" => worker.outcome \in Outcomes

\* Do two outcomes say the same, whatever their age?
Same(a, b) ==
    /\ a \in Good <=> b \in Good
    /\ a \in Good /\ b \in Good => a.numbers = b.numbers /\ a.badge = b.badge

\* What drain() would return is what was sent last; a closed window's channel is
\* gone (main.rs:104-105, 119-129).
NewestLast ==
    /\ channel # <<>> => Same(channel[Len(channel)], sent)
    /\ ~open => channel = <<>>

\* The ticks since the timer callback ran last (main.rs:68-70).
Undrained == IF due THEN late + 1 ELSE 0

\* Since then, every outcome but the first took the worker a whole sleep, and
\* the present one what it has slept (main.rs:115).
Slept ==
    channel # <<>> =>
        (Len(channel) - 1) * RefreshTicks
            + (IF worker.pc = "sleep" THEN worker.waited ELSE RefreshTicks) <= Undrained

SlintInv ==
    /\ SlintTypeOK /\ WorkerHolds
    /\ NewestLast /\ NewestShown
    /\ FreshHeader
    /\ Slept

----------------------------------------------------------------------------
(***************************************************************************)
(* Lemmas about the operators.                                             *)
(***************************************************************************)

\* No snapshot is a failure, and none of them is the lack of an outcome.
LEMMA KindsApart ==
    /\ Nothing \notin Good /\ Nothing \notin Bad
    /\ \A o \in Good : o.kind = "ok"
    /\ \A o \in Bad : o.kind \in {"rejected", "failed"} /\ o \notin Good
BY OutcomeAssumption DEF Outcomes, Good, Bad

\* Where the worker goes next, it starts to wait anew (main.rs:109-117).
LEMMA AtWorker ==
    ASSUME worker \in Worker, NEW pc \in {"stats", "status", "send", "sleep", "returned"}
    PROVE  /\ At(pc) \in Worker /\ At(pc).pc = pc /\ At(pc).waited = 0
           /\ At(pc).stats = Nothing /\ At(pc).outcome = Nothing
<1>1. 0 \in 0..(TimeoutTicks + RefreshTicks)
    BY PeriodAssumption
<1>2. /\ At(pc).pc = pc /\ At(pc).waited = 0
      /\ At(pc).stats = Nothing /\ At(pc).outcome = Nothing
    BY DEF At, Worker
<1>3. At(pc) \in Worker
    BY <1>1, Zenon DEF At, Worker
<1> QED
    BY <1>2, <1>3

\* A worker with something to send holds it (agh.rs:71-126).
LEMMA HoldingWorker ==
    ASSUME worker \in Worker, NEW o \in Outcomes
    PROVE  /\ Holding(o) \in Worker /\ Holding(o).pc = "send" /\ Holding(o).outcome = o
<1>1. /\ At("send") \in Worker /\ At("send").pc = "send"
    BY AtWorker
<1> QED
    BY <1>1 DEF Holding, Worker

\* Whatever get() returns is one of its three outcomes (agh.rs:128-144).
LEMMA ReturnsTyped == SlintTypeOK => \A g \in Returns : g \in Gets
<1> SUFFICES ASSUME SlintTypeOK, NEW g \in Returns PROVE g \in Gets
    OBVIOUS
<1>1. server.data \in Data
    BY DEF SlintTypeOK, Server
<1>2. /\ \A doc \in Json \cup {Garbage} : Text(doc) \in Gets
      /\ Refused \in Gets /\ Other \in Gets
    BY DEF Gets, Text, Refused, Other
<1>3. /\ server.data \in Json \cup {Garbage} /\ Garbage \in Json \cup {Garbage}
      /\ Bare \in Json \cup {Garbage}
    BY <1>1 DEF Json
<1>4. g \in {Text(server.data), Refused, Other, Text(Garbage), Text(Bare)}
    BY DEF Returns
<1> QED
    BY <1>2, <1>3, <1>4

\* A failure is one of the two kinds the UI thread tells apart (agh.rs:24-34).
LEMMA FailureTyped == \A g \in Gets : Failure(g) \in Bad
BY DEF Failure, Bad

\* Parsed statistics become a snapshot, or are given up for a refusal
\* (agh.rs:92-126).
LEMMA OutcomeTyped ==
    \A stats \in Json, g \in Gets : Outcome(stats, g) \in Outcomes
<1> SUFFICES ASSUME NEW stats \in Json, NEW g \in Gets PROVE Outcome(stats, g) \in Outcomes
    OBVIOUS
<1>1. BadgeOf(g) \in Badges /\ 0 \in Ages
    BY PeriodAssumption DEF BadgeOf, Badges, Ages, AgeCap, StaleTicks
<1>2. [kind |-> "ok", numbers |-> stats, age |-> 0, badge |-> BadgeOf(g)] \in Good
    BY <1>1 DEF Good
<1> QED
    BY <1>2, FailureTyped DEF Outcome, Outcomes

\* Time changes nothing of an outcome but its age, and that by one at most.
LEMMA OlderSame ==
    /\ \A o \in Good : /\ Older(o) \in Good /\ Same(Older(o), o)
                       /\ Older(o).age <= o.age + 1
    /\ \A o \in Bad \cup {Nothing} : Older(o) = o
<1>1. \A o \in Bad \cup {Nothing} : Older(o) = o
    BY KindsApart DEF Older
<1>2. ASSUME NEW o \in Good
      PROVE  Older(o) \in Good /\ Same(Older(o), o) /\ Older(o).age <= o.age + 1
    <2>1. o.age \in Ages /\ AgeCap \in Nat
        BY <1>2, PeriodAssumption DEF Good, AgeCap, StaleTicks
    <2>2. CASE o.age < AgeCap
        <3>1. o.age + 1 \in Ages
            BY <2>1, <2>2 DEF Ages
        <3>2. Older(o) = [o EXCEPT !.age = @ + 1]
            BY <1>2, <2>2 DEF Older
        <3>3. /\ Older(o) \in Good /\ Older(o).age = o.age + 1
              /\ Older(o).numbers = o.numbers /\ Older(o).badge = o.badge
            BY <1>2, <3>1, <3>2 DEF Good
        <3> QED
            BY <1>2, <2>1, <3>3 DEF Same, Ages
    <2>3. CASE ~(o.age < AgeCap)
        <3>1. Older(o) = o
            BY <2>3 DEF Older
        <3> QED
            BY <1>2, <2>1, <3>1 DEF Same, Ages
    <2> QED
        BY <2>2, <2>3
<1> QED
    BY <1>1, <1>2

----------------------------------------------------------------------------
(***************************************************************************)
(* The invariant, action by action.                                        *)
(***************************************************************************)

\* The values that a callback or the start of the program leaves behind.
LEMMA Fresh == 0 \in 0..MaxStall /\ <<>> \in Seq(Outcomes)
BY PeriodAssumption

\* The worker has just asked for the statistics, and the window is open.
LEMMA InitSlint == Init => SlintInv
<1> SUFFICES ASSUME Init PROVE SlintInv
    OBVIOUS
<1>1. worker \in Worker
    <2>1. 0 \in 0..(TimeoutTicks + RefreshTicks)
        BY PeriodAssumption
    <2> QED
        BY <2>1 DEF Init, Worker
<1>2. SlintTypeOK
    <2>1. screen \in Screen
        BY DEF Init, Screen, Headers, Badges
    <2> QED
        BY <1>1, <2>1, Fresh DEF Init, SlintTypeOK
<1>3. /\ worker.pc = "stats" /\ channel = <<>> /\ open /\ sent = Nothing
      /\ screen.header = "starting"
    BY DEF Init
<1>4. WorkerHolds /\ NewestLast /\ FreshHeader /\ Slept
    BY <1>3 DEF WorkerHolds, NewestLast, FreshHeader, Slept
<1>5. NewestShown
    BY <1>3, KindsApart DEF NewestShown
<1> QED
    BY <1>2, <1>4, <1>5 DEF SlintInv

\* What every proof below begins with.
LEMMA SlintFacts ==
    ASSUME SlintInv
    PROVE  /\ worker \in Worker /\ channel \in Seq(Outcomes)
           /\ latest \in Good \cup {Nothing} /\ sent \in Outcomes \cup {Nothing}
           /\ screen \in Screen /\ server \in Server
           /\ open \in BOOLEAN /\ due \in BOOLEAN
           /\ late \in 0..MaxStall /\ late \in Nat
           /\ RefreshTicks \in Nat \ {0} /\ TimeoutTicks \in Nat /\ MaxStall \in Nat
           /\ worker.waited \in 0..(TimeoutTicks + RefreshTicks) /\ worker.waited \in Nat
BY PeriodAssumption DEF SlintInv, SlintTypeOK, Worker

\* A step of the worker that leaves the channel alone keeps the invariant, if
\* the worker keeps its type and, when it stops sleeping, has slept enough.
LEMMA WorkerStep ==
    ASSUME SlintInv,
           UNCHANGED <<channel, latest, screen, open, late, due, server, sent>>,
           worker' \in Worker, WorkerHolds',
           worker.pc = "sleep" => worker.waited = RefreshTicks,
           worker'.pc # "sleep"
    PROVE  SlintInv'
<1>1. SlintTypeOK'
    BY DEF SlintInv, SlintTypeOK
<1>2. NewestLast' /\ NewestShown' /\ FreshHeader'
    BY DEF SlintInv, NewestLast, NewestShown, FreshHeader
<1>3. Slept'
    BY DEF SlintInv, Slept, Undrained
<1> QED
    BY <1>1, <1>2, <1>3 DEF SlintInv

\* get() of the statistics (agh.rs:81-90).
LEMMA StatsReturnsSlint == SlintInv /\ StatsReturns => SlintInv'
<1> SUFFICES ASSUME SlintInv, StatsReturns PROVE SlintInv'
    OBVIOUS
<1>1. PICK g \in Returns : worker' = AfterStats(g)
    BY DEF StatsReturns
<1>2. g \in Gets
    BY ReturnsTyped DEF SlintInv
<1>3. CASE g.text \in Json
    <2>1. /\ At("status") \in Worker /\ At("status").pc = "status"
        BY SlintFacts, AtWorker
    <2>2. worker' = [At("status") EXCEPT !.stats = g.text]
        BY <1>1, <1>3 DEF AfterStats
    <2>3. worker' \in Worker /\ worker'.pc = "status" /\ worker'.stats \in Json
        BY <1>3, <2>1, <2>2 DEF Worker
    <2> QED
        BY <2>3, WorkerStep DEF StatsReturns, WorkerHolds
<1>4. CASE g.text \notin Json
    <2>1. Failure(g) \in Outcomes /\ worker' = Holding(Failure(g))
        BY <1>1, <1>2, <1>4, FailureTyped DEF AfterStats, Outcomes
    <2>2. worker' \in Worker /\ worker'.pc = "send" /\ worker'.outcome \in Outcomes
        BY <2>1, SlintFacts, HoldingWorker
    <2> QED
        BY <2>2, WorkerStep DEF StatsReturns, WorkerHolds
<1> QED
    BY <1>3, <1>4

\* get() of the status (agh.rs:92-126).
LEMMA StatusReturnsSlint == SlintInv /\ StatusReturns => SlintInv'
<1> SUFFICES ASSUME SlintInv, StatusReturns PROVE SlintInv'
    OBVIOUS
<1>1. PICK g \in Returns : worker' = Holding(Outcome(worker.stats, g))
    BY DEF StatusReturns
<1>2. g \in Gets /\ worker.stats \in Json
    BY ReturnsTyped DEF SlintInv, WorkerHolds, StatusReturns
<1>3. Outcome(worker.stats, g) \in Outcomes
    BY <1>2, OutcomeTyped
<1>4. worker' \in Worker /\ worker'.pc = "send" /\ worker'.outcome \in Outcomes
    BY <1>1, <1>3, SlintFacts, HoldingWorker
<1> QED
    BY <1>4, WorkerStep DEF StatusReturns, WorkerHolds

\* The sleep is over (main.rs:115).
LEMMA SleepEndsSlint == SlintInv /\ SleepEnds => SlintInv'
<1> SUFFICES ASSUME SlintInv, SleepEnds PROVE SlintInv'
    OBVIOUS
<1>1. worker' \in Worker /\ worker'.pc = "stats"
    BY SlintFacts, AtWorker DEF SleepEnds
<1> QED
    BY <1>1, WorkerStep DEF SleepEnds, WorkerHolds

\* The outcome goes to the end of the channel, and is the newest (main.rs:111-114).
LEMMA SendSlint == SlintInv /\ Send => SlintInv'
<1> SUFFICES ASSUME SlintInv, Send PROVE SlintInv'
    OBVIOUS
<1>1. CASE ~open
    <2>1. worker' = At("returned") /\ UNCHANGED <<channel, latest, screen, open, late, due, server, sent>>
        BY <1>1 DEF Send
    <2>2. worker' \in Worker /\ worker'.pc = "returned"
        BY <2>1, SlintFacts, AtWorker
    <2> QED
        BY <2>1, <2>2, WorkerStep DEF WorkerHolds, Send
<1>2. CASE open
    <2> DEFINE o == worker.outcome
               n == Len(channel)
    <2>1. /\ channel' = Append(channel, o) /\ sent' = o /\ worker' = At("sleep")
          /\ UNCHANGED <<latest, screen, open, late, due, server>>
        BY <1>2 DEF Send, AfterSend
    <2>2. o \in Outcomes
        BY DEF SlintInv, WorkerHolds, Send
    <2>3. worker' \in Worker /\ worker'.pc = "sleep" /\ worker'.waited = 0
        BY <2>1, SlintFacts, AtWorker
    <2>4. /\ channel' \in Seq(Outcomes) /\ Len(channel') = n + 1 /\ channel'[n + 1] = o
          /\ channel' # <<>> /\ n \in Nat
        BY <2>1, <2>2, SlintFacts
    <2>5. SlintTypeOK'
        BY <2>1, <2>2, <2>3, <2>4 DEF SlintInv, SlintTypeOK
    <2>6. WorkerHolds' /\ NewestLast' /\ NewestShown'
        BY <1>2, <2>1, <2>3, <2>4 DEF WorkerHolds, NewestLast, NewestShown, Same
    <2>7. FreshHeader'
        BY <2>1 DEF SlintInv, FreshHeader
    <2>8. n * RefreshTicks <= Undrained
        <3>1. CASE channel = <<>>
            <4>1. n = 0 /\ 0 <= Undrained
                BY <3>1, SlintFacts DEF Undrained
            <4> QED
                BY <4>1, SlintFacts
        <3>2. CASE channel # <<>>
            <4>1. (n - 1) * RefreshTicks + RefreshTicks <= Undrained
                BY <3>2 DEF SlintInv, Slept, Send
            <4>2. (n - 1) * RefreshTicks + RefreshTicks = n * RefreshTicks
                BY <2>4, SlintFacts
            <4> QED
                BY <4>1, <4>2
        <3> QED
            BY <3>1, <3>2
    <2>9. Slept'
        <3>1. Undrained' = Undrained
            BY <2>1 DEF Undrained
        <3>2. (Len(channel') - 1) * RefreshTicks + 0 = n * RefreshTicks
            BY <2>4, SlintFacts
        <3> QED
            BY <2>3, <2>8, <3>1, <3>2 DEF Slept
    <2> QED
        BY <2>5, <2>6, <2>7, <2>9 DEF SlintInv
<1> QED
    BY <1>1, <1>2, SlintFacts

\* What the callback takes is what was sent last (main.rs:119-129).
LEMMA DrainedIsSent ==
    ASSUME SlintInv, open
    PROVE  /\ Drained \in Outcomes \cup {Nothing}
           /\ Drained \in Good /\ Drained # Nothing =>
                 sent \in Good /\ Drained.numbers = sent.numbers /\ Drained.badge = sent.badge
           /\ sent \in Good /\ Drained \notin Good => Drained = Nothing /\ channel = <<>>
           /\ Drained = Nothing => channel = <<>>
<1>1. CASE channel = <<>>
    <2>1. Drained = Nothing
        BY <1>1 DEF Drained
    <2> QED
        BY <1>1, <2>1
<1>2. CASE channel # <<>>
    <2>1. Len(channel) \in 1..Len(channel) /\ channel[Len(channel)] \in Outcomes
        BY <1>2, SlintFacts
    <2>2. Drained = channel[Len(channel)]
        BY <1>2 DEF Drained
    <2>3. Same(Drained, sent)
        BY <1>2, <2>2 DEF SlintInv, NewestLast
    <2> QED
        BY <1>2, <2>1, <2>2, <2>3, OutcomeAssumption DEF Same
<1> QED
    BY <1>1, <1>2

\* The timer callback: the newest outcome on the screen, and a header judged by
\* the age of the snapshot it keeps (main.rs:71-101, view.rs).
LEMMA UiTickSlint == SlintInv /\ UiTick => SlintInv'
<1> SUFFICES ASSUME SlintInv, UiTick PROVE SlintInv'
    OBVIOUS
<1> DEFINE handled == Handled(Drained)
<1>1. /\ open /\ open' = open /\ channel' = <<>> /\ due' = FALSE /\ late' = 0
      /\ latest' = (IF Drained \in Good THEN Drained ELSE latest)
      /\ screen' = (IF latest' = Nothing THEN handled ELSE WithAge(handled, latest'))
      /\ UNCHANGED <<worker, server, sent>>
    BY DEF UiTick
<1>2. latest' \in Good \cup {Nothing}
    BY <1>1, SlintFacts
<1>3. /\ handled \in Screen
      /\ Drained \in Good => /\ handled.numbers = Drained.numbers
                             /\ handled.badge = Drained.badge
      /\ Drained \notin Good => /\ handled.numbers = screen.numbers
                                /\ handled.badge = screen.badge
                                /\ handled.header = "updated" => handled = screen
    <2>1. CASE Drained = Nothing
        BY <2>1, SlintFacts, KindsApart DEF Handled
    <2>2. CASE Drained # Nothing /\ Drained \in Good
        <3>1. handled = [numbers |-> Drained.numbers, badge |-> Drained.badge,
                         header |-> "updated"]
            BY <2>2, KindsApart DEF Handled, Filled
        <3>2. Drained.numbers \in Json /\ Drained.badge \in Badges
            BY <2>2 DEF Good
        <3>3. handled \in Screen /\ handled.numbers = Drained.numbers
              /\ handled.badge = Drained.badge
            BY <3>1, <3>2 DEF Screen, Headers
        <3> QED
            BY <2>2, <3>3
    <2>3. CASE Drained # Nothing /\ Drained \notin Good
        <3>1. Drained \in Bad
            BY <1>1, <2>3, DrainedIsSent DEF Outcomes
        <3>2. \E text \in {"rejected", "stale"} : handled = [screen EXCEPT !.header = text]
            BY <2>3, <3>1, KindsApart DEF Handled, Errored
        <3>3. /\ handled \in Screen /\ handled.numbers = screen.numbers
              /\ handled.badge = screen.badge /\ handled.header # "updated"
            BY <3>2, SlintFacts DEF Screen, Headers
        <3> QED
            BY <2>3, <3>3
    <2> QED
        BY <2>1, <2>2, <2>3
<1> HIDE DEF handled
<1>4. /\ screen' \in Screen
      /\ screen'.numbers = handled.numbers /\ screen'.badge = handled.badge
      /\ latest' # Nothing /\ screen'.header = "updated" => latest'.age <= StaleTicks
    <2>1. CASE latest' = Nothing
        BY <1>1, <1>3, <2>1
    <2>2. CASE latest' # Nothing
        <3>1. screen' = [handled EXCEPT !.header =
                            IF latest'.age > StaleTicks THEN "stale" ELSE "updated"]
            BY <1>1, <2>2 DEF WithAge
        <3>2. latest'.age \in Nat /\ StaleTicks \in Nat
            BY <1>2, <2>2, PeriodAssumption DEF Good, Ages, StaleTicks, AgeCap
        <3> QED
            BY <1>3, <3>1, <3>2 DEF Screen, Headers
    <2> QED
        BY <2>1, <2>2
<1>5. SlintTypeOK'
    BY <1>1, <1>2, <1>4, Fresh, SlintFacts DEF SlintTypeOK
<1>6. WorkerHolds' /\ NewestLast' /\ Slept'
    BY <1>1 DEF SlintInv, WorkerHolds, NewestLast, Slept
<1>7. NewestShown'
    <2>1. SUFFICES ASSUME sent \in Good
                   PROVE  screen'.numbers = sent.numbers /\ screen'.badge = sent.badge
        BY <1>1 DEF NewestShown
    <2>2. CASE Drained \in Good
        BY <1>1, <1>3, <1>4, <2>2, DrainedIsSent, KindsApart
    <2>3. CASE Drained \notin Good
        BY <1>1, <1>3, <1>4, <2>1, <2>3, DrainedIsSent DEF SlintInv, NewestShown
    <2> QED
        BY <2>2, <2>3
<1>8. FreshHeader'
    <2>1. CASE latest' = Nothing
        <3>1. Drained \notin Good /\ latest = Nothing
            BY <1>1, <2>1, KindsApart
        <3>2. screen'.header # "updated"
            BY <1>1, <1>3, <2>1, <3>1 DEF SlintInv, FreshHeader
        <3> QED
            BY <3>2 DEF FreshHeader
    <2>2. CASE latest' # Nothing
        BY <1>1, <1>4, <2>2, PeriodAssumption DEF FreshHeader, StaleTicks
    <2> QED
        BY <2>1, <2>2
<1> QED
    BY <1>5, <1>6, <1>7, <1>8 DEF SlintInv

\* The window is closed: nothing is left to receive (main.rs:104-105).
LEMMA CloseSlint == SlintInv /\ Close => SlintInv'
<1> SUFFICES ASSUME SlintInv, Close PROVE SlintInv'
    OBVIOUS
<1>1. SlintTypeOK'
    BY Fresh, SlintFacts DEF SlintTypeOK, Close
<1>2. WorkerHolds' /\ NewestLast' /\ NewestShown' /\ FreshHeader' /\ Slept'
    BY DEF SlintInv, WorkerHolds, NewestLast, NewestShown, FreshHeader, Slept, Close
<1> QED
    BY <1>1, <1>2 DEF SlintInv

\* Time: everything that is kept grows a tick older, the worker has waited one
\* tick more, and so has the callback (main.rs:68-70, 115).
LEMMA TickSlint == SlintInv /\ Tick => SlintInv'
<1> SUFFICES ASSUME SlintInv, Tick PROVE SlintInv'
    OBVIOUS
<1>1. /\ channel' = [i \in DOMAIN channel |-> Older(channel[i])]
      /\ latest' = Older(latest)
      /\ due' = open /\ late' = (IF due THEN late + 1 ELSE 0)
      /\ due => late < MaxStall
      /\ UNCHANGED <<screen, open, server, sent>>
    BY DEF Tick
<1>2. /\ worker' \in Worker /\ worker'.pc = worker.pc
      /\ worker'.stats = worker.stats /\ worker'.outcome = worker.outcome
      /\ worker.pc = "sleep" => worker'.waited = worker.waited + 1
    <2>1. CASE worker.pc = "returned"
        BY <2>1, SlintFacts DEF Tick
    <2>2. CASE worker.pc # "returned"
        <3>1. worker.waited + 1 \in 0..(TimeoutTicks + RefreshTicks)
            BY <2>2, SlintFacts DEF Tick, Patience
        <3>2. worker' = [worker EXCEPT !.waited = worker.waited + 1]
            BY <2>2 DEF Tick
        <3> QED
            BY <3>1, <3>2, SlintFacts DEF Worker
    <2> QED
        BY <2>1, <2>2
<1>3. /\ channel' \in Seq(Outcomes) /\ Len(channel') = Len(channel)
      /\ \A i \in 1..Len(channel) : channel'[i] = Older(channel[i])
      /\ \A i \in 1..Len(channel) : channel[i] \in Outcomes
    <2>1. \A o \in Outcomes : Older(o) \in Outcomes
        BY OlderSame DEF Outcomes
    <2> QED
        BY <1>1, <2>1, SlintFacts
<1>4. latest' \in Good \cup {Nothing}
    BY <1>1, OlderSame, SlintFacts
<1>5. SlintTypeOK'
    BY <1>1, <1>2, <1>3, <1>4, SlintFacts DEF SlintInv, SlintTypeOK
<1>6. WorkerHolds'
    BY <1>2 DEF SlintInv, WorkerHolds
<1>7. channel' = <<>> <=> channel = <<>>
    BY <1>3, SlintFacts
<1>8. NewestLast'
    <2>1. CASE channel = <<>>
        BY <1>7, <2>1 DEF NewestLast
    <2>2. CASE channel # <<>>
        <3> DEFINE o == channel[Len(channel)]
        <3>1. /\ o \in Outcomes /\ channel'[Len(channel')] = Older(o)
              /\ Same(o, sent) /\ open
            BY <1>3, <2>2, SlintFacts DEF SlintInv, NewestLast
        <3> HIDE DEF o
        <3>2. Same(Older(o), sent)
            <4>1. CASE o \in Good
                BY <3>1, <4>1, OlderSame DEF Same
            <4>2. CASE o \in Bad
                BY <3>1, <4>2, OlderSame
            <4> QED
                BY <3>1, <4>1, <4>2 DEF Outcomes
        <3> QED
            BY <1>1, <3>1, <3>2 DEF NewestLast
    <2> QED
        BY <2>1, <2>2
<1>9. NewestShown'
    BY <1>1, <1>7 DEF SlintInv, NewestShown
<1>10. Undrained' = Undrained + 1 \/ ~open
    BY <1>1, SlintFacts DEF Undrained
<1>11. FreshHeader'
    <2>1. SUFFICES ASSUME open, screen.header = "updated"
                   PROVE  latest' # Nothing /\ latest'.age <= StaleTicks + Undrained'
        BY <1>1 DEF FreshHeader, Undrained
    <2>2. latest # Nothing /\ latest.age <= StaleTicks + Undrained
        BY <2>1 DEF SlintInv, FreshHeader, Undrained
    <2>3. /\ latest' \in Good /\ latest \in Good /\ latest'.age <= latest.age + 1
          /\ latest'.age \in Nat /\ latest.age \in Nat
        <3>1. latest \in Good /\ latest' \in Good /\ latest'.age <= latest.age + 1
            BY <1>1, <2>2, OlderSame, SlintFacts
        <3> QED
            BY <3>1, PeriodAssumption DEF Good, Ages, AgeCap, StaleTicks
    <2>4. latest' # Nothing
        BY <2>3, KindsApart
    <2>5. StaleTicks \in Nat /\ Undrained \in Nat /\ Undrained' = Undrained + 1
        BY <1>10, <2>1, SlintFacts DEF StaleTicks, Undrained
    <2> QED
        BY <2>2, <2>3, <2>4, <2>5
<1>12. Slept'
    <2>1. CASE channel = <<>>
        BY <1>7, <2>1 DEF Slept
    <2>2. CASE channel # <<>>
        <3> DEFINE before == (Len(channel) - 1) * RefreshTicks
        <3>1. open /\ Undrained' = Undrained + 1 /\ Undrained \in Nat
            BY <1>10, <2>2, SlintFacts DEF SlintInv, NewestLast, Undrained
        <3>2. before \in Int
            BY SlintFacts
        <3>3. before + (IF worker.pc = "sleep" THEN worker.waited ELSE RefreshTicks) <= Undrained
            BY <2>2 DEF SlintInv, Slept
        <3>4. (Len(channel') - 1) * RefreshTicks = before
            BY <1>3
        <3> HIDE DEF before
        <3>5. before + (IF worker'.pc = "sleep" THEN worker'.waited ELSE RefreshTicks)
                 <= Undrained'
            BY <1>2, <3>1, <3>2, <3>3, SlintFacts
        <3> QED
            BY <3>4, <3>5 DEF Slept
    <2> QED
        BY <2>1, <2>2
<1> QED
    BY <1>5, <1>6, <1>8, <1>9, <1>11, <1>12 DEF SlintInv

\* The server reaches neither thread but through get().
LEMMA ServerChangesSlint == SlintInv /\ ServerChanges => SlintInv'
<1> SUFFICES ASSUME SlintInv, ServerChanges PROVE SlintInv'
    OBVIOUS
<1>1. SlintTypeOK'
    BY SlintFacts DEF SlintInv, SlintTypeOK, ServerChanges
<1>2. WorkerHolds' /\ NewestLast' /\ NewestShown' /\ FreshHeader' /\ Slept'
    BY DEF SlintInv, WorkerHolds, NewestLast, NewestShown, FreshHeader, Slept, Undrained,
           ServerChanges
<1> QED
    BY <1>1, <1>2 DEF SlintInv

----------------------------------------------------------------------------
(***************************************************************************)
(* The theorems.                                                           *)
(***************************************************************************)

\* The invariant is inductive: one case per action of the two threads.
LEMMA NextSlint == SlintInv /\ [Next]_vars => SlintInv'
<1> SUFFICES ASSUME SlintInv, [Next]_vars PROVE SlintInv'
    OBVIOUS
<1>1. CASE StatsReturns \/ StatusReturns \/ Send \/ SleepEnds
    BY <1>1, StatsReturnsSlint, StatusReturnsSlint, SendSlint, SleepEndsSlint
<1>2. CASE UiTick \/ Close
    BY <1>2, UiTickSlint, CloseSlint
<1>3. CASE Tick \/ ServerChanges
    BY <1>3, TickSlint, ServerChangesSlint
<1>4. CASE UNCHANGED vars
    BY <1>4 DEF vars, SlintInv, SlintTypeOK, WorkerHolds, NewestLast, NewestShown, FreshHeader,
                Slept, Undrained
<1> QED
    BY <1>1, <1>2, <1>3, <1>4 DEF Next

\* The invariant above holds in every reachable state of the Slint dashboard.
THEOREM SlintInvariance == Spec => []SlintInv
<1>1. Init => SlintInv
    BY InitSlint
<1>2. SlintInv /\ [Next]_vars => SlintInv'
    BY NextSlint
<1> QED
    BY <1>1, <1>2, PTL DEF Spec

\* No outcome, snapshot, screen or wait leaves the values the two threads
\* handle, for every period, stall and behaviour of the server.
THEOREM SlintTypeCorrect == Spec => []SlintTypeOK
<1>1. SlintInv => SlintTypeOK
    BY DEF SlintInv
<1> QED
    BY <1>1, SlintInvariance, PTL

\* main.rs:119-129: in whatever order the two threads run, an empty channel
\* means that the screen shows what the worker sent last, numbers and badge of
\* the same fetch.
THEOREM NewestAlwaysShown == Spec => []NewestShown
<1>1. SlintInv => NewestShown
    BY DEF SlintInv
<1> QED
    BY <1>1, SlintInvariance, PTL

\* main.rs:98-100: "updated" never stands over data older than three refreshes,
\* but for the ticks the event loop is late.
THEOREM HeaderFresh == Spec => []FreshHeader
<1>1. SlintInv => FreshHeader
    BY DEF SlintInv
<1> QED
    BY <1>1, SlintInvariance, PTL

\* What a whole number of periods fits in.
LEMMA PeriodsThatFit ==
    ASSUME NEW ticks \in Nat, NEW period \in Nat \ {0}, NEW k \in Int, k * period <= ticks
    PROVE  k <= ticks \div period
<1> DEFINE q == ticks \div period
<1>1. q \in Int /\ ticks < (q + 1) * period
    OBVIOUS
<1> HIDE DEF q
<1>2. ASSUME k >= q + 1 PROVE FALSE
    <2>1. k * period >= (q + 1) * period
        BY <1>1, <1>2
    <2> QED
        BY <1>1, <2>1
<1> QED
    BY <1>1, <1>2 DEF q

\* main.rs:62, 115: the channel has no bound of its own, yet the sleep after
\* every outcome keeps it as short as the event loop is punctual.
THEOREM BacklogIsBounded == Spec => []BacklogBounded
<1>1. SlintInv => BacklogBounded
    <2> SUFFICES ASSUME SlintInv PROVE Len(channel) <= 1 + (MaxStall + 1) \div RefreshTicks
        BY DEF BacklogBounded
    <2>1. Len(channel) \in Nat /\ Undrained \in Nat /\ Undrained <= MaxStall + 1
        BY SlintFacts DEF Undrained
    <2>2. CASE channel = <<>>
        <3>1. 0 * RefreshTicks <= MaxStall + 1
            BY SlintFacts
        <3>2. 0 <= (MaxStall + 1) \div RefreshTicks
            BY <3>1, PeriodsThatFit, SlintFacts
        <3>3. (MaxStall + 1) \div RefreshTicks \in Int
            BY SlintFacts
        <3> QED
            BY <2>2, <3>2, <3>3
    <2>3. CASE channel # <<>>
        <3> DEFINE k == Len(channel) - 1
        <3>1. k \in Int /\ k * RefreshTicks \in Int
            BY <2>1, SlintFacts
        <3>2. k * RefreshTicks
                 + (IF worker.pc = "sleep" THEN worker.waited ELSE RefreshTicks) <= Undrained
            BY <2>3 DEF SlintInv, Slept
        <3>3. k * RefreshTicks <= MaxStall + 1
            BY <2>1, <3>1, <3>2, SlintFacts
        <3> HIDE DEF k
        <3>4. k <= (MaxStall + 1) \div RefreshTicks
            BY <3>1, <3>3, PeriodsThatFit, SlintFacts
        <3>5. (MaxStall + 1) \div RefreshTicks \in Int
            BY SlintFacts
        <3> QED
            BY <2>1, <3>4, <3>5 DEF k
    <2> QED
        BY <2>2, <2>3
<1> QED
    BY <1>1, SlintInvariance, PTL

=============================================================================
