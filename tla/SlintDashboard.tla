--------------------------- MODULE SlintDashboard ---------------------------
(***************************************************************************)
(* The Slint dashboard, adguard-dashboard-slint/src/{main,agh,view}.rs: a   *)
(* worker thread fetches statistics and status one after the other and      *)
(* sends the outcome over a channel; a timer callback on the UI thread      *)
(* drains the channel, fills the screen and writes the header.             *)
(*                                                                         *)
(* One tick is the period of the UI timer.  Instants are kept as ages,      *)
(* which saturate past the age at which the header turns stale.            *)
(* ureq, the server and the window system are external.                    *)
(***************************************************************************)
EXTENDS Integers, Sequences

CONSTANTS
    Data,           \* statistics AdGuard Home can have, one value per content
    Protected,      \* the contents under which protection is enabled
    Bare,           \* a JSON document with none of the fields, as {}
    Garbage,        \* not JSON
    Nothing,        \* no document
    TimeoutTicks,   \* cfg.timeout_ms
    RefreshTicks,   \* cfg.refresh_secs
    MaxStall,       \* ticks the event loop may be late with a timer
    Moods           \* the ways the server may behave

ASSUME ContentAssumption ==
    /\ Protected \subseteq Data
    /\ Bare \notin Data
    /\ Garbage \notin Data \cup {Bare}
    /\ Nothing \notin Data \cup {Bare, Garbage}

\* Config::load turns a refresh_secs of 0 into the default.
ASSUME PeriodAssumption ==
    /\ TimeoutTicks \in Nat /\ RefreshTicks \in Nat \ {0} /\ MaxStall \in Nat
    /\ Moods \subseteq {"up", "refusing", "broken", "silent", "down"}

StaleTicks == 3 * RefreshTicks
AgeCap == StaleTicks + MaxStall + 2
Ages == 0..AgeCap

Json == Data \cup {Bare}
Badges == {"unknown", "enabled", "disabled"}

\* What get() returns: a text, Outcome::Credentials or Outcome::Other.
Gets == [got : {"text"}, text : Json \cup {Garbage}]
        \cup [got : {"credentials", "other"}, text : {Nothing}]

\* FetchOutcome, with the Snapshot of an Ok one.
Good == [kind : {"ok"}, numbers : Json, badge : Badges, age : Ages]
Bad == [kind : {"rejected", "failed"}]
Outcomes == Good \cup Bad

ASSUME OutcomeAssumption == Nothing \notin Outcomes

VARIABLES
    worker,     \* fetch_loop: where it is, the ticks it has waited there, what it holds
    channel,    \* outcomes sent and not yet received
    latest,     \* the last snapshot filled in, Nothing before the first
    screen,     \* what the user sees
    open,       \* is the event loop running?
    late,       \* ticks for which the timer callback has been due
    due,        \* is it due?
    server,     \* AdGuard Home: the content it has and how it answers
    sent        \* the last outcome sent (no code reads it)

vars == <<worker, channel, latest, screen, open, late, due, server, sent>>

Worker ==
    [pc : {"stats", "status", "send", "sleep", "returned"},
     waited : 0..(TimeoutTicks + RefreshTicks),
     stats : Json \cup {Nothing}, outcome : Outcomes \cup {Nothing}]

Headers == {"starting", "updated", "stale", "rejected"}

Screen == [numbers : Json \cup {Nothing}, badge : Badges, header : Headers]

Server == [data : Data, mood : Moods]

SlintTypeOK ==
    /\ worker \in Worker
    /\ channel \in Seq(Outcomes)
    /\ latest \in Good \cup {Nothing}
    /\ screen \in Screen
    /\ open \in BOOLEAN /\ due \in BOOLEAN
    /\ late \in 0..MaxStall
    /\ server \in Server
    /\ sent \in Outcomes \cup {Nothing}

Init ==
    /\ worker = [pc |-> "stats", waited |-> 0, stats |-> Nothing, outcome |-> Nothing]
    /\ channel = <<>> /\ latest = Nothing
    /\ screen = [numbers |-> Nothing, badge |-> "unknown", header |-> "starting"]
    /\ open = TRUE /\ late = 0 /\ due = FALSE
    /\ server \in Server
    /\ sent = Nothing

----------------------------------------------------------------------------
(***************************************************************************)
(* The worker thread: agh::fetch is two calls of get(), each with its own   *)
(* timeout; then the outcome is sent, and the worker sleeps.               *)
(***************************************************************************)

Text(doc) == [got |-> "text", text |-> doc]
Refused == [got |-> "credentials", text |-> Nothing]
Other == [got |-> "other", text |-> Nothing]

\* What get() can return now.
Returns ==
    CASE server.mood = "up"       -> {Text(server.data)}
      [] server.mood = "refusing" -> {Refused}
      [] server.mood = "broken"   -> {Other, Text(Garbage), Text(Bare)}
      [] server.mood = "down"     -> {Other}
      [] OTHER                    -> IF worker.waited = TimeoutTicks THEN {Other} ELSE {}

At(pc) == [worker EXCEPT !.pc = pc, !.waited = 0, !.stats = Nothing, !.outcome = Nothing]

Holding(outcome) == [At("send") EXCEPT !.outcome = outcome]

Failure(g) == [kind |-> IF g.got = "credentials" THEN "rejected" ELSE "failed"]

\* Faulty variant: the status is asked for before the statistics are parsed.
AfterStatsUnparsed(g) ==
    IF g.got = "text" THEN [At("status") EXCEPT !.stats = g.text] ELSE Holding(Failure(g))

AfterStats(g) ==
    IF g.text \in Json THEN [At("status") EXCEPT !.stats = g.text] ELSE Holding(Failure(g))

StatsReturns ==
    /\ worker.pc = "stats"
    /\ \E g \in Returns : worker' = AfterStats(g)
    /\ UNCHANGED <<channel, latest, screen, open, late, due, server, sent>>

BadgeOf(g) ==
    IF g.text \notin Data THEN "unknown"
    ELSE IF g.text \in Protected THEN "enabled" ELSE "disabled"

Outcome(stats, g) ==
    IF g = Refused THEN Failure(g)
    ELSE [kind |-> "ok", numbers |-> stats, age |-> 0, badge |-> BadgeOf(g)]

StatusReturns ==
    /\ worker.pc = "status"
    /\ \E g \in Returns : worker' = Holding(Outcome(worker.stats, g))
    /\ UNCHANGED <<channel, latest, screen, open, late, due, server, sent>>

\* Faulty variant: a failed fetch is retried at once.
AfterSendEager(outcome) == IF outcome.kind = "failed" THEN "stats" ELSE "sleep"

\* Faulty variant: the loop ends with the first failure.
AfterSendGivesUp(outcome) == IF outcome.kind = "ok" THEN "sleep" ELSE "returned"

AfterSend(outcome) == "sleep"

\* tx.send fails when the receiver is gone.
Send ==
    /\ worker.pc = "send"
    /\ IF open
       THEN /\ channel' = Append(channel, worker.outcome)
            /\ sent' = worker.outcome
            /\ worker' = At(AfterSend(worker.outcome))
       ELSE worker' = At("returned") /\ UNCHANGED <<channel, sent>>
    /\ UNCHANGED <<latest, screen, open, late, due, server>>

SleepEnds ==
    /\ worker.pc = "sleep" /\ worker.waited = RefreshTicks
    /\ worker' = At("stats")
    /\ UNCHANGED <<channel, latest, screen, open, late, due, server, sent>>

----------------------------------------------------------------------------
(***************************************************************************)
(* The timer callback on the UI thread.                                    *)
(***************************************************************************)

\* Faulty variant: one outcome per tick is taken, the rest is thrown away.
DrainedOldest == IF channel = <<>> THEN Nothing ELSE Head(channel)

\* drain() empties the channel and keeps the newest outcome.
Drained == IF channel = <<>> THEN Nothing ELSE channel[Len(channel)]

\* view::fill
Filled(s) == [numbers |-> s.numbers, badge |-> s.badge, header |-> "updated"]

\* view::set_error
Errored(scr, text) == [scr EXCEPT !.header = text]

\* Faulty variant: the age is written without a look at how old it is.
AgedBlindly(scr, s) == [scr EXCEPT !.header = "updated"]

\* view::set_age
WithAge(scr, s) == [scr EXCEPT !.header = IF s.age > StaleTicks THEN "stale" ELSE "updated"]

Handled(outcome) ==
    IF outcome = Nothing THEN screen
    ELSE CASE outcome.kind = "ok"       -> Filled(outcome)
           [] outcome.kind = "rejected" -> Errored(screen, "rejected")
           [] OTHER                     -> Errored(screen, "stale")

UiTick ==
    /\ open /\ due
    /\ channel' = <<>>
    /\ latest' = IF Drained \in Good THEN Drained ELSE latest
    /\ screen' = IF latest' = Nothing THEN Handled(Drained)
                 ELSE WithAge(Handled(Drained), latest')
    /\ due' = FALSE /\ late' = 0
    /\ UNCHANGED <<worker, open, server, sent>>

\* The window is closed: run() returns and drops the receiver.
Close ==
    /\ open
    /\ open' = FALSE
    /\ channel' = <<>> /\ latest' = Nothing
    /\ due' = FALSE /\ late' = 0
    /\ UNCHANGED <<worker, screen, server, sent>>

----------------------------------------------------------------------------
(***************************************************************************)
(* Time, and the server.  A get() is back by its timeout, and the worker is *)
(* never kept off the processor for a whole tick.                          *)
(***************************************************************************)

Older(o) == IF o \in Good /\ o.age < AgeCap THEN [o EXCEPT !.age = @ + 1] ELSE o

\* How long the worker can be where it is.
Patience ==
    CASE worker.pc \in {"stats", "status"} -> TimeoutTicks
      [] worker.pc = "sleep"               -> RefreshTicks
      [] OTHER                             -> 0

Tick ==
    /\ worker.pc = "returned" \/ worker.waited < Patience
    /\ due => late < MaxStall
    /\ worker' = IF worker.pc = "returned" THEN worker ELSE [worker EXCEPT !.waited = @ + 1]
    /\ channel' = [i \in DOMAIN channel |-> Older(channel[i])]
    /\ latest' = Older(latest)
    /\ due' = open
    /\ late' = IF due THEN late + 1 ELSE 0
    /\ UNCHANGED <<screen, open, server, sent>>

ServerChanges ==
    /\ open
    /\ server' \in Server \ {server}
    /\ UNCHANGED <<worker, channel, latest, screen, open, late, due, sent>>

Next ==
    \/ StatsReturns
    \/ StatusReturns
    \/ Send
    \/ SleepEnds
    \/ UiTick
    \/ Close
    \/ Tick
    \/ ServerChanges

Spec == Init /\ [][Next]_vars

\* Both threads keep running and time passes; the window need never be closed.
Fairness ==
    /\ WF_vars(StatsReturns) /\ WF_vars(StatusReturns) /\ WF_vars(Send)
    /\ WF_vars(SleepEnds) /\ WF_vars(UiTick) /\ WF_vars(Tick)

FairSpec == Spec /\ Fairness

=============================================================================
