----------------------------- MODULE Dashboard -----------------------------
(***************************************************************************)
(* The LVGL dashboard, adguard-dashboard/src/main.c: a main loop that runs  *)
(* two periodic callbacks, poll_cb (drives the client of agh.c and starts   *)
(* the next round) and status_cb (writes the header line), the screen they  *)
(* write, and the signals that end it.                                     *)
(*                                                                         *)
(* One tick is the period of both timers, POLL_PERIOD_MS.  The tick counter *)
(* is the uint32_t of tick_cb: it wraps, at TickMod here.                   *)
(***************************************************************************)
EXTENDS AghClient, FiniteSets

CONSTANTS
    TickMod,        \* the tick counter counts modulo this
    RefreshTicks,   \* cfg.refresh_secs
    MaxStall,       \* ticks a slow frame may hold back a callback that is due
    ServerPrompt,   \* does a server that answers do so within a tick?
    Signals,        \* may SIGINT or SIGTERM arrive?
    SelfChecks      \* the values of args->self_check

ASSUME ClockAssumption ==
    /\ TickMod \in Nat /\ RefreshTicks \in Nat \ {0} /\ MaxStall \in Nat
    /\ RefreshTicks + MaxStall + 1 < TickMod
    /\ ServerPrompt \in BOOLEAN /\ Signals \in BOOLEAN /\ SelfChecks \subseteq BOOLEAN

\* The code's counters are ints that are only ever compared with 0 (failures)
\* and 2 (applied, under --self-check only); they saturate here.
FailuresCap == 3

Timers == {"poll", "status"}
Ticks == 0..(TickMod - 1)

VARIABLES
    now,                    \* lv_tick_get()
    last_ok_tick, last_attempt_tick, failures, unauthorized, applied,
    self_check,             \* args->self_check
    quit_flag,
    pc,                     \* where main is: start, sleep, pass, exited
    todo,                   \* the timers that are due
    turn,                   \* the timers lv_timer_handler has yet to visit in this pass
    late,                   \* ticks for which something has been due
    screen,                 \* what the user sees
    history                 \* the rounds as they really ended (no code reads it)

mainVars == <<last_ok_tick, last_attempt_tick, failures, unauthorized, applied, self_check>>
vars == <<clientVars, mainVars, now, quit_flag, pc, todo, turn, late, screen, history>>

Headers == {"waiting", "unreachable", "rejected", "updated", "stale", "fatal"}

AppliedCap == IF self_check THEN 2 ELSE 0

\* age is the number of seconds in the header, where it has one.
Screen == [header : Headers, age : Ticks, numbers : Json \cup {Nothing},
           badge : {"unknown", "enabled", "disabled"}]

\* last: the last round's result; refused: did a round since the last OK one
\* end in a refusal; age: ticks since the last OK round, TickMod for "at least
\* one wrap ago"; ok: was there an OK round; told: has any reply to a status
\* request said what the protection is?
History == [last : Results \cup {"NONE"}, refused : BOOLEAN, ok : BOOLEAN,
            age : 0..TickMod, told : BOOLEAN]

DashboardTypeOK ==
    /\ TypeOK
    /\ now \in Ticks /\ last_ok_tick \in Ticks /\ last_attempt_tick \in Ticks
    /\ failures \in 0..FailuresCap /\ applied \in 0..AppliedCap
    /\ unauthorized \in BOOLEAN /\ self_check \in BOOLEAN /\ quit_flag \in BOOLEAN
    /\ pc \in {"start", "sleep", "pass", "exited"}
    /\ todo \subseteq Timers /\ turn \subseteq Timers
    /\ late \in 0..MaxStall
    /\ screen \in Screen
    /\ history \in History

----------------------------------------------------------------------------

\* lv_tick_elaps: unsigned subtraction.
Elaps(prev) == (now - prev) % TickMod

\* agh_ui_update, agh_ui_status
Updated(scr, s) ==
    [scr EXCEPT !.numbers = s.numbers,
                !.badge = IF s.protection THEN "enabled" ELSE "disabled"]

Headed(scr, header, age) == [scr EXCEPT !.header = header, !.age = age]

\* agh_ui_fatal
Fatal(scr) == Headed(scr, "fatal", 0)

\* What really happened in a round that ended with res.
Recorded(h, res) ==
    [h EXCEPT !.last = res,
              !.refused = res = "UNAUTHORIZED" \/ (h.refused /\ res # "OK"),
              !.ok = h.ok \/ res = "OK",
              !.age = IF res = "OK" THEN 0 ELSE h.age]

Init ==
    /\ client = Idle /\ snapshot = Blank /\ result = "NONE" /\ server \in Server
    /\ now \in Ticks
    /\ last_ok_tick = 0 /\ last_attempt_tick = 0
    /\ failures = 0 /\ unauthorized = FALSE /\ applied = 0
    /\ self_check \in SelfChecks /\ quit_flag = FALSE
    /\ pc = "start" /\ todo = {} /\ turn = {} /\ late = 0
    /\ screen = [header |-> "waiting", age |-> 0, numbers |-> Nothing, badge |-> "unknown"]
    /\ history = [last |-> "NONE", refused |-> FALSE, ok |-> FALSE, age |-> TickMod, told |-> FALSE]

----------------------------------------------------------------------------
(***************************************************************************)
(* main: the client is created (or the program gives up), the first round   *)
(* is started, and the two timers are created.                             *)
(***************************************************************************)

Start ==
    /\ pc = "start"
    /\ last_attempt_tick' = now
    /\ client' \in Refreshed(client)
    /\ pc' = "sleep"
    /\ UNCHANGED <<snapshot, result, server, now, last_ok_tick, failures, unauthorized,
                   applied, self_check, quit_flag, todo, turn, late, screen, history>>

\* agh_client_create returned NULL.
StartFailed ==
    /\ pc = "start" /\ AllocMayFail
    /\ pc' = "exited"
    /\ screen' = Fatal(screen)
    /\ UNCHANGED <<clientVars, mainVars, now, quit_flag, todo, turn, late, history>>

\* lv_timer_handler runs a timer that is due, once per pass.
Ran(timer) ==
    /\ pc = "pass" /\ timer \in todo \cap turn
    /\ todo' = todo \ {timer}
    /\ turn' = turn \ {timer}
    /\ late' = IF todo' = {} THEN 0 ELSE late

(***************************************************************************)
(* poll_cb: pump; account for the round if it ended; then, if the deadline  *)
(* has passed, note the attempt and refresh - which does nothing when the   *)
(* round is still in flight.                                               *)
(***************************************************************************)

\* Faulty variant: comparing instants instead of differences.
RefreshDueByInstant == now >= last_attempt_tick + RefreshTicks

RefreshDue == Elaps(last_attempt_tick) >= RefreshTicks

\* Faulty variant: the round's end is taken for its success.
AccountTickAlways(res, s) ==
    /\ last_ok_tick' = IF res = "NONE" THEN last_ok_tick ELSE now
    /\ failures' = IF res = "OK" THEN 0
                   ELSE IF res # "NONE" /\ failures < FailuresCap THEN failures + 1 ELSE failures
    /\ unauthorized' = (res = "UNAUTHORIZED" \/ (unauthorized /\ res # "OK"))
    /\ screen' = IF res = "OK" THEN Updated(screen, s) ELSE screen
    /\ UNCHANGED applied

\* Faulty variant: a success does not clear unauthorized, and is not counted.
AccountStuck(res, s) ==
    /\ last_ok_tick' = IF res = "OK" THEN now ELSE last_ok_tick
    /\ failures' = IF res = "OK" THEN 0
                   ELSE IF res # "NONE" /\ failures < FailuresCap THEN failures + 1 ELSE failures
    /\ unauthorized' = (unauthorized \/ res = "UNAUTHORIZED")
    /\ screen' = IF res = "OK" THEN Updated(screen, s) ELSE screen
    /\ UNCHANGED applied

\* Faulty variant: a success after failures clears them, but shows nothing.
AccountUnshown(res, s) ==
    /\ last_ok_tick' = IF res = "OK" THEN now ELSE last_ok_tick
    /\ failures' = IF res = "OK" THEN 0
                   ELSE IF res # "NONE" /\ failures < FailuresCap THEN failures + 1 ELSE failures
    /\ unauthorized' = (res = "UNAUTHORIZED" \/ (unauthorized /\ res # "OK"))
    /\ screen' = IF res = "OK" /\ failures = 0 THEN Updated(screen, s) ELSE screen
    /\ UNCHANGED applied

Account(res, s) ==
    CASE res = "OK" ->
            /\ failures' = 0
            /\ unauthorized' = FALSE
            /\ last_ok_tick' = now
            /\ applied' = IF applied < AppliedCap THEN applied + 1 ELSE applied
            /\ screen' = Updated(screen, s)
      [] res \in {"FAILED", "UNAUTHORIZED"} ->
            /\ failures' = IF failures < FailuresCap THEN failures + 1 ELSE failures
            /\ unauthorized' = (unauthorized \/ res = "UNAUTHORIZED")
            /\ UNCHANGED <<last_ok_tick, applied, screen>>
      [] OTHER ->
            UNCHANGED <<failures, unauthorized, last_ok_tick, applied, screen>>

\* Faulty variant: no retry after a failure.
AttemptedUntilFailure(c) == IF RefreshDue /\ failures = 0 THEN Refreshed(c) ELSE {c}

\* The client after the deadline check, from the client the pump left.
Attempted(c) == IF RefreshDue THEN Refreshed(c) ELSE {c}

PollCb ==
    /\ Ran("poll")
    /\ \E p \in Pumped(client, snapshot, server.mood) :
          /\ snapshot' = p.snapshot
          /\ result' = p.result
          /\ Account(p.result, p.snapshot)
          /\ history' = IF p.result = "NONE" THEN history
                        ELSE [Recorded(history, p.result) EXCEPT
                                 !.told = @ \/ SaysProtection(p.client.request["status"])]
          /\ client' \in Attempted(p.client)
    /\ last_attempt_tick' = IF RefreshDue THEN now ELSE last_attempt_tick
    /\ UNCHANGED <<server, now, self_check, quit_flag, pc>>

(***************************************************************************)
(* status_cb: the header line, or with --self-check the end of the run.     *)
(***************************************************************************)

\* Faulty variant: a difference that does not survive the wrap.
AgeSigned == now - last_ok_tick

Age == Elaps(last_ok_tick)

\* Faulty variant: the header does not look at failures once there is data.
HeaderWithoutFailures ==
    IF unauthorized THEN Headed(screen, "rejected", 0)
    ELSE IF last_ok_tick = 0 THEN Headed(screen, "waiting", 0)
    ELSE Headed(screen, "updated", Age)

Header ==
    IF unauthorized THEN Headed(screen, "rejected", 0)
    ELSE IF last_ok_tick = 0
         THEN Headed(screen, IF failures > 0 THEN "unreachable" ELSE "waiting", 0)
    ELSE Headed(screen, IF failures = 0 THEN "updated" ELSE "stale", Age)

StatusCb ==
    /\ Ran("status")
    /\ IF self_check /\ applied >= 2
       THEN quit_flag' = TRUE /\ UNCHANGED screen
       ELSE screen' = Header /\ UNCHANGED quit_flag
    /\ UNCHANGED <<clientVars, mainVars, now, pc, history>>

(***************************************************************************)
(* The main loop: lv_timer_handler runs what is due, lv_delay_ms sleeps     *)
(* until something is due again (signals do not cut it short), and          *)
(* quit_flag is only looked at in between.                                 *)
(***************************************************************************)

PassEnds ==
    /\ pc = "pass" /\ todo \cap turn = {}
    /\ pc' = "sleep"
    /\ turn' = {}
    /\ UNCHANGED <<clientVars, mainVars, now, quit_flag, todo, late, screen, history>>

\* Faulty variant: the loop waits for the round in flight before it leaves.
WakeAfterRound ==
    /\ pc = "sleep" /\ todo # {}
    /\ IF quit_flag /\ ~client.in_flight
       THEN pc' = "exited" /\ client' = Destroyed(client) /\ UNCHANGED turn
       ELSE pc' = "pass" /\ turn' = Timers /\ UNCHANGED client
    /\ UNCHANGED <<snapshot, result, server, mainVars, now, quit_flag, todo, late, screen,
                   history>>

Wake ==
    /\ pc = "sleep" /\ todo # {}
    /\ IF quit_flag
       THEN pc' = "exited" /\ client' = Destroyed(client) /\ UNCHANGED turn
       ELSE pc' = "pass" /\ turn' = Timers /\ UNCHANGED client
    /\ UNCHANGED <<snapshot, result, server, mainVars, now, quit_flag, todo, late, screen,
                   history>>

OnSignal ==
    /\ Signals /\ pc # "exited" /\ ~quit_flag
    /\ quit_flag' = TRUE
    /\ UNCHANGED <<clientVars, mainVars, now, pc, todo, turn, late, screen, history>>

----------------------------------------------------------------------------
(***************************************************************************)
(* The world: time and the server.                                         *)
(***************************************************************************)

Tick ==
    /\ pc \in {"sleep", "pass"}
    /\ todo # {} => late < MaxStall
    /\ ServerPrompt => \A r \in Requests : ~Owed(r)
    /\ now' = (now + 1) % TickMod
    /\ todo' = Timers
    /\ late' = IF todo = {} THEN 0 ELSE late + 1
    /\ client' = Aged(client)
    /\ history' = [history EXCEPT !.age = IF @ < TickMod THEN @ + 1 ELSE @]
    /\ UNCHANGED <<snapshot, result, server, mainVars, quit_flag, pc, turn, screen>>

ServerAnswers(r) ==
    /\ Answer(r)
    /\ UNCHANGED <<mainVars, now, quit_flag, pc, todo, turn, late, screen, history>>

ServerChanges ==
    /\ pc # "exited"
    /\ ServerChange
    /\ UNCHANGED <<mainVars, now, quit_flag, pc, todo, turn, late, screen, history>>

Exited == pc = "exited" /\ UNCHANGED vars

Next ==
    \/ Start
    \/ StartFailed
    \/ PollCb
    \/ StatusCb
    \/ PassEnds
    \/ Wake
    \/ OnSignal
    \/ Tick
    \/ \E r \in Requests : ServerAnswers(r)
    \/ ServerChanges
    \/ Exited

Spec == Init /\ [][Next]_vars

\* The main thread keeps running, and a server that answers gets round to it.
\* Time passes however often the server changes between being prompt and being
\* silent, hence strongly.  Nothing is assumed of the signals or of what the
\* server does.
Fairness ==
    /\ WF_vars(Start) /\ WF_vars(PollCb) /\ WF_vars(StatusCb)
    /\ WF_vars(PassEnds) /\ WF_vars(Wake) /\ SF_vars(Tick)
    /\ \A r \in Requests : WF_vars(ServerAnswers(r))

FairSpec == Spec /\ Fairness

============================================================================
