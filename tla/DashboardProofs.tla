-------------------------- MODULE DashboardProofs --------------------------
(***************************************************************************)
(* Proofs, for every set of contents, period, modulus of the clock, stall   *)
(* and behaviour of the server, of the safety of main.c: types, the screen  *)
(* that keeps the last good numbers, the attempt that is never late, and    *)
(* how far the header may lag.                                             *)
(***************************************************************************)
EXTENDS DashboardProps, AghClientProofs

----------------------------------------------------------------------------
(***************************************************************************)
(* The clock.                                                              *)
(***************************************************************************)

\* The tick counter wraps within its range (tick_cb, main.c:54-59), a difference
\* is a number of ticks, 0 to oneself, and a tick makes it one larger as long as
\* that does not wrap.
LEMMA Clock ==
    ASSUME NEW n \in Ticks, NEW p \in Ticks
    PROVE  /\ (n + 1) % TickMod \in Ticks
           /\ (n - p) % TickMod \in Ticks
           /\ (n - n) % TickMod = 0
           /\ ((n - p) % TickMod) + 1 < TickMod =>
                 (((n + 1) % TickMod) - p) % TickMod = ((n - p) % TickMod) + 1
<1>1. TickMod \in Nat \ {0}
    BY ClockAssumption
<1>2. n \in 0..(TickMod - 1) /\ p \in 0..(TickMod - 1)
    BY DEF Ticks
<1>3. (n + 1) % TickMod \in Ticks /\ (n - p) % TickMod \in Ticks
    BY <1>1, <1>2, SMT DEF Ticks
<1>4. (n - n) % TickMod = 0
    BY <1>1, <1>2, SMT
<1>5. ((n - p) % TickMod) + 1 < TickMod =>
          (((n + 1) % TickMod) - p) % TickMod = ((n - p) % TickMod) + 1
    BY <1>1, <1>2, SMT
<1> QED
    BY <1>3, <1>4, <1>5

----------------------------------------------------------------------------
(***************************************************************************)
(* The client inside the callbacks: Inv of AghClientProofs, stated of a     *)
(* value, since poll_cb pumps and refreshes in one step.                   *)
(***************************************************************************)

Steady(c) ==
    /\ c \in Client
    /\ c.in_flight => Sound(c)
    /\ ~c.in_flight => c.elapsed = 0 /\ \A r \in Requests : c.request[r].phase = "out"

\* The two ways to say that the client is as it should be.
LEMMA SteadyClient == Inv <=> TypeOK /\ Steady(client)
<1>1. ASSUME TypeOK PROVE RoundConsistent <=> Steady(client)
    <2>1. client \in Client /\ \A r \in Requests : client.request[r] \in Request
        BY <1>1 DEF TypeOK, Client
    <2> QED
        BY <2>1 DEF RoundConsistent, Steady, Sound, Good
<1> QED
    BY <1>1 DEF Inv

\* agh_client_refresh (agh.c:287-300) keeps any client as it should be.
LEMMA RefreshSteady ==
    ASSUME NEW c, Steady(c), NEW d \in Refreshed(c)
    PROVE  Steady(d)
<1>1. CASE c.in_flight
    <2>1. d = c
        BY <1>1 DEF Refreshed
    <2> QED
        BY <2>1
<1>2. CASE ~c.in_flight
    <2>1. Sound(d)
        BY <1>2, RefreshSound DEF Steady
    <2> QED
        BY <2>1 DEF Steady, Sound
<1> QED
    BY <1>1, <1>2

\* agh_client_pump (agh.c:302-373) does too; it changes the numbers of the
\* snapshot exactly when it reports AGH_FETCH_OK, and then to those the server
\* sent to this round's stats request.
LEMMA PumpSteady ==
    ASSUME NEW c, Steady(c), NEW s \in Snapshot, NEW mood, NEW p \in Pumped(c, s, mood)
    PROVE  /\ Steady(p.client)
           /\ p.snapshot \in Snapshot
           /\ p.result \in Results \cup {"NONE"}
           /\ p.result = "OK" => /\ c.request["stats"].reply \in [http : {200}, doc : Json]
                                 /\ p.snapshot.numbers = c.request["stats"].reply.doc
           /\ p.result # "OK" => p.snapshot.numbers = s.numbers
<1>1. CASE ~c.in_flight
    <2>1. p.client = c /\ p.snapshot = s /\ p.result = "NONE"
        BY <1>1 DEF Pumped
    <2> QED
        BY <2>1
<1>2. CASE c.in_flight
    <2>1. PICK d \in Performed(c, mood) : p = PumpReturn(d, s)
        BY <1>2 DEF Pumped
    <2>2. Sound(d)
        BY <1>2, <2>1, PerformSound DEF Steady
    <2>3. CASE BothDone(d)
        <3>1. p.client = Closed(d) /\ p.snapshot = SnapshotAfter(d, s) /\ p.result = FetchResult(d)
            BY <2>1, <2>3 DEF PumpReturn
        <3>2. Steady(p.client)
            BY <2>2, <3>1, ClosedOut DEF Steady
        <3>3. p.snapshot \in Snapshot /\ p.result \in Results
            BY <2>2, <2>3, <3>1, ProtectionMeaning, ResultMeaning
        <3>4. p.snapshot.numbers =
                 IF p.result = "OK" THEN d.request["stats"].reply.doc ELSE s.numbers
            BY <2>2, <2>3, <3>1, ProtectionMeaning
        <3>5. p.result = "OK" => d.request["stats"].reply \in [http : {200}, doc : Json]
            <4>1. FetchResult(d) = "OK" =>
                     d.request["stats"].reply \in [http : {200}, doc : Json]
                BY <2>2, <2>3, ResultMeaning
            <4> QED
                BY <3>1, <4>1, Zenon
        <3>6. d.request["stats"].reply = c.request["stats"].reply
            BY <1>2, <2>1, PerformSound DEF Steady, Requests
        <3> QED
            BY <3>2, <3>3, <3>4, <3>5, <3>6
    <2>4. CASE ~BothDone(d)
        <3>1. p.client = d /\ p.snapshot = s /\ p.result = "NONE"
            BY <2>1, <2>4 DEF PumpReturn
        <3> QED
            BY <2>2, <3>1 DEF Steady, Sound
    <2> QED
        BY <2>3, <2>4
<1> QED
    BY <1>1, <1>2

----------------------------------------------------------------------------
(***************************************************************************)
(* The inductive invariant.  What the header and the screen say follows     *)
(* from how the program's counters stand to the rounds as they ended        *)
(* (Accounts), how late an attempt is from the order of tick and poll_cb    *)
(* (Deadline), and how far the header lags from the order of the two        *)
(* callbacks within a pass (Muted).                                        *)
(***************************************************************************)

\* lv_timer_handler visits timers in a pass only.
PassOrder == turn # {} => pc = "pass"

\* The counters of main.c:39-42 and the rounds as they really ended.
Accounts ==
    /\ unauthorized = history.refused
    /\ failures = 0 <=> history.last \in {"NONE", "OK"}
    /\ history.last = "UNAUTHORIZED" => history.refused
    /\ history.ok => history.last # "NONE"
    /\ last_ok_tick # 0 => history.ok

\* Before poll_cb the last attempt is as late as the frame, after it never due.
Deadline ==
    pc \in {"sleep", "pass"} =>
        /\ "poll" \in todo => Elaps(last_attempt_tick) <= RefreshTicks + late
        /\ "poll" \notin todo => Elaps(last_attempt_tick) < RefreshTicks

\* What a muted header can hide: no bad round while poll_cb has yet to run after
\* the status_cb that wrote it, then one, and a second only in a pass in which
\* status_cb comes next.  (The status_cb that ends --self-check writes none.)
Muted ==
    ~self_check /\ screen.header \in {"updated", "waiting"} =>
        /\ failures <= 2
        /\ failures >= 1 /\ "poll" \in turn => "status" \in turn
        /\ failures = 2 => "status" \in todo \cap turn /\ "poll" \notin turn
        /\ "status" \notin todo => failures <= 1 /\ ("poll" \in todo => failures = 0)

\* The part that is about main.c, and the whole.
Main == PassOrder /\ Accounts /\ Deadline /\ Muted

MainInv == DashboardTypeOK /\ RoundConsistent /\ ScreenKeepsLastGood /\ Main

----------------------------------------------------------------------------
(***************************************************************************)
(* The invariant, action by action.                                        *)
(***************************************************************************)

\* What every proof below begins with.
LEMMA Facts ==
    ASSUME MainInv
    PROVE  /\ Inv
           /\ now \in Ticks /\ last_attempt_tick \in Ticks /\ last_ok_tick \in Ticks
           /\ failures \in 0..FailuresCap /\ failures \in Nat /\ late \in Nat
           /\ todo \subseteq Timers /\ turn \subseteq Timers
           /\ screen \in Screen /\ history \in History
           /\ 0 \in Ticks /\ TickMod \in Nat
BY ClockAssumption DEF MainInv, Inv, DashboardTypeOK, Ticks, FailuresCap

\* A header line leaves the numbers and the badge alone (main.c:122-154).
LEMMA HeadedScreen ==
    ASSUME NEW scr \in Screen, NEW header \in Headers, NEW age \in Ticks
    PROVE  /\ Headed(scr, header, age) \in Screen
           /\ Headed(scr, header, age).header = header
           /\ Headed(scr, header, age).numbers = scr.numbers
           /\ Headed(scr, header, age).badge = scr.badge
<1>1. Headed(scr, header, age) \in Screen
    BY Zenon DEF Headed, Screen
<1> QED
    BY <1>1 DEF Headed, Screen

\* agh_ui_update puts the numbers of the snapshot on the screen, and nothing
\* else but the badge (ui.c:408-458).
LEMMA UpdatedScreen ==
    ASSUME NEW scr \in Screen, NEW s \in Snapshot
    PROVE  /\ Updated(scr, s) \in Screen
           /\ Updated(scr, s).header = scr.header
           /\ Updated(scr, s).numbers = s.numbers
           /\ Updated(scr, s).badge # "unknown"
<1> DEFINE badge == IF s.protection THEN "enabled" ELSE "disabled"
<1>1. s.numbers \in Json \cup {Nothing} /\ badge \in {"unknown", "enabled", "disabled"}
    BY DEF Snapshot
<1>2. Updated(scr, s) = [scr EXCEPT !.numbers = s.numbers, !.badge = badge]
    BY DEF Updated
<1>3. badge # "unknown"
    OBVIOUS
<1> HIDE DEF badge
<1>4. Updated(scr, s) \in Screen
    BY <1>1, <1>2, Zenon DEF Screen
<1> QED
    BY <1>2, <1>3, <1>4 DEF Screen

\* The round as it really ended.
LEMMA RecordedHistory ==
    ASSUME NEW h \in History, NEW res \in Results, NEW told \in BOOLEAN
    PROVE  /\ [Recorded(h, res) EXCEPT !.told = told] \in History
           /\ [Recorded(h, res) EXCEPT !.told = told].last = res
           /\ [Recorded(h, res) EXCEPT !.told = told].refused =
                 (res = "UNAUTHORIZED" \/ (h.refused /\ res # "OK"))
           /\ [Recorded(h, res) EXCEPT !.told = told].ok = (h.ok \/ res = "OK")
<1> DEFINE refused == res = "UNAUTHORIZED" \/ (h.refused /\ res # "OK")
           ok == h.ok \/ res = "OK"
           age == IF res = "OK" THEN 0 ELSE h.age
<1>1. refused \in BOOLEAN /\ ok \in BOOLEAN /\ res \in Results \cup {"NONE"}
    OBVIOUS
<1>2. age \in 0..TickMod
    BY ClockAssumption DEF History
<1>3. Recorded(h, res) =
         [h EXCEPT !.last = res, !.refused = refused, !.ok = ok, !.age = age]
    BY Zenon DEF Recorded
<1> HIDE DEF refused, ok, age
<1>4. Recorded(h, res) \in History
    BY <1>1, <1>2, <1>3, Zenon DEF History
<1>5. Recorded(h, res).last = res /\ Recorded(h, res).refused = refused
      /\ Recorded(h, res).ok = ok
    BY <1>3, Zenon DEF History
<1> DEFINE g == Recorded(h, res)
<1>6. g \in History /\ g.last = res /\ g.refused = refused /\ g.ok = ok
    BY <1>4, <1>5
<1> HIDE DEF g
<1>7. [g EXCEPT !.told = told] \in History
    BY <1>6, Zenon DEF History
<1>8. /\ [g EXCEPT !.told = told].last = res
      /\ [g EXCEPT !.told = told].refused = refused
      /\ [g EXCEPT !.told = told].ok = ok
    BY <1>6, Zenon DEF History
<1> QED
    BY <1>7, <1>8 DEF g, refused, ok

\* Nothing about the client changes when none of its variables does.
LEMMA ClientRests == Inv /\ UNCHANGED clientVars => Inv'
BY DEF Inv, TypeOK, RoundConsistent, clientVars

\* main begins with an empty screen, no attempt and no success (main.c:209-210).
LEMMA InitMain == Init => MainInv
<1> SUFFICES ASSUME Init PROVE MainInv
    OBVIOUS
<1>1. Inv
    BY InitInv DEF Init, ClientInit
<1>2. 0 \in Ticks /\ TickMod \in 0..TickMod /\ 0 \in 0..FailuresCap /\ 0 \in 0..AppliedCap
      /\ 0 \in 0..MaxStall
    BY ClockAssumption DEF Ticks, FailuresCap, AppliedCap
<1>3. screen \in Screen
    BY <1>2 DEF Init, Screen, Headers
<1>4. history \in History
    BY <1>2 DEF Init, History
<1>5. DashboardTypeOK
    BY <1>1, <1>2, <1>3, <1>4, ClockAssumption DEF AppliedCap, Init, DashboardTypeOK, Inv
<1>6. ScreenKeepsLastGood
    BY DEF Init, ScreenKeepsLastGood, Blank
<1>7. PassOrder /\ Deadline /\ Muted
    BY DEF Init, PassOrder, Deadline, Muted
<1>8. Accounts
    BY Zenon DEF Init, Accounts
<1> QED
    BY <1>1, <1>5, <1>6, <1>7, <1>8 DEF MainInv, Main, Inv

\* The first attempt is noted as the first round is started (main.c:220-221).
LEMMA StartMain == MainInv /\ Start => MainInv'
<1> SUFFICES ASSUME MainInv, Start PROVE MainInv'
    OBVIOUS
<1>1. Inv'
    BY Facts, RefreshInv DEF Start, Refresh
<1>2. DashboardTypeOK'
    BY <1>1, Facts DEF AppliedCap, MainInv, DashboardTypeOK, Start, Inv
<1>3. ScreenKeepsLastGood'
    BY DEF MainInv, ScreenKeepsLastGood, Start
<1>4. PassOrder' /\ Accounts' /\ Muted'
    BY DEF MainInv, Main, PassOrder, Accounts, Muted, Start
<1>5. Deadline'
    <2>1. Elaps(last_attempt_tick)' = 0
        BY Facts, Clock DEF Elaps, Start
    <2>2. late' \in Nat
        BY Facts DEF Start
    <2> QED
        BY <2>1, <2>2, ClockAssumption DEF Deadline, Elaps
<1> QED
    BY <1>1, <1>2, <1>3, <1>4, <1>5 DEF MainInv, Main, Inv

\* A program that gives up (main.c:212-218) has only written the header.
LEMMA StartFailedMain == MainInv /\ StartFailed => MainInv'
<1> SUFFICES ASSUME MainInv, StartFailed PROVE MainInv'
    OBVIOUS
<1>1. Inv'
    BY Facts, ClientRests DEF StartFailed
<1>2. screen' \in Screen /\ screen'.header = "fatal"
      /\ screen'.numbers = screen.numbers /\ screen'.badge = screen.badge
    BY Facts DEF StartFailed, Fatal, Headed, Screen, Headers
<1>3. DashboardTypeOK'
    BY <1>1, <1>2, Facts DEF AppliedCap, MainInv, DashboardTypeOK, StartFailed, Inv, mainVars
<1>4. ScreenKeepsLastGood'
    BY <1>2 DEF MainInv, ScreenKeepsLastGood, StartFailed, clientVars
<1>5. Main'
    BY <1>2 DEF MainInv, Main, PassOrder, Accounts, Deadline, Muted, StartFailed, mainVars
<1> QED
    BY <1>1, <1>3, <1>4, <1>5 DEF MainInv, Inv

\* The header is written from counters that stand for the rounds as they ended
\* (main.c:122-154), muted only after the last one ended well or before any did.
LEMMA StatusCbMain == MainInv /\ StatusCb => MainInv'
<1> SUFFICES ASSUME MainInv, StatusCb PROVE MainInv'
    OBVIOUS
<1>1. Inv'
    BY Facts, ClientRests DEF StatusCb
<1>2. Age \in Ticks
    BY Facts, Clock DEF Age, Elaps
<1>3. /\ screen' \in Screen /\ screen'.numbers = screen.numbers /\ screen'.badge = screen.badge
      /\ \/ screen' = screen /\ self_check
         \/ screen'.header \in {"updated", "waiting"} => failures = 0
    <2>1. CASE self_check /\ screen' = screen
        BY <2>1, Facts
    <2>2. CASE screen' = Header
        <3>1. PICK header \in Headers, age \in Ticks :
                 /\ Header = Headed(screen, header, age)
                 /\ header \in {"updated", "waiting"} => failures = 0
            BY <1>2, Facts DEF Header, Headers
        <3> QED
            BY <2>2, <3>1, Facts, HeadedScreen
    <2> QED
        BY <2>1, <2>2 DEF StatusCb
<1>4. /\ UNCHANGED <<snapshot, history, now, last_ok_tick, last_attempt_tick, failures,
                     unauthorized, applied, self_check, pc>>
      /\ pc = "pass" /\ todo' = todo \ {"status"} /\ turn' = turn \ {"status"}
      /\ late' = IF todo' = {} THEN 0 ELSE late
    BY DEF StatusCb, Ran, clientVars, mainVars
<1>5. DashboardTypeOK'
    <2>1. quit_flag' \in BOOLEAN
        BY DEF StatusCb, MainInv, DashboardTypeOK
    <2>2. late' \in 0..MaxStall
        BY <1>4, ClockAssumption DEF MainInv, DashboardTypeOK
    <2> QED
        BY <1>1, <1>3, <1>4, <2>1, <2>2 DEF AppliedCap, MainInv, DashboardTypeOK, Inv
<1>6. ScreenKeepsLastGood'
    BY <1>3, <1>4 DEF MainInv, ScreenKeepsLastGood
<1>7. PassOrder' /\ Accounts'
    BY <1>4 DEF MainInv, Main, PassOrder, Accounts
<1>8. Deadline'
    <2>1. Elaps(last_attempt_tick)' = Elaps(last_attempt_tick)
        BY <1>4 DEF Elaps
    <2> QED
        BY <1>4, <2>1 DEF MainInv, Main, Deadline
<1>9. Muted'
    <2>1. CASE self_check
        BY <1>4, <2>1 DEF Muted
    <2>2. CASE ~self_check
        BY <1>3, <1>4, <2>2 DEF Muted
    <2> QED
        BY <2>1, <2>2
<1> QED
    BY <1>1, <1>5, <1>6, <1>7, <1>8, <1>9 DEF MainInv, Main, Inv

\* A pass ends when nothing due is left to visit (main.c:226-228).
LEMMA PassEndsMain == MainInv /\ PassEnds => MainInv'
<1> SUFFICES ASSUME MainInv, PassEnds PROVE MainInv'
    OBVIOUS
<1>1. Inv'
    BY Facts, ClientRests DEF PassEnds
<1>2. DashboardTypeOK'
    BY <1>1 DEF AppliedCap, MainInv, DashboardTypeOK, PassEnds, Inv, mainVars
<1>3. ScreenKeepsLastGood'
    BY DEF MainInv, ScreenKeepsLastGood, PassEnds, clientVars
<1>4. PassOrder' /\ Accounts'
    BY DEF MainInv, Main, PassOrder, Accounts, PassEnds, mainVars
<1>5. Deadline'
    BY DEF MainInv, Main, Deadline, Elaps, PassEnds, mainVars
<1>6. Muted'
    BY DEF MainInv, Main, Muted, PassEnds, mainVars
<1> QED
    BY <1>1, <1>2, <1>3, <1>4, <1>5, <1>6 DEF MainInv, Main, Inv

\* The loop begins a pass with both timers to visit, or leaves with the client
\* destroyed whatever was in flight (main.c:226-235).
LEMMA WakeMain == MainInv /\ Wake => MainInv'
<1> SUFFICES ASSUME MainInv, Wake PROVE MainInv'
    OBVIOUS
<1>1. Inv'
    <2>1. CASE client' = client
        BY <2>1, Facts, ClientRests DEF Wake, clientVars
    <2>2. CASE client' = Idle
        <3>1. Idle \in Client /\ ~Idle.in_flight /\ Idle.elapsed = 0
              /\ \A r \in Requests : Idle.request[r].phase = "out"
            BY IdleClient
        <3> QED
            BY <2>2, <3>1, Facts DEF Wake, Inv, TypeOK, RoundConsistent
    <2> QED
        BY <2>1, <2>2 DEF Wake, Destroyed
<1>2. /\ UNCHANGED <<snapshot, history, now, last_ok_tick, last_attempt_tick, failures,
                     unauthorized, applied, self_check, quit_flag, todo, late, screen>>
      /\ pc = "sleep"
      /\ \/ pc' = "exited" /\ turn' = turn
         \/ pc' = "pass" /\ turn' = Timers
    BY DEF Wake, mainVars
<1>3. DashboardTypeOK'
    BY <1>1, <1>2 DEF AppliedCap, MainInv, DashboardTypeOK, Inv
<1>4. ScreenKeepsLastGood'
    BY <1>2 DEF MainInv, ScreenKeepsLastGood
<1>5. turn = {}
    BY <1>2 DEF MainInv, Main, PassOrder
<1>6. PassOrder' /\ Accounts'
    BY <1>2, <1>5 DEF MainInv, Main, PassOrder, Accounts
<1>7. Deadline'
    BY <1>2 DEF MainInv, Main, Deadline, Elaps
<1>8. Muted'
    BY <1>2, <1>5 DEF MainInv, Main, Muted, Timers
<1> QED
    BY <1>1, <1>3, <1>4, <1>6, <1>7, <1>8 DEF MainInv, Main, Inv

\* A signal only sets the flag (main.c:48-52).
LEMMA OnSignalMain == MainInv /\ OnSignal => MainInv'
<1> SUFFICES ASSUME MainInv, OnSignal PROVE MainInv'
    OBVIOUS
<1>1. Inv'
    BY Facts, ClientRests DEF OnSignal
<1>2. DashboardTypeOK'
    BY <1>1 DEF AppliedCap, MainInv, DashboardTypeOK, OnSignal, Inv, mainVars
<1>3. ScreenKeepsLastGood'
    BY DEF MainInv, ScreenKeepsLastGood, OnSignal, clientVars
<1>4. Main'
    BY DEF MainInv, Main, PassOrder, Accounts, Deadline, Muted, Elaps, OnSignal, mainVars
<1> QED
    BY <1>1, <1>2, <1>3, <1>4 DEF MainInv, Inv

\* What the server does between two callbacks reaches main.c through the client
\* only.
LEMMA WorldMain ==
    MainInv /\ (ServerChanges \/ \E r \in Requests : ServerAnswers(r)) => MainInv'
<1> SUFFICES ASSUME MainInv, ServerChanges \/ \E r \in Requests : ServerAnswers(r)
             PROVE  MainInv'
    OBVIOUS
<1>1. Inv'
    BY Facts, ServerChangeInv, AnswerInv DEF ServerChanges, ServerAnswers
<1>2. UNCHANGED <<snapshot, mainVars, now, quit_flag, pc, todo, turn, late, screen, history>>
    BY DEF ServerChanges, ServerChange, ServerAnswers, Answer
<1>3. DashboardTypeOK'
    BY <1>1, <1>2 DEF AppliedCap, MainInv, DashboardTypeOK, Inv, mainVars
<1>4. ScreenKeepsLastGood'
    BY <1>2 DEF MainInv, ScreenKeepsLastGood
<1>5. Main'
    BY <1>2 DEF MainInv, Main, PassOrder, Accounts, Deadline, Muted, Elaps, mainVars
<1> QED
    BY <1>1, <1>3, <1>4, <1>5 DEF MainInv, Inv

\* A tick makes the last attempt one tick older, without a wrap, and both
\* callbacks due (main.c:54-59, 223-224).
LEMMA TickMain == MainInv /\ Tick => MainInv'
<1> SUFFICES ASSUME MainInv, Tick PROVE MainInv'
    OBVIOUS
<1>1. Inv'
    BY Facts, ClientTickInv DEF Tick, ClientTick
<1>2. /\ UNCHANGED <<snapshot, last_ok_tick, last_attempt_tick, failures, unauthorized,
                     applied, self_check, quit_flag, pc, turn, screen>>
      /\ pc \in {"sleep", "pass"} /\ todo' = Timers
      /\ now' = (now + 1) % TickMod
      /\ todo # {} => late < MaxStall
      /\ late' = IF todo = {} THEN 0 ELSE late + 1
    BY DEF Tick, mainVars
<1>3. late' \in 0..MaxStall /\ now' \in Ticks
    BY <1>2, Facts, Clock, ClockAssumption DEF MainInv, DashboardTypeOK
<1>4. /\ history' \in History
      /\ history'.last = history.last /\ history'.refused = history.refused
      /\ history'.ok = history.ok
    <2> DEFINE age == IF history.age < TickMod THEN history.age + 1 ELSE history.age
    <2>1. age \in 0..TickMod
        BY Facts, ClockAssumption DEF History
    <2>2. history' = [history EXCEPT !.age = age]
        BY DEF Tick
    <2>3. history' \in History
        BY <2>1, <2>2, Facts, Zenon DEF History
    <2> QED
        BY <2>2, <2>3, Facts, Zenon DEF History
<1>5. DashboardTypeOK'
    BY <1>1, <1>2, <1>3, <1>4 DEF AppliedCap, MainInv, DashboardTypeOK, Inv
<1>6. ScreenKeepsLastGood'
    BY <1>2, <1>4, Zenon DEF MainInv, ScreenKeepsLastGood
<1>7. PassOrder' /\ Accounts'
    BY <1>2, <1>4, Zenon DEF MainInv, Main, PassOrder, Accounts
<1>8. Deadline'
    <2> DEFINE e == (now - last_attempt_tick) % TickMod
    <2>1. /\ "poll" \in todo => e <= RefreshTicks + late
          /\ "poll" \notin todo => e < RefreshTicks
        BY <1>2 DEF MainInv, Main, Deadline, Elaps
    <2>2. e \in Nat
        <3>1. e \in Ticks
            BY Facts, Clock
        <3> QED
            BY <3>1 DEF Ticks
    <2>3. e <= RefreshTicks + late /\ e + 1 < TickMod /\ e + 1 <= RefreshTicks + late'
        <3>1. /\ RefreshTicks \in Nat /\ MaxStall \in Nat /\ TickMod \in Nat
              /\ RefreshTicks + MaxStall + 1 < TickMod
            BY ClockAssumption
        <3>2. CASE todo = {}
            BY <1>2, <2>1, <2>2, <3>1, <3>2, Facts
        <3>3. CASE todo # {}
            BY <1>2, <2>1, <2>2, <3>1, <3>3, Facts
        <3> QED
            BY <3>2, <3>3
    <2>4. (now' - last_attempt_tick') % TickMod = e + 1
        BY <1>2, <2>3, Facts, Clock
    <2> QED
        BY <1>2, <2>3, <2>4 DEF Deadline, Elaps, Timers
<1>9. Muted'
    BY <1>2, Facts DEF MainInv, Main, Muted, Timers
<1> QED
    BY <1>1, <1>5, <1>6, <1>7, <1>8, <1>9 DEF MainInv, Main, Inv

\* What poll_cb (main.c:91-120) does to everything but the client: a round that
\* ended is counted for what it was, and the last attempt is no longer due.
LEMMA PollCbEffect ==
    ASSUME MainInv, PollCb
    PROVE  /\ Steady(client') /\ snapshot' \in Snapshot /\ result' \in Results \cup {"NONE"}
           /\ screen' \in Screen /\ screen'.header = screen.header
           /\ history' \in History
           /\ failures' \in 0..FailuresCap /\ failures' <= failures + 1
           /\ applied' \in 0..AppliedCap /\ unauthorized' \in BOOLEAN
           /\ last_ok_tick' \in Ticks
           /\ ScreenKeepsLastGood' /\ Accounts'
           /\ result' = "OK" => /\ client.request["stats"].reply # Nothing
                                /\ screen'.numbers = client.request["stats"].reply.doc
           /\ result' # "OK" => screen'.numbers = screen.numbers
<1>1. PICK p \in Pumped(client, snapshot, server.mood) :
         /\ snapshot' = p.snapshot
         /\ result' = p.result
         /\ Account(p.result, p.snapshot)
         /\ history' = IF p.result = "NONE" THEN history
                       ELSE [Recorded(history, p.result) EXCEPT
                                !.told = @ \/ SaysProtection(p.client.request["status"])]
         /\ client' \in Attempted(p.client)
    BY DEF PollCb
<1>2. Steady(client) /\ snapshot \in Snapshot
    BY Facts, SteadyClient DEF Inv, TypeOK
<1>3. /\ Steady(p.client)
      /\ snapshot' \in Snapshot
      /\ result' \in Results \cup {"NONE"}
      /\ result' = "OK" => /\ client.request["stats"].reply \in [http : {200}, doc : Json]
                           /\ snapshot'.numbers = client.request["stats"].reply.doc
      /\ result' # "OK" => snapshot'.numbers = snapshot.numbers
    BY <1>1, <1>2, PumpSteady
<1>4. Steady(client')
    BY <1>1, <1>3, RefreshSteady DEF Attempted
<1>5. ASSUME result' # "NONE"
      PROVE  /\ history' \in History /\ history'.last = result'
             /\ history'.refused = (result' = "UNAUTHORIZED" \/ (history.refused /\ result' # "OK"))
             /\ history'.ok = (history.ok \/ result' = "OK")
    <2> DEFINE told == Recorded(history, result').told
                          \/ SaysProtection(p.client.request["status"])
               recorded == [Recorded(history, result') EXCEPT !.told = told]
    <2>1. told \in BOOLEAN
        OBVIOUS
    <2>2. history' = recorded
        BY <1>1, <1>5, Zenon
    <2>3. result' \in Results /\ history \in History
        BY <1>3, <1>5, Facts
    <2> HIDE DEF told
    <2>4. /\ recorded \in History /\ recorded.last = result'
          /\ recorded.refused = (result' = "UNAUTHORIZED" \/ (history.refused /\ result' # "OK"))
          /\ recorded.ok = (history.ok \/ result' = "OK")
        BY <2>1, <2>3, RecordedHistory
    <2> HIDE DEF recorded
    <2> QED
        BY <2>2, <2>4, Zenon
<1>6. CASE result' = "NONE"
    <2>1. UNCHANGED <<failures, unauthorized, last_ok_tick, applied, screen, history>>
        BY <1>1, <1>6 DEF Account
    <2>2. ScreenKeepsLastGood' /\ Accounts'
        BY <1>3, <1>6, <2>1 DEF MainInv, Main, ScreenKeepsLastGood, Accounts
    <2> QED
        BY <1>3, <1>4, <1>6, <2>1, <2>2, Facts DEF MainInv, DashboardTypeOK
<1>7. CASE result' = "OK"
    <2>1. /\ failures' = 0 /\ unauthorized' = FALSE /\ last_ok_tick' = now
          /\ applied' = IF applied < AppliedCap THEN applied + 1 ELSE applied
          /\ screen' = Updated(screen, snapshot')
        BY <1>1, <1>7 DEF Account
    <2>2. /\ screen' \in Screen /\ screen'.header = screen.header
          /\ screen'.numbers = snapshot'.numbers /\ screen'.badge # "unknown"
        BY <1>3, <2>1, Facts, UpdatedScreen
    <2>3. history' \in History /\ history'.last = "OK" /\ ~history'.refused /\ history'.ok
        BY <1>5, <1>7
    <2>4. snapshot'.numbers \in Json /\ client.request["stats"].reply \in Replies
        BY <1>3, <1>7 DEF Replies, Codes, Documents
    <2>9. snapshot'.numbers # Nothing /\ client.request["stats"].reply # Nothing
        BY <2>4, DocumentAssumption, NothingAssumption DEF Json
    <2>5. ScreenKeepsLastGood'
        BY <2>2, <2>3, <2>9, Zenon DEF ScreenKeepsLastGood
    <2>6. history'.refused = FALSE
        BY <1>5, <1>7
    <2>7. Accounts'
        BY <2>1, <2>3, <2>6, Zenon DEF Accounts
    <2>8. failures' \in 0..FailuresCap /\ failures' <= failures + 1 /\ applied' \in 0..AppliedCap
        BY <2>1, Facts DEF MainInv, DashboardTypeOK, AppliedCap, FailuresCap
    <2> QED
        BY <1>3, <1>4, <1>7, <2>1, <2>2, <2>3, <2>5, <2>7, <2>8, <2>9, Facts
<1>8. CASE result' \in {"FAILED", "UNAUTHORIZED"}
    <2>1. /\ failures' = IF failures < FailuresCap THEN failures + 1 ELSE failures
          /\ unauthorized' = (unauthorized \/ result' = "UNAUTHORIZED")
          /\ UNCHANGED <<last_ok_tick, applied, screen>>
        BY <1>1, <1>8 DEF Account
    <2>2. /\ history' \in History /\ history'.last = result'
          /\ history'.refused = (result' = "UNAUTHORIZED" \/ history.refused)
          /\ history'.ok = history.ok
        <3>1. result' # "NONE" /\ result' # "OK"
            BY <1>8
        <3>2. history.ok \in BOOLEAN
            BY Facts DEF History
        <3> QED
            BY <1>5, <3>1, <3>2, Zenon
    <2>3. failures' \in 0..FailuresCap /\ failures' <= failures + 1 /\ failures' # 0
        BY <2>1, Facts DEF FailuresCap
    <2>4. snapshot'.numbers = snapshot.numbers
        BY <1>3, <1>8
    <2>5. ScreenKeepsLastGood'
        BY <2>1, <2>2, <2>4, Zenon DEF MainInv, ScreenKeepsLastGood
    <2>6. Accounts'
        <3>1. unauthorized' = history'.refused
            BY <2>1, <2>2, Zenon DEF MainInv, Main, Accounts
        <3>2. result' \notin {"NONE", "OK"}
            BY <1>8
        <3>3. last_ok_tick' # 0 => history'.ok
            BY <2>1, <2>2, Zenon DEF MainInv, Main, Accounts
        <3> QED
            BY <2>2, <2>3, <3>1, <3>2, <3>3, Zenon DEF Accounts
    <2>7. applied' \in 0..AppliedCap /\ unauthorized' \in BOOLEAN /\ last_ok_tick' \in Ticks
        BY <2>1, Facts DEF MainInv, DashboardTypeOK
    <2> QED
        BY <1>3, <1>4, <1>8, <2>1, <2>2, <2>3, <2>5, <2>6, <2>7, Facts
<1> QED
    BY <1>3, <1>6, <1>7, <1>8 DEF Results

\* poll_cb keeps the invariant: the deadline it judges is met or met now
\* (main.c:116-119), and the bad round it may add to a muted header is followed
\* by the status_cb that is due.
LEMMA PollCbMain == MainInv /\ PollCb => MainInv'
<1> SUFFICES ASSUME MainInv, PollCb PROVE MainInv'
    OBVIOUS
<1>1. /\ pc = "pass" /\ pc' = "pass" /\ "poll" \in todo /\ "poll" \in turn
      /\ todo' = todo \ {"poll"} /\ turn' = turn \ {"poll"}
      /\ late' = IF todo' = {} THEN 0 ELSE late
      /\ last_attempt_tick' = IF RefreshDue THEN now ELSE last_attempt_tick
      /\ UNCHANGED <<server, now, self_check, quit_flag>>
    BY DEF PollCb, Ran
<1>2. Inv'
    <2>1. Steady(client') /\ client' \in Client
        BY PollCbEffect DEF Steady
    <2>2. TypeOK'
        BY <1>1, <2>1, PollCbEffect, Facts DEF Inv, TypeOK
    <2>3. RoundConsistent'
        BY <2>1 DEF Steady, Sound, Good, RoundConsistent
    <2> QED
        BY <2>2, <2>3 DEF Inv
<1>3. DashboardTypeOK'
    <2>1. last_attempt_tick' \in Ticks
        BY <1>1, Facts
    <2>2. late' \in 0..MaxStall
        BY <1>1, ClockAssumption DEF MainInv, DashboardTypeOK
    <2> QED
        BY <1>1, <1>2, <2>1, <2>2, PollCbEffect DEF AppliedCap, MainInv, DashboardTypeOK, Inv
<1>4. PassOrder'
    BY <1>1 DEF PassOrder
<1>5. Deadline'
    <2>1. CASE RefreshDue
        <3>1. (now' - last_attempt_tick') % TickMod = 0
            BY <1>1, <2>1, Facts, Clock
        <3> QED
            BY <1>1, <3>1, ClockAssumption DEF Deadline, Elaps
    <2>2. CASE ~RefreshDue
        <3>1. now' = now /\ last_attempt_tick' = last_attempt_tick
            BY <1>1, <2>2
        <3>2. (now - last_attempt_tick) % TickMod \in Ticks
            BY Facts, Clock
        <3>3. (now - last_attempt_tick) % TickMod < RefreshTicks
            BY <2>2, <3>2, ClockAssumption DEF RefreshDue, Elaps, Ticks
        <3> QED
            BY <1>1, <3>1, <3>3 DEF Deadline, Elaps
    <2> QED
        BY <2>1, <2>2
<1>6. Muted'
    <2>1. SUFFICES ASSUME ~self_check, screen'.header \in {"updated", "waiting"}
                   PROVE  /\ failures' <= 2
                          /\ failures' = 2 => "status" \in todo' \cap turn'
                          /\ "status" \notin todo' => failures' <= 1
        BY <1>1 DEF Muted
    <2>2. /\ failures \in Nat /\ failures' \in Nat /\ failures' <= failures + 1
        BY Facts, PollCbEffect DEF FailuresCap
    <2>3. /\ failures <= 2 /\ failures # 2
          /\ failures >= 1 => "status" \in turn
          /\ "status" \notin todo => failures = 0
        BY <1>1, <2>1, PollCbEffect DEF MainInv, Main, Muted
    <2> QED
        BY <1>1, <2>2, <2>3
<1> QED
    BY <1>2, <1>3, <1>4, <1>5, <1>6, PollCbEffect DEF MainInv, Main, Inv

----------------------------------------------------------------------------
(***************************************************************************)
(* The theorems.                                                           *)
(***************************************************************************)

\* The invariant is inductive: one case per action of the program.
LEMMA NextMain == MainInv /\ [Next]_vars => MainInv'
<1> SUFFICES ASSUME MainInv, [Next]_vars PROVE MainInv'
    OBVIOUS
<1>1. CASE Start \/ StartFailed
    BY <1>1, StartMain, StartFailedMain
<1>2. CASE PollCb \/ StatusCb
    BY <1>2, PollCbMain, StatusCbMain
<1>3. CASE PassEnds \/ Wake \/ OnSignal
    BY <1>3, PassEndsMain, WakeMain, OnSignalMain
<1>4. CASE Tick
    BY <1>4, TickMain
<1>5. CASE ServerChanges \/ \E r \in Requests : ServerAnswers(r)
    BY <1>5, WorldMain
<1>6. CASE UNCHANGED vars
    <2>1. Inv'
        BY <1>6, Facts, ClientRests DEF vars
    <2>2. DashboardTypeOK' /\ ScreenKeepsLastGood'
        BY <1>6, <2>1 DEF vars, AppliedCap, MainInv, DashboardTypeOK, ScreenKeepsLastGood, Inv,
                          clientVars, mainVars
    <2>3. Main'
        BY <1>6 DEF vars, MainInv, Main, PassOrder, Accounts, Deadline, Muted, Elaps, mainVars
    <2> QED
        BY <2>1, <2>2, <2>3 DEF MainInv, Inv
<1> QED
    BY <1>1, <1>2, <1>3, <1>4, <1>5, <1>6 DEF Next, Exited

\* The invariant above holds in every reachable state of the dashboard.
THEOREM DashboardInvariance == Spec => []MainInv
<1>1. Init => MainInv
    BY InitMain
<1>2. MainInv /\ [Next]_vars => MainInv'
    BY NextMain
<1> QED
    BY <1>1, <1>2, PTL DEF Spec

\* The dashboard keeps its types: no counter, tick or screen ever leaves the
\* values the code handles, for every period, stall and behaviour of the server.
THEOREM DashboardTypeCorrect == Spec => []DashboardTypeOK
<1>1. MainInv => DashboardTypeOK
    BY DEF MainInv
<1> QED
    BY <1>1, DashboardInvariance, PTL

\* main.c:97-114, ui.c:408: the screen shows the numbers the program holds, and
\* holds some from the first good round on: no failure blanks or changes it.
THEOREM LastGoodKept == Spec => []ScreenKeepsLastGood
<1>1. MainInv => ScreenKeepsLastGood
    BY DEF MainInv
<1> QED
    BY <1>1, DashboardInvariance, PTL

\* main.c:116-119: across every wrap of the tick counter, an attempt is never
\* overdue by more than the frame that holds poll_cb back.
THEOREM AttemptsOnTime == Spec => []AttemptOnTime
<1>1. MainInv => AttemptOnTime
    <2> SUFFICES ASSUME MainInv, pc \in {"sleep", "pass"}
                 PROVE  Elaps(last_attempt_tick)
                            <= RefreshTicks + (IF todo = {} THEN 0 ELSE late)
        BY DEF AttemptOnTime
    <2>1. (now - last_attempt_tick) % TickMod \in Ticks
        BY Facts, Clock
    <2>2. Elaps(last_attempt_tick) \in Nat
        BY <2>1 DEF Elaps, Ticks
    <2>3. /\ "poll" \in todo => Elaps(last_attempt_tick) <= RefreshTicks + late
          /\ "poll" \notin todo => Elaps(last_attempt_tick) < RefreshTicks
        BY DEF MainInv, Main, Deadline
    <2>4. RefreshTicks \in Nat /\ late \in Nat
        BY Facts, ClockAssumption
    <2>5. CASE "poll" \in todo
        BY <2>2, <2>3, <2>4, <2>5
    <2>6. CASE "poll" \notin todo
        BY <2>2, <2>3, <2>4, <2>6
    <2> QED
        BY <2>5, <2>6
<1> QED
    BY <1>1, DashboardInvariance, PTL

\* main.c:223-224: however long the frames and however the two callbacks drift
\* apart, a muted header never outlives a second bad round by more than the
\* status_cb that is due.  (Under --self-check the last status_cb writes none.)
THEOREM HeaderLagBounded == Spec => []HeaderLag
<1>1. MainInv => HeaderLag
    BY Facts DEF MainInv, Main, Muted, HeaderLag
<1> QED
    BY <1>1, DashboardInvariance, PTL

\* main.c:122-154: whatever status_cb writes is true of the rounds as they ended.
THEOREM HeadersTrue == Spec => HeaderTrue
<1> DEFINE Claim == Reports =>
        /\ screen'.header = "updated" => history.last = "OK"
        /\ screen'.header = "stale" => history.last = "FAILED" /\ history.ok /\ ~history.refused
        /\ screen'.header = "rejected" <=> history.refused
        /\ screen'.header \in {"waiting", "updated"} => history.last \in {"NONE", "OK"}
<1>1. MainInv /\ [Next]_vars => [Claim]_vars
    <2> SUFFICES ASSUME MainInv, Reports PROVE Claim
        OBVIOUS
    <2>1. Age \in Ticks /\ screen \in Screen /\ 0 \in Ticks
        BY Facts, Clock DEF Age, Elaps
    <2>2. screen' = Header
        BY DEF Reports, StatusCb
    <2>3. /\ unauthorized = history.refused
          /\ failures = 0 <=> history.last \in {"NONE", "OK"}
          /\ history.last = "UNAUTHORIZED" => history.refused
          /\ history.ok => history.last # "NONE"
          /\ last_ok_tick # 0 => history.ok
          /\ history.last \in Results \cup {"NONE"}
          /\ failures \in Nat
        BY Facts DEF MainInv, Main, Accounts, History
    <2>4. CASE unauthorized
        <3>1. screen'.header = "rejected"
            <4>1. PICK header \in Headers, age \in Ticks :
                     /\ screen' = Headed(screen, header, age)
                     /\ header = "rejected"
                BY <2>1, <2>2, <2>4 DEF Header, Headers
            <4> QED
                BY <2>1, <4>1, HeadedScreen
        <3> QED
            BY <2>3, <2>4, <3>1, Zenon
    <2>5. CASE ~unauthorized /\ last_ok_tick = 0
        <3>1. screen'.header = IF failures > 0 THEN "unreachable" ELSE "waiting"
            <4>1. PICK header \in Headers, age \in Ticks :
                     /\ screen' = Headed(screen, header, age)
                     /\ header = IF failures > 0 THEN "unreachable" ELSE "waiting"
                BY <2>1, <2>2, <2>5 DEF Header, Headers
            <4> QED
                BY <2>1, <4>1, HeadedScreen
        <3>2. /\ screen'.header \notin {"updated", "stale", "rejected"}
              /\ screen'.header = "waiting" => failures = 0
            BY <2>3, <3>1
        <3> QED
            BY <2>3, <2>5, <3>2, Zenon
    <2>6. CASE ~unauthorized /\ last_ok_tick # 0
        <3>1. screen'.header = IF failures = 0 THEN "updated" ELSE "stale"
            <4>1. PICK header \in Headers, age \in Ticks :
                     /\ screen' = Headed(screen, header, age)
                     /\ header = IF failures = 0 THEN "updated" ELSE "stale"
                BY <2>1, <2>2, <2>6 DEF Header, Headers
            <4> QED
                BY <2>1, <4>1, HeadedScreen
        <3>2. /\ screen'.header \notin {"waiting", "rejected"}
              /\ screen'.header = "updated" => failures = 0
              /\ screen'.header = "stale" => failures # 0
            BY <3>1
        <3>3. history.ok /\ ~history.refused
            BY <2>3, <2>6
        <3>4. failures = 0 => history.last = "OK"
            BY <2>3, <3>3
        <3>5. failures # 0 => history.last = "FAILED"
            BY <2>3, <3>3 DEF Results
        <3> QED
            BY <3>2, <3>3, <3>4, <3>5
    <2> QED
        BY <2>4, <2>5, <2>6
<1>2. Spec => [][Claim]_vars
    BY <1>1, DashboardInvariance, PTL DEF Spec
<1> QED
    BY <1>2 DEF HeaderTrue

\* main.c:35-37, 97-114: the screen only ever takes the numbers of a round that
\* ended well, and they are those the server sent to that round's stats request.
THEOREM NumbersTrue == Spec => NumbersComeFromTheRound
<1> DEFINE Claim ==
        IF PollCb /\ result' = "OK"
        THEN /\ client.request["stats"].reply # Nothing
             /\ screen'.numbers = client.request["stats"].reply.doc
        ELSE screen'.numbers = screen.numbers
<1>1. MainInv /\ [Next]_vars => [Claim]_vars
    <2> SUFFICES ASSUME MainInv, Next PROVE Claim
        OBVIOUS
    <2>1. CASE PollCb
        BY <2>1, PollCbEffect
    <2>2. CASE ~PollCb
        <3> SUFFICES screen'.numbers = screen.numbers
            BY <2>2
        <3>1. CASE StatusCb
            <4>1. CASE screen' = screen
                BY <4>1
            <4>2. CASE screen' = Header
                BY <4>2, Facts DEF Header, Headed, Screen
            <4> QED
                BY <3>1, <4>1, <4>2 DEF StatusCb
        <3>2. CASE StartFailed
            BY <3>2, Facts DEF StartFailed, Fatal, Headed, Screen
        <3>3. CASE ~StatusCb /\ ~StartFailed
            BY <2>2, <3>3 DEF Next, Start, PassEnds, Wake, OnSignal, Tick, ServerAnswers,
                              ServerChanges, Exited, vars
        <3> QED
            BY <3>1, <3>2, <3>3
    <2> QED
        BY <2>1, <2>2
<1>2. Spec => [][Claim]_vars
    BY <1>1, DashboardInvariance, PTL DEF Spec
<1> QED
    BY <1>2 DEF NumbersComeFromTheRound

\* The age of the numbers and the tick they came at, until the counter wraps.
AgeInv == history.age < TickMod => history.age = Elaps(last_ok_tick)

LEMMA AgeStep ==
    ASSUME MainInv, AgeInv, [Next]_vars
    PROVE  AgeInv'
<1>1. /\ now \in Ticks /\ last_ok_tick \in Ticks /\ history \in History
      /\ history.age \in Nat /\ TickMod \in Nat
    BY Facts DEF History
<1>2. CASE Tick
    <2>1. /\ now' = (now + 1) % TickMod /\ last_ok_tick' = last_ok_tick
          /\ history' = [history EXCEPT !.age = IF @ < TickMod THEN @ + 1 ELSE @]
        BY <1>2 DEF Tick, mainVars
    <2>2. history'.age = IF history.age < TickMod THEN history.age + 1 ELSE history.age
        BY <1>1, <2>1 DEF History
    <2> SUFFICES ASSUME history'.age < TickMod PROVE history'.age = Elaps(last_ok_tick)'
        BY DEF AgeInv
    <2>3. history.age < TickMod /\ history'.age = history.age + 1
        BY <1>1, <2>2
    <2>4. history.age = (now - last_ok_tick) % TickMod
        BY <2>3 DEF AgeInv, Elaps
    <2>5. ((now - last_ok_tick) % TickMod) + 1 < TickMod
        BY <2>3, <2>4
    <2>6. (((now + 1) % TickMod) - last_ok_tick) % TickMod
             = ((now - last_ok_tick) % TickMod) + 1
        BY <1>1, <2>5, Clock
    <2>7. Elaps(last_ok_tick)' = (((now + 1) % TickMod) - last_ok_tick) % TickMod
        BY <2>1 DEF Elaps
    <2> QED
        BY <2>3, <2>4, <2>6, <2>7
<1>3. CASE PollCb
    <2>1. PICK p \in Pumped(client, snapshot, server.mood) :
             /\ Account(p.result, p.snapshot)
             /\ history' = IF p.result = "NONE" THEN history
                           ELSE [Recorded(history, p.result) EXCEPT
                                    !.told = @ \/ SaysProtection(p.client.request["status"])]
        BY <1>3 DEF PollCb
    <2>2. now' = now
        BY <1>3 DEF PollCb
    <2>3. CASE p.result = "OK"
        <3>1. last_ok_tick' = now
            BY <2>1, <2>3 DEF Account
        <3>2. history'.age = 0
            BY <1>1, <2>1, <2>3 DEF Recorded, History
        <3>3. Elaps(last_ok_tick)' = (now - now) % TickMod
            BY <2>2, <3>1 DEF Elaps
        <3>4. (now - now) % TickMod = 0
            BY <1>1, Clock
        <3> QED
            BY <3>2, <3>3, <3>4 DEF AgeInv
    <2>4. CASE p.result # "OK"
        <3>1. last_ok_tick' = last_ok_tick
            BY <2>1, <2>4 DEF Account
        <3>2. history'.age = history.age
            BY <1>1, <2>1, <2>4 DEF Recorded, History
        <3> QED
            BY <2>2, <3>1, <3>2 DEF AgeInv, Elaps
    <2> QED
        BY <2>3, <2>4
<1>4. CASE ~Tick /\ ~PollCb
    <2>1. UNCHANGED <<now, last_ok_tick, history>>
        BY <1>4 DEF Next, Start, StartFailed, StatusCb, PassEnds, Wake, OnSignal, ServerAnswers,
                    ServerChanges, Exited, vars, mainVars
    <2> QED
        BY <2>1 DEF AgeInv, Elaps
<1> QED
    BY <1>2, <1>3, <1>4

\* main.c:122-154: the age in the header is that of the numbers on the screen, to
\* the tick, until they are one wrap of the counter old: the difference is right
\* although the counter has wrapped since they came.
THEOREM AgesExact == Spec => AgeExactWithinAWrap
<1> DEFINE Claim ==
        Reports /\ screen'.header \in {"updated", "stale"} /\ history.age < TickMod =>
            screen'.age = history.age
<1>1. Init => AgeInv
    BY ClockAssumption DEF Init, AgeInv
<1>2. MainInv /\ AgeInv /\ [Next]_vars => AgeInv'
    BY AgeStep
<1>3. MainInv /\ AgeInv /\ [Next]_vars => [Claim]_vars
    <2> SUFFICES ASSUME MainInv, AgeInv, Reports, screen'.header \in {"updated", "stale"},
                        history.age < TickMod
                 PROVE  screen'.age = history.age
        OBVIOUS
    <2>1. Age \in Ticks /\ screen \in Screen /\ 0 \in Ticks
        BY Facts, Clock DEF Age, Elaps
    <2>2. screen' = Header
        BY DEF Reports, StatusCb
    <2>3. ~unauthorized /\ last_ok_tick # 0
        <3>1. Headed(screen, "rejected", 0).header = "rejected"
            BY <2>1, HeadedScreen DEF Headers
        <3>2. /\ Headed(screen, "unreachable", 0).header = "unreachable"
              /\ Headed(screen, "waiting", 0).header = "waiting"
            BY <2>1, HeadedScreen DEF Headers
        <3> QED
            BY <2>2, <3>1, <3>2 DEF Header
    <2>4. \E header \in Headers : screen' = Headed(screen, header, Age)
        BY <2>2, <2>3 DEF Header, Headers
    <2>5. screen'.age = Age
        BY <2>1, <2>4 DEF Headed, Screen
    <2> QED
        BY <2>5 DEF Age, AgeInv
<1>4. Spec => [][Claim]_vars
    BY <1>1, <1>2, <1>3, DashboardInvariance, PTL DEF Spec
<1> QED
    BY <1>4 DEF AgeExactWithinAWrap

=============================================================================
