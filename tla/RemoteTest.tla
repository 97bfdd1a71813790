----------------------------- MODULE RemoteTest -----------------------------
(***************************************************************************)
(* The IR remote test screen, ir-remote-test/src/{main,raw,keys}.rs, on the *)
(* device of InputInject: key events reach its log by two ways, called back *)
(* from the seat, and read off the node by a thread whose channel a timer   *)
(* drains.  The log shows the newest rows, a count and the last key.        *)
(*                                                                         *)
(* The seat and the window system are external: they may lose events (a     *)
(* revoke), and deliver the rest in order.                                 *)
(***************************************************************************)
EXTENDS InputInject

CONSTANT VisibleRows    \* VISIBLE_ROWS

ASSUME RowsAssumption == VisibleRows \in Nat \ {0}

VARIABLES
    app,        \* where main is: starting, running, closed, failed
    raw_mode,   \* Mode::from_args, as what it finds: Off, the device, or no device
    reader,     \* the thread of raw::start: none, reading, ended
    channel,    \* the keys it has sent and the UI has not received
    rows, seq, presses,     \* KeyLog
    last, count_label, mode_line,   \* what the window shows beside the rows
    told,       \* all that on_seat_key and on_raw_key were called with (no code reads it)
    since       \* the key events the node has given since the reader opened it (likewise)

logVars == <<rows, seq, presses, last, count_label, told>>
appVars == <<app, raw_mode, reader, channel, mode_line, logVars>>
vars == <<injectVars, appVars, since>>

NoKey == [code |-> Strange, down |-> FALSE]

Row == [seq : Nat, source : Clients, key : KeyEvent]

Init ==
    /\ InjectInit
    /\ app = "starting"
    /\ raw_mode \in {"off", "found", "missing"}
    /\ reader = "none" /\ channel = <<>>
    /\ rows = <<>> /\ seq = 0 /\ presses = 0
    /\ last = NoKey /\ count_label = <<0, 0>> /\ mode_line = "none"
    /\ told = [c \in Clients |-> <<>>] /\ since = <<>>

----------------------------------------------------------------------------
(***************************************************************************)
(* main: the window, then raw::start, whose failure ends the program.      *)
(***************************************************************************)

Opens(clients) == opened' = opened \cup clients /\ UNCHANGED <<kind, held, plugged, queue>>

StartOff ==
    /\ app = "starting" /\ raw_mode = "off"
    /\ app' = "running" /\ mode_line' = "off"
    /\ Opens({"seat"})
    /\ UNCHANGED <<raw_mode, reader, channel, logVars, since>>

StartRaw ==
    /\ app = "starting" /\ raw_mode = "found" /\ plugged
    /\ app' = "running" /\ mode_line' = "raw"
    /\ reader' = "reading"
    /\ Opens(Clients)
    /\ UNCHANGED <<raw_mode, channel, logVars, since>>

StartFails ==
    /\ app = "starting"
    /\ raw_mode = "missing" \/ (raw_mode = "found" /\ ~plugged)
    /\ app' = "failed"
    /\ UNCHANGED <<deviceVars, raw_mode, reader, channel, mode_line, logVars, since>>

----------------------------------------------------------------------------
(***************************************************************************)
(* KeyLog.                                                                 *)
(***************************************************************************)

\* Faulty variant: one row too many is kept.
TrimmedLate(rs) == IF Len(rs) > VisibleRows + 1 THEN SubSeq(rs, 1, VisibleRows + 1) ELSE rs

Trimmed(rs) == IF Len(rs) > VisibleRows THEN SubSeq(rs, 1, VisibleRows) ELSE rs

Downs(keys) == Len(Selected(keys, {i \in DOMAIN keys : keys[i].down}))

\* KeyLog::push of one key after the other, of which pressed are counted as
\* presses: trimming once comes to the same as trimming after each.
Pushed(source, keys, pressed) ==
    LET n == Len(keys)
        fresh == [i \in 1..n |->
                     [seq |-> seq + n - i + 1, source |-> source, key |-> keys[n - i + 1]]]
    IN /\ rows' = Trimmed(fresh \o rows)
       /\ seq' = seq + n
       /\ presses' = presses + pressed
       /\ last' = IF n = 0 THEN last ELSE keys[n]
       /\ count_label' = IF n = 0 THEN count_label ELSE <<seq', presses'>>
       /\ told' = [told EXCEPT ![source] = @ \o keys]

OnSeatKey(key) == Pushed("seat", <<key>>, Downs(<<key>>))

\* Faulty variant: presses of both layers are counted.
OnRawKeysCounted(keys) == Pushed("raw", keys, Downs(keys))

OnRawKeys(keys) == Pushed("raw", keys, 0)

----------------------------------------------------------------------------
(***************************************************************************)
(* The UI thread: the seat's callback, and the timer that drains the        *)
(* channel.                                                                *)
(***************************************************************************)

TakenFrom(client) ==
    /\ queue' = [queue EXCEPT ![client] = Tail(@)]
    /\ UNCHANGED <<kind, held, plugged, opened>>

\* ui.on_key_event
SeatKey ==
    /\ app = "running" /\ queue["seat"] # <<>>
    /\ TakenFrom("seat")
    /\ OnSeatKey(Head(queue["seat"]))
    /\ UNCHANGED <<app, raw_mode, reader, channel, mode_line, since>>

SeatDrops ==
    /\ queue["seat"] # <<>>
    /\ queue' = [queue EXCEPT !["seat"] = <<>>]
    /\ UNCHANGED <<kind, held, plugged, opened, appVars, since>>

\* Faulty variant: of what the channel holds, the newest is taken.
DrainNewest(ch) == IF ch = <<>> THEN <<>> ELSE <<Last(ch)>>

\* raw::drain
Drain(ch) == ch

TimerCb ==
    /\ app = "running" /\ channel # <<>>
    /\ OnRawKeys(Drain(channel))
    /\ channel' = <<>>
    /\ UNCHANGED <<deviceVars, app, raw_mode, reader, mode_line, since>>

\* The window is closed; the receiver goes with main.
Close ==
    /\ app = "running"
    /\ app' = "closed" /\ channel' = <<>>
    /\ UNCHANGED <<deviceVars, raw_mode, reader, mode_line, logVars, since>>

----------------------------------------------------------------------------
(***************************************************************************)
(* The reader thread, read_loop.                                           *)
(***************************************************************************)

\* Faulty variant: an event of another type ends the loop.
AfterOtherEnds == "ended"

AfterOther == "reading"

ReadEvent ==
    /\ reader = "reading" /\ plugged /\ queue["raw"] # <<>>
    /\ TakenFrom("raw")
    /\ LET e == Head(queue["raw"])
       IN \/ e = Other /\ reader' = AfterOther /\ UNCHANGED channel
          \/ e # Other /\ app = "running" /\ channel' = Append(channel, e) /\ UNCHANGED reader
          \/ e # Other /\ app # "running" /\ reader' = "ended" /\ UNCHANGED channel
    /\ UNCHANGED <<app, raw_mode, mode_line, logVars, since>>

\* read_exact fails once the device is gone, whatever was left to read.
ReadFails ==
    /\ reader = "reading" /\ ~plugged
    /\ reader' = "ended"
    /\ UNCHANGED <<deviceVars, app, raw_mode, channel, mode_line, logVars, since>>

----------------------------------------------------------------------------

Injects ==
    /\ InjectorStep
    /\ since' = IF "raw" \in opened
                THEN since \o KeysOf(SubSeq(queue'["raw"], Len(queue["raw"]) + 1, Len(queue'["raw"])))
                ELSE since
    /\ UNCHANGED appVars

Rests == UNCHANGED <<injector, commands, asked, torn>>

Next ==
    \/ Injects
    \/ StartOff /\ Rests
    \/ StartRaw /\ Rests
    \/ StartFails /\ Rests
    \/ SeatKey /\ Rests
    \/ SeatDrops /\ Rests
    \/ TimerCb /\ Rests
    \/ Close /\ Rests
    \/ ReadEvent /\ Rests
    \/ ReadFails /\ Rests

Spec == Init /\ [][Next]_vars

\* The timer fires every 100 ms, and the reader thread runs.
Fairness ==
    /\ WF_vars(TimerCb /\ Rests)
    /\ WF_vars(ReadEvent /\ Rests) /\ WF_vars(ReadFails /\ Rests)

FairSpec == Spec /\ Fairness

=============================================================================
