---------------------------- MODULE InputInject ----------------------------
(***************************************************************************)
(* The injector of the input harness, input-harness/src/bin/               *)
(* uinput-inject.rs: it creates a virtual input device and, per line of     *)
(* standard input, writes a batch of events to it and answers ack or err.   *)
(*                                                                         *)
(* The kernel is external: it hands what the device declared and what      *)
(* changes a key to every client that has the node open, the raw read-back  *)
(* of ir-remote-test and the seat that feeds its window.  A key is a code,  *)
(* and an event that is no key event (a move, a position, a SYN_REPORT) is  *)
(* the value Other, one for a run of them.                                 *)
(***************************************************************************)
EXTENDS Subsequences, SequencesExt

CONSTANTS
    Typing,         \* the keys the harness declares for a keyboard
    Strange,        \* a code that none of its devices declares
    Named,          \* the codes that commands name
    Other,          \* an event that is not of type EV_KEY
    MaxCommands,    \* lines of standard input
    EmitMayFail     \* may a write to /dev/uinput fail?

Kinds == {"keyboard", "mouse", "touch"}

Codes == Typing \cup {Strange, "BTN_LEFT", "BTN_RIGHT", "BTN_TOUCH"}

Clients == {"raw", "seat"}

KeyEvent == [code : Codes, down : BOOLEAN]

ASSUME InjectAssumption ==
    /\ Typing \cap {Strange, "BTN_LEFT", "BTN_RIGHT", "BTN_TOUCH"} = {}
    /\ Strange \notin {"BTN_LEFT", "BTN_RIGHT", "BTN_TOUCH"}
    /\ IsFiniteSet(Typing) /\ Named \subseteq Codes /\ Other \notin KeyEvent
    /\ MaxCommands \in Nat /\ EmitMayFail \in BOOLEAN

VARIABLES
    injector,   \* where main is: reading, touching (between two batches), ended
    kind,       \* the device it has built
    commands,   \* lines answered so far
    held,       \* the keys of the device that are down
    plugged,    \* does the device exist?
    opened,     \* the clients that have its node open
    queue,      \* for each, the events it has not read
    asked,      \* the keys that a command holds down on purpose (no code reads it)
    torn        \* was the last touch answered with err halfway? (no code reads it)

deviceVars == <<kind, held, plugged, opened, queue>>
injectVars == <<injector, commands, asked, torn, deviceVars>>

InjectTypeOK ==
    /\ injector \in {"reading", "touching", "ended"}
    /\ kind \in Kinds
    /\ commands \in 0..MaxCommands
    /\ held \in SUBSET Codes /\ asked \in SUBSET Codes
    /\ plugged \in BOOLEAN /\ torn \in BOOLEAN
    /\ opened \in SUBSET Clients
    /\ queue \in [Clients -> Seq(KeyEvent \cup {Other})]

\* build()
Declared ==
    CASE kind = "keyboard" -> Typing
      [] kind = "mouse"    -> {"BTN_LEFT", "BTN_RIGHT"}
      [] kind = "touch"    -> {"BTN_TOUCH"}

InjectInit ==
    /\ kind \in Kinds
    /\ injector = "reading" /\ commands = 0
    /\ held = {} /\ asked = {} /\ torn = FALSE
    /\ plugged = TRUE /\ opened = {}
    /\ queue = [c \in Clients |-> <<>>]

----------------------------------------------------------------------------
(***************************************************************************)
(* The kernel.                                                             *)
(***************************************************************************)

KeyDown(code) == [code |-> code, down |-> TRUE]
KeyUp(code) == [code |-> code, down |-> FALSE]

\* Is the key down before the i-th event of a batch?
DownBefore(events, i, code) ==
    LET earlier == {j \in 1..(i - 1) : events[j] # Other /\ events[j].code = code}
    IN IF earlier = {} THEN code \in held
       ELSE \E j \in earlier : events[j].down /\ \A k \in earlier : k <= j

\* An event of a key passes if the device declares the key and it changes it.
Passes(events, i) ==
    events[i] = Other
    \/ (/\ events[i].code \in Declared
        /\ events[i].down # DownBefore(events, i, events[i].code))

Through(events) == Selected(events, {i \in DOMAIN events : Passes(events, i)})

KeysOf(events) == Selected(events, {i \in DOMAIN events : events[i] # Other})

\* The seat makes key events of key events alone.
Delivered(out) ==
    [c \in Clients |-> IF c \notin opened THEN queue[c]
                       ELSE queue[c] \o (IF c = "raw" THEN out ELSE KeysOf(out))]

\* VirtualDevice::emit that succeeds.
Emit(events) ==
    /\ held' = {c \in Declared : DownBefore(events, Len(events) + 1, c)}
    /\ queue' = Delivered(Through(events))
    /\ UNCHANGED <<kind, plugged, opened>>

\* The device goes with its process; its keys are let go first.
Unplug ==
    /\ plugged' = FALSE
    /\ held' = {}
    /\ queue' = Delivered(SetToSeq({KeyUp(c) : c \in held}))
    /\ UNCHANGED <<kind, opened>>

----------------------------------------------------------------------------
(***************************************************************************)
(* dispatch(): one command, one batch; touch alone takes two.              *)
(***************************************************************************)

\* Faulty variant: only the last key of a chord is let go.
ChordHeld(keys) ==
    [i \in 1..Len(keys) |-> KeyDown(keys[i])] \o <<Other, KeyUp(keys[Len(keys)]), Other>>

Chord(keys) ==
    [i \in 1..Len(keys) |-> KeyDown(keys[i])] \o <<Other>>
        \o Reverse([i \in 1..Len(keys) |-> KeyUp(keys[i])]) \o <<Other>>

Click == Chord(<<"BTN_LEFT">>)
Move == <<Other>>
TouchDown == <<Other, KeyDown("BTN_TOUCH"), Other>>
TouchUp == <<KeyUp("BTN_TOUCH"), Other>>

Reads == injector = "reading" /\ commands < MaxCommands

Answered == commands' = commands + 1

\* A command of one batch, after which the keys in left are held on purpose.
OneBatch(events, left) ==
    /\ Reads /\ Answered
    /\ Emit(events)
    /\ asked' = left
    /\ torn' = (torn /\ "BTN_TOUCH" \in held')
    /\ UNCHANGED injector

KeyOrTap(keys) == OneBatch(Chord(keys), asked \ ToSet(keys))

Press(key) == OneBatch(<<KeyDown(key), Other>>, asked \cup {key})

Release(key) == OneBatch(<<KeyUp(key), Other>>, asked \ {key})

MoveBy == OneBatch(Move, asked)

ClickOnce == OneBatch(Click, asked \ {"BTN_LEFT"})

\* A line that cannot be parsed, or a batch that cannot be written: err.
Refuse ==
    /\ Reads /\ Answered
    /\ UNCHANGED <<injector, asked, torn, deviceVars>>

TouchBegins ==
    /\ Reads
    /\ Emit(TouchDown)
    /\ injector' = "touching"
    /\ asked' = asked \ {"BTN_TOUCH"}
    /\ UNCHANGED <<commands, torn>>

TouchEnds ==
    /\ injector = "touching" /\ Answered
    /\ Emit(TouchUp)
    /\ injector' = "reading"
    /\ torn' = FALSE
    /\ UNCHANGED asked

\* The second emit fails: err, and the finger stays where it is.
TouchTears ==
    /\ injector = "touching" /\ EmitMayFail /\ Answered
    /\ injector' = "reading"
    /\ torn' = TRUE
    /\ UNCHANGED <<asked, deviceVars>>

\* quit, the end of standard input, or an answer that cannot be written.
Quit ==
    /\ injector = "reading"
    /\ Unplug
    /\ injector' = "ended"
    /\ asked' = {} /\ torn' = FALSE
    /\ UNCHANGED commands

InjectorStep ==
    \/ \E keys \in {<<k>> : k \in Named} \cup (Named \X Named) : KeyOrTap(keys)
    \/ \E k \in Named : Press(k)
    \/ \E k \in Named : Release(k)
    \/ MoveBy
    \/ ClickOnce
    \/ Refuse
    \/ TouchBegins
    \/ TouchEnds
    \/ TouchTears
    \/ Quit

=============================================================================
