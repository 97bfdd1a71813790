--------------------------- MODULE RemoteTestProofs ---------------------------
(***************************************************************************)
(* What the injector and the remote test screen promise for every set of    *)
(* keys, every number of commands and every number of rows.                *)
(***************************************************************************)
EXTENDS RemoteTestProps, SequenceTheorems, TLAPS

Finger == {"BTN_TOUCH"}

\* A touch has begun that is not over, or never will be.
Touching == torn \/ injector = "touching"

\* The keys that are down are those asked for, but for the finger of a touch.
HeldAsAsked ==
    /\ held \subseteq Declared
    /\ held \ (IF Touching THEN Finger ELSE {}) =
           (asked \cap Declared) \ (IF Touching THEN Finger ELSE {})
    /\ Touching => (Finger \subseteq Declared => Finger \subseteq held)
    /\ injector = "touching" => asked \cap Finger = {}

InjectInv ==
    /\ injector \in {"reading", "touching", "ended"} /\ torn \in BOOLEAN /\ kind \in Kinds
    /\ injector # "ended" => HeldAsAsked

\* The footer, before there is one and after.
FooterInv ==
    /\ app = "starting" => reader = "none"
    /\ FooterTrue

----------------------------------------------------------------------------
(***************************************************************************)
(* What a batch does to a key: its last event decides (InputInject!Emit).   *)
(***************************************************************************)

LEMMA EventsAreKeys ==
    ASSUME NEW code \in Codes
    PROVE  /\ KeyDown(code) # Other /\ KeyUp(code) # Other
           /\ KeyDown(code).code = code /\ KeyUp(code).code = code
           /\ KeyDown(code).down = TRUE /\ KeyUp(code).down = FALSE
<1>1. KeyDown(code) \in KeyEvent /\ KeyUp(code) \in KeyEvent
  BY DEF KeyDown, KeyUp, KeyEvent
<1> QED BY <1>1, InjectAssumption DEF KeyDown, KeyUp

LEMMA LastIsUp ==
    ASSUME NEW code \in Codes, NEW events, NEW n \in Nat, NEW i \in 1..n, events[i] = KeyUp(code),
           \A j \in 1..n : j > i => events[j] = Other \/ events[j].code # code \/ ~events[j].down
    PROVE  ~DownBefore(events, n + 1, code)
<1> DEFINE earlier == {j \in 1..((n + 1) - 1) : events[j] # Other /\ events[j].code = code}
<1>1. i \in earlier /\ ~events[i].down
  <2>1. events[i] # Other /\ events[i].code = code /\ events[i].down = FALSE
    BY EventsAreKeys, Zenon
  <2>2. i \in 1..((n + 1) - 1)
    OBVIOUS
  <2> QED BY <2>1, <2>2
<1>2. ASSUME NEW j \in earlier, events[j].down, \A k \in earlier : k <= j PROVE FALSE
  <2>1. j \in 1..n /\ i <= j /\ events[j] # Other /\ events[j].code = code
    BY <1>1, <1>2
  <2>2. j # i
    BY <1>1, <1>2, Zenon
  <2>3. j > i
    BY <2>1, <2>2
  <2> QED BY <1>2, <2>1, <2>3, Zenon
<1>3. DownBefore(events, n + 1, code) =
        (IF earlier = {} THEN code \in held
         ELSE \E j \in earlier : events[j].down /\ \A k \in earlier : k <= j)
  BY Zenon DEF DownBefore
<1> HIDE DEF earlier
<1> QED BY <1>1, <1>2, <1>3, Zenon

LEMMA LastIsDown ==
    ASSUME NEW code \in Codes, NEW events, NEW n \in Nat, NEW i \in 1..n, events[i] = KeyDown(code),
           \A j \in 1..n : j > i => events[j] = Other \/ events[j].code # code
    PROVE  DownBefore(events, n + 1, code)
<1> DEFINE earlier == {j \in 1..((n + 1) - 1) : events[j] # Other /\ events[j].code = code}
<1>1. i \in earlier /\ events[i].down = TRUE
  <2>1. events[i] # Other /\ events[i].code = code /\ events[i].down = TRUE
    BY EventsAreKeys, Zenon
  <2>2. i \in 1..((n + 1) - 1)
    OBVIOUS
  <2> QED BY <2>1, <2>2
<1>2. \A j \in earlier : j <= i
  OBVIOUS
<1>3. DownBefore(events, n + 1, code) =
        (IF earlier = {} THEN code \in held
         ELSE \E j \in earlier : events[j].down /\ \A k \in earlier : k <= j)
  BY Zenon DEF DownBefore
<1> HIDE DEF earlier
<1> QED BY <1>1, <1>2, <1>3, Zenon

LEMMA NotTouched ==
    ASSUME NEW code \in Codes, NEW events, NEW n \in Nat,
           \A j \in 1..n : events[j] = Other \/ events[j].code # code
    PROVE  DownBefore(events, n + 1, code) <=> code \in held
<1> DEFINE earlier == {j \in 1..((n + 1) - 1) : events[j] # Other /\ events[j].code = code}
<1>1. earlier = {}
  OBVIOUS
<1>2. DownBefore(events, n + 1, code) =
        (IF earlier = {} THEN code \in held
         ELSE \E j \in earlier : events[j].down /\ \A k \in earlier : k <= j)
  BY Zenon DEF DownBefore
<1> HIDE DEF earlier
<1> QED BY <1>1, <1>2, Zenon

----------------------------------------------------------------------------
(***************************************************************************)
(* The batches of dispatch().                                              *)
(***************************************************************************)

\* A batch of one event and its SYN_REPORT.
LEMMA OneKeyBatch ==
    ASSUME NEW key \in Codes, NEW code \in Codes
    PROVE  /\ DownBefore(<<KeyDown(key), Other>>, Len(<<KeyDown(key), Other>>) + 1, code)
                  <=> (code = key \/ code \in held)
           /\ DownBefore(<<KeyUp(key), Other>>, Len(<<KeyUp(key), Other>>) + 1, code)
                  <=> (code # key /\ code \in held)
<1>1. ASSUME NEW e, e # Other, e.code = key
      PROVE  /\ <<e, Other>>[1] = e /\ <<e, Other>>[2] = Other /\ Len(<<e, Other>>) = 2
             /\ 1 \in 1..2 /\ \A j \in 1..2 : j = 1 \/ j = 2
  OBVIOUS
<1>2. /\ KeyDown(key) # Other /\ KeyUp(key) # Other
      /\ KeyDown(key).code = key /\ KeyUp(key).code = key
  BY EventsAreKeys
<1>3. DownBefore(<<KeyDown(key), Other>>, Len(<<KeyDown(key), Other>>) + 1, code)
        <=> (code = key \/ code \in held)
  <2> DEFINE batch == <<KeyDown(key), Other>>
  <2>1. /\ batch[1] = KeyDown(key) /\ batch[2] = Other /\ Len(batch) = 2
        /\ 1 \in 1..2 /\ \A j \in 1..2 : j = 1 \/ j = 2
    BY <1>1, <1>2
  <2> HIDE DEF batch
  <2>2. CASE code = key
    <3>1. \A j \in 1..2 : j > 1 => batch[j] = Other \/ batch[j].code # code
      BY <2>1
    <3>2. DownBefore(batch, 2 + 1, code)
      BY <2>1, <2>2, <3>1, LastIsDown
    <3> QED BY <2>1, <2>2, <3>2 DEF batch
  <2>3. CASE code # key
    <3>1. \A j \in 1..2 : batch[j] = Other \/ batch[j].code # code
      BY <1>2, <2>1, <2>3
    <3>2. DownBefore(batch, 2 + 1, code) <=> code \in held
      BY <3>1, NotTouched
    <3> QED BY <2>1, <2>3, <3>2 DEF batch
  <2> QED BY <2>2, <2>3
<1>4. DownBefore(<<KeyUp(key), Other>>, Len(<<KeyUp(key), Other>>) + 1, code)
        <=> (code # key /\ code \in held)
  <2> DEFINE batch == <<KeyUp(key), Other>>
  <2>1. /\ batch[1] = KeyUp(key) /\ batch[2] = Other /\ Len(batch) = 2
        /\ 1 \in 1..2 /\ \A j \in 1..2 : j = 1 \/ j = 2
    BY <1>1, <1>2
  <2> HIDE DEF batch
  <2>2. CASE code = key
    <3>1. \A j \in 1..2 : j > 1 => batch[j] = Other \/ batch[j].code # code
      BY <2>1
    <3>2. ~DownBefore(batch, 2 + 1, code)
      BY <2>1, <2>2, <3>1, LastIsUp
    <3> QED BY <2>1, <2>2, <3>2 DEF batch
  <2>3. CASE code # key
    <3>1. \A j \in 1..2 : batch[j] = Other \/ batch[j].code # code
      BY <1>2, <2>1, <2>3
    <3>2. DownBefore(batch, 2 + 1, code) <=> code \in held
      BY <3>1, NotTouched
    <3> QED BY <2>1, <2>3, <3>2 DEF batch
  <2> QED BY <2>2, <2>3
<1> QED BY <1>3, <1>4

\* uinput-inject.rs:95-108: the events of a chord, one by one.
LEMMA ChordEvents ==
    ASSUME NEW keys \in Seq(Codes), Len(keys) > 0
    PROVE  LET n == Len(keys)
               batch == Chord(keys)
           IN  /\ Len(batch) = 2 * n + 2
               /\ \A i \in 1..n : batch[i] = KeyDown(keys[i])
               /\ batch[n + 1] = Other /\ batch[2 * n + 2] = Other
               /\ \A i \in 1..n : batch[n + 1 + i] = KeyUp(keys[n - i + 1])
<1> DEFINE n == Len(keys)
           down == [i \in 1..n |-> KeyDown(keys[i])]
           up == [i \in 1..n |-> KeyUp(keys[i])]
           back == Reverse(up)
<1>1. n \in Nat \ {0} /\ \A i \in 1..n : keys[i] \in Codes
  OBVIOUS
<1>2. \A i \in 1..n : KeyDown(keys[i]) \in KeyEvent /\ KeyUp(keys[i]) \in KeyEvent
  BY <1>1 DEF KeyDown, KeyUp, KeyEvent
<1>3. /\ down \in Seq(KeyEvent) /\ Len(down) = n /\ up \in Seq(KeyEvent) /\ Len(up) = n
  BY <1>1, <1>2
<1>4. /\ back \in Seq(KeyEvent) /\ Len(back) = n
      /\ \A i \in 1..n : back[i] = KeyUp(keys[n - i + 1])
  <2>1. back = [i \in 1..Len(up) |-> up[(Len(up) - i) + 1]]
    BY DEF Reverse
  <2>2. back = [i \in 1..n |-> up[(n - i) + 1]]
    BY <1>3, <2>1
  <2>3. \A i \in 1..n : (n - i) + 1 \in 1..n /\ up[(n - i) + 1] = KeyUp(keys[n - i + 1])
    BY <1>1
  <2>4. \A i \in 1..n : back[i] = KeyUp(keys[n - i + 1])
    BY <2>2, <2>3
  <2>5. \A i \in 1..n : up[(n - i) + 1] \in KeyEvent
    BY <1>2, <2>3
  <2> HIDE DEF up, back, n
  <2> QED BY <1>1, <2>2, <2>4, <2>5
<1>5. Chord(keys) = ((down \o <<Other>>) \o back) \o <<Other>>
  BY DEF Chord
<1> HIDE DEF n, down, up, back
<1> DEFINE S == KeyEvent \cup {Other}
<1>6. down \in Seq(S) /\ back \in Seq(S) /\ <<Other>> \in Seq(S) /\ Len(<<Other>>) = 1
  BY <1>3, <1>4
<1> HIDE DEF S
<1> DEFINE first == down \o <<Other>>
           second == first \o back
           batch == second \o <<Other>>
<1>7. /\ first \in Seq(S) /\ Len(first) = n + 1
      /\ \A i \in 1..n : first[i] = down[i]
      /\ first[n + 1] = Other
  BY <1>1, <1>3, <1>6
<1> HIDE DEF first
<1>8. /\ second \in Seq(S) /\ Len(second) = 2 * n + 1
      /\ \A i \in 1..(n + 1) : second[i] = first[i]
      /\ \A i \in 1..n : second[n + 1 + i] = back[i]
  <2>1. /\ second \in Seq(S) /\ Len(second) = (n + 1) + n
        /\ \A i \in 1..((n + 1) + n) : second[i] = IF i <= n + 1 THEN first[i] ELSE back[i - (n + 1)]
    <3>1. /\ second \in Seq(S) /\ Len(second) = Len(first) + Len(back)
          /\ \A i \in 1..(Len(first) + Len(back)) :
                second[i] = IF i <= Len(first) THEN first[i] ELSE back[i - Len(first)]
      BY <1>6, <1>7, ConcatProperties
    <3> HIDE DEF second
    <3> QED BY <1>4, <1>7, <3>1
  <2>2. \A i \in 1..(n + 1) : i \in 1..((n + 1) + n) /\ i <= n + 1
    BY <1>1
  <2>3. \A i \in 1..n : /\ n + 1 + i \in 1..((n + 1) + n) /\ ~(n + 1 + i <= n + 1)
                        /\ (n + 1 + i) - (n + 1) = i
    BY <1>1
  <2>4. (n + 1) + n = 2 * n + 1
    BY <1>1
  <2> HIDE DEF second
  <2> QED BY <2>1, <2>2, <2>3, <2>4
<1> HIDE DEF second
<1>9. /\ Len(batch) = 2 * n + 2
      /\ \A i \in 1..(2 * n + 1) : batch[i] = second[i]
      /\ batch[2 * n + 2] = Other
  <2>1. /\ Len(batch) = (2 * n + 1) + 1
        /\ \A i \in 1..((2 * n + 1) + 1) :
              batch[i] = IF i <= 2 * n + 1 THEN second[i] ELSE <<Other>>[i - (2 * n + 1)]
    BY <1>6, <1>8, ConcatProperties
  <2>2. \A i \in 1..(2 * n + 1) : i \in 1..((2 * n + 1) + 1) /\ i <= 2 * n + 1
    BY <1>1
  <2>3. /\ (2 * n + 1) + 1 = 2 * n + 2 /\ 2 * n + 2 \in 1..((2 * n + 1) + 1)
        /\ ~(2 * n + 2 <= 2 * n + 1) /\ (2 * n + 2) - (2 * n + 1) = 1
    BY <1>1
  <2> HIDE DEF batch
  <2> QED BY <2>1, <2>2, <2>3
<1> HIDE DEF batch
<1>10. \A i \in 1..n : batch[i] = KeyDown(keys[i])
  <2>1. \A i \in 1..n : i \in 1..(n + 1) /\ i \in 1..(2 * n + 1)
    BY <1>1
  <2> QED BY <1>7, <1>8, <1>9, <2>1 DEF down
<1>11. batch[n + 1] = Other
  BY <1>1, <1>7, <1>8, <1>9
<1>12. \A i \in 1..n : batch[n + 1 + i] = KeyUp(keys[n - i + 1])
  <2>1. \A i \in 1..n : n + 1 + i \in 1..(2 * n + 1)
    BY <1>1
  <2> QED BY <1>4, <1>8, <1>9, <2>1
<1>13. Chord(keys) = batch
  BY <1>5 DEF first, second, batch
<1> QED BY <1>9, <1>10, <1>11, <1>12, <1>13 DEF n

\* A chord leaves its keys up, whichever was down before, and the others alone.
LEMMA ChordLeaves ==
    ASSUME NEW keys \in Seq(Codes), Len(keys) > 0, NEW code \in Codes
    PROVE  DownBefore(Chord(keys), Len(Chord(keys)) + 1, code)
               <=> (code \notin ToSet(keys) /\ code \in held)
<1> DEFINE n == Len(keys)
           batch == Chord(keys)
<1>1. /\ Len(batch) = 2 * n + 2
      /\ \A i \in 1..n : batch[i] = KeyDown(keys[i])
      /\ batch[n + 1] = Other /\ batch[2 * n + 2] = Other
      /\ \A i \in 1..n : batch[n + 1 + i] = KeyUp(keys[n - i + 1])
  BY ChordEvents
<1>2. n \in Nat \ {0} /\ \A i \in 1..n : keys[i] \in Codes
  OBVIOUS
<1>3. ToSet(keys) = {keys[i] : i \in 1..n}
  BY DEF ToSet
<1> HIDE DEF n, batch
\* Every event of the batch is one of four.
<1>4. ASSUME NEW j \in 1..(2 * n + 2)
      PROVE  \/ j \in 1..n /\ batch[j] = KeyDown(keys[j])
             \/ batch[j] = Other
             \/ \E i \in 1..n : j = n + 1 + i /\ n - i + 1 \in 1..n /\ batch[j] = KeyUp(keys[n - i + 1])
  <2>1. CASE j \in 1..n
    BY <1>1, <2>1
  <2>2. CASE j = n + 1 \/ j = 2 * n + 2
    BY <1>1, <2>2
  <2>3. CASE j > n + 1 /\ j < 2 * n + 2
    <3>1. j - (n + 1) \in 1..n /\ j = n + 1 + (j - (n + 1)) /\ n - (j - (n + 1)) + 1 \in 1..n
      BY <1>2, <2>3
    <3> QED BY <1>1, <3>1
  <2> QED BY <1>2, <2>1, <2>2, <2>3
<1>5. CASE code \in ToSet(keys)
  <2>1. PICK m \in 1..n : keys[m] = code
    BY <1>3, <1>5
  <2>2. n - m + 1 \in 1..n /\ n - (n - m + 1) + 1 = m
    BY <1>2
  <2>3. n + 1 + (n - m + 1) \in 1..(2 * n + 2) /\ 2 * n + 2 \in Nat
    BY <1>2, <2>2
  <2>4. batch[n + 1 + (n - m + 1)] = KeyUp(code)
    BY <1>1, <2>1, <2>2
  <2>5. ASSUME NEW j \in 1..(2 * n + 2), j > n + 1 + (n - m + 1)
        PROVE  batch[j] = Other \/ batch[j].code # code \/ ~batch[j].down
    <3>1. j \notin 1..n
      BY <1>2, <2>2, <2>5
    <3>2. ASSUME NEW i \in 1..n, n - i + 1 \in 1..n, batch[j] = KeyUp(keys[n - i + 1])
          PROVE  ~batch[j].down
      BY <1>2, <3>2, EventsAreKeys
    <3> QED BY <1>4, <3>1, <3>2
  <2>6. ~DownBefore(batch, (2 * n + 2) + 1, code)
    BY <2>3, <2>4, <2>5, LastIsUp
  <2> QED BY <1>1, <1>5, <2>6 DEF batch
<1>6. CASE code \notin ToSet(keys)
  <2>1. \A i \in 1..n : keys[i] # code
    BY <1>3, <1>6
  <2>2. ASSUME NEW j \in 1..(2 * n + 2) PROVE batch[j] = Other \/ batch[j].code # code
    <3>1. \A k \in 1..n : KeyDown(keys[k]).code = keys[k] /\ KeyUp(keys[k]).code = keys[k]
      BY <1>2, EventsAreKeys
    <3> QED BY <1>4, <2>1, <3>1
  <2>3. 2 * n + 2 \in Nat
    BY <1>2
  <2>4. DownBefore(batch, (2 * n + 2) + 1, code) <=> code \in held
    BY <2>2, <2>3, NotTouched
  <2> QED BY <1>1, <1>6, <2>4 DEF batch
<1> QED BY <1>5, <1>6

----------------------------------------------------------------------------
(***************************************************************************)
(* The injector's steps.                                                   *)
(***************************************************************************)

LEMMA DeclaredCodes ==
    ASSUME kind \in Kinds
    PROVE  Declared \subseteq Codes /\ (kind' = kind => Declared' = Declared)
<1>1. Declared \subseteq Codes
  BY DEF Declared, Kinds, Codes
<1>2. kind' = kind => Declared' = Declared
  BY DEF Declared
<1> QED BY <1>1, <1>2

\* A batch between two touches that lets keys go.
LEMMA LetGo ==
    ASSUME InjectInv, injector = "reading", NEW K, held' = held \ K, asked' = asked \ K,
           UNCHANGED <<kind, injector>>, torn' = (torn /\ "BTN_TOUCH" \in held')
    PROVE  InjectInv'
<1>1. HeldAsAsked /\ torn \in BOOLEAN /\ kind \in Kinds
  BY DEF InjectInv
<1>2. Declared' = Declared
  BY <1>1, DeclaredCodes
<1>3. torn' \in BOOLEAN
  BY Zenon
<1>4. CASE torn'
  <2>1. torn /\ "BTN_TOUCH" \in held'
    BY <1>4
  <2>2. Touching /\ Touching'
    BY <1>4, <2>1 DEF Touching
  <2>3. HeldAsAsked'
    BY <1>1, <1>2, <2>1, <2>2 DEF HeldAsAsked, Finger
  <2> QED BY <1>1, <1>3, <2>3 DEF InjectInv
<1>5. CASE ~torn'
  <2>1. ~Touching'
    BY <1>5 DEF Touching
  <2>2. held' = asked' \cap Declared
    <3>1. CASE torn
      <4>1. Touching /\ "BTN_TOUCH" \notin held'
        BY <1>5, <3>1 DEF Touching
      <4>2. "BTN_TOUCH" \in K \/ "BTN_TOUCH" \notin Declared
        BY <1>1, <4>1 DEF HeldAsAsked, Finger
      <4>3. held \ Finger = (asked \cap Declared) \ Finger
        BY <1>1, <4>1 DEF HeldAsAsked
      <4> QED BY <1>1, <4>1, <4>2, <4>3 DEF HeldAsAsked, Finger
    <3>2. CASE ~torn
      <4>1. ~Touching
        BY <3>2 DEF Touching
      <4> QED BY <1>1, <4>1 DEF HeldAsAsked
    <3> QED BY <3>1, <3>2
  <2>3. HeldAsAsked'
    BY <1>1, <1>2, <2>1, <2>2 DEF HeldAsAsked
  <2> QED BY <1>1, <1>3, <2>3 DEF InjectInv
<1> QED BY <1>4, <1>5

\* uinput-inject.rs:109-116: press.
LEMMA PressStep ==
    ASSUME InjectInv, NEW key \in Named, Press(key)
    PROVE  InjectInv'
<1>1. /\ injector = "reading" /\ injector' = injector /\ kind' = kind
      /\ asked' = asked \cup {key} /\ torn' = (torn /\ "BTN_TOUCH" \in held')
      /\ held' = {c \in Declared : DownBefore(<<KeyDown(key), Other>>, Len(<<KeyDown(key), Other>>) + 1, c)}
  BY DEF Press, OneBatch, Reads, Emit
<1>2. HeldAsAsked /\ torn \in BOOLEAN /\ kind \in Kinds /\ key \in Codes
  BY <1>1, InjectAssumption DEF InjectInv
<1>3. Declared' = Declared /\ Declared \subseteq Codes
  BY <1>1, <1>2, DeclaredCodes
<1>4. held' = Declared \cap (held \cup {key})
  <2>1. \A c \in Declared : DownBefore(<<KeyDown(key), Other>>, Len(<<KeyDown(key), Other>>) + 1, c)
                              <=> (c = key \/ c \in held)
    BY <1>2, <1>3, OneKeyBatch
  <2> QED BY <1>1, <2>1
<1>5. torn' \in BOOLEAN
  BY <1>1, Zenon
<1>6. CASE torn'
  <2>1. torn /\ "BTN_TOUCH" \in held'
    BY <1>1, <1>6
  <2>2. Touching /\ Touching'
    BY <1>6, <2>1 DEF Touching
  <2>3. HeldAsAsked'
    BY <1>1, <1>2, <1>3, <1>4, <2>1, <2>2 DEF HeldAsAsked, Finger
  <2> QED BY <1>1, <1>2, <1>5, <2>3 DEF InjectInv
<1>7. CASE ~torn'
  <2>1. ~Touching'
    BY <1>1, <1>7 DEF Touching
  <2>2. held' = asked' \cap Declared
    <3>1. CASE torn
      <4>1. Touching /\ "BTN_TOUCH" \notin held'
        BY <1>1, <1>7, <3>1 DEF Touching
      <4>2. "BTN_TOUCH" \notin Declared
        BY <1>2, <1>4, <4>1 DEF HeldAsAsked, Finger
      <4>3. held \ Finger = (asked \cap Declared) \ Finger
        BY <1>2, <4>1 DEF HeldAsAsked
      <4> QED BY <1>1, <1>2, <1>4, <4>2, <4>3 DEF HeldAsAsked, Finger
    <3>2. CASE ~torn
      <4>1. ~Touching
        BY <1>1, <3>2 DEF Touching
      <4> QED BY <1>1, <1>2, <1>4, <4>1 DEF HeldAsAsked
    <3> QED BY <3>1, <3>2
  <2>3. HeldAsAsked'
    BY <1>1, <1>2, <1>3, <2>1, <2>2 DEF HeldAsAsked
  <2> QED BY <1>1, <1>2, <1>5, <2>3 DEF InjectInv
<1> QED BY <1>6, <1>7

\* uinput-inject.rs:95-108, 109-145: every other command of one batch.
LEMMA OneBatchSteps ==
    ASSUME InjectInv,
           \/ \E keys \in {<<k>> : k \in Named} \cup (Named \X Named) : KeyOrTap(keys)
           \/ \E key \in Named : Release(key)
           \/ MoveBy \/ ClickOnce
    PROVE  InjectInv'
<1>1. kind \in Kinds /\ (injector = "reading" => held \subseteq Declared /\ held \subseteq Codes)
  BY DeclaredCodes DEF InjectInv, HeldAsAsked
<1>2. Declared \subseteq Codes
  BY <1>1, DeclaredCodes
<1>3. ASSUME NEW keys \in Seq(Codes), Len(keys) > 0,
             OneBatch(Chord(keys), asked \ ToSet(keys))
      PROVE  InjectInv'
  <2>1. /\ injector = "reading" /\ UNCHANGED <<kind, injector>> /\ asked' = asked \ ToSet(keys)
        /\ torn' = (torn /\ "BTN_TOUCH" \in held')
        /\ held' = {c \in Declared : DownBefore(Chord(keys), Len(Chord(keys)) + 1, c)}
    BY <1>3 DEF OneBatch, Reads, Emit
  <2>2. \A c \in Declared : DownBefore(Chord(keys), Len(Chord(keys)) + 1, c)
                               <=> (c \notin ToSet(keys) /\ c \in held)
    BY <1>2, <1>3, ChordLeaves
  <2>3. held' = held \ ToSet(keys)
    BY <1>1, <2>1, <2>2
  <2> QED BY <2>1, <2>3, LetGo
<1>4. ASSUME NEW keys \in {<<k>> : k \in Named} \cup (Named \X Named), KeyOrTap(keys)
      PROVE  InjectInv'
  <2>1. CASE keys \in {<<k>> : k \in Named}
    <3>1. PICK k \in Named : keys = <<k>>
      BY <2>1
    <3>2. <<k>> \in Seq(Codes) /\ Len(<<k>>) > 0
      BY InjectAssumption
    <3> QED BY <1>3, <1>4, <3>1, <3>2 DEF KeyOrTap
  <2>2. CASE keys \in Named \X Named
    <3>1. PICK k \in Named, l \in Named : keys = <<k, l>>
      BY <2>2
    <3>2. <<k, l>> \in Seq(Codes) /\ Len(<<k, l>>) > 0
      BY InjectAssumption
    <3> QED BY <1>3, <1>4, <3>1, <3>2 DEF KeyOrTap
  <2> QED BY <1>4, <2>1, <2>2
<1>5. ASSUME NEW key \in Named, Release(key) PROVE InjectInv'
  <2>1. /\ injector = "reading" /\ UNCHANGED <<kind, injector>> /\ asked' = asked \ {key}
        /\ torn' = (torn /\ "BTN_TOUCH" \in held')
        /\ held' = {c \in Declared : DownBefore(<<KeyUp(key), Other>>, Len(<<KeyUp(key), Other>>) + 1, c)}
    BY <1>5 DEF Release, OneBatch, Reads, Emit
  <2>2. \A c \in Declared : DownBefore(<<KeyUp(key), Other>>, Len(<<KeyUp(key), Other>>) + 1, c)
                               <=> (c # key /\ c \in held)
    BY <1>2, InjectAssumption, OneKeyBatch
  <2>3. held' = held \ {key}
    BY <1>1, <2>1, <2>2
  <2> QED BY <2>1, <2>3, LetGo
<1>6. CASE MoveBy
  <2>1. /\ injector = "reading" /\ UNCHANGED <<kind, injector>> /\ asked' = asked
        /\ torn' = (torn /\ "BTN_TOUCH" \in held')
        /\ held' = {c \in Declared : DownBefore(Move, Len(Move) + 1, c)}
    BY <1>6 DEF MoveBy, OneBatch, Reads, Emit
  <2>2. Len(Move) = 1 /\ \A j \in 1..1 : Move[j] = Other
    BY DEF Move
  <2>3. \A c \in Declared : DownBefore(Move, 1 + 1, c) <=> c \in held
    BY <1>2, <2>2, NotTouched
  <2>4. held' = held \ {} /\ asked' = asked \ {}
    BY <1>1, <2>1, <2>2, <2>3
  <2> QED BY <2>1, <2>4, LetGo
<1>7. CASE ClickOnce
  <2>1. <<"BTN_LEFT">> \in Seq(Codes) /\ Len(<<"BTN_LEFT">>) > 0
    BY DEF Codes
  <2>2. ToSet(<<"BTN_LEFT">>) = {"BTN_LEFT"}
    BY DEF ToSet
  <2>3. OneBatch(Chord(<<"BTN_LEFT">>), asked \ ToSet(<<"BTN_LEFT">>))
    BY <1>7, <2>2 DEF ClickOnce, Click
  <2> QED BY <1>3, <2>1, <2>3
<1> QED BY <1>4, <1>5, <1>6, <1>7

\* uinput-inject.rs:146-167: the finger goes down with the first batch.
LEMMA TouchBeginsStep ==
    ASSUME InjectInv, TouchBegins
    PROVE  InjectInv'
<1>1. /\ injector = "reading" /\ injector' = "touching" /\ kind' = kind /\ torn' = torn
      /\ asked' = asked \ Finger
      /\ held' = {c \in Declared : DownBefore(TouchDown, Len(TouchDown) + 1, c)}
  BY DEF TouchBegins, Reads, Emit, Finger
<1>2. HeldAsAsked /\ torn \in BOOLEAN /\ kind \in Kinds
  BY <1>1 DEF InjectInv
<1>3. Declared' = Declared /\ Declared \subseteq Codes
  BY <1>1, <1>2, DeclaredCodes
<1>4. /\ Len(TouchDown) = 3 /\ TouchDown[1] = Other /\ TouchDown[3] = Other
      /\ TouchDown[2] = KeyDown("BTN_TOUCH")
  BY DEF TouchDown
<1>5. "BTN_TOUCH" \in Codes
  BY DEF Codes
<1>6. ASSUME NEW c \in Declared
      PROVE  DownBefore(TouchDown, 3 + 1, c) <=> (c \in Finger \/ c \in held)
  <2>1. c \in Codes
    BY <1>3
  <2>2. \A j \in 1..3 : j = 1 \/ j = 2 \/ j = 3
    OBVIOUS
  <2>3. CASE c = "BTN_TOUCH"
    <3>1. 2 \in 1..3 /\ \A j \in 1..3 : j > 2 => TouchDown[j] = Other
      BY <1>4
    <3>2. DownBefore(TouchDown, 3 + 1, c)
      BY <1>4, <2>1, <2>3, <3>1, LastIsDown
    <3> QED BY <2>3, <3>2 DEF Finger
  <2>4. CASE c # "BTN_TOUCH"
    <3>1. KeyDown("BTN_TOUCH").code # c
      BY <1>5, <2>4, EventsAreKeys
    <3>2. \A j \in 1..3 : TouchDown[j] = Other \/ TouchDown[j].code # c
      BY <1>4, <2>2, <3>1
    <3>3. DownBefore(TouchDown, 3 + 1, c) <=> c \in held
      BY <2>1, <3>2, NotTouched
    <3> QED BY <2>4, <3>3 DEF Finger
  <2> QED BY <2>3, <2>4
<1>7. held' = Declared \cap (held \cup Finger)
  BY <1>1, <1>4, <1>6
<1>8. Touching'
  BY <1>1 DEF Touching
<1>9. HeldAsAsked'
  <2>1. held \ Finger = (asked \cap Declared) \ Finger
    BY <1>2 DEF HeldAsAsked, Finger
  <2>2. held' \ Finger = (asked' \cap Declared) \ Finger
    BY <1>1, <1>2, <1>7, <2>1 DEF HeldAsAsked
  <2> QED BY <1>1, <1>3, <1>7, <1>8, <2>2 DEF HeldAsAsked
<1> QED BY <1>1, <1>2, <1>9 DEF InjectInv

\* ... and comes up with the second, or stays where it is.
LEMMA TouchIsOverSteps ==
    ASSUME InjectInv, TouchEnds \/ TouchTears
    PROVE  InjectInv'
<1>1. /\ injector = "touching" /\ injector' = "reading" /\ kind' = kind /\ asked' = asked
  BY DEF TouchEnds, TouchTears, Emit, deviceVars
<1>2. HeldAsAsked /\ Touching /\ kind \in Kinds
  BY <1>1 DEF InjectInv, Touching
<1>3. Declared' = Declared /\ Declared \subseteq Codes
  BY <1>1, <1>2, DeclaredCodes
<1>4. CASE TouchEnds
  <2>1. /\ torn' = FALSE
        /\ held' = {c \in Declared : DownBefore(TouchUp, Len(TouchUp) + 1, c)}
    BY <1>4 DEF TouchEnds, Emit
  <2>2. "BTN_TOUCH" \in Codes /\ TouchUp = <<KeyUp("BTN_TOUCH"), Other>>
    BY DEF Codes, TouchUp
  <2>3. \A c \in Declared : DownBefore(TouchUp, Len(TouchUp) + 1, c)
                               <=> (c # "BTN_TOUCH" /\ c \in held)
    BY <1>3, <2>2, OneKeyBatch
  <2>4. held' = held \ Finger
    BY <1>2, <2>1, <2>3 DEF HeldAsAsked, Finger
  <2>5. ~Touching'
    BY <1>1, <2>1 DEF Touching
  <2>6. held' = asked' \cap Declared
    BY <1>1, <1>2, <2>4 DEF HeldAsAsked, Finger
  <2>7. HeldAsAsked'
    BY <1>1, <1>3, <2>5, <2>6 DEF HeldAsAsked
  <2> QED BY <1>1, <1>2, <2>1, <2>7 DEF InjectInv
<1>5. CASE TouchTears
  <2>1. torn' = TRUE /\ held' = held
    BY <1>5 DEF TouchTears, deviceVars
  <2>2. Touching'
    BY <2>1 DEF Touching
  <2>3. HeldAsAsked'
    BY <1>1, <1>2, <1>3, <2>1, <2>2 DEF HeldAsAsked
  <2> QED BY <1>1, <1>2, <2>1, <2>3 DEF InjectInv
<1> QED BY <1>4, <1>5

\* Steps that move no key of the device: a refused command, and all of the screen's.
LEMMA KeysStay ==
    ASSUME InjectInv, UNCHANGED <<injector, kind, held, asked, torn>>
    PROVE  InjectInv'
<1>1. kind \in Kinds => Declared' = Declared
  BY DEF Declared
<1>2. Touching' = Touching
  BY DEF Touching
<1> QED BY <1>1, <1>2 DEF InjectInv, HeldAsAsked

LEMMA InjectInvNext ==
    InjectInv /\ [Next]_vars => InjectInv'
<1> SUFFICES ASSUME InjectInv, [Next]_vars PROVE InjectInv'
  OBVIOUS
<1>1. CASE InjectorStep
  <2>1. CASE \E key \in Named : Press(key)
    BY <2>1, PressStep
  <2>2. CASE \/ \E keys \in {<<k>> : k \in Named} \cup (Named \X Named) : KeyOrTap(keys)
             \/ \E key \in Named : Release(key)
             \/ MoveBy \/ ClickOnce
    BY <2>2, OneBatchSteps
  <2>3. CASE Refuse
    BY <2>3, KeysStay DEF Refuse, deviceVars
  <2>4. CASE TouchBegins
    BY <2>4, TouchBeginsStep
  <2>5. CASE TouchEnds \/ TouchTears
    BY <2>5, TouchIsOverSteps
  <2>6. CASE Quit
    <3>1. injector' = "ended" /\ torn' = FALSE /\ kind' = kind
      BY <2>6 DEF Quit, Unplug
    <3> QED BY <3>1 DEF InjectInv
  <2> QED BY <1>1, <2>1, <2>2, <2>3, <2>4, <2>5, <2>6 DEF InjectorStep
<1>2. CASE Rests /\ (StartOff \/ StartRaw \/ SeatKey \/ ReadEvent \/ SeatDrops)
  BY <1>2, KeysStay DEF Rests, StartOff, StartRaw, SeatKey, ReadEvent, SeatDrops, Opens, TakenFrom
<1>3. CASE Rests /\ (StartFails \/ TimerCb \/ Close \/ ReadFails)
  BY <1>3, KeysStay DEF Rests, StartFails, TimerCb, Close, ReadFails, deviceVars
<1>4. CASE UNCHANGED vars
  BY <1>4, KeysStay DEF vars, injectVars, deviceVars
<1> QED BY <1>1, <1>2, <1>3, <1>4 DEF Next, Injects

----------------------------------------------------------------------------

\* uinput-inject.rs:91-171: the keys that are down are at every step those that
\* the commands account for, but for the finger of a touch.
THEOREM InjectInvariance == Spec => []InjectInv
<1>1. Init => InjectInv
  <2> SUFFICES ASSUME Init PROVE InjectInv
    OBVIOUS
  <2>1. injector = "reading" /\ torn = FALSE /\ kind \in Kinds /\ held = {} /\ asked = {}
    BY DEF Init, InjectInit
  <2>2. ~Touching
    BY <2>1 DEF Touching
  <2> QED BY <2>1, <2>2 DEF InjectInv, HeldAsAsked
<1> QED BY <1>1, InjectInvNext, PTL DEF Spec

\* uinput-inject.rs:91-171: between two commands no key is down that nobody
\* asked to hold, for every set of keys and whatever chords share them.
THEOREM OnlyAskedKeys == Spec => []OnlyAskedKeysDown
<1>1. InjectInv => OnlyAskedKeysDown
  <2> SUFFICES ASSUME InjectInv, injector = "reading"
               PROVE  held \ (IF torn THEN {"BTN_TOUCH"} ELSE {}) =
                          (asked \cap Declared) \ (IF torn THEN {"BTN_TOUCH"} ELSE {})
    BY DEF OnlyAskedKeysDown
  <2>1. HeldAsAsked /\ (Touching <=> torn)
    BY DEF InjectInv, Touching
  <2> QED BY <2>1 DEF HeldAsAsked, Finger
<1> QED BY <1>1, InjectInvariance, PTL

\* main.rs:44-62, raw.rs:99-118: the footer names the layers that are live as
\* long as the device and the window stay: the reader ends only after they do.
THEOREM FootersTrue == Spec => []FooterTrue
<1>1. Init => FooterInv
  BY DEF Init, FooterInv, FooterTrue
<1>2. FooterInv /\ [Next]_vars => FooterInv'
  <2> SUFFICES ASSUME FooterInv, [Next]_vars PROVE FooterInv'
    OBVIOUS
  <2>1. CASE Injects
    <3>1. UNCHANGED <<app, mode_line, reader>>
      BY <2>1 DEF Injects, appVars
    <3>2. plugged' = plugged \/ ~plugged'
      <4>1. ASSUME NEW events, Emit(events) PROVE plugged' = plugged
        BY <4>1 DEF Emit
      <4>2. ASSUME NEW events, NEW left, OneBatch(events, left) PROVE plugged' = plugged
        BY <4>1, <4>2, Zenon DEF OneBatch
      <4>3. CASE \/ \E keys \in {<<k>> : k \in Named} \cup (Named \X Named) : KeyOrTap(keys)
                 \/ \E k \in Named : Press(k)
                 \/ \E k \in Named : Release(k)
                 \/ MoveBy \/ ClickOnce
        BY <4>2, <4>3, Zenon DEF KeyOrTap, Press, Release, MoveBy, ClickOnce
      <4>4. CASE TouchBegins \/ TouchEnds
        BY <4>1, <4>4, Zenon DEF TouchBegins, TouchEnds
      <4>5. CASE Refuse \/ TouchTears
        BY <4>5 DEF Refuse, TouchTears, deviceVars
      <4>6. CASE Quit
        BY <4>6 DEF Quit, Unplug
      <4> QED BY <2>1, <4>3, <4>4, <4>5, <4>6 DEF Injects, InjectorStep
    <3> QED BY <3>1, <3>2 DEF FooterInv, FooterTrue
  <2>2. CASE StartOff \/ StartRaw
    BY <2>2 DEF StartOff, StartRaw, Opens, FooterInv, FooterTrue
  <2>3. CASE StartFails \/ Close
    BY <2>3 DEF StartFails, Close, FooterInv, FooterTrue
  <2>4. CASE SeatKey \/ SeatDrops \/ TimerCb
    BY <2>4 DEF SeatKey, SeatDrops, TimerCb, TakenFrom, appVars, deviceVars, FooterInv, FooterTrue
  <2>5. CASE ReadEvent
    <3>1. /\ reader = "reading" /\ UNCHANGED <<app, mode_line, plugged>>
          /\ app = "running" => reader' = "reading"
      BY <2>5 DEF ReadEvent, TakenFrom, AfterOther
    <3> QED BY <3>1 DEF FooterInv, FooterTrue
  <2>6. CASE ReadFails
    BY <2>6 DEF ReadFails, deviceVars, FooterInv, FooterTrue
  <2>7. CASE UNCHANGED vars
    BY <2>7 DEF vars, appVars, injectVars, deviceVars, FooterInv, FooterTrue
  <2> QED BY <2>1, <2>2, <2>3, <2>4, <2>5, <2>6, <2>7 DEF Next
<1>3. FooterInv => FooterTrue
  BY DEF FooterInv
<1> QED BY <1>1, <1>2, <1>3, PTL DEF Spec

=============================================================================
