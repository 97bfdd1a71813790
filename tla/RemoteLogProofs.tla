--------------------------- MODULE RemoteLogProofs ---------------------------
(***************************************************************************)
(* What the log of the remote test screen shows, and that no key is lost on  *)
(* its way there, for every set of keys and any number of rows and commands. *)
(***************************************************************************)
EXTENDS RemoteTestProps, SubsequenceProofs, TLAPS

Event == KeyEvent \cup {Other}

----------------------------------------------------------------------------
(***************************************************************************)
(* What the injector and the kernel write is made of events.               *)
(***************************************************************************)

LEMMA KeysAreEvents ==
    ASSUME NEW code \in Codes
    PROVE  KeyDown(code) \in KeyEvent /\ KeyUp(code) \in KeyEvent
  BY DEF KeyDown, KeyUp, KeyEvent

LEMMA DeclaredAreCodes ==
    ASSUME kind \in Kinds
    PROVE  Declared \subseteq Codes
  BY DEF Declared, Kinds, Codes

LEMMA KeysOfType ==
    ASSUME NEW events \in Seq(Event)
    PROVE  KeysOf(events) \in Seq(KeyEvent)
<1> DEFINE at == {i \in DOMAIN events : events[i] # Other}
<1>1. \A i \in 1..Len(events) : i \in at => events[i] \in KeyEvent
  BY DEF Event
<1> HIDE DEF at
<1>2. Selected(events, at) \in Seq(KeyEvent)
  BY <1>1, SelectedInto
<1> QED BY <1>2 DEF KeysOf, at

LEMMA ThroughType ==
    ASSUME NEW events \in Seq(Event)
    PROVE  Through(events) \in Seq(Event)
  BY SelectedType DEF Through

\* Every way of letting the keys go is a sequence, as no more than finitely many are down.
LEMMA LetGoType ==
    ASSUME held \in SUBSET Codes
    PROVE  SetToSeq({KeyUp(c) : c \in held}) \in Seq(Event)
<1> DEFINE ups == {KeyUp(c) : c \in held}
           code == [e \in ups |-> e.code]
<1>1. IsFiniteSet(Codes)
  <2>1. IsFiniteSet(Typing \cup {Strange})
    BY InjectAssumption, FS_AddElement
  <2>2. IsFiniteSet((Typing \cup {Strange}) \cup {"BTN_LEFT"})
    BY <2>1, FS_AddElement
  <2>3. IsFiniteSet(((Typing \cup {Strange}) \cup {"BTN_LEFT"}) \cup {"BTN_RIGHT"})
    BY <2>2, FS_AddElement
  <2>4. IsFiniteSet((((Typing \cup {Strange}) \cup {"BTN_LEFT"}) \cup {"BTN_RIGHT"}) \cup {"BTN_TOUCH"})
    BY <2>3, FS_AddElement
  <2>5. Codes = (((Typing \cup {Strange}) \cup {"BTN_LEFT"}) \cup {"BTN_RIGHT"}) \cup {"BTN_TOUCH"}
    BY DEF Codes
  <2> QED BY <2>4, <2>5, Zenon
<1>2. IsFiniteSet(held)
  BY <1>1, FS_Subset
<1>3. code \in Injection(ups, held)
  <2>1. \A e \in ups : e.code \in held /\ e = KeyUp(e.code)
    BY DEF KeyUp
  <2> HIDE DEF ups
  <2>2. code \in [ups -> held]
    BY <2>1
  <2>3. \A d, e \in ups : code[d] = code[e] => d = e
    BY <2>1, Zenon
  <2> HIDE DEF code
  <2> QED BY <2>2, <2>3 DEF Injection, IsInjective
<1>4. IsFiniteSet(ups)
  <2> HIDE DEF ups, code
  <2> QED BY <1>2, <1>3, FS_Injection
<1>5. ups \subseteq Event
  BY KeysAreEvents DEF Event
<1> HIDE DEF ups
<1>6. Cardinality(ups) \in Nat /\ ExistsBijection(1..Cardinality(ups), ups)
  BY <1>4, FS_CardinalityType
<1>7. PICK f \in [1..Cardinality(ups) -> ups] : IsInjective(f)
  BY <1>6 DEF ExistsBijection, Bijection, Injection
<1>8. SetToSeq(ups) \in [1..Cardinality(ups) -> ups]
  BY <1>7 DEF SetToSeq
<1>9. SetToSeq(ups) \in [1..Cardinality(ups) -> Event]
  BY <1>5, <1>8
<1>10. SetToSeq(ups) \in Seq(Event)
  BY <1>6, <1>9
<1> QED BY <1>10 DEF ups

LEMMA ChordType ==
    ASSUME NEW keys \in Seq(Codes)
    PROVE  Chord(keys) \in Seq(Event)
<1> DEFINE n == Len(keys)
           downs == [i \in 1..Len(keys) |-> KeyDown(keys[i])]
           ups == [i \in 1..Len(keys) |-> KeyUp(keys[i])]
<1>1. n \in Nat /\ \A i \in 1..n : KeyDown(keys[i]) \in Event /\ KeyUp(keys[i]) \in Event
  BY KeysAreEvents DEF Event
<1>2. downs \in Seq(Event) /\ ups \in Seq(Event)
  <2>1. downs \in [1..n -> Event] /\ ups \in [1..n -> Event]
    BY <1>1
  <2> HIDE DEF downs, ups, n
  <2> QED BY <1>1, <2>1
<1> HIDE DEF downs, ups
<1>3. Reverse(ups) \in Seq(Event)
  <2>1. Len(ups) \in Nat /\ \A i \in 1..Len(ups) : ups[(Len(ups) - i) + 1] \in Event
    BY <1>2
  <2> QED BY <2>1 DEF Reverse
<1>4. <<Other>> \in Seq(Event)
  BY DEF Event
<1>5. ((downs \o <<Other>>) \o Reverse(ups)) \o <<Other>> \in Seq(Event)
  BY <1>2, <1>3, <1>4
<1> QED BY <1>5 DEF Chord, downs, ups

LEMMA BatchTypes ==
    ASSUME NEW k \in Codes
    PROVE  /\ <<KeyDown(k), Other>> \in Seq(Event) /\ <<KeyUp(k), Other>> \in Seq(Event)
           /\ Move \in Seq(Event) /\ Click \in Seq(Event)
           /\ TouchDown \in Seq(Event) /\ TouchUp \in Seq(Event)
<1>1. /\ KeyDown(k) \in Event /\ KeyUp(k) \in Event /\ Other \in Event
      /\ KeyDown("BTN_TOUCH") \in Event /\ KeyUp("BTN_TOUCH") \in Event
  BY KeysAreEvents DEF Event, Codes
<1>2. Click \in Seq(Event)
  <2>1. <<"BTN_LEFT">> \in Seq(Codes)
    BY DEF Codes
  <2> QED BY <2>1, ChordType DEF Click
<1> HIDE DEF Event
<1> QED BY <1>1, <1>2 DEF Move, TouchDown, TouchUp

\* What a command may do to the device and to what its clients have to read.
InjectorGives ==
    /\ kind' = kind /\ opened' = opened /\ (plugged' => plugged)
    /\ injector' \in {"reading", "touching", "ended"}
    /\ plugged' \in BOOLEAN /\ torn' \in BOOLEAN
    /\ held' \in SUBSET Codes /\ asked' \in SUBSET Codes
    /\ queue' = queue \/ \E out \in Seq(Event) : queue' = Delivered(out)

LEMMA EmitGives ==
    ASSUME InjectTypeOK, NEW events \in Seq(Event), Emit(events)
    PROVE  /\ kind' = kind /\ opened' = opened /\ plugged' = plugged /\ held' \in SUBSET Codes
           /\ \E out \in Seq(Event) : queue' = Delivered(out)
<1>1. Declared \subseteq Codes
  BY DeclaredAreCodes DEF InjectTypeOK
<1>2. Through(events) \in Seq(Event) /\ queue' = Delivered(Through(events))
  BY ThroughType DEF Emit
<1> QED BY <1>1, <1>2 DEF Emit

LEMMA InjectorStepGives ==
    ASSUME InjectTypeOK, InjectorStep
    PROVE  InjectorGives
<1>0. /\ kind \in Kinds /\ asked \in SUBSET Codes /\ held \in SUBSET Codes
      /\ plugged \in BOOLEAN /\ torn \in BOOLEAN /\ Named \subseteq Codes
      /\ injector \in {"reading", "touching", "ended"}
  BY InjectAssumption DEF InjectTypeOK
<1>1. ASSUME NEW events \in Seq(Event), NEW left \in SUBSET Codes, OneBatch(events, left)
      PROVE  InjectorGives
  <2>1. Emit(events) /\ asked' = left /\ injector' = injector /\ torn' \in BOOLEAN
    BY <1>0, <1>1, Zenon DEF OneBatch
  <2> QED BY <1>0, <2>1, EmitGives DEF InjectorGives
<1>2. ASSUME NEW keys \in {<<k>> : k \in Named} \cup (Named \X Named), KeyOrTap(keys)
      PROVE  InjectorGives
  <2>1. keys \in Seq(Codes)
    <3>1. CASE keys \in {<<k>> : k \in Named}
      <4>1. PICK k \in Named : keys = <<k>>
        BY <3>1
      <4>2. <<k>> \in Seq(Codes)
        BY <1>0
      <4> QED BY <4>1, <4>2
    <3>2. CASE keys \in Named \X Named
      <4>1. PICK k \in Named, l \in Named : keys = <<k, l>>
        BY <3>2
      <4>2. <<k, l>> \in Seq(Codes)
        BY <1>0
      <4> QED BY <4>1, <4>2
    <3> QED BY <1>2, <3>1, <3>2
  <2>2. asked \ ToSet(keys) \in SUBSET Codes
    BY <1>0
  <2> QED BY <1>1, <1>2, <2>1, <2>2, ChordType DEF KeyOrTap
<1>3. ASSUME NEW k \in Named, Press(k) \/ Release(k)
      PROVE  InjectorGives
  <2>1. k \in Codes /\ asked \cup {k} \in SUBSET Codes /\ asked \ {k} \in SUBSET Codes
    BY <1>0
  <2> QED BY <1>1, <1>3, <2>1, BatchTypes DEF Press, Release
<1>4. "BTN_LEFT" \in Codes /\ "BTN_TOUCH" \in Codes
  BY DEF Codes
<1>5. CASE MoveBy \/ ClickOnce
  <2>1. asked \ {"BTN_LEFT"} \in SUBSET Codes
    BY <1>0
  <2> QED BY <1>0, <1>1, <1>4, <1>5, <2>1, BatchTypes DEF MoveBy, ClickOnce
<1>6. CASE Refuse \/ TouchTears
  <2>1. /\ UNCHANGED <<kind, held, plugged, opened, queue, asked>>
        /\ injector' = injector \/ injector' = "reading"
        /\ torn' = torn \/ torn' = TRUE
    BY <1>6 DEF Refuse, TouchTears, deviceVars
  <2> QED BY <1>0, <2>1 DEF InjectorGives
<1>7. CASE TouchBegins
  <2>1. TouchDown \in Seq(Event) /\ Emit(TouchDown)
    BY <1>4, <1>7, BatchTypes DEF TouchBegins
  <2>2. injector' = "touching" /\ asked' \in SUBSET Codes /\ torn' = torn
    BY <1>0, <1>7 DEF TouchBegins
  <2> QED BY <1>0, <2>1, <2>2, EmitGives DEF InjectorGives
<1>8. CASE TouchEnds
  <2>1. TouchUp \in Seq(Event) /\ Emit(TouchUp)
    BY <1>4, <1>8, BatchTypes DEF TouchEnds
  <2>2. injector' = "reading" /\ asked' = asked /\ torn' = FALSE
    BY <1>8 DEF TouchEnds
  <2> QED BY <1>0, <2>1, <2>2, EmitGives DEF InjectorGives
<1>9. CASE Quit
  BY <1>0, <1>9, LetGoType DEF Quit, Unplug, InjectorGives
<1> QED BY <1>2, <1>3, <1>5, <1>6, <1>7, <1>8, <1>9 DEF InjectorStep

LEMMA DeliveredType ==
    ASSUME queue \in [Clients -> Seq(Event)], NEW out \in Seq(Event)
    PROVE  /\ Delivered(out) \in [Clients -> Seq(Event)]
           /\ Delivered(out)["raw"] = IF "raw" \in opened THEN queue["raw"] \o out ELSE queue["raw"]
           /\ queue["seat"] \in Seq(KeyEvent) => Delivered(out)["seat"] \in Seq(KeyEvent)
<1>1. ASSUME NEW c \in Clients
      PROVE  (IF c \notin opened THEN queue[c]
              ELSE queue[c] \o (IF c = "raw" THEN out ELSE KeysOf(out))) \in Seq(Event)
  <2>1. queue[c] \in Seq(Event)
    OBVIOUS
  <2>2. KeysOf(out) \in Seq(Event)
    <3> HIDE DEF Event
    <3>1. KeysOf(out) \in Seq(KeyEvent) /\ KeyEvent \subseteq Event
      BY KeysOfType DEF Event
    <3> QED BY <3>1, SeqMonotonic
  <2>3. queue[c] \o out \in Seq(Event) /\ queue[c] \o KeysOf(out) \in Seq(Event)
    BY <2>1, <2>2, ConcatProperties
  <2> QED BY <2>1, <2>3
<1>2. "raw" \in Clients /\ "seat" \in Clients /\ "seat" # "raw"
  BY DEF Clients
<1>3. ASSUME queue["seat"] \in Seq(KeyEvent) PROVE Delivered(out)["seat"] \in Seq(KeyEvent)
  <2>1. queue["seat"] \o KeysOf(out) \in Seq(KeyEvent)
    BY <1>3, KeysOfType, ConcatProperties
  <2>2. Delivered(out)["seat"] = IF "seat" \notin opened THEN queue["seat"]
                                 ELSE queue["seat"] \o KeysOf(out)
    BY <1>2 DEF Delivered
  <2> QED BY <1>3, <2>1, <2>2
<1> QED BY <1>1, <1>2, <1>3 DEF Delivered

----------------------------------------------------------------------------
(***************************************************************************)
(* KeyLog::push.                                                           *)
(***************************************************************************)

\* The rows that a number of keys bring, the last one on top.
Fresh(source, keys) ==
    [i \in 1..Len(keys) |->
        [seq |-> seq + Len(keys) - i + 1, source |-> source, key |-> keys[Len(keys) - i + 1]]]

LEMMA FreshType ==
    ASSUME seq \in Nat, NEW source \in Clients, NEW keys \in Seq(KeyEvent)
    PROVE  /\ Fresh(source, keys) \in Seq(Row) /\ Len(Fresh(source, keys)) = Len(keys)
           /\ \A i \in 1..Len(keys) :
                 /\ Fresh(source, keys)[i].seq = seq + Len(keys) - i + 1
                 /\ Fresh(source, keys)[i].source = source
                 /\ Fresh(source, keys)[i].key = keys[Len(keys) - i + 1]
<1> DEFINE n == Len(keys)
           f == Fresh(source, keys)
<1>1. n \in Nat /\ \A i \in 1..n : seq + n - i + 1 \in Nat /\ keys[n - i + 1] \in KeyEvent
  OBVIOUS
<1>2. /\ f \in [1..n -> Row]
      /\ \A i \in 1..n : f[i].seq = seq + n - i + 1 /\ f[i].source = source /\ f[i].key = keys[n - i + 1]
  BY <1>1 DEF Fresh, Row
<1> HIDE DEF f, n
<1>3. f \in Seq(Row) /\ Len(f) = n
  BY <1>1, <1>2
<1> QED BY <1>2, <1>3 DEF f, n

LEMMA PushedIs ==
    ASSUME seq \in Nat, NEW source \in Clients, NEW keys \in Seq(KeyEvent), NEW pressed,
           Pushed(source, keys, pressed)
    PROVE  /\ rows' = Trimmed(Fresh(source, keys) \o rows)
           /\ seq' = seq + Len(keys) /\ presses' = presses + pressed
           /\ last' = IF Len(keys) = 0 THEN last ELSE keys[Len(keys)]
           /\ count_label' = IF Len(keys) = 0 THEN count_label ELSE <<seq', presses'>>
           /\ told' = [told EXCEPT ![source] = @ \o keys]
  BY Zenon DEF Pushed, Fresh

LEMMA TrimmedIs ==
    ASSUME NEW rs \in Seq(Row)
    PROVE  \E m \in 0..Len(rs) :
               /\ Trimmed(rs) = SubSeq(rs, 1, m) /\ m = Len(Trimmed(rs))
               /\ m = IF Len(rs) < VisibleRows THEN Len(rs) ELSE VisibleRows
<1>1. VisibleRows \in Nat /\ Len(rs) \in Nat
  BY RowsAssumption
<1>2. CASE Len(rs) > VisibleRows
  <2>1. VisibleRows \in 0..Len(rs) /\ Trimmed(rs) = SubSeq(rs, 1, VisibleRows)
    BY <1>1, <1>2 DEF Trimmed
  <2>2. Len(SubSeq(rs, 1, VisibleRows)) = VisibleRows
    BY <1>1, <2>1
  <2> QED BY <1>1, <1>2, <2>1, <2>2
<1>3. CASE ~(Len(rs) > VisibleRows)
  <2>1. Trimmed(rs) = rs /\ SubSeq(rs, 1, Len(rs)) = rs /\ Len(rs) \in 0..Len(rs)
    BY <1>1, <1>3 DEF Trimmed
  <2>2. Len(rs) = IF Len(rs) < VisibleRows THEN Len(rs) ELSE VisibleRows
    BY <1>1, <1>3
  <2>3. Trimmed(rs) = SubSeq(rs, 1, Len(rs)) /\ Len(rs) = Len(Trimmed(rs))
    BY <2>1
  <2> QED BY <2>1, <2>2, <2>3, Zenon
<1> QED BY <1>2, <1>3

LEMMA SequenceBy ==
    ASSUME NEW T, NEW u \in Seq(T), NEW v \in Seq(T), Len(u) = Len(v),
           \A i \in 1..Len(u) : u[i] = v[i]
    PROVE  u = v
  OBVIOUS

\* keys.rs:113-127: KeyLog::push cuts the rows after each key; to cut them once, after
\* all the keys of a drain, leaves the same, which is how the model pushes a drain.
THEOREM TrimOnce ==
    ASSUME NEW u \in Seq(Row), NEW v \in Seq(Row)
    PROVE  Trimmed(u \o Trimmed(v)) = Trimmed(u \o v)
<1> DEFINE n == VisibleRows
           t == Trimmed(v)
           ut == u \o t
           uv == u \o v
           k == IF Len(uv) > n THEN n ELSE Len(uv)
<1>1. n \in Nat \ {0}
  BY RowsAssumption
<1>2. ASSUME NEW w \in Seq(Row)
      PROVE  /\ Trimmed(w) \in Seq(Row) /\ Len(Trimmed(w)) = IF Len(w) > n THEN n ELSE Len(w)
             /\ \A i \in 1..Len(Trimmed(w)) : Trimmed(w)[i] = w[i]
  BY <1>1 DEF Trimmed
<1>3. /\ t \in Seq(Row) /\ Len(t) = (IF Len(v) > n THEN n ELSE Len(v))
      /\ \A i \in 1..Len(t) : t[i] = v[i]
  BY <1>2
<1>4. t \in Seq(Row) /\ Len(u) \in Nat /\ Len(v) \in Nat /\ Len(t) \in Nat
  BY <1>3
<1> HIDE DEF t, n
<1>5. /\ ut \in Seq(Row) /\ Len(ut) = Len(u) + Len(t)
      /\ \A i \in 1..Len(u) : ut[i] = u[i]
      /\ \A i \in 1..Len(t) : ut[Len(u) + i] = t[i]
  BY <1>4, ConcatIndices
<1>6. /\ uv \in Seq(Row) /\ Len(uv) = Len(u) + Len(v)
      /\ \A i \in 1..Len(u) : uv[i] = u[i]
      /\ \A i \in 1..Len(v) : uv[Len(u) + i] = v[i]
  BY ConcatIndices
<1> HIDE DEF ut, uv
<1>7. /\ Len(Trimmed(ut)) = k /\ Len(Trimmed(uv)) = k /\ k \in Nat
      /\ k <= n /\ k <= Len(ut) /\ k <= Len(uv)
  <2>1. /\ Len(Trimmed(ut)) = IF Len(ut) > n THEN n ELSE Len(ut)
        /\ Len(Trimmed(uv)) = IF Len(uv) > n THEN n ELSE Len(uv)
    BY <1>2, <1>5, <1>6
  <2>2. /\ Len(t) \in Nat /\ Len(v) \in Nat /\ Len(u) \in Nat /\ n \in Nat
        /\ Len(ut) \in Nat /\ Len(uv) \in Nat
    BY <1>1, <1>4, <1>5, <1>6
  <2>3. Len(t) = IF Len(v) > n THEN n ELSE Len(v)
    BY <1>3
  <2>4. (IF Len(ut) > n THEN n ELSE Len(ut)) = IF Len(uv) > n THEN n ELSE Len(uv)
    BY <1>5, <1>6, <2>2, <2>3
  <2>5. k \in Nat /\ k <= n /\ k <= Len(uv)
    BY <2>2
  <2>6. k <= Len(ut)
    BY <2>2, <2>4
  <2> QED BY <2>1, <2>4, <2>5, <2>6
<1> HIDE DEF k
<1>8. ASSUME NEW i \in 1..k PROVE Trimmed(ut)[i] = Trimmed(uv)[i]
  <2>1. i \in 1..Len(ut) /\ i \in 1..Len(uv) /\ i <= n
    BY <1>1, <1>4, <1>5, <1>6, <1>7
  <2>2. Trimmed(ut)[i] = ut[i] /\ Trimmed(uv)[i] = uv[i]
    <3>1. /\ \A m \in 1..Len(Trimmed(ut)) : Trimmed(ut)[m] = ut[m]
          /\ \A m \in 1..Len(Trimmed(uv)) : Trimmed(uv)[m] = uv[m]
      BY <1>2, <1>5, <1>6
    <3> QED BY <1>7, <3>1
  <2>3. CASE i <= Len(u)
    <3>1. i \in 1..Len(u)
      BY <1>4, <1>7, <2>3
    <3> QED BY <1>5, <1>6, <2>2, <3>1
  <2>4. CASE ~(i <= Len(u))
    <3> DEFINE j == i - Len(u)
    <3>1. j \in 1..Len(t) /\ i = Len(u) + j
      BY <1>4, <1>5, <2>1, <2>4
    <3>2. j \in 1..Len(v)
      BY <1>4, <1>6, <2>1, <2>4
    <3> HIDE DEF j
    <3> QED BY <1>3, <1>5, <1>6, <2>2, <3>1, <3>2
  <2> QED BY <2>3, <2>4
<1>9. \A i \in 1..Len(Trimmed(ut)) : Trimmed(ut)[i] = Trimmed(uv)[i]
  BY <1>7, <1>8
<1>10. Trimmed(ut) \in Seq(Row) /\ Trimmed(uv) \in Seq(Row)
  BY <1>2, <1>5, <1>6
<1>11. Trimmed(ut) = Trimmed(uv)
  BY <1>7, <1>9, <1>10, SequenceBy
<1> QED BY <1>11 DEF ut, uv, t

LEMMA DownsCount ==
    ASSUME NEW keys \in Seq(KeyEvent)
    PROVE  Downs(keys) \in 0..Len(keys)
  BY SelectedShorter DEF Downs

\* A key of the log: the counters, the rows and what stands beside them keep their types.
LogTypeOK ==
    /\ rows \in Seq(Row) /\ Len(rows) <= VisibleRows
    /\ seq \in Nat /\ presses \in 0..seq
    /\ last \in KeyEvent /\ count_label = <<seq, presses>>
    /\ told \in [Clients -> Seq(KeyEvent)]

LEMMA PushedTypes ==
    ASSUME LogTypeOK, NEW source \in Clients, NEW keys \in Seq(KeyEvent), NEW pressed \in 0..Len(keys),
           Pushed(source, keys, pressed)
    PROVE  LogTypeOK'
<1> DEFINE full == Fresh(source, keys) \o rows
<1>1. /\ rows' = Trimmed(full)
      /\ seq' = seq + Len(keys) /\ presses' = presses + pressed
      /\ last' = IF Len(keys) = 0 THEN last ELSE keys[Len(keys)]
      /\ count_label' = IF Len(keys) = 0 THEN count_label ELSE <<seq', presses'>>
      /\ told' = [told EXCEPT ![source] = @ \o keys]
  BY PushedIs DEF LogTypeOK
<1>2. full \in Seq(Row)
  BY FreshType DEF LogTypeOK
<1> HIDE DEF full
<1>3. rows' \in Seq(Row) /\ Len(rows') <= VisibleRows
  <2>1. PICK m \in 0..Len(full) :
            /\ Trimmed(full) = SubSeq(full, 1, m) /\ m = Len(Trimmed(full))
            /\ m = IF Len(full) < VisibleRows THEN Len(full) ELSE VisibleRows
    BY <1>2, TrimmedIs
  <2>2. SubSeq(full, 1, m) \in Seq(Row)
    BY <1>2
  <2>3. m <= VisibleRows
    BY <1>2, <2>1, RowsAssumption
  <2> QED BY <1>1, <2>1, <2>2, <2>3
<1>4. seq' \in Nat /\ presses' \in 0..seq' /\ last' \in KeyEvent
  <2>1. Len(keys) \in Nat /\ (Len(keys) # 0 => keys[Len(keys)] \in KeyEvent)
    OBVIOUS
  <2> QED BY <1>1, <2>1 DEF LogTypeOK
<1>5. count_label' = <<seq', presses'>>
  <2>1. CASE Len(keys) = 0
    <3>1. seq' = seq /\ presses' = presses
      BY <1>1, <2>1 DEF LogTypeOK
    <3> QED BY <1>1, <2>1, <3>1 DEF LogTypeOK
  <2> QED BY <1>1, <2>1
<1>6. told' \in [Clients -> Seq(KeyEvent)]
  <2>1. told[source] \o keys \in Seq(KeyEvent)
    BY DEF LogTypeOK
  <2> QED BY <1>1, <2>1 DEF LogTypeOK
<1> QED BY <1>3, <1>4, <1>5, <1>6 DEF LogTypeOK

\* The seat makes key events only of key events; a touch that has begun is still to
\* be answered.
TypeInv ==
    /\ RemoteTypeOK
    /\ queue["seat"] \in Seq(KeyEvent)
    /\ injector = "touching" => commands < MaxCommands

LEMMA InjectsTypes ==
    ASSUME TypeInv, Injects
    PROVE  TypeInv'
<1>1. InjectTypeOK /\ InjectorStep /\ UNCHANGED appVars
  BY DEF TypeInv, RemoteTypeOK, Injects
<1>2. InjectorGives
  BY <1>1, InjectorStepGives
<1>3. /\ queue \in [Clients -> Seq(Event)] /\ opened \in SUBSET Clients /\ kind \in Kinds
      /\ commands \in 0..MaxCommands /\ since \in Seq(KeyEvent)
      /\ (injector = "touching" => commands < MaxCommands)
  BY DEF TypeInv, RemoteTypeOK, InjectTypeOK, Event
<1>4. queue' \in [Clients -> Seq(Event)] /\ queue'["seat"] \in Seq(KeyEvent)
  <2>1. queue["seat"] \in Seq(KeyEvent)
    BY DEF TypeInv
  <2>2. CASE queue' = queue
    BY <1>3, <2>1, <2>2
  <2>3. ASSUME NEW out \in Seq(Event), queue' = Delivered(out)
        PROVE  queue' \in [Clients -> Seq(Event)] /\ queue'["seat"] \in Seq(KeyEvent)
    BY <1>3, <2>1, <2>3, DeliveredType
  <2> QED BY <1>2, <2>2, <2>3 DEF InjectorGives
<1>5. commands' \in 0..MaxCommands /\ (injector' = "touching" => commands' < MaxCommands)
  <2>0. MaxCommands \in Nat
    BY InjectAssumption
  <2>1. ASSUME NEW events, NEW left, OneBatch(events, left)
        PROVE  injector = "reading" /\ injector' = injector /\ commands < MaxCommands /\ commands' = commands + 1
    BY <2>1, Zenon DEF OneBatch, Reads, Answered
  <2>2. CASE \/ \E keys \in {<<k>> : k \in Named} \cup (Named \X Named) : KeyOrTap(keys)
             \/ \E k \in Named : Press(k)
             \/ \E k \in Named : Release(k)
             \/ MoveBy \/ ClickOnce
    <3>1. injector = "reading" /\ injector' = injector /\ commands < MaxCommands /\ commands' = commands + 1
      BY <2>1, <2>2, Zenon DEF KeyOrTap, Press, Release, MoveBy, ClickOnce
    <3> QED BY <1>3, <2>0, <3>1
  <2>3. CASE Refuse \/ TouchBegins
    BY <1>3, <2>0, <2>3 DEF Refuse, TouchBegins, Reads, Answered, deviceVars
  <2>4. CASE TouchEnds \/ TouchTears
    BY <1>3, <2>0, <2>4 DEF TouchEnds, TouchTears, Answered
  <2>5. CASE Quit
    BY <1>3, <2>0, <2>5 DEF Quit
  <2> QED BY <1>1, <2>2, <2>3, <2>4, <2>5 DEF InjectorStep
<1>6. since' \in Seq(KeyEvent)
  <2> DEFINE new == SubSeq(queue'["raw"], Len(queue["raw"]) + 1, Len(queue'["raw"]))
  <2>1. queue["raw"] \in Seq(Event) /\ queue'["raw"] \in Seq(Event)
    BY <1>3, <1>4 DEF Clients
  <2>2. new \in Seq(Event)
    BY <2>1
  <2>3. since' = since \/ since' = since \o KeysOf(new)
    BY DEF Injects
  <2>4. KeysOf(new) \in Seq(KeyEvent)
    <3> HIDE DEF new
    <3> QED BY <2>2, KeysOfType
  <2> HIDE DEF new
  <2>5. since \o KeysOf(new) \in Seq(KeyEvent)
    BY <1>3, <2>4, ConcatProperties
  <2> QED BY <1>3, <2>3, <2>5
<1>7. InjectTypeOK'
  BY <1>2, <1>3, <1>4, <1>5 DEF InjectTypeOK, InjectorGives, Event
<1>8. /\ app' = app /\ raw_mode' = raw_mode /\ reader' = reader /\ channel' = channel
      /\ mode_line' = mode_line /\ UNCHANGED logVars
  BY <1>1 DEF appVars
<1> QED BY <1>4, <1>5, <1>6, <1>7, <1>8 DEF TypeInv, RemoteTypeOK, logVars

LEMMA ScreenTypes ==
    ASSUME TypeInv, Rests,
           \/ StartOff \/ StartRaw \/ StartFails \/ SeatKey \/ SeatDrops
           \/ TimerCb \/ Close \/ ReadEvent \/ ReadFails
    PROVE  TypeInv'
<1>1. /\ kind \in Kinds /\ held \in SUBSET Codes /\ plugged \in BOOLEAN
      /\ opened \in SUBSET Clients /\ queue \in [Clients -> Seq(Event)]
      /\ queue["seat"] \in Seq(KeyEvent)
  BY DEF TypeInv, RemoteTypeOK, InjectTypeOK, Event
<1>2. /\ injector \in {"reading", "touching", "ended"} /\ commands \in 0..MaxCommands
      /\ asked \in SUBSET Codes /\ torn \in BOOLEAN
      /\ injector = "touching" => commands < MaxCommands
      /\ UNCHANGED <<injector, commands, asked, torn>>
  BY DEF TypeInv, RemoteTypeOK, InjectTypeOK, Rests
<1>3. /\ app \in {"starting", "running", "closed", "failed"}
      /\ raw_mode \in {"off", "found", "missing"}
      /\ reader \in {"none", "reading", "ended"}
      /\ mode_line \in {"none", "off", "raw"}
      /\ channel \in Seq(KeyEvent) /\ since \in Seq(KeyEvent)
      /\ LogTypeOK
  BY DEF TypeInv, RemoteTypeOK, LogTypeOK
<1>4. Clients = {"raw", "seat"}
  BY DEF Clients
<1> DEFINE DeviceOK == /\ kind \in Kinds /\ held \in SUBSET Codes /\ plugged \in BOOLEAN
                       /\ opened \in SUBSET Clients /\ queue \in [Clients -> Seq(Event)]
                       /\ queue["seat"] \in Seq(KeyEvent)
           AppOK == /\ app \in {"starting", "running", "closed", "failed"}
                    /\ raw_mode \in {"off", "found", "missing"}
                    /\ reader \in {"none", "reading", "ended"}
                    /\ mode_line \in {"none", "off", "raw"}
                    /\ channel \in Seq(KeyEvent) /\ since \in Seq(KeyEvent)
<1>5. ASSUME DeviceOK', AppOK', LogTypeOK' PROVE TypeInv'
  <2> USE DEF LogTypeOK
  <2> QED BY <1>2, <1>5 DEF TypeInv, RemoteTypeOK, InjectTypeOK, Event
<1>6. ASSUME NEW c \in Clients, queue[c] # <<>>, TakenFrom(c)
      PROVE  DeviceOK'
  <2>1. Tail(queue[c]) \in Seq(Event)
    BY <1>1, <1>6
  <2>2. c = "seat" => Tail(queue["seat"]) \in Seq(KeyEvent)
    BY <1>1, <1>6
  <2> QED BY <1>1, <1>4, <1>6, <2>1, <2>2 DEF TakenFrom
<1>7. ASSUME UNCHANGED logVars PROVE LogTypeOK'
  BY <1>3, <1>7 DEF logVars, LogTypeOK
<1>8. CASE StartOff \/ StartRaw
  <2>1. DeviceOK'
    BY <1>1, <1>4, <1>8 DEF StartOff, StartRaw, Opens
  <2>2. AppOK' /\ UNCHANGED logVars
    BY <1>3, <1>8 DEF StartOff, StartRaw
  <2> QED BY <1>5, <1>7, <2>1, <2>2
<1>9. CASE StartFails \/ Close \/ ReadFails
  <2>1. DeviceOK'
    BY <1>1, <1>9 DEF StartFails, Close, ReadFails, deviceVars
  <2>2. AppOK' /\ UNCHANGED logVars
    <3>1. CASE StartFails
      BY <1>3, <3>1 DEF StartFails
    <3>2. CASE Close
      BY <1>3, <3>2 DEF Close
    <3>3. CASE ReadFails
      BY <1>3, <3>3 DEF ReadFails
    <3> QED BY <1>9, <3>1, <3>2, <3>3
  <2> QED BY <1>5, <1>7, <2>1, <2>2
<1>10. CASE SeatDrops
  <2>1. <<>> \in Seq(Event) /\ <<>> \in Seq(KeyEvent)
    BY EmptySeq
  <2>3. DeviceOK'
    BY <1>1, <1>4, <1>10, <2>1 DEF SeatDrops
  <2>2. AppOK' /\ UNCHANGED logVars
    BY <1>3, <1>10 DEF SeatDrops, appVars
  <2> QED BY <1>5, <1>7, <2>2, <2>3
<1>11. CASE ReadEvent
  <2>1. DeviceOK' /\ UNCHANGED logVars
    <3>1. "raw" \in Clients /\ queue["raw"] # <<>> /\ TakenFrom("raw") /\ UNCHANGED logVars
      BY <1>4, <1>11 DEF ReadEvent
    <3> QED BY <1>6, <3>1
  <2>2. AppOK'
    <3> DEFINE e == Head(queue["raw"])
    <3>1. e \in KeyEvent \cup {Other}
      BY <1>1, <1>4, <1>11 DEF ReadEvent, Event
    <3>2. /\ UNCHANGED <<app, raw_mode, mode_line, since>>
          /\ \/ e = Other /\ reader' = AfterOther /\ UNCHANGED channel
             \/ e # Other /\ app = "running" /\ channel' = Append(channel, e) /\ UNCHANGED reader
             \/ e # Other /\ reader' = "ended" /\ UNCHANGED channel
      BY <1>11 DEF ReadEvent
    <3>3. e # Other => Append(channel, e) \in Seq(KeyEvent)
      BY <1>3, <3>1
    <3> QED BY <1>3, <3>2, <3>3 DEF AfterOther
  <2> QED BY <1>5, <1>7, <2>1, <2>2
<1>12. CASE SeatKey
  <2> DEFINE e == Head(queue["seat"])
  <2>1. DeviceOK' /\ AppOK'
    <3>1. "seat" \in Clients /\ queue["seat"] # <<>> /\ TakenFrom("seat")
      BY <1>4, <1>12 DEF SeatKey
    <3> QED BY <1>3, <1>6, <1>12, <3>1 DEF SeatKey
  <2>2. Pushed("seat", <<e>>, Downs(<<e>>)) /\ e \in KeyEvent
    BY <1>1, <1>4, <1>12 DEF SeatKey, OnSeatKey
  <2> HIDE DEF e
  <2>3. <<e>> \in Seq(KeyEvent)
    BY <2>2
  <2>5. Downs(<<e>>) \in 0..Len(<<e>>)
    BY <2>3, DownsCount
  <2>4. LogTypeOK'
    BY <1>3, <1>4, <2>2, <2>3, <2>5, PushedTypes
  <2> QED BY <1>5, <2>1, <2>4
<1>13. CASE TimerCb
  <2>1. DeviceOK' /\ AppOK'
    BY <1>1, <1>3, <1>13 DEF TimerCb, deviceVars
  <2>2. Pushed("raw", channel, 0)
    BY <1>13 DEF TimerCb, OnRawKeys, Drain
  <2>3. LogTypeOK'
    <3>1. 0 \in 0..Len(channel)
      BY <1>3
    <3> QED BY <1>3, <1>4, <2>2, <3>1, PushedTypes
  <2> QED BY <1>5, <2>1, <2>3
<1> QED BY <1>8, <1>9, <1>10, <1>11, <1>12, <1>13

\* The types, that the seat's callback is called with key events only (main.rs:70-75),
\* and that a touch that has begun still has its command to spend.
THEOREM RemoteTypes == Spec => []TypeInv
<1>1. Init => TypeInv
  <2> SUFFICES ASSUME Init PROVE TypeInv
    OBVIOUS
  <2>1. /\ queue = [c \in Clients |-> <<>>] /\ told = [c \in Clients |-> <<>>]
        /\ Clients = {"raw", "seat"}
    BY DEF Init, InjectInit, Clients
  <2>2. queue \in [Clients -> Seq(Event)] /\ told \in [Clients -> Seq(KeyEvent)]
        /\ queue["seat"] \in Seq(KeyEvent)
    BY <2>1
  <2>3. NoKey \in KeyEvent
    BY DEF NoKey, KeyEvent, Codes
  <2>4. /\ MaxCommands \in Nat /\ VisibleRows \in Nat
    BY InjectAssumption, RowsAssumption
  <2>5. /\ app = "starting" /\ reader = "none" /\ mode_line = "none" /\ rows = <<>> /\ channel = <<>>
        /\ since = <<>> /\ seq = 0 /\ presses = 0 /\ last = NoKey /\ count_label = <<0, 0>>
        /\ raw_mode \in {"off", "found", "missing"}
        /\ injector = "reading" /\ commands = 0 /\ kind \in Kinds /\ held = {} /\ asked = {}
        /\ torn = FALSE /\ plugged = TRUE /\ opened = {}
    BY DEF Init, InjectInit
  <2>6. InjectTypeOK
    <3>1. 0 \in 0..MaxCommands /\ {} \in SUBSET Codes /\ {} \in SUBSET Clients
          /\ queue \in [Clients -> Seq(KeyEvent \cup {Other})]
      BY <2>2, <2>4 DEF Event
    <3>2. /\ commands \in 0..MaxCommands /\ held \in SUBSET Codes /\ asked \in SUBSET Codes
          /\ opened \in SUBSET Clients
      BY <2>5, <3>1, Zenon
    <3> QED BY <2>5, <3>1, <3>2 DEF InjectTypeOK
  <2>7. rows \in Seq(Row) /\ Len(rows) = 0 /\ channel \in Seq(KeyEvent) /\ since \in Seq(KeyEvent)
    BY <2>5
  <2> QED BY <2>2, <2>3, <2>4, <2>5, <2>6, <2>7 DEF TypeInv, RemoteTypeOK
<1>2. TypeInv /\ [Next]_vars => TypeInv'
  <2> SUFFICES ASSUME TypeInv, [Next]_vars PROVE TypeInv'
    OBVIOUS
  <2>1. CASE UNCHANGED vars
    BY <2>1 DEF vars, injectVars, deviceVars, appVars, logVars, TypeInv, RemoteTypeOK, InjectTypeOK
  <2> QED BY <2>1, InjectsTypes, ScreenTypes DEF Next
<1> QED BY <1>1, <1>2, PTL DEF Spec

\* The types of the injector, the kernel's queues, the log and the window (keys.rs:54-60,
\* raw.rs:30-43).
THEOREM RemoteTypeCorrect == Spec => []RemoteTypeOK
<1>1. TypeInv => RemoteTypeOK
  BY DEF TypeInv
<1> QED BY <1>1, RemoteTypes, PTL

----------------------------------------------------------------------------
(***************************************************************************)
(* The log tells everything: LogTellsAll row by row.                       *)
(***************************************************************************)

\* The rows rs, the newest first, are the last keys of a source.
NewestFirst(rs, keys) ==
    /\ Len(rs) <= Len(keys)
    /\ \A i \in 1..Len(rs) : rs[i].key = keys[Len(keys) - i + 1]

LogInv ==
    /\ seq = Len(told["seat"]) + Len(told["raw"])
    /\ presses = Downs(told["seat"])
    /\ Len(rows) = IF seq < VisibleRows THEN seq ELSE VisibleRows
    /\ \A i \in 1..Len(rows) : rows[i].seq = seq - i + 1
    /\ \A c \in Clients : NewestFirst(Own(rows, c), told[c])
    /\ rows # <<>> => last = rows[1].key

LEMMA DownsOfConcat ==
    ASSUME NEW u \in Seq(KeyEvent), NEW v \in Seq(KeyEvent)
    PROVE  Downs(u \o v) = Downs(u) + Downs(v)
<1> DEFINE at == {i \in DOMAIN u : u[i].down}
           bt == {i \in DOMAIN v : v[i].down}
           ct == {i \in DOMAIN (u \o v) : (u \o v)[i].down}
<1>1. /\ \A i \in 1..Len(u) : i \in ct <=> i \in at
      /\ \A i \in 1..Len(v) : Len(u) + i \in ct <=> i \in bt
  <2> DEFINE uv == u \o v
  <2>1. /\ DOMAIN u = 1..Len(u) /\ DOMAIN v = 1..Len(v) /\ DOMAIN uv = 1..(Len(u) + Len(v))
        /\ Len(u) \in Nat /\ Len(v) \in Nat
        /\ \A i \in 1..Len(u) : uv[i] = u[i]
        /\ \A i \in 1..Len(v) : uv[Len(u) + i] = v[i]
    OBVIOUS
  <2> HIDE DEF uv
  <2>2. ct = {i \in DOMAIN uv : uv[i].down}
    BY DEF uv
  <2> QED BY <2>1, <2>2
<1> HIDE DEF at, bt, ct
<1>2. Selected(u \o v, ct) = Selected(u, at) \o Selected(v, bt)
  <2>1. Joins(u, at, v, bt, ct)
    BY <1>1 DEF Joins
  <2> QED BY <2>1, SelectedConcat
<1>3. Selected(u, at) \in Seq(KeyEvent) /\ Selected(v, bt) \in Seq(KeyEvent)
  BY SelectedType
<1>4. Len(Selected(u \o v, ct)) = Len(Selected(u, at)) + Len(Selected(v, bt))
  BY <1>2, <1>3
<1> QED BY <1>4 DEF Downs, at, bt, ct

\* The rows of one source, in what fresh rows of some source and old ones give.
From(rs, source) == \A i \in 1..Len(rs) : rs[i].source = source

LEMMA OwnParts ==
    ASSUME NEW f \in Seq(Row), NEW rs \in Seq(Row), NEW c
    PROVE  Own(f \o rs, c) = Own(f, c) \o Own(rs, c)
<1> DEFINE at == {i \in DOMAIN f : f[i].source = c}
           bt == {i \in DOMAIN rs : rs[i].source = c}
           fr == f \o rs
           ct == {i \in DOMAIN fr : fr[i].source = c}
<1>1. Joins(f, at, rs, bt, ct)
  <2>1. /\ DOMAIN f = 1..Len(f) /\ DOMAIN rs = 1..Len(rs) /\ DOMAIN fr = 1..(Len(f) + Len(rs))
        /\ Len(f) \in Nat /\ Len(rs) \in Nat
        /\ \A i \in 1..Len(f) : fr[i] = f[i]
        /\ \A i \in 1..Len(rs) : fr[Len(f) + i] = rs[i]
    OBVIOUS
  <2> HIDE DEF fr
  <2>2. /\ \A i \in 1..Len(f) : i \in ct <=> i \in at
        /\ \A i \in 1..Len(rs) : Len(f) + i \in ct <=> i \in bt
    BY <2>1
  <2> HIDE DEF at, bt, ct
  <2> QED BY <2>2 DEF Joins
<1> HIDE DEF at, bt, ct
<1>2. Selected(f \o rs, ct) = Selected(f, at) \o Selected(rs, bt)
  BY <1>1, SelectedConcat
<1> QED BY <1>2 DEF Own, at, bt, ct

LEMMA OwnOfConcat ==
    ASSUME NEW f \in Seq(Row), NEW rs \in Seq(Row), NEW c, From(f, c)
    PROVE  Own(f \o rs, c) = f \o Own(rs, c)
<1> DEFINE at == {i \in DOMAIN f : f[i].source = c}
<1>1. \A i \in 1..Len(f) : i \in at
  BY DEF From
<1> HIDE DEF at
<1>2. Selected(f, at) = f
  BY <1>1, SelectedAll
<1>3. Own(f, c) = f
  BY <1>2 DEF Own, at
<1>4. Own(f \o rs, c) = Own(f, c) \o Own(rs, c)
  BY OwnParts
<1> QED BY <1>3, <1>4

LEMMA OwnOfOther ==
    ASSUME NEW f \in Seq(Row), NEW rs \in Seq(Row), NEW source, NEW c, From(f, source), c # source
    PROVE  Own(f \o rs, c) = Own(rs, c)
<1> DEFINE at == {i \in DOMAIN f : f[i].source = c}
<1>1. \A i \in 1..Len(f) : i \notin at
  BY DEF From
<1> HIDE DEF at
<1>2. Selected(f, at) = <<>>
  BY <1>1, SelectedNone
<1>3. Own(f, c) = <<>>
  BY <1>2 DEF Own, at
<1>4. Own(rs, c) \in Seq(Row)
  BY SelectedType DEF Own
<1>5. <<>> \o Own(rs, c) = Own(rs, c)
  BY <1>4, ConcatEmptySeq
<1>6. Own(f \o rs, c) = Own(f, c) \o Own(rs, c)
  BY OwnParts
<1> QED BY <1>3, <1>5, <1>6

LEMMA OwnOfHead ==
    ASSUME NEW rs \in Seq(Row), NEW c, NEW m \in 0..Len(rs), NEW keys \in Seq(KeyEvent), NewestFirst(Own(rs, c), keys)
    PROVE  NewestFirst(Own(SubSeq(rs, 1, m), c), keys)
<1> DEFINE at == {i \in DOMAIN rs : rs[i].source = c}
           bt == {i \in DOMAIN SubSeq(rs, 1, m) : SubSeq(rs, 1, m)[i].source = c}
<1>1. \A i \in 1..m : i \in at <=> i \in bt
  <2> DEFINE h == SubSeq(rs, 1, m)
  <2>1. /\ DOMAIN rs = 1..Len(rs) /\ DOMAIN h = 1..m /\ Len(rs) \in Nat
        /\ \A i \in 1..m : h[i] = rs[i]
    OBVIOUS
  <2> HIDE DEF h
  <2>2. bt = {i \in DOMAIN h : h[i].source = c}
    BY DEF h
  <2> QED BY <2>1, <2>2
<1> HIDE DEF at, bt
<1>2. /\ Len(Selected(SubSeq(rs, 1, m), bt)) <= Len(Selected(rs, at))
      /\ \A k \in 1..Len(Selected(SubSeq(rs, 1, m), bt)) :
             Selected(SubSeq(rs, 1, m), bt)[k] = Selected(rs, at)[k]
  BY <1>1, SelectedOfHead
<1>3. Own(SubSeq(rs, 1, m), c) = Selected(SubSeq(rs, 1, m), bt) /\ Own(rs, c) = Selected(rs, at)
  BY DEF Own, at, bt
<1> DEFINE few == Own(SubSeq(rs, 1, m), c)
           all == Own(rs, c)
<1>4. Len(few) \in Nat /\ Len(all) \in Nat /\ Len(few) <= Len(all)
      /\ \A k \in 1..Len(few) : few[k] = all[k]
  <2>1. SubSeq(rs, 1, m) \in Seq(Row)
    OBVIOUS
  <2>2. Selected(SubSeq(rs, 1, m), bt) \in Seq(Row) /\ Selected(rs, at) \in Seq(Row)
    BY <2>1, SelectedType
  <2>3. Len(few) \in Nat /\ Len(all) \in Nat
    BY <1>3, <2>2
  <2> QED BY <1>2, <1>3, <2>3
<1>5. Len(keys) \in Nat /\ NewestFirst(all, keys)
  OBVIOUS
<1> HIDE DEF few, all
<1>6. NewestFirst(few, keys)
  BY <1>4, <1>5 DEF NewestFirst
<1> QED BY <1>6 DEF few

LEMMA RowsConcat ==
    ASSUME NEW f \in Seq(Row), NEW rs \in Seq(Row)
    PROVE  /\ Len(f \o rs) = Len(f) + Len(rs)
           /\ \A i \in 1..Len(f) : (f \o rs)[i] = f[i]
           /\ \A i \in 1..Len(rs) : (f \o rs)[Len(f) + i] = rs[i]
  BY ConcatIndices

LEMMA NewestFirstGrows ==
    ASSUME NEW f \in Seq(Row), NEW rs \in Seq(Row), NEW old \in Seq(KeyEvent), NEW keys \in Seq(KeyEvent),
           NewestFirst(rs, old), Len(f) = Len(keys),
           \A i \in 1..Len(keys) : f[i].key = keys[Len(keys) - i + 1]
    PROVE  NewestFirst(f \o rs, old \o keys)
<1> DEFINE fr == f \o rs
           ok == old \o keys
           n == Len(keys)
           p == Len(old)
           r == Len(rs)
<1>1. /\ n \in Nat /\ p \in Nat /\ r \in Nat /\ r <= p
      /\ Len(fr) = n + r /\ Len(ok) = p + n
      /\ \A i \in 1..n : fr[i] = f[i]
      /\ \A i \in 1..r : fr[n + i] = rs[i]
      /\ \A i \in 1..n : ok[p + i] = keys[i]
      /\ \A i \in 1..p : ok[i] = old[i]
      /\ \A i \in 1..r : rs[i].key = old[p - i + 1]
      /\ \A i \in 1..n : f[i].key = keys[n - i + 1]
  <2>1. /\ Len(fr) = n + r
        /\ \A i \in 1..n : fr[i] = f[i]
        /\ \A i \in 1..r : fr[n + i] = rs[i]
    <3>1. /\ Len(f \o rs) = Len(f) + Len(rs)
          /\ \A i \in 1..Len(f) : (f \o rs)[i] = f[i]
          /\ \A i \in 1..Len(rs) : (f \o rs)[Len(f) + i] = rs[i]
      BY RowsConcat
    <3> QED BY <3>1
  <2>2. /\ Len(ok) = p + n
        /\ \A i \in 1..p : ok[i] = old[i]
        /\ \A i \in 1..n : ok[p + i] = keys[i]
    BY ConcatIndices
  <2>3. n \in Nat /\ p \in Nat /\ r \in Nat
    OBVIOUS
  <2>4. r <= p /\ \A i \in 1..r : rs[i].key = old[p - i + 1]
    BY DEF NewestFirst
  <2> HIDE DEF fr, ok
  <2> QED BY <2>1, <2>2, <2>3, <2>4
<1> HIDE DEF fr, ok, n, p, r
<1>2. ASSUME NEW i \in 1..(n + r) PROVE fr[i].key = ok[(p + n) - i + 1]
  <2>1. CASE i <= n
    <3>1. i \in 1..n /\ n - i + 1 \in 1..n /\ (p + n) - i + 1 = p + (n - i + 1)
      BY <1>1, <2>1
    <3> QED BY <1>1, <3>1
  <2>2. CASE ~(i <= n)
    <3>1. i - n \in 1..r /\ n + (i - n) = i /\ p - (i - n) + 1 \in 1..p
          /\ p - (i - n) + 1 = (p + n) - i + 1
      BY <1>1, <2>2
    <3>2. fr[n + (i - n)] = rs[i - n] /\ rs[i - n].key = old[p - (i - n) + 1]
          /\ ok[p - (i - n) + 1] = old[p - (i - n) + 1]
      BY <1>1, <3>1
    <3> QED BY <3>1, <3>2
  <2> QED BY <2>1, <2>2
<1>3. n + r <= p + n
  BY <1>1
<1> QED BY <1>1, <1>2, <1>3 DEF NewestFirst, fr, ok

LEMMA SumsAgree ==
    ASSUME NEW a \in Nat, NEW b \in Nat, NEW n \in Nat
    PROVE  (a + n) + b = (a + b) + n /\ a + (b + n) = (a + b) + n
  OBVIOUS

LEMMA PushedLog ==
    ASSUME LogTypeOK, LogInv, NEW source \in Clients, NEW keys \in Seq(KeyEvent),
           Pushed(source, keys, IF source = "seat" THEN Downs(keys) ELSE 0)
    PROVE  LogInv'
<1> DEFINE pressed == IF source = "seat" THEN Downs(keys) ELSE 0
           f == Fresh(source, keys)
           full == f \o rows
           n == Len(keys)
           m == Len(rows')
<1>0. /\ rows \in Seq(Row) /\ Len(rows) <= VisibleRows /\ VisibleRows \in Nat \ {0}
      /\ seq \in Nat /\ presses \in 0..seq
      /\ told \in [Clients -> Seq(KeyEvent)] /\ Clients = {"seat", "raw"}
  BY RowsAssumption DEF LogTypeOK, Clients
<1>1. /\ rows' = Trimmed(full)
      /\ seq' = seq + n /\ presses' = presses + pressed
      /\ last' = IF n = 0 THEN last ELSE keys[n]
      /\ told' = [told EXCEPT ![source] = @ \o keys]
  BY <1>0, PushedIs
<1>2. /\ f \in Seq(Row) /\ Len(f) = n /\ n \in Nat
      /\ \A i \in 1..n : /\ f[i].seq = seq + n - i + 1
                         /\ f[i].source = source
                         /\ f[i].key = keys[n - i + 1]
  BY <1>0, FreshType
<1>3. /\ full \in Seq(Row) /\ Len(full) = n + Len(rows)
      /\ \A i \in 1..n : full[i] = f[i]
      /\ \A i \in 1..Len(rows) : full[n + i] = rows[i]
  <2>1. /\ full \in Seq(Row) /\ Len(full) = Len(f) + Len(rows)
        /\ \A i \in 1..Len(f) : full[i] = f[i]
        /\ \A i \in 1..Len(rows) : full[Len(f) + i] = rows[i]
    <3>1. f \in Seq(Row) /\ rows \in Seq(Row)
      BY <1>0, <1>2
    <3> HIDE DEF f
    <3> QED BY <3>1, ConcatIndices
  <2> HIDE DEF f, n, full
  <2> QED BY <1>2, <2>1
<1> HIDE DEF f, full
<1>4. /\ m \in 0..Len(full) /\ rows' = SubSeq(full, 1, m)
      /\ m = IF Len(full) < VisibleRows THEN Len(full) ELSE VisibleRows
  <2>1. PICK j \in 0..Len(full) :
            /\ Trimmed(full) = SubSeq(full, 1, j) /\ j = Len(Trimmed(full))
            /\ j = IF Len(full) < VisibleRows THEN Len(full) ELSE VisibleRows
    BY <1>3, TrimmedIs
  <2> QED BY <1>1, <2>1
<1>5. \A i \in 1..m : rows'[i] = full[i]
  <2> HIDE DEF m
  <2> QED BY <1>3, <1>4
<1>6. /\ seq = Len(told["seat"]) + Len(told["raw"]) /\ presses = Downs(told["seat"])
      /\ Len(rows) = IF seq < VisibleRows THEN seq ELSE VisibleRows
      /\ \A i \in 1..Len(rows) : rows[i].seq = seq - i + 1
      /\ \A c \in Clients : NewestFirst(Own(rows, c), told[c])
      /\ rows # <<>> => last = rows[1].key
  BY DEF LogInv
<1>7. /\ told'[source] = told[source] \o keys
      /\ \A c \in Clients : c # source => told'[c] = told[c]
      /\ Len(told[source] \o keys) = Len(told[source]) + n
  BY <1>0, <1>1
<1> HIDE DEF m, n
<1>8. seq' = Len(told'["seat"]) + Len(told'["raw"])
  <2>1. Len(told["seat"]) \in Nat /\ Len(told["raw"]) \in Nat
    BY <1>0
  <2>2. seq' = seq + n /\ seq = Len(told["seat"]) + Len(told["raw"]) /\ n \in Nat
    BY <1>1, <1>2, <1>6
  <2>3. CASE source = "seat"
    <3>1. Len(told'["seat"]) = Len(told["seat"]) + n /\ Len(told'["raw"]) = Len(told["raw"])
      BY <1>0, <1>7, <2>3
    <3>2. Len(told'["seat"]) + Len(told'["raw"]) = (Len(told["seat"]) + n) + Len(told["raw"])
      BY <3>1, Zenon
    <3>3. (Len(told["seat"]) + n) + Len(told["raw"]) = (Len(told["seat"]) + Len(told["raw"])) + n
      BY <1>2, <2>1, SumsAgree
    <3> QED BY <2>2, <3>2, <3>3, Zenon
  <2>4. CASE source = "raw"
    <3>1. Len(told'["raw"]) = Len(told["raw"]) + n /\ Len(told'["seat"]) = Len(told["seat"])
      BY <1>0, <1>7, <2>4
    <3>2. Len(told'["seat"]) + Len(told'["raw"]) = Len(told["seat"]) + (Len(told["raw"]) + n)
      BY <3>1, Zenon
    <3>3. Len(told["seat"]) + (Len(told["raw"]) + n) = (Len(told["seat"]) + Len(told["raw"])) + n
      BY <1>2, <2>1, SumsAgree
    <3> QED BY <2>2, <3>2, <3>3, Zenon
  <2> QED BY <1>0, <2>3, <2>4
<1>9. presses' = Downs(told'["seat"])
  <2>1. CASE source = "seat"
    <3>1. Downs(told["seat"] \o keys) = Downs(told["seat"]) + Downs(keys)
      BY <1>0, DownsOfConcat
    <3> QED BY <1>1, <1>6, <1>7, <2>1, <3>1
  <2>2. CASE source # "seat"
    BY <1>0, <1>1, <1>6, <1>7, <2>2
  <2> QED BY <2>1, <2>2
<1>10. Len(rows') = IF seq' < VisibleRows THEN seq' ELSE VisibleRows
  BY <1>0, <1>1, <1>2, <1>3, <1>4, <1>6 DEF m
<1>11. ASSUME NEW i \in 1..Len(rows') PROVE rows'[i].seq = seq' - i + 1
  <2>1. i \in 1..m /\ i \in 1..(n + Len(rows)) /\ Len(rows) \in Nat
    BY <1>0, <1>2, <1>3, <1>4, <1>11 DEF m
  <2>2. CASE i <= n
    <3>1. i \in 1..n
      BY <1>2, <2>1, <2>2
    <3>2. rows'[i].seq = seq + n - i + 1
      BY <1>2, <1>3, <1>5, <2>1, <3>1
    <3> QED BY <1>0, <1>1, <1>2, <2>1, <3>2
  <2>3. CASE ~(i <= n)
    <3>1. i - n \in 1..Len(rows) /\ n + (i - n) = i
      BY <1>2, <2>1, <2>3
    <3>2. full[n + (i - n)] = rows[i - n] /\ rows[i - n].seq = seq - (i - n) + 1
      BY <1>3, <1>6, <3>1
    <3>3. seq - (i - n) + 1 = seq' - i + 1
      BY <1>0, <1>1, <1>2, <2>1
    <3> QED BY <1>5, <2>1, <3>1, <3>2, <3>3
  <2> QED BY <2>2, <2>3
<1>12. ASSUME NEW c \in Clients PROVE NewestFirst(Own(rows', c), told'[c])
  <2>1. told[c] \in Seq(KeyEvent) /\ told[source] \o keys \in Seq(KeyEvent)
        /\ NewestFirst(Own(rows, c), told[c])
    BY <1>0, <1>6
  <2>2. f \in Seq(Row) /\ rows \in Seq(Row) /\ From(f, source) /\ full = f \o rows
    BY <1>0, <1>2 DEF From, full
  <2>3. Own(rows, c) \in Seq(Row)
    BY <1>0, SelectedType DEF Own
  <2>4. NewestFirst(Own(full, c), told'[c])
    <3>1. CASE c = source
      <4>1. NewestFirst(f \o Own(rows, c), told[c] \o keys)
        BY <1>2, <2>1, <2>3, NewestFirstGrows DEF n
      <4>2. Own(f \o rows, c) = f \o Own(rows, c)
        BY <2>2, <3>1, OwnOfConcat
      <4> QED BY <1>7, <2>2, <3>1, <4>1, <4>2
    <3>2. CASE c # source
      <4>1. Own(f \o rows, c) = Own(rows, c)
        BY <2>2, <3>2, OwnOfOther
      <4> QED BY <1>7, <2>1, <2>2, <3>2, <4>1
    <3> QED BY <3>1, <3>2
  <2>5. told'[c] \in Seq(KeyEvent)
    BY <1>7, <2>1
  <2>6. NewestFirst(Own(SubSeq(full, 1, m), c), told'[c])
    BY <1>3, <1>4, <2>4, <2>5, OwnOfHead
  <2> QED BY <1>4, <2>6
<1>13. rows' # <<>> => last' = rows'[1].key
  <2> SUFFICES ASSUME rows' # <<>> PROVE last' = rows'[1].key
    OBVIOUS
  <2>1. m >= 1 /\ m \in Nat
    <3>1. rows' \in Seq(Row)
      BY <1>3, <1>4
    <3> QED BY <3>1 DEF m
  <2>2. rows'[1] = full[1] /\ Len(rows) \in Nat
    BY <1>0, <1>5, <2>1
  <2>3. CASE n = 0
    <3>1. Len(rows) >= 1
      BY <1>3, <1>4, <2>1, <2>2, <2>3
    <3>2. full[0 + 1] = rows[1] /\ rows # <<>>
      BY <1>3, <2>2, <2>3, <3>1
    <3> QED BY <1>1, <1>6, <2>2, <2>3, <3>2
  <2>4. CASE n # 0
    <3>1. 1 \in 1..n /\ n - 1 + 1 = n
      BY <1>2, <2>4
    <3> QED BY <1>1, <1>2, <1>3, <2>2, <2>4, <3>1
  <2> QED BY <2>3, <2>4
<1> QED BY <1>8, <1>9, <1>10, <1>11, <1>12, <1>13 DEF LogInv

LEMMA LogStays ==
    ASSUME TypeInv, LogInv, [Next]_vars
    PROVE  LogInv'
<1>1. LogTypeOK /\ Clients = {"seat", "raw"}
  BY DEF TypeInv, RemoteTypeOK, LogTypeOK, Clients
<1>2. ASSUME UNCHANGED logVars PROVE LogInv'
  BY <1>2 DEF LogInv, logVars
<1>3. CASE SeatKey
  <2> DEFINE e == Head(queue["seat"])
  <2>1. Pushed("seat", <<e>>, Downs(<<e>>)) /\ e \in KeyEvent
    BY <1>3 DEF SeatKey, OnSeatKey, TypeInv
  <2> HIDE DEF e
  <2>2. <<e>> \in Seq(KeyEvent) /\ "seat" \in Clients
    BY <1>1, <2>1
  <2>3. Pushed("seat", <<e>>, IF "seat" = "seat" THEN Downs(<<e>>) ELSE 0)
    BY <2>1
  <2> QED BY <1>1, <2>2, <2>3, PushedLog
<1>4. CASE TimerCb
  <2>1. Pushed("raw", channel, 0) /\ channel \in Seq(KeyEvent)
    BY <1>4 DEF TimerCb, OnRawKeys, Drain, TypeInv, RemoteTypeOK
  <2>2. Pushed("raw", channel, IF "raw" = "seat" THEN Downs(channel) ELSE 0) /\ "raw" \in Clients
    BY <1>1, <2>1
  <2> QED BY <1>1, <2>1, <2>2, PushedLog
<1>5. CASE Injects \/ StartOff \/ StartRaw \/ StartFails \/ SeatDrops \/ Close \/ ReadEvent \/ ReadFails
  <2>1. UNCHANGED logVars
    BY <1>5 DEF Injects, StartOff, StartRaw, StartFails, SeatDrops, Close, ReadEvent, ReadFails, appVars
  <2> QED BY <1>2, <2>1
<1>6. CASE UNCHANGED vars
  BY <1>2, <1>6 DEF vars, appVars
<1> QED BY <1>3, <1>4, <1>5, <1>6 DEF Next

\* What the rows of a source show is the end of what it told, read backwards.
LEMMA NewestFirstIsSuffix ==
    ASSUME NEW rs \in Seq(Row), NEW keys \in Seq(KeyEvent), NewestFirst(rs, keys),
           NEW shown, shown = [i \in DOMAIN rs |-> rs[i].key]
    PROVE  IsSuffix(Reverse(shown), keys)
<1> DEFINE n == Len(rs)
           p == Len(keys)
           back == Reverse(Reverse(shown))
           ends == Reverse(keys)
<1>1. n \in Nat /\ p \in Nat /\ n <= p /\ \A i \in 1..n : rs[i].key = keys[p - i + 1]
  BY DEF NewestFirst
<1>2. Len(shown) = n /\ \A i \in 1..n : shown[i] = keys[p - i + 1]
  BY <1>1
<1>3. Len(back) = n /\ \A i \in 1..n : back[i] = shown[i]
  <2> DEFINE once == Reverse(shown)
  <2>1. once = [i \in 1..n |-> shown[(n - i) + 1]]
    BY <1>2 DEF Reverse
  <2> HIDE DEF once
  <2>2. Len(once) = n /\ \A i \in 1..n : once[i] = shown[(n - i) + 1]
    BY <1>1, <2>1
  <2>3. Reverse(once) = [i \in 1..n |-> once[(n - i) + 1]]
    BY <2>2 DEF Reverse
  <2>4. Len(Reverse(once)) = n /\ \A i \in 1..n : Reverse(once)[i] = once[(n - i) + 1]
    BY <1>1, <2>3
  <2>5. \A i \in 1..n : (n - i) + 1 \in 1..n /\ (n - ((n - i) + 1)) + 1 = i
    BY <1>1
  <2> QED BY <2>2, <2>4, <2>5 DEF once
<1>4. Len(ends) = p /\ \A i \in 1..p : ends[i] = keys[(p - i) + 1]
  BY <1>1 DEF Reverse
<1>5. back \in Seq(KeyEvent) /\ ends \in Seq(KeyEvent)
  <2>1. ends \in Seq(KeyEvent)
    <3>1. \A i \in 1..p : keys[(p - i) + 1] \in KeyEvent
      BY <1>1
    <3>2. ends = [i \in 1..p |-> keys[(p - i) + 1]]
      BY DEF Reverse
    <3> QED BY <1>1, <3>1, <3>2
  <2>2. back = [i \in 1..n |-> back[i]]
    BY <1>3 DEF Reverse
  <2>3. \A i \in 1..n : back[i] \in KeyEvent
    BY <1>1, <1>2, <1>3
  <2> HIDE DEF back
  <2>4. back \in [1..n -> KeyEvent]
    BY <2>2, <2>3, Zenon
  <2> QED BY <1>1, <2>1, <2>4
<1> HIDE DEF back, ends, n, p
<1>6. IsPrefix(back, ends)
  BY <1>1, <1>2, <1>3, <1>4, <1>5 DEF IsPrefix
<1> QED BY <1>6 DEF IsSuffix, back, ends

\* Seat and node push to one log (main.rs:70-93): its rows are the newest keys of both, in
\* the order of each and numbered without a gap, and both counters are right (keys.rs:113-134).
THEOREM LogTellsAllCorrect == Spec => []LogTellsAll
<1>1. Init => LogInv
  <2> SUFFICES ASSUME Init PROVE LogInv
    OBVIOUS
  <2>1. /\ rows = <<>> /\ seq = 0 /\ presses = 0 /\ Clients = {"seat", "raw"}
        /\ \A c \in Clients : told[c] = <<>>
    BY DEF Init, Clients
  <2>2. <<>> \in Seq(Row) /\ <<>> \in Seq(KeyEvent) /\ Len(<<>>) = 0
    BY EmptySeq
  <2>3. Downs(<<>>) = 0
    <3>1. Downs(<<>>) \in 0..Len(<<>>)
      BY <2>2, DownsCount
    <3> QED BY <2>2, <3>1
  <2>4. ASSUME NEW c PROVE NewestFirst(Own(<<>>, c), <<>>)
    <3>1. Len(Own(<<>>, c)) \in 0..Len(<<>>)
      BY <2>2, SelectedShorter DEF Own
    <3>2. Len(Own(<<>>, c)) = 0
      BY <2>2, <3>1
    <3> QED BY <2>2, <3>2 DEF NewestFirst
  <2>5. VisibleRows \in Nat \ {0}
    BY RowsAssumption
  <2>6. \A c \in Clients : NewestFirst(Own(rows, c), told[c])
    BY <2>1, <2>4, Zenon
  <2>7. Len(rows) = 0 /\ seq = Len(told["seat"]) + Len(told["raw"]) /\ presses = Downs(told["seat"])
    <3>1. Len(told["seat"]) = 0 /\ Len(told["raw"]) = 0 /\ Len(rows) = 0
      BY <2>1, <2>2, Zenon
    <3>2. told["seat"] = <<>>
      BY <2>1
    <3>3. presses = Downs(told["seat"])
      BY <2>1, <2>3, <3>2, Zenon
    <3>4. seq = Len(told["seat"]) + Len(told["raw"])
      <4>1. Len(told["seat"]) + Len(told["raw"]) = 0 + 0
        BY <3>1, Zenon
      <4>2. seq = 0 + 0
        BY <2>1
      <4> QED BY <4>1, <4>2, Zenon
    <3> QED BY <3>1, <3>3, <3>4
  <2>8. \A i \in 1..Len(rows) : rows[i].seq = seq - i + 1
    BY <2>7
  <2>9. Len(rows) = IF seq < VisibleRows THEN seq ELSE VisibleRows
    BY <2>1, <2>5, <2>7
  <2>10. rows # <<>> => last = rows[1].key
    BY <2>1
  <2> QED BY <2>6, <2>7, <2>8, <2>9, <2>10, Zenon DEF LogInv
<1>2. TypeInv /\ LogInv /\ [Next]_vars => LogInv'
  BY LogStays
<1>3. TypeInv /\ LogInv => LogTellsAll
  <2> SUFFICES ASSUME TypeInv, LogInv PROVE LogTellsAll
    OBVIOUS
  <2>1. rows \in Seq(Row) /\ told \in [Clients -> Seq(KeyEvent)]
    BY DEF TypeInv, RemoteTypeOK
  <2>2. ASSUME NEW c \in Clients PROVE IsSuffix(Reverse(Keys(c)), told[c])
    <3>1. Own(rows, c) \in Seq(Row)
      BY <2>1, SelectedType DEF Own
    <3>2. told[c] \in Seq(KeyEvent) /\ NewestFirst(Own(rows, c), told[c])
      BY <2>1 DEF LogInv
    <3>3. Keys(c) = [i \in DOMAIN Own(rows, c) |-> Own(rows, c)[i].key]
      BY DEF Keys
    <3> QED BY <3>1, <3>2, <3>3, NewestFirstIsSuffix
  <2>3. DOMAIN rows = 1..Len(rows)
    BY <2>1
  <2> QED BY <2>2, <2>3 DEF LogInv, LogTellsAll
<1> QED BY <1>1, <1>2, <1>3, RemoteTypes, PTL DEF Spec

----------------------------------------------------------------------------
(***************************************************************************)
(* From the node to the log: RawInOrder.                                   *)
(***************************************************************************)

LEMMA KeysOfConcat ==
    ASSUME NEW u \in Seq(Event), NEW v \in Seq(Event)
    PROVE  KeysOf(u \o v) = KeysOf(u) \o KeysOf(v)
<1> DEFINE at == {i \in DOMAIN u : u[i] # Other}
           bt == {i \in DOMAIN v : v[i] # Other}
           uv == u \o v
           ct == {i \in DOMAIN uv : uv[i] # Other}
<1>1. Joins(u, at, v, bt, ct)
  <2>1. /\ DOMAIN u = 1..Len(u) /\ DOMAIN v = 1..Len(v) /\ DOMAIN uv = 1..(Len(u) + Len(v))
        /\ Len(u) \in Nat /\ Len(v) \in Nat
        /\ \A i \in 1..Len(u) : uv[i] = u[i]
        /\ \A i \in 1..Len(v) : uv[Len(u) + i] = v[i]
    OBVIOUS
  <2> HIDE DEF uv
  <2>2. /\ \A i \in 1..Len(u) : i \in ct <=> i \in at
        /\ \A i \in 1..Len(v) : Len(u) + i \in ct <=> i \in bt
    BY <2>1
  <2> HIDE DEF at, bt, ct
  <2> QED BY <2>2 DEF Joins
<1> HIDE DEF at, bt, ct
<1>2. Selected(u \o v, ct) = Selected(u, at) \o Selected(v, bt)
  BY <1>1, SelectedConcat
<1> QED BY <1>2 DEF KeysOf, at, bt, ct

LEMMA KeysOfOne ==
    ASSUME NEW e \in Event
    PROVE  /\ e = Other => KeysOf(<<e>>) = <<>>
           /\ e # Other => KeysOf(<<e>>) = <<e>>
<1> DEFINE one == <<e>>
           at == {i \in DOMAIN one : one[i] # Other}
<1>1. one \in Seq(Event) /\ Len(one) = 1 /\ DOMAIN one = 1..1 /\ one[1] = e
  OBVIOUS
<1> HIDE DEF one
<1>2. CASE e = Other
  <2>1. \A i \in 1..Len(one) : i \notin at
    BY <1>1, <1>2
  <2> HIDE DEF at
  <2>2. Selected(one, at) = <<>>
    BY <1>1, <2>1, SelectedNone
  <2> QED BY <1>2, <2>2 DEF KeysOf, at, one
<1>3. CASE e # Other
  <2>1. \A i \in 1..Len(one) : i \in at
    BY <1>1, <1>3
  <2> HIDE DEF at
  <2>2. Selected(one, at) = one
    BY <1>1, <2>1, SelectedAll
  <2> QED BY <1>3, <2>2 DEF KeysOf, at, one
<1> QED BY <1>2, <1>3

LEMMA KeysOfNothing == KeysOf(<<>>) = <<>>
<1>1. <<>> \in Seq(Event) /\ \A at : \A i \in 1..Len(<<>>) : i \notin at
  BY EmptySeq
<1> QED BY <1>1, SelectedNone DEF KeysOf

\* What the first event of a queue brings.
LEMMA KeysOfQueue ==
    ASSUME NEW q \in Seq(Event), q # <<>>
    PROVE  /\ Head(q) = Other => KeysOf(q) = KeysOf(Tail(q))
           /\ Head(q) # Other => KeysOf(q) = <<Head(q)>> \o KeysOf(Tail(q))
<1> DEFINE e == Head(q)
           t == Tail(q)
<1>1. e \in Event /\ t \in Seq(Event) /\ <<e>> \in Seq(Event) /\ q = <<e>> \o t
  OBVIOUS
<1> HIDE DEF e, t
<1>2. KeysOf(q) = KeysOf(<<e>>) \o KeysOf(t) /\ KeysOf(t) \in Seq(KeyEvent)
  BY <1>1, KeysOfConcat, KeysOfType
<1>3. <<>> \o KeysOf(t) = KeysOf(t)
  BY <1>2, ConcatEmptySeq
<1> QED BY <1>1, <1>2, <1>3, KeysOfOne DEF e, t

\* What the node has given is what the log was told, what the channel holds and
\* a rest: as long as the reader reads it, the keys it has still to read.
RawInv ==
    /\ app = "starting" => "raw" \notin opened
    /\ "raw" \notin opened =>
           queue["raw"] = <<>> /\ channel = <<>> /\ told["raw"] = <<>> /\ since = <<>>
    /\ \E rest \in Seq(KeyEvent) :
           /\ (told["raw"] \o channel) \o rest = since
           /\ app = "running" /\ plugged => rest = KeysOf(queue["raw"])

LEMMA RawTypes ==
    ASSUME TypeInv
    PROVE  /\ queue["raw"] \in Seq(Event) /\ channel \in Seq(KeyEvent) /\ since \in Seq(KeyEvent)
           /\ told["raw"] \in Seq(KeyEvent) /\ told["raw"] \o channel \in Seq(KeyEvent)
           /\ queue \in [Clients -> Seq(Event)] /\ told \in [Clients -> Seq(KeyEvent)]
           /\ Clients = {"raw", "seat"} /\ opened \in SUBSET Clients
<1>1. /\ queue \in [Clients -> Seq(Event)] /\ channel \in Seq(KeyEvent) /\ since \in Seq(KeyEvent)
      /\ told \in [Clients -> Seq(KeyEvent)] /\ Clients = {"raw", "seat"} /\ opened \in SUBSET Clients
  BY DEF TypeInv, RemoteTypeOK, InjectTypeOK, Clients, Event
<1>2. told["raw"] \in Seq(KeyEvent)
  BY <1>1
<1> QED BY <1>1, <1>2, ConcatProperties

Both(w, u, v) == w = u \o v

LEMMA Regrouped ==
    ASSUME NEW a \in Seq(KeyEvent), NEW b \in Seq(KeyEvent), NEW c \in Seq(KeyEvent),
           NEW ab, Both(ab, a, b), NEW bc, Both(bc, b, c), NEW w, Both(w, ab, c)
    PROVE  Both(w, a, bc) /\ bc \in Seq(KeyEvent)
<1>1. (a \o b) \o c = a \o (b \o c)
  BY ConcatAssociative
<1>2. b \o c \in Seq(KeyEvent)
  BY ConcatProperties
<1> QED BY <1>1, <1>2 DEF Both

LEMMA InjectsRaw ==
    ASSUME TypeInv, RawInv, Injects
    PROVE  RawInv'
<1>1. InjectorGives /\ app' = app /\ channel' = channel /\ told' = told
  <2>1. InjectTypeOK /\ InjectorStep /\ app' = app /\ channel' = channel /\ told' = told
    BY DEF TypeInv, RemoteTypeOK, Injects, appVars, logVars
  <2> QED BY <2>1, InjectorStepGives
<1> DEFINE q == queue["raw"]
           new == SubSeq(queue'["raw"], Len(q) + 1, Len(queue'["raw"]))
<1>2. since' = IF "raw" \in opened THEN since \o KeysOf(new) ELSE since
  BY DEF Injects
<1>3. q \in Seq(Event) /\ queue \in [Clients -> Seq(Event)] /\ since \in Seq(KeyEvent)
      /\ told["raw"] \o channel \in Seq(KeyEvent)
  BY RawTypes
<1>4. PICK out \in Seq(Event) : queue'["raw"] = IF "raw" \in opened THEN q \o out ELSE q
  <2>1. CASE queue' = queue
    <3>1. <<>> \in Seq(Event) /\ q \o <<>> = q
      BY <1>3, EmptySeq, ConcatEmptySeq
    <3> QED BY <2>1, <3>1
  <2>2. ASSUME NEW out \in Seq(Event), queue' = Delivered(out)
        PROVE  queue'["raw"] = IF "raw" \in opened THEN q \o out ELSE q
    BY <1>3, <2>2, DeliveredType
  <2> QED BY <1>1, <2>1, <2>2 DEF InjectorGives
<1>5. opened' = opened /\ (plugged' => plugged)
  BY <1>1 DEF InjectorGives
<1>6. CASE "raw" \notin opened
  BY <1>1, <1>2, <1>4, <1>5, <1>6 DEF RawInv
<1>7. CASE "raw" \in opened
  <2>1. new = out
    <3> DEFINE qo == q \o out
    <3>1. queue'["raw"] = qo
      BY <1>4, <1>7
    <3>2. Len(q) \in Nat /\ Len(out) \in Nat /\ Len(qo) = Len(q) + Len(out) /\ qo \in Seq(Event)
          /\ (\A i \in 1..Len(out) : qo[Len(q) + i] = out[i])
      BY <1>3
    <3> HIDE DEF q, qo
    <3>3. SubSeq(qo, Len(q) + 1, Len(qo)) = out
      <4>1. SubSeq(qo, Len(q) + 1, Len(qo)) = [i \in 1..Len(out) |-> out[i]]
        BY <3>2
      <4>2. out = [i \in 1..Len(out) |-> out[i]]
        OBVIOUS
      <4> QED BY <4>1, <4>2
    <3> QED BY <3>1, <3>3
  <2> DEFINE past == told["raw"] \o channel
             keys == KeysOf(out)
  <2>2. PICK rest \in Seq(KeyEvent) :
            /\ past \o rest = since
            /\ app = "running" /\ plugged => rest = KeysOf(q)
    BY DEF RawInv
  <2>3. keys \in Seq(KeyEvent) /\ since' = since \o keys
    BY <1>2, <1>7, <2>1, KeysOfType
  <2>4. KeysOf(q \o out) = KeysOf(q) \o keys
    BY <1>3, KeysOfConcat
  <2>5. past \in Seq(KeyEvent)
    BY <1>3
  <2>6. past = told'["raw"] \o channel' /\ queue'["raw"] = q \o out
    BY <1>1, <1>4, <1>7
  <2> HIDE DEF past, keys, q, new
  <2>7. past \o (rest \o keys) = since' /\ rest \o keys \in Seq(KeyEvent)
    <3> DEFINE more == rest \o keys
    <3>1. Both(more, rest, keys) /\ Both(since, past, rest) /\ Both(since', since, keys)
      BY <2>2, <2>3 DEF Both
    <3> HIDE DEF more
    <3>2. Both(since', past, more) /\ more \in Seq(KeyEvent)
      BY <2>3, <2>5, <3>1, Regrouped
    <3> QED BY <3>2 DEF more, Both
  <2>8. app' = "running" /\ plugged' => rest \o keys = KeysOf(queue'["raw"])
    BY <1>1, <1>5, <2>2, <2>4, <2>6
  <2>9. app' = "starting" => "raw" \notin opened'
    BY <1>1, <1>5 DEF RawInv
  <2> QED BY <1>5, <1>7, <2>6, <2>7, <2>8, <2>9 DEF RawInv
<1> QED BY <1>6, <1>7

LEMMA ReadsRaw ==
    ASSUME TypeInv, RawInv, ReadEvent
    PROVE  RawInv'
<1> DEFINE q == queue["raw"]
           e == Head(q)
           past == told["raw"] \o channel
<1>1. /\ q \in Seq(Event) /\ q # <<>> /\ e \in Event /\ Tail(q) \in Seq(Event)
      /\ channel \in Seq(KeyEvent) /\ told["raw"] \in Seq(KeyEvent) /\ past \in Seq(KeyEvent)
  BY RawTypes DEF ReadEvent
<1>2. /\ queue'["raw"] = Tail(q) /\ plugged' = plugged /\ opened' = opened
      /\ app' = app /\ told' = told /\ since' = since /\ plugged
  BY RawTypes DEF ReadEvent, TakenFrom, logVars
<1>3. \/ e = Other /\ channel' = channel
      \/ e # Other /\ app = "running" /\ channel' = Append(channel, e)
      \/ app # "running" /\ channel' = channel
  BY DEF ReadEvent
<1>4. PICK rest \in Seq(KeyEvent) :
          /\ past \o rest = since
          /\ app = "running" /\ plugged => rest = KeysOf(q)
  BY DEF RawInv
<1>5. "raw" \in opened /\ (app' = "starting" => "raw" \notin opened')
  BY <1>1, <1>2 DEF RawInv
<1>6. CASE channel' = channel /\ (e = Other \/ app # "running")
  <2>1. told'["raw"] \o channel' = past
    BY <1>2, <1>6
  <2>2. app' = "running" /\ plugged' => rest = KeysOf(queue'["raw"])
    BY <1>1, <1>2, <1>4, <1>6, KeysOfQueue
  <2> HIDE DEF past
  <2>3. (told'["raw"] \o channel') \o rest = since'
    BY <1>2, <1>4, <2>1
  <2> QED BY <1>2, <1>5, <2>2, <2>3 DEF RawInv
<1>7. CASE e # Other /\ app = "running" /\ channel' = Append(channel, e)
  <2>1. e \in KeyEvent /\ KeysOf(Tail(q)) \in Seq(KeyEvent)
    BY <1>1, <1>7, KeysOfType DEF Event
  <2> DEFINE one == <<e>>
             left == KeysOf(Tail(q))
             old == told["raw"]
  <2>2. one \in Seq(KeyEvent) /\ channel' = channel \o one
    BY <1>1, <1>7, <2>1
  <2>3. rest = one \o left
    BY <1>1, <1>2, <1>4, <1>7, KeysOfQueue
  <2>4. told'["raw"] \o channel' = past \o one
    <3> DEFINE more == channel \o one
               longer == past \o one
    <3>1. /\ Both(more, channel, one) /\ Both(past, old, channel) /\ old \in Seq(KeyEvent)
          /\ Both(longer, past, one)
      BY <1>1 DEF Both
    <3> HIDE DEF one, more, past, old, longer
    <3>2. Both(longer, old, more)
      BY <1>1, <2>2, <3>1, Regrouped
    <3> QED BY <1>2, <2>2, <3>2 DEF more, old, longer, Both
  <2>5. past \o rest = since /\ left \in Seq(KeyEvent) /\ since' = since
    BY <1>2, <1>4, <2>1
  <2>6. left = KeysOf(queue'["raw"])
    BY <1>2
  <2> HIDE DEF past, one, left
  <2> DEFINE more == told'["raw"] \o channel'
  <2>7. more = past \o one
    BY <2>4
  <2> HIDE DEF more
  <2>8. more \o left = since'
    <3> DEFINE all == more \o left
    <3>1. Both(more, past, one) /\ Both(rest, one, left) /\ Both(all, more, left)
      BY <2>3, <2>7 DEF Both
    <3> HIDE DEF all
    <3>2. Both(all, past, rest)
      BY <1>1, <2>2, <2>5, <3>1, Regrouped
    <3> QED BY <2>5, <3>2 DEF all, Both
  <2> QED BY <1>2, <1>5, <2>5, <2>6, <2>8 DEF RawInv, more
<1> QED BY <1>3, <1>6, <1>7

\* A step of neither the node nor the channel.
LEMMA RawUntouched ==
    ASSUME RawInv, queue'["raw"] = queue["raw"], channel' = channel, told'["raw"] = told["raw"],
           since' = since, app' = app, opened' = opened, plugged' = plugged
    PROVE  RawInv'
  BY DEF RawInv

LEMMA RawStays ==
    ASSUME TypeInv, RawInv, [Next]_vars
    PROVE  RawInv'
<1>1. /\ queue \in [Clients -> Seq(Event)] /\ told \in [Clients -> Seq(KeyEvent)]
      /\ Clients = {"raw", "seat"} /\ channel \in Seq(KeyEvent)
      /\ told["raw"] \in Seq(KeyEvent) /\ told["raw"] \o channel \in Seq(KeyEvent)
      /\ seq \in Nat
  BY RawTypes DEF TypeInv, RemoteTypeOK
<1>2. <<>> \in Seq(KeyEvent) /\ <<>> \o <<>> = <<>>
  BY EmptySeq, ConcatEmptySeq
<1> DEFINE past == told["raw"] \o channel
<1>3. PICK rest \in Seq(KeyEvent) :
          /\ past \o rest = since
          /\ app = "running" /\ plugged => rest = KeysOf(queue["raw"])
  BY DEF RawInv
<1>4. CASE StartOff \/ StartRaw
  <2>1. /\ queue["raw"] = <<>> /\ channel = <<>> /\ told["raw"] = <<>> /\ since = <<>>
    BY <1>4 DEF StartOff, StartRaw, RawInv
  <2>2. /\ queue' = queue /\ channel' = channel /\ told' = told /\ since' = since /\ app' = "running"
    BY <1>4 DEF StartOff, StartRaw, Opens, logVars
  <2>3. (told'["raw"] \o channel') \o <<>> = since'
    BY <1>2, <2>1, <2>2
  <2>4. <<>> = KeysOf(queue'["raw"])
    BY <2>1, <2>2, KeysOfNothing
  <2> QED BY <1>2, <2>1, <2>2, <2>3, <2>4 DEF RawInv
<1>5. CASE StartFails
  <2>1. /\ queue' = queue /\ channel' = channel /\ told' = told /\ since' = since
        /\ app' = "failed" /\ opened' = opened
    BY <1>5 DEF StartFails, deviceVars, logVars
  <2> QED BY <2>1 DEF RawInv
<1>6. CASE SeatKey
  <2> DEFINE e == Head(queue["seat"])
  <2>1. Pushed("seat", <<e>>, Downs(<<e>>)) /\ e \in KeyEvent
    BY <1>6 DEF SeatKey, OnSeatKey, TypeInv
  <2> HIDE DEF e
  <2>2. <<e>> \in Seq(KeyEvent) /\ "seat" \in Clients
    BY <1>1, <2>1
  <2>3. told' = [told EXCEPT !["seat"] = @ \o <<e>>]
    BY <1>1, <2>1, <2>2, PushedIs
  <2>4. told'["raw"] = told["raw"]
    BY <1>1, <2>3
  <2>5. queue'["raw"] = queue["raw"]
    BY <1>1, <1>6 DEF SeatKey, TakenFrom
  <2>6. channel' = channel /\ since' = since /\ app' = app /\ opened' = opened /\ plugged' = plugged
    BY <1>6 DEF SeatKey, TakenFrom
  <2> QED BY <2>4, <2>5, <2>6, RawUntouched
<1>7. CASE SeatDrops \/ ReadFails
  <2>1. queue'["raw"] = queue["raw"]
    BY <1>1, <1>7 DEF SeatDrops, ReadFails, deviceVars
  <2>2. channel' = channel /\ since' = since /\ app' = app /\ opened' = opened /\ plugged' = plugged
        /\ told' = told
    BY <1>7 DEF SeatDrops, ReadFails, deviceVars, appVars, logVars
  <2> QED BY <2>1, <2>2, RawUntouched
<1>8. CASE TimerCb
  <2>1. Pushed("raw", channel, 0) /\ channel # <<>>
    BY <1>8 DEF TimerCb, OnRawKeys, Drain
  <2>2. told' = [told EXCEPT !["raw"] = @ \o channel]
    BY <1>1, <2>1, PushedIs
  <2>3. told'["raw"] = past /\ channel' = <<>>
    BY <1>1, <1>8, <2>2 DEF TimerCb
  <2>4. past \o <<>> = past
    BY <1>1, ConcatEmptySeq
  <2>5. queue' = queue /\ since' = since /\ app' = app /\ opened' = opened /\ plugged' = plugged
    BY <1>8 DEF TimerCb, deviceVars
  <2>6. "raw" \in opened /\ (app' = "starting" => "raw" \notin opened')
    BY <2>1, <2>5 DEF RawInv
  <2> HIDE DEF past
  <2>7. (told'["raw"] \o channel') \o rest = since'
    BY <1>3, <2>3, <2>4, <2>5
  <2>8. app' = "running" /\ plugged' => rest = KeysOf(queue'["raw"])
    BY <1>3, <2>5
  <2> QED BY <2>5, <2>6, <2>7, <2>8 DEF RawInv
<1>9. CASE Close
  <2>1. /\ queue' = queue /\ since' = since /\ app' = "closed" /\ opened' = opened /\ told' = told
        /\ channel' = <<>>
    BY <1>9 DEF Close, deviceVars, logVars
  <2> DEFINE left == channel \o rest
             old == told["raw"]
  <2>2. left \in Seq(KeyEvent) /\ old \o left = since
    <3>1. /\ Both(past, old, channel) /\ Both(left, channel, rest) /\ Both(since, past, rest)
          /\ old \in Seq(KeyEvent)
      BY <1>1, <1>3 DEF Both
    <3> HIDE DEF past, left, old
    <3>2. Both(since, old, left) /\ left \in Seq(KeyEvent)
      BY <1>1, <3>1, Regrouped
    <3> QED BY <3>2 DEF Both
  <2>3. told'["raw"] \o channel' = old
    <3>1. old \o <<>> = old
      BY <1>1, ConcatEmptySeq
    <3> QED BY <2>1, <3>1
  <2> HIDE DEF left, old
  <2>4. (told'["raw"] \o channel') \o left = since'
    BY <2>1, <2>2, <2>3
  <2>5. "raw" \notin opened' =>
            queue'["raw"] = <<>> /\ channel' = <<>> /\ told'["raw"] = <<>> /\ since' = <<>>
    BY <2>1 DEF RawInv
  <2> QED BY <2>1, <2>2, <2>4, <2>5 DEF RawInv
<1>10. CASE UNCHANGED vars
  BY <1>10, RawUntouched DEF vars, injectVars, deviceVars, appVars, logVars
<1> QED BY <1>4, <1>5, <1>6, <1>7, <1>8, <1>9, <1>10, InjectsRaw, ReadsRaw DEF Next

\* Between the node and the log - the reader thread, the channel, the timer that drains
\* it (raw.rs:99-129, main.rs:79-93) - no key is lost, doubled, overtaken or invented.
THEOREM RawInOrderCorrect == Spec => []RawInOrder
<1>1. Init => RawInv
  <2> SUFFICES ASSUME Init PROVE RawInv
    OBVIOUS
  <2>1. /\ opened = {} /\ channel = <<>> /\ since = <<>>
        /\ queue["raw"] = <<>> /\ told["raw"] = <<>>
    BY DEF Init, InjectInit, Clients
  <2>2. <<>> \in Seq(KeyEvent) /\ <<>> \o <<>> = <<>>
    BY EmptySeq, ConcatEmptySeq
  <2>3. (told["raw"] \o channel) \o <<>> = since
    BY <2>1, <2>2
  <2>4. <<>> = KeysOf(queue["raw"])
    BY <2>1, KeysOfNothing
  <2> QED BY <2>1, <2>2, <2>3, <2>4 DEF RawInv
<1>2. TypeInv /\ RawInv /\ [Next]_vars => RawInv'
  BY RawStays
<1>3. TypeInv /\ RawInv => RawInOrder
  <2> SUFFICES ASSUME TypeInv, RawInv PROVE RawInOrder
    OBVIOUS
  <2> DEFINE past == told["raw"] \o channel
  <2>1. PICK rest \in Seq(KeyEvent) :
            /\ past \o rest = since
            /\ app = "running" /\ plugged => rest = KeysOf(queue["raw"])
    BY DEF RawInv
  <2>2. past \in Seq(KeyEvent)
    BY RawTypes
  <2> HIDE DEF past
  <2>3. IsPrefix(past, since)
    <3> DEFINE all == past \o rest
    <3>1. /\ Len(past) \in Nat /\ Len(rest) \in Nat /\ Len(all) = Len(past) + Len(rest)
          /\ all \in Seq(KeyEvent) /\ \A i \in 1..Len(past) : all[i] = past[i]
      BY <2>2, ConcatIndices
    <3> HIDE DEF all
    <3>2. Len(past) <= Len(all) /\ SubSeq(past, 1, Len(past)) = SubSeq(all, 1, Len(past))
      BY <2>2, <3>1
    <3> QED BY <2>1, <3>2 DEF IsPrefix, all
  <2>4. app = "running" /\ plugged => past \o KeysOf(queue["raw"]) = since
    BY <2>1
  <2> QED BY <2>3, <2>4 DEF RawInOrder, past
<1> QED BY <1>1, <1>2, <1>3, RemoteTypes, PTL DEF Spec

=============================================================================
