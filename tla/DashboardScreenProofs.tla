------------------------ MODULE DashboardScreenProofs ------------------------
(***************************************************************************)
(* What the page of ui.c promises for every document AdGuard Home may send, *)
(* every length of the arrays and every width of a card.                   *)
(***************************************************************************)
EXTENDS DashboardScreenProps, SubsequenceProofs, FiniteSetTheorems, TLAPS

\* The widgets that hold the charts are there (ui.c:280-288): what agh_ui_update
\* writes into them is what is in them.
RowShaped(row) == \E height, cards : row = [height |-> height, cards |-> cards]

PageShaped(d) ==
    \E badge, row1, row2, row3, version :
        /\ d = [badge |-> badge, row1 |-> row1, row2 |-> row2, row3 |-> row3,
                footer_version |-> version]
        /\ RowShaped(row1) /\ RowShaped(row2) /\ RowShaped(row3)

CardShaped(card) ==
    \E title, value, points, bars, axis, hint :
        card = [title |-> title, value |-> value, points |-> points, bars |-> bars,
                axis |-> axis, hint |-> hint]

TableShaped(card) == \E title, row : card = [title |-> title, row |-> row]

\* The four tables, and the three of them that show a list.
ListOf(d, l) == IF l = "clients" THEN d.row2.cards.clients ELSE d.row3.cards[l]

TablesShaped(d) ==
    /\ TableShaped(d.row2.cards.general)
    /\ \A l \in Lists : TableShaped(ListOf(d, l))

\* The fields of agh_snapshot_t.
Shaped(s) ==
    \E counters, avg, series_len, buckets, series, n, tops, protection, version :
        s = [counters |-> counters, avg |-> avg, series_len |-> series_len,
             buckets |-> buckets, series |-> series, n |-> n, tops |-> tops,
             protection |-> protection, version |-> version]

\* The series of s are those of the document: the newest buckets, then zeros
\* (agh.c:168-189).
SeriesOf(s, doc) ==
    /\ s.buckets = Longest({Smaller(Length(doc.series[c]), MaxBuckets) : c \in Charts})
    /\ \A c \in Charts, b \in Buckets :
          s.series[c][b] =
              IF b < Smaller(Length(doc.series[c]), MaxBuckets)
              THEN JNum(doc.series[c][Len(doc.series[c])
                          - Smaller(Length(doc.series[c]), MaxBuckets) + b + 1])
              ELSE 0

\* So are the counters and the lists, as far as there is room (agh.c:129-192).
OfDocument(s, doc) ==
    /\ SeriesOf(s, doc)
    /\ s.counters = [c \in Counters |-> JNum(doc.counters[c])]
    /\ s.n = [l \in Lists |-> JTopCount(doc.tops[l])]
    /\ \A l \in Lists, e \in Entries :
          e < JTopCount(doc.tops[l]) => s.tops[l][e] = WellFormed(doc.tops[l])[e + 1]

\* What the numbers on the page come from.
SameFigures(s, r) ==
    /\ s.counters = r.counters /\ s.buckets = r.buckets /\ s.series = r.series
    /\ s.n = r.n /\ s.tops = r.tops

BarsFrom(s, c) == [b \in Buckets |-> IF b < s.buckets THEN Signed(s.series[c][b]) ELSE 0]

AxisFor(bars) == Signed(Largest(bars) + (Largest(bars) \div 8) + 1)

\* A chart that agh_ui_update has drawn.
ChartOf(card) == card.hint = (Total(card.bars) = 0) /\ card.axis = AxisFor(card.bars)

\* A figure of a table: a share may stand behind it.
Figure(value, count) == \E share : value \in {GroupU64(count), GroupU64(count) \o <<share>>}

\* Page e shows the figures of snapshot s.
FiguresShown(e, s) ==
    /\ \A c \in Charts :
          /\ e.row1.cards[c].bars = BarsFrom(s, c) /\ ChartOf(e.row1.cards[c])
          /\ e.row1.cards[c].points = Points(s)
          /\ e.row1.cards[c].value = GroupU64(s.counters[c])
    /\ \A c \in Counters : Figure(e.row2.cards.general.row[GeneralRow[c]].value, s.counters[c])
    /\ \A l \in Lists, r \in 1..TopRows :
          ListOf(e, l).row[r] =
              IF r <= s.n[l] THEN Cell(s.tops[l][r - 1].key, GroupU64(s.tops[l][r - 1].value))
                             ELSE Blank

PageOK(d) ==
    PageShaped(d) /\ TablesShaped(d) /\ \A c \in Charts : CardShaped(d.row1.cards[c])

BadgeFor(protection) ==
    IF protection THEN [text |-> "Protection: enabled", colour |-> "green"]
                  ELSE [text |-> "Protection: disabled", colour |-> "red"]

\* Page e shows snapshot s.
Updated(e, s) ==
    /\ PageOK(e)
    /\ e.badge = BadgeFor(s.protection)
    /\ e.footer_version = (IF s.version = NoText THEN "version unknown" ELSE s.version)
    /\ FiguresShown(e, s)

Shape == PageOK(page) /\ Shaped(snapshot)

GoodTyped == good \in StatsDocs \cup {Failed}

\* What a reply that came says of a field, and otherwise what was said before.
Said(status, field, before) ==
    IF IsJson(status) /\ status[field] # Missing THEN status[field] ELSE before

\* The snapshot has what the status replies stated last.
ToldHeld ==
    /\ DOMAIN told = {"protection", "version"}
    /\ snapshot.version = (IF told["version"] = Missing THEN NoText ELSE told["version"])
    /\ told["protection"] # Missing => snapshot.protection = told["protection"]

\* The bars of page d, and how many points its charts have, are those of doc.
BarsOf(d, doc) ==
    /\ \A c \in Charts :
          d.row1.cards[c].points =
              Longest({Smaller(Length(doc.series[k]), MaxBuckets) : k \in Charts} \cup {1})
    /\ \A c \in Charts, b \in Buckets :
          d.row1.cards[c].bars[b] =
              IF b < Smaller(Length(doc.series[c]), MaxBuckets)
              THEN Signed(JNum(doc.series[c][Len(doc.series[c])
                                 - Smaller(Length(doc.series[c]), MaxBuckets) + b + 1]))
              ELSE 0

FiguresHeld == good # Failed => OfDocument(snapshot, good) /\ FiguresShown(page, snapshot)

\* What is known of a table: its columns are right once its events have settled.
TableInv ==
    /\ width \in Nat /\ resized \in BOOLEAN
    /\ ~resized /\ width > 0 => column = Fitted(width)

ScreenInv == Shape /\ GoodTyped /\ ToldHeld /\ FiguresHeld /\ TableInv

----------------------------------------------------------------------------
(***************************************************************************)
(* Columns.                                                                *)
(***************************************************************************)

\* ui.c:169-188: whatever the width, the two columns fill it exactly.
LEMMA FittedSpans ==
    ASSUME NEW w \in Nat, w > 0
    PROVE  /\ Fitted(w)[1] + Fitted(w)[2] = w
           /\ Fitted(w)[1] >= 0 /\ Fitted(w)[2] >= 0
<1> DEFINE quarter == (w * 26) \div 100
           value == IF quarter < 110 THEN 110 ELSE IF quarter > 260 THEN 260 ELSE quarter
<1>1. value \in Nat
  BY DEF Fitted
<1>2. CASE w - value < 100
  <2>1. Fitted(w) = <<w \div 2, w - (w \div 2)>>
    BY <1>2 DEF Fitted
  <2>2. w \div 2 \in Nat /\ w \div 2 <= w
    OBVIOUS
  <2> QED BY <2>1, <2>2
<1>3. CASE ~(w - value < 100)
  <2>1. Fitted(w) = <<w - value, value>>
    BY <1>3 DEF Fitted
  <2>2. w - value >= 100 /\ (w - value) + value = w
    BY <1>1, <1>3
  <2> HIDE DEF value
  <2> QED BY <1>1, <2>1, <2>2
<1> QED BY <1>2, <1>3

LEMMA TableStep ==
    ASSUME TableInv, UNCHANGED tableVars \/ TableFit \/ \E w \in Widths : Resize(w)
    PROVE  TableInv'
<1>1. CASE UNCHANGED tableVars
  BY <1>1 DEF TableInv, tableVars
<1>2. CASE TableFit
  <2>1. width' = width
    BY <1>2 DEF TableFit
  <2>2. CASE width <= 0 \/ column = Fitted(width)
    <3>1. resized' = FALSE /\ column' = column
      BY <1>2, <2>2 DEF TableFit
    <3>2. width' > 0 => column' = Fitted(width')
      BY <2>1, <2>2, <3>1 DEF TableInv
    <3> QED BY <2>1, <3>1, <3>2, Zenon DEF TableInv
  <2>3. CASE ~(width <= 0 \/ column = Fitted(width))
    <3>1. resized' = TRUE
      BY <1>2, <2>3 DEF TableFit
    <3> QED BY <2>1, <3>1 DEF TableInv
  <2> QED BY <2>2, <2>3
<1>3. ASSUME NEW w \in Widths, Resize(w) PROVE TableInv'
  BY <1>3, ScreenAssumption DEF TableInv, Resize
<1> QED BY <1>1, <1>2, <1>3

----------------------------------------------------------------------------
(***************************************************************************)
(* Series.                                                                 *)
(***************************************************************************)

\* The largest of a set that has one.
LEMMA LongestIs ==
    ASSUME NEW S \in SUBSET Int, NEW n \in S, \A m \in S : m <= n
    PROVE  Longest(S) = n
<1>1. Longest(S) \in S /\ \A m \in S : m <= Longest(S)
  BY Zenon DEF Longest
<1>2. Longest(S) \in Int /\ n \in Int /\ n <= Longest(S) /\ Longest(S) <= n
  BY <1>1
<1> QED BY <1>2

LEMMA BucketIsNat == \A b \in Buckets : b \in Nat
BY CapAssumption DEF Buckets

LEMMA KeptTyped ==
    ASSUME NEW doc \in Statistics, NEW c \in Charts
    PROVE  /\ Length(doc.series[c]) \in Nat
           /\ Smaller(Length(doc.series[c]), MaxBuckets) \in 0..MaxBuckets
           /\ Smaller(Length(doc.series[c]), MaxBuckets) <= Length(doc.series[c])
           /\ Length(doc.series[c]) > 0 => /\ doc.series[c] # Missing
                                           /\ Length(doc.series[c]) = Len(doc.series[c])
<1>1. doc.series[c] \in Seq(Bucket \cup {Missing}) \cup {Missing}
  BY DEF Statistics
<1>2. Length(doc.series[c]) \in Nat
  BY <1>1 DEF Length
<1>3. Length(doc.series[c]) > 0 => doc.series[c] # Missing /\ Length(doc.series[c]) = Len(doc.series[c])
  BY DEF Length
<1> QED BY <1>2, <1>3, CapAssumption DEF Smaller

\* agh.c:150-193: how many buckets there are is how many the longest series has.
LEMMA BucketsAreTheLongest ==
    ASSUME NEW doc \in Statistics
    PROVE  LET kept == [c \in Charts |-> Smaller(Length(doc.series[c]), MaxBuckets)]
               most == Longest({Smaller(Length(doc.series[c]), MaxBuckets) : c \in Charts})
           IN  /\ most \in 0..MaxBuckets
               /\ \A c \in Charts : kept[c] <= most
               /\ (IF most = 0 THEN 1 ELSE most) = Longest({kept[c] : c \in Charts} \cup {1})
<1> DEFINE kept == [c \in Charts |-> Smaller(Length(doc.series[c]), MaxBuckets)]
           S == {Smaller(Length(doc.series[c]), MaxBuckets) : c \in Charts}
<1>1. \A c \in Charts : kept[c] \in Nat /\ kept[c] \in S /\ kept[c] \in 0..MaxBuckets
  BY KeptTyped, CapAssumption
<1>2. S = {kept[c] : c \in Charts}
  OBVIOUS
<1> HIDE DEF kept, S
<1>3. PICK d \in Charts : \A c \in Charts : kept[c] <= kept[d]
  BY <1>1 DEF Charts
<1>7. S \in SUBSET Int /\ kept[d] \in S /\ \A m \in S : m <= kept[d]
  BY <1>1, <1>2, <1>3
<1>4. Longest(S) = kept[d]
  BY <1>7, LongestIs
<1>5. CASE kept[d] = 0
  <2>1. Longest({kept[c] : c \in Charts} \cup {1}) = 1
    BY <1>1, <1>3, <1>5, LongestIs
  <2> QED BY <1>1, <1>3, <1>4, <1>5, <2>1 DEF S, kept
<1>6. CASE kept[d] # 0
  <2>1. kept[d] >= 1
    BY <1>1, <1>6
  <2>2. Longest({kept[c] : c \in Charts} \cup {1}) = kept[d]
    BY <1>1, <1>3, <2>1, LongestIs
  <2> QED BY <1>1, <1>3, <1>4, <1>6, <2>2 DEF S, kept
<1> QED BY <1>5, <1>6

\* agh.c:110-127, 150-193: what a document does to a snapshot.
LEMMA SeriesTaken ==
    ASSUME NEW doc \in Statistics, NEW r, Shaped(r)
    PROVE  /\ OfDocument(ParseStats(doc, r), doc)
           /\ ParseStats(doc, r).version = r.version
           /\ ParseStats(doc, r).protection = r.protection
           /\ Shaped(ParseStats(doc, r))
<1> DEFINE s == ParseStats(doc, r)
           series == [c \in Charts |-> JU32ArrTail(doc.series[c], Cleared(r)[c])]
           buckets == Longest({Smaller(Length(doc.series[c]), MaxBuckets) : c \in Charts})
<1>1. /\ s.buckets = buckets /\ s.series = series
      /\ s.counters = [c \in Counters |-> JNum(doc.counters[c])]
      /\ s.n = [l \in Lists |-> JTopCount(doc.tops[l])]
      /\ s.tops = [l \in Lists |-> JTop(doc.tops[l], r.tops[l])]
      /\ s.version = r.version /\ s.protection = r.protection /\ Shaped(s)
  <2> DEFINE counters == [c \in Counters |-> JNum(doc.counters[c])]
             avg == JNum(doc.avg)
             length == Length(doc.series["dns_queries"])
             n == [l \in Lists |-> JTopCount(doc.tops[l])]
             tops == [l \in Lists |-> JTop(doc.tops[l], r.tops[l])]
  <2>1. s = [r EXCEPT !.counters = counters, !.avg = avg, !.series = series,
                      !.series_len = length, !.buckets = buckets, !.n = n, !.tops = tops]
    BY Zenon DEF ParseStats
  <2> HIDE DEF s, series, buckets, counters, avg, length, n, tops
  <2>2. PICK p0, v0, c0, a0, l0, b0, s0, n0, t0 :
          r = [counters |-> c0, avg |-> a0, series_len |-> l0, buckets |-> b0, series |-> s0,
               n |-> n0, tops |-> t0, protection |-> p0, version |-> v0]
    BY Zenon DEF Shaped
  <2>3. s = [counters |-> counters, avg |-> avg, series_len |-> length, buckets |-> buckets,
             series |-> series, n |-> n, tops |-> tops, protection |-> p0, version |-> v0]
    BY <2>1, <2>2
  <2>4. Shaped(s)
    BY <2>3, Zenon DEF Shaped
  <2> QED BY <2>2, <2>3, <2>4 DEF counters, n, tops
<1>2. ASSUME NEW c \in Charts, NEW b \in Buckets
      PROVE  s.series[c][b] =
                 IF b < Smaller(Length(doc.series[c]), MaxBuckets)
                 THEN JNum(doc.series[c][Len(doc.series[c])
                             - Smaller(Length(doc.series[c]), MaxBuckets) + b + 1])
                 ELSE 0
  <2> DEFINE kept == Smaller(Length(doc.series[c]), MaxBuckets)
  <2>1. s.series[c][b] = IF b < kept THEN JNum(doc.series[c][Length(doc.series[c]) - kept + b + 1])
                         ELSE Cleared(r)[c][b]
    BY <1>1 DEF JU32ArrTail
  <2>2. Cleared(r)[c][b] = 0
    BY DEF Cleared
  <2>3. b < kept => Length(doc.series[c]) = Len(doc.series[c])
    BY KeptTyped, CapAssumption DEF Buckets
  <2> HIDE DEF kept, s
  <2> QED BY <2>1, <2>2, <2>3 DEF kept
<1>3. ASSUME NEW l \in Lists, NEW e \in Entries, e < JTopCount(doc.tops[l])
      PROVE  s.tops[l][e] = WellFormed(doc.tops[l])[e + 1]
  BY <1>1, <1>3 DEF JTop
<1> HIDE DEF s
<1>4. SeriesOf(s, doc)
  BY <1>1, <1>2 DEF SeriesOf
<1> QED BY <1>1, <1>3, <1>4 DEF s, OfDocument

\* agh.c:195-208: the status reply touches the protection and the version, and
\* each only when it says something of it.
LEMMA StatusTaken ==
    ASSUME NEW doc, NEW r, Shaped(r), NEW s, s = ParseStatus(doc, r)
    PROVE  /\ Shaped(s) /\ SameFigures(s, r)
           /\ s.version = (IF doc.version # Missing THEN doc.version ELSE r.version)
           /\ s.protection = (IF doc.protection # Missing THEN doc.protection ELSE r.protection)
<1>1. /\ s.version = JStr(doc.version, r.version)
      /\ s.protection = (IF doc.protection = Missing THEN r.protection ELSE doc.protection)
      /\ SameFigures(s, r) /\ Shaped(s)
  <2> DEFINE p == IF doc.protection = Missing THEN r.protection ELSE doc.protection
             v == JStr(doc.version, r.version)
  <2>1. s = [r EXCEPT !.protection = p, !.version = v]
    BY Zenon DEF ParseStatus
  <2> HIDE DEF p, v
  <2>2. PICK p0, v0, c0, a0, l0, b0, s0, n0, t0 :
          r = [counters |-> c0, avg |-> a0, series_len |-> l0, buckets |-> b0, series |-> s0,
               n |-> n0, tops |-> t0, protection |-> p0, version |-> v0]
    BY Zenon DEF Shaped
  <2>3. s = [counters |-> c0, avg |-> a0, series_len |-> l0, buckets |-> b0, series |-> s0,
             n |-> n0, tops |-> t0, protection |-> p, version |-> v]
    BY <2>1, <2>2
  <2>4. Shaped(s)
    BY <2>3, Zenon DEF Shaped
  <2>5. SameFigures(s, r)
    BY <2>2, <2>3 DEF SameFigures
  <2>6. s.version = v /\ s.protection = p
    BY <2>3
  <2> QED BY <2>4, <2>5, <2>6 DEF v, p
<1> QED BY <1>1, Zenon DEF JStr

\* agh.c:351-369: what a round leaves in the snapshot, whichever of its replies
\* came and was JSON.
LEMMA RoundTaken ==
    ASSUME NEW stats \in StatsDocs \cup {Garbage, Failed},
           NEW status \in StatusDocs \cup {Garbage, Failed},
           Shaped(snapshot), NEW s, s = Taken(stats, status, snapshot)
    PROVE  /\ Shaped(s)
           /\ s.version = Said(status, "version", snapshot.version)
           /\ s.protection = Said(status, "protection", snapshot.protection)
           /\ ~IsJson(stats) => SameFigures(s, snapshot)
           /\ IsJson(stats) => stats \in StatsDocs /\ stats # Failed /\ OfDocument(s, stats)
<1> DEFINE t == IF IsJson(stats) THEN ParseStats(stats, snapshot) ELSE snapshot
<1>1. s = IF IsJson(status) THEN ParseStatus(status, t) ELSE t
  BY DEF Taken
<1>2. IsJson(stats) => stats \in StatsDocs /\ stats \in Statistics /\ stats # Failed
  BY ScreenAssumption DEF IsJson
<1>4. ~IsJson(stats) => t = snapshot
  OBVIOUS
<1>5. IsJson(stats) => t = ParseStats(stats, snapshot)
  OBVIOUS
<1> HIDE DEF t
<1>6. Shaped(t) /\ t.version = snapshot.version /\ t.protection = snapshot.protection
  BY <1>2, <1>4, <1>5, SeriesTaken
<1>7. IsJson(stats) => OfDocument(t, stats)
  BY <1>2, <1>5, SeriesTaken
<1>8. /\ Shaped(s) /\ SameFigures(s, t)
      /\ s.version = Said(status, "version", snapshot.version)
      /\ s.protection = Said(status, "protection", snapshot.protection)
  <2>1. CASE IsJson(status)
    <3>1. /\ Shaped(s) /\ SameFigures(s, t)
          /\ s.version = (IF status.version # Missing THEN status.version ELSE t.version)
          /\ s.protection = (IF status.protection # Missing THEN status.protection
                                                             ELSE t.protection)
      BY <1>1, <1>6, <2>1, StatusTaken
    <3> QED BY <1>6, <2>1, <3>1, Zenon DEF Said
  <2>2. CASE ~IsJson(status)
    <3>1. s = t
      BY <1>1, <2>2
    <3>2. SameFigures(s, t)
      BY <3>1 DEF SameFigures
    <3> QED BY <1>6, <2>2, <3>1, <3>2, Zenon DEF Said
  <2> QED BY <2>1, <2>2
<1>9. IsJson(stats) => OfDocument(s, stats)
  BY <1>7, <1>8 DEF OfDocument, SeriesOf, SameFigures
<1> QED BY <1>2, <1>4, <1>6, <1>8, <1>9

----------------------------------------------------------------------------
(***************************************************************************)
(* Arrays.  Whatever a document holds, the snapshot stays within its types. *)
(***************************************************************************)

\* agh.c:129-148: no more entries than there is room for, each of them whole.
LEMMA TopTaken ==
    ASSUME NEW arr \in Seq(Entry \cup {Missing}) \cup {Missing},
           NEW dst \in [Entries -> Entry \cup {NoEntry}]
    PROVE  /\ WellFormed(arr) \in Seq(Entry)
           /\ JTopCount(arr) \in 0..MaxTop /\ JTopCount(arr) <= Len(WellFormed(arr))
           /\ JTop(arr, dst) \in [Entries -> Entry \cup {NoEntry}]
<1>1. WellFormed(arr) \in Seq(Entry)
  <2>1. CASE arr = Missing
    <3>1. WellFormed(arr) = <<>>
      BY <2>1 DEF WellFormed
    <3> QED BY <3>1
  <2>2. CASE arr # Missing
    <3> DEFINE at == {i \in DOMAIN arr : arr[i] # Missing}
    <3>1. arr \in Seq(Entry \cup {Missing}) /\ WellFormed(arr) = Selected(arr, at)
      BY <2>2 DEF WellFormed
    <3>2. \A i \in 1..Len(arr) : i \in at => arr[i] \in Entry
      BY <3>1
    <3> HIDE DEF at
    <3> QED BY <3>1, <3>2, SelectedInto
  <2> QED BY <2>1, <2>2
<1> DEFINE list == WellFormed(arr)
           count == JTopCount(arr)
<1>2. count = Smaller(Len(list), MaxTop)
  BY DEF JTopCount
<1>3. JTop(arr, dst) = [e \in Entries |-> IF e < count THEN list[e + 1] ELSE dst[e]]
  BY DEF JTop
<1>4. list \in Seq(Entry)
  BY <1>1
<1> HIDE DEF list, count
<1>5. count \in 0..MaxTop /\ count <= Len(list)
  BY <1>2, <1>4, CapAssumption DEF Smaller
<1>6. ASSUME NEW e \in Entries, e < count PROVE list[e + 1] \in Entry
  <2>1. e \in Nat
    BY CapAssumption DEF Entries
  <2>2. e + 1 \in 1..Len(list)
    BY <1>4, <1>5, <1>6, <2>1, CapAssumption
  <2> QED BY <1>4, <2>2
<1>7. JTop(arr, dst) \in [Entries -> Entry \cup {NoEntry}]
  BY <1>3, <1>6
<1> QED BY <1>4, <1>5, <1>7 DEF list, count

\* agh.c:110-127: a bucket is what the document holds or what was there before.
LEMMA TailTaken ==
    ASSUME NEW doc \in Statistics, NEW c \in Charts, NEW dst \in [Buckets -> Bucket]
    PROVE  JU32ArrTail(doc.series[c], dst) \in [Buckets -> Bucket]
<1> DEFINE arr == doc.series[c]
           keep == Smaller(Length(arr), MaxBuckets)
           tail == [b \in Buckets |-> IF b < keep THEN JNum(arr[Length(arr) - keep + b + 1]) ELSE dst[b]]
<1>1. JU32ArrTail(arr, dst) = tail
  BY DEF JU32ArrTail
<1>2. arr \in Seq(Bucket \cup {Missing}) \cup {Missing}
  BY DEF Statistics
<1>3. /\ Length(arr) \in Nat /\ keep \in 0..MaxBuckets /\ keep <= Length(arr)
      /\ Length(arr) > 0 => arr # Missing /\ Length(arr) = Len(arr)
  BY KeptTyped
<1> HIDE DEF arr, keep
<1>4. ASSUME NEW b \in Buckets, b < keep
      PROVE  JNum(arr[Length(arr) - keep + b + 1]) \in Bucket
  <2>1. b \in Nat /\ keep \in Nat
    BY <1>3, BucketIsNat, CapAssumption
  <2>2. Length(arr) > 0
    BY <1>3, <1>4, <2>1
  <2>3. arr \in Seq(Bucket \cup {Missing}) /\ Length(arr) = Len(arr)
    BY <1>2, <1>3, <2>2
  <2> DEFINE i == Length(arr) - keep + b + 1
  <2>4. i \in 1..Len(arr)
    BY <1>3, <1>4, <2>1, <2>3
  <2> HIDE DEF i
  <2>5. arr[i] \in Bucket \cup {Missing}
    BY <2>3, <2>4
  <2>6. 0 \in Bucket
    BY CapAssumption DEF Bucket
  <2>7. JNum(arr[i]) \in Bucket
    BY <2>5, <2>6 DEF JNum
  <2> QED BY <2>7 DEF i
<1>5. tail \in [Buckets -> Bucket]
  BY <1>4
<1> QED BY <1>1, <1>5 DEF arr

\* agh.c:150-193: a document of statistics leaves a snapshot.
LEMMA StatsKeepTypes ==
    ASSUME NEW doc \in Statistics, NEW s \in Figures
    PROVE  ParseStats(doc, s) \in Figures
<1> DEFINE counters == [c \in Counters |-> JNum(doc.counters[c])]
           avg == JNum(doc.avg)
           series == [c \in Charts |-> JU32ArrTail(doc.series[c], Cleared(s)[c])]
           length == Length(doc.series["dns_queries"])
           buckets == Longest({Smaller(Length(doc.series[c]), MaxBuckets) : c \in Charts})
           n == [l \in Lists |-> JTopCount(doc.tops[l])]
           tops == [l \in Lists |-> JTop(doc.tops[l], s.tops[l])]
<1>1. ParseStats(doc, s) =
        [s EXCEPT !.counters = counters, !.avg = avg, !.series = series,
                  !.series_len = length, !.buckets = buckets, !.n = n, !.tops = tops]
  BY Zenon DEF ParseStats
<1>2. 0 \in Count /\ 0 \in Bucket
  BY CapAssumption DEF Count, Bucket
<1>3. counters \in [Counters -> Count]
  <2>1. \A c \in Counters : doc.counters[c] \in Count \cup {Missing}
    BY DEF Statistics
  <2> QED BY <1>2, <2>1 DEF JNum
<1>4. avg \in Nat
  <2>1. doc.avg \in Nat \cup {Missing}
    BY DEF Statistics
  <2> QED BY <2>1 DEF JNum
<1>5. series \in [Charts -> [Buckets -> Bucket]]
  <2>1. \A c \in Charts : Cleared(s)[c] \in [Buckets -> Bucket]
    BY <1>2 DEF Cleared
  <2>2. \A c \in Charts : JU32ArrTail(doc.series[c], Cleared(s)[c]) \in [Buckets -> Bucket]
    BY <2>1, TailTaken
  <2> QED BY <2>2
<1>6. length \in Nat
  BY KeptTyped DEF Charts
<1>7. buckets \in 0..MaxBuckets
  BY BucketsAreTheLongest
<1>8. /\ n \in [Lists -> 0..MaxTop]
      /\ tops \in [Lists -> [Entries -> Entry \cup {NoEntry}]]
  <2>1. \A l \in Lists : /\ doc.tops[l] \in Seq(Entry \cup {Missing}) \cup {Missing}
                         /\ s.tops[l] \in [Entries -> Entry \cup {NoEntry}]
    BY DEF Statistics, Figures
  <2>2. \A l \in Lists : /\ JTopCount(doc.tops[l]) \in 0..MaxTop
                         /\ JTop(doc.tops[l], s.tops[l]) \in [Entries -> Entry \cup {NoEntry}]
    BY <2>1, TopTaken
  <2> QED BY <2>2
<1> HIDE DEF counters, avg, series, length, buckets, n, tops
<1> QED BY <1>1, <1>3, <1>4, <1>5, <1>6, <1>7, <1>8 DEF Figures

\* agh.c:195-208: so does a status document.
LEMMA StatusKeepsTypes ==
    ASSUME NEW doc \in Status, NEW s \in Figures
    PROVE  ParseStatus(doc, s) \in Figures
<1> DEFINE p == IF doc.protection = Missing THEN s.protection ELSE doc.protection
           v == JStr(doc.version, s.version)
<1>1. ParseStatus(doc, s) = [s EXCEPT !.protection = p, !.version = v]
  BY Zenon DEF ParseStatus
<1>2. /\ s.protection \in BOOLEAN /\ s.version \in Versions \cup {NoText}
      /\ doc.protection \in BOOLEAN \cup {Missing} /\ doc.version \in Versions \cup {Missing}
  BY DEF Figures, Status
<1>3. p \in BOOLEAN
  BY <1>2, Zenon
<1>4. v \in Versions \cup {NoText}
  BY <1>2 DEF JStr
<1> HIDE DEF p, v
<1> QED BY <1>1, <1>3, <1>4 DEF Figures

LEMMA RoundKeepsTypes ==
    ASSUME snapshot \in Figures, NEW stats \in StatsDocs \cup {Garbage, Failed},
           NEW status \in StatusDocs \cup {Garbage, Failed}
    PROVE  Taken(stats, status, snapshot) \in Figures
<1> DEFINE t == IF IsJson(stats) THEN ParseStats(stats, snapshot) ELSE snapshot
<1>1. Taken(stats, status, snapshot) = IF IsJson(status) THEN ParseStatus(status, t) ELSE t
  BY DEF Taken
<1>2. IsJson(stats) => stats \in Statistics
  BY ScreenAssumption DEF IsJson
<1>3. IsJson(status) => status \in Status
  BY ScreenAssumption DEF IsJson
<1>4. t \in Figures
  BY <1>2, StatsKeepTypes
<1> HIDE DEF t
<1> QED BY <1>1, <1>3, <1>4, StatusKeepsTypes

LEMMA ZeroTyped == Zero \in Figures
<1>1. 0 \in Count /\ 0 \in Bucket /\ 0 \in 0..MaxBuckets /\ 0 \in 0..MaxTop
  BY CapAssumption DEF Count, Bucket
<1> DEFINE counters == [c \in Counters |-> 0]
           series == [c \in Charts |-> [b \in Buckets |-> 0]]
           n == [l \in Lists |-> 0]
           tops == [l \in Lists |-> [e \in Entries |-> NoEntry]]
<1>2. /\ counters \in [Counters -> Count] /\ series \in [Charts -> [Buckets -> Bucket]]
      /\ n \in [Lists -> 0..MaxTop] /\ tops \in [Lists -> [Entries -> Entry \cup {NoEntry}]]
  BY <1>1
<1>3. Zero = [counters |-> counters, avg |-> 0, series_len |-> 0, buckets |-> 0,
              series |-> series, n |-> n, tops |-> tops, protection |-> FALSE, version |-> NoText]
  BY Zenon DEF Zero
<1>4. FALSE \in BOOLEAN /\ NoText \in Versions \cup {NoText} /\ 0 \in Nat
  OBVIOUS
<1> HIDE DEF counters, series, n, tops
<1> QED BY <1>1, <1>2, <1>3, <1>4 DEF Figures

LEMMA FittedTyped ==
    ASSUME NEW w \in Nat
    PROVE  Fitted(w) \in Int \X Int
<1> DEFINE quarter == (w * 26) \div 100
           value == IF quarter < 110 THEN 110 ELSE IF quarter > 260 THEN 260 ELSE quarter
<1>1. value \in Int /\ w - value \in Int /\ w \div 2 \in Int /\ w - (w \div 2) \in Int
  OBVIOUS
<1>2. Fitted(w) = IF w - value < 100 THEN <<w \div 2, w - (w \div 2)>> ELSE <<w - value, value>>
  BY DEF Fitted
<1> HIDE DEF value
<1> QED BY <1>1, <1>2

\* Every step keeps the types.
LEMMA TypesStep ==
    ASSUME ScreenTypeOK, [Next]_vars
    PROVE  ScreenTypeOK'
<1>1. /\ snapshot \in Figures /\ applied \in 0..2 /\ good \in StatsDocs \cup {Failed}
      /\ width \in Widths \cup {0} /\ width \in Nat /\ column \in Int \X Int
      /\ resized \in BOOLEAN
  BY ScreenAssumption DEF ScreenTypeOK
<1>2. ASSUME NEW stats \in StatsDocs \cup {Garbage, Failed},
             NEW status \in StatusDocs \cup {Garbage, Failed}, PollCb(stats, status)
      PROVE  ScreenTypeOK'
  <2>1. snapshot' = Taken(stats, status, snapshot) /\ UNCHANGED tableVars
    BY <1>2 DEF PollCb, tableVars
  <2>2. snapshot' \in Figures
    BY <1>1, <2>1, RoundKeepsTypes
  <2>3. applied' \in 0..2 /\ good' \in StatsDocs \cup {Failed}
    BY <1>1, <1>2 DEF PollCb, Smaller, IsJson
  <2> QED BY <1>1, <2>1, <2>2, <2>3 DEF ScreenTypeOK, tableVars
<1>3. CASE Paint \/ SelfCheck \/ UNCHANGED vars
  BY <1>1, <1>3 DEF Paint, SelfCheck, vars, figureVars, tableVars, ScreenTypeOK
<1>4. ASSUME NEW w \in Widths, Resize(w) PROVE ScreenTypeOK'
  BY <1>1, <1>4 DEF Resize, figureVars, ScreenTypeOK
<1>5. CASE TableFit
  <2>1. Fitted(width) \in Int \X Int
    BY <1>1, FittedTyped
  <2>2. resized' \in BOOLEAN /\ (column' = column \/ column' = Fitted(width))
    BY <1>5 DEF TableFit
  <2>3. width' = width /\ UNCHANGED figureVars
    BY <1>5 DEF TableFit
  <2> QED BY <1>1, <2>1, <2>2, <2>3 DEF figureVars, ScreenTypeOK
<1> QED BY <1>2, <1>3, <1>4, <1>5 DEF Next

----------------------------------------------------------------------------
(***************************************************************************)
(* The page.                                                               *)
(***************************************************************************)

CardShows(card, c, s) ==
    /\ CardShaped(card) /\ ChartOf(card)
    /\ card.bars = BarsFrom(s, c) /\ card.points = Points(s)
    /\ card.value = GroupU64(s.counters[c])

\* ui.c:416-445: one chart.
LEMMA CardUpdated ==
    ASSUME NEW card, CardShaped(card), NEW c \in Charts, NEW s, NEW new,
           new = ChartCard(card, c, s)
    PROVE  CardShows(new, c, s)
<1> DEFINE bars == [b \in Buckets |-> IF b < s.buckets THEN Signed(s.series[c][b]) ELSE 0]
           points == Points(s)
           max == Largest(bars)
           hint == Total(bars) = 0
           axis == Signed(max + (max \div 8) + 1)
           value == GroupU64(s.counters[c])
<1>1. new = [card EXCEPT !.bars = bars, !.points = points, !.hint = hint, !.axis = axis,
                         !.value = value]
  BY Zenon DEF ChartCard
<1>2. bars = BarsFrom(s, c) /\ axis = AxisFor(bars)
  BY DEF BarsFrom, AxisFor
<1>3. hint = (Total(bars) = 0)
  OBVIOUS
<1>4. value = GroupU64(s.counters[c]) /\ points = Points(s)
  OBVIOUS
<1> HIDE DEF bars, points, max, hint, axis, value
<1>5. PICK title, v0, p0, b0, a0, h0 :
        card = [title |-> title, value |-> v0, points |-> p0, bars |-> b0, axis |-> a0,
                hint |-> h0]
  BY Zenon DEF CardShaped
<1>6. new = [title |-> title, value |-> value, points |-> points, bars |-> bars, axis |-> axis,
             hint |-> hint]
  BY <1>1, <1>5
<1>7. CardShaped(new)
  BY <1>6, Zenon DEF CardShaped
<1>8. /\ new.bars = bars /\ new.points = points /\ new.axis = axis /\ new.hint = hint
      /\ new.value = value
  BY <1>6
<1>9. ChartOf(new)
  BY <1>2, <1>3, <1>8, Zenon DEF ChartOf
<1> QED BY <1>2, <1>4, <1>7, <1>8, <1>9, Zenon DEF CardShows

\* ui.c:384-406: one list.
LEMMA TopFilled ==
    ASSUME NEW card, TableShaped(card), NEW entries, NEW count, NEW new,
           new = FillTop(card, entries, count)
    PROVE  /\ TableShaped(new)
           /\ \A r \in 1..TopRows :
                 new.row[r] = IF r <= count
                              THEN Cell(entries[r - 1].key, GroupU64(entries[r - 1].value))
                              ELSE Blank
<1> DEFINE row == [r \in 1..TopRows |->
              IF r <= count THEN Cell(entries[r - 1].key, GroupU64(entries[r - 1].value)) ELSE Blank]
<1>1. new = [card EXCEPT !.row = row]
  BY DEF FillTop
<1>2. \A r \in 1..TopRows :
         row[r] = IF r <= count THEN Cell(entries[r - 1].key, GroupU64(entries[r - 1].value))
                  ELSE Blank
  OBVIOUS
<1> HIDE DEF row
<1>3. PICK title, r0 : card = [title |-> title, row |-> r0]
  BY Zenon DEF TableShaped
<1>4. new = [title |-> title, row |-> row]
  BY <1>1, <1>3
<1>5. TableShaped(new)
  BY <1>4, Zenon DEF TableShaped
<1>6. new.row = row
  BY <1>4
<1> QED BY <1>2, <1>5, <1>6

\* ui.c:341-382: the general figures.
LEMMA GeneralFilled ==
    ASSUME NEW card, TableShaped(card), NEW s, NEW new, new = FillGeneral(card, s)
    PROVE  /\ TableShaped(new)
           /\ \A c \in Counters : Figure(new.row[GeneralRow[c]].value, s.counters[c])
<1> DEFINE k == s.counters
           share == Permille(k["blocked_filtering"], k["dns_queries"])
           total == (k["blocked_filtering"] + k["blocked_safebrowsing"]
                     + k["blocked_safesearch"] + k["blocked_parental"]) % CountMod
           row == <<Cell("DNS queries", GroupU64(k["dns_queries"])),
                    Cell("Blocked by filters", GroupU64(k["blocked_filtering"]) \o <<share>>),
                    Cell("Blocked malware / phishing", GroupU64(k["blocked_safebrowsing"])),
                    Cell("Blocked adult websites", GroupU64(k["blocked_parental"])),
                    Cell("Blocked safe search", GroupU64(k["blocked_safesearch"])),
                    Cell("Blocked total",
                         GroupU64(total) \o <<Permille(total, k["dns_queries"])>>),
                    Cell("Average processing time", <<s.avg \div 10, s.avg % 10>>)>>
<1>1. new = [card EXCEPT !.row = row]
  BY Zenon DEF FillGeneral
<1> HIDE DEF share, total
<1>2. /\ row[1].value = GroupU64(k["dns_queries"])
      /\ row[2].value = GroupU64(k["blocked_filtering"]) \o <<share>>
      /\ row[3].value = GroupU64(k["blocked_safebrowsing"])
      /\ row[4].value = GroupU64(k["blocked_parental"])
      /\ row[5].value = GroupU64(k["blocked_safesearch"])
  BY DEF Cell
<1> HIDE DEF row, k
<1>3. PICK title, r0 : card = [title |-> title, row |-> r0]
  BY Zenon DEF TableShaped
<1>4. new = [title |-> title, row |-> row]
  BY <1>1, <1>3
<1>5. TableShaped(new)
  BY <1>4, Zenon DEF TableShaped
<1>6. new.row = row
  BY <1>4
<1>7. /\ Figure(row[1].value, k["dns_queries"]) /\ Figure(row[2].value, k["blocked_filtering"])
      /\ Figure(row[3].value, k["blocked_safebrowsing"])
      /\ Figure(row[4].value, k["blocked_parental"])
      /\ Figure(row[5].value, k["blocked_safesearch"])
  BY <1>2, Zenon DEF Figure
<1>8. /\ GeneralRow["dns_queries"] = 1 /\ GeneralRow["blocked_filtering"] = 2
      /\ GeneralRow["blocked_safebrowsing"] = 3 /\ GeneralRow["blocked_parental"] = 4
      /\ GeneralRow["blocked_safesearch"] = 5
  BY DEF GeneralRow
<1>9. ASSUME NEW c \in Counters PROVE Figure(row[GeneralRow[c]].value, k[c])
  <2>1. c = "dns_queries" \/ c = "blocked_filtering" \/ c = "blocked_safebrowsing"
        \/ c = "blocked_parental" \/ c = "blocked_safesearch"
    BY DEF Charts, Counters
  <2> QED BY <1>7, <1>8, <2>1, Zenon
<1> QED BY <1>5, <1>6, <1>9 DEF k

\* ui.c:408-458: what agh_ui_update leaves where.
LEMMA PageUpdated ==
    ASSUME NEW d, PageOK(d), NEW s
    PROVE  Updated(AghUiUpdate(d, s), s)
<1> DEFINE e == AghUiUpdate(d, s)
           badge == IF s.protection THEN MakeLabel("Protection: enabled", "green")
                                    ELSE MakeLabel("Protection: disabled", "red")
           cards == [c \in Charts |-> ChartCard(d.row1.cards[c], c, s)]
           version == IF s.version = NoText THEN "version unknown" ELSE s.version
           general == FillGeneral(d.row2.cards.general, s)
           clients == FillTop(d.row2.cards.clients, s.tops["clients"], s.n["clients"])
           queried == FillTop(d.row3.cards.queried, s.tops["queried"], s.n["queried"])
           blocked == FillTop(d.row3.cards.blocked, s.tops["blocked"], s.n["blocked"])
           cards2 == [general |-> general, clients |-> clients]
           cards3 == [queried |-> queried, blocked |-> blocked]
<1>1. /\ e.badge = badge /\ e.row1.cards = cards /\ e.footer_version = version
      /\ e.row2.cards = cards2 /\ e.row3.cards = cards3
      /\ PageShaped(e)
  <2>1. e = [d EXCEPT !.badge = badge, !.row1.cards = cards, !.footer_version = version,
                      !.row2.cards = cards2, !.row3.cards = cards3]
    BY Zenon DEF AghUiUpdate
  <2> HIDE DEF e, badge, cards, version, cards2, cards3
  <2>2. PICK b0, p0, q0, r0, v0 :
          /\ d = [badge |-> b0, row1 |-> p0, row2 |-> q0, row3 |-> r0, footer_version |-> v0]
          /\ RowShaped(p0) /\ RowShaped(q0) /\ RowShaped(r0)
    BY Zenon DEF PageOK, PageShaped
  <2>6. PICK h0, c0, h2, c2, h3, c3 :
          /\ p0 = [height |-> h0, cards |-> c0]
          /\ q0 = [height |-> h2, cards |-> c2]
          /\ r0 = [height |-> h3, cards |-> c3]
    BY <2>2, Zenon DEF RowShaped
  <2> DEFINE row1 == [height |-> h0, cards |-> cards]
             row2 == [height |-> h2, cards |-> cards2]
             row3 == [height |-> h3, cards |-> cards3]
  <2>3. e = [badge |-> badge, row1 |-> row1, row2 |-> row2, row3 |-> row3,
             footer_version |-> version]
    BY <2>1, <2>2, <2>6
  <2>4. row1 = [height |-> h0, cards |-> cards] /\ row2 = [height |-> h2, cards |-> cards2]
        /\ row3 = [height |-> h3, cards |-> cards3]
    OBVIOUS
  <2>7. RowShaped(row1) /\ RowShaped(row2) /\ RowShaped(row3)
    BY Zenon DEF RowShaped
  <2> HIDE DEF row1, row2, row3
  <2>5. PageShaped(e)
    BY <2>3, <2>7, Zenon DEF PageShaped
  <2> QED BY <2>3, <2>4, <2>5
<1>2. e.badge = BadgeFor(s.protection)
  <2>1. badge = BadgeFor(s.protection)
    BY Zenon DEF BadgeFor, MakeLabel
  <2> QED BY <1>1, <2>1
<1>3. \A c \in Charts : cards[c] = ChartCard(d.row1.cards[c], c, s)
  OBVIOUS
<1>4. ASSUME NEW c \in Charts
      PROVE  /\ CardShaped(e.row1.cards[c]) /\ ChartOf(e.row1.cards[c])
             /\ e.row1.cards[c].bars = BarsFrom(s, c)
             /\ e.row1.cards[c].points = Points(s)
             /\ e.row1.cards[c].value = GroupU64(s.counters[c])
  <2>1. CardShaped(d.row1.cards[c])
    BY DEF PageOK
  <2>2. e.row1.cards[c] = ChartCard(d.row1.cards[c], c, s)
    BY <1>1, <1>3
  <2> DEFINE old == d.row1.cards[c]
             new == e.row1.cards[c]
  <2> HIDE DEF e, badge, cards, version, general, clients, queried, blocked, cards2, cards3, old, new
  <2>3. CardShaped(old) /\ new = ChartCard(old, c, s)
    BY <2>1, <2>2 DEF old, new
  <2>4. CardShows(new, c, s)
    BY <2>3, CardUpdated
  <2> QED BY <2>4 DEF new, CardShows
<1>5. /\ e.row2.cards.general = general /\ ListOf(e, "clients") = clients
      /\ ListOf(e, "queried") = queried /\ ListOf(e, "blocked") = blocked
  <2>1. /\ cards2.general = general /\ cards2.clients = clients
        /\ cards3["queried"] = queried /\ cards3["blocked"] = blocked
    OBVIOUS
  <2> HIDE DEF e, general, clients, queried, blocked, cards2, cards3
  <2> QED BY <1>1, <2>1 DEF ListOf
<1>6. /\ TableShaped(d.row2.cards.general) /\ TableShaped(d.row2.cards.clients)
      /\ TableShaped(d.row3.cards.queried) /\ TableShaped(d.row3.cards.blocked)
  BY DEF PageOK, TablesShaped, ListOf, Lists
<1>7. /\ TableShaped(general)
      /\ \A c \in Counters : Figure(general.row[GeneralRow[c]].value, s.counters[c])
  BY <1>6, GeneralFilled
<1>8. ASSUME NEW l \in Lists
      PROVE  /\ TableShaped(ListOf(e, l))
             /\ \A r \in 1..TopRows :
                   ListOf(e, l).row[r] =
                       IF r <= s.n[l]
                       THEN Cell(s.tops[l][r - 1].key, GroupU64(s.tops[l][r - 1].value))
                       ELSE Blank
  <2>1. CASE l = "clients"
    BY <1>5, <1>6, <2>1, TopFilled
  <2>2. CASE l = "queried"
    BY <1>5, <1>6, <2>2, TopFilled
  <2>3. CASE l = "blocked"
    BY <1>5, <1>6, <2>3, TopFilled
  <2> QED BY <2>1, <2>2, <2>3 DEF Lists
<1> HIDE DEF e, badge, cards, version, general, clients, queried, blocked, cards2, cards3
<1>9. FiguresShown(e, s)
  BY <1>4, <1>5, <1>7, <1>8 DEF FiguresShown
<1>10. PageOK(e)
  BY <1>1, <1>4, <1>5, <1>7, <1>8 DEF PageOK, TablesShaped
<1>11. Updated(e, s)
  BY <1>1, <1>2, <1>9, <1>10 DEF Updated, version
<1> QED BY <1>11 DEF e

\* ui.c:420-432: the bars agh_ui_update draws are the newest buckets.
LEMMA BarsUpdated ==
    ASSUME NEW d, NEW s, NEW doc \in Statistics, SeriesOf(s, doc),
           \A c \in Charts : /\ d.row1.cards[c].bars = BarsFrom(s, c)
                             /\ d.row1.cards[c].points = Points(s)
    PROVE  BarsOf(d, doc)
<1> DEFINE kept == [c \in Charts |-> Smaller(Length(doc.series[c]), MaxBuckets)]
           most == Longest({Smaller(Length(doc.series[c]), MaxBuckets) : c \in Charts})
<1>1. /\ most \in 0..MaxBuckets
      /\ \A c \in Charts : kept[c] <= most
      /\ (IF most = 0 THEN 1 ELSE most) = Longest({kept[c] : c \in Charts} \cup {1})
  BY BucketsAreTheLongest
<1>2. s.buckets = most
  BY DEF SeriesOf
<1>3. {kept[c] : c \in Charts} = {Smaller(Length(doc.series[c]), MaxBuckets) : c \in Charts}
  OBVIOUS
<1>4. Points(s) = Longest({Smaller(Length(doc.series[c]), MaxBuckets) : c \in Charts} \cup {1})
  <2> HIDE DEF kept, most
  <2>1. Points(s) = Longest({kept[c] : c \in Charts} \cup {1})
    BY <1>1, <1>2 DEF Points
  <2> QED BY <1>3, <2>1
<1>5. Signed(0) = 0
  BY CapAssumption DEF Signed
<1>6. ASSUME NEW c \in Charts, NEW b \in Buckets
      PROVE  d.row1.cards[c].bars[b] =
                 IF b < Smaller(Length(doc.series[c]), MaxBuckets)
                 THEN Signed(JNum(doc.series[c][Len(doc.series[c])
                                    - Smaller(Length(doc.series[c]), MaxBuckets) + b + 1]))
                 ELSE 0
  <2> DEFINE k == Smaller(Length(doc.series[c]), MaxBuckets)
             v == JNum(doc.series[c][Len(doc.series[c]) - k + b + 1])
  <2>1. d.row1.cards[c].bars[b] = IF b < s.buckets THEN Signed(s.series[c][b]) ELSE 0
    BY DEF BarsFrom
  <2>2. s.series[c][b] = IF b < k THEN v ELSE 0
    BY DEF SeriesOf
  <2>3. k <= most /\ k \in Nat /\ most \in Nat /\ b \in Nat
    <3>1. k = kept[c] /\ kept[c] <= most /\ most \in Nat
      BY <1>1, CapAssumption
    <3>2. k \in Nat
      BY KeptTyped, CapAssumption
    <3>3. b \in Nat
      BY BucketIsNat
    <3> HIDE DEF k, kept, most
    <3> QED BY <3>1, <3>2, <3>3
  <2> HIDE DEF k, v, most
  <2> QED BY <1>2, <1>5, <2>1, <2>2, <2>3 DEF k, v
<1> QED BY <1>4, <1>6 DEF BarsOf

----------------------------------------------------------------------------
(***************************************************************************)
(* Figures and lists.                                                      *)
(***************************************************************************)

\* ui.c:103-120: a counter has its digits in a number of groups.
LEMMA GroupedIsSequence ==
    ASSUME NEW v \in Count
    PROVE  \E T : GroupU64(v) \in Seq(T)
<1> DEFINE T == {n \in 1..7 : v < 1000^n}
           Least(n) == v < 1000^n /\ \A m \in 1..(n - 1) : ~(v < 1000^m)
           groups == CHOOSE n \in 1..7 : Least(n)
<1>1. v \in Nat /\ v < CountMod /\ CountMod \in Nat
  BY CapAssumption DEF Count
<1>2. T # {}
  <2>1. PICK n \in 1..7 : CountMod <= 1000^n
    BY ScreenAssumption
  <2>2. v < 1000^n
    BY <1>1, <2>1
  <2> QED BY <2>2
<1>3. PICK n \in T : \A m \in T : n <= m
  <2>1. T \in SUBSET Nat
    OBVIOUS
  <2> HIDE DEF T
  <2> QED BY <1>2, <2>1, LeastMember
<1>4. n \in 1..7 /\ Least(n)
  <2>1. n \in 1..7 /\ v < 1000^n
    OBVIOUS
  <2>2. ASSUME NEW m \in 1..(n - 1), v < 1000^m PROVE FALSE
    <3>1. m \in 1..7 /\ ~(n <= m)
      BY <2>1
    <3> QED BY <1>3, <2>2, <3>1
  <2> QED BY <2>1, <2>2
<1> HIDE DEF T, Least
<1>5. groups \in 1..7
  BY <1>4
<1>6. GroupU64(v) = [i \in 1..groups |-> (v \div 1000^(groups - i)) % 1000]
  BY DEF GroupU64, Least
<1> HIDE DEF groups
<1> DEFINE U == {(v \div 1000^(groups - i)) % 1000 : i \in 1..groups}
           digits == [i \in 1..groups |-> (v \div 1000^(groups - i)) % 1000]
<1>7. digits \in [1..groups -> U]
  OBVIOUS
<1> HIDE DEF digits, U
<1>8. digits \in Seq(U)
  BY <1>5, <1>7
<1> QED BY <1>6, <1>8 DEF digits

\* The figures before a share are those of the count.
LEMMA FigureBegins ==
    ASSUME NEW count \in Count, NEW value, Figure(value, count)
    PROVE  SubSeq(value, 1, Len(GroupU64(count))) = GroupU64(count)
<1> DEFINE g == GroupU64(count)
<1>1. PICK U : g \in Seq(U)
  BY GroupedIsSequence
<1>2. PICK share : value \in {g, g \o <<share>>}
  BY DEF Figure
<1> HIDE DEF g
<1>3. CASE value = g
  <2>1. SubSeq(g, 1, Len(g)) = g
    BY <1>1, SubSeqFull
  <2> QED BY <1>3, <2>1 DEF g
<1>4. CASE value = g \o <<share>>
  <2> DEFINE T == U \cup {share}
  <2>1. g \in Seq(T) /\ <<share>> \in Seq(T)
    BY <1>1
  <2> HIDE DEF T
  <2>2. /\ g \o <<share>> \in Seq(T) /\ Len(g \o <<share>>) = Len(g) + Len(<<share>>)
        /\ \A i \in 1..Len(g) : (g \o <<share>>)[i] = g[i]
    BY <2>1, ConcatIndices
  <2>3. value \in Seq(T) /\ Len(value) = Len(g) + 1 /\ \A i \in 1..Len(g) : value[i] = g[i]
    BY <1>4, <2>2
  <2> DEFINE n == Len(g)
             sub == SubSeq(value, 1, n)
  <2>4. n \in Int /\ n \in Nat /\ \A i \in 1..n : value[i] \in T
    BY <2>1, <2>3
  <2> HIDE DEF n
  <2>5. /\ sub \in Seq(T) /\ Len(sub) = IF 1 <= n THEN n - 1 + 1 ELSE 0
        /\ \A i \in 1..(n - 1 + 1) : sub[i] = value[1 + i - 1]
    BY <2>4, SubSeqProperties
  <2> HIDE DEF sub
  <2>6. Len(sub) = n /\ \A i \in 1..n : sub[i] = value[i]
    BY <2>4, <2>5
  <2>8. Len(sub) = Len(g) /\ \A i \in 1..Len(sub) : sub[i] = g[i]
    BY <2>3, <2>6 DEF n
  <2>7. sub = g
    BY <2>1, <2>5, <2>8, SeqEqual
  <2> QED BY <2>7 DEF sub, n, g
<1> QED BY <1>2, <1>3, <1>4 DEF g

\* agh.c:129-148: the entries a list keeps are those of the document, in order.
LEMMA ListedIsWellFormed ==
    ASSUME good \in Statistics, NEW l \in Lists
    PROVE  Listed(l) = WellFormed(good.tops[l])
<1> DEFINE arr == good.tops[l]
<1>1. arr \in Seq(Entry \cup {Missing}) \cup {Missing}
  BY DEF Statistics
<1>2. CASE arr = Missing
  BY <1>2 DEF Listed, WellFormed
<1>3. CASE arr # Missing
  <2> DEFINE at == {i \in 1..Len(arr) : arr[i] # Missing}
             n == Cardinality(at)
             Rank(i) == Cardinality({j \in at : j <= i})
             rank == [i \in 0..Len(arr) |-> Rank(i)]
             list == [k \in 1..n |-> arr[CHOOSE i \in at : Rank(i) = k]]
             chosen == Selected(arr, at)
  <2>1. arr \in Seq(Entry \cup {Missing})
    BY <1>1, <1>3
  <2>2. Listed(l) = list
    BY <1>3 DEF Listed
  <2>3. WellFormed(arr) = chosen
    <3>1. DOMAIN arr = 1..Len(arr)
      BY <2>1
    <3>2. {i \in DOMAIN arr : arr[i] # Missing} = at
      BY <3>1
    <3> QED BY <1>3, <3>2 DEF WellFormed
  <2>4. at \in SUBSET (1..Len(arr)) /\ Len(arr) \in Nat
    BY <2>1
  <2>5. \A i \in at : rank[i] = Rank(i)
    BY <2>4
  <2>6. rank = [i \in 0..Len(arr) |-> Cardinality({j \in at : j <= i})]
    OBVIOUS
  <2> HIDE DEF arr, at, rank
  <2>7. /\ Len(chosen) = n
        /\ \A i \in at : rank[i] \in 1..n /\ chosen[rank[i]] = arr[i]
        /\ \A k \in 1..n : \E i \in at : rank[i] = k
    BY <2>1, <2>4, <2>6, SelectedNth
  <2>8. chosen \in Seq(Entry \cup {Missing})
    BY <2>1, SelectedType
  <2>9. ASSUME NEW k \in 1..n PROVE list[k] = chosen[k]
    <3> DEFINE i == CHOOSE i \in at : Rank(i) = k
    <3>1. \E j \in at : Rank(j) = k
      BY <2>5, <2>7
    <3> HIDE DEF Rank
    <3>2. i \in at /\ Rank(i) = k
      BY <3>1
    <3>3. list[k] = arr[i]
      OBVIOUS
    <3> HIDE DEF i, list, chosen, n
    <3>4. chosen[k] = arr[i]
      BY <2>5, <2>7, <3>2
    <3> QED BY <3>3, <3>4
  <2>10. list = [k \in 1..n |-> list[k]]
    OBVIOUS
  <2> HIDE DEF list, chosen, n
  <2>11. chosen = [k \in 1..n |-> chosen[k]]
    BY <2>7, <2>8
  <2>12. list = chosen
    BY <2>9, <2>10, <2>11
  <2> QED BY <2>2, <2>3, <2>12 DEF arr
<1> QED BY <1>2, <1>3

----------------------------------------------------------------------------
(***************************************************************************)
(* Bars.                                                                   *)
(***************************************************************************)

LEMMA TotalDef ==
    ASSUME NEW bars \in [Buckets -> Int]
    PROVE  /\ TotalUpTo(bars)[0] = 0
           /\ \A n \in 1..MaxBuckets : TotalUpTo(bars)[n] = TotalUpTo(bars)[n - 1] + bars[n - 1]
<1> DEFINE Solves(f, m) ==
               f = [n \in 0..m |-> IF n = 0 THEN 0 ELSE f[n - 1] + bars[n - 1]]
           S == {m \in 0..MaxBuckets : \E f : Solves(f, m)}
           top == MaxBuckets
<1>0. top \in Nat
  BY CapAssumption
<1>1. 0 \in S
  <2> DEFINE g == [n \in 0..0 |-> 0]
  <2>1. Solves(g, 0)
    OBVIOUS
  <2>2. 0 \in 0..MaxBuckets
    BY <1>0
  <2> HIDE DEF g, Solves
  <2> QED BY <2>1, <2>2
<1>2. ASSUME NEW m \in 1..top, m - 1 \in S PROVE m \in S
  <2>1. PICK f : Solves(f, m - 1)
    BY <1>2
  <2> DEFINE new == f[m - 1] + bars[m - 1]
             g == [n \in 0..m |-> IF n = m THEN new ELSE f[n]]
  <2>2. \A n \in 0..(m - 1) : f[n] = IF n = 0 THEN 0 ELSE f[n - 1] + bars[n - 1]
    <3> HIDE DEF S
    <3> QED BY <2>1
  <2> HIDE DEF new
  <2>3. \A n \in 0..m : g[n] = IF n = 0 THEN 0 ELSE g[n - 1] + bars[n - 1]
    <3> SUFFICES ASSUME NEW n \in 0..m
                 PROVE  g[n] = IF n = 0 THEN 0 ELSE g[n - 1] + bars[n - 1]
      OBVIOUS
    <3>1. CASE n = m
      <4>1. g[n] = new /\ g[n - 1] = f[m - 1] /\ n # 0
        BY <3>1
      <4> QED BY <3>1, <4>1 DEF new
    <3>2. CASE n # m
      <4>1. n \in 0..(m - 1) /\ g[n] = f[n] /\ (n # 0 => g[n - 1] = f[n - 1])
        BY <3>2
      <4> QED BY <2>2, <4>1
    <3> QED BY <3>1, <3>2
  <2>4. Solves(g, m)
    <3>1. g = [n \in 0..m |-> g[n]]
      OBVIOUS
    <3> HIDE DEF g
    <3> QED BY <2>3, <3>1
  <2>5. m \in 0..MaxBuckets
    BY <1>0
  <2> HIDE DEF g, Solves
  <2> QED BY <2>4, <2>5
<1>3. top \in S
  <2> HIDE DEF S, top
  <2>1. \A m \in 1..top : m - 1 \in S => m \in S
    BY <1>2
  <2>2. \A m \in 0..top : m \in S
    BY <1>0, <1>1, <2>1, IndexInduction
  <2> QED BY <1>0, <2>2
<1>4. PICK f : Solves(f, top)
  BY <1>3
<1> DEFINE sum == TotalUpTo(bars)
<1>5. Solves(sum, top)
  BY <1>4 DEF TotalUpTo
<1>6. \A n \in 0..top : sum[n] = IF n = 0 THEN 0 ELSE sum[n - 1] + bars[n - 1]
  <2> HIDE DEF sum, top, S
  <2> QED BY <1>5
<1> HIDE DEF sum, S
<1>7. 0 \in 0..top /\ \A n \in 1..top : n \in 0..top /\ n # 0
  BY <1>0
<1> HIDE DEF top
<1>8. sum[0] = 0 /\ \A n \in 1..top : sum[n] = sum[n - 1] + bars[n - 1]
  BY <1>6, <1>7
<1> QED BY <1>8 DEF sum, top

\* ui.c:425-439: the sum of bars that are not negative is zero when they all are.
LEMMA TotalZero ==
    ASSUME NEW bars \in [Buckets -> Nat]
    PROVE  Total(bars) = 0 <=> \A b \in Buckets : bars[b] = 0
<1> DEFINE sum == TotalUpTo(bars)
           top == MaxBuckets
           S == {n \in 0..top : /\ sum[n] \in Nat
                                /\ sum[n] = 0 <=> \A b \in 0..(n - 1) : bars[b] = 0}
<1>0. top \in Nat /\ Buckets = 0..(top - 1) /\ \A n \in 1..top : bars[n - 1] \in Nat
  BY CapAssumption DEF Buckets
<1>1. sum[0] = 0 /\ \A n \in 1..top : sum[n] = sum[n - 1] + bars[n - 1]
  <2>1. bars \in [Buckets -> Int]
    OBVIOUS
  <2> QED BY <2>1, TotalDef
<1> HIDE DEF sum, top
<1>2. 0 \in S
  <2>1. 0 \in 0..top /\ sum[0] \in Nat /\ sum[0] = 0 /\ \A b \in 0..(0 - 1) : bars[b] = 0
    BY <1>0, <1>1
  <2> QED BY <2>1
<1>3. ASSUME NEW n \in 1..top, n - 1 \in S PROVE n \in S
  <2>1. n \in 0..top /\ sum[n - 1] \in Nat /\ bars[n - 1] \in Nat
        /\ sum[n] = sum[n - 1] + bars[n - 1]
    BY <1>0, <1>1, <1>3
  <2>2. sum[n - 1] = 0 <=> \A b \in 0..(n - 2) : bars[b] = 0
    BY <1>3
  <2>3. \A b : b \in 0..(n - 1) <=> b \in 0..(n - 2) \/ b = n - 1
    BY <1>0
  <2>4. sum[n] = 0 <=> sum[n - 1] = 0 /\ bars[n - 1] = 0
    BY <2>1
  <2>5. sum[n] = 0 <=> \A b \in 0..(n - 1) : bars[b] = 0
    BY <2>2, <2>3, <2>4
  <2>6. sum[n] \in Nat
    BY <2>1
  <2> QED BY <2>1, <2>5, <2>6
<1> HIDE DEF S
<1>4. \A n \in 1..top : n - 1 \in S => n \in S
  BY <1>3
<1>5. \A n \in 0..top : n \in S
  BY <1>0, <1>2, <1>4, IndexInduction
<1>6. top \in S
  BY <1>0, <1>5
<1>7. sum[top] = 0 <=> \A b \in 0..(top - 1) : bars[b] = 0
  BY <1>6 DEF S
<1>8. Total(bars) = sum[top]
  BY DEF Total, sum, top
<1> QED BY <1>0, <1>7, <1>8

\* ui.c:420-424: the largest bar, but never less than one.
LEMMA LargestOf ==
    ASSUME NEW bars \in [Buckets -> Nat], NEW bound \in Nat, \A b \in Buckets : bars[b] <= bound
    PROVE  /\ Largest(bars) \in Nat /\ Largest(bars) >= 1
           /\ \A b \in Buckets : bars[b] <= Largest(bars)
           /\ Largest(bars) = 1 \/ \E b \in Buckets : bars[b] = Largest(bars)
<1> DEFINE T == {bars[b] : b \in Buckets} \cup {1}
<1>1. T \in SUBSET Nat /\ T # {} /\ 1 \in T /\ \A x \in T : x <= bound + 1
  OBVIOUS
<1>2. /\ \A b \in Buckets : bars[b] \in T
      /\ \A x \in T : x = 1 \/ \E b \in Buckets : bars[b] = x
  OBVIOUS
<1>3. Largest(bars) = Max(T)
  BY DEF Largest
<1> HIDE DEF T
<1>4. bound + 1 \in Nat
  OBVIOUS
<1>5. \E x \in T : \A y \in T : y <= x
  BY <1>1, <1>4, GreatestMember
<1>6. \E x \in T : \A y \in T : x >= y
  BY <1>1, <1>5
<1>7. Max(T) \in T /\ \A y \in T : Max(T) >= y
  BY <1>6, Zenon DEF Max
<1> HIDE DEF Max
<1>8. Max(T) \in Nat /\ Max(T) >= 1
  BY <1>1, <1>7
<1>9. \A b \in Buckets : bars[b] <= Max(T)
  BY <1>1, <1>2, <1>7, <1>8
<1> QED BY <1>2, <1>3, <1>7, <1>8, <1>9

\* A chart whose bars are not negative: its hint and its axis.
LEMMA ChartReadable ==
    ASSUME NEW card, card.bars \in [Buckets -> Nat], ChartOf(card),
           NEW bound \in Nat, \A b \in Buckets : card.bars[b] <= bound
    PROVE  /\ card.hint <=> \A b \in Buckets : card.bars[b] = 0
           /\ LET max == Largest(card.bars)
              IN  /\ max \in Nat /\ max >= 1
                  /\ \A b \in Buckets : card.bars[b] <= max
                  /\ max = 1 \/ \E b \in Buckets : card.bars[b] = max
                  /\ card.axis = Signed(max + (max \div 8) + 1)
<1>1. card.hint <=> \A b \in Buckets : card.bars[b] = 0
  BY TotalZero DEF ChartOf
<1>2. card.axis = Signed(Largest(card.bars) + (Largest(card.bars) \div 8) + 1)
  BY DEF ChartOf, AxisFor
<1> QED BY <1>1, <1>2, LargestOf

----------------------------------------------------------------------------
(***************************************************************************)
(* The invariant.                                                          *)
(***************************************************************************)

LEMMA ScreenInitially == Init => ScreenInv
<1> SUFFICES ASSUME Init PROVE ScreenInv
  OBVIOUS
<1>1. Shaped(snapshot) /\ snapshot.version = NoText
  BY Zenon DEF Init, Zero, Shaped
<1>2. PageShaped(page)
  <2> DEFINE badge == MakeLabel("Protection: unknown", "muted")
             cards1 == [c \in Charts |-> MakeChartCard(c)]
             cards2 == [general |-> MakeTableCard("General statistics", GenRows),
                        clients |-> MakeTableCard("Top clients", TopRows)]
             cards3 == [queried |-> MakeTableCard("Top queried domains", TopRows),
                        blocked |-> MakeTableCard("Top blocked domains", TopRows)]
             row1 == MakeRow(32, cards1)
             row2 == MakeRow(30, cards2)
             row3 == MakeRow(-1, cards3)
  <2>1. page = [badge |-> badge, row1 |-> row1, row2 |-> row2, row3 |-> row3,
                footer_version |-> NoText]
    BY Zenon DEF Init, Created
  <2> HIDE DEF badge, cards1, cards2, cards3
  <2>2. RowShaped(row1) /\ RowShaped(row2) /\ RowShaped(row3)
    BY Zenon DEF MakeRow, RowShaped
  <2> HIDE DEF row1, row2, row3
  <2> QED BY <2>1, <2>2, Zenon DEF PageShaped
<1>3. ASSUME NEW c \in Charts PROVE CardShaped(page.row1.cards[c])
  <2>1. page.row1.cards[c] = MakeChartCard(c)
    BY DEF Init, Created, MakeRow
  <2> QED BY <2>1, Zenon DEF MakeChartCard, CardShaped
<1>4. ToldHeld
  <2>1. told = [field \in {"protection", "version"} |-> Missing]
    BY DEF Init
  <2>2. told["protection"] = Missing /\ told["version"] = Missing
    BY <2>1
  <2> QED BY <1>1, <2>1, <2>2 DEF ToldHeld
<1>7. TablesShaped(page)
  <2>1. /\ page.row2.cards.general = MakeTableCard("General statistics", GenRows)
        /\ page.row2.cards.clients = MakeTableCard("Top clients", TopRows)
        /\ page.row3.cards["queried"] = MakeTableCard("Top queried domains", TopRows)
        /\ page.row3.cards["blocked"] = MakeTableCard("Top blocked domains", TopRows)
    BY DEF Init, Created, MakeRow
  <2>2. \A title, rows : TableShaped(MakeTableCard(title, rows))
    BY Zenon DEF MakeTableCard, TableShaped
  <2>3. \A l \in Lists : TableShaped(ListOf(page, l))
    BY <2>1, <2>2 DEF ListOf, Lists
  <2> QED BY <2>1, <2>2, <2>3 DEF TablesShaped
<1>5. GoodTyped /\ FiguresHeld
  BY DEF Init, GoodTyped, FiguresHeld
<1>6. TableInv
  <2>1. width = 0 /\ resized = FALSE
    BY DEF Init
  <2>2. resized \in BOOLEAN
    BY <2>1, Zenon
  <2>3. width \in Nat /\ ~(width > 0)
    BY <2>1
  <2> QED BY <2>2, <2>3 DEF TableInv
<1> QED BY <1>1, <1>2, <1>3, <1>4, <1>5, <1>6, <1>7 DEF ScreenInv, Shape, PageOK

\* Figures that stay are still those of the document and on the page.
LEMMA FiguresStay ==
    ASSUME NEW d, NEW doc, NEW r, NEW s, SameFigures(s, r), OfDocument(r, doc), FiguresShown(d, r)
    PROVE  OfDocument(s, doc) /\ FiguresShown(d, s)
<1>1. /\ s.counters = r.counters /\ s.buckets = r.buckets /\ s.series = r.series
      /\ s.n = r.n /\ s.tops = r.tops
  BY DEF SameFigures
<1>2. OfDocument(s, doc)
  BY <1>1 DEF OfDocument, SeriesOf
<1>3. \A c \in Charts : BarsFrom(s, c) = BarsFrom(r, c)
  BY <1>1 DEF BarsFrom
<1>5. Points(s) = Points(r)
  BY <1>1 DEF Points
<1>4. FiguresShown(d, s)
  BY <1>1, <1>3, <1>5 DEF FiguresShown
<1> QED BY <1>2, <1>4

\* The page gives what was stated last.
LastTold ==
    /\ page.footer_version = IF told["version"] \in {Missing, NoText}
                             THEN "version unknown" ELSE told["version"]
    /\ told["protection"] # Missing => page.badge = BadgeFor(told["protection"])

\* main.c:91-114: a round has ended.
LEMMA PollStep ==
    ASSUME ScreenInv, NEW stats \in StatsDocs \cup {Garbage, Failed},
           NEW status \in StatusDocs \cup {Garbage, Failed}, PollCb(stats, status)
    PROVE  ScreenInv' /\ (UNCHANGED <<page, good>> \/ LastTold')
<1>1. /\ Shaped(snapshot) /\ PageOK(page) /\ ToldHeld
      /\ TableInv /\ good \in StatsDocs \cup {Failed}
  BY DEF ScreenInv, Shape, GoodTyped
<1>2. snapshot' = Taken(stats, status, snapshot)
  BY DEF PollCb
<1>3. /\ Shaped(snapshot')
      /\ snapshot'.version = Said(status, "version", snapshot.version)
      /\ snapshot'.protection = Said(status, "protection", snapshot.protection)
      /\ ~IsJson(stats) => SameFigures(snapshot', snapshot)
      /\ IsJson(stats) => stats \in StatsDocs /\ stats # Failed /\ OfDocument(snapshot', stats)
  BY <1>1, <1>2, RoundTaken
<1>4. UNCHANGED tableVars
  BY DEF PollCb, tableVars
<1>5. TableInv'
  BY <1>1, <1>4, TableStep
<1>8. ToldHeld'
  <2>1. told' = [field \in DOMAIN told |-> Said(status, field, told[field])]
    BY DEF PollCb, Said
  <2>2. DOMAIN told = {"protection", "version"}
    BY <1>1 DEF ToldHeld
  <2>3. /\ DOMAIN told' = {"protection", "version"}
        /\ told'["version"] = Said(status, "version", told["version"])
        /\ told'["protection"] = Said(status, "protection", told["protection"])
    BY <2>1, <2>2, Zenon
  <2>4. snapshot'.version = (IF told'["version"] = Missing THEN NoText ELSE told'["version"])
    BY <1>1, <1>3, <2>3 DEF ToldHeld, Said
  <2>5. told'["protection"] # Missing => snapshot'.protection = told'["protection"]
    BY <1>1, <1>3, <2>3, Zenon DEF ToldHeld, Said
  <2> QED BY <2>3, <2>4, <2>5 DEF ToldHeld
<1>6. CASE IsJson(stats)
  <2>1. page' = AghUiUpdate(page, snapshot') /\ good' = stats
    BY <1>6 DEF PollCb
  <2>2. Updated(page', snapshot')
    BY <1>1, <2>1, PageUpdated
  <2>5. FiguresHeld' /\ GoodTyped' /\ Shape'
    BY <1>3, <1>6, <2>1, <2>2 DEF FiguresHeld, GoodTyped, Shape, Updated
  <2>6. LastTold'
    <3>1. /\ page'.badge = BadgeFor(snapshot'.protection)
          /\ page'.footer_version = (IF snapshot'.version = NoText THEN "version unknown"
                                                                   ELSE snapshot'.version)
      BY <2>2 DEF Updated
    <3>2. page'.footer_version = (IF told'["version"] \in {Missing, NoText}
                                  THEN "version unknown" ELSE told'["version"])
      BY <1>8, <3>1 DEF ToldHeld
    <3>3. told'["protection"] # Missing => page'.badge = BadgeFor(told'["protection"])
      BY <1>8, <3>1, Zenon DEF ToldHeld
    <3> QED BY <3>2, <3>3 DEF LastTold
  <2> QED BY <1>5, <1>8, <2>5, <2>6 DEF ScreenInv
<1>7. CASE ~IsJson(stats)
  <2>1. page' = page /\ good' = good
    BY <1>7 DEF PollCb
  <2>2. FiguresHeld'
    <3>1. SUFFICES ASSUME good # Failed
                   PROVE  OfDocument(snapshot', good) /\ FiguresShown(page, snapshot')
      BY <2>1 DEF FiguresHeld
    <3>2. OfDocument(snapshot, good) /\ FiguresShown(page, snapshot)
      BY <3>1 DEF ScreenInv, FiguresHeld
    <3>3. SameFigures(snapshot', snapshot)
      BY <1>3, <1>7
    <3> QED BY <3>2, <3>3, FiguresStay
  <2>3. Shape' /\ GoodTyped'
    BY <1>1, <1>3, <2>1 DEF Shape, GoodTyped
  <2> QED BY <1>5, <1>8, <2>1, <2>2, <2>3 DEF ScreenInv
<1> QED BY <1>6, <1>7

\* Every other step leaves the page alone, or the figures.
LEMMA OtherSteps ==
    ASSUME ScreenInv, \/ Paint \/ SelfCheck \/ (\E w \in Widths : Resize(w)) \/ TableFit
                      \/ UNCHANGED vars
    PROVE  ScreenInv' /\ UNCHANGED <<page, good>>
<1>1. UNCHANGED <<snapshot, page, good, told>>
  BY DEF Paint, SelfCheck, Resize, TableFit, vars, figureVars
<1>2. UNCHANGED tableVars \/ TableFit \/ \E w \in Widths : Resize(w)
  BY DEF Paint, SelfCheck, vars, figureVars, tableVars
<1>3. TableInv'
  BY <1>2, TableStep DEF ScreenInv
<1>4. Shape' /\ GoodTyped' /\ ToldHeld' /\ FiguresHeld'
  BY <1>1 DEF ScreenInv, Shape, GoodTyped, ToldHeld, FiguresHeld
<1> QED BY <1>1, <1>3, <1>4 DEF ScreenInv

LEMMA ScreenStep ==
    ASSUME ScreenInv, [Next]_vars
    PROVE  ScreenInv' /\ (UNCHANGED <<page, good>> \/ LastTold')
<1>1. CASE \E stats \in StatsDocs \cup {Garbage, Failed}, status \in StatusDocs \cup {Garbage, Failed} :
               PollCb(stats, status)
  BY <1>1, PollStep
<1>2. CASE ~\E stats \in StatsDocs \cup {Garbage, Failed}, status \in StatusDocs \cup {Garbage, Failed} :
               PollCb(stats, status)
  <2>1. ScreenInv' /\ UNCHANGED <<page, good>>
    BY <1>2, OtherSteps DEF Next
  <2> QED BY <2>1
<1> QED BY <1>1, <1>2

----------------------------------------------------------------------------
(***************************************************************************)
(* Pixels.                                                                 *)
(***************************************************************************)

\* A chart as agh_ui_update leaves it, and as it is drawn thereafter.
DrawnChart(card) == card.bars \in [Buckets -> (-WordMod)..WordMod] /\ ChartOf(card)

\* What the self-check reports is what it counted, and it comes after two rounds:
\* by then the frame is one of a page that had been filled.
FrameInv ==
    /\ applied \in 0..2
    /\ applied >= 1 => good # Failed
    /\ applied >= 2 => \A c \in Charts : DrawnChart(frame[c])
    /\ report # <<>> =>
          /\ applied >= 2
          /\ \A c \in Charts :
                /\ report.charts[c].bars = CountColor(frame, c, Colours[c])
                /\ report.charts[c].hint = CountColor(frame, c, "muted")

\* A number whose double is below 2^32 is the same as an int32_t.
LEMMA SignedSmall ==
    ASSUME NEW v \in Nat, 2 * v < WordMod
    PROVE  Signed(v) = v
<1>1. v % WordMod = v
  BY CapAssumption
<1> QED BY <1>1, CapAssumption DEF Signed

\* The axis of a chart none of whose bars reaches it has not wrapped.
LEMMA AxisFits ==
    ASSUME NEW max \in Nat, max >= 1, NEW axis, axis = Signed(max + (max \div 8) + 1), max < axis
    PROVE  axis = max + (max \div 8) + 1
<1> DEFINE v == max + (max \div 8) + 1
           r == v % WordMod
<1>1. WordMod \in Nat /\ WordMod > 4
  BY CapAssumption
<1>2. max \div 8 \in Nat /\ 8 * (max \div 8) <= max
  OBVIOUS
<1>3. v \in Nat /\ r \in 0..(WordMod - 1)
  BY <1>1, <1>2
<1>4. axis = IF 2 * r >= WordMod THEN r - WordMod ELSE r
  BY DEF Signed
<1> HIDE DEF r
<1>5. axis = r /\ 2 * r < WordMod
  BY <1>1, <1>3, <1>4
<1>6. v < WordMod
  BY <1>1, <1>2, <1>3, <1>5
<1>7. r = v
  BY <1>1, <1>3, <1>6 DEF r
<1> QED BY <1>5, <1>7

\* Twice the largest bar reaches its axis.
LEMMA BarIsVisible ==
    ASSUME NEW max \in Nat, max >= 1, NEW h \in Nat, h >= 2,
           NEW axis, axis = max + (max \div 8) + 1
    PROVE  (max * h) \div axis > 0
<1>1. axis \in Nat /\ axis > 0 /\ axis <= 2 * max
  OBVIOUS
<1>2. max * h \in Nat /\ max * h >= 2 * max
  OBVIOUS
<1> DEFINE n == max * h
<1>3. n \in Nat /\ n >= axis
  BY <1>1, <1>2
<1> HIDE DEF n
<1>4. n \div axis > 0
  BY <1>1, <1>3
<1> QED BY <1>4 DEF n

LEMMA AreaIs ==
    ASSUME NEW c \in Charts
    PROVE  /\ \E left \in Nat : Area(c) = [x1 |-> left, y1 |-> 0, x2 |-> left + MaxBuckets - 1,
                                          y2 |-> BufferHeight - 1]
           /\ Colours[c] # "muted" /\ Colours[c] # "card"
<1>1. \A n \in {0, 1, 2, 3} : n * MaxBuckets \in Nat
  BY CapAssumption
<1>2. CASE c = "dns_queries"
  BY <1>1, <1>2 DEF Area, Colours
<1>3. CASE c = "blocked_filtering"
  BY <1>1, <1>3 DEF Area, Colours
<1>4. CASE c = "blocked_safebrowsing"
  BY <1>1, <1>4 DEF Area, Colours
<1>5. CASE c = "blocked_parental"
  BY <1>1, <1>5 DEF Area, Colours
<1> QED BY <1>2, <1>3, <1>4, <1>5 DEF Charts

\* How many pixels there are of a colour is a number, zero when there is none.
LEMMA Counting ==
    ASSUME NEW a, NEW b, NEW m, NEW n, a \in Int, b \in Int, m \in Int, n \in Int,
           NEW T \in SUBSET [x : a..b, y : m..n]
    PROVE  Cardinality(T) \in Nat /\ (Cardinality(T) = 0 <=> T = {})
<1> DEFINE S == (a..b) \X (m..n)
           R == [x : a..b, y : m..n]
           f == [p \in S |-> [x |-> p[1], y |-> p[2]]]
<1>1. IsFiniteSet(a..b) /\ IsFiniteSet(m..n)
  BY FS_Interval
<1>2. IsFiniteSet(S)
  BY <1>1, FS_Product
<1>3. f \in Surjection(S, R)
  <2>1. f \in [S -> R]
    OBVIOUS
  <2>2. ASSUME NEW r \in R PROVE \E p \in S : f[p] = r
    <3>1. <<r.x, r.y>> \in S /\ r = [x |-> r.x, y |-> r.y]
      OBVIOUS
    <3>2. f[<<r.x, r.y>>] = r
      BY <3>1
    <3> QED BY <3>1, <3>2
  <2> HIDE DEF f, S, R
  <2> QED BY <2>1, <2>2 DEF Surjection
<1> HIDE DEF f, S
<1>4. IsFiniteSet(R)
  BY <1>2, <1>3, FS_Surjection
<1>5. IsFiniteSet(T)
  BY <1>4, FS_Subset
<1> QED BY <1>5, FS_EmptySet, FS_CardinalityType

\* ui.h:38-42, ui.c:520-561: a chart that lies in the buffer and whose bars fit
\* its axis shows bars or the hint, and never both.
LEMMA PixelsAnswer ==
    ASSUME NEW c \in Charts, DrawnChart(frame[c]), InBuffer(Area(c)), Positive(frame[c])
    PROVE  CountColor(frame, c, Colours[c]) > 0 <=> CountColor(frame, c, "muted") = 0
<1> DEFINE card == frame[c]
           a == Area(c)
           colour == Colours[c]
           coloured == {p \in Clipped(a) : Drawn(frame, c, p.x, p.y) = colour}
           hinted == {p \in Clipped(a) : Drawn(frame, c, p.x, p.y) = "muted"}
<1>1. PICK left \in Nat : a = [x1 |-> left, y1 |-> 0, x2 |-> left + MaxBuckets - 1,
                               y2 |-> BufferHeight - 1]
  BY AreaIs
<1>2. colour # "muted" /\ colour # "card"
  BY AreaIs
<1>3. MaxBuckets \in Nat /\ MaxBuckets >= 1 /\ BufferHeight \in Nat /\ BufferHeight >= 2
  BY CapAssumption, ScreenAssumption
<1>4. Clipped(a) = [x : left..(left + MaxBuckets - 1), y : 0..(BufferHeight - 1)]
  <2>1. InBuffer(a)
    OBVIOUS
  <2> HIDE DEF a
  <2>2. /\ a.x1 = left /\ a.y1 = 0 /\ a.x2 = left + MaxBuckets - 1 /\ a.y2 = BufferHeight - 1
    BY <1>1
  <2>3. /\ ~(a.x1 < 0) /\ ~(a.y1 < 0) /\ ~(a.x2 >= BufferWidth) /\ ~(a.y2 >= BufferHeight)
    BY <1>3, <2>1, <2>2, ScreenAssumption DEF InBuffer
  <2>4. Clipped(a) = [x : a.x1..a.x2, y : a.y1..a.y2]
    BY <2>3 DEF Clipped
  <2> QED BY <2>2, <2>4
<1>5. /\ CountColor(frame, c, colour) = Cardinality(coloured)
      /\ CountColor(frame, c, "muted") = Cardinality(hinted)
  BY DEF CountColor
<1>6. /\ Cardinality(coloured) \in Nat /\ (Cardinality(coloured) = 0 <=> coloured = {})
      /\ Cardinality(hinted) \in Nat /\ (Cardinality(hinted) = 0 <=> hinted = {})
  <2>1. coloured \in SUBSET Clipped(a) /\ hinted \in SUBSET Clipped(a)
    OBVIOUS
  <2> HIDE DEF coloured, hinted, a
  <2>2. left \in Int /\ left + MaxBuckets - 1 \in Int /\ 0 \in Int /\ BufferHeight - 1 \in Int
    BY <1>3
  <2> QED BY <1>4, <2>1, <2>2, Counting
<1>7. /\ card.bars \in [Buckets -> Nat] /\ ChartOf(card)
      /\ \A b \in Buckets : card.bars[b] <= WordMod /\ card.bars[b] < card.axis
  <2>1. /\ card.bars \in [Buckets -> (-WordMod)..WordMod] /\ ChartOf(card)
        /\ \A b \in Buckets : 0 <= card.bars[b] /\ card.bars[b] < card.axis
    BY DEF DrawnChart, Positive
  <2> HIDE DEF card
  <2> QED BY <2>1, CapAssumption
<1> DEFINE max == Largest(card.bars)
<1>8. /\ card.hint <=> \A b \in Buckets : card.bars[b] = 0
      /\ max \in Nat /\ max >= 1
      /\ \A b \in Buckets : card.bars[b] <= max
      /\ max = 1 \/ \E b \in Buckets : card.bars[b] = max
      /\ card.axis = Signed(max + (max \div 8) + 1)
  <2> HIDE DEF card
  <2> QED BY <1>3, <1>7, CapAssumption, ChartReadable
<1>9. ASSUME NEW x \in left..(left + MaxBuckets - 1), NEW y \in 0..(BufferHeight - 1)
      PROVE  LET bar == card.bars[x - left]
             IN  Drawn(frame, c, x, y) =
                     IF card.axis > 0 /\ bar > 0
                        /\ (bar * BufferHeight) \div card.axis > BufferHeight - 1 - y
                     THEN colour
                     ELSE IF card.hint /\ x = (left + left + MaxBuckets - 1) \div 2 THEN "muted"
                     ELSE "card"
  <2>1. a.y2 - a.y1 + 1 = BufferHeight /\ a.x1 = left /\ a.y2 = BufferHeight - 1
        /\ a.x1 + a.x2 = left + left + MaxBuckets - 1
    BY <1>1, <1>3
  <2>2. StyleCard.background = "card"
    BY DEF StyleCard
  <2> HIDE DEF a
  <2> QED BY <2>1, <2>2 DEF Drawn, a
<1>10. \A x \in left..(left + MaxBuckets - 1) : x - left \in Buckets
  BY <1>3 DEF Buckets
<1> DEFINE mid == (left + left + MaxBuckets - 1) \div 2
<1>11. mid \in left..(left + MaxBuckets - 1)
  BY <1>3
<1>12. \A p \in Clipped(a) : /\ p.x \in left..(left + MaxBuckets - 1)
                             /\ p.y \in 0..(BufferHeight - 1)
  BY <1>4
<1>13. CASE \A b \in Buckets : card.bars[b] = 0
  <2>1. card.hint
    BY <1>8, <1>13
  <2>2. ASSUME NEW x \in left..(left + MaxBuckets - 1), NEW y \in 0..(BufferHeight - 1)
        PROVE  Drawn(frame, c, x, y) = IF x = mid THEN "muted" ELSE "card"
    <3>1. card.bars[x - left] = 0
      BY <1>10, <1>13
    <3> HIDE DEF card, a, colour
    <3> QED BY <1>9, <2>1, <3>1
  <2> DEFINE p == [x |-> mid, y |-> 0]
  <2>3. p \in Clipped(a) /\ p.x = mid /\ p.y = 0
    BY <1>3, <1>4, <1>11
  <2>4. Drawn(frame, c, p.x, p.y) = "muted"
    BY <1>3, <1>11, <2>2, <2>3
  <2>5. p \in hinted
    BY <2>3, <2>4
  <2>6. coloured = {}
    BY <1>2, <1>12, <2>2
  <2> HIDE DEF coloured, hinted, p
  <2>7. Cardinality(hinted) # 0 /\ Cardinality(coloured) = 0
    BY <1>6, <2>5, <2>6
  <2> QED BY <1>5, <1>6, <2>7
<1>14. CASE ~\A b \in Buckets : card.bars[b] = 0
  <2>1. ~card.hint
    BY <1>8, <1>14
  <2>2. PICK b \in Buckets : card.bars[b] = max
    <3>1. PICK b \in Buckets : card.bars[b] # 0
      BY <1>14
    <3> HIDE DEF card, max
    <3>2. card.bars[b] \in Nat /\ card.bars[b] <= max /\ max \in Nat
      BY <1>7, <1>8
    <3>3. max = 1 => card.bars[b] = max
      BY <3>1, <3>2
    <3> QED BY <1>8, <3>3
  <2> HIDE DEF card, max, coloured, hinted, colour, a, mid
  <2>3. card.axis = max + (max \div 8) + 1
    BY <1>7, <1>8, <2>2, AxisFits
  <2>4. (max * BufferHeight) \div card.axis > 0
    BY <1>3, <1>8, <2>3, BarIsVisible
  <2>5. b \in Nat /\ b <= MaxBuckets - 1
    BY <1>3 DEF Buckets
  <2> DEFINE x == left + b
             y == BufferHeight - 1
             p == [x |-> x, y |-> y]
  <2>6. /\ x \in left..(left + MaxBuckets - 1) /\ y \in 0..(BufferHeight - 1)
        /\ x - left = b /\ BufferHeight - 1 - y = 0
    BY <1>3, <2>5
  <2>7. p \in Clipped(a) /\ p.x = x /\ p.y = y
    BY <1>4, <2>6
  <2>8. card.axis > 0
    BY <1>8, <2>3
  <2> HIDE DEF x, y, p
  <2>9. Drawn(frame, c, x, y) = colour
    <3>1. card.bars[x - left] = max /\ max > 0
      BY <1>8, <2>2, <2>6
    <3> QED BY <1>9, <2>4, <2>6, <2>8, <3>1
  <2>10. p \in coloured
    BY <2>7, <2>9 DEF coloured
  <2>11. ASSUME NEW q \in Clipped(a) PROVE Drawn(frame, c, q.x, q.y) # "muted"
    <3>1. q.x \in left..(left + MaxBuckets - 1) /\ q.y \in 0..(BufferHeight - 1)
      BY <1>12
    <3> QED BY <1>2, <1>9, <2>1, <3>1
  <2>12. hinted = {}
    BY <2>11 DEF hinted
  <2>13. Cardinality(hinted) = 0 /\ Cardinality(coloured) # 0
    BY <1>6, <2>10, <2>12
  <2> QED BY <1>5, <1>6, <2>13 DEF colour
<1> QED BY <1>13, <1>14

\* The charts of a page that was filled.
LEMMA PageDrawn ==
    ASSUME ScreenInv, ScreenTypeOK, good # Failed, NEW c \in Charts
    PROVE  DrawnChart(page.row1.cards[c])
<1>1. /\ page.row1.cards[c].bars = BarsFrom(snapshot, c) /\ ChartOf(page.row1.cards[c])
  BY DEF ScreenInv, FiguresHeld, FiguresShown
<1>2. \A b \in Buckets : snapshot.series[c][b] \in Int
  BY CapAssumption DEF ScreenTypeOK, Figures, Bucket
<1>3. \A v \in Int : Signed(v) \in (-WordMod)..WordMod
  BY CapAssumption DEF Signed
<1>4. 0 \in (-WordMod)..WordMod
  BY CapAssumption
<1>5. BarsFrom(snapshot, c) \in [Buckets -> (-WordMod)..WordMod]
  BY <1>2, <1>3, <1>4 DEF BarsFrom
<1> QED BY <1>1, <1>5 DEF DrawnChart

LEMMA FrameStep ==
    ASSUME FrameInv, ScreenInv, ScreenTypeOK, [Next]_vars
    PROVE  FrameInv'
<1>0. frame' = frame => \A c \in Charts : \A colour :
             CountColor(frame, c, colour)' = CountColor(frame, c, colour)
  BY DEF CountColor, Drawn, Clipped, Area, StyleCard
<1>1. ASSUME NEW stats \in StatsDocs \cup {Garbage, Failed},
             NEW status \in StatusDocs \cup {Garbage, Failed}, PollCb(stats, status)
      PROVE  FrameInv'
  <2>1. report = <<>> /\ report' = report /\ frame' = frame
    BY <1>1 DEF PollCb
  <2>2. applied \in 0..2 /\ (applied >= 1 => good # Failed)
    BY DEF FrameInv
  <2>3. CASE IsJson(stats)
    <3>1. applied' = Smaller(applied + 1, 2) /\ good' = stats /\ stats # Failed
      BY <1>1, <2>3 DEF PollCb, IsJson
    <3>2. applied' \in 0..2 /\ (applied' >= 2 => applied >= 1)
      BY <2>2, <3>1 DEF Smaller
    <3>3. frame = page.row1.cards
      BY <1>1 DEF PollCb, DrawnBetweenPolls, RefrPeriod, PollPeriod
    <3>4. applied' >= 2 => \A c \in Charts : DrawnChart(frame[c])
      BY <2>2, <3>2, <3>3, PageDrawn
    <3> QED BY <2>1, <3>1, <3>2, <3>4 DEF FrameInv
  <2>4. CASE ~IsJson(stats)
    <3>1. applied' = applied /\ good' = good
      BY <1>1, <2>4 DEF PollCb
    <3> QED BY <2>1, <3>1 DEF FrameInv
  <2> QED BY <2>3, <2>4
<1>2. CASE Paint
  <2>1. /\ report = <<>> /\ report' = report /\ frame' = page.row1.cards
        /\ applied' = applied /\ good' = good
    BY <1>2 DEF Paint
  <2>2. applied \in 0..2 /\ (applied >= 1 => good # Failed)
    BY DEF FrameInv
  <2>3. applied' >= 2 => \A c \in Charts : DrawnChart(frame'[c])
    BY <2>1, <2>2, PageDrawn
  <2> QED BY <2>1, <2>2, <2>3 DEF FrameInv
<1>3. CASE SelfCheck
  <2>1. /\ report' = AghUiSelfCheck(page, frame, column, width) /\ applied >= 2
        /\ frame' = frame /\ applied' = applied /\ good' = good
    BY <1>3 DEF SelfCheck, SelfCheckDue
  <2>2. \A c \in Charts : /\ report'.charts[c].bars = CountColor(frame, c, Colours[c])
                          /\ report'.charts[c].hint = CountColor(frame, c, "muted")
    BY <2>1 DEF AghUiSelfCheck
  <2>3. \A c \in Charts : /\ report'.charts[c].bars = CountColor(frame, c, Colours[c])'
                          /\ report'.charts[c].hint = CountColor(frame, c, "muted")'
    BY <1>0, <2>1, <2>2
  <2> QED BY <2>1, <2>3 DEF FrameInv
<1>4. CASE UNCHANGED figureVars
  BY <1>0, <1>4 DEF figureVars, FrameInv
<1> QED BY <1>1, <1>2, <1>3, <1>4 DEF Next, Resize, TableFit, vars, figureVars

----------------------------------------------------------------------------
(***************************************************************************)
(* The theorems.                                                           *)
(***************************************************************************)

\* ui.c, agh.c:89-208: the invariant of the page, for every document, every
\* array size and every width.
THEOREM ScreenInvariance == Spec => []ScreenInv
<1>1. Init => ScreenInv
  BY ScreenInitially
<1>2. ScreenInv /\ [Next]_vars => ScreenInv'
  BY ScreenStep
<1> QED BY <1>1, <1>2, PTL DEF Spec

\* agh.h:14-61, agh.c:89-208: whatever AdGuard Home sends, the snapshot stays
\* within its arrays and its types.
THEOREM ScreenTypeCorrect == Spec => []ScreenTypeOK
<1>1. Init => ScreenTypeOK
  <2> SUFFICES ASSUME Init PROVE ScreenTypeOK
    OBVIOUS
  <2>1. snapshot \in Figures
    BY ZeroTyped DEF Init
  <2>2. applied \in 0..2 /\ good \in StatsDocs \cup {Failed} /\ width \in Widths \cup {0}
    BY DEF Init
  <2>3. column = <<200, 120>> /\ resized = FALSE
    BY DEF Init
  <2>4. column \in Int \X Int
    BY <2>3
  <2>5. resized \in BOOLEAN
    BY <2>3, Zenon
  <2> QED BY <2>1, <2>2, <2>4, <2>5 DEF ScreenTypeOK
<1>2. ScreenTypeOK /\ [Next]_vars => ScreenTypeOK'
  BY TypesStep
<1> QED BY <1>1, <1>2, PTL DEF Spec

\* ui.c:154-155, 420-439: as long as the buckets are moderate, a chart says that
\* there is nothing to see when there is not, and its axis is above its bars.
THEOREM ChartsAreReadable == Spec => []ChartsReadable
<1>1. ScreenInv /\ ScreenTypeOK => ChartsReadable
  <2> SUFFICES ASSUME ScreenInv, ScreenTypeOK, good # Failed, NEW c \in Charts, Moderate(c)
               PROVE  LET card == page.row1.cards[c]
                      IN  /\ card.hint <=> \A b \in Buckets : snapshot.series[c][b] = 0
                          /\ \A b \in Buckets : 0 <= card.bars[b] /\ card.bars[b] < card.axis
    BY DEF ChartsReadable
  <2> DEFINE card == page.row1.cards[c]
             v == snapshot.series[c]
             n == snapshot.buckets
  <2>1. /\ good \in Statistics /\ OfDocument(snapshot, good)
        /\ card.bars = BarsFrom(snapshot, c) /\ ChartOf(card)
    BY ScreenAssumption DEF ScreenInv, GoodTyped, FiguresHeld, FiguresShown
  <2>2. v \in [Buckets -> Nat] /\ n \in Nat
    BY CapAssumption DEF ScreenTypeOK, Figures, Bucket
  <2>3. \A b \in Buckets : 2 * (v[b] + (v[b] \div 8) + 1) < WordMod
    BY DEF Moderate
  <2>4. \A b \in Buckets : b >= n => v[b] = 0
    <3> DEFINE kept == Smaller(Length(good.series[c]), MaxBuckets)
               all == [d \in Charts |-> Smaller(Length(good.series[d]), MaxBuckets)]
               most == Longest({Smaller(Length(good.series[d]), MaxBuckets) : d \in Charts})
    <3>1. /\ n = most
          /\ \A b \in Buckets : ~(b < kept) => v[b] = 0
      BY <2>1 DEF OfDocument, SeriesOf
    <3>2. all[c] <= most /\ all[c] = kept
      BY <2>1, BucketsAreTheLongest
    <3>3. kept \in Nat
      BY <2>1, KeptTyped, CapAssumption
    <3> HIDE DEF kept, all, most, v, n
    <3> QED BY <2>2, <3>1, <3>2, <3>3, BucketIsNat
  <2>5. \A b \in Buckets : card.bars[b] = v[b]
    <3>1. \A b \in Buckets : card.bars[b] = IF b < n THEN Signed(v[b]) ELSE 0
      BY <2>1 DEF BarsFrom
    <3> HIDE DEF card, v, n
    <3>2. \A b \in Buckets : 2 * v[b] < WordMod
      BY <2>2, <2>3, CapAssumption
    <3>3. \A b \in Buckets : Signed(v[b]) = v[b]
      BY <2>2, <3>2, SignedSmall
    <3> QED BY <2>2, <2>4, <3>1, <3>3, BucketIsNat
  <2>6. card.bars \in [Buckets -> Nat] /\ \A b \in Buckets : card.bars[b] <= WordMod
    <3>1. card.bars = [b \in Buckets |-> card.bars[b]]
      BY <2>1 DEF BarsFrom
    <3> HIDE DEF card, v
    <3> QED BY <2>2, <2>3, <2>5, <3>1, CapAssumption
  <2> DEFINE max == Largest(card.bars)
  <2>7. /\ card.hint <=> \A b \in Buckets : card.bars[b] = 0
        /\ max \in Nat /\ max >= 1
        /\ \A b \in Buckets : card.bars[b] <= max
        /\ max = 1 \/ \E b \in Buckets : card.bars[b] = max
        /\ card.axis = Signed(max + (max \div 8) + 1)
    BY <2>1, <2>6, CapAssumption, ChartReadable
  <2> HIDE DEF card, v, n, max
  <2>8. 2 * (max + (max \div 8) + 1) < WordMod
    BY <2>3, <2>5, <2>7, CapAssumption
  <2>9. card.axis = max + (max \div 8) + 1
    <3> DEFINE w == max + (max \div 8) + 1
    <3>1. w \in Nat /\ 2 * w < WordMod
      BY <2>7, <2>8
    <3> HIDE DEF w
    <3>2. Signed(w) = w
      BY <3>1, SignedSmall
    <3> QED BY <2>7, <3>2 DEF w
  <2>10. \A b \in Buckets : 0 <= card.bars[b] /\ card.bars[b] < card.axis
    BY <2>6, <2>7, <2>9
  <2> QED BY <2>5, <2>7, <2>10 DEF card, v
<1> QED BY <1>1, ScreenInvariance, ScreenTypeCorrect, PTL

\* ui.c:341-406, agh.c:129-148: each top table shows the first entries of the last
\* document's list and blanks below them, and the cards and the general table give
\* the same figures.
THEOREM ListsAreShown == Spec => []TablesShowTheLists
<1>1. ScreenInv /\ ScreenTypeOK => TablesShowTheLists
  <2> SUFFICES ASSUME ScreenInv, ScreenTypeOK, good # Failed PROVE TablesShowTheLists
    BY DEF TablesShowTheLists
  <2>1. good \in Statistics /\ OfDocument(snapshot, good) /\ FiguresShown(page, snapshot)
    BY ScreenAssumption DEF ScreenInv, GoodTyped, FiguresHeld
  <2>2. ASSUME NEW l \in Lists, NEW r \in 1..TopRows
        PROVE  List(l).row[r] =
                   IF r <= Smaller(Len(Listed(l)), MaxTop)
                   THEN Cell(Listed(l)[r].key, GroupU64(Listed(l)[r].value)) ELSE Blank
    <3> DEFINE list == WellFormed(good.tops[l])
               count == JTopCount(good.tops[l])
               tops == snapshot.tops[l]
    <3>1. Listed(l) = list
      BY <2>1, ListedIsWellFormed
    <3>2. count = Smaller(Len(list), MaxTop) /\ count \in 0..MaxTop
      <4>1. /\ good.tops[l] \in Seq(Entry \cup {Missing}) \cup {Missing}
            /\ snapshot.tops[l] \in [Entries -> Entry \cup {NoEntry}]
        BY <2>1 DEF Statistics, ScreenTypeOK, Figures
      <4>2. count \in 0..MaxTop
        BY <4>1, TopTaken
      <4> QED BY <4>2 DEF JTopCount
    <3>3. List(l).row[r] = IF r <= snapshot.n[l]
                           THEN Cell(tops[r - 1].key, GroupU64(tops[r - 1].value)) ELSE Blank
      <4>1. List(l) = ListOf(page, l)
        BY DEF List, ListOf
      <4> QED BY <2>1, <4>1 DEF FiguresShown
    <3>4. /\ snapshot.n[l] = count
          /\ \A e \in Entries : e < count => tops[e] = list[e + 1]
      BY <2>1 DEF OfDocument
    <3> HIDE DEF list, count, tops
    <3>5. r <= count => tops[r - 1] = list[r]
      <4> SUFFICES ASSUME r <= count PROVE tops[r - 1] = list[r]
        OBVIOUS
      <4>1. r - 1 \in Entries /\ r - 1 < count /\ (r - 1) + 1 = r
        BY <3>2, CapAssumption, ScreenAssumption DEF Entries
      <4> QED BY <3>4, <4>1
    <3> QED BY <3>1, <3>2, <3>3, <3>4, <3>5
  <2>3. ASSUME NEW c \in Counters
        PROVE  LET figure == GroupU64(JNum(good.counters[c]))
               IN  /\ SubSeq(page.row2.cards.general.row[GeneralRow[c]].value, 1, Len(figure)) = figure
                   /\ c \in Charts => page.row1.cards[c].value = figure
    <3> DEFINE count == snapshot.counters[c]
               value == page.row2.cards.general.row[GeneralRow[c]].value
    <3>1. /\ Figure(value, count)
          /\ c \in Charts => page.row1.cards[c].value = GroupU64(count)
      BY <2>1 DEF FiguresShown
    <3>2. count = JNum(good.counters[c]) /\ count \in Count
      BY <2>1 DEF OfDocument, ScreenTypeOK, Figures
    <3> HIDE DEF count, value
    <3>3. SubSeq(value, 1, Len(GroupU64(count))) = GroupU64(count)
      BY <3>1, <3>2, FigureBegins
    <3> QED BY <3>1, <3>2, <3>3 DEF value
  <2> QED BY <2>2, <2>3 DEF TablesShowTheLists
<1> QED BY <1>1, ScreenInvariance, ScreenTypeCorrect, PTL

\* ui.h:38-42, main.c:56-74, 91-114: the self-check comes when the charts of a
\* page that was filled have been drawn, and what it counts tells their bars from
\* their hints.
THEOREM SelfCheckAnswers == Spec => []SelfCheckSeesCharts
<1>1. Init => FrameInv
  BY DEF Init, FrameInv
<1>2. FrameInv /\ ScreenInv /\ ScreenTypeOK /\ [Next]_vars => FrameInv'
  BY FrameStep
<1>3. FrameInv => SelfCheckSeesCharts
  <2> SUFFICES ASSUME FrameInv, report # <<>>, NEW c \in Charts, InBuffer(Area(c)),
                      Positive(frame[c])
               PROVE  report.charts[c].bars > 0 <=> report.charts[c].hint = 0
    BY DEF SelfCheckSeesCharts
  <2>1. /\ report.charts[c].bars = CountColor(frame, c, Colours[c])
        /\ report.charts[c].hint = CountColor(frame, c, "muted")
        /\ DrawnChart(frame[c])
    BY DEF FrameInv
  <2>2. CountColor(frame, c, Colours[c]) > 0 <=> CountColor(frame, c, "muted") = 0
    BY <2>1, PixelsAnswer
  <2> QED BY <2>1, <2>2
<1> QED BY <1>1, <1>2, <1>3, ScreenInvariance, ScreenTypeCorrect, PTL DEF Spec

\* agh.c:101-127, 168: each chart shows the newest buckets of its own series of
\* the last document, and zeros after them.
THEOREM NewestBarsShown == Spec => []BarsAreTheNewest
<1>1. ScreenInv => BarsAreTheNewest
  <2> SUFFICES ASSUME ScreenInv, good # Failed PROVE BarsAreTheNewest
    BY DEF BarsAreTheNewest
  <2>1. good \in Statistics
    BY ScreenAssumption DEF ScreenInv, GoodTyped
  <2>2. OfDocument(snapshot, good) /\ FiguresShown(page, snapshot)
    BY DEF ScreenInv, FiguresHeld
  <2>3. BarsOf(page, good)
    BY <2>1, <2>2, BarsUpdated DEF OfDocument, FiguresShown
  <2> QED BY <2>3 DEF BarsOf, BarsAreTheNewest, Kept
<1> QED BY <1>1, ScreenInvariance, PTL

\* ui.c:166-193: once a card's events have settled its columns fill it exactly.
THEOREM ColumnsFillTheCard == Spec => []ColumnsSpanTheCard
<1>1. ScreenInv => ColumnsSpanTheCard
  <2> SUFFICES ASSUME ScreenInv, ~resized, width > 0
               PROVE  column[1] + column[2] = width /\ column[1] >= 0 /\ column[2] >= 0
    BY DEF ColumnsSpanTheCard
  <2>1. width \in Nat /\ column = Fitted(width)
    BY DEF ScreenInv, TableInv
  <2> QED BY <2>1, FittedSpans
<1> QED BY <1>1, ScreenInvariance, PTL

\* agh.c:195-208, ui.c:447-452: whenever statistics are shown, the badge and the
\* footer give what the status replies stated last, for every version - the empty
\* one too - and any number of rounds that stated nothing.
THEOREM LastToldIsShown == Spec => StatusAsLastTold
<1>1. ScreenInv /\ [Next]_vars =>
        [/\ page'.footer_version = IF told'["version"] \in {Missing, NoText}
                                  THEN "version unknown" ELSE told'["version"]
         /\ told'["protection"] # Missing =>
               page'.badge = IF told'["protection"]
                             THEN [text |-> "Protection: enabled", colour |-> "green"]
                             ELSE [text |-> "Protection: disabled", colour |-> "red"]]_<<page, good>>
  BY ScreenStep, Zenon DEF LastTold, BadgeFor
<1> QED BY <1>1, ScreenInvariance, PTL DEF Spec, StatusAsLastTold

=============================================================================
