------------------------ MODULE DashboardScreenProps ------------------------
(***************************************************************************)
(* What makes the page of ui.c correct: what it shows against the last      *)
(* document it was given, whatever was shown before.                       *)
(***************************************************************************)
EXTENDS DashboardScreen

\* The snapshot stays within the arrays of agh.h, whatever AdGuard Home sends.
ScreenTypeOK ==
    /\ snapshot \in Figures
    /\ applied \in 0..2
    /\ good \in StatsDocs \cup {Failed}
    /\ width \in Widths \cup {0} /\ column \in Int \X Int /\ resized \in BOOLEAN

Kept(c) == Smaller(Length(good.series[c]), MaxBuckets)

\* agh.c:101-108: "Copy the NEWEST entries of an integer array"; agh.c:168: "a
\* missing tail is simply 0".  Each chart shows the newest buckets of its own
\* series of the last document, oldest first, and zeros after them - nothing of
\* an older document that had more.
BarsAreTheNewest ==
    good # Failed =>
        \A c \in Charts :
            LET card == page.row1.cards[c]
            IN  /\ card.points = Longest({Kept(k) : k \in Charts} \cup {1})
                /\ \A b \in Buckets :
                      card.bars[b] =
                          IF b < Kept(c)
                          THEN Signed(JNum(good.series[c][Len(good.series[c]) - Kept(c) + b + 1]))
                          ELSE 0

List(l) == IF l = "clients" THEN page.row2.cards.clients ELSE page.row3.cards[l]

\* The row of the general table that names a counter (ui.c:348-371).
GeneralRow == [dns_queries |-> 1, blocked_filtering |-> 2, blocked_safebrowsing |-> 3,
               blocked_parental |-> 4, blocked_safesearch |-> 5]

\* The entries of the last document that are a name with a number.
Listed(l) == IF good.tops[l] = Missing THEN <<>>
             ELSE LET at == {i \in 1..Len(good.tops[l]) : good.tops[l][i] # Missing}
                  IN  [k \in 1..Cardinality(at) |->
                          good.tops[l][CHOOSE i \in at : Cardinality({j \in at : j <= i}) = k]]

\* ui.c:341-406, agh.c:129-148: a top table shows the first rows of the last
\* document's list in its order, malformed entries left out, and nothing of an
\* older, longer list below them; the row of each counter in the general table
\* gives that counter, before any share, and a chart's card gives the same.
TablesShowTheLists ==
    good # Failed =>
        /\ \A l \in Lists, r \in 1..TopRows :
              List(l).row[r] =
                  IF r <= Smaller(Len(Listed(l)), MaxTop)
                  THEN Cell(Listed(l)[r].key, GroupU64(Listed(l)[r].value)) ELSE Blank
        /\ \A c \in Counters :
              LET figure == GroupU64(JNum(good.counters[c]))
              IN  /\ SubSeq(page.row2.cards.general.row[GeneralRow[c]].value, 1, Len(figure)) = figure
                  /\ c \in Charts => page.row1.cards[c].value = figure

\* Buckets that stay positive as int32_t, and whose axis does too.
Moderate(c) == \A b \in Buckets :
    LET v == snapshot.series[c][b] IN 2 * (v + (v \div 8) + 1) < WordMod

\* ui.c:154-155, 425-439: a chart whose buckets are all zero says so and no other
\* does, and no bar is cut off by the axis, as long as the buckets are moderate.
ChartsReadable ==
    good # Failed =>
        \A c \in Charts : Moderate(c) =>
            LET card == page.row1.cards[c]
            IN  /\ card.hint <=> \A b \in Buckets : snapshot.series[c][b] = 0
                /\ \A b \in Buckets : 0 <= card.bars[b] /\ card.bars[b] < card.axis

InBuffer(a) == a.x1 >= 0 /\ a.y1 >= 0 /\ a.x2 < BufferWidth /\ a.y2 < BufferHeight
Positive(card) == \A b \in Buckets : 0 <= card.bars[b] /\ card.bars[b] < card.axis

\* ui.h:38-42: the self-check "answers 'is the chart actually drawn?'".  It reads
\* pixels that were drawn before the last update; that two refreshes have landed
\* is why they show a chart at all: bars, or the hint that there are none.
SelfCheckSeesCharts ==
    report # <<>> =>
        \A c \in Charts : InBuffer(Area(c)) /\ Positive(frame[c]) =>
            (report.charts[c].bars > 0 <=> report.charts[c].hint = 0)

\* ui.c:166-168: the columns span "the whole card" once the events have settled,
\* and neither is negative, however narrow it is.
ColumnsSpanTheCard ==
    ~resized /\ width > 0 => column[1] + column[2] = width /\ column[1] >= 0 /\ column[2] >= 0

\* ui.c:184: setting the columns raises the event that sets the columns; it stops
\* by itself when the layout does.
TablesComeToRest == <>[][~\E w \in Widths : Resize(w)]_vars => <>[]~resized

\* agh.c:195-208, 351-369, ui.c:447-452: whenever statistics are shown, the badge
\* gives the state of the protection and the footer the version that a status reply
\* stated last, however many rounds ago that was and however many replies failed,
\* were no JSON or left the field out since.  An empty version is one that was
\* stated.  (What the badge gives before any reply stated a state is another matter:
\* RedBadgeWasTold of DashboardProps.)
StatusAsLastTold ==
    [][/\ page'.footer_version = IF told'["version"] \in {Missing, NoText}
                                 THEN "version unknown" ELSE told'["version"]
       /\ told'["protection"] # Missing =>
             page'.badge = IF told'["protection"]
                           THEN [text |-> "Protection: enabled", colour |-> "green"]
                           ELSE [text |-> "Protection: disabled", colour |-> "red"]]_<<page, good>>

=============================================================================
