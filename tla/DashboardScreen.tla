-------------------------- MODULE DashboardScreen --------------------------
(***************************************************************************)
(* The widgets of adguard-dashboard/src/ui.c: how agh_ui_create builds them, *)
(* what agh_ui_update puts into them from a snapshot, how the columns of a  *)
(* table follow its width, and what agh_ui_self_check reads back.          *)
(*                                                                         *)
(* Colours and texts are names.  LVGL is external: it lays the page out     *)
(* (Resize), sends a table the events of its size (TableFit) and draws      *)
(* frames (Paint) in between.  The header text and its colour are those of  *)
(* module Dashboard.                                                       *)
(***************************************************************************)
EXTENDS Figures, FiniteSetsExt

CONSTANTS
    StatsDocs,      \* the documents /control/stats may bring
    StatusDocs,     \* those of /control/status
    TopRows,        \* AGH_UI_TOP_ROWS
    Widths,         \* content widths a table may be given, in pixels
    BufferWidth, BufferHeight,  \* the draw buffer
    SelfChecks      \* --self-check

ASSUME ScreenAssumption ==
    /\ StatsDocs \subseteq Statistics /\ StatusDocs \subseteq Status
    /\ \E n \in 1..7 : CountMod <= 1000^n
    /\ TopRows \in Nat \ {0} /\ Widths \subseteq Nat
    /\ BufferWidth \in Nat /\ BufferHeight \in Nat \ {0, 1}
    /\ SelfChecks \in BOOLEAN

GenRows == 7
Colours == [dns_queries |-> "blue", blocked_filtering |-> "orange",
            blocked_safebrowsing |-> "purple", blocked_parental |-> "green"]

----------------------------------------------------------------------------
(***************************************************************************)
(* Small helpers.                                                          *)
(***************************************************************************)

\* group_u64: the digits in groups of three, the most significant group first.
GroupU64(v) ==
    LET groups == CHOOSE n \in 1..7 : v < 1000^n /\ \A m \in 1..(n - 1) : ~(v < 1000^m)
    IN  [i \in 1..groups |-> (v \div 1000^(groups - i)) % 1000]

\* permille: tenths of a percent, with the product of a uint64_t.
Permille(part, total) == IF total = 0 THEN 0 ELSE ((part * 1000) % CountMod) \div total

MakeLabel(text, colour) == [text |-> text, colour |-> colour]

\* What a card looks like behind what is drawn on it.
StyleCard == [background |-> "card", scrollable |-> FALSE]

\* A row of cards: a share of the page's height, or (0) what the others leave.
MakeRow(height_pct, cards) ==
    [height |-> IF height_pct > 0 THEN height_pct ELSE 0, cards |-> cards]

\* make_chart_card: 24 points in an axis of 0..10, no bar yet, the hint hidden.
MakeChartCard(title) ==
    [title |-> MakeLabel(title, "muted"), value |-> GroupU64(0), points |-> MaxBuckets,
     bars |-> [b \in Buckets |-> 0], axis |-> 10, hint |-> FALSE]

Blank == [label |-> NoText, value |-> <<>>]

\* make_table_card: the data rows under the column headings are empty.
MakeTableCard(title, rows) ==
    [title |-> MakeLabel(title, "muted"), row |-> [r \in 1..rows |-> Blank]]

\* Faulty variant: a narrow card is not split.
FittedUnsplit(w) ==
    LET quarter == (w * 26) \div 100
        value == IF quarter < 110 THEN 110 ELSE IF quarter > 260 THEN 260 ELSE quarter
    IN  <<w - value, value>>

\* table_fit: the numbers get 26 % of the width within 110..260 pixels, the labels
\* the rest; a very narrow card is split evenly.
Fitted(w) ==
    LET quarter == (w * 26) \div 100
        value == IF quarter < 110 THEN 110 ELSE IF quarter > 260 THEN 260 ELSE quarter
    IN  IF w - value < 100 THEN <<w \div 2, w - (w \div 2)>> ELSE <<w - value, value>>

----------------------------------------------------------------------------
(***************************************************************************)
(* The page.                                                               *)
(***************************************************************************)

\* agh_ui_create, without the table columns and the header line.
Created ==
    [badge |-> MakeLabel("Protection: unknown", "muted"),
     row1 |-> MakeRow(32, [c \in Charts |-> MakeChartCard(c)]),
     row2 |-> MakeRow(30, [general |-> MakeTableCard("General statistics", GenRows),
                           clients |-> MakeTableCard("Top clients", TopRows)]),
     row3 |-> MakeRow(-1, [queried |-> MakeTableCard("Top queried domains", TopRows),
                           blocked |-> MakeTableCard("Top blocked domains", TopRows)]),
     footer_version |-> NoText]

\* The conversion of a bucket to int32_t.
Signed(v) == LET r == v % WordMod IN IF 2 * r >= WordMod THEN r - WordMod ELSE r

\* Faulty variant: the last bucket is not looked at.
LargestButLast(bars) == Max({bars[b] : b \in Buckets \ {MaxBuckets - 1}} \cup {1})

Largest(bars) == Max({bars[b] : b \in Buckets} \cup {1})

Points(s) == IF s.buckets = 0 THEN 1 ELSE s.buckets

\* The sum of the first n bars, for every n.
TotalUpTo(bars) ==
    LET sum[n \in 0..MaxBuckets] == IF n = 0 THEN 0 ELSE sum[n - 1] + bars[n - 1]
    IN  sum

Total(bars) == TotalUpTo(bars)[MaxBuckets]

\* One chart of agh_ui_update.  The sum of at most 24 int32_t cannot wrap.
ChartCard(card, c, s) ==
    LET bars == [b \in Buckets |-> IF b < s.buckets THEN Signed(s.series[c][b]) ELSE 0]
        max == Largest(bars)
    IN  [card EXCEPT !.bars = bars,
                     !.points = Points(s),
                     !.hint = Total(bars) = 0,
                     !.axis = Signed(max + (max \div 8) + 1),
                     !.value = GroupU64(s.counters[c])]

Cell(label, value) == [label |-> label, value |-> value]

\* fill_general: seven rows, so that the loop that clears the rest does nothing.
FillGeneral(card, s) ==
    LET k == s.counters
        Rated(v) == GroupU64(v) \o <<Permille(v, k["dns_queries"])>>
        total == (k["blocked_filtering"] + k["blocked_safebrowsing"]
                  + k["blocked_safesearch"] + k["blocked_parental"]) % CountMod
    IN  [card EXCEPT !.row =
            <<Cell("DNS queries", GroupU64(k["dns_queries"])),
              Cell("Blocked by filters", Rated(k["blocked_filtering"])),
              Cell("Blocked malware / phishing", GroupU64(k["blocked_safebrowsing"])),
              Cell("Blocked adult websites", GroupU64(k["blocked_parental"])),
              Cell("Blocked safe search", GroupU64(k["blocked_safesearch"])),
              Cell("Blocked total", Rated(total)),
              Cell("Average processing time", <<s.avg \div 10, s.avg % 10>>)>>]

\* Faulty variant: rows without an entry are left as they are.
FillTopUnblanked(card, entries, count) ==
    [card EXCEPT !.row = [r \in 1..TopRows |->
        IF r <= count THEN Cell(entries[r - 1].key, GroupU64(entries[r - 1].value)) ELSE card.row[r]]]

\* fill_top
FillTop(card, entries, count) ==
    [card EXCEPT !.row = [r \in 1..TopRows |->
        IF r <= count THEN Cell(entries[r - 1].key, GroupU64(entries[r - 1].value)) ELSE Blank]]

\* agh_ui_update
AghUiUpdate(d, s) ==
    LET Top(card, l) == FillTop(card, s.tops[l], s.n[l])
    IN  [d EXCEPT
            !.badge = IF s.protection THEN MakeLabel("Protection: enabled", "green")
                                      ELSE MakeLabel("Protection: disabled", "red"),
            !.row1.cards = [c \in Charts |-> ChartCard(d.row1.cards[c], c, s)],
            !.footer_version = IF s.version = NoText THEN "version unknown" ELSE s.version,
            !.row2.cards = [general |-> FillGeneral(d.row2.cards.general, s),
                            clients |-> Top(d.row2.cards.clients, "clients")],
            !.row3.cards = [queried |-> Top(d.row3.cards.queried, "queried"),
                            blocked |-> Top(d.row3.cards.blocked, "blocked")]]

----------------------------------------------------------------------------
(***************************************************************************)
(* Reading the page back.  A frame is the charts as LVGL drew them.         *)
(***************************************************************************)

\* Where the charts are on the page: side by side, one pixel per bucket.
Area(c) ==
    LET place == [dns_queries |-> 0, blocked_filtering |-> 1, blocked_safebrowsing |-> 2,
                  blocked_parental |-> 3]
        left == place[c] * MaxBuckets
    IN  [x1 |-> left, y1 |-> 0, x2 |-> left + MaxBuckets - 1, y2 |-> BufferHeight - 1]

\* LVGL draws bucket b as a bar of its share of the axis, one pixel wide, and the
\* hint over the middle of the chart.
Drawn(frame, c, x, y) ==
    LET a == Area(c)
        h == a.y2 - a.y1 + 1
        bar == frame[c].bars[x - a.x1]
    IN  IF frame[c].axis > 0 /\ bar > 0 /\ (bar * h) \div frame[c].axis > a.y2 - y THEN Colours[c]
        ELSE IF frame[c].hint /\ x = (a.x1 + a.x2) \div 2 THEN "muted"
        ELSE StyleCard.background

\* The loops of count_color: the area, as far as it lies in the buffer.
Clipped(a) ==
    [x : (IF a.x1 < 0 THEN 0 ELSE a.x1)..(IF a.x2 >= BufferWidth THEN BufferWidth - 1 ELSE a.x2),
     y : (IF a.y1 < 0 THEN 0 ELSE a.y1)..(IF a.y2 >= BufferHeight THEN BufferHeight - 1 ELSE a.y2)]

CountColor(frame, c, colour) ==
    Cardinality({p \in Clipped(Area(c)) : Drawn(frame, c, p.x, p.y) = colour})

\* agh_ui_self_check: the widgets as they are, the pixels as they were drawn.  The
\* sizes of the other widgets and the pixels of their texts are left out.
AghUiSelfCheck(d, frame, column, width) ==
    [charts |-> [c \in Charts |-> [points |-> d.row1.cards[c].points,
                                  bars |-> CountColor(frame, c, Colours[c]),
                                  hint |-> CountColor(frame, c, "muted")]],
     general |-> [columns |-> column, sum |-> column[1] + column[2], width |-> width],
     title |-> d.row2.cards.general.title.text,
     badge |-> d.badge, version |-> d.footer_version]

----------------------------------------------------------------------------

VARIABLES
    snapshot,   \* agh_snapshot_t
    page,       \* the widgets
    frame,      \* the charts as they were last drawn
    applied,    \* successful rounds, as far as main.c looks at them
    report,     \* what --self-check printed; <<>> before it does
    good,       \* the last document that was shown (no code reads it)
    told,       \* what the status replies said last, field by field (nor this)
    width,      \* the content width of a table (they are laid out alike)
    column,     \* its two column widths
    resized     \* a LV_EVENT_SIZE_CHANGED is on its way to it

figureVars == <<snapshot, page, frame, applied, report, good, told>>
tableVars == <<width, column, resized>>
vars == <<figureVars, tableVars>>

Init ==
    /\ snapshot = Zero
    /\ page = Created
    /\ frame = Created.row1.cards
    /\ applied = 0 /\ report = <<>> /\ good = Failed
    /\ told = [field \in {"protection", "version"} |-> Missing]
    /\ width = 0 /\ column = <<200, 120>> /\ resized = FALSE

RefrPeriod == 16        \* LV_DEF_REFR_PERIOD, in ms
PollPeriod == 1000      \* POLL_PERIOD_MS

\* LVGL draws what has changed between two runs of a timer that is slower.
DrawnBetweenPolls == RefrPeriod < PollPeriod => frame = page.row1.cards

\* poll_cb, when a round has ended.
PollCb(stats, status) ==
    /\ report = <<>>
    /\ DrawnBetweenPolls
    /\ snapshot' = Taken(stats, status, snapshot)
    /\ IF IsJson(stats)
       THEN /\ page' = AghUiUpdate(page, snapshot')
            /\ applied' = Smaller(applied + 1, 2)
            /\ good' = stats
       ELSE UNCHANGED <<page, applied, good>>
    /\ told' = [field \in DOMAIN told |->
                   IF IsJson(status) /\ status[field] # Missing THEN status[field] ELSE told[field]]
    /\ UNCHANGED <<frame, report, tableVars>>

Paint ==
    /\ report = <<>>
    /\ frame' = page.row1.cards
    /\ UNCHANGED <<snapshot, page, applied, report, good, told, tableVars>>

\* Faulty variant: the first refresh is enough.
SelfCheckDueEarly == SelfChecks /\ applied >= 1

SelfCheckDue == SelfChecks /\ applied >= 2

\* status_cb under --self-check; the program leaves.
SelfCheck ==
    /\ report = <<>> /\ SelfCheckDue
    /\ report' = AghUiSelfCheck(page, frame, column, width)
    /\ UNCHANGED <<snapshot, page, frame, applied, good, told, tableVars>>

\* LVGL lays the page out anew.
Resize(w) ==
    /\ w # width
    /\ width' = w /\ resized' = TRUE
    /\ UNCHANGED <<figureVars, column>>

\* Faulty variant: the columns are set even when they are right.
TableFitAlways ==
    /\ resized
    /\ IF width <= 0 THEN resized' = FALSE /\ column' = column
                     ELSE resized' = TRUE /\ column' = Fitted(width)
    /\ UNCHANGED <<figureVars, width>>

\* table_fit_cb.  Setting a column width may change the table's size again.
TableFit ==
    /\ resized
    /\ IF width <= 0 \/ column = Fitted(width)
       THEN resized' = FALSE /\ column' = column
       ELSE resized' = TRUE /\ column' = Fitted(width)
    /\ UNCHANGED <<figureVars, width>>

Next ==
    \/ \E stats \in StatsDocs \cup {Garbage, Failed}, status \in StatusDocs \cup {Garbage, Failed} :
           PollCb(stats, status)
    \/ Paint
    \/ SelfCheck
    \/ \E w \in Widths : Resize(w)
    \/ TableFit

Spec == Init /\ [][Next]_vars

\* LVGL delivers its events.
FairSpec == Spec /\ WF_vars(TableFit)

=============================================================================
