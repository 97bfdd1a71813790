# A verification development for sgc-demos

The repository holds two AdGuard Home dashboards that render on a display leased
from the `@sgc` daemon, a test screen for an IR remote, tools that drive the
revoke/re-grant cycle of the daemon, and the scripts that put all of it on a
board. These modules model the logic of the two dashboards - how they come up, what
they show, when they ask for it, and what they do when the server, the network, the
clock or the memory lets them down - and of the remote test screen with the injector
that feeds it. TLC checks small instances; TLAPS proves every safety property they check for
all of them.

## 1. The system

| component | state | operations | works with |
|---|---|---|---|
| **client** `adguard-dashboard/src/agh.c` | `in_flight`; per request a buffer, `done`, `http_code`, `curl_code`, and libcurl's transfer | `agh_client_create`, `_refresh`, `_pump`, `_destroy` | called from the main loop; calls libcurl (`multi`), which calls `write_cb`; fills the caller's snapshot |
| **main loop** `adguard-dashboard/src/main.c` | `snapshot`, `last_ok_tick`, `last_attempt_tick`, `failures`, `unauthorized`, `applied`, `quit_flag` | `poll_cb`, `status_cb` (LVGL timers), `on_signal`, `main` | pumps the client, writes to the screen |
| **screen** `adguard-dashboard/src/ui.c` | widgets: header line, badge, charts, tables and their columns | `agh_ui_create`, `_update`, `_status`, `_fatal`, `_self_check`, `table_fit_cb` | called from the main loop and from LVGL's events |
| **start and end** `adguard-dashboard/src/{main,config}.c` | `cfg`, what has been acquired | argument loop, `agh_config_load`, create and destroy of display, UI and client | the daemon, libcurl, the environment |
| **Slint configuration** `adguard-dashboard-slint/src/config.rs` | none | `Config::load` | the same file |
| **Slint worker** `adguard-dashboard-slint/src/{main,agh}.rs` | where `fetch_loop` is, the statistics fetched so far | `fetch` (two `get`s), `send`, `sleep` | sends outcomes over an unbounded channel |
| **Slint UI thread** `adguard-dashboard-slint/src/{main,view}.rs` | `latest`, window properties | timer callback: `drain`, `fill`, `set_error`, `set_age` | drains the channel every 200 ms |
| **Slint self-check** `.../selfcheck.rs` | none | row and column scans over rendered pixels | offscreen |
| **IR test screen** `ir-remote-test/src` | key log of ten rows, counters | `on_seat_key` (callback), `on_raw_key` (drained from a reader thread) | seat events, `/dev/input` |
| **input harness** `input-harness` | pressed keys of a virtual device | injector commands; `sgc-steal`; a ten-step script | `/dev/uinput`, through it the IR test screen; the `@sgc` daemon |
| **libsgc wrapper** `.../libsgc/include/sgc.hpp` | owned descriptors | moves, `fd`, `pump`, `release` | a prebuilt library |
| **launchers** `*/scripts/start-*.sh`, `scripts/measure-mem.sh` | processes | stop, start, check | one DRM lease for two dashboards |

How they interact. Both dashboards ask AdGuard Home for `/control/stats` and
`/control/status` and show one screen. The C program is single-threaded: libcurl
transfers move only when `poll_cb` calls `agh_client_pump`, once a second, and a
slow frame delays both timers. The Slint program has two threads and one channel, and
so has the IR test screen, whose log has a second writer: the seat's callback.
`PROJECT.json` lists, under `hazards`, every place where this is hard to test.

What makes each part correct:

- the client runs one round at a time, reports each round once, and never lets a
  document of another round or request into the snapshot; a round always ends;
- the main loop keeps the last good numbers on the screen, and its header is true
  of what really happened and not late; after any trouble the screen comes to show
  what the server has; a signal ends the program;
- the screen is a function of the last document alone - the newest buckets, the first
  rows, nothing of an older document - and its columns settle;
- what the configuration loader accepts is in range and means the same to both
  dashboards; every way out gives back what was taken, also after an early signal;
- the Slint program shows the newest outcome, never calls old data fresh, keeps its
  channel short, and recovers in the same way;
- the test screen logs every key of both sources once and in order, and its footer is
  true; the injector leaves no key down that no command asked for.

## 2. Modules

```
RefreshRound            what agh.h promises of a refresh
   ^ implemented by
AghClient  <- AghClientProps <- MCAghClient
   ^              ^    \------- AghClientProofs      (theorems)
   |              |
Dashboard  <- DashboardProps <- MCDashboard          (main.c composed with agh.c)
                          ^---- DashboardProofs      (theorems; also extends AghClientProofs)

SlintDashboard <- SlintDashboardProps <- MCSlintDashboard
                          ^---- SlintDashboardProofs

Startup    <- StartupProps <- MCStartup              (main.c, config.c, config.rs)
                   ^---- StartupProofs

Subsequences            a loop that keeps some entries of an array
   ^       ^----------- SubsequenceProofs            (induction over an array; extended by
   |                                                  the proofs of both users below)
   |
Figures                 agh.h's snapshot and the parsers that fill it; uses Subsequences
   ^
DashboardScreen <- DashboardScreenProps <- MCDashboardScreen
                          ^---- DashboardScreenProofs

InputInject             uinput-inject and the kernel's queues; uses Subsequences
   ^
RemoteTest <- RemoteTestProps <- MCRemoteTest        (ir-remote-test composed with it)
                   ^---- RemoteTestProofs            (what is down, what the footer says)
                   ^---- RemoteLogProofs             (what is logged)
```

**AghClient.** The client is a record with `in_flight`, the transfers' time and the
two `request_t`s, and each C function is an operator from a client to the set of
clients it may leave: `Refreshed`, `Pumped`, `Destroyed`. `Dashboard` composes them
inside one callback - `poll_cb` pumps *and* refreshes in one step, as the code does -
and `ClientNext` gives them to an arbitrary caller. A transfer's `phase` is libcurl's
half of the state: `out` of the multi handle, `added`, connecting (`open`), request
`sent`, reply `answered` but still in the socket, `finished`. The distinction between
`answered` and `finished` is what makes a late pump visible: libcurl looks at the
clock before it looks at the socket, so a reply that arrived in time is lost if the
next pump comes after the deadline (`TimedOut` before `Completions` in `PerformOne`).
A document is one of `Data` (well-formed content), `Bare` (JSON without the fields),
`Garbage` (not JSON), and comes in `Parts` chunks: `write_cb` appends each as it
arrives, so one pump may take any part of a body and leave the transfer `answered` with
half a document in its buffer (`read` counts the chunks), and a timeout or a broken
connection may end it there. A buffer is a sequence of chunks, so that one that is not
reset shows up as the chunks of two documents, of which cJSON reads the first value.
`AllocMayFail` lets `curl_multi_add_handle`, `realloc` and `agh_client_create` fail.

**RefreshRound.** The abstract specification: `Begin`, `Give`, `Wait`, `End`, with no
libcurl, buffers, chunks, codes or timeouts. Either request may be `lost`; which were, and
what the replies are, then determines the result and the snapshot completely, so that a
status request that fails cannot turn a good round into a failed one (a mutant of
`FetchResult` does, and is found). `AghClientProps!Round` maps `running` to `in_flight`,
`given` to the replies the transfers of this round were sent, and `lost` to those that
ended with an error.

**Dashboard.** `Tick` is one period of the two timers and makes both due; `Wake`,
`PollCb`, `StatusCb` and `PassEnds` are one pass of `lv_timer_handler` in any order
of the timers, and time may pass inside a pass: `late` counts the ticks for which
something has been due, up to `MaxStall` (a slow frame). `now` is the `uint32_t`
counter of `tick_cb`; it wraps at `TickMod` and starts anywhere. `history` is not in
the code: it records how rounds really ended, for the properties to compare with.

**SlintDashboard.** `StatsReturns`, `StatusReturns`, `Send`, `SleepEnds` are the worker;
`UiTick` is the whole timer callback (drain, fill or error, then the age); `Close` is
the end of the event loop, after which `send` fails and the worker returns. An
`Instant` is kept as an age. `sent` is not in the code.

**Startup.** The argument loop is one action per kind of argument; `LoadConfig` is the
whole of `agh_config_load` as a function of file and environment (`Filled`, `Valid`), a
string being its length and a URL also its scheme and trailing slashes, which is all
that either loader looks at. `Cast` is the cut of a 64-bit integer to an `int`
(`config.c:60`). Then one action per acquisition, with its failure; `curl` and `bodies`
are what libcurl and the heap have given and not got back. `ClientFails(lack)` is an
`agh_client_create` that gets everything but `lack`: `agh_client_destroy` is then called
on a client that is half there. `SlintLoads` and `SlintConfig` are `config.rs`.

**Figures** are pure operators: `ParseStats` and `ParseStatus` of field values, where
`AghClient` has only the document as a whole. Arrays are functions from 0 and keep what
was beyond their valid part, as the C arrays do. **DashboardScreen** is the page of
`ui.c` as a record of widgets: `Created` builds it, `AghUiUpdate` fills it, `PollCb` does
both steps of a round's end, `TableFit` is the size event of a table, `SelfCheck` reads
pixels (`frame`, of the last `Paint`) beside widgets (`page`). `good` and `told` are
not in the code: the last document, and field by field what the status replies stated last,
which the properties compare the page with. The header line stays with `Dashboard`, which
knows when it is written.

**InputInject** is `uinput-inject`: one command is one action, but for `touch`, whose two
batches are two (`TouchBegins`, then `TouchEnds` or `TouchTears`). `Emit` is the kernel:
an event passes if the device declares the key and the event changes it. **RemoteTest**
EXTENDS it with the test screen: `StartOff`, `StartRaw`, `StartFails`; the reader thread
(`ReadEvent`, `ReadFails`); the timer (`TimerCb`, which drains the channel) and the seat's
callback (`SeatKey`), both pushing to one log; `SeatDrops` is a revoke. `told` and `since`
are not in the code: what the log was called with, and what the node has given.

**Subsequences** is the one loop that several programs share: once over an array, keeping
some of its entries (the pairs of a JSON list, `agh.c:129-148`; the key events of what a
node gives, `raw.rs:99-117`; what evdev lets through). `Selected(s, at)` is `SelectSeq`
with the indices in place of the test, as a recursive function over `0..Len(s)`, so that
theorems can speak of it; `SelectedIsSelectSeq` of `MCRemoteTest` compares the two on every
array of up to six entries.

In all of them an operator commented *Faulty variant* is a plausible bug of the
operator after it; no specification uses it. The mutants of `PROJECT.json` put each in
the place of the operator it varies, and the property named there then fails.

## 3. What the runs check

| run | instance | shows |
|---|---|---|
| `client` | every mood of the server, bodies of two chunks, timeout 2, connect timeout 1 | the type invariant; `RoundConsistent`; the client implements `RefreshRound`; every round ends (`RoundEnds`) |
| `client_wedge` (violation) | the same with `AllocMayFail`, timeout 3, connect timeout 2 | `agh_client_refresh` ignores a failed add: the round never ends, and no later refresh starts |
| `frames` | slow frames, server up or refusing, memory failures, counter modulo 4 | the header is never muted over more than one bad round (two while `status_cb` is due); attempts are on time across the wrap; what is shown is what was held and what the server sent; the header is true; the age is exact within one wrap |
| `recover` | up or silent, signals, with and without `--self-check` | `Converges`, `OutageShown`, `SignalEnds`, `SelfCheckLeaves` |
| `tight_timeout` (violation) | timeout of one pump period | a server that answers at once is never seen |
| `badge` (violation) | statistics good, status missing | the badge turns red without having been told |
| `slint` | five moods, two contents, stall 1, refresh 2 | `NewestShown`, `FreshHeader`, `BacklogBounded`; `Converges` (with the header on updated *for good*), `OutageShown` |
| `slint_refusal` (violation) | five moods | a refusal is written to the header and overwritten in the same callback |
| `slint_status` (violation) | five moods | a 401 for the status discards good statistics |
| `startup` | eight argument vectors, a good file with every pair of keys changed (integers that wrap to a good one among the values), five environments | `ConfigInRange`, `OneFileServesBoth`, `ExitClean`, `EarlySignalEnds` |
| `ui` | four statistics and three status documents (one with an empty version), besides replies that fail or are no JSON; four widths | `BarsAreTheNewest`, `TablesShowTheLists`, `ChartsReadable`, `SelfCheckSeesCharts`, `ColumnsSpanTheCard`, `TablesComeToRest`, `StatusAsLastTold` |
| `remote` | keyboard, mouse and touch devices, two commands, three rows, a device that may go | `LogTellsAll`, `RawInOrder`, `OnlyAskedKeysDown`, `FooterTrue`, `AllShown` |

Two more departures, too rare to keep a run for: the age starts again from 0 after
49.7 days without a good round (`AgeExactWithinAWrap` states the part that holds), and
a round that ends well in the millisecond in which the counter is 0 is taken for no
round at all (`main.c:140`). And when the Slint event loop is late, a failure drained
together with the snapshot sent before it displaces that snapshot (`main.rs:120`):
`NewestShown` speaks only of a snapshot that was sent last.

Seen while modelling, and not worth a run:

- The two loaders disagree on an environment variable that is set and empty (C ignores
  it, `config.rs:56` takes it), on a password of more than 127 characters in it (C cuts
  it, `config.c:118`), on the default user name (C has none) and on integers beyond an
  `int`: `OneFileServesBoth` names the first, second and last and speaks of files C accepts.
- An integer is cut to an `int` before its range is checked (`config.c:60`): 4294967301 and
  -4294967291 both pass as a `refresh_secs` of 5, where the message of `config.c:144` says
  1..3600. Slint takes the first for what it is and refuses the second. So
  `OneFileServesBoth` promises of the integers of a file only that C's are the cut of
  Slint's, and excludes negative ones.
- The C loader takes an https `base_url`, and libcurl speaks it; the Slint build has no TLS
  (its `README.md:112`, `Cargo.toml:46-48`). `OneFileServesBoth` speaks of http.
- A status reply with an empty `version` takes the known one off the page: `j_str`
  (`agh.c:95-98`) copies it, and `ui.c:451` then shows "version unknown".
- When `calloc` fails, or there is no multi handle, `agh_client_create` leaves
  `curl_global_init` unpaired (`agh.c:244`, and `agh.c:265-285` without a multi handle);
  the program exits next. `ExitClean` names both. The `agh_dashboard_t` of `ui.c:243` is
  freed nowhere; it lives as long as the program, and `ExitClean` does not speak of it.
- `raw.rs:64` takes any existing path for a device: of a plain file the reader thread reads
  to the end and stops, and the footer goes on naming the raw layer. `raw.rs:107` passes
  over a SYN_DROPPED, so that keys evdev dropped are missing from the log without a word.
- `agh_ui_create` may return NULL, and only `--self-check` does not look (`main.c:209`).
- The fatal line (`main.c:214`) is written to a page that no frame shows any more.
- `ui.c:11-12` says every container is non-scrollable; the badge's box keeps LVGL's default.
- Of ten top entries kept (`agh.h:22-23`) nine are shown; `series_len` and the time units
  are kept and never shown.
- `start-dashboard.sh` stops only its own program, `start-dashboard-slint.sh` both.

### Bounds, and why they are enough

- *Contents*: `client` has one with the protection on and `Bare`, JSON that says nothing of
  it: two documents tell a stale one from a fresh one, and a snapshot that was written from
  one that was left alone. `frames` and `recover` take one and a prompt server: the
  properties there compare the document with nothing. `slint` takes two, one with the
  protection off.
- *Parts*: two chunks make a body that is not there, half there, or there: a boundary
  within a document. `frames`, `recover` and `tight_timeout` take 1, because under
  `ServerPrompt` a reply is in the socket as a whole before time goes on, and one pump
  takes all that is in the socket. The theorems hold for any number.
- *Timeouts*: 2 ticks in `client`, one more than its connect timeout, so that each acts
  alone; its caller pumps any number of times in a tick. In the runs of `Dashboard`, which
  pumps once a tick, 2 or 3 are at least the pumps a prompt reply needs (send, then read; one
  more if the connection is not instant). `tight_timeout` takes 1 on purpose.
- *TickMod*: 4, with a refresh period of 1. The assumption
  `RefreshTicks + MaxStall + 1 < TickMod` is the code's own: `refresh_secs` is at most
  3600 and the counter wraps after 4294967 s. A small modulus makes wraps frequent; it
  must not divide the length of a round, or a good round would end at tick 0 each
  time, which the real counter cannot do.
- *FailuresCap* 3, *AppliedCap* 2: the code compares `failures` with 0 and `applied` with
  2; `HeaderLag` needs to count to 3.
- *MaxStall*: a frame that holds the timers back for one tick already separates them;
  in `slint` one tick of lateness and a refresh period of two let a second outcome queue.
- *Ages* saturate at `StaleTicks + MaxStall + 2`, past every comparison made with them.
- *IntMod* (`startup`): an int of 17 bits holds every value the ranges accept, so that
  integers just beyond it and integers that wrap into the range are small numbers. The
  strings take the lengths on both sides of each buffer's end; keys are changed in pairs
  because no condition of either loader relates three.
- *Figures* (`ui`): three buckets and three top entries of which two are shown, against
  series of up to five and lists of up to four: longer than kept, longer than shown, equal,
  shorter, empty, missing and with holes. A bucket counts modulo 256, which puts sign and
  overflow of `ui.c:429` within reach. The widths lie on both sides of each of
  `table_fit`'s limits; one table stands for all, since no two share anything. One pixel
  per bucket and two rows of pixels, in a buffer that cuts the last chart.
- *MaxCommands* 2, *VisibleRows* 3 (`remote`): two chords of two keys are eight key events,
  more than two logs full. A run of events that are no keys is one `Other`; keys are opaque.

What is assumed of the constants beside the bounds: a count is below `1000^7` (a `uint64_t`
has at most 20 digits, so that `group_u64` writes at most seven groups, of which the model
takes the fewest that hold the number) and the draw buffer has more than one row (with one,
even the largest bar of a chart may round to no pixel at all).

What is assumed of the surroundings: LVGL draws at least once between two polls
(`lv_conf.h:153`, 16 ms, against `main.c:26`, 1000 ms), and its active buffer holds the
last frame; AdGuard Home's counts are not negative and its buckets fit a `uint32_t`; a
signed conversion wraps; evdev drops what a device does not declare or what does not
change a key, and answers ENODEV once the device is gone. A reader that falls behind evdev's
per-client buffer is not modelled: the queue of a node is taken for as long as it need be,
and so `RawInOrder` speaks of a reader that keeps up. What `--raw` names is an evdev node.
Of texts nothing is assumed but that they differ from the marks for a value that is not
there (`TextAssumption`): a version, a domain or a client may be empty.

Deadlock is checked in every run but `startup` and `remote`, where the program ends: it
leaves `main`, or the window is closed and the injector has quit. In `Dashboard` a program
that has exited stutters (`Exited`).

### Fairness

`FairClientSpec` asks for a caller that keeps pumping and for time. `Dashboard!Fairness`
asks for what the main loop is: a `while(!quit_flag)` that runs what is due and sleeps
a bounded time (`WF` of `PollCb`, `StatusCb`, `PassEnds`, `Wake`, `Start`), for time, and
for a server that answers to do so eventually. Time is strongly fair, because
`ServerPrompt` lets a tick wait for an answer that is owed, and a server that kept
changing between prompt and silent could otherwise stop the clock. Nothing is assumed
of signals, of the moods, or of the order of callbacks. `SlintDashboard!Fairness` asks
both threads to run and time to pass; `Tick` waits for a worker that can run, so the
model has no tick (200 ms) through which a runnable worker gets no processor.
`Startup!FairSpec` asks `main` to run, `DashboardScreen!FairSpec` asks LVGL to deliver
size events, and `RemoteTest!Fairness` asks the 100 ms timer and the reader thread to run;
nothing is assumed of the injector, of the seat or of layout.

## 4. What is proved

`AghClientProofs` proves for **every** set of contents, every timeout, every set of
moods, and with or without memory failures:

- `TypeCorrect`: `ClientSpec => []TypeOK`;
- `RoundsConsistent`: `ClientSpec => []RoundConsistent`;
- `Refinement`: `ClientSpec => RefinesRefreshRound`.

From the named assumptions of `AghClient` (`DocumentAssumption`, `TimeoutAssumption`,
`NothingAssumption`), which TLC evaluates in each run. The argument: the inductive
invariant is `Inv == TypeOK /\ RoundConsistent`. `TypeOK` alone is not inductive, since
`ParseStats` takes the head of a buffer: that this is a JSON document needs to know
that the buffer of a transfer that ended well holds exactly the reply of this round. That
in turn is not inductive without the unfinished ones: `RequestConsistent` says that at any
time a buffer is the first `read` chunks of the reply to this request (`HoldsPrefix`), in
the middle of a body and after an error there as well, and that only a transfer without an
error has all of them; `ReceivedPrefix` is the step from one prefix to a longer one,
`WholeBody` what makes the last one parse. The lemmas follow the code - one for the reset, one for a
transfer that breaks, one for a transfer that completes, one for a whole
`curl_multi_perform`, one for closing the round - and `NextInv` combines one lemma per
action. The refinement uses the same invariant: a `Pump` that closes the round is `End`
because, by `RoundConsistent`, what `FetchResult` judged is the reply that was given, or the
statistics request was lost (`ResultMeaning`, `ProtectionMeaning`); every other step is
`Begin`, `Give`, `Wait` - in which a transfer may be lost - or a stutter.

`DashboardProofs` proves for every period, every stall, every modulus of the counter
and every behaviour of the server and of memory:

- `DashboardTypeCorrect`: `Spec => []DashboardTypeOK`;
- `LastGoodKept`: `Spec => []ScreenKeepsLastGood`;
- `NumbersTrue`: `Spec => NumbersComeFromTheRound`;
- `HeadersTrue`: `Spec => HeaderTrue`;
- `AttemptsOnTime`: `Spec => []AttemptOnTime`;
- `HeaderLagBounded`: `Spec => []HeaderLag`;
- `AgesExact`: `Spec => AgeExactWithinAWrap`.

From the assumptions above and `ClockAssumption`. The inductive invariant is
`MainInv == DashboardTypeOK /\ RoundConsistent /\ ScreenKeepsLastGood /\ Main`, where
`Main` is what the properties leave unsaid:

- `Accounts`: how `failures`, `unauthorized` and `last_ok_tick` stand to the rounds as
  they really ended; without it a header could be right only by luck.
- `Deadline`: before `poll_cb` runs, the last attempt is at most `RefreshTicks + late`
  old; after it, less than `RefreshTicks`. The bound of `AttemptOnTime` alone is not
  inductive: it does not say that a `poll_cb` that has run left nothing due. That a
  tick makes the difference exactly one larger across a wrap is lemma `Clock`, and
  `ClockAssumption` is what excludes that the difference itself wraps.
- `Muted`: by which of the two callbacks has run in this pass, how many bad rounds a
  muted header hides. `HeaderLag` alone is not inductive: a second bad round is only
  excluded because a `status_cb` that is due is visited in the same pass as the
  `poll_cb` that could add it, or before.
- `PassOrder`: timers are visited in a pass only.

`AgesExact` needs one more, `AgeInv`: as long as the numbers are younger than one wrap, the
wrapped difference of the tick they came at and the tick it is now is their age. It is
inductive beside `MainInv` (lemma `Clock` again), and says nothing from the wrap on, where
the difference starts again from 0.

Since `poll_cb` pumps and refreshes in one step, the client's part is restated of a
value (`Steady`) and carried through `Pumped` and `Refreshed` (`PumpSteady`,
`RefreshSteady`), on the lemmas of `AghClientProofs`. TLC agrees that `Main` is an
invariant of the instances of the runs; there is one lemma per action.

`SlintDashboardProofs` proves for every set of contents, timeout, period and stall:
`SlintTypeCorrect`, `NewestAlwaysShown`, `HeaderFresh` and `BacklogIsBounded`. The inductive
invariant `SlintInv` adds three things to the properties: `WorkerHolds` (the worker carries
what its place in the loop needs), `NewestLast` (what `drain` would return is what was
sent last; `NewestShown` speaks of an empty channel only) and `Slept`. `BacklogBounded` is
not inductive: that the channel is short follows from how long the worker has slept since
the callback ran, so `Slept` counts each outcome but the first as a whole sleep and the
last as the part slept so far.

`StartupProofs` proves for every file, environment, argument vector and width of an int:
`StartupTypeCorrect`, `ConfigsInRange`, `OneFileForBoth` and `ExitsClean`. `StartupInv` adds
`Accepted` (the configuration in use is what the file and the environment made of the
defaults, and passed) and `InTurn` (nothing is taken before its turn; the client is whole
while it runs). The lemmas follow `config.c` function by function (`KeyTyped`,
`TrimmedIsUrl`, `PasswordTyped`, `CastTyped`). That a file C accepts is one Slint accepts
(`LoadersAgree`) needs that an integer is not negative, which serde asks of a `u64`, and that
Slint's one correction, of a `refresh_secs` of 0, never meets a value C accepts.

`SubsequenceProofs` proves what the recursive function of `Subsequences` computes. The
library's induction theorems take the property as an operator, which no installed prover
instantiates; `IndexInduction` is induction for a *set* of indices instead, from the
well-foundedness of `<` on the naturals: if the indices without the property were not
empty they would have a least (`LeastMember`). On it rest:

- `SelectedNth`: an entry that is kept lands where the number of kept entries up to it
  says, and there are no others - the counter with which `agh.c:135-147` fills a list;
- `SelectedConcat`: of one array after another is kept what is kept of each;
- and lemmas: what is kept of a prefix is a prefix, of an array with one more in front or
  behind; two arrays that agree on the marked places keep the same.

`DashboardScreenProofs` proves for arrays, documents, numbers and widths of any size every
safety property of the screen:

- `ScreenTypeCorrect`: `Spec => []ScreenTypeOK`;
- `NewestBarsShown`: `Spec => []BarsAreTheNewest`;
- `ListsAreShown`: `Spec => []TablesShowTheLists`;
- `ChartsAreReadable`: `Spec => []ChartsReadable`;
- `SelfCheckAnswers`: `Spec => []SelfCheckSeesCharts`;
- `ColumnsFillTheCard`: `Spec => []ColumnsSpanTheCard`;
- `LastToldIsShown`: `Spec => StatusAsLastTold`.

`ScreenInv` (theorem `ScreenInvariance`) is their common invariant. It adds the shape of page
and snapshot, `ToldHeld` (the snapshot has what the status replies stated last, through
rounds that show nothing - without it a later update could take it away), `TableInv`, and `FiguresHeld`,
which ties page, snapshot and last document together: the snapshot is overwritten in place,
so what the page shows is the document's only as long as all three change together. It
holds the snapshot against the document field by field (`OfDocument`) and the page against
the snapshot (`FiguresShown`), so that neither half need be proved twice. For the lists,
`SelectedNth` says which entry of the document stands in which place, malformed ones left
out. For the charts, `TotalZero` is an induction along the buckets: a sum of numbers none
of which is negative is 0 only if each is. The largest bar exists because the bars are
finitely many, and `AxisFits` says when the axis above it has not wrapped. For the self-check, whose report is of the *frame* while `page` may be newer, `FrameInv`
says that after two updates the frame is of a page that had been filled, because LVGL draws
between two polls; the rest counts pixels: those of a colour are finitely many, and more
than none as soon as one lies inside the buffer.

`RemoteTestProofs` proves for every set of keys, number of commands and number of rows:
`OnlyAskedKeys` and `FootersTrue`. `InjectInv` says of each command what stays down; its
core are the lemmas on batches - the last event of a key in a batch decides, and in a
chord of any length, repeated keys included, that is a release. `FooterInv` adds the time
before the footer is written.

`RemoteLogProofs` proves for the same, and for logs, channels and queues of any length:

- `RemoteTypeCorrect`: `Spec => []RemoteTypeOK`;
- `LogTellsAllCorrect`: `Spec => []LogTellsAll`;
- `RawInOrderCorrect`: `Spec => []RawInOrder`.

`RemoteTypes` is the invariant under the others: the types, and that the seat's queue
holds key events only - the callback is called with nothing else, and without it the log
would be pushed something that is no key. `LogInv` states of each source that the rows with
its name are its last keys, place by place (`NewestFirst`); a push keeps that of both
sources at once, also the one that drops old rows, whose sources may be either. The model
pushes the keys of a drain together and the code one by one; that the rows come out the
same is `TrimOnce`. `RawInv` says that what the
node gave is what was told, what is in the channel and *a rest*; while the window is open
and the device there, the rest is what is still in the kernel's queue. Without the rest
the second half of `RawInOrder` would not be inductive: a device that is unplugged, or a
reader that is gone, leaves keys behind, and nothing may be told that is not among them.

Only model-checked: what is true under fairness alone - `RoundEnds`, `Converges` (of both
dashboards), `OutageShown` (of both), `SignalEnds`, `SelfCheckLeaves`, `EarlySignalEnds`,
`TablesComeToRest` and `AllShown`. Liveness is out of the prover's reach, and so is what
`ENABLED` would say of it.

## 5. What is not modelled, and why

- libcurl, AdGuard Home, ureq, LVGL, Slint, evdev and the `@sgc` daemon are external and
  appear only as the code in `src/` uses them.
- Fonts, gaps, radii and the paint itself: LVGL's and Slint's. Number formatting is modelled
  as far as a figure could be lost in it (digit groups, tenths), not its characters; texts
  are opaque, so the cut of a long domain name is not seen.
- Field values in the Slint dashboard: `SlintDashboard` has the document as a whole. The
  parsers of `agh.rs` do what `Figures` models for C, in a language that checks bounds.
- The Slint self-check (`selfcheck.rs`): an offscreen renderer and heuristics over its
  pixels; what they find depends on fonts and layout, and there is no state.
- Redirects, TLS and authentication headers: they decide which reply comes, and every
  reply is already possible.
- DNS resolution, which ureq's timeout does not bound: `Patience` assumes a `get` returns
  within `timeout_ms`.
- The launchers, `measure-mem.sh`, `sgc-steal` and the ten-step script: process control
  between sleeps, and requests to a daemon whose rules (who gets a lease that is held,
  when it is granted again) are not in the repository. A model of them would be a model
  of that daemon.
- `sgc.hpp`, the vendored headers, the prebuilt library, `lv_conf.h` and the generators that
  write them: nothing in the repository includes the C++ wrapper, and a configuration has
  no behaviour.
- The file's permissions, the log and the exit messages: no property is about them.

## 6. What could follow

The client with its refinement, both dashboards, the start and the end, the screen, the
configuration, the injector and the test screen are modelled and checked; what is left
out is listed above with its reason. The nearest extensions would be a model of the
`@sgc` daemon, if its rules were to become part of the repository - the launchers, the
revoke/re-grant cycle and `sgc-steal` would then compose with it - and, of the liveness
properties, the steps that need no fairness: for each a measure that every helpful step
makes smaller and no other step makes larger.
