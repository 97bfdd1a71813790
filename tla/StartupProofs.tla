---------------------------- MODULE StartupProofs ----------------------------
(***************************************************************************)
(* What Startup.tla promises for every configuration file, every            *)
(* environment and every argument vector, and for an int of any width.      *)
(***************************************************************************)
EXTENDS StartupProps, TLAPS

\* The configuration is what the file and the environment make of the defaults,
\* and it was accepted (main.c:186-190).
Accepted == Started => AghConfigLoads(file, env) /\ cfg = Filled(file, env)

\* Nothing is taken before its turn, and the client is whole while it runs.
InTurn ==
    /\ pc = "args" => ~lvgl
    /\ pc \in {"args", "display"} => ~display
    /\ pc \in {"args", "display", "ui", "client"} => curl = NoCurl /\ bodies = {} /\ missing = {}
    /\ pc \in {"running", "crashed"} => curl = AllCurl /\ missing = {}

StartupInv == StartupTypeOK /\ Accepted /\ InTurn /\ ExitClean

----------------------------------------------------------------------------
(***************************************************************************)
(* config.c.                                                               *)
(***************************************************************************)

\* A key that is read without an error is absent or has its type.
LEMMA KeyTyped ==
    ASSUME NEW S, NEW v \in Key(S), v # Mistyped, NEW dst \in S
    PROVE  Read(v, dst) \in S
BY DEF Key, Read

\* Taking the trailing slashes away makes a URL no longer (config.c:123-126).
LEMMA TrimmedIsUrl ==
    ASSUME NEW u \in Url
    PROVE  /\ Trimmed(u) \in Url
           /\ UrlLen(Trimmed(u)) <= UrlLen(u)
           /\ Trimmed(u).slashes = 0
           /\ Trimmed(u).scheme # "none" => Trimmed(u).rest > 0
<1>1. CASE u.rest = 0 /\ u.scheme = "http"
  <2>1. Trimmed(u) = [scheme |-> "none", rest |-> 5, slashes |-> 0]
    BY <1>1 DEF Trimmed, SchemeLen
  <2> QED BY <1>1, <2>1 DEF Url, UrlLen, SchemeLen
<1>2. CASE u.rest = 0 /\ u.scheme = "https"
  <2>1. Trimmed(u) = [scheme |-> "none", rest |-> 6, slashes |-> 0]
    BY <1>2 DEF Trimmed, SchemeLen
  <2> QED BY <1>2, <2>1 DEF Url, UrlLen, SchemeLen
<1>3. CASE ~(u.rest = 0 /\ u.scheme # "none")
  <2>1. Trimmed(u) = [u EXCEPT !.slashes = 0]
    BY <1>3 DEF Trimmed
  <2>2. /\ Trimmed(u).scheme = u.scheme /\ Trimmed(u).rest = u.rest
        /\ Trimmed(u).slashes = 0
    BY <2>1 DEF Url
  <2>3. Trimmed(u) \in Url
    BY <2>1 DEF Url
  <2>4. SchemeLen[u.scheme] \in Nat
    BY DEF Url, SchemeLen
  <2> QED BY <1>3, <2>2, <2>3, <2>4 DEF Url, UrlLen
<1> QED BY <1>1, <1>2, <1>3 DEF Url

\* A password always fits its field, cut or not (config.c:115-120).
LEMMA PasswordTyped ==
    ASSUME NEW f \in File, NEW e \in Nat \cup {Unset}, Readable(f)
    PROVE  PasswordOf(f, e) \in Password
<1>1. f.password \in Key(Nat)
  BY DEF File
<1>2. f.password = Absent \/ (f.password \in Nat /\ f.password < PasswordCap)
  BY <1>1 DEF Readable, CfgString, Key
<1>3. Read(f.password, 0) \in 0..(PasswordCap - 1)
  BY <1>2 DEF Read, PasswordCap
<1>4. (e # Unset /\ e # 0) => (IF e < PasswordCap THEN e ELSE PasswordCap - 1) \in 0..(PasswordCap - 1)
  BY DEF PasswordCap
<1>5. CASE e # Unset /\ e # 0
  BY <1>4, <1>5, Zenon DEF PasswordOf, Password
<1>6. CASE ~(e # Unset /\ e # 0)
  BY <1>3, <1>6, Zenon DEF PasswordOf, Password
<1> QED BY <1>5, <1>6

\* The cast of a 64-bit integer is an integer of the int's width (config.c:60).
LEMMA CastTyped ==
    ASSUME NEW i \in Int
    PROVE  Cast(i) \in Int
BY WidthAssumption DEF Cast, MaxTimeout

LEMMA IntRead ==
    ASSUME NEW v \in Key(Int), v # Mistyped, NEW dst \in Int
    PROVE  CfgInt(v, dst) \in Int
BY CastTyped DEF Key, CfgInt

\* What a readable file becomes fits agh_config_t: no field overflows its array.
LEMMA FilledTyped ==
    ASSUME NEW f \in File, NEW e \in Nat \cup {Unset}, Readable(f)
    PROVE  /\ Filled(f, e) \in Config
           /\ UrlLen(Filled(f, e).base_url) < UrlCap
           /\ Filled(f, e).base_url.slashes = 0
           /\ Filled(f, e).base_url.scheme # "none" => Filled(f, e).base_url.rest > 0
<1>1. /\ f.base_url \in Key(Url) /\ f.username \in Key(Nat) /\ f.refresh_secs \in Key(Int)
      /\ f.timeout_ms \in Key(Int) /\ f.verify_tls \in Key(BOOLEAN)
  BY DEF File
<1>2. /\ f.base_url # Mistyped /\ f.username # Mistyped /\ f.refresh_secs # Mistyped
      /\ f.timeout_ms # Mistyped /\ f.verify_tls # Mistyped
  BY KeyAssumption DEF Readable, CfgString
<1>3. DefaultUrl \in Url
  BY DEF DefaultUrl, Url
<1>4. Read(f.base_url, DefaultUrl) \in Url
  BY <1>1, <1>2, <1>3, KeyTyped
<1>5. UrlLen(Read(f.base_url, DefaultUrl)) < UrlCap
  <2>1. CASE f.base_url = Absent
    <3>1. UrlLen(DefaultUrl) = 21
      BY DEF UrlLen, DefaultUrl, SchemeLen
    <3> QED BY <2>1, <3>1 DEF Read, UrlCap
  <2>2. CASE f.base_url # Absent
    BY <2>2 DEF Read, Readable, CfgString
  <2> QED BY <2>1, <2>2
<1>6. /\ Trimmed(Read(f.base_url, DefaultUrl)) \in Url
      /\ UrlLen(Trimmed(Read(f.base_url, DefaultUrl))) < UrlCap
      /\ Trimmed(Read(f.base_url, DefaultUrl)).slashes = 0
      /\ Trimmed(Read(f.base_url, DefaultUrl)).scheme # "none" =>
             Trimmed(Read(f.base_url, DefaultUrl)).rest > 0
  <2> DEFINE u == Read(f.base_url, DefaultUrl)
             t == Trimmed(u)
  <2>1. /\ t \in Url /\ UrlLen(t) <= UrlLen(u) /\ t.slashes = 0
        /\ t.scheme # "none" => t.rest > 0
    BY <1>4, TrimmedIsUrl
  <2>2. \A w \in Url : UrlLen(w) \in Nat
    <3>1. \A s \in {"http", "https", "none"} : SchemeLen[s] \in Nat
      BY DEF SchemeLen
    <3> QED BY <3>1 DEF UrlLen, Url
  <2>3. UrlLen(t) \in Nat /\ UrlLen(u) \in Nat
    BY <1>4, <2>1, <2>2
  <2> QED BY <1>5, <2>1, <2>3 DEF UrlCap
<1>7. Read(f.username, 0) \in 0..(NameCap - 1)
  <2>1. f.username = Absent \/ (f.username \in Nat /\ f.username < NameCap)
    BY <1>1 DEF Readable, CfgString, Key
  <2> QED BY <2>1 DEF Read, NameCap
<1>8. CfgInt(f.refresh_secs, DefaultRefresh) \in Int /\ CfgInt(f.timeout_ms, DefaultTimeout) \in Int
  BY <1>1, <1>2, IntRead DEF DefaultRefresh, DefaultTimeout
<1>9. Read(f.verify_tls, FALSE) \in BOOLEAN
  BY <1>1, <1>2, KeyTyped
<1>10. Filled(f, e) \in Config
  BY <1>6, <1>7, <1>8, <1>9, PasswordTyped, Zenon DEF Filled, Config
<1>11. Filled(f, e).base_url = Trimmed(Read(f.base_url, DefaultUrl))
  BY DEF Filled
<1> QED BY <1>6, <1>10, <1>11

----------------------------------------------------------------------------
(***************************************************************************)
(* One file, two loaders.                                                  *)
(***************************************************************************)

\* The cast leaves alone what fits, the defaults among it.
LEMMA CastSmall ==
    ASSUME NEW i \in 0..MaxTimeout
    PROVE  Cast(i) = i
<1>1. i \in Nat /\ IntMod \in Nat /\ i < IntMod /\ ~(2 * i >= IntMod)
  BY WidthAssumption DEF MaxTimeout
<1>2. i % IntMod = i
  BY <1>1
<1> QED BY <1>1, <1>2 DEF Cast

\* The two loaders agree on every file the C loader accepts whose integers are
\* not negative, under an environment variable neither empty nor too long, but
\* for what the C loader cuts off an integer.
LEMMA LoadersAgree ==
    ASSUME NEW f \in File, NEW e \in Nat \cup {Unset}, AghConfigLoads(f, e),
           NonNegative(f.refresh_secs), NonNegative(f.timeout_ms),
           e = Unset \/ e \in 1..(PasswordCap - 1)
    PROVE  /\ SlintLoads(f, e)
           /\ SlintConfig(f, e).base_url = Filled(f, e).base_url
           /\ SlintConfig(f, e).username = Filled(f, e).username
           /\ SlintConfig(f, e).password = Filled(f, e).password
           /\ Filled(f, e).refresh_secs = Cast(SlintConfig(f, e).refresh_secs)
           /\ Filled(f, e).timeout_ms = Cast(SlintConfig(f, e).timeout_ms)
<1>1. Readable(f) /\ Valid(Filled(f, e)) /\ f # NoFile
  BY DEF AghConfigLoads
<1>2. /\ Filled(f, e).username = Read(f.username, 0)
      /\ Filled(f, e).password = PasswordOf(f, e)
      /\ Filled(f, e).refresh_secs = CfgInt(f.refresh_secs, DefaultRefresh)
      /\ Filled(f, e).timeout_ms = CfgInt(f.timeout_ms, DefaultTimeout)
      /\ Filled(f, e).base_url = Trimmed(Read(f.base_url, DefaultUrl))
  BY DEF Filled
<1>3. /\ SlintConfig(f, e).username = Read(f.username, 5)
      /\ SlintConfig(f, e).password = SlintPassword(f, e)
      /\ SlintConfig(f, e).refresh_secs = SlintRefresh(f)
      /\ SlintConfig(f, e).timeout_ms = Read(f.timeout_ms, DefaultTimeout)
      /\ SlintConfig(f, e).base_url = Trimmed(Read(f.base_url, DefaultUrl))
  BY DEF SlintConfig
<1>4. /\ Filled(f, e).username > 0 /\ Filled(f, e).password.len > 0
      /\ Filled(f, e).refresh_secs \in 1..MaxRefresh /\ Filled(f, e).timeout_ms \in MinTimeout..MaxTimeout
  BY <1>1 DEF Valid
<1>5. SlintPassword(f, e) = PasswordOf(f, e)
  BY InputAssumption DEF SlintPassword, PasswordOf, PasswordCap
<1>6. f.username # Absent
  BY <1>2, <1>4 DEF Read
<1>7. Cast(0) = 0 /\ Cast(DefaultRefresh) = DefaultRefresh /\ Cast(DefaultTimeout) = DefaultTimeout
  <2>1. {0, DefaultRefresh, DefaultTimeout} \subseteq 0..MaxTimeout
    BY DEF DefaultRefresh, DefaultTimeout, MaxTimeout
  <2> QED BY <2>1, CastSmall
<1>8. CfgInt(f.refresh_secs, DefaultRefresh) = Cast(SlintRefresh(f))
  <2>1. CASE f.refresh_secs = Absent
    BY <1>7, <2>1 DEF SlintRefresh, CfgInt
  <2>2. CASE f.refresh_secs # Absent
    <3>1. CfgInt(f.refresh_secs, DefaultRefresh) = Cast(f.refresh_secs)
      BY <2>2 DEF CfgInt
    <3>2. f.refresh_secs # 0
      <4>1. Cast(f.refresh_secs) # 0
        BY <1>2, <1>4, <3>1
      <4> QED BY <1>7, <4>1
    <3> QED BY <2>2, <3>1, <3>2 DEF SlintRefresh
  <2> QED BY <2>1, <2>2
<1>9. CfgInt(f.timeout_ms, DefaultTimeout) = Cast(Read(f.timeout_ms, DefaultTimeout))
  BY <1>7 DEF CfgInt, Read
<1>10. SlintReadable(f)
  <2>1. Mistyped \notin {f.base_url, f.username, f.password, f.refresh_secs, f.timeout_ms}
    BY <1>1, KeyAssumption DEF Readable, CfgString
  <2> QED BY <2>1 DEF SlintReadable, NonNegative
<1> QED BY <1>1, <1>2, <1>3, <1>4, <1>5, <1>6, <1>8, <1>9, <1>10 DEF SlintLoads, Read

----------------------------------------------------------------------------
(***************************************************************************)
(* main.c: the invariant holds at the start and every step keeps it.        *)
(***************************************************************************)

LEMMA StartupInitially == Init => StartupInv
<1> SUFFICES ASSUME Init PROVE StartupInv
  OBVIOUS
<1>1. NoConfig \in Config /\ UrlLen(NoConfig.base_url) < UrlCap
  <2>1. [from |-> "none", len |-> 0] \in Password
    BY DEF Password, PasswordCap
  <2>2. [scheme |-> "none", rest |-> 0, slashes |-> 0] \in Url
    BY DEF Url
  <2>3. 0 \in 0..(NameCap - 1)
    BY DEF NameCap
  <2>4. 0 \in Int /\ FALSE \in BOOLEAN
    OBVIOUS
  <2>5. NoConfig \in Config
    BY <2>1, <2>2, <2>3, <2>4, Zenon DEF NoConfig, Config
  <2>6. UrlLen([scheme |-> "none", rest |-> 0, slashes |-> 0]) = 0
    BY DEF UrlLen, SchemeLen
  <2> QED BY <2>5, <2>6 DEF NoConfig, UrlCap
<1>2. NoCurl \in Curl
  BY DEF NoCurl, Curl
<1>3. StartupTypeOK
  BY <1>1, <1>2, InputAssumption DEF Init, StartupTypeOK, Ends
<1>4. Accepted /\ InTurn /\ ExitClean
  BY DEF Init, Accepted, Started, InTurn, ExitClean
<1> QED BY <1>3, <1>4 DEF StartupInv

\* The arguments of a smaller vector are still arguments.
LEMMA ArgsTyped ==
    ASSUME NEW a \in Seq(Args)
    PROVE  /\ a # <<>> => Tail(a) \in Seq(Args)
           /\ Len(a) > 1 => SubSeq(a, 3, Len(a)) \in Seq(Args)
<1>1. a # <<>> => Tail(a) \in Seq(Args)
  OBVIOUS
<1>2. Len(a) > 1 => SubSeq(a, 3, Len(a)) \in Seq(Args)
  OBVIOUS
<1> QED BY <1>1, <1>2

\* main.c:168-184.
LEMMA ArgumentSteps ==
    ASSUME StartupInv, ArgConfig \/ ArgSelfCheck \/ ArgHelp \/ ArgUnknown
    PROVE  StartupInv'
<1> USE DEF Ends, inputs, taken
<1>1. /\ pc = "args" /\ pc' \in {"args", "exited"}
      /\ UNCHANGED <<file, env, cfg, quit_flag, taken>>
      /\ status' \in {-1, 0, 1, 2}
  BY DEF StartupInv, StartupTypeOK, ArgConfig, ArgSelfCheck, ArgHelp, ArgUnknown, Leaves
<1>2. args' \in Seq(Args) /\ self_check' \in BOOLEAN
  BY ArgsTyped DEF StartupInv, StartupTypeOK, ArgConfig, ArgSelfCheck, ArgHelp, ArgUnknown
<1>3. StartupTypeOK'
  BY <1>1, <1>2 DEF StartupInv, StartupTypeOK
<1>4. Accepted' /\ InTurn' /\ ExitClean'
  BY <1>1 DEF StartupInv, Accepted, Started, InTurn, ExitClean
<1> QED BY <1>3, <1>4 DEF StartupInv

\* config.c:86-153.
LEMMA LoadStep == StartupInv /\ LoadConfig => StartupInv'
<1> SUFFICES ASSUME StartupInv, LoadConfig PROVE StartupInv'
  OBVIOUS
<1>1. CASE AghConfigLoads(file, env)
  <2>1. /\ pc = "args" /\ pc' = "display" /\ cfg' = Filled(file, env) /\ lvgl' = TRUE
        /\ UNCHANGED <<args, self_check, file, env, quit_flag, display, ui, curl, bodies, missing, status>>
    BY <1>1 DEF LoadConfig
  <2>2. file \in File /\ Readable(file) /\ env \in Nat \cup {Unset}
    BY <1>1 DEF AghConfigLoads, StartupInv, StartupTypeOK
  <2>3. cfg' \in Config /\ UrlLen(cfg'.base_url) < UrlCap
    BY <2>1, <2>2, FilledTyped
  <2>4. StartupTypeOK'
    BY <2>1, <2>3 DEF StartupInv, StartupTypeOK
  <2>5. Accepted'
    BY <1>1, <2>1 DEF Accepted
  <2>6. InTurn' /\ ExitClean'
    BY <2>1 DEF StartupInv, InTurn, ExitClean
  <2> QED BY <2>4, <2>5, <2>6 DEF StartupInv
<1>2. CASE ~AghConfigLoads(file, env)
  <2>1. /\ pc = "args" /\ pc' = "exited" /\ status' = 1 /\ UNCHANGED <<cfg, lvgl>>
        /\ UNCHANGED <<args, self_check, file, env, quit_flag, display, ui, curl, bodies, missing>>
    BY <1>2 DEF LoadConfig, Leaves
  <2>2. StartupTypeOK'
    BY <2>1 DEF StartupInv, StartupTypeOK, Ends
  <2>3. Accepted' /\ InTurn' /\ ExitClean'
    BY <2>1 DEF StartupInv, Accepted, Started, InTurn, ExitClean
  <2> QED BY <2>2, <2>3 DEF StartupInv
<1> QED BY <1>1, <1>2

\* main.c:198-210.
LEMMA DisplaySteps ==
    ASSUME StartupInv, CreateDisplay \/ DisplayFails \/ CreateUi
    PROVE  StartupInv'
<1> USE DEF Ends, inputs
<1>1. CASE CreateDisplay
  <2>1. StartupTypeOK'
    BY <1>1 DEF CreateDisplay, StartupInv, StartupTypeOK
  <2> QED BY <1>1, <2>1 DEF CreateDisplay, StartupInv, Accepted, Started, InTurn, ExitClean
<1>2. CASE DisplayFails
  <2>1. StartupTypeOK'
    BY <1>2 DEF DisplayFails, Leaves, StartupInv, StartupTypeOK
  <2> QED BY <1>2, <2>1 DEF DisplayFails, Leaves, StartupInv, Accepted, Started, InTurn, ExitClean
<1>3. CASE CreateUi
  <2>1. StartupTypeOK'
    BY <1>3 DEF CreateUi, StartupInv, StartupTypeOK
  <2> QED BY <1>3, <2>1 DEF CreateUi, StartupInv, Accepted, Started, InTurn, ExitClean
<1> QED BY <1>1, <1>2, <1>3

\* agh_client_create gives back what it took, but for its two leaks
\* (agh.c:240-285).
LEMMA LeftoverTyped ==
    ASSUME NEW lack \in Lacks
    PROVE  /\ Leftover(lack) \in Curl
           /\ lack \cap {"client", "multi"} = {} => Leftover(lack) = NoCurl
<1>1. NoCurl \in Curl
  BY DEF NoCurl, Curl
<1>2. [NoCurl EXCEPT !.global = TRUE] \in Curl
  BY DEF NoCurl, Curl
<1>3. [NoCurl EXCEPT !.easy = Requests \ lack] \in Curl
  BY DEF NoCurl, Curl
<1>4. Destroyed([global |-> TRUE, multi |-> "multi" \notin lack, easy |-> Requests \ lack])
        = IF "multi" \notin lack THEN NoCurl ELSE [NoCurl EXCEPT !.easy = Requests \ lack]
  BY Zenon DEF Destroyed
<1>5. CASE "global" \in lack
  BY <1>1, <1>5 DEF Leftover
<1>6. CASE "global" \notin lack /\ "client" \in lack
  BY <1>2, <1>6 DEF Leftover
<1>7. CASE "global" \notin lack /\ "client" \notin lack
  BY <1>1, <1>3, <1>4, <1>7 DEF Leftover
<1> QED BY <1>5, <1>6, <1>7

\* main.c:212-220, agh.c:236-285.
LEMMA ClientSteps ==
    ASSUME StartupInv, ClientCreated \/ \E lack \in Lacks : ClientFails(lack)
    PROVE  StartupInv'
<1> USE DEF Ends, inputs
<1>1. CASE ClientCreated
  <2>1. AllCurl \in Curl
    BY DEF AllCurl, Curl
  <2>2. StartupTypeOK'
    BY <1>1, <2>1 DEF ClientCreated, StartupInv, StartupTypeOK
  <2> QED BY <1>1, <2>2 DEF ClientCreated, StartupInv, Accepted, Started, InTurn, ExitClean
<1>2. ASSUME NEW lack \in Lacks, ClientFails(lack) PROVE StartupInv'
  <2>1. /\ pc' = "exited" /\ status' = 1 /\ curl' = Leftover(lack) /\ missing' = lack
        /\ display' = FALSE /\ lvgl' = FALSE /\ UNCHANGED <<inputs, quit_flag, ui>>
        /\ bodies' = {}
    BY <1>2 DEF ClientFails, Leaves, taken, StartupInv, InTurn
  <2>2. /\ curl' \in Curl
        /\ missing' \cap {"client", "multi"} = {} => curl' = NoCurl
    BY <2>1, LeftoverTyped
  <2>3. StartupTypeOK'
    BY <2>1, <2>2 DEF StartupInv, StartupTypeOK
  <2> QED BY <2>1, <2>2, <2>3 DEF StartupInv, Accepted, Started, InTurn, ExitClean
<1> QED BY <1>1, <1>2

\* main.c:127-132, 226-235, 48-52.
LEMMA RunningSteps ==
    ASSUME StartupInv, SelfCheckReport \/ Quit \/ OnSignal \/ \E r \in Requests : BodyReserve(r)
    PROVE  StartupInv'
<1> USE DEF Ends, inputs, taken
<1>1. CASE SelfCheckReport
  <2>1. StartupTypeOK'
    BY <1>1 DEF SelfCheckReport, StartupInv, StartupTypeOK
  <2> QED BY <1>1, <2>1 DEF SelfCheckReport, StartupInv, Accepted, Started, InTurn, ExitClean
<1>2. CASE Quit
  <2>1. Destroyed(AllCurl) = NoCurl /\ NoCurl \in Curl
    BY DEF Destroyed, AllCurl, NoCurl, Curl
  <2>2. /\ pc = "running" /\ pc' = "exited" /\ status' = 0 /\ curl' = NoCurl
        /\ display' = FALSE /\ lvgl' = FALSE /\ UNCHANGED <<inputs, quit_flag, ui, missing>>
        /\ bodies' = {}
    BY <1>2, <2>1 DEF Quit, Leaves, BodyFree, Requests, StartupInv, StartupTypeOK, InTurn
  <2>3. StartupTypeOK'
    BY <2>1, <2>2 DEF StartupInv, StartupTypeOK
  <2> QED BY <2>2, <2>3 DEF StartupInv, Accepted, Started, InTurn, ExitClean
<1>3. CASE OnSignal
  <2>1. StartupTypeOK'
    BY <1>3 DEF OnSignal, StartupInv, StartupTypeOK
  <2> QED BY <1>3, <2>1 DEF OnSignal, StartupInv, Accepted, Started, InTurn, ExitClean
<1>4. ASSUME NEW r \in Requests, BodyReserve(r) PROVE StartupInv'
  <2>1. StartupTypeOK'
    BY <1>4 DEF BodyReserve, StartupInv, StartupTypeOK
  <2> QED BY <1>4, <2>1 DEF BodyReserve, StartupInv, Accepted, Started, InTurn, ExitClean
<1> QED BY <1>1, <1>2, <1>3, <1>4

LEMMA StartupStep == StartupInv /\ [Next]_vars => StartupInv'
<1> SUFFICES ASSUME StartupInv, [Next]_vars PROVE StartupInv'
  OBVIOUS
<1>1. CASE UNCHANGED vars
  BY <1>1 DEF vars, inputs, taken, StartupInv, StartupTypeOK, Accepted, Started, InTurn, ExitClean
<1>2. CASE Next
  BY <1>2, ArgumentSteps, LoadStep, DisplaySteps, ClientSteps, RunningSteps DEF Next, MainStep
<1> QED BY <1>1, <1>2

----------------------------------------------------------------------------
(***************************************************************************)
(* The theorems.                                                           *)
(***************************************************************************)

\* main.c:168-235: the invariant of the start, for every file, environment and
\* argument vector.
THEOREM StartupInvariance == Spec => []StartupInv
<1>1. Init => StartupInv
  BY StartupInitially
<1>2. StartupInv /\ [Next]_vars => StartupInv'
  BY StartupStep
<1> QED BY <1>1, <1>2, PTL DEF Spec

\* config.c:29-120: no string ever overflows its array in agh_config_t.
THEOREM StartupTypeCorrect == Spec => []StartupTypeOK
<1>1. StartupInv => StartupTypeOK
  BY DEF StartupInv
<1> QED BY <1>1, StartupInvariance, PTL

\* config.c:123-150: whatever the file holds, an accepted configuration is in
\* range and fits the request URLs of agh.c:256-260.
THEOREM ConfigsInRange == Spec => []ConfigInRange
<1>1. StartupInv => ConfigInRange
  <2> SUFFICES ASSUME StartupInv, Started PROVE ConfigInRange
    BY DEF ConfigInRange
  <2>1. /\ cfg = Filled(file, env) /\ Readable(file) /\ Valid(cfg)
        /\ file \in File /\ env \in Nat \cup {Unset}
    BY DEF StartupInv, Accepted, AghConfigLoads, StartupTypeOK
  <2>2. /\ cfg.base_url.scheme \in {"http", "https"}
        /\ cfg.username > 0 /\ cfg.password.len > 0
        /\ cfg.refresh_secs \in 1..MaxRefresh /\ cfg.timeout_ms \in MinTimeout..MaxTimeout
    BY <2>1 DEF Valid
  <2>3. /\ UrlLen(cfg.base_url) < UrlCap /\ cfg.base_url.slashes = 0
        /\ cfg.base_url.scheme # "none" => cfg.base_url.rest > 0
    BY <2>1, FilledTyped
  <2>4. UrlLen(cfg.base_url) \in Nat
    <3>1. \A s \in {"http", "https", "none"} : SchemeLen[s] \in Nat
      BY DEF SchemeLen
    <3>2. cfg.base_url \in Url
      BY DEF StartupInv, StartupTypeOK, Config
    <3> QED BY <3>1, <3>2 DEF UrlLen, Url
  <2>5. UrlLen(cfg.base_url) + StatusPathLen < RequestCap
    BY <2>3, <2>4 DEF UrlCap, StatusPathLen, RequestCap
  <2> QED BY <2>2, <2>3, <2>5 DEF ConfigInRange
<1> QED BY <1>1, StartupInvariance, PTL

\* config.rs:1-3: every file with an http base_url and no negative integer that
\* starts the LVGL dashboard, with a usable variable, is read by the Slint one to
\* the same URL, name and password; the integers of the first are those of the
\* second cut to an int.
THEOREM OneFileForBoth == Spec => []OneFileServesBoth
<1>1. StartupInv => OneFileServesBoth
  <2> SUFFICES ASSUME StartupInv, Started, NonNegative(file.refresh_secs),
                      NonNegative(file.timeout_ms), env = Unset \/ env \in 1..(PasswordCap - 1)
               PROVE  /\ SlintLoads(file, env)
                      /\ SlintConfig(file, env).base_url = cfg.base_url
                      /\ SlintConfig(file, env).username = cfg.username
                      /\ SlintConfig(file, env).password = cfg.password
                      /\ cfg.refresh_secs = Cast(SlintConfig(file, env).refresh_secs)
                      /\ cfg.timeout_ms = Cast(SlintConfig(file, env).timeout_ms)
    BY DEF OneFileServesBoth
  <2>1. /\ cfg = Filled(file, env) /\ AghConfigLoads(file, env)
        /\ file \in File /\ env \in Nat \cup {Unset}
    BY DEF StartupInv, Accepted, AghConfigLoads, StartupTypeOK
  <2> QED BY <2>1, LoadersAgree
<1> QED BY <1>1, StartupInvariance, PTL

\* main.c:175-235: every way out gives back what was taken, agh_client_create's
\* two leaks excepted.
THEOREM ExitsClean == Spec => []ExitClean
<1>1. StartupInv => ExitClean
  BY DEF StartupInv
<1> QED BY <1>1, StartupInvariance, PTL

=============================================================================
