------------------------------ MODULE Startup ------------------------------
(***************************************************************************)
(* How the LVGL dashboard comes up and goes away: the argument loop and the *)
(* acquisitions of adguard-dashboard/src/main.c, the loader and validator   *)
(* of config.c, and agh_client_create/destroy of agh.c.  The Slint          *)
(* dashboard's loader (config.rs) reads the same file and is modelled next  *)
(* to it, so that the two can be compared.                                 *)
(*                                                                         *)
(* A string is its length; a URL also has its scheme and its trailing       *)
(* slashes, which is all either loader looks at.                           *)
(***************************************************************************)
EXTENDS Integers, Sequences

CONSTANTS
    Absent,         \* a key the file does not have
    Mistyped,       \* a key whose value has another type
    IntMod,         \* a C int counts modulo this
    ArgLists,       \* the argument vectors
    Files,          \* the configuration files
    NoFile,         \* a file that cannot be opened or is not TOML
    Lengths,        \* what AGH_DASH_PASSWORD may hold, by length
    Unset           \* AGH_DASH_PASSWORD is not in the environment

Args == {"--config", "--self-check", "--help", "-h", "other"}

UrlCap == 192
NameCap == 64
PasswordCap == 128
RequestCap == 256
StatusPathLen == 15      \* "/control/status"
DefaultRefresh == 5
DefaultTimeout == 10000
MaxRefresh == 3600
MinTimeout == 100
MaxTimeout == 60000

SchemeLen == [http |-> 7, https |-> 8, none |-> 0]

\* rest: the characters between the scheme and the trailing slashes.
Url == [scheme : {"http", "https", "none"}, rest : Nat, slashes : Nat]
UrlLen(u) == SchemeLen[u.scheme] + u.rest + u.slashes
DefaultUrl == [scheme |-> "http", rest |-> 14, slashes |-> 0]

\* A key of the file as the TOML parser hands it over.
Key(S) == S \cup {Absent, Mistyped}

File == [base_url : Key(Url), username : Key(Nat), password : Key(Nat),
         refresh_secs : Key(Int), timeout_ms : Key(Int), verify_tls : Key(BOOLEAN)]

\* agh_config_t.  from: where the password was read.
Password == [from : {"none", "file", "environment"}, len : 0..(PasswordCap - 1)]
Config == [base_url : Url, username : 0..(NameCap - 1), password : Password,
           refresh_secs : Int, timeout_ms : Int, verify_tls : BOOLEAN]

ASSUME KeyAssumption ==
    /\ Absent \notin Url /\ Absent \notin Int /\ Absent \notin BOOLEAN
    /\ Mistyped \notin Url /\ Mistyped \notin Int /\ Mistyped \notin BOOLEAN
    /\ Absent # Mistyped

ASSUME InputAssumption ==
    /\ ArgLists \subseteq Seq(Args)
    /\ Files \subseteq File /\ NoFile \notin File
    /\ Lengths \subseteq Nat /\ Unset \notin Nat

\* An int holds every value the ranges accept and the defaults.
ASSUME WidthAssumption == IntMod \in Nat /\ IntMod > 2 * MaxTimeout

----------------------------------------------------------------------------
(***************************************************************************)
(* config.c: the readers of one key.  Each leaves dst alone when the key is  *)
(* absent and stops the load when the value has another type.              *)
(***************************************************************************)

Read(v, dst) == IF v = Absent THEN dst ELSE v

\* Faulty variant: the terminating NUL is forgotten.
CfgStringExact(v, length, cap) == v = Absent \/ (v # Mistyped /\ length <= cap)

\* length is only looked at when there is a string.
CfgString(v, length, cap) == v = Absent \/ (v # Mistyped /\ length < cap)

\* (int)v.u.i
Cast(i) == LET r == i % IntMod IN IF 2 * r >= IntMod THEN r - IntMod ELSE r

CfgInt(v, dst) == IF v = Absent THEN dst ELSE Cast(v)

\* The keys are read one after the other; the first that is wrong ends the load.
Readable(f) ==
    /\ CfgString(f.base_url, UrlLen(f.base_url), UrlCap)
    /\ CfgString(f.username, f.username, NameCap)
    /\ CfgString(f.password, f.password, PasswordCap)
    /\ f.refresh_secs # Mistyped
    /\ f.timeout_ms # Mistyped
    /\ f.verify_tls # Mistyped

\* Faulty variant: one slash is taken away, not all of them.
TrimmedOnce(u) == [u EXCEPT !.slashes = IF u.slashes > 0 THEN u.slashes - 1 ELSE 0]

\* The trailing slashes go, those of a bare scheme with them: "http://" becomes
\* "http:".
Trimmed(u) ==
    IF u.rest = 0 /\ u.scheme # "none"
    THEN [scheme |-> "none", rest |-> SchemeLen[u.scheme] - 2, slashes |-> 0]
    ELSE [u EXCEPT !.slashes = 0]

\* Faulty variant: the file's password wins.
PasswordFromFile(f, env) ==
    IF f.password # Absent \/ env = Unset
    THEN [from |-> IF f.password = Absent THEN "none" ELSE "file", len |-> Read(f.password, 0)]
    ELSE [from |-> "environment", len |-> IF env < PasswordCap THEN env ELSE PasswordCap - 1]

\* getenv: a password that is too long is cut by snprintf.
PasswordOf(f, env) ==
    IF env # Unset /\ env # 0
    THEN [from |-> "environment", len |-> IF env < PasswordCap THEN env ELSE PasswordCap - 1]
    ELSE [from |-> IF f.password = Absent THEN "none" ELSE "file", len |-> Read(f.password, 0)]

\* What the file and the environment make of the defaults.
Filled(f, env) ==
    [base_url |-> Trimmed(Read(f.base_url, DefaultUrl)),
     username |-> Read(f.username, 0),
     password |-> PasswordOf(f, env),
     refresh_secs |-> CfgInt(f.refresh_secs, DefaultRefresh),
     timeout_ms |-> CfgInt(f.timeout_ms, DefaultTimeout),
     verify_tls |-> Read(f.verify_tls, FALSE)]

Valid(c) ==
    /\ c.base_url.scheme \in {"http", "https"}
    /\ c.username > 0 /\ c.password.len > 0
    /\ c.refresh_secs \in 1..MaxRefresh
    /\ c.timeout_ms \in MinTimeout..MaxTimeout

\* agh_config_load: accepts the file or not.
AghConfigLoads(f, env) == f # NoFile /\ Readable(f) /\ Valid(Filled(f, env))

----------------------------------------------------------------------------
(***************************************************************************)
(* adguard-dashboard-slint/src/config.rs: Config::load.  verify_tls is an    *)
(* unknown key there, the integers are u64, the defaults differ in the user  *)
(* name, and the only rule is a password; the slashes go where the URL is    *)
(* used (agh.rs:79).                                                       *)
(***************************************************************************)

SlintReadable(f) ==
    /\ Mistyped \notin {f.base_url, f.username, f.password, f.refresh_secs, f.timeout_ms}
    /\ f.refresh_secs # Absent => f.refresh_secs >= 0
    /\ f.timeout_ms # Absent => f.timeout_ms >= 0

SlintPassword(f, env) ==
    IF env # Unset THEN [from |-> "environment", len |-> env]
    ELSE [from |-> IF f.password = Absent THEN "none" ELSE "file", len |-> Read(f.password, 0)]

SlintRefresh(f) ==
    IF f.refresh_secs \in {Absent, 0} THEN DefaultRefresh ELSE f.refresh_secs

SlintLoads(f, env) == f # NoFile /\ SlintReadable(f) /\ SlintPassword(f, env).len > 0

SlintConfig(f, env) ==
    [base_url |-> Trimmed(Read(f.base_url, DefaultUrl)),
     username |-> Read(f.username, 5),
     password |-> SlintPassword(f, env),
     refresh_secs |-> SlintRefresh(f),
     timeout_ms |-> Read(f.timeout_ms, DefaultTimeout)]

----------------------------------------------------------------------------
(***************************************************************************)
(* main.c and the life of what it acquires.                                *)
(***************************************************************************)

VARIABLES
    pc,         \* where main is
    args,       \* the arguments not looked at yet
    self_check, \* --self-check
    file, env,  \* the configuration file that is named, and the environment
    cfg,        \* the agh_config_t, once it is accepted
    quit_flag,
    lvgl,       \* between lv_init and lv_deinit
    display,    \* the display exists
    ui,         \* the agh_dashboard_t: none yet, NULL, or there
    curl,       \* what agh_client_create has taken from libcurl and not given back
    bodies,     \* the requests whose response has a buffer
    missing,    \* what a failed agh_client_create could not get
    status      \* the exit status, -1 while the program runs

inputs == <<args, self_check, file, env, cfg>>
taken == <<lvgl, display, ui, curl, bodies, missing>>
vars == <<pc, inputs, quit_flag, taken, status>>

Requests == {"stats", "status"}
Curl == [global : BOOLEAN, multi : BOOLEAN, easy : SUBSET Requests]
NoCurl == [global |-> FALSE, multi |-> FALSE, easy |-> {}]
AllCurl == [global |-> TRUE, multi |-> TRUE, easy |-> Requests]

\* What agh_client_create may fail to get: libcurl itself, its own memory, or any
\* of the three handles.
Lacks == {{"global"}, {"client"}} \cup (SUBSET (Requests \cup {"multi"}) \ {{}})
Ends == {"exited", "crashed"}

StartupTypeOK ==
    /\ pc \in {"args", "display", "ui", "client", "running"} \cup Ends
    /\ args \in Seq(Args) /\ self_check \in BOOLEAN
    /\ file \in File \cup {NoFile} /\ env \in Nat \cup {Unset}
    /\ cfg \in Config /\ UrlLen(cfg.base_url) < UrlCap     \* no buffer overflows
    /\ quit_flag \in BOOLEAN /\ lvgl \in BOOLEAN /\ display \in BOOLEAN
    /\ ui \in {"none", "null", "up"}
    /\ curl \in Curl /\ bodies \in SUBSET Requests /\ missing \in Lacks \cup {{}}
    /\ status \in {-1, 0, 1, 2}

\* static agh_config_t cfg: zero until it is loaded.
NoConfig ==
    [base_url |-> [scheme |-> "none", rest |-> 0, slashes |-> 0], username |-> 0,
     password |-> [from |-> "none", len |-> 0], refresh_secs |-> 0, timeout_ms |-> 0,
     verify_tls |-> FALSE]

Init ==
    /\ pc = "args" /\ args \in ArgLists /\ self_check = FALSE
    /\ file \in Files \cup {NoFile} /\ env \in Lengths \cup {Unset} /\ cfg = NoConfig
    /\ quit_flag = FALSE /\ lvgl = FALSE /\ display = FALSE /\ ui = "none"
    /\ curl = NoCurl /\ bodies = {} /\ missing = {} /\ status = -1

(***************************************************************************)
(* The argument loop (main.c:168-184).  --config takes the next argument    *)
(* whatever it is; as the last one it is unknown.                          *)
(***************************************************************************)

Leaves(code) == pc' = "exited" /\ status' = code

ArgConfig ==
    /\ pc = "args" /\ Len(args) > 1 /\ Head(args) = "--config"
    /\ args' = SubSeq(args, 3, Len(args))
    /\ UNCHANGED <<pc, self_check, file, env, cfg, quit_flag, taken, status>>

ArgSelfCheck ==
    /\ pc = "args" /\ args # <<>> /\ Head(args) = "--self-check"
    /\ self_check' = TRUE
    /\ args' = Tail(args)
    /\ UNCHANGED <<pc, file, env, cfg, quit_flag, taken, status>>

ArgHelp ==
    /\ pc = "args" /\ args # <<>> /\ Head(args) \in {"--help", "-h"}
    /\ Leaves(0)
    /\ UNCHANGED <<inputs, quit_flag, taken>>

ArgUnknown ==
    /\ pc = "args" /\ args # <<>>
    /\ Head(args) = "other" \/ (Head(args) = "--config" /\ Len(args) = 1)
    /\ Leaves(2)
    /\ UNCHANGED <<inputs, quit_flag, taken>>

\* agh_config_load, and on success the signal handlers and lv_init.
LoadConfig ==
    /\ pc = "args" /\ args = <<>>
    /\ IF AghConfigLoads(file, env)
       THEN pc' = "display" /\ cfg' = Filled(file, env) /\ lvgl' = TRUE /\ status' = status
       ELSE Leaves(1) /\ cfg' = cfg /\ lvgl' = lvgl
    /\ UNCHANGED <<args, self_check, file, env, quit_flag, display, ui, curl, bodies, missing>>

\* create_display: the daemon hands out the lease.
CreateDisplay ==
    /\ pc = "display" /\ pc' = "ui"
    /\ display' = TRUE
    /\ UNCHANGED <<inputs, quit_flag, lvgl, ui, curl, bodies, missing, status>>

\* No daemon, no lease or no card: nothing of the display is left.
DisplayFails ==
    /\ pc = "display" /\ Leaves(1)
    /\ lvgl' = FALSE
    /\ UNCHANGED <<inputs, quit_flag, display, ui, curl, bodies, missing>>

\* agh_ui_create; that it returned NULL is not noticed.
CreateUi ==
    /\ pc = "ui" /\ pc' = "client"
    /\ ui' \in {"up", "null"}
    /\ UNCHANGED <<inputs, quit_flag, lvgl, display, curl, bodies, missing, status>>

\* Faulty variant: the quit flag is reset when the loop is entered.
ClientCreatedAfresh ==
    /\ pc = "client" /\ pc' = "running"
    /\ curl' = AllCurl /\ quit_flag' = FALSE
    /\ UNCHANGED <<inputs, lvgl, display, ui, bodies, missing, status>>

\* agh_client_create succeeds, the first refresh and the timers are started.
ClientCreated ==
    /\ pc = "client" /\ pc' = "running"
    /\ curl' = AllCurl
    /\ UNCHANGED <<inputs, quit_flag, lvgl, display, ui, bodies, missing, status>>

\* agh_client_destroy: the easy handles are only looked at when there is a multi
\* handle to remove them from.
Destroyed(c) == IF c.multi THEN NoCurl ELSE [NoCurl EXCEPT !.easy = c.easy]

\* What agh_client_create leaves behind when it cannot get what is in lack.
Leftover(lack) ==
    IF "global" \in lack THEN NoCurl
    ELSE IF "client" \in lack THEN [NoCurl EXCEPT !.global = TRUE]
    ELSE Destroyed([global |-> TRUE, multi |-> "multi" \notin lack, easy |-> Requests \ lack])

\* Faulty variant: the display survives an early end.
ClientFailsUnreleased(lack) ==
    /\ pc = "client" /\ Leaves(1)
    /\ curl' = Leftover(lack) /\ missing' = lack
    /\ lvgl' = FALSE
    /\ UNCHANGED <<inputs, quit_flag, display, ui, bodies>>

\* agh_client_create returns NULL, and the display goes at once.
ClientFails(lack) ==
    /\ pc = "client" /\ Leaves(1)
    /\ curl' = Leftover(lack) /\ missing' = lack
    /\ display' = FALSE /\ lvgl' = FALSE
    /\ UNCHANGED <<inputs, quit_flag, ui, bodies>>

\* status_cb under --self-check, once two rounds have succeeded: agh_ui_self_check
\* reads through the dashboard without looking whether there is one.
SelfCheckReport ==
    /\ pc = "running" /\ ~quit_flag /\ self_check
    /\ IF ui = "null" THEN pc' = "crashed" /\ UNCHANGED quit_flag
                      ELSE quit_flag' = TRUE /\ UNCHANGED pc
    /\ UNCHANGED <<inputs, taken, status>>

\* body_reserve gets memory for the first bytes of a response; it stays for the
\* responses that follow.
BodyReserve(r) ==
    /\ pc = "running"
    /\ bodies' = bodies \cup {r}
    /\ UNCHANGED <<pc, inputs, quit_flag, lvgl, display, ui, curl, missing, status>>

BodyFree(r, held) == held \ {r}

\* The loop ends, and everything is given back.
Quit ==
    /\ pc = "running" /\ quit_flag /\ Leaves(0)
    /\ curl' = Destroyed(curl)
    /\ bodies' = BodyFree("status", BodyFree("stats", bodies))
    /\ display' = FALSE /\ lvgl' = FALSE
    /\ UNCHANGED <<inputs, quit_flag, ui, missing>>

\* SIGINT or SIGTERM once the handlers are installed.
OnSignal ==
    /\ pc \in {"display", "ui", "client", "running"}
    /\ quit_flag' = TRUE
    /\ UNCHANGED <<pc, inputs, taken, status>>

MainStep ==
    \/ ArgConfig \/ ArgSelfCheck \/ ArgHelp \/ ArgUnknown
    \/ LoadConfig
    \/ CreateDisplay \/ DisplayFails
    \/ CreateUi
    \/ ClientCreated \/ \E lack \in Lacks : ClientFails(lack)
    \/ SelfCheckReport \/ Quit

Next == MainStep \/ OnSignal \/ \E r \in Requests : BodyReserve(r)

Spec == Init /\ [][Next]_vars

\* main runs whenever it can.
FairSpec == Spec /\ WF_vars(MainStep)

=============================================================================
