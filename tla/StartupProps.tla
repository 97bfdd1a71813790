---------------------------- MODULE StartupProps ----------------------------
(***************************************************************************)
(* What makes a start, and the end that belongs to it, correct.            *)
(***************************************************************************)
EXTENDS Startup

Started == pc \in {"display", "ui", "client", "running"}

\* config.c:123-150 and config.h:13 ("no trailing slash"): from the moment the
\* configuration is accepted every later part can rely on it; in particular
\* neither request URL of agh.c:256-260 is cut, whatever the file held.
ConfigInRange ==
    Started =>
        /\ cfg.base_url.scheme \in {"http", "https"} /\ cfg.base_url.rest > 0
        /\ cfg.base_url.slashes = 0
        /\ UrlLen(cfg.base_url) + StatusPathLen < RequestCap
        /\ cfg.username > 0 /\ cfg.password.len > 0
        /\ cfg.refresh_secs \in 1..MaxRefresh
        /\ cfg.timeout_ms \in MinTimeout..MaxTimeout

\* A u64, which is what the Slint loader takes an integer for.
NonNegative(v) == v = Absent \/ v >= 0

\* config.rs:1-3: "one file serves both dashboards".  What is excluded is named:
\* an https base_url, for which the Slint build has no TLS (its README.md:112); a
\* negative integer, which config.c:60 can cut to a good one; an environment
\* variable that is empty or longer than 127.  Any other file the C loader
\* accepts is read by the Slint loader, to the same URL, name and password, and
\* of each integer the C dashboard has what is left of the Slint one's in an int.
OneFileServesBoth ==
    /\ Started /\ cfg.base_url.scheme = "http"
    /\ NonNegative(file.refresh_secs) /\ NonNegative(file.timeout_ms)
    /\ env = Unset \/ env \in 1..(PasswordCap - 1)
    =>  LET slint == SlintConfig(file, env)
        IN  /\ SlintLoads(file, env)
            /\ slint.base_url = cfg.base_url /\ slint.username = cfg.username
            /\ slint.password = cfg.password
            /\ cfg.refresh_secs = Cast(slint.refresh_secs)
            /\ cfg.timeout_ms = Cast(slint.timeout_ms)

\* main.c:175-235: every way out gives back the display, LVGL, libcurl and the
\* buffers of the responses, however far a round had come, except for the two
\* leaks of an agh_client_create that itself lacks memory: calloc fails after
\* curl_global_init, or there is no multi handle.  The agh_dashboard_t of ui.c:243
\* is outside this: it is allocated once and nothing in the program ever frees it.
ExitClean ==
    pc = "exited" =>
        /\ ~display /\ ~lvgl /\ bodies = {}
        /\ missing \cap {"client", "multi"} = {} => curl = NoCurl

\* main.c:193-226: a signal that arrives while the program is still coming up is
\* not lost: the loop is then never entered, or the program has failed by itself.
EarlySignalEnds == quit_flag ~> pc \in Ends

=============================================================================
