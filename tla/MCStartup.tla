----------------------------- MODULE MCStartup -----------------------------
(* The start of the LVGL dashboard for TLC: a good configuration file with   *)
(* every pair of its keys changed.                                         *)
EXTENDS StartupProps

const_IntMod == 131072      \* an int of 17 bits

const_ArgLists ==
    {<<>>, <<"--self-check">>, <<"--config", "other", "--self-check">>, <<"--config", "--help">>,
     <<"--self-check", "--config">>, <<"-h">>, <<"--self-check", "--help">>, <<"other">>}

U(scheme, rest, slashes) == [scheme |-> scheme, rest |-> rest, slashes |-> slashes]

good == [base_url |-> U("http", 14, 0), username |-> 5, password |-> 9, refresh_secs |-> 5,
         timeout_ms |-> 10000, verify_tls |-> FALSE]

choices ==
    [base_url |-> {Absent, Mistyped, U("http", 0, 0), U("none", 0, 2), U("none", 7, 0),
                   U("https", 9, 2), U("http", 184, 0), U("http", 183, 2), U("https", 183, 0)},
     username |-> {Absent, Mistyped, 0, 63, 64},
     password |-> {Absent, Mistyped, 0, 127, 128},
     refresh_secs |-> {Absent, Mistyped, -1, 0, 1, 3600, 3601, 131072, 131072 + 5, 5 - 131072, 65536},
     timeout_ms |-> {Absent, Mistyped, 99, 100, 60000, 60001, 131072 + 100},
     verify_tls |-> {Absent, Mistyped, TRUE}]

const_Files ==
    UNION {{[[good EXCEPT ![k[1]] = v] EXCEPT ![k[2]] = w] : v \in choices[k[1]], w \in choices[k[2]]} :
               k \in (DOMAIN choices) \X (DOMAIN choices)}

const_Lengths == {0, 1, 127, 128}
=============================================================================
