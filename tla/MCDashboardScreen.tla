------------------------- MODULE MCDashboardScreen -------------------------
(* The page of the LVGL dashboard for TLC: arrays of three buckets and three *)
(* top entries of which two are shown.                                     *)
EXTENDS DashboardScreenProps

CONSTANTS k1, k2, k3, v1

const_Keys == {k1, k2, k3}
const_Versions == {v1, NoText}
const_CountMod == 1000000000
const_Widths == {0, 90, 300, 1200}

E(k, n) == [key |-> k, value |-> n]

Counted(q, f, m, a, s) ==
    [dns_queries |-> q, blocked_filtering |-> f, blocked_safebrowsing |-> m,
     blocked_parental |-> a, blocked_safesearch |-> s]

\* A long interval and full lists; a short one with malformed parts; nothing yet;
\* and a bucket beyond an int32_t.
long ==
    [counters |-> Counted(1234567, 54321, 7, 0, 3), avg |-> 123,
     series |-> [dns_queries |-> <<9, 1, 2, 3, 4>>, blocked_filtering |-> <<8, 1, 0, 2>>,
                 blocked_safebrowsing |-> <<0, 0, 0, 7>>, blocked_parental |-> <<5, 0, 0, 0>>],
     tops |-> [clients |-> <<E(k1, 1000), E(k2, 20), E(k3, 3), E(k1, 1)>>,
               queried |-> <<E(k3, 4), E(k2, 3), E(k1, 2)>>, blocked |-> <<E(k2, 7), E(k1, 5)>>]]
short ==
    [counters |-> Counted(5, 2, Missing, 1, 0), avg |-> Missing,
     series |-> [dns_queries |-> <<1, Missing>>, blocked_filtering |-> <<2>>,
                 blocked_safebrowsing |-> Missing, blocked_parental |-> <<1, 1, 0>>],
     tops |-> [clients |-> <<Missing, E(k2, 4)>>, queried |-> <<E(k1, 5)>>, blocked |-> Missing]]
idle ==
    [counters |-> Counted(0, 0, 0, 0, 0), avg |-> 0,
     series |-> [c \in Charts |-> <<>>], tops |-> [l \in Lists |-> <<>>]]
huge ==
    [counters |-> Counted(999, 500, 500, 500, 0), avg |-> 7,
     series |-> [dns_queries |-> <<200, 0>>, blocked_filtering |-> <<120, 1>>,
                 blocked_safebrowsing |-> <<200, 56>>, blocked_parental |-> <<100, 112>>],
     tops |-> [clients |-> <<E(k1, 9)>>, queried |-> <<Missing, Missing, E(k2, 1), E(k1, 1)>>,
               blocked |-> <<E(k3, 2), Missing, E(k1, 1)>>]]

const_StatsDocs == {long, short, idle, huge}
const_StatusDocs ==
    {[protection |-> TRUE, version |-> v1], [protection |-> FALSE, version |-> Missing],
     [protection |-> Missing, version |-> NoText]}
=============================================================================
