---------------------------- MODULE MCDashboard ----------------------------
(* The LVGL dashboard for TLC. *)
EXTENDS DashboardProps

CONSTANT d1

const_one == {d1}
=============================================================================
