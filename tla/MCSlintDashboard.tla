-------------------------- MODULE MCSlintDashboard --------------------------
(* The Slint dashboard for TLC. *)
EXTENDS SlintDashboardProps

CONSTANTS d1, d2

const_one == {d1}
const_two == {d1, d2}
=============================================================================
