---------------------------- MODULE MCRemoteTest ----------------------------
(* The remote test screen and the injector for TLC. *)
EXTENDS RemoteTestProps

CONSTANTS a, b

const_typing == {a, b}
const_named == {a, b}

\* On short arrays, the loop of Subsequences keeps what SelectSeq of the standard
\* module keeps.
SelectedReference ==
    \A n \in 0..6 : \A s \in [1..n -> {a, b, Other}] :
        Selected(s, {i \in DOMAIN s : s[i] # Other}) = SelectSeq(s, LAMBDA e : e # Other)

ASSUME SelectedIsSelectSeq == SelectedReference
=============================================================================
