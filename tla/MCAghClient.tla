---------------------------- MODULE MCAghClient ----------------------------
(* The client of agh.c on its own: a content that enables the protection, and *)
(* the document without one that a broken server may send.                   *)
EXTENDS AghClientProps

CONSTANT d1

const_one == {d1}
=============================================================================
