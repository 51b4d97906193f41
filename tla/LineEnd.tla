------------------------------ MODULE LineEnd -------------------------------
(* The byte 0x0a: state.nas ends a line at it, parse.nas expects it last. *)
CONSTANT LF
=============================================================================
