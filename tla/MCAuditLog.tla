----------------------------- MODULE MCAuditLog -----------------------------
(* AuditLog on a ring of four slots: it wraps after four events, and two   *)
(* functions are enough for an event shown out of its place to differ.     *)
(* The screens: one that cuts the list, one that has just the room for the *)
(* log, and one higher than the ring.                                      *)
EXTENDS AuditLog

CONSTANTS draw, fetch

MCFunc == {draw, fetch}
MCHeights == {2, 3, 5}
=============================================================================
