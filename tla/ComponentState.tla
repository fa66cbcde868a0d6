--------------------------- MODULE ComponentState ----------------------------
(***************************************************************************)
(* The variables that components of several groups have: which component   *)
(* the first state picked, and the names that more than one module uses.   *)
(***************************************************************************)
VARIABLES
    part,
    journal, proc, asked, calls, faults, authority, records, call, pc, events, now, run
=============================================================================
