----------------------------- MODULE MCSchedule -----------------------------
(***************************************************************************)
(* Module Schedule for TLC: the negative values, which a configuration     *)
(* file cannot write.                                                      *)
(***************************************************************************)
EXTENDS Schedule

\* Levels that raise a priority, and that make one 0 or negative.
MCLevels == {2, -4}

MCMinPrio == -1
=============================================================================
