----------------------------- MODULE MCAdmission -----------------------------
(* Three calls of three Agents on one source with limit 1 or 2, MaxActive 2   *)
(* and MaxPerAgent 1: below the number of calls, and each of the three limits *)
(* the only binding one in some state.  No symmetry, because liveness is      *)
(* checked as well.                                                           *)
EXTENDS Admission
=============================================================================
