------------------------------- MODULE Policy -------------------------------
(***************************************************************************)
(* The pure desired-state calculation of package policy:                   *)
(*                                                                         *)
(*   prevent_sleep = power_allowed AND (inside a window OR a guard active) *)
(*                                                                         *)
(* The input says whether a window contains the time, whether a process    *)
(* guard matches a running process, whether the machine is on AC power and *)
(* whether the configuration requires that.  The reason code reported with *)
(* the decision is left out.                                               *)
(***************************************************************************)

PolicyInput == [inside : BOOLEAN, guard : BOOLEAN, onAC : BOOLEAN,
                requireAC : BOOLEAN]

PowerAllowed(in) == in.onAC \/ ~in.requireAC

Wants(in) == in.inside \/ in.guard

\* policy.Evaluate
PreventSleep(in) == Wants(in) /\ PowerAllowed(in)
=============================================================================
