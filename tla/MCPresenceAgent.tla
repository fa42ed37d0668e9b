-------------------------- MODULE MCPresenceAgent --------------------------
(***************************************************************************)
(* Model checking PresenceAgent.  Each .cfg picks one of these budgets of  *)
(* transport opens; the daily host's own is 4.                             *)
(***************************************************************************)
EXTENDS PresenceAgent

MCAttemptLimits == {2, 4}
=============================================================================
