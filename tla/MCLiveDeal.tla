----------------------------- MODULE MCLiveDeal -----------------------------
(* Small instances of LiveDeal: the amounts of live-plan.ts in tenths of a   *)
(* dollar, an impostor funding of one such unit.                             *)
EXTENDS LiveDeal
=============================================================================
