------------------------------ MODULE MCCampaign ------------------------------
(***************************************************************************)
(* Two setups of Campaign for TLC, side by side: a first follow-up with    *)
(* everything that can go wrong, and a whole sequence that nobody answers, *)
(* any step of which may have nothing to send.                             *)
(***************************************************************************)
EXTENDS Campaign

VARIABLE setup

Within ==
    CASE setup = "first" -> cad.unsent = {} /\ \A w \in Worker : job[w].step # 2
      [] setup = "whole" -> reply = "none" /\ faults = 0

\* No step is begun past Within; what Fairness promises is finished inside it.
SetupInit == Init /\ setup \in {"first", "whole"}
SetupSpec ==
    /\ SetupInit
    /\ [][Next /\ UNCHANGED setup /\ Within']_<<vars, setup>>
    /\ Fairness
=============================================================================
