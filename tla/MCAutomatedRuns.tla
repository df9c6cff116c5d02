--------------------------- MODULE MCAutomatedRuns ---------------------------
(***************************************************************************)
(* Constant values for TLC's runs of AutomatedRuns, and two setups side by *)
(* side: prompt runs with more that goes wrong, and runs that outlive      *)
(* their claim with less.                                                  *)
(***************************************************************************)
EXTENDS AutomatedRuns

CONSTANT PerRun  \* what every trigger estimates for a run

MCEstimate == [n \in Trigger |-> PerRun]

VARIABLE setup

Within ==
    CASE setup = "prompt" -> \A r \in Run : Live(r) => run[r].age < OLD_RUN
      [] setup = "slow"   -> faults < MaxFaults

\* No fair action is bounded by Within: Fairness promises nothing it forbids.
SetupInit == Init /\ setup \in {"prompt", "slow"}
SetupSpec ==
    /\ SetupInit
    /\ [][Next /\ UNCHANGED setup /\ Within']_<<vars, setup>>
    /\ Fairness
=============================================================================
