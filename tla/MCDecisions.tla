----------------------------- MODULE MCDecisions -----------------------------
(***************************************************************************)
(* The setups of MCCampaign and, in behaviours of their own so that one    *)
(* run checks them side by side, the founder's decisions on the ICP.       *)
(***************************************************************************)
EXTENDS MCCampaign

CONSTANTS MaxProposals, Process, Decider, Saver, Text, First, MaxDeaths

VARIABLES icp, proposal, intent, clock, lock, task, copy, draft, writer, stolen, deaths

icpVars == <<icp, proposal, intent, clock, lock, task, copy, draft, writer, stolen, deaths>>

Icp == INSTANCE IcpDecision WITH row <- proposal, faults <- deaths, MaxFaults <- MaxDeaths

ASSUME IcpAssumption == Icp!IcpAssumption

\* The model proposes the second text and then the third; a save brings back
\* what it read or puts the third in by hand; nothing follows a theft.
IcpWithin ==
    /\ ~stolen
    /\ \A p \in Icp!Proposal : proposal'[p].status # "none"
                               => proposal'[p].proposed = <<"b", "c">>[p]
    /\ \A a \in Saver : task[a] = Icp!Idle /\ task'[a].op = "save"
                        => task'[a].value \in {copy[a], "c"}
    /\ draft' \notin {draft, "none"} => proposal'[MaxProposals].status = "none"

BothInit ==
    /\ Init /\ Icp!Init
    /\ setup \in {"first", "whole", "icp"}

BothNext ==
    /\ UNCHANGED setup
    /\ IF setup = "icp"
       THEN Icp!Next /\ IcpWithin /\ UNCHANGED vars
       ELSE Next /\ Within' /\ UNCHANGED icpVars

\* A campaign begins at rest: no fair action of it is enabled beside a decision.
BothSpec == BothInit /\ [][BothNext]_<<vars, icpVars, setup>> /\ Fairness

\* What a decision wrote into the file is on record, whoever died in between.
WrittenIsOnRecord == Icp!WrittenIsOnRecord

\* A decision replaces only the ICP it was made about.
DecisionReplacesItsOwn == Icp!DecisionReplacesItsOwn
=============================================================================
