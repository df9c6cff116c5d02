-------------------------- MODULE MCLinkedInInvite --------------------------
(***************************************************************************)
(* Instances: two workspaces that invite one profile, and one workspace    *)
(* that invites two, with a share of one invite a day.                     *)
(***************************************************************************)
EXTENDS LinkedInInvite

CONSTANTS Setups

VARIABLE setup  \* which rows send, and how often things go wrong

MCRow == {"a", "b", "c"}
MCProfileOf == [r \in MCRow |-> IF r = "c" THEN "q" ELSE "p"]
MCWorkspaceOf == [r \in MCRow |-> IF r = "b" THEN "w2" ELSE "w1"]
MCSetups == {"rivals", "share"}
MCSweep == {"sweep"}

Rows == IF setup = "share" THEN {"a", "c"} ELSE {"a", "b"}

Begins(w, phase) == At(w, "idle") /\ task'[w].at = phase

\* Within the setup: one worker of the two sweeps and the other reconciles, and
\* both send, one row as two; what is behind a theft is the business of
\* linkedin_stale only.  The rivals retry, reconcile and lose claims; the share
\* sees days pass and slots lapse, no row tries twice, and one sends the second.
Within ==
    /\ stolen = {}
    /\ \A w \in Worker : Begins(w, "claimed") => task'[w].key[1] \in Rows
    /\ ~Begins("u", "asked") /\ ~Begins("v", "listed")
    /\ setup # "rivals" => ~Begins("u", "listed")
    /\ IF setup # "share"
       THEN attempt'["b"] = 0 /\ ~NewDay /\ \A i \in DOMAIN slots : ~LapseSlot(i)
       ELSE /\ \A w \in Worker : Begins(w, "claimed") => task'[w].key[2] = 0
            /\ Begins("u", "claimed") => task'["u"].key[1] = "a"
            /\ \A p \in Profile : ~Lapse(p)

SetupInit == Init /\ setup \in Setups
SetupSpec == SetupInit /\ [][UNCHANGED setup /\ Next /\ Within]_<<vars, setup>>
=============================================================================
