-------------------------- MODULE MCOutboundSetups --------------------------
(***************************************************************************)
(* OutboundSend under three setups.  A setup, chosen in the initial state, *)
(* says which of the emails are sent in a behaviour, so that one run       *)
(* checks the setups side by side instead of their product.                *)
(***************************************************************************)
EXTENDS MCOutboundSend

VARIABLE setup

Setups == {"threaded", "twins", "oneshot"}

Sends(k) ==
    CASE setup = "threaded" -> k = k1 /\ row[k].attempts <= 3
      [] setup = "twins"    -> \/ k = k2 /\ row[k].attempts <= 2
                               \/ k = k3 /\ row[k].attempts <= 1
      [] setup = "oneshot"  -> k = k4

\* The emails a setup sends and how often; the twins carry one draft, are
\* sent by one worker at a time and only one is ever retried.
Within ==
    /\ \A k \in Key : row[k].status # "absent" => Sends(k)
    /\ setup = "twins" =>
          /\ \A k \in Key : row[k].content = NoRow.content
          /\ Cardinality({w \in Worker : pc[w] # "idle"}) <= 1

SetupInit == Init /\ setup \in Setups
SetupSpec ==
    /\ SetupInit
    /\ [][Next /\ UNCHANGED setup /\ Within']_<<vars, setup>>
=============================================================================
