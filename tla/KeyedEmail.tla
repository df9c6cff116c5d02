----------------------------- MODULE KeyedEmail -----------------------------
(***************************************************************************)
(* What the outbound ledger promises of each intended email, without       *)
(* workers, transports, clocks or sweeps: one message at most reaches the  *)
(* recipient, `sent` is only told of an email that is out, and a new       *)
(* attempt is only opened when none is out or the platform would replay    *)
(* it.  OutboundSend implements this (see its KE instance).                *)
(***************************************************************************)
CONSTANTS Key, Mail,
          Replayed  \* keys whose platform answers a repeat with the first send

VARIABLES out,   \* messages that reached a provider, per email
          told   \* what the ledger tells the next caller

Told == {"nothing", "trying", "unknown", "retry", "sent", "flagged"}

keyedVars == <<out, told>>

KeyedInit ==
    /\ out = [k \in Key |-> {}]
    /\ told = [k \in Key |-> "nothing"]

Tell(k, from, to) ==
    /\ told[k] \in from
    /\ told' = [told EXCEPT ![k] = to]
    /\ UNCHANGED out

Try(k)     == Tell(k, {"nothing", "retry"}, "trying")
Doubt(k)   == Tell(k, {"trying", "sent", "flagged"}, "unknown")
Flag(k)    == Tell(k, Told \ {"nothing", "flagged"}, "flagged")
Confirm(k) == out[k] # {} /\ Tell(k, {"trying", "unknown", "flagged"}, "sent")
Retry(k)   == /\ out[k] = {} \/ k \in Replayed
              /\ Tell(k, {"trying", "unknown", "flagged"}, "retry")

\* The message gets out, never while the ledger says `retry`.
Deliver(k, m) ==
    /\ told[k] \in {"trying", "unknown", "flagged"}
    /\ out[k] = {}
    /\ out' = [out EXCEPT ![k] = {m}]
    /\ UNCHANGED told

KeyedNext ==
    \E k \in Key : \/ Try(k) \/ Doubt(k) \/ Flag(k) \/ Confirm(k) \/ Retry(k)
                   \/ \E m \in Mail : Deliver(k, m)

KeyedSpec == KeyedInit /\ [][KeyedNext]_keyedVars
=============================================================================
