--------------------------- MODULE MCOutboundSend ---------------------------
(***************************************************************************)
(* Constant values and symmetry for TLC's runs of OutboundSend.            *)
(***************************************************************************)
EXTENDS OutboundSend, TLC

CONSTANTS gm, sm, os, im,  \* Gmail; SMTP that files Sent; OneShot; SMTP that does not
          k1, k2, k3, k4

MCTransportOf ==
    [i \in Identity |-> IF i = gm THEN "gmail" ELSE IF i = os THEN "oneshot" ELSE "smtp"]
MCKeepsSentCopy == [i \in Identity |-> i = sm]

\* k1 goes out from any mailbox, as a reply or not; k2 and k3 are twins in one
\* Gmail account; k4 goes through the OneShot platform.
MCRoutes ==
    [k \in Key |-> CASE k = k1 -> Identity \ {os}
                     [] k \in {k2, k3} -> {gm}
                     [] k = k4 -> {os}]
MCRecipients == [k \in Key |-> IF k = k4 THEN Address ELSE {CHOOSE a \in Address : TRUE}]

\* Every email may go through every identity of the run, to every address.
MCOneRoute == [k \in Key |-> Identity]
MCAnyRecipient == [k \in Key |-> Address]

WorkerSymmetry == Permutations(Worker)
=============================================================================
