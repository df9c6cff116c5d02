------------------------------ MODULE MCReplySend ------------------------------
(* Who uses the composer in TLC's runs of ReplySend.                        *)
EXTENDS ReplySend

CONSTANT a

\* Two windows answer an email, one answers on LinkedIn.
OneOnLinkedIn == channel = "linkedin" => \A w \in Window \ {a} : UNCHANGED <<view[w], mint[w]>>

MCSpec == Init /\ [][Next /\ OneOnLinkedIn]_vars /\ Fairness
=============================================================================
