------------------------------ MODULE MCSettles ------------------------------
(***************************************************************************)
(* What is unknown or under way comes to an end: a /run of a play, a       *)
(* letter and an email, in behaviours of their own so that one run checks  *)
(* them side by side.                                                      *)
(***************************************************************************)
EXTENDS DirectMail

CONSTANTS Targets, Manual, Crew

VARIABLES row, age, pc, job, prior, net, accepted, sent, posted, view,
          record, signal, live, phase, todo, work, verdict, told, sentRows, alive,
          setup  \* what a behaviour is about: an email, a letter, edits of one, a run

playVars == <<record, signal, live, phase, todo, work, verdict, told, sentRows, alive>>
emailVars == <<row, age, pc, job, prior, net, accepted, sent, posted, view>>

\* One email, through Gmail, sent at most twice.
Email == INSTANCE OutboundSend WITH
             Key <- {"k"}, Worker <- {"w"}, Sweeper <- {"scheduler"},
             Identity <- {"gm"}, Content <- {"c"}, Address <- {"a"},
             TransportOf <- [i \in {"gm"} |-> "gmail"],
             KeepsSentCopy <- [i \in {"gm"} |-> FALSE],
             Route <- [k \in {"k"} |-> {"gm"}], Recipients <- [k \in {"k"} |-> {"a"}],
             Threaded <- {"c"}, MaxAttempts <- 2, NetBound <- 2, CallBound <- 2,
             receipts <- posted

Play == INSTANCE PlayRun

\* A run of old, in the behaviours that are not about one.
NoRun ==
    /\ record = [status |-> "done", reason |-> "none", emails |-> {}] /\ signal = "none"
    /\ live = FALSE /\ phase = "ended" /\ todo = {} /\ work = [w \in Crew |-> Play!Over]
    /\ verdict = "none" /\ told = {} /\ sentRows = {} /\ alive = TRUE

\* A letter is quoted once and never edited, the CLI only cancels it, and
\* things go wrong; or it is edited and quoted again, with nothing that goes
\* wrong, no sweep and no order that changes.
Within ==
    IF setup = "letter"
    THEN /\ keys' <= 1 /\ address' = address /\ (Row => piece' # NoPiece)
         /\ task'["cli"].op \in {"none", "cancel"} /\ task'["server"].op # "refresh"
    ELSE /\ task'["sweep"] = Idle /\ faults' = 0
         /\ \A k \in Key : ~orders'[k].paid /\ orders'[k].open = orders'[k].made

\* The sweep is fair, so no behaviour with edits and an order is: those are
\* there for the invariants.
SetupInit ==
    /\ Init /\ Email!Init
    /\ \/ setup \in {"email", "letter", "edits"} /\ NoRun
       \/ setup = "play" /\ Play!Init

SetupNext ==
    /\ UNCHANGED setup
    /\ CASE setup = "email" -> Email!Next /\ UNCHANGED <<vars, playVars>>
         [] setup = "play"  -> Play!Next /\ UNCHANGED <<vars, emailVars>>
         [] OTHER           -> Next /\ Within /\ UNCHANGED <<playVars, emailVars>>

SetupSpec ==
    /\ SetupInit /\ [][SetupNext]_<<vars, playVars, emailVars, setup>>
    /\ Fairness /\ Play!Fairness /\ Email!Fairness

\* Of a run that ended every email is on its row, unless it was stopped in vain.
ListIsComplete == Play!ListIsComplete

\* A run that reads cancelled starts no email any more.
CancelledSendsNoMore == Play!CancelledSendsNoMore

\* A run ends, whoever throws, stops or dies.
RunEnds == Play!RunEnds

\* An unknown outcome does not stay unknown: the confirm sweep settles it.
UncertainSettles == Email!UncertainSettles

\* A submitted email is confirmed or flagged in the end.
SubmittedSettles == Email!SubmittedSettles
=============================================================================
