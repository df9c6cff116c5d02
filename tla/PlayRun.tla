------------------------------- MODULE PlayRun -------------------------------
(***************************************************************************)
(* One /run of a play: a row of `runs`, the handler that streams it, the   *)
(* workers that draft and send its targets, and the ways it is stopped.    *)
(* The first worker that throws rejects the batch: the handler writes the  *)
(* row and ends, while the other workers finish what they are at, and go   *)
(* on when nothing was aborted.  Stop and the handler both write the row.  *)
(***************************************************************************)
EXTENDS Naturals, FiniteSetsExt

CONSTANTS Targets,  \* how many people the run is about
          Manual,   \* those typed in, which have no queue row
          Crew      \* the workers of parallelMap

Target == 1 .. Targets

VARIABLES record,   \* the row of `runs`
          signal,   \* who aborted the run's AbortController first
          live,     \* the controller is registered
          phase,    \* of the handler
          todo,     \* targets behind the cursor
          work,     \* what each worker is at
          verdict,  \* how the batch ended: the first throw, if any
          told,     \* emails the workers reported, `sentEmails`
          sentRows, \* queue rows marked sent
          alive     \* the server runs

vars == <<record, signal, live, phase, todo, work, verdict, told, sentRows, alive>>

None == "none"
Free == [at |-> "free", target |-> 0]
Over == [at |-> "over", target |-> 0]

\* The client may be gone before the stream starts.
Init ==
    /\ record = [status |-> "running", reason |-> None, emails |-> {}]
    /\ signal \in {None, "client"} /\ live = TRUE
    /\ phase = "begun" /\ todo = Target
    /\ work = [w \in Crew |-> Free]
    /\ verdict = None
    /\ told = {} /\ sentRows = {}
    /\ alive = TRUE

Aborted == signal # None

-----------------------------------------------------------------------------
(* The row of `runs`.                                                      *)

\* setRunSentEmails, whatever the status.
Listing(emails) == [record EXCEPT !.emails = emails]

\* Mutant: the emails of a run that was stopped already are not listed.
CancelledOnce(reason, emails) ==
    IF record.status = "running"
    THEN [status |-> "cancelled", reason |-> reason, emails |-> emails]
    ELSE record

\* cancelRun: the emails in any status, the rest only while it runs.
Cancelled(reason, emails) ==
    IF record.status = "running"
    THEN [status |-> "cancelled", reason |-> reason, emails |-> emails]
    ELSE Listing(emails)

\* markRunComplete, only while it runs.
Completed(emails) ==
    IF record.status = "running"
    THEN [record EXCEPT !.status = "done", !.emails = emails]
    ELSE record

-----------------------------------------------------------------------------
(* The handler.                                                            *)

\* Typed-in targets are verified first, if the run is not aborted by then.
Begin ==
    /\ alive /\ phase = "begun"
    /\ IF Manual # {} /\ Aborted
       THEN verdict' = "cancelled" /\ phase' = "settled"
       ELSE verdict' = verdict /\ phase' = IF Manual = {} THEN "working" ELSE "verifying"
    /\ UNCHANGED <<record, signal, live, todo, work, told, sentRows, alive>>

\* Undeliverable targets are dropped.  With nobody left no play is dispatched.
Verified(dropped) ==
    /\ alive /\ phase = "verifying"
    /\ todo' = Target \ dropped
    /\ IF todo' = {}
       THEN verdict' = (IF Aborted THEN "cancelled" ELSE None) /\ phase' = "settled"
       ELSE verdict' = verdict /\ phase' = "working"
    /\ UNCHANGED <<record, signal, live, work, told, sentRows, alive>>

\* The batch rejected, or every worker is through.  The catch and the finally
\* of the handler: queue rows, the row of the run, the controller.
Finish ==
    /\ alive
    /\ \/ phase = "settled"
       \/ phase = "working" /\ verdict # None
       \/ phase = "working" /\ todo = {} /\ \A w \in Crew : work[w].at = "free"
    /\ sentRows' = told \ Manual
    /\ record' = IF verdict = "cancelled" THEN Cancelled(signal, told) ELSE Completed(told)
    /\ live' = FALSE /\ phase' = "ended"
    /\ UNCHANGED <<signal, todo, work, verdict, told, alive>>

-----------------------------------------------------------------------------
(* The workers, also after the handler ended.                              *)

Becomes(w, job) == work' = [work EXCEPT ![w] = job]

\* The promise of this worker rejects; the first one to decides.
Throws(w, why) ==
    /\ Becomes(w, Over)
    /\ verdict' = IF verdict = None THEN why ELSE verdict

\* The next target, behind the guard before its paid preparation.
Pull(w) ==
    /\ alive /\ phase \in {"working", "ended"}
    /\ work[w].at = "free" /\ todo # {}
    /\ todo' = todo \ {Min(todo)}
    /\ IF Aborted THEN Throws(w, "cancelled")
       ELSE Becomes(w, [at |-> "drafting", target |-> Min(todo)]) /\ verdict' = verdict
    /\ UNCHANGED <<record, signal, live, phase, told, sentRows, alive>>

\* The guard before the send.
Send(w) ==
    /\ alive /\ work[w].at = "drafting"
    /\ IF Aborted THEN Throws(w, "cancelled")
       ELSE work' = [work EXCEPT ![w].at = "sending"] /\ verdict' = verdict
    /\ UNCHANGED <<record, signal, live, phase, todo, told, sentRows, alive>>

\* Held by lint or a gate, or failed: reported as not sent.
NotSent(w) ==
    /\ alive /\ work[w].at \in {"drafting", "sending"}
    /\ Becomes(w, Free)
    /\ UNCHANGED <<record, signal, live, phase, todo, verdict, told, sentRows, alive>>

\* The day's caps are full: a SendDeferredError is passed on.
Deferred(w) ==
    /\ alive /\ work[w].at = "sending"
    /\ Throws(w, "failed")
    /\ UNCHANGED <<record, signal, live, phase, todo, told, sentRows, alive>>

\* The email left and the progress callback runs; once the terminal write has
\* happened it writes the list again.
Report(w) ==
    /\ alive /\ work[w].at = "sending"
    /\ told' = told \cup {work[w].target}
    /\ record' = IF phase = "ended" THEN Listing(told') ELSE record
    /\ Becomes(w, Free)
    /\ UNCHANGED <<signal, live, phase, todo, verdict, sentRows, alive>>

-----------------------------------------------------------------------------
(* Stops, deaths and boots.                                                *)

\* The tab is closed.
Disconnect ==
    /\ alive /\ phase # "ended" /\ ~Aborted
    /\ signal' = "client"
    /\ UNCHANGED <<record, live, phase, todo, work, verdict, told, sentRows, alive>>

\* Mutant: Stop writes the row and leaves the workers alone.
StopRowOnly ==
    /\ alive /\ record.status = "running"
    /\ record' = [record EXCEPT !.status = "cancelled", !.reason = "user"]
    /\ UNCHANGED <<signal, live, phase, todo, work, verdict, told, sentRows, alive>>

\* POST /api/run/:runId/cancel: abort what is live, then the row, whose
\* reason is this one.
Stop ==
    /\ alive /\ record.status = "running"
    /\ signal' = IF live /\ ~Aborted THEN "user" ELSE signal
    /\ record' = [record EXCEPT !.status = "cancelled", !.reason = "user"]
    /\ UNCHANGED <<live, phase, todo, work, verdict, told, sentRows, alive>>

Die ==
    /\ alive
    /\ alive' = FALSE /\ live' = FALSE
    /\ work' = [w \in Crew |-> Over]
    /\ UNCHANGED <<record, signal, phase, todo, verdict, told, sentRows>>

\* Mutant: runs are not swept.
BootOnly ==
    /\ ~alive /\ alive' = TRUE /\ phase' = "gone"
    /\ UNCHANGED <<record, signal, live, todo, work, verdict, told, sentRows>>

\* sweepStaleRuns: what still reads running was interrupted.
Boot ==
    /\ ~alive /\ alive' = TRUE /\ phase' = "gone"
    /\ record' = IF record.status = "running" THEN [record EXCEPT !.status = "interrupted"]
                 ELSE record
    /\ UNCHANGED <<signal, live, todo, work, verdict, told, sentRows>>

Step(w) == Pull(w) \/ Send(w) \/ NotSent(w) \/ Deferred(w) \/ Report(w)

Next ==
    \/ Begin \/ Finish
    \/ \E dropped \in SUBSET Manual : Verified(dropped)
    \/ \E w \in Crew : Step(w)
    \/ Disconnect \/ Stop \/ Die \/ Boot

\* Calls end, promises settle, and a server that died is started again.
Fairness ==
    /\ WF_vars(Begin) /\ WF_vars(Finish) /\ WF_vars(Boot)
    /\ WF_vars(\E dropped \in SUBSET Manual : Verified(dropped))
    /\ \A w \in Crew : WF_vars(Step(w))

Spec == Init /\ [][Next]_vars

-----------------------------------------------------------------------------
(* Properties.                                                             *)

\* Every variable keeps its type.
TypeOK ==
    /\ record \in [status : {"running", "done", "cancelled", "interrupted"},
                   reason : {None, "client", "user"}, emails : SUBSET Target]
    /\ signal \in {None, "client", "user"}
    /\ live \in BOOLEAN /\ alive \in BOOLEAN
    /\ phase \in {"begun", "verifying", "working", "settled", "ended", "gone"}
    /\ todo \subseteq Target
    /\ work \in [Crew -> [at : {"free", "drafting", "sending", "over"}, target : 0 .. Targets]]
    /\ verdict \in {None, "cancelled", "failed"}
    /\ told \subseteq Target /\ sentRows \subseteq Target

\* Stop was too late to be seen by any worker: the batch ended otherwise.
StoppedInVain == record.reason = "user" /\ verdict # "cancelled"

\* Of a run that ended every email is on its row, also one reported after the
\* row was final (`/cadences?sinceRun` reads it), whichever of Stop and the
\* handler wrote the row first; but for a run that was stopped in vain.
ListIsComplete == phase = "ended" /\ ~StoppedInVain => told \subseteq record.emails

\* An email that left takes its queue row out of the approved pool once the
\* run ended ("or every drain re-loads the same row forever").
SentLeavesPool == phase = "ended" => told \ Manual \subseteq sentRows

\* A run that reads cancelled starts no email any more, whichever of Stop and
\* the handler wrote the row and whoever is still at work.
CancelledSendsNoMore ==
    [][\A w \in Crew :
          record.status = "cancelled" /\ work'[w].at = "sending"
          => work[w].at = "sending"]_vars

\* A run ends, whoever throws, stops or dies.
RunEnds == <>(record.status # "running")
=============================================================================
