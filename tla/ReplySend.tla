------------------------------- MODULE ReplySend -------------------------------
(***************************************************************************)
(* One reply of the founder to one conversation.  Browser windows show the *)
(* conversation as it was when they last asked; the composer's record of   *)
(* the latest send and the draft's revision are in reply-review.sqlite;    *)
(* the send itself is made by a request handler, over the mailbox's SMTP   *)
(* or through OneShot's LinkedIn jobs.  What became of a send is learnt    *)
(* from four places that know different things at different times: the     *)
(* handler, the mailbox poll, the confirm sweep and the composer's check.  *)
(***************************************************************************)
EXTENDS Naturals, FiniteSets

CONSTANTS Window,     \* browser windows on the conversation
          Channel,    \* the channels to check: "gmail", "smtp", "linkedin"
          MaxSends    \* bound of this model on send ids

ASSUME ReplyAssumption ==
    /\ Channel \subseteq {"gmail", "smtp", "linkedin"}
    /\ MaxSends \in Nat \ {0}

Id == 1 .. MaxSends
NoId == 0
Caller == {"route", "check"}

VARIABLES channel,    \* "gmail" and "smtp": a mailbox whose server files Sent
                      \* copies itself, and one whose server does not
          current,    \* the windows that hold the draft's latest revision
          send,       \* review_threads.send, the latest send
          begun,      \* review_sends: every id a send was begun under
          view, mint, \* what a window shows, and its sendId.current
          task,       \* the handler of each id
          row, age,   \* outbound_sends, and how long ago it was attempted
          wire,       \* requests on their way to the mail server or OneShot
          out,        \* messages accepted for the other person
          copy,       \* messages in the mailbox's Sent folder
          stored,     \* replies put into mailbox_messages after submission
          job, call,  \* OneShot's LinkedIn jobs, and our calls about them
          reason      \* why a send that is out may be shown as failed

mailVars == <<row, age, copy, stored>>
windowVars == <<view, mint>>
draftVars == <<current, begun>>
vars == <<channel, draftVars, send, windowVars, task, mailVars, wire, out, job, call, reason>>

Unresolved == {"pending", "uncertain"}
RowStatus ==
    {"absent", "pending", "submitted", "uncertain", "failed", "confirmed", "not_found"}

\* same: the draft is still the generation this send took its text from.
\* req: OneShot's request id is known.
Send == [id : Id \cup {NoId}, status : {"none", "sent", "failed"} \cup Unresolved,
         same : BOOLEAN, req : BOOLEAN]
NoSend == [id |-> NoId, status |-> "none", same |-> FALSE, req |-> FALSE]
View == [id : Id \cup {NoId}, status : {"none", "sent", "failed"} \cup Unresolved]
NoCall == [id |-> NoId]

Shown == [id |-> send.id, status |-> send.status]

Init ==
    /\ channel \in Channel
    /\ current = Window /\ send = NoSend /\ begun = {}
    /\ view = [w \in Window |-> Shown] /\ mint = [w \in Window |-> NoId]
    /\ task = [i \in Id |-> "none"]
    /\ row = [i \in Id |-> "absent"] /\ age = [i \in Id |-> 0]
    /\ wire = {} /\ out = {} /\ copy = {} /\ stored = {}
    /\ job = [i \in Id |-> "none"] /\ call = [x \in Caller |-> NoCall]
    /\ reason = [i \in Id |-> "none"]

-----------------------------------------------------------------------------
(* The composer's record.                                                  *)

\* updateSend: an outcome of the latest send is written over whatever was
\* there.  A sent one empties the draft, which gives it a new revision.
UpdateSend(i, status, req) ==
    LET latest == send.id = i
        empties == latest /\ status = "sent" /\ send.same
    IN  /\ send' = IF latest THEN [send EXCEPT !.status = status, !.req = req] ELSE send
        /\ current' = IF empties THEN {} ELSE current

\* The page asks for the conversation again; a settled send ends its id.
Refresh(w) ==
    /\ view' = [view EXCEPT ![w] = Shown]
    /\ mint' = [mint EXCEPT ![w] = IF send.status \in {"sent", "failed"} THEN NoId ELSE @]
    /\ current' = current \cup {w}
    /\ UNCHANGED <<channel, begun, send, task, mailVars, wire, out, job, call, reason>>

\* saveDrafts: refused under an unresolved send and from an old revision.  The
\* draft may be a new generation.
SaveDrafts(w) ==
    /\ send.status \notin Unresolved
    /\ w \in current /\ current' = {w}
    /\ \E same \in BOOLEAN : send' = [send EXCEPT !.same = @ /\ same]
    /\ UNCHANGED <<channel, begun, windowVars, task, mailVars, wire, out, job,
                   call, reason>>

Minted == (begun \cup {mint[w] : w \in Window}) \ {NoId}

\* The id a press of Send carries: the window's, or a new one.
PressedId(w, i) == i = IF mint[w] # NoId THEN mint[w] ELSE Cardinality(Minted) + 1

\* Mutant: the revision the window saw is not compared.
BeginAllowedAtAnyRevision(w, i) ==
    /\ send.id # i /\ i \notin begun
    /\ send.status \notin Unresolved

\* beginSend's refusals, in one IMMEDIATE transaction with what follows.
BeginAllowed(w, i) ==
    /\ send.id # i /\ i \notin begun
    /\ send.status \notin Unresolved
    /\ w \in current

\* Send is pressed in a window that shows no unresolved send.
BeginSend(w, i) ==
    /\ view[w].status \notin Unresolved /\ PressedId(w, i)
    /\ BeginAllowed(w, i)
    /\ send' = [id |-> i, status |-> "pending", same |-> TRUE, req |-> FALSE]
    /\ begun' = begun \cup {i}
    /\ mint' = [mint EXCEPT ![w] = i]
    /\ task' = [task EXCEPT ![i] = "begun"]
    /\ UNCHANGED <<channel, current, view, mailVars, wire, out, job, call, reason>>

\* The press is refused: the window keeps the id for its next attempt.
BeginRefused(w, i) ==
    /\ view[w].status \notin Unresolved /\ PressedId(w, i)
    /\ ~BeginAllowed(w, i)
    /\ mint' = [mint EXCEPT ![w] = i]
    /\ UNCHANGED <<channel, draftVars, send, view, task, mailVars, wire, out,
                   job, call, reason>>

-----------------------------------------------------------------------------
(* An email's handler: replySendRoute over sendMailboxReply.               *)

Step(i, from, to) == task[i] = from /\ task' = [task EXCEPT ![i] = to]
Mark(i, status) == row' = [row EXCEPT ![i] = status]

\* The request fails before the claim: no mailbox connection, a message that
\* is gone, another reply in flight.  Its wording decides what is shown.
FailBeforeClaim(i) ==
    /\ channel # "linkedin" /\ Step(i, "begun", "over")
    /\ \E status \in {"failed", "uncertain"} : UpdateSend(i, status, FALSE)
    /\ UNCHANGED <<channel, begun, windowVars, mailVars, wire, out, job, call, reason>>

\* claimReply, and the request goes out.
ClaimReply(i) ==
    /\ channel # "linkedin" /\ Step(i, "begun", "calling")
    /\ row[i] = "absent"
    /\ \A j \in Id : row[j] \notin {"pending", "uncertain"}
    /\ Mark(i, "pending")
    /\ wire' = wire \cup {i}
    /\ UNCHANGED <<channel, draftVars, send, windowVars, age, copy, stored,
                   out, job, call, reason>>

\* SMTP rejects the message, or is never handed it.
FailDefinite(i) ==
    /\ channel # "linkedin" /\ Step(i, "calling", "over")
    /\ i \notin out
    /\ wire' = wire \ {i}
    /\ Mark(i, "failed") /\ UpdateSend(i, "failed", FALSE)
    /\ UNCHANGED <<channel, begun, windowVars, age, copy, stored, out, job, call, reason>>

\* The connection drops after DATA.
FailUnknown(i) ==
    /\ channel # "linkedin" /\ Step(i, "calling", "over")
    /\ Mark(i, "uncertain") /\ UpdateSend(i, "uncertain", FALSE)
    /\ UNCHANGED <<channel, begun, windowVars, age, copy, stored, wire, out,
                   job, call, reason>>

\* SMTP took it: the message is stored and the row marked.
Submitted(i) ==
    /\ channel # "linkedin" /\ Step(i, "calling", "filing")
    /\ i \in out
    /\ stored' = stored \cup {i} /\ Mark(i, "submitted")
    /\ UNCHANGED <<channel, draftVars, send, windowVars, age, copy, wire, out,
                   job, call, reason>>

\* One of those writes fails: the handler takes any error but a submit error
\* for a definite failure.
Unsaved(i) ==
    /\ channel # "linkedin" /\ Step(i, "calling", "over")
    /\ i \in out
    /\ stored' \in {stored, stored \cup {i}}
    /\ Mark(i, "failed") /\ UpdateSend(i, "failed", FALSE)
    /\ reason' = [reason EXCEPT ![i] = "unsaved"]
    /\ UNCHANGED <<channel, begun, windowVars, age, copy, wire, out, job, call>>

\* saveSentCopy appends where the server files no copy itself.
AppendCopy(i) ==
    /\ channel = "smtp" /\ task[i] = "filing" /\ i \notin copy
    /\ copy' = copy \cup {i}
    /\ UNCHANGED <<channel, draftVars, send, windowVars, task, row, age,
                   stored, wire, out, job, call, reason>>

\* The receipt and the answer; "uncertain" when one of them fails.
Answered(i) ==
    /\ Step(i, "filing", "over")
    /\ \E status \in {"sent", "uncertain"} : UpdateSend(i, status, FALSE)
    /\ UNCHANGED <<channel, begun, windowVars, mailVars, wire, out, job, call, reason>>

-----------------------------------------------------------------------------
(* What tells an email's outcome later.                                    *)

\* syncIdentity: a reply whose message the store or Sent holds is confirmed.
Poll(i) ==
    /\ row[i] \in {"submitted", "uncertain"} \/ (row[i] = "pending" /\ age[i] > 0)
    /\ i \in stored \cup copy
    /\ stored' = stored \cup {i} /\ Mark(i, "confirmed")
    /\ UNCHANGED <<channel, draftVars, send, windowVars, task, age, copy, wire,
                   out, job, call, reason>>

\* Mutant: an empty Sent folder proves nothing was sent, on any server.
VerdictWithoutEvidence(i) ==
    CASE i \in copy -> "confirmed"
      [] i \notin copy /\ row[i] = "uncertain" -> "failed"
      [] OTHER -> "not_found"

\* The confirm sweep: missing from Sent proves "not sent" only where the
\* server files its own copy.
Verdict(i) ==
    CASE i \in copy -> "confirmed"
      [] i \notin copy /\ row[i] = "uncertain" /\ channel = "gmail" -> "failed"
      [] OTHER -> "not_found"

Sweep(i) ==
    /\ row[i] \in {"submitted", "uncertain"}
    /\ i \in copy \/ age[i] = 2
    /\ Mark(i, Verdict(i))
    /\ reason' = IF Verdict(i) = "not_found" THEN [reason EXCEPT ![i] = "warned"] ELSE reason
    /\ UNCHANGED <<channel, draftVars, send, windowVars, task, age, copy,
                   stored, wire, out, job, call>>

\* Mutant: a settled send that was never seen in Sent stays uncertain.
OutcomeKeepsChecking(i) ==
    CASE row[i] \in {"submitted", "confirmed"} -> "sent"
      [] row[i] = "failed" -> "failed"
      [] row[i] \in {"uncertain", "not_found"} -> "uncertain"
      [] OTHER -> send.status

\* mailboxReplyOutcome; a pending row, or none, tells the composer nothing.
Outcome(i) ==
    CASE row[i] \in {"submitted", "confirmed"} -> "sent"
      [] row[i] \in {"failed", "not_found"} -> "failed"
      [] row[i] = "uncertain" -> "uncertain"
      [] OTHER -> send.status

CheckEmail ==
    /\ channel # "linkedin" /\ send.status \in Unresolved
    /\ Outcome(send.id) # send.status
    /\ UpdateSend(send.id, Outcome(send.id), FALSE)
    /\ UNCHANGED <<channel, begun, windowVars, task, mailVars, wire, out, job,
                   call, reason>>

-----------------------------------------------------------------------------
(* LinkedIn: sendLinkedIn, by the route and, while unresolved, the check.  *)

\* Without a request id the reply is posted, under its id as key.
Ask(x, i, req) ==
    /\ call[x] = NoCall
    /\ call' = [call EXCEPT ![x] = [id |-> i, req |-> req]]
    /\ wire' = IF req THEN wire ELSE wire \cup {i}

PostReply(i) ==
    /\ channel = "linkedin" /\ Step(i, "begun", "over")
    /\ Ask("route", i, FALSE)
    /\ UNCHANGED <<channel, draftVars, send, windowVars, mailVars, out, job, reason>>

\* The check holds a lease, so that one asks at a time.
CheckLinkedIn ==
    /\ channel = "linkedin" /\ send.status \in Unresolved
    /\ Ask("check", send.id, send.req)
    /\ UNCHANGED <<channel, draftVars, send, windowVars, task, mailVars, out,
                   job, reason>>

\* Mutant: a job OneShot has queued counts as sent.
AnswerOfQueuedIsSent(i) ==
    CASE job[i] \in {"sent", "failed"} -> {job[i], "uncertain"}
      [] job[i] = "running" -> {"sent", "uncertain"}
      [] OTHER -> {"uncertain"}

\* What a call about a job may be answered: how it stands, or nothing.
AnswerOf(i) ==
    CASE job[i] \in {"sent", "failed"} -> {job[i], "uncertain"}
      [] job[i] = "running" -> Unresolved
      [] OTHER -> {"uncertain"}

Answer(x) ==
    LET i == call[x].id
    IN  /\ call[x] # NoCall
        /\ call' = [call EXCEPT ![x] = NoCall]
        /\ \E status \in AnswerOf(i) :
             UpdateSend(i, status, call[x].req \/ status # "uncertain")
        /\ UNCHANGED <<channel, begun, windowVars, task, mailVars, wire, out,
                       job, reason>>

\* knownFailure: OneShot refuses the call (a payment, a right, a rate limit).
\* The send counts as failed, though the other call may be making it, or a job
\* of it may run.
Refused(x) ==
    LET i == call[x].id
    IN  /\ call[x] # NoCall
        /\ call' = [call EXCEPT ![x] = NoCall]
        /\ wire' \in {wire, wire \ {i}}
        /\ UpdateSend(i, "failed", call[x].req)
        /\ reason' = IF \/ job[i] \in {"running", "sent"} \/ i \in wire'
                        \/ task[i] = "begun" \/ \E y \in Caller \ {x} : call[y] # NoCall
                     THEN [reason EXCEPT ![i] = "refused"] ELSE reason
        /\ UNCHANGED <<channel, begun, windowVars, task, mailVars, out, job>>

-----------------------------------------------------------------------------
(* The servers, the network, the clock and the death of the process.       *)

\* A mail server takes the message, and files it; OneShot starts one job a key.
Accept(i) ==
    /\ i \in wire /\ wire' = wire \ {i}
    /\ IF channel = "linkedin"
       THEN /\ job' = [job EXCEPT ![i] = IF @ = "none" THEN "running" ELSE @]
            /\ UNCHANGED <<out, copy>>
       ELSE /\ out' = out \cup {i}
            /\ copy' = IF channel = "gmail" THEN copy \cup {i} ELSE copy
            /\ UNCHANGED job
    /\ UNCHANGED <<channel, draftVars, send, windowVars, task, row, age,
                   stored, call, reason>>

Lose(i) ==
    /\ i \in wire /\ wire' = wire \ {i}
    /\ UNCHANGED <<channel, draftVars, send, windowVars, task, mailVars, out,
                   job, call, reason>>

JobEnds(i) ==
    /\ job[i] = "running"
    /\ \/ job' = [job EXCEPT ![i] = "sent"] /\ out' = out \cup {i}
       \/ job' = [job EXCEPT ![i] = "failed"] /\ UNCHANGED out
    /\ UNCHANGED <<channel, draftVars, send, windowVars, task, mailVars, wire,
                   call, reason>>

\* STALE_PENDING_MS, then UNCERTAIN_SETTLE_MS, after the attempt.  A call, its
\* request and its filing are over before the second.
Tick(i) ==
    /\ row[i] \in {"pending", "submitted", "uncertain"}
    /\ age[i] < 2
    /\ age[i] = 1 => task[i] = "over" /\ i \notin wire
    /\ age' = [age EXCEPT ![i] = @ + 1]
    /\ UNCHANGED <<channel, draftVars, send, windowVars, task, row, copy,
                   stored, wire, out, job, call, reason>>

Crash ==
    /\ \/ \E i \in Id : task[i] \in {"begun", "calling", "filing"}
       \/ \E x \in Caller : call[x] # NoCall
    /\ task' = [i \in Id |-> IF task[i] = "none" THEN "none" ELSE "over"]
    /\ call' = [x \in Caller |-> NoCall]
    /\ UNCHANGED <<channel, draftVars, send, windowVars, mailVars, wire, out,
                   job, reason>>

Handler(i) ==
    \/ FailBeforeClaim(i) \/ ClaimReply(i) \/ FailDefinite(i) \/ FailUnknown(i)
    \/ Submitted(i) \/ Unsaved(i) \/ Answered(i)

Next ==
    \/ \E w \in Window : \/ Refresh(w) \/ SaveDrafts(w)
                         \/ \E i \in Id : BeginSend(w, i) \/ BeginRefused(w, i)
    \/ \E i \in Id : \/ Handler(i) \/ AppendCopy(i) \/ PostReply(i)
                     \/ Poll(i) \/ Sweep(i) \/ Tick(i)
                     \/ Accept(i) \/ Lose(i) \/ JobEnds(i)
    \/ \E x \in Caller : Answer(x) \/ Refused(x)
    \/ CheckEmail \/ CheckLinkedIn \/ Crash

Spec == Init /\ [][Next]_vars

\* Handlers end their calls, messages arrive or are lost, time passes, and poll,
\* sweep and the open composer keep looking.
Fairness ==
    /\ \A i \in Id : /\ WF_vars(Handler(i)) /\ WF_vars(Accept(i) \/ Lose(i))
                     /\ WF_vars(Tick(i)) /\ WF_vars(Sweep(i)) /\ WF_vars(Poll(i))
    /\ WF_vars(CheckEmail)

FairSpec == Spec /\ Fairness

-----------------------------------------------------------------------------
(* Properties.                                                             *)

\* Every variable keeps its type.
TypeOK ==
    /\ channel \in Channel /\ current \subseteq Window
    /\ send \in Send /\ begun \subseteq Id
    /\ view \in [Window -> View] /\ mint \in [Window -> Id \cup {NoId}]
    /\ task \in [Id -> {"none", "begun", "calling", "filing", "over"}]
    /\ row \in [Id -> RowStatus] /\ age \in [Id -> 0 .. 2]
    /\ wire \subseteq Id /\ out \subseteq Id /\ copy \subseteq Id /\ stored \subseteq Id
    /\ job \in [Id -> {"none", "running", "sent", "failed"}]
    /\ call \in [Caller -> [id : Id, req : BOOLEAN] \cup {NoCall}]
    /\ reason \in [Id -> {"none", "unsaved", "warned", "refused"}]

\* Not out yet: a running job, or a request under a key OneShot does not have.
MayGetOut(i) == job[i] = "running" \/ (i \in wire /\ job[i] = "none")

\* A reply that is out, or may still get out, is shown as failed, which offers
\* Send again, for three reasons only: a write failed after the server took it,
\* the founder is told that nothing proves it unsent, or OneShot refused a call
\* about a reply that another call makes or made.
FailedIsExplained ==
    send.status = "failed" /\ (send.id \in out \/ MayGetOut(send.id))
        => reason[send.id] # "none"

\* A reply shown as sent is out, whoever found out.
SentIsOut == send.status = "sent" => send.id \in out

\* After a reply that was sent, the next one is begun from a window that
\* showed it as sent: no second window answers over the first.
SeenBeforeNext ==
    [][send'.id # send.id /\ send.status = "sent" =>
         \/ reason[send.id] # "none"
         \/ \E w \in Window : mint'[w] = send'.id /\ view[w].id = send.id
                                                  /\ view[w].status = "sent"]_vars

\* An email whose outcome the ledger does not hold as pending is settled in the
\* composer at last: Send is not blocked for ever.
RecordedSendsSettle ==
    \A i \in Id :
        (channel # "linkedin" /\ send.id = i /\ row[i] \notin {"absent", "pending"})
            ~> (send.id = i => send.status \in {"sent", "failed"})

\* The mailbox poll and the confirm sweep reconcile every email reply that was
\* claimed, one whose handler died in the SMTP call included.
ClaimedSendsSettle ==
    \A i \in Id :
        (channel # "linkedin" /\ send.id = i /\ row[i] # "absent")
            ~> (send.id = i => send.status \in {"sent", "failed"})
=============================================================================
