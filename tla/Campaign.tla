------------------------------ MODULE Campaign ------------------------------
(***************************************************************************)
(* One person in one play: an approved row of the queue, the intro it      *)
(* sends, the cadence that intro enrols, and its follow-ups.  Four kinds   *)
(* of sender work on it: a drain (a row under a lease) and the founder's   *)
(* Send on the row (a marker); `cadence advance`, a CLI process that dies  *)
(* alone, and the founder's Send on the cadence (another marker).  Replies,*)
(* bounces and Stop come in between any two of their steps.                *)
(*                                                                         *)
(* Every email goes through the keyed ledger, of which only the promise is *)
(* used here: KeyedEmail, one key per step, which OutboundSend implements. *)
(***************************************************************************)
EXTENDS Naturals, KeyedEmail

CONSTANTS Last,      \* the last step of the sequence, its breakup
          Worker,    \* tasks that send
          Cli,       \* those in a process of their own
          MaxFaults  \* bound on deaths, boots and stops of this model

Step == 0 .. Last

None == "none"

ASSUME CampaignAssumption ==
    /\ Last \in Nat \ {0} /\ Key = Step /\ Replayed = {}
    /\ Cli \subseteq Worker /\ None \notin Worker /\ MaxFaults \in Nat

VARIABLES row,     \* the queue row
          cad,     \* the cadence_state row; .unsent is history: the steps it was
                   \* moved past with no email
          events,  \* steps with a sequence event that says sent
          job,     \* what each worker is doing
          reply,   \* the person's answer, and whether the poll has seen it
          dead,    \* the address is suppressed
          hist,    \* history: reasons why a claim or an end did not hold
          faults   \* used up of MaxFaults

ledger == keyedVars
vars == <<out, told, row, cad, events, job, reply, dead, hist, faults>>

Kinds == {"drain", "send", "runner", "click"}
Intro == {"drain", "send"}
Ended == {"replied", "stopped", "bounced", "completed", "breakup"}
Idle == [at |-> "idle", kind |-> "drain", step |-> 0, late |-> {}]

Init ==
    /\ KeyedInit
    /\ row = [status |-> "approved", sending |-> FALSE, lease |-> FALSE]
    /\ cad = [status |-> None, step |-> 0, marker |-> None, old |-> FALSE, unsent |-> {}]
    /\ events = {}
    /\ job = [w \in Worker |-> Idle]
    /\ reply = "none"
    /\ dead = FALSE
    /\ hist = {}
    /\ faults = 0

At(w, phase) == job[w].at = phase
Goes(w, phase) == job' = [job EXCEPT ![w].at = phase]

Live(w) == w # None => ~At(w, "idle")

\* sending_started_at holds for a worker that still counts on it.
Unmarked(c) == [c EXCEPT !.marker = None, !.old = FALSE]

-----------------------------------------------------------------------------
(* The queue row: two claims that do not look at each other.               *)

Take(w, kind) == job' = [job EXCEPT ![w] = [Idle EXCEPT !.at = "taken", !.kind = kind]]

\* dequeueApproved
Dequeue(w) ==
    /\ At(w, "idle") /\ row.status = "approved" /\ ~row.lease
    /\ row' = [row EXCEPT !.lease = TRUE]
    /\ Take(w, "drain")
    /\ UNCHANGED <<ledger, cad, events, reply, dead, hist, faults>>

\* claimQueueSendingMarker: a click in the server.
ClaimRow(w) ==
    /\ w \notin Cli /\ At(w, "idle")
    /\ row.status = "approved" /\ ~row.sending
    /\ row' = [row EXCEPT !.sending = TRUE]
    /\ Take(w, "send")
    /\ UNCHANGED <<ledger, cad, events, reply, dead, hist, faults>>

\* The lease or the marker has lapsed: both read as free from then on.
Lapse ==
    /\ row.lease \/ row.sending
    /\ \/ row' = [row EXCEPT !.lease = FALSE]
       \/ row' = [row EXCEPT !.sending = FALSE]
    /\ UNCHANGED <<ledger, cad, events, job, reply, dead, hist, faults>>

\* A worker gives up.  The founder's Send clears the row's marker, a step's
\* sender the cadence's, whoever made it; a drain leaves its lease.
ReleasedRow(w) == IF job[w].kind = "send" THEN [row EXCEPT !.sending = FALSE] ELSE row
ReleasedCad(w) == IF job[w].kind \in Intro THEN cad ELSE Unmarked(cad)

GiveUp(w) ==
    /\ job' = [job EXCEPT ![w] = Idle]
    /\ row' = ReleasedRow(w) /\ cad' = ReleasedCad(w)

\* sendDraftedEmail: an intro on record is not sent again.  The founder's row
\* is rejected for it, a drain's stays approved.
Gate(w) ==
    /\ At(w, "taken") /\ job[w].kind \in Intro
    /\ IF 0 \in events
       THEN /\ job' = [job EXCEPT ![w] = Idle]
            /\ row' = IF job[w].kind = "send"
                      THEN [row EXCEPT !.status = "rejected", !.sending = FALSE] ELSE row
       ELSE Goes(w, "gated") /\ UNCHANGED row
    /\ UNCHANGED <<ledger, cad, events, reply, dead, hist, faults>>

-----------------------------------------------------------------------------
(* The cadence's marker, and the step under it.                            *)

Marked(w) == [cad EXCEPT !.marker = w, !.old = FALSE]

\* `cadence advance`, the only unattended runner, claims only a free marker,
\* whatever became of the cadence since it was listed.
RunStep(w) ==
    /\ w \in Cli /\ At(w, "idle")
    /\ cad.status # None /\ cad.marker = None
    /\ cad' = Marked(w)
    /\ Take(w, "runner")
    /\ UNCHANGED <<ledger, row, events, reply, dead, hist, faults>>

\* The founder's Send: a free marker, or one older than MAX_SEND_AGE_MS.
ClickStep(w) ==
    /\ w \notin Cli /\ At(w, "idle") /\ cad.status # None
    /\ cad.marker = None \/ cad.old
    /\ cad' = Marked(w)
    /\ hist' = IF cad.marker # None /\ Live(cad.marker) THEN hist \cup {"slow"} ELSE hist
    /\ Take(w, "click")
    /\ UNCHANGED <<ledger, row, events, reply, dead, faults>>

GrowOld ==
    /\ cad.marker # None /\ ~cad.old
    /\ cad' = [cad EXCEPT !.old = TRUE]
    /\ UNCHANGED <<ledger, row, events, job, reply, dead, hist, faults>>

\* advanceCadence and setCadenceStatus, neither of which looks at the status:
\* the breakup ends the cadence, any other step moves it on.
Passed(k) ==
    IF k = Last THEN [Unmarked(cad) EXCEPT !.status = "breakup"]
    ELSE [Unmarked(cad) EXCEPT !.step = k]

\* advanceOrComplete: a step for which nothing is sent, the breakup included.
PassedOver(k) ==
    [Unmarked(cad) EXCEPT !.step = k, !.unsent = @ \cup {k},
                          !.status = IF k = Last THEN "completed" ELSE @]

\* What a follow-up begun now comes too late for.
Late == (hist \cap {"closed"}) \cup ({reply} \cap {"past"})

\* Mutant: the runner trusts the list it works from.
StatusAnyway == TRUE

\* runCadenceStepForProspect looks at the status once, before it drafts.
StatusActive == cad.status = "active"

Begin(w) ==
    LET k == cad.step + 1
    IN  /\ At(w, "taken") /\ job[w].kind \notin Intro
        /\ IF ~StatusActive
           THEN GiveUp(w)
           ELSE CASE dead ->
                       /\ job' = [job EXCEPT ![w] = Idle]
                       /\ cad' = [Unmarked(cad) EXCEPT !.status = "bounced"]
                  [] ~dead /\ k > Last ->
                       /\ job' = [job EXCEPT ![w] = Idle]
                       /\ cad' = [Unmarked(cad) EXCEPT !.status = "completed"]
                  [] ~dead /\ k \in events ->
                       \* sent before, and not advanced: a crash in between
                       /\ job' = [job EXCEPT ![w] = Idle]
                       /\ cad' = Passed(k)
                  [] OTHER ->
                       \/ /\ job' = [job EXCEPT ![w] = [@ EXCEPT !.at = "gated", !.step = k,
                                                                    !.late = Late]]
                          /\ UNCHANGED cad
                       \/ \* the person has no address on the step's channel
                          /\ job' = [job EXCEPT ![w] = Idle]
                          /\ cad' = PassedOver(k)
        /\ UNCHANGED <<ledger, row, events, reply, dead, hist, faults>>

\* The step's builder returns null after its awaits: there is nothing to send,
\* whatever became of the cadence meanwhile.
Unwritten(w) ==
    /\ At(w, "gated") /\ job[w].kind \notin Intro
    /\ cad' = PassedOver(job[w].step)
    /\ job' = [job EXCEPT ![w] = Idle]
    /\ UNCHANGED <<ledger, row, events, reply, dead, hist, faults>>

-----------------------------------------------------------------------------
(* The send itself.                                                        *)

\* Mutant: an email sent before is not replayed.
ReplaysNothing(k) == FALSE

Replays(k) == told[k] \in {"sent", "flagged"}

\* dispatchEmail and the ledger's claim: a suppressed address is refused, a
\* free key is tried, an email already sent is replayed, and any other
\* outcome is not known.  Step numbers keep the key over redrafts.
Hand(w) ==
    LET k == job[w].step
    IN  /\ At(w, "gated")
        /\ \/ /\ ~dead /\ Try(k)
              /\ Goes(w, "sending")
              /\ UNCHANGED <<row, cad>>
           \/ /\ ~dead /\ Replays(k)
              /\ Goes(w, "accepted")
              /\ UNCHANGED <<ledger, row, cad>>
           \/ /\ ~dead /\ told[k] = "trying"  \* young: refused; old: doubted
              /\ Doubt(k) \/ UNCHANGED ledger
              /\ GiveUp(w)
           \/ /\ dead \/ told[k] = "unknown"
              /\ GiveUp(w)
              /\ UNCHANGED ledger
        /\ UNCHANGED <<events, reply, dead, hist, faults>>

\* The transport took the email, and the row says so, if it did not already.
SendOk(w) ==
    LET k == job[w].step
    IN  /\ At(w, "sending")
        /\ Confirm(k) \/ (told[k] = "sent" /\ UNCHANGED ledger)
        /\ Goes(w, "accepted")
        /\ UNCHANGED <<row, cad, events, reply, dead, hist, faults>>

\* Mutant: an unknown outcome is taken for a send.
SendFailsAsSent(w) ==
    LET k == job[w].step
    IN  /\ At(w, "sending") /\ told[k] = "trying" /\ Doubt(k)
        /\ Goes(w, "accepted")
        /\ UNCHANGED <<row, cad, events, reply, dead, hist, faults>>

\* It refused the email, or nobody knows.
SendFails(w) ==
    LET k == job[w].step
    IN  /\ At(w, "sending")
        /\ \/ Retry(k)
           \/ told[k] = "trying" /\ Doubt(k)
           \/ told[k] # "trying" /\ UNCHANGED ledger
        /\ GiveUp(w)
        /\ UNCHANGED <<events, reply, dead, hist, faults>>

\* A request made arrives; the confirm sweep settles what is not known once
\* no caller is at the transport.
Arrive(k) ==
    /\ told[k] \in {"trying", "unknown"}
    /\ \E m \in Mail : Deliver(k, m)
    /\ UNCHANGED <<row, cad, events, job, reply, dead, hist, faults>>

Settle(k) ==
    /\ told[k] = "unknown"
    /\ \A w \in Worker : At(w, "sending") => job[w].step # k
    /\ Confirm(k) \/ Retry(k) \/ Flag(k)
    /\ UNCHANGED <<row, cad, events, job, reply, dead, hist, faults>>

\* recordSequenceEvent, of the intro as of a step.
Record(w) ==
    /\ At(w, "accepted")
    /\ events' = events \cup {job[w].step}
    /\ Goes(w, "recorded")
    /\ UNCHANGED <<ledger, row, cad, reply, dead, hist, faults>>

\* enrollCadence: a cadence that ended starts over, unless it was stopped.
Enroll(w) ==
    /\ At(w, "recorded") /\ job[w].kind \in Intro
    /\ cad' = IF cad.status = "stopped" THEN cad ELSE [cad EXCEPT !.status = "active"]
    /\ hist' = IF cad.status = None THEN hist ELSE hist \cup {"twice"}
    /\ Goes(w, "enrolled")
    /\ UNCHANGED <<ledger, row, events, reply, dead, faults>>

\* setQueueStatus sent, whatever the row says by then.
FinishRow(w) ==
    /\ At(w, "enrolled")
    /\ row' = [row EXCEPT !.status = "sent", !.sending = FALSE]
    /\ job' = [job EXCEPT ![w] = Idle]
    /\ UNCHANGED <<ledger, cad, events, reply, dead, hist, faults>>

\* The step is passed, and the marker cleared whoever holds it.
Advance(w) ==
    /\ At(w, "recorded") /\ job[w].kind \notin Intro
    /\ cad' = Passed(job[w].step)
    /\ job' = [job EXCEPT ![w] = Idle]
    /\ UNCHANGED <<ledger, row, events, reply, dead, hist, faults>>

-----------------------------------------------------------------------------
(* What comes in between.                                                  *)

Answer ==
    /\ reply = "none" /\ \E k \in Step : out[k] # {}
    /\ reply' = "inbox"
    /\ UNCHANGED <<ledger, row, cad, events, job, dead, hist, faults>>

\* recordProspectReply: every live cadence of the person ends; a send under
\* way keeps its marker.  An email of nobody on record is passed over, and the
\* poll reads it again until newer mail has moved the watermark an hour past
\* it, which is longer than any intro under way takes to be on record.
Overlap ==
    \E w \in Worker : /\ job[w].at \in {"sending", "accepted", "recorded"}
                      /\ job[w].kind \in Intro

Poll ==
    /\ reply = "inbox"
    /\ reply' \in {"inbox"} \cup (IF Overlap THEN {} ELSE {"past"})
    /\ LET ends == 0 \in events /\ cad.status = "active"
       IN  /\ cad' = IF ends THEN [cad EXCEPT !.status = "replied"] ELSE cad
           /\ hist' = IF ends THEN hist \cup {"closed"} ELSE hist
    /\ UNCHANGED <<ledger, row, events, job, dead, faults>>

\* Mutant: Stop does not look at the marker.
StoppableAnyway == cad.status = "active"

\* stopCadence's guard: a click does not stop a send under way.
Stoppable == cad.status = "active" /\ cad.marker = None

Stop ==
    /\ Stoppable /\ faults < MaxFaults /\ faults' = faults + 1
    /\ cad' = [Unmarked(cad) EXCEPT !.status = "stopped"]
    /\ hist' = hist \cup {"closed"}
    /\ UNCHANGED <<ledger, row, events, job, reply, dead>>

\* A bounce, a dead mailbox or an unsubscribe: setCadenceStatus clears the
\* marker too.
Suppress ==
    /\ ~dead /\ 0 \in events /\ faults < MaxFaults /\ faults' = faults + 1
    /\ dead' = TRUE
    /\ cad' = IF cad.status = "active" THEN [Unmarked(cad) EXCEPT !.status = "bounced"]
              ELSE cad
    /\ hist' = hist \cup {"closed"} \cup
               IF Live(cad.marker) /\ cad.marker # None THEN {"cleared"} ELSE {}
    /\ UNCHANGED <<ledger, row, events, job, reply>>

Die(w) ==
    /\ w \in Cli /\ ~At(w, "idle") /\ faults < MaxFaults /\ faults' = faults + 1
    /\ job' = [job EXCEPT ![w] = Idle]
    /\ UNCHANGED <<ledger, row, cad, events, reply, dead, hist>>

\* The server dies and boots: every marker is taken for a dead send's.
Boot ==
    /\ faults < MaxFaults /\ faults' = faults + 1
    /\ job' = [w \in Worker |-> IF w \in Cli THEN job[w] ELSE Idle]
    /\ row' = [row EXCEPT !.sending = FALSE]
    /\ cad' = Unmarked(cad)
    /\ hist' = IF cad.marker \in Cli /\ Live(cad.marker) THEN hist \cup {"boot"} ELSE hist
    /\ UNCHANGED <<ledger, events, reply, dead>>

Next ==
    \/ \E w \in Worker :
          \/ Dequeue(w) \/ ClaimRow(w) \/ Gate(w) \/ RunStep(w) \/ ClickStep(w) \/ Begin(w)
          \/ Unwritten(w) \/ Hand(w) \/ SendOk(w) \/ SendFails(w) \/ Record(w) \/ Enroll(w)
          \/ FinishRow(w) \/ Advance(w) \/ Die(w)
    \/ \E k \in Step : Arrive(k) \/ Settle(k)
    \/ Lapse \/ GrowOld \/ Answer \/ Poll \/ Stop \/ Suppress \/ Boot

Spec == Init /\ [][Next]_vars
-----------------------------------------------------------------------------
(* Fairness: a worker that is not killed goes on, requests arrive or are   *)
(* given up, and `cadence advance` is run again and again.                 *)

Fairness ==
    /\ \A w \in Worker :
          /\ WF_vars(Gate(w) \/ Begin(w) \/ Hand(w) \/ SendOk(w) \/ SendFails(w))
          /\ WF_vars(Record(w) \/ Enroll(w) \/ FinishRow(w) \/ Advance(w))
    /\ \A w \in Cli : SF_vars(RunStep(w))

FairSpec == Spec /\ Fairness

-----------------------------------------------------------------------------
(* Properties.                                                             *)

\* Every variable keeps its type.
TypeOK ==
    /\ told \in [Key -> Told] /\ out \in [Key -> SUBSET Mail]
    /\ row \in [status : {"approved", "sent", "rejected"}, sending : BOOLEAN, lease : BOOLEAN]
    /\ cad \in [status : {None, "active"} \cup Ended, step : Step,
                marker : {None} \cup Worker, old : BOOLEAN, unsent : SUBSET Step]
    /\ events \subseteq Step /\ dead \in BOOLEAN
    /\ job \in [Worker ->
                [at : {"idle", "taken", "gated", "sending", "accepted", "recorded",
                       "enrolled"},
                 kind : Kinds, step : Step, late : SUBSET {"closed", "past"}]]
    /\ reply \in {"none", "inbox", "past"}
    /\ hist \subseteq {"closed", "slow", "boot", "cleared", "twice"}
    /\ faults \in 0 .. MaxFaults

\* No step's email is tried before the one ahead of it is settled as sent (or
\* replayed as such), across redrafts, unknown outcomes, replays and crashes
\* between the send and the advance; unless the cadence was moved past that one
\* with no email, its person having no address or its builder nothing to say.
StepsInOrder ==
    \A k \in Step, j \in Step :
        j < k /\ told[k] # "nothing" => told[j] \in {"sent", "flagged"} \/ j \in cad.unsent

\* Once the founder's Stop is accepted no follow-up is on its way out, unless
\* the marker that Stop looks at had been taken from a live send: by a boot
\* beside `cadence advance`, by a click after five minutes, or by a bounce.
StopIsFinal ==
    cad.status = "stopped" /\ hist \cap {"boot", "slow", "cleared"} = {} =>
        \A w \in Worker : job[w].kind \notin Intro => job[w].at \in {"idle", "taken"}

\* A follow-up is not begun after a recorded reply, a stop or a bounce ended
\* the cadence, unless a second sender of the intro enrolled the person anew.
EndIsFinal ==
    \A w \in Worker : "closed" \in job[w].late => "twice" \in hist

\* A step whose email is settled as sent is passed at last, also when the
\* process that sent it died before it recorded anything; unless it died
\* holding the marker, which no run of `cadence advance` takes over.
SentStepIsPassed ==
    \A k \in Step \ {0} :
        LET waits == told[k] = "sent" /\ cad.status = "active" /\ cad.step = k - 1
        IN  waits ~> (~waits \/ (cad.marker # None /\ ~Live(cad.marker)))

-----------------------------------------------------------------------------
(* What the documentation says and the steps do not keep.                  *)

\* A reply stops the follow-ups: none is begun once the poll is past it.
ReplyStopsFollowUps == \A w \in Worker : "past" \notin job[w].late
=============================================================================
