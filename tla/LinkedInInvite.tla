--------------------------- MODULE LinkedInInvite ---------------------------
(***************************************************************************)
(* Connection requests on LinkedIn.  A row (a queue row, or a cadence's    *)
(* invite step) invites one profile under a key of its own; the person is  *)
(* held for everybody by one claim per profile in the shared file, and the *)
(* invite counts against its workspace's share of the day by a slot.       *)
(* OneShot runs an invite as a job that outlives the caller's patience: an *)
(* invite of unknown outcome is kept as pending, and the founder's Send,   *)
(* the drain and the sweep all resume it, in any order and at once.  Send  *)
(* and the drain do not look at each other's claim of a row, nor a drain   *)
(* at what became of the rows it took: several tasks may send one row.     *)
(***************************************************************************)
EXTENDS Naturals, FiniteSets, Sequences

CONSTANTS Row,        \* rows that invite
          Profile,
          Workspace,
          ProfileOf,  \* the profile a row invites,
          WorkspaceOf,\* and the workspace it belongs to
          Worker,     \* tasks that send, sweep or reconcile
          Limit,      \* invites a day, per workspace
          MaxAttempt, \* bound on the attempts that fail,
          MaxSlots,   \* on the slots taken,
          MaxFaults   \* and on deaths, losses and new days

ASSUME LinkedInAssumption ==
    /\ ProfileOf \in [Row -> Profile] /\ WorkspaceOf \in [Row -> Workspace]
    /\ Limit \in Nat \ {0} /\ {MaxAttempt, MaxSlots, MaxFaults} \subseteq Nat

\* An idempotency key: the row's, and how many of its invites have failed.
Key == Row \X (0 .. MaxAttempt)
Slot == 1 .. MaxSlots

VARIABLES job,      \* OneShot's job under each key
          claim,    \* the linkedin_touched row of each profile
          slots,    \* linkedin_invite_slots, in the order of their ids
          attempt,  \* linkedin_send_attempts
          pend,     \* linkedin_pending_sends
          task,     \* what each worker is doing
          made,     \* invites OneShot took in today, each with its slot
          uncounted,\* history: the slots of those not counted in time
          stolen,   \* history: profiles freed from under another attempt
          faults    \* used up of MaxFaults

vars == <<job, claim, slots, attempt, pend, task, made, uncounted, stolen, faults>>
shared == <<claim, slots>>
ledger == <<attempt, pend>>
history == <<made, uncounted, stolen>>

None == "none"
Free == [st |-> None]
Idle == [at |-> "idle"]
Unknown == {"running", "sent", "dark"}  \* a job whose invite is or may be out
Ended == {"sent", "failed", "dark"}

Init ==
    /\ job = [k \in Key |-> None]
    /\ claim = [p \in Profile |-> Free]
    /\ slots = <<>>
    /\ attempt = [r \in Row |-> 0]
    /\ pend = [k \in Key |-> Free]
    /\ task = [w \in Worker |-> Idle]
    /\ made = {} /\ uncounted = {} /\ stolen = {}
    /\ faults = 0

At(w, phase) == task[w].at = phase
Goes(w, phase) == task' = [task EXCEPT ![w].at = phase]
Answered(w, ans) == task' = [task EXCEPT ![w].at = "answered", ![w].ans = ans]
Rests(w) == task' = [task EXCEPT ![w] = Idle]
Fault == faults < MaxFaults /\ faults' = faults + 1

KeyOf(r) == <<r, attempt[r]>>
ProfileOfKey(k) == ProfileOf[k[1]]
WorkspaceOfKey(k) == WorkspaceOf[k[1]]

-----------------------------------------------------------------------------
(* The shared file.                                                        *)

\* Mutant: a claim that lost its caller no longer holds the profile.
HeldOrDropped(p) == claim[p].st \in {"reserved", "confirmed"}

\* linkedInTouch: a reservation holds for RESERVATION_TTL_MS, the rest for good.
Held(p) == claim[p].st \in {"reserved", "dispatched", "confirmed"}
Unsettled(p) == claim[p].st \in {"reserved", "lapsed", "dispatched"}
Settled(p, st) == [claim EXCEPT ![p].st = st]

Lapse(p) ==
    /\ claim[p].st = "reserved"
    /\ claim' = Settled(p, "lapsed")
    /\ UNCHANGED <<job, slots, ledger, task, history, faults>>

\* A fresh send releases and confirms the claim it made, by its id; a resumed
\* one settles whichever claim its workspace has not settled, by the source.
Mine(w) ==
    LET p == ProfileOfKey(task[w].key)
    IN  Unsettled(p) /\ IF task[w].fresh THEN claim[p].by = w
                        ELSE claim[p].ws = WorkspaceOfKey(task[w].key)

ReleaseClaim(w) ==
    LET p == ProfileOfKey(task[w].key)
    IN  IF Mine(w)
        THEN /\ claim' = [claim EXCEPT ![p] = Free]
             /\ stolen' = IF claim[p].key = task[w].key THEN stolen ELSE stolen \cup {p}
        ELSE UNCHANGED <<claim, stolen>>

ConfirmedClaim(w) ==
    IF Mine(w) THEN Settled(ProfileOfKey(task[w].key), "confirmed") ELSE claim

\* inviteSlotsUsed: confirmed, or reserved within the TTL, today.
Counted(ws) ==
    {i \in DOMAIN slots : slots[i].st \in {"reserved", "confirmed"} /\ slots[i].ws = ws}

\* InviteSlot.confirm; heldInviteSlot's does nothing, its slot is counted.
ConfirmedSlot(w) ==
    IF task[w].fresh /\ slots[task[w].slot].st \in {"reserved", "lapsed"}
    THEN [slots EXCEPT ![task[w].slot].st = "confirmed"] ELSE slots

\* InviteSlot.release: only a reservation; heldInviteSlot frees any status.
Gone(i) == [slots EXCEPT ![i] = Free]
FreedSlot(w) ==
    IF ~task[w].fresh \/ slots[task[w].slot].st # "confirmed"
    THEN Gone(task[w].slot) ELSE slots

\* A reservation of a worker that died, or that takes longer than the TTL.
LapseSlot(i) ==
    /\ slots[i].st = "reserved"
    /\ slots' = [slots EXCEPT ![i].st = "lapsed"]
    /\ uncounted' = uncounted \cup {i}
    /\ UNCHANGED <<job, claim, ledger, task, made, stolen, faults>>

\* The next UTC day: no slot of the day before counts.
NewDay ==
    /\ Fault
    /\ slots' = [i \in DOMAIN slots |-> Free]
    /\ made' = {} /\ uncounted' = {}
    /\ UNCHANGED <<job, claim, ledger, task, stolen>>

-----------------------------------------------------------------------------
(* sendLinkedInInvite.                                                     *)

Task(phase, k, fresh, slot) ==
    [at |-> phase, key |-> k, fresh |-> fresh, slot |-> slot, ans |-> None]

\* A first send: the guard and the claim, before any await.
Claim(w, r) ==
    LET p == ProfileOf[r] IN
    /\ At(w, "idle") /\ pend[KeyOf(r)] = Free /\ ~Held(p)
    /\ claim' = [claim EXCEPT ![p] = [st |-> "reserved", ws |-> WorkspaceOf[r], by |-> w,
                                      key |-> KeyOf(r), again |-> job[KeyOf(r)] = "failed"]]
    /\ task' = [task EXCEPT ![w] = Task("claimed", KeyOf(r), TRUE, 0)]
    /\ UNCHANGED <<job, slots, ledger, history, faults>>

\* reserveLinkedInInvite: a slot, or the row waits: the share is used up, or
\* the account's own invites are.
TakeSlot(w) ==
    /\ At(w, "claimed")
    /\ LET ws == WorkspaceOfKey(task[w].key) IN
       \/ /\ Cardinality(Counted(ws)) < Limit /\ Len(slots) < MaxSlots
          /\ slots' = Append(slots, [ws |-> ws, key |-> task[w].key, st |-> "reserved"])
          /\ task' = [task EXCEPT ![w].at = "slotted", ![w].slot = Len(slots) + 1]
          /\ UNCHANGED <<claim, stolen>>
       \/ ReleaseClaim(w) /\ Rests(w) /\ UNCHANGED slots
    /\ UNCHANGED <<job, ledger, made, uncounted, faults>>

\* Mutant: whoever holds the profile by now, the invite is called out.
DispatchAnyway(w) ==
    /\ At(w, "slotted")
    /\ LET p == ProfileOfKey(task[w].key) IN
       claim' = IF Unsettled(p) THEN Settled(p, "dispatched") ELSE claim
    /\ Goes(w, "calling")
    /\ UNCHANGED <<job, slots, ledger, history, faults>>

\* dispatchLinkedInProfile: throws when the reservation is gone.
Dispatch(w) ==
    /\ At(w, "slotted")
    /\ LET p == ProfileOfKey(task[w].key) IN
       IF claim[p].st \in {"reserved", "lapsed"} /\ claim[p].by = w
       THEN /\ claim' = [claim EXCEPT ![p].st = "dispatched"]
            /\ Goes(w, "calling") /\ UNCHANGED <<slots, stolen>>
       ELSE /\ slots' = FreedSlot(w) /\ ReleaseClaim(w) /\ Rests(w)
    /\ UNCHANGED <<job, ledger, made, uncounted, faults>>

\* The guard passes over the invite's own claim.
Own(r) == claim[ProfileOf[r]].st = "dispatched" /\ claim[ProfileOf[r]].ws = WorkspaceOf[r]

\* A send of a row whose invite is pending checks that job.  After a 429 only
\* the same key may try again, under the guard: a refusal ends the resend and
\* leaves the claim.
Resume(w, r) ==
    LET k == KeyOf(r) IN
    /\ At(w, "idle")
    /\ \/ /\ pend[k].st = "job"
          /\ task' = [task EXCEPT ![w] = Task("waiting", k, FALSE, pend[k].slot)]
          /\ UNCHANGED pend
       \/ /\ pend[k].st = "capped" /\ (Held(ProfileOf[r]) => Own(r))
          /\ task' = [task EXCEPT ![w] = Task("calling", k, FALSE, pend[k].slot)]
          /\ UNCHANGED pend
       \/ /\ pend[k].st = "capped"
          /\ pend' = [pend EXCEPT ![k] = Free]
          /\ UNCHANGED task
    /\ UNCHANGED <<job, shared, attempt, history, faults>>

\* The invite reaches OneShot: a key that ran answers with its job.
Arrives(k, i) ==
    IF job[k] = None
    THEN /\ job' = [job EXCEPT ![k] = "running"]
         /\ made' = made \cup {<<k, i>>}
         /\ uncounted' = IF i \in Counted(WorkspaceOfKey(k)) THEN uncounted
                         ELSE uncounted \cup {i}
    ELSE UNCHANGED <<job, made, uncounted>>

Call(w) ==
    /\ At(w, "calling")
    /\ Arrives(task[w].key, task[w].slot)
    /\ Goes(w, "waiting")
    /\ UNCHANGED <<shared, ledger, stolen, faults>>

\* A 429, or an answer that was lost: the invite was taken in, or it was not.
Unanswered(w) ==
    /\ At(w, "calling") /\ Fault
    /\ Arrives(task[w].key, task[w].slot) \/ UNCHANGED <<job, made, uncounted>>
    /\ Answered(w, "capped") \/ Answered(w, "lost")
    /\ UNCHANGED <<shared, ledger, stolen>>

\* External: the job ends, and the last attempt of the bound does not fail.
JobEnds(k) ==
    /\ job[k] = "running"
    /\ \E end \in Ended : /\ end = "failed" => k[2] < MaxAttempt
                          /\ job' = [job EXCEPT ![k] = end]
    /\ UNCHANGED <<shared, ledger, task, history, faults>>

\* awaitLinkedInJob: the job's end, or the deadline.
Wait(w) ==
    /\ At(w, "waiting")
    /\ \/ /\ job[task[w].key] \in Ended
          /\ Answered(w, job[task[w].key])
          /\ UNCHANGED faults
       \/ /\ job[task[w].key] = "running"
          /\ Answered(w, "pending")
          /\ UNCHANGED faults
       \/ /\ Fault /\ Answered(w, "pending")
    /\ UNCHANGED <<job, shared, ledger, history>>

-----------------------------------------------------------------------------
(* settleInvite: what the answer does to the claim, the slot and the key.  *)

\* Accepted and running, or capped: kept under its key, and it counts.
KeepPending(w) ==
    /\ At(w, "answered") /\ task[w].ans \in {"pending", "capped"}
    /\ slots' = ConfirmedSlot(w)
    /\ pend' = [pend EXCEPT ![task[w].key] =
                  [st |-> IF task[w].ans = "pending" THEN "job" ELSE "capped",
                   slot |-> task[w].slot]]
    /\ Rests(w)
    /\ UNCHANGED <<job, claim, attempt, history, faults>>

\* Mutant: an invite whose answer is lost gives its slot back.
KeepClaimOnly(w) ==
    /\ At(w, "answered") /\ task[w].ans \in {"dark", "lost"}
    /\ slots' = FreedSlot(w)
    /\ pend' = IF task[w].ans = "dark" THEN [pend EXCEPT ![task[w].key] = Free] ELSE pend
    /\ Rests(w)
    /\ UNCHANGED <<job, claim, attempt, history, faults>>

\* It may have gone out: the claim and the slot stay.
KeepClaim(w) ==
    /\ At(w, "answered") /\ task[w].ans \in {"dark", "lost"}
    /\ slots' = ConfirmedSlot(w)
    /\ pend' = IF task[w].ans = "dark" THEN [pend EXCEPT ![task[w].key] = Free] ELSE pend
    /\ Rests(w)
    /\ UNCHANGED <<job, claim, attempt, history, faults>>

\* noteFailed: only the current key moves, and only for a job that failed.
MovedOn(k) ==
    IF KeyOf(k[1]) = k /\ k[2] < MaxAttempt
    THEN [attempt EXCEPT ![k[1]] = k[2] + 1] ELSE attempt

NoteFailed(w) ==
    /\ At(w, "answered") /\ task[w].ans = "failed"
    /\ attempt' = MovedOn(task[w].key)
    /\ Goes(w, "noted")
    /\ UNCHANGED <<job, shared, pend, history, faults>>

\* After refusedInviteCode: nothing went out, so all of it is given back.
GiveBack(w) ==
    /\ At(w, "noted")
    /\ slots' = FreedSlot(w)
    /\ ReleaseClaim(w)
    /\ pend' = [pend EXCEPT ![task[w].key] = Free]
    /\ Rests(w)
    /\ UNCHANGED <<job, attempt, made, uncounted, faults>>

\* Mutant: the pending row outlives the outcome it waited for.
RecordKeepingPending(w) ==
    /\ At(w, "answered") /\ task[w].ans = "sent"
    /\ slots' = ConfirmedSlot(w)
    /\ claim' = ConfirmedClaim(w)
    /\ Rests(w)
    /\ UNCHANGED <<job, attempt, pend, history, faults>>

\* It went out: recorded, and settled.
RecordSent(w) ==
    /\ At(w, "answered") /\ task[w].ans = "sent"
    /\ slots' = ConfirmedSlot(w)
    /\ claim' = ConfirmedClaim(w)
    /\ pend' = [pend EXCEPT ![task[w].key] = Free]
    /\ Rests(w)
    /\ UNCHANGED <<job, attempt, history, faults>>

-----------------------------------------------------------------------------
(* The sweep and the reconcile command.                                    *)

\* resolveLinkedInPendingSend: a pending send as listed, then its recovery.
Ask(w, k) ==
    /\ At(w, "idle") /\ pend[k] # Free
    /\ task' = [task EXCEPT ![w] = [Task("asked", k, FALSE, pend[k].slot)
                                      EXCEPT !.ans = pend[k].st]]
    /\ UNCHANGED <<job, shared, ledger, history, faults>>

\* A job that ended is recorded by its id, whatever became of the row since,
\* and resumed under the key the row has now; NOT_PENDING if that has none.
Recover(w) ==
    /\ At(w, "asked")
    /\ LET k == task[w].key
           now == KeyOf(k[1])
           ended == job[k] \in Ended
       IN  /\ pend' = IF ended /\ task[w].ans = "capped"
                      THEN [pend EXCEPT ![k] = [st |-> "job", slot |-> task[w].slot]] ELSE pend
           /\ IF ended /\ pend'[now].st = "job"
              THEN task' = [task EXCEPT ![w] = Task("waiting", now, FALSE, pend'[now].slot)]
              ELSE Rests(w)
    /\ UNCHANGED <<job, shared, attempt, history, faults>>

\* reconcileLinkedInSends: an unsettled claim of the workspace, as read.  One
\* made when its key had failed already is older than that proof.
ListClaim(w, p) ==
    /\ At(w, "idle") /\ Unsettled(p)
    /\ task' = [task EXCEPT ![w] = [Task("listed", claim[p].key, FALSE, 0)
                                      EXCEPT !.ans = IF claim[p].again THEN "old" ELSE "new"]]
    /\ UNCHANGED <<job, shared, ledger, history, faults>>

\* No invitation to the profile is live, no pending send of the workspace
\* holds it, and an invitation newer than the claim reads `not_sent`.
Prove(w) ==
    LET k == task[w].key
        Siblings == {x \in Key : ProfileOfKey(x) = ProfileOfKey(k)}
    IN
    /\ At(w, "listed")
    /\ IF /\ \A x \in Siblings : job[x] # "sent"
          /\ \A x \in Siblings : WorkspaceOfKey(x) = WorkspaceOfKey(k) => pend[x] = Free
          /\ job[k] = "failed" /\ task[w].ans = "new"
       THEN Goes(w, "proved") ELSE Rests(w)
    /\ UNCHANGED <<job, shared, ledger, history, faults>>

\* settleLinkedInTouch, and markFailed of the key the row has by then, when
\* the queue still shows the row.
Reconcile(w) ==
    /\ At(w, "proved")
    /\ ReleaseClaim(w)
    /\ attempt' = MovedOn(KeyOf(task[w].key[1])) \/ UNCHANGED attempt
    /\ Rests(w)
    /\ UNCHANGED <<job, slots, pend, made, uncounted, faults>>

-----------------------------------------------------------------------------
(* A process dies: what it had claimed stays, to lapse or to be reconciled. *)
Die(w) ==
    /\ ~At(w, "idle") /\ Fault
    /\ Rests(w)
    /\ UNCHANGED <<job, shared, ledger, history>>

Work(w) ==
    \/ \E r \in Row : Claim(w, r) \/ Resume(w, r)
    \/ TakeSlot(w) \/ Dispatch(w) \/ Call(w) \/ Unanswered(w) \/ Wait(w)
    \/ KeepPending(w) \/ KeepClaim(w) \/ NoteFailed(w) \/ GiveBack(w) \/ RecordSent(w)
    \/ \E k \in Key : Ask(w, k)
    \/ \E p \in Profile : ListClaim(w, p)
    \/ Recover(w) \/ Prove(w) \/ Reconcile(w) \/ Die(w)

Next ==
    \/ \E w \in Worker : Work(w)
    \/ \E p \in Profile : Lapse(p)
    \/ \E i \in DOMAIN slots : LapseSlot(i)
    \/ \E k \in Key : JobEnds(k)
    \/ NewDay

Spec == Init /\ [][Next]_vars

-----------------------------------------------------------------------------
(* Properties.                                                             *)

TaskType ==
    [at : {"claimed", "slotted", "calling", "waiting", "answered", "noted", "asked", "listed",
           "proved"},
     key : Key, fresh : BOOLEAN, slot : 0 .. MaxSlots,
     ans : {None, "sent", "failed", "dark", "pending", "capped", "lost", "job", "old", "new"}]

\* The types of the state: every record is one the code can write.
TypeOK ==
    /\ job \in [Key -> {None, "running"} \cup Ended]
    /\ claim \in [Profile -> {Free} \cup
         [st : {"reserved", "lapsed", "dispatched", "confirmed"}, ws : Workspace, by : Worker,
          key : Key, again : BOOLEAN]]
    /\ Len(slots) <= MaxSlots
    /\ \A i \in DOMAIN slots :
         slots[i] \in {Free} \cup
           [ws : Workspace, key : Key, st : {"reserved", "lapsed", "confirmed"}]
    /\ attempt \in [Row -> 0 .. MaxAttempt]
    /\ pend \in [Key -> {Free} \cup [st : {"job", "capped"}, slot : Slot]]
    /\ task \in [Worker -> {Idle} \cup TaskType]
    /\ made \subseteq Key \X Slot /\ uncounted \subseteq Slot
    /\ stolen \subseteq Profile /\ faults \in 0 .. MaxFaults

MaybeOut(p) == {k \in Key : ProfileOfKey(k) = p /\ job[k] \in Unknown}

\* At most one invite to a profile is out or may still go out, over all rows,
\* attempts and workspaces, unless a late settlement freed the profile from
\* under another attempt.
OneInvitation == \A p \in Profile \ stolen : Cardinality(MaybeOut(p)) <= 1

\* An invite that is or may be out holds its profile for everybody: the claim
\* does not expire and is not freed, whatever the caller read or lost.
OutIsClaimed ==
    \A p \in Profile \ stolen : MaybeOut(p) # {} =>
        claim[p].st \in {"dispatched", "confirmed"}

\* The invites of today that may be out, those aside that no slot of today can
\* count: one whose own slot lapsed under it, or was taken on a day before it.
CountedOut == {x \in made : x[2] \notin uncounted /\ job[x[1]] \in Unknown}

\* No more invites than the share are taken in on one day for a workspace,
\* those that failed aside.
ShareKept ==
    \A ws \in Workspace :
        Cardinality({x \in CountedOut : WorkspaceOfKey(x[1]) = ws}) <= Limit

\* A slot given to an invite that may be out today is not given back: as long
\* as nothing proves the invite was not sent, it counts until the day ends.
SlotHolds == \A x \in CountedOut : x[2] \in Counted(WorkspaceOfKey(x[1]))

\* What the code says of a dispatched claim: only a failure the provider
\* reports as not delivered frees the profile.
OnlyProofFrees == \A p \in Profile : MaybeOut(p) # {} => Held(p)

-----------------------------------------------------------------------------
(* Liveness: OneShot ends every job it took in, a worker goes on with what  *)
(* it began, and the sweep comes back to every send that is pending.        *)

Continues(w) ==
    \/ TakeSlot(w) \/ Dispatch(w) \/ Call(w) \/ Wait(w)
    \/ KeepPending(w) \/ KeepClaim(w) \/ NoteFailed(w) \/ GiveBack(w) \/ RecordSent(w)
    \/ Recover(w) \/ Prove(w) \/ Reconcile(w)

Fairness ==
    /\ \A w \in Worker : WF_vars(Continues(w))
    /\ WF_vars(\E k \in Key : JobEnds(k))
    /\ \A r \in Row : SF_vars(\E w \in Worker : Ask(w, KeyOf(r)))

FairSpec == Spec /\ Fairness

\* The pending invites drain: with no new invites, there comes a time when
\* none that OneShot took in is pending under the key its row uses.
PendingResolved ==
    []<>(\A k \in Key : pend[k] = Free \/ job[k] = None \/ KeyOf(k[1]) # k)
=============================================================================
