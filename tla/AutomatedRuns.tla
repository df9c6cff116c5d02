---------------------------- MODULE AutomatedRuns ----------------------------
(***************************************************************************)
(* Unattended spending: finder triggers, started by the server's scheduler,*)
(* by `find watch` in a process of its own or by a click, and batch drains.*)
(* A trigger run claims its trigger's row, reserves its worst case against *)
(* the day's ceiling, spends, stamps the row and releases the reservation; *)
(* every step is a transaction of its own, and the process may die between *)
(* any two.  Claims are cleared by name, whoever made them.                *)
(*                                                                         *)
(* Time is the age of each run, in classes separated by the two thresholds *)
(* the code compares with, and a midnight that starts a new day's count.   *)
(***************************************************************************)
EXTENDS Naturals, FiniteSets, FiniteSetsExt

CONSTANTS Trigger,    \* finder triggers: rows of `triggers`
          Run,        \* trigger runs under way, or dead and not forgotten
          Batch,      \* drains under way, or dead and not forgotten
          Estimate,   \* [Trigger -> Nat], a run's worst case in dollars
          Ceiling,    \* dailySpendCeilingUsd
          RowCost,    \* DEFAULT_DRAIN_ROW_RESERVATION_USD
          MaxRows,    \* bound of this model on the rows of a batch
          MaxFaults,  \* bound on deaths, boots, errors, batches and manual sends
          OldestRun   \* the age class up to which a run may stay alive

\* Age classes of a run: 0 is younger than MAX_RUN_AGE_MS.
OLD_RUN           == 1  \* MAX_RUN_AGE_MS, 4 hours
STALE_RESERVATION == 2  \* SPEND_RESERVATION_STALE_MS, 5 hours
RunAge == 0 .. STALE_RESERVATION

ASSUME RunsAssumption ==
    /\ Estimate \in [Trigger -> Nat]
    /\ Ceiling \in Nat /\ RowCost \in Nat \ {0} /\ MaxRows \in Nat \ {0}
    /\ MaxFaults \in Nat /\ OldestRun \in RunAge
    /\ Run \cap Batch = {} /\ IsFiniteSet(Run \cup Batch)
    /\ "none" \notin Run \cup Trigger

VARIABLES run,       \* runs and batches, by slot
          claim,     \* triggers.running_started_at: the run that set it, or None
          due,       \* last_polled_at + interval (or retry_after) has passed
          spent,     \* receipts posted since midnight, whoever spent
          granted,   \* history: what was spent of budgets granted since midnight
          unguarded, \* history: triggers whose claim stopped guarding a live run
          faults     \* used up of MaxFaults

vars == <<run, claim, due, spent, granted, unguarded, faults>>

None == "none"
\* Who makes a run: the scheduler's tick or a click, both in the server, or a
\* `find` process.
Callers == {"scheduler", "click", "find"}
InServer == {"scheduler", "click"}
RunRecord ==
    [phase : {"free", "claimed", "resized", "running", "ended", "dead"},
     by : Callers, trig : Trigger \cup {None}, age : RunAge, est : Nat, held : BOOLEAN,
     today : BOOLEAN, posted : BOOLEAN]

Free == [phase |-> "free", by |-> "find", trig |-> None, age |-> 0,
         est |-> 0, held |-> FALSE, today |-> FALSE, posted |-> FALSE]

Slot == Run \cup Batch

Alive == {"claimed", "resized", "running", "ended"}
Live(r) == run[r].phase \in Alive

\* The run counts on its claim: from taking it until it stamps its result.
Guarded(r) == r \in Run /\ run[r].phase \in {"claimed", "running"}

Init ==
    /\ run = [r \in Slot |-> Free]
    /\ claim = [n \in Trigger |-> None]
    /\ due = [n \in Trigger |-> TRUE]
    /\ spent = 0
    /\ granted = 0
    /\ unguarded = {} /\ faults = 0

\* The slot of a dead run is free once neither claim nor reservation is left.
Forgotten(runs, claims) ==
    [r \in Slot |-> IF /\ runs[r].phase = "dead" /\ ~runs[r].held
                      /\ \A n \in Trigger : claims[n] # r
                   THEN Free ELSE runs[r]]

Becomes(runs, claims) ==
    /\ run' = Forgotten(runs, claims)
    /\ claim' = claims

-----------------------------------------------------------------------------
(* The trigger's row.                                                      *)

\* A tick of the scheduler, and of each `find watch`, runs triggers in turn.
OneTick(p) == \A r \in Run : run[r].by = p => ~Live(r)

\* Mutants: a stale marker is never taken over; the marker is not looked at.
ClaimableFresh(n) == claim[n] = None
ClaimableAlways(n) == TRUE

\* markTriggerRunning: no marker, or one older than MAX_RUN_AGE_MS.
Claimable(n) == claim[n] # None => run[claim[n]].age >= OLD_RUN

\* The claim of n stops guarding a run that is alive past MAX_RUN_AGE_MS.
Overtaken(n) == IF claim[n] # None /\ run[claim[n]].age >= OLD_RUN /\ Live(claim[n])
                THEN {n} ELSE {}

Claim(r, n, p) ==
    /\ run[r].phase = "free" /\ Claimable(n)
    /\ Becomes([run EXCEPT ![r] = [Free EXCEPT !.phase = "claimed", !.trig = n,
                                               !.by = p]],
               [claim EXCEPT ![n] = r])
    /\ unguarded' = unguarded \cup Overtaken(n)
    /\ UNCHANGED <<due, spent, granted, faults>>

\* runDueTriggers: the trigger is due.
ClaimDue(r, n, p) == due[n] /\ OneTick(p) /\ Claim(r, n, p)

\* fireTriggerNow: a click in the server, due or not.
Click(r, n) == Claim(r, n, "click")

\* updateTriggerLastPoll clears the claim of n, whoever made it.
Stamp(r, phase) ==
    LET n == run[r].trig
    IN  /\ Becomes([run EXCEPT ![r] = IF phase = "free" THEN Free
                                      ELSE [@ EXCEPT !.phase = phase]],
                   [claim EXCEPT ![n] = None])
        /\ due' = [due EXCEPT ![n] = FALSE]
        /\ UNCHANGED <<spent, granted, unguarded>>

\* The finder returned or threw: the run is stamped, then released.
RecordRun(r) ==
    /\ run[r].phase = "running"
    /\ Stamp(r, "ended")
    /\ UNCHANGED faults

\* runTriggerNow rejected before its finder started: fireTriggerNow stamps.
FireFailed(r) ==
    /\ run[r].phase = "claimed" /\ run[r].by = "click"
    /\ faults < MaxFaults /\ faults' = faults + 1
    /\ Stamp(r, "free")

-----------------------------------------------------------------------------
(* The ceiling: one IMMEDIATE transaction after a sweep of stale rows.     *)

\* Mutant: reservations are swept as early as claims are taken over.
StaleEarly(o) == o.age >= OLD_RUN

Stale(o) == o.age >= STALE_RESERVATION

\* sweepStaleSpendReservations, whoever holds them.
Swept(runs) ==
    [r \in Slot |->
        CASE Stale(runs[r]) /\ runs[r].phase = "dead" ->
                 [Free EXCEPT !.phase = "dead", !.age = runs[r].age]
          [] Stale(runs[r]) /\ runs[r].phase # "dead" -> [runs[r] EXCEPT !.held = FALSE]
          [] OTHER -> runs[r]]

\* reservedSpendUsd: the reservations made since midnight.
Reserved(runs) ==
    MapThenSumSet(LAMBDA r : runs[r].est, {r \in Slot : runs[r].held /\ runs[r].today})

\* The ceiling itself may be reached, not passed.
Fits(amount) == spent + Reserved(Swept(run)) + amount <= Ceiling

Granted(r, amount) ==
    [Swept(run) EXCEPT ![r].phase = "running", ![r].est = amount,
                       ![r].held = TRUE, ![r].today = TRUE]

\* Granted, the finder starts; refused, the claim is cleared, whoever made
\* it, and the trigger stays due.
Reserve(r) ==
    LET n == run[r].trig
    IN  /\ run[r].phase = "claimed"
        /\ IF Fits(Estimate[n])
           THEN Becomes(Granted(r, Estimate[n]), claim)
           ELSE Becomes([Swept(run) EXCEPT ![r] = Free], [claim EXCEPT ![n] = None])
        /\ UNCHANGED <<due, spent, granted, unguarded, faults>>

\* drainQueue asks for the whole batch; refused, it reads what is left and
\* sizes the batch down to what costs less than that, if any row does.
Drain(r, rows) ==
    LET fewer == {k \in 1 .. rows - 1 :
                     spent + Reserved(Swept(run)) + k * RowCost < Ceiling}
    IN  /\ run[r].phase = "free" /\ faults < MaxFaults
        /\ Becomes(CASE Fits(rows * RowCost) ->
                           Granted(r, rows * RowCost)
                     [] ~Fits(rows * RowCost) /\ fewer # {} ->
                           [Swept(run) EXCEPT ![r].phase = "resized",
                                              ![r].est = Max(fewer) * RowCost]
                     [] OTHER -> Swept(run),
                   claim)
        /\ faults' = faults + 1
        /\ UNCHANGED <<due, spent, granted, unguarded>>

\* The smaller batch is asked for as the first one was.
DrainFewer(r) ==
    /\ run[r].phase = "resized"
    /\ Becomes(IF Fits(run[r].est) THEN Granted(r, run[r].est)
               ELSE [Swept(run) EXCEPT ![r] = Free], claim)
    /\ UNCHANGED <<due, spent, granted, unguarded, faults>>

\* The receipts of its paid calls; no run spends more than it reserved.
Post(r) ==
    /\ run[r].phase = "running" /\ ~run[r].posted
    /\ run' = [run EXCEPT ![r].posted = TRUE]
    /\ \E cost \in 1 .. run[r].est :
          /\ spent' = spent + cost
          /\ granted' = IF run[r].today THEN granted + cost ELSE granted
    /\ UNCHANGED <<claim, due, unguarded, faults>>

\* The reservation is given back, last of all.
Release(r) ==
    /\ run[r].phase = IF r \in Batch THEN "running" ELSE "ended"
    /\ run' = [run EXCEPT ![r] = Free]
    /\ UNCHANGED <<claim, due, spent, granted, unguarded, faults>>

\* The founder sends by hand, which nothing refuses.
SpendByHand ==
    /\ faults < MaxFaults /\ faults' = faults + 1
    /\ spent' = spent + 1
    /\ UNCHANGED <<run, claim, due, granted, unguarded>>

-----------------------------------------------------------------------------
(* Deaths, boots and time.                                                 *)

\* Of a dead run its age, its claim and its reservation are left.
Died(r) ==
    [Free EXCEPT !.phase = "dead", !.age = run[r].age, !.held = run[r].held,
                 !.est = IF run[r].held THEN run[r].est ELSE 0,
                 !.today = run[r].held /\ run[r].today]

\* A `find` process dies, or whatever runs a batch; or an error between the
\* claim and the finder leaves a scheduled run's claim behind.
Die(r) ==
    /\ Live(r) /\ faults < MaxFaults
    /\ run[r].by = "find" \/ run[r].phase = "claimed"
    /\ Becomes([run EXCEPT ![r] = Died(r)], claim)
    /\ faults' = faults + 1
    /\ UNCHANGED <<due, spent, granted, unguarded>>

\* The server dies and boots.  Its boot takes every claim for a dead process's
\* and stamps the row, unless the sweep itself fails.
Boot(swept) ==
    LET runs == [r \in Slot |-> IF Live(r) /\ run[r].by \in InServer
                               THEN Died(r) ELSE run[r]]
        zombies == IF swept THEN {n \in Trigger : claim[n] # None} ELSE {}
    IN  /\ faults < MaxFaults
        /\ Becomes(runs, [n \in Trigger |-> IF n \in zombies THEN None ELSE claim[n]])
        /\ due' = [n \in Trigger |-> due[n] /\ n \notin zombies]
        /\ unguarded' = unguarded \cup
              {n \in zombies : run[claim[n]].by = "find" /\ Live(claim[n])}
        /\ faults' = faults + 1
        /\ UNCHANGED <<spent, granted>>

GrowOld(r) ==
    /\ \/ r \in Run /\ run[r].phase = "running" /\ run[r].age < OldestRun
       \/ run[r].phase = "dead" /\ run[r].age < STALE_RESERVATION
    /\ run' = [run EXCEPT ![r].age = @ + 1]
    /\ UNCHANGED <<claim, due, spent, granted, unguarded, faults>>

\* A learning job asks for a budget and gives it back: of the rows it leaves
\* only those that are not stale.
OtherCall ==
    /\ Becomes(Swept(run), claim)
    /\ UNCHANGED <<due, spent, granted, unguarded, faults>>

Elapse(n) ==
    /\ ~due[n]
    /\ due' = [due EXCEPT ![n] = TRUE]
    /\ UNCHANGED <<run, claim, spent, granted, unguarded, faults>>

\* A new day: receipts and reservations of the old one are not summed any
\* more.  No run is alive over two midnights.
Midnight ==
    /\ \A r \in Slot : Live(r) /\ run[r].held => run[r].today
    /\ run' = [r \in Slot |-> [run[r] EXCEPT !.today = FALSE]]
    /\ spent' = 0 /\ granted' = 0
    /\ UNCHANGED <<claim, due, unguarded, faults>>

Next ==
    \/ \E r \in Run :
          \/ \E n \in Trigger : \/ \E p \in {"scheduler", "find"} : ClaimDue(r, n, p)
                                \/ Click(r, n)
          \/ RecordRun(r) \/ FireFailed(r) \/ Reserve(r)
    \/ \E b \in Batch :
          \/ \E rows \in 1 .. MaxRows : Drain(b, rows)
          \/ DrainFewer(b)
    \/ \E r \in Slot : Post(r) \/ Release(r) \/ Die(r) \/ GrowOld(r)
    \/ SpendByHand \/ OtherCall \/ Midnight
    \/ \E swept \in BOOLEAN : Boot(swept)
    \/ \E n \in Trigger : Elapse(n)

Spec == Init /\ [][Next]_vars

-----------------------------------------------------------------------------
(* Fairness: the scheduler keeps ticking, what runs ends, time passes.     *)

Fairness ==
    /\ \A n \in Trigger :
          /\ WF_vars(\E r \in Run : ClaimDue(r, n, "scheduler"))
          /\ WF_vars(Elapse(n))
    /\ \A r \in Run : WF_vars(Reserve(r)) /\ WF_vars(RecordRun(r))
    /\ \A b \in Batch : WF_vars(DrainFewer(b))
    /\ \A r \in Slot : /\ WF_vars(Release(r))
                       /\ WF_vars(run[r].phase = "dead" /\ GrowOld(r))
    /\ WF_vars(OtherCall) /\ WF_vars(Midnight)

FairSpec == Spec /\ Fairness

-----------------------------------------------------------------------------
(* Properties.                                                             *)

\* Every variable keeps its type, and a claim is one a slot remembers.
TypeOK ==
    /\ run \in [Slot -> RunRecord]
    /\ claim \in [Trigger -> Run \cup {None}]
    /\ due \in [Trigger -> BOOLEAN]
    /\ spent \in Nat /\ faults \in 0 .. MaxFaults
    /\ granted \in Nat
    /\ unguarded \subseteq Trigger
    /\ \A n \in Trigger : claim[n] # None => run[claim[n]].phase # "free"

\* Two runs of one trigger are never alive together, whoever starts them and
\* whoever dies, as long as no live run outlived MAX_RUN_AGE_MS and the server
\* did not boot beside a `find` process (markTriggerRunning, and every place
\* that clears a claim by name).
OverlapHasReason ==
    \A r, q \in Run :
        Guarded(r) /\ Guarded(q) /\ run[r].trig = run[q].trig /\ r # q
        => run[r].trig \in unguarded

\* What runs and batches spend, and may still spend, of the budgets they were
\* granted in one day stays within the ceiling, also when a run outlives its
\* claim or a process dies (tryReserveDailySpend).  By the
\* day the receipts post it does not: a run granted before midnight spends
\* beside a full new day.
GrantsWithinCeiling ==
    granted + MapThenSumSet(LAMBDA r : run[r].est,
                            {r \in Slot : /\ Live(r) /\ run[r].today
                                          /\ run[r].phase # "resized" /\ ~run[r].posted})
        <= Ceiling

\* A due trigger runs at last, whatever died holding its claim or its budget
\* (the stale cutoff of the claim, the sweep of reservations, the new day).
DueTriggersRun ==
    \A n \in Trigger :
        due[n] ~> \E r \in Run : run[r].phase = "running" /\ run[r].trig = n
=============================================================================
