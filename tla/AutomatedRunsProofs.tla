------------------------- MODULE AutomatedRunsProofs -------------------------
(***************************************************************************)
(* For any number of triggers, runs, batches, deaths and boots: two runs   *)
(* of one trigger overlap only for a reason, and a day's grants stay       *)
(* within the ceiling.                                                     *)
(*                                                                         *)
(* The invariant behind the first, Inv: a run that counts on its claim     *)
(* holds it, or its trigger is one of those whose claim stopped guarding a *)
(* live run.  Behind the second, Budget: a run holds the reservation of    *)
(* what it may still spend, so that what fits beside the reservations fits *)
(* beside the promises.  It needs what a sum over a set of runs does when  *)
(* one is taken out, and when the set or the summands shrink.              *)
(***************************************************************************)
EXTENDS AutomatedRuns, FiniteSetTheorems, WellFoundedInduction, TLAPS

Shape ==
    /\ run = [r \in Slot |-> [phase |-> run[r].phase, by |-> run[r].by, trig |-> run[r].trig,
                              age |-> run[r].age, est |-> run[r].est, held |-> run[r].held,
                              today |-> run[r].today, posted |-> run[r].posted]]
    /\ claim = [n \in Trigger |-> claim[n]]

Claimed == \A n \in Trigger : claim[n] # None => claim[n] \in Run

Guards ==
    \A r \in Run : Guarded(r) =>
        /\ run[r].trig \in Trigger /\ run[r].by \in Callers
        /\ claim[run[r].trig] = r \/ run[r].trig \in unguarded

Inv == Shape /\ Claimed /\ Guards

LEMMA Slots == ASSUME RunsAssumption
               PROVE  Run \subseteq Slot /\ Batch \subseteq Slot /\ None \notin Run
                      /\ None \notin Trigger /\ \A r \in Run : r \notin Batch
  BY DEF RunsAssumption, Slot, None

\* What a run must be after a step for Guards to hold of it: guarded before,
\* with the same trigger, and that trigger's claim kept or accounted for.
Kept(q) ==
    /\ Guarded(q) /\ run'[q].trig = run[q].trig /\ run'[q].by = run[q].by
    /\ \/ claim'[run[q].trig] = claim[run[q].trig]
       \/ claim[run[q].trig] # q
       \/ run[q].trig \in unguarded'

Fresh(q) ==
    /\ run'[q].trig \in Trigger /\ run'[q].by \in Callers
    /\ claim'[run'[q].trig] = q

LEMMA KeptIsEnough ==
    ASSUME Inv, unguarded \subseteq unguarded', Shape', Claimed',
           \A q \in Run : Guarded(q)' => Kept(q) \/ Fresh(q)
    PROVE  Inv'
  BY DEF Inv, Guards, Kept, Fresh, Guarded

\* Dead slots are forgotten, others are not touched.
LEMMA Forgets ==
    ASSUME NEW runs, NEW claims, NEW r \in Slot
    PROVE  LET o == Forgotten(runs, claims)[r]
           IN  o = runs[r] \/ (o = Free /\ runs[r].phase = "dead")
  BY DEF Forgotten

\* The sweep of reservations leaves what a claim is about.
LEMMA Sweeps ==
    ASSUME Shape, NEW r \in Slot
    PROVE  LET o == Swept(run)[r]
           IN  /\ o = [phase |-> o.phase, by |-> o.by, trig |-> o.trig, age |-> o.age,
                       est |-> o.est, held |-> o.held, today |-> o.today, posted |-> o.posted]
               /\ o.phase = run[r].phase
               /\ run[r].phase # "dead" => o.trig = run[r].trig /\ o.by = run[r].by
<1>1. run[r] = [phase |-> run[r].phase, by |-> run[r].by, trig |-> run[r].trig,
                age |-> run[r].age, est |-> run[r].est, held |-> run[r].held,
                today |-> run[r].today, posted |-> run[r].posted]
  BY DEF Shape
<1>2. CASE Stale(run[r]) /\ run[r].phase = "dead"
  BY <1>2 DEF Swept, Free
<1>3. CASE Stale(run[r]) /\ run[r].phase # "dead"
  BY <1>1, <1>3 DEF Swept
<1>4. CASE ~Stale(run[r])
  BY <1>1, <1>4 DEF Swept
<1>5. QED BY <1>2, <1>3, <1>4

LEMMA InitInv == ASSUME RunsAssumption, Init PROVE Inv
  BY Slots DEF Init, Inv, Shape, Claimed, Guards, Guarded, Free

-----------------------------------------------------------------------------
(* The actions.                                                            *)

Typed(o) ==
    o = [phase |-> o.phase, by |-> o.by, trig |-> o.trig, age |-> o.age, est |-> o.est,
         held |-> o.held, today |-> o.today, posted |-> o.posted]

\* A step that rewrites the slots and then forgets the dead ones.
LEMMA Becoming ==
    ASSUME NEW runs, NEW claims, Becomes(runs, claims),
           \A r \in Slot : Typed(runs[r])
    PROVE  /\ run' = [r \in Slot |-> run'[r]] /\ claim' = claims
           /\ \A r \in Slot : Typed(run'[r])
           /\ \A r \in Slot : run'[r].phase # "free" => run'[r] = runs[r]
  BY DEF Becomes, Forgotten, Free, Typed

LEMMA ClaimKeeps ==
    ASSUME RunsAssumption, Inv, NEW r \in Run, NEW n \in Trigger, NEW p \in Callers, Claim(r, n, p)
    PROVE  Inv'
<1> DEFINE new == [Free EXCEPT !.phase = "claimed", !.trig = n, !.by = p]
           runs == [run EXCEPT ![r] = new]
           claims == [claim EXCEPT ![n] = r]
<1>1. \A q \in Slot : Typed(runs[q])
  BY Slots DEF Inv, Shape, Typed, Free
<1>2. Becomes(runs, claims)
  BY DEF Claim
<1>3. /\ run' = [q \in Slot |-> run'[q]] /\ claim' = claims
      /\ \A q \in Slot : Typed(run'[q])
      /\ \A q \in Slot : run'[q].phase # "free" => run'[q] = runs[q]
  BY <1>1, <1>2, Becoming
<1>4. Shape' /\ Claimed'
  BY <1>3, Slots DEF Inv, Shape, Claimed, Typed
<1>5. unguarded' = unguarded \cup Overtaken(n)
  BY DEF Claim
<1>6. ASSUME NEW q \in Run, Guarded(q)' PROVE Kept(q) \/ Fresh(q)
  <2>1. run'[q] = runs[q] /\ q \in Slot
    BY <1>3, <1>6, Slots DEF Guarded
  <2>2. CASE q = r
    BY <1>3, <2>1, <2>2, Slots DEF Fresh, Inv, Shape, Free
  <2>3. CASE q # r
    <3>1. run'[q] = run[q] /\ Guarded(q)
      BY <1>6, <2>1, <2>3, Slots DEF Guarded, Inv, Shape
    <3>2. CASE run[q].trig # n
      BY <1>3, <3>1, <3>2, Slots DEF Kept, Inv, Shape, Guards
    <3>3. CASE run[q].trig = n /\ claim[n] = q
      BY <1>5, <3>1, <3>3, Slots DEF Claim, Claimable, Overtaken, Kept, Live, Alive, Guarded
    <3>4. CASE run[q].trig = n /\ claim[n] # q
      BY <3>1, <3>4 DEF Kept
    <3>5. QED BY <3>2, <3>3, <3>4
  <2>4. QED BY <2>2, <2>3
<1>7. QED BY <1>4, <1>5, <1>6, KeptIsEnough

\* What becomes of a run that a step does not deal with.
SameRun(q, o) ==
    /\ o.phase = run[q].phase
    /\ run[q].phase # "dead" => o.trig = run[q].trig /\ o.by = run[q].by

\* A stamp, or a refusal, takes run r out and clears its trigger's claim.
LEMMA EndKeeps ==
    ASSUME RunsAssumption, Inv, NEW r \in Run, NEW runs, run[r].phase \in {"claimed", "running"},
           Becomes(runs, [claim EXCEPT ![run[r].trig] = None]),
           \A q \in Slot : Typed(runs[q]),
           runs[r].phase \in {"free", "ended"},
           \A q \in Run \ {r} : SameRun(q, runs[q]),
           unguarded \subseteq unguarded'
    PROVE  Inv'
<1>1. /\ run' = [q \in Slot |-> run'[q]] /\ claim' = [claim EXCEPT ![run[r].trig] = None]
      /\ \A q \in Slot : Typed(run'[q])
      /\ \A q \in Slot : run'[q].phase # "free" => run'[q] = runs[q]
  BY Becoming
<1>2. Shape' /\ Claimed'
  BY <1>1, Slots DEF Inv, Shape, Claimed, Typed
<1>3. ASSUME NEW q \in Run, Guarded(q)' PROVE Kept(q) \/ Fresh(q)
  <2>1. run'[q] = runs[q]
    BY <1>1, <1>3, Slots DEF Guarded
  <2>2. q # r
    BY <1>3, <2>1 DEF Guarded
  <2>3. Guarded(q) /\ run'[q].trig = run[q].trig /\ run'[q].by = run[q].by
    BY <1>3, <2>1, <2>2 DEF Guarded, SameRun
  <2>4. CASE run[q].trig # run[r].trig
    BY <1>1, <2>3, <2>4 DEF Kept, Inv, Shape, Guards
  <2>5. CASE run[q].trig = run[r].trig
    \* r holds the claim, or nobody is guarded by it any more
    <3>1. Guarded(r)
      BY DEF Guarded
    <3>2. claim[run[q].trig] # q \/ run[q].trig \in unguarded
      BY <2>2, <2>3, <2>5, <3>1 DEF Inv, Guards
    <3>3. QED BY <2>3, <3>2 DEF Kept
  <2>6. QED BY <2>4, <2>5
<1>4. QED BY <1>2, <1>3, KeptIsEnough

\* A step that clears no claim and starts no run.
LEMMA RestKeeps ==
    ASSUME RunsAssumption, Inv, NEW runs, Becomes(runs, claim),
           \A q \in Slot : Typed(runs[q]),
           \A q \in Run : \/ SameRun(q, runs[q])
                          \/ runs[q].phase \notin {"claimed", "running"},
           unguarded \subseteq unguarded'
    PROVE  Inv'
<1>1. /\ run' = [q \in Slot |-> run'[q]] /\ claim' = claim
      /\ \A q \in Slot : Typed(run'[q])
      /\ \A q \in Slot : run'[q].phase # "free" => run'[q] = runs[q]
  BY Becoming
<1>2. Shape' /\ Claimed'
  BY <1>1 DEF Inv, Shape, Claimed, Typed
<1>3. ASSUME NEW q \in Run, Guarded(q)' PROVE Kept(q)
  <2>1. run'[q] = runs[q]
    BY <1>1, <1>3, Slots DEF Guarded
  <2>2. QED BY <1>1, <1>3, <2>1 DEF Kept, Guarded, SameRun
<1>4. QED BY <1>2, <1>3, KeptIsEnough

LEMMA RecordKeeps ==
    ASSUME RunsAssumption, Inv, NEW r \in Run, NEW phase \in {"free", "ended"},
           run[r].phase \in {"claimed", "running"}, Stamp(r, phase)
    PROVE  Inv'
<1> DEFINE runs == [run EXCEPT ![r] = IF phase = "free" THEN Free
                                      ELSE [@ EXCEPT !.phase = phase]]
<1>1. Becomes(runs, [claim EXCEPT ![run[r].trig] = None]) /\ unguarded' = unguarded
  BY DEF Stamp
<1>2. \A q \in Slot : Typed(runs[q])
  BY Slots DEF Inv, Shape, Typed, Free
<1>3. runs[r].phase \in {"free", "ended"}
  BY Slots DEF Inv, Shape, Free
<1>4. \A q \in Run \ {r} : SameRun(q, runs[q])
  BY Slots DEF Inv, Shape, SameRun
<1> HIDE DEF runs
<1>5. QED BY <1>1, <1>2, <1>3, <1>4, EndKeeps

LEMMA SweptTyped ==
    ASSUME Shape PROVE \A q \in Slot : Typed(Swept(run)[q]) /\ SameRun(q, Swept(run)[q])
  BY Sweeps DEF Typed, SameRun

LEMMA GrantKeeps ==
    ASSUME RunsAssumption, Inv, NEW r \in Slot, NEW amount, Becomes(Granted(r, amount), claim),
           r \in Run => run[r].phase = "claimed", UNCHANGED unguarded
    PROVE  Inv'
<1>1. \A q \in Slot : Typed(Swept(run)[q]) /\ SameRun(q, Swept(run)[q])
  BY SweptTyped DEF Inv
<1>2. Swept(run) = [q \in Slot |-> Swept(run)[q]]
  BY DEF Swept
<1>3. \A q \in Slot : Typed(Granted(r, amount)[q])
  BY <1>1, <1>2 DEF Granted, Typed
<1>4. ASSUME NEW q \in Run PROVE /\ Granted(r, amount)[q].trig = Swept(run)[q].trig
                                     /\ Granted(r, amount)[q].by = Swept(run)[q].by
                                     /\ (q # r => Granted(r, amount)[q] = Swept(run)[q])
  BY <1>1, <1>2, Slots DEF Granted, Typed
<1>5. CASE r \in Run
  \* the only run that changes was guarded before
  <2> DEFINE runs == Granted(r, amount)
  <2>1. /\ run' = [q \in Slot |-> run'[q]] /\ claim' = claim
        /\ \A q \in Slot : Typed(run'[q])
        /\ \A q \in Slot : run'[q].phase # "free" => run'[q] = runs[q]
    BY <1>3, Becoming
  <2>2. Shape' /\ Claimed'
    BY <2>1 DEF Inv, Shape, Claimed, Typed
  <2>3. ASSUME NEW q \in Run, Guarded(q)' PROVE Kept(q)
    <3>1. run'[q] = runs[q]
      BY <2>1, <2>3, Slots DEF Guarded
    <3>2. Guarded(q)
      BY <1>1, <1>4, <1>5, <2>3, <3>1, Slots DEF Guarded, SameRun
    <3>3. run'[q].trig = run[q].trig /\ run'[q].by = run[q].by
      BY <1>1, <1>4, <3>1, <3>2, Slots DEF Guarded, SameRun
    <3>4. QED BY <2>1, <3>2, <3>3 DEF Kept
  <2>4. QED BY <2>2, <2>3, KeptIsEnough
<1>6. CASE r \notin Run
  <2>1. \A q \in Run : SameRun(q, Granted(r, amount)[q])
    BY <1>1, <1>4, <1>6, Slots
  <2>2. QED BY <1>3, <2>1, RestKeeps
<1>7. QED BY <1>5, <1>6

LEMMA ReserveKeeps == ASSUME RunsAssumption, Inv, NEW r \in Run, Reserve(r) PROVE Inv'
<1>1. CASE Fits(Estimate[run[r].trig])
  BY <1>1, GrantKeeps, Slots DEF Reserve
<1>2. CASE ~Fits(Estimate[run[r].trig])
  <2> DEFINE runs == [Swept(run) EXCEPT ![r] = Free]
  <2>1. Becomes(runs, [claim EXCEPT ![run[r].trig] = None]) /\ unguarded' = unguarded
        /\ run[r].phase \in {"claimed", "running"}
    BY <1>2 DEF Reserve
  <2>2. Swept(run) = [q \in Slot |-> Swept(run)[q]]
    BY DEF Swept
  <2>3. /\ \A q \in Slot : Typed(runs[q])
        /\ \A q \in Run \ {r} : SameRun(q, runs[q])
    BY <2>2, SweptTyped, Slots DEF Inv, Typed, Free
  <2>4. runs[r].phase \in {"free", "ended"}
    BY <2>2, Slots DEF Free
  <2> HIDE DEF runs
  <2>5. QED BY <2>1, <2>3, <2>4, EndKeeps
<1>3. QED BY <1>1, <1>2

\* A batch is no run, and a sweep changes nothing that a claim is about.
LEMMA BatchKeeps ==
    ASSUME RunsAssumption, Inv, NEW b \in Batch, NEW runs, Becomes(runs, claim),
           \A q \in Slot : Typed(runs[q]), \A q \in Run : runs[q] = Swept(run)[q],
           UNCHANGED unguarded
    PROVE  Inv'
<1>1. \A q \in Run : SameRun(q, runs[q])
  BY SweptTyped, Slots DEF Inv, SameRun
<1>2. QED BY <1>1, RestKeeps

LEMMA DrainKeeps ==
    ASSUME RunsAssumption, Inv, NEW b \in Batch, NEW rows, Drain(b, rows) PROVE Inv'
<1> DEFINE fewer == {k \in 1 .. rows - 1 :
                        spent + Reserved(Swept(run)) + k * RowCost < Ceiling}
           smaller == [Swept(run) EXCEPT ![b].phase = "resized", ![b].est = Max(fewer) * RowCost]
<1>1. Swept(run) = [q \in Slot |-> Swept(run)[q]] /\ b \in Slot /\ b \notin Run
  BY Slots DEF Swept
<1>2. \/ Becomes(Granted(b, rows * RowCost), claim)
      \/ Becomes(smaller, claim)
      \/ Becomes(Swept(run), claim)
  BY DEF Drain
<1>3. UNCHANGED unguarded
  BY DEF Drain
<1>4. CASE Becomes(Granted(b, rows * RowCost), claim)
  BY <1>1, <1>3, <1>4, GrantKeeps
<1>5. CASE Becomes(smaller, claim)
  <2>1. /\ \A q \in Slot : Typed(smaller[q])
        /\ \A q \in Run : smaller[q] = Swept(run)[q]
    BY <1>1, SweptTyped, Slots DEF Inv, Typed
  <2> HIDE DEF smaller
  <2>2. QED BY <1>3, <1>5, <2>1, BatchKeeps
<1>6. CASE Becomes(Swept(run), claim)
  BY <1>3, <1>6, SweptTyped, BatchKeeps DEF Inv
<1>7. QED BY <1>2, <1>4, <1>5, <1>6

LEMMA DrainFewerKeeps ==
    ASSUME RunsAssumption, Inv, NEW b \in Batch, DrainFewer(b) PROVE Inv'
<1> DEFINE dropped == [Swept(run) EXCEPT ![b] = Free]
<1>1. Swept(run) = [q \in Slot |-> Swept(run)[q]] /\ b \in Slot /\ b \notin Run
  BY Slots DEF Swept
<1>2. (Becomes(Granted(b, run[b].est), claim) \/ Becomes(dropped, claim)) /\ UNCHANGED unguarded
  BY DEF DrainFewer
<1>3. /\ \A q \in Slot : Typed(dropped[q])
      /\ \A q \in Run : dropped[q] = Swept(run)[q]
  BY <1>1, SweptTyped, Slots DEF Inv, Typed, Free
<1> HIDE DEF dropped
<1>4. QED BY <1>1, <1>2, <1>3, GrantKeeps, BatchKeeps

\* A step that writes slots directly.
LEMMA WriteKeeps ==
    ASSUME RunsAssumption, Inv, run' = [q \in Slot |-> run'[q]], UNCHANGED <<claim, unguarded>>,
           \A q \in Slot : Typed(run'[q]),
           \A q \in Run : SameRun(q, run'[q]) \/ run'[q].phase \notin {"claimed", "running"}
    PROVE  Inv'
<1>1. Shape' /\ Claimed'
  BY DEF Inv, Shape, Claimed, Typed
<1>2. \A q \in Run : Guarded(q)' => Kept(q)
  BY DEF Kept, Guarded, SameRun
<1>3. QED BY <1>1, <1>2, KeptIsEnough

LEMMA DieKeeps == ASSUME RunsAssumption, Inv, NEW r \in Slot, Die(r) PROVE Inv'
<1> DEFINE runs == [run EXCEPT ![r] = Died(r)]
<1>1. Becomes(runs, claim) /\ unguarded' = unguarded
  BY DEF Die
<1>2. /\ \A q \in Slot : Typed(runs[q])
      /\ \A q \in Run : SameRun(q, runs[q]) \/ runs[q].phase \notin {"claimed", "running"}
  BY Slots DEF Inv, Shape, Typed, SameRun, Died, Free
<1> HIDE DEF runs
<1>3. QED BY <1>1, <1>2, RestKeeps

\* The boot clears every claim; of the runs that go on, `find`'s, it says so.
LEMMA BootKeeps == ASSUME RunsAssumption, Inv, NEW swept \in BOOLEAN, Boot(swept) PROVE Inv'
<1> DEFINE runs == [r \in Slot |-> IF Live(r) /\ run[r].by \in InServer THEN Died(r) ELSE run[r]]
           zombies == IF swept THEN {n \in Trigger : claim[n] # None} ELSE {}
           claims == [n \in Trigger |-> IF n \in zombies THEN None ELSE claim[n]]
<1>1. /\ Becomes(runs, claims)
      /\ unguarded' = unguarded \cup {n \in zombies : run[claim[n]].by = "find" /\ Live(claim[n])}
  BY DEF Boot
<1>2. \A q \in Slot : Typed(runs[q])
  BY DEF Inv, Shape, Typed, Died, Free
<1>3. \A q \in Run : \/ runs[q] = run[q] /\ ~(Live(q) /\ run[q].by \in InServer)
                     \/ runs[q].phase = "dead"
  BY Slots DEF Died, Free
<1>4. /\ run' = [q \in Slot |-> run'[q]] /\ claim' = claims
      /\ \A q \in Slot : Typed(run'[q])
      /\ \A q \in Slot : run'[q].phase # "free" => run'[q] = runs[q]
  <2> HIDE DEF runs, claims
  <2>1. QED BY <1>1, <1>2, Becoming
<1>5. Shape' /\ Claimed'
  BY <1>4 DEF Inv, Shape, Claimed, Typed
<1>6. ASSUME NEW q \in Run, Guarded(q)' PROVE Kept(q)
  <2>1. run'[q] = run[q] /\ Live(q) /\ ~(run[q].by \in InServer)
    <3> HIDE DEF runs
    <3>1. run'[q] = runs[q]
      BY <1>4, <1>6, Slots DEF Guarded
    <3>2. QED BY <1>3, <1>6, <3>1 DEF Guarded, Live, Alive
  <2>2. Guarded(q) /\ run'[q].trig = run[q].trig /\ run'[q].by = run[q].by
        /\ run[q].trig \in Trigger /\ run[q].by \in Callers
    BY <1>6, <2>1 DEF Guarded, Inv, Guards
  <2>3. CASE claim[run[q].trig] # q
    BY <2>2, <2>3 DEF Kept
  <2>4. CASE claim[run[q].trig] = q /\ run[q].trig \notin zombies
    BY <1>4, <2>2, <2>4 DEF Kept
  <2>5. CASE claim[run[q].trig] = q /\ run[q].trig \in zombies
    BY <1>1, <2>1, <2>2, <2>5 DEF Kept, InServer, Callers, Inv, Shape
  <2>6. QED BY <2>3, <2>4, <2>5
<1>7. QED BY <1>1, <1>5, <1>6, KeptIsEnough

-----------------------------------------------------------------------------

LEMMA StepKeepsInv == ASSUME RunsAssumption, Inv, [Next]_vars PROVE Inv'
<1>1. CASE \E r \in Run, n \in Trigger : \/ \E p \in {"scheduler", "find"} : ClaimDue(r, n, p)
                                         \/ Click(r, n)
  BY <1>1, ClaimKeeps DEF ClaimDue, Click, Callers
<1>2. CASE \E r \in Run : RecordRun(r) \/ FireFailed(r) \/ Reserve(r)
  BY <1>2, RecordKeeps, ReserveKeeps DEF RecordRun, FireFailed
<1>3. CASE \E b \in Batch : (\E rows \in 1 .. MaxRows : Drain(b, rows)) \/ DrainFewer(b)
  BY <1>3, DrainKeeps, DrainFewerKeeps
<1>4. ASSUME NEW r \in Slot, Post(r) \/ Release(r) \/ GrowOld(r) PROVE Inv'
  <2>1. /\ run' = [q \in Slot |-> run'[q]] /\ UNCHANGED <<claim, unguarded>>
        /\ \A q \in Slot : Typed(run'[q])
    BY <1>4 DEF Post, Release, GrowOld, Inv, Shape, Typed, Free
  <2>2. \A q \in Run : SameRun(q, run'[q]) \/ run'[q].phase \notin {"claimed", "running"}
    BY <1>4, Slots DEF Post, Release, GrowOld, Inv, Shape, SameRun, Free
  <2>3. QED BY <2>1, <2>2, WriteKeeps
<1>5. CASE \E r \in Slot : Die(r)
  BY <1>5, DieKeeps
<1>6. CASE \E swept \in BOOLEAN : Boot(swept)
  BY <1>6, BootKeeps
<1>7. CASE OtherCall
  BY <1>7, SweptTyped, Slots, RestKeeps DEF OtherCall, Inv
<1>8. CASE Midnight
  <2>1. run' = [q \in Slot |-> [run[q] EXCEPT !.today = FALSE]] /\ UNCHANGED <<claim, unguarded>>
    BY <1>8 DEF Midnight
  <2>2. ASSUME NEW q \in Slot PROVE Typed(run'[q]) /\ SameRun(q, run'[q])
    <3>1. Typed(run[q])
      BY DEF Inv, Shape, Typed
    <3>2. QED BY <2>1, <3>1 DEF Typed, SameRun
  <2>3. run' = [q \in Slot |-> run'[q]]
    BY <2>1
  <2>4. QED BY <2>1, <2>2, <2>3, Slots, WriteKeeps
<1>9. CASE SpendByHand \/ (\E n \in Trigger : Elapse(n)) \/ UNCHANGED vars
  BY <1>9 DEF SpendByHand, Elapse, vars, Inv, Shape, Claimed, Guards, Guarded
<1>10. QED
  BY <1>1, <1>2, <1>3, <1>4, <1>5, <1>6, <1>7, <1>8, <1>9 DEF Next

LEMMA Invariance == ASSUME RunsAssumption PROVE Spec => []Inv
  BY InitInv, StepKeepsInv, PTL DEF Spec

\* Two runs of one trigger are alive together only when a run outlived
\* MAX_RUN_AGE_MS or the server booted beside a `find` process: no stamp,
\* refusal, error, sweep or death lets a second one in (markTriggerRunning,
\* updateTriggerLastPoll, sweepStaleRunningTriggers).
THEOREM OverlapIsExplained == ASSUME RunsAssumption PROVE Spec => []OverlapHasReason
<1>1. Inv => OverlapHasReason
  BY DEF Inv, Guards, OverlapHasReason
<1>2. QED BY <1>1, Invariance, PTL

-----------------------------------------------------------------------------
(* Sums over sets of runs, as the reservations are summed.                 *)

Total(w, S) == MapThenSumSet(LAMBDA r : w[r].est, S)

\* The recursion behind a sum: an element is taken out of the set until none
\* is left.  Sums is the function of subsets it computes.
One(T) == CHOOSE r \in T : TRUE

Sums(w, S, g) ==
    g = [T \in SUBSET S |-> IF T = {} THEN 0
                            ELSE w[CHOOSE r \in T : TRUE].est
                                 + g[T \ {CHOOSE r \in T : TRUE}]]

SumOf(w, S) == CHOOSE g : Sums(w, S, g)

LEMMA TotalIsSum == ASSUME NEW w, NEW S PROVE Total(w, S) = SumOf(w, S)[S]
  BY DEF Total, MapThenSumSet, MapThenFoldSet, SumOf, Sums

\* What holds of a set when it holds of its strict subsets holds of them all.
LEMMA SubsetInduction ==
    ASSUME NEW S, IsFiniteSet(S), NEW Good,
           \A T \in SUBSET S : (\A U \in SUBSET T : U # T => U \in Good) => T \in Good
    PROVE  \A T \in SUBSET S : T \in Good
<1> DEFINE R == StrictSubsetOrdering(S)
           Bad == (SUBSET S) \ Good
<1>1. IsWellFoundedOn(R, SUBSET S)
  BY FS_StrictSubsetOrderingWellFounded, FS_FiniteSubsetsOfFinite
<1>2. SUFFICES ASSUME Bad # {} PROVE FALSE
  OBVIOUS
<1> HIDE DEF R
<1>3. PICK T \in Bad : \A U \in Bad : ~(<<U, T>> \in R)
  <2>1. Bad \subseteq SUBSET S
    OBVIOUS
  <2> HIDE DEF Bad
  <2>2. QED BY <1>1, <1>2, <2>1, WFMin
<1>4. ASSUME NEW U \in SUBSET T, U # T PROVE U \in Good
  BY <1>3, <1>4 DEF R, StrictSubsetOrdering
<1>5. QED BY <1>3, <1>4

LEMMA SumsAt ==
    ASSUME NEW w, NEW S, NEW g, Sums(w, S, g), NEW T \in SUBSET S
    PROVE  g[T] = IF T = {} THEN 0 ELSE w[One(T)].est + g[T \ {One(T)}]
  BY DEF Sums, One

LEMMA OneIn == ASSUME NEW T, T # {} PROVE One(T) \in T
  BY DEF One

\* Two such functions agree where both are defined.
LEMMA SumsAgree ==
    ASSUME NEW w, NEW A, NEW B, NEW g, NEW h, Sums(w, A, g), Sums(w, B, h),
           IsFiniteSet(A), NEW T \in SUBSET A, T \in SUBSET B
    PROVE  g[T] = h[T]
<1> DEFINE Good == {U \in SUBSET T : g[U] = h[U]}
<1>1. IsFiniteSet(T)
  BY FS_Subset
<1>2. ASSUME NEW U \in SUBSET T, \A V \in SUBSET U : V # U => V \in Good PROVE U \in Good
  <2>1. U \in SUBSET A /\ U \in SUBSET B
    OBVIOUS
  <2>2. CASE U = {}
    BY <2>1, <2>2, SumsAt
  <2>3. CASE U # {}
    <3>1. g[U \ {One(U)}] = h[U \ {One(U)}]
      BY <1>2, <2>3, OneIn
    <3>2. QED BY <2>1, <2>3, <3>1, SumsAt
  <2>4. QED BY <2>2, <2>3
<1> HIDE DEF Good
<1>3. T \in Good
  BY <1>1, <1>2, SubsetInduction
<1>4. QED BY <1>3 DEF Good

LEMMA SumsExist ==
    ASSUME NEW w, NEW S, IsFiniteSet(S)
    PROVE  Sums(w, S, SumOf(w, S))
<1> DEFINE Good == {T \in SUBSET S : \E g : Sums(w, T, g)}
<1>1. ASSUME NEW T \in SUBSET S, \A U \in SUBSET T : U # T => U \in Good
      PROVE  T \in Good
  <2> DEFINE g == [U \in SUBSET T |-> IF U = {} THEN 0
                                     ELSE w[One(U)].est
                                          + SumOf(w, U \ {One(U)})[U \ {One(U)}]]
  <2>1. ASSUME NEW U \in SUBSET T, U # T PROVE Sums(w, U, SumOf(w, U))
    <3>1. \E h : Sums(w, U, h)
      BY <1>1, <2>1
    <3>2. QED BY <3>1 DEF SumOf
  <2>2. ASSUME NEW U \in SUBSET T, U # T PROVE SumOf(w, U)[U] = g[U]
    <3>1. CASE U = {}
      BY <2>1, <2>2, <3>1, SumsAt
    <3>2. CASE U # {}
      <4> DEFINE V == U \ {One(U)}
      <4>1. V \in SUBSET U /\ V \in SUBSET T /\ V # T /\ V # U
        BY <2>2, <3>2, OneIn
      <4>2. IsFiniteSet(U)
        BY FS_Subset
      <4>3. SumOf(w, U)[V] = SumOf(w, V)[V]
        BY <2>1, <2>2, <4>1, <4>2, SumsAgree
      <4>4. SumOf(w, U)[U] = w[One(U)].est + SumOf(w, U)[V]
        BY <2>1, <2>2, <3>2, SumsAt
      <4>5. QED BY <3>2, <4>3, <4>4
    <3>3. QED BY <3>1, <3>2
  <2>3. ASSUME NEW U \in SUBSET T, U # {}
        PROVE  g[U] = w[One(U)].est + g[U \ {One(U)}]
    <3>1. U \ {One(U)} \in SUBSET T /\ U \ {One(U)} # T
      BY <2>3, OneIn
    <3>2. QED BY <2>2, <2>3, <3>1
  <2>4. Sums(w, T, g)
    <3>1. \A U \in SUBSET T :
             (IF U = {} THEN 0 ELSE w[One(U)].est + SumOf(w, U \ {One(U)})[U \ {One(U)}])
             = (IF U = {} THEN 0 ELSE w[One(U)].est + g[U \ {One(U)}])
      BY <2>3
    <3>2. g = [U \in SUBSET T |-> IF U = {} THEN 0 ELSE w[One(U)].est + g[U \ {One(U)}]]
      BY <3>1
    <3> HIDE DEF g
    <3>3. QED BY <3>2 DEF Sums, One
  <2>5. QED BY <2>4
<1> HIDE DEF Good
<1>2. S \in Good
  BY <1>1, SubsetInduction
<1>3. \E g : Sums(w, S, g)
  BY <1>2 DEF Good
<1>4. QED BY <1>3 DEF SumOf

\* One summand is taken out.
LEMMA TotalTakesOne ==
    ASSUME NEW w, NEW S, IsFiniteSet(S)
    PROVE  /\ Total(w, {}) = 0
           /\ S # {} => Total(w, S) = w[One(S)].est + Total(w, S \ {One(S)})
<1>1. Total(w, {}) = 0
  BY SumsExist, FS_EmptySet, SumsAt, TotalIsSum
<1>2. ASSUME S # {} PROVE Total(w, S) = w[One(S)].est + Total(w, S \ {One(S)})
  <2> DEFINE V == S \ {One(S)}
  <2>1. IsFiniteSet(V) /\ V \in SUBSET S
    BY FS_Subset
  <2>2. Sums(w, S, SumOf(w, S)) /\ Sums(w, V, SumOf(w, V))
    BY <2>1, SumsExist
  <2>3. SumOf(w, S)[V] = SumOf(w, V)[V]
    BY <2>1, <2>2, SumsAgree
  <2>4. SumOf(w, S)[S] = w[One(S)].est + SumOf(w, S)[V]
    BY <1>2, <2>2, SumsAt
  <2>5. QED BY <2>3, <2>4, TotalIsSum
<1>3. QED BY <1>1, <1>2

\* And it may be any of them.
LEMMA TotalSplits ==
    ASSUME NEW w, NEW S, IsFiniteSet(S), \A r \in S : w[r].est \in Nat
    PROVE  /\ Total(w, S) \in Nat
           /\ \A r \in S : Total(w, S) = w[r].est + Total(w, S \ {r})
<1> DEFINE Good == {T \in SUBSET S :
                       /\ Total(w, T) \in Nat
                       /\ \A r \in T : Total(w, T) = w[r].est + Total(w, T \ {r})}
<1>1. ASSUME NEW T \in SUBSET S, \A U \in SUBSET T : U # T => U \in Good PROVE T \in Good
  <2>0. IsFiniteSet(T)
    BY FS_Subset
  <2>1. CASE T = {}
    <3>1. Total(w, {}) = 0
      BY FS_EmptySet, TotalTakesOne
    <3>2. QED BY <2>1, <3>1
  <2>2. CASE T # {}
    <3> DEFINE c == One(T)
    <3>1. c \in T
      BY <2>2, OneIn
    <3>2. Total(w, T) = w[c].est + Total(w, T \ {c})
      BY <2>0, <2>2, TotalTakesOne
    <3> HIDE DEF c
    <3>3. T \ {c} \in Good /\ w[c].est \in Nat
      BY <1>1, <3>1
    <3>4. Total(w, T) \in Nat
      BY <3>2, <3>3
    <3>5. ASSUME NEW r \in T, r # c PROVE Total(w, T) = w[r].est + Total(w, T \ {r})
      <4>1. T \ {r} \in Good /\ c \in T \ {r} /\ r \in T \ {c} /\ w[r].est \in Nat
        BY <1>1, <3>1, <3>5
      <4>2. (T \ {c}) \ {r} = (T \ {r}) \ {c}
        OBVIOUS
      <4>3. (T \ {r}) \ {c} \in Good
        BY <1>1, <4>1
      <4>4. Total(w, T \ {c}) = w[r].est + Total(w, (T \ {r}) \ {c})
        BY <3>3, <4>1, <4>2
      <4>5. Total(w, T \ {r}) = w[c].est + Total(w, (T \ {r}) \ {c})
        BY <4>1
      <4>6. Total(w, (T \ {r}) \ {c}) \in Nat
        BY <4>3
      <4> HIDE DEF Good
      <4>7. QED BY <3>2, <3>3, <4>1, <4>4, <4>5, <4>6
    <3>6. QED BY <3>2, <3>4, <3>5
  <2>3. QED BY <2>1, <2>2
<1> HIDE DEF Good
<1>2. S \in Good
  BY <1>1, SubsetInduction
<1>3. QED BY <1>2 DEF Good

\* Fewer and smaller summands make no larger a sum.
LEMMA TotalGrows ==
    ASSUME NEW v, NEW w, NEW S, NEW T \in SUBSET S, IsFiniteSet(S),
           \A r \in S : w[r].est \in Nat,
           \A r \in T : v[r].est \in Nat /\ v[r].est <= w[r].est
    PROVE  Total(v, T) <= Total(w, S)
<1> DEFINE Good == {U \in SUBSET S : Total(v, U \cap T) <= Total(w, U)}
<1>1. ASSUME NEW U \in SUBSET S, \A V \in SUBSET U : V # U => V \in Good PROVE U \in Good
  <2>0. IsFiniteSet(U) /\ IsFiniteSet(U \cap T)
    BY FS_Subset
  <2>1. CASE U = {}
    <3>1. U \cap T = {}
      BY <2>1
    <3>2. Total(v, {}) = 0 /\ Total(w, {}) = 0
      BY FS_EmptySet, TotalTakesOne
    <3>3. QED BY <2>1, <3>1, <3>2
  <2>2. CASE U # {}
    <3>1. PICK r \in U : TRUE
      BY <2>2
    <3> DEFINE V == U \ {r}
    <3>2. /\ Total(w, U) = w[r].est + Total(w, V)
          /\ Total(w, U) \in Nat /\ w[r].est \in Nat
      BY <2>0, TotalSplits
    <3>3. IsFiniteSet(V) /\ V \in Good
      BY <1>1, <3>1, FS_Subset
    <3>4. Total(w, V) \in Nat
      BY <3>3, TotalSplits
    <3>5. Total(v, V \cap T) <= Total(w, V)
      BY <3>3
    <3>6. IsFiniteSet(V \cap T)
      BY <3>3, FS_Subset
    <3>7. Total(v, V \cap T) \in Nat
      BY <3>6, TotalSplits
    <3>8. CASE r \in T
      <4>1. (U \cap T) \ {r} = V \cap T
        OBVIOUS
      <4>2. Total(v, U \cap T) = v[r].est + Total(v, V \cap T)
        <5>1. \A q \in U \cap T : v[q].est \in Nat
          OBVIOUS
        <5>2. r \in U \cap T
          BY <3>8
        <5> HIDE DEF V
        <5>3. QED BY <2>0, <4>1, <5>1, <5>2, TotalSplits
      <4>3. v[r].est \in Nat /\ v[r].est <= w[r].est
        BY <3>8
      <4> HIDE DEF V
      <4>4. QED BY <3>2, <3>4, <3>5, <3>7, <4>2, <4>3
    <3>9. CASE r \notin T
      <4>1. U \cap T = V \cap T
        BY <3>9
      <4>2. Total(v, U \cap T) = Total(v, V \cap T)
        BY <4>1
      <4> HIDE DEF V, Good
      <4>3. Total(v, U \cap T) <= Total(w, U)
        BY <3>2, <3>4, <3>5, <3>7, <4>2
      <4>4. QED BY <4>3 DEF Good
    <3>10. QED BY <3>8, <3>9
  <2>3. QED BY <2>1, <2>2
<1> HIDE DEF Good
<1>2. S \in Good
  BY <1>1, SubsetInduction
<1>3. S \cap T = T
  OBVIOUS
<1>4. QED BY <1>2, <1>3 DEF Good

-----------------------------------------------------------------------------
(* The ceiling.                                                            *)

\* Reservations are swept after 5 hours, whoever holds them: no run is alive
\* by then ("Must stay ABOVE" in daily-spend.ts, of the limit of a run's age).
EndsBeforeSweep == OldestRun < STALE_RESERVATION

\* What the slot of a run may be: it holds its reservation of the day until
\* it is over, and before it is granted anything it holds none.
Fit(o) ==
    /\ o.phase \in {"free", "claimed", "resized", "running", "ended", "dead"}
    /\ o.est \in Nat /\ o.age \in Nat
    /\ o.phase \in {"free", "claimed", "resized"} =>
          o.age = 0 /\ ~o.held /\ ~o.today /\ ~o.posted
    /\ o.phase \in {"running", "ended"} => ~Stale(o) /\ (o.today => o.held)

\* What r may still spend of what it was granted today.
Promise(r) == Live(r) /\ run[r].today /\ run[r].phase # "resized" /\ ~run[r].posted

Promised == {r \in Slot : Promise(r)}

Budget ==
    /\ \A r \in Slot : Fit(run[r])
    /\ spent \in Nat /\ granted \in Nat /\ granted <= spent
    /\ granted + Total(run, Promised) <= Ceiling

LEMMA FiniteSlots ==
    ASSUME RunsAssumption, NEW S \in SUBSET Slot PROVE IsFiniteSet(S)
<1>1. IsFiniteSet(Slot)
  BY DEF RunsAssumption, Slot
<1>2. QED BY <1>1, FS_Subset

LEMMA FreeFits == Fit(Free)
  BY DEF Fit, Free, Stale, STALE_RESERVATION

LEMMA InitBudget == ASSUME RunsAssumption, Init PROVE Budget
<1>1. \A r \in Slot : run[r] = Free
  BY DEF Init
<1>2. Promised = {}
  BY <1>1 DEF Promised, Promise, Live, Alive, Free
<1>3. Total(run, {}) = 0
  BY FS_EmptySet, TotalTakesOne
<1>4. QED BY <1>1, <1>2, <1>3, FreeFits DEF Init, Budget, RunsAssumption

\* A step that promises nothing new.
LEMMA NothingPromised ==
    ASSUME RunsAssumption, Budget, \A q \in Slot : Fit(run'[q]),
           spent' \in Nat, spent <= spent', granted' = granted,
           \A q \in Slot : Promise(q)' => Promise(q) /\ run'[q].est = run[q].est
    PROVE  Budget'
<1>1. Promised' \subseteq Promised /\ Promised \subseteq Slot
  BY DEF Promised
<1>2. \A q \in Promised : run[q].est \in Nat
  BY DEF Promised, Budget, Fit
<1>3. \A q \in Promised' : run'[q].est \in Nat /\ run'[q].est <= run[q].est
  BY <1>2 DEF Promised
<1>4. IsFiniteSet(Promised) /\ IsFiniteSet(Promised')
  BY <1>1, FiniteSlots
<1>5. Total(run', Promised') <= Total(run, Promised)
  BY <1>1, <1>2, <1>3, <1>4, TotalGrows
<1>6. Total(run', Promised') \in Nat /\ Total(run, Promised) \in Nat
  BY <1>2, <1>3, <1>4, TotalSplits
<1>7. Ceiling \in Nat
  BY DEF RunsAssumption
<1>8. granted' + Total(run', Promised') <= Ceiling
  BY <1>5, <1>6, <1>7 DEF Budget
<1>9. QED BY <1>8 DEF Budget

LEMMA BecomesFit ==
    ASSUME NEW runs, NEW claims, Becomes(runs, claims), \A q \in Slot : Fit(runs[q])
    PROVE  \A q \in Slot : Fit(run'[q]) /\ (Live(q)' => run'[q] = runs[q])
<1>1. \A q \in Slot : run'[q] = runs[q] \/ run'[q] = Free
  BY DEF Becomes, Forgotten
<1>2. \A q \in Slot : run'[q] = Free => ~Live(q)'
  BY DEF Live, Alive, Free
<1>3. QED BY <1>1, <1>2, FreeFits

\* The sweep takes no reservation from a run that is alive.
LEMMA SweepSpares ==
    ASSUME Budget, NEW q \in Slot
    PROVE  /\ Fit(Swept(run)[q])
           /\ run[q].phase # "dead" => Swept(run)[q] = run[q]
           /\ Swept(run)[q].phase = run[q].phase
<1>1. Fit(run[q])
  BY DEF Budget
<1>2. CASE run[q].phase = "dead"
  BY <1>1, <1>2 DEF Swept, Fit, Free
<1>3. CASE run[q].phase # "dead"
  <2>1. ~Stale(run[q])
    BY <1>1, <1>3 DEF Fit, Stale, STALE_RESERVATION
  <2>2. QED BY <1>1, <1>3, <2>1 DEF Swept
<1>4. QED BY <1>2, <1>3

\* A grant: what fitted beside the reservations fits beside what is promised.
LEMMA GrantKeepsBudget ==
    ASSUME RunsAssumption, Budget, NEW r \in Slot, NEW amount \in Nat,
           run[r].phase \in {"free", "claimed", "resized"}, Fits(amount),
           Becomes(Granted(r, amount), claim), UNCHANGED <<spent, granted>>
    PROVE  Budget'
<1> DEFINE runs == Granted(r, amount)
           Rows == {q \in Slot : Swept(run)[q].held /\ Swept(run)[q].today}
           Others == Promised' \ {r}
<1>1. Swept(run) = [q \in Slot |-> Swept(run)[q]] /\ Swept(run)[r] = run[r]
  BY SweepSpares DEF Swept
<1>2. Fit(run[r])
  BY DEF Budget
<1>3. /\ runs[r].phase = "running" /\ runs[r].est = amount
      /\ runs[r].held /\ runs[r].today
      /\ runs[r].posted = run[r].posted /\ runs[r].age = run[r].age
      /\ \A q \in Slot \ {r} : runs[q] = Swept(run)[q]
  BY <1>1 DEF Granted
<1>4. Fit(runs[r]) /\ ~runs[r].posted
  BY <1>2, <1>3 DEF Fit, Stale, STALE_RESERVATION
<1>5. \A q \in Slot : Fit(runs[q])
  BY <1>3, <1>4, SweepSpares
<1>6. \A q \in Slot : Fit(run'[q]) /\ (Live(q)' => run'[q] = runs[q])
  BY <1>5, BecomesFit
<1>7. run'[r] = runs[r]
  <2>1. runs[r].phase # "dead" /\ Becomes(runs, claim)
    BY <1>3
  <2> HIDE DEF runs
  <2>2. QED BY <2>1 DEF Becomes, Forgotten
<1>8. ASSUME NEW q \in Others PROVE q \in Rows /\ run'[q] = Swept(run)[q]
  <2>1. q \in Slot /\ q # r /\ Promise(q)'
    BY DEF Promised
  <2>2. run'[q] = Swept(run)[q]
    BY <1>3, <1>6, <2>1 DEF Promise
  <2>3. Fit(run'[q]) /\ run'[q].phase \in {"claimed", "running", "ended"} /\ run'[q].today
    BY <1>6, <2>1 DEF Promise, Live, Alive
  <2>4. run'[q].held
    BY <2>3 DEF Fit
  <2>5. QED BY <2>1, <2>2, <2>3, <2>4
<1>9. r \in Promised'
  BY <1>3, <1>4, <1>7 DEF Promised, Promise, Live, Alive
<1>10. /\ IsFiniteSet(Rows) /\ IsFiniteSet(Promised') /\ IsFiniteSet(Others)
  BY FiniteSlots DEF Promised
<1>11. \A q \in Promised' : run'[q].est \in Nat
  BY <1>6 DEF Promised, Fit
<1>12. \A q \in Rows : Swept(run)[q].est \in Nat
  BY SweepSpares DEF Fit
<1>13. Total(run', Promised') = amount + Total(run', Others)
  BY <1>3, <1>7, <1>9, <1>10, <1>11, TotalSplits
<1>14. Total(run', Others) <= Total(Swept(run), Rows)
  <2>1. Others \in SUBSET Rows
    BY <1>8
  <2>2. \A q \in Others : run'[q].est \in Nat /\ run'[q].est <= Swept(run)[q].est
    BY <1>8, <1>12
  <2> HIDE DEF Others, Rows
  <2>3. QED BY <1>10, <1>12, <2>1, <2>2, TotalGrows
<1>15. Total(run', Others) \in Nat /\ Total(Swept(run), Rows) \in Nat
  <2>1. \A q \in Others : run'[q].est \in Nat
    BY <1>11
  <2> HIDE DEF Others, Rows
  <2>2. QED BY <1>10, <1>12, <2>1, TotalSplits
<1>16. Reserved(Swept(run)) = Total(Swept(run), Rows)
  BY DEF Reserved, Total, MapThenSumSet, MapThenFoldSet
<1>17. spent + Total(Swept(run), Rows) + amount <= Ceiling
  BY <1>16 DEF Fits
<1>18. granted' + Total(run', Promised') <= Ceiling
  <2> HIDE DEF Others, Rows
  <2>1. Ceiling \in Nat /\ spent \in Nat /\ granted \in Nat /\ granted <= spent
        /\ granted' = granted
    BY DEF RunsAssumption, Budget
  <2>2. QED BY <1>13, <1>14, <1>15, <1>17, <2>1
<1>19. QED BY <1>6, <1>18 DEF Budget

\* Receipts turn what is promised into what is spent.
LEMMA PostKeepsBudget ==
    ASSUME RunsAssumption, Shape, Budget, NEW r \in Slot, Post(r) PROVE Budget'
<1>1. PICK cost \in 1 .. run[r].est :
         spent' = spent + cost /\ granted' = IF run[r].today THEN granted + cost ELSE granted
  BY DEF Post
<1>2. /\ run[r].phase = "running" /\ ~run[r].posted
      /\ run' = [run EXCEPT ![r].posted = TRUE]
  BY DEF Post
<1>3. \A q \in Slot \ {r} : run'[q] = run[q]
  BY <1>2 DEF Shape
<1>4. /\ run'[r].phase = "running" /\ run'[r].posted /\ run'[r].est = run[r].est
      /\ run'[r].age = run[r].age /\ run'[r].held = run[r].held /\ run'[r].today = run[r].today
  BY <1>2 DEF Shape
<1>5. \A q \in Slot : Fit(run'[q])
  BY <1>2, <1>3, <1>4 DEF Budget, Fit, Stale
<1>6. Promised' = Promised \ {r}
  BY <1>3, <1>4 DEF Promised, Promise, Live, Alive
<1>7. cost \in Nat /\ cost <= run[r].est /\ run[r].est \in Nat
  BY DEF Budget, Fit
<1>8. \A q \in Promised : run[q].est \in Nat
  BY DEF Promised, Budget, Fit
<1>9. IsFiniteSet(Promised) /\ IsFiniteSet(Promised')
  BY FiniteSlots DEF Promised
<1>10. Total(run', Promised') <= Total(run, Promised \ {r})
  <2>1. \A q \in Promised' : run'[q].est \in Nat /\ run'[q].est <= run[q].est
    BY <1>3, <1>6, <1>8 DEF Promised
  <2>2. \A q \in Promised \ {r} : run[q].est \in Nat
    BY <1>8
  <2>3. QED BY <1>6, <1>9, <2>1, <2>2, TotalGrows
<1>11. Total(run', Promised') \in Nat
  <2>1. \A q \in Promised' : run'[q].est \in Nat
    BY <1>3, <1>6, <1>8 DEF Promised
  <2>2. QED BY <1>9, <2>1, TotalSplits
<1>12. Total(run, Promised \ {r}) \in Nat
  <2>1. \A q \in Promised \ {r} : run[q].est \in Nat
    BY <1>8
  <2>2. IsFiniteSet(Promised \ {r})
    BY <1>6, <1>9
  <2>3. QED BY <2>1, <2>2, TotalSplits
<1>13. /\ Ceiling \in Nat /\ spent \in Nat /\ granted \in Nat /\ granted <= spent
       /\ granted + Total(run, Promised) <= Ceiling
  BY DEF RunsAssumption, Budget
<1>14. granted' + Total(run', Promised') <= Ceiling /\ granted' \in Nat /\ granted' <= spent'
       /\ spent' \in Nat
  <2>1. CASE run[r].today
    <3>1. r \in Promised
      BY <1>2, <2>1 DEF Promised, Promise, Live, Alive
    <3>2. Total(run, Promised) = run[r].est + Total(run, Promised \ {r})
      BY <1>8, <1>9, <3>1, TotalSplits
    <3>3. granted' = granted + cost /\ spent' = spent + cost
      BY <1>1, <2>1
    <3>4. QED BY <1>7, <1>10, <1>11, <1>12, <1>13, <3>2, <3>3
  <2>2. CASE ~run[r].today
    <3>1. Promised \ {r} = Promised
      BY <2>2 DEF Promised, Promise
    <3>2. granted' = granted /\ spent' = spent + cost
      BY <1>1, <2>2
    <3>3. QED BY <1>7, <1>10, <1>11, <1>12, <1>13, <3>1, <3>2
  <2>3. QED BY <2>1, <2>2
<1>15. QED BY <1>5, <1>14 DEF Budget

\* A new day starts from nothing.
LEMMA MidnightKeepsBudget ==
    ASSUME RunsAssumption, Shape, Budget, Midnight PROVE Budget'
<1>1. \A q \in Slot : Fit(run'[q]) /\ ~run'[q].today
  BY DEF Midnight, Shape, Budget, Fit, Stale
<1>2. Promised' = {}
  BY <1>1 DEF Promised, Promise
<1>3. Total(run', {}) = 0
  BY FS_EmptySet, TotalTakesOne
<1>4. QED BY <1>1, <1>2, <1>3 DEF Midnight, Budget, RunsAssumption

\* What a step may make of a slot and promise nothing new by it.
Quiet(q, o) ==
    \/ o.phase \in {"free", "claimed", "resized", "dead"}
    \/ /\ run[q].phase \in {"running", "ended"}
       /\ o.est = run[q].est /\ o.today = run[q].today /\ o.posted = run[q].posted

LEMMA QuietKeepsBudget ==
    ASSUME RunsAssumption, Budget, spent' \in Nat, spent <= spent', granted' = granted,
           \A q \in Slot : Fit(run'[q]) /\ (Live(q)' => Quiet(q, run'[q]))
    PROVE  Budget'
<1>1. ASSUME NEW q \in Slot, Promise(q)' PROVE Promise(q) /\ run'[q].est = run[q].est
  BY <1>1 DEF Quiet, Promise, Live, Alive, Fit
<1>2. QED BY <1>1, NothingPromised

LEMMA BecomesKeepsBudget ==
    ASSUME RunsAssumption, Budget, NEW runs, NEW claims, Becomes(runs, claims),
           UNCHANGED <<spent, granted>>,
           \A q \in Slot : Fit(runs[q]) /\ Quiet(q, runs[q])
    PROVE  Budget'
<1>1. \A q \in Slot : Fit(run'[q]) /\ (Live(q)' => run'[q] = runs[q])
  BY BecomesFit
<1>2. spent' \in Nat /\ spent <= spent' /\ granted' = granted
  BY DEF Budget
<1>3. QED BY <1>1, <1>2, QuietKeepsBudget

\* What a sweep leaves, and what a step leaves alone.
LEMMA RestIsQuiet ==
    ASSUME Budget, NEW q \in Slot
    PROVE  /\ Fit(run[q]) /\ Quiet(q, run[q])
           /\ Fit(Swept(run)[q]) /\ Quiet(q, Swept(run)[q])
           /\ Fit(Free) /\ Quiet(q, Free)
<1>1. Fit(run[q]) /\ Quiet(q, run[q])
  BY DEF Budget, Fit, Quiet
<1>2. Quiet(q, Swept(run)[q])
  BY <1>1, SweepSpares DEF Quiet
<1>3. QED BY <1>1, <1>2, SweepSpares, FreeFits DEF Quiet, Free

LEMMA OneSlotKeepsBudget ==
    ASSUME RunsAssumption, Shape, Budget, NEW r \in Slot, NEW o, Fit(o), Quiet(r, o),
           NEW claims, UNCHANGED <<spent, granted>>,
           \/ Becomes([run EXCEPT ![r] = o], claims)
           \/ Becomes([Swept(run) EXCEPT ![r] = o], claims)
           \/ run' = [run EXCEPT ![r] = o]
    PROVE  Budget'
<1>1. CASE Becomes([run EXCEPT ![r] = o], claims)
  <2> DEFINE runs == [run EXCEPT ![r] = o]
  <2>1. \A q \in Slot : Fit(runs[q]) /\ Quiet(q, runs[q])
    BY RestIsQuiet DEF Shape
  <2> HIDE DEF runs
  <2>2. QED BY <1>1, <2>1, BecomesKeepsBudget DEF runs
<1>2. CASE Becomes([Swept(run) EXCEPT ![r] = o], claims)
  <2> DEFINE runs == [Swept(run) EXCEPT ![r] = o]
  <2>1. Swept(run) = [q \in Slot |-> Swept(run)[q]]
    BY DEF Swept
  <2>2. \A q \in Slot : Fit(runs[q]) /\ Quiet(q, runs[q])
    BY <2>1, RestIsQuiet
  <2> HIDE DEF runs
  <2>3. QED BY <1>2, <2>2, BecomesKeepsBudget DEF runs
<1>3. CASE run' = [run EXCEPT ![r] = o]
  <2>1. \A q \in Slot : Fit(run'[q]) /\ Quiet(q, run'[q])
    BY <1>3, RestIsQuiet DEF Shape
  <2>2. spent' \in Nat /\ spent <= spent' /\ granted' = granted
    BY DEF Budget
  <2>3. QED BY <2>1, <2>2, QuietKeepsBudget
<1>4. QED BY <1>1, <1>2, <1>3

LEMMA ClaimKeepsBudget ==
    ASSUME RunsAssumption, Inv, Budget, NEW r \in Run, NEW n, NEW p, Claim(r, n, p)
    PROVE  Budget'
<1> DEFINE o == [Free EXCEPT !.phase = "claimed", !.trig = n, !.by = p]
<1>1. Fit(o) /\ Quiet(r, o)
  BY DEF Fit, Quiet, Free, Stale
<1>2. Becomes([run EXCEPT ![r] = o], [claim EXCEPT ![n] = r]) /\ UNCHANGED <<spent, granted>>
  BY DEF Claim
<1> HIDE DEF o
<1>3. QED BY <1>1, <1>2, Slots, OneSlotKeepsBudget DEF Inv

LEMMA StampKeepsBudget ==
    ASSUME RunsAssumption, Inv, Budget, NEW r \in Run, NEW phase \in {"free", "ended"},
           phase = "ended" => run[r].phase = "running", Stamp(r, phase)
    PROVE  Budget'
<1> DEFINE o == IF phase = "free" THEN Free ELSE [run[r] EXCEPT !.phase = phase]
<1>1. r \in Slot /\ Fit(run[r]) /\ Typed(run[r])
  BY Slots DEF Budget, Inv, Shape, Typed
<1>2. Fit(o) /\ Quiet(r, o)
  <2>1. CASE phase = "free"
    BY <2>1, FreeFits DEF Quiet, Free
  <2>2. CASE phase = "ended"
    <3>1. /\ o.phase = "ended" /\ o.est = run[r].est /\ o.age = run[r].age
          /\ o.held = run[r].held /\ o.today = run[r].today /\ o.posted = run[r].posted
      BY <1>1, <2>2 DEF Typed
    <3> HIDE DEF o
    <3>2. QED BY <1>1, <2>2, <3>1 DEF Fit, Quiet, Stale
  <2>3. QED BY <2>1, <2>2
<1>3. /\ Becomes([run EXCEPT ![r] = o], [claim EXCEPT ![run[r].trig] = None])
      /\ UNCHANGED <<spent, granted>>
  BY DEF Stamp
<1> HIDE DEF o
<1>4. QED BY <1>1, <1>2, <1>3, OneSlotKeepsBudget DEF Inv

LEMMA ReserveKeepsBudget ==
    ASSUME RunsAssumption, Inv, Budget, NEW r \in Run, Reserve(r) PROVE Budget'
<1>1. r \in Slot /\ run[r].phase = "claimed" /\ Estimate[run[r].trig] \in Nat
  BY Slots DEF Reserve, Inv, Guards, Guarded, RunsAssumption
<1>2. CASE Fits(Estimate[run[r].trig])
  BY <1>1, <1>2, GrantKeepsBudget DEF Reserve
<1>3. CASE ~Fits(Estimate[run[r].trig])
  <2>1. /\ Becomes([Swept(run) EXCEPT ![r] = Free], [claim EXCEPT ![run[r].trig] = None])
        /\ UNCHANGED <<spent, granted>>
    BY <1>3 DEF Reserve
  <2>2. QED BY <1>1, <2>1, RestIsQuiet, OneSlotKeepsBudget DEF Inv
<1>4. QED BY <1>2, <1>3

\* The smaller batch is a batch.
LEMMA MaxIsNat ==
    ASSUME NEW n \in Nat, NEW S \in SUBSET (1 .. n), S # {} PROVE Max(S) \in S
<1> DEFINE Above == {m \in Nat : \A k \in S : k <= m}
<1>1. n \in Above /\ Above \subseteq Nat
  OBVIOUS
<1>2. PICK m \in Above : \A k \in Above : ~(<<k, m>> \in OpToRel(<, Nat))
  <2> HIDE DEF Above
  <2>1. QED BY <1>1, NatLessThanWellFounded, WFMin
<1>3. m \in S
  <2>1. SUFFICES ASSUME m \notin S PROVE FALSE
    OBVIOUS
  <2>2. m # 0 /\ m - 1 \in Nat
    <3>1. PICK k \in S : TRUE
      OBVIOUS
    <3>2. k \in 1 .. n /\ k <= m /\ m \in Nat
      BY <3>1
    <3> HIDE DEF Above
    <3>3. QED BY <3>2
  <2>3. m - 1 \in Above
    BY <2>1, <2>2
  <2>4. <<m - 1, m>> \in OpToRel(<, Nat)
    <3>1. m \in Nat /\ m - 1 < m
      BY <2>2
    <3> HIDE DEF Above
    <3>2. QED BY <2>2, <3>1 DEF OpToRel
  <2>5. QED BY <1>2, <2>3, <2>4
<1>4. \E x \in S : \A y \in S : x >= y
  BY <1>3
<1> HIDE DEF Above
<1>5. QED BY <1>4 DEF Max

LEMMA DrainKeepsBudget ==
    ASSUME RunsAssumption, Inv, Budget, NEW b \in Batch, NEW rows \in 1 .. MaxRows,
           Drain(b, rows)
    PROVE  Budget'
<1> DEFINE fewer == {k \in 1 .. rows - 1 :
                        spent + Reserved(Swept(run)) + k * RowCost < Ceiling}
           o == [Swept(run)[b] EXCEPT !.phase = "resized", !.est = Max(fewer) * RowCost]
<1>1. b \in Slot /\ run[b].phase = "free" /\ UNCHANGED <<spent, granted>>
  BY Slots DEF Drain
<1>2. RowCost \in Nat /\ rows \in Nat /\ rows - 1 \in Nat /\ rows * RowCost \in Nat
  BY DEF RunsAssumption
<1>3. CASE Fits(rows * RowCost)
  <2>1. Becomes(Granted(b, rows * RowCost), claim)
    BY <1>3 DEF Drain
  <2>2. QED BY <1>1, <1>2, <1>3, <2>1, GrantKeepsBudget
<1>4. CASE ~Fits(rows * RowCost) /\ fewer # {}
  <2>1. Becomes([Swept(run) EXCEPT ![b] = o], claim)
    <3>1. [Swept(run) EXCEPT ![b].phase = "resized", ![b].est = Max(fewer) * RowCost]
          = [Swept(run) EXCEPT ![b] = o]
      BY <1>1 DEF Swept
    <3>2. QED BY <1>4, <3>1 DEF Drain
  <2>2. Max(fewer) \in Nat
    <3>1. fewer \in SUBSET (1 .. rows - 1)
      OBVIOUS
    <3> HIDE DEF fewer
    <3>2. Max(fewer) \in fewer
      BY <1>2, <1>4, <3>1, MaxIsNat
    <3>3. Max(fewer) \in 1 .. rows - 1
      BY <3>1, <3>2
    <3> HIDE DEF o
    <3>4. QED BY <1>2, <3>3
  <2>3. Max(fewer) * RowCost \in Nat
    BY <1>2, <2>2
  <2>4. Swept(run)[b] = run[b] /\ Fit(run[b]) /\ Typed(run[b])
    BY <1>1, SweepSpares DEF Budget, Inv, Shape, Typed
  <2>5. /\ o.phase = "resized" /\ o.est = Max(fewer) * RowCost /\ o.age = run[b].age
        /\ o.held = run[b].held /\ o.today = run[b].today /\ o.posted = run[b].posted
    BY <2>4 DEF Typed
  <2>6. Fit(o) /\ Quiet(b, o)
    <3> HIDE DEF o, fewer
    <3>1. QED BY <1>1, <2>3, <2>4, <2>5 DEF Fit, Quiet
  <2> HIDE DEF o
  <2>7. QED BY <1>1, <2>1, <2>6, OneSlotKeepsBudget DEF Inv
<1>5. CASE ~Fits(rows * RowCost) /\ fewer = {}
  <2>1. Becomes(Swept(run), claim)
    BY <1>5 DEF Drain
  <2>2. QED BY <1>1, <2>1, RestIsQuiet, BecomesKeepsBudget
<1>6. QED BY <1>3, <1>4, <1>5

LEMMA DrainFewerKeepsBudget ==
    ASSUME RunsAssumption, Inv, Budget, NEW b \in Batch, DrainFewer(b) PROVE Budget'
<1>1. b \in Slot /\ run[b].phase = "resized" /\ run[b].est \in Nat
      /\ UNCHANGED <<spent, granted>>
  BY Slots DEF DrainFewer, Budget, Fit
<1>2. CASE Fits(run[b].est)
  BY <1>1, <1>2, GrantKeepsBudget DEF DrainFewer
<1>3. CASE ~Fits(run[b].est)
  <2>1. Becomes([Swept(run) EXCEPT ![b] = Free], claim)
    BY <1>3 DEF DrainFewer
  <2>2. QED BY <1>1, <2>1, RestIsQuiet, OneSlotKeepsBudget DEF Inv
<1>4. QED BY <1>2, <1>3

\* A dead run spends no more.
LEMMA DiedIsQuiet ==
    ASSUME Budget, NEW r \in Slot PROVE Fit(Died(r)) /\ Quiet(r, Died(r))
  BY DEF Budget, Died, Fit, Quiet, Free

LEMMA DieKeepsBudget ==
    ASSUME RunsAssumption, Inv, Budget, NEW r \in Slot, Die(r) PROVE Budget'
  BY DiedIsQuiet, OneSlotKeepsBudget DEF Die, Inv

LEMMA BootKeepsBudget ==
    ASSUME RunsAssumption, Inv, Budget, NEW swept, Boot(swept) PROVE Budget'
<1> DEFINE runs == [r \in Slot |-> IF Live(r) /\ run[r].by \in InServer THEN Died(r) ELSE run[r]]
<1>1. \A q \in Slot : Fit(runs[q]) /\ Quiet(q, runs[q])
  BY DiedIsQuiet, RestIsQuiet
<1>2. PICK claims : Becomes(runs, claims)
  BY DEF Boot
<1>3. UNCHANGED <<spent, granted>>
  BY DEF Boot
<1> HIDE DEF runs
<1>4. QED BY <1>1, <1>2, <1>3, BecomesKeepsBudget

LEMMA GrowKeepsBudget ==
    ASSUME RunsAssumption, EndsBeforeSweep, Inv, Budget, NEW r \in Slot, GrowOld(r)
    PROVE  Budget'
<1> DEFINE o == [run[r] EXCEPT !.age = @ + 1]
<1>1. Fit(run[r]) /\ Typed(run[r])
  BY DEF Budget, Inv, Shape, Typed
<1>2. /\ o.phase = run[r].phase /\ o.est = run[r].est /\ o.age = run[r].age + 1
      /\ o.held = run[r].held /\ o.today = run[r].today /\ o.posted = run[r].posted
  BY <1>1 DEF Typed
<1>3. \/ run[r].phase = "running" /\ run[r].age < OldestRun
      \/ run[r].phase = "dead"
  BY DEF GrowOld
<1>4. OldestRun \in {0, 1}
  BY DEF RunsAssumption, EndsBeforeSweep, RunAge, STALE_RESERVATION
<1>5. run' = [run EXCEPT ![r] = o] /\ UNCHANGED <<spent, granted>>
  BY DEF GrowOld
<1> HIDE DEF o
<1>6. Fit(o) /\ Quiet(r, o)
  BY <1>1, <1>2, <1>3, <1>4 DEF Fit, Quiet, Stale, STALE_RESERVATION
<1>7. QED BY <1>5, <1>6, OneSlotKeepsBudget DEF Inv

LEMMA StepKeepsBudget ==
    ASSUME RunsAssumption, EndsBeforeSweep, Inv, Budget, [Next]_vars PROVE Budget'
<1>1. CASE \E r \in Run, n \in Trigger : \/ \E p \in {"scheduler", "find"} : ClaimDue(r, n, p)
                                         \/ Click(r, n)
  BY <1>1, ClaimKeepsBudget DEF ClaimDue, Click
<1>2. CASE \E r \in Run : RecordRun(r) \/ FireFailed(r) \/ Reserve(r)
  BY <1>2, StampKeepsBudget, ReserveKeepsBudget DEF RecordRun, FireFailed
<1>3. CASE \E b \in Batch : (\E rows \in 1 .. MaxRows : Drain(b, rows)) \/ DrainFewer(b)
  BY <1>3, DrainKeepsBudget, DrainFewerKeepsBudget
<1>4. CASE \E r \in Slot : Post(r)
  BY <1>4, PostKeepsBudget DEF Inv
<1>5. CASE \E r \in Slot : Release(r)
  BY <1>5, RestIsQuiet, OneSlotKeepsBudget DEF Release, Inv
<1>6. CASE \E r \in Slot : Die(r) \/ GrowOld(r)
  BY <1>6, DieKeepsBudget, GrowKeepsBudget
<1>7. CASE \E swept \in BOOLEAN : Boot(swept)
  BY <1>7, BootKeepsBudget
<1>8. CASE OtherCall
  BY <1>8, RestIsQuiet, BecomesKeepsBudget DEF OtherCall
<1>9. CASE Midnight
  BY <1>9, MidnightKeepsBudget DEF Inv
<1>10. CASE SpendByHand \/ (\E n \in Trigger : Elapse(n)) \/ UNCHANGED vars
  <2>1. run' = run /\ spent' \in Nat /\ spent <= spent' /\ granted' = granted
    BY <1>10 DEF SpendByHand, Elapse, vars, Budget
  <2>2. QED BY <2>1, RestIsQuiet, QuietKeepsBudget
<1>11. QED
  BY <1>1, <1>2, <1>3, <1>4, <1>5, <1>6, <1>7, <1>8, <1>9, <1>10 DEF Next

\* What a day's runs and batches spend of their budgets, and what the living
\* ones may still spend of them, stays within the ceiling: no death, sweep,
\* resize, late run, boot or midnight frees a reservation that is still spent
\* from (tryReserveDailySpend, sweepStaleSpendReservations, drainQueue).
THEOREM CeilingHolds ==
    ASSUME RunsAssumption, EndsBeforeSweep PROVE Spec => []GrantsWithinCeiling
<1>1. Budget => GrantsWithinCeiling
  BY DEF Budget, GrantsWithinCeiling, Total, Promised, Promise, MapThenSumSet, MapThenFoldSet
<1>2. Spec => []Budget
  BY InitBudget, StepKeepsBudget, Invariance, PTL DEF Spec
<1>3. QED BY <1>1, <1>2, PTL
=============================================================================
