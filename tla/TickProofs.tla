------------------------------ MODULE TickProofs ------------------------------
(***************************************************************************)
(* One invite per profile and the day's share, for any number of rows,     *)
(* profiles, workspaces, workers, attempts and faults; and no answer lost, *)
(* for any mail, any pages and any number of processes that poll.          *)
(***************************************************************************)
EXTENDS MCTick, FiniteSetTheorems, WellFoundedInduction, TLAPS

-----------------------------------------------------------------------------
(* Invites.  Claims are settled by whoever comes by, and name a worker or  *)
(* a workspace; the invariant shows that what a claim holds is             *)
(* nevertheless one key: the only one of its profile that may be out, or   *)
(* that somebody may still call out.  Then the day's share: slots are      *)
(* passed on from task to pending send to task, by their number, and       *)
(* whoever gives one back gives back its own.                              *)

\* The records of the state, with the slots left open.
TaskShape(t) ==
    \/ t = Idle
    \/ /\ t = [at |-> t.at, key |-> t.key, fresh |-> t.fresh, slot |-> t.slot, ans |-> t.ans]
       /\ t.at # "idle" /\ t.key \in Key /\ t.fresh \in BOOLEAN
       /\ t.at \in {"claimed", "slotted"} => t.fresh

ClaimShape(c) ==
    \/ c = Free
    \/ /\ c = [st |-> c.st, ws |-> c.ws, by |-> c.by, key |-> c.key, again |-> c.again]
       /\ c.st \in {"reserved", "lapsed", "dispatched", "confirmed"}
       /\ c.key \in Key

PendShape(s) ==
    s = Free \/ (s = [st |-> s.st, slot |-> s.slot] /\ s.st \in {"job", "capped"})

TaskFunction == task = [w \in Worker |-> task[w]]
ClaimFunction == claim = [p \in Profile |-> claim[p]]
Shapes ==
    /\ job \in [Key -> {None, "running"} \cup Ended]
    /\ attempt \in [Row -> 0 .. MaxAttempt] /\ stolen \subseteq Profile
    /\ TaskFunction /\ \A w \in Worker : TaskShape(task[w])
    /\ ClaimFunction /\ \A p \in Profile : ClaimShape(claim[p])
    /\ pend = [k \in Key |-> pend[k]] /\ \A k \in Key : PendShape(pend[k])

\* It sends nothing, and reads at most.
Reads(w) == task[w].at \in {"idle", "asked", "listed", "proved"}

\* Between its claim and its call, a first send counts on its own claim only.
Early(w) == task[w].at \in {"claimed", "slotted"}
HasClaim(w) == LET p == ProfileOfKey(task[w].key) IN claim[p] # Free /\ claim[p].by = w

\* Who is about to give everything back has read that the job failed.
FailedIsRead ==
    \A w \in Worker :
        At(w, "noted") \/ At(w, "proved") \/ (At(w, "answered") /\ task[w].ans = "failed")
            => job[task[w].key] = "failed"

\* A claim that names a worker is for the row the worker is sending.
OwnKey ==
    \A w \in Worker :
        Early(w) /\ HasClaim(w) => claim[ProfileOfKey(task[w].key)].key = task[w].key

\* An invite that may be out, or that somebody may yet call out.
Calls(w, k) ==
    /\ At(w, "calling") \/ (At(w, "answered") /\ task[w].ans = "capped")
    /\ task[w].key = k
Active(k) ==
    \/ job[k] \in Unknown
    \/ job[k] = None /\ (pend[k].st = "capped" \/ \E w \in Worker : Calls(w, k))

\* Several workers may send one row, and some may have lost their claim to another:
\* what a worker can tell is that nothing is out under the claim it still has.
NotYetActive ==
    \A w \in Worker :
        Early(w) /\ HasClaim(w) => ProfileOfKey(task[w].key) \in stolen \/ ~Active(task[w].key)

ActiveHolds ==
    \A k \in Key : LET p == ProfileOfKey(k) IN
        Active(k) => \/ p \in stolen
                     \/ claim[p].st \in {"dispatched", "confirmed"} /\ claim[p].key = k

Inv == Shapes /\ FailedIsRead /\ OwnKey /\ NotYetActive /\ ActiveHolds
-----------------------------------------------------------------------------
(* What a step does to a worker's task and to the claims, field by field.  *)

Fields(t) == [at |-> t.at, key |-> t.key, fresh |-> t.fresh, slot |-> t.slot, ans |-> t.ans]
Others(w) == \A u \in Worker \ {w} : task'[u] = task[u]

LEMMA Goes1 ==
  ASSUME Shapes, NEW w \in Worker, NEW at, task[w] # Idle, Goes(w, at)
  PROVE  task'[w] = [Fields(task[w]) EXCEPT !.at = at] /\ Others(w) /\ TaskFunction'
  BY DEF Shapes, TaskFunction, TaskShape, Goes, Fields, Others

LEMMA Answered1 ==
  ASSUME Shapes, NEW w \in Worker, NEW ans, task[w] # Idle, Answered(w, ans)
  PROVE  /\ task'[w] = [Fields(task[w]) EXCEPT !.at = "answered", !.ans = ans]
         /\ Others(w) /\ TaskFunction'
  BY DEF Shapes, TaskFunction, TaskShape, Answered, Fields, Others

LEMMA Becomes1 ==
  ASSUME Shapes, NEW w \in Worker, NEW t, task' = [task EXCEPT ![w] = t]
  PROVE  task'[w] = t /\ Others(w) /\ TaskFunction'
  BY DEF Shapes, TaskFunction, Others

LEMMA KeyProfile == ASSUME NEW k \in Key PROVE ProfileOfKey(k) \in Profile
  BY LinkedInAssumption DEF ProfileOfKey, Key

LEMMA TaskKey ==
  ASSUME Shapes, NEW w \in Worker, ~At(w, "idle")
  PROVE  /\ task[w] # Idle /\ task[w].key \in Key
         /\ ProfileOfKey(task[w].key) \in Profile
<1>1. task[w] # Idle /\ TaskShape(task[w])
  BY DEF Shapes, At, Idle
<1>2. QED BY <1>1, KeyProfile DEF TaskShape

LEMMA Release1 ==
  ASSUME Shapes, NEW w \in Worker, task[w] # Idle, ReleaseClaim(w)
  PROVE  LET p == ProfileOfKey(task[w].key) IN
         /\ ClaimFunction' /\ stolen \subseteq stolen' /\ stolen' \subseteq Profile
         /\ \A q \in Profile \ {p} : claim'[q] = claim[q]
         /\ \/ claim'[p] = claim[p]
            \/ claim'[p] = Free /\ Mine(w) /\ (p \in stolen' \/ claim[p].key = task[w].key)
<1> DEFINE p == ProfileOfKey(task[w].key)
<1>1. p \in Profile /\ stolen \subseteq Profile /\ ClaimFunction
  BY KeyProfile DEF Shapes, TaskShape
<1>2. CASE Mine(w)
  <2>1. claim' = [claim EXCEPT ![p] = Free]
    BY <1>2 DEF ReleaseClaim
  <2>2. stolen' = IF claim[p].key = task[w].key THEN stolen ELSE stolen \cup {p}
    BY <1>2 DEF ReleaseClaim
  <2> HIDE DEF p
  <2>3. claim'[p] = Free /\ ClaimFunction' /\ \A q \in Profile \ {p} : claim'[q] = claim[q]
    BY <1>1, <2>1 DEF ClaimFunction
  <2>4. stolen \subseteq stolen' /\ stolen' \subseteq Profile
        /\ (p \in stolen' \/ claim[p].key = task[w].key)
    BY <1>1, <2>2
  <2>5. QED BY <1>2, <2>3, <2>4 DEF p
<1>3. CASE ~Mine(w)
  BY <1>1, <1>3 DEF ReleaseClaim, ClaimFunction
<1>4. QED BY <1>2, <1>3

\* The steps of a task that goes on with its key.
GoesOn == {<<"claimed", "slotted">>, <<"slotted", "calling">>, <<"calling", "waiting">>,
           <<"calling", "answered">>, <<"waiting", "answered">>, <<"answered", "noted">>}

\* What a worker at a call, or one that waits for the job, may be answered.
Hears(w) == IF At(w, "calling") THEN {"capped", "lost"} ELSE {"pending", job[task[w].key]}

\* How a worker's task may change: it ends or turns to reading; it goes on; or
\* it begins to send, or comes to wait for what was sent.
TaskEffect(w) ==
    /\ TaskFunction' /\ Others(w) /\ TaskShape(task[w])'
    /\ \/ Reads(w)' /\ (task'[w].at = "proved" => job[task'[w].key] = "failed")
       \/ /\ task[w] # Idle /\ task'[w].key = task[w].key
          /\ <<task[w].at, task'[w].at>> \in GoesOn
          /\ task'[w].at = "calling" => Dispatch(w)
          /\ task'[w].at = "answered" => task'[w].ans \in Hears(w)
          /\ task'[w].at = "noted" => task[w].ans = "failed"
       \/ /\ At(w, "idle") /\ task'[w].at \in {"claimed", "calling"}
          /\ task'[w].at = "claimed" => Claim(w, task'[w].key[1])
          /\ task'[w].at = "calling" => pend[task'[w].key].st = "capped"
       \/ task'[w].at = "waiting"

LEMMA WorkTask == ASSUME Shapes, NEW w \in Worker, Work(w) PROVE TaskEffect(w)
<1> USE DEF Reads, At
<1>0. Idle.at = "idle" /\ TaskShape(Idle) /\ TaskShape(task[w])
  BY DEF Idle, TaskShape, Shapes
<1>1. ASSUME NEW r \in Row, Claim(w, r) PROVE TaskEffect(w)
  <2>1. task' = [task EXCEPT ![w] = Task("claimed", KeyOf(r), TRUE, 0)]
    BY <1>1 DEF Claim
  <2>2. task'[w] = Task("claimed", KeyOf(r), TRUE, 0) /\ Others(w) /\ TaskFunction'
    BY <2>1, Becomes1
  <2>3. KeyOf(r) \in Key /\ KeyOf(r)[1] = r
    BY DEF KeyOf, Key, Shapes
  <2>4. TaskShape(task[w])' /\ task'[w].key[1] = r /\ task'[w].at = "claimed"
    BY <2>2, <2>3 DEF TaskShape, Task
  <2>5. QED BY <1>1, <2>2, <2>4 DEF TaskEffect, Claim
<1>2. ASSUME NEW r \in Row, Resume(w, r) PROVE TaskEffect(w)
  <2>1. KeyOf(r) \in Key /\ KeyOf(r)[1] = r
    BY DEF KeyOf, Key, Shapes
  <2>2. CASE UNCHANGED task
    BY <1>0, <1>2, <2>2 DEF Resume, TaskEffect, Others, Shapes, TaskFunction
  <2>3. ASSUME NEW at \in {"waiting", "calling"}, NEW slot,
               at = "calling" => pend[KeyOf(r)].st = "capped",
               task' = [task EXCEPT ![w] = Task(at, KeyOf(r), FALSE, slot)]
        PROVE  TaskEffect(w)
    <3>1. task'[w] = Task(at, KeyOf(r), FALSE, slot) /\ Others(w) /\ TaskFunction'
      BY <2>3, Becomes1
    <3>2. TaskShape(task[w])' /\ task'[w].key = KeyOf(r) /\ task'[w].at = at
      BY <3>1, <2>1 DEF TaskShape, Task
    <3>3. QED BY <1>2, <2>1, <2>3, <3>1, <3>2 DEF TaskEffect, Resume
  <2>4. QED BY <1>2, <2>2, <2>3 DEF Resume
<1>3. ASSUME task'[w] = Idle, Others(w), TaskFunction' PROVE TaskEffect(w)
  BY <1>0, <1>3 DEF TaskEffect, Idle
<1>4. ASSUME Rests(w) PROVE TaskEffect(w)
  BY <1>3, <1>4, Becomes1 DEF Rests
<1>5. ASSUME NEW at, Goes(w, at), task[w].at # "idle", at # "idle",
             \/ at \in {"calling", "waiting", "noted"} /\ <<task[w].at, at>> \in GoesOn
             \/ at = "proved" /\ job[task[w].key] = "failed",
             at = "calling" => Dispatch(w), at = "noted" => task[w].ans = "failed"
      PROVE  TaskEffect(w)
  <2>1. task'[w] = [Fields(task[w]) EXCEPT !.at = at] /\ Others(w) /\ TaskFunction'
    BY <1>0, <1>5, Goes1
  <2>2. task[w] # Idle /\ TaskShape(task[w])' /\ task'[w].key = task[w].key /\ task'[w].at = at
    BY <1>0, <1>5, <2>1 DEF Fields, TaskShape
  <2>3. QED BY <1>5, <2>1, <2>2 DEF TaskEffect
<1>6. ASSUME NEW ans \in Hears(w), Answered(w, ans), task[w].at \in {"calling", "waiting"}
      PROVE  TaskEffect(w)
  <2>1. /\ task'[w] = [Fields(task[w]) EXCEPT !.at = "answered", !.ans = ans]
        /\ Others(w) /\ TaskFunction'
    BY <1>0, <1>6, Answered1
  <2>2. task[w] # Idle /\ TaskShape(task[w])' /\ task'[w].key = task[w].key
        /\ task'[w].at = "answered" /\ task'[w].ans = ans
    BY <1>0, <1>6, <2>1 DEF Fields, TaskShape
  <2>3. QED BY <1>6, <2>1, <2>2 DEF TaskEffect, GoesOn
<1>7. CASE TakeSlot(w)
  <2>1. CASE Rests(w)
    BY <1>4, <2>1
  <2>2. CASE task' = [task EXCEPT ![w].at = "slotted", ![w].slot = Len(slots) + 1]
    <3>1. task'[w] = [Fields(task[w]) EXCEPT !.at = "slotted", !.slot = Len(slots) + 1]
          /\ Others(w) /\ TaskFunction'
      BY <1>0, <1>7, <2>2 DEF TakeSlot, Shapes, TaskShape, TaskFunction, Fields, Others
    <3>2. task[w] # Idle /\ TaskShape(task[w])' /\ task'[w].key = task[w].key
          /\ task'[w].at = "slotted"
      BY <1>0, <1>7, <3>1 DEF Fields, TaskShape, TakeSlot
    <3>3. QED BY <1>7, <3>1, <3>2 DEF TaskEffect, GoesOn, TakeSlot
  <2>3. QED BY <1>7, <2>1, <2>2 DEF TakeSlot
<1>8. CASE Dispatch(w) \/ Call(w) \/ NoteFailed(w)
  BY <1>4, <1>5, <1>8 DEF Dispatch, Call, NoteFailed, GoesOn
<1>9. CASE Unanswered(w) \/ Wait(w)
  BY <1>6, <1>9 DEF Unanswered, Wait, Hears, Ended
<1>10. CASE KeepPending(w) \/ KeepClaim(w) \/ GiveBack(w) \/ RecordSent(w) \/ Reconcile(w) \/ Die(w)
  BY <1>4, <1>10 DEF KeepPending, KeepClaim, GiveBack, RecordSent, Reconcile, Die
<1>11. ASSUME NEW k \in Key, NEW at \in {"asked", "listed"}, NEW ans,
              task' = [task EXCEPT ![w] = [Task(at, k, FALSE, 0) EXCEPT !.ans = ans]]
       PROVE  TaskEffect(w)
  <2>1. task'[w] = [Task(at, k, FALSE, 0) EXCEPT !.ans = ans] /\ Others(w) /\ TaskFunction'
    BY <1>11, Becomes1
  <2>2. TaskShape(task[w])' /\ task'[w].at = at
    BY <2>1 DEF TaskShape, Task
  <2>3. QED BY <2>1, <2>2 DEF TaskEffect
<1>12. ASSUME NEW k \in Key, Ask(w, k) PROVE TaskEffect(w)
  <2>1. task'[w] = [Task("asked", k, FALSE, pend[k].slot) EXCEPT !.ans = pend[k].st]
        /\ Others(w) /\ TaskFunction'
    BY <1>12, Becomes1 DEF Ask
  <2>2. TaskShape(task[w])' /\ task'[w].at = "asked"
    BY <2>1 DEF TaskShape, Task
  <2>3. QED BY <2>1, <2>2 DEF TaskEffect
<1>13. ASSUME NEW p \in Profile, ListClaim(w, p) PROVE TaskEffect(w)
  <2>1. ClaimShape(claim[p]) /\ claim[p].st \in {"reserved", "lapsed", "dispatched"}
    BY <1>13 DEF ListClaim, Unsettled, Shapes
  <2>2. claim[p].key \in Key
    BY <2>1 DEF ClaimShape, Free, None
  <2>3. QED BY <1>11, <1>13, <2>2 DEF ListClaim
<1>14. CASE Recover(w)
  <2>1. CASE Rests(w)
    BY <1>4, <2>1
  <2>2. ASSUME NEW slot,
               task' = [task EXCEPT ![w] = Task("waiting", KeyOf(task[w].key[1]), FALSE, slot)]
        PROVE  TaskEffect(w)
    <3>1. task'[w] = Task("waiting", KeyOf(task[w].key[1]), FALSE, slot)
          /\ Others(w) /\ TaskFunction'
      BY <2>2, Becomes1
    <3>2. KeyOf(task[w].key[1]) \in Key
      BY <1>0, <1>14 DEF Recover, KeyOf, Key, Shapes, TaskShape
    <3>3. TaskShape(task[w])' /\ task'[w].at = "waiting"
      BY <3>1, <3>2 DEF TaskShape, Task
    <3>4. QED BY <3>1, <3>3 DEF TaskEffect
  <2>3. QED BY <1>14, <2>1, <2>2 DEF Recover
<1>15. CASE Prove(w)
  BY <1>4, <1>5, <1>15 DEF Prove
<1>16. QED
  BY <1>1, <1>2, <1>7, <1>8, <1>9, <1>10, <1>12, <1>13, <1>14, <1>15 DEF Work

\* How the claims may change: they are settled; freed, by somebody who had the
\* claim's own key and nothing out under it; or taken over when nobody held them.
Frees(p) ==
    \E w \in Worker : /\ task[w] # Idle /\ ProfileOfKey(task[w].key) = p
                      /\ claim[p].key = task[w].key
                      /\ (Early(w) /\ HasClaim(w)) \/ job[task[w].key] = "failed"
ClaimEffect(p) ==
    \/ claim'[p] = claim[p]
    \/ /\ claim[p] # Free /\ claim'[p] # Free
       /\ claim'[p].key = claim[p].key /\ claim'[p].by = claim[p].by
       /\ claim[p].st \in {"dispatched", "confirmed"}
          => claim'[p].st \in {"dispatched", "confirmed"}
    \/ claim'[p] = Free /\ (p \in stolen' \/ Frees(p))
    \/ \E w \in Worker, r \in Row : Claim(w, r) /\ ProfileOf[r] = p
Claims ==
    /\ ClaimFunction' /\ stolen \subseteq stolen' /\ stolen' \subseteq Profile
    /\ \A p \in Profile : ClaimShape(claim[p])' /\ ClaimEffect(p)

LEMMA OneClaim ==
  ASSUME Shapes, NEW p \in Profile,
         ClaimFunction', stolen \subseteq stolen', stolen' \subseteq Profile,
         \A q \in Profile \ {p} : claim'[q] = claim[q],
         ClaimShape(claim[p])', ClaimEffect(p)
  PROVE  Claims
<1>1. ASSUME NEW q \in Profile \ {p} PROVE ClaimShape(claim[q])' /\ ClaimEffect(q)
  BY DEF ClaimEffect, ClaimShape, Shapes
<1>2. QED BY <1>1 DEF Claims

LEMMA Settled1 ==
  ASSUME Shapes, NEW p \in Profile, claim[p] # Free, NEW st, claim' = Settled(p, st),
         st \in {"lapsed", "dispatched", "confirmed"},
         st = "lapsed" => claim[p].st = "reserved", UNCHANGED stolen
  PROVE  Claims
<1>1. claim[p] = [st |-> claim[p].st, ws |-> claim[p].ws, by |-> claim[p].by,
                  key |-> claim[p].key, again |-> claim[p].again] /\ claim[p].key \in Key
  BY DEF Shapes, ClaimShape
<1>2. claim'[p] = [st |-> st, ws |-> claim[p].ws, by |-> claim[p].by, key |-> claim[p].key,
                   again |-> claim[p].again]
      /\ ClaimFunction' /\ \A q \in Profile \ {p} : claim'[q] = claim[q]
  BY <1>1 DEF Settled, Shapes, ClaimFunction
<1>3. ClaimShape(claim[p])' /\ ClaimEffect(p)
  BY <1>1, <1>2 DEF ClaimShape, ClaimEffect, Free, None
<1>4. QED BY <1>2, <1>3, OneClaim DEF Shapes

LEMMA Kept1 == ASSUME Shapes, UNCHANGED <<claim, stolen>> PROVE Claims
  BY DEF Claims, ClaimEffect, Shapes, ClaimFunction

LEMMA Freed1 ==
  ASSUME Inv, NEW w \in Worker, task[w] # Idle, ReleaseClaim(w),
         Early(w) \/ At(w, "noted") \/ At(w, "proved")
  PROVE  Claims
<1>1. PICK p \in Profile : p = ProfileOfKey(task[w].key)
  BY TaskKey DEF Inv, Early, At
<1>2. /\ ClaimFunction' /\ stolen \subseteq stolen' /\ stolen' \subseteq Profile
      /\ \A q \in Profile \ {p} : claim'[q] = claim[q]
      /\ \/ claim'[p] = claim[p]
         \/ claim'[p] = Free /\ Mine(w) /\ (p \in stolen' \/ claim[p].key = task[w].key)
  BY <1>1, Release1 DEF Inv
<1>3. Early(w) /\ Mine(w) => HasClaim(w)
  <2>1. TaskShape(task[w])
    BY DEF Inv, Shapes
  <2>2. Early(w) => task[w].fresh
    BY <2>1 DEF TaskShape, Early
  <2>3. Mine(w) => claim[p] # Free
    BY <1>1 DEF Mine, Unsettled, Free, None
  <2>4. QED BY <1>1, <2>2, <2>3 DEF Mine, HasClaim
<1>4. claim[p].key = task[w].key /\ Mine(w) => Frees(p)
  BY <1>1, <1>3 DEF Frees, Inv, FailedIsRead
<1>5. ClaimEffect(p)
  BY <1>2, <1>4 DEF ClaimEffect
<1>6. ClaimShape(claim[p])'
  <2>1. ClaimShape(claim[p]) /\ ClaimShape(Free)
    BY DEF Inv, Shapes, ClaimShape
  <2>2. QED BY <1>2, <2>1
<1>7. Shapes
  BY DEF Inv
<1>8. QED BY <1>2, <1>5, <1>6, <1>7, OneClaim

LEMMA StepClaims == ASSUME Inv, [Next]_vars PROVE Claims
<1> USE DEF Inv
<1>0. \A w \in Worker : Early(w) \/ At(w, "noted") \/ At(w, "proved") => task[w] # Idle
  BY DEF Early, At, Idle
<1>1. ASSUME NEW w \in Worker, NEW r \in Row, Claim(w, r) PROVE Claims
  <2>1. PICK p \in Profile : p = ProfileOf[r]
    BY LinkedInAssumption
  <2>2. /\ claim' = [claim EXCEPT ![p] =
                       [st |-> "reserved", ws |-> WorkspaceOf[r], by |-> w, key |-> KeyOf(r),
                        again |-> job[KeyOf(r)] = "failed"]]
        /\ UNCHANGED stolen /\ KeyOf(r) \in Key
    BY <1>1, <2>1 DEF Claim, history, Shapes, KeyOf, Key
  <2>3. ClaimFunction' /\ \A q \in Profile \ {p} : claim'[q] = claim[q]
    BY <2>2 DEF Shapes, ClaimFunction
  <2>4. ClaimShape(claim[p])'
    BY <2>1, <2>2 DEF ClaimShape, Shapes, ClaimFunction
  <2>5. ClaimEffect(p)
    BY <1>1, <2>1 DEF ClaimEffect
  <2>6. stolen \subseteq stolen' /\ stolen' \subseteq Profile /\ Shapes
    BY <2>2 DEF Shapes
  <2>7. QED BY <2>3, <2>4, <2>5, <2>6, OneClaim
<1>2. ASSUME NEW w \in Worker, TakeSlot(w) PROVE Claims
  <2>1. Early(w) /\ task[w] # Idle
    BY <1>0, <1>2 DEF TakeSlot, At, Early
  <2>2. CASE UNCHANGED <<claim, stolen>>
    BY <2>2, Kept1
  <2>3. CASE ReleaseClaim(w)
    BY <2>1, <2>3, Freed1
  <2>4. QED BY <1>2, <2>2, <2>3 DEF TakeSlot
<1>3. ASSUME NEW w \in Worker, Dispatch(w) PROVE Claims
  <2> DEFINE p == ProfileOfKey(task[w].key)
  <2>1. Early(w) /\ ~At(w, "idle")
    BY <1>3 DEF Dispatch, Early, At
  <2> HIDE DEF p
  <2>0. task[w] # Idle /\ p \in Profile
    BY <2>1, TaskKey DEF p
  <2>2. CASE claim[p].st \in {"reserved", "lapsed"} /\ claim[p].by = w
    <3>1. claim' = Settled(p, "dispatched") /\ UNCHANGED stolen
      BY <1>3, <2>2 DEF Dispatch, Settled, p
    <3>2. claim[p] # Free
      BY <2>2 DEF Free, None
    <3>3. QED BY <2>0, <3>1, <3>2, Settled1
  <2>3. CASE ~(claim[p].st \in {"reserved", "lapsed"} /\ claim[p].by = w)
    BY <1>3, <2>0, <2>1, <2>3, Freed1 DEF Dispatch, p
  <2>4. QED BY <2>2, <2>3
<1>4. ASSUME NEW w \in Worker, RecordSent(w) PROVE Claims
  <2> DEFINE p == ProfileOfKey(task[w].key)
  <2>1. p \in Profile /\ UNCHANGED stolen
    BY <1>4, TaskKey DEF RecordSent, history, At
  <2>2. CASE Mine(w)
    <3>1. claim' = Settled(p, "confirmed") /\ claim[p] # Free
      BY <1>4, <2>2 DEF RecordSent, ConfirmedClaim, Mine, Unsettled, Free, None
    <3>2. QED BY <2>1, <3>1, Settled1
  <2>3. CASE ~Mine(w)
    BY <1>4, <2>1, <2>3, Kept1 DEF RecordSent, ConfirmedClaim
  <2>4. QED BY <2>2, <2>3
<1>5. ASSUME NEW w \in Worker, GiveBack(w) \/ Reconcile(w) PROVE Claims
  BY <1>0, <1>5, Freed1 DEF GiveBack, Reconcile
<1>6. ASSUME NEW p \in Profile, Lapse(p) PROVE Claims
  BY <1>6, Settled1 DEF Lapse, history, Free, None
<1>7. ASSUME NEW w \in Worker,
             \/ (\E r \in Row : Resume(w, r)) \/ Call(w) \/ Unanswered(w) \/ Wait(w)
             \/ KeepPending(w) \/ KeepClaim(w) \/ NoteFailed(w) \/ (\E k \in Key : Ask(w, k))
             \/ (\E p \in Profile : ListClaim(w, p)) \/ Recover(w) \/ Prove(w) \/ Die(w)
      PROVE  UNCHANGED <<claim, stolen>>
  BY <1>7
  DEF Resume, Call, Unanswered, Wait, KeepPending, KeepClaim, NoteFailed, Ask, ListClaim,
      Recover, Prove, Die, shared, history
<1>8. ASSUME \/ (\E i \in DOMAIN slots : LapseSlot(i)) \/ (\E k \in Key : JobEnds(k))
             \/ NewDay \/ UNCHANGED vars
      PROVE  UNCHANGED <<claim, stolen>>
  BY <1>8 DEF LapseSlot, JobEnds, NewDay, vars, shared, history
<1>9. QED
  BY <1>1, <1>2, <1>3, <1>4, <1>5, <1>6, <1>7, <1>8, Kept1 DEF Next, Work

-----------------------------------------------------------------------------
(* What a step does to the jobs, the attempts and the pending sends.       *)

\* A job is taken in from a worker that calls, and ends.
JobEffect(k) ==
    \/ job'[k] = job[k]
    \/ /\ job[k] = None /\ job'[k] = "running"
       /\ \E w \in Worker : At(w, "calling") /\ task[w].key = k
    \/ job[k] = "running" /\ job'[k] \in Ended
Jobs == job' \in [Key -> {None, "running"} \cup Ended] /\ \A k \in Key : JobEffect(k)

LEMMA StepJobs == ASSUME Shapes, [Next]_vars PROVE Jobs
<1>1. ASSUME UNCHANGED job PROVE Jobs
  BY <1>1 DEF Jobs, JobEffect, Shapes
<1>2. ASSUME NEW w \in Worker, Call(w) \/ Unanswered(w) PROVE Jobs
  <2>1. At(w, "calling") /\ (Arrives(task[w].key, task[w].slot) \/ UNCHANGED job)
    BY <1>2 DEF Call, Unanswered
  <2>2. PICK k \in Key : k = task[w].key
    BY <2>1, TaskKey DEF At
  <2>3. CASE job' = [job EXCEPT ![k] = "running"] /\ job[k] = None
    BY <2>1, <2>2, <2>3 DEF Jobs, JobEffect, Shapes, Ended
  <2>4. QED BY <1>1, <2>1, <2>2, <2>3 DEF Arrives
<1>3. ASSUME NEW k \in Key, JobEnds(k) PROVE Jobs
  BY <1>3 DEF JobEnds, Jobs, JobEffect, Shapes
<1>4. ASSUME NEW w \in Worker, Work(w) PROVE Call(w) \/ Unanswered(w) \/ UNCHANGED job
  BY <1>4
  DEF Work, Claim, Resume, TakeSlot, Dispatch, Wait, KeepPending, KeepClaim, NoteFailed, GiveBack,
      RecordSent, Ask, ListClaim, Recover, Prove, Reconcile, Die
<1>5. CASE (\E p \in Profile : Lapse(p)) \/ (\E i \in DOMAIN slots : LapseSlot(i))
           \/ NewDay \/ UNCHANGED vars
  BY <1>1, <1>5 DEF Lapse, LapseSlot, NewDay, vars
<1>6. QED BY <1>1, <1>2, <1>3, <1>4, <1>5 DEF Next

LEMMA StepAttempt == ASSUME Shapes, [Next]_vars PROVE attempt' \in [Row -> 0 .. MaxAttempt]
<1>1. ASSUME UNCHANGED attempt PROVE attempt' \in [Row -> 0 .. MaxAttempt]
  BY <1>1 DEF Shapes
<1>2. ASSUME NEW k \in Key, attempt' = MovedOn(k) PROVE attempt' \in [Row -> 0 .. MaxAttempt]
  <2>1. k[1] \in Row /\ k[2] \in 0 .. MaxAttempt /\ MaxAttempt \in Nat
    BY LinkedInAssumption DEF Key
  <2>2. k[2] < MaxAttempt => k[2] + 1 \in 0 .. MaxAttempt
    BY <2>1
  <2>3. QED BY <1>2, <2>1, <2>2 DEF MovedOn, Shapes
<1>3. ASSUME NEW w \in Worker, NoteFailed(w) PROVE attempt' \in [Row -> 0 .. MaxAttempt]
  BY <1>2, <1>3, TaskKey DEF NoteFailed, At
<1>4. ASSUME NEW w \in Worker, Reconcile(w) PROVE attempt' \in [Row -> 0 .. MaxAttempt]
  <2>1. task[w].key \in Key
    BY <1>4, TaskKey DEF Reconcile, At
  <2>2. KeyOf(task[w].key[1]) \in Key
    BY <2>1 DEF KeyOf, Key, Shapes
  <2>3. QED BY <1>1, <1>2, <1>4, <2>2 DEF Reconcile
<1>5. ASSUME NEW w \in Worker, Work(w)
      PROVE  NoteFailed(w) \/ Reconcile(w) \/ UNCHANGED attempt
  BY <1>5
  DEF Work, Claim, Resume, TakeSlot, Dispatch, Call, Unanswered, Wait, KeepPending, KeepClaim,
      GiveBack, RecordSent, Ask, ListClaim, Recover, Prove, Die, ledger
<1>6. CASE \/ (\E p \in Profile : Lapse(p)) \/ (\E i \in DOMAIN slots : LapseSlot(i))
           \/ NewDay \/ (\E k \in Key : JobEnds(k)) \/ UNCHANGED vars
  BY <1>1, <1>6 DEF Lapse, LapseSlot, NewDay, JobEnds, vars, ledger
<1>7. QED BY <1>1, <1>3, <1>4, <1>5, <1>6 DEF Next

\* A send is kept as capped by the worker that was answered so.
PendEffect(k) ==
    \/ pend'[k] = pend[k]
    \/ pend'[k].st # "capped"
    \/ \E w \in Worker : At(w, "answered") /\ task[w].ans = "capped" /\ task[w].key = k
Pends ==
    /\ pend' = [k \in Key |-> pend'[k]]
    /\ \A k \in Key : PendShape(pend[k])' /\ PendEffect(k)

LEMMA Pend1 ==
  ASSUME Shapes, NEW k \in Key, NEW s, pend' = [pend EXCEPT ![k] = s], PendShape(s),
         \/ s.st # "capped"
         \/ \E w \in Worker : At(w, "answered") /\ task[w].ans = "capped" /\ task[w].key = k
  PROVE  Pends
<1>1. pend'[k] = s /\ \A j \in Key \ {k} : pend'[j] = pend[j]
  BY DEF Shapes
<1>2. \A j \in Key : PendShape(pend'[j])
  BY <1>1 DEF Shapes
<1>3. QED BY <1>1, <1>2 DEF Pends, PendEffect, Shapes

LEMMA StepPends == ASSUME Shapes, [Next]_vars PROVE Pends
<1>1. ASSUME UNCHANGED pend PROVE Pends
  BY <1>1 DEF Pends, PendEffect, Shapes
<1>2. ASSUME NEW k \in Key, pend' = [pend EXCEPT ![k] = Free] PROVE Pends
  BY <1>2, Pend1 DEF PendShape, Free, None
<1>3. ASSUME NEW r \in Row, NEW w \in Worker, Resume(w, r) PROVE Pends
  <2>1. KeyOf(r) \in Key
    BY DEF KeyOf, Key, Shapes
  <2>2. QED BY <1>1, <1>2, <1>3, <2>1 DEF Resume
<1>4. ASSUME NEW w \in Worker, KeepPending(w) PROVE Pends
  <2>1. task[w].key \in Key
    BY <1>4, TaskKey DEF KeepPending, At
  <2>2. CASE task[w].ans = "pending"
    BY <1>4, <2>1, <2>2, Pend1 DEF KeepPending, PendShape
  <2>3. CASE task[w].ans = "capped"
    BY <1>4, <2>1, <2>3, Pend1 DEF KeepPending, PendShape
  <2>4. QED BY <1>4, <2>2, <2>3 DEF KeepPending
<1>5. ASSUME NEW w \in Worker, KeepClaim(w) \/ GiveBack(w) \/ RecordSent(w) PROVE Pends
  <2>1. task[w].key \in Key
    BY <1>5, TaskKey DEF KeepClaim, GiveBack, RecordSent, At
  <2>2. QED BY <1>1, <1>2, <1>5, <2>1 DEF KeepClaim, GiveBack, RecordSent
<1>6. ASSUME NEW w \in Worker, Recover(w) PROVE Pends
  <2>1. task[w].key \in Key
    BY <1>6, TaskKey DEF Recover, At
  <2>2. CASE pend' = [pend EXCEPT ![task[w].key] = [st |-> "job", slot |-> task[w].slot]]
    BY <2>1, <2>2, Pend1 DEF PendShape
  <2>3. QED BY <1>1, <1>6, <2>2 DEF Recover
<1>7. ASSUME NEW w \in Worker, Work(w)
      PROVE  \/ (\E r \in Row : Resume(w, r)) \/ KeepPending(w) \/ KeepClaim(w) \/ GiveBack(w)
             \/ RecordSent(w) \/ Recover(w) \/ UNCHANGED pend
  BY <1>7
  DEF Work, Claim, TakeSlot, Dispatch, Call, Unanswered, Wait, NoteFailed, Ask, ListClaim,
      Prove, Reconcile, Die, ledger
<1>8. CASE \/ (\E p \in Profile : Lapse(p)) \/ (\E i \in DOMAIN slots : LapseSlot(i))
           \/ NewDay \/ (\E k \in Key : JobEnds(k)) \/ UNCHANGED vars
  BY <1>1, <1>8 DEF Lapse, LapseSlot, NewDay, JobEnds, vars, ledger
<1>9. QED BY <1>1, <1>3, <1>4, <1>5, <1>6, <1>7, <1>8 DEF Next

\* One worker moves at a time, and every other keeps its task.
LEMMA StepTasks ==
  ASSUME Shapes, [Next]_vars
  PROVE  UNCHANGED task \/ \E w \in Worker : Work(w) /\ TaskEffect(w)
<1>1. CASE \E w \in Worker : Work(w)
  BY <1>1, WorkTask
<1>2. CASE \/ (\E p \in Profile : Lapse(p)) \/ (\E i \in DOMAIN slots : LapseSlot(i))
           \/ NewDay \/ (\E k \in Key : JobEnds(k)) \/ UNCHANGED vars
  BY <1>2 DEF Lapse, LapseSlot, NewDay, JobEnds, vars
<1>3. QED BY <1>1, <1>2 DEF Next

LEMMA ShapesStep == ASSUME Inv, [Next]_vars PROVE Shapes'
<1>1. Shapes
  BY DEF Inv
<1>2. Jobs /\ attempt' \in [Row -> 0 .. MaxAttempt] /\ Pends /\ Claims
  BY <1>1, StepJobs, StepAttempt, StepPends, StepClaims
<1>3. TaskFunction' /\ \A w \in Worker : TaskShape(task[w])'
  BY <1>1, StepTasks DEF TaskEffect, Others, Shapes, TaskFunction
<1>4. QED BY <1>2, <1>3 DEF Shapes, Jobs, Pends, Claims

-----------------------------------------------------------------------------
(* When an invite may come to be out: only once its claim is dispatched.   *)

Dispatched(w, k) ==
    LET p == ProfileOfKey(k) IN
    /\ Dispatch(w) /\ At(w, "slotted") /\ task[w].key = k
    /\ claim[p].st \in {"reserved", "lapsed"} /\ claim[p].by = w
    /\ claim'[p].st = "dispatched" /\ claim'[p].key = claim[p].key /\ claim'[p].by = w
    /\ task'[w].at = "calling"

LEMMA DispatchedHolds ==
  ASSUME Inv, NEW w \in Worker, Dispatch(w), task'[w].at = "calling"
  PROVE  Dispatched(w, task[w].key)
<1>1. Shapes /\ At(w, "slotted") /\ ~At(w, "idle")
  BY DEF Inv, Dispatch, At
<1>2. PICK p \in Profile : p = ProfileOfKey(task[w].key)
  BY <1>1, TaskKey
<1>3. ~Rests(w)
  BY <1>1, Becomes1 DEF Rests, Idle
<1>4. /\ claim[p].st \in {"reserved", "lapsed"} /\ claim[p].by = w
      /\ claim' = [claim EXCEPT ![p].st = "dispatched"]
  BY <1>2, <1>3 DEF Dispatch
<1>5. ClaimShape(claim[p]) /\ ClaimFunction /\ claim[p] # Free
  BY <1>1, <1>4 DEF Shapes, Free, None
<1>6. claim[p] = [st |-> claim[p].st, ws |-> claim[p].ws, by |-> claim[p].by,
                  key |-> claim[p].key, again |-> claim[p].again]
  BY <1>5 DEF ClaimShape
<1>7. claim'[p].st = "dispatched" /\ claim'[p].key = claim[p].key /\ claim'[p].by = w
  BY <1>4, <1>5, <1>6 DEF ClaimFunction
<1>8. QED BY <1>1, <1>2, <1>4, <1>7 DEF Dispatched

LEMMA StepActive ==
  ASSUME Inv, [Next]_vars, NEW k \in Key, Active(k)'
  PROVE  Active(k) \/ \E w \in Worker : Dispatched(w, k)
<1>1. Shapes /\ JobEffect(k) /\ PendEffect(k)
  BY StepJobs, StepPends DEF Inv, Jobs, Pends
<1>2. CASE job'[k] \in Unknown
  BY <1>1, <1>2 DEF JobEffect, Active, Unknown, Calls
<1>3. CASE job'[k] = None
  <2>1. job[k] = None
    BY <1>1, <1>3 DEF JobEffect, Ended, None
  <2>2. CASE pend'[k].st = "capped"
    BY <1>1, <2>1, <2>2 DEF PendEffect, Active, Calls
  <2>3. ASSUME NEW u \in Worker, Calls(u, k)'
        PROVE  Active(k) \/ \E w \in Worker : Dispatched(w, k)
    <3>1. CASE task'[u] = task[u]
      BY <2>1, <2>3, <3>1 DEF Active, Calls, At
    <3>2. CASE TaskEffect(u)
      <4>1. ~Reads(u)' /\ ~(task'[u].at = "waiting")
        BY <2>3 DEF Calls, At, Reads
      <4>2. CASE /\ task[u] # Idle /\ task'[u].key = task[u].key
                 /\ <<task[u].at, task'[u].at>> \in GoesOn
                 /\ task'[u].at = "calling" => Dispatch(u)
                 /\ task'[u].at = "answered" => task'[u].ans \in Hears(u)
        <5>1. CASE task'[u].at = "calling"
          BY <2>3, <4>2, <5>1, DispatchedHolds DEF Calls
        <5>2. CASE task'[u].at = "answered" /\ task'[u].ans = "capped"
          <6>1. task[u].key = k /\ job[task[u].key] # "capped"
            BY <2>1, <2>3, <4>2 DEF Calls, None
          <6>2. At(u, "calling")
            BY <4>2, <5>2, <6>1 DEF Hears
          <6>3. QED BY <2>1, <6>1, <6>2 DEF Active, Calls
        <5>3. QED BY <2>3, <5>1, <5>2 DEF Calls, At
      <4>3. CASE task'[u].at \in {"claimed", "waiting", "calling"}
                 /\ (task'[u].at = "calling" => pend[task'[u].key].st = "capped")
        BY <2>1, <2>3, <4>1, <4>3 DEF Calls, At, Active
      <4>4. QED BY <3>2, <4>1, <4>2, <4>3 DEF TaskEffect
    <3>3. QED BY <1>1, <3>1, <3>2, StepTasks DEF TaskEffect, Others
  <2>4. QED BY <1>3, <2>2, <2>3 DEF Active, Unknown, None
<1>4. QED BY <1>2, <1>3 DEF Active

-----------------------------------------------------------------------------
(* The invariant.                                                          *)

LEMMA NextKey ==
  ASSUME Inv, [Next]_vars, NEW w \in Worker, ~At(w, "idle")'
  PROVE  task'[w].key \in Key /\ ProfileOfKey(task'[w].key) \in Profile
<1>1. TaskShape(task'[w]) /\ task'[w] # Idle
  BY ShapesStep DEF Shapes, At, Idle
<1>2. QED BY <1>1, KeyProfile DEF TaskShape

LEMMA FailedStep == ASSUME Inv, [Next]_vars PROVE FailedIsRead'
<1>0. FailedIsRead /\ Shapes /\ (UNCHANGED task \/ \E w \in Worker : TaskEffect(w))
  BY StepTasks DEF Inv
<1>1. ASSUME NEW k, k \in Key, job[k] = "failed" PROVE job'[k] = "failed"
  BY <1>0, <1>1, StepJobs DEF Jobs, JobEffect, None
<1>2. SUFFICES ASSUME NEW w \in Worker,
                      At(w, "noted")' \/ At(w, "proved")'
                        \/ (At(w, "answered")' /\ task'[w].ans = "failed")
               PROVE  job'[task'[w].key] = "failed"
  BY DEF FailedIsRead
<1>3. task'[w].key \in Key
  BY <1>2, NextKey DEF At
<1>4. job[task'[w].key] = "failed"
  <2>1. CASE task'[w] = task[w]
    BY <1>0, <1>2, <2>1 DEF FailedIsRead, At
  <2>2. CASE TaskEffect(w)
    <3>1. CASE Reads(w)' /\ (task'[w].at = "proved" => job[task'[w].key] = "failed")
      BY <1>2, <3>1 DEF At, Reads
    <3>2. CASE /\ task'[w].key = task[w].key
               /\ <<task[w].at, task'[w].at>> \in GoesOn
               /\ task'[w].at = "answered" => task'[w].ans \in Hears(w)
               /\ task'[w].at = "noted" => task[w].ans = "failed"
      BY <1>0, <1>2, <3>2 DEF FailedIsRead, GoesOn, Hears, At
    <3>3. ~(task'[w].at \in {"claimed", "waiting", "calling"})
      BY <1>2 DEF At
    <3>4. \/ Reads(w)' /\ (task'[w].at = "proved" => job[task'[w].key] = "failed")
          \/ /\ task'[w].key = task[w].key
             /\ <<task[w].at, task'[w].at>> \in GoesOn
             /\ task'[w].at = "answered" => task'[w].ans \in Hears(w)
             /\ task'[w].at = "noted" => task[w].ans = "failed"
      BY <2>2, <3>3 DEF TaskEffect
    <3>5. QED BY <3>1, <3>2, <3>4
  <2>3. task'[w] = task[w] \/ TaskEffect(w)
    <3>1. \A v \in Worker : TaskEffect(v) => Others(v)
      BY DEF TaskEffect
    <3>2. QED BY <1>0, <3>1 DEF Others
  <2>4. QED BY <2>1, <2>2, <2>3
<1>5. QED BY <1>1, <1>3, <1>4

\* A worker that claimed its profile, or goes on towards its call.
LEMMA StepEarly ==
  ASSUME Inv, [Next]_vars, NEW w \in Worker, Early(w)'
  PROVE  \/ Early(w) /\ task'[w].key = task[w].key
         \/ \E r \in Row : Claim(w, r) /\ task'[w].key = KeyOf(r)
<1>1. CASE task'[w] = task[w]
  BY <1>1 DEF Early
<1>2. CASE TaskEffect(w)
  <2>1. CASE /\ task'[w].key = task[w].key /\ <<task[w].at, task'[w].at>> \in GoesOn
    BY <2>1 DEF Early, GoesOn
  <2>2. CASE At(w, "idle") /\ task'[w].at = "claimed" /\ Claim(w, task'[w].key[1])
    <3>1. task'[w].key \in Key
      BY <2>2, NextKey DEF At
    <3>2. PICK r \in Row : r = task'[w].key[1]
      BY <3>1 DEF Key
    <3>3. task'[w] = Task("claimed", KeyOf(r), TRUE, 0)
      BY <2>2, <3>2, Becomes1 DEF Claim, Inv
    <3>4. QED BY <2>2, <3>2, <3>3 DEF Task
  <2>3. ~Reads(w)' /\ ~(task'[w].at \in {"waiting", "calling"})
    BY DEF Early, Reads
  <2>4. QED BY <1>2, <2>1, <2>2, <2>3 DEF TaskEffect
<1>3. QED BY <1>1, <1>2, StepTasks DEF TaskEffect, Others, Inv

LEMMA ClaimTakes ==
  ASSUME Shapes, NEW w \in Worker, NEW r \in Row, Claim(w, r)
  PROVE  /\ ~Held(ProfileOf[r])
         /\ claim'[ProfileOf[r]].by = w /\ claim'[ProfileOf[r]].key = KeyOf(r)
<1>1. ProfileOf[r] \in Profile
  BY LinkedInAssumption
<1>2. QED BY <1>1 DEF Claim, Shapes, ClaimFunction

\* The claim a worker has after a step it had before, or it has just made it.
LEMMA StepClaimed ==
  ASSUME Inv, [Next]_vars, NEW w \in Worker, Early(w)', NEW p \in Profile,
         p = ProfileOfKey(task'[w].key), claim'[p] # Free, claim'[p].by = w
  PROVE  \/ /\ Early(w) /\ HasClaim(w) /\ task'[w].key = task[w].key
            /\ claim'[p].key = claim[p].key
         \/ \E r \in Row : Claim(w, r) /\ task'[w].key = KeyOf(r)
<1>0. Shapes /\ Claims
  BY StepClaims DEF Inv
<1>1. CASE Early(w) /\ task'[w].key = task[w].key
  <2>1. CASE claim[p] # Free /\ claim'[p].by = claim[p].by /\ claim'[p].key = claim[p].key
    BY <1>1, <2>1 DEF HasClaim
  <2>2. ASSUME NEW v \in Worker, NEW r \in Row, Claim(v, r), ProfileOf[r] = p PROVE FALSE
    <3>1. v = w
      BY <1>0, <2>2, ClaimTakes
    <3>2. QED BY <1>1, <2>2, <3>1 DEF Claim, At, Early
  <2>3. QED BY <1>0, <2>1, <2>2 DEF Claims, ClaimEffect
<1>2. QED BY <1>1, StepEarly

LEMMA OwnKeyStep == ASSUME Inv, [Next]_vars PROVE OwnKey'
<1>0. Shapes /\ OwnKey
  BY DEF Inv
<1>1. SUFFICES ASSUME NEW w \in Worker, Early(w)', NEW p \in Profile,
                      p = ProfileOfKey(task'[w].key), claim'[p] # Free, claim'[p].by = w
               PROVE  claim'[p].key = task'[w].key
  <2>1. \A w \in Worker : Early(w)' => ProfileOfKey(task'[w].key) \in Profile
    BY NextKey DEF Early, At
  <2>2. QED BY <2>1 DEF OwnKey, HasClaim, ProfileOfKey
<1>2. CASE /\ Early(w) /\ HasClaim(w) /\ task'[w].key = task[w].key
           /\ claim'[p].key = claim[p].key
  BY <1>0, <1>1, <1>2 DEF OwnKey
<1>3. ASSUME NEW r \in Row, Claim(w, r), task'[w].key = KeyOf(r)
      PROVE  claim'[p].key = task'[w].key
  <2>1. p = ProfileOf[r]
    BY <1>1, <1>3 DEF ProfileOfKey, KeyOf
  <2>2. QED BY <1>0, <1>3, <2>1, ClaimTakes
<1>4. QED BY <1>1, <1>2, <1>3, StepClaimed

LEMMA NotYetStep == ASSUME Inv, [Next]_vars PROVE NotYetActive'
<1>0. Shapes /\ NotYetActive /\ ActiveHolds /\ stolen \subseteq stolen'
  BY StepClaims DEF Inv, Claims
<1>1. SUFFICES ASSUME NEW w \in Worker, Early(w)', NEW k \in Key, k = task'[w].key, Active(k)',
                      NEW p \in Profile, p = ProfileOfKey(k), claim'[p] # Free, claim'[p].by = w
               PROVE  p \in stolen'
  <2>1. \A w \in Worker :
           Early(w)' => task'[w].key \in Key /\ ProfileOfKey(task'[w].key) \in Profile
    BY NextKey DEF Early, At
  <2>2. QED BY <2>1 DEF NotYetActive, HasClaim, ProfileOfKey
<1>2. CASE Active(k)
  <2>1. CASE Early(w) /\ HasClaim(w) /\ task'[w].key = task[w].key
    BY <1>0, <1>1, <1>2, <2>1 DEF NotYetActive
  <2>2. ASSUME NEW r \in Row, Claim(w, r), task'[w].key = KeyOf(r)
        PROVE  p \in stolen'
    <3>1. ~Held(p)
      BY <1>0, <1>1, <2>2, ClaimTakes DEF ProfileOfKey, KeyOf
    <3>2. QED BY <1>0, <1>1, <1>2, <3>1 DEF ActiveHolds, Held
  <2>3. QED BY <1>1, <2>1, <2>2, StepClaimed
\* Who called this invite out has the claim, and is not where it was.
<1>3. ASSUME NEW v \in Worker, Dispatched(v, k) PROVE FALSE
  <2>1. v = w
    BY <1>1, <1>3 DEF Dispatched
  <2>2. QED BY <1>1, <1>3, <2>1 DEF Dispatched, Early
<1>4. QED BY <1>1, <1>2, <1>3, StepActive

LEMMA HoldsStep == ASSUME Inv, [Next]_vars PROVE ActiveHolds'
<1>0. Shapes /\ OwnKey /\ NotYetActive /\ ActiveHolds /\ Claims
  BY StepClaims DEF Inv
<1>1. SUFFICES ASSUME NEW k \in Key, Active(k)', NEW p \in Profile, p = ProfileOfKey(k),
                      p \notin stolen'
               PROVE  claim'[p].st \in {"dispatched", "confirmed"} /\ claim'[p].key = k
  BY KeyProfile DEF ActiveHolds, ProfileOfKey
<1>2. p \notin stolen /\ ClaimEffect(p)
  BY <1>0, <1>1 DEF Claims
<1>3. CASE Active(k)
  <2>1. claim[p].st \in {"dispatched", "confirmed"} /\ claim[p].key = k
    BY <1>0, <1>1, <1>2, <1>3 DEF ActiveHolds
  <2>2. ~Frees(p)
    <3>1. SUFFICES ASSUME NEW w \in Worker, task[w].key = k,
                          (Early(w) /\ HasClaim(w)) \/ job[k] = "failed"
                   PROVE  FALSE
      BY <2>1 DEF Frees
    <3>2. CASE Early(w) /\ HasClaim(w)
      BY <1>0, <1>1, <1>2, <1>3, <3>1, <3>2 DEF NotYetActive
    <3>3. CASE job[k] = "failed"
      BY <1>3, <3>3 DEF Active, Unknown, None
    <3>4. QED BY <3>1, <3>2, <3>3
  <2>3. ASSUME NEW w \in Worker, NEW r \in Row, Claim(w, r), ProfileOf[r] = p PROVE FALSE
    BY <1>0, <2>1, <2>3, ClaimTakes DEF Held
  <2>4. QED BY <1>1, <1>2, <2>1, <2>2, <2>3 DEF ClaimEffect
<1>4. ASSUME NEW w \in Worker, Dispatched(w, k)
      PROVE  claim'[p].st \in {"dispatched", "confirmed"} /\ claim'[p].key = k
  <2>1. Early(w) /\ claim[p] # Free /\ claim[p].by = w /\ task[w].key = k
    BY <1>1, <1>4 DEF Dispatched, Early, At, Free, None
  <2>2. claim[p].key = k
    BY <1>0, <1>1, <2>1 DEF OwnKey, HasClaim
  <2>3. QED BY <1>1, <1>4, <2>2 DEF Dispatched
<1>5. QED BY <1>1, <1>3, <1>4, StepActive

LEMMA Initial == Init => Inv
<1> SUFFICES ASSUME Init PROVE Inv
  OBVIOUS
<1> USE DEF Init, Free, Idle, None
<1>1. Shapes
  BY LinkedInAssumption DEF Shapes, TaskFunction, ClaimFunction, TaskShape, ClaimShape, PendShape
<1>2. \A w \in Worker : task[w].at = "idle"
  OBVIOUS
<1>3. FailedIsRead /\ OwnKey /\ NotYetActive
  BY <1>2 DEF FailedIsRead, OwnKey, NotYetActive, Early, At
<1>4. ActiveHolds
  BY <1>2 DEF ActiveHolds, Active, Calls, Unknown, At
<1>5. QED BY <1>1, <1>3, <1>4 DEF Inv

-----------------------------------------------------------------------------
(* The theorems.                                                           *)

LEMMA Invariance == Spec => []Inv
<1>1. Inv /\ [Next]_vars => Inv'
  BY ShapesStep, FailedStep, OwnKeyStep, NotYetStep, HoldsStep DEF Inv
<1>2. QED BY <1>1, Initial, PTL DEF Spec

\* An invite that is or may be out holds its profile for everybody, whatever
\* its caller read or lost.
THEOREM OutHoldsItsProfile == Spec => []OutIsClaimed
<1>1. Inv => OutIsClaimed
  BY DEF Inv, OutIsClaimed, MaybeOut, ActiveHolds, Active
<1>2. QED BY <1>1, Invariance, PTL

\* At most one invite to a profile is or may be out, over all rows, attempts
\* and workspaces.
THEOREM OneInvitationPerProfile == Spec => []OneInvitation
<1>1. ASSUME Inv, NEW p \in Profile \ stolen PROVE Cardinality(MaybeOut(p)) <= 1
  <2>1. MaybeOut(p) \subseteq {claim[p].key}
    BY <1>1 DEF Inv, MaybeOut, ActiveHolds, Active
  <2>2. Cardinality({}) = 0 /\ \A k : Cardinality({k}) = 1
    BY FS_EmptySet, FS_Singleton
  <2>3. MaybeOut(p) = {} \/ MaybeOut(p) = {claim[p].key}
    BY <2>1
  <2>4. Cardinality(MaybeOut(p)) = 0 \/ Cardinality(MaybeOut(p)) = 1
    BY <2>2, <2>3
  <2>5. QED BY <2>4
<1>2. Inv => OneInvitation
  BY <1>1 DEF OneInvitation
<1>3. QED BY <1>2, Invariance, PTL

-----------------------------------------------------------------------------
(* The slots.  A slot keeps its key until it is freed, and whoever knows a *)
(* slot knows it as its own key's; so what a worker gives back is not the  *)
(* slot that counts for an invite that may be out.                         *)

SlotRec ==
    {s \in [ws : Workspace, key : Key, st : {"reserved", "lapsed", "confirmed"}] :
        s.ws = WorkspaceOfKey(s.key)}
SlotsTyped == slots \in Seq({Free} \cup SlotRec) /\ made \subseteq Key \X Nat

\* Slot i is, or was until it was freed, the one of key k.
Known(i, k) == i \in DOMAIN slots /\ (slots[i] = Free \/ slots[i].key = k)

Slotless == {"idle", "claimed", "listed", "proved"}
TasksKnow == \A w \in Worker : task[w].at \notin Slotless => Known(task[w].slot, task[w].key)
PendsKnow == \A k \in Key : pend[k] # Free => Known(pend[k].slot, k)

\* Before its call, a worker's slot is in nobody else's hands.
HasSlot(t, i) == t.at \notin Slotless /\ t.slot = i
OwnSlot ==
    \A u \in Worker : At(u, "slotted") =>
        /\ \A w \in Worker \ {u} : ~HasSlot(task[w], task[u].slot)
        /\ \A k \in Key : pend[k] # Free => pend[k].slot # task[u].slot

\* The slot of an invite that may be out today counts, and is not one that a
\* worker is about to take out or give back.
Counts(x) ==
    /\ x[2] \in Counted(WorkspaceOfKey(x[1])) /\ slots[x[2]].key = x[1]
    /\ \A w \in Worker : At(w, "slotted") => task[w].slot # x[2]
Kept == \A x \in CountedOut : Counts(x)

\* What was taken in ran.
MadeRan == \A x \in made : job[x[1]] # None

SlotInv == MadeRan /\ SlotsTyped /\ TasksKnow /\ PendsKnow /\ OwnSlot /\ Kept

LEMMA KeyWorkspace == ASSUME NEW k \in Key PROVE WorkspaceOfKey(k) \in Workspace
  BY LinkedInAssumption DEF WorkspaceOfKey, Key

\* How the slots there are may change: one is freed or changes its status.
SlotEffect(i) ==
    /\ i \in DOMAIN slots'
    /\ \/ slots'[i] = Free
       \/ slots[i] # Free /\ slots'[i] # Free /\ slots'[i].key = slots[i].key
          /\ slots'[i].ws = slots[i].ws
       \/ slots'[i] = slots[i]

SlotsTurn == slots' \in Seq({Free} \cup SlotRec) /\ DOMAIN slots' = DOMAIN slots

LEMMA SlotIs ==
  ASSUME SlotsTyped, NEW i \in DOMAIN slots
  PROVE  /\ slots[i] \in {Free} \cup SlotRec /\ DOMAIN slots = 1 .. Len(slots)
         /\ Free \notin SlotRec
         /\ slots[i].st # None => slots[i] \in SlotRec
  BY DEF SlotsTyped, SlotRec, Free, None

\* A slot that is replaced by one of its key, or by none.
LEMMA Replaced ==
  ASSUME SlotsTyped, NEW j \in DOMAIN slots, NEW s \in {Free} \cup SlotRec,
         slots' = [slots EXCEPT ![j] = s], s = Free \/ (slots[j] # Free /\ s.key = slots[j].key)
  PROVE  SlotsTurn /\ \A i \in DOMAIN slots : SlotEffect(i)
<1>1. slots' \in Seq({Free} \cup SlotRec) /\ DOMAIN slots' = DOMAIN slots
  BY DEF SlotsTyped
<1>2. slots'[j] = s /\ \A i \in DOMAIN slots : i # j => slots'[i] = slots[i]
  BY DEF SlotsTyped
<1>3. s # Free => s.ws = slots[j].ws
  BY SlotIs DEF SlotRec
<1>4. QED BY <1>1, <1>2, <1>3 DEF SlotEffect, SlotsTurn

LEMMA Unchanged1 ==
  ASSUME SlotsTyped, slots' = slots
  PROVE  SlotsTurn /\ \A i \in DOMAIN slots : SlotEffect(i)
  BY DEF SlotsTyped, SlotEffect, SlotsTurn

LEMMA Confirmed1 ==
  ASSUME SlotInv, NEW w \in Worker, task[w].at \notin Slotless, slots' = ConfirmedSlot(w)
  PROVE  /\ SlotsTurn
         /\ \A i \in DOMAIN slots :
               SlotEffect(i) /\ (slots'[i] = slots[i] \/ slots'[i].st = "confirmed")
<1> DEFINE j == task[w].slot
<1>1. j \in DOMAIN slots
  BY DEF SlotInv, TasksKnow, Known
<1>2. CASE slots' = slots
  BY <1>2, Unchanged1 DEF SlotInv
<1>3. CASE /\ slots[j].st \in {"reserved", "lapsed"}
           /\ slots' = [slots EXCEPT ![j].st = "confirmed"]
  <2> DEFINE s == [slots[j] EXCEPT !.st = "confirmed"]
  <2>1. slots[j] \in SlotRec /\ slots[j] # Free
    BY <1>1, <1>3, SlotIs DEF SlotInv, Free, None
  <2>2. s \in SlotRec /\ s.key = slots[j].key /\ s.st = "confirmed"
    BY <2>1 DEF SlotRec
  <2>3. slots' = [slots EXCEPT ![j] = s]
    BY <1>3
  <2> HIDE DEF s
  <2>4. SlotsTurn /\ \A i \in DOMAIN slots : SlotEffect(i)
    BY <1>1, <2>1, <2>2, <2>3, Replaced DEF SlotInv
  <2>5. \A i \in DOMAIN slots : slots'[i] = slots[i] \/ slots'[i].st = "confirmed"
    BY <1>1, <2>2, <2>3 DEF SlotInv, SlotsTyped
  <2>6. QED BY <2>4, <2>5
<1>4. QED BY <1>2, <1>3 DEF ConfirmedSlot

LEMMA Freed2 ==
  ASSUME SlotInv, NEW w \in Worker, task[w].at \notin Slotless, slots' = FreedSlot(w)
  PROVE  /\ SlotsTurn
         /\ \A i \in DOMAIN slots :
               /\ SlotEffect(i)
               /\ slots'[i] = slots[i] \/ (i = task[w].slot /\ slots'[i] = Free)
<1> DEFINE j == task[w].slot
<1>1. j \in DOMAIN slots
  BY DEF SlotInv, TasksKnow, Known
<1>2. CASE slots' = slots
  BY <1>2, Unchanged1 DEF SlotInv
<1>3. CASE slots' = [slots EXCEPT ![j] = Free]
  <2>1. SlotsTurn /\ \A i \in DOMAIN slots : SlotEffect(i)
    BY <1>1, <1>3, Replaced DEF SlotInv
  <2>2. \A i \in DOMAIN slots : slots'[i] = slots[i] \/ (i = j /\ slots'[i] = Free)
    BY <1>1, <1>3 DEF SlotInv, SlotsTyped
  <2>3. QED BY <2>1, <2>2
<1>4. QED BY <1>2, <1>3 DEF FreedSlot, Gone

\* What each step does to the slots: whose slot it frees, and which it takes.
Takes(w) ==
    /\ At(w, "claimed") /\ task'[w].at = "slotted"
    /\ task'[w].key = task[w].key /\ task'[w].slot = Len(slots) + 1
    /\ slots' = Append(slots, [ws |-> WorkspaceOfKey(task[w].key), key |-> task[w].key,
                               st |-> "reserved"])
    /\ Cardinality(Counted(WorkspaceOfKey(task[w].key))) < Limit /\ uncounted' = uncounted
FreesSlot(i) ==
    \E w \in Worker : /\ task[w].at \in {"slotted", "noted"} /\ task[w].slot = i
                      /\ task[w] # Idle /\ slots[i] # Free
StaysCounted(i) ==
    slots[i].st \in {"reserved", "confirmed"} => slots'[i].st \in {"reserved", "confirmed"}
StaysLapsed(i) ==
    slots'[i].st = "lapsed" => slots[i].st = "lapsed" \/ i \in uncounted'
SlotsEffect ==
    /\ slots' \in Seq({Free} \cup SlotRec)
    /\ DOMAIN slots' = DOMAIN slots \/ \E w \in Worker : Takes(w)
    /\ \A i \in DOMAIN slots :
          /\ SlotEffect(i) /\ StaysLapsed(i)
          /\ StaysCounted(i) \/ FreesSlot(i) \/ i \in uncounted' \/ made' = {}

LEMMA TakesOne ==
  ASSUME SlotInv, Shapes, NEW w \in Worker, Takes(w)
  PROVE  /\ SlotsEffect /\ \A i \in DOMAIN slots : slots'[i] = slots[i]
         /\ Len(slots) + 1 \in DOMAIN slots' /\ slots'[Len(slots) + 1].key = task[w].key
         /\ Len(slots) + 1 \notin DOMAIN slots
<1> DEFINE s == [ws |-> WorkspaceOfKey(task[w].key), key |-> task[w].key, st |-> "reserved"]
<1>1. task[w].key \in Key
  BY TaskKey DEF Takes, At
<1>2. s \in SlotRec /\ s.key = task[w].key
  BY <1>1, KeyWorkspace DEF SlotRec
<1>3. slots' = Append(slots, s) /\ slots \in Seq({Free} \cup SlotRec)
  BY DEF Takes, SlotInv, SlotsTyped
<1> HIDE DEF s
<1>4. /\ slots' \in Seq({Free} \cup SlotRec) /\ Len(slots) + 1 \in DOMAIN slots'
      /\ Len(slots) + 1 \notin DOMAIN slots /\ slots'[Len(slots) + 1] = s
      /\ \A i \in DOMAIN slots : i \in DOMAIN slots' /\ slots'[i] = slots[i]
  BY <1>2, <1>3
<1>5. QED BY <1>2, <1>4 DEF SlotsEffect, SlotEffect, StaysCounted, StaysLapsed

LEMMA Resting ==
  ASSUME SlotInv, slots' = slots PROVE SlotsEffect
  BY Unchanged1 DEF SlotInv, SlotsEffect, SlotsTurn, StaysCounted, StaysLapsed

LEMMA StepSlots ==
  ASSUME Inv, SlotInv, [Next]_vars PROVE SlotsEffect
<1>1. ASSUME NEW w \in Worker, TakeSlot(w) PROVE SlotsEffect
  <2>1. CASE slots' = slots
    BY <2>1, Resting
  <2>2. ASSUME /\ At(w, "claimed")
               /\ slots' = Append(slots, [ws |-> WorkspaceOfKey(task[w].key),
                                          key |-> task[w].key, st |-> "reserved"])
               /\ Cardinality(Counted(WorkspaceOfKey(task[w].key))) < Limit
               /\ uncounted' = uncounted
               /\ task' = [task EXCEPT ![w].at = "slotted", ![w].slot = Len(slots) + 1]
        PROVE  SlotsEffect
    <3>1. TaskShape(task[w]) /\ task[w] # Idle /\ TaskFunction
      BY <2>2, TaskKey DEF At, Inv, Shapes
    <3>2. Takes(w)
      BY <2>2, <3>1 DEF Takes, TaskShape, TaskFunction
    <3>3. QED BY <3>2, TakesOne DEF Inv
  <2>3. QED BY <1>1, <2>1, <2>2 DEF TakeSlot
<1>2. ASSUME NEW w \in Worker, Dispatch(w) \/ GiveBack(w) PROVE SlotsEffect
  <2>1. task[w].at \in {"slotted", "noted"} /\ task[w].at \notin Slotless /\ task[w] # Idle
    BY <1>2 DEF Dispatch, GiveBack, At, Slotless, Idle
  <2>2. CASE slots' = slots
    BY <2>2, Resting
  <2>3. CASE slots' = FreedSlot(w)
    <3>1. /\ SlotsTurn
          /\ \A i \in DOMAIN slots :
                /\ SlotEffect(i)
                /\ slots'[i] = slots[i] \/ (i = task[w].slot /\ slots'[i] = Free)
      BY <2>1, <2>3, Freed2
    <3>2. ASSUME NEW i \in DOMAIN slots
          PROVE  (StaysCounted(i) \/ FreesSlot(i)) /\ StaysLapsed(i)
      <4>1. CASE slots'[i] = slots[i]
        BY <4>1 DEF StaysCounted, StaysLapsed
      <4>2. CASE i = task[w].slot /\ slots[i] # Free /\ slots'[i] = Free
        BY <2>1, <4>2 DEF FreesSlot, StaysLapsed, Free, None
      <4>3. CASE slots[i] = Free
        BY <3>1, <4>3 DEF StaysCounted, StaysLapsed, SlotEffect, Free, None
      <4>4. QED BY <3>1, <4>1, <4>2, <4>3
    <3>3. QED BY <3>1, <3>2 DEF SlotsEffect, SlotsTurn
  <2>4. QED BY <1>2, <2>2, <2>3 DEF Dispatch, GiveBack
<1>3. ASSUME NEW w \in Worker, KeepPending(w) \/ KeepClaim(w) \/ RecordSent(w) PROVE SlotsEffect
  <2>1. task[w].at \notin Slotless /\ slots' = ConfirmedSlot(w)
    BY <1>3 DEF KeepPending, KeepClaim, RecordSent, At, Slotless
  <2>2. /\ SlotsTurn
        /\ \A i \in DOMAIN slots :
              SlotEffect(i) /\ (slots'[i] = slots[i] \/ slots'[i].st = "confirmed")
    BY <2>1, Confirmed1
  <2>3. QED BY <2>2 DEF SlotsEffect, SlotsTurn, StaysCounted, StaysLapsed
<1>4. ASSUME NEW j \in DOMAIN slots, LapseSlot(j) PROVE SlotsEffect
  <2> DEFINE s == [slots[j] EXCEPT !.st = "lapsed"]
  <2>1. slots[j] \in SlotRec /\ slots[j] # Free
    BY <1>4, SlotIs DEF LapseSlot, SlotInv, Free, None
  <2>2. s \in SlotRec /\ s.key = slots[j].key
    BY <2>1 DEF SlotRec
  <2>3. slots' = [slots EXCEPT ![j] = s] /\ j \in uncounted'
    BY <1>4 DEF LapseSlot
  <2> HIDE DEF s
  <2>4. SlotsTurn /\ \A i \in DOMAIN slots : SlotEffect(i)
    BY <2>1, <2>2, <2>3, Replaced DEF SlotInv
  <2>5. \A i \in DOMAIN slots : slots'[i] = slots[i] \/ i = j
    BY <2>3 DEF SlotInv, SlotsTyped
  <2>6. QED BY <2>3, <2>4, <2>5 DEF SlotsEffect, SlotsTurn, StaysCounted, StaysLapsed
<1>5. CASE NewDay
  <2>1. slots' = [i \in DOMAIN slots |-> Free] /\ made' = {} /\ slots \in Seq({Free} \cup SlotRec)
    BY <1>5 DEF NewDay, SlotInv, SlotsTyped
  <2>2. slots' \in Seq({Free} \cup SlotRec) /\ DOMAIN slots' = DOMAIN slots
    BY <2>1
  <2>3. QED BY <2>1, <2>2 DEF SlotsEffect, SlotEffect, StaysLapsed, Free, None
<1>6. ASSUME NEW w \in Worker, Work(w) PROVE SlotsEffect
  <2>1. CASE slots' = slots
    BY <2>1, Resting
  <2>2. CASE \/ TakeSlot(w) \/ Dispatch(w) \/ GiveBack(w) \/ KeepPending(w) \/ KeepClaim(w)
             \/ RecordSent(w)
    BY <1>1, <1>2, <1>3, <2>2
  <2>3. QED
    BY <1>6, <2>1, <2>2 DEF Work, Claim, Resume, Call, Unanswered, Wait, NoteFailed, Ask, Recover,
                            ListClaim, Prove, Reconcile, Die, shared
<1>7. CASE (\E p \in Profile : Lapse(p)) \/ (\E k \in Key : JobEnds(k)) \/ UNCHANGED vars
  BY <1>7, Resting DEF Lapse, JobEnds, vars, shared
<1>8. QED BY <1>4, <1>5, <1>6, <1>7 DEF Next

\* What a worker knows of its slot: what it knew, the slot it takes, or what
\* the pending send says.
Learns(w) ==
    \/ task'[w].at \in Slotless
    \/ /\ task[w].at \notin Slotless /\ task'[w].key = task[w].key
       /\ task'[w].slot = task[w].slot /\ (task'[w].at = "slotted" => task[w].at = "slotted")
    \/ Takes(w)
    \/ /\ task'[w].at \in {"waiting", "calling", "asked"} /\ task'[w].key \in Key
       /\ pend'[task'[w].key] # Free /\ task'[w].slot = pend'[task'[w].key].slot

LEMMA WorkLearns == ASSUME Inv, NEW w \in Worker, Work(w) PROVE Learns(w)
<1>0. /\ TaskFunction /\ TaskShape(task[w])
      /\ task[w].at # "idle" => task[w] # Idle /\ task[w] = Fields(task[w]) /\ task[w].key \in Key
  BY DEF Inv, Shapes, TaskShape, Idle, Fields
<1>1. ASSUME Rests(w) PROVE Learns(w)
  BY <1>0, <1>1 DEF Rests, TaskFunction, Learns, Slotless, Idle
<1>2. ASSUME NEW at, Goes(w, at), task[w].at \notin Slotless, at # "slotted" PROVE Learns(w)
  <2>1. task'[w] = [Fields(task[w]) EXCEPT !.at = at]
    BY <1>0, <1>2, Goes1 DEF Inv, Slotless
  <2>2. task'[w].at = at /\ task'[w].key = task[w].key /\ task'[w].slot = task[w].slot
    BY <2>1 DEF Fields
  <2>3. QED BY <1>2, <2>2 DEF Learns
<1>3. ASSUME NEW ans, Answered(w, ans), task[w].at \notin Slotless PROVE Learns(w)
  BY <1>0, <1>3, Answered1 DEF Inv, Learns, Slotless, Fields
<1>4. CASE TakeSlot(w)
  <2>1. CASE Rests(w)
    BY <1>1, <2>1
  <2>2. CASE /\ slots' = Append(slots, [ws |-> WorkspaceOfKey(task[w].key),
                                        key |-> task[w].key, st |-> "reserved"])
             /\ Cardinality(Counted(WorkspaceOfKey(task[w].key))) < Limit
             /\ uncounted' = uncounted
             /\ task' = [task EXCEPT ![w].at = "slotted", ![w].slot = Len(slots) + 1]
    BY <1>0, <1>4, <2>2 DEF TakeSlot, At, Learns, Takes, TaskFunction, Fields
  <2>3. QED BY <1>4, <2>1, <2>2 DEF TakeSlot
<1>5. CASE \/ Dispatch(w) \/ Call(w) \/ Unanswered(w) \/ Wait(w) \/ KeepPending(w) \/ KeepClaim(w)
           \/ NoteFailed(w) \/ GiveBack(w) \/ RecordSent(w) \/ Reconcile(w) \/ Die(w)
  BY <1>1, <1>2, <1>3, <1>5 DEF Dispatch, Call, Unanswered, Wait, KeepPending, KeepClaim,
     NoteFailed, GiveBack, RecordSent, Reconcile, Die, At, Slotless
<1>6. ASSUME NEW t, task' = [task EXCEPT ![w] = t],
             \/ t.at \in Slotless
             \/ t.at \in {"waiting", "calling", "asked"} /\ t.key \in Key /\ pend'[t.key] # Free
                /\ t.slot = pend'[t.key].slot
      PROVE  Learns(w)
  <2>1. task'[w] = t
    BY <1>0, <1>6 DEF TaskFunction
  <2>2. QED BY <1>6, <2>1 DEF Learns
<1>7. ASSUME NEW r \in Row, Claim(w, r) PROVE Learns(w)
  BY <1>0, <1>7 DEF Claim, Task, Learns, TaskFunction, Slotless
<1>8. ASSUME NEW r \in Row, Resume(w, r) PROVE Learns(w)
  <2>1. KeyOf(r) \in Key
    BY DEF KeyOf, Key, Inv, Shapes
  <2>2. ASSUME task' = task PROVE Learns(w)
    BY <1>8, <2>2 DEF Resume, At, Learns, Slotless
  <2>3. ASSUME pend[KeyOf(r)].st \in {"job", "capped"}, pend' = pend,
               NEW at \in {"waiting", "calling"},
               task' = [task EXCEPT ![w] = Task(at, KeyOf(r), FALSE, pend[KeyOf(r)].slot)]
        PROVE  Learns(w)
    <3> DEFINE t == Task(at, KeyOf(r), FALSE, pend[KeyOf(r)].slot)
    <3>1. pend'[KeyOf(r)] # Free
      BY <2>3 DEF Free, None
    <3>2. t.at = at /\ t.key = KeyOf(r) /\ t.slot = pend'[KeyOf(r)].slot
      BY <2>3 DEF Task
    <3>3. task' = [task EXCEPT ![w] = t]
      BY <2>3
    <3> HIDE DEF t
    <3>4. QED BY <1>6, <2>1, <2>3, <3>1, <3>2, <3>3
  <2>4. QED BY <1>8, <2>2, <2>3 DEF Resume
<1>9. ASSUME NEW k \in Key, Ask(w, k) PROVE Learns(w)
  <2> DEFINE t == [Task("asked", k, FALSE, pend[k].slot) EXCEPT !.ans = pend[k].st]
  <2>1. pend' = pend /\ pend[k] # Free /\ task' = [task EXCEPT ![w] = t]
    BY <1>9 DEF Ask, ledger
  <2>2. t.at = "asked" /\ t.key = k /\ t.slot = pend[k].slot
    BY DEF Task
  <2> HIDE DEF t
  <2>3. QED BY <1>6, <2>1, <2>2
<1>10. ASSUME NEW p \in Profile, ListClaim(w, p) PROVE Learns(w)
  <2> DEFINE t == [Task("listed", claim[p].key, FALSE, 0) EXCEPT
                     !.ans = IF claim[p].again THEN "old" ELSE "new"]
  <2>1. task' = [task EXCEPT ![w] = t]
    BY <1>10 DEF ListClaim
  <2>2. t.at \in Slotless
    BY DEF Task, Slotless
  <2> HIDE DEF t
  <2>3. QED BY <1>6, <2>1, <2>2
<1>11. CASE Recover(w)
  <2> DEFINE now == KeyOf(task[w].key[1])
  <2>1. CASE Rests(w)
    BY <1>1, <2>1
  <2>2. CASE /\ pend'[now].st = "job"
             /\ task' = [task EXCEPT ![w] = Task("waiting", now, FALSE, pend'[now].slot)]
    <3>1. now \in Key /\ pend'[now] # Free
      BY <1>0, <1>11, <2>2 DEF Recover, At, KeyOf, Key, Inv, Shapes, Free, None
    <3> HIDE DEF now
    <3> DEFINE t == Task("waiting", now, FALSE, pend'[now].slot)
    <3>2. t.at = "waiting" /\ t.key = now /\ t.slot = pend'[now].slot
      BY DEF Task
    <3>3. task' = [task EXCEPT ![w] = t]
      BY <2>2
    <3> HIDE DEF t
    <3>4. QED BY <1>6, <3>1, <3>2, <3>3
  <2>3. QED BY <1>11, <2>1, <2>2 DEF Recover
<1>12. CASE Prove(w)
  <2>1. CASE Goes(w, "proved")
    <3>1. task'[w] = [Fields(task[w]) EXCEPT !.at = "proved"]
      BY <1>0, <1>12, <2>1, Goes1 DEF Inv, Prove, At
    <3>2. QED BY <3>1 DEF Learns, Slotless, Fields
  <2>2. QED BY <1>1, <1>12, <2>1 DEF Prove
<1>13. QED
  BY <1>4, <1>5, <1>7, <1>8, <1>9, <1>10, <1>11, <1>12 DEF Work

\* What is known of slot i after the step.
StillKnown(i, k) == i \in DOMAIN slots' /\ (slots'[i] = Free \/ slots'[i].key = k)

LEMMA KnownStays ==
  ASSUME SlotsEffect PROVE \A i, k : Known(i, k) => StillKnown(i, k)
<1>1. \A i \in DOMAIN slots : SlotEffect(i)
  BY DEF SlotsEffect
<1>2. QED BY <1>1 DEF SlotEffect, Known, StillKnown

\* A send is kept as pending with the slot its worker knows.
PendLearns(k) ==
    \/ pend'[k] = pend[k]
    \/ pend'[k] = Free
    \/ \E w \in Worker : /\ task[w].at \in {"answered", "asked"} /\ task[w].key = k
                         /\ pend'[k].slot = task[w].slot

LEMMA Pend2 ==
  ASSUME Shapes, NEW w \in Worker, task[w].at \in {"answered", "asked"}, NEW st,
         pend' = [pend EXCEPT ![task[w].key] = [st |-> st, slot |-> task[w].slot]]
  PROVE  \A k \in Key : PendLearns(k)
<1>1. task[w].key \in Key
  BY TaskKey DEF At
<1>2. \A k \in Key : k # task[w].key => pend'[k] = pend[k]
  BY <1>1 DEF Shapes
<1>3. pend'[task[w].key] = [st |-> st, slot |-> task[w].slot]
  BY <1>1 DEF Shapes
<1>4. pend'[task[w].key].slot = task[w].slot
  BY <1>3
<1>5. QED BY <1>2, <1>4 DEF PendLearns

LEMMA StepPendLearns == ASSUME Shapes, [Next]_vars PROVE \A k \in Key : PendLearns(k)
<1>1. ASSUME UNCHANGED pend PROVE \A k \in Key : PendLearns(k)
  BY <1>1 DEF PendLearns
<1>2. ASSUME NEW j, pend' = [pend EXCEPT ![j] = Free] PROVE \A k \in Key : PendLearns(k)
  BY <1>2 DEF PendLearns, Shapes
<1>3. ASSUME NEW w \in Worker, KeepPending(w) PROVE \A k \in Key : PendLearns(k)
  <2>1. task[w].at = "answered"
    BY <1>3 DEF KeepPending, At
  <2>2. QED BY <1>3, <2>1, Pend2 DEF KeepPending
<1>4. ASSUME NEW w \in Worker, Recover(w) PROVE \A k \in Key : PendLearns(k)
  <2>1. task[w].at = "asked"
    BY <1>4 DEF Recover, At
  <2>2. CASE pend' = [pend EXCEPT ![task[w].key] = [st |-> "job", slot |-> task[w].slot]]
    BY <2>1, <2>2, Pend2
  <2>3. QED BY <1>1, <1>4, <2>2 DEF Recover
<1>5. ASSUME NEW w \in Worker, Work(w)
      PROVE  \/ KeepPending(w) \/ Recover(w) \/ UNCHANGED pend
             \/ \E j : pend' = [pend EXCEPT ![j] = Free]
  BY <1>5
  DEF Work, Claim, Resume, TakeSlot, Dispatch, Call, Unanswered, Wait, KeepClaim, NoteFailed,
      GiveBack, RecordSent, Ask, ListClaim, Prove, Reconcile, Die, ledger
<1>6. CASE \/ (\E p \in Profile : Lapse(p)) \/ (\E i \in DOMAIN slots : LapseSlot(i))
           \/ NewDay \/ (\E k \in Key : JobEnds(k)) \/ UNCHANGED vars
  BY <1>1, <1>6 DEF Lapse, LapseSlot, NewDay, JobEnds, vars, ledger
<1>7. QED BY <1>1, <1>2, <1>3, <1>4, <1>5, <1>6 DEF Next

LEMMA PendsKnowStep == ASSUME Inv, SlotInv, [Next]_vars PROVE PendsKnow'
<1>1. SlotsEffect /\ (\A k \in Key : PendLearns(k)) /\ PendsKnow /\ TasksKnow
  BY StepSlots, StepPendLearns DEF Inv, SlotInv
<1>2. ASSUME NEW k \in Key, pend'[k] # Free PROVE StillKnown(pend'[k].slot, k)
  <2>1. Known(pend'[k].slot, k)
    BY <1>1, <1>2 DEF PendLearns, PendsKnow, TasksKnow, Slotless
  <2>2. QED BY <1>1, <2>1, KnownStays
<1>3. QED BY <1>2 DEF PendsKnow, Known, StillKnown

LEMMA TasksKnowStep == ASSUME Inv, SlotInv, [Next]_vars PROVE TasksKnow'
<1>1. SlotsEffect /\ PendsKnow' /\ TasksKnow /\ Shapes
  BY StepSlots, PendsKnowStep DEF Inv, SlotInv
<1>2. ASSUME NEW w \in Worker, task'[w].at \notin Slotless
      PROVE  StillKnown(task'[w].slot, task'[w].key)
  <2>1. CASE task'[w] = task[w]
    BY <1>1, <1>2, <2>1, KnownStays DEF TasksKnow
  <2>2. CASE /\ task[w].at \notin Slotless /\ task'[w].key = task[w].key
             /\ task'[w].slot = task[w].slot
    BY <1>1, <2>2, KnownStays DEF TasksKnow
  <2>3. CASE Takes(w)
    <3>1. /\ Len(slots) + 1 \in DOMAIN slots' /\ slots'[Len(slots) + 1].key = task[w].key
      BY <1>1, <2>3, TakesOne
    <3>2. QED BY <2>3, <3>1 DEF Takes, StillKnown
  <2>4. CASE /\ task'[w].key \in Key /\ pend'[task'[w].key] # Free
             /\ task'[w].slot = pend'[task'[w].key].slot
    BY <1>1, <2>4 DEF PendsKnow, Known, StillKnown
  <2>5. task'[w] = task[w] \/ Learns(w)
    BY <1>1, StepTasks, WorkLearns DEF TaskEffect, Others
  <2>6. QED BY <1>2, <2>1, <2>2, <2>3, <2>4, <2>5 DEF Learns
<1>3. QED BY <1>2 DEF TasksKnow, Known, StillKnown

\* A job is taken in when a worker calls it out, with its slot or uncounted.
StaysKnown(k) == job'[k] \in Unknown => job[k] \in Unknown
TakenIn(w) ==
    LET k == task[w].key
        i == task[w].slot
    IN  /\ At(w, "calling") /\ k \in Key /\ job[k] = None
        /\ made' = made \cup {<<k, i>>} /\ uncounted \subseteq uncounted'
        /\ job'[k] # None /\ (i \in uncounted' \/ i \in Counted(WorkspaceOfKey(k)))
        /\ \A j \in Key \ {k} : StaysKnown(j)
MadeEffect ==
    \/ made' = {} /\ \A i \in DOMAIN slots' : slots'[i] = Free
    \/ made' = made /\ uncounted \subseteq uncounted' /\ \A k \in Key : StaysKnown(k)
    \/ \E w \in Worker : TakenIn(w)

LEMMA StepMade == ASSUME Shapes, [Next]_vars PROVE MadeEffect
<1>1. ASSUME UNCHANGED <<job, made>>, uncounted \subseteq uncounted' PROVE MadeEffect
  BY <1>1 DEF MadeEffect, StaysKnown
<1>2. ASSUME NEW w \in Worker, Call(w) \/ Unanswered(w) PROVE MadeEffect
  <2>1. task[w].key \in Key /\ At(w, "calling")
    BY <1>2, TaskKey DEF Call, Unanswered, At
  <2>2. CASE UNCHANGED <<job, made, uncounted>>
    BY <1>1, <2>2
  <2>3. ASSUME NEW k \in Key, k = task[w].key, NEW i, i = task[w].slot,
               job[k] = None, job' = [job EXCEPT ![k] = "running"], made' = made \cup {<<k, i>>},
               uncounted' = IF i \in Counted(WorkspaceOfKey(k)) THEN uncounted
                            ELSE uncounted \cup {i}
        PROVE  MadeEffect
    <3>1. \A j \in Key \ {k} : StaysKnown(j)
      BY <2>3 DEF Shapes, StaysKnown
    <3>2. TakenIn(w)
      BY <2>1, <2>3, <3>1 DEF TakenIn, Shapes, None
    <3>3. QED BY <3>2 DEF MadeEffect
  <2>4. QED BY <1>2, <2>1, <2>2, <2>3 DEF Call, Unanswered, Arrives
<1>3. ASSUME NEW w \in Worker, Work(w)
      PROVE  Call(w) \/ Unanswered(w) \/ UNCHANGED <<job, made, uncounted>>
  BY <1>3
  DEF Work, Claim, Resume, TakeSlot, Dispatch, Wait, KeepPending, KeepClaim, NoteFailed, GiveBack,
      RecordSent, Ask, ListClaim, Recover, Prove, Reconcile, Die, history
<1>4. CASE (\E p \in Profile : Lapse(p)) \/ (\E i \in DOMAIN slots : LapseSlot(i)) \/ UNCHANGED vars
  BY <1>1, <1>4 DEF Lapse, LapseSlot, vars, history
<1>5. ASSUME NEW k \in Key, JobEnds(k) PROVE MadeEffect
  <2>1. \A j \in Key : StaysKnown(j)
    BY <1>5 DEF JobEnds, StaysKnown, Unknown, Shapes
  <2>2. QED BY <1>5, <2>1 DEF JobEnds, MadeEffect, history
<1>6. CASE NewDay
  BY <1>6 DEF NewDay, MadeEffect
<1>7. QED BY <1>1, <1>2, <1>3, <1>4, <1>5, <1>6 DEF Next

LEMMA TypedStep == ASSUME Inv, SlotInv, [Next]_vars PROVE SlotsTyped'
<1>1. slots' \in Seq({Free} \cup SlotRec) /\ MadeEffect /\ SlotsTyped /\ TasksKnow
  BY StepSlots, StepMade DEF SlotsEffect, Inv, SlotInv
<1>2. ASSUME NEW w \in Worker, TakenIn(w) PROVE made' \subseteq Key \X Nat
  <2>1. task[w].slot \in DOMAIN slots
    BY <1>1, <1>2 DEF TakenIn, TasksKnow, Known, At, Slotless
  <2>2. task[w].slot \in Nat /\ made \subseteq Key \X Nat
    BY <1>1, <2>1 DEF SlotsTyped
  <2>3. QED BY <1>2, <2>2 DEF TakenIn
<1>3. made' \subseteq Key \X Nat
  BY <1>1, <1>2 DEF MadeEffect, SlotsTyped
<1>4. SlotRec = SlotRec'
  BY DEF SlotRec, WorkspaceOfKey
<1>5. QED BY <1>1, <1>3, <1>4 DEF SlotsTyped

\* A worker between its slot and its call had that slot, or it is a new one.
LEMMA StepSlotted ==
  ASSUME Inv, SlotInv, [Next]_vars, NEW w \in Worker, At(w, "slotted")'
  PROVE  \/ At(w, "slotted") /\ task'[w].slot = task[w].slot
         \/ task'[w].slot \notin DOMAIN slots
<1>1. CASE task'[w] = task[w]
  BY <1>1 DEF At
<1>2. ASSUME Learns(w)
      PROVE  \/ At(w, "slotted") /\ task'[w].slot = task[w].slot
             \/ task'[w].slot \notin DOMAIN slots
  <2>1. Takes(w) => task'[w].slot \notin DOMAIN slots
    BY TakesOne DEF Takes, Inv
  <2>2. QED BY <1>2, <2>1 DEF Learns, At, Slotless
<1>3. task'[w] = task[w] \/ Learns(w)
  BY StepTasks, WorkLearns DEF TaskEffect, Others, Inv
<1>4. QED BY <1>1, <1>2, <1>3

\* Nobody comes to know the slot of a worker that has not called yet.
LEMMA OwnSlotStep == ASSUME Inv, SlotInv, [Next]_vars PROVE OwnSlot'
<1>0. /\ Shapes /\ SlotsTyped /\ TasksKnow /\ PendsKnow /\ OwnSlot
      /\ \A k \in Key : PendLearns(k)
  BY StepPendLearns DEF Inv, SlotInv
<1>1. SUFFICES ASSUME NEW u \in Worker, At(u, "slotted")'
               PROVE  /\ \A w \in Worker \ {u} : ~HasSlot(task'[w], task'[u].slot)
                      /\ \A k \in Key : pend'[k] # Free => pend'[k].slot # task'[u].slot
  BY DEF OwnSlot, HasSlot
<1> DEFINE i == task'[u].slot
<1>2. /\ \A w \in Worker \ {u} : ~HasSlot(task[w], i)
      /\ \A k \in Key : pend[k] # Free => pend[k].slot # i
  <2>1. CASE At(u, "slotted") /\ i = task[u].slot
    BY <1>0, <2>1 DEF OwnSlot
  <2>2. CASE i \notin DOMAIN slots
    BY <1>0, <2>2 DEF TasksKnow, PendsKnow, Known, HasSlot
  <2>3. QED BY <1>1, <2>1, <2>2, StepSlotted
<1>3. ~HasSlot(task[u], i) \/ At(u, "slotted")
  <2>1. CASE i \notin DOMAIN slots
    BY <1>0, <2>1 DEF TasksKnow, Known, HasSlot
  <2>2. QED BY <1>1, <2>1, StepSlotted
<1> HIDE DEF i
<1>4. ASSUME NEW k \in Key, pend'[k] # Free PROVE pend'[k].slot # i
  BY <1>0, <1>2, <1>3, <1>4 DEF PendLearns, HasSlot, Slotless, At
<1>5. ASSUME NEW w \in Worker \ {u}, HasSlot(task'[w], i) PROVE FALSE
  <2>1. CASE task'[w] = task[w]
    BY <1>2, <1>5, <2>1 DEF HasSlot
  <2>2. CASE Learns(w) /\ ~(task'[w] = task[w])
    <3>1. task'[u] = task[u]
      BY <1>0, <2>2, StepTasks DEF TaskEffect, Others
    <3>2. CASE Takes(w)
      <4>1. i \notin DOMAIN slots
        BY <1>0, <1>5, <3>2, TakesOne DEF Takes, HasSlot
      <4>2. i \in DOMAIN slots
        BY <1>0, <1>1, <3>1 DEF TasksKnow, Known, At, Slotless, i
      <4>3. QED BY <4>1, <4>2
    <3>3. QED BY <1>2, <1>4, <1>5, <2>2, <3>2 DEF Learns, HasSlot
  <2>3. task'[w] = task[w] \/ Learns(w)
    BY <1>0, StepTasks, WorkLearns DEF TaskEffect, Others
  <2>4. QED BY <2>1, <2>2, <2>3
<1>6. QED BY <1>4, <1>5 DEF i, HasSlot

\* The slot that counts for an invite goes on counting: nobody may free it as
\* long as the invite has not failed.
LEMMA CountsOn ==
  ASSUME Inv, SlotInv, [Next]_vars, NEW k \in Key, NEW i \in Nat, Counts(<<k, i>>),
         job[k] # "failed", i \notin uncounted', made' # {}
  PROVE  Counts(<<k, i>>)'
<1>2. /\ i \in DOMAIN slots /\ slots[i].st \in {"reserved", "confirmed"}
      /\ slots[i].ws = WorkspaceOfKey(k) /\ slots[i].key = k
      /\ \A w \in Worker : At(w, "slotted") => task[w].slot # i
  BY DEF Counts, Counted
<1>3. slots[i] # Free
  BY <1>2 DEF Free, None
<1>4. ~FreesSlot(i)
  <2>1. SUFFICES ASSUME NEW w \in Worker, At(w, "noted"), task[w].slot = i PROVE FALSE
    BY <1>2 DEF FreesSlot, At
  <2>2. job[task[w].key] = "failed"
    BY <2>1 DEF Inv, FailedIsRead
  <2>3. Known(i, task[w].key)
    BY <2>1 DEF SlotInv, TasksKnow, At, Slotless
  <2>4. task[w].key = k
    BY <1>2, <1>3, <2>3 DEF Known
  <2>5. QED BY <2>2, <2>4
<1>5. SlotEffect(i) /\ StaysCounted(i)
  BY <1>2, <1>4, StepSlots DEF SlotsEffect
<1>6. slots'[i].st \in {"reserved", "confirmed"} /\ i \in DOMAIN slots'
  BY <1>2, <1>5 DEF StaysCounted, SlotEffect
<1>7. slots'[i] # Free
  BY <1>6 DEF Free, None
<1>8. slots'[i].key = k /\ slots'[i].ws = WorkspaceOfKey(k)
  BY <1>2, <1>5, <1>7 DEF SlotEffect
<1>9. \A w \in Worker : At(w, "slotted")' => task'[w].slot # i
  BY <1>2, StepSlotted
<1>10. i \in Counted(WorkspaceOfKey(k))'
  BY <1>6, <1>8 DEF Counted, WorkspaceOfKey
<1>11. QED BY <1>8, <1>9, <1>10 DEF Counts, At, WorkspaceOfKey

\* The slot an invite is called out with is no longer one to be given back.
LEMMA CalledCounts ==
  ASSUME SlotInv, NEW w \in Worker, At(w, "calling"),
         task[w].slot \in Counted(WorkspaceOfKey(task[w].key))
  PROVE  Counts(<<task[w].key, task[w].slot>>)
<1>1. slots[task[w].slot].key = task[w].key
  BY DEF SlotInv, TasksKnow, Known, Counted, At, Slotless, Free, None
<1>2. \A u \in Worker : At(u, "slotted") => task[u].slot # task[w].slot
  BY DEF SlotInv, OwnSlot, HasSlot, At, Slotless
<1>3. QED BY <1>1, <1>2 DEF Counts

LEMMA MadeRanStep == ASSUME Inv, SlotInv, [Next]_vars PROVE MadeRan'
<1>1. Jobs /\ MadeEffect /\ MadeRan /\ SlotsTyped
  BY StepJobs, StepMade DEF Inv, SlotInv
<1>2. ASSUME NEW k \in Key, job[k] # None PROVE job'[k] # None
  BY <1>1, <1>2 DEF Jobs, JobEffect, Ended, None
<1>3. ASSUME NEW w \in Worker, TakenIn(w) PROVE MadeRan'
  BY <1>1, <1>2, <1>3 DEF TakenIn, MadeRan, SlotsTyped
<1>4. CASE made' \subseteq made
  BY <1>1, <1>2, <1>4 DEF MadeRan, SlotsTyped
<1>5. QED BY <1>1, <1>3, <1>4 DEF MadeEffect

LEMMA KeptStep == ASSUME Inv, SlotInv, [Next]_vars PROVE Kept'
<1>1. MadeEffect /\ Kept /\ MadeRan
  BY StepMade DEF Inv, SlotInv
<1>2. SUFFICES ASSUME NEW x \in made', x[2] \notin uncounted', job'[x[1]] \in Unknown
               PROVE  Counts(x)'
  BY DEF Kept, CountedOut, Counts
<1>3. x \in Key \X Nat /\ made' # {}
  BY <1>2, TypedStep DEF SlotsTyped
<1>4. PICK k \in Key, i \in Nat : x = <<k, i>>
  BY <1>3
<1>5. CASE x \in made /\ i \notin uncounted /\ job[k] \in Unknown
  <2>1. Counts(<<k, i>>) /\ job[k] # "failed"
    BY <1>1, <1>4, <1>5 DEF Kept, CountedOut, Unknown
  <2>2. QED BY <1>2, <1>3, <1>4, <2>1, CountsOn
<1>6. ASSUME NEW w \in Worker, TakenIn(w), k = task[w].key, i = task[w].slot PROVE Counts(x)'
  <2>1. Counts(<<k, i>>) /\ job[k] # "failed"
    BY <1>2, <1>4, <1>6, CalledCounts DEF TakenIn, None
  <2>2. QED BY <1>2, <1>3, <1>4, <2>1, CountsOn
<1>7. \/ x \in made /\ i \notin uncounted /\ job[k] \in Unknown
      \/ \E w \in Worker : TakenIn(w) /\ k = task[w].key /\ i = task[w].slot
  <2>1. x \in made' /\ i \notin uncounted' /\ job'[k] \in Unknown
    BY <1>2, <1>4
  <2>2. CASE made' = made /\ uncounted \subseteq uncounted' /\ \A j \in Key : StaysKnown(j)
    BY <2>1, <2>2 DEF StaysKnown
  <2>3. ASSUME NEW w \in Worker, TakenIn(w)
        PROVE  \/ x \in made /\ i \notin uncounted /\ job[k] \in Unknown
               \/ TakenIn(w) /\ k = task[w].key /\ i = task[w].slot
    <3>1. CASE k = task[w].key /\ i = task[w].slot
      BY <2>3, <3>1
    <3>2. CASE k # task[w].key
      <4>1. x \in made /\ i \notin uncounted /\ StaysKnown(k)
        BY <1>4, <2>1, <2>3, <3>2 DEF TakenIn
      <4>2. QED BY <2>1, <4>1 DEF StaysKnown
    <3>3. CASE k = task[w].key /\ i # task[w].slot
      <4>1. x \in made
        BY <1>4, <2>1, <2>3, <3>3 DEF TakenIn
      <4>2. job[k] # None
        BY <1>1, <1>4, <4>1 DEF MadeRan
      <4>3. QED BY <2>3, <3>3, <4>2 DEF TakenIn
    <3>4. QED BY <3>1, <3>2, <3>3
  <2>4. QED BY <1>1, <1>3, <2>2, <2>3 DEF MadeEffect
<1>8. QED BY <1>5, <1>6, <1>7

LEMMA SlotsInitial == Init => SlotInv
<1> SUFFICES ASSUME Init PROVE SlotInv
  OBVIOUS
<1>1. slots \in Seq({Free} \cup SlotRec) /\ made = {}
  BY DEF Init
<1>2. \A w \in Worker : task[w].at \in Slotless
  BY DEF Init, Idle, Slotless
<1>3. \A k \in Key : pend[k] = Free
  BY DEF Init
<1>4. QED
  BY <1>1, <1>2, <1>3 DEF SlotInv, MadeRan, SlotsTyped, TasksKnow, PendsKnow, OwnSlot, Kept,
                          CountedOut, At, Slotless

LEMMA SlotInvariance == Spec => []SlotInv
<1>1. Inv /\ SlotInv /\ [Next]_vars => SlotInv'
  BY TypedStep, TasksKnowStep, PendsKnowStep, OwnSlotStep, KeptStep, MadeRanStep DEF SlotInv
<1>2. QED BY <1>1, SlotsInitial, Invariance, PTL DEF Spec

\* A slot given to an invite that may be out today counts until the day ends:
\* whoever releases a slot, and on whatever it read, it is not that one.
THEOREM SlotIsNotGivenBack == Spec => []SlotHolds
<1>1. SlotInv => SlotHolds
  BY DEF SlotInv, Kept, Counts, SlotHolds
<1>2. QED BY <1>1, SlotInvariance, PTL

-----------------------------------------------------------------------------
(* The share of the day.  A confirmation may count a slot that had lapsed, *)
(* over the share; such a slot's invite is one that no slot counted.  So   *)
(* the slots that stay within the share are those of counted invites.      *)

CountedInTime(ws) == {i \in Counted(ws) : i \notin uncounted}
LapsedIsUncounted == \A i \in DOMAIN slots : slots[i].st = "lapsed" => i \in uncounted
WithinShare == \A ws \in Workspace : Cardinality(CountedInTime(ws)) <= Limit
ShareInv == LapsedIsUncounted /\ WithinShare

LEMMA CountedFinite ==
  ASSUME SlotsTyped, NEW ws PROVE IsFiniteSet(Counted(ws)) /\ IsFiniteSet(CountedInTime(ws))
<1>1. DOMAIN slots = 1 .. Len(slots) /\ Len(slots) \in Nat
  BY DEF SlotsTyped
<1>2. IsFiniteSet(DOMAIN slots)
  BY <1>1, FS_Interval
<1>3. IsFiniteSet(Counted(ws))
  BY <1>2, FS_Subset DEF Counted
<1>4. QED BY <1>3, FS_Subset DEF CountedInTime

\* No slot comes to be one of a counted invite's but the one that is taken.
LEMMA OldSlots ==
  ASSUME Inv, SlotInv, LapsedIsUncounted, [Next]_vars, uncounted \subseteq uncounted', NEW ws
  PROVE  CountedInTime(ws)' \cap DOMAIN slots \subseteq CountedInTime(ws)
<1>1. SUFFICES ASSUME NEW i \in CountedInTime(ws)', i \in DOMAIN slots PROVE i \in CountedInTime(ws)
  OBVIOUS
<1>2. /\ slots'[i].st \in {"reserved", "confirmed"} /\ slots'[i].ws = ws
      /\ i \notin uncounted'
  BY <1>1 DEF CountedInTime, Counted
<1>3. slots'[i] # Free /\ SlotEffect(i) /\ SlotsTyped
  BY <1>1, <1>2, StepSlots DEF SlotsEffect, SlotInv, Free, None
<1>4. slots[i] # Free /\ slots[i].ws = ws
  BY <1>2, <1>3 DEF SlotEffect
<1>5. slots[i].st \in {"reserved", "lapsed", "confirmed"} /\ i \notin uncounted
  BY <1>1, <1>2, <1>3, <1>4, SlotIs DEF SlotRec
<1>6. QED BY <1>1, <1>4, <1>5 DEF CountedInTime, Counted, LapsedIsUncounted

LEMMA LapsedStep == ASSUME Inv, SlotInv, LapsedIsUncounted, [Next]_vars PROVE LapsedIsUncounted'
<1>1. SUFFICES ASSUME NEW i \in DOMAIN slots', slots'[i].st = "lapsed"
               PROVE  i \in uncounted'
  BY DEF LapsedIsUncounted
<1>2. SlotsEffect /\ MadeEffect
  BY StepSlots, StepMade DEF Inv
<1>3. slots'[i] # Free
  BY <1>1 DEF Free, None
<1>4. uncounted \subseteq uncounted'
  BY <1>1, <1>2, <1>3 DEF MadeEffect, TakenIn
<1>5. CASE i \in DOMAIN slots
  <2>1. slots[i].st = "lapsed" \/ i \in uncounted'
    BY <1>1, <1>2, <1>5 DEF SlotsEffect, StaysLapsed
  <2>2. QED BY <1>4, <1>5, <2>1 DEF LapsedIsUncounted
<1>6. ASSUME NEW w \in Worker, Takes(w), i \notin DOMAIN slots PROVE FALSE
  <2> DEFINE s == [ws |-> WorkspaceOfKey(task[w].key), key |-> task[w].key, st |-> "reserved"]
  <2>1. slots' = Append(slots, s) /\ slots \in Seq({Free} \cup SlotRec) /\ s.st = "reserved"
    BY <1>6 DEF Takes, SlotInv, SlotsTyped
  <2> HIDE DEF s
  <2>2. slots'[i] = s
    BY <1>1, <1>6, <2>1
  <2>3. QED BY <1>1, <2>1, <2>2
<1>7. QED BY <1>1, <1>2, <1>5, <1>6 DEF SlotsEffect

LEMMA ShareStep ==
  ASSUME Inv, SlotInv, ShareInv, [Next]_vars, NEW ws \in Workspace
  PROVE  Cardinality(CountedInTime(ws)') <= Limit
<1> DEFINE now == CountedInTime(ws)
           next == CountedInTime(ws)'
<1>0. /\ SlotsEffect /\ MadeEffect /\ SlotsTyped /\ SlotsTyped' /\ Limit \in Nat
      /\ Cardinality(now) <= Limit /\ now \subseteq DOMAIN slots /\ next \subseteq DOMAIN slots'
  BY StepSlots, StepMade, TypedStep, LinkedInAssumption
  DEF Inv, SlotInv, ShareInv, WithinShare, CountedInTime, Counted
<1>1. IsFiniteSet(now) /\ IsFiniteSet(Counted(ws))
  BY <1>0, CountedFinite
<1>2. Cardinality(now) \in Nat /\ Cardinality(Counted(ws)) \in Nat
  BY <1>1, FS_CardinalityType
<1>3. CASE \A i \in DOMAIN slots' : slots'[i] = Free
  <2>1. next = {}
    BY <1>3 DEF CountedInTime, Counted, Free, None
  <2>2. QED BY <1>0, <2>1, FS_EmptySet
<1>4. CASE uncounted \subseteq uncounted' /\ DOMAIN slots' = DOMAIN slots
  <2>1. next \subseteq now
    BY <1>0, <1>4, OldSlots DEF ShareInv
  <2>2. Cardinality(next) <= Cardinality(now) /\ IsFiniteSet(next)
    BY <1>1, <2>1, FS_Subset
  <2>3. Cardinality(next) \in Nat
    BY <2>2, FS_CardinalityType
  <2>4. QED BY <1>0, <1>2, <2>2, <2>3
<1>5. ASSUME NEW w \in Worker, Takes(w) PROVE Cardinality(next) <= Limit
  <2> DEFINE n == Len(slots) + 1
             full == Counted(ws) \cup {n}
  <2>1. DOMAIN slots' = DOMAIN slots \cup {n} /\ uncounted' = uncounted
    BY <1>0, <1>5 DEF Takes, SlotsTyped
  <2>2. next \cap DOMAIN slots \subseteq now /\ now \subseteq Counted(ws)
    BY <2>1, OldSlots DEF ShareInv, CountedInTime
  <2>3. next \subseteq now \cup {n}
    BY <1>0, <2>1, <2>2
  <2>4. CASE ws = WorkspaceOfKey(task[w].key)
    <3> HIDE DEF n
    <3>0. /\ IsFiniteSet(full)
          /\ \/ Cardinality(full) = Cardinality(Counted(ws))
             \/ Cardinality(full) = Cardinality(Counted(ws)) + 1
      BY <1>1, FS_AddElement
    <3>1. IsFiniteSet(full) /\ Cardinality(full) <= Cardinality(Counted(ws)) + 1
      <4> HIDE DEF full
      <4>1. QED BY <1>2, <3>0
    <3>2. Cardinality(next) <= Cardinality(full) /\ IsFiniteSet(next)
      BY <2>2, <2>3, <3>1, FS_Subset
    <3>3. Cardinality(Counted(ws)) < Limit
      BY <1>5, <2>4 DEF Takes
    <3>4. Cardinality(next) \in Nat /\ Cardinality(full) \in Nat
      BY <3>1, <3>2, FS_CardinalityType
    <3> HIDE DEF full, next
    <3>5. QED BY <1>0, <1>2, <3>1, <3>2, <3>3, <3>4
  <2>5. CASE ws # WorkspaceOfKey(task[w].key)
    <3> DEFINE s == [ws |-> WorkspaceOfKey(task[w].key), key |-> task[w].key, st |-> "reserved"]
    <3>1. slots' = Append(slots, s) /\ slots \in Seq({Free} \cup SlotRec)
          /\ s.ws = WorkspaceOfKey(task[w].key)
      BY <1>0, <1>5 DEF Takes, SlotsTyped
    <3> HIDE DEF s
    <3>2. slots'[n] = s
      BY <3>1
    <3>3. n \notin next
      BY <2>5, <3>1, <3>2 DEF CountedInTime, Counted
    <3>4. next \subseteq now
      BY <2>3, <3>3
    <3>5. Cardinality(next) <= Cardinality(now) /\ IsFiniteSet(next)
      BY <1>1, <3>4, FS_Subset
    <3>6. Cardinality(next) \in Nat
      BY <3>5, FS_CardinalityType
    <3>7. QED BY <1>0, <1>2, <3>5, <3>6
  <2>6. QED BY <2>4, <2>5
<1>6. (\A i \in DOMAIN slots' : slots'[i] = Free) \/ uncounted \subseteq uncounted'
  BY <1>0 DEF MadeEffect, TakenIn
<1>7. QED BY <1>0, <1>3, <1>4, <1>5, <1>6 DEF SlotsEffect

LEMMA ShareInitial == Init => ShareInv
<1> SUFFICES ASSUME Init PROVE ShareInv
  OBVIOUS
<1>1. DOMAIN slots = {}
  BY DEF Init
<1>2. \A ws : CountedInTime(ws) = {}
  BY <1>1 DEF CountedInTime, Counted
<1>3. Limit \in Nat /\ 0 <= Limit
  BY LinkedInAssumption
<1>4. QED BY <1>1, <1>2, <1>3, FS_EmptySet DEF ShareInv, LapsedIsUncounted, WithinShare

\* The invites of a day that are or may be out have slots of their own.
LEMMA ShareHolds == ASSUME SlotInv, ShareInv PROVE ShareKept
<1>1. SUFFICES ASSUME NEW ws \in Workspace
               PROVE  Cardinality({x \in CountedOut : WorkspaceOfKey(x[1]) = ws}) <= Limit
  BY DEF ShareKept
<1> DEFINE out == {x \in CountedOut : WorkspaceOfKey(x[1]) = ws}
           own == CountedInTime(ws)
           f == [i \in own |-> <<slots[i].key, i>>]
           invites == {<<slots[i].key, i>> : i \in own}
<1>2. out \subseteq invites
  <2>1. SUFFICES ASSUME NEW x \in out PROVE x \in invites
    OBVIOUS
  <2>2. Counts(x) /\ x \in Key \X Nat /\ x[2] \notin uncounted
    BY <2>1 DEF SlotInv, Kept, CountedOut, SlotsTyped
  <2>3. x[2] \in own /\ x = <<slots[x[2]].key, x[2]>>
    BY <2>1, <2>2 DEF Counts, CountedInTime
  <2>4. QED BY <2>3
<1>3. f \in Surjection(own, invites)
  BY DEF Surjection
<1>4. IsFiniteSet(own) /\ Cardinality(own) <= Limit
  BY CountedFinite DEF SlotInv, ShareInv, WithinShare
<1> HIDE DEF f, invites, own
<1>5. IsFiniteSet(invites) /\ Cardinality(invites) <= Cardinality(own)
  BY <1>3, <1>4, FS_Surjection
<1>6. IsFiniteSet(out) /\ Cardinality(out) <= Cardinality(invites)
  BY <1>2, <1>5, FS_Subset
<1> HIDE DEF out
<1>7. /\ Cardinality(out) \in Nat /\ Cardinality(invites) \in Nat /\ Cardinality(own) \in Nat
      /\ Limit \in Nat
  BY <1>4, <1>5, <1>6, FS_CardinalityType, LinkedInAssumption
<1>8. Cardinality(out) <= Limit
  BY <1>4, <1>5, <1>6, <1>7
<1>9. QED BY <1>8 DEF out

\* No more invites than the share are taken in on one day for a workspace,
\* but for those that no slot of the day could count.
THEOREM ShareIsKept == Spec => []ShareKept
<1>1. Inv /\ SlotInv /\ ShareInv /\ [Next]_vars => ShareInv'
  BY ShareStep, LapsedStep DEF ShareInv, WithinShare
<1>2. QED BY <1>1, ShareInitial, ShareHolds, Invariance, SlotInvariance, PTL DEF Spec

-----------------------------------------------------------------------------
(* Answers.  The watermark passes an answer only when it is safe: handled, *)
(* kept unread, in the backlog, or about to be parked there.  A walk can   *)
(* say so because it knows, while it is clean, that what it has not seen   *)
(* of its slice is older than what it got or newer than all of it; and     *)
(* mail comes in the order of its times, so what is below a mark that was  *)
(* reached has arrived.                                                    *)

Phase == {"idle", "polled", "list", "page", "labels", "park", "retries"}
Slice == [since : Nat, until : Nat]
Poll == [at : Phase, walk : {"live", "back"}, slice : Slice, until : Nat, mark : Nat,
         todo : SUBSET Mail, seen : SUBSET Mail, got : SUBSET Mail, pages : Nat,
         clean : BOOLEAN, last : BOOLEAN, mail : SUBSET Mail]

Types ==
    /\ arrived \subseteq Mail /\ unread \subseteq arrived
    /\ intent \in [Mail -> {"no row", "none", "claimed", "reply", "opt-out"}]
    /\ replied \subseteq Mail /\ optedOut \subseteq Mail /\ excused \subseteq Mail
    /\ mark \in Nat /\ backlog \in Slice /\ poller \in [Poller -> Poll]
    /\ \A p \in Poller : \A m, n \in poller[p].mail : m = n

\* Its bookkeeping is done, or the holder of its claim will do it, or it was lost for a
\* reason that is named.
Handled(m) == Inbox!Counted(m) \/ m \in excused \/ \E p \in Poller : Inbox!HeldBy(p, m)

\* A walk that ran out of pages is about to park it.
Parking(p, m) ==
    /\ Inbox!On(p, "park") /\ Inbox!Parks(poller[p]) /\ m \notin poller[p].seen
    /\ Received[m] >= poller[p].slice.since /\ Received[m] <= Inbox!Oldest(poller[p])

\* No poll needs the watermark to come by it again.
Safe(m) ==
    \/ Handled(m) \/ m \in unread \/ (backlog # Inbox!None /\ Inbox!In(m, backlog))
    \/ \E p \in Poller : Parking(p, m)

Before(since) == \A m \in arrived : Received[m] < since => Safe(m)
Ahead(time) == \A m \in Mail \ arrived : Received[m] >= time
Past(until) == until > 0 /\ Ahead(until)

InOrder == \A m \in Mail \ arrived, n \in arrived : Received[n] <= Received[m]
ClaimsHeld ==
    \A m \in Mail : intent[m] = "claimed" =>
        m \in excused \/ Inbox!Retrying(m) \/ \E p \in Poller : Inbox!HeldBy(p, m)

\* What a walk has fetched, and where its next page begins.
Fetched(p) ==
    /\ poller[p].todo \subseteq poller[p].seen /\ poller[p].got \subseteq poller[p].seen
    /\ poller[p].seen \subseteq arrived
    /\ poller[p].at \in {"list", "park"} => poller[p].todo = {}
    /\ poller[p].at = "park" => poller[p].walk = "live"
    /\ poller[p].until = IF poller[p].got = {} THEN poller[p].slice.until
                         ELSE Inbox!Oldest(poller[p]) + 1
    /\ \A m \in poller[p].seen \ poller[p].todo : Handled(m)

\* No walk leaves behind what lies outside its slice.
Bounded(p) ==
    IF poller[p].walk = "live"
    THEN poller[p].slice.until = 0 /\ Ahead(poller[p].slice.since) /\ Before(poller[p].slice.since)
    ELSE Past(poller[p].slice.until)

\* What a clean walk has not seen of its slice is new, or comes with its next page.
Reaches(p) ==
    poller[p].clean => \A m \in arrived \ poller[p].seen : Inbox!In(m, poller[p].slice) =>
        \/ m \in excused
        \/ poller[p].walk = "live" /\ \A n \in poller[p].got : Received[n] <= Received[m]
        \/ /\ poller[p].at = "list" \/ ~poller[p].last
           /\ poller[p].until = 0 \/ Received[m] < poller[p].until

Walk(p) ==
    poller[p].at \in {"list", "page", "labels", "park"} => Fetched(p) /\ Bounded(p) /\ Reaches(p)

PollInv ==
    /\ Types /\ InOrder /\ ClaimsHeld
    /\ Ahead(mark) /\ Before(Inbox!Window.since) /\ (backlog # Inbox!None => Past(backlog.until))
    /\ \A p \in Poller : Walk(p)

-----------------------------------------------------------------------------
(* The oldest and the newest of some answers.                              *)

LEMMA HasOldest ==
  ASSUME NEW S \in SUBSET Mail, S # {}
  PROVE  \E n \in S : Inbox!Min({Received[m] : m \in S}) = Received[n]
                      /\ \A m \in S : Received[n] <= Received[m]
  <1> DEFINE T == {Received[m] : m \in S}
  <1>1. T \subseteq Nat /\ T # {}
    BY PollAssumption DEF Inbox!PollAssumption
  <1>2. PICK x \in T : \A y \in T : ~(<<y, x>> \in OpToRel(<, Nat))
    <2> HIDE DEF T
    <2> QED BY <1>1, NatLessThanWellFounded, WFMin
  <1>3. \A y \in T : x <= y
    <2>1. ASSUME NEW y \in T PROVE x <= y
      <3>1. x \in Nat /\ y \in Nat /\ <<y, x>> \in Nat \X Nat
        BY <1>1
      <3>2. ~(y < x)
        BY <1>2, <3>1 DEF OpToRel
      <3> QED BY <3>1, <3>2
    <2> QED BY <2>1
  <1>4. Inbox!Min(T) = x
    <2>1. Inbox!Min(T) \in T /\ \A y \in T : Inbox!Min(T) <= y
      <3> HIDE DEF T
      <3> QED BY <1>3 DEF Inbox!Min
    <2>2. Inbox!Min(T) \in Nat /\ x \in Nat /\ Inbox!Min(T) <= x /\ x <= Inbox!Min(T)
      <3> HIDE DEF T
      <3> QED BY <1>1, <1>3, <2>1
    <2> QED BY <2>2
  <1>5. PICK n \in S : x = Received[n]
    OBVIOUS
  <1> QED BY <1>3, <1>4, <1>5

LEMMA HasNewest ==
  ASSUME NEW S \in SUBSET Mail, S # {}
  PROVE  \E n \in S : Inbox!Max({Received[m] : m \in S}) = Received[n]
                      /\ \A m \in S : Received[m] <= Received[n]
  <1> DEFINE Later(n) == {m \in S : Received[m] > Received[n]}
             T == {Later(n) : n \in S}
             R == StrictSubsetOrdering(S)
  <1>1. IsFiniteSet(S)
    <2>1. Inbox!IsFiniteSet(Mail)
      BY PollAssumption DEF Inbox!PollAssumption
    <2>2. IsFiniteSet(Mail)
      BY <2>1 DEF Inbox!IsFiniteSet, IsFiniteSet
    <2> QED BY <2>2, FS_Subset
  <1>2. IsWellFoundedOn(R, SUBSET S)
    BY <1>1, FS_StrictSubsetOrderingWellFounded, FS_FiniteSubsetsOfFinite
  <1>3. PICK U \in T : \A V \in T : ~(<<V, U>> \in R)
    <2>1. T \subseteq SUBSET S /\ T # {}
      OBVIOUS
    <2> HIDE DEF T, R
    <2> QED BY <1>2, <2>1, WFMin
  <1>4. PICK n \in S : U = Later(n)
    OBVIOUS
  <1>5. ASSUME NEW m \in S, ~(Received[m] <= Received[n]) PROVE FALSE
    <2>1. Received[m] \in Nat /\ Received[n] \in Nat /\ Received[m] > Received[n]
      BY <1>5, PollAssumption DEF Inbox!PollAssumption
    <2>2. Later(m) \subseteq Later(n)
      BY <2>1, PollAssumption DEF Inbox!PollAssumption
    <2>3. m \in Later(n) /\ m \notin Later(m)
      BY <2>1
    <2>4. Later(m) \in T /\ Later(m) \in SUBSET S /\ Later(n) \in SUBSET S
      OBVIOUS
    <2> HIDE DEF Later
    <2>5. <<Later(m), Later(n)>> \in R
      BY <2>2, <2>3, <2>4 DEF StrictSubsetOrdering
    <2> QED BY <1>3, <1>4, <2>4, <2>5
  <1> DEFINE X == {Received[m] : m \in S}
  <1>6. Received[n] \in X /\ X \subseteq Nat /\ \A y \in X : Received[n] >= y
    BY <1>5, PollAssumption DEF Inbox!PollAssumption
  <1>7. Inbox!Max(X) = Received[n]
    <2>1. PICK x \in X : x = Received[n] /\ x \in Nat
      BY <1>6
    <2> HIDE DEF X
    <2>2. Inbox!Max(X) \in X /\ \A y \in X : Inbox!Max(X) >= y
      BY <1>6 DEF Inbox!Max
    <2>3. Inbox!Max(X) \in Nat /\ Inbox!Max(X) >= x /\ x >= Inbox!Max(X)
      BY <1>6, <2>1, <2>2
    <2> QED BY <2>1, <2>3
  <1> QED BY <1>5, <1>7

-----------------------------------------------------------------------------
(* What a step of one poller leaves to the others.                         *)

OtherPollers(p) == \A q \in Poller \ {p} : poller'[q] = poller[q]

Grows ==
    /\ arrived' = arrived /\ excused \subseteq excused'
    /\ \A m \in arrived : (Handled(m) => Handled(m)') /\ (Safe(m) => Safe(m)')

LEMMA GrowsBy ==
  ASSUME NEW p \in Poller, OtherPollers(p), arrived' = arrived, excused \subseteq excused',
         replied \subseteq replied', optedOut \subseteq optedOut',
         \A m \in arrived :
            /\ Inbox!HeldBy(p, m) => Handled(m)'
            /\ m \in unread => m \in unread' \/ Handled(m)'
            /\ backlog # Inbox!None /\ Inbox!In(m, backlog) => Safe(m)'
            /\ Parking(p, m) => Safe(m)'
  PROVE  Grows
  <1>1. ASSUME NEW m \in arrived, Handled(m) PROVE Handled(m)'
    <2>1. CASE Inbox!Counted(m) \/ m \in excused
      BY <2>1 DEF Inbox!Counted, Handled
    <2>2. ASSUME NEW q \in Poller, Inbox!HeldBy(q, m) PROVE Handled(m)'
      BY <2>2 DEF OtherPollers, Inbox!HeldBy, Inbox!On, Handled
    <2> QED BY <1>1, <2>1, <2>2 DEF Handled
  <1>2. ASSUME NEW m \in arrived, Safe(m) PROVE Safe(m)'
    <2>1. CASE Handled(m) \/ m \in unread
      BY <1>1, <2>1 DEF Safe
    <2>2. ASSUME NEW q \in Poller, q # p, Parking(q, m) PROVE Safe(m)'
      <3>1. Parking(q, m)'
        BY <2>2 DEF OtherPollers, Parking, Inbox!On, Inbox!Parks, Inbox!Oldest
      <3> QED BY <3>1 DEF Safe
    <2> QED BY <1>2, <2>1, <2>2 DEF Safe
  <1> QED BY <1>1, <1>2 DEF Grows

LEMMA WalkStays ==
  ASSUME Grows, NEW q \in Poller, poller'[q] = poller[q], Walk(q)
  PROVE  Walk(q)'
  <1> SUFFICES ASSUME poller[q].at \in {"list", "page", "labels", "park"}
               PROVE  Fetched(q)' /\ Bounded(q)' /\ Reaches(q)'
    BY DEF Walk
  <1>1. Fetched(q) /\ Bounded(q) /\ Reaches(q)
    BY DEF Walk
  <1>2. Fetched(q)'
    BY <1>1 DEF Fetched, Grows, Inbox!Oldest
  <1>3. Bounded(q)'
    BY <1>1 DEF Bounded, Past, Ahead, Before, Grows
  <1>4. Reaches(q)'
    BY <1>1 DEF Reaches, Grows, Inbox!In
  <1> QED BY <1>2, <1>3, <1>4

\* A step that does not move the watermark.
LEMMA StepLeaves ==
  ASSUME PollInv, Types', ClaimsHeld', Grows, mark' = mark,
         backlog' # Inbox!None => Past(backlog.until)',
         \A q \in Poller : poller'[q] = poller[q] \/ Walk(q)'
  PROVE  PollInv'
  <1>1. InOrder' /\ Ahead(mark)' /\ Before(Inbox!Window.since)'
    BY DEF PollInv, Grows, InOrder, Ahead, Before, Inbox!Window
  <1>2. \A q \in Poller : Walk(q)'
    BY WalkStays DEF PollInv
  <1> QED BY <1>1, <1>2 DEF PollInv

\* A step of p that moves neither mark nor backlog.
LEMMA StepKeeps ==
  ASSUME PollInv, NEW p \in Poller, OtherPollers(p), Types', ClaimsHeld', Grows,
         UNCHANGED <<mark, backlog>>,
         Walk(p)'
  PROVE  PollInv'
  <1>1. backlog' # Inbox!None => Past(backlog.until)'
    BY DEF PollInv, Grows, Past, Ahead
  <1> QED BY <1>1, StepLeaves DEF OtherPollers

\* Claims stay with their holders.
LEMMA ClaimsStay ==
  ASSUME PollInv, NEW p \in Poller, OtherPollers(p), excused \subseteq excused', intent' = intent,
         poller'[p].at = poller[p].at \/ poller[p].at \notin {"labels", "retries"},
         poller'[p].mail = poller[p].mail \/ poller[p].at \notin {"labels", "retries"}
  PROVE  ClaimsHeld'
  BY DEF PollInv, ClaimsHeld, OtherPollers, Inbox!Retrying, Inbox!HeldBy, Inbox!On

LEMMA Becoming ==
  ASSUME Types, NEW p \in Poller, NEW t \in Poll, Inbox!Becomes(p, t)
  PROVE  poller' \in [Poller -> Poll] /\ poller'[p] = t /\ OtherPollers(p)
  BY DEF Types, Inbox!Becomes, OtherPollers

LEMMA IdleTyped ==
  /\ Inbox!Idle \in Poll /\ Inbox!Whole \in Slice
  /\ \A at \in Phase : [Inbox!Idle EXCEPT !.at = at] \in Poll
  BY DEF Inbox!Idle, Poll, Phase, Slice, Inbox!Whole

-----------------------------------------------------------------------------
(* The steps of a walk.                                                    *)

LEMMA WindowTyped ==
  ASSUME mark \in Nat
  PROVE  /\ Inbox!Window \in Slice /\ Inbox!Window.until = 0
         /\ Inbox!Window.since \in Nat /\ Inbox!Window.since <= mark
  <1> DEFINE since == IF mark > Overlap THEN mark - Overlap ELSE 0
  <1>1. since \in Nat /\ since <= mark
    BY PollAssumption DEF Inbox!PollAssumption
  <1>2. Inbox!Window = [since |-> since, until |-> 0]
    BY DEF Inbox!Window
  <1> HIDE DEF since
  <1> QED BY <1>1, <1>2 DEF Slice

LEMMA TypesKeep ==
  ASSUME Types, NEW p \in Poller, OtherPollers(p), poller' \in [Poller -> Poll],
         poller'[p].mail \in {{}, poller[p].mail},
         UNCHANGED <<arrived, Inbox!rows, Inbox!marks, excused>>
  PROVE  Types'
  <1>1. ASSUME NEW q \in Poller, NEW m \in poller'[q].mail, NEW n \in poller'[q].mail PROVE m = n
    BY <1>1 DEF Types, OtherPollers
  <1> QED BY <1>1 DEF Types, Inbox!rows, Inbox!marks

LEMMA StartKeeps ==
  ASSUME PollInv, NEW p \in Poller, Inbox!Start(p)
  PROVE  PollInv'
  <1>1. /\ Types /\ Inbox!Rests(p)
        /\ UNCHANGED <<arrived, Inbox!rows, Inbox!marks, up, excused, broken>>
    BY DEF PollInv, Inbox!Start
  <1>2. Inbox!Window \in Slice /\ Inbox!Window.until = 0
    BY <1>1, WindowTyped DEF Types
  <1>3. PICK t \in Poll : /\ t = [Inbox!Idle EXCEPT !.at = "list", !.slice = Inbox!Window,
                                                     !.mark = mark]
                          /\ Inbox!Becomes(p, t)
    <2>1. [Inbox!Idle EXCEPT !.at = "list", !.slice = Inbox!Window, !.mark = mark] \in Poll
      <3>1. Inbox!Window \in Slice /\ mark \in Nat
        BY <1>1, <1>2 DEF Types
      <3>2. PICK old \in Poll : old = Inbox!Idle
        BY IdleTyped
      <3>3. [old EXCEPT !.at = "list", !.slice = Inbox!Window, !.mark = mark] \in Poll
        BY <3>1 DEF Poll, Phase
      <3> QED BY <3>2, <3>3
    <2> QED BY <2>1 DEF Inbox!Start
  <1>4. /\ t.at = "list" /\ t.slice = Inbox!Window /\ t.walk = "live" /\ t.until = 0
        /\ t.got = {} /\ t.todo = {} /\ t.seen = {} /\ t.mail = {}
    BY <1>3 DEF Inbox!Idle
  <1>5. poller' \in [Poller -> Poll] /\ poller'[p] = t /\ OtherPollers(p)
    BY <1>1, <1>3, Becoming
  <1>6. Types'
    BY <1>1, <1>4, <1>5, TypesKeep
  <1>7. Grows
    BY <1>1, <1>5, GrowsBy DEF Inbox!Rests, Inbox!On, Inbox!HeldBy, Parking, Safe, Inbox!In,
                               Inbox!rows, Inbox!marks
  <1>8. ClaimsHeld'
    BY <1>1, <1>4, <1>5, ClaimsStay DEF Inbox!Rests, Inbox!On, Inbox!rows
  <1>9. Walk(p)'
    <2>1. Fetched(p)'
      BY <1>2, <1>4, <1>5 DEF Fetched
    <2>2. Ahead(Inbox!Window.since) /\ Before(Inbox!Window.since)
      <3>1. mark \in Nat /\ Inbox!Window.since <= mark /\ Inbox!Window.since \in Nat
        BY <1>1, WindowTyped DEF Types
      <3>2. \A m \in Mail : Received[m] \in Nat
        BY PollAssumption DEF Inbox!PollAssumption
      <3>3. \A m \in Mail \ arrived : Received[m] >= mark
        BY DEF PollInv, Ahead
      <3>4. Ahead(Inbox!Window.since)
        BY <3>1, <3>2, <3>3 DEF Ahead
      <3> QED BY <3>4 DEF PollInv
    <2>3. Bounded(p)'
      BY <1>2, <1>4, <1>5, <1>7, <2>2 DEF Bounded, Ahead, Before, Grows
    <2>4. Reaches(p)'
      BY <1>4, <1>5 DEF Reaches
    <2> QED BY <2>1, <2>3, <2>4 DEF Walk
  <1> QED BY <1>1, <1>5, <1>6, <1>7, <1>8, <1>9, StepKeeps DEF Inbox!marks

\* A poll that ends lets nothing go.
LEMMA EndsKeeps ==
  ASSUME PollInv, NEW p \in Poller, OtherPollers(p),
         UNCHANGED <<arrived, Inbox!rows, Inbox!marks, excused>>,
         poller' \in [Poller -> Poll], poller'[p].at \in {"idle", "polled"}, poller'[p].mail = {},
         poller[p].at \in {"idle", "polled", "list"}
  PROVE  PollInv'
  <1>1. Types /\ Types'
    BY DEF PollInv, Types, OtherPollers, Inbox!rows, Inbox!marks
  <1>2. Grows
    BY GrowsBy DEF Inbox!On, Inbox!HeldBy, Parking, Safe, Inbox!In, Inbox!rows, Inbox!marks
  <1>3. ClaimsHeld'
    BY ClaimsStay DEF Inbox!rows
  <1> QED BY <1>1, <1>2, <1>3, StepKeeps DEF Walk, Inbox!marks

LEMMA ThrowKeeps == ASSUME PollInv, NEW p \in Poller, Inbox!Throw(p) PROVE PollInv'
  <1>1. Types /\ Inbox!On(p, "list") /\ UNCHANGED <<arrived, Inbox!rows, Inbox!marks, excused>>
    BY DEF PollInv, Inbox!Throw
  <1>2. PICK t \in Poll : t = Inbox!Polled(p) /\ Inbox!Becomes(p, t)
    BY IdleTyped DEF Inbox!Throw, Inbox!Polled, Phase
  <1>3. t.at \in {"idle", "polled"} /\ t.mail = {}
    BY <1>2 DEF Inbox!Polled, Inbox!Idle
  <1> QED BY <1>1, <1>2, <1>3, Becoming, EndsKeeps DEF Inbox!On

LEMMA NextPageKeeps == ASSUME PollInv, NEW p \in Poller, Inbox!NextPage(p) PROVE PollInv'
  <1>1. /\ Types /\ Walk(p) /\ poller[p].at = "page" /\ poller[p].todo = {} /\ ~poller[p].last
        /\ UNCHANGED <<arrived, Inbox!rows, Inbox!marks, up, excused, broken>>
    BY DEF PollInv, Inbox!NextPage, Inbox!Walked, Inbox!On
  <1>2. PICK old \in Poll : old = poller[p]
    BY <1>1 DEF Types
  <1>3. PICK t \in Poll : t = [old EXCEPT !.at = "list"] /\ Inbox!Becomes(p, t)
    <2>1. [old EXCEPT !.at = "list"] \in Poll
      BY DEF Poll, Phase
    <2> QED BY <1>2, <2>1 DEF Inbox!NextPage
  <1>4. /\ t.at = "list" /\ t.slice = old.slice /\ t.walk = old.walk /\ t.until = old.until
        /\ t.got = old.got /\ t.todo = old.todo /\ t.seen = old.seen /\ t.mail = old.mail
        /\ t.clean = old.clean
    BY <1>3 DEF Poll
  <1>5. poller' \in [Poller -> Poll] /\ poller'[p] = t /\ OtherPollers(p)
    BY <1>1, <1>3, Becoming
  <1>6. Types'
    BY <1>1, <1>2, <1>4, <1>5, TypesKeep
  <1>7. Grows
    BY <1>1, <1>5, GrowsBy DEF Inbox!On, Inbox!HeldBy, Parking, Safe, Inbox!In, Inbox!rows,
                               Inbox!marks
  <1>8. ClaimsHeld'
    BY <1>1, <1>4, <1>5, ClaimsStay DEF Inbox!rows
  <1>9. Walk(p)'
    <2>1. Fetched(p) /\ Bounded(p) /\ Reaches(p)
      BY <1>1 DEF Walk
    <2>2. Fetched(p)'
      BY <1>1, <1>2, <1>4, <1>5, <1>7, <2>1 DEF Fetched, Grows, Inbox!Oldest
    <2>3. Bounded(p)'
      BY <1>1, <1>2, <1>4, <1>5, <1>7, <2>1 DEF Bounded, Past, Ahead, Before, Grows
    <2>4. Reaches(p)'
      BY <1>1, <1>2, <1>4, <1>5, <1>7, <2>1 DEF Reaches, Grows, Inbox!In
    <2> QED BY <2>2, <2>3, <2>4 DEF Walk
  <1> QED BY <1>1, <1>5, <1>6, <1>7, <1>8, <1>9, StepKeeps DEF Inbox!marks

\* No poller holds two answers.
LEMMA HoldsOne ==
  ASSUME Types, NEW p \in Poller, OtherPollers(p), NEW S, poller'[p].mail = S,
         \A m, n \in S : m = n
  PROVE  \A q \in Poller : \A m, n \in poller'[q].mail : m = n
  <1>1. ASSUME NEW q \in Poller, NEW m \in poller'[q].mail, NEW n \in poller'[q].mail PROVE m = n
    <2>1. CASE q = p
      BY <1>1, <2>1
    <2>2. CASE q # p
      BY <1>1, <2>2 DEF Types, OtherPollers
    <2> QED BY <2>1, <2>2
  <1> QED BY <1>1

\* What a page brings is no newer than what the walk got before.
LEMMA ListKeeps == ASSUME PollInv, NEW p \in Poller, Inbox!List(p) PROVE PollInv'
  <1>1. /\ Types /\ Walk(p) /\ poller[p].at = "list"
        /\ UNCHANGED <<arrived, Inbox!rows, Inbox!marks, up>>
    BY DEF PollInv, Inbox!List, Inbox!On
  <1>2. PICK old \in Poll : old = poller[p]
    BY <1>1 DEF Types
  <1> DEFINE all == Inbox!Listed([old.slice EXCEPT !.until = old.until])
             Turns(shown, page) ==
                 LET new == page \ old.seen
                 IN  /\ Inbox!Becomes(p, [old EXCEPT
                           !.at = "page", !.todo = new, !.seen = @ \cup page,
                           !.got = @ \cup new, !.pages = @ + 1,
                           !.clean = @ /\ shown = all,
                           !.last = page = shown \/ new = {},
                           !.until = IF new = {} THEN @
                                     ELSE Inbox!Min({Received[m] : m \in new}) + 1])
                     /\ excused' = excused \cup
                           IF new = {} /\ old.clean /\ shown = all THEN all \ old.seen ELSE {}
  <1>3. PICK shown \in SUBSET all : \E page \in Inbox!Pages(shown) : Turns(shown, page)
    BY <1>2 DEF Inbox!List
  <1>4. PICK page \in Inbox!Pages(shown) : Turns(shown, page)
    <2> HIDE DEF all, Turns
    <2> QED BY <1>3
  <1> DEFINE fresh == page \ old.seen
  <1>5. /\ page \subseteq shown /\ \A m \in page, n \in shown \ page : Received[m] >= Received[n]
        /\ shown \subseteq arrived
        /\ \A m \in shown : old.until = 0 \/ Received[m] < old.until
        /\ \A m \in arrived : Received[m] >= old.slice.since
              /\ (old.until = 0 \/ Received[m] < old.until) => m \in all
    <2>1. PICK s \in Slice : s = old.slice
      BY DEF Poll
    <2>2. /\ [s EXCEPT !.until = old.until].since = s.since
          /\ [s EXCEPT !.until = old.until].until = old.until
      BY DEF Slice
    <2> QED BY <1>4, <2>1, <2>2 DEF Inbox!Listed, Inbox!Pages
  <1>6. all \subseteq arrived
    BY DEF Inbox!Listed
  <1>7. fresh # {} => /\ \E n \in fresh : Inbox!Min({Received[m] : m \in fresh}) = Received[n]
                      /\ \A m \in fresh : Inbox!Min({Received[k] : k \in fresh}) <= Received[m]
                      /\ Inbox!Min({Received[m] : m \in fresh}) \in Nat
    <2>1. fresh \in SUBSET Mail
      BY <1>1, <1>5 DEF Types
    <2> HIDE DEF fresh
    <2> QED BY <2>1, HasOldest, PollAssumption DEF Inbox!PollAssumption
  <1>8. PICK new \in Poll :
           /\ Inbox!Becomes(p, new) /\ new.at = "page" /\ new.todo = fresh
           /\ new.seen = old.seen \cup page /\ new.got = old.got \cup fresh
           /\ new.clean = (old.clean /\ shown = all) /\ new.last = (page = shown \/ fresh = {})
           /\ new.until = IF fresh = {} THEN old.until
                          ELSE Inbox!Min({Received[m] : m \in fresh}) + 1
           /\ new.slice = old.slice /\ new.walk = old.walk /\ new.mail = old.mail
    <2> DEFINE until == IF fresh = {} THEN old.until
                        ELSE Inbox!Min({Received[m] : m \in fresh}) + 1
               new == [old EXCEPT
                     !.at = "page", !.todo = fresh, !.seen = @ \cup page,
                     !.got = @ \cup fresh, !.pages = @ + 1,
                     !.clean = @ /\ shown = all,
                     !.last = page = shown \/ fresh = {},
                     !.until = until]
    <2>1. until \in Nat /\ page \subseteq Mail
      <3>1. old.until \in Nat
        BY DEF Poll
      <3>2. page \subseteq Mail
        BY <1>1, <1>5 DEF Types
      <3>3. fresh # {} => Inbox!Min({Received[m] : m \in fresh}) \in Nat
        BY <1>7
      <3> HIDE DEF fresh
      <3> QED BY <3>1, <3>2, <3>3
    <2>2. Inbox!Becomes(p, new)
      BY <1>4
    <2> HIDE DEF until, all
    <2>3. new \in Poll
      <3>1. \A todo, seen, got \in SUBSET Mail, pages, time \in Nat, clean, last \in BOOLEAN :
               [old EXCEPT !.at = "page", !.todo = todo, !.seen = seen, !.got = got,
                           !.pages = pages, !.clean = clean, !.last = last, !.until = time]
                  \in Poll
        <4> SUFFICES ASSUME NEW todo \in SUBSET Mail, NEW seen \in SUBSET Mail,
                            NEW got \in SUBSET Mail, NEW pages \in Nat, NEW time \in Nat,
                            NEW clean \in BOOLEAN, NEW last \in BOOLEAN
                     PROVE  [old EXCEPT !.at = "page", !.todo = todo, !.seen = seen, !.got = got,
                               !.pages = pages, !.clean = clean, !.last = last, !.until = time]
                              \in Poll
          OBVIOUS
        <4>1. PICK mid \in Poll :
                 mid = [old EXCEPT !.at = "page", !.todo = todo, !.seen = seen, !.got = got]
          <5>1. [old EXCEPT !.at = "page", !.todo = todo, !.seen = seen, !.got = got] \in Poll
            BY DEF Poll, Phase
          <5> QED BY <5>1
        <4>2. [mid EXCEPT !.pages = pages, !.clean = clean, !.last = last, !.until = time] \in Poll
          BY DEF Poll
        <4>3. [old EXCEPT !.at = "page", !.todo = todo, !.seen = seen, !.got = got,
                          !.pages = pages, !.clean = clean, !.last = last, !.until = time]
              = [[old EXCEPT !.at = "page", !.todo = todo, !.seen = seen, !.got = got]
                    EXCEPT !.pages = pages, !.clean = clean, !.last = last, !.until = time]
          OBVIOUS
        <4> QED BY <4>1, <4>2, <4>3
      <3>2. /\ fresh \in SUBSET Mail /\ old.seen \cup page \in SUBSET Mail
            /\ old.got \cup fresh \in SUBSET Mail /\ old.pages + 1 \in Nat
            /\ (old.clean /\ shown = all) \in BOOLEAN
            /\ (page = shown \/ fresh = {}) \in BOOLEAN
        BY <2>1 DEF Poll
      <3> HIDE DEF fresh
      <3> QED BY <2>1, <3>1, <3>2
    <2>4. /\ new.at = "page" /\ new.todo = fresh
          /\ new.seen = old.seen \cup page /\ new.got = old.got \cup fresh
          /\ new.clean = (old.clean /\ shown = all) /\ new.last = (page = shown \/ fresh = {})
          /\ new.until = until
          /\ new.slice = old.slice /\ new.walk = old.walk /\ new.mail = old.mail
      BY DEF Poll
    <2> QED BY <2>2, <2>3, <2>4 DEF until
  <1>9. poller' \in [Poller -> Poll] /\ poller'[p] = new /\ OtherPollers(p)
    BY <1>1, <1>8, Becoming
  <1>10. /\ excused \subseteq excused' /\ excused' \subseteq excused \cup arrived
         /\ fresh = {} /\ old.clean /\ shown = all => all \ old.seen \subseteq excused'
    BY <1>4, <1>6
  <1> HIDE DEF all, fresh, Turns
  <1>11. Types'
    <2>1. \A q \in Poller : \A m, n \in poller'[q].mail : m = n
      <3>1. poller'[p].mail = poller[p].mail
        BY <1>2, <1>8, <1>9
      <3> QED BY <1>1, <1>9, <3>1 DEF Types, OtherPollers
    <2> QED BY <1>1, <1>9, <1>10, <2>1 DEF Types, Inbox!rows, Inbox!marks
  <1>12. Grows
    BY <1>1, <1>9, <1>10, GrowsBy DEF Inbox!On, Inbox!HeldBy, Parking, Safe, Inbox!In,
                                      Inbox!rows, Inbox!marks
  <1>13. ClaimsHeld'
    BY <1>1, <1>2, <1>8, <1>9, <1>10, ClaimsStay DEF Inbox!rows
  <1>14. Fetched(p) /\ Bounded(p) /\ Reaches(p)
    BY <1>1 DEF Walk
  <1>15. \A m \in Mail : Received[m] \in Nat
    BY PollAssumption DEF Inbox!PollAssumption
  <1>16. old.until \in Nat /\ old.slice.until \in Nat /\ old.got \subseteq Mail
    BY DEF Poll, Slice
  <1>17. /\ fresh \subseteq page /\ fresh \subseteq Mail /\ page \subseteq arrived
         /\ arrived \subseteq Mail
    BY <1>1, <1>5 DEF Types, fresh
  <1>18. new.until = IF new.got = {} THEN new.slice.until
                     ELSE Inbox!Min({Received[n] : n \in new.got}) + 1
    <2>1. CASE fresh = {}
      BY <1>2, <1>8, <1>14, <2>1 DEF Fetched, Inbox!Oldest
    <2>2. CASE fresh # {}
      <3>1. new.got # {} /\ new.got \in SUBSET Mail /\ fresh \subseteq new.got
        BY <1>8, <1>16, <1>17, <2>2
      <3>2. PICK n \in new.got : Inbox!Min({Received[k] : k \in new.got}) = Received[n]
                                 /\ \A k \in new.got : Received[n] <= Received[k]
        BY <3>1, HasOldest
      <3>3. PICK o \in fresh : Inbox!Min({Received[k] : k \in fresh}) = Received[o]
                               /\ \A k \in fresh : Received[o] <= Received[k]
        BY <1>17, <2>2, HasOldest
      <3>4. \A k \in old.got : Received[o] <= Received[k]
        <4>1. ASSUME NEW k \in old.got PROVE Received[o] <= Received[k]
          <5>1. PICK l \in old.got : Inbox!Min({Received[i] : i \in old.got}) = Received[l]
                                     /\ \A i \in old.got : Received[l] <= Received[i]
            BY <1>16, HasOldest
          <5>2. old.until = Received[l] + 1
            BY <1>2, <1>14, <5>1 DEF Fetched, Inbox!Oldest
          <5>3. o \in shown /\ Received[o] \in Nat /\ Received[l] \in Nat /\ Received[k] \in Nat
                /\ Received[l] <= Received[k]
            BY <1>5, <1>15, <1>16, <1>17, <5>1
          <5> QED BY <1>5, <5>2, <5>3
        <4> QED BY <4>1
      <3>5. Received[n] = Received[o]
        <4>1. n \in Mail /\ o \in Mail /\ Received[n] \in Nat /\ Received[o] \in Nat
          BY <1>15, <1>17, <3>1
        <4>2. Received[n] <= Received[o] /\ Received[o] <= Received[n]
          BY <1>8, <3>1, <3>2, <3>3, <3>4
        <4> QED BY <4>1, <4>2
      <3> QED BY <1>8, <2>2, <3>1, <3>2, <3>3, <3>5
    <2> QED BY <2>1, <2>2
  <1>19. Fetched(p)'
    <2>1. /\ new.todo \subseteq new.seen /\ new.got \subseteq new.seen
          /\ new.seen \subseteq arrived
      BY <1>2, <1>8, <1>14, <1>17 DEF Fetched
    <2>2. ASSUME NEW m \in new.seen \ new.todo PROVE Handled(m)'
      <3>1. m \in old.seen
        BY <1>8 DEF fresh
      <3>2. m \in arrived /\ Handled(m)
        BY <1>1, <1>2, <1>14, <3>1 DEF Fetched
      <3> QED BY <1>12, <3>2 DEF Grows
    <2> QED BY <1>1, <1>8, <1>9, <1>18, <2>1, <2>2 DEF Fetched, Inbox!Oldest
  <1>20. Bounded(p)'
    BY <1>1, <1>2, <1>8, <1>9, <1>12, <1>14 DEF Bounded, Past, Ahead, Before, Grows
  <1>21. Reaches(p)'
    <2> SUFFICES ASSUME new.clean, NEW m \in arrived \ new.seen, Inbox!In(m, new.slice)
                 PROVE  \/ m \in excused'
                        \/ new.walk = "live" /\ \A n \in new.got : Received[n] <= Received[m]
                        \/ ~new.last /\ (new.until = 0 \/ Received[m] < new.until)
      BY <1>1, <1>9 DEF Reaches, Inbox!In
    <2>1. old.clean /\ shown = all /\ m \in Mail /\ Received[m] \in Nat /\ m \notin page
          /\ m \notin old.seen /\ Received[m] >= old.slice.since
      BY <1>8, <1>15, <1>17 DEF Inbox!In
    <2>2. CASE m \in all /\ fresh = {}
      BY <1>10, <2>1, <2>2
    <2>3. CASE m \in all /\ fresh # {}
      <3>1. ~new.last
        BY <1>8, <2>1, <2>3
      <3>2. PICK o \in fresh : Inbox!Min({Received[k] : k \in fresh}) = Received[o]
        BY <1>7, <2>3
      <3>3. Received[m] <= Received[o] /\ Received[o] \in Nat
        BY <1>5, <1>15, <1>17, <2>1, <2>3
      <3> QED BY <1>8, <2>1, <2>3, <3>1, <3>2, <3>3
    <2>4. CASE m \notin all
      <3>1. old.until # 0 /\ ~(Received[m] < old.until)
        BY <1>5, <2>1, <2>4
      <3>2. m \in excused \/ (old.walk = "live" /\ \A n \in old.got : Received[n] <= Received[m])
        BY <1>2, <1>8, <1>14, <2>1, <3>1 DEF Reaches
      <3>3. \A n \in fresh : Received[n] <= Received[m]
        BY <1>5, <1>15, <1>16, <1>17, <2>1, <3>1
      <3> QED BY <1>8, <1>10, <3>2, <3>3
    <2> QED BY <2>2, <2>3, <2>4
  <1>22. Walk(p)'
    BY <1>19, <1>20, <1>21 DEF Walk
  <1> QED BY <1>1, <1>9, <1>11, <1>12, <1>13, <1>22, StepKeeps DEF Inbox!marks

-----------------------------------------------------------------------------
(* One answer.                                                             *)

\* A step within a page that deals with what it takes from it.
LEMMA WithinPage ==
  ASSUME PollInv, NEW p \in Poller, OtherPollers(p), Types', ClaimsHeld', Grows,
         UNCHANGED <<mark, backlog>>,
         NEW old \in Poll, NEW new \in Poll, old = poller[p], new = poller'[p],
         old.at \in {"page", "labels"}, new.at \in {"page", "labels"},
         new.todo \subseteq old.todo, \A m \in old.todo \ new.todo : Handled(m)',
         new.slice = old.slice, new.walk = old.walk, new.until = old.until, new.got = old.got,
         new.seen = old.seen, new.clean = old.clean, new.last = old.last
  PROVE  PollInv'
  <1>1. Fetched(p) /\ Bounded(p) /\ Reaches(p)
    BY DEF PollInv, Walk
  <1>2. Fetched(p)'
    <2>1. ASSUME NEW m \in new.seen \ new.todo PROVE Handled(m)'
      <3>1. CASE m \in old.todo
        BY <3>1
      <3>2. CASE m \notin old.todo
        BY <1>1, <3>2 DEF Fetched, Grows
      <3> QED BY <3>1, <3>2
    <2> QED BY <1>1, <2>1 DEF Fetched, Grows, Inbox!Oldest
  <1>3. Bounded(p)'
    BY <1>1 DEF Bounded, Past, Ahead, Before, Grows
  <1>4. Reaches(p)'
    BY <1>1 DEF Reaches, Grows, Inbox!In
  <1> QED BY <1>2, <1>3, <1>4, StepKeeps DEF Walk

LEMMA ClaimKeeps ==
  ASSUME PollInv, NEW p \in Poller, NEW m \in poller[p].todo, Inbox!On(p, "page"),
         Inbox!Claim(p, m),
                  UNCHANGED <<arrived, Inbox!marks, up, broken>>
  PROVE  PollInv'
  <1>1. /\ Types /\ Walk(p) /\ poller[p].at = "page" /\ m \in arrived
        /\ UNCHANGED <<arrived, mark, backlog, unread, replied, optedOut, excused>>
    BY DEF PollInv, Inbox!Claim, Inbox!On, Walk, Fetched, Inbox!marks
  <1>2. PICK old \in Poll : old = poller[p]
    BY <1>1 DEF Types
  <1>3. PICK new \in Poll : /\ Inbox!Becomes(p, new) /\ new.at = "labels" /\ new.mail = {m}
                            /\ new = [old EXCEPT !.todo = @ \ {m}, !.at = "labels", !.mail = {m}]
    <2>1. PICK mid \in Poll : mid = [old EXCEPT !.todo = @ \ {m}]
      <3>1. [old EXCEPT !.todo = @ \ {m}] \in Poll
        BY DEF Poll
      <3> QED BY <3>1
    <2>2. /\ [mid EXCEPT !.at = "labels", !.mail = {m}] \in Poll
          /\ [mid EXCEPT !.at = "labels", !.mail = {m}].at = "labels"
          /\ [mid EXCEPT !.at = "labels", !.mail = {m}].mail = {m}
      BY <1>1 DEF Poll, Phase, Types
    <2>3. [mid EXCEPT !.at = "labels", !.mail = {m}]
             = [old EXCEPT !.todo = @ \ {m}, !.at = "labels", !.mail = {m}]
      BY <2>1 DEF Poll
    <2> QED BY <1>2, <2>1, <2>2, <2>3 DEF Inbox!Claim, Inbox!Rest
  <1>4. /\ new.todo = old.todo \ {m} /\ new.slice = old.slice /\ new.walk = old.walk
        /\ new.until = old.until /\ new.got = old.got /\ new.seen = old.seen
        /\ new.clean = old.clean /\ new.last = old.last
    BY <1>3 DEF Poll
  <1>5. poller' \in [Poller -> Poll] /\ poller'[p] = new /\ OtherPollers(p)
    BY <1>1, <1>3, Becoming
  <1>6. Types'
    <2>1. intent' \in [Mail -> {"no row", "none", "claimed", "reply", "opt-out"}]
      BY <1>1 DEF Inbox!Claim, Types
    <2>2. \A q \in Poller : \A k, n \in poller'[q].mail : k = n
      <3>1. \A k, n \in new.mail : k = n
        BY <1>3
      <3> QED BY <1>1, <1>5, <3>1, HoldsOne
    <2> QED BY <1>1, <1>5, <2>1, <2>2 DEF Types
  <1>7. Handled(m)'
    BY <1>3, <1>5 DEF Handled, Inbox!HeldBy, Inbox!On
  <1>8. Grows
    BY <1>1, <1>5, GrowsBy DEF Inbox!On, Inbox!HeldBy, Parking, Safe, Inbox!In
  <1>9. ClaimsHeld'
    <2> SUFFICES ASSUME NEW n \in Mail, intent'[n] = "claimed"
                 PROVE  \/ n \in excused' \/ Inbox!Retrying(n)'
                        \/ \E q \in Poller : Inbox!HeldBy(q, n)'
      BY DEF ClaimsHeld
    <2>1. CASE n = m
      BY <1>3, <1>5, <2>1 DEF Inbox!HeldBy, Inbox!On
    <2>2. CASE n # m
      <3>1. intent[n] = "claimed"
        BY <1>1, <2>2 DEF Inbox!Claim, Types
      <3>2. n \in excused \/ Inbox!Retrying(n) \/ \E q \in Poller : Inbox!HeldBy(q, n)
        BY <3>1 DEF PollInv, ClaimsHeld
      <3> QED BY <1>1, <1>5, <3>2 DEF Inbox!Retrying, Inbox!HeldBy, Inbox!On, OtherPollers
    <2> QED BY <2>1, <2>2
  <1>10. \A n \in old.todo \ new.todo : Handled(n)'
    BY <1>4, <1>7
  <1>11. /\ old.at \in {"page", "labels"} /\ new.at \in {"page", "labels"} /\ old = poller[p]
         /\ new = poller'[p] /\ new.todo \subseteq old.todo /\ UNCHANGED <<mark, backlog>>
         /\ OtherPollers(p)
    BY <1>1, <1>2, <1>3, <1>4, <1>5
  <1> QED BY <1>4, <1>6, <1>8, <1>9, <1>10, <1>11, WithinPage

\* An answer that needs no call.
LEMMA PassKeeps ==
  ASSUME PollInv, NEW p \in Poller, NEW m \in poller[p].todo, Inbox!On(p, "page"),
         Inbox!Becomes(p, Inbox!Rest(p, m)),
         Handled(m)', unread' = unread \ {m}, excused \subseteq excused',
         excused' \subseteq excused \cup {m}, intent' = intent,
         replied \subseteq replied', replied' \subseteq replied \cup {m},
         optedOut \subseteq optedOut', optedOut' \subseteq optedOut \cup {m},
         UNCHANGED <<arrived, Inbox!marks, up, broken>>
  PROVE  PollInv'
  <1>1. /\ Types /\ Walk(p) /\ poller[p].at = "page" /\ m \in arrived /\ m \in Mail
        /\ UNCHANGED <<arrived, mark, backlog>>
    BY DEF PollInv, Inbox!On, Walk, Fetched, Inbox!marks, Types
  <1>2. PICK old \in Poll : old = poller[p]
    BY <1>1 DEF Types
  <1>3. PICK new \in Poll : Inbox!Becomes(p, new) /\ new = [old EXCEPT !.todo = @ \ {m}]
    <2>1. [old EXCEPT !.todo = @ \ {m}] \in Poll
      BY DEF Poll
    <2> QED BY <1>2, <2>1 DEF Inbox!Rest
  <1>4. /\ new.todo = old.todo \ {m} /\ new.slice = old.slice /\ new.walk = old.walk
        /\ new.until = old.until /\ new.got = old.got /\ new.seen = old.seen
        /\ new.clean = old.clean /\ new.last = old.last /\ new.at = old.at
        /\ new.mail = old.mail
    BY <1>3 DEF Poll
  <1>5. poller' \in [Poller -> Poll] /\ poller'[p] = new /\ OtherPollers(p)
    BY <1>1, <1>3, Becoming
  <1>6. Types'
    <2>1. \A q \in Poller : \A k, n \in poller'[q].mail : k = n
      <3>1. \A k, n \in old.mail : k = n
        BY <1>1, <1>2 DEF Types
      <3> QED BY <1>1, <1>4, <1>5, <3>1, HoldsOne
    <2> QED BY <1>1, <1>5, <2>1 DEF Types
  <1>7. Grows
    BY <1>1, <1>5, GrowsBy DEF Inbox!On, Inbox!HeldBy, Parking, Safe, Inbox!In
  <1>8. ClaimsHeld'
    BY <1>1, <1>5, ClaimsStay
  <1> QED BY <1>1, <1>2, <1>4, <1>5, <1>6, <1>7, <1>8, WithinPage

LEMMA ProcessKeeps == ASSUME PollInv, NEW p \in Poller, Inbox!Process(p) PROVE PollInv'
  <1>1. Inbox!On(p, "page") /\ UNCHANGED <<arrived, Inbox!marks, up, broken>>
    BY DEF Inbox!Process
  <1>2. PICK m \in poller[p].todo : Inbox!Claim(p, m) \/ Inbox!Skip(p, m) \/ Inbox!Reread(p, m)
    BY DEF Inbox!Process, Inbox!Newest
  <1>3. m \in Mail
    BY <1>1 DEF PollInv, Types, Walk, Fetched, Inbox!On
  <1>4. CASE Inbox!Claim(p, m)
    BY <1>1, <1>4, ClaimKeeps
  <1>5. CASE Inbox!Skip(p, m)
    <2>1. m \in excused \/ Inbox!Retrying(m) \/ \E q \in Poller : Inbox!HeldBy(q, m)
      BY <1>3, <1>5 DEF PollInv, ClaimsHeld, Inbox!Skip
    <2>2. OtherPollers(p)
      BY <1>5 DEF Inbox!Skip, Inbox!Becomes, OtherPollers, PollInv, Types
    <2>3. Handled(m)'
      <3>1. CASE m \in excused \/ Inbox!Retrying(m)
        BY <1>5, <3>1 DEF Inbox!Skip, Handled
      <3>2. ASSUME NEW q \in Poller, Inbox!HeldBy(q, m) PROVE Handled(m)'
        BY <1>1, <2>2, <3>2 DEF OtherPollers, Inbox!HeldBy, Inbox!On, Handled
      <3> QED BY <2>1, <3>1, <3>2
    <2> QED BY <1>1, <1>5, <2>3, PassKeeps DEF Inbox!Skip
  <1>6. CASE Inbox!Reread(p, m)
    <2>1. /\ replied \subseteq replied' /\ replied' \subseteq replied \cup {m}
          /\ optedOut \subseteq optedOut' /\ optedOut' \subseteq optedOut \cup {m}
          /\ Inbox!Counted(m)'
      BY <1>6 DEF Inbox!Reread, Inbox!Bookkeep, Inbox!Counted
    <2> QED BY <1>1, <1>6, <2>1, PassKeeps DEF Inbox!Reread, Handled
  <1> QED BY <1>2, <1>4, <1>5, <1>6

LEMMA LabelKeeps == ASSUME PollInv, NEW p \in Poller, Inbox!Label(p) PROVE PollInv'
  <1>1. /\ Types /\ Walk(p) /\ poller[p].at = "labels"
        /\ UNCHANGED <<arrived, mark, backlog, up, excused, broken>>
    BY DEF PollInv, Inbox!Label, Inbox!On, Inbox!marks
  <1>2. PICK m \in poller[p].mail :
           /\ \E label \in Inbox!Labels(m) :
                 intent' = [intent EXCEPT ![m] = label] /\ Inbox!Bookkeep(m, label)
           /\ unread' = unread \ {m}
           /\ Inbox!Becomes(p, [poller[p] EXCEPT !.at = "page", !.mail = {}])
    BY DEF Inbox!Label
  <1>3. PICK label \in Inbox!Labels(m) :
           intent' = [intent EXCEPT ![m] = label] /\ Inbox!Bookkeep(m, label)
    BY <1>2
  <1>4. PICK old \in Poll : old = poller[p]
    BY <1>1 DEF Types
  <1>5. m \in Mail /\ \A n \in old.mail : n = m
    BY <1>1, <1>4 DEF Types, Poll
  <1>6. PICK new \in Poll : Inbox!Becomes(p, new) /\ new = [old EXCEPT !.at = "page", !.mail = {}]
    <2>1. [old EXCEPT !.at = "page", !.mail = {}] \in Poll
      BY DEF Poll, Phase
    <2> QED BY <1>2, <1>4, <2>1
  <1>7. /\ new.todo = old.todo /\ new.slice = old.slice /\ new.walk = old.walk
        /\ new.until = old.until /\ new.got = old.got /\ new.seen = old.seen
        /\ new.clean = old.clean /\ new.last = old.last /\ new.at = "page" /\ new.mail = {}
    BY <1>6 DEF Poll
  <1>8. poller' \in [Poller -> Poll] /\ poller'[p] = new /\ OtherPollers(p)
    BY <1>1, <1>6, Becoming
  <1>9. /\ replied \subseteq replied' /\ replied' \subseteq replied \cup {m}
        /\ optedOut \subseteq optedOut' /\ optedOut' \subseteq optedOut \cup {m}
        /\ Inbox!Counted(m)'
    BY <1>3 DEF Inbox!Bookkeep, Inbox!Counted
  <1>10. Types'
    <2>1. label \in {"none", "opt-out", "reply"}
      BY DEF Inbox!Labels
    <2>2. intent' \in [Mail -> {"no row", "none", "claimed", "reply", "opt-out"}]
      BY <1>1, <1>3, <2>1 DEF Types
    <2>3. \A q \in Poller : \A k, n \in poller'[q].mail : k = n
      <3>1. \A k, n \in new.mail : k = n
        BY <1>7
      <3> QED BY <1>1, <1>8, <3>1, HoldsOne
    <2> QED BY <1>1, <1>2, <1>5, <1>8, <1>9, <2>2, <2>3 DEF Types
  <1>11. Grows
    BY <1>1, <1>2, <1>4, <1>5, <1>8, <1>9, GrowsBy DEF Inbox!On, Inbox!HeldBy, Handled, Parking,
                                                       Safe, Inbox!In
  <1>12. ClaimsHeld'
    <2> SUFFICES ASSUME NEW n \in Mail, intent'[n] = "claimed"
                 PROVE  \/ n \in excused' \/ Inbox!Retrying(n)'
                        \/ \E q \in Poller : Inbox!HeldBy(q, n)'
      BY DEF ClaimsHeld
    <2>1. n # m /\ intent[n] = "claimed"
      BY <1>1, <1>3 DEF Inbox!Labels, Types
    <2>2. n \in excused \/ Inbox!Retrying(n) \/ \E q \in Poller : Inbox!HeldBy(q, n)
      BY <2>1 DEF PollInv, ClaimsHeld
    <2> QED BY <1>1, <1>4, <1>5, <1>8, <2>1, <2>2 DEF Inbox!Retrying, Inbox!HeldBy, Inbox!On,
                                                      OtherPollers
  <1>13. /\ old.at \in {"page", "labels"} /\ new.at \in {"page", "labels"} /\ old = poller[p]
         /\ new = poller'[p] /\ new.todo = old.todo /\ UNCHANGED <<mark, backlog>>
         /\ OtherPollers(p)
    BY <1>1, <1>4, <1>7, <1>8
  <1> QED BY <1>7, <1>10, <1>11, <1>12, <1>13, WithinPage

-----------------------------------------------------------------------------
(* What else touches a row.                                                *)

\* A poller that is done.
LEMMA RelabelKeeps == ASSUME PollInv, NEW p \in Poller, Inbox!Relabel(p) PROVE PollInv'
  <1>1. /\ Types /\ poller[p].at = "retries"
        /\ UNCHANGED <<arrived, mark, backlog, unread, replied, excused>>
    BY DEF PollInv, Inbox!Relabel, Inbox!On, Inbox!marks
  <1>2. PICK m \in poller[p].mail : \E label \in Inbox!Labels(m) :
           /\ intent' = [intent EXCEPT ![m] = label]
           /\ optedOut' = IF label = "opt-out" THEN optedOut \cup {m} ELSE optedOut
           /\ Inbox!Becomes(p, Inbox!Idle)
    BY DEF Inbox!Relabel
  <1>3. PICK label \in Inbox!Labels(m) :
           /\ intent' = [intent EXCEPT ![m] = label]
           /\ optedOut' = IF label = "opt-out" THEN optedOut \cup {m} ELSE optedOut
           /\ Inbox!Becomes(p, Inbox!Idle)
    BY <1>2
  <1>4. m \in Mail /\ \A n \in poller[p].mail : n = m
    BY <1>1 DEF Types, Poll
  <1>5. poller' \in [Poller -> Poll] /\ poller'[p] = Inbox!Idle /\ OtherPollers(p)
    BY <1>1, <1>3, IdleTyped, Becoming
  <1>6. Types'
    <2>1. label \in {"none", "opt-out", "reply"}
      BY DEF Inbox!Labels
    <2>2. intent' \in [Mail -> {"no row", "none", "claimed", "reply", "opt-out"}]
      BY <1>1, <1>3, <2>1 DEF Types
    <2>3. \A q \in Poller : \A k, n \in poller'[q].mail : k = n
      <3>1. \A k, n \in Inbox!Idle.mail : k = n
        BY DEF Inbox!Idle
      <3> QED BY <1>1, <1>5, <3>1, HoldsOne
    <2>4. optedOut' \subseteq Mail
      BY <1>1, <1>3, <1>4 DEF Types
    <2> QED BY <1>1, <1>5, <2>2, <2>3, <2>4 DEF Types
  <1>7. Grows
    <2>1. optedOut \subseteq optedOut'
      BY <1>3
    <2> QED BY <1>1, <1>5, <2>1, GrowsBy DEF Inbox!On, Inbox!HeldBy, Parking, Safe, Inbox!In
  <1>8. ClaimsHeld'
    <2> SUFFICES ASSUME NEW n \in Mail, intent'[n] = "claimed"
                 PROVE  \/ n \in excused' \/ Inbox!Retrying(n)'
                        \/ \E q \in Poller : Inbox!HeldBy(q, n)'
      BY DEF ClaimsHeld
    <2>1. n # m /\ intent[n] = "claimed"
      BY <1>1, <1>3 DEF Inbox!Labels, Types
    <2>2. n \in excused \/ Inbox!Retrying(n) \/ \E q \in Poller : Inbox!HeldBy(q, n)
      BY <2>1 DEF PollInv, ClaimsHeld
    <2> QED BY <1>1, <1>4, <1>5, <2>1, <2>2 DEF Inbox!Retrying, Inbox!HeldBy, Inbox!On,
                                                OtherPollers
  <1>9. Walk(p)'
    BY <1>5 DEF Walk, Inbox!Idle
  <1> QED BY <1>1, <1>5, <1>6, <1>7, <1>8, <1>9, StepKeeps

LEMMA RetryKeeps ==
  ASSUME PollInv, NEW p \in Poller, NEW m \in Mail, Inbox!Retry(p, m)
  PROVE  PollInv'
  <1>1. /\ Types /\ poller[p].at = "polled" /\ intent' = [intent EXCEPT ![m] = "claimed"]
        /\ UNCHANGED <<arrived, mark, backlog, unread, replied, optedOut, excused>>
    BY DEF PollInv, Inbox!Retry, Inbox!On, Inbox!marks
  <1>2. PICK t \in Poll : Inbox!Becomes(p, t) /\ t.at = "retries" /\ t.mail = {m}
    <2>1. PICK old \in Poll : old = Inbox!Idle
      BY IdleTyped
    <2>2. /\ [old EXCEPT !.at = "retries", !.mail = {m}] \in Poll
          /\ [old EXCEPT !.at = "retries", !.mail = {m}].at = "retries"
          /\ [old EXCEPT !.at = "retries", !.mail = {m}].mail = {m}
      BY DEF Poll, Phase
    <2> QED BY <2>1, <2>2 DEF Inbox!Retry
  <1>3. poller' \in [Poller -> Poll] /\ poller'[p] = t /\ OtherPollers(p)
    BY <1>1, <1>2, Becoming
  <1>4. Types'
    <2>1. intent' \in [Mail -> {"no row", "none", "claimed", "reply", "opt-out"}]
      BY <1>1 DEF Types
    <2>2. \A q \in Poller : \A k, n \in poller'[q].mail : k = n
      <3>1. \A k, n \in t.mail : k = n
        BY <1>2
      <3> QED BY <1>1, <1>3, <3>1, HoldsOne
    <2> QED BY <1>1, <1>3, <2>1, <2>2 DEF Types
  <1>5. Grows
    BY <1>1, <1>3, GrowsBy DEF Inbox!On, Inbox!HeldBy, Parking, Safe, Inbox!In
  <1>6. ClaimsHeld'
    <2> SUFFICES ASSUME NEW n \in Mail, intent'[n] = "claimed"
                 PROVE  \/ n \in excused' \/ Inbox!Retrying(n)'
                        \/ \E q \in Poller : Inbox!HeldBy(q, n)'
      BY DEF ClaimsHeld
    <2>1. CASE n = m
      BY <1>2, <1>3, <2>1 DEF Inbox!Retrying, Inbox!On
    <2>2. CASE n # m
      <3>1. intent[n] = "claimed"
        BY <1>1, <2>2 DEF Types
      <3>2. n \in excused \/ Inbox!Retrying(n) \/ \E q \in Poller : Inbox!HeldBy(q, n)
        BY <3>1 DEF PollInv, ClaimsHeld
      <3> QED BY <1>1, <1>3, <3>2 DEF Inbox!Retrying, Inbox!HeldBy, Inbox!On, OtherPollers
    <2> QED BY <2>1, <2>2
  <1>7. Walk(p)'
    BY <1>2, <1>3 DEF Walk
  <1> QED BY <1>1, <1>3, <1>4, <1>5, <1>6, <1>7, StepKeeps

\* A step of no poller.
LEMMA RowKeeps ==
  ASSUME PollInv, UNCHANGED <<arrived, unread, replied, optedOut, Inbox!marks, poller, excused>>,
         intent' \in [Mail -> {"no row", "none", "claimed", "reply", "opt-out"}],
         \A m \in Mail : intent'[m] = "claimed" => intent[m] = "claimed"
  PROVE  PollInv'
  <1>1. Types' /\ mark' = mark
    BY DEF PollInv, Types, Inbox!marks
  <1>2. ClaimsHeld'
    BY DEF PollInv, ClaimsHeld, Inbox!Retrying, Inbox!HeldBy, Inbox!On
  <1>3. Grows
    BY DEF Grows, Handled, Inbox!Counted, Inbox!HeldBy, Inbox!On, Safe, Inbox!In, Parking,
           Inbox!Parks, Inbox!Oldest, Inbox!marks
  <1>4. backlog' # Inbox!None => Past(backlog.until)'
    BY DEF PollInv, Past, Ahead, Inbox!marks
  <1> QED BY <1>1, <1>2, <1>3, <1>4, StepLeaves

LEMMA CaptureKeeps == ASSUME PollInv, NEW m \in Mail, Inbox!Capture(m) PROVE PollInv'
  BY RowKeeps DEF Inbox!Capture, PollInv, Types

LEMMA BootKeeps == ASSUME PollInv, Inbox!Boot PROVE PollInv'
  BY RowKeeps DEF Inbox!Boot, PollInv, Types

LEMMA ArriveKeeps == ASSUME PollInv, NEW m \in Mail, Inbox!Arrive(m) PROVE PollInv'
  <1>1. /\ Types /\ m \notin arrived /\ arrived' = arrived \cup {m}
        /\ unread' = unread \cup ({m} \cap Stored)
        /\ \A n \in Mail : Received[n] < Received[m] => n \in arrived
        /\ UNCHANGED <<intent, replied, optedOut, mark, backlog, poller, up, excused, broken>>
    BY DEF PollInv, Inbox!Arrive, Inbox!marks
  <1>2. \A n \in Mail : Received[n] \in Nat
    BY PollAssumption DEF Inbox!PollAssumption
  <1>3. Types'
    BY <1>1 DEF Types
  <1>4. InOrder'
    <2>1. ASSUME NEW k \in Mail \ arrived', NEW n \in arrived' PROVE Received[n] <= Received[k]
      <3>1. CASE n = m
        BY <1>1, <1>2, <3>1
      <3>2. CASE n # m
        BY <1>1, <3>2 DEF PollInv, InOrder
      <3> QED BY <3>1, <3>2
    <2> QED BY <2>1 DEF InOrder
  <1>5. ClaimsHeld'
    BY <1>1 DEF PollInv, ClaimsHeld, Inbox!Retrying, Inbox!HeldBy, Inbox!On
  <1>6. \A n \in arrived : (Handled(n) => Handled(n)') /\ (Safe(n) => Safe(n)')
    BY <1>1 DEF Handled, Inbox!Counted, Inbox!HeldBy, Inbox!On, Safe, Inbox!In, Parking,
                Inbox!Parks, Inbox!Oldest
  <1>7. ASSUME NEW time \in Nat, Ahead(time) PROVE Ahead(time)'
    BY <1>1, <1>7 DEF Ahead
  <1>8. ASSUME NEW since \in Nat, Ahead(since), Before(since) PROVE Before(since)'
    <2>1. ~(Received[m] < since)
      BY <1>1, <1>2, <1>8 DEF Ahead
    <2> QED BY <1>1, <1>6, <1>8, <2>1 DEF Before
  <1>9. Ahead(mark)' /\ Before(Inbox!Window.since)'
    <2>1. mark \in Nat /\ Inbox!Window.since \in Nat /\ Inbox!Window.since <= mark
      BY <1>1, WindowTyped DEF Types
    <2>2. Ahead(mark) /\ Before(Inbox!Window.since)
      BY DEF PollInv
    <2>3. \A n \in Mail \ arrived : Received[n] >= mark
      BY <2>2 DEF Ahead
    <2>4. Ahead(Inbox!Window.since)
      BY <1>2, <2>1, <2>3 DEF Ahead
    <2>5. Inbox!Window.since' = Inbox!Window.since
      BY <1>1 DEF Inbox!Window
    <2>6. Before(Inbox!Window.since)'
      BY <1>8, <2>1, <2>2, <2>4, <2>5 DEF Before, Safe, Handled, Inbox!Counted, Inbox!HeldBy,
                                          Inbox!On
    <2> QED BY <1>1, <1>7, <2>1, <2>2, <2>6 DEF Ahead
  <1>10. backlog' # Inbox!None => Past(backlog.until)'
    BY <1>1 DEF PollInv, Past, Ahead
  <1>11. ASSUME NEW q \in Poller, poller[q].at \in {"list", "page", "labels", "park"}
         PROVE  Fetched(q)' /\ Bounded(q)' /\ Reaches(q)'
    <2>1. Fetched(q) /\ Bounded(q) /\ Reaches(q)
      BY <1>11 DEF PollInv, Walk
    <2>2. PICK t \in Poll : t = poller[q] /\ t = poller'[q]
      BY <1>1 DEF Types
    <2>3. t.slice.since \in Nat /\ t.slice.until \in Nat
      BY DEF Poll, Slice
    <2>4. Fetched(q)'
      BY <1>1, <1>6, <2>1 DEF Fetched, Inbox!Oldest
    <2>5. Bounded(q)'
      BY <1>1, <1>8, <2>1, <2>2, <2>3 DEF Bounded, Past, Ahead, Before
    <2>6. Reaches(q)'
      <3> SUFFICES ASSUME t.clean, NEW n \in arrived' \ t.seen, Inbox!In(n, t.slice)
                   PROVE  \/ n \in excused
                          \/ t.walk = "live" /\ \A k \in t.got : Received[k] <= Received[n]
                          \/ /\ t.at = "list" \/ ~t.last
                             /\ t.until = 0 \/ Received[n] < t.until
        BY <1>1, <2>2 DEF Reaches, Inbox!In
      <3>1. CASE n \in arrived
        BY <2>1, <2>2, <3>1 DEF Reaches
      <3>2. CASE n = m /\ t.walk = "live"
        <4>1. t.got \subseteq arrived
          BY <2>1, <2>2 DEF Fetched
        <4> QED BY <1>1, <3>2, <4>1 DEF PollInv, InOrder
      <3>3. CASE n = m /\ t.walk # "live"
        <4>1. t.slice.until > 0 /\ Received[m] >= t.slice.until
          BY <1>1, <2>1, <2>2, <3>3 DEF Bounded, Past, Ahead
        <4> QED BY <1>2, <2>3, <3>3, <4>1 DEF Inbox!In
      <3> QED BY <1>1, <3>1, <3>2, <3>3
    <2> QED BY <2>4, <2>5, <2>6
  <1>12. \A q \in Poller : Walk(q)'
    BY <1>1, <1>11 DEF Walk
  <1> QED BY <1>3, <1>4, <1>5, <1>9, <1>10, <1>12 DEF PollInv

-----------------------------------------------------------------------------
(* Deaths.                                                                 *)

\* What dies with a poller is excused.
LEMMA LosesAll ==
  ASSUME PollInv, NEW p \in Poller
  PROVE  /\ Inbox!Loses(p) \subseteq Mail /\ poller[p].mail \subseteq Inbox!Loses(p)
         /\ \A m \in arrived : Parking(p, m) => m \in Inbox!Loses(p)
  <1>1. PICK t \in Poll : t = poller[p]
    BY DEF PollInv, Types
  <1>2. t.mail \subseteq Mail /\ arrived \subseteq Mail
    BY DEF Poll, PollInv, Types
  <1>3. ASSUME NEW m \in arrived, Parking(p, m) PROVE Inbox!In(m, t.slice)
    <2>1. Walk(p) /\ t.at = "park"
      BY <1>1, <1>3 DEF PollInv, Parking, Inbox!On
    <2>2. t.slice.until = 0
      BY <1>1, <2>1 DEF Walk, Fetched, Bounded
    <2> QED BY <1>1, <1>3, <2>2 DEF Inbox!In, Parking
  <1> QED BY <1>1, <1>2, <1>3 DEF Inbox!Loses, Parking

\* Some pollers die.
LEMMA DeathKeeps ==
  ASSUME PollInv, NEW D \in SUBSET Poller, UNCHANGED <<arrived, Inbox!rows, Inbox!marks>>,
         poller' = [q \in Poller |-> IF q \in D THEN Inbox!Idle ELSE poller[q]],
         excused' = excused \cup UNION {Inbox!Loses(q) : q \in D}
  PROVE  PollInv'
  <1>1. /\ Types /\ UNCHANGED <<arrived, intent, unread, replied, optedOut, mark, backlog>>
        /\ \A q \in D : poller'[q] = Inbox!Idle
        /\ \A q \in Poller \ D : poller'[q] = poller[q]
    BY DEF PollInv, Inbox!rows, Inbox!marks
  <1>2. excused \subseteq excused' /\ \A q \in D : Inbox!Loses(q) \subseteq excused'
    OBVIOUS
  <1>3. Types'
    <2>1. excused' \subseteq Mail
      <3>1. \A q \in D : Inbox!Loses(q) \subseteq Mail
        BY LosesAll
      <3>2. excused \subseteq Mail
        BY <1>1 DEF Types
      <3> QED BY <3>1, <3>2
    <2>2. poller' \in [Poller -> Poll]
      BY <1>1, IdleTyped DEF Types
    <2>3. \A q \in Poller : \A m, n \in poller'[q].mail : m = n
      <3>1. Inbox!Idle.mail = {}
        BY DEF Inbox!Idle
      <3> QED BY <1>1, <3>1 DEF Types
    <2> QED BY <1>1, <2>1, <2>2, <2>3 DEF Types
  <1>4. ASSUME NEW q \in D, NEW m \in poller[q].mail PROVE m \in excused'
    BY <1>2, LosesAll
  <1>5. ClaimsHeld'
    <2> SUFFICES ASSUME NEW m \in Mail, intent[m] = "claimed"
                 PROVE  \/ m \in excused' \/ Inbox!Retrying(m)'
                        \/ \E q \in Poller : Inbox!HeldBy(q, m)'
      BY <1>1 DEF ClaimsHeld
    <2>1. m \in excused \/ Inbox!Retrying(m) \/ \E q \in Poller : Inbox!HeldBy(q, m)
      BY DEF PollInv, ClaimsHeld
    <2> QED BY <1>1, <1>2, <1>4, <2>1 DEF Inbox!Retrying, Inbox!HeldBy, Inbox!On
  <1>6. ASSUME NEW m \in arrived, Handled(m) PROVE Handled(m)'
    BY <1>1, <1>2, <1>4, <1>6 DEF Handled, Inbox!Counted, Inbox!HeldBy, Inbox!On
  <1>7. ASSUME NEW m \in arrived, Safe(m) PROVE Safe(m)'
    <2>1. CASE Handled(m)
      BY <1>6, <2>1 DEF Safe
    <2>2. CASE m \in unread \/ (backlog # Inbox!None /\ Inbox!In(m, backlog))
      BY <1>1, <2>2 DEF Safe, Inbox!In
    <2>3. ASSUME NEW q \in Poller, Parking(q, m) PROVE Safe(m)'
      <3>1. CASE q \in D
        <4>1. m \in excused'
          BY <1>2, <2>3, <3>1, LosesAll
        <4> QED BY <4>1 DEF Safe, Handled
      <3>2. CASE q \notin D
        <4>1. Parking(q, m)'
          BY <1>1, <2>3, <3>2 DEF Parking, Inbox!On, Inbox!Parks, Inbox!Oldest
        <4> QED BY <4>1 DEF Safe
      <3> QED BY <3>1, <3>2
    <2> QED BY <1>7, <2>1, <2>2, <2>3 DEF Safe
  <1>8. Grows
    BY <1>1, <1>2, <1>6, <1>7 DEF Grows
  <1>9. backlog' # Inbox!None => Past(backlog.until)'
    BY <1>1 DEF PollInv, Past, Ahead
  <1>10. ASSUME NEW q \in Poller PROVE poller'[q] = poller[q] \/ Walk(q)'
    BY <1>1 DEF Walk, Inbox!Idle
  <1> QED BY <1>1, <1>3, <1>5, <1>8, <1>9, <1>10, StepLeaves

LEMMA DieCliKeeps == ASSUME PollInv, NEW p \in Poller, Inbox!DieCli(p) PROVE PollInv'
  <1>1. poller' = [q \in Poller |-> IF q \in {p} THEN Inbox!Idle ELSE poller[q]]
    BY DEF Inbox!DieCli, Inbox!Becomes, PollInv, Types
  <1>2. excused' = excused \cup UNION {Inbox!Loses(q) : q \in {p}}
    BY DEF Inbox!DieCli
  <1> QED BY <1>1, <1>2, DeathKeeps DEF Inbox!DieCli

LEMMA DieServerKeeps == ASSUME PollInv, Inbox!DieServer PROVE PollInv'
  <1>1. poller' = [q \in Poller |-> IF q \in Poller \ Cli THEN Inbox!Idle ELSE poller[q]]
    BY DEF Inbox!DieServer
  <1> QED BY <1>1, DeathKeeps DEF Inbox!DieServer

-----------------------------------------------------------------------------
(* The end of a walk.                                                      *)

\* What was not seen comes after all that was.
LEMMA NewestAhead ==
  ASSUME PollInv, NEW S \in SUBSET arrived, S # {}
  PROVE  /\ Inbox!Max({Received[m] : m \in S}) \in Nat /\ Ahead(Inbox!Max({Received[m] : m \in S}))
         /\ \E n \in S : Inbox!Max({Received[m] : m \in S}) = Received[n]
  <1>1. S \in SUBSET Mail
    BY DEF PollInv, Types
  <1>2. PICK n \in S : Inbox!Max({Received[m] : m \in S}) = Received[n]
    BY <1>1, HasNewest
  <1>3. Received[n] \in Nat /\ \A m \in Mail \ arrived : Received[m] >= Received[n]
    <2>1. \A m \in Mail : Received[m] \in Nat
      BY PollAssumption DEF Inbox!PollAssumption
    <2>2. \A m \in Mail \ arrived : Received[n] <= Received[m]
      BY DEF PollInv, InOrder
    <2> QED BY <1>1, <2>1, <2>2
  <1> QED BY <1>2, <1>3 DEF Ahead

LEMMA OldestAhead ==
  ASSUME PollInv, NEW S \in SUBSET arrived, S # {}
  PROVE  /\ Inbox!Min({Received[m] : m \in S}) \in Nat /\ Past(Inbox!Min({Received[m] : m \in S}))
         /\ \A n \in S : Inbox!Min({Received[m] : m \in S}) <= Received[n]
  <1>1. S \in SUBSET Mail
    BY DEF PollInv, Types
  <1>2. PICK n \in S : /\ Inbox!Min({Received[m] : m \in S}) = Received[n]
                       /\ \A m \in S : Received[n] <= Received[m]
    BY <1>1, HasOldest
  <1>3. /\ Received[n] \in Nat /\ Received[n] > 0
        /\ \A m \in Mail \ arrived : Received[m] >= Received[n]
    <2>1. \A m \in Mail : Received[m] \in Nat /\ Received[m] > 0
      BY PollAssumption DEF Inbox!PollAssumption
    <2>2. \A m \in Mail \ arrived : Received[n] <= Received[m]
      BY DEF PollInv, InOrder
    <2> QED BY <1>1, <2>1, <2>2
  <1> QED BY <1>2, <1>3 DEF Ahead, Past

LEMMA MarkKeeps == ASSUME PollInv, NEW p \in Poller, Inbox!Mark(p) PROVE PollInv'
  <1>1. /\ Types /\ poller[p].at = "page" /\ poller[p].todo = {} /\ poller[p].walk = "live"
        /\ mark' = IF Inbox!MayMark(poller[p]) THEN Inbox!Max({Received[m] : m \in poller[p].got})
                   ELSE mark
        /\ UNCHANGED <<arrived, Inbox!rows, backlog, up, excused, broken>>
    BY DEF PollInv, Inbox!Mark, Inbox!Over, Inbox!Walked, Inbox!On
  <1>2. PICK old \in Poll : old = poller[p]
    BY <1>1 DEF Types
  <1>3. PICK new \in Poll : new = [old EXCEPT !.at = "park"] /\ Inbox!Becomes(p, new)
    <2>1. [old EXCEPT !.at = "park"] \in Poll
      BY DEF Poll, Phase
    <2> QED BY <1>2, <2>1 DEF Inbox!Mark
  <1>4. /\ new.at = "park" /\ new.slice = old.slice /\ new.walk = old.walk /\ new.until = old.until
        /\ new.got = old.got /\ new.todo = old.todo /\ new.seen = old.seen /\ new.mail = old.mail
        /\ new.clean = old.clean /\ new.last = old.last
    BY <1>3 DEF Poll
  <1>5. poller' \in [Poller -> Poll] /\ poller'[p] = new /\ OtherPollers(p)
    BY <1>1, <1>3, Becoming
  <1>6. Fetched(p) /\ Bounded(p) /\ Reaches(p)
    BY <1>1 DEF PollInv, Walk
  <1>7. mark' \in Nat /\ Ahead(mark)'
    <2>1. CASE mark' = mark
      BY <1>1, <2>1 DEF PollInv, Types, Ahead
    <2>2. CASE mark' # mark
      <3>1. /\ old.got \in SUBSET arrived /\ old.got # {}
            /\ mark' = Inbox!Max({Received[m] : m \in old.got})
        BY <1>1, <1>2, <1>6, <2>2 DEF Inbox!MayMark, Fetched
      <3>2. mark' \in Nat /\ Ahead(mark')
        BY <3>1, NewestAhead
      <3> QED BY <1>1, <3>2 DEF Ahead
    <2> QED BY <2>1, <2>2
  <1>8. Types'
    <2>1. \A q \in Poller : \A k, n \in poller'[q].mail : k = n
      <3>1. \A k, n \in old.mail : k = n
        BY <1>1, <1>2 DEF Types
      <3> QED BY <1>1, <1>4, <1>5, <3>1, HoldsOne
    <2> QED BY <1>1, <1>5, <1>7, <2>1 DEF Types, Inbox!rows
  <1>9. Grows
    BY <1>1, <1>5, GrowsBy DEF Inbox!On, Inbox!HeldBy, Parking, Safe, Inbox!In, Inbox!rows
  <1>10. ClaimsHeld'
    BY <1>1, <1>2, <1>4, <1>5, ClaimsStay DEF Inbox!rows
  <1>11. \A m \in Mail : Received[m] \in Nat
    BY PollAssumption DEF Inbox!PollAssumption
  <1>12. Before(Inbox!Window.since)'
    <2>1. CASE mark' = mark
      BY <1>1, <1>9, <2>1 DEF PollInv, Before, Inbox!Window, Grows
    <2>2. CASE mark' # mark
      <3> SUFFICES ASSUME NEW m \in arrived, Received[m] < Inbox!Window.since' PROVE Safe(m)'
        BY <1>1 DEF Before
      <3>1. /\ old.clean /\ old.got # {} /\ old.got \in SUBSET arrived
            /\ mark' = Inbox!Max({Received[k] : k \in old.got})
        BY <1>1, <1>2, <1>6, <2>2 DEF Inbox!MayMark, Fetched
      <3>2. PICK n \in old.got : mark' = Received[n]
        BY <3>1, NewestAhead
      <3>3. Received[m] < Received[n] /\ Received[m] \in Nat /\ m \in Mail
        <4>1. Inbox!Window.since' \in Nat /\ Inbox!Window.since' <= mark'
          <5> DEFINE since == IF mark' > Overlap THEN mark' - Overlap ELSE 0
          <5>1. Inbox!Window' = [since |-> since, until |-> 0]
            BY DEF Inbox!Window
          <5>2. since \in Nat /\ since <= mark'
            <6>1. Overlap \in Nat /\ mark' \in Nat
              BY <1>7, PollAssumption DEF Inbox!PollAssumption
            <6>2. PICK x \in Nat, y \in Nat : x = mark' /\ y = Overlap
              BY <6>1
            <6>3. LET z == IF x > y THEN x - y ELSE 0 IN z \in Nat /\ z <= x
              OBVIOUS
            <6> QED BY <6>2, <6>3
          <5> HIDE DEF since
          <5> QED BY <5>1, <5>2
        <4>2. m \in Mail
          BY <1>1 DEF Types
        <4> QED BY <1>7, <1>11, <3>2, <4>1, <4>2
      <3>4. CASE m \in old.seen
        <4>1. Handled(m)
          BY <1>1, <1>2, <1>6, <3>4 DEF Fetched
        <4> QED BY <1>9, <4>1 DEF Grows, Safe
      <3>5. CASE m \notin old.seen /\ Received[m] < old.slice.since
        <4>1. Safe(m)
          BY <1>1, <1>2, <1>6, <3>5 DEF Bounded, Before
        <4> QED BY <1>9, <4>1 DEF Grows
      <3>6. CASE m \notin old.seen /\ ~(Received[m] < old.slice.since)
        <4>1. old.slice.since \in Nat /\ old.slice.until = 0
          BY <1>1, <1>2, <1>6 DEF Poll, Slice, Bounded
        <4>2. Inbox!In(m, old.slice)
          BY <3>3, <3>6, <4>1 DEF Inbox!In
        <4>3. \/ m \in excused
              \/ \A k \in old.got : Received[k] <= Received[m]
              \/ ~old.last /\ (old.until = 0 \/ Received[m] < old.until)
          BY <1>1, <1>2, <1>6, <3>1, <3>6, <4>2 DEF Reaches
        <4>4. CASE m \in excused
          BY <1>1, <4>4 DEF Safe, Handled
        <4>5. CASE \A k \in old.got : Received[k] <= Received[m]
          <5>1. Received[n] <= Received[m] /\ Received[n] \in Nat
            BY <1>1, <1>11, <3>1, <3>2, <4>5 DEF Types
          <5> QED BY <3>3, <5>1
        <4>6. CASE ~old.last /\ (old.until = 0 \/ Received[m] < old.until)
          <5>1. old.until = Inbox!Oldest(old) + 1 /\ Inbox!Oldest(old) \in Nat
            BY <1>2, <1>6, <3>1, OldestAhead DEF Fetched, Inbox!Oldest
          <5>2. Received[m] <= Inbox!Oldest(old)
            BY <3>3, <4>6, <5>1
          <5>3. Received[m] >= old.slice.since
            BY <3>3, <3>6, <4>1
          <5>4. Inbox!Oldest(new) = Inbox!Oldest(old) /\ Inbox!Parks(new)
            BY <1>4, <3>1, <4>6 DEF Inbox!Oldest, Inbox!Parks
          <5>5. Parking(p, m)'
            BY <1>4, <1>5, <3>6, <5>2, <5>3, <5>4 DEF Parking, Inbox!On, Inbox!Parks, Inbox!Oldest
          <5> QED BY <5>5 DEF Safe
        <4> QED BY <4>3, <4>4, <4>5, <4>6
      <3> QED BY <3>4, <3>5, <3>6
    <2> QED BY <2>1, <2>2
  <1>13. Walk(p)'
    <2>1. Fetched(p)'
      BY <1>1, <1>2, <1>4, <1>5, <1>6, <1>9 DEF Fetched, Grows, Inbox!Oldest
    <2>2. Bounded(p)'
      BY <1>1, <1>2, <1>4, <1>5, <1>6, <1>9 DEF Bounded, Past, Ahead, Before, Grows
    <2>3. Reaches(p)'
      BY <1>1, <1>2, <1>4, <1>5, <1>6, <1>9 DEF Reaches, Grows, Inbox!In
    <2> QED BY <2>1, <2>2, <2>3 DEF Walk
  <1>14. InOrder' /\ (backlog' # Inbox!None => Past(backlog.until)')
    BY <1>1 DEF PollInv, InOrder, Past, Ahead
  <1>15. \A q \in Poller : Walk(q)'
    BY <1>5, <1>9, <1>13, WalkStays DEF PollInv, OtherPollers
  <1> QED BY <1>7, <1>8, <1>10, <1>12, <1>14, <1>15 DEF PollInv

LEMMA OfTwo ==
  ASSUME NEW a \in Nat, NEW b \in Nat
  PROVE  /\ Inbox!Min({a, b}) = IF a <= b THEN a ELSE b
         /\ Inbox!Max({a, b}) = IF a <= b THEN b ELSE a
  <1>1. \E x \in {a, b} : \A y \in {a, b} : x <= y
    OBVIOUS
  <1>2. \E x \in {a, b} : \A y \in {a, b} : x >= y
    OBVIOUS
  <1>3. Inbox!Min({a, b}) \in {a, b} /\ \A y \in {a, b} : Inbox!Min({a, b}) <= y
    BY <1>1 DEF Inbox!Min
  <1>4. Inbox!Max({a, b}) \in {a, b} /\ \A y \in {a, b} : Inbox!Max({a, b}) >= y
    BY <1>2 DEF Inbox!Max
  <1> QED BY <1>3, <1>4

\* The two slices are one, and what lies between them.
LEMMA Merges ==
  ASSUME PollInv, NEW p \in Poller, NEW t \in Poll, t = poller[p], t.at = "park",
         Inbox!Parks(t), NEW b,
         b = IF backlog = Inbox!None THEN Inbox!Parked(t)
             ELSE [since |-> Inbox!Min({backlog.since, t.slice.since}),
                   until |-> Inbox!Max({backlog.until, Inbox!Oldest(t)})]
  PROVE  /\ b \in Slice /\ Past(b.until) /\ b # Inbox!None
         /\ \A m \in arrived : backlog # Inbox!None /\ Inbox!In(m, backlog) => Inbox!In(m, b)
         /\ \A m \in arrived : Parking(p, m) /\ Received[m] # Inbox!Oldest(t) => Inbox!In(m, b)
  <1>1. Types /\ Fetched(p) /\ (backlog # Inbox!None => Past(backlog.until))
    BY DEF PollInv, Walk
  <1>2. Inbox!Oldest(t) \in Nat /\ Past(Inbox!Oldest(t))
    <2>1. t.got \in SUBSET arrived /\ t.got # {}
      BY <1>1 DEF Fetched, Inbox!Parks
    <2> QED BY <2>1, OldestAhead DEF Inbox!Oldest
  <1>3. /\ backlog.since \in Nat /\ backlog.until \in Nat /\ t.slice.since \in Nat
        /\ \A m \in arrived : Received[m] \in Nat
    BY <1>1, PollAssumption DEF Types, Poll, Slice, Inbox!PollAssumption
  <1>4. CASE backlog = Inbox!None
    <2>1. b.since = t.slice.since /\ b.until = Inbox!Oldest(t) /\ b \in Slice
      BY <1>2, <1>3, <1>4 DEF Inbox!Parked, Slice
    <2>2. b # Inbox!None
      BY <1>2, <2>1 DEF Inbox!None, Inbox!Whole, Past
    <2>3. ASSUME NEW m \in arrived, Parking(p, m), Received[m] # Inbox!Oldest(t)
          PROVE  Inbox!In(m, b)
      <3>1. Received[m] >= t.slice.since /\ Received[m] <= Inbox!Oldest(t)
        BY <2>3 DEF Parking
      <3> QED BY <1>2, <1>3, <2>1, <2>3, <3>1 DEF Inbox!In
    <2> QED BY <1>2, <1>4, <2>1, <2>2, <2>3
  <1>5. CASE backlog # Inbox!None
    <2>1. PICK since \in Nat : /\ since = Inbox!Min({backlog.since, t.slice.since})
                               /\ since <= backlog.since /\ since <= t.slice.since
      <3>1. PICK c \in Nat, d \in Nat : c = backlog.since /\ d = t.slice.since
        BY <1>3
      <3>2. Inbox!Min({c, d}) = IF c <= d THEN c ELSE d
        BY OfTwo
      <3>3. Inbox!Min({c, d}) \in Nat /\ Inbox!Min({c, d}) <= c /\ Inbox!Min({c, d}) <= d
        BY <3>2
      <3> QED BY <3>1, <3>3
    <2>2. PICK until \in Nat : /\ until = Inbox!Max({backlog.until, Inbox!Oldest(t)})
                               /\ until \in {backlog.until, Inbox!Oldest(t)}
                               /\ until >= backlog.until /\ until >= Inbox!Oldest(t)
      <3>1. PICK c \in Nat, d \in Nat : c = backlog.until /\ d = Inbox!Oldest(t)
        BY <1>2, <1>3
      <3>2. Inbox!Max({c, d}) = IF c <= d THEN d ELSE c
        BY OfTwo
      <3>3. /\ Inbox!Max({c, d}) \in {c, d} /\ Inbox!Max({c, d}) >= c
            /\ Inbox!Max({c, d}) >= d
        BY <3>2
      <3> QED BY <3>1, <3>3
    <2>3. b \in Slice /\ b.since = since /\ b.until = until
      BY <1>5, <2>1, <2>2 DEF Slice
    <2>4. Past(until)
      BY <1>1, <1>2, <1>5, <2>2
    <2>5. b # Inbox!None
      BY <2>3, <2>4 DEF Inbox!None, Inbox!Whole, Past
    <2>6. ASSUME NEW m \in arrived, Inbox!In(m, backlog) PROVE Inbox!In(m, b)
      <3>1. Received[m] >= backlog.since /\ Received[m] < backlog.until
        BY <1>1, <1>3, <1>5, <2>6 DEF Inbox!In, Past
      <3> QED BY <1>3, <2>1, <2>2, <2>3, <3>1 DEF Inbox!In
    <2>7. ASSUME NEW m \in arrived, Parking(p, m), Received[m] # Inbox!Oldest(t)
          PROVE  Inbox!In(m, b)
      <3>1. Received[m] >= t.slice.since /\ Received[m] <= Inbox!Oldest(t)
        BY <2>7 DEF Parking
      <3> QED BY <1>2, <1>3, <2>1, <2>2, <2>3, <2>7, <3>1 DEF Inbox!In
    <2> QED BY <2>3, <2>4, <2>5, <2>6, <2>7
  <1> QED BY <1>4, <1>5

LEMMA ParkKeeps == ASSUME PollInv, NEW p \in Poller, Inbox!Park(p) PROVE PollInv'
  <1>1. /\ Types /\ poller[p].at = "park" /\ Walk(p) /\ Fetched(p)
        /\ mark' = mark /\ UNCHANGED <<arrived, Inbox!rows, mark, up, broken>>
    BY DEF PollInv, Inbox!Park, Inbox!On, Walk
  <1>2. PICK old \in Poll : old = poller[p]
    BY <1>1 DEF Types
  <1>3. PICK b : b = IF ~Inbox!Parks(old) THEN backlog
                     ELSE IF backlog = Inbox!None THEN Inbox!Parked(old)
                     ELSE [since |-> Inbox!Min({backlog.since, old.slice.since}),
                           until |-> Inbox!Max({backlog.until, Inbox!Oldest(old)})]
    OBVIOUS
  <1>4. /\ backlog' = b
        /\ IF b # Inbox!None /\ old.pages < MaxPages
           THEN Inbox!Becomes(p, [old EXCEPT !.at = "list", !.walk = "back", !.slice = b,
                                     !.until = b.until, !.got = {}, !.clean = TRUE])
           ELSE Inbox!Becomes(p, Inbox!Polled(p))
        /\ excused' = excused \cup
               IF Inbox!Parks(old)
               THEN {m \in arrived \ old.seen : Received[m] = Inbox!Oldest(old)} ELSE {}
    BY <1>2, <1>3 DEF Inbox!Park
  <1>5. /\ b \in Slice /\ (b # Inbox!None => Past(b.until))
        /\ \A m \in arrived :
              backlog # Inbox!None /\ Inbox!In(m, backlog) => b # Inbox!None /\ Inbox!In(m, b)
        /\ \A m \in arrived : Parking(p, m) => m \in excused' \/ (b # Inbox!None /\ Inbox!In(m, b))
    <2>1. CASE ~Inbox!Parks(old)
      BY <1>1, <1>2, <1>3, <2>1 DEF Types, PollInv, Parking
    <2>2. CASE Inbox!Parks(old)
      <3>1. /\ b \in Slice /\ Past(b.until) /\ b # Inbox!None
            /\ \A m \in arrived : backlog # Inbox!None /\ Inbox!In(m, backlog) => Inbox!In(m, b)
            /\ \A m \in arrived :
                  Parking(p, m) /\ Received[m] # Inbox!Oldest(old) => Inbox!In(m, b)
        BY <1>1, <1>2, <1>3, <2>2, Merges
      <3>2. \A m \in arrived : Parking(p, m) /\ Received[m] = Inbox!Oldest(old) => m \in excused'
        BY <1>2, <1>4, <2>2 DEF Parking
      <3> QED BY <3>1, <3>2
    <2> QED BY <2>1, <2>2
  <1>6. PICK new \in Poll :
           /\ Inbox!Becomes(p, new) /\ new.mail \in {{}, old.mail}
           /\ \/ new.at \in {"idle", "polled"}
              \/ /\ new.at = "list" /\ new.walk = "back" /\ new.slice = b /\ new.until = b.until
                 /\ new.got = {} /\ new.clean /\ b # Inbox!None
                 /\ new.todo = old.todo /\ new.seen = old.seen
    <2>1. CASE b # Inbox!None /\ old.pages < MaxPages
      <3>1. PICK mid \in Poll : mid = [old EXCEPT !.at = "list", !.walk = "back", !.slice = b,
                                     !.until = b.until, !.got = {}, !.clean = TRUE]
        <4>1. b.until \in Nat
          BY <1>5 DEF Slice
        <4>2. [old EXCEPT !.at = "list", !.walk = "back", !.slice = b,
                          !.until = b.until, !.got = {}, !.clean = TRUE] \in Poll
          BY <1>5, <4>1 DEF Poll, Phase
        <4> QED BY <4>2
      <3>2. /\ mid.at = "list" /\ mid.walk = "back" /\ mid.slice = b /\ mid.until = b.until
            /\ mid.got = {} /\ mid.clean /\ mid.todo = old.todo /\ mid.seen = old.seen
            /\ mid.mail = old.mail
        BY <3>1 DEF Poll
      <3> QED BY <1>4, <2>1, <3>1, <3>2
    <2>2. CASE ~(b # Inbox!None /\ old.pages < MaxPages)
      <3>1. /\ Inbox!Polled(p) \in Poll /\ Inbox!Polled(p).at \in {"idle", "polled"}
            /\ Inbox!Polled(p).mail = {}
        BY IdleTyped DEF Inbox!Polled, Phase, Inbox!Idle
      <3> QED BY <1>4, <2>2, <3>1
    <2> QED BY <2>1, <2>2
  <1>7. poller' \in [Poller -> Poll] /\ poller'[p] = new /\ OtherPollers(p)
    BY <1>1, <1>6, Becoming
  <1>8. excused \subseteq excused' /\ excused' \subseteq excused \cup arrived
    BY <1>4
  <1>9. Types'
    <2>1. \A q \in Poller : \A k, n \in poller'[q].mail : k = n
      <3>1. \A k, n \in old.mail : k = n
        BY <1>1, <1>2 DEF Types
      <3>2. \A k, n \in new.mail : k = n
        BY <1>6, <3>1
      <3> QED BY <1>1, <1>7, <3>2, HoldsOne
    <2> QED BY <1>1, <1>4, <1>5, <1>7, <1>8, <2>1 DEF Types, Inbox!rows
  <1>10. Grows
    <2>1. \A m \in arrived : b # Inbox!None /\ Inbox!In(m, b) => Safe(m)'
      BY <1>4 DEF Safe, Inbox!In
    <2>2. \A m \in arrived : m \in excused' => Safe(m)'
      BY DEF Safe, Handled
    <2> QED BY <1>1, <1>5, <1>7, <1>8, <2>1, <2>2, GrowsBy DEF Inbox!On, Inbox!HeldBy, Inbox!rows
  <1>11. ClaimsHeld'
    <2>1. UNCHANGED intent
      BY <1>1 DEF Inbox!rows
    <2> QED BY <1>1, <1>7, <1>8, <2>1, ClaimsStay
  <1>12. Walk(p)'
    <2> SUFFICES ASSUME new.at = "list" PROVE Fetched(p)' /\ Bounded(p)' /\ Reaches(p)'
      BY <1>6, <1>7 DEF Walk
    <2>1. /\ new.walk = "back" /\ new.slice = b /\ new.until = b.until
          /\ new.got = {} /\ b # Inbox!None /\ new.todo = old.todo /\ new.seen = old.seen
      BY <1>6
    <2>2. Fetched(p)'
      BY <1>1, <1>2, <1>7, <1>10, <2>1 DEF Fetched, Grows
    <2>3. Bounded(p)'
      BY <1>1, <1>5, <1>7, <2>1 DEF Bounded, Past, Ahead
    <2>4. Reaches(p)'
      BY <1>7, <2>1 DEF Reaches, Inbox!In
    <2> QED BY <2>2, <2>3, <2>4
  <1>13. backlog' # Inbox!None => Past(backlog.until)'
    BY <1>1, <1>4, <1>5 DEF Past, Ahead
  <1>14. \A q \in Poller : poller'[q] = poller[q] \/ Walk(q)'
    BY <1>7, <1>12 DEF OtherPollers
  <1> QED BY <1>1, <1>9, <1>10, <1>11, <1>13, <1>14, StepLeaves

LEMMA DrainKeeps == ASSUME PollInv, NEW p \in Poller, Inbox!Drain(p) PROVE PollInv'
  <1>1. /\ Types /\ poller[p].at = "page" /\ poller[p].todo = {} /\ poller[p].walk = "back"
        /\ Fetched(p) /\ Bounded(p) /\ Reaches(p)
        /\ mark' = mark /\ UNCHANGED <<arrived, Inbox!rows, mark, up, broken>>
    BY DEF PollInv, Inbox!Drain, Inbox!Over, Inbox!Walked, Inbox!On, Walk
  <1>2. PICK t \in Poll : t = poller[p]
    BY <1>1 DEF Types
  <1>3. PICK b : b = IF ~t.clean THEN backlog
                     ELSE IF t.last THEN Inbox!None
                     ELSE IF t.got = {} THEN backlog
                     ELSE [t.slice EXCEPT !.until = Inbox!Oldest(t)]
    OBVIOUS
  <1>4. /\ backlog' = b /\ Inbox!Becomes(p, Inbox!Polled(p))
        /\ excused' = excused \cup
               {m \in arrived \ t.seen :
                  \/ backlog # Inbox!None /\ Inbox!In(m, backlog) /\ ~Inbox!In(m, t.slice)
                  \/ b # backlog /\ ~t.last /\ Received[m] = Inbox!Oldest(t)}
    BY <1>2, <1>3 DEF Inbox!Drain
  <1>5. PICK new \in Poll : Inbox!Becomes(p, new) /\ new.at \in {"idle", "polled"} /\ new.mail = {}
    <2>1. /\ Inbox!Polled(p) \in Poll /\ Inbox!Polled(p).at \in {"idle", "polled"}
          /\ Inbox!Polled(p).mail = {}
      BY IdleTyped DEF Inbox!Polled, Phase, Inbox!Idle
    <2> QED BY <1>4, <2>1
  <1>6. poller' \in [Poller -> Poll] /\ poller'[p] = new /\ OtherPollers(p)
    BY <1>1, <1>5, Becoming
  <1>7. excused \subseteq excused' /\ excused' \subseteq excused \cup arrived
    BY <1>4
  <1>8. /\ b \in Slice /\ (b # Inbox!None => Past(b.until))
        /\ \A m \in arrived : backlog # Inbox!None /\ Inbox!In(m, backlog) =>
              Handled(m) \/ m \in excused' \/ (b # Inbox!None /\ Inbox!In(m, b))
    <2>1. CASE b = backlog
      BY <1>1, <2>1 DEF Types, PollInv
    <2>2. CASE b # backlog
      <3>1. t.clean /\ ((t.last /\ b = Inbox!None) \/ (~t.last /\ t.got # {}))
        BY <1>3, <2>2
      <3>2. ASSUME NEW m \in arrived, backlog # Inbox!None, Inbox!In(m, backlog), m \notin excused'
            PROVE  Handled(m) \/ (Inbox!In(m, t.slice) /\ m \notin t.seen /\ ~t.last
                                  /\ (t.until = 0 \/ Received[m] < t.until))
        <4>1. CASE m \in t.seen
          BY <1>1, <1>2, <4>1 DEF Fetched
        <4>2. CASE m \notin t.seen
          <5>1. Inbox!In(m, t.slice)
            BY <1>4, <3>2, <4>2
          <5>2. ~t.last /\ (t.until = 0 \/ Received[m] < t.until)
            BY <1>1, <1>2, <1>7, <3>1, <3>2, <4>2, <5>1 DEF Reaches
          <5> QED BY <4>2, <5>1, <5>2
        <4> QED BY <4>1, <4>2
      <3>3. CASE t.last
        <4>1. b = Inbox!None /\ b \in Slice
          BY <3>1, <3>3, IdleTyped DEF Inbox!None
        <4> QED BY <3>2, <3>3, <4>1
      <3>4. CASE ~t.last
        <4>1. t.got \in SUBSET arrived /\ t.got # {}
          BY <1>1, <1>2, <3>1, <3>4 DEF Fetched
        <4>2. Inbox!Oldest(t) \in Nat /\ Past(Inbox!Oldest(t))
          BY <4>1, OldestAhead DEF Inbox!Oldest
        <4>3. b = [t.slice EXCEPT !.until = Inbox!Oldest(t)]
          BY <1>3, <2>2, <3>4
        <4>4. PICK s \in Slice : s = t.slice
          BY DEF Poll
        <4>5. b \in Slice /\ b.since = s.since /\ b.until = Inbox!Oldest(t)
          BY <4>2, <4>3, <4>4 DEF Slice
        <4>6. b # Inbox!None
          BY <4>2, <4>5 DEF Inbox!None, Inbox!Whole, Past
        <4>7. ASSUME NEW m \in arrived, backlog # Inbox!None, Inbox!In(m, backlog),
                     m \notin excused', ~Handled(m)
              PROVE  Inbox!In(m, b)
          <5>1. Inbox!In(m, t.slice) /\ m \notin t.seen /\ (t.until = 0 \/ Received[m] < t.until)
            BY <3>2, <4>7
          <5>2. Received[m] # Inbox!Oldest(t)
            BY <1>4, <2>2, <3>4, <4>7, <5>1
          <5>3. t.until = Inbox!Oldest(t) + 1
            BY <1>1, <1>2, <4>1 DEF Fetched
          <5>4. Received[m] \in Nat
            BY <1>1, PollAssumption DEF Types, Inbox!PollAssumption
          <5>5. Received[m] < Inbox!Oldest(t) /\ Received[m] >= s.since
            BY <4>2, <4>4, <5>1, <5>2, <5>3, <5>4 DEF Inbox!In
          <5> QED BY <4>5, <5>5 DEF Inbox!In
        <4> QED BY <4>2, <4>5, <4>6, <4>7
      <3> QED BY <3>3, <3>4
    <2> QED BY <2>1, <2>2
  <1>9. Types'
    <2>1. \A q \in Poller : \A k, n \in poller'[q].mail : k = n
      <3>1. \A k, n \in new.mail : k = n
        BY <1>5
      <3> QED BY <1>1, <1>6, <3>1, HoldsOne
    <2> QED BY <1>1, <1>4, <1>6, <1>7, <1>8, <2>1 DEF Types, Inbox!rows
  <1>10. Grows
    <2>1. ASSUME NEW m \in arrived, Handled(m) \/ m \in excused' PROVE Safe(m)'
      BY <1>1, <1>6, <1>7, <2>1 DEF Safe, Handled, Inbox!Counted, Inbox!HeldBy, Inbox!On,
                                    OtherPollers, Inbox!rows
    <2>2. \A m \in arrived : b # Inbox!None /\ Inbox!In(m, b) => Safe(m)'
      BY <1>4 DEF Safe, Inbox!In
    <2> QED BY <1>1, <1>6, <1>7, <1>8, <2>1, <2>2, GrowsBy DEF Inbox!On, Inbox!HeldBy, Parking,
                                                               Inbox!rows
  <1>11. ClaimsHeld'
    <2>1. UNCHANGED intent
      BY <1>1 DEF Inbox!rows
    <2> QED BY <1>1, <1>6, <1>7, <2>1, ClaimsStay
  <1>12. backlog' # Inbox!None => Past(backlog.until)'
    BY <1>1, <1>4, <1>8 DEF Past, Ahead
  <1>13. \A q \in Poller : poller'[q] = poller[q] \/ Walk(q)'
    BY <1>5, <1>6 DEF OtherPollers, Walk
  <1> QED BY <1>1, <1>9, <1>10, <1>11, <1>12, <1>13, StepLeaves

-----------------------------------------------------------------------------
\* The inductive invariant.
LEMMA PollInvInit == Inbox!Init => PollInv
  <1> SUFFICES ASSUME Inbox!Init PROVE PollInv
    OBVIOUS
  <1>1. Types
    <2>1. Inbox!Idle \in Poll /\ Inbox!Whole \in Slice
      BY IdleTyped
    <2>2. Inbox!Idle.mail = {}
      BY DEF Inbox!Idle
    <2> QED BY <2>1, <2>2 DEF Inbox!Init, Types, Inbox!None
  <1>2. InOrder /\ ClaimsHeld /\ Ahead(mark) /\ Before(Inbox!Window.since)
    <2>1. InOrder /\ Before(Inbox!Window.since)
      BY DEF Inbox!Init, InOrder, Before
    <2>2. ClaimsHeld
      BY DEF Inbox!Init, ClaimsHeld
    <2>3. Ahead(mark)
      <3>1. mark = 0
        BY DEF Inbox!Init
      <3>2. \A m \in Mail : Received[m] \in Nat
        BY PollAssumption DEF Inbox!PollAssumption
      <3>3. \A m \in Mail : Received[m] >= 0
        BY <3>2
      <3> QED BY <3>1, <3>3 DEF Ahead
    <2> QED BY <2>1, <2>2, <2>3
  <1>3. backlog = Inbox!None /\ \A p \in Poller : Walk(p)
    BY DEF Inbox!Init, Walk, Inbox!Idle
  <1> QED BY <1>1, <1>2, <1>3 DEF PollInv

LEMMA PollInvStep == PollInv /\ [Inbox!Next]_(Inbox!vars) => PollInv'
  <1> SUFFICES ASSUME PollInv, [Inbox!Next]_(Inbox!vars) PROVE PollInv'
    OBVIOUS
  <1>1. ASSUME NEW p \in Poller,
               \/ Inbox!Start(p) \/ Inbox!List(p) \/ Inbox!Throw(p) \/ Inbox!Process(p)
               \/ Inbox!Label(p)
               \/ Inbox!NextPage(p) \/ Inbox!Mark(p) \/ Inbox!Park(p) \/ Inbox!Drain(p)
               \/ Inbox!Relabel(p) \/ Inbox!DieCli(p)
        PROVE  PollInv'
    BY <1>1, StartKeeps, ListKeeps, ThrowKeeps, ProcessKeeps, LabelKeeps, NextPageKeeps,
       MarkKeeps, ParkKeeps, DrainKeeps, RelabelKeeps, DieCliKeeps
  <1>2. ASSUME NEW m \in Mail, NEW p \in Poller, Inbox!Retry(p, m) PROVE PollInv'
    BY <1>2, RetryKeeps
  <1>3. ASSUME NEW m \in Mail, Inbox!Arrive(m) \/ Inbox!Capture(m) PROVE PollInv'
    BY <1>3, ArriveKeeps, CaptureKeeps
  <1>4. CASE Inbox!DieServer \/ Inbox!Boot
    BY <1>4, DieServerKeeps, BootKeeps
  <1>5. CASE UNCHANGED Inbox!vars
    <2>1. UNCHANGED <<arrived, intent, unread, replied, optedOut, Inbox!marks, poller, excused>>
      BY <1>5 DEF Inbox!vars, Inbox!rows
    <2> QED BY <2>1, RowKeeps DEF PollInv, Types
  <1> QED BY <1>1, <1>2, <1>3, <1>4, <1>5 DEF Inbox!Next

LEMMA PollInvariance == Inbox!Spec => []PollInv
  BY PollInvInit, PollInvStep, PTL DEF Inbox!Spec

\* However polls, retries, deaths and mailboxes that fail interleave, an answer is
\* counted, in reach of the next poll or in the hands of one, unless it was lost for one
\* of the reasons that NoReplyLost names: what walkInboxWindow and pollInboxReplies may
\* pass with the watermark.
THEOREM NothingIsLost == Inbox!Spec => []NoReplyLost
  <1>1. ASSUME PollInv, NEW m \in arrived, ~Inbox!InReach(m)
        PROVE  Inbox!Counted(m) \/ Inbox!InHand(m) \/ m \in excused
    <2>1. Received[m] \in Nat /\ Inbox!Window.since \in Nat
      BY <1>1, WindowTyped, PollAssumption DEF PollInv, Types, Inbox!PollAssumption
    <2>2. Safe(m)
      BY <1>1, <2>1 DEF PollInv, Before, Inbox!InReach
    <2>3. CASE Handled(m)
      BY <2>3 DEF Handled, Inbox!InHand
    <2>4. ASSUME NEW p \in Poller, Parking(p, m) PROVE Inbox!InHand(m)
      <3>1. Fetched(p) /\ Bounded(p)
        BY <1>1, <2>4 DEF PollInv, Walk, Parking, Inbox!On
      <3>2. Inbox!In(m, poller[p].slice)
        BY <2>4, <3>1 DEF Fetched, Bounded, Parking, Inbox!On, Inbox!In
      <3> QED BY <2>4, <3>2 DEF Inbox!InHand, Parking
    <2> QED BY <1>1, <2>2, <2>3, <2>4 DEF Safe, Inbox!InReach
  <1>2. PollInv => NoReplyLost
    BY <1>1 DEF NoReplyLost, Inbox!NoReplyLost
  <1> QED BY <1>2, PollInvariance, PTL
=============================================================================
