---------------------------- MODULE DecisionsProofs ----------------------------
(***************************************************************************)
(* For any length of a sequence and any number of senders and faults:      *)
(* steps go out in order, and ends hold.  For any number of processes,     *)
(* proposals and deaths: what a decision on the ICP replaces and leaves on *)
(* record.                                                                 *)
(***************************************************************************)
EXTENDS MCDecisions, TLAPS

-----------------------------------------------------------------------------
(* A campaign.  A sender works from the step on the cadence's row, and     *)
(* that row moves on for a step that is on record or has no email, so the  *)
(* invariant says of every place that names a step what is settled behind  *)
(* it, or was passed over.  It rests                                       *)
(* on one thing the ledger gives: what is settled stays so, as no sweep    *)
(* judges an email while its caller is at the transport.                   *)
(*                                                                         *)
(* No follow-up is begun after the end of its cadence, and none is under   *)
(* way after a Stop, but for the ways hist names.  Both rest on the        *)
(* cadence's marker: a follow-up under way holds it until a boot, a late   *)
(* click or a bounce takes it, and Stop looks at it.                       *)

Phases == {"idle", "taken", "gated", "sending", "accepted", "recorded", "enrolled"}
Job == [at : Phases, kind : Kinds, step : Step, late : SUBSET {"closed", "past"}]
Cadence == [status : {None, "active"} \cup Ended, step : Step,
            marker : {None} \cup Worker, old : BOOLEAN, unsent : SUBSET Step]

Types ==
    /\ told \in [Step -> Told] /\ job \in [Worker -> Job] /\ cad \in Cadence
    /\ events \subseteq Step /\ hist \subseteq {"closed", "slow", "boot", "cleared", "twice"}

Settled(k) == told[k] \in {"sent", "flagged"}
\* A step the cadence may leave behind: its email went out, or it has none.
Done(k) == Settled(k) \/ k \in cad.unsent
Behind(k) == \A j \in Step : j < k => Done(j)
StaysUnsent == cad.unsent \subseteq cad'.unsent

\* One caller is at the transport with an email, and its outcome is open.
OneCaller ==
    \A w \in Worker : At(w, "sending") =>
        /\ told[job[w].step] \in {"trying", "unknown"}
        /\ \A v \in Worker : At(v, "sending") /\ job[v].step = job[w].step => v = w

\* The job of w names a step that is in order, and one it got done is settled.
JobInOrder(o) ==
    /\ o.kind \in Intro => o.step = 0
    /\ o.at \in Phases \ {"idle", "taken"} => Behind(o.step)
    /\ o.at \in {"accepted", "recorded", "enrolled"} => Settled(o.step)

CadInOrder ==
    IF cad.status = None THEN cad.step = 0 ELSE Behind(cad.step) /\ Done(cad.step)

EventsInOrder == \A k \in events : Settled(k)

\* A follow-up is only ever begun in a cadence that was enrolled.
Enrolled == \A w \in Worker : job[w].kind \notin Intro => cad.status # None

Inv ==
    /\ Types /\ OneCaller /\ CadInOrder /\ EventsInOrder /\ StepsInOrder /\ Enrolled
    /\ \A w \in Worker : JobInOrder(job[w])

LEMMA InitInv == ASSUME CampaignAssumption, Init PROVE Inv
  BY DEF CampaignAssumption, Init, KeyedInit, Inv, Types, Told, Job, Phases, Kinds, Intro, Idle,
         Cadence, OneCaller, At, JobInOrder, CadInOrder, EventsInOrder, StepsInOrder, Step,
         Ended, None, Enrolled

\* What the ledger may do in any step below: nothing that is settled is undone,
\* and nothing is tried ahead of its turn.
LedgerMoves ==
    /\ told' \in [Step -> Told]
    /\ \A k \in Step : Settled(k) => Settled(k)'
    /\ \A k \in Step : told[k] = "nothing" /\ told'[k] # "nothing" => Behind(k)

LEMMA Stays == ASSUME Inv, UNCHANGED told PROVE LedgerMoves
  BY DEF Inv, Types, LedgerMoves, Settled

LEMMA SettledStays ==
    ASSUME CampaignAssumption, Inv, LedgerMoves, StaysUnsent
    PROVE  /\ StepsInOrder'
           /\ \A k \in Step : (Behind(k) => Behind(k)') /\ (Done(k) => Done(k)')
<1>1. \A k \in Step : Done(k) => Done(k)'
  BY DEF LedgerMoves, Done, StaysUnsent
<1>2. \A k \in Step : Behind(k) => Behind(k)'
  BY <1>1 DEF Behind
<1>3. StepsInOrder'
  BY <1>1 DEF LedgerMoves, Inv, StepsInOrder, Behind, Done, Settled
<1>4. QED BY <1>1, <1>2, <1>3

\* A step in which the ledger moves and no job, cadence or event becomes another.
LEMMA LedgerOnly ==
    ASSUME CampaignAssumption, Inv, LedgerMoves, UNCHANGED <<job, cad, events>>,
           hist' \subseteq {"closed", "slow", "boot", "cleared", "twice"},
           \A w \in Worker : At(w, "sending") => told'[job[w].step] \in {"trying", "unknown"}
    PROVE  Inv'
<1>1. Types'
  BY DEF Inv, Types, LedgerMoves
<1>2. OneCaller'
  BY DEF Inv, OneCaller, At
<1>3. \A w \in Worker : JobInOrder(job[w])'
  <2>1. \A w \in Worker : job[w].step \in Step
    BY DEF Inv, Types, Job
  <2>2. QED BY <2>1, SettledStays DEF StaysUnsent, Inv, JobInOrder, LedgerMoves
<1>4. CadInOrder'
  <2>1. cad.step \in Step
    BY DEF CampaignAssumption, Inv, Types, Cadence, Step
  <2>2. QED BY <2>1, SettledStays DEF StaysUnsent, Inv, CadInOrder
<1>5. EventsInOrder' /\ StepsInOrder'
  BY SettledStays DEF StaysUnsent, Inv, Types, EventsInOrder, LedgerMoves
<1>6. Enrolled'
  BY DEF Inv, Enrolled
<1>7. QED BY <1>1, <1>2, <1>3, <1>4, <1>5, <1>6 DEF Inv

\* Steps that leave the ledger alone and give one worker another job.
LEMMA Hands ==
    ASSUME CampaignAssumption, Inv, NEW w \in Worker, NEW o \in Job,
           UNCHANGED told, job' = [job EXCEPT ![w] = o], o.at # "sending", JobInOrder(o),
           StaysUnsent,
           cad' \in Cadence, CadInOrder', events' \subseteq Step, EventsInOrder',
           o.kind \notin Intro \/ cad.status # None => cad'.status # None,
           hist' \subseteq {"closed", "slow", "boot", "cleared", "twice"}
    PROVE  Inv'
<1>1. Types'
  BY DEF Inv, Types
<1>2. \A v \in Worker : JobInOrder(job[v])'
  <2>1. \A k \in Step : Behind(k) => Behind(k)'
    BY Stays, SettledStays
  <2>2. \A v \in Worker : job'[v].step \in Step
    BY <1>1 DEF Types, Job
  <2>3. \A v \in Worker : JobInOrder(job'[v])
    BY DEF Inv, Types
  <2>4. QED BY <2>1, <2>2, <2>3 DEF JobInOrder, Settled
<1>3. OneCaller'
  BY DEF Inv, Types, OneCaller, At
<1>4. StepsInOrder'
  BY Stays, SettledStays
<1>5. Enrolled'
  BY DEF Inv, Types, Enrolled
<1>6. QED BY <1>1, <1>2, <1>3, <1>4, <1>5 DEF Inv

\* A step that changes the cadence's row but for its status and step.
LEMMA SameCadence ==
    ASSUME CampaignAssumption, Inv, UNCHANGED told, cad' \in Cadence, cad'.step = cad.step,
           cad'.status = None <=> cad.status = None, StaysUnsent
    PROVE  CadInOrder'
<1>1. cad.step \in Step
  BY DEF Inv, Types, Cadence
<1>2. QED BY <1>1, Stays, SettledStays DEF Inv, CadInOrder

LEMMA CadenceTypes ==
    ASSUME Inv, NEW w \in Worker,
           NEW c \in {Unmarked(cad), Marked(w), ReleasedCad(w)}
    PROVE  c \in Cadence /\ c.step = cad.step /\ c.status = cad.status /\ c.unsent = cad.unsent
  BY DEF Inv, Types, Cadence, Unmarked, Marked, ReleasedCad

LEMMA IdleType == ASSUME CampaignAssumption PROVE Idle \in Job /\ JobInOrder(Idle)
  BY DEF CampaignAssumption, Idle, Job, Phases, Kinds, Step, JobInOrder

LEMMA TakeKeeps ==
    ASSUME CampaignAssumption, Inv, NEW w \in Worker, NEW kind \in Kinds, Take(w, kind),
           kind \in Intro \/ cad.status # None,
           UNCHANGED <<told, events>>, cad' = cad \/ cad' = Marked(w),
           hist' \subseteq {"closed", "slow", "boot", "cleared", "twice"}
    PROVE  Inv'
<1> DEFINE o == [Idle EXCEPT !.at = "taken", !.kind = kind]
<1>1. o \in Job
  BY IdleType DEF Job, Phases
<1>2. JobInOrder(o) /\ o.at # "sending"
  BY DEF Idle, Phases, JobInOrder
<1>3. job' = [job EXCEPT ![w] = o]
  BY DEF Take
<1>8. cad' \in Cadence /\ StaysUnsent
  BY CadenceTypes DEF Inv, Types, StaysUnsent
<1>4. CadInOrder'
  BY <1>8, CadenceTypes, SameCadence DEF Inv, Types
<1>7. o.kind \notin Intro \/ cad.status # None => cad'.status # None
  BY CadenceTypes, <1>1 DEF Job, Idle
<1>5. events' \subseteq Step /\ EventsInOrder'
  BY DEF Inv, Types, EventsInOrder, Settled
<1> HIDE DEF o
<1>6. QED BY <1>1, <1>2, <1>3, <1>4, <1>5, <1>7, <1>8, Hands

\* A worker gives up, or ends; the ledger may have moved before.
LEMMA EndKeeps ==
    ASSUME CampaignAssumption, Inv, NEW w \in Worker, LedgerMoves, job' = [job EXCEPT ![w] = Idle],
           UNCHANGED events, cad' \in Cadence, cad'.step = cad.step,
           cad'.status = None <=> cad.status = None, StaysUnsent,
           hist' \subseteq {"closed", "slow", "boot", "cleared", "twice"},
           \A v \in Worker \ {w} : At(v, "sending") => told'[job[v].step] \in {"trying", "unknown"}
    PROVE  Inv'
<1>1. Types'
  BY IdleType DEF Inv, Types, LedgerMoves
<1>2. OneCaller'
  BY DEF Inv, Types, OneCaller, At, Idle
<1>3. \A v \in Worker : JobInOrder(job[v])'
  <2>1. \A v \in Worker : job[v].step \in Step
    BY DEF Inv, Types, Job
  <2>2. \A v \in Worker \ {w} : JobInOrder(job[v])'
    BY <2>1, SettledStays DEF StaysUnsent, Inv, Types, JobInOrder, LedgerMoves
  <2>3. JobInOrder(job[w])'
    BY DEF Inv, Types, JobInOrder, Idle
  <2>4. QED BY <2>2, <2>3
<1>4. CadInOrder'
  <2>1. cad.step \in Step
    BY DEF CampaignAssumption, Inv, Types, Cadence, Step
  <2>2. QED BY <2>1, SettledStays DEF StaysUnsent, Inv, CadInOrder
<1>5. EventsInOrder' /\ StepsInOrder'
  BY SettledStays DEF StaysUnsent, Inv, Types, EventsInOrder, LedgerMoves
<1>6. Enrolled'
  BY DEF Inv, Types, Enrolled, Idle, Intro
<1>7. QED BY <1>1, <1>2, <1>3, <1>4, <1>5, <1>6 DEF Inv

LEMMA GateKeeps == ASSUME CampaignAssumption, Inv, NEW w \in Worker, Gate(w) PROVE Inv'
<1>1. CASE 0 \in events
  BY <1>1, Stays, EndKeeps DEF Gate, ledger, keyedVars, Inv, Types, OneCaller, StaysUnsent
<1>2. CASE 0 \notin events
  <2> DEFINE o == [job[w] EXCEPT !.at = "gated"]
  <2>1. o \in Job /\ o.at # "sending" /\ job' = [job EXCEPT ![w] = o]
    BY <1>2 DEF Gate, Goes, Inv, Types, Job, Phases
  <2>2. JobInOrder(o)
    BY <1>2 DEF Gate, At, Inv, Types, Job, JobInOrder, Behind, Step
  <2>3. CadInOrder' /\ EventsInOrder' /\ UNCHANGED <<told, cad, events, hist>>
    BY <1>2 DEF Gate, ledger, keyedVars, Inv, CadInOrder, Behind, Done, Settled, EventsInOrder
  <2>5. o.kind \in Intro
    BY DEF Gate, Inv, Types, Job
  <2> HIDE DEF o
  <2>4. QED BY <2>1, <2>2, <2>3, <2>5, Hands DEF Inv, Types, StaysUnsent
<1>3. QED BY <1>1, <1>2

\* A step on record, or just sent, is passed: all behind it was settled before.
LEMMA PassedInOrder ==
    ASSUME CampaignAssumption, Inv, UNCHANGED told, NEW k \in Step,
           Behind(k), Settled(k), cad.status # None, cad' = Passed(k)
    PROVE  cad' \in Cadence /\ CadInOrder' /\ cad'.status # None /\ StaysUnsent
<1>1. CASE k = Last
  <2>1. cad' \in Cadence /\ cad'.step = cad.step /\ cad'.status # None /\ StaysUnsent
    BY <1>1 DEF Passed, Inv, Types, Cadence, Unmarked, Ended, None, StaysUnsent
  <2>2. QED BY <2>1, SameCadence
<1>2. CASE k # Last
  <2>1. /\ cad' \in Cadence /\ cad'.step = k /\ cad'.status = cad.status
        /\ cad'.unsent = cad.unsent
    BY <1>2 DEF Passed, Inv, Types, Cadence, Unmarked
  <2>2. QED BY <2>1 DEF CadInOrder, Behind, Done, Settled, StaysUnsent
<1>3. QED BY <1>1, <1>2

\* A step with no email is passed over, and counts as such from then on.
LEMMA PassedOverInOrder ==
    ASSUME CampaignAssumption, Inv, UNCHANGED told, NEW k \in Step,
           Behind(k), cad.status # None, cad' = PassedOver(k)
    PROVE  cad' \in Cadence /\ CadInOrder' /\ cad'.status # None /\ StaysUnsent
<1>1. /\ cad' \in Cadence /\ cad'.step = k /\ cad'.unsent = cad.unsent \cup {k}
      /\ cad'.status \in {cad.status, "completed"}
  BY DEF PassedOver, Inv, Types, Cadence, Unmarked, Ended
<1>2. cad'.status # None /\ StaysUnsent
  BY <1>1 DEF None, StaysUnsent
<1>3. CadInOrder'
  BY <1>1, <1>2 DEF CadInOrder, Behind, Done, Settled
<1>4. QED BY <1>1, <1>2, <1>3

LEMMA BeginKeeps == ASSUME CampaignAssumption, Inv, NEW w \in Worker, Begin(w) PROVE Inv'
<1> DEFINE k == cad.step + 1
<1>1. UNCHANGED <<told, row, events, hist>> /\ At(w, "taken")
  BY DEF Begin, ledger, keyedVars
<1>2. CASE ~StatusActive
  <2>1. job' = [job EXCEPT ![w] = Idle] /\ cad' = ReleasedCad(w)
    BY <1>2 DEF Begin, GiveUp
  <2>2. QED BY <1>1, <2>1, CadenceTypes, Stays, EndKeeps DEF Inv, Types, OneCaller, StaysUnsent
<1>3. CASE StatusActive
  <2>1. k \in 1 .. Last + 1 /\ Behind(k) /\ cad.status # None
    BY <1>3 DEF StatusActive, None, CampaignAssumption, Inv, Types, Cadence, Step, CadInOrder, Behind
  <2>2. CASE dead \/ k > Last
    <3>1. job' = [job EXCEPT ![w] = Idle]
          /\ \/ cad' = [Unmarked(cad) EXCEPT !.status = "bounced"]
             \/ cad' = [Unmarked(cad) EXCEPT !.status = "completed"]
      <4>1. CASE dead
        BY <1>3, <4>1 DEF Begin
      <4>2. CASE ~dead /\ k > Last
        <5>1. k \notin events
          BY <4>2 DEF CampaignAssumption, Inv, Types, Cadence, Step
        <5>2. QED BY <1>3, <4>2, <5>1 DEF Begin
      <4>3. QED BY <2>2, <4>1, <4>2
    <3>2. cad' \in Cadence /\ cad'.step = cad.step /\ cad'.status # None /\ StaysUnsent
      BY <3>1 DEF Inv, Types, Cadence, Unmarked, Ended, None, StaysUnsent
    <3>3. QED BY <1>1, <2>1, <3>1, <3>2, Stays, EndKeeps DEF Inv, Types, OneCaller
  <2>3. CASE ~dead /\ ~(k > Last) /\ k \in events
    <3>1. job' = [job EXCEPT ![w] = Idle] /\ cad' = Passed(k) /\ k \in Step
      BY <1>3, <2>3 DEF Begin, Inv, Types
    <3>2. cad' \in Cadence /\ CadInOrder' /\ cad'.status # None /\ StaysUnsent
      BY <1>1, <2>1, <2>3, <3>1, PassedInOrder DEF Inv, EventsInOrder
    <3>3. EventsInOrder' /\ events' \subseteq Step
      BY <1>1 DEF Inv, Types, EventsInOrder, Settled
    <3>4. Idle.at # "sending"
      BY DEF Idle
    <3>5. QED BY <1>1, <3>1, <3>2, <3>3, <3>4, IdleType, Hands DEF Inv, Types
  <2>6. CASE job' = [job EXCEPT ![w] = Idle] /\ cad' = PassedOver(k) /\ ~(k > Last)
    <3>1. k \in Step
      BY <2>1, <2>6 DEF CampaignAssumption, Step
    <3>2. cad' \in Cadence /\ CadInOrder' /\ cad'.status # None /\ StaysUnsent
      BY <1>1, <2>1, <2>6, <3>1, PassedOverInOrder
    <3>3. EventsInOrder' /\ events' \subseteq Step
      BY <1>1 DEF Inv, Types, EventsInOrder, Settled
    <3>4. Idle.at # "sending"
      BY DEF Idle
    <3>5. QED BY <1>1, <2>6, <3>2, <3>3, <3>4, IdleType, Hands DEF Inv, Types
  <2>4. CASE /\ ~(k > Last) /\ cad' = cad
             /\ job' = [job EXCEPT ![w] = [@ EXCEPT !.at = "gated", !.step = k, !.late = Late]]
    <3> DEFINE o == [job[w] EXCEPT !.at = "gated", !.step = k, !.late = Late]
    <3>1. job' = [job EXCEPT ![w] = o] /\ cad' = cad
      BY <2>4
    <3>8. k \in Step
      BY <2>1, <2>4 DEF CampaignAssumption, Step
    <3>6. Late \in SUBSET {"closed", "past"}
      BY DEF Late
    <3>7. job[w] \in Job /\ job[w].kind \notin Intro
      BY DEF Begin, Inv, Types
    <3>2. o \in Job /\ o.at = "gated" /\ o.step = k /\ o.kind \notin Intro
      <4> DEFINE late == Late
                 kk == k
      <4>1. kk \in Step /\ late \in SUBSET {"closed", "past"}
        BY <3>6, <3>8
      <4> HIDE DEF late, kk
      <4>2. [job[w] EXCEPT !.at = "gated", !.step = kk, !.late = late] \in Job
        BY <3>7, <4>1 DEF Job, Phases
      <4>3. QED BY <3>7, <4>2 DEF Job, kk, late
    <3>3. JobInOrder(o)
      BY <2>1, <3>2 DEF JobInOrder
    <3>4. CadInOrder' /\ EventsInOrder'
      BY <1>1, <3>1 DEF Inv, CadInOrder, Behind, Done, Settled, EventsInOrder
    <3> HIDE DEF o
    <3>5. QED BY <1>1, <2>1, <3>1, <3>2, <3>3, <3>4, Hands DEF Inv, Types, StaysUnsent
  <2>5. QED BY <1>3, <2>2, <2>3, <2>4, <2>6 DEF Begin
<1>4. QED BY <1>2, <1>3

LEMMA UnwrittenKeeps ==
    ASSUME CampaignAssumption, Inv, NEW w \in Worker, Unwritten(w) PROVE Inv'
<1> DEFINE k == job[w].step
<1>1. /\ job[w] \in Job /\ job[w].kind \notin Intro /\ job[w].at = "gated"
      /\ cad' = PassedOver(k) /\ job' = [job EXCEPT ![w] = Idle]
      /\ UNCHANGED <<told, events, hist>>
  BY DEF Unwritten, At, Inv, Types, ledger, keyedVars
<1>2. k \in Step /\ Behind(k) /\ cad.status # None
  BY <1>1 DEF Inv, JobInOrder, Phases, Job, Enrolled
<1>3. cad' \in Cadence /\ CadInOrder' /\ cad'.status # None /\ StaysUnsent
  BY <1>1, <1>2, PassedOverInOrder
<1>4. EventsInOrder' /\ Idle.at # "sending"
  BY <1>1 DEF Inv, EventsInOrder, Settled, Idle
<1>5. QED BY <1>1, <1>3, <1>4, IdleType, Hands DEF Inv, Types

\* A worker at the transport: only its own email moves.
LEMMA OtherCallers ==
    ASSUME Inv, NEW w \in Worker, At(w, "sending"), told' \in [Step -> Told],
           \A k \in Step \ {job[w].step} : told'[k] = told[k]
    PROVE  \A v \in Worker \ {w} :
               At(v, "sending") => told'[job[v].step] \in {"trying", "unknown"}
  BY DEF Inv, Types, Job, OneCaller

LEMMA GivenUp ==
    ASSUME CampaignAssumption, Inv, NEW w \in Worker, LedgerMoves, GiveUp(w), UNCHANGED <<events, hist>>,
           \A v \in Worker \ {w} :
               At(v, "sending") => told'[job[v].step] \in {"trying", "unknown"}
    PROVE  Inv'
<1>1. job' = [job EXCEPT ![w] = Idle] /\ cad' = ReleasedCad(w)
  BY DEF GiveUp
<1>2. cad' \in Cadence /\ cad'.step = cad.step /\ cad'.status = cad.status /\ StaysUnsent
  BY <1>1, CadenceTypes DEF StaysUnsent
<1>3. QED BY <1>1, <1>2, EndKeeps DEF Inv, Types

LEMMA SendFailsKeeps == ASSUME CampaignAssumption, Inv, NEW w \in Worker, SendFails(w) PROVE Inv'
<1> DEFINE k == job[w].step
<1>1. k \in Step /\ k \in Key /\ At(w, "sending") /\ told[k] \in {"trying", "unknown"}
  BY DEF SendFails, Inv, Types, Job, OneCaller, CampaignAssumption
<1>2. \/ told' = [told EXCEPT ![k] = "retry"] \/ told' = [told EXCEPT ![k] = "unknown"] \/ told' = told
  BY DEF SendFails, Retry, Doubt, Tell, ledger, keyedVars
<1>3. LedgerMoves /\ \A j \in Step \ {k} : told'[j] = told[j]
  BY <1>1, <1>2 DEF LedgerMoves, Inv, Types, Told, Settled
<1>4. QED BY <1>1, <1>3, OtherCallers, GivenUp DEF SendFails, LedgerMoves

LEMMA SendOkKeeps == ASSUME CampaignAssumption, Inv, NEW w \in Worker, SendOk(w) PROVE Inv'
<1> DEFINE k == job[w].step
           o == [job[w] EXCEPT !.at = "accepted"]
<1>1. k \in Step /\ At(w, "sending") /\ Behind(k) /\ told[k] \in {"trying", "unknown"}
  BY DEF SendOk, At, Inv, Types, Job, JobInOrder, Phases, OneCaller
<1>2. told' = [told EXCEPT ![k] = "sent"] /\ job' = [job EXCEPT ![w] = o]
      /\ UNCHANGED <<cad, events, hist>>
  BY <1>1 DEF SendOk, Confirm, Tell, Goes, ledger, keyedVars
<1>3. LedgerMoves /\ Settled(k)' /\ \A j \in Step \ {k} : told'[j] = told[j]
  BY <1>1, <1>2 DEF LedgerMoves, Inv, Types, Told, Settled
<1>4. Types'
  BY <1>2, <1>3 DEF Inv, Types, LedgerMoves, Job, Phases
<1>5. OneCaller'
  BY <1>1, <1>2, <1>3, OtherCallers DEF Inv, Types, OneCaller, At, LedgerMoves
<1>6. \A v \in Worker : JobInOrder(job[v])'
  <2>1. \A v \in Worker : job[v].step \in Step
    BY DEF Inv, Types, Job
  <2>2. \A v \in Worker \ {w} : JobInOrder(job[v])'
    BY <1>2, <1>3, <2>1, SettledStays DEF StaysUnsent, Inv, Types, JobInOrder, LedgerMoves
  <2>3. job'[w] = o /\ o.kind = job[w].kind /\ o.step = k
    BY <1>2 DEF Inv, Types, Job
  <2>4. JobInOrder(job[w])'
    BY <1>1, <1>2, <1>3, <2>3, SettledStays DEF StaysUnsent, Inv, JobInOrder
  <2>5. QED BY <2>2, <2>4
<1>7. CadInOrder'
  <2>1. cad.step \in Step
    BY DEF CampaignAssumption, Inv, Types, Cadence, Step
  <2>2. QED BY <1>2, <1>3, <2>1, SettledStays DEF StaysUnsent, Inv, CadInOrder
<1>8. EventsInOrder' /\ StepsInOrder'
  BY <1>2, <1>3, SettledStays DEF StaysUnsent, Inv, Types, EventsInOrder, LedgerMoves
<1>9. Enrolled'
  BY <1>2 DEF Inv, Types, Job, Enrolled
<1>10. QED BY <1>4, <1>5, <1>6, <1>7, <1>8, <1>9 DEF Inv

\* The claim finds the key free, and everything behind it settled.
LEMMA HandKeeps == ASSUME CampaignAssumption, Inv, NEW w \in Worker, Hand(w) PROVE Inv'
<1> DEFINE k == job[w].step
<1>1. k \in Step /\ k \in Key /\ At(w, "gated") /\ Behind(k) /\ job[w] \in Job
      /\ UNCHANGED <<events, hist>>
  BY DEF Hand, At, Inv, Types, Job, JobInOrder, Phases, CampaignAssumption
<1>2. CASE Try(k) /\ Goes(w, "sending") /\ UNCHANGED <<row, cad>>
  <2> DEFINE o == [job[w] EXCEPT !.at = "sending"]
  <2>1. told[k] \in {"nothing", "retry"} /\ told' = [told EXCEPT ![k] = "trying"]
    BY <1>2 DEF Try, Tell
  <2>2. job' = [job EXCEPT ![w] = o] /\ o \in Job /\ o.step = k /\ o.kind = job[w].kind
        /\ cad' = cad
    BY <1>1, <1>2 DEF Goes, Job, Phases
  <2>3. LedgerMoves /\ \A j \in Step \ {k} : told'[j] = told[j]
    BY <1>1, <2>1 DEF LedgerMoves, Inv, Types, Told, Settled
  <2>4. \A v \in Worker \ {w} : job'[v] = job[v] /\ job[v].step \in Step
    BY <2>2 DEF Inv, Types, Job
  <2>5. Types'
    BY <1>1, <2>2, <2>3 DEF Inv, Types, LedgerMoves
  <2>6. job'[w] = o /\ told'[k] = "trying"
    BY <1>1, <2>1, <2>2 DEF Inv, Types
  <2>7. \A v \in Worker \ {w} : At(v, "sending") => job[v].step # k
    BY <2>1 DEF Inv, OneCaller
  <2>8. OneCaller'
    <3>1. \A v \in Worker \ {w} : At(v, "sending")' =>
              told'[job'[v].step] \in {"trying", "unknown"} /\ job'[v].step # k
      BY <2>3, <2>4, <2>7 DEF Inv, OneCaller, At
    <3>2. \A v, u \in Worker \ {w} :
              At(v, "sending")' /\ At(u, "sending")' /\ job'[v].step = job'[u].step => v = u
      BY <2>4 DEF Inv, OneCaller, At
    <3>3. job'[w].step = k
      BY <2>2, <2>6
    <3>4. QED BY <2>6, <3>1, <3>2, <3>3 DEF OneCaller
  <2>9. \A v \in Worker : JobInOrder(job[v])'
    <3>1. \A v \in Worker \ {w} : JobInOrder(job[v])'
      BY <2>2, <2>3, <2>4, SettledStays DEF StaysUnsent, Inv, JobInOrder, LedgerMoves
    <3>2. Behind(k)' /\ (o.kind \in Intro => k = 0) /\ o.at = "sending"
      BY <1>1, <2>2, <2>3, SettledStays DEF StaysUnsent, Inv, JobInOrder, Job
    <3>3. job'[w].step = k /\ job'[w].kind = o.kind /\ job'[w].at = "sending"
      BY <2>2, <2>6, <3>2
    <3>4. JobInOrder(job[w])'
      BY <3>2, <3>3 DEF JobInOrder, Behind, Done, Settled
    <3>5. QED BY <3>1, <3>4
  <2>10. CadInOrder' /\ EventsInOrder' /\ StepsInOrder'
    <3>1. cad.step \in Step
      BY DEF CampaignAssumption, Inv, Types, Cadence, Step
    <3>2. QED BY <1>1, <2>2, <2>3, <3>1, SettledStays
           DEF StaysUnsent, Inv, Types, CadInOrder, EventsInOrder, LedgerMoves
  <2>11. Enrolled'
    BY <2>2, <2>4, <2>6 DEF Inv, Enrolled
  <2>12. QED BY <2>5, <2>8, <2>9, <2>10, <2>11 DEF Inv
<1>3. CASE Replays(k) /\ Goes(w, "accepted") /\ UNCHANGED <<ledger, row, cad>>
  <2> DEFINE o == [job[w] EXCEPT !.at = "accepted"]
  <2>1. job' = [job EXCEPT ![w] = o] /\ o \in Job /\ o.at = "accepted" /\ o.step = k
        /\ o.kind = job[w].kind /\ UNCHANGED <<told, cad>>
    BY <1>1, <1>3 DEF Goes, Job, Phases, ledger, keyedVars
  <2>2. JobInOrder(o)
    BY <1>1, <1>3, <2>1 DEF Inv, JobInOrder, Replays, Settled
  <2>3. CadInOrder' /\ EventsInOrder' /\ (o.kind \notin Intro => cad.status # None)
    BY <1>1, <2>1 DEF Inv, CadInOrder, Behind, Done, Settled, EventsInOrder, Enrolled
  <2> HIDE DEF o
  <2>4. QED BY <1>1, <2>1, <2>2, <2>3, Hands DEF Inv, Types, StaysUnsent
<1>4. CASE told[k] = "trying" /\ (Doubt(k) \/ UNCHANGED ledger) /\ GiveUp(w)
  <2>1. \/ told' = [told EXCEPT ![k] = "unknown"] \/ told' = told
    BY <1>4 DEF Doubt, Tell, ledger, keyedVars
  <2>2. LedgerMoves
    BY <1>1, <1>4, <2>1 DEF LedgerMoves, Inv, Types, Told, Settled
  <2>3. \A v \in Worker : At(v, "sending") => told'[job[v].step] \in {"trying", "unknown"}
    BY <1>1, <2>1 DEF Inv, Types, Job, OneCaller
  <2>4. QED BY <1>1, <1>4, <2>2, <2>3, GivenUp
<1>5. CASE GiveUp(w) /\ UNCHANGED ledger
  BY <1>1, <1>5, Stays, GivenUp DEF ledger, keyedVars, Inv, OneCaller
<1>6. QED BY <1>1, <1>2, <1>3, <1>4, <1>5 DEF Hand

LEMMA ArriveKeeps == ASSUME CampaignAssumption, Inv, NEW k \in Step, Arrive(k) PROVE Inv'
  BY Stays, LedgerOnly DEF Arrive, Deliver, Inv, Types, OneCaller

LEMMA SettleKeeps == ASSUME CampaignAssumption, Inv, NEW k \in Step, Settle(k) PROVE Inv'
<1>1. \E x \in {"sent", "retry", "flagged"} : told' = [told EXCEPT ![k] = x]
  BY DEF Settle, Confirm, Retry, Flag, Tell
<1>2. told[k] = "unknown" /\ \A w \in Worker : At(w, "sending") => job[w].step # k
  BY DEF Settle
<1>3. LedgerMoves
  BY <1>1, <1>2 DEF LedgerMoves, Inv, Types, Told, Settled
<1>4. \A w \in Worker : At(w, "sending") => told'[job[w].step] \in {"trying", "unknown"}
  BY <1>1, <1>2 DEF Inv, Types, Job, OneCaller
<1>5. QED BY <1>3, <1>4, LedgerOnly DEF Settle, Inv, Types

LEMMA RecordKeeps == ASSUME CampaignAssumption, Inv, NEW w \in Worker, Record(w) PROVE Inv'
<1> DEFINE o == [job[w] EXCEPT !.at = "recorded"]
<1>1. job[w] \in Job /\ job[w].at = "accepted" /\ UNCHANGED <<told, cad, hist>>
      /\ events' = events \cup {job[w].step}
  BY DEF Record, At, Inv, Types, ledger, keyedVars
<1>2. job' = [job EXCEPT ![w] = o] /\ o \in Job /\ o.at = "recorded"
      /\ o.step = job[w].step /\ o.kind = job[w].kind
  BY <1>1 DEF Record, Goes, Job, Phases
<1>3. JobInOrder(o)
  BY <1>1, <1>2 DEF Inv, JobInOrder, Phases
<1>4. CadInOrder' /\ events' \subseteq Step /\ EventsInOrder'
      /\ (o.kind \notin Intro => cad.status # None)
  BY <1>1, <1>2 DEF Inv, Types, Job, JobInOrder, CadInOrder, Behind, Done, Settled, EventsInOrder,
                    Enrolled
<1> HIDE DEF o
<1>5. QED BY <1>1, <1>2, <1>3, <1>4, Hands DEF Inv, Types, StaysUnsent

LEMMA EnrollKeeps == ASSUME CampaignAssumption, Inv, NEW w \in Worker, Enroll(w) PROVE Inv'
<1> DEFINE o == [job[w] EXCEPT !.at = "enrolled"]
<1>1. job[w] \in Job /\ job[w].at = "recorded" /\ job[w].kind \in Intro
      /\ UNCHANGED <<told, events>>
  BY DEF Enroll, At, Inv, Types, ledger, keyedVars
<1>2. job' = [job EXCEPT ![w] = o] /\ o \in Job /\ o.at = "enrolled"
      /\ o.step = job[w].step /\ o.kind = job[w].kind
  BY <1>1 DEF Enroll, Goes, Job, Phases
<1>3. JobInOrder(o)
  BY <1>1, <1>2 DEF Inv, JobInOrder, Phases
<1>4. cad' \in Cadence /\ cad'.step = cad.step /\ cad'.status # None /\ cad'.unsent = cad.unsent
  BY DEF Enroll, Inv, Types, Cadence, None
<1>5. CadInOrder'
  <2>1. Settled(0) /\ job[w].step = 0
    BY <1>1 DEF Inv, JobInOrder
  <2>2. Behind(0)
    BY DEF Behind, Step
  <2>3. CASE cad.status = None
    BY <1>1, <1>4, <2>1, <2>2, <2>3 DEF Inv, CadInOrder, Behind, Done, Settled
  <2>4. CASE cad.status # None
    BY <1>1, <1>4, <2>4 DEF Inv, CadInOrder, Behind, Done, Settled
  <2>5. QED BY <2>3, <2>4
<1>6. events' \subseteq Step /\ EventsInOrder'
      /\ hist' \subseteq {"closed", "slow", "boot", "cleared", "twice"}
  BY <1>1 DEF Enroll, Inv, Types, EventsInOrder, Settled
<1> HIDE DEF o
<1>7. QED BY <1>1, <1>2, <1>3, <1>4, <1>5, <1>6, Hands DEF StaysUnsent

LEMMA FinishRowKeeps == ASSUME CampaignAssumption, Inv, NEW w \in Worker, FinishRow(w) PROVE Inv'
  BY Stays, EndKeeps DEF FinishRow, ledger, keyedVars, Inv, Types, OneCaller, StaysUnsent

LEMMA AdvanceKeeps == ASSUME CampaignAssumption, Inv, NEW w \in Worker, Advance(w) PROVE Inv'
<1> DEFINE k == job[w].step
<1>1. job[w] \in Job /\ job[w].at = "recorded" /\ job[w].kind \notin Intro
      /\ cad' = Passed(k) /\ job' = [job EXCEPT ![w] = Idle] /\ UNCHANGED <<told, events, hist>>
  BY DEF Advance, At, Inv, Types, ledger, keyedVars
<1>2. k \in Step /\ Behind(k) /\ Settled(k) /\ cad.status # None
  BY <1>1 DEF Inv, JobInOrder, Phases, Job, Enrolled
<1>3. cad' \in Cadence /\ CadInOrder' /\ cad'.status # None /\ StaysUnsent
  BY <1>1, <1>2, PassedInOrder
<1>4. EventsInOrder' /\ Idle.at # "sending"
  BY <1>1 DEF Inv, EventsInOrder, Settled, Idle
<1>5. QED BY <1>1, <1>3, <1>4, IdleType, Hands DEF Inv, Types

-----------------------------------------------------------------------------
(* Steps that move no worker, or that kill some.                           *)

LEMMA NoWorker ==
    ASSUME CampaignAssumption, Inv, UNCHANGED <<told, job, events>>, cad' \in Cadence,
           cad'.step = cad.step, cad'.status = None <=> cad.status = None, StaysUnsent,
           hist' \subseteq {"closed", "slow", "boot", "cleared", "twice"}
    PROVE  Inv'
<1>1. Types' /\ Enrolled' /\ OneCaller' /\ EventsInOrder'
  BY DEF Inv, Types, Enrolled, OneCaller, At, EventsInOrder, Settled
<1>2. StepsInOrder' /\ \A v \in Worker : JobInOrder(job[v])'
  <2>1. \A v \in Worker : job[v].step \in Step
    BY DEF Inv, Types, Job
  <2>2. QED BY <2>1, Stays, SettledStays DEF Inv, JobInOrder, Settled
<1>3. CadInOrder'
  BY SameCadence
<1>4. QED BY <1>1, <1>2, <1>3 DEF Inv

LEMMA BetweenKeeps ==
    ASSUME CampaignAssumption, Inv, Lapse \/ GrowOld \/ Answer \/ Poll \/ Stop \/ Suppress
    PROVE  Inv'
<1> USE DEF ledger, keyedVars
<1>1. CASE Lapse \/ Answer
  BY <1>1, NoWorker DEF Lapse, Answer, Inv, Types, StaysUnsent
<1>2. CASE GrowOld
  <2>1. cad' \in Cadence /\ cad'.step = cad.step /\ cad'.status = cad.status /\ StaysUnsent
    BY <1>2 DEF GrowOld, Inv, Types, Cadence, StaysUnsent
  <2>2. QED BY <1>2, <2>1, NoWorker DEF GrowOld, Inv, Types
<1>3. CASE Poll
  <2>1. cad' \in Cadence /\ cad'.step = cad.step /\ (cad'.status = None <=> cad.status = None)
        /\ StaysUnsent
    BY <1>3 DEF Poll, Inv, Types, Cadence, Ended, None, StaysUnsent
  <2>2. hist' \subseteq {"closed", "slow", "boot", "cleared", "twice"}
    BY <1>3 DEF Poll, Inv, Types
  <2>3. QED BY <1>3, <2>1, <2>2, NoWorker DEF Poll
<1>4. CASE Stop
  <2>1. cad' \in Cadence /\ cad'.step = cad.step /\ (cad'.status = None <=> cad.status = None)
        /\ StaysUnsent
    BY <1>4 DEF Stop, Stoppable, Inv, Types, Cadence, Ended, None, Unmarked, StaysUnsent
  <2>2. hist' \subseteq {"closed", "slow", "boot", "cleared", "twice"}
    BY <1>4 DEF Stop, Inv, Types
  <2>3. QED BY <1>4, <2>1, <2>2, NoWorker DEF Stop
<1>5. CASE Suppress
  <2>1. cad' \in Cadence /\ cad'.step = cad.step /\ (cad'.status = None <=> cad.status = None)
        /\ StaysUnsent
    BY <1>5 DEF Suppress, Inv, Types, Cadence, Ended, None, Unmarked, StaysUnsent
  <2>2. hist' \subseteq {"closed", "slow", "boot", "cleared", "twice"}
    BY <1>5 DEF Suppress, Inv, Types
  <2>3. QED BY <1>5, <2>1, <2>2, NoWorker DEF Suppress
<1>6. QED BY <1>1, <1>2, <1>3, <1>4, <1>5

LEMMA DieKeeps == ASSUME CampaignAssumption, Inv, NEW w \in Worker, Die(w) PROVE Inv'
  BY Stays, EndKeeps DEF Die, ledger, keyedVars, Inv, Types, OneCaller, StaysUnsent

LEMMA BootKeeps == ASSUME CampaignAssumption, Inv, Boot PROVE Inv'
<1>1. UNCHANGED <<told, events>> /\ cad' = Unmarked(cad)
      /\ \A v \in Worker : job'[v] = job[v] \/ job'[v] = Idle
  BY DEF Boot, ledger, keyedVars, Inv, Types
<1>2. /\ cad' \in Cadence /\ cad'.step = cad.step /\ cad'.status = cad.status
      /\ cad'.unsent = cad.unsent
  BY <1>1 DEF Inv, Types, Cadence, Unmarked
<1>3. Types'
  <2>1. job' \in [Worker -> Job]
    BY IdleType DEF Boot, Inv, Types
  <2>2. QED BY <1>1, <1>2, <2>1 DEF Boot, Inv, Types
<1>4. OneCaller'
  BY <1>1 DEF Inv, OneCaller, At, Idle
<1>5. \A v \in Worker : JobInOrder(job[v])'
  BY <1>1, <1>2 DEF Inv, JobInOrder, Idle, Behind, Done, Settled
<1>6. CadInOrder' /\ EventsInOrder' /\ StepsInOrder'
  BY <1>1, <1>2, SameCadence DEF Inv, EventsInOrder, Settled, StepsInOrder, StaysUnsent
<1>7. Enrolled'
  BY <1>1, <1>2 DEF Inv, Enrolled, Idle, Intro
<1>8. QED BY <1>3, <1>4, <1>5, <1>6, <1>7 DEF Inv

LEMMA ClaimKeeps ==
    ASSUME CampaignAssumption, Inv, NEW w \in Worker,
           Dequeue(w) \/ ClaimRow(w) \/ RunStep(w) \/ ClickStep(w)
    PROVE  Inv'
<1> USE DEF ledger, keyedVars
<1>1. {"drain", "send"} \subseteq Kinds /\ {"runner", "click"} \subseteq Kinds
      /\ Intro = {"drain", "send"}
  BY DEF Kinds, Intro
<1>2. CASE Dequeue(w)
  BY <1>1, <1>2, TakeKeeps DEF Dequeue, Inv, Types
<1>3. CASE ClaimRow(w)
  BY <1>1, <1>3, TakeKeeps DEF ClaimRow, Inv, Types
<1>4. CASE RunStep(w)
  BY <1>1, <1>4, TakeKeeps DEF RunStep, Inv, Types
<1>5. CASE ClickStep(w)
  <2>1. hist' \subseteq {"closed", "slow", "boot", "cleared", "twice"}
    BY <1>5 DEF ClickStep, Inv, Types
  <2>2. QED BY <1>1, <1>5, <2>1, TakeKeeps DEF ClickStep
<1>6. QED BY <1>2, <1>3, <1>4, <1>5

LEMMA StepKeepsInv == ASSUME CampaignAssumption, Inv, Next PROVE Inv'
<1>1. ASSUME NEW w \in Worker,
             \/ Dequeue(w) \/ ClaimRow(w) \/ Gate(w) \/ RunStep(w) \/ ClickStep(w) \/ Begin(w)
             \/ Unwritten(w) \/ Hand(w) \/ SendOk(w) \/ SendFails(w) \/ Record(w) \/ Enroll(w)
             \/ FinishRow(w) \/ Advance(w) \/ Die(w)
      PROVE  Inv'
  BY <1>1, ClaimKeeps, GateKeeps, BeginKeeps, UnwrittenKeeps, HandKeeps, SendOkKeeps, SendFailsKeeps, RecordKeeps,
     EnrollKeeps, FinishRowKeeps, AdvanceKeeps, DieKeeps
<1>2. ASSUME NEW k \in Step, Arrive(k) \/ Settle(k) PROVE Inv'
  BY <1>2, ArriveKeeps, SettleKeeps
<1>3. QED BY <1>1, <1>2, BetweenKeeps, BootKeeps DEF Next

LEMMA StutterKeepsInv == ASSUME Inv, UNCHANGED vars PROVE Inv'
<1>1. UNCHANGED <<told, cad, job, events, hist>>
  BY DEF vars
<1>2. Types' /\ Enrolled' /\ OneCaller' /\ EventsInOrder' /\ StepsInOrder'
  BY <1>1 DEF Inv, Types, Enrolled, OneCaller, At, EventsInOrder, Settled, StepsInOrder
<1>3. CadInOrder' /\ \A v \in Worker : JobInOrder(job[v])'
  BY <1>1 DEF Inv, CadInOrder, JobInOrder, Behind, Done, Settled
<1>4. QED BY <1>2, <1>3 DEF Inv

LEMMA Invariance == ASSUME CampaignAssumption PROVE Spec => []Inv
<1>1. Init => Inv
  BY InitInv
<1>2. Inv /\ [Next]_vars => Inv'
  BY StepKeepsInv, StutterKeepsInv
<1>3. QED BY <1>1, <1>2, PTL DEF Spec

\* No step's email is tried before the ones ahead of it are settled as sent, or
\* were passed with no email (runCadenceStepForProspect and the drain), whatever
\* dies, lapses or is clicked, for a sequence of any length.
THEOREM StepsAreInOrder == ASSUME CampaignAssumption PROVE Spec => []StepsInOrder
<1>1. Inv => StepsInOrder
  BY DEF Inv
<1>2. QED BY <1>1, Invariance, PTL

-----------------------------------------------------------------------------
(* After the end.  What ended a cadence is remembered in hist, and so is    *)
(* every way a claim is taken from a follow-up that is under way.           *)

\* An ended cadence is active again only by a second enrolment; or by the
\* first, for somebody suppressed before it, to whom nothing is sent.
Closed == "closed" \in hist => cad.status \notin {None, "active"} \/ "twice" \in hist \/ dead

Broken == hist \cap {"boot", "slow", "cleared"} # {}
FollowsUp(o) == o.kind \notin Intro /\ o.at # "idle"

\* A follow-up holds the cadence's marker, unless that was taken from it.
HoldsMarker == ~Broken => \A w \in Worker : FollowsUp(job[w]) => cad.marker = w

EndInv == Closed /\ EndIsFinal /\ HoldsMarker /\ StopIsFinal

\* Anything but a worker's step leaves the jobs alone, or ends some.
LEMMA Update ==
    ASSUME Types, NEW w \in Worker, NEW o, job' = [job EXCEPT ![w] = o]
    PROVE  job'[w] = o /\ \A v \in Worker \ {w} : job'[v] = job[v]
  BY DEF Types

LEMMA GoesUpdate ==
    ASSUME Types, NEW w \in Worker, NEW at, Goes(w, at)
    PROVE  /\ job'[w].at = at /\ job'[w].kind = job[w].kind /\ job'[w].late = job[w].late
           /\ \A v \in Worker \ {w} : job'[v] = job[v]
  BY DEF Types, Goes, Job

\* What a step may do to jobs and ends.
Ends(w) ==
    /\ job'[w] = Idle /\ \A v \in Worker \ {w} : job'[v] = job[v]
    /\ cad'.status \in {cad.status, "bounced", "breakup", "completed"} /\ UNCHANGED <<hist, dead>>
    /\ FollowsUp(job[w]) \/ cad'.marker = cad.marker

LEMMA EndsKeeps == ASSUME Types, EndInv, NEW w \in Worker, Ends(w) PROVE EndInv'
<1> USE DEF EndInv, Ends
<1>1. Closed'
  BY DEF Closed, Types, Cadence, None
<1>2. EndIsFinal'
  BY DEF EndIsFinal, Idle
<1>3. HoldsMarker'
  BY DEF HoldsMarker, Broken, FollowsUp, Idle
<1>4. StopIsFinal'
  BY DEF StopIsFinal, Idle
<1>5. QED BY <1>1, <1>2, <1>3, <1>4

\* A worker goes on, with what it claimed.
Proceeds(w) ==
    /\ job'[w].kind = job[w].kind /\ job'[w].late = job[w].late
    /\ job[w].kind \notin Intro => job[w].at \notin {"idle", "taken"}
    /\ \A v \in Worker \ {w} : job'[v] = job[v]
    /\ cad'.marker = cad.marker /\ UNCHANGED dead
    /\ \/ UNCHANGED <<cad, hist>>
       \/ /\ cad.status = None /\ cad'.status = "active" /\ UNCHANGED hist
       \/ /\ cad.status # None /\ hist' = hist \cup {"twice"}
          /\ cad'.status = "stopped" => cad.status = "stopped"

LEMMA ProceedsKeeps == ASSUME Types, EndInv, NEW w \in Worker, Proceeds(w) PROVE EndInv'
<1> USE DEF EndInv, Proceeds
<1>1. Closed'
  BY DEF Closed, None
<1>2. EndIsFinal'
  BY DEF EndIsFinal
<1>3. HoldsMarker'
  BY DEF HoldsMarker, Broken, FollowsUp
<1>4. StopIsFinal'
  BY DEF StopIsFinal
<1>5. QED BY <1>1, <1>2, <1>3, <1>4

LEMMA TakeEnds ==
    ASSUME CampaignAssumption, Types, EndInv, NEW w \in Worker, NEW kind \in Kinds, Take(w, kind),
           UNCHANGED dead,
           \/ kind \in Intro /\ UNCHANGED <<cad, hist>>
           \/ /\ kind \notin Intro /\ cad' = Marked(w)
              /\ \/ UNCHANGED hist /\ cad.marker = None
                 \/ hist' = IF cad.marker # None /\ Live(cad.marker)
                            THEN hist \cup {"slow"} ELSE hist
    PROVE  EndInv'
<1>1. job'[w] = [Idle EXCEPT !.at = "taken", !.kind = kind] /\ \A v \in Worker \ {w} : job'[v] = job[v]
  BY Update DEF Take
<1>2. job'[w].at = "taken" /\ job'[w].kind = kind /\ job'[w].late = {}
  BY <1>1 DEF Idle
<1>3. cad'.status = cad.status /\ hist \subseteq hist' /\ hist' \subseteq hist \cup {"slow"}
  BY DEF Types, Cadence, Marked
<1>4. Closed' /\ EndIsFinal'
  BY <1>1, <1>2, <1>3 DEF EndInv, Closed, EndIsFinal
<1>5. HoldsMarker'
  <2>1. SUFFICES ASSUME ~Broken', NEW v \in Worker, FollowsUp(job'[v]) PROVE cad'.marker = v
    BY DEF HoldsMarker
  <2>2. ~Broken /\ "slow" \notin hist'
    BY <1>3, <2>1 DEF Broken
  <2>3. CASE kind \in Intro
    BY <1>1, <1>2, <2>1, <2>2, <2>3 DEF EndInv, HoldsMarker, FollowsUp
  <2>4. CASE kind \notin Intro
    <3>1. cad'.marker = w /\ (cad.marker = None \/ ~Live(cad.marker))
      BY <2>2, <2>4 DEF Types, Cadence, Marked
    <3>2. ASSUME v # w PROVE FALSE
      <4>1. FollowsUp(job[v]) /\ cad.marker = v
        BY <1>1, <2>1, <2>2, <3>2 DEF EndInv, HoldsMarker
      <4>2. v # None
        BY DEF CampaignAssumption
      <4>3. QED BY <3>1, <4>1, <4>2 DEF Live, FollowsUp, At
    <3>3. QED BY <3>1, <3>2
  <2>5. QED BY <2>3, <2>4
<1>6. StopIsFinal'
  BY <1>1, <1>2, <1>3 DEF EndInv, StopIsFinal
<1>7. QED BY <1>4, <1>5, <1>6 DEF EndInv

LEMMA ClaimEnds ==
    ASSUME CampaignAssumption, Types, EndInv, NEW w \in Worker,
           Dequeue(w) \/ ClaimRow(w) \/ RunStep(w) \/ ClickStep(w)
    PROVE  EndInv'
<1>1. {"drain", "send", "runner", "click"} = Kinds /\ {"drain", "send"} = Intro
  BY DEF Kinds, Intro
<1>2. CASE Dequeue(w)
  BY <1>1, <1>2, TakeEnds DEF Dequeue
<1>3. CASE ClaimRow(w)
  BY <1>1, <1>3, TakeEnds DEF ClaimRow
<1>4. CASE RunStep(w)
  BY <1>1, <1>4, TakeEnds DEF RunStep
<1>5. CASE ClickStep(w)
  BY <1>1, <1>5, TakeEnds DEF ClickStep
<1>6. QED BY <1>2, <1>3, <1>4, <1>5

\* A follow-up that gives up clears the marker, a sender of the intro does not.
LEMMA GiveUpEnds ==
    ASSUME Types, EndInv, NEW w \in Worker, ~At(w, "idle"), GiveUp(w), UNCHANGED <<hist, dead>>
    PROVE  EndInv'
<1>1. job'[w] = Idle /\ \A v \in Worker \ {w} : job'[v] = job[v]
  BY Update DEF GiveUp
<1>2. cad'.status = cad.status /\ (FollowsUp(job[w]) \/ cad'.marker = cad.marker)
  BY DEF GiveUp, ReleasedCad, Unmarked, Types, Cadence, FollowsUp, At
<1>3. QED BY <1>1, <1>2, EndsKeeps DEF Ends

LEMMA PassedEnds ==
    ASSUME Types, EndInv, NEW w \in Worker, FollowsUp(job[w]), NEW k, cad' = Passed(k) \/ cad' = PassedOver(k),
           job' = [job EXCEPT ![w] = Idle], UNCHANGED <<hist, dead>>
    PROVE  EndInv'
<1>1. job'[w] = Idle /\ \A v \in Worker \ {w} : job'[v] = job[v]
  BY Update
<1>2. cad'.status \in {cad.status, "breakup", "completed"}
  BY DEF Passed, PassedOver, Unmarked, Types, Cadence
<1>3. QED BY <1>1, <1>2, EndsKeeps DEF Ends

LEMMA GateEnds == ASSUME Types, EndInv, NEW w \in Worker, Gate(w) PROVE EndInv'
<1>1. UNCHANGED <<cad, hist, dead>> /\ job[w].kind \in Intro
  BY DEF Gate
<1>2. CASE 0 \in events
  <2>1. job'[w] = Idle /\ \A v \in Worker \ {w} : job'[v] = job[v]
    BY <1>2, Update DEF Gate
  <2>2. QED BY <1>1, <2>1, EndsKeeps DEF Ends
<1>3. CASE 0 \notin events
  BY <1>1, <1>3, GoesUpdate, ProceedsKeeps DEF Gate, Proceeds
<1>4. QED BY <1>2, <1>3

\* The status is read once, here: a follow-up that goes on found it active.
LEMMA BeginEnds == ASSUME CampaignAssumption, Types, EndInv, NEW w \in Worker, Begin(w) PROVE EndInv'
<1> DEFINE k == cad.step + 1
<1>1. UNCHANGED <<hist, dead>> /\ ~At(w, "idle") /\ FollowsUp(job[w])
  BY DEF Begin, At, FollowsUp
<1>2. CASE ~StatusActive
  BY <1>1, <1>2, GiveUpEnds DEF Begin
<1>3. CASE StatusActive /\ (dead \/ k > Last)
  <2>1. job' = [job EXCEPT ![w] = Idle]
        /\ \/ cad' = [Unmarked(cad) EXCEPT !.status = "bounced"]
           \/ cad' = [Unmarked(cad) EXCEPT !.status = "completed"]
    <3>1. CASE dead
      BY <1>3, <3>1 DEF Begin
    <3>2. CASE ~dead /\ k > Last
      <4>1. k \notin events
        BY <3>2 DEF CampaignAssumption, Types, Cadence, Step
      <4>2. QED BY <1>3, <3>2, <4>1 DEF Begin
    <3>3. QED BY <1>3, <3>1, <3>2
  <2>2. job'[w] = Idle /\ \A v \in Worker \ {w} : job'[v] = job[v]
    BY <2>1, Update
  <2>3. cad'.status \in {"bounced", "completed"}
    BY <2>1 DEF Unmarked, Types, Cadence
  <2>4. QED BY <1>1, <2>2, <2>3, EndsKeeps DEF Ends
<1>4. CASE job' = [job EXCEPT ![w] = Idle] /\ (cad' = Passed(k) \/ cad' = PassedOver(k))
  BY <1>1, <1>4, PassedEnds
<1>5. CASE /\ StatusActive /\ ~dead /\ cad' = cad
           /\ job' = [job EXCEPT ![w] = [@ EXCEPT !.at = "gated", !.step = k, !.late = Late]]
  <2> DEFINE o == [job[w] EXCEPT !.at = "gated", !.step = k, !.late = Late]
  <2>1. job' = [job EXCEPT ![w] = o] /\ cad' = cad
    BY <1>5
  <2>2. o.kind = job[w].kind /\ o.at = "gated" /\ o.late = Late
    BY DEF Types, Job
  <2>3. job'[w] = o /\ \A v \in Worker \ {w} : job'[v] = job[v]
    BY <2>1, Update
  <2> HIDE DEF o
  <2>4. "closed" \in Late => "twice" \in hist
    BY <1>5 DEF Late, EndInv, Closed, StatusActive
  <2>5. Closed' /\ EndIsFinal'
    BY <1>1, <2>1, <2>2, <2>3, <2>4 DEF EndInv, Closed, EndIsFinal
  <2>6. HoldsMarker'
    BY <1>1, <2>1, <2>2, <2>3 DEF EndInv, HoldsMarker, Broken, FollowsUp
  <2>7. StopIsFinal'
    BY <1>5, <2>1 DEF StatusActive, StopIsFinal
  <2>8. QED BY <2>5, <2>6, <2>7 DEF EndInv
<1>6. QED BY <1>2, <1>3, <1>4, <1>5 DEF Begin

\* A worker that goes on has its marker, or another kind of claim.
LEMMA GoesOnEnds ==
    ASSUME Types, EndInv, NEW w \in Worker, NEW at, Goes(w, at), ~At(w, "idle"), ~At(w, "taken"),
           UNCHANGED <<cad, hist, dead>>
    PROVE  EndInv'
  BY GoesUpdate, ProceedsKeeps DEF Proceeds, At

LEMMA SendEnds ==
    ASSUME Types, EndInv, NEW w \in Worker, Hand(w) \/ SendOk(w) \/ SendFails(w) \/ Record(w)
    PROVE  EndInv'
<1>1. ~At(w, "idle") /\ ~At(w, "taken") /\ UNCHANGED <<hist, dead>>
  BY DEF Hand, SendOk, SendFails, Record, At
<1>2. CASE GiveUp(w)
  BY <1>1, <1>2, GiveUpEnds
<1>3. CASE \E at \in {"sending", "accepted", "recorded"} : Goes(w, at) /\ UNCHANGED cad
  BY <1>1, <1>3, GoesOnEnds
<1>4. QED BY <1>2, <1>3 DEF Hand, SendOk, SendFails, Record

LEMMA EnrollEnds == ASSUME Types, EndInv, NEW w \in Worker, Enroll(w) PROVE EndInv'
<1>1. job[w].kind \in Intro /\ UNCHANGED dead /\ Goes(w, "enrolled")
  BY DEF Enroll
<1>2. cad'.marker = cad.marker /\ ((cad.status = "stopped" /\ cad' = cad) \/ cad'.status = "active")
  BY DEF Enroll, Types, Cadence
<1>3. \/ cad.status = None /\ cad'.status = "active" /\ UNCHANGED hist
      \/ cad.status # None /\ hist' = hist \cup {"twice"}
  BY <1>2 DEF Enroll, None
<1>4. QED BY <1>1, <1>2, <1>3, GoesUpdate, ProceedsKeeps DEF Proceeds

LEMMA DoneEnds ==
    ASSUME Types, EndInv, NEW w \in Worker,
           FinishRow(w) \/ Advance(w) \/ Unwritten(w) \/ Die(w)
    PROVE  EndInv'
<1>1. CASE FinishRow(w) \/ Die(w)
  <2>1. job'[w] = Idle /\ \A v \in Worker \ {w} : job'[v] = job[v]
    BY <1>1, Update DEF FinishRow, Die
  <2>2. QED BY <1>1, <2>1, EndsKeeps DEF Ends, FinishRow, Die
<1>2. CASE Advance(w) \/ Unwritten(w)
  BY <1>2, PassedEnds DEF Advance, Unwritten, FollowsUp, At
<1>3. QED BY <1>1, <1>2

\* Nobody follows up while the marker is free, or held by somebody idle.
LEMMA NobodyFollows ==
    ASSUME CampaignAssumption, HoldsMarker, ~Broken,
           cad.marker = None \/ ~Live(cad.marker)
    PROVE  \A w \in Worker : ~FollowsUp(job[w])
  BY DEF CampaignAssumption, HoldsMarker, Live, At, FollowsUp

\* A step that does not touch the jobs, and ends the cadence or leaves it.
LEMMA BetweenEnds ==
    ASSUME CampaignAssumption, Types, EndInv,
           Lapse \/ GrowOld \/ Answer \/ Poll \/ Stop \/ Suppress
    PROVE  EndInv'
<1> USE DEF EndInv
<1>1. UNCHANGED job
  BY DEF Lapse, GrowOld, Answer, Poll, Stop, Suppress
<1>2. CASE Lapse \/ Answer
  BY <1>2 DEF Lapse, Answer, Closed, EndIsFinal, HoldsMarker, Broken, StopIsFinal
<1>3. CASE GrowOld
  <2>1. cad'.status = cad.status /\ cad'.marker = cad.marker /\ UNCHANGED <<job, hist, dead>>
    BY <1>3 DEF GrowOld, Types, Cadence
  <2>2. QED BY <2>1 DEF Closed, EndIsFinal, HoldsMarker, Broken, StopIsFinal
<1>4. CASE Poll
  <2>1. /\ cad'.marker = cad.marker /\ UNCHANGED dead
        /\ \/ UNCHANGED <<cad, hist>>
           \/ cad'.status = "replied" /\ hist' = hist \cup {"closed"}
    BY <1>4 DEF Poll, Types, Cadence
  <2>2. QED BY <1>1, <2>1 DEF Closed, EndIsFinal, HoldsMarker, Broken, StopIsFinal, None
<1>5. CASE Stop
  <2>1. cad.marker = None /\ cad'.status = "stopped" /\ hist' = hist \cup {"closed"}
    BY <1>5 DEF Stop, Stoppable, Unmarked, Types, Cadence
  <2>2. ~Broken => \A w \in Worker : ~FollowsUp(job[w])
    BY <2>1, NobodyFollows
  <2>3. QED
    BY <1>1, <2>1, <2>2 DEF Closed, EndIsFinal, HoldsMarker, Broken, StopIsFinal, None, FollowsUp
<1>6. CASE Suppress
  <2>1. /\ dead' = TRUE /\ (cad' = cad \/ cad'.status = "bounced")
        /\ hist \subseteq hist'
        /\ cad.marker = None \/ ~Live(cad.marker) \/ "cleared" \in hist'
    BY <1>6 DEF Suppress, Unmarked, Types, Cadence
  <2>2. ~Broken' => ~Broken /\ "cleared" \notin hist'
    BY <2>1 DEF Broken
  <2>3. ~Broken' => \A w \in Worker : ~FollowsUp(job[w])
    BY <2>1, <2>2, NobodyFollows
  <2>4. QED BY <1>1, <2>1, <2>3 DEF Closed, EndIsFinal, HoldsMarker, Broken, StopIsFinal, FollowsUp
<1>7. QED BY <1>2, <1>3, <1>4, <1>5, <1>6

\* The boot takes the marker from a runner that goes on, and says so.
LEMMA BootEnds == ASSUME CampaignAssumption, Types, EndInv, Boot PROVE EndInv'
<1>1. /\ cad'.status = cad.status /\ UNCHANGED dead /\ hist \subseteq hist'
      /\ hist' \subseteq hist \cup {"boot"}
      /\ cad.marker \in Cli /\ Live(cad.marker) => "boot" \in hist'
  BY DEF Boot, Unmarked, Types, Cadence
<1>2. \A v \in Worker : job'[v] = Idle \/ (v \in Cli /\ job'[v] = job[v])
  BY DEF Boot
<1>3. Closed' /\ EndIsFinal'
  BY <1>1, <1>2 DEF EndInv, Closed, EndIsFinal, Idle
<1>4. HoldsMarker'
  <2>1. SUFFICES ASSUME ~Broken', NEW v \in Worker, FollowsUp(job'[v]) PROVE FALSE
    BY DEF HoldsMarker
  <2>2. v \in Cli /\ FollowsUp(job[v])
    BY <1>2, <2>1 DEF FollowsUp, Idle
  <2>3. ~Broken /\ "boot" \notin hist'
    BY <1>1, <2>1 DEF Broken
  <2>4. cad.marker = v /\ Live(v)
    BY <2>2, <2>3 DEF EndInv, HoldsMarker, Live, At, FollowsUp
  <2>5. QED BY <1>1, <2>2, <2>3, <2>4
<1>5. StopIsFinal'
  BY <1>1, <1>2 DEF EndInv, StopIsFinal, Idle
<1>6. QED BY <1>3, <1>4, <1>5 DEF EndInv

LEMMA InitEnds == ASSUME Init PROVE EndInv
  BY DEF Init, EndInv, Closed, EndIsFinal, HoldsMarker, FollowsUp, StopIsFinal, Idle, None

LEMMA StepKeepsEnd == ASSUME CampaignAssumption, Inv, EndInv, [Next]_vars PROVE EndInv'
<1>1. Types
  BY DEF Inv
<1>2. ASSUME NEW w \in Worker,
             \/ Dequeue(w) \/ ClaimRow(w) \/ Gate(w) \/ RunStep(w) \/ ClickStep(w) \/ Begin(w)
             \/ Unwritten(w) \/ Hand(w) \/ SendOk(w) \/ SendFails(w) \/ Record(w) \/ Enroll(w)
             \/ FinishRow(w) \/ Advance(w) \/ Die(w)
      PROVE  EndInv'
  BY <1>1, <1>2, ClaimEnds, GateEnds, BeginEnds, SendEnds, EnrollEnds, DoneEnds
<1>3. ASSUME UNCHANGED <<cad, job, hist, dead>> PROVE EndInv'
  BY <1>3 DEF EndInv, Closed, EndIsFinal, HoldsMarker, Broken, StopIsFinal
<1>4. ASSUME NEW k \in Step, Arrive(k) \/ Settle(k) PROVE EndInv'
  BY <1>3, <1>4 DEF Arrive, Settle
<1>5. CASE UNCHANGED vars
  BY <1>3, <1>5 DEF vars
<1>6. QED BY <1>1, <1>2, <1>4, <1>5, BetweenEnds, BootEnds DEF Next

LEMMA EndInvariance == ASSUME CampaignAssumption PROVE Spec => []EndInv
<1>1. Init => EndInv
  BY InitEnds
<1>2. Inv /\ EndInv /\ [Next]_vars => EndInv'
  BY StepKeepsEnd
<1>3. QED BY <1>1, <1>2, Invariance, PTL DEF Spec

\* A follow-up is not begun after a recorded reply, a stop or a bounce ended
\* the cadence (runCadenceStepForProspect's one look at the status), unless a
\* second sender of the intro enrolled the person anew.
THEOREM EndIsKept == ASSUME CampaignAssumption PROVE Spec => []EndIsFinal
<1>1. EndInv => EndIsFinal
  BY DEF EndInv
<1>2. QED BY <1>1, EndInvariance, PTL

\* Once stopCadence went through no follow-up is on its way out, unless its
\* marker had been taken from it: by a boot, a late click or a bounce.
THEOREM StopIsKept == ASSUME CampaignAssumption PROVE Spec => []StopIsFinal
<1>1. EndInv => StopIsFinal
  BY DEF EndInv
<1>2. QED BY <1>1, EndInvariance, PTL

-----------------------------------------------------------------------------
(* The decisions on the ICP.  While no live owner lost its lock, whoever   *)
(* is under it is alone, so what a decision found there holds until it     *)
(* writes: no other intent, and the ICP its own intent is about.  What it  *)
(* wrote is recorded, or the file still has it and its intent says so.     *)

\* Under the lock, from its acquisition to its release.
Inside(a) == task[a].at \in {"locked", "clear", "noted", "written", "done"}
OneOwner == \A a \in Process : Inside(a) => lock = a

Known(p) == p \in Icp!Proposal /\ proposal[p].status # Icp!None

\* Decisions and intents are on proposals, and a decision is to write what they say.
OnProposals ==
    /\ \A a \in Process :
          /\ task[a].op \in {"approve", "rollback", "dismiss"} => Known(task[a].id)
          /\ task[a].op = "approve" => task[a].value = proposal[task[a].id].proposed
          /\ task[a].op = "rollback" => task[a].value = proposal[task[a].id].current
    /\ \A p \in Icp!Proposal : intent[p].action # Icp!None => Known(p)
    /\ writer # 0 => Known(writer)

Baseline(op, p) == IF op = "approve" THEN proposal[p].current ELSE proposal[p].proposed

\* A decision that has found no intent is not disturbed, and its own is the only one.
Clear ==
    /\ \A a \in Process :
          task[a].at = "clear" => \A p \in Icp!Proposal : intent[p].action = Icp!None
    /\ \A p, q \in Icp!Proposal :
          intent[p].action # Icp!None /\ intent[q].action # Icp!None => p = q

\* What a decision is about to replace is what it was made about.
Noted ==
    \A a \in Process : task[a].at = "noted" =>
        /\ task[a].op \in {"approve", "rollback"}
        /\ intent[task[a].id].action = task[a].op
        /\ icp = Baseline(task[a].op, task[a].id)

\* What a decision wrote is recorded, or it is the value its intent is to write.
OnRecord ==
    writer # 0 => \/ proposal[writer].status \in {"approved", "rolled_back"}
                  \/ intent[writer].action # Icp!None /\ icp = Icp!Desired(writer)

Locked == OneOwner /\ Clear /\ Noted /\ OnRecord
IcpInv == Icp!TypeOK /\ OnProposals /\ (~stolen => Locked)

Place == {Icp!None, "waiting", "breaking", "locked", "clear", "noted", "written", "done"}
Task == [op : {Icp!None, "approve", "rollback", "dismiss", "look", "save"},
        at : Place, id : 0 .. MaxProposals, value : Text]
Row == [status : {Icp!None, "pending", "approved", "dismissed", "stale", "rolled_back"},
        current : Text, proposed : Text, at : Nat]
Intent == [action : {Icp!None, "approve", "rollback"}, previous : Text]

\* What rests, what is not there and what one process does keep the types.
LEMMA RestIsTyped == Icp!Idle \in Task /\ Icp!NoRow \in Row /\ Icp!NoIntent \in Intent
  BY IcpAssumption DEF Icp!IcpAssumption, Icp!Idle, Icp!NoRow, Icp!NoIntent, Task, Row, Intent,
                       Place, Icp!None

LEMMA TypesOfTasks == Icp!TypeOK => task \in [Process -> Task]
  BY DEF Icp!TypeOK, Task, Place

LEMMA GoesIsTyped ==
  ASSUME Icp!TypeOK, NEW a \in Process, NEW at \in Place, Icp!Goes(a, at)
  PROVE  /\ task' \in [Process -> Task]
         /\ task'[a].at = at
         /\ task'[a].op = task[a].op /\ task'[a].id = task[a].id /\ task'[a].value = task[a].value
         /\ \A b \in Process \ {a} : task'[b] = task[b]
  <1>1. task \in [Process -> Task]
    BY TypesOfTasks
  <1>2. PICK mine \in Task : mine = task[a]
    BY <1>1
  <1>3. [mine EXCEPT !.at = at] \in Task
    BY <1>2 DEF Task
  <1>4. task' = [task EXCEPT ![a] = [mine EXCEPT !.at = at]]
    BY <1>2 DEF Icp!Goes
  <1>5. task'[a] = [mine EXCEPT !.at = at]
    BY <1>1, <1>4
  <1>6. /\ task'[a].at = at /\ task'[a].op = mine.op /\ task'[a].id = mine.id
        /\ task'[a].value = mine.value
    BY <1>5 DEF Task
  <1> QED BY <1>1, <1>2, <1>3, <1>4, <1>6

LEMMA StartsIsTyped ==
  ASSUME Icp!TypeOK, NEW a \in Process, NEW mine \in Task, task' = [task EXCEPT ![a] = mine]
  PROVE  /\ task' \in [Process -> Task] /\ task'[a] = mine
         /\ \A b \in Process \ {a} : task'[b] = task[b]
  BY TypesOfTasks

\* At first nobody decides and nothing is proposed.
LEMMA IcpInit == Icp!Init => IcpInv
  <1> SUFFICES ASSUME Icp!Init PROVE IcpInv
    OBVIOUS
  <1>1. Icp!TypeOK
    <2>1. /\ proposal \in [Icp!Proposal -> Row] /\ intent \in [Icp!Proposal -> Intent]
          /\ task \in [Process -> Task]
      BY RestIsTyped DEF Icp!Init
    <2>2. 0 \in 0 .. MaxDeaths /\ 0 \in 0 .. MaxProposals /\ First \in Text
      BY IcpAssumption DEF Icp!IcpAssumption
    <2>3. copy \in [Process -> Text \cup {Icp!None}] /\ draft \in Text \cup {Icp!None}
      BY DEF Icp!Init
    <2> QED BY <2>1, <2>2, <2>3 DEF Icp!Init, Icp!TypeOK, Row, Intent, Task, Place
  <1>2. OnProposals /\ Locked
    BY DEF Icp!Init, OnProposals, Locked, OneOwner, Inside, Clear, Noted, OnRecord, Icp!NoIntent,
           Icp!Idle, Icp!None
  <1> QED BY <1>1, <1>2 DEF IcpInv

\* Outside the lock nothing changes but what a process is about to do.
LEMMA OutsideKeeps ==
  ASSUME IcpInv, Icp!TypeOK', UNCHANGED <<icp, proposal, intent, lock, writer, stolen>>,
         \A a \in Process :
            \/ task'[a] = task[a]
            \/ /\ ~Inside(a)'
               /\ task'[a].op \in {"approve", "rollback", "dismiss"} => Known(task'[a].id)
               /\ task'[a].op = "approve" => task'[a].value = proposal[task'[a].id].proposed
               /\ task'[a].op = "rollback" => task'[a].value = proposal[task'[a].id].current
  PROVE  IcpInv'
  <1>1. OnProposals'
    BY DEF IcpInv, OnProposals, Known
  <1>2. Locked => Locked'
    BY DEF Locked, OneOwner, Inside, Clear, Noted, Baseline, OnRecord, Icp!Desired
  <1> QED BY <1>1, <1>2 DEF IcpInv

LEMMA DecideKeeps ==
  ASSUME IcpInv, NEW a \in Decider, NEW p \in Icp!Proposal,
         NEW op \in {"approve", "dismiss", "rollback"},
         Icp!Decide(a, op, p)
  PROVE  IcpInv'
  <1> DEFINE new == [op |-> op, at |-> "waiting", id |-> p,
                     value |-> IF op = "approve" THEN proposal[p].proposed
                               ELSE proposal[p].current]
  <1>1. a \in Process /\ Icp!TypeOK /\ task' = [task EXCEPT ![a] = new]
    BY IcpAssumption DEF Icp!IcpAssumption, IcpInv, Icp!Decide, Icp!Starts
  <1>2. Icp!TypeOK'
    BY <1>1 DEF Icp!TypeOK, Icp!Decide, Icp!Proposal
  <1>3. \A b \in Process : task'[b] = IF b = a THEN new ELSE task[b]
    BY <1>1 DEF Icp!TypeOK
  <1> QED BY <1>2, <1>3, OutsideKeeps DEF Icp!Decide, Inside, Known

LEMMA OthersKeep ==
  ASSUME IcpInv, NEW a \in Process,
         \/ Icp!Evaluate \/ Icp!Load(a) \/ (\E value \in Text : Icp!Save(a, value)) \/ Icp!Look(a)
         \/ Icp!SeesDead(a) \/ Icp!GiveUp(a)
  PROVE  IcpInv'
  <1>1. Icp!TypeOK
    BY DEF IcpInv
  <1>2. CASE Icp!Evaluate \/ Icp!Load(a)
    <2>1. Icp!TypeOK'
      BY <1>1, <1>2 DEF Icp!Evaluate, Icp!Load, Icp!TypeOK
    <2> QED BY <1>2, <2>1, OutsideKeeps DEF Icp!Evaluate, Icp!Load
  <1>3. CASE (\E value \in Text : Icp!Save(a, value)) \/ Icp!Look(a) \/ Icp!GiveUp(a)
    <2>1. PICK mine \in Task : /\ task' = [task EXCEPT ![a] = mine]
                               /\ mine.op \in {Icp!None, "look", "save"}
                               /\ mine.at \in {Icp!None, "waiting"}
      <3>1. CASE Icp!GiveUp(a)
        BY <3>1, RestIsTyped DEF Icp!GiveUp, Icp!Idle
      <3>2. CASE Icp!Look(a)
        <4>1. [Icp!Idle EXCEPT !.op = "look", !.at = "waiting"] \in Task
          BY RestIsTyped DEF Icp!Idle, Task, Place
        <4> QED BY <4>1, <3>2 DEF Icp!Look, Icp!Starts, Icp!Idle
      <3>3. ASSUME NEW value \in Text, Icp!Save(a, value)
            PROVE  \E mine \in Task : /\ task' = [task EXCEPT ![a] = mine]
                                      /\ mine.op \in {Icp!None, "look", "save"}
                                      /\ mine.at \in {Icp!None, "waiting"}
        <4>1. [Icp!Idle EXCEPT !.op = "save", !.at = "waiting", !.value = value] \in Task
          BY RestIsTyped DEF Icp!Idle, Task, Place
        <4> QED BY <4>1, <3>3 DEF Icp!Save, Icp!Starts, Icp!Idle
      <3> QED BY <1>3, <3>1, <3>2, <3>3
    <2>2. /\ task' \in [Process -> Task] /\ task'[a] = mine
          /\ \A b \in Process \ {a} : task'[b] = task[b]
      BY <1>1, <2>1, StartsIsTyped
    <2>3. Icp!TypeOK' /\ UNCHANGED <<icp, proposal, intent, lock, writer, stolen>>
      BY <1>1, <1>3, <2>2 DEF Icp!Save, Icp!Look, Icp!GiveUp, Icp!TypeOK, Task, Place
    <2> QED BY <2>1, <2>2, <2>3, OutsideKeeps DEF Inside, Icp!None
  <1>4. CASE Icp!SeesDead(a)
    <2>1. /\ task' \in [Process -> Task]
          /\ task'[a].at = "breaking"
          /\ task'[a].op = task[a].op /\ task'[a].id = task[a].id /\ task'[a].value = task[a].value
          /\ \A b \in Process \ {a} : task'[b] = task[b]
      BY <1>1, <1>4, GoesIsTyped DEF Icp!SeesDead, Place
    <2>2. Icp!TypeOK' /\ UNCHANGED <<icp, proposal, intent, lock, writer, stolen>>
      BY <1>1, <1>4, <2>1 DEF Icp!SeesDead, Icp!TypeOK, Task, Place
    <2> QED BY <2>1, <2>2, OutsideKeeps DEF Inside, IcpInv, OnProposals
  <1> QED BY <1>2, <1>3, <1>4

LEMMA ProposeKeeps ==
  ASSUME IcpInv, NEW p \in Icp!Proposal, NEW text \in Text, Icp!Propose(p, text)
  PROVE  IcpInv'
  <1>1. Icp!TypeOK
    BY DEF IcpInv
  <1>2. proposal[p].status = Icp!None
    BY DEF Icp!Propose, Icp!Proposal
  <1>3. PICK new \in Row : new.status = "pending" /\ proposal' = [proposal EXCEPT ![p] = new]
    <2>1. [Icp!NoRow EXCEPT !.status = "pending", !.current = draft, !.proposed = text] \in Row
      BY <1>1, RestIsTyped DEF Icp!Propose, Icp!TypeOK, Row, Icp!NoRow
    <2> QED BY <2>1 DEF Icp!Propose, Icp!NoRow
  <1>4. /\ proposal' \in [Icp!Proposal -> Row]
        /\ \A q \in Icp!Proposal : proposal'[q] = IF q = p THEN new ELSE proposal[q]
    BY <1>1, <1>3 DEF Icp!TypeOK, Row
  <1>5. Icp!TypeOK'
    BY <1>1, <1>4 DEF Icp!Propose, Icp!TypeOK, Row
  <1>6. UNCHANGED <<icp, intent, lock, task, writer, stolen>>
    BY DEF Icp!Propose
  <1>7. \A q \in Icp!Proposal : Known(q) => proposal'[q] = proposal[q]
    BY <1>2, <1>4 DEF Known
  <1>8. OnProposals'
    BY <1>3, <1>6, <1>7 DEF IcpInv, OnProposals, Known
  <1>9. Locked => Locked'
    <2>1. \A a \in Process : task[a].op \in {"approve", "rollback"} => Known(task[a].id)
      BY DEF IcpInv, OnProposals
    <2>2. writer # 0 => Known(writer)
      BY DEF IcpInv, OnProposals
    <2> QED
      BY <1>6, <1>7, <2>1, <2>2
      DEF Locked, OneOwner, Inside, Clear, Noted, Baseline, OnRecord, Icp!Desired, Known
  <1> QED BY <1>5, <1>6, <1>8, <1>9 DEF IcpInv

-----------------------------------------------------------------------------
(* The lock and what is done under it.                                     *)

LEMMA LockKeeps ==
  ASSUME IcpInv, NEW a \in Process, Icp!Acquire(a) \/ Icp!Break(a) \/ Icp!Release(a) \/ Icp!Die(a)
  PROVE  IcpInv'
  <1>1. Icp!TypeOK
    BY DEF IcpInv
  <1>2. UNCHANGED <<icp, proposal, intent, writer>>
    BY DEF Icp!Acquire, Icp!Break, Icp!Release, Icp!Die
  <1>3. /\ task' \in [Process -> Task]
        /\ \A b \in Process \ {a} : task'[b] = task[b]
        /\ \/ task'[a] = Icp!Idle
           \/ /\ task'[a].op = task[a].op /\ task'[a].id = task[a].id
              /\ task'[a].value = task[a].value
              /\ \/ Icp!Acquire(a) /\ task'[a].at = "locked"
                 \/ Icp!Break(a) /\ task'[a].at = "waiting"
    <2>1. CASE Icp!Acquire(a)
      BY <1>1, <2>1, GoesIsTyped DEF Icp!Acquire, Place
    <2>2. CASE Icp!Break(a)
      BY <1>1, <2>2, GoesIsTyped DEF Icp!Break, Place
    <2>3. CASE Icp!Release(a) \/ Icp!Die(a)
      BY <1>1, <2>3, RestIsTyped, StartsIsTyped DEF Icp!Release, Icp!Die
    <2> QED BY <2>1, <2>2, <2>3
  <1>4. Icp!TypeOK'
    <2>1. /\ lock' \in Process \cup {Icp!None, "dead"} /\ stolen' \in BOOLEAN
          /\ deaths' \in 0 .. MaxDeaths
      <3>1. lock' \in Process \cup {Icp!None, "dead"}
        BY <1>1 DEF Icp!Acquire, Icp!Break, Icp!Release, Icp!Die, Icp!TypeOK
      <3>2. stolen' \in BOOLEAN
        BY <1>1 DEF Icp!Acquire, Icp!Break, Icp!Release, Icp!Die, Icp!TypeOK
      <3>3. deaths' \in 0 .. MaxDeaths
        BY <1>1, IcpAssumption DEF Icp!IcpAssumption, Icp!Acquire, Icp!Break, Icp!Release,
                                   Icp!Die, Icp!TypeOK
      <3> QED BY <3>1, <3>2, <3>3
    <2>2. clock' = clock /\ draft' = draft /\ copy' \in [Process -> Text \cup {Icp!None}]
      BY <1>1 DEF Icp!Acquire, Icp!Break, Icp!Release, Icp!Die, Icp!TypeOK
    <2> QED BY <1>1, <1>2, <1>3, <2>1, <2>2 DEF Icp!TypeOK, Task, Place
  <1>5. OnProposals'
    BY <1>2, <1>3 DEF IcpInv, OnProposals, Known, Icp!Idle, Icp!None
  <1>6. ASSUME ~stolen' PROVE Locked'
    <2>1. ~stolen /\ Locked
      BY <1>1, <1>6 DEF IcpInv, Icp!TypeOK, Icp!Acquire, Icp!Break, Icp!Release, Icp!Die
    <2>2. OneOwner'
      <3>1. ASSUME NEW b \in Process, Inside(b)' PROVE lock' = b
        <4>1. CASE Icp!Acquire(a)
          <5>1. lock = Icp!None /\ lock' = a /\ Icp!None \notin Process
            BY <4>1, IcpAssumption DEF Icp!IcpAssumption, Icp!Acquire, Icp!None
          <5>2. b # a => Inside(b)
            BY <1>3, <3>1 DEF Inside
          <5> QED BY <2>1, <5>1, <5>2 DEF Locked, OneOwner
        <4>2. CASE Icp!Break(a)
          <5>1. lock \notin Process
            BY <1>1, <1>6, <4>2 DEF Icp!Break, Icp!TypeOK
          <5>2. task'[a].at = "waiting"
            BY <1>1, <4>2, GoesIsTyped DEF Icp!Break, Place
          <5>3. b # a /\ Inside(b)
            BY <1>3, <3>1, <5>2 DEF Inside
          <5> QED BY <2>1, <5>1, <5>3 DEF Locked, OneOwner
        <4>3. CASE Icp!Release(a)
          BY <1>3, <2>1, <3>1, <4>3 DEF Icp!Release, Locked, OneOwner, Inside, Icp!Acquire,
                                        Icp!Break, Icp!Idle, Icp!None
        <4>4. CASE Icp!Die(a)
          <5>1. task' = [task EXCEPT ![a] = Icp!Idle]
            BY <4>4 DEF Icp!Die
          <5>2. task'[a] = Icp!Idle
            BY <1>1, <5>1, RestIsTyped, StartsIsTyped
          <5> QED
            BY <1>3, <2>1, <3>1, <4>4, <5>2 DEF Icp!Die, Locked, OneOwner, Inside, Icp!Idle,
                                                Icp!None
        <4> QED BY <4>1, <4>2, <4>3, <4>4
      <3> QED BY <3>1 DEF OneOwner
    <2>3. \A b \in Process : task'[b].at \in {"clear", "noted"} => task'[b] = task[b]
      BY <1>3 DEF Icp!Idle, Icp!None
    <2>4. Clear' /\ Noted' /\ OnRecord'
      BY <1>2, <2>1, <2>3 DEF Locked, Clear, Noted, Baseline, OnRecord, Icp!Desired
    <2> QED BY <2>2, <2>4 DEF Locked
  <1> QED BY <1>4, <1>5, <1>6 DEF IcpInv

\* Whoever works under the lock is alone: the others are at no step of it.
LEMMA Alone ==
  ASSUME OneOwner, NEW a \in Process, Inside(a), \A b \in Process \ {a} : task'[b] = task[b]
  PROVE  \A b \in Process \ {a} : ~Inside(b) /\ ~Inside(b)'
  BY DEF OneOwner, Inside

Decided == {"approved", "rolled_back"}

\* Proposals keep their texts, stay what they are and stay decided.
RowsKept ==
    \A q \in Icp!Proposal :
        /\ proposal'[q].current = proposal[q].current
        /\ proposal'[q].proposed = proposal[q].proposed
        /\ proposal'[q].status # Icp!None <=> proposal[q].status # Icp!None
        /\ proposal[q].status \in Decided => proposal'[q].status \in Decided

\* The task goes to another step under the lock, or stays.
Works(a) ==
    /\ \A b \in Process \ {a} : task'[b] = task[b]
    /\ task'[a].op = task[a].op /\ task'[a].id = task[a].id /\ task'[a].value = task[a].value
    /\ Inside(a) /\ Inside(a)'

LEMMA InsideKeeps ==
  ASSUME IcpInv, Icp!TypeOK', NEW a \in Process, Works(a), UNCHANGED <<lock, stolen>>, RowsKept,
         \A p \in Icp!Proposal : intent'[p].action # Icp!None => Known(p),
         writer' # 0 => Known(writer'),
         ~stolen /\ Locked =>
            /\ task'[a].at = "clear" => \A p \in Icp!Proposal : intent'[p].action = Icp!None
            /\ \A p, q \in Icp!Proposal :
                  intent'[p].action # Icp!None /\ intent'[q].action # Icp!None => p = q
            /\ task'[a].at = "noted" =>
                  /\ task[a].op \in {"approve", "rollback"}
                  /\ intent'[task[a].id].action = task[a].op
                  /\ icp' = Baseline(task[a].op, task[a].id)
            /\ OnRecord'
  PROVE  IcpInv'
  <1>1. OnProposals'
    BY DEF IcpInv, OnProposals, Known, Works, RowsKept
  <1>2. ASSUME ~stolen PROVE Locked'
    <2>1. Locked
      BY <1>2 DEF IcpInv
    <2>2. \A b \in Process \ {a} : ~Inside(b) /\ ~Inside(b)'
      BY <2>1, Alone DEF Locked, Works
    <2>3. OneOwner'
      BY <2>1, <2>2 DEF Locked, OneOwner, Works
    <2>4. Clear'
      BY <1>2, <2>1, <2>2 DEF Inside, Clear
    <2>5. task'[a].at = "noted" => Known(task[a].id)
      BY <1>2, <2>1 DEF IcpInv, OnProposals
    <2>6. Noted'
      BY <1>2, <2>1, <2>2, <2>5 DEF Inside, Noted, Baseline, Works, RowsKept, Known
    <2> QED BY <1>2, <2>1, <2>3, <2>4, <2>6 DEF Locked
  <1> QED BY <1>1, <1>2 DEF IcpInv

LEMMA WriteKeeps ==
  ASSUME IcpInv, NEW a \in Process, Icp!Write(a)
  PROVE  IcpInv'
  <1>1. /\ Icp!TypeOK /\ Icp!At(a, {"approve", "rollback"}, "noted")
        /\ UNCHANGED <<proposal, intent, lock, stolen>>
    BY DEF IcpInv, Icp!Write
  <1>2. /\ task' \in [Process -> Task] /\ task'[a].at = "written" /\ Works(a)
    BY <1>1, GoesIsTyped DEF Icp!Write, Place, Icp!At, Works, Inside
  <1>3. Known(task[a].id) /\ task[a].id \in 0 .. MaxProposals /\ task[a].value \in Text
    BY <1>1, IcpAssumption DEF Icp!IcpAssumption, IcpInv, OnProposals, Icp!At, Icp!TypeOK
  <1>4. Icp!TypeOK'
    <2>1. icp' \in Text /\ writer' \in 0 .. MaxProposals
      BY <1>1, <1>3 DEF Icp!Write, Icp!TypeOK
    <2>2. deaths' \in 0 .. MaxDeaths
      BY <1>1, IcpAssumption DEF Icp!IcpAssumption, Icp!Write, Icp!TypeOK
    <2> QED BY <1>1, <1>2, <2>1, <2>2 DEF Icp!Write, Icp!TypeOK, Task, Place
  <1>5. RowsKept
    BY <1>1 DEF RowsKept
  <1>6. /\ \A p \in Icp!Proposal : intent'[p].action # Icp!None => Known(p)
        /\ writer' # 0 => Known(writer')
    BY <1>1, <1>3 DEF Icp!Write, IcpInv, OnProposals
  <1>7. ASSUME ~stolen, Locked PROVE OnRecord'
    <2>1. intent[task[a].id].action = task[a].op
      BY <1>1, <1>7 DEF Icp!At, Locked, Noted
    <2>2. task[a].value = Icp!Desired(task[a].id)
      BY <1>1, <2>1 DEF Icp!At, IcpInv, OnProposals, Icp!Desired
    <2>3. CASE icp' = task[a].value /\ writer' = task[a].id
      BY <1>1, <2>1, <2>2, <2>3 DEF Icp!At, OnRecord, Icp!Desired, Icp!None
    <2>4. CASE UNCHANGED <<icp, writer>>
      BY <1>1, <1>7, <2>4 DEF Locked, OnRecord, Icp!Desired
    <2> QED BY <2>3, <2>4 DEF Icp!Write
  <1> QED
    BY <1>1, <1>2, <1>4, <1>5, <1>6, <1>7, InsideKeeps DEF Locked, Clear

LEMMA StoreKeeps ==
  ASSUME IcpInv, NEW a \in Process, Icp!Store(a)
  PROVE  IcpInv'
  <1>1. Icp!TypeOK /\ Icp!At(a, {"save"}, "locked") /\ UNCHANGED <<proposal, intent, lock, stolen>>
    BY DEF IcpInv, Icp!Store
  <1>2. /\ task' \in [Process -> Task] /\ task'[a].at = "done" /\ Works(a)
    BY <1>1, GoesIsTyped DEF Icp!Store, Place, Icp!At, Works, Inside
  <1>3. icp' \in Text /\ writer' \in {writer, 0} /\ (writer' # 0 => icp' = icp)
    BY <1>1 DEF Icp!Store, Icp!TypeOK
  <1>4. Icp!TypeOK'
    BY <1>1, <1>2, <1>3, IcpAssumption DEF Icp!IcpAssumption, Icp!Store, Icp!TypeOK, Task, Place
  <1>5. RowsKept /\ (Locked => OnRecord')
    BY <1>1, <1>3 DEF RowsKept, Locked, OnRecord, Icp!Desired
  <1>6. /\ \A p \in Icp!Proposal : intent'[p].action # Icp!None => Known(p)
        /\ writer' # 0 => Known(writer')
    BY <1>1, <1>3 DEF IcpInv, OnProposals
  <1> QED
    BY <1>1, <1>2, <1>4, <1>5, <1>6, InsideKeeps DEF Locked, Clear

LEMMA DismissKeeps ==
  ASSUME IcpInv, NEW a \in Process, Icp!Dismiss(a)
  PROVE  IcpInv'
  <1>1. /\ Icp!TypeOK /\ Icp!At(a, {"dismiss"}, "clear")
        /\ UNCHANGED <<icp, intent, clock, lock, copy, draft, writer, stolen, deaths>>
    BY DEF IcpInv, Icp!Dismiss
  <1>2. /\ task' \in [Process -> Task] /\ task'[a].at = "done" /\ Works(a)
    BY <1>1, GoesIsTyped DEF Icp!Dismiss, Place, Icp!At, Works, Inside
  <1> DEFINE p == task[a].id
  <1>3. /\ proposal' \in [Icp!Proposal -> Row]
        /\ \/ proposal' = proposal
           \/ /\ proposal[p].status = "pending"
              /\ \A q \in Icp!Proposal :
                    IF q = p THEN /\ proposal'[q].status = "dismissed"
                                  /\ proposal'[q].current = proposal[q].current
                                  /\ proposal'[q].proposed = proposal[q].proposed
                    ELSE proposal'[q] = proposal[q]
    <2>1. proposal \in [Icp!Proposal -> Row] /\ p \in Icp!Proposal
      BY <1>1 DEF Icp!TypeOK, Row, Icp!At, IcpInv, OnProposals, Known
    <2>2. PICK old \in Row : old = proposal[p]
      BY <2>1
    <2>3. [old EXCEPT !.status = "dismissed"] \in Row
      BY <2>2 DEF Row
    <2>4. \/ proposal' = proposal
          \/ /\ proposal[p].status = "pending"
             /\ proposal' = [proposal EXCEPT ![p] = [old EXCEPT !.status = "dismissed"]]
      BY <2>2 DEF Icp!Dismiss
    <2> QED BY <2>1, <2>2, <2>3, <2>4 DEF Row
  <1>4. Icp!TypeOK'
    BY <1>1, <1>2, <1>3 DEF Icp!TypeOK, Task, Place, Row
  <1>5. RowsKept
    BY <1>3 DEF RowsKept, Decided, Icp!None
  <1>6. /\ \A q \in Icp!Proposal : intent'[q].action # Icp!None => Known(q)
        /\ writer' # 0 => Known(writer')
    BY <1>1 DEF IcpInv, OnProposals
  <1>7. ASSUME Locked PROVE OnRecord'
    <2>1. writer # 0 => proposal[writer].status \in Decided
      BY <1>1, <1>6, <1>7 DEF Locked, OnRecord, Clear, Icp!At, Known, Decided
    <2> QED BY <1>1, <1>5, <1>6, <2>1 DEF OnRecord, RowsKept, Decided, Known
  <1> QED
    BY <1>1, <1>2, <1>4, <1>5, <1>6, <1>7, InsideKeeps DEF Locked, Clear

LEMMA NoteKeeps ==
  ASSUME IcpInv, NEW a \in Process, Icp!Note(a)
  PROVE  IcpInv'
  <1>1. /\ Icp!TypeOK /\ Icp!At(a, {"approve", "rollback"}, "clear")
        /\ UNCHANGED <<icp, proposal, clock, lock, copy, draft, writer, stolen, deaths>>
    BY DEF IcpInv, Icp!Note
  <1> DEFINE p == task[a].id
             op == task[a].op
  <1>2. p \in Icp!Proposal /\ Known(p) /\ op \in {"approve", "rollback"}
    BY <1>1 DEF Icp!At, IcpInv, OnProposals, Known
  <1>3. /\ task' \in [Process -> Task] /\ Works(a)
        /\ \/ task'[a].at = "done" /\ intent' = intent
           \/ /\ task'[a].at = "noted" /\ Icp!Passes(op, p)
              /\ intent' = [intent EXCEPT ![p] = [action |-> op, previous |-> icp]]
    <2>1. CASE Icp!Passes(op, p)
      BY <1>1, <2>1, GoesIsTyped DEF Icp!Note, Place, Icp!At, Works, Inside
    <2>2. CASE ~Icp!Passes(op, p)
      BY <1>1, <2>2, GoesIsTyped DEF Icp!Note, Place, Icp!At, Works, Inside
    <2> QED BY <2>1, <2>2
  <1>4. /\ intent' \in [Icp!Proposal -> Intent]
        /\ \A q \in Icp!Proposal : q # p => intent'[q] = intent[q]
        /\ task'[a].at = "noted" => intent'[p].action = op
        /\ task'[a].at # "noted" => intent' = intent
    <2>1. intent \in [Icp!Proposal -> Intent] /\ [action |-> op, previous |-> icp] \in Intent
      BY <1>1, <1>2 DEF Icp!TypeOK, Intent
    <2> QED BY <1>2, <1>3, <2>1
  <1>5. Icp!TypeOK'
    BY <1>1, <1>3, <1>4 DEF Icp!TypeOK, Task, Place, Intent
  <1>6. RowsKept /\ \A q \in Icp!Proposal : intent'[q].action # Icp!None => Known(q)
    BY <1>1, <1>2, <1>4 DEF IcpInv, OnProposals, RowsKept
  <1>7. writer' # 0 => Known(writer')
    BY <1>1 DEF IcpInv, OnProposals
  <1>8. ASSUME Locked
        PROVE  /\ \A q, r \in Icp!Proposal :
                     intent'[q].action # Icp!None /\ intent'[r].action # Icp!None => q = r
               /\ OnRecord'
    <2>1. \A q \in Icp!Proposal : intent[q].action = Icp!None
      BY <1>1, <1>8 DEF Icp!At, Locked, Clear
    <2>2. writer # 0 => proposal[writer].status \in Decided
      BY <1>1, <1>7, <1>8, <2>1 DEF Locked, OnRecord, Known, Decided
    <2> QED BY <1>1, <1>4, <2>1, <2>2 DEF OnRecord, Decided
  <1>9. task'[a].at = "noted" => icp = Baseline(op, p)
    BY <1>2, <1>3 DEF Icp!Passes, Baseline
  <1>10. task'[a].at # "clear"
    BY <1>3
  <1> QED
    BY <1>1, <1>2, <1>3, <1>4, <1>5, <1>6, <1>7, <1>8, <1>9, <1>10, InsideKeeps

\* What finish leaves of the proposals.
LEMMA FinishedRows ==
  ASSUME Icp!TypeOK, NEW p \in Icp!Proposal, intent[p].action # Icp!None,
         proposal[p].status # Icp!None
  PROVE  /\ Icp!Finished(p) \in [Icp!Proposal -> Row] /\ Icp!Finished(p)[p].status \in Decided
         /\ \A q \in Icp!Proposal :
               /\ Icp!Finished(p)[q].current = proposal[q].current
               /\ Icp!Finished(p)[q].proposed = proposal[q].proposed
               /\ Icp!Finished(p)[q].status # Icp!None <=> proposal[q].status # Icp!None
               /\ proposal[q].status \in Decided => Icp!Finished(p)[q].status \in Decided
  <1>1. proposal \in [Icp!Proposal -> Row] /\ clock + 1 \in Nat
    BY DEF Icp!TypeOK, Row
  <1>2. ASSUME NEW q \in Icp!Proposal
        PROVE  /\ Icp!Finished(p)[q] \in Row
               /\ Icp!Finished(p)[q].current = proposal[q].current
               /\ Icp!Finished(p)[q].proposed = proposal[q].proposed
               /\ Icp!Finished(p)[q].status # Icp!None <=> proposal[q].status # Icp!None
               /\ proposal[q].status \in Decided => Icp!Finished(p)[q].status \in Decided
               /\ q = p => Icp!Finished(p)[q].status \in Decided
    <2>1. PICK old \in Row : old = proposal[q]
      BY <1>1
    <2>2. CASE q = p /\ intent[p].action = "approve"
      <3>1. Icp!Finished(p)[q] = [old EXCEPT !.status = "approved", !.at = clock + 1]
        BY <2>1, <2>2 DEF Icp!Finished
      <3> QED BY <1>1, <2>1, <2>2, <3>1 DEF Row, Decided, Icp!None
    <2>3. CASE q = p /\ intent[p].action # "approve"
      <3>1. Icp!Finished(p)[q] = [old EXCEPT !.status = "rolled_back"]
        BY <2>1, <2>3 DEF Icp!Finished
      <3> QED BY <2>1, <2>3, <3>1 DEF Row, Decided, Icp!None
    <2>4. CASE q # p /\ proposal[q].status = "pending"
      <3>1. Icp!Finished(p)[q] = [old EXCEPT !.status = "stale"]
        BY <2>1, <2>4 DEF Icp!Finished
      <3> QED BY <2>1, <2>4, <3>1 DEF Row, Decided, Icp!None
    <2>5. CASE q # p /\ proposal[q].status # "pending"
      BY <2>1, <2>5 DEF Icp!Finished
    <2> QED BY <2>2, <2>3, <2>4, <2>5
  <1>3. Icp!Finished(p) \in [Icp!Proposal -> Row]
    BY <1>2 DEF Icp!Finished
  <1> QED BY <1>2, <1>3

LEMMA RecoverKeeps ==
  ASSUME IcpInv, NEW a \in Process, Icp!Recover(a)
  PROVE  IcpInv'
  <1>1. /\ Icp!TypeOK /\ Inside(a) /\ UNCHANGED <<icp, lock, copy, draft, writer, stolen, deaths>>
        /\ task[a].at \in {"locked", "written"}
    BY DEF IcpInv, Icp!Recover, Icp!At, Inside
  <1>2. writer' # 0 => Known(writer')
    BY <1>1 DEF IcpInv, OnProposals
  <1>3. CASE UNCHANGED <<proposal, intent, clock>>
    <2>1. /\ task' \in [Process -> Task] /\ Works(a)
          /\ task'[a].at # "noted"
      <3>1. CASE task' = task
        BY <1>1, <3>1, TypesOfTasks DEF Works, Inside
      <3>2. CASE Icp!Goes(a, "done")
        BY <1>1, <3>2, GoesIsTyped DEF Place, Works, Inside
      <3>3. CASE Icp!Goes(a, "clear")
        BY <1>1, <3>3, GoesIsTyped DEF Place, Works, Inside
      <3>4. task' = task \/ Icp!Goes(a, "done") \/ Icp!Goes(a, "clear")
        BY DEF Icp!Recover
      <3> QED BY <3>1, <3>2, <3>3, <3>4
    <2>2. Icp!TypeOK'
      BY <1>1, <1>3, <2>1 DEF Icp!TypeOK, Task, Place
    <2>3. RowsKept /\ \A q \in Icp!Proposal : intent'[q].action # Icp!None => Known(q)
      BY <1>3 DEF IcpInv, OnProposals, RowsKept
    <2>4. task'[a].at = "clear" => \A q \in Icp!Proposal : intent[q].action = Icp!None
      <3>1. (\E p \in Icp!Proposal : Icp!Refused(p) /\ Icp!Goes(a, "done")) \/ task' = task
            \/ \A q \in Icp!Proposal : intent[q].action = Icp!None
        BY DEF Icp!Recover, Icp!Recovered
      <3>2. Icp!Goes(a, "done") => task'[a].at = "done"
        BY <1>1, GoesIsTyped DEF Place
      <3> QED BY <1>1, <3>1, <3>2
    <2> QED
      BY <1>1, <1>2, <1>3, <2>1, <2>2, <2>3, <2>4, InsideKeeps
      DEF Locked, Clear, OnRecord, Icp!Desired
  <1>4. CASE \E p \in Icp!Proposal :
                 intent[p].action # Icp!None /\ Icp!Recovered(p) /\ UNCHANGED task
    <2>1. PICK p \in Icp!Proposal :
              intent[p].action # Icp!None /\ Icp!Recovered(p) /\ UNCHANGED task
      BY <1>4
    <2>2. Known(p) /\ Works(a) /\ task'[a].at \notin {"clear", "noted"}
      BY <1>1, <2>1 DEF IcpInv, OnProposals, Works, Inside
    <2>3. /\ proposal' \in [Icp!Proposal -> Row] /\ RowsKept
          /\ Icp!Wrote(p) => proposal'[p].status \in Decided
      <3>1. CASE Icp!Wrote(p)
        BY <1>1, <2>1, <2>2, <3>1, FinishedRows DEF Icp!Recovered, RowsKept, Known
      <3>2. CASE ~Icp!Wrote(p)
        BY <1>1, <2>1, <3>2 DEF Icp!Recovered, RowsKept, Icp!TypeOK, Row
      <3> QED BY <3>1, <3>2
    <2>4. /\ intent' \in [Icp!Proposal -> Intent]
          /\ \A q \in Icp!Proposal : q # p => intent'[q] = intent[q]
          /\ intent'[p].action = Icp!None
      BY <1>1, <2>1, RestIsTyped DEF Icp!Recovered, Icp!TypeOK, Intent, Icp!NoIntent
    <2>5. Icp!TypeOK'
      BY <1>1, <2>1, <2>3, <2>4 DEF Icp!Recovered, Icp!TypeOK, Row, Intent
    <2>6. \A q \in Icp!Proposal : intent'[q].action # Icp!None => Known(q)
      BY <2>4 DEF IcpInv, OnProposals
    <2>7. ASSUME Locked
          PROVE  /\ \A q, r \in Icp!Proposal :
                       intent'[q].action # Icp!None /\ intent'[r].action # Icp!None => q = r
                 /\ OnRecord'
      <3>1. \A q \in Icp!Proposal : intent[q].action # Icp!None => q = p
        BY <2>1, <2>7 DEF Locked, Clear
      <3>2. writer # 0 => proposal[writer].status \in Decided \/ (writer = p /\ Icp!Wrote(p))
        BY <1>1, <1>2, <2>7, <3>1 DEF Locked, OnRecord, Known, Icp!Wrote, Decided
      <3>3. writer # 0 => proposal'[writer].status \in Decided
        BY <1>1, <1>2, <2>3, <3>2 DEF RowsKept, Known
      <3> QED BY <1>1, <2>4, <3>1, <3>3 DEF OnRecord, Decided
    <2> QED
      BY <1>1, <1>2, <2>2, <2>3, <2>5, <2>6, <2>7, InsideKeeps
  <1> QED BY <1>3, <1>4 DEF Icp!Recover

LEMMA IcpKeeps == IcpInv /\ [Icp!Next]_(Icp!vars) => IcpInv'
  <1> SUFFICES ASSUME IcpInv, [Icp!Next]_(Icp!vars) PROVE IcpInv'
    OBVIOUS
  <1>1. CASE UNCHANGED Icp!vars
    BY <1>1 DEF Icp!vars, IcpInv, Icp!TypeOK, OnProposals, Known, Locked, OneOwner, Inside, Clear,
                Noted, Baseline, OnRecord, Icp!Desired
  <1>2. ASSUME NEW a \in Process, Icp!Step(a) \/ Icp!Die(a) PROVE IcpInv'
    BY <1>2, OthersKeep, LockKeeps, RecoverKeeps, DismissKeeps, NoteKeeps, WriteKeeps, StoreKeeps
    DEF Icp!Step
  <1>3. ASSUME NEW a \in Process,
               \/ Icp!Look(a) \/ Icp!GiveUp(a) \/ Icp!Load(a)
               \/ \E value \in Text : Icp!Save(a, value)
        PROVE  IcpInv'
    BY <1>3, OthersKeep
  <1>4. CASE Icp!Evaluate
    <2>1. Icp!TypeOK'
      BY <1>4 DEF IcpInv, Icp!Evaluate, Icp!TypeOK
    <2> QED BY <1>4, <2>1, OutsideKeeps DEF Icp!Evaluate
  <1>5. CASE \E p \in Icp!Proposal, text \in Text : Icp!Propose(p, text)
    BY <1>5, ProposeKeeps
  <1>6. CASE \E a \in Decider, p \in Icp!Proposal :
                \E op \in {"approve", "dismiss", "rollback"} : Icp!Decide(a, op, p)
    BY <1>6, DecideKeeps
  <1> QED BY <1>1, <1>2, <1>3, <1>4, <1>5, <1>6, IcpAssumption DEF Icp!IcpAssumption, Icp!Next

\* In every reachable state of the decisions, for any number of processes, proposals,
\* texts and deaths.
THEOREM IcpInvariance == Icp!Spec => []IcpInv
  BY IcpInit, IcpKeeps, PTL DEF Icp!Spec

\* What a decision wrote into config.json is decided in the ledger, or its intent is
\* still there: whoever died between the write and the finish, and whoever saved,
\* recovered or decided since.
THEOREM OnTheRecord == Icp!Spec => []WrittenIsOnRecord
  <1>1. IcpInv => WrittenIsOnRecord
    BY DEF IcpInv, Locked, OnRecord, WrittenIsOnRecord, Icp!WrittenIsOnRecord
  <1> QED BY <1>1, IcpInvariance, PTL

\* A decision's write replaces the value it was made about, and no newer one.
THEOREM ReplacesOwn == Icp!Spec => DecisionReplacesItsOwn
  <1> DEFINE Own == \A a \in Process :
          Icp!At(a, {"approve", "rollback"}, "noted") /\ task'[a].at = "written" /\ icp' # icp
          => stolen \/ icp = IF task[a].op = "approve" THEN proposal[task[a].id].current
                             ELSE proposal[task[a].id].proposed
  <1>1. IcpInv /\ [Icp!Next]_(Icp!vars) => [Own]_(Icp!vars)
    BY DEF Icp!At, IcpInv, Locked, Noted, Baseline
  <1> QED BY <1>1, IcpInvariance, PTL DEF Icp!Spec, DecisionReplacesItsOwn,
                                          Icp!DecisionReplacesItsOwn
=============================================================================
