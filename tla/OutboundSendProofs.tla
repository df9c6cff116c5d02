------------------------- MODULE OutboundSendProofs -------------------------
(***************************************************************************)
(* Machine-checked proofs about the outbound send ledger, for any number   *)
(* of emails, workers, senders, drafts and attempts.                       *)
(***************************************************************************)
EXTENDS OutboundSend, FiniteSetTheorems, TLAPS

(* Facts about the operators the actions are built from.                   *)

\* A claimed row makes a well-formed request.
LEMMA RequestType ==
    ASSUME NEW k \in Key, NEW r \in Row, r.attempts # 0
    PROVE  RequestOf(k, r) \in Request
BY DEF RequestOf, Row, Request

\* mark keeps the claim and changes the outcome alone.
LEMMA MarkedType ==
    ASSUME NEW r \in Row, NEW status \in Statuses
    PROVE  /\ Marked(r, status) \in Row
           /\ Marked(r, status).status = status
           /\ \A k \in Key : RequestOf(k, Marked(r, status)) = RequestOf(k, r)
           /\ Marked(r, status).attempts = r.attempts
           /\ Marked(r, status).ident = r.ident
           /\ Marked(r, status).content = r.content
           /\ Marked(r, status).to = r.to
           /\ Marked(r, status).exact = (r.exact \/ status = "uncertain")
BY DEF Row, Marked, RequestOf

\* A first claim and a retry make a pending row of the sender and address asked.
LEMMA FirstRowType ==
    ASSUME NEW i \in Identity, NEW c \in Content, NEW a \in Address
    PROVE  FirstRow(i, c, a) \in Row
BY ConstantsAssumption DEF FirstRow, Row, Statuses

LEMMA RetriedRowType ==
    ASSUME NEW r \in Row, NEW i \in Identity, NEW c \in Content,
           r.attempts < MaxAttempts
    PROVE  /\ RetriedRow(r, i, c) \in Row
           /\ RetriedRow(r, i, c).status = "pending"
           /\ RetriedRow(r, i, c).attempts = r.attempts + 1
           /\ RetriedRow(r, i, c).ident = i
           /\ RetriedRow(r, i, c).to = r.to
           /\ RetriedRow(r, i, c).exact = r.exact
           /\ r.exact => RetriedRow(r, i, c).content = r.content
<1>1. r.attempts + 1 \in 0 .. MaxAttempts
  BY ConstantsAssumption DEF Row
<1>2. (IF r.exact THEN r.content ELSE c) \in Content
  BY DEF Row
<1> QED BY <1>1, <1>2 DEF RetriedRow, Row, Statuses

\* The row a key has before its first claim is well formed.
LEMMA NoRowType == NoRow \in Row
BY ConstantsAssumption DEF NoRow, Row, Statuses

\* A sweep's verdict is a status or "unchanged".
LEMMA VerdictType ==
    ASSUME NEW k, NEW v
    PROVE  Verdict(k, v) \in {"confirmed", "not_found", "failed", "unchanged"}
BY DEF Verdict

\* The verdict that lets an email be sent again, and what it rests on.
LEMMA VerdictFailed ==
    ASSUME NEW k, NEW v, Verdict(k, v) = "failed"
    PROVE  v.found = {} /\ PastSettle(v) /\ ~v.bare /\ SentEvidence(v.row.ident)
BY DEF Verdict

\* The verdict that tells of an email that it is out: more copies than twins.
LEMMA VerdictConfirmed ==
    ASSUME NEW k, NEW v, Verdict(k, v) = "confirmed"
    PROVE  ~(Cardinality(v.found) <= Cardinality(Twins(k, v.row)))
BY DEF Verdict

\* A message of a request is one of the messages a sweep can find.
LEMMA MailType == \A r \in Request : Message(r) \in Mail
BY DEF Mail

-----------------------------------------------------------------------------
(* Type correctness, with the claims it rests on.                          *)

Typed == TypeOK /\ Claimed

LEMMA TypedInit == Init => Typed
<1> SUFFICES ASSUME Init PROVE Typed
  OBVIOUS
<1>1. TypeOK
  BY NoRowType, ConstantsAssumption
  DEF Init, TypeOK, Age, LOST, WorkerStates, Statuses
<1>2. Claimed
  BY DEF Init, Claimed, NoRow, NoView
<1> QED BY <1>1, <1>2 DEF Typed

\* The steps that hand a request to a transport.
LEMMA TypedSubmit ==
    ASSUME Typed, NEW w \in Worker, NEW k \in Key, NEW r \in Row,
           pc[w] = "idle", r.attempts # 0, r.status # "absent",
           Submit(w, k, r)
    PROVE  Typed'
<1> USE DEF Typed
<1>1. RequestOf(k, r) \in Request
  BY RequestType
<1>2. TypeOK'
  BY <1>1 DEF TypeOK, Submit, Age, LOST, WorkerStates
<1>3. RequestOf(k, r).key = k
  BY DEF RequestOf
<1>4. Claimed'
  BY <1>1, <1>3 DEF TypeOK, Claimed, Submit, Row
<1> QED BY <1>2, <1>4


\* A mark with a proper outcome keeps the rows typed and claimed.
LEMMA TypedMark ==
    ASSUME Typed, NEW k \in Key, NEW status \in Statuses,
           row[k].attempts # 0, status # "absent",
           row' = [row EXCEPT ![k] = Marked(@, status)]
    PROVE  /\ row' \in [Key -> Row]
           /\ \A o \in Key : row'[o].status = "absent" <=> row'[o].attempts = 0
           /\ \A o \in Key : row'[o].attempts = row[o].attempts
<1>1. row \in [Key -> Row] /\ row[k] \in Row
  BY DEF Typed, TypeOK
<1>2. /\ row'[k] = Marked(row[k], status)
      /\ \A o \in Key : o # k => row'[o] = row[o]
  BY <1>1
<1> QED BY <1>1, <1>2, MarkedType DEF Typed, Claimed

\* The worker w goes idle and leaves its request where it is.
LEMMA TypedDone ==
    ASSUME Typed, NEW w \in Worker, Done(w)
    PROVE  /\ pc' \in [Worker -> WorkerStates]
           /\ job' \in [Worker -> Request \cup {NoJob}]
           /\ prior' \in [Worker -> Statuses]
           /\ \A x \in Worker : pc'[x] # "idle" =>
                  /\ pc'[x] = pc[x] /\ job'[x] = job[x] /\ prior'[x] = prior[x]
BY DEF Typed, TypeOK, Done, WorkerStates, Statuses

\* A step that hands out no new work: it may mark claimed rows, let workers go
\* idle and sweeps drop what they listed.
LEMMA TypedKeep ==
    ASSUME Typed,
           row' \in [Key -> Row],
           \A k \in Key : row'[k].status = "absent" <=> row'[k].attempts = 0,
           \A k \in Key : row'[k].attempts = row[k].attempts,
           pc' \in [Worker -> WorkerStates],
           job' \in [Worker -> Request \cup {NoJob}],
           prior' \in [Worker -> Statuses],
           \A x \in Worker : pc'[x] # "idle" =>
               /\ pc'[x] = pc[x] /\ job'[x] = job[x] /\ prior'[x] = prior[x],
           view' \in [Sweeper -> [Key -> View \cup {NoView}]],
           \A s \in Sweeper, k \in Key : view'[s][k].listed => view[s][k].listed,
           net' \subseteq net,
           UNCHANGED <<age, accepted, sent, receipts>>
    PROVE  Typed'
<1>1. TypeOK'
  BY DEF Typed, TypeOK
<1>2. ASSUME NEW x \in Worker, pc'[x] # "idle"
      PROVE  job'[x] \in Request /\ row'[job'[x].key].attempts # 0
  <2>1. /\ job'[x] = job[x] /\ job[x] \in Request
        /\ row[job[x].key].attempts # 0
    BY <1>2 DEF Typed, Claimed
  <2>2. job[x].key \in Key
    BY <2>1 DEF Request
  <2> QED BY <2>1, <2>2
<1>3. ASSUME NEW x \in Worker, pc'[x] \in {"replay", "replayed"}
      PROVE  prior'[x] \in {"submitted", "confirmed", "not_found"}
  BY <1>3 DEF Typed, Claimed
<1>4. ASSUME NEW s \in Sweeper, NEW k \in Key, view'[s][k].listed
      PROVE  row'[k].attempts # 0
  BY <1>4 DEF Typed, Claimed
<1>5. Claimed'
  BY <1>2, <1>3, <1>4 DEF Claimed
<1> QED BY <1>1, <1>5 DEF Typed

\* Rows, workers and views that a step leaves alone meet the above.
LEMMA TypedSame ==
    ASSUME Typed
    PROVE  /\ row \in [Key -> Row]
           /\ \A k \in Key : row[k].status = "absent" <=> row[k].attempts = 0
           /\ pc \in [Worker -> WorkerStates]
           /\ job \in [Worker -> Request \cup {NoJob}]
           /\ prior \in [Worker -> Statuses]
           /\ view \in [Sweeper -> [Key -> View \cup {NoView}]]
BY DEF Typed, TypeOK, Claimed

LEMMA TypedClaim ==
    ASSUME Typed, NEW w \in Worker, NEW k \in Key, Claim(w, k)
    PROVE  Typed'
<1> USE DEF Typed
<1>1. row[k] \in Row
  BY DEF TypeOK
<1>2. ASSUME NEW i \in Route[k], NEW c \in Content, NEW a \in Recipients[k],
             ClaimNew(w, k, i, c, a)
      PROVE  Typed'
  <2>1. FirstRow(i, c, a) \in Row
    BY FirstRowType, ConstantsAssumption
  <2>2. FirstRow(i, c, a).attempts # 0 /\ FirstRow(i, c, a).status # "absent"
    BY DEF FirstRow
  <2> QED BY <1>2, <2>1, <2>2, TypedSubmit DEF ClaimNew
<1>3. ASSUME NEW i \in Route[k], NEW c \in Content, ClaimRetry(w, k, i, c)
      PROVE  Typed'
  <2> DEFINE r == RetriedRow(row[k], i, c)
  <2>1. i \in Identity
    BY ConstantsAssumption
  <2>2. /\ r \in Row /\ r.attempts = row[k].attempts + 1 /\ r.status = "pending"
        /\ pc[w] = "idle" /\ Submit(w, k, r)
    BY <1>1, <1>3, <2>1, RetriedRowType DEF ClaimRetry
  <2>3. r.attempts # 0 /\ r.status # "absent"
    BY <1>1, <2>2 DEF Row
  <2> HIDE DEF r
  <2> QED BY <2>2, <2>3, TypedSubmit
<1>4. CASE ClaimStale(w, k)
  <2>1. row[k].attempts # 0 /\ row' = [row EXCEPT ![k] = Marked(@, "uncertain")]
    BY <1>4 DEF ClaimStale, Claimed
  <2>2. "uncertain" \in Statuses /\ "uncertain" # "absent"
    BY DEF Statuses
  <2>3. UNCHANGED <<age, pc, job, prior, net, accepted, sent, receipts, view>>
    BY <1>4 DEF ClaimStale, workerVars, wireVars
  <2>4. /\ row' \in [Key -> Row]
        /\ \A o \in Key : row'[o].status = "absent" <=> row'[o].attempts = 0
        /\ \A o \in Key : row'[o].attempts = row[o].attempts
    BY <2>1, <2>2, TypedMark
  <2> HIDE DEF Typed
  <2> QED BY <2>3, <2>4, TypedKeep, TypedSame
<1>5. CASE ClaimReplay(w, k)
  <2>1. RequestOf(k, row[k]) \in Request /\ RequestOf(k, row[k]).key = k
    <3>1. row[k].attempts # 0
      BY <1>5 DEF ClaimReplay, Claimed
    <3> QED BY <1>1, <3>1, RequestType DEF RequestOf
  <2>2. TypeOK'
    BY <1>5, <2>1 DEF ClaimReplay, TypeOK, wireVars, WorkerStates, Statuses, Row
  <2>3. Claimed'
    BY <1>5, <2>1 DEF ClaimReplay, TypeOK, Claimed, wireVars
  <2> QED BY <2>2, <2>3
<1> QED BY <1>2, <1>3, <1>4, <1>5 DEF Claim

LEMMA TypedAttempt ==
    ASSUME Typed, NEW w \in Worker, Attempt(w) \/ Crash(w)
    PROVE  Typed'
<1> USE DEF Typed
<1> DEFINE k == job[w].key
<1>1. /\ pc[w] # "idle" /\ job[w] \in Request /\ k \in Key
      /\ row[k] \in Row /\ row[k].attempts # 0
  BY DEF Attempt, Crash, TransportOk, WriteReceipt, MarkSettled, FailDefinite,
         FailUnknown, ReplayReceipt, ReplayMark, Sending, Claimed, TypeOK, Request
<1>2. CASE TransportOk(w)
  <2>1. [req |-> job[w], bare |-> FALSE] \in Copy
    BY <1>1 DEF Copy
  <2> QED BY <1>1, <1>2, <2>1 DEF TransportOk, TypeOK, Claimed, WorkerStates
<1>3. CASE WriteReceipt(w)
  BY <1>1, <1>3, MailType
  DEF WriteReceipt, TypeOK, Claimed, WorkerStates, ReceiptIds, wireVars
<1>4. CASE ReplayReceipt(w)
  <2>1. ReplayId(job[w]) \in ReceiptIds
    BY <1>1 DEF ReceiptIds
  <2> QED BY <1>1, <1>4, <2>1
          DEF ReplayReceipt, TypeOK, Claimed, WorkerStates, wireVars
<1>5. CASE Crash(w)
  BY <1>5, TypedDone DEF Crash, TypeOK, Claimed, wireVars
<1>6. ASSUME FailDefinite(w) \/ FailUnknown(w)
      PROVE  Typed'
  <2>1. \E status \in {"failed", "uncertain"} :
           row' = [row EXCEPT ![k] = Marked(@, status)]
    BY <1>6 DEF FailDefinite, FailUnknown
  <2>2. /\ Done(w) /\ net' \subseteq net
        /\ UNCHANGED <<age, accepted, sent, receipts, view>>
    BY <1>6 DEF FailDefinite, FailUnknown, wireVars
  <2>3. /\ row' \in [Key -> Row]
        /\ \A o \in Key : row'[o].status = "absent" <=> row'[o].attempts = 0
        /\ \A o \in Key : row'[o].attempts = row[o].attempts
    <3>1. {"failed", "uncertain"} \subseteq Statuses \ {"absent"}
      BY DEF Statuses
    <3> QED BY <1>1, <2>1, <3>1, TypedMark
  <2> HIDE DEF Typed
  <2> QED BY <2>2, <2>3, TypedDone, TypedKeep, TypedSame
<1>7. ASSUME MarkSettled(w) \/ ReplayMark(w)
      PROVE  Typed'
  <2>1. PICK status \in {"submitted", "confirmed", "not_found"} :
           row' = [row EXCEPT ![k] = [Marked(@, status) EXCEPT !.receipt = TRUE]]
    BY <1>1, <1>7 DEF MarkSettled, ReplayMark, SettledStatus, Claimed
  <2>2. /\ Done(w)
        /\ UNCHANGED <<age, net, accepted, sent, receipts, view>>
    BY <1>7 DEF MarkSettled, ReplayMark, wireVars
  <2>3. /\ row' \in [Key -> Row]
        /\ \A o \in Key : row'[o].status = "absent" <=> row'[o].attempts = 0
        /\ \A o \in Key : row'[o].attempts = row[o].attempts
    <3> DEFINE m == Marked(row[k], status)
    <3>1. status \in Statuses /\ status # "absent"
      BY DEF Statuses
    <3>2. m \in Row /\ m.attempts = row[k].attempts /\ m.status = status
      BY <1>1, <3>1, MarkedType
    <3>3. row' = [row EXCEPT ![k] = [m EXCEPT !.receipt = TRUE]]
      BY <2>1
    <3> HIDE DEF m
    <3> QED BY <1>1, <3>1, <3>2, <3>3 DEF TypeOK, Claimed, Row
  <2> HIDE DEF Typed
  <2> QED BY <2>2, <2>3, TypedDone, TypedKeep, TypedSame
<1> QED BY <1>2, <1>3, <1>4, <1>5, <1>6, <1>7 DEF Attempt

LEMMA TypedWire ==
    ASSUME Typed, NEW r \in net, Accept(r) \/ Lose(r)
    PROVE  Typed'
<1> USE DEF Typed
<1>1. r \in Request
  BY DEF TypeOK
<1>2. CASE Accept(r)
  <2>1. \A bare \in BOOLEAN : [req |-> r, bare |-> bare] \in Copy
    BY <1>1 DEF Copy
  <2>2. sent' \subseteq Copy
    BY <1>2, <2>1 DEF Accept, TypeOK
  <2>3. TypeOK'
    BY <1>1, <1>2, <2>2 DEF Accept, TypeOK, workerVars
  <2> QED BY <1>2, <2>3 DEF Accept, Claimed, workerVars
<1>3. CASE Lose(r)
  BY <1>3 DEF Lose, TypeOK, Claimed, workerVars
<1> QED BY <1>2, <1>3

LEMMA TypedGrow ==
    ASSUME Typed, NEW k \in Key, GrowOld(k)
    PROVE  Typed'
<1>1. age[k] + 1 \in Age
  BY DEF Typed, TypeOK, GrowOld, Age, LOST
<1>2. age' \in [Key -> Age]
  BY <1>1 DEF Typed, TypeOK, GrowOld
<1> QED BY <1>2 DEF GrowOld, Typed, TypeOK, Claimed, workerVars, wireVars

\* What a step of a sweep does to the ledger: it marks at most the row it had
\* listed, and touches nothing but rows and its own view.
SweepMarks(s, k, status) ==
    /\ view[s][k].listed
    /\ row' = [row EXCEPT ![k] = Marked(@, status)]
    /\ view' = [view EXCEPT ![s][k] = NoView]

LEMMA SweepCases ==
    ASSUME NEW s \in Sweeper, Sweep(s)
    PROVE  /\ UNCHANGED <<age, pc, job, prior, net, accepted, sent, receipts>>
           /\ \/ /\ row' = row
                 /\ \/ SweepList(s)
                    \/ \E k \in Key : SweepRead(s, k)
                    \/ \E K \in SUBSET Key :
                          view' = [view EXCEPT ![s] =
                              [k \in Key |-> IF k \in K THEN NoView ELSE @[k]]]
                    \/ \E k \in Key : view' = [view EXCEPT ![s][k] = NoView]
              \/ \E k \in Key :
                    /\ SweepMarks(s, k, "confirmed")
                    /\ view[s][k].read
                    /\ ~(Cardinality(view[s][k].found)
                            <= Cardinality(Twins(k, view[s][k].row)))
              \/ \E k \in Key :
                    /\ SweepMarks(s, k, "not_found")
                    /\ \/ view[s][k].read
                       \/ TransportOf[view[s][k].row.ident] # "oneshot"
                       \/ PastSettle(view[s][k])
              \/ \E k \in Key :
                    /\ SweepMarks(s, k, "failed")
                    /\ PastSettle(view[s][k])
                    /\ \/ TransportOf[view[s][k].row.ident] = "oneshot"
                       \/ /\ view[s][k].read /\ view[s][k].found = {}
                          /\ ~view[s][k].bare
                          /\ SentEvidence(view[s][k].row.ident)
<1>1. CASE SweepList(s)
  BY <1>1 DEF SweepList, workerVars, wireVars
<1>2. CASE SweepStop(s)
  <2>1. view' = [view EXCEPT ![s] = [k \in Key |-> IF k \in Key THEN NoView ELSE @[k]]]
    BY <1>2 DEF SweepStop
  <2> QED BY <1>2, <2>1 DEF SweepStop, workerVars, wireVars
<1>3. ASSUME NEW k \in Key, SweepRead(s, k)
      PROVE  row' = row /\ UNCHANGED <<age, pc, job, prior, net, accepted, sent, receipts>>
  BY <1>3 DEF SweepRead, workerVars, wireVars
<1>4. ASSUME NEW k \in Key, SweepOutage(s, k)
      PROVE  /\ row' = row
             /\ UNCHANGED <<age, pc, job, prior, net, accepted, sent, receipts>>
             /\ \E K \in SUBSET Key :
                  view' = [view EXCEPT ![s] =
                      [o \in Key |-> IF o \in K THEN NoView ELSE @[o]]]
  <2> DEFINE K == {o \in Key : view[s][o].listed /\ view[s][o].row.ident = view[s][k].row.ident}
  <2>1. view' = [view EXCEPT ![s] = [o \in Key |-> IF o \in K THEN NoView ELSE @[o]]]
    BY <1>4 DEF SweepOutage
  <2> QED BY <1>4, <2>1 DEF SweepOutage, workerVars, wireVars
<1>5. ASSUME NEW k \in Key, SweepUnreadable(s, k)
      PROVE  /\ SweepMarks(s, k, "not_found")
             /\ TransportOf[view[s][k].row.ident] # "oneshot"
             /\ UNCHANGED <<age, pc, job, prior, net, accepted, sent, receipts>>
  BY <1>5 DEF SweepUnreadable, SweepMarks, Turn, workerVars, wireVars
<1>6. ASSUME NEW k \in Key, SweepOneShot(s, k)
      PROVE  /\ UNCHANGED <<age, pc, job, prior, net, accepted, sent, receipts>>
             /\ \/ row' = row /\ view' = [view EXCEPT ![s][k] = NoView]
                \/ SweepMarks(s, k, "not_found") /\ PastSettle(view[s][k])
                \/ /\ SweepMarks(s, k, "failed")
                   /\ PastSettle(view[s][k])
                   /\ TransportOf[view[s][k].row.ident] = "oneshot"
  BY <1>6 DEF SweepOneShot, SweepMarks, Turn, PastSettle, workerVars, wireVars
<1>7. ASSUME NEW k \in Key, SweepSettle(s, k)
      PROVE  /\ UNCHANGED <<age, pc, job, prior, net, accepted, sent, receipts>>
             /\ \/ row' = row /\ view' = [view EXCEPT ![s][k] = NoView]
                \/ /\ SweepMarks(s, k, "confirmed")
                   /\ view[s][k].read
                   /\ ~(Cardinality(view[s][k].found)
                           <= Cardinality(Twins(k, view[s][k].row)))
                \/ SweepMarks(s, k, "not_found") /\ view[s][k].read
                \/ /\ SweepMarks(s, k, "failed")
                   /\ PastSettle(view[s][k])
                   /\ view[s][k].read /\ view[s][k].found = {} /\ ~view[s][k].bare
                   /\ SentEvidence(view[s][k].row.ident)
  <2> DEFINE verdict == Verdict(k, view[s][k])
  <2>1. verdict \in {"confirmed", "not_found", "failed", "unchanged"}
    BY VerdictType
  <2>2. verdict = "failed" =>
          /\ PastSettle(view[s][k]) /\ view[s][k].found = {} /\ ~view[s][k].bare
          /\ SentEvidence(view[s][k].row.ident)
    BY VerdictFailed
  <2>3. verdict = "confirmed" =>
          ~(Cardinality(view[s][k].found) <= Cardinality(Twins(k, view[s][k].row)))
    BY VerdictConfirmed
  <2>4. /\ view[s][k].listed /\ view[s][k].read
        /\ row' = IF verdict = "unchanged" THEN row
                  ELSE [row EXCEPT ![k] = Marked(@, verdict)]
        /\ view' = [view EXCEPT ![s][k] = NoView]
        /\ UNCHANGED <<age, pc, job, prior, net, accepted, sent, receipts>>
    BY <1>7 DEF SweepSettle, workerVars, wireVars
  <2> HIDE DEF verdict
  <2> QED BY <2>1, <2>2, <2>3, <2>4 DEF SweepMarks
<1> QED BY <1>1, <1>2, <1>3, <1>4, <1>5, <1>6, <1>7 DEF Sweep

\* What a lookup adds to a view is made of messages whose copies are in Sent,
\* and nothing else of the view changes.
LEMMA LookedType ==
    ASSUME Typed, NEW k \in Key, NEW v \in View
    PROVE  /\ Looked(k, v) \in View
           /\ Looked(k, v).listed
           /\ Looked(k, v).read
           /\ Looked(k, v).row = v.row
           /\ Looked(k, v).age = v.age
           /\ Looked(k, v).found = {} /\ ~Looked(k, v).bare => Matches(k, v.row) = {}
<1> DEFINE all == Matches(k, v.row)
           hits == {c \in all : Counts(v.row, c)}
           found == {Message(c.req) : c \in hits}
           bare == hits # all
<1>1. \A c \in hits : Message(c.req) \in Mail
  BY MailType DEF Typed, TypeOK, Copy, Matches
<1>2. found \subseteq Mail /\ bare \in BOOLEAN
  BY <1>1
<1>3. found = {} /\ ~bare => all = {}
  OBVIOUS
<1>4. Looked(k, v) = [v EXCEPT !.read = TRUE, !.found = found, !.bare = bare]
  BY DEF Looked
<1> HIDE DEF found, bare, all
<1> QED BY <1>2, <1>3, <1>4 DEF View, all

\* Listing and reading fill views in with rows and messages.
LEMMA TypedSweepView ==
    ASSUME Typed, NEW s \in Sweeper,
           SweepList(s) \/ \E k \in Key : SweepRead(s, k)
    PROVE  /\ view' \in [Sweeper -> [Key -> View \cup {NoView}]]
           /\ \A k \in Key : view'[s][k].listed =>
                 view[s][k].listed \/ row[k].status # "absent"
           /\ \A x \in Sweeper : x # s => view'[x] = view[x]
<1> USE DEF Typed
<1>1. CASE SweepList(s)
  <2> DEFINE listed(k) == [listed |-> TRUE, row |-> row[k], age |-> age[k],
                           read |-> FALSE, found |-> {}, bare |-> FALSE]
  <2>1. \A k \in Key : listed(k) \in View
    BY DEF TypeOK, View
  <2>2. view' = [view EXCEPT ![s] =
                   [k \in Key |-> IF Unconfirmed(k) THEN listed(k) ELSE NoView]]
    BY <1>1 DEF SweepList
  <2>3. \A k \in Key : Unconfirmed(k) => row[k].status # "absent"
    BY DEF Unconfirmed
  <2> HIDE DEF listed
  <2>4. view'[s] = [k \in Key |-> IF Unconfirmed(k) THEN listed(k) ELSE NoView]
    BY <2>2 DEF TypeOK
  <2>5. \A k \in Key : view'[s][k].listed => row[k].status # "absent"
    BY <2>3, <2>4 DEF NoView
  <2> QED BY <2>1, <2>2, <2>5 DEF TypeOK
<1>2. ASSUME NEW k \in Key, SweepRead(s, k)
      PROVE  /\ view' \in [Sweeper -> [Key -> View \cup {NoView}]]
             /\ \A o \in Key : view'[s][o].listed => view[s][o].listed
             /\ \A x \in Sweeper : x # s => view'[x] = view[x]
  <2> DEFINE v == view[s][k]
  <2>1. v.listed /\ v \in View \cup {NoView}
    BY <1>2 DEF SweepRead, Turn, TypeOK
  <2>2. v \in View
    BY <2>1 DEF NoView
  <2>3. Looked(k, v) \in View /\ Looked(k, v).listed
    BY <2>2, LookedType
  <2>4. view' = [view EXCEPT ![s][k] = Looked(k, v)]
    BY <1>2 DEF SweepRead
  <2> QED BY <2>1, <2>3, <2>4 DEF TypeOK
<1> QED BY <1>1, <1>2

LEMMA TypedSweep ==
    ASSUME Typed, NEW s \in Sweeper, Sweep(s)
    PROVE  Typed'
<1>1. UNCHANGED <<age, pc, job, prior, net, accepted, sent, receipts>>
  BY SweepCases
<1>2. ASSUME row' = row, SweepList(s) \/ \E k \in Key : SweepRead(s, k)
      PROVE  Typed'
  <2>1. TypeOK'
    BY <1>1, <1>2, TypedSweepView DEF Typed, TypeOK
  <2>2. \A x \in Sweeper, k \in Key : view'[x][k].listed => row'[k].attempts # 0
    BY <1>2, TypedSweepView DEF Typed, Claimed
  <2>3. Claimed'
    BY <1>1, <1>2, <2>2 DEF Typed, Claimed
  <2> QED BY <2>1, <2>3 DEF Typed
<1>3. ASSUME row' = row, NEW K \in SUBSET Key,
             view' = [view EXCEPT ![s] =
                        [k \in Key |-> IF k \in K THEN NoView ELSE @[k]]]
      PROVE  Typed'
  <2>1. /\ view' \in [Sweeper -> [Key -> View \cup {NoView}]]
        /\ \A x \in Sweeper, k \in Key : view'[x][k].listed => view[x][k].listed
    BY <1>3 DEF Typed, TypeOK, NoView
  <2> QED BY <1>1, <1>3, <2>1, TypedSame, TypedKeep
<1>4. ASSUME NEW k \in Key, view' = [view EXCEPT ![s][k] = NoView]
      PROVE  /\ view' \in [Sweeper -> [Key -> View \cup {NoView}]]
             /\ \A x \in Sweeper, o \in Key : view'[x][o].listed => view[x][o].listed
  BY <1>4 DEF Typed, TypeOK, NoView
<1>5. ASSUME row' = row, NEW k \in Key, view' = [view EXCEPT ![s][k] = NoView]
      PROVE  Typed'
  BY <1>1, <1>4, <1>5, TypedSame, TypedKeep
<1>6. ASSUME NEW k \in Key, NEW status \in {"confirmed", "not_found", "failed"},
             SweepMarks(s, k, status)
      PROVE  Typed'
  <2>1. /\ row[k].attempts # 0 /\ status \in Statuses /\ status # "absent"
        /\ row' = [row EXCEPT ![k] = Marked(@, status)]
        /\ view' = [view EXCEPT ![s][k] = NoView]
    BY <1>6 DEF SweepMarks, Typed, Claimed, Statuses
  <2>2. /\ row' \in [Key -> Row]
        /\ \A o \in Key : row'[o].status = "absent" <=> row'[o].attempts = 0
        /\ \A o \in Key : row'[o].attempts = row[o].attempts
    BY <2>1, TypedMark
  <2> QED BY <1>1, <1>4, <2>1, <2>2, TypedSame, TypedKeep
<1> QED BY <1>2, <1>3, <1>5, <1>6, SweepCases

LEMMA TypedNext ==
    ASSUME Typed, [Next]_vars
    PROVE  Typed'
<1>1. CASE UNCHANGED vars
  BY <1>1 DEF vars, Typed, TypeOK, Claimed
<1>2. CASE Next
  BY <1>2, TypedClaim, TypedAttempt, TypedWire, TypedGrow, TypedSweep DEF Next
<1> QED BY <1>1, <1>2

\* Every reachable state is typed, and whoever works on a row, or holds it from
\* a listing, found it claimed: the ledger, keyedSend and the sweep never make
\* a row or a mark out of nothing.
THEOREM TypeCorrect == Spec => [](TypeOK /\ Claimed)
<1>1. Init => Typed
  BY TypedInit
<1>2. Typed /\ [Next]_vars => Typed'
  BY TypedNext
<1>3. Typed => TypeOK /\ Claimed
  BY DEF Typed
<1> QED BY <1>1, <1>2, <1>3, PTL DEF Spec

-----------------------------------------------------------------------------
(* The inductive invariant.                                                *)

\* What the invariant needs of the deployment, beyond the types.
Deployment == OneSweeper /\ TimeoutsBeforeSettle /\ OneShotRoute

\* A step that leaves the claims of the rows alone.
RowsKept ==
    \A k \in Key :
        /\ row'[k].ident = row[k].ident /\ row'[k].content = row[k].content
        /\ row'[k].to = row[k].to /\ row'[k].attempts = row[k].attempts
        /\ row[k].exact => row'[k].exact
        /\ row'[k].status = "uncertain" => row'[k].exact

\* A step that opens k for another send.
Opens(k) == row'[k].status = "failed" /\ row[k].status # "failed"

\* Marks keep the claims.
LEMMA MarkKeeps ==
    ASSUME Inv, NEW k \in Key, NEW status \in Statuses \ {"absent"},
           \/ row' = [row EXCEPT ![k] = Marked(@, status)]
           \/ row' = [row EXCEPT ![k] = [Marked(@, status) EXCEPT !.receipt = TRUE]]
    PROVE  /\ RowsKept
           /\ \A o \in Key : Opens(o) => o = k /\ status = "failed"
<1> DEFINE m == Marked(row[k], status)
<1>1. row \in [Key -> Row] /\ row[k] \in Row
  BY DEF Inv, TypeOK
<1>2. /\ m \in Row /\ m.status = status /\ m.attempts = row[k].attempts
      /\ m.ident = row[k].ident /\ m.content = row[k].content /\ m.to = row[k].to
      /\ m.exact = (row[k].exact \/ status = "uncertain")
  BY <1>1, MarkedType
<1>3. \E b \in {m, [m EXCEPT !.receipt = TRUE]} : row' = [row EXCEPT ![k] = b]
  OBVIOUS
<1> DEFINE n == [m EXCEPT !.receipt = TRUE]
<1> HIDE DEF m
<1>4. /\ n \in Row /\ n.status = m.status /\ n.attempts = m.attempts
      /\ n.ident = m.ident /\ n.content = m.content /\ n.to = m.to
      /\ n.exact = m.exact
  BY <1>2 DEF Row
<1>5. PICK b \in Row : /\ row' = [row EXCEPT ![k] = b]
                       /\ b.status = status /\ b.attempts = row[k].attempts
                       /\ b.ident = row[k].ident /\ b.content = row[k].content
                       /\ b.to = row[k].to
                       /\ b.exact = (row[k].exact \/ status = "uncertain")
  <2> HIDE DEF n
  <2>1. CASE row' = [row EXCEPT ![k] = m]
    BY <1>2, <2>1
  <2>2. CASE row' = [row EXCEPT ![k] = n]
    BY <1>2, <1>4, <2>2
  <2> QED BY <1>3, <2>1, <2>2 DEF n
<1>6. row'[k] = b /\ \A o \in Key \ {k} : row'[o] = row[o]
  BY <1>1, <1>5
<1>7. ASSUME NEW o \in Key
      PROVE  row[o].status = "uncertain" => row[o].exact
  BY DEF Inv, RowsMatchRoutes
<1> QED BY <1>5, <1>6, <1>7 DEF RowsKept, Opens

\* A step that keeps the claims and hands out no new request preserves the
\* invariant if the rows it opens for another send are not out.
LEMMA InvKeep ==
    ASSUME Inv, Typed',
           RowsKept,
           \A k \in Key : Opens(k) =>
               /\ \A r \in Requests' : r.key = k =>
                      TransportOf[r.ident] = "oneshot" /\ row[k].exact
               /\ \A x \in Worker : pc'[x] \in Sending => job'[x].key # k
               /\ \A s \in Sweeper : view'[s][k].listed => ~PastSettle(view'[s][k]),
           \A x \in Worker : pc'[x] \in Sending => pc[x] \in Sending /\ job'[x] = job[x],
           \A s \in Sweeper, k \in Key :
               view'[s][k].listed /\ PastSettle(view'[s][k]) => view'[s][k] = view[s][k],
           net' \subseteq net, accepted' = accepted, sent \subseteq sent', age' = age
    PROVE  Inv'
<1>1. RequestsMatchRows'
  <2> SUFFICES ASSUME NEW r \in Requests'
               PROVE  /\ r.ident = row'[r.key].ident
                      /\ r.content = row'[r.key].content
                      /\ r.to = row'[r.key].to
                      /\ r.n <= row'[r.key].attempts
                      /\ r.n < row'[r.key].attempts \/ row'[r.key].status = "failed"
                            => TransportOf[r.ident] = "oneshot" /\ row'[r.key].exact
    BY DEF RequestsMatchRows
  <2>1. r \in Requests /\ r.key \in Key
    BY DEF Requests, Inv, TypeOK, Request
  <2> QED BY <2>1 DEF Inv, RequestsMatchRows, RowsKept, Opens
<1>2. WorkersMatchRows'
  <2> SUFFICES ASSUME NEW x \in Worker, pc'[x] \in Sending
               PROVE  /\ job'[x] = RequestOf(job'[x].key, row'[job'[x].key])
                      /\ row'[job'[x].key].status # "failed"
                      /\ age'[job'[x].key] <= CallBound
    BY DEF WorkersMatchRows
  <2>1. /\ pc[x] \in Sending /\ job'[x] = job[x]
        /\ job[x] \in Request /\ job[x].key \in Key
    BY DEF Inv, Claimed, Sending, Request
  <2> QED BY <2>1 DEF Inv, WorkersMatchRows, RowsKept, Opens, RequestOf
<1>3. OneCallPerKey'
  BY DEF Inv, OneCallPerKey
<1>4. YoungRequests'
  BY DEF Inv, YoungRequests
<1>5. RowsMatchRoutes'
  <2>1. ASSUME NEW k \in Key, row'[k].status # "absent"
        PROVE  row[k].status # "absent"
    BY <2>1 DEF Typed, Inv, Claimed, RowsKept
  <2> QED BY <2>1 DEF Inv, RowsMatchRoutes, RowsKept
<1>6. CopiesFiled'
  BY DEF Inv, CopiesFiled
<1>7. ViewsHold'
  <2> SUFFICES ASSUME NEW s \in Sweeper, NEW k \in Key,
                      view'[s][k].listed, PastSettle(view'[s][k])
               PROVE  /\ age'[k] >= SETTLE
                      /\ row'[k].status # "failed" /\ row'[k].exact
                      /\ RequestOf(k, row'[k]) = RequestOf(k, view'[s][k].row)
                      /\ /\ view'[s][k].read /\ view'[s][k].found = {} /\ ~view'[s][k].bare
                         /\ SentEvidence(view'[s][k].row.ident)
                         => \A r \in accepted' : r.key # k
    BY DEF ViewsHold, PastSettle
  <2> QED BY DEF Inv, ViewsHold, RowsKept, Opens, RequestOf
<1> QED BY <1>1, <1>2, <1>3, <1>4, <1>5, <1>6, <1>7 DEF Inv, Typed

LEMMA InvInit ==
    ASSUME Init
    PROVE  Inv
<1>1. Typed
  BY TypedInit
<1>2. \A k \in Key : row[k].status = "absent"
  BY DEF Init, NoRow
<1>3. \A w \in Worker : pc[w] \notin Sending
  BY DEF Init, Sending
<1>4. \A s \in Sweeper, k \in Key : ~view[s][k].listed
  BY DEF Init, NoView
<1>5. Requests = {} /\ net = {} /\ accepted = {}
  BY DEF Init, Requests
<1> QED BY <1>1, <1>2, <1>3, <1>4, <1>5
        DEF Inv, Typed, RequestsMatchRows, WorkersMatchRows, OneCallPerKey,
            YoungRequests, RowsMatchRoutes, CopiesFiled, ViewsHold

\* A row that waits for a first or another attempt has nobody at work on it,
\* and no sweep holds an old unknown outcome of it.
LEMMA OpenRowIsFree ==
    ASSUME Inv, NEW k \in Key, row[k].status \in {"absent", "failed"}
    PROVE  /\ \A x \in Worker : pc[x] \in Sending => job[x].key # k
           /\ \A s \in Sweeper : view[s][k].listed => ~PastSettle(view[s][k])
<1>1. ASSUME NEW x \in Worker, pc[x] \in Sending, job[x].key = k
      PROVE  FALSE
  <2>1. row[k].attempts # 0 /\ row[k].status # "failed"
    BY <1>1 DEF Inv, Claimed, WorkersMatchRows, Sending
  <2> QED BY <2>1 DEF Inv, Claimed
<1>2. ASSUME NEW s \in Sweeper, view[s][k].listed, PastSettle(view[s][k])
      PROVE  FALSE
  <2>1. row[k].attempts # 0 /\ row[k].status # "failed"
    BY <1>2 DEF Inv, Claimed, ViewsHold
  <2> QED BY <2>1 DEF Inv, Claimed
<1> QED BY <1>1, <1>2

\* A claim that submits: if every request of the email that is out or under way
\* is one the platform will recognise, the invariant survives the new one.
LEMMA InvSubmit ==
    ASSUME Inv, Typed', Deployment,
           NEW w \in Worker, NEW k \in Key, NEW r \in Row,
           row[k].status \in {"absent", "failed"},
           r.status = "pending", r.ident \in Route[k],
           r.attempts = row[k].attempts + 1,
           \A q \in Requests : q.key = k =>
               /\ q.ident = r.ident /\ q.content = r.content /\ q.to = r.to
               /\ TransportOf[q.ident] = "oneshot" /\ r.exact,
           Submit(w, k, r)
    PROVE  Inv'
<1> DEFINE new == RequestOf(k, r)
<1>1. /\ row' = [row EXCEPT ![k] = r] /\ row \in [Key -> Row]
      /\ age' = [age EXCEPT ![k] = 0] /\ age \in [Key -> Age]
      /\ pc' = [pc EXCEPT ![w] = "sending"] /\ pc \in [Worker -> WorkerStates]
      /\ job' = [job EXCEPT ![w] = new] /\ job \in [Worker -> Request \cup {NoJob}]
      /\ net' = net \cup {new} /\ accepted' = accepted
      /\ sent' = sent /\ view' = view
  BY DEF Submit, Inv, TypeOK
<1>2. /\ row'[k] = r /\ age'[k] = 0 /\ pc'[w] = "sending" /\ job'[w] = new
      /\ \A o \in Key \ {k} : row'[o] = row[o] /\ age'[o] = age[o]
      /\ \A x \in Worker \ {w} : pc'[x] = pc[x] /\ job'[x] = job[x]
  BY <1>1
<1>3. /\ new.key = k /\ new.n = r.attempts /\ new.ident = r.ident
      /\ new.content = r.content /\ new.to = r.to
  BY DEF RequestOf
<1>4. row[k].attempts \in Nat /\ r.attempts \in Nat
  BY <1>1 DEF Row
<1>5. /\ \A x \in Worker : pc[x] \in Sending => job[x].key # k
      /\ \A s \in Sweeper : view[s][k].listed => ~PastSettle(view[s][k])
  BY OpenRowIsFree
<1>6. \A q \in Requests : q \in Request /\ q.key \in Key /\ q.n \in Nat
  BY DEF Inv, TypeOK, Requests, Request
<1> HIDE DEF new
<1>7. RequestsMatchRows'
  <2> SUFFICES ASSUME NEW q \in Requests'
               PROVE  /\ q.ident = row'[q.key].ident
                      /\ q.content = row'[q.key].content
                      /\ q.to = row'[q.key].to
                      /\ q.n <= row'[q.key].attempts
                      /\ q.n < row'[q.key].attempts \/ row'[q.key].status = "failed"
                            => TransportOf[q.ident] = "oneshot" /\ row'[q.key].exact
    BY DEF RequestsMatchRows
  <2>1. q = new \/ q \in Requests
    BY <1>1 DEF Requests
  <2>2. CASE q = new
    BY <1>2, <1>3, <1>4, <2>2
  <2>3. CASE q \in Requests /\ q.key = k
    <3>1. q.n <= row[k].attempts
      BY <2>3 DEF Inv, RequestsMatchRows
    <3> QED BY <1>2, <1>4, <1>6, <2>3, <3>1
  <2>4. CASE q \in Requests /\ q.key # k
    BY <1>2, <1>6, <2>4 DEF Inv, RequestsMatchRows
  <2> QED BY <2>1, <2>2, <2>3, <2>4
<1>8. WorkersMatchRows'
  <2> SUFFICES ASSUME NEW x \in Worker, pc'[x] \in Sending
               PROVE  /\ job'[x] = RequestOf(job'[x].key, row'[job'[x].key])
                      /\ row'[job'[x].key].status # "failed"
                      /\ age'[job'[x].key] <= CallBound
    BY DEF WorkersMatchRows
  <2>1. CASE x = w
    BY <1>2, <1>3, <2>1, ConstantsAssumption DEF new, Age
  <2>2. CASE x # w
    <3>1. /\ pc[x] \in Sending /\ job'[x] = job[x]
          /\ job[x].key # k /\ job[x].key \in Key
      BY <1>2, <1>5, <2>2 DEF Inv, Claimed, Sending, Request
    <3> QED BY <1>2, <3>1 DEF Inv, WorkersMatchRows
  <2> QED BY <2>1, <2>2
<1>9. OneCallPerKey'
  BY <1>2, <1>3, <1>5 DEF Inv, OneCallPerKey
<1>10. YoungRequests'
  BY <1>1, <1>2, <1>3, <1>6, ConstantsAssumption DEF Inv, YoungRequests, Requests, Age
<1>11. RowsMatchRoutes'
  BY <1>2 DEF Inv, RowsMatchRoutes
<1>12. CopiesFiled'
  BY <1>1 DEF Inv, CopiesFiled
<1>13. ViewsHold'
  BY <1>1, <1>2, <1>5 DEF Inv, ViewsHold, PastSettle
<1> QED BY <1>7, <1>8, <1>9, <1>10, <1>11, <1>12, <1>13 DEF Inv, Typed

LEMMA InvClaim ==
    ASSUME Inv, Typed', Deployment, NEW w \in Worker, NEW k \in Key, Claim(w, k)
    PROVE  Inv'
<1>1. row \in [Key -> Row] /\ row[k] \in Row
  BY DEF Inv, TypeOK
<1>2. ASSUME NEW i \in Route[k], NEW c \in Content, NEW a \in Recipients[k],
             ClaimNew(w, k, i, c, a)
      PROVE  Inv'
  <2> DEFINE r == FirstRow(i, c, a)
  <2>1. /\ r \in Row /\ r.status = "pending" /\ r.ident = i /\ r.attempts = 1
    BY FirstRowType, ConstantsAssumption DEF FirstRow
  <2>2. row[k].status = "absent" /\ row[k].attempts = 0 /\ Submit(w, k, r)
    BY <1>2 DEF ClaimNew, Inv, Claimed
  <2>3. \A q \in Requests : q.key # k
    BY <2>2 DEF Inv, RequestsMatchRows, TypeOK, Requests, Request
  <2> HIDE DEF r
  <2> QED BY <2>1, <2>2, <2>3, InvSubmit
<1>3. ASSUME NEW i \in Route[k], NEW c \in Content, ClaimRetry(w, k, i, c)
      PROVE  Inv'
  <2> DEFINE r == RetriedRow(row[k], i, c)
  <2>1. i \in Identity
    BY ConstantsAssumption
  <2>2. row[k].status = "failed" /\ row[k].attempts < MaxAttempts /\ Submit(w, k, r)
    BY <1>3 DEF ClaimRetry
  <2>3. /\ r \in Row /\ r.status = "pending" /\ r.attempts = row[k].attempts + 1
        /\ r.ident = i /\ r.to = row[k].to /\ r.exact = row[k].exact
        /\ row[k].exact => r.content = row[k].content
    BY <1>1, <2>1, <2>2, RetriedRowType
  <2> HIDE DEF r
  <2>4. ASSUME NEW q \in Requests, q.key = k
        PROVE  /\ q.ident = r.ident /\ q.content = r.content /\ q.to = r.to
               /\ TransportOf[q.ident] = "oneshot" /\ r.exact
    <3>1. /\ q.ident = row[k].ident /\ q.content = row[k].content /\ q.to = row[k].to
          /\ TransportOf[q.ident] = "oneshot" /\ row[k].exact
      BY <2>2, <2>4 DEF Inv, RequestsMatchRows
    <3>2. row[k].ident \in Route[k]
      BY <2>2 DEF Inv, RowsMatchRoutes
    <3>3. q.ident = i
      BY <3>1, <3>2 DEF Deployment, OneShotRoute
    <3> QED BY <2>3, <3>1, <3>3
  <2> QED BY <2>2, <2>3, <2>4, InvSubmit
<1>4. CASE ClaimStale(w, k)
  <2>1. /\ row' = [row EXCEPT ![k] = Marked(@, "uncertain")]
        /\ UNCHANGED <<age, pc, job, prior, net, accepted, sent, receipts, view>>
    BY <1>4 DEF ClaimStale, workerVars, wireVars
  <2>2. "uncertain" \in Statuses \ {"absent"}
    BY DEF Statuses
  <2>3. RowsKept /\ \A o \in Key : ~Opens(o)
    BY <2>1, <2>2, MarkKeeps
  <2> QED BY <2>1, <2>3, InvKeep
<1>5. CASE ClaimReplay(w, k)
  <2>1. /\ row' = row /\ pc' = [pc EXCEPT ![w] = "replay"]
        /\ job' = [job EXCEPT ![w] = RequestOf(k, row[k])]
        /\ UNCHANGED <<age, net, accepted, sent, receipts, view>>
    BY <1>5 DEF ClaimReplay, wireVars
  <2>2. RowsKept /\ \A o \in Key : ~Opens(o)
    BY <2>1 DEF RowsKept, Opens, Inv, RowsMatchRoutes
  <2>3. \A x \in Worker : pc'[x] \in Sending => pc[x] \in Sending /\ job'[x] = job[x]
    BY <2>1 DEF Inv, TypeOK, Sending
  <2> QED BY <2>1, <2>2, <2>3, InvKeep
<1> QED BY <1>2, <1>3, <1>4, <1>5 DEF Claim

LEMMA InvAttempt ==
    ASSUME Inv, Typed', Deployment, NEW w \in Worker, Attempt(w) \/ Crash(w)
    PROVE  Inv'
<1> DEFINE k == job[w].key
<1>1. /\ pc[w] # "idle" /\ job[w] \in Request /\ k \in Key
      /\ pc \in [Worker -> WorkerStates] /\ job \in [Worker -> Request \cup {NoJob}]
  BY DEF Attempt, Crash, TransportOk, WriteReceipt, MarkSettled, FailDefinite,
         FailUnknown, ReplayReceipt, ReplayMark, Sending, Inv, Claimed, TypeOK, Request
<1>2. ASSUME Done(w)
      PROVE  \A x \in Worker : pc'[x] \in Sending =>
                 x # w /\ pc[x] \in Sending /\ job'[x] = job[x]
  BY <1>1, <1>2 DEF Done, Sending
<1>3. ASSUME row' = row
      PROVE  RowsKept /\ \A o \in Key : ~Opens(o)
  BY <1>3 DEF RowsKept, Opens, Inv, RowsMatchRoutes
<1>4. CASE TransportOk(w)
  <2>1. /\ row' = row /\ UNCHANGED <<age, job, net, accepted, view>>
        /\ sent \subseteq sent'
        /\ pc[w] \in Sending /\ pc' = [pc EXCEPT ![w] = "accepted"]
    BY <1>4 DEF TransportOk, Sending
  <2>2. \A x \in Worker : pc'[x] \in Sending => pc[x] \in Sending
    BY <1>1, <2>1
  <2> QED BY <1>3, <2>1, <2>2, InvKeep
<1>5. CASE WriteReceipt(w) \/ ReplayReceipt(w)
  <2>1. /\ row' = row /\ UNCHANGED <<age, job, net, accepted, sent, view>>
        /\ \/ pc[w] \in Sending
           \/ pc' = [pc EXCEPT ![w] = "replayed"]
        /\ \E state \in WorkerStates : pc' = [pc EXCEPT ![w] = state]
    BY <1>5 DEF WriteReceipt, ReplayReceipt, wireVars, Sending, WorkerStates
  <2>2. \A x \in Worker : pc'[x] \in Sending => pc[x] \in Sending
    BY <1>1, <2>1 DEF Sending
  <2> QED BY <1>3, <2>1, <2>2, InvKeep
<1>6. CASE Crash(w)
  <2>1. row' = row /\ Done(w) /\ UNCHANGED <<age, net, accepted, sent, view>>
    BY <1>6 DEF Crash, wireVars
  <2> QED BY <1>2, <1>3, <2>1, InvKeep
<1>7. CASE MarkSettled(w) \/ ReplayMark(w)
  <2>1. /\ Done(w) /\ UNCHANGED <<age, net, accepted, sent, view>>
        /\ \E status \in {"submitted", "confirmed", "not_found"} :
              row' = [row EXCEPT ![k] = [Marked(@, status) EXCEPT !.receipt = TRUE]]
    BY <1>1, <1>7
    DEF MarkSettled, ReplayMark, SettledStatus, Inv, Claimed, wireVars
  <2>2. {"submitted", "confirmed", "not_found"} \subseteq Statuses \ {"absent", "failed"}
    BY DEF Statuses
  <2>3. RowsKept /\ \A o \in Key : ~Opens(o)
    BY <1>1, <2>1, <2>2, MarkKeeps
  <2> QED BY <1>2, <2>1, <2>3, InvKeep
<1>8. CASE FailUnknown(w)
  <2>1. /\ Done(w) /\ UNCHANGED <<age, net, accepted, sent, view>>
        /\ row' = [row EXCEPT ![k] = Marked(@, "uncertain")]
    BY <1>8 DEF FailUnknown, wireVars
  <2>2. "uncertain" \in Statuses \ {"absent"}
    BY DEF Statuses
  <2>3. RowsKept /\ \A o \in Key : ~Opens(o)
    BY <1>1, <2>1, <2>2, MarkKeeps
  <2> QED BY <1>2, <2>1, <2>3, InvKeep
<1>9. CASE FailDefinite(w)
  <2>1. /\ Done(w) /\ UNCHANGED <<age, accepted, sent, view>>
        /\ net' = net \ {job[w]} /\ job[w] \notin accepted
        /\ pc[w] \in Sending
        /\ row' = [row EXCEPT ![k] = Marked(@, "failed")]
    BY <1>9 DEF FailDefinite, Sending
  <2>2. "failed" \in Statuses \ {"absent"}
    BY DEF Statuses
  <2>3. RowsKept /\ \A o \in Key : Opens(o) => o = k
    BY <1>1, <2>1, <2>2, MarkKeeps
  <2>4. ASSUME NEW r \in Requests', r.key = k
        PROVE  TransportOf[r.ident] = "oneshot" /\ row[k].exact
    <3>1. r \in Requests /\ r # job[w] /\ r \in Request
      BY <2>1 DEF Requests, Inv, TypeOK
    <3>2. job[w] = RequestOf(k, row[k])
      BY <2>1 DEF Inv, WorkersMatchRows
    <3>3. /\ r.ident = row[k].ident /\ r.content = row[k].content /\ r.to = row[k].to
          /\ r.n <= row[k].attempts
          /\ r.n < row[k].attempts => TransportOf[r.ident] = "oneshot" /\ row[k].exact
      BY <2>4, <3>1 DEF Inv, RequestsMatchRows
    <3>4. r.n # row[k].attempts
      BY <1>1, <2>4, <3>1, <3>2, <3>3 DEF RequestOf, Request
    <3>5. r.n \in Nat /\ row[k].attempts \in Nat
      BY <1>1, <3>1 DEF Request, Inv, TypeOK, Row
    <3> QED BY <3>3, <3>4, <3>5
  <2>5. \A x \in Worker : pc'[x] \in Sending => job'[x].key # k
    BY <1>2, <2>1 DEF Inv, OneCallPerKey
  <2>6. \A s \in Sweeper : view'[s][k].listed => ~PastSettle(view'[s][k])
    <3>1. ASSUME NEW s \in Sweeper, view[s][k].listed, PastSettle(view[s][k])
          PROVE  FALSE
      <4>1. age[k] >= SETTLE /\ age[k] <= CallBound
        BY <1>1, <2>1, <3>1 DEF Inv, ViewsHold, WorkersMatchRows
      <4>2. age[k] \in Nat /\ CallBound \in Nat
        BY <1>1, ConstantsAssumption DEF Inv, TypeOK, Age
      <4> QED BY <4>1, <4>2 DEF Deployment, TimeoutsBeforeSettle, SETTLE
    <3> QED BY <2>1, <3>1 DEF PastSettle
  <2> QED BY <1>2, <2>1, <2>3, <2>4, <2>5, <2>6, InvKeep
<1> QED BY <1>4, <1>5, <1>6, <1>7, <1>8, <1>9 DEF Attempt

LEMMA InvWire ==
    ASSUME Inv, Typed', Deployment, NEW r \in net, Accept(r) \/ Lose(r)
    PROVE  Inv'
<1>1. CASE Lose(r)
  <2>1. /\ row' = row /\ net' \subseteq net
        /\ UNCHANGED <<age, pc, job, accepted, sent, view>>
    BY <1>1 DEF Lose, workerVars
  <2>2. RowsKept /\ \A o \in Key : ~Opens(o)
    BY <2>1 DEF RowsKept, Opens, Inv, RowsMatchRoutes
  <2> QED BY <2>1, <2>2, InvKeep
<1>2. CASE Accept(r)
  <2>1. /\ net' = net \ {r} /\ accepted' = accepted \cup {r}
        /\ sent \subseteq sent'
        /\ FilesOwnCopy(r.ident) => \E c \in sent' : c.req = r
        /\ row' = row /\ UNCHANGED <<age, pc, job, view>>
    <3>1. CASE FilesOwnCopy(r.ident)
      <4>1. PICK bare \in BOOLEAN : sent' = sent \cup {[req |-> r, bare |-> bare]}
        BY <1>2, <3>1 DEF Accept
      <4>2. [req |-> r, bare |-> bare].req = r
        OBVIOUS
      <4> HIDE DEF FilesOwnCopy
      <4> QED BY <1>2, <4>1, <4>2 DEF Accept, workerVars
    <3>2. CASE ~FilesOwnCopy(r.ident)
      BY <1>2, <3>2 DEF Accept, workerVars
    <3> QED BY <3>1, <3>2
  <2>2. Requests' = Requests
    BY <2>1 DEF Requests
  <2>3. RequestsMatchRows'
    BY <2>1, <2>2 DEF Inv, RequestsMatchRows
  <2>4. WorkersMatchRows' /\ OneCallPerKey' /\ RowsMatchRoutes' /\ YoungRequests'
    BY <2>1 DEF Inv, WorkersMatchRows, OneCallPerKey, RowsMatchRoutes, YoungRequests
  <2>5. CopiesFiled'
    BY <2>1 DEF Inv, CopiesFiled
  <2>6. ASSUME NEW s \in Sweeper, view[s][r.key].listed, PastSettle(view[s][r.key])
        PROVE  FALSE
    <3>1. r.key \in Key
      BY DEF Inv, TypeOK, Request
    <3>2. age[r.key] >= SETTLE /\ age[r.key] <= NetBound
      BY <2>6, <3>1 DEF Inv, ViewsHold, YoungRequests
    <3>3. age[r.key] \in Nat /\ NetBound \in Nat
      BY <3>1, ConstantsAssumption DEF Inv, TypeOK, Age
    <3> QED BY <3>2, <3>3 DEF Deployment, TimeoutsBeforeSettle, SETTLE
  <2>7. ViewsHold'
    BY <2>1, <2>6 DEF Inv, ViewsHold, PastSettle
  <2> QED BY <2>3, <2>4, <2>5, <2>7 DEF Inv, Typed
<1> QED BY <1>1, <1>2

LEMMA InvGrow ==
    ASSUME Inv, Typed', Deployment, NEW k \in Key, GrowOld(k)
    PROVE  Inv'
<1>1. /\ age' = [age EXCEPT ![k] = @ + 1]
      /\ UNCHANGED <<row, pc, job, net, accepted, sent, view>>
      /\ age[k] >= NetBound => \A r \in net : r.key # k
      /\ age[k] >= CallBound => \A w \in Worker : pc[w] \in Sending => job[w].key # k
  BY DEF GrowOld, workerVars, wireVars
<1>2. /\ age \in [Key -> Age]
      /\ \A o \in Key : age[o] \in Nat
      /\ NetBound \in Nat /\ CallBound \in Nat
  BY ConstantsAssumption DEF Inv, TypeOK, Age
<1>3. age'[k] = age[k] + 1 /\ \A o \in Key \ {k} : age'[o] = age[o]
  BY <1>1, <1>2
<1>4. RequestsMatchRows' /\ OneCallPerKey' /\ RowsMatchRoutes' /\ CopiesFiled'
  BY <1>1 DEF Inv, RequestsMatchRows, Requests, OneCallPerKey, RowsMatchRoutes, CopiesFiled
<1>5. YoungRequests'
  <2> SUFFICES ASSUME NEW r \in net
               PROVE  age'[r.key] <= NetBound
    BY <1>1 DEF YoungRequests
  <2>1. r.key \in Key /\ age[r.key] <= NetBound
    BY DEF Inv, TypeOK, Request, YoungRequests
  <2>2. r.key = k => age[k] < NetBound
    BY <1>1, <1>2
  <2> QED BY <1>2, <1>3, <2>1, <2>2
<1>6. WorkersMatchRows'
  <2> SUFFICES ASSUME NEW x \in Worker, pc[x] \in Sending
               PROVE  /\ job[x] = RequestOf(job[x].key, row[job[x].key])
                      /\ row[job[x].key].status # "failed"
                      /\ age'[job[x].key] <= CallBound
    BY <1>1 DEF WorkersMatchRows
  <2>1. job[x].key \in Key
    BY DEF Inv, Claimed, Sending, Request
  <2>2. job[x].key = k => age[k] < CallBound
    BY <1>1, <1>2
  <2> QED BY <1>2, <1>3, <2>1, <2>2 DEF Inv, WorkersMatchRows
<1>7. ViewsHold'
  <2> SUFFICES ASSUME NEW s \in Sweeper, NEW o \in Key,
                      view[s][o].listed, PastSettle(view[s][o])
               PROVE  age'[o] >= SETTLE
    BY <1>1 DEF Inv, ViewsHold, PastSettle
  <2>1. age[o] >= SETTLE
    BY DEF Inv, ViewsHold
  <2> QED BY <1>2, <1>3, <2>1 DEF SETTLE
<1> QED BY <1>4, <1>5, <1>6, <1>7 DEF Inv, Typed

LEMMA InvSweep ==
    ASSUME Inv, Typed', Deployment, NEW s \in Sweeper, Sweep(s)
    PROVE  Inv'
<1>1. UNCHANGED <<age, pc, job, prior, net, accepted, sent, receipts>>
  BY SweepCases
<1>2. ASSUME row' = row
      PROVE  /\ RowsKept /\ \A o \in Key : ~Opens(o)
             /\ ViewsHold' => Inv'
  <2>1. RowsKept /\ \A o \in Key : ~Opens(o)
    BY <1>2 DEF RowsKept, Opens, Inv, RowsMatchRoutes
  <2>2. /\ RequestsMatchRows' /\ WorkersMatchRows' /\ OneCallPerKey' /\ YoungRequests'
        /\ RowsMatchRoutes' /\ CopiesFiled'
    BY <1>1, <1>2
    DEF Inv, RequestsMatchRows, Requests, WorkersMatchRows, OneCallPerKey,
        YoungRequests, RowsMatchRoutes, CopiesFiled
  <2> QED BY <2>1, <2>2 DEF Inv, Typed
<1>3. view \in [Sweeper -> [Key -> View \cup {NoView}]]
  BY DEF Inv, TypeOK
<1>4. CASE row' = row /\ SweepList(s)
  <2>1. view' = [view EXCEPT ![s] = [k \in Key |->
                   IF Unconfirmed(k)
                   THEN [listed |-> TRUE, row |-> row[k], age |-> age[k],
                         read |-> FALSE, found |-> {}, bare |-> FALSE]
                   ELSE NoView]]
    BY <1>4 DEF SweepList
  <2>2. ASSUME NEW x \in Sweeper, NEW k \in Key, view'[x][k].listed, PastSettle(view'[x][k])
        PROVE  \/ x # s /\ view'[x][k] = view[x][k]
               \/ /\ view'[x][k].row = row[k] /\ view'[x][k].age = age[k]
                  /\ ~view'[x][k].read
    BY <1>3, <2>1, <2>2 DEF NoView
  <2>3. ASSUME NEW x \in Sweeper, NEW k \in Key, view'[x][k].listed, PastSettle(view'[x][k]),
               view'[x][k].row = row[k], view'[x][k].age = age[k]
        PROVE  age[k] >= SETTLE /\ row[k].status # "failed" /\ row[k].exact
    BY <2>3 DEF PastSettle, Inv, RowsMatchRoutes
  <2>4. ViewsHold'
    <3> SUFFICES ASSUME NEW x \in Sweeper, NEW k \in Key,
                        view'[x][k].listed, PastSettle(view'[x][k])
                 PROVE  /\ age'[k] >= SETTLE
                        /\ row'[k].status # "failed" /\ row'[k].exact
                        /\ RequestOf(k, row'[k]) = RequestOf(k, view'[x][k].row)
                        /\ /\ view'[x][k].read /\ view'[x][k].found = {} /\ ~view'[x][k].bare
                           /\ SentEvidence(view'[x][k].row.ident)
                           => \A r \in accepted' : r.key # k
      BY DEF ViewsHold, PastSettle
    <3>1. CASE view'[x][k] = view[x][k]
      BY <1>1, <1>4, <3>1 DEF Inv, ViewsHold
    <3>2. CASE /\ view'[x][k].row = row[k] /\ view'[x][k].age = age[k]
               /\ ~view'[x][k].read
      BY <1>1, <1>4, <2>3, <3>2
    <3> QED BY <2>2, <3>1, <3>2
  <2> QED BY <1>2, <1>4, <2>4
<1>5. ASSUME row' = row, NEW k \in Key, SweepRead(s, k)
      PROVE  Inv'
  <2> DEFINE v == view[s][k]
  <2>1. v.listed /\ v \in View /\ view' = [view EXCEPT ![s][k] = Looked(k, v)]
    BY <1>3, <1>5 DEF SweepRead, Turn, NoView
  <2>2. Typed
    BY DEF Inv, Typed
  <2>3. /\ Looked(k, v).row = v.row /\ Looked(k, v).age = v.age
        /\ Looked(k, v).found = {} /\ ~Looked(k, v).bare => Matches(k, v.row) = {}
    BY <2>1, <2>2, LookedType
  <2>4. ASSUME PastSettle(v), SentEvidence(v.row.ident), Matches(k, v.row) = {},
               NEW r \in accepted, r.key = k
        PROVE  FALSE
    <3>1. RequestOf(k, row[k]) = RequestOf(k, v.row)
      BY <2>1, <2>4 DEF Inv, ViewsHold
    <3>2. /\ r.ident = row[k].ident /\ r.content = row[k].content /\ r.to = row[k].to
      BY <2>4 DEF Inv, RequestsMatchRows, Requests
    <3>3. r.ident = v.row.ident /\ r.content = v.row.content /\ r.to = v.row.to
      BY <3>1, <3>2 DEF RequestOf
    <3>4. FilesOwnCopy(r.ident)
      BY <2>4, <3>3 DEF SentEvidence, FilesOwnCopy
    <3>5. PICK c \in sent : c.req = r
      BY <3>4 DEF Inv, CopiesFiled
    <3>6. c \in Matches(k, v.row)
      BY <2>4, <3>3, <3>5 DEF Matches
    <3> QED BY <2>4, <3>6
  <2> HIDE DEF v
  <2>5. /\ view'[s][k] = Looked(k, v)
        /\ \A x \in Sweeper, o \in Key : x # s \/ o # k => view'[x][o] = view[x][o]
    BY <1>3, <2>1
  <2>6. ViewsHold'
    <3> SUFFICES ASSUME NEW x \in Sweeper, NEW o \in Key,
                        view'[x][o].listed, PastSettle(view'[x][o])
                 PROVE  /\ age'[o] >= SETTLE
                        /\ row'[o].status # "failed" /\ row'[o].exact
                        /\ RequestOf(o, row'[o]) = RequestOf(o, view'[x][o].row)
                        /\ /\ view'[x][o].read /\ view'[x][o].found = {} /\ ~view'[x][o].bare
                           /\ SentEvidence(view'[x][o].row.ident)
                           => \A r \in accepted' : r.key # o
      BY DEF ViewsHold, PastSettle
    <3>1. CASE x # s \/ o # k
      BY <1>1, <1>5, <2>5, <3>1 DEF Inv, ViewsHold
    <3>2. CASE x = s /\ o = k
      <4>1. PastSettle(v)
        BY <2>3, <2>5, <3>2 DEF PastSettle
      <4>2. /\ age[k] >= SETTLE /\ row[k].status # "failed" /\ row[k].exact
            /\ RequestOf(k, row[k]) = RequestOf(k, v.row)
        BY <2>1, <4>1 DEF Inv, ViewsHold, v
      <4> QED BY <1>1, <1>5, <2>3, <2>4, <2>5, <3>2, <4>1, <4>2
    <3> QED BY <3>1, <3>2
  <2> QED BY <1>2, <1>5, <2>6
<1>6. ASSUME row' = row, NEW K \in SUBSET Key,
             view' = [view EXCEPT ![s] =
                        [k \in Key |-> IF k \in K THEN NoView ELSE @[k]]]
      PROVE  Inv'
  <2>1. \A x \in Sweeper, k \in Key : view'[x][k].listed => view'[x][k] = view[x][k]
    BY <1>3, <1>6 DEF NoView
  <2> QED BY <1>1, <1>2, <1>6, <2>1, InvKeep
<1>7. ASSUME NEW k \in Key, view' = [view EXCEPT ![s][k] = NoView]
      PROVE  /\ \A x \in Sweeper, o \in Key : view'[x][o].listed => view'[x][o] = view[x][o]
             /\ ~view'[s][k].listed
  BY <1>3, <1>7 DEF NoView
<1>8. ASSUME row' = row, NEW k \in Key, view' = [view EXCEPT ![s][k] = NoView]
      PROVE  Inv'
  BY <1>1, <1>2, <1>7, <1>8, InvKeep
<1>9. ASSUME NEW k \in Key, NEW status \in {"confirmed", "not_found"},
             SweepMarks(s, k, status)
      PROVE  Inv'
  <2>1. /\ row' = [row EXCEPT ![k] = Marked(@, status)]
        /\ view' = [view EXCEPT ![s][k] = NoView]
        /\ status \in Statuses \ {"absent"} /\ status # "failed"
    BY <1>9 DEF SweepMarks, Statuses
  <2>2. RowsKept /\ \A o \in Key : ~Opens(o)
    BY <2>1, MarkKeeps
  <2> QED BY <1>1, <1>7, <2>1, <2>2, InvKeep
<1>10. ASSUME NEW k \in Key, SweepMarks(s, k, "failed"), PastSettle(view[s][k]),
              \/ TransportOf[view[s][k].row.ident] = "oneshot"
              \/ /\ view[s][k].read /\ view[s][k].found = {}
                 /\ ~view[s][k].bare
                 /\ SentEvidence(view[s][k].row.ident)
       PROVE  Inv'
  <2> DEFINE v == view[s][k]
  <2>1. /\ row' = [row EXCEPT ![k] = Marked(@, "failed")]
        /\ view' = [view EXCEPT ![s][k] = NoView]
        /\ "failed" \in Statuses \ {"absent"} /\ v.listed
    BY <1>10 DEF SweepMarks, Statuses
  <2>2. RowsKept /\ \A o \in Key : Opens(o) => o = k
    BY <2>1, MarkKeeps
  <2>3. /\ age[k] >= SETTLE /\ row[k].exact
        /\ RequestOf(k, row[k]) = RequestOf(k, v.row)
        /\ v.read /\ v.found = {} /\ ~v.bare /\ SentEvidence(v.row.ident)
              => \A r \in accepted : r.key # k
    BY <1>10, <2>1 DEF Inv, ViewsHold
  <2>4. age[k] > NetBound /\ age[k] > CallBound
    <3>1. age[k] \in Nat /\ NetBound \in Nat /\ CallBound \in Nat
      BY ConstantsAssumption DEF Inv, TypeOK, Age
    <3> QED BY <2>3, <3>1 DEF Deployment, TimeoutsBeforeSettle, SETTLE
  <2>5. \A x \in Worker : pc'[x] \in Sending => job'[x].key # k
    <3>1. ASSUME NEW x \in Worker, pc[x] \in Sending, job[x].key = k
          PROVE  FALSE
      <4>1. age[k] <= CallBound
        BY <3>1 DEF Inv, WorkersMatchRows
      <4>2. age[k] \in Nat /\ CallBound \in Nat
        BY ConstantsAssumption DEF Inv, TypeOK, Age
      <4> QED BY <2>4, <4>1, <4>2
    <3> QED BY <1>1, <3>1
  <2>6. ASSUME NEW r \in Requests', r.key = k
        PROVE  TransportOf[r.ident] = "oneshot" /\ row[k].exact
    <3>1. r \in Requests /\ r.ident = row[k].ident
      BY <1>1, <2>6 DEF Requests, Inv, RequestsMatchRows
    <3>2. r \notin net
      <4>1. r \in net => age[k] <= NetBound
        BY <2>6 DEF Inv, YoungRequests
      <4>2. age[k] \in Nat /\ NetBound \in Nat
        BY ConstantsAssumption DEF Inv, TypeOK, Age
      <4> QED BY <2>4, <4>1, <4>2
    <3>3. r \in accepted
      BY <3>1, <3>2 DEF Requests
    <3>4. TransportOf[v.row.ident] = "oneshot"
      BY <1>10, <2>3, <2>6, <3>3
    <3>5. v.row.ident = row[k].ident
      BY <2>3 DEF RequestOf
    <3> QED BY <2>3, <3>1, <3>4, <3>5
  <2>7. ASSUME NEW x \in Sweeper
        PROVE  ~view'[x][k].listed
    BY <1>7, <2>1 DEF Deployment, OneSweeper
  <2> QED BY <1>1, <1>7, <2>1, <2>2, <2>5, <2>6, <2>7, InvKeep
<1> QED BY <1>4, <1>5, <1>6, <1>8, <1>9, <1>10, SweepCases

LEMMA InvNext ==
    ASSUME Inv, Deployment, [Next]_vars
    PROVE  Inv'
<1>1. Typed'
  BY TypedNext DEF Inv, Typed
<1>2. CASE UNCHANGED vars
  BY <1>2 DEF vars, Inv, TypeOK, Claimed, RequestsMatchRows, Requests, WorkersMatchRows,
              OneCallPerKey, YoungRequests, RowsMatchRoutes, CopiesFiled, ViewsHold, PastSettle
<1>3. CASE Next
  BY <1>1, <1>3, InvClaim, InvAttempt, InvWire, InvGrow, InvSweep DEF Next
<1> QED BY <1>2, <1>3

\* With one sweep at a time, and timeouts shorter than UNCERTAIN_SETTLE_MS, the
\* ledger, its workers and its sweep keep the invariant.
THEOREM Invariance ==
    ASSUME Deployment
    PROVE  Spec => []Inv
<1>1. Init => Inv
  BY InvInit
<1>2. Inv /\ [Next]_vars => Inv'
  BY InvNext
<1> QED BY <1>1, <1>2, PTL DEF Spec

-----------------------------------------------------------------------------
(* What the invariant is for.                                              *)

LEMMA OneMessage == Inv => NoDuplicateEmail
<1> SUFFICES ASSUME Inv, NEW r \in accepted, NEW q \in accepted, r.key = q.key
             PROVE  Message(r) = Message(q)
  BY DEF NoDuplicateEmail
<1> DEFINE o == row[r.key]
<1>1. /\ r \in Request /\ q \in Request
      /\ r.ident \in Identity /\ TransportOf[r.ident] \in Transports
  BY ConstantsAssumption DEF Inv, TypeOK, Request
<1>2. /\ r.ident = o.ident /\ r.content = o.content /\ r.to = o.to /\ r.n <= o.attempts
      /\ q.ident = o.ident /\ q.content = o.content /\ q.to = o.to /\ q.n <= o.attempts
      /\ r.n < o.attempts => TransportOf[r.ident] = "oneshot"
      /\ q.n < o.attempts => TransportOf[r.ident] = "oneshot"
  BY DEF Inv, RequestsMatchRows, Requests
<1>3. r.n \in Nat /\ q.n \in Nat /\ o.attempts \in Nat
  BY <1>1 DEF Inv, TypeOK, Request, Row
<1>4. TransportOf[r.ident] = "gmail" => r.n = q.n
  BY <1>2, <1>3
<1> QED BY <1>1, <1>2, <1>4 DEF Message, Transports

\* Two accepted requests of one email are one message: an SMTP retry carries the
\* key's Message-ID, a OneShot one the recorded sender, address and text, and a
\* Gmail one is never made while the first is out.
THEOREM OneMessagePerEmail ==
    ASSUME Deployment
    PROVE  Spec => []NoDuplicateEmail
BY OneMessage, Invariance, PTL

\* `failed` is safe to retry: what is out or may still arrive is a OneShot
\* request whose text is pinned, which the platform replays.
THEOREM FailedIsSafeToRetry ==
    ASSUME Deployment
    PROVE  Spec => []FailedIsNotOut
<1>1. Inv => FailedIsNotOut
  BY DEF Inv, RequestsMatchRows, Requests, FailedIsNotOut
<1> QED BY <1>1, Invariance, PTL

\* One caller at a transport per email, whatever the claims race with.
THEOREM OneCallerPerEmail ==
    ASSUME Deployment
    PROVE  Spec => []OneCallPerKey
<1>1. Inv => OneCallPerKey
  BY DEF Inv
<1> QED BY <1>1, Invariance, PTL

\* The record is what went out: content and recipient of every request of an
\* email are those of its row.
THEOREM RecordIsMail ==
    ASSUME Deployment
    PROVE  Spec => []RecordMatchesMail
<1>1. Inv => RecordMatchesMail
  BY DEF Inv, RequestsMatchRows, Requests, RecordMatchesMail
<1> QED BY <1>1, Invariance, PTL

-----------------------------------------------------------------------------
(* What the ledger tells of an email is true: a row that reads submitted   *)
(* or confirmed is an email that is out, and stays closed.                 *)

\* Copies in Sent come from accepted requests.
CopiesOut == \A c \in sent : c.req \in accepted

\* A worker that goes on to write an outcome has the request, or was shown the
\* row, of an email that is out.
WorkersOut ==
    \A w \in Worker :
        /\ pc[w] \in {"accepted", "receipted"} => job[w] \in accepted
        /\ pc[w] \in {"replay", "replayed"} /\ prior[w] \in {"submitted", "confirmed"}
              => \E r \in accepted : r.key = job[w].key

\* A sweep looks only into mailboxes with a Sent folder, for a sender the email
\* may have; what it found is out, and is another email's only where a Gmail
\* lookup cannot tell the two apart.
ViewsFound ==
    \A s \in Sweeper, k \in Key :
        LET v == view[s][k]
        IN  v.listed =>
              /\ v.row.ident \in Route[k]
              /\ v.read => TransportOf[v.row.ident] # "oneshot"
              /\ \A m \in v.found : \E r \in accepted :
                    /\ m = Message(r)
                    /\ r.key # k =>
                          /\ TransportOf[v.row.ident] = "gmail"
                          /\ r.ident = v.row.ident /\ r.to = v.row.to
                          /\ r.content = v.row.content

Settled == {"submitted", "confirmed", "not_found"}

OneShotKey(k) == \A i \in Route[k] : TransportOf[i] = "oneshot"

\* A settled row of a OneShot email stays settled: nobody is at the transport,
\* no sweep holds an old unknown outcome of it, and whoever replays it finds it
\* as the claim left it.
OneShotSteady ==
    \A k \in Key : OneShotKey(k) =>
        /\ row[k].status \in Settled =>
              /\ \A w \in Worker : pc[w] \in Sending => job[w].key # k
              /\ \A s \in Sweeper : view[s][k].listed => ~PastSettle(view[s][k])
        /\ \A w \in Worker : pc[w] \in {"replay", "replayed"} /\ job[w].key = k
              => row[k].status \in Settled

\* What is still on the wire is its row's latest attempt, and the row is not
\* open for another.
NetIsCurrent ==
    \A r \in net : r.n = row[r.key].attempts /\ row[r.key].status # "failed"

OutInv ==
    /\ CopiesOut
    /\ WorkersOut
    /\ ViewsFound
    /\ OneShotSteady
    /\ NetIsCurrent
    /\ SettledIsOut

\* An unknown outcome old enough to be settled has nobody at the transport and
\* nothing on the wire.
LEMMA PastSettleIsQuiet ==
    ASSUME Inv, Deployment, NEW s \in Sweeper, NEW k \in Key,
           view[s][k].listed, PastSettle(view[s][k])
    PROVE  /\ \A x \in Worker : pc[x] \in Sending => job[x].key # k
           /\ \A r \in net : r.key # k
<1>1. age[k] >= SETTLE
  BY DEF Inv, ViewsHold
<1>2. age[k] \in Nat /\ CallBound \in Nat /\ NetBound \in Nat
  BY ConstantsAssumption DEF Inv, TypeOK, Age
<1>3. age[k] > CallBound /\ age[k] > NetBound
  BY <1>1, <1>2 DEF Deployment, TimeoutsBeforeSettle, SETTLE
<1>4. ASSUME NEW x \in Worker, pc[x] \in Sending, job[x].key = k
      PROVE  FALSE
  BY <1>2, <1>3, <1>4 DEF Inv, WorkersMatchRows
<1>5. ASSUME NEW r \in net, r.key = k
      PROVE  FALSE
  BY <1>2, <1>3, <1>5 DEF Inv, YoungRequests
<1> QED BY <1>4, <1>5

\* An email that is out and open again, or attempted again, is a OneShot one.
LEMMA OutAndRepeated ==
    ASSUME Inv, Deployment, NEW r \in Requests,
           r.n < row[r.key].attempts \/ row[r.key].status = "failed"
    PROVE  OneShotKey(r.key)
<1>1. r.key \in Key /\ r.n \in 1 .. MaxAttempts
  BY DEF Inv, TypeOK, Requests, Request
<1>2. /\ r.ident = row[r.key].ident /\ TransportOf[r.ident] = "oneshot"
      /\ r.n <= row[r.key].attempts
  BY DEF Inv, RequestsMatchRows
<1>3. row[r.key].attempts # 0 /\ row[r.key].attempts \in Nat
  BY <1>1, <1>2 DEF Inv, TypeOK, Row
<1>4. row[r.key].ident \in Route[r.key]
  BY <1>1, <1>3 DEF Inv, Claimed, RowsMatchRoutes
<1> QED BY <1>1, <1>2, <1>4 DEF Deployment, OneShotRoute, OneShotKey

\* A step that marks k at most, hands out no work and lists or reads nothing.
LEMMA OutKeep ==
    ASSUME Inv, OutInv, NEW k \in Key,
           \A o \in Key \ {k} : row'[o] = row[o],
           row'[k].attempts = row[k].attempts,
           \/ row'[k].status = row[k].status
           \/ /\ row'[k].status \in {"submitted", "confirmed"}
                    => \E r \in accepted : r.key = k
              /\ OneShotKey(k) =>
                    \/ row[k].status \notin Settled /\ row'[k].status \notin Settled
                    \/ /\ row'[k].status \in Settled
                       /\ \A x \in Worker : pc'[x] \in Sending => job'[x].key # k
                       /\ \A s \in Sweeper :
                             view'[s][k].listed => ~PastSettle(view'[s][k])
              /\ row'[k].status = "failed" => \A r \in net' : r.key # k,
           net' \subseteq net, accepted' = accepted, sent' = sent,
           \A x \in Worker : pc'[x] # "idle" =>
               pc'[x] = pc[x] /\ job'[x] = job[x] /\ prior'[x] = prior[x],
           \A s \in Sweeper, o \in Key : view'[s][o].listed => view'[s][o] = view[s][o]
    PROVE  OutInv'
<1>1. CopiesOut'
  BY DEF OutInv, CopiesOut
<1>2. WorkersOut'
  BY DEF OutInv, WorkersOut
<1>3. ViewsFound'
  BY DEF OutInv, ViewsFound
<1>4. OneShotSteady'
  <2> SUFFICES ASSUME NEW o \in Key, OneShotKey(o)
               PROVE  /\ row'[o].status \in Settled =>
                            /\ \A w \in Worker : pc'[w] \in Sending => job'[w].key # o
                            /\ \A s \in Sweeper :
                                  view'[s][o].listed => ~PastSettle(view'[s][o])
                      /\ \A w \in Worker :
                            pc'[w] \in {"replay", "replayed"} /\ job'[w].key = o
                               => row'[o].status \in Settled
    BY DEF OneShotSteady, PastSettle
  <2>1. /\ row[o].status \in Settled =>
              /\ \A w \in Worker : pc'[w] \in Sending => job'[w].key # o
              /\ \A s \in Sweeper : view'[s][o].listed => ~PastSettle(view'[s][o])
        /\ \A w \in Worker : pc'[w] \in {"replay", "replayed"} /\ job'[w].key = o
              => row[o].status \in Settled
    BY DEF OutInv, OneShotSteady, PastSettle, Sending
  <2>2. CASE row'[o].status = row[o].status
    BY <2>1, <2>2
  <2>3. CASE row'[o].status # row[o].status
    <3>1. o = k
      BY <2>3
    <3> QED BY <2>1, <2>3, <3>1
  <2> QED BY <2>2, <2>3
<1>5. NetIsCurrent'
  <2> SUFFICES ASSUME NEW r \in net'
               PROVE  r.n = row'[r.key].attempts /\ row'[r.key].status # "failed"
    BY DEF NetIsCurrent
  <2>1. /\ r.key \in Key
        /\ r.n = row[r.key].attempts /\ row[r.key].status # "failed"
    BY DEF Inv, TypeOK, Request, OutInv, NetIsCurrent
  <2> QED BY <2>1
<1>6. SettledIsOut'
  BY DEF OutInv, SettledIsOut
<1> QED BY <1>1, <1>2, <1>3, <1>4, <1>5, <1>6 DEF OutInv

LEMMA OutInit ==
    ASSUME Init
    PROVE  OutInv
BY DEF Init, OutInv, CopiesOut, WorkersOut, ViewsFound, OneShotSteady, NetIsCurrent,
       SettledIsOut, NoRow, NoView, Settled

\* A claim that submits: nothing of the email was on the wire, so the new
\* attempt is the latest.
LEMMA OutSubmit ==
    ASSUME Inv, OutInv, NEW w \in Worker, NEW k \in Key, NEW r \in Row,
           row[k].status \in {"absent", "failed"}, r.status = "pending",
           Submit(w, k, r)
    PROVE  OutInv'
<1> DEFINE new == RequestOf(k, r)
<1>1. /\ row' = [row EXCEPT ![k] = r] /\ row \in [Key -> Row]
      /\ pc' = [pc EXCEPT ![w] = "sending"] /\ pc \in [Worker -> WorkerStates]
      /\ job' = [job EXCEPT ![w] = new] /\ job \in [Worker -> Request \cup {NoJob}]
      /\ net' = net \cup {new}
      /\ UNCHANGED <<prior, accepted, sent, view>>
  BY DEF Submit, Inv, TypeOK
<1>2. /\ row'[k] = r /\ pc'[w] = "sending"
      /\ \A o \in Key \ {k} : row'[o] = row[o]
      /\ \A x \in Worker \ {w} : pc'[x] = pc[x] /\ job'[x] = job[x]
  BY <1>1
<1>3. new.key = k /\ new.n = r.attempts
  BY DEF RequestOf
<1> HIDE DEF new
<1>4. ASSUME NEW q \in net, q.key = k
      PROVE  FALSE
  <2>1. /\ q.n = row[k].attempts /\ row[k].status # "failed" /\ q \in Request
    BY <1>4 DEF OutInv, NetIsCurrent, Inv, TypeOK
  <2>2. row[k].attempts = 0
    BY <2>1 DEF Inv, Claimed
  <2> QED BY <2>1, <2>2 DEF Request
<1>5. CopiesOut' /\ ViewsFound'
  BY <1>1 DEF OutInv, CopiesOut, ViewsFound
<1>6. WorkersOut'
  BY <1>1, <1>2 DEF OutInv, WorkersOut
<1>7. OneShotSteady'
  <2> SUFFICES ASSUME NEW o \in Key, OneShotKey(o)
               PROVE  /\ row'[o].status \in Settled =>
                            /\ \A x \in Worker : pc'[x] \in Sending => job'[x].key # o
                            /\ \A s \in Sweeper :
                                  view[s][o].listed => ~PastSettle(view[s][o])
                      /\ \A x \in Worker :
                            pc'[x] \in {"replay", "replayed"} /\ job'[x].key = o
                               => row'[o].status \in Settled
    BY <1>1 DEF OneShotSteady, PastSettle
  <2>1. CASE o = k
    <3>1. \A x \in Worker : pc[x] \in {"replay", "replayed"} => job[x].key # k
      BY <2>1 DEF OutInv, OneShotSteady, Settled
    <3> QED BY <1>2, <2>1, <3>1 DEF Settled
  <2>2. CASE o # k
    <3>1. job'[w].key = k
      BY <1>1, <1>3
    <3> QED BY <1>2, <2>2, <3>1 DEF OutInv, OneShotSteady
  <2> QED BY <2>1, <2>2
<1>8. NetIsCurrent'
  <2> SUFFICES ASSUME NEW q \in net'
               PROVE  q.n = row'[q.key].attempts /\ row'[q.key].status # "failed"
    BY DEF NetIsCurrent
  <2>1. CASE q = new
    BY <1>2, <1>3, <2>1
  <2>2. CASE q \in net
    <3>1. q.key \in Key \ {k}
      BY <1>4, <2>2 DEF Inv, TypeOK, Request
    <3> QED BY <1>2, <2>2, <3>1 DEF OutInv, NetIsCurrent
  <2> QED BY <1>1, <2>1, <2>2
<1>9. SettledIsOut'
  BY <1>1, <1>2 DEF OutInv, SettledIsOut
<1> QED BY <1>5, <1>6, <1>7, <1>8, <1>9 DEF OutInv

LEMMA OutClaim ==
    ASSUME Inv, OutInv, NEW w \in Worker, NEW k \in Key, Claim(w, k)
    PROVE  OutInv'
<1>1. row \in [Key -> Row] /\ row[k] \in Row
  BY DEF Inv, TypeOK
<1>2. ASSUME NEW i \in Route[k], NEW c \in Content, NEW a \in Recipients[k],
             ClaimNew(w, k, i, c, a)
      PROVE  OutInv'
  <2>1. FirstRow(i, c, a) \in Row
    BY FirstRowType, ConstantsAssumption
  <2> QED BY <1>2, <2>1, OutSubmit DEF ClaimNew, FirstRow
<1>3. ASSUME NEW i \in Route[k], NEW c \in Content, ClaimRetry(w, k, i, c)
      PROVE  OutInv'
  <2>1. i \in Identity
    BY ConstantsAssumption
  <2>2. /\ RetriedRow(row[k], i, c) \in Row
        /\ RetriedRow(row[k], i, c).status = "pending"
    BY <1>1, <1>3, <2>1, RetriedRowType DEF ClaimRetry
  <2> QED BY <1>3, <2>2, OutSubmit DEF ClaimRetry
<1>4. CASE ClaimStale(w, k)
  <2>1. /\ row' = [row EXCEPT ![k] = Marked(@, "uncertain")] /\ row[k].status = "pending"
        /\ UNCHANGED <<pc, job, prior, net, accepted, sent, view>>
    BY <1>4 DEF ClaimStale, workerVars, wireVars
  <2>2. "uncertain" \in Statuses /\ "uncertain" \notin Settled
    BY DEF Statuses, Settled
  <2>3. /\ row'[k].status = "uncertain" /\ row'[k].attempts = row[k].attempts
        /\ \A o \in Key \ {k} : row'[o] = row[o]
    BY <1>1, <2>1, <2>2, MarkedType
  <2> QED BY <2>1, <2>2, <2>3, OutKeep DEF Settled
<1>5. CASE ClaimReplay(w, k)
  <2>1. /\ row' = row /\ pc' = [pc EXCEPT ![w] = "replay"]
        /\ job' = [job EXCEPT ![w] = RequestOf(k, row[k])]
        /\ prior' = [prior EXCEPT ![w] = row[k].status]
        /\ row[k].status \in Settled
        /\ UNCHANGED <<net, accepted, sent, view>>
    BY <1>5 DEF ClaimReplay, wireVars, Settled
  <2>2. /\ pc'[w] = "replay" /\ job'[w].key = k /\ prior'[w] = row[k].status
        /\ \A x \in Worker \ {w} :
              pc'[x] = pc[x] /\ job'[x] = job[x] /\ prior'[x] = prior[x]
    BY <2>1 DEF RequestOf, Inv, TypeOK
  <2>3. WorkersOut'
    <3>1. row[k].status \in {"submitted", "confirmed"} => \E r \in accepted : r.key = k
      BY DEF OutInv, SettledIsOut
    <3> QED BY <2>1, <2>2, <3>1 DEF OutInv, WorkersOut
  <2>4. OneShotSteady'
    BY <2>1, <2>2 DEF OutInv, OneShotSteady, PastSettle, Sending
  <2> QED BY <2>1, <2>3, <2>4
          DEF OutInv, CopiesOut, ViewsFound, NetIsCurrent, SettledIsOut
<1> QED BY <1>2, <1>3, <1>4, <1>5 DEF Claim

\* A definite failure answers the row's latest attempt, which is not out.
LEMMA FailedAttempt ==
    ASSUME Inv, Deployment, OutInv, NEW w \in Worker,
           pc[w] = "sending", job[w] \notin accepted
    PROVE  /\ job[w] = RequestOf(job[w].key, row[job[w].key])
           /\ \A r \in net : r.key = job[w].key => r = job[w]
           /\ \A r \in accepted : r.key = job[w].key => OneShotKey(r.key)
<1> DEFINE k == job[w].key
<1>1. job[w] = RequestOf(k, row[k]) /\ job[w] \in Request
  BY DEF Inv, WorkersMatchRows, Claimed, Sending
<1>2. ASSUME NEW r \in Requests, r.key = k
      PROVE  /\ r \in Request /\ r.ident = row[k].ident /\ r.content = row[k].content
             /\ r.to = row[k].to /\ r.n <= row[k].attempts
             /\ r.n = row[k].attempts => r = job[w]
  <2>1. /\ r \in Request /\ r.ident = row[k].ident /\ r.content = row[k].content
        /\ r.to = row[k].to /\ r.n <= row[k].attempts
    BY <1>2 DEF Inv, TypeOK, Requests, RequestsMatchRows
  <2>2. r.n = row[k].attempts => r = job[w]
    BY <1>1, <1>2, <2>1 DEF RequestOf, Request
  <2> QED BY <2>1, <2>2
<1>3. ASSUME NEW r \in net, r.key = k
      PROVE  r = job[w]
  BY <1>2, <1>3 DEF OutInv, NetIsCurrent, Requests
<1>4. ASSUME NEW r \in accepted, r.key = k
      PROVE  OneShotKey(r.key)
  <2>1. r \in Requests /\ r.n <= row[k].attempts /\ r.n # row[k].attempts
    BY <1>2, <1>4 DEF Requests
  <2>2. r.n \in Nat /\ row[k].attempts \in Nat
    BY <1>1, <1>2, <2>1, <1>4 DEF Request, Inv, TypeOK, Row
  <2> QED BY <1>4, <2>1, <2>2, OutAndRepeated
<1> QED BY <1>1, <1>3, <1>4

LEMMA OutAttempt ==
    ASSUME Inv, Deployment, OutInv, NEW w \in Worker, Attempt(w) \/ Crash(w)
    PROVE  OutInv'
<1> DEFINE k == job[w].key
<1>1. /\ pc[w] # "idle" /\ job[w] \in Request /\ k \in Key
      /\ row \in [Key -> Row] /\ row[k] \in Row
      /\ pc \in [Worker -> WorkerStates] /\ job \in [Worker -> Request \cup {NoJob}]
  BY DEF Attempt, Crash, TransportOk, WriteReceipt, MarkSettled, FailDefinite,
         FailUnknown, ReplayReceipt, ReplayMark, Sending, Inv, Claimed, TypeOK, Request
<1>2. ASSUME Done(w)
      PROVE  \A x \in Worker : pc'[x] # "idle" =>
                 /\ x # w /\ pc'[x] = pc[x] /\ job'[x] = job[x] /\ prior'[x] = prior[x]
  BY <1>2 DEF Done, Inv, TypeOK
<1>3. ASSUME NEW status \in Statuses,
             \/ row' = [row EXCEPT ![k] = Marked(@, status)]
             \/ row' = [row EXCEPT ![k] = [Marked(@, status) EXCEPT !.receipt = TRUE]]
      PROVE  /\ row'[k].status = status /\ row'[k].attempts = row[k].attempts
             /\ \A o \in Key \ {k} : row'[o] = row[o]
  <2> DEFINE m == Marked(row[k], status)
  <2>1. m \in Row /\ m.status = status /\ m.attempts = row[k].attempts
    BY <1>1, MarkedType
  <2>2. \/ row' = [row EXCEPT ![k] = m]
        \/ row' = [row EXCEPT ![k] = [m EXCEPT !.receipt = TRUE]]
    BY <1>3
  <2> HIDE DEF m
  <2> QED BY <1>1, <2>1, <2>2 DEF Row
<1>4. CASE TransportOk(w)
  <2>1. /\ pc[w] = "sending" /\ job[w] \in accepted /\ pc' = [pc EXCEPT ![w] = "accepted"]
        /\ sent' \in {sent, sent \cup {[req |-> job[w], bare |-> FALSE]}}
        /\ UNCHANGED <<row, job, prior, net, accepted, view>>
    BY <1>4 DEF TransportOk
  <2>2. CopiesOut'
    BY <2>1 DEF OutInv, CopiesOut
  <2>3. WorkersOut'
    BY <1>1, <2>1 DEF OutInv, WorkersOut
  <2>4. OneShotSteady'
    BY <1>1, <2>1 DEF OutInv, OneShotSteady, PastSettle, Sending
  <2> QED BY <2>1, <2>2, <2>3, <2>4 DEF OutInv, ViewsFound, NetIsCurrent, SettledIsOut
<1>5. CASE WriteReceipt(w) \/ ReplayReceipt(w)
  <2>1. /\ \/ pc[w] = "accepted" /\ pc' = [pc EXCEPT ![w] = "receipted"]
           \/ pc[w] = "replay" /\ pc' = [pc EXCEPT ![w] = "replayed"]
        /\ UNCHANGED <<row, job, prior, net, accepted, sent, view>>
    BY <1>5 DEF WriteReceipt, ReplayReceipt, wireVars
  <2>2. WorkersOut'
    BY <1>1, <2>1 DEF OutInv, WorkersOut
  <2>3. OneShotSteady'
    BY <1>1, <2>1 DEF OutInv, OneShotSteady, PastSettle, Sending
  <2> QED BY <2>1, <2>2, <2>3
          DEF OutInv, CopiesOut, ViewsFound, NetIsCurrent, SettledIsOut
<1>6. CASE Crash(w)
  <2>1. Done(w) /\ UNCHANGED <<row, net, accepted, sent, view>>
    BY <1>6 DEF Crash, wireVars
  <2> QED BY <1>1, <1>2, <2>1, OutKeep
<1>7. CASE MarkSettled(w)
  <2> DEFINE status == SettledStatus(job[w].ident)
  <2>1. /\ pc[w] = "receipted" /\ Done(w) /\ UNCHANGED <<net, accepted, sent, view>>
        /\ row' = [row EXCEPT ![k] = [Marked(@, status) EXCEPT !.receipt = TRUE]]
    BY <1>7 DEF MarkSettled, wireVars
  <2>2. status \in Statuses \ {"failed"} /\ status \in Settled
    BY DEF SettledStatus, Statuses, Settled
  <2> HIDE DEF status
  <2>3. /\ row'[k].status = status /\ row'[k].attempts = row[k].attempts
        /\ \A o \in Key \ {k} : row'[o] = row[o]
    BY <1>3, <2>1, <2>2
  <2>4. job[w] \in accepted
    BY <2>1 DEF OutInv, WorkersOut
  <2>5. \A x \in Worker : pc'[x] \in Sending => job'[x].key # k
    BY <1>2, <2>1 DEF Inv, OneCallPerKey, Sending
  <2>6. \A s \in Sweeper : view[s][k].listed => ~PastSettle(view[s][k])
    BY <1>1, <2>1, PastSettleIsQuiet DEF Sending
  <2>7. \A s \in Sweeper : view'[s][k].listed => ~PastSettle(view'[s][k])
    BY <2>1, <2>6 DEF PastSettle
  <2> QED BY <1>1, <1>2, <2>1, <2>2, <2>3, <2>4, <2>5, <2>7, OutKeep
<1>8. CASE ReplayMark(w)
  <2>1. /\ pc[w] = "replayed" /\ Done(w) /\ UNCHANGED <<net, accepted, sent, view>>
        /\ row' = [row EXCEPT ![k] = [Marked(@, prior[w]) EXCEPT !.receipt = TRUE]]
    BY <1>8 DEF ReplayMark, wireVars
  <2>2. prior[w] \in Statuses \ {"failed"} /\ prior[w] \in Settled
    BY <2>1 DEF Inv, Claimed, Statuses, Settled
  <2>3. /\ row'[k].status = prior[w] /\ row'[k].attempts = row[k].attempts
        /\ \A o \in Key \ {k} : row'[o] = row[o]
    BY <1>3, <2>1, <2>2
  <2>4. prior[w] \in {"submitted", "confirmed"} => \E r \in accepted : r.key = k
    BY <2>1 DEF OutInv, WorkersOut
  <2>5. ASSUME OneShotKey(k)
        PROVE  /\ \A x \in Worker : pc'[x] \in Sending => job'[x].key # k
               /\ \A s \in Sweeper : view'[s][k].listed => ~PastSettle(view'[s][k])
    <3>1. /\ \A x \in Worker : pc[x] \in Sending => job[x].key # k
          /\ \A s \in Sweeper : view[s][k].listed => ~PastSettle(view[s][k])
      BY <1>1, <2>1, <2>5 DEF OutInv, OneShotSteady
    <3> QED BY <1>2, <2>1, <3>1 DEF Sending, PastSettle
  <2> QED BY <1>1, <1>2, <2>1, <2>2, <2>3, <2>4, <2>5, OutKeep
<1>9. CASE FailUnknown(w)
  <2>1. /\ pc[w] \in Sending /\ Done(w) /\ UNCHANGED <<net, accepted, sent, view>>
        /\ row' = [row EXCEPT ![k] = Marked(@, "uncertain")]
    BY <1>9 DEF FailUnknown, wireVars
  <2>2. "uncertain" \in Statuses /\ "uncertain" \notin Settled
    BY DEF Statuses, Settled
  <2>3. /\ row'[k].status = "uncertain" /\ row'[k].attempts = row[k].attempts
        /\ \A o \in Key \ {k} : row'[o] = row[o]
    BY <1>3, <2>1, <2>2
  <2>4. OneShotKey(k) => row[k].status \notin Settled
    BY <1>1, <2>1 DEF OutInv, OneShotSteady
  <2> QED BY <1>1, <1>2, <2>1, <2>2, <2>3, <2>4, OutKeep
<1>10. CASE FailDefinite(w)
  <2>1. /\ pc[w] = "sending" /\ job[w] \notin accepted /\ Done(w)
        /\ net' = net \ {job[w]} /\ UNCHANGED <<accepted, sent, view>>
        /\ row' = [row EXCEPT ![k] = Marked(@, "failed")]
    BY <1>10 DEF FailDefinite
  <2>2. "failed" \in Statuses /\ "failed" \notin Settled
    BY DEF Statuses, Settled
  <2>3. /\ row'[k].status = "failed" /\ row'[k].attempts = row[k].attempts
        /\ \A o \in Key \ {k} : row'[o] = row[o]
    BY <1>3, <2>1, <2>2
  <2>4. OneShotKey(k) => row[k].status \notin Settled
    BY <1>1, <2>1 DEF OutInv, OneShotSteady, Sending
  <2>5. \A r \in net' : r.key # k
    BY <2>1, FailedAttempt
  <2> QED BY <1>1, <1>2, <2>1, <2>2, <2>3, <2>4, <2>5, OutKeep
<1> QED BY <1>4, <1>5, <1>6, <1>7, <1>8, <1>9, <1>10 DEF Attempt

LEMMA OutWire ==
    ASSUME Inv, Inv', Deployment, OutInv, NEW r \in net, Accept(r) \/ Lose(r)
    PROVE  OutInv'
<1>1. r \in Request /\ r.key \in Key
  BY DEF Inv, TypeOK, Request
<1>2. CASE Lose(r)
  <2>1. net' \subseteq net /\ UNCHANGED <<row, pc, job, prior, accepted, sent, view>>
    BY <1>2 DEF Lose, workerVars
  <2> QED BY <1>1, <2>1, OutKeep
<1>3. CASE Accept(r)
  <2>1. /\ net' \subseteq net /\ accepted' = accepted \cup {r}
        /\ \A c \in sent' : c \in sent \/ c.req = r
        /\ UNCHANGED <<row, pc, job, prior, view>>
    BY <1>3 DEF Accept, workerVars
  <2>2. CopiesOut'
    BY <2>1 DEF OutInv, CopiesOut
  <2>3. WorkersOut'
    BY <2>1 DEF OutInv, WorkersOut
  <2>4. ViewsFound'
    BY <2>1 DEF OutInv, ViewsFound
  <2>5. OneShotSteady' /\ NetIsCurrent' /\ SettledIsOut'
    BY <2>1 DEF OutInv, OneShotSteady, PastSettle, NetIsCurrent, SettledIsOut
  <2> QED BY <2>2, <2>3, <2>4, <2>5 DEF OutInv
<1> QED BY <1>2, <1>3

LEMMA OutGrow ==
    ASSUME Inv, OutInv, NEW k \in Key, GrowOld(k)
    PROVE  OutInv'
<1>1. UNCHANGED <<row, pc, job, prior, net, accepted, sent, view>>
  BY DEF GrowOld, workerVars, wireVars
<1> QED BY <1>1, OutKeep

\* The messages found for k, if none is k's own, are no more than its twins:
\* each is the one message of an email the lookup cannot tell from it.
LEMMA NoMoreThanTwins ==
    ASSUME Inv, Deployment, OutInv, NEW s \in Sweeper, NEW k \in Key,
           view[s][k].listed, \A r \in accepted : r.key # k
    PROVE  Cardinality(view[s][k].found) <= Cardinality(Twins(k, view[s][k].row))
<1> DEFINE v == view[s][k]
           T == Twins(k, v.row)
           message(o) == <<"gmail", o, row[o].attempts>>
<1>1. ASSUME NEW m \in v.found
      PROVE  \E o \in T : m = message(o)
  <2>1. PICK r \in accepted :
           /\ m = Message(r)
           /\ r.key # k => /\ TransportOf[v.row.ident] = "gmail"
                           /\ r.ident = v.row.ident /\ r.to = v.row.to
                           /\ r.content = v.row.content
    BY <1>1 DEF OutInv, ViewsFound
  <2> DEFINE o == r.key
  <2>2. /\ o \in Key \ {k} /\ r \in Request /\ r \in Requests
        /\ TransportOf[r.ident] = "gmail" /\ TransportOf[v.row.ident] = "gmail"
        /\ r.ident = v.row.ident /\ r.to = v.row.to /\ r.content = v.row.content
    BY <2>1 DEF Inv, TypeOK, Request, Requests
  <2>3. /\ r.ident = row[o].ident /\ r.content = row[o].content /\ r.to = row[o].to
        /\ r.n <= row[o].attempts
        /\ ~(r.n < row[o].attempts) /\ row[o].status # "failed"
    BY <2>2 DEF Inv, RequestsMatchRows
  <2>4. r.n = row[o].attempts /\ row[o].attempts # 0
    <3>1. r.n \in 1 .. MaxAttempts /\ row[o].attempts \in 0 .. MaxAttempts
      BY <2>2 DEF Request, Inv, TypeOK, Row
    <3>2. r.n \in Nat \ {0} /\ row[o].attempts \in Nat
      BY <3>1, ConstantsAssumption
    <3> QED BY <2>3, <3>2
  <2>5. o \in T
    BY <2>2, <2>3, <2>4 DEF Twins, Inv, Claimed
  <2>6. m = message(o)
    BY <2>1, <2>2, <2>4 DEF Message
  <2> QED BY <2>5, <2>6
<1> DEFINE f == [o \in T |-> message(o)]
<1>2. IsFiniteSet(T)
  BY ConstantsAssumption, FS_Subset DEF Twins
<1> HIDE DEF T, message
<1>3. /\ IsFiniteSet({f[o] : o \in T})
      /\ Cardinality({f[o] : o \in T}) <= Cardinality(T)
  <2> DEFINE image == {f[o] : o \in T}
  <2>1. f \in [T -> image] /\ \A m \in image : \E o \in T : f[o] = m
    OBVIOUS
  <2> HIDE DEF f, image
  <2>2. IsFiniteSet(image) /\ Cardinality(image) <= Cardinality(T)
    <3>1. f \in Surjection(T, image)
      BY <2>1 DEF Surjection
    <3> QED BY <1>2, <3>1, FS_Surjection
  <2> QED BY <2>2 DEF image
<1>4. v.found \subseteq {f[o] : o \in T}
  BY <1>1
<1> HIDE DEF f
<1>5. /\ Cardinality(v.found) <= Cardinality({f[o] : o \in T})
      /\ Cardinality(v.found) \in Nat /\ Cardinality({f[o] : o \in T}) \in Nat
      /\ Cardinality(T) \in Nat
  <2>1. IsFiniteSet(v.found)
    BY <1>3, <1>4, FS_Subset
  <2> QED BY <1>2, <1>3, <1>4, <2>1, FS_Subset, FS_CardinalityType
<1>6. Cardinality(v.found) <= Cardinality(T)
  BY <1>3, <1>5
<1> QED BY <1>6 DEF T

\* The sweep opens an email for another send only when it is not out, or the
\* platform would replay it, and never a settled one.
LEMMA SweptFailed ==
    ASSUME Inv, Deployment, OutInv, NEW s \in Sweeper, NEW k \in Key,
           view[s][k].listed, PastSettle(view[s][k]),
           \/ TransportOf[view[s][k].row.ident] = "oneshot"
           \/ /\ view[s][k].read /\ view[s][k].found = {}
              /\ ~view[s][k].bare
              /\ SentEvidence(view[s][k].row.ident)
    PROVE  /\ \A r \in accepted : r.key = k => OneShotKey(k)
           /\ row[k].status \notin {"absent", "failed", "submitted", "confirmed"}
<1> DEFINE v == view[s][k]
<1>1. v.row.ident \in Route[k]
  BY DEF OutInv, ViewsFound
<1>2. TransportOf[v.row.ident] = "oneshot" => OneShotKey(k)
  BY <1>1 DEF Deployment, OneShotRoute, OneShotKey
<1>3. OneShotKey(k) \/ \A r \in accepted : r.key # k
  BY <1>2 DEF Inv, ViewsHold
<1>4. row[k].attempts # 0 /\ row[k].status # "failed"
  BY DEF Inv, Claimed, ViewsHold
<1>5. row[k].status \notin {"submitted", "confirmed"}
  <2>1. CASE OneShotKey(k)
    BY <2>1 DEF OutInv, OneShotSteady, Settled
  <2>2. CASE \A r \in accepted : r.key # k
    BY <2>2 DEF OutInv, SettledIsOut
  <2> QED BY <1>3, <2>1, <2>2
<1> QED BY <1>3, <1>4, <1>5 DEF Inv, Claimed

\* A sweep confirms an email that is out.
LEMMA SweptConfirmed ==
    ASSUME Inv, Deployment, OutInv, NEW s \in Sweeper, NEW k \in Key,
           view[s][k].listed,
           ~(Cardinality(view[s][k].found) <= Cardinality(Twins(k, view[s][k].row)))
    PROVE  \E r \in accepted : r.key = k
BY NoMoreThanTwins

LEMMA OutSweep ==
    ASSUME Inv, Deployment, OutInv, NEW s \in Sweeper, Sweep(s)
    PROVE  OutInv'
<1>1. UNCHANGED <<pc, job, prior, net, accepted, sent>>
  BY SweepCases
<1>2. /\ view \in [Sweeper -> [Key -> View \cup {NoView}]]
      /\ row \in [Key -> Row]
  BY DEF Inv, TypeOK
<1>3. CASE row' = row /\ SweepList(s)
  <2>1. view' = [view EXCEPT ![s] = [k \in Key |->
                   IF Unconfirmed(k)
                   THEN [listed |-> TRUE, row |-> row[k], age |-> age[k],
                         read |-> FALSE, found |-> {}, bare |-> FALSE]
                   ELSE NoView]]
    BY <1>3 DEF SweepList
  <2>2. ASSUME NEW x \in Sweeper, NEW k \in Key, view'[x][k].listed
        PROVE  \/ view'[x][k] = view[x][k]
               \/ /\ view'[x][k].row = row[k] /\ view'[x][k].age = age[k]
                  /\ ~view'[x][k].read /\ view'[x][k].found = {}
                  /\ row[k].status \in {"submitted", "uncertain"}
    BY <1>2, <2>1, <2>2 DEF NoView, Unconfirmed
  <2>3. \A k \in Key : row[k].status # "absent" => row[k].ident \in Route[k]
    BY DEF Inv, RowsMatchRoutes
  <2>4. ViewsFound'
    <3> SUFFICES ASSUME NEW x \in Sweeper, NEW k \in Key, view'[x][k].listed
                 PROVE  /\ view'[x][k].row.ident \in Route[k]
                        /\ view'[x][k].read => TransportOf[view'[x][k].row.ident] # "oneshot"
                        /\ \A m \in view'[x][k].found : \E r \in accepted :
                              /\ m = Message(r)
                              /\ r.key # k =>
                                    /\ TransportOf[view'[x][k].row.ident] = "gmail"
                                    /\ r.ident = view'[x][k].row.ident
                                    /\ r.to = view'[x][k].row.to
                                    /\ r.content = view'[x][k].row.content
      BY <1>1 DEF ViewsFound
    <3>1. CASE view'[x][k] = view[x][k]
      BY <3>1 DEF OutInv, ViewsFound
    <3>2. CASE view'[x][k].row = row[k] /\ ~view'[x][k].read /\ view'[x][k].found = {}
               /\ row[k].status \in {"submitted", "uncertain"}
      BY <2>3, <3>2
    <3> QED BY <2>2, <3>1, <3>2
  <2>5. OneShotSteady'
    <3>1. ASSUME NEW k \in Key, row[k].status \in Settled, OneShotKey(k),
                 NEW x \in Sweeper, view'[x][k].listed
          PROVE  ~PastSettle(view'[x][k])
      <4>1. CASE view'[x][k] = view[x][k]
        BY <3>1, <4>1 DEF OutInv, OneShotSteady, PastSettle
      <4>2. CASE view'[x][k].row = row[k]
        BY <3>1, <4>2 DEF PastSettle, Settled
      <4> QED BY <2>2, <3>1, <4>1, <4>2
    <3> QED BY <1>1, <1>3, <3>1 DEF OutInv, OneShotSteady, PastSettle
  <2> QED BY <1>1, <1>3, <2>4, <2>5
          DEF OutInv, CopiesOut, WorkersOut, NetIsCurrent, SettledIsOut
<1>4. ASSUME row' = row, NEW k \in Key, SweepRead(s, k)
      PROVE  OutInv'
  <2> DEFINE v == view[s][k]
             n == Looked(k, v)
  <2>1. /\ v.listed /\ v \in View /\ view' = [view EXCEPT ![s][k] = n]
        /\ TransportOf[v.row.ident] # "oneshot"
    BY <1>2, <1>4 DEF SweepRead, Turn, NoView
  <2>2. /\ n.row = v.row /\ n.age = v.age
        /\ n.found = {Message(c.req) : c \in {c \in Matches(k, v.row) : Counts(v.row, c)}}
    BY <2>1 DEF Looked, View
  <2>3. ASSUME NEW m \in n.found
        PROVE  \E r \in accepted :
                 /\ m = Message(r)
                 /\ r.key # k => /\ TransportOf[v.row.ident] = "gmail"
                                 /\ r.ident = v.row.ident /\ r.to = v.row.to
                                 /\ r.content = v.row.content
    <3>1. PICK c \in Matches(k, v.row) : m = Message(c.req)
      BY <2>2, <2>3
    <3>2. /\ c \in sent /\ c.req.ident = v.row.ident
          /\ TransportOf[v.row.ident] = "smtp" => c.req.key = k
          /\ TransportOf[v.row.ident] # "smtp" =>
                c.req.to = v.row.to /\ c.req.content = v.row.content
      BY <3>1 DEF Matches
    <3>3. c.req \in accepted
      BY <3>2 DEF OutInv, CopiesOut
    <3>4. TransportOf[v.row.ident] \in {"smtp", "gmail"}
      BY <2>1, ConstantsAssumption DEF View, Row, Transports
    <3> QED BY <3>1, <3>2, <3>3, <3>4
  <2>4. v.row.ident \in Route[k]
    BY <2>1 DEF OutInv, ViewsFound
  <2> HIDE DEF n, v
  <2>5. /\ view'[s][k] = n
        /\ \A x \in Sweeper, o \in Key : x # s \/ o # k => view'[x][o] = view[x][o]
    BY <1>2, <2>1
  <2>6. ViewsFound'
    <3> SUFFICES ASSUME NEW x \in Sweeper, NEW o \in Key, view'[x][o].listed
                 PROVE  /\ view'[x][o].row.ident \in Route[o]
                        /\ view'[x][o].read => TransportOf[view'[x][o].row.ident] # "oneshot"
                        /\ \A m \in view'[x][o].found : \E r \in accepted :
                              /\ m = Message(r)
                              /\ r.key # o =>
                                    /\ TransportOf[view'[x][o].row.ident] = "gmail"
                                    /\ r.ident = view'[x][o].row.ident
                                    /\ r.to = view'[x][o].row.to
                                    /\ r.content = view'[x][o].row.content
      BY <1>1 DEF ViewsFound
    <3>1. CASE x # s \/ o # k
      BY <2>5, <3>1 DEF OutInv, ViewsFound
    <3>2. CASE x = s /\ o = k
      BY <2>1, <2>2, <2>3, <2>4, <2>5, <3>2
    <3> QED BY <3>1, <3>2
  <2>7. OneShotSteady'
    <3>1. ASSUME NEW o \in Key, row[o].status \in Settled, OneShotKey(o),
                 NEW x \in Sweeper, view'[x][o].listed
          PROVE  ~PastSettle(view'[x][o])
      <4>1. CASE x # s \/ o # k
        BY <2>5, <3>1, <4>1 DEF OutInv, OneShotSteady, PastSettle
      <4>2. CASE x = s /\ o = k
        <5>1. ~PastSettle(v)
          BY <2>1, <3>1, <4>2 DEF OutInv, OneShotSteady, v
        <5> QED BY <2>2, <2>5, <4>2, <5>1 DEF PastSettle
      <4> QED BY <4>1, <4>2
    <3> QED BY <1>1, <1>4, <3>1 DEF OutInv, OneShotSteady, PastSettle
  <2> QED BY <1>1, <1>4, <2>6, <2>7
          DEF OutInv, CopiesOut, WorkersOut, NetIsCurrent, SettledIsOut
<1>5. ASSUME row' = row, NEW K \in SUBSET Key,
             view' = [view EXCEPT ![s] =
                        [k \in Key |-> IF k \in K THEN NoView ELSE @[k]]]
      PROVE  OutInv'
  <2>1. \A x \in Sweeper, k \in Key : view'[x][k].listed => view'[x][k] = view[x][k]
    BY <1>2, <1>5 DEF NoView
  <2>2. PICK k \in Key : TRUE
    BY ConstantsAssumption
  <2> QED BY <1>1, <1>5, <2>1, <2>2, OutKeep
<1>6. ASSUME NEW k \in Key, view' = [view EXCEPT ![s][k] = NoView]
      PROVE  /\ \A x \in Sweeper, o \in Key : view'[x][o].listed => view'[x][o] = view[x][o]
             /\ \A x \in Sweeper : ~view'[x][k].listed
  BY <1>2, <1>6 DEF NoView, Deployment, OneSweeper
<1>7. ASSUME row' = row, NEW k \in Key, view' = [view EXCEPT ![s][k] = NoView]
      PROVE  OutInv'
  BY <1>1, <1>6, <1>7, OutKeep
<1>8. ASSUME NEW k \in Key, NEW status \in Statuses, SweepMarks(s, k, status)
      PROVE  /\ row'[k].status = status /\ row'[k].attempts = row[k].attempts
             /\ \A o \in Key \ {k} : row'[o] = row[o]
             /\ view[s][k].listed
             /\ view' = [view EXCEPT ![s][k] = NoView]
  BY <1>2, <1>8, MarkedType DEF SweepMarks
<1>9. ASSUME NEW k \in Key, view[s][k].listed, PastSettle(view[s][k])
      PROVE  /\ \A x \in Worker : pc[x] \in Sending => job[x].key # k
             /\ \A r \in net : r.key # k
  BY <1>9, PastSettleIsQuiet
<1>10. ASSUME NEW k \in Key, view[s][k].listed, OneShotKey(k)
       PROVE  TransportOf[view[s][k].row.ident] = "oneshot" /\ ~view[s][k].read
  BY <1>10 DEF OutInv, ViewsFound, OneShotKey
<1>11. ASSUME NEW k \in Key, SweepMarks(s, k, "confirmed"), view[s][k].read,
              ~(Cardinality(view[s][k].found) <= Cardinality(Twins(k, view[s][k].row)))
       PROVE  OutInv'
  <2>1. "confirmed" \in Statuses
    BY DEF Statuses
  <2>2. view[s][k].listed
    BY <1>11 DEF SweepMarks
  <2>3. \E r \in accepted : r.key = k
    BY <1>11, <2>2, SweptConfirmed
  <2>4. ~OneShotKey(k)
    BY <1>10, <1>11, <2>2
  <2> QED BY <1>1, <1>6, <1>8, <1>11, <2>1, <2>3, <2>4, OutKeep
<1>12. ASSUME NEW k \in Key, SweepMarks(s, k, "not_found"),
              \/ view[s][k].read
              \/ TransportOf[view[s][k].row.ident] # "oneshot"
              \/ PastSettle(view[s][k])
       PROVE  OutInv'
  <2>1. "not_found" \in Statuses /\ "not_found" \in Settled
    BY DEF Statuses, Settled
  <2>2. view[s][k].listed
    BY <1>12 DEF SweepMarks
  <2>3. OneShotKey(k) => \A x \in Worker : pc'[x] \in Sending => job'[x].key # k
    BY <1>1, <1>9, <1>10, <1>12, <2>2
  <2> QED BY <1>1, <1>6, <1>8, <1>12, <2>1, <2>3, OutKeep
<1>13. ASSUME NEW k \in Key, SweepMarks(s, k, "failed"), PastSettle(view[s][k]),
              \/ TransportOf[view[s][k].row.ident] = "oneshot"
              \/ /\ view[s][k].read /\ view[s][k].found = {}
                 /\ ~view[s][k].bare
                 /\ SentEvidence(view[s][k].row.ident)
       PROVE  OutInv'
  <2>1. "failed" \in Statuses /\ "failed" \notin Settled
    BY DEF Statuses, Settled
  <2>2. view[s][k].listed
    BY <1>13 DEF SweepMarks
  <2>3. OneShotKey(k) => row[k].status \notin Settled
    BY <1>13, <2>2 DEF OutInv, OneShotSteady
  <2>4. \A r \in net' : r.key # k
    BY <1>1, <1>9, <1>13, <2>2
  <2> QED BY <1>1, <1>6, <1>8, <1>13, <2>1, <2>3, <2>4, OutKeep
<1> QED BY <1>3, <1>4, <1>5, <1>7, <1>11, <1>12, <1>13, SweepCases

LEMMA OutNext ==
    ASSUME Inv, Inv', Deployment, OutInv, [Next]_vars
    PROVE  OutInv'
<1>1. CASE UNCHANGED vars
  BY <1>1 DEF vars, workerVars, wireVars, OutInv, CopiesOut, WorkersOut, ViewsFound,
              OneShotSteady, PastSettle, NetIsCurrent, SettledIsOut
<1>2. CASE Next
  BY <1>2, OutClaim, OutAttempt, OutWire, OutGrow, OutSweep DEF Next
<1> QED BY <1>1, <1>2

LEMMA OutInvariance ==
    ASSUME Deployment
    PROVE  Spec => [](Inv /\ OutInv)
<1>1. Init => Inv /\ OutInv
  BY InvInit, OutInit
<1>2. Inv /\ OutInv /\ [Next]_vars => (Inv /\ OutInv)'
  BY InvNext, OutNext
<1> QED BY <1>1, <1>2, PTL DEF Spec

\* A row that reads submitted or confirmed is an email that is out: a worker
\* marks what it was told of its own request, a replay repeats a mark, and a
\* sweep confirms on more copies than there are twins to have sent them.
THEOREM ToldSentIsOut ==
    ASSUME Deployment
    PROVE  Spec => []SettledIsOut
<1>1. Inv /\ OutInv => SettledIsOut
  BY DEF OutInv
<1> QED BY <1>1, OutInvariance, PTL

\* How the status of a row may move in one step.
StatusMove(k) ==
    LET was == row[k].status
        now == row'[k].status
        out == \E r \in accepted : r.key = k
    IN  \/ now = was
        \/ was \in {"absent", "failed"} /\ now = "pending"
        \/ was \notin {"absent", "failed"} /\ now = "uncertain"
        \/ was # "absent" /\ now = "not_found"
        \/ was \notin {"absent", "failed"} /\ now \in {"submitted", "confirmed"} /\ out
        \/ /\ was \notin {"absent", "failed", "submitted", "confirmed"}
           /\ now = "failed" /\ (out => OneShotKey(k))

\* A worker at work, or a replay of an email that is out, never finds its row
\* open.
LEMMA WorkedRowIsClosed ==
    ASSUME Inv, Deployment, OutInv, NEW w \in Worker, pc[w] # "idle"
    PROVE  /\ job[w].key \in Key /\ row[job[w].key].status # "absent"
           /\ pc[w] \in Sending => row[job[w].key].status # "failed"
           /\ pc[w] \in {"replay", "replayed"} /\ prior[w] \in {"submitted", "confirmed"}
                 => row[job[w].key].status # "failed"
<1> DEFINE k == job[w].key
<1>1. k \in Key /\ row[k].status # "absent"
  BY DEF Inv, Claimed, Request
<1>2. pc[w] \in Sending => row[k].status # "failed"
  BY DEF Inv, WorkersMatchRows
<1>3. ASSUME pc[w] \in {"replay", "replayed"}, prior[w] \in {"submitted", "confirmed"},
             row[k].status = "failed"
      PROVE  FALSE
  <2>1. PICK r \in accepted : r.key = k
    BY <1>3 DEF OutInv, WorkersOut
  <2>2. OneShotKey(k)
    BY <1>3, <2>1, OutAndRepeated DEF Requests
  <2> QED BY <1>1, <1>3, <2>2 DEF OutInv, OneShotSteady, Settled
<1> QED BY <1>1, <1>2, <1>3

\* Nothing but a provider's acceptance, and these moves of one row, happens.
LEMMA StatusSteps ==
    ASSUME Inv, Deployment, OutInv, Next
    PROVE  \/ \E r \in net : Accept(r)
           \/ /\ accepted' = accepted
              /\ \E k \in Key :
                    /\ \A o \in Key \ {k} : row'[o] = row[o]
                    /\ StatusMove(k)
<1> DEFINE Goal == /\ accepted' = accepted
                  /\ \E k \in Key :
                        /\ \A o \in Key \ {k} : row'[o] = row[o]
                        /\ StatusMove(k)
<1> USE DEF StatusMove
<1>1. row \in [Key -> Row]
  BY DEF Inv, TypeOK
<1>2. ASSUME row' = row, accepted' = accepted
      PROVE  Goal
  <2>1. PICK k \in Key : TRUE
    BY ConstantsAssumption
  <2> QED BY <1>2, <2>1
<1>3. ASSUME NEW k \in Key, NEW status \in Statuses,
             \/ row' = [row EXCEPT ![k] = Marked(@, status)]
             \/ row' = [row EXCEPT ![k] = [Marked(@, status) EXCEPT !.receipt = TRUE]]
      PROVE  /\ row'[k].status = status
             /\ \A o \in Key \ {k} : row'[o] = row[o]
  <2> DEFINE m == Marked(row[k], status)
  <2>1. m \in Row /\ m.status = status
    BY <1>1, MarkedType
  <2>2. \/ row' = [row EXCEPT ![k] = m]
        \/ row' = [row EXCEPT ![k] = [m EXCEPT !.receipt = TRUE]]
    BY <1>3
  <2> HIDE DEF m
  <2> QED BY <1>1, <2>1, <2>2 DEF Row
<1>4. ASSUME NEW w \in Worker, NEW k \in Key, Claim(w, k)
      PROVE  Goal
  <2>1. ASSUME NEW r, row[k].status \in {"absent", "failed"}, r.status = "pending",
               Submit(w, k, r)
        PROVE  Goal
    BY <1>1, <2>1 DEF Submit
  <2>2. ASSUME NEW i \in Route[k], NEW c \in Content, NEW a \in Recipients[k],
               ClaimNew(w, k, i, c, a)
        PROVE  Goal
    BY <2>1, <2>2 DEF ClaimNew, FirstRow
  <2>3. ASSUME NEW i \in Route[k], NEW c \in Content, ClaimRetry(w, k, i, c)
        PROVE  Goal
    <3>1. i \in Identity /\ row[k] \in Row
      BY <1>1, ConstantsAssumption
    <3>2. RetriedRow(row[k], i, c).status = "pending"
      BY <2>3, <3>1, RetriedRowType DEF ClaimRetry
    <3> QED BY <2>1, <2>3, <3>2 DEF ClaimRetry
  <2>4. CASE ClaimStale(w, k)
    <3>1. /\ row[k].status = "pending" /\ accepted' = accepted
          /\ row' = [row EXCEPT ![k] = Marked(@, "uncertain")]
          /\ "uncertain" \in Statuses
      BY <2>4 DEF ClaimStale, wireVars, Statuses
    <3> QED BY <1>3, <3>1
  <2>5. CASE ClaimReplay(w, k)
    BY <1>2, <2>5 DEF ClaimReplay, wireVars
  <2> QED BY <1>4, <2>2, <2>3, <2>4, <2>5 DEF Claim
<1>5. ASSUME NEW w \in Worker, Attempt(w) \/ Crash(w)
      PROVE  Goal
  <2> DEFINE k == job[w].key
  <2>1. pc[w] # "idle"
    BY <1>5 DEF Attempt, Crash, TransportOk, WriteReceipt, MarkSettled, FailDefinite,
                FailUnknown, ReplayReceipt, ReplayMark, Sending
  <2>2. /\ k \in Key /\ row[k].status # "absent"
        /\ pc[w] \in Sending => row[k].status # "failed"
        /\ pc[w] \in {"replay", "replayed"} /\ prior[w] \in {"submitted", "confirmed"}
              => row[k].status # "failed"
    BY <2>1, WorkedRowIsClosed
  <2>3. CASE TransportOk(w) \/ WriteReceipt(w) \/ ReplayReceipt(w) \/ Crash(w)
    BY <1>2, <2>3 DEF TransportOk, WriteReceipt, ReplayReceipt, Crash, wireVars
  <2>4. CASE MarkSettled(w)
    <3>1. /\ pc[w] = "receipted" /\ accepted' = accepted
          /\ row' = [row EXCEPT ![k] =
                        [Marked(@, SettledStatus(job[w].ident)) EXCEPT !.receipt = TRUE]]
      BY <2>4 DEF MarkSettled, wireVars
    <3>2. /\ SettledStatus(job[w].ident) \in {"submitted", "confirmed"}
          /\ SettledStatus(job[w].ident) \in Statuses
      BY DEF SettledStatus, Statuses
    <3>3. \E r \in accepted : r.key = k
      BY <3>1 DEF OutInv, WorkersOut
    <3> QED BY <1>3, <2>2, <3>1, <3>2, <3>3 DEF Sending
  <2>5. CASE ReplayMark(w)
    <3>1. /\ pc[w] = "replayed" /\ accepted' = accepted
          /\ row' = [row EXCEPT ![k] = [Marked(@, prior[w]) EXCEPT !.receipt = TRUE]]
      BY <2>5 DEF ReplayMark, wireVars
    <3>2. prior[w] \in {"submitted", "confirmed", "not_found"} /\ prior[w] \in Statuses
      BY <3>1 DEF Inv, Claimed, Statuses
    <3>3. prior[w] \in {"submitted", "confirmed"} => \E r \in accepted : r.key = k
      BY <3>1 DEF OutInv, WorkersOut
    <3> QED BY <1>3, <2>2, <3>1, <3>2, <3>3
  <2>6. CASE FailUnknown(w)
    <3>1. /\ pc[w] \in Sending /\ accepted' = accepted
          /\ row' = [row EXCEPT ![k] = Marked(@, "uncertain")]
          /\ "uncertain" \in Statuses
      BY <2>6 DEF FailUnknown, wireVars, Statuses
    <3> QED BY <1>3, <2>2, <3>1
  <2>7. CASE FailDefinite(w)
    <3>1. /\ pc[w] = "sending" /\ pc[w] \in Sending /\ job[w] \notin accepted
          /\ accepted' = accepted
          /\ row' = [row EXCEPT ![k] = Marked(@, "failed")]
          /\ "failed" \in Statuses
      BY <2>7 DEF FailDefinite, Sending, Statuses
    <3>2. \A r \in accepted : r.key = k => OneShotKey(k)
      BY <3>1, FailedAttempt
    <3>3. row[k].status \notin {"submitted", "confirmed"}
      BY <2>2, <3>1, <3>2 DEF OutInv, OneShotSteady, SettledIsOut, Settled
    <3> QED BY <1>3, <2>2, <3>1, <3>2, <3>3
  <2> QED BY <1>5, <2>3, <2>4, <2>5, <2>6, <2>7 DEF Attempt
<1>6. ASSUME NEW s \in Sweeper, Sweep(s)
      PROVE  Goal
  <2>1. accepted' = accepted
    BY <1>6, SweepCases
  <2>2. ASSUME NEW k \in Key, NEW status \in Statuses, SweepMarks(s, k, status)
        PROVE  /\ row'[k].status = status /\ view[s][k].listed
               /\ \A o \in Key \ {k} : row'[o] = row[o]
    BY <1>3, <2>2 DEF SweepMarks
  <2>3. {"confirmed", "not_found", "failed"} \subseteq Statuses
    BY DEF Statuses
  <2>4. ASSUME NEW k \in Key, SweepMarks(s, k, "not_found")
        PROVE  Goal
    <3>1. row[k].status # "absent"
      BY <2>4 DEF SweepMarks, Inv, Claimed
    <3> QED BY <2>1, <2>2, <2>3, <2>4, <3>1
  <2>5. ASSUME NEW k \in Key, SweepMarks(s, k, "confirmed"), view[s][k].read,
               ~(Cardinality(view[s][k].found) <= Cardinality(Twins(k, view[s][k].row)))
        PROVE  Goal
    <3>1. view[s][k].listed /\ row[k].status # "absent"
      BY <2>5 DEF SweepMarks, Inv, Claimed
    <3>2. PICK r \in accepted : r.key = k
      BY <2>5, <3>1, SweptConfirmed
    <3>3. row[k].status # "failed"
      <4>1. row[k].status = "failed" => OneShotKey(k)
        BY <3>2, OutAndRepeated DEF Requests
      <4> QED BY <2>5, <3>1, <4>1 DEF OutInv, ViewsFound, OneShotKey
    <3> QED BY <2>1, <2>2, <2>3, <2>5, <3>1, <3>2, <3>3
  <2>6. ASSUME NEW k \in Key, SweepMarks(s, k, "failed"), PastSettle(view[s][k]),
               \/ TransportOf[view[s][k].row.ident] = "oneshot"
               \/ /\ view[s][k].read /\ view[s][k].found = {}
                  /\ ~view[s][k].bare
                  /\ SentEvidence(view[s][k].row.ident)
        PROVE  Goal
    <3>1. view[s][k].listed
      BY <2>6 DEF SweepMarks
    <3>2. /\ \A r \in accepted : r.key = k => OneShotKey(k)
          /\ row[k].status \notin {"absent", "failed", "submitted", "confirmed"}
      BY <2>6, <3>1, SweptFailed
    <3> QED BY <2>1, <2>2, <2>3, <2>6, <3>2
  <2> QED BY <1>2, <1>6, <2>1, <2>4, <2>5, <2>6, SweepCases
<1>7. ASSUME NEW r \in net, Lose(r)
      PROVE  Goal
  BY <1>2, <1>7 DEF Lose
<1>8. ASSUME NEW k \in Key, GrowOld(k)
      PROVE  Goal
  BY <1>2, <1>8 DEF GrowOld, wireVars
<1> QED BY <1>4, <1>5, <1>6, <1>7, <1>8 DEF Next

\* An email known to be out is never opened for another send: marks carry no
\* guard of their own, but none that says failed or pending comes late.
THEOREM OutIsNeverReopened ==
    ASSUME Deployment
    PROVE  Spec => NeverReopened
<1> DEFINE Step == \A k \in Key : row[k].status \in {"submitted", "confirmed"} =>
                       row'[k].status \notin {"pending", "failed"}
<1>1. ASSUME Inv, OutInv, Next
      PROVE  Step
  <2>1. CASE \E r \in net : Accept(r)
    BY <2>1 DEF Accept
  <2>2. CASE \E k \in Key : /\ \A o \in Key \ {k} : row'[o] = row[o]
                            /\ StatusMove(k)
    BY <2>2 DEF StatusMove
  <2> QED BY <1>1, <2>1, <2>2, StatusSteps
<1>2. Inv /\ OutInv /\ [Next]_vars => [Step]_row
  BY <1>1 DEF vars
<1> QED BY <1>2, OutInvariance, PTL DEF Spec, NeverReopened

-----------------------------------------------------------------------------
(* The ledger implements its promise (KeyedEmail).                         *)

outBar == [k \in Key |-> {Message(r) : r \in {q \in accepted : q.key = k}}]
toldBar == [k \in Key |-> ToldOf(row[k].status)]

\* What the ledger tells is read off the status.
LEMMA ToldType ==
    /\ \A status \in Statuses : ToldOf(status) \in KE!Told
    /\ ToldOf("absent") = "nothing" /\ ToldOf("pending") = "trying"
    /\ ToldOf("uncertain") = "unknown" /\ ToldOf("failed") = "retry"
    /\ ToldOf("submitted") = "sent" /\ ToldOf("confirmed") = "sent"
    /\ ToldOf("not_found") = "flagged"
BY DEF ToldOf, Statuses, KE!Told

LEMMA MapsInit ==
    ASSUME Init
    PROVE  KE!KeyedInit
BY ToldType DEF Init, NoRow, KE!KeyedInit

\* A move of a row's status is a step the promise allows, or a stutter.
LEMMA MapsMove ==
    ASSUME Inv, Inv', accepted' = accepted, NEW k \in Key,
           \A o \in Key \ {k} : row'[o] = row[o], StatusMove(k)
    PROVE  [KE!KeyedNext]_(KE!keyedVars)
<1> DEFINE was == row[k].status
           now == row'[k].status
           out == \E r \in accepted : r.key = k
<1>1. row[k].status \in Statuses /\ row'[k].status \in Statuses
  BY DEF Inv, TypeOK, Row
<1>2. outBar' = outBar
  BY DEF outBar
<1>3. /\ toldBar[k] = ToldOf(was)
      /\ toldBar' = [toldBar EXCEPT ![k] = ToldOf(now)]
  BY DEF toldBar
<1>4. out <=> outBar[k] # {}
  BY DEF outBar
<1>5. ASSUME ToldOf(now) = ToldOf(was)
      PROVE  UNCHANGED <<outBar, toldBar>>
  <2>1. toldBar' = toldBar
    BY <1>3, <1>5 DEF toldBar
  <2> QED BY <1>2, <2>1
<1>6. ASSUME was \in {"absent", "failed"}, now = "pending"
      PROVE  KE!Try(k)
  BY <1>2, <1>3, <1>6, ToldType DEF KE!Try, KE!Tell, outBar, toldBar
<1>7. ASSUME was \notin {"absent", "failed", "uncertain"}, now = "uncertain"
      PROVE  KE!Doubt(k)
  <2>1. ToldOf(was) \in {"trying", "sent", "flagged"}
    BY <1>1, <1>7, ToldType DEF Statuses
  <2> QED BY <1>2, <1>3, <1>7, <2>1, ToldType DEF KE!Doubt, KE!Tell, outBar, toldBar
<1>8. ASSUME was \notin {"absent", "not_found"}, now = "not_found"
      PROVE  KE!Flag(k)
  <2>1. ToldOf(was) \in KE!Told \ {"nothing", "flagged"}
    BY <1>1, <1>8, ToldType DEF Statuses
  <2> QED BY <1>2, <1>3, <1>8, <2>1, ToldType DEF KE!Flag, KE!Tell, outBar, toldBar
<1>9. ASSUME was \notin {"absent", "failed", "submitted", "confirmed"},
             now \in {"submitted", "confirmed"}, out
      PROVE  KE!Confirm(k)
  <2>1. ToldOf(was) \in {"trying", "unknown", "flagged"} /\ ToldOf(now) = "sent"
    BY <1>1, <1>9, ToldType DEF Statuses
  <2> QED BY <1>2, <1>3, <1>4, <1>9, <2>1 DEF KE!Confirm, KE!Tell, outBar, toldBar
<1>10. ASSUME was \notin {"absent", "failed", "submitted", "confirmed"},
              now = "failed", out => OneShotKey(k)
       PROVE  KE!Retry(k)
  <2>1. ToldOf(was) \in {"trying", "unknown", "flagged"} /\ ToldOf(now) = "retry"
    BY <1>1, <1>10, ToldType DEF Statuses
  <2>2. outBar[k] = {} \/ k \in {o \in Key : \A i \in Route[o] : TransportOf[i] = "oneshot"}
    BY <1>4, <1>10 DEF OneShotKey
  <2> QED BY <1>2, <1>3, <2>1, <2>2 DEF KE!Retry, KE!Tell, outBar, toldBar
<1>11. \/ ToldOf(now) = ToldOf(was)
       \/ KE!Try(k) \/ KE!Doubt(k) \/ KE!Flag(k) \/ KE!Confirm(k) \/ KE!Retry(k)
  <2>1. /\ was = now => ToldOf(now) = ToldOf(was)
        /\ was \in {"submitted", "confirmed"} /\ now \in {"submitted", "confirmed"}
              => ToldOf(now) = ToldOf(was)
    BY ToldType
  <2> QED BY <1>6, <1>7, <1>8, <1>9, <1>10, <2>1 DEF StatusMove
<1>12. CASE ToldOf(now) = ToldOf(was)
  BY <1>5, <1>12 DEF KE!keyedVars, outBar, toldBar
<1> QED BY <1>11, <1>12 DEF KE!KeyedNext

\* After a step that keeps the invariant there is still one message.
LEMMA OneMessageNext == Inv' => NoDuplicateEmail'
BY OneMessage, PTL

\* An acceptance is the delivery of the email's one message, or repeats it.
LEMMA MapsAccept ==
    ASSUME Inv, Inv', OutInv, NEW r \in net, Accept(r)
    PROVE  [KE!KeyedNext]_(KE!keyedVars)
<1> DEFINE k == r.key
           m == Message(r)
<1>1. /\ r \in Request /\ k \in Key /\ m \in Mail
      /\ accepted' = accepted \cup {r} /\ row' = row
  BY MailType DEF Accept, Inv, TypeOK, Request
<1>2. toldBar' = toldBar
  BY <1>1 DEF toldBar
<1>3. \A o \in Key \ {k} : outBar'[o] = outBar[o]
  BY <1>1 DEF outBar
<1>4. outBar'[k] = outBar[k] \cup {m}
  BY <1>1 DEF outBar
<1>5. CASE outBar[k] = {}
  <2>1. \A q \in accepted : q.key # k
    BY <1>1, <1>5 DEF outBar
  <2>2. row[k].status \in {"pending", "uncertain", "not_found"}
    <3>1. row[k].status \in Statuses /\ row[k].status \notin {"failed", "submitted", "confirmed"}
      BY <1>1, <2>1 DEF OutInv, NetIsCurrent, SettledIsOut, Inv, TypeOK, Row
    <3>2. row[k].status # "absent"
      BY <1>1 DEF Inv, Claimed, RequestsMatchRows, Requests, Request
    <3> QED BY <3>1, <3>2 DEF Statuses
  <2>3. toldBar[k] \in {"trying", "unknown", "flagged"}
    BY <1>1, <2>2, ToldType DEF toldBar
  <2>4. outBar' = [outBar EXCEPT ![k] = {m}]
    BY <1>3, <1>4, <1>5 DEF outBar
  <2>5. KE!Deliver(k, m)
    BY <1>2, <1>5, <2>3, <2>4 DEF KE!Deliver, outBar, toldBar
  <2> QED BY <1>1, <2>5 DEF KE!KeyedNext
<1>6. CASE outBar[k] # {}
  <2>1. PICK q \in accepted : q.key = k
    BY <1>1, <1>6 DEF outBar
  <2>2. NoDuplicateEmail'
    BY OneMessageNext
  <2>3. Message(q) = m
    BY <1>1, <2>1, <2>2 DEF NoDuplicateEmail
  <2>4. m \in outBar[k]
    BY <1>1, <2>1, <2>3 DEF outBar
  <2>5. outBar' = outBar
    BY <1>3, <1>4, <2>4 DEF outBar
  <2> QED BY <1>2, <2>5 DEF KE!keyedVars, outBar, toldBar
<1> QED BY <1>5, <1>6

\* The ledger, its workers, its sweep and the providers keep the promise: every
\* step is one KeyedEmail allows for some email, or changes nothing it shows.
THEOREM LedgerKeepsThePromise ==
    ASSUME Deployment
    PROVE  Spec => KeepsThePromise
<1>1. Init => KE!KeyedInit
  BY MapsInit
<1>2. Inv /\ Inv' /\ OutInv /\ [Next]_vars => [KE!KeyedNext]_(KE!keyedVars)
  <2>1. ASSUME Inv, Inv', OutInv, UNCHANGED vars
        PROVE  UNCHANGED KE!keyedVars
    BY <2>1 DEF vars, workerVars, wireVars, KE!keyedVars
  <2>2. ASSUME Inv, Inv', OutInv, Next
        PROVE  [KE!KeyedNext]_(KE!keyedVars)
    BY <2>2, StatusSteps, MapsAccept, MapsMove
  <2> QED BY <2>1, <2>2
<1> QED BY <1>1, <1>2, OutInvariance, PTL DEF Spec, KeepsThePromise, KE!KeyedSpec

=============================================================================
