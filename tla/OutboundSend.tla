---------------------------- MODULE OutboundSend ----------------------------
(***************************************************************************)
(* The outbound send ledger: every campaign email runs under a row of      *)
(* outbound_sends keyed by what the email IS (workspace, play, recipient,  *)
(* step).  keyedSend claims the row, hands the message to a transport that *)
(* may accept it, refuse it or never answer, and marks the outcome; the    *)
(* confirm sweep lists the open rows, reads the Sent folder, and settles   *)
(* them.  Processes share the database and nothing else: a worker may die  *)
(* between any two of its writes, a request it gave up on may still be on  *)
(* its way to the provider, and the sweep marks a row it read before an    *)
(* await.                                                                  *)
(*                                                                         *)
(* The clock is abstracted to the age of the last attempt of each row, in  *)
(* classes separated by the thresholds the code compares ages with.        *)
(***************************************************************************)
EXTENDS Naturals, FiniteSets

CONSTANTS Key,          \* intended emails
          Worker,       \* processes and async tasks that call keyedSend
          Sweeper,      \* confirm sweeps: the scheduler's, `sends check`
          Identity,     \* sender identities
          Content,      \* drafts: subject, body and thread headers
          Address,      \* recipient addresses
          TransportOf,  \* [Identity -> Transports]
          KeepsSentCopy,\* [Identity -> BOOLEAN], the SMTP server files Sent itself
          Route,        \* [Key -> SUBSET Identity], who may send it
          Recipients,   \* [Key -> SUBSET Address], what callers may ask for
          Threaded,     \* drafts that answer an earlier message: "Re:", In-Reply-To
          MaxAttempts,  \* bound of this model on claims per row
          NetBound,     \* oldest age at which a request may still be on the wire
          CallBound     \* oldest age at which a caller may still be waiting

Transports == {"smtp", "gmail", "oneshot"}

\* Age classes of a row's last attempt: 0 is younger than CONFIRM_MIN_AGE_MS.
CONFIRMABLE == 1  \* CONFIRM_MIN_AGE_MS, 3 minutes
STALE       == 2  \* STALE_PENDING_MS, 5 minutes
SETTLE      == 3  \* UNCERTAIN_SETTLE_MS, 10 minutes
LOST        == 4  \* SUBMITTED_NOT_FOUND_MS, 30 minutes
Age         == 0 .. LOST

ONESHOT_UNCERTAIN_RETRIES == 3

ASSUME ConstantsAssumption ==
    /\ Key # {} /\ Identity # {} /\ Content # {} /\ Address # {}
    /\ IsFiniteSet(Key)
    /\ TransportOf \in [Identity -> Transports]
    /\ KeepsSentCopy \in [Identity -> BOOLEAN]
    /\ Route \in [Key -> SUBSET Identity]
    /\ Recipients \in [Key -> SUBSET Address]
    /\ Threaded \subseteq Content
    /\ MaxAttempts \in Nat \ {0}
    /\ NetBound \in Age /\ CallBound \in Age

VARIABLES row,       \* outbound_sends, by key
          age,       \* age class of row[k].last_attempt_at
          pc, job,   \* where each worker is, and the request it is making
          prior,     \* the status a replaying worker was shown by its claim
          net,       \* requests on the wire, whether or not anyone still waits
          accepted,  \* requests a provider accepted: emails that are out
          sent,      \* copies in the mailboxes' Sent folders
          receipts,  \* request ids of the email.send receipts, per key
          view       \* rows each sweep has listed and not yet dealt with

workerVars == <<pc, job, prior>>
wireVars == <<net, accepted, sent>>
vars == <<row, age, pc, job, prior, net, accepted, sent, receipts, view>>

Statuses == {"absent", "pending", "submitted", "uncertain", "failed",
             "confirmed", "not_found"}

\* A row: its claim (recipient, identity, content on record) and its outcome.
Row == [status : Statuses, ident : Identity, content : Content, to : Address,
        exact : BOOLEAN, attempts : 0 .. MaxAttempts, receipt : BOOLEAN]

NoRow == [status |-> "absent", ident |-> CHOOSE i \in Identity : TRUE,
          content |-> CHOOSE c \in Content : TRUE,
          to |-> CHOOSE a \in Address : TRUE,
          exact |-> FALSE, attempts |-> 0, receipt |-> FALSE]

\* One attempt's message as it goes to the provider; n is the attempt number.
Request == [key : Key, n : 1 .. MaxAttempts, ident : Identity,
            content : Content, to : Address]
NoJob == [key |-> "none"]

\* A copy in Sent; bare when the provider dropped its In-Reply-To header.
Copy == [req : Request, bare : BOOLEAN]

WorkerStates == {"idle", "sending", "accepted", "receipted", "replay",
                 "replayed"}
Sending == {"sending", "accepted", "receipted"}

\* Mutant: every mailbox is believed to file its own copies.
SentEvidenceEverywhere(i) == TransportOf[i] # "oneshot"

\* Missing from Sent proves "not sent": Gmail, and SMTP servers that file
\* their own copy of what they accept.
SentEvidence(i) ==
    \/ TransportOf[i] = "gmail"
    \/ TransportOf[i] = "smtp" /\ KeepsSentCopy[i]

\* The server files its own copy of what it accepts.
FilesOwnCopy(i) ==
    \/ TransportOf[i] = "gmail"
    \/ TransportOf[i] = "smtp" /\ KeepsSentCopy[i]

\* What makes two accepted requests the same email to the recipient: SMTP
\* keeps the row's Message-ID, the OneShot platform replays a request with a
\* known idempotency key, Gmail makes every accepted request a new message.
Message(r) ==
    CASE TransportOf[r.ident] = "smtp"    -> <<"smtp", r.key>>
      [] TransportOf[r.ident] = "gmail"   -> <<"gmail", r.key, r.n>>
      [] TransportOf[r.ident] = "oneshot" -> <<"oneshot", r.key, r.ident, r.to, r.content>>

Mail == {Message(r) : r \in Request}

\* What a sweep holds of one row: the listed snapshot and, once the Sent
\* lookup has answered, the messages whose copies it matched.
NoView == [listed |-> FALSE]
View == [listed : {TRUE}, row : Row, age : Age, read : BOOLEAN,
         found : SUBSET Mail, bare : BOOLEAN]

\* The id a replay files its receipt under: the row's Message-ID, which only
\* an SMTP row has before its outcome is marked, or else the key.
ReplayId(r) ==
    IF TransportOf[r.ident] = "smtp" THEN Message(r) ELSE <<"key", r.key>>

ReceiptIds == Mail \cup {ReplayId(r) : r \in Request}

SettledStatus(i) ==
    IF TransportOf[i] = "oneshot" THEN "confirmed" ELSE "submitted"

\* mark: an UPDATE by key alone, whatever status the row has by now.
Marked(r, status) ==
    [r EXCEPT !.status = status, !.exact = @ \/ status = "uncertain"]

Init ==
    /\ row = [k \in Key |-> NoRow]
    /\ age = [k \in Key |-> 0]
    /\ pc = [w \in Worker |-> "idle"]
    /\ job = [w \in Worker |-> NoJob]
    /\ prior = [w \in Worker |-> "absent"]
    /\ net = {} /\ accepted = {} /\ sent = {}
    /\ receipts = [k \in Key |-> {}]
    /\ view = [s \in Sweeper |-> [k \in Key |-> NoView]]

-----------------------------------------------------------------------------
(* The claim: one IMMEDIATE transaction that decides who may send.         *)

RequestOf(k, r) ==
    [key |-> k, n |-> r.attempts, ident |-> r.ident, content |-> r.content,
     to |-> r.to]

\* The claim returned `send`: the worker submits what the row now holds.
Submit(w, k, r) ==
    /\ row' = [row EXCEPT ![k] = r]
    /\ age' = [age EXCEPT ![k] = 0]
    /\ pc' = [pc EXCEPT ![w] = "sending"]
    /\ job' = [job EXCEPT ![w] = RequestOf(k, r)]
    /\ net' = net \cup {RequestOf(k, r)}
    /\ UNCHANGED <<prior, accepted, sent, receipts, view>>

FirstRow(i, c, a) ==
    [status |-> "pending", ident |-> i, content |-> c, to |-> a,
     exact |-> FALSE, attempts |-> 1, receipt |-> FALSE]

\* No row under the key: the first attempt of this email.
ClaimNew(w, k, i, c, a) ==
    /\ pc[w] = "idle"
    /\ row[k].status = "absent"
    /\ Submit(w, k, FirstRow(i, c, a))

\* Mutant: the retry always takes the caller's newest draft.
RedraftedRow(r, i, c) ==
    [r EXCEPT !.status = "pending", !.ident = i, !.content = c,
              !.attempts = @ + 1]

\* The row of a retry: today's identity, and today's draft unless an earlier
\* outcome was unknown; the recipient stays the first one.
RetriedRow(r, i, c) ==
    [r EXCEPT !.status = "pending", !.ident = i,
              !.content = IF r.exact THEN @ ELSE c, !.attempts = @ + 1]

\* A failed row is claimed again.
ClaimRetry(w, k, i, c) ==
    /\ pc[w] = "idle"
    /\ row[k].status = "failed"
    /\ row[k].attempts < MaxAttempts
    /\ Submit(w, k, RetriedRow(row[k], i, c))

\* Mutants: the interrupted send is taken as not sent, or sent again at once.
ClaimStaleAsFailed(w, k) ==
    /\ pc[w] = "idle"
    /\ row[k].status = "pending" /\ age[k] >= STALE
    /\ row' = [row EXCEPT ![k] = Marked(@, "failed")]
    /\ UNCHANGED <<age, workerVars, wireVars, receipts, view>>

ClaimStaleResends(w, k) ==
    /\ pc[w] = "idle"
    /\ row[k].status = "pending" /\ age[k] >= STALE
    /\ row[k].attempts < MaxAttempts
    /\ Submit(w, k, [row[k] EXCEPT !.attempts = @ + 1])

\* A pending row past STALE_PENDING_MS is taken for a dead process's: it
\* becomes uncertain and this caller is refused.
ClaimStale(w, k) ==
    /\ pc[w] = "idle"
    /\ row[k].status = "pending" /\ age[k] >= STALE
    /\ row' = [row EXCEPT ![k] = Marked(@, "uncertain")]
    /\ UNCHANGED <<age, workerVars, wireVars, receipts, view>>

\* submitted, confirmed, not_found: the earlier outcome is replayed.  With a
\* receipt on the row there is nothing to write; without one the worker goes
\* on to write it, holding the row it was shown.
ClaimReplay(w, k) ==
    /\ pc[w] = "idle"
    /\ row[k].status \in {"submitted", "confirmed", "not_found"}
    /\ ~row[k].receipt
    /\ pc' = [pc EXCEPT ![w] = "replay"]
    /\ job' = [job EXCEPT ![w] = RequestOf(k, row[k])]
    /\ prior' = [prior EXCEPT ![w] = row[k].status]
    /\ UNCHANGED <<row, age, wireVars, receipts, view>>

Claim(w, k) ==
    \/ \E i \in Route[k], c \in Content, a \in Recipients[k] :
          ClaimNew(w, k, i, c, a)
    \/ \E i \in Route[k], c \in Content : ClaimRetry(w, k, i, c)
    \/ ClaimStale(w, k)
    \/ ClaimReplay(w, k)

-----------------------------------------------------------------------------
(* The attempt, from the worker's side.                                    *)

Done(w) ==
    /\ pc' = [pc EXCEPT ![w] = "idle"]
    /\ job' = [job EXCEPT ![w] = NoJob]
    /\ prior' = [prior EXCEPT ![w] = "absent"]

\* The provider answered that it took the message.  Where the server keeps no
\* copy of its own, the client appends one to Sent; that may fail.
TransportOk(w) ==
    /\ pc[w] = "sending" /\ job[w] \in accepted
    /\ pc' = [pc EXCEPT ![w] = "accepted"]
    /\ sent' \in IF TransportOf[job[w].ident] = "smtp" /\ ~FilesOwnCopy(job[w].ident)
                 THEN {sent, sent \cup {[req |-> job[w], bare |-> FALSE]}}
                 ELSE {sent}
    /\ UNCHANGED <<row, age, job, prior, net, accepted, receipts, view>>

WriteReceipt(w) ==
    /\ pc[w] = "accepted"
    /\ pc' = [pc EXCEPT ![w] = "receipted"]
    /\ receipts' = [receipts EXCEPT ![job[w].key] = @ \cup {Message(job[w])}]
    /\ UNCHANGED <<row, age, job, prior, wireVars, view>>

MarkSettled(w) ==
    /\ pc[w] = "receipted"
    /\ row' = [row EXCEPT ![job[w].key] =
                  [Marked(@, SettledStatus(job[w].ident)) EXCEPT !.receipt = TRUE]]
    /\ Done(w)
    /\ UNCHANGED <<age, wireVars, receipts, view>>

\* A failure the provider answered, or one before anything was sent.
FailDefinite(w) ==
    /\ pc[w] = "sending" /\ job[w] \notin accepted
    /\ net' = net \ {job[w]}
    /\ row' = [row EXCEPT ![job[w].key] = Marked(@, "failed")]
    /\ Done(w)
    /\ UNCHANGED <<age, accepted, sent, receipts, view>>

\* Mutant: a deadline on the send call counts as a definite failure.
FailUnknownAsDefinite(w) ==
    /\ pc[w] \in Sending
    /\ row' = [row EXCEPT ![job[w].key] = Marked(@, "failed")]
    /\ Done(w)
    /\ UNCHANGED <<age, wireVars, receipts, view>>

\* A deadline, a dropped connection, or an error after acceptance: the request
\* itself may be anywhere.
FailUnknown(w) ==
    /\ pc[w] \in Sending
    /\ row' = [row EXCEPT ![job[w].key] = Marked(@, "uncertain")]
    /\ Done(w)
    /\ UNCHANGED <<age, wireVars, receipts, view>>

\* The replay of a send whose receipt never reached the row.
ReplayReceipt(w) ==
    /\ pc[w] = "replay"
    /\ pc' = [pc EXCEPT ![w] = "replayed"]
    /\ receipts' = [receipts EXCEPT ![job[w].key] = @ \cup {ReplayId(job[w])}]
    /\ UNCHANGED <<row, age, job, prior, wireVars, view>>

ReplayMark(w) ==
    /\ pc[w] = "replayed"
    /\ row' = [row EXCEPT ![job[w].key] =
                  [Marked(@, prior[w]) EXCEPT !.receipt = TRUE]]
    /\ Done(w)
    /\ UNCHANGED <<age, wireVars, receipts, view>>

\* The process dies: what it had written stays, its request stays on the wire.
Crash(w) ==
    /\ pc[w] # "idle"
    /\ Done(w)
    /\ UNCHANGED <<row, age, wireVars, receipts, view>>

Attempt(w) ==
    \/ TransportOk(w) \/ WriteReceipt(w) \/ MarkSettled(w)
    \/ FailDefinite(w) \/ FailUnknown(w)
    \/ ReplayReceipt(w) \/ ReplayMark(w)

-----------------------------------------------------------------------------
(* The providers and the passing of time.                                  *)

\* A request arrives, perhaps after its sender gave up on it.
Accept(r) ==
    /\ net' = net \ {r}
    /\ accepted' = accepted \cup {r}
    /\ IF FilesOwnCopy(r.ident)
       THEN \E bare \in BOOLEAN :
              /\ bare => TransportOf[r.ident] = "gmail" /\ r.content \in Threaded
              /\ sent' = sent \cup {[req |-> r, bare |-> bare]}
       ELSE sent' = sent
    /\ UNCHANGED <<row, age, workerVars, receipts, view>>

\* A request nobody waits for any more is lost on the way.
Lose(r) ==
    /\ \A w \in Worker : pc[w] = "sending" => job[w] # r
    /\ net' = net \ {r}
    /\ UNCHANGED <<row, age, workerVars, accepted, sent, receipts, view>>

\* The last attempt of k gets older; how long a request may travel and a
\* caller may wait is bounded by NetBound and CallBound.
GrowOld(k) ==
    /\ row[k].status # "absent" /\ age[k] < LOST
    /\ age[k] >= NetBound => \A r \in net : r.key # k
    /\ age[k] >= CallBound => \A w \in Worker : pc[w] \in Sending => job[w].key # k
    /\ age' = [age EXCEPT ![k] = @ + 1]
    /\ UNCHANGED <<row, workerVars, wireVars, receipts, view>>

-----------------------------------------------------------------------------
(* The confirm sweep: list, then per row a Sent lookup and its verdict.    *)

\* Mutant: the sweep only looks at sends the transport accepted.
UnconfirmedSubmitted(k) == row[k].status = "submitted" /\ age[k] >= CONFIRMABLE

Unconfirmed(k) ==
    row[k].status \in {"submitted", "uncertain"} /\ age[k] >= CONFIRMABLE

SweepList(s) ==
    /\ \A k \in Key : view[s][k] = NoView
    /\ \E k \in Key : Unconfirmed(k)
    /\ view' = [view EXCEPT ![s] = [k \in Key |->
                   IF Unconfirmed(k)
                   THEN [listed |-> TRUE, row |-> row[k], age |-> age[k],
                         read |-> FALSE, found |-> {}, bare |-> FALSE]
                   ELSE NoView]]
    /\ UNCHANGED <<row, age, workerVars, wireVars, receipts>>

\* s is free to take up the listed row k: it awaits one lookup at a time.
Turn(s, k) ==
    /\ view[s][k].listed /\ ~view[s][k].read
    /\ \A o \in Key : view[s][o].listed => ~view[s][o].read

\* A OneShot row has no Sent folder: an old uncertain one is settled by count.
SweepOneShot(s, k) ==
    LET v == view[s][k]
    IN  /\ Turn(s, k)
        /\ TransportOf[v.row.ident] = "oneshot"
        /\ row' = IF v.row.status = "uncertain" /\ v.age >= SETTLE
                  THEN [row EXCEPT ![k] = Marked(@,
                           IF v.row.attempts < ONESHOT_UNCERTAIN_RETRIES
                           THEN "failed" ELSE "not_found")]
                  ELSE row
        /\ view' = [view EXCEPT ![s][k] = NoView]
        /\ UNCHANGED <<age, workerVars, wireVars, receipts>>

\* The copies a lookup for row r of key k returns: by Message-ID over IMAP,
\* by recipient and subject in Gmail.
Matches(k, r) ==
    IF TransportOf[r.ident] = "smtp"
    THEN {c \in sent : c.req.ident = r.ident /\ c.req.key = k}
    ELSE {c \in sent : /\ c.req.ident = r.ident /\ c.req.to = r.to
                       /\ c.req.content = r.content}

\* Of those, the ones that count: in Gmail a reply's copy must show what it
\* answers.  The others are the headerless ones.
Counts(r, c) == TransportOf[r.ident] = "gmail" /\ r.content \in Threaded => ~c.bare

\* The answer of a Sent lookup: the messages found, and whether some copies
\* could not be counted.
Looked(k, v) ==
    LET all == Matches(k, v.row)
        hits == {c \in all : Counts(v.row, c)}
    IN  [v EXCEPT !.read = TRUE,
                  !.found = {Message(c.req) : c \in hits},
                  !.bare = hits # all]

SweepRead(s, k) ==
    /\ Turn(s, k)
    /\ TransportOf[view[s][k].row.ident] # "oneshot"
    /\ view' = [view EXCEPT ![s][k] = Looked(k, @)]
    /\ UNCHANGED <<row, age, workerVars, wireVars, receipts>>

\* Mutant: every copy found is taken for this send's.
NoTwins(k, r) == {}

\* Sends a Gmail lookup cannot tell from k's, as listed after the lookup.
Twins(k, r) ==
    {o \in Key \ {k} : /\ row[o].status \notin {"absent", "failed"}
                       /\ TransportOf[r.ident] = "gmail"
                       /\ row[o].ident = r.ident /\ row[o].to = r.to
                       /\ row[o].content = r.content}

\* Mutants: an unknown outcome is settled as soon as it can be looked up; a
\* submitted send is waited for without end.
PastSettleEarly(v) == v.row.status = "uncertain" /\ v.age >= CONFIRMABLE
PastLostNever(v) == FALSE

PastSettle(v) == v.row.status = "uncertain" /\ v.age >= SETTLE
PastLost(v)   == v.row.status = "submitted" /\ v.age >= LOST

Verdict(k, v) ==
    LET shared == Cardinality(v.found) <= Cardinality(Twins(k, v.row))
    IN  CASE v.found # {} /\ ~shared               -> "confirmed"
          [] v.found # {} /\ shared                -> "not_found"
          [] v.found = {} /\ PastSettle(v)         ->
                IF ~v.bare /\ SentEvidence(v.row.ident) THEN "failed" ELSE "not_found"
          [] v.found = {} /\ PastLost(v)           -> "not_found"
          [] OTHER                                 -> "unchanged"

\* Mutant: "unchanged" is written to the row like any other verdict.
SweepSettleAlways(s, k) ==
    /\ view[s][k].listed /\ view[s][k].read
    /\ row' = [row EXCEPT ![k] = Marked(@, Verdict(k, view[s][k]))]
    /\ view' = [view EXCEPT ![s][k] = NoView]
    /\ UNCHANGED <<age, workerVars, wireVars, receipts>>

SweepSettle(s, k) ==
    /\ view[s][k].listed /\ view[s][k].read
    /\ row' = IF Verdict(k, view[s][k]) = "unchanged" THEN row
              ELSE [row EXCEPT ![k] = Marked(@, Verdict(k, view[s][k]))]
    /\ view' = [view EXCEPT ![s][k] = NoView]
    /\ UNCHANGED <<age, workerVars, wireVars, receipts>>

\* The mailbox can never be read for this row: settled, never resent.
SweepUnreadable(s, k) ==
    /\ Turn(s, k)
    /\ TransportOf[view[s][k].row.ident] # "oneshot"
    /\ row' = [row EXCEPT ![k] = Marked(@, "not_found")]
    /\ view' = [view EXCEPT ![s][k] = NoView]
    /\ UNCHANGED <<age, workerVars, wireVars, receipts>>

\* The read failed for now: this mailbox is left alone until the next sweep.
SweepOutage(s, k) ==
    LET i == view[s][k].row.ident
    IN  /\ Turn(s, k)
        /\ TransportOf[i] # "oneshot"
        /\ view' = [view EXCEPT ![s] = [o \in Key |->
                       IF @[o].listed /\ @[o].row.ident = i THEN NoView ELSE @[o]]]
        /\ UNCHANGED <<row, age, workerVars, wireVars, receipts>>

\* The sweep's deadline or read limit, or its process's death.
SweepStop(s) ==
    /\ \E k \in Key : view[s][k].listed
    /\ view' = [view EXCEPT ![s] = [k \in Key |-> NoView]]
    /\ UNCHANGED <<row, age, workerVars, wireVars, receipts>>

Sweep(s) ==
    \/ SweepList(s) \/ SweepStop(s)
    \/ \E k \in Key : \/ SweepOneShot(s, k) \/ SweepRead(s, k)
                      \/ SweepSettle(s, k) \/ SweepUnreadable(s, k)
                      \/ SweepOutage(s, k)

Next ==
    \/ \E w \in Worker : Attempt(w) \/ Crash(w) \/ \E k \in Key : Claim(w, k)
    \/ \E r \in net : Accept(r) \/ Lose(r)
    \/ \E k \in Key : GrowOld(k)
    \/ \E s \in Sweeper : Sweep(s)

Spec == Init /\ [][Next]_vars

-----------------------------------------------------------------------------
(* Fairness: scheduled code keeps running; callers and crashes do not.     *)

\* A mailbox that can be read again and again is read at last: sweeps recur
\* every few minutes, so SweepRead and SweepOneShot are strongly fair.
Fairness ==
    /\ \A k \in Key : WF_vars(GrowOld(k))
    /\ \A w \in Worker : WF_vars(Attempt(w))
    /\ WF_vars(\E r \in net : Accept(r) \/ Lose(r))
    /\ \A s \in Sweeper :
          /\ WF_vars(SweepList(s))
          /\ \A k \in Key : /\ SF_vars(SweepOneShot(s, k))
                            /\ SF_vars(SweepRead(s, k))
                            /\ SF_vars(SweepSettle(s, k))

FairSpec == Spec /\ Fairness

-----------------------------------------------------------------------------
(* Properties.                                                             *)

\* Every variable keeps its type: a row is absent or complete, a busy worker
\* holds the request of its attempt, copies in Sent come from requests.
TypeOK ==
    /\ row \in [Key -> Row]
    /\ age \in [Key -> Age]
    /\ pc \in [Worker -> WorkerStates]
    /\ job \in [Worker -> Request \cup {NoJob}]
    /\ prior \in [Worker -> Statuses]
    /\ net \subseteq Request
    /\ accepted \subseteq Request
    /\ sent \subseteq Copy
    /\ receipts \in [Key -> SUBSET ReceiptIds]
    /\ view \in [Sweeper -> [Key -> View \cup {NoView}]]

\* Whatever crashes, times out, arrives late or is retried, the recipient of
\* one intended email gets one message (the claim, keyedSend and the sweep).
NoDuplicateEmail ==
    \A r, q \in accepted : r.key = q.key => Message(r) = Message(q)

\* Two callers never have the same email at a transport at once, also when
\* the first outlives its claim (claim's in_flight and uncertain verdicts).
OneCallPerKey ==
    \A w, x \in Worker :
        /\ pc[w] \in Sending /\ pc[x] \in Sending
        /\ job[w].key = job[x].key
        => w = x

\* `failed` means safe to retry: no request of the email is out or can still
\* arrive, except a OneShot one, which an exact resend makes the platform
\* replay (OutboundStatus, settleOneShot).
FailedIsNotOut ==
    \A r \in net \cup accepted :
        row[r.key].status = "failed" =>
            TransportOf[r.ident] = "oneshot" /\ row[r.key].exact

\* A row that reads submitted or confirmed is an email that is out: the sweep
\* never takes another email's copy for this one's (the twins rule).
SettledIsOut ==
    \A k \in Key : row[k].status \in {"submitted", "confirmed"} =>
        \E r \in accepted : r.key = k

\* What the row records is what went out: no later draft replaces the text or
\* the address of a message the recipient may have (exact_resend, and the
\* recipient kept on a retry).
RecordMatchesMail ==
    \A r \in net \cup accepted :
        r.content = row[r.key].content /\ r.to = row[r.key].to

\* An email known to be out is never opened for another send, whatever late
\* mark arrives (mark has no status guard of its own).
NeverReopened ==
    [][\A k \in Key : row[k].status \in {"submitted", "confirmed"} =>
           row'[k].status \notin {"pending", "failed"}]_row

\* An unknown outcome does not stay unknown: the sweep settles it.
UncertainSettles ==
    \A k \in Key : row[k].status = "uncertain" ~> row[k].status # "uncertain"

\* A submitted send is confirmed or flagged in the end.
SubmittedSettles ==
    \A k \in Key : row[k].status = "submitted" ~>
        row[k].status \in {"confirmed", "not_found"}

-----------------------------------------------------------------------------
(* The inductive invariant: why one email is one message.                  *)

\* A sweep settles a row it read before its await; two of them can undo each
\* other's work, so the argument needs one at a time.
OneSweeper == \A s, t \in Sweeper : s = t

\* No caller waits, and no request travels, as long as UNCERTAIN_SETTLE_MS.
TimeoutsBeforeSettle == CallBound < SETTLE /\ NetBound < SETTLE

\* A key routed to OneShot has no other sender: its replays are recognised by
\* sender and text.
OneShotRoute ==
    \A k \in Key : \A i, j \in Route[k] : TransportOf[i] = "oneshot" => i = j

Requests == net \cup accepted

\* Who works on a row found it claimed: no mark makes an outcome without one.
Claimed ==
    /\ \A k \in Key : row[k].status = "absent" <=> row[k].attempts = 0
    /\ \A w \in Worker : pc[w] # "idle" =>
          job[w] \in Request /\ row[job[w].key].attempts # 0
    /\ \A w \in Worker : pc[w] \in {"replay", "replayed"} =>
          prior[w] \in {"submitted", "confirmed", "not_found"}
    /\ \A s \in Sweeper, k \in Key : view[s][k].listed => row[k].attempts # 0

\* Every request of a key carries what its row records; one of an earlier
\* attempt, or of a failed row, is a OneShot request whose text is pinned.
RequestsMatchRows ==
    \A r \in Requests :
        LET o == row[r.key]
            replayable == TransportOf[r.ident] = "oneshot" /\ o.exact
        IN  /\ r.ident = o.ident /\ r.content = o.content /\ r.to = o.to
            /\ r.n <= o.attempts
            /\ r.n < o.attempts \/ o.status = "failed" => replayable

\* A worker at a transport makes the row's current attempt, which is young.
WorkersMatchRows ==
    \A w \in Worker : pc[w] \in Sending =>
        LET k == job[w].key
        IN  /\ job[w] = RequestOf(k, row[k])
            /\ row[k].status # "failed"
            /\ age[k] <= CallBound

YoungRequests == \A r \in net : age[r.key] <= NetBound

\* A row's sender is one its key may use; an unknown outcome pins the text.
RowsMatchRoutes ==
    \A k \in Key :
        /\ row[k].status # "absent" => row[k].ident \in Route[k]
        /\ row[k].status = "uncertain" => row[k].exact

CopiesFiled ==
    \A r \in accepted : FilesOwnCopy(r.ident) => \E c \in sent : c.req = r

\* What a sweep holds of an old unknown row still describes it, and a lookup
\* that found nothing where the server files its copies still proves nothing
\* went out.
ViewsHold ==
    \A s \in Sweeper, k \in Key :
        LET v == view[s][k]
        IN  v.listed /\ PastSettle(v) =>
              /\ age[k] >= SETTLE
              /\ row[k].status # "failed" /\ row[k].exact
              /\ RequestOf(k, row[k]) = RequestOf(k, v.row)
              /\ v.read /\ v.found = {} /\ ~v.bare /\ SentEvidence(v.row.ident)
                    => \A r \in accepted : r.key # k

\* With TypeOK, inductive: it implies NoDuplicateEmail, FailedIsNotOut and
\* RecordMatchesMail for any number of workers, keys and senders.
Inv ==
    /\ TypeOK
    /\ Claimed
    /\ RequestsMatchRows
    /\ WorkersMatchRows
    /\ OneCallPerKey
    /\ YoungRequests
    /\ RowsMatchRoutes
    /\ CopiesFiled
    /\ ViewsHold

-----------------------------------------------------------------------------
(* The promise, and the mapping that shows this module keeps it.           *)

ToldOf(status) ==
    CASE status = "absent"                       -> "nothing"
      [] status = "pending"                      -> "trying"
      [] status = "uncertain"                    -> "unknown"
      [] status = "failed"                       -> "retry"
      [] status \in {"submitted", "confirmed"}   -> "sent"
      [] status = "not_found"                    -> "flagged"

KE == INSTANCE KeyedEmail WITH
          Mail <- Mail,
          Replayed <- {k \in Key : \A i \in Route[k] : TransportOf[i] = "oneshot"},
          out <- [k \in Key |-> {Message(r) : r \in {q \in accepted : q.key = k}}],
          told <- [k \in Key |-> ToldOf(row[k].status)]

\* Every step of the ledger, its workers and its sweeps is a step the promise
\* allows: one message per email, no retry of one that is out.
KeepsThePromise == KE!KeyedSpec
=============================================================================
