----------------------------- MODULE DirectMail -----------------------------
(***************************************************************************)
(* The letter of one cadence step: quoted, approved, ordered for money,    *)
(* refreshed and canceled.  Every operation reads the piece, waits for the *)
(* platform, and saves what it holds under the piece's revision.  The      *)
(* dashboard's requests take turns by a lock in the server's memory; the   *)
(* scheduler's sweep, the CLI, and the cadence page's Skip do not.         *)
(***************************************************************************)
EXTENDS Naturals, FiniteSets

CONSTANTS MaxKeys,   \* bound on the quotes made,
          MaxEdits,  \* on the changes of an address or a letter,
          MaxFaults  \* and on deaths, lost requests and lost answers

ASSUME MailAssumption == {MaxKeys, MaxEdits, MaxFaults} \subseteq Nat

VARIABLES piece,    \* the step's row of direct_mail_drafts
          preview,  \* the cadence draft's payload.draftId, or 0
          cad,      \* the cadence, as far as this step goes
          marker,   \* sending_started_at: free, held, or left by the dead
          address,  \* the prospect's address and the return address, by version
          keys,     \* the quotes made so far: each has a send key of its own
          task,     \* what each worker is doing
          wire,     \* keys of order requests on their way
          orders,   \* the platform's order under each key
          receipts, \* keys of the orders with a local receipt
          dropped,  \* history: keys canceled, skipped, edited or quoted anew
          revived,  \* history: keys ordered from a copy of a row since deleted
          faults    \* used up of MaxFaults

vars == <<piece, preview, cad, marker, address, keys, task, wire, orders,
          receipts, dropped, revived, faults>>
founder == <<preview, cad, marker, address, keys, dropped>>
platform == <<wire, orders, receipts, revived>>

Key == 1 .. MaxKeys
Version == 0 .. MaxEdits
Worker == {"server", "cli", "sweep"}
Founder == {"server", "cli"}

Piece == [id : 0 .. MaxKeys, key : 0 .. MaxKeys, to : Version, from : Version, approved : BOOLEAN,
          started : BOOLEAN, asked : BOOLEAN, canceled : BOOLEAN]
NoPiece == [id |-> 0, key |-> 0, to |-> 0, from |-> 0, approved |-> FALSE,
            started |-> FALSE, asked |-> FALSE, canceled |-> FALSE]
Order == [made : BOOLEAN, open : BOOLEAN, asked : BOOLEAN, paid : BOOLEAN]
NoOrder == [made |-> FALSE, open |-> FALSE, asked |-> FALSE, paid |-> FALSE]

Phases == {"idle", "quoting", "approving", "toSend", "read", "looking", "ordering",
           "canceling", "accepted"}
Idle == [at |-> "idle", op |-> "none", snap |-> NoPiece, fresh |-> TRUE, kept |-> TRUE]

Init ==
    /\ piece = NoPiece /\ preview = 0
    /\ cad = "active" /\ marker = "free"
    /\ address = [to |-> 0, from |-> 0]
    /\ keys = 0 /\ faults = 0
    /\ task = [w \in Worker |-> Idle]
    /\ wire = {} /\ receipts = {} /\ dropped = {} /\ revived = {}
    /\ orders = [k \in Key |-> NoOrder]

At(w, phase) == task[w].at = phase
Snap(w) == task[w].snap
Row == piece # NoPiece
Fault == faults < MaxFaults /\ faults' = faults + 1
Edits == address.to + address.from

-----------------------------------------------------------------------------
(* The row and its revision.                                               *)

\* Mutant: a save looks at the id only.
FitsAnyRevision(w) == ~Row \/ piece.id = Snap(w).id

\* saveDirectMail: a row of this id has the revision read; without a row it is
\* written again, and the step has one row (its UNIQUE key).
Fits(w) == ~Row \/ (piece.id = Snap(w).id /\ task[w].fresh)

\* Who holds a copy of the row holds an old one now.
Outdated(tasks, id) ==
    [v \in Worker |-> IF tasks[v].snap.id = id
                      THEN [tasks[v] EXCEPT !.fresh = FALSE] ELSE tasks[v]]

\* w saves p and goes on at phase, with p for its copy.
Saves(w, p, phase) ==
    /\ piece' = p
    /\ task' = [Outdated(task, p.id) EXCEPT
                    ![w] = IF phase = "idle" THEN Idle
                           ELSE [task[w] EXCEPT !.at = phase, !.snap = p, !.fresh = TRUE]]

Reads(w, phase, op) ==
    task' = [task EXCEPT ![w] = [at |-> phase, op |-> op, snap |-> piece,
                                 fresh |-> TRUE, kept |-> TRUE]]

Ends(w) == task' = [task EXCEPT ![w] = Idle]

\* The request's finally clears the marker it took.
Unmarked(w) ==
    IF w = "server" /\ task[w].op \in {"send", "approve-send"} THEN "free" ELSE marker

\* claimCadenceSendingMarker: free, or older than five minutes.  The CLI's
\* send takes no marker.
TakesMarker(w) ==
    IF w = "server" THEN marker # "held" /\ marker' = "held" ELSE UNCHANGED marker

-----------------------------------------------------------------------------
(* Quote and approval.                                                     *)

\* previewDirectMail: the copy it keeps takes the addresses of the quote.
PreviewBegin(w) ==
    /\ w \in Founder /\ At(w, "idle")
    /\ cad = "active" /\ ~piece.started /\ keys < MaxKeys
    /\ task' = [task EXCEPT ![w] =
                   [Idle EXCEPT !.at = "quoting", !.op = "preview",
                                !.snap = [piece EXCEPT !.to = address.to,
                                                       !.from = address.from]]]
    /\ UNCHANGED <<piece, founder, platform, faults>>

\* The quote is there: a new send key, for the old id if there was one.
PreviewEnd(w) ==
    LET old == Snap(w)
        new == [NoPiece EXCEPT !.id = IF old.id = 0 THEN keys + 1 ELSE old.id,
                               !.key = keys + 1, !.to = old.to, !.from = old.from]
    IN  /\ At(w, "quoting") /\ keys < MaxKeys
        /\ cad = "active" /\ Fits(w)
        /\ Saves(w, new, "idle")
        /\ keys' = keys + 1
        /\ preview' = new.id
        /\ address' = [address EXCEPT !.to = old.to]
        /\ dropped' = dropped \cup ({old.key} \ {0})
        /\ UNCHANGED <<cad, marker, platform, faults>>

\* approveDirectMail, and the first half of the dashboard's Approve and send.
ApproveBegin(w, op) ==
    /\ w \in Founder /\ At(w, "idle")
    /\ Row /\ ~piece.started /\ ~piece.canceled /\ ~piece.asked
    /\ IF op = "approve-send" THEN w = "server" /\ TakesMarker(w) ELSE UNCHANGED marker
    /\ Reads(w, "approving", op)
    /\ UNCHANGED <<piece, preview, cad, address, keys, dropped, platform, faults>>

ApproveEnd(w) ==
    /\ At(w, "approving") /\ Fits(w)
    /\ Saves(w, [Snap(w) EXCEPT !.approved = TRUE],
             IF task[w].op = "approve-send" THEN "toSend" ELSE "idle")
    /\ UNCHANGED <<founder, platform, faults>>

-----------------------------------------------------------------------------
(* The order.                                                              *)

\* sendDirectMailCadenceStep: the step is due and previewed as this piece.
SendRead(w) ==
    /\ Row /\ preview = piece.id /\ cad = "active"
    /\ \/ w \in Founder /\ At(w, "idle") /\ TakesMarker(w) /\ Reads(w, "read", "send")
       \/ At(w, "toSend") /\ UNCHANGED marker /\ Reads(w, "read", "approve-send")
    /\ UNCHANGED <<piece, preview, cad, address, keys, dropped, platform, faults>>

\* Mutant: whether the cadence still stands at this step is not looked at.
SendableAnyway(p) ==
    /\ ~p.canceled /\ ~p.asked /\ p.approved
    /\ p.started \/ address = [to |-> p.to, from |-> p.from]

\* What sendDirectMail checks after its last await.
Sendable(p) ==
    /\ cad = "active"
    /\ ~p.canceled /\ ~p.asked /\ p.approved
    /\ p.started \/ address = [to |-> p.to, from |-> p.from]

\* It is on record as started before the platform hears of it.
Orders(w) ==
    /\ Sendable(Snap(w)) /\ Fits(w)
    /\ Saves(w, [Snap(w) EXCEPT !.started = TRUE], "ordering")
    /\ wire' = wire \cup {Snap(w).key}
    /\ revived' = IF Row THEN revived ELSE revived \cup {Snap(w).key}
    /\ UNCHANGED <<founder, orders, receipts, faults>>

SendNew(w) == At(w, "read") /\ ~Snap(w).started /\ Orders(w)

\* A started piece is recovered first, from a copy read anew; the order is
\* made again only if the platform has none, from the copy read before that.
SendRecover(w) ==
    /\ At(w, "read") /\ Snap(w).started
    /\ task' = [task EXCEPT ![w].at = "looking", ![w].snap = piece,
                            ![w].fresh = TRUE, ![w].kept = task[w].fresh]
    /\ UNCHANGED <<piece, founder, platform, faults>>

SendAgain(w) ==
    /\ At(w, "looking") /\ task[w].op \in {"send", "approve-send"} /\ task[w].kept
    /\ ~orders[Snap(w).key].made
    /\ Orders(w)

\* recordPaidOrder: once per order, whoever sees that it is paid.
RecordsPaid(k) == receipts' = IF orders[k].paid THEN receipts \cup {k} ELSE receipts

\* The answer tells of the order as it is or, told late, as it was accepted.
SendAnswered(w) ==
    LET k == Snap(w).key
    IN  /\ At(w, "ordering") /\ orders[k].made
        /\ RecordsPaid(k)
        /\ \E accepted \in {TRUE, orders[k].open} :
              IF Fits(w)
              THEN /\ Saves(w, Snap(w), IF accepted THEN "accepted" ELSE "idle")
                   /\ marker' = IF accepted THEN marker ELSE Unmarked(w)
              ELSE Ends(w) /\ marker' = Unmarked(w) /\ UNCHANGED piece
        /\ UNCHANGED <<preview, cad, address, keys, dropped, wire, orders, revived, faults>>

\* advancePastSentStep, with the order accepted: the step moves on; a cadence
\* that is over stays so.
Pass(w) ==
    /\ At(w, "accepted")
    /\ cad' = IF cad = "active" THEN "passed" ELSE cad
    /\ marker' = Unmarked(w)
    /\ Ends(w)
    /\ UNCHANGED <<piece, preview, address, keys, dropped, platform, faults>>

-----------------------------------------------------------------------------
(* Refresh and cancel.                                                     *)

RefreshBegin(w) ==
    /\ w \in Founder /\ At(w, "idle") /\ Row
    /\ Reads(w, "looking", "refresh")
    /\ UNCHANGED <<piece, founder, platform, faults>>

\* Mutant: a canceled order is of no interest any more.
ListedOpen == piece.started /\ ~piece.asked

\* refreshPendingDirectMail: whatever was started.
Listed == piece.started

SweepBegin ==
    /\ At("sweep", "idle") /\ Listed
    /\ Reads("sweep", "looking", "refresh")
    /\ UNCHANGED <<piece, founder, platform, faults>>

\* Mutant: the order is only looked at.
WantsCancelNever(w) == FALSE

\* A cancellation on record that the platform does not know of yet.
WantsCancel(w) ==
    LET o == orders[Snap(w).key] IN Snap(w).asked /\ ~o.asked /\ o.open

\* The refreshed piece is saved, and a send that found its order accepted
\* goes on from there.
Refreshed(w, accepted) ==
    IF Fits(w)
    THEN LET on == accepted /\ task[w].op \in {"send", "approve-send"}
         IN  /\ Saves(w, Snap(w), IF on THEN "accepted" ELSE "idle")
             /\ marker' = IF on THEN marker ELSE Unmarked(w)
    ELSE Ends(w) /\ marker' = Unmarked(w) /\ UNCHANGED piece

\* getOrder or recover finds the order; or a quote is read again.
Look(w) ==
    LET k == Snap(w).key
    IN  /\ At(w, "looking")
        /\ IF Snap(w).started
           THEN /\ orders[k].made
                /\ IF WantsCancel(w)
                   THEN /\ task' = [task EXCEPT ![w].at = "canceling"]
                        /\ UNCHANGED <<piece, marker, receipts>>
                   ELSE RecordsPaid(k) /\ Refreshed(w, orders[k].open)
           ELSE Refreshed(w, FALSE) /\ UNCHANGED receipts
        /\ UNCHANGED <<preview, cad, address, keys, dropped, wire, orders, revived, faults>>

\* mail.cancel: the platform notes it, and ends the order when it can.
CancelCall(w) ==
    LET k == Snap(w).key
    IN  /\ At(w, "canceling")
        /\ orders' = [orders EXCEPT ![k].asked = TRUE]
        /\ RecordsPaid(k)
        /\ Refreshed(w, orders[k].open)
        /\ UNCHANGED <<preview, cad, address, keys, dropped, wire, revived, faults>>

\* cancelDirectMail: an order that was not started is dropped at once; of a
\* started one the wish is recorded before the platform is asked.
CancelBegin(w) ==
    /\ w \in Founder /\ At(w, "idle") /\ Row
    /\ IF piece.started
       THEN LET p == [piece EXCEPT !.asked = TRUE]
            IN  /\ piece' = p
                /\ task' = [Outdated(task, p.id) EXCEPT
                               ![w] = [Idle EXCEPT !.at = "looking", !.op = "cancel",
                                                   !.snap = p]]
                /\ UNCHANGED dropped
       ELSE /\ Saves(w, [piece EXCEPT !.approved = FALSE, !.canceled = TRUE], "idle")
            /\ dropped' = dropped \cup {piece.key}
    /\ UNCHANGED <<preview, cad, marker, address, keys, platform, faults>>

-----------------------------------------------------------------------------
(* What else changes the piece.                                            *)

\* skipDirectMailStep: the piece is canceled and the step passed over, in one
\* transaction.
Skip ==
    /\ cad = "active" /\ marker = "free" /\ ~piece.started
    /\ cad' = "skipped"
    /\ IF ~Row THEN UNCHANGED <<piece, task, dropped>>
       ELSE /\ piece' = [piece EXCEPT !.approved = FALSE, !.canceled = TRUE]
            /\ task' = Outdated(task, piece.id)
            /\ dropped' = dropped \cup {piece.key}
    /\ UNCHANGED <<preview, marker, address, keys, platform, faults>>

\* invalidate: the dashboard changes the letter, or the prospect's address.
Edit(to) ==
    /\ At("server", "idle") /\ cad = "active" /\ marker = "free"
    /\ ~piece.started /\ Edits < MaxEdits
    /\ piece' = NoPiece /\ preview' = 0
    /\ address' = [address EXCEPT !.to = to]
    /\ dropped' = dropped \cup ({piece.key} \ {0})
    /\ UNCHANGED <<cad, marker, keys, task, platform, faults>>

ReturnAddress ==
    /\ Edits < MaxEdits
    /\ address' = [address EXCEPT !.from = @ + 1]
    /\ UNCHANGED <<piece, preview, cad, marker, keys, task, platform, dropped, faults>>

\* A reply, Stop or a suppression.
Stop ==
    /\ cad = "active"
    /\ cad' = "over"
    /\ UNCHANGED <<piece, preview, marker, address, keys, task, platform, dropped, faults>>

-----------------------------------------------------------------------------
(* Failures and the platform.                                              *)

\* Any await may end in an error, and a save in a conflict.
Fail(w) ==
    /\ ~At(w, "idle")
    /\ Ends(w)
    /\ marker' = Unmarked(w)
    /\ UNCHANGED <<piece, preview, cad, address, keys, dropped, platform, faults>>

\* The server dies: its lock goes with it, the marker stays.
Die ==
    /\ Fault
    /\ task' = [w \in Worker |-> IF w = "cli" THEN task[w] ELSE Idle]
    /\ marker' = IF marker = "held" THEN "left" ELSE marker
    /\ UNCHANGED <<piece, preview, cad, address, keys, dropped, platform>>

Boot ==
    /\ marker = "left" /\ marker' = "free"
    /\ UNCHANGED <<piece, preview, cad, address, keys, dropped, task, platform, faults>>

\* One order per key, however often it is asked for.
Deliver(k) ==
    /\ k \in wire /\ wire' = wire \ {k}
    /\ \E paid \in BOOLEAN :
          orders' = [orders EXCEPT ![k] =
                        IF @.made THEN @ ELSE [NoOrder EXCEPT !.made = TRUE, !.open = TRUE,
                                                              !.paid = paid]]
    /\ UNCHANGED <<piece, founder, task, receipts, revived, faults>>

Lose(k) ==
    /\ k \in wire /\ Fault
    /\ wire' = wire \ {k}
    /\ UNCHANGED <<piece, founder, task, orders, receipts, revived>>

\* The platform heard of the cancellation; its answer is lost.
CancelUnheard(w) ==
    /\ At(w, "canceling") /\ Fault
    /\ orders' = [orders EXCEPT ![Snap(w).key].asked = TRUE]
    /\ Ends(w) /\ marker' = Unmarked(w)
    /\ UNCHANGED <<piece, preview, cad, address, keys, dropped, wire, receipts, revived>>

Progress(k) ==
    /\ orders[k].made /\ orders[k].open
    /\ \/ orders' = [orders EXCEPT ![k].open = FALSE]
       \/ ~orders[k].paid /\ orders' = [orders EXCEPT ![k].paid = TRUE]
    /\ UNCHANGED <<piece, founder, task, wire, receipts, revived, faults>>

Next ==
    \/ \E w \in Worker :
          \/ PreviewBegin(w) \/ PreviewEnd(w)
          \/ \E op \in {"approve", "approve-send"} : ApproveBegin(w, op)
          \/ ApproveEnd(w) \/ SendRead(w) \/ SendNew(w) \/ SendRecover(w) \/ SendAgain(w)
          \/ SendAnswered(w) \/ Pass(w)
          \/ RefreshBegin(w) \/ Look(w) \/ CancelBegin(w) \/ CancelCall(w)
          \/ CancelUnheard(w) \/ Fail(w)
    \/ SweepBegin \/ Skip \/ ReturnAddress \/ Stop \/ Die \/ Boot
    \/ Edit(address.to) \/ Edit(address.to + 1)
    \/ \E k \in Key : Deliver(k) \/ Lose(k) \/ Progress(k)

Spec == Init /\ [][Next]_vars

\* The scheduler sweeps again and again, and a platform that can be asked in
\* sweep after sweep answers one of them; who waits for it waits no longer
\* than the request lasts.
Fairness ==
    /\ WF_vars(SweepBegin) /\ WF_vars(Fail("sweep"))
    /\ SF_vars(Look("sweep")) /\ SF_vars(CancelCall("sweep"))

FairSpec == Spec /\ Fairness

-----------------------------------------------------------------------------
(* Properties.                                                             *)

TaskRecord ==
    [at : Phases, snap : Piece, fresh : BOOLEAN, kept : BOOLEAN,
     op : {"none", "preview", "approve", "approve-send", "send", "refresh", "cancel"}]

\* Every variable keeps its type; no key is ordered that was not quoted, and
\* a receipt is of an order the platform was paid for.
TypeOK ==
    /\ piece \in Piece /\ preview \in 0 .. MaxKeys
    /\ cad \in {"active", "over", "skipped", "passed"}
    /\ marker \in {"free", "held", "left"}
    /\ address \in [to : Version, from : Version]
    /\ keys \in 0 .. MaxKeys /\ faults \in 0 .. MaxFaults
    /\ task \in [Worker -> TaskRecord]
    /\ orders \in [Key -> Order]
    /\ wire \cup receipts \cup dropped \cup revived \subseteq 1 .. keys
    /\ \A k \in Key : orders[k].made => k <= keys
    /\ \A k \in receipts : orders[k].paid

Ordered == wire \cup {k \in Key : orders[k].made}

\* An order, and a request for one, is of the key the step's row holds, marked
\* as started: so a step is ordered once, however often its letter is quoted
\* anew, edited, sent again or recovered, and no order is lost from sight
\* (saveDirectMail's revision, and the refusals of a started piece).
OrderIsOnRecord == \A k \in Ordered : piece.key = k /\ piece.started

\* What the founder dropped is not ordered: not a canceled, skipped or
\* outdated letter, nor one whose proof was replaced; and a skipped step has
\* no order at all (saveDirectMail's revision, and sendDirectMail's checks after
\* its await).  Left out: a row deleted, for a rewritten letter, under a send
\* from the CLI, which saves its old copy where there is nothing to compare.
DroppedNotOrdered ==
    /\ Ordered \cap dropped \subseteq revived
    /\ cad = "skipped" => Ordered = {}

\* A cancellation on record reaches the platform, also when it was recorded
\* while the order was on its way (refreshDirectMail in the sweep).
CancelReaches ==
    \A k \in Key :
        Row /\ piece.key = k /\ piece.asked /\ orders[k].made
        ~> orders[k].asked \/ ~orders[k].open

\* Money spent on a letter gets its receipt, whoever died waiting for it.
PaidIsRecorded ==
    \A k \in Key : (orders[k].made /\ orders[k].paid) ~> k \in receipts
=============================================================================
