---------------------------- MODULE SettlesProofs ----------------------------
(***************************************************************************)
(* For any number of quotes, edits and failures: which letter may be       *)
(* ordered.  For any number of targets and workers: what the row of an     *)
(* ended run lists, and what a run that reads cancelled does no more.      *)
(***************************************************************************)
EXTENDS MCSettles, TLAPS

-----------------------------------------------------------------------------
(* The letter.                                                             *)

Sends == {"send", "approve-send"}

\* The row and every copy of it are of a quote that was made.
Quoted ==
    /\ Row => piece.id \in 1 .. keys /\ piece.key \in 1 .. keys
    /\ \A w \in Worker :
          /\ Snap(w).id \in 0 .. keys /\ Snap(w).key \in 0 .. keys
          /\ task[w].at \notin {"idle", "quoting"}
             => Snap(w).id \in 1 .. keys /\ Snap(w).key \in 1 .. keys

\* What passes the revision check is the row, or a quote of a letter not ordered.
FreshIsTheRow ==
    \A w \in Worker : task[w].fresh /\ Row /\ piece.id = Snap(w).id =>
        IF At(w, "quoting") THEN ~piece.started ELSE Snap(w) = piece

\* A piece that was started stays, under its id and key; only such a one is looked for
\* to be sent again.
StartedStays ==
    \A w \in Worker :
        /\ Snap(w).started =>
              /\ task[w].at \notin {"idle", "quoting"}
              /\ piece.started /\ piece.id = Snap(w).id /\ piece.key = Snap(w).key
        /\ At(w, "looking") /\ task[w].op \in Sends => Snap(w).started

\* Who is about to order the row as it is was shown to the founder.
ReadIsShown ==
    /\ ~Row => preview = 0
    /\ \A w \in Worker :
          At(w, "read") /\ task[w].fresh /\ Row /\ piece.id = Snap(w).id => preview = piece.id

\* A dropped key that came back to the row cannot be ordered, or was ordered from
\* a copy of a row deleted.
DroppedIsDead ==
    Row /\ piece.key \in dropped =>
        IF piece.started THEN piece.key \in revived ELSE piece.canceled \/ preview # piece.id

Copies == Quoted /\ FreshIsTheRow /\ StartedStays /\ ReadIsShown
Dropped == DroppedIsDead /\ DroppedNotOrdered
Inv == TypeOK /\ Copies /\ OrderIsOnRecord /\ Dropped

Out(at) == at \in {"idle", "quoting"}

\* What a step leaves a worker with: the copy it had, no older than before; none; or
\* a copy of the row p the step leaves behind.
Keeps(v) ==
    /\ task'[v].snap = task[v].snap /\ (task'[v].fresh => task[v].fresh)
    /\ \/ task'[v].at = task[v].at /\ task'[v].op = task[v].op
       \/ ~Out(task[v].at) /\ ~Out(task'[v].at) /\ task'[v].at \notin {"read", "looking"}
Holds(v, p) ==
    /\ task'[v].snap = p /\ ~Out(task'[v].at)
    /\ task'[v].at = "looking" /\ task'[v].op \in Sends => p.started

\* A save of p.
Saved(p) ==
    /\ piece' = p /\ p.id \in 1 .. keys' /\ p.key \in 1 .. keys'
    /\ piece.started => p.started /\ p.id = piece.id /\ p.key = piece.key
    /\ \A v \in Worker : \/ Keeps(v) /\ (task'[v].fresh => Snap(v).id # p.id)
                         \/ task'[v] = Idle
                         \/ Holds(v, p) /\ task'[v].at # "read"

\* Nothing is saved.
Read ==
    /\ piece' = piece /\ preview' = preview
    /\ \A v \in Worker :
          \/ Keeps(v)
          \/ task'[v] = Idle
          \/ Holds(v, piece) /\ Row /\ (task'[v].at = "read" => preview = piece.id)
          \/ /\ ~piece.started /\ task'[v].at = "quoting" /\ ~task'[v].snap.started
             /\ task'[v].snap.id = piece.id /\ task'[v].snap.key = piece.key

LEMMA IdleIsTyped == Idle \in TaskRecord /\ NoPiece \in Piece
  BY MailAssumption DEF Idle, TaskRecord, NoPiece, Piece, Phases, Version

LEMMA NoPieceIs == NoPiece.id = 0 /\ NoPiece.key = 0 /\ ~NoPiece.started
  BY DEF NoPiece

LEMMA InitInv == Init => Inv
  BY MailAssumption DEF Init, Inv, Copies, Dropped, TypeOK, Piece, NoPiece, Idle, NoOrder,
     Order, TaskRecord, Phases, Version, Key, Worker, Snap, At, Row, Quoted, FreshIsTheRow,
     StartedStays, ReadIsShown, DroppedIsDead, OrderIsOnRecord, Ordered, DroppedNotOrdered

LEMMA SaveKeeps ==
  ASSUME TypeOK, Copies, TypeOK', NEW p \in Piece, Saved(p), keys' >= keys
  PROVE  Copies'
  <1> USE DEF Snap, At, Row, Idle, NoPiece, Out, Keeps, Holds, Saved
  <1>0. /\ keys \in Nat /\ keys' \in Nat /\ piece \in Piece /\ piece' \in Piece
        /\ task \in [Worker -> TaskRecord] /\ task' \in [Worker -> TaskRecord]
    BY DEF TypeOK
  <1>1. Quoted'
    BY <1>0 DEF Copies, Quoted, TaskRecord, Piece
  <1>2. FreshIsTheRow'
    BY <1>0 DEF Copies, TaskRecord, Piece, FreshIsTheRow
  <1>3. StartedStays'
    BY <1>0 DEF Copies, TaskRecord, Piece, StartedStays
  <1>4. ReadIsShown'
    BY <1>0 DEF Copies, TaskRecord, Piece, ReadIsShown
  <1> QED BY <1>1, <1>2, <1>3, <1>4 DEF Copies

LEMMA ReadKeeps ==
  ASSUME TypeOK, Copies, TypeOK', Read, keys' = keys
  PROVE  Copies'
  <1> USE DEF Snap, At, Row, Idle, NoPiece, Out, Keeps, Holds, Read
  <1>0. /\ keys \in Nat /\ piece \in Piece
        /\ task \in [Worker -> TaskRecord] /\ task' \in [Worker -> TaskRecord]
    BY DEF TypeOK
  <1>1. Quoted'
    BY <1>0 DEF Copies, Quoted, TaskRecord, Piece
  <1>2. FreshIsTheRow'
    BY <1>0 DEF Copies, TaskRecord, Piece, FreshIsTheRow, Quoted
  <1>3. StartedStays'
    BY <1>0 DEF Copies, TaskRecord, Piece, StartedStays
  <1>4. ReadIsShown'
    BY <1>0 DEF Copies, TaskRecord, Piece, ReadIsShown
  <1> QED BY <1>1, <1>2, <1>3, <1>4 DEF Copies

LEMMA KeysInRange == TypeOK => 1 .. keys \subseteq Key
  BY MailAssumption DEF TypeOK, Key

\* What a save does, worker by worker.
LEMMA SavesIsSaved ==
  ASSUME TypeOK, NEW w \in Worker, NEW p \in Piece,
         NEW next \in Phases \ {"quoting", "read", "looking"},
         Saves(w, p, next),
         p.id \in 1 .. keys', p.key \in 1 .. keys',
         piece.started => p.started /\ p.id = piece.id /\ p.key = piece.key
  PROVE  /\ Saved(p) /\ piece' = p /\ task' \in [Worker -> TaskRecord]
         /\ task'[w].at = next
  <1>0. task \in [Worker -> TaskRecord]
    BY DEF TypeOK
  <1>1. task' \in [Worker -> TaskRecord]
    <2>1. Outdated(task, p.id) \in [Worker -> TaskRecord]
      BY <1>0 DEF Outdated, TaskRecord
    <2>2. [task[w] EXCEPT !.at = next, !.snap = p, !.fresh = TRUE] \in TaskRecord
      BY <1>0 DEF TaskRecord
    <2> QED BY <2>1, <2>2, IdleIsTyped DEF Saves
  <1>2. \A v \in Worker \ {w} : Keeps(v) /\ (task'[v].fresh => Snap(v).id # p.id)
    BY <1>0 DEF Saves, Outdated, Keeps, Snap, TaskRecord
  <1>3. task'[w].at = next /\ (task'[w] = Idle \/ Holds(w, p))
    BY <1>0 DEF Saves, Outdated, Holds, Out, TaskRecord, Idle, Phases
  <1> QED BY <1>1, <1>2, <1>3 DEF Saved, Saves, Phases

\* A save of a copy that fits is a save of the row, or of a row deleted.
LEMMA FitsIsTheRow ==
  ASSUME TypeOK, Copies, NEW w \in Worker, Fits(w), ~Out(task[w].at)
  PROVE  /\ Snap(w) \in Piece /\ Snap(w).id \in 1 .. keys /\ Snap(w).key \in 1 .. keys
         /\ Row => Snap(w) = piece
         /\ ~Row => preview = 0 /\ ~Snap(w).started
  BY DEF TypeOK, TaskRecord, Copies, Quoted, FreshIsTheRow, StartedStays, ReadIsShown, Fits, Snap,
         Out, At, Row, NoPiece

\* Steps that save nothing and order nothing.
LEMMA QuietKeeps ==
  ASSUME Inv, TypeOK', Read, keys' = keys, dropped' = dropped, revived' = revived,
         Ordered' \subseteq Ordered, cad' = "skipped" => cad = "skipped"
  PROVE  Inv'
  <1>1. Copies'
    BY ReadKeeps DEF Inv
  <1> QED BY <1>1 DEF Inv, Read, Row, OrderIsOnRecord, Dropped, DroppedIsDead, DroppedNotOrdered

\* Saves of the row as it is, but for what is no part of its identity.
LEMMA RowKeeps ==
  ASSUME Inv, TypeOK', NEW p \in Piece, Saved(p),
         UNCHANGED <<preview, cad, keys, dropped, revived>>,
         Ordered' \subseteq Ordered,
         Row => /\ p.id = piece.id /\ p.key = piece.key /\ p.started = piece.started
                /\ p.canceled = piece.canceled,
         ~Row => ~p.started /\ preview = 0
  PROVE  Inv'
  <1>1. Copies' /\ p.id >= 1
    BY SaveKeeps DEF Inv, TypeOK, Saved
  <1>2. piece' = p /\ (~Row => ~piece.started /\ Ordered = {})
    BY DEF Saved, Inv, OrderIsOnRecord, Row, NoPiece
  <1> QED BY <1>1, <1>2 DEF Inv, Row, OrderIsOnRecord, Dropped, DroppedIsDead, DroppedNotOrdered

LEMMA SavesOrEndsKeeps ==
  ASSUME Inv, NEW w \in Worker, ~Out(task[w].at), NEW next \in {"idle", "accepted"},
         \/ Fits(w) /\ Saves(w, Snap(w), next)
         \/ Ends(w) /\ piece' = piece,
         UNCHANGED <<preview, cad, address, keys, dropped, wire, revived, faults>>,
         marker' \in {"free", "held", "left"}, orders' \in [Key -> Order],
         \A k \in Key : orders'[k].made = orders[k].made,
         receipts' \subseteq 1 .. keys, \A k \in receipts' : orders'[k].paid
  PROVE  Inv'
  <1>0. TypeOK /\ Copies /\ Ordered' = Ordered /\ task \in [Worker -> TaskRecord]
    BY DEF Inv, TypeOK, Ordered
  <1>1. CASE Fits(w) /\ Saves(w, Snap(w), next)
    <2>1. /\ Snap(w) \in Piece /\ Snap(w).id \in 1 .. keys /\ Snap(w).key \in 1 .. keys
          /\ Row => Snap(w) = piece
          /\ ~Row => preview = 0 /\ ~Snap(w).started
      BY <1>0, <1>1, FitsIsTheRow
    <2>2. ~Row => ~piece.started
      BY DEF Row, NoPiece
    <2>3. Saved(Snap(w)) /\ piece' = Snap(w) /\ task' \in [Worker -> TaskRecord]
      BY <1>0, <1>1, <2>1, <2>2, SavesIsSaved DEF Phases
    <2>4. TypeOK'
      BY <2>1, <2>3, <1>0 DEF TypeOK
    <2> QED BY <1>0, <2>1, <2>3, <2>4, RowKeeps
  <1>2. CASE Ends(w) /\ piece' = piece
    <2>1. TypeOK'
      BY <1>0, <1>2, IdleIsTyped DEF TypeOK, Ends
    <2>2. Read
      BY <1>0, <1>2 DEF Read, Ends, Keeps
    <2> QED BY <1>0, <2>1, <2>2, QuietKeeps
  <1> QED BY <1>1, <1>2

Ops == {"none", "preview", "approve", "approve-send", "send", "refresh", "cancel"}

\* A copy of the row as it is.
LEMMA ReadsIsRead ==
  ASSUME TypeOK, NEW w \in Worker, NEW next \in Phases \ {"idle", "quoting"}, NEW op \in Ops,
         Reads(w, next, op), Row, next = "read" => preview = piece.id,
         next = "looking" => op \notin Sends,
         UNCHANGED <<piece, preview>>
  PROVE  Read /\ task' \in [Worker -> TaskRecord]
  BY DEF Reads, TypeOK, TaskRecord, Ops, Read, Keeps, Holds, Out

LEMMA PreviewBeginKeeps == ASSUME Inv, NEW w \in Worker, PreviewBegin(w) PROVE Inv'
  <1> USE DEF Inv, PreviewBegin, founder, platform
  <1>1. TypeOK'
    BY MailAssumption DEF TypeOK, TaskRecord, Idle, Piece, Phases, Version
  <1>2. Read
    BY DEF Read, Keeps, TypeOK, Idle, TaskRecord, Piece
  <1> QED BY <1>1, <1>2, QuietKeeps DEF Ordered

LEMMA PreviewEndKeeps == ASSUME Inv, NEW w \in Worker, PreviewEnd(w) PROVE Inv'
  <1> USE DEF Inv, PreviewEnd, platform
  <1> DEFINE old == Snap(w)
             id == IF old.id = 0 THEN keys + 1 ELSE old.id
             new == [NoPiece EXCEPT !.id = id, !.key = keys + 1, !.to = old.to, !.from = old.from]
  <1>1. Saves(w, new, "idle") /\ preview' = new.id /\ keys' = keys + 1
    OBVIOUS
  <1>2. /\ keys \in Nat /\ keys + 1 \in 1 .. MaxKeys /\ old \in Piece
        /\ old.id \in 0 .. keys /\ old.key \in 0 .. keys
    BY MailAssumption DEF TypeOK, TaskRecord, Copies, Quoted, Snap
  <1>3. id \in 1 .. keys + 1 /\ id \in 0 .. MaxKeys
    BY <1>2, MailAssumption
  <1>4. new \in Piece /\ new.id = id /\ new.key = keys + 1
    <2>1. keys + 1 \in 0 .. MaxKeys /\ old.to \in Version /\ old.from \in Version
      BY <1>2 DEF Piece
    <2> HIDE DEF id, old
    <2> QED BY <1>3, <2>1, IdleIsTyped DEF Piece
  <1>5. ~piece.started
    BY DEF Fits, Row, NoPiece, Copies, FreshIsTheRow
  <1> HIDE DEF new, id
  <1>6. Saved(new) /\ piece' = new /\ task' \in [Worker -> TaskRecord]
    BY <1>1, <1>2, <1>3, <1>4, <1>5, SavesIsSaved DEF Phases
  <1>7. TypeOK'
    <2>1. old.to \in Version /\ 1 .. keys \subseteq 1 .. keys + 1
      BY <1>2 DEF Piece
    <2>2. /\ piece' \in Piece /\ preview' \in 0 .. MaxKeys /\ keys' \in 0 .. MaxKeys
          /\ address' \in [to : Version, from : Version]
      BY <1>1, <1>2, <1>3, <1>4, <1>6, <2>1 DEF TypeOK
    <2>3. /\ wire' \cup receipts' \cup dropped' \cup revived' \subseteq 1 .. keys'
          /\ \A k \in Key : orders'[k].made => k <= keys'
      BY <1>1, <1>2, <2>1 DEF TypeOK, Key
    <2> QED BY <1>6, <2>2, <2>3 DEF TypeOK
  <1>8. Copies'
    BY <1>1, <1>2, <1>4, <1>6, <1>7, SaveKeeps
  <1>9. Ordered = {} /\ Ordered' = {}
    BY <1>5 DEF OrderIsOnRecord, Ordered
  <1>10. new.key \notin dropped'
    BY <1>2, <1>4 DEF TypeOK
  <1> QED
    BY <1>6, <1>7, <1>8, <1>9, <1>10 DEF OrderIsOnRecord, Dropped, DroppedIsDead, DroppedNotOrdered

LEMMA ApproveBeginKeeps ==
  ASSUME Inv, NEW w \in Worker, NEW op \in {"approve", "approve-send"}, ApproveBegin(w, op)
  PROVE  Inv'
  <1> USE DEF Inv, ApproveBegin, platform
  <1>1. Read /\ task' \in [Worker -> TaskRecord]
    BY ReadsIsRead DEF Phases, Ops, Sends
  <1>2. TypeOK'
    BY <1>1 DEF TypeOK, TakesMarker
  <1> QED BY <1>1, <1>2, QuietKeeps DEF Ordered

LEMMA ApproveEndKeeps == ASSUME Inv, NEW w \in Worker, ApproveEnd(w) PROVE Inv'
  <1> USE DEF Inv, ApproveEnd, platform, founder
  <1> DEFINE p == [Snap(w) EXCEPT !.approved = TRUE]
             next == IF task[w].op = "approve-send" THEN "toSend" ELSE "idle"
  <1>1. /\ Snap(w) \in Piece /\ Snap(w).id \in 1 .. keys /\ Snap(w).key \in 1 .. keys
        /\ Row => Snap(w) = piece
        /\ ~Row => preview = 0 /\ ~Snap(w).started
    BY FitsIsTheRow DEF At, Out
  <1>2. /\ p \in Piece /\ p.id = Snap(w).id /\ p.key = Snap(w).key
        /\ p.started = Snap(w).started /\ p.canceled = Snap(w).canceled
    BY <1>1 DEF Piece
  <1>3. Saves(w, p, next) /\ next \in Phases \ {"quoting", "read", "looking"}
    BY DEF Phases
  <1>4. ~Row => ~piece.started
    BY DEF Row, NoPiece
  <1> HIDE DEF p, next
  <1>5. Saved(p) /\ piece' = p /\ task' \in [Worker -> TaskRecord]
    BY <1>1, <1>2, <1>3, <1>4, SavesIsSaved
  <1>6. TypeOK'
    BY <1>2, <1>5 DEF TypeOK
  <1> QED BY <1>1, <1>2, <1>5, <1>6, RowKeeps DEF Ordered

LEMMA OrdersKeeps ==
  ASSUME Inv, NEW w \in Worker, task[w].at \in {"read", "looking"},
         At(w, "looking") => Snap(w).started, Orders(w)
  PROVE  Inv'
  <1> USE DEF Inv, Orders, founder
  <1> DEFINE p == [Snap(w) EXCEPT !.started = TRUE]
  <1>1. /\ Snap(w) \in Piece /\ Snap(w).id \in 1 .. keys /\ Snap(w).key \in 1 .. keys
        /\ Row => Snap(w) = piece
        /\ ~Row => preview = 0 /\ ~Snap(w).started
    BY FitsIsTheRow DEF Out
  <1>2. p \in Piece /\ p.id = Snap(w).id /\ p.key = Snap(w).key /\ p.started
    BY <1>1 DEF Piece
  <1>3. Saves(w, p, "ordering")
    OBVIOUS
  <1>4. ~Row => ~piece.started /\ Ordered = {}
    BY DEF Row, NoPiece, OrderIsOnRecord
  <1> HIDE DEF p
  <1>5. Saved(p) /\ piece' = p /\ task' \in [Worker -> TaskRecord]
    BY <1>1, <1>2, <1>3, <1>4, SavesIsSaved DEF Phases
  <1>6. TypeOK'
    BY <1>1, <1>2, <1>5 DEF TypeOK
  <1>7. Copies'
    BY <1>2, <1>5, <1>6, SaveKeeps DEF TypeOK
  <1>8. Ordered' = Ordered \cup {p.key}
    BY <1>2 DEF Ordered
  <1>9. OrderIsOnRecord'
    BY <1>1, <1>2, <1>4, <1>5, <1>8 DEF OrderIsOnRecord
  <1>10. Row /\ Snap(w).key \in dropped => Snap(w).key \in revived
    BY <1>1 DEF Dropped, DroppedIsDead, Copies, ReadIsShown, Fits, Sendable, At
  <1> QED
    BY <1>1, <1>2, <1>4, <1>5, <1>6, <1>7, <1>8, <1>9, <1>10
    DEF Dropped, DroppedIsDead, DroppedNotOrdered, Sendable

LEMMA SendReadKeeps == ASSUME Inv, NEW w \in Worker, SendRead(w) PROVE Inv'
  <1> USE DEF Inv, SendRead, platform
  <1>1. Read /\ task' \in [Worker -> TaskRecord]
    BY ReadsIsRead DEF Phases, Ops, Sends
  <1>2. TypeOK'
    BY <1>1 DEF TypeOK, TakesMarker
  <1> QED BY <1>1, <1>2, QuietKeeps DEF Ordered

LEMMA SendRecoverKeeps == ASSUME Inv, NEW w \in Worker, SendRecover(w) PROVE Inv'
  <1> USE DEF Inv, SendRecover, platform, founder
  <1>1. task' \in [Worker -> TaskRecord]
    <2>1. task \in [Worker -> TaskRecord] /\ piece \in Piece
      BY DEF TypeOK
    <2>2. task' = [task EXCEPT ![w] = [task[w] EXCEPT !.at = "looking", !.snap = piece,
                                                      !.fresh = TRUE, !.kept = task[w].fresh]]
      BY <2>1
    <2>3. [task[w] EXCEPT !.at = "looking", !.snap = piece, !.fresh = TRUE,
                          !.kept = task[w].fresh] \in TaskRecord
      BY <2>1 DEF TaskRecord, Phases
    <2> QED BY <2>1, <2>2, <2>3
  <1>2. TypeOK'
    BY <1>1 DEF TypeOK
  <1>3. Row /\ piece.started
    BY DEF Copies, StartedStays, Row, NoPiece, TypeOK
  <1>4. Read
    BY <1>3 DEF Read, Keeps, Holds, Out, TypeOK, TaskRecord
  <1> QED BY <1>2, <1>4, QuietKeeps DEF Ordered

LEMMA SendAnsweredKeeps == ASSUME Inv, NEW w \in Worker, SendAnswered(w) PROVE Inv'
  <1> USE DEF Inv, SendAnswered
  <1>1. ~Out(task[w].at) /\ Snap(w).key \in 1 .. keys /\ Snap(w).key \in Key
    BY KeysInRange DEF Out, At, Copies, Quoted
  <1>2. marker' \in {"free", "held", "left"} /\ orders' \in [Key -> Order]
    BY DEF TypeOK, Unmarked
  <1>3. receipts' \subseteq 1 .. keys /\ \A k \in receipts' : orders'[k].paid
    BY <1>1 DEF TypeOK, RecordsPaid
  <1>4. PICK open \in {TRUE, orders[Snap(w).key].open} :
           \/ Fits(w) /\ Saves(w, Snap(w), IF open THEN "accepted" ELSE "idle")
           \/ Ends(w) /\ piece' = piece
    OBVIOUS
  <1> QED
    BY <1>1, <1>2, <1>3, <1>4, SavesOrEndsKeeps

LEMMA LookKeeps == ASSUME Inv, NEW w \in Worker, Look(w) PROVE Inv'
  <1> USE DEF Inv, Look
  <1>1. ~Out(task[w].at) /\ Snap(w).key \in 1 .. keys /\ Snap(w).key \in Key
    BY KeysInRange DEF Out, At, Copies, Quoted
  <1>2. CASE Snap(w).started /\ WantsCancel(w)
    <2>1. task' \in [Worker -> TaskRecord]
      BY <1>2 DEF TypeOK, TaskRecord, Phases
    <2>2. TypeOK'
      BY <1>2, <2>1 DEF TypeOK
    <2>3. Read
      BY <1>1, <1>2 DEF Read, Keeps, TypeOK, TaskRecord, Out
    <2> QED BY <1>2, <2>2, <2>3, QuietKeeps DEF Ordered
  <1>3. CASE ~(Snap(w).started /\ WantsCancel(w))
    <2>1. receipts' \subseteq 1 .. keys /\ \A k \in receipts' : orders'[k].paid
      BY <1>1, <1>3 DEF TypeOK, RecordsPaid
    <2>2. PICK open \in BOOLEAN : Refreshed(w, open)
      BY <1>1, <1>3 DEF TypeOK, Order
    <2>3. marker' \in {"free", "held", "left"} /\ orders' \in [Key -> Order]
      BY <2>2 DEF TypeOK, Unmarked, Refreshed
    <2>4. \E next \in {"idle", "accepted"} :
             \/ Fits(w) /\ Saves(w, Snap(w), next)
             \/ Ends(w) /\ piece' = piece
      BY <2>2 DEF Refreshed
    <2> QED BY <1>1, <2>1, <2>3, <2>4, SavesOrEndsKeeps
  <1> QED BY <1>2, <1>3

LEMMA CancelCallKeeps == ASSUME Inv, NEW w \in Worker, CancelCall(w) PROVE Inv'
  <1> USE DEF Inv, CancelCall
  <1>1. ~Out(task[w].at) /\ Snap(w).key \in 1 .. keys /\ Snap(w).key \in Key
    BY KeysInRange DEF Out, At, Copies, Quoted
  <1>2. /\ orders' \in [Key -> Order]
        /\ \A k \in Key : orders'[k].made = orders[k].made /\ orders'[k].paid = orders[k].paid
    BY <1>1 DEF TypeOK, Order
  <1>3. receipts' \subseteq 1 .. keys /\ \A k \in receipts' : k \in Key /\ orders[k].paid
    BY <1>1, KeysInRange DEF TypeOK, RecordsPaid
  <1>4. marker' \in {"free", "held", "left"}
    BY DEF TypeOK, Unmarked, Refreshed
  <1>5. \E next \in {"idle", "accepted"} :
           \/ Fits(w) /\ Saves(w, Snap(w), next)
           \/ Ends(w) /\ piece' = piece
    BY DEF Refreshed
  <1> QED BY <1>1, <1>2, <1>3, <1>4, <1>5, SavesOrEndsKeeps

LEMMA CancelBeginKeeps == ASSUME Inv, NEW w \in Worker, CancelBegin(w) PROVE Inv'
  <1> USE DEF Inv, CancelBegin, platform
  <1>1. /\ piece \in Piece /\ piece.id \in 1 .. keys /\ piece.key \in 1 .. keys
        /\ piece.key \in Key
    BY KeysInRange DEF TypeOK, Copies, Quoted
  <1>2. CASE piece.started
    <2> DEFINE p == [piece EXCEPT !.asked = TRUE]
    <2>1. /\ p \in Piece /\ p.id = piece.id /\ p.key = piece.key /\ p.started = piece.started
          /\ p.canceled = piece.canceled
      BY <1>1 DEF Piece
    <2>2. /\ piece' = p /\ dropped' = dropped
          /\ task' = [Outdated(task, p.id) EXCEPT
                         ![w] = [Idle EXCEPT !.at = "looking", !.op = "cancel", !.snap = p]]
      BY <1>2
    <2> HIDE DEF p
    <2>3. [Idle EXCEPT !.at = "looking", !.op = "cancel", !.snap = p] \in TaskRecord
      BY <2>1, IdleIsTyped DEF TaskRecord, Phases
    <2>4. task' \in [Worker -> TaskRecord]
      BY <2>2, <2>3 DEF TypeOK, Outdated, TaskRecord
    <2>5. TypeOK'
      BY <2>1, <2>2, <2>4 DEF TypeOK
    <2>6. \A v \in Worker \ {w} : Keeps(v) /\ (task'[v].fresh => Snap(v).id # p.id)
      BY <2>2 DEF TypeOK, Outdated, Keeps, Snap, TaskRecord
    <2>7. Holds(w, p) /\ task'[w].at # "read"
      BY <2>2, IdleIsTyped DEF TypeOK, Outdated, Holds, Out, TaskRecord, Sends
    <2>8. Saved(p)
      BY <1>1, <2>1, <2>2, <2>6, <2>7 DEF Saved
    <2> QED BY <2>1, <2>2, <2>5, <2>8, RowKeeps DEF Ordered
  <1>3. CASE ~piece.started
    <2> DEFINE p == [piece EXCEPT !.approved = FALSE, !.canceled = TRUE]
    <2>1. /\ p \in Piece /\ p.id = piece.id /\ p.key = piece.key /\ p.started = piece.started
          /\ p.canceled
      BY <1>1 DEF Piece
    <2>2. Saves(w, p, "idle") /\ dropped' = dropped \cup {piece.key}
      BY <1>3
    <2> HIDE DEF p
    <2>3. Saved(p) /\ piece' = p /\ task' \in [Worker -> TaskRecord]
      BY <1>1, <1>3, <2>1, <2>2, SavesIsSaved DEF Phases
    <2>4. TypeOK'
      BY <1>1, <2>1, <2>2, <2>3 DEF TypeOK
    <2>5. Copies'
      BY <2>1, <2>3, <2>4, SaveKeeps DEF TypeOK
    <2>6. Ordered = {} /\ Ordered' = {}
      BY <1>3 DEF OrderIsOnRecord, Ordered
    <2> QED
      BY <1>3, <2>1, <2>3, <2>4, <2>5, <2>6
      DEF OrderIsOnRecord, Dropped, DroppedIsDead, DroppedNotOrdered
  <1> QED BY <1>2, <1>3

LEMMA SkipKeeps == ASSUME Inv, Skip PROVE Inv'
  <1> USE DEF Inv, Skip, platform
  <1>1. Ordered = {} /\ Ordered' = {}
    BY DEF OrderIsOnRecord, Ordered
  <1>2. CASE ~Row
    <2>1. TypeOK'
      BY <1>2 DEF TypeOK
    <2>2. Read
      BY <1>2 DEF Read, Keeps
    <2>3. Copies'
      BY <2>1, <2>2, ReadKeeps
    <2> QED
      BY <1>1, <1>2, <2>1, <2>3 DEF OrderIsOnRecord, Dropped, DroppedIsDead, DroppedNotOrdered, Row
  <1>3. CASE Row
    <2> DEFINE p == [piece EXCEPT !.approved = FALSE, !.canceled = TRUE]
    <2>0. piece \in Piece /\ piece.id \in 1 .. keys /\ piece.key \in 1 .. keys
      BY <1>3 DEF TypeOK, Copies, Quoted
    <2>1. /\ p \in Piece /\ p.id = piece.id /\ p.key = piece.key /\ p.started = piece.started
          /\ p.canceled
      BY <2>0 DEF Piece
    <2>2. /\ piece' = p /\ task' = Outdated(task, p.id) /\ dropped' = dropped \cup {piece.key}
      BY <1>3, <2>1
    <2> HIDE DEF p
    <2>3. task' \in [Worker -> TaskRecord]
      BY <2>2 DEF TypeOK, Outdated, TaskRecord
    <2>4. Saved(p)
      BY <2>0, <2>1, <2>2 DEF TypeOK, Saved, Outdated, Keeps, Snap, TaskRecord
    <2>5. TypeOK'
      BY <2>0, <2>1, <2>2, <2>3 DEF TypeOK
    <2>6. Copies'
      BY <2>1, <2>4, <2>5, SaveKeeps DEF TypeOK
    <2> QED
      BY <1>1, <2>1, <2>2, <2>5, <2>6 DEF OrderIsOnRecord, Dropped, DroppedIsDead,
         DroppedNotOrdered
  <1> QED BY <1>2, <1>3

LEMMA EditKeeps == ASSUME Inv, NEW to \in {address.to, address.to + 1}, Edit(to) PROVE Inv'
  <1> USE DEF Inv, Edit, platform
  <1>1. TypeOK'
    <2>1. address' \in [to : Version, from : Version]
      BY MailAssumption DEF TypeOK, Edits, Version
    <2>2. piece' \in Piece /\ preview' \in 0 .. MaxKeys
      BY MailAssumption, IdleIsTyped DEF MailAssumption
    <2>3. dropped' \subseteq 1 .. keys
      BY DEF TypeOK, Copies, Quoted, Row, NoPiece
    <2> QED BY <2>1, <2>2, <2>3 DEF TypeOK
  <1>2. Ordered = {} /\ Ordered' = {}
    BY DEF OrderIsOnRecord, Ordered
  <1>3. ~Row' /\ preview' = 0 /\ task' = task
    BY DEF Row
  <1>4. Copies'
    BY <1>3, NoPieceIs DEF Copies, Quoted, FreshIsTheRow, StartedStays, ReadIsShown, Snap, At
  <1> QED
    BY <1>1, <1>2, <1>3, <1>4 DEF OrderIsOnRecord, Dropped, DroppedIsDead, DroppedNotOrdered

LEMMA EndsIsRead ==
  ASSUME TypeOK, NEW w \in Worker, Ends(w), UNCHANGED <<piece, preview>>
  PROVE  Read /\ task' \in [Worker -> TaskRecord]
  BY IdleIsTyped DEF Read, Ends, Keeps, TypeOK

\* A change of one field of an order.
LEMMA OrderIsTyped ==
  ASSUME NEW f \in [Key -> Order], NEW k \in Key, NEW g,
         \/ g = [f EXCEPT ![k].asked = TRUE]
         \/ g = [f EXCEPT ![k].open = FALSE]
         \/ g = [f EXCEPT ![k].paid = TRUE]
  PROVE  /\ g \in [Key -> Order]
         /\ \A j \in Key : g[j].made = f[j].made /\ (f[j].paid => g[j].paid)
         /\ \A j \in Key : g[j].paid => f[j].paid \/ (j = k /\ g = [f EXCEPT ![k].paid = TRUE])
  <1>1. /\ [f[k] EXCEPT !.asked = TRUE] \in Order /\ [f[k] EXCEPT !.open = FALSE] \in Order
        /\ [f[k] EXCEPT !.paid = TRUE] \in Order
    BY DEF Order
  <1>2. CASE g = [f EXCEPT ![k].asked = TRUE]
    BY <1>1, <1>2 DEF Order
  <1>3. CASE g = [f EXCEPT ![k].open = FALSE]
    BY <1>1, <1>3 DEF Order
  <1>4. CASE g = [f EXCEPT ![k].paid = TRUE]
    BY <1>1, <1>4 DEF Order
  <1> QED BY <1>2, <1>3, <1>4

\* The steps that only read, or only end.
LEMMA OtherTasksKeep ==
  ASSUME Inv, NEW w \in Worker,
         \/ Pass(w) \/ RefreshBegin(w) \/ (w = "sweep" /\ SweepBegin)
         \/ Fail(w) \/ CancelUnheard(w)
  PROVE  Inv'
  <1>0. TypeOK
    BY DEF Inv
  <1>1. CASE Pass(w) \/ Fail(w)
    <2>1. Read /\ task' \in [Worker -> TaskRecord]
      BY <1>0, <1>1, EndsIsRead DEF Pass, Fail
    <2>2. TypeOK'
      BY <1>0, <1>1, <2>1 DEF Pass, Fail, platform, TypeOK, Unmarked
    <2> QED BY <1>1, <2>1, <2>2, QuietKeeps DEF Pass, Fail, platform, Ordered
  <1>2. CASE CancelUnheard(w)
    <2>1. Read /\ task' \in [Worker -> TaskRecord]
      BY <1>0, <1>2, EndsIsRead DEF CancelUnheard
    <2>2. Snap(w).key \in Key
      BY <1>2, KeysInRange DEF CancelUnheard, At, Inv, Copies, Quoted
    <2>3. orders' \in [Key -> Order] /\ \A k \in Key : /\ orders'[k].made = orders[k].made
                                                       /\ orders[k].paid => orders'[k].paid
      BY <1>0, <1>2, <2>2, OrderIsTyped DEF CancelUnheard, TypeOK
    <2>4. marker' \in {"free", "held", "left"} /\ faults' \in 0 .. MaxFaults
      BY <1>0, <1>2, MailAssumption DEF CancelUnheard, TypeOK, Unmarked, Fault
    <2>5. TypeOK'
      BY <1>0, <1>2, <2>1, <2>3, <2>4, KeysInRange DEF CancelUnheard, TypeOK
    <2> QED BY <1>2, <2>1, <2>3, <2>5, QuietKeeps DEF CancelUnheard, Ordered
  <1>3. CASE RefreshBegin(w) \/ (w = "sweep" /\ SweepBegin)
    <2>1. Row
      BY <1>3 DEF RefreshBegin, SweepBegin, Listed, Row, NoPiece
    <2>2. Read /\ task' \in [Worker -> TaskRecord]
      BY <1>0, <1>3, <2>1, ReadsIsRead DEF RefreshBegin, SweepBegin, Phases, Ops, Sends, founder
    <2>3. TypeOK'
      BY <1>0, <1>3, <2>2 DEF RefreshBegin, SweepBegin, founder, platform, TypeOK
    <2> QED BY <1>3, <2>2, <2>3, QuietKeeps DEF RefreshBegin, SweepBegin, founder, platform,
               Ordered
  <1> QED BY <1>1, <1>2, <1>3

LEMMA WorldKeeps ==
  ASSUME Inv, ReturnAddress \/ Stop \/ Die \/ Boot
  PROVE  Inv'
  <1>0. TypeOK
    BY DEF Inv
  <1>1. Read /\ task' \in [Worker -> TaskRecord]
    BY <1>0, IdleIsTyped DEF ReturnAddress, Stop, Die, Boot, Read, Keeps, TypeOK
  <1>2. address' \in [to : Version, from : Version]
    BY <1>0, MailAssumption DEF ReturnAddress, Stop, Die, Boot, TypeOK, Edits, Version
  <1>3. faults' \in 0 .. MaxFaults
    BY <1>0, MailAssumption DEF ReturnAddress, Stop, Die, Boot, TypeOK, Fault
  <1>4. TypeOK'
    BY <1>0, <1>1, <1>2, <1>3 DEF ReturnAddress, Stop, Die, Boot, TypeOK, platform
  <1> QED BY <1>1, <1>4, QuietKeeps DEF ReturnAddress, Stop, Die, Boot, Ordered, platform

\* Nobody pays for an order that was not made.
PaidIsMade == orders \in [Key -> Order] /\ \A k \in Key : orders[k].paid => orders[k].made

\* A delivered request makes its order, unless it is there.
LEMMA DeliveredIsMade ==
  \A k \in Key : PaidIsMade /\ Deliver(k) =>
      /\ orders' \in [Key -> Order] /\ orders'[k].made
      /\ \A j \in Key : /\ j # k => orders'[j] = orders[j]
                        /\ orders[j].paid => orders'[j].paid
  <1> SUFFICES ASSUME NEW k \in Key, PaidIsMade, Deliver(k)
               PROVE  /\ orders' \in [Key -> Order] /\ orders'[k].made
                      /\ \A j \in Key : /\ j # k => orders'[j] = orders[j]
                                        /\ orders[j].paid => orders'[j].paid
    OBVIOUS
  <1>1. PICK paid \in BOOLEAN :
           orders' = [orders EXCEPT ![k] = IF @.made THEN @ ELSE
                         [NoOrder EXCEPT !.made = TRUE, !.open = TRUE, !.paid = paid]]
    BY DEF Deliver
  <1> DEFINE new == [NoOrder EXCEPT !.made = TRUE, !.open = TRUE, !.paid = paid]
  <1>2. NoOrder \in Order
    BY DEF NoOrder, Order
  <1>3. new \in Order /\ new.made
    BY <1>2 DEF Order
  <1> HIDE DEF new
  <1>4. orders' = [orders EXCEPT ![k] = IF orders[k].made THEN orders[k] ELSE new]
    BY <1>1 DEF new, PaidIsMade
  <1> QED
    BY <1>3, <1>4 DEF PaidIsMade

LEMMA PaidIsMadeKept == PaidIsMade /\ [Next]_vars => PaidIsMade'
  <1> SUFFICES ASSUME PaidIsMade, [Next]_vars PROVE PaidIsMade'
    OBVIOUS
  <1>1. CASE orders' = orders
    BY <1>1 DEF PaidIsMade
  <1>2. ASSUME NEW w \in Worker, CancelCall(w) \/ CancelUnheard(w) PROVE PaidIsMade'
    <2>1. orders' = [orders EXCEPT ![Snap(w).key].asked = TRUE]
      BY <1>2 DEF CancelCall, CancelUnheard
    <2>2. CASE Snap(w).key \in Key
      BY <2>1, <2>2, OrderIsTyped DEF PaidIsMade
    <2>3. CASE Snap(w).key \notin Key
      BY <2>1, <2>3 DEF PaidIsMade
    <2> QED BY <2>2, <2>3
  <1>3. ASSUME NEW k \in Key, Progress(k) PROVE PaidIsMade'
    BY <1>3, OrderIsTyped DEF Progress, PaidIsMade
  <1>4. ASSUME NEW k \in Key, Deliver(k) PROVE PaidIsMade'
    
    <2>1. /\ orders' \in [Key -> Order] /\ orders'[k].made
          /\ \A j \in Key : j # k => orders'[j] = orders[j]
      BY <1>4, DeliveredIsMade DEF Order
    <2> QED BY <2>1 DEF PaidIsMade
  <1> QED
    BY <1>1, <1>2, <1>3, <1>4
    DEF Next, vars, platform, PreviewBegin, PreviewEnd, ApproveBegin, ApproveEnd, SendRead,
    SendNew,
        SendRecover, SendAgain, Orders, SendAnswered, Pass, RefreshBegin, Look, CancelBegin, Fail,
        SweepBegin, Skip, ReturnAddress, Stop, Die, Boot, Edit, Lose

LEMMA PlatformKeeps ==
  ASSUME Inv, PaidIsMade, NEW k \in Key, Deliver(k) \/ Lose(k) \/ Progress(k)
  PROVE  Inv'
  <1>0. TypeOK
    BY DEF Inv
  <1>1. Read
    BY DEF Deliver, Lose, Progress, founder, Read, Keeps
  <1>2. CASE Deliver(k)
    <2>1. /\ orders' \in [Key -> Order]
          /\ \A j \in Key : /\ j # k => orders'[j] = orders[j]
                            /\ orders[j].paid => orders'[j].paid
      BY <1>2, DeliveredIsMade
    <2>2. k \in 1 .. keys /\ wire' \subseteq wire /\ k \in wire
      BY <1>0, <1>2 DEF Deliver, TypeOK
    <2>3. UNCHANGED <<piece, preview, cad, marker, address, keys, task, receipts, dropped, revived,
                      faults>>
      BY <1>2 DEF Deliver, founder
    <2>4. \A j \in Key : orders'[j].made => j <= keys
      BY <1>0, <2>1, <2>2 DEF TypeOK, Order
    <2>5. \A j \in receipts : orders'[j].paid
      BY <1>0, <2>1, KeysInRange DEF TypeOK, Order
    <2>6. TypeOK'
      BY <1>0, <2>1, <2>2, <2>3, <2>4, <2>5 DEF TypeOK
    <2>7. Ordered' \subseteq Ordered
      BY <1>2, <2>1 DEF Deliver, Ordered
    <2> QED BY <1>1, <2>3, <2>6, <2>7, QuietKeeps
  <1>3. CASE Lose(k)
    <2>1. TypeOK'
      BY <1>0, <1>3, MailAssumption DEF Lose, TypeOK, Fault, founder
    <2> QED BY <1>1, <1>3, <2>1, QuietKeeps DEF Lose, founder, Ordered
  <1>4. CASE Progress(k)
    <2>1. /\ orders' \in [Key -> Order]
          /\ \A j \in Key : /\ orders'[j].made = orders[j].made
                            /\ orders[j].paid => orders'[j].paid
      BY <1>0, <1>4, OrderIsTyped DEF Progress, TypeOK
    <2>2. \A j \in receipts : orders'[j].paid
      BY <1>0, <2>1, KeysInRange DEF TypeOK, Order
    <2>3. TypeOK'
      BY <1>0, <1>4, <2>1, <2>2 DEF Progress, founder, TypeOK
    <2> QED BY <1>1, <1>4, <2>1, <2>3, QuietKeeps DEF Progress, founder, Ordered
  <1> QED BY <1>2, <1>3, <1>4

LEMMA NextKeeps == Inv /\ PaidIsMade /\ [Next]_vars => Inv'
  <1> SUFFICES ASSUME Inv, PaidIsMade, [Next]_vars PROVE Inv'
    OBVIOUS
  <1>1. CASE UNCHANGED vars
    BY <1>1 DEF vars, Inv, TypeOK, Copies, Quoted, FreshIsTheRow, StartedStays, ReadIsShown,
       OrderIsOnRecord, Ordered, Dropped, DroppedIsDead, DroppedNotOrdered, Row, Snap, At
  <1>2. ASSUME NEW w \in Worker, SendNew(w) \/ SendAgain(w) PROVE Inv'
    BY <1>2, OrdersKeeps DEF SendNew, SendAgain, At, Inv, Copies, StartedStays, Sends
  <1>3. CASE SweepBegin
    BY <1>3, OtherTasksKeep DEF Worker
  <1> QED
    BY <1>1, <1>2, <1>3, PreviewBeginKeeps, PreviewEndKeeps, ApproveBeginKeeps, ApproveEndKeeps,
       SendReadKeeps, SendRecoverKeeps, SendAnsweredKeeps, LookKeeps, CancelBeginKeeps,
       CancelCallKeeps, OtherTasksKeep, SkipKeeps, EditKeeps, WorldKeeps, PlatformKeeps
    DEF Next

LEMMA Invariance == Spec => [](Inv /\ PaidIsMade)
  <1>1. Init => Inv /\ PaidIsMade
    BY InitInv DEF Inv, TypeOK, PaidIsMade, Init, NoOrder
  <1> QED BY <1>1, NextKeeps, PaidIsMadeKept, PTL DEF Spec

\* Types; no key is ordered that was not quoted, and receipts are of paid orders.
THEOREM TypeCorrect == Spec => []TypeOK
  BY Invariance, PTL DEF Inv

\* A step is ordered once, however often its letter is quoted, edited, sent again or
\* recovered, and no order is lost from sight (saveDirectMail's revision, and the
\* refusals of a started piece).
THEOREM OrderedIsOnRecord == Spec => []OrderIsOnRecord
  BY Invariance, PTL DEF Inv

\* What the founder canceled, skipped or replaced is not ordered (the revision, and
\* sendDirectMail's checks after its last await).
THEOREM DroppedIsNotOrdered == Spec => []DroppedNotOrdered
  BY Invariance, PTL DEF Inv, Dropped

-----------------------------------------------------------------------------
(* A /run of a play.                                                       *)

Early == {"begun", "verifying", "working", "settled"}

RecordShape ==
    record = [status |-> record.status, reason |-> record.reason, emails |-> record.emails]

\* Who writes the row cancelled has aborted the signal, or saw it aborted.
CancelIsSeen ==
    /\ record.status = "cancelled" => Play!Aborted
    /\ verdict = "cancelled" => Play!Aborted
    /\ record.status = "running" /\ alive => live

\* Until the handler ends, only Stop has touched the row.
OnlyStopIsEarly ==
    /\ phase \in Early => record.status \in {"running", "cancelled"}
    /\ phase \in Early /\ record.status = "cancelled" => record.reason = "user"
    /\ phase = "ended" => record.status # "running"

\* A batch that nobody has thrown out of is over when the handler ends.
QuietEnd ==
    /\ phase \in {"begun", "verifying", "settled"} /\ alive
       => \A w \in Crew : work[w].at = "free"
    /\ phase = "settled" /\ verdict = Play!None => todo = {}
    /\ phase = "ended" /\ verdict = Play!None /\ alive
       => todo = {} /\ \A w \in Crew : work[w].at = "free"

Workers == work = [w \in Crew |-> work[w]]

RunInv == RecordShape /\ CancelIsSeen /\ OnlyStopIsEarly /\ QuietEnd /\ Workers
          /\ Play!ListIsComplete

LEMMA RunInitInv == Play!Init => RunInv
  BY DEF Play!Init, RunInv, RecordShape, CancelIsSeen, OnlyStopIsEarly, QuietEnd, Workers,
         Play!ListIsComplete, Play!StoppedInVain, Play!Aborted, Early, Play!Free, Play!None

\* The handler ends: it lists what was reported, unless Stop came in vain.
LEMMA FinishKeepsRun == ASSUME RunInv, Play!Finish PROVE RunInv'
<1>1. record' = [status |-> record'.status, reason |-> record'.reason, emails |-> record'.emails]
  BY DEF RunInv, RecordShape, Play!Finish, Play!Cancelled, Play!Completed, Play!Listing
<1>2. CancelIsSeen'
  BY DEF RunInv, RecordShape, CancelIsSeen, OnlyStopIsEarly, Early, Play!Aborted, Play!Finish,
     Play!Cancelled,
         Play!Completed, Play!Listing
<1>3. record'.status # "running"
  BY DEF RunInv, RecordShape, Play!Finish, Play!Cancelled, Play!Completed, Play!Listing
<1>4. Play!ListIsComplete'
  <2>1. CASE verdict = "cancelled"
    BY <2>1 DEF RunInv, RecordShape, Play!Finish, Play!Cancelled, Play!Listing, Play!ListIsComplete
  <2>2. CASE verdict # "cancelled" /\ record.status = "running"
    BY <2>2 DEF RunInv, RecordShape, Play!Finish, Play!Completed, Play!ListIsComplete
  <2>3. CASE verdict # "cancelled" /\ record.status # "running"
    BY <2>3 DEF RunInv, OnlyStopIsEarly, Early, Play!Finish, Play!Completed, Play!ListIsComplete,
       Play!StoppedInVain
  <2>4. QED BY <2>1, <2>2, <2>3
<1>5. QuietEnd' /\ OnlyStopIsEarly' /\ Workers'
  BY <1>3 DEF RunInv, QuietEnd, OnlyStopIsEarly, Early, Workers, Play!Finish
<1>6. QED BY <1>1, <1>2, <1>4, <1>5 DEF RunInv, RecordShape

\* What the workers do.
LEMMA WorkerKeepsRun == ASSUME RunInv, NEW w \in Crew, Play!Step(w) PROVE RunInv'
<1>1. CASE Play!Pull(w)
  BY <1>1 DEF RunInv, RecordShape, CancelIsSeen, OnlyStopIsEarly, Early, QuietEnd, Workers,
     Play!Pull,
         Play!ListIsComplete, Play!StoppedInVain, Play!Aborted, Play!Throws, Play!Becomes,
         Play!Over, Play!None
<1>2. CASE Play!Send(w)
  BY <1>2 DEF RunInv, RecordShape, CancelIsSeen, OnlyStopIsEarly, Early, QuietEnd, Workers,
     Play!Send,
         Play!ListIsComplete, Play!StoppedInVain, Play!Aborted, Play!Throws, Play!Becomes,
         Play!Over, Play!None
<1>3. CASE Play!NotSent(w)
  BY <1>3 DEF RunInv, RecordShape, CancelIsSeen, OnlyStopIsEarly, Early, QuietEnd, Workers,
     Play!NotSent,
         Play!ListIsComplete, Play!StoppedInVain, Play!Aborted, Play!Becomes, Play!Free
<1>4. CASE Play!Deferred(w)
  BY <1>4 DEF RunInv, RecordShape, CancelIsSeen, OnlyStopIsEarly, Early, QuietEnd, Workers,
     Play!Deferred,
         Play!ListIsComplete, Play!StoppedInVain, Play!Aborted, Play!Throws, Play!Becomes,
         Play!Over, Play!None
<1>5. CASE Play!Report(w)
  BY <1>5 DEF RunInv, RecordShape, CancelIsSeen, OnlyStopIsEarly, Early, QuietEnd, Workers,
     Play!Report,
         Play!ListIsComplete, Play!StoppedInVain, Play!Aborted, Play!Becomes, Play!Free,
         Play!Listing
<1>6. QED BY <1>1, <1>2, <1>3, <1>4, <1>5 DEF Play!Step

LEMMA StepKeepsRun == ASSUME RunInv, [Play!Next]_(Play!vars) PROVE RunInv'
<1>1. CASE Play!Begin
  BY <1>1 DEF RunInv, RecordShape, CancelIsSeen, OnlyStopIsEarly, Early, QuietEnd, Workers,
     Play!Begin,
         Play!ListIsComplete, Play!StoppedInVain, Play!Aborted, Play!None
<1>2. CASE \E out \in SUBSET Manual : Play!Verified(out)
  BY <1>2 DEF RunInv, RecordShape, CancelIsSeen, OnlyStopIsEarly, Early, QuietEnd, Workers,
     Play!Verified,
         Play!ListIsComplete, Play!StoppedInVain, Play!Aborted, Play!None
<1>3. CASE Play!Disconnect
  BY <1>3 DEF RunInv, RecordShape, CancelIsSeen, OnlyStopIsEarly, Early, QuietEnd, Workers,
     Play!Disconnect,
         Play!ListIsComplete, Play!StoppedInVain, Play!Aborted, Play!None
<1>4. CASE Play!Stop
  <2>1. phase # "ended"
    BY <1>4 DEF Play!Stop, RunInv, OnlyStopIsEarly
  <2>2. CancelIsSeen'
    BY <1>4 DEF Play!Stop, RunInv, RecordShape, CancelIsSeen, Play!Aborted, Play!None
  <2>3. QED
    BY <1>4, <2>1, <2>2 DEF Play!Stop, RunInv, RecordShape, OnlyStopIsEarly, Early, QuietEnd,
       Workers,
       Play!ListIsComplete
<1>5. CASE Play!Die
  BY <1>5 DEF RunInv, RecordShape, CancelIsSeen, OnlyStopIsEarly, Early, QuietEnd, Workers,
     Play!Die,
         Play!ListIsComplete, Play!StoppedInVain, Play!Aborted, Play!None
<1>6. CASE Play!Boot
  BY <1>6 DEF RunInv, RecordShape, CancelIsSeen, OnlyStopIsEarly, Early, QuietEnd, Workers,
     Play!Boot,
         Play!ListIsComplete, Play!StoppedInVain, Play!Aborted, Play!None
<1>7. CASE UNCHANGED Play!vars
  BY <1>7 DEF Play!vars, RunInv, RecordShape, CancelIsSeen, OnlyStopIsEarly, Early, QuietEnd,
     Workers,
         Play!ListIsComplete, Play!StoppedInVain, Play!Aborted
<1>8. QED
  BY <1>1, <1>2, <1>3, <1>4, <1>5, <1>6, <1>7, FinishKeepsRun, WorkerKeepsRun DEF Play!Next

LEMMA RunInvariance == Play!Spec => []RunInv
  BY RunInitInv, StepKeepsRun, PTL DEF Play!Spec

\* An ended run lists every email that was reported, also after its row was
\* final (Report, Stop and Finish of runPlay and cancelRun).
THEOREM EndedListIsComplete == Play!Spec => []ListIsComplete
  BY RunInvariance, PTL DEF RunInv, ListIsComplete

\* A run that reads cancelled starts no email: whoever wrote the row, the
\* guard before a send (throwIfCancelled) sees the abort.
THEOREM CancelledIsFinal == Play!Spec => CancelledSendsNoMore
<1>1. ASSUME RunInv, [Play!Next]_(Play!vars)
      PROVE [\A w \in Crew : record.status = "cancelled" /\ work'[w].at = "sending"
                             => work[w].at = "sending"]_(Play!vars)
  <2>1. SUFFICES ASSUME NEW w \in Crew, record.status = "cancelled", work'[w].at = "sending"
                 PROVE work[w].at = "sending"
    OBVIOUS
  <2>2. signal # Play!None /\ work = [v \in Crew |-> work[v]]
    BY <1>1, <2>1 DEF RunInv, CancelIsSeen, Workers, Play!Aborted
  <2>3. CASE \E v \in Crew : Play!Step(v)
    BY <2>1, <2>2, <2>3 DEF Play!Step, Play!Pull, Play!Send, Play!NotSent, Play!Deferred,
       Play!Report, Play!Throws, Play!Becomes,
       Play!Aborted, Play!Free, Play!Over
  <2>4. CASE Play!Die
    BY <2>1, <2>4 DEF Play!Die, Play!Over
  <2>5. CASE Play!Begin \/ Play!Finish \/ (\E out \in SUBSET Manual : Play!Verified(out))
             \/ Play!Disconnect \/ Play!Stop \/ Play!Boot \/ UNCHANGED Play!vars
    BY <2>1, <2>5 DEF Play!Begin, Play!Finish, Play!Verified, Play!Disconnect, Play!Stop,
       Play!Boot, Play!vars
  <2>6. QED BY <1>1, <2>3, <2>4, <2>5 DEF Play!Next
<1>2. QED BY <1>1, RunInvariance, PTL DEF Play!Spec, CancelledSendsNoMore,
             Play!CancelledSendsNoMore
=============================================================================
