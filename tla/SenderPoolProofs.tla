--------------------------- MODULE SenderPoolProofs ---------------------------
(***************************************************************************)
(* One sender per person, and the cap of the day, for every pool, number   *)
(* of processes, emails, days and reservations.                            *)
(*                                                                         *)
(* A pin is written once and never changed, so it is enough that whatever  *)
(* carries an identity carries the pin's: a routed or sending worker, a    *)
(* request on the wire, an email that is out (Follows).  The one step      *)
(* where this could fail is the end of a lost race for the pin: the loser  *)
(* follows the winner only if its own pool lists the winner.  It does when *)
(* the pool does not change while a sender is being resolved, for the      *)
(* winner was picked from the same pool (SameSetup).                       *)
(*                                                                         *)
(* The count of the day is right because each email has one request, whose *)
(* row tells its day and its sender (EmailGood), and whoever took a slot   *)
(* holds it until the email is a receipt or an unknown outcome             *)
(* (SlotsHeld).  So every email of the day, and every worker about to send *)
(* one, is matched with something of its own that Used adds up             *)
(* (CountedIsUsed); and a pick that reserves found Used below the cap.     *)
(***************************************************************************)
EXTENDS SenderPool, FiniteSetTheorems, WellFoundedInduction, TLAPS

\* What a worker between reading the pin and the capacity lock knows.
SameSetup ==
    \A w \in Worker : pc[w] = "looked" =>
        /\ job[w] \in Job /\ job[w].cfg = pool
        /\ pin[To[job[w].email]] \in pool \cup {Nobody}

\* The identity in a worker's hands is the pin's.
WorkersFollow ==
    \A w \in Worker : pc[w] \in {"routed", "sending"} =>
        /\ job[w] \in Job
        /\ job[w].sender # Nobody
        /\ job[w].sender = pin[To[job[w].email]]

\* And so is the identity of a request.
RequestsFollow ==
    \A r \in wire \cup out : r.ident = pin[To[r.email]]

Typed ==
    /\ pool \subseteq Identity
    /\ pin \in [Person -> Identity \cup {Nobody}]
    /\ pc \in [Worker -> {"idle", "looked", "routed", "sending", "receipted"}]
    /\ job \in [Worker -> Job \cup {NoJob}]
    /\ wire \subseteq Request /\ out \subseteq Request
    /\ today \in Day /\ picks \in 0 .. MaxPicks

Follows == Typed /\ SameSetup /\ WorkersFollow /\ RequestsFollow

-----------------------------------------------------------------------------

\* Whoever is a candidate of a pool is in it.
LEMMA CandidatesListed ==
    ASSUME NEW cfg, NEW i \in Candidates(cfg) PROVE i \in cfg
  BY DEF Candidates, Room

LEMMA InitFollows == Init => Follows
  <1> SUFFICES ASSUME Init PROVE Follows
    OBVIOUS
  <1> USE DEF Init
  <1>1. Typed
    BY PoolAssumption DEF Typed, Day
  <1>2. SameSetup /\ WorkersFollow /\ RequestsFollow
    BY DEF SameSetup, WorkersFollow, RequestsFollow
  <1> QED
    BY <1>1, <1>2 DEF Follows

\* The step that resolves a sender: the new pin, if any, is from this worker's
\* pool, and the worker leaves with the identity the pin now has.
LEMMA ResolveFollows ==
    ASSUME Follows, NEW w \in Worker, NEW i \in job[w].cfg, NEW slot \in 0 .. MaxPicks,
           pc[w] = "looked",
           pin' = [pin EXCEPT ![To[job[w].email]] = Assigned(To[job[w].email], i)],
           Resolve(w, Listed(job[w].cfg, Assigned(To[job[w].email], i), i), slot),
           picks' \in 0 .. MaxPicks,
           UNCHANGED <<pool, today, wire, out>>
    PROVE  Follows'
  <1> DEFINE p == To[job[w].email]
             winner == Assigned(p, i)
  <1> USE DEF Follows
  <1>1. /\ job[w] \in Job /\ job[w].cfg = pool /\ p \in Person
        /\ i \in Identity /\ pin[p] \in pool \cup {Nobody}
    BY PoolAssumption DEF Typed, SameSetup, Job
  <1>2. winner \in pool /\ winner \in Identity /\ winner # Nobody
    BY <1>1, PoolAssumption DEF Assigned, Typed
  <1>3. /\ pc' = [pc EXCEPT ![w] = "routed"]
        /\ job' = [job EXCEPT ![w].sender = winner, ![w].slot = slot]
    BY <1>1, <1>2 DEF Resolve, Listed
  <1>4. /\ job'[w] = [job[w] EXCEPT !.sender = winner, !.slot = slot]
        /\ job'[w] \in Job /\ job'[w].email = job[w].email /\ job'[w].sender = winner
    BY <1>1, <1>2, <1>3 DEF Typed, Job
  <1>5. \A v \in Worker : v # w => job'[v] = job[v] /\ pc'[v] = pc[v]
    BY <1>3 DEF Typed
  <1>6. pin' = [pin EXCEPT ![p] = winner] /\ pin'[p] = winner
    BY <1>1 DEF Typed
  <1>7. \A q \in Person : pin[q] # Nobody => pin'[q] = pin[q]
    BY <1>1, <1>6 DEF Typed, Assigned
  <1>8. Typed'
    BY <1>1, <1>2, <1>3, <1>4, <1>5, <1>6 DEF Typed
  <1>9. SameSetup'
    <2> SUFFICES ASSUME NEW v \in Worker, pc'[v] = "looked"
                 PROVE  /\ job'[v] \in Job /\ job'[v].cfg = pool'
                        /\ pin'[To[job'[v].email]] \in pool' \cup {Nobody}
      BY DEF SameSetup
    <2>1. v # w /\ pc[v] = "looked"
      BY <1>3, <1>5 DEF Typed
    <2>2. job[v] \in Job /\ To[job[v].email] \in Person
      BY <2>1, PoolAssumption DEF SameSetup, Job
    <2> QED
      BY <2>1, <2>2, <1>2, <1>5, <1>6 DEF SameSetup, Typed
  <1>10. WorkersFollow'
    <2> SUFFICES ASSUME NEW v \in Worker, pc'[v] \in {"routed", "sending"}
                 PROVE  /\ job'[v] \in Job /\ job'[v].sender # Nobody
                        /\ job'[v].sender = pin'[To[job'[v].email]]
      BY DEF WorkersFollow
    <2>1. CASE v = w
      BY <2>1, <1>2, <1>4, <1>6
    <2>2. CASE v # w
      <3>1. job'[v] = job[v] /\ pc[v] \in {"routed", "sending"}
        BY <2>2, <1>5
      <3>2. job[v] \in Job /\ To[job[v].email] \in Person
        BY <3>1, PoolAssumption DEF WorkersFollow, Job
      <3> QED
        BY <3>1, <3>2, <1>7 DEF WorkersFollow
    <2> QED
      BY <2>1, <2>2
  <1>11. RequestsFollow'
    <2> SUFFICES ASSUME NEW r \in wire \cup out PROVE r.ident = pin'[To[r.email]]
      BY DEF RequestsFollow
    <2>1. r.ident # Nobody /\ To[r.email] \in Person
      BY PoolAssumption DEF Typed, Request
    <2> QED
      BY <2>1, <1>7 DEF RequestsFollow
  <1> QED
    BY <1>8, <1>9, <1>10, <1>11

\* A step of w that leaves pins and pool alone, ends with w holding no identity
\* and adds no request.
LEMMA LeaveFollows ==
    ASSUME Follows, NEW w \in Worker, NEW state \in {"idle", "receipted"},
           pc' = [pc EXCEPT ![w] = state],
           job' = job \/ job' = [job EXCEPT ![w] = NoJob],
           wire' \subseteq wire, UNCHANGED <<pool, pin, picks, today, out>>
    PROVE  Follows'
  <1> USE DEF Follows
  <1>1. pc'[w] = state /\ \A v \in Worker : v # w => job'[v] = job[v] /\ pc'[v] = pc[v]
    BY DEF Typed
  <1>2. Typed'
    BY DEF Typed
  <1>3. SameSetup'
    BY <1>1 DEF SameSetup
  <1>4. WorkersFollow'
    BY <1>1 DEF WorkersFollow
  <1>5. RequestsFollow'
    BY DEF RequestsFollow
  <1> QED
    BY <1>2, <1>3, <1>4, <1>5

LEMMA LookFollows ==
    ASSUME Follows, NEW w \in Worker, NEW e \in Email, Look(w, e) PROVE Follows'
  <1> DEFINE new == [email |-> e, cfg |-> pool, sender |-> pin[To[e]], slot |-> 0,
                     first |-> ~(pin[To[e]] # Nobody), day |-> today]
  <1> USE DEF Follows
  <1>1. To[e] \in Person /\ pin[To[e]] \in Identity \cup {Nobody}
    BY PoolAssumption DEF Typed
  <1>2. 0 \in 0 .. MaxPicks
    BY PoolAssumption
  <1>3. new \in Job
    BY <1>1, <1>2 DEF Typed, Job
  <1>4. /\ job' = [job EXCEPT ![w] = new]
        /\ pc' = [pc EXCEPT ![w] = IF pin[To[e]] # Nobody THEN "routed" ELSE "looked"]
        /\ UNCHANGED <<pool, pin, picks, today, wire, out>>
    BY DEF Look, wireVars
  <1>5. /\ job'[w] = new
        /\ \A v \in Worker : v # w => job'[v] = job[v] /\ pc'[v] = pc[v]
    BY <1>4 DEF Typed
  <1>6. Typed'
    BY <1>3, <1>4 DEF Typed
  <1>7. SameSetup'
    BY <1>3, <1>4, <1>5 DEF SameSetup, Typed
  <1>8. WorkersFollow'
    BY <1>3, <1>4, <1>5 DEF WorkersFollow, Typed
  <1>9. RequestsFollow'
    BY <1>4 DEF RequestsFollow
  <1> QED
    BY <1>6, <1>7, <1>8, <1>9

LEMMA ClaimFollows ==
    ASSUME Follows, NEW w \in Worker, ClaimSend(w) PROVE Follows'
  <1> DEFINE new == [RequestOf(w) EXCEPT !.day = today]
  <1> USE DEF Follows
  <1>1. /\ pc[w] = "routed"
        /\ pc' = [pc EXCEPT ![w] = "sending"]
        /\ job' = [job EXCEPT ![w].day = today]
        /\ wire' = wire \cup {new}
        /\ UNCHANGED <<pool, pin, picks, today, out>>
    BY DEF ClaimSend
  <1>2. /\ job[w] \in Job /\ job[w].sender # Nobody
        /\ job[w].sender = pin[To[job[w].email]]
    BY <1>1 DEF WorkersFollow
  <1>3. new \in Request /\ new.ident = pin[To[new.email]]
    BY <1>2 DEF RequestOf, Request, Job, Typed
  <1>4. /\ job'[w] \in Job /\ job'[w].sender = job[w].sender /\ job'[w].email = job[w].email
        /\ \A v \in Worker : v # w => job'[v] = job[v] /\ pc'[v] = pc[v]
    BY <1>1, <1>2 DEF Typed, Job
  <1>5. Typed'
    BY <1>1, <1>3, <1>4 DEF Typed
  <1>6. SameSetup'
    BY <1>1, <1>4 DEF SameSetup, Typed
  <1>7. WorkersFollow'
    BY <1>1, <1>2, <1>4 DEF WorkersFollow
  <1>8. RequestsFollow'
    BY <1>1, <1>3 DEF RequestsFollow
  <1> QED
    BY <1>5, <1>6, <1>7, <1>8

\* Follows is inductive.
LEMMA NextFollows ==
    ASSUME QuietSetup, Follows, [Next]_vars PROVE Follows'
  <1>1. ASSUME NEW w \in Worker, NEW e \in Email, Look(w, e) PROVE Follows'
    BY <1>1, LookFollows
  <1>2. ASSUME NEW w \in Worker, LazyPin(w) PROVE Follows'
    <2>1. LegacyIdentity \in job[w].cfg /\ 0 \in 0 .. MaxPicks
      BY <1>2, PoolAssumption DEF LazyPin, LegacyPinned
    <2> QED
      BY <1>2, <2>1, ResolveFollows DEF LazyPin, wireVars, Follows, Typed
  <1>3. ASSUME NEW w \in Worker, Pick(w) PROVE Follows'
    <2>1. PICK i \in Candidates(job[w].cfg) :
             LET winner == Assigned(To[job[w].email], i)
                 reserves == winner = i /\ CappedGroup(job[w].cfg, GroupOf[i])
             IN  /\ pin' = [pin EXCEPT ![To[job[w].email]] = winner]
                 /\ reserves => picks < MaxPicks
                 /\ picks' = IF reserves THEN picks + 1 ELSE picks
                 /\ Resolve(w, Listed(job[w].cfg, winner, i), IF reserves THEN picks' ELSE 0)
      BY <1>3 DEF Pick
    <2>2. i \in job[w].cfg
      BY CandidatesListed
    <2>3. /\ picks' \in 0 .. MaxPicks /\ 0 \in 0 .. MaxPicks
      BY <2>1, PoolAssumption DEF Follows, Typed
    <2>4. pc[w] = "looked" /\ UNCHANGED <<pool, today, wire, out>>
      BY <1>3 DEF Pick, wireVars
    <2>5. CASE Assigned(To[job[w].email], i) = i /\ CappedGroup(job[w].cfg, GroupOf[i])
      <3>1. Resolve(w, Listed(job[w].cfg, Assigned(To[job[w].email], i), i), picks')
        BY <2>1, <2>5
      <3> QED
        BY <2>1, <2>2, <2>3, <2>4, <3>1, ResolveFollows
    <2>6. CASE ~(Assigned(To[job[w].email], i) = i /\ CappedGroup(job[w].cfg, GroupOf[i]))
      <3>1. Resolve(w, Listed(job[w].cfg, Assigned(To[job[w].email], i), i), 0)
        BY <2>1, <2>6
      <3> QED
        BY <2>1, <2>2, <2>3, <2>4, <3>1, ResolveFollows
    <2> QED
      BY <2>5, <2>6
  <1>4. ASSUME NEW w \in Worker, ClaimSend(w) PROVE Follows'
    BY <1>4, ClaimFollows
  <1>5. ASSUME NEW w \in Worker,
               \/ Defer(w) \/ ClaimRefused(w) \/ ClaimReplayed(w) \/ WriteReceipt(w)
               \/ MarkSettled(w) \/ FailDefinite(w) \/ FailUnknown(w) \/ Crash(w)
        PROVE  Follows'
    <2>1. /\ \E state \in {"idle", "receipted"} : pc' = [pc EXCEPT ![w] = state]
          /\ job' = job \/ job' = [job EXCEPT ![w] = NoJob]
          /\ wire' \subseteq wire
          /\ UNCHANGED <<pool, pin, picks, today, out>>
      BY <1>5 DEF Defer, ClaimRefused, ClaimReplayed, WriteReceipt, MarkSettled,
                  FailDefinite, FailUnknown, Crash, Done, wireVars
    <2> QED
      BY <2>1, LeaveFollows
  <1>6. ASSUME NEW r \in wire, Accept(r) \/ Lose(r) PROVE Follows'
    BY <1>6 DEF Accept, Lose, Follows, Typed, SameSetup, WorkersFollow, RequestsFollow
  <1>7. CASE \/ \E h \in held : Expire(h)
             \/ \E e \in Email : Sweep(e)
             \/ UNCHANGED vars
    <2>1. UNCHANGED <<pool, pin, picks, today, pc, job, wire, out>>
      BY <1>7 DEF Expire, Sweep, vars, wireVars
    <2> QED
      BY <2>1 DEF Follows, Typed, SameSetup, WorkersFollow, RequestsFollow
  <1>8. CASE Midnight
    <2>1. /\ today' \in Day
          /\ UNCHANGED <<pool, pin, picks, pc, job, wire, out>>
      BY <1>8, PoolAssumption DEF Midnight, wireVars, Follows, Typed, Day
    <2> QED
      BY <2>1 DEF Follows, Typed, SameSetup, WorkersFollow, RequestsFollow
  <1>9. ASSUME NEW cfg \in Pools, Configure(cfg) PROVE Follows'
    <2>1. /\ \A w \in Worker : pc[w] # "looked"
          /\ pool' \subseteq Identity
          /\ UNCHANGED <<pin, picks, today, pc, job, wire, out>>
      BY <1>9, PoolAssumption DEF Configure, wireVars
    <2> QED
      BY <2>1 DEF Follows, Typed, SameSetup, WorkersFollow, RequestsFollow
  <1>10. ASSUME NEW w \in Worker, Send(w) PROVE Follows'
    BY <1>1, <1>2, <1>3, <1>4, <1>5, <1>10 DEF Send
  <1>11. CASE Next
    BY <1>5, <1>6, <1>7, <1>8, <1>9, <1>10, <1>11 DEF Next
  <1> QED
    BY <1>7, <1>11

\* One sender per person: resolveSenderSlot and keyedSend never let two emails
\* to one person go out from two identities.
THEOREM OneSender ==
    ASSUME QuietSetup PROVE Spec => []OneSenderPerPerson
  <1>1. Follows => OneSenderPerPerson
    BY DEF Follows, RequestsFollow, OneSenderPerPerson
  <1>2. Follows /\ [Next]_vars => Follows'
    BY NextFollows
  <1> QED
    BY <1>1, <1>2, InitFollows, PTL DEF Spec
-----------------------------------------------------------------------------
(* The count of the day.                                                   *)
(*                                                                         *)
(* What follows needs every process to live and its calls to end before    *)
(* their reservation does: a process that dies leaves a pending row, which *)
(* no count reads once the reservation has expired.                        *)

CallsEnd == ~Crashes /\ Patient

\* What there is of an email: its requests, its workers at the provider and
\* past the receipt, its receipts.
Requests(e) == {r \in wire \cup out : r.email = e}
Senders(e) == {w \in Worker : pc[w] = "sending" /\ job[w].email = e}
Filers(e) == {w \in Worker : pc[w] = "receipted" /\ job[w].email = e}
ReceiptsOf(e) == {c \in receipts : c.email = e}

\* An email has one request.  Its row says when and as whom that was made, and
\* does not read failed; while it reads pending, a worker is at it.
RowCovers(e) ==
    /\ \A r, s \in Requests(e) : r = s
    /\ \A r \in Requests(e) :
          /\ row[e].status \in {"pending", "uncertain", "settled"}
          /\ row[e].day = r.day /\ row[e].ident = r.ident /\ r.day <= today
          /\ row[e].status = "pending" => Senders(e) \cup Filers(e) # {}

\* A worker at the provider has the email for itself.
SenderOwns(e) ==
    \A w \in Senders(e) :
        /\ row[e].status \in {"pending", "uncertain"}
        /\ \A r \in Requests(e) : r = RequestOf(w)
        /\ Senders(e) = {w} /\ Filers(e) = {}

\* A receipt is of its request's day or a later one, and it ends the email.
ReceiptEnds(e) ==
    /\ Filers(e) # {} => /\ row[e].status \in {"pending", "uncertain", "settled"}
                         /\ ReceiptsOf(e) # {}
    /\ ReceiptsOf(e) # {} => row[e].status = "settled" \/ Filers(e) # {}
    /\ row[e].receipt => ReceiptsOf(e) # {}
    /\ \A c \in ReceiptsOf(e) :
          /\ c.ident = pin[To[e]] /\ c.day <= today
          /\ \A r \in Requests(e) : r.day <= c.day

EmailGood(e) == RowCovers(e) /\ SenderOwns(e) /\ ReceiptEnds(e)

\* A slot is held for the worker that took it until its call is over.
SlotsHeld ==
    /\ \A h \in held : h.id <= picks
    /\ \A h, k \in held : h.id = k.id => h = k
    /\ \A w \in Worker :
          /\ pc[w] # "idle" => job[w] \in Job /\ job[w].slot <= picks
          /\ pc[w] = "looked" => job[w].slot = 0
          /\ pc[w] \in {"routed", "sending"} /\ job[w].slot # 0 =>
                [id |-> job[w].slot, ident |-> job[w].sender] \in held
          /\ \A v \in Worker \ {w} :
                pc[w] # "idle" /\ pc[v] # "idle" /\ job[w].slot = job[v].slot
                => job[w].slot = 0

BooksTyped ==
    /\ row \in [Email -> Row] /\ receipts \subseteq Receipt /\ held \subseteq Reservation
    /\ IsFiniteSet(wire) /\ IsFiniteSet(out) /\ IsFiniteSet(receipts) /\ IsFiniteSet(held)

Books == BooksTyped /\ SlotsHeld /\ \A e \in Email : EmailGood(e)

LEMMA InitBooks == Init => Books
<1> SUFFICES ASSUME Init PROVE Books
  OBVIOUS
<1>1. BooksTyped
  BY PoolAssumption, FS_EmptySet DEF Init, BooksTyped, Row, NoRow, Day
<1>2. SlotsHeld
  BY DEF Init, SlotsHeld
<1>3. ASSUME NEW e \in Email PROVE EmailGood(e)
  <2>1. Requests(e) = {} /\ Senders(e) = {} /\ Filers(e) = {} /\ ReceiptsOf(e) = {}
        /\ ~row[e].receipt
    BY DEF Init, Requests, Senders, Filers, ReceiptsOf, NoRow
  <2>2. QED BY <2>1 DEF EmailGood, RowCovers, SenderOwns, ReceiptEnds
<1>4. QED BY <1>1, <1>2, <1>3 DEF Books

\* A pin that is set stays.
PinsStay == \A p \in Person : pin[p] # Nobody => pin'[p] = pin[p]

\* What a step leaves alone of an email stays good.
LEMMA EmailRests ==
    ASSUME Follows, BooksTyped, NEW e \in Email, EmailGood(e), PinsStay,
           Requests(e)' \subseteq Requests(e), Senders(e)' = Senders(e),
           Filers(e)' = Filers(e), ReceiptsOf(e)' = ReceiptsOf(e), row'[e] = row[e],
           \A w \in Senders(e) : RequestOf(w)' = RequestOf(w),
           today <= today', today' \in Day
    PROVE  EmailGood(e)'
<1>1. today \in Nat /\ today' \in Nat /\ To[e] \in Person
      /\ \A r \in Requests(e) : r.day \in Nat
  BY PoolAssumption DEF Follows, Typed, Day, Requests, Request
<1>2. RowCovers(e)'
  BY <1>1 DEF EmailGood, RowCovers
<1>3. SenderOwns(e)'
  BY DEF EmailGood, SenderOwns
<1>4. \A c \in ReceiptsOf(e) : c.day \in Nat /\ c.ident # Nobody
  BY PoolAssumption DEF ReceiptsOf, BooksTyped, Receipt, Day
<1>5. ReceiptEnds(e)'
  BY <1>1, <1>4 DEF EmailGood, ReceiptEnds, PinsStay
<1>6. QED BY <1>2, <1>3, <1>5 DEF EmailGood

\* The workers of an email after a step of one of them.
OnlyMoves(w) == \A v \in Worker : v # w => pc'[v] = pc[v] /\ job'[v] = job[v]

LEMMA WorkersOf ==
    ASSUME NEW w \in Worker, OnlyMoves(w), NEW x \in Email
    PROVE  /\ pc'[w] # "sending" \/ job'[w].email # x => Senders(x)' = Senders(x) \ {w}
           /\ pc'[w] # "receipted" \/ job'[w].email # x => Filers(x)' = Filers(x) \ {w}
           /\ pc'[w] = "sending" /\ job'[w].email = x => Senders(x)' = Senders(x) \cup {w}
           /\ pc'[w] = "receipted" /\ job'[w].email = x => Filers(x)' = Filers(x) \cup {w}
  BY DEF Senders, Filers, OnlyMoves

\* A step of a worker leaves the other emails good.
LEMMA OthersRest ==
    ASSUME Follows, BooksTyped, \A e \in Email : EmailGood(e), PinsStay,
           NEW w \in Worker, NEW x \in Email, OnlyMoves(w),
           pc[w] \in {"sending", "receipted"} => job[w].email # x,
           pc'[w] \in {"sending", "receipted"} => job'[w].email # x,
           Requests(x)' \subseteq Requests(x), ReceiptsOf(x)' = ReceiptsOf(x),
           row'[x] = row[x], today <= today', today' \in Day
    PROVE  EmailGood(x)'
<1>1. w \notin Senders(x) /\ w \notin Filers(x)
  BY DEF Senders, Filers
<1>2. Senders(x)' = Senders(x) \ {w} /\ Filers(x)' = Filers(x) \ {w}
  BY WorkersOf
<1>3. Senders(x)' = Senders(x) /\ Filers(x)' = Filers(x)
  BY <1>1, <1>2
<1>4. \A v \in Senders(x) : RequestOf(v)' = RequestOf(v)
  BY <1>1 DEF OnlyMoves, Senders, RequestOf
<1>5. EmailGood(x)
  OBVIOUS
<1>6. QED BY <1>3, <1>4, <1>5, EmailRests

\* Resolving a sender, deferring and being refused touch no email.
LEMMA ResolvingIsGood ==
    ASSUME Follows, Books, PinsStay, NEW w \in Worker, OnlyMoves(w),
           pc[w] \notin {"sending", "receipted"}, pc'[w] \notin {"sending", "receipted"},
           UNCHANGED <<row, receipts, today, wire, out>>
    PROVE  \A x \in Email : EmailGood(x)'
<1> SUFFICES ASSUME NEW x \in Email PROVE EmailGood(x)'
  OBVIOUS
<1>1. Requests(x)' \subseteq Requests(x) /\ ReceiptsOf(x)' = ReceiptsOf(x) /\ row'[x] = row[x]
  BY DEF Requests, ReceiptsOf
<1>2. today <= today' /\ today' \in Day
  BY PoolAssumption DEF Follows, Typed, Day
<1>3. QED BY <1>1, <1>2, OthersRest DEF Books

\* Who is at an email is typed, and its row is there.
LEMMA Active ==
    ASSUME Follows, Books, NEW w \in Worker, pc[w] # "idle"
    PROVE  /\ job[w] \in Job /\ job[w].email \in Email /\ To[job[w].email] \in Person
           /\ row[job[w].email] \in Row /\ EmailGood(job[w].email)
  BY PoolAssumption DEF Books, BooksTyped, SlotsHeld, Job

LEMMA ActiveSends ==
    ASSUME Follows, Books, NEW w \in Worker, pc[w] \in {"routed", "sending"}
    PROVE  job[w].sender # Nobody /\ job[w].sender = pin[To[job[w].email]]
  BY DEF Follows, WorkersFollow

LEMMA Days ==
    ASSUME Follows PROVE today \in Day /\ today \in Nat /\ (pin' = pin => PinsStay)
  BY DEF Follows, Typed, Day, PinsStay

\* A worker's step about its email: what it does to the others is nothing.
LEMMA OneEmail ==
    ASSUME Follows, Books, NEW w \in Worker, OnlyMoves(w), pc[w] # "idle", NEW e \in Email,
           e = job[w].email,
           pc'[w] \in {"sending", "receipted"} => job'[w].email = e,
           pin' = pin, today' = today,
           \A r \in wire' \cup out' : r \in wire \cup out \/ r.email = e,
           \A c \in receipts' : c \in receipts \/ c.email = e,
           receipts \subseteq receipts',
           \A x \in Email : x # e => row'[x] = row[x]
    PROVE  \A x \in Email : x # e => EmailGood(x)'
<1> SUFFICES ASSUME NEW x \in Email, x # e PROVE EmailGood(x)'
  OBVIOUS
<1>1. Requests(x)' \subseteq Requests(x) /\ ReceiptsOf(x)' = ReceiptsOf(x)
  BY DEF Requests, ReceiptsOf
<1>2. today <= today' /\ today' \in Day /\ PinsStay
  BY Days
<1>3. QED BY <1>1, <1>2, OthersRest DEF Books

LEMMA ClaimIsGood ==
    ASSUME Follows, Books, NEW w \in Worker, ClaimSend(w)
    PROVE  /\ \A x \in Email : EmailGood(x)'
           /\ row' \in [Email -> Row]
<1>0. PICK e \in Email : e = job[w].email
  BY Active DEF ClaimSend
<1> DEFINE new == [RequestOf(w) EXCEPT !.day = today]
<1>1. /\ pc[w] = "routed" /\ row[e].status \in {"absent", "failed"}
      /\ row' = [row EXCEPT ![e] = [status |-> "pending", ident |-> job[w].sender,
                                    day |-> today, receipt |-> FALSE]]
      /\ pc' = [pc EXCEPT ![w] = "sending"] /\ job' = [job EXCEPT ![w].day = today]
      /\ wire' = wire \cup {new} /\ UNCHANGED <<pin, receipts, out, today>>
  BY <1>0 DEF ClaimSend
<1>2. /\ job[w] \in Job /\ To[e] \in Person /\ row[e] \in Row /\ EmailGood(e)
      /\ job[w].sender # Nobody /\ job[w].sender = pin[To[e]]
  BY <1>0, <1>1, Active, ActiveSends
<1>3. today \in Day /\ today \in Nat /\ PinsStay
  BY <1>1, Days
<1>4. OnlyMoves(w) /\ pc'[w] = "sending"
  BY <1>1 DEF Follows, Typed, OnlyMoves
<1>5. /\ job'[w].email = e /\ job'[w].sender = job[w].sender /\ job'[w].day = today
      /\ job'[w].first = job[w].first /\ job'[w].slot = job[w].slot
  BY <1>0, <1>1, <1>2 DEF Follows, Typed, Job
<1>6. new = [email |-> e, ident |-> job[w].sender, day |-> today, first |-> job[w].first,
             slot |-> job[w].slot # 0]
  BY <1>0 DEF RequestOf
<1>7. row' \in [Email -> Row]
  BY <1>1, <1>2, <1>3 DEF Books, BooksTyped, Row, Job
<1>8. \A x \in Email : x # e => EmailGood(x)'
  <2>1. \A x \in Email : x # e => row'[x] = row[x]
    BY <1>1 DEF Books, BooksTyped
  <2>2. \A r \in wire' \cup out' : r \in wire \cup out \/ r.email = e
    BY <1>1, <1>6
  <2>3. QED BY <1>0, <1>1, <1>4, <1>5, <2>1, <2>2, OneEmail
<1>9. EmailGood(e)'
  \* nothing of the email was left: its row read absent or failed
  <2>1. Requests(e) = {} /\ Senders(e) = {} /\ Filers(e) = {} /\ ReceiptsOf(e) = {}
    BY <1>1, <1>2 DEF EmailGood, RowCovers, SenderOwns, ReceiptEnds
  <2>2. Requests(e)' = {new}
    BY <1>1, <1>6, <2>1 DEF Requests
  <2>3. Senders(e)' = {w} /\ Filers(e)' = {} /\ ReceiptsOf(e)' = {}
    <3>1. Senders(e)' = Senders(e) \cup {w} /\ Filers(e)' = Filers(e) \ {w}
      BY <1>4, <1>5, WorkersOf
    <3>2. QED BY <1>1, <2>1, <3>1 DEF ReceiptsOf
  <2>4. RequestOf(w)' = new
    BY <1>5, <1>6 DEF RequestOf
  <2>5. row'[e] = [status |-> "pending", ident |-> job[w].sender,
                   day |-> today, receipt |-> FALSE]
    BY <1>1, <1>2 DEF Books, BooksTyped
  <2>6. RowCovers(e)'
    BY <1>1, <1>3, <1>6, <2>2, <2>3, <2>5 DEF RowCovers
  <2>7. SenderOwns(e)'
    BY <2>2, <2>3, <2>4, <2>5 DEF SenderOwns
  <2>8. ReceiptEnds(e)'
    BY <2>3, <2>5 DEF ReceiptEnds
  <2>9. QED BY <2>6, <2>7, <2>8 DEF EmailGood
<1>10. QED BY <1>7, <1>8, <1>9

LEMMA RefusedIsGood ==
    ASSUME Follows, Books, NEW w \in Worker, ClaimRefused(w)
    PROVE  (\A x \in Email : EmailGood(x)') /\ row' \in [Email -> Row]
<1>0. PICK e \in Email : e = job[w].email
  BY Active DEF ClaimRefused
<1>1. /\ pc[w] = "routed" /\ row[e].status \in {"pending", "uncertain"}
      /\ row' \in {row, [row EXCEPT ![e].status = "uncertain"]}
      /\ pc' = [pc EXCEPT ![w] = "idle"] /\ job' = [job EXCEPT ![w] = NoJob]
      /\ UNCHANGED <<pin, receipts, today, wire, out>>
  BY <1>0 DEF ClaimRefused, Done, wireVars
<1>2. row[e] \in Row /\ EmailGood(e) /\ PinsStay
  BY <1>0, <1>1, Active, Days
<1>3. row' \in [Email -> Row] /\ \A x \in Email : x # e => row'[x] = row[x]
  BY <1>1, <1>2 DEF Books, BooksTyped, Row
<1>4. /\ row'[e].status \in {row[e].status, "uncertain"} /\ row'[e].day = row[e].day
      /\ row'[e].ident = row[e].ident /\ row'[e].receipt = row[e].receipt
  BY <1>1, <1>2 DEF Books, BooksTyped, Row
<1>5. OnlyMoves(w) /\ pc'[w] = "idle"
  BY <1>1 DEF Follows, Typed, OnlyMoves
<1>6. /\ Requests(e)' = Requests(e) /\ ReceiptsOf(e)' = ReceiptsOf(e)
      /\ Senders(e)' = Senders(e) /\ Filers(e)' = Filers(e)
      /\ \A v \in Senders(e) : RequestOf(v)' = RequestOf(v)
  <2>1. w \notin Senders(e) /\ w \notin Filers(e)
    BY <1>1 DEF Senders, Filers
  <2>2. Senders(e)' = Senders(e) \ {w} /\ Filers(e)' = Filers(e) \ {w}
    BY <1>5, WorkersOf
  <2>3. \A v \in Senders(e) : job'[v] = job[v]
    BY <1>5, <2>1 DEF Senders, OnlyMoves
  <2>4. Requests(e)' = Requests(e) /\ ReceiptsOf(e)' = ReceiptsOf(e)
    BY <1>1 DEF Requests, ReceiptsOf
  <2>5. QED BY <2>1, <2>2, <2>3, <2>4 DEF RequestOf
<1>7. EmailGood(e)'
  <2>1. RowCovers(e)'
    BY <1>1, <1>2, <1>4, <1>6 DEF EmailGood, RowCovers
  <2>2. SenderOwns(e)'
    BY <1>1, <1>2, <1>4, <1>6 DEF EmailGood, SenderOwns
  <2>3. ReceiptEnds(e)'
    BY <1>1, <1>2, <1>4, <1>6 DEF EmailGood, ReceiptEnds
  <2>4. QED BY <2>1, <2>2, <2>3 DEF EmailGood
<1>8. \A x \in Email : x # e => EmailGood(x)'
  BY <1>0, <1>1, <1>3, <1>5, OneEmail
<1>9. QED BY <1>3, <1>7, <1>8

\* A worker that ends up past its receipt: there is one, of this day or before.
LEMMA FiledIsGood ==
    ASSUME Follows, Books, NEW w \in Worker, NEW e \in Email, e = job[w].email,
           pc[w] \in {"routed", "sending"}, pc'[w] = "receipted", job' = job, OnlyMoves(w),
           pc[w] = "sending" \/ row[e].status = "settled",
           UNCHANGED <<pin, row, today, wire, out>>, NEW new \in Receipt,
           new.email = e, new.ident = job[w].sender, new.day = today,
           \/ receipts' = receipts \cup {new}
           \/ receipts' = receipts /\ ReceiptsOf(e) # {}
    PROVE  (\A x \in Email : EmailGood(x)') /\ receipts' \subseteq Receipt
<1>1. /\ job[w] \in Job /\ row[e] \in Row /\ EmailGood(e) /\ To[e] \in Person
      /\ job[w].sender = pin[To[e]]
  BY Active, ActiveSends
<1>2. today \in Nat
  BY Days
<1>3. receipts' \subseteq Receipt
  BY DEF Books, BooksTyped
<1>4. \A x \in Email : x # e => EmailGood(x)'
  <2>1. \A c \in receipts' : c \in receipts \/ c.email = e
    OBVIOUS
  <2>2. receipts \subseteq receipts'
    OBVIOUS
  <2>3. \A x \in Email : row'[x] = row[x]
    OBVIOUS
  <2>4. wire' = wire /\ out' = out /\ pin' = pin /\ today' = today /\ job'[w].email = e
        /\ pc[w] # "idle"
    OBVIOUS
  <2>5. QED BY <2>1, <2>2, <2>3, <2>4, OneEmail
<1>5. /\ row[e].status \in {"pending", "uncertain", "settled"}
      /\ Senders(e) \subseteq {w}
  BY <1>1 DEF EmailGood, SenderOwns, Senders
<1>6. Senders(e)' = {} /\ w \in Filers(e)' /\ Requests(e)' = Requests(e)
  <2>1. Senders(e)' = Senders(e) \ {w} /\ Filers(e)' = Filers(e) \cup {w}
    BY WorkersOf
  <2>2. QED BY <1>5, <2>1 DEF Requests
<1>7. ReceiptsOf(e)' # {} /\ \A c \in ReceiptsOf(e)' : c \in ReceiptsOf(e) \/ c = new
  BY DEF ReceiptsOf
<1>8. \A c \in ReceiptsOf(e)' :
         c.ident = pin[To[e]] /\ c.day <= today /\ \A r \in Requests(e) : r.day <= c.day
  BY <1>1, <1>2, <1>7 DEF EmailGood, ReceiptEnds, RowCovers
<1>9. RowCovers(e)' /\ SenderOwns(e)'
  BY <1>1, <1>6 DEF EmailGood, RowCovers, SenderOwns
<1>10. ReceiptEnds(e)'
  BY <1>5, <1>6, <1>7, <1>8 DEF ReceiptEnds
<1>11. QED BY <1>3, <1>4, <1>9, <1>10 DEF EmailGood

LEMMA WriteIsGood ==
    ASSUME Follows, Books, NEW w \in Worker, WriteReceipt(w)
    PROVE  (\A x \in Email : EmailGood(x)') /\ receipts' \subseteq Receipt
<1>0. PICK e \in Email : e = job[w].email
  BY Active DEF WriteReceipt
<1> DEFINE new == [email |-> job[w].email, ident |-> job[w].sender, day |-> today,
                   replay |-> FALSE]
<1>1. /\ pc[w] = "sending" /\ pc' = [pc EXCEPT ![w] = "receipted"] /\ job' = job
      /\ receipts' = receipts \cup {new} /\ UNCHANGED <<pin, row, today, wire, out>>
  BY DEF WriteReceipt, wireVars
<1>2. job[w] \in Job /\ job[w].sender # Nobody /\ today \in Day
  BY <1>1, Active, ActiveSends, Days
<1>3. new \in Receipt
  BY <1>2 DEF Receipt, Job
<1>4. OnlyMoves(w) /\ pc'[w] = "receipted"
  BY <1>1 DEF Follows, Typed, OnlyMoves
<1>5. new.email = e /\ new.ident = job[w].sender /\ new.day = today
  BY <1>0
<1> HIDE DEF new
<1>6. QED BY <1>0, <1>1, <1>3, <1>4, <1>5, FiledIsGood

LEMMA ReplayIsGood ==
    ASSUME Follows, Books, NEW w \in Worker, ClaimReplayed(w)
    PROVE  (\A x \in Email : EmailGood(x)') /\ receipts' \subseteq Receipt
<1>0. PICK e \in Email : e = job[w].email
  BY Active DEF ClaimReplayed
<1>1. /\ pc[w] = "routed" /\ row[e].status = "settled"
      /\ UNCHANGED <<pin, row, today, wire, out>>
  BY <1>0 DEF ClaimReplayed, wireVars
<1>2. job[w] \in Job /\ job[w].sender # Nobody /\ today \in Day /\ PinsStay
  BY <1>1, Active, ActiveSends, Days
<1>3. CASE row[e].receipt
  <2>1. pc' = [pc EXCEPT ![w] = "idle"] /\ job' = [job EXCEPT ![w] = NoJob] /\ receipts' = receipts
    BY <1>0, <1>3 DEF ClaimReplayed, Done
  <2>2. OnlyMoves(w) /\ pc'[w] = "idle"
    BY <2>1 DEF Follows, Typed, OnlyMoves
  <2>3. \A x \in Email : EmailGood(x)'
    BY <1>1, <1>2, <2>1, <2>2, ResolvingIsGood
  <2>4. QED BY <2>1, <2>3 DEF Books, BooksTyped
<1>4. CASE ~row[e].receipt
  <2> DEFINE new == [email |-> e, ident |-> job[w].sender, day |-> today, replay |-> TRUE]
  <2>1. /\ pc' = [pc EXCEPT ![w] = "receipted"] /\ job' = job
        /\ \/ receipts' = receipts \cup {new}
           \/ receipts' = receipts /\ \E r \in receipts : r.email = e
    BY <1>0, <1>4 DEF ClaimReplayed
  <2>2. new \in Receipt
    BY <1>2 DEF Receipt, Job
  <2>3. OnlyMoves(w) /\ pc'[w] = "receipted"
    BY <2>1 DEF Follows, Typed, OnlyMoves
  <2>4. new.email = e /\ new.ident = job[w].sender /\ new.day = today
    OBVIOUS
  <2> HIDE DEF new
  <2>5. receipts' = receipts \cup {new} \/ (receipts' = receipts /\ ReceiptsOf(e) # {})
    BY <2>1 DEF ReceiptsOf
  <2>6. QED BY <1>0, <1>1, <2>1, <2>2, <2>3, <2>4, <2>5, FiledIsGood
<1>5. QED BY <1>3, <1>4

\* A worker that is done with its email leaves it settled, failed or uncertain.
LEMMA DoneIsGood ==
    ASSUME Follows, Books, NEW w \in Worker, MarkSettled(w) \/ FailDefinite(w) \/ FailUnknown(w)
    PROVE  (\A x \in Email : EmailGood(x)') /\ row' \in [Email -> Row]
<1>0. PICK e \in Email : e = job[w].email
  BY Active DEF MarkSettled, FailDefinite, FailUnknown
<1>1. /\ pc[w] \in {"sending", "receipted"}
      /\ pc' = [pc EXCEPT ![w] = "idle"] /\ job' = [job EXCEPT ![w] = NoJob]
      /\ UNCHANGED <<pin, receipts, today, out>> /\ wire' \subseteq wire
  BY DEF MarkSettled, FailDefinite, FailUnknown, Done, wireVars
<1>2. row[e] \in Row /\ EmailGood(e) /\ PinsStay
  BY <1>0, <1>1, Active, Days
<1>3. /\ MarkSettled(w) => row' = [row EXCEPT ![e].status = "settled", ![e].receipt = TRUE]
      /\ FailDefinite(w) => row' = [row EXCEPT ![e].status = "failed"]
      /\ FailUnknown(w) => row' = [row EXCEPT ![e].status = "uncertain"]
  BY <1>0 DEF MarkSettled, FailDefinite, FailUnknown
<1>4. row' \in [Email -> Row] /\ \A x \in Email : x # e => row'[x] = row[x]
  BY <1>2, <1>3 DEF Books, BooksTyped, Row
<1>5. /\ row'[e].day = row[e].day /\ row'[e].ident = row[e].ident
      /\ MarkSettled(w) => row'[e].status = "settled" /\ row'[e].receipt
      /\ FailDefinite(w) => row'[e].status = "failed" /\ row'[e].receipt = row[e].receipt
      /\ FailUnknown(w) => row'[e].status = "uncertain" /\ row'[e].receipt = row[e].receipt
  BY <1>2, <1>3 DEF Books, BooksTyped, Row
<1>6. OnlyMoves(w) /\ pc'[w] = "idle"
  BY <1>1 DEF Follows, Typed, OnlyMoves
<1>7. Senders(e)' = Senders(e) \ {w} /\ Filers(e)' = Filers(e) \ {w}
  BY <1>6, WorkersOf
<1>8. Requests(e)' \subseteq Requests(e) /\ ReceiptsOf(e)' = ReceiptsOf(e)
  BY <1>1 DEF Requests, ReceiptsOf
<1>9. \A x \in Email : x # e => EmailGood(x)'
  BY <1>0, <1>1, <1>4, <1>6, OneEmail
<1>10. CASE MarkSettled(w)
  <2>1. w \in Filers(e)
    BY <1>0, <1>10 DEF MarkSettled, Filers
  <2>2. Senders(e) = {} /\ Senders(e)' = {}
    BY <1>2, <1>7, <2>1 DEF EmailGood, SenderOwns
  <2>3. RowCovers(e)'
    BY <1>1, <1>2, <1>5, <1>8, <1>10 DEF EmailGood, RowCovers
  <2>4. SenderOwns(e)'
    BY <2>2 DEF SenderOwns
  <2>5. ReceiptEnds(e)'
    BY <1>1, <1>2, <1>5, <1>8, <1>10, <2>1 DEF EmailGood, ReceiptEnds
  <2>6. QED BY <1>4, <1>9, <2>3, <2>4, <2>5 DEF EmailGood
<1>11. CASE FailDefinite(w) \/ FailUnknown(w)
  <2>1. w \in Senders(e)
    BY <1>0, <1>11 DEF FailDefinite, FailUnknown, Senders
  <2>2. /\ Senders(e) = {w} /\ Filers(e) = {} /\ Senders(e)' = {} /\ Filers(e)' = {}
        /\ ReceiptsOf(e) = {} /\ ~row[e].receipt
        /\ \A r \in Requests(e) : r = RequestOf(w)
    BY <1>2, <1>7, <2>1 DEF EmailGood, SenderOwns, ReceiptEnds
  <2>3. FailDefinite(w) => Requests(e)' = {}
    <3> SUFFICES ASSUME FailDefinite(w) PROVE Requests(e)' = {}
      OBVIOUS
    <3>1. wire' = wire \ {RequestOf(w)} /\ RequestOf(w) \notin out
      BY DEF FailDefinite
    <3>2. RequestOf(w) \notin wire' \cup out'
      BY <1>1, <3>1
    <3>3. \A r \in Requests(e)' : r \in wire' \cup out' /\ r = RequestOf(w)
      BY <1>8, <2>2 DEF Requests
    <3>4. QED BY <3>2, <3>3
  <2>4. RowCovers(e)'
    BY <1>1, <1>2, <1>5, <1>8, <1>11, <2>3 DEF EmailGood, RowCovers
  <2>5. SenderOwns(e)' /\ ReceiptEnds(e)'
    BY <1>5, <1>8, <1>11, <2>2 DEF SenderOwns, ReceiptEnds
  <2>6. QED BY <1>4, <1>9, <2>4, <2>5 DEF EmailGood
<1>12. QED BY <1>10, <1>11

LEMMA SweepIsGood ==
    ASSUME Follows, Books, NEW e \in Email, Sweep(e)
    PROVE  (\A x \in Email : EmailGood(x)') /\ row' \in [Email -> Row]
<1>1. PICK s \in {"failed", "settled"} :
         (s = "failed" => \A r \in out : r.email # e) /\ row' = [row EXCEPT ![e].status = s]
  BY DEF Sweep
<1>2. /\ row[e].status = "uncertain" /\ (\A r \in wire : r.email # e)
      /\ \A w \in Worker : pc[w] \in {"sending", "receipted"} => job[w].email # e
      /\ UNCHANGED <<pin, receipts, today, pc, job, wire, out>>
  BY DEF Sweep, wireVars
<1>3. row[e] \in Row /\ EmailGood(e) /\ PinsStay /\ today \in Nat /\ today \in Day
  BY <1>2, Days DEF Books, BooksTyped
<1>4. row' \in [Email -> Row] /\ \A x \in Email : x # e => row'[x] = row[x]
  BY <1>1, <1>3 DEF Books, BooksTyped, Row
<1>5. /\ row'[e].status = s /\ row'[e].day = row[e].day /\ row'[e].ident = row[e].ident
      /\ row'[e].receipt = row[e].receipt
  BY <1>1, <1>3 DEF Books, BooksTyped, Row
<1>6. \A x \in Email : /\ Requests(x)' = Requests(x) /\ Senders(x)' = Senders(x)
                       /\ Filers(x)' = Filers(x) /\ ReceiptsOf(x)' = ReceiptsOf(x)
                       /\ \A w \in Senders(x) : RequestOf(w)' = RequestOf(w)
  BY <1>2 DEF Requests, Senders, Filers, ReceiptsOf, RequestOf
<1>7. ASSUME NEW x \in Email, x # e PROVE EmailGood(x)'
  <2>1. EmailGood(x) /\ BooksTyped /\ row'[x] = row[x] /\ today <= today' /\ today' \in Day
        /\ Requests(x)' \subseteq Requests(x)
    BY <1>2, <1>3, <1>4, <1>6, <1>7 DEF Books
  <2>2. QED BY <1>3, <1>6, <2>1, EmailRests
<1>8. Senders(e) = {} /\ Filers(e) = {} /\ (s = "failed" => Requests(e) = {})
  BY <1>1, <1>2 DEF Senders, Filers, Requests
<1>9. ReceiptsOf(e) = {} /\ ~row[e].receipt
  BY <1>2, <1>3, <1>8 DEF EmailGood, ReceiptEnds
<1>10. RowCovers(e)'
  BY <1>2, <1>3, <1>5, <1>6, <1>8 DEF EmailGood, RowCovers
<1>11. SenderOwns(e)' /\ ReceiptEnds(e)'
  BY <1>5, <1>6, <1>8, <1>9 DEF SenderOwns, ReceiptEnds
<1>12. QED BY <1>4, <1>7, <1>10, <1>11 DEF EmailGood

\* The network, the clock and the founder.
LEMMA WorldIsGood ==
    ASSUME Follows, Books,
           \/ \E r \in wire : Accept(r) \/ Lose(r)
           \/ \E h \in held : Expire(h)
           \/ \E cfg \in Pools : Configure(cfg)
           \/ Midnight
    PROVE  \A x \in Email : EmailGood(x)'
<1> SUFFICES ASSUME NEW x \in Email PROVE EmailGood(x)'
  OBVIOUS
<1>1. /\ UNCHANGED <<pin, row, receipts, pc, job>>
      /\ wire' \cup out' \subseteq wire \cup out
  BY DEF Accept, Lose, Expire, Configure, Midnight, rowVars, wireVars
<1>2. today <= today' /\ today' \in Day
  BY PoolAssumption DEF Accept, Lose, Expire, Configure, Midnight, Follows, Typed, Day
<1>3. /\ Requests(x)' \subseteq Requests(x) /\ Senders(x)' = Senders(x)
      /\ Filers(x)' = Filers(x) /\ ReceiptsOf(x)' = ReceiptsOf(x)
      /\ \A w \in Senders(x) : RequestOf(w)' = RequestOf(w)
  BY <1>1 DEF Requests, Senders, Filers, ReceiptsOf, RequestOf
<1>4. EmailGood(x) /\ BooksTyped /\ PinsStay /\ row'[x] = row[x]
  BY <1>1 DEF Books, PinsStay
<1>5. QED BY <1>2, <1>3, <1>4, EmailRests

\* What a step adds is finite and typed.
LEMMA TypesStay ==
    ASSUME BooksTyped, NEW r, NEW c, NEW h,
           wire' \subseteq wire \cup {r}, out' \subseteq out \cup {r},
           receipts' \subseteq receipts \cup {c}, held' \subseteq held \cup {h},
           row' \in [Email -> Row], receipts' \subseteq Receipt, held' \subseteq Reservation
    PROVE  BooksTyped'
<1>1. /\ IsFiniteSet(wire \cup {r}) /\ IsFiniteSet(out \cup {r})
      /\ IsFiniteSet(receipts \cup {c}) /\ IsFiniteSet(held \cup {h})
  BY FS_AddElement DEF BooksTyped
<1>2. IsFiniteSet(wire') /\ IsFiniteSet(out') /\ IsFiniteSet(receipts') /\ IsFiniteSet(held')
  BY <1>1, FS_Subset
<1>3. QED BY <1>2 DEF BooksTyped

\* A worker that goes on with its slot, or returns it, leaves the others'.
LEMMA SlotsStay ==
    ASSUME Books, NEW w \in Worker, OnlyMoves(w), pc[w] # "idle", picks' = picks,
           held' \in {held, Without(job[w].slot)},
           \/ pc'[w] \in {"idle", "receipted"}
           \/ pc[w] = "routed" /\ pc'[w] = "sending" /\ held' = held,
           pc'[w] # "idle" => /\ job'[w] \in Job /\ job'[w].slot = job[w].slot
                              /\ job'[w].sender = job[w].sender
    PROVE  SlotsHeld'
<1>1. held' \subseteq held
  BY DEF Without
<1>2. job[w] \in Job /\ job[w].slot <= picks /\ SlotsHeld
  BY DEF Books, SlotsHeld
<1>3. ASSUME NEW v \in Worker, pc'[v] \in {"routed", "sending"}, job'[v].slot # 0
      PROVE  [id |-> job'[v].slot, ident |-> job'[v].sender] \in held'
  <2>1. CASE v = w
    BY <1>2, <1>3, <2>1 DEF SlotsHeld
  <2>2. CASE v # w
    <3>1. /\ pc'[v] = pc[v] /\ job'[v] = job[v]
          /\ [id |-> job[v].slot, ident |-> job[v].sender] \in held
      BY <1>2, <1>3, <2>2 DEF OnlyMoves, SlotsHeld
    <3>2. job[v].slot # job[w].slot
      BY <1>2, <1>3, <2>2, <3>1 DEF SlotsHeld
    <3>3. QED BY <3>1, <3>2 DEF Without
  <2>3. QED BY <2>1, <2>2
<1>4. ASSUME NEW v \in Worker, pc'[v] # "idle"
      PROVE  /\ pc[v] # "idle" /\ job'[v] \in Job /\ job'[v].slot = job[v].slot
             /\ job'[v].slot <= picks' /\ (pc'[v] = "looked" => job'[v].slot = 0)
  <2>1. CASE v = w
    BY <1>2, <1>4, <2>1
  <2>2. CASE v # w
    BY <1>2, <1>4, <2>2 DEF OnlyMoves, SlotsHeld
  <2>3. QED BY <2>1, <2>2
<1>5. ASSUME NEW v \in Worker, NEW u \in Worker \ {v}, pc'[v] # "idle", pc'[u] # "idle",
             job'[v].slot = job'[u].slot
      PROVE  job'[v].slot = 0
  <2>1. pc[v] # "idle" /\ pc[u] # "idle" /\ job'[v].slot = job[v].slot /\ job'[u].slot = job[u].slot
    BY <1>4, <1>5
  <2>2. QED BY <1>2, <1>5, <2>1 DEF SlotsHeld
<1>6. (\A h \in held' : h.id <= picks') /\ \A h, k \in held' : h.id = k.id => h = k
  BY <1>1, <1>2 DEF SlotsHeld
<1>7. QED BY <1>3, <1>4, <1>5, <1>6 DEF SlotsHeld

\* A worker that resolves a sender takes no slot, or a fresh one.
LEMMA SlotsTaken ==
    ASSUME Follows, Books, NEW w \in Worker, OnlyMoves(w), job'[w] \in Job,
           pc'[w] \in {"looked", "routed"},
           \/ job'[w].slot = 0 /\ held' = held /\ picks' = picks
           \/ /\ pc'[w] = "routed" /\ picks' = picks + 1 /\ job'[w].slot = picks'
              /\ held' = held \cup {[id |-> picks', ident |-> job'[w].sender]}
    PROVE  SlotsHeld'
<1>1. picks \in Nat /\ picks' \in Nat /\ picks <= picks' /\ SlotsHeld /\ job'[w].slot <= picks'
  <2>1. picks \in Nat
    BY PoolAssumption DEF Follows, Typed
  <2>2. QED BY <2>1 DEF Books
<1>2. ASSUME NEW v \in Worker, v # w, pc'[v] # "idle"
      PROVE  /\ pc'[v] = pc[v] /\ job'[v] = job[v] /\ job[v] \in Job
             /\ job[v].slot <= picks /\ job[v].slot \in Nat
             /\ job[v].slot = job'[w].slot => job[v].slot = 0
             /\ pc[v] \in {"routed", "sending"} /\ job[v].slot # 0 =>
                   [id |-> job[v].slot, ident |-> job[v].sender] \in held'
  <2>1. /\ pc'[v] = pc[v] /\ job'[v] = job[v] /\ job[v] \in Job /\ job[v].slot <= picks
        /\ pc[v] \in {"routed", "sending"} /\ job[v].slot # 0 =>
              [id |-> job[v].slot, ident |-> job[v].sender] \in held
    BY <1>1, <1>2 DEF OnlyMoves, SlotsHeld
  <2>2. job[v].slot \in Nat
    BY <2>1 DEF Job
  <2>3. QED BY <1>1, <2>1, <2>2
<1>3. /\ \A h \in held' : h.id <= picks'
      /\ \A h, k \in held' : h.id = k.id => h = k
  <2>1. \A h \in held : h.id \in Nat
    BY DEF Books, BooksTyped, Reservation
  <2>2. CASE held' = held
    BY <1>1, <2>1, <2>2 DEF SlotsHeld
  <2>3. CASE /\ picks' = picks + 1
             /\ held' = held \cup {[id |-> picks', ident |-> job'[w].sender]}
    <3>1. \A h \in held : h.id <= picks /\ h.id \in Nat /\ h.id <= picks' /\ h.id # picks'
      BY <1>1, <2>1, <2>3 DEF SlotsHeld
    <3>2. QED BY <1>1, <2>3, <3>1 DEF SlotsHeld
  <2>4. QED BY <2>2, <2>3
<1>4. job'[w].slot # 0 => /\ [id |-> job'[w].slot, ident |-> job'[w].sender] \in held'
                          /\ pc'[w] = "routed"
  OBVIOUS
<1>5. ASSUME NEW v \in Worker
      PROVE  /\ pc'[v] # "idle" => job'[v] \in Job /\ job'[v].slot <= picks'
             /\ pc'[v] = "looked" => job'[v].slot = 0
             /\ pc'[v] \in {"routed", "sending"} /\ job'[v].slot # 0 =>
                   [id |-> job'[v].slot, ident |-> job'[v].sender] \in held'
  <2>1. CASE v = w
    BY <1>1, <1>4, <2>1
  <2>2. CASE v # w
    <3>1. pc'[v] # "idle" => /\ job'[v] \in Job /\ job'[v].slot <= picks'
                             /\ pc'[v] = pc[v] /\ job'[v] = job[v]
      <4> SUFFICES ASSUME pc'[v] # "idle"
                   PROVE  /\ job'[v] \in Job /\ job'[v].slot <= picks'
                          /\ pc'[v] = pc[v] /\ job'[v] = job[v]
        OBVIOUS
      <4>1. /\ pc'[v] = pc[v] /\ job'[v] = job[v] /\ job[v] \in Job
            /\ job[v].slot <= picks /\ job[v].slot \in Nat
        BY <1>2, <2>2
      <4>2. job[v].slot <= picks'
        BY <1>1, <4>1
      <4>3. QED BY <4>1, <4>2
    <3>2. pc'[v] = "looked" => job'[v].slot = 0
      BY <1>1, <3>1 DEF SlotsHeld
    <3>3. pc'[v] \in {"routed", "sending"} /\ job'[v].slot # 0 =>
             [id |-> job'[v].slot, ident |-> job'[v].sender] \in held'
      BY <1>2, <2>2, <3>1
    <3>4. QED BY <3>1, <3>2, <3>3
  <2>3. QED BY <2>1, <2>2
<1>6. ASSUME NEW v \in Worker, NEW u \in Worker \ {v}, pc'[v] # "idle", pc'[u] # "idle",
             job'[v].slot = job'[u].slot
      PROVE  job'[v].slot = 0
  <2>1. CASE v # w /\ u # w
    <3>1. pc[v] # "idle" /\ pc[u] # "idle" /\ job'[v] = job[v] /\ job'[u] = job[u]
      BY <1>2, <1>6, <2>1
    <3>2. QED BY <1>1, <1>6, <3>1 DEF SlotsHeld
  <2>2. CASE v = w \/ u = w
    BY <1>2, <1>6, <2>2
  <2>3. QED BY <2>1, <2>2
<1>7. QED BY <1>3, <1>5, <1>6 DEF SlotsHeld

\* The steps that resolve a sender.
LEMMA ResolveBooks ==
    ASSUME Follows, Follows', Books, NEW w \in Worker,
           (\E e \in Email : Look(w, e)) \/ LazyPin(w) \/ Pick(w)
    PROVE  Books'
<1>1. /\ UNCHANGED <<row, receipts, today, wire, out>>
      /\ pc[w] \notin {"sending", "receipted"} /\ pc'[w] \in {"looked", "routed"}
  BY DEF Look, LazyPin, Pick, Resolve, rowVars, wireVars, Follows, Typed
<1>2. OnlyMoves(w)
  BY DEF Look, LazyPin, Pick, Resolve, Follows, Typed, OnlyMoves
<1>3. PinsStay
  BY PoolAssumption DEF Look, LazyPin, Pick, PinsStay, Assigned, Follows, Typed
<1>4. job'[w] \in Job
  BY <1>1 DEF Follows, SameSetup, WorkersFollow
<1>5. ASSUME (\E e \in Email : Look(w, e)) \/ LazyPin(w)
      PROVE  job'[w].slot = 0 /\ held' = held /\ picks' = picks
  <2>1. CASE \E e \in Email : Look(w, e)
    BY <2>1 DEF Look, Follows, Typed
  <2>2. CASE LazyPin(w)
    <3>1. pc[w] = "looked" /\ job[w] \in Job /\ held' = held /\ picks' = picks
      BY <2>2 DEF LazyPin, Follows, SameSetup
    <3>2. job'[w].slot = 0
      BY <2>2, <3>1 DEF LazyPin, Resolve, Follows, Typed, Job
    <3>3. QED BY <3>1, <3>2
  <2>3. QED BY <1>5, <2>1, <2>2
<1>6. ASSUME Pick(w)
      PROVE  \/ job'[w].slot = 0 /\ held' = held /\ picks' = picks
             \/ /\ pc'[w] = "routed" /\ picks' = picks + 1 /\ job'[w].slot = picks'
                /\ held' = held \cup {[id |-> picks', ident |-> job'[w].sender]}
  <2>1. PICK i \in Candidates(job[w].cfg) :
           LET winner == Assigned(To[job[w].email], i)
               reserves == winner = i /\ CappedGroup(job[w].cfg, GroupOf[i])
           IN  /\ picks' = IF reserves THEN picks + 1 ELSE picks
               /\ held' = IF reserves THEN held \cup {[id |-> picks', ident |-> i]} ELSE held
               /\ Resolve(w, Listed(job[w].cfg, winner, i), IF reserves THEN picks' ELSE 0)
    BY <1>6 DEF Pick
  <2>2. pc[w] = "looked" /\ job[w] \in Job /\ i \in job[w].cfg
    BY <1>6, CandidatesListed DEF Pick, Follows, SameSetup
  <2>3. CASE Assigned(To[job[w].email], i) = i /\ CappedGroup(job[w].cfg, GroupOf[i])
    <3>1. /\ picks' = picks + 1 /\ held' = held \cup {[id |-> picks', ident |-> i]}
          /\ Resolve(w, i, picks')
      BY <2>1, <2>2, <2>3 DEF Listed
    <3>2. pc'[w] = "routed" /\ job'[w].slot = picks' /\ job'[w].sender = i
      BY <2>2, <3>1 DEF Resolve, Follows, Typed, Job
    <3>3. QED BY <3>1, <3>2
  <2>4. CASE ~(Assigned(To[job[w].email], i) = i /\ CappedGroup(job[w].cfg, GroupOf[i]))
    <3>1. picks' = picks /\ held' = held
      BY <2>1, <2>4
    <3>2. job' = [job EXCEPT ![w].sender = Listed(job[w].cfg, Assigned(To[job[w].email], i), i),
                             ![w].slot = 0]
      BY <2>1, <2>4 DEF Resolve
    <3>3. job'[w].slot = 0
      BY <2>2, <3>2 DEF Follows, Typed, Job
    <3>4. QED BY <3>1, <3>3
  <2>5. QED BY <2>3, <2>4
<1>7. SlotsHeld'
  BY <1>1, <1>2, <1>4, <1>5, <1>6, SlotsTaken
<1>8. BooksTyped'
  <2>1. picks' \in 0 .. MaxPicks /\ picks \in 0 .. MaxPicks /\ MaxPicks \in Nat
    BY PoolAssumption DEF Follows, Typed
  <2>2. held' \subseteq Reservation
    <3>1. CASE held' = held
      BY <3>1 DEF Books, BooksTyped
    <3>2. CASE /\ pc'[w] = "routed" /\ picks' = picks + 1
               /\ held' = held \cup {[id |-> picks', ident |-> job'[w].sender]}
      <4>1. job'[w].sender \in Identity
        BY <1>4, <3>2 DEF Follows, WorkersFollow, Job
      <4>2. picks' \in 1 .. MaxPicks
        BY <2>1, <3>2
      <4>3. QED BY <3>2, <4>1, <4>2 DEF Books, BooksTyped, Reservation
    <3>3. QED BY <1>5, <1>6, <3>1, <3>2
  <2>3. held' \subseteq held \cup {[id |-> picks', ident |-> job'[w].sender]}
    BY <1>5, <1>6
  <2>4. row' \in [Email -> Row] /\ receipts' \subseteq Receipt /\ BooksTyped
    BY <1>1 DEF Books, BooksTyped
  <2>5. wire' \subseteq wire \cup {0} /\ out' \subseteq out \cup {0}
        /\ receipts' \subseteq receipts \cup {0}
    BY <1>1
  <2>6. QED BY <2>2, <2>3, <2>4, <2>5, TypesStay
<1>9. \A x \in Email : EmailGood(x)'
  BY <1>1, <1>2, <1>3, ResolvingIsGood
<1>10. QED BY <1>7, <1>8, <1>9 DEF Books

\* The steps of a send: what each does to the slots and to the sets.
LEMMA SendBooks ==
    ASSUME Follows, Follows', Books, NEW w \in Worker,
           \/ Defer(w) \/ ClaimSend(w) \/ ClaimRefused(w) \/ ClaimReplayed(w) \/ WriteReceipt(w)
           \/ MarkSettled(w) \/ FailDefinite(w) \/ FailUnknown(w)
    PROVE  Books'
<1>1. OnlyMoves(w) /\ pc[w] # "idle" /\ picks' = picks
  BY DEF Defer, ClaimSend, ClaimRefused, ClaimReplayed, WriteReceipt, MarkSettled, FailDefinite,
         FailUnknown, Done, Follows, Typed, OnlyMoves
<1>2. job[w] \in Job
  BY <1>1, Active
<1>3. held' \in {held, Without(job[w].slot)}
  BY DEF Defer, ClaimSend, ClaimRefused, ClaimReplayed, WriteReceipt, MarkSettled, FailDefinite,
         FailUnknown, Done
<1>4. \/ pc'[w] \in {"idle", "receipted"}
      \/ pc[w] = "routed" /\ pc'[w] = "sending" /\ held' = held
  BY DEF Defer, ClaimSend, ClaimRefused, ClaimReplayed, WriteReceipt, MarkSettled, FailDefinite,
         FailUnknown, Done, Follows, Typed
<1>5. pc'[w] # "idle" => /\ job'[w] \in Job /\ job'[w].slot = job[w].slot
                         /\ job'[w].sender = job[w].sender
  <2>1. CASE ClaimSend(w)
    BY <1>2, <2>1 DEF ClaimSend, Follows, Typed, Job
  <2>2. CASE ~ClaimSend(w)
    BY <1>2, <2>2 DEF Defer, ClaimRefused, ClaimReplayed, WriteReceipt, MarkSettled, FailDefinite,
                      FailUnknown, Done, Follows, Typed
  <2>3. QED BY <2>1, <2>2
<1>6. SlotsHeld'
  BY <1>1, <1>3, <1>4, <1>5, SlotsStay
<1>7. (\A x \in Email : EmailGood(x)') /\ row' \in [Email -> Row] /\ receipts' \subseteq Receipt
  <2>1. CASE Defer(w)
    <3>1. /\ UNCHANGED <<pin, row, receipts, today, wire, out>>
          /\ pc[w] \notin {"sending", "receipted"} /\ pc'[w] \notin {"sending", "receipted"}
      BY <2>1 DEF Defer, Done, rowVars, wireVars, Follows, Typed
    <3>2. PinsStay
      BY <3>1, Days
    <3>3. QED BY <1>1, <3>1, <3>2, ResolvingIsGood DEF Books, BooksTyped
  <2>2. CASE ClaimSend(w)
    BY <2>2, ClaimIsGood DEF ClaimSend, Books, BooksTyped
  <2>3. CASE ClaimRefused(w)
    BY <2>3, RefusedIsGood DEF ClaimRefused, Books, BooksTyped
  <2>4. CASE ClaimReplayed(w)
    BY <2>4, ReplayIsGood DEF ClaimReplayed, Books, BooksTyped
  <2>5. CASE WriteReceipt(w)
    BY <2>5, WriteIsGood DEF WriteReceipt, Books, BooksTyped
  <2>6. CASE MarkSettled(w) \/ FailDefinite(w) \/ FailUnknown(w)
    BY <2>6, DoneIsGood DEF MarkSettled, FailDefinite, FailUnknown, Books, BooksTyped
  <2>7. QED BY <2>1, <2>2, <2>3, <2>4, <2>5, <2>6
<1>8. BooksTyped'
  <2>1. \E r : wire' \subseteq wire \cup {r} /\ out' \subseteq out \cup {r}
    BY DEF Defer, ClaimSend, ClaimRefused, ClaimReplayed, WriteReceipt, MarkSettled, FailDefinite,
           FailUnknown, wireVars
  <2>2. \E c : receipts' \subseteq receipts \cup {c}
    BY DEF Defer, ClaimSend, ClaimRefused, ClaimReplayed, WriteReceipt, MarkSettled, FailDefinite,
           FailUnknown, rowVars
  <2>3. held' \subseteq held \cup {0} /\ held' \subseteq Reservation
    BY <1>3 DEF Without, Books, BooksTyped
  <2>4. QED BY <1>7, <2>1, <2>2, <2>3, TypesStay DEF Books
<1>9. QED BY <1>6, <1>7, <1>8 DEF Books

LEMMA WorldBooks ==
    ASSUME CallsEnd, Follows, Books,
           \/ \E r \in wire : Accept(r) \/ Lose(r)
           \/ \E h \in held : Expire(h)
           \/ \E cfg \in Pools : Configure(cfg)
           \/ \E e \in Email : Sweep(e)
           \/ Midnight \/ UNCHANGED vars
    PROVE  Books'
<1>1. /\ UNCHANGED <<receipts, picks, pc, job>> /\ held' \subseteq held
      /\ \E r : wire' \subseteq wire \cup {r} /\ out' \subseteq out \cup {r}
  BY DEF Accept, Lose, Expire, Configure, Sweep, Midnight, rowVars, wireVars, vars
<1>2. \A w \in Worker : pc[w] # "idle" =>
         \A h \in held : h.id = job[w].slot => h \in held'
  BY DEF CallsEnd, Accept, Lose, Expire, Configure, Sweep, Midnight, vars
<1>3. SlotsHeld'
  BY <1>1, <1>2 DEF Books, SlotsHeld
<1>4. (\A x \in Email : EmailGood(x)') /\ row' \in [Email -> Row]
  <2>1. CASE \E e \in Email : Sweep(e)
    BY <2>1, SweepIsGood
  <2>2. CASE UNCHANGED vars
    BY <2>2 DEF vars, Books, BooksTyped, EmailGood, RowCovers, SenderOwns, ReceiptEnds,
                Requests, Senders, Filers, ReceiptsOf, RequestOf
  <2>3. CASE \/ \E r \in wire : Accept(r) \/ Lose(r)
             \/ \E h \in held : Expire(h)
             \/ \E cfg \in Pools : Configure(cfg)
             \/ Midnight
    <3>1. row' = row
      BY <2>3 DEF Accept, Lose, Expire, Configure, Midnight, rowVars
    <3>2. QED BY <2>3, <3>1, WorldIsGood DEF Books, BooksTyped
  <2>4. QED BY <2>1, <2>2, <2>3
<1>5. BooksTyped'
  <2>1. receipts' \subseteq receipts \cup {0} /\ held' \subseteq held \cup {0}
        /\ receipts' \subseteq Receipt /\ held' \subseteq Reservation
    BY <1>1 DEF Books, BooksTyped
  <2>2. QED BY <1>1, <1>4, <2>1, TypesStay DEF Books
<1>6. QED BY <1>3, <1>4, <1>5 DEF Books

LEMMA NextBooks ==
    ASSUME QuietSetup, CallsEnd, Follows, Books, [Next]_vars PROVE Follows' /\ Books'
<1>1. Follows'
  BY NextFollows
<1>2. ASSUME NEW w \in Worker, Send(w) PROVE Books'
  BY <1>1, <1>2, ResolveBooks, SendBooks DEF Send
<1>3. ASSUME NEW w \in Worker PROVE ~Crash(w)
  BY DEF CallsEnd, Crash
<1>4. QED BY <1>1, <1>2, <1>3, WorldBooks DEF Next

-----------------------------------------------------------------------------
(* What Used adds up: the sum over a group's identities is the number of   *)
(* the group's receipts and rows.                                          *)

\* The recursion behind the sum: an element is taken out of the set until none
\* is left.  Sums is the function of subsets it computes.
One(T) == CHOOSE i \in T : TRUE

Sums(S, g) ==
    g = [T \in SUBSET S |-> IF T = {} THEN 0
                            ELSE SentToday(CHOOSE i \in T : TRUE)
                                 + g[T \ {CHOOSE i \in T : TRUE}]]

SumOf(S) == CHOOSE g : Sums(S, g)

LEMMA SentIsSum == ASSUME NEW S PROVE MapThenSumSet(SentToday, S) = SumOf(S)[S]
  BY DEF MapThenSumSet, MapThenFoldSet, SumOf, Sums

\* What holds of a set when it holds of its strict subsets holds of them all.
LEMMA SubsetInduction ==
    ASSUME NEW S, IsFiniteSet(S), NEW Fine,
           \A T \in SUBSET S : (\A U \in SUBSET T : U # T => U \in Fine) => T \in Fine
    PROVE  \A T \in SUBSET S : T \in Fine
<1> DEFINE R == StrictSubsetOrdering(S)
           Bad == (SUBSET S) \ Fine
<1>1. IsWellFoundedOn(R, SUBSET S)
  BY FS_StrictSubsetOrderingWellFounded, FS_FiniteSubsetsOfFinite
<1>2. SUFFICES ASSUME Bad # {} PROVE FALSE
  OBVIOUS
<1> HIDE DEF R
<1>3. PICK T \in Bad : \A U \in Bad : ~(<<U, T>> \in R)
  <2>1. Bad \subseteq SUBSET S
    OBVIOUS
  <2> HIDE DEF Bad
  <2>2. QED BY <1>1, <1>2, <2>1, WFMin
<1>4. ASSUME NEW U \in SUBSET T, U # T PROVE U \in Fine
  BY <1>3, <1>4 DEF R, StrictSubsetOrdering
<1>5. QED BY <1>3, <1>4

LEMMA SumsAt ==
    ASSUME NEW S, NEW g, Sums(S, g), NEW T \in SUBSET S
    PROVE  g[T] = IF T = {} THEN 0 ELSE SentToday(One(T)) + g[T \ {One(T)}]
  BY DEF Sums, One

LEMMA OneIn == ASSUME NEW T, T # {} PROVE One(T) \in T
  BY DEF One

\* Two such functions agree where both are defined.
LEMMA SumsAgree ==
    ASSUME NEW A, NEW B, NEW g, NEW h, Sums(A, g), Sums(B, h),
           IsFiniteSet(A), NEW T \in SUBSET A, T \in SUBSET B
    PROVE  g[T] = h[T]
<1> DEFINE Fine == {U \in SUBSET T : g[U] = h[U]}
<1>1. IsFiniteSet(T)
  BY FS_Subset
<1>2. ASSUME NEW U \in SUBSET T, \A V \in SUBSET U : V # U => V \in Fine PROVE U \in Fine
  <2>1. U \in SUBSET A /\ U \in SUBSET B
    OBVIOUS
  <2>2. CASE U = {}
    BY <2>1, <2>2, SumsAt
  <2>3. CASE U # {}
    <3>1. g[U \ {One(U)}] = h[U \ {One(U)}]
      BY <1>2, <2>3, OneIn
    <3>2. QED BY <2>1, <2>3, <3>1, SumsAt
  <2>4. QED BY <2>2, <2>3
<1> HIDE DEF Fine
<1>3. T \in Fine
  BY <1>1, <1>2, SubsetInduction
<1>4. QED BY <1>3 DEF Fine

LEMMA SumsExist ==
    ASSUME NEW S, IsFiniteSet(S) PROVE Sums(S, SumOf(S))
<1> DEFINE Fine == {T \in SUBSET S : \E g : Sums(T, g)}
<1>1. ASSUME NEW T \in SUBSET S, \A U \in SUBSET T : U # T => U \in Fine
      PROVE  T \in Fine
  <2> DEFINE g == [U \in SUBSET T |-> IF U = {} THEN 0
                                     ELSE SentToday(One(U)) + SumOf(U \ {One(U)})[U \ {One(U)}]]
  <2>1. ASSUME NEW U \in SUBSET T, U # T PROVE Sums(U, SumOf(U))
    <3>1. \E h : Sums(U, h)
      BY <1>1, <2>1
    <3>2. QED BY <3>1 DEF SumOf
  <2>2. ASSUME NEW U \in SUBSET T, U # T PROVE SumOf(U)[U] = g[U]
    <3>1. CASE U = {}
      BY <2>1, <2>2, <3>1, SumsAt
    <3>2. CASE U # {}
      <4> DEFINE V == U \ {One(U)}
      <4>1. V \in SUBSET U /\ V \in SUBSET T /\ V # T /\ V # U
        BY <2>2, <3>2, OneIn
      <4>2. IsFiniteSet(U)
        BY FS_Subset
      <4>3. SumOf(U)[V] = SumOf(V)[V]
        BY <2>1, <2>2, <4>1, <4>2, SumsAgree
      <4>4. SumOf(U)[U] = SentToday(One(U)) + SumOf(U)[V]
        BY <2>1, <2>2, <3>2, SumsAt
      <4>5. QED BY <3>2, <4>3, <4>4
    <3>3. QED BY <3>1, <3>2
  <2>3. ASSUME NEW U \in SUBSET T, U # {}
        PROVE  g[U] = SentToday(One(U)) + g[U \ {One(U)}]
    <3>1. U \ {One(U)} \in SUBSET T /\ U \ {One(U)} # T
      BY <2>3, OneIn
    <3>2. QED BY <2>2, <2>3, <3>1
  <2>4. Sums(T, g)
    <3>1. \A U \in SUBSET T :
             (IF U = {} THEN 0 ELSE SentToday(One(U)) + SumOf(U \ {One(U)})[U \ {One(U)}])
             = (IF U = {} THEN 0 ELSE SentToday(One(U)) + g[U \ {One(U)}])
      BY <2>3
    <3>2. g = [U \in SUBSET T |-> IF U = {} THEN 0 ELSE SentToday(One(U)) + g[U \ {One(U)}]]
      BY <3>1
    <3> HIDE DEF g
    <3>3. QED BY <3>2 DEF Sums, One
  <2>5. QED BY <2>4
<1> HIDE DEF Fine
<1>2. S \in Fine
  BY <1>1, SubsetInduction
<1>3. \E g : Sums(S, g)
  BY <1>2 DEF Fine
<1>4. QED BY <1>3 DEF SumOf

\* One summand is taken out.
LEMMA SentTakesOne ==
    ASSUME NEW S, IsFiniteSet(S)
    PROVE  /\ MapThenSumSet(SentToday, {}) = 0
           /\ S # {} => MapThenSumSet(SentToday, S)
                        = SentToday(One(S)) + MapThenSumSet(SentToday, S \ {One(S)})
<1>1. MapThenSumSet(SentToday, {}) = 0
  BY SumsExist, FS_EmptySet, SumsAt, SentIsSum
<1>2. ASSUME S # {}
      PROVE  MapThenSumSet(SentToday, S)
             = SentToday(One(S)) + MapThenSumSet(SentToday, S \ {One(S)})
  <2> DEFINE V == S \ {One(S)}
  <2>1. IsFiniteSet(V) /\ V \in SUBSET S
    BY FS_Subset
  <2>2. Sums(S, SumOf(S)) /\ Sums(V, SumOf(V))
    BY <2>1, SumsExist
  <2>3. SumOf(S)[V] = SumOf(V)[V]
    BY <2>1, <2>2, SumsAgree
  <2>4. SumOf(S)[S] = SentToday(One(S)) + SumOf(S)[V]
    BY <1>2, <2>2, SumsAt
  <2>5. QED BY <2>3, <2>4, SentIsSum
<1>3. QED BY <1>1, <1>2

\* The receipts and the rows without one that SentToday counts, over a set.
ReceiptsToday(S) == {c \in receipts : c.ident \in S /\ c.day = today}

UnfiledToday(S) ==
    {e \in Email : /\ row[e].ident \in S /\ row[e].day = today
                   /\ row[e].status \in {"uncertain", "settled"} /\ ~row[e].receipt}

\* Apart are counted apart.
LEMMA Apart ==
    ASSUME NEW A, NEW B, IsFiniteSet(A), IsFiniteSet(B), A \cap B = {}
    PROVE  Cardinality(A \cup B) = Cardinality(A) + Cardinality(B)
<1>1. Cardinality(A) \in Nat /\ Cardinality(B) \in Nat /\ Cardinality({}) = 0
  BY FS_CardinalityType, FS_EmptySet
<1>2. Cardinality(A \cup B) = Cardinality(A) + Cardinality(B) - Cardinality(A \cap B)
  BY FS_Union
<1>3. Cardinality(A \cap B) = 0
  BY <1>1
<1>4. QED BY <1>1, <1>2, <1>3

LEMMA SentIsCounted ==
    ASSUME PoolAssumption, BooksTyped, NEW S \in SUBSET Identity
    PROVE  MapThenSumSet(SentToday, S)
           = Cardinality(ReceiptsToday(S)) + Cardinality(UnfiledToday(S))
<1> DEFINE Count(T) == Cardinality(ReceiptsToday(T)) + Cardinality(UnfiledToday(T))
           Fine == {T \in SUBSET S : MapThenSumSet(SentToday, T) = Count(T)}
<1>1. IsFiniteSet(S)
  BY FS_Subset, PoolAssumption
<1>2. \A T : /\ IsFiniteSet(ReceiptsToday(T)) /\ IsFiniteSet(UnfiledToday(T))
             /\ Cardinality(ReceiptsToday(T)) \in Nat /\ Cardinality(UnfiledToday(T)) \in Nat
  <2> TAKE T
  <2>1. ReceiptsToday(T) \in SUBSET receipts /\ UnfiledToday(T) \in SUBSET Email
    BY DEF ReceiptsToday, UnfiledToday
  <2>2. IsFiniteSet(ReceiptsToday(T)) /\ IsFiniteSet(UnfiledToday(T))
    BY <2>1, FS_Subset, PoolAssumption DEF BooksTyped
  <2>3. QED BY <2>2, FS_CardinalityType
<1>3. ASSUME NEW i PROVE SentToday(i) = Count({i})
  <2>1. /\ ReceiptsToday({i}) = {r \in receipts : r.ident = i /\ r.day = today}
        /\ UnfiledToday({i}) = {e \in Email : /\ row[e].ident = i /\ row[e].day = today
                                              /\ row[e].status \in {"uncertain", "settled"}
                                              /\ ~row[e].receipt}
    BY DEF ReceiptsToday, UnfiledToday
  <2>2. QED BY <2>1 DEF SentToday
<1>4. ASSUME NEW T, NEW i \in T PROVE Count(T) = Count({i}) + Count(T \ {i})
  <2>1. /\ ReceiptsToday(T) = ReceiptsToday({i}) \cup ReceiptsToday(T \ {i})
        /\ ReceiptsToday({i}) \cap ReceiptsToday(T \ {i}) = {}
        /\ UnfiledToday(T) = UnfiledToday({i}) \cup UnfiledToday(T \ {i})
        /\ UnfiledToday({i}) \cap UnfiledToday(T \ {i}) = {}
    BY DEF ReceiptsToday, UnfiledToday
  <2>2. /\ Cardinality(ReceiptsToday(T))
           = Cardinality(ReceiptsToday({i})) + Cardinality(ReceiptsToday(T \ {i}))
        /\ Cardinality(UnfiledToday(T))
           = Cardinality(UnfiledToday({i})) + Cardinality(UnfiledToday(T \ {i}))
    BY <1>2, <2>1, Apart
  <2>3. QED BY <1>2, <2>2
<1>5. ASSUME NEW T \in SUBSET S, \A U \in SUBSET T : U # T => U \in Fine PROVE T \in Fine
  <2>1. IsFiniteSet(T)
    BY <1>1, FS_Subset
  <2>2. CASE T = {}
    <3>1. ReceiptsToday(T) = {} /\ UnfiledToday(T) = {}
      BY <2>2 DEF ReceiptsToday, UnfiledToday
    <3>2. Count(T) = 0
      BY <3>1, FS_EmptySet
    <3>3. MapThenSumSet(SentToday, T) = 0
      BY <2>1, <2>2, SentTakesOne
    <3>4. QED BY <3>2, <3>3
  <2>3. CASE T # {}
    <3> DEFINE i == One(T)
    <3>1. i \in T
      BY <2>3, OneIn
    <3>2. MapThenSumSet(SentToday, T) = SentToday(i) + MapThenSumSet(SentToday, T \ {i})
      BY <2>1, <2>3, SentTakesOne
    <3> HIDE DEF i
    <3>3. MapThenSumSet(SentToday, T \ {i}) = Count(T \ {i})
      BY <1>5, <3>1
    <3>4. SentToday(i) = Count({i}) /\ Count(T) = Count({i}) + Count(T \ {i})
      BY <1>3, <1>4, <3>1
    <3> HIDE DEF Count
    <3>5. MapThenSumSet(SentToday, T) = Count(T)
      BY <3>2, <3>3, <3>4
    <3>6. QED BY <3>5
  <2>4. QED BY <2>2, <2>3
<1> HIDE DEF Fine
<1>6. S \in Fine
  BY <1>1, <1>5, SubsetInduction
<1>7. QED BY <1>6 DEF Fine

\* The emails a reservation was taken for, on their way or out, and the workers
\* about to send one.
Slotted(g, d) == {r \in wire \cup out : r.slot /\ GroupOf[r.ident] = g /\ r.day = d}

Waiting(g) ==
    {w \in Worker : pc[w] = "routed" /\ job[w].slot # 0 /\ GroupOf[job[w].sender] = g}

\* Whose members have each their own in T are no more than T.
LEMMA Matched ==
    ASSUME NEW S, NEW T, IsFiniteSet(T), NEW R,
           \A x \in S : \E y \in T : <<x, y>> \in R,
           \A x, z \in S, y \in T : <<x, y>> \in R /\ <<z, y>> \in R => x = z
    PROVE  IsFiniteSet(S) /\ Cardinality(S) <= Cardinality(T)
<1> DEFINE f == [x \in S |-> CHOOSE y \in T : <<x, y>> \in R]
<1>1. \A x \in S : f[x] \in T /\ <<x, f[x]>> \in R
  OBVIOUS
<1>2. f \in [S -> T] /\ DOMAIN f = S
  BY <1>1
<1> HIDE DEF f
<1>3. \A a, b \in DOMAIN f : f[a] = f[b] => a = b
  BY <1>1, <1>2
<1>4. f \in Injection(S, T)
  BY <1>2, <1>3 DEF Injection, IsInjective
<1>5. QED BY <1>4, FS_Injection

LEMMA CountedIsUsed ==
    ASSUME Follows, Books, NEW g
    PROVE  /\ IsFiniteSet(Slotted(g, today)) /\ IsFiniteSet(Waiting(g))
           /\ Cardinality(Slotted(g, today)) + Cardinality(Waiting(g)) <= Used(Identity, g)
<1> DEFINE S == Slotted(g, today)
           M == Members(Identity, g)
           A == {r \in S : ReceiptsOf(r.email) # {}}
           B == {r \in S : ReceiptsOf(r.email) = {} /\ row[r.email].status # "pending"}
           C == {r \in S : ReceiptsOf(r.email) = {} /\ row[r.email].status = "pending"}
           H == {h \in held : GroupOf[h.ident] = g}
           HS == {h \in H : \E w \in Worker : pc[w] = "sending" /\ job[w].slot = h.id}
           HW == {h \in H : \E w \in Worker : pc[w] = "routed" /\ job[w].slot = h.id}
<1>1. ASSUME NEW r \in S
      PROVE  /\ r \in wire \cup out /\ r \in Request /\ r.email \in Email /\ r \in Requests(r.email)
             /\ EmailGood(r.email) /\ r.slot /\ GroupOf[r.ident] = g /\ r.day = today
             /\ r.ident = pin[To[r.email]] /\ r.ident \in M
  <2>1. r \in wire \cup out /\ r.slot /\ GroupOf[r.ident] = g /\ r.day = today
    BY DEF Slotted
  <2>2. r \in Request /\ r.ident = pin[To[r.email]]
    BY <2>1 DEF Follows, Typed, RequestsFollow
  <2>3. r.email \in Email /\ r.ident \in Identity
    BY <2>2 DEF Request
  <2>4. QED BY <2>1, <2>2, <2>3 DEF Members, Requests, Books
<1>2. \A r, s \in S : r.email = s.email => r = s
  BY <1>1 DEF EmailGood, RowCovers
<1>3. /\ IsFiniteSet(S) /\ IsFiniteSet(A) /\ IsFiniteSet(B) /\ IsFiniteSet(C)
      /\ IsFiniteSet(ReceiptsToday(M)) /\ IsFiniteSet(UnfiledToday(M))
      /\ IsFiniteSet(H) /\ IsFiniteSet(HS) /\ IsFiniteSet(HW) /\ IsFiniteSet(Waiting(g))
  <2>1. IsFiniteSet(wire \cup out)
    BY FS_Union DEF Books, BooksTyped
  <2>2. S \in SUBSET (wire \cup out) /\ A \in SUBSET (wire \cup out)
        /\ B \in SUBSET (wire \cup out) /\ C \in SUBSET (wire \cup out)
    BY DEF Slotted
  <2>3. ReceiptsToday(M) \in SUBSET receipts /\ UnfiledToday(M) \in SUBSET Email
        /\ Waiting(g) \in SUBSET Worker
    BY DEF ReceiptsToday, UnfiledToday, Waiting
  <2>4. H \in SUBSET held /\ HS \in SUBSET held /\ HW \in SUBSET held
    OBVIOUS
  <2> HIDE DEF S, A, B, C, H, HS, HW, M
  <2>5. /\ IsFiniteSet(wire \cup out) /\ IsFiniteSet(receipts) /\ IsFiniteSet(Email)
        /\ IsFiniteSet(Worker) /\ IsFiniteSet(held)
    BY <2>1, PoolAssumption DEF Books, BooksTyped
  <2>6. QED BY <2>2, <2>3, <2>4, <2>5, FS_Subset
<1>4. Cardinality(A) <= Cardinality(ReceiptsToday(M))
  <2> DEFINE R == {p \in A \X ReceiptsToday(M) : p[2].email = p[1].email}
  <2>1. ASSUME NEW r \in A PROVE \E c \in ReceiptsToday(M) : <<r, c>> \in R
    <3>1. PICK c : c \in ReceiptsOf(r.email)
      OBVIOUS
    <3>2. /\ c \in receipts /\ c.email = r.email /\ c.ident = pin[To[r.email]]
          /\ c.day <= today /\ r.day <= c.day /\ c.day \in Nat
      BY <1>1, <3>1 DEF ReceiptsOf, EmailGood, ReceiptEnds, Books, BooksTyped, Receipt, Day
    <3>3. c.day = today
      BY <1>1, <3>2, Days
    <3>4. c \in ReceiptsToday(M)
      BY <1>1, <3>2, <3>3 DEF ReceiptsToday
    <3>5. QED BY <3>2, <3>4
  <2>2. \A r, s \in A, c \in ReceiptsToday(M) : <<r, c>> \in R /\ <<s, c>> \in R => r = s
    BY <1>2
  <2> HIDE DEF R, A
  <2>3. QED BY <1>3, <2>1, <2>2, Matched
<1>5. Cardinality(B) <= Cardinality(UnfiledToday(M))
  <2> DEFINE R == {p \in B \X UnfiledToday(M) : p[2] = p[1].email}
  <2>1. ASSUME NEW r \in B PROVE \E e \in UnfiledToday(M) : <<r, e>> \in R
    <3>1. /\ row[r.email].status \in {"uncertain", "settled"}
          /\ row[r.email].day = today /\ row[r.email].ident = r.ident
          /\ ~row[r.email].receipt
      BY <1>1 DEF EmailGood, RowCovers, ReceiptEnds
    <3>2. r.email \in UnfiledToday(M)
      BY <1>1, <3>1 DEF UnfiledToday
    <3>3. QED BY <3>2
  <2>2. \A r, s \in B, e \in UnfiledToday(M) : <<r, e>> \in R /\ <<s, e>> \in R => r = s
    BY <1>2
  <2> HIDE DEF R, B
  <2>3. QED BY <1>3, <2>1, <2>2, Matched
<1>6. Cardinality(C) <= Cardinality(HS)
  <2> DEFINE R == {p \in C \X HS : \E w \in Worker : /\ pc[w] = "sending" /\ job[w].slot = p[2].id
                                                     /\ job[w].email = p[1].email}
  <2>1. ASSUME NEW r \in C PROVE \E h \in HS : <<r, h>> \in R
    <3>1. PICK w \in Worker : w \in Senders(r.email)
      BY <1>1 DEF EmailGood, RowCovers, ReceiptEnds, Senders
    <3>2. pc[w] = "sending" /\ job[w].email = r.email /\ RequestOf(w) = r
      BY <1>1, <3>1 DEF EmailGood, SenderOwns, Senders
    <3>3. job[w].slot # 0 /\ job[w].sender = r.ident
      BY <1>1, <3>2 DEF RequestOf
    <3>4. [id |-> job[w].slot, ident |-> job[w].sender] \in held
      BY <3>2, <3>3 DEF Books, SlotsHeld
    <3>5. [id |-> job[w].slot, ident |-> job[w].sender] \in HS
      BY <1>1, <3>2, <3>3, <3>4
    <3>6. QED BY <3>2, <3>5
  <2>2. ASSUME NEW r \in C, NEW s \in C, NEW h \in HS, <<r, h>> \in R, <<s, h>> \in R PROVE r = s
    <3>1. PICK w \in Worker : pc[w] = "sending" /\ job[w].slot = h.id /\ job[w].email = r.email
      BY <2>2
    <3>2. PICK v \in Worker : pc[v] = "sending" /\ job[v].slot = h.id /\ job[v].email = s.email
      BY <2>2
    <3>3. h.id # 0
      BY DEF Books, BooksTyped, Reservation
    <3>4. w = v
      BY <3>1, <3>2, <3>3 DEF Books, SlotsHeld
    <3>5. QED BY <1>2, <3>1, <3>2, <3>4
  <2> HIDE DEF R, C, HS
  <2>3. QED BY <1>3, <2>1, <2>2, Matched
<1>7. Cardinality(Waiting(g)) <= Cardinality(HW)
  <2> DEFINE R == {p \in Waiting(g) \X HW : job[p[1]].slot = p[2].id}
  <2>1. ASSUME NEW w \in Waiting(g) PROVE \E h \in HW : <<w, h>> \in R
    <3>1. w \in Worker /\ pc[w] = "routed" /\ job[w].slot # 0 /\ GroupOf[job[w].sender] = g
      BY DEF Waiting
    <3>2. [id |-> job[w].slot, ident |-> job[w].sender] \in HW
      BY <3>1 DEF Books, SlotsHeld
    <3>3. QED BY <3>2
  <2>2. ASSUME NEW w \in Waiting(g), NEW v \in Waiting(g), NEW h \in HW,
               <<w, h>> \in R, <<v, h>> \in R
        PROVE  w = v
    <3>1. /\ w \in Worker /\ v \in Worker /\ pc[w] = "routed" /\ pc[v] = "routed"
          /\ job[w].slot # 0 /\ job[w].slot = job[v].slot
      BY <2>2 DEF Waiting
    <3>2. QED BY <3>1 DEF Books, SlotsHeld
  <2> HIDE DEF R, HW
  <2>3. QED BY <1>3, <2>1, <2>2, Matched
<1>8. Cardinality(S) = Cardinality(A) + Cardinality(B) + Cardinality(C)
  <2>1. S = (A \cup B) \cup C /\ A \cap B = {} /\ (A \cup B) \cap C = {}
    OBVIOUS
  <2> HIDE DEF S, A, B, C
  <2>2. IsFiniteSet(A \cup B) /\ Cardinality(A \cup B) = Cardinality(A) + Cardinality(B)
    BY <1>3, <2>1, Apart, FS_Union
  <2>3. Cardinality(S) = Cardinality(A \cup B) + Cardinality(C)
    BY <1>3, <2>1, <2>2, Apart
  <2>4. QED BY <2>2, <2>3
<1>9. Cardinality(HS) + Cardinality(HW) <= Cardinality(H)
  <2>1. HS \cap HW = {}
    <3> SUFFICES ASSUME NEW h \in HS, h \in HW PROVE FALSE
      OBVIOUS
    <3>1. PICK w \in Worker : pc[w] = "sending" /\ job[w].slot = h.id
      OBVIOUS
    <3>2. PICK v \in Worker : pc[v] = "routed" /\ job[v].slot = h.id
      OBVIOUS
    <3>3. h.id # 0
      BY DEF Books, BooksTyped, Reservation
    <3>4. QED BY <3>1, <3>2, <3>3 DEF Books, SlotsHeld
  <2>2. HS \cup HW \in SUBSET H
    OBVIOUS
  <2> HIDE DEF H, HS, HW
  <2>3. Cardinality(HS \cup HW) = Cardinality(HS) + Cardinality(HW)
    BY <1>3, <2>1, Apart
  <2>4. Cardinality(HS \cup HW) <= Cardinality(H)
    BY <1>3, <2>2, FS_Subset
  <2>5. QED BY <2>3, <2>4
<1>10. Used(Identity, g)
       = Cardinality(ReceiptsToday(M)) + Cardinality(UnfiledToday(M)) + Cardinality(H)
  <2>1. M \in SUBSET Identity
    BY DEF Members
  <2>2. MapThenSumSet(SentToday, M)
        = Cardinality(ReceiptsToday(M)) + Cardinality(UnfiledToday(M))
    BY <2>1, PoolAssumption, SentIsCounted DEF Books
  <2>3. QED BY <2>2 DEF Used
<1> HIDE DEF S, A, B, C, H, HS, HW, M
<1>11. /\ Cardinality(A) \in Nat /\ Cardinality(B) \in Nat /\ Cardinality(C) \in Nat
       /\ Cardinality(S) \in Nat /\ Cardinality(H) \in Nat /\ Cardinality(HS) \in Nat
       /\ Cardinality(HW) \in Nat /\ Cardinality(Waiting(g)) \in Nat
       /\ Cardinality(ReceiptsToday(M)) \in Nat /\ Cardinality(UnfiledToday(M)) \in Nat
  BY <1>3, FS_CardinalityType
<1>12. Cardinality(S) + Cardinality(Waiting(g)) <= Used(Identity, g)
  BY <1>4, <1>5, <1>6, <1>7, <1>8, <1>9, <1>10, <1>11
<1>13. QED BY <1>3, <1>12 DEF S

LEMMA UsedIsNumber == ASSUME Books, NEW g PROVE Used(Identity, g) \in Nat
<1>1. Members(Identity, g) \in SUBSET Identity
  BY DEF Members
<1>2. MapThenSumSet(SentToday, Members(Identity, g))
      = Cardinality(ReceiptsToday(Members(Identity, g)))
        + Cardinality(UnfiledToday(Members(Identity, g)))
  BY <1>1, PoolAssumption, SentIsCounted DEF Books
<1>3. /\ ReceiptsToday(Members(Identity, g)) \in SUBSET receipts
      /\ UnfiledToday(Members(Identity, g)) \in SUBSET Email
      /\ {h \in held : GroupOf[h.ident] = g} \in SUBSET held
  BY DEF ReceiptsToday, UnfiledToday
<1>4. IsFiniteSet(receipts) /\ IsFiniteSet(Email) /\ IsFiniteSet(held)
  BY PoolAssumption DEF Books, BooksTyped
<1>5. /\ Cardinality(ReceiptsToday(Members(Identity, g))) \in Nat
      /\ Cardinality(UnfiledToday(Members(Identity, g))) \in Nat
      /\ Cardinality({h \in held : GroupOf[h.ident] = g}) \in Nat
  BY <1>3, <1>4, FS_Subset, FS_CardinalityType
<1>6. QED BY <1>2, <1>5 DEF Used

\* An email that is out today under a reservation is in the count that the next
\* pick reads (computeCapacities, countEmailSendsSince), as long as calls end
\* before their reservation does: a receipt, an unknown outcome, or the slot.
THEOREM OutIsInTheCount ==
    ASSUME QuietSetup, CallsEnd PROVE Spec => []OutIsCounted
<1>1. ASSUME Follows, Books PROVE OutIsCounted
  <2> SUFFICES ASSUME NEW g \in Group
               PROVE  Cardinality({r \in Emailed(g, today) : r.slot}) <= Used(Identity, g)
    BY DEF OutIsCounted
  <2> DEFINE E == {r \in Emailed(g, today) : r.slot}
  <2>1. E \in SUBSET Slotted(g, today)
    BY DEF Emailed, Slotted
  <2> HIDE DEF E
  <2>2. /\ IsFiniteSet(Slotted(g, today)) /\ IsFiniteSet(Waiting(g))
        /\ Cardinality(Slotted(g, today)) + Cardinality(Waiting(g)) <= Used(Identity, g)
    BY <1>1, CountedIsUsed
  <2>3. IsFiniteSet(E) /\ Cardinality(E) <= Cardinality(Slotted(g, today))
    BY <2>1, <2>2, FS_Subset
  <2>4. Used(Identity, g) \in Nat
    BY <1>1, UsedIsNumber
  <2>5. /\ Cardinality(E) \in Nat /\ Cardinality(Slotted(g, today)) \in Nat
        /\ Cardinality(Waiting(g)) \in Nat
    BY <2>2, <2>3, FS_CardinalityType
  <2>6. Cardinality(E) <= Used(Identity, g)
    BY <2>2, <2>3, <2>4, <2>5
  <2>7. QED BY <2>6 DEF E
<1>2. (Follows /\ Books) /\ [Next]_vars => (Follows /\ Books)'
  BY NextBooks
<1>3. Init => Follows /\ Books
  BY InitFollows, InitBooks
<1>4. QED BY <1>1, <1>2, <1>3, PTL DEF Spec

-----------------------------------------------------------------------------
(* The cap.  A pick reads the use of the group's members in its own pool,  *)
(* so a pool has each group whole or not at all: the sends of a mailbox    *)
(* that was taken out of it no longer count.                               *)

Whole(cfg) == \A i \in cfg, j \in Identity : GroupOf[i] = GroupOf[j] => j \in cfg

WholeGroups == \A cfg \in Pools : Whole(cfg)

\* The emails of a day and, today, those about to leave keep to the cap.
WithinCap ==
    \A g \in Group, d \in Day :
        CappedGroup(Identity, g) =>
            Cardinality(Slotted(g, d)) + (IF d = today THEN Cardinality(Waiting(g)) ELSE 0)
                <= GroupCap(Identity, g)

Capped == Whole(pool) /\ WithinCap

\* A finite set of numbers has a largest one.
LEMMA MaxIsIn ==
    ASSUME NEW S \in SUBSET Nat, IsFiniteSet(S), S # {} PROVE Max(S) \in S
<1> DEFINE Fine == {T \in SUBSET S : T # {} => \E m \in T : \A n \in T : m >= n}
<1>1. ASSUME NEW T \in SUBSET S, \A U \in SUBSET T : U # T => U \in Fine PROVE T \in Fine
  <2>1. CASE T = {}
    BY <2>1
  <2>2. CASE T # {}
    <3>1. PICK x \in T : TRUE
      BY <2>2
    <3>2. T \ {x} \in Fine
      BY <1>1, <3>1
    <3>3. CASE T \ {x} = {}
      BY <3>1, <3>3
    <3>4. CASE T \ {x} # {}
      <4>1. PICK m \in T \ {x} : \A n \in T \ {x} : m >= n
        BY <3>2, <3>4
      <4>2. CASE m >= x
        BY <3>1, <4>1, <4>2
      <4>3. CASE ~(m >= x)
        <5>1. \A n \in T : x >= n
          BY <3>1, <4>1, <4>3
        <5>2. QED BY <3>1, <5>1
      <4>4. QED BY <4>2, <4>3
    <3>5. QED BY <3>3, <3>4
  <2>3. QED BY <2>1, <2>2
<1> HIDE DEF Fine
<1>2. S \in Fine
  BY <1>1, SubsetInduction
<1>3. \E m \in S : \A n \in S : m >= n
  BY <1>2 DEF Fine
<1>4. QED BY <1>3 DEF Max

LEMMA CapIsNumber ==
    ASSUME PoolAssumption, NEW g, CappedGroup(Identity, g) PROVE GroupCap(Identity, g) \in Nat
<1> DEFINE M == Members(Identity, g)
           C == {DailyCap[i] : i \in M}
           f == [i \in M |-> DailyCap[i]]
<1>1. M \in SUBSET Identity /\ M # {}
  BY DEF Members, CappedGroup
<1>2. C \in SUBSET Nat /\ C # {}
  BY <1>1, PoolAssumption
<1>3. IsFiniteSet(C)
  <2>1. IsFiniteSet(M)
    BY <1>1, FS_Subset, PoolAssumption
  <2>2. f \in Surjection(M, C)
    BY DEF Surjection
  <2> HIDE DEF M, C, f
  <2>3. QED BY <2>1, <2>2, FS_Surjection
<1> HIDE DEF C
<1>4. Max(C) \in Nat
  BY <1>2, <1>3, MaxIsIn
<1>5. QED BY <1>4 DEF C, GroupCap

LEMMA Finites ==
    ASSUME Books, NEW g, NEW d
    PROVE  /\ IsFiniteSet(Slotted(g, d)) /\ IsFiniteSet(Waiting(g))
           /\ Cardinality(Slotted(g, d)) \in Nat /\ Cardinality(Waiting(g)) \in Nat
<1>1. IsFiniteSet(wire \cup out) /\ IsFiniteSet(Worker)
  BY FS_Union, PoolAssumption DEF Books, BooksTyped
<1>2. Slotted(g, d) \in SUBSET (wire \cup out) /\ Waiting(g) \in SUBSET Worker
  BY DEF Slotted, Waiting
<1>3. IsFiniteSet(Slotted(g, d)) /\ IsFiniteSet(Waiting(g))
  BY <1>1, <1>2, FS_Subset
<1>4. QED BY <1>3, FS_CardinalityType

\* Fewer emails and fewer workers keep to it.
LEMMA FewerFit ==
    ASSUME Books, WithinCap, today' = today,
           \A g, d : Slotted(g, d)' \subseteq Slotted(g, d),
           \A g : Waiting(g)' \subseteq Waiting(g)
    PROVE  WithinCap'
<1> SUFFICES ASSUME NEW g \in Group, NEW d \in Day, CappedGroup(Identity, g)
             PROVE  Cardinality(Slotted(g, d)')
                    + (IF d = today THEN Cardinality(Waiting(g)') ELSE 0) <= GroupCap(Identity, g)
  BY DEF WithinCap
<1>1. /\ IsFiniteSet(Slotted(g, d)) /\ IsFiniteSet(Waiting(g))
      /\ Cardinality(Slotted(g, d)) \in Nat /\ Cardinality(Waiting(g)) \in Nat
  BY Finites
<1>2. /\ Slotted(g, d)' \in SUBSET Slotted(g, d) /\ Waiting(g)' \in SUBSET Waiting(g)
  OBVIOUS
<1>3. /\ IsFiniteSet(Slotted(g, d)') /\ Cardinality(Slotted(g, d)') <= Cardinality(Slotted(g, d))
      /\ IsFiniteSet(Waiting(g)') /\ Cardinality(Waiting(g)') <= Cardinality(Waiting(g))
  BY <1>1, <1>2, FS_Subset
<1>4. Cardinality(Slotted(g, d)') \in Nat /\ Cardinality(Waiting(g)') \in Nat
  BY <1>3, FS_CardinalityType
<1>5. Cardinality(Slotted(g, d)) + (IF d = today THEN Cardinality(Waiting(g)) ELSE 0)
      <= GroupCap(Identity, g)
  BY DEF WithinCap
<1>6. GroupCap(Identity, g) \in Nat
  BY CapIsNumber, PoolAssumption
<1>7. QED BY <1>1, <1>3, <1>4, <1>5, <1>6

\* A pick that reserves found room in its group, counted as the cap counts it.
LEMMA PickFits ==
    ASSUME Follows, Books, Capped, NEW w \in Worker, Pick(w) PROVE WithinCap'
<1>1. PICK i \in Candidates(job[w].cfg) :
         LET winner == Assigned(To[job[w].email], i)
             reserves == winner = i /\ CappedGroup(job[w].cfg, GroupOf[i])
         IN  Resolve(w, Listed(job[w].cfg, winner, i), IF reserves THEN picks' ELSE 0)
  BY DEF Pick
<1>2. /\ pc[w] = "looked" /\ job[w] \in Job /\ i \in job[w].cfg /\ i \in Identity
      /\ Whole(job[w].cfg) /\ UNCHANGED <<today, wire, out>>
  BY CandidatesListed DEF Pick, wireVars, Follows, SameSetup, Typed, Capped
<1>3. \A g, d : Slotted(g, d)' = Slotted(g, d)
  BY <1>2 DEF Slotted
<1>4. OnlyMoves(w)
  BY DEF Pick, Resolve, OnlyMoves, Follows, Typed
<1>5. ASSUME NEW g PROVE w \notin Waiting(g) /\ Waiting(g)' \subseteq Waiting(g) \cup {w}
  BY <1>2, <1>4 DEF Waiting, OnlyMoves
<1>6. CASE ~(Assigned(To[job[w].email], i) = i /\ CappedGroup(job[w].cfg, GroupOf[i]))
  <2>1. job' = [job EXCEPT ![w].sender = Listed(job[w].cfg, Assigned(To[job[w].email], i), i),
                           ![w].slot = 0]
    BY <1>1, <1>6 DEF Resolve
  <2>2. job'[w].slot = 0
    BY <1>2, <2>1 DEF Follows, Typed, Job
  <2>3. \A g : Waiting(g)' \subseteq Waiting(g)
    BY <1>4, <2>2 DEF Waiting, OnlyMoves
  <2>4. QED BY <1>2, <1>3, <2>3, FewerFit DEF Capped
<1>7. CASE Assigned(To[job[w].email], i) = i /\ CappedGroup(job[w].cfg, GroupOf[i])
  <2> DEFINE own == GroupOf[i]
  <2>1. Resolve(w, i, picks')
    BY <1>1, <1>2, <1>7 DEF Listed
  <2>2. job'[w].sender = i
    BY <1>2, <2>1 DEF Resolve, Follows, Typed, Job
  <2>3. Members(job[w].cfg, own) = Members(Identity, own)
    <3>1. job[w].cfg \subseteq Identity
      BY <1>2 DEF Job
    <3>2. QED BY <1>2, <3>1 DEF Members, Whole
  <2>4. /\ CappedGroup(Identity, own)
        /\ GroupCap(job[w].cfg, own) = GroupCap(Identity, own)
        /\ Used(job[w].cfg, own) = Used(Identity, own)
    BY <1>7, <2>3 DEF CappedGroup, GroupCap, Used
  <2>5. i \in Room(job[w].cfg)
    <3>1. CASE Room(job[w].cfg) = {}
      BY <1>7, <3>1 DEF Candidates
    <3>2. CASE Room(job[w].cfg) # {}
      BY <3>2 DEF Candidates
    <3>3. QED BY <3>1, <3>2
  <2>6. ~(Used(Identity, own) >= GroupCap(Identity, own))
    <3>1. Remaining(job[w].cfg, i) > 0
      BY <2>5 DEF Room
    <3>2. Remaining(job[w].cfg, i) =
             IF Used(Identity, own) >= GroupCap(Identity, own) THEN 0
             ELSE GroupCap(Identity, own) - Used(Identity, own)
      BY <2>4 DEF Remaining
    <3> HIDE DEF own
    <3>3. QED BY <3>1, <3>2
  <2>7. Used(Identity, own) \in Nat /\ GroupCap(Identity, own) \in Nat
    BY <2>4, CapIsNumber, UsedIsNumber, PoolAssumption
  <2> HIDE DEF own
  <2> SUFFICES ASSUME NEW g \in Group, NEW d \in Day, CappedGroup(Identity, g)
               PROVE  Cardinality(Slotted(g, d)')
                      + (IF d = today THEN Cardinality(Waiting(g)') ELSE 0)
                      <= GroupCap(Identity, g)
    BY <1>2 DEF WithinCap
  <2>8. /\ IsFiniteSet(Slotted(g, d)) /\ IsFiniteSet(Waiting(g))
        /\ Cardinality(Slotted(g, d)) \in Nat /\ Cardinality(Waiting(g)) \in Nat
    BY Finites
  <2>9. Cardinality(Slotted(g, d)) + (IF d = today THEN Cardinality(Waiting(g)) ELSE 0)
        <= GroupCap(Identity, g)
    BY DEF Capped, WithinCap
  <2>10. CASE d = today /\ g = own
    <3>1. Cardinality(Slotted(g, d)) + Cardinality(Waiting(g)) <= Used(Identity, own)
      BY <2>10, CountedIsUsed
    <3>2. /\ IsFiniteSet(Waiting(g) \cup {w})
          /\ Cardinality(Waiting(g) \cup {w}) = Cardinality(Waiting(g)) + 1
      BY <1>5, <2>8, FS_AddElement
    <3>3. Waiting(g)' \in SUBSET (Waiting(g) \cup {w})
      BY <1>5
    <3>4. /\ Cardinality(Waiting(g)') <= Cardinality(Waiting(g)) + 1
          /\ Cardinality(Waiting(g)') \in Nat
      BY <3>2, <3>3, FS_Subset, FS_CardinalityType
    <3>5. Slotted(g, d)' = Slotted(g, d)
      BY <1>3
    <3>6. QED BY <2>6, <2>7, <2>8, <2>10, <3>1, <3>4, <3>5
  <2>11. CASE d # today
    BY <1>3, <2>9, <2>11
  <2>12. CASE d = today /\ g # own
    <3>1. Waiting(g)' = Waiting(g)
      BY <1>2, <1>4, <2>2, <2>12 DEF Waiting, OnlyMoves, own
    <3>2. Slotted(g, d)' = Slotted(g, d)
      BY <1>3
    <3>3. QED BY <2>9, <2>12, <3>1, <3>2
  <2>13. QED BY <2>10, <2>11, <2>12
<1>8. QED BY <1>6, <1>7

\* An email that leaves was one about to leave.
LEMMA ClaimFits ==
    ASSUME Follows, Books, Capped, NEW w \in Worker, ClaimSend(w) PROVE WithinCap'
<1> DEFINE new == [RequestOf(w) EXCEPT !.day = today]
<1>1. /\ pc[w] = "routed" /\ pc' = [pc EXCEPT ![w] = "sending"]
      /\ job' = [job EXCEPT ![w].day = today]
      /\ wire' = wire \cup {new} /\ out' = out /\ today' = today
  BY DEF ClaimSend
<1>2. OnlyMoves(w) /\ pc'[w] = "sending"
  BY <1>1 DEF Follows, Typed, OnlyMoves
<1>3. new.slot = (job[w].slot # 0) /\ new.ident = job[w].sender /\ new.day = today
  BY DEF RequestOf
<1> HIDE DEF new
<1> SUFFICES ASSUME NEW g \in Group, NEW d \in Day, CappedGroup(Identity, g)
             PROVE  Cardinality(Slotted(g, d)')
                    + (IF d = today THEN Cardinality(Waiting(g)') ELSE 0)
                    <= GroupCap(Identity, g)
  BY <1>1 DEF WithinCap
<1>4. /\ IsFiniteSet(Slotted(g, d)) /\ IsFiniteSet(Waiting(g))
      /\ Cardinality(Slotted(g, d)) \in Nat /\ Cardinality(Waiting(g)) \in Nat
  BY Finites
<1>5. Cardinality(Slotted(g, d)) + (IF d = today THEN Cardinality(Waiting(g)) ELSE 0)
      <= GroupCap(Identity, g)
  BY DEF Capped, WithinCap
<1>6. GroupCap(Identity, g) \in Nat
  BY CapIsNumber, PoolAssumption
<1>7. Waiting(g)' = Waiting(g) \ {w}
  BY <1>2 DEF Waiting, OnlyMoves
<1>8. CASE d = today /\ w \in Waiting(g)
  <2>1. Slotted(g, d)' \subseteq Slotted(g, d) \cup {new}
    BY <1>1 DEF Slotted
  <2>2. /\ IsFiniteSet(Slotted(g, d) \cup {new})
        /\ Cardinality(Slotted(g, d) \cup {new}) <= Cardinality(Slotted(g, d)) + 1
    BY <1>4, FS_AddElement
  <2>3. /\ Cardinality(Slotted(g, d)') <= Cardinality(Slotted(g, d) \cup {new})
        /\ Cardinality(Slotted(g, d)') \in Nat
        /\ Cardinality(Slotted(g, d) \cup {new}) \in Nat
    BY <2>1, <2>2, FS_Subset, FS_CardinalityType
  <2>4. /\ Cardinality(Waiting(g)') = Cardinality(Waiting(g)) - 1
        /\ Cardinality(Waiting(g)') \in Int
    <3>1. Cardinality(Waiting(g) \ {w}) = Cardinality(Waiting(g)) - 1
      BY <1>4, <1>8, FS_RemoveElement
    <3>2. QED BY <1>4, <1>7, <3>1
  <2>5. QED BY <1>4, <1>5, <1>6, <1>8, <2>2, <2>3, <2>4
<1>9. CASE ~(d = today /\ w \in Waiting(g))
  <2>1. Slotted(g, d)' = Slotted(g, d)
    <3>1. new \notin {r \in {new} : r.slot /\ GroupOf[r.ident] = g /\ r.day = d}
      BY <1>1, <1>3, <1>9 DEF Waiting
    <3>2. QED BY <1>1, <3>1 DEF Slotted
  <2>2. d = today => Waiting(g)' = Waiting(g)
    BY <1>7, <1>9
  <2>3. QED BY <1>5, <2>1, <2>2
<1>10. QED BY <1>8, <1>9

\* The new day is empty but for those about to leave.
LEMMA MidnightFits ==
    ASSUME Follows, Books, Capped, Midnight PROVE WithinCap'
<1>1. today' = today + 1 /\ UNCHANGED <<pc, job, wire, out>> /\ today \in Nat /\ today \in Day
  BY Days DEF Midnight, wireVars
<1>2. \A g, d : Slotted(g, d)' = Slotted(g, d) /\ Waiting(g)' = Waiting(g)
  BY <1>1 DEF Slotted, Waiting
<1>3. \A g : Slotted(g, today + 1) = {}
  <2>1. \A r \in wire \cup out : r.email \in Email /\ r.day <= today /\ r.day \in Nat
    <3> SUFFICES ASSUME NEW r \in wire \cup out
                 PROVE  r.email \in Email /\ r.day <= today /\ r.day \in Nat
      OBVIOUS
    <3>1. r \in Request
      BY DEF Follows, Typed
    <3>2. r.email \in Email /\ r.day \in Nat
      BY <3>1, PoolAssumption DEF Request, Day
    <3>3. r \in Requests(r.email) /\ EmailGood(r.email)
      BY <3>2 DEF Requests, Books
    <3>4. QED BY <3>2, <3>3 DEF EmailGood, RowCovers
  <2>2. \A r \in wire \cup out : r.day # today + 1
    BY <1>1, <2>1
  <2>3. QED BY <2>2 DEF Slotted
<1> SUFFICES ASSUME NEW g \in Group, NEW d \in Day, CappedGroup(Identity, g)
             PROVE  Cardinality(Slotted(g, d)')
                    + (IF d = today' THEN Cardinality(Waiting(g)') ELSE 0)
                    <= GroupCap(Identity, g)
  BY DEF WithinCap
<1>4. /\ Cardinality(Slotted(g, d)) \in Nat /\ Cardinality(Waiting(g)) \in Nat
      /\ Cardinality(Slotted(g, today)) \in Nat
  BY Finites
<1>5. Cardinality(Slotted(g, d)) + (IF d = today THEN Cardinality(Waiting(g)) ELSE 0)
      <= GroupCap(Identity, g)
  BY DEF Capped, WithinCap
<1>6. Cardinality(Slotted(g, today)) + Cardinality(Waiting(g)) <= GroupCap(Identity, g)
  BY <1>1 DEF Capped, WithinCap
<1>7. GroupCap(Identity, g) \in Nat
  BY CapIsNumber, PoolAssumption
<1>8. CASE d = today'
  <2>1. Cardinality(Slotted(g, d)) = 0
    BY <1>1, <1>3, <1>8, FS_EmptySet
  <2>2. QED BY <1>2, <1>4, <1>6, <1>7, <1>8, <2>1
<1>9. CASE d # today'
  BY <1>2, <1>4, <1>5, <1>7, <1>9
<1>10. QED BY <1>8, <1>9

LEMMA InitCapped == Init => Capped
<1> SUFFICES ASSUME Init PROVE Capped
  OBVIOUS
<1>1. Whole(pool)
  BY DEF Init, Whole
<1>2. \A g, d : Slotted(g, d) = {} /\ Waiting(g) = {}
  BY DEF Init, Slotted, Waiting
<1>3. WithinCap
  <2> SUFFICES ASSUME NEW g \in Group, NEW d \in Day, CappedGroup(Identity, g)
               PROVE  Cardinality(Slotted(g, d))
                      + (IF d = today THEN Cardinality(Waiting(g)) ELSE 0)
                      <= GroupCap(Identity, g)
    BY DEF WithinCap
  <2>1. Cardinality(Slotted(g, d)) = 0 /\ Cardinality(Waiting(g)) = 0
    BY <1>2, FS_EmptySet
  <2>2. GroupCap(Identity, g) \in Nat
    BY CapIsNumber, PoolAssumption
  <2>3. QED BY <2>1, <2>2
<1>4. QED BY <1>1, <1>3 DEF Capped

LEMMA NextCapped ==
    ASSUME QuietSetup, WholeGroups, CallsEnd, Follows, Books, Capped, [Next]_vars
    PROVE  Capped'
<1>1. Whole(pool)'
  <2>1. pool' = pool \/ pool' \in Pools
    BY DEF Next, Send, Look, LazyPin, Pick, Defer, ClaimSend, ClaimRefused, ClaimReplayed,
           WriteReceipt, MarkSettled, FailDefinite, FailUnknown, Crash, Accept, Lose, Expire,
           Midnight, Sweep, Configure, vars
  <2>2. QED BY <2>1 DEF Capped, WholeGroups, Whole
<1>2. ASSUME NEW w \in Worker, Pick(w) PROVE WithinCap'
  BY <1>2, PickFits
<1>3. ASSUME NEW w \in Worker, ClaimSend(w) PROVE WithinCap'
  BY <1>3, ClaimFits
<1>4. ASSUME Midnight PROVE WithinCap'
  BY <1>4, MidnightFits
<1>5. ASSUME NEW w \in Worker,
             \/ \E e \in Email : Look(w, e)
             \/ LazyPin(w) \/ Defer(w) \/ ClaimRefused(w) \/ ClaimReplayed(w)
             \/ WriteReceipt(w) \/ MarkSettled(w) \/ FailDefinite(w) \/ FailUnknown(w)
      PROVE  WithinCap'
  <2>1. OnlyMoves(w)
    BY <1>5 DEF Look, LazyPin, Defer, ClaimRefused, ClaimReplayed, WriteReceipt, MarkSettled,
                FailDefinite, FailUnknown, Done, Resolve, OnlyMoves, Follows, Typed
  <2>2. today' = today /\ wire' \cup out' \subseteq wire \cup out
    BY <1>5 DEF Look, LazyPin, Defer, ClaimRefused, ClaimReplayed, WriteReceipt, MarkSettled,
                FailDefinite, FailUnknown, wireVars
  <2>3. pc'[w] # "routed" \/ job'[w].slot = 0
    <3>1. CASE \E e \in Email : Look(w, e)
      BY <3>1 DEF Look, Follows, Typed
    <3>2. CASE LazyPin(w)
      <4>1. job[w] \in Job
        BY <3>2 DEF LazyPin, Follows, SameSetup
      <4>2. QED BY <3>2, <4>1 DEF LazyPin, Resolve, Follows, Typed, Job
    <3>3. CASE \/ Defer(w) \/ ClaimRefused(w) \/ ClaimReplayed(w)
               \/ WriteReceipt(w) \/ MarkSettled(w) \/ FailDefinite(w) \/ FailUnknown(w)
      BY <3>3 DEF Defer, ClaimRefused, ClaimReplayed, WriteReceipt, MarkSettled,
                  FailDefinite, FailUnknown, Done, Follows, Typed
    <3>4. QED BY <1>5, <3>1, <3>2, <3>3
  <2>4. \A g : Waiting(g)' \subseteq Waiting(g)
    BY <2>1, <2>3 DEF Waiting, OnlyMoves
  <2>5. \A g, d : Slotted(g, d)' \subseteq Slotted(g, d)
    BY <2>2 DEF Slotted
  <2>6. QED BY <2>2, <2>4, <2>5, FewerFit DEF Capped
<1>6. ASSUME \/ \E r \in wire : Accept(r) \/ Lose(r)
             \/ \E h \in held : Expire(h)
             \/ \E e \in Email : Sweep(e)
             \/ \E cfg \in Pools : Configure(cfg)
             \/ UNCHANGED vars
      PROVE  WithinCap'
  <2>1. today' = today /\ wire' \cup out' \subseteq wire \cup out /\ UNCHANGED <<pc, job>>
    BY <1>6 DEF Accept, Lose, Expire, Sweep, Configure, wireVars, vars
  <2>2. /\ \A g, d : Slotted(g, d)' \subseteq Slotted(g, d)
        /\ \A g : Waiting(g)' \subseteq Waiting(g)
    BY <2>1 DEF Slotted, Waiting
  <2>3. QED BY <2>1, <2>2, FewerFit DEF Capped
<1>7. ASSUME NEW w \in Worker PROVE ~Crash(w)
  BY DEF CallsEnd, Crash
<1>8. ASSUME NEW w \in Worker, Send(w) PROVE WithinCap'
  BY <1>2, <1>3, <1>5, <1>8 DEF Send
<1>9. WithinCap'
  BY <1>4, <1>6, <1>7, <1>8 DEF Next
<1>10. QED BY <1>1, <1>9 DEF Capped

\* The emails that took a reservation never exceed their group's cap on the day
\* they were claimed, over failures, unknown outcomes, lapsed slots and midnight
\* (resolveSenderSlot picks and reserves in one transaction), when calls end
\* before their reservations and pools have whole groups.
THEOREM CapIsKept ==
    ASSUME QuietSetup, WholeGroups, CallsEnd PROVE Spec => []CapKept
<1>1. ASSUME Books, Capped PROVE CapKept
  <2> SUFFICES ASSUME NEW g \in Group, NEW d \in Day, CappedGroup(Identity, g)
               PROVE  Cardinality({r \in Emailed(g, d) : r.slot}) <= GroupCap(Identity, g)
    BY DEF CapKept
  <2> DEFINE E == {r \in Emailed(g, d) : r.slot}
  <2>1. E \in SUBSET Slotted(g, d)
    BY DEF Emailed, Slotted
  <2> HIDE DEF E
  <2>2. /\ IsFiniteSet(Slotted(g, d)) /\ Cardinality(Slotted(g, d)) \in Nat
        /\ Cardinality(Waiting(g)) \in Nat
    BY <1>1, Finites
  <2>3. IsFiniteSet(E) /\ Cardinality(E) <= Cardinality(Slotted(g, d))
    BY <2>1, <2>2, FS_Subset
  <2>4. Cardinality(E) \in Nat /\ GroupCap(Identity, g) \in Nat
    BY <2>3, FS_CardinalityType, CapIsNumber, PoolAssumption
  <2>5. Cardinality(Slotted(g, d)) + (IF d = today THEN Cardinality(Waiting(g)) ELSE 0)
        <= GroupCap(Identity, g)
    BY <1>1 DEF Capped, WithinCap
  <2>6. Cardinality(E) <= GroupCap(Identity, g)
    BY <2>2, <2>3, <2>4, <2>5
  <2>7. QED BY <2>6 DEF E
<1>2. (Follows /\ Books /\ Capped) /\ [Next]_vars => (Follows /\ Books /\ Capped)'
  BY NextBooks, NextCapped
<1>3. Init => Follows /\ Books /\ Capped
  BY InitFollows, InitBooks, InitCapped
<1>4. QED BY <1>1, <1>2, <1>3, PTL DEF Spec
=============================================================================
