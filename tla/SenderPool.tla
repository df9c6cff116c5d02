------------------------------ MODULE SenderPool ------------------------------
(***************************************************************************)
(* Which identity sends to a prospect, and how many emails it may send in  *)
(* a day.  A first send picks the identity with the most of its group's    *)
(* daily cap left, pins it to the prospect and reserves one slot, in one   *)
(* IMMEDIATE transaction; the receipt of the send consumes the slot.  A    *)
(* later send follows the pin and asks nobody.  Between the pick and the   *)
(* receipt lie network calls, so slots are also freed by failures, kept by *)
(* unknown outcomes and forgotten by crashes until their TTL; "used today" *)
(* is therefore a sum of three things that change at different moments.    *)
(*                                                                         *)
(* Of the outbound ledger (module OutboundSend) only what the count reads  *)
(* is kept: "settled" stands for submitted, confirmed and not_found.       *)
(***************************************************************************)
EXTENDS Naturals, FiniteSets, FiniteSetsExt

CONSTANTS Email,          \* keyed emails: first touches and follow-ups
          Person, To,     \* prospects, and [Email -> Person]
          Worker,         \* processes that call sendEmail
          Identity,       \* every identity the pool may list
          Nobody,           \* no identity: SQL NULL
          Group, GroupOf, \* cap groups, and [Identity -> Group] (capGroupKey)
          DailyCap,       \* [Identity -> Nat], today's warmupCap
          Uncapped,       \* identities without maxPerDay or warmup
          Legacy,         \* people emailed before rotation
          LegacyIdentity, \* the identity that emailed them
          MaxDay,         \* bound of this model on days
          MaxPicks,       \* bound of this model on reservations
          Crashes,        \* may a process die?
          Patient,        \* is every call over before its reservation expires?
          Pools,          \* the pools the founder may configure
          QuietSetup      \* is no sender being resolved while he does?

ASSUME PoolAssumption ==
    /\ Nobody \notin Identity
    /\ IsFiniteSet(Identity) /\ IsFiniteSet(Email) /\ IsFiniteSet(Worker)
    /\ To \in [Email -> Person]
    /\ GroupOf \in [Identity -> Group]
    /\ DailyCap \in [Identity -> Nat]
    /\ Uncapped \subseteq Identity
    /\ Legacy \subseteq Person /\ LegacyIdentity \in Identity
    /\ MaxDay \in Nat /\ MaxPicks \in Nat
    /\ Crashes \in BOOLEAN /\ Patient \in BOOLEAN
    /\ Pools \subseteq SUBSET Identity /\ QuietSetup \in BOOLEAN

Day == 0 .. MaxDay

VARIABLES pool,     \* the configured identities
          pin,      \* sender_assignments, by person
          held,     \* send_reservations within their TTL
          picks,    \* reservations made so far: their AUTOINCREMENT id
          row,      \* outbound_sends, by email
          today,
          pc, job,  \* where each worker is, and the send it is making
          wire, out,\* requests on the wire, and requests the provider took
          receipts  \* email.send receipts

rowVars == <<row, receipts>>
wireVars == <<wire, out>>
vars == <<pool, pin, held, picks, row, today, pc, job, wire, out, receipts>>

Reservation == [id : 1 .. MaxPicks, ident : Identity]

Row == [status : {"absent", "pending", "uncertain", "failed", "settled"},
        ident : Identity \cup {Nobody}, day : Day, receipt : BOOLEAN]
NoRow == [status |-> "absent", ident |-> Nobody, day |-> 0, receipt |-> FALSE]

\* A send in a worker's hands: the pool it loaded, the sender it resolved,
\* its reservation (0 is null) and whether it was a first touch.
Job == [email : Email, cfg : SUBSET Identity, sender : Identity \cup {Nobody},
        slot : 0 .. MaxPicks, first : BOOLEAN, day : Day]
NoJob == [email |-> "none"]

\* A request as it travels; slot says whether a reservation covers it.
Request == [email : Email, ident : Identity, day : Day, first : BOOLEAN,
            slot : BOOLEAN]

Receipt == [email : Email, ident : Identity, day : Day, replay : BOOLEAN]

Init ==
    /\ pool = Identity
    /\ pin = [p \in Person |-> Nobody]
    /\ held = {} /\ picks = 0
    /\ row = [e \in Email |-> NoRow]
    /\ today = 0
    /\ pc = [w \in Worker |-> "idle"]
    /\ job = [w \in Worker |-> NoJob]
    /\ wire = {} /\ out = {} /\ receipts = {}

-----------------------------------------------------------------------------
(* Capacity: computeCapacities, over the identities of a loaded pool.      *)

Members(cfg, g) == {i \in cfg : GroupOf[i] = g}

\* Mutant: only receipts count, an unknown outcome does not.
ReceiptsOnly(i) == Cardinality({r \in receipts : r.ident = i /\ r.day = today})

\* countEmailSendsSince: today's receipts, and today's rows that may have gone
\* out but have no receipt.
SentToday(i) ==
    Cardinality({r \in receipts : r.ident = i /\ r.day = today})
    + Cardinality({e \in Email : /\ row[e].ident = i /\ row[e].day = today
                                 /\ row[e].status \in {"uncertain", "settled"}
                                 /\ ~row[e].receipt})

\* The group's use of today's cap: its members' sends and the reservations.
Used(cfg, g) ==
    MapThenSumSet(SentToday, Members(cfg, g))
    + Cardinality({h \in held : GroupOf[h.ident] = g})

\* An uncapped member lifts the cap of its group; else the largest one holds.
CappedGroup(cfg, g) == Members(cfg, g) # {} /\ Members(cfg, g) \cap Uncapped = {}
GroupCap(cfg, g) == Max({DailyCap[i] : i \in Members(cfg, g)})

\* A mailbox's own sends today, reservations included: the tie-break.
OwnSends(i) == SentToday(i) + Cardinality({h \in held : h.ident = i})

\* Mutant: a mailbox's own sends count against the cap, not its domain's.
RemainingOfMailbox(cfg, i) ==
    GroupCap(cfg, GroupOf[i]) - Min({GroupCap(cfg, GroupOf[i]), OwnSends(i)})

Remaining(cfg, i) ==
    LET cap == GroupCap(cfg, GroupOf[i])
        used == Used(cfg, GroupOf[i])
    IN  IF used >= cap THEN 0 ELSE cap - used

Room(cfg) ==
    {i \in cfg : CappedGroup(cfg, GroupOf[i]) /\ Remaining(cfg, i) > 0}

\* Most remaining, then fewest own sends; uncapped identities only when no
\* capped one has room.  The pool's order decides between equals.
Candidates(cfg) ==
    IF Room(cfg) = {}
    THEN {i \in cfg : ~CappedGroup(cfg, GroupOf[i])}
    ELSE {i \in Room(cfg) : \A j \in Room(cfg) :
             \/ Remaining(cfg, i) > Remaining(cfg, j)
             \/ /\ Remaining(cfg, i) = Remaining(cfg, j)
                /\ OwnSends(i) <= OwnSends(j)}

-----------------------------------------------------------------------------
(* Resolving the sender.                                                   *)

Resolve(w, sender, slot) ==
    /\ pc' = [pc EXCEPT ![w] = "routed"]
    /\ job' = [job EXCEPT ![w].sender = sender, ![w].slot = slot]

\* The pin is read before the capacity lock is taken.  A pinned person's email
\* goes to the pin, without a cap check; a pin out of the pool is an error.
Look(w, e) ==
    LET p == To[e]
        pinned == pin[p] # Nobody
    IN  /\ pc[w] = "idle"
        /\ pinned => pin[p] \in pool
        /\ pc' = [pc EXCEPT ![w] = IF pinned THEN "routed" ELSE "looked"]
        /\ job' = [job EXCEPT ![w] =
               [email |-> e, cfg |-> pool, sender |-> pin[p], slot |-> 0,
                first |-> ~pinned, day |-> today]]
        /\ UNCHANGED <<pool, pin, held, picks, rowVars, today, wireVars>>

\* Mutant: assignSender replaces an assignment that is there.
AssignedAfresh(p, i) == i

\* assignSender: INSERT OR IGNORE and read back, so the first pin wins.
Assigned(p, i) == IF pin[p] = Nobody THEN i ELSE pin[p]

\* The winner of the pin, unless this worker's pool does not list it.
Listed(cfg, winner, picked) == IF winner \in cfg THEN winner ELSE picked

LegacyPinned(w) == To[job[w].email] \in Legacy /\ LegacyIdentity \in job[w].cfg

LazyPin(w) ==
    LET p == To[job[w].email]
        winner == Assigned(p, LegacyIdentity)
    IN  /\ pc[w] = "looked" /\ LegacyPinned(w)
        /\ pin' = [pin EXCEPT ![p] = winner]
        /\ Resolve(w, Listed(job[w].cfg, winner, LegacyIdentity), 0)
        /\ UNCHANGED <<pool, held, picks, rowVars, today, wireVars>>

\* Under the capacity lock: pick, pin and reserve.  Nothing is reserved for an
\* uncapped pick or for one that lost the pin to another identity.
Pick(w) ==
    LET p == To[job[w].email]
        cfg == job[w].cfg
    IN  /\ pc[w] = "looked" /\ ~LegacyPinned(w)
        /\ \E i \in Candidates(cfg) :
             LET winner == Assigned(p, i)
                 reserves == winner = i /\ CappedGroup(cfg, GroupOf[i])
             IN  /\ pin' = [pin EXCEPT ![p] = winner]
                 /\ reserves => picks < MaxPicks
                 /\ picks' = IF reserves THEN picks + 1 ELSE picks
                 /\ held' = IF reserves
                            THEN held \cup {[id |-> picks', ident |-> i]}
                            ELSE held
                 /\ Resolve(w, Listed(cfg, winner, i),
                            IF reserves THEN picks' ELSE 0)
        /\ UNCHANGED <<pool, rowVars, today, wireVars>>

Done(w) ==
    /\ pc' = [pc EXCEPT ![w] = "idle"]
    /\ job' = [job EXCEPT ![w] = NoJob]

\* SendDeferredError: nobody has room today.
Defer(w) ==
    /\ pc[w] = "looked" /\ ~LegacyPinned(w)
    /\ Candidates(job[w].cfg) = {}
    /\ Done(w)
    /\ UNCHANGED <<pool, pin, held, picks, rowVars, today, wireVars>>

-----------------------------------------------------------------------------
(* The send.                                                               *)

Without(slot) == {h \in held : h.id # slot}

RequestOf(w) ==
    [email |-> job[w].email, ident |-> job[w].sender, day |-> job[w].day,
     first |-> job[w].first, slot |-> job[w].slot # 0]

\* The claim says send.
ClaimSend(w) ==
    LET e == job[w].email
    IN  /\ pc[w] = "routed"
        /\ row[e].status \in {"absent", "failed"}
        /\ row' = [row EXCEPT ![e] =
               [status |-> "pending", ident |-> job[w].sender, day |-> today,
                receipt |-> FALSE]]
        /\ pc' = [pc EXCEPT ![w] = "sending"]
        /\ job' = [job EXCEPT ![w].day = today]
        /\ wire' = wire \cup {[RequestOf(w) EXCEPT !.day = today]}
        /\ UNCHANGED <<pool, pin, held, picks, today, out, receipts>>

\* in_flight or uncertain: an earlier attempt may have sent it, so this one is
\* refused and keeps its reservation.  A pending row may be stale by now.
ClaimRefused(w) ==
    LET e == job[w].email
    IN  /\ pc[w] = "routed"
        /\ row[e].status \in {"pending", "uncertain"}
        /\ row' \in {row, [row EXCEPT ![e].status = "uncertain"]}
        /\ Done(w)
        /\ UNCHANGED <<pool, pin, held, picks, receipts, today, wireVars>>

\* already_sent: with a receipt on the row there is nothing to do but free the
\* slot; without one the worker goes on to write it.
ClaimReplayed(w) ==
    LET e == job[w].email
    IN  /\ pc[w] = "routed"
        /\ row[e].status = "settled"
        /\ IF row[e].receipt
           THEN Done(w) /\ held' = Without(job[w].slot) /\ UNCHANGED receipts
           ELSE /\ pc' = [pc EXCEPT ![w] = "receipted"]
                /\ \/ receipts' = receipts \cup
                         {[email |-> e, ident |-> job[w].sender,
                           day |-> today, replay |-> TRUE]}
                   \/ /\ \E r \in receipts : r.email = e
                      /\ UNCHANGED receipts
                /\ held' = Without(job[w].slot)
                /\ UNCHANGED job
        /\ UNCHANGED <<pool, pin, picks, row, today, wireVars>>

\* The receipt and the end of its reservation are one transaction.
WriteReceipt(w) ==
    /\ pc[w] = "sending" /\ RequestOf(w) \in out
    /\ receipts' = receipts \cup
          {[email |-> job[w].email, ident |-> job[w].sender, day |-> today,
            replay |-> FALSE]}
    /\ held' = Without(job[w].slot)
    /\ pc' = [pc EXCEPT ![w] = "receipted"]
    /\ UNCHANGED <<pool, pin, picks, row, today, job, wireVars>>

MarkSettled(w) ==
    /\ pc[w] = "receipted"
    /\ row' = [row EXCEPT ![job[w].email].status = "settled",
                          ![job[w].email].receipt = TRUE]
    /\ held' = Without(job[w].slot)
    /\ Done(w)
    /\ UNCHANGED <<pool, pin, picks, receipts, today, wireVars>>

\* A definite failure frees the slot.
FailDefinite(w) ==
    /\ pc[w] = "sending" /\ RequestOf(w) \notin out
    /\ wire' = wire \ {RequestOf(w)}
    /\ row' = [row EXCEPT ![job[w].email].status = "failed"]
    /\ held' = Without(job[w].slot)
    /\ Done(w)
    /\ UNCHANGED <<pool, pin, picks, receipts, today, out>>

\* An unknown outcome keeps the slot.
FailUnknown(w) ==
    /\ pc[w] = "sending"
    /\ row' = [row EXCEPT ![job[w].email].status = "uncertain"]
    /\ Done(w)
    /\ UNCHANGED <<pool, pin, held, picks, receipts, today, wireVars>>

Crash(w) ==
    /\ Crashes
    /\ pc[w] # "idle"
    /\ Done(w)
    /\ UNCHANGED <<pool, pin, held, picks, rowVars, today, wireVars>>

-----------------------------------------------------------------------------
(* The providers, the clock, the confirm sweep, and the founder.           *)

Accept(r) ==
    /\ wire' = wire \ {r}
    /\ out' = out \cup {r}
    /\ UNCHANGED <<pool, pin, held, picks, rowVars, today, pc, job>>

Lose(r) ==
    /\ \A w \in Worker : pc[w] = "sending" => RequestOf(w) # r
    /\ wire' = wire \ {r}
    /\ UNCHANGED <<pool, pin, held, picks, rowVars, today, pc, job, out>>

\* A reservation reaches its TTL.
Expire(h) ==
    /\ Patient => \A w \in Worker : pc[w] # "idle" => job[w].slot # h.id
    /\ held' = held \ {h}
    /\ UNCHANGED <<pool, pin, picks, rowVars, today, pc, job, wireVars>>

Midnight ==
    /\ today < MaxDay
    /\ today' = today + 1
    /\ UNCHANGED <<pool, pin, held, picks, rowVars, pc, job, wireVars>>

\* The sweep settles an unknown outcome: what is out is confirmed; what is not
\* may be retried, or where Sent proves nothing is settled all the same.
Sweep(e) ==
    /\ row[e].status = "uncertain"
    /\ \A r \in wire : r.email # e
    /\ \A w \in Worker : pc[w] \in {"sending", "receipted"} => job[w].email # e
    /\ \E s \in {"failed", "settled"} :
         /\ s = "failed" => \A r \in out : r.email # e
         /\ row' = [row EXCEPT ![e].status = s]
    /\ UNCHANGED <<pool, pin, held, picks, receipts, today, pc, job, wireVars>>

Configure(cfg) ==
    /\ QuietSetup => \A w \in Worker : pc[w] # "looked"
    /\ pool' = cfg
    /\ UNCHANGED <<pin, held, picks, rowVars, today, pc, job, wireVars>>

Send(w) ==
    \/ \E e \in Email : Look(w, e)
    \/ LazyPin(w) \/ Pick(w) \/ Defer(w)
    \/ ClaimSend(w) \/ ClaimRefused(w) \/ ClaimReplayed(w)
    \/ WriteReceipt(w) \/ MarkSettled(w)
    \/ FailDefinite(w) \/ FailUnknown(w)

Next ==
    \/ \E w \in Worker : Send(w) \/ Crash(w)
    \/ \E r \in wire : Accept(r) \/ Lose(r)
    \/ \E h \in held : Expire(h)
    \/ \E e \in Email : Sweep(e)
    \/ \E cfg \in Pools : Configure(cfg)
    \/ Midnight

Spec == Init /\ [][Next]_vars

-----------------------------------------------------------------------------
(* Properties.                                                             *)

\* Every variable keeps its type: above all, no request leaves without a sender
\* (resolveSenderSlot returns an identity or throws).
TypeOK ==
    /\ pool \subseteq Identity
    /\ pin \in [Person -> Identity \cup {Nobody}]
    /\ held \subseteq Reservation /\ picks \in 0 .. MaxPicks
    /\ row \in [Email -> Row]
    /\ today \in Day
    /\ pc \in [Worker -> {"idle", "looked", "routed", "sending", "receipted"}]
    /\ job \in [Worker -> Job \cup {NoJob}]
    /\ wire \subseteq Request /\ out \subseteq Request
    /\ receipts \subseteq Receipt

Emailed(g, d) == {r \in out : GroupOf[r.ident] = g /\ r.day = d}

\* The emails a reservation was taken for never exceed their group's cap on
\* the day they were claimed, whatever times out, expires or passes midnight.
CapKept ==
    \A g \in Group, d \in Day :
        CappedGroup(Identity, g) =>
            Cardinality({r \in Emailed(g, d) : r.slot}) <= GroupCap(Identity, g)

\* An email that is out today under a reservation is in the count the next
\* pick reads: as a receipt, as an unknown outcome or as the reservation.
OutIsCounted ==
    \A g \in Group :
        Cardinality({r \in Emailed(g, today) : r.slot}) <= Used(Identity, g)

\* Every email to a person that goes out comes from one identity.
OneSenderPerPerson ==
    \A r, s \in out : To[r.email] = To[s.email] => r.ident = s.ident
=============================================================================
