----------------------------- MODULE ContactTouch -----------------------------
(***************************************************************************)
(* One person, one product at a time: the contact_touches table that every *)
(* workspace's processes share.  sendEmail claims the address before any   *)
(* routing or network (another workspace's live touch refuses it), sends,  *)
(* and then confirms or releases its reservation; replies send first and   *)
(* record a touch afterwards.  A touch holds every address known to be the *)
(* same person's, as of the moment someone asks.                           *)
(*                                                                         *)
(* Time is two classes per row: a reservation is within its TTL or not, a  *)
(* confirmed touch or an email is within the window of 7 days or not.      *)
(***************************************************************************)
EXTENDS Naturals, FiniteSets

CONSTANTS Workspace, Address,
          Person,     \* shared people, to whom addresses may be linked
          Task,       \* calls of sendEmail and replyEmail, in any process
          MaxTouches, \* bound of this model on rows of contact_touches
          Unlinked    \* no person: the address has no row in person_aliases

\* What the theorems assume of the constants.
TouchAssumption == Unlinked \notin Person /\ MaxTouches \in Nat

VARIABLES touches, \* contact_touches
          ids,     \* ids given so far
          person,  \* person_aliases: [Address -> Person \cup {Unlinked}]
          pc, job, \* where each call is, and the email it makes
          wire,    \* emails on their way
          mail     \* emails that arrived in the last 7 days

vars == <<touches, ids, person, pc, job, wire, mail>>

Id == 1 .. MaxTouches

Touch == [id : Id, ws : Workspace, addr : Address,
          status : {"reserved", "sent"}, live : BOOLEAN]

\* "claimed" emails asked the gate, "override" ones reserved without asking,
\* "reply" ones record afterwards, "open" ones found the database failing.
Kind == {"claimed", "override", "reply", "open"}
Job == [id : Id, ws : Workspace, addr : Address, kind : Kind]
NoJob == [kind |-> "none"]

Init ==
    /\ touches = {} /\ ids = 0
    /\ person = [a \in Address |-> Unlinked]
    /\ pc = [t \in Task |-> "idle"]
    /\ job = [t \in Task |-> NoJob]
    /\ wire = {} /\ mail = {}

-----------------------------------------------------------------------------

\* contactEmails: the address and every other one of the same person.
ContactEmails(a) ==
    {a} \cup {b \in Address : person[a] # Unlinked /\ person[b] = person[a]}

\* recentTouchElsewhere
TouchedElsewhere(ws, a) ==
    \E h \in touches : h.live /\ h.ws # ws /\ h.addr \in ContactEmails(a)

Start(t, ws, a, kind) ==
    /\ ids < MaxTouches
    /\ ids' = ids + 1
    /\ pc' = [pc EXCEPT ![t] = "sending"]
    /\ job' = [job EXCEPT ![t] = [id |-> ids', ws |-> ws, addr |-> a, kind |-> kind]]
    /\ wire' = wire \cup {job'[t]}

\* The reservation of the email t starts.
Reserved(t) ==
    [id |-> job'[t].id, ws |-> job'[t].ws, addr |-> job'[t].addr,
     status |-> "reserved", live |-> TRUE]

\* claimTouch: check and reserve in one IMMEDIATE transaction.
Claim(t, ws, a) ==
    /\ pc[t] = "idle"
    /\ ~TouchedElsewhere(ws, a)
    /\ Start(t, ws, a, "claimed")
    /\ touches' = touches \cup {Reserved(t)}
    /\ UNCHANGED <<person, mail>>

\* reserveTouch: the founder's manual send is not refused, but it is visible.
Override(t, ws, a) ==
    /\ pc[t] = "idle"
    /\ Start(t, ws, a, "override")
    /\ touches' = touches \cup {Reserved(t)}
    /\ UNCHANGED <<person, mail>>

\* replyEmail is not gated; without the shared database nothing is.
Ungated(t, ws, a) ==
    /\ pc[t] = "idle"
    /\ \E kind \in {"reply", "open"} : Start(t, ws, a, kind)
    /\ UNCHANGED <<touches, person, mail>>

Done(t) ==
    /\ pc' = [pc EXCEPT ![t] = "idle"]
    /\ job' = [job EXCEPT ![t] = NoJob]

\* confirmTouch: an UPDATE by id, which also revives an expired reservation.
Confirmed(id) ==
    {h \in touches : h.id # id}
    \cup {[h EXCEPT !.status = "sent", !.live = TRUE] : h \in {h \in touches : h.id = id}}

\* releaseTouch
Released(id) == {h \in touches : ~(h.id = id /\ h.status = "reserved")}

\* The email went out: the reservation is confirmed, or the reply recorded.
Succeed(t) ==
    /\ pc[t] = "sending"
    /\ job[t] \in mail
    /\ touches' = CASE job[t].kind = "reply" ->
                         touches \cup {[id |-> job[t].id, ws |-> job[t].ws,
                             addr |-> job[t].addr, status |-> "sent", live |-> TRUE]}
                    [] job[t].kind = "open" -> touches
                    [] OTHER -> Confirmed(job[t].id)
    /\ Done(t)
    /\ UNCHANGED <<ids, person, wire, mail>>

\* A definite failure: nobody was touched.
Fail(t) ==
    /\ pc[t] = "sending"
    /\ job[t] \notin mail
    /\ touches' = Released(job[t].id)
    /\ wire' = wire \ {job[t]}
    /\ Done(t)
    /\ UNCHANGED <<ids, person, mail>>

\* Mutant: an unknown outcome is treated as a failure.
UnknownReleases(t) ==
    /\ pc[t] = "sending"
    /\ touches' = Released(job[t].id)
    /\ Done(t)
    /\ UNCHANGED <<ids, person, wire, mail>>

\* An unknown outcome keeps the touch; a reply with one records nothing.
Unknown(t) ==
    /\ pc[t] = "sending"
    /\ touches' = Confirmed(job[t].id)
    /\ Done(t)
    /\ UNCHANGED <<ids, person, wire, mail>>

Crash(t) ==
    /\ pc[t] # "idle"
    /\ Done(t)
    /\ UNCHANGED <<touches, ids, person, wire, mail>>

-----------------------------------------------------------------------------

Arrive(j) ==
    /\ wire' = wire \ {j}
    /\ mail' = mail \cup {j}
    /\ UNCHANGED <<touches, ids, person, pc, job>>

Lose(j) ==
    /\ \A t \in Task : job[t] # j
    /\ wire' = wire \ {j}
    /\ UNCHANGED <<touches, ids, person, pc, job, mail>>

\* RESERVATION_TTL_MS after the reservation, whoever is still sending.
Expire(h) ==
    /\ h.live /\ h.status = "reserved"
    /\ touches' = (touches \ {h}) \cup {[h EXCEPT !.live = FALSE]}
    /\ UNCHANGED <<ids, person, pc, job, wire, mail>>

\* CONTACT_TOUCH_WINDOW_MS after the email arrived.  No call lasts that long.
MailAges(j) ==
    /\ \A t \in Task : job[t] # j
    /\ mail' = mail \ {j}
    /\ UNCHANGED <<touches, ids, person, pc, job, wire>>

\* CONTACT_TOUCH_WINDOW_MS after the touch was confirmed, which was not before
\* its email arrived; an email that is still on its way is younger than that.
TouchAges(h) ==
    /\ h.live /\ h.status = "sent"
    /\ \A j \in wire \cup mail : j.id # h.id
    /\ touches' = (touches \ {h}) \cup {[h EXCEPT !.live = FALSE]}
    /\ UNCHANGED <<ids, person, pc, job, wire, mail>>

\* SharedPeople.resolve: a new address is linked to a person; two people are
\* never merged.
Link(a, p) ==
    /\ person[a] = Unlinked
    /\ person' = [person EXCEPT ![a] = p]
    /\ UNCHANGED <<touches, ids, pc, job, wire, mail>>

Send(t) ==
    \/ \E ws \in Workspace, a \in Address :
          Claim(t, ws, a) \/ Override(t, ws, a) \/ Ungated(t, ws, a)
    \/ Succeed(t) \/ Fail(t) \/ Unknown(t)

Next ==
    \/ \E t \in Task : Send(t) \/ Crash(t)
    \/ \E j \in wire : Arrive(j) \/ Lose(j)
    \/ \E h \in touches : Expire(h) \/ TouchAges(h)
    \/ \E j \in mail : MailAges(j)
    \/ \E a \in Address, p \in Person : Link(a, p)

Spec == Init /\ [][Next]_vars

-----------------------------------------------------------------------------

\* Every variable keeps its type: the table's rows are reserved or sent, and a
\* call that sends holds the email it makes.
TypeOK ==
    /\ touches \subseteq Touch /\ ids \in 0 .. MaxTouches
    /\ person \in [Address -> Person \cup {Unlinked}]
    /\ pc \in [Task -> {"idle", "sending"}]
    /\ job \in [Task -> Job \cup {NoJob}]
    /\ wire \subseteq Job /\ mail \subseteq Job

\* An email that went through the gate or openly round it, and whose
\* reservation did not lapse unconfirmed (a process died, or still sends).
Answerable(j) ==
    /\ j.kind \in {"claimed", "override"}
    /\ \A h \in touches : h.id = j.id => h.status = "sent" \/ h.live

\* When a claim succeeds, no other workspace has such an email to that person
\* on its way, or one that arrived in the last 7 days, under any address that
\* is known to be theirs by now.
FirstTouchIsAlone ==
    [][\A t \in Task :
         pc[t] = "idle" /\ pc'[t] = "sending" /\ job'[t].kind = "claimed" =>
            \A j \in wire \cup mail :
               Answerable(j) /\ j.addr \in ContactEmails(job'[t].addr)
                  => j.ws = job'[t].ws]_vars
=============================================================================
