--------------------------- MODULE ContactTouchProofs --------------------------
(***************************************************************************)
(* A first touch is alone, for any number of workspaces, addresses, people *)
(* and calls, with no assumption on crashes or on how long a call takes.   *)
(*                                                                         *)
(* The gate reads rows, the promise is about emails, so the invariant ties *)
(* them together: each email that is on its way or arrived within the      *)
(* window has its row (Covered), and a row is live unless it is a          *)
(* reservation.  Rows and emails are matched by id, so ids must not be     *)
(* used twice (OwnIds): else one call's failure could delete another's     *)
(* reservation.                                                            *)
(***************************************************************************)
EXTENDS ContactTouch, TLAPS

\* Emails there are rows to be found for, and those calls are busy with.
Emails == wire \cup mail \cup {job[t] : t \in {t \in Task : pc[t] = "sending"}}

OwnIds ==
    /\ \A j \in Emails : j \in Job /\ j.id \in 1 .. ids
    /\ \A j, k \in Emails : j.id = k.id => j = k

Row(j, h) == h.id = j.id /\ h.ws = j.ws /\ h.addr = j.addr

Covered ==
    \A j \in wire \cup mail : j.kind \in {"claimed", "override"} =>
        \E h \in touches : Row(j, h) /\ (h.live \/ h.status = "reserved")

Protected == TypeOK /\ OwnIds /\ Covered

\* A new email gets an id nobody has.
LEMMA StartProtects ==
    ASSUME TouchAssumption,
           Protected, NEW t \in Task, NEW ws \in Workspace, NEW a \in Address,
           NEW kind \in Kind, pc[t] = "idle", Start(t, ws, a, kind),
           \/ touches' = touches \cup {[id |-> ids + 1, ws |-> ws, addr |-> a,
                                        status |-> "reserved", live |-> TRUE]}
           \/ touches' = touches /\ kind \notin {"claimed", "override"},
           UNCHANGED <<person, mail>>
    PROVE  Protected'
  <1> DEFINE new == [id |-> ids + 1, ws |-> ws, addr |-> a, kind |-> kind]
             reserved == [id |-> ids + 1, ws |-> ws, addr |-> a,
                          status |-> "reserved", live |-> TRUE]
  <1> USE DEF Protected
  <1>1. /\ ids \in Nat /\ ids + 1 \in Id /\ ids' = ids + 1
        /\ job' = [job EXCEPT ![t] = new] /\ pc' = [pc EXCEPT ![t] = "sending"]
    BY DEF TouchAssumption, Start, TypeOK, Id
  <1>2. job'[t] = new /\ new \in Job
    BY <1>1 DEF TypeOK, Job
  <1>3. wire' = wire \cup {new}
    BY <1>2 DEF Start
  <1>4. \A u \in Task : u # t => job'[u] = job[u] /\ pc'[u] = pc[u]
    BY <1>1 DEF TypeOK
  <1>5. Emails' \subseteq Emails \cup {new}
    BY <1>2, <1>3, <1>4 DEF Emails
  <1>7. reserved \in Touch
    BY <1>1 DEF Touch
  <1>8. ids' \in 0 .. MaxTouches
    BY <1>1 DEF TouchAssumption, Id
  <1>9. TypeOK'
    BY <1>1, <1>2, <1>3, <1>7, <1>8 DEF TypeOK
  <1>10. OwnIds'
    <2>1. \A j \in Emails : j \in Job /\ j.id \in 1 .. ids' /\ j.id # new.id
      BY <1>1 DEF OwnIds
    <2>2. new.id \in 1 .. ids'
      BY <1>1
    <2> QED
      BY <1>2, <1>5, <2>1, <2>2 DEF OwnIds
  <1>11. Covered'
    <2> SUFFICES ASSUME NEW j \in wire' \cup mail', j.kind \in {"claimed", "override"}
                 PROVE  \E h \in touches' : Row(j, h) /\ (h.live \/ h.status = "reserved")
      BY DEF Covered
    <2>1. CASE j = new
      <3>1. reserved \in touches'
        BY <2>1
      <3> QED
        BY <2>1, <3>1 DEF Row
    <2>2. CASE j # new
      BY <2>2, <1>3 DEF Covered
    <2> QED
      BY <2>1, <2>2
  <1> QED
    BY <1>9, <1>10, <1>11

\* A step that keeps a live row or a reservation for every email that is left.
LEMMA KeepProtects ==
    ASSUME Protected, TypeOK', Emails' \subseteq Emails, ids' = ids,
           \A j \in wire' \cup mail' : \A h \in touches :
              Row(j, h) /\ (h.live \/ h.status = "reserved") =>
                 \E g \in touches' : Row(j, g) /\ (g.live \/ g.status = "reserved"),
           wire' \cup mail' \subseteq wire \cup mail
    PROVE  Protected'
  <1>1. OwnIds'
    BY DEF Protected, OwnIds
  <1>2. Covered'
    BY DEF Protected, Covered
  <1> QED
    BY <1>1, <1>2 DEF Protected

LEMMA DoneEmails ==
    ASSUME TypeOK, NEW t \in Task, Done(t), wire' \cup mail' \subseteq wire \cup mail
    PROVE  /\ Emails' \subseteq Emails
           /\ pc' \in [Task -> {"idle", "sending"}]
           /\ job' \in [Task -> Job \cup {NoJob}]
  <1>1. \A u \in Task : pc'[u] = "sending" => pc[u] = "sending" /\ job'[u] = job[u]
    BY DEF Done, TypeOK
  <1> QED
    BY <1>1 DEF Emails, Done, TypeOK

LEMMA ConfirmedRows ==
    ASSUME TypeOK, NEW id
    PROVE  /\ Confirmed(id) \subseteq Touch
           /\ \A j : \A h \in touches : Row(j, h) /\ (h.live \/ h.status = "reserved") =>
                 \E g \in Confirmed(id) : Row(j, g) /\ (g.live \/ g.status = "reserved")
  <1> DEFINE new(h) == [h EXCEPT !.status = "sent", !.live = TRUE]
  <1>1. \A h \in touches : /\ new(h) \in Touch /\ new(h).id = h.id /\ new(h).ws = h.ws
                           /\ new(h).addr = h.addr /\ new(h).live
    BY DEF TypeOK, Touch
  <1>2. \A h \in touches : IF h.id = id THEN new(h) \in Confirmed(id) ELSE h \in Confirmed(id)
    BY DEF Confirmed
  <1>3. Confirmed(id) \subseteq Touch
    BY <1>1 DEF Confirmed, TypeOK
  <1>4. ASSUME NEW j, NEW h \in touches, Row(j, h), h.live \/ h.status = "reserved"
        PROVE  \E g \in Confirmed(id) : Row(j, g) /\ (g.live \/ g.status = "reserved")
    <2>1. CASE h.id = id
      BY <1>1, <1>2, <1>4, <2>1 DEF Row
    <2>2. CASE h.id # id
      BY <1>2, <1>4, <2>2
    <2> QED
      BY <2>1, <2>2
  <1> QED
    BY <1>3, <1>4

\* The reservation as the row it is.
LEMMA ReservedRow ==
    ASSUME TypeOK, NEW t \in Task, NEW ws, NEW a, NEW kind, Start(t, ws, a, kind)
    PROVE  Reserved(t) = [id |-> ids + 1, ws |-> ws, addr |-> a,
                          status |-> "reserved", live |-> TRUE]
  <1>1. job'[t] = [id |-> ids + 1, ws |-> ws, addr |-> a, kind |-> kind]
    BY DEF Start, TypeOK
  <1> QED
    BY <1>1 DEF Reserved

LEMMA InitProtects ==
    ASSUME TouchAssumption PROVE Init => Protected
  <1> SUFFICES ASSUME Init PROVE Protected
    OBVIOUS
  <1>1. TypeOK
    BY DEF TouchAssumption, Init, TypeOK
  <1>2. Emails = {} /\ Covered
    BY DEF Init, Emails, Covered
  <1> QED
    BY <1>1, <1>2 DEF Protected, OwnIds

LEMMA NextProtects ==
    ASSUME TouchAssumption PROVE Protected /\ [Next]_vars => Protected'
  <1> SUFFICES ASSUME Protected, [Next]_vars PROVE Protected'
    OBVIOUS
  <1>0. TypeOK
    BY DEF Protected
  <1>1. ASSUME NEW t \in Task, NEW ws \in Workspace, NEW a \in Address,
               Claim(t, ws, a) \/ Override(t, ws, a) \/ Ungated(t, ws, a)
        PROVE  Protected'
    <2>1. CASE Claim(t, ws, a)
      <3>1. /\ pc[t] = "idle" /\ Start(t, ws, a, "claimed")
            /\ touches' = touches \cup {[id |-> ids + 1, ws |-> ws, addr |-> a,
                                          status |-> "reserved", live |-> TRUE]}
            /\ UNCHANGED <<person, mail>>
        BY <1>0, <2>1, ReservedRow DEF Claim
      <3>2. "claimed" \in Kind
        BY DEF Kind
      <3> QED
        BY <3>1, <3>2, StartProtects
    <2>2. CASE Override(t, ws, a)
      <3>1. /\ pc[t] = "idle" /\ Start(t, ws, a, "override")
            /\ touches' = touches \cup {[id |-> ids + 1, ws |-> ws, addr |-> a,
                                          status |-> "reserved", live |-> TRUE]}
            /\ UNCHANGED <<person, mail>>
        BY <1>0, <2>2, ReservedRow DEF Override
      <3>2. "override" \in Kind
        BY DEF Kind
      <3> QED
        BY <3>1, <3>2, StartProtects
    <2>3. CASE Ungated(t, ws, a)
      <3>1. PICK kind \in {"reply", "open"} : Start(t, ws, a, kind)
        BY <2>3 DEF Ungated
      <3> QED
        BY <2>3, <3>1, StartProtects DEF Ungated, Kind
    <2> QED
      BY <1>1, <2>1, <2>2, <2>3
  <1>2. ASSUME NEW t \in Task, Succeed(t) PROVE Protected'
    <2>1. /\ job[t] \in Job
      BY <1>0, <1>2 DEF Succeed, TypeOK
    <2>2. /\ Emails' \subseteq Emails
          /\ pc' \in [Task -> {"idle", "sending"}]
          /\ job' \in [Task -> Job \cup {NoJob}]
      BY <1>0, <1>2, DoneEmails DEF Succeed
    <2> DEFINE reply == [id |-> job[t].id, ws |-> job[t].ws, addr |-> job[t].addr,
                         status |-> "sent", live |-> TRUE]
    <2>3. reply \in Touch
      BY <2>1 DEF Job, Touch
    <2>4. touches' \in {touches, touches \cup {reply}, Confirmed(job[t].id)}
      BY <1>2, <2>1 DEF Succeed, Job, Kind
    <2>5. TypeOK'
      BY <1>0, <1>2, <2>2, <2>3, <2>4, ConfirmedRows DEF Succeed, TypeOK
    <2> QED
      BY <1>0, <1>2, <2>2, <2>4, <2>5, ConfirmedRows, KeepProtects DEF Succeed
  <1>3. ASSUME NEW t \in Task, Fail(t) PROVE Protected'
    <2>1. /\ Emails' \subseteq Emails
          /\ pc' \in [Task -> {"idle", "sending"}]
          /\ job' \in [Task -> Job \cup {NoJob}]
          /\ wire' \cup mail' \subseteq wire \cup mail
      BY <1>0, <1>3, DoneEmails DEF Fail
    <2>2. TypeOK'
      BY <1>0, <1>3, <2>1 DEF Fail, TypeOK, Released
    <2>3. job[t] \in Emails /\ job[t] \notin wire' \cup mail'
      BY <1>3 DEF Fail, Emails
    <2>4. \A j \in wire' \cup mail' : j.id # job[t].id
      BY <2>1, <2>3 DEF Protected, OwnIds, Emails
    <2>5. \A j \in wire' \cup mail' : \A h \in touches : Row(j, h) => h \in touches'
      BY <1>3, <2>4 DEF Fail, Released, Row
    <2> QED
      BY <1>3, <2>1, <2>2, <2>5, KeepProtects DEF Fail
  <1>4. ASSUME NEW t \in Task, Unknown(t) PROVE Protected'
    <2>1. /\ Emails' \subseteq Emails
          /\ pc' \in [Task -> {"idle", "sending"}]
          /\ job' \in [Task -> Job \cup {NoJob}]
      BY <1>0, <1>4, DoneEmails DEF Unknown
    <2>2. TypeOK'
      BY <1>0, <1>4, <2>1, ConfirmedRows DEF Unknown, TypeOK
    <2> QED
      BY <1>0, <1>4, <2>1, <2>2, ConfirmedRows, KeepProtects DEF Unknown
  <1>5. ASSUME NEW t \in Task, Crash(t) PROVE Protected'
    <2>1. /\ Emails' \subseteq Emails
          /\ pc' \in [Task -> {"idle", "sending"}]
          /\ job' \in [Task -> Job \cup {NoJob}]
      BY <1>0, <1>5, DoneEmails DEF Crash
    <2>2. TypeOK'
      BY <1>0, <1>5, <2>1 DEF Crash, TypeOK
    <2> QED
      BY <1>5, <2>1, <2>2, KeepProtects DEF Crash
  <1>6. ASSUME NEW j \in wire, Arrive(j) \/ Lose(j) PROVE Protected'
    <2>1. TypeOK' /\ Emails' \subseteq Emails
      BY <1>0, <1>6 DEF Arrive, Lose, TypeOK, Emails
    <2> QED
      BY <1>6, <2>1, KeepProtects DEF Arrive, Lose
  <1>7. ASSUME NEW j \in mail, MailAges(j) PROVE Protected'
    <2>1. TypeOK' /\ Emails' \subseteq Emails
      BY <1>0, <1>7 DEF MailAges, TypeOK, Emails
    <2> QED
      BY <1>7, <2>1, KeepProtects DEF MailAges
  <1>8. ASSUME NEW h \in touches, Expire(h) \/ TouchAges(h) PROVE Protected'
    <2> DEFINE old == [h EXCEPT !.live = FALSE]
    <2>1. /\ old \in Touch /\ old.status = h.status /\ old.id = h.id
          /\ old.ws = h.ws /\ old.addr = h.addr
      BY <1>0 DEF TypeOK, Touch
    <2>2. /\ touches' = (touches \ {h}) \cup {old}
          /\ UNCHANGED <<ids, person, pc, job, wire, mail>>
      BY <1>8 DEF Expire, TouchAges
    <2>3. TypeOK' /\ Emails' = Emails
      BY <1>0, <2>1, <2>2 DEF TypeOK, Emails
    <2>4. h.status = "reserved" \/ \A j \in wire \cup mail : j.id # h.id
      BY <1>8 DEF Expire, TouchAges
    <2>5. \A j \in wire' \cup mail' : \A g \in touches :
             Row(j, g) /\ (g.live \/ g.status = "reserved") =>
                \E f \in touches' : Row(j, f) /\ (f.live \/ f.status = "reserved")
      <3> SUFFICES ASSUME NEW j \in wire \cup mail, NEW g \in touches, Row(j, g),
                          g.live \/ g.status = "reserved"
                   PROVE  \E f \in touches' : Row(j, f) /\ (f.live \/ f.status = "reserved")
        BY <2>2
      <3>1. CASE g = h
        <4>1. old.status = "reserved" /\ Row(j, old) /\ old \in touches'
          BY <2>1, <2>2, <2>4, <3>1 DEF Row
        <4> QED
          BY <4>1
      <3>2. CASE g # h
        BY <2>2, <3>2
      <3> QED
        BY <3>1, <3>2
    <2> QED
      BY <2>2, <2>3, <2>5, KeepProtects
  <1>9. ASSUME NEW a \in Address, NEW p \in Person, Link(a, p) PROVE Protected'
    <2>1. TypeOK' /\ Emails' = Emails
      BY <1>0, <1>9 DEF Link, TypeOK, Emails
    <2> QED
      BY <1>9, <2>1, KeepProtects DEF Link
  <1>10. CASE UNCHANGED vars
    <2>1. TypeOK' /\ Emails' = Emails
      BY <1>0, <1>10 DEF vars, TypeOK, Emails
    <2> QED
      BY <1>10, <2>1, KeepProtects DEF vars
  <1>11. CASE Next
    BY <1>1, <1>2, <1>3, <1>4, <1>5, <1>6, <1>7, <1>8, <1>9, <1>11 DEF Next, Send
  <1> QED
    BY <1>10, <1>11

\* The rows and calls of the shared touch table have their types.
THEOREM TypeCorrect ==
    ASSUME TouchAssumption PROVE Spec => []TypeOK
  <1>1. Protected => TypeOK
    BY DEF Protected
  <1> QED
    BY <1>1, InitProtects, NextProtects, PTL DEF Spec

\* claimTouch never succeeds beside an email of another workspace to the same
\* person that is on its way or arrived in the last 7 days.
THEOREM FirstTouchAlone ==
    ASSUME TouchAssumption PROVE Spec => FirstTouchIsAlone
  <1> DEFINE Alone ==
        \A t \in Task :
          pc[t] = "idle" /\ pc'[t] = "sending" /\ job'[t].kind = "claimed" =>
            \A j \in wire \cup mail :
              Answerable(j) /\ j.addr \in ContactEmails(job'[t].addr) => j.ws = job'[t].ws
  <1>1. Protected /\ [Next]_vars => [Alone]_vars
    <2> SUFFICES ASSUME Protected, Next, NEW t \in Task, pc[t] = "idle",
                        pc'[t] = "sending", job'[t].kind = "claimed",
                        NEW j \in wire \cup mail, Answerable(j),
                        j.addr \in ContactEmails(job'[t].addr)
                 PROVE  j.ws = job'[t].ws
      OBVIOUS
    <2>0. TypeOK
      BY DEF Protected
    <2>1. PICK ws \in Workspace, a \in Address : Claim(t, ws, a)
      <3>1. ASSUME NEW u \in Task, Done(u) PROVE pc'[t] # "sending"
        BY <3>1, <2>0 DEF Done, TypeOK
      <3>2. ASSUME NEW u \in Task, NEW ws \in Workspace, NEW a \in Address, NEW kind,
                   Start(u, ws, a, kind)
            PROVE  u = t /\ kind = "claimed"
        BY <3>2, <2>0 DEF Start, TypeOK
      <3>3. \E u \in Task, ws \in Workspace, a \in Address : Claim(u, ws, a) /\ u = t
        BY <3>1, <3>2 DEF Next, Send, Claim, Override, Ungated, Succeed, Fail, Unknown,
                          Crash, Arrive, Lose, Expire, TouchAges, MailAges, Link
      <3> QED
        BY <3>3
    <2>2. job'[t].ws = ws /\ job'[t].addr = a
      BY <2>0, <2>1 DEF Claim, Start, TypeOK
    <2>3. PICK h \in touches : Row(j, h) /\ (h.live \/ h.status = "reserved")
      BY DEF Protected, Covered, Answerable
    <2>4. h.live
      BY <2>3 DEF Answerable, Row
    <2>5. ~(h.ws # ws /\ h.addr \in ContactEmails(a))
      BY <2>1, <2>4 DEF Claim, TouchedElsewhere
    <2> QED
      BY <2>2, <2>3, <2>5 DEF Row
  <1> QED
    BY <1>1, InitProtects, NextProtects, PTL DEF Spec, FirstTouchIsAlone
=============================================================================
