--------------------------- MODULE ReplySendProofs ---------------------------
(***************************************************************************)
(* What the composer says of a reply, for any number of windows and sends. *)
(* The composer's record is written by four parties who each know a part,  *)
(* so the invariant says what each part proves: a row that reads submitted *)
(* or confirmed, a copy or a finished job proves that the reply is out; a  *)
(* row that failed proves, unless a reason is named, that it never will be.*)
(***************************************************************************)
EXTENDS ReplySend, TLAPS

\* What shows a reply as sent is there only when it is out.
EvidenceIsOut ==
    /\ \A i \in Id : row[i] \in {"submitted", "confirmed"} => i \in out
    /\ \A i \in Id : task[i] = "filing" \/ job[i] = "sent" => i \in out
    /\ copy \subseteq out /\ stored \subseteq out

\* A send that was not begun has no handler, and the latest send has an id.
BegunSends ==
    /\ \A i \in Id : i \notin begun => task[i] = "none"
    /\ send.id \in Id <=> send.status # "none"

\* An email leaves by its claimed row only; nothing is asked of OneShot.
EmailShape ==
    channel # "linkedin" =>
        /\ \A i \in Id : job[i] = "none"
        /\ \A x \in Caller : call[x] = NoCall
        /\ \A i \in Id : task[i] \in {"none", "begun"} => row[i] = "absent"
        /\ \A i \in Id : row[i] = "absent" => i \notin out \cup wire /\ age[i] = 0
        /\ \A i \in Id : send.id = i /\ task[i] = "begun" => send.status = "pending"

\* A LinkedIn reply has no row, and is out when its job says so.
LinkedInShape ==
    channel = "linkedin" =>
        /\ \A i \in Id : row[i] = "absent" /\ age[i] = 0 /\ task[i] \notin {"calling", "filing"}
        /\ \A i \in Id : i \in out => job[i] = "sent"

\* What the sweep goes by: old requests have arrived or are lost, and a server
\* that files its copies has filed every message it took.
SweepIsRight ==
    /\ \A i \in Id : age[i] = 2 => i \notin wire /\ task[i] = "over"
    /\ channel = "gmail" => out \subseteq copy

\* A row that reads failed is of a reply that is not out and will not be.
FailedRows ==
    \A i \in Id : reason[i] = "none" =>
        /\ row[i] # "not_found"
        /\ row[i] = "failed" => i \notin out \cup wire

\* The latest send is not out and nothing under way can bring it out.
Never ==
    LET i == send.id IN
    /\ i \notin out
    /\ IF channel = "linkedin"
       THEN \/ job[i] = "failed"
            \/ /\ job[i] = "none" /\ i \notin wire /\ task[i] # "begun"
               /\ \A x \in Caller : call[x].id # i
               /\ send.status = "failed"
       ELSE i \notin wire /\ task[i] \notin {"none", "begun"}

FailedIsFinal ==
    send.status = "failed" /\ reason[send.id] = "none" => Never

\* A window with the latest revision has seen the send as sent, or would have
\* to look again: a draft saved since, or the emptying of the draft, sees to it.
Seen(w) == view[w].id = send.id /\ view[w].status \in {"sent"} \cup Unresolved
CurrentHasSeen ==
    send.id \in Id /\ reason[send.id] = "none" /\ (send.status = "sent" \/ ~send.same)
        => Never \/ \A w \in current : Seen(w)

\* What is known of every send, latest or not.
Rows ==
    /\ BegunSends /\ EvidenceIsOut /\ EmailShape /\ LinkedInShape /\ SweepIsRight
    /\ FailedRows /\ SentIsOut

Inv == TypeOK /\ Rows /\ FailedIsFinal /\ CurrentHasSeen
-----------------------------------------------------------------------------
(* The composer's record, and the initial state.                           *)

\* updateSend writes the latest send or nothing, and empties the draft at most.
LEMMA Updating ==
  ASSUME TypeOK, NEW i \in Id, NEW status \in {"sent", "failed"} \cup Unresolved,
         NEW req \in BOOLEAN, UpdateSend(i, status, req)
  PROVE  /\ send' \in Send /\ current' \subseteq Window
         /\ send.id # i => send' = send /\ current' = current
         /\ send.id = i => /\ send' = [send EXCEPT !.status = status, !.req = req]
                           /\ current' = IF status = "sent" /\ send.same THEN {} ELSE current
  BY DEF TypeOK, Send, UpdateSend, Unresolved, Id, NoId

LEMMA Initial == Init => Inv
  BY ReplyAssumption
  DEF Init, Inv, Rows, TypeOK, BegunSends, EvidenceIsOut, EmailShape, LinkedInShape, SweepIsRight,
      FailedRows, FailedIsFinal, CurrentHasSeen, SentIsOut, NoSend, NoCall, NoId, Send, View,
      Shown, Id, Caller, Unresolved, RowStatus

-----------------------------------------------------------------------------
(* One step per action.                                                    *)

\* The two actions whose parts are best seen apart: time, and an arrival.
LEMMA TickTypes == ASSUME Inv, NEW i \in Id, Tick(i) PROVE TypeOK'
<1>1. age' \in [Id -> 0 .. 2]
  BY DEF Inv, TypeOK, Tick
<1>2. QED BY <1>1 DEF Inv, TypeOK, Tick, draftVars, windowVars

LEMMA AcceptTypes == ASSUME Inv, NEW i \in Id, Accept(i) PROVE TypeOK'
<1>1. job' \in [Id -> {"none", "running", "sent", "failed"}]
  BY DEF Inv, TypeOK, Accept
<1>2. wire' \subseteq Id /\ out' \subseteq Id /\ copy' \subseteq Id
  BY DEF Inv, TypeOK, Accept
<1>3. QED BY <1>1, <1>2 DEF Inv, TypeOK, Accept, draftVars, windowVars

LEMMA AcceptRows == ASSUME Inv, NEW i \in Id, Accept(i) PROVE Rows'
<1> USE DEF Inv, Rows
<1>1. CASE channel = "linkedin"
  <2>1. /\ UNCHANGED <<channel, begun, send, task, row, age, copy, stored, out, reason>>
        /\ wire' \subseteq wire
    BY <1>1 DEF Accept, draftVars
  <2>2. \A j \in Id : job[j] = "sent" <=> job'[j] = "sent"
    BY <1>1 DEF Accept, TypeOK
  <2>3. (BegunSends /\ EvidenceIsOut /\ SentIsOut)'
    BY <1>1, <2>1, <2>2 DEF BegunSends, EvidenceIsOut, SentIsOut
  <2>4. (EmailShape /\ LinkedInShape /\ SweepIsRight /\ FailedRows)'
    BY <1>1, <2>1, <2>2 DEF EmailShape, LinkedInShape, SweepIsRight, FailedRows
  <2>5. QED BY <2>3, <2>4
<1>2. CASE channel # "linkedin"
  <2>1. (BegunSends /\ EvidenceIsOut /\ SentIsOut)'
    BY <1>2 DEF Accept, draftVars, TypeOK, BegunSends, EvidenceIsOut, SentIsOut
  <2>2. (EmailShape /\ LinkedInShape)'
    BY <1>2 DEF Accept, draftVars, TypeOK, EmailShape, LinkedInShape
  <2>3. (SweepIsRight /\ FailedRows)'
    BY <1>2 DEF Accept, draftVars, TypeOK, SweepIsRight, FailedRows
  <2>4. QED BY <2>1, <2>2, <2>3
<1>3. QED BY <1>1, <1>2

\* Types, which rest on the ids of what was begun.
LEMMA TypeStep == Inv /\ [Next]_vars => TypeOK'
<1> SUFFICES ASSUME Inv, [Next]_vars PROVE TypeOK'
  OBVIOUS
<1> USE ReplyAssumption
   DEF Inv, Rows, BegunSends, TypeOK, Id, NoId, Send, View, RowStatus, Unresolved, Caller,
       NoCall, Shown, draftVars, windowVars, mailVars
<1>1. ASSUME NEW w \in Window, Refresh(w) PROVE TypeOK'
  BY <1>1 DEF Refresh
<1>2. ASSUME NEW w \in Window, SaveDrafts(w) PROVE TypeOK'
  BY <1>2 DEF SaveDrafts
<1>3. ASSUME NEW w \in Window, NEW i \in Id, BeginSend(w, i) PROVE TypeOK'
  BY <1>3 DEF BeginSend, BeginAllowed, PressedId
<1>4. ASSUME NEW w \in Window, NEW i \in Id, BeginRefused(w, i) PROVE TypeOK'
  BY <1>4 DEF BeginRefused, PressedId
<1>5. ASSUME NEW i \in Id, FailBeforeClaim(i) PROVE TypeOK'
  <2>1. PICK status \in {"failed", "uncertain"} : UpdateSend(i, status, FALSE)
    BY <1>5 DEF FailBeforeClaim
  <2>2. send' \in Send /\ current' \subseteq Window
    BY <2>1, Updating DEF Inv, TypeOK, Unresolved, Caller
  <2>3. QED
    BY <1>5, <2>2 DEF Inv, FailBeforeClaim, Step, windowVars, mailVars, TypeOK, View, Send
<1>6. ASSUME NEW i \in Id, ClaimReply(i) PROVE TypeOK'
  BY <1>6 DEF ClaimReply, Mark, Step
<1>7. ASSUME NEW i \in Id, FailDefinite(i) PROVE TypeOK'
  BY <1>7 DEF FailDefinite, Mark, Step, UpdateSend
<1>8. ASSUME NEW i \in Id, FailUnknown(i) PROVE TypeOK'
  BY <1>8 DEF FailUnknown, Mark, Step, UpdateSend
<1>9. ASSUME NEW i \in Id, Submitted(i) PROVE TypeOK'
  BY <1>9 DEF Submitted, Mark, Step
<1>10. ASSUME NEW i \in Id, Unsaved(i) PROVE TypeOK'
  BY <1>10 DEF Unsaved, Mark, Step, UpdateSend
<1>11. ASSUME NEW i \in Id, Answered(i) PROVE TypeOK'
  <2>1. PICK status \in {"sent", "uncertain"} : UpdateSend(i, status, FALSE)
    BY <1>11 DEF Answered
  <2>2. send' \in Send /\ current' \subseteq Window
    BY <2>1, Updating DEF Inv, TypeOK, Unresolved, Caller
  <2>3. QED
    BY <1>11, <2>2 DEF Inv, Answered, Step, windowVars, mailVars, TypeOK, View, Send
<1>12. ASSUME NEW i \in Id, AppendCopy(i) PROVE TypeOK'
  BY <1>12 DEF AppendCopy
<1>13. ASSUME NEW i \in Id, PostReply(i) PROVE TypeOK'
  BY <1>13 DEF PostReply, Step, Ask
<1>14. ASSUME NEW i \in Id, Poll(i) PROVE TypeOK'
  BY <1>14 DEF Poll, Mark
<1>15. ASSUME NEW i \in Id, Sweep(i) PROVE TypeOK'
  BY <1>15 DEF Sweep, Mark, Verdict
<1>16. ASSUME NEW i \in Id, Tick(i) PROVE TypeOK'
  BY <1>16, TickTypes
<1>17. ASSUME NEW i \in Id, Accept(i) PROVE TypeOK'
  BY <1>17, AcceptTypes
<1>18. ASSUME NEW i \in Id, Lose(i) PROVE TypeOK'
  BY <1>18 DEF Lose
<1>19. ASSUME NEW i \in Id, JobEnds(i) PROVE TypeOK'
  BY <1>19 DEF JobEnds
<1>20. ASSUME NEW x \in Caller, Answer(x) PROVE TypeOK'
  <2>1. call[x] \in [id : Id, req : BOOLEAN]
    BY <1>20 DEF Inv, TypeOK, Answer
  <2>2. PICK status \in AnswerOf(call[x].id) :
                UpdateSend(call[x].id, status, call[x].req \/ status # "uncertain")
    BY <1>20 DEF Answer
  <2>3. status \in {"sent", "failed"} \cup Unresolved
    BY <2>2 DEF AnswerOf, Unresolved
  <2>4. send' \in Send /\ current' \subseteq Window
    BY <2>1, <2>2, <2>3, Updating DEF Inv, TypeOK
  <2>5. QED
    BY <1>20, <2>4 DEF Inv, Answer, NoCall, windowVars, mailVars, TypeOK
<1>21. ASSUME NEW x \in Caller, Refused(x) PROVE TypeOK'
  BY <1>21 DEF Refused, UpdateSend
<1>22. CASE CheckEmail
  BY <1>22 DEF CheckEmail, Outcome, UpdateSend
<1>23. CASE CheckLinkedIn
  <2>1. send.id \in Id /\ send.req \in BOOLEAN
    BY <1>23 DEF Inv, TypeOK, Rows, BegunSends, Send, CheckLinkedIn, Unresolved
  <2>2. QED
    BY <1>23, <2>1 DEF Inv, TypeOK, CheckLinkedIn, Ask, Caller, draftVars, windowVars, mailVars
<1>24. CASE Crash
  BY <1>24 DEF Crash
<1>25. CASE UNCHANGED vars
  BY <1>25 DEF vars
<1>26. QED
  BY <1>1, <1>2, <1>3, <1>4, <1>5, <1>6, <1>7, <1>8, <1>9, <1>10, <1>11, <1>12, <1>13,
     <1>14, <1>15, <1>16, <1>17, <1>18, <1>19, <1>20, <1>21, <1>22, <1>23, <1>24, <1>25
  DEF Next, Handler

\* What rows, jobs, copies and requests prove of each send.
LEMMA RowsStep == Inv /\ [Next]_vars => Rows'
<1> SUFFICES ASSUME Inv, [Next]_vars PROVE Rows'
  OBVIOUS
<1> USE ReplyAssumption
   DEF Inv, Rows, TypeOK, Id, NoId, Send, View, RowStatus, Unresolved, Caller, NoCall, Shown,
       BegunSends, EvidenceIsOut, EmailShape, LinkedInShape, SweepIsRight, FailedRows, SentIsOut,
       draftVars, windowVars, mailVars
<1>1. ASSUME NEW w \in Window, Refresh(w) PROVE Rows'
  BY <1>1 DEF Refresh
<1>2. ASSUME NEW w \in Window, SaveDrafts(w) PROVE Rows'
  BY <1>2 DEF SaveDrafts
<1>3. ASSUME NEW w \in Window, NEW i \in Id, BeginSend(w, i) PROVE Rows'
  BY <1>3 DEF BeginSend, BeginAllowed, PressedId
<1>4. ASSUME NEW w \in Window, NEW i \in Id, BeginRefused(w, i) PROVE Rows'
  BY <1>4 DEF BeginRefused, PressedId
<1>5. ASSUME NEW i \in Id, FailBeforeClaim(i) PROVE Rows'
  BY <1>5 DEF FailBeforeClaim, Step, UpdateSend
<1>6. ASSUME NEW i \in Id, ClaimReply(i) PROVE Rows'
  BY <1>6 DEF ClaimReply, Mark, Step
<1>7. ASSUME NEW i \in Id, FailDefinite(i) PROVE Rows'
  BY <1>7 DEF FailDefinite, Mark, Step, UpdateSend
<1>8. ASSUME NEW i \in Id, FailUnknown(i) PROVE Rows'
  BY <1>8 DEF FailUnknown, Mark, Step, UpdateSend
<1>9. ASSUME NEW i \in Id, Submitted(i) PROVE Rows'
  BY <1>9 DEF Submitted, Mark, Step
<1>10. ASSUME NEW i \in Id, Unsaved(i) PROVE Rows'
  BY <1>10 DEF Unsaved, Mark, Step, UpdateSend
<1>11. ASSUME NEW i \in Id, Answered(i) PROVE Rows'
  BY <1>11 DEF Answered, Step, UpdateSend
<1>12. ASSUME NEW i \in Id, AppendCopy(i) PROVE Rows'
  BY <1>12 DEF AppendCopy
<1>13. ASSUME NEW i \in Id, PostReply(i) PROVE Rows'
  BY <1>13 DEF PostReply, Step, Ask
<1>14. ASSUME NEW i \in Id, Poll(i) PROVE Rows'
  BY <1>14 DEF Poll, Mark
<1>15. ASSUME NEW i \in Id, Sweep(i) PROVE Rows'
  BY <1>15 DEF Sweep, Mark, Verdict
<1>16. ASSUME NEW i \in Id, Tick(i) PROVE Rows'
  BY <1>16 DEF Tick
<1>17. ASSUME NEW i \in Id, Accept(i) PROVE Rows'
  BY <1>17, AcceptRows
<1>18. ASSUME NEW i \in Id, Lose(i) PROVE Rows'
  BY <1>18 DEF Lose
<1>19. ASSUME NEW i \in Id, JobEnds(i) PROVE Rows'
  BY <1>19 DEF JobEnds
<1>20. ASSUME NEW x \in Caller, Answer(x) PROVE Rows'
  BY <1>20 DEF Answer, AnswerOf, UpdateSend
<1>21. ASSUME NEW x \in Caller, Refused(x) PROVE Rows'
  BY <1>21 DEF Refused, UpdateSend
<1>22. CASE CheckEmail
  BY <1>22 DEF CheckEmail, Outcome, UpdateSend
<1>23. CASE CheckLinkedIn
  <2>1. send.id \in Id /\ channel = "linkedin"
    BY <1>23 DEF CheckLinkedIn
  <2>2. UNCHANGED <<channel, begun, send, task, row, age, copy, stored, out, job, reason>>
    BY <1>23 DEF CheckLinkedIn, draftVars, mailVars
  <2>3. \A j \in Id : age[j] # 2
    BY <2>1
  <2>4. QED BY <2>1, <2>2, <2>3
<1>24. CASE Crash
  BY <1>24 DEF Crash
<1>25. CASE UNCHANGED vars
  BY <1>25 DEF vars
<1>26. QED
  BY <1>1, <1>2, <1>3, <1>4, <1>5, <1>6, <1>7, <1>8, <1>9, <1>10, <1>11, <1>12, <1>13,
     <1>14, <1>15, <1>16, <1>17, <1>18, <1>19, <1>20, <1>21, <1>22, <1>23, <1>24, <1>25
  DEF Next, Handler

\* A send shown as failed without a reason is never brought out later.
LEMMA FinalStep == Inv /\ [Next]_vars => FailedIsFinal'
<1> SUFFICES ASSUME Inv, [Next]_vars PROVE FailedIsFinal'
  OBVIOUS
<1> USE ReplyAssumption
   DEF Inv, Rows, TypeOK, Id, NoId, Send, View, RowStatus, Unresolved, Caller, NoCall, Shown,
       FailedIsFinal, Never, BegunSends, EvidenceIsOut, EmailShape, LinkedInShape, SweepIsRight,
       FailedRows, SentIsOut, draftVars, windowVars, mailVars
<1>1. ASSUME NEW w \in Window, Refresh(w) PROVE FailedIsFinal'
  BY <1>1 DEF Refresh
<1>2. ASSUME NEW w \in Window, SaveDrafts(w) PROVE FailedIsFinal'
  BY <1>2 DEF SaveDrafts
<1>3. ASSUME NEW w \in Window, NEW i \in Id, BeginSend(w, i) PROVE FailedIsFinal'
  BY <1>3 DEF BeginSend, BeginAllowed, PressedId
<1>4. ASSUME NEW w \in Window, NEW i \in Id, BeginRefused(w, i) PROVE FailedIsFinal'
  BY <1>4 DEF BeginRefused, PressedId
<1>5. ASSUME NEW i \in Id, FailBeforeClaim(i) PROVE FailedIsFinal'
  BY <1>5 DEF FailBeforeClaim, Step, UpdateSend
<1>6. ASSUME NEW i \in Id, ClaimReply(i) PROVE FailedIsFinal'
  BY <1>6 DEF ClaimReply, Mark, Step
<1>7. ASSUME NEW i \in Id, FailDefinite(i) PROVE FailedIsFinal'
  BY <1>7 DEF FailDefinite, Mark, Step, UpdateSend
<1>8. ASSUME NEW i \in Id, FailUnknown(i) PROVE FailedIsFinal'
  BY <1>8 DEF FailUnknown, Mark, Step, UpdateSend
<1>9. ASSUME NEW i \in Id, Submitted(i) PROVE FailedIsFinal'
  BY <1>9 DEF Submitted, Mark, Step
<1>10. ASSUME NEW i \in Id, Unsaved(i) PROVE FailedIsFinal'
  BY <1>10 DEF Unsaved, Mark, Step, UpdateSend
<1>11. ASSUME NEW i \in Id, Answered(i) PROVE FailedIsFinal'
  BY <1>11 DEF Answered, Step, UpdateSend
<1>12. ASSUME NEW i \in Id, AppendCopy(i) PROVE FailedIsFinal'
  BY <1>12 DEF AppendCopy
<1>13. ASSUME NEW i \in Id, PostReply(i) PROVE FailedIsFinal'
  BY <1>13 DEF PostReply, Step, Ask
<1>14. ASSUME NEW i \in Id, Poll(i) PROVE FailedIsFinal'
  BY <1>14 DEF Poll, Mark
<1>15. ASSUME NEW i \in Id, Sweep(i) PROVE FailedIsFinal'
  BY <1>15 DEF Sweep, Mark, Verdict
<1>16. ASSUME NEW i \in Id, Tick(i) PROVE FailedIsFinal'
  BY <1>16 DEF Tick
<1>17. ASSUME NEW i \in Id, Accept(i) PROVE FailedIsFinal'
  BY <1>17 DEF Accept
<1>18. ASSUME NEW i \in Id, Lose(i) PROVE FailedIsFinal'
  BY <1>18 DEF Lose
<1>19. ASSUME NEW i \in Id, JobEnds(i) PROVE FailedIsFinal'
  BY <1>19 DEF JobEnds
<1>20. ASSUME NEW x \in Caller, Answer(x) PROVE FailedIsFinal'
  BY <1>20 DEF Answer, AnswerOf, UpdateSend
<1>21. ASSUME NEW x \in Caller, Refused(x) PROVE FailedIsFinal'
  BY <1>21 DEF Refused, UpdateSend
<1>22. CASE CheckEmail
  BY <1>22 DEF CheckEmail, Outcome, UpdateSend
<1>23. CASE CheckLinkedIn
  BY <1>23 DEF CheckLinkedIn, Ask
<1>24. CASE Crash
  BY <1>24 DEF Crash
<1>25. CASE UNCHANGED vars
  BY <1>25 DEF vars
<1>26. QED
  BY <1>1, <1>2, <1>3, <1>4, <1>5, <1>6, <1>7, <1>8, <1>9, <1>10, <1>11, <1>12, <1>13,
     <1>14, <1>15, <1>16, <1>17, <1>18, <1>19, <1>20, <1>21, <1>22, <1>23, <1>24, <1>25
  DEF Next, Handler

\* Who holds the latest revision has seen the send.
LEMMA SeenStep == Inv /\ [Next]_vars => CurrentHasSeen'
<1> SUFFICES ASSUME Inv, [Next]_vars PROVE CurrentHasSeen'
  OBVIOUS
<1> USE ReplyAssumption
   DEF Inv, Rows, TypeOK, Id, NoId, Send, View, RowStatus, Unresolved, Caller, NoCall, Shown,
       CurrentHasSeen, Seen, FailedIsFinal, Never, BegunSends, EvidenceIsOut, EmailShape,
       LinkedInShape, SweepIsRight, FailedRows, SentIsOut, draftVars, windowVars, mailVars
<1>1. ASSUME NEW w \in Window, Refresh(w) PROVE CurrentHasSeen'
  BY <1>1 DEF Refresh
<1>2. ASSUME NEW w \in Window, SaveDrafts(w) PROVE CurrentHasSeen'
  BY <1>2 DEF SaveDrafts
<1>3. ASSUME NEW w \in Window, NEW i \in Id, BeginSend(w, i) PROVE CurrentHasSeen'
  BY <1>3 DEF BeginSend, BeginAllowed, PressedId
<1>4. ASSUME NEW w \in Window, NEW i \in Id, BeginRefused(w, i) PROVE CurrentHasSeen'
  BY <1>4 DEF BeginRefused, PressedId
<1>5. ASSUME NEW i \in Id, FailBeforeClaim(i) PROVE CurrentHasSeen'
  BY <1>5 DEF FailBeforeClaim, Step, UpdateSend
<1>6. ASSUME NEW i \in Id, ClaimReply(i) PROVE CurrentHasSeen'
  BY <1>6 DEF ClaimReply, Mark, Step
<1>7. ASSUME NEW i \in Id, FailDefinite(i) PROVE CurrentHasSeen'
  BY <1>7 DEF FailDefinite, Mark, Step, UpdateSend
<1>8. ASSUME NEW i \in Id, FailUnknown(i) PROVE CurrentHasSeen'
  BY <1>8 DEF FailUnknown, Mark, Step, UpdateSend
<1>9. ASSUME NEW i \in Id, Submitted(i) PROVE CurrentHasSeen'
  BY <1>9 DEF Submitted, Mark, Step
<1>10. ASSUME NEW i \in Id, Unsaved(i) PROVE CurrentHasSeen'
  BY <1>10 DEF Unsaved, Mark, Step, UpdateSend
<1>11. ASSUME NEW i \in Id, Answered(i) PROVE CurrentHasSeen'
  BY <1>11 DEF Answered, Step, UpdateSend
<1>12. ASSUME NEW i \in Id, AppendCopy(i) PROVE CurrentHasSeen'
  BY <1>12 DEF AppendCopy
<1>13. ASSUME NEW i \in Id, PostReply(i) PROVE CurrentHasSeen'
  BY <1>13 DEF PostReply, Step, Ask
<1>14. ASSUME NEW i \in Id, Poll(i) PROVE CurrentHasSeen'
  BY <1>14 DEF Poll, Mark
<1>15. ASSUME NEW i \in Id, Sweep(i) PROVE CurrentHasSeen'
  BY <1>15 DEF Sweep, Mark, Verdict
<1>16. ASSUME NEW i \in Id, Tick(i) PROVE CurrentHasSeen'
  BY <1>16 DEF Tick
<1>17. ASSUME NEW i \in Id, Accept(i) PROVE CurrentHasSeen'
  BY <1>17 DEF Accept
<1>18. ASSUME NEW i \in Id, Lose(i) PROVE CurrentHasSeen'
  BY <1>18 DEF Lose
<1>19. ASSUME NEW i \in Id, JobEnds(i) PROVE CurrentHasSeen'
  BY <1>19 DEF JobEnds
<1>20. ASSUME NEW x \in Caller, Answer(x) PROVE CurrentHasSeen'
  BY <1>20 DEF Answer, AnswerOf, UpdateSend
<1>21. ASSUME NEW x \in Caller, Refused(x) PROVE CurrentHasSeen'
  BY <1>21 DEF Refused, UpdateSend
<1>22. CASE CheckEmail
  BY <1>22 DEF CheckEmail, Outcome, UpdateSend
<1>23. CASE CheckLinkedIn
  BY <1>23 DEF CheckLinkedIn, Ask
<1>24. CASE Crash
  BY <1>24 DEF Crash
<1>25. CASE UNCHANGED vars
  BY <1>25 DEF vars
<1>26. QED
  BY <1>1, <1>2, <1>3, <1>4, <1>5, <1>6, <1>7, <1>8, <1>9, <1>10, <1>11, <1>12, <1>13,
     <1>14, <1>15, <1>16, <1>17, <1>18, <1>19, <1>20, <1>21, <1>22, <1>23, <1>24, <1>25
  DEF Next, Handler

-----------------------------------------------------------------------------
(* The theorems.                                                           *)

LEMMA Invariance == Spec => []Inv
<1>1. Inv /\ [Next]_vars => Inv'
  BY TypeStep, RowsStep, FinalStep, SeenStep DEF Inv
<1>2. QED BY <1>1, Initial, PTL DEF Spec

\* Every variable keeps its type.
THEOREM TypeCorrect == Spec => []TypeOK
<1>1. Inv => TypeOK
  BY DEF Inv
<1>2. QED BY <1>1, Invariance, PTL

\* A reply shown as sent is out, whoever found out.
THEOREM SentIsRight == Spec => []SentIsOut
<1>1. Inv => SentIsOut
  BY DEF Inv, Rows
<1>2. QED BY <1>1, Invariance, PTL

\* A reply shown as failed, which offers Send again, is not out and will not
\* be, but for the three reasons of FailedIsExplained.
THEOREM FailedIsSafeToSendAgain == Spec => []FailedIsExplained
<1>1. Inv => FailedIsExplained
  BY DEF Inv, Rows, FailedIsExplained, FailedIsFinal, Never, MayGetOut, EmailShape, BegunSends
<1>2. QED BY <1>1, Invariance, PTL

\* No window answers over a reply it has not seen.
THEOREM NextIsInformed == Spec => SeenBeforeNext
<1>1. Inv /\ [Next]_vars =>
        (send'.id # send.id /\ send.status = "sent" =>
           \/ reason[send.id] # "none"
           \/ \E w \in Window : mint'[w] = send'.id /\ view[w].id = send.id
                                                    /\ view[w].status = "sent")
  <2> SUFFICES ASSUME Inv, [Next]_vars, send'.id # send.id, send.status = "sent",
                      reason[send.id] = "none"
               PROVE  \E w \in Window : mint'[w] = send'.id /\ view[w].id = send.id
                                                            /\ view[w].status = "sent"
    OBVIOUS
  <2>1. ASSUME NEW w \in Window, NEW i \in Id, BeginSend(w, i)
        PROVE  mint'[w] = send'.id /\ view[w].id = send.id /\ view[w].status = "sent"
    <3>1. w \in current /\ view[w].status \notin Unresolved
      BY <2>1 DEF BeginSend, BeginAllowed
    <3>2. Seen(w)
      BY <3>1 DEF Inv, Rows, BegunSends, CurrentHasSeen, Never, SentIsOut
    <3>3. QED BY <2>1, <3>1, <3>2 DEF Inv, TypeOK, BeginSend, Seen
  <2>2. \E w \in Window, i \in Id : BeginSend(w, i)
    <3>1. TypeOK
      BY DEF Inv
    <3>2. ASSUME NEW i \in Id, NEW status, NEW req, UpdateSend(i, status, req)
          PROVE  send'.id = send.id
      BY <3>1, <3>2 DEF UpdateSend, TypeOK, Send
    <3>3. ASSUME NEW w \in Window, Refresh(w) \/ SaveDrafts(w) \/ \E i \in Id : BeginRefused(w, i)
          PROVE  FALSE
      BY <3>1, <3>3 DEF TypeOK, Send, Refresh, SaveDrafts, BeginRefused, draftVars
    <3>4. ASSUME NEW i \in Id, Handler(i) PROVE FALSE
      BY <3>2, <3>4
      DEF Handler, FailBeforeClaim, ClaimReply, FailDefinite, FailUnknown, Submitted, Unsaved,
          Answered
    <3>5. ASSUME NEW i \in Id, \/ AppendCopy(i) \/ PostReply(i) \/ Poll(i) \/ Sweep(i) \/ Tick(i)
                               \/ Accept(i) \/ Lose(i) \/ JobEnds(i)
          PROVE FALSE
      BY <3>5 DEF AppendCopy, PostReply, Poll, Sweep, Tick, Accept, Lose, JobEnds
    <3>6. ASSUME NEW x \in Caller, Answer(x) \/ Refused(x) PROVE FALSE
      BY <3>1, <3>2, <3>6 DEF TypeOK, Answer, Refused
    <3>7. CASE CheckEmail
      BY <3>2, <3>7 DEF CheckEmail, Inv, Rows, BegunSends, Unresolved
    <3>8. CASE CheckLinkedIn \/ Crash \/ UNCHANGED vars
      BY <3>8 DEF CheckLinkedIn, Crash, vars
    <3>9. QED BY <3>3, <3>4, <3>5, <3>6, <3>7, <3>8 DEF Next
  <2>3. QED BY <2>1, <2>2
<1>2. QED BY <1>1, Invariance, PTL DEF Spec, SeenBeforeNext
=============================================================================
