------------------------------ MODULE ReplyPoll ------------------------------
(***************************************************************************)
(* How an answer in a mailbox comes to stop the follow-ups.  The server's  *)
(* scheduler and `cadence advance` poll the mailboxes: they walk what came *)
(* since a watermark, newest first and page by page, park what is beyond   *)
(* their pages as a backlog, and claim every new answer for a paid model   *)
(* call that tells a reply from a request to be removed.  A poll that      *)
(* finds an answer claimed leaves its bookkeeping to the claim's holder.   *)
(* Answers whose call failed are retried apart, for the label alone.       *)
(***************************************************************************)
EXTENDS Naturals, FiniteSetsExt

CONSTANTS Mail,      \* answers of people whom the ledger knows
          Received,        \* when each is received, in seconds of this model
          OptOut,    \* those that ask to be removed
          Stored,    \* those of a mailbox kept in mailbox_messages
          Poller,    \* tasks that poll
          Cli,       \* those in a process of their own
          PageSize,  \* answers on a page
          MaxPages,  \* pages of a poll
          Overlap,   \* what every poll reads again before its watermark
          MaxFaults  \* bound on deaths and unreadable mailboxes of this model

PollAssumption ==
    /\ IsFiniteSet(Mail) /\ Received \in [Mail -> Nat \ {0}]
    /\ OptOut \subseteq Mail /\ Stored \subseteq Mail /\ Cli \subseteq Poller
    /\ PageSize \in Nat \ {0} /\ MaxPages \in Nat \ {0}
    /\ Overlap \in Nat /\ MaxFaults \in Nat

VARIABLES arrived,   \* mail that is in its mailbox
          intent,    \* inbox_replies.intent, or no row yet
          unread,    \* stored mail with needs_processing
          replied,   \* mail recorded as a reply: its person's cadences are over
          optedOut,  \* mail for which they were stopped as unsubscribed
          mark,      \* the newest mail seen by a clean poll, 0 for none
          backlog,   \* the slice left to later polls
          task,      \* what each poller is doing
          up,        \* the server runs
          excused,   \* history: mail out of reach for a reason named below
          faults     \* used up of MaxFaults

rows == <<intent, unread, replied, optedOut>>
marks == <<mark, backlog>>
vars == <<arrived, rows, marks, task, up, excused, faults>>

Whole == [since |-> 0, until |-> 0]  \* no bound above
None == Whole                        \* no backlog
In(m, s) == Received[m] >= s.since /\ (s.until = 0 \/ Received[m] < s.until)

Idle == [at |-> "idle", walk |-> "live", slice |-> Whole, until |-> 0, mark |-> 0,
         todo |-> {}, seen |-> {}, got |-> {}, pages |-> 0, clean |-> TRUE, last |-> FALSE,
         mail |-> {}]

Init ==
    /\ arrived = {} /\ intent = [m \in Mail |-> "no row"] /\ unread = {}
    /\ replied = {} /\ optedOut = {}
    /\ mark = 0 /\ backlog = None
    /\ task = [p \in Poller |-> Idle]
    /\ up = TRUE /\ excused = {} /\ faults = 0

Runs(p) == p \in Cli \/ up
On(p, phase) == task[p].at = phase
Becomes(p, t) == task' = [task EXCEPT ![p] = t]

\* The end of a poll; the scheduler's tick goes on to the retry.
Polled(p) == [Idle EXCEPT !.at = IF p \in Cli THEN "idle" ELSE "polled"]
Rests(p) == On(p, "idle") \/ On(p, "polled")

\* Mail is received in the order of its times.
Arrive(m) ==
    /\ m \notin arrived /\ \A n \in Mail : Received[n] < Received[m] => n \in arrived
    /\ arrived' = arrived \cup {m}
    /\ unread' = unread \cup ({m} \cap Stored)
    /\ UNCHANGED <<intent, replied, optedOut, marks, task, up, excused, faults>>

-----------------------------------------------------------------------------
(* Walking a slice of the mailboxes.                                       *)

\* The window of the next poll that starts.
Window == [since |-> IF mark > Overlap THEN mark - Overlap ELSE 0, until |-> 0]

\* pollInboxReplies
Start(p) ==
    /\ Runs(p) /\ Rests(p)
    /\ Becomes(p, [Idle EXCEPT !.at = "list", !.slice = Window, !.mark = mark])
    /\ UNCHANGED <<arrived, rows, marks, up, excused, faults>>

\* What the sources hold of a slice: stored mail comes back until it was
\* processed, however old.
Listed(s) ==
    {m \in arrived : /\ m \in unread \/ Received[m] >= s.since
                     /\ s.until = 0 \/ Received[m] < s.until}

Pages(S) ==
    {P \in SUBSET S : /\ Cardinality(P) = IF Cardinality(S) < PageSize
                                          THEN Cardinality(S) ELSE PageSize
                      /\ \A m \in P, n \in S \ P : Received[m] >= Received[n]}

\* listInbox: a source that fails shows none of its mail, and the walk is not
\* clean any more.  The next page begins in the oldest second of this one,
\* and a page with nothing new on it is the last, whatever is behind it.
List(p) ==
    LET t == task[p]
        all == Listed([t.slice EXCEPT !.until = t.until])
    IN  /\ Runs(p) /\ On(p, "list")
        /\ \E shown \in SUBSET all :
              /\ shown # all => faults < MaxFaults
              /\ faults' = IF shown = all THEN faults ELSE faults + 1
              /\ \E page \in Pages(shown) :
                    LET fresh == page \ t.seen
                    IN  /\ Becomes(p, [t EXCEPT
                              !.at = "page", !.todo = fresh, !.seen = @ \cup page,
                              !.got = @ \cup fresh, !.pages = @ + 1,
                              !.clean = @ /\ shown = all,
                              !.last = page = shown \/ fresh = {},
                              !.until = IF fresh = {} THEN @
                                        ELSE Min({Received[m] : m \in fresh}) + 1])
                        /\ excused' = excused \cup
                              IF fresh = {} /\ t.clean /\ shown = all THEN all \ t.seen ELSE {}
        /\ UNCHANGED <<arrived, rows, marks, up>>

\* All sources failed, and the poll throws.
Throw(p) ==
    /\ Runs(p) /\ On(p, "list") /\ faults < MaxFaults /\ faults' = faults + 1
    /\ Becomes(p, Polled(p))
    /\ UNCHANGED <<arrived, rows, marks, up, excused>>

-----------------------------------------------------------------------------
(* One answer.                                                             *)

\* stopCadencesForOptOut, or recordProspectReply; also for a failed label.
Bookkeep(m, label) ==
    IF label = "opt-out"
    THEN optedOut' = optedOut \cup {m} /\ UNCHANGED replied
    ELSE replied' = replied \cup {m} /\ UNCHANGED optedOut

Labels(m) == {"none", IF m \in OptOut THEN "opt-out" ELSE "reply"}

Newest(S) == {m \in S : \A n \in S : Received[n] <= Received[m]}
Rest(p, m) == [task[p] EXCEPT !.todo = @ \ {m}]
HeldBy(p, m) == On(p, "labels") /\ m \in task[p].mail
Retrying(m) == \E p \in Poller : On(p, "retries") /\ m \in task[p].mail

\* claimInboxReplyForTriage
Claim(p, m) ==
    /\ intent[m] \in {"no row", "none"}
    /\ intent' = [intent EXCEPT ![m] = "claimed"]
    /\ Becomes(p, [Rest(p, m) EXCEPT !.at = "labels", !.mail = {m}])
    /\ UNCHANGED <<unread, replied, optedOut, excused>>

\* Claimed by somebody: no bookkeeping, and the mail counts as processed.
Skip(p, m) ==
    /\ intent[m] = "claimed"
    /\ Becomes(p, Rest(p, m))
    /\ unread' = unread \ {m}
    /\ excused' = excused \cup IF Retrying(m) THEN {m} ELSE {}
    /\ UNCHANGED <<intent, replied, optedOut>>

\* Mutant: of a stored label only the opt-out is acted upon.
RereadOptOut(p, m) ==
    /\ intent[m] \in {"reply", "opt-out"}
    /\ IF intent[m] = "opt-out" THEN Bookkeep(m, "opt-out") ELSE UNCHANGED <<replied, optedOut>>
    /\ unread' = unread \ {m}
    /\ Becomes(p, Rest(p, m))
    /\ UNCHANGED <<intent, excused>>

\* The stored label decides again, each time the answer is read.
Reread(p, m) ==
    /\ intent[m] \in {"reply", "opt-out"}
    /\ Bookkeep(m, intent[m])
    /\ unread' = unread \ {m}
    /\ Becomes(p, Rest(p, m))
    /\ UNCHANGED <<intent, excused>>

Process(p) ==
    /\ Runs(p) /\ On(p, "page")
    /\ \E m \in Newest(task[p].todo) : Claim(p, m) \/ Skip(p, m) \/ Reread(p, m)
    /\ UNCHANGED <<arrived, marks, up, faults>>

\* classifyReplyIntent answered, or failed: then the claim is released.
Label(p) ==
    \E m \in task[p].mail : \E label \in Labels(m) :
        /\ Runs(p) /\ On(p, "labels")
        /\ intent' = [intent EXCEPT ![m] = label]
        /\ Bookkeep(m, label)
        /\ unread' = unread \ {m}
        /\ Becomes(p, [task[p] EXCEPT !.at = "page", !.mail = {}])
        /\ UNCHANGED <<arrived, marks, up, excused, faults>>

-----------------------------------------------------------------------------
(* The end of a walk.                                                      *)

Walked(p) == On(p, "page") /\ task[p].todo = {}

NextPage(p) ==
    /\ Runs(p) /\ Walked(p) /\ ~task[p].last /\ task[p].pages < MaxPages
    /\ Becomes(p, [task[p] EXCEPT !.at = "list"])
    /\ UNCHANGED <<arrived, rows, marks, up, excused, faults>>

Over(p, walk) ==
    /\ Runs(p) /\ Walked(p) /\ task[p].walk = walk
    /\ task[p].last \/ task[p].pages >= MaxPages

\* Mutant: the watermark moves whatever a source said.
MayMarkAnyway(t) == t.got # {} /\ Max({Received[m] : m \in t.got}) > t.mark

\* Only a clean walk moves it, past the mark that the poll began with.
MayMark(t) == t.clean /\ t.got # {} /\ Max({Received[m] : m \in t.got}) > t.mark

Mark(p) ==
    /\ Over(p, "live")
    /\ mark' = IF MayMark(task[p]) THEN Max({Received[m] : m \in task[p].got}) ELSE mark
    /\ Becomes(p, [task[p] EXCEPT !.at = "park"])
    /\ UNCHANGED <<arrived, rows, backlog, up, excused, faults>>

Oldest(t) == Min({Received[m] : m \in t.got})
Parks(t) == ~t.last /\ t.clean /\ t.got # {}
Parked(t) == [since |-> t.slice.since, until |-> Oldest(t)]

\* What is left joins the backlog, whose bound above is exclusive; a poll
\* with pages left goes on there.
Park(p) ==
    LET t == task[p]
        b == IF ~Parks(t) THEN backlog
             ELSE IF backlog = None THEN Parked(t)
             ELSE [since |-> Min({backlog.since, t.slice.since}),
                   until |-> Max({backlog.until, Oldest(t)})]
    IN  /\ Runs(p) /\ On(p, "park")
        /\ backlog' = b
        /\ IF b # None /\ t.pages < MaxPages
           THEN Becomes(p, [t EXCEPT !.at = "list", !.walk = "back", !.slice = b,
                                     !.until = b.until, !.got = {}, !.clean = TRUE])
           ELSE Becomes(p, Polled(p))
        /\ excused' = excused \cup
               IF Parks(t) THEN {m \in arrived \ t.seen : Received[m] = Oldest(t)} ELSE {}
        /\ UNCHANGED <<arrived, rows, mark, up, faults>>

\* A poll that drained its slice writes what is left of it, over what another
\* poll parked meanwhile.
Drain(p) ==
    LET t == task[p]
        b == IF ~t.clean THEN backlog
             ELSE IF t.last THEN None
             ELSE IF t.got = {} THEN backlog
             ELSE [t.slice EXCEPT !.until = Oldest(t)]
    IN  /\ Over(p, "back")
        /\ backlog' = b
        /\ Becomes(p, Polled(p))
        /\ excused' = excused \cup
               {m \in arrived \ t.seen : \/ backlog # None /\ In(m, backlog) /\ ~In(m, t.slice)
                                         \/ b # backlog /\ ~t.last /\ Received[m] = Oldest(t)}
        /\ UNCHANGED <<arrived, rows, mark, up, faults>>

-----------------------------------------------------------------------------
(* What else touches a row, and what dies.                                 *)

\* GET /api/inbox stores what it shows, with no label and no bookkeeping.
Capture(m) ==
    /\ up /\ m \in arrived \ Stored /\ intent[m] = "no row"
    /\ intent' = [intent EXCEPT ![m] = "none"]
    /\ UNCHANGED <<arrived, unread, replied, optedOut, marks, task, up, excused, faults>>

\* retryUntriagedReplies, which the scheduler runs after its poll.
Retry(p, m) ==
    /\ up /\ p \notin Cli /\ On(p, "polled") /\ intent[m] = "none"
    /\ intent' = [intent EXCEPT ![m] = "claimed"]
    /\ Becomes(p, [Idle EXCEPT !.at = "retries", !.mail = {m}])
    /\ UNCHANGED <<arrived, unread, replied, optedOut, marks, up, excused, faults>>

Relabel(p) ==
    \E m \in task[p].mail : \E label \in Labels(m) :
        /\ Runs(p) /\ On(p, "retries")
        /\ intent' = [intent EXCEPT ![m] = label]
        /\ optedOut' = IF label = "opt-out" THEN optedOut \cup {m} ELSE optedOut
        /\ Becomes(p, Idle)
        /\ UNCHANGED <<arrived, unread, replied, marks, up, excused, faults>>

\* What dies with p: the answer it holds, and the slice it was to park.
Loses(p) ==
    LET t == task[p]
    IN  t.mail \cup
        IF On(p, "park") /\ Parks(t) THEN {m \in arrived \ t.seen : In(m, t.slice)} ELSE {}

DieCli(p) ==
    /\ p \in Cli /\ ~On(p, "idle") /\ faults < MaxFaults /\ faults' = faults + 1
    /\ Becomes(p, Idle)
    /\ excused' = excused \cup Loses(p)
    /\ UNCHANGED <<arrived, rows, marks, up>>

DieServer ==
    /\ up /\ faults < MaxFaults /\ faults' = faults + 1
    /\ up' = FALSE
    /\ task' = [p \in Poller |-> IF p \in Cli THEN task[p] ELSE Idle]
    /\ excused' = excused \cup UNION {Loses(p) : p \in Poller \ Cli}
    /\ UNCHANGED <<arrived, rows, marks>>

\* sweepStaleInboxReplyTriage takes every claim for a dead one's.
Boot ==
    /\ ~up /\ up' = TRUE
    /\ intent' = [m \in Mail |-> IF intent[m] = "claimed" THEN "none" ELSE intent[m]]
    /\ UNCHANGED <<arrived, unread, replied, optedOut, marks, task, excused, faults>>

Next ==
    \/ \E p \in Poller : \/ Start(p) \/ List(p) \/ Throw(p) \/ Process(p) \/ Label(p)
                         \/ NextPage(p) \/ Mark(p) \/ Park(p) \/ Drain(p)
                         \/ Relabel(p) \/ DieCli(p)
                         \/ \E m \in Mail : Retry(p, m)
    \/ \E m \in Mail : Arrive(m) \/ Capture(m)
    \/ DieServer \/ Boot

\* What a poll does once it has a page, and a retry once it has an answer.
Goes(p) == \/ List(p) \/ Process(p) \/ Label(p) \/ NextPage(p) \/ Mark(p) \/ Park(p) \/ Drain(p)
           \/ Relabel(p)

\* The scheduler polls again and again, model calls and fetches have deadlines,
\* and a server that died is started again.
Fairness ==
    /\ \A p \in Cli : WF_vars(Goes(p))
    /\ WF_vars(Boot \/ \E p \in Poller \ Cli : Goes(p) \/ Start(p))

Spec == Init /\ [][Next]_vars
FairSpec == Spec /\ Fairness

-----------------------------------------------------------------------------
(* Properties.                                                             *)

\* The next poll, or one that drains the backlog, reads it.
InReach(m) ==
    \/ Received[m] >= Window.since \/ m \in unread
    \/ backlog # None /\ In(m, backlog)

\* A live poll has it before it, holds its claim, or is about to park it.
InHand(m) ==
    \E p \in Poller :
        \/ m \in task[p].todo \/ HeldBy(p, m)
        \/ On(p, "park") /\ Parks(task[p]) /\ In(m, task[p].slice)

Counted(m) == m \in replied \cup optedOut

\* No answer is lost: its bookkeeping is done, or some poll will read it
\* again; but for an answer whose claim, or the slice it was in, died with a
\* process, one the retry held while a poll passed, one whose second a parked
\* slice cuts, one in a slice that two polls wrote, and one behind a page of
\* answers that the poll has seen.
NoReplyLost == \A m \in arrived : Counted(m) \/ InReach(m) \/ InHand(m) \/ m \in excused

\* Every other answer stops its person's follow-ups in the end, through labels
\* that fail, mailboxes that cannot be read, backlogs and deaths: again and
\* again none of those that came is left.
RepliesCount == []<>(\A m \in arrived : Counted(m) \/ m \in excused)
=============================================================================
