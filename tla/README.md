# Verification of oneshot-gtm

oneshot-gtm finds people, drafts emails, letters and LinkedIn messages for them,
and sends them from the founder's own accounts. What it must never do is write to
somebody twice, write from the wrong mailbox, write beside another of the
founder's products, go on writing to somebody who answered, or spend more than it
was allowed to. All of that is decided by a few tables in SQLite files that
several processes share, around network calls that may time out, half succeed, or
outlive the process that made them.

This directory models that part of the program in TLA+. TLC checks it on small
instances, and TLAPS proves the main results for every value of the constants.

1. [The system](#the-system)
2. [The plan](#the-plan)
3. [Modules](#modules)
4. [Runs](#runs)
5. [Proofs](#proofs)
6. [Findings](#findings)
7. [What is not modelled](#what-is-not-modelled)

Every definition that models code is listed in `PROJECT.json` under `map` with
its file and lines; `hazards` lists what can go wrong in the code and which
property would show it.

## The system

One workspace is one product: a home directory with `ledger.sqlite`,
`config.json`, `.env` and an event log. The workspaces of a machine share a
second directory with `shared.sqlite` (people, paid lookups, contact touches,
LinkedIn claims and slots), `reply-review.sqlite` and `linkedin-inbox.sqlite`.
Programs that open these files at the same time are the server of each workspace
(`apps/server`: HTTP routes and a scheduler), the CLI (`apps/cli`) and cron jobs
that call it. A process runs many async tasks; it crosses to another one at
every `await`. SQLite transactions are the only lock between processes.

The email path, from the top:

    queue drain, cadence engine, a /run of a play, a founder's click
        -> claimContactTouch   shared.sqlite    may this workspace write to them?
        -> resolveSenderSlot   ledger.sqlite    from which mailbox, is there room today?
        -> keyedSend           ledger.sqlite    has this email been sent?
        -> Gmail / SMTP / OneShot               accept, refuse, or never answer
        -> receipt, mark, release of the slot, confirmation of the touch
        -> enrol or advance the cadence, close the row of the queue
    scheduler, CLI
        -> runOutboundConfirmations             read Sent, settle what is unknown
        -> reply poll                           stop the cadence of who answered
        -> LinkedIn and direct-mail sweeps      settle invites, letters

### Components

| Component | State | Operations | Hard because | Correct when |
| --- | --- | --- | --- | --- |
| Keyed sends (`ledger-outbound.ts`, `oneshot.ts`, `send-delivery.ts`) | `outbound_sends`, `receipts` | claim, attempt, mark, receipt, replay, confirm sweep | a request may arrive after its caller gave up or died; the sweep writes after an await | one intended email is one message; `failed` is never out; unknown outcomes are settled |
| Sender pool (`send-routing.ts`, `ledger-sending.ts`) | `sender_assignments`, `send_reservations` | pin, pick and reserve, release, count | the count adds receipts, rows and reservations, which change at different moments | one sender per person; the cap holds; what is out is counted |
| Contact touches (`shared-db.ts`) | `contact_touches` | claim, override, confirm, release | several workspaces, expiring reservations, addresses that turn out to be one person's | a claim never succeeds beside another workspace's email |
| Shared people (`shared-people.ts`) | people, aliases | resolve | two workspaces learn of one person at once | aliases never split a person |
| Cadence engine (`ledger-cadence.ts`, `plays/_cadence.ts`) | `cadence_state`, markers, events | enrol, claim, send, advance, stop, recover | replies, stops and boot sweeps during a send | steps in order, those without an email passed over; no step after the end; an email that went out advances its step |
| Queue and drain (`ledger-queue.ts`, `find/drain.ts`) | `target_queue` | enqueue, approve, claim, send, sweep | two claim columns, a lease shorter than a long drain | a row is sent once and ends as sent |
| Automated runs (`ledger-triggers.ts`, `find/registry.ts`) | `triggers` | claim, run, stamp, clear | claims cleared by whoever comes by | one run per trigger at a time |
| Spend ceiling (`daily-spend.ts`, `ledger-spend.ts`) | `spend_reservations` | reserve, resize, release, sweep | reservations are summed by the day they were made, receipts by the day they posted | the day's grants stay under the ceiling |
| Scheduler (`server/scheduler.ts`) | timers in memory | tick, sweeps | a deadline abandons a sweep without stopping it | what is due is done at last |
| LinkedIn invites (`linkedin-invite-quota.ts`, `linkedin-guard.ts`, `shared-db.ts`) | day slots, profile claims, attempts, pending sends | reserve, dispatch, confirm, release, settle | a claim stops expiring at dispatch; four parties may settle it | one invite per profile; the share of the day holds |
| Runs (`ledger-runs.ts`, `run-cancel.ts`, `api/run.ts`) | `runs` | start, complete, cancel, recover | the handler ends while its workers go on | a run ends, lists what it sent, and sends no more once cancelled |
| Replies (`mailbox.ts`, `reply-review-store.ts`, `api/replies.ts`) | reply rows, the composer's record | claim, submit, mark, check Sent, check a LinkedIn job | an error after acceptance; four parties learn of the outcome | one answer; `failed` means it is safe to send again |
| Inbox (`_cadence.ts`, `ledger-inbox.ts`) | watermark, backlog, triage claims | poll, walk, park, claim, book, retry | two processes poll; labels fail; a boot sweep that cannot tell live claims from dead ones | no answer is lost; every answer stops its cadence |
| Direct mail (`direct-mail.ts`) | pieces with revisions, orders | quote, edit, approve, send, skip, cancel, refresh | every operation saves what it read before an await | a paid order is on record; what was dropped is not ordered |
| ICP decisions (`icp-proposals.ts`, `config.ts`) | proposals, intents, `config.json` and its lock | propose, decide, save, recover | a decision writes a file and a ledger; saves of the whole file | what a decision wrote is on record |
| Paid cache (`paid-cache.ts`) | lookups, calls in flight | read, join, buy, store | joined failures, two processes | a lookup is bought once while it is fresh |
| Workspaces (`workspaces.ts`) | registry file and lock | create, move, remove | a stale lock broken by two processes | one editor of the registry |
| Platform health (`platform-health.ts`) | breakers in memory | open, probe, close | late verdicts of old probes | one probe decides |

The finders, the plays' drafting, prompts, web app, demo, doctor and telemetry
compute, show or log; they keep no state that two actors contend for.

## The plan

The order followed what hurts most when it goes wrong: first the three decisions
on every email, then what calls them, then what spends money, then what comes
back.

| Step | Modules | What it composes | State |
| --- | --- | --- | --- |
| 1 | `KeyedEmail`, `OutboundSend`, `OutboundSendProofs` | the ledger implements the promise | done |
| 2 | `SenderPool`, `SenderPoolProofs` | the ledger's rows, as the count reads them | done |
| 3 | `ContactTouch`, `ContactTouchProofs` | touches and people | done |
| 4 | `AutomatedRuns`, `AutomatedRunsProofs` | trigger claims, the spend ceiling, midnight, sweeps by name | done |
| 5, 6 | `Campaign`, `DecisionsProofs` | queue row, intro, cadence and follow-ups over `KeyedEmail` | done |
| 7 | `LinkedInInvite`, `TickProofs` | slots, profile claims, jobs, sweep, reconcile | done |
| 8 | `ReplySend`, `ReplySendProofs` | a reply's row, the composer's record, its windows | done |
| 9 | `IcpDecision`, `DecisionsProofs` | file, lock and ledger | done |
| 10 | `PlayRun`, `DirectMail`, `SettlesProofs` | the run's handler, workers and Stop; the letter | done |
| 11 | `ReplyPoll`, `TickProofs` | two processes' walks over one inbox | done |

Left: the LinkedIn inbox's sync, meetings and holds, and the proofs named at the
end of [Proofs](#proofs).

## Modules

### KeyedEmail: the promise

What a caller may rely on, with no workers, transports or clocks: per email, the
messages that got `out` and what the ledger has `told`. A message gets out only
if none is and the ledger does not say `retry`; `retry` is told only when
nothing is out or the platform replays it; `sent` is told by a confirmation only
of an email that is out. `OutboundSend` implements it (its `KE` instance), and
`Campaign` uses it instead of the ledger.

### OutboundSend: the send ledger

| In the model | In the code |
| --- | --- |
| `row[k]` | the `outbound_sends` row of an intended email (workspace, play, recipient, step) |
| `age[k]` | the age of `last_attempt_at`, in the classes the code's thresholds make: 3, 5, 10 and 30 minutes |
| `pc`, `job`, `prior` | a task inside `keyedSend`, the request it makes, the status it was shown for a replay |
| `net`, `accepted`, `sent` | requests on their way, requests a provider took, copies in Sent folders |
| `view[s][k]` | what a sweep holds of a row between listing it and marking it |
| `ClaimNew`, `ClaimRetry`, `ClaimStale`, `ClaimReplay` | the branches of `OutboundSendStore.claim`, one transaction each |
| `TransportOk`, `WriteReceipt`, `MarkSettled`, `FailDefinite`, `FailUnknown` | the rest of `keyedSend`; between any two the process may `Crash` |
| `ReplayReceipt`, `ReplayMark` | the branch for a send that died before its receipt |
| `SweepList` ... `SweepStop` | `runOutboundConfirmations`: the list, the lookup, the verdict, an unreadable mailbox, an outage, the deadline |
| `Accept`, `Lose` | the providers and the network (external) |

The transports differ in one thing the properties can see: what a repeated request
is to the recipient. `Message` says it. SMTP keeps the row's Message-ID, Gmail
makes a new message each time, OneShot replays a request of the same sender,
recipient and text. They also differ in what a Sent folder proves (`SentEvidence`).

### SenderPool: who sends, and how many a day

Of the ledger only what the count reads is kept. `Look` reads the pin before the
capacity lock, as `resolveSenderSlot` does; `LazyPin`, `Pick` and `Defer` are what
can happen next; `Pick` is one IMMEDIATE transaction. `Used` is
`computeCapacities`: today's receipts, today's rows without a receipt that may be
out, and live reservations. `Midnight`, `Expire` and `Configure` change what it
reads between the pick and the receipt. A local write that fails between the
receipt and the mark is a `Crash` here.

### ContactTouch: one person, one product at a time

`Claim` is `claimTouch` (check and reserve in one transaction, over every address
of the person), `Override` the founder's own send, `Ungated` a reply or a send for
which the shared file could not be written. `Expire` is the reservation's TTL,
which runs on whoever is still sending. `Link` joins an address to a person, which
may happen during a send.

### AutomatedRuns: triggers and the ceiling

`run` holds the trigger runs and batch drains under way, whoever started them:
the scheduler, a click, `find watch`. A run claims its trigger, reserves its worst
case for the day, resizes and releases it, and posts receipts; each is a
transaction, and the process may die in between. A claim is a name in the
trigger's row, and whoever finds it older than `MAX_RUN_AGE_MS`, or boots a
server, clears it by that name. `unguarded` remembers the triggers where that
happened to a run that lives on. Ages are classes between the two thresholds the
code knows; `Midnight` starts the next day's sum.

### Campaign: from the queue to the breakup

One person in one play: the approved row with its two claims (the drain's lease
and the founder's marker), the intro, the cadence it enrols, and the follow-ups
with the cadence's marker. `job[w]` is a sender between its claim and the end of
its step; `mail` is the ledger's promise for each step (`KeyedEmail`); `reply`,
`Stop`, a bounce, a death, a boot, and the lapse of each claim come in between any
two actions. What a step does after its email is out is split where the code
awaits: the event, the enrolment or the advance, the row.

A step need not have an email. `runCadenceStepForProspect` moves on when the
person has no address on the step's channel (a branch of `Begin`), and when the
step's builder returns null after its awaits (`Unwritten`); both are `PassedOver`,
which after the last step completes the cadence. `cad.unsent` remembers these
steps, and `StepsInOrder` names them: the next email may go out although the one
ahead of it never did, because there was none. A step that is held (for an offer,
a ban, an absence) is due again: that is a run which did not begin it.

### LinkedInInvite: one invite per profile

A `Row` invites a profile under a key of its own. The claim of the profile is in
the shared file, the slot of the day in the workspace's ledger, the job at
OneShot. `sendLinkedInInvite` is `Claim`, `TakeSlot`, `Dispatch`, `Call`, `Wait`
and one of the four outcomes of `settleInvite`; `Resume` is a send of a row whose
invite is pending. Nothing keeps two tasks off one row: the founder's Send looks
only at `send_started_at`, a drain only at `drain_claimed_at`, whose lease may lapse
while the batch goes on, and a drain sends a row as it was when it was taken. So the
row's status is not part of the model, and any worker may claim, resume or ask
for any row at any time; what keeps them to one invitation is the claim of the
profile, the key of the attempt and the slot. `Ask` and `Recover` are the sweep, `ListClaim`, `Prove` and
`Reconcile` the command that settles claims left behind. `stolen` is history: the
profiles that a late settlement freed from under another attempt. `made` and
`uncounted` go by the number of the slot an invite was called out with, since
several attempts and senders of a row take slots of their own. `TakeSlot` may
defer at any time: the account's own count of the day is not in the model.

### ReplySend: one reply, four who learn of it

Two files and a process: the composer's record and the draft in
`reply-review.sqlite`, the reply's row in the ledger, the request handler in
memory. The handler, the mailbox poll, the confirm sweep and the composer's own
check each learn a part of what became of a send. `view[w]` is what a browser
window was last told; it begins a send only from there. `out` is the truth.

### ReplyPoll: every answer counts

Two processes walk the same mailbox, newest first and page by page, from the
watermark on; what is beyond their pages is parked as a backlog, which a later
poll drains. Each answer is claimed for a paid label before its bookkeeping
(unread, replied, opted out). `excused` is history: the answers lost for a reason
the module names (see [What is not modelled](#what-is-not-modelled)).

### DirectMail: a letter for money

`piece` is the step's row with its revision, `orders` the platform's orders by
send key. Every operation (`preview`, `approve`, `send`, `refresh`, `cancel`)
reads the piece, waits for the platform, and saves what it holds if the revision
fits (`Fits`). The dashboard's requests take turns; the sweep, the CLI and the
cadence page's Skip do not. `dropped` and `revived` are history.

### PlayRun: a batch that is stopped

`Begin`, `Verified` and `Finish` are the handler of a `/run`; `Pull`, `Send`,
`NotSent`, `Deferred` and `Report` are `parallelMap`'s workers, which go on after
the first throw ended the handler. `Stop`, `Disconnect`, `Die` and `Boot` end it
from outside. `record` is the row of `runs`, which Stop, the handler and late
reports all write.

### IcpDecision: a file and a ledger

A decision notes an intent in the ledger, writes `config.json` under its lock file
and closes the intent; an interrupted one is recovered from the intent, which
compares what the file holds with what it held. Other processes save the whole
file from a copy they read earlier.

### Harness modules

An `MC...` module gives the constants their values and, where it can, puts several
setups into one run: a variable `setup`, chosen in the initial state and never
changed, says which actions a behaviour may take. So one run checks the setups
side by side, never their product; what a behaviour is not about stays at rest,
with no fair action enabled.

| Module | Setups |
| --- | --- |
| `MCOutboundSend`, `MCOutboundSetups` | "threaded": one email over Gmail and two SMTP servers; "twins": two emails to one address with one subject; "oneshot": the platform that replays |
| `MCSenderPool` | "caps": the daily cap over a midnight; "sender": a pool that changes; "touch": `ContactTouch` |
| `MCAutomatedRuns` | "prompt": runs that end in time, with more faults; "slow": runs that outlive their claim |
| `MCCampaign`, `MCDecisions` | "first": a first follow-up with everything that goes wrong; "whole": a sequence nobody answers; "icp": `IcpDecision` |
| `MCLinkedInInvite`, `MCTick` | "rivals": two workspaces and one profile; "share": one workspace and two; "sweep": for `linkedin_stale`; "alone", "pair": `ReplyPoll` by the server alone and beside the CLI |
| `MCReplySend` | two windows on an email, one on LinkedIn |
| `MCSettles` | "letter", "edits": `DirectMail`; "play": `PlayRun`; "email": an `OutboundSend` for the liveness of the sweep |

## Runs

Bounds are model values and small sets; workers are symmetric where no liveness is
checked. `CHECK_DEADLOCK FALSE` is set everywhere: a state in which everything is
settled and every attempt spent is an end.

| Run | Question | Bounds | States |
| --- | --- | --- | --- |
| `outbound_ledger` | One message per email, no call twice, `failed` is not out, what is settled as sent is out and not reopened, requests carry what is on the row, and every step is one `KeyedEmail` allows | 4 emails (in three setups), 4 senders, 2 drafts, 2 addresses, 4 attempts, 2 workers, 1 sweep | 463,401 |
| `pool` | The cap holds and what is out is counted, over a midnight; one sender per person while the pool changes and processes die; a first touch is alone within the window | 3 identities, 4 emails, cap 1, 2 days; 2 workspaces, 2 addresses of 1 person, 3 touches | 2,853,729 |
| `automation` | Runs of a trigger overlap only for two reasons, a day's grants stay within the ceiling, a due trigger runs | 1 trigger, 2 runs, 1 batch, ceiling 3, 2 faults | 478,024 |
| `campaign` | Steps in order but for those with no email, nothing after the end, Stop stops, what went out is passed; an ICP decision is on record and replaces what it was made about | 3 steps, 2 workers, 1 fault; 2 proposals, 3 texts, 1 death | 1,313,219 |
| `tick` | One invite per profile, a held profile under each, slots not given back, pending invites settled, with two senders of one row at once; no answer lost, every other one counts | 3 rows, 2 profiles, 2 workspaces, 2 workers, 1 retry, share 1, 1 fault; 4 answers (two in one second), pages of 2, 2 pages, overlap 1, 1 fault | 543,125 |
| `replies` | What the composer says is true, no window answers unseen, recorded outcomes reach the composer | 2 windows, 3 channels, 2 sends | 900,289 |
| `settles` | A letter is ordered once and what was dropped is not, cancellations and receipts arrive; a run ends, lists what it sent and starts nothing once cancelled; unknown and submitted emails are settled | 2 quotes, 1 edit, 1 fault; 4 targets, 2 workers; 1 email sent at most twice | 143,074 |

Five more runs expect a violation; see [Findings](#findings).

Why the bounds are enough. An email's hazards involve at most the attempt that is
lost, the one that follows it and the one that a wrong verdict would add:
three attempts, and a fourth for OneShot, whose sweep counts to
`ONESHOT_UNCERTAIN_RETRIES`. Two callers are enough for every race on a row, and
more are symmetric. The cap's arithmetic is decided at its boundary, so a cap of
one with room for three reservations reaches "full", "over by one" and "counted
twice"; so are the ceiling of three with runs that reserve two, and the share of
one invite. `FirstTouchIsAlone` relates a claim to one earlier email, so two calls
and three rows cover a touch, a row that lapsed and the claim beside them. A
sequence of three steps has a first, a middle and a last one. An invite is late
against its successor, so one failed attempt and one retry key are enough. The
reply poll's two answers in one second are what a watermark of seconds cannot
tell apart; four answers and pages of two reach a full page, a backlog, and a
backlog that grows. In "share" one of the two workers makes the first sends of one row
only, which is a bound; in "rivals" both send every row. Where the proofs apply, the bounds do not matter.

`NetBound` and `CallBound` bound how long a request may travel and a caller wait:
less than 10 minutes. Gmail requests have a deadline of 30 seconds, SMTP connections a
limit of 15 seconds to open and 30 seconds of silence; `docs/sending.md` ("A Gmail send cut
off at the deadline") accepts the rest of the window in so many words. For OneShot the code
sets no deadline on a send, so there it is an assumption about the SDK. In the setup
"caps" a call ends before its reservation expires (`Patient`) and nobody dies
(`Crashes`); "sender" has deaths, and slots that never expire; "touch" assumes
neither.

Mutants. Each property of a passing run has a mutated definition, kept beside the
one it replaces, that a plausible bug would produce (a deadline treated as a
failure, a lookup that ignores twins, a pin overwritten, a claim released without
looking whose it is); the property fails with it.

Fairness is only in each module's `Fairness`. In the ledger: time passes; a task at
a transport gets an answer or its deadline; a request arrives or is lost; the
scheduler lists again whenever its interval is over. A lookup may fail for any
number of sweeps, and `SweepRead`, `SweepOneShot` and `SweepSettle` are strongly
fair: a mailbox that can be read in sweep after sweep is read in one of them. That
is an assumption about the mailbox, not a guarantee of the code: behind a mailbox
that never answers again an outcome stays unknown, as the code intends. Elsewhere:
the scheduler ticks, and a dead server is started again (`AutomatedRuns`,
`ReplyPoll`, `PlayRun`); a sender goes on with the step it began, unless it dies
(`Campaign`, `LinkedInInvite`); OneShot ends every job it took in (external); the
LinkedIn sweep comes back to every pending send, strongly, since it goes over all
of them each time; a poll of an open window is fair (`ReplySend`); a call to the
letter platform ends (`DirectMail`, whose sweep has no deadline of its own).
Founders, clicks, crashes and retries by hand are never fair, so no result depends
on somebody trying again.

## Proofs

TLAPS proves the following for every value of the constants. The column "assumes" names
statements about constants; where nothing is named it is the module's own assumption about
the types of its constants.

| Theorem | Says | Assumes |
| --- | --- | --- |
| **OutboundSendProofs** | | |
| `TypeCorrect` | the types, and no outcome without a claim | |
| `Invariance` | `[]Inv` | `Deployment` |
| `OneMessagePerEmail`, `OneCallerPerEmail` | `NoDuplicateEmail`, `OneCallPerKey` | `Deployment` |
| `FailedIsSafeToRetry`, `ToldSentIsOut` | `FailedIsNotOut`, `SettledIsOut` | `Deployment` |
| `RecordIsMail` | `RecordMatchesMail` | `Deployment` |
| `OutIsNeverReopened` | `NeverReopened` (a statement about steps) | `Deployment` |
| `LedgerKeepsThePromise` | every step of the ledger is one of `KeyedEmail`, or none | `Deployment` |
| **SenderPoolProofs** | | |
| `OneSender` | `OneSenderPerPerson` | `QuietSetup` |
| `OutIsInTheCount` | `OutIsCounted` | `QuietSetup`, `CallsEnd` |
| `CapIsKept` | `CapKept` | `QuietSetup`, `CallsEnd`, `WholeGroups` |
| **ContactTouchProofs** | | |
| `TypeCorrect`, `FirstTouchAlone` | `TypeOK`, `FirstTouchIsAlone` | |
| **AutomatedRunsProofs** | | |
| `OverlapIsExplained` | two runs of a trigger only beside a claim a boot or a timeout cleared | |
| `CeilingHolds` | `GrantsWithinCeiling` | `EndsBeforeSweep` |
| **SettlesProofs** | | |
| `TypeCorrect` | `TypeOK` of `DirectMail` | |
| `OrderedIsOnRecord`, `DroppedIsNotOrdered` | `OrderIsOnRecord`, `DroppedNotOrdered` | |
| `EndedListIsComplete`, `CancelledIsFinal` | `ListIsComplete`, `CancelledSendsNoMore` of `PlayRun` | |
| **DecisionsProofs** | | |
| `StepsAreInOrder` | `StepsInOrder`: no step's email is tried before the ones ahead of it went out or were passed over | |
| `EndIsKept`, `StopIsKept` | `EndIsFinal`, `StopIsFinal` | |
| `OnTheRecord` | `WrittenIsOnRecord` of `IcpDecision` | |
| `ReplacesOwn` | `DecisionReplacesItsOwn` (a statement about steps) | |
| **ReplySendProofs** | | |
| `TypeCorrect` | `TypeOK` | |
| `SentIsRight`, `FailedIsSafeToSendAgain` | `SentIsOut`, `FailedIsExplained` | |
| `NextIsInformed` | `SeenBeforeNext` (a statement about steps) | |
| **TickProofs** | | |
| `OutHoldsItsProfile`, `OneInvitationPerProfile` | `OutIsClaimed`, `OneInvitation` | |
| `SlotIsNotGivenBack` | `SlotHolds` | |
| `ShareIsKept` | `ShareKept`: the day's share of invites (the run checks `SlotHolds`, which it rests on) | |
| `NothingIsLost` | `NoReplyLost` of `ReplyPoll` | |

What the named assumptions say:

- `Deployment`: one sweep at a time (`OneSweeper`), timeouts below `UNCERTAIN_SETTLE_MS`
  (`TimeoutsBeforeSettle`), and a OneShot-routed email has no other sender (`OneShotRoute`,
  which is what the pin of `SenderPool` provides). `outbound_two_sweeps` shows that the first
  is needed.
- `QuietSetup`: the founder changes the pool only while no sender is being resolved.
- `CallsEnd`: nobody dies, and a call ends before its reservation expires. What a death
  or an overlong call does to the count is neither checked nor proved.
- `WholeGroups`: a mailbox is in the pool together with the mailboxes it shares a cap with; one
  that is taken out takes its sends out of its domain's count.
- `EndsBeforeSweep`: a run has ended when reservations of its age are swept.

**The send ledger.** `NoDuplicateEmail` speaks of requests that were accepted; the code
decides by rows. `Inv` connects them. A request carries what its row records, and one of an
earlier attempt is one the platform would replay (`RequestsMatchRows`); a worker at a
transport makes the row's current, young attempt (`WorkersMatchRows`); nothing old is on
the wire (`YoungRequests`); what a mailbox files is in its Sent folder (`CopiesFiled`).
The hard part is the sweep, which judges a row it read before an await. `ViewsHold` says
that a snapshot old enough to be settled still describes its row, and that an empty lookup
in a mailbox that files its copies means nothing was accepted, and nothing will be, since
nothing that old is on the wire. Without `OneSweeper` this is false: another sweep may
settle the row in between, and `outbound_two_sweeps` shows what follows.

`SettledIsOut`, `NeverReopened` and the refinement need the converse: what the sweep takes
for a proof that an email is out is one. `OutInv` says that a copy in a Sent folder comes
from an accepted request; that what a sweep found is this email's message or a twin's
(another email of one subject and address); and that it found no more messages than twins
are out, which is why the sweep may conclude from a count. It adds that an outcome the
platform confirmed stays one, and that what is on the wire is the latest attempt. The
refinement follows step by step: each action either leaves what `KeyedEmail` sees alone, or
is one of its actions.

**The pin.** A pin is written once. `Follows` says that whatever carries an identity carries
the pin's: a routed or sending worker, a request, an email. The one step that could break it
is the end of a lost race, where the loser follows the winner only if its own pool lists it;
`SameSetup` says it does as long as the pool rests while a sender is resolved.

**The cap.** The count is a sum over three tables, and an email moves between them: a
reservation, then a row that may be out, then a receipt. `Books` says that there is no moment
between: each worker on its way to a call holds a live slot of its own (`SlotsHeld`), an email
that is out is covered by its row, its sender or its receipt (`EmailGood`), and a receipt
ends what it replaces. `CountedIsUsed` then matches the emails of the day, and the workers who
have not sent yet, with different things that `Used` adds up; `Capped` says that `Used` is at
most the cap for each whole group, and that a slot is only taken below it. Sums over finite
sets are treated by an induction over subsets in first-order form.

**The touch.** The gate reads rows and the promise is about emails. `Covered` gives every gated
email within the window its row, live unless it is a reservation that lapsed. `OwnIds` keeps
a failing call from releasing another's row.

**The ceiling.** `Inv` is `Shape`, `Claimed` (a run works under its trigger's claim, or the
trigger is in `unguarded`) and `Guards`. `Budget` relates three accounts of one sum: what was
granted, what reservations hold of it and what receipts have spent. Each step moves an amount
from one to the other; a reservation that is swept has no living owner, by
`EndsBeforeSweep`.

**The run.** `RecordShape`, `CancelIsSeen`, `OnlyStopIsEarly`, `QuietEnd`, `Workers`: workers
go on after the handler ended, and report to a record that may be closed. `ListIsComplete`
is inductive with them: whoever is about to report has its email in `told` or will say so.

**The letter.** A click, a sweep and an edit each work on a copy of the row, and the row may be
gone or be another letter when they come back. `FreshIsTheRow` says that a copy that passes
the revision check is the row; `StartedStays` that a piece that was started keeps its id and
key; `ReadIsShown` that a copy about to be ordered, if it is still the row, was shown to the
founder. `OrderIsOnRecord` and `DroppedNotOrdered` are inductive with them and `DroppedIsDead`:
a key that was dropped is back on the row only canceled, not shown, or ordered from a copy of
a row that was deleted.

**The campaign.** The promise about steps is made of the cadence's step number, its marker, the
events and the ledger; `CadInOrder`, `EventsInOrder`, `StepsInOrder` and `JobInOrder` say that
none of them is ahead of the mail and of the steps passed over (`unsent`), and `OneCaller` that a step has one sender at the
transport. `EndInv` is about endings: a follow-up under way holds the cadence's marker unless
`hist` says that a boot, a late click or a bounce took it (`HoldsMarker`), and whatever ended
the cadence is in `hist` (`Closed`). It rests on one fact about the sweep: it does not judge
an email whose caller is at the transport, since such an email is young.

**The reply.** `FailedIsFinal` says that a send recorded as failed is not out and has nobody at
work on it who could still get it out, but for the causes that `FailedIsExplained` names;
`CurrentHasSeen` that the composer's current send was begun by a window that had been told of
every earlier one.

**The invite.** A claim names a worker, or only a workspace, and is settled by whoever comes
by. `ActiveHolds` shows that it stands for one key all the same: the only key of its profile
that may be out or that somebody may still call out. `FailedIsRead` (who gives back has read a
failure), `OwnKey` and `NotYetActive` carry it. The last two speak only of a first send whose
claim is still its own (`HasClaim`): any number of tasks may be sending the row, and one whose
reservation was taken over is stopped by `Dispatch`. For the slots, `SlotInv` follows a slot's number from the task that took it to the pending
send and on to whoever resumes it: what it names is free or still that key's (`TasksKnow`,
`PendsKnow`), and before its call a task alone knows it (`OwnSlot`), so nobody gives back the
slot of an invite that may be out (`Kept`). A slot that
lapses and is confirmed later may exceed the share; its invite is one that no slot counted
(`LapsedIsUncounted`), and the others have a slot each (`WithinShare`).

**The decision.** While no live owner lost its lock, `OneOwner` says that whoever is at a
step under the lock holds it, so it is alone there. Hence what a decision found stays true
until it writes: there is no other intent (`Clear`), and the ICP is still the one its own
intent is about (`Noted`). `OnRecord` adds to `WrittenIsOnRecord` that, until the ledger has
the decision, the file has the value that its intent is to write, which is what a recovery
needs to finish it instead of dropping it.

**The answer.** `NoReplyLost` speaks of what the watermark has passed, so `PollInv` says when
it may pass an answer: only when that one is `Safe`, which is handled, kept unread, in the
backlog, or about to be parked there (`Before`). The watermark never passes one still to come
(`Ahead`), since mail is received in the order of its times (`InOrder`). A walk can move the
mark because of what it knows: it handled all that it saw (`Fetched`), and while it is clean,
what it did not see of its slice is newer than all it got, or older than its last page with
more pages to come (`Reaches`). A poll that skips an answer for its claim relies on
`ClaimsHeld`: somebody holds the claim, or the answer is excused. `Reaches` failed as first
written, and TLC showed why with pages of one: a page on which everything had been seen ends a
walk, whatever is behind it. `NoReplyLost` names that reason now (see
[What is not modelled](#what-is-not-modelled)); the run, with pages of two, does not meet it.

Only model-checked is liveness (`UncertainSettles`, `SubmittedSettles`, `DueTriggersRun`,
`SentStepIsPassed`, `PendingResolved`, `RepliesCount`, `RecordedSendsSettle`, `CancelReaches`,
`RunEnds`, `PaidIsRecorded`): reasoning under fairness needs ENABLED, which is out of the
prover's reach. Every other property of a passing run is a theorem.

## Findings

Each of these is a run that expects a violation; `PROJECT.json` quotes the lines it
disagrees with.

- **`outbound_two_sweeps`.** `sends check` and the scheduler's sweep may run at once. `mark`
  updates by key alone, so one sweep's `failed`, decided before its lookup, can land on a row
  that was retried and submitted since; the next caller sends the email again. Needs two
  overlapping sweeps and a retry between them.
- **`run_straggler`.** The first throw of a run (Stop, or the day's cap) ends its handler,
  which writes the queue rows once. An email that leaves afterwards is listed in the run's
  row, and its queue row stays approved.
- **`campaign_lost_reply`.** An intro whose outcome is unknown did arrive and is answered
  before the retry records the person. The poll passes over mail of people it does not know,
  and its watermark moves on; the retry then enrols and follows up.
- **`linkedin_stale`.** The sweep and the founder's Send read one failed job. The row goes out
  again under its next key before the slower of the two settles, and that settlement frees the
  profile from under the new invite.
- **`reply_stuck`.** The server dies while a reply is in the SMTP call. Nothing settles its
  `pending` row: the sweep does not list it, and the composer refuses the send that would.

Seen while modelling, with no run of their own:

- Two waiters may break one lock of `config.json` after its owner died, and the second breaks
  the first one's (`config.ts:349-351`; the comment at 329 speaks of a live owner's lock as
  safe). `IcpDecision` follows no behaviour past that.
- A save of the whole `config.json` from an old copy undoes an ICP that was approved since.
- A decision interrupted after its intent, whose ICP was then edited by hand, makes every
  later read of the proposals throw until the text is put back; and a process id that is used
  again makes a dead owner's lock unbreakable.
- Stop during the last sends of a run loses its list of emails (`StoppedInVain`,
  `ledger-runs.ts:124-129`): the row is final when the handler wants to write it. And
  `run-cancel.ts:66-68` says that the first reason wins, while the Stop route records its own.
- A `send` from the CLI whose row was deleted by an edit saves its old copy again, so a letter
  goes out that needed a new proof (`revived`; `docs/direct-mail.md`, "Changing the content or
  an address needs a fresh proof").
- A row settled `not_found` is replayed as "Sent, but the process died before the receipt",
  also when it never left.
- Two plays first-touch one person: the loser of the pin sends from the winner's mailbox
  without a slot. A process that dies during a send leaves a `pending` row that no count sees
  after 10 minutes, though its email may be out. Removing a mailbox takes its sends out of its
  domain's count of the day.
- A poll that finds an answer claimed skips its bookkeeping and moves the watermark on; if the
  holder dies, only the label is tried again (`_cadence.ts:969-972` says why it may). An
  answer in the boundary second of a parked slice is dropped, and a poll that drains a slice
  overwrites what another one parked meanwhile.
- `platform-health.ts:163-167` describes a probe's verdict that a late answer of an older call
  can replace.

## What is not modelled

The repository has about 163,000 lines, most of them views, prompts, parsers, finders and the
drafting of texts. What contends for state is a small part, and `map` covers 7,000 lines of
that part (4.3% of everything). `PROJECT.json` names every component with what is left out of
it; in short:

- Not at all: graceful shutdown (the models let a process die anywhere), draft versions, the
  paid cache (joined synchronously in one process; between two the worst is a lookup bought
  twice), the registry of workspaces, platform-health breakers, prospects, meetings, code
  answers, legacy delivery checks (they only read), the LinkedIn inbox's mirror, webhooks,
  compaction of receipts, schema and migrations, plays and drafting, finders, prompts,
  configuration and secrets, telemetry, web app, CLI and doctor.
- Errors of SQLite itself, other than the shared file being unavailable, anywhere.

What is abstracted within the modelled parts, and what the properties leave out by name:

**Ledger, pool, touches.** Smartlead's API path, which has no key and no claim; the warm-up
ramp, a constant cap for a day here; the text of emails beyond "same draft or not". An email
to a person who is already pinned may pass the cap, which the code intends, so `CapKept`
counts the emails a slot was taken for. "caps" has the slots expire, nobody die, and every
pool hold each group of mailboxes whole or not at all (`CapKept` is about such groups);
"sender" has one day and slots that stay, and a founder who changes the pool only while no
sender is being resolved (`QuietSetup`). A reply, a send with the shared file unavailable, and an email whose
reservation lapsed unconfirmed are not `Answerable` in `FirstTouchIsAlone`; the code chooses
so in each case, and comments on it. "touch" keeps the last row for a claim (`Gate`).

**AutomatedRuns.** What a finder does; retry times; a claim that a boot cleared beside a
living `find` process stays named in `unguarded` until its runs are over.

**Campaign.** Due dates; drafts and previews; holds for the ICP, offers, bans, meetings and absence
(the run did not happen); what steps by LinkedIn, letter, sms and voice send and record (a step here
is an email, or is passed over with none); contact touches and the deferral by capacity, which have modules of
their own.

**LinkedInInvite.** Connections already known; the guard's other reasons; the cached limit of
the account (`TakeSlot` may defer); the row's status in the queue (see
[the module](#linkedininvite-one-invite-per-profile)); a refusal of an invite at once, with no job;
messages; withdrawal. A process dies between the settlements' steps but not
within one synchronous call. A pending row under a key the row no longer uses is left out of
`PendingResolved`. The sweep goes on past its deadline, so two may overlap, as two workers do
here. `OneInvitation` and `OutIsClaimed` leave out the profiles in `stolen`, which
`linkedin_stale` is about.

**ReplySend.** A busy verdict and the failures before the claim are one action
(`FailBeforeClaim`); a crash before the claim leaves a send with no row, which nothing
settles. The Gmail API and OneShot transports of a reply, archive and snooze, and the leases of
learning and drafts are left out; the direct route `/inbox/reply` has no caller in the web app. After a failed copy to Sent, a state write that fails as
well is not modelled. The lease on
LinkedIn's check is assumed to outlast its call.

**ReplyPoll.** The answers are those of people the ledger knows, by hand: autoresponders,
phrases that unsubscribe and unknown senders are left out (the last are
`campaign_lost_reply`). A tick retries at most one label, and the retry's limits of age are
left out, as is `intel backfill-intent`; a label and its bookkeeping are one write.
`NoReplyLost` and `RepliesCount` leave out an answer whose claim or whose slice to be parked
died with its process, one that a retry held while a poll passed, one in the boundary second
of a slice, one in a slice that two polls wrote, and one behind a page on which everything had
been seen. The last is a page that `_cadence.ts:1241` takes for the end of the mail: as many
answers in one second as fit on a page hide what is older, where the comment at
`_cadence.ts:1255` has the overflow "delayed, never dropped". The run reaches the death, the
slice and the boundary; a retry beside a poll needs a wider "pair", two polls that write one
slice need more mail, and a page seen before needs pages of one or more mail of one second.

**DirectMail.** An answer of the platform is processed in one step with it, except the
order's; one CLI process at a time; a quote that expired and other refusals are `Fail`; a receipt
is written from the order's payment as it is then, not as it was in the answer; the
plan a cadence makes, refunds and returns, artwork and generation are left out. The sweep takes the 50
oldest pieces at a time, so more than 50 that never end would starve the rest.

**PlayRun.** One run in one server process; targets are pulled in order; drafting, offers and
guards are one decision before the send; no graceful shutdown.

**IcpDecision.** Texts up to normalisation; the evaluation's lease, evidence and duplicates
are left out. Proposals of the kinds that live in the ledger are single transactions.

A `TypeOK` that no run lists is there for the reader and, in `ContactTouch` and `ReplySend`,
for the proofs.
