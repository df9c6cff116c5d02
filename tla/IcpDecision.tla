----------------------------- MODULE IcpDecision -----------------------------
(***************************************************************************)
(* The founder decides on proposals for the ICP one-liner, which is kept   *)
(* in a file while the proposals are in the ledger.  A decision notes its  *)
(* intent in the ledger, writes the file and then closes the intent, all   *)
(* under a lock file; an interrupted one is recovered from the intent.     *)
(* Meanwhile config.json is saved whole by whoever read it some time ago.  *)
(***************************************************************************)
EXTENDS Naturals

CONSTANTS MaxProposals, Process,
          Decider,   \* processes that decide: servers
          Saver,     \* processes that save the configuration
          Text,      \* ICP one-liners
          First,     \* the one the founder set up
          MaxFaults  \* deaths and writes that fail

Proposal == 1 .. MaxProposals

IcpAssumption ==
    /\ First \in Text /\ MaxProposals \in Nat /\ MaxFaults \in Nat
    /\ "none" \notin Process \cup Text /\ "dead" \notin Process
    /\ Decider \subseteq Process /\ Saver \subseteq Process

VARIABLES icp,      \* icpOneLiner in config.json
          row,      \* the proposals in the ledger
          intent,   \* learning_applications: the decision under way on a proposal
          clock,    \* applied_at of the last approval
          lock,     \* the owner in config.json.lock; "dead" when it died
          task,     \* what each process is at
          copy,     \* the ICP in the configuration a process read, None without one
          draft,    \* the ICP the running evaluation set out from, None without one
          writer,   \* the proposal whose decision wrote the ICP last, 0 if others did
          stolen,   \* somebody unlinked the lock of a live owner
          faults

vars == <<icp, row, intent, clock, lock, task, copy, draft, writer, stolen, faults>>

None == "none"
NoIntent == [action |-> None, previous |-> First]
NoRow == [status |-> None, current |-> First, proposed |-> First, at |-> 0]
Idle == [op |-> None, at |-> None, id |-> 0, value |-> First]

Init ==
    /\ icp = First /\ row = [p \in Proposal |-> NoRow]
    /\ intent = [p \in Proposal |-> NoIntent] /\ clock = 0
    /\ lock = None /\ task = [a \in Process |-> Idle]
    /\ copy = [a \in Process |-> None] /\ draft = None
    /\ writer = 0 /\ stolen = FALSE /\ faults = 0

At(a, op, at) == task[a].op \in op /\ task[a].at = at
Goes(a, at) == task' = [task EXCEPT ![a].at = at]

-----------------------------------------------------------------------------
(* The job that proposes.  The rules on repeated texts only withhold       *)
(* proposals, so it may propose or not.                                    *)

\* refreshIcpProposal reads the ICP and asks the model.  The evaluation before
\* it is over, or dead.
Evaluate ==
    /\ draft' = icp
    /\ UNCHANGED <<icp, row, intent, clock, lock, task, copy, writer, stolen, faults>>

\* It inserts a proposal against the ICP it read, unless that text is the ICP
\* it read or is pending already.
Propose(p, text) ==
    /\ draft # None /\ text # draft
    /\ \A q \in Proposal : row[q].status = None <=> q >= p
    /\ \A q \in Proposal : ~(row[q].status = "pending" /\ row[q].proposed = text)
    /\ row' = [row EXCEPT ![p] = [NoRow EXCEPT !.status = "pending", !.current = draft,
                                               !.proposed = text]]
    /\ draft' = None
    /\ UNCHANGED <<icp, intent, clock, lock, task, copy, writer, stolen, faults>>

-----------------------------------------------------------------------------
(* What the founder and the program set out to do.                         *)

Starts(a, job) == task[a] = Idle /\ task' = [task EXCEPT ![a] = job]

\* A decision: approve, dismiss or roll back.  An edited text stands for the one
\* proposed.
Decide(a, op, p) ==
    /\ row[p].status # None
    /\ Starts(a, [op |-> op, at |-> "waiting", id |-> p,
                  value |-> IF op = "approve" THEN row[p].proposed ELSE row[p].current])
    /\ UNCHANGED <<icp, row, intent, clock, lock, copy, draft, writer, stolen, faults>>

\* The ledger is opened, the proposals are listed or a draft is written: with no
\* decision interrupted that changes nothing.
Look(a) ==
    /\ \E p \in Proposal : intent[p].action # None
    /\ Starts(a, [Idle EXCEPT !.op = "look", !.at = "waiting"])
    /\ UNCHANGED <<icp, row, intent, clock, lock, copy, draft, writer, stolen, faults>>

\* Somebody reads the configuration to change a field of it after an answer.
Load(a) ==
    /\ task[a] = Idle /\ copy[a] = None
    /\ copy' = [copy EXCEPT ![a] = icp]
    /\ UNCHANGED <<icp, row, intent, clock, lock, task, draft, writer, stolen, faults>>

\* ... and saves it whole, with another ICP or with the one it read.
Save(a, value) ==
    /\ copy[a] # None
    /\ Starts(a, [Idle EXCEPT !.op = "save", !.at = "waiting", !.value = value])
    /\ copy' = [copy EXCEPT ![a] = None]
    /\ UNCHANGED <<icp, row, intent, clock, lock, draft, writer, stolen, faults>>

-----------------------------------------------------------------------------
(* withConfigLock.                                                         *)

Acquire(a) ==
    /\ task[a].at = "waiting" /\ lock = None
    /\ lock' = a /\ Goes(a, "locked")
    /\ UNCHANGED <<icp, row, intent, clock, copy, draft, writer, stolen, faults>>

\* The owner is dead, and the file still says so.
SeesDead(a) ==
    /\ task[a].at = "waiting" /\ lock = "dead"
    /\ Goes(a, "breaking")
    /\ UNCHANGED <<icp, row, intent, clock, lock, copy, draft, writer, stolen, faults>>

\* The lock is unlinked, whoever owns it by now.
Break(a) ==
    /\ task[a].at = "breaking"
    /\ stolen' = (stolen \/ lock \in Process)
    /\ lock' = None /\ Goes(a, "waiting")
    /\ UNCHANGED <<icp, row, intent, clock, copy, draft, writer, faults>>

\* "Workspace configuration is busy": five seconds of a live owner.
GiveUp(a) ==
    /\ task[a].at = "waiting" /\ lock \in Process \ {a}
    /\ task' = [task EXCEPT ![a] = Idle]
    /\ UNCHANGED <<icp, row, intent, clock, lock, copy, draft, writer, stolen, faults>>

Release(a) ==
    /\ task[a].at = "done"
    /\ lock' = IF lock = a THEN None ELSE lock
    /\ task' = [task EXCEPT ![a] = Idle]
    /\ UNCHANGED <<icp, row, intent, clock, copy, draft, writer, stolen, faults>>

-----------------------------------------------------------------------------
(* Under the lock.                                                         *)

Expected(op) == IF op = "approve" THEN "pending" ELSE "approved"

\* finish: the decision on p is recorded and the other pending proposals of
\* the ICP go stale.
Finished(p) ==
    [q \in Proposal |->
        IF q = p
        THEN IF intent[p].action = "approve"
             THEN [row[p] EXCEPT !.status = "approved", !.at = clock + 1]
             ELSE [row[p] EXCEPT !.status = "rolled_back"]
        ELSE IF row[q].status = "pending" THEN [row[q] EXCEPT !.status = "stale"] ELSE row[q]]

\* The value the intent on p is to write.
Desired(p) == IF intent[p].action = "approve" THEN row[p].proposed ELSE row[p].current

\* An interrupted decision that fits neither side of its write.
Conflict(p) == intent[p].action # None /\ icp \notin {Desired(p), intent[p].previous}

Wrote(p) == icp = Desired(p)

\* Recovery throws and leaves the intent: at a conflict, or at a proposal that is
\* not where the decision found it.
Refused(p) == Conflict(p) \/ (Wrote(p) /\ row[p].status # Expected(intent[p].action))

\* Mutant: an intent is dropped without a look at the file.
RecoveredBlindly(p) ==
    /\ intent' = [intent EXCEPT ![p] = NoIntent]
    /\ UNCHANGED <<row, clock>>

\* An intent is finished when the file has its value, dropped when it does not.
Recovered(p) ==
    /\ row' = IF Wrote(p) THEN Finished(p) ELSE row
    /\ clock' = IF Wrote(p) /\ intent[p].action = "approve" THEN clock + 1 ELSE clock
    /\ intent' = [intent EXCEPT ![p] = NoIntent]

\* recoverLearningApplications, at the start of a decision and after its write.
Recover(a) ==
    /\ \/ At(a, {"approve", "rollback", "dismiss", "look"}, "locked")
       \/ At(a, {"approve", "rollback"}, "written")
    /\ \/ \E p \in Proposal :
             /\ intent[p].action # None
             /\ IF Refused(p) THEN Goes(a, "done") /\ UNCHANGED <<row, intent, clock>>
                ELSE Recovered(p) /\ UNCHANGED task
       \/ /\ \A p \in Proposal : intent[p].action = None
          /\ Goes(a, IF task[a].at = "written" \/ task[a].op = "look" THEN "done" ELSE "clear")
          /\ UNCHANGED <<row, intent, clock>>
    /\ UNCHANGED <<icp, lock, copy, draft, writer, stolen, faults>>

Dismiss(a) ==
    /\ At(a, {"dismiss"}, "clear")
    /\ row' = IF row[task[a].id].status = "pending"
              THEN [row EXCEPT ![task[a].id].status = "dismissed"] ELSE row
    /\ Goes(a, "done")
    /\ UNCHANGED <<icp, intent, clock, lock, copy, draft, writer, stolen, faults>>

\* Mutant: approvals are not compared with the ICP they were proposed for.
PassesUnchecked(op, p) == row[p].status = Expected(op)

\* An approval needs its baseline to be the active ICP; a rollback, the value
\* it applied, and no later approval.
Passes(op, p) ==
    /\ row[p].status = Expected(op)
    /\ IF op = "approve" THEN icp = row[p].current
       ELSE /\ icp = row[p].proposed
            /\ \A q \in Proposal \ {p} : row[q].status = "approved" => row[q].at < row[p].at

\* Check and intent are one transaction.
Note(a) ==
    /\ At(a, {"approve", "rollback"}, "clear")
    /\ LET job == task[a] IN
       IF Passes(job.op, job.id)
       THEN /\ intent' = [intent EXCEPT ![job.id] =
                             [action |-> job.op, previous |-> icp]]
            /\ Goes(a, "noted")
       ELSE intent' = intent /\ Goes(a, "done")
    /\ UNCHANGED <<icp, row, clock, lock, copy, draft, writer, stolen, faults>>

\* saveConfig: a file written beside and renamed, or an error.
Write(a) ==
    /\ At(a, {"approve", "rollback"}, "noted")
    /\ \/ icp' = task[a].value /\ writer' = task[a].id /\ faults' = faults
       \/ faults < MaxFaults /\ faults' = faults + 1 /\ UNCHANGED <<icp, writer>>
    /\ Goes(a, "written")
    /\ UNCHANGED <<row, intent, clock, lock, copy, draft, stolen>>

\* The save of somebody who did not decide.
Store(a) ==
    /\ At(a, {"save"}, "locked")
    /\ icp' = task[a].value
    /\ writer' = IF icp' = icp THEN writer ELSE 0
    /\ Goes(a, "done")
    /\ UNCHANGED <<row, intent, clock, lock, copy, draft, stolen, faults>>

-----------------------------------------------------------------------------

\* A process dies and is started again later.
Die(a) ==
    /\ faults < MaxFaults /\ faults' = faults + 1
    /\ task' = [task EXCEPT ![a] = Idle] /\ copy' = [copy EXCEPT ![a] = None]
    /\ lock' = IF lock = a THEN "dead" ELSE lock
    /\ UNCHANGED <<icp, row, intent, clock, draft, writer, stolen>>

Step(a) ==
    \/ Acquire(a) \/ SeesDead(a) \/ Break(a) \/ Recover(a) \/ Dismiss(a)
    \/ Note(a) \/ Write(a) \/ Store(a) \/ Release(a)

Next ==
    \/ Evaluate \/ \E p \in Proposal, text \in Text : Propose(p, text)
    \/ \E a \in Decider, p \in Proposal :
           \E op \in {"approve", "dismiss", "rollback"} : Decide(a, op, p)
    \/ \E a \in Saver : Load(a) \/ \E value \in Text : Save(a, value)
    \/ \E a \in Process : Look(a) \/ GiveUp(a) \/ Step(a) \/ Die(a)

Spec == Init /\ [][Next]_vars

-----------------------------------------------------------------------------
(* Properties.                                                             *)

\* Every variable keeps its type.
TypeOK ==
    /\ icp \in Text /\ clock \in Nat /\ stolen \in BOOLEAN /\ faults \in 0 .. MaxFaults
    /\ row \in [Proposal -> [status : {None, "pending", "approved", "dismissed", "stale",
                                       "rolled_back"},
                             current : Text, proposed : Text, at : Nat]]
    /\ intent \in [Proposal -> [action : {None, "approve", "rollback"}, previous : Text]]
    /\ lock \in Process \cup {None, "dead"}
    /\ task \in [Process -> [op : {None, "approve", "rollback", "dismiss", "look", "save"},
                             at : {None, "waiting", "breaking", "locked", "clear", "noted",
                                   "written", "done"},
                             id : 0 .. MaxProposals, value : Text]]
    /\ copy \in [Process -> Text \cup {None}] /\ draft \in Text \cup {None}
    /\ writer \in 0 .. MaxProposals

\* What a decision wrote into the file is on record, as decided or as an
\* intent, whoever died in between and whoever opens the ledger next.
WrittenIsOnRecord ==
    writer # 0 /\ ~stolen =>
        \/ row[writer].status \in {"approved", "rolled_back"}
        \/ intent[writer].action # None

\* A decision replaces the ICP it was made about: the one it was proposed for,
\* or the one it applied ("never overwrite a newer manual value").
DecisionReplacesItsOwn ==
    [][\A a \in Process :
          At(a, {"approve", "rollback"}, "noted") /\ task'[a].at = "written" /\ icp' # icp
          => stolen \/ icp = IF task[a].op = "approve" THEN row[task[a].id].current
                             ELSE row[task[a].id].proposed]_vars
=============================================================================
