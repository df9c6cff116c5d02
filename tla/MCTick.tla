-------------------------------- MODULE MCTick --------------------------------
(***************************************************************************)
(* Two tasks of the scheduler's tick, in behaviours of their own: pending  *)
(* invites, and the answers in the mailboxes, which the server polls alone *)
(* or beside `cadence advance`.                                            *)
(***************************************************************************)
EXTENDS MCLinkedInInvite

CONSTANTS Mail, Received, OptOut, Stored, Poller, Cli, PageSize, MaxPages, Overlap

VARIABLES arrived, intent, unread, replied, optedOut, mark, backlog, poller, up,
          excused, broken

pollVars == <<arrived, intent, unread, replied, optedOut, mark, backlog, poller, up,
              excused, broken>>

\* The two oldest answers share a second.
MCReceived == [m \in Mail |-> IF m = 1 THEN 1 ELSE m - 1]

Inbox == INSTANCE ReplyPoll WITH task <- poller, faults <- broken

ASSUME PollAssumption == Inbox!PollAssumption

\* No mailbox is polled where invites are at work.
NoPoll ==
    /\ arrived = {} /\ unread = {} /\ replied = {} /\ optedOut = {} /\ excused = {}
    /\ intent = [m \in Mail |-> "no row"] /\ mark = 0 /\ backlog = Inbox!None
    /\ poller = [p \in Poller |-> [Inbox!Idle EXCEPT !.at = "off"]]
    /\ up = TRUE /\ broken = 0

\* Alone, everything may fail; in a pair, only the CLI's process dies, labels
\* do not fail, and the CLI begins before any mail was seen.
PollWithin ==
    IF setup = "alone"
    THEN \A p \in Cli : UNCHANGED poller[p]
    ELSE /\ up' /\ \A m \in Mail : intent'[m] # "none"
         /\ \A p \in Poller :
                poller'[p].clean /\ (poller[p].at = "list" => poller'[p].at = "page")
         /\ \A p \in Cli : Inbox!Rests(p) /\ poller'[p].at # "idle" => mark = 0

Polls == setup \in {"alone", "pair"}

TickInit ==
    /\ Init
    /\ \/ setup \in Setups /\ NoPoll
       \/ Polls /\ Inbox!Init

TickNext ==
    /\ UNCHANGED setup
    /\ IF Polls THEN Inbox!Next /\ PollWithin /\ UNCHANGED vars
                ELSE Next /\ Within /\ UNCHANGED pollVars

TickSpec ==
    /\ TickInit /\ [][TickNext]_<<vars, pollVars, setup>>
    /\ Fairness /\ Inbox!Fairness

\* No answer is lost for another reason than those named.
NoReplyLost == Inbox!NoReplyLost

\* Every other answer stops its person's follow-ups in the end.
RepliesCount == Inbox!RepliesCount
=============================================================================
