----------------------------- MODULE MCSenderPool -----------------------------
(***************************************************************************)
(* What an email passes before it leaves, under three setups chosen in the *)
(* initial state.  Of SenderPool, "caps": two mailboxes of one OneShot     *)
(* domain with a cap of one, two people and a midnight; and "sender": two  *)
(* plays that email one person, whom a mailbox emailed before rotation,    *)
(* while the founder changes the pool.  And "touch": the gate on people    *)
(* whom two products' workspaces share (ContactTouch).                     *)
(***************************************************************************)
EXTENDS SenderPool, TLC

CONSTANTS e1, e2, e3, e4, p1, p2, p3, i1, i2, i3, shared, open,
          Workspace, Address, SharedPerson, MaxTouches, Unlinked

VARIABLES touches, ids, person, calls, making, flying, arrived, setup

touchVars == <<touches, ids, person, calls, making, flying, arrived>>

Touch == INSTANCE ContactTouch WITH Person <- SharedPerson, Task <- Worker, pc <- calls,
                                    job <- making, wire <- flying, mail <- arrived

ASSUME Touch!TouchAssumption

\* e3 and e4 go to p3: two plays, or a first touch and its follow-up.
MCTo == [e \in Email |-> IF e = e1 THEN p1 ELSE IF e = e2 THEN p2 ELSE p3]

\* i1 and i2 are mailboxes of one OneShot domain, i3 has no cap.
MCGroupOf == [i \in Identity |-> IF i = i3 THEN open ELSE shared]

MCCapOne == [i \in Identity |-> 1]

\* The pools: all of it, the capped domain, and all but the legacy mailbox.
MCPools == {Identity, {i1, i2}, Identity \ {i2}}

Symmetry ==
    Permutations(Worker) \cup Permutations(Workspace) \cup Permutations(Address)

-----------------------------------------------------------------------------
\* In "caps" nobody dies, and every call is over before its slot expires.
Caps ==
    /\ \A w \in Worker : job'[w] # NoJob => job'[w].cfg = {i1, i2} /\ job'[w].email \in {e1, e2}
    /\ pool' \in {Identity, {i1, i2}}
    /\ \A w \in Worker : ~Crash(w)
    /\ \A h \in held : Expire(h) => \A w \in Worker : pc[w] # "idle" => job[w].slot # h.id

\* In "sender" it is one day, and the one slot lasts it.
Sender ==
    /\ \A w \in Worker : job'[w] # NoJob => job'[w].email \in {e3, e4}
    /\ pool' # {i1, i2}
    /\ today' = 0 /\ picks' <= 1
    /\ \A h \in held : ~Expire(h)

\* In "touch" the last email asks the gate, and with its answer all is said.
Gate ==
    /\ ids < MaxTouches
    /\ ids' = MaxTouches => \E w \in Worker : making'[w] # making[w] /\ making'[w].kind = "claimed"

SetupInit == Init /\ Touch!Init /\ setup \in {"caps", "sender", "touch"}

SetupNext ==
    /\ UNCHANGED setup
    /\ IF setup = "touch" THEN Touch!Next /\ Gate /\ UNCHANGED vars
       ELSE /\ Next /\ UNCHANGED touchVars
            /\ IF setup = "caps" THEN Caps ELSE Sender

SetupSpec == SetupInit /\ [][SetupNext]_<<vars, touchVars, setup>>

\* A claim never succeeds beside another workspace's recent email.
FirstTouchIsAlone == Touch!FirstTouchIsAlone
=============================================================================
