------------------------------ MODULE GateLadder ------------------------------
(***************************************************************************)
(* What both replays promise of verification: gates are passed in order,   *)
(* each only when the gate before was passed at least so long ago.  Passing*)
(* a gate again, late or never is allowed; time may stand still.           *)
(***************************************************************************)
EXTENDS Integers, Sequences

CONSTANTS Ladder,   \* the gates, lowest first
          Age       \* how old a pass of the gate below must be

VARIABLES now, passed

TimePasses == now' \in {now, now + 1}

Wait == TimePasses /\ UNCHANGED passed

Climb(i) ==
    /\ i > 1 => \E p \in passed : p.gate = Ladder[i - 1] /\ now - p.tick >= Age[i]
    /\ passed' = passed \cup {[gate |-> Ladder[i], tick |-> now]}
    /\ TimePasses

Init == now = 0 /\ passed = {}

Next == Wait \/ \E i \in 1..Len(Ladder) : Climb(i)

Spec == Init /\ [][Next]_<<now, passed>>
=============================================================================
