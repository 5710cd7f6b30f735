----------------------------- MODULE MCRunFeed -----------------------------
(***************************************************************************)
(* Two instances in one: a run with all its requests and no reader, and    *)
(* one with a reader where fewer requests arrive.                          *)
(***************************************************************************)
EXTENDS RunFeed, TLC

CONSTANTS ReaderRequests,  \* bound: requests that arrive while a reader looks on
          Extensions       \* bound: requests that change the budget

Arrived(ops) == Cardinality({r \in Requests : pc[r] # "idle" /\ op[r] \in ops})

MCNext ==
  \/ FeedNext
  \/ /\ Next /\ UNCHANGED feedVars
     /\ reader = "none" \/ Arrived(Ops)' <= ReaderRequests
     /\ Arrived({"budget"})' <= Extensions
  \/ /\ reader # "none"   \* the other requests stay away and the Runner has no run
     /\ \A r \in Requests : pc[r] \in {"idle", "done"}
     /\ wpc = "poll" /\ (status # "queued" \/ archived)
     /\ UNCHANGED <<vars, feedVars>>

MCSpec == Init /\ FeedInit /\ [][MCNext]_<<vars, feedVars>>

Symmetry == Permutations(Requests)
=============================================================================
