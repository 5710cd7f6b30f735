---------------------------- MODULE RunLifecycle ----------------------------
(***************************************************************************)
(* What the platform promises of one run, whoever asks what and whenever:  *)
(* the order of its statuses, that the Runner's verdict is reached once and*)
(* stays, and that a cancelled run is never taken up again.                *)
(*                                                                         *)
(* The cancel request checks the status it has read, not the one it        *)
(* overwrites, so a cancellation may also land on a decided run; and the   *)
(* reconciliation of a restarted Runner may land on a cancelled one.       *)
(***************************************************************************)
VARIABLES status, verdict

Init == status = "queued" /\ verdict = "none"

Claim == status = "queued" /\ status' = "preparing" /\ UNCHANGED verdict

Start == status = "preparing" /\ status' = "running" /\ UNCHANGED verdict

Score == status = "running" /\ status' = "scoring" /\ UNCHANGED verdict

Complete ==
  /\ status = "scoring" /\ verdict = "none"
  /\ status' = "completed" /\ verdict' = "completed"

Fail ==
  /\ status \in {"preparing", "running", "scoring"} /\ verdict = "none"
  /\ status' = "failed" /\ verdict' = "failed"

Cancel == status # "cancelled" /\ status' = "cancelled" /\ UNCHANGED verdict

FailInterrupted ==
  /\ status \in {"preparing", "running", "scoring", "cancelled"} /\ verdict = "none"
  /\ status' = "failed" /\ verdict' = "failed"

Next ==
  Claim \/ Start \/ Score \/ Complete \/ Fail \/ Cancel \/ FailInterrupted

Spec == Init /\ [][Next]_<<status, verdict>>

=============================================================================
