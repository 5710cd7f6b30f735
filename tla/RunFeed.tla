------------------------------ MODULE RunFeed ------------------------------
(***************************************************************************)
(* What a reader of one run's events is told while RunControl writes them: *)
(* the loop of GET /runs/{id}/stream (api/runs.py) and the polling of the  *)
(* console's run page (apps/web/src/App.tsx), which asks the two endpoints *)
(* GET /runs/{id} and /events.  The readers do not share anything; a       *)
(* behaviour has one of them.                                              *)
(***************************************************************************)
EXTENDS RunControl

CONSTANT IdleTicks     \* polls in a row without an event that end a stream

ASSUME IdleAssumption == IdleTicks \in Nat \ {0}

VARIABLES reader,      \* "stream", "console" or "none"
          open,        \* the stream goes on
          look,        \* the status the reader has read
          told,        \* the events it has been given
          idle         \* idle_ticks

feedVars == <<reader, open, look, told, idle>>

FeedInit ==
  /\ reader \in {"none", "stream", "console"}
  /\ open = TRUE /\ look = "unread" /\ told = {} /\ idle = 0

(* `sequence > after`, of what is committed; the answer is in that order,  *)
(* so only the largest number matters to the next one.                     *)
Cursor == Max({0} \cup {e.seq : e \in told})
Fresh == {e \in events : e.seq > Cursor}

Quiet == UNCHANGED <<vars, reader>>

---------------------------------------------------------------------------
(* stream_events.  The two SELECTs of a tick have a snapshot each, and     *)
(* the session keeps the row that the first one has read.                  *)
StreamLooks ==
  /\ reader = "stream" /\ open /\ look = "unread"
  /\ look' = status
  /\ UNCHANGED <<open, told, idle>> /\ Quiet

(* Mutant of StreamSends: it leaves as soon as it knows that the run is over. *)
StreamLeavesFirst ==
  /\ reader = "stream" /\ open /\ look # "unread"
  /\ told' = IF look \in Terminal THEN told ELSE told \cup Fresh
  /\ idle' = IF Fresh # {} THEN 0 ELSE idle + 1
  /\ open' = ~(look \in Terminal \/ idle' = IdleTicks)
  /\ look' = "unread"
  /\ Quiet

StreamSends ==
  /\ reader = "stream" /\ open /\ look # "unread"
  /\ told' = told \cup Fresh
  /\ idle' = IF Fresh # {} THEN 0 ELSE idle + 1
  /\ open' = ~(look \in Terminal \/ idle' = IdleTicks)
  /\ look' = "unread"
  /\ Quiet

---------------------------------------------------------------------------
(* The console.  isTerminalEvent does not name run.orphaned.               *)
TerminalEvents == {"run.completed", "run.failed", "run.cancelled"}
Latest == {e \in told : e.seq = Cursor}
Settled == look \in Terminal /\ \E e \in Latest : e.kind \in TerminalEvents

(* Each query is answered while the run is not archived, and repeated      *)
(* until the page has what it waits for.                                   *)
ConsoleLooks ==
  /\ reader = "console" /\ ~archived /\ look \notin Terminal
  /\ look' = status
  /\ UNCHANGED <<open, told, idle>> /\ Quiet

ConsoleReads ==
  /\ reader = "console" /\ ~archived /\ ~Settled
  /\ told' = told \cup Fresh
  /\ UNCHANGED <<open, look, idle>> /\ Quiet

FeedNext == StreamLooks \/ StreamSends \/ ConsoleLooks \/ ConsoleReads

FeedSpec == Init /\ FeedInit /\ [][FeedNext \/ (Next /\ UNCHANGED feedVars)]_<<vars, feedVars>>

---------------------------------------------------------------------------
(* Properties.                                                             *)

(* A reader that asks only for what is behind the last event it got has    *)
(* still got every event up to there, whichever transactions the actors of *)
(* the run commit in between and in whatever order.  A stream that closes  *)
(* because the run is over has told how it ended, and so has a page that   *)
(* no longer asks.                                                         *)
ReaderMissesNothing ==
  /\ \A e \in events : e.seq <= Cursor => e \in told
  /\ (~open /\ idle < IdleTicks) \/ (reader = "console" /\ Settled)
       => \E e \in told : e.kind \in TerminalEvents \cup {"run.orphaned"}
=============================================================================
