----------------------------- MODULE RunControl -----------------------------
(***************************************************************************)
(* One benchmark run, from the moment POST /runs has committed it: the     *)
(* control requests of the API (cancel, pause, resume, budget, archive),   *)
(* the Runner thread that executes the run, and the Runner's restart.      *)
(*                                                                         *)
(* All of them meet in PostgreSQL under READ COMMITTED.  The row of        *)
(* benchmark_runs is  status, stage, error, config, archived  and the rows *)
(* of run_events are the set  events, whose (run, sequence) is UNIQUE.     *)
(* A transaction is split where another one can get between its            *)
(* statements:                                                             *)
(*                                                                         *)
(*   - a handler of the API reads the row without a lock (read), later     *)
(*     flushes its UPDATE, which takes the row lock, and reads             *)
(*     max(sequence) (write), and at last inserts its event and commits    *)
(*     (commit);                                                           *)
(*   - AgentEngine._event reads max(sequence) and inserts with no row      *)
(*     lock, and then updates the counters of the row, which needs it;     *)
(*   - a transaction that begins with SELECT ... FOR UPDATE, or whose first*)
(*     statement that matters is the UPDATE, holds the row lock from there *)
(*     on: nobody else can write in between and it is one step here.       *)
(***************************************************************************)
EXTENDS Integers, FiniteSets, Sequences, FiniteSetsExt

CONSTANTS
  Requests,     \* control requests that may reach the API, one call each
  Ops,          \* the endpoints they call
  Runner,       \* the Runner process
  NoOne,        \* the row lock is free
  MaxTurns,     \* the engine's hard budget: boundaries it reaches
  MaxCrashes    \* how often the Runner process may die

AllOps == {"cancel", "pause", "resume", "budget", "archive"}

Actors == Requests \cup {Runner}

ASSUME ActorsAssumption == Runner \notin Requests /\ NoOne \notin Requests
ASSUME OpsAssumption == Ops \subseteq AllOps
ASSUME BoundsAssumption == MaxTurns \in Nat /\ MaxCrashes \in Nat

Statuses ==
  {"queued", "preparing", "running", "scoring", "completed", "failed", "cancelled"}
Terminal == {"completed", "failed", "cancelled"}

\* Mutants of Interrupted: with the failed runs, and without the preparing ones.
InterruptedOrFailed == {"preparing", "running", "scoring", "failed"}
InterruptedAtWork == {"running", "scoring"}

Interrupted == {"preparing", "running", "scoring"}

Stages ==
  {"Queued", "Loading", "Starting sandbox", "Candidate investigation",
   "Pause requested", "Paused at safe boundary", "Resume requested", "Judging",
   "Archiving", "Completed", "Failed", "Cancelled by user", "Interrupted"}

Kinds ==
  {"run.queued", "run.preparing", "scenario.loaded", "scenario.prepared",
   "sandbox.started", "candidate", "run.budget_adjusted", "run.paused",
   "run.resumed", "run.scoring", "judge", "run.completed", "run.failed",
   "run.orphaned", "run.cancelled", "run.pause_requested",
   "run.resume_requested", "run.budget_adjustment_requested", "run.archived"}

Files == {"run-archive", "failure-checkpoint"}
Errors == {"none", "work", "database", "restart"}

\* benchmark_runs.config, the part that changes: a run is created without the
\* pause_requested key, and budget_overrides names the requests that appended.
Configs == [pause_requested : {"unset", "no", "yes"}, budget_overrides : Seq(Requests)]

\* The config of a run that POST /runs has just created.
NoConfig == [pause_requested |-> "unset", budget_overrides |-> <<>>]

VARIABLES
  status, stage, error, config, archived,   \* the row of the run
  events,                                   \* committed run_events
  artifacts,                                \* committed run_artifacts
  files,                                    \* archives on the artifact volume
  holder,                                   \* the request that holds the row lock
  pc, op, reply,                            \* each request's handler
  seen, seq,                                \* config and max(sequence) + 1 as read
  wpc, wnext, dirty,                        \* the Runner's thread
  exc,                                      \* the exception it is handling
  turns, applied, toReport,        \* the engine's memory
  crashes

row == <<status, stage, error, config, archived>>
handlers == <<pc, op, reply>>
thread == <<wpc, wnext, dirty, exc>>
engine == <<turns, applied, toReport>>
vars == <<status, stage, error, config, archived, events, artifacts, files, holder,
          pc, op, reply, seen, seq, wpc, wnext, dirty, exc,
          turns, applied, toReport, crashes>>

-----------------------------------------------------------------------------
(* run_events *)

\* Mutant of Taken: the table without uq_event_run_sequence.
TakenUnchecked(s) == FALSE

Taken(s) == \E e \in events : e.seq = s

\* SELECT max(sequence), plus one.
NextSeq == Max({0} \cup {e.seq : e \in events}) + 1

Log(kind) == events' = events \cup {[seq |-> NextSeq, kind |-> kind]}

\* An event the Runner has inserted and not yet committed.
Uncommitted(s) == wpc = "ev_commit" /\ seq[Runner] = s

Init ==
  /\ status = "queued" /\ stage = "Queued" /\ error = "none"
  /\ config = NoConfig
  /\ archived = FALSE
  /\ events = {[seq |-> 1, kind |-> "run.queued"]}
  /\ artifacts = {} /\ files = {}
  /\ holder = NoOne
  /\ pc = [r \in Requests |-> "idle"]
  /\ op = [r \in Requests |-> "none"]
  /\ reply = [r \in Requests |-> "none"]
  /\ seen = [a \in Actors |-> NoConfig]
  /\ seq = [a \in Actors |-> 0]
  /\ wpc = "poll" /\ wnext = "poll" /\ dirty = FALSE /\ exc = "none"
  /\ turns = 0 /\ applied = 0 /\ toReport = 0
  /\ crashes = 0

-----------------------------------------------------------------------------
(* The handlers of the API *)

\* The handler answers, and its session and locals are gone.
Finish(r, answer) ==
  /\ pc' = [pc EXCEPT ![r] = "done"]
  /\ reply' = [reply EXCEPT ![r] = answer]
  /\ seen' = [seen EXCEPT ![r] = NoConfig]
  /\ seq' = [seq EXCEPT ![r] = 0]

\* Each handler's early returns, on the row it has read.  An archived run is
\* not found; "accepted" goes on to write; every other answer ends the request.
Verdict(o) ==
  CASE archived -> "refused"
    [] ~archived /\ o = "cancel" ->
         IF status \in Terminal THEN "unchanged" ELSE "accepted"
    [] ~archived /\ o = "pause" ->
         IF status # "running" THEN "refused"
         ELSE IF config.pause_requested = "yes" THEN "unchanged" ELSE "accepted"
    [] ~archived /\ o = "resume" ->
         IF status = "running" /\ config.pause_requested = "yes"
           THEN "accepted" ELSE "refused"
    [] ~archived /\ o = "budget" ->
         IF status \in {"queued", "preparing", "running"}
           THEN "accepted" ELSE "refused"

\* session.get: no lock is taken, and the handler keeps the config it saw.
ReadRun(r, o) ==
  /\ pc[r] = "idle"
  /\ o \in Ops \ {"archive"}
  /\ op' = [op EXCEPT ![r] = o]
  /\ IF Verdict(o) = "accepted"
       THEN /\ pc' = [pc EXCEPT ![r] = "write"]
            /\ seen' = [seen EXCEPT ![r] = config]
            /\ UNCHANGED <<reply, seq>>
       ELSE Finish(r, Verdict(o))
  /\ UNCHANGED <<row, events, artifacts, files, holder, thread, engine, crashes>>

\* BudgetSpec refuses the merged budget, or the Scenario's minimum does.
RejectBudget(r) ==
  /\ pc[r] = "write" /\ op[r] = "budget"
  /\ Finish(r, "refused")
  /\ UNCHANGED <<row, events, artifacts, files, holder, op, thread, engine, crashes>>

\* append_event's SELECT autoflushes the pending UPDATE: the row lock first,
\* then max(sequence).
FlushUpdate(r) ==
  /\ pc[r] = "write"
  /\ holder = NoOne
  /\ holder' = r
  /\ seq' = [seq EXCEPT ![r] = NextSeq]
  /\ pc' = [pc EXCEPT ![r] = "commit"]
  /\ UNCHANGED <<row, events, artifacts, files, op, seen, reply, thread, engine, crashes>>

EventOf(o) ==
  CASE o = "cancel" -> "run.cancelled"
    [] o = "pause" -> "run.pause_requested"
    [] o = "resume" -> "run.resume_requested"
    [] o = "budget" -> "run.budget_adjustment_requested"

\* The config a handler writes back is the one it read, with its own change:
\* the whole JSON column.  SQLAlchemy leaves an unchanged column out.
Written(r) ==
  CASE op[r] \in {"cancel", "resume"} -> [seen[r] EXCEPT !.pause_requested = "no"]
    [] op[r] = "pause" -> [seen[r] EXCEPT !.pause_requested = "yes"]
    [] op[r] = "budget" -> [seen[r] EXCEPT !.budget_overrides = Append(@, r)]

WriteColumns(r) ==
  /\ config' = IF Written(r) = seen[r] THEN config ELSE Written(r)
  /\ status' = IF op[r] = "cancel" THEN "cancelled" ELSE status
  /\ stage' = CASE op[r] = "cancel" -> "Cancelled by user"
                [] op[r] = "pause" -> "Pause requested"
                [] op[r] = "resume" -> "Resume requested"
                [] op[r] = "budget" -> stage

\* INSERT and COMMIT.  The insert waits for another transaction's uncommitted
\* row with the same sequence.
CommitRequest(r) ==
  /\ pc[r] = "commit"
  /\ ~Uncommitted(seq[r])
  /\ ~Taken(seq[r])
  /\ WriteColumns(r)
  /\ events' = events \cup {[seq |-> seq[r], kind |-> EventOf(op[r])]}
  /\ holder' = NoOne
  /\ Finish(r, "accepted")
  /\ UNCHANGED <<error, archived, artifacts, files, op, thread, engine, crashes>>

\* Mutant of RequestCollides: the handler tries the insert again, with the
\* number it has read and the row lock it has taken.
RequestRetriesInsert(r) == pc[r] = "commit" /\ Taken(seq[r]) /\ UNCHANGED vars

\* IntegrityError on (run, sequence): 500, and the transaction is rolled back.
RequestCollides(r) ==
  /\ pc[r] = "commit"
  /\ Taken(seq[r])
  /\ holder' = NoOne
  /\ Finish(r, "error")
  /\ UNCHANGED <<row, events, artifacts, files, op, thread, engine, crashes>>

\* archive_run reads FOR UPDATE, which also waits for the key share lock that
\* an uncommitted event holds on its run.
Archive(r) ==
  /\ pc[r] = "idle" /\ "archive" \in Ops
  /\ holder = NoOne /\ wpc # "ev_commit"
  /\ op' = [op EXCEPT ![r] = "archive"]
  /\ IF archived \/ status \notin Terminal
       THEN /\ Finish(r, "refused")
            /\ UNCHANGED <<archived, events>>
       ELSE /\ Finish(r, "accepted")
            /\ Log("run.archived")
            /\ archived' = TRUE
  /\ UNCHANGED <<status, stage, error, config, artifacts, files, holder,
                 thread, engine, crashes>>

Handler(r) ==
  FlushUpdate(r) \/ RejectBudget(r) \/ CommitRequest(r) \/ RequestCollides(r)

-----------------------------------------------------------------------------
(* The Runner: polling, and one execute() *)

Goto(label) == wpc' = label /\ UNCHANGED <<wnext, dirty>>

EngineGone == turns' = 0 /\ applied' = 0 /\ toReport' = 0

\* The transactions below that take the row lock first: FOR UPDATE, or an
\* UPDATE before max(sequence) is read.
Locked(kind) ==
  /\ holder = NoOne
  /\ Log(kind)
  /\ UNCHANGED <<archived, files, holder, handlers, seen, seq, engine, crashes>>

\* A step of the thread that touches only its own memory.
Reads ==
  UNCHANGED <<row, events, artifacts, files, holder, handlers, seen, seq, exc, crashes>>

\* load_scenario() and prepare() have not returned: nothing to checkpoint yet.
Unprepared ==
  \/ wpc \in {"load", "prepare"}
  \/ wpc \in {"ev_insert", "ev_commit"} /\ wnext = "prepare"

\* An exception that leaves execute()'s try block.
Raise(reason) ==
  /\ exc' = reason
  /\ Goto(IF Unprepared THEN "fail" ELSE "checkpoint")
  /\ EngineGone
  /\ UNCHANGED <<row, events, artifacts, files, holder, handlers, seen, seq, crashes>>

\* SELECT ... FOR UPDATE SKIP LOCKED over the queue.
Claim ==
  /\ wpc = "poll"
  /\ status = "queued" /\ ~archived
  /\ Locked("run.preparing")
  /\ status' = "preparing" /\ stage' = "Loading"
  /\ Goto("load")
  /\ UNCHANGED <<error, config, artifacts, exc>>

\* The thread finds the run cancelled where it may stop, and leaves execute().
StopCancelled ==
  /\ wpc \in {"load", "prepare", "score", "judge", "archive"}
  /\ status = "cancelled"
  /\ Goto("poll")
  /\ Reads /\ UNCHANGED engine

\* A step of the Scenario, the sandbox or the Provider that raises.
WorkFails ==
  /\ \/ wpc \in {"load", "archive"} /\ status # "cancelled"
     \/ wpc \in {"prepare", "sandbox", "answer", "judge"}
  /\ Raise("work")

\* AgentEngine._event, and the append_event of execute(): max(sequence) is
\* read with no row lock.  Then InsertEvent and CommitEvent, and the thread
\* goes on at label.  Events one after the other with only the sandbox or the
\* Provider between them are one event here.
BeginEvent(label, updates) ==
  /\ seq' = [seq EXCEPT ![Runner] = NextSeq]
  /\ wnext' = label /\ dirty' = updates
  /\ wpc' = "ev_insert"
  /\ UNCHANGED <<row, events, artifacts, files, holder, handlers, seen, exc, crashes>>

KindOf(label) ==
  CASE label = "prepare" -> "scenario.loaded"
    [] label = "report" -> "run.budget_adjusted"
    [] OTHER -> "candidate"

InsertEvent ==
  /\ wpc = "ev_insert" /\ ~Taken(seq[Runner])
  /\ Goto("ev_commit")
  /\ Reads /\ UNCHANGED engine

EventCollides ==
  /\ wpc = "ev_insert" /\ Taken(seq[Runner])
  /\ Raise("database")

\* The update of tool_calls and tokens in the same transaction waits for the
\* row lock; an event that changes no counter has nothing to update.
CommitEvent ==
  /\ wpc = "ev_commit"
  /\ dirty => holder = NoOne
  /\ events' = events \cup {[seq |-> seq[Runner], kind |-> KindOf(wnext)]}
  /\ wpc' = wnext /\ dirty' = FALSE /\ UNCHANGED wnext
  /\ seq' = [seq EXCEPT ![Runner] = 0]
  /\ UNCHANGED <<row, artifacts, files, holder, handlers, seen, exc, engine, crashes>>

\* A request waits for the Runner's uncommitted event, and the Runner's counter
\* update for the request's row lock.
Deadlocked(r) ==
  pc[r] = "commit" /\ holder = r /\ Uncommitted(seq[r]) /\ dirty

\* PostgreSQL aborts one of the two.
AbortRequest(r) ==
  /\ Deadlocked(r)
  /\ holder' = NoOne
  /\ Finish(r, "error")
  /\ UNCHANGED <<row, events, artifacts, files, op, thread, engine, crashes>>

AbortEvent(r) == Deadlocked(r) /\ Raise("database")

LoadScenario ==
  /\ wpc = "load" /\ status # "cancelled"
  /\ BeginEvent("prepare", FALSE)
  /\ UNCHANGED engine

Prepare ==
  /\ wpc = "prepare" /\ status # "cancelled"
  /\ Locked("scenario.prepared")
  /\ status' = "preparing" /\ stage' = "Starting sandbox"
  /\ Goto("sandbox")
  /\ UNCHANGED <<error, config, artifacts, exc>>

\* Mutant of SetStage: without the check for a cancelled run.
SetStageUnguarded(newStatus, newStage, kind, label) ==
  /\ Locked(kind)
  /\ status' = newStatus /\ stage' = newStage
  /\ Goto(label)
  /\ UNCHANGED <<error, config, artifacts, exc>>

\* set_stage: FOR UPDATE, and nothing at all on a cancelled run.
SetStage(newStatus, newStage, kind, label) ==
  /\ IF status = "cancelled"
       THEN /\ holder = NoOne
            /\ Reads /\ UNCHANGED engine
       ELSE /\ Locked(kind)
            /\ status' = newStatus /\ stage' = newStage
            /\ UNCHANGED <<error, config, artifacts, exc>>
  /\ Goto(label)

StartSandbox ==
  /\ wpc = "sandbox"
  /\ SetStage("running", "Candidate investigation", "sandbox.started", "turn")

-----------------------------------------------------------------------------
(* AgentEngine.run *)

\* The loop's condition, and a safe boundary: of a model turn, which also
\* applies the overrides, or of one tool call.
Boundary ==
  /\ wpc = "turn" /\ turns < MaxTurns
  /\ turns' = turns + 1
  /\ wpc' = "check_cancel" /\ wnext' \in {"overrides", "work"}
  /\ Reads /\ UNCHANGED <<dirty, applied, toReport>>

BudgetSpent ==
  /\ wpc = "turn" /\ turns = MaxTurns
  /\ Goto("end")
  /\ Reads /\ UNCHANGED engine

\* _wait_for_resume: two sessions, so the row may change between the reads.
CheckCancelled ==
  /\ wpc = "check_cancel"
  /\ Goto(IF status = "cancelled" THEN "end" ELSE "check_pause")
  /\ Reads /\ UNCHANGED engine

\* Mutant of CheckPause: the flag is read only while the run is paused.
CheckPauseNever ==
  /\ wpc = "check_pause"
  /\ Goto(wnext)
  /\ Reads /\ UNCHANGED engine

CheckPause ==
  /\ wpc = "check_pause"
  /\ Goto(IF config.pause_requested = "yes" THEN "pause" ELSE wnext)
  /\ Reads /\ UNCHANGED engine

\* Neither of the two writes looks at the status, nor at the flag again.
Pause ==
  /\ wpc = "pause"
  /\ Locked("run.paused")
  /\ stage' = "Paused at safe boundary"
  /\ Goto("paused")
  /\ UNCHANGED <<status, error, config, artifacts, exc>>

\* Mutant of PollPause: waits for the resume request, not for the flag.
PollPauseByStage ==
  /\ wpc = "paused"
  /\ Goto(IF stage = "Resume requested" THEN "resume" ELSE "paused")
  /\ Reads /\ UNCHANGED engine

PollPause ==
  /\ wpc = "paused"
  /\ Goto(IF config.pause_requested = "yes" THEN "paused_cancel" ELSE "resume")
  /\ Reads /\ UNCHANGED engine

PollCancelled ==
  /\ wpc = "paused_cancel"
  /\ Goto(IF status = "cancelled" THEN "end" ELSE "paused")
  /\ Reads /\ UNCHANGED engine

\* Mutant of Resume: the stage stays what the pause has made it.
ResumeKeepsStage ==
  /\ wpc = "resume"
  /\ Locked("run.resumed")
  /\ Goto("resumed")
  /\ UNCHANGED <<status, stage, error, config, artifacts, exc>>

Resume ==
  /\ wpc = "resume"
  /\ Locked("run.resumed")
  /\ stage' = "Candidate investigation"
  /\ Goto("resumed")
  /\ UNCHANGED <<status, error, config, artifacts, exc>>

Resumed ==
  /\ wpc = "resumed"
  /\ Goto(IF status = "cancelled" THEN "end" ELSE wnext)
  /\ Reads /\ UNCHANGED engine

\* The entries behind the ones already handled, by position.  They take force
\* together or, when the merged BudgetSpec is invalid, not at all.
ApplyOverrides ==
  LET overrides == config.budget_overrides
      pending == Len(overrides) - applied
  IN  /\ wpc = "overrides"
      /\ IF pending <= 0
           THEN UNCHANGED <<applied, toReport>>
           ELSE applied' = Len(overrides) /\ toReport' \in {0, pending}
      /\ Goto("report")
      /\ Reads /\ UNCHANGED turns

ReportOverride ==
  /\ wpc = "report" /\ toReport > 0
  /\ toReport' = toReport - 1
  /\ BeginEvent("report", FALSE)
  /\ UNCHANGED <<turns, applied>>

OverridesReported ==
  /\ wpc = "report" /\ toReport = 0
  /\ Goto("work")
  /\ Reads /\ UNCHANGED engine

\* The model's turn and its tool calls; the counters may have moved.
Work ==
  /\ wpc = "work"
  /\ \E updates \in BOOLEAN : BeginEvent("answer", updates)
  /\ UNCHANGED engine

\* Another turn, or an accepted answer, a hard limit or a protocol failure.
Answer ==
  /\ wpc = "answer"
  /\ \E label \in {"turn", "end"} : Goto(label)
  /\ Reads /\ UNCHANGED engine

\* The last snapshot, cancelled or not.
EndInvestigation ==
  /\ wpc = "end"
  /\ \E updates \in BOOLEAN : BeginEvent("score", updates)
  /\ EngineGone

-----------------------------------------------------------------------------
(* Judging, and the two ways execute() ends *)

BeginScoring ==
  /\ wpc = "score" /\ status # "cancelled"
  /\ SetStage("scoring", "Judging", "run.scoring", "judge")

\* Hidden checks, audit, scorecard and review: set_stage with no new status.
Judge ==
  /\ wpc = "judge"
  /\ SetStage(status, "Archiving", "judge", "archive")

\* Mutant of ArchiveEvidence: the run completes before the file is written.
ArchiveEvidenceLater ==
  /\ wpc = "archive" /\ status # "cancelled"
  /\ Goto("complete")
  /\ UNCHANGED <<row, events, artifacts, files, holder, handlers, seen, seq, exc,
                 engine, crashes>>

ArchiveEvidence ==
  /\ wpc = "archive" /\ status # "cancelled"
  /\ files' = files \cup {"run-archive"}
  /\ Goto("complete")
  /\ UNCHANGED <<row, events, artifacts, holder, handlers, seen, seq, exc, engine, crashes>>

\* Mutant of Complete: without the check for a cancelled run.
CompleteUnguarded ==
  /\ wpc = "complete"
  /\ Locked("run.completed")
  /\ status' = "completed" /\ stage' = "Completed"
  /\ artifacts' = artifacts \cup {"run-archive"}
  /\ Goto("poll")
  /\ UNCHANGED <<error, config, exc>>

Complete ==
  /\ wpc = "complete"
  /\ IF status = "cancelled"
       THEN /\ holder = NoOne
            /\ Reads /\ UNCHANGED engine
       ELSE /\ Locked("run.completed")
            /\ status' = "completed" /\ stage' = "Completed"
            /\ artifacts' = artifacts \cup {"run-archive"}
            /\ UNCHANGED <<error, config, exc>>
  /\ Goto("poll")

\* create_failure_checkpoint: not for a cancelled run, and it may itself fail,
\* with the file written or not; fail() registers only a checkpoint it is given.
Checkpoint ==
  /\ wpc = "checkpoint"
  /\ \/ files' = files
     \/ status # "cancelled" /\ files' = files \cup {"failure-checkpoint"}
  /\ Goto("fail")
  /\ UNCHANGED <<row, events, artifacts, holder, handlers, seen, seq, exc, engine, crashes>>

Fail ==
  /\ wpc = "fail"
  /\ IF status = "cancelled"
       THEN /\ holder = NoOne
            /\ UNCHANGED <<row, events, artifacts, files, holder, handlers, seen, seq,
                           engine, crashes>>
       ELSE /\ Locked("run.failed")
            /\ status' = "failed" /\ stage' = "Failed" /\ error' = exc
            /\ \E saved \in SUBSET (files \cap {"failure-checkpoint"}) :
                 artifacts' = artifacts \cup saved
            /\ UNCHANGED config
  /\ exc' = "none"
  /\ Goto("poll")

-----------------------------------------------------------------------------
(* The Runner's death and its next start *)

\* The process dies with the conversation; its open transaction rolls back.
Crash ==
  /\ wpc # "down" /\ crashes < MaxCrashes
  /\ crashes' = crashes + 1
  /\ wpc' = "down" /\ wnext' = "poll" /\ dirty' = FALSE /\ exc' = "none"
  /\ EngineGone
  /\ UNCHANGED <<row, events, artifacts, files, holder, handlers, seen, seq>>

\* reconcile_orphaned_runs reads the interrupted runs without a lock ...
Restart ==
  /\ wpc = "down"
  /\ Goto(IF status \in Interrupted /\ ~archived THEN "orphan" ELSE "poll")
  /\ seen' = [seen EXCEPT ![Runner] = config]
  /\ UNCHANGED <<row, events, artifacts, files, holder, handlers, seq, exc, engine, crashes>>

\* ... and fails them, whatever has become of them.
Orphan ==
  /\ wpc = "orphan"
  /\ Locked("run.orphaned")
  /\ config' = IF seen[Runner].pause_requested = "no" THEN config
                ELSE [seen[Runner] EXCEPT !.pause_requested = "no"]
  /\ status' = "failed" /\ stage' = "Interrupted" /\ error' = "restart"
  /\ Goto("poll")
  /\ UNCHANGED <<artifacts, exc>>

-----------------------------------------------------------------------------

Execute ==
  \/ LoadScenario \/ Prepare \/ StartSandbox
  \/ StopCancelled \/ WorkFails
  \/ InsertEvent \/ EventCollides \/ CommitEvent

Investigate ==
  \/ Boundary \/ BudgetSpent
  \/ CheckCancelled \/ CheckPause \/ Pause \/ PollPause \/ PollCancelled
  \/ Resume \/ Resumed
  \/ ApplyOverrides \/ ReportOverride \/ OverridesReported
  \/ Work \/ Answer \/ EndInvestigation

Conclude ==
  BeginScoring \/ Judge \/ ArchiveEvidence \/ Complete \/ Checkpoint \/ Fail

RunnerStep == Claim \/ Execute \/ Investigate \/ Conclude \/ Restart \/ Orphan

Request(r) == Archive(r) \/ \E o \in Ops : ReadRun(r, o)

DeadlockVictim(r) == AbortRequest(r) \/ AbortEvent(r)

\* Every request has been answered and the Runner has no run to claim.
Idle ==
  /\ \A r \in Requests : pc[r] = "done"
  /\ wpc = "poll" /\ (status # "queued" \/ archived)
  /\ UNCHANGED vars

Next ==
  \/ \E r \in Requests : Request(r) \/ Handler(r) \/ DeadlockVictim(r)
  \/ RunnerStep
  \/ Crash
  \/ Idle

\* A handler that has begun runs to its end, PostgreSQL resolves a deadlock,
\* the thread pool keeps running the thread, and the container is restarted.
Fairness ==
  /\ \A r \in Requests : WF_vars(Handler(r)) /\ WF_vars(DeadlockVictim(r))
  /\ WF_vars(RunnerStep)

Spec == Init /\ [][Next]_vars

FairSpec == Spec /\ Fairness

-----------------------------------------------------------------------------
(* What the run promises *)

Labels ==
  {"poll", "load", "prepare", "sandbox", "turn", "check_cancel", "check_pause",
   "pause", "paused", "paused_cancel", "resume", "resumed", "overrides", "report",
   "work", "answer", "end", "score", "judge", "archive", "complete", "checkpoint",
   "fail", "ev_insert", "ev_commit", "down", "orphan"}

\* Where the thread goes on, after an event or from a safe boundary.
Continuations == {"poll", "prepare", "overrides", "work", "report", "answer", "score"}

RowType ==
  /\ status \in Statuses /\ stage \in Stages /\ error \in Errors
  /\ config \in Configs

FlagType == archived \in BOOLEAN /\ dirty \in BOOLEAN

LogType ==
  /\ events \subseteq [seq : Nat \ {0}, kind : Kinds]
  /\ artifacts \subseteq Files /\ files \subseteq Files

HandlerType ==
  /\ holder \in Requests \cup {NoOne}
  /\ pc \in [Requests -> {"idle", "write", "commit", "done"}]
  /\ op \in [Requests -> AllOps \cup {"none"}]
  /\ reply \in [Requests -> {"none", "accepted", "unchanged", "refused", "error"}]
  /\ seen \in [Actors -> Configs] /\ seq \in [Actors -> Nat]

ThreadType ==
  /\ wpc \in Labels /\ wnext \in Continuations /\ exc \in Errors
  /\ turns \in 0 .. MaxTurns /\ applied \in Nat /\ toReport \in Nat
  /\ crashes \in 0 .. MaxCrashes

\* The type of every variable; the engine never takes a turn above its budget.
TypeOK == RowType /\ FlagType /\ LogType /\ HandlerType /\ ThreadType

\* append_event gives the events of a run the numbers 1, 2, 3, ... although
\* max(sequence) is read with no lock: no number is skipped or given twice.
\* (The clients page through the log by `sequence > after`.)
EventLogGapFree ==
  /\ {e.seq : e \in events} = 1 .. Cardinality(events)

Verdicts == {"run.completed", "run.failed", "run.orphaned"}

\* The Runner decides a run once: it never both completes and fails it, and a
\* restart does not fail what was decided before the process died.
AtMostOneVerdict ==
  Cardinality({e \in events : e.kind \in Verdicts}) <= 1

\* A completed run has its archive on the volume and its artifact row, and an
\* artifact row never names a file that is not there.
CompletedHasEvidence ==
  /\ artifacts \subseteq files
  /\ (\E e \in events : e.kind = "run.completed") => "run-archive" \in artifacts

\* While the console shows a running run as paused, the Runner is waiting for
\* the flag (or has died): no model turn and no tool call is under way.
PausedMeansHeld ==
  status = "running" /\ stage = "Paused at safe boundary"
    => wpc \in {"paused", "paused_cancel", "resume", "down", "orphan"}

\* A pause holds from the first safe boundary on: with an accepted pause request
\* in force the step under way may still leave its events, and no model turn and
\* no tool call begins after it.
PauseHoldsAtNextBoundary ==
  \A p, c \in events :
    /\ p.kind = "run.pause_requested" /\ c.kind = "candidate" /\ p.seq < c.seq
    /\ config.pause_requested = "yes"
    /\ \A e \in events : e.seq > p.seq => e.kind \in {"candidate", "run.budget_adjusted"}
    => wpc # "work"

\* A cancellation is not undone by the thread that was executing the run; only
\* the reconciliation of the next start can overwrite it.
CancelOutlivesExecution ==
  [][status = "cancelled" => status' = "cancelled" \/ Orphan]_vars

\* The verdict the log holds, for the abstract specification of the run.
Decided ==
  IF \E e \in events : e.kind = "run.completed" THEN "completed"
  ELSE IF \E e \in events : e.kind \in Verdicts THEN "failed" ELSE "none"

Lifecycle == INSTANCE RunLifecycle WITH verdict <- Decided

\* The statuses and the verdict follow the platform's promise (RunLifecycle).
LifecycleSpec == Lifecycle!Spec

\* Once a run is cancelled, paused or not, the thread that executes it stops
\* and its slot is free again.
CancelReleasesRunner == status = "cancelled" ~> wpc = "poll"

\* Every run ends unless it is left paused: no lock, no lost flag and no
\* restart leaves it preparing, running or scoring for ever.
EveryRunEnds ==
  <>(status \in Terminal \/ archived) \/ <>[](config.pause_requested = "yes")

\* Every request is answered, whatever locks it meets.
EveryRequestAnswered ==
  \A r \in Requests : pc[r] # "idle" ~> pc[r] = "done"

(* What the documents say and the code does not do *)

\* CHANGELOG: pausing "preserve[s] the candidate workspace and conversation".
\* No control request makes the run fail.
ControlNeverFailsRun == error # "database"

\* architecture.md: budget adjustment "is append-only control-plane state.
\* Each POST /runs/{id}/budget request [...] appends one budget_overrides entry".
AcceptedOverrideIsKept ==
  \A r \in Requests : op[r] = "budget" /\ reply[r] = "accepted"
    => \E i \in DOMAIN config.budget_overrides : config.budget_overrides[i] = r

\* test_cancel_is_terminal_and_clears_pause_request: "cancel is terminal".
CancelIsTerminal == [][status = "cancelled" => status' = "cancelled"]_vars

=============================================================================
