------------------------------ MODULE WorkerPool ------------------------------
(***************************************************************************)
(* The Runner's slots (worker.py): one main loop that reaps finished       *)
(* threads and claims queued runs up to a limit administrators change      *)
(* live, a thread per claimed run, and the users' control requests.        *)
(* RunControl models one run in depth; here there are several, and a run's *)
(* execution is only its statuses.                                         *)
(***************************************************************************)
EXTENDS Integers, FiniteSets, SequencesExt

CONSTANTS
    Runs,           \* the names of runs; one that has ended is used again
    PoolSize,       \* threads of the executor
    MaxCancels,     \* cancel requests in all
    MaxFailures     \* failures of the main loop and of the process in all

VARIABLES
    status,         \* of each run
    queue,          \* the queued runs by created_at
    paused,         \* runs whose config asks for a pause
    asked,          \* runs a cancel request has read
    held,           \* runs whose row a cancel request holds
    limit,          \* platform_settings.runner_concurrency
    slot,           \* each run's future and thread
    loop, seen,     \* the main loop: where it is, the limit it has read
    claimed,        \* the run it has claimed and not yet submitted
    orphans,        \* the runs a reconciliation has selected
    cancels, failures

runs == <<status, queue, paused>>
users == <<asked, held, limit, cancels>>
main == <<loop, seen, claimed, orphans>>
vars == <<runs, users, slot, main, failures>>

Limits == 1..PoolSize

ASSUME PoolAssumption ==
    /\ PoolSize \in Nat \ {0}
    /\ {MaxCancels, MaxFailures} \subseteq Nat

Interrupted == {"preparing", "running", "scoring"}
Terminal == {"completed", "failed", "cancelled"}
Statuses == {"queued"} \cup Interrupted \cup Terminal

\* A future that exists keeps its slot, until the loop has reaped it.
Futures == {r \in Runs : slot[r] # "free"}
Live == {r \in Runs : slot[r] = "active"}

TypeOK ==
    /\ status \in [Runs -> Statuses]
    /\ queue \in Seq(Runs)
    /\ paused \subseteq Runs
    /\ asked \subseteq Runs
    /\ held \subseteq Runs
    /\ limit \in Limits
    /\ slot \in [Runs -> {"free", "active", "done"}]
    /\ loop \in {"down", "reconcile", "pass", "fill", "submit", "draining"}
    /\ seen \in Limits
    /\ claimed \subseteq Runs
    /\ orphans \subseteq Runs
    /\ cancels \in 0..MaxCancels
    /\ failures \in 0..MaxFailures

Init ==
    /\ status = [r \in Runs |-> "completed"]
    /\ queue = <<>>
    /\ paused = {}
    /\ asked = {}
    /\ held = {}
    /\ limit \in Limits
    /\ slot = [r \in Runs |-> "free"]
    /\ loop = "down"
    /\ seen = limit
    /\ claimed = {}
    /\ orphans = {}
    /\ cancels = 0
    /\ failures = 0

\* A run is in the queue once.
Without(q, r) ==
    IF \E i \in 1..Len(q) : q[i] = r
    THEN RemoveAt(q, CHOOSE i \in 1..Len(q) : q[i] = r)
    ELSE q

-----------------------------------------------------------------------------
(* Users and administrators.                                               *)

\* A name whose run has ended, and that nobody refers to, is the next run.
Create(r) ==
    /\ status[r] \in Terminal /\ slot[r] = "free" /\ r \notin claimed \cup orphans
    /\ r \notin held \cup asked
    /\ status' = [status EXCEPT ![r] = "queued"]
    /\ queue' = Append(queue, r)
    /\ paused' = paused \ {r}
    /\ UNCHANGED <<users, slot, main, failures>>

\* cancel_run reads the run without a lock and returns if it has ended.
ReadForCancel(r) ==
    /\ cancels < MaxCancels
    /\ status[r] \notin Terminal
    /\ asked' = asked \cup {r}
    /\ cancels' = cancels + 1
    /\ UNCHANGED <<runs, held, limit, slot, main, failures>>

\* Its UPDATE takes the row; what it writes is seen at its commit.
LockForCancel(r) ==
    /\ r \in asked \ held
    /\ held' = held \cup {r}
    /\ asked' = asked \ {r}
    /\ UNCHANGED <<runs, limit, cancels, slot, main, failures>>

CommitCancel(r) ==
    /\ r \in held
    /\ held' = held \ {r}
    /\ status' = [status EXCEPT ![r] = "cancelled"]
    /\ queue' = Without(queue, r)
    /\ paused' = paused \ {r}
    /\ UNCHANGED <<asked, limit, cancels, slot, main, failures>>

\* A pause or a resume, which only write the flag of a running investigation.
Toggle(r) ==
    /\ status[r] = "running" /\ r \notin held
    /\ paused' = IF r \in paused THEN paused \ {r} ELSE paused \cup {r}
    /\ UNCHANGED <<status, queue, users, slot, main, failures>>

SetLimit(n) ==
    /\ limit' = n
    /\ UNCHANGED <<runs, asked, held, cancels, slot, main, failures>>

-----------------------------------------------------------------------------
(* The main loop.                                                          *)

\* Mutant of Start: a run claimed just before the crash is not looked for.
StartIgnoresPreparing ==
    /\ loop = "down"
    /\ loop' = "reconcile"
    /\ orphans' = {r \in Runs : status[r] \in {"running", "scoring"}}
    /\ UNCHANGED <<runs, users, slot, seen, claimed, failures>>

\* A new process selects the runs its predecessor left; nothing is locked.
Start ==
    /\ loop = "down"
    /\ loop' = "reconcile"
    /\ orphans' = {r \in Runs : status[r] \in Interrupted}
    /\ UNCHANGED <<runs, users, slot, seen, claimed, failures>>

Reconcile ==
    /\ loop = "reconcile"
    /\ orphans \cap held = {}
    /\ status' = [r \in Runs |-> IF r \in orphans THEN "failed" ELSE status[r]]
    /\ paused' = paused \ orphans
    /\ loop' = "pass"
    /\ orphans' = {}
    /\ UNCHANGED <<queue, users, slot, seen, claimed, failures>>

\* Mutant of BeginPass: the slot of a cancelled run is not given back.
BeginPassUncancelled ==
    /\ loop = "pass"
    /\ slot' = [r \in Runs |-> IF slot[r] = "done" /\ status[r] # "cancelled"
                               THEN "free" ELSE slot[r]]
    /\ seen' = limit
    /\ loop' = "fill"
    /\ UNCHANGED <<runs, users, claimed, orphans, failures>>

\* Mutant of BeginPass: a lower limit is not taken over.
BeginPassUpwards ==
    /\ loop = "pass"
    /\ slot' = [r \in Runs |-> IF slot[r] = "done" THEN "free" ELSE slot[r]]
    /\ seen' = IF limit > seen THEN limit ELSE seen
    /\ loop' = "fill"
    /\ UNCHANGED <<runs, users, claimed, orphans, failures>>

\* The ended threads are reaped and the limit is read, once for all the
\* claims of the pass.
BeginPass ==
    /\ loop = "pass"
    /\ slot' = [r \in Runs |-> IF slot[r] = "done" THEN "free" ELSE slot[r]]
    /\ seen' = limit
    /\ loop' = "fill"
    /\ UNCHANGED <<runs, users, claimed, orphans, failures>>

\* Mutant of Claim: the newest queued run first.
ClaimNewest(r) ==
    /\ loop = "fill"
    /\ Cardinality(Futures) < seen
    /\ \E i \in 1..Len(queue) :
          /\ queue[i] = r /\ r \notin held
          /\ \A j \in (i + 1)..Len(queue) : queue[j] \in held
    /\ status' = [status EXCEPT ![r] = "preparing"]
    /\ queue' = Without(queue, r)
    /\ claimed' = {r}
    /\ loop' = "submit"
    /\ UNCHANGED <<paused, users, slot, seen, orphans, failures>>

\* The oldest queued run whose row nobody holds (SKIP LOCKED).
Claim(r) ==
    /\ loop = "fill"
    /\ Cardinality(Futures) < seen
    /\ \E i \in 1..Len(queue) :
          /\ queue[i] = r /\ r \notin held
          /\ \A j \in 1..(i - 1) : queue[j] \in held
    /\ status' = [status EXCEPT ![r] = "preparing"]
    /\ queue' = Without(queue, r)
    /\ claimed' = {r}
    /\ loop' = "submit"
    /\ UNCHANGED <<paused, users, slot, seen, orphans, failures>>

\* The limit is at most the size of the executor, so the future finds a thread.
Submit ==
    /\ loop = "submit"
    /\ slot' = [r \in Runs |-> IF r \in claimed THEN "active" ELSE slot[r]]
    /\ claimed' = {}
    /\ loop' = "fill"
    /\ UNCHANGED <<runs, users, seen, orphans, failures>>

\* No slot or nothing to claim: the next pass, after a rest or at once.
EndPass ==
    /\ loop = "fill"
    /\ \/ Cardinality(Futures) >= seen
       \/ \A i \in 1..Len(queue) : queue[i] \in held
    /\ loop' = "pass"
    /\ UNCHANGED <<runs, users, slot, seen, claimed, orphans, failures>>

\* The database fails the loop: the exception leaves the executor's block,
\* which waits for every thread before the process can end.
LoopFails ==
    /\ loop \in {"pass", "fill"}
    /\ failures < MaxFailures
    /\ failures' = failures + 1
    /\ loop' = "draining"
    /\ UNCHANGED <<runs, users, slot, seen, claimed, orphans>>

Drained ==
    /\ loop = "draining"
    /\ \A r \in Runs : slot[r] \in {"free", "done"}
    /\ loop' = "down"
    /\ slot' = [r \in Runs |-> "free"]
    /\ UNCHANGED <<runs, users, seen, claimed, orphans, failures>>

Crash ==
    /\ loop # "down"
    /\ failures < MaxFailures
    /\ failures' = failures + 1
    /\ loop' = "down"
    /\ slot' = [r \in Runs |-> "free"]
    /\ claimed' = {}
    /\ orphans' = {}
    /\ UNCHANGED <<runs, users, seen>>

-----------------------------------------------------------------------------
(* The thread of a run.                                                    *)

\* A pause holds a running investigation until it is resumed or cancelled.
Waiting(r) == slot[r] = "active" /\ status[r] = "running" /\ r \in paused

Progress(r) ==
    /\ slot[r] = "active"
    /\ r \notin held /\ ~Waiting(r)
    /\ \/ status[r] = "preparing" /\ status' = [status EXCEPT ![r] = "running"]
       \/ status[r] = "running" /\ status' = [status EXCEPT ![r] = "scoring"]
    /\ UNCHANGED <<queue, paused, users, slot, main, failures>>

\* complete or fail, unless the run was cancelled meanwhile; then the client
\* and the sandbox are closed and the future is done.
Verdict(r) ==
    /\ slot[r] = "active"
    /\ r \notin held /\ ~Waiting(r)
    /\ \/ status[r] = "scoring" /\ status' = [status EXCEPT ![r] = "completed"]
       \/ status[r] \in Interrupted /\ status' = [status EXCEPT ![r] = "failed"]
       \/ status[r] = "cancelled" /\ UNCHANGED status
    /\ slot' = [slot EXCEPT ![r] = "done"]
    /\ UNCHANGED <<queue, paused, users, main, failures>>

-----------------------------------------------------------------------------
RunnerLoop ==
    \/ Start \/ Reconcile \/ BeginPass
    \/ (\E r \in Runs : Claim(r)) \/ Submit \/ EndPass \/ Drained

Thread(r) == Progress(r) \/ Verdict(r)

Next ==
    \/ \E r \in Runs : Create(r)
    \/ \E r \in Runs : ReadForCancel(r) \/ LockForCancel(r) \/ CommitCancel(r)
    \/ \E r \in Runs : Toggle(r)
    \/ \E n \in Limits : SetLimit(n)
    \/ RunnerLoop
    \/ LoopFails
    \/ Crash
    \/ \E r \in Runs : Thread(r)

\* The process is restarted and its loop and threads run; a handler that holds
\* a row commits.  Nobody has to create, resume, cancel or fail anything.
Fairness ==
    /\ WF_vars(RunnerLoop)
    /\ \A r \in Runs : WF_vars(Thread(r)) /\ WF_vars(CommitCancel(r))

Spec == Init /\ [][Next]_vars /\ Fairness

-----------------------------------------------------------------------------
(* No run is left behind: while the Runner is up, a run that is preparing, *)
(* running or scoring has a thread, or has been claimed for one a moment   *)
(* ago.  Claiming commits before the future exists, and the process may    *)
(* end anywhere between (fill_available_slots, reconcile_orphaned_runs).   *)
RunningHasThread ==
    loop \notin {"down", "reconcile"} =>
        \A r \in Runs : status[r] \in Interrupted =>
            r \in Live \/ (loop = "submit" /\ r \in claimed)

(* A queued run does not wait for ever, across crashes, changes of the     *)
(* limit and a failed loop that drains first, once no investigation is     *)
(* paused any more (run_forever).                                          *)
QueueIsServed ==
    <>[](\A r \in Runs : ~Waiting(r)) =>
        \A r \in Runs : (status[r] = "queued") ~> (status[r] # "queued")

(* The slot of a run that has ended, cancelled ones included, comes back,  *)
(* whatever the other runs do (reap_finished, run_forever).                *)
SlotComesBack ==
    \A r \in Runs :
        (status[r] \in Terminal /\ slot[r] = "active") ~>
            (slot[r] \in {"free", "done"} /\ (loop = "draining" \/ slot[r] = "free"))

(* Lowering the limit stops new claims and kills nothing: once the limit   *)
(* rests at n, the pool shrinks to n and never exceeds it again, once no   *)
(* paused investigation keeps a slot (fill_available_slots).               *)
LimitTakesForce ==
    <>[](\A r \in Runs : ~Waiting(r)) =>
        \A n \in Limits : <>[](limit = n) => <>[](Cardinality(Futures) <= n)
=============================================================================
