# Verification of The Evil Repository

TLA+ models of the benchmark platform in this repository, the TLC
configurations that check them on small instances, and TLAPS proofs of the
theorems that matter most. Source paths are relative to `apps/api/app/` unless
they say otherwise.

    tlc -workers 2 -config MCRunFeed.cfg MCRunFeed.tla     # a run
    tlapm RunProofs.tla                                    # a proof module

## The system

A FastAPI control plane, one Runner process and a React console share one
PostgreSQL database under READ COMMITTED. There is no message queue and no RPC
between them: every interaction is a row read and a row written, and the
interesting failures are what happens between the two.

| Part | State it keeps | Operations | What makes it hard |
|---|---|---|---|
| Run control (`api/runs.py`, `events.py`) | `benchmark_runs` row, `run_events` | create, cancel, pause, resume, budget, archive | handlers read without a lock, write the whole `config` JSON, number events by `max(sequence) + 1` |
| Runner (`worker.py`) | thread pool, row of each run, artifact files | claim, execute, score, archive, complete, fail, reconcile at start | crash between any two commits; a request commits between any two of its own |
| Agent loop (`runner/engine.py`) | conversation, counters, budget, warnings | model turn, tool batch, pause wait, overrides, completion gate, compaction | live budget changes, parallel tools, cancellation inside a batch |
| Fault injection (`runner/faults.py`) | cursor per rule | before / after a tool call | four threads share the cursors |
| Release replay (`scenario/release.py`) | tick, risk, integrity, budgets, verification history | inspect, snapshot, act, rebuild, verify, decide | long sequences of legal calls; ages, horizon, one-shot tokens |
| Incident replay (`scenario/incident.py`) | the same for a production incident | observe, snapshot, act, roll back, verify, decide | rollback restores some of the state and not the rest |
| Credentials (`credentials.py`, `api/credentials.py`) | encrypted tokens, status, expiry | import, log in, update, delete, resolve, refresh, list models, mark | refresh tokens rotate at the provider before the commit; several requests and runs use one login |
| Profiles (`api/model_profiles.py`, `create_run`) | profiles, their credential | create, update, delete, start a run | deletion guards that count while others insert |
| Accounts (`api/auth.py`, `api/admin.py`, `security.py`) | accounts, sessions | set up, register, log in, revoke, change role or access | checks and commits of different requests, no locks |
| Provider client (`runner/providers.py`, `antigravity_cli.py`) | attempt counters, a forced refresh | request, retry, refresh, probe | each wire retries by rules of its own, and all spend one budget |
| Conversation (`runner/engine.py`, `runner/providers.py`) | messages, results | notice, compact, recover, encode, parse | what a compaction cuts must still be a conversation on every wire |
| Scoring (`scoring.py`, `grading/hidden.py`, `truth_graph.py`, `overtime.py`, `run_outcomes.py`) | the scorecard | grade, penalise, store, count | caps, order of verifications, two sources of censoring |
| Event stream (`api/runs.py`, `apps/web/src/App.tsx`) | last sequence seen | stream, poll, stop | the end of the run against late events |
| Reports, dashboard, telemetry, judging, sandbox, challenge generators, console | their own records | mostly read only | left out, see the end |

How they interact: the Runner's thread of a run is the only caller of the agent
loop, the replays, the conversation and the provider client; it meets the API
in the run's row, in `run_events`, in the credentials it resolves for each model
call, and in the platform settings. The provider client asks the engine before
every request, so that the run's budget holds. The graders read what the run
left behind, once, after its investigation has ended.

## The plan

In this order, most important behaviour first. At most a dozen TLC runs in all,
so each later module brings one or two.

1. `RunControl`, refined to `RunLifecycle`; proofs. **Done.**
2. `ReleaseDirector` and `IncidentDirector`, both refined to `GateLadder`: the
   replay state machines and the chain of verifications; a recovery that counts
   rests on evidence gathered in order. Proofs of everything the runs check.
   **Done.**
3. `WorkerPool`: several runs, the claim, the slots, a live limit; proofs. **Done.**
4. `AgentEngine`: budgets under live overrides, tool batches, cancellation
   inside a batch, protocol failures; a fault rule inside it; proofs. **Done.**
5. `Credentials` (profiles, deletion guards and a rotating token), `Accounts`,
   `ProviderClient`; proofs of all three. **Done.**
6. `RunFeed` over the log of `RunControl`: the stream and the console's
   polling. **Done.**
7. `Conversation` (compaction, encoders, parsers) and the graders: `Grading`,
   `TerminalGrading`, `TruthGraphs`, `ReleaseGrading`, `Scorecard`; proofs. **Done.**

What the plan has left: the behaviour and error profiles beside the score and the
judging model's loop.

## Modules

### RunControl

One run, from the commit of `POST /runs` on. Variables are the columns that
matter (`status, stage, error, config, archived`), the committed rows of
`run_events` and `run_artifacts`, the files on the artifact volume, the holder
of the row lock, each request's handler (`pc, op, reply`, with what it has read
in `seen` and `seq`) and the Runner's thread (`wpc`, `wnext`, `dirty`, `exc`)
with the engine's memory (`turns, applied, toReport`).

How a transaction becomes steps:

* A handler reads the row with `session.get` (`ReadRun`); its UPDATE is flushed
  by the SELECT of `append_event` (SQLAlchemy's autoflush), which takes the row
  lock and then reads `max(sequence)` (`FlushUpdate`); INSERT and COMMIT follow
  (`CommitRequest`), or the unique constraint refuses the event
  (`RequestCollides`).
* `AgentEngine._event` reads `max(sequence)` first (`BeginEvent`), inserts
  (`InsertEvent`) and only then updates the counters of the row
  (`CommitEvent`). It holds no row lock until the last step, so a request can
  take its number (`EventCollides`), and the two can wait for each other
  (`Deadlocked`), in which case PostgreSQL aborts one (`AbortRequest`,
  `AbortEvent`).
* A transaction that begins with `FOR UPDATE`, or whose UPDATE comes first, is
  one step that needs a free row lock (`Locked`).
* `reconcile_orphaned_runs` reads without a lock (`Restart`) and then writes
  (`Orphan`).

| Actions | Code |
|---|---|
| `ReadRun RejectBudget FlushUpdate CommitRequest RequestCollides Archive` | the handlers of `api/runs.py` |
| `Claim StopCancelled WorkFails LoadScenario Prepare StartSandbox BeginScoring Judge ArchiveEvidence Complete Checkpoint Fail` | `Worker.claim`, `execute` and its helpers |
| `Boundary BudgetSpent CheckCancelled CheckPause Pause PollPause PollCancelled Resume Resumed` | the loop of `AgentEngine.run`, `_wait_for_resume` |
| `ApplyOverrides ReportOverride OverridesReported` | `_apply_budget_overrides` |
| `Work Answer EndInvestigation BeginEvent InsertEvent EventCollides CommitEvent` | turns, tool calls and `_event` |
| `Crash Restart Orphan` | container restart (`compose.yaml`: `restart: unless-stopped`), `reconcile_orphaned_runs` |

Abstractions. A turn's provider and tool work is one event, whose counters may
or may not have moved (`dirty`); several events in a row with nothing but
external work between them are one. Budgets are a number of boundaries
(`MaxTurns`); an override is the name of the request that appended it. The
stages of the hidden judge are one stage. A handler writes its stage even where
it read the same one, which SQLAlchemy would leave out. SQLite, which the unit
tests use, serialises writers and shows none of the races; the models follow
the deployed PostgreSQL.

### RunLifecycle

What the platform promises of a run: the order of the statuses, one verdict,
no return from a verdict except that a cancellation may still land on it, and
that only a restart's reconciliation overwrites a cancellation. `RunControl`
implements it with the mapping `verdict <- Decided` (the verdict the log holds).

### ReleaseDirector and IncidentDirector

The two replays, as the candidate drives them: one action per tool that changes
state, each the handler followed by the advance of the logical clock that
`_process_tool_result` adds to every call. Calls of other tools, status queries
and refused calls are `OtherCall`: they only advance. The handlers run one at a
time on the Runner's thread, so nothing interleaves; what is hard here is the
length of the sequences. Ages are measured from the *latest* pass of a gate,
clocks saturate at the horizon, one token is spent for good, and in the incident
a rollback restores some of the state and not the rest.

| ReleaseDirector | IncidentDirector | Code (`scenario/release.py`, `scenario/incident.py`) |
|---|---|---|
| `Advance` | `Advance` | `advance` |
| `Observe` | `Observe` | the inspection tools, `_observe`, `_observability` |
| `Decide`, `Snapshot` | the same | `_decision`, `_snapshot` |
| `Charge`, `CostOnly`, `PauseRollout`, `QuarantineDigest`, `CleanRebuild`, `Deploy` | `Act` | `_action`, `_clean_rebuild` |
| | `Rollback` | `_rollback` |
| `Passed`, `Verify` | the same | `_verify` |
| `Complete` | `IncidentComplete` | `completion_gaps` with the shipped `metadata.yaml` |
| `Recovered`, `recoveryVerified` | | `audit` |

Histories are kept as the sets of distinct records that something later reads:
`actions`, `passes` (gates passed, with their ticks), `attempted` (modes of all
verifications), `observed`, `decided`. `cursor` is how far the history already
satisfies the required sequence; `completion_gaps` computes it by walking the
history for the first match of each mode, which is what `Verify` does one call
at a time.

Abstractions. `Catalogue` and `Checks` (`AskedModes` in the incident) limit what
the candidate asks for, to keep the runs small; the theorems hold for all of
them. In the incident the checks of patch and scope are an input of `Verify`
(`fit`), and the support an action has is an input of `Act`. The release leaves
out what only the score reads: risk, support, tags, the flags of preserved
evidence and attempted bypass. The incident keeps risk, because a rollback
restores it, and leaves out service level, error budget, readings and the
evidence flag. `IncidentComplete` leaves out the totals of distinct observations
and of services, so it asks for less than the code and what it implies is the
stronger for it.

Three things the code allows and the models therefore allow: a promotion or a
rollback of the release may deploy a quarantined digest; a decision is accepted
before its ticket is visible; containment is asked for when the gates run and
not when the irreversible action is taken (the scenario's `DESIGN.md` can be
read either way, sections 5 and 8).

### GateLadder

What both replays promise of verification: gates are passed in order, each only
when some pass of the gate below is old enough, and time moves one tick at most.
It says nothing of what else a gate asks for. Release: provenance, canary,
replay, soak. Incident: canary, replay, soak.

### WorkerPool

Several runs and the Runner's main loop. Where `RunControl` follows one run
through its transactions, here its execution is only its statuses, and the
subject is what runs share: the queue, the claim, the executor and the limit.
The loop is `loop` (`reconcile`, then `pass` and `fill` in turn, `submit` between
the commit of a claim and its future), `seen` the limit it read at the start of
the pass, `slot` the futures with their threads (`done` until reaped).

| Actions | Code |
|---|---|
| `Create`, `ReadForCancel LockForCancel CommitCancel`, `Toggle` | `api/runs.py` |
| `SetLimit` | `api/admin.py`, `update_platform_settings` |
| `Start Reconcile` | `reconcile_orphaned_runs`, whose read locks nothing |
| `BeginPass Claim Submit EndPass` | `run_forever`, `reap_finished`, `concurrency_limit`, `fill_available_slots`, `claim` (`SKIP LOCKED` skips `held` rows) |
| `LoopFails Drained` | an exception of the loop leaves the `with ThreadPoolExecutor` block, which waits for all threads, and ends the process |
| `Progress Verdict` | `set_stage`, the end of `execute` |
| `Crash` | the container dies; compose restarts it |

Abstractions. A run that has ended gives its name to the next one, so the supply
of runs is endless. Pause and resume are one step, and a paused thread waits
(`Waiting`). Archived runs are left out: only ended runs can be archived and the
claim looks at queued ones. A write of the Runner's own verdict always succeeds.
The heartbeat thread writes only its own rows and is left out; it is worth
knowing that it keeps reporting a healthy Runner while a failed loop drains.

### AgentEngine

The loop of `AgentEngine.run`, statement by statement where another actor can come
between. `pc` is the place in the loop: `top` (the while condition), `boundary`
(`_wait_for_resume`), `turn`, `request` and `waiting` (inside `_post`), `answer`,
`batch` (the for over the calls), `flush_call` and `flush_end` (`flush_parallel`
before a call and after the last), `count`, `act`. `asked` are the calls of the
last response, `counted` how many have been started or gathered, `answered` how
many have their answer in the conversation, `results` what the threads of the
pool have returned and nobody has processed yet.

| Actions | Code |
|---|---|
| `Top OutOfBudget Boundary BeginTurn` | the while condition, its else, the boundary, overrides, warning, notice, compaction |
| `Request OutOfRequests Retry Recover ProviderFails` | `_on_provider_request`, `ModelClient._post`, `_complete_model_turn` |
| `Receive Malformed OutOfTokens` | usage, `_hard_resource_reasons`, malformed calls |
| `AnswerCancelled AnswerWithCalls Reject Final` | the second boundary, the completion gate |
| `NextCall Count Act RunRead ProcessRead Flushed EndBatch` | the batch: limit, cancellation, gathered reads, the pool's threads with the fault rule (`FaultController.before`), `_process_tool_result`, `_model_visible_result` |
| `Adjust Cancel` | `adjust_run_budget`, `cancel_run` |

Abstractions. Requests commit one at a time: the lost updates between them are
`RunControl`'s, and so are pauses. One request appends its fields as one batch of
entries. A budget is a function of (soft or hard, dimension), 0 standing for
None; each use is counted up to `MaxUse`, which is at least the largest limit.
Time is looked at between turns only, so a turn passes it in one step. `Recover` is a
policy or a context recovery, limited together; a compaction retires any outputs.
`met` is whether the completion contract has gaps now, which any tool may change.
`shown` holds the reads whose own output, not only a reference to it, is in the
conversation. One fault rule matches all reads and its step makes an output
either the source's or a fault's.

### Credentials

Transactions on the rows of credentials, profiles and runs. `tx` is what each
actor's transaction holds: an actor is an API request (`Clients`) or the thread
of an active run. `lock` is the holder of each row lock. A transaction keeps the
row it read under `FOR UPDATE` in `tx[a].row` and writes it back at its commit;
whatever it read without a lock may have changed by then. The provider's side of
a login is one number, `live`: the refresh token it accepts. `lost` is a history
variable, set when a rotated token never reached the database.

| Actions | Code |
|---|---|
| `CreateCredential ImportCredential PollCodex CheckAttach Attach` | the handlers of `api/credentials.py` that insert |
| `LockCredential UpdateCredential DeleteCredential` | `owned_credential(lock=True)`, `update_credential`, `delete_credential` |
| `Resolve Exchange Catalog Commit` | `resolve_credential`, `refresh_oauth_credential`, `discover_codex_models` and `sync_credential_models`, the commits after success and after `CredentialError` |
| `ReadProfile LockForResolve Unavailable`, `ReadForMark Mark` | `resolve_model_credential`, `mark_model_credential_needs_reauth` |
| `CheckProfile CreateProfile LockProfile UpdateProfile InlineKey LockForDelete DeleteProfile` | `api/model_profiles.py` |
| `LockForRun CreateRun EndRun` | `create_run`; the end of a run, a cancellation too, whatever its thread is doing |
| `Expire Abort` | an access token close to its end; a process that dies, or an exception, before a commit |

Abstractions. Names, payloads and their encryption are left out: a secret is
there or it is not. A refresh token is its number. The dialogue of a device
login before there is a credential is left out. The foreign key of an inserted
or changed profile is what makes it wait for the lock of a deletion
(`CreateProfile`, `UpdateProfile`): PostgreSQL's key-share lock conflicts with
`FOR UPDATE`. Assumed of the world: nobody but this deployment uses a login, and
the provider does not revoke it. Without that a reauthentication may be needed
at any time and the property would say nothing.

Worth knowing, and allowed by the model: two administrators who attach the
Antigravity login at once both succeed (the README calls it one
administrator-owned session); a mark of an Anthropic or Antigravity login is
undone by the next resolution, and one that was read before the secret was
replaced still lands after it; a profile may name a credential that was deleted
between its check and its insert; a Codex login whose catalog answers 401 twice
stays `ready`.

### Accounts

Accounts, their sessions, and the requests between their check and their commit
(`job`). No handler locks anything. `job[r].stale` is a history variable: since
the check of `r` an account update has committed that undoes what the check
rested on (`Overtaken`: the account that is to log in was disabled, or an enabled
administrator that was counted is one no more). Setup, registration, login,
logout, change of password, expiry, revocation and the administrator's changes
are actions; rate limits and the hash are left out.

Two races of the code remain, and the two properties name them as the only
exceptions. Two administrators who take each other's access at the same time both
succeed: `api/admin.py:109-116` counts without a lock, so the answer "The last
enabled administrator cannot be removed" (`admin.py:116`) is not always given.
And a login that has seen its account enabled issues its session after the
account was disabled and its sessions revoked (`api/auth.py:140`); nobody can use
it until the account is enabled again.

### ProviderClient

The calls of one `ModelClient`. `transport` is the wire's loop (`http`, `codex`,
`claude`, `agy`), `attempt` counts its failures, `charged` is the engine's
account and `sent` the client's. `Begin` ends early with a `CredentialError`;
`Send` asks `on_request`, which refuses beyond the hard limit and may fail to
archive; each wire's answers and failures follow its own code, with the one
forced refresh of a Codex login and the probe after a timeout of the Antigravity
CLI. Waiting times are left out. The judge's client has no `on_request`: nothing
bounds its requests but its retries.

### Conversation

The messages of `AgentEngine.run`, from its opening on. A message has a number,
a role, a size, how many calls it makes or which one it answers; text is
otherwise left out. `BeginTurn` adds notices and may compact; `ContextRejected`
and `PolicyRejected` are the two recoveries; `Answered` takes whatever a
provider's parser makes of an answer (`Answers`), appends the turn and all its
results; `BatchCut` is the batch that the limit of calls or a cancellation stops
half way, after which there is no next turn (`AgentEngine` has that step by step).
`Compacted`, `Select`, `OpensBlock` and `Shortened` are the compaction;
`ResponsesInput`, `AnthropicInput` and `GeminiInput` the encoders;
`ChatTurn ... AntigravityTurn` the parsers. `asked` remembers of the last answer
how many calls the provider named, how many were run, and whether a Codex stream
broke off before its end.

Sizes are in units of about 4,000 characters and the limits are scaled with
them: `CheckpointLeast` and `CheckpointMost` are the 8,000 and 48,000 characters
between which a checkpoint takes a quarter of the target. The opening is taken to
weigh two units. Any answer and any output may hold the marker of a checkpoint
(`mark`). The compaction takes each such message for an old checkpoint
(`engine.py:2265`, `engine.py:54`) and drops it: a tool result that quotes the
marker goes without its call. `mistaken` remembers that this has happened; until
then `WiresPaired` and `RetiresOldest` hold, and the run `talk_quoted` shows
what comes after.

Also worth knowing: an empty final answer leaves an assistant message without
content; a Codex stream that ends early counts as a turn; a JSON fallback whose
`arguments` is not an object fails the run.

### RunFeed

The readers of one run's events beside `RunControl`: the loop of `stream_events`
(`StreamLooks`, `StreamSends`, one SELECT each) and the two queries of the
console's run page (`ConsoleLooks`, `ConsoleReads`). `told` is what the reader
has been given, `look` the status it has read. What is hard is that events
commit in an order of their own and that the reader asks only for what is behind
the last one. Worth knowing: `isTerminalEvent` does not name `run.orphaned`, so
the page of an orphaned run polls for ever.

### Grading, TerminalGrading, TruthGraphs, ReleaseGrading, Scorecard

Pure functions of what an investigation amounts to. The graders' text matching
is left out: a fact is found or it is not (`did`), counted facts are numbers
(`count`), and breaches are counted (`broke`). What is kept is all of the
arithmetic: dimensions, deductions, caps, the acceptance of a truth graph, the
order of verifications and changes in the trail of calls, fault recovery,
`run_outcomes`, the penalty of `overtime.py`.

What a grader counts and which rules it knows is `Counted` and `Rules`; an
investigation has a natural number for each.

`Scorecard` puts them in the order of `Worker.execute`: calls (`MakeCall`), the
end of the investigation (`Collect`), `Grade`, `Penalize`, and a reader of the
dashboard (`CountRun`), who may meet a scorecard of an older version (`Legacy`).
The penalised score is rounded to a whole point, where the code keeps two
decimals; call ids are taken to be unique. Worth knowing: caps of 900 and more do
not keep a run from `verified_success` at 900; a mutating command that the
pattern does not name is no change; a baseline verification counts whatever its
result; and a lowered budget that is reached censors a run, where
`docs/architecture.md:201-204` and CHANGELOG.md:36 speak of the default budget
only.

## Runs

| Run | Instance | Shows |
|---|---|---|
| `rc_safety` (`MCRunFeed.cfg`) | 3 requests of cancel, pause, resume, budget, at most 2 of them budgets, 1 boundary, 1 crash; or a reader, a stream or a console, with 1 request, streams ending after 2 idle ticks; symmetric requests; 2.7 million states | gap-free log, one verdict, evidence of a completion, a paused stage means a waiting thread, a reader misses nothing, cancellation outlives the execution, refinement of `RunLifecycle` |
| `rc_live` (`MCRunControlLive.cfg`) | 2 requests of any kind, 2 boundaries, 1 crash; 0.6 million states, no symmetry | a pause holds from the next boundary, a cancelled run frees its slot, runs end, requests are answered |
| `rc_control_fails_run` | 2 requests, pause and resume only | **violated**: a pause can fail a run |
| `rc_override_lost` | 2 requests | **violated**: an accepted override disappears |
| `rc_cancel_overwritten` | 2 requests, 1 crash, fair | **violated**: a cancelled run ends failed |
| `release` (`MCReleaseDirector.cfg`) | horizon 9, 1 ticket, 1 observation, 4 actions of 5 kinds, 1 snapshot, 1 rebuild; 2.3 million states | the chain under a verified recovery, the flag and the audit agree for ever, the contract implies the verdict, a ready soak stays ready, refinement of `GateLadder` |
| `pool` (`MCWorkerPool.cfg`) | 3 names of runs used again and again, 2 threads, limit 1 or 2 at any time, 1 cancellation, 1 failure of loop or process; 125 thousand states, no symmetry | no run without a thread, no starvation in the queue, every slot comes back, a lower limit takes force |
| `agent` (`MCAgentEngine.cfg`) | batches of 2 calls, 1 read signature, hard limits of 2, 2 adjustments out of raise, lower, switch on, 1 cancellation, 1 retry, 1 recovery, 2 malformed responses, 1 rejection; 2.4 million states | no unanswered call is sent, cancelling is prompt, accepted budgets take force, a contract reported as met is met, every investigation ends |
| `agent_reread` (`MCRereadShowsSource.cfg`) | batches of 1 call, no adjustment, 1 recovery, no fault | **violated**: a repeated read refers to output that is gone |
| `services` (`MCServices.cfg`) | one of six slices, chosen at the start: credentials (1 credential, 2 profiles, 1 run, 2 clients, 2 transactions open at once, 1 rotation, 1 abort), accounts (2 users, 2 sessions, 2 requests), client (7 providers, 2 retries, limit 9, 2 calls), conversation (a turn and the two requests around it, 1 notice each, ten answers, 5 wires), scorecard (4 calls), incident (horizon 4, 2 phases, 2 snapshots, 1 action of 3 kinds, any number of rollbacks); 1.6 million states | a login is asked for only when its token is lost, a run keeps its models, a deletion spares users, the last administrator and the sessions of a disabled account are lost and left only by the two races named above, every request is accounted for, what is sent is well formed and bounded, calls are taken whole, the oldest is retired first, a success is earned; the order of the contract follows the gates, early damage is permanent, an ended investigation is guarded, refinement of `GateLadder` |
| `talk_quoted` (`MCPairedWhateverQuoted.cfg`) | the conversation alone | **violated**: a result that quotes the checkpoint's marker is dropped without its call |
| `score_eligible` (`MCEligibleIsCalibrated.cfg`) | the scorecard alone | **violated**: a run that exceeded the default budget stays eligible for calibration |

The slices of `services` share no state in the code but what each module leaves
to nondeterminism (a `CredentialError` of `Begin`, the evidence of `Collect`, the
tool calls of the incident), so a behaviour that exercises one of them at a time
loses nothing, and one run explores the sum of their states and not the product.

Types are invariants of the proofs, not of the runs.

Neither replay and none of the services has a fairness condition: nothing obliges
a candidate to call or a user to ask.

Why the bounds of the replays are enough: the shortest sequence of calls that
completes the contract fits before the horizon: in the release with room to
repeat a gate or act in between where the recovery is a rollback of the
deployment, and just at the horizon where it is a rebuild; in the incident just
at the horizon. After the horizon the clock stands still and any number of calls
follow, so nothing is cut off. The catalogues hold one action of each kind the
gates tell apart. In the incident one action, taken before, between or after two
snapshots, is enough for damage that no snapshot has seen whole, for a token
spent with or without one in hand, and for any order of rollbacks. The release's
leaves out a refused change of policy and a patch of the source, which cost a
tick and change nothing a gate reads; the theorems hold for every catalogue.

Why the bounds of run control are enough: the races need two actors and the
Runner; a third request lets one interfere while two others hold reads of
different ages. Two changes of a budget are enough for one to lose the other.
Archiving touches only a run that has ended, so `rc_live` has it and `rc_safety`
does not. A reader needs one request beside the Runner to meet events out of
order. One boundary reaches every label of the thread, two let a pause fall
between a turn and the next. A crash ends all memory of the execution, so a
second crash only meets states the first has met, with the run already decided.

Why the bounds of the pool are enough: two threads and a third run make the queue
non-empty with the pool full, at either limit; names are used again, so runs
arrive for ever and starvation would show. One cancellation meets a run in each
of its statuses, at each place of the loop; one failure meets the loop at each
place, and a second one only meets states the first has met.

Why the bounds of the services are enough: two clients and a run's thread are
three actors on one credential, of which any two have a transaction open at once:
one holds the lock, and the other waits with an old read; the third comes before
or after. (The proofs have no such bound.) The second profile is the judge's, or
the one that is created while the first is deleted. One rotation is followed by a
refresh that rotates no more, and its loss by any number of them. Two
administrators are the fewest that can take each other's access. Two retries make
the first, a middle and a last attempt; two calls let a flag of the first meet
the second. A turn with up to two results of six units each passes every limit of
the conversation, and each recovery compacts again what a turn has compacted;
`RetiresOldest` and `SentBounded` meet a block that does not fit. Four calls make
every order of a change, a replay that passed, one that a fault spoiled, and a
soak; `Findings` are a solved investigation of each scenario and each with one
thing amiss.

Why the bounds of the agent loop are enough: a batch of two is the smallest that the
limit, a cancellation or a flush before a tool that acts can cut in the middle,
and the limit of two ends a run within the first or second batch. Two adjustments
meet every pair of a raise, a lowering and a dimension switched on, taken over
together or in two portions. Every counter reaches its end (retries, recoveries,
malformed responses, rejections).

Fairness of the agent loop: the engine's thread runs, tools return (the sandbox
and the provider's client have deadlines). `EngineEnds` allows finitely many
adjustments: raised again and again, a limit is never reached. Users need not do
anything.

Fairness of the pool: the main loop is restarted and keeps running, each thread
that does not wait on a pause keeps running (the provider client has deadlines),
a handler that holds a row commits. Creating, resuming, cancelling and moving the
limit are free. A pause may last for ever and then keeps its slot, and a loop that
failed then drains for ever: `QueueIsServed` and `LimitTakesForce` say what holds
once no investigation is paused any more, while `SlotComesBack` needs no such
condition.

Fairness of run control: a handler that has started finishes (`Handler`, not the
arrival of requests), PostgreSQL resolves a deadlock (`DeadlockVictim`), and the
Runner's thread keeps running and a dead Runner is restarted (`RunnerStep`,
which holds `Restart`; compose restarts the container). Nothing is assumed of
how often a crash or a request happens. `EveryRunEnds` leaves out runs that
stay paused: nobody has to resume them.

## What the runs found

* An event of the engine and an event of a control request can take the same
  sequence number. The log stays gap-free (the constraint sees to it), but the
  loser is sometimes the engine, whose `IntegrityError` fails the run. The
  changelog says pausing preserves the investigation.
* `config` is written back whole from an unlocked read: a concurrent pause,
  resume, cancel or budget request loses another's override. The architecture
  document calls the overrides append-only.
* Reconciliation overwrites a cancellation that commits between its SELECT and
  its UPDATE.
* The cache of tool results outlives the conversation. A read repeated after its
  output was retired by a compaction is answered with the number of a call that
  is no longer there and 200 characters of preview, while the system prompt asks
  the model to read again what was retired. Outputs shorter than the preview, and
  reads with other arguments, are not affected.

* `apply_overtime_penalty` turns a verified success into `budget_exhausted` and
  sets `censored`, but leaves `runtime_calibration_eligible` as `grade` computed
  it from the score before the penalty. README.md says that calibration accepts
  only runs that avoid every hard limit and score at least 900.

* A compaction drops whatever holds the marker of a checkpoint, before it forms
  blocks. A result that quotes it (the candidate has read `engine.py`, or an
  exported transcript) is gone and its call stays, and the next request is not
  well formed. README.md:58-60 and CHANGELOG.md:285-286 promise tool blocks that
  are protocol-complete.

The two races of the accounts, above under Accounts, are the exceptions which
`AdminRemains` and `DisabledHasNoSession` state; `admin.py:116` speaks as if the
first could not happen.

Not a disagreement with any document, but worth knowing: `completion_gaps` found
when a final answer is rejected are kept when the run later ends by a limit or a
cancellation, so a contract met in between is reported as not met.
`ReportedMetIsMet` is the direction that does hold.

## Proofs

Each proof module extends the modules it is about; every assumption it rests on is
named in the module that declares the constants, and TLC evaluates it on every run
of that module. Nothing is assumed beside them.

`RunProofs`, for any set of requests, any number of turns and crashes, from
`ActorsAssumption` (the Runner and the free lock are not requests),
`OpsAssumption` and `BoundsAssumption`. The log first:

* `NextSeqIsNext`, `LogGrows`: on a gap-free log `max + 1` is the next number,
  and inserting any free number an actor may have read keeps the log gap-free.
* `LogInv == TypeOK /\ LogOK /\ SeqOK` is inductive. `EventLogGapFree` alone is
  not: an actor inserts a number it read earlier. `SeqOK` adds that such a
  number is in the log or is the next one, and that the number of an inserted,
  uncommitted event is free. The cases are grouped by the kind of step
  (memory only, under the row lock, beginning or committing an event).
* Theorems `TypeCorrect` and `GapFree`.

Then the phase of the run:

* `PhaseOK` ties each label of the thread to the statuses the run may have
  there: the one the thread has set, or cancelled. `VerdictOK` says an
  executing thread has no verdict in the log. Both with `LogInv` are inductive.
* `VerdictOnce` (`AtMostOneVerdict`), `CancelHolds` (`CancelOutlivesExecution`)
  and `ImplementsLifecycle` (the refinement) follow: every step is either
  harmless to the verdict (`HarmlessStep`) or the one that decides
  (`DecidesStep`).
* `EvidenceTheorem`, `PausedTheorem` and `PauseTheorem`
  (`CompletedHasEvidence`, `PausedMeansHeld`, `PauseHoldsAtNextBoundary`) rest on
  three more invariants beside the first. `EvidenceOK` follows the file and the
  row from `ArchiveEvidence` to the commit of the completion, across a crash.
  `PausedOK` ties a paused stage to the thread's labels, and adds that an
  archived run has ended, without which the archive handler's write of the whole
  row could not be excluded. `PauseOK` says that once the thread's
  work shows in the log behind a pause in force, the step it was in is over.

And the reader of `RunFeed`:

* `ReaderMissesNothing` is not inductive: a reader that has asked, and a run that
  has decided its last event, are between two steps. `FeedInvariant` says of each
  place of the loop what the reader's last look at the status and its last number
  mean for the log, and of each label of the thread what the log is still owed.
  With it, `FeedTheorem`.

`ReleaseProofs`, from `DigestsAssumption` (the counterfeit digest and that of a
wrong rebuild are not acceptable), `CandidateAssumption` and `PlanAssumption`
(numbers are naturals), for any horizon, ages, budgets, tickets and catalogue:

* `ReleaseInv == TypeOK /\ TokenOK /\ PassOK /\ ChainOK /\ FlagOK` is inductive.
  `VerifiedStaysRecovered` alone is not: the state after a pass must be kept from
  changing. The reason it does not change is `TokenOK`: a deployment other than
  the counterfeit one has spent the token, so after any pass (`PassOK`) no call
  can deploy anything, and no call unpauses or releases from quarantine.
  `ChainOK` gives each pass the pass it rests on.
* Steps that pass no gate are `Harmless` (`ActHarmless`, `OthersHarmless`) and
  preserve the invariant by one lemma; `VerifyPreserves` is the other case.
* Theorems `TypeCorrect`, `ReleaseInvariant`, `ChainTheorem`, `VerifiedTheorem`,
  `CompleteTheorem`, `ReadinessTheorem`, `LateReplayTheorem`, `ImplementsLadder`:
  every property of the run `release`, and that a replay which passes too late
  for its soak is final.

`IncidentProofs`, from `PlanAssumption`, for any plan:

* `IncidentInv == IncidentTypeOK /\ CursorOK /\ DamageOK /\ RecordOK` is inductive.
  `CursorOK` says the sequence is satisfied exactly as far as gates have been
  passed; `DamageOK` extends `EarlyDamageIsPermanent` to what the snapshots hold,
  without which a rollback could undo it; `RecordOK` keeps a trace of the token
  and of the snapshots in the record of actions.
* Theorems `TypeCorrect`, `IncidentInvariant`, `SequenceTheorem`,
  `DamageTheorem`, `GuardedTheorem`, `ImplementsLadder`: every property of the
  incident's slice of `services`.

`WorkerPoolProofs`, from `PoolAssumption` (at least one thread; bounds are
naturals), for any set of runs:

* `PoolInv == TypeOK /\ RunningHasThread /\ OrphansOK` is inductive. `OrphansOK`
  carries the promise across a restart: between the reconciliation's read and its
  write no run becomes preparing, running or scoring.
* `PoolFits` counts futures and the claimed run together; a claim needs a free
  place below the limit the pass has read.
* Theorems `TypeCorrect`, `NoRunLeftBehind`, `PoolNeverOverfull`.

`AgentProofs`, from `LimitsAssumption` (limits are naturals, at least one malformed
response is allowed), `BudgetAssumption` (the default budget is valid, requests
name budget fields) and `CallsAssumption`:

* `MergeInPortions`: merging the rest of the overrides into what the first ones
  have made of a budget is merging all of them. It rests on `MergedValue` (the
  last request that names a field decides it), whose existence part is
  `LargestExists`, from the library's well-foundedness of the naturals.
* `AgentInv` is inductive. `AcceptedBudgetsTakeForce` alone is not: the engine
  drops a batch of overrides that is not valid. `CommittedIsValid` carries the
  API's validation: the merge of all committed overrides is valid, and that is
  what the engine's portion amounts to. `CutShort` carries from the batch to the
  while condition that an incomplete batch means a limit is reached,
  `LateAtMostOnce` that no path leads from one late step to another,
  `GatheredAreReads` that a flush only holds reads.
* Theorems `TypeCorrect`, `AgentInvariant`, `AnsweredTheorem`, `CancelTheorem`,
  `BudgetTheorem`, `ReportedTheorem`: every invariant of the run `agent`.

`AccessProofs`, the credentials, from `NamesAssumption` (a missing row has a name
of its own; a run's thread is not a client), `AskedAssumption` and
`BoundAssumption`, for any number of credentials, profiles, runs and requests:

* `IInv` says of each transaction what it knows: `HoldOK` of one that has locked
  a credential (it is the only one, its copy of the row differs from the
  committed one in what it has changed itself, and its token is the provider's or
  lost), `PendOK` of one that has made its checks and will write a profile or a
  run; and of each row, `CredOK`, `ProfOK`, `RunOK`. `ReauthOnlyIfLost` alone is
  not inductive: a refresh may be between its exchange and its commit.
* `Kept` is what a step of one actor leaves to the others, the discipline of the
  row locks: a locked credential is not written, no profile comes to use it, and
  no run comes to use a locked profile. `OthersKept` carries everybody else's
  knowledge over such a step, so each handler has one lemma, about its own
  transaction and the rows it writes (`LockedNext`, `ExchangeNext`, `CommitNext`,
  `DeleteNext` and so on).
* Theorems `CredentialsInvariant`, `CredentialsTypeCorrect`, `ReauthTheorem`,
  `RunModelTheorem`, `DeletionTheorem`.

`AccessProofs`, the accounts and the client, from `NobodyAssumption` and
`ClientAssumption`, for any number of users, sessions and requests and any limits
of a client:

* `AccountsInv`: what a request that nothing has overtaken has checked still
  holds (`UpdateChecked`, `LoginChecked`). So an update that leaves no enabled
  administrator was overtaken, and so was a login into a disabled account; these
  are exactly the exceptions of the properties. Theorems `AccountsInvariant`,
  `AccountsTypeCorrect`, `AdminTheorem`, `SessionTheorem`.
* `ClientInv` counts the requests of a call by the place it is at. Theorems
  `ClientInvariant`, `ClientTypeCorrect`, `RequestsTheorem`.

`ConversationProofs`, from `ResponsesAssumption` and `LimitsAssumption`, for any
answers, any batch limit, any sizes and limits, any number of notices and turns:

* What is measured of a conversation is folded over a sequence (`Size`, `Among`,
  `Merge`, `ResponsesInput`). The provers cannot use an induction theorem whose
  parameter is an operator, so the module begins with induction over a set given
  as a set (`NatSetInduction`, `SubsetInduction`), and from it what the folds of
  the community modules return: a run of single steps (`FoldExists`, `RunOf`,
  `SumOf`). Each fold of the model then has a lemma of its own (`SizeRuns`,
  `AmongRuns`, `ListRuns`, `MergeRuns`), and the rest of the proof never sees a
  fold again.
* `AllOrNothingTheorem` rests on one lemma per parser: an answer without an
  invalid call names no more calls than it makes, unless its stream broke off
  (`Sound`).
* `SentTheorem`: what compaction leaves is its opening, its checkpoint and an end of
  the rest within the target (`Leaves`); `TalkInvariant`, the form of a
  conversation between two requests, is what makes it inductive.
* `ShapeInvariant` adds what that end is made of: each answer followed by its
  results in their order, the numbers ascending (`Formed`, `Numbered`).
  `OpensBlock` never opens a block inside such a group (`OldestTheorem`).
* `WiresTheorem`: `Following` says of the turns merged from the first k messages
  that all but the last are paired and how far the last one has come; it is carried
  from each message to the next, with the messages a wire passes over.

The last three hold until `mistaken`, as the run's properties do, and have no
other hypothesis: what a behaviour has been through before a quote is dropped is
proved whatever is quoted. `LimitsAssumption` says the limits are naturals in the
order in which `engine.py:91` demands them, and
that the target is at least four times the least checkpoint: `config.py:45` keeps
it at 32,000 characters or more.

`ScoreProofs`, from `FindingsAssumption` and `TruthAssumption` (what is counted is a
natural number) and `ScoreAssumption` (the score a success needs is above 880;
`sdk.py:52` and the metadata of both scenarios say 900), for any findings, any
trail of calls and any truth:

* Every dimension of both graders is shown to be an integer, so that a capped score
  is at most each cap that holds (`CappedBelow`). A score above 880 then excludes
  the caps up to 880 one by one (`NoCap`), each of which stands for something a
  success must have. No sum of points has to be computed.
* `ScoreInv` carries what the grader found past the penalty, the stored card and the
  readers of old cards. Theorems `ScoreInvariant` and `SuccessTheorem`.
* The sum over a table is `SumOf` of `ConversationProofs`, whose first section is
  about folds alone; that is why the module extends it.

Every invariant and every action property of the passing runs is stated by one of
these theorems. Only model-checked: liveness under fairness (`EngineEnds`,
`EveryRunEnds`, `QueueIsServed` and the others), which is out of the prover's reach,
and the disagreements under "What the runs found", which are counterexamples.

## Not modelled

Telemetry, dashboard, reports and diffs only read; the one reader of scores that
decides something is `CountRun`. The judging model's own loop is left out: what
it says is not part of the score. So are the behaviour and error profiles beside
the score, which nothing reads again. The investigation's graph is written by the
candidate's tools on the Runner's thread and enters the score as counts. The
sandbox, the provider's HTTP and Docker are external. The challenge and fixture
generators make text from a seed; model discovery, prices and model parameters
are tables. The console is presentation but for its polling. Of the replays,
that containment is asked for when a gate runs and not when the irreversible
action is taken, and that risk and support only enter the score, is said above.
