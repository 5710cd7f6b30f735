----------------------------- MODULE AgentEngine -----------------------------
(***************************************************************************)
(* The loop of AgentEngine.run (runner/engine.py): model turns against a   *)
(* provider, batches of tool calls, four budgets that users adjust while   *)
(* the run is on, the completion gate, cancellation, context compaction    *)
(* and the cache of tool results.  A pause only delays and is left to      *)
(* RunControl.                                                             *)
(***************************************************************************)
EXTENDS Integers, Sequences

CONSTANTS
    Reads,              \* signatures of calls of PARALLEL_SAFE_TOOLS
    MaxBatch,           \* tool calls of one response
    DefaultBudget,      \* soft and hard limit of each dimension, 0 for None
    MinCalls,           \* the scenario's completion.min_tool_calls
    Requests,           \* the adjustments users ask for
    MaxAdjusts,         \* adjustments in all
    MaxUse,             \* where the count of each dimension saturates
    Script,             \* steps of the fault rule the reads match
    MaxRetries,         \* of one request (ModelClient.max_retries)
    MaxRecoveries,      \* MAX_CONTEXT_RECOVERY_ATTEMPTS
    MaxMalformed,       \* MAX_INVALID_TOOL_CALL_BATCHES
    MaxRejections       \* rejected final answers

VARIABLES
    pc,
    budget, applied,                    \* in force; overrides handled so far
    overrides, cancelled,               \* what the requests have committed
    used,                               \* of each dimension
    asked, counted, answered, results,  \* the current response's tool calls
    stop,                               \* the batch ends in cancellation
    cache, shown,                       \* tool_result_cache; the conversation
    cursor,                             \* of the fault rule
    attempts, recoveries,               \* of the current turn
    malformed, rejections, warned, nudged, gaps,
    met,                                \* the contract has no gaps now
    outcome, reasons,
    late                                \* turns and calls begun after a cancel

limits == <<budget, applied>>
users == <<overrides, cancelled>>
batch == <<asked, counted, answered, results, stop>>
memory == <<cache, shown>>
retries == <<attempts, recoveries>>
tally == <<malformed, rejections, warned, nudged, gaps>>
end == <<outcome, reasons>>
vars == <<pc, limits, users, used, batch, memory, cursor, retries, tally, met, end, late>>

Dims == {"tool_calls", "active_time", "provider_requests", "total_tokens"}
Optional == {"provider_requests", "total_tokens"}
Fields == {"soft", "hard"} \X Dims
Budgets == [Fields -> Nat]

\* BudgetSpec: soft below hard, and an optional pair is there or is not.
Valid(b) ==
    \A d \in Dims :
        \/ 0 < b[<<"soft", d>>] /\ b[<<"soft", d>>] < b[<<"hard", d>>]
        \/ d \in Optional /\ b[<<"soft", d>>] = 0 /\ b[<<"hard", d>>] = 0

ASSUME LimitsAssumption ==
    /\ {MaxBatch, MinCalls, MaxAdjusts} \subseteq Nat
    /\ {MaxRetries, MaxRecoveries, MaxRejections} \subseteq Nat /\ MaxMalformed \in Nat \ {0}
    /\ MaxUse \in [Dims -> Nat]
ASSUME BudgetAssumption ==
    /\ DefaultBudget \in Budgets /\ Valid(DefaultBudget)
    /\ \A r \in Requests : DOMAIN r \subseteq Fields /\ \A f \in DOMAIN r : r[f] \in Nat
ASSUME CallsAssumption ==
    /\ "act" \notin Reads
    /\ Script \in Seq({"source", "fault"}) /\ Script # <<>>

\* "act" stands for every tool that is not read-only.
Calls == Reads \cup {"act"}
Outputs == {"source", "fault"}

With(b, r) == [f \in Fields |-> IF f \in DOMAIN r THEN r[f] ELSE b[f]]

\* The last request that names a field decides it.
Naming(rs, f) == {i \in DOMAIN rs : f \in DOMAIN rs[i]}
Latest(rs, f) == CHOOSE i \in Naming(rs, f) : \A j \in Naming(rs, f) : j <= i
Merged(b, rs) ==
    [f \in Fields |-> IF Naming(rs, f) = {} THEN b[f] ELSE rs[Latest(rs, f)][f]]

Reached(u, d) == budget[<<"hard", d>>] # 0 /\ u[d] >= budget[<<"hard", d>>]
Crossed(b, u) == {d \in Dims : b[<<"soft", d>>] # 0 /\ u[d] >= b[<<"soft", d>>]}

\* The last fifth of a hard limit, but not before the soft one.
FinalWindow(b, u) ==
    \E d \in Crossed(b, u) : 5 * u[d] >= 4 * b[<<"hard", d>>]

Spent(u, d, n) == [u EXCEPT ![d] = IF @ + n > MaxUse[d] THEN MaxUse[d] ELSE @ + n]

NoResults == [i \in 1..MaxBatch |-> "none"]

TypeOK ==
    /\ pc \in {"top", "boundary", "turn", "request", "waiting", "answer", "batch",
               "count", "act", "flush_call", "flush_end", "done"}
    /\ budget \in Budgets /\ applied \in 0..Len(overrides)
    /\ overrides \in Seq(Requests) /\ cancelled \in BOOLEAN
    /\ used \in [Dims -> Nat]
    /\ asked \in Seq(Calls) /\ Len(asked) <= MaxBatch
    /\ counted \in 0..Len(asked) /\ answered \in 0..counted
    /\ results \in [1..MaxBatch -> Outputs \cup {"none"}]
    /\ stop \in BOOLEAN
    /\ cache \in [Reads -> Outputs \cup {"none"}] /\ shown \subseteq Reads
    /\ cursor \in 1..Len(Script)
    /\ attempts \in 0..MaxRetries /\ recoveries \in 0..MaxRecoveries
    /\ malformed \in 0..MaxMalformed /\ rejections \in 0..MaxRejections
    /\ warned \subseteq Dims /\ nudged \in BOOLEAN /\ gaps \in BOOLEAN
    /\ met \in BOOLEAN
    /\ outcome \in {"none", "final", "cancelled", "budget", "malformed", "error"}
    /\ reasons \subseteq Dims
    /\ late \in Nat

Init ==
    /\ pc = "top"
    /\ budget = DefaultBudget /\ applied = 0
    /\ overrides = <<>> /\ cancelled = FALSE
    /\ used = [d \in Dims |-> 0]
    /\ asked = <<>> /\ counted = 0 /\ answered = 0 /\ results = NoResults
    /\ stop = FALSE
    /\ cache = [s \in Reads |-> "none"] /\ shown = {}
    /\ cursor = 1
    /\ attempts = 0 /\ recoveries = 0
    /\ malformed = 0 /\ rejections = 0
    /\ warned = {} /\ nudged = FALSE /\ gaps = FALSE
    /\ met = FALSE
    /\ outcome = "none" /\ reasons = {}
    /\ late = 0

-----------------------------------------------------------------------------
(* Requests of users.  They commit one at a time here; what happens when   *)
(* they do not is RunControl's.                                            *)

Cancel ==
    /\ ~cancelled /\ pc # "done"
    /\ cancelled' = TRUE
    /\ UNCHANGED <<pc, limits, overrides, used, batch, memory, cursor, retries, tally,
                   met, end, late>>

\* Each request is checked against what it makes of the budget all the
\* committed ones add up to.
Adjust(r) ==
    /\ ~cancelled /\ pc # "done" /\ Len(overrides) < MaxAdjusts
    /\ LET merged == With(Merged(DefaultBudget, overrides), r)
       IN  Valid(merged) /\ merged[<<"hard", "tool_calls">>] >= MinCalls
    /\ overrides' = Append(overrides, r)
    /\ UNCHANGED <<pc, limits, cancelled, used, batch, memory, cursor, retries, tally,
                   met, end, late>>

-----------------------------------------------------------------------------
(* The end of run().                                                       *)

\* Mutant of Finish: nobody looks for gaps at the end.
FinishUnlooked(o, r, u) ==
    /\ pc' = "done"
    /\ outcome' = o /\ reasons' = r
    /\ gaps' = gaps
    /\ warned' = IF r = {} THEN warned \cup Crossed(budget, u) ELSE warned

\* The gaps found by an earlier rejection are kept, otherwise they are
\* looked for once more.
Finish(o, r, u) ==
    /\ pc' = "done"
    /\ outcome' = o /\ reasons' = r
    /\ gaps' = (gaps \/ ~met)
    /\ warned' = IF r = {} THEN warned \cup Crossed(budget, u) ELSE warned

\* An exception leaves run(); the checkpoint reports no contract.
Abort ==
    /\ pc' = "done"
    /\ outcome' = "error"
    /\ UNCHANGED <<reasons, gaps, warned>>

-----------------------------------------------------------------------------
(* A model turn.                                                           *)

\* Mutant of Top: the overrides are taken over before the limits are looked at.
TopTakesOverrides ==
    /\ pc = "top"
    /\ LET raised == Merged(budget, SubSeq(overrides, applied + 1, Len(overrides)))
       IN  used["tool_calls"] < raised[<<"hard", "tool_calls">>]
    /\ ~Reached(used, "active_time")
    /\ pc' = "boundary"
    /\ UNCHANGED <<limits, users, used, batch, memory, cursor, retries, tally, met, end, late>>

Top ==
    /\ pc = "top"
    /\ ~Reached(used, "tool_calls") /\ ~Reached(used, "active_time")
    /\ pc' = "boundary"
    /\ UNCHANGED <<limits, users, used, batch, memory, cursor, retries, tally, met, end, late>>

OutOfBudget ==
    /\ pc = "top"
    /\ LET spent == {d \in {"tool_calls", "active_time"} : Reached(used, d)}
       IN  spent # {} /\ Finish("budget", spent, used)
    /\ UNCHANGED <<limits, users, used, batch, memory, cursor, retries, malformed,
                   rejections, nudged, met, late>>

Boundary ==
    /\ pc = "boundary"
    /\ IF cancelled THEN Finish("cancelled", {}, used)
                    ELSE pc' = "turn" /\ UNCHANGED <<outcome, reasons, gaps, warned>>
    /\ UNCHANGED <<limits, users, used, batch, memory, cursor, retries, malformed,
                   rejections, nudged, met, late>>

\* The overrides from the n-th on are merged as one batch, all or none.
Apply(n) ==
    LET candidate == Merged(budget, SubSeq(overrides, n, Len(overrides)))
    IN  /\ budget' = IF Valid(candidate) THEN candidate ELSE budget
        /\ applied' = Len(overrides)

\* Mutant of BeginTurn: the position of the next override is off by one.
BeginTurnSkipsOne ==
    /\ pc = "turn"
    /\ Apply(applied + 2) \/ UNCHANGED limits
    /\ warned' = warned \cup Crossed(budget', used)
    /\ nudged' = (nudged \/ FinalWindow(budget', used))
    /\ shown' \in SUBSET shown
    /\ late' = IF cancelled THEN late + 1 ELSE late
    /\ pc' = "request"
    /\ UNCHANGED <<users, used, batch, cache, cursor, retries, malformed, rejections, gaps, met,
                   end>>

\* Overrides (unless their read failed), the warning, the notice, and a
\* compaction that retires older output when the context has grown.
BeginTurn ==
    /\ pc = "turn"
    /\ Apply(applied + 1) \/ UNCHANGED limits
    /\ warned' = warned \cup Crossed(budget', used)
    /\ nudged' = (nudged \/ FinalWindow(budget', used))
    /\ shown' \in SUBSET shown
    /\ late' = IF cancelled THEN late + 1 ELSE late
    /\ pc' = "request"
    /\ UNCHANGED <<users, used, batch, cache, cursor, retries, malformed, rejections, gaps, met,
                   end>>

\* Every HTTP attempt, retries included, counts against the budget.
Request ==
    /\ pc = "request"
    /\ ~Reached(used, "provider_requests")
    /\ used' = Spent(used, "provider_requests", 1)
    /\ pc' = "waiting"
    /\ UNCHANGED <<limits, users, batch, memory, cursor, retries, tally, met, end, late>>

OutOfRequests ==
    /\ pc = "request"
    /\ Reached(used, "provider_requests")
    /\ Finish("budget", {"provider_requests"}, used)
    /\ UNCHANGED <<limits, users, used, batch, memory, cursor, retries, malformed,
                   rejections, nudged, met, late>>

Retry ==
    /\ pc = "waiting"
    /\ attempts < MaxRetries
    /\ attempts' = attempts + 1
    /\ pc' = "request"
    /\ UNCHANGED <<limits, users, used, batch, memory, cursor, recoveries, tally, met, end,
                   late>>

\* The context is too long, or its content not accepted: it is compacted and
\* the turn's request is made again.
Recover ==
    /\ pc = "waiting"
    /\ recoveries < MaxRecoveries
    /\ recoveries' = recoveries + 1
    /\ attempts' = 0
    /\ shown' \in SUBSET shown
    /\ pc' = "request"
    /\ UNCHANGED <<limits, users, used, batch, cache, cursor, tally, met, end, late>>

ProviderFails ==
    /\ pc = "waiting"
    /\ Abort
    /\ UNCHANGED <<limits, users, used, batch, memory, cursor, retries, malformed,
                   rejections, nudged, met, late>>

\* A response has arrived: what it has cost.  Active time is only looked at
\* between turns, so all of a turn's time passes here.
Cost(u) == \E t \in 0..1, s \in 0..1 :
    u = Spent(Spent(used, "total_tokens", t), "active_time", s)

OutOfTokens ==
    /\ pc = "waiting"
    /\ Cost(used') /\ Reached(used', "total_tokens")
    /\ Finish("budget", {"total_tokens"}, used')
    /\ UNCHANGED <<limits, users, batch, memory, cursor, retries, malformed, rejections,
                   nudged, met, late>>

\* One call with malformed arguments discards the whole response.
Malformed ==
    /\ pc = "waiting"
    /\ Cost(used') /\ ~Reached(used', "total_tokens")
    /\ malformed' = malformed + 1
    /\ asked' = <<>> /\ counted' = 0 /\ answered' = 0 /\ results' = NoResults
    /\ IF malformed' >= MaxMalformed
       THEN Finish("malformed", {}, used')
       ELSE pc' = "top" /\ UNCHANGED <<outcome, reasons, gaps, warned>>
    /\ attempts' = 0 /\ recoveries' = 0
    /\ UNCHANGED <<limits, users, stop, memory, cursor, rejections, nudged, met, late>>

Receive(calls) ==
    /\ pc = "waiting"
    /\ Cost(used') /\ ~Reached(used', "total_tokens")
    /\ asked' = calls /\ counted' = 0 /\ answered' = 0 /\ results' = NoResults
    /\ pc' = "answer"
    /\ attempts' = 0 /\ recoveries' = 0
    /\ UNCHANGED <<limits, users, stop, memory, cursor, tally, met, end, late>>

-----------------------------------------------------------------------------
(* An answer without tool calls, and the completion gate.                  *)

AnswerCancelled ==
    /\ pc = "answer" /\ cancelled
    /\ Finish("cancelled", {}, used)
    /\ UNCHANGED <<limits, users, used, batch, memory, cursor, retries, malformed,
                   rejections, nudged, met, late>>

AnswerWithCalls ==
    /\ pc = "answer" /\ ~cancelled /\ asked # <<>>
    /\ pc' = "batch"
    /\ UNCHANGED <<limits, users, used, batch, memory, cursor, retries, tally, met, end, late>>

\* Mutant of Reject: a rejection is not counted.
RejectUncounted ==
    /\ pc = "answer" /\ ~cancelled /\ asked = <<>>
    /\ ~met /\ rejections < MaxRejections
    /\ gaps' = TRUE
    /\ rejections' = rejections
    /\ pc' = "top"
    /\ UNCHANGED <<limits, users, used, batch, memory, cursor, retries, malformed, warned,
                   nudged, met, end, late>>

Reject ==
    /\ pc = "answer" /\ ~cancelled /\ asked = <<>>
    /\ ~met /\ rejections < MaxRejections
    /\ gaps' = TRUE
    /\ rejections' = rejections + 1
    /\ pc' = "top"
    /\ UNCHANGED <<limits, users, used, batch, memory, cursor, retries, malformed, warned,
                   nudged, met, end, late>>

Final ==
    /\ pc = "answer" /\ ~cancelled /\ asked = <<>>
    /\ met \/ rejections >= MaxRejections
    /\ pc' = "done"
    /\ outcome' = "final" /\ reasons' = {}
    /\ gaps' = ~met
    /\ warned' = warned \cup Crossed(budget, used)
    /\ UNCHANGED <<limits, users, used, batch, memory, cursor, retries, malformed,
                   rejections, nudged, met, late>>

-----------------------------------------------------------------------------
(* A batch of tool calls.  Read-only calls gather until a call that is not *)
(* read-only, or the end, flushes them.                                    *)

\* Mutant of NextCall: the cancellation is only looked at between turns.
NextCallUnasked ==
    /\ pc = "batch"
    /\ IF counted = Len(asked) \/ Reached(used, "tool_calls")
       THEN pc' = "flush_end" /\ UNCHANGED stop
       ELSE /\ pc' = IF asked[counted + 1] \in Reads THEN "count" ELSE "flush_call"
            /\ UNCHANGED stop
    /\ UNCHANGED <<limits, users, used, asked, counted, answered, results, memory, cursor,
                   retries, tally, met, end, late>>

\* The loop over the calls: the limit, then the cancellation.
NextCall ==
    /\ pc = "batch"
    /\ IF counted = Len(asked) \/ Reached(used, "tool_calls")
       THEN pc' = "flush_end" /\ UNCHANGED stop
       ELSE IF cancelled
       THEN pc' = "flush_end" /\ stop' = TRUE
       ELSE /\ pc' = IF asked[counted + 1] \in Reads THEN "count" ELSE "flush_call"
            /\ UNCHANGED stop
    /\ UNCHANGED <<limits, users, used, asked, counted, answered, results, memory, cursor,
                   retries, tally, met, end, late>>

Count ==
    /\ pc = "count"
    /\ counted' = counted + 1
    /\ used' = Spent(used, "tool_calls", 1)
    /\ late' = IF cancelled THEN late + 1 ELSE late
    /\ pc' = IF asked[counted'] \in Reads THEN "batch" ELSE "act"
    /\ UNCHANGED <<limits, users, asked, answered, results, stop, memory, cursor, retries,
                   tally, met, end>>

\* A tool that changes something: it runs alone and is answered at once.
Act ==
    /\ pc = "act"
    /\ answered' = counted
    /\ met' \in BOOLEAN
    /\ pc' = "batch"
    /\ UNCHANGED <<limits, users, used, asked, counted, results, stop, memory, cursor, retries,
                   tally, end, late>>

Flushing == pc \in {"flush_call", "flush_end"}

\* A thread of the pool takes a gathered call, with the fault rule's next
\* step, the last of which is repeated.
RunRead(i) ==
    /\ Flushing
    /\ i \in (answered + 1)..counted /\ results[i] = "none"
    /\ results' = [results EXCEPT ![i] = Script[cursor]]
    /\ cursor' = IF cursor < Len(Script) THEN cursor + 1 ELSE cursor
    /\ UNCHANGED <<pc, limits, users, used, asked, counted, answered, stop, memory, retries,
                   tally, met, end, late>>

\* The results enter the conversation in the order of the calls.  One that
\* is the same as the first of its signature is only referred to.
ProcessRead ==
    /\ Flushing
    /\ answered < counted /\ results[answered + 1] # "none"
    /\ LET s == asked[answered + 1]
           out == results[answered + 1]
       IN  /\ cache' = IF cache[s] = "none" THEN [cache EXCEPT ![s] = out] ELSE cache
           /\ shown' = IF out = "source" /\ cache[s] # out THEN shown \cup {s} ELSE shown
    /\ answered' = answered + 1
    /\ results' = [results EXCEPT ![answered'] = "none"]
    /\ met' \in BOOLEAN
    /\ UNCHANGED <<pc, limits, users, used, asked, counted, stop, cursor, retries,
                   tally, end, late>>

Flushed ==
    /\ pc = "flush_call" /\ answered = counted
    /\ pc' = "count"
    /\ UNCHANGED <<limits, users, used, batch, memory, cursor, retries, tally, met, end, late>>

EndBatch ==
    /\ pc = "flush_end" /\ answered = counted
    /\ IF stop THEN Finish("cancelled", {}, used)
               ELSE pc' = "top" /\ UNCHANGED <<outcome, reasons, gaps, warned>>
    /\ UNCHANGED <<limits, users, used, batch, memory, cursor, retries, malformed,
                   rejections, nudged, met, late>>

-----------------------------------------------------------------------------
Responses == UNION {[1..n -> Calls] : n \in 0..MaxBatch}

Turn ==
    \/ Top \/ OutOfBudget \/ Boundary \/ BeginTurn
    \/ Request \/ OutOfRequests \/ Retry \/ Recover \/ ProviderFails
    \/ OutOfTokens \/ Malformed \/ (\E calls \in Responses : Receive(calls))
    \/ AnswerCancelled \/ AnswerWithCalls \/ Reject \/ Final

Batch ==
    \/ NextCall \/ Count \/ Act
    \/ (\E i \in 1..MaxBatch : RunRead(i)) \/ ProcessRead \/ Flushed \/ EndBatch

Ended == pc = "done" /\ UNCHANGED vars

Next ==
    \/ Cancel
    \/ \E r \in Requests : Adjust(r)
    \/ Turn
    \/ Batch
    \/ Ended

\* The engine's thread runs, its tools return and the provider's client has a
\* timeout.  Nobody has to cancel or adjust anything.
Fairness == WF_vars(Turn) /\ WF_vars(Batch)

Spec == Init /\ [][Next]_vars /\ Fairness

-----------------------------------------------------------------------------
(* A request is only sent with a conversation in which every tool call has *)
(* its answer: a batch that the budget or a cancellation cuts short is the *)
(* last, whatever users do to the budget meanwhile (the while condition is *)
(* looked at before the overrides).                                        *)
ConversationAnswered ==
    pc \in {"boundary", "turn", "request", "waiting"} => answered = Len(asked)

(* After a cancellation at most one more turn or one more tool call is     *)
(* begun, gathered calls and retries aside (_wait_for_resume).             *)
CancelIsPrompt == late <= 1

(* The budget in force is the default with every override handled so far:  *)
(* no request the API has accepted is rejected or skipped by the engine,   *)
(* which merges and validates in other portions (_apply_budget_overrides,  *)
(* adjust_run_budget).                                                     *)
AcceptedBudgetsTakeForce ==
    budget = Merged(DefaultBudget, SubSeq(overrides, 1, applied))

(* A run reported to meet its contract meets it when it ends, although the *)
(* gaps were looked for at another time (completion_requirements_met).     *)
ReportedMetIsMet ==
    pc = "done" /\ outcome # "error" /\ ~gaps => met

(* Every investigation ends: rejections, malformed responses, retries and  *)
(* recoveries are limited, and every other turn spends tool calls, however *)
(* users move the limits (AgentEngine.run).                                *)
EngineEnds == <>(pc = "done")

(* What a read-only call returns is in the conversation afterwards, even   *)
(* if an earlier copy of it was retired: the system prompt tells the model *)
(* to read again what a checkpoint says was retired.                       *)
RereadShowsSource ==
    [][\A i \in 1..MaxBatch :
         (answered < i /\ answered' = i /\ results[i] = "source" /\ ~(pc = "act"))
            => asked[i] \in shown']_vars
=============================================================================
