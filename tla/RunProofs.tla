----------------------------- MODULE RunProofs ----------------------------
(***************************************************************************)
(* Theorems about RunControl and RunFeed, for any number of requests,      *)
(* turns and crashes. The invariant is proved in layers: the types, the    *)
(* log of events, the phase of the run the Runner's thread stands for, and *)
(* at last what a reader of the log has been told.                         *)
(***************************************************************************)
EXTENDS RunFeed, FiniteSetTheorems, TLAPS

---------------------------------------------------------------------------
(***************************************************************************)
(* The events and the types.                                               *)
(***************************************************************************)

(* The log of events *)

LogOK ==
  /\ IsFiniteSet(events)
  /\ events \subseteq [seq : Nat \ {0}, kind : Kinds]
  /\ {e.seq : e \in events} = 1 .. Cardinality(events)

\* max(sequence) + 1 is the next free number of a gap-free log.
LEMMA NextSeqIsNext ==
  ASSUME LogOK
  PROVE  /\ NextSeq = Cardinality(events) + 1
         /\ NextSeq \in Nat \ {0}
         /\ ~Taken(NextSeq)
<1> DEFINE n == Cardinality(events)
           S == {0} \cup {e.seq : e \in events}
<1>1. n \in Nat
  BY FS_CardinalityType DEF LogOK
<1>2. S = 0 .. n
  BY <1>1 DEF LogOK
<1>3. \A x \in 0 .. n : (\A y \in 0 .. n : x >= y) => x = n
  BY <1>1
<1>4. n \in 0 .. n /\ \A y \in 0 .. n : n >= y
  BY <1>1
<1>5. Max(S) = n
  <2>1. Max(S) = CHOOSE x \in 0 .. n : \A y \in 0 .. n : x >= y
    BY <1>2 DEF Max
  <2> QED BY <1>3, <1>4, <2>1
<1>6. \A e \in events : e.seq \in 1 .. n
  BY DEF LogOK
<1>7. NextSeq = n + 1
  BY <1>5 DEF NextSeq
<1> QED BY <1>1, <1>6, <1>7 DEF Taken

\* Inserting the next free number keeps the log gap-free.
LEMMA LogGrows ==
  ASSUME LogOK, NEW k \in Kinds,
         NEW s \in 1 .. Cardinality(events) + 1, ~Taken(s),
         events' = events \cup {[seq |-> s, kind |-> k]}
  PROVE  /\ LogOK'
         /\ Cardinality(events') = Cardinality(events) + 1
         /\ s = Cardinality(events) + 1
<1> DEFINE n == Cardinality(events)
           new == [seq |-> s, kind |-> k]
<1>1. n \in Nat
  BY FS_CardinalityType DEF LogOK
<1>2. \A i \in 1 .. n : \E e \in events : e.seq = i
  BY DEF LogOK
<1>3. s = n + 1
  BY <1>1, <1>2 DEF Taken
<1>4. new \notin events
  BY DEF Taken
<1>5. IsFiniteSet(events') /\ Cardinality(events') = n + 1
  BY <1>4, FS_AddElement DEF LogOK
<1>6. events' \subseteq [seq : Nat \ {0}, kind : Kinds]
  BY <1>1 DEF LogOK
<1>7. {e.seq : e \in events'} = {e.seq : e \in events} \cup {s}
  <2>1. new.seq = s
    OBVIOUS
  <2>2. events' = events \cup {new}
    OBVIOUS
  <2> HIDE DEF new
  <2> QED BY <2>1, <2>2
<1>8. 1 .. (n + 1) = (1 .. n) \cup {n + 1}
  BY <1>1
<1> QED BY <1>3, <1>5, <1>6, <1>7, <1>8 DEF LogOK


\* A step that leaves the log alone.
LEMMA LogUnchanged ==
  ASSUME LogOK, UNCHANGED events
  PROVE  /\ LogOK' /\ Cardinality(events') = Cardinality(events)
         /\ \A s : Taken(s)' = Taken(s)
BY DEF LogOK, Taken

\* A transaction that reads max(sequence) under the row lock and inserts.
LEMMA LogLocked ==
  ASSUME LogOK, NEW k \in Kinds, Log(k)
  PROVE  /\ LogOK' /\ Cardinality(events') = Cardinality(events) + 1
         /\ \A s \in Nat \ {0} : Taken(s)' => Taken(s) \/ s = NextSeq
<1>1. NextSeq \in 1 .. Cardinality(events) + 1 /\ ~Taken(NextSeq)
  <2>1. Cardinality(events) \in Nat
    BY FS_CardinalityType DEF LogOK
  <2> QED BY <2>1, NextSeqIsNext
<1>2. events' = events \cup {[seq |-> NextSeq, kind |-> k]}
  BY DEF Log
<1>3. LogOK' /\ Cardinality(events') = Cardinality(events) + 1
  BY <1>1, <1>2, LogGrows
<1> QED BY <1>2, <1>3 DEF Taken

-----------------------------------------------------------------------------
(* The numbers the transactions have read *)

WriteOps == {"cancel", "pause", "resume", "budget"}

\* Whoever has read max(sequence) has read a number of the log, or the next.
\* An event that is inserted and not yet committed still has its number.
SeqOK ==
  /\ \A r \in Requests : pc[r] \in {"write", "commit"} => op[r] \in WriteOps
  /\ \A r \in Requests : pc[r] = "commit" => seq[r] \in 1 .. Cardinality(events) + 1
  /\ wpc \in {"ev_insert", "ev_commit"} => seq[Runner] \in 1 .. Cardinality(events) + 1
  /\ wpc = "ev_commit" => ~Taken(seq[Runner])

LogInv == TypeOK /\ LogOK /\ SeqOK

LEMMA LogInvInit == Init => LogInv
<1> SUFFICES ASSUME Init PROVE LogInv
  OBVIOUS
<1> DEFINE first == [seq |-> 1, kind |-> "run.queued"]
<1>1. events = {first}
  BY DEF Init
<1>2. IsFiniteSet(events) /\ Cardinality(events) = 1
  BY <1>1, FS_Singleton
<1>3. LogOK
  <2>1. {e.seq : e \in {first}} = {1}
    OBVIOUS
  <2>2. 1 .. 1 = {1}
    OBVIOUS
  <2> QED BY <1>1, <1>2, <2>1, <2>2 DEF LogOK, Kinds
<1>4. TypeOK
  <2>1. NoConfig \in Configs
    BY DEF NoConfig, Configs
  <2>2. RowType
    BY <2>1 DEF Init, RowType, Statuses, Stages, Errors
  <2>3. LogType
    BY <1>3 DEF Init, LogType, LogOK, Files
  <2>4. HandlerType
    BY <2>1 DEF Init, HandlerType, Actors, AllOps
  <2>5. ThreadType
    BY BoundsAssumption DEF Init, ThreadType,
           Labels, Continuations, Errors
  <2>6. FlagType
    BY DEF Init, FlagType
  <2> QED BY <2>2, <2>3, <2>4, <2>5, <2>6 DEF TypeOK
<1>5. SeqOK
  BY DEF Init, SeqOK
<1> QED BY <1>3, <1>4, <1>5 DEF LogInv

-----------------------------------------------------------------------------
(* The log invariant is inductive: the kinds of step there are *)

\* A step of the thread in its own memory.
LEMMA LogInvMemory ==
  ASSUME LogInv,
         UNCHANGED <<row, events, artifacts, files, holder, handlers, seen, seq, crashes>>,
         ThreadType', dirty' \in BOOLEAN,
         wpc' # "ev_insert",
         wpc' = "ev_commit" => wpc = "ev_insert" /\ ~Taken(seq[Runner])
  PROVE  LogInv'
<1> USE DEF row, handlers
<1>1. LogOK' /\ Cardinality(events') = Cardinality(events)
  BY LogUnchanged DEF LogInv
<1>2. TypeOK'
  BY DEF LogInv, TypeOK, RowType, FlagType, LogType, HandlerType
<1>3. SeqOK'
  BY <1>1 DEF LogInv, SeqOK, Taken
<1> QED BY <1>1, <1>2, <1>3 DEF LogInv

\* A transaction of the Runner that holds the row lock.
LEMMA LogInvLocked ==
  ASSUME LogInv, NEW kind \in Kinds, Locked(kind),
         RowType', artifacts' \subseteq Files,
         wpc' \in Labels \ {"ev_insert", "ev_commit"}, UNCHANGED <<wnext, dirty>>,
         exc' \in Errors
  PROVE  LogInv'
<1> USE DEF Locked, handlers, engine
<1>1. LogOK' /\ Cardinality(events') = Cardinality(events) + 1
  BY LogLocked DEF LogInv
<1>2. TypeOK'
  BY <1>1 DEF LogInv, LogOK, TypeOK, LogType, FlagType, HandlerType, ThreadType
<1>3. SeqOK'
  <2>1. Cardinality(events) \in Nat
    BY FS_CardinalityType DEF LogInv, LogOK
  <2> QED BY <1>1, <2>1 DEF LogInv, SeqOK
<1> QED BY <1>1, <1>2, <1>3 DEF LogInv

\* The first statement of an event's transaction.
LEMMA LogInvBegin ==
  ASSUME LogInv, NEW label \in Continuations, NEW updates \in BOOLEAN,
         BeginEvent(label, updates),
         turns' \in 0 .. MaxTurns, applied' \in Nat, toReport' \in Nat
  PROVE  LogInv'
<1> USE DEF BeginEvent, row, handlers
<1>1. LogOK' /\ Cardinality(events') = Cardinality(events)
  BY LogUnchanged DEF LogInv
<1>2. Cardinality(events) \in Nat
  BY FS_CardinalityType DEF LogInv, LogOK
<1>3. NextSeq = Cardinality(events) + 1
  BY NextSeqIsNext DEF LogInv
<1>4. seq' \in [Actors -> Nat] /\ seq'[Runner] = Cardinality(events) + 1
      /\ \A r \in Requests : seq'[r] = seq[r]
  BY <1>2, <1>3, ActorsAssumption DEF LogInv, TypeOK, HandlerType, Actors
<1>5. TypeOK'
  BY <1>4 DEF LogInv, TypeOK, RowType, FlagType, LogType, HandlerType, ThreadType,
              Labels, Continuations
<1>6. SeqOK'
  BY <1>1, <1>2, <1>4 DEF LogInv, SeqOK
<1> QED BY <1>1, <1>5, <1>6 DEF LogInv

\* A request that ends without having written anything.
LEMMA LogInvFinish ==
  ASSUME LogInv, NEW r \in Requests, NEW o \in AllOps,
         NEW answer \in {"unchanged", "refused", "error"}, Finish(r, answer),
         op' = [op EXCEPT ![r] = o], holder' \in {holder, NoOne},
         UNCHANGED <<row, events, artifacts, files, thread, engine, crashes>>
  PROVE  LogInv'
<1> USE DEF Finish, row, thread, engine
<1>1. LogOK' /\ Cardinality(events') = Cardinality(events)
  BY LogUnchanged DEF LogInv
<1>2. seq' \in [Actors -> Nat] /\ seq'[Runner] = seq[Runner]
      /\ \A q \in Requests : q # r => seq'[q] = seq[q] /\ pc'[q] = pc[q] /\ op'[q] = op[q]
  BY ActorsAssumption DEF LogInv, TypeOK, HandlerType, Actors
<1>3. pc'[r] = "done"
  BY DEF LogInv, TypeOK, HandlerType
<1>4. HandlerType'
  <2>1. NoConfig \in Configs
    BY DEF NoConfig, Configs
  <2> QED BY <1>2, <2>1 DEF LogInv, TypeOK, HandlerType, Actors
<1>5. TypeOK'
  BY <1>4 DEF LogInv, TypeOK, RowType, FlagType, LogType, ThreadType
<1>6. SeqOK'
  BY <1>1, <1>2, <1>3 DEF LogInv, SeqOK, Taken
<1> QED BY <1>1, <1>5, <1>6 DEF LogInv

-----------------------------------------------------------------------------
(* ... and the actions: the requests *)

LEMMA LogInvRequest ==
  ASSUME LogInv, NEW r \in Requests, Request(r)
  PROVE  LogInv'
<1>1. ASSUME NEW o \in Ops, ReadRun(r, o) PROVE LogInv'
  <2>1. CASE Verdict(o) # "accepted"
    <3>1. Verdict(o) \in {"unchanged", "refused"}
      BY <1>1, <2>1, OpsAssumption DEF ReadRun, Verdict, AllOps
    <3> QED BY <1>1, <2>1, <3>1, OpsAssumption, LogInvFinish DEF ReadRun
  <2>2. CASE Verdict(o) = "accepted"
    <3> USE <1>1, <2>2 DEF ReadRun, row, thread, engine
    <3>1. LogOK' /\ Cardinality(events') = Cardinality(events)
      BY LogUnchanged DEF LogInv
    <3>2. o \in WriteOps /\ o \in AllOps
      BY OpsAssumption DEF WriteOps, AllOps
    <3>3. HandlerType'
      BY <3>2 DEF LogInv, TypeOK, RowType, HandlerType, Actors
    <3>4. TypeOK'
      BY <3>3 DEF LogInv, TypeOK, RowType, FlagType, LogType, ThreadType
    <3>5. SeqOK'
      BY <3>1, <3>2 DEF LogInv, SeqOK, Taken, TypeOK, HandlerType
    <3> QED BY <3>1, <3>4, <3>5 DEF LogInv
  <2> QED BY <2>1, <2>2
<1>2. ASSUME Archive(r) PROVE LogInv'
  <2> USE <1>2 DEF Archive, Finish, thread, engine
  <2>1. "archive" \in AllOps /\ holder \in {holder, NoOne}
    BY DEF AllOps
  <2>2. CASE archived \/ status \notin Terminal
    BY <2>1, <2>2, LogInvFinish DEF row
  <2>3. CASE ~(archived \/ status \notin Terminal)
    <3>1. LogOK' /\ Cardinality(events') = Cardinality(events) + 1
      BY <2>3, LogLocked DEF LogInv, Kinds
    <3>2. seq' \in [Actors -> Nat] /\ seq'[Runner] = seq[Runner]
          /\ \A q \in Requests :
               q # r => seq'[q] = seq[q] /\ pc'[q] = pc[q] /\ op'[q] = op[q]
      BY <2>3, ActorsAssumption DEF LogInv, TypeOK, HandlerType, Actors
    <3>3. HandlerType'
      <4>1. NoConfig \in Configs
        BY DEF NoConfig, Configs
      <4> QED BY <2>1, <2>3, <3>2, <4>1 DEF LogInv, TypeOK, HandlerType, Actors
    <3>4. FlagType'
      BY <2>3 DEF LogInv, TypeOK, FlagType
    <3>5. TypeOK'
      BY <3>1, <3>3, <3>4 DEF LogInv, LogOK, TypeOK, RowType, LogType, ThreadType
    <3>6. SeqOK'
      <4>1. Cardinality(events) \in Nat
        BY FS_CardinalityType DEF LogInv, LogOK
      <4>2. pc'[r] = "done"
        BY <2>3 DEF LogInv, TypeOK, HandlerType
      <4> QED BY <3>1, <3>2, <4>1, <4>2 DEF LogInv, SeqOK
    <3> QED BY <3>1, <3>5, <3>6 DEF LogInv
  <2> QED BY <2>2, <2>3
<1> QED BY <1>1, <1>2 DEF Request

\* The config a request writes back is a config.
LEMMA WrittenType ==
  ASSUME TypeOK, NEW r \in Requests, op[r] \in WriteOps
  PROVE  Written(r) \in Configs
<1>1. seen[r] \in Configs
  BY DEF TypeOK, HandlerType, Actors
<1>2. Append(seen[r].budget_overrides, r) \in Seq(Requests)
  BY <1>1 DEF Configs
<1> QED BY <1>1, <1>2 DEF Written, WriteOps, Configs

LEMMA LogInvCommit ==
  ASSUME LogInv, NEW r \in Requests, CommitRequest(r)
  PROVE  LogInv'
<1> USE DEF CommitRequest, thread, engine
<1>1. op[r] \in WriteOps /\ EventOf(op[r]) \in Kinds
  BY DEF LogInv, SeqOK, WriteOps, EventOf, Kinds
<1>2. LogOK' /\ Cardinality(events') = Cardinality(events) + 1
  BY <1>1, LogGrows DEF LogInv, SeqOK
<1>3. seq' \in [Actors -> Nat] /\ seq'[Runner] = seq[Runner]
      /\ \A q \in Requests : q # r => seq'[q] = seq[q] /\ pc'[q] = pc[q]
  BY ActorsAssumption DEF LogInv, TypeOK, HandlerType, Actors, Finish
<1>4. pc'[r] = "done"
  BY DEF LogInv, TypeOK, HandlerType, Finish
<1>5. RowType'
  BY <1>1, WrittenType
     DEF LogInv, TypeOK, RowType, WriteColumns, WriteOps, Statuses, Stages
<1>6. HandlerType'
  <2>1. NoConfig \in Configs
    BY DEF NoConfig, Configs
  <2> QED BY <1>3, <2>1 DEF LogInv, TypeOK, HandlerType, Actors, Finish
<1>7. TypeOK'
  BY <1>2, <1>5, <1>6 DEF LogInv, LogOK, TypeOK, FlagType, LogType, ThreadType
<1>8. SeqOK'
  <2>1. Cardinality(events) \in Nat
    BY FS_CardinalityType DEF LogInv, LogOK
  <2>2. wpc = "ev_commit" => seq[Runner] # seq[r]
    BY DEF Uncommitted
  <2>3. wpc = "ev_commit" => ~Taken(seq[Runner])'
    BY <1>3, <2>2 DEF LogInv, SeqOK, Taken
  <2> QED BY <1>2, <1>3, <1>4, <2>1, <2>3 DEF LogInv, SeqOK
<1> QED BY <1>2, <1>7, <1>8 DEF LogInv

LEMMA LogInvHandler ==
  ASSUME LogInv, NEW r \in Requests, Handler(r)
  PROVE  LogInv'
<1> DEFINE o == op[r]
<1>1. o \in AllOps => op = [op EXCEPT ![r] = o]
  BY DEF LogInv, TypeOK, HandlerType
<1>2. pc[r] \in {"write", "commit"} => o \in AllOps
  BY DEF LogInv, SeqOK, WriteOps, AllOps
<1>3. ASSUME RejectBudget(r) PROVE LogInv'
  BY <1>1, <1>2, <1>3, LogInvFinish DEF RejectBudget
<1>4. ASSUME RequestCollides(r) PROVE LogInv'
  BY <1>1, <1>2, <1>4, LogInvFinish DEF RequestCollides
<1>5. ASSUME FlushUpdate(r) PROVE LogInv'
  <2> USE <1>5 DEF FlushUpdate, row, thread, engine
  <2>1. LogOK' /\ Cardinality(events') = Cardinality(events)
    BY LogUnchanged DEF LogInv
  <2>2. Cardinality(events) \in Nat /\ NextSeq = Cardinality(events) + 1
    BY FS_CardinalityType, NextSeqIsNext DEF LogInv, LogOK
  <2>3. seq' \in [Actors -> Nat] /\ seq'[Runner] = seq[Runner]
        /\ seq'[r] = Cardinality(events) + 1
        /\ \A q \in Requests : q # r => seq'[q] = seq[q]
    BY <2>2, ActorsAssumption DEF LogInv, TypeOK, HandlerType, Actors
  <2>4. HandlerType'
    BY <2>3 DEF LogInv, TypeOK, HandlerType
  <2>5. TypeOK'
    BY <2>4 DEF LogInv, TypeOK, RowType, FlagType, LogType, ThreadType
  <2>6. SeqOK'
    BY <2>1, <2>2, <2>3 DEF LogInv, SeqOK, Taken, TypeOK, HandlerType
  <2> QED BY <2>1, <2>5, <2>6 DEF LogInv
<1>6. ASSUME CommitRequest(r) PROVE LogInv'
  BY <1>6, LogInvCommit
<1> QED BY <1>3, <1>4, <1>5, <1>6 DEF Handler

LEMMA LogInvDeadlock ==
  ASSUME LogInv, NEW r \in Requests, DeadlockVictim(r)
  PROVE  LogInv'
<1>1. ASSUME AbortRequest(r) PROVE LogInv'
  <2>1. op[r] \in AllOps /\ op = [op EXCEPT ![r] = op[r]]
    BY <1>1 DEF AbortRequest, Deadlocked, LogInv, SeqOK, TypeOK, HandlerType, WriteOps, AllOps
  <2> QED BY <1>1, <2>1, LogInvFinish DEF AbortRequest
<1>2. ASSUME AbortEvent(r) PROVE LogInv'
  <2>1. ThreadType'
    BY <1>2, BoundsAssumption
       DEF AbortEvent, Raise, Goto, EngineGone, LogInv, TypeOK, ThreadType,
           Labels, Continuations, Errors
  <2>2. dirty' \in BOOLEAN
    BY <1>2 DEF AbortEvent, Raise, Goto, LogInv, TypeOK, FlagType
  <2> QED BY <1>2, <2>1, <2>2, LogInvMemory DEF AbortEvent, Raise, Goto
<1> QED BY <1>1, <1>2 DEF DeadlockVictim

-----------------------------------------------------------------------------
(* ... and the Runner *)

\* The steps that move the thread and change nothing else it keeps.
Moves ==
  \/ StopCancelled \/ InsertEvent
  \/ BudgetSpent \/ CheckCancelled \/ CheckPause \/ PollPause \/ PollCancelled
  \/ Resumed \/ OverridesReported \/ Answer

LEMMA LogInvMoves ==
  ASSUME LogInv, Moves
  PROVE  LogInv'
<1> USE DEF Reads, Goto, engine
<1>1. ThreadType /\ dirty \in BOOLEAN
  BY DEF LogInv, TypeOK, FlagType
<1>2. /\ UNCHANGED <<row, events, artifacts, files, holder, handlers, seen, seq, crashes>>
      /\ UNCHANGED <<wnext, dirty, exc, turns, applied, toReport>>
  BY DEF Moves, StopCancelled, InsertEvent, BudgetSpent, CheckCancelled, CheckPause,
         PollPause, PollCancelled, Resumed, OverridesReported, Answer
<1>3. \/ wpc' \in Labels \ {"ev_insert", "ev_commit"}
      \/ wpc' = "ev_commit" /\ wpc = "ev_insert" /\ ~Taken(seq[Runner])
  BY <1>1 DEF Moves, StopCancelled, InsertEvent, BudgetSpent, CheckCancelled, CheckPause,
         PollPause, PollCancelled, Resumed, OverridesReported, Answer,
         ThreadType, Labels, Continuations
<1>4. ThreadType'
  BY <1>1, <1>2, <1>3 DEF ThreadType, Labels
<1>5. dirty' \in BOOLEAN
  BY <1>1, <1>2
<1> QED BY <1>2, <1>3, <1>4, <1>5, LogInvMemory

\* The other steps that touch only the thread's memory.
LEMMA LogInvEngine ==
  ASSUME LogInv, WorkFails \/ EventCollides \/ Boundary \/ ApplyOverrides
  PROVE  LogInv'
<1> USE DEF Reads, Goto, Raise, Unprepared, EngineGone, engine
<1>1. ThreadType /\ dirty \in BOOLEAN /\ config \in Configs
  BY DEF LogInv, TypeOK, FlagType, RowType
<1>2. ASSUME WorkFails \/ EventCollides PROVE LogInv'
  <2>1. ThreadType' /\ wpc' \notin {"ev_insert", "ev_commit"}
    BY <1>1, <1>2, BoundsAssumption DEF WorkFails, EventCollides, ThreadType, Labels, Errors
  <2>2. dirty' \in BOOLEAN
    BY <1>1, <1>2 DEF WorkFails, EventCollides
  <2> QED BY <1>2, <2>1, <2>2, LogInvMemory DEF WorkFails, EventCollides
<1>3. ASSUME Boundary PROVE LogInv'
  <2>1. ThreadType' /\ wpc' = "check_cancel"
    BY <1>1, <1>3, BoundsAssumption DEF Boundary, ThreadType, Labels, Continuations
  <2>2. dirty' \in BOOLEAN
    BY <1>1, <1>3 DEF Boundary
  <2> QED BY <1>3, <2>1, <2>2, LogInvMemory DEF Boundary
<1>4. ASSUME ApplyOverrides PROVE LogInv'
  <2>1. Len(config.budget_overrides) \in Nat
    BY <1>1 DEF Configs
  <2>2. ThreadType' /\ wpc' = "report"
    BY <1>1, <1>4, <2>1 DEF ApplyOverrides, ThreadType, Labels
  <2>3. dirty' \in BOOLEAN
    BY <1>1, <1>4 DEF ApplyOverrides
  <2> QED BY <1>4, <2>2, <2>3, LogInvMemory DEF ApplyOverrides
<1> QED BY <1>2, <1>3, <1>4

\* The steps that begin an event.
LEMMA LogInvBegins ==
  ASSUME LogInv, LoadScenario \/ ReportOverride \/ Work \/ EndInvestigation
  PROVE  LogInv'
<1>1. ThreadType
  BY DEF LogInv, TypeOK
<1>2. /\ turns' \in 0 .. MaxTurns /\ applied' \in Nat /\ toReport' \in Nat
  <2>1. CASE LoadScenario
    BY <1>1, <2>1 DEF LoadScenario, engine, ThreadType
  <2>2. CASE ReportOverride
    BY <1>1, <2>2 DEF ReportOverride, ThreadType
  <2>3. CASE Work
    BY <1>1, <2>3 DEF Work, engine, ThreadType
  <2>4. CASE EndInvestigation
    BY <1>1, <2>4, BoundsAssumption DEF EndInvestigation, EngineGone, ThreadType
  <2> QED BY <2>1, <2>2, <2>3, <2>4
<1>3. \E label \in Continuations, updates \in BOOLEAN : BeginEvent(label, updates)
  BY DEF LoadScenario, ReportOverride, Work, EndInvestigation, Continuations
<1> QED BY <1>2, <1>3, LogInvBegin

\* The event is committed: the log's last number is the one it read.
LEMMA LogInvCommitEvent ==
  ASSUME LogInv, CommitEvent
  PROVE  LogInv'
<1> USE DEF CommitEvent, row, handlers, engine
<1>1. KindOf(wnext) \in Kinds
  BY DEF KindOf, Kinds
<1>2. LogOK' /\ Cardinality(events') = Cardinality(events) + 1
  BY <1>1, LogGrows DEF LogInv, SeqOK
<1>3. seq' \in [Actors -> Nat] /\ \A q \in Requests : seq'[q] = seq[q]
  BY ActorsAssumption DEF LogInv, TypeOK, HandlerType, Actors
<1>4. FlagType'
  BY DEF LogInv, TypeOK, FlagType
<1>5. ThreadType' /\ wpc' \notin {"ev_insert", "ev_commit"}
  BY DEF LogInv, TypeOK, ThreadType, Labels, Continuations
<1>6. TypeOK'
  BY <1>2, <1>3, <1>4, <1>5 DEF LogInv, LogOK, TypeOK, RowType, LogType, HandlerType
<1>7. SeqOK'
  <2>1. Cardinality(events) \in Nat
    BY FS_CardinalityType DEF LogInv, LogOK
  <2> QED BY <1>2, <1>3, <1>5, <2>1 DEF LogInv, SeqOK
<1> QED BY <1>2, <1>6, <1>7 DEF LogInv

\* The transactions of the Runner that hold the row lock.
LEMMA LogInvTransactions ==
  ASSUME LogInv,
         \/ Claim \/ Prepare \/ StartSandbox \/ Pause \/ Resume
         \/ BeginScoring \/ Judge \/ Complete \/ Fail \/ Orphan
  PROVE  LogInv'
<1> USE DEF Goto
<1>1. RowType /\ FlagType /\ ThreadType /\ artifacts \subseteq Files /\ seen[Runner] \in Configs
  BY DEF LogInv, TypeOK, LogType, HandlerType, Actors
<1>2. \A label \in Labels \ {"ev_insert", "ev_commit"} :
        /\ wpc' = label /\ UNCHANGED <<wnext, dirty, exc>>
        /\ UNCHANGED <<row, events, artifacts, files, holder, handlers, seen, seq, crashes>>
        /\ UNCHANGED engine
        => LogInv'
  <2> SUFFICES ASSUME NEW label \in Labels \ {"ev_insert", "ev_commit"},
                      wpc' = label, UNCHANGED <<wnext, dirty, exc>>,
                      UNCHANGED <<row, events, artifacts, files, holder, handlers, seen, seq,
                                  crashes>>,
                      UNCHANGED engine
               PROVE  LogInv'
    OBVIOUS
  <2>1. ThreadType'
    BY <1>1 DEF ThreadType, engine
  <2>2. dirty' \in BOOLEAN
    BY <1>1 DEF FlagType
  <2> QED BY <2>1, <2>2, LogInvMemory
<1>3. ASSUME Claim PROVE LogInv'
  <2>1. RowType' /\ wpc' \in Labels \ {"ev_insert", "ev_commit"} /\ "run.preparing" \in Kinds
    BY <1>1, <1>3 DEF Claim, RowType, Statuses, Stages, Labels, Kinds
  <2>2. artifacts' \subseteq Files /\ exc' \in Errors
    BY <1>1, <1>3 DEF Claim, ThreadType
  <2> QED BY <1>3, <2>1, <2>2, LogInvLocked DEF Claim
<1>4. ASSUME Prepare PROVE LogInv'
  <2>1. RowType' /\ wpc' \in Labels \ {"ev_insert", "ev_commit"} /\ "scenario.prepared" \in Kinds
    BY <1>1, <1>4 DEF Prepare, RowType, Statuses, Stages, Labels, Kinds
  <2>2. artifacts' \subseteq Files /\ exc' \in Errors
    BY <1>1, <1>4 DEF Prepare, ThreadType
  <2> QED BY <1>4, <2>1, <2>2, LogInvLocked DEF Prepare
<1>5. \A s \in Statuses, t \in Stages, k \in Kinds,
         label \in Labels \ {"ev_insert", "ev_commit"} :
        SetStage(s, t, k, label) => LogInv'
  <2> SUFFICES ASSUME NEW s \in Statuses, NEW t \in Stages, NEW k \in Kinds,
                      NEW label \in Labels \ {"ev_insert", "ev_commit"},
                      SetStage(s, t, k, label)
               PROVE  LogInv'
    OBVIOUS
  <2>1. CASE status = "cancelled"
    BY <1>2, <2>1 DEF SetStage, Reads
  <2>2. CASE status # "cancelled"
    <3>1. RowType' /\ artifacts' \subseteq Files /\ exc' \in Errors /\ Locked(k)
      BY <1>1, <2>2 DEF SetStage, RowType, ThreadType
    <3> QED BY <3>1, LogInvLocked DEF SetStage
  <2> QED BY <2>1, <2>2
<1>6. ASSUME StartSandbox \/ BeginScoring \/ Judge PROVE LogInv'
  <2>1. /\ {"running", "scoring", status} \subseteq Statuses
        /\ {"Candidate investigation", "Judging", "Archiving"} \subseteq Stages
        /\ {"sandbox.started", "run.scoring", "judge"} \subseteq Kinds
        /\ {"turn", "judge", "archive"} \subseteq Labels \ {"ev_insert", "ev_commit"}
    BY <1>1 DEF RowType, Statuses, Stages, Kinds, Labels
  <2>2. CASE StartSandbox
    BY <1>5, <2>1, <2>2 DEF StartSandbox
  <2>3. CASE BeginScoring
    BY <1>5, <2>1, <2>3 DEF BeginScoring
  <2>4. CASE Judge
    BY <1>5, <2>1, <2>4 DEF Judge
  <2> QED BY <1>6, <2>2, <2>3, <2>4
<1>7. ASSUME Pause \/ Resume PROVE LogInv'
  <2>1. RowType' /\ wpc' \in Labels \ {"ev_insert", "ev_commit"}
    BY <1>1, <1>7 DEF Pause, Resume, RowType, Stages, Labels
  <2>2. artifacts' \subseteq Files /\ exc' \in Errors
    BY <1>1, <1>7 DEF Pause, Resume, ThreadType
  <2>3. \E kind \in Kinds : Locked(kind)
    BY <1>7 DEF Pause, Resume, Kinds
  <2> QED BY <1>7, <2>1, <2>2, <2>3, LogInvLocked DEF Pause, Resume
<1>8. ASSUME Complete PROVE LogInv'
  <2>1. CASE status = "cancelled"
    BY <1>2, <1>8, <2>1 DEF Complete, Reads, Labels
  <2>2. CASE status # "cancelled"
    <3>1. RowType' /\ wpc' \in Labels \ {"ev_insert", "ev_commit"} /\ "run.completed" \in Kinds
      BY <1>1, <1>8, <2>2 DEF Complete, RowType, Statuses, Stages, Labels, Kinds
    <3>2. artifacts' \subseteq Files /\ exc' \in Errors
      BY <1>1, <1>8, <2>2 DEF Complete, ThreadType, Files
    <3> QED BY <1>8, <2>2, <3>1, <3>2, LogInvLocked DEF Complete
  <2> QED BY <2>1, <2>2
<1>9. ASSUME Fail PROVE LogInv'
  <2>1. CASE status = "cancelled"
    <3>1. ThreadType'
      BY <1>1, <1>9, <2>1 DEF Fail, ThreadType, engine, Labels, Errors
    <3>2. dirty' \in BOOLEAN
      BY <1>1, <1>9 DEF Fail, FlagType
    <3> QED BY <1>9, <2>1, <3>1, <3>2, LogInvMemory DEF Fail
  <2>2. CASE status # "cancelled"
    <3>1. RowType' /\ wpc' \in Labels \ {"ev_insert", "ev_commit"} /\ "run.failed" \in Kinds
      BY <1>1, <1>9, <2>2 DEF Fail, RowType, ThreadType, Statuses, Stages, Labels, Kinds
    <3>2. artifacts' \subseteq Files /\ exc' \in Errors
      BY <1>1, <1>9, <2>2 DEF Fail, Files, Errors
    <3> QED BY <1>9, <2>2, <3>1, <3>2, LogInvLocked DEF Fail
  <2> QED BY <2>1, <2>2
<1>10. ASSUME Orphan PROVE LogInv'
  <2>1. config' \in Configs
    BY <1>1, <1>10 DEF Orphan, RowType, Configs
  <2>2. RowType' /\ wpc' \in Labels \ {"ev_insert", "ev_commit"} /\ "run.orphaned" \in Kinds
    BY <1>10, <2>1 DEF Orphan, RowType, Statuses, Stages, Errors, Labels, Kinds
  <2>3. artifacts' \subseteq Files /\ exc' \in Errors
    BY <1>1, <1>10 DEF Orphan, ThreadType
  <2> QED BY <1>10, <2>2, <2>3, LogInvLocked DEF Orphan
<1> QED BY <1>3, <1>4, <1>6, <1>7, <1>8, <1>9, <1>10

\* The steps that touch a file, and the Runner's death and restart.
LEMMA LogInvProcess ==
  ASSUME LogInv, ArchiveEvidence \/ Checkpoint \/ Crash \/ Restart
  PROVE  LogInv'
<1> USE DEF Goto, row, handlers, engine, EngineGone
<1>1. LogOK' /\ Cardinality(events') = Cardinality(events)
  BY LogUnchanged DEF LogInv, ArchiveEvidence, Checkpoint, Crash, Restart
<1>2. RowType' /\ LogType'
  BY DEF LogInv, TypeOK, RowType, LogType, Files, ArchiveEvidence, Checkpoint, Crash, Restart
<1>3. FlagType'
  BY DEF LogInv, TypeOK, FlagType, ArchiveEvidence, Checkpoint, Crash, Restart
<1>4. HandlerType'
  BY DEF LogInv, TypeOK, RowType, HandlerType, Actors,
         ArchiveEvidence, Checkpoint, Crash, Restart
<1>5. ThreadType' /\ wpc' \notin {"ev_insert", "ev_commit"}
  <2> USE DEF LogInv, TypeOK, ThreadType, Labels
  <2>1. CASE ArchiveEvidence
    BY <2>1 DEF ArchiveEvidence
  <2>2. CASE Checkpoint
    BY <2>2 DEF Checkpoint
  <2>3. CASE Crash
    BY <2>3, BoundsAssumption DEF Crash, Continuations, Errors
  <2>4. CASE Restart
    BY <2>4 DEF Restart
  <2> QED BY <2>1, <2>2, <2>3, <2>4
<1>6. SeqOK'
  BY <1>1, <1>5 DEF LogInv, SeqOK, ArchiveEvidence, Checkpoint, Crash, Restart
<1> QED BY <1>1, <1>2, <1>3, <1>4, <1>5, <1>6 DEF LogInv, TypeOK

LEMMA LogInvNext == LogInv /\ [Next]_vars => LogInv'
<1> SUFFICES ASSUME LogInv, [Next]_vars PROVE LogInv'
  OBVIOUS
<1>1. CASE \E r \in Requests : Request(r) \/ Handler(r) \/ DeadlockVictim(r)
  BY <1>1, LogInvRequest, LogInvHandler, LogInvDeadlock
<1>2. CASE RunnerStep
  BY <1>2, LogInvMoves, LogInvEngine, LogInvBegins, LogInvCommitEvent, LogInvTransactions,
     LogInvProcess
     DEF RunnerStep, Execute, Investigate, Conclude, Moves
<1>3. CASE Crash
  BY <1>3, LogInvProcess
<1>4. CASE UNCHANGED vars
  BY <1>4, LogUnchanged
     DEF vars, LogInv, TypeOK, RowType, FlagType, LogType, HandlerType, ThreadType, SeqOK, Taken
<1> QED BY <1>1, <1>2, <1>3, <1>4 DEF Next, Idle

THEOREM LogInvariant == Spec => []LogInv
BY LogInvInit, LogInvNext, PTL DEF Spec

\* Every variable keeps its type, and the engine takes no turn above its budget,
\* whatever the requests, the collisions and the crashes.
THEOREM TypeCorrect == Spec => []TypeOK
<1>1. LogInv => TypeOK
  BY DEF LogInv
<1> QED BY <1>1, LogInvariant, PTL

\* The events of a run are numbered 1, 2, 3, ... without a gap or a repetition,
\* although append_event and AgentEngine._event read max(sequence) with no lock.
THEOREM GapFree == Spec => []EventLogGapFree
<1>1. LogInv => EventLogGapFree
  BY DEF LogInv, LogOK, EventLogGapFree
<1> QED BY <1>1, LogInvariant, PTL

---------------------------------------------------------------------------
(***************************************************************************)
(* The verdict of a run is reached at most once, the thread that executes  *)
(* a run never undoes a cancellation, and RunControl implements            *)
(* RunLifecycle. The argument is the phase of the run that each label of   *)
(* the Runner's thread stands for. The same phases show that a completed   *)
(* run has its evidence, and that a pause holds.                           *)
(***************************************************************************)

VerdictEvents == {e \in events : e.kind \in Verdicts}

Undecided == VerdictEvents = {}

InEvent == wpc \in {"ev_insert", "ev_commit"}

\* The thread is at one of the labels, or writes the event that leads to it.
At(labels) == wpc \in labels \/ (InEvent /\ wnext \in labels)

Preparing == {"load", "prepare", "sandbox"}
SafeBoundary ==
  {"check_cancel", "check_pause", "pause", "paused", "paused_cancel", "resume", "resumed"}
Investigating ==
  SafeBoundary \cup {"turn", "overrides", "report", "work", "answer", "end", "score"}
Concluding == {"judge", "archive", "complete"}
Failing == {"checkpoint", "fail", "orphan"}

\* What the thread may rely on where it stands: a request can only cancel.
PhaseOK ==
  /\ At(Preparing) => status \in {"preparing", "cancelled"}
  /\ At(Investigating) => status \in {"running", "cancelled"}
  /\ wpc \in Concluding => status \in {"scoring", "cancelled"}
  /\ wpc \in Failing => status \in Interrupted \cup {"cancelled"}
  /\ wpc \in SafeBoundary => wnext \in {"overrides", "work"}
  /\ InEvent => wnext \in {"prepare", "report", "answer", "score"}

\* An executing thread, and a run that has not ended, have no verdict yet.
VerdictOK ==
  /\ wpc \notin {"poll", "down"} => Undecided
  /\ status \in Interrupted \cup {"queued"} => Undecided
  /\ \E e : VerdictEvents \subseteq {e}

VerdictInv == TypeOK /\ PhaseOK /\ VerdictOK

-----------------------------------------------------------------------------

\* A step that leaves the log alone or adds an event that is no verdict.
Harmless ==
  \/ UNCHANGED events
  \/ \E s, k : k \notin Verdicts /\ events' = events \cup {[seq |-> s, kind |-> k]}

\* Without a new verdict the log decides what it decided before.
LEMMA HarmlessStep ==
  ASSUME Harmless
  PROVE  VerdictEvents' = VerdictEvents /\ Decided' = Decided /\ Undecided' = Undecided
<1>1. VerdictEvents' = VerdictEvents
  BY DEF Harmless, VerdictEvents
<1>2. (\E e \in events : e.kind = "run.completed")
      <=> \E e \in VerdictEvents : e.kind = "run.completed"
  BY DEF VerdictEvents, Verdicts
<1>3. (\E e \in events' : e.kind = "run.completed")
      <=> \E e \in VerdictEvents' : e.kind = "run.completed"
  BY DEF VerdictEvents, Verdicts
<1>4. (\E e \in events : e.kind \in Verdicts) <=> VerdictEvents # {}
  BY DEF VerdictEvents
<1>5. (\E e \in events' : e.kind \in Verdicts) <=> VerdictEvents' # {}
  BY DEF VerdictEvents
<1> QED BY <1>1, <1>2, <1>3, <1>4, <1>5 DEF Decided, Undecided

\* A verdict written where there was none is the only one, and decides.
LEMMA VerdictStep ==
  ASSUME Undecided, NEW s, NEW k \in Verdicts,
         events' = events \cup {[seq |-> s, kind |-> k]}
  PROVE  /\ Decided = "none"
         /\ Decided' = (IF k = "run.completed" THEN "completed" ELSE "failed")
         /\ \E e : VerdictEvents' \subseteq {e}
<1> DEFINE new == [seq |-> s, kind |-> k]
<1>1. \A e \in events : e.kind \notin Verdicts
  BY DEF Undecided, VerdictEvents
<1>2. VerdictEvents' \subseteq {new}
  BY <1>1 DEF VerdictEvents
<1>3. Decided = "none"
  BY <1>1 DEF Decided, Verdicts
<1>4. \A e \in events' : e.kind = "run.completed" => e.kind \in Verdicts /\ e = new
  BY <1>1 DEF Verdicts
<1>5. new.kind = k /\ new \in events'
  OBVIOUS
<1>6. (\E e \in events' : e.kind = "run.completed") <=> k = "run.completed"
  BY <1>4, <1>5
<1>7. \E e \in events' : e.kind \in Verdicts
  BY <1>5
<1> QED BY <1>2, <1>3, <1>6, <1>7 DEF Decided

\* The actions that may decide the run; every other one is harmless.
Decides ==
  (Complete \/ Fail \/ Orphan)

\* Every action but the three that decide is harmless to the verdict.
LEMMA OthersHarmless ==
  ASSUME VerdictInv, LogInv, [Next]_vars, ~Decides
  PROVE  Harmless
<1> USE DEF Harmless, Verdicts
<1>1. ASSUME NEW r \in Requests, Request(r) \/ Handler(r) \/ DeadlockVictim(r) PROVE Harmless
  <2>1. CASE CommitRequest(r)
    <3>1. op[r] \in WriteOps
      BY <2>1 DEF CommitRequest, LogInv, SeqOK
    <3>2. EventOf(op[r]) \notin Verdicts
      BY <3>1 DEF EventOf, WriteOps
    <3> QED BY <2>1, <3>2 DEF CommitRequest
  <2>2. CASE Archive(r)
    BY <2>2 DEF Archive, Log
  <2>3. CASE RejectBudget(r) \/ FlushUpdate(r) \/ RequestCollides(r) \/ DeadlockVictim(r)
             \/ \E o \in Ops : ReadRun(r, o)
    BY <2>3 DEF RejectBudget, FlushUpdate, RequestCollides, DeadlockVictim, AbortRequest,
                AbortEvent, Raise, ReadRun
  <2> QED BY <1>1, <2>1, <2>2, <2>3 DEF Request, Handler
<1>2. ASSUME RunnerStep PROVE Harmless
  <2>1. CASE Claim \/ Prepare \/ Pause \/ Resume
    BY <2>1 DEF Claim, Prepare, Pause, Resume, Locked, Log
  <2>2. CASE StartSandbox \/ BeginScoring \/ Judge
    BY <2>2 DEF StartSandbox, BeginScoring, Judge, SetStage, Reads, Locked, Log
  <2>3. CASE CommitEvent
    <3>1. KindOf(wnext) \notin Verdicts
      BY DEF KindOf
    <3> QED BY <2>3, <3>1 DEF CommitEvent
  <2>4. CASE LoadScenario \/ ReportOverride \/ Work \/ EndInvestigation
    BY <2>4 DEF LoadScenario, ReportOverride, Work, EndInvestigation, BeginEvent
  <2>5. CASE Moves
    BY <2>5 DEF Moves, StopCancelled, InsertEvent, BudgetSpent, CheckCancelled, CheckPause,
                PollPause, PollCancelled, Resumed, OverridesReported, Answer, Reads
  <2>6. CASE WorkFails \/ EventCollides \/ Boundary \/ ApplyOverrides
    BY <2>6 DEF WorkFails, EventCollides, Boundary, ApplyOverrides, Raise, Reads
  <2>7. CASE ArchiveEvidence \/ Checkpoint \/ Restart
    BY <2>7 DEF ArchiveEvidence, Checkpoint, Restart
  <2> QED BY <1>2, <2>1, <2>2, <2>3, <2>4, <2>5, <2>6, <2>7
          DEF RunnerStep, Execute, Investigate, Conclude, Moves, Decides
<1>3. CASE Crash \/ UNCHANGED vars
  BY <1>3 DEF Crash, vars
<1> QED BY <1>1, <1>2, <1>3 DEF Next, Idle

-----------------------------------------------------------------------------
(* The phases are inductive *)

LEMMA VerdictInvInit == Init => PhaseOK /\ VerdictOK
<1> SUFFICES ASSUME Init PROVE PhaseOK /\ VerdictOK
  OBVIOUS
<1>1. PhaseOK
  BY DEF Init, PhaseOK, At, InEvent, Preparing, Investigating, SafeBoundary, Concluding, Failing
<1>2. VerdictEvents = {}
  BY DEF Init, VerdictEvents, Verdicts
<1> QED BY <1>1, <1>2 DEF VerdictOK, Undecided

\* The thread stays where it is, and the run may be cancelled.
LEMMA PhaseStill ==
  ASSUME PhaseOK, UNCHANGED <<wpc, wnext>>, status' \in {status, "cancelled"}
  PROVE  PhaseOK'
BY DEF PhaseOK, At, InEvent

LEMMA PhaseRequest ==
  ASSUME VerdictInv, NEW r \in Requests, Request(r) \/ Handler(r) \/ DeadlockVictim(r)
  PROVE  PhaseOK'
<1>1. ASSUME AbortEvent(r) PROVE PhaseOK'
  <2>1. /\ wpc = "ev_commit" /\ wpc' \in {"checkpoint", "fail"}
        /\ UNCHANGED <<wnext, status>>
    BY <1>1 DEF AbortEvent, Raise, Goto, Deadlocked, Uncommitted, row
  <2>2. status \in Interrupted \cup {"cancelled"}
    BY <2>1 DEF VerdictInv, PhaseOK, At, InEvent, Preparing, Investigating, Interrupted
  <2> QED BY <2>1, <2>2 DEF PhaseOK, At, InEvent, Preparing, Investigating, SafeBoundary,
                            Concluding
<1>2. CASE ~AbortEvent(r)
  <2>1. UNCHANGED <<wpc, wnext>> /\ status' \in {status, "cancelled"}
    BY <1>2 DEF Request, Handler, DeadlockVictim, ReadRun, Archive, FlushUpdate, RejectBudget,
                CommitRequest, WriteColumns, RequestCollides, AbortRequest, row, thread
  <2> QED BY <2>1, PhaseStill DEF VerdictInv
<1> QED BY <1>1, <1>2

\* Where each step of the Runner leaves the thread and the status.
LEMMA PhaseRunner ==
  ASSUME VerdictInv, RunnerStep
  PROVE  PhaseOK'
<1> USE DEF VerdictInv, PhaseOK, At, InEvent, Preparing, Investigating, SafeBoundary,
            Concluding, Failing, Goto
<1>1. CASE Claim
  BY <1>1 DEF Claim
<1>2. CASE LoadScenario
  BY <1>2 DEF LoadScenario, BeginEvent, row
<1>3. CASE Prepare
  BY <1>3 DEF Prepare
<1>4. CASE StartSandbox
  BY <1>4 DEF StartSandbox, SetStage, Reads, row
<1>5. CASE StopCancelled
  BY <1>5 DEF StopCancelled, Reads, row
<1>6. CASE WorkFails
  BY <1>6 DEF WorkFails, Raise, Interrupted, row
<1>7. CASE InsertEvent
  BY <1>7 DEF InsertEvent, Reads, row
<1>8. CASE EventCollides
  BY <1>8 DEF EventCollides, Raise, Interrupted, row
<1>9. CASE CommitEvent
  BY <1>9 DEF CommitEvent, row
<1>10. CASE Boundary
  BY <1>10 DEF Boundary, Reads, row
<1>11. CASE BudgetSpent \/ OverridesReported \/ Answer
  BY <1>11 DEF BudgetSpent, OverridesReported, Answer, Reads, row
<1>12. CASE CheckCancelled \/ CheckPause
  BY <1>12 DEF CheckCancelled, CheckPause, Reads, row
<1>13. CASE PollPause \/ PollCancelled
  BY <1>13 DEF PollPause, PollCancelled, Reads, row
<1>14. CASE Pause \/ Resume
  BY <1>14 DEF Pause, Resume
<1>15. CASE Resumed
  BY <1>15 DEF Resumed, Reads, row
<1>16. CASE ApplyOverrides
  BY <1>16 DEF ApplyOverrides, Reads, row
<1>17. CASE ReportOverride
  BY <1>17 DEF ReportOverride, BeginEvent, row
<1>18. CASE Work
  BY <1>18 DEF Work, BeginEvent, row
<1>19. CASE EndInvestigation
  BY <1>19 DEF EndInvestigation, BeginEvent, row
<1>20. CASE BeginScoring
  BY <1>20 DEF BeginScoring, SetStage
<1>21. CASE Judge
  BY <1>21 DEF Judge, SetStage, Reads, row
<1>22. CASE ArchiveEvidence
  BY <1>22 DEF ArchiveEvidence, row
<1>23. CASE Complete
  BY <1>23 DEF Complete
<1>24. CASE Checkpoint
  BY <1>24 DEF Checkpoint, row
<1>25. CASE Fail
  BY <1>25 DEF Fail
<1>26. CASE Restart
  BY <1>26 DEF Restart, row
<1>27. CASE Orphan
  BY <1>27 DEF Orphan
<1> QED BY <1>1, <1>2, <1>3, <1>4, <1>5, <1>6, <1>7, <1>8, <1>9, <1>10, <1>11, <1>12, <1>13,
           <1>14, <1>15, <1>16, <1>17, <1>18, <1>19, <1>20, <1>21, <1>22, <1>23, <1>24, <1>25,
           <1>26, <1>27
        DEF RunnerStep, Execute, Investigate, Conclude

-----------------------------------------------------------------------------
(* The verdict is inductive *)

\* The actions that decide, where they do: the thread had no verdict before.
LEMMA DecidesStep ==
  ASSUME VerdictInv, Decides
  PROVE  \/ UNCHANGED events /\ UNCHANGED status /\ status = "cancelled" /\ wpc' = "poll"
         \/ /\ Undecided /\ wpc' = "poll" /\ status' \in {"completed", "failed"}
            /\ \E s, k : /\ k \in Verdicts /\ events' = events \cup {[seq |-> s, kind |-> k]}
                         /\ (k = "run.completed") <=> status' = "completed"
                         /\ k = "run.completed" => status = "scoring"
            /\ status \in Interrupted \cup {"cancelled"}
            /\ status = "cancelled" => Orphan
<1> USE DEF Goto, Locked, Log, Verdicts
<1>1. Undecided
  BY DEF VerdictInv, VerdictOK, Decides, Complete, Fail, Orphan
<1>2. CASE Complete
  BY <1>1, <1>2 DEF Complete, Reads, row, VerdictInv, PhaseOK, Concluding, Interrupted
<1>3. CASE Fail
  <2>1. CASE status = "cancelled"
    BY <1>3, <2>1 DEF Fail, row
  <2>2. CASE status # "cancelled"
    <3>1. /\ events' = events \cup {[seq |-> NextSeq, kind |-> "run.failed"]}
          /\ status' = "failed" /\ wpc' = "poll"
      BY <1>3, <2>2 DEF Fail
    <3>2. status \in Interrupted
      BY <1>3, <2>2 DEF Fail, VerdictInv, PhaseOK, Failing
    <3> QED BY <1>1, <2>2, <3>1, <3>2 DEF Interrupted
  <2> QED BY <2>1, <2>2
<1>4. CASE Orphan
  BY <1>1, <1>4 DEF Orphan, VerdictInv, PhaseOK, Failing, Interrupted
<1> QED BY <1>2, <1>3, <1>4 DEF Decides

\* The status after a step that decides nothing.
LEMMA StatusStep ==
  ASSUME VerdictInv, [Next]_vars, ~Decides
  PROVE  \/ UNCHANGED status
         \/ status' = "cancelled"
         \/ status = "queued" /\ status' = "preparing"
         \/ status = "preparing" /\ status' = "running"
         \/ status = "running" /\ status' = "scoring"
<1>1. ASSUME NEW r \in Requests, Request(r) \/ Handler(r) \/ DeadlockVictim(r)
      PROVE  status' \in {status, "cancelled"}
  BY <1>1 DEF Request, Handler, DeadlockVictim, ReadRun, Archive, FlushUpdate, RejectBudget,
              CommitRequest, WriteColumns, RequestCollides, AbortRequest, AbortEvent, Raise, row
<1>2. CASE Claim
  BY <1>2 DEF Claim
<1>3. CASE Prepare
  BY <1>3 DEF Prepare, VerdictInv, PhaseOK, At, Preparing
<1>4. CASE StartSandbox
  BY <1>4 DEF StartSandbox, SetStage, Reads, row, VerdictInv, PhaseOK, At, Preparing
<1>5. CASE BeginScoring
  BY <1>5 DEF BeginScoring, SetStage, VerdictInv, PhaseOK, At, Investigating
<1>6. CASE Judge
  BY <1>6 DEF Judge, SetStage, Reads, row
<1>7. CASE Moves \/ WorkFails \/ EventCollides \/ Boundary \/ ApplyOverrides
  BY <1>7 DEF Moves, StopCancelled, InsertEvent, BudgetSpent, CheckCancelled, CheckPause,
              PollPause, PollCancelled, Resumed, OverridesReported, Answer, Reads, row,
              WorkFails, EventCollides, Boundary, ApplyOverrides, Raise
<1>8. CASE LoadScenario \/ ReportOverride \/ Work \/ EndInvestigation \/ CommitEvent
  BY <1>8 DEF LoadScenario, ReportOverride, Work, EndInvestigation, BeginEvent, CommitEvent, row
<1>9. CASE Pause \/ Resume
  BY <1>9 DEF Pause, Resume
<1>10. CASE ArchiveEvidence \/ Checkpoint \/ Restart \/ Crash \/ UNCHANGED vars
  BY <1>10 DEF ArchiveEvidence, Checkpoint, Restart, Crash, row, vars
<1> QED BY <1>1, <1>2, <1>3, <1>4, <1>5, <1>6, <1>7, <1>8, <1>9, <1>10
        DEF Next, Idle, RunnerStep, Execute, Investigate, Conclude, Moves, Decides

\* The thread takes a run up only where the run has no verdict.
LEMMA TakeUp ==
  ASSUME [Next]_vars, wpc \in {"poll", "down"}, wpc' \notin {"poll", "down"}
  PROVE  status \in Interrupted \cup {"queued"}
<1>1. ASSUME NEW r \in Requests, Request(r) \/ Handler(r) \/ DeadlockVictim(r)
      PROVE  UNCHANGED wpc
  BY <1>1 DEF Request, Handler, DeadlockVictim, ReadRun, Archive, FlushUpdate, RejectBudget,
              CommitRequest, RequestCollides, AbortRequest, AbortEvent, Deadlocked,
              Uncommitted, thread
<1>2. CASE Claim
  BY <1>2 DEF Claim
<1>3. CASE Restart
  BY <1>3 DEF Restart, Goto
<1>4. CASE Execute \/ Investigate \/ Conclude \/ Orphan
  BY <1>4 DEF Execute, Investigate, Conclude, Orphan, LoadScenario, Prepare, StartSandbox,
     StopCancelled, WorkFails, InsertEvent, EventCollides, CommitEvent, Boundary, BudgetSpent,
     CheckCancelled, CheckPause, Pause, PollPause, PollCancelled, Resume, Resumed,
     ApplyOverrides, ReportOverride, OverridesReported, Work, Answer, EndInvestigation,
     BeginScoring, Judge, ArchiveEvidence, Complete, Checkpoint, Fail
<1>5. CASE Crash \/ UNCHANGED vars
  BY <1>5 DEF Crash, vars
<1> QED BY <1>1, <1>2, <1>3, <1>4, <1>5 DEF Next, Idle, RunnerStep

LEMMA VerdictInvNext == LogInv /\ VerdictInv /\ [Next]_vars => PhaseOK' /\ VerdictOK'
<1> SUFFICES ASSUME LogInv, VerdictInv, [Next]_vars PROVE PhaseOK' /\ VerdictOK'
  OBVIOUS
<1>1. PhaseOK'
  <2>1. CASE Crash
    BY <2>1 DEF Crash, VerdictInv, PhaseOK, At, InEvent, Preparing, Investigating, SafeBoundary,
                Concluding, Failing
  <2>2. CASE UNCHANGED vars
    BY <2>2, PhaseStill DEF vars, VerdictInv
  <2> QED BY <2>1, <2>2, PhaseRequest, PhaseRunner DEF Next, Idle
<1>2. VerdictOK'
  <2>1. CASE Harmless /\ ~Decides
    <3>1. Undecided' = Undecided /\ VerdictEvents' = VerdictEvents
      BY <2>1, HarmlessStep
    <3>2. status' \in Interrupted \cup {"queued"} => status \in Interrupted \cup {"queued"}
      BY <2>1, StatusStep DEF Interrupted
    <3> QED BY <3>1, <3>2, TakeUp DEF VerdictInv, VerdictOK
  <2>2. CASE Decides
    <3>1. CASE UNCHANGED <<events, status>> /\ wpc' = "poll"
      <4>1. Undecided' = Undecided /\ VerdictEvents' = VerdictEvents
        BY <3>1, HarmlessStep DEF Harmless
      <4> QED BY <3>1, <4>1 DEF VerdictInv, VerdictOK
    <3>2. CASE /\ Undecided /\ wpc' = "poll" /\ status' \in {"completed", "failed"}
               /\ \E s, k : k \in Verdicts /\ events' = events \cup {[seq |-> s, kind |-> k]}
      <4>1. \E e : VerdictEvents' \subseteq {e}
        BY <3>2, VerdictStep
      <4> QED BY <3>2, <4>1 DEF VerdictOK, Interrupted
    <3> QED BY <2>2, <3>1, <3>2, DecidesStep
  <2> QED BY <2>1, <2>2, OthersHarmless
<1> QED BY <1>1, <1>2

THEOREM VerdictInvariant == Spec => [](LogInv /\ VerdictInv)
<1>1. Init => LogInv /\ VerdictInv
  BY LogInvInit, VerdictInvInit DEF VerdictInv, LogInv
<1>2. LogInv /\ VerdictInv /\ [Next]_vars => (LogInv /\ VerdictInv)'
  BY LogInvNext, VerdictInvNext DEF VerdictInv, LogInv
<1> QED BY <1>1, <1>2, PTL DEF Spec

-----------------------------------------------------------------------------
(* What follows *)

\* The Runner completes, fails or orphans a run at most once.
THEOREM VerdictOnce == Spec => []AtMostOneVerdict
<1>1. VerdictInv => AtMostOneVerdict
  <2> SUFFICES ASSUME VerdictInv PROVE AtMostOneVerdict
    OBVIOUS
  <2>1. PICK e : VerdictEvents \subseteq {e}
    BY DEF VerdictInv, VerdictOK
  <2>2. IsFiniteSet({e}) /\ Cardinality({e}) = 1
    BY FS_Singleton
  <2>3. Cardinality(VerdictEvents) \in Nat /\ Cardinality(VerdictEvents) <= 1
    BY <2>1, <2>2, FS_Subset, FS_CardinalityType
  <2> QED BY <2>3 DEF AtMostOneVerdict, VerdictEvents
<1> QED BY <1>1, VerdictInvariant, PTL

\* Only the reconciliation of a restarted Runner overwrites a cancellation.
THEOREM CancelHolds == Spec => CancelOutlivesExecution
<1>1. VerdictInv /\ [Next]_vars
      => [status = "cancelled" => status' = "cancelled" \/ Orphan]_vars
  <2> SUFFICES ASSUME VerdictInv, [Next]_vars, status = "cancelled"
               PROVE  status' = "cancelled" \/ Orphan
    OBVIOUS
  <2> QED BY StatusStep, DecidesStep
<1> QED BY <1>1, VerdictInvariant, PTL DEF Spec, CancelOutlivesExecution

\* RunControl implements RunLifecycle: the statuses follow the promised order,
\* the verdict is reached once, and every other step stutters.
THEOREM ImplementsLifecycle == Spec => LifecycleSpec
<1>1. Init => Lifecycle!Init
  BY DEF Init, Lifecycle!Init, Decided, Verdicts
<1>2. LogInv /\ VerdictInv /\ [Next]_vars => [Lifecycle!Next]_<<status, Decided>>
  <2> SUFFICES ASSUME LogInv, VerdictInv, [Next]_vars
               PROVE  [Lifecycle!Next]_<<status, Decided>>
    OBVIOUS
  <2> USE DEF Lifecycle!Next, Lifecycle!Claim, Lifecycle!Start, Lifecycle!Score,
              Lifecycle!Complete, Lifecycle!Fail, Lifecycle!Cancel, Lifecycle!FailInterrupted
  <2>1. CASE ~Decides
    <3>1. Decided' = Decided
      BY <2>1, OthersHarmless, HarmlessStep
    <3> QED BY <2>1, <3>1, StatusStep
  <2>2. CASE Decides
    <3>1. CASE UNCHANGED events /\ UNCHANGED status
      <4>1. Decided' = Decided
        BY <3>1, HarmlessStep DEF Harmless
      <4> QED BY <3>1, <4>1
    <3>2. CASE /\ Undecided /\ status' \in {"completed", "failed"}
               /\ \E s, k : /\ k \in Verdicts /\ events' = events \cup {[seq |-> s, kind |-> k]}
                            /\ (k = "run.completed") <=> status' = "completed"
                            /\ k = "run.completed" => status = "scoring"
               /\ status \in Interrupted \cup {"cancelled"}
      <4>1. Decided = "none" /\ Decided' = status'
        BY <3>2, VerdictStep
      <4> QED BY <3>2, <4>1 DEF Interrupted
    <3> QED BY <2>2, <3>1, <3>2, DecidesStep
  <2> QED BY <2>1, <2>2
<1> QED BY <1>1, <1>2, VerdictInvariant, PTL DEF Spec, LifecycleSpec, Lifecycle!Spec

-----------------------------------------------------------------------------
(* The evidence of a completion *)

\* The file is written before the thread may complete the run, and files stay.
EvidenceOK ==
  /\ CompletedHasEvidence
  /\ wpc = "complete" => "run-archive" \in files

CompletedLogged == \E e \in events : e.kind = "run.completed"

\* The archive is on the volume before the completion can commit, and no step removes it.
LEMMA EvidenceNext == LogInv /\ VerdictInv /\ EvidenceOK /\ [Next]_vars => EvidenceOK'
<1> SUFFICES ASSUME LogInv, VerdictInv, EvidenceOK, [Next]_vars PROVE EvidenceOK'
  OBVIOUS
<1>1. CASE Complete
  BY <1>1 DEF Complete, Locked, Reads, row, Goto, EvidenceOK, CompletedHasEvidence
<1>2. ASSUME ~Complete PROVE CompletedLogged' => CompletedLogged
  <2>1. CASE Fail \/ Orphan
    BY <2>1 DEF Fail, Orphan, Locked, Log, CompletedLogged
  <2>2. CASE ~Decides
    <3>1. Harmless
      BY <2>2, OthersHarmless
    <3> QED BY <3>1 DEF Harmless, CompletedLogged, Verdicts
  <2> QED BY <1>2, <2>1, <2>2 DEF Decides
<1>3. ASSUME ~Complete
      PROVE  /\ files \subseteq files' /\ artifacts \subseteq artifacts'
             /\ artifacts' \subseteq artifacts \cup files
             /\ wpc' = "complete" => wpc = "complete" \/ "run-archive" \in files'
  <2>1. ASSUME NEW r \in Requests, Request(r) \/ Handler(r) \/ DeadlockVictim(r)
        PROVE  UNCHANGED <<files, artifacts>> /\ wpc' \in {wpc, "fail", "checkpoint"}
    BY <2>1 DEF Request, Handler, DeadlockVictim, ReadRun, Archive, FlushUpdate, RejectBudget,
                CommitRequest, RequestCollides, AbortRequest, AbortEvent, Raise, Goto, thread
  <2>2. CASE LoadScenario \/ ReportOverride \/ Work \/ EndInvestigation \/ Claim \/ Prepare
             \/ Pause \/ Resume
    BY <2>2 DEF LoadScenario, ReportOverride, Work, EndInvestigation, BeginEvent, Claim, Prepare,
                Pause, Resume, Locked, Goto
  <2>3. CASE StartSandbox \/ BeginScoring \/ Judge
    BY <2>3 DEF StartSandbox, BeginScoring, Judge, SetStage, Reads, Locked, Goto
  <2>4. wnext \in Continuations
    BY DEF LogInv, TypeOK, ThreadType
  <2>5. CASE CommitEvent
    BY <2>4, <2>5 DEF CommitEvent, Continuations
  <2>6. CASE Moves
    BY <2>4, <2>6 DEF Moves, StopCancelled, InsertEvent, BudgetSpent, CheckCancelled, CheckPause,
                PollPause, PollCancelled, Resumed, OverridesReported, Answer, Reads, Goto,
                Continuations
  <2>7. CASE WorkFails \/ EventCollides \/ Boundary \/ ApplyOverrides
    BY <2>7 DEF WorkFails, EventCollides, Boundary, ApplyOverrides, Raise, Reads, Goto
  <2>8. CASE ArchiveEvidence \/ Checkpoint \/ Restart
    BY <2>8 DEF ArchiveEvidence, Checkpoint, Restart, Goto
  <2>9. CASE Fail \/ Orphan
    BY <2>9 DEF Fail, Orphan, Locked, Goto
  <2>10. CASE Crash \/ UNCHANGED vars
    BY <2>10 DEF Crash, vars
  <2> QED BY <1>3, <2>1, <2>2, <2>3, <2>5, <2>6, <2>7, <2>8, <2>9, <2>10
          DEF Next, Idle, RunnerStep, Execute, Investigate, Conclude, Moves
<1>4. CASE ~Complete
  BY <1>2, <1>3, <1>4 DEF EvidenceOK, CompletedHasEvidence, CompletedLogged
<1> QED BY <1>1, <1>4

\* A completed run has its archive on the volume and its artifact row.
THEOREM EvidenceTheorem == Spec => []CompletedHasEvidence
<1>1. Init => EvidenceOK
  BY DEF Init, EvidenceOK, CompletedHasEvidence
<1>2. EvidenceOK => CompletedHasEvidence
  BY DEF EvidenceOK
<1> QED BY <1>1, <1>2, EvidenceNext, VerdictInvariant, PTL DEF Spec

-----------------------------------------------------------------------------
(* What the console shows of a pause *)

Held == {"paused", "paused_cancel", "resume", "down", "orphan"}

\* An archived run has ended and stays ended, so a restart takes up every
\* running one.
PausedOK ==
  /\ archived => status \in Terminal
  /\ PausedMeansHeld

\* Only the archive handler sets the mark, on a run it has read as ended.
LEMMA ArchivedEnded ==
  ASSUME VerdictInv, archived => status \in Terminal, [Next]_vars
  PROVE  archived' => status' \in Terminal
<1>1. status \in Terminal => status' \in Terminal
  BY StatusStep, DecidesStep DEF Terminal
<1>2. CASE \E r \in Requests : Archive(r)
  BY <1>2 DEF Archive
<1>3. CASE ~(\E r \in Requests : Archive(r))
  <2>1. UNCHANGED archived
    BY <1>3 DEF Next, Request, Handler, DeadlockVictim, ReadRun, FlushUpdate, RejectBudget,
       CommitRequest, RequestCollides, AbortRequest, AbortEvent, Raise, RunnerStep, Execute,
       Investigate, Conclude, Claim, Restart, Orphan, Crash, Idle, vars, row, Locked, Reads,
       LoadScenario, Prepare, StartSandbox, SetStage, StopCancelled, WorkFails, InsertEvent,
       EventCollides, CommitEvent, Boundary, BudgetSpent, CheckCancelled, CheckPause, Pause,
       PollPause, PollCancelled, Resume, Resumed, ApplyOverrides, ReportOverride,
       OverridesReported, Work, Answer, EndInvestigation, BeginEvent, BeginScoring, Judge,
       ArchiveEvidence, Complete, Checkpoint, Fail
  <2> QED BY <1>1, <2>1
<1> QED BY <1>2, <1>3

\* A step that leaves the stage paused leaves the thread where it does no work.
LEMMA HeldNext == LogInv /\ VerdictInv /\ PausedOK /\ [Next]_vars => PausedMeansHeld'
<1> SUFFICES ASSUME LogInv, VerdictInv, PausedOK, [Next]_vars,
                    status' = "running", stage' = "Paused at safe boundary"
             PROVE  wpc' \in Held
  BY DEF PausedMeansHeld, Held
<1> USE DEF Held, Goto
<1>1. archived => status \in Terminal
  BY DEF PausedOK
<1>2. status = "running" /\ stage = "Paused at safe boundary" => wpc \in Held
  BY DEF PausedOK, PausedMeansHeld
<1>3. ASSUME NEW r \in Requests, Request(r) \/ Handler(r) \/ DeadlockVictim(r)
      PROVE  wpc' \in Held
  <2>1. CASE CommitRequest(r)
    <3>1. op[r] \in WriteOps
      BY <2>1 DEF CommitRequest, LogInv, SeqOK
    <3> QED BY <1>2, <2>1, <3>1 DEF CommitRequest, WriteColumns, WriteOps, thread
  <2>2. CASE AbortEvent(r)
    BY <1>2, <2>2 DEF AbortEvent, Deadlocked, Uncommitted, Raise, row
  <2>3. CASE ~CommitRequest(r) /\ ~AbortEvent(r)
    BY <1>2, <1>3, <2>3 DEF Request, Handler, DeadlockVictim, ReadRun, Archive, FlushUpdate,
                RejectBudget, RequestCollides, AbortRequest, row, thread
  <2> QED BY <2>1, <2>2, <2>3
<1>4. CASE Claim \/ Prepare \/ Pause \/ Resume
  BY <1>4 DEF Claim, Prepare, Pause, Resume
<1>5. CASE StartSandbox \/ BeginScoring \/ Judge
  BY <1>2, <1>5 DEF StartSandbox, BeginScoring, Judge, SetStage, Reads, row
<1>6. CASE LoadScenario \/ ReportOverride \/ Work \/ EndInvestigation \/ CommitEvent
  BY <1>2, <1>6 DEF LoadScenario, ReportOverride, Work, EndInvestigation, BeginEvent, CommitEvent, row
<1>7. CASE Moves \/ WorkFails \/ EventCollides \/ Boundary \/ ApplyOverrides
  <2>1. UNCHANGED row /\ (wpc \in Held => wpc \in {"paused", "paused_cancel"})
    BY <1>7 DEF Moves, StopCancelled, InsertEvent, BudgetSpent, CheckCancelled, CheckPause,
                PollPause, PollCancelled, Resumed, OverridesReported, Answer, Reads,
                WorkFails, EventCollides, Boundary, ApplyOverrides, Raise
  <2>2. wpc \in Held /\ status = "running"
    BY <1>2, <2>1 DEF row
  <2> QED BY <1>7, <2>1, <2>2 DEF Moves, StopCancelled, InsertEvent, BudgetSpent, CheckCancelled,
                CheckPause, PollPause, PollCancelled, Resumed, OverridesReported, Answer,
                WorkFails, EventCollides, Boundary, ApplyOverrides
<1>8. CASE ArchiveEvidence \/ Checkpoint \/ Complete \/ Fail \/ Orphan
  BY <1>2, <1>8 DEF ArchiveEvidence, Checkpoint, Complete, Fail, Orphan, Reads, row
<1>9. CASE Restart
  BY <1>1, <1>2, <1>9 DEF Restart, Interrupted, Terminal, row
<1>10. CASE Crash \/ UNCHANGED vars
  BY <1>2, <1>10 DEF Crash, vars, row
<1> QED BY <1>3, <1>4, <1>5, <1>6, <1>7, <1>8, <1>9, <1>10
        DEF Next, Idle, RunnerStep, Execute, Investigate, Conclude, Moves

\* While a run is shown as paused no model turn and no tool call is under way.
THEOREM PausedTheorem == Spec => []PausedMeansHeld
<1>1. Init => PausedOK
  BY DEF Init, PausedOK, PausedMeansHeld
<1>2. LogInv /\ VerdictInv /\ PausedOK /\ [Next]_vars => PausedOK'
  BY HeldNext, ArchivedEnded DEF PausedOK
<1>3. PausedOK => PausedMeansHeld
  BY DEF PausedOK
<1> QED BY <1>1, <1>2, <1>3, VerdictInvariant, PTL DEF Spec

-----------------------------------------------------------------------------
(* A pause from the next safe boundary on *)

QuietKinds == {"candidate", "run.budget_adjusted"}

InForce(p) ==
  /\ p.kind = "run.pause_requested" /\ config.pause_requested = "yes"
  /\ \A e \in events : e.seq > p.seq => e.kind \in QuietKinds

\* A candidate's event behind the pause request, written or about to be.
Follows(p) ==
  \/ \E c \in events : c.kind = "candidate" /\ c.seq > p.seq
  \/ InEvent /\ wnext \in {"answer", "score"} /\ seq[Runner] > p.seq

\* The thread has left the step it was in, and has not passed a boundary since.
StepOver ==
  \/ wpc \in {"answer", "turn", "check_cancel", "check_pause", "pause", "end", "score", "judge",
              "archive", "complete", "checkpoint", "fail", "poll", "down", "orphan"}
  \/ InEvent /\ wnext \in {"answer", "score"}

PauseOK == \A p \in events : InForce(p) /\ Follows(p) => StepOver

\* An event of another kind ends every pause before it.
LEMMA PauseLoud ==
  ASSUME LogInv, NEW k \in Kinds \ QuietKinds, NEW s \in 1 .. Cardinality(events) + 1,
         ~Taken(s), events' = events \cup {[seq |-> s, kind |-> k]},
         InEvent' => seq'[Runner] \in 1 .. Cardinality(events) + 1
  PROVE  PauseOK'
<1> DEFINE new == [seq |-> s, kind |-> k]
           n == Cardinality(events)
<1>1. s = n + 1
  BY LogGrows DEF LogInv
<1>2. n \in Nat /\ \A e \in events : e.seq \in 1 .. n
  BY FS_CardinalityType DEF LogInv, LogOK
<1>3. new \in events' /\ new.seq = n + 1 /\ new.kind = k /\ \A e \in events' : e \in events \/ e = new
  BY <1>1
<1> HIDE DEF new, n
<1>4. ASSUME NEW p \in events PROVE ~InForce(p)'
  <2>1. new.seq > p.seq
    BY <1>2, <1>3
  <2> QED BY <1>3, <2>1 DEF InForce
<1>5. ~Follows(new)'
  <2>1. \A e \in events' : ~(e.seq > new.seq)
    BY <1>2, <1>3
  <2>2. InEvent' => ~(seq'[Runner] > new.seq)
    BY <1>2, <1>3 DEF n
  <2> QED BY <2>1, <2>2 DEF Follows
<1> QED BY <1>3, <1>4, <1>5 DEF PauseOK

\* Without an event, a pause in force keeps the thread from the next step.
LEMMA PauseStill ==
  ASSUME PauseOK, UNCHANGED <<config, events>>,
         StepOver /\ config.pause_requested = "yes" => StepOver'
  PROVE  PauseOK'
<1> SUFFICES ASSUME NEW p \in events, InForce(p)', Follows(p)' PROVE StepOver'
  BY DEF PauseOK
<1>1. InForce(p) /\ config.pause_requested = "yes"
  BY DEF InForce
<1> QED BY <1>1 DEF PauseOK, Follows, StepOver

\* The transactions of the Runner that take the row lock first.
LEMMA PauseLocked ==
  ASSUME LogInv, NEW k \in Kinds \ QuietKinds, Locked(k), wpc' \notin {"ev_insert", "ev_commit"}
  PROVE  PauseOK'
<1>1. NextSeq \in 1 .. Cardinality(events) + 1 /\ ~Taken(NextSeq)
  BY NextSeqIsNext, FS_CardinalityType DEF LogInv, LogOK
<1> QED BY <1>1, PauseLoud DEF Locked, Log, InEvent

\* A request's own event is loud; its other steps leave the thread where it is.
LEMMA PauseRequest ==
  ASSUME LogInv, PauseOK, NEW r \in Requests, Request(r) \/ Handler(r) \/ DeadlockVictim(r)
  PROVE  PauseOK'
<1>1. InEvent => seq[Runner] \in 1 .. Cardinality(events) + 1
  BY DEF LogInv, SeqOK, InEvent
<1>2. r # Runner /\ seq \in [Actors -> Nat]
  BY ActorsAssumption DEF LogInv, TypeOK, HandlerType
<1>3. CASE CommitRequest(r)
  <2>1. op[r] \in WriteOps /\ seq[r] \in 1 .. Cardinality(events) + 1
    BY <1>3 DEF CommitRequest, LogInv, SeqOK
  <2>2. EventOf(op[r]) \in Kinds \ QuietKinds
    BY <2>1 DEF EventOf, WriteOps, Kinds, QuietKinds
  <2>3. InEvent' => seq'[Runner] \in 1 .. Cardinality(events) + 1
    BY <1>1, <1>2, <1>3 DEF CommitRequest, Finish, thread, InEvent
  <2> QED BY <1>3, <2>1, <2>2, <2>3, PauseLoud DEF CommitRequest
<1>4. CASE Archive(r)
  <2>1. NextSeq \in 1 .. Cardinality(events) + 1 /\ ~Taken(NextSeq)
    BY NextSeqIsNext, FS_CardinalityType DEF LogInv, LogOK
  <2>2. InEvent' => seq'[Runner] \in 1 .. Cardinality(events) + 1
    <3>1. seq' = [seq EXCEPT ![r] = 0]
      BY <1>4 DEF Archive, Finish
    <3>2. seq'[Runner] = seq[Runner]
      BY <1>2, <3>1
    <3>3. UNCHANGED wpc
      BY <1>4 DEF Archive, thread
    <3> QED BY <1>1, <3>2, <3>3 DEF InEvent
  <2>3. CASE events' = events
    <3>1. UNCHANGED <<config, wpc, wnext>>
      BY <1>4 DEF Archive, thread
    <3>2. StepOver => StepOver'
      BY <3>1 DEF StepOver, InEvent
    <3> QED BY <2>3, <3>1, <3>2, PauseStill
  <2>4. CASE Log("run.archived")
    BY <2>1, <2>2, <2>4, PauseLoud DEF Log, Kinds, QuietKinds
  <2>5. events' = events \/ Log("run.archived")
    BY <1>4, Zenon DEF Archive
  <2> QED BY <2>3, <2>4, <2>5
<1>5. CASE ~CommitRequest(r) /\ ~Archive(r)
  <2>1. UNCHANGED <<config, events>> /\ (StepOver => StepOver')
    BY <1>5 DEF Request, Handler, DeadlockVictim, ReadRun, FlushUpdate, RejectBudget,
                RequestCollides, AbortRequest, AbortEvent, Raise, Goto, row, thread, StepOver, InEvent
  <2> QED BY <2>1, PauseStill
<1> QED BY <1>3, <1>4, <1>5

\* Every step writes an event that ends the pause, or leaves the thread outside its work.
LEMMA PauseNext == LogInv /\ VerdictInv /\ PauseOK /\ [Next]_vars => PauseOK'
<1> SUFFICES ASSUME LogInv, VerdictInv, PauseOK, [Next]_vars PROVE PauseOK'
  OBVIOUS
<1>1. CASE Claim \/ Prepare \/ Pause \/ Resume \/ Orphan
  BY <1>1, PauseLocked DEF Claim, Prepare, Pause, Resume, Orphan, Goto, Kinds, QuietKinds
<1>2. CASE StartSandbox \/ BeginScoring \/ Judge \/ Complete \/ Fail
  <2>1. CASE status = "cancelled"
    <3>1. UNCHANGED <<config, events>> /\ (StepOver => StepOver')
      BY <1>2, <2>1 DEF StartSandbox, BeginScoring, Judge, Complete, Fail, SetStage, Reads, row,
                        Goto, StepOver, InEvent
    <3> QED BY <3>1, PauseStill
  <2>2. CASE status # "cancelled"
    BY <1>2, <2>2, PauseLocked DEF StartSandbox, BeginScoring, Judge, Complete, Fail, SetStage,
                                   Goto, Kinds, QuietKinds
  <2> QED BY <2>1, <2>2
<1>3. CASE CommitEvent
  <2>1. wnext \in {"prepare", "report", "answer", "score"} /\ InEvent
    BY <1>3 DEF CommitEvent, VerdictInv, PhaseOK, InEvent
  <2>2. CASE wnext \in {"answer", "score"}
    BY <1>3, <2>2 DEF CommitEvent, PauseOK, StepOver
  <2>3. CASE wnext = "prepare"
    <3>1. seq[Runner] \in 1 .. Cardinality(events) + 1 /\ ~Taken(seq[Runner])
      BY <1>3 DEF CommitEvent, LogInv, SeqOK
    <3>2. KindOf(wnext) = "scenario.loaded" /\ ~InEvent'
      BY <1>3, <2>3 DEF CommitEvent, KindOf, InEvent
    <3> QED BY <1>3, <3>1, <3>2, PauseLoud DEF CommitEvent, Kinds, QuietKinds
  <2>4. CASE wnext = "report"
    <3> DEFINE new == [seq |-> seq[Runner], kind |-> "run.budget_adjusted"]
    <3>1. events' = events \cup {new} /\ new.kind = "run.budget_adjusted" /\ wpc' = "report"
          /\ UNCHANGED config
      BY <1>3, <2>4 DEF CommitEvent, KindOf, row
    <3>2. ~StepOver
      BY <1>3, <2>4 DEF CommitEvent, StepOver
    <3> HIDE DEF new
    <3>3. SUFFICES ASSUME NEW p \in events', InForce(p)', Follows(p)' PROVE FALSE
      BY DEF PauseOK
    <3>4. p \in events
      BY <3>1, <3>3 DEF InForce
    <3>5. InForce(p) /\ Follows(p)
      BY <3>1, <3>3 DEF InForce, Follows, InEvent
    <3> QED BY <3>2, <3>4, <3>5 DEF PauseOK
  <2> QED BY <2>1, <2>2, <2>3, <2>4
<1>4. CASE LoadScenario \/ ReportOverride \/ Work \/ EndInvestigation
  <2>1. UNCHANGED <<config, events>> /\ (StepOver => StepOver')
    BY <1>4 DEF LoadScenario, ReportOverride, Work, EndInvestigation, BeginEvent, row, StepOver, InEvent
  <2> QED BY <2>1, PauseStill
<1>5. CASE Moves
  <2>1. UNCHANGED <<config, events>>
    BY <1>5 DEF Moves, StopCancelled, InsertEvent, BudgetSpent, CheckCancelled, CheckPause,
                PollPause, PollCancelled, Resumed, OverridesReported, Answer, Reads, row
  <2>2. StepOver /\ config.pause_requested = "yes" => StepOver'
    BY <1>5 DEF Moves, StopCancelled, InsertEvent, BudgetSpent, CheckCancelled, CheckPause,
                PollPause, PollCancelled, Resumed, OverridesReported, Answer, Goto, StepOver, InEvent
  <2> QED BY <2>1, <2>2, PauseStill
<1>6. CASE WorkFails \/ EventCollides \/ Boundary \/ ApplyOverrides \/ ArchiveEvidence
           \/ Checkpoint \/ Restart \/ Crash
  <2>1. UNCHANGED <<config, events>> /\ (StepOver => StepOver')
    BY <1>6 DEF WorkFails, EventCollides, Boundary, ApplyOverrides, ArchiveEvidence, Checkpoint,
                Restart, Crash, Raise, Reads, row, Goto, StepOver, InEvent
  <2> QED BY <2>1, PauseStill
<1>7. CASE UNCHANGED vars
  <2>1. UNCHANGED <<config, events>> /\ (StepOver => StepOver')
    BY <1>7 DEF vars, StepOver, InEvent
  <2> QED BY <2>1, PauseStill
<1> QED BY <1>1, <1>2, <1>3, <1>4, <1>5, <1>6, <1>7, PauseRequest
        DEF Next, Idle, RunnerStep, Execute, Investigate, Conclude, Moves

\* With an accepted pause in force, no model turn and no tool call begins after
\* the events of the step that was under way (_wait_for_resume).
THEOREM PauseTheorem == Spec => []PauseHoldsAtNextBoundary
<1>1. Init => PauseOK
  BY DEF Init, PauseOK, InForce
<1>2. PauseOK => PauseHoldsAtNextBoundary
  BY DEF PauseOK, PauseHoldsAtNextBoundary, InForce, Follows, StepOver, QuietKinds, InEvent
<1> QED BY <1>1, <1>2, PauseNext, VerdictInvariant, PTL DEF Spec

---------------------------------------------------------------------------
(***************************************************************************)
(* The reader of the event stream and the console behind it: nothing that  *)
(* is told is out of order or left out, and who has stopped reading has    *)
(* been told how the run ended.                                            *)
(***************************************************************************)

\* How a run may end, as the log tells it.
Endings == TerminalEvents \cup {"run.orphaned"}

\* A reader is told whatever is behind its cursor, and nothing of a run that
\* has ended is left to be written that would tell how.
FeedOK ==
  /\ reader \in {"none", "stream", "console"}
  /\ Cursor \in 0 .. Cardinality(events)
  /\ told = {e \in events : e.seq <= Cursor}
  /\ look \in Terminal \/ status \in Terminal => \E e \in events : e.kind \in Endings
  /\ idle \in Nat /\ (idle < IdleTicks \/ ~open)
  /\ ~open /\ idle < IdleTicks => \E e \in told : e.kind \in Endings

\* A step adds one event at most, and its number is free.
LEMMA LogStep ==
  ASSUME LogInv, [Next]_vars
  PROVE  \/ UNCHANGED events
         \/ \E s \in Nat \ {0}, k \in Kinds : ~Taken(s) /\ events' = events \cup {[seq |-> s, kind |-> k]}
<1>0. NextSeq \in Nat \ {0} /\ ~Taken(NextSeq)
  BY NextSeqIsNext DEF LogInv
<1>1. \A k : Log(k) => events' = events \cup {[seq |-> NextSeq, kind |-> k]}
  BY DEF Log
<1>2. ASSUME NEW r \in Requests, CommitRequest(r)
      PROVE  \E s \in Nat \ {0}, k \in Kinds : ~Taken(s) /\ events' = events \cup {[seq |-> s, kind |-> k]}
  <2>1. op[r] \in WriteOps /\ seq[r] \in 1 .. Cardinality(events) + 1
    BY <1>2 DEF CommitRequest, LogInv, SeqOK
  <2>2. EventOf(op[r]) \in Kinds
    BY <2>1 DEF EventOf, WriteOps, Kinds
  <2>3. seq[r] \in Nat \ {0}
    BY <2>1, FS_CardinalityType DEF LogInv, LogOK
  <2> QED BY <1>2, <2>2, <2>3 DEF CommitRequest
<1>3. CASE CommitEvent
  <2>1. seq[Runner] \in 1 .. Cardinality(events) + 1 /\ ~Taken(seq[Runner])
    BY <1>3 DEF CommitEvent, LogInv, SeqOK
  <2>2. seq[Runner] \in Nat \ {0}
    BY <2>1, FS_CardinalityType DEF LogInv, LogOK
  <2>3. KindOf(wnext) \in Kinds
    BY DEF KindOf, Kinds
  <2> QED BY <1>3, <2>1, <2>2, <2>3 DEF CommitEvent
<1>4. ASSUME NEW r \in Requests, Request(r) \/ Handler(r) \/ DeadlockVictim(r), ~CommitRequest(r)
      PROVE  UNCHANGED events \/ \E k \in Kinds : Log(k)
  BY <1>4 DEF Request, Handler, DeadlockVictim, ReadRun, Archive, FlushUpdate, RejectBudget,
              RequestCollides, AbortRequest, AbortEvent, Raise, Kinds
<1>5. ASSUME RunnerStep, ~CommitEvent PROVE UNCHANGED events \/ \E k \in Kinds : Log(k)
  BY <1>5 DEF RunnerStep, Execute, Investigate, Conclude, Claim, Restart, Orphan, Locked, Reads,
     LoadScenario, Prepare, StartSandbox, SetStage, StopCancelled, WorkFails, InsertEvent,
     EventCollides, Boundary, BudgetSpent, CheckCancelled, CheckPause, Pause, Raise,
     PollPause, PollCancelled, Resume, Resumed, ApplyOverrides, ReportOverride,
     OverridesReported, Work, Answer, EndInvestigation, BeginEvent, BeginScoring, Judge,
     ArchiveEvidence, Complete, Checkpoint, Fail, Kinds
<1>6. CASE Crash \/ UNCHANGED vars
  BY <1>6 DEF Crash, vars
<1> QED BY <1>0, <1>1, <1>2, <1>3, <1>4, <1>5, <1>6 DEF Next, Idle

\* The event it adds comes after every other.
LEMMA LogAppends ==
  ASSUME LogInv, LogInv', [Next]_vars
  PROVE  /\ events \subseteq events'
         /\ \A e \in events : e.seq \in 1 .. Cardinality(events)
         /\ \A e \in events' \ events : e.seq = Cardinality(events) + 1
<1> DEFINE n == Cardinality(events)
<1>1. n \in Nat /\ \A e \in events : e.seq \in 1 .. n
  BY FS_CardinalityType DEF LogInv, LogOK
<1>2. ASSUME NEW s \in Nat \ {0}, NEW k \in Kinds, ~Taken(s), events' = events \cup {[seq |-> s, kind |-> k]}
      PROVE  s = n + 1
  <2> DEFINE new == [seq |-> s, kind |-> k]
  <2>1. new \notin events
    BY <1>2 DEF Taken
  <2>2. Cardinality(events') = n + 1
    BY <1>2, <2>1, FS_AddElement DEF LogInv, LogOK
  <2>3. new.seq \in 1 .. Cardinality(events')
    BY <1>2 DEF LogInv, LogOK
  <2>4. \A i \in 1 .. n : \E e \in events : e.seq = i
    BY DEF LogInv, LogOK
  <2>5. s \in 1 .. n + 1
    BY <2>2, <2>3
  <2> HIDE DEF n
  <2> QED BY <1>1, <1>2, <2>4, <2>5 DEF Taken
<1> QED BY <1>1, <1>2, LogStep

\* A run that has ended has an event that says so.
LEMMA EndTold ==
  ASSUME LogInv, LogInv', VerdictInv, [Next]_vars, status' \in Terminal,
         status \in Terminal => \E e \in events : e.kind \in Endings
  PROVE  \E e \in events' : e.kind \in Endings
<1> USE DEF Endings, TerminalEvents
<1>1. CASE status \in Terminal
  BY <1>1, LogAppends
<1>2. CASE status \notin Terminal /\ Decides
  <2>1. PICK s, k : k \in Verdicts /\ events' = events \cup {[seq |-> s, kind |-> k]}
    BY <1>2, DecidesStep DEF Terminal
  <2>2. [seq |-> s, kind |-> k].kind \in Endings
    BY <2>1 DEF Verdicts
  <2> QED BY <2>1, <2>2
<1>3. CASE status \notin Terminal /\ ~Decides
  <2>1. status' = "cancelled" /\ status # "cancelled"
    BY <1>3, StatusStep DEF Terminal
  <2>2. PICK r \in Requests : CommitRequest(r) /\ op[r] = "cancel"
    <3>1. ASSUME NEW r \in Requests, Request(r) \/ Handler(r) \/ DeadlockVictim(r), ~CommitRequest(r)
          PROVE  UNCHANGED status
      BY <3>1 DEF Request, Handler, DeadlockVictim, ReadRun, Archive, FlushUpdate, RejectBudget,
                  RequestCollides, AbortRequest, AbortEvent, Raise, row
    <3>2. ASSUME RunnerStep PROVE UNCHANGED status \/ status' # "cancelled"
      BY <3>2 DEF RunnerStep, Execute, Investigate, Conclude, Claim, Restart, Orphan, Locked, Reads,
         LoadScenario, Prepare, StartSandbox, SetStage, StopCancelled, WorkFails, InsertEvent,
         EventCollides, CommitEvent, Boundary, BudgetSpent, CheckCancelled, CheckPause, Pause, Raise,
         PollPause, PollCancelled, Resume, Resumed, ApplyOverrides, ReportOverride,
         OverridesReported, Work, Answer, EndInvestigation, BeginEvent, BeginScoring, Judge,
         ArchiveEvidence, Complete, Checkpoint, Fail, row
    <3>3. CASE Crash \/ UNCHANGED vars
      BY <2>1, <3>3 DEF Crash, vars, row
    <3>4. ASSUME NEW r \in Requests, CommitRequest(r), op[r] # "cancel" PROVE UNCHANGED status
      BY <3>4 DEF CommitRequest, WriteColumns
    <3> QED BY <2>1, <3>1, <3>2, <3>3, <3>4 DEF Next, Idle
  <2>3. [seq |-> seq[r], kind |-> "run.cancelled"] \in events'
    BY <2>2 DEF CommitRequest, EventOf
  <2> QED BY <2>3
<1> QED BY <1>1, <1>2, <1>3

\* The number of the last event is the count of them.
LEMMA LastNumber ==
  ASSUME LogInv
  PROVE  /\ Cardinality(events) \in Nat
         /\ \A e \in events : e.seq \in 1 .. Cardinality(events)
         /\ Max({0} \cup {e.seq : e \in events}) = Cardinality(events)
<1> DEFINE n == Cardinality(events)
<1>1. n \in Nat /\ {0} \cup {e.seq : e \in events} = 0 .. n
  BY FS_CardinalityType DEF LogInv, LogOK
<1>2. n \in 0 .. n /\ \A x \in 0 .. n : n >= x /\ ((\A y \in 0 .. n : x >= y) => x = n)
  BY <1>1
<1>3. Max(0 .. n) = n
  BY <1>2 DEF Max
<1> QED BY <1>1, <1>3 DEF LogInv, LogOK

\* A read that is answered behind the cursor leaves the reader with the log.
LEMMA ReadsAll ==
  ASSUME LogInv, FeedOK, told' = told \cup Fresh, UNCHANGED events
  PROVE  told' = events /\ Cursor' = Cardinality(events)
<1>1. \A e \in events : e.seq <= Cursor \/ e.seq > Cursor
  BY LastNumber DEF FeedOK
<1>2. told' = events
  BY <1>1 DEF FeedOK, Fresh
<1> QED BY <1>2, LastNumber DEF Cursor

LEMMA FeedOKInit == Init /\ FeedInit => FeedOK
<1> SUFFICES ASSUME Init, FeedInit PROVE FeedOK
  OBVIOUS
<1>1. LogInv
  BY LogInvInit
<1>2. Cursor = 0
  <2>1. {0} \cup {e.seq : e \in told} = {0}
    BY DEF FeedInit
  <2> QED BY <2>1 DEF Cursor, Max
<1>3. status \notin Terminal
  BY DEF Init, Terminal
<1> QED BY <1>1, <1>2, <1>3, LastNumber, IdleAssumption DEF FeedOK, FeedInit, Terminal

\* The run goes on while the reader does nothing.
LEMMA FeedRun ==
  ASSUME LogInv, LogInv', VerdictInv, FeedOK, [Next]_vars, UNCHANGED feedVars
  PROVE  FeedOK'
<1>1. Cursor' = Cursor /\ told' = told
  BY DEF feedVars, Cursor
<1>2. /\ Cardinality(events) \in Nat /\ Cardinality(events') \in Nat
      /\ \A e \in events : e.seq \in 1 .. Cardinality(events)
      /\ \A e \in events' : e.seq \in 1 .. Cardinality(events')
  BY FS_CardinalityType DEF LogInv, LogOK
<1>3. \A e \in events' \ events : e.seq > Cursor
  BY <1>2, LogAppends DEF FeedOK
<1>4. told' = {e \in events' : e.seq <= Cursor'}
  BY <1>1, <1>2, <1>3, LogAppends DEF FeedOK
<1>5. Cardinality(events) <= Cardinality(events')
  BY LogAppends, FS_Subset DEF LogInv, LogOK
<1>6. look' \in Terminal \/ status' \in Terminal => \E e \in events' : e.kind \in Endings
  BY EndTold, LogAppends DEF FeedOK, feedVars
<1> QED BY <1>1, <1>2, <1>4, <1>5, <1>6 DEF FeedOK, feedVars

\* One of the reader's own steps.
LEMMA FeedStep ==
  ASSUME LogInv, FeedOK, FeedNext
  PROVE  FeedOK'
<1>0. UNCHANGED <<vars, reader, events, status>> /\ Cardinality(events)' = Cardinality(events)
  BY DEF FeedNext, StreamLooks, StreamSends, ConsoleLooks, ConsoleReads, Quiet, vars, row
<1>1. CASE StreamLooks \/ ConsoleLooks
  <2>1. look' = status /\ UNCHANGED <<open, told, idle>> /\ Cursor' = Cursor
    BY <1>1 DEF StreamLooks, ConsoleLooks, Cursor
  <2> QED BY <1>0, <2>1 DEF FeedOK
<1>2. CASE ConsoleReads
  <2>1. told' = events /\ Cursor' = Cardinality(events) /\ UNCHANGED <<open, look, idle>>
    BY <1>0, <1>2, ReadsAll DEF ConsoleReads
  <2> QED BY <1>0, <2>1, LastNumber DEF FeedOK
<1>3. CASE StreamSends
  <2>1. told' = events /\ Cursor' = Cardinality(events)
    BY <1>0, <1>3, ReadsAll DEF StreamSends
  <2>2. open /\ look' \notin Terminal /\ (idle' = 0 \/ idle' = idle + 1)
    BY <1>3 DEF StreamSends, Terminal
  <2>3. ~open' <=> look \in Terminal \/ idle' = IdleTicks
    BY <1>3, Zenon DEF StreamSends
  <2>4. idle' \in Nat /\ idle' <= IdleTicks
    BY <2>2, IdleAssumption DEF FeedOK
  <2>5. IdleTicks \in Nat
    BY IdleAssumption
  <2>6. (idle' < IdleTicks \/ ~open') /\ (~open' /\ idle' < IdleTicks => look \in Terminal)
    BY <2>3, <2>4, <2>5
  <2> QED BY <1>0, <2>1, <2>2, <2>4, <2>6, LastNumber DEF FeedOK
<1> QED BY <1>1, <1>2, <1>3 DEF FeedNext

\* A reader with an event that ends the run as its last has been told the end.
LEMMA FeedImplies == FeedOK => ReaderMissesNothing
<1>1. Settled => \E e \in told : e.kind \in Endings
  BY DEF Settled, Latest, Endings
<1> QED BY <1>1 DEF FeedOK, ReaderMissesNothing, Endings

\* The log, the verdict and what the reader has been told: each step of the
\* run and each of its reader (stream_events, or the console's queries) keeps
\* all three.
THEOREM FeedInvariant == FeedSpec => [](LogInv /\ VerdictInv /\ FeedOK)
<1>1. FeedSpec => Spec
  <2>1. [FeedNext \/ (Next /\ UNCHANGED feedVars)]_<<vars, feedVars>> => [Next]_vars
    BY DEF FeedNext, StreamLooks, StreamSends, ConsoleLooks, ConsoleReads, Quiet
  <2> QED BY <2>1, PTL DEF FeedSpec, Spec
<1>2. Init /\ FeedInit => FeedOK
  BY FeedOKInit
<1>3. /\ LogInv /\ VerdictInv /\ FeedOK /\ LogInv'
      /\ [FeedNext \/ (Next /\ UNCHANGED feedVars)]_<<vars, feedVars>>
      => FeedOK'
  BY FeedRun, FeedStep
<1> QED BY <1>1, <1>2, <1>3, VerdictInvariant, PTL DEF FeedSpec

\* A reader has every event up to the last one it got, in whatever order the
\* run's transactions commit, and one that has stopped knows how the run ended.
THEOREM FeedTheorem == FeedSpec => []ReaderMissesNothing
BY FeedInvariant, FeedImplies, PTL
===========================================================================
