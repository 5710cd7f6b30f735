---------------------------- MODULE Conversation ----------------------------
(***************************************************************************)
(* The conversation that AgentEngine.run keeps, what its compaction leaves *)
(* of it, the form each provider is sent it in, and how a provider's       *)
(* answer becomes a turn (runner/engine.py, runner/providers.py).          *)
(*                                                                         *)
(* Text is left out but for three things: its size in units of about 4,000 *)
(* characters, whether there is any, and whether it holds the marker of a  *)
(* checkpoint.  Tool calls and results are known by the number of the      *)
(* message that made the call.  Every call of a batch has its result in    *)
(* the conversation before the next turn (AgentEngine!ConversationAnswered)*)
(* and nothing reads the conversation in between; of a batch that is not   *)
(* finished, there is no next turn.                                        *)
(***************************************************************************)
EXTENDS Integers, Sequences, FiniteSets, SequencesExt

CONSTANTS Responses,    \* what providers answer: sequences of Items
          BatchLimit,   \* calls a structured response may make
          AnswerSizes, ResultSizes,  \* sizes of an answer and of a tool's output
          Notices,      \* bound: notices before a turn (a budget warning, a nudge)
          Soft, Target, Emergency, Floor, PolicyTarget, \* context_*_characters
          CheckpointLeast, CheckpointMost, \* bounds of a checkpoint's limit
          Limits,       \* tool_content_limit: [soft, forced, least]
          MaxTurns      \* bound: turns of the loop that are answered

Items == {"text", "call", "malformed", "unknown", "junk", "json"}
Wires == {"chat", "codex", "gemini", "claude", "antigravity"}  \* chat: OpenAI, Anthropic, Ollama

ASSUME ResponsesAssumption == \A r \in Responses : r \in Seq(Items)
ASSUME LimitsAssumption ==
  /\ BatchLimit \in Nat /\ AnswerSizes \subseteq Nat /\ ResultSizes \subseteq Nat /\ Notices \in Nat
  /\ {Soft, Target, Emergency, Floor, PolicyTarget, CheckpointLeast, CheckpointMost} \subseteq Nat
  /\ {Limits.soft, Limits.forced, Limits.least} \subseteq Nat
  /\ Floor <= Emergency /\ PolicyTarget <= Emergency
  /\ Emergency <= Target /\ Target < Soft
  /\ 1 <= CheckpointLeast /\ CheckpointLeast <= CheckpointMost /\ 4 * CheckpointLeast <= Target

VARIABLES wire,       \* the provider of the profile
          native,     \* native_tools
          talk,       \* messages
          place,      \* "turn" (top of the loop), "request" or "done"
          turns,
          stamp,      \* messages made so far
          recoveries, \* recovery_attempt and policy_recovery_attempt
          policies,
          asked,      \* history: of the last answer, the calls named and run,
                      \* and whether it broke off
          mistaken    \* history: a compaction took a quote for a checkpoint

talkVars == <<wire, native, talk, place, turns, stamp, recoveries, policies, asked, mistaken>>

---------------------------------------------------------------------------
(* Messages.                                                               *)

Message(n, role, size) ==
  [n |-> n, role |-> role, size |-> size, text |-> TRUE, mark |-> FALSE, calls |-> 0, of |-> <<0, 0>>]

Size(ms) == FoldLeft(LAMBDA total, m : total + m.size, 0, ms)

Opening == <<Message(1, "system", 1), Message(2, "user", 1)>>

(* _assistant_message: calls are told only where tools are native.         *)
Assistant(n, size, text, mark, calls) ==
  [Message(n, "assistant", size) EXCEPT !.text = text, !.mark = mark, !.calls = IF native THEN calls ELSE 0]

(* tool_message                                                            *)
Result(n, size, mark, from, i) ==
  IF native THEN [Message(n, "tool", size) EXCEPT !.mark = mark, !.of = <<from, i>>]
            ELSE [Message(n, "user", size) EXCEPT !.mark = mark]

(* The messages that are in S, in their order.                             *)
Among(ms, S) == FoldLeft(LAMBDA out, m : IF m \in S THEN Append(out, m) ELSE out, <<>>, ms)

CallsOf(m) == {<<m.n, i>> : i \in 1..m.calls}

---------------------------------------------------------------------------
(* Compaction.                                                             *)

(* compact_history_message, compact_tool_result_content, bounded_text: of  *)
(* the longer outputs, contents and arguments a head and a tail are left.  *)
Shortened(m, toolLimit, assistantLimit) ==
  LET limit == [tool |-> toolLimit, assistant |-> assistantLimit, user |-> m.size, system |-> m.size][m.role]
  IN  [m EXCEPT !.size = IF m.size > limit THEN limit ELSE @]

\* Mutant of OpensBlock: every message is a block of its own.
OpensAlone(h, i) == i \in DOMAIN h

(* protocol_message_blocks: what opens a block.                            *)
OpensBlock(h, i) ==
  ~\E j \in 1..(i - 1) : \A k \in (j + 1)..i : h[k].role = "tool" /\ h[k].of \in CallsOf(h[j])

(* The messages no compaction retires: system, and the first user message. *)
Pinned(ms, m) == \/ m.role = "system"
                 \/ m.role = "user" /\ \A i \in DOMAIN ms : ms[i].role = "user" => ms[i].n >= m.n

(* _context_checkpoint_message: a quarter of the target, within bounds.    *)
CheckpointSizes(target) ==
  LET quarter == target \div 4
      least == IF quarter > CheckpointLeast THEN quarter ELSE CheckpointLeast
  IN  1..(IF least < CheckpointMost THEN least ELSE CheckpointMost)
Checkpoint(size) == [Message(0, "user", size) EXCEPT !.mark = TRUE]

\* Mutant of Select: passes over a block that does not fit.
SelectPastTheGap(prefix, h, target) ==
  LET open == {i \in 1..Len(h) : OpensBlock(h, i)}
      Block(i) == SelectSeq(h, LAMBDA m : m.n >= h[i].n /\ \A j \in open : j > i => m.n < h[j].n)
  IN  FoldRight(LAMBDA i, chosen : IF i \in open /\ Size(prefix \o Block(i) \o chosen) <= target
                                   THEN Block(i) \o chosen ELSE chosen,
                [i \in 1..Len(h) |-> i], <<>>)

\* Mutant of Select: the prefix is not counted.
SelectUnprefixed(prefix, h, target) ==
  LET fit == {i \in 1..Len(h) : OpensBlock(h, i) /\ Size(SubSeq(h, i, Len(h))) <= target}
  IN  IF fit = {} THEN <<>> ELSE SubSeq(h, CHOOSE i \in fit : \A j \in fit : i <= j, Len(h))

(* The newest blocks that fit the target with the prefix; if not even the  *)
(* last one does, that one shortened as far as it goes.                    *)
Select(prefix, h, target) ==
  LET Fits(s) == Size(prefix \o s) <= target
      From(i) == SubSeq(h, i, Len(h))
      open == {i \in 1..Len(h) : OpensBlock(h, i)}
      fit == {i \in open : Fits(From(i))}
      last == From(CHOOSE i \in open : \A j \in open : j <= i)
      least == [i \in DOMAIN last |-> Shortened(last[i], Limits.least, Limits.least)]
  IN  CASE fit # {} -> From(CHOOSE i \in fit : \A j \in fit : i <= j)
        [] fit = {} /\ open # {} /\ Fits(least) -> least
        [] OTHER -> <<>>

(* compact_message_history: whatever holds the marker is an old            *)
(* checkpoint, even an answer or a result that quotes it.                  *)
Quoted(ms) == \E i \in DOMAIN ms : ms[i].mark /\ ms[i].n # 0

Compacted(ms, size, target, limit, retain) ==
  LET known == Among(ms, {m \in ToSet(ms) : ~m.mark})
      base == Among(known, {m \in ToSet(known) : Pinned(known, m)})
      rest == Among(known, {m \in ToSet(known) : ~Pinned(known, m)})
      assistantLimit == IF limit > Limits.forced THEN limit ELSE Limits.forced
      history == [i \in DOMAIN rest |-> Shortened(rest[i], limit, assistantLimit)]
      prefix == Append(base, Checkpoint(size))
  IN  prefix \o (IF retain THEN Select(prefix, history, target) ELSE <<>>)

(* _compact_context takes what is smaller, or without recent history       *)
(* whatever removes a message; <<>> stands for no compaction.              *)
Compaction(ms, size, target, limit, retain) ==
  LET new == Compacted(ms, size, target, limit, retain)
      removed == Len(ms) > Len(new) - 1
  IN  IF Size(new) < Size(ms) \/ (~retain /\ removed) THEN new ELSE <<>>

---------------------------------------------------------------------------
(* Answers.  A turn is its text, its calls and its invalid calls.  A       *)
(* parser yields one turn, or none where it raises an exception.           *)

Turn(text, calls, invalid) == [text |-> text, calls |-> calls, invalid |-> invalid]
Count(r, kinds) == Cardinality({i \in DOMAIN r : r[i] \in kinds})
Texts == {"text", "json"}

(* parse_json_fallback: a model without tools names one in JSON.           *)
Fallback(r, calls) == IF ~native /\ calls = 0 /\ Among(r, Texts) = <<"json">>
                      THEN 1 ELSE calls

(* The loops over the content blocks of chat completions, responses,       *)
(* messages and Ollama.  A block that is no object is an exception.        *)
ChatTurn(r) ==
  {t \in {Turn(Count(r, Texts) > 0, Fallback(r, Count(r, {"call", "unknown"})), Count(r, {"malformed"}))} :
     Count(r, {"junk"}) = 0}

(* parse_openai_responses_turn passes over what it does not know.          *)
ResponsesTurn(r) ==
  {Turn(Count(r, Texts) > 0, Fallback(r, Count(r, {"call", "unknown"})), Count(r, {"malformed"}))}

(* parse_gemini_turn                                                       *)
GeminiTurn(r) == ResponsesTurn(r)

(* parse_codex_sse_turn: the stream may end before the response completes, *)
(* with the items done so far, or with pieces of text only.                *)
CodexTurn(r, completed, pieces) ==
  CASE completed \/ r # <<>> -> ResponsesTurn(r)
    [] ~completed /\ r = <<>> /\ pieces -> {Turn(TRUE, calls, 0) : calls \in 0..(IF native THEN 0 ELSE 1)}
    [] OTHER -> {}

(* parse_claude_code_turn: a name outside the catalog is an invalid call.  *)
ClaudeTurn(r) ==
  {Turn(Count(r, Texts) > 0, Count(r, {"call"}), Count(r, {"malformed", "unknown", "junk"}))}

(* The calls of a structured answer, by their places: what is no text.     *)
Structured(r) == {i \in DOMAIN r : r[i] \notin Texts}

(* The first ones, up to the limit.                                        *)
Taken(r) == {i \in Structured(r) : Cardinality({j \in Structured(r) : j <= i}) <= BatchLimit}
CountTaken(r, kinds) == Cardinality({i \in Taken(r) : r[i] \in kinds})

\* Mutant of AntigravityTurn: what exceeds the limit is cut off.
CutAntigravityTurn(r) ==
  {Turn(Count(r, Texts) > 0, CountTaken(r, {"call"}), CountTaken(r, {"malformed", "unknown", "junk"}))}

(* parse_antigravity_turn: what exceeds the limit is one invalid call.     *)
AntigravityTurn(r) ==
  {Turn(Count(r, Texts) > 0, CountTaken(r, {"call"}),
        CountTaken(r, {"malformed", "unknown", "junk"})
        + IF Cardinality(Structured(r)) > BatchLimit THEN 1 ELSE 0)}

(* The turns that an answer may become, with the calls it names, and       *)
(* whether it broke off before all of them had arrived.                    *)
Answer(r, parsed, broken) ==
  {[turn |-> turn, broken |-> broken,
    named |-> Count(r, {"call", "malformed", "unknown"})
              + IF wire \in {"claude", "antigravity"} THEN Count(r, {"junk"}) ELSE 0] : turn \in parsed}

CodexAnswers(r) == UNION {Answer(r, CodexTurn(SubSeq(r, 1, k), k = Len(r), pieces), k < Len(r)) :
                            k \in 0..Len(r), pieces \in BOOLEAN}

AnswersTo(r) == CASE wire = "chat" -> Answer(r, ChatTurn(r), FALSE)
                  [] wire = "codex" -> CodexAnswers(r)
                  [] wire = "gemini" -> Answer(r, GeminiTurn(r), FALSE)
                  [] wire = "claude" -> Answer(r, ClaudeTurn(r), FALSE)
                  [] wire = "antigravity" -> Answer(r, AntigravityTurn(r), FALSE)

Answers == UNION {AnswersTo(r) : r \in Responses}

---------------------------------------------------------------------------
(* What each provider is sent.                                             *)

Uses(m) == [i \in 1..m.calls |-> <<"use", <<m.n, i>>>>]
Said(m) == IF m.text THEN <<<<"text", <<0, 0>>>>>> ELSE <<>>
Parts(m) == IF m.role = "tool" THEN <<<<"result", m.of>>>> ELSE Said(m) \o Uses(m)

(* openai_responses_input: one flat list of items.                         *)
ResponsesInput(ms) == FoldLeft(LAMBDA items, m : items \o Parts(m), <<>>, ms)

(* A tool's result is the user's, and messages of one side in a row become *)
(* one.                                                                    *)
Side(m) == IF m.role = "tool" THEN "user" ELSE m.role
Merged(said, m) ==
  IF said # <<>> /\ Last(said).role = Side(m)
  THEN [said EXCEPT ![Len(said)].parts = @ \o Parts(m)]
  ELSE Append(said, [role |-> Side(m), parts |-> Parts(m)])
Merge(ms) == FoldLeft(Merged, <<>>, ms)

Spoken(ms) == {m \in ToSet(ms) : m.role # "system"}

(* anthropic_input keeps a message that says nothing.                      *)
AnthropicInput(ms) == Merge(Among(ms, Spoken(ms)))

(* gemini_input leaves it out, and calls the assistant "model".            *)
GeminiInput(ms) == Merge(Among(ms, {m \in Spoken(ms) : Parts(m) # <<>>}))

---------------------------------------------------------------------------
(* The loop.                                                               *)

TalkInit ==
  /\ wire \in Wires /\ native \in BOOLEAN
  /\ wire = "antigravity" => native
  /\ talk = Opening /\ stamp = 2
  /\ place = "turn" /\ turns = 0 /\ recoveries = 0 /\ policies = 0
  /\ asked = [named |-> 0, run |-> 0, broken |-> FALSE] /\ mistaken = FALSE

Kept == UNCHANGED <<wire, native>>

Told(notices) == [i \in 1..notices |-> Message(stamp + i, "user", 1)]

(* _compact_reason: the size, or from Emergency on an estimate of tokens.  *)
Reason(size, tokens) == size >= Soft \/ (size >= Emergency /\ tokens)

(* The top of the loop: up to two notices, then perhaps a compaction.      *)
BeginTurn ==
  /\ place = "turn"
  /\ \E notices \in 0..Notices, tokens \in BOOLEAN, size \in CheckpointSizes(Target) :
       LET said == talk \o Told(notices)
           compact == Compaction(said, size, Target, Limits.soft, TRUE)
           compacts == Reason(Size(said), tokens) /\ compact # <<>>
       IN  /\ stamp' = stamp + notices
           /\ talk' = IF compacts THEN compact ELSE said
           /\ mistaken' = (mistaken \/ (compacts /\ Quoted(said)))
  /\ place' = "request" /\ turns' = turns + 1 /\ recoveries' = 0 /\ policies' = 0
  /\ UNCHANGED asked /\ Kept

(* ProviderContextLengthError: twice, and smaller each time.               *)
ContextRejected ==
  LET half == Emergency \div 2^recoveries
      target == IF half > Floor THEN half ELSE Floor
  IN
  /\ place = "request"
  /\ \E size \in CheckpointSizes(target) :
       LET compact == Compaction(talk, size, target, Limits.forced, TRUE) IN
       IF recoveries < 2 /\ compact # <<>>
       THEN /\ talk' = compact /\ recoveries' = recoveries + 1 /\ UNCHANGED place
            /\ mistaken' = (mistaken \/ Quoted(talk))
       ELSE place' = "done" /\ UNCHANGED <<talk, recoveries, mistaken>>
  /\ UNCHANGED <<turns, stamp, policies, asked>> /\ Kept

(* ProviderPolicyRejectionError: once, without recent history.             *)
PolicyRejected ==
  /\ place = "request"
  /\ \E size \in CheckpointSizes(PolicyTarget) :
       LET compact == Compaction(talk, size, PolicyTarget, Limits.forced, FALSE) IN
       IF policies < 1 /\ compact # <<>>
       THEN /\ talk' = compact \o Told(1)
            /\ stamp' = stamp + 1 /\ policies' = policies + 1 /\ UNCHANGED place
       ELSE place' = "done" /\ UNCHANGED <<talk, stamp, policies>>
  /\ UNCHANGED <<turns, recoveries, asked, mistaken>> /\ Kept

(* The answer and, if it names calls, their results in their order.  An    *)
(* answer with an invalid call is repaired, a final may be rejected.       *)
Answered ==
  /\ place = "request" /\ turns <= MaxTurns
  /\ \E answer \in Answers, size \in AnswerSizes :
       LET turn == answer.turn
           n == stamp + 1
           run == IF turn.invalid > 0 THEN 0 ELSE turn.calls
       IN
       /\ asked' = [named |-> answer.named, run |-> run, broken |-> answer.broken]
       /\ \E marks \in SUBSET (0..run), sizes \in [1..run -> ResultSizes] :
            /\ 0 \in marks => turn.text
            /\ talk' = Append(talk, Assistant(n, size, turn.text \/ turn.invalid > 0, 0 \in marks, run))
                         \o IF run = 0 THEN <<Message(n + 1, "user", 1)>>
                            ELSE [i \in 1..run |-> Result(n + i, sizes[i], i \in marks, n, i)]
       /\ stamp' = n + IF run = 0 THEN 1 ELSE run
  /\ place' = "turn"
  /\ UNCHANGED <<turns, recoveries, policies, mistaken>> /\ Kept

(* The limit of calls or a cancellation cuts the batch, and the loop ends. *)
BatchCut ==
  /\ place = "request"
  /\ \E answer \in Answers :
       /\ answer.turn.invalid = 0
       /\ \E run \in 0..(answer.turn.calls - 1) :
            asked' = [named |-> answer.named, run |-> run, broken |-> answer.broken]
  /\ place' = "done"
  /\ UNCHANGED <<talk, turns, stamp, recoveries, policies, mistaken>> /\ Kept

(* Final, cancelled, out of budget, or an exception.                       *)
TalkEnds ==
  /\ place # "done" /\ place' = "done"
  /\ UNCHANGED <<talk, turns, stamp, recoveries, policies, asked, mistaken>> /\ Kept

TalkNext == BeginTurn \/ ContextRejected \/ PolicyRejected \/ Answered \/ BatchCut \/ TalkEnds

TalkSpec == TalkInit /\ [][TalkNext]_talkVars

---------------------------------------------------------------------------
(* Properties.                                                             *)

ItemsPaired(items) ==
  \A i \in DOMAIN items :
    /\ items[i][1] = "result" => \E j \in 1..(i - 1) : items[j] = <<"use", items[i][2]>>
    /\ items[i][1] = "use" => \E j \in (i + 1)..Len(items) : items[j] = <<"result", items[i][2]>>

(* What the parts of one kind are about.                                   *)
Named(parts, kind) == {p[2] : p \in {q \in ToSet(parts) : q[1] = kind}}

(* The roles alternate, the user first; the results of the calls of one    *)
(* message open the next one, and nothing else is a result.                *)
TurnsPaired(said) ==
  /\ said # <<>> /\ said[1].role = "user"
  /\ \A i \in DOMAIN said :
       LET uses == IF i = 1 THEN {} ELSE Named(said[i - 1].parts, "use")
       IN  /\ i > 1 => said[i].role # said[i - 1].role
           /\ Named(said[i].parts, "result") = uses
           /\ \A k \in 1..Cardinality(uses) : said[i].parts[k][1] = "result"
  /\ Named(Last(said).parts, "use") = {}

Paired ==
  /\ ItemsPaired(ResponsesInput(talk))
  /\ TurnsPaired(AnthropicInput(talk))
  /\ TurnsPaired(GeminiInput(talk))

(* Whatever has been compacted, shortened, repaired or rejected on the way *)
(* to a request, each provider is sent a well formed conversation: every   *)
(* call with its one result where that provider wants it.  Only where a    *)
(* compaction has dropped an answer or a result that quotes the marker, a  *)
(* call may be left without its result.                                    *)
WiresPaired == place = "request" /\ ~mistaken => Paired

(* The README's promise, whatever is quoted.                               *)
PairedWhateverQuoted == place = "request" => Paired

(* No request reaches the soft limit, however large the outputs of a turn  *)
(* and the notices after it, and whatever was retried.                     *)
SentBounded == place = "request" => Size(talk) < Soft

(* The calls an answer names are all run, or none of them is: one call cut *)
(* short, unknown or beyond the limit takes the others with it.  Only a    *)
(* stream that breaks off between two calls, and a batch that the limit or *)
(* a cancellation cuts, leaving no next turn, run some of them.            *)
AllOrNothing == place = "done" \/ asked.broken \/ asked.run = 0 \/ asked.run >= asked.named

(* A compaction retires the oldest of the conversation: what it leaves is  *)
(* the opening, one checkpoint and after it an unbroken end of the rest -- *)
(* as long as none has taken a quote of the marker for a checkpoint.       *)
RetiresOldest ==
  [][LET kept == {talk'[i].n : i \in DOMAIN talk'}
         checkpoints == {i \in DOMAIN talk' : talk'[i].mark /\ talk'[i].n = 0}
     IN  ~mistaken' =>
           /\ SubSeq(talk', 1, 2) = Opening
           /\ checkpoints \subseteq {3}
           /\ \A i \in DOMAIN talk : \A j \in DOMAIN talk :
                (j > i /\ i > 2 /\ talk[i].n \in kept \ {0}) => talk[j].n \in kept]_talkVars
=============================================================================
