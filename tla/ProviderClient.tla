--------------------------- MODULE ProviderClient ---------------------------
(***************************************************************************)
(* The requests that the calls of one ModelClient send: the retry loops of *)
(* runner/providers.py over HTTP, the Claude Agent SDK and the Antigravity *)
(* CLI, the one forced refresh of a Codex login, and the Runner's account  *)
(* of requests (AgentEngine._on_provider_request), asked before each one.  *)
(* What a request says and how its answer becomes a turn are Conversation's. *)
(***************************************************************************)
EXTENDS Naturals

CONSTANTS MaxRetries,  \* ModelClient.max_retries
          HardLimit,   \* hard_provider_requests
          MaxCalls     \* bound: calls of complete()

ASSUME ClientAssumption == MaxRetries \in Nat /\ HardLimit \in Nat /\ MaxCalls \in Nat

VARIABLES provider,    \* of the client's profile
          pc,          \* where the call stands
          transport,   \* what carries it
          attempt,     \* attempts of the present loop that have failed
          refreshed,   \* the call has forced a refresh
          preflighted, \* _antigravity_preflight_complete
          charged,     \* AgentEngine.provider_requests
          sent,        \* request_attempts
          calls,       \* calls begun
          result,      \* how the last call ended
          marked,      \* the login was marked needs_reauth
          before,      \* history: sent when the call began
          failed       \* history: transient failures the call has met

clientVars == <<provider, pc, transport, attempt, refreshed, preflighted, charged, sent, calls,
                result, marked, before, failed>>

Served == {"openai", "responses", "codex", "gemini", "antigravity", "anthropic", "ollama"}
Errors == {"context", "policy", "response"}   \* raised, and final for this request
Results == Errors \cup {"none", "turn", "transient", "authentication", "credential", "budget", "archive"}

ClientInit ==
  /\ provider \in Served
  /\ pc = "idle" /\ transport = "http" /\ attempt = 0 /\ refreshed = FALSE
  /\ preflighted = FALSE /\ charged = 0 /\ sent = 0 /\ calls = 0
  /\ result = "none" /\ marked = FALSE /\ before = 0 /\ failed = 0

Ledger == UNCHANGED <<charged, sent>>
Call == UNCHANGED <<provider, preflighted, calls, before>>

End(r) == /\ pc' = "idle" /\ result' = r
          /\ UNCHANGED <<transport, attempt, refreshed, failed>>

---------------------------------------------------------------------------
(* complete(): a call begins with a credential of its provider, or ends.   *)

Begin(how) ==
  /\ pc = "idle" /\ calls < MaxCalls
  /\ calls' = calls + 1 /\ before' = sent /\ failed' = 0
  /\ attempt' = 0 /\ refreshed' = FALSE /\ transport' = how /\ marked' = FALSE
  /\ UNCHANGED <<provider, preflighted, charged, sent>>
  /\ \/ pc' = (IF how = "agy" /\ ~preflighted THEN "preflight" ELSE "request") /\ result' = "none"
     \/ provider # "ollama" /\ pc' = "idle" /\ result' = "credential"  \* CredentialError, or the wrong kind

OpenAICompatible == provider = "openai" /\ Begin("http")
OpenAIResponses == provider = "responses" /\ Begin("http")
CodexResponses == provider = "codex" /\ Begin("codex")
Gemini == provider = "gemini" /\ Begin("http")
Antigravity == provider = "antigravity" /\ Begin("agy")
Anthropic == provider = "anthropic" /\ \E how \in {"http", "claude"} : Begin(how)  \* by the credential
Ollama == provider = "ollama" /\ Begin("http")

Complete == OpenAICompatible \/ OpenAIResponses \/ CodexResponses \/ Gemini \/ Antigravity \/ Anthropic \/ Ollama

(* _mark_credential_needs_reauth, then ProviderAuthenticationError.        *)
LoginRefused == marked' = TRUE /\ End("authentication")

(* discover_antigravity_models, once in a client's life.                   *)
Preflight ==
  /\ pc = "preflight"
  /\ \/ /\ preflighted' = TRUE /\ pc' = "request"
        /\ UNCHANGED <<result, transport, attempt, refreshed, failed, marked>>
     \/ LoginRefused /\ UNCHANGED preflighted
     \/ \E r \in {"transient", "response"} : End(r) /\ UNCHANGED <<marked, preflighted>>
  /\ UNCHANGED <<provider, calls, before>> /\ Ledger

---------------------------------------------------------------------------
(* on_request: the engine refuses what would pass the hard limit, charges  *)
(* it, and archives it; the archive may fail.                              *)
Send ==
  /\ pc = "request" /\ Call /\ UNCHANGED marked
  /\ IF sent + 1 > HardLimit
     THEN End("budget") /\ Ledger
     ELSE /\ charged' = sent + 1
          /\ \/ /\ sent' = sent + 1 /\ pc' = "sent"
                /\ UNCHANGED <<result, transport, attempt, refreshed, failed>>
             \/ End("archive") /\ UNCHANGED sent

(* The end of one attempt of a loop by a transient failure.                *)
Retry ==
  /\ failed' = failed + 1 /\ UNCHANGED <<transport, refreshed>>
  /\ IF attempt < MaxRetries
     THEN pc' = "request" /\ attempt' = attempt + 1 /\ UNCHANGED result
     ELSE pc' = "idle" /\ result' = "transient" /\ UNCHANGED attempt

(* _post: a transport error, a retryable status, or a Codex stream whose   *)
(* error is retryable.                                                     *)
HttpFails ==
  /\ pc = "sent" /\ transport \in {"http", "codex"}
  /\ Retry /\ Call /\ Ledger /\ UNCHANGED marked

(* Anything else is an answer: raise_provider_status, then the parser.     *)
HttpAnswer ==
  /\ pc = "sent" /\ transport \in {"http", "codex"}
  /\ \E r \in Errors \cup {"turn"} : End(r)
  /\ Call /\ Ledger /\ UNCHANGED marked

(* 401 or 403                                                              *)
HttpRejected ==
  /\ pc = "sent" /\ transport \in {"http", "codex"}
  /\ IF transport = "codex" /\ ~refreshed
     THEN pc' = "refresh" /\ UNCHANGED <<result, transport, attempt, refreshed, failed>>
     ELSE End("response")
  /\ Call /\ Ledger /\ UNCHANGED marked

(* _codex_responses: the credential is refreshed by force and the request  *)
(* posted once more, with all its retries.                                 *)
RefreshCodex ==
  /\ pc = "refresh"
  /\ \/ pc' = "request" /\ attempt' = 0 /\ refreshed' = TRUE /\ UNCHANGED <<result, transport, failed>>
     \/ \E r \in {"credential", "response"} : End(r)
  /\ Call /\ Ledger /\ UNCHANGED marked

(* claude_code_result_error and the exceptions of the SDK.                 *)
ClaudeFails == pc = "sent" /\ transport = "claude" /\ Retry /\ Call /\ Ledger /\ UNCHANGED marked

ClaudeAnswer ==
  /\ pc = "sent" /\ transport = "claude" /\ Call /\ Ledger
  /\ \/ \E r \in Errors \cup {"turn"} : End(r) /\ UNCHANGED marked
     \/ LoginRefused

(* antigravity_process_error.  After a timeout the catalog is asked whether *)
(* the login still holds: a call that waits for a login times out as well. *)
AntigravityFails == pc = "sent" /\ transport = "agy" /\ Retry /\ Call /\ Ledger /\ UNCHANGED marked

AntigravityRetriesAll ==
  /\ pc = "sent" /\ transport = "agy" /\ Call /\ Ledger /\ UNCHANGED marked
  /\ \/ End("turn")
     \/ /\ UNCHANGED <<transport, refreshed, failed>>
        /\ IF attempt < MaxRetries
           THEN pc' = "request" /\ attempt' = attempt + 1 /\ UNCHANGED result
           ELSE pc' = "idle" /\ result' = "response" /\ UNCHANGED attempt

AntigravityAnswer ==
  /\ pc = "sent" /\ transport = "agy" /\ Call /\ Ledger
  /\ \/ \E r \in Errors \cup {"turn"} : End(r) /\ UNCHANGED marked
     \/ LoginRefused

AntigravityTimesOut ==
  /\ pc = "sent" /\ transport = "agy"
  /\ pc' = "probe" /\ UNCHANGED <<result, transport, attempt, refreshed, failed>>
  /\ Call /\ Ledger /\ UNCHANGED marked

Probe ==
  /\ pc = "probe" /\ Call /\ Ledger
  /\ \/ LoginRefused
     \/ Retry /\ UNCHANGED marked

ClientNext == \/ Complete \/ Preflight \/ Send \/ HttpFails \/ HttpAnswer \/ HttpRejected
              \/ RefreshCodex \/ ClaudeFails \/ ClaudeAnswer
              \/ AntigravityFails \/ AntigravityAnswer \/ AntigravityTimesOut \/ Probe

ClientSpec == ClientInit /\ [][ClientNext]_clientVars

---------------------------------------------------------------------------
(* Properties.                                                             *)

ClientTypeOK ==
  /\ provider \in Served
  /\ pc \in {"idle", "preflight", "request", "sent", "refresh", "probe"}
  /\ transport \in {"http", "codex", "agy", "claude"}
  /\ attempt \in 0..MaxRetries /\ failed \in Nat
  /\ refreshed \in BOOLEAN /\ preflighted \in BOOLEAN /\ marked \in BOOLEAN
  /\ charged \in 0..HardLimit /\ sent \in 0..HardLimit /\ before \in 0..HardLimit
  /\ calls \in 0..MaxCalls
  /\ result \in Results

(* Every request of a call but the first is owed to a transient failure or *)
(* to the one refresh of a Codex login, by whichever transport and loop,   *)
(* and every request was charged to the run before it was sent, within its *)
(* limit: at most one is charged that was not sent.                        *)
RequestsAccounted ==
  /\ sent - before <= 1 + failed + (IF refreshed THEN 1 ELSE 0)
  /\ failed <= (MaxRetries + 1) * (IF refreshed THEN 2 ELSE 1)
  /\ refreshed => transport = "codex"
  /\ sent <= charged /\ charged <= sent + 1 /\ charged <= HardLimit
=============================================================================
