---------------------------- MODULE Credentials ----------------------------
(***************************************************************************)
(* Provider credentials, the model profiles that use them and the runs     *)
(* that use the profiles: the handlers of api/credentials.py and           *)
(* api/model_profiles.py, create_run, and the resolution and refresh of    *)
(* credentials.py, as transactions on rows of PostgreSQL.                  *)
(*                                                                         *)
(* A transaction keeps its copy of the row it has locked (SELECT ... FOR   *)
(* UPDATE) in tx until it commits.  A statement without FOR UPDATE reads   *)
(* what is committed and holds nothing.  Writing a row that refers to a    *)
(* credential takes PostgreSQL's key-share lock on the credential, which   *)
(* waits for the FOR UPDATE of another transaction.                        *)
(*                                                                         *)
(* An OAuth refresh is an HTTP exchange made while the row is locked and   *)
(* before the commit.  The provider may rotate the refresh token: it       *)
(* accepts only the last one it has issued.  Nobody but this deployment    *)
(* uses a login here, and the provider does not revoke it.                 *)
(***************************************************************************)
EXTENDS Naturals, FiniteSets

CONSTANTS Creds,        \* names for rows of provider_credentials
          Profiles,     \* names for rows of model_profiles
          Runs,         \* names for rows of benchmark_runs
          Clients,      \* API requests in flight
          Asked,        \* the providers that requests ask for
          None,         \* no row
          MaxRotations, \* bound: refresh tokens the provider issues per login
          MaxAborts     \* bound: transactions that end without a commit

ASSUME BoundAssumption == MaxRotations \in Nat /\ MaxAborts \in Nat
ASSUME AskedAssumption == Asked \subseteq {"codex", "antigravity", "gemini", "anthropic", "openai"}
ASSUME NamesAssumption == /\ None \notin Creds \cup Profiles \cup Clients \cup Runs
                          /\ Clients \cap Runs = {}

VARIABLES cred,   \* provider_credentials
          prof,   \* model_profiles
          run,    \* benchmark_runs
          tx,     \* each actor's transaction
          lock,   \* holder of each row lock
          live,   \* the provider's side: the refresh token it accepts
          lost,   \* history: a rotated token was never committed
          aborts

vars == <<cred, prof, run, tx, lock, live, lost, aborts>>

Actors == Clients \cup Runs    \* an active run has a thread of the Runner
Rows == Creds \cup Profiles

Kinds == {"api_key", "antigravity_cli", "anthropic_oauth", "codex_oauth"}
Providers == {"codex", "antigravity", "gemini", "anthropic", "openai"}
Statuses == {"unchecked", "ready", "needs_reauth", "error"}

CredRow == [kind: Kinds, status: Statuses, born: BOOLEAN, archived: BOOLEAN,
            refresh: Nat, access: {"fresh", "expiring"}]
ProfRow == [provider: Providers, credential: Creds \cup {None},
            born: BOOLEAN, enabled: BOOLEAN, archived: BOOLEAN]
RunRow == [status: {"none", "active", "ended"},
           candidate: Profiles \cup {None}, judge: Profiles \cup {None}]

NoCred == [kind |-> "api_key", status |-> "unchecked", born |-> FALSE,
           archived |-> FALSE, refresh |-> 0, access |-> "fresh"]
NoProf == [provider |-> "openai", credential |-> None, born |-> FALSE,
           enabled |-> FALSE, archived |-> FALSE]

Ops == {"none", "update", "refresh", "sync", "delete", "resolve", "mark", "attach",
        "create_profile", "update_profile", "delete_profile", "create_run"}
Places == {"idle", "read", "locked", "exchange", "catalog", "commit"}

Tx == [op: Ops, pc: Places, c: Creds \cup {None}, p: Profiles \cup {None},
       judge: Profiles \cup {None}, row: CredRow, prow: ProfRow,
       forced: BOOLEAN, ok: BOOLEAN]

Idle == [op |-> "none", pc |-> "idle", c |-> None, p |-> None, judge |-> None,
         row |-> NoCred, prow |-> NoProf, forced |-> FALSE, ok |-> FALSE]

Here(c) == cred[c].born /\ ~cred[c].archived
Open(p) == prof[p].born /\ ~prof[p].archived

---------------------------------------------------------------------------
(* What goes with what.                                                    *)

(* validate_credential_compatibility: the kinds a provider's profile takes. *)
KindsOf == [codex |-> {"codex_oauth"}, antigravity |-> {"antigravity_cli"},
            gemini |-> {"api_key"}, openai |-> {"api_key"},
            anthropic |-> {"api_key", "anthropic_oauth"}]

NeedsCredential == {"antigravity", "codex", "gemini"}

(* The credential a profile row names suits its provider.                  *)
Suits(row, c) == IF c = None THEN row.provider \notin NeedsCredential
                             ELSE cred[c].kind \in KindsOf[row.provider]

(* The profiles that a deletion of c counts.                               *)
UsersOf(c) == {p \in Profiles : Open(p) /\ prof[p].credential = c}

(* The active runs that a deletion of p counts.                            *)
ActiveRunsOf(p) == {r \in Runs : run[r].status = "active" /\ p \in {run[r].candidate, run[r].judge}}

Init == /\ cred = [c \in Creds |-> NoCred]
        /\ prof = [p \in Profiles |-> NoProf]
        /\ run = [r \in Runs |-> [status |-> "none", candidate |-> None, judge |-> None]]
        /\ tx = [a \in Actors |-> Idle]
        /\ lock = [x \in Rows |-> None]
        /\ live = [c \in Creds |-> 0]
        /\ lost = [c \in Creds |-> FALSE]
        /\ aborts = 0

---------------------------------------------------------------------------
(* Transactions.                                                           *)

At(a, op, pc) == tx[a].op = op /\ tx[a].pc = pc

Rest == UNCHANGED <<live, lost, aborts>>

Unlock(a) == [x \in Rows |-> IF lock[x] = a THEN None ELSE lock[x]]

(* Rollback: an HTTPException before the commit.                           *)
Refuse(a) == /\ tx' = [tx EXCEPT ![a] = Idle]
             /\ lock' = Unlock(a)
             /\ UNCHANGED <<cred, prof, run>> /\ Rest

(* The process dies, or an exception nobody expects unwinds the request.   *)
(* A rotation that was not committed is gone.                              *)
Abort(a) ==
  /\ tx[a].pc # "idle"
  /\ aborts < MaxAborts
  /\ aborts' = aborts + 1
  /\ lost' = [c \in Creds |-> lost[c] \/ (lock[c] = a /\ tx[a].row.refresh # cred[c].refresh)]
  /\ tx' = [tx EXCEPT ![a] = Idle]
  /\ lock' = Unlock(a)
  /\ UNCHANGED <<cred, prof, run, live>>

---------------------------------------------------------------------------
(* New credentials.  The names they must have are left out.                *)

Insert(c, kind, status, access) ==
  /\ ~cred[c].born
  /\ cred' = [cred EXCEPT ![c] = [NoCred EXCEPT !.born = TRUE, !.kind = kind,
                                                !.status = status, !.access = access]]

(* create_credential takes secrets only.                                   *)
CreateCredential ==
  /\ \E c \in Creds, kind \in {"api_key", "anthropic_oauth"} : Insert(c, kind, "ready", "fresh")
  /\ UNCHANGED <<prof, run, tx, lock>> /\ Rest

(* import_credential: an auth.json names a refresh token; its access token *)
(* may be missing or old.                                                  *)
ImportCredential ==
  /\ \E c \in Creds, access \in {"fresh", "expiring"} :
        Insert(c, "codex_oauth", "unchecked", access)
  /\ UNCHANGED <<prof, run, tx, lock>> /\ Rest

(* poll_codex_oauth, once the user has authorized the device.  While the   *)
(* login is pending, denied, expired or another account's, nothing changes.*)
PollCodex ==
  /\ \E c \in Creds : Insert(c, "codex_oauth", "ready", "fresh")
  /\ UNCHANGED <<prof, run, tx, lock>> /\ Rest

(* attach_antigravity_credential looks for one, then inserts.              *)
CheckAttach(a) ==
  /\ tx[a].pc = "idle"
  /\ ~\E c \in Creds : Here(c) /\ cred[c].kind = "antigravity_cli"
  /\ tx' = [tx EXCEPT ![a] = [Idle EXCEPT !.op = "attach", !.pc = "commit"]]
  /\ UNCHANGED <<cred, prof, run, lock>> /\ Rest

Attach(a) ==
  /\ At(a, "attach", "commit")
  /\ \E c \in Creds : Insert(c, "antigravity_cli", "unchecked", "fresh")
  /\ tx' = [tx EXCEPT ![a] = Idle]
  /\ UNCHANGED <<prof, run, lock>> /\ Rest

---------------------------------------------------------------------------
(* A credential, locked.                                                   *)

CountUnlocked(a, op, c) ==
  /\ tx[a].pc = "idle"
  /\ lock[c] = None
  /\ Here(c)
  /\ lock' = IF op = "delete" THEN lock ELSE [lock EXCEPT ![c] = a]
  /\ tx' = [tx EXCEPT ![a] = [Idle EXCEPT !.op = op, !.pc = "locked", !.c = c,
                                          !.row = cred[c], !.ok = op = "delete" /\ UsersOf(c) = {}]]
  /\ UNCHANGED <<cred, prof, run>> /\ Rest

(* owned_credential(lock=True).  A deletion counts the users of the row it *)
(* has locked.                                                             *)
LockCredential(a, op, c) ==
  /\ tx[a].pc = "idle"
  /\ lock[c] = None
  /\ Here(c)
  /\ lock' = [lock EXCEPT ![c] = a]
  /\ tx' = [tx EXCEPT ![a] = [Idle EXCEPT !.op = op, !.pc = "locked", !.c = c,
                                          !.row = cred[c], !.ok = op = "delete" /\ UsersOf(c) = {}]]
  /\ UNCHANGED <<cred, prof, run>> /\ Rest

(* The secret of an OAuth login cannot be typed in.  An update of the name *)
(* alone, or a refused one, leaves the row as it is.                       *)
UpdateCredential(a) ==
  /\ At(a, "update", "locked")
  /\ \/ Refuse(a)
     \/ /\ tx[a].row.kind \in {"api_key", "anthropic_oauth"}
        /\ cred' = [cred EXCEPT ![tx[a].c].status = "ready"]
        /\ tx' = [tx EXCEPT ![a] = Idle]
        /\ lock' = Unlock(a)
        /\ UNCHANGED <<prof, run>> /\ Rest

DeleteCredential(a) ==
  /\ At(a, "delete", "locked")
  /\ IF tx[a].ok
     THEN /\ cred' = [cred EXCEPT ![tx[a].c].status = "error", ![tx[a].c].archived = TRUE]
          /\ tx' = [tx EXCEPT ![a] = Idle]
          /\ lock' = Unlock(a)
          /\ UNCHANGED <<prof, run>> /\ Rest
     ELSE Refuse(a)

---------------------------------------------------------------------------
(* Resolution and refresh.                                                 *)

(* credential_needs_refresh: only a Codex access token expires here.       *)
NeedsRefresh(row) == row.kind = "codex_oauth" /\ row.access = "expiring"

Goes(a, pc, row, ok) == tx' = [tx EXCEPT ![a].pc = pc, ![a].row = row, ![a].ok = ok]

Ready(row) == [row EXCEPT !.status = "ready"]

(* sync_credential_models lists the provider's models after resolving.     *)
Lists(a) == \/ tx[a].op = "sync"
            \/ tx[a].op = "refresh" /\ tx[a].row.kind = "antigravity_cli"

(* resolve_credential under the lock, up to the exchange if it needs one.  *)
Resolve(a) ==
  LET row == tx[a].row IN
  /\ tx[a].pc = "locked" /\ tx[a].op \in {"refresh", "sync", "resolve"}
  /\ IF tx[a].op = "refresh" /\ row.kind = "anthropic_oauth" /\ row.status = "needs_reauth"
     THEN Refuse(a)
     ELSE /\ CASE tx[a].op = "sync" /\ row.kind = "api_key" -> Goes(a, "commit", row, FALSE)
               [] row.kind = "codex_oauth" /\ (tx[a].forced \/ NeedsRefresh(row)) ->
                    Goes(a, "exchange", row, FALSE)
               [] OTHER -> Goes(a, IF Lists(a) THEN "catalog" ELSE "commit", Ready(row), TRUE)
          /\ UNCHANGED <<cred, prof, run, lock>> /\ Rest

(* What the row becomes by the answer of the token endpoint.               *)
Granted(row, token) == [row EXCEPT !.refresh = token, !.access = "fresh", !.status = "ready"]
Unanswered(row) == [row EXCEPT !.status = "error"]         \* transport, HTTP, unusable body
Rejected(row) == [row EXCEPT !.status = "needs_reauth"]    \* reused, expired, revoked

(* refresh_oauth_credential.  The provider may rotate the token and its    *)
(* answer may be lost after that.                                          *)
Exchange(a) ==
  LET c == tx[a].c  row == tx[a].row IN
  /\ tx[a].pc = "exchange"
  /\ \/ /\ row.refresh = live[c]
        /\ \E rotated \in BOOLEAN, answered \in BOOLEAN :
             /\ rotated => live[c] < MaxRotations
             /\ live' = IF rotated THEN [live EXCEPT ![c] = @ + 1] ELSE live
             /\ lost' = [lost EXCEPT ![c] = @ \/ (rotated /\ ~answered)]
             /\ IF answered
                THEN Goes(a, IF Lists(a) THEN "catalog" ELSE "commit", Granted(row, live'[c]), TRUE)
                ELSE Goes(a, "commit", Unanswered(row), FALSE)
     \/ /\ row.refresh # live[c]
        /\ Goes(a, "commit", Rejected(row), FALSE)
        /\ UNCHANGED <<live, lost>>
  /\ UNCHANGED <<cred, prof, run, lock, aborts>>

(* discover_codex_models: one 401 is answered by a forced refresh.  The    *)
(* catalog of Claude Code is fixed, that of Antigravity its CLI's.         *)
Catalog(a) ==
  LET row == tx[a].row IN
  /\ tx[a].pc = "catalog"
  /\ \/ Goes(a, "commit", row, TRUE)
     \/ row.kind = "codex_oauth" /\ ~tx[a].forced
        /\ tx' = [tx EXCEPT ![a].pc = "exchange", ![a].forced = TRUE]
     \/ row.kind = "codex_oauth" /\ Goes(a, "commit", row, FALSE)
     \/ row.kind = "antigravity_cli"
        /\ \E s \in {"needs_reauth", "error"} : Goes(a, "commit", [row EXCEPT !.status = s], FALSE)
  /\ UNCHANGED <<cred, prof, run, lock>> /\ Rest

(* The provider whose profiles a credential's catalog fills.               *)
Provisions == [codex_oauth |-> "codex", anthropic_oauth |-> "anthropic",
               antigravity_cli |-> "antigravity"]

CommitGranted(a) ==
  LET c == tx[a].c IN
  /\ tx[a].pc = "commit" /\ tx[a].op \in {"refresh", "sync", "resolve"}
  /\ cred' = IF tx[a].ok \/ tx[a].row.status # "ready" THEN [cred EXCEPT ![c] = tx[a].row] ELSE cred
  /\ tx' = [tx EXCEPT ![a] = Idle]
  /\ lock' = Unlock(a)
  /\ UNCHANGED <<prof, run>> /\ Rest

(* Both the success and the CredentialError end in session.commit().  A    *)
(* listed catalog may bring a model that has no profile yet.               *)
Commit(a) ==
  LET c == tx[a].c IN
  /\ tx[a].pc = "commit" /\ tx[a].op \in {"refresh", "sync", "resolve"}
  /\ cred' = [cred EXCEPT ![c] = tx[a].row]
  /\ \/ prof' = prof
     \/ /\ Lists(a) /\ tx[a].ok
        /\ \E p \in Profiles :
             /\ ~prof[p].born
             /\ prof' = [prof EXCEPT ![p] = [provider |-> Provisions[tx[a].row.kind], credential |-> c,
                                             born |-> TRUE, enabled |-> TRUE, archived |-> FALSE]]
  /\ tx' = [tx EXCEPT ![a] = Idle]
  /\ lock' = Unlock(a)
  /\ UNCHANGED run /\ Rest

(* Time passes: an access token comes within five minutes of its end.      *)
Expire(c) ==
  /\ Here(c) /\ cred[c].kind = "codex_oauth" /\ cred[c].access = "fresh" /\ lock[c] = None
  /\ cred' = [cred EXCEPT ![c].access = "expiring"]
  /\ UNCHANGED <<prof, run, tx, lock>> /\ Rest

---------------------------------------------------------------------------
(* The Runner's side, for the candidate or the judge of a run.             *)

(* resolve_model_credential reads the profile without a lock ...           *)
ReadProfile(r, p, forced) ==
  /\ tx[r].pc = "idle"
  /\ run[r].status = "active" /\ p \in {run[r].candidate, run[r].judge} \ {None}
  /\ Open(p) /\ prof[p].credential # None
  /\ tx' = [tx EXCEPT ![r] = [Idle EXCEPT !.op = "resolve", !.pc = "read", !.c = prof[p].credential,
                                          !.prow.provider = prof[p].provider, !.forced = forced]]
  /\ UNCHANGED <<cred, prof, run, lock>> /\ Rest

(* ... and then locks the credential.                                      *)
LockForResolve(r) ==
  LET c == tx[r].c IN
  /\ At(r, "resolve", "read")
  /\ lock[c] = None
  /\ Here(c) /\ cred[c].kind \in KindsOf[tx[r].prow.provider]
  /\ lock' = [lock EXCEPT ![c] = r]
  /\ tx' = [tx EXCEPT ![r].pc = "locked", ![r].row = cred[c]]
  /\ UNCHANGED <<cred, prof, run>> /\ Rest

(* credential_unavailable or credential_kind_mismatch                      *)
Unavailable(r) ==
  LET c == tx[r].c IN
  /\ At(r, "resolve", "read")
  /\ lock[c] = None
  /\ ~(Here(c) /\ cred[c].kind \in KindsOf[tx[r].prow.provider])
  /\ Refuse(r)

(* mark_model_credential_needs_reauth, after a CLI has refused a login:    *)
(* it reads without a lock and overwrites the status.                      *)
ReadForMark(r, p) ==
  LET c == prof[p].credential IN
  /\ tx[r].pc = "idle"
  /\ run[r].status = "active" /\ p \in {run[r].candidate, run[r].judge} \ {None}
  /\ c # None /\ Here(c) /\ cred[c].kind \in {"anthropic_oauth", "antigravity_cli"}
  /\ tx' = [tx EXCEPT ![r] = [Idle EXCEPT !.op = "mark", !.pc = "commit", !.c = c]]
  /\ UNCHANGED <<cred, prof, run, lock>> /\ Rest

Mark(r) ==
  /\ At(r, "mark", "commit")
  /\ lock[tx[r].c] = None
  /\ cred' = [cred EXCEPT ![tx[r].c].status = "needs_reauth"]
  /\ tx' = [tx EXCEPT ![r] = Idle]
  /\ UNCHANGED <<prof, run, lock>> /\ Rest

---------------------------------------------------------------------------
(* Profiles.                                                               *)

(* create_model reads the credential it is to use without a lock.          *)
CheckProfile(a, provider, c, enabled) ==
  /\ tx[a].pc = "idle"
  /\ c # None => Here(c)
  /\ Suits([provider |-> provider], c)
  /\ tx' = [tx EXCEPT ![a] = [Idle EXCEPT !.op = "create_profile", !.pc = "commit", !.c = c,
                !.prow = [provider |-> provider, credential |-> c, born |-> TRUE,
                          enabled |-> enabled, archived |-> FALSE]]]
  /\ UNCHANGED <<cred, prof, run, lock>> /\ Rest

(* The foreign key of the INSERT waits for a locked credential.            *)
CreateProfile(a) ==
  LET c == tx[a].c IN
  /\ At(a, "create_profile", "commit")
  /\ c # None => lock[c] = None
  /\ \E p \in Profiles : ~prof[p].born /\ prof' = [prof EXCEPT ![p] = tx[a].prow]
  /\ tx' = [tx EXCEPT ![a] = Idle]
  /\ UNCHANGED <<cred, run, lock>> /\ Rest

(* update_model locks the profile.  Provider and credential may change,    *)
(* one without the other; both are checked against each other at the end.  *)
LockProfile(a, provider, c, enabled) ==
  \E p \in Profiles :
    LET row == [prof[p] EXCEPT !.provider = provider, !.credential = c, !.enabled = enabled] IN
    /\ tx[a].pc = "idle"
    /\ lock[p] = None
    /\ Open(p)
    /\ c # None => Here(c)
    /\ Suits(row, c)
    /\ lock' = [lock EXCEPT ![p] = a]
    /\ tx' = [tx EXCEPT ![a] = [Idle EXCEPT !.op = "update_profile", !.pc = "commit",
                                            !.c = c, !.p = p, !.prow = row]]
    /\ UNCHANGED <<cred, prof, run>> /\ Rest

UpdateProfile(a) ==
  LET c == tx[a].c  p == tx[a].p IN
  /\ At(a, "update_profile", "commit")
  /\ c \notin {None, prof[p].credential} => lock[c] = None
  /\ prof' = [prof EXCEPT ![p] = tx[a].prow]
  /\ tx' = [tx EXCEPT ![a] = Idle]
  /\ lock' = Unlock(a)
  /\ UNCHANGED <<cred, run>> /\ Rest

(* An API key typed into a profile becomes a credential in the transaction *)
(* that creates the profile or, with the profile locked, updates it.       *)
InlineKey ==
  /\ \E c \in Creds, p \in Profiles, provider \in Asked, enabled \in BOOLEAN :
       /\ Insert(c, "api_key", "ready", "fresh")
       /\ "api_key" \in KindsOf[provider]
       /\ \/ ~prof[p].born
          \/ Open(p) /\ lock[p] = None
       /\ prof' = [prof EXCEPT ![p] = [provider |-> provider, credential |-> c, born |-> TRUE,
                                       enabled |-> enabled, archived |-> FALSE]]
  /\ UNCHANGED <<run, tx, lock>> /\ Rest

(* delete_model counts the active runs under the profile's lock.           *)
LockForDelete(a, p) ==
  /\ tx[a].pc = "idle"
  /\ lock[p] = None
  /\ Open(p)
  /\ ActiveRunsOf(p) = {}
  /\ lock' = [lock EXCEPT ![p] = a]
  /\ tx' = [tx EXCEPT ![a] = [Idle EXCEPT !.op = "delete_profile", !.pc = "commit", !.p = p]]
  /\ UNCHANGED <<cred, prof, run>> /\ Rest

DeleteProfile(a) ==
  /\ At(a, "delete_profile", "commit")
  /\ prof' = [prof EXCEPT ![tx[a].p].archived = TRUE, ![tx[a].p].enabled = FALSE,
                          ![tx[a].p].credential = None]
  /\ tx' = [tx EXCEPT ![a] = Idle]
  /\ lock' = Unlock(a)
  /\ UNCHANGED <<cred, run>> /\ Rest

---------------------------------------------------------------------------
(* Runs.                                                                   *)

CheckForRun(a, p, judge) ==
  LET named == {p, judge} \ {None} IN
  /\ tx[a].pc = "idle"
  /\ p # judge
  /\ \A q \in named : lock[q] = None /\ Open(q) /\ prof[q].enabled
  /\ tx' = [tx EXCEPT ![a] = [Idle EXCEPT !.op = "create_run", !.pc = "commit", !.p = p, !.judge = judge]]
  /\ UNCHANGED <<cred, prof, run, lock>> /\ Rest

(* create_run locks the profiles it names, in the order of their ids.      *)
LockForRun(a, p, judge) ==
  LET named == {p, judge} \ {None} IN
  /\ tx[a].pc = "idle"
  /\ p # judge
  /\ \A q \in named : lock[q] = None /\ Open(q) /\ prof[q].enabled
  /\ lock' = [x \in Rows |-> IF x \in named THEN a ELSE lock[x]]
  /\ tx' = [tx EXCEPT ![a] = [Idle EXCEPT !.op = "create_run", !.pc = "commit", !.p = p, !.judge = judge]]
  /\ UNCHANGED <<cred, prof, run>> /\ Rest

CreateRun(a) ==
  /\ At(a, "create_run", "commit")
  /\ \E r \in Runs :
       /\ run[r].status = "none"
       /\ run' = [run EXCEPT ![r] = [status |-> "active", candidate |-> tx[a].p, judge |-> tx[a].judge]]
  /\ tx' = [tx EXCEPT ![a] = Idle]
  /\ lock' = Unlock(a)
  /\ UNCHANGED <<cred, prof>> /\ Rest

(* The run comes to its end, or is cancelled while its thread is anywhere  *)
(* in a resolution.                                                        *)
EndRun(r) ==
  /\ run[r].status = "active"
  /\ run' = [run EXCEPT ![r].status = "ended"]
  /\ UNCHANGED <<cred, prof, tx, lock>> /\ Rest

---------------------------------------------------------------------------
Request(a) ==
  \/ CheckAttach(a) \/ Attach(a)
  \/ \E c \in Creds, op \in {"update", "refresh", "sync", "delete"} : LockCredential(a, op, c)
  \/ UpdateCredential(a) \/ DeleteCredential(a)
  \/ \E provider \in Asked, c \in Creds \cup {None}, e \in BOOLEAN : CheckProfile(a, provider, c, e)
  \/ CreateProfile(a)
  \/ \E provider \in Asked, c \in Creds \cup {None}, e \in BOOLEAN : LockProfile(a, provider, c, e)
  \/ UpdateProfile(a)
  \/ \E p \in Profiles : LockForDelete(a, p)
  \/ DeleteProfile(a)
  \/ \E p \in Profiles, judge \in Profiles \cup {None} : LockForRun(a, p, judge)
  \/ CreateRun(a)

Resolution(a) == Resolve(a) \/ Exchange(a) \/ Catalog(a) \/ Commit(a)

Thread(r) ==
  \/ \E p \in Profiles, forced \in BOOLEAN : ReadProfile(r, p, forced)
  \/ LockForResolve(r) \/ Unavailable(r)
  \/ \E p \in Profiles : ReadForMark(r, p)
  \/ Mark(r)
  \/ EndRun(r)

Next == \/ InlineKey
        \/ CreateCredential \/ ImportCredential \/ PollCodex
        \/ \E a \in Clients : Request(a)
        \/ \E r \in Runs : Thread(r)
        \/ \E a \in Actors : Resolution(a) \/ Abort(a)
        \/ \E c \in Creds : Expire(c)

Spec == Init /\ [][Next]_vars

---------------------------------------------------------------------------
(* Properties.                                                             *)

(* Types, and: no row holds a refresh token that the provider has not      *)
(* issued.                                                                 *)
TypeOK == /\ cred \in [Creds -> CredRow]
          /\ prof \in [Profiles -> ProfRow]
          /\ run \in [Runs -> RunRow]
          /\ tx \in [Actors -> Tx]
          /\ lock \in [Rows -> Actors \cup {None}]
          /\ live \in [Creds -> 0..MaxRotations]
          /\ lost \in [Creds -> BOOLEAN]
          /\ aborts \in 0..MaxAborts

(* A Codex login asks for a new authentication only if the provider        *)
(* rotated its refresh token and the new one never reached the database:   *)
(* neither two refreshes at once, by requests and by the candidate and the *)
(* judge of runs, nor a catalog that fails after a refresh uses up a token.*)
ReauthOnlyIfLost ==
  \A c \in Creds : (Here(c) /\ cred[c].kind = "codex_oauth" /\ cred[c].status = "needs_reauth")
                     => lost[c]

(* The profiles of an active run stay: no deletion counts the active runs  *)
(* while another request creates one of the same profile.  What they name  *)
(* is a credential of a kind their provider takes, whatever was changed in *)
(* between, or nothing where none is needed.                               *)
RunKeepsItsModel ==
  \A r \in Runs : run[r].status = "active" =>
    \A p \in {run[r].candidate, run[r].judge} \ {None} :
      Open(p) /\ Suits(prof[p], prof[p].credential)

(* A credential is never deleted while a profile uses it, not even one     *)
(* that was created or updated while the deletion counted.                 *)
DeletionSparesUsers == [][\A c \in Creds : (Here(c) /\ ~Here(c)') => UsersOf(c)' = {}]_vars
============================================================================
