----------------------------- MODULE Accounts -----------------------------
(***************************************************************************)
(* Accounts and their sessions: api/auth.py, the account handlers of       *)
(* api/admin.py and the checks of security.py.                             *)
(*                                                                         *)
(* Every request is authenticated first, from its session, and then does   *)
(* its work in one transaction that locks nothing.  The requests whose     *)
(* check and commit matter to each other take two steps here; stale tells  *)
(* that an update in between has undone what the check rested on.          *)
(*                                                                         *)
(* That registration is open, or that logins have failed too often, only   *)
(* keeps a step from being taken; both are left out.                       *)
(***************************************************************************)
EXTENDS Naturals, FiniteSets

CONSTANTS Users,       \* names for rows of user_accounts
          Tokens,      \* names for rows of user_sessions
          Requests,    \* requests in flight
          Nobody       \* no user

ASSUME NobodyAssumption == Nobody \notin Users

VARIABLES user,        \* user_accounts
          session,     \* user_sessions: the user of each
          job          \* requests between their check and their commit

accountVars == <<user, session, job>>

Roles == {"none", "user", "admin"}
Account == [role: Roles, enabled: BOOLEAN]
NoAccount == [role |-> "none", enabled |-> FALSE]

Job == [op: {"none", "setup", "login", "update"}, target: Users \cup {Nobody},
        role: {"keep", "user", "admin"}, enabled: {"keep", "on", "off"},
        revokes: BOOLEAN, stale: BOOLEAN]
NoJob == [op |-> "none", target |-> Nobody, role |-> "keep", enabled |-> "keep",
          revokes |-> FALSE, stale |-> FALSE]

Exists(u) == user[u].role # "none"
EnabledAdmins == {u \in Users : user[u].role = "admin" /\ user[u].enabled}

AccountsInit ==
  /\ user = [u \in Users |-> NoAccount]
  /\ session = [t \in Tokens |-> Nobody]
  /\ job = [r \in Requests |-> NoJob]

---------------------------------------------------------------------------
(* current_user: a live session of an enabled account; admin_user.         *)
Signed(t) == session[t] # Nobody /\ user[session[t]].enabled
SignedAdmin(t) == Signed(t) /\ user[session[t]].role = "admin"

(* issue_session                                                           *)
Issue(u) == \E t \in Tokens : session[t] = Nobody /\ session' = [session EXCEPT ![t] = u]

(* revoke_user_sessions, all but those in kept                             *)
Revoked(u, kept) == [t \in Tokens |-> IF session[t] = u /\ t \notin kept THEN Nobody ELSE session[t]]

Done(r) == job' = [job EXCEPT ![r] = NoJob]

(* create_user: the name is free, and its index is unique.                 *)
NewAccount(u, role, enabled) ==
  /\ ~Exists(u)
  /\ user' = [user EXCEPT ![u] = [role |-> role, enabled |-> enabled]]

---------------------------------------------------------------------------
(* setup_admin counts the accounts, and creates the first administrator.   *)
CheckSetup(r) ==
  /\ job[r].op = "none"
  /\ \A u \in Users : ~Exists(u)
  /\ job' = [job EXCEPT ![r].op = "setup"]
  /\ UNCHANGED <<user, session>>

Setup(r) ==
  /\ job[r].op = "setup"
  /\ \E u \in Users : NewAccount(u, "admin", TRUE) /\ Issue(u)
  /\ Done(r)

Register ==
  /\ \E u \in Users : Exists(u)
  /\ \E u \in Users : NewAccount(u, "user", TRUE) /\ Issue(u)
  /\ UNCHANGED job

CreateAccount(t) ==
  /\ SignedAdmin(t)
  /\ \E u \in Users, role \in {"user", "admin"}, e \in BOOLEAN : NewAccount(u, role, e)
  /\ UNCHANGED <<session, job>>

---------------------------------------------------------------------------
(* login, when no failures of the last 15 minutes forbid it.               *)
CheckLogin(r, u) ==
  /\ job[r].op = "none"
  /\ Exists(u) /\ user[u].enabled
  /\ job' = [job EXCEPT ![r].op = "login", ![r].target = u]
  /\ UNCHANGED <<user, session>>

Login(r) ==
  /\ job[r].op = "login"
  /\ Issue(job[r].target)
  /\ Done(r)
  /\ UNCHANGED user

---------------------------------------------------------------------------
(* logout, and revoke_session of another of one's own.                     *)
RevokeSession(t, target) ==
  /\ Signed(t) /\ session[target] = session[t]
  /\ session' = [session EXCEPT ![target] = Nobody]
  /\ UNCHANGED <<user, job>>

(* update_me, with a new password: the sessions but the current one go.    *)
ChangePassword(t) ==
  /\ Signed(t)
  /\ session' = Revoked(session[t], {t})
  /\ UNCHANGED <<user, job>>

(* The session reaches its end, and current_user deletes it.               *)
ExpireSession(t) ==
  /\ session[t] # Nobody
  /\ session' = [session EXCEPT ![t] = Nobody]
  /\ UNCHANGED <<user, job>>

RevokeAccountSessions(t, u) ==
  /\ SignedAdmin(t) /\ Exists(u)
  /\ session' = Revoked(u, IF u = session[t] THEN {t} ELSE {})
  /\ UNCHANGED <<user, job>>

---------------------------------------------------------------------------
(* update_account.                                                         *)

TakesAdmin(role, enabled) == role = "user" \/ enabled = "off"

(* Only a column whose value differs from the one read is written.         *)
Planned(u, role, enabled, password) ==
  [op |-> "update", target |-> u,
   role |-> IF role = user[u].role THEN "keep" ELSE role,
   enabled |-> IF enabled = (IF user[u].enabled THEN "on" ELSE "off") THEN "keep" ELSE enabled,
   revokes |-> password \/ enabled = "off", stale |-> FALSE]

CheckSelfOnly(r, t, u, role, enabled, password) ==
  /\ job[r].op = "none"
  /\ SignedAdmin(t) /\ Exists(u)
  /\ u = session[t] => role # "user"
  /\ job' = [job EXCEPT ![r] = Planned(u, role, enabled, password)]
  /\ UNCHANGED <<user, session>>

(* Nobody takes their own access, and the enabled administrators are       *)
(* counted before an administrator, enabled or not, loses it.              *)
CheckUpdate(r, t, u, role, enabled, password) ==
  /\ job[r].op = "none"
  /\ SignedAdmin(t) /\ Exists(u)
  /\ TakesAdmin(role, enabled) => u # session[t]
  /\ (user[u].role = "admin" /\ TakesAdmin(role, enabled)) => Cardinality(EnabledAdmins) > 1
  /\ job' = [job EXCEPT ![r] = Planned(u, role, enabled, password)]
  /\ UNCHANGED <<user, session>>

Updated(j) ==
  [user EXCEPT ![j.target] = [role |-> IF j.role = "keep" THEN @.role ELSE j.role,
                              enabled |-> IF j.enabled = "keep" THEN @.enabled ELSE j.enabled = "on"]]

(* The account that another request is to log in has just been disabled,   *)
(* or one of the administrators it has counted lost.                       *)
Overtaken(j, users) ==
  \/ j.op = "login" /\ user[j.target].enabled /\ ~users[j.target].enabled
  \/ j.op = "update" /\ \E u \in EnabledAdmins : ~(users[u].role = "admin" /\ users[u].enabled)

Committed(r, users) ==
  [q \in Requests |-> IF q = r THEN NoJob ELSE [job[q] EXCEPT !.stale = @ \/ Overtaken(job[q], users)]]

\* Mutant of UpdateAccount: the sessions are left.
UpdateKeepsSessions(r) ==
  /\ job[r].op = "update"
  /\ user' = Updated(job[r])
  /\ job' = Committed(r, Updated(job[r]))
  /\ UNCHANGED session

(* A new password or a disabled account ends all sessions.                 *)
UpdateAccount(r) ==
  LET j == job[r] IN
  /\ j.op = "update"
  /\ user' = Updated(j)
  /\ session' = IF j.revokes THEN Revoked(j.target, {}) ELSE session
  /\ job' = Committed(r, Updated(j))

---------------------------------------------------------------------------
AccountsNext ==
  \/ Register
  \/ \E r \in Requests : CheckSetup(r) \/ Setup(r) \/ Login(r) \/ UpdateAccount(r)
  \/ \E r \in Requests, u \in Users : CheckLogin(r, u)
  \/ \E r \in Requests, t \in Tokens, u \in Users, role \in {"keep", "user", "admin"},
        enabled \in {"keep", "on", "off"}, password \in BOOLEAN :
          CheckUpdate(r, t, u, role, enabled, password)
  \/ \E t \in Tokens : CreateAccount(t) \/ ChangePassword(t) \/ ExpireSession(t)
  \/ \E t, target \in Tokens : RevokeSession(t, target)
  \/ \E t \in Tokens, u \in Users : RevokeAccountSessions(t, u)

AccountsSpec == AccountsInit /\ [][AccountsNext]_accountVars

---------------------------------------------------------------------------
(* Properties.                                                             *)

AccountsTypeOK ==
  /\ user \in [Users -> Account]
  /\ session \in [Tokens -> Users \cup {Nobody}]
  /\ job \in [Requests -> Job]

(* Only one update takes the last enabled administrator: one behind whose  *)
(* count another update has committed and taken an administrator too.      *)
AdminRemains ==
  [][EnabledAdmins # {} /\ EnabledAdmins' = {}
       => \E r \in Requests : UpdateAccount(r) /\ job[r].stale]_accountVars

(* A session of a disabled account, which opens when the account is        *)
(* enabled again.                                                          *)
Dormant == {t \in Tokens : session[t] # Nobody /\ ~user[session[t]].enabled}

(* Only a login leaves a disabled account with a session: one behind whose *)
(* check that account was disabled.                                        *)
DisabledHasNoSession ==
  [][Dormant' \subseteq Dormant \/ \E r \in Requests : Login(r) /\ job[r].stale]_accountVars
============================================================================
