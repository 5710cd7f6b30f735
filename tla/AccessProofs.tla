--------------------------- MODULE AccessProofs ---------------------------
(***************************************************************************)
(* Theorems about Credentials, Accounts and ProviderClient, for any number *)
(* of rows and of transactions, of users, sessions and requests, and for   *)
(* any limits of a client.                                                 *)
(***************************************************************************)
EXTENDS Credentials, Accounts, ProviderClient, TLAPS

---------------------------------------------------------------------------
(***************************************************************************)
(* Credentials. The argument is the one of the row locks. What a           *)
(* transaction has read of the row that it locked, or has checked under    *)
(* the lock of another row, stays true until it commits, because no step   *)
(* of another actor writes a locked row or inserts a row that refers to    *)
(* it: that is Kept, proved action by action, and IInv says what each      *)
(* transaction knows.                                                      *)
(***************************************************************************)

(* Types.                                                                  *)

LEMMA IdleTyped == Idle \in Tx /\ NoCred \in CredRow /\ NoProf \in ProfRow
<1>1. NoCred \in CredRow
  BY DEF NoCred, CredRow, Kinds, Statuses
<1>2. NoProf \in ProfRow
  BY DEF NoProf, ProfRow, Providers
<1> QED BY <1>1, <1>2, Zenon DEF Idle, Tx, Ops, Places

\* The records of a transaction.
LEMMA Retyped ==
  ASSUME NEW t \in Tx
  PROVE  /\ \A at \in Places : [t EXCEPT !.pc = at] \in Tx
         /\ \A at \in Places, row \in CredRow : [t EXCEPT !.pc = at, !.row = row] \in Tx
         /\ \A at \in Places, row \in CredRow, ok \in BOOLEAN :
              [t EXCEPT !.pc = at, !.row = row, !.ok = ok] \in Tx
         /\ \A at \in Places, forced \in BOOLEAN : [t EXCEPT !.pc = at, !.forced = forced] \in Tx
<1>1. \A at \in Places : [t EXCEPT !.pc = at] \in Tx
  BY Zenon DEF Tx
<1>2. \A at \in Places, row \in CredRow : [t EXCEPT !.pc = at, !.row = row] \in Tx
  BY Zenon DEF Tx
<1>3. \A at \in Places, row \in CredRow, ok \in BOOLEAN :
              [t EXCEPT !.pc = at, !.row = row, !.ok = ok] \in Tx
  BY Zenon DEF Tx
<1>4. \A at \in Places, forced \in BOOLEAN : [t EXCEPT !.pc = at, !.forced = forced] \in Tx
  BY Zenon DEF Tx
<1> QED BY <1>1, <1>2, <1>3, <1>4

LEMMA Begun ==
  ASSUME NEW op \in Ops, NEW at \in Places
  PROVE  /\ [Idle EXCEPT !.op = op, !.pc = at] \in Tx
         /\ \A c \in Creds, row \in CredRow, ok \in BOOLEAN :
              [Idle EXCEPT !.op = op, !.pc = at, !.c = c, !.row = row, !.ok = ok] \in Tx
         /\ \A c \in Creds \cup {None}, row \in ProfRow :
              [Idle EXCEPT !.op = op, !.pc = at, !.c = c, !.prow = row] \in Tx
         /\ \A c \in Creds \cup {None}, p \in Profiles, row \in ProfRow :
              [Idle EXCEPT !.op = op, !.pc = at, !.c = c, !.p = p, !.prow = row] \in Tx
         /\ \A p \in Profiles : [Idle EXCEPT !.op = op, !.pc = at, !.p = p] \in Tx
         /\ \A p \in Profiles, judge \in Profiles \cup {None} :
              [Idle EXCEPT !.op = op, !.pc = at, !.p = p, !.judge = judge] \in Tx
         /\ \A c \in Creds : [Idle EXCEPT !.op = op, !.pc = at, !.c = c] \in Tx
         /\ \A c \in Creds, maker \in Providers, forced \in BOOLEAN :
              [Idle EXCEPT !.op = op, !.pc = at, !.c = c, !.prow.provider = maker,
                           !.forced = forced] \in Tx
<1>0. Idle \in Tx
  BY IdleTyped
<1>1. [Idle EXCEPT !.op = op, !.pc = at] \in Tx
  BY <1>0, Zenon DEF Tx
<1>2. \A c \in Creds, row \in CredRow, ok \in BOOLEAN :
              [Idle EXCEPT !.op = op, !.pc = at, !.c = c, !.row = row, !.ok = ok] \in Tx
  BY <1>0, Zenon DEF Tx
<1>3. \A c \in Creds \cup {None}, row \in ProfRow :
              [Idle EXCEPT !.op = op, !.pc = at, !.c = c, !.prow = row] \in Tx
  BY <1>0, Zenon DEF Tx
<1>4. \A c \in Creds \cup {None}, p \in Profiles, row \in ProfRow :
              [Idle EXCEPT !.op = op, !.pc = at, !.c = c, !.p = p, !.prow = row] \in Tx
  BY <1>0, Zenon DEF Tx
<1>5. \A p \in Profiles : [Idle EXCEPT !.op = op, !.pc = at, !.p = p] \in Tx
  BY <1>0, Zenon DEF Tx
<1>6. \A p \in Profiles, judge \in Profiles \cup {None} :
              [Idle EXCEPT !.op = op, !.pc = at, !.p = p, !.judge = judge] \in Tx
  BY <1>0, Zenon DEF Tx
<1>7. \A c \in Creds : [Idle EXCEPT !.op = op, !.pc = at, !.c = c] \in Tx
  BY <1>0, Zenon DEF Tx
<1>8. \A c \in Creds, maker \in Providers, forced \in BOOLEAN :
              [Idle EXCEPT !.op = op, !.pc = at, !.c = c, !.prow.provider = maker,
                           !.forced = forced] \in Tx
  BY <1>0, Zenon DEF Tx, ProfRow
<1> QED BY <1>1, <1>2, <1>3, <1>4, <1>5, <1>6, <1>7, <1>8

\* What the two ways to write a transaction leave of the others.
Others(a) == \A b \in Actors \ {a} : tx'[b] = tx[b]

LEMMA Written ==
  ASSUME tx \in [Actors -> Tx], NEW a \in Actors, NEW t \in Tx, tx' = [tx EXCEPT ![a] = t]
  PROVE  tx' \in [Actors -> Tx] /\ tx'[a] = t /\ Others(a)
BY DEF Others

LEMMA Gone ==
  ASSUME tx \in [Actors -> Tx], NEW a \in Actors, NEW at \in Places, NEW row \in CredRow, NEW ok \in BOOLEAN,
         Goes(a, at, row, ok)
  PROVE  /\ tx' \in [Actors -> Tx] /\ Others(a)
         /\ tx'[a].pc = at /\ tx'[a].row = row /\ tx'[a].ok = ok
         /\ tx'[a].op = tx[a].op /\ tx'[a].c = tx[a].c /\ tx'[a].p = tx[a].p /\ tx'[a].judge = tx[a].judge
         /\ tx'[a].prow = tx[a].prow /\ tx'[a].forced = tx[a].forced
<1> DEFINE t == [tx[a] EXCEPT !.pc = at, !.row = row, !.ok = ok]
<1>1. tx[a] \in Tx
  OBVIOUS
<1>2. t \in Tx
  BY <1>1, Retyped, Zenon
<1>3. tx' = [tx EXCEPT ![a] = t]
  BY <1>1, Zenon DEF Goes
<1>4. tx' \in [Actors -> Tx] /\ tx'[a] = t /\ Others(a)
  BY <1>2, <1>3, Written, Zenon
<1>5. /\ t.pc = at /\ t.row = row /\ t.ok = ok /\ t.op = tx[a].op /\ t.c = tx[a].c
      /\ t.p = tx[a].p /\ t.judge = tx[a].judge /\ t.prow = tx[a].prow /\ t.forced = tx[a].forced
  BY <1>1, Zenon DEF Tx
<1> QED BY <1>4, <1>5, Zenon

(* The requests and threads, by what they do to their transaction.         *)
Opens(a) ==
  \/ CheckAttach(a)
  \/ \E c \in Creds, op \in {"update", "refresh", "sync", "delete"} : LockCredential(a, op, c)
  \/ \E maker \in Asked, c \in Creds \cup {None}, e \in BOOLEAN : CheckProfile(a, maker, c, e)
  \/ \E maker \in Asked, c \in Creds \cup {None}, e \in BOOLEAN : LockProfile(a, maker, c, e)
  \/ \E p \in Profiles : LockForDelete(a, p)
  \/ \E p \in Profiles, judge \in Profiles \cup {None} : LockForRun(a, p, judge)

OpensThread(r) ==
  \/ \E p \in Profiles, forced \in BOOLEAN : ReadProfile(r, p, forced)
  \/ \E p \in Profiles : ReadForMark(r, p)

Closes(a) ==
  \/ Attach(a) \/ UpdateCredential(a) \/ DeleteCredential(a) \/ CreateProfile(a) \/ UpdateProfile(a)
  \/ DeleteProfile(a) \/ CreateRun(a) \/ Commit(a) \/ Abort(a)

ClosesThread(r) == Unavailable(r) \/ Mark(r)

LEMMA OpensTyped ==
  ASSUME TypeOK, NEW a \in Actors, Opens(a) \/ (a \in Runs /\ OpensThread(a))
  PROVE  \E t \in Tx : tx' = [tx EXCEPT ![a] = t]
<1> USE DEF TypeOK
<1>1. CASE CheckAttach(a)
  BY <1>1, Begun, Zenon DEF CheckAttach, Ops, Places
<1>2. ASSUME NEW c \in Creds, NEW op \in {"update", "refresh", "sync", "delete"}, LockCredential(a, op, c)
      PROVE  \E t \in Tx : tx' = [tx EXCEPT ![a] = t]
  <2> DEFINE ok == op = "delete" /\ UsersOf(c) = {}
  <2>1. ok \in BOOLEAN /\ op \in Ops /\ "locked" \in Places /\ cred[c] \in CredRow
    BY DEF Ops, Places
  <2>2. tx' = [tx EXCEPT ![a] = [Idle EXCEPT !.op = op, !.pc = "locked", !.c = c, !.row = cred[c], !.ok = ok]]
    BY <1>2 DEF LockCredential
  <2> HIDE DEF ok
  <2> QED BY <2>1, <2>2, Begun
<1>3. ASSUME NEW maker \in Asked, NEW c \in Creds \cup {None}, NEW e \in BOOLEAN, CheckProfile(a, maker, c, e)
      PROVE  \E t \in Tx : tx' = [tx EXCEPT ![a] = t]
  <2> DEFINE row == [provider |-> maker, credential |-> c, born |-> TRUE, enabled |-> e, archived |-> FALSE]
  <2>1. row \in ProfRow /\ "create_profile" \in Ops /\ "commit" \in Places
    BY AskedAssumption DEF ProfRow, Providers, Ops, Places
  <2>2. tx' = [tx EXCEPT ![a] = [Idle EXCEPT !.op = "create_profile", !.pc = "commit", !.c = c, !.prow = row]]
    BY <1>3 DEF CheckProfile
  <2> HIDE DEF row
  <2> QED BY <2>1, <2>2, Begun
<1>4. ASSUME NEW maker \in Asked, NEW c \in Creds \cup {None}, NEW e \in BOOLEAN, LockProfile(a, maker, c, e)
      PROVE  \E t \in Tx : tx' = [tx EXCEPT ![a] = t]
  <2>1. PICK p \in Profiles : tx' = [tx EXCEPT ![a] = [Idle EXCEPT !.op = "update_profile", !.pc = "commit",
                !.c = c, !.p = p, !.prow = [prof[p] EXCEPT !.provider = maker, !.credential = c, !.enabled = e]]]
    BY <1>4 DEF LockProfile
  <2> DEFINE row == [prof[p] EXCEPT !.provider = maker, !.credential = c, !.enabled = e]
  <2>2. row \in ProfRow
    BY AskedAssumption, Zenon DEF ProfRow, Providers
  <2>3. "update_profile" \in Ops /\ "commit" \in Places
    BY DEF Ops, Places
  <2> HIDE DEF row
  <2> QED BY <2>1, <2>2, <2>3, Begun DEF row
<1>5. CASE \E p \in Profiles : LockForDelete(a, p)
  BY <1>5, Begun, Zenon DEF LockForDelete, Ops, Places
<1>6. CASE \E p \in Profiles, judge \in Profiles \cup {None} : LockForRun(a, p, judge)
  <2>1. PICK p \in Profiles, judge \in Profiles \cup {None} : LockForRun(a, p, judge)
    BY <1>6
  <2>2. tx' = [tx EXCEPT ![a] = [Idle EXCEPT !.op = "create_run", !.pc = "commit", !.p = p, !.judge = judge]]
    BY <2>1 DEF LockForRun
  <2>3. "create_run" \in Ops /\ "commit" \in Places
    BY DEF Ops, Places
  <2> QED BY <2>2, <2>3, Begun
<1>7. ASSUME NEW p \in Profiles, NEW forced \in BOOLEAN, ReadProfile(a, p, forced)
      PROVE  \E t \in Tx : tx' = [tx EXCEPT ![a] = t]
  <2>1. prof[p].credential \in Creds /\ prof[p].provider \in Providers
    BY <1>7 DEF ReadProfile, ProfRow
  <2>2. "resolve" \in Ops /\ "read" \in Places
    BY DEF Ops, Places
  <2> QED BY <1>7, <2>1, <2>2, Begun, Zenon DEF ReadProfile
<1>8. ASSUME NEW p \in Profiles, ReadForMark(a, p)
      PROVE  \E t \in Tx : tx' = [tx EXCEPT ![a] = t]
  <2>1. prof[p].credential \in Creds
    BY <1>8 DEF ReadForMark, ProfRow
  <2>2. "mark" \in Ops /\ "commit" \in Places
    BY DEF Ops, Places
  <2> QED BY <1>8, <2>1, <2>2, Begun, Zenon DEF ReadForMark
<1> QED BY <1>1, <1>2, <1>3, <1>4, <1>5, <1>6, <1>7, <1>8 DEF Opens, OpensThread

(* The rows that are written.                                              *)
LEMMA RowsTyped ==
  ASSUME NEW row \in CredRow
  PROVE  /\ \A s \in Statuses : [row EXCEPT !.status = s] \in CredRow
         /\ \A t \in Nat : [row EXCEPT !.refresh = t, !.access = "fresh", !.status = "ready"] \in CredRow
         /\ [row EXCEPT !.access = "expiring"] \in CredRow
         /\ [row EXCEPT !.status = "error", !.archived = TRUE] \in CredRow
<1>1. \A s \in Statuses : [row EXCEPT !.status = s] \in CredRow
  BY Zenon DEF CredRow
<1>2. \A t \in Nat : [row EXCEPT !.refresh = t, !.access = "fresh", !.status = "ready"] \in CredRow
  BY Zenon DEF CredRow, Statuses
<1>3. [row EXCEPT !.access = "expiring"] \in CredRow
  BY Zenon DEF CredRow
<1>4. [row EXCEPT !.status = "error", !.archived = TRUE] \in CredRow
  BY Zenon DEF CredRow, Statuses
<1> QED BY <1>1, <1>2, <1>3, <1>4

\* A new credential.
New(kind, status, access) ==
  [NoCred EXCEPT !.born = TRUE, !.kind = kind, !.status = status, !.access = access]

LEMMA Inserted ==
  ASSUME cred \in [Creds -> CredRow], NEW c \in Creds, NEW kind \in Kinds, NEW status \in Statuses,
         NEW access \in {"fresh", "expiring"}, Insert(c, kind, status, access)
  PROVE  /\ cred' \in [Creds -> CredRow] /\ ~cred[c].born
         /\ cred'[c].born /\ ~cred'[c].archived /\ cred'[c].kind = kind /\ cred'[c].status = status
         /\ cred'[c].refresh = 0
         /\ \A d \in Creds \ {c} : cred'[d] = cred[d]
<1> DEFINE row == New(kind, status, access)
<1>1. NoCred \in CredRow /\ ~NoCred.archived /\ NoCred.refresh = 0
  BY IdleTyped DEF NoCred
<1>2. row \in CredRow
  BY <1>1, Zenon DEF New, CredRow
<1>3. /\ row.born /\ row.archived = NoCred.archived /\ row.kind = kind /\ row.status = status
      /\ row.refresh = NoCred.refresh
  BY <1>1, Zenon DEF New, CredRow
<1>4. cred' = [cred EXCEPT ![c] = row] /\ ~cred[c].born
  BY Zenon DEF Insert, New
<1> HIDE DEF row
<1> QED BY <1>1, <1>2, <1>3, <1>4

(* A lock is taken where it is free, and given back by its holder.         *)
Takes(a, x) == lock[x] = None /\ lock' = [lock EXCEPT ![x] = a]

LEMMA LockTyped ==
  ASSUME lock \in [Rows -> Actors \cup {None}], NEW a \in Actors,
         \/ lock' = lock \/ lock' = Unlock(a) \/ \E x \in Rows : Takes(a, x)
         \/ \E p \in Profiles, judge \in Profiles \cup {None} : LockForRun(a, p, judge)
  PROVE  /\ lock' \in [Rows -> Actors \cup {None}]
         /\ \A b \in Actors \ {a}, x \in Rows : lock[x] = b => lock'[x] = b
<1>0. None \notin Actors
  BY NamesAssumption DEF Actors
<1>1. CASE lock' = lock
  BY <1>1
<1>2. CASE lock' = Unlock(a)
  BY <1>2 DEF Unlock
<1>3. CASE \E x \in Rows : Takes(a, x)
  BY <1>0, <1>3 DEF Takes
<1>4. ASSUME NEW p \in Profiles, NEW judge \in Profiles \cup {None}, LockForRun(a, p, judge)
      PROVE  /\ lock' \in [Rows -> Actors \cup {None}]
             /\ \A b \in Actors \ {a}, x \in Rows : lock[x] = b => lock'[x] = b
  <2> DEFINE named == {p, judge} \ {None}
  <2>1. lock' = [x \in Rows |-> IF x \in named THEN a ELSE lock[x]] /\ \A q \in named : lock[q] = None
    BY <1>4 DEF LockForRun
  <2> HIDE DEF named
  <2> QED BY <1>0, <2>1
<1> QED BY <1>1, <1>2, <1>3, <1>4

\* The tables without the transactions.
TablesType ==
  /\ cred \in [Creds -> CredRow] /\ prof \in [Profiles -> ProfRow] /\ run \in [Runs -> RunRow]
  /\ live \in [Creds -> 0..MaxRotations] /\ lost \in [Creds -> BOOLEAN] /\ aborts \in 0..MaxAborts

LEMMA OpensStep ==
  ASSUME TypeOK, NEW a \in Actors, Opens(a) \/ (a \in Runs /\ OpensThread(a))
  PROVE  /\ TypeOK' /\ tx[a].pc = "idle"
         /\ UNCHANGED <<cred, prof, run, live, lost>> /\ Others(a)
         /\ \A b \in Actors \ {a}, x \in Rows : lock[x] = b => lock'[x] = b
<1>1. /\ UNCHANGED <<cred, prof, run, live, lost, aborts>> /\ tx[a].pc = "idle"
      /\ \/ lock' = lock \/ \E x \in Rows : Takes(a, x)
         \/ \E p \in Profiles, judge \in Profiles \cup {None} : LockForRun(a, p, judge)
  BY DEF Opens, OpensThread, CheckAttach, LockCredential, CheckProfile, LockProfile, LockForDelete, LockForRun,
         ReadProfile, ReadForMark, Rest, Takes, Rows
<1>2. /\ lock' \in [Rows -> Actors \cup {None}]
      /\ \A b \in Actors \ {a}, x \in Rows : lock[x] = b => lock'[x] = b
  BY <1>1, LockTyped DEF TypeOK
<1>3. tx' \in [Actors -> Tx] /\ Others(a)
  BY OpensTyped, Written DEF TypeOK
<1> QED BY <1>1, <1>2, <1>3 DEF TypeOK

LEMMA EndsStep ==
  ASSUME TypeOK, NEW a \in Actors, Closes(a) \/ (a \in Runs /\ ClosesThread(a))
  PROVE  /\ tx' \in [Actors -> Tx] /\ tx'[a] = Idle /\ Others(a)
         /\ lock' \in [Rows -> Actors \cup {None}]
         /\ \A b \in Actors \ {a}, x \in Rows : lock[x] = b => lock'[x] = b
<1>1. tx' = [tx EXCEPT ![a] = Idle] /\ (lock' = lock \/ lock' = Unlock(a))
  <2>1. CASE Closes(a)
    BY <2>1 DEF Closes, Attach, UpdateCredential, DeleteCredential, CreateProfile, UpdateProfile,
         DeleteProfile, CreateRun, Commit, Abort, Refuse
  <2>2. CASE ClosesThread(a)
    BY <2>2 DEF ClosesThread, Unavailable, Mark, Refuse
  <2> QED BY <2>1, <2>2
<1>2. tx' \in [Actors -> Tx] /\ tx'[a] = Idle /\ Others(a)
  BY <1>1, IdleTyped, Written DEF TypeOK
<1>3. /\ lock' \in [Rows -> Actors \cup {None}]
      /\ \A b \in Actors \ {a}, x \in Rows : lock[x] = b => lock'[x] = b
  BY <1>1, LockTyped DEF TypeOK
<1> QED BY <1>2, <1>3

\* The steps of a resolution that go on.
GoesOn(a) ==
  \/ Resolve(a) \/ Exchange(a) \/ Catalog(a) \/ (a \in Runs /\ LockForResolve(a))

LEMMA Steps ==
  ASSUME [Next]_vars
  PROVE  \/ \E a \in Actors : Opens(a) \/ (a \in Runs /\ OpensThread(a))
         \/ \E a \in Actors : Closes(a) \/ (a \in Runs /\ ClosesThread(a))
         \/ \E a \in Actors : GoesOn(a)
         \/ \E r \in Runs : EndRun(r)
         \/ InlineKey \/ CreateCredential \/ ImportCredential \/ PollCodex
         \/ \E c \in Creds : Expire(c)
         \/ UNCHANGED vars
<1>1. Clients \subseteq Actors /\ Runs \subseteq Actors
  BY DEF Actors
<1>2. ASSUME NEW a \in Clients, Request(a) PROVE Opens(a) \/ Closes(a)
  BY <1>2 DEF Request, Opens, Closes
<1>3. ASSUME NEW r \in Runs, Thread(r)
      PROVE  OpensThread(r) \/ ClosesThread(r) \/ GoesOn(r) \/ EndRun(r)
  BY <1>3 DEF Thread, OpensThread, ClosesThread, GoesOn
<1>4. ASSUME NEW a \in Actors, Resolution(a) \/ Abort(a) PROVE GoesOn(a) \/ Closes(a)
  BY <1>4 DEF Resolution, GoesOn, Closes
<1> QED BY <1>1, <1>2, <1>3, <1>4 DEF Next

\* What a resolution keeps of its transaction.
Same(a) == tx'[a].op = tx[a].op /\ tx'[a].c = tx[a].c

\* A transaction that goes on, with its row and its outcome so far.
Moves(a, at, row, ok) ==
  /\ tx' \in [Actors -> Tx] /\ Others(a) /\ Same(a)
  /\ tx'[a].pc = at /\ tx'[a].row = row /\ tx'[a].ok = ok

LEMMA Going ==
  ASSUME tx \in [Actors -> Tx], NEW a \in Actors, NEW at \in Places, NEW row \in CredRow, NEW ok \in BOOLEAN,
         Goes(a, at, row, ok)
  PROVE  Moves(a, at, row, ok)
BY Gone DEF Moves, Same

LEMMA ResolveStep ==
  ASSUME TypeOK, NEW a \in Actors, Resolve(a)
  PROVE  /\ UNCHANGED <<cred, prof, run, live, lost, aborts>>
         /\ \/ /\ tx' \in [Actors -> Tx] /\ Others(a) /\ tx'[a] = Idle /\ lock' = Unlock(a)
            \/ /\ lock' = lock
               /\ \/ tx[a].row.kind = "api_key" /\ Moves(a, "commit", tx[a].row, FALSE)
                  \/ tx[a].row.kind = "codex_oauth" /\ Moves(a, "exchange", tx[a].row, FALSE)
                  \/ ~Lists(a) /\ Moves(a, "commit", Ready(tx[a].row), TRUE)
                  \/ Lists(a) /\ tx[a].row.kind # "api_key" /\ Moves(a, "catalog", Ready(tx[a].row), TRUE)
<1> DEFINE row == tx[a].row
<1>1. tx \in [Actors -> Tx] /\ row \in CredRow /\ Ready(row) \in CredRow
  <2>1. tx \in [Actors -> Tx] /\ row \in CredRow
    BY DEF TypeOK, Tx
  <2>2. "ready" \in Statuses
    BY DEF Statuses
  <2> QED BY <2>1, <2>2, RowsTyped, Zenon DEF Ready
<1>2. {"commit", "exchange", "catalog"} \subseteq Places
  BY DEF Places
<1>3. CASE Refuse(a)
  BY <1>1, <1>3, IdleTyped, Written DEF Refuse, Rest
<1>4. CASE ~Refuse(a)
  <2>1. /\ UNCHANGED <<cred, prof, run, lock, live, lost, aborts>> /\ tx[a].op \in {"refresh", "sync", "resolve"}
        /\ CASE tx[a].op = "sync" /\ row.kind = "api_key" -> Goes(a, "commit", row, FALSE)
             [] row.kind = "codex_oauth" /\ (tx[a].forced \/ NeedsRefresh(row)) -> Goes(a, "exchange", row, FALSE)
             [] OTHER -> Goes(a, IF Lists(a) THEN "catalog" ELSE "commit", Ready(row), TRUE)
    BY <1>4 DEF Resolve, Rest
  <2>2. CASE tx[a].op = "sync" /\ row.kind = "api_key"
    <3>1. Goes(a, "commit", row, FALSE)
      BY <2>1, <2>2
    <3> QED BY <1>1, <1>2, <2>1, <2>2, <3>1, Going
  <2>3. CASE row.kind = "codex_oauth" /\ (tx[a].forced \/ NeedsRefresh(row))
    <3>1. Goes(a, "exchange", row, FALSE)
      BY <2>1, <2>3
    <3> QED BY <1>1, <1>2, <2>1, <2>3, <3>1, Going
  <2>4. CASE /\ ~(tx[a].op = "sync" /\ row.kind = "api_key")
             /\ ~(row.kind = "codex_oauth" /\ (tx[a].forced \/ NeedsRefresh(row)))
    <3>1. Goes(a, IF Lists(a) THEN "catalog" ELSE "commit", Ready(row), TRUE)
      BY <2>1, <2>4
    <3>2. CASE Lists(a)
      <4>1. row.kind # "api_key"
        BY <2>4, <3>2 DEF Lists
      <4> QED BY <1>1, <1>2, <2>1, <3>1, <3>2, <4>1, Going
    <3>3. CASE ~Lists(a)
      BY <1>1, <1>2, <2>1, <3>1, <3>3, Going
    <3> QED BY <3>2, <3>3
  <2> QED BY <2>2, <2>3, <2>4
<1> QED BY <1>3, <1>4

LEMMA ExchangeStep ==
  ASSUME TypeOK, NEW a \in Actors, Exchange(a), tx[a].c \in Creds, tx[a].row.kind = "codex_oauth"
  PROVE  LET c == tx[a].c  row == tx[a].row IN
         /\ UNCHANGED <<cred, prof, run, lock, aborts>>
         /\ live' \in [Creds -> 0..MaxRotations] /\ lost' \in [Creds -> BOOLEAN]
         /\ \A d \in Creds \ {c} : live'[d] = live[d] /\ lost'[d] = lost[d]
         /\ lost[c] => lost'[c]
         /\ \/ /\ row.refresh = live[c]
               /\ \/ \E at \in {"catalog", "commit"} : Moves(a, at, Granted(row, live'[c]), TRUE)
                  \/ Moves(a, "commit", Unanswered(row), FALSE) /\ (lost'[c] \/ live'[c] = live[c])
            \/ row.refresh # live[c] /\ UNCHANGED <<live, lost>> /\ Moves(a, "commit", Rejected(row), FALSE)
<1> DEFINE c == tx[a].c
           row == tx[a].row
<1>1. /\ tx \in [Actors -> Tx] /\ row \in CredRow /\ live \in [Creds -> 0..MaxRotations]
      /\ lost \in [Creds -> BOOLEAN] /\ c \in Creds
  BY DEF TypeOK, Tx
<1>2. {"commit", "catalog"} \subseteq Places
  BY DEF Places
<1>3. Unanswered(row) \in CredRow /\ Rejected(row) \in CredRow
  <2>1. {"error", "needs_reauth"} \subseteq Statuses
    BY DEF Statuses
  <2> QED BY <1>1, <2>1, RowsTyped, Zenon DEF Unanswered, Rejected
<1>4. UNCHANGED <<cred, prof, run, lock, aborts>>
  BY DEF Exchange
<1>5. CASE row.refresh # live[c]
  <2>1. Goes(a, "commit", Rejected(row), FALSE) /\ UNCHANGED <<live, lost>>
    BY <1>5 DEF Exchange
  <2>2. Moves(a, "commit", Rejected(row), FALSE)
    BY <1>1, <1>2, <1>3, <2>1, Going
  <2> QED BY <1>1, <1>4, <1>5, <2>1, <2>2
<1>6. CASE row.refresh = live[c]
  <2>1. PICK rotated \in BOOLEAN, answered \in BOOLEAN :
             /\ rotated => live[c] < MaxRotations
             /\ live' = IF rotated THEN [live EXCEPT ![c] = @ + 1] ELSE live
             /\ lost' = [lost EXCEPT ![c] = @ \/ (rotated /\ ~answered)]
             /\ IF answered
                THEN Goes(a, IF Lists(a) THEN "catalog" ELSE "commit", Granted(row, live'[c]), TRUE)
                ELSE Goes(a, "commit", Unanswered(row), FALSE)
    BY <1>6 DEF Exchange
  <2>2. live' \in [Creds -> 0..MaxRotations] /\ (\A d \in Creds \ {c} : live'[d] = live[d])
    BY <1>1, <2>1, BoundAssumption
  <2>3. lost' \in [Creds -> BOOLEAN] /\ (\A d \in Creds \ {c} : lost'[d] = lost[d])
        /\ lost'[c] = (lost[c] \/ (rotated /\ ~answered))
    BY <1>1, <2>1, Zenon
  <2>4. CASE answered
    <3>1. Granted(row, live'[c]) \in CredRow
      <4>1. live'[c] \in Nat
        BY <1>1, <2>2
      <4> QED BY <1>1, <4>1, RowsTyped, Zenon DEF Granted
    <3>2. PICK at \in {"catalog", "commit"} : Goes(a, at, Granted(row, live'[c]), TRUE)
      BY <2>1, <2>4
    <3>3. Moves(a, at, Granted(row, live'[c]), TRUE)
      BY <1>1, <1>2, <3>1, <3>2, Going
    <3> QED BY <1>4, <1>6, <2>2, <2>3, <3>3
  <2>5. CASE ~answered
    <3>1. Goes(a, "commit", Unanswered(row), FALSE)
      BY <2>1, <2>5
    <3>2. Moves(a, "commit", Unanswered(row), FALSE)
      BY <1>1, <1>2, <1>3, <3>1, Going
    <3>3. lost'[c] \/ live'[c] = live[c]
      BY <2>1, <2>3, <2>5
    <3> QED BY <1>4, <1>6, <2>2, <2>3, <3>2, <3>3
  <2> QED BY <2>4, <2>5
<1> QED BY <1>5, <1>6

LEMMA CatalogStep ==
  ASSUME TypeOK, NEW a \in Actors, Catalog(a)
  PROVE  /\ UNCHANGED <<cred, prof, run, lock, live, lost, aborts>>
         /\ \/ \E ok \in BOOLEAN : Moves(a, "commit", tx[a].row, ok)
            \/ tx[a].row.kind = "codex_oauth" /\ Moves(a, "exchange", tx[a].row, tx[a].ok)
            \/ /\ tx[a].row.kind = "antigravity_cli"
               /\ \E s \in Statuses : Moves(a, "commit", [tx[a].row EXCEPT !.status = s], FALSE)
<1> DEFINE row == tx[a].row
<1>1. tx \in [Actors -> Tx] /\ tx[a] \in Tx /\ row \in CredRow /\ tx[a].ok \in BOOLEAN
  BY DEF TypeOK, Tx
<1>2. {"commit", "exchange"} \subseteq Places /\ {"needs_reauth", "error"} \subseteq Statuses
  BY DEF Places, Statuses
<1>3. UNCHANGED <<cred, prof, run, lock, live, lost, aborts>>
  BY DEF Catalog, Rest
<1>4. CASE \E ok \in BOOLEAN : Goes(a, "commit", row, ok)
  BY <1>1, <1>2, <1>3, <1>4, Going
<1>5. CASE row.kind = "codex_oauth" /\ tx' = [tx EXCEPT ![a].pc = "exchange", ![a].forced = TRUE]
  <2> DEFINE t == [tx[a] EXCEPT !.pc = "exchange", !.forced = TRUE]
  <2>1. t \in Tx
    BY <1>1, <1>2, Retyped, Zenon
  <2>2. tx' = [tx EXCEPT ![a] = t]
    BY <1>1, <1>5, Zenon
  <2>3. tx' \in [Actors -> Tx] /\ tx'[a] = t /\ Others(a)
    BY <1>1, <2>1, <2>2, Written, Zenon
  <2>4. t.pc = "exchange" /\ t.row = row /\ t.ok = tx[a].ok /\ t.op = tx[a].op /\ t.c = tx[a].c
    BY <1>1, Zenon DEF Tx
  <2>5. Moves(a, "exchange", row, tx[a].ok)
    BY <2>3, <2>4, Zenon DEF Moves, Same
  <2> QED BY <1>3, <1>5, <2>5
<1>6. ASSUME row.kind = "antigravity_cli", NEW s \in {"needs_reauth", "error"},
             Goes(a, "commit", [row EXCEPT !.status = s], FALSE)
      PROVE  Moves(a, "commit", [row EXCEPT !.status = s], FALSE) /\ s \in Statuses
  <2>1. [row EXCEPT !.status = s] \in CredRow /\ s \in Statuses
    BY <1>1, <1>2, RowsTyped
  <2> QED BY <1>1, <1>2, <1>6, <2>1, Going
<1>7. \/ \E ok \in BOOLEAN : Goes(a, "commit", row, ok)
      \/ row.kind = "codex_oauth" /\ tx' = [tx EXCEPT ![a].pc = "exchange", ![a].forced = TRUE]
      \/ /\ row.kind = "antigravity_cli"
         /\ \E s \in {"needs_reauth", "error"} : Goes(a, "commit", [row EXCEPT !.status = s], FALSE)
  BY DEF Catalog
<1> HIDE DEF row
<1> QED BY <1>3, <1>4, <1>5, <1>6, <1>7 DEF row

LEMMA LockedStep ==
  ASSUME TypeOK, NEW r \in Runs, LockForResolve(r), tx[r].c \in Creds
  PROVE  /\ UNCHANGED <<cred, prof, run, live, lost, aborts>>
         /\ tx[r].op = "resolve" /\ tx[r].pc = "read" /\ Here(tx[r].c)
         /\ Takes(r, tx[r].c) /\ Others(r) /\ Same(r) /\ tx' \in [Actors -> Tx]
         /\ tx'[r].pc = "locked" /\ tx'[r].row = cred[tx[r].c]
<1> DEFINE c == tx[r].c
           t == [tx[r] EXCEPT !.pc = "locked", !.row = cred[c]]
<1>1. /\ UNCHANGED <<cred, prof, run, live, lost, aborts>>
      /\ tx[r].op = "resolve" /\ tx[r].pc = "read" /\ Here(c) /\ Takes(r, c)
      /\ tx' = [tx EXCEPT ![r].pc = "locked", ![r].row = cred[c]]
  BY DEF LockForResolve, At, Rest, Takes
<1>2. r \in Actors /\ tx \in [Actors -> Tx] /\ tx[r] \in Tx /\ cred[c] \in CredRow /\ "locked" \in Places
  BY DEF TypeOK, Actors, Places
<1>3. t \in Tx
  BY <1>2, Retyped, Zenon
<1>4. tx' = [tx EXCEPT ![r] = t]
  BY <1>1, <1>2, Zenon
<1>5. tx' \in [Actors -> Tx] /\ tx'[r] = t /\ Others(r)
  BY <1>2, <1>3, <1>4, Written, Zenon
<1>6. t.pc = "locked" /\ t.row = cred[c] /\ t.op = tx[r].op /\ t.c = tx[r].c
  BY <1>2, Zenon DEF Tx
<1> QED BY <1>1, <1>5, <1>6, Zenon DEF Same

---------------------------------------------------------------------------
(* The invariant.                                                          *)

Resolving == {"refresh", "sync", "resolve"}
Locking == {"update", "delete"} \cup Resolving

Holds(b, c) == /\ tx[b].op \in Locking
               /\ tx[b].pc \in {"locked", "exchange", "catalog", "commit"}
               /\ tx[b].c = c

(* A transaction that has locked a credential is the only one: what it     *)
(* knows of the row stays true until it writes it.                         *)
HoldOK(b) ==
  LET c == tx[b].c  row == tx[b].row IN
  Holds(b, c) =>
    /\ c \in Creds /\ lock[c] = b /\ Here(c)
    /\ row.born /\ ~row.archived /\ row.kind = cred[c].kind
    /\ tx[b].pc = "locked" => row = cred[c]
    /\ lost[c] \/ row.refresh = live[c]
    /\ row.kind = "codex_oauth" /\ row.status = "needs_reauth" => lost[c]
    /\ tx[b].op = "delete" /\ tx[b].ok => UsersOf(c) = {}
    /\ tx[b].pc = "exchange" => row.kind = "codex_oauth"
    /\ tx[b].pc = "catalog" => row.kind # "api_key"
    /\ tx[b].pc = "commit" /\ tx[b].ok /\ Lists(b) => row.kind # "api_key"

PlaceOK(b) == /\ tx[b].pc \in {"exchange", "catalog"} => tx[b].op \in Resolving
              /\ tx[b].pc = "read" => tx[b].c \in Creds

\* The credential that a profile's row names.
Names(row) ==
  /\ row.born /\ ~row.archived /\ Suits(row, row.credential)
  /\ row.credential # None => row.credential \in Creds /\ cred[row.credential].born

(* What was checked before a commit holds at it.                           *)
PendOK(b) ==
  LET c == tx[b].c  p == tx[b].p  row == tx[b].prow IN
  /\ tx[b].op = "mark" => c \in Creds /\ cred[c].born /\ cred[c].kind # "codex_oauth"
  /\ tx[b].op = "create_profile" => Names(row) /\ row.credential = c
  /\ tx[b].op = "update_profile" => /\ p \in Profiles /\ lock[p] = b /\ Open(p)
                                    /\ Names(row) /\ row.credential = c
  /\ tx[b].op = "delete_profile" => p \in Profiles /\ lock[p] = b /\ ActiveRunsOf(p) = {}
  /\ tx[b].op = "create_run" => \A q \in {p, tx[b].judge} \ {None} : q \in Profiles /\ lock[q] = b /\ Open(q)

(* The token in the table is the provider's, or a transaction has it, or   *)
(* it is lost.                                                             *)
CredOK(c) ==
  /\ lost[c] \/ live[c] = cred[c].refresh \/ \E b \in Actors : Holds(b, c)
  /\ cred[c].kind = "codex_oauth" /\ cred[c].status = "needs_reauth" => lost[c]
  /\ ~cred[c].born => live[c] = 0

ProfOK == \A p \in Profiles : Open(p) => Names(prof[p])

RunOK == \A r \in Runs : run[r].status = "active" =>
           \A p \in {run[r].candidate, run[r].judge} \ {None} : Open(p)

IInv == /\ TypeOK
        /\ \A b \in Actors : HoldOK(b) /\ PlaceOK(b) /\ PendOK(b)
        /\ \A c \in Creds : CredOK(c)
        /\ ProfOK /\ RunOK

(* What a step of a, or of nobody, leaves to the others: what they have    *)
(* locked is as they found it.                                             *)
CredsKept(a) ==
  \A c \in Creds : /\ cred[c].born => cred'[c].born /\ cred'[c].kind = cred[c].kind
                   /\ lost[c] => lost'[c]
                   /\ \A b \in Actors \ {a} :
                        lock[c] = b /\ cred[c].born => cred'[c] = cred[c] /\ live'[c] = live[c]

UsersKept(a) ==
  \A c \in Creds, b \in Actors \ {a} :
    lock[c] = b /\ cred[c].born /\ UsersOf(c) = {} => UsersOf(c)' = {}

ProfsKept(a) ==
  \A p \in Profiles, b \in Actors \ {a} :
    lock[p] = b => /\ Open(p) => Open(p)'
                   /\ ActiveRunsOf(p) = {} => ActiveRunsOf(p)' = {}

LocksKept(a) == \A b \in Actors \ {a}, x \in Rows : lock[x] = b => lock'[x] = b

Kept(a) == Others(a) /\ LocksKept(a) /\ CredsKept(a) /\ UsersKept(a) /\ ProfsKept(a)

\* What a profile row says of its credential survives a step that keeps the credentials.
LEMMA NamesKept ==
  ASSUME NEW a, CredsKept(a), NEW row \in ProfRow, Names(row)
  PROVE  /\ Suits(row, row.credential)'
         /\ row.credential # None => row.credential \in Creds /\ cred'[row.credential].born
BY DEF CredsKept, Names, Suits

\* A step that keeps the tables keeps what the other transactions rely on.
LEMMA OthersKept ==
  ASSUME IInv, NEW a, Kept(a), NEW b \in Actors \ {a}
  PROVE  HoldOK(b)' /\ PlaceOK(b)' /\ PendOK(b)'
<1>1. tx'[b] = tx[b] /\ tx[b] \in Tx
  BY DEF Kept, Others, IInv, TypeOK
<1>2. HoldOK(b)'
  <2>0. PICK c : c = tx[b].c
    OBVIOUS
  <2>1. SUFFICES ASSUME Holds(b, c) PROVE HoldOK(b)'
    BY <1>1, <2>0 DEF HoldOK, Holds
  <2>2. /\ c \in Creds /\ lock[c] = b /\ cred[c].born /\ HoldOK(b)
    BY <2>0, <2>1 DEF IInv, HoldOK, Here
  <2>3. cred'[c] = cred[c] /\ live'[c] = live[c] /\ (lost[c] => lost'[c])
    BY <2>2 DEF Kept, CredsKept
  <2>4. lock'[c] = b
    BY <2>2 DEF Kept, LocksKept, Rows
  <2>5. UsersOf(c) = {} => UsersOf(c)' = {}
    BY <2>2 DEF Kept, UsersKept
  <2> QED BY <1>1, <2>0, <2>1, <2>2, <2>3, <2>4, <2>5 DEF HoldOK, Here, Holds, Lists
<1>3. PlaceOK(b)'
  BY <1>1 DEF IInv, PlaceOK
<1>4. PendOK(b)'
  <2>a. PICK c, p, row : c = tx[b].c /\ p = tx[b].p /\ row = tx[b].prow
    OBVIOUS
  <2>0. PendOK(b) /\ CredsKept(a) /\ ProfsKept(a) /\ LocksKept(a) /\ row \in ProfRow
    BY <1>1, <2>a DEF IInv, Kept, Tx
  <2>1. tx[b].op = "mark" => c \in Creds /\ cred'[c].born /\ cred'[c].kind # "codex_oauth"
    BY <2>a, <2>0 DEF PendOK, CredsKept
  <2>2. Names(row) => Names(row)'
    BY <1>1, <2>0, NamesKept DEF Names
  <2>3. ASSUME NEW q \in Profiles, lock[q] = b
        PROVE  lock'[q] = b /\ (Open(q) => Open(q)') /\ (ActiveRunsOf(q) = {} => ActiveRunsOf(q)' = {})
    BY <2>0, <2>3 DEF ProfsKept, LocksKept, Rows
  <2>4. tx[b].op = "create_profile" => Names(row)' /\ row.credential = c
    BY <2>a, <2>0, <2>2 DEF PendOK
  <2>5. tx[b].op = "update_profile" => /\ p \in Profiles /\ lock'[p] = b /\ Open(p)'
                                       /\ Names(row)' /\ row.credential = c
    BY <2>a, <2>0, <2>2, <2>3 DEF PendOK
  <2>6. tx[b].op = "delete_profile" => p \in Profiles /\ lock'[p] = b /\ ActiveRunsOf(p)' = {}
    BY <2>a, <2>0, <2>3 DEF PendOK
  <2>7. tx[b].op = "create_run" => \A q \in {p, tx[b].judge} \ {None} : q \in Profiles /\ lock'[q] = b /\ Open(q)'
    BY <2>a, <2>0, <2>3 DEF PendOK
  <2> QED BY <1>1, <2>a, <2>1, <2>4, <2>5, <2>6, <2>7 DEF PendOK, ActiveRunsOf, Open
<1> QED BY <1>2, <1>3, <1>4

\* A credential never goes while a profile uses it.
Spares == \A c \in Creds : (Here(c) /\ ~Here(c)') => UsersOf(c)' = {}

LEMMA IdleOK ==
  ASSUME NEW a, tx'[a] = Idle
  PROVE  HoldOK(a)' /\ PlaceOK(a)' /\ PendOK(a)'
<1>1. Idle.op = "none" /\ Idle.pc = "idle"
  BY DEF Idle
<1> QED BY <1>1 DEF HoldOK, PlaceOK, PendOK, Holds, Locking, Resolving

\* A credential that a step does not write.
LEMMA CredStays ==
  ASSUME IInv, NEW a, Others(a), NEW c \in Creds,
         cred'[c] = cred[c], live'[c] = live[c], lost[c] => lost'[c],
         (a \in Actors /\ Holds(a, c)) => (lost'[c] \/ live[c] = cred[c].refresh \/ Holds(a, c)')
  PROVE  CredOK(c)'
<1>1. CredOK(c)
  BY DEF IInv
<1>2. ASSUME NEW b \in Actors \ {a}, Holds(b, c) PROVE Holds(b, c)'
  BY <1>2 DEF Others, Holds
<1> QED BY <1>1, <1>2 DEF CredOK

\* Whoever has not locked a credential does not hold it.
LEMMA Holder ==
  ASSUME IInv, NEW b \in Actors, NEW c, Holds(b, c)
  PROVE  c \in Creds /\ lock[c] = b /\ Here(c) /\ HoldOK(b)
BY DEF IInv, HoldOK, Holds

\* A step that writes no table but that of the transactions.
LEMMA Unwritten ==
  ASSUME IInv, NEW a, UNCHANGED <<cred, prof, run, live, lost>>
  PROVE  CredsKept(a) /\ UsersKept(a) /\ ProfsKept(a) /\ ProfOK' /\ RunOK' /\ Spares
<1>1. ProfOK' /\ RunOK'
  BY DEF IInv, ProfOK, RunOK, Open, Names, Suits
<1>2. CredsKept(a)
  BY DEF CredsKept
<1>3. \A c : UsersOf(c)' = UsersOf(c) /\ Here(c)' = Here(c)
  BY DEF UsersOf, Open, Here
<1>4. \A p : ActiveRunsOf(p)' = ActiveRunsOf(p) /\ Open(p)' = Open(p)
  BY DEF ActiveRunsOf, Open
<1> QED BY <1>1, <1>2, <1>3, <1>4 DEF UsersKept, ProfsKept, Spares

\* What a step owes: the types, the tables, and the place of the one who moves.
LEMMA Assembled ==
  ASSUME IInv, NEW a, Others(a), LocksKept(a), TypeOK',
         CredsKept(a), UsersKept(a), ProfsKept(a),
         a \in Actors => HoldOK(a)' /\ PlaceOK(a)' /\ PendOK(a)',
         \A c \in Creds : CredOK(c)', ProfOK', RunOK'
  PROVE  IInv'
<1>1. Kept(a)
  BY DEF Kept
<1>2. \A b \in Actors \ {a} : HoldOK(b)' /\ PlaceOK(b)' /\ PendOK(b)'
  BY <1>1, OthersKept
<1> QED BY <1>2 DEF IInv

---------------------------------------------------------------------------
(* Steps that open a transaction.                                          *)

\* The transaction just begun holds what its place asks for.
LEMMA Opened ==
  ASSUME IInv, NEW a \in Actors, Opens(a) \/ (a \in Runs /\ OpensThread(a))
  PROVE  HoldOK(a)' /\ PlaceOK(a)' /\ PendOK(a)'
<1>0. /\ TypeOK' /\ UNCHANGED <<cred, prof, run, live, lost>> /\ tx \in [Actors -> Tx]
  BY OpensStep DEF IInv, TypeOK
<1>1. CASE CheckAttach(a)
  <2>1. tx'[a].op = "attach" /\ tx'[a].pc = "commit"
    BY <1>0, <1>1 DEF CheckAttach, Idle
  <2> QED BY <2>1 DEF HoldOK, PlaceOK, PendOK, Holds, Locking, Resolving
<1>2. ASSUME NEW c \in Creds, NEW op \in {"update", "refresh", "sync", "delete"}, LockCredential(a, op, c)
      PROVE  HoldOK(a)' /\ PlaceOK(a)' /\ PendOK(a)'
  <2>1. /\ tx'[a].op = op /\ tx'[a].pc = "locked" /\ tx'[a].c = c /\ tx'[a].row = cred[c]
        /\ tx'[a].ok = (op = "delete" /\ UsersOf(c) = {})
    BY <1>0, <1>2 DEF LockCredential, Idle
  <2>2. lock[c] = None /\ Here(c) /\ lock'[c] = a
    BY <1>2 DEF LockCredential, IInv, TypeOK, Rows
  <2>3. \A b \in Actors : ~Holds(b, c)
    BY <2>2, Holder, NamesAssumption DEF Actors
  <2>4. CredOK(c)
    BY DEF IInv
  <2>5. HoldOK(a)'
    <3>1. UsersOf(c)' = UsersOf(c) /\ Here(c)'
      BY <1>0, <2>2 DEF UsersOf, Open, Here
    <3>2. c \in Creds /\ lock'[c] = a /\ cred[c].born /\ ~cred[c].archived
      BY <2>2 DEF Here
    <3>3. lost[c] \/ cred[c].refresh = live[c]
      BY <2>3, <2>4 DEF CredOK
    <3>4. cred[c].kind = "codex_oauth" /\ cred[c].status = "needs_reauth" => lost[c]
      BY <2>4 DEF CredOK
    <3> QED BY <1>0, <2>1, <3>1, <3>2, <3>3, <3>4 DEF HoldOK
  <2> QED BY <2>1, <2>5 DEF PlaceOK, PendOK
<1>3. ASSUME NEW maker \in Asked, NEW c \in Creds \cup {None}, NEW e \in BOOLEAN, CheckProfile(a, maker, c, e)
      PROVE  HoldOK(a)' /\ PlaceOK(a)' /\ PendOK(a)'
  <2> DEFINE row == [provider |-> maker, credential |-> c, born |-> TRUE, enabled |-> e, archived |-> FALSE]
  <2>1. tx'[a].op = "create_profile" /\ tx'[a].pc = "commit" /\ tx'[a].c = c /\ tx'[a].prow = row
    BY <1>0, <1>3 DEF CheckProfile, Idle
  <2>2. Suits([provider |-> maker], c) /\ (c # None => Here(c))
    BY <1>3 DEF CheckProfile
  <2>3. Names(row)' /\ row.credential = c
    BY <1>0, <2>2 DEF Names, Suits, Here
  <2>4. Names(tx[a].prow)'
    BY <2>1, <2>3 DEF Names, Suits
  <2> QED BY <2>1, <2>3, <2>4 DEF HoldOK, PlaceOK, PendOK, Holds, Locking, Resolving
<1>4. ASSUME NEW maker \in Asked, NEW c \in Creds \cup {None}, NEW e \in BOOLEAN, LockProfile(a, maker, c, e)
      PROVE  HoldOK(a)' /\ PlaceOK(a)' /\ PendOK(a)'
  <2>1. PICK p \in Profiles :
          /\ lock[p] = None /\ Open(p) /\ (c # None => Here(c))
          /\ Suits([prof[p] EXCEPT !.provider = maker, !.credential = c, !.enabled = e], c)
          /\ lock' = [lock EXCEPT ![p] = a]
          /\ tx' = [tx EXCEPT ![a] = [Idle EXCEPT !.op = "update_profile", !.pc = "commit",
                !.c = c, !.p = p, !.prow = [prof[p] EXCEPT !.provider = maker, !.credential = c, !.enabled = e]]]
    BY <1>4 DEF LockProfile
  <2>2. PICK row : row = [prof[p] EXCEPT !.provider = maker, !.credential = c, !.enabled = e]
    OBVIOUS
  <2>3. /\ tx'[a].op = "update_profile" /\ tx'[a].pc = "commit" /\ tx'[a].c = c /\ tx'[a].p = p
        /\ tx'[a].prow = row
    BY <1>0, <2>1, <2>2 DEF Idle
  <2>4. row.credential = c /\ row.born = prof[p].born /\ row.archived = prof[p].archived
    BY <2>2 DEF IInv, TypeOK, ProfRow
  <2>5. Names(row)'
    BY <1>0, <2>1, <2>2, <2>4 DEF Names, Suits, Here, Open
  <2>6. Names(tx[a].prow)'
    BY <2>3, <2>5 DEF Names, Suits
  <2>7. lock'[p] = a /\ Open(p)'
    BY <1>0, <2>1 DEF IInv, TypeOK, Rows, Open
  <2>8. Open(tx[a].p)'
    BY <2>3, <2>7 DEF Open
  <2> QED BY <2>3, <2>4, <2>6, <2>7, <2>8 DEF HoldOK, PlaceOK, PendOK, Holds, Locking, Resolving
<1>5. ASSUME NEW p \in Profiles, LockForDelete(a, p)
      PROVE  HoldOK(a)' /\ PlaceOK(a)' /\ PendOK(a)'
  <2>1. tx'[a].op = "delete_profile" /\ tx'[a].pc = "commit" /\ tx'[a].p = p
    BY <1>0, <1>5 DEF LockForDelete, Idle
  <2>2. lock'[p] = a /\ ActiveRunsOf(tx[a].p)' = {}
    BY <1>0, <1>5, <2>1 DEF LockForDelete, IInv, TypeOK, Rows, ActiveRunsOf
  <2> QED BY <2>1, <2>2 DEF HoldOK, PlaceOK, PendOK, Holds, Locking, Resolving
<1>6. ASSUME NEW p \in Profiles, NEW judge \in Profiles \cup {None}, LockForRun(a, p, judge)
      PROVE  HoldOK(a)' /\ PlaceOK(a)' /\ PendOK(a)'
  <2>1. tx'[a].op = "create_run" /\ tx'[a].pc = "commit" /\ tx'[a].p = p /\ tx'[a].judge = judge
    BY <1>0, <1>6 DEF LockForRun, Idle
  <2>2. \A q \in {p, judge} \ {None} : q \in Profiles /\ lock'[q] = a /\ Open(q)'
    BY <1>0, <1>6 DEF LockForRun, Rows, Open
  <2> QED BY <2>1, <2>2 DEF HoldOK, PlaceOK, PendOK, Holds, Locking, Resolving, Open
<1>7. ASSUME NEW p \in Profiles, NEW forced \in BOOLEAN, ReadProfile(a, p, forced)
      PROVE  HoldOK(a)' /\ PlaceOK(a)' /\ PendOK(a)'
  <2>1. tx'[a].op = "resolve" /\ tx'[a].pc = "read" /\ tx'[a].c = prof[p].credential
    BY <1>0, <1>7 DEF ReadProfile, Idle
  <2>2. prof[p].credential \in Creds
    BY <1>7 DEF ReadProfile, IInv, TypeOK, ProfRow
  <2> QED BY <2>1, <2>2 DEF HoldOK, PlaceOK, PendOK, Holds
<1>8. ASSUME NEW p \in Profiles, ReadForMark(a, p)
      PROVE  HoldOK(a)' /\ PlaceOK(a)' /\ PendOK(a)'
  <2>1. tx'[a].op = "mark" /\ tx'[a].pc = "commit" /\ tx'[a].c = prof[p].credential
    BY <1>0, <1>8 DEF ReadForMark, Idle
  <2>2. PICK c : c = prof[p].credential
    OBVIOUS
  <2>3. c \in Creds /\ cred'[c].born /\ cred'[c].kind # "codex_oauth"
    BY <1>0, <1>8, <2>2 DEF ReadForMark, IInv, TypeOK, ProfRow, Here
  <2> QED BY <2>1, <2>2, <2>3 DEF HoldOK, PlaceOK, PendOK, Holds, Locking, Resolving
<1> QED BY <1>1, <1>2, <1>3, <1>4, <1>5, <1>6, <1>7, <1>8 DEF Opens, OpensThread

\* A beginning of a transaction preserves the invariant.
LEMMA OpenNext ==
  ASSUME IInv, NEW a \in Actors, Opens(a) \/ (a \in Runs /\ OpensThread(a))
  PROVE  IInv' /\ Spares
<1>1. /\ TypeOK' /\ UNCHANGED <<cred, prof, run, live, lost>> /\ Others(a) /\ LocksKept(a) /\ tx[a].pc = "idle"
  BY OpensStep DEF IInv, LocksKept
<1>2. CredsKept(a) /\ UsersKept(a) /\ ProfsKept(a) /\ ProfOK' /\ RunOK' /\ Spares
  BY <1>1, Unwritten
<1>3. \A c \in Creds : CredOK(c)'
  BY <1>1, CredStays DEF Holds
<1> QED BY <1>1, <1>2, <1>3, Opened, Assembled

---------------------------------------------------------------------------
(* Steps of a resolution.                                                  *)

\* A transaction that has locked c goes on with the row it has.
LEMMA MovedOK ==
  ASSUME IInv, NEW a \in Actors, NEW c \in Creds, NEW at \in {"exchange", "catalog", "commit"},
         NEW row \in CredRow, NEW ok \in BOOLEAN,
         Holds(a, c), tx[a].op \in Resolving, Moves(a, at, row, ok), UNCHANGED <<cred, lock>>,
         row.born, ~row.archived, row.kind = tx[a].row.kind,
         lost'[c] \/ row.refresh = live'[c],
         row.kind = "codex_oauth" /\ row.status = "needs_reauth" => lost'[c],
         at = "exchange" => row.kind = "codex_oauth",
         at = "catalog" => row.kind # "api_key",
         at = "commit" /\ ok /\ Lists(a) => row.kind # "api_key"
  PROVE  HoldOK(a)' /\ PlaceOK(a)' /\ PendOK(a)' /\ Holds(a, c)'
<1>1. tx'[a].op = tx[a].op /\ tx'[a].c = c /\ tx'[a].pc = at /\ tx'[a].row = row /\ tx'[a].ok = ok
  BY DEF Moves, Same, Holds
<1>2. lock'[c] = a /\ Here(c)' /\ row.kind = cred'[c].kind
  BY Holder DEF HoldOK, Here, Holds
<1>3. Holds(a, c)'
  BY <1>1 DEF Holds, Locking
<1>4. Lists(a)' = Lists(a)
  BY <1>1 DEF Lists
<1>5. tx[a].op \notin {"delete", "mark", "create_profile", "update_profile", "delete_profile", "create_run"}
  BY DEF Resolving
<1>6. at \notin {"locked", "read"}
  OBVIOUS
<1>7. HoldOK(a)'
  BY <1>1, <1>2, <1>4, <1>5, <1>6 DEF HoldOK
<1>8. PlaceOK(a)' /\ PendOK(a)'
  BY <1>1, <1>5, <1>6 DEF PlaceOK, PendOK
<1> QED BY <1>3, <1>7, <1>8

\* A resolution's steps between its awaits preserve the invariant.
LEMMA ResolveNext ==
  ASSUME IInv, NEW a \in Actors, Resolve(a)
  PROVE  IInv' /\ Spares
<1>0. PICK c : c = tx[a].c
  OBVIOUS
<1>1. tx[a].pc = "locked" /\ tx[a].op \in Resolving /\ Holds(a, c)
  BY <1>0 DEF Resolve, Holds, Resolving, Locking
<1>2. /\ c \in Creds /\ HoldOK(a) /\ tx[a].row = cred[c] /\ cred[c] \in CredRow
      /\ tx \in [Actors -> Tx] /\ lock \in [Rows -> Actors \cup {None}]
  BY <1>0, <1>1, Holder DEF HoldOK, IInv, TypeOK
<1>3. /\ UNCHANGED <<cred, prof, run, live, lost, aborts>> /\ Others(a) /\ tx' \in [Actors -> Tx]
      /\ lock' = lock \/ lock' = Unlock(a)
  BY ResolveStep DEF IInv, Moves
<1>4. TypeOK' /\ LocksKept(a)
  BY <1>2, <1>3, LockTyped DEF IInv, TypeOK, LocksKept
<1>5. CredsKept(a) /\ UsersKept(a) /\ ProfsKept(a) /\ ProfOK' /\ RunOK' /\ Spares
  BY <1>3, Unwritten
<1>6. ASSUME NEW d \in Creds, Holds(a, d) => (live[d] = cred[d].refresh \/ lost[d] \/ Holds(a, d)')
      PROVE  CredOK(d)'
  BY <1>3, <1>6, CredStays
<1>7. \A d \in Creds : Holds(a, d) => (lost[d] \/ live[d] = cred[d].refresh)
  BY <1>0, <1>1, <1>2 DEF Holds, HoldOK
<1>8. \A d \in Creds : CredOK(d)'
  BY <1>6, <1>7
<1>9. HoldOK(a)' /\ PlaceOK(a)' /\ PendOK(a)'
  <2>1. Ready(cred[c]) \in CredRow
    <3>1. "ready" \in Statuses
      BY DEF Statuses
    <3> QED BY <1>2, <3>1, RowsTyped, Zenon DEF Ready
  <2>2. /\ Ready(cred[c]).born = cred[c].born /\ Ready(cred[c]).archived = cred[c].archived
        /\ Ready(cred[c]).kind = cred[c].kind /\ Ready(cred[c]).refresh = cred[c].refresh
        /\ Ready(cred[c]).status = "ready"
    BY <1>2 DEF Ready, CredRow
  <2>3. /\ cred[c].born /\ ~cred[c].archived /\ (lost'[c] \/ cred[c].refresh = live'[c])
        /\ (cred[c].kind = "codex_oauth" /\ cred[c].status = "needs_reauth" => lost'[c])
    BY <1>0, <1>1, <1>2, <1>3 DEF HoldOK, Here
  <2>4. CASE tx'[a] = Idle
    BY <2>4, IdleOK
  <2>5. CASE lock' = lock /\ cred[c].kind = "api_key" /\ Moves(a, "commit", cred[c], FALSE)
    BY <1>1, <1>2, <1>3, <2>3, <2>5, MovedOK
  <2>6. CASE lock' = lock /\ cred[c].kind = "codex_oauth" /\ Moves(a, "exchange", cred[c], FALSE)
    BY <1>1, <1>2, <1>3, <2>3, <2>6, MovedOK
  <2>7. CASE lock' = lock /\ ~Lists(a) /\ Moves(a, "commit", Ready(cred[c]), TRUE)
    BY <1>1, <1>2, <1>3, <2>1, <2>2, <2>3, <2>7, MovedOK
  <2>8. CASE lock' = lock /\ Lists(a) /\ cred[c].kind # "api_key" /\ Moves(a, "catalog", Ready(cred[c]), TRUE)
    BY <1>1, <1>2, <1>3, <2>1, <2>2, <2>3, <2>8, MovedOK
  <2> QED BY <1>2, <2>4, <2>5, <2>6, <2>7, <2>8, ResolveStep DEF IInv
<1> QED BY <1>3, <1>4, <1>5, <1>8, <1>9, Assembled

\* The token exchange, whose answer the transaction keeps unflushed, preserves it.
LEMMA ExchangeNext ==
  ASSUME IInv, NEW a \in Actors, Exchange(a)
  PROVE  IInv' /\ Spares
<1>0. PICK c, row : c = tx[a].c /\ row = tx[a].row
  OBVIOUS
<1>1. tx[a].pc = "exchange" /\ tx[a].op \in Resolving /\ Holds(a, c)
  <2>1. tx[a].pc = "exchange" /\ PlaceOK(a)
    BY DEF Exchange, IInv
  <2> QED BY <1>0, <2>1 DEF PlaceOK, Holds, Locking
<1>2. /\ c \in Creds /\ HoldOK(a) /\ row.kind = "codex_oauth" /\ row.born /\ ~row.archived
      /\ lock[c] = a /\ (lost[c] \/ row.refresh = live[c])
  BY <1>0, <1>1, Holder DEF HoldOK
<1>3. row \in CredRow /\ tx \in [Actors -> Tx]
  BY <1>0 DEF IInv, TypeOK, Tx
<1>4. /\ UNCHANGED <<cred, prof, run, lock, aborts>>
      /\ live' \in [Creds -> 0..MaxRotations] /\ lost' \in [Creds -> BOOLEAN]
      /\ \A d \in Creds \ {c} : live'[d] = live[d] /\ lost'[d] = lost[d]
      /\ lost[c] => lost'[c]
      /\ \/ /\ row.refresh = live[c]
            /\ \/ \E at \in {"catalog", "commit"} : Moves(a, at, Granted(row, live'[c]), TRUE)
               \/ Moves(a, "commit", Unanswered(row), FALSE) /\ (lost'[c] \/ live'[c] = live[c])
         \/ row.refresh # live[c] /\ UNCHANGED <<live, lost>> /\ Moves(a, "commit", Rejected(row), FALSE)
  BY <1>0, <1>2, ExchangeStep DEF IInv
<1>5. TypeOK' /\ LocksKept(a) /\ Others(a)
  BY <1>4 DEF IInv, TypeOK, LocksKept, Moves
<1>6. HoldOK(a)' /\ PlaceOK(a)' /\ PendOK(a)' /\ Holds(a, c)'
  <2>1. CASE \E at \in {"catalog", "commit"} : Moves(a, at, Granted(row, live'[c]), TRUE)
    <3>1. PICK new : new = Granted(row, live'[c])
      OBVIOUS
    <3>2. live'[c] \in Nat
      BY <1>2, <1>4, BoundAssumption
    <3>3. new \in CredRow
      BY <1>3, <3>1, <3>2, RowsTyped, Zenon DEF Granted
    <3>4. /\ new.born = row.born /\ new.archived = row.archived /\ new.kind = row.kind
          /\ new.refresh = live'[c] /\ new.status = "ready"
      BY <1>3, <3>1 DEF Granted, CredRow
    <3> QED BY <1>0, <1>1, <1>2, <1>4, <2>1, <3>1, <3>3, <3>4, MovedOK
  <2>2. CASE Moves(a, "commit", Unanswered(row), FALSE) /\ (lost'[c] \/ live'[c] = live[c])
    <3>1. PICK new : new = Unanswered(row)
      OBVIOUS
    <3>2. "error" \in Statuses
      BY DEF Statuses
    <3>3. new \in CredRow
      BY <1>3, <3>1, <3>2, RowsTyped, Zenon DEF Unanswered
    <3>4. /\ new.born = row.born /\ new.archived = row.archived /\ new.kind = row.kind
          /\ new.refresh = row.refresh /\ new.status = "error"
      BY <1>3, <3>1 DEF Unanswered, CredRow
    <3>5. lost'[c] \/ new.refresh = live'[c]
      BY <1>2, <1>4, <2>2, <3>4
    <3> QED BY <1>0, <1>1, <1>2, <1>4, <2>2, <3>1, <3>3, <3>4, <3>5, MovedOK
  <2>3. CASE row.refresh # live[c] /\ UNCHANGED <<live, lost>> /\ Moves(a, "commit", Rejected(row), FALSE)
    <3>1. PICK new : new = Rejected(row)
      OBVIOUS
    <3>2. "needs_reauth" \in Statuses
      BY DEF Statuses
    <3>3. new \in CredRow
      BY <1>3, <3>1, <3>2, RowsTyped, Zenon DEF Rejected
    <3>4. new.born = row.born /\ new.archived = row.archived /\ new.kind = row.kind
      BY <1>3, <3>1 DEF Rejected, CredRow
    <3>5. lost'[c]
      BY <1>2, <1>4, <2>3
    <3> QED BY <1>0, <1>1, <1>2, <1>4, <2>3, <3>1, <3>3, <3>4, <3>5, MovedOK
  <2> QED BY <1>4, <2>1, <2>2, <2>3
<1>7. ASSUME NEW b \in Actors \ {a}, NEW d \in Creds, lock[d] = b PROVE d # c
  BY <1>2, <1>7
<1>8. CredsKept(a)
  BY <1>4, <1>7 DEF CredsKept
<1>9. ProfOK' /\ RunOK'
  BY <1>4 DEF IInv, ProfOK, RunOK, Open, Names, Suits
<1>10. UsersKept(a) /\ ProfsKept(a) /\ Spares
  BY <1>4 DEF UsersKept, ProfsKept, Spares, UsersOf, Open, ActiveRunsOf, Here
<1>11. \A d \in Creds : CredOK(d)'
  <2>1. CredOK(c)'
    <3>1. CredOK(c) /\ cred[c].born
      BY <1>2, <1>1, Holder DEF IInv, Here
    <3> QED BY <1>4, <1>6, <3>1 DEF CredOK
  <2>2. ASSUME NEW d \in Creds \ {c} PROVE CredOK(d)'
    <3>1. ~Holds(a, d)
      BY <1>0 DEF Holds
    <3> QED BY <1>4, <1>5, <3>1, CredStays
  <2> QED BY <2>1, <2>2
<1> QED BY <1>5, <1>6, <1>8, <1>9, <1>10, <1>11, Assembled

\* The answer to the request for the catalog preserves the invariant.
LEMMA CatalogNext ==
  ASSUME IInv, NEW a \in Actors, Catalog(a)
  PROVE  IInv' /\ Spares
<1>0. PICK c, row : c = tx[a].c /\ row = tx[a].row
  OBVIOUS
<1>1. tx[a].op \in Resolving /\ Holds(a, c) /\ tx[a].pc = "catalog"
  <2>1. tx[a].pc = "catalog" /\ PlaceOK(a)
    BY DEF Catalog, IInv
  <2> QED BY <1>0, <2>1 DEF PlaceOK, Holds, Locking
<1>2. /\ c \in Creds /\ row.kind # "api_key" /\ row.born /\ ~row.archived
      /\ (lost[c] \/ row.refresh = live[c])
      /\ (row.kind = "codex_oauth" /\ row.status = "needs_reauth" => lost[c])
  BY <1>0, <1>1, Holder DEF HoldOK
<1>3. row \in CredRow /\ tx \in [Actors -> Tx] /\ tx[a].ok \in BOOLEAN
  BY <1>0 DEF IInv, TypeOK, Tx
<1>4. /\ UNCHANGED <<cred, prof, run, lock, live, lost, aborts>>
      /\ \/ \E ok \in BOOLEAN : Moves(a, "commit", row, ok)
         \/ row.kind = "codex_oauth" /\ Moves(a, "exchange", row, tx[a].ok)
         \/ /\ row.kind = "antigravity_cli"
            /\ \E s \in Statuses : Moves(a, "commit", [row EXCEPT !.status = s], FALSE)
  BY <1>0, CatalogStep DEF IInv
<1>5. TypeOK' /\ LocksKept(a) /\ Others(a)
  BY <1>4 DEF IInv, TypeOK, LocksKept, Moves
<1>6. HoldOK(a)' /\ PlaceOK(a)' /\ PendOK(a)' /\ Holds(a, c)'
  <2>1. CASE \E ok \in BOOLEAN : Moves(a, "commit", row, ok)
    BY <1>0, <1>1, <1>2, <1>3, <1>4, <2>1, MovedOK
  <2>2. CASE row.kind = "codex_oauth" /\ Moves(a, "exchange", row, tx[a].ok)
    BY <1>0, <1>1, <1>2, <1>3, <1>4, <2>2, MovedOK
  <2>3. ASSUME row.kind = "antigravity_cli", NEW s \in Statuses, Moves(a, "commit", [row EXCEPT !.status = s], FALSE)
        PROVE  HoldOK(a)' /\ PlaceOK(a)' /\ PendOK(a)' /\ Holds(a, c)'
    <3>1. PICK new : new = [row EXCEPT !.status = s]
      OBVIOUS
    <3>2. new \in CredRow
      BY <1>3, <3>1, RowsTyped, Zenon
    <3>3. /\ new.born = row.born /\ new.archived = row.archived /\ new.kind = row.kind
          /\ new.refresh = row.refresh
      BY <1>3, <3>1 DEF CredRow
    <3> QED BY <1>0, <1>1, <1>2, <1>4, <2>3, <3>1, <3>2, <3>3, MovedOK
  <2> QED BY <1>4, <2>1, <2>2, <2>3
<1>7. CredsKept(a) /\ UsersKept(a) /\ ProfsKept(a) /\ ProfOK' /\ RunOK' /\ Spares
  BY <1>4, Unwritten
<1>8. \A d \in Creds : CredOK(d)'
  <2>1. \A d \in Creds : Holds(a, d) => d = c
    BY <1>0 DEF Holds
  <2> QED BY <1>4, <1>5, <1>6, <2>1, CredStays
<1> QED BY <1>5, <1>6, <1>7, <1>8, Assembled

\* resolve_model_credential takes the lock of the credential its thread has read.
LEMMA LockedNext ==
  ASSUME IInv, NEW r \in Runs, LockForResolve(r)
  PROVE  IInv' /\ Spares
<1>0. PICK c : c = tx[r].c
  OBVIOUS
<1>1. r \in Actors /\ c \in Creds /\ None \notin Actors
  <2>1. r \in Actors /\ PlaceOK(r) /\ tx[r].pc = "read"
    BY DEF IInv, Actors, LockForResolve, At
  <2> QED BY <1>0, <2>1, NamesAssumption DEF PlaceOK, Actors
<1>2. /\ UNCHANGED <<cred, prof, run, live, lost, aborts>>
      /\ tx[r].op = "resolve" /\ tx[r].pc = "read" /\ Here(c)
      /\ Takes(r, c) /\ Others(r) /\ tx'[r].op = "resolve" /\ tx'[r].c = c /\ tx' \in [Actors -> Tx]
      /\ tx'[r].pc = "locked" /\ tx'[r].row = cred[c]
  BY <1>0, <1>1, LockedStep DEF IInv, Same
<1>3. lock' \in [Rows -> Actors \cup {None}] /\ LocksKept(r) /\ lock'[c] = r
  BY <1>1, <1>2, LockTyped DEF IInv, TypeOK, LocksKept, Takes, Rows
<1>4. TypeOK'
  BY <1>2, <1>3 DEF IInv, TypeOK
<1>5. CredsKept(r) /\ UsersKept(r) /\ ProfsKept(r) /\ ProfOK' /\ RunOK' /\ Spares
  BY <1>2, Unwritten
<1>6. \A b \in Actors : ~Holds(b, c)
  BY <1>1, <1>2, Holder DEF Takes
<1>7. CredOK(c)
  BY <1>1 DEF IInv
<1>8. HoldOK(r)'
  BY <1>1, <1>2, <1>3, <1>6, <1>7 DEF HoldOK, CredOK, Here
<1>9. PlaceOK(r)' /\ PendOK(r)'
  BY <1>2 DEF PlaceOK, PendOK
<1>10. \A d \in Creds : CredOK(d)'
  BY <1>2, CredStays DEF Holds
<1> QED BY <1>1, <1>2, <1>3, <1>4, <1>5, <1>8, <1>9, <1>10, Assembled

---------------------------------------------------------------------------
(* Steps that write the tables.                                            *)

\* A transaction that ends leaves nothing behind but the rows it committed.
LEMMA Ended ==
  ASSUME IInv, NEW a \in Actors, Closes(a) \/ (a \in Runs /\ ClosesThread(a)),
         TablesType', CredsKept(a), UsersKept(a), ProfsKept(a),
         \A c \in Creds : CredOK(c)', ProfOK', RunOK'
  PROVE  IInv'
<1>1. /\ tx' \in [Actors -> Tx] /\ tx'[a] = Idle /\ Others(a)
      /\ lock' \in [Rows -> Actors \cup {None}] /\ LocksKept(a)
  BY EndsStep DEF IInv, LocksKept
<1>2. TypeOK'
  BY <1>1 DEF TypeOK, TablesType
<1> QED BY <1>1, <1>2, IdleOK, Assembled

\* A row of a credential that nobody else has locked.
LEMMA WroteCred ==
  ASSUME IInv, NEW a \in Actors, NEW c \in Creds, Others(a), \A b \in Actors \ {a} : lock[c] # b,
         \A d \in Creds : Holds(a, d) => d = c,
         NEW new \in CredRow, cred' = [cred EXCEPT ![c] = new], UNCHANGED <<live, lost>>,
         cred[c].born, new.born, new.kind = cred[c].kind,
         lost[c] \/ live[c] = new.refresh,
         new.kind = "codex_oauth" /\ new.status = "needs_reauth" => lost[c]
  PROVE  /\ cred' \in [Creds -> CredRow] /\ CredsKept(a) /\ cred'[c] = new
         /\ \A d \in Creds : CredOK(d)'
         /\ \A d \in Creds \ {c} : cred'[d] = cred[d]
<1>1. cred' \in [Creds -> CredRow] /\ cred'[c] = new /\ \A d \in Creds \ {c} : cred'[d] = cred[d]
  BY DEF IInv, TypeOK
<1>2. CredsKept(a)
  BY <1>1 DEF CredsKept
<1>3. CredOK(c)'
  BY <1>1 DEF CredOK
<1>4. \A d \in Creds \ {c} : CredOK(d)'
  BY <1>1, CredStays
<1> QED BY <1>1, <1>2, <1>3, <1>4

\* What writes of credentials leave of the profiles and the runs.
LEMMA ProfsStay ==
  ASSUME IInv, NEW a, CredsKept(a), UNCHANGED <<prof, run>>
  PROVE  UsersKept(a) /\ ProfsKept(a) /\ ProfOK' /\ RunOK' /\ \A c : UsersOf(c)' = UsersOf(c)
<1>1. \A p : Open(p)' = Open(p) /\ ActiveRunsOf(p)' = ActiveRunsOf(p)
  BY DEF Open, ActiveRunsOf
<1>2. \A c : UsersOf(c)' = UsersOf(c)
  BY <1>1 DEF UsersOf
<1>3. UsersKept(a) /\ ProfsKept(a)
  BY <1>1, <1>2 DEF UsersKept, ProfsKept
<1>4. RunOK'
  BY <1>1 DEF IInv, RunOK
<1>5. ASSUME NEW p \in Profiles, Open(p) PROVE Names(prof[p])'
  <2>1. Names(prof[p]) /\ prof[p] \in ProfRow
    BY <1>5 DEF IInv, ProfOK, TypeOK
  <2> QED BY <2>1, NamesKept DEF Names
<1>6. ProfOK'
  BY <1>1, <1>5 DEF ProfOK
<1> QED BY <1>2, <1>3, <1>4, <1>6

\* What writes of profiles leave of the credentials.
LEMMA CredsStay ==
  ASSUME IInv, NEW a \in Actors, Others(a), UNCHANGED <<cred, live, lost>>,
         \A d \in Creds : ~Holds(a, d)
  PROVE  CredsKept(a) /\ (\A c \in Creds : CredOK(c)') /\ \A c : Here(c)' = Here(c)
<1>1. CredsKept(a) /\ \A c : Here(c)' = Here(c)
  BY DEF CredsKept, Here
<1>2. \A c \in Creds : CredOK(c)'
  BY CredStays
<1> QED BY <1>1, <1>2

\* A profile that a step of a writes.
LEMMA WroteProf ==
  ASSUME IInv, NEW a, CredsKept(a), NEW p \in Profiles, NEW new \in ProfRow,
         prof' = [prof EXCEPT ![p] = new], run' = run,
         new.born, ~new.archived, Suits(new, new.credential)',
         new.credential # None => new.credential \in Creds /\ cred'[new.credential].born,
         \A d \in Creds, b \in Actors \ {a} :
           lock[d] = b /\ cred[d].born /\ UsersOf(d) = {} => new.credential # d
  PROVE  /\ prof' \in [Profiles -> ProfRow] /\ UsersKept(a) /\ ProfsKept(a) /\ ProfOK' /\ RunOK'
<1>1. /\ prof' \in [Profiles -> ProfRow] /\ prof'[p] = new
      /\ \A q \in Profiles \ {p} : prof'[q] = prof[q]
  BY DEF IInv, TypeOK
<1>2. \A q \in Profiles : Open(q) => Open(q)'
  BY <1>1 DEF Open
<1>3. \A q : ActiveRunsOf(q)' = ActiveRunsOf(q)
  BY DEF ActiveRunsOf
<1>4. ProfsKept(a)
  BY <1>2, <1>3 DEF ProfsKept
<1>5. RunOK'
  <2>1. run \in [Runs -> RunRow] /\ RunOK
    BY DEF IInv, TypeOK
  <2> QED BY <1>2, <2>1 DEF RunOK, RunRow
<1>6. ASSUME NEW d \in Creds, new.credential # d PROVE UsersOf(d)' \subseteq UsersOf(d)
  BY <1>1, <1>6 DEF UsersOf, Open
<1>7. UsersKept(a)
  BY <1>6 DEF UsersKept
<1>8. ASSUME NEW q \in Profiles, Open(q)' PROVE Names(prof[q])'
  <2>1. CASE q = p
    <3>1. Names(new)'
      BY DEF Names
    <3> QED BY <1>1, <2>1, <3>1 DEF Names, Suits
  <2>2. CASE q # p
    <3>1. Open(q) /\ prof'[q] = prof[q] /\ prof[q] \in ProfRow
      BY <1>1, <1>8, <2>2 DEF Open, IInv, TypeOK
    <3>2. Names(prof[q])
      BY <3>1 DEF IInv, ProfOK
    <3>3. PICK row : row = prof[q]
      OBVIOUS
    <3>4. Names(row)'
      BY <3>1, <3>2, <3>3, NamesKept DEF Names
    <3> QED BY <3>1, <3>3, <3>4 DEF Names, Suits
  <2> QED BY <2>1, <2>2
<1>9. ProfOK'
  BY <1>8 DEF ProfOK
<1> QED BY <1>1, <1>4, <1>5, <1>7, <1>9

\* A rollback of a transaction that has written nothing.
LEMMA Refused ==
  ASSUME IInv, NEW a \in Actors, Refuse(a), Closes(a) \/ (a \in Runs /\ ClosesThread(a)),
         tx[a].pc \in {"locked", "read"}
  PROVE  IInv' /\ Spares
<1>1. UNCHANGED <<cred, prof, run, live, lost, aborts>>
  BY DEF Refuse, Rest
<1>2. Others(a)
  BY EndsStep DEF IInv
<1>3. CredsKept(a) /\ UsersKept(a) /\ ProfsKept(a) /\ ProfOK' /\ RunOK' /\ Spares
  BY <1>1, Unwritten
<1>4. ASSUME NEW c \in Creds, Holds(a, c) PROVE lost[c] \/ live[c] = cred[c].refresh
  BY <1>4, Holder DEF HoldOK, Holds
<1>5. \A c \in Creds : CredOK(c)'
  BY <1>1, <1>2, <1>4, CredStays
<1>6. TablesType'
  BY <1>1 DEF TablesType, IInv, TypeOK
<1> QED BY <1>3, <1>5, <1>6, Ended

\* attach_antigravity_credential inserts the row it did not find.
LEMMA AttachNext ==
  ASSUME IInv, NEW a \in Actors, Attach(a)
  PROVE  IInv' /\ Spares
<1>0. Others(a) /\ UNCHANGED <<prof, run, live, lost, aborts>> /\ \A d \in Creds : ~Holds(a, d)
  <2>1. Closes(a)
    BY DEF Closes
  <2> QED BY <2>1, EndsStep DEF IInv, Attach, At, Holds, Locking, Resolving, Rest
<1>1. PICK c \in Creds : Insert(c, "antigravity_cli", "unchecked", "fresh")
  BY DEF Attach
<1>2. /\ cred' \in [Creds -> CredRow] /\ ~cred[c].born /\ cred'[c].born
      /\ cred'[c].status = "unchecked" /\ cred'[c].refresh = 0
      /\ \A d \in Creds \ {c} : cred'[d] = cred[d]
  <2>1. "antigravity_cli" \in Kinds /\ "unchecked" \in Statuses /\ "fresh" \in {"fresh", "expiring"}
    BY DEF Kinds, Statuses
  <2> QED BY <1>1, <2>1, Inserted DEF IInv, TypeOK
<1>3. CredsKept(a)
  BY <1>0, <1>2 DEF CredsKept
<1>4. UsersKept(a) /\ ProfsKept(a) /\ ProfOK' /\ RunOK'
  BY <1>0, <1>3, ProfsStay
<1>5. \A d \in Creds \ {c} : CredOK(d)'
  BY <1>0, <1>2, CredStays
<1>6. CredOK(c)'
  BY <1>0, <1>2 DEF IInv, CredOK
<1>7. TablesType'
  BY <1>0, <1>2 DEF TablesType, IInv, TypeOK
<1>8. Spares
  BY <1>2 DEF Spares, Here
<1> QED BY <1>3, <1>4, <1>5, <1>6, <1>7, <1>8, Ended DEF Closes

\* update_credential, refused or committed.
LEMMA UpdateNext ==
  ASSUME IInv, NEW a \in Actors, UpdateCredential(a)
  PROVE  IInv' /\ Spares
<1>1. tx[a].op = "update" /\ tx[a].pc = "locked" /\ Closes(a)
  BY DEF UpdateCredential, At, Closes
<1>2. CASE Refuse(a)
  BY <1>1, <1>2, Refused
<1>3. CASE ~Refuse(a)
  <2>0. PICK c : c = tx[a].c
    OBVIOUS
  <2>1. Holds(a, c) /\ \A d \in Creds : Holds(a, d) => d = c
    BY <1>1, <2>0 DEF Holds, Locking
  <2>2. /\ c \in Creds /\ lock[c] = a /\ Here(c) /\ tx[a].row = cred[c]
        /\ (lost[c] \/ live[c] = cred[c].refresh) /\ cred[c] \in CredRow
    BY <1>1, <2>0, <2>1, Holder DEF HoldOK, IInv, TypeOK
  <2>3. /\ UNCHANGED <<prof, run, live, lost, aborts>>
        /\ cred' = [cred EXCEPT ![c].status = "ready"]
    BY <1>3, <2>0 DEF UpdateCredential, Rest
  <2>4. PICK new : new = [cred[c] EXCEPT !.status = "ready"]
    OBVIOUS
  <2>5. cred' = [cred EXCEPT ![c] = new]
    BY <2>3, <2>4, Zenon
  <2>6. new \in CredRow
    <3>1. "ready" \in Statuses
      BY DEF Statuses
    <3> QED BY <2>2, <2>4, <3>1, RowsTyped, Zenon
  <2>7. /\ new.born = cred[c].born /\ new.archived = cred[c].archived /\ new.kind = cred[c].kind
        /\ new.refresh = cred[c].refresh /\ new.status = "ready"
    BY <2>2, <2>4 DEF CredRow
  <2>8. Others(a)
    BY <1>1, EndsStep DEF IInv
  <2>9. \A b \in Actors \ {a} : lock[c] # b
    BY <2>2
  <2>10. /\ cred' \in [Creds -> CredRow] /\ CredsKept(a) /\ cred'[c] = new
         /\ (\A d \in Creds : CredOK(d)') /\ \A d \in Creds \ {c} : cred'[d] = cred[d]
    BY <2>1, <2>2, <2>3, <2>5, <2>6, <2>7, <2>8, <2>9, WroteCred DEF Here
  <2>11. UsersKept(a) /\ ProfsKept(a) /\ ProfOK' /\ RunOK'
    BY <2>3, <2>10, ProfsStay
  <2>12. TablesType'
    BY <2>3, <2>10 DEF TablesType, IInv, TypeOK
  <2>13. Spares
    BY <2>7, <2>10 DEF Spares, Here
  <2> QED BY <1>1, <2>10, <2>11, <2>12, <2>13, Ended
<1> QED BY <1>2, <1>3

\* delete_credential, whose guards count the users under the lock.
LEMMA DeleteNext ==
  ASSUME IInv, NEW a \in Actors, DeleteCredential(a)
  PROVE  IInv' /\ Spares
<1>1. tx[a].op = "delete" /\ tx[a].pc = "locked" /\ Closes(a)
  BY DEF DeleteCredential, At, Closes
<1>2. CASE ~tx[a].ok
  BY <1>1, <1>2, Refused DEF DeleteCredential
<1>3. CASE tx[a].ok
  <2>0. PICK c : c = tx[a].c
    OBVIOUS
  <2>1. Holds(a, c) /\ \A d \in Creds : Holds(a, d) => d = c
    BY <1>1, <2>0 DEF Holds, Locking
  <2>2. /\ c \in Creds /\ lock[c] = a /\ Here(c) /\ tx[a].row = cred[c] /\ UsersOf(c) = {}
        /\ (lost[c] \/ live[c] = cred[c].refresh) /\ cred[c] \in CredRow
    <3>1. /\ c \in Creds /\ lock[c] = a /\ Here(c) /\ HoldOK(a) /\ cred[c] \in CredRow
      BY <2>1, Holder DEF IInv, TypeOK
    <3>2. UsersOf(c) = {} /\ tx[a].row = cred[c] /\ (lost[c] \/ live[c] = cred[c].refresh)
      BY <1>1, <1>3, <2>0, <2>1, <3>1 DEF HoldOK, UsersOf
    <3> QED BY <3>1, <3>2
  <2>3. /\ UNCHANGED <<prof, run, live, lost, aborts>>
        /\ cred' = [cred EXCEPT ![c].status = "error", ![c].archived = TRUE]
    BY <1>3, <2>0 DEF DeleteCredential, Rest
  <2>4. PICK new : new = [cred[c] EXCEPT !.status = "error", !.archived = TRUE]
    OBVIOUS
  <2>5. cred' = [cred EXCEPT ![c] = new]
    BY <2>2, <2>3, <2>4, Zenon DEF IInv, TypeOK
  <2>6. new \in CredRow
    BY <2>2, <2>4, RowsTyped, Zenon
  <2>7. /\ new.born = cred[c].born /\ new.kind = cred[c].kind
        /\ new.refresh = cred[c].refresh /\ new.status = "error"
    BY <2>2, <2>4 DEF CredRow
  <2>8. Others(a)
    BY <1>1, EndsStep DEF IInv
  <2>9. \A b \in Actors \ {a} : lock[c] # b
    BY <2>2
  <2>10. /\ cred' \in [Creds -> CredRow] /\ CredsKept(a) /\ cred'[c] = new
         /\ (\A d \in Creds : CredOK(d)') /\ \A d \in Creds \ {c} : cred'[d] = cred[d]
    BY <2>1, <2>2, <2>3, <2>5, <2>6, <2>7, <2>8, <2>9, WroteCred DEF Here
  <2>11. UsersKept(a) /\ ProfsKept(a) /\ ProfOK' /\ RunOK' /\ UsersOf(c)' = UsersOf(c)
    BY <2>3, <2>10, ProfsStay
  <2>12. TablesType'
    BY <2>3, <2>10 DEF TablesType, IInv, TypeOK
  <2>13. Spares
    BY <2>2, <2>10, <2>11 DEF Spares, Here
  <2> QED BY <1>1, <2>10, <2>11, <2>12, <2>13, Ended
<1> QED BY <1>2, <1>3

\* The run thread marks a credential that needs sign-in again.
LEMMA MarkNext ==
  ASSUME IInv, NEW r \in Runs, Mark(r)
  PROVE  IInv' /\ Spares
<1>0. PICK c : c = tx[r].c
  OBVIOUS
<1>1. r \in Actors /\ None \notin Actors /\ ClosesThread(r)
  BY NamesAssumption DEF Actors, ClosesThread
<1>2. /\ tx[r].op = "mark" /\ lock[c] = None /\ UNCHANGED <<prof, run, live, lost, aborts>>
      /\ cred' = [cred EXCEPT ![c].status = "needs_reauth"]
  BY <1>0 DEF Mark, At, Rest
<1>3. c \in Creds /\ cred[c].born /\ cred[c].kind # "codex_oauth" /\ cred[c] \in CredRow
  BY <1>0, <1>1, <1>2 DEF IInv, PendOK, TypeOK
<1>4. \A b \in Actors : lock[c] # b
  BY <1>1, <1>2
<1>5. lost[c] \/ live[c] = cred[c].refresh
  BY <1>3, <1>4, Holder DEF IInv, CredOK
<1>6. PICK new : new = [cred[c] EXCEPT !.status = "needs_reauth"]
  OBVIOUS
<1>7. cred' = [cred EXCEPT ![c] = new]
  BY <1>2, <1>6, Zenon
<1>8. new \in CredRow
  <2>1. "needs_reauth" \in Statuses
    BY DEF Statuses
  <2> QED BY <1>3, <1>6, <2>1, RowsTyped, Zenon
<1>9. /\ new.born = cred[c].born /\ new.archived = cred[c].archived /\ new.kind = cred[c].kind
      /\ new.refresh = cred[c].refresh
  BY <1>3, <1>6 DEF CredRow
<1>10. Others(r) /\ \A d \in Creds : ~Holds(r, d)
  BY <1>1, <1>2, EndsStep DEF IInv, Holds, Locking, Resolving
<1>11. /\ cred' \in [Creds -> CredRow] /\ CredsKept(r) /\ cred'[c] = new
       /\ (\A d \in Creds : CredOK(d)') /\ \A d \in Creds \ {c} : cred'[d] = cred[d]
  BY <1>1, <1>2, <1>3, <1>4, <1>5, <1>7, <1>8, <1>9, <1>10, WroteCred
<1>12. UsersKept(r) /\ ProfsKept(r) /\ ProfOK' /\ RunOK'
  BY <1>2, <1>11, ProfsStay
<1>13. TablesType'
  BY <1>2, <1>11 DEF TablesType, IInv, TypeOK
<1>14. Spares
  BY <1>9, <1>11 DEF Spares, Here
<1> QED BY <1>1, <1>11, <1>12, <1>13, <1>14, Ended

\* A refresh or a catalog sync commits its row, after success and after failure.
LEMMA CommitNext ==
  ASSUME IInv, NEW a \in Actors, Commit(a)
  PROVE  IInv' /\ Spares
<1>0. PICK c, row : c = tx[a].c /\ row = tx[a].row
  OBVIOUS
<1>1. /\ tx[a].pc = "commit" /\ tx[a].op \in Resolving /\ Holds(a, c) /\ Closes(a)
      /\ \A d \in Creds : Holds(a, d) => d = c
  BY <1>0 DEF Commit, Closes, Holds, Locking, Resolving
<1>2. /\ c \in Creds /\ lock[c] = a /\ Here(c) /\ row.born /\ ~row.archived /\ row.kind = cred[c].kind
      /\ (lost[c] \/ live[c] = row.refresh)
      /\ (row.kind = "codex_oauth" /\ row.status = "needs_reauth" => lost[c])
      /\ (tx[a].ok /\ Lists(a) => row.kind # "api_key")
      /\ row \in CredRow
  BY <1>0, <1>1, Holder DEF HoldOK, IInv, TypeOK, Tx
<1>3. UNCHANGED <<run, live, lost, aborts>> /\ cred' = [cred EXCEPT ![c] = row]
  BY <1>0 DEF Commit, Rest
<1>4. Others(a) /\ \A b \in Actors \ {a} : lock[c] # b
  BY <1>1, <1>2, EndsStep DEF IInv
<1>5. /\ cred' \in [Creds -> CredRow] /\ CredsKept(a) /\ cred'[c] = row
      /\ (\A d \in Creds : CredOK(d)') /\ \A d \in Creds \ {c} : cred'[d] = cred[d]
  BY <1>1, <1>2, <1>3, <1>4, WroteCred DEF Here
<1>6. Spares
  BY <1>2, <1>5 DEF Spares, Here
<1>7. CASE prof' = prof
  <2>1. UsersKept(a) /\ ProfsKept(a) /\ ProfOK' /\ RunOK'
    BY <1>3, <1>5, <1>7, ProfsStay
  <2>2. TablesType'
    BY <1>3, <1>5, <1>7 DEF TablesType, IInv, TypeOK
  <2> QED BY <1>1, <1>5, <1>6, <2>1, <2>2, Ended
<1>8. CASE prof' # prof
  <2>1. PICK p \in Profiles :
          /\ Lists(a) /\ tx[a].ok /\ ~prof[p].born
          /\ prof' = [prof EXCEPT ![p] = [provider |-> Provisions[row.kind], credential |-> c,
                                          born |-> TRUE, enabled |-> TRUE, archived |-> FALSE]]
    BY <1>0, <1>8 DEF Commit
  <2>2. PICK new : new = [provider |-> Provisions[row.kind], credential |-> c,
                          born |-> TRUE, enabled |-> TRUE, archived |-> FALSE]
    OBVIOUS
  <2>3. row.kind \in {"codex_oauth", "anthropic_oauth", "antigravity_cli"}
    BY <1>2, <2>1 DEF CredRow, Kinds
  <2>4. Provisions[row.kind] \in Providers /\ row.kind \in KindsOf[Provisions[row.kind]]
    BY <2>3 DEF Provisions, KindsOf, Providers
  <2>5. new \in ProfRow
    BY <1>2, <2>2, <2>4 DEF ProfRow
  <2>6. new.born /\ ~new.archived /\ new.credential = c /\ new.provider = Provisions[row.kind]
    BY <2>2
  <2>7. c # None
    BY <1>2, NamesAssumption
  <2>8. Suits(new, new.credential)'
    BY <1>5, <2>4, <2>6, <2>7 DEF Suits
  <2>9. prof' \in [Profiles -> ProfRow] /\ UsersKept(a) /\ ProfsKept(a) /\ ProfOK' /\ RunOK'
    <3>1. prof' = [prof EXCEPT ![p] = new] /\ run' = run
      BY <1>3, <2>1, <2>2
    <3>2. new.credential \in Creds /\ cred'[new.credential].born
      BY <1>2, <1>5, <2>6
    <3>3. \A d \in Creds, b \in Actors \ {a} :
            lock[d] = b /\ cred[d].born /\ UsersOf(d) = {} => new.credential # d
      BY <1>4, <2>6
    <3>4. CredsKept(a)
      BY <1>5
    <3>5. new.born /\ ~new.archived
      BY <2>6
    <3> HIDE <1>5, <2>6
    <3> QED BY <2>5, <2>8, <3>1, <3>2, <3>3, <3>4, <3>5, WroteProf, Zenon
  <2>10. TablesType'
    BY <1>3, <1>5, <2>9 DEF TablesType, IInv, TypeOK
  <2> QED BY <1>1, <1>5, <1>6, <2>9, <2>10, Ended
<1> QED BY <1>7, <1>8

\* A transaction rolled back: its locks go, its writes are lost.
LEMMA AbortNext ==
  ASSUME IInv, NEW a \in Actors, Abort(a)
  PROVE  IInv' /\ Spares
<1>1. /\ Closes(a) /\ UNCHANGED <<cred, prof, run, live>> /\ aborts' = aborts + 1 /\ aborts < MaxAborts
      /\ lost' = [c \in Creds |-> lost[c] \/ (lock[c] = a /\ tx[a].row.refresh # cred[c].refresh)]
  BY DEF Abort, Closes
<1>2. \A c \in Creds : lost[c] => lost'[c]
  BY <1>1
<1>3. CredsKept(a)
  BY <1>1, <1>2 DEF CredsKept
<1>4. UsersKept(a) /\ ProfsKept(a) /\ ProfOK' /\ RunOK'
  BY <1>1, <1>3, ProfsStay
<1>5. Others(a)
  BY <1>1, EndsStep DEF IInv
<1>6. ASSUME NEW c \in Creds, Holds(a, c) PROVE lost'[c] \/ live[c] = cred[c].refresh
  <2>1. lock[c] = a /\ (lost[c] \/ tx[a].row.refresh = live[c])
    BY <1>6, Holder DEF HoldOK, Holds
  <2> QED BY <1>1, <2>1
<1>7. \A c \in Creds : CredOK(c)'
  BY <1>1, <1>2, <1>5, <1>6, CredStays
<1>8. TablesType'
  <2>1. lost' \in [Creds -> BOOLEAN]
    BY <1>1, Zenon DEF IInv, TypeOK
  <2> QED BY <1>1, <2>1, BoundAssumption DEF TablesType, IInv, TypeOK
<1>9. Spares
  BY <1>1 DEF Spares, Here
<1> QED BY <1>1, <1>3, <1>4, <1>7, <1>8, <1>9, Ended

\* create_model, refused or committed.
LEMMA CreateProfileNext ==
  ASSUME IInv, NEW a \in Actors, CreateProfile(a)
  PROVE  IInv' /\ Spares
<1>0. PICK row : row = tx[a].prow
  OBVIOUS
<1>1. tx[a].op = "create_profile" /\ Closes(a) /\ UNCHANGED <<cred, run, live, lost, aborts>>
  BY DEF CreateProfile, At, Closes, Rest
<1>2. row \in ProfRow /\ PendOK(a)
  BY <1>0 DEF IInv, TypeOK, Tx
<1>3. /\ row.born /\ ~row.archived /\ Suits(row, row.credential) /\ row.credential = tx[a].c
      /\ row.credential # None => row.credential \in Creds /\ cred[row.credential].born
  BY <1>0, <1>1, <1>2 DEF PendOK, Names
<1>4. row.credential # None => lock[row.credential] = None
  BY <1>3 DEF CreateProfile
<1>5. PICK p \in Profiles : prof' = [prof EXCEPT ![p] = row]
  BY <1>0 DEF CreateProfile
<1>6. Others(a) /\ \A d \in Creds : ~Holds(a, d)
  BY <1>1, EndsStep DEF IInv, Holds, Locking, Resolving
<1>7. CredsKept(a) /\ (\A c \in Creds : CredOK(c)') /\ \A c : Here(c)' = Here(c)
  BY <1>1, <1>6, CredsStay
<1>8. prof' \in [Profiles -> ProfRow] /\ UsersKept(a) /\ ProfsKept(a) /\ ProfOK' /\ RunOK'
  <2>1. Suits(row, row.credential)'
    BY <1>1, <1>3 DEF Suits
  <2>2. row.credential # None => row.credential \in Creds /\ cred'[row.credential].born
    BY <1>1, <1>3
  <2>3. \A d \in Creds, b \in Actors \ {a} :
          lock[d] = b /\ cred[d].born /\ UsersOf(d) = {} => row.credential # d
    BY <1>4, NamesAssumption DEF Actors
  <2>4. row.born /\ ~row.archived /\ run' = run
    BY <1>1, <1>3
  <2> QED BY <1>2, <1>5, <1>7, <2>1, <2>2, <2>3, <2>4, WroteProf, Zenon
<1>9. TablesType'
  BY <1>1, <1>8 DEF TablesType, IInv, TypeOK
<1>10. Spares
  BY <1>7 DEF Spares
<1> QED BY <1>1, <1>7, <1>8, <1>9, <1>10, Ended

\* update_model, refused or committed.
LEMMA UpdateProfileNext ==
  ASSUME IInv, NEW a \in Actors, UpdateProfile(a)
  PROVE  IInv' /\ Spares
<1>0. PICK row, p : row = tx[a].prow /\ p = tx[a].p
  OBVIOUS
<1>1. tx[a].op = "update_profile" /\ Closes(a) /\ UNCHANGED <<cred, run, live, lost, aborts>>
  BY DEF UpdateProfile, At, Closes, Rest
<1>2. row \in ProfRow /\ PendOK(a)
  BY <1>0 DEF IInv, TypeOK, Tx
<1>3. /\ p \in Profiles /\ Open(p)
      /\ row.born /\ ~row.archived /\ Suits(row, row.credential) /\ row.credential = tx[a].c
      /\ row.credential # None => row.credential \in Creds /\ cred[row.credential].born
  BY <1>0, <1>1, <1>2 DEF PendOK, Names, Open
<1>4. row.credential \notin {None, prof[p].credential} => lock[row.credential] = None
  BY <1>0, <1>3 DEF UpdateProfile
<1>5. prof' = [prof EXCEPT ![p] = row]
  BY <1>0 DEF UpdateProfile
<1>6. Others(a) /\ \A d \in Creds : ~Holds(a, d)
  BY <1>1, EndsStep DEF IInv, Holds, Locking, Resolving
<1>7. CredsKept(a) /\ (\A c \in Creds : CredOK(c)') /\ \A c : Here(c)' = Here(c)
  BY <1>1, <1>6, CredsStay
<1>8. prof' \in [Profiles -> ProfRow] /\ UsersKept(a) /\ ProfsKept(a) /\ ProfOK' /\ RunOK'
  <2>1. Suits(row, row.credential)'
    BY <1>1, <1>3 DEF Suits
  <2>2. row.credential # None => row.credential \in Creds /\ cred'[row.credential].born
    BY <1>1, <1>3
  <2>3. \A d \in Creds, b \in Actors \ {a} :
          lock[d] = b /\ cred[d].born /\ UsersOf(d) = {} => row.credential # d
    BY <1>3, <1>4, NamesAssumption DEF Actors, UsersOf
  <2>4. row.born /\ ~row.archived /\ run' = run /\ p \in Profiles
    BY <1>1, <1>3
  <2> QED BY <1>2, <1>5, <1>7, <2>1, <2>2, <2>3, <2>4, WroteProf, Zenon
<1>9. TablesType'
  BY <1>1, <1>8 DEF TablesType, IInv, TypeOK
<1>10. Spares
  BY <1>7 DEF Spares
<1> QED BY <1>1, <1>7, <1>8, <1>9, <1>10, Ended

\* delete_model counts the active runs under the profile's lock.
LEMMA DeleteProfileNext ==
  ASSUME IInv, NEW a \in Actors, DeleteProfile(a)
  PROVE  IInv' /\ Spares
<1>0. PICK p : p = tx[a].p
  OBVIOUS
<1>1. tx[a].op = "delete_profile" /\ Closes(a) /\ UNCHANGED <<cred, run, live, lost, aborts>>
  BY DEF DeleteProfile, At, Closes, Rest
<1>2. p \in Profiles /\ lock[p] = a /\ prof[p] \in ProfRow
  BY <1>0, <1>1 DEF IInv, PendOK, TypeOK
<1>3. ActiveRunsOf(p) = {}
  BY <1>0, <1>1 DEF IInv, PendOK, ActiveRunsOf
<1>4. PICK new : new = [prof[p] EXCEPT !.archived = TRUE, !.enabled = FALSE, !.credential = None]
  OBVIOUS
<1>5. prof' = [prof EXCEPT ![p] = new]
  BY <1>0, <1>2, <1>4, Zenon DEF DeleteProfile, IInv, TypeOK
<1>6. new \in ProfRow /\ new.archived
  BY <1>2, <1>4, Zenon DEF ProfRow
<1>7. /\ prof' \in [Profiles -> ProfRow] /\ prof'[p] = new
      /\ \A q \in Profiles \ {p} : prof'[q] = prof[q]
  BY <1>2, <1>5, <1>6 DEF IInv, TypeOK
<1>8. Others(a) /\ \A d \in Creds : ~Holds(a, d)
  BY <1>1, EndsStep DEF IInv, Holds, Locking, Resolving
<1>9. CredsKept(a) /\ (\A c \in Creds : CredOK(c)') /\ \A c : Here(c)' = Here(c)
  BY <1>1, <1>8, CredsStay
<1>10. ~Open(p)' /\ \A q \in Profiles \ {p} : Open(q)' = Open(q)
  BY <1>6, <1>7 DEF Open
<1>11. UsersKept(a)
  <2>1. ASSUME NEW c \in Creds PROVE UsersOf(c)' \subseteq UsersOf(c)
    BY <1>7, <1>10 DEF UsersOf
  <2> QED BY <2>1 DEF UsersKept
<1>12. ProfsKept(a)
  <2>1. \A q : ActiveRunsOf(q)' = ActiveRunsOf(q)
    BY <1>1 DEF ActiveRunsOf
  <2> QED BY <1>2, <1>10, <2>1 DEF ProfsKept
<1>13. ProfOK'
  <2>1. ASSUME NEW q \in Profiles \ {p}, Open(q)' PROVE Names(prof[q])'
    <3>1. Names(prof[q]) /\ prof'[q] = prof[q]
      BY <1>7, <1>10, <2>1 DEF IInv, ProfOK
    <3> QED BY <1>1, <3>1 DEF Names, Suits
  <2> QED BY <1>10, <2>1 DEF ProfOK
<1>14. RunOK'
  <2>1. \A r \in Runs : run[r].status = "active" => p \notin {run[r].candidate, run[r].judge}
    BY <1>3 DEF ActiveRunsOf
  <2>2. RunOK /\ run \in [Runs -> RunRow]
    BY DEF IInv, TypeOK
  <2> QED BY <1>1, <1>10, <2>1, <2>2 DEF RunOK, RunRow
<1>15. TablesType'
  BY <1>1, <1>7 DEF TablesType, IInv, TypeOK
<1>16. Spares
  BY <1>9 DEF Spares
<1> QED BY <1>1, <1>9, <1>11, <1>12, <1>13, <1>14, <1>15, <1>16, Ended

\* create_run, under the lock of the profile it names.
LEMMA CreateRunNext ==
  ASSUME IInv, NEW a \in Actors, CreateRun(a)
  PROVE  IInv' /\ Spares
<1>0. PICK p, judge : p = tx[a].p /\ judge = tx[a].judge
  OBVIOUS
<1>1. tx[a].op = "create_run" /\ Closes(a) /\ UNCHANGED <<cred, prof, live, lost, aborts>>
  BY DEF CreateRun, At, Closes, Rest
<1>2. p \in Profiles \cup {None} /\ judge \in Profiles \cup {None}
  BY <1>0 DEF IInv, TypeOK, Tx
<1>3. \A q \in {p, judge} \ {None} : q \in Profiles /\ lock[q] = a /\ Open(q)
  BY <1>0, <1>1 DEF IInv, PendOK, Open
<1>4. PICK r \in Runs :
        /\ run[r].status = "none"
        /\ run' = [run EXCEPT ![r] = [status |-> "active", candidate |-> p, judge |-> judge]]
  BY <1>0 DEF CreateRun
<1>5. /\ run' \in [Runs -> RunRow] /\ run'[r].status = "active"
      /\ run'[r].candidate = p /\ run'[r].judge = judge
      /\ \A s \in Runs \ {r} : run'[s] = run[s]
  BY <1>2, <1>4 DEF IInv, TypeOK, RunRow
<1>6. Others(a) /\ \A d \in Creds : ~Holds(a, d)
  BY <1>1, EndsStep DEF IInv, Holds, Locking, Resolving
<1>7. CredsKept(a) /\ (\A c \in Creds : CredOK(c)') /\ \A c : Here(c)' = Here(c)
  BY <1>1, <1>6, CredsStay
<1>8. \A q : Open(q)' = Open(q)
  BY <1>1 DEF Open
<1>9. UsersKept(a)
  BY <1>1, <1>8 DEF UsersKept, UsersOf
<1>10. ProfsKept(a)
  <2>1. ASSUME NEW q \in Profiles, NEW b \in Actors \ {a}, lock[q] = b
        PROVE  ActiveRunsOf(q)' \subseteq ActiveRunsOf(q)
    <3>1. q \notin {p, judge}
      BY <1>3, <2>1, NamesAssumption
    <3> QED BY <1>5, <3>1 DEF ActiveRunsOf
  <2> QED BY <1>8, <2>1 DEF ProfsKept
<1>11. ProfOK'
  BY <1>1 DEF IInv, ProfOK, Open, Names, Suits
<1>12. RunOK'
  <2>1. RunOK
    BY DEF IInv
  <2>2. \A q \in {p, judge} \ {None} : Open(q)'
    BY <1>3, <1>8
  <2> QED BY <1>5, <1>8, <2>1, <2>2 DEF RunOK
<1>13. TablesType'
  BY <1>1, <1>5 DEF TablesType, IInv, TypeOK
<1>14. Spares
  BY <1>7 DEF Spares
<1> QED BY <1>1, <1>7, <1>9, <1>10, <1>11, <1>12, <1>13, <1>14, Ended

\* Each way a transaction ends.
LEMMA CloseNext ==
  ASSUME IInv, NEW a \in Actors, Closes(a) \/ (a \in Runs /\ ClosesThread(a))
  PROVE  IInv' /\ Spares
<1>1. ASSUME a \in Runs, Unavailable(a) PROVE IInv' /\ Spares
  BY <1>1, Refused DEF Unavailable, At, ClosesThread
<1> QED BY <1>1, AttachNext, UpdateNext, DeleteNext, MarkNext, CommitNext, AbortNext, CreateProfileNext,
           UpdateProfileNext, DeleteProfileNext, CreateRunNext DEF Closes, ClosesThread

---------------------------------------------------------------------------
(* Steps of nobody's transaction.                                          *)

\* A step that leaves the transactions and the locks alone.
LEMMA Alone ==
  ASSUME IInv, UNCHANGED <<tx, lock>>, TablesType', CredsKept(None), UsersKept(None), ProfsKept(None),
         \A c \in Creds : CredOK(c)', ProfOK', RunOK'
  PROVE  IInv'
<1>1. Others(None) /\ LocksKept(None)
  BY DEF Others, LocksKept
<1>2. TypeOK'
  BY DEF TypeOK, TablesType, IInv
<1>3. None \notin Actors
  BY NamesAssumption DEF Actors
<1> QED BY <1>1, <1>2, <1>3, Assembled

\* A new credential leaves the others as they are.
LEMMA NewCred ==
  ASSUME IInv, UNCHANGED <<tx, lock, live, lost>>, NEW c \in Creds, NEW kind \in Kinds,
         NEW status \in Statuses \ {"needs_reauth"}, NEW access \in {"fresh", "expiring"},
         Insert(c, kind, status, access)
  PROVE  /\ cred' \in [Creds -> CredRow] /\ CredsKept(None) /\ (\A d \in Creds : CredOK(d)')
         /\ Spares /\ ~cred[c].born /\ cred'[c].born /\ cred'[c].kind = kind
<1>1. /\ cred' \in [Creds -> CredRow] /\ ~cred[c].born
      /\ cred'[c].born /\ ~cred'[c].archived /\ cred'[c].kind = kind /\ cred'[c].status = status
      /\ cred'[c].refresh = 0
      /\ \A d \in Creds \ {c} : cred'[d] = cred[d]
  BY Inserted DEF IInv, TypeOK
<1>2. CredsKept(None)
  BY <1>1 DEF CredsKept
<1>3. \A d \in Creds \ {c} : CredOK(d)'
  <2>1. Others(None) /\ None \notin Actors
    BY NamesAssumption DEF Others, Actors
  <2> QED BY <1>1, <2>1, CredStays
<1>4. CredOK(c)'
  BY <1>1 DEF IInv, CredOK
<1>5. Spares
  BY <1>1 DEF Spares, Here
<1> QED BY <1>1, <1>2, <1>3, <1>4, <1>5

\* A new credential, in one request.
LEMMA InsertNext ==
  ASSUME IInv, CreateCredential \/ ImportCredential \/ PollCodex
  PROVE  IInv' /\ Spares
<1>1. /\ UNCHANGED <<prof, run, tx, lock, live, lost, aborts>>
      /\ \E c \in Creds, kind \in Kinds, status \in {"ready", "unchecked"}, access \in {"fresh", "expiring"} :
           Insert(c, kind, status, access)
  BY DEF CreateCredential, ImportCredential, PollCodex, Rest, Kinds
<1>2. {"ready", "unchecked"} \subseteq Statuses \ {"needs_reauth"}
  BY DEF Statuses
<1>3. cred' \in [Creds -> CredRow] /\ CredsKept(None) /\ (\A d \in Creds : CredOK(d)') /\ Spares
  BY <1>1, <1>2, NewCred
<1>4. UsersKept(None) /\ ProfsKept(None) /\ ProfOK' /\ RunOK'
  BY <1>1, <1>3, ProfsStay
<1>5. TablesType'
  BY <1>1, <1>3 DEF TablesType, IInv, TypeOK
<1> QED BY <1>1, <1>3, <1>4, <1>5, Alone

\* A model saved with a key of its own: the key and the profile in one request.
LEMMA InlineNext ==
  ASSUME IInv, InlineKey
  PROVE  IInv' /\ Spares
<1>1. UNCHANGED <<run, tx, lock, live, lost, aborts>>
  BY DEF InlineKey, Rest
<1>2. PICK c \in Creds, p \in Profiles, maker \in Asked, e \in BOOLEAN :
        /\ Insert(c, "api_key", "ready", "fresh") /\ "api_key" \in KindsOf[maker]
        /\ prof' = [prof EXCEPT ![p] = [provider |-> maker, credential |-> c, born |-> TRUE,
                                        enabled |-> e, archived |-> FALSE]]
  BY DEF InlineKey
<1>3. /\ cred' \in [Creds -> CredRow] /\ CredsKept(None) /\ (\A d \in Creds : CredOK(d)')
      /\ Spares /\ ~cred[c].born /\ cred'[c].born /\ cred'[c].kind = "api_key"
  <2>1. "api_key" \in Kinds /\ "ready" \in Statuses \ {"needs_reauth"}
    BY DEF Kinds, Statuses
  <2> QED BY <1>1, <1>2, <2>1, NewCred
<1>4. PICK new : new = [provider |-> maker, credential |-> c, born |-> TRUE,
                        enabled |-> e, archived |-> FALSE]
  OBVIOUS
<1>5. new.born /\ ~new.archived /\ new.credential = c /\ new.provider = maker
  BY <1>4
<1>6. new \in ProfRow
  <2>1. maker \in Providers /\ e \in BOOLEAN
    BY AskedAssumption DEF Providers
  <2> QED BY <1>4, <2>1, Zenon DEF ProfRow
<1>7. prof' \in [Profiles -> ProfRow] /\ UsersKept(None) /\ ProfsKept(None) /\ ProfOK' /\ RunOK'
  <2>1. Suits(new, new.credential)'
    <3>1. c # None
      BY NamesAssumption
    <3> QED BY <1>2, <1>3, <1>5, <3>1 DEF Suits
  <2>2. new.credential # None => new.credential \in Creds /\ cred'[new.credential].born
    BY <1>3, <1>5
  <2>3. \A d \in Creds, b \in Actors \ {None} :
          lock[d] = b /\ cred[d].born /\ UsersOf(d) = {} => new.credential # d
    BY <1>3, <1>5
  <2>4. new.born /\ ~new.archived /\ run' = run /\ prof' = [prof EXCEPT ![p] = new] /\ CredsKept(None)
    BY <1>1, <1>2, <1>3, <1>4, <1>5
  <2> QED BY <1>6, <2>1, <2>2, <2>3, <2>4, WroteProf, Zenon
<1>8. TablesType'
  BY <1>1, <1>3, <1>7 DEF TablesType, IInv, TypeOK
<1> QED BY <1>1, <1>3, <1>7, <1>8, Alone

\* Time passes an access token's expiry.
LEMMA ExpireNext ==
  ASSUME IInv, NEW c \in Creds, Expire(c)
  PROVE  IInv' /\ Spares
<1>1. /\ UNCHANGED <<prof, run, tx, lock, live, lost, aborts>> /\ lock[c] = None /\ Here(c)
      /\ cred' = [cred EXCEPT ![c].access = "expiring"] /\ cred[c] \in CredRow
  BY DEF Expire, Rest, IInv, TypeOK
<1>2. PICK new : new = [cred[c] EXCEPT !.access = "expiring"]
  OBVIOUS
<1>3. new \in CredRow
  BY <1>1, <1>2, RowsTyped, Zenon
<1>4. /\ new.born = cred[c].born /\ new.archived = cred[c].archived /\ new.kind = cred[c].kind
      /\ new.refresh = cred[c].refresh /\ new.status = cred[c].status
  BY <1>1, <1>2 DEF CredRow
<1>5. cred' \in [Creds -> CredRow] /\ cred'[c] = new /\ \A d \in Creds \ {c} : cred'[d] = cred[d]
  BY <1>1, <1>2, <1>3 DEF IInv, TypeOK
<1>6. None \notin Actors
  BY NamesAssumption DEF Actors
<1>7. CredsKept(None)
  BY <1>1, <1>4, <1>5, <1>6 DEF CredsKept
<1>8. UsersKept(None) /\ ProfsKept(None) /\ ProfOK' /\ RunOK'
  BY <1>1, <1>7, ProfsStay
<1>9. ASSUME NEW d \in Creds PROVE CredOK(d)'
  <2>1. CredOK(d)
    BY DEF IInv
  <2>2. \A b : Holds(b, d)' = Holds(b, d)
    BY <1>1 DEF Holds
  <2>3. cred'[d].refresh = cred[d].refresh /\ cred'[d].kind = cred[d].kind
        /\ cred'[d].status = cred[d].status /\ cred'[d].born = cred[d].born
    BY <1>4, <1>5
  <2> QED BY <1>1, <2>1, <2>2, <2>3 DEF CredOK
<1>10. Spares
  BY <1>4, <1>5 DEF Spares, Here
<1>11. TablesType'
  BY <1>1, <1>5 DEF TablesType, IInv, TypeOK
<1> QED BY <1>1, <1>7, <1>8, <1>9, <1>10, <1>11, Alone

\* A run reaches its end, wherever its thread is.
LEMMA EndRunNext ==
  ASSUME IInv, NEW r \in Runs, EndRun(r)
  PROVE  IInv' /\ Spares
<1>1. /\ UNCHANGED <<cred, prof, tx, lock, live, lost, aborts>>
      /\ run' = [run EXCEPT ![r].status = "ended"] /\ run \in [Runs -> RunRow]
  BY DEF EndRun, Rest, IInv, TypeOK
<1>2. /\ run' \in [Runs -> RunRow] /\ run'[r].status = "ended"
      /\ \A s \in Runs \ {r} : run'[s] = run[s]
  <2>1. [run[r] EXCEPT !.status = "ended"] \in RunRow
    BY <1>1, Zenon DEF RunRow
  <2> QED BY <1>1, <2>1 DEF RunRow
<1>3. \A q : ActiveRunsOf(q)' \subseteq ActiveRunsOf(q)
  BY <1>2 DEF ActiveRunsOf
<1>4. \A q : Open(q)' = Open(q) /\ Here(q)' = Here(q) /\ UsersOf(q)' = UsersOf(q)
  BY <1>1 DEF Open, Here, UsersOf
<1>5. CredsKept(None) /\ UsersKept(None) /\ ProfsKept(None) /\ Spares
  BY <1>1, <1>3, <1>4 DEF CredsKept, UsersKept, ProfsKept, Spares
<1>6. ProfOK'
  BY <1>1 DEF IInv, ProfOK, Open, Names, Suits
<1>7. RunOK'
  BY <1>2, <1>4 DEF IInv, RunOK
<1>8. \A d \in Creds : CredOK(d)'
  <2>1. Others(None) /\ None \notin Actors
    BY <1>1, NamesAssumption DEF Others, Actors
  <2> QED BY <1>1, <2>1, CredStays
<1>9. TablesType'
  BY <1>1, <1>2 DEF TablesType, IInv, TypeOK
<1> QED BY <1>1, <1>5, <1>6, <1>7, <1>8, <1>9, Alone

\* A stuttering step.
LEMMA StillNext ==
  ASSUME IInv, UNCHANGED vars
  PROVE  IInv' /\ Spares
<1>1. CredsKept(None) /\ UsersKept(None) /\ ProfsKept(None) /\ ProfOK' /\ RunOK' /\ Spares
  BY Unwritten DEF vars
<1>2. \A d \in Creds : CredOK(d)'
  BY CredStays, NamesAssumption DEF vars, Others, Actors
<1>3. TablesType'
  BY DEF TablesType, IInv, TypeOK, vars
<1> QED BY <1>1, <1>2, <1>3, Alone DEF vars

---------------------------------------------------------------------------
(* The theorems.                                                           *)

\* The invariant is inductive.
LEMMA Initial == Init => IInv
<1> SUFFICES ASSUME Init PROVE IInv
  OBVIOUS
<1>1. \A b \in Actors : tx[b] = Idle
  BY DEF Init
<1>2. Idle.op = "none" /\ Idle.pc = "idle"
  BY DEF Idle
<1>3. \A b \in Actors : HoldOK(b) /\ PlaceOK(b) /\ PendOK(b)
  BY <1>1, <1>2 DEF HoldOK, PlaceOK, PendOK, Holds, Locking, Resolving
<1>4. \A c \in Creds : CredOK(c)
  BY DEF Init, CredOK, NoCred
<1>5. ProfOK /\ RunOK
  BY DEF Init, ProfOK, RunOK, Open, NoProf
<1>6. TypeOK
  BY IdleTyped, BoundAssumption DEF Init, TypeOK, RunRow
<1> QED BY <1>3, <1>4, <1>5, <1>6 DEF IInv

\* The invariant is inductive, and no step takes a row that is in use.
LEMMA Inductive == IInv /\ [Next]_vars => IInv' /\ Spares
<1> SUFFICES ASSUME IInv, [Next]_vars PROVE IInv' /\ Spares
  OBVIOUS
<1>1. ASSUME NEW a \in Actors, GoesOn(a) PROVE IInv' /\ Spares
  BY <1>1, ResolveNext, ExchangeNext, CatalogNext, LockedNext DEF GoesOn
<1> QED BY <1>1, Steps, OpenNext, CloseNext, EndRunNext, InlineNext, InsertNext, ExpireNext, StillNext

(* The invariant holds in every reachable state: the inductive step has    *)
(* one lemma per handler above.                                            *)
THEOREM CredentialsInvariant == Spec => []IInv
BY Initial, Inductive, PTL DEF Spec

(* Rows, transactions and locks keep their types, and the provider never   *)
(* issues more tokens than the bound.                                      *)
THEOREM CredentialsTypeCorrect == Spec => []TypeOK
<1>1. IInv => TypeOK
  BY DEF IInv
<1> QED BY <1>1, CredentialsInvariant, PTL

(* A Codex login is told to authenticate again only if a rotated refresh   *)
(* token was lost: refreshes never spend each other's token.               *)
THEOREM ReauthTheorem == Spec => []ReauthOnlyIfLost
<1>1. IInv => ReauthOnlyIfLost
  BY DEF IInv, CredOK, ReauthOnlyIfLost
<1> QED BY <1>1, CredentialsInvariant, PTL

(* The models of an active run stay, and each names a credential of a kind *)
(* that its provider takes.                                                *)
THEOREM RunModelTheorem == Spec => []RunKeepsItsModel
<1>1. IInv => RunKeepsItsModel
  <2>1. ASSUME IInv, NEW r \in Runs, run[r].status = "active",
               NEW p \in {run[r].candidate, run[r].judge} \ {None}
        PROVE  Open(p) /\ Suits(prof[p], prof[p].credential)
    <3>1. p \in Profiles /\ Open(p)
      BY <2>1 DEF IInv, TypeOK, RunRow, RunOK
    <3> QED BY <2>1, <3>1 DEF IInv, ProfOK, Names
  <2> QED BY <2>1 DEF RunKeepsItsModel
<1> QED BY <1>1, CredentialsInvariant, PTL

(* No credential is deleted while a profile names it, whatever was written *)
(* between the count and the commit.                                       *)
THEOREM DeletionTheorem == Spec => DeletionSparesUsers
<1>1. IInv /\ [Next]_vars => [\A c \in Creds : (Here(c) /\ ~Here(c)') => UsersOf(c)' = {}]_vars
  BY Inductive DEF Spares
<1> QED BY <1>1, CredentialsInvariant, PTL DEF Spec, DeletionSparesUsers

---------------------------------------------------------------------------
(* Accounts.                                                               *)

Fresh(r, op) == job[r].op = op /\ ~job[r].stale

(* What a request has checked still holds while no update overtakes it:    *)
(* an enabled administrator is left besides the one who loses access, and  *)
(* the account that logs in is there and enabled.                          *)
UpdateChecked ==
  \A r \in Requests : Fresh(r, "update") =>
    \E u \in EnabledAdmins : TakesAdmin(job[r].role, job[r].enabled) => u # job[r].target

LoginChecked ==
  \A r \in Requests : Fresh(r, "login") => Exists(job[r].target) /\ user[job[r].target].enabled

(* A job is about an account that is there, and one that disables it also  *)
(* revokes its sessions.                                                   *)
JobOK ==
  /\ \A u \in Users : user[u].enabled => Exists(u)
  /\ \A r \in Requests :
    /\ job[r].op \in {"login", "update"} => job[r].target \in Users /\ Exists(job[r].target)
    /\ job[r].enabled = "off" => job[r].revokes

AccountsInv ==
  /\ AccountsTypeOK /\ JobOK /\ UpdateChecked /\ LoginChecked

\* A deployment starts with no account, no session and nothing checked.
LEMMA InitAccounts == AccountsInit => AccountsInv
BY NobodyAssumption DEF AccountsInit, AccountsInv, AccountsTypeOK, JobOK, UpdateChecked, LoginChecked, Fresh, Exists, Account, Job, NoAccount, NoJob, Roles

(* Requests that only end sessions.                                        *)
EndsSessions ==
  \/ \E t \in Tokens : ChangePassword(t) \/ ExpireSession(t)
  \/ \E t, target \in Tokens : RevokeSession(t, target)
  \/ \E t \in Tokens, u \in Users : RevokeAccountSessions(t, u)

SessionsFewer ==
  /\ session' \in [Tokens -> Users \cup {Nobody}]
  /\ \A t \in Tokens : session'[t] \in {session[t], Nobody}

LEMMA EndedSessions ==
  AccountsTypeOK /\ (EndsSessions \/ UNCHANGED accountVars)
    => SessionsFewer /\ UNCHANGED <<user, job>>
BY DEF AccountsTypeOK, EndsSessions, SessionsFewer, ChangePassword, ExpireSession, RevokeSession, RevokeAccountSessions,
   Revoked, accountVars

(* The jobs record types.                                                  *)
LEMMA Staled ==
  ASSUME NEW j \in Job, NEW b \in BOOLEAN
  PROVE  [j EXCEPT !.stale = b] \in Job
BY Zenon DEF Job

LEMMA Renamed ==
  ASSUME NEW j \in Job, NEW op \in {"none", "setup", "login", "update"}
  PROVE  /\ [j EXCEPT !.op = op] \in Job
         /\ \A u \in Users : [j EXCEPT !.op = op, !.target = u] \in Job
BY Zenon DEF Job

LEMMA CommittedType ==
  ASSUME job \in [Requests -> Job], NEW r \in Requests, NEW users
  PROVE  Committed(r, users) \in [Requests -> Job]
<1> DEFINE Late(q) == job[q].stale \/ Overtaken(job[q], users)
<1>1. NoJob \in Job
  BY DEF NoJob, Job
<1>2. ASSUME NEW q \in Requests PROVE [job[q] EXCEPT !.stale = Late(q)] \in Job
  <2>1. Late(q) \in BOOLEAN
    BY Zenon
  <2> HIDE DEF Late
  <2>2. job[q] \in Job
    OBVIOUS
  <2> QED BY <2>1, <2>2, Staled, Zenon
<1>3. ASSUME NEW q \in Requests PROVE [job[q] EXCEPT !.stale = @ \/ Overtaken(job[q], users)] = [job[q] EXCEPT !.stale = Late(q)]
  OBVIOUS
<1> QED BY <1>1, <1>2, <1>3, Zenon DEF Committed

\* Each part of the invariant is preserved by every step.
LEMMA AccountsTypeStep == AccountsTypeOK /\ JobOK /\ [AccountsNext]_accountVars => AccountsTypeOK'
<1> SUFFICES ASSUME AccountsTypeOK, JobOK, [AccountsNext]_accountVars PROVE AccountsTypeOK'
  OBVIOUS
<1> USE DEF AccountsTypeOK
<1>1. CASE EndsSessions \/ UNCHANGED accountVars
  BY <1>1, EndedSessions DEF SessionsFewer
<1>2. CASE Register
  BY <1>2 DEF Register, NewAccount, Issue, Account, Roles
<1>3. ASSUME NEW t \in Tokens, CreateAccount(t) PROVE AccountsTypeOK'
  BY <1>3 DEF CreateAccount, NewAccount, Account, Roles
<1>4. ASSUME NEW r \in Requests, CheckSetup(r) PROVE AccountsTypeOK'
  <2>1. [job[r] EXCEPT !.op = "setup"] \in Job
    <3>1. job[r] \in Job
      OBVIOUS
    <3> QED BY <3>1, Renamed
  <2> QED BY <1>4, <2>1 DEF CheckSetup
<1>5. ASSUME NEW r \in Requests, Setup(r) PROVE AccountsTypeOK'
  <2>1. NoJob \in Job
    BY DEF NoJob, Job
  <2> QED BY <1>5, <2>1 DEF Setup, Done, NewAccount, Issue, Account, Roles
<1>6. ASSUME NEW r \in Requests, NEW u \in Users, CheckLogin(r, u) PROVE AccountsTypeOK'
  <2>1. [job[r] EXCEPT !.op = "login", !.target = u] \in Job
    <3>1. job[r] \in Job
      OBVIOUS
    <3> QED BY <3>1, Renamed
  <2> QED BY <1>6, <2>1 DEF CheckLogin
<1>7. ASSUME NEW r \in Requests, Login(r) PROVE AccountsTypeOK'
  <2>1. NoJob \in Job /\ job[r].target \in Users
    BY <1>7 DEF NoJob, Job, JobOK, Login
  <2> QED BY <1>7, <2>1 DEF Login, Done, Issue
<1>8. ASSUME NEW r \in Requests, NEW t \in Tokens, NEW u \in Users, NEW role \in {"keep", "user", "admin"},
             NEW e \in {"keep", "on", "off"}, NEW password \in BOOLEAN, CheckUpdate(r, t, u, role, e, password) PROVE AccountsTypeOK'
  <2>1. Planned(u, role, e, password) \in Job
    <3>1. (password \/ e = "off") \in BOOLEAN
      OBVIOUS
    <3> QED BY <3>1 DEF Planned, Job, Account, Roles
  <2> QED BY <1>8, <2>1 DEF CheckUpdate
<1>9. ASSUME NEW r \in Requests, UpdateAccount(r) PROVE AccountsTypeOK'
  <2>1. job' \in [Requests -> Job] /\ job[r].target \in Users
    BY <1>9, CommittedType DEF UpdateAccount, JobOK
  <2>2. Updated(job[r]) \in [Users -> Account]
    <3>1. job[r] \in Job
      OBVIOUS
    <3> QED BY <2>1, <3>1 DEF Updated, Account, Job, Roles
  <2>3. Revoked(job[r].target, {}) \in [Tokens -> Users \cup {Nobody}]
    BY DEF Revoked
  <2> QED BY <1>9, <2>1, <2>2, <2>3 DEF UpdateAccount
<1> HIDE DEF AccountsTypeOK
<1> QED
  BY <1>1, <1>2, <1>3, <1>4, <1>5, <1>6, <1>7, <1>8, <1>9 DEF AccountsNext, EndsSessions

\* A request keeps the job its handler began.
LEMMA JobStep == AccountsTypeOK /\ JobOK /\ [AccountsNext]_accountVars => JobOK'
<1> SUFFICES ASSUME AccountsTypeOK, JobOK, [AccountsNext]_accountVars PROVE JobOK'
  OBVIOUS
<1> USE DEF AccountsTypeOK, JobOK, Account, Job, Roles, Exists
<1>1. CASE EndsSessions \/ UNCHANGED accountVars
  BY <1>1, EndedSessions DEF SessionsFewer
<1>2. CASE Register
  BY <1>2 DEF Register, NewAccount, Issue
<1>3. ASSUME NEW t \in Tokens, CreateAccount(t) PROVE JobOK'
  BY <1>3 DEF CreateAccount, NewAccount
<1>4. ASSUME NEW r \in Requests, CheckSetup(r) PROVE JobOK'
  BY <1>4 DEF CheckSetup
<1>5. ASSUME NEW r \in Requests, Setup(r) PROVE JobOK'
  BY <1>5 DEF Setup, Done, NewAccount, Issue, NoJob
<1>6. ASSUME NEW r \in Requests, NEW u \in Users, CheckLogin(r, u) PROVE JobOK'
  BY <1>6 DEF CheckLogin
<1>7. ASSUME NEW r \in Requests, Login(r) PROVE JobOK'
  BY <1>7 DEF Login, Done, Issue, NoJob
<1>8. ASSUME NEW r \in Requests, NEW t \in Tokens, NEW u \in Users, NEW role \in {"keep", "user", "admin"},
             NEW e \in {"keep", "on", "off"}, NEW password \in BOOLEAN, CheckUpdate(r, t, u, role, e, password) PROVE JobOK'
  BY <1>8 DEF CheckUpdate, Planned
<1>9. ASSUME NEW r \in Requests, UpdateAccount(r) PROVE JobOK'
  BY <1>9 DEF UpdateAccount, Updated, Revoked, Committed, NoJob
<1> HIDE DEF AccountsTypeOK, JobOK, Account, Job, Roles, Exists
<1> QED
  BY <1>1, <1>2, <1>3, <1>4, <1>5, <1>6, <1>7, <1>8, <1>9 DEF AccountsNext, EndsSessions

\* The check of an update holds until the commit unless another write overtakes it.
LEMMA UpdateStep == AccountsTypeOK /\ UpdateChecked /\ [AccountsNext]_accountVars => UpdateChecked'
<1> SUFFICES ASSUME AccountsTypeOK, UpdateChecked, [AccountsNext]_accountVars PROVE UpdateChecked'
  OBVIOUS
<1> USE DEF AccountsTypeOK, UpdateChecked, Fresh, EnabledAdmins, TakesAdmin, Account, Job, Roles
<1>1. CASE EndsSessions \/ UNCHANGED accountVars
  BY <1>1, EndedSessions DEF SessionsFewer
<1>2. CASE Register
  BY <1>2 DEF Register, NewAccount, Issue, Exists, SignedAdmin, Signed
<1>3. ASSUME NEW t \in Tokens, CreateAccount(t) PROVE UpdateChecked'
  BY <1>3 DEF CreateAccount, NewAccount, Exists, SignedAdmin, Signed
<1>4. ASSUME NEW r \in Requests, CheckSetup(r) PROVE UpdateChecked'
  BY <1>4 DEF CheckSetup
<1>5. ASSUME NEW r \in Requests, Setup(r) PROVE UpdateChecked'
  BY <1>5 DEF Setup, Done, NewAccount, Issue, NoJob, Exists, SignedAdmin, Signed
<1>6. ASSUME NEW r \in Requests, NEW u \in Users, CheckLogin(r, u) PROVE UpdateChecked'
  BY <1>6 DEF CheckLogin
<1>7. ASSUME NEW r \in Requests, Login(r) PROVE UpdateChecked'
  BY <1>7 DEF Login, Done, Issue, NoJob
<1>8. ASSUME NEW r \in Requests, NEW t \in Tokens, NEW u \in Users, NEW role \in {"keep", "user", "admin"},
             NEW e \in {"keep", "on", "off"}, NEW password \in BOOLEAN, CheckUpdate(r, t, u, role, e, password) PROVE UpdateChecked'
  BY <1>8 DEF CheckUpdate, Planned, Exists, SignedAdmin, Signed
<1>9. ASSUME NEW r \in Requests, UpdateAccount(r) PROVE UpdateChecked'
  BY <1>9 DEF UpdateAccount, Updated, Revoked, Committed, Overtaken, NoJob
<1> HIDE DEF AccountsTypeOK, UpdateChecked, Fresh, EnabledAdmins, TakesAdmin, Account, Job, Roles
<1> QED
  BY <1>1, <1>2, <1>3, <1>4, <1>5, <1>6, <1>7, <1>8, <1>9 DEF AccountsNext, EndsSessions

\* The check of a login holds until its session is written, or is overtaken.
LEMMA LoginStep == AccountsTypeOK /\ LoginChecked /\ [AccountsNext]_accountVars => LoginChecked'
<1> SUFFICES ASSUME AccountsTypeOK, LoginChecked, [AccountsNext]_accountVars PROVE LoginChecked'
  OBVIOUS
<1> USE DEF AccountsTypeOK, LoginChecked, Fresh, Account, Job, Roles
<1>1. CASE EndsSessions \/ UNCHANGED accountVars
  BY <1>1, EndedSessions DEF SessionsFewer, Exists
<1>2. CASE Register
  BY <1>2 DEF Register, NewAccount, Issue, Exists
<1>3. ASSUME NEW t \in Tokens, CreateAccount(t) PROVE LoginChecked'
  BY <1>3 DEF CreateAccount, NewAccount, Exists
<1>4. ASSUME NEW r \in Requests, CheckSetup(r) PROVE LoginChecked'
  BY <1>4 DEF CheckSetup, Exists
<1>5. ASSUME NEW r \in Requests, Setup(r) PROVE LoginChecked'
  BY <1>5 DEF Setup, Done, NewAccount, Issue, NoJob, Exists
<1>6. ASSUME NEW r \in Requests, NEW u \in Users, CheckLogin(r, u) PROVE LoginChecked'
  BY <1>6 DEF CheckLogin, Exists
<1>7. ASSUME NEW r \in Requests, Login(r) PROVE LoginChecked'
  BY <1>7 DEF Login, Done, Issue, NoJob, Exists
<1>8. ASSUME NEW r \in Requests, NEW t \in Tokens, NEW u \in Users, NEW role \in {"keep", "user", "admin"},
             NEW e \in {"keep", "on", "off"}, NEW password \in BOOLEAN, CheckUpdate(r, t, u, role, e, password) PROVE LoginChecked'
  BY <1>8 DEF CheckUpdate, Planned, Exists
<1>9. ASSUME NEW r \in Requests, UpdateAccount(r) PROVE LoginChecked'
  BY <1>9 DEF UpdateAccount, Updated, Revoked, Committed, Overtaken, NoJob, Exists
<1> HIDE DEF AccountsTypeOK, LoginChecked, Fresh, Account, Job, Roles
<1> QED
  BY <1>1, <1>2, <1>3, <1>4, <1>5, <1>6, <1>7, <1>8, <1>9 DEF AccountsNext, EndsSessions

\* The accounts change by a new one and by an update; sessions begin with a new
\* account and with a login.
NewUser(u, role, e) == ~Exists(u) /\ user' = [user EXCEPT ![u] = [role |-> role, enabled |-> e]]

NewSession(u, e) == session' = session \/ (e /\ \E t \in Tokens : session' = [session EXCEPT ![t] = u])

LEMMA AccountsChange ==
  ASSUME AccountsTypeOK, [AccountsNext]_accountVars
  PROVE  \/ \E r \in Requests : UpdateAccount(r) \/ Login(r)
         \/ \E u \in Users, role \in {"user", "admin"}, e \in BOOLEAN : NewUser(u, role, e) /\ NewSession(u, e)
         \/ user' = user /\ SessionsFewer
<1> DEFINE Joins == \E u \in Users, role \in {"user", "admin"}, e \in BOOLEAN : NewUser(u, role, e) /\ NewSession(u, e)
<1>1. ASSUME EndsSessions \/ UNCHANGED accountVars PROVE user' = user /\ SessionsFewer
  BY <1>1, EndedSessions
<1>2. ASSUME Register PROVE Joins
  <2>1. PICK u \in Users : NewAccount(u, "user", TRUE) /\ Issue(u)
    BY <1>2 DEF Register
  <2>2. NewUser(u, "user", TRUE) /\ NewSession(u, TRUE)
    BY <2>1 DEF NewAccount, Issue, NewUser, NewSession
  <2> QED BY <2>2
<1>3. ASSUME NEW t \in Tokens, CreateAccount(t) PROVE Joins
  <2>1. PICK u \in Users, role \in {"user", "admin"}, e \in BOOLEAN : NewAccount(u, role, e)
    BY <1>3 DEF CreateAccount
  <2>2. NewUser(u, role, e) /\ NewSession(u, e)
    BY <1>3, <2>1 DEF CreateAccount, NewAccount, NewUser, NewSession
  <2> QED BY <2>2
<1>4. ASSUME NEW r \in Requests, CheckSetup(r) PROVE user' = user /\ SessionsFewer
  BY <1>4 DEF CheckSetup, SessionsFewer, AccountsTypeOK
<1>5. ASSUME NEW r \in Requests, Setup(r) PROVE Joins
  <2>1. PICK u \in Users : NewAccount(u, "admin", TRUE) /\ Issue(u)
    BY <1>5 DEF Setup
  <2>2. NewUser(u, "admin", TRUE) /\ NewSession(u, TRUE)
    BY <2>1 DEF NewAccount, Issue, NewUser, NewSession
  <2> QED BY <2>2
<1>6. ASSUME NEW r \in Requests, NEW u \in Users, CheckLogin(r, u) PROVE user' = user /\ SessionsFewer
  BY <1>6 DEF CheckLogin, SessionsFewer, AccountsTypeOK
<1>7. ASSUME NEW r \in Requests, NEW t \in Tokens, NEW u \in Users, NEW role \in {"keep", "user", "admin"},
             NEW e \in {"keep", "on", "off"}, NEW password \in BOOLEAN, CheckUpdate(r, t, u, role, e, password)
      PROVE user' = user /\ SessionsFewer
  BY <1>7 DEF CheckUpdate, SessionsFewer, AccountsTypeOK
<1> HIDE DEF Joins
<1>8. \/ \E r \in Requests : UpdateAccount(r) \/ Login(r)
      \/ Joins
      \/ user' = user /\ SessionsFewer
  BY <1>1, <1>2, <1>3, <1>4, <1>5, <1>6, <1>7 DEF AccountsNext, EndsSessions
<1> QED BY <1>8 DEF Joins

\* Only an overtaken update takes the last enabled administrator.
LEMMA AdminStep ==
  ASSUME AccountsInv, [AccountsNext]_accountVars, EnabledAdmins # {}, EnabledAdmins' = {}
  PROVE  \E r \in Requests : UpdateAccount(r) /\ job[r].stale
<1> USE DEF AccountsInv, AccountsTypeOK, EnabledAdmins
<1>1. ASSUME NEW u \in Users, NEW role \in {"user", "admin"}, NEW e \in BOOLEAN, NewUser(u, role, e) PROVE FALSE
  BY <1>1 DEF NewUser, Exists, Account, Roles
<1>2. ASSUME user' = user PROVE FALSE
  BY <1>2
<1>3. ASSUME NEW r \in Requests, Login(r) PROVE FALSE
  BY <1>3, <1>2 DEF Login
<1>4. ASSUME NEW r \in Requests, UpdateAccount(r) PROVE job[r].stale
  <2> SUFFICES ASSUME ~job[r].stale PROVE FALSE
    OBVIOUS
  <2>1. job[r] \in Job /\ job[r].op = "update" /\ job[r].target \in Users /\ user' = Updated(job[r])
    BY <1>4 DEF UpdateAccount, JobOK
  <2>2. PICK u \in EnabledAdmins : TakesAdmin(job[r].role, job[r].enabled) => u # job[r].target
    BY <2>1 DEF UpdateChecked, Fresh
  <2>3. user'[u].role = "admin" /\ user'[u].enabled
    BY <2>1, <2>2 DEF Updated, TakesAdmin, Account, Job, Roles
  <2> QED BY <2>2, <2>3
<1> QED BY <1>1, <1>2, <1>3, <1>4, AccountsChange

\* Only an overtaken login leaves a disabled account with a session.
LEMMA SessionStep ==
  ASSUME AccountsInv, [AccountsNext]_accountVars, ~(Dormant' \subseteq Dormant)
  PROVE  \E r \in Requests : Login(r) /\ job[r].stale
<1> USE NobodyAssumption DEF AccountsInv, AccountsTypeOK
<1>1. PICK t \in Tokens : t \notin Dormant /\ session'[t] # Nobody /\ ~user'[session'[t]].enabled
  BY DEF Dormant
<1>2. ASSUME NEW u \in Users, NEW role \in {"user", "admin"}, NEW e \in BOOLEAN, NewUser(u, role, e), NewSession(u, e) PROVE FALSE
  <2>1. user'[u].enabled = e /\ (\A v \in Users \ {u} : user'[v] = user[v]) /\ ~user[u].enabled
    BY <1>2 DEF NewUser, JobOK
  <2>2. session'[t] \in {session[t], u} /\ (session'[t] = u => e \/ session[t] = u)
    BY <1>2 DEF NewSession
  <2>3. session'[t] = session[t]
    BY <1>1, <2>1, <2>2
  <2> QED BY <1>1, <2>1, <2>3 DEF Dormant
<1>3. ASSUME user' = user, SessionsFewer PROVE FALSE
  BY <1>1, <1>3 DEF SessionsFewer, Dormant
<1>4. ASSUME NEW r \in Requests, Login(r) PROVE job[r].stale
  <2> SUFFICES ASSUME ~job[r].stale PROVE FALSE
    OBVIOUS
  <2>1. job[r].op = "login" /\ job[r].target \in Users /\ user' = user
    BY <1>4 DEF Login, JobOK
  <2>2. user[job[r].target].enabled
    BY <2>1 DEF LoginChecked, Fresh
  <2>3. PICK x \in Tokens : session[x] = Nobody /\ session' = [session EXCEPT ![x] = job[r].target]
    BY <1>4 DEF Login, Issue
  <2> QED BY <1>1, <2>1, <2>2, <2>3 DEF Dormant
<1>5. ASSUME NEW r \in Requests, UpdateAccount(r) PROVE FALSE
  <2>1. job[r] \in Job /\ job[r].op = "update" /\ job[r].target \in Users /\ user' = Updated(job[r])
    BY <1>5 DEF UpdateAccount, JobOK
  <2>2. session'[t] = session[t] /\ session[t] \in Users /\ user[session[t]].enabled
    BY <1>1, <1>5 DEF UpdateAccount, Revoked, Dormant
  <2>3. session[t] = job[r].target /\ job[r].enabled = "off"
    BY <1>1, <2>1, <2>2 DEF Updated, Account, Job
  <2>4. session'[t] = Nobody
    BY <1>5, <2>1, <2>3 DEF UpdateAccount, Revoked, JobOK
  <2> QED BY <1>1, <2>4
<1> QED BY <1>2, <1>3, <1>4, <1>5, AccountsChange

\* The invariant behind the theorems below: what a request has checked holds until
\* something it may overlap commits (api/admin.py, api/auth.py).
THEOREM AccountsInvariant == AccountsSpec => []AccountsInv
<1>1. AccountsInv /\ [AccountsNext]_accountVars => AccountsInv'
  BY AccountsTypeStep, JobStep, UpdateStep, LoginStep DEF AccountsInv
<1> QED BY <1>1, InitAccounts, PTL DEF AccountsSpec

\* Accounts, sessions and jobs keep their types, for any users and requests.
THEOREM AccountsTypeCorrect == AccountsSpec => []AccountsTypeOK
<1>1. AccountsInv => AccountsTypeOK
  BY DEF AccountsInv
<1> QED BY <1>1, AccountsInvariant, PTL

\* The last enabled administrator is only ever taken by an update behind whose
\* count another update has taken an administrator (api/admin.py, update_account).
THEOREM AdminTheorem == AccountsSpec => AdminRemains
<1>1. AccountsInv /\ [AccountsNext]_accountVars
        => [EnabledAdmins # {} /\ EnabledAdmins' = {}
              => \E r \in Requests : UpdateAccount(r) /\ job[r].stale]_accountVars
  BY AdminStep
<1> QED BY <1>1, AccountsInvariant, PTL DEF AccountsSpec, AdminRemains

\* A disabled account is only ever left with a session by a login behind whose
\* check it was disabled (api/auth.py, login; revoke_user_sessions).
THEOREM SessionTheorem == AccountsSpec => DisabledHasNoSession
<1>1. AccountsInv /\ [AccountsNext]_accountVars
        => [Dormant' \subseteq Dormant \/ \E r \in Requests : Login(r) /\ job[r].stale]_accountVars
  BY SessionStep
<1> QED BY <1>1, AccountsInvariant, PTL DEF AccountsSpec, DisabledHasNoSession

---------------------------------------------------------------------------
(* ProviderClient.  What is sent since the call began is known at each     *)
(* place of the loop, and so is how far the loop has failed.               *)

Flags == refreshed \in BOOLEAN /\ preflighted \in BOOLEAN /\ marked \in BOOLEAN

Stages ==
  /\ provider \in Served
  /\ pc \in {"idle", "preflight", "request", "sent", "refresh", "probe"}
  /\ transport \in {"http", "codex", "agy", "claude"}
  /\ result \in Results

Counts ==
  /\ attempt \in 0..MaxRetries /\ failed \in Nat
  /\ charged \in 0..HardLimit /\ sent \in 0..HardLimit /\ before \in 0..HardLimit
  /\ calls \in 0..MaxCalls

LEMMA Typed == ClientTypeOK <=> Flags /\ Stages /\ Counts
BY DEF ClientTypeOK, Flags, Stages, Counts

Once == IF refreshed \/ pc = "refresh" THEN 1 ELSE 0

SentOK ==
  /\ before <= sent
  /\ pc \in {"preflight", "request"} => sent - before <= failed + Once
  /\ pc \in {"sent", "probe"} => sent - before <= 1 + failed + Once
  /\ pc = "refresh" => sent - before <= 1 + failed
  /\ pc = "idle" => sent - before <= 1 + failed + Once

FailedOK ==
  /\ pc # "idle" => failed <= attempt + (IF refreshed THEN MaxRetries ELSE 0)
  /\ pc = "idle" => failed <= 1 + MaxRetries + (IF refreshed THEN MaxRetries ELSE 0)

RefreshOK ==
  /\ refreshed => transport = "codex"
  /\ pc = "refresh" => transport = "codex" /\ ~refreshed
  /\ pc = "probe" => transport = "agy"

ChargedOK == sent <= charged /\ charged <= sent + 1

ClientInv == ClientTypeOK /\ SentOK /\ FailedOK /\ RefreshOK /\ ChargedOK

LEMMA InitClient == ClientInit => ClientInv
<1> SUFFICES ASSUME ClientInit PROVE ClientInv
  OBVIOUS
<1> USE ClientAssumption DEF ClientInit
<1>1. Flags /\ Stages
  BY DEF Flags, Stages, Served, Results, Errors
<1>2. ClientTypeOK
  <2>1. Counts
    BY DEF Counts
  <2> QED BY <1>1, <2>1, Typed
<1>3. SentOK
  BY DEF SentOK, Once
<1>4. FailedOK /\ RefreshOK /\ ChargedOK
  BY DEF FailedOK, RefreshOK, ChargedOK
<1> QED BY <1>2, <1>3, <1>4 DEF ClientInv

LEMMA FlagsStep == Flags /\ [ClientNext]_clientVars => Flags'
<1> SUFFICES ASSUME Flags, [ClientNext]_clientVars PROVE Flags'
  OBVIOUS
<1> USE ClientAssumption DEF Flags, Ledger, Call, End
<1>1. CASE Complete
  <2>1. PICK how \in {"http", "codex", "agy", "claude"} : Begin(how)
    BY <1>1 DEF Complete, OpenAICompatible, OpenAIResponses, CodexResponses, Gemini, Antigravity, Anthropic, Ollama
  <2> QED BY <2>1 DEF Begin
<1>2. CASE Preflight
  BY <1>2 DEF Preflight, LoginRefused
<1>3. CASE Send
  BY <1>3 DEF Send
<1>4. CASE HttpFails \/ ClaudeFails \/ AntigravityFails
  BY <1>4 DEF HttpFails, ClaudeFails, AntigravityFails, Retry
<1>5. CASE HttpAnswer
  BY <1>5 DEF HttpAnswer
<1>6. CASE HttpRejected
  BY <1>6 DEF HttpRejected
<1>7. CASE RefreshCodex
  BY <1>7 DEF RefreshCodex
<1>8. CASE ClaudeAnswer \/ AntigravityAnswer
  BY <1>8 DEF ClaudeAnswer, AntigravityAnswer, LoginRefused
<1>9. CASE AntigravityTimesOut
  BY <1>9 DEF AntigravityTimesOut
<1>10. CASE Probe
  BY <1>10 DEF Probe, LoginRefused, Retry
<1>11. CASE UNCHANGED clientVars
  BY <1>11 DEF clientVars
<1> HIDE DEF Flags, Ledger, Call, End
<1> QED
  BY <1>1, <1>2, <1>3, <1>4, <1>5, <1>6, <1>7, <1>8, <1>9, <1>10, <1>11 DEF ClientNext

LEMMA CountsStep == ClientTypeOK /\ [ClientNext]_clientVars => (Stages /\ Counts)'
<1> SUFFICES ASSUME ClientTypeOK, [ClientNext]_clientVars PROVE (Stages /\ Counts)'
  OBVIOUS
<1> USE ClientAssumption DEF ClientTypeOK, Stages, Counts, Results, Errors, Ledger, Call, End
<1>1. CASE Complete
  <2>1. PICK how \in {"http", "codex", "agy", "claude"} : Begin(how)
    BY <1>1 DEF Complete, OpenAICompatible, OpenAIResponses, CodexResponses, Gemini, Antigravity, Anthropic, Ollama
  <2> QED BY <2>1 DEF Begin
<1>2. CASE Preflight
  BY <1>2 DEF Preflight, LoginRefused
<1>3. CASE Send
  BY <1>3 DEF Send
<1>4. CASE HttpFails \/ ClaudeFails \/ AntigravityFails
  BY <1>4 DEF HttpFails, ClaudeFails, AntigravityFails, Retry
<1>5. CASE HttpAnswer
  BY <1>5 DEF HttpAnswer
<1>6. CASE HttpRejected
  BY <1>6 DEF HttpRejected
<1>7. CASE RefreshCodex
  BY <1>7 DEF RefreshCodex
<1>8. CASE ClaudeAnswer \/ AntigravityAnswer
  BY <1>8 DEF ClaudeAnswer, AntigravityAnswer, LoginRefused
<1>9. CASE AntigravityTimesOut
  BY <1>9 DEF AntigravityTimesOut
<1>10. CASE Probe
  BY <1>10 DEF Probe, LoginRefused, Retry
<1>11. CASE UNCHANGED clientVars
  BY <1>11 DEF clientVars
<1> HIDE DEF ClientTypeOK, Stages, Counts, Results, Errors, Ledger, Call, End
<1> QED
  BY <1>1, <1>2, <1>3, <1>4, <1>5, <1>6, <1>7, <1>8, <1>9, <1>10, <1>11 DEF ClientNext

\* Each step of the call moves the counts as its place says.
LEMMA LoopStep == ClientInv /\ [ClientNext]_clientVars => (SentOK /\ FailedOK /\ RefreshOK /\ ChargedOK)'
<1> SUFFICES ASSUME ClientInv, [ClientNext]_clientVars PROVE (SentOK /\ FailedOK /\ RefreshOK /\ ChargedOK)'
  OBVIOUS
<1> USE ClientAssumption DEF ClientInv, ClientTypeOK, SentOK, FailedOK, RefreshOK, ChargedOK, Once, Ledger, Call, End
<1>1. CASE Complete
  <2>1. PICK how \in {"http", "codex", "agy", "claude"} : Begin(how)
    BY <1>1 DEF Complete, OpenAICompatible, OpenAIResponses, CodexResponses, Gemini, Antigravity, Anthropic, Ollama
  <2> QED BY <2>1 DEF Begin
<1>2. CASE Preflight
  BY <1>2 DEF Preflight, LoginRefused
<1>3. CASE Send
  BY <1>3 DEF Send
<1>4. CASE HttpFails \/ ClaudeFails \/ AntigravityFails
  BY <1>4 DEF HttpFails, ClaudeFails, AntigravityFails, Retry
<1>5. CASE HttpAnswer
  BY <1>5 DEF HttpAnswer
<1>6. CASE HttpRejected
  BY <1>6 DEF HttpRejected
<1>7. CASE RefreshCodex
  BY <1>7 DEF RefreshCodex
<1>8. CASE ClaudeAnswer \/ AntigravityAnswer
  BY <1>8 DEF ClaudeAnswer, AntigravityAnswer, LoginRefused
<1>9. CASE AntigravityTimesOut
  BY <1>9 DEF AntigravityTimesOut
<1>10. CASE Probe
  BY <1>10 DEF Probe, LoginRefused, Retry
<1>11. CASE UNCHANGED clientVars
  BY <1>11 DEF clientVars
<1> HIDE DEF ClientInv, ClientTypeOK, SentOK, FailedOK, RefreshOK, ChargedOK, Once, Ledger, Call, End
<1> QED
  BY <1>1, <1>2, <1>3, <1>4, <1>5, <1>6, <1>7, <1>8, <1>9, <1>10, <1>11 DEF ClientNext

\* The invariant says at each place what the promise says of the whole call.
LEMMA Accounted == ClientInv => RequestsAccounted
BY ClientAssumption DEF ClientInv, ClientTypeOK, SentOK, FailedOK, RefreshOK, ChargedOK, Once, RequestsAccounted

\* The invariant behind the theorems below: at every place of a wire's loop the
\* requests charged, sent, failed and refreshed agree (runner/providers.py).
THEOREM ClientInvariant == ClientSpec => []ClientInv
<1>1. ClientInv /\ [ClientNext]_clientVars => ClientInv'
  <2>1. (Flags /\ Stages /\ Counts)' => ClientTypeOK'
    BY DEF ClientTypeOK, Flags, Stages, Counts
  <2>2. ClientInv => ClientTypeOK /\ Flags
    BY Typed DEF ClientInv
  <2> QED BY <2>1, <2>2, FlagsStep, CountsStep, LoopStep DEF ClientInv
<1> QED BY <1>1, InitClient, PTL DEF ClientSpec

\* A client's call keeps its types, for any number of retries and calls.
THEOREM ClientTypeCorrect == ClientSpec => []ClientTypeOK
<1>1. ClientInv => ClientTypeOK
  BY DEF ClientInv
<1> QED BY <1>1, ClientInvariant, PTL

\* Whatever the wire, each request of a call is charged to the run before it is
\* sent and owed to a failure or to the one refresh (ModelClient, on_request).
THEOREM RequestsTheorem == ClientSpec => []RequestsAccounted
BY Accounted, ClientInvariant, PTL
===========================================================================
