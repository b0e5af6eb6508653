---------------------------- MODULE SessionFlows ----------------------------
(***************************************************************************)
(* Sessions of rustasea-app over the session guard of rustasea-auth: the   *)
(* login with its two-factor interception, the challenge, the confirmation *)
(* of the password, the change of the password, logout, refresh, and the   *)
(* two-factor settings behind the password.confirm gate.                   *)
(*                                                                         *)
(* Every await of a handler is a point where other requests run, and where *)
(* the request may be dropped.  A session record is loaded once per        *)
(* request and written back whole (tower-sessions, external); a write is   *)
(* an upsert, which is what DatabaseSessionStore::write and the in-memory  *)
(* store do.  Creating a record under a fresh id commutes with everything  *)
(* else and shares the step that decided it.  A wrong password or code, a  *)
(* failing store and a missing service end a handler unchanged: SDrop.     *)
(* The one failure that does not end its handler is the login's first      *)
(* lookup (LoginMiss).                                                     *)
(***************************************************************************)
EXTENDS FiniteSets

CONSTANTS
  Account,       \* users
  Sid,           \* session ids: random, never issued twice
  Secret,        \* passwords
  Code,          \* recovery codes of one set
  SRequest,      \* requests in flight
  Nothing        \* no record

VARIABLES
  password,    \* account -> its password
  two_factor,  \* account -> [confirmed, codes], or Nothing
  sessions,    \* id -> [user, pending, confirmed] and the history of its login
               \* [valid, cleared, missed], or Nothing
  sreq,        \* per request: where its handler is
  issued       \* ids in use or used before

sessVars == <<password, two_factor, sessions, sreq, issued>>

SIdle == [pc |-> "idle"]

SessInit ==
  /\ password \in [Account -> Secret]
  /\ two_factor = [u \in Account |-> Nothing]
  /\ sessions = [s \in Sid |-> Nothing]
  /\ sreq = [r \in SRequest |-> SIdle]
  /\ issued = {}

SAt(r, pc) == sreq[r].pc = pc
SGo(r, to) == sreq' = [sreq EXCEPT ![r] = to]

-----------------------------------------------------------------------------
(* The two-factor record. *)

\* Mutant: an account that has used up its recovery codes is not enrolled.
has_codes(rec) == rec # Nothing /\ rec.confirmed /\ rec.codes # {}

\* TwoFactorRecord::is_confirmed of an optional record.
is_confirmed(rec) == rec # Nothing /\ rec.confirmed

\* SessionGuard::parse resolves a principal; a pending identity is under
\* another key.
authenticated(s) == sessions[s] # Nothing /\ ~ sessions[s].pending

\* The password.confirm middleware lets the session through.
gate(s) == authenticated(s) /\ sessions[s].confirmed

\* History: a login in flight has seen its account not enrolled, and its
\* password to be the current one, at some moment since it began.
Watching(reqs, pw, tf) ==
  [r \in SRequest |->
     IF "sawOpen" \in DOMAIN reqs[r]
     THEN [reqs[r] EXCEPT
             !.sawOpen  = @ \/ ~ (tf[reqs[r].user] # Nothing /\ tf[reqs[r].user].confirmed),
             !.sawValid = @ \/ pw[reqs[r].user] = reqs[r].given]
     ELSE reqs[r]]

\* The session a login opens.  History: its password was valid at some moment
\* of the login; the challenge is ahead of it, or at some moment the account was
\* not enrolled; it was enrolled throughout and the login did not look.
Record(q, pending) ==
  [user |-> q.user, pending |-> pending, confirmed |-> FALSE,
   valid |-> q.sawValid, cleared |-> pending \/ q.sawOpen, missed |-> q.missed /\ ~ q.sawOpen]

Open(id, record) ==
  /\ id \notin issued
  /\ issued' = issued \cup {id}
  /\ sessions' = [sessions EXCEPT ![id] = record]

-----------------------------------------------------------------------------
(* POST /login. *)

\* A login of u with p begins.
LoginBegin(r, u, p, pc, hash, missed) ==
  /\ SAt(r, "idle")
  /\ sreq' = Watching([sreq EXCEPT ![r] =
        [pc |-> pc, user |-> u, given |-> p, hash |-> hash, missed |-> missed,
         sawOpen |-> FALSE, sawValid |-> FALSE]], password, two_factor)
  /\ UNCHANGED <<password, two_factor, sessions, issued>>

\* intercept_login finds the user and its hash.
LoginFind(r, u, p) == LoginBegin(r, u, p, "intercept", password[u], FALSE)

\* intercept_login's lookup fails, or the address is not u's yet: it returns
\* None, and the login goes on to the provider like that of an account that is
\* not enrolled.
LoginMiss(r, u, p) == LoginBegin(r, u, p, "provider", Nothing, TRUE)

\* intercept_login reads the two-factor record: an enrolled account gets a
\* pending session, any other goes on to the provider.
LoginIntercept(r, id) ==
  /\ SAt(r, "intercept")
  /\ LET q == sreq[r] IN
     \/ /\ ~ is_confirmed(two_factor[q.user])
        /\ SGo(r, [q EXCEPT !.pc = "provider", !.hash = Nothing])
        /\ UNCHANGED <<sessions, issued>>
     \/ /\ is_confirmed(two_factor[q.user])
        /\ q.given = q.hash
        /\ Open(id, Record(q, TRUE))
        /\ SGo(r, SIdle)
  /\ UNCHANGED <<password, two_factor>>

\* login_with_provider: find again, verify, persist under a fresh id.
LoginProvider(r, id) ==
  /\ SAt(r, "provider")
  /\ LET q == sreq[r] IN
     /\ q.given = password[q.user]
     /\ Open(id, Record(q, FALSE))
  /\ SGo(r, SIdle)
  /\ UNCHANGED <<password, two_factor>>

-----------------------------------------------------------------------------
(* POST /two-factor-challenge. *)

ChallengeOpen(r, s) ==
  /\ SAt(r, "idle")
  /\ sessions[s] # Nothing /\ sessions[s].pending
  /\ SGo(r, [pc |-> "challenge", id |-> s, record |-> sessions[s]])
  /\ UNCHANGED <<password, two_factor, sessions, issued>>

Promoted(q) == [pc |-> "cycle", id |-> q.id, record |-> [q.record EXCEPT !.pending = FALSE]]

\* verify_challenge with the current code.
ChallengeCode(r) ==
  /\ SAt(r, "challenge")
  /\ is_confirmed(two_factor[sreq[r].record.user])
  /\ SGo(r, Promoted(sreq[r]))
  /\ UNCHANGED <<password, two_factor, sessions, issued>>

\* consume_recovery_code: get, then put the record without the code.
RecoveryRead(r, c) ==
  /\ SAt(r, "challenge")
  /\ LET rec == two_factor[sreq[r].record.user] IN
     /\ rec # Nothing /\ c \in rec.codes
     /\ SGo(r, [pc |-> "recovery", id |-> sreq[r].id, record |-> sreq[r].record,
                put |-> [rec EXCEPT !.codes = @ \ {c}]])
  /\ UNCHANGED <<password, two_factor, sessions, issued>>

RecoveryPut(r) ==
  /\ SAt(r, "recovery")
  /\ two_factor' = [two_factor EXCEPT ![sreq[r].record.user] = sreq[r].put]
  /\ sreq' = Watching([sreq EXCEPT ![r] = Promoted(sreq[r])], password, two_factor')
  /\ UNCHANGED <<password, sessions, issued>>

-----------------------------------------------------------------------------
(* Session guard. *)

\* refresh loads the record ...
RefreshLoad(r, s) ==
  /\ SAt(r, "idle") /\ authenticated(s)
  /\ SGo(r, [pc |-> "cycle", id |-> s, record |-> sessions[s]])
  /\ UNCHANGED <<password, two_factor, sessions, issued>>

\* ... cycle_id deletes it under the old id ...
CycleDelete(r) ==
  /\ SAt(r, "cycle")
  /\ sessions' = [sessions EXCEPT ![sreq[r].id] = Nothing]
  /\ SGo(r, [pc |-> "save", record |-> sreq[r].record])
  /\ UNCHANGED <<password, two_factor, issued>>

\* ... and save writes it under the new one.
CycleSave(r, id) ==
  /\ SAt(r, "save")
  /\ Open(id, sreq[r].record)
  /\ SGo(r, SIdle)
  /\ UNCHANGED <<password, two_factor>>

\* POST /logout: the record is deleted, then the answer sent.
Logout(s) ==
  /\ sessions[s] # Nothing
  /\ sessions' = [sessions EXCEPT ![s] = Nothing]
  /\ UNCHANGED <<password, two_factor, sreq, issued>>

\* The record's expiry passes, or its confirmation grows older than
\* AUTH_PASSWORD_TIMEOUT.
Lapse(s) ==
  /\ sessions[s] # Nothing
  /\ \/ sessions' = [sessions EXCEPT ![s] = Nothing]
     \/ /\ sessions[s].confirmed
        /\ sessions' = [sessions EXCEPT ![s].confirmed = FALSE]
  /\ UNCHANGED <<password, two_factor, sreq, issued>>

-----------------------------------------------------------------------------
(* POST /confirm-password and PUT /settings/password. *)

ConfirmVerify(r, s) ==
  /\ SAt(r, "idle") /\ authenticated(s)
  /\ SGo(r, [pc |-> "confirm", id |-> s])
  /\ UNCHANGED <<password, two_factor, sessions, issued>>

\* confirm_password_at: open_session loads ...
ConfirmOpen(r) ==
  /\ SAt(r, "confirm")
  /\ authenticated(sreq[r].id)
  /\ SGo(r, [pc |-> "stamp", id |-> sreq[r].id, record |-> sessions[sreq[r].id]])
  /\ UNCHANGED <<password, two_factor, sessions, issued>>

\* ... and save upserts the record with the timestamp.
ConfirmSave(r) ==
  /\ SAt(r, "stamp")
  /\ sessions' = [sessions EXCEPT ![sreq[r].id] = [sreq[r].record EXCEPT !.confirmed = TRUE]]
  /\ SGo(r, SIdle)
  /\ UNCHANGED <<password, two_factor, issued>>

\* password_update: the current password is verified, then the new written.
PasswordVerify(r, s, new) ==
  /\ SAt(r, "idle") /\ authenticated(s)
  /\ SGo(r, [pc |-> "password", owner |-> sessions[s].user, new |-> new])
  /\ UNCHANGED <<password, two_factor, sessions, issued>>

PasswordWrite(r) ==
  /\ SAt(r, "password")
  /\ password' = [password EXCEPT ![sreq[r].owner] = sreq[r].new]
  /\ sreq' = Watching([sreq EXCEPT ![r] = SIdle], password', two_factor)
  /\ UNCHANGED <<two_factor, sessions, issued>>

-----------------------------------------------------------------------------
(* /user/two-factor-authentication and its kin, behind the gate. *)

Manage(r, s, op) ==
  /\ SAt(r, "idle") /\ gate(s)
  /\ SGo(r, [pc |-> op, owner |-> sessions[s].user])
  /\ UNCHANGED <<password, two_factor, sessions, issued>>

\* TwoFactorService::enable replaces whatever there was; disable deletes it.
TfReplace(r) ==
  /\ \/ /\ SAt(r, "enable")
        /\ two_factor' = [two_factor EXCEPT ![sreq[r].owner] =
                            [confirmed |-> FALSE, codes |-> Code]]
     \/ /\ SAt(r, "disable")
        /\ two_factor' = [two_factor EXCEPT ![sreq[r].owner] = Nothing]
  /\ sreq' = Watching([sreq EXCEPT ![r] = SIdle], password, two_factor')
  /\ UNCHANGED <<password, sessions, issued>>

\* TwoFactorService::confirm and regenerate_recovery_codes: get ...
TfRead(r) ==
  /\ SAt(r, "tfconfirm") \/ SAt(r, "regenerate")
  /\ LET rec == two_factor[sreq[r].owner] IN
     /\ rec # Nothing
     /\ SGo(r, [pc |-> "tfput", owner |-> sreq[r].owner,
                put |-> IF SAt(r, "tfconfirm") THEN [rec EXCEPT !.confirmed = TRUE]
                                               ELSE [rec EXCEPT !.codes = Code]])
  /\ UNCHANGED <<password, two_factor, sessions, issued>>

\* ... and put.
TfPut(r) ==
  /\ SAt(r, "tfput")
  /\ two_factor' = [two_factor EXCEPT ![sreq[r].owner] = sreq[r].put]
  /\ sreq' = Watching([sreq EXCEPT ![r] = SIdle], password, two_factor')
  /\ UNCHANGED <<password, sessions, issued>>

\* A handler answers with an error, or its client goes away.
SDrop(r) ==
  /\ ~ SAt(r, "idle")
  /\ SGo(r, SIdle)
  /\ UNCHANGED <<password, two_factor, sessions, issued>>

SessNext ==
  \/ \E s \in Sid : Logout(s) \/ Lapse(s)
  \/ \E r \in SRequest :
        \/ \E u \in Account, p \in Secret : LoginFind(r, u, p) \/ LoginMiss(r, u, p)
        \/ \E id \in Sid : LoginIntercept(r, id) \/ LoginProvider(r, id) \/ CycleSave(r, id)
        \/ \E s \in Sid : ChallengeOpen(r, s) \/ RefreshLoad(r, s) \/ ConfirmVerify(r, s)
        \/ ChallengeCode(r) \/ RecoveryPut(r) \/ CycleDelete(r)
        \/ \E c \in Code : RecoveryRead(r, c)
        \/ ConfirmOpen(r) \/ ConfirmSave(r)
        \/ \E s \in Sid, p \in Secret : PasswordVerify(r, s, p)
        \/ PasswordWrite(r)
        \/ \E s \in Sid, op \in {"enable", "disable", "tfconfirm", "regenerate"} :
              Manage(r, s, op)
        \/ TfReplace(r) \/ TfRead(r) \/ TfPut(r)
        \/ SDrop(r)

SessSpec == SessInit /\ [][SessNext]_sessVars

-----------------------------------------------------------------------------
(* Properties. *)

\* Whoever holds a session of an account gave, while the login was being
\* answered, a password that was then the account's, and was let past the
\* challenge only if the account was then not enrolled or its first lookup had
\* missed: although the login reads the user, the two-factor record and the user
\* again with other requests in between (intercept_login, login_with_provider).
SessionsEarned ==
  \A s \in Sid : sessions[s] # Nothing =>
     sessions[s].valid /\ (sessions[s].cleared \/ sessions[s].missed)

\* The same without the exception, as intercept_login's comment has it: no
\* failure of a store is a silent bypass of the second factor.
SecondFactorKept ==
  \A s \in Sid : sessions[s] # Nothing => sessions[s].cleared
=============================================================================
