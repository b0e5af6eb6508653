------------------------------ MODULE Accounts ------------------------------
(***************************************************************************)
(* The account routes of rustasea-app that change users and their          *)
(* addresses: registration (routes/auth.rs), the profile form              *)
(* (routes/settings.rs), e-mail verification (routes/auth/verification.rs) *)
(* and password resets (routes/auth/password_reset/mod.rs), over the user  *)
(* provider and the reset store of rustasea-auth.                          *)
(*                                                                         *)
(* Every await of a handler is a point where other requests run.  A        *)
(* request whose client goes away is dropped at such a point.  Throttling, *)
(* validation of other fields, a switched-off feature and a missing signer *)
(* or mailer end a handler before it changes anything, and are no steps.   *)
(* A session is what it copied of the user at login (SessionUser): one per *)
(* user is kept, since a handler only reads the e-mail of its own.         *)
(***************************************************************************)
EXTENDS Integers, FiniteSets

CONSTANTS
  User,          \* ids of users
  Email,         \* addresses
  Token,         \* reset tokens
  AccRequest,    \* requests in flight
  NoOne          \* no user, no address, no token

ASSUME AccAssumption ==
  NoOne \notin User \cup Email \cup Token \cup [email : Email, verified : BOOLEAN]

VARIABLES
  users,     \* id -> [email, verified], NoOne when there is no such user
  copy,      \* id -> the address its session copied, NoOne without a session
  row,       \* address -> the token whose hash its reset row holds
  mailed,    \* reset links sent, as <<address, token>>
  stale,     \* tokens whose row and link have expired
  accReq,    \* per request: where its handler is
  \* History:
  spent      \* tokens that changed a password

accVars == <<users, copy, row, mailed, stale, accReq, spent>>

AccIdle == [pc |-> "idle"]

AccInit ==
  /\ users = [u \in User |-> NoOne]
  /\ copy = [u \in User |-> NoOne]
  /\ row = [e \in Email |-> NoOne]
  /\ mailed = {} /\ stale = {}
  /\ accReq = [r \in AccRequest |-> AccIdle]
  /\ spent = {}

-----------------------------------------------------------------------------
(* The user provider. *)

\* find_by_email.
owner(e) ==
  IF \E u \in User : users[u] # NoOne /\ users[u].email = e
  THEN CHOOSE u \in User : users[u] # NoOne /\ users[u].email = e
  ELSE NoOne

\* Mutant: the provider trusts the probe the handler made earlier.
free_unchecked(e, u) == TRUE

\* create and update_profile: whether the address may become u's.
free_for(e, u) == owner(e) \in {NoOne, u}

\* generate_token draws none that is in use.
tokens_in_use ==
  stale \cup spent \cup {row[e] : e \in Email} \cup {l[2] : l \in mailed}
  \cup {accReq[r].token : r \in {r \in AccRequest : "token" \in DOMAIN accReq[r]}}

AccAt(r, pc) == accReq[r].pc = pc
AccGo(r, to) == accReq' = [accReq EXCEPT ![r] = to]
AccDone(r) == AccGo(r, AccIdle)

-----------------------------------------------------------------------------
(* POST /register: probe, create, log in. *)

RegisterProbe(r, e) ==
  /\ AccAt(r, "idle")
  /\ owner(e) = NoOne
  /\ AccGo(r, [pc |-> "create", email |-> e])
  /\ UNCHANGED <<users, copy, row, mailed, stale, spent>>

\* create answers UserExists when the probe was overtaken.
RegisterCreate(r, u) ==
  /\ AccAt(r, "create") /\ users[u] = NoOne
  /\ LET e == accReq[r].email IN
     IF free_for(e, u)
     THEN /\ users' = [users EXCEPT ![u] = [email |-> e, verified |-> FALSE]]
          /\ AccGo(r, [pc |-> "autologin", email |-> e, user |-> u])
     ELSE UNCHANGED users /\ AccDone(r)
  /\ UNCHANGED <<copy, row, mailed, stale, spent>>

\* login_with_provider looks the address up again.
RegisterLogin(r) ==
  /\ AccAt(r, "autologin")
  /\ LET u == accReq[r].user IN
     copy' = IF owner(accReq[r].email) = u
             THEN [copy EXCEPT ![u] = users[u].email] ELSE copy
  /\ AccDone(r)
  /\ UNCHANGED <<users, row, mailed, stale, spent>>

\* POST /login of a known user: the session copies the record.
SignIn(u) ==
  /\ users[u] # NoOne
  /\ copy' = [copy EXCEPT ![u] = users[u].email]
  /\ UNCHANGED <<users, row, mailed, stale, accReq, spent>>

-----------------------------------------------------------------------------
(* PATCH /settings/profile: probe, write, unverify. *)

ProfileProbe(r, u, e) ==
  /\ AccAt(r, "idle")
  /\ copy[u] # NoOne
  /\ owner(e) \in {NoOne, u}
  /\ AccGo(r, [pc |-> "profile", user |-> u, email |-> e, principal |-> copy[u]])
  /\ UNCHANGED <<users, copy, row, mailed, stale, spent>>

\* Whether the handler takes the address for a new one: it compares with the
\* address the session copied at login.
email_changed(q) == q.principal # q.email

ProfileWrite(r) ==
  /\ AccAt(r, "profile")
  /\ LET q == accReq[r] IN
     IF free_for(q.email, q.user)
     THEN /\ users' = [users EXCEPT ![q.user].email = q.email]
          /\ IF email_changed(q) THEN AccGo(r, [q EXCEPT !.pc = "unverify"]) ELSE AccDone(r)
     ELSE UNCHANGED users /\ AccDone(r)
  /\ UNCHANGED <<copy, row, mailed, stale, spent>>

\* set_email_verified_at(None); when the store fails the handler answers 500.
ProfileUnverify(r) ==
  /\ AccAt(r, "unverify")
  /\ \/ users' = [users EXCEPT ![accReq[r].user].verified = FALSE]
     \/ UNCHANGED users
  /\ AccDone(r)
  /\ UNCHANGED <<copy, row, mailed, stale, spent>>

-----------------------------------------------------------------------------
(* E-mail verification. *)

\* GET /email/verify/{user_id}/{hash} up to the record's check.  Sending the
\* link changes nothing here, and a signed link may be followed at any time
\* after it was: the record must still have the address it was made for.
VerifyFind(r, u, e) ==
  /\ AccAt(r, "idle")
  /\ users[u] # NoOne /\ owner(e) = u
  /\ AccGo(r, [pc |-> "verify", user |-> u])
  /\ UNCHANGED <<users, copy, row, mailed, stale, spent>>

VerifySet(r) ==
  /\ AccAt(r, "verify")
  /\ users' = [users EXCEPT ![accReq[r].user].verified = TRUE]
  /\ AccDone(r)
  /\ UNCHANGED <<copy, row, mailed, stale, spent>>

-----------------------------------------------------------------------------
(* Password resets. *)

\* POST /forgot-password finds the account; an address without one is done.
ForgotFind(r, e) ==
  /\ AccAt(r, "idle")
  /\ owner(e) # NoOne
  /\ AccGo(r, [pc |-> "token", email |-> e])
  /\ UNCHANGED <<users, copy, row, mailed, stale, spent>>

\* A fresh token replaces the row of the address ...
ForgotCreate(r, t) ==
  /\ AccAt(r, "token")
  /\ t \notin tokens_in_use
  /\ row' = [row EXCEPT ![accReq[r].email] = t]
  /\ AccGo(r, [pc |-> "mail", email |-> accReq[r].email, token |-> t])
  /\ UNCHANGED <<users, copy, mailed, stale, spent>>

\* ... and its signed link is mailed.
ForgotMail(r) ==
  /\ AccAt(r, "mail")
  /\ mailed' = mailed \cup {<<accReq[r].email, accReq[r].token>>}
  /\ AccDone(r)
  /\ UNCHANGED <<users, copy, row, stale, spent>>

\* token_matches: a live row whose hash is the token's.
token_matches(e, t) == row[e] = t /\ t \notin stale

\* POST /reset-password: the link is genuine and its row found ...
ResetMatch(r, e, t) ==
  /\ AccAt(r, "idle")
  /\ <<e, t>> \in mailed /\ t \notin stale
  /\ token_matches(e, t)
  /\ AccGo(r, [pc |-> "account", email |-> e, token |-> t])
  /\ UNCHANGED <<users, copy, row, mailed, stale, spent>>

\* ... and then the account.
ResetFind(r) ==
  /\ AccAt(r, "account")
  /\ owner(accReq[r].email) # NoOne
  /\ AccGo(r, [accReq[r] EXCEPT !.pc = "burn"])
  /\ UNCHANGED <<users, copy, row, mailed, stale, spent>>

\* Mutant: the password is written first, the row deleted afterwards.
burn_last(q) == UNCHANGED row

\* reset_store().delete(&email): before the password is written.
burn(q) == row' = [row EXCEPT ![q.email] = NoOne]

ResetBurn(r) ==
  /\ AccAt(r, "burn")
  /\ burn(accReq[r])
  /\ AccGo(r, [accReq[r] EXCEPT !.pc = "newpassword"])
  /\ UNCHANGED <<users, copy, mailed, stale, spent>>

\* update_password; the next lookup of the row is another request's.
ResetWrite(r) ==
  /\ AccAt(r, "newpassword")
  /\ spent' = spent \cup {accReq[r].token}
  /\ AccDone(r)
  /\ UNCHANGED <<users, copy, row, mailed, stale>>

\* Sixty minutes pass since a token was issued.
TokenExpires(t) ==
  /\ t \notin stale
  /\ (\E e \in Email : row[e] = t) \/ (\E l \in mailed : l[2] = t)
  /\ stale' = stale \cup {t}
  /\ UNCHANGED <<users, copy, row, mailed, accReq, spent>>

\* The client disconnects and the handler's future is dropped.
AccDrop(r) ==
  /\ ~ AccAt(r, "idle")
  /\ AccDone(r)
  /\ UNCHANGED <<users, copy, row, mailed, stale, spent>>

AccNext ==
  \/ \E u \in User : SignIn(u)
  \/ \E t \in Token : TokenExpires(t)
  \/ \E r \in AccRequest :
        \/ \E e \in Email : RegisterProbe(r, e)
        \/ \E u \in User : RegisterCreate(r, u)
        \/ RegisterLogin(r)
        \/ \E u \in User, e \in Email : ProfileProbe(r, u, e)
        \/ ProfileWrite(r) \/ ProfileUnverify(r)
        \/ \E u \in User, e \in Email : VerifyFind(r, u, e)
        \/ VerifySet(r)
        \/ \E e \in Email : ForgotFind(r, e)
        \/ \E t \in Token : ForgotCreate(r, t)
        \/ ForgotMail(r)
        \/ \E l \in mailed : ResetMatch(r, l[1], l[2])
        \/ ResetFind(r) \/ ResetBurn(r) \/ ResetWrite(r)
        \/ AccDrop(r)

AccSpec == AccInit /\ [][AccNext]_accVars

-----------------------------------------------------------------------------
(* Properties. *)

\* An address belongs to one user, although registration and the profile form
\* probe for it long before they write (register_submit, profile_update).
OneOwnerPerEmail ==
  \A u, v \in User :
     users[u] # NoOne /\ users[v] # NoOne /\ users[u].email = users[v].email => u = v

\* A token that changed a password matches no row again: the row is deleted
\* before the password is written, so neither a request dropped in between nor
\* another one with the same link leaves it usable (reset_password_submit).
SpentTokenDead ==
  \A e \in Email : row[e] # NoOne => row[e] \notin spent
=============================================================================
