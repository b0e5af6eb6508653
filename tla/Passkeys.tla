------------------------------ MODULE Passkeys ------------------------------
(***************************************************************************)
(* Passkeys of rustasea-auth (passkeys/mod.rs, challenge.rs, store.rs,     *)
(* webauthn.rs) and their routes in rustasea-app (routes/auth/passkeys):   *)
(* registration and login ceremonies over single-use challenges.           *)
(*                                                                         *)
(* An authenticator signs a challenge and counts its signatures; what it   *)
(* signed may reach the server late, twice or with another session.  The   *)
(* checks of client data, RP id, flags and signature (webauthn.rs) come to *)
(* one question here: is it over the challenge the server expects?         *)
(***************************************************************************)
EXTENDS Naturals, FiniteSets

CONSTANTS
  Holder,        \* users
  Browser,       \* sessions a login begins in
  Credential,    \* authenticators, one credential each
  Challenge,     \* fresh challenges: BOUND on ceremonies
  PRequest,      \* requests in flight
  NoValue

ASSUME PassAssumption == NoValue \notin Challenge

VARIABLES
  challenges,   \* key -> pending challenge; keys are users and browsers
  drawn,        \* challenges generated
  credentials,  \* id -> [user, counter], or NoValue
  device,       \* authenticator -> its own signature counter
  signed,       \* what authenticators signed: [credential, challenge, counter]
  preq,         \* per request: where its handler is
  logins        \* History: per assertion, the sessions it opened

passVars == <<challenges, drawn, credentials, device, signed, preq, logins>>

Key == Holder \cup Browser
PIdle == [pc |-> "idle"]

PassInit ==
  /\ challenges = [k \in Key |-> NoValue]
  /\ drawn = {}
  /\ credentials = [c \in Credential |-> NoValue]
  /\ device = [c \in Credential |-> 0]
  /\ signed = {}
  /\ preq = [r \in PRequest |-> PIdle]
  /\ logins = [a \in {} |-> 0]

PAt(r, pc) == preq[r].pc = pc
PGo(r, to) == preq' = [preq EXCEPT ![r] = to]

-----------------------------------------------------------------------------
\* begin_registration for a user, begin_authentication for a fresh session:
\* a new challenge replaces the pending one under the key.
Begin(k, ch) ==
  /\ ch \notin drawn
  /\ drawn' = drawn \cup {ch}
  /\ challenges' = [challenges EXCEPT ![k] = ch]
  /\ UNCHANGED <<credentials, device, signed, preq, logins>>

\* The authenticator answers a challenge it was shown; one that does not
\* count reports 0.
Sign(c, ch) ==
  /\ ch \in drawn /\ \A a \in signed : a.challenge # ch
  /\ \/ device' = [device EXCEPT ![c] = @ + 1]
     \/ device[c] = 0 /\ UNCHANGED device
  /\ signed' = signed \cup {[credential |-> c, challenge |-> ch, counter |-> device'[c]]}
  /\ UNCHANGED <<challenges, drawn, credentials, preq, logins>>

\* Mutant: the challenge is read, not removed.
peek(k) == UNCHANGED challenges

\* MemoryChallengeStore::take.
take(k) == challenges' = [challenges EXCEPT ![k] = NoValue]

\* finish_registration and finish_authentication take the challenge first;
\* without one the request is refused.
Take(r, k, a) ==
  /\ PAt(r, "idle")
  /\ challenges[k] # NoValue
  /\ take(k)
  /\ PGo(r, [pc |-> IF k \in Holder THEN "create" ELSE "find",
             key |-> k, expected |-> challenges[k], answer |-> a])
  /\ UNCHANGED <<drawn, credentials, device, signed, logins>>

\* check_client_data: the answer is over the expected challenge.
check_client_data(q) == q.answer.challenge = q.expected

\* The rest of finish_registration: a credential id is created once.
Create(r) ==
  /\ PAt(r, "create")
  /\ check_client_data(preq[r])
  /\ LET a == preq[r].answer IN
     /\ credentials[a.credential] = NoValue
     /\ credentials' = [credentials EXCEPT ![a.credential] =
                          [user |-> preq[r].key, counter |-> a.counter]]
  /\ PGo(r, PIdle)
  /\ UNCHANGED <<challenges, drawn, device, signed, logins>>

\* finish_authentication: find, verify, compare the counter.
Find(r) ==
  /\ PAt(r, "find")
  /\ check_client_data(preq[r])
  /\ LET a == preq[r].answer IN
     /\ credentials[a.credential] # NoValue
     /\ LET stored == credentials[a.credential].counter IN
        \/ a.counter > stored /\ PGo(r, [preq[r] EXCEPT !.pc = "count"])
        \/ a.counter = 0 /\ stored = 0 /\ PGo(r, [preq[r] EXCEPT !.pc = "complete"])
  /\ UNCHANGED <<challenges, drawn, credentials, device, signed, logins>>

\* update_counter fails when the credential was deleted meanwhile.
UpdateCounter(r) ==
  /\ PAt(r, "count")
  /\ LET a == preq[r].answer IN
     /\ credentials[a.credential] # NoValue
     /\ credentials' = [credentials EXCEPT ![a.credential].counter = a.counter]
  /\ PGo(r, [preq[r] EXCEPT !.pc = "complete"])
  /\ UNCHANGED <<challenges, drawn, device, signed, logins>>

\* complete_login: the session is cycled and carries the user.
CompleteLogin(r) ==
  /\ PAt(r, "complete")
  /\ LET a == preq[r].answer IN
     logins' = [b \in DOMAIN logins \cup {a} |->
                  (IF b \in DOMAIN logins THEN logins[b] ELSE 0) + (IF b = a THEN 1 ELSE 0)]
  /\ PGo(r, PIdle)
  /\ UNCHANGED <<challenges, drawn, credentials, device, signed>>

\* DELETE /settings/passkeys/{id}: only the owner's.
Delete(u, c) ==
  /\ credentials[c] # NoValue /\ credentials[c].user = u
  /\ credentials' = [credentials EXCEPT ![c] = NoValue]
  /\ UNCHANGED <<challenges, drawn, device, signed, preq, logins>>

\* A check fails, a store fails, or the client goes away.
PDrop(r) ==
  /\ ~ PAt(r, "idle")
  /\ PGo(r, PIdle)
  /\ UNCHANGED <<challenges, drawn, credentials, device, signed, logins>>

PassNext ==
  \/ \E k \in Key, ch \in Challenge : Begin(k, ch)
  \/ \E c \in Credential, ch \in Challenge : Sign(c, ch)
  \/ \E u \in Holder, c \in Credential : Delete(u, c)
  \/ \E r \in PRequest :
        \/ \E k \in Key, a \in signed : Take(r, k, a)
        \/ Create(r) \/ Find(r) \/ UpdateCounter(r) \/ CompleteLogin(r) \/ PDrop(r)

PassSpec == PassInit /\ [][PassNext]_passVars

-----------------------------------------------------------------------------
\* What an authenticator signed once opens at most one session, however often
\* and with whatever session it is delivered, although two deliveries may
\* both compare their counter with the stored one before either updates it:
\* the challenge is removed as it is read (challenge.rs, take).
AssertionCountsOnce == \A a \in DOMAIN logins : logins[a] <= 1
=============================================================================
