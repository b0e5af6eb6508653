----------------------------- MODULE AuthProofs -----------------------------
(***************************************************************************)
(* Machine-checked facts about the parts of rustasea-auth that keep        *)
(* identities: accounts, sessions, passkeys and roles, for every number of *)
(* users, addresses, sessions and requests in flight.                      *)
(***************************************************************************)
EXTENDS SessionFlows, Accounts, Passkeys, Rbac, TLAPS

-----------------------------------------------------------------------------
(* Roles. *)

Entry(e) == e.generation \in Nat /\ e.start \in Nat

\* An entry of this start is no newer than the registry, and right when it is
\* as new.
EntriesRight ==
  \A u \in Member : store[u] # Undefined =>
    /\ Entry(store[u]) /\ store[u].start <= start
    /\ store[u].start = start => store[u].generation <= generation

\* What a lookup is about to put is what the registry holds now: mutations wait
\* for the lookups under way.
PutsRight ==
  \A l \in Lookup : lookup[l] # LIdle =>
    /\ lookup[l].user \in Member
    /\ lookup[l].entry.generation = generation /\ lookup[l].entry.start = start
    /\ lookup[l].entry.permissions = permissions_for(lookup[l].user)

RbacInv ==
  /\ generation \in Nat /\ start \in Nat
  /\ store = [u \in Member |-> store[u]]
  /\ lookup = [l \in Lookup |-> lookup[l]]
  /\ EntriesRight /\ PutsRight /\ CachedGrantsCurrent

LEMMA RbacStep ==
  ASSUME RbacInv, [RbacNext]_rbacVars
  PROVE  RbacInv'
<1> USE DEF RbacInv
<1>1. CASE Mutate
  <2>1. /\ generation' = generation + 1 /\ UNCHANGED <<store, lookup, start>>
        /\ \A l \in Lookup : lookup[l] = LIdle
    BY <1>1 DEF Mutate, Exclusive, bump, define_role, define_permission, grant_permission_to_role,
                revoke_permission_from_role, assign_role, remove_role, sync_roles
  <2>2. EntriesRight'
    BY <2>1 DEF EntriesRight, Entry
  <2>3. PutsRight'
    BY <2>1 DEF PutsRight
  <2>4. CachedGrantsCurrent'
    <3>1. \A u \in Member : ~ (accepted(u)' /\ store'[u].start = start')
      BY <2>1 DEF EntriesRight, Entry, accepted
    <3> QED
      BY <3>1 DEF CachedGrantsCurrent
  <2> QED
    BY <2>1, <2>2, <2>3, <2>4
<1>2. ASSUME NEW l \in Lookup, NEW u \in Member, LookupGet(l, u) PROVE RbacInv'
  <2> DEFINE e == [generation |-> generation, permissions |-> permissions_for(u), start |-> start]
  <2>1. /\ UNCHANGED <<roles, user_roles, generation, store, start>>
        /\ lookup' = [lookup EXCEPT ![l] = [pc |-> "put", user |-> u, entry |-> e]]
    BY <1>2 DEF LookupGet
  <2>2. \A v \in Member : permissions_for(v)' = permissions_for(v)
    BY <2>1 DEF permissions_for
  <2>3. PutsRight'
    BY <2>1, <2>2 DEF PutsRight
  <2>4. CachedGrantsCurrent'
    BY <2>1, <2>2 DEF CachedGrantsCurrent, accepted
  <2>5. EntriesRight'
    BY <2>1 DEF EntriesRight
  <2>6. lookup' = [m \in Lookup |-> lookup'[m]]
    BY <2>1
  <2> QED
    BY <2>1, <2>3, <2>4, <2>5, <2>6
<1>3. ASSUME NEW l \in Lookup, LookupPut(l) PROVE RbacInv'
  <2> DEFINE u == lookup[l].user
             e == lookup[l].entry
  <2>1. /\ UNCHANGED <<roles, user_roles, generation, start>> /\ lookup[l] # LIdle
        /\ lookup' = [lookup EXCEPT ![l] = LIdle]
        /\ store' = store \/ store' = [store EXCEPT ![u] = e]
    BY <1>3 DEF LookupPut
  <2>2. \A v \in Member : permissions_for(v)' = permissions_for(v)
    BY <2>1 DEF permissions_for
  <2>3. /\ u \in Member /\ e.generation = generation /\ e.start = start
        /\ e.permissions = permissions_for(u)
    BY <2>1 DEF PutsRight
  <2>4. \A v \in Member : store'[v] = store[v] \/ (v = u /\ store'[v] = e)
    BY <2>1, <2>3
  <2>5. PutsRight'
    BY <2>1, <2>2 DEF PutsRight
  <2>6. EntriesRight'
    BY <2>1, <2>3, <2>4 DEF EntriesRight, Entry
  <2>7. CachedGrantsCurrent'
    BY <2>1, <2>2, <2>3, <2>4 DEF CachedGrantsCurrent, accepted
  <2>8. lookup' = [m \in Lookup |-> lookup'[m]]
    BY <2>1
  <2>9. store' = [m \in Member |-> store'[m]]
    BY <2>1
  <2> QED
    BY <2>1, <2>5, <2>6, <2>7, <2>8, <2>9
<1>4. ASSUME NEW u \in Member, forget_cached_permissions(u) PROVE RbacInv'
  <2>1. /\ UNCHANGED <<roles, user_roles, generation, lookup, start>>
        /\ store' = [store EXCEPT ![u] = Undefined]
    BY <1>4 DEF forget_cached_permissions
  <2>2. \A v \in Member : permissions_for(v)' = permissions_for(v)
    BY <2>1 DEF permissions_for
  <2>3. \A v \in Member : store'[v] = store[v] \/ store'[v] = Undefined
    BY <2>1
  <2>4. store' = [m \in Member |-> store'[m]]
    BY <2>1
  <2>5. PutsRight'
    BY <2>1, <2>2 DEF PutsRight
  <2>6. EntriesRight' /\ CachedGrantsCurrent'
    BY <2>1, <2>2, <2>3 DEF EntriesRight, CachedGrantsCurrent, accepted
  <2> QED
    BY <2>1, <2>4, <2>5, <2>6
<1>5. CASE Restart
  <2>1. /\ generation' = 0 /\ start' = start + 1 /\ store' = store
        /\ lookup' = [l \in Lookup |-> LIdle]
    BY <1>5 DEF Restart
  <2>2. EntriesRight' /\ PutsRight'
    BY <2>1 DEF EntriesRight, PutsRight, Entry
  <2>3. \A u \in Member : store[u] # Undefined => store'[u].start # start'
    BY <2>1 DEF EntriesRight, Entry
  <2>4. CachedGrantsCurrent'
    BY <2>1, <2>3 DEF CachedGrantsCurrent, accepted
  <2> QED
    BY <2>1, <2>2, <2>4
<1>6. CASE UNCHANGED rbacVars
  <2>1. /\ UNCHANGED <<roles, user_roles, generation, store, lookup, start>>
    BY <1>6 DEF rbacVars
  <2>2. \A v \in Member : permissions_for(v)' = permissions_for(v)
    BY <2>1 DEF permissions_for
  <2> QED
    BY <2>1, <2>2 DEF EntriesRight, PutsRight, CachedGrantsCurrent, accepted
<1> QED
  BY <1>1, <1>2, <1>3, <1>4, <1>5, <1>6 DEF RbacNext

\* A permission set that permissions_for_cached takes from the store is what
\* the registry would compute, whatever lookups were under way when roles
\* changed, as long as the process that wrote it is still running
\* (rbac/registry.rs).
THEOREM CachedGrantsAreCurrent == RbacSpec => []CachedGrantsCurrent
<1>1. RbacInit => RbacInv
  BY DEF RbacInit, RbacInv, EntriesRight, PutsRight, CachedGrantsCurrent, accepted
<1>2. RbacInv /\ [RbacNext]_rbacVars => RbacInv'
  BY RbacStep
<1>3. RbacInv => CachedGrantsCurrent
  BY DEF RbacInv
<1> QED
  BY <1>1, <1>2, <1>3, PTL DEF RbacSpec

-----------------------------------------------------------------------------
(* Passkeys. *)

Assertion == [credential : Credential, challenge : Challenge, counter : Nat]
Ceremony == [pc : {"create", "find", "count", "complete"}, key : Key,
             expected : Challenge, answer : Assertion]

PassTypeOK ==
  /\ challenges \in [Key -> Challenge \cup {NoValue}]
  /\ drawn \subseteq Challenge
  /\ device \in [Credential -> Nat]
  /\ signed \subseteq Assertion
  /\ preq \in [PRequest -> Ceremony \cup {PIdle}]

\* Where a drawn challenge is: pending under a key, or taken by a request.
Pending(ch) == \E k \in Key : challenges[k] = ch
Busy(r) == preq[r] # PIdle

\* A challenge is in one place.
ChallengesApart ==
  /\ \A k \in Key : challenges[k] # NoValue => challenges[k] \in drawn
  /\ \A r \in PRequest : Busy(r) => preq[r].expected \in drawn /\ ~ Pending(preq[r].expected)
  /\ \A k, m \in Key : challenges[k] # NoValue /\ challenges[k] = challenges[m] => k = m
  /\ \A r, s \in PRequest : Busy(r) /\ Busy(s) /\ preq[r].expected = preq[s].expected => r = s

\* An answer that passed the checks is over the challenge its request took.
AnswersMatch ==
  \A r \in PRequest : preq[r].pc \in {"count", "complete"} =>
    preq[r].answer.challenge = preq[r].expected

\* The challenge of an assertion that opened a session is gone.
LoginsSpent ==
  \A a \in DOMAIN logins :
    /\ logins[a] = 1
    /\ a.challenge \in drawn /\ ~ Pending(a.challenge)
    /\ \A r \in PRequest : Busy(r) => preq[r].expected # a.challenge

PassInv == PassTypeOK /\ ChallengesApart /\ AnswersMatch /\ LoginsSpent

\* A request under way is a ceremony.
LEMMA BusyIsCeremony ==
  ASSUME PassTypeOK, NEW r \in PRequest
  PROVE  /\ ~ PAt(r, "idle") <=> Busy(r)
         /\ Busy(r) => preq[r] \in Ceremony
BY DEF PassTypeOK, Ceremony, PIdle, PAt, Busy

\* A step of one request that leaves the pending challenges alone and keeps
\* what it expects.
LEMMA PassMoves ==
  ASSUME PassInv, UNCHANGED <<challenges, drawn, device, signed, logins>>, NEW r \in PRequest,
         \A s \in PRequest \ {r} : preq'[s] = preq[s],
         preq' \in [PRequest -> Ceremony \cup {PIdle}],
         Busy(r)' => Busy(r) /\ preq'[r].expected = preq[r].expected,
         preq'[r].pc \in {"count", "complete"} => preq'[r].answer.challenge = preq'[r].expected
  PROVE  PassInv'
<1>1. PassTypeOK'
  BY DEF PassInv, PassTypeOK
<1>2. \A s \in PRequest : Busy(s)' => Busy(s) /\ preq'[s].expected = preq[s].expected
  BY DEF Busy
<1>3. \A ch : Pending(ch)' <=> Pending(ch)
  BY DEF Pending
<1>4. ChallengesApart'
  BY <1>2, <1>3 DEF PassInv, ChallengesApart
<1>5. AnswersMatch'
  BY DEF PassInv, AnswersMatch
<1>6. LoginsSpent'
  BY <1>2, <1>3 DEF PassInv, LoginsSpent
<1> QED
  BY <1>1, <1>4, <1>5, <1>6 DEF PassInv

LEMMA PassStep ==
  ASSUME PassInv, [PassNext]_passVars
  PROVE  PassInv'
<1>0. PassTypeOK /\ ChallengesApart /\ AnswersMatch /\ LoginsSpent
  BY DEF PassInv
<1> USE <1>0
<1>1. ASSUME NEW k \in Key, NEW ch \in Challenge, Begin(k, ch) PROVE PassInv'
  <2>1. /\ UNCHANGED <<device, signed, preq, logins>> /\ ch \notin drawn
        /\ drawn' = drawn \cup {ch} /\ challenges' = [challenges EXCEPT ![k] = ch]
    BY <1>1 DEF Begin
  <2>2. PassTypeOK'
    BY <2>1 DEF PassTypeOK
  <2>3. \A m \in Key : challenges'[m] = IF m = k THEN ch ELSE challenges[m]
    BY <2>1 DEF PassTypeOK
  <2>4. \A c \in drawn : Pending(c)' => Pending(c)
    BY <2>1, <2>3 DEF Pending
  <2>5. ChallengesApart'
    <3>1. \A m \in Key : challenges'[m] # NoValue => challenges'[m] \in drawn'
      BY <2>1, <2>3 DEF ChallengesApart
    <3>2. \A m, n \in Key : challenges'[m] # NoValue /\ challenges'[m] = challenges'[n] => m = n
      BY <2>1, <2>3 DEF ChallengesApart
    <3> QED
      BY <2>1, <2>4, <3>1, <3>2 DEF ChallengesApart, Busy
  <2>6. LoginsSpent'
    BY <2>1, <2>4 DEF LoginsSpent, Busy
  <2>7. AnswersMatch'
    BY <2>1 DEF AnswersMatch
  <2> QED
    BY <2>2, <2>5, <2>6, <2>7 DEF PassInv
<1>2. ASSUME UNCHANGED <<challenges, drawn, preq, logins>>,
             device' \in [Credential -> Nat], signed' \subseteq Assertion
      PROVE  PassInv'
  BY <1>2 DEF PassInv, PassTypeOK, ChallengesApart, AnswersMatch, LoginsSpent, Pending, Busy
<1>3. ASSUME NEW c \in Credential, NEW ch \in Challenge, Sign(c, ch) PROVE PassInv'
  <2>1. device' \in [Credential -> Nat]
    BY <1>3 DEF Sign, PassTypeOK
  <2>2. signed' \subseteq Assertion
    <3>1. [credential |-> c, challenge |-> ch, counter |-> device'[c]] \in Assertion
      BY <2>1 DEF Assertion
    <3> QED
      BY <1>3, <3>1 DEF Sign, PassTypeOK
  <2> QED
    BY <1>2, <1>3, <2>1, <2>2 DEF Sign
<1>4. ASSUME NEW u \in Holder, NEW c \in Credential, Delete(u, c) PROVE PassInv'
  BY <1>2, <1>4 DEF Delete, PassTypeOK
<1>5. ASSUME NEW r \in PRequest, NEW k \in Key, NEW a \in signed, Take(r, k, a) PROVE PassInv'
  <2> DEFINE q == [pc |-> IF k \in Holder THEN "create" ELSE "find",
                   key |-> k, expected |-> challenges[k], answer |-> a]
  <2>1. /\ UNCHANGED <<drawn, device, signed, logins>> /\ challenges[k] # NoValue
        /\ challenges' = [challenges EXCEPT ![k] = NoValue]
        /\ preq' = [preq EXCEPT ![r] = q]
    BY <1>5 DEF Take, take, PGo
  <2>2. challenges[k] \in Challenge /\ a \in Assertion
    BY <2>1 DEF PassTypeOK
  <2>3. q \in Ceremony /\ q.expected = challenges[k] /\ q.pc \notin {"count", "complete"}
    BY <2>2 DEF Ceremony
  <2> HIDE DEF q
  <2>4. /\ \A s \in PRequest : preq'[s] = IF s = r THEN q ELSE preq[s]
        /\ \A m \in Key : challenges'[m] = IF m = k THEN NoValue ELSE challenges[m]
    BY <2>1 DEF PassTypeOK
  <2>5. PassTypeOK'
    BY <2>1, <2>3 DEF PassTypeOK
  <2>6. \A c \in Challenge : Pending(c)' <=> Pending(c) /\ c # challenges[k]
    BY <2>1, <2>2, <2>4, PassAssumption DEF Pending, ChallengesApart
  <2>7. Pending(challenges[k]) /\ challenges[k] \in drawn
    BY <2>1 DEF Pending, ChallengesApart
  <2>8. \A s \in PRequest \ {r} : Busy(s)' => /\ Busy(s) /\ preq'[s].expected = preq[s].expected
                                             /\ preq[s].expected \in Challenge
                                             /\ preq[s].expected # challenges[k]
    BY <2>4, <2>7, BusyIsCeremony DEF Busy, ChallengesApart, Ceremony
  <2>9. ChallengesApart'
    <3>1. \A m \in Key : challenges'[m] # NoValue => challenges'[m] \in drawn'
      BY <2>1, <2>4 DEF ChallengesApart
    <3>2. \A m, n \in Key : challenges'[m] # NoValue /\ challenges'[m] = challenges'[n] => m = n
      BY <2>4 DEF ChallengesApart
    <3>3. \A s \in PRequest : Busy(s)' =>
            preq'[s].expected \in drawn' /\ ~ Pending(preq[s].expected)'
      BY <2>1, <2>2, <2>3, <2>4, <2>6, <2>7, <2>8 DEF ChallengesApart
    <3>4. \A s, v \in PRequest : Busy(s)' /\ Busy(v)' /\ preq'[s].expected = preq'[v].expected => s = v
      BY <2>3, <2>4, <2>8 DEF ChallengesApart
    <3> QED
      BY <3>1, <3>2, <3>3, <3>4 DEF ChallengesApart
  <2>10. AnswersMatch'
    BY <2>3, <2>4 DEF AnswersMatch
  <2>11. LoginsSpent'
    <3>1. \A b \in DOMAIN logins : b.challenge \in Challenge /\ b.challenge # challenges[k]
      BY <2>7 DEF LoginsSpent, PassTypeOK
    <3> QED
      BY <2>1, <2>3, <2>4, <2>6, <2>8, <3>1 DEF LoginsSpent
  <2> QED
    BY <2>5, <2>9, <2>10, <2>11 DEF PassInv
<1>6. ASSUME NEW r \in PRequest, Create(r) \/ PDrop(r) PROVE PassInv'
  <2>1. /\ preq' = [preq EXCEPT ![r] = PIdle]
        /\ UNCHANGED <<challenges, drawn, device, signed, logins>>
    BY <1>6 DEF Create, PDrop, PGo
  <2>2. /\ \A s \in PRequest \ {r} : preq'[s] = preq[s]
        /\ preq'[r] = PIdle /\ preq' \in [PRequest -> Ceremony \cup {PIdle}]
    BY <2>1 DEF PassTypeOK
  <2>3. PIdle.pc \notin {"count", "complete"}
    BY DEF PIdle
  <2>4. ~ Busy(r)'
    BY <2>2 DEF Busy
  <2> QED
    BY <2>1, <2>2, <2>3, <2>4, PassMoves
<1>7. ASSUME NEW r \in PRequest, Find(r) \/ UpdateCounter(r) PROVE PassInv'
  <2>1. PICK pc \in {"count", "complete"} : preq' = [preq EXCEPT ![r] = [preq[r] EXCEPT !.pc = pc]]
    BY <1>7 DEF Find, UpdateCounter, PGo
  <2>2. UNCHANGED <<challenges, drawn, device, signed, logins>> /\ Busy(r) /\ preq[r] \in Ceremony
    BY <1>7, BusyIsCeremony DEF Find, UpdateCounter, PAt
  <2>3. preq[r].answer.challenge = preq[r].expected
    BY <1>7 DEF Find, UpdateCounter, PAt, check_client_data, AnswersMatch
  <2> DEFINE q == [preq[r] EXCEPT !.pc = pc]
  <2>4. /\ q \in Ceremony /\ q.pc = pc
        /\ q.expected = preq[r].expected /\ q.answer = preq[r].answer
    BY <2>2 DEF Ceremony
  <2> HIDE DEF q
  <2>5. /\ \A s \in PRequest \ {r} : preq'[s] = preq[s]
        /\ preq'[r] = q /\ preq' \in [PRequest -> Ceremony \cup {PIdle}]
    BY <2>1, <2>4 DEF PassTypeOK, q
  <2> QED
    BY <2>2, <2>3, <2>4, <2>5, PassMoves
<1>8. ASSUME NEW r \in PRequest, CompleteLogin(r) PROVE PassInv'
  <2> DEFINE a == preq[r].answer
  <2>1. /\ UNCHANGED <<challenges, drawn, device, signed>> /\ preq[r].pc = "complete"
        /\ preq' = [preq EXCEPT ![r] = PIdle]
        /\ logins' = [b \in DOMAIN logins \cup {a} |->
                        (IF b \in DOMAIN logins THEN logins[b] ELSE 0) + (IF b = a THEN 1 ELSE 0)]
    BY <1>8 DEF CompleteLogin, PAt, PGo
  <2>2. Busy(r) /\ a.challenge = preq[r].expected
    BY <2>1, BusyIsCeremony DEF PAt, AnswersMatch
  <2>3. a \notin DOMAIN logins /\ a.challenge \in drawn /\ ~ Pending(a.challenge)
    BY <2>2 DEF LoginsSpent, ChallengesApart
  <2>4. /\ \A s \in PRequest \ {r} : preq'[s] = preq[s]
        /\ preq'[r] = PIdle /\ preq' \in [PRequest -> Ceremony \cup {PIdle}]
    BY <2>1 DEF PassTypeOK
  <2>5. PIdle.pc \notin {"count", "complete"}
    BY DEF PIdle
  <2>6. \A s \in PRequest : Busy(s)' => Busy(s) /\ s # r /\ preq'[s].expected = preq[s].expected
    BY <2>4 DEF Busy
  <2>7. \A ch : Pending(ch)' <=> Pending(ch)
    BY <2>1 DEF Pending
  <2> HIDE DEF a
  <2>8. LoginsSpent'
    <3>1. DOMAIN logins' = DOMAIN logins \cup {a} /\ \A b \in DOMAIN logins' : logins'[b] = 1
      BY <2>1, <2>3 DEF LoginsSpent
    <3>2. \A s \in PRequest : Busy(s)' => preq'[s].expected # a.challenge
      BY <2>2, <2>6 DEF ChallengesApart
    <3> QED
      BY <2>1, <2>3, <2>6, <2>7, <3>1, <3>2 DEF LoginsSpent
  <2>9. ChallengesApart'
    BY <2>1, <2>6, <2>7 DEF ChallengesApart
  <2>10. PassTypeOK' /\ AnswersMatch'
    BY <2>1, <2>4, <2>5 DEF PassTypeOK, AnswersMatch
  <2> QED
    BY <2>8, <2>9, <2>10 DEF PassInv
<1>9. CASE UNCHANGED passVars
  BY <1>2, <1>9 DEF passVars, PassTypeOK
<1> QED
  BY <1>1, <1>3, <1>4, <1>5, <1>6, <1>7, <1>8, <1>9 DEF PassNext

\* What an authenticator signed once opens at most one session: the challenge
\* store hands a challenge out once (challenge.rs take), so a second delivery
\* finds none to be checked against.
THEOREM AssertionsCountOnce == PassSpec => []AssertionCountsOnce
<1>1. PassInit => PassInv
  <2> SUFFICES ASSUME PassInit PROVE PassInv
    OBVIOUS
  <2>1. PassTypeOK
    BY DEF PassInit, PassTypeOK
  <2>2. \A r \in PRequest : ~ Busy(r) /\ preq[r].pc = "idle"
    BY DEF PassInit, Busy, PIdle
  <2>3. ChallengesApart /\ AnswersMatch /\ LoginsSpent
    BY <2>2 DEF PassInit, ChallengesApart, AnswersMatch, LoginsSpent
  <2> QED
    BY <2>1, <2>3 DEF PassInv
<1>2. PassInv /\ [PassNext]_passVars => PassInv'
  BY PassStep
<1>3. PassInv => AssertionCountsOnce
  BY DEF PassInv, LoginsSpent, AssertionCountsOnce
<1> QED
  BY <1>1, <1>2, <1>3, PTL DEF PassSpec

-----------------------------------------------------------------------------
(* Accounts. *)

UserRecord == [email : Email, verified : BOOLEAN]

\* The handlers under way, by what they carry.
AddressReq == [pc : {"create", "token"}, email : Email]
LoginReq == [pc : {"autologin"}, email : Email, user : User]
ProfileReq == [pc : {"profile", "unverify"}, user : User, email : Email, principal : Email]
VerifyReq == [pc : {"verify"}, user : User]
TokenReq == [pc : {"mail", "account", "burn", "newpassword"}, email : Email, token : Token]
AccState == {AccIdle} \cup AddressReq \cup LoginReq \cup ProfileReq \cup VerifyReq \cup TokenReq

AccTypeOK ==
  /\ users \in [User -> UserRecord \cup {NoOne}]
  /\ copy \in [User -> Email \cup {NoOne}]
  /\ row \in [Email -> Token \cup {NoOne}]
  /\ mailed \subseteq Email \X Token
  /\ accReq \in [AccRequest -> AccState]

\* Users are never deleted: whoever a session or a handler is about exists.
UsersExist ==
  /\ \A u \in User : copy[u] # NoOne => users[u] # NoOne
  /\ \A r \in AccRequest : accReq[r].pc \in {"profile", "unverify", "verify"} =>
       users[accReq[r].user] # NoOne

\* A handler that carries a token.
HasToken(r) == accReq[r].pc \in {"mail", "account", "burn", "newpassword"}

\* Every token was drawn for one address.
TokensApart ==
  /\ \A e, f \in Email : row[e] # NoOne /\ row[e] = row[f] => e = f
  /\ \A l \in mailed : \A e \in Email : row[e] = l[2] => e = l[1]
  /\ \A r \in AccRequest : HasToken(r) =>
       \A e \in Email : row[e] = accReq[r].token => e = accReq[r].email

\* A handler that burned its row has a token that matches no row.
BurnedDead ==
  \A r \in AccRequest : accReq[r].pc = "newpassword" =>
    \A e \in Email : row[e] # accReq[r].token

AccInv == AccTypeOK /\ UsersExist /\ OneOwnerPerEmail /\ TokensApart /\ BurnedDead /\ SpentTokenDead

\* What a handler carries follows from where it is.
LEMMA AccShapes ==
  ASSUME NEW q \in AccState
  PROVE  /\ q.pc \in {"create", "token"} => q \in AddressReq
         /\ q.pc = "autologin" => q \in LoginReq
         /\ q.pc \in {"profile", "unverify"} => q \in ProfileReq
         /\ q.pc = "verify" => q \in VerifyReq
         /\ q.pc \in {"mail", "account", "burn", "newpassword"} => q \in TokenReq
BY DEF AccState, AccIdle, AddressReq, LoginReq, ProfileReq, VerifyReq, TokenReq

\* find_by_email finds the owner of an address.
LEMMA OwnerFound ==
  ASSUME OneOwnerPerEmail, NEW u \in User, users[u] # NoOne
  PROVE  owner(users[u].email) = u
BY DEF owner, OneOwnerPerEmail

\* An address that is free for a user belongs to no other.
LEMMA FreeIsFree ==
  ASSUME OneOwnerPerEmail, NEW u \in User, NEW e, free_for(e, u),
         NEW v \in User, users[v] # NoOne, users[v].email = e
  PROVE  v = u
BY OwnerFound, AccAssumption DEF free_for

\* A handler's token is in use.
LEMMA TokenInUse ==
  ASSUME AccTypeOK
  PROVE  /\ \A r \in AccRequest : HasToken(r) => accReq[r].token \in tokens_in_use
         /\ \A e \in Email : row[e] \in tokens_in_use
         /\ \A l \in mailed : l[2] \in tokens_in_use
         /\ spent \subseteq tokens_in_use
<1>1. ASSUME NEW r \in AccRequest, HasToken(r) PROVE "token" \in DOMAIN accReq[r]
  <2>1. accReq[r] \in TokenReq
    BY <1>1, AccShapes DEF AccTypeOK, HasToken
  <2> QED
    BY <2>1 DEF TokenReq
<1> QED
  BY <1>1 DEF tokens_in_use

\* Steps that change no row and no token.
LEMMA AccQuiet ==
  ASSUME AccInv, AccTypeOK', UsersExist', OneOwnerPerEmail', UNCHANGED <<row, mailed, spent>>,
         \A r \in AccRequest : HasToken(r)' =>
           /\ HasToken(r) /\ accReq'[r].token = accReq[r].token /\ accReq'[r].email = accReq[r].email
           /\ accReq'[r].pc = "newpassword" => accReq[r].pc = "newpassword"
  PROVE  AccInv'
<1>1. TokensApart'
  BY DEF AccInv, TokensApart
<1>2. BurnedDead'
  BY DEF AccInv, BurnedDead, HasToken
<1>3. SpentTokenDead'
  BY DEF AccInv, SpentTokenDead
<1> QED
  BY <1>1, <1>2, <1>3 DEF AccInv

\* A handler that goes on, with or without a token, while no user changes.
LEMMA AccGoes ==
  ASSUME AccInv, NEW r \in AccRequest, NEW q \in AccState, accReq' = [accReq EXCEPT ![r] = q],
         UNCHANGED users, copy' \in [User -> Email \cup {NoOne}],
         \A u \in User : copy'[u] # NoOne => users[u] # NoOne,
         q.pc \in {"profile", "unverify", "verify"} => users[q.user] # NoOne
  PROVE  /\ accReq' \in [AccRequest -> AccState] /\ accReq'[r] = q
         /\ \A s \in AccRequest \ {r} : accReq'[s] = accReq[s]
         /\ UsersExist' /\ OneOwnerPerEmail'
<1>1. /\ accReq' \in [AccRequest -> AccState] /\ accReq'[r] = q
      /\ \A s \in AccRequest \ {r} : accReq'[s] = accReq[s]
  BY DEF AccInv, AccTypeOK
<1>2. OneOwnerPerEmail'
  BY DEF AccInv, OneOwnerPerEmail
<1>3. UsersExist'
  BY <1>1 DEF AccInv, UsersExist
<1> QED
  BY <1>1, <1>2, <1>3

\* A user is written with an address that no other user has.
LEMMA UserWritten ==
  ASSUME AccInv, NEW u \in User, NEW rec \in UserRecord, users' = [users EXCEPT ![u] = rec],
         \A v \in User : users[v] # NoOne /\ users[v].email = rec.email => v = u
  PROVE  /\ users' \in [User -> UserRecord \cup {NoOne}] /\ OneOwnerPerEmail'
         /\ \A v \in User : users[v] # NoOne => users'[v] # NoOne
<1>1. \A v \in User : users'[v] = IF v = u THEN rec ELSE users[v]
  BY DEF AccInv, AccTypeOK
<1>2. rec # NoOne
  BY AccAssumption DEF UserRecord
<1> QED
  BY <1>1, <1>2 DEF AccInv, AccTypeOK, OneOwnerPerEmail

\* Writing the flag, or an address that is free, of a user that exists.
LEMMA FieldWritten ==
  ASSUME AccInv, NEW u \in User, users[u] # NoOne, NEW e \in Email, NEW b \in BOOLEAN,
         \/ users' = [users EXCEPT ![u].email = e] /\ free_for(e, u)
         \/ users' = [users EXCEPT ![u].verified = b]
  PROVE  /\ users' \in [User -> UserRecord \cup {NoOne}] /\ OneOwnerPerEmail'
         /\ \A v \in User : users[v] # NoOne => users'[v] # NoOne
<1>1. users[u] \in UserRecord
  BY DEF AccInv, AccTypeOK
<1>2. CASE users' = [users EXCEPT ![u].email = e] /\ free_for(e, u)
  <2> DEFINE rec == [users[u] EXCEPT !.email = e]
  <2>1. rec \in UserRecord /\ rec.email = e /\ users' = [users EXCEPT ![u] = rec]
    BY <1>1, <1>2 DEF UserRecord
  <2>2. \A v \in User : users[v] # NoOne /\ users[v].email = e => v = u
    BY <1>2, FreeIsFree DEF AccInv
  <2> HIDE DEF rec
  <2> QED
    BY <2>1, <2>2, UserWritten
<1>3. CASE users' = [users EXCEPT ![u].verified = b]
  <2> DEFINE rec == [users[u] EXCEPT !.verified = b]
  <2>1. rec \in UserRecord /\ rec.email = users[u].email /\ users' = [users EXCEPT ![u] = rec]
    BY <1>1, <1>3 DEF UserRecord
  <2>2. \A v \in User : users[v] # NoOne /\ users[v].email = rec.email => v = u
    BY <2>1 DEF AccInv, OneOwnerPerEmail
  <2> HIDE DEF rec
  <2> QED
    BY <2>1, <2>2, UserWritten
<1> QED
  BY <1>2, <1>3

\* A handler that wrote a user and goes on without a token.
LEMMA AccWrites ==
  ASSUME AccInv, NEW r \in AccRequest, NEW q \in AccState, accReq' = [accReq EXCEPT ![r] = q],
         UNCHANGED <<copy, row, mailed, spent>>, q.pc \notin {"mail", "account", "burn", "newpassword"},
         users' \in [User -> UserRecord \cup {NoOne}], OneOwnerPerEmail',
         \A v \in User : users[v] # NoOne => users'[v] # NoOne,
         q.pc \in {"profile", "unverify", "verify"} => q.user \in User /\ users[q.user] # NoOne
  PROVE  AccInv'
<1>1. /\ accReq' \in [AccRequest -> AccState] /\ accReq'[r] = q
      /\ \A s \in AccRequest \ {r} : accReq'[s] = accReq[s]
  BY DEF AccInv, AccTypeOK
<1>2. AccTypeOK'
  BY <1>1 DEF AccInv, AccTypeOK
<1>3. UsersExist'
  <2>1. \A s \in AccRequest : accReq[s].pc \in {"profile", "unverify", "verify"} => accReq[s].user \in User
    BY AccShapes DEF AccInv, AccTypeOK, ProfileReq, VerifyReq
  <2> QED
    BY <1>1, <2>1 DEF AccInv, UsersExist
<1>4. \A s \in AccRequest : HasToken(s)' => s # r /\ HasToken(s) /\ accReq'[s] = accReq[s]
  BY <1>1 DEF HasToken
<1> QED
  BY <1>2, <1>3, <1>4, AccQuiet

LEMMA AccStep ==
  ASSUME AccInv, [AccNext]_accVars
  PROVE  AccInv'
<1>0. AccTypeOK /\ UsersExist /\ OneOwnerPerEmail
  BY DEF AccInv
<1> USE <1>0
<1>idle. AccIdle \in AccState /\ AccIdle.pc = "idle"
  BY DEF AccState, AccIdle
<1>1. ASSUME UNCHANGED <<users, row, mailed, spent, accReq>>,
             copy' \in [User -> Email \cup {NoOne}],
             \A u \in User : copy'[u] # NoOne => users[u] # NoOne
      PROVE  AccInv'
  <2>1. AccTypeOK' /\ UsersExist' /\ OneOwnerPerEmail'
    BY <1>1 DEF AccTypeOK, UsersExist, OneOwnerPerEmail
  <2> QED
    BY <1>1, <2>1, AccQuiet DEF HasToken
<1>2. ASSUME NEW u \in User, SignIn(u) PROVE AccInv'
  <2>1. users[u] \in UserRecord
    BY <1>2 DEF SignIn, AccTypeOK
  <2>2. users[u].email \in Email
    BY <2>1 DEF UserRecord
  <2> QED
    BY <1>1, <1>2, <2>2 DEF SignIn, AccTypeOK, UsersExist
<1>3. ASSUME NEW t \in Token, TokenExpires(t) PROVE AccInv'
  BY <1>1, <1>3 DEF TokenExpires, AccTypeOK, UsersExist
<1>4. ASSUME NEW r \in AccRequest, NEW q \in AccState, accReq' = [accReq EXCEPT ![r] = q],
             UNCHANGED <<users, copy, row, mailed, spent>>,
             q.pc \notin {"mail", "account", "burn", "newpassword"},
             q.pc \in {"profile", "unverify", "verify"} => q.user \in User /\ users[q.user] # NoOne
      PROVE  AccInv'
  <2>1. users' \in [User -> UserRecord \cup {NoOne}] /\ OneOwnerPerEmail'
    BY <1>4 DEF AccTypeOK, OneOwnerPerEmail
  <2>2. \A v \in User : users[v] # NoOne => users'[v] # NoOne
    BY <1>4
  <2>3. UNCHANGED <<copy, row, mailed, spent>>
    BY <1>4
  <2> QED
    BY <1>4, <2>1, <2>2, <2>3, AccWrites
<1>5. ASSUME NEW r \in AccRequest, NEW e \in Email, RegisterProbe(r, e) \/ ForgotFind(r, e)
      PROVE  AccInv'
  <2>1. PICK pc \in {"create", "token"} : accReq' = [accReq EXCEPT ![r] = [pc |-> pc, email |-> e]]
    BY <1>5 DEF RegisterProbe, ForgotFind, AccGo
  <2>2. [pc |-> pc, email |-> e] \in AccState
    BY DEF AccState, AddressReq
  <2>3. UNCHANGED <<users, copy, row, mailed, spent>>
    BY <1>5 DEF RegisterProbe, ForgotFind
  <2> QED
    BY <1>4, <2>1, <2>2, <2>3
<1>6. ASSUME NEW r \in AccRequest, NEW u \in User, NEW e \in Email,
             ProfileProbe(r, u, e) \/ VerifyFind(r, u, e)
      PROVE  AccInv'
  <2>1. UNCHANGED <<users, copy, row, mailed, spent>> /\ users[u] # NoOne
    BY <1>6 DEF ProfileProbe, VerifyFind, UsersExist
  <2>2. CASE ProfileProbe(r, u, e)
    <3>1. copy[u] \in Email
      BY <2>2 DEF ProfileProbe, AccTypeOK
    <3>2. [pc |-> "profile", user |-> u, email |-> e, principal |-> copy[u]] \in AccState
      BY <3>1 DEF AccState, ProfileReq
    <3> QED
      BY <1>4, <2>1, <2>2, <3>2 DEF ProfileProbe, AccGo
  <2>3. CASE VerifyFind(r, u, e)
    <3>1. [pc |-> "verify", user |-> u] \in AccState
      BY DEF AccState, VerifyReq
    <3> QED
      BY <1>4, <2>1, <2>3, <3>1 DEF VerifyFind, AccGo
  <2> QED
    BY <1>6, <2>2, <2>3
<1>7. ASSUME NEW r \in AccRequest, AccDrop(r) PROVE AccInv'
  BY <1>idle, <1>4, <1>7 DEF AccDrop, AccDone, AccGo
<1>8. ASSUME NEW r \in AccRequest, NEW u \in User, RegisterCreate(r, u) PROVE AccInv'
  <2> DEFINE e == accReq[r].email
             rec == [email |-> e, verified |-> FALSE]
             q == [pc |-> "autologin", email |-> e, user |-> u]
  <2>1. e \in Email /\ UNCHANGED <<copy, row, mailed, spent>>
    BY <1>8, AccShapes DEF RegisterCreate, AccAt, AccTypeOK, AddressReq
  <2>2. CASE free_for(e, u)
    <3>1. users' = [users EXCEPT ![u] = rec] /\ accReq' = [accReq EXCEPT ![r] = q]
      BY <1>8, <2>2 DEF RegisterCreate, AccGo
    <3>2. rec \in UserRecord /\ rec.email = e /\ q \in AccState /\ q.pc = "autologin"
      BY <2>1 DEF UserRecord, AccState, LoginReq
    <3>3. \A v \in User : users[v] # NoOne /\ users[v].email = e => v = u
      BY <2>2, FreeIsFree
    <3> HIDE DEF rec, q, e
    <3>4. /\ users' \in [User -> UserRecord \cup {NoOne}] /\ OneOwnerPerEmail'
          /\ \A v \in User : users[v] # NoOne => users'[v] # NoOne
      BY <3>1, <3>2, <3>3, UserWritten
    <3> QED
      BY <2>1, <3>1, <3>2, <3>4, AccWrites
  <2>3. CASE ~ free_for(e, u)
    BY <1>idle, <1>4, <1>8, <2>1, <2>3 DEF RegisterCreate, AccDone, AccGo
  <2> QED
    BY <2>2, <2>3
<1>9. ASSUME NEW r \in AccRequest, ProfileWrite(r) PROVE AccInv'
  <2> DEFINE q == accReq[r]
  <2>1. q \in ProfileReq /\ users[q.user] # NoOne /\ UNCHANGED <<copy, row, mailed, spent>>
    BY <1>9, AccShapes DEF ProfileWrite, AccAt, AccTypeOK, UsersExist
  <2>2. q.user \in User /\ q.email \in Email
    BY <2>1 DEF ProfileReq
  <2>3. CASE free_for(q.email, q.user)
    <3>1. users' = [users EXCEPT ![q.user].email = q.email]
      BY <1>9, <2>3 DEF ProfileWrite
    <3>2. PICK p \in {AccIdle, [q EXCEPT !.pc = "unverify"]} : accReq' = [accReq EXCEPT ![r] = p]
      BY <1>9, <2>3 DEF ProfileWrite, AccGo, AccDone
    <3>3. /\ p \in AccState /\ p.pc \in {"idle", "unverify"}
          /\ p.pc = "unverify" => p.user = q.user
      BY <1>idle, <2>1 DEF ProfileReq, AccState
    <3>4. /\ users' \in [User -> UserRecord \cup {NoOne}] /\ OneOwnerPerEmail'
          /\ \A v \in User : users[v] # NoOne => users'[v] # NoOne
      BY <2>1, <2>2, <2>3, <3>1, FieldWritten
    <3> HIDE DEF q
    <3> QED
      BY <2>1, <2>2, <3>2, <3>3, <3>4, AccWrites
  <2>4. CASE ~ free_for(q.email, q.user)
    BY <1>idle, <1>4, <1>9, <2>1, <2>4 DEF ProfileWrite, AccDone, AccGo
  <2> QED
    BY <2>3, <2>4
<1>10. ASSUME NEW r \in AccRequest, ProfileUnverify(r) \/ VerifySet(r) PROVE AccInv'
  <2> DEFINE u == accReq[r].user
  <2>1. u \in User /\ users[u] # NoOne
    BY <1>10, AccShapes DEF ProfileUnverify, VerifySet, AccAt, AccTypeOK, UsersExist, ProfileReq, VerifyReq
  <2>2. UNCHANGED <<copy, row, mailed, spent>> /\ accReq' = [accReq EXCEPT ![r] = AccIdle]
    BY <1>10 DEF ProfileUnverify, VerifySet, AccDone, AccGo
  <2>3. CASE UNCHANGED users
    BY <1>idle, <1>4, <2>2, <2>3
  <2>4. CASE ~ UNCHANGED users
    <3>1. PICK b \in BOOLEAN : users' = [users EXCEPT ![u].verified = b]
      BY <1>10, <2>4 DEF ProfileUnverify, VerifySet
    <3>2. Email # {}
      <4>1. users[u] \in UserRecord
        BY <2>1 DEF AccTypeOK
      <4> QED
        BY <4>1 DEF UserRecord
    <3>3. /\ users' \in [User -> UserRecord \cup {NoOne}] /\ OneOwnerPerEmail'
          /\ \A v \in User : users[v] # NoOne => users'[v] # NoOne
      BY <2>1, <3>1, <3>2, FieldWritten
    <3> QED
      BY <1>idle, <2>2, <3>3, AccWrites
  <2> QED
    BY <2>3, <2>4
<1>11. ASSUME NEW r \in AccRequest, RegisterLogin(r) PROVE AccInv'
  <2> DEFINE u == accReq[r].user
             e == accReq[r].email
  <2>1. u \in User /\ e \in Email
    BY <1>11, AccShapes DEF RegisterLogin, AccAt, AccTypeOK, LoginReq
  <2>2. /\ UNCHANGED <<users, row, mailed, spent>> /\ accReq' = [accReq EXCEPT ![r] = AccIdle]
        /\ copy' = IF owner(e) = u THEN [copy EXCEPT ![u] = users[u].email] ELSE copy
    BY <1>11 DEF RegisterLogin, AccDone, AccGo
  <2>3. owner(e) = u => users[u] # NoOne /\ users[u].email = e
    BY <2>1, AccAssumption DEF owner
  <2> HIDE DEF u, e
  <2>4. /\ copy' \in [User -> Email \cup {NoOne}]
        /\ \A v \in User : copy'[v] # NoOne => users[v] # NoOne
    BY <2>1, <2>2, <2>3 DEF AccTypeOK, UsersExist
  <2>5. /\ accReq' \in [AccRequest -> AccState] /\ accReq'[r] = AccIdle
        /\ \A s \in AccRequest \ {r} : accReq'[s] = accReq[s]
        /\ UsersExist' /\ OneOwnerPerEmail'
    BY <1>idle, <2>2, <2>4, AccGoes
  <2>6. AccTypeOK'
    BY <2>2, <2>4, <2>5 DEF AccTypeOK
  <2>7. \A s \in AccRequest : HasToken(s)' => s # r /\ HasToken(s) /\ accReq'[s] = accReq[s]
    BY <1>idle, <2>5 DEF HasToken
  <2> QED
    BY <2>2, <2>5, <2>6, <2>7, AccQuiet
<1>12. ASSUME NEW r \in AccRequest, NEW q \in TokenReq, accReq' = [accReq EXCEPT ![r] = q],
              UNCHANGED <<users, copy, mailed, spent>>, row' \in [Email -> Token \cup {NoOne}],
              TokensApart', BurnedDead', SpentTokenDead'
       PROVE  AccInv'
  <2>1. q \in AccState /\ q.pc \in {"mail", "account", "burn", "newpassword"}
    BY DEF AccState, TokenReq
  <2>2. /\ accReq' \in [AccRequest -> AccState] /\ UsersExist' /\ OneOwnerPerEmail'
    BY <1>12, <2>1, AccGoes DEF AccTypeOK, UsersExist
  <2> QED
    BY <1>12, <2>2 DEF AccInv, AccTypeOK
<1>13. ASSUME NEW r \in AccRequest, NEW t \in Token, ForgotCreate(r, t) PROVE AccInv'
  <2> DEFINE e == accReq[r].email
             q == [pc |-> "mail", email |-> e, token |-> t]
  <2>1. e \in Email
    BY <1>13, AccShapes DEF ForgotCreate, AccAt, AccTypeOK, AddressReq
  <2>2. /\ UNCHANGED <<users, copy, mailed, spent>> /\ accReq' = [accReq EXCEPT ![r] = q]
        /\ row' = [row EXCEPT ![e] = t] /\ t \notin tokens_in_use
    BY <1>13 DEF ForgotCreate, AccGo
  <2>3. q \in TokenReq /\ q.pc = "mail" /\ q.email = e /\ q.token = t
    BY <2>1 DEF TokenReq
  <2> HIDE DEF e, q
  <2>4. /\ row' \in [Email -> Token \cup {NoOne}]
        /\ \A f \in Email : row'[f] = IF f = e THEN t ELSE row[f]
        /\ \A s \in AccRequest : accReq'[s] = IF s = r THEN q ELSE accReq[s]
    BY <2>1, <2>2 DEF AccTypeOK
  <2>5. TokensApart'
    BY <2>2, <2>3, <2>4, TokenInUse DEF AccInv, TokensApart, HasToken
  <2>6. BurnedDead'
    BY <2>2, <2>3, <2>4, TokenInUse DEF AccInv, BurnedDead, HasToken
  <2>7. SpentTokenDead'
    BY <2>2, <2>4, TokenInUse DEF AccInv, SpentTokenDead
  <2> QED
    BY <1>12, <2>2, <2>3, <2>4, <2>5, <2>6, <2>7
<1>14. ASSUME NEW r \in AccRequest, ForgotMail(r) PROVE AccInv'
  <2> DEFINE q == accReq[r]
  <2>1. q \in TokenReq /\ HasToken(r)
    BY <1>14, AccShapes DEF ForgotMail, AccAt, AccTypeOK, HasToken
  <2>2. q.email \in Email /\ q.token \in Token
    BY <2>1 DEF TokenReq
  <2>3. /\ UNCHANGED <<users, copy, row, spent>> /\ accReq' = [accReq EXCEPT ![r] = AccIdle]
        /\ mailed' = mailed \cup {<<q.email, q.token>>}
    BY <1>14 DEF ForgotMail, AccDone, AccGo
  <2>4. /\ accReq' \in [AccRequest -> AccState] /\ accReq'[r] = AccIdle
        /\ \A s \in AccRequest \ {r} : accReq'[s] = accReq[s]
        /\ UsersExist' /\ OneOwnerPerEmail'
    BY <1>idle, <2>3, AccGoes DEF AccTypeOK, UsersExist
  <2>5. AccTypeOK'
    BY <2>2, <2>3, <2>4 DEF AccTypeOK
  <2>6. \A s \in AccRequest : HasToken(s)' => s # r /\ HasToken(s) /\ accReq'[s] = accReq[s]
    BY <1>idle, <2>4 DEF HasToken
  <2>7. \A f \in Email : row[f] = q.token => f = q.email
    BY <2>1 DEF AccInv, TokensApart
  <2>8. TokensApart'
    BY <2>3, <2>6, <2>7 DEF AccInv, TokensApart
  <2>9. BurnedDead' /\ SpentTokenDead'
    BY <1>idle, <2>3, <2>4 DEF AccInv, BurnedDead, SpentTokenDead
  <2> QED
    BY <2>4, <2>5, <2>8, <2>9 DEF AccInv
<1>15. ASSUME NEW r \in AccRequest, NEW l \in mailed, ResetMatch(r, l[1], l[2]) PROVE AccInv'
  <2> DEFINE e == l[1]
             t == l[2]
             q == [pc |-> "account", email |-> e, token |-> t]
  <2>1. e \in Email /\ t \in Token
    BY DEF AccTypeOK
  <2>2. UNCHANGED <<users, copy, row, mailed, spent>> /\ accReq' = [accReq EXCEPT ![r] = q]
    BY <1>15 DEF ResetMatch, AccGo
  <2>3. q \in TokenReq /\ q.pc = "account" /\ q.email = e /\ q.token = t
    BY <2>1 DEF TokenReq
  <2>4. \A f \in Email : row[f] = t => f = e
    BY DEF AccInv, TokensApart
  <2> HIDE DEF e, t, q
  <2>5. \A s \in AccRequest : accReq'[s] = IF s = r THEN q ELSE accReq[s]
    BY <2>2 DEF AccTypeOK
  <2>6. TokensApart'
    BY <2>2, <2>3, <2>4, <2>5 DEF AccInv, TokensApart, HasToken
  <2>7. BurnedDead' /\ SpentTokenDead'
    BY <2>2, <2>3, <2>5 DEF AccInv, BurnedDead, SpentTokenDead
  <2>8. row' \in [Email -> Token \cup {NoOne}]
    BY <2>2 DEF AccTypeOK
  <2> QED
    BY <1>12, <2>2, <2>3, <2>6, <2>7, <2>8
<1>16. ASSUME NEW r \in AccRequest, ResetFind(r) \/ ResetBurn(r) PROVE AccInv'
  <2> DEFINE p == accReq[r]
  <2>1. p \in TokenReq /\ HasToken(r)
    BY <1>16, AccShapes DEF ResetFind, ResetBurn, AccAt, AccTypeOK, HasToken
  <2>2. PICK q : /\ accReq' = [accReq EXCEPT ![r] = q]
                 /\ \/ q = [p EXCEPT !.pc = "burn"] /\ UNCHANGED row
                    \/ q = [p EXCEPT !.pc = "newpassword"] /\ row' = [row EXCEPT ![p.email] = NoOne]
    BY <1>16 DEF ResetFind, ResetBurn, burn, AccGo
  <2>3. /\ q \in TokenReq /\ q.email = p.email /\ q.token = p.token
        /\ p.email \in Email /\ p.token \in Token
        /\ \/ q.pc = "burn" /\ UNCHANGED row
           \/ q.pc = "newpassword" /\ row' = [row EXCEPT ![p.email] = NoOne]
    BY <2>1, <2>2 DEF TokenReq
  <2>4. UNCHANGED <<users, copy, mailed, spent>>
    BY <1>16 DEF ResetFind, ResetBurn
  <2>5. \A f \in Email : row[f] = p.token => f = p.email
    BY <2>1 DEF AccInv, TokensApart
  <2>6. /\ row' \in [Email -> Token \cup {NoOne}]
        /\ \A f \in Email : row'[f] = row[f] \/ (row'[f] = NoOne /\ f = p.email)
        /\ q.pc = "newpassword" => row'[p.email] = NoOne
        /\ \A s \in AccRequest : accReq'[s] = IF s = r THEN q ELSE accReq[s]
    BY <2>2, <2>3 DEF AccTypeOK
  <2>7. NoOne \notin Token
    BY AccAssumption
  <2> HIDE DEF p
  <2>8. TokensApart'
    <3>1. \A m \in mailed : m[2] \in Token
      BY DEF AccTypeOK
    <3>2. \A s \in AccRequest : HasToken(s) => accReq[s].token \in Token
      BY AccShapes DEF AccTypeOK, HasToken, TokenReq
    <3>3. \A f, g \in Email : row'[f] # NoOne /\ row'[f] = row'[g] => f = g
      BY <2>6 DEF AccInv, TokensApart
    <3>4. \A m \in mailed' : \A f \in Email : row'[f] = m[2] => f = m[1]
      BY <2>4, <2>6, <2>7, <3>1 DEF AccInv, TokensApart
    <3>5. \A s \in AccRequest : HasToken(s)' =>
            \A f \in Email : row'[f] = accReq'[s].token => f = accReq'[s].email
      BY <2>3, <2>5, <2>6, <2>7, <3>2 DEF AccInv, TokensApart, HasToken
    <3> QED
      BY <3>3, <3>4, <3>5 DEF TokensApart
  <2>9. BurnedDead'
    <3>1. \A s \in AccRequest : accReq[s].pc = "newpassword" => accReq[s].token \in Token
      BY AccShapes DEF AccTypeOK, TokenReq
    <3>2. q.pc = "newpassword" => \A f \in Email : row'[f] # q.token
      BY <2>3, <2>5, <2>6, <2>7
    <3> QED
      BY <2>6, <2>7, <3>1, <3>2 DEF AccInv, BurnedDead
  <2>10. SpentTokenDead'
    BY <2>4, <2>6 DEF AccInv, SpentTokenDead
  <2> QED
    BY <1>12, <2>2, <2>3, <2>4, <2>6, <2>8, <2>9, <2>10
<1>17. ASSUME NEW r \in AccRequest, ResetWrite(r) PROVE AccInv'
  <2>1. /\ UNCHANGED <<users, copy, row, mailed>> /\ accReq' = [accReq EXCEPT ![r] = AccIdle]
        /\ spent' = spent \cup {accReq[r].token} /\ accReq[r].pc = "newpassword"
    BY <1>17 DEF ResetWrite, AccDone, AccGo, AccAt
  <2>2. /\ accReq' \in [AccRequest -> AccState] /\ accReq'[r] = AccIdle
        /\ \A s \in AccRequest \ {r} : accReq'[s] = accReq[s]
        /\ UsersExist' /\ OneOwnerPerEmail'
    BY <1>idle, <2>1, AccGoes DEF AccTypeOK, UsersExist
  <2>3. AccTypeOK'
    BY <2>1, <2>2 DEF AccTypeOK
  <2>4. \A s \in AccRequest : HasToken(s)' => s # r /\ HasToken(s) /\ accReq'[s] = accReq[s]
    BY <1>idle, <2>2 DEF HasToken
  <2>5. TokensApart' /\ BurnedDead'
    BY <1>idle, <2>1, <2>2, <2>4 DEF AccInv, TokensApart, BurnedDead
  <2>6. SpentTokenDead'
    BY <2>1 DEF AccInv, SpentTokenDead, BurnedDead
  <2> QED
    BY <2>2, <2>3, <2>5, <2>6 DEF AccInv
<1>18. CASE UNCHANGED accVars
  BY <1>1, <1>18 DEF accVars, AccTypeOK, UsersExist
<1> QED
  BY <1>2, <1>3, <1>5, <1>6, <1>7, <1>8, <1>9, <1>10, <1>11, <1>13, <1>14, <1>15, <1>16, <1>17, <1>18
  DEF AccNext

\* The account invariant holds in every reachable state.
LEMMA AccountsHold == AccSpec => []AccInv
<1>1. AccInit => AccInv
  BY DEF AccInit, AccInv, AccTypeOK, AccState, UsersExist, OneOwnerPerEmail, TokensApart, HasToken,
         BurnedDead, SpentTokenDead, AccIdle
<1>2. AccInv /\ [AccNext]_accVars => AccInv'
  BY AccStep
<1> QED
  BY <1>1, <1>2, PTL DEF AccSpec

\* Two users never share an address, although registration and the profile
\* form probe for it long before they write: the provider checks again as it
\* writes (register_submit, profile_update).
THEOREM EmailsHaveOneOwner == AccSpec => []OneOwnerPerEmail
<1>1. AccInv => OneOwnerPerEmail
  BY DEF AccInv
<1> QED
  BY <1>1, AccountsHold, PTL

\* A reset token that changed a password matches no row again, whatever other
\* requests hold the same link and wherever one is dropped
\* (reset_password_submit).
THEOREM SpentTokensAreDead == AccSpec => []SpentTokenDead
<1>1. AccInv => SpentTokenDead
  BY DEF AccInv
<1> QED
  BY <1>1, AccountsHold, PTL

-----------------------------------------------------------------------------
(* Sessions. *)

SessionRecord == [user : Account, pending : BOOLEAN, confirmed : BOOLEAN,
                  valid : BOOLEAN, cleared : BOOLEAN, missed : BOOLEAN]
FactorRecord == [confirmed : BOOLEAN, codes : SUBSET Code]

\* The handlers under way, by what they carry.
LoginState == [pc : {"intercept", "provider"}, user : Account, given : Secret,
               hash : Secret \cup {Nothing}, missed : BOOLEAN,
               sawOpen : BOOLEAN, sawValid : BOOLEAN]
LoadedState == [pc : {"challenge", "cycle", "stamp"}, id : Sid, record : SessionRecord]
RecoveryState == [pc : {"recovery"}, id : Sid, record : SessionRecord, put : FactorRecord]
SaveState == [pc : {"save"}, record : SessionRecord]
ConfirmState == [pc : {"confirm"}, id : Sid]
PasswordState == [pc : {"password"}, owner : Account, new : Secret]
ManageState == [pc : {"enable", "disable", "tfconfirm", "regenerate"}, owner : Account]
FactorState == [pc : {"tfput"}, owner : Account, put : FactorRecord]
SessState ==
  {SIdle} \cup LoginState \cup LoadedState \cup RecoveryState \cup SaveState
  \cup ConfirmState \cup PasswordState \cup ManageState \cup FactorState

SessTypeOK ==
  /\ password \in [Account -> Secret]
  /\ two_factor \in [Account -> FactorRecord \cup {Nothing}]
  /\ sessions \in [Sid -> SessionRecord \cup {Nothing}]
  /\ sreq \in [SRequest -> SessState]

IsLogin(q) == q.pc \in {"intercept", "provider"}
IsLoaded(q) == q.pc \in {"challenge", "cycle", "stamp", "recovery", "save"}

\* What SessionsEarned says of a record.
Earned(rec) == rec.valid /\ (rec.cleared \/ rec.missed)

\* What a handler has established when it is at its point: a loaded record was
\* earned; a login that went past the interception saw the account open, or its
\* lookup missed, and one that may pass it gave a password it saw to be valid.
Established(q) ==
  /\ IsLoaded(q) => Earned(q.record)
  /\ q.pc = "provider" => q.sawOpen \/ q.missed
  /\ q.pc = "intercept" /\ q.given = q.hash => q.sawValid

\* The history of a login has taken the present state in.
UpToDate(q) ==
  IsLogin(q) => /\ ~ is_confirmed(two_factor[q.user]) => q.sawOpen
                /\ password[q.user] = q.given => q.sawValid

SessInv ==
  /\ SessTypeOK /\ SessionsEarned
  /\ \A r \in SRequest : Established(sreq[r]) /\ UpToDate(sreq[r])

LEMMA SessShapes ==
  ASSUME NEW q \in SessState
  PROVE  /\ IsLogin(q) => q \in LoginState
         /\ q.pc \in {"challenge", "cycle", "stamp"} => q \in LoadedState
         /\ q.pc = "recovery" => q \in RecoveryState
         /\ q.pc = "save" => q \in SaveState
         /\ q.pc = "confirm" => q \in ConfirmState
         /\ q.pc = "password" => q \in PasswordState
         /\ q.pc \in {"enable", "disable", "tfconfirm", "regenerate"} => q \in ManageState
         /\ q.pc = "tfput" => q \in FactorState
         /\ "sawOpen" \in DOMAIN q <=> IsLogin(q)
<1>1. CASE q \in LoginState
  BY <1>1 DEF LoginState, IsLogin
<1>2. CASE q = SIdle
  BY <1>2 DEF SIdle, IsLogin
<1>3. CASE q \in LoadedState \cup RecoveryState \cup SaveState
  BY <1>3 DEF LoadedState, RecoveryState, SaveState, IsLogin
<1>4. CASE q \in ConfirmState \cup PasswordState \cup ManageState \cup FactorState
  BY <1>4 DEF ConfirmState, PasswordState, ManageState, FactorState, IsLogin
<1> QED
  BY <1>1, <1>2, <1>3, <1>4 DEF SessState

\* A handler goes on without a change of a password or a two-factor record.
LEMMA SessGoes ==
  ASSUME SessInv, UNCHANGED <<password, two_factor>>,
         sessions' \in [Sid -> SessionRecord \cup {Nothing}], SessionsEarned',
         NEW r \in SRequest, NEW q \in SessState, sreq' = [sreq EXCEPT ![r] = q],
         Established(q), UpToDate(q)
  PROVE  SessInv'
<1>1. sreq' \in [SRequest -> SessState] /\ \A s \in SRequest : sreq'[s] = IF s = r THEN q ELSE sreq[s]
  BY DEF SessInv, SessTypeOK
<1>2. SessTypeOK'
  BY <1>1 DEF SessInv, SessTypeOK
<1>3. ASSUME NEW s \in SRequest PROVE Established(sreq[s])' /\ UpToDate(sreq[s])'
  <2>1. Established(sreq'[s]) /\ UpToDate(sreq'[s])
    BY <1>1 DEF SessInv
  <2> QED
    BY <2>1 DEF Established, UpToDate, is_confirmed
<1> QED
  BY <1>2, <1>3 DEF SessInv

\* What watching adds to a login.
LEMMA WatchedOne ==
  ASSUME NEW reqs \in [SRequest -> SessState], NEW pw, NEW tf, NEW s \in SRequest
  PROVE  LET q == reqs[s]
             v == Watching(reqs, pw, tf)[s]
         IN  /\ v \in SessState /\ v.pc = q.pc
             /\ ~ IsLogin(q) => v = q
             /\ IsLogin(q) => /\ v.user = q.user /\ v.given = q.given /\ v.hash = q.hash
                              /\ v.missed = q.missed
                              /\ v.sawOpen = (q.sawOpen \/ ~ is_confirmed(tf[q.user]))
                              /\ v.sawValid = (q.sawValid \/ pw[q.user] = q.given)
<1> DEFINE q == reqs[s]
           v == Watching(reqs, pw, tf)[s]
<1>1. q \in SessState
  OBVIOUS
<1>2. CASE ~ IsLogin(q)
  <2>1. "sawOpen" \notin DOMAIN q
    BY <1>1, <1>2, SessShapes
  <2> QED
    BY <1>1, <1>2, <2>1 DEF Watching
<1>3. CASE IsLogin(q)
  <2>1. "sawOpen" \in DOMAIN q /\ q \in LoginState
    BY <1>1, <1>3, SessShapes
  <2>2. v = [q EXCEPT !.sawOpen  = @ \/ ~ (tf[q.user] # Nothing /\ tf[q.user].confirmed),
                      !.sawValid = @ \/ pw[q.user] = q.given]
    BY <2>1 DEF Watching
  <2> HIDE DEF v, q
  <2>3. /\ v \in LoginState /\ v.pc = q.pc /\ v.user = q.user /\ v.given = q.given /\ v.hash = q.hash
        /\ v.missed = q.missed
        /\ v.sawOpen = (q.sawOpen \/ ~ (tf[q.user] # Nothing /\ tf[q.user].confirmed))
        /\ v.sawValid = (q.sawValid \/ pw[q.user] = q.given)
    BY <2>1, <2>2 DEF LoginState
  <2>4. v \in SessState
    BY <2>3 DEF SessState
  <2> QED
    BY <1>3, <2>3, <2>4 DEF is_confirmed, v, q
<1> QED
  BY <1>2, <1>3

\* A handler goes on from a change of a password or of a two-factor record, or
\* as a login that begins: every login takes the state in.
LEMMA SessWatches ==
  ASSUME SessInv, UNCHANGED sessions, password' \in [Account -> Secret],
         two_factor' \in [Account -> FactorRecord \cup {Nothing}],
         NEW r \in SRequest, NEW q \in SessState,
         sreq' = Watching([sreq EXCEPT ![r] = q], password', two_factor'),
         IsLoaded(q) => Earned(q.record), q.pc = "provider" => q.missed,
         q.pc = "intercept" /\ q.given = q.hash => password'[q.user] = q.given
  PROVE  SessInv'
<1> DEFINE reqs == [sreq EXCEPT ![r] = q]
<1>1. reqs \in [SRequest -> SessState] /\ \A s \in SRequest : reqs[s] = IF s = r THEN q ELSE sreq[s]
  BY DEF SessInv, SessTypeOK
<1> HIDE DEF reqs
<1>2. sreq' = Watching(reqs, password', two_factor')
  BY DEF reqs
<1>3. ASSUME NEW s \in SRequest
      PROVE  LET p == reqs[s]
                 v == sreq'[s]
             IN  /\ v \in SessState /\ v.pc = p.pc
                 /\ ~ IsLogin(p) => v = p
                 /\ IsLogin(p) => /\ v.user = p.user /\ v.given = p.given /\ v.hash = p.hash
                                  /\ v.missed = p.missed
                                  /\ v.sawOpen = (p.sawOpen \/ ~ is_confirmed(two_factor'[p.user]))
                                  /\ v.sawValid = (p.sawValid \/ password'[p.user] = p.given)
  BY <1>1, <1>2, WatchedOne
<1>4. SessTypeOK'
  <2>1. sreq' = [s \in SRequest |-> sreq'[s]]
    BY <1>2 DEF Watching
  <2>2. sreq' \in [SRequest -> SessState]
    BY <1>3, <2>1
  <2> QED
    BY <2>2 DEF SessInv, SessTypeOK
<1>5. ASSUME NEW s \in SRequest PROVE Established(sreq[s])' /\ UpToDate(sreq[s])'
  <2> DEFINE p == reqs[s]
             v == sreq'[s]
  <2>1. /\ IsLoaded(p) => Earned(p.record)
        /\ p.pc = "provider" => p.sawOpen \/ p.missed
        /\ p.pc = "intercept" /\ p.given = p.hash => p.sawValid \/ password'[p.user] = p.given
    <3>1. CASE s = r
      BY <1>1, <3>1
    <3>2. CASE s # r
      <4>1. p = sreq[s] /\ Established(sreq[s])
        BY <1>1, <3>2 DEF SessInv
      <4> QED
        BY <4>1 DEF Established
    <3> QED
      BY <3>1, <3>2
  <2> HIDE DEF p, v
  <2>2. /\ v.pc = p.pc
        /\ ~ IsLogin(p) => v = p
        /\ IsLogin(p) => /\ v.user = p.user /\ v.given = p.given /\ v.hash = p.hash
                         /\ v.missed = p.missed
                         /\ v.sawOpen = (p.sawOpen \/ ~ is_confirmed(two_factor'[p.user]))
                         /\ v.sawValid = (p.sawValid \/ password'[p.user] = p.given)
    BY <1>3 DEF p, v
  <2>3. CASE ~ IsLogin(p)
    <3>1. Established(v) /\ ~ IsLogin(v)
      BY <2>1, <2>2, <2>3 DEF Established, IsLogin
    <3> QED
      BY <3>1 DEF Established, UpToDate, v
  <2>4. CASE IsLogin(p)
    <3>1. IsLogin(v) /\ ~ IsLoaded(v)
      BY <2>2, <2>4 DEF IsLogin, IsLoaded
    <3>2. v.pc = "provider" => v.sawOpen \/ v.missed
      BY <2>1, <2>2, <2>4
    <3>3. v.pc = "intercept" /\ v.given = v.hash => v.sawValid
      BY <2>1, <2>2, <2>4
    <3>4. /\ ~ is_confirmed(two_factor'[v.user]) => v.sawOpen
          /\ password'[v.user] = v.given => v.sawValid
      BY <2>2, <2>4
    <3>5. Established(v)
      BY <3>1, <3>2, <3>3 DEF Established
    <3> QED
      BY <3>4, <3>5 DEF Established, UpToDate, is_confirmed, v
  <2> QED
    BY <2>3, <2>4
<1>6. SessionsEarned'
  BY DEF SessInv, SessionsEarned
<1> QED
  BY <1>4, <1>5, <1>6 DEF SessInv

\* A session is written with an earned record, or deleted.
LEMMA SessionWritten ==
  ASSUME SessInv, NEW id \in Sid, NEW rec \in SessionRecord \cup {Nothing},
         rec = Nothing \/ Earned(rec), sessions' = [sessions EXCEPT ![id] = rec]
  PROVE  sessions' \in [Sid -> SessionRecord \cup {Nothing}] /\ SessionsEarned'
<1>1. \A s \in Sid : sessions'[s] = IF s = id THEN rec ELSE sessions[s]
  BY DEF SessInv, SessTypeOK
<1> QED
  BY <1>1 DEF SessInv, SessTypeOK, SessionsEarned, Earned

\* What SessGoes asks of a handler that carries no history.
LEMMA NoHistory ==
  ASSUME NEW q, ~ IsLogin(q), ~ IsLoaded(q) \/ Earned(q.record)
  PROVE  Established(q) /\ UpToDate(q)
BY DEF Established, UpToDate, IsLogin

LEMMA SessStep ==
  ASSUME SessInv, [SessNext]_sessVars
  PROVE  SessInv'
<1>0. SessTypeOK /\ SessionsEarned
  BY DEF SessInv
<1> USE <1>0
<1>idle. SIdle \in SessState /\ Established(SIdle) /\ UpToDate(SIdle)
         /\ ~ IsLoaded(SIdle) /\ SIdle.pc = "idle"
  BY DEF SIdle, SessState, Established, UpToDate, IsLogin, IsLoaded
<1>same. ASSUME UNCHANGED sessions
         PROVE  sessions' \in [Sid -> SessionRecord \cup {Nothing}] /\ SessionsEarned'
  BY <1>same DEF SessTypeOK, SessionsEarned
<1>live. \A s \in Sid : sessions[s] # Nothing => sessions[s] \in SessionRecord /\ Earned(sessions[s])
  BY DEF SessTypeOK, SessionsEarned, Earned
<1>at. \A r \in SRequest : sreq[r] \in SessState /\ Established(sreq[r]) /\ UpToDate(sreq[r])
  BY DEF SessInv, SessTypeOK
<1>1. ASSUME UNCHANGED <<password, two_factor, sreq>>,
             sessions' \in [Sid -> SessionRecord \cup {Nothing}], SessionsEarned'
      PROVE  SessInv'
  <2>1. \A r \in SRequest : Established(sreq[r])' /\ UpToDate(sreq[r])'
    BY <1>at, <1>1 DEF Established, UpToDate, is_confirmed, IsLoaded, IsLogin
  <2> QED
    BY <1>1, <2>1 DEF SessInv, SessTypeOK
<1>2. ASSUME NEW s \in Sid, Logout(s) \/ Lapse(s) PROVE SessInv'
  <2>1. sessions[s] \in SessionRecord /\ Earned(sessions[s])
    BY <1>live, <1>2 DEF Logout, Lapse
  <2>2. PICK rec \in SessionRecord \cup {Nothing} :
          (rec = Nothing \/ Earned(rec)) /\ sessions' = [sessions EXCEPT ![s] = rec]
    <3> DEFINE rec == [sessions[s] EXCEPT !.confirmed = FALSE]
    <3>1. rec \in SessionRecord /\ Earned(rec)
      BY <2>1 DEF SessionRecord, Earned
    <3>2. \/ sessions' = [sessions EXCEPT ![s] = Nothing]
          \/ sessions' = [sessions EXCEPT ![s] = rec]
      BY <1>2 DEF Logout, Lapse
    <3> HIDE DEF rec
    <3> QED
      BY <3>1, <3>2
  <2> QED
    BY <1>1, <1>2, <2>2, SessionWritten DEF Logout, Lapse
<1>3. ASSUME NEW r \in SRequest, NEW u \in Account, NEW p \in Secret,
             LoginFind(r, u, p) \/ LoginMiss(r, u, p)
      PROVE  SessInv'
  <2>1. PICK pc \in {"intercept", "provider"}, hash \in Secret \cup {Nothing}, missed \in BOOLEAN :
          /\ LoginBegin(r, u, p, pc, hash, missed)
          /\ pc = "intercept" => hash = password[u]
          /\ pc = "provider" => missed
    BY <1>3 DEF LoginFind, LoginMiss, SessTypeOK
  <2> DEFINE q == [pc |-> pc, user |-> u, given |-> p, hash |-> hash, missed |-> missed,
                   sawOpen |-> FALSE, sawValid |-> FALSE]
  <2>2. /\ UNCHANGED <<password, two_factor, sessions>>
        /\ sreq' = Watching([sreq EXCEPT ![r] = q], password, two_factor)
    BY <2>1 DEF LoginBegin
  <2>3. /\ q \in SessState /\ ~ IsLoaded(q)
        /\ q.pc = "provider" => q.missed
        /\ q.pc = "intercept" /\ q.given = q.hash => password[q.user] = q.given
    BY <2>1 DEF LoginState, SessState, IsLoaded
  <2> HIDE DEF q
  <2>4. /\ password' \in [Account -> Secret] /\ two_factor' \in [Account -> FactorRecord \cup {Nothing}]
        /\ sreq' = Watching([sreq EXCEPT ![r] = q], password', two_factor')
        /\ q.pc = "intercept" /\ q.given = q.hash => password'[q.user] = q.given
    BY <2>2, <2>3 DEF SessTypeOK
  <2> QED
    BY <2>2, <2>3, <2>4, SessWatches
<1>4. ASSUME NEW r \in SRequest, NEW id \in Sid, LoginIntercept(r, id) PROVE SessInv'
  <2> DEFINE q == sreq[r]
  <2>1. q \in LoginState /\ q.pc = "intercept" /\ UNCHANGED <<password, two_factor>>
    BY <1>at, <1>4, SessShapes DEF LoginIntercept, SAt, IsLogin
  <2>2. CASE ~ is_confirmed(two_factor[q.user])
    <3> DEFINE p == [q EXCEPT !.pc = "provider", !.hash = Nothing]
    <3>1. UNCHANGED sessions /\ sreq' = [sreq EXCEPT ![r] = p]
      BY <1>4, <2>2 DEF LoginIntercept, SGo
    <3>2. /\ p \in LoginState /\ p.pc = "provider" /\ p.user = q.user /\ p.given = q.given
          /\ p.sawOpen = q.sawOpen /\ p.sawValid = q.sawValid
      BY <2>1 DEF LoginState
    <3>3. q.sawOpen
      BY <1>at, <2>1, <2>2 DEF UpToDate, IsLogin
    <3>4. UpToDate(q) /\ IsLogin(q)
      BY <1>at, <2>1 DEF IsLogin
    <3> HIDE DEF p, q
    <3>5. Established(p) /\ UpToDate(p) /\ p \in SessState
      BY <3>2, <3>3, <3>4 DEF Established, UpToDate, IsLoaded, SessState
    <3> QED
      BY <1>same, <2>1, <3>1, <3>5, SessGoes
  <2>3. CASE is_confirmed(two_factor[q.user])
    <3> DEFINE rec == Record(q, TRUE)
    <3>1. q.given = q.hash /\ sreq' = [sreq EXCEPT ![r] = SIdle] /\ sessions' = [sessions EXCEPT ![id] = rec]
      BY <1>4, <2>3 DEF LoginIntercept, SGo, Open
    <3>2. q.sawValid
      BY <1>at, <2>1, <3>1 DEF Established
    <3>3. rec \in SessionRecord /\ Earned(rec)
      BY <2>1, <3>2 DEF Record, SessionRecord, LoginState, Earned
    <3> HIDE DEF rec
    <3>4. sessions' \in [Sid -> SessionRecord \cup {Nothing}] /\ SessionsEarned'
      BY <3>1, <3>3, SessionWritten
    <3> QED
      BY <1>idle, <2>1, <3>1, <3>4, SessGoes
  <2> QED
    BY <2>2, <2>3
<1>5. ASSUME NEW r \in SRequest, NEW id \in Sid, LoginProvider(r, id) PROVE SessInv'
  <2> DEFINE q == sreq[r]
             rec == Record(q, FALSE)
  <2>1. q \in LoginState /\ q.pc = "provider" /\ UNCHANGED <<password, two_factor>>
    BY <1>at, <1>5, SessShapes DEF LoginProvider, SAt, IsLogin
  <2>2. /\ q.given = password[q.user] /\ sreq' = [sreq EXCEPT ![r] = SIdle]
        /\ sessions' = [sessions EXCEPT ![id] = rec]
    BY <1>5 DEF LoginProvider, SGo, Open
  <2>3. (q.sawOpen \/ q.missed) /\ q.sawValid
    BY <1>at, <2>1, <2>2 DEF Established, UpToDate, IsLogin
  <2>4. rec \in SessionRecord /\ Earned(rec)
    BY <2>1, <2>3 DEF Record, SessionRecord, LoginState, Earned
  <2> HIDE DEF rec
  <2>5. sessions' \in [Sid -> SessionRecord \cup {Nothing}] /\ SessionsEarned'
    BY <2>2, <2>4, SessionWritten
  <2> QED
    BY <1>idle, <2>1, <2>2, <2>5, SessGoes
<1>6. ASSUME NEW r \in SRequest, NEW id \in Sid, CycleSave(r, id) PROVE SessInv'
  <2>1. sreq[r] \in SaveState /\ Earned(sreq[r].record)
    BY <1>at, <1>6, SessShapes DEF CycleSave, SAt, Established, IsLoaded
  <2>2. sreq[r].record \in SessionRecord
    BY <2>1 DEF SaveState
  <2>3. /\ UNCHANGED <<password, two_factor>> /\ sreq' = [sreq EXCEPT ![r] = SIdle]
        /\ sessions' = [sessions EXCEPT ![id] = sreq[r].record]
    BY <1>6 DEF CycleSave, SGo, Open
  <2>4. sessions' \in [Sid -> SessionRecord \cup {Nothing}] /\ SessionsEarned'
    BY <2>1, <2>2, <2>3, SessionWritten
  <2> QED
    BY <1>idle, <2>3, <2>4, SessGoes
<1>7. ASSUME NEW r \in SRequest, NEW q \in SessState, sreq' = [sreq EXCEPT ![r] = q],
             UNCHANGED <<password, two_factor, sessions>>, ~ IsLogin(q),
             ~ IsLoaded(q) \/ Earned(q.record)
      PROVE  SessInv'
  <2>1. UNCHANGED <<password, two_factor>> /\ Established(q) /\ UpToDate(q)
    BY <1>7, NoHistory
  <2> QED
    BY <1>same, <1>7, <2>1, SessGoes
<1>8. ASSUME NEW r \in SRequest, NEW s \in Sid, ChallengeOpen(r, s) \/ RefreshLoad(r, s) PROVE SessInv'
  <2>1. sessions[s] \in SessionRecord /\ Earned(sessions[s])
    BY <1>live, <1>8 DEF ChallengeOpen, RefreshLoad, authenticated
  <2>2. PICK pc \in {"challenge", "cycle"} :
          sreq' = [sreq EXCEPT ![r] = [pc |-> pc, id |-> s, record |-> sessions[s]]]
    BY <1>8 DEF ChallengeOpen, RefreshLoad, SGo
  <2> DEFINE q == [pc |-> pc, id |-> s, record |-> sessions[s]]
  <2>3. q \in LoadedState /\ q.record = sessions[s] /\ q.pc \in {"challenge", "cycle"}
    BY <2>1 DEF LoadedState
  <2>4. UNCHANGED <<password, two_factor, sessions>> /\ sreq' = [sreq EXCEPT ![r] = q]
    BY <1>8, <2>2 DEF ChallengeOpen, RefreshLoad
  <2> HIDE DEF q
  <2> QED
    BY <1>7, <2>1, <2>3, <2>4 DEF SessState, IsLogin
<1>9. ASSUME NEW r \in SRequest, NEW s \in Sid, ConfirmVerify(r, s) PROVE SessInv'
  <2>1. [pc |-> "confirm", id |-> s] \in ConfirmState
    BY DEF ConfirmState
  <2> QED
    BY <1>7, <1>9, <2>1 DEF ConfirmVerify, SGo, SessState, IsLogin, IsLoaded
<1>10. ASSUME NEW r \in SRequest, NEW s \in Sid, NEW p \in Secret, PasswordVerify(r, s, p) PROVE SessInv'
  <2>1. sessions[s].user \in Account
    BY <1>live, <1>10 DEF PasswordVerify, authenticated, SessionRecord
  <2>2. [pc |-> "password", owner |-> sessions[s].user, new |-> p] \in PasswordState
    BY <2>1 DEF PasswordState
  <2> QED
    BY <1>7, <1>10, <2>2 DEF PasswordVerify, SGo, SessState, IsLogin, IsLoaded
<1>11. ASSUME NEW r \in SRequest, NEW s \in Sid, NEW op \in {"enable", "disable", "tfconfirm", "regenerate"},
              Manage(r, s, op)
       PROVE  SessInv'
  <2>1. sessions[s].user \in Account
    BY <1>live, <1>11 DEF Manage, gate, authenticated, SessionRecord
  <2>2. [pc |-> op, owner |-> sessions[s].user] \in ManageState
    BY <2>1 DEF ManageState
  <2> QED
    BY <1>7, <1>11, <2>2 DEF Manage, SGo, SessState, IsLogin, IsLoaded
<1>12. ASSUME NEW q, q \in LoadedState \cup RecoveryState, Earned(q.record)
       PROVE  LET p == Promoted(q) IN p \in LoadedState /\ Earned(p.record) /\ p.pc = "cycle"
  <2> DEFINE rec == [q.record EXCEPT !.pending = FALSE]
  <2>1. q.record \in SessionRecord /\ q.id \in Sid
    BY <1>12 DEF LoadedState, RecoveryState
  <2>2. rec \in SessionRecord /\ Earned(rec)
    BY <1>12, <2>1 DEF SessionRecord, Earned
  <2> HIDE DEF rec
  <2>3. Promoted(q) = [pc |-> "cycle", id |-> q.id, record |-> rec]
    BY DEF Promoted, rec
  <2> QED
    BY <2>1, <2>2, <2>3 DEF LoadedState
<1>13. ASSUME NEW r \in SRequest, ChallengeCode(r) PROVE SessInv'
  <2>1. sreq[r] \in LoadedState /\ Earned(sreq[r].record)
    BY <1>at, <1>13, SessShapes DEF ChallengeCode, SAt, Established, IsLoaded
  <2>2. Promoted(sreq[r]) \in LoadedState /\ Earned(Promoted(sreq[r]).record) /\ Promoted(sreq[r]).pc = "cycle"
    BY <1>12, <2>1
  <2> QED
    BY <1>7, <1>13, <2>2 DEF ChallengeCode, SGo, SessState, IsLogin
<1>14. ASSUME NEW r \in SRequest, NEW c \in Code, RecoveryRead(r, c) PROVE SessInv'
  <2> DEFINE rec == two_factor[sreq[r].record.user]
             put == [rec EXCEPT !.codes = @ \ {c}]
             q == [pc |-> "recovery", id |-> sreq[r].id, record |-> sreq[r].record, put |-> put]
  <2>1. sreq[r] \in LoadedState /\ Earned(sreq[r].record)
    BY <1>at, <1>14, SessShapes DEF RecoveryRead, SAt, Established, IsLoaded
  <2>2. sreq[r].record \in SessionRecord /\ sreq[r].id \in Sid /\ sreq[r].record.user \in Account
    BY <2>1 DEF LoadedState, SessionRecord
  <2>3. rec \in FactorRecord
    BY <1>14, <2>2 DEF RecoveryRead, SessTypeOK
  <2>4. put \in FactorRecord
    BY <2>3 DEF FactorRecord
  <2>5. UNCHANGED <<password, two_factor, sessions>> /\ sreq' = [sreq EXCEPT ![r] = q]
    BY <1>14 DEF RecoveryRead, SGo
  <2> HIDE DEF put, rec
  <2>6. q \in RecoveryState /\ q.record = sreq[r].record /\ q.pc = "recovery"
    BY <2>2, <2>4 DEF RecoveryState
  <2> HIDE DEF q
  <2> QED
    BY <1>7, <2>1, <2>5, <2>6 DEF SessState, IsLogin
<1>15. ASSUME NEW r \in SRequest, NEW q \in SessState, NEW u \in Account, NEW put \in FactorRecord \cup {Nothing},
              UNCHANGED <<password, sessions>>, two_factor' = [two_factor EXCEPT ![u] = put],
              sreq' = Watching([sreq EXCEPT ![r] = q], password, two_factor'),
              ~ IsLogin(q), ~ IsLoaded(q) \/ Earned(q.record)
       PROVE  SessInv'
  <2>1. /\ password' \in [Account -> Secret] /\ two_factor' \in [Account -> FactorRecord \cup {Nothing}]
        /\ sreq' = Watching([sreq EXCEPT ![r] = q], password', two_factor')
        /\ q.pc \notin {"intercept", "provider"}
    BY <1>15 DEF SessTypeOK, IsLogin
  <2> QED
    BY <1>15, <2>1, SessWatches
<1>16. ASSUME NEW r \in SRequest, RecoveryPut(r) PROVE SessInv'
  <2>1. sreq[r] \in RecoveryState /\ Earned(sreq[r].record)
    BY <1>at, <1>16, SessShapes DEF RecoveryPut, SAt, Established, IsLoaded
  <2>2. sreq[r].put \in FactorRecord /\ sreq[r].record.user \in Account
    BY <2>1 DEF RecoveryState, SessionRecord
  <2>3. Promoted(sreq[r]) \in LoadedState /\ Earned(Promoted(sreq[r]).record) /\ Promoted(sreq[r]).pc = "cycle"
    BY <1>12, <2>1
  <2> QED
    BY <1>15, <1>16, <2>2, <2>3 DEF RecoveryPut, SessState, IsLogin
<1>17. ASSUME NEW r \in SRequest, CycleDelete(r) PROVE SessInv'
  <2> DEFINE q == [pc |-> "save", record |-> sreq[r].record]
  <2>1. sreq[r] \in LoadedState /\ Earned(sreq[r].record)
    BY <1>at, <1>17, SessShapes DEF CycleDelete, SAt, Established, IsLoaded
  <2>2. q \in SaveState /\ sreq[r].id \in Sid
    BY <2>1 DEF SaveState, LoadedState
  <2>3. /\ UNCHANGED <<password, two_factor>> /\ sreq' = [sreq EXCEPT ![r] = q]
        /\ sessions' = [sessions EXCEPT ![sreq[r].id] = Nothing]
    BY <1>17 DEF CycleDelete, SGo
  <2>4. sessions' \in [Sid -> SessionRecord \cup {Nothing}] /\ SessionsEarned'
    BY <2>2, <2>3, SessionWritten
  <2>5. Established(q) /\ UpToDate(q) /\ q \in SessState
    BY <2>1, <2>2, NoHistory DEF SessState, IsLogin
  <2> HIDE DEF q
  <2> QED
    BY <2>3, <2>4, <2>5, SessGoes
<1>18. ASSUME NEW r \in SRequest, ConfirmOpen(r) PROVE SessInv'
  <2> DEFINE s == sreq[r].id
             q == [pc |-> "stamp", id |-> s, record |-> sessions[s]]
  <2>1. sreq[r] \in ConfirmState
    BY <1>at, <1>18, SessShapes DEF ConfirmOpen, SAt
  <2>2. s \in Sid
    BY <2>1 DEF ConfirmState
  <2>3. sessions[s] \in SessionRecord /\ Earned(sessions[s])
    BY <1>live, <1>18, <2>2 DEF ConfirmOpen, authenticated
  <2>4. q \in LoadedState /\ q.record = sessions[s] /\ q.pc = "stamp"
    BY <2>2, <2>3 DEF LoadedState
  <2>5. UNCHANGED <<password, two_factor, sessions>> /\ sreq' = [sreq EXCEPT ![r] = q]
    BY <1>18 DEF ConfirmOpen, SGo
  <2> HIDE DEF q
  <2> QED
    BY <1>7, <2>3, <2>4, <2>5 DEF SessState, IsLogin
<1>19. ASSUME NEW r \in SRequest, ConfirmSave(r) PROVE SessInv'
  <2> DEFINE rec == [sreq[r].record EXCEPT !.confirmed = TRUE]
  <2>1. sreq[r] \in LoadedState /\ Earned(sreq[r].record)
    BY <1>at, <1>19, SessShapes DEF ConfirmSave, SAt, Established, IsLoaded
  <2>2. sreq[r].record \in SessionRecord /\ sreq[r].id \in Sid
    BY <2>1 DEF LoadedState
  <2>3. rec \in SessionRecord /\ Earned(rec)
    BY <2>1, <2>2 DEF SessionRecord, Earned
  <2>4. /\ UNCHANGED <<password, two_factor>> /\ sreq' = [sreq EXCEPT ![r] = SIdle]
        /\ sessions' = [sessions EXCEPT ![sreq[r].id] = rec]
    BY <1>19 DEF ConfirmSave, SGo
  <2> HIDE DEF rec
  <2>5. sessions' \in [Sid -> SessionRecord \cup {Nothing}] /\ SessionsEarned'
    BY <2>2, <2>3, <2>4, SessionWritten
  <2> QED
    BY <1>idle, <2>4, <2>5, SessGoes
<1>20. ASSUME NEW r \in SRequest, PasswordWrite(r) PROVE SessInv'
  <2>1. sreq[r] \in PasswordState
    BY <1>at, <1>20, SessShapes DEF PasswordWrite, SAt
  <2>2. sreq[r].owner \in Account /\ sreq[r].new \in Secret
    BY <2>1 DEF PasswordState
  <2>3. /\ UNCHANGED <<two_factor, sessions>>
        /\ password' = [password EXCEPT ![sreq[r].owner] = sreq[r].new]
        /\ sreq' = Watching([sreq EXCEPT ![r] = SIdle], password', two_factor)
    BY <1>20 DEF PasswordWrite
  <2>4. /\ password' \in [Account -> Secret] /\ two_factor' \in [Account -> FactorRecord \cup {Nothing}]
        /\ sreq' = Watching([sreq EXCEPT ![r] = SIdle], password', two_factor')
    BY <2>2, <2>3 DEF SessTypeOK
  <2> QED
    BY <1>idle, <2>3, <2>4, SessWatches
<1>21. ASSUME NEW r \in SRequest, TfReplace(r) \/ TfPut(r) PROVE SessInv'
  <2> DEFINE u == sreq[r].owner
  <2>1. u \in Account /\ (SAt(r, "tfput") => sreq[r].put \in FactorRecord)
    BY <1>at, <1>21, SessShapes DEF TfReplace, TfPut, SAt, ManageState, FactorState
  <2>2. PICK put \in FactorRecord \cup {Nothing} : two_factor' = [two_factor EXCEPT ![u] = put]
    <3>1. [confirmed |-> FALSE, codes |-> Code] \in FactorRecord
      BY DEF FactorRecord
    <3> QED
      BY <1>21, <2>1, <3>1 DEF TfReplace, TfPut
  <2>3. /\ UNCHANGED <<password, sessions>>
        /\ sreq' = Watching([sreq EXCEPT ![r] = SIdle], password, two_factor')
    BY <1>21 DEF TfReplace, TfPut
  <2> QED
    BY <1>idle, <1>15, <2>1, <2>2, <2>3 DEF IsLogin
<1>22. ASSUME NEW r \in SRequest, TfRead(r) PROVE SessInv'
  <2> DEFINE rec == two_factor[sreq[r].owner]
             put == IF SAt(r, "tfconfirm") THEN [rec EXCEPT !.confirmed = TRUE]
                                           ELSE [rec EXCEPT !.codes = Code]
             q == [pc |-> "tfput", owner |-> sreq[r].owner, put |-> put]
  <2>1. sreq[r] \in ManageState
    BY <1>at, <1>22, SessShapes DEF TfRead, SAt
  <2>2. sreq[r].owner \in Account
    BY <2>1 DEF ManageState
  <2>3. rec \in FactorRecord
    BY <1>22, <2>2 DEF TfRead, SessTypeOK
  <2>4. put \in FactorRecord
    BY <2>3 DEF FactorRecord
  <2>5. UNCHANGED <<password, two_factor, sessions>> /\ sreq' = [sreq EXCEPT ![r] = q]
    BY <1>22 DEF TfRead, SGo
  <2> HIDE DEF put, rec
  <2>6. q \in FactorState /\ q.pc = "tfput"
    BY <2>2, <2>4 DEF FactorState
  <2> HIDE DEF q
  <2> QED
    BY <1>7, <2>5, <2>6 DEF SessState, IsLogin, IsLoaded
<1>23. ASSUME NEW r \in SRequest, SDrop(r) PROVE SessInv'
  BY <1>idle, <1>7, <1>23 DEF SDrop, SGo, IsLogin
<1>24. CASE UNCHANGED sessVars
  BY <1>1, <1>same, <1>24 DEF sessVars
<1> QED
  BY <1>2, <1>3, <1>4, <1>5, <1>6, <1>8, <1>9, <1>10, <1>11, <1>13, <1>14, <1>16, <1>17, <1>18,
     <1>19, <1>20, <1>21, <1>22, <1>23, <1>24 DEF SessNext

\* Whoever holds a session gave, while the login was answered, the password the
\* account then had, and skipped the challenge only if the account was then not
\* enrolled or the login's first lookup had missed, although intercept_login and login_with_provider read the user,
\* the two-factor record and the user again with other requests in between.
THEOREM SessionsAreEarned == SessSpec => []SessionsEarned
<1>1. SessInit => SessInv
  <2> SUFFICES ASSUME SessInit PROVE SessInv
    OBVIOUS
  <2>1. SessTypeOK /\ SessionsEarned
    BY DEF SessInit, SessTypeOK, SessionsEarned, SessState
  <2>2. \A r \in SRequest : sreq[r] = SIdle /\ SIdle.pc = "idle"
    BY DEF SessInit, SIdle
  <2>3. \A r \in SRequest : Established(sreq[r]) /\ UpToDate(sreq[r])
    BY <2>2 DEF Established, UpToDate, IsLoaded, IsLogin
  <2> QED
    BY <2>1, <2>3 DEF SessInv
<1>2. SessInv /\ [SessNext]_sessVars => SessInv'
  BY SessStep
<1>3. SessInv => SessionsEarned
  BY DEF SessInv
<1> QED
  BY <1>1, <1>2, <1>3, PTL DEF SessSpec

=============================================================================
