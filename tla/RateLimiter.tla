---------------------------- MODULE RateLimiter ----------------------------
(***************************************************************************)
(* The throttle of rustasea-auth: the named limiters of the registry       *)
(* (throttle/registry.rs, defaults.rs) over the fixed-window limiter that  *)
(* keeps its buckets in memory (throttle/limiter.rs).                      *)
(*                                                                         *)
(* A request reads the clock before it takes the mutex on the buckets, so  *)
(* hits are applied with instants that may be out of order; everything     *)
(* else of a hit happens under the mutex.  next_seq and hit_counter are    *)
(* both advanced once per hit under that mutex and are one variable here.  *)
(* A request whose limiter is unknown, or that lacks the identity its      *)
(* limiter needs, is refused without touching a bucket, and is no step.    *)
(***************************************************************************)
EXTENDS Integers, Sequences, FiniteSets, FiniteSetsExt

CONSTANTS
  Thread,        \* request tasks
  LimitOf,       \* limiter name -> [max_attempts, decay_secs]
  Inputs,        \* LimiterInput: [username, ip, session_id, credential_id]
  Fold,          \* a username as spelled -> normalize_username of it
  MAX_BUCKETS,
  PRUNE_EVERY,
  MaxStale,      \* seconds that may pass between a request's reading of the
                 \* clock and its taking of the mutex
  MaxClock,      \* BOUND: last second
  MaxHits,       \* BOUND: hits served
  Absent         \* an identity a request does not carry

ASSUME RateAssumption ==
  /\ MaxStale \in Nat
  /\ MAX_BUCKETS \in Nat \ {0} /\ PRUNE_EVERY \in Nat \ {0}
  /\ \A n \in DOMAIN LimitOf :
        LimitOf[n].max_attempts \in Nat /\ LimitOf[n].decay_secs \in Nat \ {0}

VARIABLES
  clock,     \* UNIX seconds; 0 is a clock before the epoch
  buckets,   \* full key -> [hits, window_start, seq]
  next_seq,  \* hits served
  request,   \* per thread: the hit it is about to apply, or Absent
  granted    \* History: <<limiter, key>> -> the seconds of the latest hits
             \* granted, one more than Burst, since an eviction or a reset

rateVars == <<clock, buckets, next_seq, request, granted>>

-----------------------------------------------------------------------------
(* Keys. *)

\* login_definition: normalized username and peer address.
LoginKey(i) == IF i.username = Absent THEN Absent ELSE <<Fold[i.username], i.ip>>

\* two_factor_definition: the pending session alone.
TwoFactorKey(i) == IF i.session_id = Absent THEN Absent ELSE <<i.session_id>>

\* passkeys_definition: the credential, else the session, and the peer.
PasskeysKey(i) ==
  LET identity == IF i.credential_id # Absent THEN i.credential_id ELSE i.session_id
  IN  IF identity = Absent THEN Absent ELSE <<identity, i.ip>>

\* LimiterDefinition::derive_key of the limiters the kit registers.
derive_key(name, i) ==
  CASE name = "login"      -> LoginKey(i)
    [] name = "two-factor" -> TwoFactorKey(i)
    [] name = "passkeys"   -> PasskeysKey(i)

bucket_key(name, key) == <<LimitOf[name].decay_secs, key>>

\* What the windows are about: an account as the limiter knows it.
Subject == {<<n, derive_key(n, i)>> : n \in DOMAIN LimitOf, i \in Inputs}

\* Two full windows.
Burst(s) == 2 * LimitOf[s[1]].max_attempts

\* The history with another grant; only the latest Burst + 1 count.
Remember(s, at) ==
  IF Len(granted[s]) > Burst(s) THEN Append(Tail(granted[s]), at) ELSE Append(granted[s], at)

RateInit ==
  /\ clock = 0
  /\ buckets = <<>>
  /\ next_seq = 0
  /\ request = [t \in Thread |-> Absent]
  /\ granted = [s \in Subject |-> <<>>]

-----------------------------------------------------------------------------
(* The limiter. *)

\* u64::saturating_sub.
Since(start, now) == IF now > start THEN now - start ELSE 0

WindowOver(b, decay, now) == Since(b.window_start, now) >= decay

\* retain the windows that have not fully elapsed.
prune(bs, now) ==
  LET live == {k \in DOMAIN bs : ~ WindowOver(bs[k], k[1], now)}
  IN  [k \in live |-> bs[k]]

\* HashMap::insert.
insert(bs, k, b) == [j \in DOMAIN bs \cup {k} |-> IF j = k THEN b ELSE bs[j]]

Oldest(bs) == CHOOSE k \in DOMAIN bs : \A j \in DOMAIN bs : bs[k].seq <= bs[j].seq

\* Mutant: the cap admits one bucket too many.
cap_plus_one(bs) ==
  IF Cardinality(DOMAIN bs) <= MAX_BUCKETS + 1 THEN {} ELSE {Oldest(bs)}

\* enforce_cap: the bucket to evict, if any.
enforce_cap(bs) ==
  IF Cardinality(DOMAIN bs) <= MAX_BUCKETS THEN {} ELSE {Oldest(bs)}

\* Mutant: one attempt more than the limit.
full_inclusive(b, limit) == b.hits > limit.max_attempts

full(b, limit) == b.hits >= limit.max_attempts

\* RateLimiterRegistry::check up to the mutex of hit: the limiter is known,
\* the key derived and the clock read.
Check(t, name, i) ==
  /\ request[t] = Absent
  /\ derive_key(name, i) # Absent
  /\ request' = [request EXCEPT ![t] =
        [name |-> name, key |-> derive_key(name, i), now |-> clock]]
  /\ UNCHANGED <<clock, buckets, next_seq, granted>>

\* hit with a clock before the epoch: denied for the whole window.
HitAtZero(t) ==
  /\ request[t] # Absent /\ request[t].now = 0
  /\ request' = [request EXCEPT ![t] = Absent]
  /\ UNCHANGED <<clock, buckets, next_seq, granted>>

\* hit, under the mutex.
Hit(t) ==
  /\ request[t] # Absent /\ request[t].now > 0
  /\ next_seq < MaxHits
  /\ LET r      == request[t]
         limit  == LimitOf[r.name]
         k      == bucket_key(r.name, r.key)
         swept  == IF next_seq % PRUNE_EVERY = 0 THEN prune(buckets, r.now) ELSE buckets
         fresh  == k \notin DOMAIN swept
         opened == [hits |-> 0, window_start |-> r.now, seq |-> next_seq]
         found  == IF fresh THEN opened ELSE swept[k]
         b      == IF WindowOver(found, limit.decay_secs, r.now) THEN opened ELSE found
         hit    == insert(swept, k, [b EXCEPT !.hits = @ + 1])
         evict  == IF fresh THEN enforce_cap(hit) ELSE {}
     IN  \/ /\ full(b, limit)                                   \* Denied
            /\ buckets' = insert(swept, k, b)
            /\ UNCHANGED granted
         \/ /\ ~ full(b, limit)                                 \* Allowed
            /\ buckets' = [j \in DOMAIN hit \ evict |-> hit[j]]
            /\ granted' = [s \in Subject |->
                  IF bucket_key(s[1], s[2]) \in evict THEN <<>>
                  ELSE IF s = <<r.name, r.key>> THEN Remember(s, clock)
                  ELSE granted[s]]
  /\ next_seq' = next_seq + 1
  /\ request' = [request EXCEPT ![t] = Absent]
  /\ UNCHANGED clock

\* MemoryRateLimiter::reset.
Reset ==
  /\ buckets # <<>>
  /\ buckets' = <<>>
  /\ granted' = [s \in Subject |-> <<>>]
  /\ UNCHANGED <<clock, next_seq, request>>

\* A second passes.
Second ==
  /\ clock < MaxClock
  /\ \A t \in Thread : request[t] # Absent => clock - request[t].now < MaxStale
  /\ clock' = clock + 1
  /\ UNCHANGED <<buckets, next_seq, request, granted>>

RateNext ==
  \/ Second
  \/ Reset
  \/ \E t \in Thread :
        \/ \E n \in DOMAIN LimitOf, i \in Inputs : Check(t, n, i)
        \/ HitAtZero(t)
        \/ Hit(t)

RateSpec == RateInit /\ [][RateNext]_rateVars

-----------------------------------------------------------------------------
(* Properties. *)

\* A limiter grants one account at most twice its attempts in any stretch of
\* decay_secs - MaxStale seconds (a window's worth on each side of a window's
\* end), although the clock is read before the mutex is taken and windows are
\* swept by other requests' clocks.  MaxStale is lost: a late request opens a
\* window in the past, after a sweep took the one it read the clock in.  Only
\* an eviction or a reset forgets grants.
BurstBounded ==
  \A s \in Subject :
    LET g == granted[s] IN
    Len(g) > Burst(s) => g[Len(g)] - g[1] >= LimitOf[s[1]].decay_secs - MaxStale

\* enforce_cap keeps the map within MAX_BUCKETS, whatever the keys.  (It is
\* only called on an allowed hit: this needs limits of at least one attempt.)
BucketsBounded == Cardinality(DOMAIN buckets) <= MAX_BUCKETS
=============================================================================
