------------------------- MODULE RateLimiterProofs -------------------------
(***************************************************************************)
(* Proofs about the in-memory limiter (throttle/limiter.rs, hit): it keeps *)
(* no more than MAX_BUCKETS buckets, and grants an account no more than    *)
(* two windows' worth of attempts in nearly a window's time.               *)
(***************************************************************************)
EXTENDS RateLimiter, FiniteSetTheorems, TLAPS

Bucket == [hits : Nat, window_start : Nat, seq : Nat]

\* A map of buckets: finitely many, each stamped with the hit that made it.
BucketMap(bs) ==
  /\ IsFiniteSet(DOMAIN bs)
  /\ \A k \in DOMAIN bs : bs[k] \in Bucket

RequestOK(r) == r # Absent => r.name \in DOMAIN LimitOf /\ r.now \in Nat

RateInv ==
  /\ clock \in Nat /\ next_seq \in Nat
  /\ BucketMap(buckets)
  /\ DOMAIN request = Thread
  /\ \A t \in Thread : RequestOK(request[t])
  /\ BucketsBounded

-----------------------------------------------------------------------------
\* A set of naturals that is not empty has a least element.
LEMMA LeastNatural ==
  ASSUME NEW S \in SUBSET Nat, S # {}
  PROVE  \E x \in S : \A y \in S : x <= y
<1> DEFINE R == OpToRel(<, Nat)
<1>1. R = {p \in Nat \X Nat : p[1] < p[2]}
  BY DEF OpToRel
<1>2. IsWellFoundedOn(R, Nat)
  BY NatLessThanWellFounded
<1> HIDE DEF R
<1>3. PICK x \in S : \A y \in S : ~ (<<y, x>> \in R)
  BY <1>2, WFMin
<1>4. \A y \in S : ~ (y < x)
  BY <1>1, <1>3
<1> QED
  BY <1>4

\* There is an oldest bucket, and Oldest is one of the map's.
LEMMA OldestIsThere ==
  ASSUME NEW bs, BucketMap(bs), DOMAIN bs # {}
  PROVE  Oldest(bs) \in DOMAIN bs
<1> DEFINE S == {n \in Nat : \E k \in DOMAIN bs : n = bs[k].seq}
<1>1. \A k \in DOMAIN bs : bs[k].seq \in S
  BY DEF BucketMap, Bucket
<1>2. S \in SUBSET Nat /\ S # {}
  BY <1>1
<1>3. PICK n \in S : \A m \in S : n <= m
  BY <1>2, LeastNatural
<1>4. PICK k \in DOMAIN bs : n = bs[k].seq
  OBVIOUS
<1>5. \A j \in DOMAIN bs : bs[k].seq <= bs[j].seq
  BY <1>1, <1>3, <1>4
<1> QED
  BY <1>5 DEF Oldest

\* Sweeping leaves some of the buckets as they are.
LEMMA PruneShrinks ==
  ASSUME NEW bs, BucketMap(bs), NEW now
  PROVE  /\ BucketMap(prune(bs, now))
         /\ Cardinality(DOMAIN prune(bs, now)) <= Cardinality(DOMAIN bs)
<1> DEFINE p == prune(bs, now)
<1>1. DOMAIN p \in SUBSET DOMAIN bs /\ \A k \in DOMAIN p : p[k] = bs[k]
  BY DEF prune
<1> HIDE DEF p
<1>2. IsFiniteSet(DOMAIN p) /\ Cardinality(DOMAIN p) <= Cardinality(DOMAIN bs)
  BY <1>1, FS_Subset DEF BucketMap
<1>3. BucketMap(p)
  BY <1>1, <1>2 DEF BucketMap
<1> QED
  BY <1>2, <1>3 DEF p

\* Storing one bucket.
LEMMA StoreOne ==
  ASSUME NEW bs, BucketMap(bs), NEW k, NEW b \in Bucket
  PROVE  /\ BucketMap(insert(bs, k, b))
         /\ DOMAIN insert(bs, k, b) = DOMAIN bs \cup {k}
<1> DEFINE h == insert(bs, k, b)
<1>1. DOMAIN h = DOMAIN bs \cup {k} /\ \A j \in DOMAIN h : h[j] = IF j = k THEN b ELSE bs[j]
  BY DEF insert
<1> HIDE DEF h
<1>2. IsFiniteSet(DOMAIN h)
  BY <1>1, FS_AddElement DEF BucketMap
<1>3. BucketMap(h)
  BY <1>1, <1>2 DEF BucketMap
<1> QED
  BY <1>1, <1>3 DEF h

\* The cap: a map one bucket over it is brought back to it.
LEMMA CapHolds ==
  ASSUME NEW bs, BucketMap(bs), Cardinality(DOMAIN bs) <= MAX_BUCKETS + 1
  PROVE  LET left == [j \in DOMAIN bs \ enforce_cap(bs) |-> bs[j]] IN
         BucketMap(left) /\ Cardinality(DOMAIN left) <= MAX_BUCKETS
<1> DEFINE left == [j \in DOMAIN bs \ enforce_cap(bs) |-> bs[j]]
<1>0. MAX_BUCKETS \in Nat /\ Cardinality(DOMAIN bs) \in Nat /\ IsFiniteSet(DOMAIN bs)
  BY RateAssumption, FS_CardinalityType DEF BucketMap
<1>1. DOMAIN left = DOMAIN bs \ enforce_cap(bs) /\ \A j \in DOMAIN left : left[j] = bs[j]
  OBVIOUS
<1> HIDE DEF left
<1>2. IsFiniteSet(DOMAIN left) /\ Cardinality(DOMAIN left) <= MAX_BUCKETS
  <2>1. CASE Cardinality(DOMAIN bs) <= MAX_BUCKETS
    <3>1. DOMAIN left = DOMAIN bs
      BY <1>1, <2>1 DEF enforce_cap
    <3> QED
      BY <1>0, <2>1, <3>1
  <2>2. CASE ~ (Cardinality(DOMAIN bs) <= MAX_BUCKETS)
    <3>1. DOMAIN bs # {}
      BY <1>0, <2>2, FS_EmptySet
    <3>2. Oldest(bs) \in DOMAIN bs
      BY <3>1, OldestIsThere
    <3>3. DOMAIN left = DOMAIN bs \ {Oldest(bs)}
      BY <1>1, <2>2 DEF enforce_cap
    <3>4. IsFiniteSet(DOMAIN left) /\ Cardinality(DOMAIN left) = Cardinality(DOMAIN bs) - 1
      BY <1>0, <3>2, <3>3, FS_RemoveElement
    <3> QED
      BY <1>0, <3>4
  <2> QED
    BY <2>1, <2>2
<1>3. BucketMap(left)
  BY <1>1, <1>2 DEF BucketMap
<1> QED
  BY <1>2, <1>3 DEF left

-----------------------------------------------------------------------------
\* One hit, where every limit grants at least one attempt: a bucket that is
\* refused existed before.
LEMMA HitKeepsCap ==
  ASSUME RateInv, NEW t \in Thread, Hit(t),
         \A n \in DOMAIN LimitOf : LimitOf[n].max_attempts >= 1
  PROVE  BucketMap(buckets') /\ Cardinality(DOMAIN buckets') <= MAX_BUCKETS
<1> DEFINE r      == request[t]
           limit  == LimitOf[r.name]
           k      == bucket_key(r.name, r.key)
           swept  == IF next_seq % PRUNE_EVERY = 0 THEN prune(buckets, r.now) ELSE buckets
           fresh  == k \notin DOMAIN swept
           opened == [hits |-> 0, window_start |-> r.now, seq |-> next_seq]
           found  == IF fresh THEN opened ELSE swept[k]
           b      == IF WindowOver(found, limit.decay_secs, r.now) THEN opened ELSE found
           more   == [b EXCEPT !.hits = @ + 1]
           hit    == insert(swept, k, more)
           evict  == IF fresh THEN enforce_cap(hit) ELSE {}
<1>1. \/ full(b, limit) /\ buckets' = insert(swept, k, b)
      \/ ~ full(b, limit) /\ buckets' = [j \in DOMAIN hit \ evict |-> hit[j]]
  BY DEF Hit
<1>2. r.name \in DOMAIN LimitOf /\ r.now \in Nat /\ next_seq \in Nat
  BY DEF Hit, RateInv, RequestOK
<1>3. limit.max_attempts \in Nat /\ limit.max_attempts >= 1
  BY <1>2, RateAssumption
<1> HIDE DEF r, limit, k
<1>4. BucketMap(swept) /\ Cardinality(DOMAIN swept) <= MAX_BUCKETS
  <2>0. BucketMap(buckets) /\ Cardinality(DOMAIN buckets) <= MAX_BUCKETS
    BY DEF RateInv, BucketsBounded
  <2>1. BucketMap(prune(buckets, r.now))
        /\ Cardinality(DOMAIN prune(buckets, r.now)) <= Cardinality(DOMAIN buckets)
    BY <2>0, PruneShrinks
  <2>2. /\ Cardinality(DOMAIN buckets) \in Nat /\ MAX_BUCKETS \in Nat
        /\ Cardinality(DOMAIN prune(buckets, r.now)) \in Nat
    BY <2>0, <2>1, FS_CardinalityType, RateAssumption DEF BucketMap
  <2> QED
    BY <2>0, <2>1, <2>2
<1> HIDE DEF swept
<1>5. opened \in Bucket /\ opened.hits = 0
  BY <1>2 DEF Bucket
<1> HIDE DEF opened
<1>6. b \in Bucket /\ (fresh => b = opened)
  BY <1>4, <1>5 DEF BucketMap
<1> HIDE DEF b
<1>7. more \in Bucket
  BY <1>6 DEF Bucket
<1> HIDE DEF more
<1>8. IsFiniteSet(DOMAIN swept) /\ Cardinality(DOMAIN swept) \in Nat /\ MAX_BUCKETS \in Nat
  BY <1>4, FS_CardinalityType, RateAssumption DEF BucketMap
<1>9. CASE full(b, limit) /\ buckets' = insert(swept, k, b)
  <2>1. ~ fresh
    BY <1>3, <1>5, <1>6, <1>9 DEF full
  <2>2. BucketMap(buckets') /\ DOMAIN buckets' = DOMAIN swept \cup {k}
    BY <1>4, <1>6, <1>9, StoreOne
  <2>3. DOMAIN buckets' = DOMAIN swept
    BY <2>1, <2>2
  <2> QED
    BY <1>4, <2>2, <2>3
<1>10. CASE buckets' = [j \in DOMAIN hit \ evict |-> hit[j]]
  <2>1. BucketMap(hit) /\ DOMAIN hit = DOMAIN swept \cup {k}
    BY <1>4, <1>7, StoreOne
  <2> HIDE DEF hit
  <2>2. CASE fresh
    <3>1. Cardinality(DOMAIN hit) = Cardinality(DOMAIN swept) + 1
      BY <1>8, <2>1, <2>2, FS_AddElement
    <3>2. Cardinality(DOMAIN hit) <= MAX_BUCKETS + 1
      BY <1>4, <1>8, <3>1
    <3>3. buckets' = [j \in DOMAIN hit \ enforce_cap(hit) |-> hit[j]]
      BY <1>10, <2>2
    <3> QED
      BY <2>1, <3>2, <3>3, CapHolds
  <2>3. CASE ~ fresh
    <3>1. DOMAIN buckets' = DOMAIN hit /\ \A j \in DOMAIN hit : buckets'[j] = hit[j]
      BY <1>10, <2>3
    <3>2. DOMAIN hit = DOMAIN swept
      BY <2>1, <2>3
    <3> QED
      BY <1>4, <2>1, <3>1, <3>2 DEF BucketMap
  <2> QED
    BY <2>2, <2>3
<1> QED
  BY <1>1, <1>9, <1>10

LEMMA RateStep ==
  ASSUME RateInv, [RateNext]_rateVars,
         \A n \in DOMAIN LimitOf : LimitOf[n].max_attempts >= 1
  PROVE  RateInv'
<1>0. RequestOK(Absent)
  BY DEF RequestOK
<1>1. CASE UNCHANGED rateVars
  BY <1>1 DEF rateVars, RateInv, BucketsBounded
<1>2. CASE Second
  BY <1>2 DEF Second, RateInv, BucketsBounded
<1>3. CASE Reset
  <2>1. DOMAIN buckets' = {} /\ IsFiniteSet({}) /\ Cardinality({}) = 0 /\ MAX_BUCKETS \in Nat
    BY <1>3, FS_EmptySet, RateAssumption DEF Reset
  <2>2. BucketMap(buckets') /\ Cardinality(DOMAIN buckets') <= MAX_BUCKETS
    BY <2>1 DEF BucketMap
  <2> QED
    BY <1>3, <2>2 DEF Reset, RateInv, BucketsBounded
<1>4. ASSUME NEW t \in Thread, NEW n \in DOMAIN LimitOf, NEW i \in Inputs, Check(t, n, i)
      PROVE  RateInv'
  <2> DEFINE r == [name |-> n, key |-> derive_key(n, i), now |-> clock]
  <2>1. RequestOK(r)
    BY DEF RequestOK, RateInv
  <2>2. request' = [request EXCEPT ![t] = r] /\ UNCHANGED <<clock, buckets, next_seq>>
    BY <1>4 DEF Check
  <2> HIDE DEF r
  <2> QED
    BY <2>1, <2>2 DEF RateInv, BucketsBounded
<1>5. ASSUME NEW t \in Thread, HitAtZero(t)
      PROVE  RateInv'
  BY <1>0, <1>5 DEF HitAtZero, RateInv, BucketsBounded
<1>6. ASSUME NEW t \in Thread, Hit(t)
      PROVE  RateInv'
  <2>1. BucketMap(buckets') /\ Cardinality(DOMAIN buckets') <= MAX_BUCKETS
    BY <1>6, HitKeepsCap
  <2>2. /\ next_seq' = next_seq + 1
        /\ request' = [request EXCEPT ![t] = Absent] /\ UNCHANGED clock
    BY <1>6 DEF Hit
  <2> QED
    BY <1>0, <2>1, <2>2 DEF RateInv, BucketsBounded
<1> QED
  BY <1>1, <1>2, <1>3, <1>4, <1>5, <1>6 DEF RateNext

\* The limiter's map stays within MAX_BUCKETS, whatever keys requests make
\* and however stale the clocks they sweep with, provided no limit is zero:
\* a refused hit of a limit of zero attempts opens a bucket and skips
\* enforce_cap (throttle/limiter.rs, hit).
THEOREM CapIsKept ==
  ASSUME \A n \in DOMAIN LimitOf : LimitOf[n].max_attempts >= 1
  PROVE  RateSpec => []BucketsBounded
<1>1. RateInit => RateInv
  <2> SUFFICES ASSUME RateInit PROVE RateInv
    OBVIOUS
  <2>1. DOMAIN buckets = {} /\ IsFiniteSet({}) /\ Cardinality({}) = 0 /\ MAX_BUCKETS \in Nat
    BY FS_EmptySet, RateAssumption DEF RateInit
  <2> QED
    BY <2>1 DEF RateInit, RateInv, BucketMap, BucketsBounded, RequestOK
<1>2. RateInv /\ [RateNext]_rateVars => RateInv'
  BY RateStep
<1>3. RateInv => BucketsBounded
  BY DEF RateInv
<1> QED
  BY <1>1, <1>2, <1>3, PTL DEF RateSpec

-----------------------------------------------------------------------------
(* Grants per account. *)

Attempts(s) == LimitOf[s[1]].max_attempts
Decay(s) == LimitOf[s[1]].decay_secs
Key(s) == bucket_key(s[1], s[2])

\* At second c the first p of the grants g are too old to count against a new
\* one; those from p + 1 to n fell into one window, and so did the others.
Split(s, g, c, p, n) ==
  /\ g \in Seq(Nat) /\ p \in Nat /\ n \in Nat /\ p <= n /\ n <= Len(g)
  /\ n - p <= Attempts(s) /\ Len(g) - n <= Attempts(s)
  /\ \A i \in 1 .. Len(g) : g[i] <= c
  /\ \A i \in 1 .. p : c - g[i] >= Decay(s) - MaxStale

\* The last window is the bucket b, and the others were over when it opened.
InBucket(g, n, b) ==
  /\ Len(g) - n <= b.hits
  /\ \A i \in 1 .. n : g[i] <= b.window_start + MaxStale

\* What the map bs says of the grants of s: without a bucket only one window's
\* worth of them still counts.
Windows(bs, s, g, c) ==
  \E p, n \in Nat :
    /\ Split(s, g, c, p, n)
    /\ IF Key(s) \in DOMAIN bs THEN InBucket(g, n, bs[Key(s)]) ELSE Len(g) - p <= Attempts(s)

RateType ==
  /\ clock \in Nat /\ next_seq \in Nat
  /\ \A k \in DOMAIN buckets : buckets[k] \in Bucket
  /\ DOMAIN request = Thread
  /\ \A t \in Thread : RequestOK(request[t])
  /\ \A t \in Thread : request[t] # Absent =>
        request[t].now <= clock /\ clock <= request[t].now + MaxStale

BurstInv ==
  /\ RateType
  /\ DOMAIN granted = Subject
  /\ \A s \in Subject : Windows(buckets, s, granted[s], clock)
  /\ BurstBounded

LEMMA SubjectLimits ==
  ASSUME NEW s \in Subject
  PROVE  /\ Attempts(s) \in Nat /\ Decay(s) \in Nat \ {0} /\ MaxStale \in Nat
         /\ Key(s)[1] = Decay(s) /\ Burst(s) = 2 * Attempts(s)
BY RateAssumption DEF Subject, Attempts, Decay, Key, bucket_key, Burst

LEMMA SeqOfNat ==
  ASSUME NEW g \in Seq(Nat)
  PROVE  Len(g) \in Nat /\ \A i \in 1 .. Len(g) : g[i] \in Nat
OBVIOUS

\* A window that is over leaves at most its own grants: those before it are too
\* old by now, however late the requests that were granted them.
LEMMA WindowEnds ==
  ASSUME NEW s \in Subject, NEW g, NEW c \in Nat, NEW p \in Nat, NEW n \in Nat,
         NEW b \in Bucket, Split(s, g, c, p, n), InBucket(g, n, b),
         c >= b.window_start + Decay(s)
  PROVE  Split(s, g, c, n, n) /\ Len(g) - n <= Attempts(s)
<1>1. /\ Attempts(s) \in Nat /\ Decay(s) \in Nat /\ MaxStale \in Nat
      /\ b.window_start \in Nat /\ g \in Seq(Nat) /\ Len(g) \in Nat
  <2>1. g \in Seq(Nat)
    BY DEF Split
  <2>2. Attempts(s) \in Nat /\ Decay(s) \in Nat /\ MaxStale \in Nat
    BY SubjectLimits
  <2>3. b.window_start \in Nat
    BY DEF Bucket
  <2> QED
    BY <2>1, <2>2, <2>3, SeqOfNat
<1>2. \A i \in 1 .. n : c - g[i] >= Decay(s) - MaxStale
  <2> SUFFICES ASSUME NEW i \in 1 .. n PROVE c - g[i] >= Decay(s) - MaxStale
    OBVIOUS
  <2>0. n <= Len(g)
    BY DEF Split
  <2>1. i \in 1 .. Len(g)
    BY <1>1, <2>0
  <2>2. g[i] \in Nat /\ g[i] <= b.window_start + MaxStale
    BY <1>1, <2>1, SeqOfNat DEF InBucket
  <2> DEFINE x == g[i]
             w == b.window_start
             d == Decay(s)
  <2>3. x \in Nat /\ w \in Nat /\ d \in Nat /\ MaxStale \in Nat
    BY <1>1, <2>2
  <2>4. x <= w + MaxStale /\ c >= w + d
    BY <2>2
  <2> HIDE DEF x, w, d
  <2>5. c - x >= d - MaxStale
    BY <2>3, <2>4
  <2> QED
    BY <2>5 DEF x, w, d
<1> QED
  BY <1>1, <1>2 DEF Split

\* A window opened at second w when only one window's worth counts.
LEMMA WindowOpens ==
  ASSUME NEW s \in Subject, NEW g, NEW c \in Nat, NEW p \in Nat, NEW n \in Nat,
         NEW b \in Bucket, Split(s, g, c, p, n), Len(g) - p <= Attempts(s),
         b.hits = 0, c <= b.window_start + MaxStale
  PROVE  Split(s, g, c, p, Len(g)) /\ InBucket(g, Len(g), b)
<1>1. /\ Attempts(s) \in Nat /\ MaxStale \in Nat
      /\ b.window_start \in Nat /\ g \in Seq(Nat) /\ Len(g) \in Nat
      /\ \A i \in 1 .. Len(g) : g[i] \in Nat
  <2>1. g \in Seq(Nat)
    BY DEF Split
  <2>2. Attempts(s) \in Nat /\ MaxStale \in Nat
    BY SubjectLimits
  <2>3. b.window_start \in Nat
    BY DEF Bucket
  <2> QED
    BY <2>1, <2>2, <2>3, SeqOfNat
<1> QED
  BY <1>1 DEF Split, InBucket

\* The sweep of a request whose clock is no later than now.
LEMMA PruneKeepsWindows ==
  ASSUME NEW s \in Subject, NEW g, NEW c \in Nat, NEW bs, NEW at \in Nat,
         \A k \in DOMAIN bs : bs[k] \in Bucket, at <= c, Windows(bs, s, g, c)
  PROVE  Windows(prune(bs, at), s, g, c)
<1>1. PICK p \in Nat, n \in Nat :
        /\ Split(s, g, c, p, n)
        /\ IF Key(s) \in DOMAIN bs THEN InBucket(g, n, bs[Key(s)]) ELSE Len(g) - p <= Attempts(s)
  BY DEF Windows
<1>2. /\ DOMAIN prune(bs, at) = {k \in DOMAIN bs : ~ WindowOver(bs[k], k[1], at)}
      /\ \A k \in DOMAIN prune(bs, at) : prune(bs, at)[k] = bs[k]
  BY DEF prune
<1>3. CASE Key(s) \in DOMAIN prune(bs, at)
  BY <1>1, <1>2, <1>3 DEF Windows
<1>4. CASE Key(s) \notin DOMAIN bs
  BY <1>1, <1>2, <1>4 DEF Windows
<1>5. CASE Key(s) \in DOMAIN bs /\ Key(s) \notin DOMAIN prune(bs, at)
  <2> DEFINE b == bs[Key(s)]
  <2>1. WindowOver(b, Decay(s), at) /\ b \in Bucket
    BY <1>2, <1>5, SubjectLimits
  <2> HIDE DEF b
  <2>2. c >= b.window_start + Decay(s)
    <3>1. b.window_start \in Nat /\ Decay(s) \in Nat \ {0}
      BY <2>1, SubjectLimits DEF Bucket
    <3> QED
      BY <2>1, <3>1 DEF WindowOver, Since
  <2>3. Split(s, g, c, n, n) /\ Len(g) - n <= Attempts(s)
    BY <1>1, <1>5, <2>1, <2>2, WindowEnds DEF b
  <2> QED
    BY <1>5, <2>3 DEF Windows
<1> QED
  BY <1>3, <1>4, <1>5

\* Another grant, when the window has room: the grant 2 * max_attempts before
\* it, if there is one, is too old.
LEMMA GrantFits ==
  ASSUME NEW s \in Subject, NEW c \in Nat, NEW p \in Nat, NEW n \in Nat,
         Split(s, granted[s], c, p, n), Len(granted[s]) - n < Attempts(s)
  PROVE  LET h == Remember(s, c) IN
         /\ Len(h) > Burst(s) => h[Len(h)] - h[1] >= Decay(s) - MaxStale
         /\ \E q, m \in Nat :
               /\ Split(s, h, c, q, m)
               /\ Len(h) - m = Len(granted[s]) - n + 1
               /\ \A x \in Int : (\A i \in 1 .. n : granted[s][i] <= x)
                                   => \A i \in 1 .. m : h[i] <= x
<1> DEFINE g == granted[s]
           h == Remember(s, c)
           M == Attempts(s)
           F == Decay(s) - MaxStale
<1>1. /\ M \in Nat /\ Decay(s) \in Nat /\ MaxStale \in Nat /\ F \in Int
      /\ g \in Seq(Nat) /\ Len(g) \in Nat /\ Burst(s) = 2 * M
      /\ \A i \in 1 .. Len(g) : g[i] \in Nat
  <2>1. g \in Seq(Nat)
    BY DEF Split
  <2>2. /\ M \in Nat /\ Decay(s) \in Nat /\ MaxStale \in Nat /\ Burst(s) = 2 * M
    BY SubjectLimits
  <2>3. Len(g) \in Nat /\ \A i \in 1 .. Len(g) : g[i] \in Nat
    BY <2>1, SeqOfNat
  <2>4. F \in Int
    BY <2>2
  <2> QED
    BY <2>1, <2>2, <2>3, <2>4
<1>2. /\ p <= n /\ n <= Len(g) /\ n - p <= M /\ Len(g) - n < M
      /\ \A i \in 1 .. Len(g) : g[i] <= c
      /\ \A i \in 1 .. p : c - g[i] >= F
  BY DEF Split
<1>3. CASE Len(g) > Burst(s)
  <2>1. h = Append(Tail(g), c)
    BY <1>3 DEF Remember
  <2>2. /\ h \in Seq(Nat) /\ Len(h) = Len(g) /\ h[Len(h)] = c
        /\ \A i \in 1 .. Len(g) - 1 : h[i] = g[i + 1]
    BY <1>1, <1>3, <2>1
  <2>3. p >= 2 /\ p - 1 \in Nat /\ n - 1 \in Nat
    BY <1>1, <1>2, <1>3
  <2> HIDE DEF h, g, M, F
  <2>4. h[1] = g[2] /\ c - g[2] >= F
    <3>1. 2 \in 1 .. p /\ 1 \in 1 .. Len(g) - 1
      BY <1>1, <1>2, <2>3
    <3> QED
      BY <1>2, <2>2, <3>1
  <2>5. \A i \in 1 .. n - 1 : i + 1 \in 1 .. n /\ h[i] = g[i + 1]
    <3> SUFFICES ASSUME NEW i \in 1 .. n - 1 PROVE i + 1 \in 1 .. n /\ h[i] = g[i + 1]
      OBVIOUS
    <3>1. i \in 1 .. Len(g) - 1 /\ i + 1 \in 1 .. n
      BY <1>1, <1>2, <2>3
    <3> QED
      BY <2>2, <3>1
  <2>6. \A i \in 1 .. Len(h) : h[i] <= c
    <3> SUFFICES ASSUME NEW i \in 1 .. Len(h) PROVE h[i] <= c
      OBVIOUS
    <3>1. CASE i = Len(h)
      BY <2>2, <3>1
    <3>2. CASE i # Len(h)
      <4>1. i \in 1 .. Len(g) - 1 /\ i + 1 \in 1 .. Len(g)
        BY <1>1, <2>2, <3>2
      <4> QED
        BY <1>2, <2>2, <4>1
    <3> QED
      BY <3>1, <3>2
  <2>7. \A i \in 1 .. p - 1 : c - h[i] >= F
    <3> SUFFICES ASSUME NEW i \in 1 .. p - 1 PROVE c - h[i] >= F
      OBVIOUS
    <3>1. i \in 1 .. n - 1 /\ i + 1 \in 1 .. p
      BY <1>2, <2>3
    <3> QED
      BY <1>2, <2>5, <3>1
  <2>8. Split(s, h, c, p - 1, n - 1)
    <3>1. /\ p - 1 <= n - 1 /\ n - 1 <= Len(g) /\ (n - 1) - (p - 1) <= M
          /\ Len(g) - (n - 1) <= M
      BY <1>1, <1>2, <2>3
    <3> QED
      BY <2>2, <2>3, <2>6, <2>7, <3>1 DEF Split, M, F
  <2>9. Len(h) - (n - 1) = Len(g) - n + 1
    BY <1>1, <2>2
  <2>10. h[Len(h)] - h[1] >= F
    BY <2>2, <2>4
  <2>11. \A x \in Int : (\A i \in 1 .. n : g[i] <= x) => \A i \in 1 .. n - 1 : h[i] <= x
    BY <2>5
  <2> QED
    BY <2>2, <2>3, <2>8, <2>9, <2>10, <2>11 DEF h, g, F
<1>4. CASE ~ (Len(g) > Burst(s))
  <2>1. h = Append(g, c)
    BY <1>4 DEF Remember
  <2>2. /\ h \in Seq(Nat) /\ Len(h) = Len(g) + 1 /\ h[Len(h)] = c
        /\ \A i \in 1 .. Len(g) : h[i] = g[i]
    BY <1>1, <2>1
  <2> HIDE DEF h, g, M, F
  <2>3. Len(h) > Burst(s) => h[Len(h)] - h[1] >= F
    <3> SUFFICES ASSUME Len(h) > Burst(s) PROVE h[Len(h)] - h[1] >= F
      OBVIOUS
    <3>1. 1 \in 1 .. p /\ 1 \in 1 .. Len(g)
      BY <1>1, <1>2, <1>4, <2>2
    <3> QED
      BY <1>2, <2>2, <3>1
  <2>4. \A i \in 1 .. n : h[i] = g[i]
    BY <1>1, <1>2, <2>2
  <2>5. Split(s, h, c, p, n)
    <3>1. n <= Len(h) /\ Len(h) - n <= M
      BY <1>1, <1>2, <2>2
    <3>2. \A i \in 1 .. Len(h) : h[i] <= c
      <4> SUFFICES ASSUME NEW i \in 1 .. Len(h), i # Len(h) PROVE h[i] <= c
        BY <2>2
      <4>1. i \in 1 .. Len(g)
        BY <1>1, <2>2
      <4> QED
        BY <1>2, <2>2, <4>1
    <3>3. \A i \in 1 .. p : c - h[i] >= F
      <4> SUFFICES ASSUME NEW i \in 1 .. p PROVE c - h[i] >= F
        OBVIOUS
      <4>1. i \in 1 .. n
        BY <1>2
      <4> QED
        BY <1>2, <2>4, <4>1
    <3> QED
      BY <1>2, <2>2, <3>1, <3>2, <3>3 DEF Split, M, F
  <2>6. Len(h) - n = Len(g) - n + 1
    BY <1>1, <2>2
  <2>7. \A x \in Int : (\A i \in 1 .. n : g[i] <= x) => \A i \in 1 .. n : h[i] <= x
    BY <2>4
  <2> QED
    BY <2>2, <2>3, <2>5, <2>6, <2>7 DEF h, g, F
<1> QED
  BY <1>3, <1>4

\* Storing a bucket under k says nothing of other keys.
LEMMA StoreKeepsWindows ==
  ASSUME NEW s \in Subject, NEW h, NEW c \in Nat, NEW bs, NEW k, NEW x,
         IF Key(s) = k THEN \E p, n \in Nat : Split(s, h, c, p, n) /\ InBucket(h, n, x)
                       ELSE Windows(bs, s, h, c)
  PROVE  Windows(insert(bs, k, x), s, h, c)
<1> DEFINE m == insert(bs, k, x)
<1>1. DOMAIN m = DOMAIN bs \cup {k} /\ \A j \in DOMAIN m : m[j] = IF j = k THEN x ELSE bs[j]
  BY DEF insert
<1> HIDE DEF m
<1>2. CASE Key(s) = k
  <2>1. Key(s) \in DOMAIN m /\ m[Key(s)] = x
    BY <1>1, <1>2
  <2> QED
    BY <1>2, <2>1 DEF Windows, m
<1>3. CASE Key(s) # k
  <2>1. PICK p \in Nat, n \in Nat :
          /\ Split(s, h, c, p, n)
          /\ IF Key(s) \in DOMAIN bs THEN InBucket(h, n, bs[Key(s)]) ELSE Len(h) - p <= Attempts(s)
    BY <1>3 DEF Windows
  <2>2. IF Key(s) \in DOMAIN m THEN InBucket(h, n, m[Key(s)]) ELSE Len(h) - p <= Attempts(s)
    BY <1>1, <1>3, <2>1
  <2> QED
    BY <2>1, <2>2 DEF Windows, m
<1> QED
  BY <1>2, <1>3

\* An account that is forgotten starts over.
LEMMA NoGrants ==
  ASSUME NEW s \in Subject, NEW c \in Nat, NEW bs, \A k \in DOMAIN bs : bs[k] \in Bucket
  PROVE  Windows(bs, s, << >>, c)
<1>1. Attempts(s) \in Nat /\ << >> \in Seq(Nat) /\ Len(<< >>) = 0
  BY SubjectLimits
<1>2. Split(s, << >>, c, 0, 0)
  BY <1>1 DEF Split
<1>3. ASSUME Key(s) \in DOMAIN bs PROVE InBucket(<< >>, 0, bs[Key(s)])
  <2>1. bs[Key(s)].hits \in Nat
    BY <1>3 DEF Bucket
  <2> QED
    BY <1>1, <2>1 DEF InBucket
<1> QED
  BY <1>1, <1>2, <1>3 DEF Windows

\* One hit, for the account it is about and for every other one.
LEMMA HitKeepsWindows ==
  ASSUME BurstInv, NEW t \in Thread, Hit(t)
  PROVE  /\ \A j \in DOMAIN buckets' : buckets'[j] \in Bucket
         /\ DOMAIN granted' = Subject
         /\ \A s \in Subject : Windows(buckets', s, granted'[s], clock)
         /\ BurstBounded'
<1> DEFINE r      == request[t]
           limit  == LimitOf[r.name]
           k      == bucket_key(r.name, r.key)
           swept  == IF next_seq % PRUNE_EVERY = 0 THEN prune(buckets, r.now) ELSE buckets
           fresh  == k \notin DOMAIN swept
           opened == [hits |-> 0, window_start |-> r.now, seq |-> next_seq]
           found  == IF fresh THEN opened ELSE swept[k]
           b      == IF WindowOver(found, limit.decay_secs, r.now) THEN opened ELSE found
           more   == [b EXCEPT !.hits = @ + 1]
           hit    == insert(swept, k, more)
           evict  == IF fresh THEN enforce_cap(hit) ELSE {}
           Allowed ==
             /\ ~ full(b, limit) /\ buckets' = [j \in DOMAIN hit \ evict |-> hit[j]]
             /\ granted' = [s \in Subject |->
                  IF bucket_key(s[1], s[2]) \in evict THEN <<>>
                  ELSE IF s = <<r.name, r.key>> THEN Remember(s, clock)
                  ELSE granted[s]]
<1>1. \/ full(b, limit) /\ buckets' = insert(swept, k, b) /\ UNCHANGED granted
      \/ Allowed
  BY DEF Hit
<1>2. /\ r.name \in DOMAIN LimitOf /\ r.now \in Nat /\ next_seq \in Nat /\ clock \in Nat
      /\ r.now <= clock /\ clock <= r.now + MaxStale /\ MaxStale \in Nat
      /\ limit.max_attempts \in Nat /\ limit.decay_secs \in Nat \ {0}
      /\ k = <<limit.decay_secs, r.key>>
  BY RateAssumption DEF Hit, BurstInv, RateType, RequestOK, bucket_key
<1>3. DOMAIN granted = Subject /\ \A s \in Subject : Windows(buckets, s, granted[s], clock)
  BY DEF BurstInv
<1> HIDE DEF r, limit, k
<1>4. /\ \A j \in DOMAIN swept : swept[j] \in Bucket
      /\ \A s \in Subject : Windows(swept, s, granted[s], clock)
  <2>1. \A j \in DOMAIN buckets : buckets[j] \in Bucket
    BY DEF BurstInv, RateType
  <2>2. \A j \in DOMAIN prune(buckets, r.now) : prune(buckets, r.now)[j] \in Bucket
    BY <2>1 DEF prune
  <2>3. \A s \in Subject : Windows(prune(buckets, r.now), s, granted[s], clock)
    BY <1>2, <1>3, <2>1, PruneKeepsWindows
  <2> QED
    BY <1>3, <2>1, <2>2, <2>3
<1> HIDE DEF swept
<1>5. opened \in Bucket /\ opened.hits = 0 /\ opened.window_start = r.now
  BY <1>2 DEF Bucket
<1> HIDE DEF opened
<1>6. /\ b \in Bucket
      /\ \/ b = opened
         \/ ~ fresh /\ b = swept[k] /\ ~ WindowOver(swept[k], limit.decay_secs, r.now)
      /\ fresh => b = opened
      /\ ~ fresh /\ WindowOver(swept[k], limit.decay_secs, r.now) => b = opened
  BY <1>4, <1>5
<1> HIDE DEF b
<1>7. more \in Bucket /\ more.hits = b.hits + 1 /\ more.window_start = b.window_start
  BY <1>6 DEF Bucket
<1> HIDE DEF more
<1>8. ASSUME NEW s \in Subject, Key(s) = k
      PROVE  \E p, n \in Nat : Split(s, granted[s], clock, p, n) /\ InBucket(granted[s], n, b)
  <2> DEFINE g == granted[s]
  <2>1. PICK p \in Nat, n \in Nat :
          /\ Split(s, g, clock, p, n)
          /\ IF Key(s) \in DOMAIN swept THEN InBucket(g, n, swept[Key(s)])
                                       ELSE Len(g) - p <= Attempts(s)
    BY <1>4 DEF Windows
  <2>2. Decay(s) = limit.decay_secs
    BY <1>2, <1>8, SubjectLimits
  <2>3. Len(g) \in Nat
    BY <2>1, SeqOfNat DEF Split
  <2> HIDE DEF g
  <2>4. CASE fresh
    <3>1. Split(s, g, clock, p, Len(g)) /\ InBucket(g, Len(g), b)
      BY <1>2, <1>5, <1>6, <1>8, <2>1, <2>4, WindowOpens
    <3> QED
      BY <2>3, <3>1 DEF g
  <2>5. CASE ~ fresh /\ WindowOver(swept[k], limit.decay_secs, r.now)
    <3> DEFINE old == swept[k]
    <3>1. old \in Bucket /\ old.window_start \in Nat /\ WindowOver(old, Decay(s), r.now)
      BY <1>4, <2>2, <2>5 DEF Bucket
    <3>2. InBucket(g, n, old)
      BY <1>8, <2>1, <2>5
    <3> HIDE DEF old
    <3>3. clock >= old.window_start + Decay(s)
      BY <1>2, <2>2, <3>1 DEF WindowOver, Since
    <3>4. Split(s, g, clock, n, n) /\ Len(g) - n <= Attempts(s)
      BY <1>2, <2>1, <3>1, <3>2, <3>3, WindowEnds
    <3>5. Split(s, g, clock, n, Len(g)) /\ InBucket(g, Len(g), b)
      BY <1>2, <1>5, <1>6, <2>5, <3>4, WindowOpens
    <3> QED
      BY <2>3, <3>5 DEF g
  <2>6. CASE ~ fresh /\ ~ WindowOver(swept[k], limit.decay_secs, r.now)
    <3>1. b = swept[k] \/ b = opened
      BY <1>6
    <3>2. b = found /\ found = swept[k]
      BY <2>6 DEF b
    <3>3. InBucket(g, n, b)
      BY <1>8, <2>1, <2>6, <3>2
    <3> QED
      BY <2>1, <3>3 DEF g
  <2> QED
    BY <2>4, <2>5, <2>6
<1>9. CASE full(b, limit) /\ buckets' = insert(swept, k, b) /\ UNCHANGED granted
  <2>1. \A j \in DOMAIN buckets' : buckets'[j] \in Bucket
    BY <1>4, <1>6, <1>9 DEF insert
  <2>2. ASSUME NEW s \in Subject PROVE Windows(buckets', s, granted[s], clock)
    BY <1>2, <1>4, <1>8, <1>9, StoreKeepsWindows
  <2>3. BurstBounded'
    BY <1>9 DEF BurstInv, BurstBounded, Subject
  <2> QED
    BY <1>3, <1>9, <2>1, <2>2, <2>3
<1>10. CASE Allowed
  <2>0. \A j \in DOMAIN hit : hit[j] \in Bucket
    BY <1>4, <1>7 DEF insert
  <2>1. /\ DOMAIN buckets' = DOMAIN hit \ evict
        /\ \A j \in DOMAIN buckets' : buckets'[j] = hit[j] /\ buckets'[j] \in Bucket
        /\ DOMAIN granted' = Subject
    BY <1>10, <2>0
  <2>2. ASSUME NEW s \in Subject
        PROVE  /\ Windows(buckets', s, granted'[s], clock)
               /\ Len(granted'[s]) > Burst(s)
                    => granted'[s][Len(granted'[s])] - granted'[s][1] >= Decay(s) - MaxStale
    <3>0. granted'[s] = IF Key(s) \in evict THEN <<>>
                        ELSE IF s = <<r.name, r.key>> THEN Remember(s, clock) ELSE granted[s]
      BY <1>10 DEF Key
    <3>1. ASSUME Key(s) \notin evict, NEW h, Windows(hit, s, h, clock)
          PROVE  Windows(buckets', s, h, clock)
      <4>1. PICK p \in Nat, n \in Nat :
              /\ Split(s, h, clock, p, n)
              /\ IF Key(s) \in DOMAIN hit THEN InBucket(h, n, hit[Key(s)])
                                         ELSE Len(h) - p <= Attempts(s)
        BY <3>1 DEF Windows
      <4>2. IF Key(s) \in DOMAIN buckets' THEN InBucket(h, n, buckets'[Key(s)])
                                         ELSE Len(h) - p <= Attempts(s)
        BY <2>1, <3>1, <4>1
      <4> QED
        BY <4>1, <4>2 DEF Windows
    <3> HIDE DEF hit, evict
    <3>2. CASE Key(s) \in evict
      <4>1. granted'[s] = << >> /\ Len(<< >>) = 0 /\ Burst(s) \in Nat
        BY <3>0, <3>2, SubjectLimits
      <4> QED
        BY <1>2, <2>1, <4>1, NoGrants
    <3>3. CASE Key(s) \notin evict /\ s = <<r.name, r.key>>
      <4>1. Key(s) = k /\ Attempts(s) = limit.max_attempts /\ Attempts(s) \in Nat
        BY <1>2, <3>3 DEF Key, Attempts, k, limit
      <4>2. PICK p \in Nat, n \in Nat :
              Split(s, granted[s], clock, p, n) /\ InBucket(granted[s], n, b)
        BY <1>8, <4>1
      <4>3. b.hits \in Nat /\ b.hits < Attempts(s) /\ Len(granted[s]) \in Nat
            /\ b.window_start \in Nat
        BY <1>2, <1>6, <1>10, <4>1, <4>2, SeqOfNat DEF Bucket, full, Split
      <4>4. Len(granted[s]) - n < Attempts(s)
        BY <4>1, <4>2, <4>3 DEF InBucket
      <4> DEFINE h == Remember(s, clock)
      <4>5. /\ Len(h) > Burst(s) => h[Len(h)] - h[1] >= Decay(s) - MaxStale
            /\ \E q, m \in Nat :
                 /\ Split(s, h, clock, q, m)
                 /\ Len(h) - m = Len(granted[s]) - n + 1
                 /\ \A x \in Int : (\A i \in 1 .. n : granted[s][i] <= x)
                                     => \A i \in 1 .. m : h[i] <= x
        BY <1>2, <4>2, <4>4, GrantFits
      <4> HIDE DEF h
      <4>6. PICK q \in Nat, m \in Nat :
              /\ Split(s, h, clock, q, m)
              /\ Len(h) - m = Len(granted[s]) - n + 1
              /\ \A x \in Int : (\A i \in 1 .. n : granted[s][i] <= x)
                                  => \A i \in 1 .. m : h[i] <= x
        BY <4>5
      <4>7. InBucket(h, m, more)
        <5>1. \A i \in 1 .. m : h[i] <= b.window_start + MaxStale
          <6>1. b.window_start + MaxStale \in Int
            BY <1>2, <4>3
          <6>2. \A i \in 1 .. n : granted[s][i] <= b.window_start + MaxStale
            BY <4>2 DEF InBucket
          <6> QED
            BY <4>6, <6>1, <6>2
        <5>2. Len(h) - m <= b.hits + 1
          BY <4>2, <4>3, <4>6 DEF InBucket
        <5> QED
          BY <1>7, <5>1, <5>2 DEF InBucket
      <4>8. Windows(hit, s, h, clock)
        BY <1>2, <4>1, <4>6, <4>7, StoreKeepsWindows DEF hit
      <4>9. granted'[s] = h
        BY <3>0, <3>3 DEF h
      <4> QED
        BY <3>1, <3>3, <4>5, <4>8, <4>9
    <3>4. CASE Key(s) \notin evict /\ s # <<r.name, r.key>>
      <4>1. granted'[s] = granted[s]
        BY <3>0, <3>4
      <4>2. ASSUME Key(s) = k
            PROVE  \E p, n \in Nat : Split(s, granted[s], clock, p, n)
                                     /\ InBucket(granted[s], n, more)
        <5>1. PICK p \in Nat, n \in Nat :
                Split(s, granted[s], clock, p, n) /\ InBucket(granted[s], n, b)
          BY <1>8, <4>2
        <5>2. Len(granted[s]) \in Nat /\ b.hits \in Nat
          BY <1>6, <5>1, SeqOfNat DEF Bucket, Split
        <5>3. InBucket(granted[s], n, more)
          BY <1>7, <5>1, <5>2 DEF InBucket
        <5> QED
          BY <5>1, <5>3
      <4>3. Windows(hit, s, granted[s], clock)
        BY <1>2, <1>4, <4>2, StoreKeepsWindows DEF hit
      <4>4. Windows(buckets', s, granted'[s], clock)
        BY <3>1, <3>4, <4>1, <4>3
      <4>5. Len(granted[s]) > Burst(s)
              => granted[s][Len(granted[s])] - granted[s][1] >= Decay(s) - MaxStale
        BY DEF BurstInv, BurstBounded, Decay
      <4> QED
        BY <4>1, <4>4, <4>5
    <3> QED
      BY <3>2, <3>3, <3>4
  <2>3. BurstBounded'
    BY <2>2 DEF BurstBounded, Decay, Subject, Burst
  <2> QED
    BY <2>1, <2>2, <2>3
<1> QED
  BY <1>1, <1>9, <1>10

\* The windows a second later, or with other requests under way.
LEMMA TimeKeepsWindows ==
  ASSUME NEW s \in Subject, NEW g, NEW c \in Nat, NEW d \in Nat, c <= d, NEW bs,
         Windows(bs, s, g, c)
  PROVE  Windows(bs, s, g, d)
<1>1. PICK p \in Nat, n \in Nat :
        /\ Split(s, g, c, p, n)
        /\ IF Key(s) \in DOMAIN bs THEN InBucket(g, n, bs[Key(s)]) ELSE Len(g) - p <= Attempts(s)
  BY DEF Windows
<1>2. /\ Len(g) \in Nat /\ p <= n /\ n <= Len(g) /\ Decay(s) \in Nat /\ MaxStale \in Nat
      /\ \A i \in 1 .. Len(g) : g[i] \in Nat /\ g[i] <= c
      /\ \A i \in 1 .. p : c - g[i] >= Decay(s) - MaxStale
  BY <1>1, SeqOfNat, SubjectLimits DEF Split
<1>3. \A i \in 1 .. Len(g) : g[i] <= d
  BY <1>2
<1>4. \A i \in 1 .. p : d - g[i] >= Decay(s) - MaxStale
  <2> SUFFICES ASSUME NEW i \in 1 .. p PROVE d - g[i] >= Decay(s) - MaxStale
    OBVIOUS
  <2>1. i \in 1 .. Len(g)
    BY <1>2
  <2> DEFINE x == g[i]
             f == Decay(s) - MaxStale
  <2>2. x \in Nat /\ f \in Int /\ c - x >= f
    BY <1>2, <2>1
  <2> HIDE DEF x, f
  <2>3. d - x >= f
    BY <2>2
  <2> QED
    BY <2>3 DEF x, f
<1>5. Split(s, g, d, p, n)
  BY <1>1, <1>3, <1>4 DEF Split
<1> QED
  BY <1>1, <1>5 DEF Windows

LEMMA BurstStep ==
  ASSUME BurstInv, [RateNext]_rateVars
  PROVE  BurstInv'
<1>0. /\ RequestOK(Absent) /\ clock \in Nat /\ DOMAIN granted = Subject
      /\ \A s \in Subject : Windows(buckets, s, granted[s], clock)
      /\ BurstBounded /\ RateType /\ MaxStale \in Nat
  BY RateAssumption DEF RequestOK, BurstInv, RateType
<1>1. ASSUME UNCHANGED <<clock, buckets, granted>>, RateType'
      PROVE  BurstInv'
  BY <1>0, <1>1 DEF BurstInv, BurstBounded
<1>2. CASE UNCHANGED rateVars
  <2>1. RateType'
    BY <1>0, <1>2 DEF rateVars, RateType
  <2> QED
    BY <1>1, <1>2, <2>1 DEF rateVars
<1>3. CASE Second
  <2>1. /\ clock' = clock + 1 /\ UNCHANGED <<buckets, next_seq, request, granted>>
        /\ \A t \in Thread : request[t] # Absent => clock - request[t].now < MaxStale
    BY <1>3 DEF Second
  <2>2. RateType'
    <3>1. \A t \in Thread : request[t] # Absent =>
            request[t].now \in Nat /\ request[t].now <= clock /\ clock <= request[t].now + MaxStale
      BY <1>0 DEF RateType, RequestOK
    <3>2. \A t \in Thread : request[t] # Absent =>
            request[t].now <= clock + 1 /\ clock + 1 <= request[t].now + MaxStale
      BY <1>0, <2>1, <3>1
    <3> QED
      BY <1>0, <2>1, <3>2 DEF RateType
  <2>3. \A s \in Subject : Windows(buckets, s, granted[s], clock + 1)
    BY <1>0, TimeKeepsWindows
  <2> QED
    BY <1>0, <2>1, <2>2, <2>3 DEF BurstInv, BurstBounded
<1>4. CASE Reset
  <2>1. /\ buckets' = <<>> /\ granted' = [s \in Subject |-> <<>>]
        /\ UNCHANGED <<clock, next_seq, request>>
    BY <1>4 DEF Reset
  <2>2. \A k \in DOMAIN buckets' : buckets'[k] \in Bucket
    BY <2>1
  <2>3. RateType'
    BY <1>0, <2>1, <2>2 DEF RateType
  <2>4. \A s \in Subject : Windows(buckets', s, <<>>, clock)
    BY <1>0, <2>2, NoGrants
  <2>5. \A s \in Subject : Burst(s) \in Nat
    BY SubjectLimits
  <2> QED
    BY <2>1, <2>3, <2>4, <2>5 DEF BurstInv, BurstBounded
<1>5. ASSUME NEW t \in Thread, NEW n \in DOMAIN LimitOf, NEW i \in Inputs, Check(t, n, i)
      PROVE  BurstInv'
  <2> DEFINE r == [name |-> n, key |-> derive_key(n, i), now |-> clock]
  <2>1. RequestOK(r) /\ r.now <= clock /\ clock <= r.now + MaxStale
    BY <1>0 DEF RequestOK
  <2>2. request' = [request EXCEPT ![t] = r] /\ UNCHANGED <<clock, buckets, next_seq, granted>>
    BY <1>5 DEF Check
  <2> HIDE DEF r
  <2>3. RateType'
    BY <1>0, <2>1, <2>2 DEF RateType
  <2> QED
    BY <1>1, <2>2, <2>3
<1>6. ASSUME NEW t \in Thread, HitAtZero(t)
      PROVE  BurstInv'
  <2>1. request' = [request EXCEPT ![t] = Absent] /\ UNCHANGED <<clock, buckets, next_seq, granted>>
    BY <1>6 DEF HitAtZero
  <2>2. RateType'
    BY <1>0, <2>1 DEF RateType
  <2> QED
    BY <1>1, <2>1, <2>2
<1>7. ASSUME NEW t \in Thread, Hit(t)
      PROVE  BurstInv'
  <2>1. /\ next_seq' = next_seq + 1
        /\ request' = [request EXCEPT ![t] = Absent] /\ UNCHANGED clock
    BY <1>7 DEF Hit
  <2>2. /\ \A j \in DOMAIN buckets' : buckets'[j] \in Bucket
        /\ DOMAIN granted' = Subject
        /\ \A s \in Subject : Windows(buckets', s, granted'[s], clock)
        /\ BurstBounded'
    BY <1>7, HitKeepsWindows
  <2>3. RateType'
    BY <1>0, <2>1, <2>2 DEF RateType
  <2> QED
    BY <2>1, <2>2, <2>3 DEF BurstInv
<1> QED
  BY <1>2, <1>3, <1>4, <1>5, <1>6, <1>7 DEF RateNext

\* No account is granted more than twice its attempts within a window's length
\* less the time a request may wait for the mutex, for every set of limiters
\* (two that share a bucket included), every sweep rate and every number of
\* requests whose clocks are applied out of order (throttle/limiter.rs, hit).
THEOREM BurstsAreBounded == RateSpec => []BurstBounded
<1>1. RateInit => BurstInv
  <2> SUFFICES ASSUME RateInit PROVE BurstInv
    OBVIOUS
  <2>1. RateType /\ (\A k \in DOMAIN buckets : buckets[k] \in Bucket) /\ clock \in Nat
    BY DEF RateInit, RateType, RequestOK
  <2>2. \A s \in Subject : Windows(buckets, s, <<>>, clock) /\ Burst(s) \in Nat
    BY <2>1, NoGrants, SubjectLimits
  <2> QED
    BY <2>1, <2>2 DEF RateInit, BurstInv, BurstBounded
<1>2. BurstInv /\ [RateNext]_rateVars => BurstInv'
  BY BurstStep
<1>3. BurstInv => BurstBounded
  BY DEF BurstInv
<1> QED
  BY <1>1, <1>2, <1>3, PTL DEF RateSpec

=============================================================================
