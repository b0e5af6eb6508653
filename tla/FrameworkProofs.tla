-------------------------- MODULE FrameworkProofs --------------------------
(***************************************************************************)
(* Proofs about the parts of the framework: the scheduler's marks and its  *)
(* cron search, the cache repository's flush, the query cache of the       *)
(* models, the delivery of broadcasts, the migrator's ledger and the order *)
(* of boot.  Each part is proved about its own specification.              *)
(***************************************************************************)
EXTENDS Scheduler, CacheRepository, ModelOps, Broadcast, Migrator, Foundation,
        SequenceTheorems, FiniteSetTheorems, WellFoundedInduction, TLAPS

-----------------------------------------------------------------------------
(* The scheduler. *)

\* A tick under way has a snapshot of commands, and one left while it works
\* on a command.
Tick == {TickIdle} \cup [pc : {"check", "due", "dispatch"}, now : Nat, rest : Seq(DOMAIN Commands)]

SchedType ==
  /\ second \in Nat
  /\ registry \in Seq(DOMAIN Commands)
  /\ ticks \in [Ticker -> Tick]
  /\ \A t \in Ticker : ticks[t].pc \in {"due", "dispatch"} => ticks[t].rest # <<>>

SchedInv == SchedType /\ NoLeakedMark

\* A tick that is not idle is a record with a snapshot.
LEMMA TickShape ==
  ASSUME SchedType, NEW t \in Ticker, ticks[t].pc # "idle"
  PROVE  ticks[t] \in [pc : {"check", "due", "dispatch"}, now : Nat, rest : Seq(DOMAIN Commands)]
BY DEF SchedType, Tick, TickIdle

\* One ticker moves to a well-formed place, the marks stay, and it neither
\* was nor is dispatching.
LEMMA TickMoves ==
  ASSUME SchedInv, NEW t \in Ticker, NEW k \in Tick,
         ticks' = [ticks EXCEPT ![t] = k],
         k.pc \in {"due", "dispatch"} => k.rest # <<>>,
         ticks[t].pc # "dispatch",
         UNCHANGED <<second, registry, running>>
  PROVE  SchedInv'
<1>1. /\ ticks'[t] = k
      /\ \A u \in Ticker : u # t => ticks'[u] = ticks[u]
  BY DEF SchedInv, SchedType
<1>2. SchedType'
  BY <1>1 DEF SchedInv, SchedType
<1>3. NoLeakedMark'
  BY <1>1 DEF SchedInv, NoLeakedMark
<1> QED
  BY <1>2, <1>3 DEF SchedInv

\* Record facts about a tick.
LEMMA TickFields ==
  ASSUME NEW k \in [pc : {"check", "due", "dispatch"}, now : Nat, rest : Seq(DOMAIN Commands)]
  PROVE  /\ \A pc \in {"check", "due", "dispatch"} :
              /\ [k EXCEPT !.pc = pc] = [pc |-> pc, now |-> k.now, rest |-> k.rest]
              /\ [pc |-> pc, now |-> k.now, rest |-> k.rest] \in Tick
         /\ k.rest # <<>> =>
              [pc |-> "check", now |-> k.now, rest |-> Tail(k.rest)] \in Tick
<1>1. k.rest \in Seq(DOMAIN Commands) /\ k.now \in Nat
  OBVIOUS
<1>2. k.rest # <<>> => Tail(k.rest) \in Seq(DOMAIN Commands)
  BY <1>1
<1>3. \A pc \in {"check", "due", "dispatch"}, r \in Seq(DOMAIN Commands) :
        [pc |-> pc, now |-> k.now, rest |-> r] \in Tick
  BY <1>1 DEF Tick
<1>4. \A pc \in {"check", "due", "dispatch"} :
        [k EXCEPT !.pc = pc] = [pc |-> pc, now |-> k.now, rest |-> k.rest]
  OBVIOUS
<1> QED
  BY <1>1, <1>2, <1>3, <1>4

\* Skip is such a move.
LEMMA SkipMoves ==
  ASSUME SchedInv, NEW t \in Ticker, ticks[t].pc \in {"check", "due"}, ticks[t].rest # <<>>,
         Skip(t), UNCHANGED <<second, registry, running>>
  PROVE  SchedInv'
<1> DEFINE k == [pc |-> "check", now |-> ticks[t].now, rest |-> Tail(ticks[t].rest)]
<1>1. ticks[t] \in [pc : {"check", "due", "dispatch"}, now : Nat, rest : Seq(DOMAIN Commands)]
  BY TickShape DEF SchedInv
<1>2. k \in Tick
  BY <1>1, TickFields
<1>3. ticks' = [ticks EXCEPT ![t] = k]
  BY DEF Skip
<1> QED
  BY <1>2, <1>3, TickMoves

\* Every step of the scheduler preserves the invariant.
LEMMA SchedStep ==
  ASSUME SchedInv, [SchedNext]_schedVars
  PROVE  SchedInv'
<1>1. CASE UNCHANGED schedVars
  BY <1>1 DEF schedVars, SchedInv, SchedType, NoLeakedMark
<1>2. CASE SchedSecond
  BY <1>2 DEF SchedSecond, SchedInv, SchedType, NoLeakedMark
<1>3. CASE \E c \in DOMAIN Commands : Register(c)
  BY <1>3 DEF Register, SchedInv, SchedType, NoLeakedMark
<1>4. CASE \E to \in BOOLEAN : set_paused(to)
  BY <1>4 DEF set_paused, SchedInv, SchedType, NoLeakedMark
<1>5. ASSUME NEW t \in Ticker, TickStart(t)
      PROVE  SchedInv'
  <2> DEFINE k == [pc |-> "check", now |-> second, rest |-> registry]
  <2>1. k \in Tick
    BY DEF SchedInv, SchedType, Tick
  <2>2. ticks[t].pc # "dispatch" /\ ticks' = [ticks EXCEPT ![t] = k]
    BY <1>5 DEF TickStart
  <2> QED
    BY <1>5, <2>1, <2>2, TickMoves DEF TickStart
<1>6. ASSUME NEW t \in Ticker, TickCheck(t)
      PROVE  SchedInv'
  <2>1. CASE Skip(t)
    BY <1>6, <2>1, SkipMoves DEF TickCheck
  <2>2. CASE ticks' = [ticks EXCEPT ![t].pc = "due"]
    <3> DEFINE k == [pc |-> "due", now |-> ticks[t].now, rest |-> ticks[t].rest]
    <3>1. ticks[t].pc = "check" /\ ticks[t].rest # <<>>
      BY <1>6 DEF TickCheck
    <3>2. ticks[t] \in [pc : {"check", "due", "dispatch"}, now : Nat, rest : Seq(DOMAIN Commands)]
      BY <3>1, TickShape DEF SchedInv
    <3>3. k \in Tick /\ ticks' = [ticks EXCEPT ![t] = k]
      BY <2>2, <3>2, TickFields
    <3> QED
      BY <1>6, <3>1, <3>3, TickMoves DEF TickCheck
  <2> QED
    BY <1>6, <2>1, <2>2 DEF TickCheck
<1>7. ASSUME NEW t \in Ticker, TickDue(t)
      PROVE  SchedInv'
  <2>1. ticks[t].pc = "due" /\ ticks[t].rest # <<>>
    BY <1>7 DEF TickDue, SchedInv, SchedType
  <2>2. ticks[t] \in [pc : {"check", "due", "dispatch"}, now : Nat, rest : Seq(DOMAIN Commands)]
    BY <2>1, TickShape DEF SchedInv
  <2>3. CASE Skip(t) /\ UNCHANGED running
    BY <1>7, <2>1, <2>3, SkipMoves DEF TickDue
  <2>4. CASE /\ running' = running \cup {Head(ticks[t].rest)}
             /\ ticks' = [ticks EXCEPT ![t].pc = "dispatch"]
    <3> DEFINE k == [pc |-> "dispatch", now |-> ticks[t].now, rest |-> ticks[t].rest]
    <3>1. k \in Tick /\ ticks' = [ticks EXCEPT ![t] = k]
      BY <2>2, <2>4, TickFields
    <3>2. /\ ticks'[t] = k
          /\ \A u \in Ticker : u # t => ticks'[u] = ticks[u]
      BY <3>1 DEF SchedInv, SchedType
    <3>3. SchedType'
      BY <1>7, <2>1, <3>1, <3>2 DEF SchedInv, SchedType, TickDue
    <3>4. NoLeakedMark'
      BY <2>1, <2>4, <3>2 DEF SchedInv, NoLeakedMark
    <3> QED
      BY <3>3, <3>4 DEF SchedInv
  <2> QED
    BY <1>7, <2>3, <2>4 DEF TickDue
<1>8. ASSUME NEW t \in Ticker, TickDispatch(t)
      PROVE  SchedInv'
  <2>1. /\ ticks'[t] = TickIdle
        /\ \A u \in Ticker : u # t => ticks'[u] = ticks[u]
        /\ ticks' \in [Ticker -> Tick]
    BY <1>8 DEF TickDispatch, SchedInv, SchedType, Tick
  <2>2. SchedType'
    BY <1>8, <2>1 DEF TickDispatch, SchedInv, SchedType, TickIdle
  <2>3. ASSUME NEW c \in running'
        PROVE  \E u \in Ticker : ticks'[u].pc = "dispatch" /\ Head(ticks'[u].rest) = c
    <3>1. c \in running /\ c # Head(ticks[t].rest)
      BY <1>8, <2>3 DEF TickDispatch, mark_idle
    <3>2. PICK u \in Ticker : ticks[u].pc = "dispatch" /\ Head(ticks[u].rest) = c
      BY <3>1 DEF SchedInv, NoLeakedMark
    <3> QED
      BY <2>1, <3>1, <3>2
  <2> QED
    BY <2>2, <2>3 DEF SchedInv, NoLeakedMark
<1>9. ASSUME NEW t \in Ticker, TickEnd(t)
      PROVE  SchedInv'
  BY <1>9, TickMoves DEF TickEnd, Tick, TickIdle
<1> QED
  BY <1>1, <1>2, <1>3, <1>4, <1>5, <1>6, <1>7, <1>8, <1>9 DEF SchedNext

\* A mark never outlives the ticks that set it (scheduler.rs: mark_idle
\* before the dispatch's error is returned), for every set of commands and
\* of overlapping ticks.
THEOREM MarksAreCleared ==
  SchedSpec => []NoLeakedMark
<1>1. SchedInit => SchedInv
  BY DEF SchedInit, SchedInv, SchedType, NoLeakedMark, Tick, TickIdle
<1>2. SchedInv /\ [SchedNext]_schedVars => SchedInv'
  BY SchedStep
<1>3. SchedInv => NoLeakedMark
  BY DEF SchedInv
<1> QED
  BY <1>1, <1>2, <1>3, PTL DEF SchedSpec

-----------------------------------------------------------------------------
(* The cron search. *)

\* A set of naturals that is not empty has a least element.
LEMMA LeastNatural ==
  ASSUME NEW S \in SUBSET Nat, S # {}
  PROVE  \E x \in S : \A y \in S : x <= y
<1> DEFINE R == OpToRel(<, Nat)
<1>1. R = {p \in Nat \X Nat : p[1] < p[2]}
  BY DEF OpToRel
<1>2. IsWellFoundedOn(R, Nat)
  BY NatLessThanWellFounded
<1> HIDE DEF R
<1>3. PICK x \in S : \A y \in S : ~ (<<y, x>> \in R)
  BY <1>2, WFMin
<1>4. \A y \in S : ~ (y < x)
  BY <1>1, <1>3
<1> QED
  BY <1>4

\* Min is what its name says on a set of integers bounded from below.
LEMMA MinOfBounded ==
  ASSUME NEW S \in SUBSET Int, S # {}, NEW lo \in Int, \A x \in S : lo <= x
  PROVE  Min(S) \in S /\ \A y \in S : Min(S) <= y
<1> DEFINE T == {n \in Nat : n + lo \in S}
<1>1. \A x \in S : x - lo \in T
  OBVIOUS
<1>2. T \in SUBSET Nat /\ T # {}
  BY <1>1
<1>3. PICK n \in T : \A y \in T : n <= y
  BY <1>2, LeastNatural
<1>4. n + lo \in S /\ \A y \in S : n + lo <= y
  BY <1>1, <1>3
<1> QED
  BY <1>4 DEF Min

\* Integer division.
LEMMA DivBounds ==
  ASSUME NEW a \in Int, NEW b \in Nat \ {0}
  PROVE  /\ a \div b \in Int
         /\ (a \div b) * b <= a
         /\ a < (a \div b) * b + b
OBVIOUS

LEMMA DivOfProduct ==
  ASSUME NEW m \in Int, NEW b \in Nat \ {0}
  PROVE  (m * b) \div b = m
<1> DEFINE q == (m * b) \div b
<1>0. m * b \in Int
  OBVIOUS
<1>1. q \in Int /\ q * b <= m * b /\ m * b < q * b + b
  BY <1>0, DivBounds
<1> HIDE DEF q
<1>2. ~ (q > m)
  <2> SUFFICES ASSUME q > m PROVE FALSE
    OBVIOUS
  <2>1. PICK d \in Nat : q = m + 1 + d
    BY <1>1
  <2>2. q * b = m * b + b + d * b /\ d * b >= 0
    BY <2>1
  <2> QED
    BY <1>0, <1>1, <2>2
<1>3. ~ (q < m)
  <2> SUFFICES ASSUME q < m PROVE FALSE
    OBVIOUS
  <2>1. PICK d \in Nat : m = q + 1 + d
    BY <1>1
  <2>2. m * b = q * b + b + d * b /\ d * b >= 0
    BY <1>1, <2>1
  <2> QED
    BY <1>0, <1>1, <2>2
<1> QED
  BY <1>1, <1>2, <1>3 DEF q

\* Products keep the order.
LEMMA ProductOrder ==
  ASSUME NEW x \in Int, NEW y \in Int, NEW b \in Nat, x <= y
  PROVE  x * b <= y * b
<1>1. PICK d \in Nat : y = x + d
  OBVIOUS
<1>2. y * b = x * b + d * b /\ d * b >= 0
  BY <1>1
<1> QED
  BY <1>2

LEMMA Units ==
  /\ SECS \in Nat \ {0}
  /\ Year \in Int
BY ScheduleAssumption DEF Year

\* The first minute the search looks at is the first one after `from`.
LEMMA FirstMinute ==
  ASSUME NEW from \in Nat
  PROVE  LET first == (from + SECS) \div SECS IN
         /\ first \in Int
         /\ first * SECS > from
         /\ \A m \in Int : m * SECS > from => first <= m
<1> DEFINE first == (from + SECS) \div SECS
<1>1. from + SECS \in Int
  BY Units
<1>2. first \in Int /\ first * SECS <= from + SECS /\ from + SECS < first * SECS + SECS
  BY <1>1, Units, DivBounds
<1> HIDE DEF first
<1>3. first * SECS > from
  BY <1>2, Units
<1>4. ASSUME NEW m \in Int, m * SECS > from, m < first
      PROVE  FALSE
  <2>1. (m + 1) * SECS <= first * SECS
    BY <1>2, <1>4, Units, ProductOrder
  <2>2. (m + 1) * SECS = m * SECS + SECS
    BY Units
  <2> QED
    BY <1>2, <1>4, <2>1, <2>2, Units
<1>5. \A m \in Int : m * SECS > from => first <= m
  BY <1>2, <1>4
<1> QED
  BY <1>2, <1>3, <1>5 DEF first

\* What the search without a zone answers with.
LEMMA UtcAnswer ==
  ASSUME NEW c \in DOMAIN Commands, NEW from \in Nat, NextUtc(c, from) # Never
  PROVE  \E m \in Int :
           /\ NextUtc(c, from) = m * SECS
           /\ m * SECS > from
           /\ fields_match(c, m)
           /\ \A n \in Int : n * SECS > from /\ fields_match(c, n) => m <= n
<1> DEFINE first == (from + SECS) \div SECS
           hits  == {m \in first .. first + Year - 1 : fields_match(c, m)}
<1>1. /\ first \in Int /\ first * SECS > from
      /\ \A n \in Int : n * SECS > from => first <= n
  BY FirstMinute
<1>2. hits # {} /\ NextUtc(c, from) = Min(hits) * SECS
  BY DEF NextUtc
<1> HIDE DEF first
<1>3. hits \in SUBSET Int /\ \A m \in hits : first <= m
  BY <1>1, Units
<1>4. Min(hits) \in hits /\ \A m \in hits : Min(hits) <= m
  <2> HIDE DEF hits
  <2> QED
    BY <1>1, <1>2, <1>3, MinOfBounded
<1> DEFINE m == Min(hits)
<1> HIDE DEF m
<1>5. m \in Int /\ first <= m /\ m <= first + Year - 1 /\ fields_match(c, m)
  BY <1>1, <1>4, Units DEF m
<1>6. m * SECS > from
  <2>1. first * SECS <= m * SECS
    BY <1>1, <1>5, Units, ProductOrder
  <2> QED
    BY <1>1, <1>5, <2>1, Units
<1>7. ASSUME NEW n \in Int, n * SECS > from, fields_match(c, n)
      PROVE  m <= n
  <2>1. first <= n
    BY <1>1, <1>7
  <2>2. CASE n <= first + Year - 1
    <3>1. n \in hits
      BY <1>1, <1>7, <2>1, <2>2, Units
    <3> QED
      BY <1>4, <3>1 DEF m
  <2>3. CASE n > first + Year - 1
    BY <1>1, <1>5, <2>3, Units
  <2> QED
    BY <1>1, <2>2, <2>3, Units
<1> QED
  BY <1>2, <1>5, <1>6, <1>7 DEF m

\* What the search on a zone's wall clock answers with.
LEMMA ZonedAnswer ==
  ASSUME NEW c \in DOMAIN Commands, NEW from \in Nat,
         NEW z \in [at : Int, before : Int, after : Int],
         NextIn(c, z, from) # Never
  PROVE  \E m \in Int :
           /\ NextIn(c, z, from) = m * SECS
           /\ m * SECS > from
           /\ fields_match(c, m + Offset(z, m))
<1> DEFINE start == from + SECS
           m0    == start \div SECS
           first == m0 + Offset(z, m0)
           ok(l) == not_past(Instants(z, l), start)
           hits  == {l \in first .. first + Year - 1 : fields_match(c, l) /\ ok(l) # {}}
<1>1. start \in Int /\ start > from
  BY Units
<1>2. m0 \in Int
  BY <1>1, Units, DivBounds
<1>3. first \in Int
  BY <1>2 DEF Offset
<1>4. hits # {} /\ NextIn(c, z, from) = Min(ok(Min(hits))) * SECS
  BY DEF NextIn
<1>5. hits \in SUBSET Int /\ \A l \in hits : first <= l
  BY <1>3, Units
<1>6. Min(hits) \in hits
  <2> HIDE DEF hits, first
  <2> QED
    BY <1>3, <1>4, <1>5, MinOfBounded
<1> DEFINE l == Min(hits)
<1> HIDE DEF first, l, start, m0
<1>7. l \in Int /\ fields_match(c, l) /\ ok(l) # {}
  BY <1>3, <1>6, Units DEF l
<1> DEFINE lo == IF z.before > z.after THEN l - z.before ELSE l - z.after
<1>8. lo \in Int /\ ok(l) \in SUBSET Int /\ \A m \in ok(l) : lo <= m
  BY <1>7 DEF not_past, Instants
<1>9. Min(ok(l)) \in ok(l)
  <2> HIDE DEF ok, lo
  <2> QED
    BY <1>7, <1>8, MinOfBounded
<1> DEFINE m == Min(ok(l))
<1>10. m \in Int /\ m * SECS >= start /\ m + Offset(z, m) = l
  <2> HIDE DEF m
  <2>1. m \in ok(l)
    BY <1>9 DEF m
  <2> QED
    BY <1>8, <2>1 DEF not_past, Instants
<1> HIDE DEF m
<1>11. m * SECS > from
  BY <1>1, <1>10, Units
<1> QED
  BY <1>4, <1>7, <1>10, <1>11 DEF m, l

\* One answer of next_run.
LEMMA AnswerAhead ==
  ASSUME second \in Nat, NEW c \in DOMAIN Commands
  PROVE  RunsAhead(c)
<1> DEFINE zone == Commands[c].zone
           next == next_run(c, second)
<1> SUFFICES ASSUME next # Never
             PROVE  /\ next > second
                    /\ fields_match(c, IF zone = NoZone THEN next \div SECS
                                       ELSE next \div SECS + Offset(zone, next \div SECS))
  BY DEF RunsAhead
<1>1. CASE zone = NoZone
  <2>1. next = NextUtc(c, second)
    BY <1>1 DEF next_run
  <2>2. PICK m \in Int : next = m * SECS /\ m * SECS > second /\ fields_match(c, m)
    BY <2>1, UtcAnswer
  <2>3. next \div SECS = m
    BY <2>2, Units, DivOfProduct
  <2> QED
    BY <1>1, <2>2, <2>3
<1>2. CASE zone # NoZone
  <2>1. next = NextIn(c, zone, second) /\ zone \in [at : Int, before : Int, after : Int]
    BY <1>2, ScheduleAssumption DEF next_run
  <2>2. PICK m \in Int :
          next = m * SECS /\ m * SECS > second /\ fields_match(c, m + Offset(zone, m))
    BY <2>1, ZonedAnswer
  <2>3. next \div SECS = m
    BY <2>2, Units, DivOfProduct
  <2> QED
    BY <1>2, <2>2, <2>3
<1> QED
  BY <1>1, <1>2

\* Whatever the fields, the calendar and the zone's change of offset, next_run
\* answers at every second with a later instant that matches on the command's
\* own clock (next_cron_match_in).
THEOREM NextRunIsAhead ==
  SchedSpec => NextRunAhead
<1>1. SchedInit => SchedInv
  BY DEF SchedInit, SchedInv, SchedType, NoLeakedMark, Tick, TickIdle
<1>2. SchedInv /\ [SchedNext]_schedVars => SchedInv'
  BY SchedStep
<1>3. SchedInv => (second' # second => \A c \in DOMAIN Commands : RunsAhead(c))
  BY AnswerAhead DEF SchedInv, SchedType
<1> QED
  BY <1>1, <1>2, <1>3, PTL DEF SchedSpec, NextRunAhead

\* Without a zone the answer is the first matching minute after the instant
\* asked about: next_run passes over no run (next_cron_match_in, the scan of
\* UTC minutes).
THEOREM NextUtcIsEarliest ==
  ASSUME NEW c \in DOMAIN Commands, Commands[c].zone = NoZone,
         NEW from \in Nat, next_run(c, from) # Never,
         NEW n \in Int, n * SECS > from, fields_match(c, n)
  PROVE  next_run(c, from) <= n * SECS
<1>1. next_run(c, from) = NextUtc(c, from)
  BY DEF next_run
<1>2. PICK m \in Int : NextUtc(c, from) = m * SECS /\ m <= n
  BY <1>1, UtcAnswer
<1> QED
  BY <1>1, <1>2, Units, ProductOrder

-----------------------------------------------------------------------------
(* The cache repository's flush. *)

\* Entries carry the number of a write that has happened.
CacheType ==
  /\ writes \in Nat /\ tick \in Nat
  /\ DOMAIN entries = CKey /\ DOMAIN caller = Caller
  /\ \A k \in CKey : entries[k] # Miss =>
        entries[k] \in [value : 0 .. writes, expires_at : Nat]

\* What a caller in the middle of an operation may rely on, when st is stored and
\* w writes have happened: whatever is left of what it found is still to be
\* scanned or on the page a flush is about to unlink.
FlushOK(q, st, w) ==
  /\ q.pc = "produce" => q.key \in CKey /\ q.ttl \in Ttls
  /\ q.pc \in {"scan", "unlink", "last", "flushed"} =>
        \A s \in q.before : s[2] \in 0 .. w
  /\ q.pc = "scan" => q.before \cap st \subseteq q.unscanned
  /\ q.pc = "unlink" => \A s \in q.before \cap st : s \in q.unscanned \/ s[1] \in q.page
  /\ q.pc = "last" => \A s \in q.before \cap st : s[1] \in q.page
  /\ q.pc = "flushed" => q.before \cap st = {}

CacheInv ==
  /\ CacheType
  /\ \A c \in Caller : FlushOK(caller[c], Stored, writes)

\* Deleting what is stored, and storing what no flush has seen, is harmless.
LEMMA FlushOKStays ==
  ASSUME NEW q, NEW st, NEW st2, NEW w \in Nat, NEW w2 \in Nat, w <= w2,
         \A s \in st2 : s \in st \/ s[2] > w,
         FlushOK(q, st, w)
  PROVE  FlushOK(q, st2, w2)
<1>1. q.pc \in {"scan", "unlink", "last", "flushed"} => q.before \cap st2 \subseteq q.before \cap st
  BY DEF FlushOK
<1>2. q.pc \in {"scan", "unlink", "last", "flushed"} => \A s \in q.before : s[2] \in 0 .. w2
  BY DEF FlushOK
<1> QED
  BY <1>1, <1>2 DEF FlushOK

LEMMA StoredPast ==
  ASSUME CacheInv
  PROVE  \A s \in Stored : s[2] \in 0 .. writes
BY DEF CacheInv, CacheType, Stored

\* No caller moves.
LEMMA CallersStay ==
  ASSUME CacheInv, CacheType', UNCHANGED caller, writes <= writes',
         \A s \in Stored' : s \in Stored \/ s[2] > writes
  PROVE  CacheInv'
<1>1. writes \in Nat /\ writes' \in Nat
  BY DEF CacheInv, CacheType
<1>2. ASSUME NEW d \in Caller
      PROVE  FlushOK(caller[d], Stored', writes')
  <2>1. FlushOK(caller[d], Stored, writes)
    BY DEF CacheInv
  <2> QED
    BY <1>1, <2>1, FlushOKStays
<1> QED
  BY <1>2 DEF CacheInv

\* One caller moves.
LEMMA CallerMoves ==
  ASSUME CacheInv, CacheType', NEW c \in Caller, NEW to,
         caller' = [caller EXCEPT ![c] = to], writes <= writes',
         \A s \in Stored' : s \in Stored \/ s[2] > writes,
         FlushOK(to, Stored', writes')
  PROVE  CacheInv'
<1>1. writes \in Nat /\ writes' \in Nat
  BY DEF CacheInv, CacheType
<1>2. caller'[c] = to /\ \A d \in Caller : d # c => caller'[d] = caller[d]
  BY DEF CacheInv, CacheType
<1>3. ASSUME NEW d \in Caller, d # c
      PROVE  FlushOK(caller[d], Stored', writes')
  <2>1. FlushOK(caller[d], Stored, writes)
    BY DEF CacheInv
  <2> QED
    BY <1>1, <2>1, FlushOKStays
<1>4. \A d \in Caller : FlushOK(caller'[d], Stored', writes')
  BY <1>2, <1>3
<1> QED
  BY <1>4 DEF CacheInv

\* A write.
LEMMA WriteStores ==
  ASSUME CacheInv, NEW k \in CKey, NEW e \in Nat, Write(k, e), UNCHANGED tick,
         DOMAIN caller' = Caller
  PROVE  /\ CacheType' /\ writes <= writes'
         /\ \A s \in Stored' : s \in Stored \/ s[2] > writes
<1>1. /\ entries'[k] = [value |-> writes + 1, expires_at |-> e]
      /\ \A j \in CKey : j # k => entries'[j] = entries[j]
      /\ DOMAIN entries' = CKey /\ writes' = writes + 1 /\ writes \in Nat
  BY DEF Write, CacheInv, CacheType
<1>2. CacheType'
  BY <1>1 DEF CacheInv, CacheType
<1>3. ASSUME NEW s \in Stored'
      PROVE  s \in Stored \/ s[2] > writes
  <2>1. PICK j \in CKey : entries'[j] # Miss /\ s = <<j, entries'[j].value>>
    BY DEF Stored
  <2> QED
    BY <1>1, <2>1 DEF Stored
<1> QED
  BY <1>1, <1>2, <1>3

\* A deletion of any set of keys.
LEMMA DeletionStores ==
  ASSUME CacheInv, NEW gone,
         DOMAIN entries' = CKey,
         \A k \in CKey : entries'[k] = IF k \in gone THEN Miss ELSE entries[k],
         UNCHANGED <<tick, writes>>, DOMAIN caller' = Caller
  PROVE  /\ CacheType' /\ writes <= writes'
         /\ \A s \in Stored' : s \in Stored /\ s[1] \notin gone
<1>1. CacheType' /\ writes <= writes'
  BY DEF CacheInv, CacheType
<1>2. ASSUME NEW s \in Stored'
      PROVE  s \in Stored /\ s[1] \notin gone
  <2>1. PICK j \in CKey : entries'[j] # Miss /\ s = <<j, entries'[j].value>>
    BY DEF Stored
  <2> QED
    BY <2>1 DEF Stored
<1> QED
  BY <1>1, <1>2

\* A caller that is not flushing is in no danger.
LEMMA NotFlushing ==
  ASSUME NEW q, NEW st, NEW w, q.pc \in {"idle", "pull"}
  PROVE  FlushOK(q, st, w)
BY DEF FlushOK

LEMMA ExpiryType ==
  ASSUME CacheInv
  PROVE  /\ \A ttl \in Ttls : Until(ttl) \in Nat
         /\ \A k \in CKey : alive(k) => entries[k].expires_at \in Nat
BY CacheAssumption DEF CacheInv, CacheType, Until, alive

\* Every step of the repository preserves the invariant.
LEMMA CacheStep ==
  ASSUME CacheInv, [CacheNext]_cacheVars
  PROVE  CacheInv'
<1>0. writes \in Nat /\ DOMAIN caller = Caller /\ DOMAIN entries = CKey
  BY DEF CacheInv, CacheType
<1>1. CASE UNCHANGED cacheVars
  <2>1. CacheType' /\ Stored' = Stored
    BY <1>1 DEF cacheVars, CacheInv, CacheType, Stored
  <2> QED
    BY <1>0, <1>1, <2>1, CallersStay DEF cacheVars
<1>2. CASE CacheTick
  <2>1. CacheType' /\ Stored' = Stored
    BY <1>2 DEF CacheTick, CacheInv, CacheType, Stored
  <2> QED
    BY <1>0, <1>2, <2>1, CallersStay DEF CacheTick
<1>3. ASSUME NEW c \in Caller, NEW k \in CKey, NEW ttl \in Ttls, Put(c, k, ttl) \/ Add(c, k, ttl)
      PROVE  CacheInv'
  <2>1. Write(k, Until(ttl)) /\ UNCHANGED <<tick, caller>> /\ Until(ttl) \in Nat
    BY <1>3, ExpiryType DEF Put, Add
  <2> QED
    BY <1>0, <2>1, WriteStores, CallersStay
<1>4. ASSUME NEW c \in Caller, NEW k \in CKey, Increment(c, k)
      PROVE  CacheInv'
  <2>1. PICK e \in Nat : Write(k, e) /\ UNCHANGED <<tick, caller>>
    BY <1>4, ExpiryType DEF Increment
  <2> QED
    BY <1>0, <2>1, WriteStores, CallersStay
<1>5. ASSUME NEW c \in Caller, NEW k \in CKey, NEW ttl \in Ttls, Touch(c, k, ttl)
      PROVE  CacheInv'
  <2>1. /\ entries[k] # Miss /\ Until(ttl) \in Nat
        /\ entries[k] \in [value : 0 .. writes, expires_at : Nat]
    BY <1>5, ExpiryType DEF Touch, alive, CacheInv, CacheType
  <2>2. /\ entries'[k] = [value |-> entries[k].value, expires_at |-> Until(ttl)]
        /\ \A j \in CKey : j # k => entries'[j] = entries[j]
        /\ DOMAIN entries' = CKey
    BY <1>0, <1>5, <2>1 DEF Touch
  <2>3. CacheType' /\ writes <= writes'
    BY <1>0, <1>5, <2>1, <2>2 DEF Touch, CacheInv, CacheType
  <2>4. ASSUME NEW s \in Stored'
        PROVE  s \in Stored
    <3>1. PICK j \in CKey : entries'[j] # Miss /\ s = <<j, entries'[j].value>>
      BY DEF Stored
    <3> QED
      BY <2>1, <2>2, <3>1 DEF Stored
  <2> QED
    BY <1>5, <2>3, <2>4, CallersStay DEF Touch
<1>6. ASSUME NEW c \in Caller, NEW k \in CKey, Forget(c, k)
      PROVE  CacheInv'
  <2>1. \A j \in CKey : entries'[j] = IF j \in {k} THEN Miss ELSE entries[j]
    BY <1>0, <1>6 DEF Forget
  <2>2. UNCHANGED <<tick, writes, caller>> /\ DOMAIN entries' = CKey /\ DOMAIN caller' = Caller
    BY <1>0, <1>6 DEF Forget
  <2> QED
    BY <2>1, <2>2, DeletionStores, CallersStay
<1>7. ASSUME NEW c \in Caller, NEW to,
             to.pc \in {"idle", "pull"},
             CGo(c, to), UNCHANGED <<tick, entries, writes>>
      PROVE  CacheInv'
  <2>1. CacheType' /\ Stored' = Stored /\ writes <= writes'
    BY <1>7 DEF CGo, CacheInv, CacheType, Stored
  <2>2. FlushOK(to, Stored', writes')
    BY <1>7, NotFlushing
  <2>3. \A s \in Stored' : s \in Stored
    BY <2>1
  <2> QED
    BY <1>7, <2>1, <2>2, <2>3, CallerMoves DEF CGo
<1>8. ASSUME NEW c \in Caller, NEW k \in CKey, NEW ttl \in Ttls, RememberMiss(c, k, ttl)
      PROVE  CacheInv'
  <2> DEFINE to == [pc |-> "produce", key |-> k, ttl |-> ttl]
  <2>1. FlushOK(to, Stored', writes')
    BY DEF FlushOK
  <2>2. caller' = [caller EXCEPT ![c] = to] /\ UNCHANGED <<tick, entries, writes>>
    BY <1>8 DEF RememberMiss, CGo
  <2> HIDE DEF to
  <2>3. CacheType' /\ Stored' = Stored /\ writes <= writes'
    BY <2>2 DEF CacheInv, CacheType, Stored
  <2> QED
    BY <2>1, <2>2, <2>3, CallerMoves
<1>9. ASSUME NEW c \in Caller, NEW k \in CKey, PullGet(c, k)
      PROVE  CacheInv'
  <2> DEFINE to == [pc |-> "pull", key |-> k]
  <2>1. to.pc \in {"idle", "pull"} /\ CGo(c, to)
    BY <1>9 DEF PullGet
  <2> HIDE DEF to
  <2> QED
    BY <1>7, <1>9, <2>1 DEF PullGet
<1>10. CIdle.pc \in {"idle", "pull"}
  BY DEF CIdle
<1>10a. FlushOK(CIdle, Stored', writes')
  BY <1>10, NotFlushing
<1>11. ASSUME NEW c \in Caller, FlushReturn(c)
       PROVE  CacheInv'
  BY <1>7, <1>10, <1>11 DEF FlushReturn
<1>12. ASSUME NEW c \in Caller, RememberPut(c)
       PROVE  CacheInv'
  <2>1. caller[c].key \in CKey /\ Until(caller[c].ttl) \in Nat
    BY <1>12, ExpiryType DEF RememberPut, CAt, CacheInv, FlushOK
  <2>2. CASE Write(caller[c].key, Until(caller[c].ttl))
    <3>1. caller' = [caller EXCEPT ![c] = CIdle] /\ DOMAIN caller' = Caller /\ UNCHANGED tick
      BY <1>0, <1>12 DEF RememberPut, CGo
    <3>2. /\ CacheType' /\ writes <= writes'
          /\ \A s \in Stored' : s \in Stored \/ s[2] > writes
      BY <2>1, <2>2, <3>1, WriteStores
    <3> QED
      BY <1>10a, <3>1, <3>2, CallerMoves
  <2>3. CASE UNCHANGED <<entries, writes>>
    BY <1>7, <1>10, <1>12, <2>3 DEF RememberPut
  <2> QED
    BY <1>12, <2>2, <2>3 DEF RememberPut
<1>13. ASSUME NEW c \in Caller, PullForget(c)
       PROVE  CacheInv'
  <2>1. CASE UNCHANGED entries
    BY <1>7, <1>10, <1>13, <2>1 DEF PullForget
  <2>2. CASE entries' = [entries EXCEPT ![caller[c].key] = Miss]
    <3>1. \A j \in CKey : entries'[j] = IF j \in {caller[c].key} THEN Miss ELSE entries[j]
      BY <1>0, <2>2
    <3>2. /\ UNCHANGED <<tick, writes>> /\ DOMAIN entries' = CKey /\ DOMAIN caller' = Caller
          /\ caller' = [caller EXCEPT ![c] = CIdle]
      BY <1>0, <1>13, <2>2 DEF PullForget, CGo
    <3>3. /\ CacheType' /\ writes <= writes'
          /\ \A s \in Stored' : s \in Stored
      BY <3>1, <3>2, DeletionStores
    <3> QED
      BY <1>10a, <3>2, <3>3, CallerMoves
  <2> QED
    BY <1>13, <2>1, <2>2 DEF PullForget
<1>14. ASSUME NEW c \in Caller, FlushMemory(c)
       PROVE  CacheInv'
  <2> DEFINE to == [pc |-> "flushed", before |-> Stored]
  <2>1. \A j \in CKey : entries'[j] = IF j \in CKey THEN Miss ELSE entries[j]
    BY <1>14 DEF FlushMemory
  <2>2. /\ UNCHANGED <<tick, writes>> /\ DOMAIN entries' = CKey /\ DOMAIN caller' = Caller
        /\ caller' = [caller EXCEPT ![c] = to]
    BY <1>0, <1>14 DEF FlushMemory, CGo
  <2>3. /\ CacheType' /\ writes <= writes'
        /\ \A s \in Stored' : s \in Stored /\ s[1] \notin CKey
    <3> HIDE DEF to
    <3> QED
      BY <2>1, <2>2, DeletionStores
  <2>4. Stored' = {}
    BY <2>3 DEF Stored
  <2>5. FlushOK(to, Stored', writes')
    BY <2>2, <2>4, StoredPast DEF FlushOK
  <2> HIDE DEF to
  <2> QED
    BY <2>2, <2>3, <2>5, CallerMoves
<1>15. ASSUME NEW c \in Caller, FlushScan(c)
       PROVE  CacheInv'
  <2> DEFINE to == [pc |-> "scan", before |-> Stored, unscanned |-> Stored]
  <2>1. UNCHANGED <<tick, entries, writes>> /\ caller' = [caller EXCEPT ![c] = to]
    BY <1>15 DEF FlushScan, CGo
  <2>2. FlushOK(to, Stored, writes)
    BY StoredPast DEF FlushOK
  <2> HIDE DEF to
  <2>3. CacheType' /\ Stored' = Stored /\ writes <= writes'
    BY <2>1 DEF CacheInv, CacheType, Stored
  <2> QED
    BY <2>1, <2>2, <2>3, CallerMoves
<1>16. ASSUME NEW c \in Caller, NEW page \in SUBSET CKey, NEW cursor \in {0, 1},
              FlushPage(c, page, cursor)
       PROVE  CacheInv'
  <2> DEFINE q    == caller[c]
             left == {s \in q.unscanned \cap Stored : s[1] \notin page}
             to   == [pc |-> IF scan_over(page, cursor) THEN "last" ELSE "unlink",
                      before |-> q.before, unscanned |-> left, page |-> page]
  <2>1. UNCHANGED <<tick, entries, writes>> /\ caller' = [caller EXCEPT ![c] = to]
    BY <1>16 DEF FlushPage, CGo
  <2>2. q.pc = "scan" /\ (cursor = 0 => left = {})
    BY <1>16 DEF FlushPage, CAt
  <2>3. FlushOK(q, Stored, writes)
    BY DEF CacheInv
  <2>4. to.pc = (IF cursor = 0 THEN "last" ELSE "unlink") /\ to.before = q.before
        /\ to.unscanned = left /\ to.page = page
    BY DEF scan_over
  <2> HIDE DEF q
  <2>5. \A s \in q.before \cap Stored : s \in left \/ s[1] \in page
    BY <2>2, <2>3 DEF FlushOK
  <2>6. \A s \in q.before : s[2] \in 0 .. writes
    BY <2>2, <2>3 DEF FlushOK
  <2> HIDE DEF to, left
  <2>7. FlushOK(to, Stored, writes)
    BY <2>2, <2>4, <2>5, <2>6 DEF FlushOK
  <2>8. CacheType' /\ Stored' = Stored /\ writes <= writes'
    BY <2>1 DEF CacheInv, CacheType, Stored
  <2> QED
    BY <2>1, <2>7, <2>8, CallerMoves
<1>17. ASSUME NEW c \in Caller, FlushUnlink(c)
       PROVE  CacheInv'
  <2> DEFINE q  == caller[c]
             to == IF q.pc = "last" THEN [pc |-> "flushed", before |-> q.before]
                   ELSE [pc |-> "scan", before |-> q.before, unscanned |-> q.unscanned]
  <2>1. \A j \in CKey : entries'[j] = IF j \in q.page THEN Miss ELSE entries[j]
    BY <1>17 DEF FlushUnlink
  <2>2. /\ UNCHANGED <<tick, writes>> /\ DOMAIN entries' = CKey /\ DOMAIN caller' = Caller
        /\ caller' = [caller EXCEPT ![c] = to]
    BY <1>0, <1>17 DEF FlushUnlink, CGo, CAt
  <2>3. FlushOK(q, Stored, writes) /\ q.pc \in {"unlink", "last"}
    BY <1>17 DEF CacheInv, FlushUnlink, CAt
  <2>4. /\ CacheType' /\ writes <= writes'
        /\ \A s \in Stored' : s \in Stored /\ s[1] \notin q.page
    <3> HIDE DEF to, q
    <3> QED
      BY <2>1, <2>2, DeletionStores
  <2> HIDE DEF q
  <2>5. FlushOK(to, Stored', writes')
    <3>1. CASE q.pc = "last"
      <4>1. q.before \cap Stored' = {}
        BY <2>3, <2>4, <3>1 DEF FlushOK
      <4>2. to.pc = "flushed" /\ to.before = q.before
        BY <3>1
      <4> HIDE DEF to
      <4> QED
        BY <2>2, <2>3, <3>1, <4>1, <4>2 DEF FlushOK
    <3>2. CASE q.pc = "unlink"
      <4>1. q.before \cap Stored' \subseteq q.unscanned
        BY <2>3, <2>4, <3>2 DEF FlushOK
      <4>2. to.pc = "scan" /\ to.before = q.before /\ to.unscanned = q.unscanned
        BY <3>2
      <4> HIDE DEF to
      <4> QED
        BY <2>2, <2>3, <3>2, <4>1, <4>2 DEF FlushOK
    <3> QED
      BY <2>3, <3>1, <3>2
  <2> HIDE DEF to
  <2> QED
    BY <2>2, <2>4, <2>5, CallerMoves
<1> QED
  BY <1>1, <1>2, <1>3, <1>4, <1>5, <1>6, <1>8, <1>9, <1>11, <1>12, <1>13, <1>14, <1>15,
     <1>16, <1>17 DEF CacheNext

\* When flush answers, nothing stored when it was called is stored any more,
\* for every way Redis cuts the keys into pages and whatever other callers
\* write and delete meanwhile (redis.rs and memory.rs, flush).
THEOREM FlushRemovesEverything ==
  CacheSpec => []FlushRemovesAll
<1>1. CacheInit => CacheInv
  BY DEF CacheInit, CacheInv, CacheType, FlushOK, CIdle
<1>2. CacheInv /\ [CacheNext]_cacheVars => CacheInv'
  BY CacheStep
<1>3. CacheInv => FlushRemovesAll
  BY DEF CacheInv, FlushRemovesAll, FlushOK, CAt
<1> QED
  BY <1>1, <1>2, <1>3, PTL DEF CacheSpec

-----------------------------------------------------------------------------
(* The query cache of the models. *)

\* Operation m has changed t and has its bump of t to come.
Bumps(m, t) ==
  \/ t = "children" /\ m.pc = "childbump"
  \/ /\ m.pc \in {"record", "children", "chunk", "childbump", "childrecord", "bump"}
     /\ TableOf(m.key) = t

WriterOK(m) ==
  /\ "pc" \in DOMAIN m
  /\ m.pc # "idle" => m.key \in Key
  /\ m.pc \in {"children", "chunk", "childbump", "childrecord"} => m.key = Parent
  /\ m.pc = "chunk" => m.ids \subseteq Child

\* Query q carries a generation the table g has or had.
ReaderOK(q, g) ==
  q.pc \in {"query", "put"} =>
    /\ q.table \in Table
    /\ q.generation \in Nat
    /\ q.generation <= g[q.table]

ModelType ==
  /\ generations \in [Table -> Nat]
  /\ DOMAIN cached = Table /\ DOMAIN records = Key
  /\ DOMAIN writer = Writer /\ DOMAIN reader = Reader
  /\ \A w \in Writer : WriterOK(writer[w])
  /\ \A r \in Reader : ReaderOK(reader[r], generations)

Clean(t) == ~ Bumping(t) /\ t \notin unbumped

\* Rows read and not yet stored are the table's, when they would be stored
\* under its generation and no write is waiting for its bump.
ReadsCurrent ==
  \A r \in Reader : \A t \in Table :
     reader[r].pc = "put" /\ reader[r].table = t /\ reader[r].generation = generations[t] /\ Clean(t)
       => reader[r].records = Content(t)

ModelInv == ModelType /\ ReadsCurrent /\ CachedRowsCurrent

LEMMA BumpingMeans ==
  \A t : Bumping(t) <=> \E w \in Writer : Bumps(writer[w], t)
BY DEF Bumping, Bumps, WAt

\* Where an operation moves from w, a table that is clean after it was clean
\* before, unless the operation had it dirty and no longer has.
LEMMA CleanBefore ==
  ASSUME ModelType, NEW w \in Writer, NEW to, NEW t \in Table,
         writer' = [writer EXCEPT ![w] = to],
         Bumps(writer[w], t) => Bumps(to, t) \/ t \in unbumped',
         t \in unbumped => t \in unbumped',
         Clean(t)'
  PROVE  Clean(t) /\ ~ Bumps(to, t)
<1>1. writer'[w] = to /\ \A v \in Writer : v # w => writer'[v] = writer[v]
  BY DEF ModelType
<1>2. ~ (\E v \in Writer : Bumps(writer'[v], t)) /\ t \notin unbumped'
  BY BumpingMeans DEF Clean, Bumping, Bumps, WAt
<1>3. ~ Bumps(to, t) /\ ~ Bumps(writer[w], t)
  BY <1>1, <1>2
<1>4. ~ (\E v \in Writer : Bumps(writer[v], t))
  BY <1>1, <1>2, <1>3
<1> QED
  BY <1>2, <1>3, <1>4, BumpingMeans DEF Clean

\* The rows of a table no statement addressed are what they were.
LEMMA ContentStays ==
  ASSUME NEW t \in Table, \A k \in Key : TableOf(k) = t => records'[k] = records[k]
  PROVE  Content(t)' = Content(t)
BY DEF Content

\* A step that leaves the queries alone and, of each table, either bumps it
\* or leaves its rows and its generation, unless it is dirty after the step.
LEMMA TablesMove ==
  ASSUME ModelInv, UNCHANGED reader,
         generations' \in [Table -> Nat],
         DOMAIN cached' = Table, DOMAIN records' = Key, DOMAIN writer' = Writer,
         \A w \in Writer : WriterOK(writer'[w]),
         \A t \in Table :
            \/ /\ generations'[t] = generations[t]
               /\ cached'[t] \in {cached[t], Gone}
               /\ Clean(t)' => Clean(t) /\ Content(t)' = Content(t)
            \/ generations'[t] = generations[t] + 1 /\ cached'[t] = Gone
  PROVE  ModelInv'
<1>1. \A r \in Reader : ReaderOK(reader[r], generations')
  <2> SUFFICES ASSUME NEW r \in Reader PROVE ReaderOK(reader[r], generations')
    OBVIOUS
  <2>1. ReaderOK(reader[r], generations)
    BY DEF ModelInv, ModelType
  <2>2. \A t \in Table : generations[t] <= generations'[t] /\ generations[t] \in Nat
                         /\ generations'[t] \in Nat
    BY DEF ModelInv, ModelType
  <2> QED
    BY <2>1, <2>2 DEF ReaderOK
<1>2. ModelType'
  BY <1>1 DEF ModelInv, ModelType
<1>3. ReadsCurrent'
  <2> SUFFICES ASSUME NEW r \in Reader, NEW t \in Table, reader[r].pc = "put",
                      reader[r].table = t, reader[r].generation = generations'[t], Clean(t)'
               PROVE  reader[r].records = Content(t)'
    BY DEF ReadsCurrent
  <2>1. reader[r].generation <= generations[t] /\ generations[t] \in Nat
    BY DEF ModelInv, ModelType, ReaderOK
  <2>2. generations'[t] = generations[t] /\ Clean(t) /\ Content(t)' = Content(t)
    BY <2>1
  <2> QED
    BY <2>2 DEF ModelInv, ReadsCurrent
<1>4. CachedRowsCurrent'
  <2> SUFFICES ASSUME NEW t \in Table, cached'[t] # Gone, Clean(t)'
               PROVE  cached'[t] = Content(t)'
    BY DEF CachedRowsCurrent, Clean
  <2>1. cached'[t] = cached[t] /\ Clean(t) /\ Content(t)' = Content(t)
    OBVIOUS
  <2> QED
    BY <2>1 DEF ModelInv, CachedRowsCurrent, Clean
<1> QED
  BY <1>2, <1>3, <1>4 DEF ModelInv

\* An operation moves; its writes, if any, are to tables it has dirty then.
LEMMA OperationMoves ==
  ASSUME ModelInv, NEW w \in Writer, NEW to, WriterOK(to),
         writer' = [writer EXCEPT ![w] = to],
         UNCHANGED <<generations, cached, reader>>,
         DOMAIN records' = Key,
         unbumped \subseteq unbumped',
         \A t \in Table :
            /\ Bumps(writer[w], t) => Bumps(to, t) \/ t \in unbumped'
            /\ Bumps(to, t) \/ \A k \in Key : TableOf(k) = t => records'[k] = records[k]
  PROVE  ModelInv'
<1>1. /\ writer'[w] = to /\ \A v \in Writer : v # w => writer'[v] = writer[v]
      /\ DOMAIN writer' = Writer
  BY DEF ModelInv, ModelType
<1>2. \A v \in Writer : WriterOK(writer'[v])
  BY <1>1 DEF ModelInv, ModelType
<1>3. ASSUME NEW t \in Table, Clean(t)'
      PROVE  Clean(t) /\ Content(t)' = Content(t)
  <2>1. Clean(t) /\ ~ Bumps(to, t)
    BY <1>3, CleanBefore DEF ModelInv
  <2> QED
    BY <2>1, ContentStays
<1>4. generations' \in [Table -> Nat] /\ DOMAIN cached' = Table
  BY DEF ModelInv, ModelType
<1> QED
  BY <1>1, <1>2, <1>3, <1>4, TablesMove

\* An operation moves and bumps a table.
LEMMA OperationBumps ==
  ASSUME ModelInv, NEW w \in Writer, NEW to, WriterOK(to), NEW b \in Table, bump(b),
         writer' = [writer EXCEPT ![w] = to],
         UNCHANGED <<records, reader>>,
         \A t \in Table \ {b} : Bumps(writer[w], t) => Bumps(to, t)
  PROVE  ModelInv'
<1>1. /\ writer'[w] = to /\ \A v \in Writer : v # w => writer'[v] = writer[v]
      /\ DOMAIN writer' = Writer
  BY DEF ModelInv, ModelType
<1>2. \A v \in Writer : WriterOK(writer'[v])
  BY <1>1 DEF ModelInv, ModelType
<1>3. ASSUME NEW t \in Table, t # b
      PROVE  /\ generations'[t] = generations[t] /\ cached'[t] = cached[t]
             /\ Clean(t)' => Clean(t) /\ Content(t)' = Content(t)
  <2>1. generations'[t] = generations[t] /\ cached'[t] = cached[t]
        /\ (t \in unbumped => t \in unbumped')
    BY <1>3 DEF bump, ModelInv, ModelType
  <2>2. Clean(t)' => Clean(t)
    BY <1>3, <2>1, CleanBefore DEF ModelInv
  <2>3. Content(t)' = Content(t)
    BY ContentStays
  <2> QED
    BY <2>1, <2>2, <2>3
<1>4. /\ generations' \in [Table -> Nat] /\ DOMAIN cached' = Table /\ DOMAIN records' = Key
      /\ generations'[b] = generations[b] + 1 /\ cached'[b] = Gone
  BY DEF bump, ModelInv, ModelType
<1> QED
  BY <1>1, <1>2, <1>3, <1>4, TablesMove

\* A query moves, and nothing else.
LEMMA QueryMoves ==
  ASSUME ModelInv, NEW r \in Reader, NEW to,
         reader' = [reader EXCEPT ![r] = to],
         UNCHANGED <<records, generations, writer, unbumped>>,
         DOMAIN cached' = Table,
         ReaderOK(to, generations),
         \A t \in Table :
            /\ to.pc = "put" /\ to.table = t /\ to.generation = generations[t] /\ Clean(t)
                 => to.records = Content(t)
            /\ cached'[t] # Gone /\ Clean(t) => cached'[t] = Content(t)
  PROVE  ModelInv'
<1>1. /\ reader'[r] = to /\ \A v \in Reader : v # r => reader'[v] = reader[v]
      /\ DOMAIN reader' = Reader
  BY DEF ModelInv, ModelType
<1>2. \A t \in Table : Clean(t)' = Clean(t) /\ Content(t)' = Content(t)
  BY DEF Clean, Content, Bumping, WAt
<1>3. \A v \in Reader : ReaderOK(reader'[v], generations)
  BY <1>1 DEF ModelInv, ModelType
<1>4. ModelType'
  BY <1>1, <1>3 DEF ModelInv, ModelType
<1>5. ReadsCurrent'
  <2> SUFFICES ASSUME NEW v \in Reader, NEW t \in Table, reader'[v].pc = "put",
                      reader'[v].table = t, reader'[v].generation = generations[t], Clean(t)
               PROVE  reader'[v].records = Content(t)
    BY <1>2 DEF ReadsCurrent
  <2> QED
    BY <1>1 DEF ModelInv, ReadsCurrent
<1>6. CachedRowsCurrent'
  BY <1>2 DEF CachedRowsCurrent, Clean
<1> QED
  BY <1>4, <1>5, <1>6 DEF ModelInv

\* An operation that fails past its statement leaves its table unbumped.
LEMMA FailureMoves ==
  ASSUME ModelInv, NEW w \in Writer, Fails(w), writer[w].pc # "childbump"
  PROVE  ModelInv'
<1>1. WriterOK(OpIdle) /\ \A t \in Table : ~ Bumps(OpIdle, t)
  BY DEF OpIdle, WriterOK, Bumps
<1>2. \A t \in Table : Bumps(writer[w], t) => t \in unbumped'
  BY DEF Fails, Bumps
<1>3. DOMAIN records' = Key
  BY DEF Fails, ModelInv, ModelType
<1>4. writer' = [writer EXCEPT ![w] = OpIdle] /\ unbumped \subseteq unbumped'
      /\ UNCHANGED <<records, generations, cached, reader>>
  BY DEF Fails, WGo
<1> HIDE DEF OpIdle
<1> QED
  BY <1>1, <1>2, <1>3, <1>4, OperationMoves

\* The move of an operation that only changes its place.
LEMMA PlaceMoves ==
  ASSUME NEW m, "pc" \in DOMAIN m, NEW pc
  PROVE  /\ [m EXCEPT !.pc = pc].pc = pc
         /\ "pc" \in DOMAIN [m EXCEPT !.pc = pc]
         /\ [m EXCEPT !.pc = pc].key = m.key
         /\ [m EXCEPT !.pc = pc].ids = m.ids
OBVIOUS

\* Every step of the models preserves the invariant.
LEMMA ModelStep ==
  ASSUME ModelInv, [ModelNext]_modelVars
  PROVE  ModelInv'
<1>0. /\ DOMAIN records = Key /\ DOMAIN writer = Writer
      /\ \A w \in Writer : WriterOK(writer[w]) /\ "pc" \in DOMAIN writer[w]
  BY DEF ModelInv, ModelType, WriterOK
<1>1. CASE UNCHANGED modelVars
  <2>1. \A t \in Table : Clean(t)' = Clean(t) /\ Content(t)' = Content(t)
    BY <1>1 DEF modelVars, Clean, Bumping, WAt, Content
  <2>2. /\ UNCHANGED <<reader, generations, cached, writer>>
        /\ generations \in [Table -> Nat] /\ DOMAIN cached = Table
        /\ DOMAIN records' = Key
    BY <1>0, <1>1 DEF modelVars, ModelInv, ModelType
  <2> QED
    BY <1>0, <2>1, <2>2, TablesMove
<1>2. ASSUME NEW w \in Writer, NEW o \in Operation, NEW k \in Key, NEW d \in Data, Begin(w, o, k, d)
      PROVE  ModelInv'
  <2> DEFINE to == [pc     |-> "statement", op |-> o, key |-> k,
                    data   |-> IF o \in Deletes THEN Gone ELSE d,
                    parent |-> IF o \in Deletes /\ k = Parent THEN records[k] ELSE Gone]
  <2>1. WriterOK(to) /\ \A t \in Table : ~ Bumps(to, t)
    BY DEF WriterOK, Bumps
  <2>2. \A t \in Table : ~ Bumps(writer[w], t)
    BY <1>2 DEF Begin, WAt, Bumps
  <2>3. writer' = [writer EXCEPT ![w] = to]
    BY <1>2 DEF Begin, WGo
  <2> HIDE DEF to
  <2> QED
    BY <1>0, <1>2, <2>1, <2>2, <2>3, OperationMoves DEF Begin
<1>3. ASSUME NEW t \in Table, flush_cache(t)
      PROVE  ModelInv'
  <2>1. /\ generations' \in [Table -> Nat] /\ DOMAIN cached' = Table
        /\ generations'[t] = generations[t] + 1 /\ cached'[t] = Gone
        /\ \A u \in Table : u # t => /\ generations'[u] = generations[u]
                                     /\ cached'[u] = cached[u]
                                     /\ u \in unbumped => u \in unbumped'
    BY <1>3 DEF flush_cache, bump, ModelInv, ModelType
  <2>2. \A u \in Table : Content(u)' = Content(u) /\ Bumping(u)' = Bumping(u)
    BY <1>3 DEF flush_cache, Content, Bumping, WAt
  <2>3. \A u \in Table : u # t => (Clean(u)' => Clean(u) /\ Content(u)' = Content(u))
    BY <2>1, <2>2 DEF Clean
  <2>4. \A v \in Writer : WriterOK(writer'[v])
    BY <1>0, <1>3 DEF flush_cache
  <2> QED
    BY <1>0, <1>3, <2>1, <2>3, <2>4, TablesMove DEF flush_cache
<1>4. ASSUME NEW w \in Writer, Statement(w)
      PROVE  ModelInv'
  <2> DEFINE k == writer[w].key
  <2>1. \A t \in Table : ~ Bumps(writer[w], t)
    BY <1>4 DEF Statement, WAt, Bumps
  <2>2. k \in Key
    BY <1>0, <1>4 DEF Statement, WAt, WriterOK
  <2>3. CASE /\ records' = [records EXCEPT ![k] =
                              Changed(writer[w].op, @, writer[w].data, instant')]
             /\ WGo(w, [writer[w] EXCEPT !.pc = "record"])
    <3> DEFINE to == [writer[w] EXCEPT !.pc = "record"]
    <3>1. to.pc = "record" /\ "pc" \in DOMAIN to /\ to.key = k
      BY <1>0, PlaceMoves
    <3>2. writer' = [writer EXCEPT ![w] = to]
      BY <2>3 DEF WGo
    <3> HIDE DEF to
    <3>3. WriterOK(to) /\ Bumps(to, TableOf(k))
      BY <2>2, <3>1 DEF WriterOK, Bumps
    <3>4. DOMAIN records' = Key /\ \A j \in Key : j # k => records'[j] = records[j]
      BY <1>0, <2>3
    <3>5. \A t \in Table : Bumps(to, t) \/ \A j \in Key : TableOf(j) = t => records'[j] = records[j]
      BY <3>3, <3>4
    <3>6. UNCHANGED <<generations, cached, reader>> /\ unbumped \subseteq unbumped'
      BY <1>4 DEF Statement
    <3> QED
      BY <2>1, <3>2, <3>3, <3>4, <3>5, <3>6, OperationMoves
  <2>4. CASE WGo(w, [writer[w] EXCEPT !.pc = "bump"]) /\ UNCHANGED records
    <3> DEFINE to == [writer[w] EXCEPT !.pc = "bump"]
    <3>1. to.pc = "bump" /\ "pc" \in DOMAIN to /\ to.key = k
      BY <1>0, PlaceMoves
    <3>2. writer' = [writer EXCEPT ![w] = to]
      BY <2>4 DEF WGo
    <3> HIDE DEF to
    <3>3. WriterOK(to)
      BY <2>2, <3>1 DEF WriterOK
    <3>4. UNCHANGED <<generations, cached, reader>> /\ unbumped \subseteq unbumped'
      BY <1>4 DEF Statement
    <3> QED
      BY <1>0, <2>1, <2>4, <3>2, <3>3, <3>4, OperationMoves
  <2>5. CASE WGo(w, OpIdle) /\ UNCHANGED records
    <3>1. WriterOK(OpIdle) /\ writer' = [writer EXCEPT ![w] = OpIdle]
      BY <2>5 DEF OpIdle, WriterOK, WGo
    <3>2. UNCHANGED <<generations, cached, reader>> /\ unbumped \subseteq unbumped'
      BY <1>4 DEF Statement
    <3> QED
      BY <1>0, <2>1, <2>5, <3>1, <3>2, OperationMoves
  <2> QED
    BY <1>4, <2>3, <2>4, <2>5 DEF Statement
<1>5. ASSUME NEW w \in Writer, NEW pc, WGo(w, [writer[w] EXCEPT !.pc = pc]),
             WriterOK([writer[w] EXCEPT !.pc = pc]),
             writer[w].pc # "childbump",
             pc \in {"record", "children", "chunk", "childrecord", "bump"},
             UNCHANGED <<records, generations, cached, reader, unbumped>>
      PROVE  ModelInv'
  <2> DEFINE to == [writer[w] EXCEPT !.pc = pc]
  <2>1. to.pc = pc /\ to.key = writer[w].key /\ writer' = [writer EXCEPT ![w] = to] /\ WriterOK(to)
    BY <1>0, <1>5, PlaceMoves DEF WGo
  <2> HIDE DEF to
  <2>2. \A t \in Table : Bumps(writer[w], t) => Bumps(to, t)
    BY <1>5, <2>1 DEF Bumps
  <2>3. unbumped \subseteq unbumped' /\ DOMAIN records' = Key
    BY <1>0, <1>5
  <2> QED
    BY <1>5, <2>1, <2>2, <2>3, OperationMoves
<1>6. ASSUME NEW w \in Writer, Recorded(w)
      PROVE  ModelInv'
  <2>1. CASE Fails(w)
    BY <1>6, <2>1, FailureMoves DEF Recorded, WAt
  <2>2. CASE /\ WGo(w, [writer[w] EXCEPT !.pc = IF Cascades(writer[w]) THEN "children" ELSE "bump"])
             /\ UNCHANGED <<instant, records, generations, cached, reader, unbumped>>
    <3> DEFINE pc == IF Cascades(writer[w]) THEN "children" ELSE "bump"
               to == [writer[w] EXCEPT !.pc = pc]
    <3>1. to.pc = pc /\ to.key = writer[w].key /\ "pc" \in DOMAIN to
      BY <1>0, PlaceMoves
    <3>2. writer[w].key \in Key /\ writer[w].pc = "record"
      BY <1>0, <1>6 DEF Recorded, WAt, WriterOK
    <3>3. (pc = "children" /\ writer[w].key = Parent) \/ pc = "bump"
      BY DEF Cascades
    <3> HIDE DEF pc
    <3>4. WriterOK(to)
      <4> HIDE DEF to
      <4> QED
        BY <3>1, <3>2, <3>3 DEF WriterOK
    <3>5. WGo(w, [writer[w] EXCEPT !.pc = pc])
      BY <2>2 DEF pc
    <3> QED
      BY <1>5, <2>2, <3>2, <3>3, <3>4, <3>5
  <2> QED
    BY <1>6, <2>1, <2>2 DEF Recorded
<1>7. ASSUME NEW w \in Writer, ChildRows(w)
      PROVE  ModelInv'
  <2>1. CASE Fails(w)
    BY <1>7, <2>1, FailureMoves DEF ChildRows, WAt
  <2>2. CASE /\ WGo(w, [pc |-> IF Affected(writer[w]) = {} THEN "bump" ELSE "chunk",
                        op |-> writer[w].op, key |-> Parent, ids |-> Affected(writer[w])])
             /\ UNCHANGED <<instant, records, generations, cached, reader, unbumped>>
    <3> DEFINE to == [pc |-> IF Affected(writer[w]) = {} THEN "bump" ELSE "chunk",
                      op |-> writer[w].op, key |-> Parent, ids |-> Affected(writer[w])]
    <3>1. to.pc \in {"bump", "chunk"} /\ to.key = Parent /\ to.ids \subseteq Child /\ "pc" \in DOMAIN to
      BY DEF Affected
    <3>2. writer' = [writer EXCEPT ![w] = to]
      BY <2>2 DEF WGo
    <3> HIDE DEF to
    <3>3. WriterOK(to)
      BY <3>1 DEF WriterOK, Key
    <3>4. writer[w].pc = "children" /\ writer[w].key = Parent
      BY <1>0, <1>7 DEF ChildRows, WAt, WriterOK
    <3>5. \A t \in Table : Bumps(writer[w], t) => Bumps(to, t)
      BY <3>1, <3>4 DEF Bumps
    <3>6. unbumped \subseteq unbumped' /\ DOMAIN records' = Key
      BY <1>0, <2>2
    <3> QED
      BY <2>2, <3>2, <3>3, <3>5, <3>6, OperationMoves
  <2> QED
    BY <1>7, <2>1, <2>2 DEF ChildRows
<1>8. ASSUME NEW w \in Writer, ChildStatement(w)
      PROVE  ModelInv'
  <2>0. writer[w].pc = "chunk" /\ writer[w].key = Parent /\ writer[w].ids \subseteq Child
    BY <1>0, <1>8 DEF ChildStatement, WAt, WriterOK
  <2>1. CASE Fails(w)
    BY <2>0, <2>1, FailureMoves
  <2>2. CASE /\ records' = [k \in Key |-> IF k \in writer[w].ids
                                          THEN Changed(writer[w].op, records[k], Gone, instant')
                                          ELSE records[k]]
             /\ WGo(w, [writer[w] EXCEPT !.pc = "childbump"])
             /\ UNCHANGED <<generations, cached, reader, unbumped>>
    <3> DEFINE to == [writer[w] EXCEPT !.pc = "childbump"]
    <3>1. to.pc = "childbump" /\ "pc" \in DOMAIN to /\ to.key = Parent
      BY <1>0, <2>0, PlaceMoves
    <3>2. writer' = [writer EXCEPT ![w] = to]
      BY <2>2 DEF WGo
    <3> HIDE DEF to
    <3>3. WriterOK(to) /\ Bumps(to, "children") /\ Bumps(to, "parents")
      BY <3>1 DEF WriterOK, Bumps, TableOf, Key
    <3>4. \A t \in Table : Bumps(to, t)
      BY <3>3 DEF Table
    <3>5. DOMAIN records' = Key /\ unbumped \subseteq unbumped'
      BY <2>2
    <3> QED
      BY <2>2, <3>2, <3>3, <3>4, <3>5, OperationMoves
  <2> QED
    BY <1>8, <2>1, <2>2 DEF ChildStatement
<1>9. ASSUME NEW w \in Writer, ChildBump(w)
      PROVE  ModelInv'
  <2> DEFINE to == [pc |-> "childrecord", op |-> writer[w].op, key |-> Parent]
  <2>1. to.pc = "childrecord" /\ to.key = Parent /\ "pc" \in DOMAIN to
    OBVIOUS
  <2>2. writer' = [writer EXCEPT ![w] = to] /\ bump("children") /\ UNCHANGED <<records, reader>>
    BY <1>9 DEF ChildBump, WGo
  <2> HIDE DEF to
  <2>3. WriterOK(to) /\ Bumps(to, "parents")
    BY <2>1 DEF WriterOK, Bumps, TableOf, Key
  <2> QED
    BY <2>2, <2>3, OperationBumps DEF Table
<1>10. ASSUME NEW w \in Writer, ChildRecorded(w)
       PROVE  ModelInv'
  <2>0. writer[w].pc = "childrecord" /\ writer[w].key = Parent
    BY <1>0, <1>10 DEF ChildRecorded, WAt, WriterOK
  <2>1. CASE Fails(w)
    BY <2>0, <2>1, FailureMoves
  <2>2. CASE /\ WGo(w, [writer[w] EXCEPT !.pc = "bump"])
             /\ UNCHANGED <<instant, records, generations, cached, reader, unbumped>>
    <3> DEFINE to == [writer[w] EXCEPT !.pc = "bump"]
    <3>1. to.pc = "bump" /\ "pc" \in DOMAIN to /\ to.key = Parent
      BY <1>0, <2>0, PlaceMoves
    <3>2. WriterOK(to)
      <4> HIDE DEF to
      <4> QED
        BY <3>1 DEF WriterOK, Key
    <3> QED
      BY <1>5, <2>0, <2>2, <3>2
  <2> QED
    BY <1>10, <2>1, <2>2 DEF ChildRecorded
<1>11. ASSUME NEW w \in Writer, Bump(w)
       PROVE  ModelInv'
  <2>1. WriterOK(OpIdle) /\ writer' = [writer EXCEPT ![w] = OpIdle]
    BY <1>11 DEF OpIdle, WriterOK, Bump, WGo
  <2>2. \A t \in Table \ {TableOf(writer[w].key)} : ~ Bumps(writer[w], t)
    BY <1>11 DEF Bump, WAt, Bumps
  <2>3. TableOf(writer[w].key) \in Table
    BY DEF TableOf, Table
  <2> QED
    BY <1>11, <2>1, <2>2, <2>3, OperationBumps DEF Bump
<1>12. ASSUME NEW r \in Reader, NEW t \in Table, ReadMiss(r, t)
       PROVE  ModelInv'
  <2> DEFINE to == [pc |-> "query", table |-> t, generation |-> generations[t]]
  <2>1. ReaderOK(to, generations) /\ to.pc # "put"
    BY DEF ReaderOK, ModelInv, ModelType
  <2>2. reader' = [reader EXCEPT ![r] = to]
    BY <1>12 DEF ReadMiss, RGo
  <2> HIDE DEF to
  <2>3. \A u \in Table : cached'[u] # Gone /\ Clean(u) => cached'[u] = Content(u)
    BY <1>12 DEF ReadMiss, ModelInv, CachedRowsCurrent, Clean
  <2>4. DOMAIN cached' = Table /\ UNCHANGED <<records, generations, writer, unbumped>>
    BY <1>12 DEF ReadMiss, ModelInv, ModelType
  <2> QED
    BY <2>1, <2>2, <2>3, <2>4, QueryMoves
<1>13. ReaderOK(OpIdle, generations) /\ OpIdle.pc # "put"
  BY DEF OpIdle, ReaderOK
<1>14. ASSUME NEW r \in Reader, ReadQuery(r)
       PROVE  ModelInv'
  <2>1. \A u \in Table : cached'[u] # Gone /\ Clean(u) => cached'[u] = Content(u)
    BY <1>14 DEF ReadQuery, ModelInv, CachedRowsCurrent, Clean
  <2>2. DOMAIN cached' = Table /\ UNCHANGED <<records, generations, writer, unbumped>>
    BY <1>14 DEF ReadQuery, ModelInv, ModelType
  <2>3. CASE RGo(r, OpIdle)
    BY <1>13, <2>1, <2>2, <2>3, QueryMoves DEF RGo
  <2>4. CASE RGo(r, [pc |-> "put", table |-> reader[r].table, generation |-> reader[r].generation,
                     records |-> Content(reader[r].table)])
    <3> DEFINE to == [pc |-> "put", table |-> reader[r].table, generation |-> reader[r].generation,
                      records |-> Content(reader[r].table)]
    <3>1. ReaderOK(reader[r], generations) /\ reader[r].pc = "query"
      BY <1>14 DEF ReadQuery, ModelInv, ModelType
    <3>2. ReaderOK(to, generations)
      BY <3>1 DEF ReaderOK
    <3>3. \A u \in Table : to.table = u => to.records = Content(u)
      OBVIOUS
    <3>4. reader' = [reader EXCEPT ![r] = to]
      BY <2>4 DEF RGo
    <3> HIDE DEF to
    <3> QED
      BY <2>1, <2>2, <3>2, <3>3, <3>4, QueryMoves
  <2> QED
    BY <1>14, <2>3, <2>4 DEF ReadQuery
<1>15. ASSUME NEW r \in Reader, ReadPut(r)
       PROVE  ModelInv'
  <2> DEFINE q == reader[r]
  <2>1. q.pc = "put" /\ q.table \in Table
    BY <1>15 DEF ReadPut, ModelInv, ModelType, ReaderOK
  <2>2. DOMAIN cached = Table /\ \A u \in Table : cached[u] # Gone /\ Clean(u) => cached[u] = Content(u)
    BY DEF ModelInv, ModelType, CachedRowsCurrent, Clean
  <2>3. /\ DOMAIN cached' = Table
        /\ \A u \in Table : cached'[u] # Gone /\ Clean(u) => cached'[u] = Content(u)
    <3>1. CASE /\ q.generation = generations[q.table]
               /\ cached' = [cached EXCEPT ![q.table] = q.records]
      <4>1. Clean(q.table) => q.records = Content(q.table)
        BY <2>1, <3>1 DEF ModelInv, ReadsCurrent
      <4> QED
        BY <2>1, <2>2, <3>1, <4>1
    <3>2. CASE UNCHANGED cached
      BY <2>2, <3>2
    <3> QED
      BY <1>15, <3>1, <3>2 DEF ReadPut, key_generation
  <2>4. reader' = [reader EXCEPT ![r] = OpIdle] /\ UNCHANGED <<records, generations, writer, unbumped>>
    BY <1>15 DEF ReadPut, RGo
  <2> QED
    BY <1>13, <2>3, <2>4, QueryMoves
<1>16. ASSUME NEW t \in Table, Expire(t)
       PROVE  ModelInv'
  <2>1. /\ DOMAIN cached' = Table
        /\ \A u \in Table : cached'[u] \in {cached[u], Gone}
    BY <1>16 DEF Expire, ModelInv, ModelType
  <2>2. \A u \in Table : Clean(u)' = Clean(u) /\ Content(u)' = Content(u)
    BY <1>16 DEF Expire, Clean, Content, Bumping, WAt
  <2>3. \A v \in Writer : WriterOK(writer'[v])
    BY <1>0, <1>16 DEF Expire
  <2>4. generations' \in [Table -> Nat]
    BY <1>16 DEF Expire, ModelInv, ModelType
  <2> QED
    BY <1>0, <1>16, <2>1, <2>2, <2>3, <2>4, TablesMove DEF Expire
<1>17. CASE Step
  BY <1>4, <1>6, <1>7, <1>8, <1>9, <1>10, <1>11, <1>12, <1>14, <1>15, <1>16, <1>17 DEF Step
<1> QED
  BY <1>1, <1>2, <1>3, <1>17 DEF ModelNext

\* A cached query answers with the rows of its table, except between a write
\* and its bump and after an operation that failed in between, whatever
\* operations, cascades and other queries interleave (fetch_json_cached,
\* invalidate_table, execute_child_chunk).
THEOREM CachedRowsAreCurrent ==
  ModelSpec => []CachedRowsCurrent
<1>1. ModelInit => ModelInv
  <2> SUFFICES ASSUME ModelInit PROVE ModelInv
    OBVIOUS
  <2>1. ModelType
    BY DEF ModelInit, ModelType, WriterOK, ReaderOK, OpIdle
  <2>2. ReadsCurrent /\ CachedRowsCurrent
    BY DEF ModelInit, ReadsCurrent, CachedRowsCurrent, OpIdle
  <2> QED
    BY <2>1, <2>2 DEF ModelInv
<1>2. ModelInv /\ [ModelNext]_modelVars => ModelInv'
  BY ModelStep
<1>3. ModelInv => CachedRowsCurrent
  BY DEF ModelInv
<1> QED
  BY <1>1, <1>2, <1>3, PTL DEF ModelSpec

-----------------------------------------------------------------------------
(* Broadcast. *)

Increasing(q) == \A i, j \in DOMAIN q : i < j => q[i] < q[j]

\* The places of an appended sequence.
LEMMA AppendFacts ==
  ASSUME NEW S, NEW q \in Seq(S), NEW e \in S, NEW a, a = Append(q, e)
  PROVE  /\ a \in Seq(S)
         /\ Len(a) = Len(q) + 1 /\ Len(q) \in Nat
         /\ DOMAIN q = 1 .. Len(q) /\ DOMAIN a = 1 .. Len(q) + 1
         /\ \A i \in DOMAIN q : i \in DOMAIN a /\ a[i] = q[i] /\ i < Len(q) + 1
         /\ Len(q) + 1 \in DOMAIN a /\ a[Len(q) + 1] = e
         /\ \A i \in DOMAIN a : (i \in DOMAIN q /\ a[i] = q[i]) \/ (i = Len(q) + 1 /\ a[i] = e)
<1>1. /\ a \in Seq(S) /\ Len(a) = Len(q) + 1
      /\ \A i \in 1 .. Len(q) : a[i] = q[i]
      /\ a[Len(q) + 1] = e
  BY AppendProperties
<1>2. Len(q) \in Nat /\ DOMAIN q = 1 .. Len(q) /\ DOMAIN a = 1 .. Len(a)
  BY <1>1, LenProperties
<1> QED
  BY <1>1, <1>2

\* The places of a sequence cut in two.
LEMMA CutFacts ==
  ASSUME NEW q \in Seq(Nat), NEW n \in 0 .. Len(q)
  PROVE  LET a == SubSeq(q, 1, n)
             b == SubSeq(q, n + 1, Len(q))
         IN  /\ a \in Seq(Nat) /\ Len(a) = n /\ DOMAIN a = 1 .. n
             /\ \A i \in DOMAIN a : i \in DOMAIN q /\ a[i] = q[i]
             /\ \A i \in DOMAIN q : i \notin DOMAIN a => q[i] \in ToSet(b)
<1> DEFINE a == SubSeq(q, 1, n)
           b == SubSeq(q, n + 1, Len(q))
<1>0. Len(q) \in Nat /\ DOMAIN q = 1 .. Len(q)
  BY LenProperties
<1>1. n \in Int /\ n + 1 \in Int /\ Len(q) \in Int
  BY <1>0
<1>2. /\ \A i \in 1 .. n : q[i] \in Nat
      /\ \A i \in n + 1 .. Len(q) : q[i] \in Nat
  BY <1>0, ElementOfSeq
<1>3. /\ a \in Seq(Nat) /\ Len(a) = IF 1 <= n THEN n - 1 + 1 ELSE 0
      /\ \A i \in 1 .. n - 1 + 1 : a[i] = q[1 + i - 1]
  BY <1>1, <1>2, SubSeqProperties
<1>4. /\ b \in Seq(Nat) /\ Len(b) = IF n + 1 <= Len(q) THEN Len(q) - (n + 1) + 1 ELSE 0
      /\ \A i \in 1 .. Len(q) - (n + 1) + 1 : b[i] = q[n + 1 + i - 1]
  BY <1>1, <1>2, SubSeqProperties
<1> HIDE DEF a, b
<1>5. DOMAIN a = 1 .. Len(a) /\ DOMAIN b = 1 .. Len(b)
  BY <1>3, <1>4, LenProperties
<1>5a. Len(a) = n /\ Len(b) = Len(q) - n
  <2>1. 0 <= n /\ n <= Len(q)
    BY <1>0
  <2>2. Len(a) = n
    BY <1>1, <1>3, <2>1
  <2>3. Len(b) = IF n + 1 <= Len(q) THEN Len(q) - (n + 1) + 1 ELSE 0
    BY <1>4
  <2>4. CASE n + 1 <= Len(q)
    BY <1>0, <1>1, <2>2, <2>3, <2>4
  <2>5. CASE n = Len(q)
    BY <1>0, <1>1, <2>2, <2>3, <2>5
  <2>6. n + 1 <= Len(q) \/ n = Len(q)
    BY <1>1, <2>1
  <2> QED
    BY <2>4, <2>5, <2>6
<1>5d. DOMAIN a = 1 .. n /\ DOMAIN b = 1 .. Len(q) - n
  BY <1>5, <1>5a
<1>5b. ASSUME NEW i \in 1 .. n PROVE a[i] = q[i]
  <2>1. i \in 1 .. n - 1 + 1 /\ 1 + i - 1 = i
    BY <1>1
  <2> QED
    BY <1>3, <2>1
<1>5c. ASSUME NEW i \in 1 .. Len(q) - n PROVE b[i] = q[n + i]
  <2>1. i \in 1 .. Len(q) - (n + 1) + 1 /\ n + 1 + i - 1 = n + i
    BY <1>0, <1>1
  <2> QED
    BY <1>4, <2>1
<1>6. \A i \in DOMAIN a : i \in DOMAIN q /\ a[i] = q[i]
  BY <1>0, <1>5b, <1>5d
<1>7. ASSUME NEW i \in DOMAIN q, i \notin DOMAIN a
      PROVE  q[i] \in ToSet(b)
  <2>1. i - n \in 1 .. Len(q) - n /\ n + (i - n) = i
    BY <1>0, <1>1, <1>5d, <1>7
  <2>2. i - n \in DOMAIN b /\ b[i - n] = q[i]
    BY <1>5c, <1>5d, <2>1
  <2> QED
    BY <2>2 DEF ToSet
<1> QED
  BY <1>3, <1>5, <1>5a, <1>6, <1>7 DEF a, b

\* The places of a tail.
LEMMA TailFacts ==
  ASSUME NEW q \in Seq(Nat), q # <<>>
  PROVE  /\ Tail(q) \in Seq(Nat)
         /\ 1 \in DOMAIN q /\ Head(q) = q[1] /\ Head(q) \in Nat
         /\ \A i \in DOMAIN Tail(q) : i \in Int /\ i > 0 /\ i + 1 \in DOMAIN q /\ Tail(q)[i] = q[i + 1]
         /\ \A i \in DOMAIN q : i # 1 => i - 1 \in DOMAIN Tail(q) /\ Tail(q)[i - 1] = q[i]
<1> DEFINE t == Tail(q)
<1>1. /\ t \in Seq(Nat) /\ Len(t) = Len(q) - 1
      /\ \A i \in 1 .. Len(t) : t[i] = q[i + 1]
      /\ Head(q) \in Nat
  BY HeadTailProperties
<1>2. Head(q) = q[1]
  OBVIOUS
<1> HIDE DEF t
<1>3. DOMAIN q = 1 .. Len(q) /\ DOMAIN t = 1 .. Len(t) /\ Len(q) \in Nat \ {0}
  BY <1>1, LenProperties, EmptySeq
<1> DEFINE n == Len(q)
<1>4. DOMAIN q = 1 .. n /\ DOMAIN t = 1 .. n - 1 /\ n \in Nat \ {0}
      /\ \A i \in 1 .. n - 1 : t[i] = q[i + 1]
  BY <1>1, <1>3
<1> HIDE DEF n
<1>5. 1 \in DOMAIN q
  BY <1>4
<1>6. \A i \in DOMAIN t : i \in Int /\ i > 0 /\ i + 1 \in DOMAIN q /\ t[i] = q[i + 1]
  BY <1>4
<1>7. ASSUME NEW i \in DOMAIN q, i # 1
      PROVE  i - 1 \in DOMAIN t /\ t[i - 1] = q[i]
  <2>1. i - 1 \in 1 .. n - 1 /\ (i - 1) + 1 = i
    BY <1>4, <1>7
  <2> QED
    BY <1>4, <2>1
<1> QED
  BY <1>1, <1>2, <1>5, <1>6, <1>7 DEF t

BroadcastType ==
  /\ published \in Seq(Wire)
  /\ stream \in Seq(Nat)
  /\ senders \in Seq(Seq(Nat))
  /\ channels \in [Wire -> {NoSender} \cup Nat]
  /\ \A c \in Wire : channels[c] # NoSender => channels[c] \in DOMAIN senders
  /\ DOMAIN session = Session
  /\ fan.pc = "send" => fan.message \in Nat /\ fan.sender \in DOMAIN senders

\* Messages pass from Redis over the fan-out to the senders in the order of
\* their publication.
InOrder ==
  /\ Increasing(stream)
  /\ \A j \in DOMAIN stream : stream[j] \in DOMAIN published
  /\ fan.pc = "send" =>
        fan.message \in DOMAIN published /\ \A j \in DOMAIN stream : fan.message < stream[j]
  /\ \A k \in DOMAIN senders :
        /\ Increasing(senders[k])
        /\ \A i \in DOMAIN senders[k] :
              /\ senders[k][i] \in DOMAIN published
              /\ \A j \in DOMAIN stream : senders[k][i] < stream[j]
              /\ fan.pc = "send" => senders[k][i] < fan.message

\* A session holds the sender the hub has for its channel, and a place in it.
Placed(s) ==
  /\ session[s].pc \in {"subscribe", "ack", "open"} => session[s].channel \in Wire
  /\ session[s].pc \in {"ack", "open"} =>
        /\ session[s].sender = channels[session[s].channel]
        /\ session[s].sender \in DOMAIN senders
        /\ session[s].next \in 1 .. Len(senders[session[s].sender]) + 1

\* Its frames are messages of that sender from before its place, in order.
FramesRead(s) ==
  session[s].pc = "open" =>
    /\ session[s].frames \in Seq(Nat)
    /\ session[s].since \in Nat
    /\ Increasing(session[s].frames)
    /\ \A i \in DOMAIN session[s].frames : \E j \in DOMAIN senders[session[s].sender] :
          j < session[s].next /\ session[s].frames[i] = senders[session[s].sender][j]

\* What it was not sent is on its way, unless it lags or Redis was lost.
Covered(s) ==
  session[s].pc = "open" /\ ~ session[s].lagged =>
    \A m \in DOMAIN published :
      m > session[s].since /\ published[m] = session[s].channel /\ m \notin dropped
        => Contains(session[s].frames, m) \/ Underway(s, m)

BroadcastInv ==
  /\ BroadcastType /\ InOrder
  /\ \A s \in Session : Placed(s) /\ FramesRead(s) /\ Covered(s)

LEMMA BroadcastImplies ==
  BroadcastInv => SubscribedMissNothing
BY DEF BroadcastInv, SubscribedMissNothing, FramesRead, Covered, Increasing, SAt

\* Only a session moves.
LEMMA SessionMoves ==
  ASSUME BroadcastInv, NEW s \in Session, NEW to, session' = [session EXCEPT ![s] = to],
         UNCHANGED <<published, stream, dropped, fan, channels, senders>>,
         Placed(s)', FramesRead(s)', Covered(s)'
  PROVE  BroadcastInv'
<1>1. DOMAIN session' = Session /\ \A r \in Session : r # s => session'[r] = session[r]
  BY DEF BroadcastInv, BroadcastType
<1>2. BroadcastType' /\ InOrder'
  BY <1>1 DEF BroadcastInv, BroadcastType, InOrder
<1>3. ASSUME NEW r \in Session, r # s
      PROVE  Placed(r)' /\ FramesRead(r)' /\ Covered(r)'
  <2>1. session'[r] = session[r]
    BY <1>1, <1>3
  <2>2. Placed(r) /\ FramesRead(r) /\ Covered(r)
    BY DEF BroadcastInv
  <2>3. Placed(r)'
    BY <2>1, <2>2 DEF Placed
  <2>4. FramesRead(r)'
    BY <2>1, <2>2 DEF FramesRead
  <2>5. Covered(r)'
    BY <2>1, <2>2 DEF Covered, Underway
  <2> QED
    BY <2>3, <2>4, <2>5
<1> QED
  BY <1>2, <1>3 DEF BroadcastInv

\* The session closes.
LEMMA SessionCloses ==
  ASSUME BroadcastInv, NEW s \in Session, SGo(s, Closed),
         UNCHANGED <<published, stream, dropped, fan, channels, senders>>
  PROVE  BroadcastInv'
<1>1. session' = [session EXCEPT ![s] = Closed] /\ session'[s] = Closed
  BY DEF SGo, BroadcastInv, BroadcastType
<1>2. Placed(s)' /\ FramesRead(s)' /\ Covered(s)'
  BY <1>1 DEF Placed, FramesRead, Covered, Closed
<1> QED
  BY <1>1, <1>2, SessionMoves

LEMMA PublishStep ==
  ASSUME BroadcastInv, NEW c \in Wire, Publish(c)
  PROVE  BroadcastInv'
<1> DEFINE n == Len(published) + 1
<1>1. /\ published \in Seq(Wire) /\ stream \in Seq(Nat) /\ n \in Nat \ {0} /\ DOMAIN published = 1 .. n - 1
      /\ senders \in Seq(Seq(Nat))
  BY DEF BroadcastInv, BroadcastType
<1>2. /\ published' \in Seq(Wire) /\ DOMAIN published' = 1 .. n
      /\ \A m \in DOMAIN published : published'[m] = published[m]
  BY <1>1 DEF Publish
<1>3. \/ stream' = Append(stream, n) /\ dropped' = dropped
      \/ stream' = stream /\ dropped' = dropped \cup {n}
  BY DEF Publish
<1>4. UNCHANGED <<fan, channels, senders, session>>
  BY DEF Publish
<1> HIDE DEF n
<1>5. /\ stream' \in Seq(Nat)
      /\ \A j \in DOMAIN stream' : (j \in DOMAIN stream /\ stream'[j] = stream[j])
                                   \/ (stream'[j] = n /\ j = Len(stream) + 1)
      /\ \A j \in DOMAIN stream : j \in DOMAIN stream' /\ stream'[j] = stream[j] /\ j < Len(stream) + 1
      /\ stream' = Append(stream, n) => Len(stream) + 1 \in DOMAIN stream' /\ stream'[Len(stream) + 1] = n
  <2>1. CASE stream' = Append(stream, n)
    BY <1>1, <2>1, AppendFacts
  <2>2. CASE stream' = stream /\ stream' # Append(stream, n)
    <3>1. DOMAIN stream = 1 .. Len(stream) /\ Len(stream) \in Nat
      BY <1>1, LenProperties
    <3>2. \A j \in DOMAIN stream : j < Len(stream) + 1
      BY <3>1
    <3> QED
      BY <1>1, <2>2, <3>2, Zenon
  <2> QED
    BY <1>3, <2>1, <2>2
<1>5a. DOMAIN stream' = 1 .. Len(stream') /\ DOMAIN stream = 1 .. Len(stream) /\ Len(stream) \in Nat
       /\ n \in DOMAIN published'
  BY <1>1, <1>2, <1>5, LenProperties
<1>6. \A m \in DOMAIN published : m < n /\ m \in DOMAIN published'
  BY <1>1, <1>2
<1>7. BroadcastType'
  BY <1>2, <1>4, <1>5 DEF BroadcastInv, BroadcastType
<1>8. InOrder'
  <2>1. InOrder
    BY DEF BroadcastInv
  <2>2. \A j \in DOMAIN stream : stream[j] < n /\ stream[j] \in DOMAIN published'
    BY <1>6, <2>1 DEF InOrder
  <2>3. Increasing(stream') /\ \A j \in DOMAIN stream' : stream'[j] \in DOMAIN published'
    <3>1. \A j \in DOMAIN stream' : stream'[j] \in DOMAIN published'
      BY <1>5, <1>5a, <2>2
    <3>2. ASSUME NEW i \in DOMAIN stream', NEW j \in DOMAIN stream', i < j
          PROVE  stream'[i] < stream'[j]
      <4>0. i \in Int /\ j \in Int
        <5>1. DOMAIN stream' \subseteq Int
          BY <1>5a
        <5> QED
          BY <5>1
      <4>1. i \in DOMAIN stream /\ stream'[i] = stream[i]
        <5>1. j < Len(stream) + 1 \/ j = Len(stream) + 1
          BY <1>5
        <5>2. i # Len(stream) + 1
          BY <1>5a, <3>2, <4>0, <5>1
        <5> QED
          BY <1>5, <5>2
      <4> QED
        BY <1>5, <2>1, <2>2, <3>2, <4>1 DEF InOrder, Increasing
    <3> QED
      BY <3>1, <3>2 DEF Increasing
  <2>4. fan.pc = "send" =>
          fan.message \in DOMAIN published' /\ \A j \in DOMAIN stream' : fan.message < stream'[j]
    BY <1>5, <1>6, <2>1 DEF InOrder
  <2>5. ASSUME NEW k \in DOMAIN senders, NEW i \in DOMAIN senders[k]
        PROVE  /\ senders[k][i] \in DOMAIN published'
               /\ \A j \in DOMAIN stream' : senders[k][i] < stream'[j]
    BY <1>5, <1>6, <2>1 DEF InOrder
  <2> QED
    BY <1>4, <2>1, <2>3, <2>4, <2>5 DEF InOrder
<1>9. ASSUME NEW s \in Session
      PROVE  Placed(s)' /\ FramesRead(s)' /\ Covered(s)'
  <2>0. Placed(s) /\ FramesRead(s) /\ Covered(s)
    BY DEF BroadcastInv
  <2>1. Placed(s)' /\ FramesRead(s)'
    BY <1>4, <2>0 DEF Placed, FramesRead
  <2>2. SUFFICES ASSUME session[s].pc = "open", ~ session[s].lagged,
                        NEW m \in DOMAIN published', m > session[s].since,
                        published'[m] = session[s].channel, m \notin dropped'
                 PROVE  Contains(session[s].frames, m) \/ Underway(s, m)'
    BY <1>4, <2>1 DEF Covered
  <2>3. CASE m = n
    <3>1. stream' = Append(stream, n)
      BY <1>3, <2>2, <2>3
    <3>2. Contains(stream', m)
      BY <1>5, <1>5a, <2>3, <3>1 DEF Contains
    <3> QED
      BY <3>2 DEF Underway
  <2>4. CASE m # n
    <3>1. m \in DOMAIN published /\ published'[m] = published[m] /\ m \notin dropped
      BY <1>1, <1>2, <1>3, <2>2, <2>4
    <3>2. Contains(session[s].frames, m) \/ Underway(s, m)
      BY <2>0, <2>2, <3>1 DEF Covered
    <3>3. Contains(stream, m) => Contains(stream', m)
      BY <1>5, <1>5a DEF Contains
    <3> QED
      BY <1>4, <3>2, <3>3 DEF Underway
  <2> QED
    BY <2>3, <2>4
<1> QED
  BY <1>7, <1>8, <1>9 DEF BroadcastInv

LEMMA DisconnectStep ==
  ASSUME BroadcastInv, NEW n \in 0 .. MaxMessages, Disconnect(n)
  PROVE  BroadcastInv'
<1> DEFINE L == Len(stream)
<1>1. stream \in Seq(Nat) /\ L \in Nat /\ n \in 0 .. L /\ n \in Int /\ DOMAIN stream = 1 .. L
  BY DEF BroadcastInv, BroadcastType, Disconnect
<1>4. /\ stream' \in Seq(Nat) /\ DOMAIN stream' = 1 .. n /\ Len(stream') = n
      /\ \A i \in DOMAIN stream' : i \in DOMAIN stream /\ stream'[i] = stream[i]
      /\ \A i \in DOMAIN stream : i \notin DOMAIN stream' => stream[i] \in dropped'
  <2> DEFINE rest == SubSeq(stream, n + 1, L)
  <2>1. stream' = SubSeq(stream, 1, n) /\ dropped' = dropped \cup ToSet(rest)
    BY DEF Disconnect
  <2>2. rest = SubSeq(stream, n + 1, L)
    OBVIOUS
  <2> HIDE DEF rest
  <2> QED
    BY <1>1, <2>1, <2>2, CutFacts
<1>5. UNCHANGED <<published, fan, channels, senders, session>> /\ dropped \subseteq dropped'
  BY DEF Disconnect
<1>7. BroadcastType'
  BY <1>4, <1>5 DEF BroadcastInv, BroadcastType
<1>8. InOrder'
  BY <1>4, <1>5 DEF BroadcastInv, InOrder, Increasing
<1>9. ASSUME NEW s \in Session
      PROVE  Placed(s)' /\ FramesRead(s)' /\ Covered(s)'
  <2>0. Placed(s) /\ FramesRead(s) /\ Covered(s)
    BY DEF BroadcastInv
  <2>1. Placed(s)' /\ FramesRead(s)'
    BY <1>5, <2>0 DEF Placed, FramesRead
  <2>2. SUFFICES ASSUME session[s].pc = "open", ~ session[s].lagged,
                        NEW m \in DOMAIN published, m > session[s].since,
                        published[m] = session[s].channel, m \notin dropped'
                 PROVE  Contains(session[s].frames, m) \/ Underway(s, m)'
    BY <1>5, <2>1 DEF Covered
  <2>3. Contains(session[s].frames, m) \/ Underway(s, m)
    BY <1>5, <2>0, <2>2 DEF Covered
  <2>4. Contains(stream, m) => Contains(stream', m)
    BY <1>1, <1>4, <2>2 DEF Contains
  <2> QED
    BY <1>5, <2>3, <2>4 DEF Underway
<1> QED
  BY <1>7, <1>8, <1>9 DEF BroadcastInv

LEMMA FanTakeStep ==
  ASSUME BroadcastInv, FanTake
  PROVE  BroadcastInv'
<1> DEFINE m == Head(stream)
<1>1. /\ stream \in Seq(Nat) /\ stream # <<>> /\ stream' = Tail(stream)
      /\ fan = FanIdle
      /\ UNCHANGED <<published, dropped, channels, senders, session>>
      /\ fan' = IF channels[published[m]] = NoSender THEN FanIdle
                ELSE [pc |-> "send", message |-> m, sender |-> channels[published[m]]]
  BY DEF FanTake, BroadcastInv, BroadcastType
<1>2. /\ stream' \in Seq(Nat)
      /\ 1 \in DOMAIN stream /\ m = stream[1] /\ m \in Nat
      /\ \A i \in DOMAIN stream' : i \in Int /\ i > 0 /\ i + 1 \in DOMAIN stream /\ stream'[i] = stream[i + 1]
      /\ \A i \in DOMAIN stream : i # 1 => i - 1 \in DOMAIN stream' /\ stream'[i - 1] = stream[i]
  BY <1>1, TailFacts
<1> HIDE DEF m
<1>3. InOrder /\ m \in DOMAIN published /\ published[m] \in Wire
  BY <1>2 DEF BroadcastInv, InOrder, BroadcastType
<1>4. \/ fan' = FanIdle /\ channels[published[m]] = NoSender
      \/ /\ fan'.pc = "send" /\ fan'.message = m
         /\ fan'.sender = channels[published[m]] /\ channels[published[m]] # NoSender
  BY <1>1
<1>5. FanIdle.pc # "send" /\ fan.pc # "send"
  BY <1>1 DEF FanIdle
<1>6. BroadcastType'
  BY <1>1, <1>2, <1>3, <1>4, <1>5 DEF BroadcastInv, BroadcastType
<1>7. \A j \in DOMAIN stream' : m < stream'[j]
  BY <1>2, <1>3 DEF InOrder, Increasing
<1>8. InOrder'
  <2>1. Increasing(stream') /\ \A j \in DOMAIN stream' : stream'[j] \in DOMAIN published
    BY <1>2, <1>3 DEF InOrder, Increasing
  <2>2. fan'.pc = "send" =>
          fan'.message \in DOMAIN published /\ \A j \in DOMAIN stream' : fan'.message < stream'[j]
    BY <1>3, <1>4, <1>5, <1>7
  <2>3. ASSUME NEW k \in DOMAIN senders, NEW i \in DOMAIN senders[k]
        PROVE  /\ senders[k][i] \in DOMAIN published
               /\ \A j \in DOMAIN stream' : senders[k][i] < stream'[j]
               /\ fan'.pc = "send" => senders[k][i] < fan'.message
    BY <1>2, <1>3, <1>4, <1>5 DEF InOrder
  <2> QED
    BY <1>1, <1>3, <2>1, <2>2, <2>3 DEF InOrder
<1>9. ASSUME NEW s \in Session
      PROVE  Placed(s)' /\ FramesRead(s)' /\ Covered(s)'
  <2>0. Placed(s) /\ FramesRead(s) /\ Covered(s)
    BY DEF BroadcastInv
  <2>1. Placed(s)' /\ FramesRead(s)'
    BY <1>1, <2>0 DEF Placed, FramesRead
  <2>2. SUFFICES ASSUME session[s].pc = "open", ~ session[s].lagged,
                        NEW x \in DOMAIN published, x > session[s].since,
                        published[x] = session[s].channel, x \notin dropped
                 PROVE  Contains(session[s].frames, x) \/ Underway(s, x)'
    BY <1>1, <2>1 DEF Covered
  <2>3. Contains(session[s].frames, x) \/ Underway(s, x)
    BY <2>0, <2>2 DEF Covered
  <2>4. ASSUME Contains(stream, x)
        PROVE  Underway(s, x)'
    <3>1. PICK i \in DOMAIN stream : stream[i] = x
      <4>1. DOMAIN stream = 1 .. Len(stream)
        BY <1>1, LenProperties
      <4> QED
        BY <2>4, <4>1 DEF Contains
    <3>2. CASE i = 1
      <4>1. x = m
        BY <1>2, <3>1, <3>2
      <4>2. session[s].sender = channels[session[s].channel] /\ session[s].sender \in DOMAIN senders
        BY <2>0, <2>2 DEF Placed
      <4>3. session[s].sender # NoSender
        <5>1. DOMAIN senders = 1 .. Len(senders) /\ Len(senders) \in Nat
          BY LenProperties DEF BroadcastInv, BroadcastType
        <5> QED
          BY <4>2, <5>1, BroadcastAssumption
      <4>4. fan'.pc = "send" /\ fan'.message = x /\ fan'.sender = session[s].sender
        BY <1>4, <2>2, <4>1, <4>2, <4>3
      <4> QED
        BY <1>1, <4>4 DEF Underway
    <3>3. CASE i # 1
      <4>1. i - 1 \in DOMAIN stream' /\ stream'[i - 1] = x
        BY <1>2, <3>1, <3>3
      <4>2. DOMAIN stream' = 1 .. Len(stream')
        BY <1>2, LenProperties
      <4>3. Contains(stream', x)
        BY <4>1, <4>2 DEF Contains
      <4> QED
        BY <4>3 DEF Underway
    <3> QED
      BY <3>2, <3>3
  <2> QED
    BY <1>1, <1>5, <2>3, <2>4 DEF Underway
<1> QED
  BY <1>6, <1>8, <1>9 DEF BroadcastInv

LEMMA FanSendStep ==
  ASSUME BroadcastInv, FanSend
  PROVE  BroadcastInv'
<1> DEFINE m == fan.message
           k == fan.sender
<1>1. /\ m \in Nat /\ k \in DOMAIN senders /\ fan.pc = "send" /\ fan' = FanIdle
      /\ UNCHANGED <<published, stream, dropped, channels, session>>
      /\ senders' = [senders EXCEPT ![k] = Append(senders[k], m)]
  BY DEF FanSend, BroadcastInv, BroadcastType
<1>2. /\ senders \in Seq(Seq(Nat)) /\ DOMAIN senders = 1 .. Len(senders) /\ senders[k] \in Seq(Nat)
  <2>1. senders \in Seq(Seq(Nat)) /\ DOMAIN senders = 1 .. Len(senders)
    BY LenProperties DEF BroadcastInv, BroadcastType
  <2> QED
    BY <1>1, <2>1, ElementOfSeq
<1> DEFINE log == Append(senders[k], m)
<1>2a. log = Append(senders[k], m)
  OBVIOUS
<1> HIDE DEF log, m, k
<1>3. /\ log \in Seq(Nat) /\ Len(log) = Len(senders[k]) + 1 /\ Len(senders[k]) \in Nat
      /\ \A i \in DOMAIN senders[k] : i \in DOMAIN log /\ log[i] = senders[k][i]
                                      /\ i < Len(senders[k]) + 1
      /\ Len(senders[k]) + 1 \in DOMAIN log /\ log[Len(senders[k]) + 1] = m
      /\ \A i \in DOMAIN log : (i \in DOMAIN senders[k] /\ log[i] = senders[k][i])
                               \/ (i = Len(senders[k]) + 1 /\ log[i] = m)
      /\ DOMAIN log = 1 .. Len(senders[k]) + 1
  BY <1>1, <1>2, <1>2a, AppendFacts
<1>4. /\ senders' \in Seq(Seq(Nat)) /\ DOMAIN senders' = DOMAIN senders
      /\ senders'[k] = log /\ \A j \in DOMAIN senders : j # k => senders'[j] = senders[j]
  <2>1. senders' = [senders EXCEPT ![k] = log]
    BY <1>1 DEF log
  <2>2. /\ [senders EXCEPT ![k] = log] \in Seq(Seq(Nat))
        /\ Len([senders EXCEPT ![k] = log]) = Len(senders)
        /\ \A j \in 1 .. Len(senders) :
              [senders EXCEPT ![k] = log][j] = IF j = k THEN log ELSE senders[j]
    <3>1. k \in 1 .. Len(senders) /\ log \in Seq(Nat) /\ senders \in Seq(Seq(Nat))
      BY <1>1, <1>2, <1>3
    <3> QED
      BY <3>1, ExceptSeq
  <2> QED
    BY <1>1, <1>2, <2>1, <2>2
<1>5. FanIdle.pc # "send"
  BY DEF FanIdle
<1>6. BroadcastType'
  BY <1>1, <1>4, <1>5 DEF BroadcastInv, BroadcastType
<1>7. InOrder /\ m \in DOMAIN published /\ \A j \in DOMAIN stream : m < stream[j]
  BY <1>1 DEF BroadcastInv, InOrder, m
<1>8. \A i \in DOMAIN senders[k] : senders[k][i] < m
  BY <1>1, <1>7 DEF InOrder, m
<1>9. InOrder'
  <2>1. Increasing(log)
    <3> SUFFICES ASSUME NEW i \in DOMAIN log, NEW j \in DOMAIN log, i < j
                 PROVE  log[i] < log[j]
      BY DEF Increasing
    <3>1. i \in DOMAIN senders[k] /\ log[i] = senders[k][i]
      <4>1. i \in Int /\ j \in Int
        BY <1>3
      <4>2. j < Len(senders[k]) + 1 \/ j = Len(senders[k]) + 1
        BY <1>3
      <4>3. i # Len(senders[k]) + 1
        BY <1>3, <4>1, <4>2
      <4> QED
        BY <1>3, <4>3
    <3> QED
      BY <1>1, <1>3, <1>7, <1>8, <3>1 DEF InOrder, Increasing
  <2>2. \A i \in DOMAIN log : log[i] \in DOMAIN published /\ \A j \in DOMAIN stream : log[i] < stream[j]
    BY <1>1, <1>3, <1>7 DEF InOrder
  <2>3. ASSUME NEW l \in DOMAIN senders
        PROVE  /\ Increasing(senders'[l])
               /\ \A i \in DOMAIN senders'[l] :
                     /\ senders'[l][i] \in DOMAIN published
                     /\ \A j \in DOMAIN stream : senders'[l][i] < stream[j]
    BY <1>4, <1>7, <2>1, <2>2 DEF InOrder
  <2> QED
    BY <1>1, <1>4, <1>5, <1>7, <2>3 DEF InOrder
<1>10. ASSUME NEW l \in DOMAIN senders
       PROVE  /\ Len(senders[l]) <= Len(senders'[l])
              /\ Len(senders[l]) \in Nat /\ Len(senders'[l]) \in Nat
              /\ \A i \in DOMAIN senders[l] : i \in DOMAIN senders'[l] /\ senders'[l][i] = senders[l][i]
  <2>1. senders[l] \in Seq(Nat) /\ Len(senders[l]) \in Nat
    BY <1>2, ElementOfSeq, LenProperties
  <2>2. CASE l = k
    BY <1>3, <1>4, <2>1, <2>2
  <2>3. CASE l # k
    BY <1>4, <2>1, <2>3
  <2> QED
    BY <2>2, <2>3
<1>11. ASSUME NEW s \in Session
       PROVE  Placed(s)' /\ FramesRead(s)' /\ Covered(s)'
  <2>0. Placed(s) /\ FramesRead(s) /\ Covered(s)
    BY DEF BroadcastInv
  <2>1. Placed(s)'
    BY <1>1, <1>4, <1>10, <2>0 DEF Placed
  <2>2. FramesRead(s)'
    <3> SUFFICES ASSUME session[s].pc = "open", NEW i \in DOMAIN session[s].frames
                 PROVE  \E j \in DOMAIN senders'[session[s].sender] :
                          /\ j < session[s].next
                          /\ session[s].frames[i] = senders'[session[s].sender][j]
      BY <1>1, <2>0 DEF FramesRead
    <3>1. session[s].sender \in DOMAIN senders
      BY <2>0 DEF Placed
    <3>2. PICK j \in DOMAIN senders[session[s].sender] :
            j < session[s].next /\ session[s].frames[i] = senders[session[s].sender][j]
      BY <2>0 DEF FramesRead
    <3> QED
      BY <1>10, <3>1, <3>2
  <2>3. SUFFICES ASSUME session[s].pc = "open", ~ session[s].lagged,
                        NEW x \in DOMAIN published, x > session[s].since,
                        published[x] = session[s].channel, x \notin dropped
                 PROVE  Contains(session[s].frames, x) \/ Underway(s, x)'
    BY <1>1, <2>1, <2>2 DEF Covered
  <2>4. Contains(session[s].frames, x) \/ Underway(s, x)
    BY <2>0, <2>3 DEF Covered
  <2>5. /\ session[s].sender \in DOMAIN senders
        /\ session[s].next \in 1 .. Len(senders[session[s].sender]) + 1
    BY <2>0, <2>3 DEF Placed
  <2>6. ASSUME m = x, k = session[s].sender
        PROVE  Underway(s, x)'
    <3>1. /\ Len(senders[k]) + 1 \in DOMAIN senders'[k] /\ senders'[k][Len(senders[k]) + 1] = x
          /\ Len(senders[k]) + 1 >= session[s].next
      BY <1>3, <1>4, <2>5, <2>6
    <3> QED
      BY <1>1, <2>6, <3>1 DEF Underway
  <2>7. ASSUME NEW i \in DOMAIN senders[session[s].sender], i >= session[s].next,
               senders[session[s].sender][i] = x
        PROVE  Underway(s, x)'
    <3>1. i \in DOMAIN senders'[session[s].sender] /\ senders'[session[s].sender][i] = x
      BY <1>10, <2>5, <2>7
    <3> QED
      BY <1>1, <2>7, <3>1 DEF Underway
  <2>8. Contains(stream, x) => Underway(s, x)'
    BY <1>1 DEF Underway
  <2> QED
    BY <2>4, <2>6, <2>7, <2>8 DEF Underway, m, k
<1> QED
  BY <1>6, <1>9, <1>11 DEF BroadcastInv

LEMMA FirstFrameStep ==
  ASSUME BroadcastInv, NEW s \in Session, NEW c \in Wire, FirstFrame(s, c)
  PROVE  BroadcastInv'
<1>1. UNCHANGED <<published, stream, dropped, fan, channels, senders>>
  BY DEF FirstFrame
<1>2. CASE SGo(s, Closed)
  BY <1>1, <1>2, SessionCloses
<1>3. CASE SGo(s, [pc |-> "subscribe", channel |-> c])
  <2> DEFINE to == [pc |-> "subscribe", channel |-> c]
  <2>1. session' = [session EXCEPT ![s] = to] /\ session'[s] = to
    BY <1>3 DEF SGo, BroadcastInv, BroadcastType
  <2>2. to.pc = "subscribe" /\ to.channel \in Wire
    OBVIOUS
  <2> HIDE DEF to
  <2>3. Placed(s)' /\ FramesRead(s)' /\ Covered(s)'
    BY <2>1, <2>2 DEF Placed, FramesRead, Covered
  <2> QED
    BY <1>1, <2>1, <2>3, SessionMoves
<1> QED
  BY <1>2, <1>3 DEF FirstFrame

LEMMA SubscribeStep ==
  ASSUME BroadcastInv, NEW s \in Session, Subscribe(s)
  PROVE  BroadcastInv'
<1> DEFINE c  == session[s].channel
           t  == entry(c)
           to == [pc |-> "ack", channel |-> c, sender |-> t, next |-> Len(senders'[t]) + 1]
<1>1. /\ UNCHANGED <<published, stream, dropped, fan>>
      /\ channels' = [channels EXCEPT ![c] = t]
      /\ senders' = IF t \in DOMAIN senders THEN senders ELSE Append(senders, <<>>)
      /\ session' = [session EXCEPT ![s] = to] /\ session[s].pc = "subscribe"
  BY DEF Subscribe, SGo, SAt
<1>2. c \in Wire
  BY <1>1 DEF BroadcastInv, Placed
<1>3. to.pc = "ack" /\ to.channel = c /\ to.sender = t /\ to.next = Len(senders'[t]) + 1
  OBVIOUS
<1>4. /\ senders \in Seq(Seq(Nat)) /\ DOMAIN senders = 1 .. Len(senders) /\ Len(senders) \in Nat
      /\ channels \in [Wire -> {NoSender} \cup Nat] /\ DOMAIN session = Session
  BY LenProperties DEF BroadcastInv, BroadcastType
<1>5. t = (IF channels[c] = NoSender THEN Len(senders) + 1 ELSE channels[c])
  BY DEF entry
<1> HIDE DEF c, t, to
<1>6. CASE channels[c] # NoSender
  <2>1. t = channels[c] /\ t \in DOMAIN senders
    BY <1>2, <1>5, <1>6 DEF BroadcastInv, BroadcastType
  <2>2. UNCHANGED <<channels, senders>>
    <3>1. channels' = [channels EXCEPT ![c] = channels[c]]
      BY <1>1, <2>1
    <3>2. channels' = channels
      BY <1>4, <3>1
    <3> QED
      BY <1>1, <2>1, <3>2
  <2>3. session'[s] = to
    BY <1>1, <1>4
  <2>4. senders[t] \in Seq(Nat) /\ Len(senders[t]) \in Nat
    BY <1>4, <2>1, ElementOfSeq, LenProperties
  <2>5. to.next \in 1 .. Len(senders[t]) + 1
    BY <1>3, <2>2, <2>4
  <2>6. Placed(s)' /\ FramesRead(s)' /\ Covered(s)'
    BY <1>2, <1>3, <2>1, <2>2, <2>3, <2>5 DEF Placed, FramesRead, Covered
  <2> QED
    BY <1>1, <2>2, <2>6, SessionMoves
<1>7. CASE channels[c] = NoSender
  <2>1. t = Len(senders) + 1 /\ t \notin DOMAIN senders /\ senders' = Append(senders, <<>>)
    <3>1. t = Len(senders) + 1
      BY <1>5, <1>7
    <3>2. t \notin 1 .. Len(senders)
      BY <1>4, <3>1
    <3> QED
      BY <1>1, <1>4, <3>1, <3>2
  <2>2. <<>> \in Seq(Nat) /\ Len(<<>>) = 0 /\ DOMAIN <<>> = {}
    BY EmptySeq
  <2>3. /\ senders' \in Seq(Seq(Nat))
        /\ \A k \in DOMAIN senders : k \in DOMAIN senders' /\ senders'[k] = senders[k]
        /\ t \in DOMAIN senders' /\ senders'[t] = <<>>
        /\ \A k \in DOMAIN senders' : (k \in DOMAIN senders /\ senders'[k] = senders[k])
                                      \/ (k = t /\ senders'[k] = <<>>)
    BY <1>4, <2>1, <2>2, AppendFacts
  <2>4. /\ channels' \in [Wire -> {NoSender} \cup Nat] /\ channels'[c] = t
        /\ \A d \in Wire : d # c => channels'[d] = channels[d]
    BY <1>1, <1>2, <1>4, <2>1
  <2>5. session'[s] = to /\ DOMAIN session' = Session /\ \A r \in Session : r # s => session'[r] = session[r]
    BY <1>1, <1>4
  <2>6. BroadcastType'
    BY <1>1, <2>3, <2>4, <2>5 DEF BroadcastInv, BroadcastType
  <2>7. InOrder'
    <3>0. InOrder
      BY DEF BroadcastInv
    <3>1. ASSUME NEW k \in DOMAIN senders'
          PROVE  /\ Increasing(senders'[k])
                 /\ \A i \in DOMAIN senders'[k] :
                       /\ senders'[k][i] \in DOMAIN published
                       /\ \A j \in DOMAIN stream : senders'[k][i] < stream[j]
                       /\ fan.pc = "send" => senders'[k][i] < fan.message
      BY <2>2, <2>3, <3>0 DEF InOrder, Increasing
    <3> QED
      BY <1>1, <3>0, <3>1 DEF InOrder
  <2>8. to.next = 1 /\ Len(senders'[t]) = 0
    BY <1>3, <2>2, <2>3
  <2>9. Placed(s)' /\ FramesRead(s)' /\ Covered(s)'
    BY <1>2, <1>3, <2>3, <2>4, <2>5, <2>8 DEF Placed, FramesRead, Covered
  <2>10. ASSUME NEW r \in Session, r # s
         PROVE  Placed(r)' /\ FramesRead(r)' /\ Covered(r)'
    <3>0. Placed(r) /\ FramesRead(r) /\ Covered(r) /\ session'[r] = session[r]
      BY <2>5, <2>10 DEF BroadcastInv
    <3>1. session[r].pc \in {"ack", "open"} =>
            /\ session[r].sender \in DOMAIN senders
            /\ session[r].channel # c
            /\ senders'[session[r].sender] = senders[session[r].sender]
      <4> SUFFICES ASSUME session[r].pc \in {"ack", "open"}
                   PROVE  /\ session[r].sender \in DOMAIN senders
                          /\ session[r].channel # c
                          /\ senders'[session[r].sender] = senders[session[r].sender]
        OBVIOUS
      <4>1. session[r].sender \in DOMAIN senders /\ session[r].sender = channels[session[r].channel]
        BY <3>0 DEF Placed
      <4>2. session[r].sender # NoSender
        BY <1>4, <4>1, BroadcastAssumption
      <4> QED
        BY <1>7, <2>3, <4>1, <4>2
    <3>2. Placed(r)'
      BY <2>3, <2>4, <3>0, <3>1 DEF Placed
    <3>3. FramesRead(r)'
      BY <3>0, <3>1 DEF FramesRead
    <3>4. Covered(r)'
      BY <1>1, <3>0, <3>1 DEF Covered, Underway
    <3> QED
      BY <3>2, <3>3, <3>4
  <2> QED
    BY <2>6, <2>7, <2>9, <2>10 DEF BroadcastInv
<1> QED
  BY <1>6, <1>7

LEMMA AckStep ==
  ASSUME BroadcastInv, NEW s \in Session, Ack(s)
  PROVE  BroadcastInv'
<1>1. UNCHANGED <<published, stream, dropped, fan, channels, senders>> /\ session[s].pc = "ack"
  BY DEF Ack, SAt
<1>2. CASE SGo(s, Closed)
  BY <1>1, <1>2, SessionCloses
<1>3. CASE SGo(s, Opened(session[s], Len(published), session[s].next, FALSE, <<>>))
  <2> DEFINE to == Opened(session[s], Len(published), session[s].next, FALSE, <<>>)
  <2>1. session' = [session EXCEPT ![s] = to] /\ session'[s] = to
    BY <1>3 DEF SGo, BroadcastInv, BroadcastType
  <2>2. /\ to.pc = "open" /\ to.channel = session[s].channel /\ to.sender = session[s].sender
        /\ to.since = Len(published) /\ to.next = session[s].next /\ to.frames = <<>>
    BY DEF Opened
  <2> HIDE DEF to
  <2>3. <<>> \in Seq(Nat) /\ DOMAIN <<>> = {}
    BY EmptySeq
  <2>4. Len(published) \in Nat /\ DOMAIN published = 1 .. Len(published)
    BY LenProperties DEF BroadcastInv, BroadcastType
  <2>5. \A m \in DOMAIN published : ~ (m > Len(published))
    BY <2>4
  <2>6. Placed(s)
    BY DEF BroadcastInv
  <2>7. Placed(s)'
    BY <1>1, <2>1, <2>2, <2>6 DEF Placed
  <2>8. FramesRead(s)'
    BY <2>1, <2>2, <2>3, <2>4 DEF FramesRead, Increasing
  <2>9. Covered(s)'
    BY <1>1, <2>1, <2>2, <2>5 DEF Covered
  <2> QED
    BY <1>1, <2>1, <2>7, <2>8, <2>9, SessionMoves
<1> QED
  BY <1>2, <1>3 DEF Ack

LEMMA TurnStep ==
  ASSUME BroadcastInv, NEW s \in Session, Turn(s)
  PROVE  BroadcastInv'
<1> DEFINE q      == session[s]
           log    == senders[q.sender]
           oldest == IF Len(log) > Buffer THEN Len(log) - Buffer + 1 ELSE 1
<1>1. UNCHANGED <<published, stream, dropped, fan, channels, senders>> /\ q.pc = "open"
  BY DEF Turn, SAt
<1>2. Placed(s) /\ FramesRead(s) /\ Covered(s) /\ DOMAIN session = Session
  BY DEF BroadcastInv, BroadcastType
<1>3. /\ q.sender \in DOMAIN senders /\ q.channel \in Wire /\ q.sender = channels[q.channel]
      /\ q.next \in 1 .. Len(log) + 1
      /\ q.frames \in Seq(Nat) /\ q.since \in Nat
  BY <1>1, <1>2 DEF Placed, FramesRead
<1>4. log \in Seq(Nat) /\ Len(log) \in Nat /\ DOMAIN log = 1 .. Len(log)
  <2>1. senders \in Seq(Seq(Nat)) /\ DOMAIN senders = 1 .. Len(senders)
    BY LenProperties DEF BroadcastInv, BroadcastType
  <2>2. log \in Seq(Nat)
    BY <1>3, <2>1, ElementOfSeq
  <2> QED
    BY <2>2, LenProperties
<1>5. Increasing(log)
  BY <1>3 DEF BroadcastInv, InOrder
<1>6. CASE SGo(s, Closed)
  BY <1>1, <1>6, SessionCloses
<1>7. CASE /\ q.next <= Len(log)
           /\ SGo(s, Opened(q, q.since, q.next + 1, q.lagged, Append(q.frames, log[q.next])))
  <2> DEFINE more == Append(q.frames, log[q.next])
             to   == Opened(q, q.since, q.next + 1, q.lagged, more)
  <2>1. session' = [session EXCEPT ![s] = to] /\ session'[s] = to
    BY <1>2, <1>7 DEF SGo
  <2>2. /\ to.pc = "open" /\ to.channel = q.channel /\ to.sender = q.sender /\ to.since = q.since
        /\ to.next = q.next + 1 /\ to.lagged = q.lagged /\ to.frames = more
    BY DEF Opened
  <2>3. q.next \in DOMAIN log /\ log[q.next] \in Nat /\ q.next \in Nat
    <3> HIDE DEF q, log
    <3>1. q.next \in 1 .. Len(log) /\ q.next \in Nat
      BY <1>3, <1>4, <1>7
    <3> QED
      BY <1>4, <3>1, ElementOfSeq
  <2>4. more = Append(q.frames, log[q.next])
    OBVIOUS
  <2> HIDE DEF to, more, q, log
  <2>5. /\ more \in Seq(Nat)
        /\ DOMAIN more = 1 .. Len(q.frames) + 1 /\ Len(q.frames) \in Nat
        /\ DOMAIN q.frames = 1 .. Len(q.frames) /\ Len(more) = Len(q.frames) + 1
        /\ \A i \in DOMAIN q.frames : i \in DOMAIN more /\ more[i] = q.frames[i] /\ i < Len(q.frames) + 1
        /\ Len(q.frames) + 1 \in DOMAIN more /\ more[Len(q.frames) + 1] = log[q.next]
        /\ \A i \in DOMAIN more : (i \in DOMAIN q.frames /\ more[i] = q.frames[i])
                                  \/ (i = Len(q.frames) + 1 /\ more[i] = log[q.next])
    BY <1>3, <2>3, <2>4, AppendFacts
  <2>6. Placed(s)'
    <3>1. q.next + 1 \in 1 .. Len(log) + 1
      BY <1>3, <1>4, <1>7, <2>3
    <3> QED
      BY <1>1, <1>3, <2>1, <2>2, <3>1 DEF Placed, log
  <2>7. \A i \in DOMAIN q.frames : \E j \in DOMAIN log : j < q.next /\ q.frames[i] = log[j]
    BY <1>1, <1>2 DEF FramesRead, q, log
  <2>8. \A i \in DOMAIN more : \E j \in DOMAIN log : j < q.next + 1 /\ more[i] = log[j]
    <3> SUFFICES ASSUME NEW i \in DOMAIN more
                 PROVE  \E j \in DOMAIN log : j < q.next + 1 /\ more[i] = log[j]
      OBVIOUS
    <3>1. CASE i \in DOMAIN q.frames /\ more[i] = q.frames[i]
      <4>1. PICK j \in DOMAIN log : j < q.next /\ q.frames[i] = log[j]
        BY <2>7, <3>1
      <4>2. j \in Int
        BY <1>4, <4>1
      <4>3. j < q.next + 1
        BY <2>3, <4>1, <4>2
      <4> QED
        BY <3>1, <4>1, <4>3
    <3>2. CASE more[i] = log[q.next]
      <4>1. q.next < q.next + 1
        BY <2>3
      <4> QED
        BY <2>3, <3>2, <4>1
    <3> QED
      BY <2>5, <3>1, <3>2
  <2>9. Increasing(more)
    <3> SUFFICES ASSUME NEW i \in DOMAIN more, NEW j \in DOMAIN more, i < j
                 PROVE  more[i] < more[j]
      BY DEF Increasing
    <3>1. i \in DOMAIN q.frames /\ more[i] = q.frames[i]
      <4>1. i \in Int /\ j \in Int
        BY <2>5
      <4>2. j < Len(q.frames) + 1 \/ j = Len(q.frames) + 1
        BY <2>5
      <4>3. i # Len(q.frames) + 1
        BY <2>5, <4>1, <4>2
      <4> QED
        BY <2>5, <4>3
    <3>2. CASE j \in DOMAIN q.frames /\ more[j] = q.frames[j]
      BY <1>1, <1>2, <3>1, <3>2 DEF FramesRead, Increasing, q
    <3>3. CASE more[j] = log[q.next]
      <4>1. PICK k \in DOMAIN log : k < q.next /\ q.frames[i] = log[k]
        BY <2>7, <3>1
      <4> QED
        BY <1>5, <2>3, <3>1, <3>3, <4>1 DEF Increasing
    <3> QED
      BY <2>5, <3>2, <3>3
  <2>10. FramesRead(s)'
    <3>1. senders'[to.sender] = log
      BY <1>1, <2>2 DEF log
    <3>2. to.frames \in Seq(Nat) /\ to.since \in Nat /\ Increasing(to.frames)
      BY <1>3, <2>2, <2>5, <2>9
    <3>3. \A i \in DOMAIN to.frames : \E j \in DOMAIN log : j < to.next /\ to.frames[i] = log[j]
      BY <2>2, <2>8
    <3> QED
      BY <2>1, <3>1, <3>2, <3>3 DEF FramesRead
  <2>11. Covered(s)'
    <3> SUFFICES ASSUME ~ q.lagged, NEW m \in DOMAIN published, m > q.since,
                        published[m] = q.channel, m \notin dropped
                 PROVE  Contains(more, m) \/ Underway(s, m)'
      BY <1>1, <2>1, <2>2 DEF Covered
    <3>1. Contains(q.frames, m) \/ Underway(s, m)
      BY <1>1, <1>2 DEF Covered, q
    <3>2. Contains(q.frames, m) => Contains(more, m)
      BY <2>5 DEF Contains
    <3>3. ASSUME NEW i \in DOMAIN log, i >= q.next, log[i] = m
          PROVE  Contains(more, m) \/ Underway(s, m)'
      <4>1. CASE i = q.next
        BY <2>5, <3>3, <4>1 DEF Contains
      <4>2. CASE i # q.next
        <5>1. i >= q.next + 1
          BY <1>4, <2>3, <3>3, <4>2
        <5> QED
          BY <1>1, <2>1, <2>2, <3>3, <5>1 DEF Underway, log
      <4> QED
        BY <4>1, <4>2
    <3>4. Contains(stream, m) \/ (fan.pc = "send" /\ fan.message = m /\ fan.sender = q.sender)
            => Underway(s, m)'
      BY <1>1, <2>1, <2>2 DEF Underway
    <3> QED
      BY <3>1, <3>2, <3>3, <3>4 DEF Underway, q, log
  <2> QED
    BY <1>1, <2>1, <2>6, <2>10, <2>11, SessionMoves
<1>8. CASE /\ q.next < oldest
           /\ SGo(s, Opened(q, q.since, oldest, TRUE, q.frames))
  <2> DEFINE to == Opened(q, q.since, oldest, TRUE, q.frames)
  <2>1. session' = [session EXCEPT ![s] = to] /\ session'[s] = to
    BY <1>2, <1>8 DEF SGo
  <2>2. /\ to.pc = "open" /\ to.channel = q.channel /\ to.sender = q.sender /\ to.since = q.since
        /\ to.next = oldest /\ to.lagged = TRUE /\ to.frames = q.frames
    BY DEF Opened
  <2>3. oldest \in 1 .. Len(log) + 1 /\ oldest \in Int
    BY <1>4, BroadcastAssumption
  <2>4. \A i \in DOMAIN q.frames : \E j \in DOMAIN log : j < oldest /\ q.frames[i] = log[j]
    <3> SUFFICES ASSUME NEW i \in DOMAIN q.frames
                 PROVE  \E j \in DOMAIN log : j < oldest /\ q.frames[i] = log[j]
      OBVIOUS
    <3>1. PICK j \in DOMAIN log : j < q.next /\ q.frames[i] = log[j]
      BY <1>1, <1>2 DEF FramesRead
    <3> HIDE DEF oldest
    <3>2. j < oldest
      BY <1>3, <1>4, <1>8, <2>3, <3>1
    <3> QED
      BY <3>1, <3>2
  <2> HIDE DEF to, oldest
  <2>5. Placed(s)'
    BY <1>1, <1>3, <2>1, <2>2, <2>3 DEF Placed
  <2>6. FramesRead(s)'
    BY <1>1, <1>2, <2>1, <2>2, <2>4 DEF FramesRead
  <2>7. Covered(s)'
    BY <2>1, <2>2 DEF Covered
  <2> QED
    BY <1>1, <2>1, <2>5, <2>6, <2>7, SessionMoves
<1> QED
  BY <1>6, <1>7, <1>8 DEF Turn

LEMMA BroadcastStep ==
  ASSUME BroadcastInv, [BroadcastNext]_broadcastVars
  PROVE  BroadcastInv'
<1>1. CASE UNCHANGED broadcastVars
  <2>1. BroadcastType' /\ InOrder'
    BY <1>1 DEF broadcastVars, BroadcastInv, BroadcastType, InOrder
  <2>2. \A s \in Session : Placed(s)' /\ FramesRead(s)' /\ Covered(s)'
    BY <1>1 DEF broadcastVars, BroadcastInv, Placed, FramesRead, Covered, Underway
  <2> QED
    BY <2>1, <2>2 DEF BroadcastInv
<1> QED
  BY <1>1, PublishStep, DisconnectStep, FanTakeStep, FanSendStep, FirstFrameStep,
     SubscribeStep, AckStep, TurnStep DEF BroadcastNext

\* A session told it is subscribed misses no message published from then on
\* and gets them in order, unless it was told that it lags or the process lost
\* Redis, for every number of sessions, channels and messages and every size
\* of the buffer (session, subscribe, start).
THEOREM SubscribersMissNothing ==
  BroadcastSpec => []SubscribedMissNothing
<1>1. BroadcastInit => BroadcastInv
  <2> SUFFICES ASSUME BroadcastInit PROVE BroadcastInv
    OBVIOUS
  <2>0. <<>> \in Seq(Wire) /\ <<>> \in Seq(Nat) /\ <<>> \in Seq(Seq(Nat)) /\ DOMAIN <<>> = {}
    BY EmptySeq
  <2>1. BroadcastType
    BY <2>0 DEF BroadcastInit, BroadcastType, FanIdle
  <2>2. InOrder
    BY <2>0 DEF BroadcastInit, InOrder, FanIdle, Increasing
  <2>3. \A s \in Session : session[s].pc = "first"
    BY DEF BroadcastInit
  <2>4. \A s \in Session : Placed(s) /\ FramesRead(s) /\ Covered(s)
    BY <2>3 DEF Placed, FramesRead, Covered
  <2> QED
    BY <2>1, <2>2, <2>4 DEF BroadcastInv
<1>2. BroadcastInv /\ [BroadcastNext]_broadcastVars => BroadcastInv'
  BY BroadcastStep
<1>3. BroadcastInv => SubscribedMissNothing
  BY BroadcastImplies
<1> QED
  BY <1>1, <1>2, <1>3, PTL DEF BroadcastSpec

-----------------------------------------------------------------------------
(* The migrator. *)

\* What a command holds on to between two statements.
Holding(o) ==
  /\ o.pc \in {"batch", "apply"} => o.pending \subseteq Range(Migrations)
  /\ o.pc = "apply" => o = [pc |-> "apply", pending |-> o.pending, batch |-> o.batch]
  /\ o.pc = "undo" => o \in [pc : {"undo"}, names : SUBSET Range(Migrations)]
  /\ o.pc = "drop" => o \in [pc : {"drop"}, left : Seq(Range(Migrations) \cup {Ledger})]

MigType ==
  /\ tables \in Seq(Range(Migrations) \cup {Ledger})
  /\ \A i, j \in 1 .. Len(tables) : tables[i] = tables[j] => i = j
  /\ overlapped \in BOOLEAN
  /\ DOMAIN op = Deployer
  /\ \A d \in Deployer : Holding(op[d])

\* The ledger is older than t, so fresh meets it first.
LedgerOlder(t) ==
  \E i, j \in 1 .. Len(tables) : i < j /\ tables[i] = Ledger /\ tables[j] = t

\* So it is with every table it records, except for those that outlived an
\* interrupted fresh and were recorded since.
LedgerFirst ==
  \A m \in DOMAIN rows : LedgerOlder(m) \/ m \in survived \cap Tolerant

\* A fresh that is alone has still to drop exactly the tables there are.
FreshAlone ==
  \A d \in Deployer :
    /\ op[d].pc \in {"drop", "dropped"} => \A e \in Deployer \ {d} : MAt(e, "idle")
    /\ MAt(d, "drop") => op[d].left = tables

\* There are rows only in a ledger, and unless a fresh is dropping them, every
\* other table is recorded or outlived an interrupted fresh.
Accounted ==
  /\ Exists(Ledger) \/ DOMAIN rows = {}
  /\ \/ \E d \in Deployer : MAt(d, "drop")
     \/ \A t \in Range(tables) \ {Ledger} : t \in DOMAIN rows \cup survived

Orderly == LedgerFirst /\ FreshAlone /\ Accounted
MigInv == MigType /\ (~ overlapped => Orderly)

\* Removing a table keeps the others and their order.
LEMMA RemoveFacts ==
  ASSUME NEW T, NEW s \in Seq(T), NEW e,
         \A i, j \in 1 .. Len(s) : s[i] = s[j] => i = j
  PROVE  LET r == RemoveFirst(s, e) IN
         /\ r \in Seq(T)
         /\ \A i, j \in 1 .. Len(r) : r[i] = r[j] => i = j
         /\ \A i, j \in 1 .. Len(s) : i < j /\ s[i] # e /\ s[j] # e =>
              \E a, b \in 1 .. Len(r) : a < b /\ r[a] = s[i] /\ r[b] = s[j]
         /\ s # << >> /\ e = Head(s) => r = Tail(s)
         /\ Range(r) = Range(s) \ {e}
<1> DEFINE r == RemoveFirst(s, e)
<1>1. CASE ~ \E i \in 1 .. Len(s) : s[i] = e
  <2>1. r = s
    BY <1>1 DEF RemoveFirst
  <2>2. s # << >> => 1 \in 1 .. Len(s) /\ Head(s) = s[1]
    OBVIOUS
  <2>3. Range(s) = Range(s) \ {e}
    BY <1>1 DEF Range
  <2> HIDE DEF r
  <2> QED
    BY <1>1, <2>1, <2>2, <2>3 DEF r
<1>2. CASE \E i \in 1 .. Len(s) : s[i] = e
  <2>1. PICK k \in 1 .. Len(s) : s[k] = e
    BY <1>2
  <2>2. SelectInSeq(s, LAMBDA v : v = e) = k
    <3>1. {i \in 1 .. Len(s) : s[i] = e} = {k}
      BY <2>1
    <3>2. Min({k}) = k
      BY DEF Min
    <3> QED
      BY <3>1, <3>2 DEF SelectInSeq
  <2>3. r = SubSeq(s, 1, k - 1) \o SubSeq(s, k + 1, Len(s))
    BY <1>2, <2>2 DEF RemoveFirst, RemoveAt
  <2>4. /\ r \in Seq(T) /\ Len(r) = Len(s) - 1
        /\ \A i \in 1 .. k - 1 : r[i] = s[i]
        /\ \A i \in k .. Len(s) - 1 : r[i] = s[i + 1]
    <3> DEFINE u == SubSeq(s, 1, k - 1)
               v == SubSeq(s, k + 1, Len(s))
    <3>1. /\ u \in Seq(T) /\ Len(u) = k - 1 /\ \A i \in 1 .. k - 1 : u[i] = s[i]
          /\ v \in Seq(T) /\ Len(v) = Len(s) - k /\ \A i \in 1 .. Len(s) - k : v[i] = s[i + k]
      BY <2>1
    <3> HIDE DEF u, v
    <3>3. r = u \o v
      BY <2>3 DEF u, v
    <3> HIDE DEF r
    <3>2. r \in Seq(T) /\ Len(r) = Len(s) - 1
      <4>1. r \in Seq(T) /\ Len(r) = Len(u) + Len(v)
        BY <3>1, <3>3, ConcatProperties
      <4> QED
        BY <2>1, <3>1, <4>1
    <3>4. /\ \A i \in 1 .. k - 1 : r[i] = u[i]
          /\ \A i \in k .. Len(s) - 1 : r[i] = v[i - (k - 1)]
      BY <2>1, <3>1, <3>3
    <3>5. \A i \in k .. Len(s) - 1 : i - (k - 1) \in 1 .. Len(s) - k /\ i - (k - 1) + k = i + 1
      BY <2>1
    <3>6. ASSUME NEW i \in 1 .. k - 1 PROVE r[i] = s[i]
      BY <3>1, <3>4
    <3>7. ASSUME NEW i \in k .. Len(s) - 1 PROVE r[i] = s[i + 1]
      <4>1. r[i] = v[i - (k - 1)]
        BY <3>4
      <4>2. v[i - (k - 1)] = s[i - (k - 1) + k]
        BY <3>1, <3>5
      <4> QED
        BY <3>5, <4>1, <4>2
    <3> QED
      BY <3>2, <3>6, <3>7
  <2> HIDE DEF r
  <2>5. \A i, j \in 1 .. Len(r) : r[i] = r[j] => i = j
    <3> DEFINE at(i) == IF i < k THEN i ELSE i + 1
    <3>1. ASSUME NEW i \in 1 .. Len(r) PROVE at(i) \in 1 .. Len(s) /\ r[i] = s[at(i)]
      <4>1. i \in 1 .. k - 1 \/ i \in k .. Len(s) - 1
        BY <2>4
      <4> QED
        BY <2>4, <4>1
    <3>2. \A i, j \in 1 .. Len(r) : at(i) = at(j) => i = j
      OBVIOUS
    <3> HIDE DEF at
    <3> QED
      BY <3>1, <3>2
  <2>6. ASSUME NEW i \in 1 .. Len(s), NEW j \in 1 .. Len(s), i < j, s[i] # e, s[j] # e
        PROVE  \E a, b \in 1 .. Len(r) : a < b /\ r[a] = s[i] /\ r[b] = s[j]
    <3> DEFINE a == IF i < k THEN i ELSE i - 1
               b == IF j < k THEN j ELSE j - 1
    <3>1. i # k /\ j # k
      BY <2>1, <2>6
    <3>2. a \in 1 .. Len(r) /\ b \in 1 .. Len(r) /\ a < b
      BY <2>4, <2>6, <3>1
    <3>3. r[a] = s[i] /\ r[b] = s[j]
      BY <2>4, <2>6, <3>1
    <3> QED
      BY <3>2, <3>3
  <2>7. ASSUME s # << >>, e = Head(s) PROVE r = Tail(s)
    <3>1. k = 1
      BY <2>1, <2>7
    <3>2. Len(Tail(s)) = Len(s) - 1 /\ Tail(s) \in Seq(T)
          /\ \A i \in 1 .. Len(s) - 1 : Tail(s)[i] = s[i + 1]
      BY <2>7
    <3> QED
      BY <2>4, <3>1, <3>2, SeqEqual
  <2>8. Range(r) = Range(s) \ {e}
    <3>1. ASSUME NEW i \in 1 .. Len(r) PROVE r[i] \in Range(s) \ {e}
      <4> DEFINE at == IF i < k THEN i ELSE i + 1
      <4>1. at \in 1 .. Len(s) /\ at # k /\ r[i] = s[at]
        <5>1. CASE i < k
          <6>1. i \in 1 .. k - 1
            BY <5>1
          <6> QED
            BY <2>4, <5>1, <6>1
        <5>2. CASE ~ (i < k)
          <6>1. i \in k .. Len(s) - 1
            BY <2>4, <5>2
          <6> QED
            BY <2>4, <5>2, <6>1
        <5> QED
          BY <5>1, <5>2
      <4> QED
        BY <2>1, <4>1 DEF Range
    <3>2. ASSUME NEW i \in 1 .. Len(s), s[i] # e PROVE s[i] \in Range(r)
      <4> DEFINE a == IF i < k THEN i ELSE i - 1
      <4>1. i # k
        BY <2>1, <3>2
      <4>2. a \in 1 .. Len(r) /\ r[a] = s[i]
        BY <2>4, <3>2, <4>1
      <4> QED
        BY <2>4, <4>2 DEF Range
    <3>3. /\ \A x \in Range(r) : \E i \in 1 .. Len(r) : x = r[i]
          /\ \A x \in Range(s) : \E i \in 1 .. Len(s) : x = s[i]
      BY <2>4 DEF Range
    <3> QED
      BY <3>1, <3>2, <3>3
  <2> QED
    BY <2>4, <2>5, <2>6, <2>7, <2>8 DEF r
<1> QED
  BY <1>1, <1>2

\* A table that is new goes to the end.
LEMMA AppendFresh ==
  ASSUME NEW T, NEW s \in Seq(T), NEW e \in T, e \notin Range(s),
         \A i, j \in 1 .. Len(s) : s[i] = s[j] => i = j
  PROVE  LET r == Append(s, e) IN
         /\ r \in Seq(T) /\ Len(r) = Len(s) + 1 /\ r[Len(r)] = e
         /\ \A i \in 1 .. Len(s) : r[i] = s[i]
         /\ \A i, j \in 1 .. Len(r) : r[i] = r[j] => i = j
         /\ Range(r) = Range(s) \cup {e}
<1> DEFINE r == Append(s, e)
<1>1. /\ r \in Seq(T) /\ Len(r) = Len(s) + 1 /\ r[Len(s) + 1] = e /\ Len(s) \in Nat
      /\ \A i \in 1 .. Len(s) : r[i] = s[i]
  OBVIOUS
<1>2. \A i \in 1 .. Len(s) : s[i] # e
  BY DEF Range
<1> HIDE DEF r
<1>3. \A i, j \in 1 .. Len(r) : r[i] = r[j] => i = j
  BY <1>1, <1>2
<1>4. Range(r) = Range(s) \cup {e}
  BY <1>1 DEF Range
<1> QED
  BY <1>1, <1>3, <1>4 DEF r

LEMMA MigStep ==
  ASSUME MigInv, [MigNext]_migVars
  PROVE  MigInv'
<1> DEFINE T == Range(Migrations) \cup {Ledger}
<1>0. /\ tables \in Seq(T) /\ \A i, j \in 1 .. Len(tables) : tables[i] = tables[j] => i = j
      /\ overlapped \in BOOLEAN /\ DOMAIN op = Deployer
      /\ \A d \in Deployer : Holding(op[d])
      /\ Ledger \notin Range(Migrations) /\ Len(tables) \in Nat
  BY MigratorAssumption DEF MigInv, MigType
<1>1. CASE UNCHANGED migVars
  <2>1. MigType'
    BY <1>0, <1>1 DEF migVars, MigType
  <2>2. Orderly => Orderly'
    BY <1>1 DEF migVars, Orderly, LedgerFirst, LedgerOlder, FreshAlone, Accounted, MAt, Exists
  <2> QED
    BY <1>1, <2>1, <2>2 DEF migVars, MigInv
<1>2. ASSUME NEW d \in Deployer, NEW to, MGo(d, to), MigNext,
             MAt(d, "idle") => to.pc # "idle",
             Holding(to),
             tables' \in Seq(T), \A i, j \in 1 .. Len(tables') : tables'[i] = tables'[j] => i = j,
             ~ overlapped /\ Orderly =>
               /\ \A m \in DOMAIN rows' : LedgerOlder(m)' \/ m \in survived \cap Tolerant
               /\ Exists(Ledger)' \/ DOMAIN rows' = {}
               /\ \/ to.pc = "drop" \/ \E e \in Deployer : MAt(e, "drop")
                  \/ \A t \in Range(tables') \ {Ledger} : t \in DOMAIN rows' \cup (survived \ DOMAIN rows)
               /\ MAt(d, "drop") /\ to.pc \notin {"drop", "idle"} => tables' = << >>
               /\ to.pc = "drop" => to.left = tables'
      PROVE  MigInv'
  <2>1. op' = [op EXCEPT ![d] = to]
    BY <1>2 DEF MGo
  <2>2. /\ overlapped' = (overlapped \/ \E e \in Deployer : \E f \in Deployer \ {e} :
                            op'[e].pc \in {"drop", "dropped"} /\ op'[f].pc # "idle")
        /\ survived' = IF tables' = <<>> \/ overlapped' THEN {}
                       ELSE (survived \ (DOMAIN rows \ DOMAIN rows'))
                              \cup {t \in Range(tables') :
                                      \E e \in Deployer : MAt(e, "drop") /\ op'[e].pc = "idle"}
    BY <1>2 DEF MigNext
  <2>3. /\ DOMAIN op' = Deployer /\ op'[d] = to
        /\ \A e \in Deployer \ {d} : op'[e] = op[e]
    BY <1>0, <2>1
  <2>4. MigType'
    BY <1>0, <1>2, <2>2, <2>3 DEF MigType, MAt
  <2>5. ASSUME ~ overlapped' PROVE Orderly'
    <3>1. ~ overlapped /\ Orderly /\ FreshAlone
      BY <1>0, <2>2, <2>5 DEF MigInv, Orderly
    <3>2. \A e \in Deployer : op'[e].pc \in {"drop", "dropped"} =>
            \A f \in Deployer \ {e} : op'[f].pc = "idle"
      BY <2>2, <2>5
    <3>3. ASSUME NEW e \in Deployer, op'[e].pc = "drop" PROVE op'[e].left = tables'
      <4>1. CASE e = d
        BY <1>2, <2>3, <3>1, <3>3, <4>1
      <4>2. CASE e # d
        <5>1. op[e].pc = "drop" /\ op[d].pc = "idle" /\ to.pc = "idle"
          BY <2>3, <3>1, <3>2, <3>3, <4>2 DEF FreshAlone, MAt
        <5> QED
          BY <1>2, <5>1 DEF MAt
      <4> QED
        BY <4>1, <4>2
    <3>4. FreshAlone'
      BY <3>2, <3>3 DEF FreshAlone, MAt
    <3>5. Exists(Ledger)' \/ DOMAIN rows' = {}
      BY <1>2, <3>1
    <3>6. tables' = << >> => DOMAIN rows' = {} /\ Range(tables') = {}
      BY <3>5 DEF Exists, Range
    <3>7. tables' # << >> => survived \ (DOMAIN rows \ DOMAIN rows') \subseteq survived'
      BY <2>2, <2>5
    <3>8. LedgerFirst'
      BY <1>2, <3>1, <3>6, <3>7 DEF LedgerFirst
    <3>9. \/ \E e \in Deployer : op'[e].pc = "drop"
          \/ \A t \in Range(tables') \ {Ledger} : t \in DOMAIN rows' \cup survived'
      <4>1. CASE tables' = << >>
        BY <3>6, <4>1
      <4>2. CASE tables' # << >> /\ to.pc = "drop"
        BY <2>3, <4>2
      <4>3. CASE tables' # << >> /\ to.pc # "drop"
        <5>1. CASE \E e \in Deployer : MAt(e, "drop")
          <6>1. PICK e \in Deployer : MAt(e, "drop")
            BY <5>1
          <6>2. CASE e = d
            <7>1. to.pc = "idle"
              BY <1>2, <3>1, <4>3, <6>1, <6>2
            <7>2. Range(tables') \subseteq survived'
              BY <2>2, <2>3, <2>5, <4>3, <6>1, <6>2, <7>1
            <7> QED
              BY <7>2
          <6>3. CASE e # d
            BY <2>3, <6>1, <6>3 DEF MAt
          <6> QED
            BY <6>2, <6>3
        <5>2. CASE ~ \E e \in Deployer : MAt(e, "drop")
          BY <1>2, <3>1, <3>7, <4>3, <5>2
        <5> QED
          BY <5>1, <5>2
      <4> QED
        BY <4>1, <4>2, <4>3
    <3> QED
      BY <3>4, <3>5, <3>8, <3>9 DEF Orderly, Accounted, MAt
  <2> QED
    BY <2>4, <2>5 DEF MigInv
\* A step that leaves tables and rows alone.
<1>3. ASSUME NEW d \in Deployer, NEW to, MGo(d, to), MigNext, UNCHANGED <<tables, rows>>,
             MAt(d, "idle") => to.pc # "idle",
             Holding(to),
             to.pc = "drop" => MAt(d, "idle") /\ to.left = tables,
             MAt(d, "drop") /\ to.pc # "idle" => op[d].left = << >>
      PROVE  MigInv'
  <2>1. ASSUME Orderly
        PROVE  /\ \A m \in DOMAIN rows' : LedgerOlder(m)' \/ m \in survived \cap Tolerant
               /\ Exists(Ledger)' \/ DOMAIN rows' = {}
               /\ \/ \E e \in Deployer : MAt(e, "drop")
                  \/ \A t \in Range(tables') \ {Ledger} : t \in DOMAIN rows' \cup (survived \ DOMAIN rows)
               /\ MAt(d, "drop") /\ to.pc \notin {"drop", "idle"} => tables' = << >>
    BY <1>3, <2>1 DEF Orderly, LedgerFirst, LedgerOlder, FreshAlone, Accounted, Exists
  <2> QED
    BY <1>0, <1>2, <1>3, <2>1
<1>4. ASSUME NEW d \in Deployer, MFail(d), MigNext, ~ MAt(d, "idle")
      PROVE  MigInv'
  BY <1>3, <1>4 DEF MFail, MIdle, Holding
\* One table more at the end, or the tables there are.
<1>L. ASSUME NEW e \in T, tables' = WithTable(e)
      PROVE  /\ tables' \in Seq(T) /\ \A i, j \in 1 .. Len(tables') : tables'[i] = tables'[j] => i = j
             /\ Range(tables') = Range(tables) \cup {e}
             /\ \A m : LedgerOlder(m) => LedgerOlder(m)'
             /\ Exists(Ledger) /\ ~ Exists(e) => LedgerOlder(e)'
  <2>1. CASE Exists(e)
    BY <1>0, <1>L, <2>1 DEF WithTable, Exists, LedgerOlder
  <2>2. CASE ~ Exists(e)
    <3>1. tables' = Append(tables, e)
      BY <1>L, <2>2 DEF WithTable
    <3>2. /\ tables' \in Seq(T) /\ \A i, j \in 1 .. Len(tables') : tables'[i] = tables'[j] => i = j
          /\ Len(tables') = Len(tables) + 1 /\ tables'[Len(tables')] = e
          /\ \A i \in 1 .. Len(tables) : tables'[i] = tables[i]
          /\ Range(tables') = Range(tables) \cup {e}
      BY <1>0, <1>L, <2>2, <3>1, AppendFresh DEF Exists
    <3>3. ASSUME NEW m, LedgerOlder(m) PROVE LedgerOlder(m)'
      <4>1. PICK i \in 1 .. Len(tables), j \in 1 .. Len(tables) :
              i < j /\ tables[i] = Ledger /\ tables[j] = m
        BY <3>3 DEF LedgerOlder
      <4>2. i \in 1 .. Len(tables') /\ j \in 1 .. Len(tables')
        BY <1>0, <3>2
      <4>3. tables'[i] = Ledger /\ tables'[j] = m
        BY <3>2, <4>1
      <4> QED
        BY <4>1, <4>2, <4>3 DEF LedgerOlder
    <3>4. ASSUME Exists(Ledger) PROVE LedgerOlder(e)'
      <4>1. PICK l \in 1 .. Len(tables) : tables[l] = Ledger
        BY <1>0, <3>4 DEF Exists, Range
      <4>2. l \in 1 .. Len(tables') /\ Len(tables') \in 1 .. Len(tables') /\ l < Len(tables')
        BY <1>0, <3>2
      <4>3. tables'[l] = Ledger
        BY <3>2, <4>1
      <4> QED
        BY <3>2, <4>2, <4>3 DEF LedgerOlder
    <3> QED
      BY <3>2, <3>3, <3>4
  <2> QED
    BY <2>1, <2>2
<1>5. ASSUME NEW d \in Deployer, NEW command \in {"run", "rollback"}, Ensure(d, command), MigNext
      PROVE  MigInv'
  <2> DEFINE to == [pc |-> command]
  <2>1. MGo(d, to) /\ tables' = WithTable(Ledger) /\ rows' = rows /\ ~ MAt(d, "drop")
    BY <1>5 DEF Ensure, MAt
  <2>2. to.pc \in {"run", "rollback"} /\ Holding(to)
    BY DEF Holding
  <2> HIDE DEF to
  <2>3. /\ tables' \in Seq(T) /\ \A i, j \in 1 .. Len(tables') : tables'[i] = tables'[j] => i = j
        /\ Range(tables') = Range(tables) \cup {Ledger}
        /\ \A m : LedgerOlder(m) => LedgerOlder(m)'
    BY <1>L, <2>1
  <2>4. ASSUME Orderly
        PROVE  /\ \A m \in DOMAIN rows' : LedgerOlder(m)' \/ m \in survived \cap Tolerant
               /\ Exists(Ledger)'
               /\ \/ \E e \in Deployer : MAt(e, "drop")
                  \/ \A t \in Range(tables') \ {Ledger} : t \in DOMAIN rows' \cup (survived \ DOMAIN rows)
    BY <2>1, <2>3, <2>4 DEF Orderly, LedgerFirst, Accounted, Exists
  <2>5. to.pc # "drop" /\ to.pc # "idle"
    BY <2>2
  <2> QED
    BY <1>2, <1>5, <2>1, <2>2, <2>3, <2>4, <2>5
<1>6. ASSUME NEW d \in Deployer, RunPending(d), MigNext
      PROVE  MigInv'
  <2> DEFINE to == [pc |-> "batch", pending |-> Range(Migrations) \ DOMAIN rows]
  <2>1. Holding(MIdle) /\ Holding(to) /\ MIdle.pc = "idle" /\ to.pc = "batch" /\ ~ MAt(d, "idle")
        /\ ~ MAt(d, "drop")
    BY <1>6 DEF Holding, MIdle, RunPending, MAt
  <2>2. (MGo(d, to) \/ MGo(d, MIdle)) /\ UNCHANGED <<tables, rows>>
    BY <1>6 DEF RunPending
  <2> HIDE DEF to
  <2> QED
    BY <1>3, <1>6, <2>1, <2>2
<1>7. ASSUME NEW d \in Deployer, RunBatch(d), MigNext
      PROVE  MigInv'
  <2> DEFINE to == [pc |-> "apply", pending |-> op[d].pending, batch |-> max_batch + 1]
  <2>1. Holding(MIdle) /\ Holding(to) /\ MIdle.pc = "idle" /\ to.pc = "apply" /\ ~ MAt(d, "idle")
        /\ ~ MAt(d, "drop")
    BY <1>0, <1>7 DEF Holding, MIdle, RunBatch, MAt
  <2>2. (MGo(d, to) \/ MGo(d, MIdle)) /\ UNCHANGED <<tables, rows>>
    BY <1>7 DEF RunBatch
  <2> HIDE DEF to
  <2> QED
    BY <1>3, <1>7, <2>1, <2>2
<1>8. ASSUME NEW d \in Deployer, RollbackBatch(d), MigNext
      PROVE  MigInv'
  <2> DEFINE to == [pc |-> "names", batch |-> max_batch]
  <2>1. Holding(MIdle) /\ Holding(to) /\ MIdle.pc = "idle" /\ to.pc = "names" /\ ~ MAt(d, "idle")
        /\ ~ MAt(d, "drop")
    BY <1>8 DEF Holding, MIdle, RollbackBatch, MAt
  <2>2. (MGo(d, to) \/ MGo(d, MIdle)) /\ UNCHANGED <<tables, rows>>
    BY <1>8 DEF RollbackBatch
  <2> HIDE DEF to
  <2> QED
    BY <1>3, <1>8, <2>1, <2>2
<1>9. ASSUME NEW d \in Deployer, RollbackNames(d), MigNext
      PROVE  MigInv'
  <2> DEFINE names == {m \in Range(Migrations) \cap DOMAIN rows : rows[m] = op[d].batch}
             to    == [pc |-> "undo", names |-> names]
  <2>1. Holding(MIdle) /\ Holding(to) /\ MIdle.pc = "idle" /\ to.pc = "undo" /\ ~ MAt(d, "idle")
        /\ ~ MAt(d, "drop")
    BY <1>9 DEF Holding, MIdle, RollbackNames, MAt
  <2>2. (MGo(d, to) \/ MGo(d, MIdle)) /\ UNCHANGED <<tables, rows>>
    BY <1>9 DEF RollbackNames
  <2> HIDE DEF to
  <2> QED
    BY <1>3, <1>9, <2>1, <2>2
<1>10. ASSUME NEW d \in Deployer, FreshList(d), MigNext
       PROVE  MigInv'
  <2> DEFINE to == [pc |-> "drop", left |-> tables]
  <2>1. Holding(to) /\ to.pc = "drop" /\ to.left = tables
    BY <1>0 DEF Holding
  <2>2. MGo(d, to) /\ MAt(d, "idle") /\ ~ MAt(d, "drop") /\ UNCHANGED <<tables, rows>>
    BY <1>10 DEF FreshList, table_names, MAt
  <2> HIDE DEF to
  <2> QED
    BY <1>3, <1>10, <2>1, <2>2
<1>11. ASSUME NEW d \in Deployer, FreshDropped(d), MigNext
       PROVE  MigInv'
  <2> DEFINE to == [pc |-> "dropped"]
  <2>1. Holding(to) /\ to.pc = "dropped"
    BY DEF Holding
  <2>2. MGo(d, to) /\ op[d].left = << >> /\ UNCHANGED <<tables, rows>>
    BY <1>11 DEF FreshDropped
  <2> HIDE DEF to
  <2> QED
    BY <1>3, <1>11, <2>1, <2>2
<1>12. ASSUME NEW d \in Deployer, MCrash(d), MigNext
       PROVE  MigInv'
  BY <1>4, <1>12 DEF MCrash
<1>13. ASSUME NEW d \in Deployer, FreshSchema(d), MigNext
       PROVE  MigInv'
  <2> DEFINE to == [pc |-> "dropped"]
  <2>0. Holding(to) /\ to.pc = "dropped"
    BY DEF Holding
  <2>1. MGo(d, to) /\ tables' = << >> /\ rows' = << >>
    BY <1>13 DEF FreshSchema
  <2> HIDE DEF to
  <2>2. << >> \in Seq(T) /\ Len(<< >>) = 0 /\ DOMAIN << >> = {}
    OBVIOUS
  <2>3. DOMAIN rows' = {} /\ Range(tables') = {}
    BY <2>1, <2>2 DEF Range
  <2> QED
    BY <1>2, <1>13, <2>0, <2>1, <2>2, <2>3
<1>14. ASSUME NEW d \in Deployer, RunApply(d), MigNext
       PROVE  MigInv'
  <2>1. MAt(d, "apply") /\ ~ MAt(d, "idle") /\ ~ MAt(d, "drop")
    BY <1>14 DEF RunApply, MAt
  <2>2. PICK m \in FirstOf(op[d].pending) :
          IF (m \in Tolerant \/ ~ Exists(m)) /\ Exists(Ledger) /\ m \notin DOMAIN rows
          THEN /\ tables' = WithTable(m)
               /\ rows' = [n \in DOMAIN rows \cup {m} |-> IF n = m THEN op[d].batch ELSE rows[n]]
               /\ MGo(d, IF op[d].pending = {m} THEN MIdle
                         ELSE [op[d] EXCEPT !.pending = @ \ {m}])
          ELSE MFail(d)
    BY <1>14 DEF RunApply
  <2>3. CASE ~ ((m \in Tolerant \/ ~ Exists(m)) /\ Exists(Ledger) /\ m \notin DOMAIN rows)
    BY <1>4, <1>14, <2>1, <2>2, <2>3
  <2>4. CASE (m \in Tolerant \/ ~ Exists(m)) /\ Exists(Ledger) /\ m \notin DOMAIN rows
    <3> DEFINE to == IF op[d].pending = {m} THEN MIdle ELSE [op[d] EXCEPT !.pending = @ \ {m}]
    <3>1. MGo(d, to) /\ tables' = WithTable(m) /\ DOMAIN rows' = DOMAIN rows \cup {m}
      BY <2>2, <2>4
    <3>2. to.pc \in {"idle", "apply"} /\ Holding(to)
      <4>1. Holding(op[d]) /\ op[d].pc = "apply"
        BY <1>0, <2>1 DEF MAt
      <4>2. op[d] = [pc |-> "apply", pending |-> op[d].pending, batch |-> op[d].batch]
            /\ op[d].pending \subseteq Range(Migrations)
        BY <4>1 DEF Holding
      <4>3. [op[d] EXCEPT !.pending = @ \ {m}]
              = [pc |-> "apply", pending |-> op[d].pending \ {m}, batch |-> op[d].batch]
        BY <4>2
      <4> QED
        BY <4>2, <4>3 DEF Holding, MIdle
    <3> HIDE DEF to
    <3>3. m \in T /\ m # Ledger
      BY <1>0, <2>1 DEF FirstOf, Holding, MAt
    <3>4. /\ tables' \in Seq(T) /\ \A i, j \in 1 .. Len(tables') : tables'[i] = tables'[j] => i = j
          /\ Range(tables') = Range(tables) \cup {m}
          /\ \A n : LedgerOlder(n) => LedgerOlder(n)'
          /\ ~ Exists(m) => LedgerOlder(m)'
      BY <1>L, <2>4, <3>1, <3>3
    <3>5. ASSUME Orderly, Exists(m) PROVE m \in survived \cap Tolerant
      <4>1. \A e \in Deployer : ~ MAt(e, "drop")
        BY <2>1, <3>5 DEF Orderly, FreshAlone, MAt
      <4> QED
        BY <2>4, <3>3, <3>5, <4>1 DEF Orderly, Accounted, Exists
    <3>6. ASSUME Orderly
          PROVE  /\ \A n \in DOMAIN rows' : LedgerOlder(n)' \/ n \in survived \cap Tolerant
                 /\ Exists(Ledger)'
                 /\ \/ \E e \in Deployer : MAt(e, "drop")
                    \/ \A t \in Range(tables') \ {Ledger} : t \in DOMAIN rows' \cup (survived \ DOMAIN rows)
      <4>1. \A n \in DOMAIN rows' : LedgerOlder(n)' \/ n \in survived \cap Tolerant
        BY <3>1, <3>4, <3>5, <3>6 DEF Orderly, LedgerFirst
      <4>2. Exists(Ledger)'
        BY <2>4, <3>4 DEF Exists
      <4>3. \/ \E e \in Deployer : MAt(e, "drop")
            \/ \A t \in Range(tables') \ {Ledger} : t \in DOMAIN rows' \cup (survived \ DOMAIN rows)
        BY <3>1, <3>4, <3>6 DEF Orderly, Accounted
      <4> QED
        BY <4>1, <4>2, <4>3
    <3>7. to.pc # "drop"
      BY <3>2
    <3> QED
      BY <1>2, <1>14, <2>1, <3>1, <3>2, <3>4, <3>6, <3>7
  <2> QED
    BY <2>3, <2>4
<1>15. ASSUME NEW e, e # Ledger, tables' = RemoveFirst(tables, e), NEW n, n # e, LedgerOlder(n)
       PROVE  LedgerOlder(n)'
  <2>1. PICK i \in 1 .. Len(tables), j \in 1 .. Len(tables) :
          i < j /\ tables[i] = Ledger /\ tables[j] = n
    BY <1>15 DEF LedgerOlder
  <2>2. \A a, b \in 1 .. Len(tables) : a < b /\ tables[a] # e /\ tables[b] # e =>
          \E f, g \in 1 .. Len(tables') : f < g /\ tables'[f] = tables[a] /\ tables'[g] = tables[b]
    <3> DEFINE r == RemoveFirst(tables, e)
    <3>1. \A a, b \in 1 .. Len(tables) : a < b /\ tables[a] # e /\ tables[b] # e =>
            \E f, g \in 1 .. Len(r) : f < g /\ r[f] = tables[a] /\ r[g] = tables[b]
      BY <1>0, RemoveFacts
    <3>2. tables' = r
      BY <1>15
    <3> HIDE DEF r
    <3> QED
      BY <3>1, <3>2
  <2>3. tables[i] # e /\ tables[j] # e
    BY <1>15, <2>1
  <2> QED
    BY <2>1, <2>2, <2>3 DEF LedgerOlder
<1>16. ASSUME NEW d \in Deployer, RollbackUndo(d), MigNext
       PROVE  MigInv'
  <2>1. MAt(d, "undo") /\ ~ MAt(d, "idle") /\ ~ MAt(d, "drop")
    BY <1>16 DEF RollbackUndo, MAt
  <2>2. PICK m \in LastOf(op[d].names) :
          IF m \notin Irreversible /\ Exists(Ledger)
          THEN /\ tables' = RemoveFirst(tables, m)
               /\ rows' = [n \in DOMAIN rows \ {m} |-> rows[n]]
               /\ MGo(d, IF op[d].names = {m} THEN MIdle ELSE [op[d] EXCEPT !.names = @ \ {m}])
          ELSE MFail(d)
    BY <1>16 DEF RollbackUndo
  <2>3. CASE ~ (m \notin Irreversible /\ Exists(Ledger))
    BY <1>4, <1>16, <2>1, <2>2, <2>3
  <2>4. CASE m \notin Irreversible /\ Exists(Ledger)
    <3> DEFINE to == IF op[d].names = {m} THEN MIdle ELSE [op[d] EXCEPT !.names = @ \ {m}]
    <3>1. MGo(d, to) /\ tables' = RemoveFirst(tables, m) /\ DOMAIN rows' = DOMAIN rows \ {m}
      BY <2>2, <2>4
    <3>2. m # Ledger /\ op[d].names \subseteq Range(Migrations)
      BY <1>0, <2>1 DEF LastOf, Holding, MAt
    <3>3. to.pc \in {"idle", "undo"} /\ Holding(to)
      <4>1. op[d] \in [pc : {"undo"}, names : SUBSET Range(Migrations)]
        BY <1>0, <2>1 DEF Holding, MAt
      <4>2. [op[d] EXCEPT !.names = @ \ {m}] \in [pc : {"undo"}, names : SUBSET Range(Migrations)]
        BY <4>1
      <4> QED
        BY <4>2 DEF Holding, MIdle
    <3> HIDE DEF to
    <3>4. /\ tables' \in Seq(T) /\ \A i, j \in 1 .. Len(tables') : tables'[i] = tables'[j] => i = j
          /\ Range(tables') = Range(tables) \ {m}
      BY <1>0, <3>1, RemoveFacts
    <3>5. ASSUME Orderly
          PROVE  /\ \A n \in DOMAIN rows' : LedgerOlder(n)' \/ n \in survived \cap Tolerant
                 /\ Exists(Ledger)'
                 /\ \/ \E e \in Deployer : MAt(e, "drop")
                    \/ \A t \in Range(tables') \ {Ledger} : t \in DOMAIN rows' \cup (survived \ DOMAIN rows)
      <4>1. \A n \in DOMAIN rows' : LedgerOlder(n)' \/ n \in survived \cap Tolerant
        <5>1. ASSUME NEW n, n # m, LedgerOlder(n) PROVE LedgerOlder(n)'
          BY <1>15, <3>1, <3>2, <5>1
        <5>2. \A n \in DOMAIN rows : LedgerOlder(n) \/ n \in survived \cap Tolerant
          BY <3>5 DEF Orderly, LedgerFirst
        <5>3. \A n \in DOMAIN rows' : n \in DOMAIN rows /\ n # m
          BY <3>1
        <5> QED
          BY <5>1, <5>2, <5>3
      <4>2. Exists(Ledger)'
        BY <2>4, <3>2, <3>4 DEF Exists
      <4>3. \/ \E e \in Deployer : MAt(e, "drop")
            \/ \A t \in Range(tables') \ {Ledger} : t \in DOMAIN rows' \cup (survived \ DOMAIN rows)
        <5> SUFFICES ASSUME \A e \in Deployer : ~ MAt(e, "drop"), NEW t \in Range(tables') \ {Ledger}
                     PROVE  t \in DOMAIN rows' \cup (survived \ DOMAIN rows)
          OBVIOUS
        <5>1. t \in Range(tables) \ {Ledger} /\ t # m
          BY <3>4
        <5>2. t \in DOMAIN rows \cup survived
          BY <3>5, <5>1 DEF Orderly, Accounted
        <5> QED
          BY <3>1, <5>1, <5>2
      <4> QED
        BY <4>1, <4>2, <4>3
    <3>6. to.pc # "drop"
      BY <3>3
    <3> QED
      BY <1>2, <1>16, <2>1, <3>1, <3>3, <3>4, <3>5, <3>6
  <2> QED
    BY <2>3, <2>4
<1>17. ASSUME NEW d \in Deployer, FreshDrop(d), MigNext
       PROVE  MigInv'
  <2> DEFINE t  == Head(op[d].left)
             to == [op[d] EXCEPT !.left = Tail(@)]
  <2>1. /\ MAt(d, "drop") /\ ~ MAt(d, "idle") /\ op[d].left # << >> /\ MGo(d, to)
        /\ tables' = RemoveFirst(tables, t)
        /\ rows' = IF t = Ledger THEN << >> ELSE rows
    BY <1>17 DEF FreshDrop, MAt
  <2>2. op[d] \in [pc : {"drop"}, left : Seq(T)]
    BY <1>0, <2>1 DEF Holding, MAt
  <2>3. to.pc = "drop" /\ to.left = Tail(op[d].left) /\ Holding(to)
    <3>1. Tail(op[d].left) \in Seq(T)
      BY <2>1, <2>2
    <3>2. to \in [pc : {"drop"}, left : Seq(T)] /\ to.left = Tail(op[d].left)
      BY <2>2, <3>1
    <3> QED
      BY <3>2 DEF Holding
  <2> HIDE DEF to, t
  <2>4. tables' \in Seq(T) /\ \A i, j \in 1 .. Len(tables') : tables'[i] = tables'[j] => i = j
    BY <1>0, <2>1, RemoveFacts
  <2>5. ASSUME Orderly
        PROVE  /\ \A m \in DOMAIN rows' : LedgerOlder(m)' \/ m \in survived \cap Tolerant
               /\ Exists(Ledger)' \/ DOMAIN rows' = {}
               /\ to.left = tables'
    <3>1. op[d].left = tables /\ tables # << >> /\ t = Head(tables) /\ t = tables[1]
      BY <1>0, <2>1, <2>5 DEF Orderly, FreshAlone, t
    <3>2. tables' = Tail(tables) /\ Range(tables') = Range(tables) \ {t}
      BY <1>0, <2>1, <3>1, RemoveFacts
    <3>3. CASE t = Ledger
      <4>1. DOMAIN rows' = {}
        BY <2>1, <3>3
      <4> QED
        BY <2>3, <3>1, <3>2, <4>1
    <3>4. CASE t # Ledger
      <4>1. ~ LedgerOlder(t)
        <5> SUFFICES ASSUME LedgerOlder(t) PROVE FALSE
          OBVIOUS
        <5>1. PICK i \in 1 .. Len(tables), j \in 1 .. Len(tables) :
                i < j /\ tables[i] = Ledger /\ tables[j] = t
          BY DEF LedgerOlder
        <5>2. 1 \in 1 .. Len(tables) /\ j # 1
          BY <1>0, <5>1
        <5> QED
          BY <1>0, <3>1, <5>1, <5>2
      <4>2. rows' = rows
        BY <2>1, <3>4
      <4>3. \A m \in DOMAIN rows' : LedgerOlder(m)' \/ m \in survived \cap Tolerant
        BY <1>15, <2>1, <2>5, <3>4, <4>1, <4>2 DEF Orderly, LedgerFirst
      <4>4. Exists(Ledger)' \/ DOMAIN rows' = {}
        BY <2>5, <3>2, <3>4, <4>2 DEF Orderly, Accounted, Exists
      <4> QED
        BY <2>3, <3>1, <3>2, <4>3, <4>4
    <3> QED
      BY <3>3, <3>4
  <2> QED
    BY <1>2, <1>17, <2>1, <2>3, <2>4, <2>5
<1> QED
  BY <1>1, <1>5, <1>6, <1>7, <1>8, <1>9, <1>10, <1>11, <1>12, <1>13, <1>14, <1>16, <1>17
  DEF MigNext

\* A migration the ledger records has its table, for every list of migrations
\* and every number of deployers who migrate, roll back and die between any two
\* statements, as long as no fresh runs next to another command, and except for
\* tables that an interrupted fresh left behind and an IF NOT EXISTS migration
\* recorded afterwards (migration.rs run and rollback, fresh.rs drop_all_tables).
THEOREM RecordedHasItsTable == MigSpec => []RecordedIsApplied
<1>1. MigInit => MigInv
  <2> SUFFICES ASSUME MigInit PROVE MigInv
    OBVIOUS
  <2>1. << >> \in Seq(Range(Migrations) \cup {Ledger}) /\ Len(<< >>) = 0
    OBVIOUS
  <2>2. \A d \in Deployer : op[d].pc = "idle"
    BY DEF MigInit, MIdle
  <2>3. DOMAIN rows = {}
    BY DEF MigInit
  <2> QED
    <3>1. MigType
      <4>1. tables = << >> /\ overlapped = FALSE /\ DOMAIN op = Deployer
        BY DEF MigInit
      <4>2. \A d \in Deployer : Holding(op[d])
        BY <2>2 DEF Holding
      <4>3. \A i, j \in 1 .. Len(tables) : tables[i] = tables[j] => i = j
        BY <2>1, <4>1
      <4> QED
        BY <2>1, <4>1, <4>2, <4>3 DEF MigType
    <3>2. LedgerFirst
      BY <2>3 DEF LedgerFirst
    <3>3. FreshAlone
      BY <2>2 DEF FreshAlone, MAt
    <3>4. Range(tables) = {}
      BY <2>1 DEF MigInit, Range
    <3>5. Accounted
      BY <2>3, <3>4 DEF Accounted
    <3> QED
      BY <3>1, <3>2, <3>3, <3>5 DEF MigInv, Orderly
<1>2. MigInv /\ [MigNext]_migVars => MigInv'
  BY MigStep
<1>3. MigInv => RecordedIsApplied
  BY DEF MigInv, MigType, Orderly, LedgerFirst, LedgerOlder, RecordedIsApplied, Exists, Range
<1> QED
  BY <1>1, <1>2, <1>3, PTL DEF MigSpec

-----------------------------------------------------------------------------
(* Boot. *)

\* Past the construction of the graph.
Sorting == {"kahn", "search", "register", "boot", "booted"}

BootType ==
  /\ providers \in Applications
  /\ indegree \in [Nodes -> Nat]
  /\ order \in Seq(Nodes) /\ path \in Seq(Nodes)
  /\ tried \in [Nodes -> SUBSET Nodes]
  /\ done \in SUBSET Nodes /\ root \in Nat
  /\ called \in Seq({"register", "boot"} \X Nodes)

\* Every name resolves, to another provider.
Resolved == bphase \in Sorting => \A n \in Nodes : Needs(n) \subseteq Nodes \ {n}

\* indegree counts the names whose provider is not emitted yet.
Unmet(n) == {d \in providers[n].dependencies : provider_index(d) \notin ToSet(order)}
DegreesCount ==
  bphase \in Sorting => \A n \in Nodes : indegree[n] = Cardinality(Unmet(n))

\* A provider is emitted after everything it needs.
NeedsFirst ==
  \A i \in DOMAIN order : \A m \in Needs(order[i]) :
     \E j \in DOMAIN order : j < i /\ order[j] = m

\* One emitted before a provider registered earlier is needed by it.
TiesBroken ==
  \A i \in 1 .. Len(order) - 1 : order[i + 1] < order[i] => order[i] \in Needs(order[i + 1])

\* A ready provider registered before the one just emitted waited for it.
LastWaitedFor ==
  bphase = "kahn" /\ order # <<>> =>
    \A n \in Ready : n < Last(order) => Last(order) \in Needs(n)

OrderInv ==
  /\ bphase \in {"new", "edges"} => order = <<>>
  /\ IsInjective(order)
  /\ Resolved /\ DegreesCount
  /\ NeedsFirst /\ TiesBroken /\ LastWaitedFor
  /\ bphase \in {"register", "boot", "booted"} => Len(order) = Len(providers)

\* What Kahn's algorithm leaves behind: every provider left needs another one.
Stuck ==
  /\ Residual # {}
  /\ \A n \in Residual : \E m \in Residual : n \in Consumers(m)

\* done is closed under the residual edges, and each of its subsets has a
\* provider that needs no other of that subset.
Finished ==
  /\ done \subseteq Residual
  /\ \A n \in done : Consumers(n) \cap Residual \subseteq done
  /\ \A S \in SUBSET done : S # {} => \E n \in S : \A m \in S : n \notin Consumers(m)

\* The edges tried from a node of the path lead out of the residue, to nodes
\* left for good, or to the next node of the path.
Trail ==
  /\ IsInjective(path)
  /\ \A i \in DOMAIN path :
       /\ path[i] \in Residual
       /\ i + 1 \in DOMAIN path => path[i + 1] \in Consumers(path[i])
       /\ \A t \in tried[path[i]] :
            t \in Residual \ done => i + 1 \in DOMAIN path /\ t = path[i + 1]
  /\ \A n \in Residual : n <= root => n \in done \cup ToSet(path)

SearchInv ==
  /\ bphase \notin {"search", "cycle"} => path = <<>> /\ done = {} /\ root = 0
  /\ bphase = "search" => Stuck /\ Finished /\ Trail

\* The calls made are the first calls of the two passes.
CallsInv ==
  /\ \A i \in DOMAIN called :
       called[i] = IF i <= Len(order) THEN <<"register", order[i]>>
                   ELSE <<"boot", order[i - Len(order)]>>
  /\ bphase \notin {"register", "boot", "booted"} => called = <<>>
  /\ bphase = "register" => Len(called) <= Len(order)
  /\ bphase = "boot" => Len(order) <= Len(called) /\ Len(called) <= 2 * Len(order)
  /\ bphase = "booted" => Len(called) = 2 * Len(order)

\* The reported names form a ring.
RingInv ==
  bphase = "cycle" =>
    /\ cycle # <<>> /\ IsInjective(cycle)
    /\ \A i \in DOMAIN cycle : cycle[i] \in Needs(cycle[(i % Len(cycle)) + 1])

\* The inductive invariant.
BootInv == BootType /\ OrderInv /\ SearchInv /\ CallsInv /\ RingInv

\* The graph is fixed while the providers are.
LEMMA GraphFixed ==
  ASSUME UNCHANGED providers
  PROVE  /\ Nodes' = Nodes
         /\ \A d : provider_index(d)' = provider_index(d)
         /\ \A n : Needs(n)' = Needs(n)
         /\ \A n : Consumers(n)' = Consumers(n)
<1>1. Nodes' = Nodes
  BY DEF Nodes
<1>2. ASSUME NEW d PROVE provider_index(d)' = provider_index(d)
  <2> DEFINE named == {n \in Nodes : d \in providers[n].names}
  <2>1. named' = named
    BY <1>1
  <2> HIDE DEF named
  <2>2. /\ provider_index(d) = IF named = {} THEN NoProvider ELSE Min(named)
        /\ provider_index(d)' = IF named' = {} THEN NoProvider ELSE Min(named')
    BY DEF provider_index, named
  <2> QED
    BY <2>1, <2>2
<1>3. ASSUME NEW n PROVE Needs(n)' = Needs(n)
  BY <1>2 DEF Needs
<1>4. ASSUME NEW n PROVE Consumers(n)' = Consumers(n)
  BY <1>1, <1>3 DEF Consumers
<1> QED
  BY <1>1, <1>2, <1>3, <1>4

\* Consumers is Needs read backwards.
LEMMA EdgeOf ==
  ASSUME NEW n, NEW m
  PROVE  m \in Consumers(n) <=> m \in Nodes /\ n \in Needs(m)
BY DEF Consumers

\* The nodes are the registration indices.
LEMMA NodesAre ==
  ASSUME BootType
  PROVE  /\ Len(providers) \in Nat /\ Nodes = 1 .. Len(providers)
         /\ Nodes \subseteq Nat /\ NoProvider \notin Nodes
         /\ \A n \in Nodes : n \in Nat /\ n > 0 /\ IsFiniteSet(providers[n].dependencies)
BY BootAssumption DEF BootType, Nodes

\* Min picks the provider registered first.
LEMMA LeastNode ==
  ASSUME BootType, NEW S \in SUBSET Nodes, S # {}
  PROVE  Min(S) \in S /\ Min(S) \in Nodes /\ \A y \in S : Min(S) <= y
<1>1. S \in SUBSET Int /\ \A x \in S : 0 <= x
  BY NodesAre
<1>2. Min(S) \in S /\ \A y \in S : Min(S) <= y
  BY <1>1, MinOfBounded
<1> QED
  BY <1>2

\* Membership in a sequence.
LEMMA Membership ==
  ASSUME NEW T, NEW s \in Seq(T)
  PROVE  /\ Len(s) \in Nat /\ DOMAIN s = 1 .. Len(s)
         /\ \A i \in DOMAIN s : s[i] \in T
         /\ ToSet(s) \subseteq T
         /\ \A e : Contains(s, e) <=> e \in ToSet(s)
         /\ \A e : e \in ToSet(s) <=> \E i \in DOMAIN s : s[i] = e
         /\ s # <<>> => Len(s) \in DOMAIN s /\ Last(s) = s[Len(s)]
<1>1. Len(s) \in Nat /\ DOMAIN s = 1 .. Len(s) /\ \A i \in DOMAIN s : s[i] \in T
  BY LenProperties, ElementOfSeq
<1>2. s # <<>> => Len(s) \in DOMAIN s
  BY <1>1, EmptySeq
<1> QED
  BY <1>1, <1>2 DEF ToSet, Contains, Last

\* The set of an extended sequence.
LEMMA SetOfAppend ==
  ASSUME NEW T, NEW s \in Seq(T), NEW e \in T, NEW a \in Seq(T),
         Len(a) = Len(s) + 1, \A i \in DOMAIN s : a[i] = s[i], a[Len(s) + 1] = e
  PROVE  /\ a # <<>> /\ Last(a) = e
         /\ ToSet(a) = ToSet(s) \cup {e}
         /\ IsInjective(s) /\ e \notin ToSet(s) => IsInjective(a)
<1>1. /\ Len(s) \in Nat /\ a # <<>>
      /\ DOMAIN s = 1 .. Len(s) /\ DOMAIN a = 1 .. Len(s) + 1
      /\ \A i \in DOMAIN s : i \in DOMAIN a /\ a[i] = s[i]
      /\ Len(s) + 1 \in DOMAIN a /\ a[Len(s) + 1] = e
      /\ \A i \in DOMAIN a : (i \in DOMAIN s /\ a[i] = s[i]) \/ (i = Len(s) + 1 /\ a[i] = e)
  BY LenProperties
<1>2. Last(a) = e
  BY <1>1 DEF Last
<1>3. ToSet(a) = ToSet(s) \cup {e}
  BY <1>1 DEF ToSet
<1>4. ASSUME IsInjective(s), e \notin ToSet(s) PROVE IsInjective(a)
  BY <1>1, <1>4 DEF IsInjective, ToSet
<1> QED
  BY <1>1, <1>2, <1>3, <1>4

\* An injective sequence has as many elements as places.
LEMMA InjectiveLength ==
  ASSUME NEW T, NEW s \in Seq(T), IsInjective(s)
  PROVE  IsFiniteSet(ToSet(s)) /\ Cardinality(ToSet(s)) = Len(s)
<1>1. Len(s) \in Nat /\ DOMAIN s = 1 .. Len(s) /\ s \in [1 .. Len(s) -> T]
  BY LenProperties
<1>2. IsFiniteSet(1 .. Len(s)) /\ Cardinality(1 .. Len(s)) = Len(s)
  BY <1>1, FS_Interval
<1>3. ExistsBijection(1 .. Len(s), ToSet(s))
  <2>1. s \in [1 .. Len(s) -> ToSet(s)]
    BY <1>1 DEF ToSet
  <2>2. s \in Injection(1 .. Len(s), ToSet(s))
    BY <1>1, <2>1 DEF Injection, IsInjective
  <2>3. s \in Surjection(1 .. Len(s), ToSet(s))
    BY <1>1, <2>1 DEF Surjection, ToSet
  <2> QED
    BY <2>2, <2>3 DEF ExistsBijection, Bijection
<1> QED
  BY <1>2, <1>3, FS_Bijection

\* The place of an element of an injective sequence.
LEMMA PlaceOf ==
  ASSUME NEW T, NEW s \in Seq(T), IsInjective(s), NEW k \in DOMAIN s
  PROVE  LET I == {i \in 1 .. Len(s) : s[i] = s[k]} IN I # {} /\ Min(I) = k
<1>1. k \in Nat /\ k \in 1 .. Len(s)
  BY LenProperties
<1>2. {i \in 1 .. Len(s) : s[i] = s[k]} = {k}
  BY <1>1, LenProperties DEF IsInjective
<1>3. Min({k}) = k
  BY <1>1 DEF Min
<1> QED
  BY <1>2, <1>3

\* Steps that leave the graph, the degrees and the order alone.
LEMMA OrderStays ==
  ASSUME OrderInv, UNCHANGED <<providers, indegree, order>>,
         bphase' \in Sorting => bphase \in Sorting,
         bphase' \in {"new", "edges"} => bphase \in {"new", "edges"},
         bphase' = "kahn" => bphase = "kahn",
         bphase' \in {"register", "boot", "booted"} => Len(order) = Len(providers)
  PROVE  OrderInv'
<1>1. /\ Nodes' = Nodes /\ \A d : provider_index(d)' = provider_index(d)
      /\ \A n : Needs(n)' = Needs(n)
  BY GraphFixed
<1>2. Resolved' /\ NeedsFirst' /\ TiesBroken'
  BY <1>1 DEF OrderInv, Resolved, NeedsFirst, TiesBroken
<1>3. DegreesCount'
  <2>1. ASSUME NEW n PROVE Unmet(n)' = Unmet(n)
    BY <1>1 DEF Unmet
  <2> QED
    BY <1>1, <2>1 DEF OrderInv, DegreesCount
<1>4. LastWaitedFor'
  <2>1. Ready' = Ready
    BY <1>1 DEF Ready
  <2> QED
    BY <1>1, <2>1 DEF OrderInv, LastWaitedFor
<1> QED
  BY <1>2, <1>3, <1>4 DEF OrderInv

\* Steps before the two passes.
LEMMA CallsStay ==
  ASSUME CallsInv, UNCHANGED called, bphase \notin {"register", "boot", "booted"},
         bphase' \notin {"boot", "booted"}, order \in Seq(Nodes), (order \in Seq(Nodes))'
  PROVE  CallsInv'
<1>1. called = <<>> /\ called' = <<>>
  BY DEF CallsInv
<1>2. Len(<<>>) = 0 /\ DOMAIN <<>> = {} /\ Len(order') >= 0
  OBVIOUS
<1> QED
  BY <1>1, <1>2 DEF CallsInv

LEMMA MountStep ==
  ASSUME BootInv, mount_config
  PROVE  BootInv'
<1>1. /\ bphase = "new" /\ bphase' \in {"edges", "config_error"}
      /\ UNCHANGED <<providers, indegree, order, called, path, tried, done, root, cycle>>
  BY DEF mount_config, search
<1>2. BootType'
  BY <1>1, GraphFixed DEF BootInv, BootType
<1>3. OrderInv'
  BY <1>1, OrderStays DEF BootInv, Sorting
<1>4. CallsInv'
  BY <1>1, <1>2, CallsStay DEF BootInv, BootType
<1>5. SearchInv' /\ RingInv'
  BY <1>1 DEF BootInv, SearchInv, RingInv
<1> QED
  BY <1>2, <1>3, <1>4, <1>5 DEF BootInv

LEMMA EdgesStep ==
  ASSUME BootInv, Edges
  PROVE  BootInv'
<1>1. /\ bphase = "edges" /\ order = <<>>
      /\ UNCHANGED <<providers, order, called, path, tried, done, root>>
  BY DEF Edges, BootInv, OrderInv
<1>2. /\ Nodes' = Nodes /\ \A d : provider_index(d)' = provider_index(d)
      /\ \A n : Needs(n)' = Needs(n)
  BY <1>1, GraphFixed
<1>3. CASE \E n \in Nodes : Faulty(n)
  <2>1. PICK n \in Nodes : n = Min({x \in Nodes : Faulty(x)})
    BY <1>3, LeastNode DEF BootInv
  <2>2. /\ bphase' \in {"unknown", "cycle"} /\ UNCHANGED indegree
        /\ bphase' = "cycle" => n \in Needs(n) /\ cycle' = <<n>>
    BY <1>3, <2>1 DEF Edges
  <2>3. BootType'
    BY <1>1, <1>2, <2>2 DEF BootInv, BootType
  <2>4. OrderInv'
    BY <1>1, <2>2, OrderStays DEF BootInv, Sorting
  <2>5. CallsInv'
    BY <1>1, <2>2, <2>3, CallsStay DEF BootInv, BootType
  <2>6. SearchInv'
    BY <1>1, <2>2 DEF BootInv, SearchInv
  <2>7. RingInv'
    <3>1. <<n>> # <<>> /\ DOMAIN <<n>> = {1} /\ Len(<<n>>) = 1 /\ <<n>>[1] = n /\ 1 % 1 = 0
      OBVIOUS
    <3> SUFFICES ASSUME bphase' = "cycle" PROVE RingInv'
      BY DEF RingInv
    <3>2. cycle' = <<n>> /\ n \in Needs(n)'
      BY <1>2, <2>2
    <3>3. \A i \in DOMAIN cycle' : cycle'[i] = n /\ cycle'[(i % Len(cycle')) + 1] = n
      BY <3>1, <3>2
    <3>4. (cycle # <<>> /\ IsInjective(cycle))'
      BY <3>1, <3>2 DEF IsInjective
    <3> QED
      BY <3>2, <3>3, <3>4 DEF RingInv
  <2> QED
    BY <2>3, <2>4, <2>5, <2>6, <2>7 DEF BootInv
<1>4. CASE ~ \E n \in Nodes : Faulty(n)
  <2>1. /\ bphase' = "kahn" /\ UNCHANGED cycle
        /\ indegree' = [n \in Nodes |-> Cardinality(providers[n].dependencies)]
    BY <1>4 DEF Edges
  <2>2. BootType'
    <3>1. \A n \in Nodes : Cardinality(providers[n].dependencies) \in Nat
      BY NodesAre, FS_CardinalityType DEF BootInv
    <3> QED
      BY <1>1, <1>2, <2>1, <3>1 DEF BootInv, BootType
  <2>3. Resolved'
    <3>1. ASSUME NEW n \in Nodes, NEW m \in Needs(n) PROVE m \in Nodes \ {n}
      <4>1. PICK d : m = provider_index(d)
        BY DEF Needs
      <4>2. m # NoProvider /\ m # n
        BY <1>4 DEF Faulty
      <4>3. {x \in Nodes : d \in providers[x].names} # {} /\ m = Min({x \in Nodes : d \in providers[x].names})
        BY <4>1, <4>2 DEF provider_index
      <4>4. m \in Nodes
        BY <4>3, LeastNode DEF BootInv
      <4> QED
        BY <4>2, <4>4
    <3> QED
      BY <1>2, <3>1 DEF Resolved
  <2>4. DegreesCount'
    <3>1. ASSUME NEW n PROVE Unmet(n)' = providers[n].dependencies
      BY <1>1 DEF Unmet, ToSet
    <3> QED
      BY <1>2, <2>1, <3>1 DEF DegreesCount
  <2>5. OrderInv'
    <3>1. DOMAIN order' = {} /\ 1 .. Len(order') - 1 = {}
      BY <1>1
    <3> QED
      BY <1>1, <2>1, <2>3, <2>4, <3>1 DEF OrderInv, IsInjective, NeedsFirst, TiesBroken, LastWaitedFor
  <2>6. CallsInv'
    BY <1>1, <2>1, <2>2, CallsStay DEF BootInv, BootType
  <2>7. SearchInv' /\ RingInv'
    BY <1>1, <2>1 DEF BootInv, SearchInv, RingInv
  <2> QED
    BY <2>2, <2>5, <2>6, <2>7 DEF BootInv
<1> QED
  BY <1>3, <1>4

\* A provider that is emitted, or ready, has all it needs in the order.
LEMMA NothingUnmet ==
  ASSUME BootInv, bphase \in Sorting, NEW n \in Nodes
  PROVE  /\ IsFiniteSet(Unmet(n))
         /\ indegree[n] = 0 <=> Needs(n) \subseteq ToSet(order)
         /\ indegree[n] # 0 => indegree[n] > 0 /\ \E m \in Needs(n) : m \in Nodes \ ToSet(order)
         /\ n \in ToSet(order) => indegree[n] = 0
<1>1. IsFiniteSet(providers[n].dependencies)
  BY NodesAre DEF BootInv
<1>2. Unmet(n) \in SUBSET providers[n].dependencies
  BY DEF Unmet
<1>3. IsFiniteSet(Unmet(n))
  BY <1>1, <1>2, FS_Subset
<1>4. indegree[n] = Cardinality(Unmet(n)) /\ indegree[n] \in Nat
  BY DEF BootInv, BootType, OrderInv, DegreesCount
<1>5. indegree[n] = 0 <=> Unmet(n) = {}
  BY <1>3, <1>4, FS_EmptySet
<1>6. Unmet(n) = {} <=> Needs(n) \subseteq ToSet(order)
  BY DEF Unmet, Needs
<1>7. Needs(n) \subseteq Nodes
  BY DEF BootInv, OrderInv, Resolved
<1>8. n \in ToSet(order) => Needs(n) \subseteq ToSet(order)
  BY DEF BootInv, OrderInv, NeedsFirst, ToSet
<1> QED
  BY <1>3, <1>4, <1>5, <1>6, <1>7, <1>8

LEMMA KahnStep ==
  ASSUME BootInv, Kahn
  PROVE  BootInv'
<1>1. /\ bphase = "kahn" /\ bphase' = bphase /\ Ready # {} /\ bphase \in Sorting
      /\ UNCHANGED <<providers, called, path, tried, done, root, cycle>>
  BY DEF Kahn, search, Sorting
<1>2. /\ Nodes' = Nodes /\ \A d : provider_index(d)' = provider_index(d)
      /\ \A n : Needs(n)' = Needs(n)
  BY <1>1, GraphFixed
<1>3. PICK node \in Ready : node = Min(Ready) /\ node \in Nodes /\ \A n \in Ready : node <= n
  BY <1>1, LeastNode DEF Ready, BootInv
<1>4. /\ order' = Append(order, node)
      /\ indegree' = [m \in Nodes |-> indegree[m] - EdgeCount(node, m)]
  BY <1>3 DEF Kahn
<1>5. /\ order \in Seq(Nodes) /\ IsInjective(order) /\ indegree \in [Nodes -> Nat]
  BY DEF BootInv, BootType, OrderInv
<1>6. /\ Len(order) \in Nat /\ DOMAIN order = 1 .. Len(order)
      /\ \A i \in DOMAIN order : order[i] \in Nodes
      /\ \A e : Contains(order, e) <=> e \in ToSet(order)
      /\ order # <<>> => Len(order) \in DOMAIN order /\ Last(order) = order[Len(order)]
  BY <1>5, Membership
<1>7. node \notin ToSet(order) /\ indegree[node] = 0 /\ Needs(node) \subseteq ToSet(order)
  <2>1. node \notin ToSet(order) /\ indegree[node] = 0
    BY <1>3, <1>6 DEF Ready
  <2> QED
    BY <1>1, <1>3, <2>1, NothingUnmet
<1>8. /\ order' \in Seq(Nodes) /\ Len(order') = Len(order) + 1 /\ DOMAIN order' = 1 .. Len(order) + 1
      /\ \A i \in DOMAIN order : i \in DOMAIN order' /\ order'[i] = order[i] /\ i < Len(order) + 1
      /\ Len(order) + 1 \in DOMAIN order' /\ order'[Len(order) + 1] = node
      /\ \A i \in DOMAIN order' : (i \in DOMAIN order /\ order'[i] = order[i])
                                    \/ (i = Len(order) + 1 /\ order'[i] = node)
  BY <1>3, <1>4, <1>5, AppendFacts
<1>9. /\ order' # <<>> /\ Last(order') = node
      /\ ToSet(order') = ToSet(order) \cup {node} /\ IsInjective(order')
  BY <1>3, <1>5, <1>7, <1>8, SetOfAppend
<1>10. ASSUME NEW m \in Nodes
       PROVE  /\ indegree'[m] = Cardinality(Unmet(m)') /\ indegree'[m] \in Nat
              /\ indegree[m] # 0 /\ indegree'[m] = 0 => node \in Needs(m)
  <2> DEFINE E == {d \in providers[m].dependencies : provider_index(d) = node}
  <2>1. E \in SUBSET Unmet(m) /\ Unmet(m) \cap E = E
    BY <1>7 DEF Unmet
  <2>2. Unmet(m)' = Unmet(m) \ E
    BY <1>1, <1>2, <1>9 DEF Unmet
  <2>3. IsFiniteSet(Unmet(m)) /\ IsFiniteSet(E)
    BY <1>1, <2>1, NothingUnmet, FS_Subset
  <2>4. /\ Cardinality(Unmet(m) \ E) = Cardinality(Unmet(m)) - Cardinality(E)
        /\ IsFiniteSet(Unmet(m) \ E) /\ Cardinality(Unmet(m) \ E) \in Nat
    <3>1. /\ IsFiniteSet(Unmet(m) \ E)
          /\ Cardinality(Unmet(m) \ E) = Cardinality(Unmet(m)) - Cardinality(Unmet(m) \cap E)
      BY <2>3, FS_Difference
    <3> QED
      BY <2>1, <3>1, FS_CardinalityType
  <2>5. indegree[m] = Cardinality(Unmet(m))
    BY <1>1 DEF BootInv, OrderInv, DegreesCount
  <2>6. indegree'[m] = indegree[m] - Cardinality(E)
    BY <1>4 DEF EdgeCount
  <2>7. ASSUME indegree[m] # 0, indegree'[m] = 0 PROVE node \in Needs(m)
    <3>1. Cardinality(E) # 0
      BY <1>5, <2>6, <2>7
    <3>2. E # {}
      BY <3>1, FS_EmptySet
    <3> QED
      BY <3>2 DEF Needs
  <2> HIDE DEF E
  <2> QED
    BY <2>2, <2>4, <2>5, <2>6, <2>7
<1>11. BootType'
  <2>1. indegree' \in [Nodes -> Nat]
    BY <1>4, <1>10
  <2> QED
    BY <1>1, <1>2, <1>8, <2>1 DEF BootInv, BootType
<1>12. Resolved' /\ DegreesCount'
  BY <1>1, <1>2, <1>10 DEF BootInv, OrderInv, Resolved, DegreesCount
<1>13. NeedsFirst'
  <2> SUFFICES ASSUME NEW i \in DOMAIN order', NEW m \in Needs(order'[i])
               PROVE  \E j \in DOMAIN order' : j < i /\ order'[j] = m
    BY <1>2 DEF NeedsFirst
  <2>1. CASE i \in DOMAIN order /\ order'[i] = order[i]
    <3>1. PICK j \in DOMAIN order : j < i /\ order[j] = m
      BY <2>1 DEF BootInv, OrderInv, NeedsFirst
    <3> QED
      BY <1>8, <3>1
  <2>2. CASE i = Len(order) + 1 /\ order'[i] = node
    <3>1. PICK j \in DOMAIN order : order[j] = m
      BY <1>7, <2>2 DEF ToSet
    <3> QED
      BY <1>8, <2>2, <3>1
  <2> QED
    BY <1>8, <2>1, <2>2
<1>14. TiesBroken'
  <2> SUFFICES ASSUME NEW i \in 1 .. Len(order') - 1, order'[i + 1] < order'[i]
               PROVE  order'[i] \in Needs(order'[i + 1])
    BY <1>2 DEF TiesBroken
  <2>1. i \in DOMAIN order /\ order'[i] = order[i]
    BY <1>6, <1>8
  <2>2. CASE i + 1 \in DOMAIN order
    <3>1. i \in 1 .. Len(order) - 1 /\ order'[i + 1] = order[i + 1]
      BY <1>6, <1>8, <2>2
    <3> QED
      BY <2>1, <3>1 DEF BootInv, OrderInv, TiesBroken
  <2>3. CASE i = Len(order)
    <3>1. order # <<>> /\ Last(order) = order[i] /\ order'[i + 1] = node
      BY <1>6, <1>8, <2>1, <2>3
    <3> QED
      BY <1>1, <1>3, <2>1, <3>1 DEF BootInv, OrderInv, LastWaitedFor
  <2>4. i + 1 \in DOMAIN order \/ i = Len(order)
    BY <1>6, <2>1
  <2> QED
    BY <2>2, <2>3, <2>4
<1>15. LastWaitedFor'
  <2> SUFFICES ASSUME NEW n \in Ready', n < node PROVE node \in Needs(n)
    BY <1>2, <1>9 DEF LastWaitedFor
  <2>1. n \in Nodes /\ indegree'[n] = 0 /\ ~ Contains(order', n)
    BY <1>2 DEF Ready
  <2>2. ~ Contains(order, n)
    BY <1>6, <1>8, <1>9, <2>1, Membership
  <2>3. n \notin Ready
    BY <1>3, <2>1, NodesAre DEF BootInv
  <2>4. indegree[n] # 0
    BY <2>1, <2>2, <2>3 DEF Ready
  <2> QED
    BY <1>10, <2>1, <2>4
<1>16. OrderInv'
  BY <1>1, <1>9, <1>12, <1>13, <1>14, <1>15 DEF OrderInv
<1>17. CallsInv'
  BY <1>1, <1>11, CallsStay DEF BootInv, BootType
<1>18. SearchInv' /\ RingInv'
  BY <1>1 DEF BootInv, SearchInv, RingInv
<1> QED
  BY <1>11, <1>16, <1>17, <1>18 DEF BootInv

LEMMA KahnEndStep ==
  ASSUME BootInv, KahnEnd
  PROVE  BootInv'
<1>1. /\ bphase = "kahn" /\ Ready = {} /\ bphase \in Sorting
      /\ bphase' = IF Len(order) = Len(providers) THEN "register" ELSE "search"
      /\ UNCHANGED <<providers, indegree, order, called, path, tried, done, root, cycle>>
  BY DEF KahnEnd, search, Sorting
<1>2. BootType'
  BY <1>1, GraphFixed DEF BootInv, BootType
<1>3. OrderInv'
  BY <1>1, OrderStays DEF BootInv, Sorting
<1>4. CallsInv'
  BY <1>1, <1>2, CallsStay DEF BootInv, BootType
<1>5. RingInv'
  BY <1>1 DEF RingInv
<1>6. SearchInv'
  <2> SUFFICES ASSUME bphase' = "search" PROVE SearchInv'
    BY <1>1 DEF BootInv, SearchInv
  <2>1. /\ Nodes' = Nodes /\ \A n : Consumers(n)' = Consumers(n) /\ Residual' = Residual
    BY <1>1, GraphFixed DEF Residual
  <2>2. /\ order \in Seq(Nodes) /\ IsInjective(order) /\ ToSet(order) \subseteq Nodes
        /\ \A e : Contains(order, e) <=> e \in ToSet(order)
    BY Membership DEF BootInv, BootType, OrderInv
  <2>3. \A n \in Nodes : n \in Residual <=> n \notin ToSet(order)
    <3> SUFFICES ASSUME NEW n \in Nodes PROVE n \in Residual <=> n \notin ToSet(order)
      OBVIOUS
    <3>1. indegree[n] = 0 => n \in ToSet(order)
      BY <1>1, <2>2 DEF Ready
    <3>2. /\ n \in ToSet(order) => indegree[n] = 0
          /\ indegree[n] # 0 => indegree[n] > 0
      BY <1>1, NothingUnmet
    <3> QED
      BY <3>1, <3>2 DEF Residual
  <2>4. Residual # {}
    <3> SUFFICES ASSUME Residual = {} PROVE FALSE
      OBVIOUS
    <3>1. ToSet(order) = Nodes /\ Nodes = 1 .. Len(providers) /\ Len(providers) \in Nat
      BY <2>2, <2>3, NodesAre DEF BootInv
    <3>2. Cardinality(1 .. Len(providers)) = Len(providers)
      <4>1. 1 \in Int /\ Len(providers) \in Int
        BY <3>1
      <4>2. Cardinality(1 .. Len(providers))
              = IF 1 > Len(providers) THEN 0 ELSE Len(providers) - 1 + 1
        BY <4>1, FS_Interval
      <4> QED
        BY <3>1, <4>2
    <3>3. Len(order) = Len(providers)
      BY <2>2, <3>1, <3>2, InjectiveLength
    <3> QED
      BY <1>1, <3>3
  <2>5. ASSUME NEW n \in Residual PROVE \E m \in Residual : n \in Consumers(m)
    <3>1. n \in Nodes /\ indegree[n] # 0
      BY NodesAre DEF Residual
    <3>2. PICK m \in Needs(n) : m \in Nodes \ ToSet(order)
      BY <1>1, <3>1, NothingUnmet
    <3> QED
      BY <2>3, <3>1, <3>2, EdgeOf
  <2>6. path' = <<>> /\ done' = {} /\ root' = 0
    BY <1>1 DEF BootInv, SearchInv
  <2>7. Stuck'
    BY <2>1, <2>4, <2>5 DEF Stuck
  <2>8. Finished'
    BY <2>6 DEF Finished
  <2>9. Trail'
    <3>1. \A n \in Residual : ~ (n <= 0)
      BY NodesAre DEF Residual, BootInv
    <3>2. DOMAIN <<>> = {}
      OBVIOUS
    <3> QED
      BY <2>1, <2>6, <3>1, <3>2 DEF Trail, IsInjective
  <2> QED
    BY <1>1, <2>7, <2>8, <2>9 DEF SearchInv
<1> QED
  BY <1>2, <1>3, <1>4, <1>5, <1>6 DEF BootInv

\* A step of the search leaves the graph, its residue and the passes alone.
LEMMA SearchFrame ==
  ASSUME BootInv, bphase = "search", bphase' \in {"search", "cycle"},
         UNCHANGED <<providers, indegree, order, called>>
  PROVE  /\ OrderInv' /\ CallsInv'
         /\ Nodes' = Nodes /\ Residual' = Residual
         /\ \A n : Needs(n)' = Needs(n) /\ Consumers(n)' = Consumers(n)
         /\ Stuck' /\ Stuck /\ Finished /\ Trail
         /\ Residual \in SUBSET Nodes
<1>1. /\ Nodes' = Nodes /\ \A n : Needs(n)' = Needs(n) /\ Consumers(n)' = Consumers(n)
  BY GraphFixed
<1>2. Residual' = Residual /\ Residual \in SUBSET Nodes
  BY <1>1 DEF Residual
<1>3. Stuck /\ Finished /\ Trail
  BY DEF BootInv, SearchInv
<1>4. Stuck'
  BY <1>1, <1>2, <1>3 DEF Stuck
<1>5. OrderInv'
  BY OrderStays DEF BootInv, Sorting
<1>6. CallsInv'
  BY <1>1, CallsStay DEF BootInv, BootType
<1> QED
  BY <1>1, <1>2, <1>3, <1>4, <1>5, <1>6

\* Once all of the residue is left for good there would be a provider in it
\* that needs no other: the fall-back of cycle_names is never taken.
LEMMA SearchFinds ==
  ASSUME BootInv, bphase = "search", Residual \subseteq done
  PROVE  FALSE
<1>1. Stuck /\ Finished
  BY DEF BootInv, SearchInv
<1>2. done = Residual /\ done # {}
  BY <1>1 DEF Stuck, Finished
<1>3. PICK n \in done : \A m \in done : n \notin Consumers(m)
  BY <1>1, <1>2 DEF Finished
<1> QED
  BY <1>1, <1>2, <1>3 DEF Stuck

\* A candidate is always there: the next one in registration order.
LEMMA CandidateFinds ==
  ASSUME BootInv, Candidate
  PROVE  /\ bphase' = "search"
         /\ \E r \in {n \in Residual : n > root} :
              /\ r \in Nodes /\ \A y \in Residual : y > root => r <= y
              /\ root' = r /\ path' = <<r>> /\ tried' = [tried EXCEPT ![r] = {}]
              /\ UNCHANGED <<bphase, cycle>>
<1> DEFINE left == {n \in Residual : n > root}
<1>1. /\ bphase = "search" /\ path = <<>>
      /\ UNCHANGED <<providers, indegree, order, called, done>>
  BY DEF Candidate
<1>2. left \in SUBSET Nodes
  BY DEF Residual
<1>3. left # {}
  <2> SUFFICES ASSUME left = {} PROVE FALSE
    OBVIOUS
  <2>1. \A n \in Residual : n <= root
    <3> SUFFICES ASSUME NEW n \in Residual PROVE n <= root
      OBVIOUS
    <3>1. ~ (n > root) /\ n \in Nat /\ root \in Nat
      BY NodesAre DEF Residual, BootInv, BootType
    <3> QED
      BY <3>1
  <2>2. ToSet(path) = {}
    BY <1>1 DEF ToSet
  <2>3. Residual \subseteq done
    BY <1>1, <2>1, <2>2 DEF BootInv, SearchInv, Trail
  <2> QED
    BY <1>1, <2>3, SearchFinds
<1>4. PICK r \in left : r = Min(left) /\ r \in Nodes /\ \A y \in left : r <= y
  BY <1>2, <1>3, LeastNode DEF BootInv
<1>5. /\ root' = r /\ path' = <<r>> /\ tried' = [tried EXCEPT ![r] = {}]
      /\ UNCHANGED <<bphase, cycle>>
  BY <1>3, <1>4 DEF Candidate
<1> QED
  BY <1>1, <1>4, <1>5

LEMMA CandidateStep ==
  ASSUME BootInv, Candidate
  PROVE  BootInv'
<1>1. /\ bphase = "search" /\ path = <<>>
      /\ UNCHANGED <<providers, indegree, order, called, done>>
  BY DEF Candidate
<1>2. PICK r \in {n \in Residual : n > root} :
        /\ r \in Nodes /\ \A y \in Residual : y > root => r <= y
        /\ root' = r /\ path' = <<r>> /\ tried' = [tried EXCEPT ![r] = {}]
        /\ UNCHANGED <<bphase, cycle>>
  BY CandidateFinds
<1>4. r \in Residual /\ r \in Nodes /\ \A y \in Residual : y > root => r <= y
  BY <1>2
<1>5. /\ root' = r /\ path' = <<r>> /\ tried' = [tried EXCEPT ![r] = {}]
      /\ UNCHANGED <<bphase, cycle>>
  BY <1>2
<1>6. /\ OrderInv' /\ CallsInv'
      /\ Nodes' = Nodes /\ Residual' = Residual
      /\ \A n : Consumers(n)' = Consumers(n)
      /\ Stuck' /\ Finished /\ Trail
  BY <1>1, <1>5, SearchFrame
<1>7. r \in Residual /\ r \in Nat
  BY <1>4, NodesAre DEF BootInv
<1>8. BootType'
  <2>1. tried' \in [Nodes -> SUBSET Nodes]
    BY <1>4, <1>5 DEF BootInv, BootType
  <2>2. path' \in Seq(Nodes) /\ root' \in Nat
    BY <1>4, <1>5, <1>7
  <2> QED
    BY <1>1, <1>6, <2>1, <2>2 DEF BootInv, BootType
<1>9. Finished'
  BY <1>1, <1>6 DEF Finished
<1>10. Trail'
  <2>1. DOMAIN path' = {1} /\ path'[1] = r /\ 1 + 1 # 1
    BY <1>5
  <2>2. tried'[r] = {}
    BY <1>4, <1>5 DEF BootInv, BootType
  <2>3. ToSet(path') = {r} /\ ToSet(path) = {}
    BY <1>1, <2>1 DEF ToSet
  <2>4. ASSUME NEW n \in Residual, n <= r PROVE n \in done \cup {r}
    <3>1. n \in Nat /\ root \in Nat
      BY NodesAre DEF Residual, BootInv, BootType
    <3>2. CASE n <= root
      BY <1>6, <2>3, <3>2 DEF Trail
    <3>3. CASE n > root
      BY <1>4, <1>7, <2>4, <3>1, <3>3
    <3> QED
      BY <3>1, <3>2, <3>3
  <2> QED
    BY <1>1, <1>5, <1>6, <1>7, <2>1, <2>2, <2>3, <2>4 DEF Trail, IsInjective
<1>11. SearchInv' /\ RingInv'
  BY <1>1, <1>5, <1>6, <1>9, <1>10 DEF SearchInv, RingInv
<1> QED
  BY <1>6, <1>8, <1>11 DEF BootInv

LEMMA LeaveStep ==
  ASSUME BootInv, Leave
  PROVE  BootInv'
<1>1. /\ bphase = "search" /\ path # <<>>
      /\ Consumers(Last(path)) \subseteq tried[Last(path)]
      /\ path' = Front(path) /\ done' = done \cup {Last(path)}
      /\ UNCHANGED <<providers, bphase, indegree, order, called, tried, root, cycle>>
  BY DEF Leave
<1>2. /\ OrderInv' /\ CallsInv'
      /\ Nodes' = Nodes /\ Residual' = Residual
      /\ \A n : Consumers(n)' = Consumers(n)
      /\ Stuck' /\ Finished /\ Trail /\ Residual \in SUBSET Nodes
  BY <1>1, SearchFrame
<1>3. /\ path \in Seq(Nodes) /\ Len(path) \in Nat /\ DOMAIN path = 1 .. Len(path)
      /\ Len(path) \in DOMAIN path /\ Last(path) = path[Len(path)]
      /\ \A e : e \in ToSet(path) <=> \E i \in DOMAIN path : path[i] = e
  BY <1>1, Membership DEF BootInv, BootType
<1>4. PICK x \in Residual : x = Last(path) /\ x = path[Len(path)]
  BY <1>2, <1>3 DEF Trail
<1>5. /\ path' \in Seq(Nodes) /\ DOMAIN path' = 1 .. Len(path) - 1
      /\ \A i \in DOMAIN path' : i \in DOMAIN path /\ path'[i] = path[i]
  <2>1. \A i \in 1 .. Len(path) - 1 : path[i] \in Nodes
    BY <1>3, Membership
  <2>2. /\ Front(path) \in Seq(Nodes)
        /\ Len(Front(path)) = IF 1 <= Len(path) - 1 THEN Len(path) - 1 - 1 + 1 ELSE 0
        /\ \A i \in 1 .. Len(path) - 1 - 1 + 1 : Front(path)[i] = path[1 + i - 1]
    <3>1. 1 \in Int /\ Len(path) - 1 \in Int
      BY <1>3
    <3> QED
      BY <2>1, <3>1, SubSeqProperties DEF Front
  <2>3. Len(Front(path)) = Len(path) - 1
    <3>1. Len(path) >= 1
      BY <1>3
    <3>2. Len(path) - 1 - 1 + 1 = Len(path) - 1 /\ (~ (1 <= Len(path) - 1) => Len(path) - 1 = 0)
      BY <1>3, <3>1
    <3> QED
      BY <2>2, <3>2
  <2>4. ASSUME NEW i \in 1 .. Len(path) - 1 PROVE Front(path)[i] = path[i]
    <3>1. i \in 1 .. Len(path) - 1 - 1 + 1 /\ 1 + i - 1 = i
      BY <1>3
    <3> QED
      BY <2>2, <3>1
  <2>5. DOMAIN path' = 1 .. Len(path) - 1 /\ path' \in Seq(Nodes)
    BY <1>1, <2>2, <2>3, LenProperties
  <2>6. \A i \in 1 .. Len(path) - 1 : i \in 1 .. Len(path)
    BY <1>3
  <2> QED
    BY <1>1, <1>3, <2>4, <2>5, <2>6
<1>6. Consumers(x) \cap Residual \subseteq done
  <2> SUFFICES ASSUME NEW t \in Consumers(x), t \in Residual, t \notin done PROVE FALSE
    OBVIOUS
  <2>1. t \in tried[path[Len(path)]]
    BY <1>1, <1>4
  <2>2. Len(path) + 1 \in DOMAIN path
    BY <1>2, <1>3, <2>1 DEF Trail
  <2> QED
    BY <1>3, <2>2
<1>7. BootType'
  BY <1>1, <1>2, <1>3, <1>4, <1>5 DEF BootInv, BootType
<1>8. Finished'
  <2>1. done' \subseteq Residual /\ \A n \in done' : Consumers(n) \cap Residual \subseteq done'
    BY <1>1, <1>2, <1>4, <1>6 DEF Finished
  <2>2. ASSUME NEW S \in SUBSET done', S # {}
        PROVE  \E n \in S : \A m \in S : n \notin Consumers(m)
    <3>1. CASE S \subseteq done
      BY <1>2, <2>2, <3>1 DEF Finished
    <3>2. CASE ~ (S \subseteq done)
      <4>1. x \in S /\ x \notin done /\ \A m \in S : m = x \/ m \in done
        BY <1>1, <1>4, <3>2
      <4>2. \A m \in S : x \notin Consumers(m)
        BY <1>2, <1>6, <4>1 DEF Finished
      <4> QED
        BY <4>1, <4>2
    <3> QED
      BY <3>1, <3>2
  <2> QED
    BY <1>2, <2>1, <2>2 DEF Finished
<1>9. Trail'
  <2>1. IsInjective(path')
    BY <1>2, <1>5 DEF Trail, IsInjective
  <2>2. ASSUME NEW i \in DOMAIN path'
        PROVE  /\ path'[i] \in Residual
               /\ i + 1 \in DOMAIN path' => path'[i + 1] \in Consumers(path'[i])
               /\ \A t \in tried[path'[i]] :
                    t \in Residual \ done' => i + 1 \in DOMAIN path' /\ t = path'[i + 1]
    <3>1. /\ i \in DOMAIN path /\ path'[i] = path[i] /\ i + 1 \in DOMAIN path
          /\ i + 1 \in DOMAIN path' => path'[i + 1] = path[i + 1]
          /\ i + 1 \notin DOMAIN path' => path[i + 1] = x
      <4>1. i \in DOMAIN path /\ path'[i] = path[i] /\ i + 1 \in DOMAIN path
        BY <1>3, <1>5
      <4>2. i + 1 \notin DOMAIN path' => i + 1 = Len(path)
        BY <1>3, <1>5
      <4> QED
        BY <1>4, <1>5, <4>1, <4>2
    <3>2. /\ path[i] \in Residual /\ path[i + 1] \in Consumers(path[i])
          /\ \A t \in tried[path[i]] : t \in Residual \ done => t = path[i + 1]
      BY <1>2, <3>1 DEF Trail
    <3>3. ASSUME NEW t \in tried[path'[i]], t \in Residual \ done'
          PROVE  i + 1 \in DOMAIN path' /\ t = path'[i + 1]
      BY <1>1, <1>4, <3>1, <3>2, <3>3
    <3> QED
      BY <3>1, <3>2, <3>3
  <2>3. ASSUME NEW n \in Residual, n <= root PROVE n \in done' \cup ToSet(path')
    <3>1. CASE n \in done
      BY <1>1, <3>1
    <3>2. CASE n \in ToSet(path)
      <4>1. PICK i \in DOMAIN path : path[i] = n
        BY <1>3, <3>2
      <4>2. i = Len(path) \/ i \in DOMAIN path'
        BY <1>3, <1>5
      <4> QED
        BY <1>1, <1>4, <1>5, <4>1, <4>2 DEF ToSet
    <3> QED
      BY <1>2, <2>3, <3>1, <3>2 DEF Trail
  <2> QED
    BY <1>1, <1>2, <2>1, <2>2, <2>3 DEF Trail
<1>10. SearchInv' /\ RingInv'
  BY <1>1, <1>2, <1>8, <1>9 DEF SearchInv, RingInv
<1> QED
  BY <1>2, <1>7, <1>10 DEF BootInv

\* Remainders of the places of a ring.
LEMMA RingPlaces ==
  ASSUME NEW N \in Nat, NEW i \in 1 .. N
  PROVE  (i % N) + 1 = IF i = N THEN 1 ELSE i + 1
<1>1. CASE i = N
  <2>1. N % N = 0
    OBVIOUS
  <2> QED
    BY <1>1, <2>1
<1>2. CASE i < N
  <2>1. i % N = i
    BY <1>2
  <2> QED
    BY <1>2, <2>1
<1> QED
  BY <1>1, <1>2

\* The path from a repeated node on is a ring.
LEMMA RingFound ==
  ASSUME BootInv, bphase = "search", path # <<>>,
         NEW next \in Consumers(Last(path)), Contains(path, next)
  PROVE  LET c == from_repeated(next) IN
         /\ c # <<>> /\ IsInjective(c)
         /\ \A i \in DOMAIN c : c[i] \in Needs(c[(i % Len(c)) + 1])
<1> DEFINE c == from_repeated(next)
<1>1. /\ path \in Seq(Nodes) /\ Trail
      /\ Len(path) \in Nat /\ DOMAIN path = 1 .. Len(path) /\ Len(path) \in DOMAIN path
      /\ Last(path) = path[Len(path)]
      /\ \A e : Contains(path, e) <=> e \in ToSet(path)
      /\ \A e : e \in ToSet(path) <=> \E i \in DOMAIN path : path[i] = e
  BY Membership DEF BootInv, BootType, SearchInv
<1>2. PICK k \in DOMAIN path : path[k] = next
  BY <1>1
<1>3. SelectInSeq(path, LAMBDA n : n = next) = k
  <2>1. LET I == {i \in 1 .. Len(path) : path[i] = path[k]} IN I # {} /\ Min(I) = k
    BY <1>1, PlaceOf DEF Trail
  <2> QED
    BY <1>2, <2>1 DEF SelectInSeq
<1>4. c = SubSeq(path, k, Len(path))
  BY <1>3 DEF from_repeated
<1> DEFINE N == Len(path) - k + 1
<1>5. k \in Int /\ Len(path) \in Int /\ k <= Len(path) /\ 1 <= k /\ N \in Nat /\ N > 0
  BY <1>1
<1>6. /\ c \in Seq(Nodes) /\ Len(c) = N
      /\ \A i \in 1 .. N : c[i] = path[k + i - 1]
  <2>1. \A i \in k .. Len(path) : path[i] \in Nodes
    BY <1>1, <1>5, Membership
  <2>2. /\ SubSeq(path, k, Len(path)) \in Seq(Nodes)
        /\ Len(SubSeq(path, k, Len(path))) = IF k <= Len(path) THEN Len(path) - k + 1 ELSE 0
        /\ \A i \in 1 .. Len(path) - k + 1 : SubSeq(path, k, Len(path))[i] = path[k + i - 1]
    BY <1>5, <2>1, SubSeqProperties
  <2> QED
    BY <1>4, <1>5, <2>2
<1> HIDE DEF c
<1>7. DOMAIN c = 1 .. N /\ c # <<>>
  BY <1>5, <1>6, LenProperties
<1>8. ASSUME NEW i \in 1 .. N PROVE k + i - 1 \in DOMAIN path /\ c[i] = path[k + i - 1]
  BY <1>1, <1>5, <1>6
<1>9. IsInjective(c)
  <2> SUFFICES ASSUME NEW i \in 1 .. N, NEW j \in 1 .. N, c[i] = c[j] PROVE i = j
    BY <1>7 DEF IsInjective
  <2>1. k + i - 1 = k + j - 1
    BY <1>1, <1>8 DEF Trail, IsInjective
  <2> QED
    BY <1>5, <2>1
<1>10. ASSUME NEW i \in 1 .. N PROVE c[i] \in Needs(c[(i % N) + 1])
  <2>1. (i % N) + 1 = IF i = N THEN 1 ELSE i + 1
    BY <1>5, RingPlaces
  <2>2. CASE i = N
    <3>1. c[i] = Last(path) /\ c[1] = next
      <4>1. 1 \in 1 .. N /\ k + 1 - 1 = k
        BY <1>5
      <4>2. k + N - 1 = Len(path)
        <5> DEFINE b == Len(path)
        <5>1. k \in Int /\ b \in Int /\ N = b - k + 1
          BY <1>5
        <5> HIDE DEF b, N
        <5>2. k + N - 1 = b
          BY <5>1
        <5> QED
          BY <5>2 DEF b
      <4>3. c[1] = next
        BY <1>2, <1>8, <4>1
      <4> QED
        BY <1>1, <1>8, <2>2, <4>2, <4>3
    <3> QED
      BY <2>1, <2>2, <3>1, EdgeOf
  <2>3. CASE i # N
    <3>1. i + 1 \in 1 .. N /\ k + (i + 1) - 1 = (k + i - 1) + 1
      BY <1>5, <2>3
    <3>2. /\ k + i - 1 \in DOMAIN path /\ (k + i - 1) + 1 \in DOMAIN path
          /\ c[i] = path[k + i - 1] /\ c[i + 1] = path[(k + i - 1) + 1]
      BY <1>8, <3>1
    <3>3. c[i + 1] \in Consumers(c[i])
      BY <1>1, <3>2 DEF Trail
    <3> QED
      BY <2>1, <2>3, <3>3, EdgeOf
  <2> QED
    BY <2>2, <2>3
<1> QED
  BY <1>6, <1>7, <1>9, <1>10 DEF c

LEMMA VisitStep ==
  ASSUME BootInv, Visit
  PROVE  BootInv'
<1> DEFINE fresh == Consumers(Last(path)) \ tried[Last(path)]
<1>1. /\ bphase = "search" /\ path # <<>> /\ fresh # {}
      /\ UNCHANGED <<providers, indegree, order, called, done, root>>
  BY DEF Visit
<1>2. /\ path \in Seq(Nodes) /\ Len(path) \in Nat /\ DOMAIN path = 1 .. Len(path)
      /\ Len(path) \in DOMAIN path /\ Last(path) = path[Len(path)] /\ path[Len(path)] \in Nodes
      /\ \A e : Contains(path, e) <=> e \in ToSet(path)
  BY <1>1, Membership DEF BootInv, BootType
<1>3. PICK node \in Nodes : node = Last(path) /\ node = path[Len(path)]
  BY <1>2
<1>4. PICK next \in Consumers(node) \ tried[node] :
        next = Min(Consumers(node) \ tried[node]) /\ next \in Nodes
  BY <1>1, <1>3, LeastNode DEF Consumers, BootInv
<1>5. \/ /\ next \notin Residual \/ next \in done
         /\ tried' = [tried EXCEPT ![node] = @ \cup {next}]
         /\ UNCHANGED <<bphase, path, cycle>>
      \/ /\ next \in Residual \ done /\ Contains(path, next)
         /\ cycle' = from_repeated(next)
         /\ bphase' = "cycle"
         /\ UNCHANGED <<path, tried>>
      \/ /\ next \in Residual \ done /\ ~ Contains(path, next)
         /\ path' = Append(path, next)
         /\ tried' = [tried EXCEPT ![node] = @ \cup {next}, ![next] = {}]
         /\ UNCHANGED <<bphase, cycle>>
  BY <1>3, <1>4 DEF Visit
<1>6. bphase' \in {"search", "cycle"}
  BY <1>1, <1>5
<1>7. /\ OrderInv' /\ CallsInv'
      /\ Nodes' = Nodes /\ Residual' = Residual
      /\ \A n : Needs(n)' = Needs(n) /\ Consumers(n)' = Consumers(n)
      /\ Stuck' /\ Finished /\ Trail /\ Residual \in SUBSET Nodes
  BY <1>1, <1>6, SearchFrame
<1>8. Finished'
  BY <1>1, <1>7 DEF Finished
<1>9. tried \in [Nodes -> SUBSET Nodes]
  BY DEF BootInv, BootType
<1>10. CASE /\ next \notin Residual \/ next \in done
            /\ tried' = [tried EXCEPT ![node] = @ \cup {next}]
            /\ UNCHANGED <<bphase, path, cycle>>
  <2>1. BootType'
    <3>1. tried' \in [Nodes -> SUBSET Nodes]
      BY <1>4, <1>9, <1>10
    <3> QED
      BY <1>1, <1>7, <1>10, <3>1 DEF BootInv, BootType
  <2>2. ASSUME NEW n \in Nodes, NEW t \in tried'[n], t \in Residual \ done
        PROVE  t \in tried[n]
    BY <1>9, <1>10, <2>2
  <2>3. \A i \in DOMAIN path : path[i] \in Nodes
    BY <1>2, Membership
  <2>4. Trail'
    BY <1>1, <1>7, <1>10, <2>2, <2>3 DEF Trail
  <2> QED
    BY <1>1, <1>7, <1>8, <1>10, <2>1, <2>4 DEF BootInv, SearchInv, RingInv
<1>11. CASE /\ Contains(path, next) /\ cycle' = from_repeated(next)
            /\ bphase' = "cycle" /\ UNCHANGED <<path, tried>>
  <2>1. BootType'
    BY <1>1, <1>7, <1>11 DEF BootInv, BootType
  <2> DEFINE c == from_repeated(next)
  <2>2. /\ c # <<>> /\ IsInjective(c)
        /\ \A i \in DOMAIN c : c[i] \in Needs(c[(i % Len(c)) + 1])
    BY <1>1, <1>3, <1>4, <1>11, RingFound
  <2>3. cycle' = c
    BY <1>11
  <2> HIDE DEF c
  <2>4. RingInv'
    BY <1>7, <2>2, <2>3 DEF RingInv
  <2>5. SearchInv'
    BY <1>11 DEF SearchInv
  <2> QED
    BY <1>7, <2>1, <2>4, <2>5 DEF BootInv
<1>12. CASE /\ next \in Residual \ done /\ ~ Contains(path, next)
            /\ path' = Append(path, next)
            /\ tried' = [tried EXCEPT ![node] = @ \cup {next}, ![next] = {}]
            /\ UNCHANGED <<bphase, cycle>>
  <2>1. /\ path' \in Seq(Nodes)
        /\ Len(path') = Len(path) + 1 /\ DOMAIN path' = 1 .. Len(path) + 1
        /\ \A i \in DOMAIN path : i \in DOMAIN path' /\ path'[i] = path[i] /\ i < Len(path) + 1
        /\ Len(path) + 1 \in DOMAIN path' /\ path'[Len(path) + 1] = next
        /\ \A i \in DOMAIN path' : (i \in DOMAIN path /\ path'[i] = path[i])
                                     \/ (i = Len(path) + 1 /\ path'[i] = next)
    BY <1>2, <1>4, <1>12, AppendFacts
  <2>2. next \notin ToSet(path) /\ node \in ToSet(path) /\ next # node
    BY <1>2, <1>3, <1>12 DEF ToSet
  <2>3. ToSet(path') = ToSet(path) \cup {next} /\ IsInjective(path')
    BY <1>2, <1>4, <1>7, <2>1, <2>2, SetOfAppend DEF Trail
  <2>4. /\ tried' \in [Nodes -> SUBSET Nodes]
        /\ tried'[next] = {} /\ tried'[node] = tried[node] \cup {next}
        /\ \A n \in Nodes : n # next /\ n # node => tried'[n] = tried[n]
    BY <1>4, <1>9, <1>12, <2>2
  <2>5. BootType'
    BY <1>1, <1>7, <2>1, <2>4 DEF BootInv, BootType
  <2>6. ASSUME NEW i \in DOMAIN path'
        PROVE  /\ path'[i] \in Residual
               /\ i + 1 \in DOMAIN path' => path'[i + 1] \in Consumers(path'[i])
               /\ \A t \in tried'[path'[i]] :
                    t \in Residual \ done => i + 1 \in DOMAIN path' /\ t = path'[i + 1]
    <3>1. CASE i = Len(path) + 1 /\ path'[i] = next
      <4>1. i + 1 \notin DOMAIN path'
        BY <1>2, <2>1, <3>1
      <4> QED
        BY <1>12, <2>4, <3>1, <4>1
    <3>2. CASE i = Len(path)
      <4>1. i + 1 \in DOMAIN path' /\ path'[i + 1] = next /\ path'[i] = node /\ i \in DOMAIN path
        BY <1>2, <1>3, <2>1, <3>2
      <4>2. path[i] = node /\ i + 1 \notin DOMAIN path
        BY <1>2, <1>3, <3>2
      <4>3. node \in Residual /\ \A t \in tried[node] : t \notin Residual \ done
        BY <1>7, <4>1, <4>2 DEF Trail
      <4> QED
        BY <1>4, <2>4, <4>1, <4>3
    <3>3. CASE i \in DOMAIN path /\ i # Len(path)
      <4>1. /\ i + 1 \in DOMAIN path /\ path'[i] = path[i] /\ path'[i + 1] = path[i + 1]
            /\ i + 1 \in DOMAIN path'
        BY <1>2, <2>1, <3>3
      <4>2. path[i] # node /\ path[i] # next /\ path[i] \in Nodes
        <5>1. path[i] # node
          BY <1>2, <1>3, <1>7, <3>3 DEF Trail, IsInjective
        <5> QED
          BY <1>2, <2>2, <3>3, <5>1, Membership DEF ToSet
      <4> QED
        BY <1>7, <2>4, <3>3, <4>1, <4>2 DEF Trail
    <3> QED
      BY <1>2, <2>1, <3>1, <3>2, <3>3
  <2>7. Trail'
    BY <1>1, <1>7, <2>3, <2>6 DEF Trail
  <2> QED
    BY <1>1, <1>7, <1>8, <1>12, <2>5, <2>7 DEF BootInv, SearchInv, RingInv
<1> QED
  BY <1>5, <1>10, <1>11, <1>12

LEMMA PassStep ==
  ASSUME BootInv, Pass
  PROVE  BootInv'
<1> DEFINE calls == IF bphase = "register" THEN Len(called) ELSE Len(called) - Len(order)
<1>1. /\ bphase \in {"register", "boot"}
      /\ UNCHANGED <<providers, indegree, order, path, tried, done, root, cycle>>
  BY DEF Pass, search
<1>2. /\ order \in Seq(Nodes) /\ Len(order) \in Nat /\ DOMAIN order = 1 .. Len(order)
      /\ \A i \in DOMAIN order : order[i] \in Nodes
      /\ called \in Seq({"register", "boot"} \X Nodes)
      /\ Len(called) \in Nat /\ DOMAIN called = 1 .. Len(called)
      /\ Len(order) = Len(providers)
  BY <1>1, Membership DEF BootInv, BootType, OrderInv
<1>3. /\ bphase = "register" => Len(called) <= Len(order)
      /\ bphase = "boot" => Len(order) <= Len(called) /\ Len(called) <= 2 * Len(order)
      /\ \A i \in DOMAIN called :
           called[i] = IF i <= Len(order) THEN <<"register", order[i]>>
                       ELSE <<"boot", order[i - Len(order)]>>
  BY DEF BootInv, CallsInv
<1>4. CASE calls < Len(order)
  <2> DEFINE e == <<bphase, order[calls + 1]>>
  <2>1. called' = Append(called, e) /\ UNCHANGED bphase
    BY <1>4 DEF Pass
  <2>2. calls \in Nat /\ calls + 1 \in DOMAIN order
    BY <1>1, <1>2, <1>3, <1>4
  <2>3. e \in {"register", "boot"} \X Nodes
    BY <1>1, <1>2, <2>2
  <2>4. e = IF Len(called) + 1 <= Len(order) THEN <<"register", order[Len(called) + 1]>>
            ELSE <<"boot", order[Len(called) + 1 - Len(order)]>>
    <3>1. CASE bphase = "register"
      BY <1>2, <1>4, <3>1
    <3>2. CASE bphase = "boot"
      <4>1. calls + 1 = Len(called) + 1 - Len(order) /\ ~ (Len(called) + 1 <= Len(order))
        BY <1>2, <1>3, <3>2
      <4> QED
        BY <3>2, <4>1
    <3> QED
      BY <1>1, <3>1, <3>2
  <2> HIDE DEF e
  <2>5. /\ called' \in Seq({"register", "boot"} \X Nodes)
        /\ Len(called') = Len(called) + 1
        /\ \A i \in DOMAIN called' : (i \in DOMAIN called /\ called'[i] = called[i])
                                       \/ (i = Len(called) + 1 /\ called'[i] = e)
    BY <1>2, <2>1, <2>3, AppendFacts
  <2>6. BootType'
    BY <1>1, <2>5, GraphFixed DEF BootInv, BootType
  <2>7. OrderInv'
    BY <1>1, <1>2, <2>1, OrderStays DEF BootInv, Sorting
  <2>8. CallsInv'
    <3>1. ASSUME NEW i \in DOMAIN called'
          PROVE  called'[i] = IF i <= Len(order) THEN <<"register", order[i]>>
                              ELSE <<"boot", order[i - Len(order)]>>
      BY <1>3, <2>4, <2>5
    <3>2. /\ bphase = "register" => Len(called) + 1 <= Len(order)
          /\ bphase = "boot" => Len(order) <= Len(called) + 1 /\ Len(called) + 1 <= 2 * Len(order)
      BY <1>2, <1>3, <1>4
    <3> QED
      BY <1>1, <2>1, <2>5, <3>1, <3>2 DEF CallsInv
  <2>9. SearchInv' /\ RingInv'
    BY <1>1, <2>1 DEF BootInv, SearchInv, RingInv
  <2> QED
    BY <2>6, <2>7, <2>8, <2>9 DEF BootInv
<1>5. CASE ~ (calls < Len(order))
  <2>1. bphase' = (IF bphase = "register" THEN "boot" ELSE "booted") /\ UNCHANGED called
    BY <1>5 DEF Pass
  <2>2. BootType'
    BY <1>1, <2>1, GraphFixed DEF BootInv, BootType
  <2>3. OrderInv'
    BY <1>1, <1>2, <2>1, OrderStays DEF BootInv, Sorting
  <2>4. CallsInv'
    <3>1. /\ bphase = "register" => Len(called) = Len(order) /\ Len(called) <= 2 * Len(order)
          /\ bphase = "boot" => Len(called) = 2 * Len(order)
      <4> DEFINE a == Len(called)
                 b == Len(order)
      <4>1. a \in Nat /\ b \in Nat
        BY <1>2
      <4>2. CASE bphase = "register"
        <5>1. ~ (a < b) /\ a <= b
          BY <1>3, <1>5, <4>2
        <5> HIDE DEF a, b, calls
        <5>2. a = b /\ a <= 2 * b
          BY <4>1, <5>1
        <5> QED
          BY <4>2, <5>2 DEF a, b
      <4>3. CASE bphase = "boot"
        <5>1. ~ (a - b < b) /\ a <= 2 * b
          BY <1>3, <1>5, <4>3
        <5> HIDE DEF a, b, calls
        <5>2. a = 2 * b
          BY <4>1, <5>1
        <5> QED
          BY <4>3, <5>2 DEF a, b
      <4> QED
        BY <1>1, <4>2, <4>3
    <3> QED
      BY <1>1, <1>2, <1>3, <2>1, <3>1 DEF CallsInv
  <2>5. SearchInv' /\ RingInv'
    BY <1>1, <2>1 DEF BootInv, SearchInv, RingInv
  <2> QED
    BY <2>2, <2>3, <2>4, <2>5 DEF BootInv
<1> QED
  BY <1>4, <1>5

LEMMA BootStart ==
  ASSUME BootInit
  PROVE  BootInv
<1>1. /\ providers \in Applications /\ bphase = "new"
      /\ indegree = [n \in Nodes |-> 0] /\ order = <<>> /\ path = <<>>
      /\ tried = [n \in Nodes |-> {}] /\ done = {} /\ root = 0 /\ called = <<>>
  BY DEF BootInit
<1>2. BootType
  BY <1>1 DEF BootType
<1>3. DOMAIN order = {} /\ 1 .. Len(order) - 1 = {} /\ DOMAIN called = {}
  BY <1>1
<1>4. OrderInv
  BY <1>1, <1>3 DEF OrderInv, IsInjective, Resolved, DegreesCount, NeedsFirst, TiesBroken,
                    LastWaitedFor, Sorting
<1>5. SearchInv /\ CallsInv /\ RingInv
  BY <1>1, <1>3 DEF SearchInv, CallsInv, RingInv
<1> QED
  BY <1>2, <1>4, <1>5 DEF BootInv

LEMMA BootStep ==
  ASSUME BootInv, [BootNext]_bootVars
  PROVE  BootInv'
<1>1. CASE UNCHANGED bootVars
  <2>1. /\ UNCHANGED <<providers, bphase, indegree, order, path, tried, done, root, called, cycle>>
    BY <1>1 DEF bootVars
  <2>2. /\ Nodes' = Nodes /\ Residual' = Residual
        /\ \A n : Needs(n)' = Needs(n)
        /\ \A n : Consumers(n)' = Consumers(n)
    BY <2>1, GraphFixed DEF Residual
  <2>3. BootType'
    BY <2>1, <2>2 DEF BootInv, BootType
  <2>4. OrderInv'
    BY <2>1, OrderStays DEF BootInv, OrderInv
  <2>5. SearchInv'
    BY <2>1, <2>2 DEF BootInv, SearchInv, Stuck, Finished, Trail
  <2>6. CallsInv' /\ RingInv'
    BY <2>1, <2>2 DEF BootInv, CallsInv, RingInv
  <2> QED
    BY <2>3, <2>4, <2>5, <2>6 DEF BootInv
<1> QED
  BY <1>1, MountStep, EdgesStep, KahnStep, KahnEndStep, CandidateStep, VisitStep, LeaveStep,
     PassStep DEF BootNext

LEMMA BootInvAnswers ==
  ASSUME BootInv
  PROVE  BootAnswersRight
<1>1. ASSUME bphase = "booted"
      PROVE  /\ called = [i \in 1 .. 2 * Len(order) |->
                            IF i <= Len(order) THEN <<"register", order[i]>>
                            ELSE <<"boot", order[i - Len(order)]>>]
             /\ ToSet(order) = Nodes /\ Len(order) = Len(providers)
             /\ \A n \in Nodes : \A m \in Needs(n) : Position(m) < Position(n)
             /\ \A i \in 1 .. Len(order) - 1 :
                   order[i + 1] < order[i] => order[i] \in Needs(order[i + 1])
  <2>1. /\ order \in Seq(Nodes) /\ Len(order) \in Nat /\ DOMAIN order = 1 .. Len(order)
        /\ ToSet(order) \subseteq Nodes
        /\ \A e : e \in ToSet(order) <=> \E i \in DOMAIN order : order[i] = e
    BY Membership DEF BootInv, BootType
  <2>2. /\ IsInjective(order) /\ NeedsFirst /\ TiesBroken /\ Len(order) = Len(providers)
    BY <1>1 DEF BootInv, OrderInv
  <2>3. /\ called \in Seq({"register", "boot"} \X Nodes) /\ DOMAIN called = 1 .. 2 * Len(order)
        /\ called \in [1 .. 2 * Len(order) -> {"register", "boot"} \X Nodes]
        /\ \A i \in DOMAIN called :
             called[i] = IF i <= Len(order) THEN <<"register", order[i]>>
                         ELSE <<"boot", order[i - Len(order)]>>
    BY <1>1, LenProperties DEF BootInv, BootType, CallsInv
  <2>4. ToSet(order) = Nodes
    <3>1. /\ Nodes = 1 .. Len(providers) /\ Len(providers) \in Nat
      BY NodesAre DEF BootInv
    <3>2. Cardinality(Nodes) = Len(providers) /\ IsFiniteSet(Nodes)
      <4>1. 1 \in Int /\ Len(providers) \in Int
        BY <3>1
      <4>2. /\ IsFiniteSet(1 .. Len(providers))
            /\ Cardinality(1 .. Len(providers))
                 = IF 1 > Len(providers) THEN 0 ELSE Len(providers) - 1 + 1
        BY <4>1, FS_Interval
      <4> QED
        BY <3>1, <4>2
    <3>3. Cardinality(ToSet(order)) = Len(order)
      BY <2>1, <2>2, InjectiveLength
    <3> QED
      BY <2>1, <2>2, <3>2, <3>3, FS_Subset
  <2>5. ASSUME NEW n \in Nodes, NEW m \in Needs(n) PROVE Position(m) < Position(n)
    <3>1. PICK i \in DOMAIN order : order[i] = n
      BY <2>1, <2>4
    <3>2. PICK j \in DOMAIN order : j < i /\ order[j] = m
      BY <2>2, <2>5, <3>1 DEF NeedsFirst
    <3>3. Position(n) = i
      <4>1. LET I == {x \in 1 .. Len(order) : order[x] = order[i]} IN I # {} /\ Min(I) = i
        BY <2>1, <2>2, PlaceOf
      <4> QED
        BY <3>1, <4>1 DEF Position, SelectInSeq
    <3>4. Position(m) = j
      <4>1. LET I == {x \in 1 .. Len(order) : order[x] = order[j]} IN I # {} /\ Min(I) = j
        BY <2>1, <2>2, PlaceOf
      <4> QED
        BY <3>2, <4>1 DEF Position, SelectInSeq
    <3> QED
      BY <3>2, <3>3, <3>4
  <2>6. called = [i \in 1 .. 2 * Len(order) |->
                    IF i <= Len(order) THEN <<"register", order[i]>>
                    ELSE <<"boot", order[i - Len(order)]>>]
    BY <2>3
  <2> QED
    BY <2>2, <2>4, <2>5, <2>6 DEF TiesBroken
<1>2. ASSUME bphase = "cycle"
      PROVE  /\ called = <<>>
             /\ cycle # <<>> /\ IsInjective(cycle)
             /\ \A i \in DOMAIN cycle : cycle[i] \in Needs(cycle[(i % Len(cycle)) + 1])
  BY <1>2 DEF BootInv, CallsInv, RingInv
<1> QED
  BY <1>1, <1>2 DEF BootAnswersRight

\* boot answers right for any providers.
THEOREM BootIsRight == BootSpec => []BootAnswersRight
<1>1. BootInit => BootInv
  BY BootStart
<1>2. BootInv /\ [BootNext]_bootVars => BootInv'
  BY BootStep
<1>3. BootInv => BootAnswersRight
  BY BootInvAnswers
<1> QED
  BY <1>1, <1>2, <1>3, PTL DEF BootSpec

\* cycle_names reports everything left only "as a last resort": it never comes
\* to that, the search always finds a ring.
THEOREM LastResortUnused == BootSpec => [][Candidate => bphase' = "search"]_bootVars
<1>1. BootInit => BootInv
  BY BootStart
<1>2. BootInv /\ [BootNext]_bootVars => BootInv'
  BY BootStep
<1>3. BootInv /\ [BootNext]_bootVars => [Candidate => bphase' = "search"]_bootVars
  BY CandidateFinds
<1> QED
  BY <1>1, <1>2, <1>3, PTL DEF BootSpec
=============================================================================
