-------------------------- MODULE CacheRepository --------------------------
(***************************************************************************)
(* The cache repository of rustasea-cache (repository.rs) over its two     *)
(* stores: memory.rs, whose operations each hold one mutex, and redis.rs,  *)
(* whose operations are one command each except flush, which pages through *)
(* the keys with SCAN.  Locks are in CacheLock.                            *)
(*                                                                         *)
(* A value is the number of the write that stored it.  A key stands for    *)
(* prefix, context and key together.                                       *)
(***************************************************************************)
EXTENDS Naturals, FiniteSets

CONSTANTS
  CKey,          \* qualified keys
  Caller,        \* tasks that use the repository
  Ttls,          \* TTLs in ticks; 0 is no expiry
  MaxWrites,     \* BOUND: writes
  MaxTick,       \* BOUND: the clock
  Miss           \* no entry

ASSUME CacheAssumption ==
  /\ Ttls \subseteq Nat /\ MaxWrites \in Nat /\ MaxTick \in Nat

VARIABLES
  driver,      \* "memory" or "redis": the store of this repository
  tick,        \* the clock
  entries,     \* key -> [value, expires_at], or Miss; expires_at 0 is never
  writes,      \* writes so far
  caller       \* per task: the operation it is in the middle of

cacheVars == <<driver, tick, entries, writes, caller>>

CIdle == [pc |-> "idle"]

CacheInit ==
  /\ driver \in {"memory", "redis"}
  /\ tick = 1
  /\ entries = [k \in CKey |-> Miss]
  /\ writes = 0
  /\ caller = [c \in Caller |-> CIdle]

alive(k) == entries[k] # Miss /\ (entries[k].expires_at = 0 \/ tick < entries[k].expires_at)

CAt(c, pc) == caller[c].pc = pc
CGo(c, to) == caller' = [caller EXCEPT ![c] = to]

\* A write stores a value nobody stored before.
Write(k, expires_at) ==
  /\ writes < MaxWrites
  /\ writes' = writes + 1
  /\ entries' = [entries EXCEPT ![k] = [value |-> writes + 1, expires_at |-> expires_at]]

Until(ttl) == IF ttl = 0 THEN 0 ELSE tick + ttl

-----------------------------------------------------------------------------
(* One store operation each. *)

\* put and forever.
Put(c, k, ttl) ==
  /\ CAt(c, "idle")
  /\ Write(k, Until(ttl))
  /\ UNCHANGED <<tick, caller>>

\* add: put_if_absent.
Add(c, k, ttl) ==
  /\ CAt(c, "idle") /\ ~ alive(k)
  /\ Write(k, Until(ttl))
  /\ UNCHANGED <<tick, caller>>

\* increment and decrement: a missing key counts as zero.  The memory store
\* writes the sum without the expiry, Redis keeps it.
Increment(c, k) ==
  /\ CAt(c, "idle")
  /\ Write(k, IF driver = "redis" /\ alive(k) THEN entries[k].expires_at ELSE 0)
  /\ UNCHANGED <<tick, caller>>

Touch(c, k, ttl) ==
  /\ CAt(c, "idle") /\ alive(k)
  /\ entries' = [entries EXCEPT ![k].expires_at = Until(ttl)]
  /\ UNCHANGED <<tick, writes, caller>>

Forget(c, k) ==
  /\ CAt(c, "idle") /\ entries[k] # Miss
  /\ entries' = [entries EXCEPT ![k] = Miss]
  /\ UNCHANGED <<tick, writes, caller>>

-----------------------------------------------------------------------------
(* remember and pull: two store operations. *)

\* remember misses and runs its producer ...
RememberMiss(c, k, ttl) ==
  /\ CAt(c, "idle") /\ ~ alive(k)
  /\ CGo(c, [pc |-> "produce", key |-> k, ttl |-> ttl])
  /\ UNCHANGED <<tick, entries, writes>>

\* ... and puts what it produced, or returns the producer's error.
RememberPut(c) ==
  /\ CAt(c, "produce")
  /\ \/ Write(caller[c].key, Until(caller[c].ttl))
     \/ UNCHANGED <<entries, writes>>
  /\ CGo(c, CIdle)
  /\ UNCHANGED tick

\* pull reads the key, hit or miss ...
PullGet(c, k) ==
  /\ CAt(c, "idle")
  /\ CGo(c, [pc |-> "pull", key |-> k])
  /\ UNCHANGED <<tick, entries, writes>>

\* ... and forgets it, whatever the key holds now, unless the store fails.
PullForget(c) ==
  /\ CAt(c, "pull")
  /\ \/ entries' = [entries EXCEPT ![caller[c].key] = Miss]
     \/ UNCHANGED entries
  /\ CGo(c, CIdle)
  /\ UNCHANGED <<tick, writes>>

-----------------------------------------------------------------------------
(* flush. *)

Stored == {<<k, entries[k].value>> : k \in {k \in CKey : entries[k] # Miss}}

\* The memory store clears the map.
FlushMemory(c) ==
  /\ driver = "memory" /\ CAt(c, "idle") /\ Stored # {}
  /\ entries' = [k \in CKey |-> Miss]
  /\ CGo(c, [pc |-> "flushed", before |-> Stored])
  /\ UNCHANGED <<tick, writes>>

\* Redis: SCAN from cursor 0.  Its promise is that a key present from the
\* first page to the last is on one of them; unscanned holds what
\* was stored all along and is on no page yet.
FlushScan(c) ==
  /\ driver = "redis" /\ CAt(c, "idle") /\ Stored # {}
  /\ CGo(c, [pc |-> "scan", before |-> Stored,
             unscanned |-> Stored])
  /\ UNCHANGED <<tick, entries, writes>>

\* Mutant: an empty page is taken for the end.
empty_page(page, cursor) == page = {} \/ cursor = 0

\* The loop ends when the cursor is back at 0.
scan_over(page, cursor) == cursor = 0

\* A page arrives; its keys are unlinked in the next step.
FlushPage(c, page, cursor) ==
  /\ CAt(c, "scan")
  /\ LET left == {s \in caller[c].unscanned \cap Stored : s[1] \notin page} IN
     /\ page \subseteq {k \in CKey : entries[k] # Miss}
     /\ cursor = 0 => left = {}
     /\ CGo(c, [pc |-> IF scan_over(page, cursor) THEN "last" ELSE "unlink",
                before |-> caller[c].before, unscanned |-> left, page |-> page])
  /\ UNCHANGED <<tick, entries, writes>>

FlushUnlink(c) ==
  /\ CAt(c, "unlink") \/ CAt(c, "last")
  /\ entries' = [k \in CKey |-> IF k \in caller[c].page THEN Miss ELSE entries[k]]
  /\ CGo(c, IF CAt(c, "last") THEN [pc |-> "flushed", before |-> caller[c].before]
            ELSE [pc |-> "scan", before |-> caller[c].before,
                  unscanned |-> caller[c].unscanned])
  /\ UNCHANGED <<tick, writes>>

\* flush returns, from any point of it when a command fails.
FlushReturn(c) ==
  /\ caller[c].pc \in {"scan", "unlink", "last", "flushed"}
  /\ CGo(c, CIdle)
  /\ UNCHANGED <<tick, entries, writes>>

CacheTick ==
  /\ tick < MaxTick
  /\ tick' = tick + 1
  /\ UNCHANGED <<entries, writes, caller>>

CacheNext ==
  /\ UNCHANGED driver
  /\ \/ CacheTick
     \/ \E c \in Caller :
           \/ \E k \in CKey, ttl \in Ttls :
                 Put(c, k, ttl) \/ Add(c, k, ttl) \/ Touch(c, k, ttl) \/ RememberMiss(c, k, ttl)
           \/ \E k \in CKey : Increment(c, k) \/ Forget(c, k) \/ PullGet(c, k)
           \/ RememberPut(c) \/ PullForget(c)
           \/ FlushMemory(c) \/ FlushScan(c)
           \/ \E page \in SUBSET CKey, cursor \in {0, 1} : FlushPage(c, page, cursor)
           \/ FlushUnlink(c) \/ FlushReturn(c)

CacheSpec == CacheInit /\ [][CacheNext]_cacheVars

-----------------------------------------------------------------------------
\* When flush answers, nothing that was stored when it was called is stored
\* any more, although Redis hands the keys out in pages, some of them empty,
\* while other callers write and delete (redis.rs, flush).
FlushRemovesAll ==
  \A c \in Caller : CAt(c, "flushed") => caller[c].before \cap Stored = {}
=============================================================================
