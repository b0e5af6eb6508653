------------------------------ MODULE ModelOps ------------------------------
(***************************************************************************)
(* Model persistence of rustasea-orm: the operations of model_ops.rs on    *)
(* one row, the cascade to the children of a parent (model_ops/cascade.rs, *)
(* restore.rs), and the query cache they invalidate (cache.rs,             *)
(* builder/exec.rs, model_ops/cache_hooks.rs).                             *)
(*                                                                         *)
(* Parent is the row of a cascading, audited model; the other rows are its *)
(* children, in a table of their own whose model does not cascade.  Every  *)
(* statement is its own transaction and every await lets other tasks run.  *)
(* The cache key of a query holds the generation of its table, so an entry *)
(* stored under an earlier generation is never asked for again; `cached`   *)
(* keeps only the entries of the current generations.                      *)
(*                                                                         *)
(* Queries run on a pool (Executor::Pool).  A cached query inside an open  *)
(* transaction (Executor::Transaction) is left out: the code stores what   *)
(* it read, rows of an older snapshot or of its own uncommitted writes     *)
(* included, under the generation of the moment.                           *)
(***************************************************************************)
EXTENDS Naturals, FiniteSets

CONSTANTS
  Parent,          \* the key of the parent row
  Child,           \* the keys of its children
  Data,            \* what the user columns of a row may hold
  Writer,          \* tasks that call a model operation
  Reader,          \* tasks that run a cached query
  MaxBegun,        \* BOUND: operations begun
  Gone             \* no row, no entry

ASSUME ModelAssumption ==
  /\ Parent \notin Child
  /\ MaxBegun \in Nat

VARIABLES
  instant,       \* the latest instant a deleted_at was stamped with
  records,       \* key -> [data, deleted_at], or Gone; deleted_at 0 is NULL
  generations,   \* table -> its generation
  cached,        \* table -> the rows cached under its generation, or Gone
  writer,        \* per task: the operation it is in
  reader,        \* per task: the query it is in
  begun,         \* operations begun so far
  unbumped       \* tables changed by an operation that then failed, since
                 \* their last bump; no code reads it

modelVars == <<instant, records, generations, cached, writer, reader, begun, unbumped>>

Key == {Parent} \cup Child
Table == {"parents", "children"}
TableOf(k) == IF k = Parent THEN "parents" ELSE "children"
Content(t) == [k \in {k \in Key : TableOf(k) = t} |-> records[k]]

OpIdle == [pc |-> "idle"]

ModelInit ==
  /\ instant = 1
  /\ records \in [Key -> {Gone} \cup [data : Data, deleted_at : {0, 1}]]
  /\ generations = [t \in Table |-> 0]
  /\ cached = [t \in Table |-> Gone]
  /\ writer = [w \in Writer |-> OpIdle]
  /\ reader = [r \in Reader |-> OpIdle]
  /\ begun = 0
  /\ unbumped = {}

-----------------------------------------------------------------------------
Deletes == {"soft_delete", "force_delete", "restore"}
Operation == {"create", "save", "update"} \cup Deletes

WAt(w, pc) == writer[w].pc = pc
WGo(w, to) == writer' = [writer EXCEPT ![w] = to]

\* bump_table_generation: every entry of the table misses from now on.
bump(t) ==
  /\ generations' = [generations EXCEPT ![t] = @ + 1]
  /\ cached' = [cached EXCEPT ![t] = Gone]
  /\ unbumped' = unbumped \ {t}

\* `?` after the statement: the operation returns its error at once.
Fails(w) ==
  /\ WGo(w, OpIdle)
  /\ unbumped' = unbumped \cup {TableOf(writer[w].key)}
  /\ UNCHANGED <<instant, records, generations, cached, reader>>

\* The reads before the statement: a delete or a restore that cascades takes
\* a snapshot of the parent; the others have the data to write.
Begin(w, op, k, d) ==
  /\ WAt(w, "idle") /\ begun < MaxBegun
  /\ begun' = begun + 1
  /\ WGo(w, [pc     |-> "statement", op |-> op, key |-> k,
             data   |-> IF op \in Deletes THEN Gone ELSE d,
             parent |-> IF op \in Deletes /\ k = Parent THEN records[k] ELSE Gone])
  /\ UNCHANGED <<instant, records, generations, cached, reader, unbumped>>

\* What a statement executed at `now` does to the row it addresses.
Changed(op, row, d, now) ==
  CASE op = "create" \/ (op = "save" /\ row = Gone) -> [data |-> d, deleted_at |-> 0]
    [] op = "force_delete"                         -> Gone
    [] row = Gone                                  -> Gone
    [] op \in {"save", "update"}                   -> [row EXCEPT !.data = d]
    [] op = "soft_delete"                          -> [row EXCEPT !.deleted_at = now]
    [] op = "restore"                              -> [row EXCEPT !.deleted_at = 0]

Affects(op, row) ==
  CASE op = "create" -> row = Gone
    [] op = "save"   -> TRUE
    [] OTHER         -> row # Gone

\* A soft delete reads the clock, which may stand where it stood.
Stamps(op) == instant' \in (IF op = "soft_delete" THEN {instant, instant + 1} ELSE {instant})

\* A duplicate insert and an update of no row are errors; a delete or restore
\* of no row goes on to the bump.  The statement may also fail.
Statement(w) ==
  /\ WAt(w, "statement")
  /\ LET op  == writer[w].op
         k   == writer[w].key
     IN  \/ /\ Affects(op, records[k])
            /\ Stamps(op)
            /\ records' = [records EXCEPT ![k] = Changed(op, @, writer[w].data, instant')]
            /\ WGo(w, [writer[w] EXCEPT !.pc = "record"])
         \/ /\ ~ Affects(op, records[k]) /\ op \in Deletes
            /\ WGo(w, [writer[w] EXCEPT !.pc = "bump"])
            /\ UNCHANGED <<instant, records>>
         \/ /\ WGo(w, OpIdle)
            /\ UNCHANGED <<instant, records>>
  /\ UNCHANGED <<generations, cached, reader, unbumped>>

Cascades(m) == m.key = Parent /\ m.op \in Deletes /\ m.parent # Gone

\* The re-read and the activity record.
Recorded(w) ==
  /\ WAt(w, "record")
  /\ \/ /\ WGo(w, [writer[w] EXCEPT !.pc = IF Cascades(writer[w]) THEN "children" ELSE "bump"])
        /\ UNCHANGED <<instant, records, generations, cached, reader, unbumped>>
     \/ Fails(w)

\* child_rows and retain_restorable.
Affected(m) ==
  {c \in Child :
     /\ records[c] # Gone
     /\ CASE m.op = "soft_delete"  -> records[c].deleted_at = 0
          [] m.op = "force_delete" -> TRUE
          [] m.op = "restore"      -> /\ records[c].deleted_at # 0
                                      /\ m.parent.deleted_at # 0
                                      /\ records[c].deleted_at >= m.parent.deleted_at}

ChildRows(w) ==
  /\ WAt(w, "children")
  /\ \/ /\ WGo(w, [pc |-> IF Affected(writer[w]) = {} THEN "bump" ELSE "chunk",
                   op |-> writer[w].op, key |-> Parent, ids |-> Affected(writer[w])])
        /\ UNCHANGED <<instant, records, generations, cached, reader, unbumped>>
     \/ Fails(w)

\* execute_child_chunk, up to its statement ...
ChildStatement(w) ==
  /\ WAt(w, "chunk")
  /\ \/ /\ Stamps(writer[w].op)
        /\ records' = [k \in Key |-> IF k \in writer[w].ids
                                     THEN Changed(writer[w].op, records[k], Gone, instant')
                                     ELSE records[k]]
        /\ WGo(w, [writer[w] EXCEPT !.pc = "childbump"])
        /\ UNCHANGED <<generations, cached, reader, unbumped>>
     \/ Fails(w)

\* ... and from its bump to the end of the cascade.
ChildBump(w) ==
  /\ WAt(w, "childbump")
  /\ bump("children")
  /\ WGo(w, [pc |-> "childrecord", op |-> writer[w].op, key |-> Parent])
  /\ UNCHANGED <<instant, records, reader>>

ChildRecorded(w) ==
  /\ WAt(w, "childrecord")
  /\ \/ /\ WGo(w, [writer[w] EXCEPT !.pc = "bump"])
        /\ UNCHANGED <<instant, records, generations, cached, reader, unbumped>>
     \/ Fails(w)

\* invalidate_table, the last thing a successful operation does.
Bump(w) ==
  /\ WAt(w, "bump")
  /\ bump(TableOf(writer[w].key))
  /\ WGo(w, OpIdle)
  /\ UNCHANGED <<instant, records, reader>>

-----------------------------------------------------------------------------
(* fetch_json_cached. *)

RGo(r, to) == reader' = [reader EXCEPT ![r] = to]

\* The key is made and the store misses, or its answer is an error.
ReadMiss(r, t) ==
  /\ reader[r] = OpIdle
  /\ RGo(r, [pc |-> "query", table |-> t, generation |-> generations[t]])
  /\ UNCHANGED <<instant, records, generations, cached, writer, unbumped>>

\* On a pool the query reads what is committed; an error ends it.
ReadQuery(r) ==
  /\ reader[r].pc = "query"
  /\ \/ RGo(r, [pc |-> "put", table |-> reader[r].table, generation |-> reader[r].generation,
                records |-> Content(reader[r].table)])
     \/ RGo(r, OpIdle)
  /\ UNCHANGED <<instant, records, generations, cached, writer, unbumped>>

\* Mutant: the key is made when the rows are stored.
key_at_put(q) == generations[q.table]

\* The generation in the key the rows are stored under.
key_generation(q) == q.generation

ReadPut(r) ==
  /\ reader[r].pc = "put"
  /\ LET q == reader[r] IN
     \/ /\ key_generation(q) = generations[q.table]
        /\ cached' = [cached EXCEPT ![q.table] = q.records]
     \/ UNCHANGED cached
  /\ RGo(r, OpIdle)
  /\ UNCHANGED <<instant, records, generations, writer, unbumped>>

\* The entry's TTL ends.
Expire(t) ==
  /\ cached[t] # Gone
  /\ cached' = [cached EXCEPT ![t] = Gone]
  /\ UNCHANGED <<instant, records, generations, writer, reader, unbumped>>

\* flush_cache: the generation is bumped and the store drops the table's keys.
flush_cache(t) ==
  /\ begun < MaxBegun
  /\ begun' = begun + 1
  /\ bump(t)
  /\ UNCHANGED <<instant, records, writer, reader>>

Step ==
  \/ \E w \in Writer :
        \/ Statement(w) \/ Recorded(w) \/ Bump(w)
        \/ ChildRows(w) \/ ChildStatement(w) \/ ChildBump(w) \/ ChildRecorded(w)
  \/ \E r \in Reader :
        \/ \E t \in Table : ReadMiss(r, t)
        \/ ReadQuery(r) \/ ReadPut(r)
  \/ \E t \in Table : Expire(t)

ModelNext ==
  \/ \E w \in Writer, op \in Operation, k \in Key, d \in Data : Begin(w, op, k, d)
  \/ \E t \in Table : flush_cache(t)
  \/ Step /\ UNCHANGED begun

ModelSpec == ModelInit /\ [][ModelNext]_modelVars

-----------------------------------------------------------------------------
\* A write to t has reached the database and its bump is still to come.
Bumping(t) ==
  \E w \in Writer :
     \/ t = "children" /\ WAt(w, "childbump")
     \/ /\ writer[w].pc \in {"record", "children", "chunk", "childbump", "childrecord", "bump"}
        /\ TableOf(writer[w].key) = t

\* A cached query answers with the rows of its table, whatever operations,
\* cascades and other queries ran meanwhile, except between a statement and
\* its bump and after an operation that failed past its statement
\* (fetch_json_cached, invalidate_table, execute_child_chunk).
CachedRowsCurrent ==
  \A t \in Table :
     cached[t] # Gone /\ ~ Bumping(t) /\ t \notin unbumped => cached[t] = Content(t)
=============================================================================
