------------------------------ MODULE Migrator ------------------------------
(***************************************************************************)
(* The migrator of rustasea-orm (migration.rs, migration/fresh.rs): run,   *)
(* rollback and fresh over the ledger table, by operators whose processes  *)
(* may die between any two statements and who may work at the same time.   *)
(*                                                                         *)
(* A migration creates one table and its down drops it if it is there.  To *)
(* create a table that is there is an error, unless the script says IF NOT *)
(* EXISTS: the queue's own migrations do, those of the scaffold do not.    *)
(* SQLite and PostgreSQL run DDL in the transaction that records it; MySQL *)
(* commits DDL by itself and is left out.                                  *)
(***************************************************************************)
EXTENDS Integers, Sequences, FiniteSets, FiniteSetsExt, SequencesExt

CONSTANTS
  Migrations,      \* the registered migrations, in order
  Irreversible,    \* those without a down
  Tolerant,        \* those that create their table IF NOT EXISTS
  Deployer,        \* processes that run the migrator
  MaxBatch,        \* BOUND: batches
  Ledger           \* the table migrations

ASSUME MigratorAssumption ==
  /\ IsInjective(Migrations)
  /\ Irreversible \subseteq Range(Migrations) /\ Tolerant \subseteq Range(Migrations)
  /\ Ledger \notin Range(Migrations)
  /\ MaxBatch \in Nat

VARIABLES
  dialect,     \* "sqlite" or "postgres"
  tables,      \* the tables there are, oldest first
  rows,        \* the ledger's rows: migration -> batch
  op,          \* per deployer: where its command is
  overlapped,  \* history: a fresh has overlapped another command
  survived     \* history: tables that a fresh which died among its drops left
               \* and whose rows nobody deleted, since there last was no table;
               \* not kept once overlapped

migVars == <<dialect, tables, rows, op, overlapped, survived>>

MIdle == [pc |-> "idle"]

MigInit ==
  /\ dialect \in {"sqlite", "postgres"}
  /\ tables = <<>>
  /\ rows = <<>>
  /\ op = [d \in Deployer |-> MIdle]
  /\ overlapped = FALSE
  /\ survived = {}

\* What `run` takes first of a set of migrations, and `rollback`.
FirstOf(S) ==
  {m \in S : \E i \in 1 .. Len(Migrations) :
      Migrations[i] = m /\ \A j \in 1 .. i - 1 : Migrations[j] \notin S}
LastOf(S) ==
  {m \in S : \E i \in 1 .. Len(Migrations) :
      Migrations[i] = m /\ \A j \in i + 1 .. Len(Migrations) : Migrations[j] \notin S}

MAt(d, pc) == op[d].pc = pc
MGo(d, to) == op' = [op EXCEPT ![d] = to]
Exists(t) == t \in Range(tables)
WithTable(t) == IF Exists(t) THEN tables ELSE Append(tables, t)

\* An error ends the command.
MFail(d) == MGo(d, MIdle) /\ UNCHANGED <<tables, rows>>

-----------------------------------------------------------------------------
\* ensure_table, then what the command does.
Ensure(d, command) ==
  /\ \/ MAt(d, "idle")
     \/ MAt(d, "dropped") /\ command = "run"
  /\ tables' = WithTable(Ledger)
  /\ MGo(d, [pc |-> command])
  /\ UNCHANGED rows

max_batch == IF rows = <<>> THEN 0 ELSE Max(Range(rows))

\* run: the registered migrations that have no row.
RunPending(d) ==
  /\ MAt(d, "run")
  /\ LET pending == Range(Migrations) \ DOMAIN rows IN
     IF Exists(Ledger) /\ pending # {}
     THEN MGo(d, [pc |-> "batch", pending |-> pending])
     ELSE MGo(d, MIdle)
  /\ UNCHANGED <<tables, rows>>

RunBatch(d) ==
  /\ MAt(d, "batch")
  /\ max_batch < MaxBatch
  /\ IF Exists(Ledger)
     THEN MGo(d, [pc |-> "apply", pending |-> op[d].pending, batch |-> max_batch + 1])
     ELSE MGo(d, MIdle)
  /\ UNCHANGED <<tables, rows>>

\* One migration in one transaction: its script, then its row.
RunApply(d) ==
  /\ MAt(d, "apply")
  /\ \E m \in FirstOf(op[d].pending) :
       IF (m \in Tolerant \/ ~ Exists(m)) /\ Exists(Ledger) /\ m \notin DOMAIN rows
       THEN /\ tables' = WithTable(m)
            /\ rows' = [n \in DOMAIN rows \cup {m} |-> IF n = m THEN op[d].batch ELSE rows[n]]
            /\ MGo(d, IF op[d].pending = {m} THEN MIdle
                      ELSE [op[d] EXCEPT !.pending = @ \ {m}])
       ELSE MFail(d)

\* rollback: the newest batch and its names are two queries.
RollbackBatch(d) ==
  /\ MAt(d, "rollback")
  /\ IF Exists(Ledger) /\ max_batch > 0
     THEN MGo(d, [pc |-> "names", batch |-> max_batch])
     ELSE MGo(d, MIdle)
  /\ UNCHANGED <<tables, rows>>

RollbackNames(d) ==
  /\ MAt(d, "names")
  /\ LET names == {m \in Range(Migrations) \cap DOMAIN rows : rows[m] = op[d].batch} IN
     MGo(d, IF names = {} THEN MIdle ELSE [pc |-> "undo", names |-> names])
  /\ UNCHANGED <<tables, rows>>

\* One down in one transaction: its script, then the row's deletion.
RollbackUndo(d) ==
  /\ MAt(d, "undo")
  /\ \E m \in LastOf(op[d].names) :
       IF m \notin Irreversible /\ Exists(Ledger)
       THEN /\ tables' = RemoveFirst(tables, m)
            /\ rows' = [n \in DOMAIN rows \ {m} |-> rows[n]]
            /\ MGo(d, IF op[d].names = {m} THEN MIdle ELSE [op[d] EXCEPT !.names = @ \ {m}])
       ELSE MFail(d)

-----------------------------------------------------------------------------
(* fresh: drop everything, then run. *)

\* Mutant: the newest table is dropped first.
newest_first(names) == Reverse(names)

\* sqlite_master lists tables in the order they were created.
table_names(names) == names

FreshList(d) ==
  /\ MAt(d, "idle") /\ dialect = "sqlite"
  /\ MGo(d, [pc |-> "drop", left |-> table_names(tables)])
  /\ UNCHANGED <<tables, rows>>

\* DROP TABLE IF EXISTS, one statement per table; the rows go with the ledger.
FreshDrop(d) ==
  /\ MAt(d, "drop") /\ op[d].left # <<>>
  /\ LET t == Head(op[d].left) IN
     /\ tables' = RemoveFirst(tables, t)
     /\ rows' = IF t = Ledger THEN <<>> ELSE rows
  /\ MGo(d, [op[d] EXCEPT !.left = Tail(@)])

FreshDropped(d) ==
  /\ MAt(d, "drop") /\ op[d].left = <<>>
  /\ MGo(d, [pc |-> "dropped"])
  /\ UNCHANGED <<tables, rows>>

\* DROP SCHEMA public CASCADE; CREATE SCHEMA public in one script.
FreshSchema(d) ==
  /\ MAt(d, "idle") /\ dialect = "postgres"
  /\ tables' = <<>> /\ rows' = <<>>
  /\ MGo(d, [pc |-> "dropped"])

\* A statement fails or the process dies; what was committed stays.
MCrash(d) == ~ MAt(d, "idle") /\ MFail(d)

MigNext ==
  /\ UNCHANGED dialect
  /\ \E d \in Deployer :
        \/ \E command \in {"run", "rollback"} : Ensure(d, command)
        \/ RunPending(d) \/ RunBatch(d) \/ RunApply(d)
        \/ RollbackBatch(d) \/ RollbackNames(d) \/ RollbackUndo(d)
        \/ FreshList(d) \/ FreshDrop(d) \/ FreshDropped(d) \/ FreshSchema(d)
        \/ MCrash(d)
  /\ overlapped' = (overlapped \/ \E d \in Deployer : \E e \in Deployer \ {d} :
                      op'[d].pc \in {"drop", "dropped"} /\ op'[e].pc # "idle")
  /\ survived' = IF tables' = <<>> \/ overlapped' THEN {}
                 ELSE (survived \ (DOMAIN rows \ DOMAIN rows'))
                        \cup {t \in Range(tables') :
                                \E d \in Deployer : MAt(d, "drop") /\ op'[d].pc = "idle"}

MigSpec == MigInit /\ [][MigNext]_migVars

-----------------------------------------------------------------------------
\* A migration the ledger records has its table: no crash inside run,
\* rollback or fresh, and no second deployer at work, leaves a row without
\* what it stands for, which every later run would skip (fresh drops the
\* ledger before what it records, run and rollback change both in one
\* transaction).  Two cases are excepted.  A fresh next to another command has a
\* stale list when it drops.  And a table that outlived an interrupted fresh is
\* older than the next ledger; when its migration tolerates it, run records it,
\* and the next fresh drops it before the ledger.
RecordedIsApplied ==
  overlapped \/ \A m \in DOMAIN rows : Exists(m) \/ m \in survived \cap Tolerant
=============================================================================
