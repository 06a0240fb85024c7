--------------------------- MODULE OwnerMigration ---------------------------
(***************************************************************************)
(* Revision 20260722_0002 requires every portfolio to have an owner, while *)
(* the running releases keep inserting and listing: the deployment runs    *)
(* `alembic upgrade head` before it replaces the old release, whose        *)
(* portfolios may have no owner.  Paging is the portfolios table as this   *)
(* release uses it; here it runs under the table locks of the migration.   *)
(***************************************************************************)
EXTENDS Paging

CONSTANTS
  OldSessions,   \* units of work of the old release
  MaxUnowned     \* bound: rows the old release leaves behind

ASSUME MigrationAssumption == MaxUnowned \in Nat

VARIABLES
  unowned,    \* how many committed portfolios have a NULL owner_id
  old,        \* the old sessions that have inserted one and not committed
  required,   \* owner_id is NOT NULL, and alembic_version says so
  upgrade     \* the transaction of upgrade(), or "none"

migVars  == <<unowned, old, required, upgrade>>
allVars  == <<rows, open, walk, unowned, old, required, upgrade>>

MigrationInit ==
  /\ Init
  /\ unowned = 0 /\ old = {} /\ required = FALSE /\ upgrade = "none"

(* ALTER TABLE asks for ACCESS EXCLUSIVE: while it waits, whoever has no   *)
(* lock on the table queues behind it; once it has it, nobody gets one.    *)
Free == upgrade \in {"none", "checked"}

(* Transactions with a lock on portfolios: an INSERT of either release, or *)
(* a list between its two statements.                                      *)
Busy == \/ old # {}
        \/ \E s \in Sessions : open[s] # {}
        \/ walk.at = "count"

OldInsert(s) ==
  /\ Free /\ ~required /\ s \notin old
  /\ unowned + Cardinality(old) < MaxUnowned
  /\ old' = old \cup {s}
  /\ UNCHANGED <<rows, open, walk, unowned, required, upgrade>>

OldCommit(s) ==
  /\ s \in old
  /\ old' = old \ {s} /\ unowned' = unowned + 1
  /\ UNCHANGED <<rows, open, walk, required, upgrade>>

OldRollback(s) ==
  /\ s \in old
  /\ old' = old \ {s}
  /\ UNCHANGED <<rows, open, walk, unowned, required, upgrade>>

(* The DO block: it sees what is committed, and no uncommitted INSERT.     *)
Check ==
  /\ upgrade = "none" /\ ~required
  /\ upgrade' = IF unowned = 0 THEN "checked" ELSE "none"
  /\ UNCHANGED <<rows, open, walk, unowned, old, required>>

(* op.alter_column: the request for the lock.                              *)
Ask ==
  /\ upgrade = "checked"
  /\ upgrade' = "waiting"
  /\ UNCHANGED <<rows, open, walk, unowned, old, required>>

(* Mutant: the constraint is added without a look at the rows, which the   *)
(* DO block has looked at.                                                 *)
AlterUnseen ==
  /\ upgrade = "waiting" /\ ~Busy
  /\ upgrade' = "altered"
  /\ UNCHANGED <<rows, open, walk, unowned, old, required>>

(* ALTER TABLE ... SET NOT NULL gets its lock and scans the rows; a NULL   *)
(* committed since the DO block fails the transaction.                     *)
Alter ==
  /\ upgrade = "waiting" /\ ~Busy
  /\ upgrade' = IF unowned = 0 THEN "altered" ELSE "none"
  /\ UNCHANGED <<rows, open, walk, unowned, old, required>>

(* begin_transaction() of env.py commits the schema and alembic_version.   *)
Upgraded ==
  /\ upgrade = "altered"
  /\ required' = TRUE /\ upgrade' = "none"
  /\ UNCHANGED <<rows, open, walk, unowned, old>>

(* The migration dies or loses its connection; DDL is transactional.       *)
Undo ==
  /\ upgrade # "none"
  /\ upgrade' = "none"
  /\ UNCHANGED <<rows, open, walk, unowned, old, required>>

(* downgrade(), in one transaction.                                        *)
Downgrade ==
  /\ required /\ ~Busy
  /\ required' = FALSE
  /\ UNCHANGED <<rows, open, walk, unowned, old, upgrade>>

(* An operator gives the unowned rows an owner, or deletes them.           *)
Repair ==
  /\ unowned > 0 /\ Free
  /\ unowned' = 0
  /\ UNCHANGED <<rows, open, walk, old, required, upgrade>>

Migrate == Check \/ Ask \/ Alter \/ Upgraded \/ Undo \/ Downgrade

(* This release, which always names an owner, under the locks.             *)
Served ==
  /\ \/ Free /\ (\E s \in Sessions, row \in Row : Insert(s, row))
     \/ Free /\ SelectItems
     \/ \E s \in Sessions : Commit(s) \/ Rollback(s)
     \/ \E scope \in Scopes, limit \in Limits : Start(scope, limit)
     \/ Count \/ Turn \/ Retry \/ Leave
  /\ UNCHANGED migVars

MigrationNext ==
  \/ Served \/ Migrate \/ Repair
  \/ \E s \in OldSessions : OldInsert(s) \/ OldCommit(s) \/ OldRollback(s)

MigrationSpec == MigrationInit /\ [][MigrationNext]_allVars

-----------------------------------------------------------------------------
(* Once owner_id is required no portfolio is without an owner and no       *)
(* session is about to commit one, although the check of the migration and *)
(* its ALTER see two different tables and the old release writes between   *)
(* them; and until then nothing of the migration is left behind.           *)
OwnersRequired ==
  /\ required => unowned = 0 /\ old = {}
  /\ upgrade = "altered" => unowned = 0 /\ ~Busy

(* Type correctness of the added variables.                                *)
MigrationTypeOK ==
  /\ unowned \in Nat /\ old \subseteq OldSessions
  /\ required \in BOOLEAN
  /\ upgrade \in {"none", "checked", "waiting", "altered"}
=============================================================================
