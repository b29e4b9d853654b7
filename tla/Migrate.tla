------------------------------- MODULE Migrate -------------------------------
(***************************************************************************)
(* Opening journal.db (src/journal-migrate.ts): every open reads the       *)
(* schema version and then applies the migrations above it, each in a      *)
(* transaction of its own.  The read is outside those transactions, so     *)
(* several processes may open a new database at once with the same answer. *)
(*                                                                         *)
(* The two SELECTs of currentJournalDbVersion see what one of them alone   *)
(* would; a transaction holds SQLite's write lock, so it is one step here, *)
(* or none if it rolls back or its process dies.                           *)
(***************************************************************************)
EXTENDS Integers

CONSTANTS
  Openers,      \* processes that open the journal
  Latest,       \* JOURNAL_DB_VERSION: the length of MIGRATIONS
  MaxDeaths     \* bound on processes that die while they open the journal

ASSUME MigrateAssumption == Latest \in Nat \ {0} /\ MaxDeaths \in Nat

VARIABLES
  tables,       \* versions whose tables exist
  versions,     \* rows of journal_schema_version
  conn,         \* opener -> where its migrateJournal is
  deaths        \* processes that died so far

migrateVars == <<tables, versions, conn, deaths>>

Closed == [pc |-> "closed", from |-> 0, applied |-> 0]

Conn == [pc : {"closed", "loop", "open", "failed"}, from : 0 .. Latest,
         applied : 0 .. Latest]

MigrateTypeOK ==
  /\ tables \subseteq 1 .. Latest
  /\ versions \subseteq 1 .. Latest
  /\ conn \in [Openers -> Conn]
  /\ deaths \in 0 .. MaxDeaths

MigrateInit ==
  /\ tables = {}
  /\ versions = {}
  /\ conn = [o \in Openers |-> Closed]
  /\ deaths = 0

-----------------------------------------------------------------------------

(* SELECT MAX(version), or 0 before the table exists.                      *)
IsCurrentVersion(n) ==
  /\ n \in versions \cup {0}
  /\ \A v \in versions : v <= n

(* Mistake: a database that has tables at all is taken to be up to date.   *)
ReadVersionFromTables(o) ==
  /\ conn[o].pc = "closed"
  /\ conn' = [conn EXCEPT ![o] = [pc |-> "loop", applied |-> 0,
                                  from |-> IF tables = {} THEN 0 ELSE Latest]]
  /\ UNCHANGED <<tables, versions, deaths>>

(* migrateJournal starts: fromVersion is read once.                        *)
ReadVersion(o) ==
  /\ conn[o].pc = "closed"
  /\ \E n \in 0 .. Latest :
       /\ IsCurrentVersion(n)
       /\ conn' = [conn EXCEPT ![o] = [pc |-> "loop", from |-> n, applied |-> 0]]
  /\ UNCHANGED <<tables, versions, deaths>>

(* The migration whose turn it is.                                         *)
NextVersion(o) == conn[o].from + conn[o].applied + 1

(* Mistake: INSERT OR IGNORE into journal_schema_version.                  *)
ApplyOrIgnore(o) ==
  /\ conn[o].pc = "loop"
  /\ NextVersion(o) <= Latest
  /\ tables' = tables \cup {NextVersion(o)}
  /\ versions' = versions \cup {NextVersion(o)}
  /\ conn' = [conn EXCEPT ![o].applied = @ + 1]
  /\ UNCHANGED deaths

(* BEGIN, CREATE ... IF NOT EXISTS, INSERT the version, COMMIT.            *)
Apply(o) ==
  /\ conn[o].pc = "loop"
  /\ NextVersion(o) <= Latest
  /\ NextVersion(o) \notin versions
  /\ tables' = tables \cup {NextVersion(o)}
  /\ versions' = versions \cup {NextVersion(o)}
  /\ conn' = [conn EXCEPT ![o].applied = @ + 1]
  /\ UNCHANGED deaths

(* Mistake: no ROLLBACK and no transaction: the tables stay.               *)
ApplyFailsHalfway(o) ==
  /\ conn[o].pc = "loop"
  /\ NextVersion(o) <= Latest
  /\ tables' = tables \cup {NextVersion(o)}
  /\ conn' = [conn EXCEPT ![o].pc = "failed"]
  /\ UNCHANGED <<versions, deaths>>

(* The version was inserted since fromVersion was read: the primary key    *)
(* refuses it, ROLLBACK, and migrateJournal throws.                        *)
ApplyFails(o) ==
  /\ conn[o].pc = "loop"
  /\ NextVersion(o) <= Latest
  /\ NextVersion(o) \in versions
  /\ conn' = [conn EXCEPT ![o].pc = "failed"]
  /\ UNCHANGED <<tables, versions, deaths>>

(* No migration is left: the database is opened.                           *)
Opened(o) ==
  /\ conn[o].pc = "loop"
  /\ NextVersion(o) > Latest
  /\ conn' = [conn EXCEPT ![o].pc = "open"]
  /\ UNCHANGED <<tables, versions, deaths>>

(* The statement that needed the journal is over; every statement opens it *)
(* anew.                                                                   *)
Close(o) ==
  /\ conn[o].pc = "open"
  /\ conn' = [conn EXCEPT ![o] = Closed]
  /\ UNCHANGED <<tables, versions, deaths>>

(* Mistake: the version a process read first is kept for its next open.    *)
RetryWithStaleVersion(o) ==
  /\ conn[o].pc = "failed"
  /\ conn' = [conn EXCEPT ![o].pc = "loop"]
  /\ UNCHANGED <<tables, versions, deaths>>

(* The caller was given the error and comes again.                         *)
OpenAgain(o) ==
  /\ conn[o].pc = "failed"
  /\ conn' = [conn EXCEPT ![o] = Closed]
  /\ UNCHANGED <<tables, versions, deaths>>

(* The process dies; an open transaction is rolled back.                   *)
Die(o) ==
  /\ conn[o].pc \in {"loop", "open"}
  /\ deaths < MaxDeaths
  /\ deaths' = deaths + 1
  /\ conn' = [conn EXCEPT ![o] = Closed]
  /\ UNCHANGED <<tables, versions>>

-----------------------------------------------------------------------------

Migrating(o) == ReadVersion(o) \/ Apply(o) \/ ApplyFails(o) \/ Opened(o)

MigrateNext ==
  \E o \in Openers : Migrating(o) \/ Close(o) \/ OpenAgain(o) \/ Die(o)

(* A process that opens the journal goes on, and one that got an error     *)
(* tries again: the engine retries the handler's attempt.                  *)
MigrateFairness ==
  \A o \in Openers : WF_migrateVars(Migrating(o)) /\ WF_migrateVars(OpenAgain(o))

MigrateSpec == MigrateInit /\ [][MigrateNext]_migrateVars /\ MigrateFairness

-----------------------------------------------------------------------------
(* What must be true of the schema.                                        *)

(* The version table tells exactly which tables exist, and versions are    *)
(* recorded without gaps, whoever migrates or dies.                        *)
VersionsTellTheSchema ==
  /\ tables = versions
  /\ \A v \in versions : 1 .. v \subseteq versions

(* openMigratedJournalDatabase returns a database at JOURNAL_DB_VERSION,   *)
(* although others migrate it at the same time.                            *)
OpenedIsCurrent ==
  \A o \in Openers : conn[o].pc = "open" => tables = 1 .. Latest

(* What o reports as applied (MigrateJournalResult.applied).               *)
Applied(o) == conn[o].from + 1 .. conn[o].from + conn[o].applied

(* No two openers both applied, or report, the same migration.             *)
AppliedByOneOnly ==
  \A o, p \in Openers : o # p => Applied(o) \cap Applied(p) = {}

(* "Idempotent: safe to call on every journal open"                        *)
(* (src/journal-migrate.ts 115): opening does not throw.                   *)
OpeningNeverThrows == \A o \in Openers : conn[o].pc # "failed"

(* An opener that lost the race gets the journal when it tries again.      *)
LosersOpenNextTime ==
  \A o \in Openers : conn[o].pc = "failed" ~> conn[o].pc = "open"

-----------------------------------------------------------------------------
(* Why the above holds.                                                    *)

(* What an opener read, and what it applied since, is in the table.        *)
KnownVersions ==
  \A o \in Openers :
    /\ 1 .. conn[o].from + conn[o].applied \subseteq versions
    /\ conn[o].pc = "open" => conn[o].from + conn[o].applied >= Latest

MigrateIInv ==
  /\ MigrateTypeOK
  /\ VersionsTellTheSchema
  /\ KnownVersions
  /\ AppliedByOneOnly

=============================================================================
