---------------------------- MODULE MigrateProofs ----------------------------
(***************************************************************************)
(* The schema stays what its version table says, for any number of         *)
(* openers and migrations.                                                 *)
(***************************************************************************)
EXTENDS Migrate, TLAPS

LEMMA MigrateInitIInv == MigrateInit => MigrateIInv
  BY MigrateAssumption, SMT
  DEF MigrateInit, MigrateIInv, MigrateTypeOK, Conn, Closed,
      VersionsTellTheSchema, KnownVersions, AppliedByOneOnly, Applied

(* An opener that starts over, or fails, or is done, has nothing more      *)
(* applied than before.                                                    *)
LEMMA ConnStep ==
  ASSUME MigrateIInv, UNCHANGED <<tables, versions>>, NEW o \in Openers,
         NEW c \in Conn, conn' = [conn EXCEPT ![o] = c],
         \/ c.from = conn[o].from /\ c.applied = conn[o].applied
         \/ c.applied = 0 /\ 1 .. c.from \subseteq versions,
         c.pc = "open" => c.from + c.applied >= Latest,
         deaths' \in 0 .. MaxDeaths
  PROVE  MigrateIInv'
<1>1. MigrateTypeOK'
  BY DEF MigrateIInv, MigrateTypeOK
<1>2. VersionsTellTheSchema'
  BY DEF MigrateIInv, VersionsTellTheSchema
<1>3. conn[o] \in Conn /\ \A p \in Openers : conn'[p] = IF p = o THEN c ELSE conn[p]
  BY DEF MigrateIInv, MigrateTypeOK
<1>4. KnownVersions'
  BY <1>3 DEF MigrateIInv, KnownVersions, Conn
<1>5. ASSUME NEW p \in Openers PROVE Applied(p)' \subseteq Applied(p)
  BY <1>3, SMT DEF Applied, Conn
<1>6. AppliedByOneOnly'
  BY <1>5 DEF MigrateIInv, AppliedByOneOnly
<1> QED BY <1>1, <1>2, <1>4, <1>6 DEF MigrateIInv

(* A migration is applied by an opener that no other opener and no row of  *)
(* the version table is ahead of.                                          *)
LEMMA ApplyStep ==
  ASSUME MigrateIInv, NEW o \in Openers, Apply(o)
  PROVE  MigrateIInv'
<1> DEFINE n == NextVersion(o)
<1>1. /\ conn[o] \in Conn
      /\ n \in 1 .. Latest
      /\ n = conn[o].from + conn[o].applied + 1
      /\ n \notin versions
      /\ tables' = tables \cup {n} /\ versions' = versions \cup {n}
      /\ conn' = [conn EXCEPT ![o].applied = @ + 1]
      /\ conn[o].pc = "loop" /\ deaths' = deaths
  BY MigrateAssumption, SMT
  DEF MigrateIInv, MigrateTypeOK, Apply, NextVersion, Conn
<1> HIDE DEF n
<1>2. 1 .. n - 1 \subseteq versions
  BY <1>1, SMT DEF MigrateIInv, KnownVersions, Conn
<1>3. /\ conn'[o] = [conn[o] EXCEPT !.applied = @ + 1]
      /\ conn'[o].pc = "loop" /\ conn'[o].from = conn[o].from
      /\ conn'[o].applied = conn[o].applied + 1
      /\ \A p \in Openers : p # o => conn'[p] = conn[p]
  BY <1>1 DEF MigrateIInv, MigrateTypeOK, Conn
<1>4. MigrateTypeOK'
  <2>1. conn[o].applied + 1 \in 0 .. Latest
    BY <1>1, MigrateAssumption, SMT DEF Conn
  <2>2. conn'[o] \in Conn
    BY <1>1, <1>3, <2>1 DEF Conn
  <2>3. conn' \in [Openers -> Conn]
    BY <1>1, <1>3, <2>2 DEF MigrateIInv, MigrateTypeOK
  <2> QED BY <1>1, <2>3 DEF MigrateIInv, MigrateTypeOK
<1>5. VersionsTellTheSchema'
  <2>1. 1 .. n \subseteq versions'
    BY <1>1, <1>2, SMT
  <2>2. ASSUME NEW v \in versions' PROVE 1 .. v \subseteq versions'
    BY <1>1, <2>1 DEF MigrateIInv, VersionsTellTheSchema
  <2> QED BY <1>1, <2>2 DEF MigrateIInv, VersionsTellTheSchema
<1>6. KnownVersions'
  <2>1. ASSUME NEW p \in Openers
        PROVE  /\ 1 .. conn'[p].from + conn'[p].applied \subseteq versions'
               /\ conn'[p].pc = "open" => conn'[p].from + conn'[p].applied >= Latest
    <3>1. CASE p = o
      <4>1. conn'[p].from + conn'[p].applied = n
        BY <1>1, <1>3, <3>1, SMT DEF Conn
      <4> QED BY <1>1, <1>2, <1>3, <3>1, <4>1, SMT
    <3>2. CASE p # o
      BY <1>1, <1>3, <3>2 DEF MigrateIInv, KnownVersions
    <3> QED BY <3>1, <3>2
  <2> QED BY <2>1 DEF KnownVersions
<1>7. AppliedByOneOnly'
  <2>1. Applied(o)' \subseteq Applied(o) \cup {n}
    BY <1>1, <1>3, SMT DEF Applied, Conn
  <2>2. ASSUME NEW p \in Openers, p # o PROVE Applied(p)' = Applied(p)
    BY <1>3, <2>2 DEF Applied
  <2>3. ASSUME NEW p \in Openers PROVE n \notin Applied(p)
    <3>1. conn[p] \in Conn /\ 1 .. conn[p].from + conn[p].applied \subseteq versions
      BY DEF MigrateIInv, MigrateTypeOK, KnownVersions
    <3>2. Applied(p) \subseteq 1 .. conn[p].from + conn[p].applied
      BY <3>1, SMT DEF Applied, Conn
    <3> QED BY <1>1, <3>1, <3>2
  <2> QED BY <2>1, <2>2, <2>3 DEF MigrateIInv, AppliedByOneOnly
<1> QED BY <1>4, <1>5, <1>6, <1>7 DEF MigrateIInv

LEMMA MigrateStepIInv == MigrateIInv /\ [MigrateNext]_migrateVars => MigrateIInv'
<1> SUFFICES ASSUME MigrateIInv, [MigrateNext]_migrateVars PROVE MigrateIInv'
  OBVIOUS
<1>1. CASE UNCHANGED migrateVars
  BY <1>1
  DEF migrateVars, MigrateIInv, MigrateTypeOK, VersionsTellTheSchema,
      KnownVersions, AppliedByOneOnly, Applied
<1>2. CASE MigrateNext
  <2> PICK o \in Openers : Migrating(o) \/ Close(o) \/ OpenAgain(o) \/ Die(o)
    BY <1>2 DEF MigrateNext
  <2>t. conn[o] \in Conn /\ deaths \in 0 .. MaxDeaths
    BY DEF MigrateIInv, MigrateTypeOK
  <2>c. Closed \in Conn
    BY MigrateAssumption, SMT DEF Closed, Conn
  <2>1. CASE ReadVersion(o)
    <3> PICK n \in 0 .. Latest :
          /\ IsCurrentVersion(n)
          /\ conn' = [conn EXCEPT ![o] = [pc |-> "loop", from |-> n, applied |-> 0]]
      BY <2>1 DEF ReadVersion
    <3>1. 1 .. n \subseteq versions
      BY SMT DEF IsCurrentVersion, MigrateIInv, VersionsTellTheSchema
    <3>2. [pc |-> "loop", from |-> n, applied |-> 0] \in Conn
      BY MigrateAssumption, SMT DEF Conn
    <3> QED BY <2>1, <2>t, <3>1, <3>2, ConnStep DEF ReadVersion
  <2>2. CASE Apply(o)
    BY <2>2, ApplyStep
  <2>3. CASE ApplyFails(o)
    <3>1. [conn[o] EXCEPT !.pc = "failed"] \in Conn
      BY <2>t DEF Conn
    <3>2. conn' = [conn EXCEPT ![o] = [conn[o] EXCEPT !.pc = "failed"]]
      BY <2>3 DEF ApplyFails
    <3> QED BY <2>3, <2>t, <3>1, <3>2, ConnStep DEF ApplyFails, Conn
  <2>4. CASE Opened(o)
    <3>1. [conn[o] EXCEPT !.pc = "open"] \in Conn
      BY <2>t DEF Conn
    <3>2. conn' = [conn EXCEPT ![o] = [conn[o] EXCEPT !.pc = "open"]]
      BY <2>4 DEF Opened
    <3>3. conn[o].from + conn[o].applied >= Latest
      BY <2>4, <2>t, MigrateAssumption, SMT DEF Opened, NextVersion, Conn
    <3> QED BY <2>4, <2>t, <3>1, <3>2, <3>3, ConnStep DEF Opened, Conn
  <2>5. CASE Close(o) \/ OpenAgain(o) \/ Die(o)
    <3>1. 1 .. 0 \subseteq versions
      BY SMT
    <3>2. deaths' \in 0 .. MaxDeaths
      BY <2>5, <2>t, MigrateAssumption, SMT DEF Close, OpenAgain, Die
    <3> QED BY <2>5, <2>c, <3>1, <3>2, ConnStep
            DEF Close, OpenAgain, Die, Closed
  <2> QED BY <2>1, <2>2, <2>3, <2>4, <2>5 DEF Migrating
<1> QED BY <1>1, <1>2

(* The inductive invariant of journal-migrate.ts: what openers believe is  *)
(* in the version table, and the version table is true.                    *)
THEOREM MigrateInvariant == MigrateSpec => []MigrateIInv
<1> QED BY MigrateInitIInv, MigrateStepIInv, PTL DEF MigrateSpec

(* However many processes migrate at once or die, journal_schema_version   *)
(* tells exactly which tables exist.                                       *)
THEOREM SchemaIsTold == MigrateSpec => []VersionsTellTheSchema
<1>1. MigrateIInv => VersionsTellTheSchema
  BY DEF MigrateIInv
<1> QED BY <1>1, MigrateInvariant, PTL

(* No migration is applied, or reported, twice.                            *)
THEOREM EachMigrationOnce == MigrateSpec => []AppliedByOneOnly
<1>1. MigrateIInv => AppliedByOneOnly
  BY DEF MigrateIInv
<1> QED BY <1>1, MigrateInvariant, PTL

(* An open that returns returns a database at JOURNAL_DB_VERSION.          *)
THEOREM OpensAreCurrent == MigrateSpec => []OpenedIsCurrent
<1>1. MigrateIInv => OpenedIsCurrent
  <2> SUFFICES ASSUME MigrateIInv, NEW o \in Openers, conn[o].pc = "open"
               PROVE  tables = 1 .. Latest
    BY DEF OpenedIsCurrent
  <2>1. conn[o] \in Conn /\ 1 .. conn[o].from + conn[o].applied \subseteq versions
        /\ conn[o].from + conn[o].applied >= Latest
    BY DEF MigrateIInv, MigrateTypeOK, KnownVersions
  <2>2. 1 .. Latest \subseteq versions
    BY <2>1, MigrateAssumption, SMT DEF Conn
  <2> QED BY <2>2 DEF MigrateIInv, MigrateTypeOK, VersionsTellTheSchema
<1> QED BY <1>1, MigrateInvariant, PTL

=============================================================================
