------------------------------ MODULE Standby ------------------------------
(***************************************************************************)
(* The warm standby (coordinator app/standby.py) and its promotion         *)
(* (app/promote.py).  The state DB is in WAL mode: a commit is in the      *)
(* -wal sidecar until a checkpoint moves it to the main file.  The content *)
(* of a database is the number of its commits.  The operator promotes when *)
(* the primary is lost, and is not interrupted.                            *)
(***************************************************************************)
EXTENDS Null, Integers, TLAPS

CONSTANTS
    MaxCommits,     \* bound on the commits
    MaxPromotions   \* bound on the runs of promote

ASSUME StandbyAssumption == MaxCommits \in Nat /\ MaxPromotions \in Nat /\ NULL \notin Int

VARIABLES
    main,           \* db_path: its content and which database it is of
    newer,          \* db_path was written after standby_path
    wal,            \* the sidecar: the content it leads to and the database it is of; NULL where there is none
    primary,        \* the coordinator on db_path: "up" or "down"
    standby,        \* standby_path: its content; NULL before the first export
    partial,        \* the export's temporary file
    exporter,       \* the export: "idle", "backup", "replace"
    operator,       \* promote: where it is
    promotions

database == <<main, newer, wal, primary>>

(* No database, and no state that one was in.                                *)
Partial == -1

Corrupt == -2

standby_vars == <<database, standby, partial, exporter, operator, promotions>>

(* What a process that opens db_path reads: a sidecar is replayed, whatever  *)
(* main file it belongs to.                                                  *)
content == IF wal = NULL THEN main.is ELSE IF wal.of = main.of THEN wal.is ELSE Corrupt

StandbyInit ==
    /\ main = [is |-> 0, of |-> 0] /\ newer = TRUE /\ wal = NULL
    /\ primary = "up"
    /\ standby = NULL /\ partial = NULL
    /\ exporter = "idle" /\ operator = [pc |-> "idle"] /\ promotions = 0

----------------------------------------------------------------------------
(* The primary and SQLite.                                                   *)

Commit ==
    /\ primary = "up" /\ content # Corrupt /\ content < MaxCommits
    /\ wal' = [is |-> content + 1, of |-> main.of]
    /\ UNCHANGED <<main, newer, primary, standby, partial, exporter, operator, promotions>>

Checkpoint ==
    /\ primary = "up" /\ wal # NULL /\ content # Corrupt
    /\ main' = [is |-> content, of |-> main.of] /\ newer' = TRUE /\ wal' = NULL
    /\ UNCHANGED <<primary, standby, partial, exporter, operator, promotions>>

(* The primary is killed, and the export with it.                            *)
PrimaryDies ==
    /\ primary = "up"
    /\ primary' = "down" /\ exporter' = "idle"
    /\ UNCHANGED <<main, newer, wal, standby, partial, operator, promotions>>

Start ==
    /\ primary = "down" /\ operator.pc = "idle"
    /\ primary' = "up"
    /\ UNCHANGED <<main, newer, wal, standby, partial, exporter, operator, promotions>>

----------------------------------------------------------------------------
(* standby.py                                                                *)

(* run_export_loop: the interval is over; a partial file left by an earlier  *)
(* export is removed.                                                        *)
export_snapshot ==
    /\ primary = "up" /\ exporter = "idle"
    /\ exporter' = "backup" /\ partial' = NULL
    /\ UNCHANGED <<database, standby, operator, promotions>>

(* Mutated: the backup goes to its destination.                              *)
BackupInPlace ==
    /\ exporter = "backup"
    /\ \/ partial = NULL /\ partial' = Partial /\ standby' = Partial /\ UNCHANGED exporter
       \/ partial' = content /\ standby' = content /\ exporter' = "replace"
    /\ UNCHANGED <<database, operator, promotions>>

(* source.backup: pages are copied to the temporary file, until it holds a   *)
(* consistent view of the database; an error leaves what was copied.         *)
_backup_and_replace ==
    /\ exporter = "backup"
    /\ \/ partial = NULL /\ partial' = Partial /\ UNCHANGED exporter
       \/ partial' = content /\ exporter' = "replace"
       \/ partial' = partial /\ exporter' = "idle"
    /\ UNCHANGED <<database, standby, operator, promotions>>

ReplaceStandby ==
    /\ exporter = "replace"
    /\ standby' = partial /\ newer' = FALSE /\ partial' = NULL /\ exporter' = "idle"
    /\ UNCHANGED <<main, wal, primary, operator, promotions>>

----------------------------------------------------------------------------
(* promote.py                                                                *)

validate_snapshot(s) == s # NULL /\ s # Partial /\ s # Corrupt

_would_clobber_newer == newer

(* promote, up to the copy beside db_path.                                   *)
promote ==
    /\ operator.pc = "idle" /\ primary = "down" /\ promotions < MaxPromotions
    /\ validate_snapshot(standby)
    /\ \E force \in BOOLEAN :
          /\ force \/ ~_would_clobber_newer
          /\ operator' = [pc |-> "copied", copy |-> standby, force |-> force]
    /\ promotions' = promotions + 1
    /\ UNCHANGED <<database, standby, partial, exporter>>

Install ==
    /\ operator.pc = "copied"
    /\ main' = [is |-> operator.copy, of |-> promotions] /\ newer' = TRUE
    /\ operator' = [operator EXCEPT !.pc = "installed"]
    /\ UNCHANGED <<wal, primary, standby, partial, exporter, promotions>>

ClearSidecars ==
    /\ operator.pc = "installed"
    /\ wal' = NULL
    /\ operator' = [pc |-> "idle"]
    /\ UNCHANGED <<main, newer, primary, standby, partial, exporter, promotions>>

StandbyNext ==
    \/ Commit \/ Checkpoint \/ PrimaryDies \/ Start
    \/ export_snapshot \/ _backup_and_replace \/ ReplaceStandby
    \/ promote \/ Install \/ ClearSidecars

StandbySpec == StandbyInit /\ [][StandbyNext]_standby_vars

----------------------------------------------------------------------------

(* The standby is whole: at every time, and so after a crash of the primary  *)
(* at any point of an export, standby_path holds a state that the database   *)
(* was in.                                                                   *)
StandbyIsWhole == standby # NULL => validate_snapshot(standby)

(* A coordinator that starts after a promotion resumes from a database and   *)
(* not from a mixture of two.                                                *)
PromotedIsWhole == operator.pc = "idle" => content # Corrupt

(* Both: the snapshot on the standby's disk, and the database a promotion    *)
(* installs (standby.py _backup_and_replace, promote.py promote).            *)
SnapshotsAreWhole == StandbyIsWhole /\ PromotedIsWhole

-----------------------------------------------------------------------------
(* The snapshots are whole for any number of commits, exports, crashes and  *)
(* promotions.                                                              *)

Databases == [is : Nat, of : Nat]

OperatorType ==
    \/ operator = [pc |-> "idle"]
    \/ operator \in [pc : {"copied", "installed"}, copy : Nat, force : BOOLEAN]

(* The sidecar is the main file's own unless the operator is between the    *)
(* two renames, and then no coordinator is up.  The export runs in the      *)
(* coordinator, so it never reads the mixture.                              *)
StandbyInv ==
    /\ main \in Databases
    /\ wal = NULL \/ wal \in Databases
    /\ standby = NULL \/ standby \in Nat
    /\ exporter \in {"idle", "backup", "replace"}
    /\ exporter = "replace" => partial \in Nat
    /\ exporter # "idle" => primary = "up"
    /\ OperatorType
    /\ operator.pc # "idle" => primary = "down"
    /\ primary \in {"up", "down"}
    /\ promotions \in Nat
    /\ operator.pc # "installed" /\ wal # NULL => wal.of = main.of

(* What a coordinator that is up reads is a state of one database.          *)
LEMMA ReadsOne ==
    ASSUME StandbyInv, operator.pc # "installed"
    PROVE  content \in Nat
BY DEF StandbyInv, content, Databases

(* No export, crash or promotion mixes the files of two databases while a   *)
(* coordinator is up.                                                       *)
LEMMA StandbyKeeps == StandbyInv /\ [StandbyNext]_standby_vars => StandbyInv'
<1> SUFFICES ASSUME StandbyInv, [StandbyNext]_standby_vars PROVE StandbyInv'
  OBVIOUS
<1> USE DEF StandbyInv, OperatorType
<1>1. primary = "up" => operator.pc = "idle" /\ content \in Nat
  BY ReadsOne
<1>2. CASE Commit
  <2>1. [is |-> content + 1, of |-> main.of] \in Databases
    BY <1>1, <1>2 DEF Commit, Databases
  <2> QED BY <1>2, <2>1 DEF Commit
<1>3. CASE Checkpoint
  <2>1. [is |-> content, of |-> main.of] \in Databases
    BY <1>1, <1>3 DEF Checkpoint, Databases
  <2> QED BY <1>3, <2>1 DEF Checkpoint
<1>4. CASE PrimaryDies
  BY <1>4 DEF PrimaryDies
<1>5. CASE Start
  BY <1>5 DEF Start
<1>6. CASE export_snapshot
  BY <1>6 DEF export_snapshot, database
<1>7. CASE _backup_and_replace
  BY <1>1, <1>7 DEF _backup_and_replace, database
<1>8. CASE ReplaceStandby
  BY <1>8 DEF ReplaceStandby
<1>9. CASE promote
  <2>1. standby \in Nat
    BY <1>9 DEF promote, validate_snapshot
  <2>2. PICK force \in BOOLEAN : operator' = [pc |-> "copied", copy |-> standby, force |-> force]
    BY <1>9 DEF promote
  <2>3. operator' \in [pc : {"copied", "installed"}, copy : Nat, force : BOOLEAN] /\ operator'.pc = "copied"
    BY <2>1, <2>2
  <2>4. operator.pc = "idle" /\ primary = "down" /\ exporter = "idle"
    BY <1>9 DEF promote
  <2> QED BY <1>9, <2>3, <2>4 DEF promote, database
<1>10. CASE Install
  <2>1. operator \in [pc : {"copied", "installed"}, copy : Nat, force : BOOLEAN]
    BY <1>10 DEF Install
  <2>2. [is |-> operator.copy, of |-> promotions] \in Databases
    BY <2>1 DEF Databases
  <2>3. operator' \in [pc : {"copied", "installed"}, copy : Nat, force : BOOLEAN] /\ operator'.pc = "installed"
    BY <1>10, <2>1 DEF Install
  <2>4. primary = "down" /\ exporter = "idle"
    BY <1>10 DEF Install
  <2> QED BY <1>10, <2>2, <2>3, <2>4 DEF Install
<1>11. CASE ClearSidecars
  BY <1>11 DEF ClearSidecars
<1>12. CASE UNCHANGED standby_vars
  BY <1>12 DEF standby_vars, database
<1> QED BY <1>2, <1>3, <1>4, <1>5, <1>6, <1>7, <1>8, <1>9, <1>10, <1>11, <1>12 DEF StandbyNext

(* Whenever the primary is lost, at any point of an export, the standby's   *)
(* file is a state the database was in; and a coordinator that starts after *)
(* a promotion reads one database and no mixture (standby.py, promote.py).  *)
THEOREM WholeSnapshots == StandbySpec => []SnapshotsAreWhole
<1>1. StandbyInit => StandbyInv
  BY DEF StandbyInit, StandbyInv, OperatorType, Databases
<1>2. StandbyInv => SnapshotsAreWhole
  <2> SUFFICES ASSUME StandbyInv PROVE SnapshotsAreWhole
    OBVIOUS
  <2>1. StandbyIsWhole
    BY DEF StandbyInv, StandbyIsWhole, validate_snapshot, Partial, Corrupt
  <2>2. PromotedIsWhole
    BY ReadsOne DEF PromotedIsWhole, Corrupt
  <2> QED BY <2>1, <2>2 DEF SnapshotsAreWhole
<1> QED BY <1>1, <1>2, StandbyKeeps, PTL DEF StandbySpec
=============================================================================
