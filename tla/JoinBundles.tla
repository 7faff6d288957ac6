---------------------------- MODULE JoinBundles ----------------------------
(***************************************************************************)
(* `flw site join-bundles`: an operator has tokens minted and written to   *)
(* one file per desk (fallow_cli/site/join_bundles.py, main.py).  Any file operation may fail, and several    *)
(* invocations may run in one directory, each with or without --force.     *)
(* Content r of a file is what invocation r wrote, 0 what was there first. *)
(* A temporary file is private to its invocation: what is written to them  *)
(* all is one step.                                                        *)
(***************************************************************************)
EXTENDS Null, Integers

CONSTANTS
    MaxDesks,       \* bound on --count
    Invocations     \* how many times the operator runs the command

ASSUME JoinAssumption == MaxDesks \in Nat \ {0} /\ Invocations \in Nat \ {0}

Runs == 1..Invocations

Paths == 1..MaxDesks

VARIABLES
    joinfile,   \* the content of every desk's file, or NULL
    flw         \* the invocations

join_vars == <<joinfile, flw>>

(* before and after are the files as the invocation met and left them; stuck *)
(* is the path whose unlink ended its rollback, 0 if none did; mixed says    *)
(* that one with --force overlapped it or came after it.                     *)
NewRun(force, count) ==
    [pc |-> "new", force |-> force, count |-> count, at |-> 1, backup |-> [d \in Paths |-> NULL],
     kept |-> [d \in Paths |-> NULL], before |-> <<>>, after |-> <<>>, minted |-> FALSE,
     stuck |-> 0, mixed |-> FALSE]

JoinInit ==
    /\ joinfile \in [Paths -> {NULL, 0}]
    /\ \E force \in [Runs -> BOOLEAN], count \in [Runs -> Paths] :
          flw = [r \in Runs |-> NewRun(force[r], count[r])]

join_bundle_paths(r) == 1..flw[r].count

Occupied(r) == \E d \in join_bundle_paths(r) : joinfile[d] # NULL

Ended(r) == flw[r].pc \in {"done", "failed", "raised"}

(* Every way to end: success, a CliError, or an OSError from a cleanup.      *)
EndsAs(r, how) == flw' = [flw EXCEPT ![r].pc = how, ![r].after = joinfile]

Moves(r, pc) == flw' = [flw EXCEPT ![r].pc = pc, ![r].at = 1]

(* Which invocations the start of r gets in the way of.                      *)
Mixes(r, q) ==
    /\ flw[q].pc # "new"
    /\ flw[r].force \/ (flw[q].force /\ ~Ended(q))

Started(r, pc) ==
    flw' = [q \in Runs |->
        IF q = r THEN [flw[r] EXCEPT !.pc = pc, !.before = joinfile, !.after = joinfile,
                                     !.mixed = \E b \in Runs \ {r} : ~Ended(b) /\ Mixes(r, b)]
        ELSE [flw[q] EXCEPT !.mixed = @ \/ Mixes(r, q)]]

(* Without --force an occupied destination ends the command here.            *)
preflight_destinations(r) ==
    /\ flw[r].pc = "new"
    /\ Started(r, IF ~flw[r].force /\ Occupied(r) THEN "failed" ELSE "mint")
    /\ UNCHANGED joinfile

(* The coordinator mints; what it answers may be lost, short or malformed.   *)
create_site_join_bundles(r) ==
    /\ flw[r].pc = "mint"
    /\ \/ flw' = [flw EXCEPT ![r].pc = "write", ![r].minted = TRUE]
       \/ \E minted \in BOOLEAN :
             flw' = [flw EXCEPT ![r].pc = "failed", ![r].minted = minted, ![r].after = joinfile]
    /\ UNCHANGED joinfile

(* The directory cannot be made, a destination is occupied by now, or the    *)
(* bundles are installed.                                                    *)
write_join_bundles(r) ==
    /\ flw[r].pc = "write"
    /\ \/ EndsAs(r, "failed")
       \/ (flw[r].force \/ ~Occupied(r)) /\ Moves(r, "temporaries")
    /\ UNCHANGED joinfile

(* A temporary file that cannot be written or restricted ends the command    *)
(* before a destination is touched.                                          *)
_write_temporary(r) ==
    /\ flw[r].pc = "temporaries"
    /\ \/ Moves(r, IF flw[r].force THEN "backups" ELSE "link")
       \/ Moves(r, "finally")
    /\ UNCHANGED joinfile

(* The step at the next path is done: the loop goes on, or to pc.            *)
Advance(r, s, pc) ==
    flw' = [flw EXCEPT ![r] = IF s.at < s.count THEN [s EXCEPT !.at = @ + 1]
                              ELSE [s EXCEPT !.at = 1, !.pc = pc]]

(* What was done at the paths before `at` is undone, the last one first.     *)
Undo(r) == flw' = [flw EXCEPT ![r].pc = IF flw[r].at = 1 THEN "finally" ELSE "rollback",
                              ![r].at = @ - 1]

(* os.link creates or fails; what this invocation created is unlinked.       *)
_install_no_clobber(r) ==
    LET d == flw[r].at
    IN  /\ flw[r].pc = "link"
        /\ \/ /\ joinfile[d] = NULL
              /\ joinfile' = [joinfile EXCEPT ![d] = r]
              /\ Advance(r, flw[r], "finished")
           \/ Undo(r) /\ UNCHANGED joinfile

(* A destination that exists is copied to a backup.                          *)
_copy_temporary(r) ==
    LET d == flw[r].at
    IN  /\ flw[r].pc = "backups"
        /\ \/ Advance(r, [flw[r] EXCEPT !.backup[d] = joinfile[d]], "replace")
           \/ joinfile[d] # NULL /\ Moves(r, "finally")
        /\ UNCHANGED joinfile

_install_overwriting(r) ==
    LET d == flw[r].at
    IN  /\ flw[r].pc = "replace"
        /\ \/ joinfile' = [joinfile EXCEPT ![d] = r] /\ Advance(r, flw[r], "finished")
           \/ Undo(r) /\ UNCHANGED joinfile

(* The error of an unlink in the rollback leaves the command; on the way out *)
(* the backups that were not reached are deleted with the temporary files.   *)
Sticks(r, d) ==
    flw' = [flw EXCEPT ![r].pc = "raised", ![r].after = joinfile, ![r].stuck = d]

(* Mutated: a backup that could not be put back is deleted with the others.  *)
PutBackOrDelete(r, s, d, failing) ==
    /\ joinfile' = IF failing THEN joinfile ELSE [joinfile EXCEPT ![d] = s.backup[d]]
    /\ IF failing /\ s.backup[d] = NULL THEN Sticks(r, d)
       ELSE flw' = [flw EXCEPT ![r] =
                [s EXCEPT !.at = d - 1, !.pc = IF d = 1 THEN "finally" ELSE "rollback",
                          !.backup[d] = NULL]]

(* One path is put back.  Where there is no backup the file is unlinked, and *)
(* an error of that leaves the command at once.  A backup that cannot be put *)
(* back leaves the dictionary of those to be deleted.                        *)
PutBack(r, s, d, failing) ==
    /\ joinfile' = IF failing THEN joinfile ELSE [joinfile EXCEPT ![d] = s.backup[d]]
    /\ IF failing /\ s.backup[d] = NULL THEN Sticks(r, d)
       ELSE flw' = [flw EXCEPT ![r] =
                [s EXCEPT !.at = d - 1, !.pc = IF d = 1 THEN "finally" ELSE "rollback",
                          !.backup[d] = NULL, !.kept[d] = IF failing THEN s.backup[d] ELSE NULL]]

_rollback(r) ==
    /\ flw[r].pc = "rollback"
    /\ \E failing \in BOOLEAN : PutBack(r, flw[r], flw[r].at, failing)

(* The temporary files and the backups that are left are deleted.            *)
Finally(r) ==
    /\ flw[r].pc \in {"finished", "finally"}
    /\ \/ EndsAs(r, IF flw[r].pc = "finished" THEN "done" ELSE "failed")
       \/ EndsAs(r, "raised")
    /\ UNCHANGED joinfile

site_join_bundles(r) ==
    \/ preflight_destinations(r) \/ create_site_join_bundles(r) \/ write_join_bundles(r)
    \/ _write_temporary(r) \/ _install_no_clobber(r) \/ _copy_temporary(r)
    \/ _install_overwriting(r) \/ _rollback(r) \/ Finally(r)

JoinNext == \E r \in Runs : site_join_bundles(r)

JoinSpec == JoinInit /\ [][JoinNext]_join_vars

----------------------------------------------------------------------------

(* A batch that was reported as written stands as a whole, whatever other    *)
(* invocations without --force do at the same time and roll back.            *)
WrittenStands(r) == flw[r].pc = "done" => \A d \in join_bundle_paths(r) : joinfile[d] = r

(* A path at which nothing of the batch is left, and under --force the file  *)
(* that was there is there again or in a backup that was kept.               *)
Undone(r, d) ==
    IF flw[r].force /\ flw[r].kept[d] # NULL THEN flw[r].kept[d] = flw[r].before[d]
    ELSE /\ flw[r].after[d] # r
         /\ flw[r].force => flw[r].after[d] = flw[r].before[d]

(* A batch that was reported as failed is undone at every path.  One whose   *)
(* command raised is undone or, if the error came from the cleanup after the *)
(* last file, whole; only an unlink that fails in the rollback leaves a part *)
(* of it: the paths up to that one, which had no original itself.  The       *)
(* originals at the paths before it are those that may be lost.              *)
EndsUndone(r) ==
    LET s == flw[r]
    IN  s.pc \in {"failed", "raised"} =>
            \/ s.pc = "raised" /\ \A d \in join_bundle_paths(r) : s.after[d] = r
            \/ /\ \A d \in Paths : d > s.stuck => Undone(r, d)
               /\ \A d \in 1..s.stuck : s.after[d] = r
               /\ s.stuck # 0 => s.pc = "raised" /\ s.before[s.stuck] = NULL

(* No token is minted for a destination that was occupied to begin with.     *)
NoTokenWasted(r) ==
    flw[r].minted /\ ~flw[r].force =>
        \A d \in join_bundle_paths(r) : flw[r].before[d] = NULL

(* A batch of join files is written as a whole or not at all, and the        *)
(* original of a file it replaced is put back or kept, for every invocation  *)
(* that no other one with --force overlapped, but for a rollback that is     *)
(* stopped by an unlink: then the batch is cut off at that path and nothing  *)
(* is undone before it (join_bundles.py _install_no_clobber,                 *)
(* _install_overwriting, _rollback).                                         *)
BatchIsWhole ==
    \A r \in Runs :
        NoTokenWasted(r) /\ (~flw[r].mixed => WrittenStands(r) /\ EndsUndone(r))
============================================================================
