----------------------------- MODULE JobOutcomes -----------------------------
(***************************************************************************)
(* What the queue promises about the jobs it holds.  A job consists of     *)
(* units, each of which comes to one outcome and keeps it; a job that      *)
(* reports DONE waits for none of its units.  A later job that submits a   *)
(* unit again takes it over if the unit is still open: the earlier job     *)
(* never hears of it again.                                                *)
(*                                                                         *)
(* Queue implements this specification; Ingestion relies on it.            *)
(***************************************************************************)
EXTENDS Null

CONSTANTS Jobs, Units, Refs

VARIABLES
    outcome,        \* for each job and unit: NULL, or what has become of the unit in the job
    finished        \* the jobs that report DONE

outcome_vars == <<outcome, finished>>

Open == [is |-> "open", ref |-> NULL]

Taken == [is |-> "taken", ref |-> NULL]

Succeeded == [is : {"succeeded"}, ref : Refs]

Ends == Succeeded \cup [is : {"failed", "dead"}, ref : {NULL}]

Waits(o, j) == \E u \in Units : o[j][u] = Open

OutcomesInit ==
    /\ outcome = [j \in Jobs |-> [u \in Units |-> NULL]]
    /\ finished = {}

(* The units of job j, each open or, when its result is already known, done. *)
Submitted(o, j, members) ==
    [i \in Jobs |-> [u \in Units |->
        IF i = j THEN members[u]
        ELSE IF o[i][u] = Open /\ members[u] = Open THEN Taken ELSE o[i][u]]]

Submit(j, members) ==
    /\ j \notin finished /\ \A u \in Units : outcome[j][u] = NULL
    /\ outcome' = Submitted(outcome, j, members)
    /\ finished' = IF Waits(outcome', j) THEN finished ELSE finished \cup {j}

(* The open units in the domain of result come to their ends.                *)
Settled(o, result) ==
    [j \in Jobs |-> [u \in Units |->
        IF u \in DOMAIN result /\ o[j][u] = Open THEN result[u] ELSE o[j][u]]]

Holders(o, us) == {j \in Jobs : \E u \in us : o[j][u] = Open}

Finished(o, result) ==
    finished \cup {j \in Holders(o, DOMAIN result) : ~Waits(Settled(o, result), j)}

Settle(result) ==
    /\ \A u \in DOMAIN result : Holders(outcome, {u}) # {}
    /\ outcome' = Settled(outcome, result)
    /\ finished' = Finished(outcome, result)

Members == [Units -> {NULL, Open} \cup Succeeded]

SettledUnits == UNION {[us -> Ends] : us \in SUBSET Units}

OutcomesNext ==
    \/ \E j \in Jobs, members \in Members : Submit(j, members)
    \/ \E result \in SettledUnits : Settle(result)

OutcomesSpec == OutcomesInit /\ [][OutcomesNext]_outcome_vars

=============================================================================
