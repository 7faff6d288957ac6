-------------------------------- MODULE Churn --------------------------------
(***************************************************************************)
(* The scheduler's estimates.  At startup the coordinator reads the event  *)
(* log and the unit log of an earlier run once and builds two frozen       *)
(* models: how long the user of a machine stays away, per hour of the day, *)
(* and how many of its units a machine finishes.  Placement ranks agents   *)
(* with both, and the first decides whether a unit of the tail of a job    *)
(* gets a backup copy.                                                     *)
(***************************************************************************)
EXTENDS FiniteSets, Integers, Null, SequencesExt

CONSTANTS Desks,         \* the agents the logs speak of
          Times,         \* the instants of the log, and the lengths asked for
          HourOf,        \* instant -> the hour it falls into
          MinBucket,     \* MIN_BUCKET_SAMPLES
          Prior,         \* the optimistic prior, a fraction <<n, d>>
          Weight,        \* the weight of reliability, a fraction <<1, d>>
          EstDuration,   \* the duration assumed for a unit that declares none
          Threshold,     \* speculative_survival_threshold, a fraction
          MaxLines       \* bound: lines of the two logs together

VARIABLES event_log,     \* the lines of events.jsonl
          unit_log,      \* the lines of units.jsonl
          models         \* the models of the running coordinator, or NULL

churn_vars == <<event_log, unit_log, models>>

Hours == {HourOf[t] : t \in Times}

(* A line that is torn, is no object, or has no usable agent, kind or time *)
(* is skipped by _load_events or by the builders.                          *)
Malformed == [agent_id |-> NULL, kind |-> NULL, at |-> 0]

EventLines == [agent_id : Desks, kind : {"user_idle", "user_returned"}, at : Times] \cup {Malformed}
UnitLines == [agent_id : Desks, state : {"done", "pending", "dead", "leased"}]

(***************************************************************************)
(* Idle survival.                                                          *)
(***************************************************************************)
(* One line of the loop: a session opens, opens anew, closes or is dropped *)
(* because it would end before it began.                                   *)
Pair(acc, e) ==
    IF e.kind = "user_idle" THEN [acc EXCEPT !.open_since[e.agent_id] = e.at]
    ELSE IF e.kind = "user_returned"
    THEN LET start == acc.open_since[e.agent_id]
         IN  [open_since |-> [acc.open_since EXCEPT ![e.agent_id] = -1],
              sessions |-> IF start >= 0 /\ e.at >= start
                           THEN Append(acc.sessions, [agent_id |-> e.agent_id, start |-> start,
                                                      end |-> e.at])
                           ELSE acc.sessions]
    ELSE acc

iter_churn_sessions(lines) ==
    FoldLeft(Pair, [open_since |-> [d \in Desks |-> -1], sessions |-> <<>>], lines).sessions

Lengths(sessions) ==
    SortSeq([i \in DOMAIN sessions |-> sessions[i].end - sessions[i].start], <)

build_churn_model(lines) ==
    LET sessions == iter_churn_sessions(lines)
        of(d, hours) == Lengths(SelectSeq(sessions, LAMBDA s :
                                    s.agent_id = d /\ HourOf[s.start] \in hours))
    IN  [by_bucket |-> [d \in Desks |-> [h \in Hours |-> of(d, {h})]],
         by_agent |-> [d \in Desks |-> of(d, Hours)]]

_count_ge(samples, threshold) == Cardinality({i \in DOMAIN samples : samples[i] >= threshold})

(* A thin bucket gives way to all the hours of the agent.                  *)
_samples_for(model, d, hour) ==
    LET bucket == model.by_bucket[d][hour]
    IN  IF Len(bucket) >= MinBucket THEN bucket ELSE model.by_agent[d]

survival(model, d, hour, age, horizon) ==
    LET samples == _samples_for(model, d, hour)
        reached == _count_ge(samples, age)
    IN  IF horizon <= 0 THEN <<1, 1>>
        ELSE IF reached = 0 THEN Prior
        ELSE <<_count_ge(samples, age + horizon), reached>>

(***************************************************************************)
(* Reliability.                                                            *)
(***************************************************************************)
build_reliability_model(lines) ==
    LET count(d, states) == Cardinality({i \in DOMAIN lines : lines[i].agent_id = d
                                                           /\ lines[i].state \in states})
    IN  [d \in Desks |-> [completed |-> count(d, {"done"}), dropped |-> count(d, {"pending", "dead"})]]

success_rate(tally, d) ==
    LET total == tally[d].completed + tally[d].dropped
    IN  IF total = 0 THEN Prior ELSE <<tally[d].completed, total>>

(***************************************************************************)
(* Ranking.  Fractions are compared exactly.                               *)
(***************************************************************************)
Less(p, q) == p[1] * q[2] < q[1] * p[2]
Plus(p, q) == <<p[1] * q[2] + q[1] * p[2], p[2] * q[2]>>
Times2(p, q) == <<p[1] * q[1], p[2] * q[2]>>

agent_is_fit(s) == s.state = "idle" /\ ~s.suspect /\ ~s.serving_paused
is_eligible(s, needs_gpu) == agent_is_fit(s) /\ (needs_gpu => s.gpu)

(* CapabilityScheduler._rank: s before z.                                  *)
CapabilityBefore(s, z) ==
    \/ s.warm /\ ~z.warm
    \/ /\ s.warm = z.warm
       /\ \/ s.gpu /\ ~z.gpu
          \/ s.gpu = z.gpu /\ s.mem > z.mem
          \/ s.gpu = z.gpu /\ s.mem = z.mem /\ s.agent_id < z.agent_id

Stays(s, hour, horizon) == survival(models.churn, s.agent_id, hour, s.user_idle_s, horizon)

Score(s, hour, horizon) ==
    Plus(Stays(s, hour, horizon), Times2(Weight, success_rate(models.tally, s.agent_id)))

(* ChurnAwareScheduler._rank: s before z.                                  *)
_rank(s, z, hour, horizon) ==
    LET mine == Score(s, hour, horizon)
        its  == Score(z, hour, horizon)
    IN  Less(its, mine) \/ (~Less(mine, its) /\ CapabilityBefore(s, z))

select_agent(needs_gpu, agents, hour, horizon) ==
    LET eligible == {s \in agents : is_eligible(s, needs_gpu)}
    IN  IF eligible = {} THEN NULL
        ELSE CHOOSE s \in eligible : \A z \in eligible \ {s} : _rank(s, z, hour, horizon)

(***************************************************************************)
(* The backup decision: the loop over the units of the tail.               *)
(***************************************************************************)
(* Mutant: a holder exactly at the threshold is at risk too.               *)
AtMostThreshold(s) == ~Less(Threshold, s)

BelowThreshold(s) == Less(s, Threshold)

choose_backup_unit(tail, holders, hour) ==
    LET better(best, u) ==
            IF holders[u.holder] = NULL THEN best
            ELSE LET s == survival(models.churn, u.holder, hour, holders[u.holder],
                                   IF u.est_duration_s = NULL THEN EstDuration
                                   ELSE u.est_duration_s)
                 IN  IF ~BelowThreshold(s) THEN best
                     ELSE IF best = <<>> \/ Less(s, best[1].survival)
                             \/ (~Less(best[1].survival, s) /\ u.id < best[1].id)
                     THEN <<[survival |-> s, id |-> u.id]>>
                     ELSE best
    IN  FoldLeft(better, <<>>, tail)

(***************************************************************************)
(* The earlier run writes the logs; the coordinator reads them at startup. *)
(***************************************************************************)
Room == models = NULL /\ Len(event_log) + Len(unit_log) < MaxLines

LogEvent(e) ==
    /\ Room
    /\ event_log' = Append(event_log, e)
    /\ UNCHANGED <<unit_log, models>>

LogUnit(t) ==
    /\ Room
    /\ unit_log' = Append(unit_log, t)
    /\ UNCHANGED <<event_log, models>>

(* The files are not read again.                                           *)
_build_policy ==
    /\ models = NULL
    /\ models' = [churn |-> build_churn_model(event_log), tally |-> build_reliability_model(unit_log)]
    /\ event_log' = <<>>
    /\ unit_log' = <<>>

ChurnInit == event_log = <<>> /\ unit_log = <<>> /\ models = NULL

ChurnNext ==
    \/ \E e \in EventLines : LogEvent(e)
    \/ \E t \in UnitLines : LogUnit(t)
    \/ _build_policy

(***************************************************************************)
(* Properties.                                                             *)
(***************************************************************************)
(* The pairing loop yields exactly the completed sessions, in the order    *)
(* they ended: a return is paired with the last line of its agent before   *)
(* it when that line says the user went away, and not later; lines of      *)
(* other agents and malformed lines in between make no difference.         *)
SessionsArePaired ==
    LET latest(j) == {i \in 1..(j - 1) : /\ event_log[i].agent_id = event_log[j].agent_id
                                         /\ \A k \in (i + 1)..(j - 1) :
                                                event_log[k].agent_id # event_log[j].agent_id}
        ended == {j \in DOMAIN event_log :
                    /\ event_log[j].kind = "user_returned"
                    /\ \E i \in latest(j) : event_log[i].kind = "user_idle" /\ event_log[i].at <= event_log[j].at}
        session(j) == [agent_id |-> event_log[j].agent_id, end |-> event_log[j].at,
                       start |-> event_log[CHOOSE i \in latest(j) : TRUE].at]
    IN  iter_churn_sessions(event_log) =
            LET order == SetToSortSeq(ended, <) IN [n \in DOMAIN order |-> session(order[n])]

Snapshots(d) ==
    [agent_id : {d}, state : {"idle"}, suspect : {FALSE}, serving_paused : {FALSE},
     gpu : {FALSE}, warm : BOOLEAN, mem : {1}, user_idle_s : Times]

(* Survival stays the primary signal of a placement: whatever the machines *)
(* finished, and whatever they can do, an agent whose survival trails that *)
(* of an eligible one by more than the weight is not selected.             *)
SurvivalIsPrimary ==
    models # NULL =>
        \A d \in Desks : \A e \in Desks \ {d} : \A s \in Snapshots(d), z \in Snapshots(e) :
            \A hour \in Hours, horizon \in Times :
                Less(Plus(Stays(s, hour, horizon), Weight), Stays(z, hour, horizon))
                    => select_agent(FALSE, {s, z}, hour, horizon) = z

(* A backup goes to the unit most at risk: among the units of the tail     *)
(* whose holder is in the fleet view and is less likely than the threshold *)
(* to stay away long enough, the least likely, then the smallest id, and   *)
(* to none when there is no such unit.                                     *)
BackupIsMostAtRisk ==
    models # NULL =>
        \A hour \in Hours, ages \in [Desks -> Times \cup {NULL}],
           durations \in [1..2 -> (Times \ {0}) \cup {NULL}], who \in [1..2 -> Desks] :
            LET tail == [i \in 1..2 |-> [id |-> 3 - i, holder |-> who[i], est_duration_s |-> durations[i]]]
                runtime(u) == IF u.est_duration_s = NULL THEN EstDuration ELSE u.est_duration_s
                stays(u) == survival(models.churn, u.holder, hour, ages[u.holder], runtime(u))
                atRisk == {u \in Range(tail) : ages[u.holder] # NULL /\ Less(stays(u), Threshold)}
                chosen == choose_backup_unit(tail, ages, hour)
            IN  IF atRisk = {} THEN chosen = <<>>
                ELSE \E u \in atRisk :
                        /\ chosen[1].id = u.id
                        /\ \A v \in atRisk \ {u} :
                            \/ Less(stays(u), stays(v))
                            \/ ~Less(stays(v), stays(u)) /\ u.id < v.id

(* All three, of one pass from the logs to the choice of a machine           *)
(* (churn_events.py, churn_model.py, v2.py, speculative.py).                 *)
EstimatesSound == SessionsArePaired /\ SurvivalIsPrimary /\ BackupIsMostAtRisk

=============================================================================
