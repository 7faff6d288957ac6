------------------------------- MODULE Quota -------------------------------
(***************************************************************************)
(* Request quotas (coordinator gateway/quota.py), their snapshots in the   *)
(* registry, and the coordinator's life around them (app/factory.py,       *)
(* app/background.py): restore at the start, a snapshot now and then, one  *)
(* at an orderly end.  One key with both limits.                           *)
(*                                                                         *)
(* A minute has Minute seconds and a token Minute parts, so that a bucket  *)
(* gains RpmLimit parts a second and the arithmetic is exact; the code     *)
(* counts in floating point.                                               *)
(***************************************************************************)
EXTENDS Null, Integers

CONSTANTS
    RpmLimit, DailyLimit,
    Minute,         \* seconds of a minute
    Day,            \* seconds of a day
    MaxSeconds,     \* bound on the clock
    MaxCrashes      \* bound on the crashes

ASSUME QuotaAssumption ==
    /\ {RpmLimit, DailyLimit, Minute, Day} \subseteq Nat \ {0}
    /\ MaxSeconds \in Nat /\ MaxCrashes \in Nat

VARIABLES
    clock,          \* the time
    stepped,        \* the clock was set back
    key,            \* _states[key_id]: tokens, updated, day, count; NULL where there is none
    saved,          \* the row of the registry
    copied,         \* snapshot() between its copy and its commit; NULL where none is on its way
    life,           \* the coordinator: "down", "up"
    crashes,
    admitted,       \* for each day: the requests that were admitted
    forgotten,      \* for each day: the admissions that a crash made the coordinator forget
    promise         \* the time that the last rejection named, while nothing has interfered; or NULL

quota_vars == <<clock, stepped, key, saved, copied, life, crashes, admitted, forgotten, promise>>

Days == 0..(MaxSeconds \div Day)

date(t) == t \div Day

lesser(a, b) == IF a < b THEN a ELSE b

greater(a, b) == IF a > b THEN a ELSE b

QuotaInit ==
    /\ clock = 0 /\ stepped = FALSE
    /\ key = NULL /\ saved = NULL /\ copied = NULL
    /\ life = "down" /\ crashes = 0
    /\ admitted = [d \in Days |-> 0] /\ forgotten = [d \in Days |-> 0]
    /\ promise = NULL

Tick ==
    /\ clock < MaxSeconds
    /\ clock' = clock + 1
    /\ UNCHANGED <<stepped, key, saved, copied, life, crashes, admitted, forgotten, promise>>

(* The wall clock is set back by a second.                                   *)
SetBack ==
    /\ ~stepped /\ clock > 0
    /\ clock' = clock - 1 /\ stepped' = TRUE
    /\ promise' = NULL
    /\ UNCHANGED <<key, saved, copied, life, crashes, admitted, forgotten>>

----------------------------------------------------------------------------

Fresh == [tokens |-> RpmLimit * Minute, updated |-> clock, day |-> date(clock), count |-> 0]

(* _refresh: time that runs backwards earns nothing and starts no day.       *)
_refresh(s) ==
    [tokens  |-> lesser(RpmLimit * Minute, s.tokens + greater(0, clock - s.updated) * RpmLimit),
     updated |-> greater(s.updated, clock),
     day     |-> greater(s.day, date(clock)),
     count   |-> IF date(clock) > s.day THEN 0 ELSE s.count]

current == _refresh(IF key = NULL THEN Fresh ELSE key)

ceiling(a, b) == (a + b - 1) \div b

rpm_delay(s) == IF s.tokens < Minute THEN greater(1, ceiling(Minute - s.tokens, RpmLimit)) ELSE 0

(* Until midnight, by the clock.                                             *)
daily_delay(s) == IF s.count >= DailyLimit THEN greater(1, (date(clock) + 1) * Day - clock) ELSE 0

retry_after(s) == greater(rpm_delay(s), daily_delay(s))

(* consume: both limits are looked at before either is charged.              *)
consume ==
    /\ life = "up"
    /\ LET s == current
       IN  IF retry_after(s) > 0
           THEN /\ key' = s
                /\ promise' = IF s.updated > clock \/ s.day > date(clock) THEN NULL ELSE clock + retry_after(s)
                /\ UNCHANGED admitted
           ELSE /\ key' = [s EXCEPT !.tokens = @ - Minute, !.count = @ + 1]
                /\ promise' = NULL
                /\ admitted' = [admitted EXCEPT ![s.day] = @ + 1]
    /\ UNCHANGED <<clock, stepped, saved, copied, life, crashes, forgotten>>

----------------------------------------------------------------------------
(* Snapshots and the coordinator's life.                                     *)

(* snapshot, up to the first await.                                          *)
snapshot ==
    /\ life = "up" /\ copied = NULL /\ key # NULL
    /\ copied' = key
    /\ UNCHANGED <<clock, stepped, key, saved, life, crashes, admitted, forgotten, promise>>

(* The commit; a failure is suppressed and costs this snapshot only.         *)
save_quota_snapshots ==
    /\ copied # NULL
    /\ saved' \in {saved, copied}
    /\ copied' = NULL
    /\ UNCHANGED <<clock, stepped, key, life, crashes, admitted, forgotten, promise>>

restore ==
    /\ life = "down"
    /\ life' = "up" /\ key' = saved /\ promise' = NULL
    /\ UNCHANGED <<clock, stepped, saved, copied, crashes, admitted, forgotten>>

(* Mutated: the tasks are cancelled and nothing is written.                  *)
ShutdownAtOnce ==
    /\ life = "up"
    /\ life' = "down" /\ copied' = NULL /\ promise' = NULL
    /\ UNCHANGED <<clock, stepped, key, saved, crashes, admitted, forgotten>>

(* _shutdown: the loops are cancelled, a statement that was handed to the    *)
(* database's thread may still be carried out, and a last snapshot follows.  *)
(* (Where that fails, the error is suppressed: a crash, for the counters.)   *)
_shutdown ==
    /\ life = "up"
    /\ life' = "down" /\ copied' = NULL /\ promise' = NULL
    /\ saved' = (IF key = NULL THEN saved ELSE key)
    /\ UNCHANGED <<clock, stepped, key, crashes, admitted, forgotten>>

Crash ==
    /\ life = "up" /\ crashes < MaxCrashes
    /\ life' = "down" /\ copied' = NULL /\ promise' = NULL /\ crashes' = crashes + 1
    /\ forgotten' = [d \in Days |-> admitted[d] - (IF saved # NULL /\ saved.day = d THEN saved.count ELSE 0)]
    /\ UNCHANGED <<clock, stepped, key, saved, admitted>>

QuotaNext ==
    \/ Tick \/ SetBack \/ consume \/ snapshot \/ save_quota_snapshots \/ restore \/ _shutdown \/ Crash

----------------------------------------------------------------------------

(* A day admits its limit and what crashes made the coordinator forget, not  *)
(* more: no snapshot that is late, lost or committed across a change of the  *)
(* day brings spent requests back, and an orderly restart forgets none.      *)
DailyLimitHolds == \A d \in Days : admitted[d] <= DailyLimit + forgotten[d]

(* The delay of a rejection is the earliest useful one: while nothing else   *)
(* is charged to the key, a request is refused before that time and admitted *)
(* from it on.                                                               *)
RetryAfterExact == promise # NULL => (retry_after(current) = 0 <=> clock >= promise)

(* Both: what a key may use in a day and when a refused one may come back    *)
(* (quota.py consume).                                                       *)
QuotaExact == DailyLimitHolds /\ RetryAfterExact

=============================================================================
