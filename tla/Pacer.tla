-------------------------------- MODULE Pacer --------------------------------
(* BandwidthLimiter (fallow_modelmesh/bandwidth.py): a token bucket that     *)
(* paces the transfer of chunks, slowly while the user of the machine is     *)
(* active.  Time is in seconds; a sleep ends at the first second that is not *)
(* before its end.                                                           *)
EXTENDS Integers, FiniteSetsExt

CONSTANTS
    ActiveRate, IdleRate,   \* bytes per second
    Transfers,              \* the sizes of chunks
    MaxClock                \* bound on the clock

VARIABLES
    active,         \* whether the user is active
    clock,
    allowance,      \* _allowance: the bytes that may go at once
    last,           \* _last
    asleep,         \* the throttled transfer: [until, bytes, counts], or bytes = 0
    stretch         \* since the user's state last changed: [from, bytes]

pacer_vars == <<active, clock, allowance, last, asleep, stretch>>

Awake == [until |-> 0, bytes |-> 0, counts |-> FALSE]

_rate_now == IF active THEN ActiveRate ELSE IdleRate

PacerInit ==
    /\ active \in BOOLEAN
    /\ clock = 0 /\ last = 0
    /\ allowance = Max({ActiveRate, IdleRate})
    /\ asleep = Awake
    /\ stretch = [from |-> 0, bytes |-> 0]

(* Mutated: idle time is saved up without bound.                             *)
Banked(rate) == allowance + (clock - last) * rate

(* What has come together since the last call, at most one second of it.     *)
Refilled(rate) == Min({rate, allowance + (clock - last) * rate})

(* Bytes count to the stretch in which they were asked for.                  *)
Sent(bytes, counts) == stretch' = IF counts THEN [stretch EXCEPT !.bytes = @ + bytes] ELSE stretch

throttle(bytes) ==
    LET rate == _rate_now
        now  == Refilled(rate)
        wait == (bytes - now + rate - 1) \div rate
    IN  /\ asleep = Awake
        /\ last' = clock
        /\ IF now >= bytes
             THEN /\ allowance' = now - bytes
                  /\ Sent(bytes, TRUE)
                  /\ UNCHANGED asleep
             ELSE /\ allowance' = now
                  /\ asleep' = [until |-> clock + wait, bytes |-> bytes, counts |-> TRUE]
                  /\ UNCHANGED stretch
        /\ UNCHANGED <<active, clock>>

(* The sleep is over: the transfer goes, and nothing is left.                *)
Wakes ==
    /\ asleep # Awake /\ clock >= asleep.until
    /\ last' = clock /\ allowance' = 0
    /\ Sent(asleep.bytes, asleep.counts)
    /\ asleep' = Awake
    /\ UNCHANGED <<active, clock>>

UserChanges ==
    /\ active' = ~ active
    /\ stretch' = [from |-> clock, bytes |-> 0]
    /\ asleep' = [asleep EXCEPT !.counts = FALSE]
    /\ UNCHANGED <<clock, allowance, last>>

Tick ==
    /\ clock < MaxClock
    /\ clock' = clock + 1
    /\ UNCHANGED <<active, allowance, last, asleep, stretch>>

PacerNext ==
    \/ \E bytes \in Transfers : throttle(bytes)
    \/ Wakes
    \/ UserChanges
    \/ Tick

PacerSpec == PacerInit /\ [][PacerNext]_pacer_vars

(* What is asked for while the user is active, or while they are not, goes   *)
(* at the rate of that stretch from its first second on: no more than one    *)
(* second's worth comes in advance, whatever was saved before.               *)
StretchIsPaced ==
    stretch.bytes <= (clock - stretch.from + 1) * _rate_now

=============================================================================
