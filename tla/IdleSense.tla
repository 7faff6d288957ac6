----------------------------- MODULE IdleSense -----------------------------
(***************************************************************************)
(* What an agent knows about its user: the detector of each platform, the  *)
(* checks on a sample before it is acted on or sent, and the predictor of  *)
(* the time the user will stay away (fallow_agent/idle, go-agent/idle,     *)
(* go-agent/runtime/runtime.go).  A second is one step of `now`; the       *)
(* counters of Windows wrap at Modulus.                                    *)
(***************************************************************************)
EXTENDS Null, Integers

CONSTANTS
    Modulus,        \* DWORD_MODULUS, in seconds
    MaxNow,         \* bound on the time
    Smoothing,      \* smoothing, a fraction <<n, d>>
    HISTORY,        \* the number of windows at which the count stays
    MIN_WINDOWS,    \* the windows before the confidence can be full
    AwayIdle        \* what a machine without a user reports

ASSUME SenseAssumption ==
    /\ Modulus \in Nat \ {0} /\ AwayIdle \in Nat
    /\ Smoothing[1] \in 1..Smoothing[2]

VARIABLES
    machine,    \* the platform, the agent, what there is of X, whether assume_idle is set
    now,        \* the time
    last,       \* the time of the last input
    longest,    \* the longest time between an input and a sample of it
    half,       \* the first half of a reading of Windows: NULL or [tick, at]
    sample,     \* the last sample: NULL or what was read, when, of which input
    predictor   \* IdlePredictor

sense_vars == <<machine, now, last, longest, half, sample, predictor>>

Larger(x, y) == IF x > y THEN x ELSE y

Smaller(x, y) == IF x < y THEN x ELSE y

SenseInit ==
    /\ machine \in [os : {"windows", "darwin", "linux"}, agent : {"go", "python"},
                    display : {"none", "degraded", "x11"}, assume_idle : BOOLEAN]
    /\ machine.display # "none" => machine.os = "linux" /\ machine.agent = "python"
    /\ machine.assume_idle => machine.agent = "go"
    /\ now = 0 /\ last = 0 /\ longest = 0
    /\ half = NULL /\ sample = NULL
    /\ predictor = [count |-> 0, mean |-> NULL, prev |-> NULL, says |-> NULL]

TimePasses ==
    /\ now < MaxNow
    /\ now' = now + 1
    /\ UNCHANGED <<machine, last, longest, half, sample, predictor>>

UserInput ==
    /\ last' = now
    /\ UNCHANGED <<machine, now, longest, half, sample, predictor>>

-----------------------------------------------------------------------------
(* The detectors.  An answer is a number of seconds, or NULL: an error, or   *)
(* something that is no finite number.                                       *)


(* Both counters wrap, and so does their difference.                         *)
_elapsed_ms(nowTick, lastTick) == (nowTick - lastTick) % Modulus

(* macOS answers in seconds; outside a session of a user, with no number.    *)
_read_seconds_since_input == {now - last, NULL}

(* The agent in Python asks the X server.  A machine without a display, and  *)
(* one whose X libraries, display or extension failed it when the agent      *)
(* started, are taken for servers nobody sits at; the agent in Go has no     *)
(* detector for Linux.                                                       *)
_resolve_reader ==
    IF machine.agent = "go" THEN {NULL}
    ELSE IF machine.display = "x11" THEN {now - last, NULL} ELSE {AwayIdle}

-----------------------------------------------------------------------------
(* The predictor, which only the agent in Python has.                        *)

_record_window(p, length) ==
    [p EXCEPT !.count = Smaller(@ + 1, HISTORY),
              !.mean = IF @ = NULL THEN <<length, 1>>
                       ELSE <<Smoothing[1] * length * @[2] + (Smoothing[2] - Smoothing[1]) * @[1],
                              Smoothing[2] * @[2]>>]

(* A reading that is more than a second lower than the one before it ends a  *)
(* window, which was as long as that one said.                               *)
_observe(p, elapsed) ==
    [(IF p.prev # NULL /\ elapsed < p.prev - 1 THEN _record_window(p, p.prev) ELSE p)
        EXCEPT !.prev = elapsed]

(* Confidence: the share of the windows needed, times mean / max(mean, now). *)
_confidence(p, elapsed) ==
    LET seen == Smaller(p.count, MIN_WINDOWS)
        fits == elapsed * p.mean[2] <= p.mean[1]
    IN  IF fits THEN <<seen, MIN_WINDOWS>>
        ELSE <<seen * p.mean[1], MIN_WINDOWS * p.mean[2] * elapsed>>

_predict(p, elapsed) ==
    IF p.mean = NULL THEN [remaining |-> <<0, 1>>, confidence |-> <<0, 1>>]
    ELSE [remaining |-> IF elapsed * p.mean[2] <= p.mean[1] THEN <<elapsed, 1>> ELSE p.mean,
          confidence |-> _confidence(p, elapsed)]

(* A detector that raises leaves the predictor as it is.                     *)
predict(s) ==
    IF machine.agent = "go" \/ s = NULL THEN predictor
    ELSE LET p == _observe(predictor, s) IN [p EXCEPT !.says = _predict(p, s)]

-----------------------------------------------------------------------------
(* Samples.                                                                  *)

Sampled(s, at) ==
    /\ sample' = [seconds |-> s, input |-> at, at |-> now]
    /\ longest' = Larger(longest, now - at)
    /\ predictor' = predict(s)

(* GetLastInputInfo: the first of two calls; it may fail.                    *)
GetLastInputInfo ==
    /\ machine.os = "windows"
    /\ half = NULL
    /\ \/ half' = [tick |-> last % Modulus, at |-> last] /\ UNCHANGED <<longest, sample, predictor>>
       \/ Sampled(NULL, last) /\ UNCHANGED half
    /\ UNCHANGED <<machine, now, last>>

GetTickCount ==
    /\ half # NULL
    /\ Sampled(_elapsed_ms(now % Modulus, half.tick), half.at)
    /\ half' = NULL
    /\ UNCHANGED <<machine, now, last>>

seconds_since_input ==
    /\ machine.os # "windows"
    /\ \E s \in IF machine.os = "darwin" THEN _read_seconds_since_input ELSE _resolve_reader :
          Sampled(s, last)
    /\ UNCHANGED <<machine, now, last, half>>

(* Go: what a heartbeat reports of a sample.  A sample that is none says     *)
(* that the user is there, except on a machine that is declared to have no   *)
(* user.                                                                     *)
idleOrAway ==
    IF sample.seconds # NULL THEN sample.seconds
    ELSE IF machine.assume_idle THEN AwayIdle ELSE 0

(* Go: what the preemption acts on, or NULL when it is to stay as it is.     *)
idleForPreempt ==
    IF sample.seconds # NULL THEN sample.seconds
    ELSE IF machine.assume_idle THEN NULL ELSE 0

SenseNext ==
    \/ TimePasses \/ UserInput
    \/ GetLastInputInfo \/ GetTickCount \/ seconds_since_input

-----------------------------------------------------------------------------
(* Properties.                                                               *)

(* The machines whose detector reads the user.  The agent in Python on Linux *)
(* without a working X reader is always idle, also when a user sits at a     *)
(* display it could not read (linux.py).                                     *)
HasReader == machine.os = "linux" /\ machine.agent = "python" => machine.display = "x11"

(* A present user is not taken for an absent one: what an agent reports and  *)
(* acts on is never more than the time since the input it read, over wrapped *)
(* counters, failing detectors and an input between the two calls, and it is *)
(* that time when the counter can express it; only assume_idle and a Linux   *)
(* machine without a working X reader are exceptions.                        *)
PresenceIsSeen ==
    (/\ sample # NULL
     /\ ~machine.assume_idle /\ HasReader
     /\ sample.seconds = NULL => machine.agent = "go") =>
        LET true == sample.at - sample.input
        IN  /\ idleOrAway \in 0..true
            /\ idleForPreempt = idleOrAway
            /\ (sample.seconds # NULL /\ true < Modulus) => idleOrAway = true

(* The predictor never promises more than it has seen: what it says will     *)
(* remain is at most the time the user has been away, and at most the        *)
(* longest absence it was shown; its trust is a fraction, and zero before an *)
(* absence has ended.  An always idle machine shows it no user.              *)
PredictionIsBounded ==
    (predictor.says # NULL /\ predictor.mean # NULL /\ HasReader) =>
        LET rest == predictor.says.remaining
            trust == predictor.says.confidence
        IN  /\ rest[1] <= predictor.prev * rest[2]
            /\ rest[1] <= longest * rest[2]
            /\ trust[1] \in 1..trust[2]

(* Both, of the readings of one machine (idle/, runtime.go, predictor.py).   *)
SensesSound == PresenceIsSeen /\ PredictionIsBounded
=============================================================================
