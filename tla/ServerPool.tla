----------------------------- MODULE ServerPool -----------------------------
(***************************************************************************)
(* The load balancer's view of its backends (load_balancer/main.go:        *)
(* Backend, ServerPool, healthCheck).                                      *)
(*                                                                         *)
(* Every tick sends a probe to each backend and adapts the overload        *)
(* threshold.  Probes take up to two ticks, so those of one backend        *)
(* overlap and their results may be applied out of order.  A result is     *)
(* applied in two critical sections, liveness first, score afterwards.     *)
(* SelectBest looks at one backend after the other, at each of them twice, *)
(* while results keep coming.                                              *)
(***************************************************************************)
EXTENDS Naturals, Sequences

CONSTANTS
    Order,             \* the backends, in the order of the command line
    Scores,            \* load scores a backend may report
    MaxScore,          \* math.MaxFloat64
    Down, Hung,        \* conditions of a backend that is not "up with a score"
    Sent, NoProbe,     \* states of a probe
    Window,            \* ticks a probe of each backend may take: at most the timeout
                       \* over the interval, 2 in the code
    InitialThreshold,  \* the flag -threshold
    Selecting,         \* whether the run looks at SelectBest
    MaxChanges         \* bound: changes of condition; 0 is no bound

Backends == {Order[i] : i \in DOMAIN Order}
Conditions == Scores \union {Down, Hung}

ASSUME PoolConstants ==
    /\ Order \in Seq(Backends)
    /\ \A i, j \in DOMAIN Order : Order[i] = Order[j] => i = j
    /\ Scores \subseteq 0 .. 100 /\ MaxScore \in Nat /\ MaxScore > 100
    /\ Window \in [Backends -> Nat \ {0}] /\ InitialThreshold \in Nat /\ MaxChanges \in Nat
    /\ Selecting \in BOOLEAN

VARIABLES
    condition,     \* what a backend answers to a probe; environment
    changes,
    probe,         \* the probes in flight of each backend, by age in ticks
    alive, fails,  \* Alive, and ConsecutiveFail up to the limit that is tested
    cooldown,      \* CooldownUntil: not set, ahead, or passed
    score,         \* Health.LoadScore
    threshold,
    adapt,         \* healthCheck's control point; it holds pool.mu in "check", "read"
    adaptAt, sum, len,   \* the scores it has collected: their sum and number
    select,        \* control point of a SelectBest; it holds pool.mu unless "idle"
    selectAt,
    best, overloaded,
    \* history of that SelectBest, read by properties only
    everAlive,     \* alive at some moment of it
    steady         \* alive with one and the same score all along

environment == <<condition, changes>>
backend == <<alive, fails, cooldown, score>>
adapting == <<threshold, adapt, adaptAt, sum, len>>
selection == <<select, selectAt, best, overloaded>>
history == <<everAlive, steady>>
vars == <<environment, probe, backend, adapting, selection, history>>

Limit == 3
Nobody == [backend |-> Down, score |-> MaxScore]
Alive == {b \in Backends : alive[b]}

\* A score that has arrived, and one whose liveness half has been applied.
Answer(v) == <<"answer", v>>
Pending(v) == <<"pending", v>>
Probes == {NoProbe, Sent, Down, Hung} \union {Answer(v) : v \in Scores} \union {Pending(v) : v \in Scores}

Init ==
    /\ condition \in [Backends -> Conditions] /\ changes = 0
    /\ probe = [b \in Backends |-> [a \in 1 .. Window[b] |-> NoProbe]]
    /\ alive = [b \in Backends |-> TRUE]
    /\ fails = [b \in Backends |-> 0]
    /\ cooldown = [b \in Backends |-> "unset"]
    /\ score = [b \in Backends |-> 0]
    /\ threshold = InitialThreshold
    /\ adapt = "idle" /\ adaptAt = 1 /\ sum = 0 /\ len = 0
    /\ select = "idle" /\ selectAt = 1 /\ best = Nobody /\ overloaded = Nobody
    /\ everAlive = {} /\ steady = {}

Change(b) ==
    /\ MaxChanges > 0 => changes < MaxChanges
    /\ changes' = IF MaxChanges > 0 THEN changes + 1 ELSE changes
    /\ \E c \in Conditions \ {condition[b]} : condition' = [condition EXCEPT ![b] = c]
    /\ UNCHANGED <<probe, backend, adapting, selection, history>>

-----------------------------------------------------------------------------
(***************************************************************************)
(* healthCheck: one goroutine per probe.                                   *)
(***************************************************************************)
\* The client's timeout has ended every probe before it is Window ticks old.
Tick ==
    /\ adapt = "idle"
    /\ \A b \in Backends : probe[b][Window[b]] = NoProbe
    /\ probe' = [b \in Backends |-> [a \in 1 .. Window[b] |-> IF a = 1 THEN Sent ELSE probe[b][a - 1]]]
    /\ adapt' = "lock"
    /\ UNCHANGED <<environment, backend, threshold, adaptAt, sum, len, selection, history>>

SetProbe(b, a, p) == probe' = [probe EXCEPT ![b][a] = p]

\* The backend's answer, or its absence.
ProbeServed(b, a) ==
    /\ probe[b][a] = Sent
    /\ SetProbe(b, a, IF condition[b] \in Scores THEN Answer(condition[b]) ELSE condition[b])
    /\ UNCHANGED <<environment, backend, adapting, selection, history>>

\* Fault: failures are not counted.
ProbeFailedUncounted(b, a) ==
    /\ probe[b][a] = Down
    /\ SetProbe(b, a, NoProbe)
    /\ UNCHANGED <<environment, backend, adapting, selection, history>>

\* Fault: the count starts over when the limit was reached.
ProbeFailedOnce(b, a) ==
    /\ probe[b][a] = Down
    /\ SetProbe(b, a, NoProbe)
    /\ fails' = [fails EXCEPT ![b] = IF @ < Limit THEN @ + 1 ELSE 0]
    /\ alive' = [alive EXCEPT ![b] = @ /\ fails'[b] < Limit]
    /\ cooldown' = [cooldown EXCEPT ![b] = IF fails'[b] < Limit THEN @ ELSE "ahead"]
    /\ steady' = IF alive'[b] THEN steady ELSE steady \ {b}
    /\ UNCHANGED <<environment, score, adapting, selection, everAlive>>

\* SetAlive(false)
ProbeFailed(b, a) ==
    /\ probe[b][a] = Down
    /\ SetProbe(b, a, NoProbe)
    /\ fails' = [fails EXCEPT ![b] = IF @ < Limit THEN @ + 1 ELSE @]
    /\ alive' = [alive EXCEPT ![b] = @ /\ fails'[b] < Limit]
    /\ cooldown' = [cooldown EXCEPT ![b] = IF fails'[b] < Limit THEN @ ELSE "ahead"]
    /\ steady' = IF alive'[b] THEN steady ELSE steady \ {b}
    /\ UNCHANGED <<environment, score, adapting, selection, everAlive>>

\* 200, but no JSON until the timeout: neither alive nor dead.
ProbeUndecodable(b, a) ==
    /\ probe[b][a] = Hung
    /\ SetProbe(b, a, NoProbe)
    /\ UNCHANGED <<environment, backend, adapting, selection, history>>

\* SetAlive(true)
ProbeAlive(b, a) ==
    \E v \in Scores :
        /\ probe[b][a] = Answer(v)
        /\ SetProbe(b, a, Pending(v))
        /\ fails' = [fails EXCEPT ![b] = 0]
        /\ alive' = [alive EXCEPT ![b] = TRUE]
        /\ cooldown' = [cooldown EXCEPT ![b] = "unset"]
        /\ everAlive' = IF select = "idle" THEN everAlive ELSE everAlive \union {b}
        /\ UNCHANGED <<environment, score, adapting, selection, steady>>

\* Fault: the health of a probe that has been overtaken is discarded.
ProbeHealthPrompt(b, a) ==
    \E v \in Scores :
        /\ probe[b][a] = Pending(v)
        /\ SetProbe(b, a, NoProbe)
        /\ score' = [score EXCEPT ![b] = IF a = 1 THEN v ELSE @]
        /\ steady' = steady \ {b}
        /\ UNCHANGED <<environment, alive, fails, cooldown, adapting, selection, everAlive>>

\* UpdateHealth
ProbeHealth(b, a) ==
    \E v \in Scores :
        /\ probe[b][a] = Pending(v)
        /\ SetProbe(b, a, NoProbe)
        /\ score' = [score EXCEPT ![b] = v]
        /\ steady' = IF v = score[b] THEN steady ELSE steady \ {b}
        /\ UNCHANGED <<environment, alive, fails, cooldown, adapting, selection, everAlive>>

CooldownPasses(b) ==
    /\ cooldown[b] = "ahead"
    /\ cooldown' = [cooldown EXCEPT ![b] = "passed"]
    /\ UNCHANGED <<environment, probe, alive, fails, score, adapting, selection, history>>

-----------------------------------------------------------------------------
(***************************************************************************)
(* AdaptThreshold, under pool.mu, but without the backends' own locks: the *)
(* score is looked at twice and may have changed.                          *)
(***************************************************************************)
AdaptLock ==
    /\ adapt = "lock"
    /\ select = "idle"
    /\ adapt' = "check" /\ adaptAt' = 1 /\ sum' = 0 /\ len' = 0
    /\ UNCHANGED <<environment, probe, backend, threshold, selection, history>>

AdaptCheck ==
    /\ adapt = "check"
    /\ adaptAt \in DOMAIN Order
    /\ IF alive[Order[adaptAt]] /\ score[Order[adaptAt]] > 0
       THEN adapt' = "read" /\ UNCHANGED adaptAt
       ELSE adaptAt' = adaptAt + 1 /\ UNCHANGED adapt
    /\ UNCHANGED <<environment, probe, backend, threshold, sum, len, selection, history>>

AdaptRead ==
    /\ adapt = "read"
    /\ sum' = sum + score[Order[adaptAt]] /\ len' = len + 1
    /\ adaptAt' = adaptAt + 1
    /\ adapt' = "check"
    /\ UNCHANGED <<environment, probe, backend, threshold, selection, history>>

\* Scores are whole numbers here, so the threshold may be rounded down.
Clamped(t) == IF t < 30 THEN 30 ELSE IF t > 90 THEN 90 ELSE t
OneAndAHalfTimesMean == (3 * sum) \div (2 * len)

AdaptEnd ==
    /\ adapt = "check"
    /\ adaptAt \notin DOMAIN Order
    /\ threshold' = IF len = 0 THEN threshold ELSE Clamped(OneAndAHalfTimesMean)
    /\ adapt' = "idle" /\ adaptAt' = 1 /\ sum' = 0 /\ len' = 0
    /\ UNCHANGED <<environment, probe, backend, selection, history>>

-----------------------------------------------------------------------------
(***************************************************************************)
(* SelectBest, under the read half of pool.mu.                             *)
(***************************************************************************)
SelectStart ==
    /\ Selecting
    /\ select = "idle"
    /\ adapt \notin {"check", "read"}
    /\ select' = "available" /\ selectAt' = 1
    /\ best' = Nobody /\ overloaded' = Nobody
    /\ everAlive' = Alive /\ steady' = Alive
    /\ UNCHANGED <<environment, probe, backend, adapting>>

IsAvailable(b) == alive[b] \/ cooldown[b] = "passed"
GetEffectiveScore(b) == IF alive[b] THEN score[b] ELSE MaxScore

SelectAvailable ==
    /\ select = "available"
    /\ selectAt \in DOMAIN Order
    /\ IF IsAvailable(Order[selectAt])
       THEN select' = "score" /\ UNCHANGED selectAt
       ELSE selectAt' = selectAt + 1 /\ UNCHANGED select
    /\ UNCHANGED <<environment, probe, backend, adapting, best, overloaded, history>>

\* Fault: the last backend under the threshold wins.
BetterAlways(b, than) == [backend |-> b, score |-> GetEffectiveScore(b)]

Better(b, than) ==
    IF GetEffectiveScore(b) < than.score
    THEN [backend |-> b, score |-> GetEffectiveScore(b)] ELSE than

SelectScore ==
    LET b == Order[selectAt] IN
    /\ select = "score"
    /\ IF GetEffectiveScore(b) <= threshold
       THEN best' = Better(b, best) /\ UNCHANGED overloaded
       ELSE overloaded' = Better(b, overloaded) /\ UNCHANGED best
    /\ selectAt' = selectAt + 1
    /\ select' = "available"
    /\ UNCHANGED <<environment, probe, backend, adapting, history>>

\* What SelectBest returns once it has looked at all backends; any of them
\* when it found none.
Outcomes ==
    IF best # Nobody THEN {best}
    ELSE IF overloaded # Nobody THEN {overloaded}
    ELSE {[backend |-> b, score |-> MaxScore] : b \in Backends}

SelectReturn ==
    /\ select = "available"
    /\ selectAt \notin DOMAIN Order
    /\ select' = "idle" /\ selectAt' = 1
    /\ best' = Nobody /\ overloaded' = Nobody
    /\ everAlive' = {} /\ steady' = {}
    /\ UNCHANGED <<environment, probe, backend, adapting>>

-----------------------------------------------------------------------------
ProbeGoesOn(b, a) ==
    \/ ProbeServed(b, a) \/ ProbeFailed(b, a) \/ ProbeUndecodable(b, a)
    \/ ProbeAlive(b, a) \/ ProbeHealth(b, a)
ProbeStep(b) == \E a \in 1 .. Window[b] : ProbeGoesOn(b, a)
AdaptStep == AdaptLock \/ AdaptCheck \/ AdaptRead \/ AdaptEnd
SelectStep == SelectAvailable \/ SelectScore \/ SelectReturn

Next ==
    \/ \E b \in Backends : Change(b) \/ ProbeStep(b) \/ CooldownPasses(b)
    \/ Tick
    \/ AdaptStep
    \/ SelectStart
    \/ SelectStep

Spec == Init /\ [][Next]_vars

\* The ticker ticks, every probe ends within its timeout, nobody keeps pool.mu
\* and who waits for it gets it sooner or later.
Fairness ==
    /\ WF_vars(Tick)
    /\ \A b \in Backends : \A a \in 1 .. Window[b] : WF_vars(ProbeGoesOn(b, a))
    /\ SF_vars(AdaptStep)
    /\ WF_vars(SelectStep)

FairSpec == Spec /\ Fairness

-----------------------------------------------------------------------------
(***************************************************************************)
(* Properties.                                                             *)
(***************************************************************************)
\* Types; pool.mu excludes adapting and selecting; after the first adaptation
\* the threshold stays where SelectBest can use it.
TypeOK ==
    /\ condition \in [Backends -> Conditions] /\ changes \in 0 .. MaxChanges
    /\ \A b \in Backends : probe[b] \in [1 .. Window[b] -> Probes]
    /\ alive \in [Backends -> BOOLEAN] /\ fails \in [Backends -> 0 .. Limit]
    /\ cooldown \in [Backends -> {"unset", "ahead", "passed"}]
    /\ score \in [Backends -> Scores \union {0}]
    /\ threshold = InitialThreshold \/ threshold \in 30 .. 90
    /\ adapt \in {"idle", "lock", "check", "read"} /\ adaptAt \in 1 .. Len(Order) + 1
    /\ sum \in Nat /\ len \in Nat
    /\ select \in {"idle", "available", "score"} /\ selectAt \in 1 .. Len(Order) + 1
    /\ select # "idle" => adapt \notin {"check", "read"}
    /\ select = "score" => selectAt \in DOMAIN Order
    /\ adapt = "read" => adaptAt \in DOMAIN Order
    /\ {best, overloaded} \subseteq [backend : Backends \union {Down}, score : Nat]
    /\ steady \subseteq everAlive /\ everAlive \subseteq Backends

\* However overlapping probes are reordered, a backend is out of service
\* exactly while three failures have not been followed by a success, and only
\* then has a cooldown.
BreakerConsistent ==
    \A b \in Backends : (alive[b] <=> fails[b] < Limit) /\ (alive[b] <=> cooldown[b] = "unset")

\* Whatever probes change under its hands, a finished SelectBest returns a
\* backend that was alive while it ran, if one was so all along, and never one
\* worse than a backend that stayed alive with one score; the cooled-down but
\* dead, who count as available, do not get in the way.
SelectionSound ==
    select = "available" /\ selectAt \notin DOMAIN Order /\ steady # {} =>
        \A c \in Outcomes :
            /\ c.backend \in everAlive
            /\ \A b \in steady : c.score <= score[b]

\* A backend that is down for good is taken out of service for good: late
\* answers of overlapping probes cannot bring it back for ever.
DownNoticed == \A b \in Backends : <>[](condition[b] = Down) => <>[](~alive[b])

\* A backend that is up for good with one score is in service with this score
\* for good, although an older answer may overwrite a newer one.
ScoreConverges ==
    \A b \in Backends, v \in Scores :
        <>[](condition[b] = v) => <>[](alive[b] /\ score[b] = v)
=============================================================================
