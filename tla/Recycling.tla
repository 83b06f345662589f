----------------------------- MODULE Recycling -----------------------------
(***************************************************************************)
(* How fast a supervisor goes from role to role, and how much it says.     *)
(* Supervision has the roles; here a role is entered, lasts, dies and is   *)
(* torn down, each for a while, and what matters is the time between two   *)
(* entries, the counters it is computed from, and whether somebody who     *)
(* reads the log learns of a process that gets nowhere.                    *)
(***************************************************************************)
EXTENDS Naturals, FiniteSetsExt

CONSTANTS
    RETRY_DELAY_BASE, RETRY_DELAY_CAP,
    MIN_RETRY_DELAY_MS, MAX_RETRY_DELAY_MS,
    FULL_LOG_ATTEMPTS, QUIET_HEARTBEAT_ATTEMPTS,
    FULL_LOG_RECYCLES, QUIET_HEARTBEAT_RECYCLES,
    Spans,      \* how long a role or its teardown may last
    MaxCount    \* bound: attempts of an election, and deaths in a row

MIN_ELECTION_INTERVAL == RETRY_DELAY_BASE
HEALTHY_ROLE_LIFETIME == RETRY_DELAY_CAP

\* `1 << n'
PowerOfTwo[n \in Nat] == IF n = 0 THEN 1 ELSE 2 * PowerOfTwo[n - 1]

\* The clamp of a shift comes after the cap, and an election speaks up only after
\* it has gone quiet: 100 ms to 5 s, 5 to 100 ms, 8 of 60 attempts, 12 deaths.
ASSUME PaceAssumption ==
    /\ {RETRY_DELAY_BASE, RETRY_DELAY_CAP, MIN_RETRY_DELAY_MS, MAX_RETRY_DELAY_MS,
        FULL_LOG_ATTEMPTS, QUIET_HEARTBEAT_ATTEMPTS, FULL_LOG_RECYCLES,
        QUIET_HEARTBEAT_RECYCLES} \subseteq Nat
    /\ Spans \subseteq Nat
    /\ RETRY_DELAY_BASE <= RETRY_DELAY_CAP
    /\ RETRY_DELAY_CAP <= RETRY_DELAY_BASE * PowerOfTwo[16]
    /\ MIN_RETRY_DELAY_MS <= MAX_RETRY_DELAY_MS
    /\ FULL_LOG_ATTEMPTS < QUIET_HEARTBEAT_ATTEMPTS
    /\ 0 < QUIET_HEARTBEAT_RECYCLES

VARIABLES
    stage,        \* "electing", "serving", "ending" or "dead"
    since,        \* time since the role was entered (elected_at)
    lifetime,     \* last_role_lifetime
    consecutive,  \* consecutive_immediate_deaths
    attempt,      \* of the election
    delay,        \* before the next attempt
    ceiling,      \* how loud the election may be
    young,        \* history: roles in a row that died young
    silence       \* history: attempts and deaths since the log said anything

recycleVars == <<stage, since, lifetime, consecutive, attempt, delay, ceiling, young, silence>>

Lesser(a, b) == Min({a, b})

-----------------------------------------------------------------------------

\* Between two attempts within `elect', while ports are taken and given back.
retry_delay(n, pid) ==
    LET base == Lesser(MIN_RETRY_DELAY_MS * PowerOfTwo[Lesser(n, 4)], MAX_RETRY_DELAY_MS)
        jitter == (pid + n) % (base \div 2 + 1)
    IN Lesser(base + jitter, MAX_RETRY_DELAY_MS)

\* After so many immediate deaths.
recycle_delay(n) ==
    IF n = 0 THEN 0
    ELSE Lesser(MIN_ELECTION_INTERVAL * PowerOfTwo[Lesser(n - 1, 16)], RETRY_DELAY_CAP)

Level(n, full, heartbeat) ==
    IF n <= full THEN "full" ELSE IF n % heartbeat = 0 THEN "heartbeat" ELSE "quiet"

election_log(n) == Level(n, FULL_LOG_ATTEMPTS, QUIET_HEARTBEAT_ATTEMPTS)

recycle_log(n) == Level(n, FULL_LOG_RECYCLES, QUIET_HEARTBEAT_RECYCLES)

death_log(l) ==
    IF l >= HEALTHY_ROLE_LIFETIME THEN "full" ELSE recycle_log(consecutive)

verbosityUnderCeiling ==   \* mutant: the heartbeat does not survive the ceiling
    IF ceiling = "full" THEN election_log(attempt) ELSE "quiet"

\* How loud an attempt is.
verbosity ==
    IF ceiling = "full" \/ election_log(attempt) = "heartbeat"
    THEN election_log(attempt) ELSE "quiet"

Says(levels) == silence' = IF levels \subseteq {"quiet"} THEN silence + 1 ELSE 0

-----------------------------------------------------------------------------

\* Before the first role there is nothing to keep a distance from.
RecycleInit ==
    /\ stage = "electing" /\ since = RETRY_DELAY_CAP /\ lifetime = 0
    /\ consecutive = 0
    /\ attempt = 1 /\ delay = RETRY_DELAY_BASE /\ ceiling = recycle_log(0)
    /\ young = 0 /\ silence = 0

\* Nobody leads, or the role cannot be entered: the election waits and retries.
AttemptFails ==
    /\ stage = "electing" /\ attempt < MaxCount
    /\ Says({verbosity})
    /\ delay' = Lesser(delay * 2, RETRY_DELAY_CAP)
    /\ attempt' = attempt + 1
    /\ UNCHANGED <<stage, since, lifetime, consecutive, ceiling, young>>

\* `install_role'
EnterRole ==
    /\ stage = "electing"
    /\ stage' = "serving" /\ since' = 0
    /\ silence' = IF {verbosity, recycle_log(consecutive)} = {"quiet"} THEN silence ELSE 0
    /\ UNCHANGED <<lifetime, consecutive, attempt, delay, ceiling, young>>

\* The role has lasted for l.  Its life is measured now, and `clear_role' detaches
\* the client.
RoleDies(l) ==
    /\ stage = "serving" /\ young < MaxCount
    /\ stage' = "ending"
    /\ since' = l
    /\ lifetime' = l
    /\ Says({death_log(l)})
    /\ young' = IF l >= HEALTHY_ROLE_LIFETIME THEN 0 ELSE young + 1
    /\ UNCHANGED <<consecutive, attempt, delay, ceiling>>

TearDownMeasured(d) ==   \* mutant: the winding down counts as life
    /\ stage = "ending"
    /\ stage' = "dead" /\ since' = since + d
    /\ lifetime' = since + d
    /\ UNCHANGED <<consecutive, attempt, delay, ceiling, young, silence>>

\* The broker and its listeners wind down, for d.
TearDown(d) ==
    /\ stage = "ending"
    /\ stage' = "dead" /\ since' = since + d
    /\ UNCHANGED <<lifetime, consecutive, attempt, delay, ceiling, young, silence>>

\* `elect_next': count the death, wait for what is left of the delay, elect.
ElectNext ==
    LET n == IF lifetime >= HEALTHY_ROLE_LIFETIME THEN 0 ELSE consecutive + 1
        waits == recycle_delay(n) > since
    IN /\ stage = "dead"
       /\ consecutive' = n
       /\ since' = IF waits THEN recycle_delay(n) ELSE since
       /\ silence' = IF waits /\ recycle_log(n) # "quiet" THEN 0 ELSE silence
       /\ stage' = "electing"
       /\ attempt' = 1 /\ delay' = RETRY_DELAY_BASE /\ ceiling' = recycle_log(n)
       /\ UNCHANGED <<lifetime, young>>

RecycleNext ==
    \/ AttemptFails
    \/ EnterRole
    \/ \E l \in Spans : RoleDies(l)
    \/ \E d \in Spans : TearDown(d)
    \/ ElectNext

RecycleSpec == RecycleInit /\ [][RecycleNext]_recycleVars

-----------------------------------------------------------------------------

\* The curve both loops back off on: nothing, then the base, doubling to the cap.
Curve(n) == IF n = 0 THEN 0 ELSE Lesser(RETRY_DELAY_BASE * PowerOfTwo[n - 1], RETRY_DELAY_CAP)

\* A supervisor waits as its roles have earned it.  However long a dead role took
\* to wind down, it counts by how long it lived; the next election starts no sooner
\* after the entry than the curve says for the young deaths in a row, and the
\* election's own attempts are as far apart as the same curve says.
WaitsAreEarned ==
    /\ stage = "electing" => since >= Curve(young)
    /\ stage \in {"electing", "serving"} => consecutive = young
    /\ stage = "electing" => delay = Curve(attempt)
    /\ \A pid \in 0 .. MAX_RETRY_DELAY_MS :
          retry_delay(attempt, pid) \in MIN_RETRY_DELAY_MS .. MAX_RETRY_DELAY_MS

\* A process that gets nowhere says so: whether it spins through roles, is stuck
\* in one election, or is stuck in some election of a spin, the log has a line in
\* so many rounds.  The death of a role that had lasted is always told.
NeverSilent ==
    /\ silence <= QUIET_HEARTBEAT_RECYCLES * QUIET_HEARTBEAT_ATTEMPTS
    /\ stage = "ending" /\ lifetime >= HEALTHY_ROLE_LIFETIME => silence = 0
=============================================================================
