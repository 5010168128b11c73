------------------------------- MODULE Timing -------------------------------
(***************************************************************************)
(* The timing packages of the allocator lab: the cycle counter and its     *)
(* compensation for timer ticks (lab06_malloc/clock.c), the K-best scheme  *)
(* (fcyc.c), the averages of ftimer.c, and fsecs.c, which picks one.       *)
(***************************************************************************)
EXTENDS Integers, SequencesExt

CONSTANTS
    W,             \* the counter has two digits of base W (2^32 in the code)
    Durations,     \* cycles that a call of f takes by itself
    TickCosts,     \* cycles a timer interrupt may take on a machine
    Slack,         \* cycles of callibrate's own in a gap it sees
    THRESHOLD, RECORDTHRESH, NEVENT,  \* of callibrate
    MaxTicks,      \* bound: interrupts in one gap
    kbest, maxsamples,
    EpsNum, EpsDen,   \* epsilon = EpsNum / EpsDen
    Runs,          \* n of ftimer_gettod and ftimer_itimer
    Start          \* the cycle counters the measurement may begin with

ASSUME CounterAssumption ==
    /\ W \in Nat \ {0} /\ Durations \subseteq Nat \ {0} /\ TickCosts \subseteq Nat \ {0}
    /\ Start \subseteq Nat
    \* no call lasts as long as the counter counts
    /\ \A d \in Durations, c \in TickCosts : d + c < W * W
ASSUME CallibrateAssumption ==
    /\ Slack \subseteq Nat /\ THRESHOLD \in Nat /\ RECORDTHRESH \in Nat
    /\ NEVENT \in Nat \ {0} /\ MaxTicks \in Nat \ {0}
    \* callibrate's loop alone makes a gap long enough in the end
    /\ \E e \in Slack : e >= THRESHOLD
ASSUME SchemeAssumption ==
    /\ kbest \in Nat \ {0} /\ maxsamples \in Nat \ {0} /\ Runs \in Nat \ {0}
    /\ EpsNum \in Nat /\ EpsDen \in Nat \ {0}

VARIABLES
    method,        \* USE_FCYC, USE_ITIMER or USE_GETTOD, once main has begun
    at,            \* where the package is
    now,           \* cycles since the machine started
    utime,         \* ticks charged to the process
    tick_cost,     \* what an interrupt takes on this machine
    cyc_hi, cyc_lo,
    cyc_per_tick, events,  \* of callibrate
    carried,       \* 1 when an interrupt of the coming gap is counted already, -1
                   \* when one before it is still to be counted
    missed,        \* history: an interrupt fell between two readings of callibrate
    start_tick, time,      \* of the compensated counter
    values, samplecount,   \* of the K-best scheme, values sorted from 1
    taken,         \* history: what each call took by itself, the ticks in it, and
                   \* the price at which they are subtracted
    result         \* what fsecs returns, in cycles

timingVars == <<method, at, now, utime, tick_cost, cyc_hi, cyc_lo, cyc_per_tick, events,
                carried, missed, start_tick, time, values, samplecount, taken, result>>
counterVars == <<cyc_hi, cyc_lo>>
callibrateVars == <<cyc_per_tick, events, carried, missed>>
samplerVars == <<values, samplecount, taken>>

Hi(t) == (t \div W) % W
Lo(t) == t % W

\* Mutated: the borrow is left out.
get_counterNoBorrow(hi0, lo0, t) == ((Hi(t) - hi0) % W) * W + ((Lo(t) - lo0) % W)

\* get_counter subtracts digit by digit; unsigned digits wrap.
get_counter(hi0, lo0, t) ==
    LET lo == (Lo(t) - lo0) % W
        borrow == IF lo > Lo(t) THEN 1 ELSE 0
        hi == (Hi(t) - hi0 - borrow) % W
    IN  hi * W + lo

TimingInit ==
    /\ method = "none" /\ at = "init" /\ now = 0 /\ utime = 0
    /\ tick_cost = 0 /\ cyc_hi = 0 /\ cyc_lo = 0 /\ cyc_per_tick = 0 /\ events = 0
    /\ carried = 0 /\ missed = FALSE /\ start_tick = 0 /\ time = 0
    /\ values = <<>> /\ samplecount = 0 /\ taken = <<>> /\ result = 0

\* init_fsecs, and fsecs with its init_sampler.
fsecs ==
    /\ at = "init" /\ at' = "begin"
    /\ method' \in {"fcyc", "compensated", "itimer", "gettod"}
    /\ now' \in Start /\ tick_cost' \in TickCosts /\ values' = [i \in 1 .. kbest |-> 0]
    /\ UNCHANGED <<utime, counterVars, callibrateVars, start_tick, time, samplecount, taken, result>>

\* start_comp_counter calls callibrate when it has no price, which reads the
\* ticks and then the counter.  The time and the ticks that pass in callibrate are
\* not added to now and utime, of which later readings use differences only.
EnterCallibrate ==
    /\ at = "begin" /\ method = "compensated" /\ cyc_per_tick = 0
    /\ at' = "callibrate" /\ events' = 0
    /\ \E early \in {0, 1} : carried' = -early /\ missed' = (missed \/ early = 1)
    /\ UNCHANGED <<method, now, utime, tick_cost, counterVars, cyc_per_tick, start_tick, time, samplerVars, result>>

\* Mutated: any gap long enough to be looked at may set the price.
RecordedAll(cpt) == IF cyc_per_tick = 0 \/ cyc_per_tick > cpt THEN cpt ELSE cyc_per_tick

Recorded(cpt) ==
    IF (cyc_per_tick = 0 \/ cyc_per_tick > cpt) /\ cpt > RECORDTHRESH THEN cpt ELSE cyc_per_tick

\* callibrate finds a gap of THRESHOLD cycles or more since it last did, with
\* ticks in it; late is one between its reading of the counter and that of the
\* ticks.  A price is the gap divided by the ticks, in whole cycles here.  A gap
\* without a tick to be counted is no event.
callibrate ==
    /\ at = "callibrate" /\ events < NEVENT
    /\ \E e \in Slack, ticks \in 0 .. MaxTicks, late \in {0, 1} :
           LET gap == (ticks + (IF carried = 1 THEN 1 ELSE 0)) * tick_cost + e
               counted == ticks + late + (IF carried = -1 THEN 1 ELSE 0)
           IN  /\ gap >= THRESHOLD /\ (counted > 0 \/ carried = 1)
               /\ carried' = late /\ missed' = (missed \/ late = 1)
               /\ IF counted = 0 THEN UNCHANGED <<cyc_per_tick, events>>
                  ELSE events' = events + 1 /\ cyc_per_tick' = Recorded(gap \div counted)
    /\ UNCHANGED <<method, at, now, utime, tick_cost, counterVars, start_tick, time, samplerVars, result>>

Fresh(price) == [alone |-> 0, tick |-> 0, stray |-> 0, price |-> price]

\* start_comp_counter reads the ticks, whether callibrate found a price or not.
times ==
    /\ \/ at = "begin" /\ method = "compensated" /\ cyc_per_tick # 0
       \/ at = "callibrate" /\ events = NEVENT
    /\ at' = "ticks" /\ start_tick' = utime /\ carried' = 0
    /\ taken' = Append(taken, Fresh(cyc_per_tick))
    /\ UNCHANGED <<method, now, utime, tick_cost, counterVars, cyc_per_tick, events, missed,
                   time, values, samplecount, result>>

\* start_counter, or the first reading of a clock of seconds and the rest.
start_counter ==
    /\ IF method = "compensated" THEN at = "ticks" /\ UNCHANGED taken
       ELSE at = "begin" /\ taken' = Append(taken, Fresh(0))
    /\ at' = "running"
    /\ cyc_hi' = (IF method \in {"itimer", "gettod"} THEN now \div W ELSE Hi(now))
    /\ cyc_lo' = Lo(now)
    /\ UNCHANGED <<method, now, utime, tick_cost, callibrateVars, start_tick, time, values, samplecount, result>>

\* Calls of f, one for fcyc and n for ftimer, with or without an interrupt.
RunF ==
    /\ at = "running" /\ at' = "stop"
    /\ \E d \in Durations, tick \in {0, 1} :
           LET n == IF method \in {"itimer", "gettod"} THEN Runs ELSE 1
           IN  /\ now' = now + n * d + tick * tick_cost /\ utime' = utime + tick
               /\ taken' = [taken EXCEPT ![Len(taken)] =
                                [@ EXCEPT !.alone = n * d, !.tick = tick]]
    /\ UNCHANGED <<method, tick_cost, counterVars, callibrateVars, start_tick, time, values, samplecount, result>>

\* An interrupt between a reading of the ticks and one of the counter.
Interrupt ==
    /\ at \in {"ticks", "read"} /\ taken[Len(taken)].stray = 0
    /\ now' = now + tick_cost /\ utime' = utime + 1
    /\ taken' = [taken EXCEPT ![Len(taken)].stray = 1]
    /\ UNCHANGED <<method, at, tick_cost, counterVars, callibrateVars, start_tick, time, values, samplecount, result>>

\* The get_counter of fcyc or of get_comp_counter.
ReadCounter ==
    /\ at = "stop" /\ method \in {"fcyc", "compensated"} /\ at' = "read"
    /\ time' = get_counter(cyc_hi, cyc_lo, now)
    /\ UNCHANGED <<method, now, utime, tick_cost, counterVars, callibrateVars, start_tick, samplerVars, result>>

\* Mutated: a sample takes the last place and is not moved up.
AddedUnsorted(vals, count, val) ==
    IF count < kbest THEN [vals EXCEPT ![count + 1] = val]
    ELSE IF val < vals[kbest] THEN [vals EXCEPT ![kbest] = val]
    ELSE vals

\* add_sample: a new value replaces the last of the k when it is less, and
\* the insertion sort moves it up.
Added(vals, count, val) ==
    LET pos == IF count < kbest THEN count + 1 ELSE kbest
        up == {i \in 1 .. pos - 1 : vals[i] > val}
        to == pos - Cardinality(up)
    IN  IF count >= kbest /\ val >= vals[kbest] THEN vals
        ELSE [i \in 1 .. kbest |-> IF i = to THEN val
                                   ELSE IF i \in to + 1 .. pos THEN vals[i - 1] ELSE vals[i]]

has_converged(vals, count) ==
    count >= kbest /\ (EpsDen + EpsNum) * vals[1] >= EpsDen * vals[kbest]

\* The rest of get_comp_counter, add_sample, and the end of fcyc's loop.
Sample ==
    LET ticks == IF method = "compensated" THEN utime - start_tick ELSE 0
    IN  /\ at = "read"
        /\ values' = Added(values, samplecount, time - ticks * cyc_per_tick)
        /\ samplecount' = samplecount + 1
        /\ IF has_converged(values', samplecount') \/ samplecount' >= maxsamples
           THEN at' = "done" /\ result' = values'[1]
           ELSE at' = "begin" /\ UNCHANGED result
        /\ UNCHANGED <<method, now, utime, tick_cost, counterVars, callibrateVars, start_tick, time, taken>>

\* ftimer_gettod and ftimer_itimer: the seconds and the rest are subtracted
\* as signed numbers, and the mean is returned.
Average ==
    /\ at = "stop" /\ method \in {"itimer", "gettod"} /\ at' = "done"
    /\ result' = ((now \div W - cyc_hi) * W + (Lo(now) - cyc_lo)) \div Runs
    /\ UNCHANGED <<method, now, utime, tick_cost, counterVars, callibrateVars, start_tick, time, samplerVars>>

TimingNext == \/ fsecs \/ EnterCallibrate \/ callibrate \/ times \/ start_counter \/ RunF
              \/ Interrupt \/ ReadCounter \/ Sample \/ Average

TimingSpec == TimingInit /\ [][TimingNext]_timingVars

(***************************************************************************)
(* Properties                                                              *)
(***************************************************************************)

\* What a sample should be: the call and the ticks in it, less every tick
\* that was counted.
Elapsed(c) == c.alone + c.tick * tick_cost - (c.tick + c.stray) * c.price

\* v is the n-th least of the samples: fewer than n are below it, and at least
\* n are not above it.
Ranked(v, n) ==
    /\ Cardinality({i \in DOMAIN taken : Elapsed(taken[i]) < v}) < n
    /\ n <= Cardinality({i \in DOMAIN taken : Elapsed(taken[i]) <= v})

\* Whatever digit of the counter wraps during a call, fcyc keeps the k least
\* of the samples in order, returns the least, and stops before the last
\* sample only when the k least lie within epsilon of it; the averages are
\* those of the time that passed.
KBestKept ==
    at = "done" =>
        IF method \in {"fcyc", "compensated"}
        THEN /\ result = values[1]
             /\ \A n \in 1 .. kbest : n <= Len(taken) => Ranked(values[n], n)
             /\ \/ Len(taken) = maxsamples
                \/ /\ Len(taken) >= kbest
                   /\ (EpsDen + EpsNum) * values[1] >= EpsDen * values[kbest]
        ELSE result = Elapsed(taken[1]) \div Runs

\* Compensation never makes a function look slower than its fastest call by
\* itself, when there is a price and callibrate counted each tick with the gap
\* it fell in; otherwise slower by what a tick takes beyond RECORDTHRESH at most.
\* There is no price, and nothing is subtracted, only where a tick takes no more
\* than RECORDTHRESH or callibrate counted one wrongly.  A function never looks
\* faster than it was by more than a tick's error, which is callibrate's own time
\* in a gap and a tick counted wrongly, and by a tick between the readings of
\* ticks and counter, which is subtracted from a call it did not slow.
Beyond == IF tick_cost > RECORDTHRESH THEN tick_cost - RECORDTHRESH ELSE 0
Wrong == IF missed THEN tick_cost ELSE 0
TicksCompensated ==
    at = "done" /\ method = "compensated" =>
        /\ \A i \in DOMAIN taken :
               LET c == taken[i]
                   unpaid == IF c.price = 0 THEN tick_cost ELSE IF missed THEN Beyond ELSE 0
               IN  /\ result <= c.alone + c.tick * unpaid
                   /\ c.price = 0 => missed \/ tick_cost <= RECORDTHRESH
        /\ \E i \in DOMAIN taken, e \in Slack :
               result >= taken[i].alone - taken[i].tick * (e + Wrong)
                             - taken[i].stray * (tick_cost + e + Wrong)
=============================================================================
