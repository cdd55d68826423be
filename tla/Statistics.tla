----------------------------- MODULE Statistics ------------------------------
(***************************************************************************)
(* The packet counters of the ports of a switch, the polls that read them  *)
(* and the traffic rates made of them (client/statistics.py and            *)
(* _update_port_statistics).  A switch counts in words that wrap, and      *)
(* starts from zero when it restarts; the client sees samples at the times *)
(* polls happen to succeed, each some time after the switch took it.       *)
(*                                                                         *)
(* The counters of good packets sent and received are treated alike: a     *)
(* "port" of this module is one of them.  A rate is kept as the packets    *)
(* and the seconds it is the quotient of.                                  *)
(***************************************************************************)
EXTENDS Integers

CONSTANTS Ports,       \* the counters a page of statistics holds
          Modulus,     \* _COUNTER_MODULUS, 2^32 in the code
          LineRate,    \* most packets a port carries in a tick of the clock
          MaxLatency,  \* ticks an answer may take: the time limit of a call
          MaxTime,     \* bound on the clock
          None         \* no previous sample

ASSUME CountersAssumption ==
    /\ Modulus \in Nat \ {0, 1}
    /\ LineRate \in 0..(Modulus - 1)

ASSUME TimeAssumption ==
    /\ MaxLatency \in Nat
    /\ MaxTime \in Nat
    /\ None \notin Nat

Counts == 0..(Modulus - 1)

(* _WRAP_THRESHOLD.                                                        *)
WrapThreshold == (Modulus * 9) \div 10

(* The largest loss a counter is trusted to have wrapped for.              *)
Margin == Modulus - WrapThreshold

VARIABLES counter,       \* what each port has counted
          clock,         \* monotonic()
          phase,         \* "answered" while a sample is on its way
          got,           \* that sample
          supported,     \* _port_statistics_supported
          statistics,    \* _port_statistics
          rates,         \* _port_traffic_rates
          previous,      \* the calculator's _previous
          previous_time, \* and _previous_sample_time
          before,        \* history: the traffic since the previous sample
          after,         \* history: and since the one on its way
          told           \* history: between the two samples of the rates

coordinatorVars == <<supported, statistics, rates>>
calculatorVars == <<previous, previous_time>>
history == <<before, after, told>>

vars == <<counter, clock, phase, got, supported, statistics, rates, previous,
          previous_time, before, after, told>>

(* No ports: the empty list and dict.                                      *)
Nothing == [p \in {} |-> 0]

(* True traffic: what each port carried, for how long, and if the counters *)
(* were set back meanwhile.                                                *)
Quiet == [packets |-> [p \in Ports |-> 0], ticks |-> 0, reset |-> FALSE]

Traffic == [packets : [Ports -> Nat], ticks : Nat, reset : BOOLEAN]

Both(h, i) == [packets |-> [p \in Ports |-> h.packets[p] + i.packets[p]],
               ticks |-> h.ticks + i.ticks,
               reset |-> h.reset \/ i.reset]

Samples == [Ports -> Counts] \cup {Nothing}

Rates == [Ports -> [packets : Nat, elapsed : Nat \ {0}]] \cup {Nothing}

TypeOK ==
    /\ counter \in [Ports -> Counts]
    /\ clock \in 0..MaxTime
    /\ phase \in {"idle", "answered"}
    /\ got \in Samples
    /\ supported \in {"unknown", "yes", "no"}
    /\ statistics \in Samples
    /\ rates \in Rates
    /\ previous \in Samples
    /\ previous_time \in Nat \cup {None}
    /\ before \in Traffic
    /\ after \in Traffic
    /\ told \in Traffic

(* The switch has been counting for some time.                             *)
Init ==
    /\ counter \in [Ports -> Counts]
    /\ clock = 0
    /\ phase = "idle"
    /\ got = Nothing
    /\ supported = "unknown"
    /\ statistics = Nothing
    /\ rates = Nothing
    /\ previous = Nothing
    /\ previous_time = None
    /\ before = Quiet
    /\ after = Quiet
    /\ told = Quiet

-----------------------------------------------------------------------------
(* The switch.                                                             *)

(* A counter of n packets, the last of which may have made it wrap.        *)
Wrapped(n) == IF n < Modulus THEN n ELSE n - Modulus

(* What the switch does, h, happens before or after it took the sample     *)
(* that is on its way.                                                     *)
Happens(h) ==
    /\ IF phase = "idle"
       THEN before' = Both(before, h) /\ UNCHANGED after
       ELSE after' = Both(after, h) /\ UNCHANGED before
    /\ UNCHANGED told

(* Time passes and every port p carries k[p] packets.                      *)
Tick(k) ==
    /\ clock < MaxTime
    /\ phase = "answered" => after.ticks < MaxLatency
    /\ clock' = clock + 1
    /\ counter' = [p \in Ports |-> Wrapped(counter[p] + k[p])]
    /\ Happens([packets |-> k, ticks |-> 1, reset |-> FALSE])
    /\ UNCHANGED <<phase, got, coordinatorVars, calculatorVars>>

(* The switch restarts.                                                    *)
Restart ==
    /\ counter' = [p \in Ports |-> 0]
    /\ Happens([Quiet EXCEPT !.reset = TRUE])
    /\ UNCHANGED <<clock, phase, got, coordinatorVars, calculatorVars>>

-----------------------------------------------------------------------------
(* The poll.                                                               *)

(* get_port_statistics: the switch takes the counters for its answer.  A   *)
(* page that was found not to exist is not asked for.                      *)
Read ==
    /\ phase = "idle"
    /\ supported # "no"
    /\ phase' = "answered"
    /\ got' = counter
    /\ UNCHANGED <<counter, clock, coordinatorVars, calculatorVars, history>>

(* Fault of CounterDelta: the counter is taken to grow for ever.           *)
FaultyCounterDelta(current, prev) == current - prev

(* Fault of CounterDelta: every smaller value is taken for a wrap.         *)
FaultyCounterDeltaWraps(current, prev) ==
    IF current >= prev THEN current - prev ELSE Modulus - prev + current

(* Fault of CounterDelta: every smaller value is taken for a restart.      *)
FaultyCounterDeltaResets(current, prev) ==
    IF current >= prev THEN current - prev ELSE current

(* _counter_delta: a smaller value is a wrap if the counter was about to   *)
(* wrap, else a restart.                                                   *)
CounterDelta(current, prev) ==
    IF current >= prev THEN current - prev
    ELSE IF prev >= WrapThreshold THEN Modulus - prev + current
    ELSE current

(* PortStatisticsRateCalculator.update: rates of the ports of both         *)
(* samples, if time has passed between them.                               *)
Calculated(current, time) ==
    IF previous_time # None /\ time > previous_time
    THEN [p \in DOMAIN current \cap DOMAIN previous |->
              [packets |-> CounterDelta(current[p], previous[p]),
               elapsed |-> time - previous_time]]
    ELSE Nothing

(* What the calculator keeps of this sample for the next.                  *)
Remember(current, time) ==
    /\ previous' = current
    /\ previous_time' = time

(* The answer is there; monotonic() is asked only now.                     *)
Arrive ==
    /\ phase = "answered"
    /\ phase' = "idle"
    /\ got' = Nothing
    /\ supported' = "yes"
    /\ statistics' = got
    /\ rates' = Calculated(got, clock)
    /\ Remember(got, clock)
    /\ told' = before
    /\ before' = after
    /\ after' = Quiet
    /\ UNCHANGED <<counter, clock>>

(* Fault of Fail: the time of the poll is kept although there is no        *)
(* sample.                                                                 *)
FaultyFail(absent) ==
    /\ supported # "no"
    /\ phase' = "idle"
    /\ got' = Nothing
    /\ supported' = IF absent /\ supported = "unknown" THEN "no" ELSE supported
    /\ statistics' = Nothing
    /\ rates' = Nothing
    /\ before' = Both(before, after)
    /\ after' = Quiet
    /\ previous_time' = IF previous_time = None THEN None ELSE clock
    /\ UNCHANGED <<counter, clock, previous, told>>

(* The call fails, before or after the switch has taken the counters.  An  *)
(* unsupported page is given up unless it was once there; the calculator   *)
(* does not hear of the failure.                                           *)
Fail(absent) ==
    /\ supported # "no"
    /\ phase' = "idle"
    /\ got' = Nothing
    /\ supported' = IF absent /\ supported = "unknown" THEN "no" ELSE supported
    /\ statistics' = Nothing
    /\ rates' = Nothing
    /\ before' = Both(before, after)
    /\ after' = Quiet
    /\ UNCHANGED <<counter, clock, calculatorVars, told>>

Next ==
    \/ \E k \in [Ports -> 0..LineRate] : Tick(k)
    \/ Restart
    \/ Read
    \/ Arrive
    \/ \E absent \in BOOLEAN : Fail(absent)

Spec == Init /\ [][Next]_vars

-----------------------------------------------------------------------------
(* Properties.                                                             *)

(* The ports whose rate sensors have a value (get_port_traffic_rates,      *)
(* TpLinkPortStatisticsSensor).                                            *)
Rated == DOMAIN rates

(* "Counter resets and 32-bit wraps are handled when calculating rates"    *)
(* (docs/sensors.md), as far as it can be: a rate counts every packet of   *)
(* the time it stands for and no other, whether or not the counter wrapped *)
(* and however many polls failed or took long in between, if the switch    *)
(* was not restarted and the port carried no more than a tenth of the      *)
(* counter's range since the last sample (_counter_delta).                 *)
RatesExact ==
    \A p \in Rated :
        ~told.reset /\ told.packets[p] <= Margin
            => rates[p].packets = told.packets[p]

(* Whatever the port carried, and wherever the counter was when the switch *)
(* restarted, no rate claims more than the true traffic and, after a       *)
(* restart that looks like a wrap, a tenth of the counter's range.         *)
RatesNotOverstated ==
    \A p \in Rated :
        rates[p].packets <= told.packets[p] + (IF told.reset THEN Margin ELSE 0)

(* A rate of a switch that was not restarted does not exceed what the line *)
(* can carry by more than the delay of an answer accounts for: the time it *)
(* is divided by is the time between the answers to the two samples it     *)
(* compares, also when polls in between failed (_previous_sample_time).    *)
RatesWithinLineRate ==
    \A p \in Rated :
        ~told.reset
            => rates[p].packets <= LineRate * (rates[p].elapsed + MaxLatency)

=============================================================================
