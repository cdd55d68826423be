-------------------------- MODULE Statistics_proofs --------------------------
(***************************************************************************)
(* What the traffic rates are worth, for counters of any width, any number *)
(* of ports, any traffic and any delays.                                   *)
(***************************************************************************)
EXTENDS Statistics, TLAPS

(* Traffic of n packets can have taken a counter from x to y; after the    *)
(* switch restarted it is only known to have counted no more than that.    *)
Explains(n, reset, x, y) ==
    IF reset THEN y <= n
    ELSE n < Modulus => y = x + n \/ y = x + n - Modulus

(* Traffic h explains all counters that went from c to d.                  *)
Leads(h, c, d) ==
    \A p \in DOMAIN c : Explains(h.packets[p], h.reset, c[p], d[p])

(* The ports did not carry more than their lines let through.              *)
Possible(h) == \A p \in Ports : h.packets[p] <= LineRate * h.ticks

(* The sample on its way lies between the previous one and now.            *)
CountersInv ==
    /\ phase = "idle" => Leads(before, previous, counter) /\ after = Quiet
    /\ phase = "answered" => /\ got \in [Ports -> Counts]
                             /\ Leads(before, previous, got)
                             /\ Leads(after, got, counter)

(* The true time between two samples is the time between their answers,    *)
(* but for the delay of the first.                                         *)
TimesInv ==
    /\ previous_time = None => previous = Nothing
    /\ previous_time # None =>
           /\ previous_time <= clock
           /\ before.ticks + after.ticks <= clock - previous_time + MaxLatency
    /\ after.ticks <= MaxLatency
    /\ Possible(before)
    /\ Possible(after)

(* The inductive invariant: the rates are right, and the next ones will.   *)
IInv ==
    /\ TypeOK
    /\ CountersInv
    /\ TimesInv
    /\ RatesExact
    /\ RatesNotOverstated
    /\ RatesWithinLineRate

-----------------------------------------------------------------------------
(* Counters.                                                               *)

(* The threshold lies within the range of the counter.                     *)
LEMMA ThresholdInRange == WrapThreshold \in 1..Modulus /\ Margin \in 0..(Modulus - 1)
BY CountersAssumption DEF WrapThreshold, Margin

(* A counter that wraps at most once a tick stays within its range, and    *)
(* its packets explain it.                                                 *)
LEMMA WrappedRight ==
  ASSUME NEW x \in Counts, NEW k \in 0..LineRate
  PROVE  /\ Wrapped(x + k) \in Counts
         /\ Explains(k, FALSE, x, Wrapped(x + k))
BY CountersAssumption DEF Counts, Wrapped, Explains

(* Two stretches of traffic, one after the other.                          *)
LEMMA ExplainsBoth ==
  ASSUME NEW x \in Counts, NEW y \in Counts, NEW z \in Counts,
         NEW m \in Nat, NEW n \in Nat, NEW r \in BOOLEAN, NEW s \in BOOLEAN,
         Explains(m, r, x, y), Explains(n, s, y, z)
  PROVE  Explains(m + n, r \/ s, x, z)
<1> USE CountersAssumption DEF Counts, Explains
<1>1. CASE s
  BY <1>1
<1>2. CASE ~s /\ r
  BY <1>2
<1>3. CASE ~s /\ ~r
  BY <1>3
<1> QED  BY <1>1, <1>2, <1>3

(* A delta of a counter is a count, does not exceed what explains it by    *)
(* more than the margin, and is exact within the margin.                   *)
LEMMA DeltaRight ==
  ASSUME NEW x \in Counts, NEW y \in Counts, NEW n \in Nat, NEW r \in BOOLEAN,
         Explains(n, r, x, y)
  PROVE  /\ CounterDelta(y, x) \in Nat
         /\ CounterDelta(y, x) <= n + (IF r THEN Margin ELSE 0)
         /\ ~r /\ n <= Margin => CounterDelta(y, x) = n
<1>1. WrapThreshold \in 1..Modulus /\ Margin = Modulus - WrapThreshold
  BY ThresholdInRange DEF Margin
<1>2. CASE r
  BY <1>1, <1>2, CountersAssumption DEF Counts, Explains, CounterDelta
<1>3. CASE ~r
  <2> USE CountersAssumption DEF Counts, Explains, CounterDelta
  <2>1. CASE n < Modulus
    BY <1>1, <1>3, <2>1
  <2>2. CASE n >= Modulus
    BY <1>1, <1>3, <2>2
  <2> QED  BY <2>1, <2>2
<1> QED  BY <1>2, <1>3

(* The same for all ports at once.                                         *)
LEMMA LeadsBoth ==
  ASSUME NEW h \in Traffic, NEW i \in Traffic,
         NEW c \in Samples, NEW d \in [Ports -> Counts], NEW e \in [Ports -> Counts],
         Leads(h, c, d), Leads(i, d, e)
  PROVE  Leads(Both(h, i), c, e)
<1> SUFFICES ASSUME NEW p \in DOMAIN c
             PROVE  Explains(h.packets[p] + i.packets[p], h.reset \/ i.reset, c[p], e[p])
  BY DEF Leads, Both, Samples, Nothing
<1>1. p \in Ports /\ c[p] \in Counts /\ d[p] \in Counts /\ e[p] \in Counts
  BY DEF Samples, Nothing
<1>2. h.packets[p] \in Nat /\ i.packets[p] \in Nat /\ h.reset \in BOOLEAN /\ i.reset \in BOOLEAN
  BY <1>1 DEF Traffic
<1>3. Explains(h.packets[p], h.reset, c[p], d[p]) /\ Explains(i.packets[p], i.reset, d[p], e[p])
  BY <1>1 DEF Leads
<1> QED  BY <1>1, <1>2, <1>3, ExplainsBoth

(* Nothing carried, nothing counted.                                       *)
LEMMA QuietRight ==
  /\ Quiet \in Traffic
  /\ Possible(Quiet)
  /\ \A c \in [Ports -> Counts] : Leads(Quiet, c, c)
<1>1. Quiet \in Traffic
  BY DEF Quiet, Traffic
<1>2. Possible(Quiet)
  BY CountersAssumption DEF Quiet, Possible
<1>3. ASSUME NEW c \in [Ports -> Counts] PROVE Leads(Quiet, c, c)
  BY <1>3 DEF Quiet, Leads, Explains, Counts
<1> QED  BY <1>1, <1>2, <1>3

(* Traffic adds up.                                                        *)
LEMMA BothRight ==
  ASSUME NEW h \in Traffic, NEW i \in Traffic
  PROVE  /\ Both(h, i) \in Traffic
         /\ Both(h, i).ticks = h.ticks + i.ticks
         /\ Possible(h) /\ Possible(i) => Possible(Both(h, i))
<1>1. Both(h, i) \in Traffic /\ Both(h, i).ticks = h.ticks + i.ticks
  BY DEF Both, Traffic
<1>2. ASSUME Possible(h), Possible(i), NEW p \in Ports
      PROVE  Both(h, i).packets[p] <= LineRate * Both(h, i).ticks
  <2>1. LineRate * (h.ticks + i.ticks) = LineRate * h.ticks + LineRate * i.ticks
    BY CountersAssumption DEF Traffic
  <2>2. h.packets[p] <= LineRate * h.ticks /\ i.packets[p] <= LineRate * i.ticks
    BY <1>2 DEF Possible
  <2>3. Both(h, i).packets[p] = h.packets[p] + i.packets[p]
    BY DEF Both
  <2>4. LineRate * h.ticks \in Nat /\ LineRate * i.ticks \in Nat
        /\ h.packets[p] \in Nat /\ i.packets[p] \in Nat
    BY CountersAssumption DEF Traffic
  <2> QED  BY <1>1, <2>1, <2>2, <2>3, <2>4
<1> QED  BY <1>1, <1>2 DEF Possible

-----------------------------------------------------------------------------
(* What the switch does.                                                   *)

(* Traffic h that leads the counters to their new values keeps the         *)
(* invariant, whichever sample it belongs to.                              *)
LEMMA HappensStep ==
  ASSUME IInv, NEW h \in Traffic, Happens(h), Possible(h),
         counter' \in [Ports -> Counts], Leads(h, counter, counter'),
         clock' = clock + h.ticks, clock' \in 0..MaxTime,
         phase = "answered" => after.ticks + h.ticks <= MaxLatency,
         UNCHANGED <<phase, got, coordinatorVars, calculatorVars>>
  PROVE  IInv'
<1> USE DEF IInv
<1>1. before' \in Traffic /\ after' \in Traffic /\ told' = told
      /\ Possible(before') /\ Possible(after')
      /\ before'.ticks + after'.ticks = before.ticks + after.ticks + h.ticks
  BY BothRight DEF Happens, TypeOK, TimesInv, Traffic
<1>2. TypeOK'
  BY <1>1 DEF TypeOK, coordinatorVars, calculatorVars
<1>3. CountersInv'
  <2>1. CASE phase = "idle"
    <3>1. Leads(Both(before, h), previous, counter')
      BY <2>1, LeadsBoth DEF TypeOK, CountersInv
    <3> QED  BY <2>1, <3>1 DEF CountersInv, Happens, calculatorVars
  <2>2. CASE phase = "answered"
    <3>1. Leads(Both(after, h), got, counter')
      <4>1. got \in Samples /\ Leads(after, got, counter)
        BY <2>2 DEF CountersInv, Samples
      <4> QED  BY <4>1, LeadsBoth DEF TypeOK
    <3> QED  BY <2>2, <3>1 DEF CountersInv, Happens, calculatorVars
  <2> QED  BY <2>1, <2>2 DEF TypeOK
<1>4. TimesInv'
  <2>1. after'.ticks <= MaxLatency
    BY BothRight DEF Happens, TypeOK, TimesInv
  <2>2. ASSUME previous_time # None
        PROVE  /\ previous_time <= clock'
               /\ before'.ticks + after'.ticks <= clock' - previous_time + MaxLatency
    BY <1>1, <2>2, TimeAssumption DEF TypeOK, TimesInv, Traffic
  <2> QED  BY <1>1, <2>1, <2>2 DEF TimesInv, calculatorVars
<1>5. RatesExact' /\ RatesNotOverstated' /\ RatesWithinLineRate'
  BY <1>1 DEF RatesExact, RatesNotOverstated, RatesWithinLineRate, Rated, coordinatorVars
<1> QED  BY <1>2, <1>3, <1>4, <1>5

(* The switch counts.                                                      *)
LEMMA TickStep ==
  ASSUME IInv, NEW k \in [Ports -> 0..LineRate], Tick(k)
  PROVE  IInv'
<1> DEFINE h == [packets |-> k, ticks |-> 1, reset |-> FALSE]
<1>1. h \in Traffic
  BY CountersAssumption DEF Traffic
<1>2. Possible(h)
  BY CountersAssumption DEF Possible
<1>3. counter' \in [Ports -> Counts] /\ Leads(h, counter, counter')
  BY WrappedRight DEF IInv, TypeOK, Tick, Leads
<1>4. clock' = clock + h.ticks /\ clock' \in 0..MaxTime
  BY TimeAssumption DEF IInv, TypeOK, Tick
<1>5. phase = "answered" => after.ticks + h.ticks <= MaxLatency
  BY TimeAssumption DEF IInv, TypeOK, Tick, Traffic
<1>6. Happens(h) /\ UNCHANGED <<phase, got, coordinatorVars, calculatorVars>>
  BY DEF Tick
<1> HIDE DEF h
<1> QED  BY <1>1, <1>2, <1>3, <1>4, <1>5, <1>6, HappensStep

(* The switch restarts.                                                    *)
LEMMA RestartStep ==
  ASSUME IInv, Restart
  PROVE  IInv'
<1> DEFINE h == [Quiet EXCEPT !.reset = TRUE]
<1>1. h \in Traffic /\ h.ticks = 0
  BY DEF Quiet, Traffic
<1>2. Possible(h)
  BY CountersAssumption DEF Possible, Quiet
<1>3. counter' \in [Ports -> Counts] /\ Leads(h, counter, counter')
  BY CountersAssumption DEF IInv, TypeOK, Restart, Leads, Explains, Quiet, Counts
<1>4. clock' = clock + h.ticks /\ clock' \in 0..MaxTime
  BY <1>1, TimeAssumption DEF IInv, TypeOK, Restart
<1>5. phase = "answered" => after.ticks + h.ticks <= MaxLatency
  BY <1>1 DEF IInv, TypeOK, TimesInv, Traffic
<1>6. Happens(h) /\ UNCHANGED <<phase, got, coordinatorVars, calculatorVars>>
  BY DEF Restart
<1> HIDE DEF h
<1> QED  BY <1>1, <1>2, <1>3, <1>4, <1>5, <1>6, HappensStep

-----------------------------------------------------------------------------
(* What the poll does.                                                     *)

(* A sample is taken: nothing has happened since.                          *)
LEMMA ReadStep ==
  ASSUME IInv, Read
  PROVE  IInv'
<1> USE DEF IInv, Read, coordinatorVars, calculatorVars, history
<1>1. TypeOK'
  BY DEF TypeOK, Samples
<1>2. CountersInv'
  BY QuietRight DEF CountersInv, TypeOK
<1>3. TimesInv'
  BY DEF TimesInv
<1>4. RatesExact' /\ RatesNotOverstated' /\ RatesWithinLineRate'
  BY DEF RatesExact, RatesNotOverstated, RatesWithinLineRate, Rated
<1> QED  BY <1>1, <1>2, <1>3, <1>4

(* The new rates are of the traffic between the two samples.               *)
LEMMA CalculatedRight ==
  ASSUME IInv, Arrive
  PROVE  /\ rates' \in Rates
         /\ RatesExact'
         /\ RatesNotOverstated'
         /\ RatesWithinLineRate'
<1> USE DEF IInv
<1>1. CASE ~(previous_time # None /\ clock > previous_time) \/ previous = Nothing
  <2>1. rates' = Nothing
    BY <1>1 DEF Arrive, Calculated, Nothing
  <2> QED  BY <2>1 DEF Rates, Rated, Nothing, RatesExact, RatesNotOverstated,
                       RatesWithinLineRate
<1>2. CASE previous_time # None /\ clock > previous_time /\ previous # Nothing
  <2> DEFINE elapsed == clock - previous_time
  <2>1. got \in [Ports -> Counts] /\ previous \in [Ports -> Counts]
        /\ Leads(before, previous, got)
    BY <1>2 DEF Arrive, CountersInv, TypeOK, Samples
  <2>2. rates' = [p \in Ports |-> [packets |-> CounterDelta(got[p], previous[p]),
                                   elapsed |-> elapsed]]
    BY <1>2, <2>1 DEF Arrive, Calculated
  <2>3. elapsed \in Nat \ {0}
    BY <1>2, TimeAssumption DEF TypeOK
  <2>4. before.ticks <= elapsed + MaxLatency /\ before.ticks \in Nat
    BY <1>2, TimeAssumption DEF TimesInv, TypeOK, Traffic
  <2> HIDE DEF elapsed
  <2>5. LineRate * before.ticks <= LineRate * (elapsed + MaxLatency)
        /\ LineRate * before.ticks \in Nat /\ LineRate * (elapsed + MaxLatency) \in Nat
    BY <2>3, <2>4, CountersAssumption, TimeAssumption
  <2>6. ASSUME NEW p \in Ports
        PROVE  LET d == CounterDelta(got[p], previous[p])
               IN /\ d \in Nat
                  /\ d <= before.packets[p] + (IF before.reset THEN Margin ELSE 0)
                  /\ ~before.reset /\ before.packets[p] <= Margin => d = before.packets[p]
                  /\ ~before.reset => d <= LineRate * (elapsed + MaxLatency)
    <3>1. before.packets[p] \in Nat /\ before.reset \in BOOLEAN
      BY DEF TypeOK, Traffic
    <3>2. Explains(before.packets[p], before.reset, previous[p], got[p])
      BY <2>1 DEF Leads
    <3>3. /\ CounterDelta(got[p], previous[p]) \in Nat
          /\ CounterDelta(got[p], previous[p])
                 <= before.packets[p] + (IF before.reset THEN Margin ELSE 0)
          /\ ~before.reset /\ before.packets[p] <= Margin
                 => CounterDelta(got[p], previous[p]) = before.packets[p]
      BY <2>1, <3>1, <3>2, DeltaRight
    <3>4. before.packets[p] <= LineRate * before.ticks
      BY DEF TimesInv, Possible
    <3> QED  BY <2>5, <3>1, <3>3, <3>4
  <2>7. told' = before
    BY DEF Arrive
  <2>8. DOMAIN rates' = Ports
        /\ \A p \in Ports : /\ rates'[p].packets = CounterDelta(got[p], previous[p])
                            /\ rates'[p].elapsed = elapsed
    BY <2>2
  <2>9. rates' \in Rates
    BY <2>2, <2>3, <2>6 DEF Rates
  <2>10. RatesExact' /\ RatesNotOverstated'
    BY <2>6, <2>7, <2>8 DEF RatesExact, RatesNotOverstated, Rated
  <2>11. RatesWithinLineRate'
    BY <2>6, <2>7, <2>8 DEF RatesWithinLineRate, Rated
  <2> QED  BY <2>9, <2>10, <2>11
<1> QED  BY <1>1, <1>2

(* The sample on its way becomes the previous one.                         *)
LEMMA ArriveStep ==
  ASSUME IInv, Arrive
  PROVE  IInv'
<1> USE DEF IInv, Arrive, Remember
<1>1. rates' \in Rates /\ RatesExact' /\ RatesNotOverstated' /\ RatesWithinLineRate'
  BY CalculatedRight
<1>2. TypeOK'
  BY <1>1, QuietRight, TimeAssumption DEF TypeOK, Samples
<1>3. CountersInv'
  BY DEF CountersInv, TypeOK
<1>4. TimesInv'
  BY QuietRight, TimeAssumption DEF TimesInv, TypeOK, Traffic, Quiet
<1> QED  BY <1>1, <1>2, <1>3, <1>4

(* A call that fails leaves the previous sample and joins what happened    *)
(* before and after the one that was lost.                                 *)
LEMMA FailStep ==
  ASSUME IInv, NEW absent \in BOOLEAN, Fail(absent)
  PROVE  IInv'
<1> USE DEF IInv, Fail, calculatorVars
<1>1. /\ before' \in Traffic
      /\ before'.ticks = before.ticks + after.ticks
      /\ Possible(before')
      /\ after' = Quiet /\ after' \in Traffic /\ Possible(after')
  BY BothRight, QuietRight DEF TypeOK, TimesInv
<1>2. TypeOK'
  BY <1>1 DEF TypeOK, Samples, Rates
<1>3. CountersInv'
  <2>1. CASE phase = "idle"
    <3>1. Leads(after, counter, counter)
      BY <2>1, QuietRight DEF CountersInv, TypeOK
    <3>2. Leads(Both(before, after), previous, counter)
      BY <2>1, <3>1, LeadsBoth DEF CountersInv, TypeOK
    <3> QED  BY <3>2 DEF CountersInv
  <2>2. CASE phase = "answered"
    <3>1. Leads(Both(before, after), previous, counter)
      BY <2>2, LeadsBoth DEF CountersInv, TypeOK
    <3> QED  BY <3>1 DEF CountersInv
  <2> QED  BY <2>1, <2>2 DEF TypeOK
<1>4. TimesInv'
  BY <1>1, TimeAssumption DEF TimesInv, TypeOK, Traffic, Quiet
<1>5. RatesExact' /\ RatesNotOverstated' /\ RatesWithinLineRate'
  BY DEF RatesExact, RatesNotOverstated, RatesWithinLineRate, Rated, Nothing
<1> QED  BY <1>2, <1>3, <1>4, <1>5

-----------------------------------------------------------------------------

(* At the start there is no sample to compare with.                        *)
LEMMA InitInv == Init => IInv
<1> SUFFICES ASSUME Init PROVE IInv
  OBVIOUS
<1> USE DEF Init
<1>1. TypeOK
  BY QuietRight, TimeAssumption DEF TypeOK, Samples, Rates
<1>2. CountersInv
  BY DEF CountersInv, Leads, Nothing
<1>3. TimesInv
  BY QuietRight, TimeAssumption DEF TimesInv, Quiet
<1>4. RatesExact /\ RatesNotOverstated /\ RatesWithinLineRate
  BY DEF RatesExact, RatesNotOverstated, RatesWithinLineRate, Rated, Nothing
<1> QED  BY <1>1, <1>2, <1>3, <1>4 DEF IInv

(* Every step keeps the invariant.                                         *)
LEMMA NextInv == IInv /\ [Next]_vars => IInv'
<1> SUFFICES ASSUME IInv, [Next]_vars PROVE IInv'
  OBVIOUS
<1>1. CASE UNCHANGED vars
  BY <1>1 DEF vars, IInv, TypeOK, CountersInv, TimesInv, Leads, Possible,
              RatesExact, RatesNotOverstated, RatesWithinLineRate, Rated
<1>2. CASE Next
  BY <1>2, TickStep, RestartStep, ReadStep, ArriveStep, FailStep DEF Next
<1> QED  BY <1>1, <1>2

(* The inductive invariant holds throughout.                               *)
LEMMA Always == Spec => []IInv
BY InitInv, NextInv, PTL DEF Spec

(* The calculator and the coordinator keep samples and rates of their      *)
(* types; no rate is negative.                                             *)
THEOREM TypeCorrect == Spec => []TypeOK
BY Always, PTL DEF IInv

(* A rate counts every packet between its two samples and no other, if the *)
(* switch was not restarted and the port carried no more than a tenth of   *)
(* the counter's range (_counter_delta).                                   *)
THEOREM Exact == Spec => []RatesExact
BY Always, PTL DEF IInv

(* No rate claims more than the true traffic and, after a restart that     *)
(* looks like a wrap, a tenth of the counter's range.                      *)
THEOREM NotOverstated == Spec => []RatesNotOverstated
BY Always, PTL DEF IInv

(* No rate of a switch that was not restarted exceeds what the line can    *)
(* carry by more than the delay of an answer accounts for.                 *)
THEOREM WithinLineRate == Spec => []RatesWithinLineRate
BY Always, PTL DEF IInv

=============================================================================
