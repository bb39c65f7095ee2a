---------------------------- MODULE SigningProofs ----------------------------
(***************************************************************************)
(* The metrics and the signing of any number of senders, for any           *)
(* estimates, ratios and failed pushes.                                    *)
(***************************************************************************)
EXTENDS Signing, TLAPS

Values(names) == UNION {[S -> Nat] : S \in SUBSET names}

Pushers == [counters : Values(CounterNames), gauges : Values(GaugeNames),
            histograms : Values(HistogramNames)]

\* No counter of c is missing in d, or less there.
Within(c, d) == \A n \in DOMAIN c : n \in DOMAIN d /\ c[n] <= d[n]

MetricsTyped ==
  /\ pushers \in Seq(Pushers) /\ gateway \in Pushers
  /\ registering \in BOOLEAN
  /\ counted \in [CounterNames -> Nat] /\ uncounted \in [CounterNames -> Nat]
  /\ ctxDone \in BOOLEAN /\ pushBudget \in 0..PushBudget

\* The pushers are made one after the other; only those made by RunPusher push.
MadeControl ==
  /\ \/ made = "config" /\ Global = IF registering THEN 2 ELSE 1
     \/ made = "pool" /\ Global = IF registering THEN 3 ELSE 2
     \/ made = "controller" /\ ~registering /\ Global = 3
  /\ running \subseteq 2..Global
  /\ lastPusher \in {0} \cup 2..Global

\* No pusher is ahead of what has happened.
CountControl == \A i \in 1..Global : Within(pushers[i].counters, counted)

\* The gateway is not ahead of the pusher that pushed last.
PushControl ==
  IF lastPusher = 0 THEN DOMAIN gateway.counters = {}
                    ELSE Within(gateway.counters, pushers[lastPusher].counters)

\* The limit is the raised estimate, or, of a second estimate, that itself.
GasControl ==
  \A s \in Senders : sender[s] \in {"estimated", "sent"} =>
    gasLimit[s] = Raised(estimate[s], ratio[s]) \/ gasLimit[s] = estimate[s]

SenderTyped ==
  /\ sender \in [Senders -> {"idle", "estimated", "sent", "failed"}]
  /\ ratio \in [Senders -> Ratios \cup {0}]
  /\ estimate \in [Senders -> Estimates \cup {0}]
  /\ gasLimit \in [Senders -> 0..(Word - 1)]

MetricsInv == MetricsTyped /\ MadeControl /\ CountControl /\ PushControl

SigningInv == MetricsInv /\ SenderTyped /\ GasControl
-----------------------------------------------------------------------------
(* Gas *)

\* A product of numbers is one.
LEMMA Product ==
  ASSUME NEW a \in Nat, NEW b \in Nat
  PROVE  a * b \in Nat
OBVIOUS

\* A quotient is not above what is divided.
LEMMA Quotient ==
  ASSUME NEW x \in Nat, NEW d \in Nat \ {0}
  PROVE  x \div d \in Nat /\ x \div d <= x
OBVIOUS

\* A limit stays within uint64.
LEMMA RaisedType ==
  ASSUME NEW g \in Nat, NEW r \in Nat
  PROVE  Raised(g, r) \in 0..(Word - 1)
<1> USE SigningAssumption
<1>1. g * r % Word \in 0..(Word - 1)
  <2>1. g * r \in Nat
    BY Product
  <2> QED BY <2>1
<1>2. Raised(g, r) \in Nat /\ Raised(g, r) <= g * r % Word
  BY <1>1, Quotient DEF Raised
<1> QED BY <1>1, <1>2

\* A product that fits in uint64, of a ratio of at least one, raises the estimate.
LEMMA RaisedEnough ==
  ASSUME NEW g \in Nat, NEW r \in Nat, r >= Percentage, g * r < Word
  PROVE  Raised(g, r) >= g
<1> USE SigningAssumption
<1>1. g * r \in Nat /\ g * Percentage \in Nat
  BY Product
<1>2. g * r % Word = g * r
  BY <1>1
<1>3. g * Percentage <= g * r
  OBVIOUS
<1>4. (g * r) \div Percentage >= g
  BY <1>1, <1>3
<1> QED BY <1>2, <1>4 DEF Raised
-----------------------------------------------------------------------------
(* One pusher *)

\* A step of a pusher makes no counter less, and is not ahead of what has happened.
Counts(p, q, c) ==
  /\ q \in Pushers
  /\ Within(p.counters, q.counters) /\ Within(q.counters, c)

\* A name is added with 0, and the others keep their values.
LEMMA AddNameIs ==
  ASSUME NEW names, NEW m, m \in Values(names), NEW name, name \in names
  PROVE  /\ AddName(m, name) \in Values(names)
         /\ DOMAIN AddName(m, name) = DOMAIN m \cup {name}
         /\ \A n \in DOMAIN m : AddName(m, name)[n] = m[n]
         /\ \A n \in DOMAIN m \cup {name} : n \notin DOMAIN m => AddName(m, name)[n] = 0
BY DEF AddName, Values

\* A counter that is added starts from 0.
LEMMA AddCounterIs ==
  ASSUME NEW p \in Pushers, NEW c \in [CounterNames -> Nat], Within(p.counters, c),
         NEW name \in CounterNames
  PROVE  Counts(p, AddCounter(p, name), c)
<1> DEFINE pc == p.counters
           m  == AddName(pc, name)
<1>1. pc \in Values(CounterNames)
  BY DEF Pushers
<1>2. \A n \in DOMAIN pc : pc[n] \in Nat
  BY <1>1 DEF Values
<1>3. /\ m \in Values(CounterNames) /\ DOMAIN m = DOMAIN pc \cup {name}
      /\ \A n \in DOMAIN pc : m[n] = pc[n]
      /\ \A n \in DOMAIN pc \cup {name} : n \notin DOMAIN pc => m[n] = 0
  <2> HIDE DEF pc
  <2> QED BY <1>1 DEF AddName, Values
<1>4. AddCounter(p, name) \in Pushers /\ AddCounter(p, name).counters = m
  BY <1>3 DEF AddCounter, Pushers
<1>5. Within(p.counters, m)
  BY <1>2, <1>3 DEF Within
<1>6. Within(m, c)
  BY <1>3 DEF Within
<1> QED BY <1>4, <1>5, <1>6 DEF Counts

\* Gauges and histograms are no counters.
LEMMA OthersAre ==
  ASSUME NEW p \in Pushers, NEW c, Within(p.counters, c), NEW q \in Pushers,
         q.counters = p.counters
  PROVE  Counts(p, q, c)
<1>1. \A n \in DOMAIN p.counters : p.counters[n] \in Nat
  BY DEF Pushers, Values
<1> QED BY <1>1 DEF Counts, Within

\* One step after another
LEMMA CountsTwice ==
  ASSUME NEW p \in Pushers, NEW q, NEW r, NEW c \in [CounterNames -> Nat],
         NEW d \in [CounterNames -> Nat], Counts(p, q, c), Counts(q, r, d)
  PROVE  Counts(p, r, d)
<1>1. q \in Pushers /\ r \in Pushers
  BY DEF Counts
<1>2. \A n \in DOMAIN p.counters : p.counters[n] \in Nat
  BY DEF Pushers, Values
<1>3. \A n \in DOMAIN q.counters : q.counters[n] \in Nat
  BY <1>1 DEF Pushers, Values
<1>4. \A n \in DOMAIN r.counters : r.counters[n] \in Nat
  BY <1>1 DEF Pushers, Values
<1> QED BY <1>1, <1>2, <1>3, <1>4 DEF Counts, Within

\* The names are registered with a pusher that loses no count by it.
LEMMA RegisteredIs ==
  ASSUME NEW p \in Pushers, NEW c \in [CounterNames -> Nat], Within(p.counters, c)
  PROVE  Counts(p, Registered(p), c)
<1> DEFINE c1 == AddCounter(p, "kms_success")
           c2 == AddCounter(c1, "kms_failure_network")
           c3 == AddCounter(c2, "kms_failure_internal")
           h  == AddHistogram(c3, "kms_latency")
<1> HIDE DEF c1, c2, c3, h
<1>1. Counts(p, c1, c)
  BY AddCounterIs DEF c1, CounterNames
<1>2. Counts(c1, c2, c)
  BY <1>1, AddCounterIs DEF c2, Counts, CounterNames
<1>3. Counts(c2, c3, c)
  BY <1>2, AddCounterIs DEF c3, Counts, CounterNames
<1>4. h \in Pushers /\ h.counters = c3.counters
  <2>1. c3 \in Pushers /\ c3.histograms \in Values(HistogramNames)
    BY <1>3 DEF Counts, Pushers
  <2>2. AddName(c3.histograms, "kms_latency") \in Values(HistogramNames)
    BY <2>1, AddNameIs DEF HistogramNames
  <2> QED BY <2>1, <2>2 DEF h, AddHistogram, Pushers
<1>5. Registered(p) \in Pushers /\ Registered(p).counters = h.counters
  <2>1. h.gauges \in Values(GaugeNames)
    BY <1>4 DEF Pushers
  <2>2. AddName(h.gauges, "kms_lastSuccess") \in Values(GaugeNames)
    BY <2>1, AddNameIs DEF GaugeNames
  <2>3. Registered(p) = AddGauge(h, "kms_lastSuccess")
    BY DEF Registered, c1, c2, c3, h
  <2> QED BY <1>4, <2>2, <2>3 DEF AddGauge, Pushers
<1>6. Counts(c3, Registered(p), c)
  BY <1>3, <1>4, <1>5, OthersAre DEF Counts
<1>7. Counts(p, c2, c)
  BY <1>1, <1>2, CountsTwice
<1>8. Counts(p, c3, c)
  BY <1>3, <1>7, CountsTwice
<1> QED BY <1>6, <1>8, CountsTwice

\* A counter that was to be incremented is, or the pusher does not have it.
LEMMA IncrCounterIs ==
  ASSUME NEW p \in Pushers, NEW c \in [CounterNames -> Nat], Within(p.counters, c),
         NEW name \in CounterNames
  PROVE  Counts(p, IncrCounter(p, name, 1), [c EXCEPT ![name] = @ + 1])
<1> DEFINE d == [c EXCEPT ![name] = @ + 1]
           q == IncrCounter(p, name, 1)
<1>1. p.counters \in Values(CounterNames) /\ d \in [CounterNames -> Nat]
  BY DEF Pushers
<1>2. \A n \in DOMAIN p.counters : p.counters[n] \in Nat /\ n \in CounterNames
  BY <1>1 DEF Values
<1>3. CASE name \notin DOMAIN p.counters
  <2>1. q = p
    BY <1>3 DEF IncrCounter
  <2>2. Within(p.counters, d)
    BY <1>2 DEF Within
  <2> QED BY <2>1, <2>2, OthersAre
<1>4. CASE name \in DOMAIN p.counters
  <2> DEFINE m == [p.counters EXCEPT ![name] = @ + 1]
  <2>1. m \in Values(CounterNames)
    BY <1>1, <1>2, <1>4 DEF Values
  <2>2. q \in Pushers /\ q.counters = m
    BY <1>4, <2>1 DEF IncrCounter, Pushers
  <2>3. Within(p.counters, m)
    BY <1>2, <1>4 DEF Within
  <2>4. Within(m, d)
    BY <1>2, <1>4 DEF Within
  <2> QED BY <2>2, <2>3, <2>4 DEF Counts
<1> QED BY <1>3, <1>4

\* A successful sign changes a gauge and a histogram too.
LEMMA SignedIs ==
  ASSUME NEW p \in Pushers, NEW c \in [CounterNames -> Nat], Within(p.counters, c),
         NEW now \in Nat
  PROVE  Counts(p, IncrCounter(SetGauge(ObserveHistogram(p, "kms_latency"),
                                        "kms_lastSuccess", now), "kms_success", 1),
                [c EXCEPT !["kms_success"] = @ + 1])
<1> DEFINE h == ObserveHistogram(p, "kms_latency")
           g == SetGauge(h, "kms_lastSuccess", now)
           q == IncrCounter(g, "kms_success", 1)
           d == [c EXCEPT !["kms_success"] = @ + 1]
<1>1. h \in Pushers /\ h.counters = p.counters
  BY DEF ObserveHistogram, Pushers, Values
<1> HIDE DEF h
<1>2. g \in Pushers /\ g.counters = h.counters
  BY <1>1 DEF SetGauge, Pushers, Values
<1> HIDE DEF g
<1>3. Within(g.counters, c)
  BY <1>1, <1>2
<1>4. Counts(g, q, d)
  BY <1>2, <1>3, IncrCounterIs DEF CounterNames
<1>5. Counts(p, g, c)
  BY <1>1, <1>2, OthersAre
<1>6. d \in [CounterNames -> Nat]
  BY DEF CounterNames
<1> HIDE DEF d, q
<1>7. Counts(p, q, d)
  BY <1>4, <1>5, <1>6, CountsTwice
<1> QED BY <1>7 DEF d, q, g, h
-----------------------------------------------------------------------------
(* All pushers *)

\* A new pusher has no names.
LEMMA NewPusherIs == NewPusher \in Pushers /\ DOMAIN NewPusher.counters = {}
<1> DEFINE none == [n \in {} |-> 0]
<1>1. ASSUME NEW names PROVE none \in Values(names)
  <2>1. {} \in SUBSET names /\ none \in [{} -> Nat]
    OBVIOUS
  <2> QED BY <2>1 DEF Values
<1> HIDE DEF none
<1>2. NewPusher = [counters |-> none, gauges |-> none, histograms |-> none]
  BY DEF NewPusher, none
<1>3. DOMAIN none = {}
  BY DEF none
<1> QED BY <1>1, <1>2, <1>3 DEF Pushers

\* What the construction has made so far: one pusher at least.
LEMMA GlobalIs ==
  ASSUME MetricsTyped, MadeControl
  PROVE  /\ Global \in 1..3 /\ Pusher \in Pushers /\ Global = Len(pushers)
         /\ \A i \in 1..Global : pushers[i] \in Pushers
<1>1. Global \in 1..3 /\ Global = Len(pushers)
  BY DEF MadeControl, Global
<1> QED BY <1>1 DEF MetricsTyped, Pusher

\* What a change of the global pusher must keep, when d is to be counted after it
Keeps(q, d) ==
  /\ Counts(Pusher, q, d) /\ d \in [CounterNames -> Nat]
  /\ \A n \in CounterNames : counted[n] <= d[n]

\* The global pusher changes and no other.
LEMMA GlobalChanges ==
  ASSUME MetricsTyped, MadeControl, CountControl, PushControl,
         NEW q, NEW d, Keeps(q, d),
         pushers' = [pushers EXCEPT ![Global] = q], counted' = d,
         UNCHANGED <<gateway, lastPusher>>
  PROVE  /\ pushers' \in Seq(Pushers) /\ Global' = Global
         /\ counted' \in [CounterNames -> Nat]
         /\ CountControl' /\ PushControl'
<1>1. /\ Global \in 1..3 /\ Pusher \in Pushers /\ Global = Len(pushers)
      /\ \A i \in 1..Global : pushers[i] \in Pushers
  BY GlobalIs
<1>2. q \in Pushers /\ Within(Pusher.counters, q.counters) /\ Within(q.counters, d)
  BY DEF Keeps, Counts
<1>3. pushers' \in Seq(Pushers) /\ Len(pushers') = Len(pushers)
  BY <1>1, <1>2 DEF MetricsTyped
<1>4. Global' = Global
  BY <1>3 DEF Global
<1>5. \A i \in 1..Global : pushers'[i] = IF i = Global THEN q ELSE pushers[i]
  BY <1>1 DEF MetricsTyped
<1>6. \A i \in 1..Global : DOMAIN pushers[i].counters \subseteq CounterNames
                           /\ pushers[i].counters \in [DOMAIN pushers[i].counters -> Nat]
  BY <1>1 DEF Pushers, Values
<1>7. ASSUME NEW i \in 1..Global PROVE Within(pushers'[i].counters, d)
  <2>1. CASE i = Global
    BY <1>2, <1>5, <2>1
  <2>2. CASE i # Global
    <3>1. Within(pushers[i].counters, counted)
      BY DEF CountControl
    <3>2. Within(pushers[i].counters, d)
      BY <1>6, <3>1 DEF Within, Keeps, MetricsTyped
    <3> QED BY <1>5, <2>2, <3>2
  <2> QED BY <2>1, <2>2
<1>8. CountControl'
  BY <1>4, <1>7 DEF CountControl
<1>9. PushControl'
  <2>1. CASE lastPusher = 0
    BY <2>1 DEF PushControl
  <2>2. CASE lastPusher # 0 /\ lastPusher # Global
    <3>1. lastPusher \in 1..Global
      BY <1>1, <2>2 DEF MadeControl
    <3> QED BY <1>5, <2>2, <3>1 DEF PushControl
  <2>3. CASE lastPusher # 0 /\ lastPusher = Global
    <3>1. Within(gateway.counters, Pusher.counters)
      BY <2>3 DEF PushControl, Pusher
    <3>2. gateway.counters \in Values(CounterNames)
          /\ Pusher.counters \in Values(CounterNames)
          /\ q.counters \in Values(CounterNames)
      BY <1>1, <1>2 DEF MetricsTyped, Pushers
    <3>3. Within(gateway.counters, q.counters)
      BY <1>2, <3>1, <3>2 DEF Within, Values
    <3>4. pushers'[lastPusher] = q
      BY <1>1, <1>5, <2>3
    <3> QED BY <2>3, <3>3, <3>4 DEF PushControl
  <2> QED BY <2>1, <2>2, <2>3
<1> QED BY <1>3, <1>4, <1>8, <1>9 DEF Keeps
-----------------------------------------------------------------------------
(* The steps of the metrics *)

\* A sign that succeeds
LEMMA SignSucceedsKeeps ==
  ASSUME MetricsInv, SignSucceeds(counted["kms_success"] + 1)
  PROVE  MetricsInv'
<1> USE DEF MetricsInv
<1> PICK now \in Nat : now = counted["kms_success"] + 1
  BY DEF MetricsTyped, CounterNames
<1> PICK q : q = IncrCounter(SetGauge(ObserveHistogram(Pusher, "kms_latency"),
                                      "kms_lastSuccess", now), "kms_success", 1)
  OBVIOUS
<1> PICK d : d = [counted EXCEPT !["kms_success"] = @ + 1]
  OBVIOUS
<1>1. pushers' = [pushers EXCEPT ![Global] = q] /\ counted' = d
  BY DEF SignSucceeds, Pusher
<1>2. Keeps(q, d)
  <2>1. Pusher \in Pushers /\ Within(Pusher.counters, counted)
    BY GlobalIs DEF CountControl, Pusher
  <2>2. Counts(Pusher, q, d)
    BY <2>1, SignedIs DEF MetricsTyped
  <2> QED BY <2>2 DEF Keeps, MetricsTyped, CounterNames
<1>3. UNCHANGED <<made, registering, running, gateway, lastPusher, ctxDone, pushBudget, uncounted>>
  BY DEF SignSucceeds
<1>4. /\ pushers' \in Seq(Pushers) /\ Global' = Global
      /\ counted' \in [CounterNames -> Nat] /\ CountControl' /\ PushControl'
  BY <1>1, <1>2, <1>3, GlobalChanges
<1> QED BY <1>3, <1>4 DEF MetricsTyped, MadeControl

\* A sign that fails
LEMMA SignFailsKeeps ==
  ASSUME MetricsInv, NEW name \in CounterNames, SignFails(name)
  PROVE  MetricsInv'
<1> USE DEF MetricsInv
<1> PICK q : q = IncrCounter(Pusher, name, 1)
  OBVIOUS
<1> PICK d : d = [counted EXCEPT ![name] = @ + 1]
  OBVIOUS
<1>1. pushers' = [pushers EXCEPT ![Global] = q] /\ counted' = d
  BY DEF SignFails, Pusher
<1>2. Keeps(q, d)
  <2>1. Pusher \in Pushers /\ Within(Pusher.counters, counted)
    BY GlobalIs DEF CountControl, Pusher
  <2>2. Counts(Pusher, q, d)
    BY <2>1, IncrCounterIs DEF MetricsTyped
  <2> QED BY <2>2 DEF Keeps, MetricsTyped
<1>3. UNCHANGED <<made, registering, running, gateway, lastPusher, ctxDone, pushBudget, uncounted>>
  BY DEF SignFails
<1>4. /\ pushers' \in Seq(Pushers) /\ Global' = Global
      /\ counted' \in [CounterNames -> Nat] /\ CountControl' /\ PushControl'
  BY <1>1, <1>2, <1>3, GlobalChanges
<1> QED BY <1>3, <1>4 DEF MetricsTyped, MadeControl

\* RunPusher's new pusher has no counter that could be ahead.
LEMMA SetPusherKeeps ==
  ASSUME MetricsInv, SetPusher
  PROVE  MetricsInv'
<1> USE DEF MetricsInv, SetPusher
<1>1. /\ Global \in 1..3 /\ Global = Len(pushers)
      /\ \A i \in 1..Global : pushers[i] \in Pushers
  BY GlobalIs
<1>2. NewPusher \in Pushers /\ DOMAIN NewPusher.counters = {}
  BY NewPusherIs
<1>3. pushers' \in Seq(Pushers) /\ Global' = Global + 1
  BY <1>1, <1>2 DEF MetricsTyped, Global
<1>4. \A i \in 1..Global' : pushers'[i] = IF i = Global' THEN NewPusher ELSE pushers[i]
  BY <1>1, <1>3 DEF MetricsTyped
<1>5. MetricsTyped'
  BY <1>3 DEF MetricsTyped
<1>6. MadeControl'
  BY <1>1, <1>3 DEF MadeControl
<1>7. CountControl'
  BY <1>1, <1>2, <1>3, <1>4 DEF CountControl, Within
<1>8. PushControl'
  <2>1. CASE lastPusher = 0
    BY <2>1 DEF PushControl
  <2>2. CASE lastPusher # 0
    <3>1. lastPusher \in 1..Global /\ lastPusher # Global'
      BY <1>1, <1>3, <2>2 DEF MadeControl
    <3> QED BY <1>1, <1>3, <1>4, <2>2, <3>1 DEF PushControl
  <2> QED BY <2>1, <2>2
<1> QED BY <1>5, <1>6, <1>7, <1>8

\* RunPusher's names start from 0.
LEMMA RegisterNamesKeeps ==
  ASSUME MetricsInv, RegisterNames
  PROVE  MetricsInv'
<1> USE DEF MetricsInv, RegisterNames
<1> PICK q : q = Registered(Pusher)
  OBVIOUS
<1> PICK d : d = counted
  OBVIOUS
<1>1. pushers' = [pushers EXCEPT ![Global] = q] /\ counted' = d
  BY DEF Pusher
<1>2. Keeps(q, d)
  <2>1. Pusher \in Pushers /\ Within(Pusher.counters, counted)
    BY GlobalIs DEF CountControl, Pusher
  <2>2. Counts(Pusher, q, d)
    BY <2>1, RegisteredIs DEF MetricsTyped
  <2> QED BY <2>2 DEF Keeps, MetricsTyped
<1>3. /\ pushers' \in Seq(Pushers) /\ Global' = Global
      /\ counted' \in [CounterNames -> Nat] /\ CountControl' /\ PushControl'
  BY <1>1, <1>2, GlobalChanges
<1>4. MetricsTyped'
  BY <1>3 DEF MetricsTyped
<1>5. MadeControl'
  <2>1. /\ \/ made = "config" /\ Global = 2 /\ made' = "pool"
           \/ made = "pool" /\ Global = 3 /\ made' = "controller"
        /\ registering' = FALSE
    BY DEF MadeControl
  <2>2. running' \subseteq 2..Global
    <3>1. running \subseteq 2..Global /\ Global \in 2..Global
      BY <2>1 DEF MadeControl
    <3> QED BY <3>1
  <2>3. lastPusher' \in {0} \cup 2..Global
    BY DEF MadeControl
  <2> QED BY <1>3, <2>1, <2>2, <2>3 DEF MadeControl
<1> QED BY <1>3, <1>4, <1>5

\* A push copies a pusher, and only running ones push.
LEMMA PushKeeps ==
  ASSUME MetricsInv, NEW p \in 1..Global, Push(p)
  PROVE  MetricsInv'
<1> USE DEF MetricsInv, Push
<1>1. Global' = Global /\ pushers[p] \in Pushers /\ p # 0
  BY GlobalIs DEF Global
<1>2. MetricsTyped'
  BY <1>1 DEF MetricsTyped
<1>3. MadeControl'
  BY <1>1 DEF MadeControl
<1>4. CountControl'
  BY <1>1 DEF CountControl
<1>5. \A n \in DOMAIN pushers[p].counters : pushers[p].counters[n] \in Nat
  BY <1>1 DEF Pushers, Values
<1>6. PushControl'
  BY <1>1, <1>5 DEF PushControl, Within
<1> QED BY <1>2, <1>3, <1>4, <1>6

\* A failed push and the end of a pusher change no value.
LEMMA QuietKeeps ==
  ASSUME MetricsInv,
         CancelPushers \/ \E p \in 1..Global : PushFails(p) \/ StopPusher(p)
  PROVE  MetricsInv'
<1> USE DEF CancelPushers, PushFails, StopPusher
<1>1. /\ UNCHANGED <<pushers, made, registering, gateway, lastPusher, counted, uncounted>>
      /\ running' \subseteq running
  OBVIOUS
<1>2. ctxDone' \in BOOLEAN
  BY DEF MetricsInv, MetricsTyped
<1>3. pushBudget' \in 0..PushBudget
  BY MetricsAssumption DEF MetricsInv, MetricsTyped
<1>4. Global' = Global
  BY <1>1 DEF Global
<1> QED BY <1>1, <1>2, <1>3, <1>4
        DEF MetricsInv, MetricsTyped, MadeControl, CountControl, PushControl

\* The metrics that do not change
LEMMA StutterKeeps ==
  ASSUME MetricsInv, UNCHANGED metricsVars
  PROVE  MetricsInv'
<1>1. Global' = Global
  BY DEF Global, metricsVars
<1> QED BY <1>1 DEF metricsVars, MetricsInv, MetricsTyped, MadeControl, CountControl, PushControl

\* Every step of the construction and of the pushers keeps the invariant.
LEMMA MetricsStepKeeps ==
  ASSUME MetricsInv, MetricsStep
  PROVE  MetricsInv'
BY SetPusherKeeps, RegisterNamesKeeps, PushKeeps, QuietKeeps DEF MetricsStep
-----------------------------------------------------------------------------
(* The steps of the senders *)

\* The first call of fn
LEMMA EstimateKeeps ==
  ASSUME SigningInv, NEW s \in Senders, Estimate(s)
  PROVE  SigningInv'
<1>1. MetricsInv'
  BY SignSucceedsKeeps DEF SigningInv, Estimate
<1>2. SenderTyped' /\ GasControl'
  <2>1. PICK g \in Estimates, r \in Ratios :
          /\ estimate' = [estimate EXCEPT ![s] = g] /\ ratio' = [ratio EXCEPT ![s] = r]
          /\ gasLimit' = [gasLimit EXCEPT ![s] = Raised(g, r)]
    BY DEF Estimate
  <2>2. g \in Nat /\ r \in Nat
    BY SigningAssumption
  <2>3. Raised(g, r) \in 0..(Word - 1)
    BY <2>2, RaisedType
  <2>4. PICK raised : raised = Raised(g, r)
    OBVIOUS
  <2>5. sender' = [sender EXCEPT ![s] = "estimated"]
    BY DEF Estimate
  <2>6. SenderTyped'
    BY <2>1, <2>3, <2>4, <2>5 DEF SigningInv, SenderTyped
  <2>7. \A t \in Senders : t # s =>
          /\ sender'[t] = sender[t] /\ ratio'[t] = ratio[t]
          /\ estimate'[t] = estimate[t] /\ gasLimit'[t] = gasLimit[t]
    BY <2>1, <2>5 DEF SigningInv, SenderTyped
  <2>8. gasLimit'[s] = Raised(g, r) /\ estimate'[s] = g /\ ratio'[s] = r
    BY <2>1 DEF SigningInv, SenderTyped
  <2>9. GasControl'
    BY <2>7, <2>8 DEF SigningInv, GasControl, Raised
  <2> QED BY <2>6, <2>9
<1> QED BY <1>1, <1>2 DEF SigningInv

\* The second call of fn: a limit of 0 gives way to a second estimate.
LEMMA SendKeeps ==
  ASSUME SigningInv, NEW s \in Senders, Send(s)
  PROVE  SigningInv'
<1>1. MetricsInv'
  BY SignSucceedsKeeps DEF SigningInv, Send
<1>2. sender[s] = "estimated" /\ sender' = [sender EXCEPT ![s] = "sent"] /\ UNCHANGED ratio
  BY DEF Send
<1>3. \A t \in Senders : t # s => sender'[t] = sender[t]
  BY <1>2 DEF SigningInv, SenderTyped
<1>4. CASE UNCHANGED <<estimate, gasLimit>>
  BY <1>1, <1>2, <1>3, <1>4 DEF SigningInv, SenderTyped, GasControl, Raised
<1>5. CASE ~UNCHANGED <<estimate, gasLimit>>
  <2>1. PICK g \in Estimates : /\ estimate' = [estimate EXCEPT ![s] = g]
                               /\ gasLimit' = [gasLimit EXCEPT ![s] = g]
    BY <1>5 DEF Send
  <2>2. g \in 0..(Word - 1)
    BY SigningAssumption
  <2>3. SenderTyped'
    BY <1>2, <2>1, <2>2 DEF SigningInv, SenderTyped
  <2>4. /\ gasLimit'[s] = g /\ estimate'[s] = g
        /\ \A t \in Senders : t # s => estimate'[t] = estimate[t] /\ gasLimit'[t] = gasLimit[t]
    BY <2>1 DEF SigningInv, SenderTyped
  <2>5. GasControl'
    BY <1>2, <1>3, <2>4 DEF SigningInv, GasControl, Raised
  <2> QED BY <1>1, <2>3, <2>5 DEF SigningInv
<1> QED BY <1>4, <1>5

\* An error of the key's server or of the node
LEMMA ReturnKeeps ==
  ASSUME SigningInv, NEW s \in Senders, SignRefused(s) \/ NodeFails(s)
  PROVE  SigningInv'
<1>1. MetricsInv'
  BY SignSucceedsKeeps, SignFailsKeeps, StutterKeeps
  DEF SigningInv, SignRefused, NodeFails, CounterNames
<1>2. Return(s)
  BY DEF SignRefused, NodeFails
<1>3. 0 \in 0..(Word - 1)
  BY SigningAssumption
<1>4. SenderTyped'
  BY <1>2, <1>3 DEF Return, SigningInv, SenderTyped
<1>5. GasControl'
  BY <1>2 DEF Return, SigningInv, SenderTyped, GasControl, Raised
<1> QED BY <1>1, <1>4, <1>5 DEF SigningInv
-----------------------------------------------------------------------------
(* The specification *)

\* One pusher, without names, and no sender under way
LEMMA InitInv == Init => SigningInv
<1> SUFFICES ASSUME Init PROVE SigningInv
  OBVIOUS
<1> USE DEF Init, MetricsInit
<1>1. NewPusher \in Pushers /\ DOMAIN NewPusher.counters = {}
  BY NewPusherIs
<1>2. Global = 1 /\ pushers[1] = NewPusher
  BY DEF Global
<1>3. MetricsTyped
  <2>1. pushers \in Seq(Pushers)
    BY <1>1
  <2>2. pushBudget \in 0..PushBudget
    BY MetricsAssumption
  <2>3. NoCount \in [CounterNames -> Nat]
    BY DEF NoCount
  <2> QED BY <1>1, <2>1, <2>2, <2>3 DEF MetricsTyped
<1>4. MadeControl
  BY <1>2 DEF MadeControl
<1>5. CountControl /\ PushControl
  BY <1>1, <1>2 DEF CountControl, PushControl, Within
<1>6. SenderTyped /\ GasControl
  BY SigningAssumption DEF SenderTyped, GasControl
<1> QED BY <1>3, <1>4, <1>5, <1>6 DEF SigningInv, MetricsInv

\* One lemma per kind of step
LEMMA NextInv == SigningInv /\ [Next]_signingVars => SigningInv'
<1> SUFFICES ASSUME SigningInv, [Next]_signingVars PROVE SigningInv'
  OBVIOUS
<1>1. ASSUME MetricsStep \/ UNCHANGED metricsVars,
             UNCHANGED <<sender, ratio, estimate, gasLimit>>
      PROVE  SigningInv'
  <2>1. MetricsInv'
    BY <1>1, MetricsStepKeeps, StutterKeeps DEF SigningInv
  <2> QED BY <1>1, <2>1 DEF SigningInv, SenderTyped, GasControl, Raised
<1>2. CASE \E s \in Senders : Estimate(s) \/ Send(s) \/ SignRefused(s) \/ NodeFails(s)
  BY <1>2, EstimateKeeps, SendKeeps, ReturnKeeps
<1> QED BY <1>1, <1>2 DEF Next, signingVars

\* The pushers, their counts and the gas limits are related as above in all states.
THEOREM Invariance == Spec => []SigningInv
BY InitInv, NextInv, PTL DEF Spec

\* All values keep their types, a name stays in the map of its kind, and there are
\* never more than three pushers.
THEOREM TypeCorrectness == Spec => []TypeOK
<1>1. SigningInv => TypeOK
  <2> SUFFICES ASSUME SigningInv PROVE TypeOK
    OBVIOUS
  <2> USE DEF SigningInv, MetricsInv
  <2>1. Global \in 1..3 /\ \A i \in 1..Global : pushers[i] \in Pushers
    BY GlobalIs
  <2>2. \A i \in 1..Global : /\ DOMAIN pushers[i].counters \subseteq CounterNames
                             /\ DOMAIN pushers[i].gauges \subseteq GaugeNames
                             /\ DOMAIN pushers[i].histograms \subseteq HistogramNames
    BY <2>1 DEF Pushers, Values
  <2>3. MetricsTypeOK
    BY <2>1, <2>2 DEF MetricsTyped, MadeControl, MetricsTypeOK
  <2> QED BY <2>3 DEF SenderTyped, TypeOK
<1> QED BY <1>1, Invariance, PTL

\* No counter at the gateway is above what has happened, though two goroutines
\* push two registries: each registry is pushed whole, and is never ahead.
THEOREM GatewayNeverOvercounts == Spec => []NeverOvercounts
<1>1. SigningInv => NeverOvercounts
  <2> SUFFICES ASSUME SigningInv, NEW n \in DOMAIN gateway.counters
               PROVE  gateway.counters[n] <= counted[n]
    BY DEF NeverOvercounts
  <2> USE DEF SigningInv, MetricsInv
  <2>1. lastPusher \in 1..Global
    BY GlobalIs DEF PushControl, MadeControl
  <2>2. pushers[lastPusher] \in Pushers /\ gateway \in Pushers
    BY <2>1, GlobalIs DEF MetricsTyped
  <2>3. /\ Within(gateway.counters, pushers[lastPusher].counters)
        /\ Within(pushers[lastPusher].counters, counted)
    BY <2>1 DEF PushControl, CountControl
  <2>4. n \in CounterNames /\ counted[n] \in Nat
    BY <2>2 DEF Pushers, Values, MetricsTyped
  <2>5. gateway.counters[n] \in Nat
    BY <2>2 DEF Pushers, Values
  <2>6. /\ n \in DOMAIN pushers[lastPusher].counters
        /\ pushers[lastPusher].counters[n] \in Nat
    BY <2>2, <2>3 DEF Pushers, Values, Within
  <2> QED BY <2>3, <2>4, <2>5, <2>6 DEF Within
<1> QED BY <1>1, Invariance, PTL

\* A counter at the gateway falls only when another pusher pushes than the last
\* time: no sign makes a pusher's counter less.
THEOREM OnePusherNeverFalls == Spec => FallsBetweenPushers
<1> DEFINE Falls == \A n \in DOMAIN gateway.counters :
                      (n \in DOMAIN gateway'.counters
                         => gateway'.counters[n] < gateway.counters[n])
                      => lastPusher' # lastPusher
<1>1. SigningInv /\ [Next]_signingVars => [Falls]_gateway
  <2> SUFFICES ASSUME SigningInv, [Next]_signingVars, gateway' # gateway,
                      NEW n \in DOMAIN gateway.counters,
                      n \in DOMAIN gateway'.counters
                        => gateway'.counters[n] < gateway.counters[n],
                      lastPusher' = lastPusher
               PROVE  FALSE
    OBVIOUS
  <2> USE DEF SigningInv, MetricsInv
  <2>1. PICK p \in 1..Global : Push(p)
    <3> USE DEF signingVars, metricsVars
    <3>1. CASE \E s \in Senders : Estimate(s) \/ Send(s) \/ SignRefused(s) \/ NodeFails(s)
      BY <3>1 DEF Estimate, Send, SignRefused, NodeFails, SignSucceeds, SignFails
    <3>2. CASE MetricsStep
      BY <3>2 DEF MetricsStep, SetPusher, RegisterNames, CancelPushers, PushFails, StopPusher
    <3> QED BY <3>1, <3>2 DEF Next
  <2>2. gateway' = pushers[p] /\ p = lastPusher /\ p # 0
    BY <2>1 DEF Push
  <2>3. Within(gateway.counters, pushers[p].counters)
    BY <2>2 DEF PushControl
  <2>4. pushers[p] \in Pushers /\ gateway \in Pushers
    BY GlobalIs DEF MetricsTyped
  <2>5. n \in DOMAIN pushers[p].counters /\ gateway.counters[n] <= pushers[p].counters[n]
    BY <2>3 DEF Within
  <2>6. gateway.counters[n] \in Nat /\ pushers[p].counters[n] \in Nat
    BY <2>4, <2>5 DEF Pushers, Values
  <2> QED BY <2>2, <2>5, <2>6
<1> QED BY <1>1, Invariance, PTL DEF Spec, FallsBetweenPushers

\* A transaction that was sent has at least the gas estimated for it, unless the
\* ratio asks for less or the product has wrapped around (utils/main.go:202).
THEOREM SendsWithEnoughGas == Spec => []SentWithEnoughGas
<1>1. SigningInv => SentWithEnoughGas
  <2> SUFFICES ASSUME SigningInv, NEW s \in Senders, sender[s] = "sent",
                      gasLimit[s] < estimate[s]
               PROVE  ratio[s] < Percentage \/ estimate[s] * ratio[s] >= Word
    BY DEF SentWithEnoughGas
  <2>1. estimate[s] \in Nat /\ ratio[s] \in Nat
    <3>1. Estimates \cup {0} \subseteq Nat /\ Ratios \cup {0} \subseteq Nat
      BY SigningAssumption
    <3>2. estimate[s] \in Estimates \cup {0} /\ ratio[s] \in Ratios \cup {0}
      BY DEF SigningInv, SenderTyped
    <3> QED BY <3>1, <3>2, Zenon
  <2>2. gasLimit[s] = Raised(estimate[s], ratio[s])
    BY <2>1 DEF SigningInv, GasControl
  <2>3. estimate[s] * ratio[s] \in Nat
    BY <2>1, Product
  <2> PICK g \in Nat : g = estimate[s]
    BY <2>1
  <2> PICK r \in Nat : r = ratio[s]
    BY <2>1
  <2>4. ASSUME r >= Percentage, g * r < Word PROVE FALSE
    <3>1. Raised(g, r) >= g /\ Raised(g, r) \in 0..(Word - 1)
      BY <2>4, RaisedEnough, RaisedType
    <3>2. Raised(g, r) < g
      BY <2>2
    <3> QED BY <3>1, <3>2, SigningAssumption
  <2> QED BY <2>3, <2>4, SigningAssumption
<1> QED BY <1>1, Invariance, PTL
=============================================================================
