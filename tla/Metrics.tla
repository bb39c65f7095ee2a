------------------------------ MODULE Metrics ------------------------------
(***************************************************************************)
(* The metrics (metrics.go) and their pusher (adapters/prometheus): a      *)
(* global Pusher, which RunPusher replaces by a new one before it          *)
(* registers the names and starts a goroutine that pushes all values to a  *)
(* gateway.  A controller calls RunPusher twice, in NewPool and in         *)
(* NewWithContext, so two goroutines push two registries to one place.     *)
(*                                                                         *)
(* Of the names those are kept that this repository changes (sign.go).     *)
(* Labels and descriptions are left out.                                   *)
(***************************************************************************)
EXTENDS Naturals, Sequences

CONSTANTS PushBudget  \* how many pushes fail (bound)

ASSUME MetricsAssumption == PushBudget \in Nat

VARIABLES
  pushers,     \* all pushers made; the last one is the global Pusher
  made,        \* where the construction of the controller is
  registering, \* RunPusher has set Pusher and not registered its names yet
  running,     \* the pushers whose Start runs
  gateway,     \* the values of the last push
  ctxDone, pushBudget,
  lastPusher,  \* history: the pusher that pushed last
  counted,     \* history, per counter: how often it was to be incremented
  uncounted    \* history: counted, when the global Pusher was set up

metricsVars ==
  <<pushers, made, registering, running, gateway, lastPusher, ctxDone, pushBudget,
    counted, uncounted>>
-----------------------------------------------------------------------------
(* Pusher *)

CounterNames == {"kms_success", "kms_failure_network", "kms_failure_internal"}
GaugeNames == {"kms_lastSuccess"}
HistogramNames == {"kms_latency"}

NewPusher ==
  LET none == [n \in {} |-> 0] IN [counters |-> none, gauges |-> none, histograms |-> none]

\* A name that is there already is left alone.
AddName(m, name) ==
  [n \in DOMAIN m \cup {name} |-> IF n \in DOMAIN m THEN m[n] ELSE 0]

AddCounter(p, name) == [p EXCEPT !.counters = AddName(@, name)]

\* Variant: into the wrong map.
AddGaugeToCounters(p, name) == [p EXCEPT !.counters = AddName(@, name)]

AddGauge(p, name) == [p EXCEPT !.gauges = AddName(@, name)]
AddHistogram(p, name) == [p EXCEPT !.histograms = AddName(@, name)]

\* Of a name that was not initialized an error is returned, which sign.go ignores.
IncrCounter(p, name, value) ==
  IF name \in DOMAIN p.counters THEN [p EXCEPT !.counters[name] = @ + value] ELSE p
SetGauge(p, name, value) ==
  IF name \in DOMAIN p.gauges THEN [p EXCEPT !.gauges[name] = value] ELSE p
\* A histogram by its number of observations
ObserveHistogram(p, name) ==
  IF name \in DOMAIN p.histograms THEN [p EXCEPT !.histograms[name] = @ + 1] ELSE p

Global == Len(pushers)
Pusher == pushers[Global]
-----------------------------------------------------------------------------
(* RunPusher *)

Registered(p) ==
  LET c1 == AddCounter(p, "kms_success")
      c2 == AddCounter(c1, "kms_failure_network")
      c3 == AddCounter(c2, "kms_failure_internal")
  IN AddGauge(AddHistogram(c3, "kms_latency"), "kms_lastSuccess")

\* Pusher = prometheus.NewPusher()
SetPusher ==
  /\ made \in {"config", "pool"} /\ ~registering
  /\ pushers' = Append(pushers, NewPusher) /\ registering' = TRUE
  /\ UNCHANGED <<made, running, gateway, lastPusher, ctxDone, pushBudget, counted, uncounted>>

\* Variant: no goroutine for a second pusher.
RegisterNamesOnly ==
  /\ registering /\ registering' = FALSE
  /\ pushers' = [pushers EXCEPT ![Global] = Registered(@)]
  /\ running' = (IF running = {} THEN {Global} ELSE running) /\ uncounted' = counted
  /\ made' = IF made = "config" THEN "pool" ELSE "controller"
  /\ UNCHANGED <<gateway, lastPusher, ctxDone, pushBudget, counted>>

\* The names are registered; go Pusher.Start(ctx).
RegisterNames ==
  /\ registering /\ registering' = FALSE
  /\ pushers' = [pushers EXCEPT ![Global] = Registered(@)]
  /\ running' = running \cup {Global} /\ uncounted' = counted
  /\ made' = IF made = "config" THEN "pool" ELSE "controller"
  /\ UNCHANGED <<gateway, lastPusher, ctxDone, pushBudget, counted>>
-----------------------------------------------------------------------------
(* Pusher.Start *)

\* Variant: what was pushed is counted from 0 again.
PushAndReset(p) ==
  /\ p \in running /\ gateway' = pushers[p] /\ lastPusher' = p
  /\ pushers' = [pushers EXCEPT ![p].counters = [n \in DOMAIN @ |-> 0]]
  /\ UNCHANGED <<made, registering, running, ctxDone, pushBudget, counted, uncounted>>

\* case <-ticker.C, which may be taken once more after ctx is done
Push(p) ==
  /\ p \in running /\ gateway' = pushers[p] /\ lastPusher' = p
  /\ UNCHANGED <<pushers, made, registering, running, ctxDone, pushBudget, counted, uncounted>>

\* The gateway cannot be reached: the error is logged.
PushFails(p) ==
  /\ p \in running /\ pushBudget > 0 /\ pushBudget' = pushBudget - 1
  /\ UNCHANGED <<pushers, made, registering, running, gateway, lastPusher, ctxDone, counted, uncounted>>

\* case <-ctx.Done(): there is no last push.
StopPusher(p) ==
  /\ p \in running /\ ctxDone /\ running' = running \ {p}
  /\ UNCHANGED <<pushers, made, registering, gateway, lastPusher, ctxDone, pushBudget, counted, uncounted>>

CancelPushers ==
  /\ ~ctxDone /\ ctxDone' = TRUE
  /\ UNCHANGED <<pushers, made, registering, running, gateway, lastPusher, pushBudget, counted, uncounted>>
-----------------------------------------------------------------------------
(* KmsSign.Sign.  Nothing guards the maps: a sign while RunPusher registers  *)
(* its names may also end the program.                                     *)

\* The request was signed at the time now.
SignSucceeds(now) ==
  /\ pushers' = [pushers EXCEPT ![Global] =
       IncrCounter(SetGauge(ObserveHistogram(@, "kms_latency"), "kms_lastSuccess", now),
                   "kms_success", 1)]
  /\ counted' = [counted EXCEPT !["kms_success"] = @ + 1]
  /\ UNCHANGED <<made, registering, running, gateway, lastPusher, ctxDone, pushBudget, uncounted>>

\* Variant: the successful signs are counted before the error is looked at.
SignFailsCounted(name) ==
  /\ pushers' = [pushers EXCEPT ![Global] =
                   IncrCounter(IncrCounter(@, name, 1), "kms_success", 1)]
  /\ counted' = [counted EXCEPT ![name] = @ + 1]
  /\ UNCHANGED <<made, registering, running, gateway, lastPusher, ctxDone, pushBudget, uncounted>>

\* Access was denied, or the request failed in another way.
SignFails(name) ==
  /\ pushers' = [pushers EXCEPT ![Global] = IncrCounter(@, name, 1)]
  /\ counted' = [counted EXCEPT ![name] = @ + 1]
  /\ UNCHANGED <<made, registering, running, gateway, lastPusher, ctxDone, pushBudget, uncounted>>
-----------------------------------------------------------------------------
NoCount == [n \in CounterNames |-> 0]

\* init() of the package
MetricsInit ==
  /\ pushers = <<NewPusher>> /\ made = "config" /\ registering = FALSE
  /\ running = {} /\ gateway = NewPusher /\ lastPusher = 0
  /\ ctxDone = FALSE /\ pushBudget = PushBudget
  /\ counted = NoCount /\ uncounted = NoCount

MetricsStep ==
  \/ SetPusher \/ RegisterNames \/ CancelPushers
  \/ \E p \in 1..Global : Push(p) \/ PushFails(p) \/ StopPusher(p)
-----------------------------------------------------------------------------
(* Properties *)

\* Types; a name is in the map of its kind.
MetricsTypeOK ==
  /\ \A i \in 1..Global :
       /\ DOMAIN pushers[i].counters \subseteq CounterNames
       /\ DOMAIN pushers[i].gauges \subseteq GaugeNames
       /\ DOMAIN pushers[i].histograms \subseteq HistogramNames
  /\ made \in {"config", "pool", "controller"} /\ registering \in BOOLEAN
  /\ running \subseteq 2..Global /\ Global <= 3
  /\ lastPusher \in {0} \cup 2..Global
  /\ ctxDone \in BOOLEAN /\ pushBudget \in 0..PushBudget
  /\ {counted, uncounted} \subseteq [CounterNames -> Nat]

\* No counter at the gateway is above what has happened, whichever of the pushers
\* has pushed last.
NeverOvercounts ==
  \A n \in DOMAIN gateway.counters : gateway.counters[n] <= counted[n]

\* A counter at the gateway falls only when another pusher pushes than the last
\* time: the two that one controller starts undo each other's pushes
\* (controller.go:91, pool.go:101), one alone never does.
FallsBetweenPushers ==
  [][\A n \in DOMAIN gateway.counters :
       (n \in DOMAIN gateway'.counters => gateway'.counters[n] < gateway.counters[n])
       => lastPusher' # lastPusher]_gateway

\* Everything counted since the global pusher was set up shows at the gateway
\* some time, though pushes fail and the other pusher pushes too, unless the
\* context is done: nothing pushes the last values then (pusher.go:169).
CountsArrive ==
  \A n \in CounterNames, k \in 1..2 :
    made = "controller" /\ counted[n] - uncounted[n] >= k
    ~> ctxDone \/ (n \in DOMAIN gateway.counters /\ gateway.counters[n] >= k)
=============================================================================
