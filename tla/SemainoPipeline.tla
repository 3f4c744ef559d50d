-------------------------- MODULE SemainoPipeline --------------------------
(***************************************************************************)
(* The signal pipeline of semaino: SemainoPipeline::run and the three      *)
(* tasks it is made of.  The fan task drains the caller's broadcast into   *)
(* signal_rx; the main loop ingests each signal into the ConvergenceGrid   *)
(* and only then forwards it to the aggregator; the aggregator scores it   *)
(* and sends the notable ones back, which the main loop turns into alerts. *)
(* Every await is where one task's step ends and another's may begin.      *)
(*                                                                         *)
(* A score depends on the baselines the aggregator has learned, and is any *)
(* of the three outcomes here: "Normal" stands for every signal that is    *)
(* not forwarded.  Coordinates are the grid cell they quantize to, and an  *)
(* optional value is a set of at most one element.                         *)
(***************************************************************************)
EXTENDS Integers, Sequences, FiniteSets, SequencesExt

CONSTANTS
    Signal,             \* the signals the caller may broadcast
    Kind,               \* their domains (SignalKind)
    Cell,               \* grid cells
    KindOf,             \* KindOf[s]: the domain of s
    LocationOf,         \* LocationOf[s]: the cell of s, if it has a location
    TimeOf,             \* TimeOf[s]: its timestamp
    MinDomains,         \* SemainoConfig::min_convergence_domains
    Window,             \* SemainoConfig::time_window_secs
    SuppressionWindow,  \* SemainoConfig::suppression_window_secs
    MinPruneThreshold,  \* alert::MIN_PRUNE_THRESHOLD
    BroadcastCapacity,  \* of the caller's broadcast channel
    ChannelCapacity,    \* of the two mpsc channels (256)
    MaxNow              \* bound: the last tick of the clock

ASSUME SignalAssumption ==
    /\ IsFiniteSet(Signal) /\ IsFiniteSet(Kind)
    /\ KindOf \in [Signal -> Kind]
    /\ LocationOf \in [Signal -> {{}} \cup {{c} : c \in Cell}]
    /\ TimeOf \in [Signal -> Nat]

ASSUME ConfigAssumption ==
    /\ MinDomains \in Nat
    /\ Window \in Nat
    /\ SuppressionWindow \in Nat \ {0}
    /\ MinPruneThreshold \in Nat \ {0}
    /\ BroadcastCapacity \in Nat \ {0}
    /\ ChannelCapacity \in Nat \ {0}
    /\ MaxNow \in Nat

VARIABLES
    now,          \* Timestamp::now()
    broadcast,    \* the caller's broadcast, as the fan task still sees it
    closed,       \* the caller has dropped its sender
    fan,          \* the fan task: where it is and the signal it holds
    signals,      \* signal_tx/signal_rx
    main,         \* the main loop: where it is and the signal it holds
    inner,        \* inner_tx/inner_rx
    aggregator,   \* the aggregator task: "run" or "done"
    aggregated,   \* agg_tx/agg_rx, unbounded
    grid,         \* ConvergenceGrid: the timestamp in each cell's domain slots
    suppression,  \* AlertPipeline::suppression
    threshold,    \* AlertPipeline::prune_threshold
    published,    \* ghost: the signals the caller has broadcast
    order,        \* ghost: the signals the fan task received, in order
    ingested,     \* ghost: the signals the main loop has ingested
    scored,       \* ghost: the score the aggregator gave each signal
    outcomes      \* ghost: what process made of each aggregated signal

channels == <<broadcast, closed, signals, inner, aggregated>>
alerts == <<suppression, threshold>>
ghosts == <<published, order, ingested, scored, outcomes>>
vars == <<now, channels, fan, main, aggregator, grid, alerts, ghosts>>

NoHit == -1

Severity == {"Low", "Medium", "High", "Critical"}
AlertFingerprint ==
    [kind : Kind, cell : SUBSET Cell, severity : Severity]
AggregatedSignal == [signal : Signal, score : {"Elevated", "Anomalous"}]
Outcome ==
    [signal : Signal, fingerprint : AlertFingerprint, at : Nat, emitted : BOOLEAN]

-----------------------------------------------------------------------------
(* ConvergenceGrid *)

\* ingest: record replaces the slot of the signal's domain, whatever it holds.
ingest(g, s) ==
    [c \in Cell |-> [k \in Kind |->
        IF c \in LocationOf[s] /\ k = KindOf[s] THEN TimeOf[s] ELSE g[c][k]]]

evict(g, cutoff) ==
    [c \in Cell |-> [k \in Kind |-> IF g[c][k] < cutoff THEN NoHit ELSE g[c][k]]]

\* Mutant: every hit that is still in its slot counts.
within_window_any(g, c, cutoff) ==
    {k \in Kind : g[c][k] # NoHit}

within_window(g, c, cutoff) ==
    {k \in Kind : g[c][k] # NoHit /\ g[c][k] >= cutoff}

\* The domain_count of the convergence in the signal's own cell, if there is one.
detect_at(g, s) ==
    {n \in {Cardinality(within_window(g, c, now - Window)) : c \in LocationOf[s]} :
        n >= MinDomains}

-----------------------------------------------------------------------------
(* AlertPipeline *)

classify(score, convergence) ==
    IF score = "Anomalous"
      THEN IF \E n \in convergence : n >= 3 THEN "Critical" ELSE "High"
      ELSE IF convergence # {} THEN "Medium" ELSE "Low"

Suppressed(fp) ==
    fp \in DOMAIN suppression /\ now - suppression[fp] < SuppressionWindow

\* Mutant: the sweep keeps what it should drop.
Retained_inverted ==
    {fp \in DOMAIN suppression : now - suppression[fp] >= SuppressionWindow}

Retained ==
    {fp \in DOMAIN suppression : now - suppression[fp] < SuppressionWindow}

\* The map is swept when it has reached its threshold, which then becomes twice
\* its size.
prune_expired ==
    IF Cardinality(DOMAIN suppression) < threshold
      THEN [kept |-> DOMAIN suppression, threshold |-> threshold]
      ELSE [kept |-> Retained,
            threshold |-> IF 2 * Cardinality(Retained) > MinPruneThreshold
                            THEN 2 * Cardinality(Retained) ELSE MinPruneThreshold]

process(s, fp) ==
    /\ outcomes' = outcomes \cup
         {[signal |-> s, fingerprint |-> fp, at |-> now, emitted |-> ~Suppressed(fp)]}
    /\ IF Suppressed(fp)
         THEN UNCHANGED alerts
         ELSE /\ suppression' = [f \in prune_expired.kept \cup {fp} |->
                                    IF f = fp THEN now ELSE suppression[f]]
              /\ threshold' = prune_expired.threshold

-----------------------------------------------------------------------------
(* The caller and the clock *)

\* Each signal is broadcast once, not before its time.  A broadcast channel that
\* is full drops its oldest message: the receiver lags.
publish(s) ==
    /\ ~closed
    /\ s \notin published
    /\ TimeOf[s] <= now
    /\ published' = published \cup {s}
    /\ broadcast' = LET all == Append(broadcast, s)
                    IN IF Len(all) > BroadcastCapacity THEN Tail(all) ELSE all
    /\ UNCHANGED <<now, closed, fan, signals, main, inner, aggregator, aggregated, grid,
                   alerts, order, ingested, scored, outcomes>>

close ==
    /\ ~closed
    /\ closed' = TRUE
    /\ UNCHANGED <<now, broadcast, fan, signals, main, inner, aggregator, aggregated, grid,
                   alerts, ghosts>>

advance ==
    /\ now < MaxNow
    /\ now' = now + 1
    /\ UNCHANGED <<channels, fan, main, aggregator, grid, alerts, ghosts>>

-----------------------------------------------------------------------------
(* The fan task *)

fan_recv ==
    /\ fan = <<"recv">>
    /\ broadcast # << >>
    /\ fan' = <<"send", Head(broadcast)>>
    /\ broadcast' = Tail(broadcast)
    /\ order' = Append(order, Head(broadcast))
    /\ UNCHANGED <<now, closed, signals, main, inner, aggregator, aggregated, grid, alerts,
                   published, ingested, scored, outcomes>>

\* Mutant: the aggregator is fed here as well (#224), past the main loop.
fan_send_both ==
    /\ fan[1] = "send"
    /\ Len(signals) < ChannelCapacity
    /\ Len(inner) < ChannelCapacity
    /\ signals' = Append(signals, fan[2])
    /\ inner' = Append(inner, fan[2])
    /\ fan' = <<"recv">>
    /\ UNCHANGED <<now, broadcast, closed, main, aggregator, aggregated, grid, alerts, ghosts>>

fan_send ==
    /\ fan[1] = "send"
    /\ Len(signals) < ChannelCapacity
    /\ signals' = Append(signals, fan[2])
    /\ fan' = <<"recv">>
    /\ UNCHANGED <<now, broadcast, closed, main, inner, aggregator, aggregated, grid, alerts,
                   ghosts>>

\* The broadcast is closed and drained: the task ends and drops signal_tx.
fan_exit ==
    /\ fan = <<"recv">>
    /\ closed
    /\ broadcast = << >>
    /\ fan' = <<"done">>
    /\ UNCHANGED <<now, channels, main, aggregator, grid, alerts, ghosts>>

-----------------------------------------------------------------------------
(* The main loop *)

\* The signal branch of the select, up to the send to the aggregator: ingest,
\* then evict what has left the window.
main_ingest ==
    /\ main = <<"select">>
    /\ signals # << >>
    /\ signals' = Tail(signals)
    /\ grid' = evict(ingest(grid, Head(signals)), now - Window)
    /\ ingested' = ingested \cup {Head(signals)}
    /\ main' = <<"forward", Head(signals)>>
    /\ UNCHANGED <<now, broadcast, closed, fan, inner, aggregator, aggregated, alerts,
                   published, order, scored, outcomes>>

main_forward ==
    /\ main[1] = "forward"
    /\ Len(inner) < ChannelCapacity
    /\ inner' = Append(inner, main[2])
    /\ main' = <<"select">>
    /\ UNCHANGED <<now, broadcast, closed, fan, signals, aggregator, aggregated, grid,
                   alerts, ghosts>>

\* The other branch of the select, and the body of the final drain.  The signal
\* is ingested once more before its cell is looked at.
handle_aggregated ==
    /\ main[1] \in {"select", "drain"}
    /\ aggregated # << >>
    /\ aggregated' = Tail(aggregated)
    /\ LET s == Head(aggregated).signal
       IN /\ grid' = ingest(grid, s)
          /\ process(s, [kind |-> KindOf[s], cell |-> LocationOf[s],
                         severity |-> classify(Head(aggregated).score, detect_at(grid', s))])
    /\ UNCHANGED <<now, broadcast, closed, fan, signals, main, inner, aggregator,
                   published, order, ingested, scored>>

\* Mutant: agg_rx is dropped instead of drained (#232).
main_break_discards ==
    /\ main = <<"select">>
    /\ signals = << >>
    /\ fan = <<"done">>
    /\ main' = <<"done">>
    /\ UNCHANGED <<now, channels, fan, aggregator, grid, alerts, ghosts>>

\* signal_rx is closed and empty: the loop ends and drops inner_tx.
main_break ==
    /\ main = <<"select">>
    /\ signals = << >>
    /\ fan = <<"done">>
    /\ main' = <<"drain">>
    /\ UNCHANGED <<now, channels, fan, aggregator, grid, alerts, ghosts>>

\* agg_tx is dropped and agg_rx is empty: run returns.
main_exit ==
    /\ main = <<"drain">>
    /\ aggregated = << >>
    /\ aggregator = "done"
    /\ main' = <<"done">>
    /\ UNCHANGED <<now, channels, fan, aggregator, grid, alerts, ghosts>>

-----------------------------------------------------------------------------
(* The aggregator task *)

\* Mutant: the output channel is bounded like the input.
Room_bounded ==
    Len(aggregated) < ChannelCapacity

\* The output is unbounded (#232): sending never waits.
Room ==
    TRUE

\* Mutant: every score is forwarded.
Notable_any(score) ==
    TRUE

\* is_notable
Notable(score) ==
    score \in {"Elevated", "Anomalous"}

aggregator_score(score) ==
    /\ aggregator = "run"
    /\ inner # << >>
    /\ Room
    /\ inner' = Tail(inner)
    /\ aggregated' = IF Notable(score)
                       THEN Append(aggregated, [signal |-> Head(inner), score |-> score])
                       ELSE aggregated
    /\ scored' = [scored EXCEPT ![Head(inner)] = score]
    /\ UNCHANGED <<now, broadcast, closed, fan, signals, main, aggregator, grid, alerts,
                   published, order, ingested, outcomes>>

aggregator_exit ==
    /\ aggregator = "run"
    /\ inner = << >>
    /\ main[1] \in {"drain", "done"}
    /\ aggregator' = "done"
    /\ UNCHANGED <<now, channels, fan, main, grid, alerts, ghosts>>

-----------------------------------------------------------------------------
Init ==
    /\ now = 0
    /\ broadcast = << >>
    /\ closed = FALSE
    /\ fan = <<"recv">>
    /\ signals = << >>
    /\ main = <<"select">>
    /\ inner = << >>
    /\ aggregator = "run"
    /\ aggregated = << >>
    /\ grid = [c \in Cell |-> [k \in Kind |-> NoHit]]
    /\ suppression = << >>
    /\ threshold = MinPruneThreshold
    /\ published = {}
    /\ order = << >>
    /\ ingested = {}
    /\ scored = [s \in Signal |-> "None"]
    /\ outcomes = {}

Fan == fan_recv \/ fan_send \/ fan_exit

Main == main_ingest \/ main_forward \/ handle_aggregated \/ main_break \/ main_exit

Aggregator ==
    \/ \E score \in {"Normal", "Elevated", "Anomalous"} : aggregator_score(score)
    \/ aggregator_exit

Next ==
    \/ \E s \in Signal : publish(s)
    \/ close
    \/ advance
    \/ Fan
    \/ Main
    \/ Aggregator

Spec == Init /\ [][Next]_vars

\* The runtime polls every task that can make a step.
Fairness == WF_vars(Fan) /\ WF_vars(Main) /\ WF_vars(Aggregator)

FairSpec == Spec /\ Fairness

-----------------------------------------------------------------------------
(* Properties *)

Task(names) == {<<n>> : n \in names}

\* Every variable has its type: only notable scores reach agg_rx, and every slot of
\* the grid holds a timestamp or nothing.
TypeOK ==
    /\ now \in Nat
    /\ broadcast \in Seq(Signal)
    /\ closed \in BOOLEAN
    /\ fan \in Task({"recv", "done"}) \cup ({"send"} \X Signal)
    /\ signals \in Seq(Signal)
    /\ main \in Task({"select", "drain", "done"}) \cup ({"forward"} \X Signal)
    /\ inner \in Seq(Signal)
    /\ aggregator \in {"run", "done"}
    /\ aggregated \in Seq(AggregatedSignal)
    /\ grid \in [Cell -> [Kind -> Nat \cup {NoHit}]]
    /\ DOMAIN suppression \subseteq AlertFingerprint
    /\ \A fp \in DOMAIN suppression : suppression[fp] \in Nat
    /\ threshold \in Nat
    /\ published \subseteq Signal
    /\ order \in Seq(Signal)
    /\ ingested \subseteq Signal
    /\ scored \in [Signal -> {"None", "Normal", "Elevated", "Anomalous"}]
    /\ outcomes \subseteq Outcome

Handled == {o.signal : o \in outcomes}

\* Detection never runs against a grid that misses a signal the pipeline received
\* earlier (#224): once a signal has reached the aggregator, it and every signal
\* the fan task received before it have been ingested.
IngestedBeforeScored ==
    \A i, j \in DOMAIN order :
        i <= j /\ (order[j] \in Range(inner) \/ scored[order[j]] # "None")
            => order[i] \in ingested

\* The caller's broadcast is the single place a signal can be dropped (#232): when
\* run returns, every signal the fan task received has been ingested and scored,
\* nothing is left in a channel, and every notable signal went through process.
SingleLossPoint ==
    main = <<"done">> =>
        /\ broadcast = << >> /\ signals = << >> /\ inner = << >> /\ aggregated = << >>
        /\ Range(order) \subseteq ingested
        /\ \A s \in Range(order) :
             /\ scored[s] # "None"
             /\ Notable(scored[s]) => s \in Handled

\* An alert that claims a convergence has the evidence: at least three distinct
\* domains for Critical, min_convergence_domains for Medium, were ingested in the
\* signal's cell with a timestamp inside the window that ended when it was raised.
ConvergenceIsReal ==
    \A o \in outcomes :
        LET domains == {KindOf[s] : s \in {t \in ingested :
                            /\ LocationOf[t] = o.fingerprint.cell
                            /\ TimeOf[t] >= o.at - Window}}
        IN /\ o.fingerprint.severity = "Critical" => Cardinality(domains) >= 3
           /\ o.fingerprint.severity = "Medium" => Cardinality(domains) >= MinDomains

\* Suppression is exact, whenever the map is swept: alerts of one fingerprint are
\* at least the suppression window apart, and a signal that raised no alert has an
\* alert of its fingerprint less than a window before it.
SuppressionExact ==
    /\ \A o, p \in {q \in outcomes : q.emitted} :
         o # p /\ o.fingerprint = p.fingerprint =>
            o.at - p.at >= SuppressionWindow \/ p.at - o.at >= SuppressionWindow
    /\ \A o \in {q \in outcomes : ~q.emitted} :
         \E p \in {q \in outcomes : q.emitted} :
            /\ p.fingerprint = o.fingerprint
            /\ p.at <= o.at
            /\ o.at - p.at < SuppressionWindow

\* No cycle of tasks waits on itself, and the final drain ends: once the caller
\* closes its broadcast, run returns.
Terminates ==
    closed ~> main = <<"done">>

\* What DomainSlots documents: one retained hit per domain carries the same
\* detection semantics as keeping every hit, and ingesting a signal again is
\* idempotent.  As long as signals arrive in the order of their timestamps, the
\* domains in the window are those of the signals ingested in the window.
SameDetection ==
    (\A i, j \in DOMAIN order : i < j => TimeOf[order[i]] <= TimeOf[order[j]]) =>
    \A c \in Cell :
        within_window(grid, c, now - Window) =
            {KindOf[s] : s \in {t \in ingested : /\ c \in LocationOf[t]
                                                 /\ TimeOf[t] >= now - Window}}

=============================================================================
