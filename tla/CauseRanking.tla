---------------------------- MODULE CauseRanking ----------------------------
(***************************************************************************)
(* The fingerprint of an incident (blackboxrs/incident/fingerprint.py),    *)
(* the difference of two signatures (incident/diff.py) and the ranking of  *)
(* the likely causes (incident/cause.py).                                  *)
(*                                                                         *)
(* A signature is a record [config, versions] of two functions from keys   *)
(* to values; its hash is the function itself.  A score counts hundredths  *)
(* times Unit, which keeps the products of cause.py whole.                 *)
(***************************************************************************)
EXTENDS IncidentAnalysis

-----------------------------------------------------------------------------
(* Fingerprint *)

\* target_subsystem, which threshold rules override for the GPU.
Subsystem(trigger) ==
    CASE trigger.class \in {"DeadTopicDetector", "FrequencyDetector", "QoSMismatchDetector",
                            "TfTopologyDetector"} -> "ros"
      [] trigger.class = "ThresholdDetector" /\ trigger.subject = "system.gpu" -> "gpu"
      [] trigger.class \in {"ThresholdDetector", "ClockSkewDetector", "ProcessSignalsDetector"}
            /\ trigger.subject # "system.gpu" -> "system"
      [] OTHER -> "anomaly"

\* compute: the detector classes (which with the subjects fix the subsystems),
\* per class the fields its triggers are signed with, one per trigger and
\* sorted, and the topics of all snapshots with their QoS.
Fingerprint(events, w) ==
    LET snaps     == Snapshots(events, w)
        signed(i) == <<events[i].class, events[i].subject>>
    IN  [classes  |-> {events[i].class : i \in Triggers(events)},
         fields   |-> [key \in {signed(i) : i \in Triggers(events)} |->
                            Cardinality({i \in Triggers(events) : signed(i) = key})],
         topology |-> IF DOMAIN snaps = {} THEN None
                      ELSE UNION {{<<p, snaps[n].topics[p].qos>> : p \in DOMAIN snaps[n].topics} :
                                  n \in DOMAIN snaps}]
-----------------------------------------------------------------------------
(* Diff *)

\* _diff_dicts: the keys changed, added or removed.
DiffKeys(old, new) ==
    {k \in DOMAIN old \cup DOMAIN new :
        ~(k \in DOMAIN old \cap DOMAIN new /\ old[k] = new[k])}

RelevantKeys == [
    QoSMismatchDetector    |-> {"ros_distro", "rmw_implementation", "ros_domain_id",
                                "attached_files", "env_subset.RMW_IMPLEMENTATION"},
    DeadTopicDetector      |-> {"ros_distro", "rmw_implementation", "ros_domain_id",
                                "attached_files", "ros_packages_apt_count",
                                "blackboxrs_config_yaml_sha256"},
    FrequencyDetector      |-> {"ros_distro", "rmw_implementation", "ros_domain_id",
                                "attached_files", "blackboxrs_config_yaml_sha256"},
    ThresholdDetector      |-> {"kernel", "nvidia_driver", "os.version", "cuda"},
    TfTopologyDetector     |-> {"ros_distro", "rmw_implementation", "attached_files",
                                "ros_packages_apt_count", "blackboxrs_config_yaml_sha256"},
    ProcessSignalsDetector |-> {"kernel", "nvidia_driver", "ros_packages_apt_count",
                                "blackboxrs_config_yaml_sha256"},
    ClockSkewDetector      |-> {"kernel", "os.version", "attached_files"}]

\* _score_diff: without a baseline nothing, and a little for any change.
DiffScore(class, baseline, sig) ==
    LET keys == DiffKeys(baseline.config, sig.config)
                    \cup DiffKeys(baseline.versions, sig.versions)
        relevant == IF class \in DOMAIN RelevantKeys THEN RelevantKeys[class] ELSE {}
    IN  CASE baseline = None -> 0
          [] baseline # None /\ keys = {} -> 0
          [] baseline # None /\ keys \cap relevant # {} -> 5
          [] OTHER -> 2
-----------------------------------------------------------------------------
(* Scores *)

Unit == 200 * Horizon

BaseScore == [
    QoSMismatchDetector |-> 85, TfTopologyDetector |-> 75, ClockSkewDetector |-> 70,
    DeadTopicDetector |-> 65, FrequencyDetector |-> 55, ProcessSignalsDetector |-> 45,
    ThresholdDetector |-> 40]

SeverityRank == [info |-> 0, warning |-> 1, error |-> 2, critical |-> 3]
SeverityBonus == [info |-> 0, warning |-> 3, error |-> 7, critical |-> 10]

PrecursorRelevance == [
    DeadTopicDetector      |-> [silence_interval |-> 20, graph_delta |-> 20,
                                resource_excursion |-> 12],
    FrequencyDetector      |-> [silence_interval |-> 15, resource_excursion |-> 15,
                                graph_delta |-> 8],
    QoSMismatchDetector    |-> [graph_delta |-> 15],
    ThresholdDetector      |-> [resource_excursion |-> 12],
    TfTopologyDetector     |-> [silence_interval |-> 18, resource_excursion |-> 15,
                                graph_delta |-> 10],
    ProcessSignalsDetector |-> [resource_excursion |-> 18, silence_interval |-> 10],
    ClockSkewDetector      |-> [resource_excursion |-> 12, graph_delta |-> 8]]

\* The relevance of a row for a trigger: linear decay over Horizon, rows of
\* another subsystem weigh 55 of 100, rows about the trigger's topic half
\* as much again.
Relevance(trigger, row) ==
    PrecursorRelevance[trigger.class][row.kind]
        * (Horizon - (trigger.t - row.t))
        * (IF row.subsystem = Subsystem(trigger) THEN 100 ELSE 55)
        * (IF row.kind \in {"graph_delta", "silence_interval"} /\ row.subject = trigger.subject
             THEN 3 ELSE 2)

\* The rows _score_precursors keeps: derived, strictly before the trigger,
\* of a kind that matters to the detector, younger than Horizon.
Precursors(trigger, rows) ==
    {r \in rows :
        /\ trigger.class \in DOMAIN PrecursorRelevance
        /\ r.kind \in DOMAIN PrecursorRelevance[trigger.class]
        /\ r.t < trigger.t /\ trigger.t - r.t < Horizon}

\* The sum of the values of a function.
SumOf(f) ==
    LET sum[S \in SUBSET DOMAIN f] ==
            IF S = {} THEN 0
            ELSE LET x == CHOOSE x \in S : TRUE IN f[x] + sum[S \ {x}]
    IN  sum[DOMAIN f]

\* A bug: many weak precursors add up without end.
UncappedBonus(trigger, chain) == SumOf([r \in chain |-> Relevance(trigger, r)])

PrecursorBonus(trigger, chain) ==
    MinOf(30 * Unit, SumOf([r \in chain |-> Relevance(trigger, r)]))

\* _score_recurrence
RecurrenceScore(prior) == IF prior = {} THEN 0 ELSE 5

\* _cause_summary: the sentence names the detector and what it is about.
Cause(trigger) == <<trigger.class, trigger.subject>>

\* _build_hypothesis; confidence is clamped to 1 and kept to thousandths.
Hypothesis(events, i, rows, baseline, sig, prior) ==
    LET trigger == events[i]
        chain   == Precursors(trigger, rows)
        base    == IF trigger.class \in DOMAIN BaseScore THEN BaseScore[trigger.class] ELSE 30
        raw     == Unit * (base + SeverityBonus[trigger.severity]
                                + DiffScore(trigger.class, baseline, sig)
                                + RecurrenceScore(prior))
                   + PrecursorBonus(trigger, chain)
    IN  [trigger    |-> i,
         chain      |-> chain,
         confidence |-> (10 * MinOf(raw, 100 * Unit) + Unit \div 2) \div Unit]

\* By confidence, then severity, then time.
Before(events, g, h) ==
    LET key(x) == <<-x.confidence, -SeverityRank[events[x.trigger].severity],
                    events[x.trigger].t, x.trigger>>
    IN  \E n \in 1 .. 4 : /\ key(g)[n] < key(h)[n]
                          /\ \A k \in 1 .. n - 1 : key(g)[k] = key(h)[k]

\* rank: one hypothesis per trigger, each behind those before it; of equal
\* ones the trigger that was logged first, for the sort is stable.
Rank(events, rows, baseline, sig, prior) ==
    LET found == [i \in Triggers(events) |->
                    Hypothesis(events, i, rows, baseline, sig, prior)]
        place == [i \in Triggers(events) |->
                    1 + Cardinality({j \in Triggers(events) :
                                        Before(events, found[j], found[i])})]
        first == AntiFunction(place)
    IN  [n \in DOMAIN first |-> found[first[n]]]
=============================================================================
