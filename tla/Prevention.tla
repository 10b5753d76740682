----------------------------- MODULE Prevention -----------------------------
(***************************************************************************)
(* From an incident to a gate: an operator adopts the rule a bundle        *)
(* recommends ("blackboxrs prevention adopt", cli/incident_cmd.py), and    *)
(* later preflight runs check it.  Composes the building of bundles        *)
(* (IncidentBuilder) and the preflight gate (Preflight).                   *)
(***************************************************************************)
EXTENDS IncidentBuilder, Preflight

CONSTANTS
    Adoptable   \* bound: logs whose bundles are adopted from; the gate
                \* is used between their builds only

vars == <<buildVars, preflightVars>>

\* _REQUIRED: BundleReader refuses a bundle without these.
Required == Files \ {"triggers.json"}

\* The subject of the first trigger of a class.
FirstOf(events, class) ==
    LET found == {i \in Triggers(events) : events[i].class = class}
    IN  IF found = {} THEN {}
        ELSE {events[CHOOSE i \in found : \A j \in found : i <= j].subject}

\* The kind of rule and its parameters for the detector class of the top
\* hypothesis, if there is a mapping.
Recommended(class, topic) ==
    CASE class = "QoSMismatchDetector" ->
            [kind |-> "qos_match", params |-> [topic |-> topic]]
      [] class = "DeadTopicDetector" ->
            [kind |-> "topic_present", params |-> [topic |-> topic, min |-> 1]]

\* The id of a rule is a hash of these; saving overwrites.
RuleId(rule) == <<rule.kind, rule.params, rule.rationale>>
Saved(rule) == {r \in rules : RuleId(r) # RuleId(rule)} \cup {rule}

\* prevention_adopt, where it does not refuse.  The incident and the
\* triggers are two files, which two builds may have written.
Adopt(id) ==
    /\ log \in Adoptable
    /\ \A file \in Required : store[id][file] # Absent
    /\ Readable(id, "incident.json")
    /\ store[id]["triggers.json"] # Torn
    /\ LET incident == The(id, "incident.json")
           events   == IF store[id]["triggers.json"] = Absent THEN <<>>
                       ELSE The(id, "triggers.json").events
       IN  /\ incident.causes # <<>>
           /\ incident.causes[1].confidence >= 700
           /\ LET cause == incident.events[incident.causes[1].trigger]
              IN  /\ cause.class \in {"QoSMismatchDetector", "DeadTopicDetector"}
                  /\ \E topic \in FirstOf(events, cause.class) :
                        LET what == Recommended(cause.class, topic)
                            rule == [kind |-> what.kind, params |-> what.params,
                                     onFail |-> "block", disabled |-> FALSE,
                                     rationale |-> Cause(cause),
                                     source |-> id, from |-> store[id]["incident.json"]]
                        IN  rules' = Saved(rule)
    /\ UNCHANGED <<buildVars, robot, report, gate, runs>>

PreventionInit == Init /\ PreflightInit

Next ==
    \/ BuildNext /\ UNCHANGED preflightVars
    \/ \E id \in DOMAIN store : Adopt(id)
    \/ PreflightNext /\ log \in Adoptable /\ built # <<>> /\ Running = {} /\ UNCHANGED buildVars

Spec == PreventionInit /\ [][Next]_vars
-----------------------------------------------------------------------------
(* Properties *)

Whole(id) == \A file \in Files : Readable(id, file)
AloneIn(id) == Cardinality({n \in DOMAIN built : built[n].id = id}) = 1

\* incident.json announces a bundle: the recurrence lookup, the diff, "list"
\* and "adopt" all start from it.  When one build alone wrote into a bundle
\* and its incident.json can be read, every file they read next is there,
\* complete: a build that died earlier left nothing that is taken for a
\* bundle (incident/builder.py build, bundle.py BundleWriter).
AnnouncedIsWhole ==
    \A id \in DOMAIN store :
        AloneIn(id) /\ Readable(id, "incident.json")
            => \A file \in Files \ {"report.md"} : Readable(id, file)

\* What a ranking calls the baseline or a recurrence was about an earlier
\* window of the same robot, whatever order the windows were built in, and
\* whatever builds ran at the same time; only a baseline that is being built
\* again may have changed hands since it was chosen (incident/builder.py
\* _load_prior_signatures, incident/recurrence.py).
OnlyThePast ==
    \A n \in DOMAIN built : built[n].pc \notin {"scan", "load", "rank"} =>
        LET past(m) == built[m].host = Here /\ built[m].window.end < built[n].window.start
        IN  /\ built[n].baseline # None /\ built[n].best # None /\ AloneIn(built[n].best)
                => \A m \in built[n].baseline.from : past(m)
            /\ \A id \in built[n].prior :
                \E m \in DOMAIN built : built[m].id = id /\ past(m)

\* A recurrence is found: when causes are ranked, every whole bundle of an
\* earlier window of this robot with the same fingerprint is counted,
\* however many bundles beside it are torn or half built
\* (incident/recurrence.py FingerprintIndex.lookup).
EarlierTwinIsFound ==
    [][\A n \in DOMAIN built : built[n].pc = "rank" /\ built'[n].pc = "open" =>
        \A id \in DOMAIN store :
            /\ AloneIn(id) /\ Whole(id) /\ id # built[n].id
            /\ \E m \in DOMAIN built :
                /\ built[m].id = id /\ built[m].host = Here
                /\ built[m].window.end < built[n].window.start
                /\ built[m].fingerprint = built[n].fingerprint
            => id \in built'[n].prior]_vars

\* However noisy the timeline, the precursors, the diff and the recurrence
\* together never lift a threshold alarm over a QoS mismatch of the same or
\* a higher severity (incident/cause.py _PRECURSOR_BONUS_CAP, rank).
NoiseNeverOutranksQos ==
    \A n \in DOMAIN built : \A h, k \in DOMAIN built[n].causes :
        LET above == built[n].events[built[n].causes[h].trigger]
            below == built[n].events[built[n].causes[k].trigger]
        IN  h < k /\ above.class = "ThresholdDetector" /\ below.class = "QoSMismatchDetector"
                => SeverityRank[above.severity] > SeverityRank[below.severity]

\* The same failure has the same fingerprint: when the same events happened
\* in two windows, only later, the recurrence lookup can match them
\* (incident/fingerprint.py compute, core/snapshots.py project).
SameFailureSameFingerprint ==
    \A m, n \in DOMAIN built :
        LET later == built[n].window.start - built[m].window.start
        IN  /\ built[n].window.end - built[m].window.end = later
            /\ built[n].events = [i \in DOMAIN built[m].events |->
                                    [built[m].events[i] EXCEPT !.t = @ + later]]
            => built[m].fingerprint = built[n].fingerprint

\* The incident that was fixed does not come back unseen: once a rule was
\* adopted from the bundle of one build, of an incident in which one topic
\* died and nothing else, a preflight run that can look at the graph blocks
\* a robot on which nobody publishes that topic, whatever other rules there
\* are.  Where two builds write one bundle the rule may name a topic of the
\* other build's triggers.json
\* (cli/incident_cmd.py prevention_adopt, prevention/).
AdoptedRuleBlocks ==
    [][\A r \in Robots : Preflight(r) => \A rule \in rules :
        /\ rule.from # NotSet /\ AloneIn(rule.source)
        /\ r.rclpy = "ok"
        /\ \A i \in Triggers(built[rule.from].events) :
            /\ built[rule.from].events[i].class = "DeadTopicDetector"
            /\ r.pubs[built[rule.from].events[i].subject] = {}
        => gate' = 1]_vars
=============================================================================
