------------------------------ MODULE Preflight ------------------------------
(***************************************************************************)
(* The preflight gate (blackboxrs/prevention/): rules are files;           *)
(* "blackboxrs preflight" runs the check of each rule in turn and exits 0, *)
(* 1 or 2.  Checks that need the ROS graph bring up a node of their own.   *)
(*                                                                         *)
(* A rule is a record [kind, params, onFail, disabled, rationale, source,  *)
(* from].  A robot is a record: rclpy is "missing", "failing" (no node can *)
(* be made) or "ok"; pubs and subs give the QoS profiles <<reliability,    *)
(* durability>> of a topic's endpoints, nodes the <<namespace, name>>      *)
(* pairs on the graph, env the variables, metrics the resources, params    *)
(* the parameter of a node, code what the user's callables return.         *)
(*                                                                         *)
(* Abstractions.  A run is one step: no check depends on another, and what *)
(* changes on the robot while they run is a change before or after.  The   *)
(* order of the rules, that of their hashed names, does not matter to any  *)
(* result.                                                                 *)
(***************************************************************************)
EXTENDS Integers, FiniteSets, Sequences

CONSTANTS
    Robots,         \* robots the checks may meet
    Handwritten,    \* sets of rules an operator wrote
    NotSet,         \* a missing variable, parameter, bound or argument
    NoService,      \* a node without a parameter service
    NoAnswer,       \* a node whose parameter service does not answer
    MaxRuns         \* bound: preflight runs, and rules written

\* A rule an operator wrote is from no incident.
ASSUME PreflightAssumption ==
    /\ MaxRuns \in Nat
    /\ \A written \in Handwritten : \A rule \in written : rule.from = NotSet

VARIABLES
    rules,      \* the rules directory
    robot,      \* the robot the latest run met, or NotSet
    report,     \* the result of each rule in the latest run
    gate,       \* the exit code of the latest run, or NotSet
    runs        \* preflight runs, and times rules were written

preflightVars == <<rules, robot, report, gate, runs>>
-----------------------------------------------------------------------------
(* The checks *)

\* A bug: the topic need only be known.
TopicPresentKnown(r, p) == IF p.topic \in DOMAIN r.pubs THEN "pass" ELSE "fail"

\* topic_present
TopicPresent(r, p) ==
    IF Cardinality(r.pubs[p.topic]) >= p.min THEN "pass" ELSE "fail"

\* node_running; a bare name is accepted in any namespace.
NodeRunning(r, p) ==
    IF \E n \in r.nodes : n[2] = p.name /\ p.namespace \in {NotSet, n[1]}
    THEN "pass" ELSE "fail"

\* _RELIABILITY_RANK and _DURABILITY_RANK; other values are not compared.
ProfileRank == [RELIABLE |-> 2, BEST_EFFORT |-> 1, TRANSIENT_LOCAL |-> 2, VOLATILE |-> 1]

Incompatible(pub, sub) ==
    \E dim \in 1 .. 2 :
        /\ {pub[dim], sub[dim]} \subseteq DOMAIN ProfileRank
        /\ ProfileRank[pub[dim]] < ProfileRank[sub[dim]]

\* qos_match; without both ends there is nothing to compare.
QosMatch(r, p) ==
    CASE r.pubs[p.topic] = {} \/ r.subs[p.topic] = {} -> "skipped"
      [] \E pub \in r.pubs[p.topic], sub \in r.subs[p.topic] : Incompatible(pub, sub)
            -> "fail"
      [] OTHER -> "pass"

\* env_var; an empty variable counts as unset.
EnvVar(r, p) ==
    LET value == r.env[p.name]
        set   == value \notin {NotSet, ""}
    IN  IF /\ set = p.present
           /\ p.present => p.equals \in {NotSet, value} /\ (p.regex = NotSet \/ value \in p.regex)
        THEN "pass" ELSE "fail"

Below(value, min) == min # NotSet /\ value < min
Above(value, max) == max # NotSet /\ value > max

\* resource_threshold; sampling may raise.
ResourceThreshold(r, p) ==
    LET value == r.metrics[p.metric] IN
    CASE value = NotSet -> "error"
      [] value # NotSet /\ (Above(value, p.max) \/ Below(value, p.min)) -> "fail"
      [] OTHER -> "pass"

\* param_value; what is no number cannot be compared with a bound.
ParamValue(r, p) ==
    LET value == r.params[p.node]
        other == \/ p.equals \notin {NotSet, value}
                 \/ p.among # NotSet /\ value \notin p.among
    IN  CASE value = NoService -> "skipped"
          [] value = NoAnswer -> "error"
          [] value = NotSet -> "fail"
          [] value \notin {NoService, NoAnswer, NotSet} ->
                CASE other -> "fail"
                  [] ~other /\ value \notin Int /\ {p.min, p.max} # {NotSet} -> "error"
                  [] ~other /\ value \in Int /\ (Below(value, p.min) \/ Above(value, p.max)) -> "fail"
                  [] OTHER -> "pass"

\* custom_python: what the callable returns, if that is a status; it may
\* also be missing or raise.
CustomPython(r, p) ==
    LET result == r.code[p.callable]
    IN  IF result \in {"pass", "fail", "skipped", "error"} THEN result ELSE "error"

GraphKinds == {"topic_present", "node_running", "qos_match", "param_value"}
CheckKinds == GraphKinds \cup {"env_var", "resource_threshold", "custom_python"}

\* with_graph_node and transient_node: without rclpy a check is skipped; a
\* node that cannot be made is an error, for the parameter check (which
\* takes any RuntimeError for a missing rclpy) a skip.
GraphStatus(r, rule) ==
    CASE r.rclpy = "missing" -> "skipped"
      [] r.rclpy = "failing" -> IF rule.kind = "param_value" THEN "skipped" ELSE "error"
      [] r.rclpy = "ok" ->
            CASE rule.kind = "topic_present" -> TopicPresent(r, rule.params)
              [] rule.kind = "node_running" -> NodeRunning(r, rule.params)
              [] rule.kind = "qos_match" -> QosMatch(r, rule.params)
              [] rule.kind = "param_value" -> ParamValue(r, rule.params)

\* _CHECK_REGISTRY
Status(r, rule) ==
    CASE rule.kind \in GraphKinds -> GraphStatus(r, rule)
      [] rule.kind = "env_var" -> EnvVar(r, rule.params)
      [] rule.kind = "resource_threshold" -> ResourceThreshold(r, rule.params)
      [] rule.kind = "custom_python" -> CustomPython(r, rule.params)
-----------------------------------------------------------------------------
(* The runner *)

\* PreflightRunner.run for one rule: a failed check takes the rule's
\* severity, everything else stays as it is.
Result(r, rule) ==
    IF rule.disabled THEN "skipped"
    ELSE IF Status(r, rule) = "fail" THEN rule.onFail ELSE Status(r, rule)

\* PreflightReport.exit_code; skipped checks and errors do not count.
ExitCode(results) ==
    CASE "block" \in results -> 1
      [] "block" \notin results /\ "warn" \in results -> 2
      [] OTHER -> 0

PreflightInit ==
    /\ rules = {}
    /\ robot = NotSet
    /\ report = <<>>
    /\ gate = NotSet
    /\ runs = 0

\* The operator writes rules.
Write ==
    /\ runs < MaxRuns
    /\ runs' = runs + 1
    /\ \E written \in Handwritten : rules' = rules \cup written
    /\ UNCHANGED <<robot, report, gate>>

\* load_rules: one file that is no valid rule raises.
Loadable == \A rule \in rules : rule.kind \in CheckKinds

\* preflight_cmd on a robot: an exception ends it with exit code 1; without
\* rules the gate is open.
Preflight(r) ==
    /\ runs < MaxRuns
    /\ runs' = runs + 1
    /\ robot' = r
    /\ LET results == [rule \in rules |-> Result(r, rule)]
       IN  /\ report' = IF Loadable THEN results ELSE <<>>
           /\ gate' = IF Loadable THEN ExitCode({results[rule] : rule \in rules}) ELSE 1
    /\ UNCHANGED rules

PreflightNext == Write \/ \E r \in Robots : Preflight(r)
=============================================================================
