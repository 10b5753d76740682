---------------------------- MODULE MCPrevention ----------------------------
EXTENDS Prevention

CONSTANTS Text

Event(t, type, subject, value, class, severity) ==
    [t |-> t, type |-> type, subject |-> subject, value |-> value, class |-> class,
     severity |-> severity, session |-> IF t = 1 THEN "s" ELSE None]
Rate(t, topic) == Event(t, "ros.frequency", topic, 0, None, None)
Qos(t, topic, pubs) == Event(t, "ros.qos", topic, pubs, "RELIABLE", None)
Sample(t, metric, value) == Event(t, metric, metric, value, None, None)
Alarm(t, class, subject, severity) == Event(t, "anomaly", subject, 0, class, severity)

\* One window with every kind of row, an event out of order, and alarms of
\* four detectors; each part of it is a log.
Busy == <<Rate(0, "/a"), Qos(1, "/a", 1), Sample(1, "system.cpu", 95),
          Rate(5, "/a"), Alarm(3, "DeadTopicDetector", "/a", "error"),
          Alarm(4, "DeadTopicDetector", "/b", "critical"),
          Alarm(5, "QoSMismatchDetector", "/a", "warning")>>
Parts(events) ==
    {SelectSeq(events, LAMBDA e : e \in kept) : kept \in SUBSET Range(events)}

\* Many weak precursors of a threshold alarm beside a QoS mismatch.
Noisy == <<Sample(1, "system.cpu", 95), Sample(1, "system.memory", 95),
           Sample(1, "system.gpu", 0), Sample(2, "system.cpu", 50),
           Sample(2, "system.memory", 50), Sample(3, "system.cpu", 95),
           Sample(3, "system.memory", 95),
           Alarm(4, "ThresholdDetector", "system.cpu", "warning"),
           Alarm(4, "QoSMismatchDetector", "/a", "warning")>>

\* The same outage in two windows.
Outage(t) == <<Rate(t, "/a"), Rate(t + 4, "/a"),
               Alarm(t + 3, "DeadTopicDetector", "/a", "error"), Qos(t + 5, "/a", 1)>>
Twice == Outage(0) \o Outage(10)

MCLogs == Parts(Busy) \cup {Noisy, Twice}
MCContended == {Twice}
MCAdoptable == {Busy, SubSeq(Busy, 1, 5), Remove(Busy, Busy[5])}
First == [start |-> 0, end |-> 5]
Second == [start |-> 10, end |-> 15]
MCWindows == {First, [start |-> 5, end |-> 8], Second}
MCExisting == {[window |-> First, host |-> Here], [window |-> Second, host |-> Here],
               [window |-> First, host |-> Other]}
MCLimits == [type \in {"system.cpu", "system.memory"} |-> 90]
MCInstalled == [config |-> [ros_distro |-> "humble"], versions |-> [kernel |-> "k"]]
MCToolchains == {MCInstalled, [MCInstalled EXCEPT !.config.ros_distro = "jazzy"]}
MCQueries == {"kernel"}

Rule(kind, params, onFail, disabled) ==
    [kind |-> kind, params |-> params, onFail |-> onFail, disabled |-> disabled,
     rationale |-> NotSet, source |-> NotSet, from |-> NotSet]
Gates == {
    Rule("topic_present", [topic |-> "/b", min |-> 1], "warn", FALSE),
    Rule("node_running", [namespace |-> "/ns", name |-> "n"], "warn", FALSE),
    Rule("qos_match", [topic |-> "/b"], "warn", FALSE),
    Rule("param_value", [node |-> "n", equals |-> NotSet, among |-> NotSet,
                         min |-> 1, max |-> 2], "warn", FALSE),
    Rule("env_var", [name |-> "V", present |-> TRUE, equals |-> NotSet,
                     regex |-> {"7"}], "warn", FALSE),
    Rule("resource_threshold", [metric |-> "cpu", min |-> NotSet, max |-> 90], "warn", FALSE),
    Rule("custom_python", [callable |-> "f"], "block", FALSE),
    Rule("custom_python", [callable |-> "g"], "block", TRUE)}
MCHandwritten == {{}, Gates, {Rule("topic_presnt", [topic |-> "/b"], "block", FALSE)}}

Robot(rclpy, a, b, subs, value, metric, result) ==
    [rclpy |-> rclpy, pubs |-> [topic \in {"/a", "/b"} |-> IF topic = "/a" THEN a ELSE b],
     subs |-> [topic \in {"/a", "/b"} |-> subs], nodes |-> {<<"/ns", "n">>},
     env |-> [V |-> "7"], metrics |-> [cpu |-> metric], params |-> [n |-> value],
     code |-> [f |-> result, g |-> "fail"]]
Best == <<"BEST_EFFORT", "VOLATILE">>
Full == <<"RELIABLE", "VOLATILE">>
MCRobots == {
    Robot("missing", {}, {}, {}, 1, 50, "pass"),
    Robot("failing", {Full}, {Full}, {}, 1, 50, "pass"),
    Robot("ok", {}, {Full}, {Best}, 1, 50, "pass"),
    Robot("ok", {Best}, {Best}, {Full}, 3, 95, "pass"),
    Robot("ok", {Full}, {}, {Full}, NoService, NotSet, "weird"),
    Robot("ok", {}, {}, {}, NoAnswer, 50, "fail"),
    Robot("ok", {Full}, {Full}, {Full}, Text, 50, "pass")}
=============================================================================
