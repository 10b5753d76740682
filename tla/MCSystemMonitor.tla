-------------------------- MODULE MCSystemMonitor --------------------------
(* Offsets and durations in quarters of the default max_skew_sec.          *)
EXTENDS SystemMonitor

MCChronyc ==
    {Failed, <<[source |-> "peer", offset |-> 2], [source |-> "other", offset |-> -3]>>,
     <<[source |-> "unsynchronised", offset |-> 0], [source |-> "peer", offset |-> Malformed]>>}
MCNtpq ==
    {Failed, <<[marker |-> "-", offset |-> 9], [marker |-> "+", offset |-> Malformed]>>,
     <<[marker |-> "+", offset |-> -2], [marker |-> "*", offset |-> 1], [marker |-> "+", offset |-> 9]>>,
     <<[marker |-> "+", offset |-> -1], [marker |-> "+", offset |-> 9]>>}
=============================================================================
