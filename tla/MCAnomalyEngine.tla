-------------------------- MODULE MCAnomalyEngine --------------------------
(* Payloads that tell the detectors' cases apart.                          *)
EXTENDS AnomalyEngine

MCEntries == <<"no_class", "raises", "no_dot", "no_module", "no_attribute",
               "no_detector", "constructor_raises", "echo">>

Rate(t, hz) == [kind |-> "frequency", topic |-> t, hz |-> hz]
Clocks(a, b, c) ==
    [kind |-> "clock_skew",
     sources |-> <<[name |-> "a", epoch |-> a], [name |-> "b", epoch |-> b],
                   [name |-> "c", epoch |-> c]>>]
Processes(s) == [kind |-> "process_signals", processes |-> s]
Process(n, c, r) == [name |-> n, cpu |-> c, rss |-> r]
Profile(r, d) == [reliability |-> r, durability |-> d]
Qos(p, s) == [kind |-> "qos", topic |-> "scan", pubs |-> p, subs |-> s]

\* -1 stands for a reading that is no number.
MCPayloads ==
    [frequency |-> {Rate("scan", 1), Rate("scan", 3), Rate("scan", 4), Rate("odom", 4)},
     threshold |-> [kind : {"threshold"}, metric : {"cpu_percent"},
                    value : {"absent", "text", "within", "over"}]
                     \cup {[kind |-> "threshold", metric |-> "gpu_temp_c", value |-> "over"]},
     clock_skew |-> {Clocks(5, 5, 6), Clocks(9, 5, 5), Clocks(1, 5, 9),
                     Clocks(9, -1, 9), Clocks(-1, -1, 9)},
     process_signals |->
         {Processes(<<Process("p", -1, 9)>>),
          Processes(<<Process("p", 1, 1), Process("q", 2, 1)>>),
          Processes(<<Process("p", 9, 1), Process("q", 9, 9)>>),
          Processes(<<Process("p", 1, 1), Process("q", 9, 1)>>),
          Processes(<<Process("p", 1, 2), Process("q", 1, 9)>>)},
     qos |-> {Qos(<<>>, <<Profile("RELIABLE", "VOLATILE")>>),
              Qos(<<Profile("BEST_EFFORT", "VOLATILE")>>, <<Profile("RELIABLE", "VOLATILE")>>),
              Qos(<<Profile("RELIABLE", "VOLATILE")>>, <<Profile("SYSTEM_DEFAULT", "TRANSIENT_LOCAL")>>)}]
=============================================================================
