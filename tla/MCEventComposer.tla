--------------------------- MODULE MCEventComposer ---------------------------
(* A machine with two kinds of cores and an uncore PMU, and command lines  *)
(* that mix their events.                                                  *)
EXTENDS EventComposer

MCCpus == {0, 1}
MCThreads == {10, 11}
MCEvents == {"cpu-clock", "dummy", "instructions", "cpu-cycles", "cycles", "r1a8", "cpu_atom/x/",
             "uncore/y/", "typo"}
MCPredefined == {"cpu-clock", "dummy", "instructions", "cpu-cycles", "cycles"}
MCEncoding == [e \in MCEvents |-> IF e = "cycles" THEN "cpu-cycles" ELSE e]
MCPmu == [e \in MCEvents |->
    CASE e \in {"cpu-clock", "dummy"} -> "software"
      [] e = "uncore/y/"              -> "uncore"
      [] e = "typo"                   -> "none"
      [] OTHER                        -> "core"]
MCCountsOn == [e \in MCEvents |->
    CASE e = "typo"                      -> {}
      [] e = "uncore/y/"                 -> {0}
      [] e \in {"cpu_atom/x/", "r1a8"}   -> {1}
      [] OTHER                           -> MCCpus]

MCOptions ==
    [all_cpus          : BOOLEAN,
     all_cpus_sampling : {FALSE},
     sampling          : {"default", "yes", "no"},
     event             : {"instructions", "uncore/y/"},
     process_recording : {"default"},
     metric_leader     : {"", "r1a8", "uncore/y/", "typo"},
     metric_count      : {TRUE},
     metric_event      : {<<>>, <<"cpu_atom/x/", "r1a8", "cycles">>, <<"typo", "uncore/y/">>},
     standard_metrics  : BOOLEAN,
     userspace_event   : {<<>>, <<"uncore/y/", "cpu_atom/x/">>, <<"typo">>},
     command           : {TRUE},
     cgroup            : {FALSE},
     posix_io          : {FALSE}]
    \cup
    [all_cpus          : BOOLEAN,
     all_cpus_sampling : BOOLEAN,
     sampling          : {"default"},
     event             : {"instructions"},
     process_recording : {"default", "yes", "no"},
     metric_leader     : {"", "r1a8"},
     metric_count      : BOOLEAN,
     metric_event      : {<<>>},
     standard_metrics  : {FALSE},
     userspace_event   : {<<>>},
     command           : BOOLEAN,
     cgroup            : BOOLEAN,
     posix_io          : BOOLEAN]
============================================================================
