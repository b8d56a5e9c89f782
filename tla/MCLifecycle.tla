---------------------------- MODULE MCLifecycle -----------------------------
(* Lifecycle on small instances, with files that have settings at their edges. *)
EXTENDS Lifecycle

\* Values that some check of the settings, or some place that has none, tells from
\* others.  The durations are those of two units to the millisecond and a limit of 2^20.
MCEdges ==
  [grpcAddr |-> {""}, metricsHost |-> {""}, metricsPort |-> {-1, 0},
   metricsPath |-> {"", "metrics", "/healthz"},
   brokers |-> {{}}, topic |-> {""}, groupID |-> {""},
   minBytes |-> {-1, 0, 10485760, 10485761}, maxBytes |-> {-1, 0, 2},
   maxWait |-> {-1, 0, 524288},
   commitInterval |-> {-1, 1000, 524288, 1048576},
   startOffset |-> {"", "first", "earliest", "oldest"},
   commitRetries |-> {-1, 0, 1}, retryBackoff |-> {-1, 0},
   window |-> {-1, 0, 1, 3000, 4000}, bucketSize |-> {-1, 0, 1, 3000, 4000},
   defaultLimit |-> {-1, 0, 101}, maxLimit |-> {-1, 0, 9, 10, 1000, 1001},
   topRefreshInterval |-> {-1, 0, 1}, maxQueryRunes |-> {-1, 0, 1},
   allowedFutureSkew |-> {-1, 0, 1}]

MCPatterns == {"/metrics", "/healthz"}

Override(file, setting, value) ==
  [s \in DOMAIN file \cup {setting} |-> IF s = setting THEN value ELSE file[s]]

Overridden(files) ==
  UNION {{Override(file, setting, value) : file \in files, value \in MCEdges[setting]} :
           setting \in DOMAIN MCEdges}

\* The file that only names the brokers, and those that differ from it in up to two
\* settings.
MCBrokersOnly == [brokers |-> {"kafka:9092"}]

MCFiles ==
  LET one == {MCBrokersOnly} \cup Overridden({MCBrokersOnly})
  IN  one \cup Overridden(one)

=============================================================================
