------------------------------ MODULE Settings -------------------------------
(***************************************************************************)
(* The configuration of the service on its way to the parts: the defaults, *)
(* the file that overrides them, Validate, and what aggregator.New,        *)
(* NewConsumer and NewGRPCServer check and replace once more.              *)
(*                                                                         *)
(* A configuration is a record.  Durations are integers, texts are told    *)
(* apart as far as the code does, brokers are a set.  Settings that        *)
(* nothing checks (shutdown_timeout, client_id, initial_words, antispam)   *)
(* are left out, and so is the environment, which only chooses the logger. *)
(***************************************************************************)
EXTENDS Integers

CONSTANTS
  Millisecond,     \* time.Millisecond, 10^6 in Go
  DurationLimit,   \* a time.Duration is below this limit, 2^63 in Go
  MaxElements,     \* the longest slice that make can allocate
  Patterns         \* the texts that http.ServeMux takes for a pattern

ASSUME SettingsAssumption ==
  Millisecond \in Nat \ {0} /\ DurationLimit \in Nat \ {0} /\ MaxElements \in Nat

defaultConfig ==
  [grpcAddr |-> ":9090",
   metricsHost |-> "0.0.0.0", metricsPort |-> 2112, metricsPath |-> "/metrics",
   brokers |-> {}, topic |-> "search-events", groupID |-> "search-trends-service",
   minBytes |-> 1, maxBytes |-> 10 * 1024 * 1024, maxWait |-> 1000,
   commitInterval |-> 0, startOffset |-> "latest", commitRetries |-> 3,
   retryBackoff |-> 500 * Millisecond,
   window |-> 300000 * Millisecond, bucketSize |-> 1000 * Millisecond,
   defaultLimit |-> 10, maxLimit |-> 100,
   topRefreshInterval |-> 500 * Millisecond, maxQueryRunes |-> 256,
   allowedFutureSkew |-> 5000 * Millisecond]

\* The types that the fields of Config have.
Configs ==
  [grpcAddr : STRING,
   metricsHost : STRING, metricsPort : Int, metricsPath : STRING,
   brokers : SUBSET STRING, topic : STRING, groupID : STRING,
   minBytes : Int, maxBytes : Int, maxWait : Int,
   commitInterval : Int, startOffset : STRING, commitRetries : Int, retryBackoff : Int,
   window : Int, bucketSize : Int, defaultLimit : Int, maxLimit : Int,
   topRefreshInterval : Int, maxQueryRunes : Int, allowedFutureSkew : Int]

\* yaml.Unmarshal into the defaults: the settings that the file has replace them.
Unmarshal(file) ==
  [setting \in DOMAIN defaultConfig |->
     IF setting \in DOMAIN file THEN file[setting] ELSE defaultConfig[setting]]

\* Fault: nothing relates the two sizes of a fetch.
ValidateLoosely(c) ==
  /\ c.grpcAddr # ""
  /\ c.metricsHost # "" /\ c.metricsPort > 0 /\ c.metricsPath # ""
  /\ c.brokers # {} /\ c.topic # "" /\ c.groupID # ""
  /\ c.minBytes > 0 /\ c.maxWait > 0 /\ c.commitInterval >= 0
  /\ c.startOffset \in {"latest", "earliest", "first"}
  /\ c.window > 0 /\ c.bucketSize > 0
  /\ c.defaultLimit > 0 /\ c.maxLimit >= c.defaultLimit

Validate(c) ==
  /\ c.grpcAddr # ""
  /\ c.metricsHost # "" /\ c.metricsPort > 0 /\ c.metricsPath # ""
  /\ c.brokers # {} /\ c.topic # "" /\ c.groupID # ""
  /\ c.minBytes > 0 /\ c.maxBytes >= c.minBytes /\ c.maxWait > 0 /\ c.commitInterval >= 0
  /\ c.startOffset \in {"latest", "earliest", "first"}
  /\ c.window > 0 /\ c.bucketSize > 0
  /\ c.defaultLimit > 0 /\ c.maxLimit >= c.defaultLimit

-----------------------------------------------------------------------------
(* The constructors *)

Positive(value, default) == IF value <= 0 THEN default ELSE value

\* time.Duration(ms) * time.Millisecond, which wraps around.
Duration(ms) == ((ms * Millisecond + DurationLimit) % (2 * DurationLimit)) - DurationLimit

\* Fault: the size of the buckets need not divide the window.
AggregatorAcceptsAnySize(c) ==
  c.window > 0 /\ c.defaultLimit > 0 /\ c.maxLimit >= c.defaultLimit

\* aggregator.New: what it replaces ...
AggregatorConfig(c) ==
  [c EXCEPT !.bucketSize = Positive(@, 1000 * Millisecond),
            !.topRefreshInterval = Positive(@, 500 * Millisecond),
            !.maxQueryRunes = Positive(@, 256),
            !.allowedFutureSkew = Positive(@, 5000 * Millisecond)]

\* ... what it refuses ...
AggregatorAccepts(c) ==
  /\ c.window > 0
  /\ c.window % Positive(c.bucketSize, 1000 * Millisecond) = 0
  /\ c.defaultLimit > 0 /\ c.maxLimit >= c.defaultLimit

\* ... and what it cannot allocate: the ring or the cache.
MakePanics(c) == c.window \div c.bucketSize > MaxElements \/ c.maxLimit > MaxElements

\* parseStartOffset
StartOffset(text) ==
  CASE text \in {"", "latest"}         -> "latest"
    [] text \in {"earliest", "first"} -> "earliest"
    [] OTHER                           -> "unsupported"

\* The durations that main makes of the milliseconds of the file, newKafkaReader and
\* NewConsumerWithReader.
ConsumerConfig(c) ==
  [c EXCEPT !.minBytes = Positive(@, 1),
            !.maxBytes = Positive(@, 10 * 1024 * 1024),
            !.maxWait = Positive(Duration(@), 1000 * Millisecond),
            !.commitInterval = Duration(@),
            !.startOffset = StartOffset(@),
            !.commitRetries = Positive(@, 3),
            !.retryBackoff = Positive(@, 500 * Millisecond)]

ConsumerAccepts(c) ==
  /\ c.brokers # {} /\ c.topic # "" /\ c.groupID # ""
  /\ StartOffset(c.startOffset) # "unsupported"

\* kafka.NewReader panics unless the bounds of a fetch are in order.
ReaderPanics(c) == c.minBytes > c.maxBytes

\* The reader that does not commit at once has a ticker, and time.NewTicker panics
\* unless its interval is positive.
TickerPanics(c) == c.commitInterval < 0

\* NewGRPCServer.  NewMetricsServer refuses nothing, and has nothing to replace in a
\* configuration that is valid.
GRPCServerAccepts(c) == c.grpcAddr # ""

\* Handler of the metrics server: a ServeMux panics if a pattern does not parse or is
\* there already.
HandlerPanics(c) == c.metricsPath \notin Patterns \/ c.metricsPath = "/healthz"

-----------------------------------------------------------------------------
(* What the parts need *)

\* ConfigAssumption of Aggregator, PipelineAssumption and ConsumerAssumption, and a
\* refresh interval that time.NewTicker does not panic on.
Sound(c) ==
  /\ c.window > 0 /\ c.bucketSize > 0 /\ c.window % c.bucketSize = 0
  /\ c.window \div c.bucketSize > 0
  /\ c.allowedFutureSkew > 0 /\ c.topRefreshInterval > 0 /\ c.maxQueryRunes > 0
  /\ c.defaultLimit > 0 /\ c.maxLimit >= c.defaultLimit
  /\ c.startOffset \in {"latest", "earliest"} /\ c.commitRetries > 0

\* What nothing checks: sizes that can be allocated, an interval that a Duration can
\* hold, a path for the metrics that can be registered.
Ordinary(c) ==
  /\ c.bucketSize > 0 => c.window \div c.bucketSize <= MaxElements
  /\ c.maxLimit <= MaxElements
  /\ c.commitInterval * Millisecond < DurationLimit
  /\ ~HandlerPanics(c)

==============================================================================
