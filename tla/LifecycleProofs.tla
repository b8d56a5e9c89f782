-------------------------- MODULE LifecycleProofs ---------------------------
(***************************************************************************)
(* The safety properties of Lifecycle, for all configuration files and any *)
(* number of calls and scrapes.                                            *)
(*                                                                         *)
(* The inductive invariant says what each phase of run has checked, what   *)
(* the goroutines of the group may have returned in it, and which calls    *)
(* the gRPC server may still be serving when Serve has returned.           *)
(***************************************************************************)
EXTENDS Lifecycle, TLAPS

-----------------------------------------------------------------------------
(* The configuration *)

\* The numbers of a configuration.
LEMMA ConfigNumbers ==
  ASSUME NEW c \in Configs
  PROVE  /\ c.metricsPort \in Int /\ c.minBytes \in Int /\ c.maxBytes \in Int
         /\ c.maxWait \in Int /\ c.commitInterval \in Int /\ c.commitRetries \in Int
         /\ c.retryBackoff \in Int /\ c.window \in Int /\ c.bucketSize \in Int
         /\ c.defaultLimit \in Int /\ c.maxLimit \in Int /\ c.topRefreshInterval \in Int
         /\ c.maxQueryRunes \in Int /\ c.allowedFutureSkew \in Int
BY Zenon DEF Configs

\* What the aggregator needs of its settings.
AggregatorSound(c) ==
  /\ c.window > 0 /\ c.bucketSize > 0 /\ c.window % c.bucketSize = 0
  /\ c.window \div c.bucketSize > 0
  /\ c.allowedFutureSkew > 0 /\ c.topRefreshInterval > 0 /\ c.maxQueryRunes > 0

\* A window that its buckets divide has at least one.
LEMMA WholeBuckets ==
  ASSUME NEW w \in Int, NEW b \in Int, w > 0, b > 0, w % b = 0
  PROVE  w \div b > 0
<1>1. w \div b \in Int /\ w = b * (w \div b) + (w % b)
  OBVIOUS
<1> QED BY <1>1

\* aggregator.New turns a valid configuration that it accepts into one that it can
\* work with, and which is still valid; and if it is ordinary, it can be allocated.
LEMMA AggregatorConfigSound ==
  ASSUME NEW c \in Configs, Validate(c), AggregatorAccepts(c)
  PROVE  /\ AggregatorConfig(c) \in Configs
         /\ Validate(AggregatorConfig(c)) /\ AggregatorSound(AggregatorConfig(c))
         /\ Ordinary(c) => Ordinary(AggregatorConfig(c)) /\ ~MakePanics(AggregatorConfig(c))
<1> DEFINE d == AggregatorConfig(c)
           size == Positive(c.bucketSize, 1000 * Millisecond)
           interval == Positive(c.topRefreshInterval, 500 * Millisecond)
           runes == Positive(c.maxQueryRunes, 256)
           skew == Positive(c.allowedFutureSkew, 5000 * Millisecond)
<1>1. /\ size \in Int /\ interval \in Int /\ runes \in Int /\ skew \in Int
      /\ size > 0 /\ interval > 0 /\ runes > 0 /\ skew > 0
  BY ConfigNumbers, SettingsAssumption DEF Positive
<1>2. c.window > 0 /\ c.window % size = 0
  BY DEF AggregatorAccepts
<1>3. d = [c EXCEPT !.bucketSize = size, !.topRefreshInterval = interval,
                    !.maxQueryRunes = runes, !.allowedFutureSkew = skew]
  BY DEF AggregatorConfig
<1> HIDE DEF d, size, interval, runes, skew
<1>4. d \in Configs
  <2>1. [c EXCEPT !.bucketSize = size, !.topRefreshInterval = interval,
                  !.maxQueryRunes = runes, !.allowedFutureSkew = skew] \in Configs
    BY <1>1, Zenon DEF Configs
  <2> QED BY <1>3, <2>1
<1>5. /\ d.window = c.window /\ d.bucketSize = size /\ d.topRefreshInterval = interval
      /\ d.maxQueryRunes = runes /\ d.allowedFutureSkew = skew
  BY <1>3 DEF Configs
<1>6. Validate(d)
  <2>1. /\ d.grpcAddr = c.grpcAddr /\ d.metricsHost = c.metricsHost
        /\ d.metricsPort = c.metricsPort /\ d.metricsPath = c.metricsPath
        /\ d.brokers = c.brokers /\ d.topic = c.topic /\ d.groupID = c.groupID
    BY <1>3 DEF Configs
  <2>2. /\ d.minBytes = c.minBytes /\ d.maxBytes = c.maxBytes /\ d.maxWait = c.maxWait
        /\ d.commitInterval = c.commitInterval /\ d.startOffset = c.startOffset
        /\ d.defaultLimit = c.defaultLimit /\ d.maxLimit = c.maxLimit
    BY <1>3 DEF Configs
  <2> QED BY <2>1, <2>2, <1>1, <1>5 DEF Validate
<1>7. AggregatorSound(d)
  <2>1. c.window \div size > 0
    BY <1>1, <1>2, ConfigNumbers, WholeBuckets
  <2> QED BY <1>1, <1>2, <1>5, <2>1 DEF AggregatorSound
<1>8. ASSUME Ordinary(c) PROVE Ordinary(d) /\ ~MakePanics(d)
  <2>1. d.maxLimit = c.maxLimit /\ d.commitInterval = c.commitInterval
        /\ d.metricsPath = c.metricsPath
    BY <1>3 DEF Configs
  <2>2. c.bucketSize > 0 BY DEF Validate
  <2>3. size = c.bucketSize BY <2>2, ConfigNumbers DEF size, Positive
  <2>4. c.window \div c.bucketSize <= MaxElements /\ c.maxLimit <= MaxElements
    BY <1>8, <2>2 DEF Ordinary
  <2>5. d.window \div d.bucketSize <= MaxElements /\ d.maxLimit <= MaxElements
    BY <1>5, <2>1, <2>3, <2>4
  <2>6. Ordinary(d) BY <1>8, <2>1, <2>5 DEF Ordinary, HandlerPanics
  <2>7. d.window \div d.bucketSize \in Int /\ d.maxLimit \in Int
    BY <1>1, <1>4, <1>5, ConfigNumbers
  <2> QED BY <2>5, <2>6, <2>7, SettingsAssumption DEF MakePanics
<1> QED BY <1>4, <1>6, <1>7, <1>8 DEF d

\* A duration that fits is what it should be.
LEMMA DurationFits ==
  ASSUME NEW ms \in Int, ms >= 0, ms * Millisecond < DurationLimit
  PROVE  Duration(ms) = ms * Millisecond /\ Duration(ms) >= 0
<1> DEFINE x == ms * Millisecond
<1>1. x \in Int /\ x >= 0 /\ DurationLimit \in Int /\ DurationLimit > 0
  BY SettingsAssumption
<1>2. x < DurationLimit OBVIOUS
<1>3. Duration(ms) = ((x + DurationLimit) % (2 * DurationLimit)) - DurationLimit
  BY DEF Duration
<1> HIDE DEF x
<1>4. ASSUME NEW n \in Int, NEW k \in Int, 0 <= k, k < n PROVE k % n = k
  BY <1>4
<1>5. (x + DurationLimit) % (2 * DurationLimit) = x + DurationLimit
  BY <1>1, <1>2, <1>4
<1>6. Duration(ms) = x /\ x >= 0 BY <1>1, <1>3, <1>5
<1> QED BY <1>6 DEF x

\* newKafkaReader and NewConsumerWithReader complete what the other parts need, and
\* what they hand to kafka.NewReader is in order; and if the configuration is ordinary, no
\* goroutine panics on it later.
LEMMA ConsumerConfigSound ==
  ASSUME NEW c \in Configs, Validate(c), AggregatorSound(c)
  PROVE  /\ Sound(ConsumerConfig(c)) /\ ~ReaderPanics(ConsumerConfig(c))
         /\ Ordinary(c) => Doomed(ConsumerConfig(c)) = {}
<1> DEFINE d == ConsumerConfig(c)
<1>1. StartOffset(c.startOffset) \in {"latest", "earliest"}
  BY DEF Validate, StartOffset
<1>2. /\ d.window = c.window /\ d.bucketSize = c.bucketSize
      /\ d.allowedFutureSkew = c.allowedFutureSkew /\ d.maxQueryRunes = c.maxQueryRunes
      /\ d.topRefreshInterval = c.topRefreshInterval
      /\ d.defaultLimit = c.defaultLimit /\ d.maxLimit = c.maxLimit
      /\ d.startOffset = StartOffset(c.startOffset)
      /\ d.commitInterval = Duration(c.commitInterval) /\ d.metricsPath = c.metricsPath
      /\ d.commitRetries = Positive(c.commitRetries, 3)
      /\ d.minBytes = Positive(c.minBytes, 1)
      /\ d.maxBytes = Positive(c.maxBytes, 10 * 1024 * 1024)
  BY DEF ConsumerConfig, Configs
<1> HIDE DEF d
<1>3. d.commitRetries > 0 /\ ~(d.minBytes > d.maxBytes)
  <2>1. c.minBytes > 0 /\ c.maxBytes >= c.minBytes
    BY DEF Validate
  <2> QED BY <1>2, <2>1, ConfigNumbers DEF Positive
<1>4. c.defaultLimit > 0 /\ c.maxLimit >= c.defaultLimit /\ c.commitInterval >= 0
  BY DEF Validate
<1>5. Sound(d)
  BY <1>1, <1>2, <1>3, <1>4 DEF Sound, AggregatorSound
<1>6. ASSUME Ordinary(c) PROVE Doomed(d) = {}
  <2>1. Duration(c.commitInterval) >= 0
    BY <1>4, <1>6, ConfigNumbers, DurationFits DEF Ordinary
  <2>2. Duration(c.commitInterval) \in Int
    <3>1. c.commitInterval * Millisecond \in Int /\ 2 * DurationLimit \in Nat \ {0}
          /\ DurationLimit \in Int
      BY ConfigNumbers, SettingsAssumption
    <3> QED BY <3>1 DEF Duration
  <2>3. ~TickerPanics(d) BY <1>2, <2>1, <2>2 DEF TickerPanics
  <2>4. ~HandlerPanics(d) BY <1>2, <1>6 DEF Ordinary, HandlerPanics
  <2> QED BY <2>3, <2>4 DEF Doomed
<1> QED BY <1>3, <1>5, <1>6 DEF ReaderPanics, d

-----------------------------------------------------------------------------
(* The inductive invariant *)

BeforeConsumer == {"starting", "loaded", "counting"}

\* What has been checked of the configuration in each phase.
Checked ==
  /\ process = "starting" => cfg \in Files /\ (ordinary => Ordinary(Unmarshal(cfg)))
  /\ process = "loaded" => Validate(cfg) /\ (ordinary => Ordinary(cfg))
  /\ process = "counting" => Validate(cfg) /\ AggregatorSound(cfg) /\ (ordinary => Ordinary(cfg))
  /\ ordinary => doomed = {}
  /\ WiredIsSound
  /\ KnownPanicsOnly

\* What the goroutines may have returned in each phase, and the exit code with it.
Phases ==
  /\ process \in BeforeConsumer \cup {"wired"} =>
       /\ part = [p \in Parts |-> "none"]
       /\ firstError = "none" /\ faults = {} /\ exitCode = 0
  /\ process = "running" =>
       /\ \A p \in Parts : part[p] # "none"
       /\ exitCode = 0 /\ ((firstError # "none") = (faults # {}))
  /\ process = "closing" \/ (process = "exited" /\ faults \cap Panics = {}) =>
       \A p \in Parts : part[p] # "running"
  /\ process \in {"closing", "exited"} => (exitCode # 0) = (faults # {})

\* The reader is there from NewConsumer to the deferred Close.
ReaderOpen ==
  /\ process \in BeforeConsumer => reader = "none"
  /\ process \in {"wired", "running", "closing"} => reader = "open"
  /\ process = "exited" /\ faults \cap Panics = {} => reader # "open"
  /\ reader = "closed" => part["consumer"] # "running"

NoCalls == requests = 0 /\ streams = 0

\* When there can be calls: never without Serve, nor after GracefulStop has returned,
\* nor once Serve has returned, unless that was because it could not accept any more.
Served ==
  /\ part["grpc"] = "none" => grpc = "start"
  /\ part["grpc"] \in {"nil", "error"} => grpc \in {"unbound", "ended"}
  /\ grpc \in {"start", "unbound", "bound"} => NoCalls
  /\ stopper = "stopped" => NoCalls
  /\ grpc = "ended" /\ "serve" \notin faults =>
       stopper \in {"stopping", "stopped"} /\ NoCalls

IInv == TypeOK /\ Checked /\ Phases /\ ReaderOpen /\ Served

\* A start without anything to load, to serve or to close.
LEMMA InitInvariant == Init => IInv
<1> SUFFICES ASSUME Init PROVE IInv OBVIOUS
<1>1. TypeOK
  <2>1. MaxRequests \in Nat /\ MaxStreams \in Nat /\ MaxScrapes \in Nat
    BY LifecycleAssumption
  <2>2. requests \in 0..MaxRequests /\ streams \in 0..MaxStreams /\ scrapes \in 0..MaxScrapes
    BY <2>1 DEF Init
  <2>3. ordinary \in BOOLEAN
    BY DEF Init, Ordinary
  <2> QED BY <2>2, <2>3, Zenon DEF Init, TypeOK
<1>2. Checked
  BY DEF Init, Checked, WiredIsSound, KnownPanicsOnly
<1>3. Phases
  BY DEF Init, Phases
<1>4. ReaderOpen
  BY DEF Init, ReaderOpen, BeforeConsumer
<1>5. Served
  BY DEF Init, Served, NoCalls, Parts
<1> QED BY <1>1, <1>2, <1>3, <1>4, <1>5 DEF IInv

\* Steps that leave the group alone keep what it says.
LEMMA GroupInvariant ==
  ASSUME IInv, UNCHANGED <<group, faults>>
  PROVE  Checked' /\ Phases' /\ ReaderOpen'
<1>1. Checked'
  BY DEF IInv, Checked, WiredIsSound, KnownPanicsOnly, group
<1>2. Phases'
  BY DEF IInv, Phases, group
<1>3. ReaderOpen'
  BY DEF IInv, ReaderOpen, group
<1> QED BY <1>1, <1>2, <1>3

\* Steps that leave the gRPC server and its part alone keep what it says; a further
\* fault only weakens it.
LEMMA ServedInvariant ==
  ASSUME IInv, UNCHANGED grpcServer, part'["grpc"] = part["grpc"], faults \subseteq faults'
  PROVE  Served'
BY DEF IInv, Served, NoCalls, grpcServer

\* The return of a goroutine of the group: the group keeps an error exactly when
\* something has gone wrong.
LEMMA ReturnInvariant ==
  ASSUME IInv, NEW p \in Parts, NEW result \in {"nil", "error"},
         Running(p), Return(p, result),
         \/ result = "nil" /\ faults' = faults
         \/ result = "error" /\ \E fault \in {"commit", "listen", "serve", "metrics"} :
                                   faults' = faults \cup {fault}
  PROVE  /\ Checked' /\ Phases' /\ ReaderOpen'
         /\ firstError' \in Parts \cup {"none"}
         /\ part' \in [Parts -> {"none", "running", "nil", "error"}]
         /\ part'[p] = result /\ \A q \in Parts \ {p} : part'[q] = part[q]
         /\ UNCHANGED <<process, cfg, exitCode, signalled, reader, doomed, ordinary>>
         /\ faults' \subseteq {"construct", "commit", "listen", "serve", "metrics"} \cup Panics
<1>1. /\ process = "running" /\ part[p] = "running"
      /\ part' = [part EXCEPT ![p] = result]
      /\ firstError' = IF result = "error" /\ firstError = "none" THEN p ELSE firstError
      /\ UNCHANGED <<process, cfg, exitCode, signalled, reader, doomed, ordinary>>
  BY DEF Running, Return
<1>2. /\ part' \in [Parts -> {"none", "running", "nil", "error"}]
      /\ part'[p] = result /\ \A q \in Parts \ {p} : part'[q] = part[q]
  BY <1>1 DEF IInv, TypeOK
<1>3. firstError' \in Parts \cup {"none"}
  BY <1>1 DEF IInv, TypeOK
<1>4. faults' \subseteq {"construct", "commit", "listen", "serve", "metrics"} \cup Panics
  BY DEF IInv, TypeOK
<1>5. Checked'
  BY <1>1 DEF IInv, Checked, WiredIsSound, KnownPanicsOnly, Panics
<1>6. Phases'
  <2>1. \A q \in Parts : part'[q] # "none"
    BY <1>1, <1>2 DEF IInv, Phases
  <2>2. (firstError' # "none") = (faults' # {})
    BY <1>1 DEF IInv, Phases, Parts
  <2> QED BY <1>1, <2>1, <2>2 DEF IInv, Phases, BeforeConsumer
<1>7. ReaderOpen'
  BY <1>1 DEF IInv, ReaderOpen
<1> QED BY <1>1, <1>2, <1>3, <1>4, <1>5, <1>6, <1>7

-----------------------------------------------------------------------------
(* run *)

\* Refuse, with the parts that it leaves alone.
LEMMA RefuseInvariant ==
  ASSUME IInv, process \in BeforeConsumer, Refuse,
         UNCHANGED <<signalled, firstError, part, ordinary, grpcServer, metricsServer>>
  PROVE  IInv'
<1>1. TypeOK'
  BY DEF Refuse, IInv, TypeOK, BeforeConsumer, grpcServer, metricsServer
<1>2. Checked'
  BY DEF Refuse, IInv, Checked, WiredIsSound, KnownPanicsOnly, Panics
<1>3. Phases'
  BY DEF Refuse, IInv, Phases, BeforeConsumer
<1>4. ReaderOpen'
  BY DEF Refuse, IInv, ReaderOpen, BeforeConsumer
<1>5. Served'
  BY ServedInvariant DEF Refuse
<1> QED BY <1>1, <1>2, <1>3, <1>4, <1>5 DEF IInv

\* A panic over settings that are not ordinary, wherever it happens but in NewReader.
LEMMA PanicInvariant ==
  ASSUME IInv, NEW place \in Panics \ {"NewReader"}, ~ordinary, Panic(place),
         UNCHANGED <<signalled, firstError, part, ordinary, grpcServer, metricsServer>>
  PROVE  IInv'
<1>1. /\ process' = "exited" /\ exitCode' = 2 /\ faults' = faults \cup {place}
      /\ cfg' = NoSettings /\ reader' = reader /\ doomed' = doomed
  BY DEF Panic
<1>2. TypeOK'
  BY <1>1 DEF IInv, TypeOK, grpcServer, metricsServer
<1>3. Checked'
  BY <1>1 DEF IInv, Checked, WiredIsSound, KnownPanicsOnly
<1>4. Phases'
  BY <1>1 DEF IInv, Phases, BeforeConsumer
<1>5. ReaderOpen'
  BY <1>1 DEF IInv, ReaderOpen, BeforeConsumer
<1>6. Served'
  BY <1>1, ServedInvariant
<1> QED BY <1>2, <1>3, <1>4, <1>5, <1>6 DEF IInv

\* A step from one phase of the start to the next one.
LEMMA AdvanceInvariant ==
  ASSUME IInv, process \in BeforeConsumer, Checked',
         process' \in BeforeConsumer \cup {"wired"},
         process' \in {"loaded", "counting"} => cfg' \in Configs,
         reader' = IF process' = "wired" THEN "open" ELSE "none",
         doomed' \subseteq {"commitLoop", "metrics"},
         UNCHANGED <<exitCode, faults, signalled, firstError, part, ordinary, grpcServer,
                     metricsServer>>
  PROVE  IInv'
<1>1. TypeOK'
  BY DEF IInv, TypeOK, BeforeConsumer, grpcServer, metricsServer
<1>2. Phases'
  BY DEF IInv, Phases, BeforeConsumer
<1>3. ReaderOpen'
  BY DEF ReaderOpen, BeforeConsumer
<1>4. Served'
  BY ServedInvariant
<1> QED BY <1>1, <1>2, <1>3, <1>4 DEF IInv

\* config.Load keeps only a configuration that its checks accept.
LEMMA LoadInvariant == ASSUME IInv, Load PROVE IInv'
<1>1. process = "starting" /\ process \in BeforeConsumer
  BY DEF Load, BeforeConsumer
<1>2. CASE Validate(Unmarshal(cfg))
  <2>1. /\ process' = "loaded" /\ cfg' = Unmarshal(cfg)
        /\ UNCHANGED <<exitCode, reader, doomed, faults, signalled, firstError, part, ordinary,
                       grpcServer, metricsServer>>
    BY <1>2 DEF Load
  <2>2. cfg' \in Configs
    BY <1>1, <2>1, FilesAssumption DEF IInv, Checked
  <2>3. Checked'
    BY <1>1, <1>2, <2>1 DEF IInv, Checked, WiredIsSound, KnownPanicsOnly
  <2>4. reader' = "none" /\ doomed' \subseteq {"commitLoop", "metrics"}
    BY <1>1, <2>1 DEF IInv, ReaderOpen, TypeOK
  <2> QED BY <1>1, <2>1, <2>2, <2>3, <2>4, AdvanceInvariant DEF BeforeConsumer
<1>3. CASE ~Validate(Unmarshal(cfg))
  BY <1>1, <1>3, RefuseInvariant DEF Load
<1> QED BY <1>2, <1>3

\* NewInMemoryAggregator: a part is wired only if its checks pass.
LEMMA NewAggregatorInvariant == ASSUME IInv, NewAggregator PROVE IInv'
<1>1. /\ process = "loaded" /\ process \in BeforeConsumer
      /\ cfg \in Configs /\ Validate(cfg) /\ (ordinary => Ordinary(cfg))
  BY DEF NewAggregator, BeforeConsumer, IInv, TypeOK, Checked
<1>2. CASE AggregatorAccepts(cfg) /\ ~MakePanics(AggregatorConfig(cfg))
  <2>1. /\ process' = "counting" /\ cfg' = AggregatorConfig(cfg)
        /\ UNCHANGED <<exitCode, reader, doomed, faults, signalled, firstError, part, ordinary,
                       grpcServer, metricsServer>>
    BY <1>2 DEF NewAggregator
  <2>2. /\ cfg' \in Configs /\ Validate(cfg') /\ AggregatorSound(cfg')
        /\ ordinary => Ordinary(cfg')
    BY <1>1, <1>2, <2>1, AggregatorConfigSound
  <2>3. Checked'
    BY <1>1, <2>1, <2>2 DEF IInv, Checked, WiredIsSound, KnownPanicsOnly
  <2>4. reader' = "none" /\ doomed' \subseteq {"commitLoop", "metrics"}
    BY <1>1, <2>1 DEF IInv, ReaderOpen, TypeOK
  <2> QED BY <1>1, <2>1, <2>2, <2>3, <2>4, AdvanceInvariant DEF BeforeConsumer
<1>3. CASE ~AggregatorAccepts(cfg)
  BY <1>1, <1>3, RefuseInvariant DEF NewAggregator
<1>4. CASE AggregatorAccepts(cfg) /\ MakePanics(AggregatorConfig(cfg))
  <2>1. ~ordinary
    BY <1>1, <1>4, AggregatorConfigSound
  <2>2. /\ Panic("make")
        /\ UNCHANGED <<signalled, firstError, part, ordinary, grpcServer, metricsServer>>
    BY <1>4 DEF NewAggregator
  <2> QED BY <2>1, <2>2, PanicInvariant DEF Panics
<1> QED BY <1>2, <1>3, <1>4

\* NewConsumer opens the reader that the consumer goroutine will use.
LEMMA NewConsumerInvariant == ASSUME IInv, NewConsumer PROVE IInv'
<1>1. /\ process = "counting" /\ process \in BeforeConsumer
      /\ cfg \in Configs /\ Validate(cfg) /\ AggregatorSound(cfg)
      /\ ordinary => Ordinary(cfg)
  BY DEF NewConsumer, BeforeConsumer, IInv, TypeOK, Checked
<1>2. CASE ConsumerAccepts(cfg)
  <2>1. /\ Sound(ConsumerConfig(cfg)) /\ ~ReaderPanics(ConsumerConfig(cfg))
        /\ ordinary => Doomed(ConsumerConfig(cfg)) = {}
    BY <1>1, ConsumerConfigSound
  <2>2. /\ process' = "wired" /\ cfg' = ConsumerConfig(cfg) /\ reader' = "open"
        /\ doomed' = Doomed(cfg')
        /\ UNCHANGED <<exitCode, faults, signalled, firstError, part, ordinary, grpcServer,
                       metricsServer>>
    BY <1>2, <2>1 DEF NewConsumer
  <2>3. Checked'
    BY <2>1, <2>2 DEF IInv, Checked, WiredIsSound, KnownPanicsOnly
  <2>4. doomed' \subseteq {"commitLoop", "metrics"}
    BY <2>2 DEF Doomed
  <2> QED BY <1>1, <2>2, <2>3, <2>4, AdvanceInvariant DEF BeforeConsumer
<1>3. CASE ~ConsumerAccepts(cfg)
  BY <1>1, <1>3, RefuseInvariant DEF NewConsumer
<1> QED BY <1>2, <1>3

\* The goroutines of the group start with the parts that have been wired.
LEMMA StartGroupInvariant == ASSUME IInv, StartGroup PROVE IInv'
<1>1. /\ process = "wired"
      /\ UNCHANGED <<signalled, firstError, reader, doomed, ordinary, grpcServer,
                     metricsServer>>
      /\ \/ /\ process' = "running" /\ part' = [p \in Parts |-> "running"]
            /\ UNCHANGED <<exitCode, faults>>
         \/ /\ process' = "closing" /\ exitCode' = 1 /\ faults' = faults \cup {"construct"}
            /\ UNCHANGED part
  BY DEF StartGroup
<1>2. TypeOK'
  <2>1. part' \in [Parts -> {"none", "running", "nil", "error"}]
    BY <1>1 DEF IInv, TypeOK
  <2>2. /\ process' \in {"running", "closing"} /\ exitCode' \in {0, 1, 2}
        /\ faults' \subseteq {"construct", "commit", "listen", "serve", "metrics"} \cup Panics
    BY <1>1 DEF IInv, TypeOK
  <2> QED BY <1>1, <2>1, <2>2 DEF IInv, TypeOK, grpcServer, metricsServer
<1>3. Checked'
  BY <1>1 DEF IInv, Checked, WiredIsSound, KnownPanicsOnly, Panics
<1>4. Phases'
  BY <1>1 DEF IInv, Phases, BeforeConsumer
<1>5. ReaderOpen'
  BY <1>1 DEF IInv, ReaderOpen, BeforeConsumer
<1>6. Served'
  <2>1. part["grpc"] = "none" /\ (part'["grpc"] = "running" \/ part' = part)
    BY <1>1 DEF IInv, Phases, Parts
  <2> QED BY <1>1, <2>1 DEF IInv, Served, NoCalls, grpcServer
<1> QED BY <1>2, <1>3, <1>4, <1>5, <1>6 DEF IInv

\* group.Wait returns the first error once every goroutine is back.
LEMMA WaitInvariant == ASSUME IInv, Wait PROVE IInv'
<1>1. /\ process = "running" /\ process' = "closing"
      /\ \A p \in Parts : part[p] # "running"
      /\ exitCode' = IF firstError = "none" THEN 0 ELSE 1
      /\ UNCHANGED <<cfg, signalled, firstError, part, reader, doomed, ordinary, grpcServer,
                     metricsServer, faults>>
  BY DEF Wait, AllReturned
<1>2. TypeOK'
  BY <1>1 DEF IInv, TypeOK, grpcServer, metricsServer
<1>3. Checked'
  BY <1>1 DEF IInv, Checked, WiredIsSound, KnownPanicsOnly
<1>4. Phases'
  BY <1>1 DEF IInv, Phases, BeforeConsumer
<1>5. ReaderOpen'
  BY <1>1 DEF IInv, ReaderOpen, BeforeConsumer
<1> QED BY <1>1, <1>2, <1>3, <1>4, <1>5, ServedInvariant DEF IInv

\* The deferred close and the exit code come after the group.
LEMMA CloseAndExitInvariant == ASSUME IInv, CloseAndExit PROVE IInv'
<1>1. /\ process = "closing" /\ process' = "exited" /\ reader' = "closed"
      /\ UNCHANGED <<cfg, exitCode, signalled, firstError, part, doomed, ordinary, grpcServer,
                     metricsServer, faults>>
  BY DEF CloseAndExit
<1>2. TypeOK'
  BY <1>1 DEF IInv, TypeOK, grpcServer, metricsServer
<1>3. Checked'
  BY <1>1 DEF IInv, Checked, WiredIsSound, KnownPanicsOnly
<1>4. Phases'
  BY <1>1 DEF IInv, Phases, BeforeConsumer
<1>5. ReaderOpen'
  BY <1>1 DEF IInv, ReaderOpen, BeforeConsumer, Phases, Parts
<1> QED BY <1>1, <1>2, <1>3, <1>4, <1>5, ServedInvariant DEF IInv

\* A signal only cancels the context.
LEMMA SignalInvariant == ASSUME IInv, Signal PROVE IInv'
<1>1. /\ signalled' = TRUE
      /\ UNCHANGED <<process, cfg, exitCode, firstError, part, reader, doomed, ordinary,
                     grpcServer, metricsServer, faults>>
  BY DEF Signal
<1>2. TypeOK'
  BY <1>1 DEF IInv, TypeOK, grpcServer, metricsServer
<1>3. Checked' /\ Phases' /\ ReaderOpen'
  BY <1>1 DEF IInv, Checked, WiredIsSound, KnownPanicsOnly, Phases, ReaderOpen
<1> QED BY <1>1, <1>2, <1>3, ServedInvariant DEF IInv

-----------------------------------------------------------------------------
(* The servers and their clients *)

\* AggregatorReturns, ConsumerReturns, ConsumerTimesOut and ConsumerFails.
LEMMA GroupReturnInvariant ==
  ASSUME IInv, AggregatorReturns \/ ConsumerReturns \/ ConsumerTimesOut \/ ConsumerFails
  PROVE  IInv'
<1>1. PICK p \in {"aggregator", "consumer"}, result \in {"nil", "error"} :
        /\ Running(p) /\ Return(p, result) /\ UNCHANGED <<grpcServer, metricsServer>>
        /\ \/ result = "nil" /\ faults' = faults
           \/ result = "error" /\ faults' = faults \cup {"commit"}
  BY DEF AggregatorReturns, ConsumerReturns, ConsumerTimesOut, ConsumerFails
<1>2. p \in Parts /\ "grpc" \in Parts \ {p}
  BY DEF Parts
<1>3. /\ Checked' /\ Phases' /\ ReaderOpen' /\ part'["grpc"] = part["grpc"]
      /\ firstError' \in Parts \cup {"none"}
      /\ part' \in [Parts -> {"none", "running", "nil", "error"}]
      /\ UNCHANGED <<process, cfg, exitCode, signalled, reader, doomed, ordinary>>
      /\ faults' \subseteq {"construct", "commit", "listen", "serve", "metrics"} \cup Panics
  BY <1>1, <1>2, ReturnInvariant
<1>4. TypeOK'
  BY <1>1, <1>3 DEF IInv, TypeOK, grpcServer, metricsServer
<1>5. Served'
  BY <1>1, <1>3, ServedInvariant
<1> QED BY <1>3, <1>4, <1>5 DEF IInv

\* Listen and Serve: GRPCServer.Run goes on.
LEMMA ListenInvariant ==
  ASSUME IInv, Listen \/ Serve
  PROVE  IInv'
<1>1. /\ Running("grpc") /\ UNCHANGED <<group, faults, requests, streams, metricsServer>>
      /\ \/ grpc = "start" /\ grpc' = "bound" /\ stopper' = "waiting"
         \/ grpc = "bound" /\ grpc' = "serving" /\ stopper = "waiting" /\ stopper' = stopper
  BY DEF Listen, Serve
<1>2. TypeOK'
  BY <1>1 DEF IInv, TypeOK, group, metricsServer
<1>3. Served'
  BY <1>1 DEF IInv, Served, NoCalls, Running, group
<1> QED BY <1>1, <1>2, <1>3, GroupInvariant DEF IInv

\* GRPCServer.Run returns because it cannot listen, is refused, cannot accept any
\* more, or was stopped.
LEMMA GrpcReturnInvariant ==
  ASSUME IInv, ListenFails \/ ServeRefused \/ ServeFails \/ ServeReturns
  PROVE  IInv'
<1>1. PICK result \in {"nil", "error"} :
        /\ Running("grpc") /\ Return("grpc", result)
        /\ UNCHANGED <<stopper, requests, streams, metricsServer>>
        /\ \/ /\ grpc = "start" /\ grpc' = "unbound" /\ result = "error"
              /\ faults' = faults \cup {"listen"}
           \/ /\ grpc = "bound" /\ stopper # "waiting" /\ grpc' = "ended" /\ result = "nil"
              /\ faults' = faults
           \/ /\ grpc = "serving" /\ stopper = "waiting" /\ grpc' = "ended" /\ result = "error"
              /\ faults' = faults \cup {"serve"}
           \/ /\ grpc = "serving" /\ stopper = "stopped" /\ grpc' = "ended" /\ result = "nil"
              /\ faults' = faults
  BY DEF ListenFails, ServeRefused, ServeFails, ServeReturns, ServerResult
<1>2. "grpc" \in Parts
  BY DEF Parts
<1>3. /\ Checked' /\ Phases' /\ ReaderOpen' /\ part'["grpc"] = result
      /\ firstError' \in Parts \cup {"none"}
      /\ part' \in [Parts -> {"none", "running", "nil", "error"}]
      /\ UNCHANGED <<process, cfg, exitCode, signalled, reader, doomed, ordinary>>
      /\ faults' \subseteq {"construct", "commit", "listen", "serve", "metrics"} \cup Panics
  BY <1>1, <1>2, ReturnInvariant
<1>4. TypeOK'
  BY <1>1, <1>3 DEF IInv, TypeOK, metricsServer
<1>5. Served'
  BY <1>1, <1>3 DEF IInv, Served, NoCalls, TypeOK
<1> QED BY <1>3, <1>4, <1>5 DEF IInv

\* The goroutine that stops the gRPC server.
LEMMA StopperInvariant ==
  ASSUME IInv, GracefulStop \/ Drained
  PROVE  IInv'
<1>1. /\ UNCHANGED <<group, grpc, requests, streams, metricsServer, faults>>
      /\ \/ stopper = "waiting" /\ stopper' = "stopping"
         \/ stopper = "stopping" /\ stopper' = "stopped" /\ requests = 0 /\ streams = 0
  BY DEF GracefulStop, Drained, CallsEnded
<1>2. TypeOK'
  BY <1>1 DEF IInv, TypeOK, group, metricsServer
<1>3. Served'
  BY <1>1 DEF IInv, Served, NoCalls, group
<1> QED BY <1>1, <1>2, <1>3, GroupInvariant DEF IInv

\* Calls begin and end.
LEMMA CallsInvariant ==
  ASSUME IInv, RequestBegins \/ RequestEnds \/ StreamBegins \/ StreamEnds
  PROVE  IInv'
<1>1. /\ UNCHANGED <<group, grpc, stopper, metricsServer, faults>>
      /\ \/ /\ requests > 0 \/ streams > 0
            /\ \/ requests > 0 /\ requests' = requests - 1 /\ streams' = streams
               \/ streams > 0 /\ streams' = streams - 1 /\ requests' = requests
         \/ /\ grpc \in {"serving", "ended"} /\ stopper = "waiting"
            /\ \/ requests < MaxRequests /\ requests' = requests + 1 /\ streams' = streams
               \/ streams < MaxStreams /\ streams' = streams + 1 /\ requests' = requests
  BY DEF RequestBegins, RequestEnds, StreamBegins, StreamEnds, Reachable
<1>2. requests' \in 0..MaxRequests /\ streams' \in 0..MaxStreams
  BY <1>1, LifecycleAssumption DEF IInv, TypeOK
<1>3. TypeOK'
  BY <1>1, <1>2 DEF IInv, TypeOK, group, metricsServer
<1>4. Served'
  BY <1>1 DEF IInv, Served, NoCalls, TypeOK, group
<1> QED BY <1>1, <1>3, <1>4, GroupInvariant DEF IInv

\* The metrics server, the goroutine that stops it, and its clients.
LEMMA MetricsInvariant ==
  ASSUME IInv,
         \/ ListenAndServe \/ ShutdownBegins \/ (\E timeout \in BOOLEAN : ShutdownEnds(timeout))
         \/ ScrapeBegins \/ ScrapeEnds
  PROVE  IInv'
<1>1. /\ UNCHANGED <<group, grpcServer, faults>>
      /\ http' \in {http, "serving"} /\ shutdown' \in {shutdown, "draining", "done"}
      /\ \/ scrapes' = scrapes
         \/ scrapes < MaxScrapes /\ scrapes' = scrapes + 1
         \/ scrapes > 0 /\ scrapes' = scrapes - 1
  BY DEF ListenAndServe, ShutdownBegins, ShutdownEnds, ScrapeBegins, ScrapeEnds
<1>2. scrapes' \in 0..MaxScrapes
  BY <1>1, LifecycleAssumption DEF IInv, TypeOK
<1>3. TypeOK'
  BY <1>1, <1>2 DEF IInv, TypeOK, group, grpcServer
<1>4. Served'
  BY <1>1, ServedInvariant DEF group
<1> QED BY <1>1, <1>3, <1>4, GroupInvariant DEF IInv

\* MetricsServer.Run returns.
LEMMA MetricsReturnInvariant ==
  ASSUME IInv, ListenAndServeReturns \/ ListenAndServeFails
  PROVE  IInv'
<1>1. PICK result \in {"nil", "error"} :
        /\ Running("metrics") /\ Return("metrics", result) /\ http' = "ended"
        /\ UNCHANGED <<grpcServer, shutdown, scrapes>>
        /\ \/ result = "nil" /\ faults' = faults
           \/ result = "error" /\ faults' = faults \cup {"metrics"}
  BY DEF ListenAndServeReturns, ListenAndServeFails, ServerResult
<1>2. "metrics" \in Parts /\ "grpc" \in Parts \ {"metrics"}
  BY DEF Parts
<1>3. /\ Checked' /\ Phases' /\ ReaderOpen' /\ part'["grpc"] = part["grpc"]
      /\ firstError' \in Parts \cup {"none"}
      /\ part' \in [Parts -> {"none", "running", "nil", "error"}]
      /\ UNCHANGED <<process, cfg, exitCode, signalled, reader, doomed, ordinary>>
      /\ faults' \subseteq {"construct", "commit", "listen", "serve", "metrics"} \cup Panics
  BY <1>1, <1>2, ReturnInvariant
<1>4. TypeOK'
  BY <1>1, <1>3 DEF IInv, TypeOK, grpcServer
<1>5. Served'
  BY <1>1, <1>3, ServedInvariant
<1> QED BY <1>3, <1>4, <1>5 DEF IInv

\* The panics of the goroutines: only ordinary settings rule them out.
LEMMA GoroutinePanicInvariant ==
  ASSUME IInv, RegisterPanics \/ CommitLoopPanics
  PROVE  IInv'
<1>1. PICK place \in {"ServeMux", "NewTicker"} :
        /\ doomed # {} /\ Panic(place)
        /\ UNCHANGED <<signalled, firstError, part, ordinary, grpcServer, metricsServer>>
  BY DEF RegisterPanics, CommitLoopPanics
<1>2. ~ordinary /\ place \in Panics \ {"NewReader"}
  BY <1>1 DEF IInv, Checked, Panics
<1> QED BY <1>1, <1>2, PanicInvariant

\* Every step keeps the invariant.
LEMMA NextInvariant == IInv /\ [Next]_vars => IInv'
<1> SUFFICES ASSUME IInv, [Next]_vars PROVE IInv' OBVIOUS
<1>1. CASE Start
  BY <1>1, LoadInvariant, NewAggregatorInvariant, NewConsumerInvariant, StartGroupInvariant
     DEF Start
<1>2. CASE Signal \/ Wait \/ CloseAndExit
  BY <1>2, SignalInvariant, WaitInvariant, CloseAndExitInvariant
<1>3. CASE GroupReturns
  BY <1>3, GroupReturnInvariant DEF GroupReturns
<1>4. CASE GrpcRun
  BY <1>4, ListenInvariant, GrpcReturnInvariant DEF GrpcRun
<1>5. CASE Stopper
  BY <1>5, StopperInvariant DEF Stopper
<1>6. CASE MetricsRun \/ Shutdown
  BY <1>6, MetricsInvariant, MetricsReturnInvariant, GoroutinePanicInvariant
     DEF MetricsRun, Shutdown
<1>7. CASE Failures
  <2>1. CASE LoadFails
    BY <2>1, RefuseInvariant DEF LoadFails, BeforeConsumer
  <2>2. CASE ~LoadFails
    BY <1>7, <2>2, GroupReturnInvariant, GrpcReturnInvariant, MetricsReturnInvariant,
       GoroutinePanicInvariant DEF Failures
  <2> QED BY <2>1, <2>2
<1>8. CASE Clients
  BY <1>8, CallsInvariant, MetricsInvariant DEF Clients
<1>9. CASE UNCHANGED vars
  <2>1. UNCHANGED <<group, grpcServer, metricsServer, faults>>
    BY <1>9 DEF vars
  <2>2. TypeOK'
    BY <2>1 DEF IInv, TypeOK, group, grpcServer, metricsServer
  <2>3. Served'
    BY <2>1, ServedInvariant DEF group
  <2> QED BY <2>1, <2>2, <2>3, GroupInvariant DEF IInv
<1> QED BY <1>1, <1>2, <1>3, <1>4, <1>5, <1>6, <1>7, <1>8, <1>9 DEF Next

-----------------------------------------------------------------------------
(* Theorems *)

\* In every reachable state the invariant holds.
THEOREM Invariance == Spec => []IInv
BY InitInvariant, NextInvariant, PTL DEF Spec

\* Types, and a goroutine to stop the gRPC server exactly when there is a listener to
\* close (grpc.go:76-84).
THEOREM TypeCorrect == Spec => []TypeOK
<1>1. IInv => TypeOK BY DEF IInv
<1> QED BY <1>1, Invariance, PTL

\* For every configuration file, the parts are built with settings that they can work
\* with or not at all (config.go:97-148, aggregator.go:59-87, consumer.go:92-97,
\* 277-326).
THEOREM PartsSound == Spec => []WiredIsSound
<1>1. IInv => WiredIsSound BY DEF IInv, Checked
<1> QED BY <1>1, Invariance, PTL

\* No configuration file makes kafka.NewReader panic, and one with only ordinary settings
\* makes nothing panic, neither in the start nor in a goroutine later
\* (config.go:97-148, aggregator.go:94-96, main.go:88-89, consumer.go:287-314,
\* metrics.go:84-85).
THEOREM PanicsKnown == Spec => []KnownPanicsOnly
<1>1. IInv => KnownPanicsOnly BY DEF IInv, Checked
<1> QED BY <1>1, Invariance, PTL

\* The exit code tells a failure from an orderly end (main.go:25-30, 167-172).
THEOREM ExitCodeCorrect == Spec => []ExitCodeRight
<1>1. IInv => ExitCodeRight BY DEF IInv, Phases, ExitCodeRight
<1> QED BY <1>1, Invariance, PTL

\* The reader is never closed under the consumer, and is closed in the end unless
\* something panicked (main.go:128-132, 167).
THEOREM ReaderSafe == Spec => []ReaderClosedAfterUse
<1>1. IInv => ReaderClosedAfterUse
  BY DEF IInv, TypeOK, Phases, ReaderOpen, BeforeConsumer, ReaderClosedAfterUse, Parts
<1> QED BY <1>1, Invariance, PTL

\* The process never exits on a call that it is serving, unless accepting had failed or
\* something panicked (grpc.go:81-92).
THEOREM CallsSafe == Spec => []CallsDrained
<1>1. IInv => CallsDrained
  <2> SUFFICES ASSUME IInv, process = "exited",
                      faults \cap (Panics \cup {"serve"}) = {}
               PROVE  requests = 0 /\ streams = 0
    BY DEF CallsDrained
  <2>1. part["grpc"] \in {"none", "nil", "error"}
    BY DEF IInv, TypeOK, Phases, Parts
  <2> QED BY <2>1 DEF IInv, Served, NoCalls
<1> QED BY <1>1, Invariance, PTL

=============================================================================
