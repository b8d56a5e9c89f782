----------------------------- MODULE Lifecycle ------------------------------
(***************************************************************************)
(* The life of the process: run of cmd/app/main.go puts the parts          *)
(* together and starts four of them in an error group; GRPCServer.Run and  *)
(* MetricsServer.Run each start a goroutine that waits for the group's     *)
(* context and stops the server.                                           *)
(*                                                                         *)
(* run builds them one after the other from the configuration it has       *)
(* loaded; Settings says what each constructor makes of it.                *)
(*                                                                         *)
(* The context is done when a signal came or a part returned an error.     *)
(* The servers of net/http and grpc-go are external: Serve returns when    *)
(* GracefulStop has seen the end of the last call, ListenAndServe as soon  *)
(* as Shutdown begins; both refuse to serve after that.  A process that    *)
(* has exited does nothing more, whatever its goroutines were doing.       *)
(***************************************************************************)
EXTENDS Settings

CONSTANTS
  Files,         \* configuration files, each the settings that it has
  MaxRequests,   \* bound: unary calls of gRPC at a time
  MaxStreams,    \* bound: open streams at a time, such as a health watch
  MaxScrapes     \* bound: requests to the metrics server at a time

ASSUME LifecycleAssumption == {MaxRequests, MaxStreams, MaxScrapes} \subseteq Nat

\* yaml.Unmarshal refuses a value of another type than that of its field.
ASSUME FilesAssumption == \A file \in Files : Unmarshal(file) \in Configs

VARIABLES
  process,     \* "starting", "loaded", "counting", "wired", "running", "closing", "exited"
  cfg,         \* the settings in the file, then the configuration, until all have theirs
  exitCode,    \* of the process
  signalled,   \* a SIGINT or SIGTERM has come
  firstError,  \* the part whose error the group keeps, or "none"
  part,        \* what the four goroutines of the group have returned
  reader,      \* the Kafka reader: "none", "open" or "closed"
  doomed,      \* goroutines that panic on their settings: "commitLoop", "metrics"
  grpc,        \* the listener of gRPC: "start", "unbound", "bound", "serving", "ended"
  stopper,     \* the goroutine that calls GracefulStop
  requests, streams,   \* calls of gRPC that are being served
  http,        \* the metrics server: "start", "serving" or "ended"
  shutdown,    \* the goroutine that calls Shutdown
  scrapes,     \* requests that the metrics server is answering
  faults,      \* history: what went wrong
  ordinary     \* history: the file has only ordinary settings

group == <<process, cfg, exitCode, signalled, firstError, part, reader, doomed, ordinary>>
grpcServer == <<grpc, stopper, requests, streams>>
metricsServer == <<http, shutdown, scrapes>>
vars == <<group, grpcServer, metricsServer, faults>>

Parts == {"aggregator", "consumer", "grpc", "metrics"}

\* Fault: the parts get the context of the signal, not that of the group.
DoneOnSignal == signalled

\* groupCtx.Done() is closed.
Done == signalled \/ firstError # "none"

-----------------------------------------------------------------------------
(* run *)

\* No configuration.
NoSettings == [none |-> TRUE]

\* run returns an error before there is a consumer to close.
Refuse ==
  /\ process' = "exited"
  /\ exitCode' = 1
  /\ faults' = faults \cup {"construct"}
  /\ cfg' = NoSettings
  /\ UNCHANGED <<reader, doomed>>

\* A panic, of any goroutine, ends the process with what is open left open.
Panic(place) ==
  /\ process' = "exited"
  /\ exitCode' = 2
  /\ faults' = faults \cup {place}
  /\ cfg' = NoSettings
  /\ UNCHANGED <<reader, doomed>>

Panics == {"make", "NewReader", "NewTicker", "ServeMux"}

\* Load of a file that can be read and parsed.
Load ==
  /\ process = "starting"
  /\ IF Validate(Unmarshal(cfg))
     THEN /\ process' = "loaded"
          /\ cfg' = Unmarshal(cfg)
          /\ UNCHANGED <<exitCode, reader, doomed, faults>>
     ELSE Refuse
  /\ UNCHANGED <<signalled, firstError, part, ordinary, grpcServer, metricsServer>>

\* The file cannot be read or parsed, or there is no logger.
LoadFails ==
  /\ process = "starting"
  /\ Refuse
  /\ UNCHANGED <<signalled, firstError, part, ordinary, grpcServer, metricsServer>>

\* The logger, the metrics and the aggregator.
NewAggregator ==
  /\ process = "loaded"
  /\ IF ~AggregatorAccepts(cfg) THEN Refuse
     ELSE IF MakePanics(AggregatorConfig(cfg)) THEN Panic("make")
     ELSE /\ process' = "counting"
          /\ cfg' = AggregatorConfig(cfg)
          /\ UNCHANGED <<exitCode, reader, doomed, faults>>
  /\ UNCHANGED <<signalled, firstError, part, ordinary, grpcServer, metricsServer>>

\* The goroutines that panic when they come to it.
Doomed(c) ==
  (IF TickerPanics(c) THEN {"commitLoop"} ELSE {}) \cup
  (IF HandlerPanics(c) THEN {"metrics"} ELSE {})

\* The stop-list, the limiter and the consumer with its reader, whose goroutines start.
NewConsumer ==
  /\ process = "counting"
  /\ IF ~ConsumerAccepts(cfg) THEN Refuse
     ELSE IF ReaderPanics(ConsumerConfig(cfg)) THEN Panic("NewReader")
     ELSE /\ process' = "wired"
          /\ cfg' = ConsumerConfig(cfg)
          /\ reader' = "open"
          /\ doomed' = Doomed(cfg')
          /\ UNCHANGED <<exitCode, faults>>
  /\ UNCHANGED <<signalled, firstError, part, ordinary, grpcServer, metricsServer>>

\* NewGRPCServer, NewMetricsServer and the four group.Go.  An error leaves the deferred
\* Close to be done.
StartGroup ==
  /\ process = "wired"
  /\ cfg' = NoSettings
  /\ IF GRPCServerAccepts(cfg)
     THEN /\ process' = "running"
          /\ part' = [p \in Parts |-> "running"]
          /\ UNCHANGED <<exitCode, faults>>
     ELSE /\ process' = "closing" /\ exitCode' = 1
          /\ faults' = faults \cup {"construct"}
          /\ UNCHANGED part
  /\ UNCHANGED <<signalled, firstError, reader, doomed, ordinary, grpcServer, metricsServer>>

\* NotifyContext swallows every further signal.  (A signal before it is installed
\* kills the process, which has not done anything yet.)
Signal ==
  /\ process # "exited"
  /\ ~signalled
  /\ signalled' = TRUE
  /\ UNCHANGED <<process, cfg, exitCode, firstError, part, reader, doomed, ordinary,
                 grpcServer, metricsServer, faults>>

\* Fault: the first error ends the wait.
FirstReturned == firstError # "none" \/ \A p \in Parts : part[p] # "running"

AllReturned == \A p \in Parts : part[p] # "running"

Wait ==
  /\ process = "running"
  /\ AllReturned
  /\ process' = "closing"
  /\ exitCode' = IF firstError = "none" THEN 0 ELSE 1
  /\ UNCHANGED <<cfg, signalled, firstError, part, reader, doomed, ordinary,
                 grpcServer, metricsServer, faults>>

\* The deferred consumer.Close, and the end of main.
CloseAndExit ==
  /\ process = "closing"
  /\ reader' = "closed"
  /\ process' = "exited"
  /\ UNCHANGED <<cfg, exitCode, signalled, firstError, part, doomed, ordinary,
                 grpcServer, metricsServer, faults>>

-----------------------------------------------------------------------------
(* The goroutines of the group *)

\* The function that group.Go runs returns; the group keeps the first error.
Return(p, result) ==
  /\ part' = [part EXCEPT ![p] = result]
  /\ firstError' = IF result = "error" /\ firstError = "none" THEN p ELSE firstError
  /\ UNCHANGED <<process, cfg, exitCode, signalled, reader, doomed, ordinary>>

Running(p) == process = "running" /\ part[p] = "running"

AggregatorReturns ==
  /\ Running("aggregator")
  /\ Done
  /\ Return("aggregator", "nil")
  /\ UNCHANGED <<grpcServer, metricsServer, faults>>

ConsumerReturns ==
  /\ Running("consumer")
  /\ Done
  /\ Return("consumer", "nil")
  /\ UNCHANGED <<grpcServer, metricsServer, faults>>

\* A deadline of the Kafka client, which isContextError takes for the end of the context.
ConsumerTimesOut ==
  /\ Running("consumer")
  /\ ~Done
  /\ Return("consumer", "nil")
  /\ UNCHANGED <<grpcServer, metricsServer, faults>>

\* The retries of a commit are exhausted.
ConsumerFails ==
  /\ Running("consumer")
  /\ Return("consumer", "error")
  /\ faults' = faults \cup {"commit"}
  /\ UNCHANGED <<grpcServer, metricsServer>>

\* The commit loop of the reader creates its ticker when the reader has joined the group
\* of consumers, at any time until it is closed.
CommitLoopPanics ==
  /\ process # "exited" /\ reader = "open"
  /\ "commitLoop" \in doomed
  /\ Panic("NewTicker")
  /\ UNCHANGED <<signalled, firstError, part, ordinary, grpcServer, metricsServer>>

\* Fault: the errors of a server that was stopped are passed on.
ServerResultUnfiltered(err) == IF err = "none" THEN "nil" ELSE "error"

\* What the Run of a server makes of the error of Serve or ListenAndServe.
ServerResult(err) ==
  IF err \in {"none", "ErrServerStopped", "ErrServerClosed"} THEN "nil" ELSE "error"

-----------------------------------------------------------------------------
(* GRPCServer.Run *)

Listen ==
  /\ Running("grpc")
  /\ grpc = "start"
  /\ grpc' = "bound"
  /\ stopper' = "waiting"
  /\ UNCHANGED <<group, requests, streams, metricsServer, faults>>

\* Fault: the goroutine is started before the listener is there.
ListenFailsLate ==
  /\ Running("grpc")
  /\ grpc = "start"
  /\ grpc' = "unbound"
  /\ stopper' = "waiting"
  /\ Return("grpc", "error")
  /\ faults' = faults \cup {"listen"}
  /\ UNCHANGED <<requests, streams, metricsServer>>

ListenFails ==
  /\ Running("grpc")
  /\ grpc = "start"
  /\ grpc' = "unbound"
  /\ Return("grpc", "error")
  /\ faults' = faults \cup {"listen"}
  /\ UNCHANGED <<stopper, requests, streams, metricsServer>>

Serve ==
  /\ Running("grpc")
  /\ grpc = "bound"
  /\ stopper = "waiting"
  /\ grpc' = "serving"
  /\ UNCHANGED <<group, stopper, requests, streams, metricsServer, faults>>

\* GracefulStop was faster than Serve.
ServeRefused ==
  /\ Running("grpc")
  /\ grpc = "bound"
  /\ stopper # "waiting"
  /\ grpc' = "ended"
  /\ Return("grpc", ServerResult("ErrServerStopped"))
  /\ UNCHANGED <<stopper, requests, streams, metricsServer, faults>>

\* Accept fails for good; once GracefulStop has begun Serve takes that for its work.
ServeFails ==
  /\ Running("grpc")
  /\ grpc = "serving"
  /\ stopper = "waiting"
  /\ grpc' = "ended"
  /\ Return("grpc", ServerResult("accept"))
  /\ faults' = faults \cup {"serve"}
  /\ UNCHANGED <<stopper, requests, streams, metricsServer>>

ServeReturns ==
  /\ Running("grpc")
  /\ grpc = "serving"
  /\ stopper = "stopped"
  /\ grpc' = "ended"
  /\ Return("grpc", ServerResult("none"))
  /\ UNCHANGED <<stopper, requests, streams, metricsServer, faults>>

\* <-ctx.Done(), and the call of GracefulStop: no new connections or calls.
GracefulStop ==
  /\ process # "exited"
  /\ stopper = "waiting"
  /\ Done
  /\ stopper' = "stopping"
  /\ UNCHANGED <<group, grpc, requests, streams, metricsServer, faults>>

\* Fault: Stop in place of GracefulStop.
CallsCut == TRUE

CallsEnded == requests = 0 /\ streams = 0

\* GracefulStop returns when the last call has ended.  It has no time limit.
Drained ==
  /\ process # "exited"
  /\ stopper = "stopping"
  /\ CallsEnded
  /\ stopper' = "stopped"
  /\ UNCHANGED <<group, grpc, requests, streams, metricsServer, faults>>

\* Connections outlive a failed Accept.
Reachable == process # "exited" /\ grpc \in {"serving", "ended"} /\ stopper = "waiting"

RequestBegins ==
  /\ Reachable
  /\ requests < MaxRequests
  /\ requests' = requests + 1
  /\ UNCHANGED <<group, grpc, stopper, streams, metricsServer, faults>>

RequestEnds ==
  /\ process # "exited"
  /\ requests > 0
  /\ requests' = requests - 1
  /\ UNCHANGED <<group, grpc, stopper, streams, metricsServer, faults>>

StreamBegins ==
  /\ Reachable
  /\ streams < MaxStreams
  /\ streams' = streams + 1
  /\ UNCHANGED <<group, grpc, stopper, requests, metricsServer, faults>>

\* The client closes it.
StreamEnds ==
  /\ process # "exited"
  /\ streams > 0
  /\ streams' = streams - 1
  /\ UNCHANGED <<group, grpc, stopper, requests, metricsServer, faults>>

-----------------------------------------------------------------------------
(* MetricsServer.Run *)

\* HTTPServer and Handler come first, before there is a goroutine to stop the server.
RegisterPanics ==
  /\ Running("metrics")
  /\ "metrics" \in doomed
  /\ Panic("ServeMux")
  /\ UNCHANGED <<signalled, firstError, part, ordinary, grpcServer, metricsServer>>

ListenAndServe ==
  /\ Running("metrics") /\ "metrics" \notin doomed
  /\ http = "start"
  /\ shutdown = "waiting"
  /\ http' = "serving"
  /\ UNCHANGED <<group, grpcServer, shutdown, scrapes, faults>>

\* Shutdown has begun, before ListenAndServe or under it: it is not waited for.
ListenAndServeReturns ==
  /\ Running("metrics") /\ "metrics" \notin doomed
  /\ http \in {"start", "serving"}
  /\ shutdown # "waiting"
  /\ http' = "ended"
  /\ Return("metrics", ServerResult("ErrServerClosed"))
  /\ UNCHANGED <<grpcServer, shutdown, scrapes, faults>>

\* The address is taken, or Accept fails.
ListenAndServeFails ==
  /\ Running("metrics") /\ "metrics" \notin doomed
  /\ http \in {"start", "serving"}
  /\ shutdown = "waiting"
  /\ http' = "ended"
  /\ Return("metrics", ServerResult("listen"))
  /\ faults' = faults \cup {"metrics"}
  /\ UNCHANGED <<grpcServer, shutdown, scrapes>>

ShutdownBegins ==
  /\ process \in {"running", "closing"} /\ part["metrics"] # "none"
  /\ "metrics" \notin doomed
  /\ shutdown = "waiting"
  /\ Done
  /\ shutdown' = "draining"
  /\ UNCHANGED <<group, grpcServer, http, scrapes, faults>>

\* The last request has ended, or the five seconds are over.
ShutdownEnds(timeout) ==
  /\ process # "exited"
  /\ shutdown = "draining"
  /\ timeout \/ scrapes = 0
  /\ shutdown' = "done"
  /\ UNCHANGED <<group, grpcServer, http, scrapes, faults>>

ScrapeBegins ==
  /\ process # "exited"
  /\ http = "serving"
  /\ shutdown = "waiting"
  /\ scrapes < MaxScrapes
  /\ scrapes' = scrapes + 1
  /\ UNCHANGED <<group, grpcServer, http, shutdown, faults>>

ScrapeEnds ==
  /\ process # "exited"
  /\ scrapes > 0
  /\ scrapes' = scrapes - 1
  /\ UNCHANGED <<group, grpcServer, http, shutdown, faults>>

-----------------------------------------------------------------------------

Init ==
  /\ process = "starting" /\ cfg \in Files /\ exitCode = 0
  /\ doomed = {} /\ ordinary = Ordinary(Unmarshal(cfg))
  /\ signalled = FALSE /\ firstError = "none"
  /\ part = [p \in Parts |-> "none"]
  /\ reader = "none"
  /\ grpc = "start" /\ stopper = "none" /\ requests = 0 /\ streams = 0
  /\ http = "start" /\ shutdown = "waiting" /\ scrapes = 0
  /\ faults = {}

Start == Load \/ NewAggregator \/ NewConsumer \/ StartGroup
GroupReturns == AggregatorReturns \/ ConsumerReturns
GrpcRun == Listen \/ Serve \/ ServeRefused \/ ServeReturns
Stopper == GracefulStop \/ Drained
MetricsRun == RegisterPanics \/ ListenAndServe \/ ListenAndServeReturns
Shutdown == ShutdownBegins \/ \E timeout \in BOOLEAN : ShutdownEnds(timeout)
Failures ==
  \/ LoadFails
  \/ ConsumerTimesOut \/ ConsumerFails \/ CommitLoopPanics
  \/ ListenFails \/ ServeFails \/ ListenAndServeFails
Clients ==
  \/ RequestBegins \/ RequestEnds \/ StreamBegins \/ StreamEnds
  \/ ScrapeBegins \/ ScrapeEnds

Next ==
  \/ Start \/ Signal \/ Wait \/ CloseAndExit
  \/ GroupReturns \/ GrpcRun \/ Stopper \/ MetricsRun \/ Shutdown
  \/ Failures \/ Clients

Spec == Init /\ [][Next]_vars

(***************************************************************************)
(* Every goroutine takes its next step, and a unary handler, which waits   *)
(* for nothing, ends.  Nothing is assumed of clients that hold a stream    *)
(* open, of signals or of failures.                                        *)
(***************************************************************************)
FairSpec ==
  /\ Spec
  /\ WF_vars(Start) /\ WF_vars(Wait) /\ WF_vars(CloseAndExit)
  /\ WF_vars(AggregatorReturns) /\ WF_vars(ConsumerReturns)
  /\ WF_vars(GrpcRun) /\ WF_vars(Stopper)
  /\ WF_vars(MetricsRun) /\ WF_vars(Shutdown)
  /\ WF_vars(RequestEnds)

-----------------------------------------------------------------------------
(* Properties *)

\* Types; and there is a goroutine to stop the gRPC server exactly when there is a
\* listener to close (grpc.go:76-84).
TypeOK ==
  /\ process \in {"starting", "loaded", "counting", "wired", "running", "closing", "exited"}
  /\ process \in {"loaded", "counting"} => cfg \in Configs
  /\ exitCode \in {0, 1, 2} /\ signalled \in BOOLEAN
  /\ firstError \in Parts \cup {"none"}
  /\ part \in [Parts -> {"none", "running", "nil", "error"}]
  /\ reader \in {"none", "open", "closed"}
  /\ grpc \in {"start", "unbound", "bound", "serving", "ended"}
  /\ stopper \in {"none", "waiting", "stopping", "stopped"}
  /\ (stopper = "none") = (grpc \in {"start", "unbound"})
  /\ requests \in 0..MaxRequests /\ streams \in 0..MaxStreams
  /\ http \in {"start", "serving", "ended"}
  /\ shutdown \in {"waiting", "draining", "done"}
  /\ scrapes \in 0..MaxScrapes
  /\ doomed \subseteq {"commitLoop", "metrics"} /\ ordinary \in BOOLEAN
  /\ faults \subseteq {"construct", "commit", "listen", "serve", "metrics"} \cup Panics

\* Whatever the file says, the parts are built with settings that they can work with:
\* what the other modules assume of their constants.  A ticker of no interval would
\* panic, a commit without attempts would count as done, buckets that do not divide
\* the window would shorten it (config.go:97-148, aggregator.go:59-87,
\* consumer.go:92-97, 277-326).
WiredIsSound == process = "wired" => Sound(cfg)

\* No file makes kafka.NewReader panic on the sizes of a fetch, and a file with only
\* ordinary settings makes nothing panic.  Validate lets others through that do: a ring
\* or a list too long for make, an interval that is negative once it is a Duration, a
\* path of the metrics that does not parse or is that of the health check
\* (config.go:97-148, aggregator.go:94-96, main.go:88-89, consumer.go:287-314,
\* metrics.go:84-85).
KnownPanicsOnly ==
  /\ "NewReader" \notin faults
  /\ ordinary => faults \cap Panics = {}

\* The exit code tells a failure from an orderly end, also when the failure comes
\* after the signal or when a server is stopped before it serves (main.go:25-30,
\* 167-172, grpc.go:88, metrics.go:67).
ExitCodeRight == process = "exited" => (exitCode # 0) = (faults # {})

\* The Kafka reader is never closed under a consumer that still fetches or commits, and
\* is closed in the end unless a panic ended the process (main.go:128-132, 167).
ReaderClosedAfterUse ==
  /\ reader = "closed" => part["consumer"] # "running"
  /\ process = "exited" /\ faults \cap Panics = {} => reader # "open"

\* The process never exits on a call of gRPC that it is serving, unless accepting
\* connections itself had failed or a goroutine panicked (grpc.go:81-92).
CallsDrained ==
  process = "exited" /\ faults \cap (Panics \cup {"serve"}) = {} => requests = 0 /\ streams = 0

\* Once a signal has come or a part has failed the process exits, in whatever state
\* the parts are; provided that no client holds a stream open for ever, since
\* GracefulStop has no time limit (main.go:151-167, grpc.go:81-88, metrics.go:54-67).
ShutdownCompletes ==
  <>[](streams = 0) => (signalled \/ firstError # "none" ~> process = "exited")

=============================================================================
