------------------------------ MODULE ObsAgent ------------------------------
(***************************************************************************)
(* cortex-obs-agent: the loops that keep its feed and the health of the    *)
(* other services, and the correlation of Sentinel's signals.              *)
(*                                                                         *)
(* The agent is one asyncio process; nothing of it outlives a restart.  A  *)
(* loop is a task nobody waits for: a publish that raises, on a connection *)
(* that gave up reconnecting, ends it for good while loop_status keeps     *)
(* calling it active.  "open" covers a connection that is reconnecting,    *)
(* whose publishes and acknowledgements wait in its buffer.                *)
(*                                                                         *)
(* The SOT watcher and the nightly scan, the other producers of tasks of   *)
(* this process, are in TrustFabric and Directory; correlation_loop and    *)
(* baseline_loop only sleep.  The stream CORTEX_EVENTS is created by the   *)
(* first of three programs that name it, each with a list of its own.      *)
(***************************************************************************)
EXTENDS Integers, Sequences, SequencesExt

CONSTANTS ProbeOrder,      \* the services health_loop asks, in its order
          Entities,        \* the entities Sentinel's signals are about
          StreamLists,     \* the subject lists CORTEX_EVENTS may be created with
          FeedSize,        \* 200 in the code
          WindowSize,      \* 50: the signals kept
          TaskSignals,     \* 10: the signals a decision task carries
          CorrelateFrom,   \* 3
          AnomalousRatio,  \* 5
          CriticalRatio    \* 10

Probed == ToSet(ProbeOrder)
Loops == {"telemetry", "forecast", "health"}
Subjects == {"cortex.obs.stream", "cortex.obs.sot.issued", "cortex.agents.tasks.decision"}

ASSUME ObsAgentAssumption ==
  /\ ProbeOrder \in Seq(STRING)
  /\ StreamLists \subseteq SUBSET Subjects
  /\ {FeedSize, WindowSize, TaskSignals} \subseteq Nat \ {0}
  /\ {CorrelateFrom, AnomalousRatio, CriticalRatio} \subseteq Nat \ {0}
  /\ CorrelateFrom <= AnomalousRatio /\ AnomalousRatio <= CriticalRatio
  /\ AnomalousRatio <= WindowSize

VARIABLES nats,       \* nc_client: "none", "open" or "closed"
          captured,   \* the subjects of CORTEX_EVENTS
          loops,      \* loops[l]: the task of loop l is "running" or "dead"
          stream,     \* the task of sentinel_stream_loop
          listening,  \* the durable consumer of the signals has a callback here
          feed,       \* feed_events, newest first
          probe,      \* how many services this round of health_loop has asked
          health,     \* service_health
          service,    \* what each service answers a probe
          queue,      \* signals in the stream, not acknowledged
          handling,   \* the signal in on_sentinel
          window,     \* recent_sentinel_signals
          announced,  \* how many anomalies went out
          tasks       \* the decision tasks sent

obsVars == <<nats, captured, loops, stream, listening, feed, probe, health, service, queue,
             handling, window, announced, tasks>>

Nothing == [signal |-> "none", step |-> "none"]

\* A fresh process, on a connection or, when connecting failed, on none for good.
Started(connection) ==
  /\ nats' = connection
  /\ loops' = [l \in Loops |-> "running"]
  /\ stream' = IF connection = "open" THEN "starting" ELSE "off"
  /\ listening' = FALSE
  /\ feed' = <<>>
  /\ probe' = 0
  /\ health' = [s \in Probed |-> "unknown"]
  /\ handling' = Nothing
  /\ window' = <<>>

ObsInit ==
  /\ nats \in {"none", "open"}
  /\ captured = {}
  /\ loops = [l \in Loops |-> "running"]
  /\ stream = IF nats = "open" THEN "starting" ELSE "off"
  /\ listening = FALSE
  /\ feed = <<>>
  /\ probe = 0
  /\ health = [s \in Probed |-> "unknown"]
  /\ service = [s \in Probed |-> "up"]
  /\ queue = <<>>
  /\ handling = Nothing
  /\ window = <<>>
  /\ announced = 0
  /\ tasks = <<>>

-----------------------------------------------------------------------------
\* The feed and the health map.

\* record_event
Recorded(topic, severity) ==
  SubSeq(<<[topic |-> topic, severity |-> severity]>> \o feed, 1,
         IF Len(feed) < FeedSize THEN Len(feed) + 1 ELSE FeedSize)

\* publish: the event is recorded before the connection is looked at.
PublishFrom(l, topic) ==
  /\ feed' = Recorded(topic, 1)
  /\ loops' = [loops EXCEPT ![l] = IF nats = "closed" THEN "dead" ELSE @]

\* One round of telemetry_loop, one of forecast_loop.
LoopTurn(l, topic) ==
  /\ loops[l] = "running"
  /\ PublishFrom(l, topic)
  /\ UNCHANGED <<nats, captured, stream, listening, probe, health, service, queue, handling,
                 window, announced, tasks>>
TelemetryTurn == LoopTurn("telemetry", "cortex.obs.actions")
ForecastTurn == LoopTurn("forecast", "cortex.obs.forecasts")

\* Mutant: a service that cannot be reached raises through the loop.
ProbeNextUncaught ==
  /\ loops["health"] = "running"
  /\ probe < Len(ProbeOrder)
  /\ LET s == ProbeOrder[probe + 1]
     IN  IF service[s] = "down"
         THEN loops' = [loops EXCEPT !["health"] = "dead"] /\ UNCHANGED <<health, probe>>
         ELSE /\ health' = [health EXCEPT ![s] = IF service[s] = "up" THEN "healthy"
                                                                     ELSE "degraded"]
              /\ probe' = probe + 1
              /\ UNCHANGED loops
  /\ UNCHANGED <<nats, captured, stream, listening, feed, service, queue, handling, window,
                 announced, tasks>>

\* health_loop asks the next service; whatever goes wrong is caught.
ProbeNext ==
  /\ loops["health"] = "running"
  /\ probe < Len(ProbeOrder)
  /\ LET s == ProbeOrder[probe + 1]
     IN  health' = [health EXCEPT ![s] = CASE service[s] = "up" -> "healthy"
                                           [] service[s] = "failing" -> "degraded"
                                           [] service[s] = "down" -> "unreachable"]
  /\ probe' = probe + 1
  /\ UNCHANGED <<nats, captured, loops, stream, listening, feed, service, queue, handling,
                 window, announced, tasks>>

\* The round is published and the loop sleeps; its overall is "healthy" whatever it found.
ReportHealth ==
  /\ loops["health"] = "running"
  /\ probe = Len(ProbeOrder)
  /\ PublishFrom("health", "cortex.obs.health")
  /\ probe' = 0
  /\ UNCHANGED <<nats, captured, stream, listening, health, service, queue, handling, window,
                 announced, tasks>>

-----------------------------------------------------------------------------
\* Sentinel's signals.

\* sentinel_stream_loop subscribes to the signals, then to the SOTs; js.subscribe looks
\* the stream up by the subject and raises when there is none.  What it subscribed to
\* before keeps its callback.
Subscribe ==
  /\ stream \in {"starting", "half"}
  /\ LET subject == IF stream = "starting" THEN "cortex.obs.stream" ELSE "cortex.obs.sot.issued"
         found == nats = "open" /\ subject \in captured
     IN  /\ stream' = IF ~found THEN "dead"
                      ELSE IF stream = "starting" THEN "half" ELSE "waiting"
         /\ listening' = (listening \/ (found /\ stream = "starting"))
  /\ UNCHANGED <<nats, captured, loops, feed, probe, health, service, queue, handling, window,
                 announced, tasks>>

\* The callbacks of one subscription run one at a time.
Deliver ==
  /\ listening /\ nats = "open"
  /\ handling = Nothing
  /\ queue # <<>>
  /\ handling' = [signal |-> Head(queue), step |-> "new"]
  /\ UNCHANGED <<nats, captured, loops, stream, listening, feed, probe, health, service,
                 queue, window, announced, tasks>>

\* Mutant: whatever is worth classifying is an anomaly.
AnomalousWhenCorrelated(value) == value >= CorrelateFrom

\* classify_threshold with a baseline of 1.
Anomalous(value) == value >= AnomalousRatio \/ value >= 1000
Severity(value) ==
  IF value >= CriticalRatio THEN 4 ELSE IF Anomalous(value) THEN 3 ELSE 1

LastOf(s, n) == SubSeq(s, IF Len(s) > n THEN Len(s) - n + 1 ELSE 1, Len(s))

\* on_sentinel up to its first publish: the value is the length of the window, whichever
\* entities its signals are about.
Correlate ==
  /\ handling.step = "new"
  /\ window' = LastOf(Append(window, handling.signal), WindowSize)
  /\ LET value == Len(window')
         raise == value >= CorrelateFrom /\ Anomalous(value) /\ Severity(value) >= 3
         sent == raise /\ nats = "open"
     IN  /\ feed' = IF raise THEN Recorded("cortex.obs.anomalies", Severity(value)) ELSE feed
         /\ announced' = IF sent THEN announced + 1 ELSE announced
         /\ handling' = [handling EXCEPT !.step = IF sent THEN "task" ELSE "ack"]
  /\ UNCHANGED <<nats, captured, loops, stream, listening, probe, health, service, queue,
                 tasks>>

\* The decision task, for the entity of this signal.
SendTask ==
  /\ handling.step = "task"
  /\ tasks' = IF nats = "open"
              THEN Append(tasks, [entity |-> handling.signal,
                                  signals |-> LastOf(window, TaskSignals)])
              ELSE tasks
  /\ handling' = [handling EXCEPT !.step = "ack"]
  /\ UNCHANGED <<nats, captured, loops, stream, listening, feed, probe, health, service,
                 queue, window, announced>>

\* The finally clause, whatever happened before.
Ack ==
  /\ handling.step = "ack"
  /\ handling' = Nothing
  /\ queue' = IF nats = "open" THEN Tail(queue) ELSE queue
  /\ UNCHANGED <<nats, captured, loops, stream, listening, feed, probe, health, service,
                 window, announced, tasks>>

\* The acknowledgement waits in the buffer of a connection that is reconnecting while the
\* server's ack wait passes: the signal is delivered once more.
AckTooLate ==
  /\ handling.step = "ack" /\ nats = "open"
  /\ handling' = Nothing
  /\ UNCHANGED <<nats, captured, loops, stream, listening, feed, probe, health, service,
                 queue, window, announced, tasks>>

-----------------------------------------------------------------------------
\* The surroundings.

\* A Sentinel publishes a signal about e; JetStream keeps it if it captures the subject.
Signal(e) ==
  /\ "cortex.obs.stream" \in captured
  /\ queue' = Append(queue, e)
  /\ UNCHANGED <<nats, captured, loops, stream, listening, feed, probe, health, service,
                 handling, window, announced, tasks>>

CreateStream(list) ==
  /\ captured = {}
  /\ captured' = list
  /\ UNCHANGED <<nats, loops, stream, listening, feed, probe, health, service, queue,
                 handling, window, announced, tasks>>

ServiceBecomes(s, answer) ==
  /\ service' = [service EXCEPT ![s] = answer]
  /\ UNCHANGED <<nats, captured, loops, stream, listening, feed, probe, health, queue,
                 handling, window, announced, tasks>>

\* The client gives up after its last attempt to reconnect.
LoseNats ==
  /\ nats = "open"
  /\ nats' = "closed"
  /\ UNCHANGED <<captured, loops, stream, listening, feed, probe, health, service, queue,
                 handling, window, announced, tasks>>

RestartObs ==
  /\ \E connection \in {"none", "open"} : Started(connection)
  /\ UNCHANGED <<captured, service, queue, announced, tasks>>
=============================================================================
