--------------------------- MODULE MessagePipeline ---------------------------
(***************************************************************************)
(* DeskCore with the conversation.routed stream and the message processor  *)
(* that consumes it: one sequential worker which reads a batch, waits for  *)
(* the conversation to be visible, reads ai_enabled once, lets the engine  *)
(* generate an answer, stores it, dispatches it and acknowledges the event.*)
(*                                                                         *)
(* The stream and the consumer group's cursor and pending entries live in  *)
(* Redis and survive a crash of the process; the worker's batch and every  *)
(* open database transaction do not.                                       *)
(***************************************************************************)
EXTENDS DeskCore, Naturals, Sequences, FiniteSets

CONSTANTS Worker,     \* the processor's database session
          BatchSize,  \* events one XREADGROUP returns at most (10 in the code)
          Faults,     \* faults that happen: subset of {"crash", "redis", "database"}
          MaxEvents,  \* bound: events ever published
          MaxFaults   \* bound: faults ever

ASSUME WorkerAssumption == Worker \in Sessions
ASSUME BatchAssumption == BatchSize \in Nat \ {0}

VARIABLES events,   \* the stream: events[i] is the message of event i
          cursor,   \* the group's last-delivered event
          pending,  \* delivered to the group and not acknowledged
          dlq,      \* events copied to the dead-letter stream
          batch,    \* the events the worker has read and not finished
          pc,       \* where the worker is in _process_message
          answered, \* answered[i]: AI replies committed for event i
          sent,     \* events whose reply went to the dispatcher
          late,     \* history: AI replies committed since the AI was switched off
          faults    \* faults so far

queue == <<events, cursor, pending, dlq>>
worker == <<batch, pc, answered, sent>>
pvars == <<vars, queue, worker, late, faults>>

EventIds == 1..MaxEvents
Clients == Sessions \ {Worker}
Current == Head(batch)

-----------------------------------------------------------------------------
\* The rest of the desk, around the worker.
Unpublished == {s \in Clients : txn[s].op = "inbound" /\ txn[s].step \notin {"duplicate", "published"}}

Deliver(s, m) ==
    /\ m \in inbox \/ Len(events) + Cardinality(Unpublished) < MaxEvents
    /\ InboundLoad(s, m)
    /\ UNCHANGED <<queue, worker, late, faults>>

Publish(s) ==
    /\ InboundPublish(s)
    /\ events' = Append(events, txn[s].arg)
    /\ answered' = Append(answered, 0)
    /\ UNCHANGED <<cursor, pending, dlq, batch, pc, sent, late, faults>>

\* The history variable starts over when the AI is back on.
OtherStep(s) ==
    /\ \/ InboundOpenThread(s) \/ InboundCreateRace(s)
       \/ InboundStore(s) \/ InboundStoreRace(s)
       \/ Inbox(s) \/ ScanLoad(s) \/ Flush(s) \/ Commit(s)
    /\ late' = IF row'.ai THEN 0 ELSE late
    /\ UNCHANGED <<queue, worker, faults>>

Client(s) == (\E m \in Messages : Deliver(s, m)) \/ Publish(s) \/ OtherStep(s)

-----------------------------------------------------------------------------
\* subscribe: XREADGROUP with ">" returns only events never delivered before.
Poll_FromPending ==
    /\ pc = "poll"
    /\ \/ \E i \in pending : batch' = <<i>> /\ UNCHANGED <<pending, cursor>>
       \/ /\ pending = {} /\ cursor < Len(events)
          /\ batch' = <<cursor + 1>>
          /\ pending' = {cursor + 1}
          /\ cursor' = cursor + 1
    /\ pc' = "wait"
    /\ UNCHANGED <<vars, events, dlq, answered, sent, late, faults>>

Poll ==
    /\ pc = "poll" /\ cursor < Len(events)
    /\ LET last == IF Len(events) - cursor > BatchSize THEN cursor + BatchSize
                                                       ELSE Len(events)
       IN /\ batch' = [i \in 1..(last - cursor) |-> cursor + i]
          /\ pending' = pending \cup (cursor + 1)..last
          /\ cursor' = last
    /\ pc' = "wait"
    /\ UNCHANGED <<vars, events, dlq, answered, sent, late, faults>>

Goto(stage) ==
    /\ pc' = stage
    /\ UNCHANGED <<vars, queue, batch, answered, sent, late, faults>>

NextEvent ==
    /\ batch' = Tail(batch)
    /\ pc' = IF Tail(batch) = <<>> THEN "poll" ELSE "wait"

\* Visible, or given up on after two seconds: it continues either way.
WaitForVisible == pc = "wait" /\ Goto("check")

CheckAIEnabled_Skipped ==
    /\ pc = "check"
    /\ Goto("generate")

CheckAIEnabled_NoAck ==
    /\ pc = "check"
    /\ IF Exists(row) /\ ~row.ai
       THEN NextEvent /\ UNCHANGED <<vars, queue, answered, sent, late, faults>>
       ELSE Goto("generate")

CheckAIEnabled ==
    /\ pc = "check"
    /\ Goto(IF Exists(row) /\ ~row.ai THEN "ack" ELSE "generate")

\* The engine never raises: it answers, declines or falls back, and on low
\* confidence or by policy escalates first.
Generate == pc = "generate" /\ (Goto("reply") \/ Goto("escalate"))

\* _escalate_conversation, best effort: any failure of it is swallowed.
EscalateLoad ==
    /\ pc = "escalate"
    /\ AIEscalateLoad(Worker)
    /\ UNCHANGED <<queue, worker, late, faults>>

EscalateCommit ==
    /\ pc = "escalate"
    /\ Commit(Worker)
    /\ pc' = "reply"
    /\ UNCHANGED <<queue, batch, answered, sent, late, faults>>

EscalateSkip ==
    /\ pc = "escalate"
    /\ txn[Worker].op = "idle" /\ ~CanTransition(row.status, "escalated")
    /\ Goto("reply")

WorkerFlush ==
    /\ Flush(Worker)
    /\ UNCHANGED <<queue, worker, late, faults>>

\* _persist_and_build_outbound: nothing is said in a conversation that is gone.
ReplyLoad ==
    /\ pc = "reply"
    /\ AIReplyLoad(Worker, events[Current])
    /\ UNCHANGED <<queue, worker, late, faults>>

ReplySkip_Sends ==
    /\ pc = "reply"
    /\ txn[Worker].op = "idle" /\ ~Exists(row)
    /\ Goto("dispatch")

ReplySkip ==
    /\ pc = "reply"
    /\ txn[Worker].op = "idle" /\ ~Exists(row)
    /\ Goto("ack")

ReplyCommit ==
    /\ pc = "reply"
    /\ Commit(Worker)
    /\ answered' = [answered EXCEPT ![Current] = @ + 1]
    /\ late' = IF row.ai THEN 0 ELSE late + 1
    /\ pc' = "dispatch"
    /\ UNCHANGED <<queue, batch, sent, faults>>

\* The dispatcher reports a failed delivery in its result; nobody looks at it.
Dispatch ==
    /\ pc = "dispatch"
    /\ sent' = sent \cup {Current}
    /\ pc' = "ack"
    /\ UNCHANGED <<vars, queue, batch, answered, late, faults>>

Ack_Forgotten ==
    /\ pc = "ack"
    /\ NextEvent
    /\ UNCHANGED <<vars, queue, answered, sent, late, faults>>

Ack ==
    /\ pc = "ack"
    /\ pending' = pending \ {Current}
    /\ NextEvent
    /\ UNCHANGED <<vars, events, cursor, dlq, answered, sent, late, faults>>

-----------------------------------------------------------------------------
Fault(kind) == kind \in Faults /\ faults < MaxFaults /\ faults' = faults + 1

\* A read or the storing of the reply raises: the session rolls back, the event
\* goes to the dead-letter stream and is acknowledged.
EventFails ==
    /\ Fault("database")
    /\ pc \in {"wait", "check", "reply"}
    /\ Drop(Worker)
    /\ dlq' = dlq \cup {Current}
    /\ pending' = pending \ {Current}
    /\ NextEvent
    /\ UNCHANGED <<events, cursor, answered, sent, late>>

\* The escalation's session fails: the engine logs it and goes on.
EscalateFails ==
    /\ Fault("database")
    /\ pc = "escalate" /\ txn[Worker].op # "idle"
    /\ Drop(Worker)
    /\ pc' = "reply"
    /\ UNCHANGED <<queue, batch, answered, sent, late>>

\* A client's transaction fails before its commit: a publish that raises, a
\* cancelled request.
ClientFails(s) ==
    /\ Fault("database")
    /\ Rollback(s)
    /\ UNCHANGED <<queue, worker, late>>

\* Redis refuses the acknowledgement, the one of the exception handler too: the
\* exception leaves _process_message and run() forgets the rest of the batch.
AckFails ==
    /\ Fault("redis")
    /\ pc = "ack"
    /\ dlq' \in {dlq, dlq \cup {Current}}
    /\ batch' = <<>> /\ pc' = "poll"
    /\ UNCHANGED <<vars, events, cursor, pending, answered, sent, late>>

\* The process dies and starts again: main.py runs the API and the worker.
Crash ==
    /\ Fault("crash")
    /\ txn' = [s \in Sessions |-> Idle]
    /\ batch' = <<>> /\ pc' = "poll"
    /\ UNCHANGED <<row, inbox, routed, queue, answered, sent, late>>

-----------------------------------------------------------------------------
PipelineInit ==
    /\ Init
    /\ events = <<>> /\ cursor = 0 /\ pending = {} /\ dlq = {}
    /\ batch = <<>> /\ pc = "poll"
    /\ answered = <<>>
    /\ sent = {}
    /\ late = 0 /\ faults = 0

WorkerStep ==
    \/ Poll \/ WaitForVisible \/ CheckAIEnabled \/ Generate
    \/ EscalateLoad \/ EscalateSkip \/ EscalateCommit
    \/ WorkerFlush \/ ReplyLoad \/ ReplySkip \/ ReplyCommit
    \/ Dispatch \/ Ack

FaultStep ==
    EventFails \/ EscalateFails \/ AckFails \/ Crash \/ (\E s \in Clients : ClientFails(s))

PipelineNext == (\E s \in Clients : Client(s)) \/ WorkerStep \/ FaultStep

PipelineSpec == PipelineInit /\ [][PipelineNext]_pvars

\* The worker is an asyncio task that never ends, and clients finish what they
\* began; both may wait for a row lock, which PostgreSQL grants in turn.
ClientFinish(s) ==
    \/ Publish(s)
    \/ OtherStep(s) /\ txn[s].op # "idle"

PipelineFairness ==
    /\ SF_pvars(WorkerStep)
    /\ \A s \in Clients : SF_pvars(ClientFinish(s))

FairPipeline == PipelineSpec /\ PipelineFairness

-----------------------------------------------------------------------------
(***************************************************************************)
(* Properties that hold.                                                   *)
(***************************************************************************)

\* An event is answered at most once, whatever crashes: what was delivered to
\* the group is never read again, and a failed reply is not retried.
OneReplyPerEvent == \A i \in DOMAIN answered : answered[i] <= 1

\* The customer receives no AI reply that the conversation does not show.
NothingSentUnstored == \A i \in sent : answered[i] > 0

\* A takeover may be overtaken by the one reply being generated when it
\* committed, and by no other, however many events wait in the stream.
AtMostOneLateReply == late <= 1

\* Every event the group was given is acknowledged, or still the worker's, or
\* left behind by a fault: without one, none is stranded.
NoneStranded ==
    /\ \A k \in DOMAIN batch : batch[k] \in pending
    /\ faults = 0 => pending = {batch[k] : k \in DOMAIN batch}

\* The worker drains the stream: without faults every event is acknowledged.
EventsAcknowledged ==
    \A i \in EventIds : i <= Len(events) ~> i <= cursor /\ i \notin pending

(***************************************************************************)
(* A statement of the code's comments that the pipeline breaks.            *)
(***************************************************************************)

\* "at-least-once delivery" (RedisStreamsEventBus): an event the worker did not
\* acknowledge is delivered again until it does.
AtLeastOnce == \A i \in EventIds : i \in pending ~> i \notin pending
=============================================================================
