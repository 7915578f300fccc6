------------------------ MODULE MessagePipeline_proofs ------------------------
(***************************************************************************)
(* Proofs about MessagePipeline, for any clients, messages, batch size and *)
(* faults.  The desk's part of a step is a step of DeskCore or a crash, so *)
(* DeskCore's invariant Inv holds here too; PipelineInv adds where every   *)
(* event is between the stream and its acknowledgement, and what stage the *)
(* worker can have reached while the AI is off.                            *)
(***************************************************************************)
EXTENDS MessagePipeline, DeskCore_proofs, SequenceTheorems

Stages == {"poll", "wait", "check", "generate", "escalate", "reply", "dispatch", "ack"}

\* The worker opens the engine's escalation and its own reply, one at a time.
WorkerSession ==
    /\ txn[Worker].op \in {"idle", "ai_escalate", "ai_reply"}
    /\ txn[Worker].op = "ai_escalate" => pc = "escalate"
    /\ txn[Worker].op = "ai_reply" => pc = "reply"

StreamType ==
    /\ events \in Seq(Messages)
    /\ cursor \in 0..Len(events)
    /\ pending \subseteq 1..cursor
    /\ faults \in Nat

BatchShape ==
    /\ batch \in Seq(1..cursor)
    /\ pc \in Stages
    /\ pc = "poll" <=> batch = <<>>
    /\ \A j, k \in DOMAIN batch : j < k => batch[j] < batch[k]

\* Nothing is answered before the worker comes to it, nor twice.
AnsweredOnce ==
    /\ answered \in Seq({0, 1}) /\ Len(answered) = Len(events)
    /\ sent \subseteq {i \in 1..Len(events) : answered[i] = 1}
    /\ \A i \in 1..Len(events) : i > cursor => answered[i] = 0
    /\ \A k \in DOMAIN batch :
          answered[batch[k]] = 0 \/ (k = 1 /\ pc \in {"dispatch", "ack"})
    /\ pc = "dispatch" => answered[Current] = 1

\* Once a reply overtook the takeover, the worker has read ai_enabled since.
LateOnce ==
    /\ late \in {0, 1}
    /\ late = 1 => ~row.ai /\ pc \notin {"generate", "escalate", "reply"}

PipelineInv ==
    /\ Inv
    /\ WorkerSession
    /\ StreamType
    /\ BatchShape
    /\ NoneStranded
    /\ AnsweredOnce
    /\ LateOnce

-----------------------------------------------------------------------------
(***************************************************************************)
(* The desk's part of a step.                                              *)
(***************************************************************************)

\* Sessions end without committing, any number at once: one that fails, or all
\* of a process that dies.
SessionsLost ==
    /\ \E S \in SUBSET Sessions : txn' = [s \in Sessions |-> IF s \in S THEN Idle ELSE txn[s]]
    /\ UNCHANGED <<row, inbox, routed>>

\* The desk that the worker, its faults and its crashes leave visible.
DeskWithCrashes == Init /\ [][Next \/ SessionsLost]_vars

LEMMA DropLosesSession ==
    ASSUME TypeOK, NEW s \in Sessions, Drop(s)
    PROVE  SessionsLost
<1>1. txn' = [o \in Sessions |-> IF o \in {s} THEN Idle ELSE txn[o]]
  BY DEF Drop, TypeOK
<1>. QED
  BY <1>1 DEF Drop, SessionsLost

\* What a step of the pipeline does to the desk, DeskCore's handlers do, or the
\* loss of sessions.
LEMMA DeskMoves ==
    ASSUME TypeOK, [PipelineNext]_pvars
    PROVE  [Next \/ SessionsLost]_vars
<1>. USE WorkerAssumption
<1>1. Worker \in Sessions /\ Clients \subseteq Sessions
  BY DEF Clients
<1>2. ASSUME NEW s \in Clients, Client(s)
      PROVE  Next
  <2>1. s \in Sessions
    BY <1>1
  <2>2. Inbound(s) \/ Inbox(s) \/ Background(s) \/ Flush(s) \/ Commit(s)
    BY <1>2 DEF Client, Deliver, Publish, OtherStep, Inbound, Background
  <2>. QED
    BY <2>1, <2>2 DEF Next
<1>3. ASSUME WorkerStep
      PROVE  Next \/ UNCHANGED vars
  <2>1. CASE EscalateLoad \/ WorkerFlush \/ ReplyLoad
    <3>1. events[Current] \in routed => events[Current] \in Messages
      BY DEF TypeOK
    <3>2. Background(Worker) \/ Flush(Worker)
      BY <2>1, <3>1 DEF EscalateLoad, WorkerFlush, ReplyLoad, Background, AIReplyLoad
    <3>. QED
      BY <1>1, <3>2 DEF Next
  <2>2. CASE EscalateCommit \/ ReplyCommit
    BY <1>1, <2>2 DEF EscalateCommit, ReplyCommit, Next
  <2>3. CASE Poll \/ WaitForVisible \/ CheckAIEnabled \/ Generate \/ EscalateSkip \/ ReplySkip
             \/ Dispatch \/ Ack
    BY <2>3 DEF Poll, WaitForVisible, CheckAIEnabled, Generate, EscalateSkip, ReplySkip,
                Dispatch, Ack, Goto
  <2>. QED
    BY <1>3, <2>1, <2>2, <2>3 DEF WorkerStep
<1>4. ASSUME FaultStep
      PROVE  SessionsLost \/ UNCHANGED vars
  <2>1. CASE Crash
    <3>1. /\ txn' = [s \in Sessions |-> IF s \in Sessions THEN Idle ELSE txn[s]]
          /\ UNCHANGED <<row, inbox, routed>>
      BY <2>1 DEF Crash
    <3>. QED
      BY <3>1 DEF SessionsLost
  <2>2. CASE AckFails
    BY <2>2 DEF AckFails
  <2>3. CASE EventFails \/ EscalateFails
    BY <1>1, <2>3, DropLosesSession DEF EventFails, EscalateFails
  <2>4. CASE \E s \in Clients : ClientFails(s)
    BY <1>1, <2>4, DropLosesSession DEF ClientFails, Rollback
  <2>. QED
    BY <1>4, <2>1, <2>2, <2>3, <2>4 DEF FaultStep
<1>. QED
  BY <1>2, <1>3, <1>4 DEF PipelineNext, pvars, vars

\* Losing sessions gives up their locks and what they remember, nothing else.
LEMMA LossKeepsInv ==
    ASSUME Inv, SessionsLost
    PROVE  Inv'
<1>1. PICK S \in SUBSET Sessions :
        txn' = [s \in Sessions |-> IF s \in S THEN Idle ELSE txn[s]]
  BY DEF SessionsLost
<1>2. UNCHANGED <<row, inbox, routed>>
  BY DEF SessionsLost
<1>3. \A s \in Sessions : txn'[s] = Idle \/ txn'[s] = txn[s]
  BY <1>1
<1>4. TypeOK'
  BY <1>1, <1>2, IdleFacts DEF Inv, TypeOK
<1>5. ASSUME NEW s \in Sessions
      PROVE  (WellFormed(txn[s]) /\ Grounded(txn[s]))'
  <2>1. CASE txn'[s] = Idle
    <3>1. txn'[s].op = "idle" /\ txn'[s].loaded = Absent
      BY <2>1 DEF Idle
    <3>. QED
      BY <3>1 DEF WellFormed, Grounded, Absent, Exists
  <2>2. CASE txn'[s] = txn[s]
    BY <1>2, <2>2 DEF Inv, WellFormed, Grounded
  <2>. QED
    BY <1>3, <2>1, <2>2
<1>6. LocksApart'
  BY <1>3, IdleFacts, ConflictFacts DEF Inv, LocksApart
<1>7. (RowGrounded /\ ExclusiveIsFresh /\ NoSilentMessage)'
  BY <1>2, <1>3 DEF Inv, RowGrounded, NewIsNeverVisible, ExclusiveIsFresh, NoSilentMessage, Idle
<1>. QED
  BY <1>4, <1>5, <1>6, <1>7 DEF Inv

\* The row changes only in a commit, and DeskCore's invariant survives every
\* step, a crash included.
LEMMA DeskStep ==
    ASSUME Inv, [PipelineNext]_pvars
    PROVE  Inv' /\ (row' = row \/ \E s \in Sessions : Commit(s))
<1>1. CASE SessionsLost
  BY <1>1, LossKeepsInv DEF SessionsLost
<1>2. CASE [Next]_vars
  <2>1. Inv'
    BY <1>2, NextKeepsInv
  <2>2. ASSUME NEW s \in Sessions,
               Inbound(s) \/ Inbox(s) \/ Background(s) \/ Flush(s) \/ Rollback(s)
        PROVE  row' = row
    BY <2>2 DEF Inbound, Inbox, Background, InboundLoad, InboundOpenThread, InboundCreateRace,
                InboundStore, InboundStoreRace, InboundPublish, Takeover, Resolve, StatusLoad,
                ScanLoad, AIEscalateLoad, RespondLoad, AIReplyLoad, Flush, Rollback, Drop
  <2>. QED
    BY <1>2, <2>1, <2>2 DEF Next, vars
<1>. QED
  BY <1>1, <1>2, DeskMoves DEF Inv

\* A client's step leaves the worker's session alone, and only its commit moves
\* the count of late replies.
LEMMA ClientFrame ==
    ASSUME Inv, NEW s \in Clients, Client(s)
    PROVE  /\ txn'[Worker] = txn[Worker]
           /\ UNCHANGED <<cursor, pending, batch, pc, sent, faults>>
           /\ late' \in {late, 0}
           /\ (row'.ai = row.ai /\ late' = late) \/ late' = IF row'.ai THEN 0 ELSE late
           /\ \/ UNCHANGED <<events, answered>>
              \/ \E m \in Messages : events' = Append(events, m) /\ answered' = Append(answered, 0)
<1>1. Worker \in Sessions /\ s \in Sessions /\ s # Worker /\ txn \in [Sessions -> Transaction]
  BY WorkerAssumption DEF Clients, Inv, TypeOK
<1>2. (\E t : txn' = [txn EXCEPT ![s] = t]) => txn'[Worker] = txn[Worker]
  BY <1>1
<1>3. CASE \E m \in Messages : Deliver(s, m)
  BY <1>2, <1>3 DEF Deliver, InboundLoad, Begin, Advance, queue, worker
<1>4. CASE Publish(s)
  <2>1. txn[s].arg \in Messages
    BY <1>1, <1>4 DEF Publish, InboundPublish, At, Inv, WellFormed
  <2>. QED
    BY <1>2, <1>4, <2>1 DEF Publish, InboundPublish, Advance
<1>5. CASE OtherStep(s)
  <2>1. \E t : txn' = [txn EXCEPT ![s] = t]
    BY <1>5 DEF OtherStep, InboundOpenThread, InboundCreateRace, InboundStore, InboundStoreRace,
                Inbox, Takeover, Resolve, RespondLoad, StatusLoad, ScanLoad, Flush, Commit,
                Begin, Advance, Drop
  <2>. QED
    BY <1>2, <1>5, <2>1 DEF OtherStep, queue, worker
<1>. QED
  BY <1>3, <1>4, <1>5 DEF Client

\* The events and their answers only grow at the end.
LEMMA AppendedStream ==
    ASSUME StreamType, AnsweredOnce,
           \/ UNCHANGED <<events, answered>>
           \/ \E m \in Messages : events' = Append(events, m) /\ answered' = Append(answered, 0)
    PROVE  /\ events' \in Seq(Messages) /\ answered' \in Seq({0, 1})
           /\ Len(answered') = Len(events') /\ Len(events') >= Len(events)
           /\ \A i \in 1..Len(events) : answered'[i] = answered[i]
           /\ \A i \in 1..Len(events') : i > Len(events) => answered'[i] = 0
<1>1. /\ events \in Seq(Messages) /\ answered \in Seq({0, 1})
      /\ Len(answered) = Len(events) /\ Len(events) \in Nat
  BY LenProperties DEF StreamType, AnsweredOnce
<1>2. CASE UNCHANGED <<events, answered>>
  BY <1>1, <1>2
<1>3. CASE \E m \in Messages : events' = Append(events, m) /\ answered' = Append(answered, 0)
  <2>1. /\ events' \in Seq(Messages) /\ Len(events') = Len(events) + 1
    BY <1>1, <1>3, AppendProperties
  <2>2. /\ answered' \in Seq({0, 1}) /\ Len(answered') = Len(answered) + 1
        /\ \A i \in 1..Len(answered) : answered'[i] = answered[i]
        /\ answered'[Len(answered) + 1] = 0
    BY <1>1, <1>3, AppendProperties
  <2>. QED
    BY <1>1, <2>1, <2>2
<1>. QED
  BY <1>2, <1>3

\* The batch in hand, and what is left of it after the current event.
LEMMA BatchFacts ==
    ASSUME BatchShape, cursor \in Nat, batch # <<>>
    PROVE  /\ Len(batch) \in Nat \ {0} /\ DOMAIN batch = 1..Len(batch)
           /\ 1 \in DOMAIN batch /\ Current = batch[1]
           /\ \A k \in DOMAIN batch : batch[k] \in 1..cursor
           /\ Tail(batch) \in Seq(1..cursor) /\ DOMAIN Tail(batch) = 1..(Len(batch) - 1)
           /\ \A k \in DOMAIN Tail(batch) : Tail(batch)[k] = batch[k + 1] /\ k + 1 \in DOMAIN batch
           /\ \A k \in DOMAIN batch : k # 1 => batch[k] > Current
<1>1. /\ batch \in Seq(1..cursor) /\ Len(batch) \in Nat \ {0} /\ DOMAIN batch = 1..Len(batch)
      /\ batch \in [1..Len(batch) -> 1..cursor]
  BY LenProperties, EmptySeq DEF BatchShape
<1>2. /\ Current = batch[1]
  BY <1>1 DEF Current
<1>3. /\ Tail(batch) \in Seq(1..cursor) /\ Len(Tail(batch)) = Len(batch) - 1
      /\ \A i \in 1..Len(Tail(batch)) : Tail(batch)[i] = batch[i + 1]
  BY <1>1, HeadTailProperties
<1>4. DOMAIN Tail(batch) = 1..(Len(batch) - 1)
  BY <1>3, LenProperties
<1>5. \A k \in DOMAIN batch : k # 1 => batch[k] > batch[1]
  BY <1>1 DEF BatchShape
<1>. QED
  BY <1>1, <1>2, <1>3, <1>4, <1>5

LEMMA ClientKeeps ==
    ASSUME PipelineInv, NEW s \in Clients, Client(s)
    PROVE  PipelineInv'
<1>. USE DEF PipelineInv
<1>1. Inv'
  BY DeskStep DEF PipelineNext
<1>2. /\ txn'[Worker] = txn[Worker]
      /\ UNCHANGED <<cursor, pending, batch, pc, sent, faults>>
      /\ late' \in {late, 0}
      /\ (row'.ai = row.ai /\ late' = late) \/ late' = IF row'.ai THEN 0 ELSE late
  BY ClientFrame
<1>3. /\ events' \in Seq(Messages) /\ answered' \in Seq({0, 1})
      /\ Len(answered') = Len(events') /\ Len(events') >= Len(events)
      /\ \A i \in 1..Len(events) : answered'[i] = answered[i]
      /\ \A i \in 1..Len(events') : i > Len(events) => answered'[i] = 0
  BY ClientFrame, AppendedStream
<1>4. (WorkerSession /\ BatchShape /\ NoneStranded)'
  BY <1>2 DEF WorkerSession, BatchShape, NoneStranded
<1>5. StreamType'
  BY <1>2, <1>3 DEF StreamType
<1>6. AnsweredOnce'
  <2>1. Len(events) \in Nat /\ cursor \in 0..Len(events)
    BY LenProperties DEF StreamType
  <2>2. batch # <<>> => /\ \A k \in DOMAIN batch : batch[k] \in 1..cursor
                        /\ 1 \in DOMAIN batch /\ Current = batch[1]
    BY <2>1, BatchFacts
  <2>3. \A k \in DOMAIN batch : batch[k] \in 1..Len(events)
    BY <2>1, <2>2
  <2>4. pc = "dispatch" => Current \in 1..Len(events) /\ Current' = Current
    BY <1>2, <2>2, <2>3 DEF BatchShape, Current
  <2>5. \A i \in 1..Len(events') : i > cursor => answered'[i] = 0
    BY <1>3, <2>1 DEF AnsweredOnce
  <2>6. \A k \in DOMAIN batch :
           answered'[batch[k]] = 0 \/ (k = 1 /\ pc \in {"dispatch", "ack"})
    BY <1>3, <2>3 DEF AnsweredOnce
  <2>7. sent' \subseteq {i \in 1..Len(events') : answered'[i] = 1}
    BY <1>2, <1>3, <2>1 DEF AnsweredOnce
  <2>8. pc = "dispatch" => answered'[Current] = 1
    BY <1>3, <2>4 DEF AnsweredOnce
  <2>. QED
    BY <1>2, <1>3, <2>4, <2>5, <2>6, <2>7, <2>8 DEF AnsweredOnce
<1>7. LateOnce'
  BY <1>2 DEF LateOnce
<1>. QED
  BY <1>1, <1>4, <1>5, <1>6, <1>7
-----------------------------------------------------------------------------
(***************************************************************************)
(* The worker: what its steps do to the batch and to the stream's events.  *)
(***************************************************************************)

EventsAccounted == StreamType /\ BatchShape /\ NoneStranded /\ AnsweredOnce

\* From stage to stage with the same event, which is not answered by that.
LEMMA StageKeeps ==
    ASSUME EventsAccounted, pc # "poll", pc' \in Stages \ {"poll", "dispatch"},
           pc \in {"dispatch", "ack"} => pc' = "ack",
           UNCHANGED <<events, cursor, pending, batch, answered, faults>>,
           sent' = sent \/ (pc = "dispatch" /\ sent' = sent \cup {Current})
    PROVE  EventsAccounted'
<1>. USE DEF EventsAccounted
<1>1. (StreamType /\ BatchShape /\ NoneStranded)'
  BY DEF StreamType, BatchShape, NoneStranded
<1>2. Len(events) \in Nat /\ cursor \in 0..Len(events) /\ batch # <<>>
  BY LenProperties DEF StreamType, BatchShape
<1>3. Current \in 1..Len(events)
  BY <1>2, BatchFacts
<1>4. sent' \subseteq {i \in 1..Len(events') : answered'[i] = 1}
  BY <1>3 DEF AnsweredOnce
<1>5. \A k \in DOMAIN batch' :
         answered'[batch'[k]] = 0 \/ (k = 1 /\ pc' \in {"dispatch", "ack"})
  BY DEF AnsweredOnce
<1>6. AnsweredOnce'
  BY <1>4, <1>5 DEF AnsweredOnce
<1>. QED
  BY <1>1, <1>6

\* The current event is acknowledged, and the next one of the batch taken up.
LEMMA NextEventKeeps ==
    ASSUME EventsAccounted, pc # "poll", NextEvent, pending' = pending \ {Current},
           UNCHANGED <<events, cursor, answered, sent>>, faults' \in {faults, faults + 1}
    PROVE  EventsAccounted'
<1>. USE DEF EventsAccounted
<1>1. Len(events) \in Nat /\ cursor \in 0..Len(events) /\ batch # <<>>
  BY LenProperties DEF StreamType, BatchShape
<1>2. /\ batch' \in Seq(1..cursor) /\ DOMAIN batch' = 1..(Len(batch) - 1)
      /\ Len(batch) \in Nat \ {0} /\ DOMAIN batch = 1..Len(batch) /\ Current = batch[1]
      /\ \A k \in DOMAIN batch' : batch'[k] = batch[k + 1] /\ k + 1 \in DOMAIN batch
      /\ \A k \in DOMAIN batch : k # 1 => batch[k] > Current
      /\ \A k \in DOMAIN batch : batch[k] \in 1..cursor
  BY <1>1, BatchFacts DEF NextEvent
<1>3. pc' = IF batch' = <<>> THEN "poll" ELSE "wait"
  BY DEF NextEvent
<1>4. StreamType'
  <2>1. events \in Seq(Messages) /\ pending \subseteq 1..cursor /\ faults \in Nat
    BY DEF StreamType
  <2>2. pending' \subseteq 1..cursor
    BY <2>1
  <2>3. faults' \in Nat
    BY <2>1
  <2>. QED
    BY <1>1, <2>1, <2>2, <2>3 DEF StreamType
<1>5. BatchShape'
  <2>1. \A j, k \in DOMAIN batch' : j < k => batch'[j] < batch'[k]
    BY <1>2 DEF BatchShape
  <2>. QED
    BY <1>2, <1>3, <2>1 DEF BatchShape, Stages
<1>6. ASSUME NEW k \in DOMAIN batch'
      PROVE  batch'[k] # Current
  <2>1. k \in 1..(Len(batch) - 1) /\ k + 1 \in DOMAIN batch /\ k + 1 # 1
    BY <1>2
  <2>2. batch[k + 1] \in 1..cursor /\ batch[k + 1] > Current /\ Current \in 1..cursor
    BY <1>2, <2>1
  <2>. QED
    BY <1>1, <1>2, <2>2
<1>7. NoneStranded'
  <2>1. \A k \in DOMAIN batch' : batch'[k] \in pending'
    BY <1>2, <1>6 DEF NoneStranded
  <2>2. ASSUME faults' = 0
        PROVE  pending' \subseteq {batch'[k] : k \in DOMAIN batch'}
    <3>1. faults = 0
      BY <2>2 DEF StreamType
    <3>2. ASSUME NEW i \in pending'
          PROVE  \E k \in DOMAIN batch' : batch'[k] = i
      <4>1. PICK k \in DOMAIN batch : batch[k] = i
        BY <3>1, <3>2 DEF NoneStranded
      <4>2. k # 1
        BY <1>2, <3>2, <4>1
      <4>3. k - 1 \in DOMAIN batch' /\ batch'[k - 1] = batch[(k - 1) + 1] /\ (k - 1) + 1 = k
        BY <1>2, <4>2
      <4>. QED
        BY <4>1, <4>3
    <3>. QED
      BY <3>2
  <2>. QED
    BY <2>1, <2>2 DEF NoneStranded
<1>8. AnsweredOnce'
  <2>1. \A k \in DOMAIN batch' : answered'[batch'[k]] = 0
    <3>1. \A k \in DOMAIN batch' : k + 1 # 1
      BY <1>2
    <3>. QED
      BY <1>2, <3>1 DEF AnsweredOnce
  <2>. QED
    BY <1>3, <2>1 DEF AnsweredOnce
<1>. QED
  BY <1>4, <1>5, <1>7, <1>8

\* A fault makes the worker forget its batch; the events stay pending.
LEMMA ForgetKeeps ==
    ASSUME EventsAccounted, batch' = <<>>, pc' = "poll", faults' = faults + 1,
           UNCHANGED <<events, cursor, pending, answered, sent>>
    PROVE  EventsAccounted'
<1>. USE DEF EventsAccounted
<1>1. StreamType' /\ faults' # 0
  BY DEF StreamType
<1>2. DOMAIN batch' = {} /\ batch' \in Seq(1..cursor)
  OBVIOUS
<1>3. (BatchShape /\ NoneStranded)'
  BY <1>1, <1>2 DEF BatchShape, NoneStranded, Stages
<1>4. AnsweredOnce'
  BY <1>2 DEF AnsweredOnce
<1>. QED
  BY <1>1, <1>3, <1>4
\* A read takes the next events of the stream, which nobody has answered.
LEMMA PollKeeps ==
    ASSUME EventsAccounted, Poll
    PROVE  EventsAccounted'
<1>. USE DEF EventsAccounted
<1> DEFINE last == IF Len(events) - cursor > BatchSize THEN cursor + BatchSize ELSE Len(events)
<1>1. /\ events \in Seq(Messages) /\ Len(events) \in Nat /\ cursor \in 0..Len(events)
      /\ cursor < Len(events) /\ batch = <<>> /\ pending \subseteq 1..cursor /\ faults \in Nat
  BY LenProperties DEF StreamType, BatchShape, Poll
<1>2. last \in cursor + 1..Len(events)
  BY <1>1, BatchAssumption
<1>3. /\ batch' = [i \in 1..(last - cursor) |-> cursor + i]
      /\ pending' = pending \cup (cursor + 1)..last
      /\ cursor' = last /\ pc' = "wait"
      /\ UNCHANGED <<events, answered, sent, faults>>
  BY DEF Poll
<1>. HIDE DEF last
<1>4. last - cursor \in Nat \ {0} /\ last \in Nat
  BY <1>1, <1>2
<1>5. /\ DOMAIN batch' = 1..(last - cursor)
      /\ \A k \in DOMAIN batch' : batch'[k] = cursor + k /\ batch'[k] \in (cursor + 1)..last
  BY <1>1, <1>3, <1>4
<1>6. batch' \in Seq(1..last)
  <2>1. batch' \in [1..(last - cursor) -> 1..last]
    BY <1>1, <1>3, <1>4, <1>5
  <2>. QED
    BY <1>4, <2>1, SeqDef
<1>7. 1 \in DOMAIN batch' /\ batch' # <<>>
  BY <1>4, <1>5
<1>8. StreamType'
  <2>1. pending' \subseteq 1..last
    BY <1>1, <1>2, <1>3
  <2>. QED
    BY <1>1, <1>2, <1>3, <1>4, <2>1 DEF StreamType
<1>9. BatchShape'
  <2>1. \A j, k \in DOMAIN batch' : j < k => batch'[j] < batch'[k]
    BY <1>1, <1>4, <1>5
  <2>. QED
    BY <1>3, <1>6, <1>7, <2>1 DEF BatchShape, Stages
<1>10. NoneStranded'
  <2>1. \A k \in DOMAIN batch' : batch'[k] \in pending'
    BY <1>3, <1>5
  <2>2. ASSUME faults = 0, NEW i \in pending'
        PROVE  \E k \in DOMAIN batch' : batch'[k] = i
    <3>1. pending = {}
      BY <1>1, <2>2 DEF NoneStranded
    <3>2. i \in (cursor + 1)..last
      BY <1>3, <3>1
    <3>3. i - cursor \in DOMAIN batch' /\ batch'[i - cursor] = cursor + (i - cursor)
      BY <1>1, <1>4, <1>5, <3>2
    <3>. QED
      BY <1>1, <1>4, <3>2, <3>3
  <2>. QED
    BY <1>3, <2>1, <2>2 DEF NoneStranded
<1>11. AnsweredOnce'
  <2>1. \A k \in DOMAIN batch' : answered[batch'[k]] = 0
    <3>1. \A k \in DOMAIN batch' : batch'[k] \in 1..Len(events) /\ batch'[k] > cursor
      BY <1>1, <1>2, <1>5
    <3>. QED
      BY <3>1 DEF AnsweredOnce
  <2>2. \A i \in 1..Len(events) : i > last => answered[i] = 0
    BY <1>1, <1>2 DEF AnsweredOnce
  <2>. QED
    BY <1>3, <2>1, <2>2 DEF AnsweredOnce
<1>. QED
  BY <1>8, <1>9, <1>10, <1>11

\* The reply to the current event, the first one it gets, is stored.
LEMMA ReplyKeeps ==
    ASSUME EventsAccounted, pc = "reply", pc' = "dispatch",
           answered' = [answered EXCEPT ![Current] = @ + 1],
           UNCHANGED <<events, cursor, pending, batch, sent, faults>>
    PROVE  EventsAccounted'
<1>. USE DEF EventsAccounted
<1>1. /\ Len(events) \in Nat /\ cursor \in 0..Len(events) /\ batch # <<>>
      /\ answered \in Seq({0, 1}) /\ Len(answered) = Len(events)
  BY LenProperties DEF StreamType, BatchShape, AnsweredOnce
<1>2. /\ 1 \in DOMAIN batch /\ Current = batch[1] /\ Current \in 1..cursor
      /\ \A k \in DOMAIN batch : batch[k] \in 1..cursor /\ (k # 1 => batch[k] > Current)
  BY <1>1, BatchFacts
<1>3. answered[Current] = 0
  BY <1>2 DEF AnsweredOnce
<1>4. /\ answered' \in Seq({0, 1}) /\ Len(answered') = Len(events)
      /\ answered'[Current] = 1
      /\ \A i \in 1..Len(events) : i # Current => answered'[i] = answered[i]
  <2>1. Current \in 1..Len(answered)
    BY <1>1, <1>2
  <2>2. answered' = [answered EXCEPT ![Current] = 1]
    BY <1>3
  <2>. QED
    BY <1>1, <2>1, <2>2, ExceptSeq
<1>5. (StreamType /\ BatchShape /\ NoneStranded)'
  BY DEF StreamType, BatchShape, NoneStranded, Stages
<1>6. AnsweredOnce'
  <2>1. sent' \subseteq {i \in 1..Len(events') : answered'[i] = 1}
    BY <1>4 DEF AnsweredOnce
  <2>2. \A i \in 1..Len(events) : i > cursor => answered'[i] = 0
    BY <1>1, <1>2, <1>4 DEF AnsweredOnce
  <2>3. ASSUME NEW k \in DOMAIN batch
        PROVE  answered'[batch[k]] = 0 \/ k = 1
    <3>1. k # 1 => batch[k] \in 1..Len(events) /\ batch[k] # Current
      BY <1>1, <1>2
    <3>. QED
      BY <1>4, <3>1 DEF AnsweredOnce
  <2>4. Current' = Current
    BY DEF Current
  <2>. QED
    BY <1>4, <2>1, <2>2, <2>3, <2>4 DEF AnsweredOnce
<1>. QED
  BY <1>5, <1>6
-----------------------------------------------------------------------------
(***************************************************************************)
(* The worker's session, and how late a reply can be.                      *)
(***************************************************************************)

\* Neither the escalation nor the reply writes ai_enabled.
LEMMA WorkerCommit ==
    ASSUME Inv, WorkerSession, Commit(Worker)
    PROVE  row'.ai = row.ai /\ txn'[Worker].op = "idle"
<1>1. /\ Worker \in Sessions /\ txn[Worker] \in Transaction /\ txn[Worker].loaded \in Row
      /\ txn[Worker].op \in {"ai_escalate", "ai_reply"}
      /\ row' = WriteDirty(row, txn[Worker].loaded, Target(txn[Worker]))
  BY WorkerAssumption DEF Inv, TypeOK, Commit, Complete, Transaction, WorkerSession
<1>2. Target(txn[Worker]).ai = txn[Worker].loaded.ai
  BY <1>1 DEF Target, UpdateStatus, Row
<1>3. txn'[Worker].op = "idle"
  BY <1>1 DEF Inv, TypeOK, Commit, Idle
<1>. QED
  BY <1>1, <1>2, <1>3 DEF WriteDirty

\* A step that only moves the worker on: to a stage before the reply only with
\* the AI on, as far as the late reply is concerned.
LEMMA MoveKeeps ==
    ASSUME PipelineInv, UNCHANGED <<vars, late>>, txn[Worker].op = "idle",
           pc' \in Stages,
           pc' \in {"generate", "escalate", "reply"} =>
               late = 0 \/ pc \in {"generate", "escalate", "reply"}
    PROVE  (Inv /\ WorkerSession /\ LateOnce)'
<1>1. Inv'
  BY NextKeepsInv DEF vars, PipelineInv
<1>2. (WorkerSession /\ LateOnce)'
  BY DEF PipelineInv, vars, WorkerSession, LateOnce
<1>. QED
  BY <1>1, <1>2

LEMMA WorkerKeeps ==
    ASSUME PipelineInv, WorkerStep
    PROVE  PipelineInv'
<1>. USE DEF PipelineInv
<1>0. EventsAccounted
  BY DEF EventsAccounted
<1>1. Inv'
  BY DeskStep DEF PipelineNext
<1>2. txn \in [Sessions -> Transaction] /\ Worker \in Sessions /\ pc \in Stages
  BY WorkerAssumption DEF Inv, TypeOK, BatchShape
<1>3. CASE Poll
  <2>1. EventsAccounted'
    BY <1>0, <1>3, PollKeeps
  <2>2. txn[Worker].op = "idle"
    BY <1>3 DEF Poll, WorkerSession
  <2>3. (WorkerSession /\ LateOnce)'
    BY <1>3, <2>2, MoveKeeps DEF Poll, Stages
  <2>. QED
    BY <1>1, <2>1, <2>3 DEF EventsAccounted
<1>4. CASE WaitForVisible \/ CheckAIEnabled \/ Generate \/ EscalateSkip \/ ReplySkip \/ Dispatch
  <2>1. /\ pc # "poll" /\ pc' \in Stages \ {"poll", "dispatch"}
        /\ pc \in {"dispatch", "ack"} => pc' = "ack"
        /\ UNCHANGED <<vars, events, cursor, pending, batch, answered, faults, late>>
        /\ sent' = sent \/ (pc = "dispatch" /\ sent' = sent \cup {Current})
    BY <1>4 DEF WaitForVisible, CheckAIEnabled, Generate, EscalateSkip, ReplySkip, Dispatch,
                Goto, queue, Stages
  <2>2. EventsAccounted'
    BY <1>0, <2>1, StageKeeps
  <2>3. txn[Worker].op = "idle"
    BY <1>4 DEF WaitForVisible, CheckAIEnabled, Generate, EscalateSkip, ReplySkip, Dispatch,
                WorkerSession
  <2>4. pc' \in {"generate", "escalate", "reply"} =>
            late = 0 \/ pc \in {"generate", "escalate", "reply"}
    <3>1. CASE CheckAIEnabled
      <4>1. ~row.ai => Exists(row)
        BY DEF Inv, RowGrounded, Absent
      <4>. QED
        BY <3>1, <4>1 DEF CheckAIEnabled, Goto, LateOnce
    <3>2. CASE WaitForVisible \/ Generate \/ EscalateSkip \/ ReplySkip \/ Dispatch
      BY <3>2 DEF WaitForVisible, Generate, EscalateSkip, ReplySkip, Dispatch, Goto
    <3>. QED
      BY <1>4, <3>1, <3>2
  <2>5. (WorkerSession /\ LateOnce)'
    BY <2>1, <2>3, <2>4, MoveKeeps
  <2>. QED
    BY <1>1, <2>2, <2>5 DEF EventsAccounted
<1>5. CASE EscalateLoad \/ WorkerFlush \/ ReplyLoad
  <2>1. \/ txn'[Worker].op = txn[Worker].op
        \/ txn'[Worker].op = "ai_escalate" /\ pc = "escalate"
        \/ txn'[Worker].op = "ai_reply" /\ pc = "reply"
    BY <1>2, <1>5 DEF EscalateLoad, WorkerFlush, ReplyLoad, AIEscalateLoad, AIReplyLoad, Flush,
                      Begin, Advance, Open, Transaction
  <2>2. UNCHANGED <<row, queue, worker, late, faults>>
    BY <1>5 DEF EscalateLoad, WorkerFlush, ReplyLoad, AIEscalateLoad, AIReplyLoad, Flush
  <2>3. WorkerSession'
    BY <2>1, <2>2 DEF WorkerSession, worker
  <2>4. (StreamType /\ BatchShape /\ NoneStranded /\ AnsweredOnce)'
    BY <2>2 DEF queue, worker, StreamType, BatchShape, NoneStranded, AnsweredOnce, Current
  <2>5. LateOnce'
    BY <2>2 DEF LateOnce, worker
  <2>. QED
    BY <1>1, <2>3, <2>4, <2>5
<1>6. CASE EscalateCommit
  <2>1. row'.ai = row.ai /\ txn'[Worker].op = "idle"
    BY <1>6, WorkerCommit DEF EscalateCommit
  <2>2. /\ pc = "escalate" /\ pc' = "reply"
        /\ UNCHANGED <<events, cursor, pending, batch, answered, sent, faults, late>>
    BY <1>6 DEF EscalateCommit, queue
  <2>3. EventsAccounted'
    BY <1>0, <2>2, StageKeeps DEF Stages
  <2>4. (WorkerSession /\ LateOnce)'
    BY <2>1, <2>2 DEF WorkerSession, LateOnce
  <2>. QED
    BY <1>1, <2>3, <2>4 DEF EventsAccounted
<1>7. CASE ReplyCommit
  <2>1. row'.ai = row.ai /\ txn'[Worker].op = "idle"
    BY <1>7, WorkerCommit DEF ReplyCommit
  <2>2. /\ pc = "reply" /\ pc' = "dispatch" /\ late' = IF row.ai THEN 0 ELSE late + 1
        /\ answered' = [answered EXCEPT ![Current] = @ + 1]
        /\ UNCHANGED <<events, cursor, pending, batch, sent, faults>>
    BY <1>7 DEF ReplyCommit, queue
  <2>3. EventsAccounted'
    BY <1>0, <2>2, ReplyKeeps
  <2>4. (WorkerSession /\ LateOnce)'
    BY <2>1, <2>2 DEF WorkerSession, LateOnce
  <2>. QED
    BY <1>1, <2>3, <2>4 DEF EventsAccounted
<1>8. CASE Ack
  <2>1. EventsAccounted'
    BY <1>0, <1>8, NextEventKeeps DEF Ack
  <2>2. txn[Worker].op = "idle"
    BY <1>8 DEF Ack, WorkerSession
  <2>3. (WorkerSession /\ LateOnce)'
    BY <1>8, <2>2, MoveKeeps DEF Ack, NextEvent, Stages
  <2>. QED
    BY <1>1, <2>1, <2>3 DEF EventsAccounted
<1>. QED
  BY <1>3, <1>4, <1>5, <1>6, <1>7, <1>8 DEF WorkerStep

LEMMA FaultKeeps ==
    ASSUME PipelineInv, FaultStep
    PROVE  PipelineInv'
<1>. USE DEF PipelineInv, Fault
<1>0. EventsAccounted /\ faults \in Nat
  BY DEF EventsAccounted, StreamType
<1>1. Inv'
  BY DeskStep DEF PipelineNext
<1>2. txn \in [Sessions -> Transaction] /\ Worker \in Sessions
  BY WorkerAssumption DEF Inv, TypeOK
<1>3. CASE EventFails
  <2>1. pc # "poll" /\ row' = row /\ late' = late /\ NextEvent
    BY <1>3 DEF EventFails, Drop
  <2>2. EventsAccounted'
    BY <1>0, <1>3, <2>1, NextEventKeeps DEF EventFails
  <2>3. txn'[Worker].op = "idle" /\ pc' \in {"poll", "wait"}
    BY <1>2, <1>3, <2>1 DEF EventFails, Drop, Idle, NextEvent
  <2>4. (WorkerSession /\ LateOnce)'
    BY <2>1, <2>3 DEF WorkerSession, LateOnce
  <2>. QED
    BY <1>1, <2>2, <2>4 DEF EventsAccounted
<1>4. CASE EscalateFails
  <2>1. /\ pc = "escalate" /\ pc' = "reply" /\ faults' = faults + 1 /\ late' = late /\ row' = row
        /\ UNCHANGED <<events, cursor, pending, batch, answered, sent>>
        /\ txn'[Worker].op = "idle"
    BY <1>2, <1>4 DEF EscalateFails, Drop, Idle, queue
  <2>2. (StreamType /\ BatchShape /\ NoneStranded /\ AnsweredOnce)'
    <3>1. faults' \in Nat /\ faults' # 0
      BY <1>0, <2>1
    <3>2. StreamType'
      BY <2>1, <3>1 DEF StreamType
    <3>3. (BatchShape /\ NoneStranded)'
      BY <2>1, <3>1 DEF BatchShape, NoneStranded, Stages
    <3>4. AnsweredOnce'
      BY <2>1 DEF AnsweredOnce
    <3>. QED
      BY <3>2, <3>3, <3>4
  <2>3. (WorkerSession /\ LateOnce)'
    BY <2>1 DEF WorkerSession, LateOnce
  <2>. QED
    BY <1>1, <2>2, <2>3
<1>5. CASE AckFails \/ Crash
  <2>1. /\ batch' = <<>> /\ pc' = "poll" /\ faults' = faults + 1 /\ late' = late /\ row' = row
        /\ UNCHANGED <<events, cursor, pending, answered, sent>>
    BY <1>5 DEF AckFails, Crash, queue, vars
  <2>2. EventsAccounted'
    BY <1>0, <2>1, ForgetKeeps
  <2>3. txn'[Worker].op = "idle"
    BY <1>2, <1>5 DEF AckFails, Crash, Idle, vars, WorkerSession
  <2>4. (WorkerSession /\ LateOnce)'
    BY <2>1, <2>3 DEF WorkerSession, LateOnce
  <2>. QED
    BY <1>1, <2>2, <2>4 DEF EventsAccounted
<1>6. CASE \E s \in Clients : ClientFails(s)
  <2>1. /\ txn'[Worker] = txn[Worker] /\ row' = row /\ faults' = faults + 1
        /\ UNCHANGED <<queue, worker, late>>
    BY <1>2, <1>6 DEF ClientFails, Rollback, Drop, Clients
  <2>2. (StreamType /\ BatchShape /\ NoneStranded /\ AnsweredOnce)'
    <3>1. faults' \in Nat /\ faults' # 0
      BY <1>0, <2>1
    <3>2. StreamType'
      BY <2>1, <3>1 DEF StreamType, queue
    <3>3. (BatchShape /\ NoneStranded)'
      BY <2>1, <3>1 DEF BatchShape, NoneStranded, queue, worker
    <3>4. AnsweredOnce'
      BY <2>1 DEF AnsweredOnce, queue, worker, Current
    <3>. QED
      BY <3>2, <3>3, <3>4
  <2>3. (WorkerSession /\ LateOnce)'
    BY <2>1 DEF WorkerSession, LateOnce, worker
  <2>. QED
    BY <1>1, <2>2, <2>3
<1>. QED
  BY <1>3, <1>4, <1>5, <1>6 DEF FaultStep
-----------------------------------------------------------------------------
(***************************************************************************)
(* The theorems.                                                           *)
(***************************************************************************)

LEMMA PipelineInvInitially == PipelineInit => PipelineInv
<1>. SUFFICES ASSUME PipelineInit PROVE PipelineInv
  OBVIOUS
<1>1. Inv
  BY InitInv DEF PipelineInit
<1>2. txn[Worker].op = "idle"
  BY WorkerAssumption DEF PipelineInit, Init, Idle
<1>3. DOMAIN batch = {} /\ pending = {} /\ batch = <<>> /\ pc = "poll"
  BY DEF PipelineInit
<1>4. StreamType /\ BatchShape /\ NoneStranded
  BY <1>3 DEF PipelineInit, StreamType, BatchShape, NoneStranded, Stages
<1>5. WorkerSession /\ LateOnce
  BY <1>2, <1>3 DEF PipelineInit, WorkerSession, LateOnce
<1>6. AnsweredOnce
  BY <1>3 DEF PipelineInit, AnsweredOnce
<1>. QED
  BY <1>1, <1>4, <1>5, <1>6 DEF PipelineInv

LEMMA PipelineInvStep == PipelineInv /\ [PipelineNext]_pvars => PipelineInv'
<1>. SUFFICES ASSUME PipelineInv, [PipelineNext]_pvars PROVE PipelineInv'
  OBVIOUS
<1>1. CASE UNCHANGED pvars
  <2>1. Inv'
    BY DeskStep DEF PipelineInv
  <2>. QED
    BY <1>1, <2>1 DEF PipelineInv, pvars, vars, queue, worker, WorkerSession, StreamType,
                      BatchShape, NoneStranded, AnsweredOnce, Current, LateOnce
<1>. QED
  BY <1>1, ClientKeeps, WorkerKeeps, FaultKeeps DEF PipelineNext

\* The inductive invariant of the pipeline.
THEOREM PipelineInvariant == PipelineSpec => []PipelineInv
<1>. QED
  BY PipelineInvInitially, PipelineInvStep, PTL DEF PipelineSpec

\* No crash, no redelivery to another batch and no failed acknowledgement makes
\* the worker answer an event twice (workers/message_processor.py:76-177,
\* events/redis_streams.py: the group's cursor never goes back).
THEOREM AnsweredAtMostOnce == PipelineSpec => []OneReplyPerEvent
<1>1. PipelineInv => OneReplyPerEvent
  <2>. SUFFICES ASSUME PipelineInv, NEW i \in DOMAIN answered PROVE answered[i] <= 1
    BY DEF OneReplyPerEvent
  <2>1. answered \in Seq({0, 1})
    BY DEF PipelineInv, AnsweredOnce
  <2>2. answered[i] \in {0, 1}
    BY <2>1
  <2>. QED
    BY <2>2
<1>. QED
  BY <1>1, PipelineInvariant, PTL

\* What the dispatcher sends is stored in the conversation first, also when the
\* thread was gone or the storing failed (workers/message_processor.py:273-319).
THEOREM SentIsStored == PipelineSpec => []NothingSentUnstored
<1>1. PipelineInv => NothingSentUnstored
  <2>. SUFFICES ASSUME PipelineInv, NEW i \in sent PROVE answered[i] > 0
    BY DEF NothingSentUnstored
  <2>1. answered[i] = 1
    BY DEF PipelineInv, AnsweredOnce
  <2>. QED
    BY <2>1
<1>. QED
  BY <1>1, PipelineInvariant, PTL

\* After a takeover the AI can speak once more and not twice, however many events
\* wait: the worker reads ai_enabled again for the next one
\* (workers/message_processor.py:100-117).
THEOREM TakeoverSilencesSoon == PipelineSpec => []AtMostOneLateReply
<1>1. PipelineInv => AtMostOneLateReply
  BY DEF PipelineInv, LateOnce, AtMostOneLateReply
<1>. QED
  BY <1>1, PipelineInvariant, PTL

\* An event the worker still has is pending, and without a fault nothing else is:
\* every path of _process_message acknowledges (workers/message_processor.py:76-177).
THEOREM NothingIsStranded == PipelineSpec => []NoneStranded
<1>1. PipelineInv => NoneStranded
  BY DEF PipelineInv
<1>. QED
  BY <1>1, PipelineInvariant, PTL

\* The pipeline implements the desk: of a worker that reads, escalates, replies, fails
\* and dies (workers/message_processor.py:76-177) the conversation sees nothing but
\* handlers that keep DeskCore's guards and locks, and sessions lost without a commit.
THEOREM PipelineImplementsDesk == PipelineSpec => DeskWithCrashes
<1>1. PipelineInv /\ [PipelineNext]_pvars => [Next \/ SessionsLost]_vars
  BY DeskMoves DEF PipelineInv, Inv
<1>2. PipelineInit => Init
  BY DEF PipelineInit
<1>. QED
  BY <1>1, <1>2, PipelineInvariant, PTL DEF PipelineSpec, DeskWithCrashes

\* What DeskCore promises about the handlers holds beside the worker, too, and
\* through crashes of the process: locked reads stay fresh, a stored message has its
\* event (router/message_router.py:116), no "new" conversation is visible.
THEOREM DeskHoldsInPipeline ==
    PipelineSpec => [](ExclusiveIsFresh /\ NoSilentMessage /\ NewIsNeverVisible)
<1>1. PipelineInv => ExclusiveIsFresh /\ NoSilentMessage /\ NewIsNeverVisible
  BY DEF PipelineInv, Inv, RowGrounded
<1>. QED
  BY <1>1, PipelineInvariant, PTL

\* The pipeline implements Ownership, crashes and faults included: neither the
\* worker nor a lost session evicts an agent.
THEOREM OwnershipHoldsInPipeline == PipelineSpec => OwnershipKept
<1>1. PipelineInv /\ [PipelineNext]_pvars => [O!Next]_O!vars
  <2>. SUFFICES ASSUME PipelineInv, [PipelineNext]_pvars PROVE [O!Next]_O!vars
    OBVIOUS
  <2>1. Inv /\ (row' = row \/ \E s \in Sessions : Commit(s))
    BY DeskStep DEF PipelineInv
  <2>2. CASE row' = row
    BY <2>2 DEF O!vars
  <2>. QED
    BY <2>1, <2>2, CommitKeepsOwnership
<1>2. PipelineInit => O!Init
  BY OwnershipInitially DEF PipelineInit
<1>. QED
  BY <1>1, <1>2, PipelineInvariant, PTL DEF PipelineSpec, OwnershipKept, O!Spec

\* Nor does the worker, or a crash, switch the AI on or off.
THEOREM AIFollowsOwnerInPipeline == PipelineSpec => AISwitchesWithOwner
<1>1. PipelineInv /\ [PipelineNext]_pvars => [AISwitch]_row
  BY DeskStep, CommitSwitchesAI DEF PipelineInv
<1>. QED
  BY <1>1, PipelineInvariant, PTL DEF PipelineSpec, AISwitchesWithOwner, AISwitch
===============================================================================
