------------------------------- MODULE Webhook -------------------------------
(***************************************************************************)
(* Meta's webhook with a payload of several messages                       *)
(* (channels/whatsapp_business.py): all of them are routed one after the   *)
(* other in ONE database session, each publishing its event at once; the   *)
(* 200 is sent before get_db commits; any exception is a rollback and a    *)
(* 500, after which Meta delivers the whole payload again, as it does      *)
(* after a timeout while the first request still runs.                     *)
(*                                                                         *)
(* A session keeps the row locks of every thread it wrote and the unique   *)
(* keys of every message it inserted until it ends, and so does the SLA    *)
(* scan: PostgreSQL breaks the deadlocks among them by failing one.        *)
(***************************************************************************)
EXTENDS Lifecycle, Naturals, Sequences, FiniteSets

CONSTANTS Threads, Messages, Payloads,
          Batch,      \* Batch[p]: the messages of payload p in their order
          ThreadOf,   \* ThreadOf[m]: the conversation of m's sender
          Requests,   \* requests served at the same time
          Scanner,    \* the SLA scan's session
          NoRequest,  \* Meta waits for no answer
          MaxFaults   \* bound: faults and timeouts

ASSUME BatchAssumption == Batch \in [Payloads -> Seq(Messages) \ {<<>>}]
ASSUME ThreadAssumption == ThreadOf \in [Messages -> Threads]
ASSUME RequestAssumption == NoRequest \notin Requests /\ Scanner \notin Requests

VARIABLES rows,      \* rows[v]: the committed conversation row
          stored,    \* committed messages
          job,       \* job[s]: what session s has read and written so far
          sent,      \* payloads delivered at least once
          waiting,   \* waiting[p]: the request whose answer Meta takes for p
          acked,     \* payloads answered with a 200
          unlucky,   \* history: acknowledged payloads whose commit failed
          faults

hook == <<rows, stored, job, sent, waiting, acked, unlucky, faults>>

Jobs == Requests \cup {Scanner}

\* Of an object not loaded, and of a row not written, the entry is Absent.
Untouched == [v \in Threads |-> Absent]
NoJob == [op |-> "none", obj |-> Untouched, own |-> Untouched, msgs |-> {}]

Current(s) == Batch[job[s].p][job[s].k]
ThreadIn(s) == ThreadOf[Current(s)]
Holds(t, v) == Exists(job[t].own[v])
At(s, step) == job[s].op = "batch" /\ job[s].step = step

\* What s waits for: the row or key of a thread, or the key of a message.
Blockers(s) ==
    {t \in Jobs \ {s} :
        \/ At(s, "claim") /\ Holds(t, ThreadIn(s))
        \/ /\ At(s, "store")
           /\ \/ Current(s) \in job[t].msgs
              \/ LET o == job[s].obj[ThreadIn(s)]
                 IN AddCustomerMessage(o) # o /\ Holds(t, ThreadIn(s))
        \/ /\ job[s].op = "scan" /\ job[s].k <= Len(job[s].order)
           /\ Holds(t, job[s].order[job[s].k])}

Become(s, t) == job' = [job EXCEPT ![s] = t]
NextMessage(t) == IF t.k < Len(Batch[t.p]) THEN [t EXCEPT !.k = @ + 1, !.step = "open"]
                                           ELSE [t EXCEPT !.step = "respond"]

WebhookInit ==
    /\ rows \in [Threads -> {Absent, [Created EXCEPT !.status = "pending"]}]
    /\ stored = {} /\ sent = {} /\ acked = {} /\ unlucky = {}
    /\ job = [s \in Jobs |-> NoJob]
    /\ waiting = [p \in Payloads |-> NoRequest]
    /\ faults = 0

-----------------------------------------------------------------------------
\* Meta delivers a payload until a request answers with a 200 in time; which of
\* the free requests it becomes makes no difference.
Deliver(p) ==
    LET s == CHOOSE r \in Requests : job[r] = NoJob
    IN /\ p \notin acked /\ waiting[p] = NoRequest
       /\ \E r \in Requests : job[r] = NoJob
       /\ Become(s, [op |-> "batch", step |-> "open", p |-> p, k |-> 1,
                     obj |-> Untouched, own |-> Untouched, msgs |-> {}])
       /\ waiting' = [waiting EXCEPT ![p] = s]
       /\ sent' = sent \cup {p}
       /\ UNCHANGED <<rows, stored, acked, unlucky, faults>>

Redeliver(p) == p \in sent /\ Deliver(p)

GiveUp(p) ==
    /\ faults < MaxFaults /\ faults' = faults + 1
    /\ p \notin acked /\ waiting[p] # NoRequest
    /\ waiting' = [waiting EXCEPT ![p] = NoRequest]
    /\ UNCHANGED <<rows, stored, job, sent, acked, unlucky>>

\* The exception leaves the endpoint: get_db rolls back, the answer is a 500.
Refused(s) ==
    /\ Become(s, NoJob)
    /\ waiting' = [p \in Payloads |->
                      IF p = job[s].p /\ waiting[p] = s THEN NoRequest ELSE waiting[p]]

-----------------------------------------------------------------------------
Examined_Not(t) == [t EXCEPT !.step = "store"]

\* The duplicate check: a message known, or stored earlier in this session.
Examined(t) == IF Batch[t.p][t.k] \in stored \cup t.msgs THEN NextMessage(t)
                                                         ELSE [t EXCEPT !.step = "store"]

\* route: the SELECTs, in one step when no flush is between them. A session sees
\* its own writes, and an object it loaded before is not refreshed.
LoadThread(s) ==
    LET v == ThreadIn(s)
        seen == IF Exists(job[s].obj[v]) THEN job[s].obj[v] ELSE rows[v]
        t == [job[s] EXCEPT !.obj[v] = seen]
    IN /\ At(s, "open")
       /\ Become(s, IF GetOrCreate(seen) = seen THEN Examined(t) ELSE [t EXCEPT !.step = "claim"])
       /\ UNCHANGED <<rows, stored, sent, waiting, acked, unlucky, faults>>

\* The flush that creates or reopens it; the thread's key may be taken by then,
\* and nothing catches that.
ClaimThread(s) ==
    LET v == ThreadIn(s)
        o == job[s].obj[v]
    IN /\ At(s, "claim") /\ Blockers(s) = {}
       /\ IF ~Exists(o) /\ Exists(rows[v])
          THEN Refused(s)
          ELSE /\ Become(s, [job[s] EXCEPT !.step = "check", !.obj[v] = GetOrCreate(o),
                                !.own[v] = WriteDirty(rows[v], o, GetOrCreate(o))])
               /\ UNCHANGED waiting
       /\ UNCHANGED <<rows, stored, sent, acked, unlucky, faults>>

CheckDuplicate(s) ==
    /\ At(s, "check")
    /\ Become(s, Examined(job[s]))
    /\ UNCHANGED <<rows, stored, sent, waiting, acked, unlucky, faults>>

\* add_message and its flush. The event published next waits for nobody and is
\* DeskCore's; here it can only fail.
StoreMessage(s) ==
    LET v == ThreadIn(s)
        o == job[s].obj[v]
        visible == IF Holds(s, v) THEN job[s].own[v] ELSE rows[v]
    IN /\ At(s, "store") /\ Blockers(s) = {} /\ Current(s) \notin stored \cup job[s].msgs
       /\ Become(s, [NextMessage(job[s]) EXCEPT !.msgs = @ \cup {Current(s)},
                        !.obj[v] = AddCustomerMessage(o),
                        !.own[v] = IF AddCustomerMessage(o) = o THEN @
                                   ELSE WriteDirty(visible, o, AddCustomerMessage(o))])
       /\ UNCHANGED <<rows, stored, sent, waiting, acked, unlucky, faults>>

\* The handler of the IntegrityError rolls back, which expires the customer, and
\* then reads customer.id: that raises as well.
LoseRace(s) ==
    /\ At(s, "store") /\ Blockers(s) = {} /\ Current(s) \in stored \cup job[s].msgs
    /\ Refused(s)
    /\ UNCHANGED <<rows, stored, sent, acked, unlucky, faults>>

\* Every message is routed: the 200, which Meta may no longer wait for ...
Respond(s) ==
    /\ At(s, "respond")
    /\ Become(s, [job[s] EXCEPT !.step = "commit"])
    /\ acked' = acked \cup {p \in {job[s].p} : waiting[p] = s}
    /\ UNCHANGED <<rows, stored, sent, waiting, unlucky, faults>>

\* ... and the commit that get_db does after it.
Applied(s) == [v \in Threads |-> IF Holds(s, v) THEN job[s].own[v] ELSE rows[v]]

CommitBatch(s) ==
    /\ At(s, "commit")
    /\ rows' = Applied(s)
    /\ stored' = stored \cup job[s].msgs
    /\ Become(s, NoJob)
    /\ UNCHANGED <<sent, waiting, acked, unlucky, faults>>

-----------------------------------------------------------------------------
\* scan_due_conversations over the threads in breach, in any order.
ScanStart ==
    /\ job[Scanner] = NoJob
    /\ \E due \in SUBSET {v \in Threads : rows[v].status \in ACTIVE_STATUSES} \ {{}} :
       \E order \in [1..Cardinality(due) -> due] :
          /\ {order[i] : i \in DOMAIN order} = due
          /\ Become(Scanner, [op |-> "scan", order |-> order, k |-> 1, own |-> Untouched, msgs |-> {},
                              obj |-> [v \in Threads |-> IF v \in due THEN rows[v] ELSE Absent]])
    /\ UNCHANGED <<rows, stored, sent, waiting, acked, unlucky, faults>>

ScanEscalate ==
    LET t == job[Scanner]
        v == t.order[t.k]
    IN /\ t.op = "scan" /\ t.k <= Len(t.order) /\ Blockers(Scanner) = {}
       /\ Become(Scanner, [t EXCEPT !.k = @ + 1,
                 !.own[v] = WriteDirty(rows[v], t.obj[v], UpdateStatus(t.obj[v], "escalated"))])
       /\ UNCHANGED <<rows, stored, sent, waiting, acked, unlucky, faults>>

ScanCommit ==
    /\ job[Scanner].op = "scan" /\ job[Scanner].k > Len(job[Scanner].order)
    /\ rows' = Applied(Scanner)
    /\ Become(Scanner, NoJob)
    /\ UNCHANGED <<stored, sent, waiting, acked, unlucky, faults>>

-----------------------------------------------------------------------------
\* PostgreSQL fails one session of a cycle of waiting sessions.
Deadlocked(s) ==
    \E C \in SUBSET Jobs :
        /\ s \in C
        /\ \A c \in C : Blockers(c) \cap C # {} /\ \E d \in C : c \in Blockers(d)

Victim(s) ==
    /\ s \in Requests /\ Deadlocked(s)
    /\ Refused(s)
    /\ UNCHANGED <<rows, stored, sent, acked, unlucky, faults>>

\* The scan's session fails, as the victim or otherwise, until its next round.
ScanFails ==
    /\ faults < MaxFaults /\ faults' = faults + 1
    /\ job[Scanner].op = "scan"
    /\ Become(Scanner, NoJob)
    /\ UNCHANGED <<rows, stored, sent, waiting, acked, unlucky>>

\* Failures caught per message would answer 200 to what was rolled back.
RequestFails_Continues(s) ==
    /\ faults < MaxFaults /\ faults' = faults + 1
    /\ job[s].op = "batch" /\ job[s].step \notin {"respond", "commit"}
    /\ Become(s, [NextMessage(job[s]) EXCEPT !.own = Untouched, !.obj = Untouched, !.msgs = {}])
    /\ UNCHANGED <<rows, stored, sent, waiting, acked, unlucky>>

\* A statement or a publish fails.
RequestFails(s) ==
    /\ faults < MaxFaults /\ faults' = faults + 1
    /\ job[s].op = "batch" /\ job[s].step \notin {"respond", "commit"}
    /\ Refused(s)
    /\ UNCHANGED <<rows, stored, sent, acked, unlucky>>

Acknowledges(s) == At(s, "commit") /\ job[s].p \in acked /\ waiting[job[s].p] = s

CommitFails(s) ==
    /\ faults < MaxFaults /\ faults' = faults + 1
    /\ At(s, "commit")
    /\ unlucky' = unlucky \cup {p \in {job[s].p} : Acknowledges(s)}
    /\ Become(s, NoJob)
    /\ UNCHANGED <<rows, stored, sent, waiting, acked>>

\* The process dies with every open session; nobody answers what it served.
ServerDies ==
    /\ faults < MaxFaults /\ faults' = faults + 1
    /\ unlucky' = unlucky \cup {job[s].p : s \in {r \in Requests : Acknowledges(r)}}
    /\ job' = [s \in Jobs |-> NoJob]
    /\ waiting' = [p \in Payloads |-> IF p \in acked THEN waiting[p] ELSE NoRequest]
    /\ UNCHANGED <<rows, stored, sent, acked>>

-----------------------------------------------------------------------------
RequestStep(s) ==
    \/ LoadThread(s) \/ ClaimThread(s) \/ CheckDuplicate(s) \/ StoreMessage(s)
    \/ LoseRace(s) \/ Respond(s) \/ CommitBatch(s) \/ Victim(s)

ScanStep == ScanEscalate \/ ScanCommit

WebhookNext ==
    \/ \E p \in Payloads : Deliver(p) \/ GiveUp(p)
    \/ \E s \in Requests : RequestStep(s) \/ RequestFails(s) \/ CommitFails(s)
    \/ ScanStart \/ ScanStep \/ ScanFails \/ ServerDies

\* Meta retries for days; requests and the scan are asyncio tasks that run on; a
\* deadlock is noticed after a second; and a released lock goes to whom waits in
\* its queue, so a session that waits in the middle of its work gets it.
WebhookFairness ==
    /\ \A p \in Payloads : WF_hook(Redeliver(p))
    /\ \A s \in Requests : WF_hook(RequestStep(s))
    /\ \A s \in Requests :
          SF_hook(job[s].op = "batch" /\ job[s].k > 1 /\ (StoreMessage(s) \/ ClaimThread(s)))
    /\ SF_hook(ScanStep)

WebhookSpec == WebhookInit /\ [][WebhookNext]_hook
WebhookFairSpec == WebhookSpec /\ WebhookFairness

-----------------------------------------------------------------------------
\* What Meta was told to forget is stored, every message of it, once the session
\* that answered has ended: a race or a failure in the middle of a payload must
\* never end in a 200 (router/message_router.py:107-113). Only a commit that
\* fails after the answer loses a payload (db.py:82-92).
AckedIsStored ==
    \A p \in acked \ unlucky :
        \/ \E s \in Requests : Acknowledges(s) /\ job[s].p = p
        \/ \A i \in DOMAIN Batch[p] : Batch[p][i] \in stored

\* Redelivery comes to an end (router/message_router.py:62-67): through races,
\* deadlocks, failures and lost answers, every payload is answered with a 200.
BacklogEmpties == sent # acked ~> sent = acked
=============================================================================
