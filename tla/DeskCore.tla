------------------------------ MODULE DeskCore ------------------------------
(***************************************************************************)
(* One conversation thread and every handler that writes its row, each in  *)
(* a database session of its own: the inbound pipeline (MessageRouter),    *)
(* the inbox endpoints (takeover, resolve, status, respond), the SLA scan, *)
(* the AI engine's escalation and the processor's AI reply.                *)
(*                                                                         *)
(* PostgreSQL runs at READ COMMITTED: a SELECT sees the last commit, an    *)
(* UPDATE or INSERT waits for a conflicting row lock, and nothing checks   *)
(* that the row is still the one the session loaded.  A handler is thus a  *)
(* read, a flush that takes a lock, and a commit, with other sessions in   *)
(* between; only takeover and resolve read under FOR UPDATE.               *)
(***************************************************************************)
EXTENDS Lifecycle

CONSTANTS Sessions,       \* concurrent database sessions
          Messages,       \* customer messages, by channel_message_id
          Endpoints,      \* the handlers in use, a subset of Operations
          NoArg           \* the argument of a handler that takes none

Operations == {"inbound", "takeover", "resolve", "status", "respond",
               "scan", "ai_escalate", "ai_reply"}

ASSUME EndpointsAssumption == Endpoints \subseteq Operations

VARIABLES row,        \* the committed conversation row
          inbox,      \* customer messages committed to the thread
          routed,     \* messages with an event on the conversation.routed stream
          txn         \* txn[s]: the open transaction of session s

vars == <<row, inbox, routed, txn>>

Arguments == Agents \cup Messages \cup Status \cup {NoArg}
Steps == {"loaded", "fresh", "duplicate", "written", "published"}
Idle == [op |-> "idle", arg |-> NoArg, loaded |-> Absent, step |-> "loaded"]

Transaction == [op : Operations \cup {"idle"}, arg : Arguments, loaded : Row, step : Steps]

TypeOK ==
    /\ row \in Row
    /\ inbox \subseteq Messages
    /\ routed \subseteq Messages
    /\ txn \in [Sessions -> Transaction]

Open(op, arg, step) == [op |-> op, arg |-> arg, loaded |-> row, step |-> step]

-----------------------------------------------------------------------------
\* The row a transaction is turning its loaded copy into.
Target(t) ==
    CASE t.op = "inbound" /\ t.step \in {"fresh", "duplicate"} -> GetOrCreate(t.loaded)
      [] t.op = "inbound" /\ t.step \in {"written", "published"} ->
            AddCustomerMessage(GetOrCreate(t.loaded))
      [] t.op = "takeover" -> UpdateStatus(AssignAgent(t.loaded, t.arg), "active")
      [] t.op = "resolve" -> UpdateStatus(t.loaded, "resolved")
      [] t.op = "status" -> UpdateStatus(t.loaded, t.arg)
      [] t.op \in {"scan", "ai_escalate"} -> UpdateStatus(t.loaded, "escalated")
      [] OTHER -> t.loaded

\* The strongest row lock a transaction holds: FOR UPDATE, the lock of an
\* UPDATE (or of the unflushed thread's unique key), the key share an inserted
\* message takes on its conversation, or none.
Lock_PlainSelect(t) ==
    IF t.op = "idle" \/ t.step = "loaded" THEN "none"
    ELSE IF Target(t) # t.loaded THEN "update"
    ELSE IF t.step \in {"written", "published"} THEN "key_share" ELSE "none"

Lock(t) ==
    IF t.op \in {"takeover", "resolve"} THEN "exclusive"
    ELSE IF t.op = "idle" \/ t.step = "loaded" THEN "none"
    ELSE IF Target(t) # t.loaded THEN "update"
    ELSE IF t.step \in {"written", "published"} THEN "key_share" ELSE "none"

Conflict(l, m) ==
    /\ "none" \notin {l, m}
    /\ "exclusive" \in {l, m} \/ (l = "update" /\ m = "update")

CanHold(s, lock) == \A o \in Sessions \ {s} : ~Conflict(lock, Lock(txn[o]))

\* Session s takes its transaction to t, once the lock that needs is free.
Advance(s, t) ==
    /\ CanHold(s, Lock(t))
    /\ txn' = [txn EXCEPT ![s] = t]

Begin(s, op, arg, step) ==
    /\ txn[s].op = "idle"
    /\ op \in Endpoints
    /\ Advance(s, Open(op, arg, step))

At(s, op, step) == txn[s].op = op /\ txn[s].step = step

\* The session ends without committing; its locks go with it.
Drop(s) ==
    /\ txn' = [txn EXCEPT ![s] = Idle]
    /\ UNCHANGED <<row, inbox, routed>>

-----------------------------------------------------------------------------
\* MessageRouter.route, in the order it awaits: load the thread, create or
\* reopen it, look for the message, store it, publish the event.  A provider
\* delivers a message any number of times.
InboundLoad(s, m) ==
    /\ Begin(s, "inbound", m, "loaded")
    /\ UNCHANGED <<row, inbox, routed>>

\* The reopening is flushed before the duplicate check.
InboundOpenThread(s) ==
    /\ At(s, "inbound", "loaded")
    /\ Exists(row) => Exists(txn[s].loaded)
    /\ Advance(s, [txn[s] EXCEPT !.step =
                     IF txn[s].arg \in inbox THEN "duplicate" ELSE "fresh"])
    /\ UNCHANGED <<row, inbox, routed>>

\* Another session created the thread first: the unique constraint fails the
\* flush and nothing catches the IntegrityError.
InboundCreateRace(s) ==
    /\ At(s, "inbound", "loaded")
    /\ Exists(row) /\ ~Exists(txn[s].loaded)
    /\ Drop(s)

Storing(o, m) == txn[o].op = "inbound" /\ txn[o].arg = m
                 /\ txn[o].step \in {"written", "published"}

\* add_message; the unique index makes a second insert of m wait for the first.
InboundStore(s) ==
    /\ At(s, "inbound", "fresh")
    /\ txn[s].arg \notin inbox
    /\ \A o \in Sessions \ {s} : ~Storing(o, txn[s].arg)
    /\ Advance(s, [txn[s] EXCEPT !.step = "written"])
    /\ UNCHANGED <<row, inbox, routed>>

\* The message was committed after the duplicate check: the insert fails and
\* route rolls back.
InboundStoreRace(s) ==
    /\ At(s, "inbound", "fresh")
    /\ txn[s].arg \in inbox
    /\ Drop(s)

\* The event is published while the transaction is still open.
InboundPublish(s) ==
    /\ At(s, "inbound", "written")
    /\ routed' = routed \cup {txn[s].arg}
    /\ Advance(s, [txn[s] EXCEPT !.step = "published"])
    /\ UNCHANGED <<row, inbox>>

-----------------------------------------------------------------------------
\* Takeover and resolve read the row under FOR UPDATE, which waits for every
\* other lock and returns what was committed meanwhile; a refused request
\* (404, 409, 403, or the 500 of an illegal resolve) changes nothing.
Takeover_StaleCheck(s, a) ==
    /\ Exists(row) /\ row.status \notin Finished
    /\ Begin(s, "takeover", a, "loaded")
    /\ UNCHANGED <<row, inbox, routed>>

Takeover(s, a) ==
    /\ Exists(row) /\ row.status \notin Finished
    /\ row.agent \in {NoAgent, a}
    /\ Begin(s, "takeover", a, "loaded")
    /\ UNCHANGED <<row, inbox, routed>>

Resolve(s, a) ==
    /\ row.agent \in {NoAgent, a}
    /\ CanTransition(row.status, "resolved")
    /\ Begin(s, "resolve", a, "loaded")
    /\ UNCHANGED <<row, inbox, routed>>

\* The status endpoint, the SLA scan and the AI engine's escalation decide on
\* an unlocked read; the scan's escalate() gets the scan's own object back.
StatusLoad(s, t) ==
    /\ CanTransition(row.status, t)
    /\ Begin(s, "status", t, "loaded")
    /\ UNCHANGED <<row, inbox, routed>>

\* A conversation in breach; whether it is depends on the clock.
ScanLoad(s) ==
    /\ row.status \in ACTIVE_STATUSES
    /\ Begin(s, "scan", NoArg, "loaded")
    /\ UNCHANGED <<row, inbox, routed>>

AIEscalateLoad(s) ==
    /\ routed # {}
    /\ CanTransition(row.status, "escalated")
    /\ Begin(s, "ai_escalate", NoArg, "loaded")
    /\ UNCHANGED <<row, inbox, routed>>

\* Replies only insert a message, under a key share on the conversation: which
\* ones a thread has is not kept here. A human agent's reply checks the
\* assignment, unlocked; the processor's AI reply only that the thread exists.
RespondLoad(s, a) ==
    /\ Exists(row) /\ row.agent = a
    /\ Begin(s, "respond", a, "loaded")
    /\ UNCHANGED <<row, inbox, routed>>

AIReplyLoad(s, m) ==
    /\ m \in routed
    /\ Exists(row)
    /\ Begin(s, "ai_reply", m, "loaded")
    /\ UNCHANGED <<row, inbox, routed>>

\* The flush of all but the inbound pipeline: an UPDATE or an INSERT, behind its
\* lock.  Takeover flushes twice under the one it already has.
Flush(s) ==
    /\ txn[s].op \notin {"idle", "inbound"} /\ txn[s].step = "loaded"
    /\ Advance(s, [txn[s] EXCEPT !.step = "written"])
    /\ UNCHANGED <<row, inbox, routed>>

-----------------------------------------------------------------------------
Complete_CommitFirst(t) ==
    IF t.op = "inbound" THEN t.step \in {"duplicate", "written", "published"}
                        ELSE t.op # "idle" /\ t.step = "written"

Complete_DuplicateLeaks(t) ==
    IF t.op = "inbound" THEN t.step = "published"
                        ELSE t.op # "idle" /\ t.step = "written"

Complete(t) ==
    IF t.op = "inbound" THEN t.step \in {"duplicate", "published"}
                        ELSE t.op # "idle" /\ t.step = "written"

Commit(s) ==
    LET t == txn[s] IN
    /\ Complete(t)
    /\ row' = WriteDirty(row, t.loaded, Target(t))
    /\ inbox' = IF t.op = "inbound" THEN inbox \cup {t.arg} ELSE inbox
    /\ txn' = [txn EXCEPT ![s] = Idle]
    /\ UNCHANGED routed

\* A failed publish, a cancelled request, a lost connection, a crash.
Rollback(s) == txn[s].op # "idle" /\ Drop(s)

-----------------------------------------------------------------------------
Init ==
    /\ row = Absent
    /\ inbox = {}
    /\ routed = {}
    /\ txn = [s \in Sessions |-> Idle]

Inbound(s) ==
    \/ \E m \in Messages : InboundLoad(s, m)
    \/ InboundOpenThread(s) \/ InboundCreateRace(s)
    \/ InboundStore(s) \/ InboundStoreRace(s) \/ InboundPublish(s)

Inbox(s) ==
    \/ \E a \in Agents : Takeover(s, a) \/ Resolve(s, a) \/ RespondLoad(s, a)
    \/ \E t \in Status : StatusLoad(s, t)

Background(s) ==
    ScanLoad(s) \/ AIEscalateLoad(s) \/ (\E m \in Messages : AIReplyLoad(s, m))

Next == \E s \in Sessions :
            Inbound(s) \/ Inbox(s) \/ Background(s) \/ Flush(s) \/ Commit(s) \/ Rollback(s)

Spec == Init /\ [][Next]_vars

-----------------------------------------------------------------------------
(***************************************************************************)
(* Properties that hold.                                                   *)
(***************************************************************************)

\* The row locks of takeover and resolve do what they are there for: until the
\* session ends, what it decided on is what the row still says.
ExclusiveIsFresh ==
    \A s \in Sessions : txn[s].op \in {"takeover", "resolve"} => txn[s].loaded = row

\* No customer message is stored without its routing event on the stream, at
\* whatever step a session fails: MessageRouter publishes before the commit.
NoSilentMessage == \A m \in inbox : m \in routed

\* The agents' inbox never shows a "new" conversation: the message that creates
\* the row activates it in the same transaction.
NewIsNeverVisible == row.status # "new"

\* The AI is switched off only by a takeover's commit and back on only by one
\* that reopens the thread, even when columns are written over other commits.
AISwitchesWithOwner ==
    [][row'.ai # row.ai =>
         IF row'.ai THEN row'.status = "active" ELSE row'.agent # NoAgent]_row

\* Takeover and resolve keep the inbox's promise that an owner is never evicted
\* by another agent and never gains a finished conversation.
O == INSTANCE Ownership WITH owner <- row.agent,
                             open <- Exists(row) /\ row.status \notin Finished
OwnershipKept == O!Spec

\* No set of row locks leaves sessions waiting for each other: whatever a
\* session began, it ends.
SessionsEnd == \A s \in Sessions : txn[s].op # "idle" ~> txn[s].op = "idle"

\* Status changes follow the state machine, but for the thread's creation and
\* the forced reopening of a closed one (get_or_create_conversation).
LifecycleLegal ==
    [][row'.status # row.status =>
         \/ CanTransition(row.status, row'.status)
         \/ row'.status = "active" /\ row.status \in {"absent", "closed"}]_row

(***************************************************************************)
(* Statements of the code's comments and tests that the handlers break.    *)
(***************************************************************************)

\* "A human takeover disables AI auto-response for the thread" (assign_agent).
AISilentForOwner ==
    row.agent # NoAgent /\ row.status \notin Finished => ~row.ai
=============================================================================
