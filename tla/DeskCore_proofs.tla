--------------------------- MODULE DeskCore_proofs ---------------------------
(***************************************************************************)
(* Proofs about DeskCore, for any number of sessions, agents and messages  *)
(* and any set of endpoints.  The inductive invariant Inv adds to the type *)
(* invariant what each open transaction remembers of the row it loaded and *)
(* that no two sessions hold conflicting locks.                            *)
(***************************************************************************)
EXTENDS DeskCore, TLAPS

\* What the read of a handler checked, and what it can have written since.
WellFormed(t) ==
    /\ t.op \in {"takeover", "resolve", "respond"} => t.arg \in Agents
    /\ t.op \in {"inbound", "ai_reply"} => t.arg \in Messages
    /\ t.op = "status" => t.arg \in VALID_TRANSITIONS[t.loaded.status]
    /\ t.op \notin {"idle", "inbound"} =>
         Exists(t.loaded) /\ t.step \in {"loaded", "written"}
    /\ t.op = "takeover" =>
         t.loaded.status \notin Finished /\ t.loaded.agent \in {NoAgent, t.arg}
    /\ t.op \in {"resolve"} => CanTransition(t.loaded.status, "resolved")
    /\ ~Exists(t.loaded) => t.loaded = Absent
    /\ t.loaded.status # "new"

\* What it knows that the database still agrees with.
Grounded(t) ==
    /\ Exists(t.loaded) => Exists(row)
    /\ t.op = "inbound" /\ t.step = "duplicate" => t.arg \in inbox /\ Exists(t.loaded)
    /\ t.op = "inbound" /\ t.step = "published" => t.arg \in routed

LocksApart ==
    \A s, o \in Sessions : s # o => ~Conflict(Lock(txn[s]), Lock(txn[o]))

RowGrounded ==
    /\ ~Exists(row) => row = Absent /\ inbox = {}
    /\ NewIsNeverVisible

Inv ==
    /\ TypeOK
    /\ \A s \in Sessions : WellFormed(txn[s]) /\ Grounded(txn[s])
    /\ LocksApart
    /\ RowGrounded
    /\ ExclusiveIsFresh
    /\ NoSilentMessage

-----------------------------------------------------------------------------
(***************************************************************************)
(* The pure operators.                                                     *)
(***************************************************************************)

\* The state machine never leads back to "new" nor from a status to itself.
LEMMA TransitionFacts ==
    ASSUME NEW s, NEW t, CanTransition(s, t)
    PROVE  s \in Status /\ t \in Status \ {"new", s}
BY DEF CanTransition, VALID_TRANSITIONS, Status

\* What a transaction writes is a row, and a row with a status.
LEMMA TargetIsRow ==
    ASSUME NEW t \in Transaction, WellFormed(t)
    PROVE  /\ Target(t) \in Row
           /\ t.op # "idle" /\ Exists(t.loaded) => Exists(Target(t))
<1>1. t.loaded \in Row /\ t.op \in Operations \cup {"idle"}
  BY DEF Transaction
<1>2. CASE t.op = "inbound"
  BY <1>1, <1>2 DEF Target, GetOrCreate, AddCustomerMessage, Created, Absent, Row, Exists,
                    Status, Finished
<1>3. CASE t.op \in {"takeover", "resolve"}
  BY <1>1, <1>3 DEF Target, WellFormed, UpdateStatus, AssignAgent, Row, Exists, Status
<1>4. CASE t.op = "status"
  <2>1. CanTransition(t.loaded.status, t.arg)
    BY <1>1, <1>4 DEF WellFormed, CanTransition, Exists, Row
  <2>2. t.arg \in Status
    BY <2>1, TransitionFacts
  <2>. QED
    BY <1>1, <1>4, <2>2 DEF Target, UpdateStatus, Row, Exists, Status
<1>5. CASE t.op \in {"scan", "ai_escalate"}
  BY <1>1, <1>5 DEF Target, UpdateStatus, Row, Exists, Status
<1>6. CASE t.op \in {"respond", "ai_reply", "idle"}
  BY <1>1, <1>6 DEF Target
<1>. QED
  BY <1>1, <1>2, <1>3, <1>4, <1>5, <1>6 DEF Operations

\* Writing the dirty columns of a row over a row gives a row; a session that
\* changed nothing leaves the row alone.
LEMMA WriteDirtyFacts ==
    ASSUME NEW c \in Row, NEW l \in Row, NEW t \in Row
    PROVE  WriteDirty(c, l, t) \in Row /\ WriteDirty(c, l, l) = c
BY DEF WriteDirty, Row

LEMMA IdleFacts == Idle \in Transaction /\ WellFormed(Idle) /\ Lock(Idle) = "none"
<1>1. Idle.op = "idle" /\ Idle.loaded = Absent
  BY DEF Idle
<1>2. Idle \in Transaction
  BY DEF Idle, Transaction, Arguments, Steps, Absent, Row
<1>3. WellFormed(Idle)
  BY <1>1 DEF WellFormed, Absent
<1>4. Lock(Idle) = "none"
  BY <1>1 DEF Lock
<1>. QED
  BY <1>2, <1>3, <1>4

-----------------------------------------------------------------------------
(***************************************************************************)
(* A step that only moves one transaction.                                 *)
(***************************************************************************)

\* Conflicts are symmetric, and nothing conflicts with no lock.
LEMMA ConflictFacts ==
    ASSUME NEW l, NEW m
    PROVE  (Conflict(l, m) <=> Conflict(m, l)) /\ ~Conflict("none", l)
BY DEF Conflict

\* Session s may take its transaction to any well-formed one whose lock is free,
\* provided a FOR UPDATE reader's copy is the row.
LEMMA AdvanceKeepsInv ==
    ASSUME Inv, NEW s \in Sessions, NEW t \in Transaction,
           txn' = [txn EXCEPT ![s] = t],
           CanHold(s, Lock(t)),
           WellFormed(t), Grounded(t)',
           t.op \in {"takeover", "resolve"} => t.loaded = row,
           UNCHANGED <<row, inbox>>,
           routed \subseteq routed', routed' \subseteq Messages
    PROVE  Inv'
<1>. USE DEF Inv
<1>1. txn \in [Sessions -> Transaction]
  BY DEF TypeOK
<1>2. txn'[s] = t /\ \A o \in Sessions \ {s} : txn'[o] = txn[o]
  BY <1>1
<1>3. TypeOK'
  BY <1>1, <1>2 DEF TypeOK
<1>4. ASSUME NEW o \in Sessions
      PROVE  WellFormed(txn[o])' /\ Grounded(txn[o])'
  <2>1. CASE o = s
    BY <1>2, <2>1 DEF WellFormed, Grounded
  <2>2. CASE o # s
    BY <1>2, <2>2 DEF WellFormed, Grounded
  <2>. QED
    BY <2>1, <2>2
<1>5. LocksApart'
  <2>. SUFFICES ASSUME NEW p \in Sessions, NEW o \in Sessions, p # o
                PROVE  ~Conflict(Lock(txn'[p]), Lock(txn'[o]))
    BY DEF LocksApart
  <2>1. CASE p = s
    BY <1>2, <2>1 DEF CanHold
  <2>2. CASE o = s
    BY <1>2, <2>2, ConflictFacts DEF CanHold
  <2>3. CASE p # s /\ o # s
    BY <1>2, <2>3 DEF LocksApart
  <2>. QED
    BY <2>1, <2>2, <2>3
<1>6. RowGrounded'
  BY DEF RowGrounded, NewIsNeverVisible
<1>7. ExclusiveIsFresh'
  BY <1>2 DEF ExclusiveIsFresh
<1>8. NoSilentMessage'
  BY DEF NoSilentMessage
<1>. QED
  BY <1>3, <1>4, <1>5, <1>6, <1>7, <1>8

LEMMA DropKeepsInv ==
    ASSUME Inv, NEW s \in Sessions, Drop(s)
    PROVE  Inv'
<1>1. CanHold(s, Lock(Idle))
  BY IdleFacts, ConflictFacts DEF CanHold
<1>2. Grounded(Idle)'
  BY DEF Grounded, Idle, Absent, Exists
<1>3. Idle.op = "idle"
  BY DEF Idle
<1>. QED
  BY <1>1, <1>2, <1>3, IdleFacts, AdvanceKeepsInv DEF Drop, Inv, TypeOK

\* A handler's first read: the transaction it opens remembers the row itself.
LEMMA BeginKeepsInv ==
    ASSUME Inv, NEW s \in Sessions, NEW op \in Operations, NEW arg \in Arguments,
           Begin(s, op, arg, "loaded"),
           WellFormed(Open(op, arg, "loaded")),
           UNCHANGED <<row, inbox, routed>>
    PROVE  Inv'
<1>1. PICK t \in Transaction : t = Open(op, arg, "loaded")
  BY DEF Open, Transaction, Steps, Inv, TypeOK
<1>2. t.op = op /\ t.loaded = row /\ t.step = "loaded"
  BY <1>1 DEF Open
<1>3. Grounded(t)'
  BY <1>2 DEF Grounded, Exists
<1>4. CanHold(s, Lock(t)) /\ txn' = [txn EXCEPT ![s] = t]
  BY <1>1 DEF Begin, Advance
<1>5. WellFormed(t)
  BY <1>1
<1>6. routed \subseteq routed' /\ routed' \subseteq Messages
  BY DEF Inv, TypeOK
<1>. QED
  BY <1>2, <1>3, <1>4, <1>5, <1>6, AdvanceKeepsInv

\* A transaction that moves on to another step of the same handler.
LEMMA StepKeepsInv ==
    ASSUME Inv, NEW s \in Sessions, NEW step \in Steps,
           Advance(s, [txn[s] EXCEPT !.step = step]),
           txn[s].op \in Operations,
           txn[s].op # "inbound" => step = "written",
           txn[s].op = "inbound" /\ step = "duplicate" =>
             txn[s].arg \in inbox /\ Exists(txn[s].loaded),
           txn[s].op = "inbound" /\ step = "published" => txn[s].arg \in routed',
           UNCHANGED <<row, inbox>>,
           routed \subseteq routed', routed' \subseteq Messages
    PROVE  Inv'
<1>1. txn[s] \in Transaction /\ WellFormed(txn[s]) /\ Grounded(txn[s])
  BY DEF Inv, TypeOK
<1>2. PICK t \in Transaction : t = [txn[s] EXCEPT !.step = step]
  BY <1>1 DEF Transaction
<1>3. /\ t.op = txn[s].op /\ t.arg = txn[s].arg /\ t.loaded = txn[s].loaded
      /\ t.step = step
  BY <1>1, <1>2 DEF Transaction
<1>4. WellFormed(t)
  BY <1>1, <1>3 DEF WellFormed
<1>5. Grounded(t)'
  BY <1>1, <1>3 DEF Grounded
<1>6. CanHold(s, Lock(t)) /\ txn' = [txn EXCEPT ![s] = t]
  BY <1>2 DEF Advance
<1>7. t.op \in {"takeover", "resolve"} => t.loaded = row
  BY <1>3 DEF Inv, ExclusiveIsFresh
<1>. QED
  BY <1>4, <1>5, <1>6, <1>7, AdvanceKeepsInv

-----------------------------------------------------------------------------
(***************************************************************************)
(* The step that writes the row.                                           *)
(***************************************************************************)

\* A complete transaction leaves a row that exists and is not "new".
LEMMA CompleteTarget ==
    ASSUME NEW t \in Transaction, WellFormed(t), Complete(t),
           t.op = "inbound" /\ t.step = "duplicate" => Exists(t.loaded)
    PROVE  Target(t).status \notin {"absent", "new"}
<1>1. t.loaded \in Row /\ t.op \in Operations
  BY DEF Transaction, Complete
<1>2. CASE t.op = "inbound"
  BY <1>1, <1>2 DEF Complete, WellFormed, Target, GetOrCreate, AddCustomerMessage, Created,
                    Exists, Row, Status, Finished
<1>3. CASE t.op \in {"takeover", "resolve"}
  BY <1>1, <1>3 DEF Target, UpdateStatus, AssignAgent, Row
<1>4. CASE t.op = "status"
  <2>1. CanTransition(t.loaded.status, t.arg)
    BY <1>1, <1>4 DEF WellFormed, CanTransition, Exists, Row
  <2>2. t.arg \in Status \ {"new"}
    BY <2>1, TransitionFacts
  <2>. QED
    BY <1>1, <1>4, <2>2 DEF Target, UpdateStatus, Row, Status
<1>5. CASE t.op \in {"scan", "ai_escalate"}
  BY <1>1, <1>5 DEF Target, UpdateStatus, Row
<1>6. CASE t.op \in {"respond", "ai_reply"}
  BY <1>1, <1>6 DEF Target, WellFormed, Exists
<1>. QED
  BY <1>1, <1>2, <1>3, <1>4, <1>5, <1>6 DEF Operations

\* A transaction that completes without a lock has nothing to write.
LEMMA UnlockedWritesNothing ==
    ASSUME NEW t \in Transaction, Complete(t), Lock(t) = "none"
    PROVE  Target(t) = t.loaded
BY DEF Lock, Complete

LEMMA CommitKeepsInv ==
    ASSUME Inv, NEW s \in Sessions, Commit(s)
    PROVE  Inv'
<1>. USE DEF Inv
<1>1. /\ txn[s] \in Transaction /\ WellFormed(txn[s]) /\ Grounded(txn[s])
      /\ Complete(txn[s]) /\ txn[s].loaded \in Row /\ row \in Row
      /\ row' = WriteDirty(row, txn[s].loaded, Target(txn[s]))
      /\ txn' = [txn EXCEPT ![s] = Idle] /\ routed' = routed
  BY DEF TypeOK, Commit, Transaction
<1>2. Target(txn[s]) \in Row /\ Target(txn[s]).status \notin {"absent", "new"}
  BY <1>1, TargetIsRow, CompleteTarget DEF Grounded
<1>3. row' \in Row /\ row'.status \notin {"absent", "new"}
  <2>1. row' \in Row
    BY <1>1, <1>2, WriteDirtyFacts
  <2>2. row'.status \in {Target(txn[s]).status, row.status}
    BY <1>1 DEF WriteDirty
  <2>3. row.status # "new"
    BY DEF RowGrounded, NewIsNeverVisible
  <2>4. ~Exists(row) => row'.status = Target(txn[s]).status
    BY <1>1, <1>2 DEF WriteDirty, Grounded, WellFormed, Exists, Absent
  <2>. QED
    BY <1>2, <2>1, <2>2, <2>3, <2>4 DEF Exists
<1>4. inbox \subseteq inbox' /\ inbox' \subseteq Messages /\ inbox' \subseteq routed
  BY <1>1 DEF Commit, Complete, WellFormed, Grounded, TypeOK, NoSilentMessage
<1>6. TypeOK'
  BY <1>1, <1>3, <1>4, IdleFacts DEF TypeOK
<1>7. /\ txn'[s] = Idle
      /\ \A o \in Sessions \ {s} : txn'[o] = txn[o]
  BY <1>1 DEF TypeOK
<1>8. ASSUME NEW o \in Sessions
      PROVE  WellFormed(txn[o])' /\ Grounded(txn[o])'
  <2>1. CASE o = s
    <3>1. txn'[o].op = "idle" /\ txn'[o].loaded = Absent
      BY <1>7, <2>1 DEF Idle
    <3>. QED
      BY <3>1 DEF WellFormed, Grounded, Absent, Exists
  <2>2. CASE o # s
    BY <1>1, <1>3, <1>4, <1>7, <2>2 DEF WellFormed, Grounded, Exists
  <2>. QED
    BY <2>1, <2>2
<1>9. LocksApart'
  <2>. SUFFICES ASSUME NEW p \in Sessions, NEW o \in Sessions, p # o
                PROVE  ~Conflict(Lock(txn'[p]), Lock(txn'[o]))
    BY DEF LocksApart
  <2>1. CASE p = s
    BY <1>7, <2>1, IdleFacts, ConflictFacts
  <2>2. CASE o = s
    BY <1>7, <2>2, IdleFacts, ConflictFacts
  <2>3. CASE p # s /\ o # s
    BY <1>7, <2>3 DEF LocksApart
  <2>. QED
    BY <2>1, <2>2, <2>3
<1>10. RowGrounded'
  BY <1>3 DEF RowGrounded, NewIsNeverVisible, Exists
<1>11. ExclusiveIsFresh'
  <2>. SUFFICES ASSUME NEW o \in Sessions, txn'[o].op \in {"takeover", "resolve"}
                PROVE  txn'[o].loaded = row'
    BY DEF ExclusiveIsFresh
  <2>1. o # s /\ txn'[o] = txn[o]
    BY <1>7 DEF Idle
  <2>2. Lock(txn[o]) = "exclusive" /\ txn[o].loaded = row
    BY <2>1 DEF Lock, ExclusiveIsFresh
  <2>3. Lock(txn[s]) = "none"
    BY <2>1, <2>2 DEF LocksApart, Conflict
  <2>4. row' = row
    BY <1>1, <2>3, UnlockedWritesNothing, WriteDirtyFacts
  <2>. QED
    BY <2>1, <2>2, <2>4
<1>12. NoSilentMessage'
  BY <1>1, <1>4 DEF NoSilentMessage
<1>. QED
  BY <1>6, <1>8, <1>9, <1>10, <1>11, <1>12

-----------------------------------------------------------------------------
(***************************************************************************)
(* The theorems.                                                           *)
(***************************************************************************)

LEMMA InitInv == Init => Inv
<1>. SUFFICES ASSUME Init PROVE Inv
  OBVIOUS
<1>1. row = Absent /\ inbox = {} /\ routed = {}
  BY DEF Init
<1>2. \A s \in Sessions : txn[s] = Idle
  BY DEF Init
<1>3. TypeOK
  BY <1>1, IdleFacts DEF Init, TypeOK, Absent, Row
<1>4. ASSUME NEW s \in Sessions
      PROVE  WellFormed(txn[s]) /\ Grounded(txn[s])
  BY <1>2, IdleFacts DEF Grounded, Idle, Absent, Exists
<1>5. LocksApart
  BY <1>2, IdleFacts, ConflictFacts DEF LocksApart
<1>6. RowGrounded /\ ExclusiveIsFresh /\ NoSilentMessage
  BY <1>1, <1>2 DEF RowGrounded, NewIsNeverVisible, ExclusiveIsFresh, NoSilentMessage,
                    Absent, Idle, Exists
<1>. QED
  BY <1>3, <1>4, <1>5, <1>6 DEF Inv

LEMMA InboundKeepsInv ==
    ASSUME Inv, NEW s \in Sessions, Inbound(s)
    PROVE  Inv'
<1>1. txn[s] \in Transaction /\ WellFormed(txn[s]) /\ routed \subseteq Messages
  BY DEF Inv, TypeOK
<1>2. ASSUME NEW m \in Messages, InboundLoad(s, m)
      PROVE  Inv'
  <2>1. WellFormed(Open("inbound", m, "loaded"))
    BY DEF WellFormed, Open, Inv, RowGrounded, NewIsNeverVisible
  <2>. QED
    BY <1>2, <2>1, BeginKeepsInv DEF InboundLoad, Arguments, Operations
<1>3. CASE InboundOpenThread(s)
  <2>. DEFINE step == IF txn[s].arg \in inbox THEN "duplicate" ELSE "fresh"
  <2>1. Exists(row) => Exists(txn[s].loaded)
    BY <1>3 DEF InboundOpenThread
  <2>2. txn[s].arg \in inbox => Exists(txn[s].loaded)
    BY <2>1 DEF Inv, RowGrounded
  <2>3. CASE txn[s].arg \in inbox
    <3>1. Advance(s, [txn[s] EXCEPT !.step = "duplicate"])
      BY <1>3, <2>3 DEF InboundOpenThread
    <3>. QED
      BY <1>1, <1>3, <2>2, <2>3, <3>1, StepKeepsInv
         DEF InboundOpenThread, At, Steps, Operations
  <2>4. CASE txn[s].arg \notin inbox
    <3>1. Advance(s, [txn[s] EXCEPT !.step = "fresh"])
      BY <1>3, <2>4 DEF InboundOpenThread
    <3>. QED
      BY <1>1, <1>3, <3>1, StepKeepsInv DEF InboundOpenThread, At, Steps, Operations
  <2>. QED
    BY <2>3, <2>4
<1>4. CASE InboundStore(s)
  BY <1>1, <1>4, StepKeepsInv DEF InboundStore, At, Steps, Operations
<1>5. CASE InboundPublish(s)
  BY <1>1, <1>5, StepKeepsInv DEF InboundPublish, At, Steps, Operations, WellFormed
<1>6. CASE InboundCreateRace(s) \/ InboundStoreRace(s)
  BY <1>6, DropKeepsInv DEF InboundCreateRace, InboundStoreRace
<1>. QED
  BY <1>2, <1>3, <1>4, <1>5, <1>6 DEF Inbound

\* The other handlers' reads, each with what it checked.
LEMMA ReadsKeepInv ==
    ASSUME Inv, NEW s \in Sessions, Inbox(s) \/ Background(s)
    PROVE  Inv'
<1>. USE DEF Arguments, Operations
<1>1. row \in Row /\ row.status # "new" /\ routed \subseteq Messages
  BY DEF Inv, TypeOK, RowGrounded, NewIsNeverVisible
<1>2. ASSUME NEW op \in Operations \ {"inbound"}, NEW arg
      PROVE  /\ Open(op, arg, "loaded").op = op
             /\ Open(op, arg, "loaded").arg = arg
             /\ Open(op, arg, "loaded").loaded = row
             /\ Open(op, arg, "loaded").step = "loaded"
  BY DEF Open
<1>3. ASSUME NEW a \in Agents, Takeover(s, a)
      PROVE  Inv'
  <2>1. WellFormed(Open("takeover", a, "loaded"))
    BY <1>1, <1>2, <1>3 DEF WellFormed, Takeover
  <2>. QED
    BY <1>3, <2>1, BeginKeepsInv DEF Takeover
<1>4. ASSUME NEW a \in Agents, Resolve(s, a)
      PROVE  Inv'
  <2>1. WellFormed(Open("resolve", a, "loaded"))
    BY <1>1, <1>2, <1>4, TransitionFacts DEF WellFormed, Resolve, Exists, Status
  <2>. QED
    BY <1>4, <2>1, BeginKeepsInv DEF Resolve
<1>5. ASSUME NEW a \in Agents, RespondLoad(s, a)
      PROVE  Inv'
  <2>1. WellFormed(Open("respond", a, "loaded"))
    BY <1>1, <1>2, <1>5 DEF WellFormed, RespondLoad
  <2>. QED
    BY <1>5, <2>1, BeginKeepsInv DEF RespondLoad
<1>6. ASSUME NEW t \in Status, StatusLoad(s, t)
      PROVE  Inv'
  <2>1. CanTransition(row.status, t)
    BY <1>6 DEF StatusLoad
  <2>2. WellFormed(Open("status", t, "loaded"))
    BY <1>1, <1>2, <2>1, TransitionFacts DEF WellFormed, CanTransition, Exists, Status
  <2>. QED
    BY <1>6, <2>2, BeginKeepsInv DEF StatusLoad
<1>7. ASSUME ScanLoad(s)
      PROVE  Inv'
  <2>1. WellFormed(Open("scan", NoArg, "loaded"))
    BY <1>1, <1>2, <1>7 DEF WellFormed, ScanLoad, ACTIVE_STATUSES, Exists
  <2>. QED
    BY <1>7, <2>1, BeginKeepsInv DEF ScanLoad
<1>8. ASSUME AIEscalateLoad(s)
      PROVE  Inv'
  <2>1. WellFormed(Open("ai_escalate", NoArg, "loaded"))
    BY <1>1, <1>2, <1>8, TransitionFacts DEF WellFormed, AIEscalateLoad, Exists, Status
  <2>. QED
    BY <1>8, <2>1, BeginKeepsInv DEF AIEscalateLoad
<1>9. ASSUME NEW m \in Messages, AIReplyLoad(s, m)
      PROVE  Inv'
  <2>1. WellFormed(Open("ai_reply", m, "loaded"))
    BY <1>1, <1>2, <1>9 DEF WellFormed, AIReplyLoad
  <2>. QED
    BY <1>9, <2>1, BeginKeepsInv DEF AIReplyLoad
<1>. QED
  BY <1>3, <1>4, <1>5, <1>6, <1>7, <1>8, <1>9 DEF Inbox, Background

LEMMA NextKeepsInv == Inv /\ [Next]_vars => Inv'
<1>. SUFFICES ASSUME Inv, [Next]_vars PROVE Inv'
  OBVIOUS
<1>1. ASSUME NEW s \in Sessions, Flush(s)
      PROVE  Inv'
  <2>1. txn[s] \in Transaction /\ WellFormed(txn[s]) /\ routed \subseteq Messages
    BY DEF Inv, TypeOK
  <2>. QED
    BY <1>1, <2>1, StepKeepsInv DEF Flush, Steps, Transaction
<1>2. ASSUME NEW s \in Sessions, Rollback(s)
      PROVE  Inv'
  BY <1>2, DropKeepsInv DEF Rollback
<1>3. CASE UNCHANGED vars
  BY <1>3 DEF vars, Inv, TypeOK, WellFormed, Grounded, LocksApart, RowGrounded,
              NewIsNeverVisible, ExclusiveIsFresh, NoSilentMessage
<1>. QED
  BY <1>1, <1>2, <1>3, InboundKeepsInv, ReadsKeepInv, CommitKeepsInv DEF Next

LEMMA Invariance == Spec => []Inv
BY InitInv, NextKeepsInv, PTL DEF Spec

\* The state and every open transaction keep their types.
THEOREM TypeCorrect == Spec => []TypeOK
<1>1. Inv => TypeOK
  BY DEF Inv
<1>. QED
  BY <1>1, Invariance, PTL

\* Takeover and resolve commit over the very row they decided on, whatever the
\* unlocked handlers do meanwhile (inbox_api.take_over_conversation and
\* resolve_conversation, with_for_update).
THEOREM LockedReadsStayFresh == Spec => []ExclusiveIsFresh
<1>1. Inv => ExclusiveIsFresh
  BY DEF Inv
<1>. QED
  BY <1>1, Invariance, PTL

\* A committed customer message always has its conversation.routed event
\* (MessageRouter.route publishes before its caller commits).
THEOREM EveryMessageRouted == Spec => []NoSilentMessage
<1>1. Inv => NoSilentMessage
  BY DEF Inv
<1>. QED
  BY <1>1, Invariance, PTL

\* The agents' inbox never shows a conversation that is still "new".
THEOREM NewStaysInvisible == Spec => []NewIsNeverVisible
<1>1. Inv => NewIsNeverVisible
  BY DEF Inv, RowGrounded
<1>. QED
  BY <1>1, Invariance, PTL

AISwitch == row'.ai # row.ai =>
                IF row'.ai THEN row'.status = "active" ELSE row'.agent # NoAgent

\* Of the handlers' commits only two write ai_enabled, and each writes the
\* deciding column with it.
LEMMA CommitSwitchesAI ==
    ASSUME Inv, NEW s \in Sessions, Commit(s), row' # row
    PROVE  AISwitch
<1>1. /\ txn[s] \in Transaction /\ WellFormed(txn[s]) /\ Complete(txn[s])
      /\ txn[s].loaded \in Row /\ row \in Row
      /\ row' = WriteDirty(row, txn[s].loaded, Target(txn[s]))
  BY DEF Inv, TypeOK, Commit, Transaction
<1>2. CASE txn[s].op = "inbound"
  <2>1. \/ Target(txn[s]).ai = txn[s].loaded.ai
        \/ /\ Target(txn[s]).ai = TRUE
           /\ Target(txn[s]).status = "active" /\ txn[s].loaded.status # "active"
    <3>1. Target(txn[s]) \in {GetOrCreate(txn[s].loaded),
                              AddCustomerMessage(GetOrCreate(txn[s].loaded))}
      BY <1>1, <1>2 DEF Complete, Target
    <3>2. CASE ~Exists(txn[s].loaded)
      <4>1. txn[s].loaded = Absent /\ GetOrCreate(txn[s].loaded) = Created
        BY <1>1, <3>2 DEF WellFormed, GetOrCreate, Exists, Finished
      <4>2. Absent.ai = TRUE /\ Created.ai = TRUE
        BY DEF Absent, Created
      <4>3. AddCustomerMessage(Created).ai = TRUE
        BY DEF AddCustomerMessage, Created
      <4>. QED
        BY <3>1, <4>1, <4>2, <4>3
    <3>3. CASE txn[s].loaded.status \in Finished
      <4>1. GetOrCreate(txn[s].loaded) = [txn[s].loaded EXCEPT !.status = "active", !.ai = TRUE]
        BY <3>3 DEF GetOrCreate, Exists, Finished
      <4>. QED
        BY <1>1, <3>1, <3>3, <4>1 DEF AddCustomerMessage, Row, Finished
    <3>4. CASE Exists(txn[s].loaded) /\ txn[s].loaded.status \notin Finished
      <4>1. GetOrCreate(txn[s].loaded) = txn[s].loaded
        BY <3>4 DEF GetOrCreate
      <4>. QED
        BY <1>1, <3>1, <4>1 DEF AddCustomerMessage, Row
    <3>. QED
      BY <3>2, <3>3, <3>4
  <2>. QED
    BY <1>1, <2>1 DEF WriteDirty, AISwitch
<1>3. CASE txn[s].op = "takeover"
  <2>1. txn[s].loaded = row /\ txn[s].arg \in Agents
    BY <1>1, <1>3 DEF Inv, ExclusiveIsFresh, WellFormed
  <2>2. Target(txn[s]).agent = txn[s].arg /\ Target(txn[s]).ai = FALSE
    BY <1>3 DEF Target, UpdateStatus, AssignAgent
  <2>. QED
    BY <1>1, <2>1, <2>2, NoAgentAssumption DEF WriteDirty, AISwitch
<1>4. CASE txn[s].op \in Operations \ {"inbound", "takeover"}
  <2>1. Target(txn[s]).ai = txn[s].loaded.ai
    BY <1>1, <1>4 DEF Operations, Target, UpdateStatus, Row
  <2>. QED
    BY <1>1, <2>1 DEF WriteDirty, AISwitch
<1>. QED
  BY <1>1, <1>2, <1>3, <1>4 DEF Complete, Transaction

\* Only a commit changes the row.
LEMMA RowChangesInCommits ==
    ASSUME [Next]_vars, row' # row
    PROVE  \E s \in Sessions : Commit(s)
BY DEF Next, vars, Inbound, Inbox, Background, InboundLoad,
   InboundOpenThread, InboundCreateRace, InboundStore, InboundStoreRace,
   InboundPublish, Takeover, Resolve, StatusLoad, ScanLoad, AIEscalateLoad,
   RespondLoad, AIReplyLoad, Flush, Rollback, Drop

\* ai_enabled goes off only in a commit that leaves an owner and comes back only
\* in one that leaves the thread active, although sessions write columns over
\* each other's commits: the two handlers that touch it write the deciding
\* column with it.
THEOREM AIFollowsOwner == Spec => AISwitchesWithOwner
<1>1. Inv /\ [Next]_vars => [AISwitch]_row
  BY CommitSwitchesAI, RowChangesInCommits
<1>. QED
  BY <1>1, Invariance, PTL DEF Spec, AISwitchesWithOwner, AISwitch

-----------------------------------------------------------------------------
(***************************************************************************)
(* DeskCore implements Ownership.  Only a commit changes the row; what it  *)
(* does to the assignment and to the openness of the thread depends on the *)
(* handler, and for takeover and resolve on the row still being the one    *)
(* they loaded.                                                            *)
(***************************************************************************)

\* The columns a commit can write, by handler: nobody but a takeover assigns,
\* and an assignment is cleared only together with the status "resolved".
LEMMA CommitColumns ==
    ASSUME Inv, NEW s \in Sessions, Commit(s)
    PROVE  \/ row'.agent = row.agent
           \/ row'.agent = NoAgent /\ row'.status = "resolved"
           \/ /\ txn[s].op = "takeover" /\ row'.agent = txn[s].arg
              /\ row.agent \in {NoAgent, txn[s].arg}
              /\ Exists(row) /\ row.status \notin Finished /\ row'.status = "active"
<1>1. /\ txn[s] \in Transaction /\ WellFormed(txn[s]) /\ Grounded(txn[s])
      /\ Complete(txn[s]) /\ txn[s].loaded \in Row /\ row \in Row
      /\ row' = WriteDirty(row, txn[s].loaded, Target(txn[s]))
  BY DEF Inv, TypeOK, Commit, Transaction
<1>2. CASE txn[s].op = "inbound"
  <2>1. Target(txn[s]).agent = txn[s].loaded.agent
    BY <1>1, <1>2 DEF Complete, WellFormed, Target, GetOrCreate, AddCustomerMessage,
                      Created, Absent, Exists, Row
  <2>. QED
    BY <1>1, <2>1 DEF WriteDirty
<1>3. CASE txn[s].op = "takeover"
  <2>1. txn[s].loaded = row
    BY <1>3 DEF Inv, ExclusiveIsFresh
  <2>2. /\ Target(txn[s]).agent = txn[s].arg
        /\ Target(txn[s]).status = "active"
    BY <1>3 DEF Target, UpdateStatus, AssignAgent
  <2>. QED
    BY <1>1, <1>3, <2>1, <2>2 DEF WriteDirty, WellFormed
<1>4. CASE txn[s].op = "resolve" \/ (txn[s].op = "status" /\ txn[s].arg = "resolved")
  <2>1. Target(txn[s]) = [txn[s].loaded EXCEPT !.status = "resolved", !.agent = NoAgent]
    BY <1>4 DEF Target, UpdateStatus
  <2>2. CanTransition(txn[s].loaded.status, "resolved")
    BY <1>1, <1>4 DEF WellFormed, CanTransition, Exists, Row
  <2>3. txn[s].loaded.status # "resolved"
    BY <2>2, TransitionFacts
  <2>. QED
    BY <1>1, <2>1, <2>3 DEF WriteDirty, Row
<1>5. CASE \/ txn[s].op = "status" /\ txn[s].arg # "resolved"
           \/ txn[s].op \in {"scan", "ai_escalate", "respond", "ai_reply"}
  <2>1. Target(txn[s]).agent = txn[s].loaded.agent
    BY <1>1, <1>5 DEF Target, UpdateStatus, Row
  <2>. QED
    BY <1>1, <2>1 DEF WriteDirty
<1>. QED
  BY <1>1, <1>2, <1>3, <1>4, <1>5 DEF Complete, Transaction, Operations

\* So a commit is a step of Ownership, or none of its business.
LEMMA CommitKeepsOwnership ==
    ASSUME Inv, NEW s \in Sessions, Commit(s)
    PROVE  [O!Next]_O!vars
<1>1. row' \in Row /\ row \in Row
  BY CommitKeepsInv DEF Inv, TypeOK
<1>2. CASE row'.agent = row.agent
  BY <1>2 DEF O!Next, O!vars, O!Open, O!Close
<1>3. CASE row'.agent = NoAgent /\ row'.status = "resolved"
  BY <1>2, <1>3 DEF O!Next, O!vars, O!Release, Finished
<1>4. CASE /\ txn[s].op = "takeover" /\ row'.agent = txn[s].arg
           /\ row.agent \in {NoAgent, txn[s].arg}
           /\ Exists(row) /\ row.status \notin Finished /\ row'.status = "active"
  <2>1. txn[s].arg \in Agents
    BY <1>4 DEF Inv, WellFormed
  <2>2. Exists(row') /\ row'.status \notin Finished
    BY <1>4 DEF Exists, Finished
  <2>. QED
    BY <1>2, <1>4, <2>1, <2>2 DEF O!Next, O!vars, O!Claim
<1>. QED
  BY <1>2, <1>3, <1>4, CommitColumns

LEMMA OwnershipInitially == Init => O!Init
BY DEF Init, O!Init, Absent, Exists

\* The assignment column never passes from one agent to another and is never
\* set on a finished conversation, under any interleaving of the handlers and
\* any loss of sessions: every step is a step of Ownership.
THEOREM OwnershipHolds == Spec => OwnershipKept
<1>1. Inv /\ [Next]_vars => [O!Next]_O!vars
  <2>. SUFFICES ASSUME Inv, [Next]_vars PROVE [O!Next]_O!vars
    OBVIOUS
  <2>1. CASE row' = row
    BY <2>1 DEF O!vars
  <2>2. CASE row' # row
    BY <2>2, RowChangesInCommits, CommitKeepsOwnership
  <2>. QED
    BY <2>1, <2>2
<1>. QED
  BY <1>1, OwnershipInitially, Invariance, PTL DEF Spec, OwnershipKept, O!Spec
=============================================================================
