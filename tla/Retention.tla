------------------------------ MODULE Retention ------------------------------
(***************************************************************************)
(* What leaves the database for good: the retention sweep of               *)
(* ComplianceEngine, which deletes the conversations it read as old, and   *)
(* the GDPR erasure of ComplianceService, which follows its local commit   *)
(* by deleting the customer's files from the Vault, one call at a time.    *)
(* Several may run at once and over the same rows, and each may fail or    *)
(* die at any point.                                                       *)
(***************************************************************************)
EXTENDS Naturals

CONSTANTS Chats, Customer,  \* one customer and the customer's conversations
          VaultFiles,
          FilesOf,          \* FilesOf[v]: the vault_file_ids in v's metadata
          Jobs,             \* database sessions
          RetentionDays,    \* settings.data_retention_days
          MaxDay            \* bound: days

Rows == Chats \cup {Customer}

ASSUME CustomerAssumption == Customer \notin Chats
ASSUME FilesAssumption == FilesOf \in [Chats -> SUBSET VaultFiles]

VARIABLES kept,     \* rows in the database
          masked,   \* rows anonymized
          touched,  \* touched[v]: the day of its updated_at
          today,
          task,     \* task[s]: what session s has read and written so far
          trail,    \* committed audit entries
          vault,    \* files in the Vault
          owing,    \* history: files of what a committed erasure erased
          forsaken  \* history: files whose erasure died before it could report

retention == <<kept, masked, touched, today, task, trail, vault, owing, forsaken>>

Resting == [op |-> "none", held |-> {}]
Swept(v) == [what |-> "retention", of |-> v]
Erased(mode) == [what |-> mode, of |-> Customer]
Unerased(f) == [what |-> "vault", of |-> f]

RetentionInit ==
    /\ kept = Rows /\ masked = {}
    /\ touched = [v \in Chats |-> 0] /\ today = 0
    /\ task = [s \in Jobs |-> Resting]
    /\ trail = {} /\ vault = VaultFiles /\ owing = {} /\ forsaken = {}

Record(s, t) == task' = [task EXCEPT ![s] = t]
Locked(s, rs) == \E u \in Jobs \ {s} : task[u].held \cap rs # {}

Tomorrow ==
    /\ today < MaxDay /\ today' = today + 1
    /\ UNCHANGED <<kept, masked, touched, task, trail, vault, owing, forsaken>>

\* A status change, an assignment, a message that changes the row; a message to
\* an active conversation leaves updated_at as it is.
Touch(v) ==
    /\ v \in kept /\ \A s \in Jobs : v \notin task[s].held
    /\ touched' = [touched EXCEPT ![v] = today]
    /\ UNCHANGED <<kept, masked, today, task, trail, vault, owing, forsaken>>

-----------------------------------------------------------------------------
\* enforce_retention_policy: the conversations that are old now ...
SweepLoad(s) ==
    LET old == {v \in kept \cap Chats : touched[v] + RetentionDays < today}
    IN /\ task[s] = Resting /\ old # {}
       /\ Record(s, [op |-> "sweep", todo |-> old, held |-> {}])
       /\ UNCHANGED <<kept, masked, touched, today, trail, vault, owing, forsaken>>

SweepChat_CommitsEach(s) ==
    /\ task[s].op = "sweep"
    /\ \E v \in task[s].todo :
          /\ ~Locked(s, {v})
          /\ Record(s, [task[s] EXCEPT !.todo = @ \ {v}, !.held = @ \cup {v}])
          /\ kept' = kept \ {v}
    /\ UNCHANGED <<masked, touched, today, trail, vault, owing, forsaken>>

\* ... are deleted one by one with their messages, whatever happened to them
\* since; the flush of the audit entry deletes the row, or finds it gone.
SweepChat(s) ==
    /\ task[s].op = "sweep"
    /\ \E v \in task[s].todo :
          /\ ~Locked(s, {v})
          /\ Record(s, [task[s] EXCEPT !.todo = @ \ {v}, !.held = @ \cup {v}])
    /\ UNCHANGED <<kept, masked, touched, today, trail, vault, owing, forsaken>>

SweepCommit(s) ==
    /\ task[s].op = "sweep" /\ task[s].todo = {}
    /\ kept' = kept \ task[s].held
    /\ trail' = trail \cup {Swept(v) : v \in task[s].held}
    /\ Record(s, Resting)
    /\ UNCHANGED <<masked, touched, today, vault, owing, forsaken>>

-----------------------------------------------------------------------------
\* delete_customer_data: the rows, and the file ids of their metadata, which a
\* hard deletion removes.
Snapshot(rs) == UNION {FilesOf[v] : v \in rs \cap Chats}

ErasureLoad(s, mode) ==
    /\ task[s] = Resting /\ Customer \in kept
    /\ Record(s, [op |-> mode, step |-> "loaded", mine |-> kept, fresh |-> kept \ masked,
                files |-> Snapshot(kept), held |-> {},
                begun |-> IF mode = "hard" THEN 0 ELSE today])
    /\ UNCHANGED <<kept, masked, touched, today, trail, vault, owing, forsaken>>

\* A hard deletion takes what the customer has now, by the cascade, and only
\* warns of rows that are gone; an update of a row that is gone raises.
ErasureFlush(s) ==
    LET t == task[s]
        writes == IF t.op = "hard" THEN kept ELSE t.fresh
    IN /\ t.op \in {"anonymize", "hard"} /\ t.step = "loaded"
       /\ ~Locked(s, writes)
       /\ Record(s, IF writes \subseteq kept THEN [t EXCEPT !.step = "flushed", !.held = writes]
                                           ELSE Resting)
       /\ UNCHANGED <<kept, masked, touched, today, trail, vault, owing, forsaken>>

\* The local erasure and its audit entry are committed before the Vault is asked;
\* rows that an anonymization changed are as new as its transaction.
ErasureCommit(s) ==
    LET t == task[s]
    IN /\ t.op \in {"anonymize", "hard"} /\ t.step = "flushed"
       /\ kept' = IF t.op = "hard" THEN kept \ t.held ELSE kept
       /\ masked' = IF t.op = "hard" THEN masked ELSE masked \cup t.held
       /\ touched' = [v \in Chats |-> IF t.op = "anonymize" /\ v \in t.held THEN t.begun ELSE touched[v]]
       /\ trail' = trail \cup {Erased(t.op)}
       /\ owing' = owing \cup Snapshot(IF t.op = "hard" THEN t.held ELSE t.mine)
       /\ Record(s, IF t.files = {} THEN Resting
                  ELSE [op |-> "vault", todo |-> t.files, failed |-> {}, held |-> {}])
       /\ UNCHANGED <<today, vault, forsaken>>

EraseFile_Stops(s) ==
    /\ task[s].op = "vault"
    /\ \E f \in task[s].todo :
          \/ f \in vault /\ vault' = vault \ {f} /\ Record(s, [task[s] EXCEPT !.todo = @ \ {f}])
          \/ vault' = vault /\ Record(s, [task[s] EXCEPT !.todo = {}, !.failed = @ \cup {f}])
    /\ UNCHANGED <<kept, masked, touched, today, trail, owing, forsaken>>

\* delete_file never raises: of a file it did not see acknowledged, and of one
\* gone already, it says False.
EraseFile(s) ==
    /\ task[s].op = "vault"
    /\ \E f \in task[s].todo :
          \/ f \in vault /\ vault' = vault \ {f} /\ Record(s, [task[s] EXCEPT !.todo = @ \ {f}])
          \/ /\ vault' \in {vault, vault \ {f}}
             /\ Record(s, [task[s] EXCEPT !.todo = @ \ {f}, !.failed = @ \cup {f}])
    /\ UNCHANGED <<kept, masked, touched, today, trail, owing, forsaken>>

\* The second audit entry counts what failed; an exception of it is swallowed.
ReportFiles(s) ==
    /\ task[s].op = "vault" /\ task[s].todo = {}
    /\ Record(s, Resting)
    /\ \/ trail' = trail \cup {Unerased(f) : f \in task[s].failed} /\ UNCHANGED forsaken
       \/ forsaken' = forsaken \cup task[s].failed /\ UNCHANGED trail
    /\ UNCHANGED <<kept, masked, touched, today, vault, owing>>

\* A failed statement or commit, a deadlock, a cancelled request or a crash: the
\* open transaction is rolled back, and the files still to do are forgotten.
JobDies(s) ==
    /\ task[s] # Resting
    /\ Record(s, Resting)
    /\ forsaken' = forsaken \cup (IF task[s].op = "vault" THEN task[s].todo \cup task[s].failed ELSE {})
    /\ UNCHANGED <<kept, masked, touched, today, trail, vault, owing>>

RetentionNext ==
    \/ Tomorrow \/ \E v \in Chats : Touch(v)
    \/ \E s \in Jobs :
          \/ SweepLoad(s) \/ SweepChat(s) \/ SweepCommit(s)
          \/ \E mode \in {"anonymize", "hard"} : ErasureLoad(s, mode)
          \/ ErasureFlush(s) \/ ErasureCommit(s) \/ EraseFile(s) \/ ReportFiles(s)
          \/ JobDies(s)

RetentionSpec == RetentionInit /\ [][RetentionNext]_retention

-----------------------------------------------------------------------------
\* The audit trail and the data agree through crashes and overlapping jobs: a
\* conversation is gone exactly when a committed entry says who deleted it, one
\* per conversation for the sweep (compliance/engine.py:219-240), one for the
\* customer on a hard erasure (compliance/service.py:310-321).
GoneIsAudited ==
    \A v \in Chats : v \notin kept <=> {Swept(v), Erased("hard")} \cap trail # {}

\* "so a single bad id can't abort the rest" (compliance/service.py:152-155): a
\* file of an erased customer that is still in the Vault is being worked on or
\* was reported, unless the erasure died on the way.
OrphansReported ==
    \A f \in owing \cap vault :
        \/ Unerased(f) \in trail
        \/ \E s \in Jobs : task[s].op = "vault" /\ f \in task[s].todo \cup task[s].failed
        \/ f \in forsaken
=============================================================================
