----------------------------- MODULE Lifecycle -----------------------------
(***************************************************************************)
(* The conversation row of Desk and the pure part of ConversationManager:  *)
(* the status machine, and what each manager method does to a Conversation *)
(* object in memory.  When these effects reach the database, and what they *)
(* overwrite there, is the subject of DeskCore.                            *)
(*                                                                         *)
(* A row keeps the three columns the handlers decide on.  The SLA due      *)
(* dates and the metadata column are abstracted: no handler below branches *)
(* on them.                                                                *)
(***************************************************************************)
CONSTANTS Agents,  \* human agents, rows of the agents table
          NoAgent  \* assigned_agent_id IS NULL

ASSUME NoAgentAssumption == NoAgent \notin Agents

Status == {"new", "active", "pending", "escalated", "resolved", "closed"}

\* Statuses from which a returning customer reopens the thread.
Finished == {"resolved", "closed"}

\* Statuses the SLA scan selects.
ACTIVE_STATUSES == {"new", "active", "pending"}

VALID_TRANSITIONS ==
    [new       |-> {"active", "escalated", "resolved", "closed"},
     active    |-> {"pending", "escalated", "resolved"},
     pending   |-> {"active", "escalated", "closed"},
     escalated |-> {"active", "resolved"},
     resolved  |-> {"active", "closed"},
     closed    |-> {}]

CanTransition(s, t) == s \in Status /\ t \in VALID_TRANSITIONS[s]

\* "absent": no row with this (channel, channel_conversation_id) yet.
Row == [status : Status \cup {"absent"}, agent : Agents \cup {NoAgent}, ai : BOOLEAN]

Absent == [status |-> "absent", agent |-> NoAgent, ai |-> TRUE]
Created == [status |-> "new", agent |-> NoAgent, ai |-> TRUE]

Exists(r) == r.status # "absent"

\* get_or_create_conversation: the thread is created, reopened or left alone.
GetOrCreate_RearmsAlways(r) ==
    CASE ~Exists(r)            -> Created
      [] r.status \in Finished -> [r EXCEPT !.status = "active", !.ai = TRUE]
      [] OTHER                 -> [r EXCEPT !.ai = TRUE]

GetOrCreate(r) ==
    CASE ~Exists(r)            -> Created
      [] r.status \in Finished -> [r EXCEPT !.status = "active", !.ai = TRUE]
      [] OTHER                 -> r

\* add_message for a customer: a waiting or new conversation becomes active.
AddCustomerMessage_PendingOnly(r) ==
    IF r.status = "pending" THEN [r EXCEPT !.status = "active"] ELSE r

AddCustomerMessage_Typo(r) ==
    IF r.status \in {"pending", "new"} THEN [r EXCEPT !.status = "open"] ELSE r

AddCustomerMessage(r) ==
    IF r.status \in {"pending", "new"} THEN [r EXCEPT !.status = "active"] ELSE r

\* assign_agent writes all three columns, whatever the status was.
AssignAgent(r, a) == [status |-> "escalated", agent |-> a, ai |-> FALSE]

\* update_status after its transition check; resolving clears the assignment,
\* and nothing here touches ai_enabled.
UpdateStatus(r, t) ==
    [r EXCEPT !.status = t, !.agent = IF t = "resolved" THEN NoAgent ELSE @]

\* What a session's flush leaves in the row: an ORM session writes the columns
\* that differ from what it loaded, over whatever the row holds by then.
WriteDirty(current, loaded, target) ==
    [status |-> IF target.status # loaded.status THEN target.status ELSE current.status,
     agent  |-> IF target.agent # loaded.agent THEN target.agent ELSE current.agent,
     ai     |-> IF target.ai # loaded.ai THEN target.ai ELSE current.ai]
============================================================================
