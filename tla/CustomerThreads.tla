--------------------------- MODULE CustomerThreads ---------------------------
(***************************************************************************)
(* Who a message belongs to: CustomerResolver and the conversation lookup  *)
(* of MessageRouter.route, against the GDPR erasure of ComplianceService.  *)
(* A sender is known by a channel identifier; a thread by its unique       *)
(* (channel, channel_conversation_id), which is the identifier itself on   *)
(* WhatsApp and web chat and the root Message-ID on email, so several      *)
(* senders may write to one email thread.                                  *)
(***************************************************************************)
EXTENDS Naturals, FiniteSets

CONSTANTS Requests,  \* database sessions
          People, Messages, Threads,
          Sender, Thread,    \* Sender[m] writes m, to the thread Thread[m]
          Redacted,          \* what anonymization leaves of an identifier
          Modes,             \* erasures that happen: subset of {"anonymize", "hard"}
          MaxStamp           \* bound: transactions that create rows

ASSUME RedactedAssumption == Redacted \notin People \cup Threads
ASSUME ModesAssumption == Modes \subseteq {"anonymize", "hard"} /\ MaxStamp \in Nat
ASSUME InputAssumption == Sender \in [Messages -> People] /\ Thread \in [Messages -> Threads]

VARIABLES customers, \* committed rows [id, who]
          convs,     \* committed rows [id, cust, thread]
          stored,    \* committed rows [msg, conv, raw]; raw: not anonymized
          ever,      \* the latest creation stamp committed
          tx         \* tx[s]: what session s has read and written so far

threads == <<customers, convs, stored, ever, tx>>

Free == [op |-> "idle"]

ThreadsInit ==
    /\ customers = {} /\ convs = {} /\ stored = {} /\ ever = 0
    /\ tx = [s \in Requests |-> Free]

-----------------------------------------------------------------------------
\* Rows are stamped in the order their transactions start (created_at is now()).
InFlight(op) == {s \in Requests : tx[s].op = op}
Fresh == LET used == {ever} \cup {tx[s].at : s \in InFlight("inbound")}
         IN 1 + CHOOSE n \in used : \A k \in used : k <= n

Erasers == InFlight("anonymize") \cup InFlight("hard")
Flushed(s) == s \in Erasers /\ tx[s].step = "flushed"

\* The oldest row wins when an identifier has several.
Known(p) == {c \in customers : c.who = p}
Resolved(p) == CHOOSE c \in Known(p) : \A d \in Known(p) : c.id <= d.id

To(s, t) == tx' = [tx EXCEPT ![s] = t]

\* A customer committed apart from its conversation outlives the failure.
Fail_KeepsCustomer(s) ==
    LET t == tx[s]
        kept == IF t.op = "inbound" /\ t.newCust
                THEN {[id |-> t.cust, who |-> Sender[t.msg]]} ELSE {}
    IN /\ To(s, Free)
       /\ customers' = customers \cup kept
       /\ ever' = IF kept # {} /\ t.at > ever THEN t.at ELSE ever
       /\ UNCHANGED <<convs, stored>>

Fail(s) == To(s, Free) /\ UNCHANGED <<customers, convs, stored, ever>>

\* route: resolve_or_create.
Resolve(s, m) ==
    LET p == Sender[m]
        new == Known(p) = {}
    IN /\ tx[s] = Free /\ Fresh <= MaxStamp
       /\ To(s, [op |-> "inbound", step |-> "resolved", msg |-> m, at |-> Fresh,
                 cust |-> IF new THEN Fresh ELSE Resolved(p).id, newCust |-> new,
                 conv |-> 0, newConv |-> FALSE])
       /\ UNCHANGED <<customers, convs, stored, ever>>

-----------------------------------------------------------------------------
\* Rows another transaction is about to delete or to give another key: a row
\* that refers to one, or takes its key, waits for that transaction's end. The
\* cascade of a hard deletion reaches every conversation the customer has by then.
Erasing(c) == \E e \in Requests : Flushed(e) /\ tx[e].op = "hard" /\ tx[e].cust = c
Touched(t) == t.convs \cup
    (IF t.op = "hard" THEN {v.id : v \in {u \in convs : u.cust = t.cust}} ELSE {})
Rekeying(v) == \E e \in Requests : Flushed(e) /\ v \in Touched(tx[e])
Creating(t) == \E r \in InFlight("inbound") : tx[r].newConv /\ Thread[tx[r].msg] = t

Holders(t) == {v \in convs : v.thread = t}

Lookup_ByThread(c, t) == {v \in convs : v.thread = t}

\* get_or_create_conversation filters by the customer as well as by the thread.
Lookup(c, t) == {v \in convs : v.cust = c /\ v.thread = t}

OpenExisting(s) ==
    /\ s \in InFlight("inbound") /\ tx[s].step = "resolved"
    /\ \E v \in Lookup(tx[s].cust, Thread[tx[s].msg]) :
          To(s, [tx[s] EXCEPT !.step = "opened", !.conv = v.id])
    /\ UNCHANGED <<customers, convs, stored, ever>>

\* The insert waits for a transaction that holds the thread's key, and fails
\* when the key is taken or the customer is gone: a 500, nothing is stored.
CreateThread(s) ==
    LET t == tx[s]
        th == Thread[t.msg]
    IN /\ s \in InFlight("inbound") /\ t.step = "resolved"
       /\ Lookup(t.cust, th) = {}
       /\ ~Creating(th) /\ ~Erasing(t.cust) /\ \A v \in Holders(th) : ~Rekeying(v.id)
       /\ IF Holders(th) # {} \/ ~(t.newCust \/ \E c \in customers : c.id = t.cust)
          THEN Fail(s)
          ELSE /\ To(s, [t EXCEPT !.step = "opened", !.conv = t.at, !.newConv = TRUE])
               /\ UNCHANGED <<customers, convs, stored, ever>>

\* A known message id is a duplicate; so is, to route(), any IntegrityError of
\* the insert, also the one of a conversation deleted meanwhile. Anonymized
\* messages have lost their id.
StoreMessage(s) ==
    LET t == tx[s]
        known == \E e \in stored : e.msg = t.msg /\ e.conv = t.conv /\ e.raw
    IN /\ s \in InFlight("inbound") /\ t.step = "opened"
       /\ ~Rekeying(t.conv)
       /\ \A r \in InFlight("inbound") : tx[r].step = "stored" =>
             <<tx[r].msg, tx[r].conv>> # <<t.msg, t.conv>>
       /\ IF ~t.newConv /\ ~(\E v \in convs : v.id = t.conv)
          THEN Fail(s)
          ELSE /\ To(s, [t EXCEPT !.step = IF known THEN "duplicate" ELSE "stored"])
               /\ UNCHANGED <<customers, convs, stored, ever>>

CommitMessage(s) ==
    LET t == tx[s]
    IN /\ s \in InFlight("inbound") /\ t.step \in {"stored", "duplicate"}
       /\ customers' = customers \cup
             (IF t.newCust THEN {[id |-> t.cust, who |-> Sender[t.msg]]} ELSE {})
       /\ convs' = convs \cup
             (IF t.newConv THEN {[id |-> t.conv, cust |-> t.cust, thread |-> Thread[t.msg]]} ELSE {})
       /\ stored' = stored \cup
             (IF t.step = "stored" THEN {[msg |-> t.msg, conv |-> t.conv, raw |-> TRUE]} ELSE {})
       /\ ever' = IF (t.newCust \/ t.newConv) /\ t.at > ever THEN t.at ELSE ever
       /\ To(s, Free)

-----------------------------------------------------------------------------
\* delete_customer_data: the customer and the conversations it has now.
EraseLoad(s, mode) ==
    /\ tx[s] = Free /\ mode \in Modes
    /\ \E c \in customers :
          To(s, [op |-> mode, step |-> "loaded", cust |-> c.id,
                 convs |-> {v.id : v \in {u \in convs : u.cust = c.id}}, msgs |-> {}])
    /\ UNCHANGED <<customers, convs, stored, ever>>

\* _anonymize reads the messages it will overwrite.
EraseRead(s) ==
    /\ s \in Erasers /\ tx[s].step = "loaded"
    /\ To(s, [tx[s] EXCEPT !.step = "read",
                 !.msgs = {<<e.msg, e.conv>> : e \in {d \in stored : d.conv \in tx[s].convs}}])
    /\ UNCHANGED <<customers, convs, stored, ever>>

\* Changing or deleting a row's key waits for the transactions that refer to it.
EraseFlush(s) ==
    LET t == tx[s]
    IN /\ s \in Erasers /\ t.step = "read"
       /\ \A e \in Requests : Flushed(e) => tx[e].cust # t.cust
       /\ \A r \in InFlight("inbound") :
             /\ tx[r].step = "stored" => tx[r].conv \notin Touched(t)
             /\ t.op = "hard" /\ tx[r].newConv => tx[r].cust # t.cust
       /\ IF ~(\E c \in customers : c.id = t.cust)
          THEN Fail(s)
          ELSE /\ To(s, [t EXCEPT !.step = "flushed"])
               /\ UNCHANGED <<customers, convs, stored, ever>>

CommitAnonymized(s) ==
    LET t == tx[s]
    IN /\ Flushed(s) /\ t.op = "anonymize"
       /\ customers' = {IF c.id = t.cust THEN [c EXCEPT !.who = Redacted] ELSE c : c \in customers}
       /\ convs' = {IF v.id \in t.convs THEN [v EXCEPT !.thread = Redacted] ELSE v : v \in convs}
       /\ stored' = {IF <<e.msg, e.conv>> \in t.msgs THEN [e EXCEPT !.raw = FALSE] ELSE e : e \in stored}
       /\ To(s, Free)
       /\ UNCHANGED ever

\* Without the cascade, the conversations survive their customer.
CommitHardDelete_NoCascade(s) ==
    /\ Flushed(s) /\ tx[s].op = "hard"
    /\ customers' = {c \in customers : c.id # tx[s].cust}
    /\ To(s, Free)
    /\ UNCHANGED <<convs, stored, ever>>

\* The foreign keys cascade: whatever hangs on the customer goes with it.
CommitHardDelete(s) ==
    LET t == tx[s]
        lost == {v.id : v \in {u \in convs : u.cust = t.cust}}
    IN /\ Flushed(s) /\ t.op = "hard"
       /\ customers' = {c \in customers : c.id # t.cust}
       /\ convs' = {v \in convs : v.id \notin lost}
       /\ stored' = {e \in stored : e.conv \notin lost}
       /\ To(s, Free)
       /\ UNCHANGED ever

\* A failed statement or commit, a cancelled request.
Abort(s) == tx[s] # Free /\ Fail(s)

ThreadsNext ==
    \E s \in Requests :
        \/ \E m \in Messages : Resolve(s, m)
        \/ OpenExisting(s) \/ CreateThread(s) \/ StoreMessage(s) \/ CommitMessage(s)
        \/ \E mode \in Modes : EraseLoad(s, mode)
        \/ EraseRead(s) \/ EraseFlush(s) \/ CommitAnonymized(s) \/ CommitHardDelete(s)
        \/ Abort(s)

ThreadsSpec == ThreadsInit /\ [][ThreadsNext]_threads

-----------------------------------------------------------------------------
Owns(c, v) == v.cust = c.id

\* A message is only ever seen in a conversation of the customer who wrote it,
\* or of one anonymized since: nobody's mail lands in a thread of somebody else,
\* though several people may write to one email thread (conversations/manager.py:72-79).
NoCrossTalk ==
    \A e \in stored : \E v \in convs, c \in customers :
        v.id = e.conv /\ Owns(c, v) /\ c.who \in {Sender[e.msg], Redacted}

\* People whose messages go to one thread that nobody else writes to: every
\* WhatsApp and web-chat sender.
Private(p) == \A m, n \in Messages : Sender[m] = p =>
                 (Sender[n] = p <=> Thread[n] = Thread[m])

\* Two first messages race without a unique index on the identifiers
\* (router/customer_resolver.py:43-48), and yet such a sender never gets a
\* second customer: the loser cannot create the conversation and takes its
\* customer with it.
OneCustomerPerPerson ==
    \A p \in People : Private(p) => Cardinality(Known(p)) <= 1

\* Such a sender's thread stays with the customer the resolver finds, unless
\* that customer is anonymized: the next message can be stored.
HolderIsResolved ==
    \A m \in Messages : Private(Sender[m]) =>
        \A v \in Holders(Thread[m]) : \E c \in customers :
            /\ Owns(c, v)
            /\ c.who = Redacted \/ c = Resolved(Sender[m])

(***************************************************************************)
(* Statements of the code's comments that it breaks.                       *)
(***************************************************************************)

\* "Leaving them in place made the anonymized customer trivially
\* re-identifiable" (compliance/service.py:396-400): an anonymized customer
\* keeps neither a raw thread id nor a raw message.
ErasedIsAnonymous ==
    \A c \in customers : c.who = Redacted =>
        \A v \in convs : Owns(c, v) =>
            /\ v.thread = Redacted
            /\ \A e \in stored : e.conv = v.id => ~e.raw

\* "a resolved/closed conversation can never be re-created - creating one raised
\* IntegrityError and lost the customer's message" (conversations/manager.py:67-71):
\* whenever nothing is in flight, every message can be stored.
EveryMessageFits ==
    (\A s \in Requests : tx[s] = Free) =>
        \A m \in Messages : \A v \in Holders(Thread[m]) :
            Known(Sender[m]) # {} /\ v.cust = Resolved(Sender[m]).id
=============================================================================
