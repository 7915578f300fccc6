------------------------ MODULE Conversation_proofs ---------------------------
(***************************************************************************)
(* What the services beside a conversation promise: whose messages it      *)
(* holds, how mail is threaded, what the survey keeps and what the SLA     *)
(* scan tells.                                                             *)
(***************************************************************************)
EXTENDS CustomerThreads, Mail, Survey, SLAScan, TLAPS, LeastNumber,
        SequenceTheorems

(***************************************************************************)
(* Whose messages: customers, threads and the erasures among them.         *)
(***************************************************************************)

\* What a session knows of the committed rows.
Finder(t) ==
    /\ \A c \in customers : c.id # t.at
    /\ \A v \in convs : v.id # t.at
    /\ IF t.newCust THEN t.cust = t.at
       ELSE /\ t.cust <= ever
            /\ \A c \in customers : c.id = t.cust => c.who \in {Sender[t.msg], Redacted}
    /\ t.newConv =>
            /\ t.conv = t.at /\ t.step # "resolved"
            /\ t.newCust \/ \E c \in customers : c.id = t.cust
            /\ \A v \in convs : v.thread # Thread[t.msg]
    /\ t.step # "resolved" /\ ~t.newConv =>
            /\ ~t.newCust /\ t.conv <= ever
            /\ \A v \in convs : v.id = t.conv => v.cust = t.cust
            /\ t.step = "stored" => \E v \in convs : v.id = t.conv

Eraser(t) ==
    /\ \A n \in t.convs : n <= ever
    /\ \A v \in convs : v.id \in t.convs => v.cust = t.cust

\* Two messages in flight: neither has the stamp the other one's rows carry.
Apart(a, b) ==
    /\ a.at # b.at
    /\ ~b.newCust => b.cust # a.at
    /\ b.step # "resolved" /\ ~b.newConv => b.conv # a.at
    /\ a.newConv /\ b.newConv => Thread[a.msg] # Thread[b.msg]

\* A message in flight beside an erasure: the locks keep them apart.
Guarded(a, b) ==
    /\ a.at \notin b.convs
    /\ b.step = "flushed" =>
          /\ b.op = "hard" /\ a.newConv => a.cust # b.cust
          /\ a.step = "stored" => a.conv \notin Touched(b)

Erasures == {"anonymize", "hard"}

\* What each session guarantees, and each two.
Alone(t) ==
    /\ t.op = "inbound" => Finder(t)
    /\ t.op \in Erasures => Eraser(t)

Beside(a, b) ==
    /\ a.op = "inbound" /\ b.op = "inbound" => Apart(a, b)
    /\ a.op = "inbound" /\ b.op \in Erasures => Guarded(a, b)

\* The committed rows. Ids and threads are nobody else's, a thread has an owner, the
\* owner is who writes to it, and a private sender's customer holds its thread.
UniqueRows ==
    /\ \A c, d \in customers : c.id = d.id => c = d
    /\ \A v, w \in convs : v.id = w.id => v = w
    /\ \A c \in customers : c.id <= ever
    /\ \A v \in convs : v.id <= ever
OneHolder == \A v, w \in convs : v.thread = w.thread /\ v.thread # Redacted => v = w
Owned == \A v \in convs : \E c \in customers : Owns(c, v)
WrittenByItsOwner == \A v \in convs, c \in customers : Owns(c, v) /\ v.thread # Redacted =>
    \E m \in Messages : Thread[m] = v.thread /\ c.who \in {Sender[m], Redacted}
Holding == \A c \in customers, m \in Messages :
    c.who = Sender[m] /\ Private(Sender[m]) =>
        \E v \in convs : Owns(c, v) /\ v.thread = Thread[m]
RowsInv == UniqueRows /\ OneHolder /\ Owned /\ WrittenByItsOwner /\ Holding /\ NoCrossTalk

InboundTx == [op : {"inbound"}, step : {"resolved", "opened", "stored", "duplicate"},
              msg : Messages, at : 1..MaxStamp, cust : Nat, newCust : BOOLEAN,
              conv : Nat, newConv : BOOLEAN]
EraserTx == [op : Erasures, step : {"loaded", "read", "flushed"}, cust : Nat,
             convs : SUBSET Nat, msgs : SUBSET (Messages \X Nat)]

ThreadsTyped ==
    /\ customers \subseteq [id : Nat, who : {Redacted} \cup People]
    /\ convs \subseteq [id : Nat, cust : Nat, thread : {Redacted} \cup Threads]
    /\ stored \subseteq [msg : Messages, conv : Nat, raw : BOOLEAN]
    /\ ever \in 0..MaxStamp
    /\ tx \in [Requests -> {Free} \cup InboundTx \cup EraserTx]
    /\ \A c \in customers : c.who # Redacted => \E m \in Messages : c.who = Sender[m]

ThreadsInv ==
    /\ ThreadsTyped
    /\ RowsInv
    /\ \A s \in Requests : Alone(tx[s])
    /\ \A r, s \in Requests : r # s => Beside(tx[r], tx[s])

\* Fresh is a number later than every stamp given out: there is a greatest one.
LEMMA StampsAreGreatest ==
    ASSUME ThreadsTyped
    PROVE  /\ Fresh \in Nat \ {0} /\ Fresh > ever
           /\ \A r \in Requests : tx[r].op = "inbound" => tx[r].at < Fresh
<1> DEFINE used == {ever} \cup {tx[s].at : s \in InFlight("inbound")}
<1>1. ASSUME NEW s \in InFlight("inbound")
      PROVE  s \in Requests /\ tx[s] \in InboundTx
  BY <1>1 DEF ThreadsTyped, InFlight, InboundTx, EraserTx, Erasures, Free
<1>2. used \subseteq 0..MaxStamp /\ used # {}
  BY <1>1, ModesAssumption DEF ThreadsTyped, InboundTx
<1>3. PICK m \in used : \A k \in used : k <= m
  <2> HIDE DEF used
  <2> QED
    BY <1>2, ModesAssumption, GreatestNumber
<1> DEFINE g == CHOOSE n \in used : \A k \in used : k <= n
<1>4. g \in used /\ \A k \in used : k <= g
  <2> HIDE DEF used
  <2> QED
    BY <1>3
<1>5. Fresh = 1 + g
  BY DEF Fresh
<1>6. ever \in used /\ \A r \in Requests : tx[r].op = "inbound" => tx[r].at \in used
  BY DEF InFlight
<1>7. g \in Nat
  <2> HIDE DEF used, g
  <2> QED
    BY <1>2, <1>4, ModesAssumption
<1>8. \A k \in used : k \in Nat /\ k < 1 + g
  <2> HIDE DEF g
  <2> QED
    BY <1>2, <1>4, <1>7
<1> HIDE DEF used, g
<1> QED
  BY <1>5, <1>6, <1>7, <1>8

\* A transaction takes a step on its own rows only.
Quiet == UNCHANGED <<customers, convs, stored, ever>>

LEMMA QuietStep ==
    ASSUME ThreadsInv, NEW s \in Requests, NEW t, To(s, t), Quiet,
           t \in {Free} \cup InboundTx \cup EraserTx,
           Alone(t), \A r \in Requests : r # s => Beside(t, tx[r]) /\ Beside(tx[r], t)
    PROVE  ThreadsInv'
<1>1. ThreadsTyped'
  BY DEF ThreadsInv, ThreadsTyped, To, Quiet
<1>2. RowsInv'
  BY DEF ThreadsInv, RowsInv, UniqueRows, OneHolder, Owned, Owns, WrittenByItsOwner, Holding,
         NoCrossTalk, Quiet, Private
<1>3. ASSUME NEW r \in Requests
      PROVE  tx'[r] = IF r = s THEN t ELSE tx[r]
  BY DEF ThreadsInv, ThreadsTyped, To
<1>4. ASSUME NEW r \in Requests
      PROVE  Alone(tx[r])'
  <2>1. Alone(tx'[r])
    BY <1>3 DEF ThreadsInv
  <2> QED
    BY <2>1 DEF Alone, Finder, Eraser, Quiet
<1>5. ASSUME NEW r \in Requests, NEW q \in Requests, r # q
      PROVE  Beside(tx[r], tx[q])'
  <2>1. Beside(tx'[r], tx'[q])
    BY <1>3, <1>5 DEF ThreadsInv
  <2> QED
    BY <2>1 DEF Beside, Apart, Guarded, Touched, Quiet
<1> QED
  BY <1>1, <1>2, <1>4, <1>5 DEF ThreadsInv

\* A session is idle, has a message in flight, or erases.
LEMMA SessionShapes ==
    ASSUME ThreadsTyped, NEW r \in Requests
    PROVE  /\ tx[r].op = "inbound" => tx[r] \in InboundTx
           /\ tx[r].op \in Erasures => tx[r] \in EraserTx
           /\ tx[r] = Free \/ tx[r] \in InboundTx \/ tx[r] \in EraserTx
           /\ tx[r] # Free => tx[r].op # "idle"
  BY DEF ThreadsTyped, InboundTx, EraserTx, Erasures, Free

LEMMA FreeIsAlone ==
    Alone(Free) /\ \A a : Beside(Free, a) /\ Beside(a, Free)
  BY DEF Alone, Beside, Free, Erasures

LEMMA FailKeeps ==
    ASSUME ThreadsInv, NEW s \in Requests, Fail(s)
    PROVE  ThreadsInv'
  BY QuietStep, FreeIsAlone DEF Fail, Quiet

LEMMA ResolveKeeps ==
    ASSUME ThreadsInv, NEW s \in Requests, NEW m \in Messages, Resolve(s, m)
    PROVE  ThreadsInv'
<1> DEFINE p == Sender[m]
           new == Known(p) = {}
           n == Fresh
           t == [op |-> "inbound", step |-> "resolved", msg |-> m, at |-> n,
                 cust |-> IF new THEN n ELSE Resolved(p).id, newCust |-> new,
                 conv |-> 0, newConv |-> FALSE]
<1>0. ThreadsTyped /\ p \in People /\ p # Redacted
  BY InputAssumption, RedactedAssumption DEF ThreadsInv
<1>1. /\ n \in Nat \ {0} /\ n > ever /\ n <= MaxStamp /\ To(s, t) /\ Quiet
      /\ \A r \in Requests : tx[r].op = "inbound" => tx[r].at < n
  BY <1>0, StampsAreGreatest DEF Resolve, Quiet
<1>2. ASSUME ~new
      PROVE  Resolved(p) \in customers /\ Resolved(p).who = p
  <2>1. PICK k \in {c.id : c \in Known(p)} : \A d \in {c.id : c \in Known(p)} : k <= d
    <3>1. {c.id : c \in Known(p)} \in SUBSET Nat /\ {c.id : c \in Known(p)} # {}
      BY <1>0, <1>2 DEF Known, ThreadsTyped
    <3> QED
      BY <3>1, LeastNumber
  <2>2. PICK c \in Known(p) : \A d \in Known(p) : c.id <= d.id
    BY <2>1
  <2>3. Resolved(p) \in Known(p)
    BY <2>2 DEF Resolved
  <2> QED
    BY <2>3 DEF Known
<1>3. t.cust \in Nat /\ (~new => t.cust <= ever /\ \A c \in customers : c.id = t.cust => c.who = p)
  BY <1>1, <1>2 DEF ThreadsInv, ThreadsTyped, RowsInv, UniqueRows
<1>4. t \in InboundTx
  BY <1>1, <1>3, ModesAssumption DEF InboundTx
<1>5. /\ \A c \in customers : c.id # n
      /\ \A v \in convs : v.id # n
  BY <1>1, <1>0 DEF ThreadsInv, ThreadsTyped, RowsInv, UniqueRows
<1> DEFINE id == t.cust
<1>6. /\ t.op = "inbound" /\ t.step = "resolved" /\ t.msg = m /\ t.at = n /\ t.newCust = new
      /\ t.newConv = FALSE /\ t.cust = id /\ (new => id = n) /\ (~new => \E c \in customers : c.id = id)
  BY <1>2
<1>7. Alone(t)
  <2> HIDE DEF t
  <2>1. Finder(t)
    BY <1>3, <1>5, <1>6 DEF Finder
  <2> QED
    BY <2>1, <1>6 DEF Alone, Erasures
<1>8. ASSUME NEW r \in Requests, r # s
      PROVE  Beside(t, tx[r]) /\ Beside(tx[r], t)
  <2>1. Alone(tx[r])
    BY DEF ThreadsInv
  <2> HIDE DEF t, id, n
  <2>2. CASE tx[r].op = "inbound"
    <3>1. tx[r] \in InboundTx /\ Finder(tx[r]) /\ tx[r].at < n
      BY <2>1, <2>2, <1>0, <1>1, SessionShapes DEF Alone
    <3>2. tx[r].at \in Nat /\ tx[r].cust \in Nat /\ tx[r].conv \in Nat /\ ever \in Nat /\ n \in Nat
      BY <3>1, <1>0, <1>1, ModesAssumption DEF InboundTx, ThreadsTyped
    <3>3. Apart(t, tx[r])
      BY <1>1, <1>6, <3>1, <3>2 DEF Finder, Apart
    <3>4. Apart(tx[r], t)
      BY <1>1, <1>6, <3>1, <3>2 DEF Finder, Apart
    <3> QED
      BY <2>2, <3>3, <3>4, <1>6 DEF Beside, Erasures
  <2>3. CASE tx[r].op \in Erasures
    <3>1. tx[r] \in EraserTx /\ Eraser(tx[r])
      BY <2>1, <2>3, <1>0, SessionShapes DEF Alone
    <3>2. Guarded(t, tx[r])
      BY <1>1, <1>6, <3>1, <1>0 DEF Eraser, Guarded, EraserTx, ThreadsTyped
    <3> QED
      BY <2>3, <3>2, <1>6 DEF Beside, Erasures
  <2>4. CASE tx[r].op \notin Erasures \cup {"inbound"}
    BY <2>4, <1>6 DEF Beside, Erasures
  <2> QED
    BY <2>2, <2>3, <2>4
<1> HIDE DEF t
<1> QED
  BY <1>1, <1>4, <1>7, <1>8, QuietStep

\* A message that moves on: stamps, message and customer stay.
LEMMA MoveOn ==
    ASSUME ThreadsInv, NEW s \in Requests, NEW t, To(s, t), Quiet,
           tx[s].op = "inbound", t \in InboundTx,
           t.msg = tx[s].msg, t.at = tx[s].at, t.cust = tx[s].cust, t.newCust = tx[s].newCust,
           Finder(t),
           t.step # "resolved" /\ ~t.newConv =>
               \A r \in Requests : r # s /\ tx[r].op = "inbound" => t.conv # tx[r].at,
           t.newConv =>
               /\ \A r \in Requests : r # s /\ tx[r].op = "inbound" /\ tx[r].newConv =>
                      Thread[tx[r].msg] # Thread[t.msg]
               /\ \A r \in Requests : tx[r].op = "hard" /\ tx[r].step = "flushed" => t.cust # tx[r].cust,
           t.step = "stored" =>
               \A r \in Requests : tx[r].op \in Erasures /\ tx[r].step = "flushed" => t.conv \notin Touched(tx[r])
    PROVE  ThreadsInv'
<1>1. t.op = "inbound" /\ Alone(t)
  BY DEF InboundTx, Alone, Erasures
<1>2. ASSUME NEW r \in Requests, r # s
      PROVE  Beside(t, tx[r]) /\ Beside(tx[r], t)
  <2>1. Beside(tx[s], tx[r]) /\ Beside(tx[r], tx[s])
    BY <1>2 DEF ThreadsInv
  <2>2. CASE tx[r].op = "inbound"
    BY <1>1, <1>2, <2>1, <2>2 DEF Beside, Apart, Erasures
  <2>3. CASE tx[r].op \in Erasures
    BY <1>1, <1>2, <2>1, <2>3 DEF Beside, Guarded, Erasures
  <2>4. CASE tx[r].op \notin Erasures \cup {"inbound"}
    BY <2>4, <1>1 DEF Beside, Erasures
  <2> QED
    BY <2>2, <2>3, <2>4
<1> QED
  BY <1>1, <1>2, QuietStep

LEMMA OpenExistingKeeps ==
    ASSUME ThreadsInv, NEW s \in Requests, OpenExisting(s)
    PROVE  ThreadsInv'
<1> DEFINE a == tx[s]
<1>1. a.op = "inbound" /\ a.step = "resolved" /\ a \in InboundTx /\ Finder(a) /\ Quiet
  BY SessionShapes DEF OpenExisting, InFlight, ThreadsInv, Alone, Quiet
<1>2. PICK v \in convs : v.cust = a.cust /\ To(s, [a EXCEPT !.step = "opened", !.conv = v.id])
  BY DEF OpenExisting, Lookup
<1> DEFINE t == [a EXCEPT !.step = "opened", !.conv = v.id]
<1>3. v.id \in Nat /\ v.id <= ever /\ \A w \in convs : w.id = v.id => w = v
  BY DEF ThreadsInv, ThreadsTyped, RowsInv, UniqueRows
<1>4. ~a.newCust /\ ~a.newConv
  <2>1. PICK c \in customers : c.id = v.cust
    BY DEF ThreadsInv, RowsInv, Owned, Owns
  <2> QED
    BY <1>1, <1>2, <2>1 DEF Finder
<1>5. /\ t \in InboundTx /\ t.msg = a.msg /\ t.at = a.at /\ t.cust = a.cust
      /\ t.newCust = a.newCust /\ t.newConv = a.newConv /\ t.step = "opened" /\ t.conv = v.id
  BY <1>1, <1>3 DEF InboundTx
<1>6. Finder(t)
  <2> HIDE DEF t, a
  <2> QED
    BY <1>1, <1>2, <1>3, <1>4, <1>5 DEF Finder
<1>7. ASSUME NEW r \in Requests, r # s, tx[r].op = "inbound"
      PROVE  v.id # tx[r].at
  BY <1>7 DEF ThreadsInv, Alone, Finder
<1> HIDE DEF t
<1> QED
  BY <1>1, <1>2, <1>4, <1>5, <1>6, <1>7, MoveOn DEF t

LEMMA CreateThreadKeeps ==
    ASSUME ThreadsInv, NEW s \in Requests, CreateThread(s)
    PROVE  ThreadsInv'
<1>0. PICK a : a = tx[s]
  OBVIOUS
<1> DEFINE th == Thread[a.msg]
<1>1. a.op = "inbound" /\ a.step = "resolved" /\ a \in InboundTx /\ Finder(a)
  BY <1>0, SessionShapes DEF CreateThread, InFlight, ThreadsInv, Alone
<1>2. CASE Fail(s)
  BY <1>2, FailKeeps
<1>3. CASE ~Fail(s)
  <2> DEFINE Step(x) == [a EXCEPT !.step = "opened", !.conv = a.at, !.newConv = x]
  <2>1. /\ Holders(th) = {} /\ (a.newCust \/ \E c \in customers : c.id = a.cust)
        /\ To(s, Step(TRUE)) /\ Quiet /\ ~Creating(th) /\ ~Erasing(a.cust)
    BY <1>0, <1>3 DEF CreateThread, Quiet
  <2>2. PICK x \in BOOLEAN : x = TRUE
    OBVIOUS
  <2>3. PICK t : t = Step(x)
    OBVIOUS
  <2>4. To(s, t)
    BY <2>1, <2>2, <2>3
  <2>5. /\ t \in InboundTx /\ t.msg = a.msg /\ t.at = a.at /\ t.cust = a.cust
        /\ t.newCust = a.newCust /\ t.newConv = x /\ t.step = "opened" /\ t.conv = a.at
    <3> DEFINE u == [a EXCEPT !.step = "opened", !.conv = a.at]
    <3>1. /\ u \in InboundTx /\ u.msg = a.msg /\ u.at = a.at /\ u.cust = a.cust
          /\ u.newCust = a.newCust /\ u.step = "opened" /\ u.conv = a.at
      <4>1. a.at \in Nat
        BY <1>1, ModesAssumption DEF InboundTx
      <4> QED
        BY <1>1, <4>1 DEF InboundTx
    <3>2. t = [u EXCEPT !.newConv = x]
      BY <1>1, <2>3 DEF InboundTx
    <3> HIDE DEF u
    <3>3. /\ t \in InboundTx /\ t.newConv = x
      BY <3>1, <3>2 DEF InboundTx
    <3>4. t.msg = u.msg /\ t.at = u.at /\ t.cust = u.cust /\ t.newCust = u.newCust
          /\ t.step = u.step /\ t.conv = u.conv
      BY <3>1, <3>2 DEF InboundTx
    <3> QED
      BY <3>1, <3>3, <3>4
  <2> HIDE DEF Step
  <2>6. Finder(t)
    BY <1>1, <2>1, <2>2, <2>5 DEF Finder, Holders
  <2>7. ASSUME NEW r \in Requests, tx[r].op = "inbound", tx[r].newConv
        PROVE  Thread[tx[r].msg] # th
    BY <2>1, <2>7 DEF Creating, InFlight
  <2>8. ASSUME NEW r \in Requests, tx[r].op = "hard", tx[r].step = "flushed"
        PROVE  a.cust # tx[r].cust
    BY <2>1, <2>8 DEF Erasing, Flushed, Erasers, InFlight
  <2> QED
    BY <1>0, <1>1, <2>1, <2>2, <2>4, <2>5, <2>6, <2>7, <2>8, MoveOn
<1> QED
  BY <1>2, <1>3

LEMMA StoreMessageKeeps ==
    ASSUME ThreadsInv, NEW s \in Requests, StoreMessage(s)
    PROVE  ThreadsInv'
<1> DEFINE a == tx[s]
<1>1. a.op = "inbound" /\ a.step = "opened" /\ a \in InboundTx /\ Finder(a)
  BY SessionShapes DEF StoreMessage, InFlight, ThreadsInv, Alone
<1>2. CASE Fail(s)
  BY <1>2, FailKeeps
<1>3. CASE ~Fail(s)
  <2>1. /\ a.newConv \/ \E v \in convs : v.id = a.conv
        /\ Quiet /\ ~Rekeying(a.conv)
    BY <1>3 DEF StoreMessage, Quiet
  <2>2. PICK x \in {"duplicate", "stored"} : To(s, [a EXCEPT !.step = x])
    BY <1>3 DEF StoreMessage
  <2> DEFINE t == [a EXCEPT !.step = x]
  <2>3. /\ t \in InboundTx /\ t.msg = a.msg /\ t.at = a.at /\ t.cust = a.cust
        /\ t.newCust = a.newCust /\ t.newConv = a.newConv /\ t.step = x /\ t.conv = a.conv
    BY <1>1 DEF InboundTx
  <2>4. Finder(t)
    <3> HIDE DEF t, a
    <3> QED
      BY <1>1, <2>1, <2>3 DEF Finder
  <2>5. ASSUME NEW r \in Requests, tx[r].op \in Erasures, tx[r].step = "flushed"
        PROVE  /\ a.conv \notin Touched(tx[r])
               /\ tx[r].op = "hard" /\ a.newConv => a.cust # tx[r].cust
    <3>1. a.conv \notin Touched(tx[r])
      BY <2>1, <2>5 DEF Rekeying, Flushed, Erasers, InFlight, Erasures
    <3>2. Guarded(a, tx[r])
      BY <1>1, <2>5 DEF ThreadsInv, Beside, Erasures
    <3> QED
      BY <2>5, <3>1, <3>2 DEF Guarded
  <2>6. ASSUME NEW r \in Requests, r # s, tx[r].op = "inbound"
        PROVE  /\ ~a.newConv => a.conv # tx[r].at
               /\ a.newConv /\ tx[r].newConv => Thread[tx[r].msg] # Thread[a.msg]
    <3>1. Apart(tx[r], a)
      BY <1>1, <2>6 DEF ThreadsInv, Beside
    <3> QED
      BY <1>1, <3>1 DEF Apart
  <2> HIDE DEF t
  <2> QED
    BY <1>1, <2>1, <2>2, <2>3, <2>4, <2>5, <2>6, MoveOn DEF t, Erasures
<1> QED
  BY <1>2, <1>3

\* An erasure that moves on.
LEMMA EraseOn ==
    ASSUME ThreadsInv, NEW s \in Requests, NEW t, To(s, t), Quiet, t \in EraserTx, Eraser(t),
           \A r \in Requests : r # s /\ tx[r].op = "inbound" => Guarded(tx[r], t)
    PROVE  ThreadsInv'
<1>1. t.op \in Erasures /\ t.op # "inbound" /\ Alone(t)
  BY DEF EraserTx, Erasures, Alone
<1>2. ASSUME NEW r \in Requests, r # s
      PROVE  Beside(t, tx[r]) /\ Beside(tx[r], t)
  BY <1>1, <1>2 DEF Beside
<1> QED
  BY <1>1, <1>2, QuietStep

LEMMA EraseLoadKeeps ==
    ASSUME ThreadsInv, NEW s \in Requests, NEW mode \in Modes, EraseLoad(s, mode)
    PROVE  ThreadsInv'
<1>1. PICK c \in customers :
          To(s, [op |-> mode, step |-> "loaded", cust |-> c.id,
                 convs |-> {v.id : v \in {u \in convs : u.cust = c.id}}, msgs |-> {}])
  BY DEF EraseLoad
<1> DEFINE ids == {v.id : v \in {u \in convs : u.cust = c.id}}
           t == [op |-> mode, step |-> "loaded", cust |-> c.id, convs |-> ids, msgs |-> {}]
<1>2. /\ t.op = mode /\ mode \in Erasures /\ t.step = "loaded" /\ t.cust = c.id /\ t.convs = ids
      /\ c.id \in Nat /\ ids \subseteq Nat
  BY ModesAssumption DEF Erasures, ThreadsInv, ThreadsTyped
<1>3. t \in EraserTx
  BY <1>2 DEF EraserTx
<1>4. Eraser(t)
  BY <1>2 DEF Eraser, ThreadsInv, RowsInv, UniqueRows
<1>5. ASSUME NEW r \in Requests, tx[r].op = "inbound"
      PROVE  Guarded(tx[r], t)
  <2>1. Finder(tx[r])
    BY <1>5 DEF ThreadsInv, Alone
  <2> HIDE DEF t
  <2> QED
    BY <1>2, <2>1 DEF Guarded, Finder
<1> QED
  BY <1>1, <1>3, <1>4, <1>5, EraseOn DEF EraseLoad, Quiet

LEMMA EraseReadKeeps ==
    ASSUME ThreadsInv, NEW s \in Requests, EraseRead(s)
    PROVE  ThreadsInv'
<1> DEFINE a == tx[s]
           read == {<<e.msg, e.conv>> : e \in {d \in stored : d.conv \in a.convs}}
           t == [a EXCEPT !.step = "read", !.msgs = read]
<1>1. a \in EraserTx /\ Eraser(a) /\ To(s, t) /\ Quiet /\ a.op \in Erasures
  BY SessionShapes DEF EraseRead, Erasers, InFlight, ThreadsInv, Alone, Erasures, Quiet
<1>2. t \in EraserTx /\ t.op = a.op /\ t.step = "read" /\ t.cust = a.cust /\ t.convs = a.convs
  <2>1. read \subseteq Messages \X Nat
    BY DEF ThreadsInv, ThreadsTyped
  <2> HIDE DEF read
  <2> QED
    BY <1>1, <2>1 DEF EraserTx
<1> HIDE DEF t
<1>3. Eraser(t)
  BY <1>1, <1>2 DEF Eraser
<1>4. ASSUME NEW r \in Requests, r # s, tx[r].op = "inbound"
      PROVE  Guarded(tx[r], t)
  <2>1. Guarded(tx[r], a)
    BY <1>1, <1>4 DEF ThreadsInv, Beside
  <2> QED
    BY <1>2, <2>1 DEF Guarded
<1> QED
  BY <1>1, <1>2, <1>3, <1>4, EraseOn

LEMMA EraseFlushKeeps ==
    ASSUME ThreadsInv, NEW s \in Requests, EraseFlush(s)
    PROVE  ThreadsInv'
<1> DEFINE a == tx[s]
           t == [a EXCEPT !.step = "flushed"]
<1>1. a \in EraserTx /\ Eraser(a) /\ a.op \in Erasures
  BY SessionShapes DEF EraseFlush, Erasers, InFlight, ThreadsInv, Alone, Erasures
<1>2. CASE Fail(s)
  BY <1>2, FailKeeps
<1>3. CASE ~Fail(s)
  <2>1. To(s, t) /\ Quiet
    BY <1>3 DEF EraseFlush, Quiet
  <2>2. t \in EraserTx /\ t.op = a.op /\ t.step = "flushed" /\ t.cust = a.cust /\ t.convs = a.convs
    BY <1>1 DEF EraserTx
  <2>3. ASSUME NEW r \in Requests, tx[r].op = "inbound"
        PROVE  /\ tx[r].step = "stored" => tx[r].conv \notin Touched(a)
               /\ a.op = "hard" /\ tx[r].newConv => tx[r].cust # a.cust
    BY <2>3 DEF EraseFlush, InFlight
  <2> HIDE DEF t
  <2>4. Eraser(t)
    BY <1>1, <2>2 DEF Eraser
  <2>5. Touched(t) = Touched(a)
    BY <2>2 DEF Touched
  <2>6. ASSUME NEW r \in Requests, r # s, tx[r].op = "inbound"
        PROVE  Guarded(tx[r], t)
    <3>1. Guarded(tx[r], a)
      BY <1>1, <2>6 DEF ThreadsInv, Beside
    <3> QED
      BY <2>2, <2>3, <2>5, <2>6, <3>1 DEF Guarded
  <2> QED
    BY <2>1, <2>2, <2>4, <2>6, EraseOn
<1> QED
  BY <1>2, <1>3

\* A commit leaves the other sessions as they are.
LEMMA CommitStep ==
    ASSUME ThreadsInv, NEW s \in Requests, To(s, Free), RowsInv',
           customers' \subseteq [id : Nat, who : {Redacted} \cup People],
           convs' \subseteq [id : Nat, cust : Nat, thread : {Redacted} \cup Threads],
           stored' \subseteq [msg : Messages, conv : Nat, raw : BOOLEAN],
           ever' \in 0..MaxStamp,
           \A c \in customers' : c.who # Redacted => \E m \in Messages : c.who = Sender[m],
           \A r \in Requests : r # s => Alone(tx[r])',
           \A r, q \in Requests : r # s /\ q # s /\ r # q => Beside(tx[r], tx[q])'
    PROVE  ThreadsInv'
<1>1. ThreadsTyped'
  BY DEF ThreadsInv, ThreadsTyped, To
<1>2. tx'[s] = Free
  BY DEF ThreadsInv, ThreadsTyped, To
<1>3. Alone(tx[s])'
  BY <1>2 DEF Alone, Free, Erasures
<1>4. ASSUME NEW r \in Requests
      PROVE  Beside(tx[r], tx[s])' /\ Beside(tx[s], tx[r])'
  BY <1>2 DEF Beside, Free, Erasures
<1> QED
  BY <1>1, <1>3, <1>4 DEF ThreadsInv

\* Anonymizing replaces names and keys, and no id: a customer and its threads together.
LEMMA AnonymizeKeeps ==
    ASSUME ThreadsInv, NEW s \in Requests, CommitAnonymized(s)
    PROVE  ThreadsInv'
<1> DEFINE a == tx[s]
           AC(c) == IF c.id = a.cust THEN [c EXCEPT !.who = Redacted] ELSE c
           AV(v) == IF v.id \in a.convs THEN [v EXCEPT !.thread = Redacted] ELSE v
           AE(e) == IF <<e.msg, e.conv>> \in a.msgs THEN [e EXCEPT !.raw = FALSE] ELSE e
<1>1. /\ a.op = "anonymize" /\ a \in EraserTx /\ Eraser(a) /\ To(s, Free)
      /\ ThreadsTyped /\ RowsInv /\ ever' = ever
      /\ customers' = {AC(c) : c \in customers}
      /\ convs' = {AV(v) : v \in convs}
      /\ stored' = {AE(e) : e \in stored}
  BY SessionShapes DEF CommitAnonymized, Flushed, ThreadsInv, Alone, Erasures
<1>2. ASSUME NEW c \in customers
      PROVE  /\ AC(c) \in [id : Nat, who : {Redacted} \cup People] /\ AC(c).id = c.id
             /\ AC(c).who = IF c.id = a.cust THEN Redacted ELSE c.who
  BY <1>1 DEF ThreadsTyped
<1>3. ASSUME NEW v \in convs
      PROVE  /\ AV(v) \in [id : Nat, cust : Nat, thread : {Redacted} \cup Threads]
             /\ AV(v).id = v.id /\ AV(v).cust = v.cust
             /\ AV(v).thread = IF v.id \in a.convs THEN Redacted ELSE v.thread
  BY <1>1 DEF ThreadsTyped
<1>4. ASSUME NEW e \in stored
      PROVE  /\ AE(e) \in [msg : Messages, conv : Nat, raw : BOOLEAN]
             /\ AE(e).msg = e.msg /\ AE(e).conv = e.conv
  BY <1>1 DEF ThreadsTyped
<1> HIDE DEF AC, AV, AE
<1>5. RowsInv'
  <2>1. UniqueRows'
    BY <1>1, <1>2, <1>3 DEF RowsInv, UniqueRows
  <2>2. OneHolder'
    BY <1>1, <1>3 DEF RowsInv, OneHolder
  <2>3. Owned'
    BY <1>1, <1>2, <1>3 DEF RowsInv, Owned, Owns
  <2>4. WrittenByItsOwner'
    BY <1>1, <1>2, <1>3 DEF RowsInv, WrittenByItsOwner, Owns
  <2>5. Holding'
    <3> SUFFICES ASSUME NEW c \in customers, NEW m \in Messages,
                        AC(c).who = Sender[m], Private(Sender[m])
                 PROVE  \E v \in convs : AV(v).cust = AC(c).id /\ AV(v).thread = Thread[m]
      BY <1>1 DEF Holding, Owns, Private
    <3>1. c.id # a.cust /\ c.who = Sender[m]
      BY <1>2, InputAssumption, RedactedAssumption
    <3>2. PICK v \in convs : v.cust = c.id /\ v.thread = Thread[m]
      BY <1>1, <3>1 DEF RowsInv, Holding, Owns
    <3>3. v.id \notin a.convs
      BY <1>1, <3>1, <3>2 DEF Eraser
    <3> QED
      BY <1>2, <1>3, <3>1, <3>2, <3>3
  <2>6. NoCrossTalk'
    <3> SUFFICES ASSUME NEW e \in stored
                 PROVE  \E v \in convs, c \in customers :
                           /\ AV(v).id = AE(e).conv /\ AV(v).cust = AC(c).id
                           /\ AC(c).who \in {Sender[AE(e).msg], Redacted}
      BY <1>1 DEF NoCrossTalk, Owns
    <3>1. PICK v \in convs, c \in customers :
              v.id = e.conv /\ v.cust = c.id /\ c.who \in {Sender[e.msg], Redacted}
      BY <1>1 DEF RowsInv, NoCrossTalk, Owns
    <3> QED
      BY <1>2, <1>3, <1>4, <3>1
  <2> QED
    BY <2>1, <2>2, <2>3, <2>4, <2>5, <2>6 DEF RowsInv
<1>6. ASSUME NEW r \in Requests, r # s
      PROVE  Alone(tx[r])'
  <2>1. tx'[r] = tx[r] /\ Alone(tx[r])
    BY <1>1, <1>6 DEF ThreadsInv, ThreadsTyped, To
  <2>2. CASE tx[r].op = "inbound"
    <3>1. PICK b : b = tx[r]
      OBVIOUS
    <3>2. Finder(b) /\ b \in InboundTx /\ Thread[b.msg] \in Threads
      BY <2>1, <2>2, <3>1, <1>1, SessionShapes, InputAssumption DEF Alone, InboundTx
    <3>3. Finder(b)'
      BY <1>1, <1>2, <1>3, <3>2, RedactedAssumption DEF Finder
    <3>4. Finder(tx[r])'
      BY <2>1, <3>1, <3>3 DEF Finder
    <3> QED
      BY <2>1, <2>2, <3>4 DEF Alone, Erasures
  <2>3. CASE tx[r].op \in Erasures
    <3>1. Eraser(tx[r])'
      BY <1>1, <1>3, <2>1, <2>3 DEF Alone, Eraser
    <3> QED
      BY <2>1, <2>3, <3>1 DEF Alone, Erasures
  <2> QED
    BY <2>1, <2>2, <2>3 DEF Alone
<1>7. ASSUME NEW r \in Requests, NEW q \in Requests, r # s, q # s, r # q
      PROVE  Beside(tx[r], tx[q])'
  <2>1. tx'[r] = tx[r] /\ tx'[q] = tx[q] /\ Beside(tx[r], tx[q])
    BY <1>1, <1>7 DEF ThreadsInv, ThreadsTyped, To
  <2>2. {v.id : v \in {u \in convs' : u.cust = tx[q].cust}} = {v.id : v \in {u \in convs : u.cust = tx[q].cust}}
    BY <1>1, <1>3
  <2>3. Touched(tx[q])' = Touched(tx[q])
    BY <2>1, <2>2 DEF Touched
  <2> QED
    BY <2>1, <2>3 DEF Beside, Apart, Guarded
<1>8. \A c \in customers' : c.who # Redacted => \E m \in Messages : c.who = Sender[m]
  BY <1>1, <1>2 DEF ThreadsTyped
<1> QED
  BY <1>1, <1>2, <1>3, <1>4, <1>5, <1>6, <1>7, <1>8, CommitStep DEF ThreadsTyped

\* The locks held since the flush keep rows in flight off what the cascade takes.
LEMMA HardDeleteKeeps ==
    ASSUME ThreadsInv, NEW s \in Requests, CommitHardDelete(s)
    PROVE  ThreadsInv'
<1>0. PICK a : a = tx[s]
  OBVIOUS
<1> DEFINE lost == {v.id : v \in {u \in convs : u.cust = a.cust}}
<1>1. /\ a.op = "hard" /\ a.step = "flushed" /\ a.op \in Erasures /\ a \in EraserTx
      /\ Eraser(a) /\ To(s, Free)
      /\ ThreadsTyped /\ RowsInv /\ ever' = ever
      /\ customers' = {c \in customers : c.id # a.cust}
      /\ convs' = {v \in convs : v.id \notin lost}
      /\ stored' = {e \in stored : e.conv \notin lost}
  BY <1>0, SessionShapes DEF CommitHardDelete, Flushed, ThreadsInv, Alone, Erasures
<1>2. ASSUME NEW v \in convs
      PROVE  v \in convs' <=> v.cust # a.cust
  BY <1>1 DEF RowsInv, UniqueRows
<1>3. convs' \subseteq convs /\ customers' \subseteq customers /\ stored' \subseteq stored
  BY <1>1
<1>4. Touched(a) = a.convs \cup lost
  BY <1>1 DEF Touched
<1> HIDE DEF lost
<1>5. RowsInv'
  <2>1. UniqueRows'
    BY <1>1, <1>3 DEF RowsInv, UniqueRows
  <2>2. OneHolder'
    BY <1>1, <1>3 DEF RowsInv, OneHolder
  <2>3. Owned'
    BY <1>1, <1>2, <1>3 DEF RowsInv, Owned, Owns
  <2>4. WrittenByItsOwner'
    BY <1>1, <1>3 DEF RowsInv, WrittenByItsOwner, Owns
  <2>5. Holding'
    BY <1>1, <1>2, <1>3 DEF RowsInv, Holding, Owns, Private
  <2>6. NoCrossTalk'
    <3> SUFFICES ASSUME NEW e \in stored'
                 PROVE  \E v \in convs', c \in customers' :
                           v.id = e.conv /\ v.cust = c.id /\ c.who \in {Sender[e.msg], Redacted}
      BY DEF NoCrossTalk, Owns
    <3>1. PICK v \in convs, c \in customers :
              v.id = e.conv /\ v.cust = c.id /\ c.who \in {Sender[e.msg], Redacted}
      BY <1>1, <1>3 DEF RowsInv, NoCrossTalk, Owns
    <3> QED
      BY <1>1, <1>2, <3>1
  <2> QED
    BY <2>1, <2>2, <2>3, <2>4, <2>5, <2>6 DEF RowsInv
<1>6. ASSUME NEW r \in Requests, r # s
      PROVE  Alone(tx[r])'
  <2>1. PICK b : b = tx[r]
    OBVIOUS
  <2>2. tx'[r] = b /\ Alone(b) /\ Beside(b, a)
    BY <1>0, <1>1, <1>6, <2>1 DEF ThreadsInv, ThreadsTyped, To
  <2>3. CASE b.op = "inbound"
    <3>1. Finder(b) /\ Guarded(b, a)
      BY <1>1, <2>2, <2>3 DEF Alone, Beside
    <3>2. Finder(b)'
      <4>1. /\ \A c \in customers' : c.id # b.at
            /\ \A v \in convs' : v.id # b.at
        BY <1>3, <3>1 DEF Finder
      <4>2. IF b.newCust THEN b.cust = b.at
            ELSE /\ b.cust <= ever'
                 /\ \A c \in customers' : c.id = b.cust => c.who \in {Sender[b.msg], Redacted}
        BY <1>1, <1>3, <3>1 DEF Finder
      <4>3. ASSUME b.newConv
            PROVE  /\ b.conv = b.at /\ b.step # "resolved"
                   /\ b.newCust \/ \E c \in customers' : c.id = b.cust
                   /\ \A v \in convs' : v.thread # Thread[b.msg]
        BY <1>1, <1>3, <3>1, <4>3 DEF Finder, Guarded
      <4>4. ASSUME b.step # "resolved", ~b.newConv
            PROVE  /\ ~b.newCust /\ b.conv <= ever'
                   /\ \A v \in convs' : v.id = b.conv => v.cust = b.cust
                   /\ b.step = "stored" => \E v \in convs' : v.id = b.conv
        BY <1>1, <1>3, <1>4, <3>1, <4>4 DEF Finder, Guarded
      <4> QED
        BY <4>1, <4>2, <4>3, <4>4 DEF Finder
    <3> QED
      BY <2>2, <2>3, <3>2 DEF Alone, Finder, Erasures
  <2>4. CASE b.op \in Erasures
    BY <1>1, <1>3, <2>2, <2>4 DEF Alone, Eraser, Erasures
  <2> QED
    BY <2>2, <2>3, <2>4 DEF Alone
<1>7. ASSUME NEW r \in Requests, NEW q \in Requests, r # s, q # s, r # q
      PROVE  Beside(tx[r], tx[q])'
  <2>1. tx'[r] = tx[r] /\ tx'[q] = tx[q] /\ Beside(tx[r], tx[q])
    BY <1>1, <1>7 DEF ThreadsInv, ThreadsTyped, To
  <2>2. Touched(tx[q])' \subseteq Touched(tx[q])
    BY <1>3, <2>1 DEF Touched
  <2> QED
    BY <2>1, <2>2 DEF Beside, Apart, Guarded
<1> QED
  BY <1>1, <1>3, <1>5, <1>6, <1>7, CommitStep DEF ThreadsTyped

\* The commit of a message adds what it made, under a stamp nobody else has.
LEMMA CommitMessageKeeps ==
    ASSUME ThreadsInv, NEW s \in Requests, CommitMessage(s)
    PROVE  ThreadsInv'
<1>0. PICK a : a = tx[s]
  OBVIOUS
<1> DEFINE who == Sender[a.msg]
           th == Thread[a.msg]
           c0 == [id |-> a.cust, who |-> who]
           v0 == [id |-> a.conv, cust |-> a.cust, thread |-> th]
           e0 == [msg |-> a.msg, conv |-> a.conv, raw |-> TRUE]
<1>1. /\ a.op = "inbound" /\ a.step \in {"stored", "duplicate"} /\ a \in InboundTx
      /\ Finder(a) /\ To(s, Free) /\ ThreadsTyped /\ RowsInv
      /\ customers' = customers \cup (IF a.newCust THEN {c0} ELSE {})
      /\ convs' = convs \cup (IF a.newConv THEN {v0} ELSE {})
      /\ stored' = stored \cup (IF a.step = "stored" THEN {e0} ELSE {})
      /\ ever' = IF (a.newCust \/ a.newConv) /\ a.at > ever THEN a.at ELSE ever
  BY <1>0, SessionShapes DEF CommitMessage, InFlight, ThreadsInv, Alone
<1>2. /\ a.msg \in Messages /\ a.cust \in Nat /\ a.conv \in Nat /\ a.at \in 1..MaxStamp
      /\ who \in People /\ who # Redacted /\ th \in Threads /\ th # Redacted /\ TRUE \in BOOLEAN
  BY <1>1, InputAssumption, RedactedAssumption DEF InboundTx
<1>3. /\ c0 \in [id : Nat, who : {Redacted} \cup People] /\ c0.id = a.cust /\ c0.who = who
      /\ v0 \in [id : Nat, cust : Nat, thread : {Redacted} \cup Threads]
      /\ v0.id = a.conv /\ v0.cust = a.cust /\ v0.thread = th
      /\ e0 \in [msg : Messages, conv : Nat, raw : BOOLEAN] /\ e0.msg = a.msg /\ e0.conv = a.conv
  BY <1>2
<1>4. /\ ever' \in 0..MaxStamp /\ ever <= ever' /\ ever \in Nat /\ ever' \in Nat /\ a.at \in Nat
      /\ a.newCust \/ a.newConv => a.at <= ever'
  BY <1>1, <1>2, ModesAssumption DEF ThreadsTyped
<1> HIDE DEF c0, v0, e0, who, th
<1>5. /\ a.newCust => a.newConv /\ c0.id = a.at
      /\ a.newConv => v0.id = a.at
      /\ \A c \in customers : c.id # a.at
      /\ \A v \in convs : v.id # a.at /\ v.cust # a.at
  <2>1. \A v \in convs : \E c \in customers : c.id = v.cust
    BY <1>1 DEF RowsInv, Owned, Owns
  <2> QED
    BY <1>1, <1>3, <2>1 DEF Finder
<1>6. /\ \A c \in customers' : c \in customers \/ (a.newCust /\ c = c0)
      /\ \A v \in convs' : v \in convs \/ (a.newConv /\ v = v0)
      /\ \A e \in stored' : e \in stored \/ (a.step = "stored" /\ e = e0)
      /\ customers \subseteq customers' /\ convs \subseteq convs'
      /\ a.newCust => c0 \in customers'
      /\ a.newConv => v0 \in convs'
  BY <1>1
\* The owner of the conversation that the message goes to.
<1>7. a.newConv => \E c \in customers' : c.id = a.cust
  BY <1>1, <1>3, <1>6 DEF Finder
<1>8. ASSUME NEW c \in customers', c.id = a.cust
      PROVE  c.who \in {who, Redacted}
  BY <1>1, <1>3, <1>5, <1>6, <1>8 DEF Finder, who
<1>9. RowsInv'
  <2>1. UniqueRows'
    <3>1. ASSUME NEW c \in customers', NEW d \in customers', c.id = d.id
          PROVE  c = d
      BY <1>1, <1>5, <1>6, <3>1 DEF RowsInv, UniqueRows
    <3>2. ASSUME NEW v \in convs', NEW w \in convs', v.id = w.id
          PROVE  v = w
      BY <1>1, <1>5, <1>6, <3>2 DEF RowsInv, UniqueRows
    <3>3. ASSUME NEW c \in customers'
          PROVE  c.id <= ever'
      BY <1>1, <1>4, <1>5, <1>6 DEF RowsInv, UniqueRows, ThreadsTyped
    <3>4. ASSUME NEW v \in convs'
          PROVE  v.id <= ever'
      BY <1>1, <1>4, <1>5, <1>6 DEF RowsInv, UniqueRows, ThreadsTyped
    <3> QED
      BY <3>1, <3>2, <3>3, <3>4 DEF UniqueRows
  <2>2. OneHolder'
    <3>1. a.newConv => \A v \in convs : v.thread # th
      BY <1>1 DEF Finder, th
    <3> QED
      BY <1>1, <1>3, <1>6, <3>1 DEF RowsInv, OneHolder
  <2>3. Owned'
    BY <1>1, <1>3, <1>6, <1>7 DEF RowsInv, Owned, Owns
  <2>4. WrittenByItsOwner'
    <3> SUFFICES ASSUME NEW v \in convs', NEW c \in customers', v.cust = c.id, v.thread # Redacted
                 PROVE  \E m \in Messages : Thread[m] = v.thread /\ c.who \in {Sender[m], Redacted}
      BY DEF WrittenByItsOwner, Owns
    <3>1. CASE v \in convs
      <4>1. c \in customers
        BY <1>5, <1>6, <3>1
      <4> QED
        BY <1>1, <3>1, <4>1 DEF RowsInv, WrittenByItsOwner, Owns
    <3>2. CASE v \notin convs
      <4>1. v = v0 /\ c.id = a.cust
        BY <1>3, <1>6, <3>2
      <4> QED
        BY <1>2, <1>3, <1>8, <4>1 DEF who, th
    <3> QED
      BY <3>1, <3>2
  <2>5. Holding'
    <3> SUFFICES ASSUME NEW c \in customers', NEW m \in Messages,
                        c.who = Sender[m], Private(Sender[m])
                 PROVE  \E v \in convs' : v.cust = c.id /\ v.thread = Thread[m]
      BY DEF Holding, Owns, Private
    <3>1. CASE c \in customers
      BY <1>1, <1>6, <3>1 DEF RowsInv, Holding, Owns
    <3>2. CASE c \notin customers
      <4>1. c = c0 /\ a.newConv /\ who = Sender[m]
        BY <1>3, <1>5, <1>6, <3>2
      <4>2. Thread[m] = th
        BY <1>2, <4>1 DEF Private, who, th
      <4> QED
        BY <1>3, <1>6, <4>1, <4>2
    <3> QED
      BY <3>1, <3>2
  <2>6. NoCrossTalk'
    <3> SUFFICES ASSUME NEW e \in stored'
                 PROVE  \E v \in convs', c \in customers' :
                           v.id = e.conv /\ v.cust = c.id /\ c.who \in {Sender[e.msg], Redacted}
      BY DEF NoCrossTalk, Owns
    <3>1. CASE e \in stored
      BY <1>1, <1>6, <3>1 DEF RowsInv, NoCrossTalk, Owns
    <3>2. CASE e \notin stored
      <4>1. e.conv = a.conv /\ Sender[e.msg] = who /\ a.step = "stored"
        BY <1>3, <1>6, <3>2 DEF who
      <4>2. PICK v \in convs' : v.id = a.conv /\ v.cust = a.cust
        <5>1. CASE a.newConv
          BY <1>3, <1>6, <5>1
        <5>2. CASE ~a.newConv
          BY <1>1, <1>6, <4>1, <5>2 DEF Finder
        <5> QED
          BY <5>1, <5>2
      <4>3. PICK c \in customers' : c.id = a.cust
        BY <2>3, <4>2 DEF Owned, Owns
      <4> QED
        BY <1>8, <4>1, <4>2, <4>3
    <3> QED
      BY <3>1, <3>2
  <2> QED
    BY <2>1, <2>2, <2>3, <2>4, <2>5, <2>6 DEF RowsInv
<1>10. ASSUME NEW r \in Requests, r # s
       PROVE  Alone(tx[r])'
  <2>1. PICK b : b = tx[r]
    OBVIOUS
  <2>2. tx'[r] = b /\ Alone(b) /\ Beside(b, a) /\ Beside(a, b)
    BY <1>0, <1>1, <1>10, <2>1 DEF ThreadsInv, ThreadsTyped, To
  <2>3. CASE b.op = "inbound"
    <3>1. Finder(b) /\ Apart(a, b) /\ b \in InboundTx /\ b.cust \in Nat /\ b.conv \in Nat
      BY <1>1, <2>1, <2>2, <2>3, SessionShapes DEF Alone, Beside, InboundTx
    <3>2. Finder(b)'
      <4>1. /\ \A c \in customers' : c.id # b.at
            /\ \A v \in convs' : v.id # b.at
        BY <1>5, <1>6, <3>1 DEF Finder, Apart
      <4>2. IF b.newCust THEN b.cust = b.at
            ELSE /\ b.cust <= ever'
                 /\ \A c \in customers' : c.id = b.cust => c.who \in {Sender[b.msg], Redacted}
        BY <1>4, <1>5, <1>6, <3>1 DEF Finder, Apart
      <4>3. ASSUME b.newConv
            PROVE  /\ b.conv = b.at /\ b.step # "resolved"
                   /\ b.newCust \/ \E c \in customers' : c.id = b.cust
                   /\ \A v \in convs' : v.thread # Thread[b.msg]
        BY <1>3, <1>6, <3>1, <4>3 DEF Finder, Apart, th
      <4>4. ASSUME b.step # "resolved", ~b.newConv
            PROVE  /\ ~b.newCust /\ b.conv <= ever'
                   /\ \A v \in convs' : v.id = b.conv => v.cust = b.cust
                   /\ b.step = "stored" => \E v \in convs' : v.id = b.conv
        BY <1>4, <1>5, <1>6, <3>1, <4>4 DEF Finder, Apart
      <4> QED
        BY <4>1, <4>2, <4>3, <4>4 DEF Finder
    <3> QED
      BY <2>2, <2>3, <3>2 DEF Alone, Finder, Erasures
  <2>4. CASE b.op \in Erasures
    <3>1. Eraser(b) /\ Guarded(a, b) /\ b \in EraserTx
      BY <1>1, <2>1, <2>2, <2>4, SessionShapes DEF Alone, Beside
    <3>2. \A n \in b.convs : n \in Nat /\ n <= ever'
      BY <1>4, <3>1 DEF Eraser, EraserTx
    <3>3. Eraser(b)'
      BY <1>5, <1>6, <3>1, <3>2 DEF Eraser, Guarded
    <3> QED
      BY <2>2, <2>4, <3>3 DEF Alone, Eraser, Erasures
  <2> QED
    BY <2>2, <2>3, <2>4 DEF Alone
<1>11. ASSUME NEW r \in Requests, NEW q \in Requests, r # s, q # s, r # q
       PROVE  Beside(tx[r], tx[q])'
  <2>1. tx'[r] = tx[r] /\ tx'[q] = tx[q] /\ Beside(tx[r], tx[q]) /\ Beside(a, tx[q])
    BY <1>0, <1>1, <1>11 DEF ThreadsInv, ThreadsTyped, To
  <2>2. tx[q].op \in Erasures /\ tx[q].step = "flushed" => Touched(tx[q])' \subseteq Touched(tx[q])
    BY <1>1, <1>3, <1>6, <2>1 DEF Touched, Beside, Guarded
  <2> QED
    BY <2>1, <2>2 DEF Beside, Apart, Guarded
<1>12. \A c \in customers' : c.who # Redacted => \E m \in Messages : c.who = Sender[m]
  BY <1>1, <1>2, <1>3, <1>6 DEF ThreadsTyped, who
<1>13. /\ customers' \subseteq [id : Nat, who : {Redacted} \cup People]
       /\ convs' \subseteq [id : Nat, cust : Nat, thread : {Redacted} \cup Threads]
       /\ stored' \subseteq [msg : Messages, conv : Nat, raw : BOOLEAN]
  BY <1>1, <1>3 DEF ThreadsTyped
<1> QED
  BY <1>1, <1>4, <1>9, <1>10, <1>11, <1>12, <1>13, CommitStep

LEMMA InitHasInv ==
    ASSUME ThreadsInit
    PROVE  ThreadsInv
<1> USE DEF ThreadsInit
<1>1. ThreadsTyped
  BY ModesAssumption DEF ThreadsTyped
<1>2. RowsInv
  BY DEF RowsInv, UniqueRows, OneHolder, Owned, WrittenByItsOwner, Holding, NoCrossTalk
<1> QED
  BY <1>1, <1>2, FreeIsAlone DEF ThreadsInv

LEMMA StepKeeps ==
    ASSUME ThreadsInv, [ThreadsNext]_threads
    PROVE  ThreadsInv'
<1>1. CASE ThreadsNext
  <2>1. PICK s \in Requests :
           \/ \E m \in Messages : Resolve(s, m)
           \/ OpenExisting(s) \/ CreateThread(s) \/ StoreMessage(s) \/ CommitMessage(s)
           \/ \E mode \in Modes : EraseLoad(s, mode)
           \/ EraseRead(s) \/ EraseFlush(s) \/ CommitAnonymized(s) \/ CommitHardDelete(s)
           \/ Abort(s)
    BY <1>1 DEF ThreadsNext
  <2>2. CASE \E m \in Messages : Resolve(s, m)
    BY <2>2, ResolveKeeps
  <2>3. CASE OpenExisting(s) \/ CreateThread(s) \/ StoreMessage(s) \/ CommitMessage(s)
    BY <2>3, OpenExistingKeeps, CreateThreadKeeps, StoreMessageKeeps, CommitMessageKeeps
  <2>4. CASE \E mode \in Modes : EraseLoad(s, mode)
    BY <2>4, EraseLoadKeeps
  <2>5. CASE EraseRead(s) \/ EraseFlush(s) \/ CommitAnonymized(s) \/ CommitHardDelete(s)
    BY <2>5, EraseReadKeeps, EraseFlushKeeps, AnonymizeKeeps, HardDeleteKeeps
  <2>6. CASE Abort(s)
    BY <2>6, FailKeeps DEF Abort
  <2> QED
    BY <2>1, <2>2, <2>3, <2>4, <2>5, <2>6
<1>2. CASE UNCHANGED threads
  BY <1>2 DEF threads, ThreadsInv, ThreadsTyped, RowsInv, UniqueRows, OneHolder, Owned, Owns,
       WrittenByItsOwner, Holding, Private, NoCrossTalk, Alone, Finder, Eraser, Beside, Apart,
       Guarded, Touched
<1> QED
  BY <1>1, <1>2

\* Rows and sessions fit together for any sessions, people, messages and threads.
THEOREM ThreadsInvariant == ThreadsSpec => []ThreadsInv
<1>1. ThreadsInit => ThreadsInv
  BY InitHasInv
<1>2. ThreadsInv /\ [ThreadsNext]_threads => ThreadsInv'
  BY StepKeeps
<1> QED
  BY <1>1, <1>2, PTL DEF ThreadsSpec

\* For any people and threads, a stored message lies in a conversation of the customer who
\* wrote it, or of one anonymized since, whatever is erased meanwhile.
THEOREM NobodyElsesMail == ThreadsSpec => []NoCrossTalk
<1>1. ThreadsInv => NoCrossTalk
  BY DEF ThreadsInv, RowsInv
<1> QED
  BY <1>1, ThreadsInvariant, PTL

\* A private sender's customers hold one thread, and a thread has one holder.
LEMMA OneKnown ==
    ASSUME ThreadsInv, NEW p \in People, Private(p), NEW c \in Known(p), NEW d \in Known(p)
    PROVE  c = d
<1>1. c.who = p /\ d.who = p /\ p # Redacted /\ c \in customers /\ d \in customers
  BY RedactedAssumption DEF Known
<1>2. PICK m \in Messages : p = Sender[m]
  BY <1>1 DEF ThreadsInv, ThreadsTyped
<1>3. PICK v \in convs : v.cust = c.id /\ v.thread = Thread[m]
  BY <1>1, <1>2 DEF ThreadsInv, RowsInv, Holding, Owns
<1>4. PICK w \in convs : w.cust = d.id /\ w.thread = Thread[m]
  BY <1>1, <1>2 DEF ThreadsInv, RowsInv, Holding, Owns
<1>5. Thread[m] # Redacted
  BY InputAssumption, RedactedAssumption
<1>6. v = w
  BY <1>3, <1>4, <1>5 DEF ThreadsInv, RowsInv, OneHolder
<1> QED
  BY <1>1, <1>3, <1>4, <1>6 DEF ThreadsInv, RowsInv, UniqueRows

\* For any number of requests, a sender with a thread of its own has one customer, though
\* no index says so.
THEOREM NeverTwice == ThreadsSpec => []OneCustomerPerPerson
<1>1. ASSUME ThreadsInv
      PROVE  OneCustomerPerPerson
  <2> SUFFICES ASSUME NEW p \in People, Private(p)
               PROVE  Cardinality(Known(p)) <= 1
    BY DEF OneCustomerPerPerson
  <2>1. \A c, d \in Known(p) : c = d
    BY <1>1, OneKnown
  <2>2. CASE Known(p) = {}
    BY <2>2, FS_EmptySet
  <2>3. CASE Known(p) # {}
    <3>1. PICK c : Known(p) = {c}
      BY <2>1, <2>3
    <3> QED
      BY <3>1, FS_Singleton
  <2> QED
    BY <2>2, <2>3
<1> QED
  BY <1>1, ThreadsInvariant, PTL

\* A private sender's next message finds the customer that holds its thread, for any
\* sessions and erasures.
THEOREM TheHolderIsFound == ThreadsSpec => []HolderIsResolved
<1>1. ASSUME ThreadsInv
      PROVE  HolderIsResolved
  <2> SUFFICES ASSUME NEW m \in Messages, Private(Sender[m]), NEW v \in Holders(Thread[m])
               PROVE  \E c \in customers :
                         Owns(c, v) /\ (c.who = Redacted \/ c = Resolved(Sender[m]))
    BY DEF HolderIsResolved
  <2> DEFINE p == Sender[m]
  <2>1. p \in People /\ Thread[m] # Redacted /\ v \in convs /\ v.thread = Thread[m]
    BY InputAssumption, RedactedAssumption DEF Holders
  <2>2. PICK c \in customers : Owns(c, v)
    BY <1>1, <2>1 DEF ThreadsInv, RowsInv, Owned
  <2>3. PICK k \in Messages : Thread[k] = Thread[m] /\ c.who \in {Sender[k], Redacted}
    BY <1>1, <2>1, <2>2 DEF ThreadsInv, RowsInv, WrittenByItsOwner
  <2>4. CASE c.who = Redacted
    BY <2>2, <2>4
  <2>5. CASE c.who # Redacted
    <3>1. c.who = p
      BY <2>3, <2>5 DEF Private
    <3>2. c \in Known(p) /\ c.id \in Nat
      BY <1>1, <3>1 DEF Known, ThreadsInv, ThreadsTyped
    <3>3. \A d \in Known(p) : d = c
      BY <1>1, <2>1, <3>2, OneKnown
    <3>4. Resolved(p) = c
      BY <3>2, <3>3 DEF Resolved
    <3> QED
      BY <2>2, <3>4
  <2> QED
    BY <2>4, <2>5
<1> QED
  BY <1>1, ThreadsInvariant, PTL

(***************************************************************************)
(* Threads are discussions for any number of mails: the first element of a *)
(* chain of references is handed down from answer to answer.               *)
(***************************************************************************)

AnyMail == [by : {"customer", "desk"}, message_id : Nat, in_reply_to : Nat, references : Seq(Nat),
            topic : Nat, linked : BOOLEAN]

RootKept(m) == m.linked => compute_thread_id(m) = m.topic

MailInv == mails \in Seq(AnyMail) /\ \A i \in DOMAIN mails : RootKept(mails[i])

-----------------------------------------------------------------------------
\* The chain of a mail begins where its thread does.
LEMMA ChainBegins ==
    ASSUME NEW p \in AnyMail
    PROVE  /\ Append(Chain(p), p.message_id) \in Seq(Nat) \ {<<>>}
           /\ Head(Append(Chain(p), p.message_id)) = compute_thread_id(p)
           /\ Chain(p) = <<>> => compute_thread_id(p) = p.message_id
<1>1. Chain(p) \in Seq(Nat) /\ p.message_id \in Nat /\ p.in_reply_to \in Nat /\ p.references \in Seq(Nat)
  BY DEF AnyMail, Chain
<1>2. CASE p.references # <<>>
  <2>1. Chain(p) = p.references /\ compute_thread_id(p) = Head(p.references)
    BY <1>2 DEF Chain, compute_thread_id
  <2>2. Head(Append(p.references, p.message_id)) = Head(p.references)
    BY <1>1, <1>2
  <2> QED
    BY <1>1, <1>2, <2>1, <2>2
<1>3. CASE p.references = <<>> /\ p.in_reply_to # NoId
  <2>1. Chain(p) = <<p.in_reply_to>> /\ compute_thread_id(p) = p.in_reply_to
    BY <1>3 DEF Chain, compute_thread_id
  <2> QED
    BY <1>1, <2>1
<1>4. CASE p.references = <<>> /\ p.in_reply_to = NoId
  <2>1. Chain(p) = <<>> /\ compute_thread_id(p) = p.message_id
    BY <1>4 DEF Chain, compute_thread_id
  <2> QED
    BY <1>1, <2>1
<1> QED
  BY <1>2, <1>3, <1>4

\* A mail that keeps the root keeps the invariant.
LEMMA WriteKeeps ==
    ASSUME MailInv, NEW m \in AnyMail, RootKept(m), Write(m)
    PROVE  MailInv'
<1>1. mails \in Seq(AnyMail) /\ mails' = Append(mails, m)
  BY DEF MailInv, Write
<1>2. mails' \in Seq(AnyMail) /\ DOMAIN mails' = 1..(Len(mails) + 1)
  BY <1>1
<1>3. ASSUME NEW i \in DOMAIN mails' PROVE RootKept(mails'[i])
  <2>1. CASE i \in 1..Len(mails)
    BY <1>1, <2>1 DEF MailInv
  <2>2. CASE i = Len(mails) + 1
    BY <1>1, <2>2
  <2> QED
    BY <1>1, <1>2, <2>1, <2>2
<1> QED
  BY <1>2, <1>3 DEF MailInv, RootKept, compute_thread_id

LEMMA IdsAreNumbers == MailInv => Next_Id \in Nat \ {NoId} /\ \A i \in DOMAIN mails : mails[i] \in AnyMail
BY DEF MailInv, Next_Id, NoId

\* The first mail of a discussion is its root.
LEMMA OpeningKeeps == MailInv /\ (CustomerMails \/ DeskReplies) => MailInv'
<1> SUFFICES ASSUME MailInv, CustomerMails \/ DeskReplies PROVE MailInv'
  OBVIOUS
<1>1. PICK who \in {"customer", "desk"}, id \in {Next_Id, NoId} :
          Write([by |-> who, message_id |-> id, in_reply_to |-> NoId, references |-> <<>>,
                 topic |-> id, linked |-> TRUE])
  BY DEF CustomerMails, DeskReplies
<1> DEFINE m == [by |-> who, message_id |-> id, in_reply_to |-> NoId, references |-> <<>>,
                 topic |-> id, linked |-> TRUE]
<1>2. m \in AnyMail
  BY IdsAreNumbers DEF AnyMail, NoId
<1>3. RootKept(m)
  BY DEF RootKept, compute_thread_id
<1> QED
  BY <1>1, <1>2, <1>3, WriteKeeps

LEMMA ReplyKeeps == MailInv /\ CustomerReplies => MailInv'
<1> SUFFICES ASSUME MailInv, CustomerReplies PROVE MailInv'
  OBVIOUS
<1>1. PICK i \in DOMAIN mails :
          /\ mails[i].message_id # NoId
          /\ Write([by |-> "customer", message_id |-> Next_Id, in_reply_to |-> mails[i].message_id,
                    references |-> Append(Chain(mails[i]), mails[i].message_id),
                    topic |-> mails[i].topic, linked |-> mails[i].linked])
  BY DEF CustomerReplies
<1> DEFINE p == mails[i]
           m == [by |-> "customer", message_id |-> Next_Id, in_reply_to |-> p.message_id,
                 references |-> Append(Chain(p), p.message_id), topic |-> p.topic, linked |-> p.linked]
<1>2. p \in AnyMail /\ RootKept(p)
  BY IdsAreNumbers DEF MailInv
<1>3. m.references # <<>> /\ Head(m.references) = compute_thread_id(p) /\ m.references \in Seq(Nat)
  BY <1>2, ChainBegins
<1>4. m \in AnyMail
  BY <1>2, <1>3, IdsAreNumbers DEF AnyMail
<1>5. RootKept(m)
  BY <1>2, <1>3 DEF RootKept, compute_thread_id
<1> QED
  BY <1>1, <1>4, <1>5, WriteKeeps

LEMMA BareReplyKeeps == MailInv /\ CustomerRepliesBarely => MailInv'
<1> SUFFICES ASSUME MailInv, CustomerRepliesBarely PROVE MailInv'
  OBVIOUS
<1>1. PICK i \in DOMAIN mails :
          /\ mails[i].message_id # NoId
          /\ Write([by |-> "customer", message_id |-> Next_Id, in_reply_to |-> mails[i].message_id,
                    references |-> <<>>, topic |-> mails[i].topic,
                    linked |-> mails[i].linked /\ Chain(mails[i]) = <<>>])
  BY DEF CustomerRepliesBarely
<1> DEFINE p == mails[i]
           m == [by |-> "customer", message_id |-> Next_Id, in_reply_to |-> p.message_id,
                 references |-> <<>>, topic |-> p.topic, linked |-> p.linked /\ Chain(p) = <<>>]
<1>2. p \in AnyMail /\ RootKept(p) /\ (Chain(p) = <<>> => compute_thread_id(p) = p.message_id)
  BY IdsAreNumbers, ChainBegins DEF MailInv
<1>3. m \in AnyMail
  BY <1>2, IdsAreNumbers DEF AnyMail
<1>4. RootKept(m)
  BY <1>1, <1>2 DEF RootKept, compute_thread_id
<1> QED
  BY <1>1, <1>3, <1>4, WriteKeeps

\* The customers' mails are in one conversation exactly when they are of one
\* discussion (channels/email.py:117-121), as far as the answers to it carry the
\* links: for any number of mails, branches and clients.
THEOREM ThreadsAreDiscussions == MailSpec => []ThreadIsDiscussion
<1>1. MailInit => MailInv
  BY DEF MailInit, MailInv
<1>2. MailInv /\ [MailNext]_mails => MailInv'
  <2>1. MailInv /\ UNCHANGED mails => MailInv'
    BY DEF MailInv, RootKept, compute_thread_id
  <2> QED
    BY <2>1, OpeningKeeps, ReplyKeeps, BareReplyKeeps DEF MailNext
<1>3. MailInv => ThreadIsDiscussion
  BY DEF MailInv, RootKept, ThreadIsDiscussion
<1> QED
  BY <1>1, <1>2, <1>3, PTL DEF MailSpec

(***************************************************************************)
(* The survey's one rating and the scan for overdue conversations.         *)
(***************************************************************************)

Column == [csat : Scores \cup {NoEntry}, reason : Reasons \cup {NoEntry}]

SurveyShape ==
    /\ metadata \in Column
    /\ call \in [Callers -> [at : {"none", "rating", "status"}, finish : BOOLEAN,
                             value : Scores \cup Reasons \cup {NoEntry}, loaded : Column]]
    /\ overwrote \in BOOLEAN

\* A rating on its way was asked for when the copy it will write had none.
RatesUnrated ==
    \A q \in Callers :
        /\ call[q].at = "rating" => call[q].value \in Scores /\ call[q].loaded.csat = NoEntry
        /\ call[q].at = "status" => call[q].value \in Reasons \cup {NoEntry}

SurveyInv == SurveyShape /\ RatesUnrated /\ OneRating

LEMMA LoadKeeps ==
    ASSUME NoEntryAssumption, SurveyInv, NEW q \in Callers, NEW at \in {"rating", "status"},
           NEW finish \in BOOLEAN, NEW value,
           at = "rating" => metadata.csat = NoEntry /\ value \in Scores,
           at = "status" => value \in Reasons \cup {NoEntry},
           call' = [call EXCEPT ![q] = [at |-> at, finish |-> finish, value |-> value, loaded |-> metadata]],
           UNCHANGED <<rateable, metadata, accepted, overwrote>>
    PROVE  SurveyInv'
<1>1. SurveyShape'
  BY DEF SurveyInv, SurveyShape
<1>2. RatesUnrated'
  BY DEF SurveyInv, SurveyShape, RatesUnrated
<1> QED
  BY <1>1, <1>2 DEF SurveyInv, OneRating

\* The end of a request whose write changed nothing the survey is about.
LEMMA EndKeeps ==
    ASSUME SurveyInv, NEW q \in Callers, call' = [call EXCEPT ![q] = NoCall]
    PROVE  RatesUnrated' /\ (metadata' \in Column /\ overwrote' \in BOOLEAN => SurveyShape')
<1>1. NoCall \in [at : {"none", "rating", "status"}, finish : BOOLEAN,
                  value : Scores \cup Reasons \cup {NoEntry}, loaded : Column]
      /\ NoCall.at = "none"
  BY DEF NoCall, EmptyColumn, Column
<1> QED
  BY <1>1 DEF SurveyInv, SurveyShape, RatesUnrated

\* The reason of a change of status only goes into a column that is still empty.
LEMMA ReasonKeeps ==
    ASSUME SurveyInv, NEW loaded \in Column, NEW reason \in Reasons \cup {NoEntry},
           WriteReason(loaded, reason), accepted' = accepted
    PROVE  OneRating' /\ metadata' \in Column /\ overwrote' \in BOOLEAN
<1>1. CASE reason # NoEntry /\ loaded = EmptyColumn
  <2>1. /\ metadata' = [csat |-> NoEntry, reason |-> reason]
        /\ overwrote' = (overwrote \/ metadata # loaded)
    BY <1>1 DEF WriteReason, EmptyColumn
  <2>2. ~overwrote' => ~overwrote /\ metadata.csat = NoEntry
    <3>1. ~overwrote' => ~overwrote /\ metadata = EmptyColumn
      BY <1>1, <2>1
    <3> QED
      BY <3>1 DEF EmptyColumn
  <2> QED
    BY <2>1, <2>2 DEF SurveyInv, SurveyShape, OneRating, Column
<1>2. CASE ~(reason # NoEntry /\ loaded = EmptyColumn)
  BY <1>2 DEF WriteReason, SurveyInv, SurveyShape, OneRating
<1> QED
  BY <1>1, <1>2

LEMMA RatingKeeps ==
    ASSUME NoEntryAssumption, SurveyInv, NEW q \in Callers, CommitRating(q)
    PROVE  SurveyInv'
<1> DEFINE loaded == call[q].loaded
           score == call[q].value
<1>1. /\ score \in Scores /\ score # NoEntry /\ loaded \in Column /\ loaded.csat = NoEntry
      /\ metadata' = [loaded EXCEPT !.csat = score]
      /\ accepted' = Append(accepted, score)
      /\ overwrote' = (overwrote \/ metadata # loaded)
      /\ call' = [call EXCEPT ![q] = NoCall]
  BY DEF CommitRating, SurveyInv, SurveyShape, RatesUnrated, NoEntryAssumption
<1> HIDE DEF loaded, score
<1>2. metadata' \in Column /\ metadata'.csat = score
  BY <1>1 DEF Column
<1>3. ASSUME ~overwrote'
      PROVE  accepted' = <<score>>
  <2>1. accepted = <<>>
    BY <1>1, <1>3 DEF SurveyInv, OneRating, SurveyShape
  <2>2. Append(<<>>, score) = <<score>>
    OBVIOUS
  <2> QED
    BY <1>1, <2>1, <2>2
<1>4. OneRating'
  BY <1>1, <1>2, <1>3 DEF OneRating
<1> QED
  BY <1>1, <1>2, <1>4, EndKeeps DEF SurveyInv, SurveyShape

\* The survey's invariant holds of any callers, whoever overwrites whom.
THEOREM SurveyInvariant == SurveySpec => []SurveyInv
<1>1. SurveyInit => SurveyInv
  <2> SUFFICES ASSUME SurveyInit
               PROVE  SurveyInv
    OBVIOUS
  <2>1. NoCall.at = "none" /\ NoCall.finish \in BOOLEAN /\ NoCall.loaded \in Column
        /\ NoCall \in [at : {"none", "rating", "status"}, finish : BOOLEAN,
                       value : Scores \cup Reasons \cup {NoEntry}, loaded : Column]
    BY DEF NoCall, EmptyColumn, Column
  <2>2. SurveyShape /\ RatesUnrated
    BY <2>1 DEF SurveyInit, SurveyShape, RatesUnrated, EmptyColumn, Column
  <2>3. OneRating
    BY DEF SurveyInit, OneRating, EmptyColumn
  <2> QED
    BY <2>2, <2>3 DEF SurveyInv
<1>2. SurveyInv /\ [SurveyNext]_survey => SurveyInv'
  <2> SUFFICES ASSUME SurveyInv, [SurveyNext]_survey
               PROVE  SurveyInv'
    OBVIOUS
  <2>1. ASSUME NEW q \in Callers, NEW score \in Scores, LoadForRating(q, score)
        PROVE  SurveyInv'
    BY NoEntryAssumption, LoadKeeps, <2>1 DEF LoadForRating
  <2>2. ASSUME NEW q \in Callers, NEW finish \in BOOLEAN, NEW reason \in Reasons \cup {NoEntry},
               LoadForStatus(q, finish, reason)
        PROVE  SurveyInv'
    BY NoEntryAssumption, LoadKeeps, <2>2 DEF LoadForStatus
  <2>3. ASSUME NEW q \in Callers, CommitRating(q)
        PROVE  SurveyInv'
    BY NoEntryAssumption, RatingKeeps, <2>3
  <2>4. ASSUME NEW q \in Callers, CommitStatus(q)
        PROVE  SurveyInv'
    <3>1. call[q].loaded \in Column /\ call[q].value \in Reasons \cup {NoEntry}
      BY <2>4 DEF CommitStatus, SurveyInv, SurveyShape, RatesUnrated
    <3>2. OneRating' /\ metadata' \in Column /\ overwrote' \in BOOLEAN
      BY <2>4, <3>1, ReasonKeeps DEF CommitStatus
    <3> QED
      BY <2>4, <3>2, EndKeeps DEF CommitStatus, SurveyInv
  <2>5. ASSUME NEW reason \in Reasons, ResolveLocked(reason)
        PROVE  SurveyInv'
    <3>1. OneRating' /\ metadata' \in Column /\ overwrote' \in BOOLEAN
      BY <2>5, ReasonKeeps DEF ResolveLocked, SurveyInv, SurveyShape
    <3> QED
      BY <2>5, <3>1 DEF ResolveLocked, SurveyInv, SurveyShape, RatesUnrated
  <2>6. CASE CustomerReturns \/ UNCHANGED survey
    BY <2>6 DEF CustomerReturns, survey, SurveyInv, SurveyShape, RatesUnrated, OneRating
  <2>7. ASSUME NEW q \in Callers, CallFails(q)
        PROVE  SurveyInv'
    BY <2>7, EndKeeps DEF CallFails, SurveyInv, SurveyShape, OneRating
  <2> QED
    BY <2>1, <2>2, <2>3, <2>4, <2>5, <2>6, <2>7 DEF SurveyNext
<1> QED
  BY <1>1, <1>2, PTL DEF SurveySpec

\* The survey never acknowledges two ratings, and the one it acknowledged stays stored,
\* for any scores, reasons and requests, unless a write covered one it had not loaded.
THEOREM RatedOnce == SurveySpec => []OneRating
BY SurveyInvariant, PTL DEF SurveyInv

-----------------------------------------------------------------------------
\* A scan that is under way has judged every conversation it loaded, or has yet to: of
\* those in breach when it began none is forgotten, and it holds only those in breach.
Ticket == [phase : {"none", "open", "escalated", "done"}, opened : Nat, answered : BOOLEAN]

ScanShape ==
    /\ minute \in Nat
    /\ ticket \in [Tickets -> Ticket]
    /\ scan = [at |-> scan.at, began |-> scan.began, loaded |-> scan.loaded, left |-> scan.left,
               serving |-> scan.serving, flushed |-> scan.flushed, told |-> scan.told]
    /\ scan.began \in Nat /\ scan.began <= minute
    /\ DOMAIN scan.loaded \subseteq Tickets
    /\ \A c \in DOMAIN scan.loaded : scan.loaded[c] \in Ticket
    /\ scan.left \subseteq DOMAIN scan.loaded
    /\ scan.flushed \cup scan.serving \subseteq DOMAIN scan.loaded

ToldInOrder ==
    /\ scan.at \in {"loop", "breach"} => scan.flushed \subseteq scan.told
    /\ scan.at = "flushed" => scan.flushed \subseteq scan.told \cup scan.serving
    /\ scan.at = "loop" => scan.serving = {}

Judged ==
    /\ \A c \in DOMAIN scan.loaded :
          InBreach(scan.loaded[c], scan.began) => c \in scan.left \cup scan.serving \cup scan.flushed
    /\ \A c \in scan.serving \cup scan.flushed : InBreach(scan.loaded[c], minute)
    /\ scan.at = "flushed" => scan.serving \subseteq scan.flushed

ScanInv == ScanShape /\ ToldInOrder /\ Judged

LEMMA BreachLasts ==
    ASSUME MinutesAssumption, NEW t \in Ticket, NEW m \in Nat, NEW n \in Nat, m <= n, InBreach(t, m)
    PROVE  InBreach(t, n)
BY DEF InBreach, Ticket, MinutesAssumption

\* evaluate finds a breach when the policy has one.
LEMMA EvaluateFindsBreach ==
    ASSUME NEW t \in Ticket
    PROVE  Evaluate(t) # "ok" <=> InBreach(t, minute)
BY DEF Evaluate, InBreach, Ticket

LEMMA BeginScanKeeps == ASSUME ScanInv, BeginScan PROVE ScanInv'
<1> DEFINE open == {c \in Tickets : ticket[c].phase = "open"}
           rows == [c \in open |-> ticket[c]]
<1>1. /\ scan' = [at |-> "loop", began |-> minute, loaded |-> rows, left |-> open,
                 serving |-> {}, flushed |-> {}, told |-> {}]
      /\ UNCHANGED <<minute, ticket>>
  BY DEF BeginScan, NoScan
<1>2. open \subseteq Tickets /\ DOMAIN rows = open /\ \A c \in open : rows[c] \in Ticket
  BY DEF ScanInv, ScanShape
<1> HIDE DEF open, rows
<1>3. /\ scan'.at = "loop" /\ scan'.began = minute /\ scan'.loaded = rows /\ scan'.left = open
      /\ scan'.serving = {} /\ scan'.flushed = {} /\ scan'.told = {}
  BY <1>1
<1>4. ScanShape'
  BY <1>1, <1>2, <1>3 DEF ScanInv, ScanShape
<1>5. ToldInOrder' /\ Judged'
  BY <1>2, <1>3 DEF ToldInOrder, Judged
<1> QED
  BY <1>4, <1>5 DEF ScanInv

Moved(at, left, serving, flushed, told) ==
    scan' = [at |-> at, began |-> scan.began, loaded |-> scan.loaded, left |-> left,
             serving |-> serving, flushed |-> flushed, told |-> told]

\* Each step of the loop as the record it leaves.
LEMMA LoopSteps ==
    ASSUME ScanShape
    PROVE  /\ \A c : Visit(c) /\ Evaluate(scan.loaded[c]) = "ok" =>
                  Moved("loop", scan.left \ {c}, scan.serving, scan.flushed, scan.told)
           /\ \A c : Visit(c) /\ Evaluate(scan.loaded[c]) # "ok" =>
                  Moved("breach", scan.left \ {c}, {c}, scan.flushed, scan.told)
           /\ FlushBreach =>
                  Moved("flushed", scan.left, scan.serving, scan.flushed \cup scan.serving, scan.told)
           /\ Announce =>
                  Moved("loop", scan.left, {}, scan.flushed, scan.told \cup scan.serving)
<1> DEFINE r == [at |-> scan.at, began |-> scan.began, loaded |-> scan.loaded, left |-> scan.left,
                 serving |-> scan.serving, flushed |-> scan.flushed, told |-> scan.told]
<1>0. scan = r
  BY DEF ScanShape
<1>1. ASSUME NEW c, Visit(c), Evaluate(scan.loaded[c]) = "ok"
      PROVE  Moved("loop", scan.left \ {c}, scan.serving, scan.flushed, scan.told)
  BY <1>0, <1>1 DEF Visit, Moved
<1>2. ASSUME NEW c, Visit(c), Evaluate(scan.loaded[c]) # "ok"
      PROVE  Moved("breach", scan.left \ {c}, {c}, scan.flushed, scan.told)
  <2>1. scan' = [[[scan EXCEPT !.left = @ \ {c}] EXCEPT !.at = "breach"] EXCEPT !.serving = {c}]
    BY <1>2 DEF Visit
  <2> QED
    BY <1>0, <2>1 DEF Moved
<1>3. ASSUME FlushBreach
      PROVE  Moved("flushed", scan.left, scan.serving, scan.flushed \cup scan.serving, scan.told)
  <2>1. scan' = [[scan EXCEPT !.at = "flushed"] EXCEPT !.flushed = @ \cup scan.serving]
    BY <1>3 DEF FlushBreach
  <2> QED
    BY <1>0, <2>1 DEF Moved
<1>4. ASSUME Announce
      PROVE  Moved("loop", scan.left, {}, scan.flushed, scan.told \cup scan.serving)
  <2>1. scan' = [[[scan EXCEPT !.at = "loop"] EXCEPT !.told = @ \cup scan.serving] EXCEPT !.serving = {}]
    BY <1>4 DEF Announce
  <2> QED
    BY <1>0, <2>1 DEF Moved
<1> QED
  BY <1>1, <1>2, <1>3, <1>4

LEMMA LoopKeeps ==
    ASSUME ScanInv, (\E c \in Tickets : Visit(c)) \/ FlushBreach \/ Announce
    PROVE  ScanInv'
<1>0. UNCHANGED <<minute, ticket>>
  BY DEF Visit, FlushBreach, Announce
<1> USE DEF ScanInv
<1>1. ASSUME NEW c \in Tickets, Visit(c), Evaluate(scan.loaded[c]) = "ok"
      PROVE  ScanInv'
  <2>1. /\ scan.at = "loop" /\ c \in scan.left
        /\ Moved("loop", scan.left \ {c}, scan.serving, scan.flushed, scan.told)
    BY <1>1, LoopSteps DEF Visit
  <2>2. ~InBreach(scan.loaded[c], minute)
    BY <1>1, <2>1, EvaluateFindsBreach DEF ScanShape
  <2>3. ~InBreach(scan.loaded[c], scan.began)
    BY <2>1, <2>2, BreachLasts, MinutesAssumption DEF ScanShape
  <2>4. ScanShape' /\ ToldInOrder'
    BY <1>0, <2>1 DEF Moved, ScanShape, ToldInOrder
  <2>5. Judged'
    BY <1>0, <2>1, <2>3 DEF Moved, Judged
  <2> QED
    BY <2>4, <2>5
<1>2. ASSUME NEW c \in Tickets, Visit(c), Evaluate(scan.loaded[c]) # "ok"
      PROVE  ScanInv'
  <2>1. /\ scan.at = "loop" /\ c \in scan.left
        /\ Moved("breach", scan.left \ {c}, {c}, scan.flushed, scan.told)
    BY <1>2, LoopSteps DEF Visit
  <2>2. InBreach(scan.loaded[c], minute)
    BY <1>2, <2>1, EvaluateFindsBreach DEF ScanShape
  <2>4. ScanShape' /\ ToldInOrder'
    BY <1>0, <2>1 DEF Moved, ScanShape, ToldInOrder
  <2>5. Judged'
    BY <1>0, <2>1, <2>2 DEF Moved, Judged, ToldInOrder
  <2> QED
    BY <2>4, <2>5
<1>3. CASE FlushBreach
  <2>1. /\ scan.at = "breach"
        /\ Moved("flushed", scan.left, scan.serving, scan.flushed \cup scan.serving, scan.told)
    BY <1>3, LoopSteps DEF FlushBreach
  <2>2. ScanShape' /\ ToldInOrder'
    BY <1>0, <2>1 DEF Moved, ScanShape, ToldInOrder
  <2>3. Judged'
    BY <1>0, <2>1 DEF Moved, Judged
  <2> QED
    BY <2>2, <2>3
<1>4. CASE Announce
  <2>1. /\ scan.at = "flushed"
        /\ Moved("loop", scan.left, {}, scan.flushed, scan.told \cup scan.serving)
    BY <1>4, LoopSteps DEF Announce
  <2>2. ScanShape' /\ ToldInOrder'
    BY <1>0, <2>1 DEF Moved, ScanShape, ToldInOrder
  <2>3. Judged'
    BY <1>0, <2>1 DEF Moved, Judged
  <2> QED
    BY <2>2, <2>3
<1> QED
  BY <1>1, <1>2, <1>3, <1>4

\* What the customers, the agents and the clock do, and the end of a scan.
LEMMA DeskKeeps ==
    ASSUME ScanInv, scan' \in {scan, NoScan}, minute' \in Nat, minute' >= minute,
           ticket' \in [Tickets -> Ticket]
    PROVE  ScanInv'
<1> USE DEF ScanInv
<1>1. CASE scan' = NoScan
  <2>1. /\ scan'.at = "idle" /\ scan'.began = 0 /\ DOMAIN scan'.loaded = {} /\ scan'.left = {}
        /\ scan'.serving = {} /\ scan'.flushed = {} /\ scan'.told = {}
        /\ scan' = [at |-> scan'.at, began |-> scan'.began, loaded |-> scan'.loaded, left |-> scan'.left,
               serving |-> scan'.serving, flushed |-> scan'.flushed, told |-> scan'.told]
    BY <1>1 DEF NoScan
  <2>2. ScanShape'
    BY <2>1 DEF ScanShape
  <2> QED
    BY <2>1, <2>2 DEF ToldInOrder, Judged
<1>2. CASE scan' = scan
  <2>1. ScanShape' /\ ToldInOrder'
    BY <1>2 DEF ScanShape, ToldInOrder
  <2>2. \A c \in scan.serving \cup scan.flushed : InBreach(scan.loaded[c], minute')
    BY BreachLasts, MinutesAssumption DEF ScanShape, Judged
  <2>3. Judged'
    BY <1>2, <2>2 DEF Judged
  <2> QED
    BY <2>1, <2>3
<1> QED
  BY <1>1, <1>2

LEMMA TicketsKeep ==
    ASSUME ScanInv, NEW c \in Tickets,
           CustomerWrites(c) \/ Respond(c)
               \/ \E phase \in {"open", "escalated", "done"} : Move(c, phase)
    PROVE  ScanInv'
<1>1. ticket \in [Tickets -> Ticket] /\ minute \in Nat
  BY DEF ScanInv, ScanShape
<1>2. ticket' \in [Tickets -> Ticket]
  <2>1. CASE CustomerWrites(c)
    BY <1>1, <2>1 DEF CustomerWrites, Ticket
  <2>2. CASE Respond(c)
    BY <1>1, <2>2 DEF Respond, Ticket
  <2>3. ASSUME NEW phase \in {"open", "escalated", "done"}, Move(c, phase)
        PROVE  ticket' \in [Tickets -> Ticket]
    BY <1>1, <2>3 DEF Move, Ticket
  <2> QED
    BY <2>1, <2>2, <2>3
<1> QED
  BY <1>1, <1>2, DeskKeeps DEF CustomerWrites, Respond, Move

\* The scan's invariant holds wherever it stops, fails or waits.
THEOREM ScanInvariant == ScanSpec => []ScanInv
<1>1. ScanInit => ScanInv
  <2> SUFFICES ASSUME ScanInit
               PROVE  ScanInv
    OBVIOUS
  <2>1. /\ scan.at = "idle" /\ scan.began = 0 /\ DOMAIN scan.loaded = {} /\ scan.left = {}
        /\ scan.serving = {} /\ scan.flushed = {} /\ scan.told = {}
        /\ scan = [at |-> scan.at, began |-> scan.began, loaded |-> scan.loaded, left |-> scan.left,
               serving |-> scan.serving, flushed |-> scan.flushed, told |-> scan.told]
    BY DEF ScanInit, NoScan
  <2>2. ScanShape
    BY <2>1 DEF ScanInit, ScanShape, NoTicket, Ticket
  <2> QED
    BY <2>1, <2>2 DEF ScanInv, ToldInOrder, Judged
<1>2. ScanInv /\ [ScanNext]_desk => ScanInv'
  <2> SUFFICES ASSUME ScanInv, [ScanNext]_desk
               PROVE  ScanInv'
    OBVIOUS
  <2>0. minute \in Nat /\ ticket \in [Tickets -> Ticket]
    BY DEF ScanInv, ScanShape
  <2>1. CASE Wait \/ ScanFails \/ UNCHANGED desk
    BY <2>0, <2>1, DeskKeeps DEF Wait, ScanFails, desk
  <2>2. ASSUME NEW c \in Tickets, CustomerWrites(c) \/ Respond(c)
               \/ \E phase \in {"open", "escalated", "done"} : Move(c, phase)
        PROVE  ScanInv'
    BY TicketsKeep, <2>2
  <2>3. CASE BeginScan
    BY BeginScanKeeps, <2>3
  <2>4. CASE (\E c \in Tickets : Visit(c)) \/ FlushBreach \/ Announce
    BY LoopKeeps, <2>4
  <2>5. CASE CommitScan
    <3>1. ticket' \in [Tickets -> Ticket]
      BY <2>0, <2>5 DEF CommitScan, Escalated, Ticket
    <3> QED
      BY <2>0, <2>5, <3>1, DeskKeeps DEF CommitScan
  <2> QED
    BY <2>1, <2>2, <2>3, <2>4, <2>5 DEF ScanNext
<1> QED
  BY <1>1, <1>2, PTL DEF ScanSpec

\* For any tickets and deadlines, agents are told of a breach before anybody sees the
\* conversation escalated for it, wherever the scan fails.
THEOREM ToldBeforeEscalated == ScanSpec => ScanTellsFirst
<1>1. ScanInv /\ [ScanNext]_desk => \A c \in Tickets :
          scan' # scan /\ ticket'[c].phase = "escalated" /\ ticket[c].phase # "escalated"
          => c \in scan.told
  <2> SUFFICES ASSUME ScanInv, [ScanNext]_desk, NEW c \in Tickets, scan' # scan,
                      ticket'[c].phase = "escalated", ticket[c].phase # "escalated"
               PROVE  c \in scan.told
    OBVIOUS
  <2>1. CommitScan
    BY DEF ScanNext, desk, Wait, CustomerWrites, Respond, Visit, Move, BeginScan, FlushBreach,
           Announce, ScanFails
  <2>2. ticket'[c] = ticket[c] \/ c \in scan.flushed
    BY <2>1 DEF CommitScan, Escalated
  <2> QED
    BY <2>1, <2>2 DEF CommitScan, ScanInv, ToldInOrder
<1> QED
  BY <1>1, ScanInvariant, PTL DEF ScanTellsFirst, ScanSpec

\* For any tickets and deadlines, a scan that commits has escalated whatever it loaded
\* past its deadline when it began, and nothing that was not when it ended.
THEOREM ScanJudgesFairly == ScanSpec => EscalatesTheOverdue
<1>1. ScanInv => (CommitScan =>
          \A c \in DOMAIN scan.loaded :
             /\ InBreach(scan.loaded[c], scan.began) => ticket'[c].phase = "escalated"
             /\ c \in scan.flushed => InBreach(scan.loaded[c], minute))
  <2> SUFFICES ASSUME ScanInv, CommitScan, NEW c \in DOMAIN scan.loaded
               PROVE  /\ InBreach(scan.loaded[c], scan.began) => ticket'[c].phase = "escalated"
                      /\ c \in scan.flushed => InBreach(scan.loaded[c], minute)
    OBVIOUS
  <2>1. InBreach(scan.loaded[c], scan.began) => c \in scan.flushed
    BY DEF CommitScan, ScanInv, ToldInOrder, Judged
  <2>2. c \in scan.flushed => InBreach(scan.loaded[c], minute)
    BY DEF ScanInv, Judged
  <2>3. c \in scan.flushed => ticket'[c] = [ticket[c] EXCEPT !.phase = "escalated"]
    BY DEF CommitScan, Escalated, ScanInv, ScanShape
  <2>4. c \in Tickets /\ ticket[c] \in Ticket
    BY DEF ScanInv, ScanShape
  <2>5. c \in scan.flushed => ticket'[c].phase = "escalated"
    BY <2>3, <2>4 DEF Ticket
  <2> QED
    BY <2>1, <2>2, <2>5
<1> QED
  BY <1>1, ScanInvariant, PTL DEF EscalatesTheOverdue
===============================================================================
