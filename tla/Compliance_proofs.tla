------------------------- MODULE Compliance_proofs ----------------------------
(***************************************************************************)
(* The audit log and the deletions it tells of: what holds of them for any *)
(* number of writers, entries, conversations, files, jobs and days.        *)
(***************************************************************************)
EXTENDS AuditChain, Retention, TLAPS, LeastNumber

(***************************************************************************)
(* The audit log. As long as nobody edits the table, links lead to         *)
(* committed entries, and a log without forks verifies.                    *)
(***************************************************************************)

\* A set of entries has a newest one; of a finite set this needs no saying, but
\* it is simpler to carry along than finiteness.
HasNewest(S) == S = {} \/ \E e \in S : \A f \in S : f.id <= e.id

Linked(p, S) == p = Genesis \/ \E f \in S : f.id = p

Stamped == [id : Nat \ {0}, prev : Nat, intact : BOOLEAN]

AuditShape ==
    /\ log \subseteq Stamped
    /\ writer \in [Writers -> [step : {"closed", "reading", "open"}, prev : Nat, own : SUBSET Stamped]]
    /\ clock \in Nat

\* Of the committed entries, and of those of one writer.
LogSound ==
    /\ HasNewest(log)
    /\ \A e \in log : e.intact /\ e.prev < e.id /\ e.id <= clock /\ Linked(e.prev, log)

WriterSound(w) ==
    /\ HasNewest(writer[w].own)
    /\ \A e \in writer[w].own :
          /\ e.intact /\ e.prev < e.id /\ e.id <= clock /\ Linked(e.prev, Visible(w))
          /\ \A g \in writer[w].own : g.id < e.id => g.id <= e.prev
    /\ writer[w].step = "reading" =>
          /\ writer[w].prev <= clock /\ Linked(writer[w].prev, Visible(w))
          /\ \A g \in writer[w].own : g.id <= writer[w].prev

Sound ==
    /\ AuditShape /\ LogSound
    /\ \A w \in Writers : WriterSound(w)
    /\ ~forked => Verified

AuditInv == tampered \in Nat /\ (tampered = 0 => Sound)

-----------------------------------------------------------------------------
\* The id of the newest entry of a set that has one.
LEMMA NewestOf ==
    ASSUME NEW S \in SUBSET Stamped, HasNewest(S)
    PROVE  /\ S = {} => Newest(S) = Genesis
           /\ S # {} => \E e \in S : e.id = Newest(S) /\ \A f \in S : f.id <= e.id
BY DEF HasNewest, Newest

\* It is the only one no other exceeds.
LEMMA NewestIs ==
    ASSUME NEW S \in SUBSET Stamped, NEW p \in Nat, Linked(p, S), \A f \in S : f.id <= p
    PROVE  Newest(S) = p
<1>1. CASE S = {}
  BY <1>1 DEF Linked, Newest
<1>2. CASE S # {}
  <2>1. PICK e \in S : e.id = p
    BY <1>2 DEF Linked, Stamped, Genesis
  <2>2. \A f \in S : f.id <= e.id
    BY <2>1
  <2>3. DEFINE m == CHOOSE g \in S : \A f \in S : f.id <= g.id
  <2>4. m \in S /\ \A f \in S : f.id <= m.id
    BY <2>2
  <2>5. m.id = e.id
    BY <2>2, <2>4 DEF Stamped
  <2> QED
    BY <1>2, <2>1, <2>5 DEF Newest
<1> QED
  BY <1>1, <1>2

LEMMA NewestOfUnion ==
    ASSUME NEW S \in SUBSET Stamped, NEW T \in SUBSET Stamped, HasNewest(S), HasNewest(T)
    PROVE  HasNewest(S \cup T)
<1>1. CASE S = {} \/ T = {}
  BY <1>1 DEF HasNewest
<1>2. CASE S # {} /\ T # {}
  <2>1. PICK d \in S : \A f \in S : f.id <= d.id
    BY <1>2 DEF HasNewest
  <2>2. PICK e \in T : \A f \in T : f.id <= e.id
    BY <1>2 DEF HasNewest
  <2>3. CASE d.id <= e.id
    <3>1. \A f \in S \cup T : f.id <= e.id
      BY <2>1, <2>2, <2>3 DEF Stamped
    <3> QED
      BY <3>1 DEF HasNewest
  <2>4. CASE e.id <= d.id
    <3>1. \A f \in S \cup T : f.id <= d.id
      BY <2>1, <2>2, <2>4 DEF Stamped
    <3> QED
      BY <3>1 DEF HasNewest
  <2> QED
    BY <2>3, <2>4 DEF Stamped
<1> QED
  BY <1>1, <1>2

-----------------------------------------------------------------------------
LEMMA VisibleShape ==
    ASSUME AuditShape, NEW w \in Writers
    PROVE  /\ writer[w].own \in SUBSET Stamped /\ log \in SUBSET Stamped
           /\ Visible(w) \in SUBSET Stamped /\ writer[w].prev \in Nat
BY DEF AuditShape, Visible

\* What a writer sees has a newest entry, which is committed or its own.
LEMMA VisibleNewest ==
    ASSUME Sound, NEW w \in Writers
    PROVE  /\ Newest(Visible(w)) \in Nat /\ Newest(Visible(w)) <= clock
           /\ Linked(Newest(Visible(w)), Visible(w))
           /\ \A f \in Visible(w) : f.id <= Newest(Visible(w))
<1>1. Visible(w) \in SUBSET Stamped
  BY VisibleShape DEF Sound
<1>2. HasNewest(Visible(w))
  BY NewestOfUnion, VisibleShape DEF Sound, LogSound, WriterSound, Visible
<1>3. \A e \in Visible(w) : e.id <= clock
  BY DEF Sound, LogSound, WriterSound, Visible
<1>4. CASE Visible(w) = {}
  BY <1>1, <1>2, <1>4, NewestOf DEF Linked, Genesis, Sound, AuditShape
<1>5. CASE Visible(w) # {}
  <2>1. PICK e \in Visible(w) : e.id = Newest(Visible(w)) /\ \A f \in Visible(w) : f.id <= e.id
    BY <1>1, <1>2, <1>5, NewestOf
  <2> QED
    BY <1>1, <1>3, <2>1 DEF Linked, Stamped
<1> QED
  BY <1>4, <1>5

LEMMA ReadLatestKeeps ==
    ASSUME Sound, NEW w \in Writers, ReadLatest(w)
    PROVE  Sound'
<1> DEFINE p == Newest(Visible(w))
<1>1. UNCHANGED <<log, clock, forked>>
  BY DEF ReadLatest
<1>2. writer' = [writer EXCEPT ![w].step = "reading", ![w].prev = p]
  BY DEF ReadLatest
<1>3. p \in Nat /\ p <= clock /\ Linked(p, Visible(w)) /\ \A f \in Visible(w) : f.id <= p
  BY VisibleNewest
<1> HIDE DEF p
<1>4. /\ writer' \in [Writers -> [step : {"closed", "reading", "open"}, prev : Nat, own : SUBSET Stamped]]
      /\ \A v \in Writers : writer'[v].own = writer[v].own
      /\ writer'[w].prev = p
      /\ \A v \in Writers \ {w} : writer'[v] = writer[v]
  BY <1>2, <1>3 DEF Sound, AuditShape
<1>5. \A v \in Writers : Visible(v)' = Visible(v)
  BY <1>1, <1>4 DEF Visible
<1>6. AuditShape' /\ LogSound' /\ (~forked => Verified)'
  BY <1>1, <1>4 DEF Sound, AuditShape, LogSound, Verified, Before
<1>7. ASSUME NEW v \in Writers PROVE WriterSound(v)'
  <2>1. WriterSound(v)
    BY DEF Sound
  <2>2. CASE v = w
    BY <1>1, <1>3, <1>4, <1>5, <2>1, <2>2 DEF WriterSound, Visible
  <2>3. CASE v # w
    BY <1>1, <1>4, <1>5, <2>1, <2>3 DEF WriterSound
  <2> QED
    BY <2>2, <2>3
<1> QED
  BY <1>6, <1>7 DEF Sound

LEMMA AppendEntryKeeps ==
    ASSUME Sound, NEW w \in Writers, AppendEntry(w)
    PROVE  Sound'
<1> DEFINE e == [id |-> clock + 1, prev |-> writer[w].prev, intact |-> TRUE]
           own == writer[w].own
<1>1. /\ UNCHANGED <<log, forked>> /\ clock' = clock + 1
      /\ writer' = [writer EXCEPT ![w].step = "open", ![w].own = @ \cup {e}]
      /\ writer[w].step = "reading"
  BY DEF AppendEntry
<1>2. /\ WriterSound(w) /\ clock \in Nat /\ writer[w].prev \in Nat /\ own \in SUBSET Stamped
  BY VisibleShape DEF Sound, AuditShape
<1>3. e \in Stamped /\ e.id = clock + 1 /\ e.prev = writer[w].prev /\ e.intact = TRUE
  BY <1>2 DEF Stamped
<1>4. /\ writer' \in [Writers -> [step : {"closed", "reading", "open"}, prev : Nat, own : SUBSET Stamped]]
      /\ writer'[w].own = own \cup {e} /\ writer'[w].step = "open"
      /\ \A v \in Writers \ {w} : writer'[v] = writer[v]
  BY <1>1, <1>2, <1>3 DEF Sound, AuditShape
<1>5. \A v \in Writers : Visible(v) \subseteq Visible(v)'
  BY <1>1, <1>4 DEF Visible
<1>6. AuditShape' /\ LogSound' /\ (~forked => Verified)'
  BY <1>1, <1>2, <1>4 DEF Sound, AuditShape, LogSound, Verified, Before, Stamped
<1>7. WriterSound(w)'
  <2>1. /\ writer[w].prev <= clock /\ Linked(writer[w].prev, Visible(w))
        /\ \A g \in own : g.id <= writer[w].prev /\ g.id <= clock
    BY <1>1, <1>2 DEF WriterSound
  <2>2. HasNewest(own \cup {e})
    <3>1. \A f \in own \cup {e} : f.id <= e.id
      BY <1>2, <1>3, <2>1 DEF Stamped
    <3> QED
      BY <3>1 DEF HasNewest
  <2>3. \A f \in own \cup {e} :
           /\ f.intact /\ f.prev < f.id /\ f.id <= clock + 1 /\ Linked(f.prev, Visible(w))
           /\ \A g \in own \cup {e} : g.id < f.id => g.id <= f.prev
    <3> SUFFICES ASSUME NEW f \in own \cup {e}
                 PROVE  /\ f.intact /\ f.prev < f.id /\ f.id <= clock + 1 /\ Linked(f.prev, Visible(w))
                        /\ \A g \in own \cup {e} : g.id < f.id => g.id <= f.prev
      OBVIOUS
    <3>1. CASE f = e
      BY <1>2, <1>3, <2>1, <3>1
    <3>2. CASE f \in own
      BY <1>2, <1>3, <3>2 DEF WriterSound, Stamped
    <3> QED
      BY <3>1, <3>2
  <2>4. \A q : Linked(q, Visible(w)) => Linked(q, Visible(w)')
    BY <1>5 DEF Linked
  <2> QED
    BY <1>1, <1>4, <2>2, <2>3, <2>4 DEF WriterSound, Linked
<1>8. ASSUME NEW v \in Writers, v # w PROVE WriterSound(v)'
  <2>1. WriterSound(v) /\ writer'[v] = writer[v] /\ Visible(v)' = Visible(v)
    BY <1>1, <1>4, <1>8 DEF Sound, Visible
  <2>2. /\ writer[v].own \in SUBSET Stamped /\ writer[v].prev \in Nat
    BY <1>8, VisibleShape DEF Sound
  <2>3. \A f \in writer[v].own : f.id <= clock'
    BY <1>1, <1>2, <2>1, <2>2 DEF WriterSound, Stamped
  <2>4. writer[v].step = "reading" => writer[v].prev <= clock'
    BY <1>1, <1>2, <2>1, <2>2 DEF WriterSound
  <2> QED
    BY <2>1, <2>3, <2>4 DEF WriterSound
<1> QED
  BY <1>6, <1>7, <1>8 DEF Sound

\* What was linked while it was not committed is linked in the log, and what the
\* commit puts behind newer entries is a fork.
LEMMA CommitKeeps ==
    ASSUME Sound, NEW w \in Writers, CommitLog(w)
    PROVE  Sound'
<1> DEFINE own == writer[w].own
<1>1. /\ log' = log \cup own /\ clock' = clock
      /\ forked' = (forked \/ \E e \in own : \E f \in log : f.id > e.prev)
      /\ writer' = [writer EXCEPT ![w] = Closed]
  BY DEF CommitLog
<1>2. WriterSound(w) /\ LogSound /\ own \in SUBSET Stamped /\ log \in SUBSET Stamped /\ clock \in Nat
  BY VisibleShape DEF Sound, AuditShape
<1>3. /\ writer' \in [Writers -> [step : {"closed", "reading", "open"}, prev : Nat, own : SUBSET Stamped]]
      /\ writer'[w] = Closed
      /\ \A v \in Writers \ {w} : writer'[v] = writer[v]
  BY <1>1 DEF Sound, AuditShape, Closed, Genesis
<1>4. Visible(w) = log' /\ \A v \in Writers \ {w} : Visible(v) \subseteq Visible(v)'
  BY <1>1, <1>3 DEF Visible
<1>5. AuditShape'
  BY <1>1, <1>2, <1>3 DEF Sound, AuditShape
<1>6. LogSound'
  <2>1. HasNewest(log')
    BY <1>1, <1>2, NewestOfUnion DEF LogSound, WriterSound
  <2>2. ASSUME NEW e \in log' PROVE e.intact /\ e.prev < e.id /\ e.id <= clock' /\ Linked(e.prev, log')
    <3>1. CASE e \in log
      BY <1>1, <1>2, <3>1 DEF LogSound, Linked
    <3>2. CASE e \in own
      BY <1>1, <1>2, <1>4, <3>2 DEF WriterSound
    <3> QED
      BY <1>1, <3>1, <3>2
  <2> QED
    BY <2>1, <2>2 DEF LogSound
<1>7. ASSUME NEW v \in Writers PROVE WriterSound(v)'
  <2>1. CASE v = w
    BY <1>3, <2>1 DEF WriterSound, Closed, HasNewest
  <2>2. CASE v # w
    <3>1. WriterSound(v) /\ writer'[v] = writer[v] /\ Visible(v) \subseteq Visible(v)'
      BY <1>3, <1>4, <2>2 DEF Sound
    <3>2. \A q : Linked(q, Visible(v)) => Linked(q, Visible(v)')
      BY <3>1 DEF Linked
    <3> QED
      BY <1>1, <3>1, <3>2 DEF WriterSound, Linked
  <2> QED
    BY <2>1, <2>2
<1>8. (~forked => Verified)'
  <2> SUFFICES ASSUME ~forked', NEW e \in log'
               PROVE  e.intact /\ e.prev = Newest({f \in log' : f.id < e.id})
    BY DEF Verified, Before
  <2> DEFINE B == {f \in log' : f.id < e.id}
  <2>1. ~forked /\ Verified /\ \A g \in own : \A f \in log : f.id <= g.prev
    <3>1. ~forked /\ \A g \in own : \A f \in log : ~(f.id > g.prev)
      BY <1>1, Zenon
    <3>2. \A g \in own : \A f \in log : g.prev \in Nat /\ f.id \in Nat
      BY <1>2 DEF Stamped
    <3> QED
      BY <3>1, <3>2 DEF Sound
  <2>2. e.intact /\ e \in Stamped /\ B \in SUBSET Stamped
    BY <1>1, <1>2, <1>6 DEF LogSound
  <2>3. CASE e \in log
    <3>1. ASSUME NEW g \in own PROVE e.id <= g.id
      BY <1>2, <2>1, <2>3 DEF WriterSound, Stamped
    <3>2. B = Before(e)
      BY <1>1, <1>2, <2>2, <3>1 DEF Before, Stamped
    <3> QED
      BY <2>1, <2>2, <2>3, <3>2 DEF Verified
  <2>4. CASE e \in own
    <3>1. \A f \in B : f.id <= e.prev
      BY <1>1, <1>2, <2>1, <2>4 DEF WriterSound
    <3>2. Linked(e.prev, log') /\ e.prev < e.id
      BY <1>6 DEF LogSound
    <3>3. Linked(e.prev, B) /\ e.prev \in Nat
      BY <2>2, <3>2 DEF Linked, Stamped
    <3> HIDE DEF B
    <3>4. Newest(B) = e.prev
      BY <2>2, <3>1, <3>3, NewestIs
    <3> QED
      BY <2>2, <3>4 DEF B
  <2> QED
    BY <1>1, <2>3, <2>4
<1> QED
  BY <1>5, <1>6, <1>7, <1>8 DEF Sound

LEMMA RollbackKeeps ==
    ASSUME Sound, NEW w \in Writers, RollbackLog(w)
    PROVE  Sound'
<1>1. UNCHANGED <<log, clock, forked>> /\ writer' = [writer EXCEPT ![w] = Closed]
  BY DEF RollbackLog
<1>2. /\ writer' \in [Writers -> [step : {"closed", "reading", "open"}, prev : Nat, own : SUBSET Stamped]]
      /\ writer'[w] = Closed
      /\ \A v \in Writers \ {w} : writer'[v] = writer[v]
  BY <1>1 DEF Sound, AuditShape, Closed, Genesis
<1>3. AuditShape' /\ LogSound' /\ (~forked => Verified)'
  BY <1>1, <1>2 DEF Sound, AuditShape, LogSound, Verified, Before
<1>4. ASSUME NEW v \in Writers PROVE WriterSound(v)'
  <2>1. CASE v = w
    BY <1>2, <2>1 DEF WriterSound, Closed, HasNewest
  <2>2. CASE v # w
    BY <1>1, <1>2, <2>2 DEF Sound, WriterSound, Visible
  <2> QED
    BY <2>1, <2>2
<1> QED
  BY <1>3, <1>4 DEF Sound

LEMMA AuditInvInitially == AuditInit => AuditInv
<1> SUFFICES ASSUME AuditInit PROVE AuditInv
  OBVIOUS
<1>1. AuditShape /\ LogSound /\ Verified
  BY DEF AuditInit, AuditShape, LogSound, HasNewest, Verified, Closed, Genesis
<1>2. \A w \in Writers : WriterSound(w)
  BY DEF AuditInit, WriterSound, Closed, HasNewest
<1> QED
  BY <1>1, <1>2 DEF AuditInv, Sound, AuditInit

LEMMA AuditInvStep == AuditInv /\ [AuditNext]_audit => AuditInv'
<1> SUFFICES ASSUME AuditInv, [AuditNext]_audit PROVE AuditInv'
  OBVIOUS
<1>1. ASSUME NEW w \in Writers, ReadLatest(w) PROVE AuditInv'
  BY <1>1, ReadLatestKeeps DEF AuditInv, ReadLatest
<1>2. ASSUME NEW w \in Writers, AppendEntry(w) PROVE AuditInv'
  BY <1>2, AppendEntryKeeps DEF AuditInv, AppendEntry
<1>3. ASSUME NEW w \in Writers, CommitLog(w) PROVE AuditInv'
  BY <1>3, CommitKeeps DEF AuditInv, CommitLog
<1>4. ASSUME NEW w \in Writers, RollbackLog(w) PROVE AuditInv'
  BY <1>4, RollbackKeeps DEF AuditInv, RollbackLog
<1>5. CASE Tamper
  <2>1. tampered' = tampered + 1 /\ tampered \in Nat
    BY <1>5 DEF Tamper, AuditInv
  <2> QED
    BY <2>1 DEF AuditInv
<1>6. CASE UNCHANGED audit
  BY <1>6 DEF audit, AuditInv, Sound, AuditShape, LogSound, WriterSound, Visible, Verified, Before
<1> QED
  BY <1>1, <1>2, <1>3, <1>4, <1>5, <1>6 DEF AuditNext

\* The whole of it is an invariant of the log, tampered with or not.
THEOREM AuditInvariant == AuditSpec => []AuditInv
<1> QED
  BY AuditInvInitially, AuditInvStep, PTL DEF AuditSpec

\* An entry chains to one that was committed, however many sessions interleave
\* and roll back (compliance/engine.py:69-73).
THEOREM LinksLeadSomewhere == AuditSpec => []NoDanglingLink
<1>1. AuditInv => NoDanglingLink
  BY DEF AuditInv, Sound, LogSound, NoDanglingLink, Linked
<1> QED
  BY <1>1, AuditInvariant, PTL

\* Verification accepts every log that nobody touched and no two sessions forked
\* (compliance/engine.py:144-198), in whatever order they came and went.
THEOREM VerificationAccepts == AuditSpec => []UntouchedVerifies
<1>1. AuditInv => UntouchedVerifies
  BY DEF AuditInv, Sound, UntouchedVerifies
<1> QED
  BY <1>1, AuditInvariant, PTL

(***************************************************************************)
(* Tampering. An edit of a log that verifies makes it fail, since an entry *)
(* is known by its stamp and its successor by the hash it carries.         *)
(***************************************************************************)

Numbered(S) == \A e \in S : e.id \in 1..clock /\ e = [id |-> e.id, prev |-> e.prev, intact |-> e.intact]

\* With or without tampering, an entry is known by its stamp: among the committed ones and
\* all the sessions' own.
OneEntryPerStamp ==
    /\ \A e, f \in log : e.id = f.id => e = f
    /\ \A w \in Writers : \A e \in writer[w].own, f \in log : e.id # f.id
    /\ \A v, w \in Writers : \A e \in writer[v].own, f \in writer[w].own :
          e.id = f.id => v = w /\ e = f

StampsInv ==
    /\ clock \in Nat
    /\ writer = [w \in Writers |->
                    [step |-> writer[w].step, prev |-> writer[w].prev, own |-> writer[w].own]]
    /\ Numbered(log) /\ \A w \in Writers : Numbered(writer[w].own)
    /\ OneEntryPerStamp

\* Two records with some fields replaced.
LEMMA ReadingSession ==
    ASSUME NEW t, NEW p, t = [step |-> t.step, prev |-> t.prev, own |-> t.own]
    PROVE  [[t EXCEPT !.step = "reading"] EXCEPT !.prev = p]
               = [step |-> "reading", prev |-> p, own |-> t.own]
<1> DEFINE u == [step |-> "reading", prev |-> t.prev, own |-> t.own]
<1>1. [t EXCEPT !.step = "reading"] = u OBVIOUS
<1>2. [u EXCEPT !.prev = p] = [step |-> "reading", prev |-> p, own |-> t.own] OBVIOUS
<1> HIDE DEF u
<1> QED BY <1>1, <1>2

LEMMA AlteredEntry ==
    ASSUME NEW e, NEW x, e = [id |-> e.id, prev |-> e.prev, intact |-> e.intact]
    PROVE  [e EXCEPT !.intact = x] = [id |-> e.id, prev |-> e.prev, intact |-> x]
OBVIOUS

\* A session that reads, commits or rolls back stamps nothing.
LEMMA OwnShrinks ==
    ASSUME StampsInv, NEW w \in Writers, NEW r, writer' = [writer EXCEPT ![w] = r],
           r = [step |-> r.step, prev |-> r.prev, own |-> r.own],
           UNCHANGED clock,
           \/ r.own = writer[w].own /\ UNCHANGED log
           \/ r.own = {} /\ log' \in {log, log \cup writer[w].own}
    PROVE  StampsInv'
<1>1. /\ writer'[w] = r /\ \A v \in Writers \ {w} : writer'[v] = writer[v]
      /\ DOMAIN writer' = Writers /\ writer' = [v \in Writers |-> writer'[v]]
  BY DEF StampsInv
<1>2. \A v \in Writers : writer[v] = [step |-> writer[v].step, prev |-> writer[v].prev, own |-> writer[v].own]
  BY DEF StampsInv
<1>3. writer' = [v \in Writers |->
                    [step |-> writer'[v].step, prev |-> writer'[v].prev, own |-> writer'[v].own]]
  BY <1>1, <1>2
<1>4. CASE r.own = writer[w].own /\ UNCHANGED log
  <2>1. \A v \in Writers : writer'[v].own = writer[v].own
    BY <1>1, <1>4
  <2> QED
    BY <1>3, <1>4, <2>1 DEF StampsInv, Numbered, OneEntryPerStamp
<1>5. CASE r.own = {} /\ log' \in {log, log \cup writer[w].own}
  <2>1. writer'[w].own = {} /\ \A v \in Writers \ {w} : writer'[v].own = writer[v].own
    BY <1>1, <1>5
  <2>2. Numbered(log)' /\ \A v \in Writers : Numbered(writer[v].own)'
    BY <1>5, <2>1 DEF StampsInv, Numbered
  <2>3. OneEntryPerStamp'
    BY <1>5, <2>1 DEF StampsInv, OneEntryPerStamp
  <2> QED
    BY <1>3, <2>2, <2>3 DEF StampsInv
<1> QED
  BY <1>4, <1>5

LEMMA StampKeeps ==
    ASSUME StampsInv, NEW w \in Writers, AppendEntry(w)
    PROVE  StampsInv'
<1> DEFINE e == [id |-> clock + 1, prev |-> writer[w].prev, intact |-> TRUE]
           own == writer[w].own \cup {e}
           r == [step |-> "open", prev |-> writer[w].prev, own |-> own]
<1>0. UNCHANGED log /\ clock' = clock + 1 /\ clock \in Nat
  BY DEF AppendEntry, StampsInv
<1>1. writer' = [writer EXCEPT ![w].step = "open", ![w].own = own]
  BY DEF AppendEntry
<1>2. \A v \in Writers : writer[v] = [step |-> writer[v].step, prev |-> writer[v].prev, own |-> writer[v].own]
  BY DEF StampsInv
<1> HIDE DEF own
<1>3. /\ \A v \in Writers \ {w} : writer'[v] = writer[v]
      /\ writer' = [v \in Writers |-> writer'[v]]
      /\ writer'[w] = r
  <2>1. writer = [v \in Writers |-> writer[v]]
    BY DEF StampsInv
  <2>2. writer' = [[writer EXCEPT ![w].step = "open"] EXCEPT ![w].own = own]
    BY <1>1
  <2>3. writer'[w] = [[writer[w] EXCEPT !.step = "open"] EXCEPT !.own = own]
    BY <2>1, <2>2
  <2>4. writer'[w] = r
    BY <1>2, <2>3
  <2> QED
    BY <2>1, <2>2, <2>4
<1>4. writer' = [v \in Writers |->
                    [step |-> writer'[v].step, prev |-> writer'[v].prev, own |-> writer'[v].own]]
  BY <1>2, <1>3
<1>5. writer'[w].own = own /\ \A v \in Writers \ {w} : writer'[v].own = writer[v].own
  BY <1>3
<1>6. \A v \in Writers : writer'[v].own \subseteq writer[v].own \cup {e}
  BY <1>5 DEF own
<1> HIDE DEF e
<1>7. e.id = clock + 1 /\ e = [id |-> e.id, prev |-> e.prev, intact |-> e.intact]
  BY DEF e
<1>8. (\A f \in log : f.id \in 1..clock) /\ \A v \in Writers : \A f \in writer[v].own : f.id \in 1..clock
  BY DEF StampsInv, Numbered
<1>9. Numbered(log)' /\ \A v \in Writers : Numbered(writer[v].own)'
  <2>1. \A i \in 1..clock : i \in 1..clock'
    BY <1>0
  <2>2. clock + 1 \in 1..clock'
    BY <1>0
  <2>3. ASSUME NEW v \in Writers, NEW f \in writer'[v].own
        PROVE  f.id \in 1..clock' /\ f = [id |-> f.id, prev |-> f.prev, intact |-> f.intact]
    <3>1. CASE f = e
      BY <1>7, <2>2, <3>1
    <3>2. CASE f \in writer[v].own
      BY <2>1, <3>2 DEF StampsInv, Numbered
    <3> QED
      BY <1>6, <2>3, <3>1, <3>2
  <2>4. Numbered(log)'
    BY <1>0, <2>1 DEF StampsInv, Numbered
  <2> QED
    BY <2>3, <2>4 DEF Numbered
<1>10. \A i \in 1..clock : i # clock + 1
  BY <1>0
<1>11. /\ \A f \in log : f.id # e.id
       /\ \A v \in Writers : \A f \in writer[v].own : f.id # e.id
  BY <1>7, <1>8, <1>10
<1>12. \A v \in Writers : \A f \in writer'[v].own : f \in writer[v].own \/ (v = w /\ f = e)
  BY <1>5 DEF own
<1>13. OneEntryPerStamp'
  <2>1. \A f, g \in log' : f.id = g.id => f = g
    BY <1>0 DEF StampsInv, OneEntryPerStamp
  <2>2. ASSUME NEW v \in Writers, NEW f \in writer'[v].own, NEW g \in log'
        PROVE  f.id # g.id
    BY <1>0, <1>11, <1>12 DEF StampsInv, OneEntryPerStamp
  <2>3. ASSUME NEW v \in Writers, NEW u \in Writers, NEW f \in writer'[v].own, NEW g \in writer'[u].own,
               f.id = g.id
        PROVE  v = u /\ f = g
    <3>1. CASE f \in writer[v].own /\ g \in writer[u].own
      BY <2>3, <3>1 DEF StampsInv, OneEntryPerStamp
    <3>2. CASE ~(f \in writer[v].own /\ g \in writer[u].own)
      <4>1. f = e \/ g = e
        BY <1>12, <2>3, <3>2
      <4>2. f = e /\ g = e
        BY <1>11, <1>12, <2>3, <4>1
      <4>3. f \notin writer[v].own /\ g \notin writer[u].own
        BY <1>11, <4>2
      <4> QED
        BY <1>12, <2>3, <4>2, <4>3
    <3> QED
      BY <3>1, <3>2
  <2> QED
    BY <2>1, <2>2, <2>3 DEF OneEntryPerStamp
<1> QED
  BY <1>0, <1>4, <1>9, <1>13 DEF StampsInv

LEMMA TamperKeeps == ASSUME StampsInv, Tamper PROVE StampsInv'
<1>1. PICK e \in log : log' = log \ {e} \/ log' = (log \ {e}) \cup {[e EXCEPT !.intact = FALSE]}
  BY DEF Tamper
<1> DEFINE d == [e EXCEPT !.intact = FALSE]
<1>2. UNCHANGED <<writer, clock>>
  BY DEF Tamper
<1>3. d.id = e.id /\ e.id \in 1..clock /\ d = [id |-> d.id, prev |-> d.prev, intact |-> d.intact]
  <2>1. e.id \in 1..clock /\ e = [id |-> e.id, prev |-> e.prev, intact |-> e.intact]
    BY DEF StampsInv, Numbered
  <2>2. d = [id |-> e.id, prev |-> e.prev, intact |-> FALSE]
    BY <2>1, AlteredEntry
  <2> HIDE DEF d
  <2> QED
    BY <2>1, <2>2
<1> HIDE DEF d
<1>4. log' \subseteq (log \ {e}) \cup {d}
  BY <1>1 DEF d
<1>5. Numbered(log)' /\ \A w \in Writers : Numbered(writer[w].own)'
  BY <1>2, <1>3, <1>4 DEF StampsInv, Numbered
<1>6. OneEntryPerStamp'
  BY <1>2, <1>3, <1>4 DEF StampsInv, OneEntryPerStamp
<1> QED
  BY <1>2, <1>5, <1>6 DEF StampsInv

\* Stamps stay unique, with tampering and without.
THEOREM StampsInvariant == AuditSpec => []StampsInv
<1>1. AuditInit => StampsInv
  BY DEF AuditInit, StampsInv, Closed, Numbered, OneEntryPerStamp
<1>2. StampsInv /\ [AuditNext]_audit => StampsInv'
  <2> SUFFICES ASSUME StampsInv, [AuditNext]_audit
               PROVE  StampsInv'
    OBVIOUS
  <2>0. Closed.own = {} /\ Closed = [step |-> Closed.step, prev |-> Closed.prev, own |-> Closed.own]
    BY DEF Closed
  <2>1. ASSUME NEW w \in Writers, ReadLatest(w)
        PROVE  StampsInv'
    <3> DEFINE p == Newest(Visible(w))
               r == [step |-> "reading", prev |-> p, own |-> writer[w].own]
    <3>1. writer' = [writer EXCEPT ![w].step = "reading", ![w].prev = p] /\ UNCHANGED <<log, clock>>
      BY <2>1 DEF ReadLatest
    <3> HIDE DEF p
    <3>2. writer' = [writer EXCEPT ![w] = [[writer[w] EXCEPT !.step = "reading"] EXCEPT !.prev = p]]
      BY <3>1 DEF StampsInv
    <3>3. writer[w] = [step |-> writer[w].step, prev |-> writer[w].prev, own |-> writer[w].own]
      BY DEF StampsInv
    <3>4. writer' = [writer EXCEPT ![w] = r]
      BY <3>2, <3>3, ReadingSession
    <3>5. r.own = writer[w].own /\ r = [step |-> r.step, prev |-> r.prev, own |-> r.own]
      OBVIOUS
    <3> HIDE DEF r
    <3> QED
      BY <3>1, <3>4, <3>5, OwnShrinks
  <2>2. ASSUME NEW w \in Writers, AppendEntry(w)
        PROVE  StampsInv'
    BY StampKeeps, <2>2
  <2>3. ASSUME NEW w \in Writers, CommitLog(w) \/ RollbackLog(w)
        PROVE  StampsInv'
    BY <2>0, <2>3, OwnShrinks DEF CommitLog, RollbackLog
  <2>4. CASE Tamper
    BY TamperKeeps, <2>4
  <2>5. CASE UNCHANGED audit
    BY <2>5 DEF audit, StampsInv, Numbered, OneEntryPerStamp
  <2> QED
    BY <2>1, <2>2, <2>3, <2>4, <2>5 DEF AuditNext
<1> QED
  BY <1>1, <1>2, PTL DEF AuditSpec

\* Of entries with stamps of their own, the newest is one of them.
LEMMA NewestIsOne ==
    ASSUME NEW c \in Nat, NEW S, S # {}, \A e \in S : e.id \in 1..c
    PROVE  \E e \in S : e.id = Newest(S) /\ \A f \in S : f.id <= e.id
<1> DEFINE ids == {e.id : e \in S}
<1>1. ids \subseteq 0..c /\ ids # {}
  OBVIOUS
<1>2. PICK m \in ids : \A k \in ids : k <= m
  <2> HIDE DEF ids
  <2> QED
    BY <1>1, GreatestNumber
<1>3. \E e \in S : \A f \in S : f.id <= e.id
  BY <1>2
<1> QED
  BY <1>3 DEF Newest

\* The entry behind a removed one carries the hash of an entry that is not there.
LEMMA RemovalShows ==
    ASSUME StampsInv, Verified, NEW e \in log, log' = log \ {e}, Newest(log') = Newest(log)
    PROVE  ~Verified'
<1>0. clock \in Nat /\ \A f \in log : f.id \in 1..clock
  BY DEF StampsInv, Numbered
<1>1. \A f \in log' : f.id # e.id /\ f.id \in 1..clock
  BY <1>0 DEF StampsInv, OneEntryPerStamp
<1>2. Newest(log') # e.id
  <2>1. CASE log' = {}
    BY <1>0, <2>1 DEF Newest, Genesis
  <2>2. CASE log' # {}
    BY <1>0, <1>1, <2>2, NewestIsOne
  <2> QED
    BY <2>1, <2>2
<1>3. PICK n \in log : n.id = Newest(log) /\ \A f \in log : f.id <= n.id
  BY <1>0, NewestIsOne
<1>4. n.id > e.id
  BY <1>0, <1>2, <1>3
<1> DEFINE later == {f.id : f \in {g \in log : g.id > e.id}}
<1>5. PICK i \in later : \A k \in later : i <= k
  <2>1. later \in SUBSET Nat /\ later # {}
    BY <1>0, <1>4
  <2> HIDE DEF later
  <2> QED
    BY <2>1, LeastNumber
<1>6. PICK s \in log : s.id > e.id /\ \A f \in log : f.id > e.id => s.id <= f.id
  BY <1>5
<1>7. Newest(Before(s)) = e.id
  <2>1. e \in Before(s) /\ Before(s) \subseteq log
    BY <1>6 DEF Before
  <2>2. PICK f \in Before(s) : f.id = Newest(Before(s)) /\ \A g \in Before(s) : g.id <= f.id
    BY <1>0, <2>1, NewestIsOne
  <2>3. f.id < s.id /\ f \in log /\ f.id >= e.id
    BY <2>1, <2>2 DEF Before
  <2>4. f.id <= e.id
    BY <1>0, <1>6, <2>3
  <2> QED
    BY <1>0, <2>1, <2>2, <2>3, <2>4
<1>8. s \in log' /\ s.prev = e.id
  BY <1>0, <1>6, <1>7 DEF Verified
<1>9. Newest(Before(s)') # e.id
  <2>1. Before(s)' \subseteq log'
    BY DEF Before
  <2>2. CASE Before(s)' = {}
    BY <1>0, <2>2 DEF Newest, Genesis
  <2>3. CASE Before(s)' # {}
    BY <1>0, <1>1, <2>1, <2>3, NewestIsOne
  <2> QED
    BY <2>2, <2>3
<1> QED
  BY <1>8, <1>9 DEF Verified

\* For any writers and entries and however often the table was edited before: altering an
\* entry of a log that verifies, or removing one behind the newest, makes it fail.
THEOREM TamperingIsEvident == AuditSpec => TamperingShows
<1>1. StampsInv /\ [AuditNext]_audit =>
          (tampered' # tampered /\ Verified /\ Newest(log') = Newest(log) => ~Verified')
  <2> SUFFICES ASSUME StampsInv, [AuditNext]_audit, tampered' # tampered, Verified,
                      Newest(log') = Newest(log)
               PROVE  ~Verified'
    OBVIOUS
  <2>1. Tamper
    BY DEF AuditNext, audit, ReadLatest, AppendEntry, CommitLog, RollbackLog
  <2>2. PICK e \in log : log' = log \ {e} \/ log' = (log \ {e}) \cup {[e EXCEPT !.intact = FALSE]}
    BY <2>1 DEF Tamper
  <2>3. CASE log' = log \ {e}
    BY <2>3, RemovalShows
  <2>4. CASE log' = (log \ {e}) \cup {[e EXCEPT !.intact = FALSE]}
    <3>1. [e EXCEPT !.intact = FALSE].intact = FALSE
      BY DEF StampsInv, Numbered
    <3> QED
      BY <2>4, <3>1 DEF Verified
  <2> QED
    BY <2>2, <2>3, <2>4
<1> QED
  BY <1>1, StampsInvariant, PTL DEF TamperingShows, AuditSpec

(***************************************************************************)
(* The audit trail and the Vault agree with the database.                  *)
(***************************************************************************)

SweepTask == [op : {"sweep"}, todo : SUBSET Chats, held : SUBSET Chats]
ErasureTask ==
    [op : {"anonymize", "hard"}, step : {"loaded", "flushed"}, mine : SUBSET Rows, fresh : SUBSET Rows,
     files : SUBSET VaultFiles, held : SUBSET Rows, begun : Nat]
VaultTask == [op : {"vault"}, todo : SUBSET VaultFiles, failed : SUBSET VaultFiles, held : {{}}]

RetentionShape ==
    /\ kept \subseteq Rows /\ vault \subseteq VaultFiles /\ today \in Nat
    /\ task \in [Jobs -> {Resting} \cup SweepTask \cup ErasureTask \cup VaultTask]

\* A row is written by one transaction at a time.
OneHolder == \A s, u \in Jobs : s # u => task[s].held \cap task[u].held = {}

\* An erasure knows the files of whatever it is going to erase, and once it has
\* deleted the rows no other transaction can.
Erasing(s) ==
    task[s] \in ErasureTask =>
        /\ task[s].files = Snapshot(task[s].mine) /\ task[s].held \subseteq task[s].mine
        /\ task[s].step = "loaded" => kept \subseteq task[s].mine /\ task[s].held = {}
        /\ task[s].step = "flushed" /\ task[s].op = "hard" => task[s].held = kept

RetentionInv ==
    /\ RetentionShape /\ OneHolder
    /\ \A s \in Jobs : Erasing(s)
    /\ GoneIsAudited /\ OrphansReported

-----------------------------------------------------------------------------
\* Each kind of task is told by its op.
LEMMA TaskKinds ==
    ASSUME RetentionInv, NEW s \in Jobs
    PROVE  /\ task[s].op = "sweep" => task[s] \in SweepTask
           /\ task[s].op \in {"anonymize", "hard"} => task[s] \in ErasureTask
           /\ task[s].op = "vault" => task[s] \in VaultTask
           /\ task[s] = Resting => task[s].op = "none" /\ task[s].held = {}
           /\ task[s].held \subseteq Rows
BY DEF RetentionInv, RetentionShape, Resting, SweepTask, ErasureTask, VaultTask, Rows

LEMMA SnapshotOf ==
    ASSUME NEW A \in SUBSET Rows, NEW B \in SUBSET Rows, A \subseteq B
    PROVE  Snapshot(A) \subseteq Snapshot(B) /\ Snapshot(B) \in SUBSET VaultFiles
BY FilesAssumption DEF Snapshot

LEMMA EntriesDiffer ==
    \A v, f, mode : /\ mode \in {"anonymize", "hard"} => Erased(mode) # Swept(v) /\ Erased(mode) # Unerased(f)
                    /\ Swept(v) # Unerased(f)
                    /\ Erased("anonymize") # Erased("hard")
BY DEF Swept, Erased, Unerased

\* What one session does to its own task, when the rows it holds are fewer or
\* are held by nobody else.
LEMMA StepOfOne ==
    ASSUME RetentionInv, NEW s \in Jobs, NEW t, Record(s, t),
           t \in {Resting} \cup SweepTask \cup ErasureTask \cup VaultTask,
           t.held \subseteq task[s].held \/ ~Locked(s, t.held \ task[s].held)
    PROVE  /\ task' \in [Jobs -> {Resting} \cup SweepTask \cup ErasureTask \cup VaultTask]
           /\ task'[s] = t /\ \A u \in Jobs \ {s} : task'[u] = task[u]
           /\ OneHolder'
<1>1. /\ task' \in [Jobs -> {Resting} \cup SweepTask \cup ErasureTask \cup VaultTask]
      /\ task'[s] = t /\ \A u \in Jobs \ {s} : task'[u] = task[u]
  BY DEF Record, RetentionInv, RetentionShape
<1>2. \A u \in Jobs \ {s} : t.held \cap task[u].held = {}
  BY DEF RetentionInv, OneHolder, Locked
<1>3. OneHolder'
  BY <1>1, <1>2 DEF OneHolder, RetentionInv
<1> QED
  BY <1>1, <1>3

LEMMA CalmKeeps == RetentionInv /\ (Tomorrow \/ (\E v \in Chats : Touch(v)) \/ UNCHANGED retention) => RetentionInv'
<1> SUFFICES ASSUME RetentionInv, Tomorrow \/ (\E v \in Chats : Touch(v)) \/ UNCHANGED retention
             PROVE  RetentionInv'
  OBVIOUS
<1>1. UNCHANGED <<kept, task, trail, vault, owing, forsaken>> /\ today' \in Nat
  BY DEF Tomorrow, Touch, retention, RetentionInv, RetentionShape
<1> QED
  BY <1>1
  DEF RetentionInv, RetentionShape, OneHolder, Erasing, Snapshot, GoneIsAudited, OrphansReported

\* A step that leaves rows, trail and Vault alone, and no erasure's files undone.
LEMMA QuietKeeps ==
    ASSUME RetentionInv, NEW s \in Jobs, NEW t, Record(s, t),
           t \in {Resting} \cup SweepTask \cup ErasureTask,
           t.held \subseteq task[s].held \/ ~Locked(s, t.held \ task[s].held),
           task[s].op # "vault",
           UNCHANGED <<kept, today, trail, vault, owing, forsaken>>,
           t \in ErasureTask => Erasing(s)'
    PROVE  RetentionInv'
<1>1. /\ task' \in [Jobs -> {Resting} \cup SweepTask \cup ErasureTask \cup VaultTask]
      /\ task'[s] = t /\ \A u \in Jobs \ {s} : task'[u] = task[u]
      /\ OneHolder'
  BY StepOfOne
<1>2. ASSUME NEW u \in Jobs PROVE Erasing(u)'
  BY <1>1 DEF Erasing, Snapshot, RetentionInv
<1>3. GoneIsAudited' /\ OrphansReported'
  BY <1>1 DEF GoneIsAudited, OrphansReported, RetentionInv
<1> QED
  BY <1>1, <1>2, <1>3 DEF RetentionInv, RetentionShape

-----------------------------------------------------------------------------
LEMMA SweepKeeps ==
    ASSUME RetentionInv, NEW s \in Jobs, SweepLoad(s) \/ SweepChat(s)
    PROVE  RetentionInv'
<1>1. CASE SweepLoad(s)
  <2> DEFINE old == {v \in kept \cap Chats : touched[v] + RetentionDays < today}
             t == [op |-> "sweep", todo |-> old, held |-> {}]
  <2>1. Record(s, t) /\ task[s] = Resting /\ UNCHANGED <<kept, today, trail, vault, owing, forsaken>>
    BY <1>1 DEF SweepLoad
  <2>2. t \in SweepTask /\ t \notin ErasureTask /\ t.held = {}
    BY DEF SweepTask, ErasureTask
  <2>3. task[s].op # "vault"
    BY <2>1 DEF Resting
  <2> QED
    BY <2>1, <2>2, <2>3, QuietKeeps
<1>2. CASE SweepChat(s)
  <2>1. PICK v \in task[s].todo :
            ~Locked(s, {v}) /\ Record(s, [task[s] EXCEPT !.todo = @ \ {v}, !.held = @ \cup {v}])
    BY <1>2 DEF SweepChat
  <2> DEFINE t == [task[s] EXCEPT !.todo = @ \ {v}, !.held = @ \cup {v}]
  <2>2. task[s] \in SweepTask /\ task[s].op = "sweep" /\ UNCHANGED <<kept, today, trail, vault, owing, forsaken>>
    BY <1>2, TaskKinds DEF SweepChat
  <2>3. t \in SweepTask /\ t \notin ErasureTask /\ t.held \ task[s].held \subseteq {v}
    BY <2>1, <2>2 DEF SweepTask, ErasureTask
  <2>4. ~Locked(s, t.held \ task[s].held)
    BY <2>1, <2>3 DEF Locked
  <2> QED
    BY <2>1, <2>2, <2>3, <2>4, QuietKeeps
<1> QED
  BY <1>1, <1>2

\* The rows go with their entries; of a deletion that others prepared none is
\* among them.
LEMMA SweepCommitKeeps ==
    ASSUME RetentionInv, NEW s \in Jobs, SweepCommit(s)
    PROVE  RetentionInv'
<1>1. /\ task[s].op = "sweep" /\ Record(s, Resting)
      /\ kept' = kept \ task[s].held
      /\ trail' = trail \cup {Swept(v) : v \in task[s].held}
      /\ UNCHANGED <<today, vault, owing, forsaken>>
  BY DEF SweepCommit
<1>2. Resting.held = {} /\ Resting \notin ErasureTask
  BY DEF Resting, ErasureTask
<1>3. /\ task' \in [Jobs -> {Resting} \cup SweepTask \cup ErasureTask \cup VaultTask]
      /\ task'[s] = Resting /\ \A u \in Jobs \ {s} : task'[u] = task[u]
      /\ OneHolder'
  BY <1>1, <1>2, StepOfOne
<1>4. RetentionShape'
  BY <1>1, <1>3 DEF RetentionInv, RetentionShape
<1>5. ASSUME NEW u \in Jobs PROVE Erasing(u)'
  <2>1. CASE u = s
    BY <1>2, <1>3, <2>1 DEF Erasing
  <2>2. CASE u # s
    <3>1. Erasing(u) /\ task'[u] = task[u] /\ task[u].held \cap task[s].held = {} /\ kept' \subseteq kept
      BY <1>1, <1>3, <2>2 DEF RetentionInv, OneHolder
    <3>2. task[u].held = kept => task[u].held = kept'
      BY <1>1, <3>1
    <3> QED
      BY <3>1, <3>2 DEF Erasing, Snapshot
  <2> QED
    BY <2>1, <2>2
<1>6. GoneIsAudited'
  <2> SUFFICES ASSUME NEW v \in Chats
               PROVE  v \notin kept' <=> (Swept(v) \in trail' \/ Erased("hard") \in trail')
    BY DEF GoneIsAudited, Swept, Erased
  <2>1. v \notin kept <=> (Swept(v) \in trail \/ Erased("hard") \in trail)
    BY DEF RetentionInv, GoneIsAudited
  <2>2. Swept(v) \in trail' <=> (Swept(v) \in trail \/ v \in task[s].held)
    BY <1>1 DEF Swept
  <2>3. Erased("hard") \in trail' <=> Erased("hard") \in trail
    BY <1>1, EntriesDiffer
  <2> QED
    BY <1>1, <2>1, <2>2, <2>3
<1>7. OrphansReported'
  <2>1. \A u \in Jobs : task[u].op = "vault" => task'[u] = task[u]
    BY <1>1, <1>3
  <2> QED
    BY <1>1, <2>1 DEF RetentionInv, OrphansReported
<1> QED
  BY <1>3, <1>4, <1>5, <1>6, <1>7 DEF RetentionInv

-----------------------------------------------------------------------------
LEMMA ErasureLoadKeeps ==
    ASSUME RetentionInv, NEW s \in Jobs, NEW mode \in {"anonymize", "hard"}, ErasureLoad(s, mode)
    PROVE  RetentionInv'
<1> DEFINE t == [op |-> mode, step |-> "loaded", mine |-> kept, fresh |-> kept \ masked,
                 files |-> Snapshot(kept), held |-> {},
                 begun |-> IF mode = "hard" THEN 0 ELSE today]
<1>1. Record(s, t) /\ task[s] = Resting /\ UNCHANGED <<kept, today, trail, vault, owing, forsaken>>
  BY DEF ErasureLoad
<1>2. kept \subseteq Rows /\ today \in Nat /\ Snapshot(kept) \in SUBSET VaultFiles
  BY SnapshotOf DEF RetentionInv, RetentionShape
<1>3. t \in ErasureTask /\ t.held = {} /\ task[s].op # "vault"
  BY <1>1, <1>2 DEF ErasureTask, Resting
<1>4. Erasing(s)'
  <2>1. task'[s] = t
    BY <1>1 DEF Record, RetentionInv, RetentionShape
  <2>2. Snapshot(t.mine)' = Snapshot(kept)
    BY <1>1, <2>1 DEF Snapshot
  <2> QED
    BY <1>1, <2>1, <2>2 DEF Erasing, Snapshot
<1> QED
  BY <1>1, <1>3, <1>4, QuietKeeps

LEMMA ErasureFlushKeeps ==
    ASSUME RetentionInv, NEW s \in Jobs, ErasureFlush(s)
    PROVE  RetentionInv'
<1> DEFINE writes == IF task[s].op = "hard" THEN kept ELSE task[s].fresh
           t == [task[s] EXCEPT !.step = "flushed", !.held = writes]
<1>1. /\ task[s].op \in {"anonymize", "hard"} /\ task[s].step = "loaded"
      /\ ~Locked(s, writes)
      /\ Record(s, IF writes \subseteq kept THEN t ELSE Resting)
      /\ UNCHANGED <<kept, today, trail, vault, owing, forsaken>>
  BY DEF ErasureFlush
<1>2. task[s] \in ErasureTask /\ kept \subseteq Rows /\ Erasing(s)
  BY <1>1, TaskKinds DEF RetentionInv, RetentionShape
<1>3. task[s].op # "vault"
  BY <1>1
<1>4. CASE ~(writes \subseteq kept)
  <2>1. Resting.held = {} /\ Resting \notin ErasureTask /\ Record(s, Resting)
    BY <1>1, <1>4 DEF Resting, ErasureTask
  <2> QED
    BY <1>1, <1>3, <2>1, QuietKeeps
<1>5. CASE writes \subseteq kept
  <2>1. /\ Record(s, t) /\ t \in ErasureTask /\ t.held = writes /\ t.step = "flushed"
        /\ t.mine = task[s].mine /\ t.files = task[s].files /\ t.op = task[s].op
    BY <1>1, <1>2, <1>5 DEF ErasureTask
  <2>2. ~Locked(s, t.held \ task[s].held)
    BY <1>1, <2>1 DEF Locked
  <2>3. Erasing(s)'
    <3>1. task'[s] = t
      BY <2>1 DEF Record, RetentionInv, RetentionShape
    <3>2. kept \subseteq t.mine /\ t.files = Snapshot(t.mine)
      BY <1>1, <1>2, <2>1 DEF Erasing
    <3>3. t.held \subseteq t.mine /\ (t.op = "hard" => t.held = kept)
      BY <1>5, <2>1, <3>2
    <3> QED
      BY <1>1, <2>1, <3>1, <3>2, <3>3 DEF Erasing, Snapshot
  <2> QED
    BY <1>1, <1>3, <2>1, <2>2, <2>3, QuietKeeps
<1> QED
  BY <1>4, <1>5

\* After the commit a hard erasure leaves no conversation, and the files of what
\* any erasure took are the task of its Vault part.
LEMMA ErasureCommitKeeps ==
    ASSUME RetentionInv, NEW s \in Jobs, ErasureCommit(s)
    PROVE  RetentionInv'
<1> DEFINE o == task[s]
           t == IF o.files = {} THEN Resting
                ELSE [op |-> "vault", todo |-> o.files, failed |-> {}, held |-> {}]
           lost == IF o.op = "hard" THEN o.held ELSE o.mine
<1>1. /\ o.op \in {"anonymize", "hard"} /\ o.step = "flushed" /\ Record(s, t)
      /\ kept' = IF o.op = "hard" THEN kept \ o.held ELSE kept
      /\ trail' = trail \cup {Erased(o.op)}
      /\ owing' = owing \cup Snapshot(lost)
      /\ UNCHANGED <<today, vault, forsaken>>
  BY DEF ErasureCommit
<1>2. /\ o \in ErasureTask /\ Erasing(s) /\ kept \subseteq Rows
      /\ o.files \in SUBSET VaultFiles /\ o.mine \in SUBSET Rows /\ o.held \in SUBSET Rows
  BY <1>1, TaskKinds DEF RetentionInv, RetentionShape, ErasureTask
<1>3. t \in {Resting} \cup VaultTask /\ t.held = {} /\ t \notin ErasureTask
  BY <1>2 DEF VaultTask, ErasureTask, Resting
<1>4. /\ task' \in [Jobs -> {Resting} \cup SweepTask \cup ErasureTask \cup VaultTask]
      /\ task'[s] = t /\ \A u \in Jobs \ {s} : task'[u] = task[u]
      /\ OneHolder'
  <2> HIDE DEF t
  <2> QED
    BY <1>1, <1>3, StepOfOne
<1>5. RetentionShape' /\ kept' \subseteq kept
  BY <1>1, <1>2, <1>4 DEF RetentionInv, RetentionShape
<1>6. ASSUME NEW u \in Jobs PROVE Erasing(u)'
  <2>1. CASE u = s
    BY <1>3, <1>4, <2>1 DEF Erasing
  <2>2. CASE u # s
    <3>1. Erasing(u) /\ task'[u] = task[u] /\ task[u].held \cap o.held = {}
      BY <1>4, <2>2 DEF RetentionInv, OneHolder
    <3>2. task[u].held = kept => task[u].held = kept'
      BY <1>1, <3>1
    <3> QED
      BY <1>5, <3>1, <3>2 DEF Erasing, Snapshot
  <2> QED
    BY <2>1, <2>2
<1>7. GoneIsAudited'
  <2> SUFFICES ASSUME NEW v \in Chats
               PROVE  v \notin kept' <=> (Swept(v) \in trail' \/ Erased("hard") \in trail')
    BY DEF GoneIsAudited, Swept, Erased
  <2>1. CASE o.op = "hard"
    BY <1>1, <1>2, <2>1 DEF Erasing
  <2>2. CASE o.op = "anonymize"
    <3>1. v \notin kept <=> (Swept(v) \in trail \/ Erased("hard") \in trail)
      BY DEF RetentionInv, GoneIsAudited
    <3>2. Erased("anonymize") # Swept(v) /\ Erased("anonymize") # Erased("hard")
      BY EntriesDiffer
    <3> QED
      BY <1>1, <2>2, <3>1, <3>2
  <2> QED
    BY <1>1, <2>1, <2>2
<1>8. OrphansReported'
  <2> SUFFICES ASSUME NEW f \in owing' \cap vault
               PROVE  \/ Unerased(f) \in trail'
                      \/ \E u \in Jobs : task'[u].op = "vault" /\ f \in task'[u].todo \cup task'[u].failed
                      \/ f \in forsaken'
    BY <1>1 DEF OrphansReported, Unerased
  <2>1. CASE f \in owing
    <3>1. \A u \in Jobs : task[u].op = "vault" => task'[u] = task[u]
      BY <1>1, <1>4
    <3> QED
      BY <1>1, <2>1, <3>1 DEF RetentionInv, OrphansReported
  <2>2. CASE f \in Snapshot(lost)
    <3>1. lost \subseteq o.mine
      BY <1>2, <1>1 DEF Erasing
    <3>2. f \in o.files
      BY <1>2, <2>2, <3>1, SnapshotOf DEF Erasing
    <3>3. t.op = "vault" /\ f \in t.todo
      BY <3>2
    <3> QED
      BY <1>4, <3>3
  <2> QED
    BY <1>1, <2>1, <2>2
<1> QED
  BY <1>4, <1>5, <1>6, <1>7, <1>8 DEF RetentionInv

-----------------------------------------------------------------------------
\* A session that works for the Vault, or ends: its rows and entries stay as
\* they are, and no file it was responsible for is dropped.
LEMMA VaultStepKeeps ==
    ASSUME RetentionInv, NEW s \in Jobs, NEW t, Record(s, t), t \in {Resting} \cup VaultTask,
           kept' = kept, today' = today, owing' = owing,
           vault' \subseteq vault, trail \subseteq trail', forsaken \subseteq forsaken',
           \A v \in Chats : Swept(v) \in trail' => Swept(v) \in trail,
           Erased("hard") \in trail' => Erased("hard") \in trail,
           task[s].op = "vault" =>
               \A f \in (task[s].todo \cup task[s].failed) \cap vault' :
                   \/ Unerased(f) \in trail' \/ f \in forsaken'
                   \/ t.op = "vault" /\ f \in t.todo \cup t.failed
    PROVE  RetentionInv'
<1>1. t.held = {} /\ t \notin ErasureTask
  BY DEF VaultTask, ErasureTask, Resting
<1>2. /\ task' \in [Jobs -> {Resting} \cup SweepTask \cup ErasureTask \cup VaultTask]
      /\ task'[s] = t /\ \A u \in Jobs \ {s} : task'[u] = task[u]
      /\ OneHolder'
  BY <1>1, StepOfOne
<1>3. RetentionShape'
  BY <1>2 DEF RetentionInv, RetentionShape
<1>4. ASSUME NEW u \in Jobs PROVE Erasing(u)'
  BY <1>1, <1>2 DEF RetentionInv, Erasing, Snapshot
<1>5. GoneIsAudited'
  BY DEF RetentionInv, GoneIsAudited, Swept, Erased
<1>6. OrphansReported'
  <2> SUFFICES ASSUME NEW f \in owing \cap vault'
               PROVE  \/ Unerased(f) \in trail'
                      \/ \E u \in Jobs : task'[u].op = "vault" /\ f \in task'[u].todo \cup task'[u].failed
                      \/ f \in forsaken'
    BY DEF OrphansReported, Unerased
  <2>1. CASE Unerased(f) \in trail \/ f \in forsaken
    BY <2>1
  <2>2. CASE \E u \in Jobs : task[u].op = "vault" /\ f \in task[u].todo \cup task[u].failed
    <3>1. PICK u \in Jobs : task[u].op = "vault" /\ f \in task[u].todo \cup task[u].failed
      BY <2>2
    <3>2. CASE u = s
      BY <1>2, <3>1, <3>2
    <3>3. CASE u # s
      BY <1>2, <3>1, <3>3
    <3> QED
      BY <3>2, <3>3
  <2> QED
    BY <2>1, <2>2 DEF RetentionInv, OrphansReported
<1> QED
  BY <1>2, <1>3, <1>4, <1>5, <1>6 DEF RetentionInv

LEMMA EraseFileKeeps ==
    ASSUME RetentionInv, NEW s \in Jobs, EraseFile(s)
    PROVE  RetentionInv'
<1>1. PICK f \in task[s].todo :
          \/ vault' = vault \ {f} /\ Record(s, [task[s] EXCEPT !.todo = @ \ {f}])
          \/ /\ vault' \subseteq vault
             /\ Record(s, [task[s] EXCEPT !.todo = @ \ {f}, !.failed = @ \cup {f}])
  BY DEF EraseFile
<1>2. task[s].op = "vault" /\ task[s] \in VaultTask /\ UNCHANGED <<kept, today, trail, owing, forsaken>>
  BY TaskKinds DEF EraseFile
<1>3. PICK t \in VaultTask :
          /\ Record(s, t) /\ vault' \subseteq vault
          /\ \A g \in (task[s].todo \cup task[s].failed) \cap vault' : g \in t.todo \cup t.failed
  <2>1. CASE vault' = vault \ {f} /\ Record(s, [task[s] EXCEPT !.todo = @ \ {f}])
    <3>1. [task[s] EXCEPT !.todo = @ \ {f}] \in VaultTask
      BY <1>2 DEF VaultTask
    <3> QED
      BY <1>2, <2>1, <3>1 DEF VaultTask
  <2>2. CASE /\ vault' \subseteq vault
             /\ Record(s, [task[s] EXCEPT !.todo = @ \ {f}, !.failed = @ \cup {f}])
    <3>1. [task[s] EXCEPT !.todo = @ \ {f}, !.failed = @ \cup {f}] \in VaultTask
      BY <1>1, <1>2 DEF VaultTask
    <3> QED
      BY <1>2, <2>2, <3>1 DEF VaultTask
  <2> QED
    BY <1>1, <2>1, <2>2
<1>4. t.op = "vault"
  BY <1>3 DEF VaultTask
<1> QED
  BY <1>2, <1>3, <1>4, VaultStepKeeps

LEMMA ReportKeeps ==
    ASSUME RetentionInv, NEW s \in Jobs, ReportFiles(s)
    PROVE  RetentionInv'
<1>1. /\ task[s].op = "vault" /\ task[s].todo = {} /\ Record(s, Resting)
      /\ UNCHANGED <<kept, today, vault, owing>>
      /\ \/ trail' = trail \cup {Unerased(f) : f \in task[s].failed} /\ UNCHANGED forsaken
         \/ forsaken' = forsaken \cup task[s].failed /\ UNCHANGED trail
  BY DEF ReportFiles
<1>2. /\ \A v \in Chats : Swept(v) \in trail' => Swept(v) \in trail
      /\ Erased("hard") \in trail' => Erased("hard") \in trail
  BY <1>1, EntriesDiffer
<1>3. \A f \in task[s].todo \cup task[s].failed : Unerased(f) \in trail' \/ f \in forsaken'
  BY <1>1
<1>4. trail \subseteq trail' /\ forsaken \subseteq forsaken'
  BY <1>1
<1> QED
  BY <1>1, <1>2, <1>3, <1>4, VaultStepKeeps

LEMMA DeathKeeps ==
    ASSUME RetentionInv, NEW s \in Jobs, JobDies(s)
    PROVE  RetentionInv'
<1>1. /\ Record(s, Resting) /\ UNCHANGED <<kept, today, trail, vault, owing>>
      /\ forsaken \subseteq forsaken'
      /\ task[s].op = "vault" => task[s].todo \cup task[s].failed \subseteq forsaken'
  BY DEF JobDies
<1> QED
  BY <1>1, VaultStepKeeps

-----------------------------------------------------------------------------
\* Jobs hold the rows they write and know the files of what they erase.
THEOREM RetentionInvariant == RetentionSpec => []RetentionInv
<1>1. RetentionInit => RetentionInv
  <2> SUFFICES ASSUME RetentionInit PROVE RetentionInv
    OBVIOUS
  <2>1. RetentionShape /\ OneHolder /\ \A s \in Jobs : Erasing(s)
    BY DEF RetentionInit, RetentionShape, OneHolder, Erasing, Resting, ErasureTask
  <2> QED
    BY <2>1 DEF RetentionInit, RetentionInv, GoneIsAudited, OrphansReported, Rows
<1>2. RetentionInv /\ [RetentionNext]_retention => RetentionInv'
  BY CalmKeeps, SweepKeeps, SweepCommitKeeps, ErasureLoadKeeps, ErasureFlushKeeps, ErasureCommitKeeps,
     EraseFileKeeps, ReportKeeps, DeathKeeps
  DEF RetentionNext
<1> QED
  BY <1>1, <1>2, PTL DEF RetentionSpec

\* A conversation is gone exactly when a committed audit entry says so
\* (compliance/engine.py:219-240, compliance/service.py:310-321), whatever jobs
\* overlap, fail or die.
THEOREM DeletionsAreAudited == RetentionSpec => []GoneIsAudited
<1>1. RetentionInv => GoneIsAudited
  BY DEF RetentionInv
<1> QED
  BY <1>1, RetentionInvariant, PTL

\* No file of an erased customer is left in the Vault without anybody working on
\* it or having reported it, unless the job died (compliance/service.py:152-155).
THEOREM FilesAreAccountedFor == RetentionSpec => []OrphansReported
<1>1. RetentionInv => OrphansReported
  BY DEF RetentionInv
<1> QED
  BY <1>1, RetentionInvariant, PTL
===============================================================================
