------------------------------ MODULE AuditChain ------------------------------
(***************************************************************************)
(* The hash-chained audit log (compliance/engine.py): writers read the     *)
(* latest visible entry and append one that carries its hash, in database  *)
(* sessions that see each other's commits only; somebody may tamper with   *)
(* the table. SHA-256 is taken as injective: an entry's id, its place in   *)
(* timestamp order, stands for its hash.                                   *)
(***************************************************************************)
EXTENDS Naturals, FiniteSets

CONSTANTS Writers,     \* database sessions that log
          MaxEntries,  \* bound: entries ever stamped
          MaxTampering \* bound: rows removed or altered behind the code's back

VARIABLES log,      \* committed entries [id, prev, intact]
          writer,   \* writer[w]: its session
          clock,    \* datetime.now(): stamps differ and increase
          forked,   \* history: an entry was appended behind a newer one
          tampered  \* rows removed or altered so far

audit == <<log, writer, clock, forked, tampered>>

Genesis == 0
Closed == [step |-> "closed", prev |-> Genesis, own |-> {}]

AuditInit ==
    /\ log = {}
    /\ writer = [w \in Writers |-> Closed]
    /\ clock = 0 /\ forked = FALSE /\ tampered = 0

Newest(entries) ==
    IF entries = {} THEN Genesis
    ELSE (CHOOSE e \in entries : \A f \in entries : f.id <= e.id).id

-----------------------------------------------------------------------------
Visible_Everyone(w) == log \cup UNION {writer[v].own : v \in Writers}

\* What a session's SELECT sees: every commit, and its own flushed entries.
Visible(w) == log \cup writer[w].own

ReadLatest_Oldest(w) ==
    /\ writer[w].step \in {"closed", "open"}
    /\ writer' = [writer EXCEPT ![w].step = "reading",
                                ![w].prev = IF Visible(w) = {} THEN Genesis ELSE 1]
    /\ UNCHANGED <<log, clock, forked, tampered>>

\* log_audit_event: the entry to chain to ...
ReadLatest(w) ==
    /\ writer[w].step \in {"closed", "open"}
    /\ writer' = [writer EXCEPT ![w].step = "reading", ![w].prev = Newest(Visible(w))]
    /\ UNCHANGED <<log, clock, forked, tampered>>

\* ... and the new entry, stamped and flushed in one go.
AppendEntry(w) ==
    /\ writer[w].step = "reading" /\ clock < MaxEntries
    /\ clock' = clock + 1
    /\ writer' = [writer EXCEPT ![w].step = "open",
                     ![w].own = @ \cup {[id |-> clock + 1, prev |-> writer[w].prev, intact |-> TRUE]}]
    /\ UNCHANGED <<log, forked, tampered>>

\* The caller's commit: of an erasure, an export, a retention run, a rejection.
CommitLog(w) ==
    /\ writer[w].step = "open"
    /\ log' = log \cup writer[w].own
    /\ forked' = (forked \/ \E e \in writer[w].own : \E f \in log : f.id > e.prev)
    /\ writer' = [writer EXCEPT ![w] = Closed]
    /\ UNCHANGED <<clock, tampered>>

RollbackLog(w) ==
    /\ writer[w].step # "closed"
    /\ writer' = [writer EXCEPT ![w] = Closed]
    /\ UNCHANGED <<log, clock, forked, tampered>>

\* Somebody edits the table by hand.
Tamper ==
    /\ tampered < MaxTampering
    /\ tampered' = tampered + 1
    /\ \E e \in log : log' = log \ {e} \/ log' = (log \ {e}) \cup {[e EXCEPT !.intact = FALSE]}
    /\ UNCHANGED <<writer, clock, forked>>

AuditNext ==
    \/ \E w \in Writers : ReadLatest(w) \/ AppendEntry(w) \/ CommitLog(w) \/ RollbackLog(w)
    \/ Tamper

AuditSpec == AuditInit /\ [][AuditNext]_audit

-----------------------------------------------------------------------------
Before(e) == {f \in log : f.id < e.id}

Verified_SkipsFirst == \A e \in log : e.intact /\ (Before(e) # {} => e.prev = Newest(Before(e)))

\* verify_audit_chain: every entry is intact and carries its predecessor's hash.
Verified == \A e \in log : e.intact /\ e.prev = Newest(Before(e))

\* However sessions interleave and roll back, an entry chains to one that was
\* committed, never to one that was not (compliance/engine.py:69-73).
NoDanglingLink ==
    tampered = 0 =>
        \A e \in log : e.prev < e.id /\ (e.prev = Genesis \/ \E f \in log : f.id = e.prev)

\* A log nobody touched verifies, as long as no two sessions forked it
\* (compliance/engine.py:144-198).
UntouchedVerifies == tampered = 0 /\ ~forked => Verified

\* "tamper-evident hash-chained logs" (README.md:499): altering an entry, or
\* removing one behind the newest, makes a log that verified fail for good.
TamperingShows ==
    [][tampered' # tampered /\ Verified /\ Newest(log') = Newest(log) => ~Verified']_audit
=============================================================================
