------------------------------- MODULE Handover -------------------------------
(***************************************************************************)
(* When the AI hands a conversation to a human: the confidence score of a  *)
(* generated reply (ai/confidence_scorer.py) against the threshold that    *)
(* the engine takes over from the administrator's row                      *)
(* (ai/engine.py, _refresh_runtime_config) with a cache of one minute.     *)
(* Scores are in hundredths and exact; the worker runs one turn at a time. *)
(***************************************************************************)
EXTENDS Integers, Sequences, FiniteSetsExt, SequencesExt

CONSTANTS Retrievals,   \* scores of the documents a retrieval returns, best first
          Answers,      \* generated replies, whose text may be empty or blank
          Thresholds,   \* what administrators set
          Default,      \* settings.confidence_threshold
          TTL,
          MaxTick, MaxChanges  \* bounds: time, changes of the row

\* Of a reply: its words, and its phrases of assurance and of doubt.
ASSUME AnswersAssumption == Answers \subseteq [empty : BOOLEAN, words : Nat, positive : Nat, negative : Nat]
ASSUME ThresholdsAssumption == Thresholds \subseteq Nat /\ Default \in Nat /\ TTL \in Nat \ {0}

VARIABLES config,   \* the AIConfiguration row; stamp 0: none
          snapshot, \* the engine's cached reading of it
          engine,   \* the threshold it applies, the stamp it applied last
          reply,    \* the turn in progress, or the last one's outcome
          tick

handover == <<config, snapshot, engine, reply, tick>>

NoConfig == [stamp |-> 0, threshold |-> 0, key |-> "none", changed |-> 0]
Unread == [at |-> -TTL, clean |-> FALSE, cfg |-> NoConfig]

HandoverInit ==
    /\ config = NoConfig
    /\ snapshot = Unread
    /\ engine = [threshold |-> Default, applied |-> -1]
    /\ reply = [step |-> "none"] /\ tick = 0

Pass == tick < MaxTick /\ tick' = tick + 1 /\ UNCHANGED <<config, snapshot, engine, reply>>

\* The process restarts, perhaps with another SECRET_KEY: the API key in the row
\* was encrypted under the old one.
Restart ==
    /\ config' \in {config, [config EXCEPT !.key = IF @ = "none" THEN @ ELSE "unreadable"]}
    /\ snapshot' = Unread
    /\ engine' = [threshold |-> Default, applied |-> -1]
    /\ reply' = [step |-> "none"]
    /\ UNCHANGED tick

-----------------------------------------------------------------------------
Change(c) ==
    /\ config.stamp < MaxChanges
    /\ config' = [c EXCEPT !.stamp = config.stamp + 1, !.changed = tick]
    /\ UNCHANGED <<snapshot, engine, reply, tick>>

\* PUT /config/ai; 0 is a legal threshold.
SetThreshold ==
    /\ config # NoConfig
    /\ \E t \in Thresholds \ {config.threshold} : Change([config EXCEPT !.threshold = t])

\* POST /setup/ai-model creates the row with the column's default, and a new key
\* replaces the old one.
ConfigureModel ==
    \E k \in {config.key, "readable"} :
        Change(IF config = NoConfig THEN [config EXCEPT !.threshold = 70, !.key = k]
                                    ELSE [config EXCEPT !.key = k])

-----------------------------------------------------------------------------
Apply_StampFirst(c) ==
    IF c.key = "unreadable" THEN [engine EXCEPT !.applied = c.stamp]
    ELSE [threshold |-> IF c.threshold = 0 THEN engine.threshold ELSE c.threshold, applied |-> c.stamp]

\* What a row that is new to the engine changes: a threshold of 0 counts as
\* unset, and a key that cannot be decrypted raises before the stamp is noted.
Apply(c) ==
    IF c.key = "unreadable" THEN engine
    ELSE [threshold |-> IF c.threshold = 0 THEN engine.threshold ELSE c.threshold, applied |-> c.stamp]

\* _refresh_runtime_config, outside the turn's try block: what it raises ends the
\* turn, and the event goes to the dead letters. A failed read is cached as
\* an empty stamp.
BeginReply ==
    LET old == tick - snapshot.at < TTL
        read == {[at |-> tick, clean |-> TRUE, cfg |-> config],
                 [at |-> tick, clean |-> FALSE, cfg |-> NoConfig]}
    IN /\ reply.step # "generating"
       /\ \E s \in IF old THEN {snapshot} ELSE read :
             LET new == s.cfg.stamp # engine.applied
             IN /\ snapshot' = s
                /\ engine' = IF new THEN Apply(s.cfg) ELSE engine
                /\ reply' = IF new /\ s.cfg.key = "unreadable" THEN [step |-> "failed"]
                            ELSE [step |-> "generating", begun |-> tick, clean |-> s.clean]
       /\ UNCHANGED <<config, tick>>

-----------------------------------------------------------------------------
Capped(x, most) == IF x > most THEN most ELSE x

ScoreKnowledge_Generous(docs) == IF docs = <<>> THEN 60 ELSE 100

\* Relative to the best hit; the mean is rounded down to a hundredth.
ScoreKnowledge(docs) ==
    LET best == Max(Range(docs))
        total == FoldLeft(LAMBDA x, y : x + y, 0, docs)
    IN IF docs = <<>> THEN 30
       ELSE IF best <= 0 THEN 0 ELSE Capped((100 * total) \div (Len(docs) * best), 100)

ScoreCompleteness(a) ==
    IF a.empty THEN 0 ELSE 50 + Capped(10 * a.positive, 30) - Capped(15 * a.negative, 30)

ScoreLength(a) ==
    IF a.empty THEN 0
    ELSE IF a.words < 10 THEN 30
    ELSE IF a.words > 200 THEN 50
    ELSE IF a.words \in 20..100 THEN 100 ELSE 70

\* No provider reports a confidence of its own.
ModelConfidence == 50

Score(docs, a) ==
    40 * ScoreKnowledge(docs) + 30 * ScoreCompleteness(a) + 10 * ScoreLength(a) + 20 * ModelConfidence

\* Retrieval, which returns nothing when it fails, generation and the decision.
Assess(docs, a) ==
    /\ reply.step = "generating"
    /\ reply' = [step |-> "done", grounded |-> docs # <<>>, against |-> engine.threshold,
                 escalated |-> Score(docs, a) < 100 * engine.threshold]
    /\ UNCHANGED <<config, snapshot, engine, tick>>

HandoverNext ==
    \/ Pass \/ Restart \/ SetThreshold \/ ConfigureModel \/ BeginReply
    \/ \E docs \in Retrievals, a \in Answers : Assess(docs, a)

HandoverSpec == HandoverInit /\ [][HandoverNext]_handover

-----------------------------------------------------------------------------
\* The threshold in force: a row that stood for the cache's whole minute governs
\* every turn that reads it (ai/engine.py:100-102), whatever failed, was cached
\* or could not be applied before, unless it is 0.
EngineCatchesUp ==
    /\ reply.step = "generating" /\ reply.clean
    /\ config # NoConfig /\ config.threshold # 0 /\ config.changed + TTL <= reply.begun
    => engine.threshold = config.threshold

\* At the default threshold (config.py:184-186) a reply that nothing from the
\* knowledge base supports never reaches the customer, however well it reads:
\* the four factors cannot make up for the missing one
\* (ai/confidence_scorer.py:117-128).
UngroundedIsHandedOver ==
    reply.step = "done" /\ ~reply.grounded /\ reply.against >= 57 => reply.escalated
=============================================================================
