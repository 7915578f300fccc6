----------------------------- MODULE AI_proofs --------------------------------
(***************************************************************************)
(* What the AI's side promises of a reply: the shield and the router, the  *)
(* policies around the model, and the threshold it is measured by.         *)
(***************************************************************************)
EXTENDS Handover, AITurn, PolicyEngine, TLAPS, LeastNumber, SequenceTheorems,
        FiniteSetTheorems

(***************************************************************************)
(* The threshold in force and what the score can reach, for all replies,   *)
(* retrievals, thresholds and cache times, and any number of changes.      *)
(***************************************************************************)

ConfigRow == [stamp : Nat, threshold : Nat, key : {"none", "readable", "unreadable"}, changed : Nat]

ReplyOutcomes ==
    [step : {"none", "failed"}] \cup [step : {"generating"}, begun : Nat, clean : BOOLEAN] \cup
    [step : {"done"}, grounded : BOOLEAN, against : Nat, escalated : BOOLEAN]

HandoverShape ==
    /\ config \in ConfigRow
    /\ snapshot \in [at : Int, clean : BOOLEAN, cfg : ConfigRow]
    /\ engine \in [threshold : Nat, applied : Int]
    /\ reply \in ReplyOutcomes
    /\ tick \in Nat

\* A stamp stands for one row: of what was read and applied, none is of later
\* than now, and what carries the row's stamp agrees with it.
StampsTell ==
    /\ config.stamp = 0 => config = NoConfig
    /\ config.changed <= tick /\ snapshot.at <= tick
    /\ snapshot.cfg.stamp <= config.stamp /\ engine.applied <= config.stamp
    /\ snapshot.cfg.stamp = config.stamp => snapshot.cfg.threshold = config.threshold
    /\ engine.applied = config.stamp /\ config.threshold # 0 => engine.threshold = config.threshold
    /\ snapshot.clean /\ snapshot.at > config.changed => snapshot.cfg = config
    /\ reply.step = "generating" => reply.begun <= tick

HandoverInv == HandoverShape /\ StampsTell /\ EngineCatchesUp /\ UngroundedIsHandedOver

-----------------------------------------------------------------------------
\* The four factors of a reply, and the score of one without a document.
LEMMA FactorsAreBounded ==
    ASSUME NEW a \in Answers
    PROVE  /\ ScoreCompleteness(a) \in Int /\ ScoreCompleteness(a) <= 80
           /\ ScoreLength(a) \in Int /\ ScoreLength(a) <= 100
<1>1. a \in [empty : BOOLEAN, words : Nat, positive : Nat, negative : Nat]
  BY AnswersAssumption
<1>2. /\ Capped(10 * a.positive, 30) \in 0..30
      /\ Capped(15 * a.negative, 30) \in 0..30
  BY <1>1 DEF Capped
<1> QED
  BY <1>1, <1>2 DEF ScoreCompleteness, ScoreLength

LEMMA UngroundedScore ==
    ASSUME NEW a \in Answers
    PROVE  Score(<<>>, a) \in Int /\ Score(<<>>, a) <= 5600
<1>1. ScoreKnowledge(<<>>) = 30
  BY DEF ScoreKnowledge
<1>2. Score(<<>>, a) = 1200 + 30 * ScoreCompleteness(a) + 10 * ScoreLength(a) + 1000
  BY <1>1, FactorsAreBounded DEF Score, ModelConfidence
<1> QED
  BY <1>2, FactorsAreBounded

-----------------------------------------------------------------------------
LEMMA BeginKeeps == HandoverInv /\ BeginReply => HandoverInv'
<1> SUFFICES ASSUME HandoverInv, BeginReply PROVE HandoverInv'
  OBVIOUS
<1> DEFINE reads == {[at |-> tick, clean |-> TRUE, cfg |-> config],
                     [at |-> tick, clean |-> FALSE, cfg |-> NoConfig]}
<1>a. HandoverShape /\ NoConfig \in ConfigRow
  BY DEF HandoverInv, ConfigRow, NoConfig
<1>b. reads \subseteq [at : Int, clean : BOOLEAN, cfg : ConfigRow]
  BY <1>a DEF HandoverShape
<1>1. PICK s \in [at : Int, clean : BOOLEAN, cfg : ConfigRow] :
          /\ snapshot' = s
          /\ \/ s = snapshot /\ tick - snapshot.at < TTL
             \/ s = [at |-> tick, clean |-> TRUE, cfg |-> config]
             \/ s = [at |-> tick, clean |-> FALSE, cfg |-> NoConfig]
          /\ engine' = IF s.cfg.stamp # engine.applied THEN Apply(s.cfg) ELSE engine
          /\ reply' = IF s.cfg.stamp # engine.applied /\ s.cfg.key = "unreadable" THEN [step |-> "failed"]
                      ELSE [step |-> "generating", begun |-> tick, clean |-> s.clean]
  <2>1. PICK s \in IF tick - snapshot.at < TTL THEN {snapshot} ELSE reads :
            /\ snapshot' = s
            /\ engine' = IF s.cfg.stamp # engine.applied THEN Apply(s.cfg) ELSE engine
            /\ reply' = IF s.cfg.stamp # engine.applied /\ s.cfg.key = "unreadable" THEN [step |-> "failed"]
                        ELSE [step |-> "generating", begun |-> tick, clean |-> s.clean]
    BY DEF BeginReply
  <2>2. s \in [at : Int, clean : BOOLEAN, cfg : ConfigRow]
    BY <1>a, <1>b, <2>1 DEF HandoverShape
  <2> QED
    BY <2>1, <2>2
<1>2. UNCHANGED <<config, tick>>
  BY DEF BeginReply
<1>3. HandoverShape /\ StampsTell /\ TTL \in Nat \ {0}
  BY ThresholdsAssumption DEF HandoverInv
<1>4. engine' \in [threshold : Nat, applied : Int]
  BY <1>1, <1>3 DEF Apply, HandoverShape, ConfigRow
<1>5. HandoverShape'
  BY <1>1, <1>2, <1>3, <1>4 DEF HandoverShape, ReplyOutcomes
<1>6. s.cfg.stamp <= config.stamp /\ (s.cfg.stamp = config.stamp => s.cfg.threshold = config.threshold)
  BY <1>1, <1>3 DEF StampsTell, NoConfig, HandoverShape, ConfigRow
<1>7. /\ engine'.applied <= config.stamp
      /\ engine'.applied = config.stamp /\ config.threshold # 0 => engine'.threshold = config.threshold
  BY <1>1, <1>3, <1>6 DEF StampsTell, HandoverShape, ConfigRow, Apply
<1>8. s.clean /\ s.at > config.changed => s.cfg = config
  BY <1>1, <1>3 DEF StampsTell
<1>9. StampsTell'
  BY <1>1, <1>2, <1>3, <1>6, <1>7, <1>8 DEF StampsTell, HandoverShape
<1>10. EngineCatchesUp'
  <2> SUFFICES ASSUME reply'.step = "generating", reply'.clean, config.threshold # 0,
                      config.changed + TTL <= reply'.begun
               PROVE  engine'.threshold = config.threshold
    BY <1>2 DEF EngineCatchesUp
  <2>1. reply'.begun = tick /\ s.clean /\ ~(s.cfg.stamp # engine.applied /\ s.cfg.key = "unreadable")
    BY <1>1
  <2>2. s.at > config.changed \/ s.cfg = config
    BY <1>1, <1>3, <2>1 DEF HandoverShape, ConfigRow
  <2>3. s.cfg = config
    BY <1>8, <2>1, <2>2
  <2>4. engine'.applied = config.stamp
    BY <1>1, <2>1, <2>3 DEF Apply
  <2> QED
    BY <1>7, <2>4
<1>11. UngroundedIsHandedOver'
  BY <1>1 DEF UngroundedIsHandedOver
<1> QED
  BY <1>5, <1>9, <1>10, <1>11 DEF HandoverInv

LEMMA AssessKeeps ==
    ASSUME HandoverInv, NEW docs \in Retrievals, NEW a \in Answers, Assess(docs, a)
    PROVE  HandoverInv'
<1>1. /\ reply' = [step |-> "done", grounded |-> docs # <<>>, against |-> engine.threshold,
                   escalated |-> Score(docs, a) < 100 * engine.threshold]
      /\ UNCHANGED <<config, snapshot, engine, tick>>
  BY DEF Assess
<1>2. HandoverShape /\ StampsTell /\ engine.threshold \in Nat
  BY DEF HandoverInv, HandoverShape
<1>3. HandoverShape'
  BY <1>1, <1>2 DEF HandoverShape, ReplyOutcomes
<1>4. StampsTell' /\ EngineCatchesUp'
  BY <1>1, <1>2 DEF StampsTell, EngineCatchesUp
<1>5. UngroundedIsHandedOver'
  <2> SUFFICES ASSUME docs = <<>>, engine.threshold >= 57
               PROVE  Score(docs, a) < 100 * engine.threshold
    BY <1>1 DEF UngroundedIsHandedOver
  <2> QED
    BY <1>2, UngroundedScore
<1> QED
  BY <1>3, <1>4, <1>5 DEF HandoverInv

\* A change of the row is newer than any turn that began.
LEMMA ChangeKeeps ==
    ASSUME HandoverInv, NEW c \in ConfigRow, Change(c)
    PROVE  HandoverInv'
<1>1. /\ config' = [c EXCEPT !.stamp = config.stamp + 1, !.changed = tick]
      /\ UNCHANGED <<snapshot, engine, reply, tick>>
  BY DEF Change
<1>2. HandoverShape /\ StampsTell /\ TTL \in Nat \ {0}
  BY ThresholdsAssumption DEF HandoverInv
<1>3. config' \in ConfigRow /\ config'.stamp = config.stamp + 1 /\ config'.changed = tick
  <2>1. config.stamp + 1 \in Nat /\ tick \in Nat
    BY <1>2 DEF ConfigRow, HandoverShape
  <2> QED
    BY <1>1, <2>1 DEF ConfigRow
<1>4. HandoverShape'
  BY <1>1, <1>2, <1>3 DEF HandoverShape
<1>5. StampsTell'
  BY <1>1, <1>2, <1>3 DEF StampsTell, HandoverShape, ConfigRow
<1>6. EngineCatchesUp' /\ UngroundedIsHandedOver'
  <2>1. reply.step = "generating" => ~(config'.changed + TTL <= reply.begun)
    <3> SUFFICES ASSUME reply.step = "generating" PROVE ~(config'.changed + TTL <= reply.begun)
      OBVIOUS
    <3>1. reply.begun \in Nat /\ reply.begun <= tick
      BY <1>2 DEF HandoverShape, ReplyOutcomes, StampsTell
    <3> QED
      BY <1>2, <1>3, <3>1 DEF HandoverShape
  <2> QED
    BY <1>1, <2>1 DEF EngineCatchesUp, UngroundedIsHandedOver, HandoverInv
<1> QED
  BY <1>4, <1>5, <1>6 DEF HandoverInv

LEMMA AdministratorKeeps == HandoverInv /\ (SetThreshold \/ ConfigureModel) => HandoverInv'
<1> SUFFICES ASSUME HandoverInv, SetThreshold \/ ConfigureModel PROVE HandoverInv'
  OBVIOUS
<1>0. config \in ConfigRow
  BY DEF HandoverInv, HandoverShape
<1>1. CASE SetThreshold
  <2>1. PICK t \in Thresholds : Change([config EXCEPT !.threshold = t])
    BY <1>1 DEF SetThreshold
  <2>2. [config EXCEPT !.threshold = t] \in ConfigRow
    BY <1>0, ThresholdsAssumption DEF ConfigRow
  <2> QED
    BY <2>1, <2>2, ChangeKeeps
<1>2. CASE ConfigureModel
  <2>1. PICK k \in {config.key, "readable"} :
            Change(IF config = NoConfig THEN [config EXCEPT !.threshold = 70, !.key = k]
                                        ELSE [config EXCEPT !.key = k])
    BY <1>2 DEF ConfigureModel
  <2>2. /\ [config EXCEPT !.threshold = 70, !.key = k] \in ConfigRow
        /\ [config EXCEPT !.key = k] \in ConfigRow
    BY <1>0 DEF ConfigRow
  <2> QED
    BY <2>1, <2>2, ChangeKeeps
<1> QED
  BY <1>1, <1>2

\* The row stands through a restart, and the engine forgets its stamp.
LEMMA RestartKeeps == HandoverInv /\ Restart => HandoverInv'
<1> SUFFICES ASSUME HandoverInv, Restart PROVE HandoverInv'
  OBVIOUS
<1>1. HandoverShape /\ StampsTell /\ TTL \in Nat \ {0} /\ Default \in Nat
  BY ThresholdsAssumption DEF HandoverInv
<1>2. /\ config' \in ConfigRow /\ config'.stamp = config.stamp /\ config'.changed = config.changed
      /\ config'.threshold = config.threshold
      /\ config = NoConfig => config' = NoConfig
  BY <1>1 DEF Restart, HandoverShape, ConfigRow, NoConfig
<1>3. /\ snapshot' = [at |-> -TTL, clean |-> FALSE, cfg |-> NoConfig]
      /\ engine' = [threshold |-> Default, applied |-> -1]
      /\ reply' = [step |-> "none"] /\ tick' = tick
  BY DEF Restart, Unread
<1>4. HandoverShape'
  BY <1>1, <1>2, <1>3 DEF HandoverShape, ReplyOutcomes, NoConfig, ConfigRow
<1>5. StampsTell'
  BY <1>1, <1>2, <1>3 DEF StampsTell, HandoverShape, NoConfig, ConfigRow
<1>6. EngineCatchesUp' /\ UngroundedIsHandedOver'
  BY <1>3 DEF EngineCatchesUp, UngroundedIsHandedOver
<1> QED
  BY <1>4, <1>5, <1>6 DEF HandoverInv

\* The threshold in force and its stamps stay together for any changes and restarts.
THEOREM HandoverInvariant == HandoverSpec => []HandoverInv
<1>1. HandoverInit => HandoverInv
  <2> SUFFICES ASSUME HandoverInit PROVE HandoverInv
    OBVIOUS
  <2>1. HandoverShape
    BY ThresholdsAssumption
    DEF HandoverInit, HandoverShape, ReplyOutcomes, NoConfig, Unread, ConfigRow
  <2> QED
    BY <2>1, ThresholdsAssumption
    DEF HandoverInit, HandoverInv, StampsTell, NoConfig, Unread, EngineCatchesUp, UngroundedIsHandedOver
<1>2. HandoverInv /\ [HandoverNext]_handover => HandoverInv'
  <2> SUFFICES ASSUME HandoverInv, [HandoverNext]_handover PROVE HandoverInv'
    OBVIOUS
  <2>1. CASE Pass
    <3>1. HandoverShape /\ StampsTell /\ tick' = tick + 1 /\ UNCHANGED <<config, snapshot, engine, reply>>
      BY <2>1 DEF Pass, HandoverInv
    <3>2. HandoverShape'
      BY <3>1 DEF HandoverShape
    <3>3. (reply.step = "generating" => reply.begun \in Nat) /\ snapshot.at \in Int /\ config.changed \in Nat
      BY <3>1 DEF HandoverShape, ReplyOutcomes, ConfigRow
    <3>4. StampsTell'
      BY <3>1, <3>3 DEF StampsTell, HandoverShape
    <3> QED
      BY <3>1, <3>2, <3>4 DEF HandoverInv, EngineCatchesUp, UngroundedIsHandedOver
  <2>2. CASE UNCHANGED handover
    BY <2>2 DEF handover, HandoverInv, HandoverShape, StampsTell, EngineCatchesUp, UngroundedIsHandedOver
  <2> QED
    BY <2>1, <2>2, RestartKeeps, AdministratorKeeps, BeginKeeps, AssessKeeps DEF HandoverNext
<1> QED
  BY <1>1, <1>2, PTL DEF HandoverSpec

\* The administrator's threshold governs every turn that began once it stood for
\* the cache's time (ai/engine.py:100-102), whatever the times and the values.
THEOREM ThresholdGoverns == HandoverSpec => []EngineCatchesUp
<1>1. HandoverInv => EngineCatchesUp
  BY DEF HandoverInv
<1> QED
  BY <1>1, HandoverInvariant, PTL

\* No reply, however long or reassuring, reaches a customer without a document
\* behind it at a threshold of 0.57 or more (ai/confidence_scorer.py:102-113).
THEOREM UngroundedNeverSent == HandoverSpec => []UngroundedIsHandedOver
<1>1. HandoverInv => UngroundedIsHandedOver
  BY DEF HandoverInv
<1> QED
  BY <1>1, HandoverInvariant, PTL

(***************************************************************************)
(* The shield, for any texts, histories, permissions and settings.         *)
(***************************************************************************)

\* What the shield and the router decided for the message in the pipeline, and keep
\* until it is answered whatever the admin changes meanwhile.
TurnOf(at, t) ==
    [at |-> at, text |-> t.text, history |-> t.history, shielded |-> t.shielded, pii |-> t.pii,
     raw |-> t.raw, directive |-> t.directive, target |-> t.target]

SafelyAnalysed(t) ==
    t.at \in {"flag", "pre", "route", "generate"} /\ t.shielded /\ t.text \in Sensitive =>
        /\ t.pii
        /\ \/ t.directive = "local_model_only"
           \/ t.directive = "redacted_frontier_ok" /\ ~t.raw /\ permit

TurnInv ==
    /\ turn = TurnOf(turn.at, turn)
    /\ turn.at \in {"idle", "analyse", "flag", "pre", "route", "generate", "decide"}
    /\ SafelyAnalysed(turn)
    /\ turn.at = "generate" /\ turn.target = "frontier" => turn.directive # "local_model_only"

AIInv == TurnInv /\ ShieldHolds

LEMMA EnterStage ==
    ASSUME turn = TurnOf(turn.at, turn), NEW at, Enter(at)
    PROVE  turn' = TurnOf(at, turn)
BY DEF Enter, TurnOf

LEMMA AnalysedTurn ==
    ASSUME turn = TurnOf(turn.at, turn), NEW pii, NEW raw, NEW directive, Analysed(pii, raw, directive)
    PROVE  turn' = [at |-> "flag", text |-> turn.text, history |-> turn.history, shielded |-> shield,
                    pii |-> pii, raw |-> raw, directive |-> directive, target |-> turn.target]
<1>1. turn' = [[[[[turn EXCEPT !.at = "flag"] EXCEPT !.shielded = shield] EXCEPT !.pii = pii]
                   EXCEPT !.raw = raw] EXCEPT !.directive = directive]
  BY DEF Analysed
<1> QED
  BY <1>1 DEF TurnOf

\* A later stage of the same turn, or its end, with nothing more disclosed.
LEMMA StageKeeps ==
    ASSUME AIInv, UNCHANGED <<permit, disclosed>>, NEW at, turn' = TurnOf(at, turn),
           at = "idle" \/ at = "decide"
               \/ <<turn.at, at>> \in {<<"flag", "pre">>, <<"pre", "route">>}
    PROVE  AIInv'
<1>1. ShieldHolds'
  BY DEF AIInv, ShieldHolds
<1>2. /\ turn'.at = at /\ turn'.text = turn.text /\ turn'.shielded = turn.shielded /\ turn'.pii = turn.pii
      /\ turn'.raw = turn.raw /\ turn'.directive = turn.directive /\ turn'.target = turn.target
      /\ turn'.history = turn.history
  BY DEF TurnOf
<1>3. turn' = TurnOf(turn'.at, turn')
  BY <1>2 DEF TurnOf
<1>4. SafelyAnalysed(turn)' /\ (at = "generate" => FALSE)
  BY <1>2 DEF AIInv, TurnInv, SafelyAnalysed
<1> QED
  BY <1>1, <1>2, <1>3, <1>4 DEF AIInv, TurnInv

LEMMA AnalyseKeeps == ASSUME AIInv, Analyse PROVE AIInv'
<1>0. UNCHANGED <<permit, disclosed>> /\ turn = TurnOf(turn.at, turn)
  BY DEF Analyse, AIInv, TurnInv
<1>1. ShieldHolds'
  BY <1>0 DEF AIInv, ShieldHolds
<1> DEFINE found == shield /\ turn.text \in Sensitive
<1>2. PICK pii, raw, directive :
        /\ Analysed(pii, raw, directive)
        /\ shield /\ turn.text \in Sensitive =>
              pii /\ \/ directive = "local_model_only"
                     \/ directive = "redacted_frontier_ok" /\ ~raw /\ permit
  <2>1. CASE Analysed(found, ~found, RoutingDirective(found))
    <3>1. found => (permit /\ RoutingDirective(found) = "redacted_frontier_ok")
                     \/ RoutingDirective(found) = "local_model_only"
      BY DEF RoutingDirective
    <3> QED
      BY <2>1, <3>1
  <2>2. CASE Analysed(TRUE, TRUE, "local_model_only")
    BY <2>2
  <2> QED
    BY <2>1, <2>2 DEF Analyse
<1>3. turn' = [at |-> "flag", text |-> turn.text, history |-> turn.history, shielded |-> shield,
               pii |-> pii, raw |-> raw, directive |-> directive, target |-> turn.target]
  BY <1>0, <1>2, AnalysedTurn
<1>4. TurnInv'
  BY <1>0, <1>2, <1>3 DEF TurnInv, TurnOf, SafelyAnalysed
<1> QED
  BY <1>1, <1>4 DEF AIInv

LEMMA BeginTurnKeeps == ASSUME AIInv, BeginTurn PROVE AIInv'
<1>0. UNCHANGED <<permit, disclosed>> /\ ShieldHolds'
  BY DEF BeginTurn, AIInv, ShieldHolds
<1>1. CASE turn' = turn
  BY <1>0, <1>1 DEF AIInv, TurnInv, TurnOf, SafelyAnalysed
<1>2. CASE \E text, history :
             turn' = [NoTurn EXCEPT !.at = "analyse", !.text = text, !.history = history]
  <2>1. PICK text, history :
          turn' = [[[NoTurn EXCEPT !.at = "analyse"] EXCEPT !.text = text] EXCEPT !.history = history]
    BY <1>2
  <2>2. turn' = [at |-> "analyse", text |-> text, history |-> history, shielded |-> TRUE, pii |-> FALSE,
                 raw |-> TRUE, directive |-> "no_restriction", target |-> "local"]
    BY <2>1 DEF NoTurn
  <2>3. TurnInv'
    BY <2>2 DEF TurnInv, TurnOf, SafelyAnalysed
  <2> QED
    BY <1>0, <2>3 DEF AIInv
<1> QED
  BY <1>1, <1>2 DEF BeginTurn

\* What is disclosed of a turn is what the analysis allows.
LEMMA RouteKeeps == ASSUME AIInv, RouteAndRetrieve PROVE AIInv'
<1>0. UNCHANGED permit /\ turn.at = "route" /\ turn = TurnOf(turn.at, turn)
      /\ SafelyAnalysed(turn)
  BY DEF RouteAndRetrieve, AIInv, TurnInv
<1>1. PICK target \in Targets : turn' = [turn EXCEPT !.at = "generate", !.target = target]
  BY DEF RouteAndRetrieve
<1>2. turn' = [at |-> "generate", text |-> turn.text, history |-> turn.history, shielded |-> turn.shielded,
               pii |-> turn.pii, raw |-> turn.raw, directive |-> turn.directive, target |-> target]
  <2>1. turn' = [[turn EXCEPT !.at = "generate"] EXCEPT !.target = target]
    BY <1>1
  <2> QED
    BY <1>0, <2>1 DEF TurnOf
<1>3. target = "frontier" => turn.directive # "local_model_only"
  BY DEF Targets
<1>4. TurnInv'
  BY <1>0, <1>2, <1>3 DEF TurnInv, TurnOf, SafelyAnalysed
<1>5. ShieldHolds'
  <2> DEFINE d == Disclose("vault", turn.text, turn.raw, TRUE)
  <2>1. CASE UNCHANGED disclosed
    BY <1>0, <2>1 DEF AIInv, ShieldHolds
  <2>2. CASE /\ ~turn.pii \/ turn.directive = "redacted_frontier_ok"
             /\ disclosed' = disclosed \cup {d}
    <3>1. d.shielded /\ d.text \in Sensitive => ~d.raw /\ permit
      BY <1>0, <2>2 DEF Disclose, SafelyAnalysed
    <3> HIDE DEF d
    <3> QED
      BY <1>0, <2>2, <3>1 DEF AIInv, ShieldHolds
  <2> QED
    BY <2>1, <2>2 DEF RouteAndRetrieve, Retrieve
<1> QED
  BY <1>4, <1>5 DEF AIInv

LEMMA GenerateKeeps == ASSUME AIInv, Generate PROVE AIInv'
<1>0. UNCHANGED permit /\ turn.at = "generate" /\ turn = TurnOf(turn.at, turn)
      /\ SafelyAnalysed(turn)
  BY DEF Generate, AIInv, TurnInv
<1>1. ShieldHolds'
  <2>1. CASE UNCHANGED disclosed
    BY <1>0, <2>1 DEF AIInv, ShieldHolds
  <2>2. CASE turn.target = "frontier" /\ disclosed' = disclosed \cup Prompt
    <3>1. ASSUME NEW d \in Prompt
          PROVE  d.own /\ d.shielded /\ d.text \in Sensitive => ~d.raw /\ permit
      <4>1. CASE d = Disclose("frontier", turn.text, turn.raw, TRUE)
        BY <1>0, <2>2, <4>1 DEF Disclose, SafelyAnalysed, AIInv, TurnInv
      <4>2. CASE \E t \in turn.history : d = Disclose("frontier", t, TRUE, FALSE)
        BY <4>2 DEF Disclose
      <4> QED
        BY <4>1, <4>2 DEF Prompt
    <3> QED
      BY <1>0, <2>2, <3>1 DEF AIInv, ShieldHolds
  <2> QED
    BY <2>1, <2>2 DEF Generate
<1>2. turn' = TurnOf("decide", turn) \/ turn' = TurnOf("idle", turn)
  BY <1>0, EnterStage DEF Generate, Reply, Enter, TurnOf
<1>3. TurnInv'
  BY <1>0, <1>2 DEF TurnInv, TurnOf, SafelyAnalysed
<1> QED
  BY <1>1, <1>3 DEF AIInv

\* What the analysis decided for a turn bounds what the turn discloses.
THEOREM AIInvariant == AISpec => []AIInv
<1>1. AIInit => AIInv
  BY DEF AIInit, AIInv, TurnInv, TurnOf, NoTurn, SafelyAnalysed, ShieldHolds
<1>2. AIInv /\ [AINext]_ai => AIInv'
  <2> SUFFICES ASSUME AIInv, [AINext]_ai
               PROVE  AIInv'
    OBVIOUS
  <2>0. turn = TurnOf(turn.at, turn)
    BY DEF AIInv, TurnInv
  <2>1. CASE (\E t \in Texts : Arrive(t)) \/ (\E on \in BOOLEAN : ConfigureShield(on))
               \/ ConfigureFrontier \/ UNCHANGED ai
    <3>1. UNCHANGED <<permit, turn, disclosed>>
      BY <2>1 DEF Arrive, ConfigureShield, ConfigureFrontier, ai
    <3> QED
      BY <3>1 DEF AIInv, TurnInv, TurnOf, SafelyAnalysed, ShieldHolds
  <2>2. CASE BeginTurn
    BY BeginTurnKeeps, <2>2
  <2>3. CASE Analyse
    BY AnalyseKeeps, <2>3
  <2>4. CASE WriteBack
    BY <2>0, <2>4, EnterStage, StageKeeps DEF WriteBack
  <2>5. CASE PreCheck
    <3>1. turn' = TurnOf("route", turn) \/ turn' = TurnOf("idle", turn)
      BY <2>0, <2>5, EnterStage DEF PreCheck, Conclude, Reply, Enter
    <3> QED
      BY <2>5, <3>1, StageKeeps DEF PreCheck
  <2>6. CASE RouteAndRetrieve
    BY RouteKeeps, <2>6
  <2>7. CASE Generate
    BY GenerateKeeps, <2>7
  <2>8. CASE PromptFails \/ Decide
    <3>1. turn' = TurnOf("idle", turn) /\ UNCHANGED <<permit, disclosed>>
      BY <2>0, <2>8, EnterStage DEF PromptFails, Decide, Reply, Enter
    <3> QED
      BY <3>1, StageKeeps
  <2> QED
    BY <2>1, <2>2, <2>3, <2>4, <2>5, <2>6, <2>7, <2>8 DEF AINext
<1> QED
  BY <1>1, <1>2, PTL DEF AISpec

\* Whatever the texts, the history and the settings, a message with PII that was analysed
\* under the shield leaves redacted and with permission, or not at all.
THEOREM ShieldAlwaysHolds == AISpec => []ShieldHolds
BY AIInvariant, PTL DEF AIInv

(***************************************************************************)
(* The policy engine, for any number of policies of any priorities. Scan   *)
(* is a recursive function over the list: that it is what its equations    *)
(* say, and what it decides, follows from a shortest list for which it is  *)
(* not so.                                                                 *)
(***************************************************************************)

Scanned(list, i, f) == f = [k \in 0..i |-> IF k = 0 THEN Allow ELSE Weigh(f[k - 1], list[k])]

\* The recursion of Scan has a solution: a shortest list without one would have a
\* shorter one.
LEMMA ScanExists ==
    ASSUME NEW n \in Nat, NEW list
    PROVE  \E f : Scanned(list, n, f)
<1> DEFINE T == {i \in Nat : ~\E f : Scanned(list, i, f)}
<1> SUFFICES ASSUME T # {}
             PROVE  FALSE
  OBVIOUS
<1>1. PICK m \in T : \A k \in T : m <= k
  BY LeastNumber
<1>2. CASE m = 0
  <2> DEFINE f == [k \in 0..0 |-> Allow]
  <2>1. f = [k \in 0..0 |-> IF k = 0 THEN Allow ELSE Weigh(f[k - 1], list[k])]
    OBVIOUS
  <2> QED
    BY <1>2, <2>1 DEF Scanned
<1>3. CASE m # 0
  <2>1. m - 1 \in Nat /\ m - 1 \notin T
    BY <1>1, <1>3
  <2>2. PICK g : Scanned(list, m - 1, g)
    BY <2>1
  <2> DEFINE f == [k \in 0..m |-> IF k = m THEN Weigh(g[m - 1], list[m]) ELSE g[k]]
  <2>3. g = [k \in 0..m - 1 |-> IF k = 0 THEN Allow ELSE Weigh(g[k - 1], list[k])]
    BY <2>2 DEF Scanned
  <2>4. ASSUME NEW k \in 0..m
        PROVE  f[k] = IF k = 0 THEN Allow ELSE Weigh(f[k - 1], list[k])
    <3>1. CASE k = m
      <4>1. f[k] = Weigh(g[m - 1], list[m]) /\ f[m - 1] = g[m - 1]
        BY <1>3, <3>1
      <4> QED
        BY <1>3, <3>1, <4>1
    <3>2. CASE k # m
      <4>1. k \in 0..m - 1 /\ f[k] = g[k]
        BY <3>2
      <4>2. k # 0 => k - 1 \in 0..m /\ k - 1 # m
        BY <4>1
      <4>3. k # 0 => f[k - 1] = g[k - 1]
        BY <4>2
      <4>4. g[k] = IF k = 0 THEN Allow ELSE Weigh(g[k - 1], list[k])
        BY <2>3, <4>1
      <4> HIDE DEF f
      <4> QED
        BY <4>1, <4>3, <4>4
    <3> QED
      BY <3>1, <3>2
  <2>5. Scanned(list, m, f)
    <3>1. f = [k \in 0..m |-> f[k]]
      OBVIOUS
    <3> HIDE DEF f
    <3> QED
      BY <2>4, <3>1 DEF Scanned
  <2> QED
    BY <2>5
<1> QED
  BY <1>2, <1>3

LEMMA ScanIs ==
    ASSUME NEW list, Len(list) \in Nat
    PROVE  \E f : Scanned(list, Len(list), f) /\ Scan(list) = f[Len(list)]
<1> DEFINE f == CHOOSE g : Scanned(list, Len(list), g)
<1>1. Scanned(list, Len(list), f)
  BY ScanExists
<1>2. Scan(list) = f[Len(list)]
  BY DEF Scan, Scanned
<1> QED
  BY <1>1, <1>2

\* What the scan has decided after i policies: the first block among them, or without a
\* block the first decisive one.
FirstOf(list, actions, b) ==
    list[b].action \in actions /\ \A j \in 1..b - 1 : list[j].action \notin actions

Decision(p) == IF p.action = "escalate" THEN "escalate" ELSE "redirect"

Blocked(list, i, v) ==
    \E b \in 1..i : FirstOf(list, {"block"}, b) /\ v = Verdict("block", list[b])

Settled(list, i, v) ==
    /\ \A j \in 1..i : list[j].action # "block"
    /\ \E b \in 1..i : FirstOf(list, Decisive, b) /\ v = Verdict(Decision(list[b]), list[b])

Undecided(list, i, v) == v = Allow /\ \A j \in 1..i : list[j].action \notin Decisive

Decided(list, i, v) == Blocked(list, i, v) \/ Settled(list, i, v) \/ Undecided(list, i, v)

LEMMA WeighDecides ==
    ASSUME NEW i \in Nat, NEW list, NEW v, Decided(list, i, v)
    PROVE  Decided(list, i + 1, Weigh(v, list[i + 1]))
<1> DEFINE n == i + 1
           p == list[n]
<1>0. n \in 1..n /\ 1..n - 1 = 1..i /\ 1..n = 1..i \cup {n}
  OBVIOUS
<1> HIDE DEF n
<1>1. CASE Blocked(list, i, v)
  <2>1. PICK b \in 1..i : FirstOf(list, {"block"}, b) /\ v = Verdict("block", list[b])
    BY <1>1 DEF Blocked
  <2>2. Weigh(v, p) = v
    BY <2>1 DEF Weigh, Verdict
  <2>3. Blocked(list, n, v)
    BY <1>0, <2>1 DEF Blocked
  <2> QED
    BY <2>2, <2>3 DEF Decided, n
<1>2. CASE ~Blocked(list, i, v) /\ p.action = "block"
  <2>1. \A j \in 1..i : list[j].action # "block"
    BY <1>2 DEF Decided, Settled, Undecided, Decisive
  <2>2. FirstOf(list, {"block"}, n)
    BY <1>0, <1>2, <2>1 DEF FirstOf
  <2>3. v.decision # "block"
    BY <1>2 DEF Decided, Settled, Undecided, Verdict, Decision, Allow
  <2>4. Weigh(v, p) = Verdict("block", p)
    BY <1>2, <2>3 DEF Weigh
  <2>5. Blocked(list, n, Weigh(v, p))
    BY <1>0, <2>2, <2>4 DEF Blocked
  <2> QED
    BY <2>5 DEF Decided, n
<1>3. CASE Settled(list, i, v) /\ p.action # "block"
  <2>1. PICK b \in 1..i : FirstOf(list, Decisive, b) /\ v = Verdict(Decision(list[b]), list[b])
    BY <1>3 DEF Settled
  <2>2. v.decision \in {"escalate", "redirect"}
    BY <2>1 DEF Verdict, Decision
  <2>3. Weigh(v, p) = v
    BY <1>3, <2>2 DEF Weigh
  <2>4. Settled(list, n, v)
    BY <1>0, <1>3, <2>1 DEF Settled
  <2> QED
    BY <2>3, <2>4 DEF Decided, n
<1>4. CASE Undecided(list, i, v) /\ p.action # "block"
  <2>1. v.decision = "allow" /\ v = Allow
    BY <1>4 DEF Undecided, Allow
  <2>2. CASE p.action \in Decisive
    <3>1. Weigh(v, p) = Verdict(Decision(p), p)
      BY <1>4, <2>1, <2>2 DEF Weigh, Decision, Decisive
    <3>2. FirstOf(list, Decisive, n)
      BY <1>0, <1>4, <2>2 DEF FirstOf, Undecided
    <3>3. \A j \in 1..n : list[j].action # "block"
      BY <1>0, <1>4 DEF Undecided, Decisive
    <3>4. Settled(list, n, Weigh(v, p))
      BY <1>0, <3>1, <3>2, <3>3 DEF Settled
    <3> QED
      BY <3>4 DEF Decided, n
  <2>3. CASE p.action \notin Decisive
    <3>1. Weigh(v, p) = v
      BY <1>4, <2>1, <2>3 DEF Weigh, Decisive
    <3>2. Undecided(list, n, v)
      BY <1>0, <1>4, <2>3 DEF Undecided
    <3> QED
      BY <3>1, <3>2 DEF Decided, n
  <2> QED
    BY <2>2, <2>3
<1> QED
  BY <1>1, <1>2, <1>3, <1>4 DEF Decided

\* For a list of any length.
LEMMA ScanDecides ==
    ASSUME NEW list, Len(list) \in Nat
    PROVE  Decided(list, Len(list), Scan(list))
<1> DEFINE n == Len(list)
<1>1. PICK f : Scanned(list, n, f) /\ Scan(list) = f[n]
  BY ScanIs
<1>2. \A k \in 0..n : f[k] = IF k = 0 THEN Allow ELSE Weigh(f[k - 1], list[k])
  BY <1>1 DEF Scanned
<1> DEFINE T == {i \in 0..n : ~Decided(list, i, f[i])}
<1>3. T # {} => FALSE
  <2> SUFFICES ASSUME T # {}
               PROVE  FALSE
    OBVIOUS
  <2>1. PICK m \in T : \A k \in T : m <= k
    <3>1. T \in SUBSET Nat
      OBVIOUS
    <3> HIDE DEF T
    <3> QED
      BY <3>1, LeastNumber
  <2>2. m # 0
    <3>1. Undecided(list, 0, Allow)
      BY DEF Undecided
    <3>2. f[0] = Allow
      BY <1>2
    <3> QED
      BY <2>1, <3>1, <3>2 DEF Decided
  <2>3. m \in 0..n /\ m - 1 \in 0..n /\ m - 1 \in Nat /\ m - 1 \notin T /\ (m - 1) + 1 = m
    BY <2>1, <2>2
  <2>4. Decided(list, m - 1, f[m - 1])
    BY <2>3
  <2>5. f[m] = Weigh(f[m - 1], list[m])
    BY <1>2, <2>2, <2>3
  <2>6. Decided(list, (m - 1) + 1, Weigh(f[m - 1], list[(m - 1) + 1]))
    <3> HIDE DEF T
    <3> QED
      BY <2>3, <2>4, WeighDecides
  <2> QED
    BY <2>3, <2>5, <2>6
<1>4. n \in 0..n
  OBVIOUS
<1> QED
  BY <1>1, <1>3, <1>4

-----------------------------------------------------------------------------
\* What a verdict says of the policies listed.
Rivals(ps) ==
    IF \E p \in ps : p.action = "block" THEN {p \in ps : p.action = "block"}
    ELSE {p \in ps : p.action \in Decisive}

LEMMA ListingLength ==
    ASSUME NEW ps, IsFiniteSet(ps), NEW list \in Listings(ps)
    PROVE  Len(list) \in Nat /\ DOMAIN list = 1..Len(list) /\ \A i \in 1..Len(list) : list[i] \in ps
<1>1. Cardinality(ps) \in Nat
  BY FS_CardinalityType
<1>2. list \in [1..Cardinality(ps) -> ps]
  BY DEF Listings
<1>3. list \in Seq(ps)
  BY <1>1, <1>2, SeqDef
<1> QED
  BY <1>3

LEMMA VerdictOfRivals ==
    ASSUME NEW ps \in SUBSET Policy, IsFiniteSet(ps), NEW list \in Listings(ps)
    PROVE  LET v == Scan(list) IN
           \/ v = Allow /\ \A p \in ps : p.action \notin Decisive
           \/ /\ v.by \in Rivals(ps) /\ \A p \in Rivals(ps) : v.by.priority <= p.priority
              /\ v.decision \in {"block", "redirect", "escalate"}
              /\ v.decision = "escalate" <=> v.by.action = "escalate"
<1> DEFINE n == Len(list)
           v == Scan(list)
<1>1. n \in Nat /\ DOMAIN list = 1..n /\ \A i \in 1..n : list[i] \in ps
  BY ListingLength
<1>2. /\ \A p \in ps : \E i \in 1..n : list[i] = p
      /\ \A i, j \in 1..n : i < j => list[i].priority <= list[j].priority
  BY <1>1 DEF Listings
<1>3. Decided(list, n, v)
  BY <1>1, ScanDecides
<1> HIDE DEF n, v
<1>4. \A p \in ps : p.priority \in Nat
  BY DEF Policy
\* Whatever follows the first of its kind has at most its priority.
<1>5. ASSUME NEW actions, NEW b \in 1..n, FirstOf(list, actions, b), NEW p \in ps, p.action \in actions
      PROVE  list[b].priority <= p.priority
  <2>1. PICK i \in 1..n : list[i] = p
    BY <1>2
  <2>2. i >= b
    BY <1>1, <1>5, <2>1 DEF FirstOf
  <2>3. i = b \/ b < i
    BY <1>1, <2>2
  <2> QED
    BY <1>1, <1>2, <1>4, <2>1, <2>3
<1>6. CASE Blocked(list, n, v)
  <2>1. PICK b \in 1..n : FirstOf(list, {"block"}, b) /\ v = Verdict("block", list[b])
    BY <1>6 DEF Blocked
  <2>2. v.by = list[b] /\ v.decision = "block" /\ list[b] \in ps /\ list[b].action = "block"
    BY <1>1, <2>1 DEF Verdict, FirstOf
  <2>3. Rivals(ps) = {p \in ps : p.action = "block"}
    BY <2>2 DEF Rivals
  <2> QED
    BY <1>5, <2>1, <2>2, <2>3 DEF v
<1>7. CASE Settled(list, n, v)
  <2>1. PICK b \in 1..n : FirstOf(list, Decisive, b) /\ v = Verdict(Decision(list[b]), list[b])
    BY <1>7 DEF Settled
  <2>2. v.by = list[b] /\ v.decision = Decision(list[b]) /\ list[b] \in ps /\ list[b].action \in Decisive
    BY <1>1, <2>1 DEF Verdict, FirstOf
  <2>3. \A p \in ps : p.action # "block"
    BY <1>2, <1>7 DEF Settled
  <2>4. Rivals(ps) = {p \in ps : p.action \in Decisive}
    BY <2>3 DEF Rivals
  <2>5. v.decision \in {"redirect", "escalate"} /\ (v.decision = "escalate" <=> v.by.action = "escalate")
    BY <2>2 DEF Decision
  <2> QED
    BY <1>5, <2>1, <2>2, <2>4, <2>5 DEF v
<1>8. CASE Undecided(list, n, v)
  BY <1>2, <1>8 DEF Undecided, v
<1> QED
  BY <1>3, <1>6, <1>7, <1>8 DEF Decided

\* An answer under way, or given, has no decisive policy against it; a verdict names one.
PolicyShape ==
    /\ table \subseteq Catalog /\ active \subseteq table
    /\ answer = [at |-> answer.at, before |-> answer.before, after |-> answer.after,
                 by |-> answer.by, appended |-> answer.appended]

PolicyInv ==
    /\ PolicyShape
    /\ answer.at \in {"generating", "answered", "withheld"} => answer.by = NoPolicy /\ Matched(Decisive) = {}
    /\ GuardsGuard /\ HighestDecides

AnswerOf(at, before, after, by, appended) ==
    [at |-> at, before |-> before, after |-> after, by |-> by, appended |-> appended]

LEMMA PreHookKeeps == ASSUME PolicyInv, PreHook PROVE PolicyInv'
<1> DEFINE Taken(ps, list) ==
             answer' = [Waiting EXCEPT
                !.at = CASE Scan(list).decision \in {"block", "redirect"} -> "canned"
                         [] Scan(list).decision = "escalate" -> "escalated"
                         [] OTHER -> "generating",
                !.before = ps, !.by = Scan(list).by]
<1>a. PICK ps \in SUBSET Applicable("pre") : \E list \in Listings(ps) : Taken(ps, list)
  BY DEF PreHook
<1>1. PICK list \in Listings(ps) : Taken(ps, list)
  BY <1>a
<1> DEFINE v == Scan(list)
           at == CASE v.decision \in {"block", "redirect"} -> "canned"
                   [] v.decision = "escalate" -> "escalated"
                   [] OTHER -> "generating"
           by == v.by
<1>2. ps \subseteq Catalog /\ ps \in SUBSET Policy /\ IsFiniteSet(ps) /\ NoPolicy \notin ps
  <2>1. ps \subseteq Catalog
    BY DEF Applicable, PolicyInv, PolicyShape
  <2> QED
    BY <2>1, CatalogAssumption, NoPolicyAssumption, FS_Subset DEF CatalogAssumption, NoPolicyAssumption
<1>3. \/ v = Allow /\ \A p \in ps : p.action \notin Decisive
      \/ /\ v.by \in Rivals(ps) /\ \A p \in Rivals(ps) : v.by.priority <= p.priority
         /\ v.decision \in {"block", "redirect", "escalate"}
         /\ v.decision = "escalate" <=> v.by.action = "escalate"
  BY <1>2, VerdictOfRivals
<1> HIDE DEF v
<1>4. \/ at = "generating" /\ by = NoPolicy /\ \A p \in ps : p.action \notin Decisive
      \/ /\ at \in {"canned", "escalated"} /\ by \in Rivals(ps) /\ \A p \in Rivals(ps) : by.priority <= p.priority
         /\ at = "escalated" <=> by.action = "escalate"
  BY <1>3 DEF Allow
<1>5. answer' = [Waiting EXCEPT !.at = at, !.before = ps, !.by = by]
  BY <1>1 DEF v
<1> HIDE DEF at, by
<1>6. answer' = AnswerOf(at, ps, {}, by, {})
  <2>1. answer' = [[[Waiting EXCEPT !.at = at] EXCEPT !.before = ps] EXCEPT !.by = by]
    BY <1>5
  <2> QED
    BY <2>1 DEF Waiting, AnswerOf
<1>7. PolicyShape'
  BY <1>6 DEF PreHook, PolicyInv, PolicyShape, AnswerOf
<1>8. answer'.at = at /\ answer'.before = ps /\ answer'.by = by
  BY <1>6 DEF AnswerOf
<1>9. Matched(Decisive)' = {p \in ps : p.action \in Decisive}
      /\ Matched({"block"})' = {p \in ps : p.action = "block"}
  BY <1>8 DEF Matched
<1>10. GuardsGuard'
  BY <1>4, <1>8 DEF GuardsGuard
<1>11. HighestDecides'
  <2>1. CASE by = NoPolicy
    BY <1>8, <2>1 DEF HighestDecides
  <2>2. CASE by # NoPolicy
    <3>1. (IF Matched({"block"})' # {} THEN Matched({"block"})' ELSE Matched(Decisive)') = Rivals(ps)
      BY <1>9 DEF Rivals
    <3> QED
      BY <1>4, <1>8, <2>2, <3>1 DEF HighestDecides
  <2> QED
    BY <2>1, <2>2
<1> QED
  BY <1>4, <1>7, <1>8, <1>9, <1>10, <1>11 DEF PolicyInv

LEMMA PostHookKeeps == ASSUME PolicyInv, PostHook PROVE PolicyInv'
<1>1. PICK ps \in SUBSET Applicable("post") :
        answer' = IF \E p \in ps : Severe(p)
                  THEN [answer EXCEPT !.at = "withheld", !.after = ps]
                  ELSE [answer EXCEPT !.at = "answered", !.after = ps, !.appended = Disclaimers(ps)]
  BY DEF PostHook
<1>0. /\ UNCHANGED <<table, active>> /\ answer.at = "generating" /\ answer.by = NoPolicy
      /\ answer = AnswerOf(answer.at, answer.before, answer.after, answer.by, answer.appended)
      /\ Matched(Decisive) = {}
  BY DEF PostHook, PolicyInv, PolicyShape, AnswerOf
<1>2. CASE \E p \in ps : Severe(p)
  <2>1. answer' = [[answer EXCEPT !.at = "withheld"] EXCEPT !.after = ps]
    BY <1>1, <1>2
  <2>2. answer' = AnswerOf("withheld", answer.before, ps, answer.by, answer.appended)
    BY <1>0, <2>1 DEF AnswerOf
  <2> QED
    BY <1>0, <2>2 DEF AnswerOf, PolicyInv, PolicyShape, GuardsGuard, HighestDecides, Matched
<1>3. CASE ~\E p \in ps : Severe(p)
  <2> DEFINE texts == Disclaimers(ps)
  <2>1. answer' = [[[answer EXCEPT !.at = "answered"] EXCEPT !.after = ps] EXCEPT !.appended = texts]
    BY <1>1, <1>3
  <2>2. answer' = AnswerOf("answered", answer.before, ps, answer.by, texts)
    <3> HIDE DEF texts
    <3> QED
      BY <1>0, <2>1 DEF AnswerOf
  <2>3. answer'.at = "answered" /\ answer'.before = answer.before /\ answer'.after = ps
        /\ answer'.by = NoPolicy /\ answer'.appended = texts
    BY <1>0, <2>2 DEF AnswerOf
  <2>4. PolicyShape'
    BY <1>0, <2>2 DEF PolicyInv, PolicyShape, AnswerOf
  <2>5. Matched(Decisive)' = {}
    BY <1>0, <2>3 DEF Matched
  <2>6. GuardsGuard'
    BY <1>3, <2>3, <2>5 DEF GuardsGuard, Severe, Disclaimers
  <2>7. HighestDecides'
    BY <2>3 DEF HighestDecides
  <2> QED
    BY <2>3, <2>4, <2>5, <2>6, <2>7 DEF PolicyInv
<1> QED
  BY <1>2, <1>3

\* What a turn recorded of the policies agrees with the policies.
THEOREM PolicyInvariant == PolicySpec => []PolicyInv
<1>0. Waiting = AnswerOf("waiting", {}, {}, NoPolicy, {})
  BY DEF Waiting, AnswerOf
<1>1. PolicyInit => PolicyInv
  BY <1>0 DEF PolicyInit, PolicyInv, PolicyShape, AnswerOf, GuardsGuard, HighestDecides
<1>2. PolicyInv /\ [PolicyNext]_guard => PolicyInv'
  <2> SUFFICES ASSUME PolicyInv, [PolicyNext]_guard
               PROVE  PolicyInv'
    OBVIOUS
  <2>1. ASSUME NEW p \in Catalog, Create(p) \/ \E on \in BOOLEAN : SetActive(p, on)
        PROVE  PolicyInv'
    BY <2>1 DEF Create, SetActive, PolicyInv, PolicyShape, GuardsGuard, HighestDecides, Matched
  <2>2. CASE PreHook
    BY PreHookKeeps, <2>2
  <2>3. CASE PostHook
    BY PostHookKeeps, <2>3
  <2>4. CASE GenerationFails
    BY <1>0, <2>4 DEF GenerationFails, PolicyInv, PolicyShape, AnswerOf, GuardsGuard, HighestDecides
  <2>5. CASE UNCHANGED guard
    BY <2>5 DEF guard, PolicyInv, PolicyShape, GuardsGuard, HighestDecides, Matched
  <2> QED
    BY <2>1, <2>2, <2>3, <2>4, <2>5 DEF PolicyNext
<1> QED
  BY <1>1, <1>2, PTL DEF PolicySpec

\* For any policies, an answer of the model reaches the customer only past every policy
\* its message and it trigger, and with all their disclaimers.
THEOREM PoliciesGuard == PolicySpec => []GuardsGuard
BY PolicyInvariant, PTL DEF PolicyInv

\* For any number of policies of any priorities, the one that decides is a block of the
\* highest priority blocks have, or without a block one of the highest of all decisive.
THEOREM HighestPriorityDecides == PolicySpec => []HighestDecides
BY PolicyInvariant, PTL DEF PolicyInv
===============================================================================
