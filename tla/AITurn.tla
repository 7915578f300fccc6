------------------------------- MODULE AITurn -------------------------------
(***************************************************************************)
(* One turn of the AI engine after another (ai/engine.py), for one         *)
(* conversation: what of the customers' words reaches the frontier model   *)
(* and the Vault, past the PII shield, the model router and the policies,  *)
(* while messages arrive and an admin changes the settings.                *)
(*                                                                         *)
(* A text is a customer message; the shield finds PII in those of          *)
(* Sensitive. Policies, complexity, confidence and failures are            *)
(* nondeterministic outcomes of their step.                                *)
(***************************************************************************)
EXTENDS Naturals, Sequences, SequencesExt

CONSTANTS Texts,
          Sensitive,        \* texts with PII
          NoText,
          ContextMessages,  \* max_context_messages of the prompt builder
          FrontierEnabled,  \* settings.frontier_enabled
          Permissions,      \* values of settings.pii_frontier_allowed_with_redaction
          ShieldSettings    \* values the admin may give pii_shield_enabled

ASSUME SensitiveAssumption == Sensitive \subseteq Texts
ASSUME NoTextAssumption == NoText \notin Texts

VARIABLES transcript, \* the conversation's messages [by, tells], oldest first
          backlog,    \* routed texts the worker has not taken
          flagged,    \* flagged[t]: pii_detected of the stored message
          shield,     \* the override of pii_shield_enabled
          permit,     \* the shield's allow_frontier_with_redaction: the setting it
                      \* was built with (the override of PUT /config/pii is not read)
          savedKey,   \* an AIConfiguration row with a frontier key exists
          frontier,   \* the engine has a frontier provider
          turn,       \* the message in the pipeline, and what its stages decided
          disclosed   \* what left the infrastructure, or went to the Vault: which
                      \* text, raw or redacted, of this turn or of the history

ai == <<transcript, backlog, flagged, shield, permit, savedKey, frontier, turn, disclosed>>

NoTurn == [at |-> "idle", text |-> NoText, history |-> {}, shielded |-> TRUE, pii |-> FALSE,
           raw |-> TRUE, directive |-> "no_restriction", target |-> "local"]

AIInit ==
    /\ transcript = <<>> /\ backlog = <<>>
    /\ flagged = [t \in Texts |-> "unknown"]
    /\ shield = TRUE
    /\ permit \in Permissions
    /\ savedKey = FALSE
    /\ frontier \in {FALSE, FrontierEnabled}
    /\ turn = NoTurn
    /\ disclosed = {}

-----------------------------------------------------------------------------
\* The router stores a message and publishes its event.
Arrive(t) ==
    /\ \A i \in DOMAIN transcript : transcript[i].by = "customer" => t \notin transcript[i].tells
    /\ transcript' = Append(transcript, [by |-> "customer", tells |-> {t}])
    /\ backlog' = Append(backlog, t)
    /\ UNCHANGED <<flagged, shield, permit, savedKey, frontier, turn, disclosed>>

\* PUT /config/pii, and POST /setup/ai-model with a frontier key.
ConfigureShield(on) ==
    /\ on \in ShieldSettings /\ shield' = on
    /\ UNCHANGED <<transcript, backlog, flagged, permit, savedKey, frontier, turn, disclosed>>

ConfigureFrontier ==
    /\ ~savedKey /\ savedKey' = TRUE
    /\ UNCHANGED <<transcript, backlog, flagged, shield, permit, frontier, turn, disclosed>>

-----------------------------------------------------------------------------
\* _load_history: the newest entry is left out when it is the text itself; of
\* the rest the prompt keeps the last ContextMessages.
Earlier(t) ==
    LET all == transcript
        own == all # <<>> /\ Last(all) = [by |-> "customer", tells |-> {t}]
        past == IF own THEN Front(all) ELSE all
    IN {i \in DOMAIN past : i + ContextMessages > Len(past)}

\* The worker takes the next event, and skips it when an agent has the
\* conversation; it loads the history, or goes without. The engine re-reads its
\* configuration unless the cached one is young; a provider once configured is
\* never dropped.
BeginTurn ==
    /\ turn.at = "idle" /\ backlog # <<>>
    /\ LET t == Head(backlog)
       IN \/ \E history \in {{}, UNION {transcript[i].tells : i \in Earlier(t)}} :
                turn' = [NoTurn EXCEPT !.at = "analyse", !.text = t, !.history = history]
          \/ UNCHANGED turn
    /\ backlog' = Tail(backlog)
    /\ frontier' \in {frontier, frontier \/ savedKey}
    /\ UNCHANGED <<transcript, flagged, shield, permit, savedKey, disclosed>>

Enter(stage) == turn' = [turn EXCEPT !.at = stage]

Analysed(pii, raw, directive) ==
    turn' = [turn EXCEPT !.at = "flag", !.shielded = shield, !.pii = pii, !.raw = raw,
                         !.directive = directive]

RoutingDirective(pii) ==
    CASE ~pii            -> "no_restriction"
      [] pii /\ permit  -> "redacted_frontier_ok"
      [] pii /\ ~permit -> "local_model_only"

\* PIIShield.analyze: a disabled shield finds nothing; a failing analyzer finds
\* everything, and redacts nothing.
Analyse ==
    /\ turn.at = "analyse"
    /\ LET pii == shield /\ turn.text \in Sensitive
       IN \/ Analysed(pii, ~pii, RoutingDirective(pii))
          \/ shield /\ Analysed(TRUE, TRUE, "local_model_only")
    /\ UNCHANGED <<transcript, backlog, flagged, shield, permit, savedKey, frontier, disclosed>>

\* The findings go to the newest customer message, whichever it is by now.
NewestText ==
    LET mine == {i \in DOMAIN transcript : transcript[i].by = "customer"}
    IN CHOOSE t \in transcript[CHOOSE i \in mine : \A j \in mine : j <= i].tells : TRUE

WriteBack ==
    /\ turn.at = "flag"
    /\ flagged' \in {flagged, [flagged EXCEPT ![NewestText] = IF turn.pii THEN "pii" ELSE "clean"]}
    /\ Enter("pre")
    /\ UNCHANGED <<transcript, backlog, shield, permit, savedKey, frontier, disclosed>>

-----------------------------------------------------------------------------
\* The worker stores what the engine returned, unless that fails. A fallback
\* quotes the message; a canned text tells nothing.
Reply(tells) ==
    /\ transcript' \in {transcript, Append(transcript, [by |-> "ai", tells |-> tells])}
    /\ turn' = [turn EXCEPT !.at = "idle"]

Conclude == Reply({}) \/ Reply({turn.text})

\* Pre-generation policies: pass, or a canned reply, or a failure.
PreCheck ==
    /\ turn.at = "pre"
    /\ \/ Enter("route") /\ UNCHANGED transcript
       \/ Conclude
    /\ UNCHANGED <<backlog, flagged, shield, permit, savedKey, frontier, disclosed>>

Disclose(to, text, raw, own) ==
    [to |-> to, text |-> text, raw |-> raw, own |-> own, shielded |-> turn.shielded]

\* ModelRouter.route; complexity is what decides for a text without PII.
Targets ==
    CASE turn.directive = "local_model_only" -> {"local"}
      [] turn.directive = "redacted_frontier_ok" ->
            {IF FrontierEnabled THEN "frontier" ELSE "local"}
      [] OTHER -> {"local"} \cup (IF FrontierEnabled THEN {"frontier"} ELSE {})

\* Mutant: whatever was found, the knowledge base is searched.
Retrieve_Unsafe ==
    \/ disclosed' = disclosed \cup {Disclose("vault", turn.text, turn.raw, TRUE)}
    \/ UNCHANGED disclosed

\* The knowledge base is searched for a text that is safe; a cached result
\* spares the call.
Retrieve ==
    LET safe == ~turn.pii \/ turn.directive = "redacted_frontier_ok"
    IN \/ safe /\ disclosed' = disclosed \cup {Disclose("vault", turn.text, turn.raw, TRUE)}
       \/ UNCHANGED disclosed

RouteAndRetrieve ==
    /\ turn.at = "route"
    /\ \E target \in Targets : turn' = [turn EXCEPT !.at = "generate", !.target = target]
    /\ Retrieve
    /\ UNCHANGED <<transcript, backlog, flagged, shield, permit, savedKey, frontier>>

Prompt ==
    {Disclose("frontier", turn.text, turn.raw, TRUE)}
        \cup {Disclose("frontier", t, TRUE, FALSE) : t \in turn.history}

\* _select_provider, and generate: an answer, or a fallback for its failure.
Generate ==
    /\ turn.at = "generate"
    /\ disclosed' = IF turn.target = "frontier" /\ frontier THEN disclosed \cup Prompt
                                                            ELSE disclosed
    /\ \/ Enter("decide") /\ UNCHANGED transcript
       \/ Reply({turn.text})
    /\ UNCHANGED <<backlog, flagged, shield, permit, savedKey, frontier>>

\* The persona's prompt cannot be built: nothing is sent.
PromptFails ==
    /\ turn.at = "generate"
    /\ Reply({turn.text})
    /\ UNCHANGED <<backlog, flagged, shield, permit, savedKey, frontier, disclosed>>

\* Post-generation policies and confidence: a canned text, a notice, or the
\* answer, which may tell whatever the prompt did.
Decide ==
    /\ turn.at = "decide"
    /\ \E tells \in SUBSET ({turn.text} \cup turn.history) : Reply(tells)
    /\ UNCHANGED <<backlog, flagged, shield, permit, savedKey, frontier, disclosed>>

AINext ==
    \/ \E t \in Texts : Arrive(t)
    \/ \E on \in BOOLEAN : ConfigureShield(on)
    \/ ConfigureFrontier
    \/ BeginTurn \/ Analyse \/ WriteBack \/ PreCheck
    \/ RouteAndRetrieve \/ Generate \/ PromptFails \/ Decide

AISpec == AIInit /\ [][AINext]_ai

-----------------------------------------------------------------------------
\* A turn's own message leaves only as the shield allows: one with PII that was
\* analysed under the shield reaches the Vault or the frontier model redacted
\* and with the admin's permission, or not at all, also when the analysis
\* failed (ai/engine.py:309-365).
ShieldHolds ==
    \A d \in disclosed :
        d.own /\ d.shielded /\ d.text \in Sensitive => ~d.raw /\ permit

\* "LOCAL_MODEL_ONLY - PII detected, must not leave infrastructure" (tsd.md:422):
\* with the shield on, no frontier prompt holds a text with PII.
PIIStaysLocal ==
    \A d \in disclosed :
        d.to = "frontier" /\ d.shielded => d.text \notin Sensitive \/ ~d.raw
=============================================================================
