---- MODULE MCServices ----
(***************************************************************************)
(* The modules of the services around the conversation, for TLC. They      *)
(* share no state, so a behaviour moves one of them. Ann writes on         *)
(* WhatsApp, Bob and Cyd write to the same email thread; of the AI's texts *)
(* one has PII; the policies tie, cross phases and withhold by severity;   *)
(* of the customer's conversations one has two files in the Vault.         *)
(***************************************************************************)
EXTENDS CustomerThreads, AuditChain, AITurn, PolicyEngine, RuntimeSettings, Personas,
        RateLimiter, Survey, SLAScan, Retention, Mail, Handover, TLC

CONSTANTS ann, bob, cyd, m1, m2, m3, tp, te
From == (m1 :> ann) @@ (m2 :> bob) @@ (m3 :> cyd)
On == (m1 :> tp) @@ (m2 :> te) @@ (m3 :> te)

Row(action, phase, priority, severity) ==
    [action |-> action, applies_to |-> phase, priority |-> priority, severity |-> severity]
Policies ==
    {Row("redirect", "pre", 1, "default"), Row("template", "pre", 2, "default"),
     Row("escalate", "both", 2, "default"), Row("block", "both", 3, "warning"),
     Row("append_disclaimer", "post", 1, "default"), Row("append_disclaimer", "post", 2, "error")}

CONSTANTS chat1, chat2, file1, file2
Attachments == (chat1 :> {file1, file2}) @@ (chat2 :> {})

\* Nothing found, one weak hit, a good one among poor ones, only worthless ones.
Found == {<<>>, <<3>>, <<3, 1, 1>>, <<0>>}
Replies ==
    {[empty |-> TRUE, words |-> 0, positive |-> 0, negative |-> 0]} \cup
    [empty : {FALSE}, words : {5, 50, 300}, positive : {0, 3}, negative : {0, 2}]

Environment == [x \in Fields |-> TRUE]

Symmetry == Permutations(Requests)

VARIABLE side

admin == <<settings, branding, limiter>>
thread == <<survey, desk>>
inner == <<threads, audit, ai, guard, admin, thread>>
outer == <<retention, mails, handover>>

ServicesInit ==
    /\ side \in {"customers", "audit", "ai", "policies", "settings", "personas", "limiter",
                 "survey", "sla", "retention", "mail", "handover"}
    /\ ThreadsInit /\ AuditInit /\ AIInit /\ PolicyInit
    /\ SettingsInit /\ PersonasInit /\ LimiterInit /\ SurveyInit /\ ScanInit
    /\ RetentionInit /\ MailInit /\ HandoverInit
    /\ side # "ai" => ~permit /\ ~frontier

ServicesNext ==
    /\ UNCHANGED side
    /\ \/ /\ UNCHANGED <<admin, thread, outer>>
          /\ \/ side = "customers" /\ ThreadsNext /\ UNCHANGED <<audit, ai, guard>>
             \/ side = "audit" /\ AuditNext /\ UNCHANGED <<threads, ai, guard>>
             \/ side = "ai" /\ AINext /\ UNCHANGED <<threads, audit, guard>>
             \/ side = "policies" /\ PolicyNext /\ UNCHANGED <<threads, audit, ai>>
       \/ /\ UNCHANGED <<threads, audit, ai, guard, thread, outer>>
          /\ \/ side = "settings" /\ SettingsNext /\ UNCHANGED <<branding, limiter>>
             \/ side = "personas" /\ PersonasNext /\ UNCHANGED <<settings, limiter>>
             \/ side = "limiter" /\ LimiterNext /\ UNCHANGED <<settings, branding>>
       \/ /\ UNCHANGED <<threads, audit, ai, guard, admin, outer>>
          /\ \/ side = "survey" /\ SurveyNext /\ UNCHANGED desk
             \/ side = "sla" /\ ScanNext /\ UNCHANGED survey
       \/ /\ UNCHANGED inner
          /\ \/ side = "retention" /\ RetentionNext /\ UNCHANGED <<mails, handover>>
             \/ side = "mail" /\ MailNext /\ UNCHANGED <<retention, handover>>
             \/ side = "handover" /\ HandoverNext /\ UNCHANGED <<retention, mails>>

ServicesSpec ==
    ServicesInit /\ [][ServicesNext]_<<side, inner, outer>>
=============================================================================
