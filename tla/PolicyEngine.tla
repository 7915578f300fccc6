---------------------------- MODULE PolicyEngine ----------------------------
(***************************************************************************)
(* The response policies (policy/engine.py) around one AI answer after     *)
(* another: the pre-generation hook on the customer's message, the         *)
(* post-generation hook on the answer, and what ai/engine.py makes of      *)
(* their verdicts, while an admin creates and switches policies. The hooks *)
(* read the table in sessions of their own. Which policies' triggers match *)
(* a text is a free choice.                                                *)
(***************************************************************************)
EXTENDS Naturals, Sequences, FiniteSets

CONSTANTS Catalog,  \* the policies an admin may create
          NoPolicy

Actions == {"template", "redirect", "inject_context", "append_disclaimer", "block", "escalate"}
Policy == [action : Actions, applies_to : {"pre", "post", "both"}, priority : Nat,
           severity : {"default", "error", "warning"}]

ASSUME CatalogAssumption == IsFiniteSet(Catalog) /\ Catalog \subseteq Policy
ASSUME NoPolicyAssumption == NoPolicy \notin Catalog

VARIABLES table,  \* response_policies
          active, \* its rows with is_active
          answer  \* the turn: where it is, what matched, and what decided it

guard == <<table, active, answer>>

Outcomes == {"canned", "escalated", "withheld", "answered"}
Waiting == [at |-> "waiting", before |-> {}, after |-> {}, by |-> NoPolicy, appended |-> {}]

PolicyInit == table = {} /\ active = {} /\ answer = Waiting

-----------------------------------------------------------------------------
\* create_policy and set_policy_active.
Create(p) ==
    /\ p \notin table
    /\ table' = table \cup {p} /\ active' = active \cup {p}
    /\ UNCHANGED answer

SetActive(p, on) ==
    /\ p \in table
    /\ active' = IF on THEN active \cup {p} ELSE active \ {p}
    /\ UNCHANGED <<table, answer>>

\* get_active_policies; rows of equal priority come in any order.
Applicable(phase) == {p \in active : p.applies_to \in {phase, "both"}}

Listings(ps) ==
    {list \in [1..Cardinality(ps) -> ps] :
        /\ \A p \in ps : \E i \in DOMAIN list : list[i] = p
        /\ \A i, j \in DOMAIN list : i < j => list[i].priority <= list[j].priority}

-----------------------------------------------------------------------------
Allow == [decision |-> "allow", by |-> NoPolicy]
Verdict(decision, p) == [decision |-> decision, by |-> p]

\* Mutant: an escalation is taken back by a redirect further down.
Weigh_LastWins(so_far, p) ==
    CASE so_far.decision # "block" /\ p.action = "block" -> Verdict("block", p)
      [] so_far.decision # "block" /\ p.action = "escalate" -> Verdict("escalate", p)
      [] so_far.decision # "block" /\ p.action \in {"redirect", "template"} -> Verdict("redirect", p)
      [] OTHER -> so_far

\* A block ends the scan, an escalation or a redirect decides only what nothing
\* has decided yet.
Weigh(so_far, p) ==
    CASE so_far.decision # "block" /\ p.action = "block" -> Verdict("block", p)
      [] so_far.decision = "allow" /\ p.action = "escalate" -> Verdict("escalate", p)
      [] so_far.decision = "allow" /\ p.action \in {"redirect", "template"} -> Verdict("redirect", p)
      [] OTHER -> so_far

\* Mutant: the redirect is not an outcome of its own.
Scan_DropsRedirect(list) ==
    LET blocks == {i \in DOMAIN list : list[i].action = "block"}
    IN IF blocks = {} THEN Allow
       ELSE Verdict("block", list[CHOOSE i \in blocks : \A j \in blocks : i <= j])

\* run_pre_generation_hooks over the matching policies, in the order they are listed.
Scan(list) ==
    LET scan[i \in 0..Len(list)] == IF i = 0 THEN Allow ELSE Weigh(scan[i - 1], list[i])
    IN scan[Len(list)]

\* The engine acts on the verdict: a canned reply, a handoff, or the model.
PreHook ==
    /\ answer.at \in {"waiting"} \cup Outcomes
    /\ \E matching \in SUBSET Applicable("pre") : \E list \in Listings(matching) :
          LET verdict == Scan(list)
          IN answer' = [Waiting EXCEPT
                !.at = CASE verdict.decision \in {"block", "redirect"} -> "canned"
                         [] verdict.decision = "escalate" -> "escalated"
                         [] OTHER -> "generating",
                !.before = matching, !.by = verdict.by]
    /\ UNCHANGED <<table, active>>

\* A violation withholds the answer by its action or by its severity.
Severe(p) == p.action = "block" \/ p.severity = "error"

\* Every disclaimer has its text.
Disclaimers(matching) == {p \in matching : p.action = "append_disclaimer"}

\* run_post_generation_hooks over the policies the answer triggers; what the
\* confidence score makes of an answer that passes is not decided here.
PostHook ==
    /\ answer.at = "generating"
    /\ \E matching \in SUBSET Applicable("post") :
          answer' = IF \E p \in matching : Severe(p)
                    THEN [answer EXCEPT !.at = "withheld", !.after = matching]
                    ELSE [answer EXCEPT !.at = "answered", !.after = matching,
                                        !.appended = Disclaimers(matching)]
    /\ UNCHANGED <<table, active>>

\* The turn fails in between, and the customer gets a fallback.
GenerationFails ==
    /\ answer.at = "generating"
    /\ answer' = Waiting
    /\ UNCHANGED <<table, active>>

PolicyNext ==
    \/ \E p \in Catalog : Create(p) \/ \E on \in BOOLEAN : SetActive(p, on)
    \/ PreHook \/ PostHook \/ GenerationFails

PolicySpec == PolicyInit /\ [][PolicyNext]_guard

-----------------------------------------------------------------------------
Decisive == {"block", "escalate", "redirect", "template"}
Matched(action) == {p \in answer.before : p.action \in action}

\* An answer of the model reaches the customer only when no policy the message
\* triggers blocks, redirects or escalates it and none the answer triggers
\* withholds it, and with every disclaimer of theirs, also when policies are
\* switched while it is generated (ai/engine.py:263-308, 372-398).
GuardsGuard ==
    answer.at = "answered" =>
        /\ Matched(Decisive) = {}
        /\ \A p \in answer.after : p.action # "block" /\ p.severity # "error"
        /\ \A p \in answer.after : p.action = "append_disclaimer" => p \in answer.appended

\* What decides a message, against the scan's definition (policy/engine.py:108-137):
\* a block of the highest priority blocks have, or, without a block, a policy of
\* the highest priority any decisive one has.
HighestDecides ==
    answer.by # NoPolicy =>
        LET blocks == Matched({"block"})
            rivals == IF blocks # {} THEN blocks ELSE Matched(Decisive)
        IN /\ answer.by \in rivals
           /\ \A p \in rivals : answer.by.priority <= p.priority
           /\ answer.at = "escalated" <=> answer.by.action = "escalate"
=============================================================================
