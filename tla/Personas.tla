------------------------------ MODULE Personas ------------------------------
(***************************************************************************)
(* Which brand persona is active (persona/service.py): activations read    *)
(* every row, clear the flags and set one, in database sessions that write *)
(* only the flags they changed, while personas are created.                *)
(***************************************************************************)
CONSTANTS PersonaIds, Admins

VARIABLES personas,   \* rows of brand_personas
          is_active,  \* those whose flag is set
          activation  \* activation[s]: the request of session s

branding == <<personas, is_active, activation>>

NoActivation == [at |-> "none", of |-> {}, read |-> {}, set |-> {}, alone |-> TRUE]

PersonasInit ==
    /\ personas = {} /\ is_active = {}
    /\ activation = [s \in Admins |-> NoActivation]

Activating(s) == activation[s].at # "none"

-----------------------------------------------------------------------------
\* create_persona: never active at first.
CreatePersona(b) ==
    /\ b \notin personas
    /\ personas' = personas \cup {b}
    /\ UNCHANGED <<is_active, activation>>

\* activate_persona: all rows, with their flags ...
LoadPersonas(s, b) ==
    /\ ~Activating(s)
    /\ activation' = [o \in Admins |->
           IF o = s
           THEN [at |-> "loaded", of |-> {b}, read |-> personas, set |-> is_active,
                 alone |-> \A r \in Admins : ~Activating(r)]
           ELSE [activation[o] EXCEPT !.alone = @ /\ ~Activating(o)]]
    /\ UNCHANGED <<personas, is_active>>

\* ... then the one asked for, which may be unknown, or newer than the list.
FindPersona(s) ==
    /\ activation[s].at = "loaded"
    /\ activation' = [activation EXCEPT ![s].at = "found", ![s].of = @ \cap personas]
    /\ UNCHANGED <<personas, is_active>>

\* Mutant: only the persona get_active_persona returns is cleared.
CommitActivation_ClearsOne(s) ==
    LET mine == activation[s]
    IN /\ mine.at = "found"
       /\ \E cleared \in {{}} \cup {{b} : b \in mine.set} :
             is_active' = (is_active \ (cleared \ mine.of)) \cup (mine.of \ mine.set)
       /\ activation' = [activation EXCEPT ![s] = NoActivation]
       /\ UNCHANGED personas

\* The flush writes the flags that differ from the ones read; without a persona
\* the request's own commit still clears the others.
CommitActivation(s) ==
    LET mine == activation[s]
    IN /\ mine.at = "found"
       /\ is_active' = (is_active \ (mine.set \ mine.of)) \cup (mine.of \ mine.set)
       /\ activation' = [activation EXCEPT ![s] = NoActivation]
       /\ UNCHANGED personas

ActivationFails(s) ==
    /\ Activating(s)
    /\ activation' = [activation EXCEPT ![s] = NoActivation]
    /\ UNCHANGED <<personas, is_active>>

PersonasNext ==
    \/ \E b \in PersonaIds : CreatePersona(b)
    \/ \E s \in Admins :
          \/ \E b \in PersonaIds : LoadPersonas(s, b)
          \/ FindPersona(s) \/ CommitActivation(s) \/ ActivationFails(s)

PersonasSpec == PersonasInit /\ [][PersonasNext]_branding

-----------------------------------------------------------------------------
\* "Activate a persona (deactivate all others)" (persona/service.py:180): one
\* that no other activation overlaps leaves its persona the only active one,
\* whatever earlier races left.
ActivationRepairs ==
    [][\A s \in Admins :
          CommitActivation(s) /\ activation[s].alone /\ activation[s].of # {}
          => is_active' = activation[s].of]_branding
=============================================================================
