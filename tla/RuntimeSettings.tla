--------------------------- MODULE RuntimeSettings ---------------------------
(***************************************************************************)
(* One key of the admin's runtime settings (admin/runtime_settings.py):    *)
(* its row, the process's override cache that the components read, and the *)
(* PUT /config/pii requests that change them, each in a database session   *)
(* of its own. Nothing reads the table back when the process starts.       *)
(***************************************************************************)
EXTENDS FiniteSets

CONSTANTS Editors,   \* concurrent requests
          Defaults,  \* the environment's values
          NoSetting

Fields == {"pii_shield_enabled", "frontier_allowed_with_redaction"}
Setting == [Fields -> BOOLEAN]

ASSUME SettingAssumption == Defaults \in Setting /\ NoSetting \notin Setting

VARIABLES row_value, \* the committed row of system_settings
          override,  \* _overrides.get(key)
          editing,   \* editing[e]: where request e is
          raced      \* history: two requests overlapped since the process started

settings == <<row_value, override, editing, raced>>

NoEdit == [at |-> "none", value |-> Defaults, found |-> NoSetting]

SettingsInit ==
    /\ row_value = NoSetting /\ override = NoSetting
    /\ editing = [e \in Editors |-> NoEdit]
    /\ raced = FALSE

Editing(e) == editing[e].at # "none"
InForce == IF override = NoSetting THEN Defaults ELSE override

-----------------------------------------------------------------------------
\* update_pii_configuration: the fields asked for, over what is in force.
Request(e) ==
    /\ ~Editing(e)
    /\ \E asked \in SUBSET Fields, wish \in Setting :
          editing' = [editing EXCEPT ![e] = [NoEdit EXCEPT !.at = "asked",
                          !.value = [x \in Fields |-> IF x \in asked THEN wish[x]
                                                                     ELSE InForce[x]]]]
    /\ raced' = (raced \/ \E o \in Editors : Editing(o))
    /\ UNCHANGED <<row_value, override>>

\* persist: look the row up, write it, and only then set the cache.
FindRow(e) ==
    /\ editing[e].at = "asked"
    /\ editing' = [editing EXCEPT ![e].at = "found", ![e].found = row_value]
    /\ UNCHANGED <<row_value, override, raced>>

\* A second insert of the key fails and nothing is activated; an update to the
\* value that was found is none.
SaveRow(e) ==
    LET mine == editing[e]
    IN /\ mine.at = "found"
       /\ IF mine.found = NoSetting /\ row_value # NoSetting
          THEN editing' = [editing EXCEPT ![e] = NoEdit] /\ UNCHANGED row_value
          ELSE /\ editing' = [editing EXCEPT ![e].at = "saved"]
               /\ row_value' = IF mine.found = mine.value THEN row_value ELSE mine.value
       /\ UNCHANGED <<override, raced>>

\* Mutant: the cache is set before the commit is known to have succeeded.
Activate_Early(e) ==
    /\ editing[e].at \in {"found", "saved"}
    /\ override' = editing[e].value
    /\ editing' = [editing EXCEPT ![e] = IF @.at = "saved" THEN NoEdit ELSE @]
    /\ UNCHANGED <<row_value, raced>>

Activate(e) ==
    /\ editing[e].at = "saved"
    /\ override' = editing[e].value
    /\ editing' = [editing EXCEPT ![e] = NoEdit]
    /\ UNCHANGED <<row_value, raced>>

\* A statement or the commit fails.
EditFails(e) ==
    /\ editing[e].at \in {"asked", "found"}
    /\ editing' = [editing EXCEPT ![e] = NoEdit]
    /\ UNCHANGED <<row_value, override, raced>>

\* The process ends and starts again with an empty cache.
RestartProcess ==
    /\ override' = NoSetting
    /\ editing' = [e \in Editors |-> NoEdit]
    /\ raced' = FALSE
    /\ UNCHANGED row_value

SettingsNext ==
    \/ \E e \in Editors :
          Request(e) \/ FindRow(e) \/ SaveRow(e) \/ Activate(e) \/ EditFails(e)
    \/ RestartProcess

SettingsSpec == SettingsInit /\ [][SettingsNext]_settings

-----------------------------------------------------------------------------
\* What the components read is what the database holds once every request has
\* ended, at whatever step requests failed, as long as no two overlapped and
\* apart from a restart, which forgets (admin/runtime_settings.py:59-74).
CacheAgrees ==
    (~raced /\ \A e \in Editors : ~Editing(e)) => override \in {NoSetting, row_value}
=============================================================================
