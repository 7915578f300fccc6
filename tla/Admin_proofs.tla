--------------------------- MODULE Admin_proofs -------------------------------
(***************************************************************************)
(* What the administrator's side promises: the request limiter, the        *)
(* settings edited at run time and the activation of personas.             *)
(***************************************************************************)
EXTENDS RateLimiter, RuntimeSettings, Personas, TLAPS

(***************************************************************************)
(* The limiter, for every budget, window and arrival times.                *)
(***************************************************************************)

\* What was pruned is as old as the window, and what was admitted is in the
\* order of the clock.
LimiterTypeOK ==
    /\ now \in Nat
    /\ admitted \in Seq(Nat)
    /\ first \in 1..Len(admitted) + 1

Ordered ==
    /\ \A i, j \in DOMAIN admitted : i <= j => admitted[i] <= admitted[j]
    /\ \A i \in DOMAIN admitted : admitted[i] <= now

DroppedIsStale == \A j \in DOMAIN admitted : j < first => Stale(j)

LimiterInv == LimiterTypeOK /\ Ordered /\ DroppedIsStale /\ WindowBudget /\ NoLockout

\* The limit is at least one, whatever the setting is.
LEMMA BudgetIsPositive ==
    ASSUME LimiterAssumption
    PROVE  max_requests \in Nat /\ max_requests >= 1
BY DEF LimiterAssumption, max_requests

\* The clock only ages what the limiter remembers.
LEMMA TickKeeps ==
    ASSUME LimiterAssumption, LimiterInv, Tick
    PROVE  LimiterInv'
<1> USE DEF LimiterInv, LimiterTypeOK, LimiterAssumption
<1>1. now' \in Nat /\ now' > now /\ UNCHANGED <<admitted, first>> /\ outcome' = "none"
  BY DEF Tick
<1>2. LimiterTypeOK' /\ Ordered'
  BY <1>1 DEF Ordered
<1>3. DroppedIsStale'
  BY <1>1 DEF DroppedIsStale, Stale
<1>4. WindowBudget' /\ NoLockout'
  BY <1>1 DEF WindowBudget, NoLockout, max_requests
<1> QED
  BY <1>2, <1>3, <1>4

\* What a frame finds after the pruning: behind first' is stale, from it on is not.
LEMMA PruneSplits ==
    ASSUME LimiterAssumption, LimiterInv, Prune
    PROVE  /\ first' \in 1..Len(admitted) + 1
           /\ \A j \in DOMAIN admitted : j < first' => Stale(j)
           /\ \A j \in DOMAIN admitted : j >= first' => ~Stale(j)
<1> USE DEF LimiterInv, LimiterTypeOK, LimiterAssumption
<1>1. PICK i \in first..Len(admitted) + 1 :
        /\ \A j \in first..i - 1 : Stale(j)
        /\ i <= Len(admitted) => ~Stale(i)
        /\ first' = i
  BY DEF Prune
<1>2. ASSUME NEW j \in DOMAIN admitted, j < first'
      PROVE  Stale(j)
  BY <1>1, <1>2 DEF DroppedIsStale
<1>3. ASSUME NEW j \in DOMAIN admitted, j >= first'
      PROVE  ~Stale(j)
  <2>1. i \in DOMAIN admitted /\ ~Stale(i) /\ admitted[i] <= admitted[j]
    BY <1>1, <1>3 DEF Ordered
  <2> QED
    BY <2>1, <1>3 DEF Stale
<1> QED
  BY <1>1, <1>2, <1>3

LEMMA FrameKeeps ==
    ASSUME LimiterAssumption, LimiterInv, AllowFrame
    PROVE  LimiterInv'
<1> USE DEF LimiterInv, LimiterTypeOK, LimiterAssumption
<1>0. max_requests \in Nat /\ max_requests >= 1
  BY BudgetIsPositive
<1>1. /\ now' = now
      /\ first' \in 1..Len(admitted) + 1
      /\ \A j \in DOMAIN admitted : j < first' => Stale(j)
      /\ \A j \in DOMAIN admitted : j >= first' => ~Stale(j)
  BY PruneSplits DEF AllowFrame
<1>2. CASE Len(admitted) + 1 - first' >= max_requests
  <2>1. UNCHANGED admitted /\ outcome' = "refused"
    BY <1>2 DEF AllowFrame
  <2>2. LimiterTypeOK' /\ Ordered' /\ WindowBudget'
    BY <1>1, <2>1 DEF Ordered, WindowBudget, max_requests
  <2>3. DroppedIsStale'
    BY <1>1, <2>1 DEF DroppedIsStale, Stale
  <2>4. NoLockout'
    <3>1. Len(admitted) + 1 - max_requests >= first'
      BY <1>0, <1>1, <1>2
    <3>2. \A j \in Len(admitted) + 1 - max_requests..Len(admitted) :
            j \in DOMAIN admitted /\ ~Stale(j)
      BY <1>0, <1>1, <3>1
    <3> QED
      BY <1>0, <1>1, <2>1, <3>1, <3>2 DEF NoLockout, Stale, max_requests
  <2> QED
    BY <2>2, <2>3, <2>4
<1>3. CASE ~(Len(admitted) + 1 - first' >= max_requests)
  <2>1. admitted' = Append(admitted, now) /\ outcome' = "allowed"
    BY <1>3 DEF AllowFrame
  <2>2. /\ Len(admitted') = Len(admitted) + 1
        /\ DOMAIN admitted = 1..Len(admitted)
        /\ DOMAIN admitted' = 1..Len(admitted) + 1
        /\ admitted'[Len(admitted) + 1] = now
        /\ \A j \in 1..Len(admitted) : admitted'[j] = admitted[j]
        /\ admitted' \in Seq(Nat)
    BY <2>1
  <2>3. LimiterTypeOK'
    BY <1>1, <2>2
  <2>4. Ordered'
    <3>1. ASSUME NEW i \in DOMAIN admitted'
          PROVE  admitted'[i] <= now
      <4>1. CASE i \in 1..Len(admitted)
        BY <2>2, <4>1 DEF Ordered
      <4>2. CASE i = Len(admitted) + 1
        BY <2>2, <4>2
      <4> QED
        BY <2>2, <4>1, <4>2
    <3>2. ASSUME NEW i \in DOMAIN admitted', NEW j \in DOMAIN admitted', i <= j
          PROVE  admitted'[i] <= admitted'[j]
      <4>1. CASE j \in 1..Len(admitted)
        <5>1. i \in 1..Len(admitted)
          BY <2>2, <3>2, <4>1
        <5> QED
          BY <2>2, <3>2, <4>1, <5>1 DEF Ordered
      <4>2. CASE j = Len(admitted) + 1
        BY <2>2, <3>1, <4>2
      <4> QED
        BY <2>2, <4>1, <4>2
    <3> QED
      BY <1>1, <3>1, <3>2 DEF Ordered
  <2>5. DroppedIsStale'
    <3> SUFFICES ASSUME NEW j \in DOMAIN admitted', j < first'
                 PROVE  admitted'[j] <= now' - Window
      BY DEF DroppedIsStale, Stale
    <3>1. j \in 1..Len(admitted)
      BY <1>1, <2>2
    <3> QED
      BY <1>1, <2>2, <3>1 DEF Stale
  <2>6. WindowBudget'
    <3> SUFFICES ASSUME NEW i \in DOMAIN admitted', NEW j \in DOMAIN admitted',
                        j = i + max_requests
                 PROVE  admitted'[j] >= admitted'[i] + Window
      BY DEF WindowBudget, max_requests
    <3>1. i \in 1..Len(admitted)
      BY <1>0, <2>2
    <3>2. CASE j \in 1..Len(admitted)
      BY <2>2, <3>1, <3>2 DEF WindowBudget
    <3>3. CASE j = Len(admitted) + 1
      <4>1. i < first'
        BY <1>0, <1>1, <1>3, <3>1, <3>3
      <4>2. admitted[i] <= now - Window
        BY <1>1, <2>2, <3>1, <4>1 DEF Stale
      <4>3. admitted'[i] = admitted[i] /\ admitted'[j] = now /\ admitted[i] \in Nat
        BY <2>2, <3>1, <3>3
      <4> QED
        BY <4>2, <4>3
    <3> QED
      BY <2>2, <3>2, <3>3
  <2>7. NoLockout'
    BY <2>1 DEF NoLockout
  <2> QED
    BY <2>3, <2>4, <2>5, <2>6, <2>7
<1> QED
  BY <1>2, <1>3

\* The window's bookkeeping is sound for every budget, window and arrival times.
THEOREM LimiterInvariant == LimiterSpec => []LimiterInv
<1>1. LimiterInit => LimiterInv
  BY LimiterAssumption DEF LimiterInit, LimiterInv, LimiterTypeOK, Ordered, DroppedIsStale,
                           WindowBudget, NoLockout
<1>2. LimiterInv /\ [LimiterNext]_limiter => LimiterInv'
  <2>1. CASE Tick
    BY LimiterAssumption, TickKeeps, <2>1
  <2>2. CASE AllowFrame
    BY LimiterAssumption, FrameKeeps, <2>2
  <2>3. CASE UNCHANGED limiter
    BY <2>3 DEF limiter, LimiterInv, LimiterTypeOK, Ordered, DroppedIsStale, Stale,
                WindowBudget, NoLockout, max_requests
  <2> QED
    BY <2>1, <2>2, <2>3 DEF LimiterNext
<1> QED
  BY <1>1, <1>2, PTL DEF LimiterSpec

\* However frames arrive, any max_requests + 1 admitted in a row span a window.
THEOREM BudgetIsKept == LimiterSpec => []WindowBudget
BY LimiterInvariant, PTL DEF LimiterInv

\* A frame is refused only when the budget of the trailing window is used up.
THEOREM RefusalsAreDue == LimiterSpec => []NoLockout
BY LimiterInvariant, PTL DEF LimiterInv

(***************************************************************************)
(* The settings' cache and the personas' flags, for any editors and        *)
(* personas.                                                               *)
(***************************************************************************)

Stored == Setting \cup {NoSetting}

SettingsShape ==
    /\ row_value \in Stored /\ override \in Stored /\ raced \in BOOLEAN
    /\ editing \in [Editors -> [at : {"none", "asked", "found", "saved"},
                                value : Setting, found : Stored]]

\* Until two requests overlap there is at most one; what it found is the row, what it
\* saved is the row, and the cache is only behind while it is about to set it.
AloneAndCurrent ==
    /\ \A e, o \in Editors : Editing(e) /\ Editing(o) => e = o
    /\ \A e \in Editors : editing[e].at = "found" => editing[e].found = row_value
    /\ \A e \in Editors : editing[e].at = "saved" => editing[e].value = row_value
    /\ (\A e \in Editors : editing[e].at # "saved") => override \in {NoSetting, row_value}

SettingsInv == SettingsShape /\ (~raced => AloneAndCurrent)

LEMMA AskedRecord ==
    ASSUME NEW v
    PROVE  [NoEdit EXCEPT !.at = "asked", !.value = v] = [at |-> "asked", value |-> v, found |-> NoSetting]
<1> DEFINE asked == [at |-> "asked", value |-> Defaults, found |-> NoSetting]
<1>1. [NoEdit EXCEPT !.at = "asked", !.value = v] = [[NoEdit EXCEPT !.at = "asked"] EXCEPT !.value = v]
  OBVIOUS
<1>2. [NoEdit EXCEPT !.at = "asked"] = asked
  BY DEF NoEdit
<1>3. [asked EXCEPT !.value = v] = [at |-> "asked", value |-> v, found |-> NoSetting]
  OBVIOUS
<1> HIDE DEF asked
<1> QED
  BY <1>1, <1>2, <1>3

LEMMA RequestKeeps ==
    ASSUME SettingAssumption, SettingsInv, NEW e \in Editors, Request(e)
    PROVE  SettingsInv'
<1> USE DEF SettingsInv, SettingsShape
<1>1. /\ editing[e].at = "none" /\ UNCHANGED <<row_value, override>>
      /\ raced' = (raced \/ \E o \in Editors : Editing(o))
  BY DEF Request, Editing
<1>2. InForce \in Setting /\ Defaults \in Setting /\ NoSetting \in Stored
  BY DEF InForce, SettingAssumption, Stored
<1>3. PICK asked \in SUBSET Fields, wish \in Setting :
        editing' = [editing EXCEPT ![e] = [NoEdit EXCEPT !.at = "asked",
                          !.value = [x \in Fields |-> IF x \in asked THEN wish[x]
                                                                     ELSE InForce[x]]]]
  BY DEF Request
<1> DEFINE new == [x \in Fields |-> IF x \in asked THEN wish[x] ELSE InForce[x]]
<1>4. new \in Setting
  BY <1>2 DEF Setting
<1>5. editing' = [editing EXCEPT ![e] = [at |-> "asked", value |-> new, found |-> NoSetting]]
  BY <1>3, AskedRecord
<1> HIDE DEF new
<1>6. SettingsShape'
  BY <1>1, <1>2, <1>4, <1>5
<1>7. ASSUME ~raced'
      PROVE  AloneAndCurrent'
  <2>1. ~raced /\ \A o \in Editors : editing[o].at = "none"
    BY <1>1, <1>7 DEF Editing
  <2>2. \A o \in Editors \ {e} : editing'[o].at = "none"
    BY <1>5, <2>1
  <2>3. editing'[e].at = "asked"
    BY <1>5
  <2> QED
    BY <1>1, <2>1, <2>2, <2>3 DEF AloneAndCurrent, Editing
<1> QED
  BY <1>6, <1>7

\* A step of one request that is under way leaves the other records alone.
LEMMA EditKeeps ==
    ASSUME SettingAssumption, SettingsInv, NEW e \in Editors,
           FindRow(e) \/ SaveRow(e) \/ Activate(e) \/ EditFails(e)
    PROVE  SettingsInv'
<1> USE DEF SettingsInv, SettingsShape
<1>0. NoEdit \in [at : {"none", "asked", "found", "saved"}, value : Setting, found : Stored]
      /\ NoEdit.at = "none" /\ NoSetting \in Stored /\ Setting \subseteq Stored
  BY DEF NoEdit, SettingAssumption, Stored
<1>1. CASE FindRow(e)
  <2>1. /\ editing[e].at = "asked" /\ UNCHANGED <<row_value, override, raced>>
        /\ editing' = [editing EXCEPT ![e].at = "found", ![e].found = row_value]
    BY <1>1 DEF FindRow
  <2>2. SettingsShape'
    BY <2>1
  <2>3. AloneAndCurrent => AloneAndCurrent'
    BY <2>1 DEF AloneAndCurrent, Editing
  <2> QED
    BY <2>1, <2>2, <2>3
<1>2. CASE SaveRow(e)
  <2>1. CASE editing[e].found = NoSetting /\ row_value # NoSetting
    <3>1. editing[e].at = "found" /\ editing' = [editing EXCEPT ![e] = NoEdit]
          /\ UNCHANGED <<row_value, override, raced>>
      BY <1>2, <2>1 DEF SaveRow
    <3>2. SettingsShape'
      BY <1>0, <3>1
    <3>3. AloneAndCurrent => AloneAndCurrent'
      BY <1>0, <3>1 DEF AloneAndCurrent, Editing
    <3> QED
      BY <3>1, <3>2, <3>3
  <2>2. CASE ~(editing[e].found = NoSetting /\ row_value # NoSetting)
    <3>1. /\ editing[e].at = "found" /\ UNCHANGED <<override, raced>>
          /\ editing' = [editing EXCEPT ![e] = [at |-> "saved", value |-> editing[e].value, found |-> editing[e].found]]
          /\ row_value' = IF editing[e].found = editing[e].value THEN row_value ELSE editing[e].value
      BY <1>2, <2>2 DEF SaveRow
    <3>2. SettingsShape'
      BY <1>0, <3>1
    <3>3. ASSUME AloneAndCurrent
          PROVE  AloneAndCurrent'
      <4>1. row_value' = editing[e].value
        BY <3>1, <3>3 DEF AloneAndCurrent
      <4>2. \A o \in Editors \ {e} : editing'[o].at = "none" /\ editing[o].at = "none"
        BY <3>1, <3>3 DEF AloneAndCurrent, Editing
      <4>3. editing'[e].at = "saved" /\ editing'[e].value = editing[e].value
        BY <3>1
      <4> QED
        BY <4>1, <4>2, <4>3 DEF AloneAndCurrent, Editing
    <3> QED
      BY <3>1, <3>2, <3>3
  <2> QED
    BY <2>1, <2>2
<1>3. CASE Activate(e)
  <2>1. /\ editing[e].at = "saved" /\ editing' = [editing EXCEPT ![e] = NoEdit]
        /\ override' = editing[e].value /\ UNCHANGED <<row_value, raced>>
    BY <1>3 DEF Activate
  <2>2. SettingsShape'
    BY <1>0, <2>1
  <2>3. AloneAndCurrent => AloneAndCurrent'
    BY <1>0, <2>1 DEF AloneAndCurrent, Editing
  <2> QED
    BY <2>1, <2>2, <2>3
<1>4. CASE EditFails(e)
  <2>1. /\ editing[e].at \in {"asked", "found"} /\ editing' = [editing EXCEPT ![e] = NoEdit]
        /\ UNCHANGED <<row_value, override, raced>>
    BY <1>4 DEF EditFails
  <2>2. SettingsShape'
    BY <1>0, <2>1
  <2>3. AloneAndCurrent => AloneAndCurrent'
    BY <1>0, <2>1 DEF AloneAndCurrent, Editing
  <2> QED
    BY <2>1, <2>2, <2>3
<1> QED
  BY <1>1, <1>2, <1>3, <1>4

\* The settings' invariant holds for any fields, editors and orders of their steps.
THEOREM SettingsInvariant == SettingsSpec => []SettingsInv
<1>0. NoEdit \in [at : {"none", "asked", "found", "saved"}, value : Setting, found : Stored]
      /\ NoEdit.at = "none" /\ NoSetting \in Stored
  BY SettingAssumption DEF NoEdit, SettingAssumption, Stored
<1>1. SettingsInit => SettingsInv
  BY <1>0 DEF SettingsInit, SettingsInv, SettingsShape, AloneAndCurrent, Editing
<1>2. SettingsInv /\ [SettingsNext]_settings => SettingsInv'
  <2> SUFFICES ASSUME SettingsInv, [SettingsNext]_settings
               PROVE  SettingsInv'
    OBVIOUS
  <2>1. ASSUME NEW e \in Editors, Request(e)
        PROVE  SettingsInv'
    BY SettingAssumption, RequestKeeps, <2>1
  <2>2. ASSUME NEW e \in Editors, FindRow(e) \/ SaveRow(e) \/ Activate(e) \/ EditFails(e)
        PROVE  SettingsInv'
    BY SettingAssumption, EditKeeps, <2>2
  <2>3. CASE RestartProcess
    BY <1>0, <2>3 DEF RestartProcess, SettingsInv, SettingsShape, AloneAndCurrent, Editing
  <2>4. CASE UNCHANGED settings
    BY <2>4 DEF settings, SettingsInv, SettingsShape, AloneAndCurrent, Editing
  <2> QED
    BY <2>1, <2>2, <2>3, <2>4 DEF SettingsNext
<1> QED
  BY <1>1, <1>2, PTL DEF SettingsSpec

\* Once every request has ended, however many failed and wherever, the components read
\* what the database holds, unless two requests overlapped or the process restarted.
THEOREM CacheFollowsTheTable == SettingsSpec => []CacheAgrees
<1>1. SettingsInv => CacheAgrees
  BY DEF SettingsInv, AloneAndCurrent, CacheAgrees, Editing
<1> QED
  BY <1>1, SettingsInvariant, PTL

-----------------------------------------------------------------------------
\* An activation that is alone has read the flags as they are.
Activation ==
    [at : {"none", "loaded", "found"}, of : SUBSET PersonaIds,
     read : SUBSET PersonaIds, set : SUBSET PersonaIds, alone : BOOLEAN]

PersonasShape ==
    /\ activation \in [Admins -> Activation]
    /\ personas \subseteq PersonaIds /\ is_active \subseteq PersonaIds

AloneIsCurrent ==
    \A s \in Admins : Activating(s) /\ activation[s].alone =>
        /\ activation[s].set = is_active
        /\ \A r \in Admins : Activating(r) => r = s

PersonasInv == PersonasShape /\ AloneIsCurrent

LEMMA ActivationStepKeeps ==
    ASSUME PersonasInv, NEW s \in Admins,
           (\E b \in PersonaIds : LoadPersonas(s, b)) \/ FindPersona(s)
               \/ CommitActivation(s) \/ ActivationFails(s)
    PROVE  PersonasInv'
<1> USE DEF PersonasInv, PersonasShape
<1>0. NoActivation \in Activation /\ NoActivation.at = "none"
  BY DEF NoActivation, Activation
<1>1. ASSUME NEW b \in PersonaIds, LoadPersonas(s, b)
      PROVE  PersonasInv'
  <2>1. /\ UNCHANGED <<personas, is_active>>
        /\ activation' = [o \in Admins |->
               IF o = s
               THEN [at |-> "loaded", of |-> {b}, read |-> personas, set |-> is_active,
                     alone |-> \A r \in Admins : ~Activating(r)]
               ELSE [activation[o] EXCEPT !.alone = @ /\ ~Activating(o)]]
    BY <1>1 DEF LoadPersonas
  <2>2. ASSUME NEW o \in Admins, o # s
        PROVE  /\ activation'[o].at = activation[o].at /\ activation'[o].of = activation[o].of
               /\ activation'[o].read = activation[o].read /\ activation'[o].set = activation[o].set
               /\ activation'[o].alone = (activation[o].alone /\ ~Activating(o))
               /\ activation'[o] \in Activation
    <3>1. activation'[o] = [activation[o] EXCEPT !.alone = @ /\ ~Activating(o)]
      BY <2>1, <2>2
    <3>2. activation[o] \in Activation /\ (activation[o].alone /\ ~Activating(o)) \in BOOLEAN
      OBVIOUS
    <3> QED
      BY <3>1, <3>2 DEF Activation
  <2>3. activation'[s] = [at |-> "loaded", of |-> {b}, read |-> personas, set |-> is_active,
                          alone |-> \A r \in Admins : ~Activating(r)]
    BY <2>1
  <2>4. PersonasShape'
    <3>1. activation'[s] \in Activation
      BY <2>3 DEF Activation
    <3> QED
      BY <2>1, <2>2, <3>1
  <2>8. AloneIsCurrent'
    <3>1. ASSUME NEW o \in Admins, o # s, Activating(o)'
          PROVE  ~activation'[o].alone /\ ~activation'[s].alone
      <4>1. Activating(o)
        BY <2>2, <3>1 DEF Activating
      <4>2. ~activation'[o].alone
        BY <2>2, <3>1, <4>1
      <4>3. ~activation'[s].alone
        BY <2>3, <4>1
      <4> QED
        BY <4>2, <4>3
    <3> QED
      BY <2>1, <2>3, <3>1 DEF AloneIsCurrent
  <2> QED
    BY <2>4, <2>8
<1>2. CASE FindPersona(s)
  <2>1. /\ UNCHANGED <<personas, is_active>> /\ activation[s].at = "loaded"
        /\ activation' = [activation EXCEPT ![s].at = "found", ![s].of = @ \cap personas]
    BY <1>2 DEF FindPersona
  <2>2. PersonasShape'
    BY <2>1 DEF Activation
  <2>3. AloneIsCurrent'
    BY <2>1 DEF AloneIsCurrent, Activating
  <2> QED
    BY <2>2, <2>3
<1>3. CASE CommitActivation(s)
  <2>1. /\ UNCHANGED personas /\ activation[s].at = "found"
        /\ activation' = [activation EXCEPT ![s] = NoActivation]
        /\ is_active' = (is_active \ (activation[s].set \ activation[s].of))
                            \cup (activation[s].of \ activation[s].set)
    BY <1>3 DEF CommitActivation
  <2>2. PersonasShape'
    BY <1>0, <2>1 DEF Activation
  <2>3. AloneIsCurrent'
    BY <1>0, <2>1 DEF AloneIsCurrent, Activating
  <2> QED
    BY <2>2, <2>3
<1>4. CASE ActivationFails(s)
  <2>1. UNCHANGED <<personas, is_active>> /\ activation' = [activation EXCEPT ![s] = NoActivation]
    BY <1>4 DEF ActivationFails
  <2>2. PersonasShape'
    BY <1>0, <2>1 DEF Activation
  <2>3. AloneIsCurrent'
    BY <1>0, <2>1 DEF AloneIsCurrent, Activating
  <2> QED
    BY <2>2, <2>3
<1> QED
  BY <1>1, <1>2, <1>3, <1>4

\* What an undisturbed activation knows of the flags stays true.
THEOREM PersonasInvariant == PersonasSpec => []PersonasInv
<1>1. PersonasInit => PersonasInv
  BY DEF PersonasInit, PersonasInv, PersonasShape, AloneIsCurrent, Activating, NoActivation, Activation
<1>2. PersonasInv /\ [PersonasNext]_branding => PersonasInv'
  <2> SUFFICES ASSUME PersonasInv, [PersonasNext]_branding
               PROVE  PersonasInv'
    OBVIOUS
  <2>1. CASE (\E b \in PersonaIds : CreatePersona(b)) \/ UNCHANGED branding
    BY <2>1 DEF branding, CreatePersona, PersonasInv, PersonasShape, AloneIsCurrent, Activating
  <2>2. ASSUME NEW s \in Admins,
               (\E b \in PersonaIds : LoadPersonas(s, b)) \/ FindPersona(s)
                   \/ CommitActivation(s) \/ ActivationFails(s)
        PROVE  PersonasInv'
    BY ActivationStepKeeps, <2>2
  <2> QED
    BY <2>1, <2>2 DEF PersonasNext
<1> QED
  BY <1>1, <1>2, PTL DEF PersonasSpec

\* For any personas and admins, an activation no other overlaps makes its persona the
\* only active one, whatever races came before.
THEOREM ActivationIsExclusive == PersonasSpec => ActivationRepairs
<1>1. PersonasInv => \A s \in Admins :
          CommitActivation(s) /\ activation[s].alone /\ activation[s].of # {}
          => is_active' = activation[s].of
  <2> SUFFICES ASSUME PersonasInv, NEW s \in Admins, CommitActivation(s), activation[s].alone
               PROVE  is_active' = activation[s].of
    OBVIOUS
  <2>1. activation[s].set = is_active
    BY DEF PersonasInv, AloneIsCurrent, Activating, CommitActivation
  <2> QED
    BY <2>1 DEF CommitActivation
<1> QED
  BY <1>1, PersonasInvariant, PTL DEF ActivationRepairs
===============================================================================
