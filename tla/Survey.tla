------------------------------- MODULE Survey -------------------------------
(***************************************************************************)
(* The JSON metadata column of one conversation: the satisfaction survey   *)
(* (surveys/csat_api.py) and the reasons of status changes                 *)
(* (conversations/manager.py) write it whole, from the copy they loaded.   *)
(***************************************************************************)
EXTENDS Naturals, Sequences

CONSTANTS Callers, \* concurrent requests
          Scores, Reasons,
          NoEntry,
          MaxRatings \* bound: ratings accepted

ASSUME NoEntryAssumption == NoEntry \notin Scores \cup Reasons

VARIABLES rateable,  \* the status is resolved or closed
          metadata,  \* the committed column
          call,      \* call[q]: what request q loaded and is about to write
          accepted,  \* history: ratings the survey acknowledged
          overwrote  \* history: a write covered another it had not loaded

survey == <<rateable, metadata, call, accepted, overwrote>>

EmptyColumn == [csat |-> NoEntry, reason |-> NoEntry]
NoCall == [at |-> "none", finish |-> FALSE, value |-> NoEntry, loaded |-> EmptyColumn]

SurveyInit ==
    /\ rateable = FALSE /\ metadata = EmptyColumn
    /\ call = [q \in Callers |-> NoCall]
    /\ accepted = <<>> /\ overwrote = FALSE

Calling(q) == call[q].at # "none"

-----------------------------------------------------------------------------
\* Mutant: an earlier rating does not stop another.
LoadForRating_Again(q, score) ==
    /\ ~Calling(q)
    /\ rateable
    /\ Len(accepted) < MaxRatings
    /\ call' = [call EXCEPT ![q] = [at |-> "rating", finish |-> FALSE,
                                    value |-> score, loaded |-> metadata]]
    /\ UNCHANGED <<rateable, metadata, accepted, overwrote>>

\* submit_csat: 400 and 409 are decided on the loaded row.
LoadForRating(q, score) ==
    /\ ~Calling(q)
    /\ rateable /\ metadata.csat = NoEntry
    /\ Len(accepted) < MaxRatings
    /\ call' = [call EXCEPT ![q] = [at |-> "rating", finish |-> FALSE,
                                    value |-> score, loaded |-> metadata]]
    /\ UNCHANGED <<rateable, metadata, accepted, overwrote>>

\* A copy of the loaded column with the rating replaces the column.
CommitRating(q) ==
    /\ call[q].at = "rating" /\ Len(accepted) < MaxRatings
    /\ metadata' = [call[q].loaded EXCEPT !.csat = call[q].value]
    /\ accepted' = Append(accepted, call[q].value)
    /\ overwrote' = (overwrote \/ metadata # call[q].loaded)
    /\ call' = [call EXCEPT ![q] = NoCall]
    /\ UNCHANGED rateable

\* A change of status by an unlocked endpoint, the SLA scan or the AI engine.
LoadForStatus(q, finish, reason) ==
    /\ ~Calling(q)
    /\ call' = [call EXCEPT ![q] = [at |-> "status", finish |-> finish,
                                    value |-> reason, loaded |-> metadata]]
    /\ UNCHANGED <<rateable, metadata, accepted, overwrote>>

\* update_status: the reason goes into the very object that was loaded, which
\* SQLAlchemy takes for unchanged; only an empty column gives a new one.
WriteReason(loaded, reason) ==
    IF reason # NoEntry /\ loaded = EmptyColumn
    THEN /\ metadata' = [EmptyColumn EXCEPT !.reason = reason]
         /\ overwrote' = (overwrote \/ metadata # loaded)
    ELSE UNCHANGED <<metadata, overwrote>>

CommitStatus(q) ==
    /\ call[q].at = "status"
    /\ rateable' = call[q].finish
    /\ WriteReason(call[q].loaded, call[q].value)
    /\ call' = [call EXCEPT ![q] = NoCall]
    /\ UNCHANGED accepted

\* resolve_conversation reads and writes under one row lock.
ResolveLocked(reason) ==
    /\ ~rateable /\ rateable' = TRUE
    /\ WriteReason(metadata, reason)
    /\ UNCHANGED <<call, accepted>>

\* get_or_create_conversation reopens the thread.
CustomerReturns ==
    /\ rateable
    /\ rateable' = FALSE
    /\ UNCHANGED <<metadata, call, accepted, overwrote>>

CallFails(q) ==
    /\ Calling(q)
    /\ call' = [call EXCEPT ![q] = NoCall]
    /\ UNCHANGED <<rateable, metadata, accepted, overwrote>>

SurveyNext ==
    \/ \E q \in Callers :
          \/ \E score \in Scores : LoadForRating(q, score)
          \/ \E finish \in BOOLEAN, reason \in Reasons \cup {NoEntry} :
                LoadForStatus(q, finish, reason)
          \/ CommitRating(q) \/ CommitStatus(q) \/ CallFails(q)
    \/ \E reason \in Reasons : ResolveLocked(reason)
    \/ CustomerReturns

SurveySpec == SurveyInit /\ [][SurveyNext]_survey

-----------------------------------------------------------------------------
\* "one rating per conversation" (surveys/csat_api.py:9-10): the survey never
\* acknowledges two, and the one it did acknowledge stays stored through reopenings
\* and later changes of status, unless a write covered one it had not loaded.
OneRating ==
    ~overwrote =>
        accepted = IF metadata.csat = NoEntry THEN <<>> ELSE <<metadata.csat>>
=============================================================================
