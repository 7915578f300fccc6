------------------------------- MODULE SLAScan -------------------------------
(***************************************************************************)
(* The periodic SLA scan (sla/checker.py, sla/service.py): it loads the    *)
(* open conversations with their messages, escalates those in breach one   *)
(* by one, announces each, and commits once. Customers, agents and the     *)
(* clock go on meanwhile.                                                  *)
(***************************************************************************)
EXTENDS Integers, FiniteSets

CONSTANTS Tickets,       \* conversations
          FirstResponse, \* policy.first_response_minutes, in ticks
          Resolution,    \* policy.resolution_minutes
          MaxMinute      \* bound: the clock

ASSUME MinutesAssumption == FirstResponse \in Int /\ Resolution \in Int

VARIABLES minute,
          ticket, \* the committed conversations
          scan    \* the scan's session

desk == <<minute, ticket, scan>>

NoTicket == [phase |-> "none", opened |-> 0, answered |-> FALSE]
NoScan == [at |-> "idle", began |-> 0, loaded |-> [c \in {} |-> NoTicket], left |-> {},
           serving |-> {}, flushed |-> {}, told |-> {}]

ScanInit == minute = 0 /\ ticket = [c \in Tickets |-> NoTicket] /\ scan = NoScan

\* Nobody else writes a row the scan has flushed.
Unlocked(c) == c \notin scan.flushed

-----------------------------------------------------------------------------
Wait ==
    /\ minute < MaxMinute
    /\ minute' = minute + 1
    /\ UNCHANGED <<ticket, scan>>

\* A first message sets the due time; one that reopens leaves it and created_at.
CustomerWrites(c) ==
    /\ Unlocked(c)
    /\ ticket[c].phase \in {"none", "done"}
    /\ ticket' = [ticket EXCEPT ![c].phase = "open",
                                ![c].opened = IF ticket[c].phase = "none" THEN minute ELSE @]
    /\ UNCHANGED <<minute, scan>>

\* The AI or an agent replies: a message row, no lock on the conversation.
Respond(c) ==
    /\ ticket[c].phase \in {"open", "escalated"}
    /\ ~ticket[c].answered
    /\ ticket' = [ticket EXCEPT ![c].answered = TRUE]
    /\ UNCHANGED <<minute, scan>>

\* Every other change of status, by an agent or the AI engine.
Move(c, phase) ==
    /\ Unlocked(c)
    /\ ticket[c].phase # phase /\ ticket[c].phase # "none"
    /\ ticket[c].phase = "done" => phase = "open"
    /\ ticket' = [ticket EXCEPT ![c].phase = phase]
    /\ UNCHANGED <<minute, scan>>

\* Mutant: a conversation that was answered is in order.
Evaluate_AnsweredIsOk(t) ==
    IF ~t.answered /\ minute > t.opened + FirstResponse THEN "first_response"
    ELSE IF ~t.answered /\ minute > t.opened + Resolution THEN "resolution"
    ELSE "ok"

\* evaluate, of what was loaded and at the moment's time. Nothing ever sets
\* sla_resolution_due, so the policy counts from created_at.
Evaluate(t) ==
    IF ~t.answered /\ minute > t.opened + FirstResponse THEN "first_response"
    ELSE IF minute > t.opened + Resolution THEN "resolution"
    ELSE "ok"

-----------------------------------------------------------------------------
BeginScan ==
    /\ scan.at = "idle"
    /\ LET open == {c \in Tickets : ticket[c].phase = "open"}
       IN scan' = [NoScan EXCEPT !.at = "loop", !.began = minute, !.left = open,
                                 !.loaded = [c \in open |-> ticket[c]]]
    /\ UNCHANGED <<minute, ticket>>

\* The next conversation is skipped or found in breach, and looked up again,
\* which gives the loaded copy.
Visit(c) ==
    /\ scan.at = "loop" /\ c \in scan.left
    /\ scan' = IF Evaluate(scan.loaded[c]) = "ok"
               THEN [scan EXCEPT !.left = @ \ {c}]
               ELSE [scan EXCEPT !.left = @ \ {c}, !.at = "breach", !.serving = {c}]
    /\ UNCHANGED <<minute, ticket>>

\* escalate flushes the status it set ...
FlushBreach ==
    /\ scan.at = "breach"
    /\ scan' = [scan EXCEPT !.at = "flushed", !.flushed = @ \cup scan.serving]
    /\ UNCHANGED <<minute, ticket>>

\* ... the event is published, failing or not, and all agents are told.
Announce ==
    /\ scan.at = "flushed"
    /\ scan' = [scan EXCEPT !.at = "loop", !.told = @ \cup scan.serving, !.serving = {}]
    /\ UNCHANGED <<minute, ticket>>

Escalated(rows) ==
    [c \in Tickets |-> IF c \in rows THEN [ticket[c] EXCEPT !.phase = "escalated"]
                                     ELSE ticket[c]]

\* Mutant: escalate commits, as the endpoints do.
CommitScan_Each ==
    /\ scan.at = "flushed" \/ (scan.at = "loop" /\ scan.left = {})
    /\ ticket' = Escalated(scan.flushed)
    /\ scan' = IF scan.at = "loop" THEN NoScan ELSE [scan EXCEPT !.flushed = {}]
    /\ UNCHANGED minute

\* The loop's one commit, over whatever the rows have become.
CommitScan ==
    /\ scan.at = "loop" /\ scan.left = {}
    /\ ticket' = Escalated(scan.flushed)
    /\ scan' = NoScan
    /\ UNCHANGED minute

ScanFails ==
    /\ scan.at # "idle"
    /\ scan' = NoScan
    /\ UNCHANGED <<minute, ticket>>

ScanNext ==
    \/ Wait
    \/ \E c \in Tickets :
          \/ CustomerWrites(c) \/ Respond(c) \/ Visit(c)
          \/ \E phase \in {"open", "escalated", "done"} : Move(c, phase)
    \/ BeginScan \/ FlushBreach \/ Announce \/ CommitScan \/ ScanFails

ScanSpec == ScanInit /\ [][ScanNext]_desk

-----------------------------------------------------------------------------
\* Agents are told of a breach before anybody sees the conversation escalated for
\* it, wherever the scan fails (sla/checker.py:63-76, main.py:131-134).
ScanTellsFirst ==
    [][\A c \in Tickets :
          scan' # scan /\ ticket'[c].phase = "escalated" /\ ticket[c].phase # "escalated"
          => c \in scan.told]_desk

\* A scan that commits has escalated every conversation whose deadline had passed
\* when it began, and none whose had not when it ended, of what it loaded, though
\* each is judged at a time of its own (sla/service.py:75-115).
InBreach(t, time) ==
    \/ time > t.opened + Resolution
    \/ time > t.opened + FirstResponse /\ ~t.answered

EscalatesTheOverdue ==
    [][CommitScan =>
          \A c \in DOMAIN scan.loaded :
             /\ InBreach(scan.loaded[c], scan.began) => ticket'[c].phase = "escalated"
             /\ c \in scan.flushed => InBreach(scan.loaded[c], minute)]_desk
=============================================================================
