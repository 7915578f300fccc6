----------------------------- MODULE RateLimiter -----------------------------
(***************************************************************************)
(* The sliding-window limiter in front of one visitor's web-chat frames    *)
(* (channels/rate_limit.py). Time is a count of ticks; any number of       *)
(* frames may come within one. The visitor's deque is admitted[first..]:   *)
(* what is pruned from it stays in admitted as history.                    *)
(***************************************************************************)
EXTENDS Integers, Sequences

CONSTANTS Budget,  \* settings.webchat_rate_limit_per_min
          Window,  \* window_seconds, in ticks
          MaxTime, \* bound: the clock
          MaxAdmitted \* bound: frames ever admitted

ASSUME LimiterAssumption == Budget \in Int /\ Window \in Nat /\ MaxTime \in Nat
                            /\ MaxAdmitted \in Nat

VARIABLES now,      \* time.monotonic()
          admitted, \* when a frame was recorded
          first,    \* the deque's oldest entry
          outcome   \* of the latest frame, until the clock moves

limiter == <<now, admitted, first, outcome>>

max_requests == IF Budget > 1 THEN Budget ELSE 1

LimiterInit == now = 0 /\ admitted = <<>> /\ first = 1 /\ outcome = "none"

Tick ==
    /\ \E t \in now + 1..MaxTime : now' = t
    /\ outcome' = "none"
    /\ UNCHANGED <<admitted, first>>

\* Mutant: an entry exactly as old as the window is kept.
Stale_Open(i) == admitted[i] < now - Window

\* An entry at the cutoff has left the window.
Stale(i) == admitted[i] <= now - Window

\* _prune stops at the first entry that is not stale.
Prune ==
    \E i \in first..Len(admitted) + 1 :
        /\ \A j \in first..i - 1 : Stale(j)
        /\ i <= Len(admitted) => ~Stale(i)
        /\ first' = i

\* Mutant: the limit is compared one too late.
Allow_OneMore ==
    /\ Len(admitted) < MaxAdmitted
    /\ Prune
    /\ IF Len(admitted) + 1 - first' > max_requests
       THEN outcome' = "refused" /\ UNCHANGED admitted
       ELSE outcome' = "allowed" /\ admitted' = Append(admitted, now)
    /\ UNCHANGED now

\* allow: a refused frame is not recorded.
AllowFrame ==
    /\ Len(admitted) < MaxAdmitted
    /\ Prune
    /\ IF Len(admitted) + 1 - first' >= max_requests
       THEN outcome' = "refused" /\ UNCHANGED admitted
       ELSE outcome' = "allowed" /\ admitted' = Append(admitted, now)
    /\ UNCHANGED now

LimiterNext == Tick \/ AllowFrame

LimiterSpec == LimiterInit /\ [][LimiterNext]_limiter

-----------------------------------------------------------------------------
\* No stretch of time shorter than the window holds more than max_requests
\* admitted frames, wherever it begins (channels/rate_limit.py:45-60): of any
\* max_requests + 1 frames in a row the last comes a window after the first.
WindowBudget ==
    \A i \in DOMAIN admitted : \A j \in DOMAIN admitted :
        j = i + max_requests => admitted[j] >= admitted[i] + Window

\* "a burst above the limit does not extend the lockout beyond the natural
\* window" (channels/rate_limit.py:32-34): a frame is refused only while
\* max_requests admitted ones are less than a window old.
NoLockout ==
    outcome = "refused" =>
        LET oldest == Len(admitted) + 1 - max_requests
        IN oldest >= 1 /\ \A j \in oldest..Len(admitted) : admitted[j] > now - Window
=============================================================================
