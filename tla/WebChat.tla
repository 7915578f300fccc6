------------------------------- MODULE WebChat -------------------------------
(***************************************************************************)
(* The web-chat registry entry of one visitor (channels/webchat.py): the   *)
(* handlers of the visitor's sockets, which displace each other, and the   *)
(* pushes of AI and agent replies, which drop a socket they fail to reach. *)
(* asyncio runs one task at a time, so an action is the code between two   *)
(* awaits.                                                                 *)
(***************************************************************************)
CONSTANTS Sockets,   \* the WebSocket connections the visitor ever opens
          NoSocket,
          Pushers    \* replies being pushed at the same time

ASSUME NoSocketAssumption == NoSocket \notin Sockets

VARIABLES registered, \* active_connections.get(visitor_id)
          stage,      \* stage[w]: where w's webchat_endpoint is; "leaked": it ended
                      \* by a path on which disconnect is not called
          closed,     \* sockets the server closed
          dead,       \* sockets whose peer went away
          pushing     \* pushing[p]: the socket p's send_to_visitor is sending to

chat == <<registered, stage, closed, dead, pushing>>

WebChatInit ==
    /\ registered = NoSocket
    /\ stage = [w \in Sockets |-> "new"]
    /\ closed = {} /\ dead = {}
    /\ pushing = [p \in Pushers |-> NoSocket]

MoveTo(w, s) == stage' = [stage EXCEPT ![w] = s]

\* A send to a peer that went away may fail or be buffered; one on a socket
\* the server closed always raises.
SendCanFail(w) == w \in closed \cup dead
SendCanPass(w) == w \notin closed

-----------------------------------------------------------------------------
\* connect, up to the await on the displaced socket's close when there is one;
\* closing a socket the server already closed raises at once, without yielding.
Accept(w) ==
    /\ stage[w] = "new"
    /\ IF registered \in {NoSocket} \cup closed
       THEN registered' = w /\ MoveTo(w, "greeting") /\ UNCHANGED closed
       ELSE /\ closed' = closed \cup {registered}
            /\ MoveTo(w, "displacing")
            /\ UNCHANGED registered
    /\ UNCHANGED <<dead, pushing>>

\* connect after that await, whatever happened to the registry meanwhile.
Register(w) ==
    /\ stage[w] = "displacing"
    /\ registered' = w
    /\ MoveTo(w, "greeting")
    /\ UNCHANGED <<closed, dead, pushing>>

Unregister_Inverted(w) == registered' = IF registered = w THEN registered ELSE NoSocket

\* disconnect(visitor_id, w): a stale socket must not evict its replacement.
Unregister(w) == registered' = IF registered = w THEN NoSocket ELSE registered

\* The greeting precedes the handler's try block.
Greet(w) ==
    /\ stage[w] = "greeting"
    /\ \/ SendCanPass(w) /\ MoveTo(w, "receiving")
       \/ SendCanFail(w) /\ MoveTo(w, "leaked")
    /\ UNCHANGED <<registered, closed, dead, pushing>>

Receive(w) ==
    /\ stage[w] = "receiving" /\ w \notin closed
    /\ MoveTo(w, "handling") \/ MoveTo(w, "limited")
    /\ UNCHANGED <<registered, closed, dead, pushing>>

\* The frame is routed, acknowledged as read or answered with an error.
Answer(w) ==
    /\ stage[w] = "handling" /\ SendCanPass(w)
    /\ MoveTo(w, "receiving")
    /\ UNCHANGED <<registered, closed, dead, pushing>>

\* Over the limit: audit, refuse, close, and break out of the loop.
Refuse(w) ==
    /\ stage[w] = "limited" /\ SendCanPass(w)
    /\ closed' = closed \cup {w}
    /\ MoveTo(w, "leaked")
    /\ UNCHANGED <<registered, dead, pushing>>

\* Any other end of the loop goes through an except clause that disconnects.
TearDown(w) ==
    /\ stage[w] \in {"receiving", "handling", "limited"} /\ SendCanFail(w)
    /\ Unregister(w)
    /\ MoveTo(w, "gone")
    /\ UNCHANGED <<closed, dead, pushing>>

-----------------------------------------------------------------------------
\* send_to_visitor reads the registry before it awaits the send, and on a
\* failure disconnects the visitor, not the socket that failed.
Push(p) ==
    /\ pushing[p] = NoSocket /\ registered # NoSocket
    /\ IF registered \in closed
       THEN registered' = NoSocket /\ UNCHANGED pushing
       ELSE pushing' = [pushing EXCEPT ![p] = registered] /\ UNCHANGED registered
    /\ UNCHANGED <<stage, closed, dead>>

PushEnds(p) ==
    /\ pushing[p] # NoSocket
    /\ \/ SendCanPass(pushing[p]) /\ UNCHANGED registered
       \/ SendCanFail(pushing[p]) /\ registered' = NoSocket
    /\ pushing' = [pushing EXCEPT ![p] = NoSocket]
    /\ UNCHANGED <<stage, closed, dead>>

\* The peer goes away (a refresh, a closed tab, a lost network).
PeerDies(w) ==
    /\ stage[w] # "new" /\ w \notin dead
    /\ dead' = dead \cup {w}
    /\ UNCHANGED <<registered, stage, closed, pushing>>

Handler(w) == Register(w) \/ Greet(w) \/ Answer(w) \/ Refuse(w) \/ TearDown(w)

WebChatNext ==
    \/ \E w \in Sockets : Accept(w) \/ Receive(w) \/ PeerDies(w) \/ Handler(w)
    \/ \E p \in Pushers : Push(p) \/ PushEnds(p)

\* asyncio schedules every runnable task; awaited sends, closes and receives on
\* a dead connection return, the latter when the server's ping times out.
WebChatFairness ==
    /\ \A w \in Sockets : WF_chat(Register(w) \/ Greet(w) \/ Refuse(w)) /\ WF_chat(TearDown(w))
    /\ \A p \in Pushers : WF_chat(PushEnds(p))

WebChatSpec == WebChatInit /\ [][WebChatNext]_chat
WebChatFairSpec == WebChatSpec /\ WebChatFairness

-----------------------------------------------------------------------------
\* A handler that tore its connection down leaves nothing behind: its socket is
\* not in the registry, and no later registration brings it back
\* (channels/webchat.py:511-515 against connect's late write at :74).
GoneIsUnregistered == \A w \in Sockets : stage[w] = "gone" => registered # w

\* A registered visitor whose peer went away does not stay registered for ever,
\* unless the handler ended by a path without disconnect.
DeadIsDropped ==
    \A w \in Sockets :
        (registered = w /\ w \in dead) ~> (registered # w \/ stage[w] = "leaked")

Serving(w) == stage[w] \in {"receiving", "handling"} /\ w \notin closed \cup dead

\* "a stale connection's teardown must not evict its replacement"
\* (channels/webchat.py:80-82): a socket that serves stays registered until it
\* is displaced or ends.
ServingStaysRegistered ==
    [][\A w \in Sockets : registered = w /\ Serving(w) => registered' # NoSocket]_chat

==============================================================================
