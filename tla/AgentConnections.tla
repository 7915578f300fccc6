--------------------------- MODULE AgentConnections ---------------------------
(***************************************************************************)
(* The agents' WebSocket registry (agents/websocket.py): an agent holds    *)
(* several connections, subscribes to conversations, and broadcasts walk   *)
(* the registry one awaited send at a time while it changes under them.    *)
(* An action is the code between two awaits.                               *)
(***************************************************************************)
CONSTANTS AgentIds, Conversations,
          Connections,  \* the sockets agents ever open
          Broadcasts,   \* broadcasts in progress at the same time
          Owner         \* Owner[w]: the agent that connection w belongs to

ASSUME OwnerAssumption == Owner \in [Connections -> AgentIds]

VARIABLES active_connections,  \* a dict: agent -> set of sockets
          agent_subscriptions, \* a dict: agent -> set of conversations
          handler,             \* handler[w]: "new", "running" or "ended"
          gone,                \* connections whose peer went away
          targets,             \* targets[b]: agents broadcast b has still to serve
          left,                \* left[b]: connections of the agent it is serving
          owed,                \* history: connections b had to reach when it began
          got                  \* history: connections b's message was sent to

registry == <<active_connections, agent_subscriptions>>
sends == <<targets, left, owed, got>>
conns == <<registry, handler, gone, sends>>

Connected == DOMAIN active_connections

ConnTypeOK ==
    /\ Connected \subseteq AgentIds
    /\ active_connections \in [Connected -> SUBSET Connections]
    /\ DOMAIN agent_subscriptions \subseteq AgentIds
    /\ agent_subscriptions \in [DOMAIN agent_subscriptions -> SUBSET Conversations]
    /\ handler \in [Connections -> {"new", "running", "ended"}]
    /\ gone \subseteq Connections
    /\ targets \in [Broadcasts -> SUBSET AgentIds]
    /\ left \in [Broadcasts -> SUBSET Connections]
    /\ owed \in [Broadcasts -> SUBSET Connections]
    /\ got \in [Broadcasts -> SUBSET Connections]

ConnInit ==
    /\ active_connections = [a \in {} |-> {}]
    /\ agent_subscriptions = [a \in {} |-> {}]
    /\ handler = [w \in Connections |-> "new"]
    /\ gone = {}
    /\ targets = [b \in Broadcasts |-> {}]
    /\ left = [b \in Broadcasts |-> {}]
    /\ owed = [b \in Broadcasts |-> {}]
    /\ got = [b \in Broadcasts |-> {}]

\* dict.get(a, default), dict[a] = v and dict.pop(a).
Lookup(d, a) == IF a \in DOMAIN d THEN d[a] ELSE {}
Put(d, a, v) == [x \in DOMAIN d \cup {a} |-> IF x = a THEN v ELSE d[x]]
Drop(d, a) == [x \in DOMAIN d \ {a} |-> d[x]]

-----------------------------------------------------------------------------
Connect(w) ==
    LET a == Owner[w]
    IN /\ handler[w] = "new"
       /\ handler' = [handler EXCEPT ![w] = "running"]
       /\ active_connections' = Put(active_connections, a, Lookup(active_connections, a) \cup {w})
       /\ agent_subscriptions' = Put(agent_subscriptions, a, Lookup(agent_subscriptions, a))
       /\ UNCHANGED <<gone, sends>>

\* One socket per agent: closing one tab tears down the others.
Disconnect_Agent(w) ==
    LET a == Owner[w]
    IN IF a \notin Connected
       THEN UNCHANGED registry
       ELSE /\ active_connections' = Drop(active_connections, a)
            /\ agent_subscriptions' = Drop(agent_subscriptions, a)

\* The connections go, the subscriptions stay.
Disconnect_KeepsSubscriptions(w) ==
    LET a == Owner[w]
        rest == Lookup(active_connections, a) \ {w}
    IN /\ active_connections' = IF rest = {} THEN Drop(active_connections, a)
                                             ELSE Put(active_connections, a, rest)
       /\ UNCHANGED agent_subscriptions

\* Subscriptions go with the agent's last connection only.
Disconnect(w) ==
    LET a == Owner[w]
        rest == Lookup(active_connections, a) \ {w}
    IN IF a \notin Connected
       THEN UNCHANGED registry
       ELSE IF rest = {}
            THEN /\ active_connections' = Drop(active_connections, a)
                 /\ agent_subscriptions' = Drop(agent_subscriptions, a)
            ELSE /\ active_connections' = Put(active_connections, a, rest)
                 /\ UNCHANGED agent_subscriptions

Subscribe(w, c) ==
    LET a == Owner[w]
    IN /\ handler[w] = "running" /\ a \in DOMAIN agent_subscriptions
       /\ agent_subscriptions' = [agent_subscriptions EXCEPT ![a] = @ \cup {c}]
       /\ UNCHANGED <<active_connections, handler, gone, sends>>

Unsubscribe(w, c) ==
    LET a == Owner[w]
    IN /\ handler[w] = "running" /\ a \in DOMAIN agent_subscriptions
       /\ agent_subscriptions' = [agent_subscriptions EXCEPT ![a] = @ \ {c}]
       /\ UNCHANGED <<active_connections, handler, gone, sends>>

PeerGoes(w) ==
    /\ handler[w] = "running" /\ w \notin gone
    /\ gone' = gone \cup {w}
    /\ UNCHANGED <<registry, handler, sends>>

\* The handler's receive or its own answer fails.
HandlerEnds(w) ==
    /\ handler[w] = "running" /\ w \in gone
    /\ handler' = [handler EXCEPT ![w] = "ended"]
    /\ Disconnect(w)
    /\ UNCHANGED <<gone, sends>>

-----------------------------------------------------------------------------
Idle(b) == targets[b] = {} /\ left[b] = {}

\* Go on with an agent of todo, whose connections are read only now; an agent
\* passed by without one is not returned to.
Serve(b, todo) ==
    \/ /\ todo \cap DOMAIN active_connections' = {}
       /\ targets' = [targets EXCEPT ![b] = {}]
       /\ left' = [left EXCEPT ![b] = {}]
    \/ \E a \in todo \cap DOMAIN active_connections' :
       \E passed \in SUBSET (todo \ DOMAIN active_connections') :
          /\ targets' = [targets EXCEPT ![b] = todo \ ({a} \cup passed)]
          /\ left' = [left EXCEPT ![b] = active_connections'[a]]

Reachable(as) == UNION {active_connections[a] : a \in as \cap Connected}

\* broadcast_to_agents, to every agent or to the subscribers of c.
Begin(b, as) ==
    /\ Idle(b)
    /\ owed' = [owed EXCEPT ![b] = Reachable(as) \ gone]
    /\ got' = [got EXCEPT ![b] = {}]
    /\ UNCHANGED <<registry, handler, gone>>
    /\ Serve(b, as)

Subscribers(c) == {a \in DOMAIN agent_subscriptions : c \in agent_subscriptions[a]}

Broadcast(b) ==
    \/ Begin(b, Connected)
    \/ \E c \in Conversations : Begin(b, Subscribers(c))

\* What follows a send: the agent's next connection, or the next agent.
Proceed(b, w) ==
    IF left[b] = {w}
    THEN Serve(b, targets[b])
    ELSE left' = [left EXCEPT ![b] = @ \ {w}] /\ UNCHANGED targets

Sent(b, w) ==
    /\ w \in left[b]
    /\ got' = [got EXCEPT ![b] = @ \cup {w}]
    /\ UNCHANGED <<registry, handler, gone, owed>>
    /\ Proceed(b, w)

\* An uncaught exception would end the broadcast where it is.
SendFails_Aborts(b, w) ==
    /\ w \in left[b] /\ w \in gone
    /\ Disconnect(w)
    /\ targets' = [targets EXCEPT ![b] = {}]
    /\ left' = [left EXCEPT ![b] = {}]
    /\ UNCHANGED <<handler, gone, owed, got>>

\* A failing send costs its own connection and nobody else's message.
SendFails(b, w) ==
    /\ w \in left[b] /\ w \in gone
    /\ Disconnect(w)
    /\ UNCHANGED <<handler, gone, owed, got>>
    /\ Proceed(b, w)

ConnNext ==
    \/ \E w \in Connections :
          \/ Connect(w) \/ PeerGoes(w) \/ HandlerEnds(w)
          \/ \E c \in Conversations : Subscribe(w, c) \/ Unsubscribe(w, c)
    \/ \E b \in Broadcasts :
          \/ Broadcast(b)
          \/ \E w \in Connections : Sent(b, w) \/ SendFails(b, w)

ConnSpec == ConnInit /\ [][ConnNext]_conns

-----------------------------------------------------------------------------
\* An agent is listed exactly while it has a connection, and its subscriptions
\* live exactly as long (agents/websocket.py:46-55): no broadcast goes to an
\* agent without one and none forgets a connected subscriber.
KeysTogether ==
    /\ DOMAIN agent_subscriptions = Connected
    /\ \A a \in Connected : active_connections[a] # {}

\* "closing one never tears down another" (agents/websocket.py:29-32): while its
\* handler runs and its peer is there, a connection is in the registry.
OpenIsListed ==
    \A w \in Connections :
        handler[w] = "running" /\ w \notin gone =>
            Owner[w] \in Connected /\ w \in active_connections[Owner[w]]

\* A broadcast that is done has reached every connection of its agents that was
\* there when it began and stayed, whatever connected, disconnected or failed
\* meanwhile (agents/websocket.py:57-89).
BroadcastReachesAll == \A b \in Broadcasts : Idle(b) => owed[b] \subseteq got[b] \cup gone

\* The registry holds a connection under its own agent, while its handler runs.
ListedIsOwned ==
    \A a \in Connected : \A w \in active_connections[a] :
        Owner[w] = a /\ handler[w] = "running"

\* What a broadcast still owes it will still visit: the invariant behind
\* BroadcastReachesAll.
StillOwed(b) == owed[b] \ (got[b] \cup gone)
WillVisit ==
    \A b \in Broadcasts : \A w \in StillOwed(b) :
        /\ handler[w] = "running"
        /\ w \in left[b] \/ Owner[w] \in targets[b]
=============================================================================
