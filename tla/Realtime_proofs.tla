-------------------------- MODULE Realtime_proofs -----------------------------
(***************************************************************************)
(* The channels with live connections or deliveries: what the agents'      *)
(* registry, the web chat's registry and the WhatsApp webhook promise, for *)
(* any number of agents, sockets, requests and payloads.                   *)
(***************************************************************************)
EXTENDS AgentConnections, WebChat, Webhook, TLAPS

(***************************************************************************)
(* The agents' registry. The invariant says whose connection a broadcast   *)
(* finds, and what it has yet to visit.                                    *)
(***************************************************************************)

\* The registry's own part of the invariant, and the whole of it: ListedIsOwned
\* says whose connection a broadcast finds, WillVisit what it has yet to do.
RegistryInv ==
    /\ active_connections \in [Connected -> SUBSET Connections]
    /\ agent_subscriptions \in [DOMAIN agent_subscriptions -> SUBSET Conversations]
    /\ Connected \subseteq AgentIds
    /\ handler \in [Connections -> {"new", "running", "ended"}]
    /\ gone \subseteq Connections
    /\ KeysTogether
    /\ ListedIsOwned
    /\ OpenIsListed

SendsType ==
    /\ targets \in [Broadcasts -> SUBSET AgentIds]
    /\ left \in [Broadcasts -> SUBSET Connections]
    /\ owed \in [Broadcasts -> SUBSET Connections]
    /\ got \in [Broadcasts -> SUBSET Connections]

ConnInv == RegistryInv /\ SendsType /\ WillVisit

Rest(a, w) == IF a = Owner[w] THEN active_connections[a] \ {w} ELSE active_connections[a]

\* Disconnect takes one connection out, and its agent with the last of them.
LEMMA DisconnectEffect ==
    ASSUME RegistryInv, NEW w \in Connections, Disconnect(w)
    PROVE  /\ Connected' = {a \in Connected : Rest(a, w) # {}}
           /\ \A a \in Connected' : active_connections'[a] = Rest(a, w)
           /\ active_connections' \in [Connected' -> SUBSET Connections]
           /\ agent_subscriptions' \in [DOMAIN agent_subscriptions' -> SUBSET Conversations]
           /\ DOMAIN agent_subscriptions' = Connected'
<1> DEFINE a0 == Owner[w]
           rest == Lookup(active_connections, a0) \ {w}
<1>0. /\ active_connections \in [Connected -> SUBSET Connections]
      /\ agent_subscriptions \in [Connected -> SUBSET Conversations]
      /\ DOMAIN agent_subscriptions = Connected
      /\ \A a \in Connected : active_connections[a] # {}
  BY DEF RegistryInv, KeysTogether
<1>1. CASE a0 \notin Connected
  <2>1. UNCHANGED registry
    BY <1>1 DEF Disconnect
  <2> QED BY <1>0, <1>1, <2>1 DEF registry, Connected, Rest
<1>2. CASE a0 \in Connected /\ rest = {}
  <2>1. /\ active_connections' = Drop(active_connections, a0)
        /\ agent_subscriptions' = Drop(agent_subscriptions, a0)
    BY <1>2 DEF Disconnect
  <2>2. /\ Connected' = Connected \ {a0}
        /\ \A a \in Connected \ {a0} : active_connections'[a] = active_connections[a]
    BY <2>1 DEF Connected, Drop
  <2>3. active_connections[a0] \ {w} = {}
    BY <1>2 DEF Lookup, Connected
  <2> QED BY <1>0, <2>1, <2>2, <2>3 DEF Rest, Drop, Connected
<1>3. CASE a0 \in Connected /\ rest # {}
  <2>1. /\ active_connections' = Put(active_connections, a0, rest)
        /\ agent_subscriptions' = agent_subscriptions
    BY <1>3 DEF Disconnect
  <2>2. rest = active_connections[a0] \ {w} /\ rest \subseteq Connections
    BY <1>0, <1>3 DEF Lookup, Connected
  <2>3. /\ Connected' = Connected
        /\ \A a \in Connected : active_connections'[a] = IF a = a0 THEN rest ELSE active_connections[a]
        /\ active_connections' = [x \in Connected |-> IF x = a0 THEN rest ELSE active_connections[x]]
    BY <1>3, <2>1 DEF Connected, Put
  <2> QED BY <1>0, <1>3, <2>1, <2>2, <2>3 DEF Rest
<1> QED BY <1>1, <1>2, <1>3

\* A connection whose peer is gone may leave, with its handler or before it.
LEMMA DisconnectKeepsRegistry ==
    ASSUME RegistryInv, NEW w \in gone, Disconnect(w), gone' = gone,
           handler' \in {handler, [handler EXCEPT ![w] = "ended"]}
    PROVE  RegistryInv'
<1>0. w \in Connections BY DEF RegistryInv
<1>1. /\ Connected' = {a \in Connected : Rest(a, w) # {}}
      /\ \A a \in Connected' : active_connections'[a] = Rest(a, w)
      /\ active_connections' \in [Connected' -> SUBSET Connections]
      /\ agent_subscriptions' \in [DOMAIN agent_subscriptions' -> SUBSET Conversations]
      /\ DOMAIN agent_subscriptions' = Connected'
  BY <1>0, DisconnectEffect
<1>2. /\ handler' \in [Connections -> {"new", "running", "ended"}]
      /\ \A v \in Connections : v # w => handler'[v] = handler[v]
  BY <1>0 DEF RegistryInv
<1>3. KeysTogether'
  BY <1>1 DEF KeysTogether
<1>4. ListedIsOwned'
  <2>1. ASSUME NEW a \in Connected', NEW v \in active_connections'[a]
        PROVE  Owner[v] = a /\ handler'[v] = "running"
    <3>1. a \in Connected /\ v \in Rest(a, w)
      BY <1>1, <2>1
    <3>2. v \in active_connections[a] /\ (a = Owner[w] => v # w)
      BY <3>1 DEF Rest
    <3>3. Owner[v] = a /\ handler[v] = "running"
      BY <3>1, <3>2 DEF RegistryInv, ListedIsOwned
    <3>4. v # w /\ v \in Connections
      BY <3>1, <3>2, <3>3 DEF RegistryInv
    <3> QED BY <1>2, <3>3, <3>4
  <2> QED BY <2>1 DEF ListedIsOwned
<1>5. OpenIsListed'
  <2>1. ASSUME NEW v \in Connections, handler'[v] = "running", v \notin gone
        PROVE  Owner[v] \in Connected' /\ v \in active_connections'[Owner[v]]
    <3>1. v # w /\ handler[v] = "running"
      BY <1>2, <2>1
    <3>2. Owner[v] \in Connected /\ v \in active_connections[Owner[v]]
      BY <2>1, <3>1 DEF RegistryInv, OpenIsListed
    <3>3. v \in Rest(Owner[v], w)
      BY <3>1, <3>2 DEF Rest
    <3> QED BY <1>1, <3>2, <3>3
  <2> QED BY <2>1 DEF OpenIsListed
<1>6. Connected' \subseteq AgentIds
  BY <1>1 DEF RegistryInv
<1> QED BY <1>1, <1>2, <1>3, <1>4, <1>5, <1>6 DEF RegistryInv

\* A new connection joins its agent's others.
LEMMA ConnectKeepsRegistry ==
    ASSUME RegistryInv, OwnerAssumption, NEW w \in Connections, Connect(w)
    PROVE  RegistryInv'
<1> DEFINE a0 == Owner[w]
           more == Lookup(active_connections, a0) \cup {w}
           subs == Lookup(agent_subscriptions, a0)
<1>0. /\ handler[w] = "new" /\ handler' = [handler EXCEPT ![w] = "running"]
      /\ active_connections' = Put(active_connections, a0, more)
      /\ agent_subscriptions' = Put(agent_subscriptions, a0, subs)
      /\ gone' = gone
      /\ a0 \in AgentIds
  BY DEF Connect, OwnerAssumption
<1>1. /\ active_connections \in [Connected -> SUBSET Connections]
      /\ agent_subscriptions \in [Connected -> SUBSET Conversations]
      /\ DOMAIN agent_subscriptions = Connected
      /\ \A a \in Connected : active_connections[a] # {}
      /\ Connected \subseteq AgentIds
  BY DEF RegistryInv, KeysTogether
<1>2. /\ Connected' = Connected \cup {a0}
      /\ active_connections' = [x \in Connected \cup {a0} |-> IF x = a0 THEN more ELSE active_connections[x]]
  BY <1>0 DEF Put, Connected
<1>3. /\ DOMAIN agent_subscriptions' = Connected'
      /\ agent_subscriptions' = [x \in Connected \cup {a0} |-> IF x = a0 THEN subs ELSE agent_subscriptions[x]]
  BY <1>0, <1>1, <1>2 DEF Put
<1>4. /\ a0 \in Connected => more = active_connections[a0] \cup {w}
      /\ a0 \notin Connected => more = {w}
      /\ more \subseteq Connections /\ w \in more
      /\ subs \subseteq Conversations
  BY <1>1 DEF Lookup, Connected
<1>5. /\ handler' \in [Connections -> {"new", "running", "ended"}]
      /\ handler'[w] = "running"
      /\ \A v \in Connections : v # w => handler'[v] = handler[v]
  BY <1>0 DEF RegistryInv
<1>6. KeysTogether'
  BY <1>1, <1>2, <1>3, <1>4 DEF KeysTogether
<1>7. ListedIsOwned'
  <2>1. ASSUME NEW a \in Connected', NEW v \in active_connections'[a]
        PROVE  Owner[v] = a /\ handler'[v] = "running"
    <3>1. CASE v = w /\ a = a0
      BY <3>1, <1>5
    <3>2. CASE v # w \/ a # a0
      <4>1. a \in Connected /\ v \in active_connections[a]
        BY <2>1, <3>2, <1>2, <1>4
      <4>2. Owner[v] = a /\ handler[v] = "running" /\ v \in Connections
        BY <4>1, <1>1 DEF RegistryInv, ListedIsOwned
      <4> QED BY <4>2, <1>5
    <3> QED BY <3>1, <3>2
  <2> QED BY <2>1 DEF ListedIsOwned
<1>8. OpenIsListed'
  <2>1. ASSUME NEW v \in Connections, handler'[v] = "running", v \notin gone
        PROVE  Owner[v] \in Connected' /\ v \in active_connections'[Owner[v]]
    <3>1. CASE v = w
      BY <3>1, <1>2, <1>4
    <3>2. CASE v # w
      <4>1. Owner[v] \in Connected /\ v \in active_connections[Owner[v]]
        BY <2>1, <3>2, <1>5 DEF RegistryInv, OpenIsListed
      <4> QED BY <4>1, <1>2, <1>4
    <3> QED BY <3>1, <3>2
  <2> QED BY <1>0, <2>1 DEF OpenIsListed
<1>9. active_connections' \in [Connected' -> SUBSET Connections]
  <2>1. \A x \in Connected \cup {a0} :
           (IF x = a0 THEN more ELSE active_connections[x]) \in SUBSET Connections
    BY <1>1, <1>4
  <2> HIDE DEF more
  <2> QED BY <1>2, <2>1
<1>10. agent_subscriptions' \in [DOMAIN agent_subscriptions' -> SUBSET Conversations]
  <2>1. \A x \in Connected \cup {a0} :
           (IF x = a0 THEN subs ELSE agent_subscriptions[x]) \in SUBSET Conversations
    BY <1>1, <1>4
  <2> HIDE DEF subs
  <2> QED BY <1>2, <1>3, <2>1
<1>11. Connected' \subseteq AgentIds /\ gone' \subseteq Connections
  BY <1>0, <1>1, <1>2 DEF RegistryInv
<1> QED BY <1>5, <1>6, <1>7, <1>8, <1>9, <1>10, <1>11 DEF RegistryInv

\* Every other step of the handlers leaves the registry's shape alone.
LEMMA RegistryStep ==
    ASSUME RegistryInv, OwnerAssumption, SendsType, ConnNext
    PROVE  RegistryInv'
<1>1. CASE \E w \in Connections : Connect(w)
  BY <1>1, ConnectKeepsRegistry
<1>2. CASE \E w \in Connections : PeerGoes(w)
  BY <1>2 DEF PeerGoes, RegistryInv, registry, KeysTogether, ListedIsOwned, OpenIsListed, Connected
<1>3. CASE \E w \in Connections : HandlerEnds(w)
  BY <1>3, DisconnectKeepsRegistry DEF HandlerEnds
<1>4. CASE \E w \in Connections, c \in Conversations : Subscribe(w, c) \/ Unsubscribe(w, c)
  <2>1. PICK a \in DOMAIN agent_subscriptions, c \in Conversations :
           /\ \/ agent_subscriptions' = [agent_subscriptions EXCEPT ![a] = @ \cup {c}]
              \/ agent_subscriptions' = [agent_subscriptions EXCEPT ![a] = @ \ {c}]
           /\ UNCHANGED <<active_connections, handler, gone>>
    BY <1>4 DEF Subscribe, Unsubscribe
  <2>2. /\ agent_subscriptions' \in [DOMAIN agent_subscriptions -> SUBSET Conversations]
        /\ DOMAIN agent_subscriptions' = DOMAIN agent_subscriptions
    BY <2>1 DEF RegistryInv
  <2> QED BY <2>1, <2>2 DEF RegistryInv, KeysTogether, ListedIsOwned, OpenIsListed, Connected
<1>5. CASE \E b \in Broadcasts : Broadcast(b)
  <2>1. UNCHANGED <<registry, handler, gone>>
    BY <1>5 DEF Broadcast, Begin
  <2> QED BY <2>1 DEF RegistryInv, registry, KeysTogether, ListedIsOwned, OpenIsListed, Connected
<1>6. CASE \E b \in Broadcasts, w \in Connections : Sent(b, w)
  <2>1. UNCHANGED <<registry, handler, gone>>
    BY <1>6 DEF Sent
  <2> QED BY <2>1 DEF RegistryInv, registry, KeysTogether, ListedIsOwned, OpenIsListed, Connected
<1>7. CASE \E b \in Broadcasts, w \in Connections : SendFails(b, w)
  BY <1>7, DisconnectKeepsRegistry DEF SendFails
<1> QED BY <1>1, <1>2, <1>3, <1>4, <1>5, <1>6, <1>7 DEF ConnNext

\* A broadcast that goes on visits every agent it still has to: those it passes
\* by have no connection, so nobody it owes the message to.
LEMMA ServeVisits ==
    ASSUME SendsType, RegistryInv', NEW b \in Broadcasts,
           NEW todo \in SUBSET AgentIds, Serve(b, todo),
           NEW w \in Connections, w \notin gone', handler'[w] = "running", Owner[w] \in todo
    PROVE  w \in left'[b] \/ Owner[w] \in targets'[b]
<1>1. Owner[w] \in Connected' /\ w \in active_connections'[Owner[w]]
  BY DEF RegistryInv, OpenIsListed
<1>2. PICK a \in todo, passed \in SUBSET (todo \ Connected') :
         /\ targets' = [targets EXCEPT ![b] = todo \ ({a} \cup passed)]
         /\ left' = [left EXCEPT ![b] = active_connections'[a]]
  BY <1>1 DEF Serve, Connected
<1>3. targets'[b] = todo \ ({a} \cup passed) /\ left'[b] = active_connections'[a]
  BY <1>2 DEF SendsType
<1> QED BY <1>1, <1>2, <1>3

\* Serving leaves the other broadcasts alone and its own bookkeeping well-typed.
LEMMA ServeType ==
    ASSUME SendsType, RegistryInv', NEW b \in Broadcasts,
           NEW todo \in SUBSET AgentIds, Serve(b, todo)
    PROVE  /\ targets' \in [Broadcasts -> SUBSET AgentIds]
           /\ left' \in [Broadcasts -> SUBSET Connections]
           /\ \A o \in Broadcasts \ {b} : targets'[o] = targets[o] /\ left'[o] = left[o]
<1>1. PICK t \in SUBSET AgentIds, l \in SUBSET Connections :
         /\ targets' = [targets EXCEPT ![b] = t]
         /\ left' = [left EXCEPT ![b] = l]
  <2>1. CASE /\ targets' = [targets EXCEPT ![b] = {}]
             /\ left' = [left EXCEPT ![b] = {}]
    BY <2>1
  <2>2. ASSUME NEW a \in todo \cap Connected', NEW passed \in SUBSET (todo \ Connected'),
               targets' = [targets EXCEPT ![b] = todo \ ({a} \cup passed)],
               left' = [left EXCEPT ![b] = active_connections'[a]]
        PROVE  \E t \in SUBSET AgentIds, l \in SUBSET Connections :
                  /\ targets' = [targets EXCEPT ![b] = t]
                  /\ left' = [left EXCEPT ![b] = l]
    <3>1. active_connections'[a] \in SUBSET Connections
      BY <2>2 DEF RegistryInv
    <3>2. todo \ ({a} \cup passed) \in SUBSET AgentIds
      OBVIOUS
    <3> QED BY <2>2, <3>1, <3>2
  <2> QED BY <2>1, <2>2 DEF Serve, Connected
<1> QED BY <1>1 DEF SendsType

\* A send that has ended takes its connection off the list and goes on.
LEMMA ProceedVisits ==
    ASSUME ConnInv, RegistryInv', NEW b \in Broadcasts, NEW v \in left[b], Proceed(b, v),
           gone' = gone, handler' = handler, owed' = owed,
           \/ got' = [got EXCEPT ![b] = @ \cup {v}]
           \/ got' = got /\ v \in gone
    PROVE  SendsType' /\ WillVisit'
<1>0. /\ SendsType /\ WillVisit
      /\ v \in Connections /\ targets[b] \in SUBSET AgentIds
      /\ got' \in [Broadcasts -> SUBSET Connections]
      /\ \A o \in Broadcasts : got[o] \subseteq got'[o]
      /\ v \in got'[b] \cup gone
  BY DEF ConnInv, SendsType
<1>1. /\ targets' \in [Broadcasts -> SUBSET AgentIds]
      /\ left' \in [Broadcasts -> SUBSET Connections]
      /\ \A o \in Broadcasts \ {b} : targets'[o] = targets[o] /\ left'[o] = left[o]
  <2>1. CASE left[b] = {v}
    BY <1>0, <2>1, ServeType DEF Proceed
  <2>2. CASE left[b] # {v}
    BY <1>0, <2>2 DEF Proceed, SendsType
  <2> QED BY <2>1, <2>2
<1>2. ASSUME NEW o \in Broadcasts, NEW w \in StillOwed(o)'
      PROVE  handler'[w] = "running" /\ (w \in left'[o] \/ Owner[w] \in targets'[o])
  <2>1. w \in StillOwed(o) /\ w \in Connections /\ w \notin gone
    BY <1>0, <1>2 DEF StillOwed, SendsType
  <2>2. handler'[w] = "running" /\ (w \in left[o] \/ Owner[w] \in targets[o])
    BY <1>0, <2>1 DEF WillVisit
  <2>3. CASE o # b
    BY <1>1, <2>2, <2>3
  <2>4. CASE o = b
    <3>1. w # v
      BY <1>0, <1>2, <2>1, <2>4 DEF StillOwed
    <3>2. CASE left[b] = {v}
      <4>1. Owner[w] \in targets[b] /\ Serve(b, targets[b])
        BY <2>2, <2>4, <3>1, <3>2 DEF Proceed
      <4> QED BY <1>0, <2>1, <2>2, <2>4, <4>1, ServeVisits
    <3>3. CASE left[b] # {v}
      <4>1. left'[b] = left[b] \ {v} /\ targets' = targets
        BY <1>0, <3>3 DEF Proceed, SendsType
      <4> QED BY <2>2, <2>4, <3>1, <4>1
    <3> QED BY <3>2, <3>3
  <2> QED BY <2>3, <2>4
<1> QED BY <1>0, <1>1, <1>2 DEF SendsType, WillVisit

\* A new broadcast owes its message to open connections of its agents only.
LEMMA BeginVisits ==
    ASSUME ConnInv, RegistryInv', NEW b \in Broadcasts, NEW as \in SUBSET AgentIds, Begin(b, as)
    PROVE  SendsType' /\ WillVisit'
<1>0. /\ SendsType /\ WillVisit /\ RegistryInv
      /\ owed' = [owed EXCEPT ![b] = Reachable(as) \ gone]
      /\ got' = [got EXCEPT ![b] = {}]
      /\ UNCHANGED <<handler, gone>> /\ Serve(b, as)
  BY DEF ConnInv, Begin
<1>1. ASSUME NEW w \in Reachable(as)
      PROVE  w \in Connections /\ handler[w] = "running" /\ Owner[w] \in as
  <2>1. PICK a \in as \cap Connected : w \in active_connections[a]
    BY <1>1 DEF Reachable
  <2>2. Owner[w] = a /\ handler[w] = "running"
    BY <1>0, <2>1 DEF RegistryInv, ListedIsOwned
  <2>3. active_connections[a] \in SUBSET Connections
    BY <1>0, <2>1 DEF RegistryInv
  <2> QED BY <2>1, <2>2, <2>3
<1>2. /\ targets' \in [Broadcasts -> SUBSET AgentIds]
      /\ left' \in [Broadcasts -> SUBSET Connections]
      /\ \A o \in Broadcasts \ {b} : targets'[o] = targets[o] /\ left'[o] = left[o]
  BY <1>0, ServeType
<1>3. /\ owed' \in [Broadcasts -> SUBSET Connections]
      /\ got' \in [Broadcasts -> SUBSET Connections]
      /\ \A o \in Broadcasts \ {b} : owed'[o] = owed[o] /\ got'[o] = got[o]
      /\ owed'[b] = Reachable(as) \ gone
  BY <1>0, <1>1 DEF SendsType
<1>4. ASSUME NEW o \in Broadcasts, NEW w \in StillOwed(o)'
      PROVE  handler'[w] = "running" /\ (w \in left'[o] \/ Owner[w] \in targets'[o])
  <2>1. CASE o # b
    <3>1. w \in StillOwed(o)
      BY <1>0, <1>3, <1>4, <2>1 DEF StillOwed
    <3> QED BY <1>0, <1>2, <2>1, <3>1 DEF WillVisit
  <2>2. CASE o = b
    <3>1. w \in Reachable(as) /\ w \notin gone'
      BY <1>0, <1>3, <1>4, <2>2 DEF StillOwed
    <3> QED BY <1>0, <1>1, <2>2, <3>1, ServeVisits
  <2> QED BY <2>1, <2>2
<1> QED BY <1>2, <1>3, <1>4 DEF SendsType, WillVisit

\* The invariant is inductive.
LEMMA ConnInvStep ==
    ASSUME ConnInv, OwnerAssumption, [ConnNext]_conns
    PROVE  ConnInv'
<1>0. RegistryInv /\ SendsType /\ WillVisit
  BY DEF ConnInv
<1>1. CASE UNCHANGED conns
  BY <1>0, <1>1 DEF conns, registry, sends, ConnInv, RegistryInv, KeysTogether, ListedIsOwned,
                    OpenIsListed, Connected, SendsType, WillVisit, StillOwed
<1>2. CASE ConnNext
  <2>0. RegistryInv'
    BY <1>0, <1>2, RegistryStep
  <2>1. CASE \E w \in Connections : Connect(w)
    <3>1. PICK w \in Connections : Connect(w)
      BY <2>1
    <3>2. /\ UNCHANGED <<targets, left, owed, got, gone>>
          /\ handler[w] = "new"
          /\ \A v \in Connections : v # w => handler'[v] = handler[v]
      BY <1>0, <3>1 DEF Connect, sends, RegistryInv
    <3>3. \A o \in Broadcasts : \A v \in StillOwed(o)' : v \in StillOwed(o) /\ v \in Connections /\ handler'[v] = handler[v]
      BY <1>0, <3>2 DEF StillOwed, SendsType, WillVisit
    <3> QED BY <1>0, <2>0, <3>2, <3>3 DEF ConnInv, SendsType, WillVisit
  <2>2. CASE \E w \in Connections : PeerGoes(w)
    <3>1. UNCHANGED <<targets, left, owed, got, handler>> /\ gone \subseteq gone'
      BY <2>2 DEF PeerGoes, sends
    <3> QED BY <1>0, <2>0, <3>1 DEF ConnInv, SendsType, WillVisit, StillOwed
  <2>3. CASE \E w \in Connections : HandlerEnds(w)
    <3>1. PICK w \in Connections : HandlerEnds(w)
      BY <2>3
    <3>2. /\ UNCHANGED <<targets, left, owed, got, gone>> /\ w \in gone
          /\ \A v \in Connections : v # w => handler'[v] = handler[v]
      BY <1>0, <3>1 DEF HandlerEnds, sends, RegistryInv
    <3>3. \A o \in Broadcasts : \A v \in StillOwed(o)' : v \in StillOwed(o) /\ v \in Connections /\ handler'[v] = handler[v]
      BY <1>0, <3>2 DEF StillOwed, SendsType
    <3> QED BY <1>0, <2>0, <3>2, <3>3 DEF ConnInv, SendsType, WillVisit
  <2>4. CASE \E w \in Connections, c \in Conversations : Subscribe(w, c) \/ Unsubscribe(w, c)
    <3>1. UNCHANGED <<targets, left, owed, got, handler, gone>>
      BY <2>4 DEF Subscribe, Unsubscribe, sends
    <3> QED BY <1>0, <2>0, <3>1 DEF ConnInv, SendsType, WillVisit, StillOwed
  <2>5. CASE \E b \in Broadcasts : Broadcast(b)
    <3>1. PICK b \in Broadcasts : Broadcast(b)
      BY <2>5
    <3>2. PICK as \in SUBSET AgentIds : Begin(b, as)
      <4>1. Connected \in SUBSET AgentIds /\ \A c : Subscribers(c) \in SUBSET AgentIds
        BY <1>0 DEF RegistryInv, Subscribers, KeysTogether
      <4> QED BY <3>1, <4>1 DEF Broadcast
    <3> QED BY <2>0, <3>2, BeginVisits DEF ConnInv
  <2>6. CASE \E b \in Broadcasts, w \in Connections : Sent(b, w)
    <3>1. PICK b \in Broadcasts, w \in Connections : Sent(b, w)
      BY <2>6
    <3> QED BY <2>0, <3>1, ProceedVisits DEF ConnInv, Sent
  <2>7. CASE \E b \in Broadcasts, w \in Connections : SendFails(b, w)
    <3>1. PICK b \in Broadcasts, w \in Connections : SendFails(b, w)
      BY <2>7
    <3> QED BY <2>0, <3>1, ProceedVisits DEF ConnInv, SendFails
  <2> QED BY <1>2, <2>1, <2>2, <2>3, <2>4, <2>5, <2>6, <2>7 DEF ConnNext
<1> QED BY <1>1, <1>2

LEMMA ConnInvInit ==
    ConnInit => ConnInv
BY DEF ConnInit, ConnInv, RegistryInv, KeysTogether, ListedIsOwned, OpenIsListed, Connected,
       SendsType, WillVisit, StillOwed

\* The invariant holds in every reachable state.
THEOREM ConnInvHolds == ConnSpec => []ConnInv
<1>1. ConnInv /\ [ConnNext]_conns => ConnInv'
  BY ConnInvStep, OwnerAssumption
<1> QED BY ConnInvInit, <1>1, PTL DEF ConnSpec

\* Agents, connections and subscriptions come and go together
\* (agents/websocket.py:39-55), however handlers and broadcasts interleave.
THEOREM RegistryIsSound == ConnSpec => [](ConnTypeOK /\ KeysTogether)
<1>1. ConnInv => ConnTypeOK /\ KeysTogether
  BY DEF ConnInv, RegistryInv, SendsType, ConnTypeOK, KeysTogether
<1> QED BY ConnInvHolds, <1>1, PTL

\* An open socket is in the registry, in its agent's entry: no disconnect, failed
\* send or unsubscription of another removes it (agents/websocket.py:33-55).
THEOREM OpenSocketsListed == ConnSpec => []OpenIsListed
<1>1. ConnInv => OpenIsListed BY DEF ConnInv, RegistryInv
<1> QED BY ConnInvHolds, <1>1, PTL

\* A finished broadcast has reached every connection it was meant for that did
\* not go away (agents/websocket.py:57-89), whatever failed on the way.
THEOREM BroadcastsReachAll == ConnSpec => []BroadcastReachesAll
<1>1. ConnInv => BroadcastReachesAll
  <2> SUFFICES ASSUME ConnInv, NEW b \in Broadcasts, Idle(b), NEW w \in owed[b],
                      w \notin got[b] \cup gone
               PROVE  FALSE
    BY DEF BroadcastReachesAll
  <2>1. w \in left[b] \/ Owner[w] \in targets[b]
    BY DEF ConnInv, WillVisit, StillOwed
  <2> QED BY <2>1 DEF Idle
<1> QED BY ConnInvHolds, <1>1, PTL

(***************************************************************************)
(* The web chat's registry, with evictions, displacements and failed       *)
(* sends.                                                                  *)
(***************************************************************************)

Stages == {"new", "displacing", "greeting", "receiving", "handling", "limited", "gone", "leaked"}

\* A handler that has not registered its socket yet, or has unregistered it, does not
\* find it in the registry: one socket is entered by one handler, once.
WebChatInv ==
    /\ stage \in [Sockets -> Stages]
    /\ \A w \in Sockets : stage[w] \in {"new", "displacing", "gone"} => registered # w

LEMMA StageMoves ==
    ASSUME WebChatInv, NEW w \in Sockets, NEW s \in Stages, MoveTo(w, s),
           registered' \in {registered, w, NoSocket},
           registered' = w => s \notin {"new", "displacing", "gone"}
    PROVE  WebChatInv'
<1>1. stage' \in [Sockets -> Stages] /\ stage'[w] = s /\ \A v \in Sockets \ {w} : stage'[v] = stage[v]
  BY DEF WebChatInv, MoveTo
<1> QED
  BY <1>1, NoSocketAssumption DEF WebChatInv, NoSocketAssumption

\* The registry's invariant holds for any sockets, sessions and evictions.
THEOREM WebChatInvariant == WebChatSpec => []WebChatInv
<1>1. WebChatInit => WebChatInv
  BY NoSocketAssumption DEF WebChatInit, WebChatInv, Stages, NoSocketAssumption
<1>2. WebChatInv /\ [WebChatNext]_chat => WebChatInv'
  <2> SUFFICES ASSUME WebChatInv, [WebChatNext]_chat
               PROVE  WebChatInv'
    OBVIOUS
  <2>1. ASSUME NEW w \in Sockets, Accept(w)
        PROVE  WebChatInv'
    <3>1. CASE registered \in {NoSocket} \cup closed
      BY <2>1, <3>1, StageMoves DEF Accept, Stages
    <3>2. CASE registered \notin {NoSocket} \cup closed
      BY <2>1, <3>2, StageMoves DEF Accept, Stages, WebChatInv
    <3> QED
      BY <3>1, <3>2
  <2>2. ASSUME NEW w \in Sockets, Handler(w)
        PROVE  WebChatInv'
    <3>1. CASE Register(w)
      BY <3>1, StageMoves DEF Register, Stages
    <3>2. CASE Greet(w)
      BY <3>2, StageMoves DEF Greet, Stages
    <3>3. CASE Answer(w) \/ Refuse(w)
      BY <3>3, StageMoves DEF Answer, Refuse, Stages
    <3>4. CASE TearDown(w)
      BY <3>4, StageMoves, NoSocketAssumption DEF TearDown, Unregister, Stages, NoSocketAssumption
    <3> QED
      BY <2>2, <3>1, <3>2, <3>3, <3>4 DEF Handler
  <2>3. ASSUME NEW w \in Sockets, Receive(w)
        PROVE  WebChatInv'
    BY <2>3, StageMoves DEF Receive, Stages
  <2>4. CASE (\E w \in Sockets : PeerDies(w)) \/ UNCHANGED chat
    BY <2>4 DEF PeerDies, chat, WebChatInv
  <2>5. ASSUME NEW p \in Pushers, Push(p) \/ PushEnds(p)
        PROVE  WebChatInv'
    BY <2>5, NoSocketAssumption DEF Push, PushEnds, WebChatInv, NoSocketAssumption
  <2> QED
    BY <2>1, <2>2, <2>3, <2>4, <2>5 DEF WebChatNext
<1> QED
  BY <1>1, <1>2, PTL DEF WebChatSpec

\* For any sockets and pushes, a handler that tore its connection down leaves nothing
\* behind in the registry, and no later registration brings its socket back.
THEOREM GoneStaysUnregistered == WebChatSpec => []GoneIsUnregistered
<1>1. WebChatInv => GoneIsUnregistered
  BY DEF WebChatInv, GoneIsUnregistered
<1> QED
  BY <1>1, WebChatInvariant, PTL

(***************************************************************************)
(* A 200 to Meta means stored. A session passes a message of its payload   *)
(* only after having stored or found it, so one that answers has them all. *)
(***************************************************************************)

Answering == {"respond", "commit"}

Record(step, p, k, obj, own, msgs) ==
    [op |-> "batch", step |-> step, p |-> p, k |-> k, obj |-> obj, own |-> own, msgs |-> msgs]

\* A session that works through a payload: the shape of its record, and what is
\* behind it in the payload is stored or its own.
Working(t, st) ==
    /\ t = Record(t.step, t.p, t.k, t.obj, t.own, t.msgs)
    /\ t.p \in Payloads /\ t.k \in DOMAIN Batch[t.p]
    /\ \A i \in DOMAIN Batch[t.p] :
          i < t.k \/ t.step \in Answering => Batch[t.p][i] \in st \cup t.msgs

Shapes ==
    /\ job = [s \in Jobs |-> job[s]]
    /\ waiting = [p \in Payloads |-> waiting[p]]
    /\ acked \subseteq Payloads

PassedIsKept == \A s \in Requests : job[s] = NoJob \/ Working(job[s], stored)

HookInv == Shapes /\ PassedIsKept /\ AckedIsStored

-----------------------------------------------------------------------------
\* A session's record with some fields replaced: the provers take an EXCEPT of
\* several fields one at a time.
LEMMA NewStep ==
    ASSUME NEW t, NEW step, t = Record(t.step, t.p, t.k, t.obj, t.own, t.msgs)
    PROVE  [t EXCEPT !.step = step] = Record(step, t.p, t.k, t.obj, t.own, t.msgs)
BY DEF Record

LEMMA NewPlace ==
    ASSUME NEW t, NEW k, NEW step, t = Record(t.step, t.p, t.k, t.obj, t.own, t.msgs)
    PROVE  [t EXCEPT !.k = k, !.step = step] = Record(step, t.p, k, t.obj, t.own, t.msgs)
<1> DEFINE u == Record(t.step, t.p, k, t.obj, t.own, t.msgs)
<1>1. [t EXCEPT !.k = k, !.step = step] = [[t EXCEPT !.k = k] EXCEPT !.step = step] OBVIOUS
<1>2. [t EXCEPT !.k = k] = u BY DEF Record
<1>3. [u EXCEPT !.step = step] = Record(step, t.p, k, t.obj, t.own, t.msgs) BY DEF Record
<1> HIDE DEF u
<1> QED BY <1>1, <1>2, <1>3

LEMMA NewRows ==
    ASSUME NEW t, NEW obj, NEW own, t = Record(t.step, t.p, t.k, t.obj, t.own, t.msgs)
    PROVE  [t EXCEPT !.obj = obj, !.own = own] = Record(t.step, t.p, t.k, obj, own, t.msgs)
<1> DEFINE u == Record(t.step, t.p, t.k, obj, t.own, t.msgs)
<1>1. [t EXCEPT !.obj = obj, !.own = own] = [[t EXCEPT !.obj = obj] EXCEPT !.own = own] OBVIOUS
<1>2. [t EXCEPT !.obj = obj] = u BY DEF Record
<1>3. [u EXCEPT !.own = own] = Record(t.step, t.p, t.k, obj, own, t.msgs) BY DEF Record
<1> HIDE DEF u
<1> QED BY <1>1, <1>2, <1>3

\* What is stored stays stored, and so a session's work stays good.
LEMMA WorkKeeps ==
    ASSUME NEW t, NEW st, NEW st2, Working(t, st), st \subseteq st2
    PROVE  Working(t, st2)
  BY DEF Working

\* Passing a message that is stored or the session's own (NextMessage).
LEMMA Passing ==
    ASSUME NEW t, NEW st, Working(t, st), t.step \notin Answering,
           Batch[t.p][t.k] \in st \cup t.msgs
    PROVE  Working(NextMessage(t), st)
<1>1. Batch[t.p] \in Seq(Messages) BY BatchAssumption DEF Working
<1>2. DOMAIN Batch[t.p] = 1..Len(Batch[t.p]) /\ Len(Batch[t.p]) \in Nat BY <1>1
<1>3. t.k \in 1..Len(Batch[t.p]) BY <1>2 DEF Working
<1>4. CASE t.k < Len(Batch[t.p])
  <2>1. NextMessage(t) = Record("open", t.p, t.k + 1, t.obj, t.own, t.msgs)
    BY <1>4, NewPlace DEF NextMessage, Working
  <2>2. Working(Record("open", t.p, t.k + 1, t.obj, t.own, t.msgs), st)
    BY <1>2, <1>3, <1>4 DEF Working, Record, Answering
  <2> QED BY <2>1, <2>2
<1>5. CASE ~(t.k < Len(Batch[t.p]))
  <2>1. NextMessage(t) = Record("respond", t.p, t.k, t.obj, t.own, t.msgs)
    BY <1>5, NewStep DEF NextMessage, Working
  <2>2. Working(Record("respond", t.p, t.k, t.obj, t.own, t.msgs), st)
    BY <1>2, <1>3, <1>5 DEF Working, Record, Answering
  <2> QED BY <2>1, <2>2
<1> QED BY <1>4, <1>5

\* Any step before the answer is open to a session that is not there yet.
LEMMA Moving ==
    ASSUME NEW t, NEW st, Working(t, st), t.step \notin Answering,
           NEW step, NEW obj, NEW own, step \notin Answering
    PROVE  Working(Record(step, t.p, t.k, obj, own, t.msgs), st)
  BY DEF Working, Record

\* The duplicate check passes a message or leaves it to be stored.
LEMMA Examining ==
    ASSUME NEW t, Working(t, stored), t.step \notin Answering
    PROVE  Working(Examined(t), stored)
<1>1. CASE Batch[t.p][t.k] \in stored \cup t.msgs
  BY <1>1, Passing DEF Examined
<1>2. CASE Batch[t.p][t.k] \notin stored \cup t.msgs
  <2>1. Examined(t) = Record("store", t.p, t.k, t.obj, t.own, t.msgs)
    BY <1>2, NewStep DEF Examined, Working
  <2>2. Working(Record("store", t.p, t.k, t.obj, t.own, t.msgs), stored)
    BY Moving DEF Answering
  <2> QED BY <2>1, <2>2
<1> QED BY <1>1, <1>2

\* One session's record changes, and nothing it acknowledged.
LEMMA OneBecomes ==
    ASSUME HookInv, NEW s \in Requests, NEW t, job' = [job EXCEPT ![s] = t],
           t = NoJob \/ Working(t, stored), UNCHANGED <<stored, acked, unlucky>>,
           waiting' = [p \in Payloads |-> waiting'[p]],
           \A p \in acked : waiting'[p] = waiting[p] \/ waiting[p] = s,
           ~ Acknowledges(s)
    PROVE  HookInv'
<1>1. s \in Jobs /\ Requests \subseteq Jobs BY DEF Jobs
<1>2. job'[s] = t /\ \A r \in Requests : r # s => job'[r] = job[r]
  BY <1>1 DEF HookInv, Shapes
<1>3. Shapes' BY DEF HookInv, Shapes
<1>4. PassedIsKept' BY <1>2 DEF HookInv, PassedIsKept
<1>5. AckedIsStored'
  <2> SUFFICES ASSUME NEW p \in acked \ unlucky
               PROVE  \/ \E r \in Requests : Acknowledges(r)' /\ job'[r].p = p
                      \/ \A i \in DOMAIN Batch[p] : Batch[p][i] \in stored
    BY DEF AckedIsStored
  <2>1. CASE \A i \in DOMAIN Batch[p] : Batch[p][i] \in stored BY <2>1
  <2>2. CASE \E r \in Requests : Acknowledges(r) /\ job[r].p = p
    <3>1. PICK r \in Requests : Acknowledges(r) /\ job[r].p = p BY <2>2
    <3>2. r # s /\ job'[r] = job[r] BY <3>1, <1>2
    <3>3. waiting'[p] = waiting[p] BY <3>1, <3>2 DEF Acknowledges
    <3> QED BY <3>1, <3>2, <3>3 DEF Acknowledges, At
  <2> QED BY <2>1, <2>2 DEF HookInv, AckedIsStored
<1> QED BY <1>3, <1>4, <1>5 DEF HookInv

\* An exception before the answer: rollback, and Meta is told.
LEMMA Refusing ==
    ASSUME HookInv, NEW s \in Requests, Refused(s), ~ Acknowledges(s),
           UNCHANGED <<stored, acked, unlucky>>
    PROVE  HookInv'
<1>1. waiting' = [p \in Payloads |-> waiting'[p]] BY DEF Refused
<1>2. \A p \in acked : waiting'[p] = waiting[p] \/ waiting[p] = s
  BY DEF Refused, HookInv, Shapes
<1> QED BY <1>1, <1>2, OneBecomes DEF Refused, Become

-----------------------------------------------------------------------------
LEMMA HookInit == WebhookInit => HookInv
<1> SUFFICES ASSUME WebhookInit PROVE HookInv
  OBVIOUS
<1>1. Shapes BY DEF WebhookInit, Shapes
<1>2. PassedIsKept BY DEF WebhookInit, PassedIsKept, Jobs
<1>3. AckedIsStored BY DEF WebhookInit, AckedIsStored
<1> QED BY <1>1, <1>2, <1>3 DEF HookInv

LEMMA HookStep == HookInv /\ [WebhookNext]_hook => HookInv'
<1> SUFFICES ASSUME HookInv, [WebhookNext]_hook PROVE HookInv'
  OBVIOUS
<1>a. Shapes /\ PassedIsKept /\ AckedIsStored BY DEF HookInv
<1>b. Requests \subseteq Jobs /\ Scanner \notin Requests
  BY RequestAssumption DEF Jobs
<1>1. CASE \E p \in Payloads : Deliver(p)
  <2>1. PICK p \in Payloads : Deliver(p) BY <1>1
  <2> DEFINE s == CHOOSE r \in Requests : job[r] = NoJob
             t == Record("open", p, 1, Untouched, Untouched, {})
  <2>2. s \in Requests /\ job[s] = NoJob BY <2>1 DEF Deliver
  <2>3. Batch[p] \in Seq(Messages) /\ Batch[p] # <<>> BY BatchAssumption
  <2>4. 1 \in DOMAIN Batch[p] /\ \A i \in DOMAIN Batch[p] : ~(i < 1) BY <2>3
  <2>5. Working(t, stored) BY <2>4 DEF Working, Record, Answering
  <2>6. ~ Acknowledges(s) BY <2>2 DEF Acknowledges, At, NoJob
  <2>7. /\ job' = [job EXCEPT ![s] = t]
        /\ UNCHANGED <<stored, acked, unlucky>>
        /\ waiting' = [waiting EXCEPT ![p] = s] /\ p \notin acked
    BY <2>1 DEF Deliver, Become, Record
  <2> HIDE DEF s, t
  <2>8. /\ waiting' = [q \in Payloads |-> waiting'[q]]
        /\ \A q \in acked : waiting'[q] = waiting[q]
    BY <2>7, <1>a DEF Shapes
  <2> QED BY <2>2, <2>5, <2>6, <2>7, <2>8, OneBecomes
<1>2. CASE \E p \in Payloads : GiveUp(p)
  <2>1. PICK p \in Payloads : GiveUp(p) BY <1>2
  <2>2. /\ p \notin acked /\ waiting' = [waiting EXCEPT ![p] = NoRequest]
        /\ UNCHANGED <<stored, job, acked, unlucky>>
    BY <2>1 DEF GiveUp
  <2>3. Shapes' BY <1>a, <2>2 DEF Shapes
  <2>4. PassedIsKept' BY <1>a, <2>2 DEF PassedIsKept
  <2>5. \A q \in acked : waiting'[q] = waiting[q] BY <1>a, <2>2 DEF Shapes
  <2>6. \A r \in Requests : Acknowledges(r) => Acknowledges(r)'
    BY <2>2, <2>5 DEF Acknowledges, At
  <2>7. AckedIsStored' BY <1>a, <2>2, <2>6 DEF AckedIsStored
  <2> QED BY <2>3, <2>4, <2>7 DEF HookInv
<1>3. ASSUME NEW s \in Requests, RequestStep(s) PROVE HookInv'
  <2>a. job[s].op = "batch" => Working(job[s], stored)
    BY <1>a DEF PassedIsKept, NoJob
  <2>1. CASE LoadThread(s)
    <3> DEFINE v == ThreadIn(s)
               seen == IF Exists(job[s].obj[v]) THEN job[s].obj[v] ELSE rows[v]
               t == [job[s] EXCEPT !.obj[v] = seen]
               w == IF GetOrCreate(seen) = seen THEN Examined(t)
                                                ELSE [t EXCEPT !.step = "claim"]
    <3>1. /\ At(s, "open") /\ job' = [job EXCEPT ![s] = w]
          /\ UNCHANGED <<stored, waiting, acked, unlucky>>
      BY <2>1 DEF LoadThread, Become
    <3>2. Working(job[s], stored) /\ job[s].step = "open" BY <3>1, <2>a DEF At
    <3>3. t = Record("open", job[s].p, job[s].k, [job[s].obj EXCEPT ![v] = seen],
                     job[s].own, job[s].msgs)
      <4> DEFINE ob == [job[s].obj EXCEPT ![v] = seen]
      <4>1. t = [job[s] EXCEPT !.obj = ob] OBVIOUS
      <4> HIDE DEF ob, t
      <4> QED BY <3>2, <4>1 DEF Working, Record, ob
    <3>4. Working(t, stored) /\ t.step = "open"
      <4> HIDE DEF t, v, seen
      <4>1. Working(Record("open", job[s].p, job[s].k, [job[s].obj EXCEPT ![v] = seen],
                           job[s].own, job[s].msgs), stored)
        BY <3>2, Moving DEF Answering
      <4> QED BY <3>3, <4>1 DEF Record
    <3>5. Working(Examined(t), stored) BY <3>4, Examining DEF Answering
    <3>6. Working([t EXCEPT !.step = "claim"], stored)
      <4> HIDE DEF t
      <4>1. [t EXCEPT !.step = "claim"] = Record("claim", t.p, t.k, t.obj, t.own, t.msgs)
        BY <3>4, NewStep DEF Working
      <4>2. Working(Record("claim", t.p, t.k, t.obj, t.own, t.msgs), stored)
        BY <3>4, Moving DEF Answering
      <4> QED BY <4>1, <4>2
    <3>7. Working(w, stored) BY <3>5, <3>6
    <3>8. ~ Acknowledges(s) BY <3>2 DEF Acknowledges, At
    <3> HIDE DEF w
    <3> QED BY <3>1, <3>7, <3>8, <1>a, OneBecomes DEF Shapes
  <2>2. CASE ClaimThread(s)
    <3> DEFINE v == ThreadIn(s)
               o == job[s].obj[v]
               w == [job[s] EXCEPT !.step = "check", !.obj[v] = GetOrCreate(o),
                        !.own[v] = WriteDirty(rows[v], o, GetOrCreate(o))]
    <3>1. At(s, "claim") /\ UNCHANGED <<stored, acked, unlucky>>
      BY <2>2 DEF ClaimThread
    <3>2. Working(job[s], stored) /\ job[s].step = "claim" BY <3>1, <2>a DEF At
    <3>3. ~ Acknowledges(s) BY <3>2 DEF Acknowledges, At
    <3>4. CASE Refused(s) BY <3>4, <3>1, <3>3, Refusing
    <3>5. CASE Become(s, w) /\ UNCHANGED waiting
      <4> DEFINE ob == [job[s].obj EXCEPT ![v] = GetOrCreate(o)]
                 ow == [job[s].own EXCEPT ![v] = WriteDirty(rows[v], o, GetOrCreate(o))]
                 x == [job[s] EXCEPT !.step = "check"]
      <4>1. w = [x EXCEPT !.obj = ob, !.own = ow] OBVIOUS
      <4>2. Working(w, stored)
        <5>1. x = Record("check", job[s].p, job[s].k, job[s].obj, job[s].own, job[s].msgs)
          BY <3>2, NewStep DEF Working
        <5> HIDE DEF w, x, ob, ow
        <5>2. x = Record(x.step, x.p, x.k, x.obj, x.own, x.msgs) BY <5>1 DEF Record
        <5>3. w = Record(x.step, x.p, x.k, ob, ow, x.msgs) BY <4>1, <5>2, NewRows
        <5>4. w = Record("check", job[s].p, job[s].k, ob, ow, job[s].msgs)
          BY <5>1, <5>3 DEF Record
        <5> QED BY <3>2, <5>4, Moving DEF Answering
      <4> HIDE DEF w
      <4> QED BY <3>1, <3>3, <3>5, <4>2, <1>a, OneBecomes DEF Shapes, Become
    <3> QED BY <2>2, <3>4, <3>5 DEF ClaimThread
  <2>3. CASE CheckDuplicate(s)
    <3>1. /\ At(s, "check") /\ job' = [job EXCEPT ![s] = Examined(job[s])]
          /\ UNCHANGED <<stored, waiting, acked, unlucky>>
      BY <2>3 DEF CheckDuplicate, Become
    <3>2. Working(job[s], stored) /\ job[s].step = "check" BY <3>1, <2>a DEF At
    <3>3. ~ Acknowledges(s) BY <3>2 DEF Acknowledges, At
    <3>4. Working(Examined(job[s]), stored) BY <3>2, Examining DEF Answering
    <3> QED BY <3>1, <3>3, <3>4, <1>a, OneBecomes DEF Shapes
  <2>4. CASE StoreMessage(s)
    <3> DEFINE m == Current(s)
               n == NextMessage(job[s])
    <3>1. PICK ob, ow : job' = [job EXCEPT ![s] =
              [n EXCEPT !.msgs = @ \cup {m}, !.obj = ob, !.own = ow]]
      <4> DEFINE v == ThreadIn(s)
                 o == job[s].obj[v]
                 visible == IF Holds(s, v) THEN job[s].own[v] ELSE rows[v]
                 x == AddCustomerMessage(o)
      <4>1. job' = [job EXCEPT ![s] = [n EXCEPT !.msgs = @ \cup {m}, !.obj[v] = x,
                       !.own[v] = IF x = o THEN @ ELSE WriteDirty(visible, o, x)]]
        BY <2>4 DEF StoreMessage, Become
      <4> HIDE DEF n, m, x, o, visible, v
      <4> DEFINE ob == [n.obj EXCEPT ![v] = x]
                 ow == [n.own EXCEPT ![v] = IF x = o THEN @ ELSE WriteDirty(visible, o, x)]
      <4>2. [n EXCEPT !.msgs = @ \cup {m}, !.obj[v] = x,
                       !.own[v] = IF x = o THEN @ ELSE WriteDirty(visible, o, x)]
            = [n EXCEPT !.msgs = @ \cup {m}, !.obj = ob, !.own = ow]
        OBVIOUS
      <4> QED BY <4>1, <4>2
    <3>2. /\ At(s, "store") /\ UNCHANGED <<stored, waiting, acked, unlucky>>
      BY <2>4 DEF StoreMessage
    <3>3. Working(job[s], stored) /\ job[s].step = "store" BY <3>2, <2>a DEF At
    <3>4. ~ Acknowledges(s) BY <3>3 DEF Acknowledges, At
    <3> DEFINE u == Record("store", job[s].p, job[s].k, ob, ow, job[s].msgs \cup {m})
               w == [n EXCEPT !.msgs = @ \cup {m}, !.obj = ob, !.own = ow]
    <3>5. Working(u, stored) BY <3>3 DEF Working, Record, Answering
    <3>6. Batch[u.p][u.k] \in stored \cup u.msgs /\ u.step \notin Answering
      BY DEF Current, Record, Answering
    <3>7. Working(NextMessage(u), stored)
      <4> HIDE DEF u
      <4> QED BY <3>5, <3>6, Passing
    <3>8. \E step, k : /\ n = Record(step, job[s].p, k, job[s].obj, job[s].own, job[s].msgs)
                       /\ NextMessage(u) = Record(step, job[s].p, k, ob, ow, job[s].msgs \cup {m})
      <4>1. u = Record(u.step, u.p, u.k, u.obj, u.own, u.msgs) BY DEF Record
      <4>2. /\ u.p = job[s].p /\ u.k = job[s].k /\ u.obj = ob /\ u.own = ow
            /\ u.msgs = job[s].msgs \cup {m} /\ u.step = job[s].step
        BY <3>3 DEF Record
      <4> HIDE DEF u, m
      <4>3. CASE job[s].k < Len(Batch[job[s].p])
        <5>1. n = Record("open", job[s].p, job[s].k + 1, job[s].obj, job[s].own, job[s].msgs)
          BY <4>3, <3>3, NewPlace DEF NextMessage, Working
        <5>2. NextMessage(u) = Record("open", u.p, u.k + 1, u.obj, u.own, u.msgs)
          BY <4>1, <4>2, <4>3, NewPlace DEF NextMessage
        <5> HIDE DEF n
        <5> QED BY <4>2, <5>1, <5>2
      <4>4. CASE ~(job[s].k < Len(Batch[job[s].p]))
        <5>1. n = Record("respond", job[s].p, job[s].k, job[s].obj, job[s].own, job[s].msgs)
          BY <4>4, <3>3, NewStep DEF NextMessage, Working
        <5>2. NextMessage(u) = Record("respond", u.p, u.k, u.obj, u.own, u.msgs)
          BY <4>1, <4>2, <4>4, NewStep DEF NextMessage
        <5> HIDE DEF n
        <5> QED BY <4>2, <5>1, <5>2
      <4> QED BY <4>3, <4>4
    <3>9. Working(w, stored)
      <4>1. PICK step, k :
               /\ n = Record(step, job[s].p, k, job[s].obj, job[s].own, job[s].msgs)
               /\ NextMessage(u) = Record(step, job[s].p, k, ob, ow, job[s].msgs \cup {m})
        BY <3>8
      <4> DEFINE x == [n EXCEPT !.msgs = @ \cup {m}]
      <4> HIDE DEF n, u, m
      <4>2. x = Record(step, job[s].p, k, job[s].obj, job[s].own, job[s].msgs \cup {m})
        BY <4>1 DEF Record
      <4>3. w = [x EXCEPT !.obj = ob, !.own = ow] OBVIOUS
      <4> HIDE DEF x, w
      <4>4. x = Record(x.step, x.p, x.k, x.obj, x.own, x.msgs) BY <4>2 DEF Record
      <4>5. w = Record(x.step, x.p, x.k, ob, ow, x.msgs) BY <4>3, <4>4, NewRows
      <4>6. w = NextMessage(u) BY <4>1, <4>2, <4>5 DEF Record
      <4> QED BY <4>6, <3>7
    <3> HIDE DEF w
    <3> QED BY <3>1, <3>2, <3>4, <3>9, <1>a, OneBecomes DEF Shapes, w
  <2>5. CASE LoseRace(s)
    <3>1. ~ Acknowledges(s) BY <2>5 DEF LoseRace, Acknowledges, At
    <3> QED BY <2>5, <3>1, Refusing DEF LoseRace
  <2>6. CASE Respond(s)
    <3> DEFINE w == [job[s] EXCEPT !.step = "commit"]
               q == job[s].p
    <3>1. /\ At(s, "respond") /\ job' = [job EXCEPT ![s] = w]
          /\ acked' = acked \cup {p \in {q} : waiting[p] = s}
          /\ UNCHANGED <<stored, waiting, unlucky>>
      BY <2>6 DEF Respond, Become
    <3>2. Working(job[s], stored) /\ job[s].step = "respond" BY <3>1, <2>a DEF At
    <3>3. w = Record("commit", q, job[s].k, job[s].obj, job[s].own, job[s].msgs)
      BY <3>2, NewStep DEF Working
    <3>4. Working(w, stored) BY <3>2, <3>3 DEF Working, Record, Answering
    <3>5. job'[s] = w /\ \A r \in Requests : r # s => job'[r] = job[r]
      BY <3>1, <1>a, <1>b DEF Shapes
    <3>6. Shapes' BY <3>1, <3>2, <1>a DEF Shapes, Working
    <3>7. PassedIsKept' BY <3>1, <3>4, <3>5, <1>a DEF PassedIsKept
    <3>8. AckedIsStored'
      <4> SUFFICES ASSUME NEW p \in acked' \ unlucky
                   PROVE  \/ \E r \in Requests : Acknowledges(r)' /\ job'[r].p = p
                          \/ \A i \in DOMAIN Batch[p] : Batch[p][i] \in stored
        BY <3>1 DEF AckedIsStored
      <4>1. CASE p = q /\ waiting[p] = s
        BY <4>1, <3>1, <3>3, <3>5 DEF Acknowledges, At, Record
      <4>2. CASE p \in acked /\ \E r \in Requests : Acknowledges(r) /\ job[r].p = p
        <5>1. PICK r \in Requests : Acknowledges(r) /\ job[r].p = p BY <4>2
        <5>2. r # s BY <5>1, <3>2 DEF Acknowledges, At
        <5> QED BY <4>2, <5>1, <5>2, <3>1, <3>5 DEF Acknowledges, At
      <4>3. CASE \A i \in DOMAIN Batch[p] : Batch[p][i] \in stored BY <4>3
      <4> QED BY <4>1, <4>2, <4>3, <3>1, <1>a DEF AckedIsStored
    <3> QED BY <3>6, <3>7, <3>8 DEF HookInv
  <2>7. CASE CommitBatch(s)
    <3>1. /\ At(s, "commit") /\ job' = [job EXCEPT ![s] = NoJob]
          /\ stored' = stored \cup job[s].msgs
          /\ UNCHANGED <<waiting, acked, unlucky>>
      BY <2>7 DEF CommitBatch, Become
    <3>2. Working(job[s], stored) /\ job[s].step = "commit" BY <3>1, <2>a DEF At
    <3>3. job'[s] = NoJob /\ \A r \in Requests : r # s => job'[r] = job[r]
      BY <3>1, <1>a, <1>b DEF Shapes
    <3>4. Shapes' BY <3>1, <1>a DEF Shapes
    <3>5. PassedIsKept'
      <4> SUFFICES ASSUME NEW r \in Requests, r # s, job[r] # NoJob
                   PROVE  Working(job[r], stored')
        BY <3>3 DEF PassedIsKept
      <4> QED BY <3>1, <1>a, WorkKeeps DEF PassedIsKept
    <3>6. \A i \in DOMAIN Batch[job[s].p] : Batch[job[s].p][i] \in stored'
      BY <3>1, <3>2 DEF Working, Answering
    <3>7. AckedIsStored'
      <4> SUFFICES ASSUME NEW p \in acked \ unlucky
                   PROVE  \/ \E r \in Requests : Acknowledges(r)' /\ job'[r].p = p
                          \/ \A i \in DOMAIN Batch[p] : Batch[p][i] \in stored'
        BY <3>1 DEF AckedIsStored
      <4>1. CASE \E r \in Requests : Acknowledges(r) /\ job[r].p = p
        <5>1. PICK r \in Requests : Acknowledges(r) /\ job[r].p = p BY <4>1
        <5>2. CASE r = s BY <5>1, <5>2, <3>6
        <5>3. CASE r # s BY <5>1, <5>3, <3>1, <3>3 DEF Acknowledges, At
        <5> QED BY <5>2, <5>3
      <4>2. CASE \A i \in DOMAIN Batch[p] : Batch[p][i] \in stored BY <4>2, <3>1
      <4> QED BY <4>1, <4>2, <1>a DEF AckedIsStored
    <3> QED BY <3>4, <3>5, <3>7 DEF HookInv
  <2>8. CASE Victim(s)
    <3>1. Blockers(s) # {} BY <2>8 DEF Victim, Deadlocked
    <3>2. ~ Acknowledges(s)
      <4>1. At(s, "commit") => Blockers(s) = {} BY DEF Blockers, At
      <4> QED BY <3>1, <4>1 DEF Acknowledges
    <3> QED BY <2>8, <3>2, Refusing DEF Victim
  <2> QED BY <1>3, <2>1, <2>2, <2>3, <2>4, <2>5, <2>6, <2>7, <2>8 DEF RequestStep
<1>4. ASSUME NEW s \in Requests, RequestFails(s) PROVE HookInv'
  <2>1. ~ Acknowledges(s) BY <1>4 DEF RequestFails, Acknowledges, At
  <2> QED BY <1>4, <2>1, Refusing DEF RequestFails
<1>5. ASSUME NEW s \in Requests, CommitFails(s) PROVE HookInv'
  <2>1. /\ job' = [job EXCEPT ![s] = NoJob]
        /\ unlucky' = unlucky \cup {p \in {job[s].p} : Acknowledges(s)}
        /\ UNCHANGED <<stored, waiting, acked>>
    BY <1>5 DEF CommitFails, Become
  <2>2. job'[s] = NoJob /\ \A r \in Requests : r # s => job'[r] = job[r]
    BY <2>1, <1>a, <1>b DEF Shapes
  <2>3. Shapes' BY <2>1, <1>a DEF Shapes
  <2>4. PassedIsKept' BY <2>1, <2>2, <1>a DEF PassedIsKept
  <2>5. AckedIsStored'
    <3> SUFFICES ASSUME NEW p \in acked \ unlucky'
                 PROVE  \/ \E r \in Requests : Acknowledges(r)' /\ job'[r].p = p
                        \/ \A i \in DOMAIN Batch[p] : Batch[p][i] \in stored
      BY <2>1 DEF AckedIsStored
    <3>1. CASE \E r \in Requests : Acknowledges(r) /\ job[r].p = p
      <4>1. PICK r \in Requests : Acknowledges(r) /\ job[r].p = p BY <3>1
      <4>2. r # s BY <4>1, <2>1
      <4> QED BY <4>1, <4>2, <2>1, <2>2 DEF Acknowledges, At
    <3>2. CASE \A i \in DOMAIN Batch[p] : Batch[p][i] \in stored BY <3>2
    <3> QED BY <3>1, <3>2, <2>1, <1>a DEF AckedIsStored
  <2> QED BY <2>3, <2>4, <2>5 DEF HookInv
<1>6. CASE ServerDies
  <2>1. /\ job' = [r \in Jobs |-> NoJob] /\ UNCHANGED <<stored, acked>>
        /\ unlucky' = unlucky \cup {job[r].p : r \in {x \in Requests : Acknowledges(x)}}
        /\ waiting' = [p \in Payloads |-> IF p \in acked THEN waiting[p] ELSE NoRequest]
    BY <1>6 DEF ServerDies
  <2>2. Shapes' BY <2>1, <1>a DEF Shapes
  <2>3. PassedIsKept' BY <2>1, <1>b DEF PassedIsKept
  <2>4. AckedIsStored' BY <2>1, <1>a DEF AckedIsStored
  <2> QED BY <2>2, <2>3, <2>4 DEF HookInv
<1>7. ASSUME UNCHANGED <<stored, waiting, acked, unlucky>>, Shapes',
             \A r \in Requests : job'[r] = job[r]
      PROVE  HookInv'
  <2>1. PassedIsKept' BY <1>7, <1>a DEF PassedIsKept
  <2>2. \A r \in Requests : Acknowledges(r)' <=> Acknowledges(r)
    BY <1>7 DEF Acknowledges, At
  <2>3. AckedIsStored' BY <1>7, <2>2, <1>a DEF AckedIsStored
  <2> QED BY <1>7, <2>1, <2>3 DEF HookInv
<1>8. ASSUME NEW t, Become(Scanner, t), UNCHANGED <<stored, waiting, acked, unlucky>>
      PROVE  HookInv'
  <2>1. \A r \in Requests : job'[r] = job[r] BY <1>8, <1>a, <1>b DEF Become, Shapes
  <2>2. Shapes' BY <1>8, <1>a DEF Become, Shapes
  <2> QED BY <1>8, <2>1, <2>2, <1>7
<1>9. CASE ScanStart BY <1>9, <1>8 DEF ScanStart
<1>10. CASE ScanEscalate BY <1>10, <1>8 DEF ScanEscalate
<1>11. CASE ScanCommit BY <1>11, <1>8 DEF ScanCommit
<1>12. CASE ScanFails BY <1>12, <1>8 DEF ScanFails
<1>13. CASE UNCHANGED hook
  <2>1. UNCHANGED <<stored, job, waiting, acked, unlucky>> BY <1>13 DEF hook
  <2>2. Shapes' BY <2>1, <1>a DEF Shapes
  <2> QED BY <2>1, <2>2, <1>7
<1> QED BY <1>1, <1>2, <1>3, <1>4, <1>5, <1>6, <1>9, <1>10, <1>11, <1>12, <1>13
        DEF WebhookNext, ScanStep

\* Whatever two payloads, the scan, timeouts and faults do in between, a payload
\* answered with a 200 is stored whole, unless the commit after the answer failed
\* (channels/whatsapp_business.py:505-516, db.py:82-92).
THEOREM AcknowledgedIsStored == WebhookSpec => []AckedIsStored
<1>1. HookInv => AckedIsStored BY DEF HookInv
<1> QED BY HookInit, HookStep, <1>1, PTL DEF WebhookSpec
===============================================================================
