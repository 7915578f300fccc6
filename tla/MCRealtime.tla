---- MODULE MCRealtime ----
(***************************************************************************)
(* The connections to the outside for TLC: the two WebSocket registries    *)
(* and the webhook. They share no state, so a behaviour moves one of them: *)
(* visitors are checked with three sockets, agents with two tabs of x and  *)
(* one of y, the webhook with two payloads that write the same two threads *)
(* in opposite orders, next to the SLA scan.                               *)
(***************************************************************************)
EXTENDS WebChat, AgentConnections, Webhook, TLC

CONSTANTS v1, v2, v3, x, y, w1, w2, w3, a1, a2, b1, b2, payload1, payload2, older, newer
Tabs == (w1 :> x) @@ (w2 :> x) @@ (w3 :> y)
Crossing == (payload1 :> <<a1, b1>>) @@ (payload2 :> <<b2, a2>>)
Senders == (a1 :> older) @@ (a2 :> older) @@ (b1 :> newer) @@ (b2 :> newer)

VARIABLE side

\* Sockets are alike until they open: the visitor opens v1, then v2, then v3.
InOrder == (stage[v2] # "new" => stage[v1] # "new") /\ (stage[v3] # "new" => stage[v2] # "new")

\* One thread is new, the other may be an old one.
RealtimeInit ==
    /\ side \in {"visitors", "agents", "webhook"}
    /\ WebChatInit /\ ConnInit /\ WebhookInit
    /\ side # "webhook" => rows = Untouched
    /\ ~Exists(rows[newer])

RealtimeNext ==
    /\ UNCHANGED side
    /\ \/ side = "visitors" /\ WebChatNext /\ InOrder' /\ UNCHANGED <<conns, hook>>
       \/ side = "agents" /\ ConnNext /\ UNCHANGED <<chat, hook>>
       \/ side = "webhook" /\ WebhookNext /\ UNCHANGED <<chat, conns>>

RealtimeSpec ==
    /\ RealtimeInit /\ [][RealtimeNext]_<<side, chat, conns, hook>>
    /\ WebChatFairness /\ WebhookFairness
===========================
