----------------------------- MODULE RouteMesh -----------------------------
(***************************************************************************)
(* How players find a full node: RatsLink::route_loop publishes the node's *)
(* route to the mini nodes it is connected to, and mini nodes keep it in   *)
(* g_routes, pass it on to each other and let it expire.                   *)
(*                                                                         *)
(* One full node, and mini nodes in the full mesh that is the default.     *)
(* Tick is five minutes, the period of the steady republish; between two   *)
(* of them the loops, the sender threads and the network get their work    *)
(* done, and at most MaxEvents things happen to nodes and links.  Ages are *)
(* counted in ticks: age since a mini node received the route, old since   *)
(* the node stamped it.  Signatures are valid and the anchor is the right  *)
(* one; probes of reachability, load scores and the replay of online       *)
(* players are left out.                                                   *)
(***************************************************************************)
EXTENDS Naturals, FiniteSets, Sequences

CONSTANTS
    Mini,           \* mini nodes
    FullNode,       \* rats peer id of the full node
    Signed,         \* can_sign_: the node signs its routes
    kRouteTtl, kRouteMaxAge,    \* in ticks
    MaxEvents,      \* bound: events between two ticks
    NoRoute

ASSUME RouteMeshAssumption ==
    /\ FullNode \notin Mini
    /\ Signed \in BOOLEAN
    /\ kRouteTtl \in Nat \ {0} /\ kRouteMaxAge \in Nat \ {0}
    /\ MaxEvents \in Nat

VARIABLES
    alive, healthy, \* the full node runs; its chain_health_ reports no trouble
    linked,         \* mini nodes that are validated peers of the full node
    loop,           \* locals of route_loop
    mesh,           \* links between mini nodes, as sets of two
    known,          \* g_mininode_peers
    routes,         \* the node's entry in g_routes
    tasks,          \* g_send_q
    mail,           \* messages under way
    happened        \* events since the last tick

nodeVars == <<alive, healthy, linked, loop>>
miniVars == <<known, routes, tasks>>
routeVars == <<nodeVars, mesh, miniVars, mail, happened>>

Loop == [was_up : BOOLEAN, last_published_peers : Nat,
         due : BOOLEAN,     \* steady_ticks has reached kSteadyRepublishTicks
         cooling : BOOLEAN] \* ticks_since_publish is below kMinPublishGapTicks

RouteEntry == [age : 0..(kRouteTtl + 1), old : 0..(kRouteMaxAge + 1)]

Task == [kind : {"snapshot"}, to : Mini]
          \cup [kind : {"replicate"}, old : 0..(kRouteMaxAge + 1),
                source : Mini \cup {FullNode}]

Mail == [kind : {"hello"}, from : Mini, to : Mini]
          \cup [kind : {"route"}, from : Mini \cup {FullNode}, to : Mini,
                old : 0..(kRouteMaxAge + 1)]

RoutesTypeOK ==
    /\ alive \in BOOLEAN /\ healthy \in BOOLEAN
    /\ linked \subseteq Mini
    /\ loop \in Loop
    /\ \A e \in mesh : e \subseteq Mini /\ Cardinality(e) = 2
    /\ known \in [Mini -> SUBSET Mini]
    /\ routes \in [Mini -> RouteEntry \cup {NoRoute}]
    /\ tasks \in [Mini -> Seq(Task)]
    /\ mail \subseteq Mail
    /\ happened \in 0..MaxEvents

FirstTick == [was_up |-> FALSE, last_published_peers |-> 0, due |-> FALSE,
              cooling |-> FALSE]

RoutesInit ==
    /\ alive = TRUE /\ healthy = TRUE /\ linked = {} /\ loop = FirstTick
    /\ mesh = {} /\ known = [m \in Mini |-> {}]
    /\ routes = [m \in Mini |-> NoRoute]
    /\ tasks = [m \in Mini |-> <<>>] /\ mail = {} /\ happened = 0

-----------------------------------------------------------------------------
(***************************************************************************)
(* The full node.                                                          *)
(***************************************************************************)
\* publish_route_now, withheld while the chain disagrees with the network.
publish_route_now ==
    IF healthy
    THEN {[kind |-> "route", from |-> FullNode, to |-> m, old |-> 0] : m \in linked}
    ELSE {}

grown == Cardinality(linked) > loop.last_published_peers

\* Mutant: no steady republish.
Publishes_growth == ~loop.was_up \/ (grown /\ ~loop.cooling)

\* When a tick of route_loop publishes, with a peer at least.
Publishes == ~loop.was_up \/ (grown /\ ~loop.cooling) \/ loop.due

route_loop ==
    /\ alive
    /\ \/ /\ linked = {}
          /\ loop' = [loop EXCEPT !.was_up = FALSE, !.last_published_peers = 0,
                                  !.due = FALSE]
          /\ UNCHANGED mail
       \/ /\ linked # {} /\ Publishes
          /\ mail' = mail \cup publish_route_now
          /\ loop' = [was_up |-> TRUE, last_published_peers |-> Cardinality(linked),
                      due |-> FALSE, cooling |-> TRUE]
    /\ UNCHANGED <<alive, healthy, linked, mesh, miniVars, happened>>

\* kMinPublishGapTicks seconds have passed.
GapOver ==
    /\ loop.cooling
    /\ loop' = [loop EXCEPT !.cooling = FALSE]
    /\ UNCHANGED <<alive, healthy, linked, mesh, miniVars, mail, happened>>

-----------------------------------------------------------------------------
(***************************************************************************)
(* A mini node.                                                            *)
(***************************************************************************)
\* Mutant: no window for the timestamp.
FreshEnough_any(old) == TRUE

\* The replay window, of signed routes only.
FreshEnough(old) == Signed => old <= kRouteMaxAge

\* An older signed route does not overwrite a newer one.
Supersedes(m, old) ==
    Signed /\ routes[m] # NoRoute => old <= routes[m].old

\* With the fan-out of a route that did not come from another mini node.
ingest_route(d) ==
    LET m == d.to
    IN  /\ d.kind = "route"
        /\ mail' = mail \ {d}
        /\ IF FreshEnough(d.old) /\ Supersedes(m, d.old)
           THEN /\ routes' = [routes EXCEPT ![m] = [age |-> 0, old |-> d.old]]
                /\ tasks' = IF d.from \in known[m] THEN tasks
                            ELSE [tasks EXCEPT ![m] = Append(@,
                                    [kind |-> "replicate", old |-> d.old,
                                     source |-> d.from])]
           ELSE UNCHANGED <<routes, tasks>>
        /\ UNCHANGED <<nodeVars, mesh, known, happened>>

\* mini.hello: a new mini node gets our routes, and a hello back.
MiniHello(d) ==
    LET m == d.to
        added == d.from \notin known[m]
    IN  /\ d.kind = "hello"
        /\ known' = [known EXCEPT ![m] = @ \cup {d.from}]
        /\ tasks' = IF added
                    THEN [tasks EXCEPT ![m] = Append(@, [kind |-> "snapshot",
                                                         to |-> d.from])]
                    ELSE tasks
        /\ mail' = (mail \ {d}) \cup
              {r \in {[kind |-> "hello", from |-> m, to |-> d.from]} :
                 added /\ {m, d.from} \in mesh}
        /\ UNCHANGED <<nodeVars, mesh, routes, happened>>

\* What mini node m sends for a task; nothing reaches a peer without a link.
replicate_routes_to_peer(m, t) ==
    {r \in {[kind |-> "route", from |-> m, to |-> t.to, old |-> e.old] :
              e \in {routes[m]} \ {NoRoute}} : {m, t.to} \in mesh}

replicate_route_to_mininodes(m, t) ==
    {[kind |-> "route", from |-> m, to |-> p, old |-> t.old] :
        p \in {q \in known[m] \ {t.source} : {m, q} \in mesh}}

sender_loop(m) ==
    /\ tasks[m] # <<>>
    /\ LET t == Head(tasks[m])
       IN  mail' = mail \cup (IF t.kind = "snapshot"
                              THEN replicate_routes_to_peer(m, t)
                              ELSE replicate_route_to_mininodes(m, t))
    /\ tasks' = [tasks EXCEPT ![m] = Tail(@)]
    /\ UNCHANGED <<nodeVars, mesh, known, routes, happened>>

\* reaper_loop.  Ages are whole ticks, so an entry of kRouteTtl may be older.
ReapRoute(m) ==
    /\ routes[m] # NoRoute
    /\ routes[m].age >= kRouteTtl
    /\ routes' = [routes EXCEPT ![m] = NoRoute]
    /\ UNCHANGED <<nodeVars, mesh, known, tasks, mail, happened>>

-----------------------------------------------------------------------------
(***************************************************************************)
(* What happens to nodes and links.  A link that ends takes along some of  *)
(* the messages on it.                                                     *)
(***************************************************************************)
Event == happened < MaxEvents /\ happened' = happened + 1

\* The validated peer, dialled by redial_vps or a mini node's address.
Dial(m) ==
    /\ Event
    /\ alive /\ m \notin linked
    /\ linked' = linked \cup {m}
    /\ UNCHANGED <<alive, healthy, loop, mesh, miniVars, mail>>

Hangup(m) ==
    /\ Event
    /\ m \in linked
    /\ linked' = linked \ {m}
    /\ \E lost \in SUBSET {d \in mail : d.from = FullNode /\ d.to = m} :
         mail' = mail \ lost
    /\ UNCHANGED <<alive, healthy, loop, mesh, miniVars>>

\* The node stops or crashes; it starts again with a new loop.
Stop ==
    /\ Event
    /\ alive
    /\ alive' = FALSE /\ linked' = {} /\ loop' = FirstTick
    /\ UNCHANGED <<healthy, mesh, miniVars, mail>>

Start ==
    /\ Event
    /\ ~alive
    /\ alive' = TRUE
    /\ UNCHANGED <<healthy, linked, loop, mesh, miniVars, mail>>

\* The answer of chain_health_ changes.
Diverge ==
    /\ Event
    /\ healthy' = ~healthy
    /\ UNCHANGED <<alive, linked, loop, mesh, miniVars, mail>>

\* on_peer_connected on both ends.
MeshUp(a, b) ==
    /\ Event
    /\ a # b /\ {a, b} \notin mesh
    /\ mesh' = mesh \cup {{a, b}}
    /\ mail' = mail \cup {[kind |-> "hello", from |-> a, to |-> b],
                          [kind |-> "hello", from |-> b, to |-> a]}
    /\ UNCHANGED <<nodeVars, miniVars>>

\* on_peer_disconnected on both ends.
MeshDown(a, b) ==
    /\ Event
    /\ {a, b} \in mesh
    /\ mesh' = mesh \ {{a, b}}
    /\ known' = [known EXCEPT ![a] = @ \ {b}, ![b] = @ \ {a}]
    /\ \E lost \in SUBSET {d \in mail : {d.from, d.to} = {a, b}} : mail' = mail \ lost
    /\ UNCHANGED <<nodeVars, routes, tasks>>

\* relay.forward to the node fails and evicts its route.
DeadRoute(m) ==
    /\ Event
    /\ m \notin linked /\ routes[m] # NoRoute
    /\ routes' = [routes EXCEPT ![m] = NoRoute]
    /\ UNCHANGED <<nodeVars, mesh, known, tasks, mail>>

\* Everything that takes less than a tick is done.
Settled ==
    /\ mail = {} /\ \A m \in Mini : tasks[m] = <<>>
    /\ ~loop.cooling
    /\ alive => IF linked = {} THEN loop = FirstTick ELSE ~Publishes
    /\ \A m \in Mini : routes[m] # NoRoute => routes[m].age <= kRouteTtl

Older(e) == [age |-> e.age + 1, old |-> IF e.old > kRouteMaxAge THEN e.old ELSE e.old + 1]

Tick ==
    /\ Settled
    /\ routes' = [m \in Mini |-> IF routes[m] = NoRoute THEN NoRoute
                                 ELSE Older(routes[m])]
    /\ loop' = [loop EXCEPT !.due = alive /\ linked # {}]
    /\ happened' = 0
    /\ UNCHANGED <<alive, healthy, linked, mesh, known, tasks, mail>>

-----------------------------------------------------------------------------
RoutesNext ==
    \/ route_loop \/ GapOver \/ Tick
    \/ Stop \/ Start \/ Diverge
    \/ \E d \in mail : ingest_route(d) \/ MiniHello(d)
    \/ \E m \in Mini : sender_loop(m) \/ ReapRoute(m) \/ Dial(m) \/ Hangup(m) \/ DeadRoute(m)
    \/ \E a, b \in Mini : MeshUp(a, b) \/ MeshDown(a, b)

\* The threads run on, messages arrive, time passes.
RoutesFairness ==
    /\ WF_routeVars(route_loop) /\ WF_routeVars(GapOver) /\ WF_routeVars(Tick)
    /\ \A m \in Mini : /\ WF_routeVars(sender_loop(m))
                       /\ WF_routeVars(ReapRoute(m))
                       /\ WF_routeVars(\E d \in mail : d.to = m
                                         /\ (ingest_route(d) \/ MiniHello(d)))

RoutesSpec == RoutesInit /\ [][RoutesNext]_routeVars /\ RoutesFairness

-----------------------------------------------------------------------------
(***************************************************************************)
(* A full node that is gone for good, or keeps withholding its route, is   *)
(* in the end in no routing table, although mini nodes hand each other     *)
(* their tables whenever they meet and that restarts the reaper's clock.   *)
(***************************************************************************)
VanishedRouteFades ==
    <>[](~alive \/ ~healthy) => <>[](\A m \in Mini : routes[m] = NoRoute)

(***************************************************************************)
(* A full node that stays connected to a mini node is listed there from    *)
(* some time on, and turns up again and again in the table of every mini   *)
(* node meshed with that one, even if it was evicted there as a dead       *)
(* route: the republish of route_loop beats the reaper, whatever was       *)
(* missed while links came and went.                                       *)
(***************************************************************************)
LiveRouteListed ==
    \A m \in Mini :
       /\ <>[](alive /\ healthy /\ m \in linked) => <>[](routes[m] # NoRoute)
       /\ \A p \in Mini \ {m} :
            <>[](alive /\ healthy /\ m \in linked /\ {m, p} \in mesh)
               => []<>(routes[p] # NoRoute)

\* A mini node that connects "learns about us right away instead of waiting for
\* the 5-minute steady-state republish" (route_loop).
ToldPromptly ==
    [][Tick /\ alive /\ healthy => \A m \in linked : routes[m] # NoRoute]_routeVars
=============================================================================
