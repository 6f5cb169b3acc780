------------------------------ MODULE Library ------------------------------
(***************************************************************************)
(* The replicated library records ("DB2"): a player publishes its wallet's *)
(* whole library as a signed, versioned snapshot to its home node; every   *)
(* node applies a strictly newer snapshot, keeps the signed payload,       *)
(* floods it, and, when two nodes connect, each sends a summary of the     *)
(* payload versions it keeps so that the other pushes what is newer.       *)
(*                                                                         *)
(* Sources: bopwire_player/lib/src/services/library_publisher.dart,        *)
(* bopwire/src/store/library_store.cpp, bopwire/src/api/rats_api.cpp.      *)
(* One wallet with one device publishes, so that a version names its       *)
(* content.  Playlist records (Pp/Ps rows) follow the same gate, payload   *)
(* row, flood and summary, with a tombstone as one more content.           *)
(***************************************************************************)
EXTENDS Naturals, FiniteSets

CONSTANTS
    Nodes,      \* the full nodes
    Home,       \* the node the player publishes to (NodeService.getRatsPeerId)
    Songs,      \* canonical hashes the player's library may hold
    MaxVersion, \* bound: deltas the player sends
    MaxRetries, \* _kSendRetries: re-sends of one request after a timeout
    MaxFlaps,   \* bound: how often links go down
    MaxCrashes  \* bound: node crashes

ASSUME LibraryAssumption == Home \in Nodes /\ MaxVersion \in Nat

Version == 0 .. MaxVersion      \* 0: no record, what value(k, 0) yields
Link == {l \in SUBSET Nodes : Cardinality(l) = 2}
None == [k |-> "none"]

VARIABLES
    \* the player
    lib,        \* LibraryService.entries: the songs it holds now
    pub,        \* the publishFull in flight
    off,        \* the publishOffline in flight
    digest,     \* _lastPublishedDigest (the set stands for its digest), or None
    content,    \* content[v]: the add set signed under version v
    sent,       \* _lastSentVersion
    \* the nodes
    row,        \* Lw row and versions map: the version applied
    pay,        \* Ls row: the version of the signed payload kept
    jobs,       \* ingests under way: node, version, next step, who asked
    cache,      \* db2_sync_body_cache_ with db2_summary_dirty_: a version, or None
    stamp,      \* last_connect_handshake_ms_ within kConnectDebounceMs
    \* the network
    up,         \* links that are up
    shaken,     \* ghost: <<n, m>> when m has answered n's summary on this link
    net,        \* messages on the way and requests queued for the workers; one
                \* that is lost, or dropped by a full queue, is never taken
    flaps, crashes

player == <<lib, pub, off, digest, content, sent>>
nodes == <<row, pay, jobs, cache, stamp>>
links == <<up, shaken, flaps, crashes>>
vars == <<player, nodes, links, net>>

\* pc: read -> send -> wait -> idle; a: the attempt; got: how the last one ended.
Resting == [pc |-> "idle", rerun |-> FALSE, set |-> {}, v |-> 0, a |-> 0, got |-> "none"]

Init ==
    /\ lib = {} /\ pub = Resting /\ off = Resting /\ digest = None
    /\ content = [v \in Version |-> {}] /\ sent = 0
    /\ row = [n \in Nodes |-> 0] /\ pay = [n \in Nodes |-> 0]
    /\ jobs = {} /\ cache = [n \in Nodes |-> None] /\ stamp = {}
    /\ up = {} /\ shaken = {} /\ net = {} /\ flaps = 0 /\ crashes = 0

Peers(n) == {m \in Nodes : {n, m} \in up}

-----------------------------------------------------------------------------
(* The player: library_publisher.dart *)

\* What a bug would do: a call that finds a publish in flight just returns.
FullDropped ==
    pub' = IF pub.pc = "idle" THEN [Resting EXCEPT !.pc = "read"] ELSE pub

\* Start, or leave word for the publish in flight.
publishFull ==
    pub' = IF pub.pc = "idle" THEN [Resting EXCEPT !.pc = "read"]
                              ELSE [pub EXCEPT !.rerun = TRUE]

\* One round ended with `got`: go round again if word was left.
Ended(p, got) ==
    IF p.rerun THEN [Resting EXCEPT !.pc = "read"]
               ELSE [p EXCEPT !.pc = "idle", !.got = got]

\* A song is imported or removed; the library service then calls publishFull.
Edit(s) ==
    /\ lib' = IF s \in lib THEN lib \ {s} ELSE lib \union {s}
    /\ publishFull
    /\ UNCHANGED <<off, digest, content, sent, nodes, links, net>>

\* A reconnect or a scan republishes whatever the library holds.
reAnnounce ==
    /\ publishFull
    /\ UNCHANGED <<lib, off, digest, content, sent, nodes, links, net>>

\* The song set is read before the home node's id is awaited.
publishOnce ==
    /\ pub.pc = "read"
    /\ pub' = IF digest = [k |-> "digest", set |-> lib]
              THEN Ended([pub EXCEPT !.set = lib], "skipped")
              ELSE [pub EXCEPT !.pc = "send", !.set = lib]
    /\ UNCHANGED <<lib, off, digest, content, sent, nodes, links, net>>

\* LibratsDiscovery.disconnect: an empty snapshot, outside the in-flight guard.
publishOffline ==
    /\ off.pc = "idle"
    /\ off' = [Resting EXCEPT !.pc = "send"]
    /\ UNCHANGED <<lib, pub, digest, content, sent, nodes, links, net>>

\* Stamp a version above the last one sent, sign, send.
Stamped(set) ==
    /\ sent < MaxVersion
    /\ sent' = sent + 1
    /\ content' = [content EXCEPT ![sent + 1] = set]
    /\ net' = net \union {[k |-> "delta", v |-> sent + 1, a |-> 0]}

sendDelta ==
    /\ \/ pub.pc = "send" /\ Stamped(pub.set) /\ UNCHANGED off
          /\ pub' = [pub EXCEPT !.pc = "wait", !.v = sent + 1]
       \/ off.pc = "send" /\ Stamped({}) /\ UNCHANGED pub
          /\ off' = [off EXCEPT !.pc = "wait", !.v = sent + 1]
    /\ UNCHANGED <<lib, digest, nodes, links>>

\* No home node's id within the wait: the round ends without a send.
noHome ==
    /\ \/ pub.pc = "send" /\ pub' = Ended(pub, "none") /\ UNCHANGED off
       \/ off.pc = "send" /\ off' = Resting /\ UNCHANGED pub
    /\ UNCHANGED <<lib, digest, content, sent, nodes, links, net>>

\* The request `_pending` still waits for.
Asked(p, v, a) == p.pc = "wait" /\ p.v = v /\ p.a = a

\* The node's answer; only `applied` moves the digest.  A refusal reaches the
\* publisher as an exception.
answered(m) ==
    /\ m \in net /\ m.k = "ack"
    /\ net' = net \ {m}
    /\ digest' = IF m.ok THEN [k |-> "digest", set |-> content[m.v]] ELSE digest
    /\ IF Asked(pub, m.v, m.a)
       THEN pub' = Ended(pub, IF m.ok THEN "applied" ELSE "refused") /\ UNCHANGED off
       ELSE off' = [off EXCEPT !.pc = "idle"] /\ UNCHANGED pub
    /\ UNCHANGED <<lib, content, sent, nodes, links>>

Late(p) == {m \in net : m.k = "ack" /\ Asked(p, m.v, m.a)}

\* rats_client.request: a timeout re-sends the body under a fresh id, then
\* fails; the answer to the id given up is ignored when it comes.
timedOut ==
    /\ \E p \in {pub, off} :
        /\ p.pc = "wait"
        /\ LET again == p.a < MaxRetries
           IN /\ net' = (net \ Late(p)) \union
                        (IF again THEN {[k |-> "delta", v |-> p.v, a |-> p.a + 1]} ELSE {})
              /\ IF p = pub
                 THEN /\ pub' = IF again THEN [pub EXCEPT !.a = @ + 1] ELSE Ended(pub, "timeout")
                      /\ UNCHANGED off
                 ELSE /\ off' = IF again THEN [off EXCEPT !.a = @ + 1] ELSE [off EXCEPT !.pc = "idle"]
                      /\ UNCHANGED pub
    /\ UNCHANGED <<lib, digest, content, sent, nodes, links>>

-----------------------------------------------------------------------------
(* A node's ingest: several workers serve requests, one io thread the flood *)

\* The attempt to answer; a flooded record has none.
Ask(m) == IF m.k = "delta" THEN {m.a} ELSE {}

\* What a bug would do: the payload is kept before the record is applied.
StoredFirst(m) ==
    /\ m \in net /\ m.k \in {"delta", "lib"}
    /\ LET n == IF m.k = "delta" THEN Home ELSE m.to
       IN /\ jobs' = jobs \union {[n |-> n, v |-> m.v, pc |-> "apply", ask |-> Ask(m)]}
          /\ pay' = [pay EXCEPT ![n] = m.v]
    /\ net' = net \ {m}
    /\ UNCHANGED <<player, row, cache, stamp, links>>

\* on_request_cb / on_library_cb: the record's signature verified.
ingest_begin(m) ==
    /\ m \in net /\ m.k \in {"delta", "lib"}
    /\ LET n == IF m.k = "delta" THEN Home ELSE m.to
       IN /\ m.k = "lib" => ~\E j \in jobs : j.n = n /\ j.ask = {}
          /\ jobs' = jobs \union {[n |-> n, v |-> m.v, pc |-> "apply", ask |-> Ask(m)]}
    /\ net' = net \ {m}
    /\ UNCHANGED <<player, row, pay, cache, stamp, links>>

\* The answer to a request the player still waits for.
Acks(j, ok) ==
    {[k |-> "ack", v |-> j.v, a |-> a, ok |-> ok] :
        a \in {b \in j.ask : Asked(pub, j.v, b) \/ Asked(off, j.v, b)}}

Moved(j, pc) == (jobs \ {j}) \union {[j EXCEPT !.pc = pc]}

\* The version gate and the snapshot replace, one lock section, one batch.
set_library(j) ==
    /\ j \in jobs /\ j.pc = "apply"
    /\ IF j.v <= row[j.n]
       THEN /\ jobs' = jobs \ {j} /\ net' = net \union Acks(j, FALSE)
            /\ UNCHANGED row
       ELSE /\ row' = [row EXCEPT ![j.n] = j.v]
            /\ jobs' = Moved(j, "store") /\ UNCHANGED net
    /\ UNCHANGED <<player, pay, cache, stamp, links>>

\* A second lock section, with no gate of its own.
store_library_payload(j) ==
    /\ j \in jobs /\ j.pc = "store"
    /\ pay' = [pay EXCEPT ![j.n] = j.v]
    /\ jobs' = Moved(j, "flood")
    /\ UNCHANGED <<player, row, cache, stamp, links, net>>

\* The summary is marked dirty, the payload broadcast, the request answered.
flood(j) ==
    /\ j \in jobs /\ j.pc = "flood"
    /\ cache' = [cache EXCEPT ![j.n] = None]
    /\ net' = net \union Acks(j, TRUE)
                  \union {[k |-> "lib", from |-> j.n, to |-> m, v |-> j.v] : m \in Peers(j.n)}
    /\ jobs' = jobs \ {j}
    /\ UNCHANGED <<player, row, pay, stamp, links>>

-----------------------------------------------------------------------------
(* Anti-entropy between two nodes *)

\* on_peer_connected_cb at both ends: a stamped peer gets no handshake.
on_peer_connected(l) ==
    /\ l \notin up
    /\ up' = up \union {l}
    /\ LET due == {d \in l \X l : d[1] # d[2] /\ d \notin stamp}
       IN /\ stamp' = stamp \union due
          /\ net' = net \union {[k |-> "connect", from |-> d[1], to |-> d[2], v |-> 0] : d \in due}
    /\ UNCHANGED <<player, row, pay, jobs, cache, shaken, flaps, crashes>>

Summary(n) == IF cache[n] = None THEN pay[n] ELSE cache[n].v

\* do_peer_connect_handshake_ on a worker: the cached summary, rebuilt if dirty.
do_peer_connect_handshake(m) ==
    /\ m \in net /\ m.k = "connect"
    /\ cache' = [cache EXCEPT ![m.from] = [k |-> "body", v |-> Summary(m.from)]]
    /\ net' = (net \ {m}) \union
              (IF m.to \in Peers(m.from)
               THEN {[k |-> "sum", from |-> m.from, to |-> m.to, v |-> Summary(m.from)]} ELSE {})
    /\ UNCHANGED <<player, row, pay, jobs, stamp, links>>

\* What a bug would do: a record the summary does not name is not pushed.
PushedIfKnown(m) ==
    IF m.v # 0 /\ pay[m.to] > m.v
    THEN {[k |-> "lib", from |-> m.to, to |-> m.from, v |-> pay[m.to]]} ELSE {}

\* Every payload above the version the summary names, 0 if it names none.
Pushed(m) ==
    IF pay[m.to] > m.v THEN {[k |-> "lib", from |-> m.to, to |-> m.from, v |-> pay[m.to]]} ELSE {}

\* The db2.sync verb: push the payload the requester is behind on.
db2_sync(m) ==
    /\ m \in net /\ m.k = "sum"
    /\ net' = (net \ {m}) \union Pushed(m)
    /\ shaken' = shaken \union {<<m.from, m.to>>}
    /\ UNCHANGED <<player, nodes, up, flaps, crashes>>

\* kConnectDebounceMs passes.
debounce_over(d) ==
    /\ d \in stamp /\ stamp' = stamp \ {d}
    /\ UNCHANGED <<player, row, pay, jobs, cache, links, net>>

Between(l) == {m \in net : m.k \in {"lib", "sum"} /\ {m.from, m.to} = l}

on_peer_disconnected(l) ==
    /\ l \in up /\ flaps < MaxFlaps
    /\ flaps' = flaps + 1
    /\ up' = up \ {l}
    /\ shaken' = shaken \ (l \X l)
    /\ net' = net \ Between(l)
    /\ UNCHANGED <<player, nodes, crashes>>

\* A node stops between any two steps; attach() rebuilds its maps from the rows.
Crash(n) ==
    /\ crashes < MaxCrashes
    /\ crashes' = crashes + 1
    /\ jobs' = {j \in jobs : j.n # n}
    /\ cache' = [cache EXCEPT ![n] = None]
    /\ stamp' = {d \in stamp : d[1] # n}
    /\ up' = {l \in up : n \notin l}
    /\ shaken' = {d \in shaken : n \notin {d[1], d[2]}}
    /\ net' = {m \in net : /\ m.k \in {"lib", "sum"} => n \notin {m.from, m.to}
                           /\ m.k = "connect" => m.from # n
                           /\ m.k = "delta" => n # Home}
    /\ UNCHANGED <<player, row, pay, flaps>>

Next ==
    \/ \E s \in Songs : Edit(s)
    \/ reAnnounce \/ publishOnce \/ publishOffline \/ sendDelta \/ noHome \/ timedOut
    \/ \E m \in net : \/ answered(m) \/ ingest_begin(m)
                      \/ do_peer_connect_handshake(m) \/ db2_sync(m)
    \/ \E j \in jobs : set_library(j) \/ store_library_payload(j) \/ flood(j)
    \/ \E l \in Link : on_peer_connected(l) \/ on_peer_disconnected(l)
    \/ \E d \in stamp : debounce_over(d)
    \/ \E n \in Nodes : Crash(n)

Spec == Init /\ [][Next]_vars

-----------------------------------------------------------------------------
(* Properties *)

\* No ingest, flood, summary or handshake is under way, every link is up.
Quiet ==
    /\ jobs = {} /\ up = Link
    /\ \A m \in net : m.k \in {"delta", "ack"}

\* Once the mesh is quiet and every pair of nodes has answered each other's
\* summary on its present link, no node is behind a payload another one keeps:
\* db2.sync makes up for every flood lost to a dead link or a crash.
PayloadsReachAll ==
    Quiet /\ (\A l \in Link : \A n, m \in l : n # m => <<n, m>> \in shaken)
        => \A n, m \in Nodes : row[n] >= pay[m]

\* A node never claims, in a payload row, in its cached summary or in a summary
\* on the way, a version it has not applied: the peers would never send that
\* version again.  This is why ingest applies before it stores the payload.
NeverOverclaims ==
    /\ \A n \in Nodes : pay[n] <= row[n] /\ Summary(n) <= row[n]
    /\ \A m \in net : m.k = "sum" => m.v <= row[m.from]

\* When publishFull has come to rest after a confirmed publish, and nothing
\* was sent later, the home node holds exactly the library of this moment: an edit
\* made while a publish was in flight is not dropped.
NothingUnannounced ==
    pub.pc = "idle" /\ pub.got = "applied" /\ pub.v = sent
        => content[row[Home]] = lib

(***************************************************************************)
(* The inductive invariants behind these.                                  *)
(***************************************************************************)
Publication == [pc : {"idle", "read", "send", "wait"}, rerun : BOOLEAN,
                set : SUBSET Songs, v : Version, a : Nat,
                got : {"none", "skipped", "applied", "refused", "timeout"}]
Job == [n : Nodes, v : Version, pc : {"apply", "store", "flood"}, ask : SUBSET Nat]
Message == [k : {"delta"}, v : Version, a : Nat]
             \cup [k : {"ack"}, v : Version, a : Nat, ok : BOOLEAN]
             \cup [k : {"lib", "connect", "sum"}, from : Nodes, to : Nodes, v : Version]

TypeOK ==
    /\ lib \subseteq Songs
    /\ pub \in Publication /\ off \in Publication
    /\ content \in [Version -> SUBSET Songs] /\ sent \in Version
    /\ row \in [Nodes -> Version] /\ pay \in [Nodes -> Version]
    /\ jobs \subseteq Job
    /\ cache \in [Nodes -> [k : {"body"}, v : Version] \cup {None}]
    /\ stamp \subseteq Nodes \X Nodes /\ shaken \subseteq Nodes \X Nodes
    /\ up \subseteq Link
    /\ net \subseteq Message

\* An ingest past its gate has applied its version.
ClaimInv == NeverOverclaims /\ \A j \in jobs : j.pc # "apply" => j.v <= row[j.n]

\* What the far end has answered, or is to answer, came over a link that is up.
LinkInv ==
    /\ \A m \in net : m.k \in {"lib", "sum"} => {m.from, m.to} \in up
    /\ \A d \in shaken : {d[1], d[2]} \in up

\* n has what m keeps, or it is on its way: as a record, in an ingest of n, or
\* in one of m that is still to flood it.
Covered(n, m) ==
    \/ pay[m] <= row[n]
    \/ \E r \in net : /\ r.k = "lib" /\ r.from = m /\ r.to = n /\ r.v >= pay[m]
    \/ \E j \in jobs : /\ j.v >= pay[m]
                       /\ j.n = n \/ (j.n = m /\ j.pc = "flood")
CoverInv == \A d \in shaken : Covered(d[1], d[2])

\* No version is above the last one sent, an answer that says so was applied at
\* home, and a publish nobody left word for works on the library of the moment.
VersionInv ==
    /\ pub.v <= sent /\ off.v <= sent
    /\ \A n \in Nodes : row[n] <= sent /\ pay[n] <= sent
    /\ \A j \in jobs : j.v <= sent /\ (j.ask # {} => j.n = Home)
    /\ \A m \in net : /\ m.v <= sent
                      /\ m.k = "ack" /\ m.ok => m.v <= row[Home]
PubInv ==
    /\ pub.pc = "wait" => content[pub.v] = pub.set
    /\ pub.pc \in {"send", "wait"} /\ ~pub.rerun => pub.set = lib
    /\ pub.pc = "idle" => ~pub.rerun
    /\ pub.pc = "idle" /\ pub.got = "applied" =>
          pub.set = lib /\ content[pub.v] = lib /\ pub.v <= row[Home]

\* "Updated only on applied=true, so a failed publish retries": the digest gate
\* skips only a library the home node holds.
GateHonest ==
    pub.pc = "idle" /\ pub.got = "skipped" /\ pub.set = lib /\ off.pc = "idle"
        /\ net = {} /\ jobs = {} => content[row[Home]] = lib

\* "any change since then already flooded to it": a debounced reconnect misses
\* nothing.
FloodedMeanwhile ==
    Quiet => \A n, m \in Nodes : row[n] >= pay[m]

\* "the library clones onto the whole mesh as it changes".
ReplicasAgree ==
    Quiet /\ (\A l \in Link : \A n, m \in l : n # m => <<n, m>> \in shaken)
        => \A n, m \in Nodes : row[n] = row[m]

=============================================================================
