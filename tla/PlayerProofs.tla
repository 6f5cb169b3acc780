---------------------------- MODULE PlayerProofs ----------------------------
(***************************************************************************)
(* What the player and its home node owe each other: Library, OfflinePlays *)
(* and Transfer.                                                           *)
(*                                                                         *)
(* No node claims a version it has not applied, two nodes that answered    *)
(* each other's summaries miss nothing once the mesh is quiet, and an edit *)
(* made while a publish is in flight is not dropped: for every set of      *)
(* nodes and songs, every bound on versions, retries, broken links and     *)
(* crashes.  The first needs to know of an ingest under way that what is   *)
(* past its gate is applied (ClaimInv).  The second holds at rest because  *)
(* at every moment a pair that shook hands has, or has coming over a link  *)
(* that is up, what the other keeps (LinkInv, CoverInv).  The third        *)
(* follows the song set from publishOnce to the answer (VersionInv,        *)
(* PubInv).                                                                *)
(*                                                                         *)
(* A play is marked as submitted only once a bundle that held it was       *)
(* handled, for any number of ticks at once: a nonce leads from an answer  *)
(* back to the bundle of the tick that marks (NonceNamesBundle).           *)
(*                                                                         *)
(* Two workers fetch one piece in the tail only: before it, what a worker  *)
(* fetches is claimed, and the claims of two workers are apart             *)
(* (ClaimsApart).                                                          *)
(***************************************************************************)
EXTENDS Library, OfflinePlays, Transfer, FiniteSetTheorems, TLAPS

-----------------------------------------------------------------------------
(* Library *)

LibraryInv ==
    TypeOK /\ ClaimInv /\ LinkInv /\ CoverInv /\ VersionInv /\ PubInv

-----------------------------------------------------------------------------
(* What the types say *)

\* A message has the fields of its kind.
LEMMA MessageFields ==
    ASSUME NEW m \in Message
    PROVE  /\ m.v \in Version
           /\ m.k \in {"delta", "ack"} => m.a \in Nat
           /\ m.k = "ack" => m.ok \in BOOLEAN
           /\ m.k \in {"lib", "connect", "sum"} => m.from \in Nodes /\ m.to \in Nodes
           /\ m.k \in {"delta", "ack", "lib", "connect", "sum"}
BY DEF Message

LEMMA VersionIsNat == Version \subseteq Nat /\ 0 \in Version
BY LibraryAssumption DEF Version

\* One round's end, and a fresh one, are publications.
LEMMA EndedType ==
    ASSUME NEW p \in Publication,
           NEW got \in {"none", "skipped", "applied", "refused", "timeout"}
    PROVE  Ended(p, got) \in Publication
BY VersionIsNat DEF Ended, Resting, Publication

LEMMA RestingType ==
    /\ Resting \in Publication
    /\ \A pc \in {"read", "send"} : [Resting EXCEPT !.pc = pc] \in Publication
BY VersionIsNat DEF Resting, Publication

\* The answers an ingest gives are acknowledgements of its version.
LEMMA AcksAre ==
    ASSUME NEW j \in Job, NEW ok \in BOOLEAN
    PROVE  /\ Acks(j, ok) \subseteq Message
           /\ \A m \in Acks(j, ok) : /\ m.k = "ack" /\ m.v = j.v /\ m.ok = ok
                                     /\ j.ask # {}
BY DEF Acks, Job, Message

LEMMA SummaryType == TypeOK => \A n \in Nodes : Summary(n) \in Version
BY DEF TypeOK, Summary, None

\* The peers of a node are nodes.
LEMMA PeersAreNodes == \A n : Peers(n) \subseteq Nodes
BY DEF Peers

-----------------------------------------------------------------------------
(* Initial states *)

LEMMA LibraryInit == Init => LibraryInv
<1> SUFFICES ASSUME Init
             PROVE  LibraryInv
  OBVIOUS
<1> USE VersionIsNat DEF Init
<1>1. TypeOK
  BY RestingType DEF TypeOK, None
<1>2. ClaimInv
  BY DEF ClaimInv, NeverOverclaims, Summary
<1>3. LinkInv /\ CoverInv
  BY DEF LinkInv, CoverInv
<1>4. VersionInv
  BY DEF VersionInv, Resting
<1>5. PubInv
  BY DEF PubInv, Resting
<1> QED
  BY <1>1, <1>2, <1>3, <1>4, <1>5 DEF LibraryInv

-----------------------------------------------------------------------------
(* Type correctness, the player's steps *)

LEMMA PlayerTypes ==
    ASSUME TypeOK,
           \/ \E s \in Songs : Edit(s)
           \/ reAnnounce \/ publishOnce \/ publishOffline \/ sendDelta \/ noHome
           \/ timedOut \/ (\E m \in net : answered(m))
    PROVE  TypeOK'
<1> USE VersionIsNat, RestingType, EndedType DEF TypeOK
<1>0. ASSUME publishFull
      PROVE  pub' \in Publication
  BY <1>0 DEF publishFull, Publication
<1>1. ASSUME NEW s \in Songs, Edit(s)
      PROVE  TypeOK'
  BY <1>0, <1>1 DEF Edit, nodes, links
<1>2. CASE reAnnounce
  BY <1>0, <1>2 DEF reAnnounce, nodes, links
<1>3. CASE publishOnce
  <2>1. [pub EXCEPT !.set = lib] \in Publication
        /\ [pub EXCEPT !.pc = "send", !.set = lib] \in Publication
    BY DEF Publication
  <2> QED
    BY <1>3, <2>1 DEF publishOnce, nodes, links
<1>4. CASE publishOffline
  BY <1>4 DEF publishOffline, nodes, links
<1>5. CASE sendDelta
  <2>1. ASSUME NEW set \in SUBSET Songs, Stamped(set)
        PROVE  /\ sent' \in Version /\ sent' = sent + 1
               /\ content' \in [Version -> SUBSET Songs]
               /\ net' \subseteq Message
    <3>1. sent + 1 \in Version
      BY <2>1, LibraryAssumption DEF Stamped, Version
    <3>2. [k |-> "delta", v |-> sent + 1, a |-> 0] \in Message
      BY <3>1 DEF Message
    <3> QED
      BY <2>1, <3>1, <3>2 DEF Stamped
  <2>2. pub.set \in SUBSET Songs
    BY DEF Publication
  <2>3. ASSUME sent + 1 \in Version
        PROVE  /\ [pub EXCEPT !.pc = "wait", !.v = sent + 1] \in Publication
               /\ [off EXCEPT !.pc = "wait", !.v = sent + 1] \in Publication
    BY <2>3 DEF Publication
  <2> QED
    BY <1>5, <2>1, <2>2, <2>3 DEF sendDelta, nodes, links
<1>6. CASE noHome
  BY <1>6 DEF noHome, nodes, links
<1>7. CASE timedOut
  <2>1. PICK p \in {pub, off} :
          /\ p.pc = "wait"
          /\ LET again == p.a < MaxRetries
             IN /\ net' = (net \ Late(p)) \union
                          (IF again THEN {[k |-> "delta", v |-> p.v, a |-> p.a + 1]} ELSE {})
                /\ IF p = pub
                   THEN /\ pub' = IF again THEN [pub EXCEPT !.a = @ + 1] ELSE Ended(pub, "timeout")
                        /\ UNCHANGED off
                   ELSE /\ off' = IF again THEN [off EXCEPT !.a = @ + 1] ELSE [off EXCEPT !.pc = "idle"]
                        /\ UNCHANGED pub
    BY <1>7 DEF timedOut
  <2>2. [k |-> "delta", v |-> p.v, a |-> p.a + 1] \in Message
    BY DEF Message, Publication
  <2>3. net' \subseteq Message
    BY <2>1, <2>2
  <2>4. pub' \in Publication /\ off' \in Publication
    <3>1. \A q \in Publication : /\ [q EXCEPT !.a = @ + 1] \in Publication
                                 /\ [q EXCEPT !.pc = "idle"] \in Publication
      BY DEF Publication
    <3> QED
      BY <2>1, <3>1
  <2> QED
    BY <1>7, <2>3, <2>4 DEF timedOut, nodes, links
<1>8. ASSUME NEW m \in net, answered(m)
      PROVE  TypeOK'
  <2>1. pub' \in Publication /\ off' \in Publication
    <3>1. [off EXCEPT !.pc = "idle"] \in Publication
      BY DEF Publication
    <3> QED
      BY <1>8, <3>1 DEF answered
  <2> QED
    BY <1>8, <2>1 DEF answered, nodes, links
<1> QED
  BY <1>1, <1>2, <1>3, <1>4, <1>5, <1>6, <1>7, <1>8

-----------------------------------------------------------------------------
(* Type correctness, the nodes' steps *)

LEMMA NodeTypes ==
    ASSUME TypeOK,
           \/ \E m \in net : \/ ingest_begin(m) \/ do_peer_connect_handshake(m)
                             \/ db2_sync(m)
           \/ \E j \in jobs : set_library(j) \/ store_library_payload(j) \/ flood(j)
    PROVE  TypeOK'
<1> USE VersionIsNat DEF TypeOK, player, nodes, links
<1>1. ASSUME NEW m \in net, ingest_begin(m)
      PROVE  TypeOK'
  <2> DEFINE n == IF m.k = "delta" THEN Home ELSE m.to
             j == [n |-> n, v |-> m.v, pc |-> "apply", ask |-> Ask(m)]
  <2>1. /\ m.v \in Version /\ n \in Nodes /\ Ask(m) \in SUBSET Nat
    BY <1>1, MessageFields, LibraryAssumption DEF ingest_begin, Ask
  <2>2. j \in Job
    BY <2>1 DEF Job
  <2>3. jobs' = jobs \union {j} /\ net' \subseteq net
    BY <1>1 DEF ingest_begin
  <2> QED
    BY <1>1, <2>2, <2>3 DEF ingest_begin
<1>2. ASSUME NEW m \in net, do_peer_connect_handshake(m)
      PROVE  TypeOK'
  <2>1. m.from \in Nodes /\ m.to \in Nodes /\ Summary(m.from) \in Version
    BY <1>2, MessageFields, SummaryType DEF do_peer_connect_handshake
  <2>2. [k |-> "sum", from |-> m.from, to |-> m.to, v |-> Summary(m.from)] \in Message
    BY <2>1 DEF Message
  <2>3. net' \subseteq Message
    BY <1>2, <2>2 DEF do_peer_connect_handshake
  <2>4. [k |-> "body", v |-> Summary(m.from)] \in [k : {"body"}, v : Version]
    BY <2>1
  <2>5. cache' \in [Nodes -> [k : {"body"}, v : Version] \cup {None}]
    BY <1>2, <2>1, <2>4 DEF do_peer_connect_handshake
  <2> QED
    BY <1>2, <2>3, <2>5 DEF do_peer_connect_handshake
<1>3. ASSUME NEW m \in net, db2_sync(m)
      PROVE  TypeOK'
  <2>1. m.from \in Nodes /\ m.to \in Nodes
    BY <1>3, MessageFields DEF db2_sync
  <2>2. [k |-> "lib", from |-> m.to, to |-> m.from, v |-> pay[m.to]] \in Message
    BY <2>1 DEF Message
  <2>3. net' \subseteq Message
    BY <1>3, <2>2 DEF db2_sync, Pushed
  <2> QED
    BY <1>3, <2>1, <2>3 DEF db2_sync
<1>4. ASSUME NEW j \in jobs
      PROVE  /\ j \in Job /\ j.n \in Nodes /\ j.v \in Version
             /\ \A pc \in {"store", "flood"} : Moved(j, pc) \subseteq Job
             /\ Acks(j, TRUE) \subseteq Message /\ Acks(j, FALSE) \subseteq Message
  <2>1. j \in Job
    OBVIOUS
  <2>2. Acks(j, TRUE) \subseteq Message /\ Acks(j, FALSE) \subseteq Message
    BY <2>1, AcksAre
  <2> QED
    BY <2>1, <2>2 DEF Job, Moved
<1>5. ASSUME NEW j \in jobs, set_library(j)
      PROVE  TypeOK'
  BY <1>4, <1>5 DEF set_library
<1>6. ASSUME NEW j \in jobs, store_library_payload(j)
      PROVE  TypeOK'
  BY <1>4, <1>6 DEF store_library_payload
<1>7. ASSUME NEW j \in jobs, flood(j)
      PROVE  TypeOK'
  <2>1. \A m \in Peers(j.n) :
            [k |-> "lib", from |-> j.n, to |-> m, v |-> j.v] \in Message
    BY <1>4, PeersAreNodes DEF Message
  <2> DEFINE floods == {[k |-> "lib", from |-> j.n, to |-> m, v |-> j.v] : m \in Peers(j.n)}
  <2>2. floods \subseteq Message
    BY <2>1
  <2>3. net' = net \union Acks(j, TRUE) \union floods
    BY <1>7 DEF flood
  <2>4. net' \subseteq Message
    <3> HIDE DEF floods
    <3> QED
      BY <1>4, <2>2, <2>3
  <2>5. cache' = [cache EXCEPT ![j.n] = None] /\ jobs' \subseteq jobs
    BY <1>7 DEF flood
  <2> QED
    BY <1>4, <1>7, <2>4, <2>5 DEF flood
<1> QED
  BY <1>1, <1>2, <1>3, <1>5, <1>6, <1>7

(* Type correctness, the links' steps *)

LEMMA LinkTypes ==
    ASSUME TypeOK,
           \/ \E l \in Link : on_peer_connected(l) \/ on_peer_disconnected(l)
           \/ \E d \in stamp : debounce_over(d)
           \/ \E n \in Nodes : Crash(n)
    PROVE  TypeOK'
<1> USE VersionIsNat DEF TypeOK, player, nodes, links
<1>1. ASSUME NEW l \in Link, on_peer_connected(l)
      PROVE  TypeOK'
  <2> DEFINE due == {d \in l \X l : d[1] # d[2] /\ d \notin stamp}
  <2>1. l \subseteq Nodes
    BY DEF Link
  <2>2. due \subseteq Nodes \X Nodes
    BY <2>1
  <2>3. \A d \in due : [k |-> "connect", from |-> d[1], to |-> d[2], v |-> 0] \in Message
    BY <2>2 DEF Message
  <2> QED
    BY <1>1, <2>2, <2>3 DEF on_peer_connected
<1>2. ASSUME NEW l \in Link, on_peer_disconnected(l)
      PROVE  TypeOK'
  BY <1>2 DEF on_peer_disconnected
<1>3. ASSUME NEW d \in stamp, debounce_over(d)
      PROVE  TypeOK'
  BY <1>3 DEF debounce_over
<1>4. ASSUME NEW n \in Nodes, Crash(n)
      PROVE  TypeOK'
  BY <1>4 DEF Crash
<1> QED
  BY <1>1, <1>2, <1>3, <1>4

LEMMA LibraryTypes == TypeOK /\ [Next]_vars => TypeOK'
<1> SUFFICES ASSUME TypeOK, [Next]_vars
             PROVE  TypeOK'
  OBVIOUS
<1>1. CASE UNCHANGED vars
  BY <1>1 DEF vars, player, nodes, links, TypeOK
<1>2. CASE Next
  BY <1>2, PlayerTypes, NodeTypes, LinkTypes DEF Next
<1> QED
  BY <1>1, <1>2

-----------------------------------------------------------------------------
(* What the steps leave alone *)

PlayerStep ==
    \/ \E s \in Songs : Edit(s)
    \/ reAnnounce \/ publishOnce \/ publishOffline \/ sendDelta \/ noHome \/ timedOut
    \/ \E m \in net : answered(m)

\* The player touches no node and no link, and what nodes send one another
\* stays on its way.
LEMMA PlayerFrame ==
    ASSUME PlayerStep
    PROVE  /\ UNCHANGED <<row, pay, jobs, cache, stamp, up, shaken, flaps, crashes>>
           /\ \A m \in net' : m \in net \/ m.k = "delta"
           /\ \A m \in net : m \in net' \/ m.k = "ack"
<1> USE DEF nodes, links
<1>1. ASSUME NEW s \in Songs, Edit(s)
      PROVE  UNCHANGED <<nodes, links, net>>
  BY <1>1 DEF Edit
<1>2. CASE reAnnounce
  BY <1>2 DEF reAnnounce
<1>3. CASE publishOnce
  BY <1>3 DEF publishOnce
<1>4. CASE publishOffline
  BY <1>4 DEF publishOffline
<1>5. CASE sendDelta
  BY <1>5 DEF sendDelta, Stamped
<1>6. CASE noHome
  BY <1>6 DEF noHome
<1>7. CASE timedOut
  <2>1. UNCHANGED <<nodes, links>>
    BY <1>7 DEF timedOut
  <2>2. PICK p \in {pub, off} :
          net' = (net \ Late(p)) \union
                 (IF p.a < MaxRetries
                  THEN {[k |-> "delta", v |-> p.v, a |-> p.a + 1]} ELSE {})
    BY <1>7 DEF timedOut
  <2> QED
    BY <2>1, <2>2 DEF Late
<1>8. ASSUME NEW m \in net, answered(m)
      PROVE  UNCHANGED <<nodes, links>> /\ net' = net \ {m} /\ m.k = "ack"
  BY <1>8 DEF answered
<1> QED
  BY <1>1, <1>2, <1>3, <1>4, <1>5, <1>6, <1>7, <1>8 DEF PlayerStep

\* A record a node applied stays applied.
LEMMA RowsGrow ==
    ASSUME TypeOK, [Next]_vars, NEW n \in Nodes
    PROVE  row'[n] >= row[n]
<1> USE VersionIsNat DEF player, nodes, links
<1>0. row[n] \in Nat
  BY DEF TypeOK
<1>1. ASSUME NEW j \in jobs, set_library(j)
      PROVE  row'[n] >= row[n]
  <2>1. j.v \in Nat /\ row \in [Nodes -> Version] /\ j.n \in Nodes
    BY DEF TypeOK, Job
  <2>2. CASE j.v <= row[j.n]
    BY <1>0, <1>1, <2>2 DEF set_library
  <2>3. CASE ~(j.v <= row[j.n])
    <3>1. row' = [row EXCEPT ![j.n] = j.v]
      BY <1>1, <2>3 DEF set_library
    <3>2. j.v >= row[j.n]
      <4>1. row[j.n] \in Nat
        BY <2>1
      <4> QED
        BY <2>1, <2>3, <4>1
    <3> QED
      BY <1>0, <2>1, <3>1, <3>2
  <2> QED
    BY <2>2, <2>3
<1>2. CASE PlayerStep
  BY <1>0, <1>2, PlayerFrame
<1>3. CASE UNCHANGED vars
  BY <1>0, <1>3 DEF vars
<1>4. ASSUME \/ \E m \in net : \/ ingest_begin(m) \/ do_peer_connect_handshake(m)
                               \/ db2_sync(m)
             \/ \E j \in jobs : store_library_payload(j) \/ flood(j)
             \/ \E l \in Link : on_peer_connected(l) \/ on_peer_disconnected(l)
             \/ \E d \in stamp : debounce_over(d)
             \/ \E m \in Nodes : Crash(m)
      PROVE  row' = row
  BY <1>4 DEF ingest_begin, do_peer_connect_handshake, db2_sync, flood,
              store_library_payload, on_peer_connected, on_peer_disconnected,
              debounce_over, Crash
<1> QED
  BY <1>0, <1>1, <1>2, <1>3, <1>4 DEF Next, PlayerStep

-----------------------------------------------------------------------------
(* Nobody claims what it has not applied *)

LEMMA ClaimStep ==
    ASSUME TypeOK, ClaimInv, [Next]_vars
    PROVE  ClaimInv'
<1> USE VersionIsNat DEF player, nodes, links
<1>0. /\ row \in [Nodes -> Version] /\ pay \in [Nodes -> Version]
      /\ \A n \in Nodes : row[n] \in Nat /\ pay[n] \in Nat /\ Summary(n) \in Nat
      /\ \A j \in jobs : j.n \in Nodes /\ j.v \in Nat
      /\ \A m \in net : m.v \in Nat /\ (m.k = "sum" => m.from \in Nodes)
  <2>1. \A m \in net : m \in Message
    BY DEF TypeOK
  <2>2. \A m \in net : m.v \in Nat /\ (m.k = "sum" => m.from \in Nodes)
    BY <2>1, MessageFields
  <2> QED
    BY <2>2, SummaryType DEF TypeOK, Job
<1>1. \A n \in Nodes : row'[n] \in Nat /\ row'[n] >= row[n]
  BY RowsGrow, LibraryTypes DEF TypeOK
<1>2. /\ \A n \in Nodes : pay[n] <= row[n] /\ Summary(n) <= row[n]
      /\ \A m \in net : m.k = "sum" => m.v <= row[m.from]
      /\ \A j \in jobs : j.pc # "apply" => j.v <= row[j.n]
  BY DEF ClaimInv, NeverOverclaims
\* A step that stores nothing claims nothing new.
<1>3. ASSUME pay' = pay,
             \A n \in Nodes : Summary(n)' = Summary(n),
             \A m \in net' : m \in net \/ m.k # "sum",
             \A j \in jobs' : j \in jobs \/ j.pc = "apply"
      PROVE  ClaimInv'
  <2>1. \A n \in Nodes : pay'[n] <= row'[n] /\ Summary(n)' <= row'[n]
    BY <1>0, <1>1, <1>2, <1>3
  <2>2. \A m \in net' : m.k = "sum" => m.v <= row'[m.from]
    BY <1>0, <1>1, <1>2, <1>3
  <2>3. \A j \in jobs' : j.pc # "apply" => j.v <= row'[j.n]
    BY <1>0, <1>1, <1>2, <1>3
  <2> QED
    BY <2>1, <2>2, <2>3 DEF ClaimInv, NeverOverclaims
<1>4. CASE PlayerStep
  BY <1>3, <1>4, PlayerFrame DEF Summary
<1>5. CASE UNCHANGED vars
  BY <1>3, <1>5 DEF vars, Summary
<1>6. ASSUME NEW m \in net, ingest_begin(m)
      PROVE  ClaimInv'
  BY <1>3, <1>6 DEF ingest_begin, Summary
<1>7. ASSUME NEW m \in net, do_peer_connect_handshake(m)
      PROVE  ClaimInv'
  <2>1. m.from \in Nodes /\ pay' = pay /\ row' = row /\ jobs' = jobs
    <3>1. m \in Message
      BY DEF TypeOK
    <3> QED
      BY <1>7, <3>1, MessageFields DEF do_peer_connect_handshake
  <2>2. \A n \in Nodes : Summary(n)' = Summary(n)
    <3>1. cache' = [cache EXCEPT ![m.from] = [k |-> "body", v |-> Summary(m.from)]]
      BY <1>7 DEF do_peer_connect_handshake
    <3>2. cache \in [Nodes -> [k : {"body"}, v : Version] \cup {None}]
      BY DEF TypeOK
    <3>3. [k |-> "body", v |-> Summary(m.from)] # None
      BY DEF None
    <3> QED
      BY <2>1, <3>1, <3>2, <3>3 DEF Summary
  <2>3. \A r \in net' : r \in net \/ (r.k = "sum" /\ r.from = m.from /\ r.v = Summary(m.from))
    BY <1>7 DEF do_peer_connect_handshake
  <2> QED
    BY <1>2, <2>1, <2>2, <2>3 DEF ClaimInv, NeverOverclaims
<1>8. ASSUME NEW m \in net, db2_sync(m)
      PROVE  ClaimInv'
  BY <1>3, <1>8 DEF db2_sync, Summary, Pushed
<1>9. ASSUME NEW j \in jobs, set_library(j)
      PROVE  ClaimInv'
  <2>1. pay' = pay /\ cache' = cache
    BY <1>9 DEF set_library
  <2>2. \A n \in Nodes : Summary(n)' = Summary(n)
    BY <2>1 DEF Summary
  <2>3. \A r \in net' : r \in net \/ r.k # "sum"
    BY <1>9 DEF set_library, Acks
  <2>4. CASE j.v <= row[j.n]
    BY <1>3, <1>9, <2>1, <2>2, <2>3, <2>4 DEF set_library
  <2>5. CASE ~(j.v <= row[j.n])
    <3>1. /\ row' = [row EXCEPT ![j.n] = j.v] /\ net' = net
          /\ jobs' = (jobs \ {j}) \union {[j EXCEPT !.pc = "store"]}
      BY <1>9, <2>5 DEF set_library, Moved
    <3>2. row'[j.n] = j.v
      BY <1>0, <3>1
    <3>3. j \in Job
      BY DEF TypeOK
    <3>4. /\ [j EXCEPT !.pc = "store"].n = j.n
          /\ [j EXCEPT !.pc = "store"].v = j.v
      BY <3>3 DEF Job
    <3>5. ASSUME NEW i \in jobs', i.pc # "apply"
          PROVE  i.v <= row'[i.n]
      <4>1. CASE i \in jobs
        <5>1. i.v <= row[i.n] /\ row'[i.n] >= row[i.n]
          BY <1>0, <1>1, <1>2, <3>5, <4>1
        <5> QED
          BY <1>0, <1>1, <4>1, <5>1
      <4>2. CASE i = [j EXCEPT !.pc = "store"]
        BY <1>0, <3>2, <3>4, <4>2
      <4> QED
        BY <3>1, <4>1, <4>2
    <3>6. \A n \in Nodes : pay'[n] <= row'[n] /\ Summary(n)' <= row'[n]
      BY <1>0, <1>1, <1>2, <2>1, <2>2
    <3>7. \A m \in net' : m.k = "sum" => m.v <= row'[m.from]
      BY <1>0, <1>1, <1>2, <3>1
    <3> QED
      BY <3>5, <3>6, <3>7 DEF ClaimInv, NeverOverclaims
  <2> QED
    BY <2>4, <2>5
<1>10. ASSUME NEW j \in jobs, store_library_payload(j)
       PROVE  ClaimInv'
  <2>1. /\ j.pc = "store" /\ pay' = [pay EXCEPT ![j.n] = j.v]
        /\ row' = row /\ cache' = cache /\ net' = net
        /\ jobs' = (jobs \ {j}) \union {[j EXCEPT !.pc = "flood"]}
    BY <1>10 DEF store_library_payload, Moved
  <2>2. j.v <= row[j.n]
    BY <1>2, <2>1
  <2>3. j \in Job
    BY DEF TypeOK
  <2>4. \A i \in jobs' : i.pc # "apply" => i.v <= row'[i.n]
    BY <1>2, <2>1, <2>2, <2>3 DEF Job
  <2>5. \A n \in Nodes : pay'[n] <= row'[n] /\ Summary(n)' <= row'[n]
    BY <1>0, <1>2, <2>1, <2>2 DEF Summary
  <2>6. \A m \in net' : m.k = "sum" => m.v <= row'[m.from]
    BY <1>2, <2>1
  <2> QED
    BY <2>4, <2>5, <2>6 DEF ClaimInv, NeverOverclaims
<1>11. ASSUME NEW j \in jobs, flood(j)
       PROVE  ClaimInv'
  <2>1. /\ row' = row /\ pay' = pay /\ jobs' \subseteq jobs
        /\ cache' = [cache EXCEPT ![j.n] = None]
    BY <1>11 DEF flood
  <2>2. \A r \in net' : r \in net \/ r.k # "sum"
    BY <1>11 DEF flood, Acks
  <2>3. \A n \in Nodes : Summary(n)' = pay[n] \/ Summary(n)' = Summary(n)
    BY <2>1 DEF Summary, TypeOK
  <2> QED
    BY <1>0, <1>2, <2>1, <2>2, <2>3 DEF ClaimInv, NeverOverclaims
<1>12. ASSUME NEW l \in Link, on_peer_connected(l) \/ on_peer_disconnected(l)
       PROVE  ClaimInv'
  BY <1>3, <1>12 DEF on_peer_connected, on_peer_disconnected, Summary
<1>13. ASSUME NEW d \in stamp, debounce_over(d)
       PROVE  ClaimInv'
  BY <1>3, <1>13 DEF debounce_over, Summary
<1>14. ASSUME NEW n \in Nodes, Crash(n)
       PROVE  ClaimInv'
  <2>1. /\ row' = row /\ pay' = pay /\ jobs' \subseteq jobs /\ net' \subseteq net
        /\ cache' = [cache EXCEPT ![n] = None]
    BY <1>14 DEF Crash
  <2>2. \A i \in Nodes : Summary(i)' = pay[i] \/ Summary(i)' = Summary(i)
    BY <2>1 DEF Summary, TypeOK
  <2> QED
    BY <1>0, <1>2, <2>1, <2>2 DEF ClaimInv, NeverOverclaims
<1> QED
  BY <1>4, <1>5, <1>6, <1>7, <1>8, <1>9, <1>10, <1>11, <1>12, <1>13, <1>14
  DEF Next, PlayerStep

-----------------------------------------------------------------------------
(* Two nodes that shook hands miss nothing *)

LEMMA LinkStep ==
    ASSUME TypeOK, LinkInv, [Next]_vars
    PROVE  LinkInv'
<1> USE DEF player, nodes, links
<1>1. ASSUME NEW m \in net, m.k \in {"lib", "sum"}
      PROVE  {m.from, m.to} \in up
  BY <1>1 DEF LinkInv
<1>2. \A d \in shaken : {d[1], d[2]} \in up
  BY DEF LinkInv
<1>3. ASSUME up \subseteq up', shaken' \subseteq shaken,
             \A m \in net' : m \in net \/ m.k \notin {"lib", "sum"}
                                      \/ {m.from, m.to} \in up
      PROVE  LinkInv'
  BY <1>1, <1>2, <1>3 DEF LinkInv
<1>4. CASE PlayerStep
  BY <1>3, <1>4, PlayerFrame
<1>5. CASE UNCHANGED vars
  BY <1>3, <1>5 DEF vars
<1>6. ASSUME NEW m \in net, ingest_begin(m)
      PROVE  LinkInv'
  BY <1>3, <1>6 DEF ingest_begin
<1>7. ASSUME NEW m \in net, do_peer_connect_handshake(m)
      PROVE  LinkInv'
  BY <1>3, <1>7 DEF do_peer_connect_handshake, Peers
<1>8. ASSUME NEW m \in net, db2_sync(m)
      PROVE  LinkInv'
  <2>1. {m.from, m.to} \in up /\ {m.to, m.from} = {m.from, m.to}
    BY <1>1, <1>8 DEF db2_sync
  <2>2. \A r \in net' : r \in net \/ (r.from = m.to /\ r.to = m.from)
    BY <1>8 DEF db2_sync, Pushed
  <2>3. up' = up /\ shaken' = shaken \union {<<m.from, m.to>>}
    BY <1>8 DEF db2_sync
  <2>4. ASSUME NEW r \in net', r.k \in {"lib", "sum"}
        PROVE  {r.from, r.to} \in up
    BY <1>1, <2>1, <2>2, <2>4
  <2>5. ASSUME NEW d \in shaken'
        PROVE  {d[1], d[2]} \in up
    <3>1. CASE d \in shaken
      BY <1>2, <3>1
    <3>2. CASE d = <<m.from, m.to>>
      <4>1. d[1] = m.from /\ d[2] = m.to
        BY <3>2
      <4> QED
        BY <2>1, <4>1
    <3> QED
      BY <2>3, <3>1, <3>2
  <2> QED
    BY <2>3, <2>4, <2>5 DEF LinkInv
<1>9. ASSUME NEW j \in jobs, set_library(j) \/ store_library_payload(j)
      PROVE  LinkInv'
  <2>1. up' = up /\ shaken' = shaken
    BY <1>9 DEF set_library, store_library_payload
  <2>2. \A r \in Acks(j, FALSE) : r.k = "ack"
    BY DEF Acks
  <2>3. \A r \in net' : r \in net \/ r.k = "ack"
    BY <1>9, <2>2 DEF set_library, store_library_payload
  <2> QED
    BY <1>3, <2>1, <2>3
<1>10. ASSUME NEW j \in jobs, flood(j)
       PROVE  LinkInv'
  <2>1. up' = up /\ shaken' = shaken
    BY <1>10 DEF flood
  <2>2. \A r \in Acks(j, TRUE) : r.k = "ack"
    BY DEF Acks
  <2>3. \A r \in net' : \/ r \in net \/ r.k = "ack"
                        \/ r.from = j.n /\ r.to \in Peers(j.n)
    <3> DEFINE floods ==
          {[k |-> "lib", from |-> j.n, to |-> m, v |-> j.v] : m \in Peers(j.n)}
    <3>1. \A r \in floods : r.from = j.n /\ r.to \in Peers(j.n)
      OBVIOUS
    <3>2. net' = net \union Acks(j, TRUE) \union floods
      BY <1>10 DEF flood
    <3> HIDE DEF floods
    <3> QED
      BY <2>2, <3>1, <3>2
  <2> QED
    BY <1>3, <2>1, <2>3 DEF Peers
<1>11. ASSUME NEW l \in Link, on_peer_connected(l)
       PROVE  LinkInv'
  BY <1>3, <1>11 DEF on_peer_connected
<1>12. ASSUME NEW l \in Link, on_peer_disconnected(l)
       PROVE  LinkInv'
  <2>1. up' = up \ {l} /\ shaken' = shaken \ (l \X l) /\ net' = net \ Between(l)
    BY <1>12 DEF on_peer_disconnected
  <2>2. ASSUME NEW m \in net', m.k \in {"lib", "sum"}
        PROVE  {m.from, m.to} \in up'
    BY <1>1, <2>1, <2>2 DEF Between
  <2>3. ASSUME NEW d \in shaken'
        PROVE  {d[1], d[2]} \in up'
    <3>1. d \in Nodes \X Nodes /\ d \notin l \X l /\ d \in shaken
      BY <2>1, <2>3 DEF TypeOK
    <3>2. {d[1], d[2]} # l
      BY <3>1
    <3> QED
      BY <1>2, <2>1, <3>1, <3>2
  <2> QED
    BY <2>2, <2>3 DEF LinkInv
<1>13. ASSUME NEW d \in stamp, debounce_over(d)
       PROVE  LinkInv'
  BY <1>3, <1>13 DEF debounce_over
<1>14. ASSUME NEW n \in Nodes, Crash(n)
       PROVE  LinkInv'
  <2>1. /\ up' = {l \in up : n \notin l}
        /\ shaken' = {d \in shaken : n \notin {d[1], d[2]}}
        /\ \A m \in net' : m \in net /\ (m.k \in {"lib", "sum"} => n \notin {m.from, m.to})
    BY <1>14 DEF Crash
  <2> QED
    BY <1>1, <1>2, <2>1 DEF LinkInv
<1> QED
  BY <1>4, <1>5, <1>6, <1>7, <1>8, <1>9, <1>10, <1>11, <1>12, <1>13, <1>14
  DEF Next, PlayerStep

\* What covers a pair goes on covering it while the record stays on its way and
\* the ingest that holds it goes on.
LEMMA CoverKept ==
    ASSUME NEW n, NEW m, Covered(n, m),
           pay[m] \in Nat, row[n] \in Nat, row'[n] \in Nat,
           row'[n] >= row[n], pay'[m] = pay[m],
           \A r \in net : r.k = "lib" /\ r.from = m /\ r.to = n =>
               \/ r \in net'
               \/ \E j \in jobs' : j.n = n /\ j.v = r.v,
           \A j \in jobs : (j.n = n \/ j.n = m) =>
               \/ \E i \in jobs' : i.n = j.n /\ i.v = j.v /\ i.pc = j.pc
               \/ j.n = n /\ \E i \in jobs' : i.n = n /\ i.v = j.v
    PROVE  Covered(n, m)'
<1>1. CASE pay[m] <= row[n]
  BY <1>1 DEF Covered
<1>2. ASSUME NEW r \in net, r.k = "lib", r.from = m, r.to = n, r.v >= pay[m]
      PROVE  Covered(n, m)'
  BY <1>2 DEF Covered
<1>3. ASSUME NEW j \in jobs, j.v >= pay[m], j.n = n \/ (j.n = m /\ j.pc = "flood")
      PROVE  Covered(n, m)'
  BY <1>3 DEF Covered
<1> QED
  BY <1>1, <1>2, <1>3 DEF Covered

LEMMA CoverStep ==
    ASSUME TypeOK, ClaimInv, LinkInv, CoverInv, [Next]_vars
    PROVE  CoverInv'
<1> USE VersionIsNat DEF player, nodes, links
<1>0. /\ row \in [Nodes -> Version] /\ pay \in [Nodes -> Version]
      /\ \A n \in Nodes : row[n] \in Nat /\ pay[n] \in Nat
      /\ \A j \in jobs : j \in Job /\ j.n \in Nodes /\ j.v \in Nat
      /\ \A m \in net : m \in Message
      /\ shaken \subseteq Nodes \X Nodes
  BY DEF TypeOK, Job
<1>1. \A n \in Nodes : row'[n] \in Nat /\ row'[n] >= row[n] /\ pay'[n] \in Nat
  BY RowsGrow, LibraryTypes DEF TypeOK
<1>2. \A d \in shaken : d[1] \in Nodes /\ d[2] \in Nodes /\ Covered(d[1], d[2])
  BY <1>0 DEF CoverInv
\* A step that takes no record off its way, ends no ingest and stores nothing.
<1>3. ASSUME shaken' \subseteq shaken, pay' = pay, jobs \subseteq jobs',
             \A r \in net : r \in net' \/ r.k # "lib"
      PROVE  CoverInv'
  <2>1. ASSUME NEW d \in shaken
        PROVE  Covered(d[1], d[2])'
    BY <1>0, <1>1, <1>2, <1>3, CoverKept
  <2> QED
    BY <1>3, <2>1 DEF CoverInv
<1>4. CASE PlayerStep
  BY <1>3, <1>4, PlayerFrame
<1>5. CASE UNCHANGED vars
  BY <1>3, <1>5 DEF vars
\* The record taken off its way becomes an ingest at the node it was sent to.
<1>6. ASSUME NEW m \in net, ingest_begin(m)
      PROVE  CoverInv'
  <2> DEFINE i == [n |-> IF m.k = "delta" THEN Home ELSE m.to, v |-> m.v,
                   pc |-> "apply", ask |-> Ask(m)]
  <2>1. /\ shaken' = shaken /\ pay' = pay /\ jobs' = jobs \union {i}
        /\ net' = net \ {m}
    BY <1>6 DEF ingest_begin
  <2>2. m.k = "lib" => i.n = m.to /\ i.v = m.v
    OBVIOUS
  <2>3. ASSUME NEW d \in shaken
        PROVE  Covered(d[1], d[2])'
    <3> HIDE DEF i
    <3>1. \A r \in net : r.k = "lib" /\ r.from = d[2] /\ r.to = d[1] =>
              r \in net' \/ \E j \in jobs' : j.n = d[1] /\ j.v = r.v
      BY <2>1, <2>2
    <3>2. \A j \in jobs : j \in jobs'
      BY <2>1
    <3> QED
      BY <1>0, <1>1, <1>2, <2>1, <3>1, <3>2, CoverKept
  <2> QED
    BY <2>1, <2>3 DEF CoverInv
<1>7. ASSUME NEW m \in net, do_peer_connect_handshake(m)
      PROVE  CoverInv'
  BY <1>3, <1>7 DEF do_peer_connect_handshake
\* The summary is honest, so what it names needs no push.
<1>8. ASSUME NEW m \in net, db2_sync(m)
      PROVE  CoverInv'
  <2>1. /\ pay' = pay /\ row' = row /\ jobs' = jobs
        /\ net' = (net \ {m}) \union Pushed(m) /\ m.k = "sum"
        /\ shaken' = shaken \union {<<m.from, m.to>>}
    BY <1>8 DEF db2_sync
  <2>2. m.from \in Nodes /\ m.to \in Nodes /\ m.v \in Nat
    BY <1>0, <2>1, MessageFields
  <2>3. m.v <= row[m.from]
    BY <2>1 DEF ClaimInv, NeverOverclaims
  <2>4. Covered(m.from, m.to)'
    <3>1. CASE pay[m.to] > m.v
      <4>1. [k |-> "lib", from |-> m.to, to |-> m.from, v |-> pay[m.to]] \in net'
        BY <2>1, <3>1 DEF Pushed
      <4> QED
        BY <1>0, <2>1, <2>2, <4>1 DEF Covered
    <3>2. CASE ~(pay[m.to] > m.v)
      <4>1. pay[m.to] <= row[m.from]
        BY <1>0, <2>2, <2>3, <3>2
      <4> QED
        BY <2>1, <4>1 DEF Covered
    <3> QED
      BY <3>1, <3>2
  <2>5. ASSUME NEW d \in shaken
        PROVE  Covered(d[1], d[2])'
    BY <1>0, <1>1, <1>2, <2>1, CoverKept
  <2> QED
    BY <2>1, <2>4, <2>5 DEF CoverInv
\* The gate: a version it turns down is not ahead of what the node has.
<1>9. ASSUME NEW j \in jobs, set_library(j)
      PROVE  CoverInv'
  <2>1. /\ j.pc = "apply" /\ shaken' = shaken /\ pay' = pay
        /\ net \subseteq net' /\ j.v <= row'[j.n]
        /\ \A i \in jobs : i \in jobs' \/ i = j
    <3>1. CASE j.v <= row[j.n]
      BY <1>9, <3>1 DEF set_library
    <3>2. CASE ~(j.v <= row[j.n])
      <4>1. row'[j.n] = j.v /\ j.v \in Nat
        BY <1>0, <1>9, <3>2 DEF set_library
      <4> QED
        BY <1>9, <3>2, <4>1 DEF set_library, Moved
    <3> QED
      BY <3>1, <3>2
  <2>2. ASSUME NEW d \in shaken
        PROVE  Covered(d[1], d[2])'
    <3>1. CASE j.n = d[1] /\ j.v >= pay[d[2]]
      <4>1. pay[d[2]] <= row'[d[1]]
        BY <1>0, <1>1, <1>2, <2>1, <3>1
      <4> QED
        BY <2>1, <4>1 DEF Covered
    <3>2. CASE ~(j.n = d[1] /\ j.v >= pay[d[2]])
      <4>1. CASE pay[d[2]] <= row[d[1]]
        <5>1. pay'[d[2]] <= row'[d[1]]
          BY <1>0, <1>1, <1>2, <2>1, <4>1
        <5> QED
          BY <5>1 DEF Covered
      <4>2. ASSUME NEW r \in net, r.k = "lib", r.from = d[2], r.to = d[1], r.v >= pay[d[2]]
            PROVE  Covered(d[1], d[2])'
        BY <2>1, <4>2 DEF Covered
      <4>3. ASSUME NEW i \in jobs, i.v >= pay[d[2]],
                   i.n = d[1] \/ (i.n = d[2] /\ i.pc = "flood")
            PROVE  Covered(d[1], d[2])'
        <5>1. i \in jobs'
          BY <2>1, <3>2, <4>3
        <5> QED
          BY <2>1, <4>3, <5>1 DEF Covered
      <4> QED
        BY <1>2, <4>1, <4>2, <4>3 DEF Covered
    <3> QED
      BY <3>1, <3>2
  <2> QED
    BY <2>1, <2>2 DEF CoverInv
\* The payload just kept is still to be flooded by the ingest that kept it.
<1>10. ASSUME NEW j \in jobs, store_library_payload(j)
       PROVE  CoverInv'
  <2> DEFINE i == [j EXCEPT !.pc = "flood"]
  <2>1. /\ j.pc = "store" /\ pay' = [pay EXCEPT ![j.n] = j.v] /\ row' = row
        /\ shaken' = shaken /\ net' = net /\ jobs' = (jobs \ {j}) \union {i}
    BY <1>10 DEF store_library_payload, Moved
  <2>2. i.n = j.n /\ i.v = j.v /\ i.pc = "flood" /\ i \in jobs'
    BY <1>0, <2>1 DEF Job
  <2>3. ASSUME NEW d \in shaken
        PROVE  Covered(d[1], d[2])'
    <3> HIDE DEF i
    <3>1. CASE d[2] = j.n
      <4>1. pay'[d[2]] = j.v
        BY <1>0, <2>1, <3>1
      <4> QED
        BY <1>0, <2>2, <3>1, <4>1 DEF Covered
    <3>2. CASE d[2] # j.n
      <4>1. pay'[d[2]] = pay[d[2]]
        BY <1>0, <1>2, <2>1, <3>2
      <4>2. \A a \in jobs : a.n = d[1] \/ a.n = d[2] =>
                \/ \E b \in jobs' : b.n = a.n /\ b.v = a.v /\ b.pc = a.pc
                \/ a.n = d[1] /\ \E b \in jobs' : b.n = d[1] /\ b.v = a.v
        BY <2>1, <2>2, <3>2
      <4> QED
        BY <1>0, <1>1, <1>2, <2>1, <4>1, <4>2, CoverKept
    <3> QED
      BY <3>1, <3>2
  <2> QED
    BY <2>1, <2>3 DEF CoverInv
\* The broadcast goes to every peer, and a pair that shook hands is connected.
<1>11. ASSUME NEW j \in jobs, flood(j)
       PROVE  CoverInv'
  <2>1. /\ j.pc = "flood" /\ pay' = pay /\ row' = row /\ shaken' = shaken
        /\ net \subseteq net' /\ jobs' = jobs \ {j}
        /\ \A n \in Peers(j.n) :
              [k |-> "lib", from |-> j.n, to |-> n, v |-> j.v] \in net'
    BY <1>11 DEF flood
  <2>2. j.v <= row[j.n]
    BY <2>1 DEF ClaimInv
  <2>3. ASSUME NEW d \in shaken
        PROVE  Covered(d[1], d[2])'
    <3>1. CASE pay[d[2]] <= row[d[1]]
      BY <2>1, <3>1 DEF Covered
    <3>2. ASSUME NEW r \in net, r.k = "lib", r.from = d[2], r.to = d[1], r.v >= pay[d[2]]
          PROVE  Covered(d[1], d[2])'
      BY <2>1, <3>2 DEF Covered
    <3>3. ASSUME NEW i \in jobs, i.v >= pay[d[2]],
                 i.n = d[1] \/ (i.n = d[2] /\ i.pc = "flood")
          PROVE  Covered(d[1], d[2])'
      <4>1. CASE i # j
        BY <2>1, <3>3, <4>1 DEF Covered
      <4>2. CASE i = j /\ i.n = d[1]
        <5>1. pay[d[2]] <= row[d[1]]
          BY <1>0, <1>2, <2>2, <3>3, <4>2
        <5> QED
          BY <3>1, <5>1
      <4>3. CASE i = j /\ i.n = d[2]
        <5>1. {d[1], d[2]} \in up /\ d[1] \in Nodes
          BY <1>2 DEF LinkInv
        <5>2. {d[2], d[1]} = {d[1], d[2]}
          OBVIOUS
        <5>3. d[1] \in Peers(j.n)
          BY <4>3, <5>1, <5>2 DEF Peers
        <5>4. [k |-> "lib", from |-> j.n, to |-> d[1], v |-> j.v] \in net'
          BY <2>1, <5>3
        <5> QED
          BY <2>1, <3>3, <4>3, <5>4 DEF Covered
      <4> QED
        BY <3>3, <4>1, <4>2, <4>3
    <3> QED
      BY <1>2, <3>1, <3>2, <3>3 DEF Covered
  <2> QED
    BY <2>1, <2>3 DEF CoverInv
<1>12. ASSUME NEW l \in Link, on_peer_connected(l)
       PROVE  CoverInv'
  BY <1>3, <1>12 DEF on_peer_connected
\* A link takes with it what was on its way and the handshakes made over it.
<1>13. ASSUME NEW l \in Link, on_peer_disconnected(l)
       PROVE  CoverInv'
  <2>1. /\ pay' = pay /\ jobs' = jobs /\ shaken' = shaken \ (l \X l)
        /\ net' = net \ Between(l)
    BY <1>13 DEF on_peer_disconnected
  <2>2. ASSUME NEW d \in shaken'
        PROVE  Covered(d[1], d[2])'
    <3>1. d \in shaken /\ d \in Nodes \X Nodes /\ d \notin l \X l
      BY <1>0, <2>1, <2>2
    <3>2. {d[2], d[1]} # l
      BY <3>1
    <3>3. \A r \in net : r.k = "lib" /\ r.from = d[2] /\ r.to = d[1] => r \in net'
      BY <2>1, <3>2 DEF Between
    <3> QED
      BY <1>0, <1>1, <1>2, <2>1, <3>1, <3>3, CoverKept
  <2> QED
    BY <2>2 DEF CoverInv
<1>14. ASSUME NEW d \in stamp, debounce_over(d)
       PROVE  CoverInv'
  BY <1>3, <1>14 DEF debounce_over
\* A node that stops loses its ingests and its links, and shook hands with nobody.
<1>15. ASSUME NEW n \in Nodes, Crash(n)
       PROVE  CoverInv'
  <2>1. /\ pay' = pay /\ jobs' = {j \in jobs : j.n # n}
        /\ shaken' = {d \in shaken : n \notin {d[1], d[2]}}
        /\ \A r \in net : r.k = "lib" /\ n \notin {r.from, r.to} => r \in net'
    BY <1>15 DEF Crash
  <2>2. ASSUME NEW d \in shaken'
        PROVE  Covered(d[1], d[2])'
    <3>1. d \in shaken /\ d[1] # n /\ d[2] # n
      BY <2>1, <2>2
    <3>2. \A r \in net : r.k = "lib" /\ r.from = d[2] /\ r.to = d[1] => r \in net'
      BY <2>1, <3>1
    <3>3. \A j \in jobs : j.n = d[1] \/ j.n = d[2] => j \in jobs'
      BY <2>1, <3>1
    <3> QED
      BY <1>0, <1>1, <1>2, <2>1, <3>1, <3>2, <3>3, CoverKept
  <2> QED
    BY <2>2 DEF CoverInv
<1> QED
  BY <1>4, <1>5, <1>6, <1>7, <1>8, <1>9, <1>10, <1>11, <1>12, <1>13, <1>14, <1>15
  DEF Next, PlayerStep

-----------------------------------------------------------------------------
(* Versions: no one is ahead of the player, an answer tells the truth *)

\* A publish in flight waits for a version that was sent.
LEMMA SentStep ==
    ASSUME TypeOK, VersionInv, [Next]_vars
    PROVE  sent' \in Nat /\ sent' >= sent /\ pub'.v <= sent' /\ off'.v <= sent'
<1> USE VersionIsNat DEF player
<1>0. /\ sent \in Nat /\ pub \in Publication /\ off \in Publication
      /\ pub.v \in Nat /\ off.v \in Nat /\ pub.v <= sent /\ off.v <= sent
  BY DEF TypeOK, VersionInv, Publication
<1>1. Resting.v = 0 /\ [Resting EXCEPT !.pc = "read"].v = 0
      /\ [Resting EXCEPT !.pc = "send"].v = 0
  BY DEF Resting
<1>2. \A p \in Publication : \A got :
          Ended(p, got).v = 0 \/ Ended(p, got).v = p.v
  BY <1>1 DEF Ended, Publication
<1>3. publishFull => pub'.v = 0 \/ pub'.v = pub.v
  BY <1>0, <1>1 DEF publishFull, Publication
<1>4. \A p \in Publication :
          /\ [p EXCEPT !.a = @ + 1].v = p.v /\ [p EXCEPT !.pc = "idle"].v = p.v
          /\ \A set : [p EXCEPT !.pc = "send", !.set = set].v = p.v
          /\ \A v : [p EXCEPT !.pc = "wait", !.v = v].v = v
  BY DEF Publication
<1>5. \A set : Ended([pub EXCEPT !.set = set], "skipped").v \in {0, pub.v}
  BY <1>0, <1>1 DEF Ended, Publication
<1>6. ASSUME sent' = sent, pub'.v \in {0, pub.v}, off'.v \in {0, off.v}
      PROVE  sent' \in Nat /\ sent' >= sent /\ pub'.v <= sent' /\ off'.v <= sent'
  BY <1>0, <1>6
<1>7. ASSUME \/ \E s \in Songs : Edit(s)
             \/ reAnnounce
      PROVE  sent' = sent /\ pub'.v \in {0, pub.v} /\ off'.v \in {0, off.v}
  BY <1>3, <1>7 DEF Edit, reAnnounce
<1>8. CASE publishOnce
  <2>1. \/ pub' = Ended([pub EXCEPT !.set = lib], "skipped")
        \/ pub' = [pub EXCEPT !.pc = "send", !.set = lib]
    BY <1>8 DEF publishOnce
  <2>2. /\ Ended([pub EXCEPT !.set = lib], "skipped").v \in {0, pub.v}
        /\ [pub EXCEPT !.pc = "send", !.set = lib].v = pub.v
    BY <1>0, <1>4, <1>5
  <2>3. pub'.v \in {0, pub.v}
    BY <2>1, <2>2
  <2> QED
    BY <1>6, <1>8, <2>3 DEF publishOnce
<1>9. CASE publishOffline \/ noHome
  <2>1. \/ pub' = pub /\ off' \in {Resting, [Resting EXCEPT !.pc = "send"]}
        \/ pub' = Ended(pub, "none") /\ off' = off
    BY <1>9 DEF publishOffline, noHome
  <2>2. Ended(pub, "none").v \in {0, pub.v}
    BY <1>0, <1>2
  <2> QED
    BY <1>1, <1>6, <1>9, <2>1, <2>2 DEF publishOffline, noHome
<1>10. CASE sendDelta
  <2>1. /\ sent' = sent + 1
        /\ \/ pub' = [pub EXCEPT !.pc = "wait", !.v = sent + 1] /\ off' = off
           \/ off' = [off EXCEPT !.pc = "wait", !.v = sent + 1] /\ pub' = pub
    BY <1>10 DEF sendDelta, Stamped
  <2>2. /\ [pub EXCEPT !.pc = "wait", !.v = sent + 1].v = sent + 1
        /\ [off EXCEPT !.pc = "wait", !.v = sent + 1].v = sent + 1
    BY <1>0, <1>4
  <2>3. sent' = sent + 1 /\ pub'.v \in {pub.v, sent + 1} /\ off'.v \in {off.v, sent + 1}
    BY <2>1, <2>2
  <2> QED
    BY <1>0, <2>3
<1>11. ASSUME timedOut \/ \E m \in net : answered(m)
       PROVE  sent' \in Nat /\ sent' >= sent /\ pub'.v <= sent' /\ off'.v <= sent'
  <2>1. \/ pub' = [pub EXCEPT !.a = @ + 1] /\ off' = off
        \/ pub' = pub /\ off' \in {[off EXCEPT !.a = @ + 1], [off EXCEPT !.pc = "idle"]}
        \/ (\E got : pub' = Ended(pub, got)) /\ off' = off
    BY <1>11 DEF timedOut, answered
  <2>2. /\ [pub EXCEPT !.a = @ + 1].v = pub.v /\ [off EXCEPT !.a = @ + 1].v = off.v
        /\ [off EXCEPT !.pc = "idle"].v = off.v
    BY <1>0, <1>4
  <2>3. pub'.v \in {0, pub.v}
    <3>1. CASE pub' = [pub EXCEPT !.a = @ + 1] \/ pub' = pub
      BY <2>2, <3>1
    <3>2. CASE \E got : pub' = Ended(pub, got)
      BY <1>0, <1>2, <3>2
    <3> QED
      BY <2>1, <3>1, <3>2
  <2>4. off'.v \in {0, off.v}
    BY <2>1, <2>2
  <2> QED
    BY <1>6, <1>11, <2>3, <2>4 DEF timedOut, answered
<1>12. ASSUME \/ UNCHANGED vars
              \/ \E m \in net : \/ ingest_begin(m) \/ do_peer_connect_handshake(m)
                                \/ db2_sync(m)
              \/ \E j \in jobs : set_library(j) \/ store_library_payload(j) \/ flood(j)
              \/ \E l \in Link : on_peer_connected(l) \/ on_peer_disconnected(l)
              \/ \E d \in stamp : debounce_over(d)
              \/ \E m \in Nodes : Crash(m)
       PROVE  UNCHANGED <<sent, pub, off>>
  BY <1>12 DEF vars, ingest_begin, do_peer_connect_handshake, db2_sync, set_library,
               store_library_payload, flood, on_peer_connected, on_peer_disconnected,
               debounce_over, Crash
<1> QED
  BY <1>0, <1>6, <1>7, <1>8, <1>9, <1>10, <1>11, <1>12 DEF Next

LEMMA VersionStep ==
    ASSUME TypeOK, ClaimInv, VersionInv, [Next]_vars
    PROVE  VersionInv'
<1> USE VersionIsNat DEF player, nodes, links
<1>0. /\ row \in [Nodes -> Version] /\ pay \in [Nodes -> Version]
      /\ sent \in Nat /\ Home \in Nodes
      /\ \A n \in Nodes : row[n] \in Nat /\ pay[n] \in Nat
      /\ \A j \in jobs : j \in Job /\ j.n \in Nodes /\ j.v \in Nat
      /\ \A m \in net : m \in Message /\ m.v \in Nat
  <2>1. \A m \in net : m \in Message
    BY DEF TypeOK
  <2>2. \A m \in net : m.v \in Nat
    BY <2>1, MessageFields
  <2> QED
    BY <2>1, <2>2, LibraryAssumption DEF TypeOK, Job
<1>1. /\ \A n \in Nodes : row[n] <= sent /\ pay[n] <= sent
      /\ \A j \in jobs : j.v <= sent /\ (j.ask # {} => j.n = Home)
      /\ \A m \in net : m.v <= sent /\ (m.k = "ack" /\ m.ok => m.v <= row[Home])
  BY DEF VersionInv
<1>2. \A n \in Nodes : row'[n] \in Nat /\ row'[n] >= row[n]
  BY RowsGrow, LibraryTypes DEF TypeOK
\* The part that is left to a step: its new rows, payloads, ingests, messages.
<1>3. ASSUME sent' \in Nat, sent' >= sent,
             \A n \in Nodes : row'[n] <= sent',
             \A n \in Nodes : pay'[n] = pay[n] \/ pay'[n] <= sent',
             \A j \in jobs' : j \in jobs \/ (j.v <= sent' /\ (j.ask # {} => j.n = Home)),
             \A m \in net' : \/ m \in net
                             \/ m.v <= sent' /\ (m.k = "ack" /\ m.ok => m.v <= row'[Home])
      PROVE  VersionInv'
  <2>1. \A n \in Nodes : row'[n] <= sent' /\ pay'[n] <= sent'
    BY <1>0, <1>1, <1>3
  <2>2. \A j \in jobs' : j.v <= sent' /\ (j.ask # {} => j.n = Home)
    BY <1>0, <1>1, <1>3
  <2>3. ASSUME NEW m \in net'
        PROVE  m.v <= sent' /\ (m.k = "ack" /\ m.ok => m.v <= row'[Home])
    <3>1. CASE m \in net
      <4>1. row[Home] \in Nat /\ row'[Home] \in Nat /\ row'[Home] >= row[Home]
        BY <1>0, <1>2
      <4> QED
        BY <1>0, <1>1, <1>3, <3>1, <4>1
    <3> QED
      BY <1>3, <3>1
  <2> QED
    BY <2>1, <2>2, <2>3, SentStep DEF VersionInv
\* What a step that sends nothing new has to show.
<1>4. ASSUME UNCHANGED <<sent, row, pay>>,
             \A j \in jobs' : j \in jobs \/ (j.v <= sent /\ (j.ask # {} => j.n = Home)),
             \A m \in net' : \/ m \in net
                             \/ m.v <= sent /\ (m.k = "ack" /\ m.ok => m.v <= row[Home])
      PROVE  VersionInv'
  BY <1>0, <1>1, <1>3, <1>4
<1>5. ASSUME UNCHANGED <<sent, row, pay, jobs>>, net' \subseteq net
      PROVE  VersionInv'
  BY <1>4, <1>5
<1>6. ASSUME \/ \E s \in Songs : Edit(s)
             \/ reAnnounce \/ publishOnce \/ publishOffline \/ noHome
             \/ \E m \in net : answered(m)
      PROVE  VersionInv'
  BY <1>5, <1>6 DEF Edit, reAnnounce, publishOnce, publishOffline, noHome, answered
<1>7. CASE sendDelta
  <2>1. /\ UNCHANGED <<row, pay, jobs>> /\ sent' = sent + 1
        /\ net' = net \union {[k |-> "delta", v |-> sent + 1, a |-> 0]}
    BY <1>7 DEF sendDelta, Stamped
  <2> QED
    BY <1>0, <1>1, <1>3, <2>1
<1>8. CASE timedOut
  <2>1. UNCHANGED <<sent, row, pay, jobs>>
    BY <1>8 DEF timedOut
  <2>2. PICK p \in {pub, off} :
          /\ p.pc = "wait"
          /\ net' = (net \ Late(p)) \union
                    (IF p.a < MaxRetries
                     THEN {[k |-> "delta", v |-> p.v, a |-> p.a + 1]} ELSE {})
    BY <1>8 DEF timedOut
  <2>3. p.v <= sent
    BY <1>8, <2>2 DEF VersionInv
  <2> QED
    BY <1>4, <2>1, <2>2, <2>3
<1>9. ASSUME NEW m \in net, ingest_begin(m)
      PROVE  VersionInv'
  BY <1>1, <1>4, <1>9 DEF ingest_begin, Ask
<1>10. ASSUME NEW m \in net, do_peer_connect_handshake(m)
       PROVE  VersionInv'
  <2>1. m.from \in Nodes
    BY <1>0, <1>10, MessageFields DEF do_peer_connect_handshake
  <2>2. Summary(m.from) <= sent
    <3>1. Summary(m.from) <= row[m.from] /\ Summary(m.from) \in Nat
      BY <2>1, SummaryType DEF ClaimInv, NeverOverclaims
    <3> QED
      BY <1>0, <1>1, <2>1, <3>1
  <2>3. \A r \in net' : \/ r \in net
                        \/ r.k = "sum" /\ r.v = Summary(m.from)
    BY <1>10 DEF do_peer_connect_handshake
  <2>4. UNCHANGED <<sent, row, pay, jobs>>
    BY <1>10 DEF do_peer_connect_handshake
  <2> QED
    BY <1>4, <2>2, <2>3, <2>4
<1>11. ASSUME NEW m \in net, db2_sync(m)
       PROVE  VersionInv'
  <2>1. m.to \in Nodes
    BY <1>0, <1>11, MessageFields DEF db2_sync
  <2>2. \A r \in net' : \/ r \in net
                        \/ r.k = "lib" /\ r.v = pay[m.to]
    BY <1>11 DEF db2_sync, Pushed
  <2>3. UNCHANGED <<sent, row, pay, jobs>>
    BY <1>11 DEF db2_sync
  <2> QED
    BY <1>1, <1>4, <2>1, <2>2, <2>3
<1>12. ASSUME NEW j \in jobs, set_library(j)
       PROVE  VersionInv'
  <2>1. sent' = sent /\ pay' = pay
    BY <1>12 DEF set_library
  <2>2. \A n \in Nodes : row'[n] <= sent'
    <3>1. row' = row \/ row' = [row EXCEPT ![j.n] = j.v]
      BY <1>12 DEF set_library
    <3> QED
      BY <1>0, <1>1, <2>1, <3>1
  <2>3. \A i \in jobs' : i \in jobs \/ (i.v = j.v /\ i.n = j.n /\ i.ask = j.ask)
    <3>1. /\ [j EXCEPT !.pc = "store"].v = j.v /\ [j EXCEPT !.pc = "store"].n = j.n
          /\ [j EXCEPT !.pc = "store"].ask = j.ask
      BY <1>0 DEF Job
    <3>2. \A i \in jobs' : i \in jobs \/ i = [j EXCEPT !.pc = "store"]
      BY <1>12 DEF set_library, Moved
    <3> QED
      BY <3>1, <3>2
  <2>4. \A r \in Acks(j, FALSE) : r.v = j.v /\ ~r.ok
    BY DEF Acks
  <2>5. \A r \in net' : r \in net \/ (r.v = j.v /\ ~r.ok)
    BY <1>12, <2>4 DEF set_library
  <2> QED
    BY <1>0, <1>1, <1>3, <2>1, <2>2, <2>3, <2>5
<1>13. ASSUME NEW j \in jobs, store_library_payload(j)
       PROVE  VersionInv'
  <2>1. sent' = sent /\ row' = row /\ net' = net /\ pay' = [pay EXCEPT ![j.n] = j.v]
    BY <1>13 DEF store_library_payload
  <2>2. \A n \in Nodes : pay'[n] = pay[n] \/ pay'[n] <= sent'
    BY <1>0, <1>1, <2>1
  <2>3. \A i \in jobs' : i \in jobs \/ (i.v = j.v /\ i.n = j.n /\ i.ask = j.ask)
    BY <1>0, <1>13 DEF store_library_payload, Moved, Job
  <2> QED
    BY <1>0, <1>1, <1>3, <2>1, <2>2, <2>3
\* The request answered with applied=true was asked of the home node.
<1>14. ASSUME NEW j \in jobs, flood(j)
       PROVE  VersionInv'
  <2> DEFINE floods ==
        {[k |-> "lib", from |-> j.n, to |-> m, v |-> j.v] : m \in Peers(j.n)}
  <2>1. j.v <= row[j.n]
    BY <1>14 DEF flood, ClaimInv
  <2>2. \A r \in Acks(j, TRUE) : r.v = j.v /\ r.v <= row[Home]
    <3>1. ASSUME NEW r \in Acks(j, TRUE)
          PROVE  r.v = j.v /\ j.ask # {}
      BY DEF Acks
    <3> QED
      BY <1>1, <2>1, <3>1
  <2>3. \A r \in floods : r.v = j.v /\ r.k # "ack"
    OBVIOUS
  <2>4. net' = net \union Acks(j, TRUE) \union floods
    BY <1>14 DEF flood
  <2>5. UNCHANGED <<sent, row, pay>> /\ jobs' \subseteq jobs
    BY <1>14 DEF flood
  <2> HIDE DEF floods
  <2>6. \A r \in net' : r \in net \/ (r.v <= sent /\ (r.k = "ack" /\ r.ok => r.v <= row[Home]))
    BY <1>1, <2>2, <2>3, <2>4
  <2> QED
    BY <1>4, <2>5, <2>6
<1>15. ASSUME NEW l \in Link, on_peer_connected(l)
       PROVE  VersionInv'
  <2>1. UNCHANGED <<sent, row, pay, jobs>>
    BY <1>15 DEF on_peer_connected
  <2>2. \A m \in net' : m \in net \/ (m.k = "connect" /\ m.v = 0)
    BY <1>15 DEF on_peer_connected
  <2> QED
    BY <1>0, <1>4, <2>1, <2>2
<1>16. ASSUME \/ \E l \in Link : on_peer_disconnected(l)
              \/ \E d \in stamp : debounce_over(d)
       PROVE  VersionInv'
  BY <1>5, <1>16 DEF on_peer_disconnected, debounce_over
<1>17. ASSUME NEW n \in Nodes, Crash(n)
       PROVE  VersionInv'
  BY <1>4, <1>17 DEF Crash
<1>18. CASE UNCHANGED vars
  BY <1>5, <1>18 DEF vars
<1> QED
  BY <1>6, <1>7, <1>8, <1>9, <1>10, <1>11, <1>12, <1>13, <1>14, <1>15, <1>16, <1>17, <1>18
  DEF Next

-----------------------------------------------------------------------------
(* An edit made while a publish is in flight is not dropped *)

\* The end of a round: word that was left starts another one.
LEMMA EndedShape ==
    ASSUME NEW p \in Publication, NEW got
    PROVE  LET e == Ended(p, got)
           IN  \/ e.pc = "read" /\ p.rerun
               \/ /\ e.pc = "idle" /\ ~p.rerun /\ ~e.rerun
                  /\ e.got = got /\ e.set = p.set /\ e.v = p.v
BY DEF Ended, Resting, Publication

\* What publishFull leaves: a fresh round, or word for the one in flight.
LEMMA FullShape ==
    ASSUME pub \in Publication, publishFull
    PROVE  \/ pub'.pc = "read"
           \/ /\ pub'.pc = pub.pc /\ pub.pc # "idle" /\ pub'.rerun
              /\ pub'.v = pub.v /\ pub'.set = pub.set
BY DEF publishFull, Resting, Publication

LEMMA PubStep ==
    ASSUME TypeOK, VersionInv, PubInv, [Next]_vars
    PROVE  PubInv'
<1> USE VersionIsNat DEF player, nodes, links
<1>0. /\ pub \in Publication /\ sent \in Nat /\ pub.v \in Version /\ pub.v <= sent
      /\ content \in [Version -> SUBSET Songs] /\ Home \in Nodes
      /\ row[Home] \in Nat /\ row'[Home] \in Nat /\ row'[Home] >= row[Home]
  <2>1. Home \in Nodes
    BY LibraryAssumption
  <2>2. row'[Home] \in Nat /\ row'[Home] >= row[Home]
    BY <2>1, RowsGrow, LibraryTypes DEF TypeOK
  <2> QED
    BY <2>1, <2>2 DEF TypeOK, VersionInv, Publication
<1>1. /\ pub.pc = "wait" => content[pub.v] = pub.set
      /\ pub.pc \in {"send", "wait"} /\ ~pub.rerun => pub.set = lib
      /\ pub.pc = "idle" => ~pub.rerun
      /\ pub.pc = "idle" /\ pub.got = "applied" =>
            pub.set = lib /\ content[pub.v] = lib /\ pub.v <= row[Home]
  BY DEF PubInv
<1>2. ASSUME pub' = pub, lib' = lib, content'[pub.v] = content[pub.v]
      PROVE  PubInv'
  <2>1. pub.v <= row[Home] => pub.v <= row'[Home]
    <3>1. pub.v \in Nat
      BY <1>0
    <3> QED
      BY <1>0, <3>1
  <2> QED
    BY <1>1, <1>2, <2>1 DEF PubInv
<1>3. ASSUME pub'.pc = "read"
      PROVE  PubInv'
  BY <1>3 DEF PubInv
<1>4. ASSUME publishFull, content' = content
      PROVE  PubInv'
  <2>1. \/ pub'.pc = "read"
        \/ /\ pub'.pc = pub.pc /\ pub.pc # "idle" /\ pub'.rerun
           /\ pub'.v = pub.v /\ pub'.set = pub.set
    BY <1>0, <1>4, FullShape
  <2>2. CASE /\ pub'.pc = pub.pc /\ pub.pc # "idle" /\ pub'.rerun
             /\ pub'.v = pub.v /\ pub'.set = pub.set
    BY <1>1, <1>4, <2>2 DEF PubInv
  <2> QED
    BY <1>3, <2>1, <2>2
<1>5. ASSUME (\E s \in Songs : Edit(s)) \/ reAnnounce
      PROVE  PubInv'
  BY <1>4, <1>5 DEF Edit, reAnnounce
\* A round that ends without an answer that says applied.
<1>6. ASSUME NEW p \in Publication, NEW got, got # "applied", pub' = Ended(p, got)
      PROVE  PubInv'
  <2>1. \/ pub'.pc = "read"
        \/ pub'.pc = "idle" /\ ~pub'.rerun /\ pub'.got = got
    BY <1>6, EndedShape
  <2>2. CASE pub'.pc = "idle" /\ ~pub'.rerun /\ pub'.got = got
    BY <1>6, <2>2 DEF PubInv
  <2> QED
    BY <1>3, <2>1, <2>2
<1>7. CASE publishOnce
  <2>1. lib \subseteq Songs /\ lib' = lib
    BY <1>7 DEF publishOnce, TypeOK
  <2>2. CASE pub' = Ended([pub EXCEPT !.set = lib], "skipped")
    <3>1. [pub EXCEPT !.set = lib] \in Publication
      BY <1>0, <2>1 DEF Publication
    <3> QED
      BY <1>6, <2>2, <3>1
  <2>3. CASE pub' = [pub EXCEPT !.pc = "send", !.set = lib]
    <3>1. pub'.pc = "send" /\ pub'.set = lib'
      BY <1>0, <2>1, <2>3 DEF Publication
    <3> QED
      BY <3>1 DEF PubInv
  <2> QED
    BY <1>7, <2>2, <2>3 DEF publishOnce
<1>8. CASE publishOffline
  BY <1>2, <1>8 DEF publishOffline
\* A version never sent before: what an earlier one said stays.
<1>9. CASE sendDelta
  <2>1. /\ lib' = lib /\ row' = row /\ sent + 1 \in Version
        /\ \E set : content' = [content EXCEPT ![sent + 1] = set]
    <3>1. sent + 1 \in Version
      BY <1>0, <1>9, LibraryAssumption DEF sendDelta, Stamped, Version
    <3> QED
      BY <1>9, <3>1 DEF sendDelta, Stamped
  <2>2. CASE pub' = pub
    <3>1. content'[pub.v] = content[pub.v]
      <4>1. pub.v # sent + 1
        BY <1>0
      <4> QED
        BY <1>0, <2>1, <4>1
    <3> QED
      BY <1>2, <2>1, <2>2, <3>1
  <2>3. CASE pub.pc = "send" /\ Stamped(pub.set)
             /\ pub' = [pub EXCEPT !.pc = "wait", !.v = sent + 1]
    <3>1. /\ pub'.pc = "wait" /\ pub'.v = sent + 1 /\ pub'.set = pub.set
          /\ pub'.rerun = pub.rerun
      BY <1>0, <2>3 DEF Publication
    <3>2. content' = [content EXCEPT ![sent + 1] = pub.set]
      BY <2>3 DEF Stamped
    <3>3. content'[sent + 1] = pub.set
      BY <1>0, <2>1, <3>2
    <3> QED
      BY <1>1, <2>1, <2>3, <3>1, <3>3 DEF PubInv
  <2> QED
    BY <1>9, <2>2, <2>3 DEF sendDelta
<1>10. CASE noHome
  <2>1. pub' = pub \/ pub' = Ended(pub, "none")
    BY <1>10 DEF noHome
  <2>2. lib' = lib /\ content' = content
    BY <1>10 DEF noHome
  <2> QED
    BY <1>0, <1>2, <1>6, <2>1, <2>2
<1>11. CASE timedOut
  <2>1. /\ lib' = lib /\ content' = content /\ row' = row
        /\ \/ pub' = pub \/ pub' = Ended(pub, "timeout")
           \/ pub.pc = "wait" /\ pub' = [pub EXCEPT !.a = @ + 1]
    BY <1>11 DEF timedOut
  <2>2. CASE pub.pc = "wait" /\ pub' = [pub EXCEPT !.a = @ + 1]
    <3>1. /\ pub'.pc = pub.pc /\ pub'.v = pub.v /\ pub'.set = pub.set
          /\ pub'.rerun = pub.rerun
      BY <1>0, <2>2 DEF Publication
    <3> QED
      BY <1>1, <2>1, <2>2, <3>1 DEF PubInv
  <2> QED
    BY <1>0, <1>2, <1>6, <2>1, <2>2
\* The answer of the publish in flight: the version was applied at home, its
\* content is the song set read, and that is the library if no word was left.
<1>12. ASSUME NEW m \in net, answered(m)
       PROVE  PubInv'
  <2>1. lib' = lib /\ content' = content /\ row' = row /\ m.k = "ack"
    BY <1>12 DEF answered
  <2>2. CASE ~Asked(pub, m.v, m.a)
    BY <1>2, <1>12, <2>1, <2>2 DEF answered
  <2>3. CASE Asked(pub, m.v, m.a) /\ m.ok
    <3>1. pub' = Ended(pub, "applied")
      BY <1>12, <2>3 DEF answered
    <3>2. pub.pc = "wait" /\ pub.v = m.v /\ m.v <= row[Home]
      BY <1>12, <2>1, <2>3 DEF Asked, VersionInv
    <3>3. \/ pub'.pc = "read"
          \/ /\ pub'.pc = "idle" /\ ~pub.rerun /\ ~pub'.rerun
             /\ pub'.set = pub.set /\ pub'.v = pub.v
      BY <1>0, <3>1, EndedShape
    <3>4. CASE /\ pub'.pc = "idle" /\ ~pub.rerun /\ ~pub'.rerun
               /\ pub'.set = pub.set /\ pub'.v = pub.v
      BY <1>1, <2>1, <3>2, <3>4 DEF PubInv
    <3> QED
      BY <1>3, <3>3, <3>4
  <2>4. CASE Asked(pub, m.v, m.a) /\ ~m.ok
    <3>1. pub' = Ended(pub, "refused")
      BY <1>12, <2>4 DEF answered
    <3> QED
      BY <1>0, <1>6, <3>1
  <2> QED
    BY <2>2, <2>3, <2>4
<1>13. ASSUME \/ UNCHANGED vars
              \/ \E m \in net : \/ ingest_begin(m) \/ do_peer_connect_handshake(m)
                                \/ db2_sync(m)
              \/ \E j \in jobs : set_library(j) \/ store_library_payload(j) \/ flood(j)
              \/ \E l \in Link : on_peer_connected(l) \/ on_peer_disconnected(l)
              \/ \E d \in stamp : debounce_over(d)
              \/ \E m \in Nodes : Crash(m)
       PROVE  UNCHANGED <<lib, pub, content>>
  BY <1>13 DEF vars, ingest_begin, do_peer_connect_handshake, db2_sync, set_library,
               store_library_payload, flood, on_peer_connected, on_peer_disconnected,
               debounce_over, Crash
<1> QED
  BY <1>2, <1>5, <1>7, <1>8, <1>9, <1>10, <1>11, <1>12, <1>13 DEF Next

-----------------------------------------------------------------------------
(* The theorems *)

\* The records of one wallet stay in order at every node, whatever is lost,
\* repeated, cut off or started anew: nobody is ahead of what it has applied, a
\* pair that shook hands has, or has coming, what either keeps, and an answer
\* that says applied is true of the library it was asked about.
THEOREM LibraryInvariant == Spec => []LibraryInv
<1>1. LibraryInv /\ [Next]_vars => LibraryInv'
  <2> SUFFICES ASSUME LibraryInv, [Next]_vars
               PROVE  LibraryInv'
    OBVIOUS
  <2>1. TypeOK /\ ClaimInv /\ LinkInv /\ CoverInv /\ VersionInv /\ PubInv
    BY DEF LibraryInv
  <2>2. TypeOK' /\ ClaimInv' /\ LinkInv'
    BY <2>1, LibraryTypes, ClaimStep, LinkStep
  <2>3. CoverInv' /\ VersionInv' /\ PubInv'
    BY <2>1, CoverStep, VersionStep, PubStep
  <2> QED
    BY <2>2, <2>3 DEF LibraryInv
<1> QED
  BY <1>1, LibraryInit, PTL DEF Spec

\* A node never claims a version it has not applied (NeverOverclaims): its peers
\* would never send that version again.
THEOREM NobodyOverclaims == Spec => []NeverOverclaims
<1>1. LibraryInv => NeverOverclaims
  BY DEF LibraryInv, ClaimInv
<1> QED
  BY <1>1, LibraryInvariant, PTL

\* Two nodes make a link.
LEMMA PairIsLink ==
    ASSUME NEW n \in Nodes, NEW m \in Nodes, n # m
    PROVE  {n, m} \in Link
<1>1. IsFiniteSet({n}) /\ Cardinality({n}) = 1 /\ m \notin {n}
  BY FS_Singleton
<1>2. Cardinality({n} \cup {m}) = Cardinality({n}) + 1
  BY <1>1, FS_AddElement
<1>3. {n, m} = {n} \cup {m}
  OBVIOUS
<1> QED
  BY <1>1, <1>2, <1>3 DEF Link

\* In a quiet mesh whose pairs all answered each other's summaries, no node is
\* behind a payload another keeps (PayloadsReachAll): the pushes of db2_sync make
\* up for every flood that a dead link or a crash swallowed.
THEOREM EveryPayloadArrives == Spec => []PayloadsReachAll
<1>1. LibraryInv => PayloadsReachAll
  <2> SUFFICES ASSUME LibraryInv, Quiet,
                      \A l \in Link : \A n, m \in l : n # m => <<n, m>> \in shaken,
                      NEW n \in Nodes, NEW m \in Nodes
               PROVE  row[n] >= pay[m]
    BY DEF PayloadsReachAll
  <2>1. row[n] \in Nat /\ pay[m] \in Nat
    BY VersionIsNat DEF LibraryInv, TypeOK
  <2>2. CASE n = m
    BY <2>1, <2>2 DEF LibraryInv, ClaimInv, NeverOverclaims
  <2>3. CASE n # m
    <3>1. <<n, m>> \in shaken
      BY <2>3, PairIsLink
    <3>2. Covered(<<n, m>>[1], <<n, m>>[2])
      BY <3>1 DEF LibraryInv, CoverInv
    <3>3. Covered(n, m)
      BY <3>2
    <3>4. pay[m] <= row[n]
      BY <3>3 DEF Covered, Quiet
    <3> QED
      BY <2>1, <3>4
  <2> QED
    BY <2>2, <2>3
<1> QED
  BY <1>1, LibraryInvariant, PTL

\* A confirmed publish with nothing sent after it leaves the home node with the
\* library of this moment (NothingUnannounced), edits made meanwhile included.
THEOREM EditsAlwaysAnnounced == Spec => []NothingUnannounced
<1>1. LibraryInv => NothingUnannounced
  <2> SUFFICES ASSUME LibraryInv, pub.pc = "idle", pub.got = "applied", pub.v = sent
               PROVE  content[row[Home]] = lib
    BY DEF NothingUnannounced
  <2>1. content[pub.v] = lib /\ pub.v <= row[Home] /\ row[Home] <= sent
    BY LibraryAssumption DEF LibraryInv, PubInv, VersionInv
  <2>2. row[Home] \in Nat /\ sent \in Nat
    BY LibraryAssumption, VersionIsNat DEF LibraryInv, TypeOK
  <2>3. row[Home] = pub.v
    BY <2>1, <2>2
  <2> QED
    BY <2>1, <2>3
<1> QED
  BY <1>1, LibraryInvariant, PTL

-----------------------------------------------------------------------------
(* OfflinePlays *)

\* TypeOK, and the histories.
OfflineTypes ==
    /\ OfflineTypeOK
    /\ handled \in [beats : [Session -> 0..MaxBeats], sensors : 0..MaxSensors]

\* A row is marked up to some beat of it, and not before it is submitted; a
\* cutoff is a sensor row there is.
MarksInLog ==
    /\ \A s \in Session : /\ log[s].marked <= log[s].beats
                          /\ ~log[s].sub => log[s].marked = 0
    /\ \A t \in Tick : ticks[t].cutoff <= sensed

\* A session that a tick holds and that had ended when it was read is held
\* with all its beats.
HeldWhole ==
    \A t \in Tick, s \in Session :
        /\ ticks[t].phase \in {"sessions", "sensors", "waiting"}
        /\ ticks[t].beats[s] > 0 /\ s \notin cut
        => log[s].row = "closed" /\ log[s].beats = ticks[t].beats[s]

\* A nonce belongs to one waiting tick, and every message with it to its bundle.
NonceNamesBundle ==
    /\ \A t, u \in Tick :
          t # u /\ ticks[t].phase = "waiting" /\ ticks[u].phase = "waiting" =>
             ticks[t].nonce # ticks[u].nonce
    /\ \A t \in Tick, m \in mail :
          ticks[t].phase = "waiting" /\ m.bundle.nonce = ticks[t].nonce =>
             m.bundle.beats = ticks[t].beats

\* Whoever says ok has handled what it was sent.
OkHandled ==
    \A m \in mail : m.reply = "ok" =>
        \A s \in Session : m.bundle.beats[s] <= handled.beats[s]

OfflineInv ==
    /\ OfflineTypes
    /\ MarksInLog /\ HeldWhole /\ NonceNamesBundle /\ OkHandled
    /\ PlaysShipped

-----------------------------------------------------------------------------
\* The larger of two numbers.
LEMMA MaxOfTwo ==
    ASSUME NEW a \in Nat, NEW b \in Nat
    PROVE  Max({a, b}) \in {a, b} /\ Max({a, b}) >= a /\ Max({a, b}) >= b
<1>1. \E x \in {a, b} : \A y \in {a, b} : x >= y
  OBVIOUS
<1> QED BY <1>1 DEF Max

\* An idle tick is a tick.
LEMMA NoBeatsType ==
    /\ MaxBeats \in Nat /\ MaxSensors \in Nat /\ RETRIES \in Nat /\ MaxRestarts \in Nat
    /\ NoBeats \in [Session -> 0..MaxBeats]
    /\ IdleTick \in TickState /\ IdleTick.phase = "idle" /\ IdleTick.cutoff = 0
<1>1. /\ MaxBeats \in Nat /\ MaxSensors \in Nat /\ RETRIES \in Nat /\ MaxRestarts \in Nat
      /\ Nonce # {}
  BY OfflineAssumption
<1>2. NoBeats \in [Session -> 0..MaxBeats]
  BY <1>1 DEF NoBeats
<1> DEFINE c == CHOOSE n \in Nonce : TRUE
<1>3. c \in Nonce
  BY <1>1
<1>4. IdleTick = [phase |-> "idle", beats |-> NoBeats, sensors |-> 0, cutoff |-> 0,
                  nonce |-> c, attempt |-> 0]
  BY DEF IdleTick
<1> HIDE DEF c
<1>5. 0 \in 0..MaxSensors /\ 0 \in 0..RETRIES /\ "idle" \in TickPhases
  BY <1>1 DEF TickPhases
<1>6. IdleTick \in TickState
  BY <1>2, <1>3, <1>4, <1>5 DEF TickState
<1> QED BY <1>1, <1>2, <1>4, <1>6

\* The invariant holds of an empty log.
LEMMA OfflineInvInit == OfflineInit => OfflineInv
<1> SUFFICES ASSUME OfflineInit PROVE OfflineInv
  OBVIOUS
<1>1. OfflineTypes
  <2>1. log \in [Session -> Entry]
    BY NoBeatsType DEF OfflineInit, Entry
  <2>2. ticks \in [Tick -> TickState]
    BY NoBeatsType DEF OfflineInit
  <2>3. handled \in [beats : [Session -> 0..MaxBeats], sensors : 0..MaxSensors]
    BY NoBeatsType DEF OfflineInit
  <2>4. /\ sensed \in 0..MaxSensors /\ sensMarked \in 0..sensed
        /\ restarts \in 0..MaxRestarts /\ submitting \in BOOLEAN
    <3>1. sensed = 0 /\ sensMarked = 0 /\ restarts = 0 /\ submitting = FALSE
      BY DEF OfflineInit
    <3>2. submitting \in BOOLEAN
      BY <3>1
    <3>3. MaxSensors \in Nat /\ MaxRestarts \in Nat
      BY OfflineAssumption
    <3>4. sensed \in 0..MaxSensors /\ sensMarked \in 0..sensed /\ restarts \in 0..MaxRestarts
      BY <3>1, <3>3
    <3> QED BY <3>2, <3>4
  <2>5. mail \subseteq Submission /\ obp \subseteq Nonce /\ credited \subseteq Session
        /\ cut \subseteq Session
    BY DEF OfflineInit
  <2> QED BY <2>1, <2>2, <2>3, <2>4, <2>5 DEF OfflineTypes, OfflineTypeOK
<1>2. MarksInLog
  BY NoBeatsType DEF OfflineInit, MarksInLog
<1>3. HeldWhole /\ NonceNamesBundle /\ OkHandled
  BY NoBeatsType DEF OfflineInit, HeldWhole, NonceNamesBundle, OkHandled
<1>4. PlaysShipped
  BY DEF OfflineInit, PlaysShipped
<1> QED BY <1>1, <1>2, <1>3, <1>4 DEF OfflineInv

-----------------------------------------------------------------------------
\* Opening, beating and closing: a session that a tick holds whole is closed.
LEMMA PlaybackStep ==
    ASSUME OfflineInv, Playback
    PROVE  OfflineInv'
<1>1. /\ UNCHANGED <<ticks, mail, obp, credited, handled, cut, restarts, submitting>>
      /\ sensMarked' = sensMarked
  BY DEF Playback, nodeVars, openSession, recordHeartbeat, closeSession, recordSensor
<1>2. /\ log' \in [Session -> Entry] /\ sensed' \in 0..MaxSensors /\ sensed' >= sensed
      /\ \A s \in Session : /\ log'[s].sub = log[s].sub /\ log'[s].marked = log[s].marked
                            /\ log'[s].beats >= log[s].beats
                            /\ log[s].row = "closed" => log'[s] = log[s]
  BY NoBeatsType
     DEF Playback, openSession, recordHeartbeat, closeSession, recordSensor,
         OfflineInv, OfflineTypes, OfflineTypeOK, Entry
<1>3. OfflineTypes'
  BY <1>1, <1>2, NoBeatsType DEF OfflineInv, OfflineTypes, OfflineTypeOK
<1>4. MarksInLog'
  <2>1. \A s \in Session : log[s] \in Entry /\ log'[s] \in Entry
    BY <1>2 DEF OfflineInv, OfflineTypes, OfflineTypeOK
  <2>2. \A t \in Tick : ticks[t].cutoff \in Nat
    BY DEF OfflineInv, OfflineTypes, OfflineTypeOK, TickState
  <2>3. sensed \in Nat /\ sensed' \in Nat
    BY <1>2 DEF OfflineInv, OfflineTypes, OfflineTypeOK
  <2>4. \A s \in Session : log'[s].marked <= log'[s].beats
    BY <1>2, <2>1 DEF OfflineInv, MarksInLog, Entry
  <2> QED BY <1>1, <1>2, <2>2, <2>3, <2>4 DEF OfflineInv, MarksInLog
<1>5. HeldWhole'
  BY <1>1, <1>2 DEF OfflineInv, HeldWhole
<1>6. NonceNamesBundle' /\ OkHandled' /\ PlaysShipped'
  BY <1>1, <1>2 DEF OfflineInv, NonceNamesBundle, OkHandled, PlaysShipped
<1> QED BY <1>3, <1>4, <1>5, <1>6 DEF OfflineInv

\* A tick that gives up, and every tick when the app is killed.
LEMMA IdleStep ==
    ASSUME OfflineInv, UNCHANGED <<logVars, nodeVars, cut>>, mail' \subseteq mail,
           submitting' \in BOOLEAN, restarts' \in 0..MaxRestarts,
           ticks' \in [Tick -> TickState],
           \A t \in Tick : ticks'[t] = ticks[t] \/ ticks'[t] = IdleTick
    PROVE  OfflineInv'
<1>1. UNCHANGED <<log, sensed, sensMarked, obp, credited, handled, cut>>
  BY DEF logVars, nodeVars
<1>2. OfflineTypes'
  BY <1>1 DEF OfflineInv, OfflineTypes, OfflineTypeOK
<1>3. MarksInLog'
  <2>1. 0 <= sensed
    BY DEF OfflineInv, OfflineTypes, OfflineTypeOK
  <2> QED BY <1>1, <2>1, NoBeatsType DEF OfflineInv, MarksInLog
<1>4. HeldWhole' /\ NonceNamesBundle'
  BY <1>1, NoBeatsType DEF OfflineInv, HeldWhole, NonceNamesBundle
<1>5. OkHandled' /\ PlaysShipped'
  BY <1>1 DEF OfflineInv, OkHandled, PlaysShipped
<1> QED BY <1>2, <1>3, <1>4, <1>5 DEF OfflineInv

\* The steps of one tick that leave the log and the node alone.
LEMMA ReadSteps ==
    ASSUME OfflineInv, NEW t \in Tick, TickEnters(t) \/ TickReads(t) \/ TickReadsSensors(t)
    PROVE  OfflineInv'
<1>0. /\ ticks \in [Tick -> TickState] /\ log \in [Session -> Entry] /\ sensed \in 0..MaxSensors
      /\ submitting \in BOOLEAN /\ cut \subseteq Session
  BY DEF OfflineInv, OfflineTypes, OfflineTypeOK
<1>1. UNCHANGED <<log, sensed, sensMarked, mail, obp, credited, handled, restarts>>
  BY DEF TickEnters, TickReads, TickReadsSensors, logVars, nodeVars
<1>2. CASE TickReads(t) /\ unsubmittedSessions = NoBeats
  <2>1. ticks' \in [Tick -> TickState] /\ submitting' \in BOOLEAN
        /\ \A u \in Tick : ticks'[u] = ticks[u] \/ ticks'[u] = IdleTick
    BY <1>0, <1>2, NoBeatsType DEF TickReads
  <2>2. cut' \subseteq Session /\ cut \subseteq cut'
    BY <1>0, <1>2 DEF TickReads
  <2>3. OfflineTypes'
    BY <1>1, <2>1, <2>2 DEF OfflineInv, OfflineTypes, OfflineTypeOK
  <2>4. MarksInLog'
    BY <1>0, <1>1, <2>1, NoBeatsType DEF OfflineInv, MarksInLog
  <2>5. HeldWhole' /\ NonceNamesBundle'
    BY <1>1, <2>1, <2>2, NoBeatsType DEF OfflineInv, HeldWhole, NonceNamesBundle
  <2>6. OkHandled' /\ PlaysShipped'
    BY <1>1, <2>2 DEF OfflineInv, OkHandled, PlaysShipped
  <2> QED BY <2>3, <2>4, <2>5, <2>6 DEF OfflineInv
<1>3. CASE TickReads(t) /\ unsubmittedSessions # NoBeats
  <2>1. /\ ticks' = [ticks EXCEPT ![t].phase = "sessions", ![t].beats = unsubmittedSessions]
        /\ submitting' = TRUE
        /\ cut' = cut \cup {s \in Session : log[s].row = "open"}
    BY <1>3 DEF TickReads
  <2>2. \A s \in Session :
           /\ unsubmittedSessions[s] \in 0..MaxBeats
           /\ unsubmittedSessions[s] > 0 =>
                 log[s].row # "none" /\ unsubmittedSessions[s] = log[s].beats
    <3> TAKE s \in Session
    <3>1. /\ log[s].beats \in Nat /\ log[s].beats <= MaxBeats /\ log[s].marked \in Nat
          /\ ~log[s].sub => log[s].marked = 0
      BY <1>0, NoBeatsType DEF Entry, OfflineInv, MarksInLog
    <3> QED BY <3>1, NoBeatsType DEF unsubmittedSessions
  <2>3. unsubmittedSessions \in [Session -> 0..MaxBeats]
    BY <2>2 DEF unsubmittedSessions
  <2>4. /\ ticks'[t].phase = "sessions" /\ ticks'[t].beats = unsubmittedSessions
        /\ ticks'[t].cutoff = ticks[t].cutoff
        /\ \A u \in Tick \ {t} : ticks'[u] = ticks[u]
    <3>1. t \in DOMAIN ticks /\ {"phase", "beats", "cutoff"} \subseteq DOMAIN ticks[t]
      BY <1>0 DEF TickState
    <3>2. ticks'[t] = [ticks[t] EXCEPT !.phase = "sessions", !.beats = unsubmittedSessions]
      BY <2>1, <3>1
    <3>3. \A u \in Tick \ {t} : ticks'[u] = ticks[u]
      BY <1>0, <2>1
    <3> QED BY <3>1, <3>2, <3>3
  <2>5. ticks' \in [Tick -> TickState]
    <3> DEFINE r == [ticks[t] EXCEPT !.phase = "sessions", !.beats = unsubmittedSessions]
    <3>1. r \in TickState
      BY <1>0, <2>3 DEF TickState, TickPhases
    <3>2. ticks' = [ticks EXCEPT ![t] = r]
      BY <1>0, <2>1
    <3> HIDE DEF r
    <3> QED BY <1>0, <3>1, <3>2
  <2>6. OfflineTypes'
    BY <1>0, <1>1, <2>1, <2>5 DEF OfflineInv, OfflineTypes, OfflineTypeOK
  <2>7. MarksInLog'
    BY <1>1, <2>4 DEF OfflineInv, MarksInLog
  <2>8. HeldWhole'
    <3> SUFFICES ASSUME NEW u \in Tick, NEW s \in Session,
                        ticks'[u].phase \in {"sessions", "sensors", "waiting"},
                        ticks'[u].beats[s] > 0, s \notin cut'
                 PROVE  log[s].row = "closed" /\ log[s].beats = ticks'[u].beats[s]
      BY <1>1 DEF HeldWhole
    <3>1. CASE u = t
      <4>1. log[s].row \in {"none", "open", "closed"} /\ log[s].row # "open"
        BY <1>0, <2>1 DEF Entry
      <4> QED BY <2>2, <2>4, <3>1, <4>1
    <3>2. CASE u # t
      <4>1. ticks'[u] = ticks[u] /\ s \notin cut
        BY <2>1, <2>4, <3>2
      <4>2. HeldWhole
        BY DEF OfflineInv
      <4> QED BY <4>1, <4>2 DEF HeldWhole
    <3> QED BY <3>1, <3>2
  <2>9. NonceNamesBundle'
    BY <1>1, <2>4 DEF OfflineInv, NonceNamesBundle
  <2>10. OkHandled' /\ PlaysShipped'
    BY <1>1, <2>1 DEF OfflineInv, OkHandled, PlaysShipped
  <2> QED BY <2>6, <2>7, <2>8, <2>9, <2>10 DEF OfflineInv
<1>4. CASE TickEnters(t) \/ TickReadsSensors(t)
  <2>1. /\ ticks' \in [Tick -> TickState]
        /\ ticks'[t].phase \in {"gate", "sensors"}
        /\ ticks'[t].phase = "sensors" => ticks[t].phase = "sessions"
        /\ ticks'[t].beats = ticks[t].beats /\ ticks'[t].cutoff = ticks[t].cutoff
        /\ \A u \in Tick \ {t} : ticks'[u] = ticks[u]
    <3>1. CASE TickEnters(t)
      BY <1>0, <3>1 DEF TickEnters, Phase, TickState, TickPhases
    <3>2. CASE TickReadsSensors(t)
      <4>1. ticks[t].phase = "sessions"
            /\ ticks' = [ticks EXCEPT ![t] = [ticks[t] EXCEPT !.phase = "sensors",
                                                             !.sensors = sensed]]
        BY <3>2 DEF TickReadsSensors, Phase
      <4>2. [ticks[t] EXCEPT !.phase = "sensors", !.sensors = sensed] \in TickState
        BY <1>0 DEF TickState, TickPhases
      <4> QED BY <1>0, <4>1, <4>2 DEF TickState
    <3> QED BY <1>4, <3>1, <3>2
  <2>2. UNCHANGED <<submitting, cut>>
    BY <1>4 DEF TickEnters, TickReadsSensors
  <2>3. OfflineTypes'
    BY <1>0, <1>1, <2>1, <2>2 DEF OfflineInv, OfflineTypes, OfflineTypeOK
  <2>4. MarksInLog'
    BY <1>1, <2>1 DEF OfflineInv, MarksInLog
  <2>5. HeldWhole' /\ NonceNamesBundle'
    BY <1>1, <2>1, <2>2 DEF OfflineInv, HeldWhole, NonceNamesBundle
  <2>6. OkHandled' /\ PlaysShipped'
    BY <1>1, <2>2 DEF OfflineInv, OkHandled, PlaysShipped
  <2> QED BY <2>3, <2>4, <2>5, <2>6 DEF OfflineInv
<1> QED BY <1>2, <1>3, <1>4

\* The bundle of t goes out, as the k-th request with nonce n.
LEMMA TickGoes ==
    ASSUME OfflineInv, NEW t \in Tick,
           NEW n \in Nonce, NEW k \in 0..RETRIES, NEW c \in {ticks[t].cutoff, sensed},
           UNCHANGED <<log, sensed, sensMarked, submitting, obp, credited, handled, cut,
                       restarts>>,
           ticks' = [ticks EXCEPT ![t] = [ticks[t] EXCEPT !.phase = "waiting", !.nonce = n,
                                                          !.cutoff = c, !.attempt = k]],
           mail' = mail \cup {[bundle |-> [BundleOf(t) EXCEPT !.nonce = n],
                             attempt |-> k, reply |-> "no"]},
           ticks[t].phase \in {"sensors", "waiting"},
           FreshNonce(n) \/ (ticks[t].phase = "waiting" /\ n = ticks[t].nonce)
    PROVE  OfflineInv'
<1>0. /\ ticks \in [Tick -> TickState] /\ sensed \in 0..MaxSensors /\ mail \subseteq Submission
  BY DEF OfflineInv, OfflineTypes, OfflineTypeOK
<1> DEFINE b == [BundleOf(t) EXCEPT !.nonce = n]
           m == [bundle |-> b, attempt |-> k, reply |-> "no"]
<1>1. b = [beats |-> ticks[t].beats, sensors |-> ticks[t].sensors, nonce |-> n]
  BY DEF BundleOf
<1>2. b \in Bundle /\ b.nonce = n /\ b.beats = ticks[t].beats
  BY <1>0, <1>1 DEF Bundle, TickState
<1> HIDE DEF b
<1>3. /\ ticks'[t].phase = "waiting" /\ ticks'[t].nonce = n
      /\ ticks'[t].beats = ticks[t].beats /\ ticks'[t].cutoff = c
      /\ \A u \in Tick \ {t} : ticks'[u] = ticks[u]
  BY <1>0 DEF TickState
<1>4. ticks' \in [Tick -> TickState]
  <2>1. c \in 0..MaxSensors
    BY <1>0 DEF TickState
  <2>2. [ticks[t] EXCEPT !.phase = "waiting", !.nonce = n,
                         !.cutoff = c, !.attempt = k] \in TickState
    BY <1>0, <2>1 DEF TickState, TickPhases
  <2> QED BY <1>0, <2>2
<1>5. m \in Submission
  BY <1>2 DEF Submission
<1>6. mail' = mail \cup {m} /\ m.bundle = b /\ m.reply = "no"
  BY DEF b
<1> HIDE DEF m
<1>12. OfflineTypes'
  BY <1>0, <1>4, <1>5, <1>6 DEF OfflineInv, OfflineTypes, OfflineTypeOK
<1>7. MarksInLog'
  BY <1>0, <1>3 DEF OfflineInv, MarksInLog
<1>8. HeldWhole'
  BY <1>3 DEF OfflineInv, HeldWhole
<1>9. NonceNamesBundle'
  <2>1. ASSUME NEW u \in Tick \ {t}, ticks[u].phase = "waiting" PROVE ticks[u].nonce # n
    BY <2>1 DEF FreshNonce, Phase, OfflineInv, NonceNamesBundle
  <2>2. ASSUME NEW x \in mail, x.bundle.nonce = n PROVE x.bundle.beats = ticks[t].beats
    BY <2>2 DEF FreshNonce, OfflineInv, NonceNamesBundle
  <2>3. \A u, v \in Tick :
           u # v /\ ticks'[u].phase = "waiting" /\ ticks'[v].phase = "waiting" =>
              ticks'[u].nonce # ticks'[v].nonce
    BY <1>3, <2>1 DEF OfflineInv, NonceNamesBundle
  <2>4. ASSUME NEW u \in Tick, NEW x \in mail', ticks'[u].phase = "waiting",
               x.bundle.nonce = ticks'[u].nonce
        PROVE  x.bundle.beats = ticks'[u].beats
    <3>1. x \in mail \/ x = m
      BY <1>6
    <3>2. m.bundle = b
      BY <1>6
    <3>3. CASE u = t
      BY <1>2, <1>3, <2>2, <2>4, <3>1, <3>2, <3>3
    <3>4. CASE u # t
      BY <1>2, <1>3, <2>1, <2>4, <3>1, <3>2, <3>4 DEF OfflineInv, NonceNamesBundle
    <3> QED BY <3>3, <3>4
  <2> QED BY <2>3, <2>4 DEF NonceNamesBundle
<1>10. OkHandled'
  BY <1>6 DEF OfflineInv, OkHandled
<1>11. PlaysShipped'
  BY DEF OfflineInv, PlaysShipped
<1> QED BY <1>7, <1>8, <1>9, <1>10, <1>11, <1>12 DEF OfflineInv

\* The first request of a bundle takes a nonce nobody uses, a retry keeps it.
LEMMA SendSteps ==
    ASSUME OfflineInv, NEW t \in Tick,
           TickRetries(t) \/ \E n \in Nonce : TickSends(t, n)
    PROVE  OfflineInv'
<1>0. /\ ticks \in [Tick -> TickState] /\ sensed \in 0..MaxSensors /\ 0 \in 0..RETRIES
  BY NoBeatsType DEF OfflineInv, OfflineTypes, OfflineTypeOK
<1>1. UNCHANGED <<log, sensed, sensMarked, submitting, obp, credited, handled, cut, restarts>>
  BY DEF TickRetries, TickSends, logVars, nodeVars
<1>2. CASE TickRetries(t)
  <2> DEFINE n == ticks[t].nonce
             k == ticks[t].attempt + 1
  <2>1. /\ ticks[t].phase = "waiting" /\ ticks[t].attempt < RETRIES
        /\ ticks' = [ticks EXCEPT ![t].attempt = k]
        /\ mail' = mail \cup {[bundle |-> BundleOf(t), attempt |-> k, reply |-> "no"]}
    BY <1>2 DEF TickRetries, Phase
  <2>2. n \in Nonce /\ k \in 0..RETRIES
    BY <1>0, <2>1, NoBeatsType DEF TickState
  <2>3. ticks' = [ticks EXCEPT ![t] = [ticks[t] EXCEPT !.phase = "waiting", !.nonce = n,
                                          !.cutoff = ticks[t].cutoff, !.attempt = k]]
    BY <1>0, <2>1 DEF TickState
  <2>4. [BundleOf(t) EXCEPT !.nonce = n] = BundleOf(t)
    BY DEF BundleOf
  <2> HIDE DEF k, OfflineInv
  <2> QED BY <1>1, <2>1, <2>2, <2>3, <2>4, TickGoes
<1>3. ASSUME NEW n \in Nonce, TickSends(t, n) PROVE OfflineInv'
  <2> DEFINE k == 0
             c == sensed
  <2>1. /\ ticks[t].phase = "sensors" /\ FreshNonce(n)
        /\ ticks' = [ticks EXCEPT ![t] = [ticks[t] EXCEPT !.phase = "waiting", !.nonce = n,
                                             !.cutoff = c, !.attempt = k]]
        /\ mail' = mail \cup {[bundle |-> [BundleOf(t) EXCEPT !.nonce = n],
                             attempt |-> k, reply |-> "no"]}
    BY <1>0, <1>3 DEF TickSends, Phase
  <2>2. k \in 0..RETRIES /\ c \in {ticks[t].cutoff, sensed}
    BY <1>0
  <2>3. /\ ticks[t].phase \in {"sensors", "waiting"}
        /\ FreshNonce(n) \/ (ticks[t].phase = "waiting" /\ n = ticks[t].nonce)
    BY <2>1
  <2> HIDE DEF OfflineInv, FreshNonce, k, c
  <2> QED BY <1>1, <2>1, <2>2, <2>3, TickGoes
<1> QED BY <1>2, <1>3

\* The answer arrives, and the rows are marked if it is an ok.
LEMMA AnswerStep ==
    ASSUME OfflineInv, NEW t \in Tick, NEW m \in mail, TickAnswered(t, m)
    PROVE  OfflineInv'
<1>0. /\ ticks \in [Tick -> TickState] /\ log \in [Session -> Entry]
      /\ sensed \in 0..MaxSensors /\ sensMarked \in 0..sensed /\ restarts \in 0..MaxRestarts
  BY DEF OfflineInv, OfflineTypes, OfflineTypeOK
<1>1. /\ ticks' = [ticks EXCEPT ![t] = IdleTick] /\ submitting' = FALSE
      /\ mail' = mail \ {m} /\ UNCHANGED <<obp, credited, handled, cut, restarts, sensed>>
      /\ m.reply # "no" /\ ticks[t].phase = "waiting" /\ m.bundle.nonce = ticks[t].nonce
  BY DEF TickAnswered, Answers, Phase, markSubmitted, logVars, nodeVars
<1>2. ticks' \in [Tick -> TickState] /\ ticks'[t] = IdleTick
      /\ \A u \in Tick \ {t} : ticks'[u] = ticks[u]
  BY <1>0, <1>1, NoBeatsType
<1>3. CASE m.reply # "ok"
  <2>1. UNCHANGED <<logVars, nodeVars, cut>>
    BY <1>1, <1>3 DEF TickAnswered, nodeVars
  <2> HIDE DEF OfflineInv
  <2> QED BY <1>0, <1>1, <1>2, <2>1, IdleStep
<1>4. CASE m.reply = "ok"
  <2>1. /\ log' = [s \in Session |->
                    IF ticks[t].beats[s] > 0
                    THEN [log[s] EXCEPT !.sub = TRUE, !.marked = log[s].beats]
                    ELSE log[s]]
        /\ sensMarked' \in {ticks[t].cutoff, sensMarked}
    BY <1>4 DEF TickAnswered, markSubmitted
  <2>2. \A s \in Session :
           /\ log'[s] \in Entry
           /\ log'[s].row = log[s].row /\ log'[s].beats = log[s].beats
           /\ IF ticks[t].beats[s] > 0
              THEN log'[s].sub = TRUE /\ log'[s].marked = log[s].beats
              ELSE log'[s] = log[s]
    BY <1>0, <2>1 DEF Entry
  <2>3. ticks[t].cutoff \in 0..sensed
    BY <1>0 DEF OfflineInv, MarksInLog, TickState
  <2>4. OfflineTypes'
    <3>1. log' \in [Session -> Entry]
      BY <2>1, <2>2
    <3> QED BY <1>0, <1>1, <1>2, <2>1, <2>3, <3>1 DEF OfflineInv, OfflineTypes, OfflineTypeOK
  <2>5. MarksInLog'
    <3>1. \A s \in Session : log[s].beats \in Nat
      BY <1>0 DEF Entry
    <3>2. \A s \in Session : /\ log'[s].marked <= log'[s].beats
                             /\ ~log'[s].sub => log'[s].marked = 0
      BY <2>2, <3>1 DEF OfflineInv, MarksInLog
    <3>3. \A u \in Tick : ticks'[u].cutoff <= sensed
      BY <1>0, <1>2, NoBeatsType DEF OfflineInv, MarksInLog
    <3> QED BY <1>1, <3>2, <3>3 DEF MarksInLog
  <2>6. HeldWhole'
    BY <1>1, <1>2, <2>2, NoBeatsType DEF OfflineInv, HeldWhole
  <2>7. NonceNamesBundle' /\ OkHandled'
    BY <1>1, <1>2, NoBeatsType DEF OfflineInv, NonceNamesBundle, OkHandled
  <2>8. PlaysShipped'
    <3> SUFFICES ASSUME NEW s \in Session, log'[s].sub
                 PROVE  /\ handled.beats[s] > 0
                        /\ s \notin cut => log'[s].marked <= handled.beats[s]
      BY <1>1 DEF PlaysShipped
    <3>1. CASE ~(ticks[t].beats[s] > 0)
      BY <2>2, <3>1 DEF OfflineInv, PlaysShipped
    <3>2. CASE ticks[t].beats[s] > 0
      <4>1. m.bundle.beats = ticks[t].beats
        BY <1>1 DEF OfflineInv, NonceNamesBundle
      <4>2. ticks[t].beats[s] <= handled.beats[s]
        BY <1>4, <4>1 DEF OfflineInv, OkHandled
      <4>3. s \notin cut => log[s].beats = ticks[t].beats[s]
        BY <1>1, <3>2 DEF OfflineInv, HeldWhole
      <4>4. ticks[t].beats[s] \in Nat /\ handled.beats[s] \in Nat
        BY <1>0 DEF TickState, OfflineInv, OfflineTypes
      <4> QED BY <2>2, <3>2, <4>2, <4>3, <4>4
    <3> QED BY <3>1, <3>2
  <2> QED BY <2>4, <2>5, <2>6, <2>7, <2>8 DEF OfflineInv
<1> QED BY <1>3, <1>4

\* The node answers: what it has handled only grows.
LEMMA NodeStep ==
    ASSUME OfflineInv, NEW m \in mail, NEW flagged \in BOOLEAN, NodeAnswers(m, flagged)
    PROVE  OfflineInv'
<1>0. /\ mail \subseteq Submission /\ obp \subseteq Nonce /\ credited \subseteq Session
      /\ handled \in [beats : [Session -> 0..MaxBeats], sensors : 0..MaxSensors]
  BY DEF OfflineInv, OfflineTypes, OfflineTypeOK
<1> DEFINE b == m.bundle
           reject == b.nonce \in obp \/ flagged
           reply == IF reject THEN "rejected" ELSE "ok"
           a == [m EXCEPT !.reply = reply]
<1>1. UNCHANGED <<log, sensed, sensMarked, submitting, ticks, cut, restarts>>
  BY DEF NodeAnswers, logVars
<1>2. mail' = (mail \ {m}) \cup {a}
  BY DEF NodeAnswers
<1>3. /\ a \in Submission /\ a.bundle = b /\ a.reply = reply
      /\ b \in Bundle /\ b.beats \in [Session -> 0..MaxBeats] /\ b.nonce \in Nonce
      /\ b.sensors \in 0..MaxSensors
  BY <1>0 DEF Submission, Bundle
<1>4. /\ obp' \subseteq Nonce /\ credited' \subseteq Session
      /\ handled' \in [beats : [Session -> 0..MaxBeats], sensors : 0..MaxSensors]
      /\ \A s \in Session : /\ handled'.beats[s] >= handled.beats[s]
                            /\ ~reject => b.beats[s] <= handled'.beats[s]
  <2>1. CASE reject
    <3>1. UNCHANGED <<obp, credited, handled>>
      BY <2>1 DEF NodeAnswers, nodeVars
    <3>2. \A s \in Session : handled.beats[s] \in Nat
      BY <1>0
    <3> QED BY <1>0, <2>1, <3>1, <3>2
  <2>2. CASE ~reject
    <3> DEFINE most(s) == Max({b.beats[s], handled.beats[s]})
    <3>1. /\ credited' = credited \cup Accepted(b)
          /\ obp' = IF Accepted(b) = {} THEN obp ELSE obp \cup {b.nonce}
          /\ handled' = [beats |-> [s \in Session |-> most(s)],
                         sensors |-> Max({b.sensors, handled.sensors})]
      BY <2>2 DEF NodeAnswers
    <3>2. \A s \in Session : /\ most(s) \in 0..MaxBeats
                             /\ most(s) >= b.beats[s] /\ most(s) >= handled.beats[s]
      <4> TAKE s \in Session
      <4>1. b.beats[s] \in 0..MaxBeats /\ handled.beats[s] \in 0..MaxBeats
        BY <1>0, <1>3
      <4>2. /\ Max({b.beats[s], handled.beats[s]}) \in {b.beats[s], handled.beats[s]}
            /\ Max({b.beats[s], handled.beats[s]}) >= b.beats[s]
            /\ Max({b.beats[s], handled.beats[s]}) >= handled.beats[s]
        BY <4>1, MaxOfTwo
      <4> QED BY <4>1, <4>2
    <3>3. Max({b.sensors, handled.sensors}) \in 0..MaxSensors
      <4>1. /\ handled.sensors \in 0..MaxSensors /\ b.sensors \in 0..MaxSensors
            /\ handled.sensors \in Nat /\ b.sensors \in Nat
        BY <1>0, <1>3
      <4>2. Max({b.sensors, handled.sensors}) \in {b.sensors, handled.sensors}
        BY <4>1, MaxOfTwo
      <4> QED BY <4>1, <4>2
    <3> HIDE DEF most, b
    <3>4. handled' \in [beats : [Session -> 0..MaxBeats], sensors : 0..MaxSensors]
          /\ \A s \in Session : handled'.beats[s] = most(s)
      BY <3>1, <3>2, <3>3
    <3>5. obp' \subseteq Nonce /\ credited' \subseteq Session
      BY <1>0, <1>3, <3>1 DEF Accepted, Sessions
    <3>6. \A s \in Session : b.beats[s] \in Nat /\ handled.beats[s] \in Nat
      BY <1>0, <1>3
    <3> QED BY <3>2, <3>4, <3>5, <3>6
  <2> QED BY <2>1, <2>2
<1>5. reply = "ok" => ~reject
  OBVIOUS
<1> HIDE DEF a, reply, reject, b
<1>6. OfflineTypes'
  BY <1>1, <1>2, <1>3, <1>4 DEF OfflineInv, OfflineTypes, OfflineTypeOK
<1>7. MarksInLog' /\ HeldWhole'
  BY <1>1 DEF OfflineInv, MarksInLog, HeldWhole
<1>8. NonceNamesBundle'
  <2>1. \A t \in Tick : ticks[t].phase = "waiting" /\ b.nonce = ticks[t].nonce =>
                           b.beats = ticks[t].beats
    BY DEF OfflineInv, NonceNamesBundle, b
  <2> QED BY <1>1, <1>2, <1>3, <2>1 DEF OfflineInv, NonceNamesBundle
<1>9. OkHandled'
  <2> SUFFICES ASSUME NEW x \in mail', x.reply = "ok", NEW s \in Session
               PROVE  x.bundle.beats[s] <= handled'.beats[s]
    BY DEF OkHandled
  <2>1. CASE x = a
    BY <1>3, <1>4, <1>5, <2>1
  <2>2. CASE x \in mail
    <3>1. x.bundle.beats[s] <= handled.beats[s]
      BY <2>2 DEF OfflineInv, OkHandled
    <3>2. x.bundle.beats[s] \in Nat /\ handled.beats[s] \in Nat /\ handled'.beats[s] \in Nat
      BY <1>0, <1>4, <2>2 DEF Submission, Bundle
    <3> QED BY <1>4, <3>1, <3>2
  <2> QED BY <1>2, <2>1, <2>2
<1>10. PlaysShipped'
  <2> SUFFICES ASSUME NEW s \in Session, log[s].sub
               PROVE  /\ handled'.beats[s] > 0
                      /\ s \notin cut => log[s].marked <= handled'.beats[s]
    BY <1>1 DEF PlaysShipped
  <2>1. /\ handled.beats[s] > 0
        /\ s \notin cut => log[s].marked <= handled.beats[s]
    BY DEF OfflineInv, PlaysShipped
  <2>2. handled.beats[s] \in Nat /\ handled'.beats[s] \in Nat /\ log[s].marked \in Nat
    BY <1>0, <1>4 DEF OfflineInv, OfflineTypes, OfflineTypeOK, Entry
  <2> QED BY <1>4, <2>1, <2>2
<1> QED BY <1>6, <1>7, <1>8, <1>9, <1>10 DEF OfflineInv

-----------------------------------------------------------------------------
\* Every step of the log, the service, the node and the relay.
LEMMA OfflineInvStep == OfflineInv /\ [OfflineNext]_offlineVars => OfflineInv'
<1> SUFFICES ASSUME OfflineInv, [OfflineNext]_offlineVars PROVE OfflineInv'
  OBVIOUS
<1>0. /\ ticks \in [Tick -> TickState] /\ submitting \in BOOLEAN
      /\ restarts \in 0..MaxRestarts
  BY DEF OfflineInv, OfflineTypes, OfflineTypeOK
<1>1. ASSUME NEW t \in Tick, TickOffline(t) \/ TickFails(t) PROVE OfflineInv'
  <2>1. /\ ticks' = [ticks EXCEPT ![t] = IdleTick] /\ submitting' \in BOOLEAN
        /\ UNCHANGED <<logVars, nodeVars, cut, restarts, mail>>
    BY <1>0, <1>1 DEF TickOffline, TickFails
  <2>2. /\ ticks' \in [Tick -> TickState]
        /\ \A u \in Tick : ticks'[u] = ticks[u] \/ ticks'[u] = IdleTick
    BY <1>0, <2>1, NoBeatsType
  <2> HIDE DEF OfflineInv
  <2> QED BY <1>0, <2>1, <2>2, IdleStep
<1>2. ASSUME NEW m \in mail, Lost(m) PROVE OfflineInv'
  <2>1. /\ mail' \subseteq mail
        /\ UNCHANGED <<logVars, nodeVars, cut, restarts, ticks, submitting>>
    BY <1>2 DEF Lost
  <2> HIDE DEF OfflineInv
  <2> QED BY <1>0, <2>1, IdleStep
<1>3. CASE Restart
  <2>1. /\ ticks' = [t \in Tick |-> IdleTick] /\ submitting' \in BOOLEAN
        /\ mail' = mail /\ UNCHANGED <<logVars, nodeVars, cut>>
    BY <1>3 DEF Restart
  <2>3. restarts' \in 0..MaxRestarts /\ mail' \subseteq mail
    BY <1>0, <1>3, <2>1, NoBeatsType DEF Restart
  <2>2. /\ ticks' \in [Tick -> TickState]
        /\ \A u \in Tick : ticks'[u] = ticks[u] \/ ticks'[u] = IdleTick
    BY <2>1, NoBeatsType
  <2> HIDE DEF OfflineInv
  <2> QED BY <2>1, <2>2, <2>3, IdleStep
<1>4. CASE UNCHANGED offlineVars
  <2>1. /\ mail' \subseteq mail
        /\ UNCHANGED <<logVars, nodeVars, cut, restarts, ticks, submitting>>
    BY <1>4 DEF offlineVars, logVars, nodeVars
  <2> HIDE DEF OfflineInv
  <2> QED BY <1>0, <2>1, IdleStep
<1>5. ASSUME NEW t \in Tick, TickEnters(t) \/ TickStep(t) PROVE OfflineInv'
  BY <1>1, <1>5, ReadSteps, SendSteps, AnswerStep DEF TickStep
<1> QED BY <1>2, <1>3, <1>4, <1>5, PlaybackStep, NodeStep DEF OfflineNext

\* A session is marked as submitted only up to beats that a bundle answered with
\* ok held, unless it was bundled while it played (PlaysShipped): markSubmitted
\* acts on what the answered bundle had been built from.
THEOREM PlaysAlwaysShipped == OfflineSpec => []PlaysShipped
<1>1. OfflineInv => PlaysShipped
  BY DEF OfflineInv
<1> QED BY <1>1, OfflineInvInit, OfflineInvStep, PTL DEF OfflineSpec

-----------------------------------------------------------------------------
(* Transfer *)

FetchTypes ==
    /\ bitmap \in Seq(BOOLEAN) /\ bitmapFile \in Seq(BOOLEAN)
    /\ meta \in Nat /\ total \in Nat /\ unprobed \subseteq Source
    /\ DOMAIN worker = Thread
    /\ \A t \in Thread : {"pc", "src", "range", "got"} \subseteq DOMAIN worker[t]

\* Only workers fetch, and only while the run is in its loop.
FetchAtWork ==
    \A t \in Thread : worker[t].pc = "fetch" => t \in Worker /\ phase = "work"

\* Before the tail, what is being fetched is claimed, and by one worker.
ClaimsApart ==
    \/ Cardinality(Missing) <= maxWorkers
    \/ \A v \in Thread : worker[v].pc = "fetch" =>
          /\ worker[v].range \cap Missing \subseteq claimed
          /\ \A w \in Thread : w # v /\ worker[w].pc = "fetch" =>
                worker[v].range \cap worker[w].range = {}

TransferInv == FetchTypes /\ FetchAtWork /\ ClaimsApart

-----------------------------------------------------------------------------
\* The missing pieces can be counted.
LEMMA MissingFinite ==
    ASSUME bitmap \in Seq(BOOLEAN)
    PROVE  IsFiniteSet(Missing) /\ Cardinality(Missing) \in Nat
<1>1. IsFiniteSet(Pieces)
  BY FS_Interval DEF Pieces
<1>2. Missing \subseteq Pieces
  BY DEF Missing
<1> QED BY <1>1, <1>2, FS_Subset, FS_CardinalityType

\* maxWorkers is the number of workers.
LEMMA WorkersCounted == maxWorkers \in Nat
BY TransferAssumption, FS_CardinalityType

\* ClaimsApart outlives a step that starts no fetch, and gives back a claim on a
\* missing piece only if nobody else fetches it, or in the tail.
LEMMA ClaimsKept ==
    ASSUME TransferInv, bitmap' \in Seq(BOOLEAN), Missing' \subseteq Missing,
           \A v \in Thread : worker'[v].pc = "fetch" =>
              /\ worker[v].pc = "fetch" /\ worker'[v].range = worker[v].range
              /\ \/ Cardinality(Missing) <= maxWorkers
                 \/ worker[v].range \cap (claimed \ claimed') \cap Missing' = {}
    PROVE  ClaimsApart'
<1>1. /\ Cardinality(Missing) \in Nat /\ Cardinality(Missing') \in Nat
      /\ Cardinality(Missing') <= Cardinality(Missing)
  <2>1. IsFiniteSet(Missing) /\ Cardinality(Missing) \in Nat
    BY MissingFinite DEF TransferInv, FetchTypes
  <2> HIDE DEF Missing
  <2> QED BY <2>1, FS_Subset, FS_CardinalityType
<1>2. CASE Cardinality(Missing) <= maxWorkers
  BY <1>1, <1>2, WorkersCounted DEF ClaimsApart
<1>3. CASE ~(Cardinality(Missing) <= maxWorkers)
  <2> SUFFICES ASSUME NEW v \in Thread, worker'[v].pc = "fetch"
               PROVE  /\ worker'[v].range \cap Missing' \subseteq claimed'
                      /\ \A w \in Thread : w # v /\ worker'[w].pc = "fetch" =>
                            worker'[v].range \cap worker'[w].range = {}
    BY DEF ClaimsApart
  <2>1. /\ worker[v].pc = "fetch" /\ worker'[v].range = worker[v].range
        /\ worker[v].range \cap (claimed \ claimed') \cap Missing' = {}
    BY <1>3
  <2>2. worker[v].range \cap Missing \subseteq claimed
    BY <1>3, <2>1 DEF TransferInv, ClaimsApart
  <2> HIDE DEF Missing
  <2>3. worker'[v].range \cap Missing' \subseteq claimed'
    BY <2>1, <2>2
  <2>4. ASSUME NEW w \in Thread, w # v, worker'[w].pc = "fetch"
        PROVE  worker'[v].range \cap worker'[w].range = {}
    <3>1. worker[w].pc = "fetch" /\ worker'[w].range = worker[w].range
      BY <2>4
    <3> QED BY <1>3, <2>1, <2>4, <3>1 DEF TransferInv, ClaimsApart
  <2> QED BY <2>3, <2>4
<1> QED BY <1>2, <1>3

\* The same for a step that touches no piece and ends the fetch of one worker.
LEMMA FetchEnds ==
    ASSUME TransferInv, NEW w \in Thread,
           NEW r, r.pc # "fetch", {"pc", "src", "range", "got"} \subseteq DOMAIN r,
           UNCHANGED <<bitmap, bitmapFile, meta, total, unprobed, phase>>,
           worker' = [worker EXCEPT ![w] = r],
           \/ worker[w].pc = "fetch" /\ claimed \ worker[w].range \subseteq claimed'
           \/ claimed \subseteq claimed'
           \/ Cardinality(Missing) <= maxWorkers
    PROVE  TransferInv'
<1>1. Missing' = Missing
  BY DEF Missing, Pieces
<1>2. /\ DOMAIN worker' = Thread /\ worker'[w] = r
      /\ \A v \in Thread \ {w} : worker'[v] = worker[v]
  BY DEF TransferInv, FetchTypes
<1>3. FetchTypes' /\ FetchAtWork'
  BY <1>2 DEF TransferInv, FetchTypes, FetchAtWork
<1>4. ASSUME NEW v \in Thread, worker'[v].pc = "fetch"
      PROVE  /\ worker[v].pc = "fetch" /\ worker'[v].range = worker[v].range
             /\ \/ Cardinality(Missing) <= maxWorkers
                \/ worker[v].range \cap (claimed \ claimed') \cap Missing' = {}
  <2>1. v # w /\ worker[v].pc = "fetch" /\ worker'[v].range = worker[v].range
    BY <1>2, <1>4
  <2>2. CASE worker[w].pc = "fetch" /\ claimed \ worker[w].range \subseteq claimed'
    <3>1. \/ Cardinality(Missing) <= maxWorkers
          \/ worker[v].range \cap worker[w].range = {}
      BY <2>1, <2>2 DEF TransferInv, ClaimsApart
    <3> HIDE DEF Missing
    <3> QED BY <2>1, <2>2, <3>1
  <2> QED BY <2>1, <2>2
<1>5. bitmap' \in Seq(BOOLEAN)
  BY DEF TransferInv, FetchTypes
<1>6. ClaimsApart'
  <2> HIDE DEF TransferInv, ClaimsApart, Missing
  <2> QED BY <1>1, <1>4, <1>5, ClaimsKept
<1> QED BY <1>3, <1>6 DEF TransferInv

\* Steps that touch neither the pieces nor what a worker fetches, nor a claim.
LEMMA PoolOnly ==
    ASSUME TransferInv,
           UNCHANGED <<bitmap, bitmapFile, meta, total, unprobed, phase, claimed, worker>>
    PROVE  TransferInv'
<1>1. Missing' = Missing
  BY DEF Missing, Pieces
<1> QED BY <1>1 DEF TransferInv, FetchTypes, FetchAtWork, ClaimsApart

\* Nobody fetches: what was typed stays so.
LEMMA NobodyFetches ==
    ASSUME FetchTypes', \A t \in Thread : worker'[t].pc # "fetch"
    PROVE  TransferInv'
BY DEF TransferInv, FetchAtWork, ClaimsApart

\* A new bitmap is one.
LEMMA SizedType ==
    ASSUME bitmapFile \in Seq(BOOLEAN), NEW n \in Nat
    PROVE  Sized(n) \in Seq(BOOLEAN)
<1>1. [p \in 1..n |-> FALSE] \in Seq(BOOLEAN)
  OBVIOUS
<1> QED BY <1>1 DEF Sized

\* Nobody fetches when the workers start.
LEMMA StartedFresh ==
    \A n : /\ DOMAIN Started(n) = Thread
           /\ \A t \in Thread : /\ Started(n)[t].pc # "fetch"
                                /\ DOMAIN Started(n)[t] = {"pc", "src", "range", "got"}
BY DEF Started, Fresh, Gone

\* A worker that is not there fetches nothing.
LEMMA GoneIdle == Gone.pc = "done" /\ DOMAIN Gone = {"pc", "src", "range", "got"}
BY DEF Gone

\* Moving on changes the place of one worker.
LEMMA GoesTo ==
    ASSUME NEW w \in Thread, NEW pc, pc # "fetch", Goes(w, pc)
    PROVE  \E r : /\ worker' = [worker EXCEPT ![w] = r] /\ r.pc # "fetch"
                  /\ {"pc", "src", "range", "got"} \subseteq DOMAIN r
<1> DEFINE r == [Gone EXCEPT !.pc = pc]
<1>1. r.pc = pc /\ {"pc", "src", "range", "got"} \subseteq DOMAIN r
  BY GoneIdle
<1>2. worker' = [worker EXCEPT ![w] = r]
  BY DEF Goes
<1> HIDE DEF r
<1> QED BY <1>1, <1>2

\* So does having written a piece, or having some to write.
LEMMA HoldsThem ==
    ASSUME NEW w \in Thread, NEW got, Holds(w, got)
    PROVE  \E r : /\ worker' = [worker EXCEPT ![w] = r] /\ r.pc # "fetch"
                  /\ {"pc", "src", "range", "got"} \subseteq DOMAIN r
<1> DEFINE pc == IF got = <<>> THEN "loop" ELSE "write"
<1> DEFINE r == [Gone EXCEPT !.pc = pc, !.got = got]
<1>1. pc # "fetch"
  OBVIOUS
<1>2. worker' = [worker EXCEPT ![w] = r]
  BY DEF Holds
<1>3. r.pc = pc /\ {"pc", "src", "range", "got"} \subseteq DOMAIN r
  <2> HIDE DEF pc
  <2> QED BY GoneIdle
<1> HIDE DEF r, pc
<1> QED BY <1>1, <1>2, <1>3

\* Setting a bit removes a missing piece.
LEMMA BitSet ==
    ASSUME NEW bits \in Seq(BOOLEAN), NEW p
    PROVE  [bits EXCEPT ![p] = TRUE] \in Seq(BOOLEAN)
<1>1. Len(bits) \in Nat /\ bits \in [1..Len(bits) -> BOOLEAN]
  OBVIOUS
<1>2. [bits EXCEPT ![p] = TRUE] \in [1..Len(bits) -> BOOLEAN]
  BY <1>1
<1> QED BY <1>1, <1>2

\* The invariant holds before the first run.
LEMMA TransferInvInit == TransferInit => TransferInv
<1> SUFFICES ASSUME TransferInit PROVE TransferInv
  OBVIOUS
<1>1. FetchTypes
  BY GoneIdle DEF TransferInit, FetchTypes
<1>2. \A t \in Thread : worker[t].pc # "fetch"
  BY GoneIdle DEF TransferInit
<1> QED BY <1>1, <1>2 DEF TransferInv, FetchAtWork, ClaimsApart

\* What run() starts from, and what it leaves.
LEMMA RunSteps ==
    ASSUME TransferInv, Run \/ TopUp \/ Progress \/ Killed \/ Evict
    PROVE  TransferInv'
<1> USE DEF FetchTypes
<1>0. FetchTypes /\ FetchAtWork
  BY DEF TransferInv
<1>1. ASSUME phase # "work", NEW t \in Thread PROVE worker[t].pc # "fetch"
  BY <1>0, <1>1 DEF FetchAtWork
<1>2. CASE Run
  <2>1. FetchTypes'
    <3>1. Size \in Nat /\ Seeded \subseteq Source /\ Dht \subseteq Source
      BY TransferAssumption
    <3> QED BY <1>0, <1>2, <3>1 DEF Run, disk, search
  <2> QED BY <1>1, <1>2, <2>1, NobodyFetches DEF Run
<1>3. CASE TopUp
  BY <1>3, PoolOnly DEF TopUp, disk, search
<1>4. CASE Forget /\ UNCHANGED <<bitmapFile, meta>>
  <2>1. FetchTypes'
    BY <1>0, <1>4, GoneIdle DEF Forget
  <2> QED BY <1>4, <2>1, GoneIdle, NobodyFetches DEF Forget
<1>5. CASE Open
  <2>1. FetchTypes'
    BY <1>0, <1>5, StartedFresh, SizedType DEF Open, openPartialAndBitmap, search
  <2> QED BY <1>5, <2>1, StartedFresh, NobodyFetches DEF Open
<1>6. CASE Probe
  <2>1. PICK s \in unprobed :
          \/ /\ total' \in Claim[s]
             /\ openPartialAndBitmap(total')
             /\ \E b \in {"good", "bad"} :
                   worker' = [worker EXCEPT ![Main].pc = "write", ![Main].got = <<b>>]
          \/ UNCHANGED <<total, partial, bitmapFile, bitmap, worker>>
    BY <1>6 DEF Probe
  <2>2. meta' = meta /\ unprobed' \subseteq unprobed /\ phase # "work"
    BY <1>6 DEF Probe
  <2>3. CASE UNCHANGED <<total, partial, bitmapFile, bitmap, worker>>
    <3>1. FetchTypes'
      BY <1>0, <2>2, <2>3
    <3> QED BY <1>1, <2>2, <2>3, <3>1, NobodyFetches
  <2>4. CASE /\ total' \in Claim[s]
             /\ openPartialAndBitmap(total')
             /\ \E b \in {"good", "bad"} :
                   worker' = [worker EXCEPT ![Main].pc = "write", ![Main].got = <<b>>]
    <3>1. s \in Source => Claim[s] \subseteq Nat
      BY TransferAssumption
    <3>2. total' \in Nat
      BY <2>1, <2>4, <3>1 DEF TransferInv
    <3>3. PICK b : worker' = [worker EXCEPT ![Main].pc = "write", ![Main].got = <<b>>]
      BY <2>4
    <3>4. /\ DOMAIN worker' = Thread
          /\ \A t \in Thread : /\ worker'[t].pc # "fetch"
                               /\ {"pc", "src", "range", "got"} \subseteq DOMAIN worker'[t]
      BY <1>0, <1>1, <2>2, <3>3
    <3>5. FetchTypes'
      BY <1>0, <2>2, <2>4, <3>2, <3>4, SizedType DEF openPartialAndBitmap
    <3> QED BY <3>4, <3>5, NobodyFetches
  <2> QED BY <2>1, <2>3, <2>4
<1>7. CASE ProbeFailed
  BY <1>4, <1>7 DEF ProbeFailed, disk, search
<1>8. CASE Probed
  <2>1. FetchTypes'
    BY <1>0, <1>8, StartedFresh DEF Probed
  <2> QED BY <1>8, <2>1, StartedFresh, NobodyFetches DEF Probed
<1>15. CASE ProbeOver
  <2>1. FetchTypes'
    BY <1>0, <1>15, StartedFresh DEF ProbeOver, disk, search
  <2> QED BY <1>15, <2>1, StartedFresh, NobodyFetches DEF ProbeOver
<1>16. CASE ProbeNext
  <2>1. FetchTypes'
    BY <1>0, <1>16 DEF ProbeNext, disk, search
  <2> QED BY <1>1, <1>16, <2>1, NobodyFetches DEF ProbeNext
<1>9. CASE Joined
  <2>1. CASE terminal
    BY <1>4, <1>9, <2>1 DEF Joined, disk, search
  <2>2. CASE ~terminal
    <3>1. \A t \in Thread : worker[t].pc # "fetch"
      BY <1>0, <1>9 DEF Joined, FetchAtWork
    <3>2. FetchTypes'
      BY <1>0, <1>9, <2>2 DEF Joined, disk, search
    <3> QED BY <1>9, <2>2, <3>1, <3>2, NobodyFetches DEF Joined
  <2> QED BY <2>1, <2>2
<1>10. CASE Verify
  <2>1. FetchTypes'
    BY <1>0, <1>10 DEF Verify, search
  <2> QED BY <1>1, <1>10, <2>1, NobodyFetches DEF Verify
<1>11. CASE WipeBitmap
  <2>1. FetchTypes'
    BY <1>0, <1>11 DEF WipeBitmap, search
  <2> QED BY <1>1, <1>11, <2>1, NobodyFetches DEF WipeBitmap
<1>12. CASE WipeMeta
  <2>1. FetchTypes'
    BY <1>0, <1>12, GoneIdle DEF WipeMeta, Forget
  <2> QED BY <1>12, <2>1, GoneIdle, NobodyFetches DEF WipeMeta, Forget
<1>13. CASE Killed
  BY <1>4, <1>13 DEF Killed, disk, search
<1>14. CASE Evict
  BY <1>14, PoolOnly DEF Evict, search
<1> QED
  BY <1>2, <1>3, <1>5, <1>6, <1>7, <1>8, <1>9, <1>10, <1>11, <1>12, <1>13, <1>14, <1>15,
     <1>16 DEF Progress

-----------------------------------------------------------------------------
(***************************************************************************)
(* The workers.                                                            *)
(***************************************************************************)
LEMMA FetchStep ==
    ASSUME TransferInv, NEW w \in Worker, Fetch(w)
    PROVE  TransferInv'
<1>0. w \in Thread /\ phase = "work" /\ worker[w].pc = "loop" /\ DOMAIN worker = Thread
  BY DEF Fetch, Idle, Thread, TransferInv, FetchTypes
<1> DEFINE R == claimNextRange
<1>1. /\ R # {} /\ claimed' = claimed \cup R
      /\ UNCHANGED <<bitmap, bitmapFile, meta, total, unprobed, phase>>
  BY DEF Fetch, disk, search
<1>2. PICK s : worker' = [worker EXCEPT ![w] =
                 [pc |-> "fetch", src |-> s, range |-> R, got |-> <<>>]]
  BY DEF Fetch
<1> HIDE DEF R
<1>3. /\ DOMAIN worker' = Thread
      /\ {"pc", "src", "range", "got"} \subseteq DOMAIN worker'[w]
      /\ worker'[w].pc = "fetch" /\ worker'[w].range = R
      /\ \A v \in Thread \ {w} : worker'[v] = worker[v]
  BY <1>0, <1>2
<1>4. FetchTypes' /\ FetchAtWork'
  BY <1>0, <1>1, <1>3 DEF TransferInv, FetchTypes, FetchAtWork
<1>5. Missing' = Missing
  BY <1>1 DEF Missing, Pieces
<1>6. Cardinality(Missing) <= maxWorkers \/ R \subseteq Missing \ claimed
  BY <1>1 DEF R, claimNextRange, RunFrom, Free
<1>7. ASSUME ~(Cardinality(Missing) <= maxWorkers), NEW v \in Thread, worker'[v].pc = "fetch"
      PROVE  /\ worker'[v].range \cap Missing \subseteq claimed'
             /\ \A u \in Thread : u # v /\ worker'[u].pc = "fetch" =>
                   worker'[v].range \cap worker'[u].range = {}
  <2> HIDE DEF Missing
  <2>1. \A u \in Thread \ {w} : worker'[u].pc = "fetch" =>
           /\ worker'[u].range = worker[u].range
           /\ worker[u].range \cap Missing \subseteq claimed
           /\ worker[u].range \cap R = {}
    BY <1>3, <1>6, <1>7 DEF TransferInv, ClaimsApart
  <2>2. ASSUME NEW u \in Thread, u # v, u # w, v # w, worker'[u].pc = "fetch"
        PROVE  worker'[v].range \cap worker'[u].range = {}
    BY <1>3, <1>7, <2>2 DEF TransferInv, ClaimsApart
  <2> QED BY <1>1, <1>3, <1>7, <2>1, <2>2
<1>8. ClaimsApart'
  BY <1>5, <1>7 DEF ClaimsApart
<1> QED BY <1>4, <1>8 DEF TransferInv

\* What a worker does but claiming and writing.
LEMMA WorkerSteps ==
    ASSUME TransferInv, NEW w \in Worker, Step(w) \/ Outcome(w)
    PROVE  TransferInv'
<1>0. w \in Thread
  BY DEF Thread
<1>1. ASSUME NEW pc, pc # "fetch", Goes(w, pc),
             UNCHANGED <<bitmap, bitmapFile, meta, total, unprobed, phase>>,
             \/ worker[w].pc = "fetch" /\ releaseRange(w)
             \/ claimed' = claimed
             \/ Cardinality(Missing) <= maxWorkers
      PROVE  TransferInv'
  <2>1. PICK r : /\ worker' = [worker EXCEPT ![w] = r] /\ r.pc # "fetch"
                 /\ {"pc", "src", "range", "got"} \subseteq DOMAIN r
    BY <1>0, <1>1, GoesTo
  <2>2. \/ worker[w].pc = "fetch" /\ claimed \ worker[w].range \subseteq claimed'
        \/ claimed \subseteq claimed'
        \/ Cardinality(Missing) <= maxWorkers
    BY <1>1 DEF releaseRange
  <2> HIDE DEF TransferInv, Missing
  <2> QED BY <1>0, <1>1, <2>1, <2>2, FetchEnds
<1>2. ASSUME Free # {} PROVE claimed \ claimNextRange = claimed
  BY <1>2 DEF claimNextRange, RunFrom, Free
<1>3. ASSUME Free = {} PROVE Cardinality(Missing) <= maxWorkers \/ claimNextRange = {}
  BY <1>3 DEF claimNextRange
<1>4. CASE Leave(w)
  BY <1>1, <1>4 DEF Leave, disk, search
<1>5. CASE Fetch(w)
  BY <1>5, FetchStep
<1>6. CASE Unsourced(w)
  <2>1. Cardinality(Missing) <= maxWorkers
    BY <1>2, <1>3, <1>6 DEF Unsourced
  <2>2. UNCHANGED <<bitmap, bitmapFile, meta, total, unprobed, phase, worker>>
    BY <1>6 DEF Unsourced, disk, search
  <2>3. Missing' = Missing
    BY <2>2 DEF Missing, Pieces
  <2> QED BY <2>1, <2>2, <2>3 DEF TransferInv, FetchTypes, FetchAtWork, ClaimsApart
<1>7. CASE Refill(w)
  <2>1. claimed' = claimed \/ Cardinality(Missing) <= maxWorkers
    BY <1>2, <1>3, <1>7 DEF Refill
  <2> QED BY <1>1, <1>7, <2>1 DEF Refill, disk, search
<1>8. CASE Refilled(w)
  <2>1. PICK pc \in {"done", "loop"} : Goes(w, pc)
    BY <1>8 DEF Refilled
  <2> QED BY <1>1, <1>8, <2>1 DEF Refilled, disk, search
<1>9. CASE Signalled(w)
  BY <1>1, <1>9 DEF Signalled, Settles, disk, search
<1>10. CASE Answer(w)
  <2>1. PICK r : /\ worker' = [worker EXCEPT ![w] = r] /\ r.pc # "fetch"
                 /\ {"pc", "src", "range", "got"} \subseteq DOMAIN r
    <3>1. PICK got : Holds(w, got)
      BY <1>10 DEF Answer
    <3> QED BY <1>0, <3>1, HoldsThem
  <2>2. /\ UNCHANGED <<bitmap, bitmapFile, meta, total, unprobed, phase>>
        /\ claimed' = claimed
    BY <1>10 DEF Answer, Settles, disk, search
  <2> HIDE DEF TransferInv, Missing
  <2> QED BY <1>0, <2>1, <2>2, FetchEnds
<1>11. CASE Stall(w)
  BY <1>1, <1>11 DEF Stall, Settles, disk, search
<1>12. CASE Violates(w)
  BY <1>1, <1>12 DEF Violates, Settles, disk, search
<1>13. CASE Breaks(w)
  BY <1>1, <1>13 DEF Breaks, Settles, disk, search
<1> QED
  BY <1>4, <1>5, <1>6, <1>7, <1>8, <1>9, <1>10, <1>11, <1>12, <1>13 DEF Step, Outcome

\* A piece written is no longer missing, so its claim may go.
LEMMA WriteSteps ==
    ASSUME TransferInv, NEW t \in Thread, Write(t) \/ WriteFails(t)
    PROVE  TransferInv'
<1>0. DOMAIN worker = Thread /\ {"pc", "src", "range", "got"} \subseteq DOMAIN worker[t]
  BY DEF TransferInv, FetchTypes
<1>1. ASSUME worker[t].pc # "fetch", FetchTypes', phase' = phase, Missing' \subseteq Missing,
             worker'[t].pc # "fetch", \A v \in Thread \ {t} : worker'[v] = worker[v],
             (claimed \ claimed') \cap Missing' = {}
      PROVE  TransferInv'
  <2>1. FetchAtWork'
    BY <1>1 DEF TransferInv, FetchAtWork
  <2>2. \A v \in Thread : worker'[v].pc = "fetch" =>
              /\ worker[v].pc = "fetch" /\ worker'[v].range = worker[v].range
              /\ worker[v].range \cap (claimed \ claimed') \cap Missing' = {}
    BY <1>1
  <2>3. bitmap' \in Seq(BOOLEAN)
    BY <1>1 DEF FetchTypes
  <2>4. ClaimsApart'
    <3> HIDE DEF TransferInv, ClaimsApart, Missing
    <3> QED BY <1>1, <2>2, <2>3, ClaimsKept
  <2> QED BY <1>1, <2>1, <2>4 DEF TransferInv
<1>2. ASSUME UNCHANGED bitmap PROVE Missing' = Missing
  BY <1>2 DEF Missing, Pieces
<1>3. CASE WriteSkipped(t)
  <2>1. UNCHANGED <<bitmap, bitmapFile, meta, total, unprobed, phase>>
    BY <1>3 DEF WriteSkipped, disk, search
  <2>2. worker[t].pc = "write"
    BY <1>3 DEF WriteSkipped, Writing
  <2>3. /\ worker'[t].pc # "fetch" /\ \A v \in Thread \ {t} : worker'[v] = worker[v]
        /\ DOMAIN worker' = Thread
        /\ {"pc", "src", "range", "got"} \subseteq DOMAIN worker'[t]
    <3>1. PICK got : Holds(t, got)
      BY <1>3 DEF WriteSkipped
    <3>2. PICK r : /\ worker' = [worker EXCEPT ![t] = r] /\ r.pc # "fetch"
                   /\ {"pc", "src", "range", "got"} \subseteq DOMAIN r
      BY <3>1, HoldsThem
    <3> QED BY <1>0, <3>2
  <2>4. FetchTypes'
    BY <2>1, <2>3 DEF TransferInv, FetchTypes
  <2>5. (claimed \ claimed') \cap Missing = {}
    BY <1>3 DEF WriteSkipped, Missing
  <2> QED BY <1>1, <1>2, <2>1, <2>2, <2>3, <2>4, <2>5
<1>4. CASE WriteBytes(t)
  <2>1. UNCHANGED <<bitmap, bitmapFile, meta, total, unprobed, phase, claimed>>
    BY <1>4 DEF WriteBytes, search
  <2>2. worker[t].pc = "write" /\ worker' = [worker EXCEPT ![t].pc = "bit"]
    BY <1>4 DEF WriteBytes, Writing
  <2>3. /\ worker'[t].pc = "bit" /\ \A v \in Thread \ {t} : worker'[v] = worker[v]
        /\ DOMAIN worker' = Thread
        /\ {"pc", "src", "range", "got"} \subseteq DOMAIN worker'[t]
    BY <1>0, <2>2
  <2>4. FetchTypes'
    BY <2>1, <2>3 DEF TransferInv, FetchTypes
  <2> QED BY <1>1, <1>2, <2>1, <2>2, <2>3, <2>4
<1>5. CASE WriteBit(t)
  <2>1. /\ UNCHANGED <<meta, total, unprobed, phase>>
        /\ claimed' = claimed \ {Head1(t)}
        /\ bitmap' = [bitmap EXCEPT ![Head1(t)] = TRUE]
        /\ bitmapFile' = [bitmapFile EXCEPT ![Head1(t)] = TRUE]
        /\ worker[t].pc = "bit"
    BY <1>5 DEF WriteBit, search
  <2>2. bitmap' \in Seq(BOOLEAN) /\ bitmapFile' \in Seq(BOOLEAN)
    BY <2>1, BitSet DEF TransferInv, FetchTypes
  <2>3. Missing' \subseteq Missing \ {Head1(t)}
    BY <2>1 DEF Missing, Pieces, TransferInv, FetchTypes
  <2>4. /\ worker'[t].pc # "fetch" /\ \A v \in Thread \ {t} : worker'[v] = worker[v]
        /\ DOMAIN worker' = Thread
        /\ {"pc", "src", "range", "got"} \subseteq DOMAIN worker'[t]
    <3>1. PICK got : Holds(t, got)
      BY <1>5 DEF WriteBit
    <3>2. PICK r : /\ worker' = [worker EXCEPT ![t] = r] /\ r.pc # "fetch"
                   /\ {"pc", "src", "range", "got"} \subseteq DOMAIN r
      BY <3>1, HoldsThem
    <3> QED BY <1>0, <3>2
  <2>5. FetchTypes'
    BY <2>1, <2>2, <2>4 DEF TransferInv, FetchTypes
  <2>6. (claimed \ claimed') \cap Missing' = {}
    <3> HIDE DEF Missing
    <3> QED BY <2>1, <2>3
  <2> QED BY <1>1, <2>1, <2>3, <2>4, <2>5, <2>6
<1>6. ASSUME NEW pc, pc # "fetch", Goes(t, pc),
             UNCHANGED <<bitmap, bitmapFile, meta, total, unprobed, phase, claimed>>
      PROVE  TransferInv'
  <2>1. PICK r : /\ worker' = [worker EXCEPT ![t] = r] /\ r.pc # "fetch"
                 /\ {"pc", "src", "range", "got"} \subseteq DOMAIN r
    BY <1>6, GoesTo
  <2> HIDE DEF TransferInv, Missing
  <2> QED BY <1>6, <2>1, FetchEnds
<1>8. CASE WriteFails(t)
  <2>1. /\ Goes(t, "done")
        /\ UNCHANGED <<bitmap, bitmapFile, meta, total, unprobed, claimed>>
        /\ phase' = phase \/ (phase = "probed" /\ phase' = "next")
    BY <1>8 DEF WriteFails, disk, search
  <2>2. CASE phase' = phase
    BY <1>6, <2>1, <2>2
  <2>3. CASE phase = "probed"
    <3>1. PICK r : /\ worker' = [worker EXCEPT ![t] = r] /\ r.pc # "fetch"
                   /\ {"pc", "src", "range", "got"} \subseteq DOMAIN r
      BY <2>1, GoesTo
    <3>2. FetchTypes'
      BY <2>1, <3>1 DEF TransferInv, FetchTypes
    <3>3. \A v \in Thread : worker'[v].pc # "fetch"
      BY <1>0, <2>3, <3>1 DEF TransferInv, FetchAtWork
    <3> QED BY <3>2, <3>3, NobodyFetches
  <2> QED BY <2>1, <2>2, <2>3
<1> QED BY <1>3, <1>4, <1>5, <1>8 DEF Write

-----------------------------------------------------------------------------
\* Every step of a download.
LEMMA TransferInvStep == TransferInv /\ [TransferNext]_transferVars => TransferInv'
<1> SUFFICES ASSUME TransferInv, [TransferNext]_transferVars PROVE TransferInv'
  OBVIOUS
<1>1. ASSUME NEW s \in Source, Cooled(s) PROVE TransferInv'
  BY <1>1, PoolOnly DEF Cooled, disk, search
<1>2. CASE UNCHANGED transferVars
  BY <1>2, PoolOnly DEF transferVars, disk, search
<1> QED BY <1>1, <1>2, RunSteps, WorkerSteps, WriteSteps DEF TransferNext

\* Two workers never fetch one piece before the tail of the download.
THEOREM DupAlwaysTail == TransferSpec => []DupOnlyTail
<1>1. TransferInv => DupOnlyTail
  BY DEF TransferInv, ClaimsApart, DupOnlyTail, Thread
<1> QED BY <1>1, TransferInvInit, TransferInvStep, PTL DEF TransferSpec

=============================================================================
