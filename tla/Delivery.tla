------------------------------ MODULE Delivery ------------------------------
(***************************************************************************)
(* Delivery triangulation: RatsApi mints a delivery for each stream it     *)
(* brokers, a mini node reports what it relayed and from whom, a player    *)
(* acknowledges the receipt, and once the three legs agree the pending row *)
(* (pd:) becomes the resolution row (dr:) that play sessions read their    *)
(* reward lanes from.                                                      *)
(*                                                                         *)
(* A leg reads the row and writes it back under pd_mu_, with rmw as the    *)
(* holder of that mutex between the two; whoever deletes a row without     *)
(* the mutex may fall in between.  Signatures are taken as valid, and a    *)
(* wallet stands for its key.  Byte counts are left out but for a report   *)
(* that attests a seeder, which has a positive one.                        *)
(***************************************************************************)
EXTENDS Naturals, FiniteSets

CONSTANTS
    Peers, Wallets, Minis, Songs, Deliveries,
    Holders,        \* song -> wallets whose library publishes it
    Online,         \* the bindings the model starts from
    MaxChanges,     \* how often they change
    None

ASSUME DeliveryAssumption ==
    /\ Holders \in [Songs -> SUBSET Wallets]
    /\ Online \in [Peers -> Wallets \cup {None}]
    /\ MaxChanges \in Nat
    /\ Wallets \cap Minis = {}
    /\ None \notin Wallets \cup Minis \cup Peers \cup Deliveries

VARIABLES
    bound,      \* peer_to_wallet_player_: peer -> wallet or None
    pd, dr,     \* delivery -> row or None
    minted,     \* delivery ids handed out; they are random, never reused
    rmw,        \* the leg that holds pd_mu_, or None
    changes,    \* of bound, so far
    witnessed   \* history: what reports made of a delivery

deliveryVars == <<bound, pd, dr, minted, rmw, changes, witnessed>>

Legs == {"brokered", "reported", "receipted"}
Row == [ch : Songs, lw : Wallets \cup {None}, cand : SUBSET Wallets,
        sd : Wallets \cup {None}, mw : Minis \cup {None},
        legs : SUBSET Legs]
Leg == [did : Deliveries, row : Row]
Witness == [did : Deliveries, song : Songs, listener : Wallets \cup {None},
            seeder : Wallets \cup {None}, mini : Minis]

DeliveryInit ==
    /\ bound = Online
    /\ changes = 0
    /\ pd = [d \in Deliveries |-> None]
    /\ dr = [d \in Deliveries |-> None]
    /\ minted = {}
    /\ rmw = None
    /\ witnessed = {}

DeliveryTypeOK ==
    /\ bound \in [Peers -> Wallets \cup {None}]
    /\ pd \in [Deliveries -> Row \cup {None}]
    /\ dr \in [Deliveries -> Row \cup {None}]
    /\ minted \subseteq Deliveries
    /\ changes \in 0..MaxChanges
    /\ rmw \in Leg \cup {None}
    /\ witnessed \subseteq Witness

-----------------------------------------------------------------------------
(* Presence, as far as deliveries see it: a signed hello binds a peer to a *)
(* wallet, a goodbye, a disconnect or the reaper unbinds it.               *)

Hello(p, w) ==
    /\ bound[p] # w
    /\ changes < MaxChanges /\ changes' = changes + 1
    /\ bound' = [q \in Peers |-> IF q = p THEN w
                                 ELSE IF bound[q] = w THEN None ELSE bound[q]]
    /\ UNCHANGED <<pd, dr, minted, rmw, witnessed>>

Gone(p) ==
    /\ bound[p] # None
    /\ changes < MaxChanges /\ changes' = changes + 1
    /\ bound' = [bound EXCEPT ![p] = None]
    /\ UNCHANGED <<pd, dr, minted, rmw, witnessed>>

-----------------------------------------------------------------------------

online_peers_for_song(song) == {p \in Peers : bound[p] \in Holders[song]}

\* Who may seed and who listens is fixed here, from signed bindings.
mint_delivery(d, song, listener, peers) ==
    /\ d \notin minted
    /\ minted' = minted \cup {d}
    /\ pd' = [pd EXCEPT ![d] =
                [ch |-> song, lw |-> bound[listener],
                 cand |-> {bound[p] : p \in peers}, sd |-> None, mw |-> None,
                 legs |-> {"brokered"}]]
    /\ UNCHANGED <<bound, dr, rmw, changes, witnessed>>

\* stream.open: without a holder online nothing is minted.
StreamOpen(d, song, p) ==
    /\ online_peers_for_song(song) # {}
    /\ mint_delivery(d, song, p, online_peers_for_song(song))

\* The seeder a report names is kept only if it was a candidate when the
\* stream was opened, is bound to that wallet still, and is not the listener.
Attested(row, peer) ==
    IF /\ peer # None
       /\ bound[peer] \in row.cand
       /\ bound[peer] # row.lw
    THEN bound[peer] ELSE row.sd

\* relay.report up to the write: peer is None for a report that attests none.
RelayReport(d, mini, peer) ==
    /\ rmw = None
    /\ pd[d] # None
    /\ rmw' = [did |-> d,
               row |-> [pd[d] EXCEPT !.mw = mini,
                                     !.legs = @ \cup {"reported"},
                                     !.sd = Attested(pd[d], peer)]]
    /\ UNCHANGED <<bound, pd, dr, minted, changes, witnessed>>

\* relay.receipt up to the write; any player may sign it.
RelayReceipt(d, song) ==
    /\ rmw = None
    /\ pd[d] # None
    /\ pd[d].ch = song
    /\ rmw' = [did |-> d, row |-> [pd[d] EXCEPT !.legs = @ \cup {"receipted"}]]
    /\ UNCHANGED <<bound, pd, dr, minted, changes, witnessed>>

\* The write of either leg and try_corroborate: three legs retire the row.
LegWrite ==
    /\ rmw # None
    /\ LET d == rmw.did  row == rmw.row IN
        /\ IF row.legs = Legs
           THEN /\ pd' = [pd EXCEPT ![d] = None]
                /\ dr' = [dr EXCEPT ![d] = row]
           ELSE /\ pd' = [pd EXCEPT ![d] = row]
                /\ UNCHANGED dr
        /\ witnessed' = witnessed \cup
              (IF row.mw = None THEN {}
               ELSE {[did |-> d, song |-> row.ch, listener |-> row.lw,
                      seeder |-> row.sd, mini |-> row.mw]})
    /\ rmw' = None
    /\ UNCHANGED <<bound, minted, changes>>

\* kDeliveryTtlMs has passed for a delivery.  The sweep reads without pd_mu_,
\* then deletes under it what is still there and still old; created never
\* changes, so it is one step.
reap_stale_deliveries(d) ==
    /\ rmw = None
    /\ pd[d] # None \/ dr[d] # None
    /\ pd' = [pd EXCEPT ![d] = None]
    /\ dr' = [dr EXCEPT ![d] = None]
    /\ UNCHANGED <<bound, minted, rmw, changes, witnessed>>

DeliveryNext ==
    \/ \E p \in Peers, w \in Wallets : Hello(p, w)
    \/ \E p \in Peers : Gone(p)
    \/ \E d \in Deliveries, s \in Songs, p \in Peers : StreamOpen(d, s, p)
    \/ \E d \in Deliveries, m \in Minis, p \in Peers \cup {None} :
           RelayReport(d, m, p)
    \/ \E d \in Deliveries, s \in Songs : RelayReceipt(d, s)
    \/ LegWrite
    \/ \E d \in Deliveries : reap_stale_deliveries(d)

=============================================================================
