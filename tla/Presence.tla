------------------------------ MODULE Presence ------------------------------
(***************************************************************************)
(* Wallet presence: players sign presence.hello about every 30 seconds and *)
(* presence.bye when they leave; a full node lists a wallet's songs while  *)
(* the wallet's last accepted hello is younger than TTL.  Requests pass    *)
(* through relays and a pool of workers, so they arrive late, twice and in *)
(* any order; a request on the way stays in `net` for ever, and what makes *)
(* an old one harmless is the node's own check.                            *)
(*                                                                         *)
(* Sources: bopwire/src/api/rats_api.cpp (presence verbs, disconnect, the  *)
(* prune thread), bopwire_player/lib/src/services/presence_publisher.dart. *)
(***************************************************************************)
EXTENDS Integers, FiniteSets

CONSTANTS
    Wallets, Peers,
    Fast,       \* devices whose clock runs one unit ahead of the node's
    SKEW,       \* kPresenceHelloSkewMs, in units of a minute
    TTL,        \* kPresenceTtlMs
    REAP,       \* kPresenceReapMs
    Ticks,      \* bound: how long a behaviour lasts
    MaxMoves,   \* bound: wallet switches, disconnects and restarts
    MaxSigned   \* bound: requests signed

ASSUME PresenceAssumption ==
    /\ SKEW \in Nat /\ TTL \in Nat /\ REAP \in Nat /\ REAP >= TTL
    /\ Fast \subseteq Peers

\* The clock counts from 1970: a last_verified_ms of 0 is older than any window.
Begin == REAP
None == "none"
Unbound == [peer |-> None, verified |-> 0, ts |-> 0]

VARIABLES
    now,        \* the node's clock
    bind,       \* wallet_to_peer_
    rev,        \* peer_to_wallet_player_
    dev,        \* a device: its wallet, its timer, the announce and goodbye under way
    net,        \* signed requests on the way
    signed,     \* ghost: when a device of the wallet last signed a hello
    byed,       \* ghost: the largest ts of a bye the node accepted
    moves

presenceVars == <<now, bind, rev, dev, net, signed, byed, moves>>

\* ann, bye: the wallet an announce or a goodbye under way began with, or None.
Device == [wallet : Wallets, beat : BOOLEAN, ann : Wallets \union {None},
           bye : Wallets \union {None}]

PresenceInit ==
    /\ now = Begin
    /\ bind = [w \in Wallets |-> Unbound]
    /\ rev = [p \in Peers |-> None]
    /\ dev \in [Peers -> {d \in Device : d.beat /\ d.ann = None /\ d.bye = None}]
    /\ net = {} /\ moves = 0
    /\ signed = [w \in Wallets |-> 0] /\ byed = [w \in Wallets |-> 0]

-----------------------------------------------------------------------------
(* The player *)

Clock(p) == IF p \in Fast THEN now + 1 ELSE now

\* The timer fires: announce() reads the wallet and awaits the home node's id.
beat(p) ==
    /\ dev[p].beat /\ dev[p].ann = None
    /\ dev' = [dev EXCEPT ![p].ann = dev[p].wallet]
    /\ UNCHANGED <<now, bind, rev, net, signed, byed, moves>>

\* The wait is over: stamp, sign with the key that is open now, send.  Under
\* another wallet's key the signature does not verify: as good as not sent.
announce(p) ==
    /\ dev[p].ann # None /\ Cardinality(net) < MaxSigned
    /\ LET w == dev[p].ann
       IN IF w = dev[p].wallet
          THEN /\ net' = net \union {[k |-> "hello", w |-> w, p |-> p, ts |-> Clock(p)]}
               /\ signed' = [signed EXCEPT ![w] = now]
          ELSE UNCHANGED <<net, signed>>
    /\ dev' = [dev EXCEPT ![p].ann = None]
    /\ UNCHANGED <<now, bind, rev, byed, moves>>

\* goodbye(): the timer is cancelled at once, then the home node's id awaited.
goodbye(p) ==
    /\ dev[p].beat
    /\ dev' = [dev EXCEPT ![p].beat = FALSE, ![p].bye = dev[p].wallet]
    /\ UNCHANGED <<now, bind, rev, net, signed, byed, moves>>

withdraw(p) ==
    /\ dev[p].bye # None /\ Cardinality(net) < MaxSigned
    /\ net' = IF dev[p].bye # dev[p].wallet THEN net
              ELSE net \union {[k |-> "bye", w |-> dev[p].bye, p |-> p, ts |-> Clock(p)]}
    /\ dev' = [dev EXCEPT ![p].bye = None]
    /\ UNCHANGED <<now, bind, rev, signed, byed, moves>>

\* A reconnect starts the timer again.
startHeartbeat(p) ==
    /\ ~dev[p].beat
    /\ dev' = [dev EXCEPT ![p].beat = TRUE]
    /\ UNCHANGED <<now, bind, rev, net, signed, byed, moves>>

\* The user opens another wallet on the same device.
switchWallet(p, w) ==
    /\ moves < MaxMoves /\ moves' = moves + 1
    /\ w # dev[p].wallet
    /\ dev' = [dev EXCEPT ![p].wallet = w]
    /\ UNCHANGED <<now, bind, rev, net, signed, byed>>

-----------------------------------------------------------------------------
(* The node *)

\* What a bug would do: the signed time is not compared with the clock.
Unskewed(m) == FALSE

\* Signed too long ago, or too far ahead, by the node's clock.
Skewed(m) == now - m.ts > SKEW \/ m.ts - now > SKEW

Bound(w) == bind[w] # Unbound

\* The reverse entry of the peer a wallet leaves is dropped.
Forget(r, p) == [q \in Peers |-> IF q = p THEN None ELSE r[q]]

\* Accepted when fresh and newer than the last one accepted for the wallet.
presence_hello(m) ==
    /\ m \in net /\ m.k = "hello" /\ ~Skewed(m)
    /\ Bound(m.w) => m.ts > bind[m.w].ts
    /\ rev' = [Forget(rev, bind[m.w].peer) EXCEPT ![m.p] = m.w]
    /\ bind' = [bind EXCEPT ![m.w] = [peer |-> m.p, verified |-> now, ts |-> m.ts]]
    /\ UNCHANGED <<now, dev, net, signed, byed, moves>>

\* Nothing bound is a success too; a binding is kept, out of every window.
presence_bye(m) ==
    /\ m \in net /\ m.k = "bye" /\ ~Skewed(m)
    /\ Bound(m.w) => m.ts > bind[m.w].ts
    /\ byed' = [byed EXCEPT ![m.w] = IF m.ts > @ THEN m.ts ELSE @]
    /\ IF Bound(m.w)
       THEN /\ rev' = Forget(rev, bind[m.w].peer)
            /\ bind' = [bind EXCEPT ![m.w].verified = 0, ![m.w].ts = m.ts]
       ELSE UNCHANGED <<rev, bind>>
    /\ UNCHANGED <<now, dev, net, signed, moves>>

\* A direct peer's transport drops.
on_peer_disconnected(p) ==
    /\ moves < MaxMoves /\ moves' = moves + 1
    /\ bind' = [w \in Wallets |-> IF rev[p] = w /\ bind[w].peer = p THEN Unbound ELSE bind[w]]
    /\ rev' = Forget(rev, p)
    /\ UNCHANGED <<now, dev, net, signed, byed>>

Dead(w) == Bound(w) /\ now - bind[w].verified >= REAP

\* The prune thread's pass over the bindings.
prune ==
    /\ \E w \in Wallets : Dead(w)
    /\ rev' = [p \in Peers |-> IF \E w \in Wallets : Dead(w) /\ bind[w].peer = p THEN None ELSE rev[p]]
    /\ bind' = [w \in Wallets |-> IF Dead(w) THEN Unbound ELSE bind[w]]
    /\ UNCHANGED <<now, dev, net, signed, byed, moves>>

\* The maps are only in memory.
Restart ==
    /\ moves < MaxMoves /\ moves' = moves + 1
    /\ bind' = [w \in Wallets |-> Unbound] /\ rev' = [p \in Peers |-> None]
    /\ UNCHANGED <<now, dev, net, signed, byed>>

Tick ==
    /\ now < Begin + Ticks
    /\ now' = now + 1
    /\ UNCHANGED <<bind, rev, dev, net, signed, byed, moves>>

PresenceNext ==
    \/ \E p \in Peers : beat(p) \/ announce(p) \/ goodbye(p) \/ withdraw(p)
                        \/ startHeartbeat(p) \/ on_peer_disconnected(p)
    \/ \E p \in Peers, w \in Wallets : switchWallet(p, w)
    \/ \E m \in net : presence_hello(m) \/ presence_bye(m)
    \/ prune \/ Restart \/ Tick

PresenceSpec == PresenceInit /\ [][PresenceNext]_presenceVars

\* live_wallets_ and online_peers_for_song_.
Live(w) == Bound(w) /\ now - bind[w].verified < TTL

-----------------------------------------------------------------------------
(* Properties *)

\* Whatever is delayed, replayed or forgotten by a restart, a wallet none of
\* whose devices signs any more leaves discovery within the skew and the TTL
\* (and what the device's clock runs ahead).
DepartedFallsOut ==
    \A w \in Wallets : Live(w) => now - signed[w] < SKEW + TTL + 1

\* "per-wallet monotonicity still blocks a replayed hello from resurrecting the
\* binding": after an accepted bye only a hello signed later lists the wallet.
ByeHolds ==
    \A w \in Wallets : Live(w) => bind[w].ts > byed[w]

\* "peer_to_wallet_player_ stays 1:1 with live bindings".
ReverseExact ==
    \A w \in Wallets : Live(w) => rev[bind[w].peer] = w
=============================================================================
