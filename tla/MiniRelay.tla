----------------------------- MODULE MiniRelay -----------------------------
(***************************************************************************)
(* The RPCs of a player to a peer it reaches only through mini nodes:      *)
(* RatsClient.request wraps it as relay.forward, fires it again on a       *)
(* timeout and fails over to the next mini node, while each mini node      *)
(* keeps the forward in g_pending_relays until the target answers, the     *)
(* sweep expires it or the player is gone.                                 *)
(*                                                                         *)
(* Timers are free: a timeout, a sweep or a backoff may come at any time   *)
(* and in any order.  Links end and come back at any time, some of the     *)
(* messages on them are lost, and each end hears of it when it does,       *)
(* possibly when the link is up again.  One call is made after the other;  *)
(* what one leaves behind cannot touch the next, whose ids are new.  For   *)
(* the same reason only the last of the attempts given up is followed.     *)
(***************************************************************************)
EXTENDS Naturals, FiniteSets

CONSTANTS
    Relay,          \* mini nodes
    kSendRetries,
    MaxFlaps,       \* bound: changes of links while something is under way
    NoReq

ASSUME RelayAssumption == kSendRetries \in Nat /\ MaxFlaps \in Nat

Id == Relay \X (0..kSendRetries)    \* req_id: the mini node asked, the attempt

VARIABLES
    call,           \* locals of request
    inFlight,       \* the entry of _pending, or NoReq
    dead,           \* this call has put the target into _deadPeers
    near, far, flaps,   \* mini nodes linked to the player, to the target; changes so far
    deaf, stale,    \* disconnects the player, or the mini node, has yet to handle
    pend,           \* g_pending_relays
    wire            \* messages under way

callVars == <<call, inFlight, dead>>
lineVars == <<near, far, flaps, deaf, stale>>
relayVars == <<callVars, lineVars, pend, wire>>

Ended == {"ok", "rejected", "failed"}

Failure == {"send_failed", "timeout", "dead_route", "relay_timeout"}

Message == [kind : {"forward", "inner", "answer"}, id : Id]
             \cup [kind : {"reply"}, id : Id,
                   status : {"answered", "dead_route", "relay_timeout"}]

RelayTypeOK ==
    /\ call \in [pc : {"idle", "next", "waiting", "backoff"} \cup Ended,
                 bulk : BOOLEAN, left : SUBSET Relay, at : Id \cup {NoReq},
                 err : Failure \cup {"none"}]
    /\ inFlight \in Id \cup {NoReq} /\ dead \in BOOLEAN
    /\ {near, far, deaf, stale} \subseteq SUBSET Relay
    /\ flaps \in 0..MaxFlaps
    /\ pend \in [Relay -> SUBSET Id]
    /\ wire \subseteq Message

Over(pc) == [pc |-> pc, bulk |-> FALSE, left |-> {}, at |-> NoReq,
             err |-> "none"]

RelayInit ==
    /\ call = Over("idle")
    /\ inFlight = NoReq /\ dead = FALSE
    /\ near = {} /\ far = {} /\ flaps = 0 /\ deaf = {} /\ stale = {}
    /\ pend = [m \in Relay |-> {}] /\ wire = {}

-----------------------------------------------------------------------------
(***************************************************************************)
(* The player.                                                             *)
(***************************************************************************)
\* What is left of the call when a mini node has failed it with err.
GiveUp(err) ==
    call' = [call EXCEPT !.pc = "next", !.err = err]

\* One attempt: a send over a link that is gone fails at once.  Of the attempts
\* given up, call.at is the last.
Fire(id) ==
    /\ call' = [call EXCEPT !.pc = IF id[1] \in near THEN "waiting" ELSE "next",
                            !.left = @ \ {id[1]}, !.at = id,
                            !.err = IF id[1] \in near THEN @ ELSE "send_failed"]
    /\ inFlight' = IF id[1] \in near THEN id ELSE NoReq
    /\ wire' = {d \in wire : d.id = call.at}
                 \cup {d \in {[kind |-> "forward", id |-> id]} : id[1] \in near}
    /\ pend' = [m \in Relay |-> pend[m] \cap {call.at}]

\* The call returns or throws; what it has left behind is followed no more.
Return(pc) ==
    /\ call' = Over(pc)
    /\ wire' = {} /\ pend' = [m \in Relay |-> {}]
    /\ flaps' = 0 /\ deaf' = {} /\ stale' = {}
    /\ UNCHANGED <<near, far>>

\* Over the mini nodes that are connected now (_miniNodesByLoad); their loads
\* put them in any order.
Request ==
    /\ call.pc \in {"idle"} \cup Ended
    /\ \E bulk \in BOOLEAN :
         call' = [pc |-> IF near = {} THEN "failed" ELSE "next", bulk |-> bulk,
                  left |-> near, at |-> NoReq, err |-> "none"]
    /\ dead' = FALSE
    /\ UNCHANGED <<inFlight, lineVars, pend, wire>>

TryRelay(m) ==
    /\ call.pc = "next" /\ m \in call.left
    /\ Fire(<<m, 0>>)
    /\ UNCHANGED <<dead, lineVars>>

\* Every mini node has failed.
Exhausted ==
    /\ call.pc = "next" /\ call.left = {}
    /\ Return("failed")
    /\ dead' = (dead \/ call.err = "dead_route")
    /\ UNCHANGED inFlight

\* The timer of an attempt; bulk requests are not fired again.
TimesOut ==
    /\ call.pc = "waiting" /\ inFlight # NoReq
    /\ inFlight' = NoReq
    /\ IF call.at[2] < kSendRetries /\ ~call.bulk
       THEN call' = [call EXCEPT !.pc = "backoff"]
       ELSE GiveUp("timeout")
    /\ UNCHANGED <<dead, lineVars, pend, wire>>

Refire ==
    /\ call.pc = "backoff"
    /\ Fire(<<call.at[1], call.at[2] + 1>>)
    /\ UNCHANGED <<dead, lineVars>>

\* A reply that no request waits for is taken for a push.
dispatchReply(d) ==
    /\ d.kind = "reply"
    /\ \/ /\ d.id # inFlight
          /\ wire' = wire \ {d}
          /\ UNCHANGED <<callVars, lineVars, pend>>
       \/ /\ d.id = inFlight /\ d.status \in Failure
          /\ inFlight' = NoReq /\ GiveUp(d.status)
          /\ wire' = wire \ {d}
          /\ UNCHANGED <<dead, lineVars, pend>>
       \/ /\ d.id = inFlight /\ d.status \notin Failure
          /\ inFlight' = NoReq
          /\ \E status \in {"ok", "rejected"} :
               Return(status) /\ dead' = (dead /\ status # "ok")

\* Mutant: the entry is dropped and its completer left alone.
handlePeerDisconnected_drop(m) ==
    /\ m \in deaf
    /\ deaf' = deaf \ {m}
    /\ inFlight' = IF inFlight # NoReq /\ inFlight[1] = m THEN NoReq ELSE inFlight
    /\ UNCHANGED <<call, dead, near, far, flaps, stale, pend, wire>>

handlePeerDisconnected(m) ==
    /\ m \in deaf
    /\ deaf' = deaf \ {m}
    /\ IF inFlight # NoReq /\ inFlight[1] = m
       THEN inFlight' = NoReq /\ GiveUp("send_failed")
       ELSE UNCHANGED <<inFlight, call>>
    /\ UNCHANGED <<dead, near, far, flaps, stale, pend, wire>>

-----------------------------------------------------------------------------
(***************************************************************************)
(* A mini node, and the target.                                            *)
(***************************************************************************)
\* An answer to the player, over the link of this moment.
Answer(id, status) ==
    {d \in {[kind |-> "reply", id |-> id, status |-> status]} : id[1] \in near}

relay_forward(d) ==
    LET m == d.id[1]
    IN  /\ d.kind = "forward"
        /\ IF m \in far
           THEN /\ pend' = [pend EXCEPT ![m] = @ \cup {d.id}]
                /\ wire' = (wire \ {d}) \cup {[kind |-> "inner", id |-> d.id]}
           ELSE /\ wire' = (wire \ {d}) \cup Answer(d.id, "dead_route")
                /\ UNCHANGED pend
        /\ UNCHANGED <<callVars, lineVars>>

\* The target serves the request and answers, if the link it came by is up.
Serve(d) ==
    /\ d.kind = "inner"
    /\ wire' = (wire \ {d}) \cup
          {a \in {[kind |-> "answer", id |-> d.id]} : d.id[1] \in far}
    /\ UNCHANGED <<callVars, lineVars, pend>>

on_relay_reply(d) ==
    LET m == d.id[1]
    IN  /\ d.kind = "answer"
        /\ IF d.id \in pend[m]
           THEN /\ pend' = [pend EXCEPT ![m] = @ \ {d.id}]
                /\ wire' = (wire \ {d}) \cup Answer(d.id, "answered")
           ELSE wire' = wire \ {d} /\ UNCHANGED pend
        /\ UNCHANGED <<callVars, lineVars>>

\* Some of the entries are past kPendingRelayTtlMs.
pending_sweep_loop(m) ==
    \E expired \in SUBSET pend[m] \ {{}} :
       /\ pend' = [pend EXCEPT ![m] = @ \ expired]
       /\ wire' = wire \cup UNION {Answer(i, "relay_timeout") : i \in expired}
       /\ UNCHANGED <<callVars, lineVars>>

\* on_peer_disconnected: the forwards of a player that is gone are purged.
PurgeOriginator(m) ==
    /\ m \in stale
    /\ stale' = stale \ {m}
    /\ pend' = [pend EXCEPT ![m] = {}]
    /\ UNCHANGED <<callVars, near, far, flaps, deaf, wire>>

-----------------------------------------------------------------------------
\* Links; with a lost link go some of the messages on it.
LoseSome(kinds, m) ==
    \E lost \in SUBSET {d \in wire : d.kind \in kinds /\ d.id[1] = m} : wire' = wire \ lost

Flap == flaps < MaxFlaps /\ flaps' = flaps + 1

NearDown(m) ==
    /\ Flap
    /\ m \in near
    /\ near' = near \ {m} /\ deaf' = deaf \cup {m} /\ stale' = stale \cup {m}
    /\ LoseSome({"forward", "reply"}, m)
    /\ UNCHANGED <<callVars, far, pend>>

FarDown(m) ==
    /\ Flap
    /\ m \in far
    /\ far' = far \ {m}
    /\ LoseSome({"inner", "answer"}, m)
    /\ UNCHANGED <<callVars, near, deaf, stale, pend>>

LinkUp(m) ==
    /\ Flap
    /\ \/ m \notin near /\ near' = near \cup {m} /\ UNCHANGED far
       \/ m \notin far /\ far' = far \cup {m} /\ UNCHANGED near
    /\ UNCHANGED <<callVars, deaf, stale, pend, wire>>

\* With nothing under way links may change again.
Lull ==
    /\ flaps > 0 /\ flaps' = 0
    /\ wire = {} /\ deaf = {} /\ stale = {} /\ \A m \in Relay : pend[m] = {}
    /\ UNCHANGED <<callVars, near, far, deaf, stale, pend, wire>>

RelayNext ==
    \/ Lull
    \/ Request \/ Exhausted \/ TimesOut \/ Refire
    \/ \E d \in wire : \/ relay_forward(d) \/ Serve(d) \/ on_relay_reply(d)
                       \/ dispatchReply(d)
    \/ \E m \in Relay : \/ TryRelay(m) \/ handlePeerDisconnected(m)
                        \/ pending_sweep_loop(m) \/ PurgeOriginator(m)
                        \/ NearDown(m) \/ FarDown(m) \/ LinkUp(m)

\* The player's own event loop and timers run on; nobody else need do anything.
RelayFairness ==
    /\ WF_relayVars(TimesOut) /\ WF_relayVars(Refire) /\ WF_relayVars(Exhausted)
    /\ WF_relayVars(\E m \in Relay : TryRelay(m))

RelaySpec == RelayInit /\ [][RelayNext]_relayVars /\ RelayFairness

-----------------------------------------------------------------------------
(***************************************************************************)
(* A mini node answers a request once at most: dead_route, the target's    *)
(* reply and the sweep's relay_timeout exclude each other, although the    *)
(* io thread, the sweep and the disconnect callback each end an entry (the *)
(* pending-entry leak of relay.forward).                                   *)
(***************************************************************************)
OneAnswerEach ==
    \A d \in wire : d.kind = "reply" => d.id \notin pend[d.id[1]]

(***************************************************************************)
(* A call comes to an end, whatever the network, the mini nodes and the    *)
(* target do, and whichever of the reply, the timer and the disconnect     *)
(* handler completes an attempt first (_pending of RatsClient).            *)
(***************************************************************************)
CallSettles == call.pc = "next" ~> call.pc \in Ended

\* "These must NEVER be re-fired on timeout: ... re-firing makes it serve the whole
\* piece AGAIN" (_kBulkTypes).
BulkFiredOnce ==
    [][call.bulk /\ inFlight = NoReq /\ inFlight' # NoReq
         => call.err # "timeout"]_relayVars

\* "the relay reported the TARGET unreachable ('dead_route') after exhausting
\* every working mini-node - the node / serving-peer is dead" (request).
MarkedDeadIsDead == [][~dead /\ dead' => near \cap far = {}]_relayVars
=============================================================================
