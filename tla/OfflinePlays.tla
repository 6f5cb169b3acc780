---------------------------- MODULE OfflinePlays ----------------------------
(***************************************************************************)
(* Offline plays: the player's log (HeartbeatCapture), the service that    *)
(* bundles and submits it (OfflineSubmitService), and the verb of the home *)
(* node that replays a bundle (offline.play_proof.submit), over a relay    *)
(* that loses messages and a client that sends them again.                 *)
(*                                                                         *)
(* A tick of the service is started by a timer or by a network transition; *)
(* it awaits between its steps, so two may run at once.  Battery, screen   *)
(* and network rows are alike and are numbered in wall-clock order; so are *)
(* the beats of a session.  Signatures and addresses are right.            *)
(***************************************************************************)
EXTENDS Naturals, FiniteSetsExt

CONSTANTS
    Session,
    Tick,           \* who may call _tick
    Nonce,          \* bundle nonces; one no message carries stands for a new one
    REPLAY_BEATS,   \* beats the heartbeat verb takes within kMinIntervalMs: 1
    MIN_BEATS,      \* kMinHeartbeats
    RETRIES,        \* _kSendRetries
    MaxBeats, MaxSensors, MaxRestarts

ASSUME OfflineAssumption ==
    /\ Nonce # {}
    /\ REPLAY_BEATS \in Nat /\ MIN_BEATS \in Nat /\ RETRIES \in Nat
    /\ MaxBeats \in Nat /\ MaxSensors \in Nat /\ MaxRestarts \in Nat

VARIABLES
    log,            \* session -> its row and its beats
    sensed, sensMarked,     \* last sensor row captured, and last one marked
    submitting, ticks,      \* _submitting, and the ticks in progress
    mail,            \* messages in flight
    obp, credited,  \* the node: replay keys, sessions it has credited
    handled,        \* history: what bundles answered with ok held, at most
    cut,            \* history: sessions bundled while they were playing
    restarts

offlineVars == <<log, sensed, sensMarked, submitting, ticks, mail, obp, credited,
                 handled, cut, restarts>>

Entry == [row : {"none", "open", "closed"}, beats : 0..MaxBeats,
          sub : BOOLEAN, marked : 0..MaxBeats]
Bundle == [beats : [Session -> 0..MaxBeats], sensors : 0..MaxSensors,
           nonce : Nonce]
Submission == [bundle : Bundle, attempt : 0..RETRIES, reply : {"no", "ok", "rejected"}]
TickPhases == {"idle", "gate", "sessions", "sensors", "waiting"}
TickState == [phase : TickPhases, beats : [Session -> 0..MaxBeats],
              sensors : 0..MaxSensors, cutoff : 0..MaxSensors,
              nonce : Nonce, attempt : 0..RETRIES]

NoBeats == [s \in Session |-> 0]
IdleTick == [phase |-> "idle", beats |-> NoBeats, sensors |-> 0, cutoff |-> 0,
             nonce |-> CHOOSE n \in Nonce : TRUE, attempt |-> 0]

OfflineInit ==
    /\ log = [s \in Session |-> [row |-> "none", beats |-> 0, sub |-> FALSE,
                                 marked |-> 0]]
    /\ sensed = 0 /\ sensMarked = 0
    /\ submitting = FALSE
    /\ ticks = [t \in Tick |-> IdleTick]
    /\ mail = {}
    /\ obp = {} /\ credited = {}
    /\ handled = [beats |-> NoBeats, sensors |-> 0]
    /\ cut = {}
    /\ restarts = 0

logVars == <<log, sensed, sensMarked>>
nodeVars == <<obp, credited, handled>>

-----------------------------------------------------------------------------
(* HeartbeatService and HeartbeatCapture: what playback writes.            *)

openSession(s) ==
    /\ log[s].row = "none"
    /\ log' = [log EXCEPT ![s].row = "open"]
    /\ UNCHANGED <<sensed, sensMarked>>

\* A beat is logged whether or not the node was told of it, and so is one of a
\* session that has been submitted meanwhile.
recordHeartbeat(s) ==
    /\ log[s].row = "open"
    /\ log[s].beats < MaxBeats
    /\ log' = [log EXCEPT ![s].beats = @ + 1]
    /\ UNCHANGED <<sensed, sensMarked>>

closeSession(s) ==
    /\ log[s].row = "open"
    /\ log' = [log EXCEPT ![s].row = "closed"]
    /\ UNCHANGED <<sensed, sensMarked>>

recordSensor ==
    /\ sensed < MaxSensors
    /\ sensed' = sensed + 1
    /\ UNCHANGED <<log, sensMarked>>

Playback ==
    /\ recordSensor \/ \E s \in Session :
            openSession(s) \/ recordHeartbeat(s) \/ closeSession(s)
    /\ UNCHANGED <<submitting, ticks, mail, nodeVars, cut, restarts>>

-----------------------------------------------------------------------------
(* OfflineSubmitService._tick                                              *)

Phase(t, p) == ticks[t].phase = p

\* The flag is looked at before the awaits that find the home node ...
TickEnters(t) ==
    /\ Phase(t, "idle")
    /\ ~submitting
    /\ ticks' = [ticks EXCEPT ![t].phase = "gate"]
    /\ UNCHANGED <<logVars, submitting, mail, nodeVars, cut, restarts>>

\* ... which may not be there, ...
TickOffline(t) ==
    /\ Phase(t, "gate")
    /\ ticks' = [ticks EXCEPT ![t] = IdleTick]
    /\ UNCHANGED <<logVars, submitting, mail, nodeVars, cut, restarts>>

\* ... and set after them.  trim() only deletes rows long submitted.
unsubmittedSessions ==
    [s \in Session |-> IF log[s].row = "none" \/ log[s].sub THEN 0
                       ELSE log[s].beats - log[s].marked]
TickReads(t) ==
    /\ Phase(t, "gate")
    /\ IF unsubmittedSessions = NoBeats
       THEN /\ ticks' = [ticks EXCEPT ![t] = IdleTick]
            /\ submitting' = FALSE
       ELSE /\ ticks' = [ticks EXCEPT ![t].phase = "sessions",
                                      ![t].beats = unsubmittedSessions]
            /\ submitting' = TRUE
    /\ cut' = cut \cup {s \in Session : log[s].row = "open"}
    /\ UNCHANGED <<logVars, mail, nodeVars, restarts>>

TickReadsSensors(t) ==
    /\ Phase(t, "sessions")
    /\ ticks' = [ticks EXCEPT ![t].phase = "sensors",
                              ![t].sensors = sensed]
    /\ UNCHANGED <<logVars, submitting, mail, nodeVars, cut, restarts>>

BundleOf(t) == [beats |-> ticks[t].beats, sensors |-> ticks[t].sensors,
                nonce |-> ticks[t].nonce]
FreshNonce(n) ==
    /\ n \notin obp
    /\ \A m \in mail : m.bundle.nonce # n
    /\ \A t \in Tick : Phase(t, "waiting") => ticks[t].nonce # n

\* The bundle gets a new nonce, the cutoff is taken, and the request goes out.
TickSends(t, n) ==
    /\ Phase(t, "sensors")
    /\ FreshNonce(n)
    /\ ticks' = [ticks EXCEPT ![t].phase = "waiting", ![t].nonce = n,
                              ![t].cutoff = sensed, ![t].attempt = 0]
    /\ mail' = mail \cup {[bundle |-> [BundleOf(t) EXCEPT !.nonce = n],
                         attempt |-> 0, reply |-> "no"]}
    /\ UNCHANGED <<logVars, submitting, nodeVars, cut, restarts>>

\* RatsClient.request: a request that timed out is sent again, as a new one.
TickRetries(t) ==
    /\ Phase(t, "waiting")
    /\ ticks[t].attempt < RETRIES
    /\ ticks' = [ticks EXCEPT ![t].attempt = @ + 1]
    /\ mail' = mail \cup {[bundle |-> BundleOf(t), attempt |-> ticks[t].attempt + 1,
                         reply |-> "no"]}
    /\ UNCHANGED <<logVars, submitting, nodeVars, cut, restarts>>

\* Out of retries, or no relay: the rows stay for a later tick.
TickFails(t) ==
    /\ Phase(t, "waiting")
    /\ ticks' = [ticks EXCEPT ![t] = IdleTick]
    /\ submitting' = FALSE
    /\ UNCHANGED <<logVars, mail, nodeVars, cut, restarts>>

Answers(m, t) ==
    /\ m.reply # "no"
    /\ Phase(t, "waiting")
    /\ m.bundle.nonce = ticks[t].nonce /\ m.attempt = ticks[t].attempt

\* Every row of the bundle's sessions, and every sensor row up to the cutoff.
markSubmitted(t) ==
    /\ log' = [s \in Session |->
                IF ticks[t].beats[s] > 0
                THEN [log[s] EXCEPT !.sub = TRUE, !.marked = log[s].beats]
                ELSE log[s]]
    /\ sensMarked' = IF ticks[t].cutoff > sensMarked THEN ticks[t].cutoff
                     ELSE sensMarked
    /\ UNCHANGED sensed

\* Mutant: whatever the answer says, the rows are marked.
AnsweredAnyhow(t, m) ==
    /\ Answers(m, t)
    /\ markSubmitted(t)
    /\ ticks' = [ticks EXCEPT ![t] = IdleTick]
    /\ submitting' = FALSE
    /\ mail' = mail \ {m}
    /\ UNCHANGED <<nodeVars, cut, restarts>>

\* A rejection is an exception, like a timeout.
TickAnswered(t, m) ==
    /\ Answers(m, t)
    /\ IF m.reply = "ok" THEN markSubmitted(t) ELSE UNCHANGED logVars
    /\ ticks' = [ticks EXCEPT ![t] = IdleTick]
    /\ submitting' = FALSE
    /\ mail' = mail \ {m}
    /\ UNCHANGED <<nodeVars, cut, restarts>>

-----------------------------------------------------------------------------
(* offline.play_proof.submit                                               *)

Sessions(b) == {s \in Session : b.beats[s] > 0}

\* Each session is replayed through the verbs of an online play: beats that
\* come in within kMinIntervalMs of each other are refused, and a refused beat
\* ends the replay.
Accepted(b) == {s \in Sessions(b) : /\ b.beats[s] <= REPLAY_BEATS
                                    /\ b.beats[s] >= MIN_BEATS}

\* The heuristics may flag any bundle.
NodeAnswers(m, flagged) ==
    /\ m.reply = "no"
    /\ LET b == m.bundle
           reject == b.nonce \in obp \/ flagged
       IN /\ mail' = (mail \ {m}) \cup
                    {[m EXCEPT !.reply = IF reject THEN "rejected" ELSE "ok"]}
          /\ IF reject THEN UNCHANGED nodeVars
             ELSE /\ credited' = credited \cup Accepted(b)
                  /\ obp' = IF Accepted(b) = {} THEN obp ELSE obp \cup {b.nonce}
                  /\ handled' = [beats |-> [s \in Session |->
                                    Max({b.beats[s], handled.beats[s]})],
                                 sensors |-> Max({b.sensors, handled.sensors})]
    /\ UNCHANGED <<logVars, submitting, ticks, cut, restarts>>

Lost(m) ==
    /\ mail' = mail \ {m}
    /\ UNCHANGED <<logVars, submitting, ticks, nodeVars, cut, restarts>>

\* The app is killed and started: the log is on disk, a session that was
\* playing stays open in it, the rest is forgotten.
Restart ==
    /\ restarts < MaxRestarts
    /\ restarts' = restarts + 1
    /\ submitting' = FALSE
    /\ ticks' = [t \in Tick |-> IdleTick]
    /\ UNCHANGED <<logVars, mail, nodeVars, cut>>

TickStep(t) ==
    \/ TickOffline(t) \/ TickReads(t) \/ TickReadsSensors(t)
    \/ \E n \in Nonce : TickSends(t, n)
    \/ TickRetries(t) \/ TickFails(t)
    \/ \E m \in mail : TickAnswered(t, m)

OfflineNext ==
    \/ Playback
    \/ \E t \in Tick : TickEnters(t) \/ TickStep(t)
    \/ \E m \in mail : Lost(m) \/ \E flagged \in BOOLEAN : NodeAnswers(m, flagged)
    \/ Restart

OfflineSpec == OfflineInit /\ [][OfflineNext]_offlineVars

-----------------------------------------------------------------------------
(* Properties *)

OfflineTypeOK ==
    /\ log \in [Session -> Entry]
    /\ sensed \in 0..MaxSensors /\ sensMarked \in 0..sensed
    /\ submitting \in BOOLEAN
    /\ ticks \in [Tick -> TickState]
    /\ mail \subseteq Submission
    /\ obp \subseteq Nonce /\ credited \subseteq Session
    /\ cut \subseteq Session
    /\ restarts \in 0..MaxRestarts

\* Through lost replies, repeats, ticks that overlap and restarts: a session is
\* marked as submitted only once the node has answered a bundle that held it,
\* with all its beats unless it was still playing when it was bundled.
PlaysShipped ==
    \A s \in Session : log[s].sub =>
        /\ handled.beats[s] > 0
        /\ s \notin cut => log[s].marked <= handled.beats[s]

\* Claims the code does not keep.

\* "we'd silently mark rows captured during the RPC as submitted even though
\* they were never in the bundle, losing them forever".
NoRowLost ==
    /\ sensMarked <= handled.sensors
    /\ \A s \in Session : log[s].marked <= handled.beats[s]

\* "fine for the 50% gate because we feed the beats in fast".
SubmittedIsCredited ==
    \A s \in Session : log[s].sub /\ handled.beats[s] >= MIN_BEATS => s \in credited

=============================================================================
