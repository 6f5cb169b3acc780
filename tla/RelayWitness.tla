---------------------------- MODULE RelayWitness ----------------------------
(***************************************************************************)
(* A mini node as a witness of plays: it counts the bytes of a delivery it *)
(* has passed on, reports them when the delivery is idle, and co-signs the *)
(* play proof of a delivery it remembers to have relayed.                  *)
(*                                                                         *)
(* Bytes are counted in units of half kCosignMinBytes or so, ages in       *)
(* fractions of kCosignMemoryMs.  The proof names this mini node and is    *)
(* well formed; who sent the bytes (by_sender), the token buckets and the  *)
(* NACKs are left out: a frame is passed on or is not.                     *)
(***************************************************************************)
EXTENDS Naturals, FiniteSets

CONSTANTS
    Delivery, Session,
    kCosignMinBytes,
    kCosignMemory,  \* kCosignMemoryMs
    MaxFrames,      \* bound: frames per delivery
    Nothing

ASSUME WitnessAssumption ==
    /\ kCosignMinBytes \in Nat \ {0} /\ kCosignMemory \in Nat
    /\ MaxFrames \in Nat
    /\ Nothing \notin Session
    /\ \A b \in 0..MaxFrames, i \in BOOLEAN : Nothing # [bytes |-> b, idle |-> i]
    /\ \A b \in 0..MaxFrames, a \in 0..(kCosignMemory + 1), s \in Session \cup {Nothing} :
          Nothing # [bytes |-> b, age |-> a, session |-> s]

VARIABLES
    accum,          \* g_delivery_accum
    done,           \* g_delivery_done
    frames,         \* frames that have come in
    passed,         \* bytes that really went on to the listener
    reported,       \* bytes in relay.reports
    cosigned        \* sessions whose proofs carry our signature

witnessVars == <<accum, done, frames, passed, reported, cosigned>>

DeliveryAccum == [bytes : 0..MaxFrames, idle : BOOLEAN] \* idle for kDeliveryIdleMs

DeliveryDone == [bytes : 0..MaxFrames, age : 0..(kCosignMemory + 1),
                 session : Session \cup {Nothing}]      \* cosigned_session

WitnessTypeOK ==
    /\ accum \in [Delivery -> DeliveryAccum \cup {Nothing}]
    /\ done \in [Delivery -> DeliveryDone \cup {Nothing}]
    /\ {frames, passed, reported} \subseteq [Delivery -> Nat]
    /\ cosigned \in [Delivery -> SUBSET Session]

WitnessInit ==
    /\ accum = [d \in Delivery |-> Nothing] /\ done = [d \in Delivery |-> Nothing]
    /\ frames = [d \in Delivery |-> 0]
    /\ passed = frames /\ reported = frames
    /\ cosigned = [d \in Delivery |-> {}]

Bytes(row) == IF row = Nothing THEN 0 ELSE row.bytes

-----------------------------------------------------------------------------
\* Mutant: the frame is counted whether or not it could be sent.
Counted_all(sent) == TRUE

\* Only what was sent is counted; the sender hears of the rest.
Counted(sent) == sent

on_relay_binary(d, sent) ==
    /\ frames[d] < MaxFrames
    /\ frames' = [frames EXCEPT ![d] = @ + 1]
    /\ passed' = [passed EXCEPT ![d] = @ + IF sent THEN 1 ELSE 0]
    /\ accum' = IF Counted(sent)
                THEN [accum EXCEPT ![d] = [bytes |-> Bytes(@) + 1, idle |-> FALSE]]
                ELSE accum
    /\ UNCHANGED <<done, reported, cosigned>>

\* A pass of reaper_loop: old rows go, idle deliveries are remembered and reported.
reaper_loop ==
    LET kept(row) == row # Nothing /\ row.age <= kCosignMemory
        ready == {d \in Delivery : accum[d] # Nothing /\ accum[d].idle}
    IN  /\ \E d \in Delivery : d \in ready \/ (done[d] # Nothing /\ ~kept(done[d]))
        /\ done' = [d \in Delivery |->
              IF d \in ready
              THEN [bytes |-> accum[d].bytes, age |-> 0,
                    session |-> IF kept(done[d]) THEN done[d].session ELSE Nothing]
              ELSE IF kept(done[d]) THEN done[d] ELSE Nothing]
        /\ accum' = [d \in Delivery |-> IF d \in ready THEN Nothing ELSE accum[d]]
        /\ reported' = [d \in Delivery |-> reported[d] +
                                           IF d \in ready THEN accum[d].bytes ELSE 0]
        /\ UNCHANGED <<frames, passed, cosigned>>

\* What proof.cosign believes was relayed: the row that was flushed comes first.
Relayed(d) == Bytes(IF done[d] # Nothing THEN done[d] ELSE accum[d])

\* The session is bound to the delivery before the digests are compared.
proof_cosign(d, s, digestsAgree) ==
    LET row == IF done[d] # Nothing THEN done[d]
               ELSE [bytes |-> Relayed(d), age |-> 0, session |-> Nothing]
    IN  /\ Relayed(d) >= kCosignMinBytes
        /\ \/ /\ row.session \notin {Nothing, s}
              /\ done' = [done EXCEPT ![d] = row] /\ UNCHANGED cosigned
           \/ /\ row.session \in {Nothing, s}
              /\ done' = [done EXCEPT ![d] = [row EXCEPT !.session = s]]
              /\ cosigned' = IF digestsAgree THEN [cosigned EXCEPT ![d] = @ \cup {s}]
                             ELSE cosigned
        /\ UNCHANGED <<accum, frames, passed, reported>>

\* Five seconds without a frame; minutes in the life of a remembered row.
FallsIdle(d) ==
    /\ accum[d] # Nothing /\ ~accum[d].idle
    /\ accum' = [accum EXCEPT ![d].idle = TRUE]
    /\ UNCHANGED <<done, frames, passed, reported, cosigned>>

Age(d) ==
    /\ done[d] # Nothing /\ done[d].age <= kCosignMemory
    /\ done' = [done EXCEPT ![d].age = @ + 1]
    /\ UNCHANGED <<accum, frames, passed, reported, cosigned>>

\* A delivery that is over and forgotten makes room for another.
NextDelivery(d) ==
    /\ frames[d] = MaxFrames /\ accum[d] = Nothing /\ done[d] = Nothing
    /\ frames' = [frames EXCEPT ![d] = 0] /\ passed' = [passed EXCEPT ![d] = 0]
    /\ reported' = [reported EXCEPT ![d] = 0] /\ cosigned' = [cosigned EXCEPT ![d] = {}]
    /\ UNCHANGED <<accum, done>>

WitnessNext ==
    \/ reaper_loop
    \/ \E d \in Delivery :
         \/ FallsIdle(d) \/ Age(d) \/ NextDelivery(d)
         \/ \E sent \in BOOLEAN : on_relay_binary(d, sent)
         \/ \E s \in Session, agree \in BOOLEAN : proof_cosign(d, s, agree)

WitnessSpec == WitnessInit /\ [][WitnessNext]_witnessVars

-----------------------------------------------------------------------------
(***************************************************************************)
(* The witness is honest: each byte that went on is reported once or is    *)
(* still waiting to be, none that did not is, and a co-signature rests on  *)
(* at least kCosignMinBytes that went on, however the stream was cut into  *)
(* flushes and whenever the proof came in (on_relay_binary, reaper_loop,   *)
(* proof.cosign).                                                          *)
(***************************************************************************)
WitnessHonest ==
    \A d \in Delivery :
       /\ reported[d] + Bytes(accum[d]) = passed[d]
       /\ cosigned[d] # {} => passed[d] >= kCosignMinBytes

\* "One relayed stream co-signs exactly ONE play" (proof.cosign).
OneStreamOnePlay == \A d \in Delivery : Cardinality(cosigned[d]) <= 1

\* "what we relayed for a delivery, retained AFTER the relay.report is flushed"
\* (DeliveryDone): what is remembered is enough if what was relayed is.
RelayedIsRetained ==
    \A d \in Delivery :
       done[d] # Nothing /\ passed[d] >= kCosignMinBytes => Relayed(d) >= kCosignMinBytes
=============================================================================
