---------------------------- MODULE MintSchedule ----------------------------
(***************************************************************************)
(* The reward schedule of one play: the checks of a PlayProof that read    *)
(* nothing but the proof and the block height, the lanes a play pays, and  *)
(* the burn curve (src/bopwire/src/tokens/mint.cpp and ledger.cpp).        *)
(*                                                                         *)
(* A serving node, its public key and its wallet are one element of        *)
(* Address.  A signature slot of a proof is "none" (an all-zero public     *)
(* key), "good" or "bad".                                                  *)
(***************************************************************************)
EXTENDS Integers, Wallets

CONSTANTS
    Song,                      \* content hashes, compared as numbers
    Session,                   \* session ids, compared as numbers
    SongInfo,                  \* Song -> SongSection of its block
    UNIT,                      \* FULL_*_REWARD: one token
    BP,                        \* 10000 basis points
    FULL_REWARD_THRESHOLD,
    SUPPLY_FLOOR,
    SUPPLY_CAP,
    BURN_AT_CAP,               \* 1000 * TOKEN_DECIMALS
    UINT64_MAX,
    COSIGN_ACTIVATION_HEIGHT

(***************************************************************************)
(* A song's royalty_splits.  At most two entries are modelled; an unused   *)
(* entry of a list has bp = 0, which the code treats as a portion of 0.    *)
(***************************************************************************)
SongSection == [artist : Maybe, hasSplits : BOOLEAN,
                to1 : Maybe, bp1 : Nat, to2 : Maybe, bp2 : Nat]

SigSlot == {"none", "good", "bad"}

(***************************************************************************)
(* A PlayProof.  attested stands for the checks on the proof alone: version*)
(* 3, at least 30 seconds, a plausible heartbeat count, a node signature   *)
(* that verifies under the public key the proof carries.                   *)
(***************************************************************************)
PlayProof == [session : Session, song : Song, node : Address,
              player : Maybe, seeder : Maybe, mini : Maybe,
              attested : BOOLEAN, playerSig : SigSlot, miniSig : SigSlot]

ASSUME ScheduleAssumption ==
    /\ Song \subseteq Nat /\ Session \subseteq Nat
    /\ SongInfo \in [Song -> SongSection]
    /\ UNIT \in Nat \ {0} /\ BP \in Nat \ {0}
    /\ FULL_REWARD_THRESHOLD \in Nat
    /\ SUPPLY_FLOOR \in Nat /\ SUPPLY_CAP \in Nat
    /\ SUPPLY_FLOOR < SUPPLY_CAP
    /\ BURN_AT_CAP \in Nat
    /\ UINT64_MAX \in Nat /\ UINT64_MAX > SUPPLY_CAP
    /\ COSIGN_ACTIVATION_HEIGHT \in Nat

(***************************************************************************)
(* check_play without its database read.  A signature that is carried must *)
(* verify; from the activation height on a paid listener lane or relay     *)
(* lane must carry one, and a listener key needs a listener lane.          *)
(***************************************************************************)
ProofVerifies(p, h) ==
    LET active == h >= COSIGN_ACTIVATION_HEIGHT
    IN  /\ p.attested
        /\ p.playerSig # "bad" /\ p.miniSig # "bad"
        /\ p.playerSig = "good" => p.player # NoAddr
        /\ p.miniSig = "good" => p.mini # NoAddr
        /\ active /\ p.player # NoAddr => p.playerSig = "good"
        /\ active /\ p.mini # NoAddr => p.miniSig = "good"

(***************************************************************************)
(* compute_burn_rate: the integer cubic, divided as it goes.               *)
(***************************************************************************)
compute_burn_rate(total_supply) ==
    IF total_supply < SUPPLY_FLOOR THEN 0
    ELSE IF total_supply >= SUPPLY_CAP THEN UINT64_MAX
    ELSE LET num == total_supply - SUPPLY_FLOOR
             den == SUPPLY_CAP - SUPPLY_FLOOR
             m1  == (num * num) \div den
             m2  == (m1 * num) \div den
         IN  (m2 * BURN_AT_CAP) \div den

\* recompute_mint and the settlement walk: only a song past the threshold burns.
BurnFor(play_count, total_supply) ==
    IF play_count >= FULL_REWARD_THRESHOLD
    THEN compute_burn_rate(total_supply) ELSE 0

(***************************************************************************)
(* compute_mint_outputs.  An output is a lane, a recipient and an amount;  *)
(* a lane the code does not push has amount 0.                             *)
(***************************************************************************)
MintOutput == [to : Account, amount : Nat]

NoOutput == [to |-> escrow_address_for(NoAddr), amount |-> 0]

Output(to, amount) == [to |-> to, amount |-> amount]

\* Artist money is escrowed below the threshold, direct past it.
ArtistAccount(a, early) ==
    IF early \/ a = NoAddr THEN escrow_address_for(a) ELSE Wallet(a)

SplitOutput(to, bp, early) ==
    IF to = NoAddr THEN NoOutput
    ELSE Output(ArtistAccount(to, early), (UNIT * bp) \div BP)

compute_mint_outputs(p, song, play_count, node_wallet) ==
    LET early == play_count < FULL_REWARD_THRESHOLD
        bps   == song.bp1 + song.bp2
        valid == song.hasSplits /\ bps <= BP
    IN  [split1   |-> IF valid THEN SplitOutput(song.to1, song.bp1, early)
                               ELSE NoOutput,
         split2   |-> IF valid THEN SplitOutput(song.to2, song.bp2, early)
                               ELSE NoOutput,
         rest     |-> IF valid
                      THEN Output(escrow_address_for(NoAddr),
                                  (UNIT * (BP - bps)) \div BP)
                      ELSE Output(ArtistAccount(song.artist, early), UNIT),
         node     |-> Output(Wallet(node_wallet), UNIT),
         listener |-> IF early /\ p.player # NoAddr
                      THEN Output(Wallet(p.player), UNIT) ELSE NoOutput,
         seeder   |-> IF p.seeder \notin {NoAddr, p.player}
                      THEN Output(Wallet(p.seeder), UNIT) ELSE NoOutput,
         mini     |-> IF p.mini # NoAddr
                      THEN Output(Wallet(p.mini), UNIT) ELSE NoOutput]

Outputs == [split1 : MintOutput, split2 : MintOutput, rest : MintOutput,
            node : MintOutput, listener : MintOutput, seeder : MintOutput,
            mini : MintOutput]

OutSum(o) ==
    o.split1.amount + o.split2.amount + o.rest.amount + o.node.amount
      + o.listener.amount + o.seeder.amount + o.mini.amount

\* What one recipient collects from an output list: credit_many aggregates.
PartOf(x, a) == IF x.to = a THEN x.amount ELSE 0

Collects(o, a) ==
    PartOf(o.split1, a) + PartOf(o.split2, a) + PartOf(o.rest, a)
      + PartOf(o.node, a) + PartOf(o.listener, a) + PartOf(o.seeder, a)
      + PartOf(o.mini, a)
=============================================================================
