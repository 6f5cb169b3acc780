--------------------------- MODULE MCBlockLedger ---------------------------
(***************************************************************************)
(* Values of the constants of BlockLedger for TLC.  The first proofs cover *)
(* two plays of one song, one session claimed for two songs, and a play    *)
(* served by another node than the one that settles it; the last one lacks *)
(* the listener's signature, which verifies below the activation height.   *)
(***************************************************************************)
EXTENDS BlockLedger, TLC

CONSTANTS f, n    \* a listener who is also artist and founder, a serving node

Play(session, song, player, seeder) ==
    [session |-> session, song |-> song, node |-> n, player |-> player,
     seeder |-> seeder, mini |-> NoAddr, attested |-> TRUE,
     playerSig |-> "good", miniSig |-> "none"]

Relayed(p, mini) == [p EXCEPT !.mini = mini, !.miniSig = "good"]

FirstPlay   == Play(1, 1, f, NoAddr)
SecondPlay  == Relayed(Play(2, 1, f, n), n)
SameSession == Play(1, 2, f, f)
OtherNode   == [Play(3, 1, n, NoAddr) EXCEPT !.node = f]
Unsigned    == [Play(4, 2, f, NoAddr) EXCEPT !.playerSig = "none"]

NoSplits(artist) == [artist |-> artist, hasSplits |-> FALSE,
                     to1 |-> NoAddr, bp1 |-> 0, to2 |-> NoAddr, bp2 |-> 0]

MCSongInfo ==
    1 :> NoSplits(f) @@
    2 :> [artist |-> f, hasSplits |-> TRUE,
          to1 |-> f, bp1 |-> 1, to2 |-> NoAddr, bp2 |-> 0]

MCMintProofs == {FirstPlay, SecondPlay, SameSession}
MCSettleProofs == {FirstPlay, SecondPlay, SameSession, OtherNode, Unsigned}
=============================================================================
