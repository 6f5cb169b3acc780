------------------------------- MODULE Wallets -------------------------------
(***************************************************************************)
(* The addresses every transaction module speaks of.  A key pair is its    *)
(* wallet: address_from_pubkey and the sha256 that makes a node id are     *)
(* injective, and verify_signature binds the public key carried in a       *)
(* transaction to the address it acts for, so "signed by a" is the choice  *)
(* of a.                                                                   *)
(***************************************************************************)
CONSTANTS
    Address,     \* wallets that hold a key
    NoAddr       \* the all-zero address

ASSUME NoAddrAssumption == NoAddr \notin Address

Maybe == Address \cup {NoAddr}

(***************************************************************************)
(* Accounts of the ledger: a: rows.  escrow_address_for derives an address *)
(* nobody holds a key for from an artist's address, the zero one included. *)
(***************************************************************************)
Wallet(a) == <<"wallet", a>>
escrow_address_for(a) == <<"escrow", a>>

Account == {"wallet", "escrow"} \X Maybe
=============================================================================
