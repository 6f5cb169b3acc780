--------------------------- MODULE MCOfflinePlays ---------------------------
(* Small instances of OfflinePlays for TLC.                                 *)
EXTENDS OfflinePlays, TLC


\* One message at a time is on its way.
Few == Cardinality(mail) <= 1

\* Nonces are alike.
Alike == Permutations(Nonce)

=============================================================================
