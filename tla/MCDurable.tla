----------------------------- MODULE MCDurable -----------------------------
(* Instances of Durable: which identities, passphrases and flags.          *)
EXTENDS Durable

AllModes == {"alone", "seed", "sync"}
Alone == {"alone"}
=============================================================================
