----------------------------- MODULE MCKeystore -----------------------------
(* Small instances of Keystore for TLC. *)
EXTENDS Keystore
=============================================================================
