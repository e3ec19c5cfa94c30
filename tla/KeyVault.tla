------------------------------ MODULE KeyVault ------------------------------
(***************************************************************************)
(* What the key file of ethkey/src/lib.rs promises the processes that use *)
(* it, with passwords, encryption and the steps of save_key left out: the *)
(* path holds one identity, created once by load_or_generate; a process   *)
(* holds no account or that identity; the file can become unreadable (a   *)
(* save_key that truncated it), and only a holder of the account makes it *)
(* readable again by change_password.  Keystore implements this           *)
(* specification (Keystore!Vault) when one process uses the path.          *)
(***************************************************************************)
CONSTANTS
  Proc,       \* processes that open the keystore path
  Key,        \* the secrets
  NoAccount   \* no identity yet / no account held

VARIABLES
  key,        \* the identity of the path, or NoAccount before the first
  readable,   \* load_or_generate can read it
  held        \* held[p]: the account process p holds, or NoAccount

vvars == <<key, readable, held>>

Init ==
  /\ key = NoAccount
  /\ readable = FALSE
  /\ held = [p \in Proc |-> NoAccount]

\* load_or_generate finds no file, generates a secret and saves it.
Create(p, k) ==
  /\ key = NoAccount
  /\ key' = k
  /\ readable' = TRUE
  /\ held' = [held EXCEPT ![p] = k]

\* load_or_generate reads the identity from the file.
Load(p) ==
  /\ readable
  /\ held' = [held EXCEPT ![p] = key]
  /\ UNCHANGED <<key, readable>>

\* change_password writes the identity its caller holds back in full.
Rewrite(p) ==
  /\ held[p] = key
  /\ key # NoAccount
  /\ readable' = TRUE
  /\ UNCHANGED <<key, held>>

\* save_key truncated the file.
Damage ==
  /\ readable' = FALSE
  /\ UNCHANGED <<key, held>>

\* The process dies: its account is gone.
Drop(p) ==
  /\ held' = [held EXCEPT ![p] = NoAccount]
  /\ UNCHANGED <<key, readable>>

Next ==
  \/ \E p \in Proc : \/ \E k \in Key : Create(p, k)
                     \/ Load(p) \/ Rewrite(p) \/ Drop(p)
  \/ Damage

Spec == Init /\ [][Next]_vvars
=============================================================================
