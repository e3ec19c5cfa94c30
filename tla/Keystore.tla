------------------------------ MODULE Keystore ------------------------------
(***************************************************************************)
(* The key file of an EthAccount, ethkey/src/lib.rs: load_or_generate,     *)
(* change_password and save_key, called by the processes in Proc that use  *)
(* the same keystore path, each of which may crash and restart.            *)
(*                                                                         *)
(* save_key has three steps that other processes can interleave with:     *)
(* the key file is derived from the secret (scrypt, slow), File::create    *)
(* then truncates the path, and to_writer_pretty writes the JSON into it.  *)
(* Between the truncation and the end of the write the file is incomplete *)
(* (Partial); the write may fail there (a full disk) or the process may    *)
(* die.  Two complete writes are taken to happen one after the other: the *)
(* byte-level interleaving of two writes is not modelled.  The secret, the *)
(* password and the file contents are abstracted to model values.          *)
(***************************************************************************)
EXTENDS Naturals

CONSTANTS
  Proc,        \* processes that open the same keystore path
  Key,         \* secrets SecretKey::from_raw(&random_bytes()) may produce
  Password,    \* passwords the callers pass
  NoAccount,   \* no EthAccount in the process
  NoFile,      \* nothing at the keystore path
  Partial,     \* a file at the path that is not a complete key file
  NoSave,      \* no save_key in progress
  MaxCrash     \* bound on process crashes

\* A complete key file: the secret encrypted under a password.
KeyFile == [key: Key, pwd: Password]

\* A save_key in progress: the secret, the password, the caller and whether
\* File::create has truncated the path yet.
Saving == [key: Key, pwd: Password, op: {"generate", "change"}, trunc: BOOLEAN]

\* The sentinels are neither secrets, nor key files, nor saves.
ASSUME KeystoreAssumption ==
  /\ NoAccount \notin Key
  /\ NoFile # Partial
  /\ {NoFile, Partial} \cap KeyFile = {}
  /\ NoSave \notin Saving
  /\ MaxCrash \in Nat

\* File::open succeeds and the contents parse as a key file.
IsKeyFile(f) == f \notin {NoFile, Partial}

VARIABLES
  disk,     \* the file at the keystore path: NoFile, Partial or a KeyFile
  acct,     \* acct[p]: the secret of the EthAccount p holds, or NoAccount
  saving,   \* saving[p]: the save_key p is in, or NoSave
  stored,   \* keys a save_key has completely written (history)
  nCrash    \* crashes so far

vars == <<disk, acct, saving, stored, nCrash>>

TypeOK ==
  /\ disk \in {NoFile, Partial} \cup KeyFile
  /\ acct \in [Proc -> Key \cup {NoAccount}]
  /\ saving \in [Proc -> Saving \cup {NoSave}]
  /\ stored \subseteq Key
  /\ nCrash \in 0..MaxCrash

Init ==
  /\ disk = NoFile
  /\ acct = [p \in Proc |-> NoAccount]
  /\ saving = [p \in Proc |-> NoSave]
  /\ stored = {}
  /\ nCrash = 0

\* The call of save_key(k, path, pw) by p: the key file is built; nothing
\* is on disk yet.
SaveBegin(p, k, pw, op) ==
  saving' = [saving EXCEPT ![p] = [key |-> k, pwd |-> pw, op |-> op,
                                   trunc |-> FALSE]]

\* Mutant: the key is also regenerated when the file exists but cannot be
\* read as a key file.
LoadOrGenerateRegenOnCorrupt(p, pw) ==
  /\ saving[p] = NoSave
  /\ \/ /\ IsKeyFile(disk)
        /\ disk.pwd = pw
        /\ acct' = [acct EXCEPT ![p] = disk.key]
        /\ UNCHANGED saving
     \/ /\ IsKeyFile(disk)
        /\ disk.pwd # pw
        /\ UNCHANGED <<saving, acct>>
     \/ /\ ~IsKeyFile(disk)
        /\ \E k \in Key : SaveBegin(p, k, pw, "generate")
        /\ UNCHANGED acct
  /\ UNCHANGED <<disk, stored, nCrash>>

\* load_or_generate(path, pw) by p: when File::open succeeds, parse the
\* file and decrypt it with pw (an incomplete file or a wrong password is
\* an error); when it fails (no file), generate a fresh secret and call
\* save_key.  The account is returned only once save_key has returned Ok.
LoadOrGenerate(p, pw) ==
  /\ saving[p] = NoSave
  /\ \/ /\ IsKeyFile(disk)
        /\ disk.pwd = pw
        /\ acct' = [acct EXCEPT ![p] = disk.key]
        /\ UNCHANGED saving
     \/ /\ IsKeyFile(disk)
        /\ disk.pwd # pw
        /\ UNCHANGED <<saving, acct>>
     \/ /\ disk = Partial
        /\ UNCHANGED <<saving, acct>>
     \/ /\ disk = NoFile
        /\ \E k \in Key : SaveBegin(p, k, pw, "generate")
        /\ UNCHANGED acct
  /\ UNCHANGED <<disk, stored, nCrash>>

\* change_password(pw) on the account p holds: save_key of its secret.
ChangePassword(p, pw) ==
  /\ saving[p] = NoSave
  /\ acct[p] # NoAccount
  /\ SaveBegin(p, acct[p], pw, "change")
  /\ UNCHANGED <<disk, acct, stored, nCrash>>

\* The rest of save_key up to the write: find the parent directory, create
\* it if missing and File::create the path, which truncates it.  Each of
\* these may fail: save_key returns the error and the file is untouched.
Truncate(p) ==
  /\ saving[p] # NoSave
  /\ ~saving[p].trunc
  /\ \/ /\ disk' = Partial
        /\ saving' = [saving EXCEPT ![p].trunc = TRUE]
     \/ /\ saving' = [saving EXCEPT ![p] = NoSave]
        /\ UNCHANGED disk
  /\ UNCHANGED <<acct, stored, nCrash>>

\* Mutant: load_or_generate ignores the result of save_key.
SaveEndIgnoreError(p) ==
  /\ saving[p] # NoSave
  /\ saving[p].trunc
  /\ \/ /\ disk' = [key |-> saving[p].key, pwd |-> saving[p].pwd]
        /\ stored' = stored \cup {saving[p].key}
     \/ UNCHANGED <<disk, stored>>
  /\ acct' = IF saving[p].op = "generate"
               THEN [acct EXCEPT ![p] = saving[p].key] ELSE acct
  /\ saving' = [saving EXCEPT ![p] = NoSave]
  /\ UNCHANGED nCrash

\* The end of save_key: serde_json::to_writer_pretty writes the key file,
\* or fails part way and leaves the file incomplete.  On success
\* load_or_generate returns the new account.
SaveEnd(p) ==
  /\ saving[p] # NoSave
  /\ saving[p].trunc
  /\ \/ /\ disk' = [key |-> saving[p].key, pwd |-> saving[p].pwd]
        /\ stored' = stored \cup {saving[p].key}
        /\ acct' = IF saving[p].op = "generate"
                     THEN [acct EXCEPT ![p] = saving[p].key] ELSE acct
     \/ UNCHANGED <<disk, stored, acct>>
  /\ saving' = [saving EXCEPT ![p] = NoSave]
  /\ UNCHANGED nCrash

\* Process p dies and is started again: its account and any save it was
\* in are gone, the file stays as it is.
Crash(p) ==
  /\ nCrash < MaxCrash
  /\ nCrash' = nCrash + 1
  /\ acct' = [acct EXCEPT ![p] = NoAccount]
  /\ saving' = [saving EXCEPT ![p] = NoSave]
  /\ UNCHANGED <<disk, stored>>

Next ==
  \E p \in Proc :
    \/ \E pw \in Password : LoadOrGenerate(p, pw) \/ ChangePassword(p, pw)
    \/ Truncate(p)
    \/ SaveEnd(p)
    \/ Crash(p)

Spec == Init /\ [][Next]_vars

-----------------------------------------------------------------------------
(* Properties                                                              *)

\* The account a process holds is a secret that was written to disk in
\* full: load_or_generate never hands out a key it did not save, across
\* failed writes, crashes and the calls of other processes.
AccountStored == \A p \in Proc : acct[p] # NoAccount => acct[p] \in stored

\* One identity per keystore: once a secret has been written, no other
\* secret is ever written at the path (change_password re-encrypts the
\* same secret, and load_or_generate generates only when there is no file).
SingleIdentity == \A k1, k2 \in stored : k1 = k2

\* Once a secret has been written, the path holds a complete key file or a
\* save_key is rewriting it: the secret is never lost.
KeyNeverLost ==
  stored # {} =>
    \/ IsKeyFile(disk)
    \/ \E p \in Proc : saving[p] # NoSave /\ saving[p].trunc

\* The identity of the path: the secret written there, if any.
VaultKey == IF stored = {} THEN NoAccount ELSE CHOOSE k \in stored : TRUE

Vault == INSTANCE KeyVault WITH key <- VaultKey, readable <- IsKeyFile(disk),
                                 held <- acct

\* load_or_generate, change_password, save_key and a crash keep the promise
\* of KeyVault: one identity, created once when there is no file, handed
\* out only from a readable file or by its creation, and made readable
\* again only by a holder of the account.
ImplementsVault == Vault!Spec
=============================================================================
