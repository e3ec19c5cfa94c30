---------------------------- MODULE KeystoreProofs ----------------------------
(***************************************************************************)
(* Proofs about Keystore, for every value of its constants that satisfies  *)
(* KeystoreAssumption.                                                     *)
(*                                                                         *)
(* AccountStored is not inductive by itself: a load takes the secret from  *)
(* the file, so KeyInv also says that a complete file holds a stored       *)
(* secret.  KeyInv holds for any number of processes.  SingleIdentity      *)
(* needs more: a generation starts only when nothing has been stored and a *)
(* password change rewrites a stored secret.  That holds for a single      *)
(* process only (two processes can both find no file), so IdInv is proved  *)
(* under the hypothesis that Proc has at most one element.                *)
(***************************************************************************)
EXTENDS Keystore, TLAPS

\* A complete file holds a stored secret; there is no file only before any
\* secret was stored.
FileStored == IsKeyFile(disk) => disk.key \in stored
NoFileFresh == disk = NoFile => stored = {}
KeyInv == TypeOK /\ FileStored /\ NoFileFresh /\ AccountStored

\* A save in progress generates before anything was stored, or re-encrypts
\* a stored secret.
SavingStored ==
  \A p \in Proc :
    saving[p] # NoSave =>
      /\ saving[p].op = "generate" => stored = {}
      /\ saving[p].op = "change" => saving[p].key \in stored
IdInv == KeyInv /\ SavingStored /\ SingleIdentity

\* One process uses the keystore path.
SingleProc == \A p, q \in Proc : p = q

USE KeystoreAssumption

\* A complete file is a KeyFile record.
LEMMA KeyFileRec ==
  ASSUME TypeOK, IsKeyFile(disk)
  PROVE  disk \in KeyFile
BY DEF TypeOK, IsKeyFile

LEMMA InitKeyInv == Init => KeyInv
BY DEF Init, KeyInv, TypeOK, FileStored, NoFileFresh, AccountStored, IsKeyFile

LEMMA LoadOrGenerateKeyInv ==
  ASSUME NEW p \in Proc, NEW pw \in Password, KeyInv, LoadOrGenerate(p, pw)
  PROVE  KeyInv'
<1>1. CASE IsKeyFile(disk) /\ disk.pwd = pw
           /\ acct' = [acct EXCEPT ![p] = disk.key] /\ UNCHANGED saving
  <2>1. disk \in KeyFile /\ disk.key \in stored
    BY <1>1, KeyFileRec DEF KeyInv, FileStored
  <2>2. QED
    BY <1>1, <2>1 DEF LoadOrGenerate, KeyInv, TypeOK, FileStored,
       NoFileFresh, AccountStored, KeyFile
<1>2. CASE UNCHANGED <<saving, acct>>
  BY <1>2 DEF LoadOrGenerate, KeyInv, TypeOK, FileStored, NoFileFresh,
     AccountStored, IsKeyFile
<1>3. CASE \E k \in Key : SaveBegin(p, k, pw, "generate") /\ UNCHANGED acct
  BY <1>3 DEF LoadOrGenerate, SaveBegin, KeyInv, TypeOK, FileStored,
     NoFileFresh, AccountStored, IsKeyFile, Saving
<1>4. QED
  BY <1>1, <1>2, <1>3 DEF LoadOrGenerate

LEMMA ChangePasswordKeyInv ==
  ASSUME NEW p \in Proc, NEW pw \in Password, KeyInv, ChangePassword(p, pw)
  PROVE  KeyInv'
BY DEF ChangePassword, SaveBegin, KeyInv, TypeOK, FileStored, NoFileFresh,
   AccountStored, IsKeyFile, Saving

LEMMA TruncateKeyInv ==
  ASSUME NEW p \in Proc, KeyInv, Truncate(p)
  PROVE  KeyInv'
<1>1. saving[p] \in Saving
  BY DEF Truncate, KeyInv, TypeOK
<1>2. [saving[p] EXCEPT !.trunc = TRUE] \in Saving
  BY <1>1 DEF Saving
<1>3. QED
  BY <1>2, KeystoreAssumption DEF Truncate, KeyInv, TypeOK, FileStored,
     NoFileFresh, AccountStored, IsKeyFile

LEMMA SaveEndKeyInv ==
  ASSUME NEW p \in Proc, KeyInv, SaveEnd(p)
  PROVE  KeyInv'
<1>1. saving[p] \in Saving
  BY DEF SaveEnd, KeyInv, TypeOK
<1>2. CASE /\ disk' = [key |-> saving[p].key, pwd |-> saving[p].pwd]
           /\ stored' = stored \cup {saving[p].key}
           /\ acct' = IF saving[p].op = "generate"
                        THEN [acct EXCEPT ![p] = saving[p].key] ELSE acct
  <2>1. disk' \in KeyFile /\ IsKeyFile(disk') /\ disk'.key \in stored'
    BY <1>1, <1>2, KeystoreAssumption DEF Saving, KeyFile, IsKeyFile
  <2>2. AccountStored'
    BY <1>1, <1>2 DEF KeyInv, TypeOK, AccountStored, Saving
  <2>3. QED
    BY <1>1, <1>2, <2>1, <2>2 DEF SaveEnd, KeyInv, TypeOK, FileStored,
       NoFileFresh, Saving
<1>3. CASE UNCHANGED <<disk, stored, acct>>
  BY <1>3 DEF SaveEnd, KeyInv, TypeOK, FileStored, NoFileFresh,
     AccountStored, IsKeyFile
<1>4. QED
  BY <1>2, <1>3 DEF SaveEnd

LEMMA CrashKeyInv ==
  ASSUME NEW p \in Proc, KeyInv, Crash(p)
  PROVE  KeyInv'
BY DEF Crash, KeyInv, TypeOK, FileStored, NoFileFresh, AccountStored,
   IsKeyFile

LEMMA KeyInvInductive == KeyInv /\ [Next]_vars => KeyInv'
<1> SUFFICES ASSUME KeyInv, [Next]_vars PROVE KeyInv'
  OBVIOUS
<1>1. ASSUME NEW p \in Proc, NEW pw \in Password,
             LoadOrGenerate(p, pw) \/ ChangePassword(p, pw)
      PROVE  KeyInv'
  BY <1>1, LoadOrGenerateKeyInv, ChangePasswordKeyInv
<1>2. ASSUME NEW p \in Proc, Truncate(p) PROVE KeyInv'
  BY <1>2, TruncateKeyInv
<1>3. ASSUME NEW p \in Proc, SaveEnd(p) PROVE KeyInv'
  BY <1>3, SaveEndKeyInv
<1>4. ASSUME NEW p \in Proc, Crash(p) PROVE KeyInv'
  BY <1>4, CrashKeyInv
<1>5. CASE UNCHANGED vars
  BY <1>5 DEF vars, KeyInv, TypeOK, FileStored, NoFileFresh, AccountStored,
     IsKeyFile
<1>6. QED
  BY <1>1, <1>2, <1>3, <1>4, <1>5 DEF Next

\* Whatever the processes sharing the path do, the keystore state keeps its
\* types: a save records a secret and a password, an account is a secret.
THEOREM TypeCorrect == Spec => []TypeOK
<1>1. KeyInv => TypeOK
  BY DEF KeyInv
<1>2. QED
  BY <1>1, InitKeyInv, KeyInvInductive, PTL DEF Spec

\* Across failed writes, crashes and the calls of any number of processes
\* sharing the path, the account load_or_generate hands out is a secret
\* that was written to the key file in full.
THEOREM AccountStoredHolds == Spec => []AccountStored
<1>1. KeyInv => AccountStored
  BY DEF KeyInv
<1>2. QED
  BY <1>1, InitKeyInv, KeyInvInductive, PTL DEF Spec

-----------------------------------------------------------------------------
(* One process: SingleIdentity.                                            *)

LEMMA InitIdInv == Init => IdInv
BY InitKeyInv DEF Init, IdInv, SavingStored, SingleIdentity

LEMMA LoadOrGenerateIdInv ==
  ASSUME SingleProc, NEW p \in Proc, NEW pw \in Password, IdInv,
         LoadOrGenerate(p, pw)
  PROVE  IdInv'
<1>1. KeyInv'
  BY LoadOrGenerateKeyInv DEF IdInv
<1>2. CASE \E k \in Key : SaveBegin(p, k, pw, "generate") /\ disk = NoFile
  <2>1. stored = {}
    BY <1>2 DEF IdInv, KeyInv, NoFileFresh
  <2>2. QED
    BY <1>1, <1>2, <2>1 DEF LoadOrGenerate, SaveBegin, IdInv, SavingStored,
       SingleIdentity
<1>3. CASE UNCHANGED saving
  BY <1>1, <1>3 DEF LoadOrGenerate, IdInv, SavingStored, SingleIdentity
<1>4. QED
  BY <1>2, <1>3 DEF LoadOrGenerate

LEMMA ChangePasswordIdInv ==
  ASSUME SingleProc, NEW p \in Proc, NEW pw \in Password, IdInv,
         ChangePassword(p, pw)
  PROVE  IdInv'
<1>1. KeyInv'
  BY ChangePasswordKeyInv DEF IdInv
<1>2. acct[p] \in stored
  BY DEF ChangePassword, IdInv, KeyInv, AccountStored
<1>3. QED
  BY <1>1, <1>2 DEF ChangePassword, SaveBegin, IdInv, SavingStored,
     SingleIdentity

LEMMA TruncateIdInv ==
  ASSUME SingleProc, NEW p \in Proc, IdInv, Truncate(p)
  PROVE  IdInv'
<1>1. KeyInv'
  BY TruncateKeyInv DEF IdInv
<1>2. QED
  BY <1>1, KeystoreAssumption DEF Truncate, IdInv, KeyInv, TypeOK,
     SavingStored, SingleIdentity, Saving

LEMMA SaveEndIdInv ==
  ASSUME SingleProc, NEW p \in Proc, IdInv, SaveEnd(p)
  PROVE  IdInv'
<1>1. KeyInv'
  BY SaveEndKeyInv DEF IdInv
<1>2. saving[p] # NoSave
  BY DEF SaveEnd
<1>3. SavingStored'
  <2>1. saving'[p] = NoSave
    BY DEF SaveEnd, IdInv, KeyInv, TypeOK
  <2>2. QED
    BY <2>1 DEF SingleProc, SavingStored
<1>4. SingleIdentity'
  <2>1. saving[p].op = "generate" => stored = {}
    BY <1>2 DEF IdInv, SavingStored
  <2>2. saving[p].op = "change" => saving[p].key \in stored
    BY <1>2 DEF IdInv, SavingStored
  <2>3. saving[p].op \in {"generate", "change"}
    BY <1>2 DEF IdInv, KeyInv, TypeOK, Saving
  <2>4. QED
    BY <2>1, <2>2, <2>3 DEF SaveEnd, IdInv, SingleIdentity
<1>5. QED
  BY <1>1, <1>3, <1>4 DEF IdInv

LEMMA CrashIdInv ==
  ASSUME NEW p \in Proc, IdInv, Crash(p)
  PROVE  IdInv'
<1>1. KeyInv'
  BY CrashKeyInv DEF IdInv
<1>2. QED
  BY <1>1 DEF Crash, IdInv, SavingStored, SingleIdentity

LEMMA IdInvInductive ==
  ASSUME SingleProc
  PROVE  IdInv /\ [Next]_vars => IdInv'
<1> SUFFICES ASSUME IdInv, [Next]_vars PROVE IdInv'
  OBVIOUS
<1>1. ASSUME NEW p \in Proc, NEW pw \in Password,
             LoadOrGenerate(p, pw) \/ ChangePassword(p, pw)
      PROVE  IdInv'
  BY <1>1, LoadOrGenerateIdInv, ChangePasswordIdInv
<1>2. ASSUME NEW p \in Proc, Truncate(p) PROVE IdInv'
  BY <1>2, TruncateIdInv
<1>3. ASSUME NEW p \in Proc, SaveEnd(p) PROVE IdInv'
  BY <1>3, SaveEndIdInv
<1>4. ASSUME NEW p \in Proc, Crash(p) PROVE IdInv'
  BY <1>4, CrashIdInv
<1>5. CASE UNCHANGED vars
  BY <1>5 DEF vars, IdInv, KeyInv, TypeOK, FileStored, NoFileFresh,
     AccountStored, IsKeyFile, SavingStored, SingleIdentity
<1>6. QED
  BY <1>1, <1>2, <1>3, <1>4, <1>5 DEF Next

\* With one process on the keystore path, load_or_generate and
\* change_password never write a second secret there, whatever the order
\* of calls, failures and crashes.  (Two processes can: both find no file
\* and both generate; see the keystore race run.)
THEOREM SingleIdentityHolds ==
  ASSUME SingleProc
  PROVE  Spec => []SingleIdentity
<1>1. IdInv => SingleIdentity
  BY DEF IdInv
<1>2. QED
  BY <1>1, InitIdInv, IdInvInductive, PTL DEF Spec

-----------------------------------------------------------------------------
(* One process: Keystore implements KeyVault.                              *)

\* A change_password in progress rewrites the account its caller holds.
SavingHeld ==
  \A p \in Proc :
    saving[p] # NoSave /\ saving[p].op = "change" => acct[p] = saving[p].key
VInv == IdInv /\ SavingHeld

\* With one secret stored, the identity of the path is that secret.
LEMMA VaultKeyIs ==
  ASSUME SingleIdentity, NEW k \in stored
  PROVE  VaultKey = k
BY DEF SingleIdentity, VaultKey

LEMMA VaultKeyNone ==
  ASSUME stored = {}
  PROVE  VaultKey = NoAccount
BY DEF VaultKey

LEMMA InitVInv == Init => VInv
BY InitIdInv DEF Init, VInv, SavingHeld

LEMMA VInvInductive ==
  ASSUME SingleProc
  PROVE  VInv /\ [Next]_vars => VInv'
<1> SUFFICES ASSUME VInv, [Next]_vars PROVE VInv'
  OBVIOUS
<1>1. IdInv'
  BY IdInvInductive DEF VInv
<1>2. SavingHeld'
  <2>1. ASSUME NEW p \in Proc, NEW pw \in Password, LoadOrGenerate(p, pw)
        PROVE  SavingHeld'
    BY <2>1 DEF LoadOrGenerate, SaveBegin, VInv, IdInv, KeyInv, TypeOK,
       SavingHeld
  <2>2. ASSUME NEW p \in Proc, NEW pw \in Password, ChangePassword(p, pw)
        PROVE  SavingHeld'
    BY <2>2 DEF ChangePassword, SaveBegin, VInv, SavingHeld
  <2>3. ASSUME NEW p \in Proc, Truncate(p) PROVE SavingHeld'
    BY <2>3, KeystoreAssumption DEF Truncate, VInv, IdInv, KeyInv, TypeOK,
       SavingHeld, Saving
  <2>4. ASSUME NEW p \in Proc, SaveEnd(p) PROVE SavingHeld'
    BY <2>4 DEF SaveEnd, VInv, IdInv, KeyInv, TypeOK, SavingHeld, SingleProc
  <2>5. ASSUME NEW p \in Proc, Crash(p) PROVE SavingHeld'
    BY <2>5 DEF Crash, VInv, IdInv, KeyInv, TypeOK, SavingHeld
  <2>6. CASE UNCHANGED vars
    BY <2>6 DEF vars, VInv, SavingHeld
  <2>7. QED
    BY <2>1, <2>2, <2>3, <2>4, <2>5, <2>6 DEF Next
<1>3. QED
  BY <1>1, <1>2 DEF VInv

LEMMA InitVault == Init => Vault!Init
<1> SUFFICES ASSUME Init PROVE Vault!Init
  OBVIOUS
<1>1. VaultKey = NoAccount
  BY VaultKeyNone DEF Init
<1>2. QED
  BY <1>1, KeystoreAssumption DEF Init, Vault!Init, IsKeyFile

\* A load reads the identity: the file holds the stored secret.
LEMMA LoadOrGenerateVault ==
  ASSUME VInv, NEW p \in Proc, NEW pw \in Password, LoadOrGenerate(p, pw)
  PROVE  [Vault!Next]_Vault!vvars
<1>1. UNCHANGED <<disk, stored>>
  BY DEF LoadOrGenerate
<1>2. CASE IsKeyFile(disk) /\ disk.pwd = pw
           /\ acct' = [acct EXCEPT ![p] = disk.key]
  <2>1. disk.key \in stored
    BY <1>2 DEF VInv, IdInv, KeyInv, FileStored
  <2>2. VaultKey = disk.key /\ VaultKey' = VaultKey
    BY <1>1, <2>1, VaultKeyIs DEF VInv, IdInv, VaultKey
  <2>3. Vault!Load(p)
    BY <1>1, <1>2, <2>2 DEF Vault!Load
  <2>4. QED
    BY <2>3 DEF Vault!Next
<1>3. CASE UNCHANGED acct
  BY <1>1, <1>3 DEF Vault!vvars, VaultKey
<1>4. QED
  BY <1>2, <1>3 DEF LoadOrGenerate

\* The truncation damages the file, or fails and leaves it.
LEMMA TruncateVault ==
  ASSUME VInv, NEW p \in Proc, Truncate(p)
  PROVE  [Vault!Next]_Vault!vvars
<1>1. UNCHANGED <<acct, stored>>
  BY DEF Truncate
<1>2. CASE disk' = Partial
  <2>1. Vault!Damage
    BY <1>1, <1>2 DEF Vault!Damage, IsKeyFile, VaultKey
  <2>2. QED
    BY <2>1 DEF Vault!Next
<1>3. CASE UNCHANGED disk
  BY <1>1, <1>3 DEF Vault!vvars, VaultKey
<1>4. QED
  BY <1>2, <1>3 DEF Truncate

\* A complete write creates the identity (generate) or rewrites it
\* (change); a failed one leaves the file unreadable as it was.
LEMMA SaveEndVault ==
  ASSUME SingleProc, VInv, NEW p \in Proc, SaveEnd(p)
  PROVE  [Vault!Next]_Vault!vvars
<1> DEFINE k == saving[p].key
<1>1. saving[p] \in Saving
  BY DEF SaveEnd, VInv, IdInv, KeyInv, TypeOK
<1>2. k \in Key /\ saving[p].op \in {"generate", "change"}
  BY <1>1 DEF Saving
<1>0. saving[p] # NoSave
  BY DEF SaveEnd
<1>3. CASE /\ disk' = [key |-> k, pwd |-> saving[p].pwd]
           /\ stored' = stored \cup {k}
           /\ acct' = IF saving[p].op = "generate"
                        THEN [acct EXCEPT ![p] = k] ELSE acct
  <2>1. IsKeyFile(disk')
    BY <1>1, <1>3, KeystoreAssumption DEF IsKeyFile, Saving, KeyFile
  <2>2. CASE saving[p].op = "generate"
    <3>1. stored = {} /\ stored' = {k}
      BY <1>0, <1>3, <2>2 DEF VInv, IdInv, SavingStored
    <3>2. VaultKey = NoAccount /\ VaultKey' = k
      BY <3>1, VaultKeyNone DEF VaultKey
    <3>3. acct' = [acct EXCEPT ![p] = k]
      BY <1>3, <2>2
    <3>4. Vault!Create(p, k)
      BY <2>1, <3>2, <3>3 DEF Vault!Create
    <3>5. QED
      BY <1>2, <3>4 DEF Vault!Next
  <2>3. CASE saving[p].op = "change"
    <3>1. k \in stored /\ stored' = stored
      BY <1>0, <1>3, <2>3 DEF VInv, IdInv, SavingStored
    <3>2. VaultKey = k /\ VaultKey' = VaultKey
      BY <3>1, VaultKeyIs DEF VInv, IdInv, VaultKey
    <3>3. acct' = acct /\ acct[p] = k
      BY <1>0, <1>3, <2>3 DEF VInv, SavingHeld
    <3>4. Vault!Rewrite(p)
      BY <1>2, <2>1, <3>2, <3>3, KeystoreAssumption DEF Vault!Rewrite
    <3>5. QED
      BY <3>4 DEF Vault!Next
  <2>4. QED
    BY <1>2, <2>2, <2>3
<1>4. CASE UNCHANGED <<disk, stored, acct>>
  BY <1>4 DEF Vault!vvars, VaultKey
<1>5. QED
  BY <1>3, <1>4 DEF SaveEnd

LEMMA CrashVault ==
  ASSUME NEW p \in Proc, Crash(p)
  PROVE  [Vault!Next]_Vault!vvars
<1>1. Vault!Drop(p)
  BY DEF Crash, Vault!Drop, VaultKey
<1>2. QED
  BY <1>1 DEF Vault!Next

LEMMA StepVault ==
  ASSUME SingleProc
  PROVE  VInv /\ [Next]_vars => [Vault!Next]_Vault!vvars
<1> SUFFICES ASSUME VInv, [Next]_vars PROVE [Vault!Next]_Vault!vvars
  OBVIOUS
<1>1. ASSUME NEW p \in Proc, NEW pw \in Password, LoadOrGenerate(p, pw)
      PROVE  [Vault!Next]_Vault!vvars
  BY <1>1, LoadOrGenerateVault
<1>2. ASSUME NEW p \in Proc, NEW pw \in Password, ChangePassword(p, pw)
      PROVE  [Vault!Next]_Vault!vvars
  BY <1>2 DEF ChangePassword, Vault!vvars, VaultKey
<1>3. ASSUME NEW p \in Proc, Truncate(p) PROVE [Vault!Next]_Vault!vvars
  BY <1>3, TruncateVault
<1>4. ASSUME NEW p \in Proc, SaveEnd(p) PROVE [Vault!Next]_Vault!vvars
  BY <1>4, SaveEndVault
<1>5. ASSUME NEW p \in Proc, Crash(p) PROVE [Vault!Next]_Vault!vvars
  BY <1>5, CrashVault
<1>6. CASE UNCHANGED vars
  BY <1>6 DEF vars, Vault!vvars, VaultKey
<1>7. QED
  BY <1>1, <1>2, <1>3, <1>4, <1>5, <1>6 DEF Next

\* With one process on the path, load_or_generate, change_password,
\* save_key and crashes keep the promise of KeyVault: one identity,
\* created once, handed out only from a readable file or by its creation,
\* and made readable again only by a holder of the account.
THEOREM ImplementsVaultHolds ==
  ASSUME SingleProc
  PROVE  Spec => ImplementsVault
<1>1. Init => Vault!Init
  BY InitVault
<1>2. VInv /\ [Next]_vars => [Vault!Next]_Vault!vvars
  BY StepVault
<1>3. Init => VInv
  BY InitVInv
<1>4. VInv /\ [Next]_vars => VInv'
  BY VInvInductive
<1>5. QED
  BY <1>1, <1>2, <1>3, <1>4, PTL DEF Spec, ImplementsVault, Vault!Spec

====
