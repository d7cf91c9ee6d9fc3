------------------------------ MODULE Keystore ------------------------------
(***************************************************************************)
(* CKeystore and the life of the keys of a node: the encrypted store in    *)
(* memory, wallet.dat, the backup file, and the process that loads and     *)
(* saves them.  A private key is identified with its address.  Encryption  *)
(* is abstracted to the key it is done with: an entry opens with the key   *)
(* encryption key (kek) that closed it and with no other (AES-256-GCM).    *)
(* Addresses are numbers because std::map keeps entries in their order; a  *)
(* new address may come anywhere in it.                                    *)
(***************************************************************************)
EXTENDS Integers, FiniteSets, FiniteSetsExt

CONSTANTS
  Address,         \* a set of numbers
  Password,
  None,            \* no salt, no kek, no file
  Corrupt,         \* a wallet.dat that Deserialize rejects
  MaxSalt,         \* bound: how many salts are drawn
  VersionByte,     \* params.addressVersion
  DefaultVersion,  \* CWallet::versionByte as constructed, 0x1E
  Faults           \* the failures considered, see FaultKind

\* "torn_file": the process dies while it rewrites wallet.dat or the backup
\* in place.  "cipher": AesEncrypt throws in the middle of ChangePassword.
FaultKind == {"torn_file", "cipher"}

ASSUME KeystoreAssumption ==
  /\ Address \subseteq Nat /\ MaxSalt \in Nat
  /\ Password # {} /\ None \notin Nat
  /\ Faults \subseteq FaultKind

VARIABLES
  running,       \* is the process alive, past the loading of the wallet?
  walletLoaded,
  ks,            \* wallet.keystore: locked, salt, kek, keys
  walletFile,    \* wallets/wallet.dat
  backupFile,    \* wallets/cdx-wallet-backup.dat
  salts,         \* how many salts RAND_bytes has produced; all differ
  returned,      \* history: the addresses GenerateNewAddress has returned
  owned          \* history: the keys added to the wallet that was loaded, but
                 \* for those a crash took from memory

vars == <<running, walletLoaded, ks, walletFile, backupFile, salts, returned,
          owned>>

-----------------------------------------------------------------------------
(* keystore.cpp *)

\* CKeystore as constructed.
EmptyKeystore == [locked |-> TRUE, salt |-> None, kek |-> None, keys |-> <<>>]

DeriveKey(pw, salt) == <<pw, salt>>

\* An entry is the kek it was closed with; does this one open it?
AesDecrypt(kek, entry) == entry = kek

GetKey(k, a) ==
  ~k.locked /\ a \in DOMAIN k.keys /\ AesDecrypt(k.kek, k.keys[a])

AddKey(k, a) ==
  IF k.locked THEN k
  ELSE [k EXCEPT !.keys = [x \in DOMAIN @ \cup {a} |->
                             IF x = a THEN k.kek ELSE @[x]]]

Lock(k) == [k EXCEPT !.kek = None, !.locked = TRUE]

\* The salt Unlock derives with: a new one, r, if there is none.
SaltOf(k, r) == IF k.salt = None THEN r ELSE k.salt

\* The password is tried on the first entry only.
UnlockOk(k, pw, r) ==
  DOMAIN k.keys = {}
    \/ AesDecrypt(DeriveKey(pw, SaltOf(k, r)), k.keys[Min(DOMAIN k.keys)])

\* Mutant: a keystore is unlocked whatever the password.
UnlockAlways(k, pw, r) ==
  [k EXCEPT !.salt = SaltOf(k, r), !.locked = FALSE,
            !.kek = DeriveKey(pw, SaltOf(k, r))]

\* A refused password changes neither the lock nor the kek.
Unlock(k, pw, r) ==
  IF UnlockOk(k, pw, r)
  THEN [k EXCEPT !.salt = SaltOf(k, r), !.locked = FALSE,
                 !.kek = DeriveKey(pw, SaltOf(k, r))]
  ELSE [k EXCEPT !.salt = SaltOf(k, r)]

\* The last part of ChangePassword: the entries are cleared, and those of
\* done are closed again with a new salt.
Reencrypt(k, pw, r, done) ==
  [k EXCEPT !.salt = r, !.kek = DeriveKey(pw, r),
            !.keys = [a \in done |-> DeriveKey(pw, r)]]

\* The entries the loop of ChangePassword gets to: all, unless AesEncrypt
\* throws after some.
Reencrypted(k) ==
  {DOMAIN k.keys} \cup
  (IF "cipher" \in Faults
   THEN {{a \in DOMAIN k.keys : a < b} : b \in DOMAIN k.keys} ELSE {})

\* Serialize and Deserialize: a keystore is loaded locked.
Serialize(k) == [salt |-> k.salt, keys |-> k.keys]

Deserialize(f) == [EmptyKeystore EXCEPT !.salt = f.salt, !.keys = f.keys]

-----------------------------------------------------------------------------
(* Backup and restore: wallet.cpp, backup.cpp *)

\* Mutant: the salt that is written is not the one the key is derived from.
BackupOtherSalt(k, pw, r) ==
  [salt |-> None, of |-> DOMAIN k.keys, made |-> ~k.locked, whole |-> TRUE,
   keys |-> [a \in {x \in DOMAIN k.keys : GetKey(k, x)} |->
               DeriveKey(pw, r)]]

\* Backup skips the keys that GetKey does not give.  "of" and "made" are
\* history: the keys there were, and whether the keystore was unlocked.
Backup(k, pw, r) ==
  [salt |-> r, of |-> DOMAIN k.keys, made |-> ~k.locked, whole |-> TRUE,
   keys |-> [a \in {x \in DOMAIN k.keys : GetKey(k, x)} |->
               DeriveKey(pw, r)]]

\* The backup file cut inside its entries.
CutBackup(f) ==
  {[f EXCEPT !.whole = FALSE, !.keys = [a \in cut |-> f.keys[a]]] :
     cut \in {{a \in DOMAIN f.keys : a < b} : b \in DOMAIN f.keys}}

\* Restore: each entry must open with the password.  It counts when its key
\* gives its address under the version byte of a new CWallet.  Keys read
\* before a cut stay, and the keystore is then not locked.
Restore(f, pw, r) ==
  LET open == \A a \in DOMAIN f.keys :
                AesDecrypt(DeriveKey(pw, f.salt), f.keys[a])
      kept == {a \in DOMAIN f.keys : VersionByte = DefaultVersion}
      filled == FoldSet(LAMBDA a, k : AddKey(Unlock(k, pw, r), a),
                        EmptyKeystore, kept)
  IN  IF ~open THEN [error |-> TRUE, ks |-> EmptyKeystore]
      ELSE IF ~f.whole THEN [error |-> TRUE, ks |-> filled]
      ELSE [error |-> FALSE, ks |-> Lock(filled)]

\* LoadBackupFile: without a file, an error and a new CWallet.
LoadBackupFile(f, pw, r) ==
  IF f = None THEN [error |-> TRUE, ks |-> EmptyKeystore]
  ELSE Restore(f, pw, r)

-----------------------------------------------------------------------------
(* The process: main of cdxd.cpp *)

\* The salt RAND_bytes gives next.  Only a step that draws it counts it.
Fresh == salts + 1
Draw == salts < MaxSalt /\ salts' = Fresh

\* Start with a wallet.dat that loads and -walletpassword=pw.  The result of
\* Unlock is not looked at.
LoadWallet(pw) ==
  /\ ~running
  /\ walletFile \notin {None, Corrupt}
  /\ running' = TRUE
  /\ walletLoaded' = TRUE
  /\ ks' = Unlock(Deserialize(walletFile), pw, Fresh)
  /\ UNCHANGED <<walletFile, backupFile, salts, returned, owned>>

\* Start with -createwallet and no wallet.dat that loads: a keystore with
\* one key, written at once.
CreateWallet(pw, a) ==
  /\ ~running
  /\ walletFile \in {None, Corrupt}
  /\ a \notin returned
  /\ Draw
  /\ LET k == AddKey(Unlock(EmptyKeystore, pw, Fresh), a)
     IN  \/ /\ running' = TRUE
            /\ walletLoaded' = TRUE
            /\ ks' = k
            /\ walletFile' = Serialize(k)
         \/ /\ "torn_file" \in Faults
            /\ walletFile' = Corrupt
            /\ UNCHANGED <<running, walletLoaded, ks>>
  /\ returned' = returned \cup {a}
  /\ owned' = {a}
  /\ UNCHANGED backupFile

\* Start without a wallet: CWallet is there, locked and empty.
RunWithoutWallet ==
  /\ ~running
  /\ walletFile \in {None, Corrupt}
  /\ running' = TRUE
  /\ walletLoaded' = FALSE
  /\ ks' = EmptyKeystore
  /\ UNCHANGED <<walletFile, backupFile, salts, returned, owned>>

\* The process ends, whatever memory it had.
Gone ==
  /\ running' = FALSE
  /\ walletLoaded' = FALSE
  /\ ks' = EmptyKeystore

\* What the end of main leaves in wallet.dat.
SavedFiles ==
  IF ~walletLoaded THEN {walletFile}
  ELSE {Serialize(ks)}
         \cup (IF "torn_file" \in Faults THEN {Corrupt} ELSE {})

\* "Press Ctrl-C to stop": no handler sets g_stop, so the signal ends the
\* process at once.  The end of main, which waits for g_stop, is the other
\* way; nothing in this version leads there, but what it would write is kept.
Stop ==
  /\ running
  /\ Gone
  /\ walletFile' \in SavedFiles \cup {walletFile}
  /\ UNCHANGED <<backupFile, salts, returned, owned>>

-----------------------------------------------------------------------------
(* Operations on the wallet while the node runs.  The node itself generates *)
(* keys; the others are the rest of the interface, which the tests call.    *)

\* What an operation on keys leaves alone.
Operate ==
  /\ running
  /\ owned' = IF walletLoaded THEN owned \cup DOMAIN ks'.keys ELSE owned
  /\ UNCHANGED <<running, walletLoaded, walletFile, backupFile>>

\* getnewaddress, and the change key of sendtoaddress.  The result of AddKey
\* is not looked at.
GenerateNewAddress(a) ==
  /\ a \notin returned
  /\ ks' = AddKey(ks, a)
  /\ returned' = returned \cup {a}
  /\ UNCHANGED salts
  /\ Operate

\* ImportKey and ImportWIF; the key may be there already.
ImportKey(a) ==
  /\ ~ks.locked
  /\ ks' = AddKey(ks, a)
  /\ UNCHANGED <<salts, returned>>
  /\ Operate

LockWallet == ks' = Lock(ks) /\ UNCHANGED <<salts, returned>> /\ Operate

UnlockWallet(pw) ==
  /\ ks' = Unlock(ks, pw, Fresh)
  /\ IF ks.salt = None THEN Draw ELSE UNCHANGED salts
  /\ UNCHANGED returned
  /\ Operate

\* The old password is asked for only if the keystore is locked.  It may be
\* wrong; a key that cannot be read throws.  Either leaves the entries alone.
ChangePassword(old, new) ==
  LET k == IF ks.locked THEN Unlock(ks, old, Fresh) ELSE ks
  IN  /\ IF k.locked \/ \E a \in DOMAIN k.keys : ~GetKey(k, a)
         THEN ks' = k /\ UNCHANGED salts
         ELSE /\ Draw
              /\ \E done \in Reencrypted(k) :
                   ks' = Reencrypt(k, new, Fresh, done)
      /\ UNCHANGED returned
      /\ Operate

\* SaveBackupFile.
SaveBackup(pw) ==
  /\ running
  /\ Draw
  /\ LET f == Backup(ks, pw, Fresh)
     IN  \/ backupFile' = f /\ UNCHANGED <<running, walletLoaded, ks, owned>>
         \/ /\ "torn_file" \in Faults
            /\ backupFile' \in CutBackup(f)
            /\ Gone
            /\ owned' = IF walletFile \in {None, Corrupt} THEN {} ELSE DOMAIN walletFile.keys
  /\ UNCHANGED <<walletFile, returned>>

Init ==
  /\ running = FALSE
  /\ walletLoaded = FALSE
  /\ ks = EmptyKeystore
  /\ walletFile = None
  /\ backupFile = None
  /\ salts = 0
  /\ returned = {}
  /\ owned = {}

Next ==
  \/ RunWithoutWallet
  \/ Stop
  \/ LockWallet
  \/ \E a \in Address : GenerateNewAddress(a) \/ ImportKey(a)
  \/ \E pw \in Password :
       \/ LoadWallet(pw) \/ UnlockWallet(pw) \/ SaveBackup(pw)
       \/ \E a \in Address : CreateWallet(pw, a)
       \/ \E new \in Password : ChangePassword(pw, new)

Spec == Init /\ [][Next]_vars

-----------------------------------------------------------------------------
(* Properties *)

Keks == {DeriveKey(pw, s) : pw \in Password, s \in 1..MaxSalt}

KeyMap == UNION {[A -> Keks] : A \in SUBSET Address}

TypeOK ==
  /\ running \in BOOLEAN /\ walletLoaded \in BOOLEAN
  /\ ks \in [locked : BOOLEAN, salt : 1..MaxSalt \cup {None},
             kek : Keks \cup {None}, keys : KeyMap]
  /\ walletFile \in [salt : 1..MaxSalt, keys : KeyMap] \cup {None, Corrupt}
  /\ salts \in 0..MaxSalt
  /\ returned \subseteq Address /\ owned \subseteq Address

\* All the entries of a keystore, or of a saved one, open with one password.
OnePassword(k) ==
  \E pw \in Password :
    \A a \in DOMAIN k.keys : k.keys[a] = DeriveKey(pw, k.salt)

\* Unlock tries the password on one entry, and AddKey closes an entry with
\* whatever kek is in memory: still a keystore that is unlocked reads every
\* key, and the one password it opens with opens every key in memory and in
\* wallet.dat, after any sequence of additions, locks, password changes
\* (interrupted ones too) and restarts.
EveryKeyOpens ==
  /\ OnePassword(ks)
  /\ ~ks.locked => \A a \in DOMAIN ks.keys : GetKey(ks, a)
  /\ walletFile \notin {None, Corrupt} => OnePassword(walletFile)

\* While the process runs no operation on the wallet drops a key, a change
\* of the password included, which clears the entries and adds them again.
KeysStay ==
  [][running /\ running' => DOMAIN ks.keys \subseteq DOMAIN ks'.keys]_vars

\* "Press Ctrl-C to stop", "simpan wallet terakhir (hanya jika wallet aktif)"
\* (cdxd.cpp): a wallet that is loaded again after the node was stopped has
\* all its keys.  It does not hold: Ctrl-C does not lead to the saving.
KeysSurviveStop == walletLoaded => owned \subseteq DOMAIN ks.keys

\* A backup written while the keystore was unlocked gives back every key, in
\* a keystore that the password of the backup opens; a backup that was cut
\* short is reported, as is another password.
BackupRestores ==
  backupFile # None /\ backupFile.made =>
    LET Result(pw) == LoadBackupFile(backupFile, pw, Fresh)
    IN  /\ backupFile.whole => \E pw \in Password : ~Result(pw).error
        /\ \A pw \in Password :
             \/ Result(pw).error
             \/ \A a \in backupFile.of :
                  GetKey(Unlock(Result(pw).ks, pw, None), a)

\* "Enkripsi seluruh private keys ke file backup" (wallet.h): a complete
\* backup file has an entry for every key of the wallet.
\* The code does not keep this (README, "Deviations").
BackupHasEveryKey ==
  backupFile # None /\ backupFile.whole =>
    DOMAIN backupFile.keys = backupFile.of

\* "Setiap address memiliki private key sendiri" (wallet.h): the wallet has
\* the private key of an address that GenerateNewAddress returns.
\* The code does not keep this (README, "Deviations").
AddressHasKey ==
  [][\A a \in returned' \ returned : running' => a \in DOMAIN ks'.keys]_vars
=============================================================================
