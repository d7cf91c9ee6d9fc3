--------------------------- MODULE KeystoreProofs ---------------------------
(***************************************************************************)
(* The keystore keeps its keys readable, for every set of addresses and    *)
(* passwords: proofs about module Keystore.                                *)
(***************************************************************************)
EXTENDS Keystore, WellFoundedInduction, TLAPS

Shape(k) == DOMAIN k = {"locked", "salt", "kek", "keys"}

\* All entries were closed under one password and the salt that is kept
\* with them; without a salt there are none.
Closed(f) ==
  /\ DOMAIN f.keys \subseteq Address
  /\ f.salt = None => DOMAIN f.keys = {}
  /\ OnePassword(f)

\* In an unlocked keystore the kek in memory is the one that closed them.
Sound(k) ==
  /\ Shape(k) /\ Closed(k)
  /\ k.locked \in BOOLEAN
  /\ ~k.locked => /\ k.salt # None
                  /\ \E pw \in Password : k.kek = DeriveKey(pw, k.salt)
                  /\ \A a \in DOMAIN k.keys : k.keys[a] = k.kek

KeysInv ==
  /\ salts \in Nat
  /\ Sound(ks)
  /\ walletFile \notin {None, Corrupt} => Closed(walletFile)

\* The first entry, whose opening Unlock tries, is one of the entries.
LEMMA FirstEntry ==
  ASSUME NEW A \in SUBSET Nat, A # {}
  PROVE  Min(A) \in A
<1>1. PICK x \in A : \A y \in A : x <= y
  <2>1. PICK x \in A : \A y \in A : ~ <<y, x>> \in OpToRel(<, Nat)
    BY NatLessThanWellFounded, WFMin
  <2>2. \A y \in A : ~ (y < x)
    BY <2>1 DEF OpToRel
  <2>3. QED
    BY <2>2
<1>2. QED
  BY <1>1 DEF Min

\* A keystore as constructed is sound.
LEMMA EmptySound == Sound(EmptyKeystore)
BY KeystoreAssumption DEF Sound, Shape, Closed, OnePassword, EmptyKeystore

\* Each operation on a keystore gives a sound one.
LEMMA AddKeySound ==
  ASSUME NEW k, Sound(k), NEW a \in Address
  PROVE  Sound(AddKey(k, a))
<1>1. CASE k.locked
  BY <1>1 DEF AddKey
<1>2. CASE ~k.locked
  <2> DEFINE e == [x \in DOMAIN k.keys \cup {a} |-> IF x = a THEN k.kek ELSE k.keys[x]]
             u == AddKey(k, a)
  <2>1. /\ Shape(u) /\ u.salt = k.salt /\ u.locked = k.locked /\ u.kek = k.kek
        /\ u.keys = e
    BY <1>2 DEF AddKey, Sound, Shape
  <2>2. /\ DOMAIN e \subseteq Address /\ k.salt # None
        /\ \A x \in DOMAIN e : e[x] = k.kek
        /\ \E pw \in Password : k.kek = DeriveKey(pw, k.salt)
    BY <1>2 DEF Sound, Closed
  <2> HIDE DEF u, e
  <2>3. Sound(u)
    BY <1>2, <2>1, <2>2 DEF Sound, Closed, OnePassword
  <2>4. QED
    BY <2>3 DEF u
<1>3. QED
  BY <1>1, <1>2

LEMMA LockSound ==
  ASSUME NEW k, Sound(k)
  PROVE  Sound(Lock(k))
<1> DEFINE u == Lock(k)
<1>1. Shape(u) /\ u.salt = k.salt /\ u.locked = TRUE /\ u.keys = k.keys
  BY DEF Lock, Sound, Shape
<1> HIDE DEF u
<1>2. Sound(u)
  BY <1>1 DEF Sound, Closed, OnePassword
<1>3. QED
  BY <1>2 DEF u

LEMMA UnlockSound ==
  ASSUME NEW k, Sound(k), NEW pw \in Password, NEW r \in Nat
  PROVE  Sound(Unlock(k, pw, r))
<1> DEFINE s == SaltOf(k, r)
<1>1. s # None /\ (DOMAIN k.keys # {} => s = k.salt)
  BY KeystoreAssumption DEF SaltOf, Sound, Closed
<1>2. CASE UnlockOk(k, pw, r)
  <2>1. ASSUME DOMAIN k.keys # {}
        PROVE  \A a \in DOMAIN k.keys : k.keys[a] = DeriveKey(pw, s)
    <3>1. Min(DOMAIN k.keys) \in DOMAIN k.keys
      BY <2>1, FirstEntry, KeystoreAssumption DEF Sound, Closed
    <3>2. k.keys[Min(DOMAIN k.keys)] = DeriveKey(pw, s)
      BY <1>2, <2>1 DEF UnlockOk, AesDecrypt
    <3>3. PICK p \in Password : \A a \in DOMAIN k.keys : k.keys[a] = DeriveKey(p, s)
      BY <1>1, <2>1 DEF Sound, Closed, OnePassword
    <3>4. QED
      BY <3>1, <3>2, <3>3
  <2> DEFINE u == Unlock(k, pw, r)
  <2>2. /\ Shape(u) /\ u.salt = s /\ u.locked = FALSE /\ u.keys = k.keys
        /\ u.kek = DeriveKey(pw, s)
    BY <1>2 DEF Unlock, Sound, Shape
  <2> HIDE DEF u, s
  <2>3. QED
    BY <1>1, <2>1, <2>2 DEF Sound, Closed, OnePassword, u
<1>3. CASE ~UnlockOk(k, pw, r)
  <2> DEFINE u == Unlock(k, pw, r)
  <2>1. /\ Shape(u) /\ u.salt = s /\ u.locked = k.locked /\ u.keys = k.keys
        /\ u.kek = k.kek
    BY <1>3 DEF Unlock, Sound, Shape
  <2>2. DOMAIN k.keys # {} /\ s = k.salt
    BY <1>1, <1>3 DEF UnlockOk
  <2> HIDE DEF u, s
  <2>3. QED
    BY <1>1, <2>1, <2>2 DEF Sound, Closed, OnePassword, u
<1>4. QED
  BY <1>2, <1>3

LEMMA ReencryptSound ==
  ASSUME NEW k, Sound(k), ~k.locked, NEW pw \in Password, NEW r \in Nat,
         NEW done \in SUBSET DOMAIN k.keys
  PROVE  Sound(Reencrypt(k, pw, r, done))
<1> DEFINE u == Reencrypt(k, pw, r, done)
           e == [a \in done |-> DeriveKey(pw, r)]
<1>1. /\ Shape(u) /\ u.salt = r /\ u.locked = k.locked /\ u.kek = DeriveKey(pw, r)
      /\ u.keys = e
  BY DEF Reencrypt, Sound, Shape
<1>2. /\ DOMAIN e \subseteq Address /\ r # None
      /\ \A a \in DOMAIN e : e[a] = DeriveKey(pw, r)
  BY KeystoreAssumption DEF Sound, Closed
<1> HIDE DEF u, e
<1>3. Sound(u)
  BY <1>1, <1>2 DEF Sound, Closed, OnePassword
<1>4. QED
  BY <1>3 DEF u

\* What is saved is closed, and a keystore loaded from it is sound.
LEMMA SerializeClosed ==
  ASSUME NEW k, Sound(k)
  PROVE  Closed(Serialize(k))
BY DEF Serialize, Sound, Closed, OnePassword

LEMMA DeserializeSound ==
  ASSUME NEW f, Closed(f)
  PROVE  Sound(Deserialize(f))
<1> DEFINE u == Deserialize(f)
<1>1. Shape(u) /\ u.salt = f.salt /\ u.locked = TRUE /\ u.keys = f.keys
  BY DEF Deserialize, EmptyKeystore, Shape
<1> HIDE DEF u
<1>2. Sound(u)
  BY <1>1 DEF Sound, Closed, OnePassword
<1>3. QED
  BY <1>2 DEF u

\* ChangePassword leaves a sound keystore, however far it gets.
LEMMA ChangePasswordKeeps ==
  ASSUME KeysInv, NEW old \in Password, NEW new \in Password, ChangePassword(old, new)
  PROVE  KeysInv'
<1> DEFINE k == IF ks.locked THEN Unlock(ks, old, Fresh) ELSE ks
<1>1. Sound(k) /\ Fresh \in Nat
  BY UnlockSound DEF KeysInv, Fresh
<1>2. walletFile' = walletFile
  BY DEF ChangePassword, Operate
<1>3. \/ ks' = k /\ salts' = salts
      \/ /\ ~k.locked /\ Draw
         /\ \E done \in Reencrypted(k) : ks' = Reencrypt(k, new, Fresh, done)
  BY DEF ChangePassword
<1> HIDE DEF k
<1>4. \A done \in Reencrypted(k) : done \in SUBSET DOMAIN k.keys
  BY DEF Reencrypted
<1>5. Sound(ks') /\ salts' \in Nat
  BY <1>1, <1>3, <1>4, ReencryptSound DEF KeysInv, Draw, Fresh
<1>6. QED
  BY <1>2, <1>5 DEF KeysInv

\* So do the operations that add a key.
LEMMA AdditionsKeep ==
  ASSUME KeysInv, NEW a \in Address, GenerateNewAddress(a) \/ ImportKey(a)
  PROVE  KeysInv'
<1>1. walletFile' = walletFile /\ salts' = salts /\ ks' = AddKey(ks, a)
  BY DEF GenerateNewAddress, ImportKey, Operate
<1>2. QED
  BY <1>1, AddKeySound DEF KeysInv

\* So do those that take a password, and a backup.
LEMMA PasswordsKeep ==
  ASSUME KeysInv, NEW pw \in Password, LoadWallet(pw) \/ UnlockWallet(pw) \/ SaveBackup(pw)
  PROVE  KeysInv'
<1>1. Fresh \in Nat /\ Sound(ks) /\ Sound(EmptyKeystore)
  BY EmptySound DEF KeysInv, Fresh
<1>2. CASE LoadWallet(pw)
  <2>1. /\ Closed(walletFile) /\ walletFile' = walletFile /\ salts' = salts
        /\ ks' = Unlock(Deserialize(walletFile), pw, Fresh)
    BY <1>2 DEF LoadWallet, KeysInv
  <2>2. Sound(ks')
    BY <1>1, <2>1, DeserializeSound, UnlockSound
  <2>3. QED
    BY <2>1, <2>2 DEF KeysInv
<1>3. CASE UnlockWallet(pw)
  <2>1. walletFile' = walletFile /\ salts' \in Nat /\ ks' = Unlock(ks, pw, Fresh)
    BY <1>3 DEF UnlockWallet, Operate, Draw, Fresh, KeysInv
  <2>2. QED
    BY <1>1, <2>1, UnlockSound DEF KeysInv
<1>4. CASE SaveBackup(pw)
  <2>1. ks' \in {ks, EmptyKeystore} /\ walletFile' = walletFile /\ salts' = Fresh
    BY <1>4 DEF SaveBackup, Gone, Draw
  <2>2. QED
    BY <1>1, <2>1 DEF KeysInv
<1>5. QED
  BY <1>2, <1>3, <1>4

\* So does -createwallet, if its write is torn too.
LEMMA CreateKeeps ==
  ASSUME KeysInv, NEW a \in Address, NEW pw \in Password, CreateWallet(pw, a)
  PROVE  KeysInv'
<1> DEFINE k == AddKey(Unlock(EmptyKeystore, pw, Fresh), a)
<1>1. Fresh \in Nat
  BY DEF KeysInv, Fresh
<1>2. Sound(k)
  BY <1>1, EmptySound, AddKeySound, UnlockSound
<1>3. /\ salts' = Fresh
      /\ \/ ks' = k /\ walletFile' = Serialize(k)
         \/ ks' = ks /\ walletFile' = Corrupt
  BY DEF CreateWallet, Draw
<1> HIDE DEF k
<1>4. QED
  BY <1>1, <1>2, <1>3, SerializeClosed DEF KeysInv

\* So do a lock and the end of the process.
LEMMA EndsKeep ==
  ASSUME KeysInv, RunWithoutWallet \/ Stop \/ LockWallet
  PROVE  KeysInv'
<1>1. CASE RunWithoutWallet
  BY <1>1, EmptySound DEF RunWithoutWallet, KeysInv
<1>2. CASE LockWallet
  BY <1>2, LockSound DEF LockWallet, Operate, KeysInv
<1>3. CASE Stop
  <2>1. ks' = EmptyKeystore /\ salts' = salts
    BY <1>3 DEF Stop, Gone
  <2>2. walletFile' \in {walletFile, Serialize(ks), Corrupt}
    BY <1>3 DEF Stop, SavedFiles
  <2>3. QED
    BY <2>1, <2>2, SerializeClosed, EmptySound DEF KeysInv
<1>4. QED
  BY <1>1, <1>2, <1>3

\* The invariant holds of every behaviour.
LEMMA KeysInvariant == Spec => []KeysInv
<1>1. Init => KeysInv
  BY EmptySound DEF Init, KeysInv
<1>2. KeysInv /\ [Next]_vars => KeysInv'
  <2>1. KeysInv /\ UNCHANGED vars => KeysInv'
    BY DEF vars, KeysInv
  <2>2. KeysInv /\ Next => KeysInv'
    BY ChangePasswordKeeps, AdditionsKeep, PasswordsKeep, CreateKeeps, EndsKeep DEF Next
  <2>3. QED
    BY <2>1, <2>2
<1>3. QED
  BY <1>1, <1>2, PTL DEF Spec

\* Whatever is done with the keystore, interrupted password changes and torn
\* files included, one password opens every key, in memory and in wallet.dat.
THEOREM KeysOpen == Spec => []EveryKeyOpens
<1>1. KeysInv => EveryKeyOpens
  BY DEF KeysInv, EveryKeyOpens, Sound, Closed, GetKey, AesDecrypt
<1>2. QED
  BY <1>1, KeysInvariant, PTL

\* No operation of a running wallet drops a key, as long as encryption does
\* not fail inside ChangePassword.
THEOREM KeysRemain ==
  ASSUME "cipher" \notin Faults
  PROVE  Spec => KeysStay
<1>1. KeysInv /\ [Next]_vars
        => [running /\ running' => DOMAIN ks.keys \subseteq DOMAIN ks'.keys]_vars
  <2> SUFFICES ASSUME KeysInv, Next, running, running'
               PROVE  DOMAIN ks.keys \subseteq DOMAIN ks'.keys
    OBVIOUS
  <2>1. ASSUME NEW k, Shape(k)
        PROVE  /\ Lock(k).keys = k.keys
               /\ \A pw, r : Unlock(k, pw, r).keys = k.keys /\ Shape(Unlock(k, pw, r))
               /\ \A a : DOMAIN k.keys \subseteq DOMAIN AddKey(k, a).keys
               /\ \A pw, r, done : DOMAIN Reencrypt(k, pw, r, done).keys = done
    BY <2>1 DEF Shape, Lock, Unlock, AddKey, Reencrypt
  <2>2. Shape(ks)
    BY DEF KeysInv, Sound
  <2>3. ASSUME NEW old \in Password, NEW new \in Password, ChangePassword(old, new)
        PROVE  DOMAIN ks.keys \subseteq DOMAIN ks'.keys
    <3> DEFINE k == IF ks.locked THEN Unlock(ks, old, Fresh) ELSE ks
    <3>1. k.keys = ks.keys /\ Shape(k)
      BY <2>1, <2>2
    <3>2. ks' = k \/ \E done \in Reencrypted(k) : ks' = Reencrypt(k, new, Fresh, done)
      BY <2>3 DEF ChangePassword
    <3> HIDE DEF k
    <3>3. Reencrypted(k) = {DOMAIN k.keys}
      BY DEF Reencrypted
    <3>4. QED
      BY <2>1, <3>1, <3>2, <3>3
  <2>4. ASSUME NEW a \in Address, GenerateNewAddress(a) \/ ImportKey(a)
        PROVE  DOMAIN ks.keys \subseteq DOMAIN ks'.keys
    BY <2>1, <2>2, <2>4 DEF GenerateNewAddress, ImportKey
  <2>5. ASSUME NEW pw \in Password, UnlockWallet(pw) \/ SaveBackup(pw)
        PROVE  DOMAIN ks.keys \subseteq DOMAIN ks'.keys
    BY <2>1, <2>2, <2>5 DEF UnlockWallet, SaveBackup, Gone
  <2>6. CASE LockWallet
    BY <2>1, <2>2, <2>6 DEF LockWallet
  <2>7. QED
    BY <2>3, <2>4, <2>5, <2>6
       DEF Next, RunWithoutWallet, Stop, Gone, LoadWallet, CreateWallet
<1>2. QED
  BY <1>1, KeysInvariant, PTL DEF Spec, KeysStay
=============================================================================
