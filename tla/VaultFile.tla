----------------------------- MODULE VaultFile -----------------------------
(***************************************************************************)
(* What is inside the vault's two stored objects and how the calls of      *)
(* SecureVaultImpl (packages/cemp-secure-vault/src/vault.ts, format.ts,    *)
(* kdf.ts) rewrite it.  Session follows one wallet through the app; here   *)
(* is the file itself: a header (KDF cost and salt, password slot,         *)
(* biometric slot) and the payload, encrypted under the VEK with the       *)
(* header as authenticated data.  Every edit reads the whole file, waits   *)
(* (for a KDF or a prompt) and writes the whole file back; nothing orders  *)
(* two of them.  Storage may also give back something else than was        *)
(* written to it.                                                          *)
(*                                                                         *)
(* A wallet's VEK is a number, a salt and a keystore blob carry a number   *)
(* that is new each time, and a wrong KEK opens nothing.  revealMnemonic,  *)
(* the quiz and getMetadata only read and are left out.                    *)
(***************************************************************************)
EXTENDS Naturals

CONSTANTS MaxVeks,         \* bound: vaults created one after another
          MaxVaultEdits,   \* bound: edits begun
          VaultEdits,      \* calls that edit the file
          MaxVaultFaults   \* bound: process deaths and damaged files

ASSUME VaultFileAssumption == MaxVeks \in Nat

VARIABLES doc,       \* storage: cemp.vault.json, or NoDoc
          dbBlob,    \* storage: the VEK whose database key cemp.dbkey wraps, or 0
          memory,    \* the vault object
          call,      \* a screen's create, unlock, reveal or wipe
          edit,      \* per edit: its call
          veks, fresh, edits, vaultFaults,
          asked,     \* what the user was last told: the password, biometrics on or off
          outrun,    \* an edit overwrote something newer than it had read
          halfWiped  \* the process died between a wipe's two deletions

vaultFileVars == <<doc, dbBlob, memory, call, edit, veks, fresh, edits, vaultFaults,
                   asked, outrun, halfWiped>>

Passwords == {1, 2}
Other(password) == 3 - password
NoBlob == <<0, 0>>               \* no biometric slot; a blob is <<the VEK, its number>>
NoDoc == [vek |-> 0]

Locked == [state |-> "locked", vek |-> 0]
IdleCall == [op |-> "none", at |-> "idle", password |-> 1, read |-> NoDoc]
IdleEdit == [op |-> "none", at |-> "idle", password |-> 1, read |-> NoDoc, vek |-> 0]

VaultFileInit ==
    /\ doc = NoDoc /\ dbBlob = 0
    /\ memory = [Locked EXCEPT !.state = "uninitialized"]
    /\ call = IdleCall /\ edit = [e \in VaultEdits |-> IdleEdit]
    /\ veks = 0 /\ fresh = 0 /\ edits = 0 /\ vaultFaults = 0
    /\ asked = [password |-> 1, biometric |-> FALSE]
    /\ outrun = FALSE /\ halfWiped = FALSE

-----------------------------------------------------------------------------
(* The file.                                                               *)

Slot(password, cost, salt) == <<password, cost, salt>>
Header(password, cost, salt, blob) ==
    [cost |-> cost, salt |-> salt, slot |-> Slot(password, cost, salt), biometric |-> blob]

(* The payload is encrypted again whenever the header changes.             *)
Sealed(file, header) == [file EXCEPT !.header = header, !.aad = header]

NewDoc(vek, password, cost, salt) ==
    LET header == Header(password, cost, salt, NoBlob)
    IN [vek |-> vek, header |-> header, aad |-> header, shape |-> TRUE, ct |-> TRUE, hurt |-> FALSE]

(* validateKdfParams.                                                      *)
WithinCaps(cost) == cost # "excessive"

(* readVaultFile: null, a shape the parser refuses, costs above the caps.  *)
Parses(file) == file # NoDoc /\ file.shape /\ WithinCaps(file.header.cost)

SlotOpens(file, password) ==
    file.header.slot = Slot(password, file.header.cost, file.header.salt)

(* decryptPayloadBytes: ciphertext, key and authenticated header all fit.  *)
PayloadOpens(file, vek) == file.ct /\ file.vek = vek /\ file.aad = file.header

Damages(file) ==
    {[file EXCEPT !.shape = FALSE], [file EXCEPT !.ct = FALSE],
     [file EXCEPT !.header.cost = "excessive"], [file EXCEPT !.header.salt = 0],
     [file EXCEPT !.header.biometric = <<0, 1>>]}

-----------------------------------------------------------------------------
(* Creating, opening and wiping.                                           *)

CallAt(label) == call.at = label
CallGoto(label) == call' = [call EXCEPT !.at = label]
CallDone == call' = IdleCall
CallOnly == UNCHANGED <<edit, edits, vaultFaults, outrun, halfWiped>>

StartCall(op, password) ==
    /\ CallAt("idle")
    /\ op \in {"create", "biometric", "wipe"} => password = 1
    /\ op = "create" => veks < MaxVeks
    /\ call' = [IdleCall EXCEPT !.op = op, !.password = password,
                                !.at = CASE op = "create" -> "check"
                                         [] op = "wipe" -> "delfile"
                                         [] OTHER -> "read"]
    /\ memory' = IF op = "wipe" THEN [memory EXCEPT !.vek = 0] ELSE memory
    /\ UNCHANGED <<doc, dbBlob, veks, fresh, asked>> /\ CallOnly

(* assertCanInitialize, and buildVault up to what it stores; the caller's  *)
(* costs are checked and the database key is wrapped first.                *)
CheckNew ==
    /\ CallAt("check")
    /\ \E cost \in {"default", "excessive"}, wrapped \in BOOLEAN :
          IF doc = NoDoc /\ memory.state = "uninitialized" /\ WithinCaps(cost) /\ wrapped
          THEN CallGoto("file")
          ELSE CallDone
    /\ UNCHANGED <<doc, dbBlob, memory, veks, fresh, asked>> /\ CallOnly

StoreFile ==
    /\ CallAt("file")
    /\ veks' = veks + 1 /\ fresh' = fresh + 1
    /\ doc' = NewDoc(veks', call.password, "default", fresh')
    /\ asked' = [password |-> call.password, biometric |-> FALSE]
    /\ call' = [call EXCEPT !.at = "key", !.read = doc']
    /\ UNCHANGED <<dbBlob, memory>> /\ CallOnly

Unlocked(vek) == [state |-> "unlocked", vek |-> vek]

StoreKey ==
    /\ CallAt("key")
    /\ dbBlob' = call.read.vek
    /\ memory' = Unlocked(call.read.vek)
    /\ CallDone
    /\ UNCHANGED <<doc, veks, fresh, asked>> /\ CallOnly

ReadToOpen ==
    /\ CallAt("read")
    /\ IF Parses(doc) /\ (call.op = "biometric" => doc.header.biometric # NoBlob)
       THEN call' = [call EXCEPT !.at = "open", !.read = doc]
       ELSE CallDone
    /\ UNCHANGED <<doc, dbBlob, memory, veks, fresh, asked>> /\ CallOnly

(* The KDF or the prompt has answered.                                     *)
TryOpen ==
    /\ CallAt("open")
    /\ LET file == call.read
           key == CASE call.op = "biometric" -> file.header.biometric[1]
                    [] call.op = "unlock" /\ SlotOpens(file, call.password) -> file.vek
                    [] OTHER -> 0
       IN \/ PayloadOpens(file, key) /\ memory' = Unlocked(key)
          \/ /\ PayloadOpens(file, key) => call.op = "biometric"   \* the prompt is refused
             /\ UNCHANGED memory
    /\ CallDone
    /\ UNCHANGED <<doc, dbBlob, veks, fresh, asked>> /\ CallOnly

WipeFile ==
    /\ CallAt("delfile")
    /\ doc' = NoDoc
    /\ CallGoto("delkey")
    /\ UNCHANGED <<dbBlob, memory, veks, fresh, asked>> /\ CallOnly

WipeKey ==
    /\ CallAt("delkey")
    /\ dbBlob' = 0
    /\ CallDone
    /\ \/ memory' = [memory EXCEPT !.state = "uninitialized"]
       \/ UNCHANGED memory                           \* deleteKey failed
    /\ UNCHANGED <<doc, veks, fresh, asked>> /\ CallOnly

LockFile ==
    /\ memory.state = "unlocked"
    /\ memory' = Locked
    /\ UNCHANGED <<doc, dbBlob, call, edit, veks, fresh, edits, vaultFaults, asked, outrun, halfWiped>>

-----------------------------------------------------------------------------
(* Edits.                                                                  *)

Put(e, record) == edit' = [edit EXCEPT ![e] = record]
EditOnly == UNCHANGED <<dbBlob, memory, call, veks, vaultFaults, halfWiped>>

(* changePassword works on a locked vault too; biometrics need it open.    *)
StartEdit(e, op, password) ==
    /\ edit[e].at = "idle" /\ edits < MaxVaultEdits
    /\ edits' = edits + 1
    /\ op # "password" => memory.state = "unlocked" /\ password = 1
    /\ Put(e, [IdleEdit EXCEPT !.op = op, !.at = "read", !.password = password])
    /\ UNCHANGED <<doc, fresh, asked, outrun>> /\ EditOnly

(* The file as it is now is what the edit will change and write.           *)
Store(e, file, told) ==
    /\ doc' = file
    /\ asked' = told
    /\ outrun' = (outrun \/ doc # edit[e].read)
    /\ Put(e, IdleEdit)

Drop(e) == Put(e, IdleEdit) /\ UNCHANGED <<doc, asked, outrun>>

(* rewriteSlots: the live VEK must open the payload that was read.         *)
MayRewrite(file) == memory.state = "unlocked" /\ PayloadOpens(file, memory.vek)

ReadToEdit(e) ==
    /\ edit[e].at = "read"
    /\ LET on == doc.header.biometric # NoBlob
           op == edit[e].op
       IN IF Parses(doc) /\ (op = "enable" => ~on /\ memory.state = "unlocked" /\ memory.vek # 0)
          THEN Put(e, [edit[e] EXCEPT !.at = IF op = "disable" THEN "write" ELSE "wait",
                                      !.read = doc, !.vek = IF op = "enable" THEN memory.vek ELSE 0])
          ELSE Put(e, IdleEdit)
    /\ UNCHANGED <<doc, fresh, edits, asked, outrun>> /\ EditOnly

\* A plausible bug: the new header forgets the biometric slot.
Rekeyed_Flawed(file, salt, new) ==
    Sealed(file, Header(new, file.header.cost, salt, NoBlob))

(* The same costs, a new salt and password slot; the biometric slot is     *)
(* carried over.                                                           *)
Rekeyed(file, salt, new) ==
    Sealed(file, Header(new, file.header.cost, salt, file.header.biometric))

(* The KDFs have answered.                                                 *)
ChangePassword(e) ==
    /\ edit[e].at = "wait" /\ edit[e].op = "password"
    /\ LET file == edit[e].read
           new == Other(edit[e].password)
       IN IF SlotOpens(file, edit[e].password) /\ PayloadOpens(file, file.vek)
          THEN /\ fresh' = fresh + 1
               /\ Store(e, Rekeyed(file, fresh', new), [asked EXCEPT !.password = new])
          ELSE Drop(e) /\ UNCHANGED fresh
    /\ UNCHANGED edits /\ EditOnly

(* The prompt has been accepted; the keystore may refuse to wrap.          *)
EnableBiometrics(e) ==
    /\ edit[e].at = "wait" /\ edit[e].op = "enable"
    /\ LET file == edit[e].read
       IN \/ /\ MayRewrite(file)
             /\ fresh' = fresh + 1
             /\ Store(e, Sealed(file, [file.header EXCEPT !.biometric = <<edit[e].vek, fresh'>>]),
                      [asked EXCEPT !.biometric = TRUE])
          \/ Drop(e) /\ UNCHANGED fresh
    /\ UNCHANGED edits /\ EditOnly

DisableBiometrics(e) ==
    /\ edit[e].at = "write"
    /\ LET file == edit[e].read
       IN IF file.header.biometric # NoBlob /\ MayRewrite(file)
          THEN Store(e, Sealed(file, [file.header EXCEPT !.biometric = NoBlob]),
                     [asked EXCEPT !.biometric = FALSE])
          ELSE Drop(e)
    /\ UNCHANGED <<fresh, edits>> /\ EditOnly

-----------------------------------------------------------------------------
(* Faults.                                                                 *)

VaultFault == vaultFaults < MaxVaultFaults /\ vaultFaults' = vaultFaults + 1

(* SecureVaultImpl.open decides the state by whether a file is there.      *)
VaultDies ==
    /\ VaultFault
    /\ halfWiped' = (halfWiped \/ CallAt("delkey"))
    /\ call' = IdleCall /\ edit' = [e \in VaultEdits |-> IdleEdit]
    /\ memory' = IF doc = NoDoc THEN [Locked EXCEPT !.state = "uninitialized"] ELSE Locked
    /\ UNCHANGED <<doc, dbBlob, veks, fresh, edits, asked, outrun>>

FileIsDamaged ==
    /\ VaultFault
    /\ doc # NoDoc /\ ~doc.hurt
    /\ doc' \in {[file EXCEPT !.hurt = TRUE] : file \in Damages(doc)}
    /\ UNCHANGED <<dbBlob, memory, call, edit, veks, fresh, edits, asked, outrun, halfWiped>>

-----------------------------------------------------------------------------
CallStep ==
    \/ CheckNew \/ StoreFile \/ StoreKey \/ ReadToOpen \/ TryOpen \/ WipeFile \/ WipeKey

EditStep(e) == ReadToEdit(e) \/ ChangePassword(e) \/ EnableBiometrics(e) \/ DisableBiometrics(e)

VaultFileNext ==
    \/ \E op \in {"create", "unlock", "biometric", "wipe"}, p \in Passwords :
          StartCall(op, p)
    \/ CallStep \/ LockFile \/ VaultDies \/ FileIsDamaged
    \/ \E e \in VaultEdits :
          \/ \E op \in {"password", "enable", "disable"}, p \in Passwords : StartEdit(e, op, p)
          \/ EditStep(e)

VaultFileSpec == VaultFileInit /\ [][VaultFileNext]_vaultFileVars

-----------------------------------------------------------------------------
Docs == [vek : 1..MaxVeks, header : [cost : {"default", "other", "excessive"}, salt : Nat,
                                     slot : {0, 1, 2} \X {"default"} \X Nat,
                                     biometric : (0..MaxVeks) \X Nat],
         aad : [cost : {"default"}, salt : Nat, slot : Passwords \X {"default"} \X Nat,
                biometric : (0..MaxVeks) \X Nat],
         shape : BOOLEAN, ct : BOOLEAN, hurt : BOOLEAN]

VaultFileTypeOK ==
    /\ doc = NoDoc \/ doc \in Docs
    /\ {dbBlob, memory.vek, veks} \subseteq 0..MaxVeks
    /\ memory.state \in {"uninitialized", "locked", "unlocked"}
    /\ {fresh, edits, vaultFaults} \subseteq Nat
    /\ asked \in [password : Passwords, biometric : BOOLEAN]
    /\ {outrun, halfWiped} \subseteq BOOLEAN

(* A file nothing has damaged opens: with the password the user was last   *)
(* told of and with the finger exactly when biometrics were last turned    *)
(* on.  Only an edit that something newer has outrun can bring an older    *)
(* slot back, and even then the file it leaves opens with a password       *)
(* (vault.ts:522-636).                                                     *)
StoredFileOpens ==
    doc # NoDoc /\ ~doc.hurt =>
        /\ Parses(doc) /\ PayloadOpens(doc, doc.vek)
        /\ \E p \in Passwords : SlotOpens(doc, p)
        /\ ~outrun => /\ SlotOpens(doc, asked.password)
                      /\ doc.header.biometric = NoBlob <=> ~asked.biometric
                      /\ doc.header.biometric[1] \in {0, doc.vek}

(* No edit turns a file that storage damaged into one that opens: whoever  *)
(* seals the payload again has opened it under the header it read          *)
(* (vault.ts:556, 621; format.ts:18-25).                                   *)
DamageIsNeverSealed == doc # NoDoc /\ doc.hurt => ~(Parses(doc) /\ PayloadOpens(doc, doc.vek))

(* No derivation starts from costs above the caps (kdf.ts:87-91).          *)
CostsAreBounded ==
    /\ call.at = "open" => WithinCaps(call.read.header.cost)
    /\ \A e \in VaultEdits : edit[e].at = "wait" => WithinCaps(edit[e].read.header.cost)

(* The stored database key is of the stored vault, unless a wipe died      *)
(* between its two deletions or an edit brought a wiped file back          *)
(* (vault.ts:411-412, 722-723): unwrapDatabaseKey would answer with        *)
(* another wallet's key.                                                   *)
KeyBlobIsTheFiles ==
    doc # NoDoc /\ dbBlob \notin {0, doc.vek} => halfWiped \/ outrun

VaultFileIsSound == StoredFileOpens /\ DamageIsNeverSealed /\ CostsAreBounded /\ KeyBlobIsTheFiles
=============================================================================
