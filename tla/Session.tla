------------------------------ MODULE Session ------------------------------
(***************************************************************************)
(* One unlocked session of the app: SecureVaultImpl                        *)
(* (packages/cemp-secure-vault/src/vault.ts), the AppContainer that opens  *)
(* and closes the encrypted database around it                             *)
(* (apps/android/src/app-container.ts) and the screens that call both.     *)
(*                                                                         *)
(* A wallet is a number; it stands for the seed, for the VEK that encrypts *)
(* it and for the database key derived from it.  The screens run one flow  *)
(* at a time (their `busy` flag), the settings screen's biometric switch   *)
(* runs beside it, and the auto-lock timer, the one-second poll and the    *)
(* background tick run beside both.  Passwords are right or wrong.         *)
(***************************************************************************)
EXTENDS Naturals

CONSTANTS MaxWallets,       \* bound: wallets created on the device, one after another
          MaxSessionCrash   \* bound: process deaths

ASSUME SessionAssumption == MaxWallets \in Nat /\ MaxSessionCrash \in Nat

VARIABLES vaultFile,   \* storage: the wallet of the vault file, 0 when absent
          bioSlot,     \* storage: the wallet whose VEK the biometric slot wraps, or 0
          keyBlob,     \* storage: the wallet whose database key cemp.dbkey wraps, or 0
          dbFile,      \* storage: the key of the database file, 0 when absent
          vaultState, live, dbKey, armed,                         \* SecureVaultImpl
          appState, handle, repos, messaging, polling, closing,   \* AppContainer
          flow,        \* the screen's flow
          toggle,      \* the biometric switch's call
          broken,      \* the unlock screen offers to reset the local data
          wallets, wasReset, sessionCrashes

stored == <<vaultFile, bioSlot, keyBlob, dbFile>>
vault == <<vaultState, live, dbKey, armed>>
container == <<appState, handle, repos, messaging, polling, closing>>
history == <<wallets, wasReset, sessionCrashes>>
sessionVars == <<stored, vault, container, flow, toggle, broken, history>>

Wallets == 1..MaxWallets
ZeroKey == MaxWallets + 1        \* 32 zero bytes
Keys == 0..ZeroKey

FlowLabels == {"idle", "exists", "wrap", "writefile", "writekey", "readfile", "kdf", "decrypt",
               "open", "migrate", "init", "destroy", "delfile", "delkey", "delkeystore"}

IdleFlow == [op |-> "none", at |-> "idle", read |-> 0]
IdleToggle == [at |-> "idle", on |-> FALSE, read |-> 0, blob |-> 0]

SessionTypeOK ==
    /\ {vaultFile, bioSlot, keyBlob, live} \subseteq 0..MaxWallets
    /\ {dbFile, dbKey, handle} \subseteq Keys
    /\ vaultState \in {"uninitialized", "locked", "unlocked"}
    /\ appState \in {"uninitialized", "locked", "ready"}
    /\ {armed, repos, messaging, polling, closing, broken, wasReset} \subseteq BOOLEAN
    /\ flow \in [op : {"none", "create", "password", "biometric", "reset", "wipe"},
                 at : FlowLabels, read : 0..MaxWallets]
    /\ toggle \in [at : {"idle", "readfile", "prompt"}, on : BOOLEAN,
                   read : 0..MaxWallets, blob : 0..MaxWallets]
    /\ wallets \in 0..MaxWallets
    /\ sessionCrashes \in 0..MaxSessionCrash

SessionInit ==
    /\ vaultFile = 0 /\ bioSlot = 0 /\ keyBlob = 0 /\ dbFile = 0
    /\ vaultState = "uninitialized" /\ live = 0 /\ dbKey = 0 /\ armed = FALSE
    /\ appState = "uninitialized" /\ handle = 0
    /\ repos = FALSE /\ messaging = FALSE /\ polling = FALSE /\ closing = FALSE
    /\ flow = IdleFlow /\ toggle = IdleToggle /\ broken = FALSE
    /\ wallets = 0 /\ wasReset = FALSE /\ sessionCrashes = 0

-----------------------------------------------------------------------------
(* The vault object.                                                       *)

SetUnlocked(w) == vaultState' = "unlocked" /\ live' = w /\ dbKey' = 0 /\ armed' = TRUE

ClearLiveState == live' = 0 /\ dbKey' = 0 /\ armed' = FALSE

LockVault ==
    /\ ClearLiveState
    /\ vaultState' = IF vaultState = "unlocked" THEN "locked" ELSE vaultState

(* getDatabaseKey derives the key once and lends its buffer out.           *)
DatabaseKey == IF dbKey = 0 THEN live ELSE dbKey

\* A plausible bug: the slots are rewritten for whatever file was read, unlocked or not its key.
RewriteAllowed_Flawed(read) == vaultState = "unlocked"

(* rewriteSlots: the payload that was read must decrypt under the live VEK. *)
RewriteAllowed(read) == vaultState = "unlocked" /\ live = read

-----------------------------------------------------------------------------
(* Flows of the screens.                                                   *)

FlowAt(label) == flow.at = label
FlowGoto(label) == flow' = [flow EXCEPT !.at = label]
FlowDone == flow' = IdleFlow

Begin(op, label) == FlowAt("idle") /\ flow' = [IdleFlow EXCEPT !.op = op, !.at = label]

StartCreate ==
    /\ appState = "uninitialized" /\ wallets < MaxWallets
    /\ Begin("create", "exists")
    /\ UNCHANGED <<stored, vault, container, toggle, broken, history>>

(* The onboarding screen's "I have written it down" and its retry.         *)
StartOpen ==
    /\ appState = "uninitialized" /\ wallets > 0 /\ vaultFile # 0
    /\ Begin("create", "open")
    /\ UNCHANGED <<stored, vault, container, toggle, broken, history>>

StartUnlock(op) ==
    /\ appState = "locked"
    /\ Begin(op, "readfile")
    /\ broken' = FALSE
    /\ UNCHANGED <<stored, vault, container, toggle, history>>

(* resetLocalData forgets the handle before it deletes the file.           *)
DropDatabase == messaging' = FALSE /\ repos' = FALSE /\ handle' = 0

StartReset ==
    /\ appState = "locked" /\ broken
    /\ Begin("reset", "destroy")
    /\ DropDatabase
    /\ UNCHANGED <<stored, vault, appState, polling, closing, toggle, broken, history>>

(* From the unlock screen, or from the settings of a ready app.            *)
StartWipe ==
    /\ appState \in {"locked", "ready"}
    /\ Begin("wipe", "destroy")
    /\ DropDatabase
    /\ polling' = FALSE
    /\ UNCHANGED <<stored, vault, appState, closing, toggle, broken, history>>

(* assertCanInitialize.                                                    *)
CheckCreate ==
    /\ FlowAt("exists")
    /\ IF vaultFile # 0 \/ vaultState # "uninitialized" THEN FlowDone ELSE FlowGoto("wrap")
    /\ UNCHANGED <<stored, vault, container, toggle, broken, history>>

(* The database key is wrapped before anything is stored.                  *)
WrapKey ==
    /\ FlowAt("wrap")
    /\ FlowGoto("writefile") \/ FlowDone
    /\ UNCHANGED <<stored, vault, container, toggle, broken, history>>

WriteVaultFile ==
    /\ FlowAt("writefile")
    /\ vaultFile' = wallets + 1
    /\ bioSlot' = 0
    /\ wallets' = wallets + 1
    /\ FlowGoto("writekey")
    /\ UNCHANGED <<keyBlob, dbFile, vault, container, toggle, broken, wasReset, sessionCrashes>>

WriteKeyBlob ==
    /\ FlowAt("writekey")
    /\ keyBlob' = vaultFile
    /\ SetUnlocked(vaultFile)
    /\ FlowDone
    /\ UNCHANGED <<vaultFile, bioSlot, dbFile, container, toggle, broken, history>>

ReadVaultFile ==
    /\ FlowAt("readfile")
    /\ IF vaultFile = 0 \/ (flow.op = "biometric" /\ bioSlot = 0)
       THEN FlowDone
       ELSE flow' = [flow EXCEPT !.at = "kdf", !.read = vaultFile]
    /\ UNCHANGED <<stored, vault, container, toggle, broken, history>>

(* The password or the finger is refused, or the payload decrypts.         *)
FinishUnlock ==
    /\ FlowAt("kdf")
    /\ \/ FlowDone /\ UNCHANGED vault
       \/ SetUnlocked(flow.read) /\ FlowGoto("open")
    /\ UNCHANGED <<stored, container, toggle, broken, history>>

Report == FlowDone /\ broken' = (flow.op # "create")

(* afterVaultUnlock up to its first await: the borrowed buffer is zeroed   *)
(* after the open, and it is the vault's own cached key.                   *)
OpenDatabase ==
    /\ FlowAt("open")
    /\ IF vaultState # "unlocked"
       THEN /\ appState' = vaultState
            /\ FlowDone
            /\ UNCHANGED <<dbKey, handle>>
       ELSE /\ \/ /\ handle = 0 /\ DatabaseKey # 0
                  /\ handle' = DatabaseKey /\ dbKey' = ZeroKey /\ FlowGoto("migrate")
               \/ handle # 0 /\ UNCHANGED <<handle, dbKey>> /\ FlowGoto("init")
            /\ UNCHANGED appState
    /\ UNCHANGED <<stored, vaultState, live, armed, repos, messaging, polling, closing,
                   toggle, broken, history>>

(* A wipe that failed half way has cleared the seed of a vault that calls  *)
(* itself unlocked: there is nothing to derive a database key from.        *)
NoDatabaseKey ==
    /\ FlowAt("open")
    /\ vaultState = "unlocked" /\ handle = 0 /\ DatabaseKey = 0
    /\ Report
    /\ UNCHANGED <<stored, vault, container, toggle, history>>

(* The first statement creates the file or fails its page check.           *)
Migrate ==
    /\ FlowAt("migrate")
    /\ \/ /\ dbFile \in {0, handle}
          /\ dbFile' = handle /\ repos' = TRUE
          /\ FlowGoto("init")
          /\ UNCHANGED broken
       \/ Report /\ UNCHANGED <<dbFile, repos>>
    /\ UNCHANGED <<vaultFile, bioSlot, keyBlob, vault, appState, handle, messaging, polling,
                   closing, toggle, history>>

\* A plausible bug: becoming ready leaves the poll to whoever started it last.
BecomeReady_Flawed == appState' = "ready" /\ polling' = polling

BecomeReady == appState' = "ready" /\ polling' = TRUE

(* MessagingService.init reads the seed and the database; when it throws   *)
(* the container is neither ready nor polled.                              *)
InitMessaging ==
    /\ FlowAt("init")
    /\ \/ /\ vaultState = "unlocked" /\ dbFile = handle
          /\ messaging' = TRUE
          /\ BecomeReady
          /\ FlowDone /\ broken' = FALSE
       \/ Report /\ UNCHANGED <<messaging, appState, polling>>
    /\ UNCHANGED <<stored, vault, handle, repos, closing, toggle, history>>

EraseDatabase == dbFile' = 0

(* The deletion takes the adapter's mutex after a close that is waiting    *)
(* for it; a wipe goes on to the vault and clears its live state at once.  *)
Destroy ==
    /\ FlowAt("destroy") /\ ~closing
    /\ \/ /\ EraseDatabase
          /\ IF flow.op = "wipe"
             THEN ClearLiveState /\ FlowGoto("delfile") /\ UNCHANGED wasReset
             ELSE wasReset' = TRUE /\ FlowGoto("open") /\ UNCHANGED <<live, dbKey, armed>>
       \/ FlowDone /\ UNCHANGED <<dbFile, live, dbKey, armed, wasReset>>
    /\ UNCHANGED <<vaultFile, bioSlot, keyBlob, vaultState, container, toggle, broken,
                   wallets, sessionCrashes>>

DeleteVaultFile ==
    /\ FlowAt("delfile")
    /\ vaultFile' = 0 /\ bioSlot' = 0
    /\ FlowGoto("delkey")
    /\ UNCHANGED <<keyBlob, dbFile, vault, container, toggle, broken, history>>

DeleteKeyBlob ==
    /\ FlowAt("delkey")
    /\ keyBlob' = 0
    /\ FlowGoto("delkeystore")
    /\ UNCHANGED <<vaultFile, bioSlot, dbFile, vault, container, toggle, broken, history>>

DeleteKeystoreKey ==
    /\ FlowAt("delkeystore")
    /\ FlowDone
    /\ \/ vaultState' = "uninitialized" /\ appState' = "uninitialized" /\ broken' = FALSE
       \/ UNCHANGED <<vaultState, appState, broken>>
    /\ UNCHANGED <<stored, live, dbKey, armed, handle, repos, messaging, polling, closing,
                   toggle, history>>

-----------------------------------------------------------------------------
(* The biometric switch.                                                   *)

StartToggle(on) ==
    /\ toggle.at = "idle" /\ appState = "ready" /\ vaultState = "unlocked"
    /\ toggle' = [IdleToggle EXCEPT !.at = "readfile", !.on = on]
    /\ UNCHANGED <<stored, vault, container, flow, broken, history>>

\* A plausible bug: the slot is patched into whatever file is stored by then.
WriteSlots_Flawed(read, slot) == vaultFile' = vaultFile /\ bioSlot' = slot

WriteSlots(read, slot) ==
    IF RewriteAllowed(read)
    THEN vaultFile' = read /\ bioSlot' = slot
    ELSE UNCHANGED <<vaultFile, bioSlot>>

\* A plausible bug: the slot wraps the key the vault lends out.
SlotKey_Flawed == DatabaseKey

(* requireVek.                                                             *)
SlotKey == live

(* With the file in hand: enabling wraps the live VEK behind a prompt,     *)
(* disabling rewrites at once.                                             *)
ToggleRead ==
    /\ toggle.at = "readfile"
    /\ LET enabling == toggle.on /\ bioSlot = 0 /\ vaultState = "unlocked"
           disabling == ~toggle.on /\ bioSlot # 0
       IN /\ toggle' = IF vaultFile # 0 /\ enabling
                       THEN [toggle EXCEPT !.at = "prompt", !.read = vaultFile, !.blob = SlotKey]
                       ELSE IdleToggle
          /\ IF vaultFile # 0 /\ disabling
             THEN WriteSlots(vaultFile, 0)
             ELSE UNCHANGED <<vaultFile, bioSlot>>
    /\ UNCHANGED <<keyBlob, dbFile, vault, container, flow, broken, history>>

(* The prompt is answered, whatever happened to the vault meanwhile.       *)
TogglePrompt ==
    /\ toggle.at = "prompt"
    /\ toggle' = IdleToggle
    /\ WriteSlots(toggle.read, toggle.blob) \/ UNCHANGED <<vaultFile, bioSlot>>
    /\ UNCHANGED <<keyBlob, dbFile, vault, container, flow, broken, history>>

-----------------------------------------------------------------------------
(* Timers and teardown.                                                    *)

AutoLock ==
    /\ armed
    /\ LockVault
    /\ UNCHANGED <<stored, container, flow, toggle, broken, history>>

(* closeDatabase up to the wait for the transaction mutex; with no handle  *)
(* there is nothing to wait for.                                           *)
BeginClose ==
    /\ polling' = FALSE /\ messaging' = FALSE /\ repos' = FALSE
    /\ closing' = (handle # 0)
    /\ appState' = IF handle = 0 THEN "locked" ELSE appState

(* The user's lock, and the background tick that finds the deadline past.  *)
LockNow ==
    /\ appState = "ready"
    /\ FlowAt("idle") \/ flow.op = "wipe"
    /\ LockVault
    /\ BeginClose
    /\ UNCHANGED <<stored, handle, flow, toggle, broken, history>>

PollFires ==
    /\ polling /\ vaultState # "unlocked"
    /\ BeginClose
    /\ UNCHANGED <<stored, vault, handle, flow, toggle, broken, history>>

FinishClose ==
    /\ closing
    /\ closing' = FALSE
    /\ handle' = 0
    /\ appState' = IF vaultState = "uninitialized" THEN "uninitialized" ELSE "locked"
    /\ UNCHANGED <<stored, vault, repos, messaging, polling, flow, toggle, broken, history>>

SessionCrash ==
    /\ sessionCrashes < MaxSessionCrash
    /\ sessionCrashes' = sessionCrashes + 1
    /\ vaultState' = IF vaultFile = 0 THEN "uninitialized" ELSE "locked"
    /\ appState' = vaultState'
    /\ ClearLiveState
    /\ DropDatabase
    /\ polling' = FALSE /\ closing' = FALSE
    /\ FlowDone /\ toggle' = IdleToggle /\ broken' = FALSE
    /\ UNCHANGED <<stored, wallets, wasReset>>

-----------------------------------------------------------------------------
FlowStep ==
    \/ CheckCreate \/ WrapKey \/ WriteVaultFile \/ WriteKeyBlob
    \/ ReadVaultFile \/ FinishUnlock \/ OpenDatabase \/ NoDatabaseKey \/ Migrate \/ InitMessaging
    \/ Destroy \/ DeleteVaultFile \/ DeleteKeyBlob \/ DeleteKeystoreKey

SessionNext ==
    \/ StartCreate \/ StartOpen \/ StartReset \/ StartWipe
    \/ \E op \in {"password", "biometric"} : StartUnlock(op)
    \/ FlowStep
    \/ \E on \in BOOLEAN : StartToggle(on)
    \/ ToggleRead \/ TogglePrompt
    \/ AutoLock \/ LockNow \/ PollFires \/ FinishClose \/ SessionCrash

SessionSpec == SessionInit /\ [][SessionNext]_sessionVars

-----------------------------------------------------------------------------
(* A stored wallet is never replaced by another one: the vault file is the *)
(* only copy of its seed, and rewriteSlots writes a file read before a     *)
(* biometric prompt during which the user may have locked, wiped and       *)
(* created a wallet (vault.ts:583-636).                                    *)
StoredWalletSurvives == [][vaultFile # 0 => vaultFile' \in {vaultFile, 0}]_sessionVars

(* The biometric slot wraps the VEK of the file it is stored in            *)
(* (vault.ts:588-596, 615-636), so an accepted finger opens the wallet.    *)
BiometricOpensItsWallet == bioSlot \in {0, vaultFile}

(* Unless the user reset the local data, the database on the device is the *)
(* one the stored wallet's key opens: it is deleted before the vault file  *)
(* and created only under the key of the unlocked wallet                   *)
(* (app-container.ts:241-269, 374-398).                                    *)
DatabaseIsTheWallets == dbFile # 0 /\ ~wasReset => dbFile = vaultFile

(* Nothing of another wallet is left on the device.                        *)
WalletIsWhole == BiometricOpensItsWallet /\ DatabaseIsTheWallets

(* However the vault came to be locked, a container that claims to be      *)
(* ready is noticed and its database handle is closed                      *)
(* (app-container.ts:298-304, 369-373).                                    *)
LockedIsTornDown == (appState = "ready" /\ vaultState # "unlocked") ~> (handle = 0)
=============================================================================
