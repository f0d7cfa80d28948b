------------------------------ MODULE Rotation ------------------------------
(***************************************************************************)
(* Profile cells, their rotation, and what a contact makes of a profile    *)
(* whose keys changed: the two profile builders (cemp-ckb/src/builders.ts), *)
(* the own-profile rows (repositories/profiles.ts), the resolution of a    *)
(* profile id (profiles.ts), the transaction-graph check                   *)
(* (rotation-verify.ts) and the trust verdict (cemp-core/profile-trust.ts). *)
(*                                                                         *)
(* A profile cell is the transaction that created it: its index is the     *)
(* Type ID derived from input 0, unique on the chain. Its data - keys,     *)
(* sequence, previous id - is what its creator wrote; only "spends" is     *)
(* vouched for by the chain.                                               *)
(***************************************************************************)
EXTENDS Integers, Sequences, FiniteSets

CONSTANT MaxProfiles   \* bound: profile cells ever created

ASSUME RotationAssumption == MaxProfiles \in Nat

VARIABLES cell,    \* the profile cells, oldest first
          ownRows, \* the owner's profiles table: state and previous id by cell
          friend   \* the contact row that somebody keeps of the owner

rotationVars == <<cell, ownRows, friend>>

ProfileCells == 1..Len(cell)
Owners == {"owner", "stranger"}
NoRow == [state |-> "none", prev |-> 0]

RotationTypeOK ==
    /\ cell \in Seq([lock : Owners, seq : 0..2 * MaxProfiles, prev : 0..MaxProfiles,
                     spends : 0..MaxProfiles, live : BOOLEAN])
    /\ Len(cell) <= MaxProfiles
    /\ ownRows \in [1..MaxProfiles -> [state : {"none", "active", "rotated"},
                                       prev : 0..MaxProfiles]]
    /\ friend \in [first : 0..MaxProfiles, saved : 0..MaxProfiles,
                   verdict : {"none", "first-use", "trusted", "rotation-verified",
                              "key-changed-blocking"}]

RotationInit ==
    /\ cell = <<>>
    /\ ownRows = [c \in 1..MaxProfiles |-> NoRow]
    /\ friend = [first |-> 0, saved |-> 0, verdict |-> "none"]

-----------------------------------------------------------------------------
(* The chain.                                                              *)

(* buildCreateProfileTx: validateProfile checks the fields' shapes and     *)
(* nothing ties rotation_sequence and previous_profile_id to an input; two  *)
(* values of the sequence are enough to start or continue a claimed chain. *)
CreateProfile(who) ==
    /\ Len(cell) < MaxProfiles
    /\ \E seq \in 0..1, prev \in 0..Len(cell) :
          cell' = Append(cell, [lock |-> who, seq |-> seq, prev |-> prev, spends |-> 0,
                                live |-> TRUE])
    /\ UNCHANGED <<ownRows, friend>>

(* publishMyProfile: the application's own call writes sequence 0, no      *)
(* previous id, and the active row once the transaction is committed.      *)
PublishOwn ==
    /\ Len(cell) < MaxProfiles
    /\ \A c \in 1..MaxProfiles : ownRows[c].state # "active"
    /\ cell' = Append(cell, [lock |-> "owner", seq |-> 0, prev |-> 0, spends |-> 0,
                             live |-> TRUE])
    /\ ownRows' = [ownRows EXCEPT ![Len(cell) + 1] = [state |-> "active", prev |-> 0]]
    /\ UNCHANGED friend

(* buildRotateProfileTx: the spent cell is under the signer's lock, and    *)
(* the new data names it; its sequence is the caller's.                    *)
RotateProfile(old) ==
    /\ Len(cell) < MaxProfiles
    /\ old \in ProfileCells /\ cell[old].live /\ cell[old].lock = "owner"
    /\ cell' = Append([cell EXCEPT ![old].live = FALSE],
                      [lock |-> "owner", seq |-> cell[old].seq + 1, prev |-> old,
                       spends |-> old, live |-> TRUE])
    /\ UNCHANGED <<ownRows, friend>>

(* ProfileRepository.rotate, in one database transaction.                  *)
RecordRotation(old, new) ==
    /\ new \in ProfileCells /\ cell[new].spends = old
    /\ ownRows[old].state = "active" /\ ownRows[new].state = "none"
    /\ ownRows' = [ownRows EXCEPT ![old].state = "rotated",
                                  ![new] = [state |-> "active", prev |-> old]]
    /\ UNCHANGED <<cell, friend>>

(* getLineage: the back-references of the rows, oldest first.              *)
Lineage(tip) ==
    LET back[k \in 0..MaxProfiles] ==
            IF k = 0 THEN <<tip>>
            ELSE LET chain == back[k - 1]
                     prev == ownRows[Head(chain)].prev
                 IN  IF prev = 0 THEN chain ELSE <<prev>> \o chain
    IN  back[MaxProfiles]

-----------------------------------------------------------------------------
(* The contact's side.                                                     *)

(* resolveLiveProfile: exactly one live cell under the Type ID.            *)
Resolvable(c) == c \in ProfileCells /\ cell[c].live

(* validateRotationChain: the structure the cells' own data claim.         *)
ValidChain(chain) ==
    /\ chain # <<>>
    /\ \A i \in DOMAIN chain : cell[chain[i]].seq = i - 1
    /\ cell[chain[1]].prev = 0
    /\ \A i \in DOMAIN chain \ {1} : cell[chain[i]].prev = chain[i - 1]

\* A plausible bug: the successor's own back-reference is taken for the link.
LinkOnChain_Flawed(old, new) == cell[new].prev = old

(* verifyRotationLinkOnChain: the creating transaction consumed the cell   *)
(* of the predecessor, and the data name it.                               *)
LinkOnChain(old, new) == cell[new].spends = old /\ cell[new].prev = old

(* verifyRotationChainOnChain over the consecutive pairs.                  *)
ChainOnChain(chain) ==
    Len(chain) > 1 /\ \A i \in 1..Len(chain) - 1 : LinkOnChain(chain[i], chain[i + 1])

(* evaluateContactProfile.                                                 *)
Verdict(saved, fetched, chain) ==
    CASE saved = 0 -> "first-use"
      [] saved = fetched -> "trusted"
      [] saved \notin {0, fetched} /\ ValidChain(chain) /\ chain[1] = saved
         /\ chain[Len(chain)] = fetched -> "rotation-verified"
      [] OTHER -> "key-changed-blocking"

(* What a caller makes of it: a link that fails on the chain is a blocking *)
(* change, whatever the structure claims.                                  *)
Judged(saved, fetched, chain) ==
    LET verdict == Verdict(saved, fetched, chain)
    IN  IF verdict = "rotation-verified" /\ ~ChainOnChain(chain)
        THEN "key-changed-blocking" ELSE verdict

Accepted == {"first-use", "trusted", "rotation-verified"}

(* A profile the contact is pointed at is resolved and judged; what is     *)
(* accepted becomes the saved material (setProfileSecurity).               *)
EvaluateContact(c, chain) ==
    /\ Resolvable(c)
    /\ LET verdict == Judged(friend.saved, c, chain)
       IN  friend' = [first |-> IF friend.first = 0 THEN c ELSE friend.first,
                      saved |-> IF verdict \in Accepted THEN c ELSE friend.saved,
                      verdict |-> verdict]
    /\ UNCHANGED <<cell, ownRows>>

(* The chains on offer: any order of distinct known cells.                 *)
Chains == {s \in UNION {[1..n -> ProfileCells] : n \in 1..Len(cell)} :
              \A i, j \in DOMAIN s : i # j => s[i] # s[j]}

RotationNext ==
    \/ \E who \in Owners : CreateProfile(who)
    \/ PublishOwn
    \/ \E old \in ProfileCells : RotateProfile(old)
    \/ \E old, new \in ProfileCells : RecordRotation(old, new)
    \/ \E c \in ProfileCells, chain \in Chains : EvaluateContact(c, chain)

RotationSpec == RotationInit /\ [][RotationNext]_rotationVars

-----------------------------------------------------------------------------
(* Properties.                                                             *)

Descends(old, new) ==
    LET from[k \in 0..MaxProfiles] ==
            IF k = 0 THEN {old}
            ELSE from[k - 1] \cup {c \in ProfileCells : cell[c].spends \in from[k - 1]}
    IN  new \in from[MaxProfiles]

(* However often a contact's profile changes, the keys the contact row     *)
(* trusts descend from those of its first use by spends of the retired     *)
(* cells, never by what a successor says of itself; and the lineage the    *)
(* owner keeps is such a line of spends too (rotation-verify.ts:11-20,     *)
(* profile-trust.ts:18-21).                                                *)
TrustFollowsSpends ==
    /\ friend.saved # 0 => Descends(friend.first, friend.saved)
    /\ \A c \in ProfileCells : ownRows[c].state = "active" =>
          LET line == Lineage(c)
          IN  \A i \in 1..Len(line) - 1 : cell[line[i + 1]].spends = line[i]
=============================================================================
