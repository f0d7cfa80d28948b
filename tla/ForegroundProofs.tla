-------------------------- MODULE ForegroundProofs --------------------------
(***************************************************************************)
(* What is proved of the accounts of the unlocked app, for any number of   *)
(* messages, transactions and lost answers: the ledger claims no more      *)
(* capacity than there is (Ledger), the node takes what the wallet builds  *)
(* (Wallet); and both, the transports, the limits and the vault file hold  *)
(* side by side with the rest (MCForeground).                              *)
(***************************************************************************)
EXTENDS MCForeground, EdgeProofs, ReclaimProofs

-----------------------------------------------------------------------------
(* The capacity ledger.                                                    *)

USE LedgerAssumption

Steps == {"idle", "held", "acked", "done"} \cup Due

LedgerTyped ==
    /\ ledger \in [row : {"none", "torn", "open"}, total : Nat, available : Nat,
                   reserved : Nat, reclaimable : Nat]
    /\ chain \in [free : Nat, bound : Nat]
    /\ item \in [Items -> Steps]
    /\ refresh \in [at : {"idle", "store"}, free : Nat, bound : Nat, crossed : BOOLEAN]
    /\ trusted \in BOOLEAN /\ refused \in BOOLEAN
    /\ ledgerFaults \in Nat

(* What item i still asks of, or adds to, an account while it is at a step:*)
(* the cell it has on the chain, the categories its adjustments are taken  *)
(* from, and what available and the bound categories lag behind the chain. *)
Accounts == {"cell", "available", "reserved", "reclaimable", "spendable", "bound"}

Claim(account, i, step) ==
    CASE account = "cell" /\ (step \in {"reserve", "held", "acked"} \/ (step = "mark" /\ i \in Texting)) -> Cap
      [] account = "available" /\ step = "reserve" -> Cap
      [] account = "reserved" /\ step \in {"held", "mark"} -> Cap
      [] account = "reclaimable" /\ step \in {"acked", "release"} -> Cap
      [] account = "reclaimable" /\ step = "burn" -> LedgerFee
      [] account \in {"spendable", "bound"} /\ step = "reserve" -> Cap
      [] account = "spendable" /\ (step = "release" \/ (step = "mark" /\ i \notin Texting)) -> LedgerFee - Cap
      [] account = "bound" /\ (step = "release" \/ (step = "mark" /\ i \notin Texting)) -> 0 - Cap
      [] account = "bound" /\ step = "burn" -> 0 - LedgerFee
      [] OTHER -> 0

Claims(account) == [i \in Items |-> Claim(account, i, item[i])]
Claimed(account) == SumOver(Claims(account), Items)

(* While every adjustment was made and none came too late.                 *)
TrustedParts ==
    /\ ledger.row = "open"
    /\ ledger.available >= Claimed("available")
    /\ ledger.reserved >= Claimed("reserved")
    /\ ledger.reclaimable >= Claimed("reclaimable")
    /\ ledger.available >= chain.free + Claimed("spendable")
    /\ ledger.reserved + ledger.reclaimable + Claimed("bound") <= chain.bound
    /\ refresh.at = "store" /\ ~refresh.crossed =>
          ledger.reserved + ledger.reclaimable <= refresh.bound

(* A snapshot nothing has crossed is still one of this chain.              *)
SnapshotParts ==
    refresh.at = "store" /\ ~refresh.crossed =>
       Unsettled = {} /\ refresh.free >= chain.free /\ refresh.bound <= chain.bound

LedgerInv ==
    /\ LedgerTyped
    /\ CategoriesFitTotal
    /\ chain.bound >= Claimed("cell")
    /\ SnapshotParts
    /\ trusted => TrustedParts
    /\ FundedWhenDue

LEMMA ItemsFinite == IsFiniteSet(Items)
  BY FS_Union DEF Items

LEMMA ClaimType == ASSUME NEW account \in Accounts, NEW i, NEW step \in Steps
                   PROVE  /\ Claim(account, i, step) \in Int
                          /\ account \in {"cell", "available", "reserved", "reclaimable"} =>
                                Claim(account, i, step) \in Nat
<1>1. Cap \in Nat /\ LedgerFee \in Nat /\ LedgerFee - Cap \in Int /\ 0 - Cap \in Int /\ 0 - LedgerFee \in Int
  OBVIOUS
<1>. QED  BY <1>1 DEF Claim, Accounts, Steps, Due

LEMMA ClaimedType == ASSUME LedgerTyped, NEW account \in Accounts
                     PROVE  /\ Claimed(account) \in Int
                            /\ account \in {"cell", "available", "reserved", "reclaimable"} =>
                                  Claimed(account) \in Nat
<1>1. \A i \in Items : /\ Claims(account)[i] \in Int
                       /\ account \in {"cell", "available", "reserved", "reclaimable"} => Claims(account)[i] \in Nat
  BY ClaimType DEF Claims, LedgerTyped
<1>. QED  BY <1>1, ItemsFinite, SumType, SumNat DEF Claimed

(* An item moves: one claim is exchanged for another.                      *)
LEMMA ClaimMoves ==
    ASSUME LedgerTyped, NEW i \in Items, NEW next \in Steps, item' = [item EXCEPT ![i] = next],
           NEW account \in Accounts
    PROVE  Claimed(account)' = Claimed(account) - Claim(account, i, item[i]) + Claim(account, i, next)
<1>. DEFINE f == Claims(account)
            g == Claims(account)'
<1>1. item'[i] = next /\ \A j \in Items \ {i} : item'[j] = item[j]
  BY DEF LedgerTyped
<1>2. f[i] = Claim(account, i, item[i]) /\ g[i] = Claim(account, i, next)
  BY <1>1 DEF Claims
<1>3. \A j \in Items \ {i} : f[j] = g[j]
  BY <1>1 DEF Claims
<1>4. \A j \in Items : f[j] \in Int /\ g[j] \in Int
  <2>1. \A j \in Items : item[j] \in Steps /\ item'[j] \in Steps
    BY <1>1 DEF LedgerTyped
  <2>. QED  BY <2>1, ClaimType DEF Claims
<1>. HIDE DEF f, g
<1>5. SumOver(g, Items) = SumOver(f, Items) - f[i] + g[i]
  BY <1>3, <1>4, ItemsFinite, SumUpdate
<1>. QED  BY <1>2, <1>5 DEF Claimed, f, g

LEMMA ClaimStays == ASSUME item' = item, NEW account PROVE Claimed(account)' = Claimed(account)
  BY DEF Claimed, Claims

(* Each claim is within the whole.                                         *)
LEMMA ClaimedAtLeast ==
    ASSUME LedgerTyped, NEW i \in Items, NEW account \in {"cell", "available", "reserved", "reclaimable"}
    PROVE  Claimed(account) >= Claim(account, i, item[i])
<1>. DEFINE f == Claims(account)
<1>1. \A j \in Items : f[j] \in Nat
  BY ClaimType DEF Claims, LedgerTyped, Accounts
<1>2. f[i] = Claim(account, i, item[i])
  BY DEF Claims
<1>. HIDE DEF f
<1>3. SumOver(f, Items) = f[i] + SumOver(f, Items \ {i})
  <2>1. \A j \in Items : f[j] \in Int
    BY <1>1
  <2>. QED  BY <2>1, ItemsFinite, SumRemove
<1>4. SumOver(f, Items \ {i}) \in Nat
  <2>1. IsFiniteSet(Items \ {i}) /\ \A j \in Items \ {i} : f[j] \in Nat
    BY <1>1, ItemsFinite, FS_RemoveElement
  <2>. QED  BY <2>1, SumNat
<1>. QED  BY <1>1, <1>2, <1>3, <1>4 DEF Claimed, f

LEMMA NoClaims ==
    ASSUME NEW account, \A i \in Items : Claim(account, i, item[i]) = 0
    PROVE  Claimed(account) = 0
<1>1. \A i \in Items : Claims(account)[i] = 0
  BY DEF Claims
<1>. QED  BY <1>1, ItemsFinite, SumOfZeros DEF Claimed

LEMMA SettledClaims ==
    ASSUME LedgerTyped, Unsettled = {}
    PROVE  Claimed("available") = 0 /\ Claimed("spendable") = 0 /\ Claimed("bound") = 0
<1>1. \A i \in Items : item[i] \in {"idle", "held", "acked", "done"} \/ (item[i] = "mark" /\ i \in Texting)
  <2>1. ASSUME NEW i \in Items PROVE item[i] \in {"idle", "held", "acked", "done"} \/ (item[i] = "mark" /\ i \in Texting)
    <3>1. item[i] \in Steps /\ item[i] \notin Due \ (IF i \in Texting THEN {"mark"} ELSE {})
      BY DEF Unsettled, LedgerTyped
    <3>2. CASE i \in Texting
      <4>1. item[i] \notin Due \ {"mark"}
        BY <3>1, <3>2
      <4>. QED  BY <3>1, <3>2, <4>1 DEF Steps, Due
    <3>3. CASE i \notin Texting
      <4>1. item[i] \notin Due
        <5>1. (IF i \in Texting THEN {"mark"} ELSE {}) = {}
          BY <3>3
        <5>. QED  BY <3>1, <5>1
      <4>2. item[i] \in Steps
        BY <3>1
      <4>. QED  BY <4>1, <4>2 DEF Steps, Due
    <3>. QED  BY <3>2, <3>3
  <2>. QED  BY <2>1
<1>2. \A i \in Items : /\ Claim("available", i, item[i]) = 0
                       /\ Claim("spendable", i, item[i]) = 0
                       /\ Claim("bound", i, item[i]) = 0
  <2>1. ASSUME NEW i \in Items
        PROVE  /\ Claim("available", i, item[i]) = 0
               /\ Claim("spendable", i, item[i]) = 0
               /\ Claim("bound", i, item[i]) = 0
    <3>1. CASE item[i] \in {"idle", "held", "acked", "done"}
      BY <3>1 DEF Claim
    <3>2. CASE item[i] = "mark" /\ i \in Texting
      BY <3>2 DEF Claim
    <3>. QED  BY <1>1, <3>1, <3>2
  <2>. QED  BY <2>1
<1>. QED  BY <1>2, NoClaims

LEMMA MinOf == ASSUME NEW a \in Int, NEW b \in Int
                  PROVE  Min({a, b}) = IF a <= b THEN a ELSE b
<1>. DEFINE m == IF a <= b THEN a ELSE b
<1>1. m \in {a, b} /\ \A y \in {a, b} : m <= y
  OBVIOUS
<1>2. \A x \in {a, b} : (\A y \in {a, b} : x <= y) => x = m
  OBVIOUS
<1>. HIDE DEF m
<1>3. Min({a, b}) = m
  BY <1>1, <1>2 DEF Min
<1>. QED BY <1>3 DEF m

LEMMA MaxOf == ASSUME NEW a \in Int, NEW b \in Int
                  PROVE  Max({a, b}) = IF a >= b THEN a ELSE b
<1>. DEFINE m == IF a >= b THEN a ELSE b
<1>1. m \in {a, b} /\ \A y \in {a, b} : m >= y
  OBVIOUS
<1>2. \A x \in {a, b} : (\A y \in {a, b} : x >= y) => x = m
  OBVIOUS
<1>. HIDE DEF m
<1>3. Max({a, b}) = m
  BY <1>1, <1>2 DEF Max
<1>. QED BY <1>3 DEF m

(* The accounts after an item has moved.                                   *)
LEMMA ClaimsBecome ==
    ASSUME LedgerTyped, NEW i \in Items, NEW next \in Steps, item' = [item EXCEPT ![i] = next]
    PROVE  \A account \in Accounts : /\ Claimed(account) \in Int
                                     /\ Claimed(account)' = Claimed(account) - Claim(account, i, item[i]) + Claim(account, i, next)
  BY ClaimMoves, ClaimedType

LEMMA CrossedSnapshot ==
    ASSUME LedgerTyped, Crossed
    PROVE  /\ refresh' \in [at : {"idle", "store"}, free : Nat, bound : Nat, crossed : BOOLEAN]
           /\ refresh'.at = "store" => refresh'.crossed
<1>1. refresh' = [refresh EXCEPT !.crossed = (refresh.at = "store")] /\ (refresh.at = "store") \in BOOLEAN
  BY DEF Crossed
<1>2. refresh \in [at : {"idle", "store"}, free : Nat, bound : Nat, crossed : BOOLEAN]
  BY DEF LedgerTyped
<1>3. refresh'.at = refresh.at /\ refresh'.crossed = (refresh.at = "store")
  BY <1>1, <1>2
<1>4. refresh'.at = "store" => refresh'.crossed
  BY <1>3
<1>. QED  BY <1>1, <1>2, <1>4

Categories == {"available", "reserved", "reclaimable"}

LEMMA MovedFacts ==
    ASSUME LedgerTyped, CategoriesFitTotal, NEW from \in Categories, NEW to \in Categories, from # to,
           NEW amount \in Nat, Movable(from, amount), ledger' = Moved(from, to, amount)
    PROVE  /\ ledger' \in [row : {"none", "torn", "open"}, total : Nat, available : Nat,
                           reserved : Nat, reclaimable : Nat]
           /\ CategoriesFitTotal' /\ ledger'.row = "open"
           /\ \A k \in Categories : ledger'[k] = CASE k = from -> ledger[k] - amount
                                                   [] k = to -> ledger[k] + amount
                                                   [] OTHER -> ledger[k]
<1>1. /\ ledger \in [row : {"none", "torn", "open"}, total : Nat, available : Nat, reserved : Nat, reclaimable : Nat]
      /\ ledger.row = "open"
  BY DEF LedgerTyped, Movable
<1>2. CASE from = "available" /\ to = "reserved"
  BY <1>1, <1>2 DEF Moved, Movable, Categories, CategoriesFitTotal
<1>3. CASE from = "reserved" /\ to = "reclaimable"
  BY <1>1, <1>3 DEF Moved, Movable, Categories, CategoriesFitTotal
<1>4. CASE from = "reclaimable" /\ to = "available"
  BY <1>1, <1>4 DEF Moved, Movable, Categories, CategoriesFitTotal
<1>5. CASE from = "available" /\ to = "reclaimable"
  BY <1>1, <1>5 DEF Moved, Movable, Categories, CategoriesFitTotal
<1>6. CASE from = "reserved" /\ to = "available"
  BY <1>1, <1>6 DEF Moved, Movable, Categories, CategoriesFitTotal
<1>7. CASE from = "reclaimable" /\ to = "reserved"
  BY <1>1, <1>7 DEF Moved, Movable, Categories, CategoriesFitTotal
<1>. QED  BY <1>2, <1>3, <1>4, <1>5, <1>6, <1>7 DEF Categories

(* What a move does, whatever it moves.                                    *)
LEMMA MoveFacts ==
    ASSUME LedgerTyped, CategoriesFitTotal, NEW i \in Items,
           NEW from \in Categories, NEW to \in Categories, from # to, NEW amount \in Nat,
           NEW next \in Steps, NEW end \in Steps, Move(i, from, to, amount, next, end)
    PROVE  /\ ledger' \in [row : {"none", "torn", "open"}, total : Nat, available : Nat,
                           reserved : Nat, reclaimable : Nat]
           /\ CategoriesFitTotal' /\ item' \in [Items -> Steps]
           /\ chain' = chain /\ trusted' \in BOOLEAN /\ refused' \in BOOLEAN /\ ledgerFaults' = ledgerFaults
           /\ trusted' => trusted
           /\ \/ /\ item' = [item EXCEPT ![i] = next] /\ refused' = refused /\ ledger'.row = "open"
                 /\ \A k \in Categories : ledger'[k] = CASE k = from -> ledger[k] - amount
                                                         [] k = to -> ledger[k] + amount
                                                         [] OTHER -> ledger[k]
              \/ /\ item' = [item EXCEPT ![i] = end] /\ ~Movable(from, amount)
                 /\ ledger' = ledger /\ (refused' => refused \/ trusted)
<1>1. chain' = chain /\ ledgerFaults' = ledgerFaults
  BY DEF Move
<1>2. trusted' = trusted
  BY DEF Move
<1>3. trusted' \in BOOLEAN /\ (trusted' => trusted)
  BY <1>2 DEF LedgerTyped
<1>4. CASE Movable(from, amount)
  <2>1. ledger' = Moved(from, to, amount) /\ item' = [item EXCEPT ![i] = next]
    BY <1>4 DEF Move
  <2>2. refused' = refused
    BY <1>4 DEF Move
  <2>3. refused' \in BOOLEAN
    BY <2>2 DEF LedgerTyped
  <2>4. item' \in [Items -> Steps]
    BY <2>1 DEF LedgerTyped
  <2>. QED  BY <1>1, <1>3, <1>4, <2>1, <2>2, <2>3, <2>4, MovedFacts
<1>5. CASE ~Movable(from, amount)
  <2>1. ledger' = ledger /\ item' = [item EXCEPT ![i] = end]
    BY <1>5 DEF Move
  <2>2. refused' = (refused \/ trusted)
    BY <1>5 DEF Move
  <2>3. refused' \in BOOLEAN /\ (refused' => refused \/ trusted)
    BY <2>2
  <2>4. item' \in [Items -> Steps]
    BY <2>1 DEF LedgerTyped
  <2>5. CategoriesFitTotal'
    BY <2>1 DEF CategoriesFitTotal
  <2>. QED  BY <1>1, <1>3, <1>5, <2>1, <2>3, <2>4, <2>5 DEF LedgerTyped
<1>. QED  BY <1>4, <1>5

(* A commit is accounted for. *)
LEMMA LedgerReserve == ASSUME LedgerInv, NEW i \in Items, ReserveCapacity(i) PROVE LedgerInv'
<1>. DEFINE end == Unreserved(i)
            amount == Cap
<1>1. item[i] = "reserve" /\ Move(i, "available", "reserved", amount, "held", end) /\ Crossed
  BY DEF ReserveCapacity
<1>2. "held" \in Steps /\ end \in Steps /\ "available" \in Categories /\ "reserved" \in Categories /\ amount \in Nat
  BY DEF Steps, Due, Unreserved, Categories
<1>3. LedgerTyped /\ CategoriesFitTotal
  BY DEF LedgerInv
<1>4. end \in {"held", "done"}
  BY DEF Unreserved
<1>8. /\ Claim("cell", i, "reserve") = Cap /\ Claim("cell", i, "held") = Cap
      /\ Claim("available", i, "reserve") = Cap /\ Claim("available", i, "held") = 0
      /\ Claim("reserved", i, "reserve") = 0 /\ Claim("reserved", i, "held") = Cap
      /\ Claim("reclaimable", i, "reserve") = 0 /\ Claim("reclaimable", i, "held") = 0
      /\ Claim("spendable", i, "reserve") = Cap /\ Claim("spendable", i, "held") = 0
      /\ Claim("bound", i, "reserve") = Cap /\ Claim("bound", i, "held") = 0
      /\ Claim("cell", i, "done") = 0
  BY DEF Claim
<1>a. amount = Cap /\ Cap \in Nat /\ LedgerFee \in Nat
  OBVIOUS
<1>. HIDE DEF end, amount
<1>5. /\ ledger' \in [row : {"none", "torn", "open"}, total : Nat, available : Nat,
                      reserved : Nat, reclaimable : Nat]
      /\ CategoriesFitTotal' /\ item' \in [Items -> Steps]
      /\ chain' = chain /\ trusted' \in BOOLEAN /\ refused' \in BOOLEAN /\ ledgerFaults' = ledgerFaults
      /\ trusted' => trusted
      /\ \/ /\ item' = [item EXCEPT ![i] = "held"] /\ refused' = refused /\ ledger'.row = "open"
            /\ \A k \in Categories : ledger'[k] = CASE k = "available" -> ledger[k] - amount
                                                    [] k = "reserved" -> ledger[k] + amount
                                                    [] OTHER -> ledger[k]
         \/ /\ item' = [item EXCEPT ![i] = end] /\ ~Movable("available", amount)
            /\ ledger' = ledger /\ (refused' => refused \/ trusted)
  BY <1>1, <1>2, <1>3, MoveFacts
<1>b. refresh' \in [at : {"idle", "store"}, free : Nat, bound : Nat, crossed : BOOLEAN]
      /\ ~(refresh'.at = "store" /\ ~refresh'.crossed)
  BY <1>1, <1>3, CrossedSnapshot
<1>7. SnapshotParts'
  BY <1>b DEF SnapshotParts
<1>6. LedgerTyped'
  BY <1>3, <1>5, <1>b DEF LedgerTyped
<1>9. chain'.bound >= Claimed("cell")'
  <2>1. chain.bound >= Claimed("cell") /\ chain.bound \in Nat
    BY <1>3 DEF LedgerInv, LedgerTyped
  <2>2. ASSUME NEW n \in {"held", "done"}, item' = [item EXCEPT ![i] = n]
        PROVE  chain'.bound >= Claimed("cell")'
    <3>1. n \in Steps /\ "cell" \in Accounts
      BY DEF Steps, Due, Accounts
    <3>2. Claimed("cell") \in Int /\ Claimed("cell")' = Claimed("cell") - Claim("cell", i, "reserve") + Claim("cell", i, n)
      BY <1>1, <1>3, <2>2, <3>1, ClaimsBecome
    <3>3. Claim("cell", i, n) \in Int /\ Claim("cell", i, n) <= Claim("cell", i, "reserve") /\ Claim("cell", i, "reserve") \in Int
      BY <1>8, <1>a
    <3>. QED  BY <1>5, <2>1, <3>2, <3>3
  <2>. QED  BY <1>4, <1>5, <2>2
<1>10. ASSUME trusted PROVE TrustedParts /\ Movable("available", amount)
  <2>1. TrustedParts
    BY <1>10 DEF LedgerInv
  <2>2. Claimed("available") >= Claim("available", i, "reserve") /\ Claimed("available") \in Int
    BY <1>1, <1>3, ClaimedAtLeast, ClaimedType DEF Accounts
  <2>3. ledger.available >= amount
    BY <1>3, <1>8, <1>a, <2>1, <2>2 DEF TrustedParts, LedgerTyped
  <2>. QED  BY <2>1, <2>3 DEF Movable, TrustedParts
<1>11. ~refused'
  BY <1>5, <1>10 DEF LedgerInv, FundedWhenDue
<1>12. ASSUME trusted' PROVE TrustedParts'
  <2>1. trusted /\ TrustedParts
    BY <1>5, <1>10, <1>12
  <2>2. item' = [item EXCEPT ![i] = "held"] /\ ledger'.row = "open"
    BY <1>5, <1>10, <2>1
  <2>3. /\ ledger'.available = ledger.available - (Cap)
        /\ ledger'.reserved = ledger.reserved + (Cap)
        /\ ledger'.reclaimable = ledger.reclaimable
    BY <1>2, <1>5, <1>10, <1>a, <2>1 DEF Categories
  <2>4. \A account \in Accounts : /\ Claimed(account) \in Int
           /\ Claimed(account)' = Claimed(account) - Claim(account, i, "reserve") + Claim(account, i, "held")
    BY <1>1, <1>2, <1>3, <2>2, ClaimsBecome
  <2>5. /\ Claimed("available")' = Claimed("available") - (Cap)
        /\ Claimed("reserved")' = Claimed("reserved") + (Cap)
        /\ Claimed("reclaimable")' = Claimed("reclaimable")
        /\ Claimed("spendable")' = Claimed("spendable") - (Cap)
        /\ Claimed("bound")' = Claimed("bound") - (Cap)
        /\ Claimed("available") \in Int
        /\ Claimed("reserved") \in Int
        /\ Claimed("reclaimable") \in Int
        /\ Claimed("spendable") \in Int
        /\ Claimed("bound") \in Int
    BY <1>8, <1>a, <2>4 DEF Accounts
  <2>6. /\ ledger.available \in Nat /\ ledger.reserved \in Nat /\ ledger.reclaimable \in Nat
        /\ chain.free \in Nat /\ chain.bound \in Nat
    BY <1>3 DEF LedgerTyped
  <2>7. refresh'.at = "store" /\ ~refresh'.crossed => ledger'.reserved + ledger'.reclaimable <= refresh'.bound
    BY <1>b
  <2>8. /\ ledger'.available >= Claimed("available")' /\ ledger'.reserved >= Claimed("reserved")'
        /\ ledger'.reclaimable >= Claimed("reclaimable")'
    BY <1>a, <2>1, <2>3, <2>5, <2>6 DEF TrustedParts
  <2>9. /\ ledger'.available >= chain'.free + Claimed("spendable")'
        /\ ledger'.reserved + ledger'.reclaimable + Claimed("bound")' <= chain'.bound
    BY <1>5, <1>a, <2>1, <2>3, <2>5, <2>6 DEF TrustedParts
  <2>. QED  BY <2>2, <2>7, <2>8, <2>9 DEF TrustedParts
<1>. QED  BY <1>5, <1>6, <1>7, <1>9, <1>11, <1>12 DEF LedgerInv, FundedWhenDue

(* A cell that is acknowledged becomes reclaimable. *)
LEMMA LedgerMarkText == ASSUME LedgerInv, NEW i \in Items, MarkReclaimable(i), i \in Texting PROVE LedgerInv'
<1>. DEFINE end == "acked"
            amount == Cap
<1>1. item[i] = "mark" /\ Move(i, "reserved", "reclaimable", amount, "acked", end) /\ refresh' = refresh
  BY DEF MarkReclaimable
<1>2. "acked" \in Steps /\ end \in Steps /\ "reserved" \in Categories /\ "reclaimable" \in Categories /\ amount \in Nat
  BY DEF Steps, Due, Unreserved, Categories
<1>3. LedgerTyped /\ CategoriesFitTotal
  BY DEF LedgerInv
<1>4. end \in {"acked"}
  BY DEF Unreserved
<1>8. /\ Claim("cell", i, "mark") = Cap /\ Claim("cell", i, "acked") = Cap
      /\ Claim("available", i, "mark") = 0 /\ Claim("available", i, "acked") = 0
      /\ Claim("reserved", i, "mark") = Cap /\ Claim("reserved", i, "acked") = 0
      /\ Claim("reclaimable", i, "mark") = 0 /\ Claim("reclaimable", i, "acked") = Cap
      /\ Claim("spendable", i, "mark") = 0 /\ Claim("spendable", i, "acked") = 0
      /\ Claim("bound", i, "mark") = 0 /\ Claim("bound", i, "acked") = 0
  BY DEF Claim
<1>a. amount = Cap /\ Cap \in Nat /\ LedgerFee \in Nat
  OBVIOUS
<1>. HIDE DEF end, amount
<1>5. /\ ledger' \in [row : {"none", "torn", "open"}, total : Nat, available : Nat,
                      reserved : Nat, reclaimable : Nat]
      /\ CategoriesFitTotal' /\ item' \in [Items -> Steps]
      /\ chain' = chain /\ trusted' \in BOOLEAN /\ refused' \in BOOLEAN /\ ledgerFaults' = ledgerFaults
      /\ trusted' => trusted
      /\ \/ /\ item' = [item EXCEPT ![i] = "acked"] /\ refused' = refused /\ ledger'.row = "open"
            /\ \A k \in Categories : ledger'[k] = CASE k = "reserved" -> ledger[k] - amount
                                                    [] k = "reclaimable" -> ledger[k] + amount
                                                    [] OTHER -> ledger[k]
         \/ /\ item' = [item EXCEPT ![i] = end] /\ ~Movable("reserved", amount)
            /\ ledger' = ledger /\ (refused' => refused \/ trusted)
  BY <1>1, <1>2, <1>3, MoveFacts
<1>b. refresh' \in [at : {"idle", "store"}, free : Nat, bound : Nat, crossed : BOOLEAN]
  BY <1>1, <1>3 DEF LedgerTyped
<1>c. Unsettled' = Unsettled
  <2>1. PICK n \in {"mark", "acked"} : item' = [item EXCEPT ![i] = n]
    BY <1>4, <1>5
  <2>2. item'[i] \in {"mark", "acked"} /\ \A j \in Items \ {i} : item'[j] = item[j]
    BY <1>3, <2>1 DEF LedgerTyped
  <2>3. item[i] = "mark" /\ i \in Texting
    BY <1>1
  <2>4. i \notin Unsettled /\ i \notin Unsettled'
    BY <2>2, <2>3 DEF Unsettled, Due
  <2>5. \A j \in Items \ {i} : j \in Unsettled <=> j \in Unsettled'
    BY <2>2 DEF Unsettled
  <2>. QED  BY <2>4, <2>5 DEF Unsettled
<1>7. SnapshotParts'
  BY <1>1, <1>5, <1>c DEF LedgerInv, SnapshotParts
<1>6. LedgerTyped'
  BY <1>3, <1>5, <1>b DEF LedgerTyped
<1>9. chain'.bound >= Claimed("cell")'
  <2>1. chain.bound >= Claimed("cell") /\ chain.bound \in Nat
    BY <1>3 DEF LedgerInv, LedgerTyped
  <2>2. ASSUME NEW n \in {"acked"}, item' = [item EXCEPT ![i] = n]
        PROVE  chain'.bound >= Claimed("cell")'
    <3>1. n \in Steps /\ "cell" \in Accounts
      BY DEF Steps, Due, Accounts
    <3>2. Claimed("cell") \in Int /\ Claimed("cell")' = Claimed("cell") - Claim("cell", i, "mark") + Claim("cell", i, n)
      BY <1>1, <1>3, <2>2, <3>1, ClaimsBecome
    <3>3. Claim("cell", i, n) \in Int /\ Claim("cell", i, n) <= Claim("cell", i, "mark") /\ Claim("cell", i, "mark") \in Int
      BY <1>8, <1>a
    <3>. QED  BY <1>5, <2>1, <3>2, <3>3
  <2>. QED  BY <1>4, <1>5, <2>2
<1>10. ASSUME trusted PROVE TrustedParts /\ Movable("reserved", amount)
  <2>1. TrustedParts
    BY <1>10 DEF LedgerInv
  <2>2. Claimed("reserved") >= Claim("reserved", i, "mark") /\ Claimed("reserved") \in Int
    BY <1>1, <1>3, ClaimedAtLeast, ClaimedType DEF Accounts
  <2>3. ledger.reserved >= amount
    BY <1>3, <1>8, <1>a, <2>1, <2>2 DEF TrustedParts, LedgerTyped
  <2>. QED  BY <2>1, <2>3 DEF Movable, TrustedParts
<1>11. ~refused'
  BY <1>5, <1>10 DEF LedgerInv, FundedWhenDue
<1>12. ASSUME trusted' PROVE TrustedParts'
  <2>1. trusted /\ TrustedParts
    BY <1>5, <1>10, <1>12
  <2>2. item' = [item EXCEPT ![i] = "acked"] /\ ledger'.row = "open"
    BY <1>5, <1>10, <2>1
  <2>3. /\ ledger'.available = ledger.available
        /\ ledger'.reserved = ledger.reserved - (Cap)
        /\ ledger'.reclaimable = ledger.reclaimable + (Cap)
    BY <1>2, <1>5, <1>10, <1>a, <2>1 DEF Categories
  <2>4. \A account \in Accounts : /\ Claimed(account) \in Int
           /\ Claimed(account)' = Claimed(account) - Claim(account, i, "mark") + Claim(account, i, "acked")
    BY <1>1, <1>2, <1>3, <2>2, ClaimsBecome
  <2>5. /\ Claimed("available")' = Claimed("available")
        /\ Claimed("reserved")' = Claimed("reserved") - (Cap)
        /\ Claimed("reclaimable")' = Claimed("reclaimable") + (Cap)
        /\ Claimed("spendable")' = Claimed("spendable")
        /\ Claimed("bound")' = Claimed("bound")
        /\ Claimed("available") \in Int
        /\ Claimed("reserved") \in Int
        /\ Claimed("reclaimable") \in Int
        /\ Claimed("spendable") \in Int
        /\ Claimed("bound") \in Int
    BY <1>8, <1>a, <2>4 DEF Accounts
  <2>6. /\ ledger.available \in Nat /\ ledger.reserved \in Nat /\ ledger.reclaimable \in Nat
        /\ chain.free \in Nat /\ chain.bound \in Nat
    BY <1>3 DEF LedgerTyped
  <2>7. refresh'.at = "store" /\ ~refresh'.crossed => ledger'.reserved + ledger'.reclaimable <= refresh'.bound
    BY <1>1, <1>a, <2>1, <2>3, <2>6 DEF TrustedParts
  <2>8. /\ ledger'.available >= Claimed("available")' /\ ledger'.reserved >= Claimed("reserved")'
        /\ ledger'.reclaimable >= Claimed("reclaimable")'
    BY <1>a, <2>1, <2>3, <2>5, <2>6 DEF TrustedParts
  <2>9. /\ ledger'.available >= chain'.free + Claimed("spendable")'
        /\ ledger'.reserved + ledger'.reclaimable + Claimed("bound")' <= chain'.bound
    BY <1>5, <1>a, <2>1, <2>3, <2>5, <2>6 DEF TrustedParts
  <2>. QED  BY <2>2, <2>7, <2>8, <2>9 DEF TrustedParts
<1>. QED  BY <1>5, <1>6, <1>7, <1>9, <1>11, <1>12 DEF LedgerInv, FundedWhenDue

(* So do chunks, after they have been reclaimed. *)
LEMMA LedgerMarkChunk == ASSUME LedgerInv, NEW i \in Items, MarkReclaimable(i), i \notin Texting PROVE LedgerInv'
<1>. DEFINE end == "done"
            amount == Cap
<1>1. item[i] = "mark" /\ Move(i, "reserved", "reclaimable", amount, "release", end) /\ Crossed
  BY DEF MarkReclaimable
<1>2. "release" \in Steps /\ end \in Steps /\ "reserved" \in Categories /\ "reclaimable" \in Categories /\ amount \in Nat
  BY DEF Steps, Due, Unreserved, Categories
<1>3. LedgerTyped /\ CategoriesFitTotal
  BY DEF LedgerInv
<1>4. end \in {"release", "done"}
  BY DEF Unreserved
<1>8. /\ Claim("cell", i, "mark") = 0 /\ Claim("cell", i, "release") = 0
      /\ Claim("available", i, "mark") = 0 /\ Claim("available", i, "release") = 0
      /\ Claim("reserved", i, "mark") = Cap /\ Claim("reserved", i, "release") = 0
      /\ Claim("reclaimable", i, "mark") = 0 /\ Claim("reclaimable", i, "release") = Cap
      /\ Claim("spendable", i, "mark") = LedgerFee - Cap /\ Claim("spendable", i, "release") = LedgerFee - Cap
      /\ Claim("bound", i, "mark") = 0 - Cap /\ Claim("bound", i, "release") = 0 - Cap
      /\ Claim("cell", i, "done") = 0
  BY DEF Claim
<1>a. amount = Cap /\ Cap \in Nat /\ LedgerFee \in Nat
  OBVIOUS
<1>. HIDE DEF end, amount
<1>5. /\ ledger' \in [row : {"none", "torn", "open"}, total : Nat, available : Nat,
                      reserved : Nat, reclaimable : Nat]
      /\ CategoriesFitTotal' /\ item' \in [Items -> Steps]
      /\ chain' = chain /\ trusted' \in BOOLEAN /\ refused' \in BOOLEAN /\ ledgerFaults' = ledgerFaults
      /\ trusted' => trusted
      /\ \/ /\ item' = [item EXCEPT ![i] = "release"] /\ refused' = refused /\ ledger'.row = "open"
            /\ \A k \in Categories : ledger'[k] = CASE k = "reserved" -> ledger[k] - amount
                                                    [] k = "reclaimable" -> ledger[k] + amount
                                                    [] OTHER -> ledger[k]
         \/ /\ item' = [item EXCEPT ![i] = end] /\ ~Movable("reserved", amount)
            /\ ledger' = ledger /\ (refused' => refused \/ trusted)
  BY <1>1, <1>2, <1>3, MoveFacts
<1>b. refresh' \in [at : {"idle", "store"}, free : Nat, bound : Nat, crossed : BOOLEAN]
      /\ ~(refresh'.at = "store" /\ ~refresh'.crossed)
  BY <1>1, <1>3, CrossedSnapshot
<1>7. SnapshotParts'
  BY <1>b DEF SnapshotParts
<1>6. LedgerTyped'
  BY <1>3, <1>5, <1>b DEF LedgerTyped
<1>9. chain'.bound >= Claimed("cell")'
  <2>1. chain.bound >= Claimed("cell") /\ chain.bound \in Nat
    BY <1>3 DEF LedgerInv, LedgerTyped
  <2>2. ASSUME NEW n \in {"release", "done"}, item' = [item EXCEPT ![i] = n]
        PROVE  chain'.bound >= Claimed("cell")'
    <3>1. n \in Steps /\ "cell" \in Accounts
      BY DEF Steps, Due, Accounts
    <3>2. Claimed("cell") \in Int /\ Claimed("cell")' = Claimed("cell") - Claim("cell", i, "mark") + Claim("cell", i, n)
      BY <1>1, <1>3, <2>2, <3>1, ClaimsBecome
    <3>3. Claim("cell", i, n) \in Int /\ Claim("cell", i, n) <= Claim("cell", i, "mark") /\ Claim("cell", i, "mark") \in Int
      BY <1>8, <1>a
    <3>. QED  BY <1>5, <2>1, <3>2, <3>3
  <2>. QED  BY <1>4, <1>5, <2>2
<1>10. ASSUME trusted PROVE TrustedParts /\ Movable("reserved", amount)
  <2>1. TrustedParts
    BY <1>10 DEF LedgerInv
  <2>2. Claimed("reserved") >= Claim("reserved", i, "mark") /\ Claimed("reserved") \in Int
    BY <1>1, <1>3, ClaimedAtLeast, ClaimedType DEF Accounts
  <2>3. ledger.reserved >= amount
    BY <1>3, <1>8, <1>a, <2>1, <2>2 DEF TrustedParts, LedgerTyped
  <2>. QED  BY <2>1, <2>3 DEF Movable, TrustedParts
<1>11. ~refused'
  BY <1>5, <1>10 DEF LedgerInv, FundedWhenDue
<1>12. ASSUME trusted' PROVE TrustedParts'
  <2>1. trusted /\ TrustedParts
    BY <1>5, <1>10, <1>12
  <2>2. item' = [item EXCEPT ![i] = "release"] /\ ledger'.row = "open"
    BY <1>5, <1>10, <2>1
  <2>3. /\ ledger'.available = ledger.available
        /\ ledger'.reserved = ledger.reserved - (Cap)
        /\ ledger'.reclaimable = ledger.reclaimable + (Cap)
    BY <1>2, <1>5, <1>10, <1>a, <2>1 DEF Categories
  <2>4. \A account \in Accounts : /\ Claimed(account) \in Int
           /\ Claimed(account)' = Claimed(account) - Claim(account, i, "mark") + Claim(account, i, "release")
    BY <1>1, <1>2, <1>3, <2>2, ClaimsBecome
  <2>5. /\ Claimed("available")' = Claimed("available")
        /\ Claimed("reserved")' = Claimed("reserved") - (Cap)
        /\ Claimed("reclaimable")' = Claimed("reclaimable") + (Cap)
        /\ Claimed("spendable")' = Claimed("spendable")
        /\ Claimed("bound")' = Claimed("bound")
        /\ Claimed("available") \in Int
        /\ Claimed("reserved") \in Int
        /\ Claimed("reclaimable") \in Int
        /\ Claimed("spendable") \in Int
        /\ Claimed("bound") \in Int
    BY <1>8, <1>a, <2>4 DEF Accounts
  <2>6. /\ ledger.available \in Nat /\ ledger.reserved \in Nat /\ ledger.reclaimable \in Nat
        /\ chain.free \in Nat /\ chain.bound \in Nat
    BY <1>3 DEF LedgerTyped
  <2>7. refresh'.at = "store" /\ ~refresh'.crossed => ledger'.reserved + ledger'.reclaimable <= refresh'.bound
    BY <1>b
  <2>8. /\ ledger'.available >= Claimed("available")' /\ ledger'.reserved >= Claimed("reserved")'
        /\ ledger'.reclaimable >= Claimed("reclaimable")'
    BY <1>a, <2>1, <2>3, <2>5, <2>6 DEF TrustedParts
  <2>9. /\ ledger'.available >= chain'.free + Claimed("spendable")'
        /\ ledger'.reserved + ledger'.reclaimable + Claimed("bound")' <= chain'.bound
    BY <1>5, <1>a, <2>1, <2>3, <2>5, <2>6 DEF TrustedParts
  <2>. QED  BY <2>2, <2>7, <2>8, <2>9 DEF TrustedParts
<1>. QED  BY <1>5, <1>6, <1>7, <1>9, <1>11, <1>12 DEF LedgerInv, FundedWhenDue

(* What a reclaim has freed is available. *)
LEMMA LedgerRelease == ASSUME LedgerInv, NEW i \in Items, ReleaseReclaimedCapacity(i) PROVE LedgerInv'
<1>. DEFINE end == "done"
            amount == Cap - LedgerFee
<1>1. item[i] = "release" /\ Move(i, "reclaimable", "available", amount, "burn", end) /\ Crossed
  BY DEF ReleaseReclaimedCapacity
<1>2. "burn" \in Steps /\ end \in Steps /\ "reclaimable" \in Categories /\ "available" \in Categories /\ amount \in Nat
  BY DEF Steps, Due, Unreserved, Categories
<1>3. LedgerTyped /\ CategoriesFitTotal
  BY DEF LedgerInv
<1>4. end \in {"burn", "done"}
  BY DEF Unreserved
<1>8. /\ Claim("cell", i, "release") = 0 /\ Claim("cell", i, "burn") = 0
      /\ Claim("available", i, "release") = 0 /\ Claim("available", i, "burn") = 0
      /\ Claim("reserved", i, "release") = 0 /\ Claim("reserved", i, "burn") = 0
      /\ Claim("reclaimable", i, "release") = Cap /\ Claim("reclaimable", i, "burn") = LedgerFee
      /\ Claim("spendable", i, "release") = LedgerFee - Cap /\ Claim("spendable", i, "burn") = 0
      /\ Claim("bound", i, "release") = 0 - Cap /\ Claim("bound", i, "burn") = 0 - LedgerFee
      /\ Claim("cell", i, "done") = 0
  BY DEF Claim
<1>a. amount = Cap - LedgerFee /\ Cap \in Nat /\ LedgerFee \in Nat
  OBVIOUS
<1>. HIDE DEF end, amount
<1>5. /\ ledger' \in [row : {"none", "torn", "open"}, total : Nat, available : Nat,
                      reserved : Nat, reclaimable : Nat]
      /\ CategoriesFitTotal' /\ item' \in [Items -> Steps]
      /\ chain' = chain /\ trusted' \in BOOLEAN /\ refused' \in BOOLEAN /\ ledgerFaults' = ledgerFaults
      /\ trusted' => trusted
      /\ \/ /\ item' = [item EXCEPT ![i] = "burn"] /\ refused' = refused /\ ledger'.row = "open"
            /\ \A k \in Categories : ledger'[k] = CASE k = "reclaimable" -> ledger[k] - amount
                                                    [] k = "available" -> ledger[k] + amount
                                                    [] OTHER -> ledger[k]
         \/ /\ item' = [item EXCEPT ![i] = end] /\ ~Movable("reclaimable", amount)
            /\ ledger' = ledger /\ (refused' => refused \/ trusted)
  BY <1>1, <1>2, <1>3, MoveFacts
<1>b. refresh' \in [at : {"idle", "store"}, free : Nat, bound : Nat, crossed : BOOLEAN]
      /\ ~(refresh'.at = "store" /\ ~refresh'.crossed)
  BY <1>1, <1>3, CrossedSnapshot
<1>7. SnapshotParts'
  BY <1>b DEF SnapshotParts
<1>6. LedgerTyped'
  BY <1>3, <1>5, <1>b DEF LedgerTyped
<1>9. chain'.bound >= Claimed("cell")'
  <2>1. chain.bound >= Claimed("cell") /\ chain.bound \in Nat
    BY <1>3 DEF LedgerInv, LedgerTyped
  <2>2. ASSUME NEW n \in {"burn", "done"}, item' = [item EXCEPT ![i] = n]
        PROVE  chain'.bound >= Claimed("cell")'
    <3>1. n \in Steps /\ "cell" \in Accounts
      BY DEF Steps, Due, Accounts
    <3>2. Claimed("cell") \in Int /\ Claimed("cell")' = Claimed("cell") - Claim("cell", i, "release") + Claim("cell", i, n)
      BY <1>1, <1>3, <2>2, <3>1, ClaimsBecome
    <3>3. Claim("cell", i, n) \in Int /\ Claim("cell", i, n) <= Claim("cell", i, "release") /\ Claim("cell", i, "release") \in Int
      BY <1>8, <1>a
    <3>. QED  BY <1>5, <2>1, <3>2, <3>3
  <2>. QED  BY <1>4, <1>5, <2>2
<1>10. ASSUME trusted PROVE TrustedParts /\ Movable("reclaimable", amount)
  <2>1. TrustedParts
    BY <1>10 DEF LedgerInv
  <2>2. Claimed("reclaimable") >= Claim("reclaimable", i, "release") /\ Claimed("reclaimable") \in Int
    BY <1>1, <1>3, ClaimedAtLeast, ClaimedType DEF Accounts
  <2>3. ledger.reclaimable >= amount
    BY <1>3, <1>8, <1>a, <2>1, <2>2 DEF TrustedParts, LedgerTyped
  <2>. QED  BY <2>1, <2>3 DEF Movable, TrustedParts
<1>11. ~refused'
  BY <1>5, <1>10 DEF LedgerInv, FundedWhenDue
<1>12. ASSUME trusted' PROVE TrustedParts'
  <2>1. trusted /\ TrustedParts
    BY <1>5, <1>10, <1>12
  <2>2. item' = [item EXCEPT ![i] = "burn"] /\ ledger'.row = "open"
    BY <1>5, <1>10, <2>1
  <2>3. /\ ledger'.available = ledger.available + (Cap - LedgerFee)
        /\ ledger'.reserved = ledger.reserved
        /\ ledger'.reclaimable = ledger.reclaimable - (Cap - LedgerFee)
    BY <1>2, <1>5, <1>10, <1>a, <2>1 DEF Categories
  <2>4. \A account \in Accounts : /\ Claimed(account) \in Int
           /\ Claimed(account)' = Claimed(account) - Claim(account, i, "release") + Claim(account, i, "burn")
    BY <1>1, <1>2, <1>3, <2>2, ClaimsBecome
  <2>5. /\ Claimed("available")' = Claimed("available")
        /\ Claimed("reserved")' = Claimed("reserved")
        /\ Claimed("reclaimable")' = Claimed("reclaimable") - (Cap) + (LedgerFee)
        /\ Claimed("spendable")' = Claimed("spendable") - (LedgerFee - Cap)
        /\ Claimed("bound")' = Claimed("bound") - (0 - Cap) + (0 - LedgerFee)
        /\ Claimed("available") \in Int
        /\ Claimed("reserved") \in Int
        /\ Claimed("reclaimable") \in Int
        /\ Claimed("spendable") \in Int
        /\ Claimed("bound") \in Int
    BY <1>8, <1>a, <2>4 DEF Accounts
  <2>6. /\ ledger.available \in Nat /\ ledger.reserved \in Nat /\ ledger.reclaimable \in Nat
        /\ chain.free \in Nat /\ chain.bound \in Nat
    BY <1>3 DEF LedgerTyped
  <2>7. refresh'.at = "store" /\ ~refresh'.crossed => ledger'.reserved + ledger'.reclaimable <= refresh'.bound
    BY <1>b
  <2>8. /\ ledger'.available >= Claimed("available")' /\ ledger'.reserved >= Claimed("reserved")'
        /\ ledger'.reclaimable >= Claimed("reclaimable")'
    BY <1>a, <2>1, <2>3, <2>5, <2>6 DEF TrustedParts
  <2>9. /\ ledger'.available >= chain'.free + Claimed("spendable")'
        /\ ledger'.reserved + ledger'.reclaimable + Claimed("bound")' <= chain'.bound
    BY <1>5, <1>a, <2>1, <2>3, <2>5, <2>6 DEF TrustedParts
  <2>. QED  BY <2>2, <2>7, <2>8, <2>9 DEF TrustedParts
<1>. QED  BY <1>5, <1>6, <1>7, <1>9, <1>11, <1>12 DEF LedgerInv, FundedWhenDue

(* A receipt: the cell's row is queued for reclaim.                        *)
LEMMA LedgerAcknowledge == ASSUME LedgerInv, NEW i \in Items, AcknowledgeItem(i) PROVE LedgerInv'
<1>1. /\ item[i] = "held" /\ i \in Texting /\ item' = [item EXCEPT ![i] = "mark"]
      /\ ledger' = ledger /\ chain' = chain /\ refresh' = refresh /\ ledgerFaults' = ledgerFaults
  BY DEF AcknowledgeItem
<1>2. trusted' = trusted
  BY DEF AcknowledgeItem
<1>3. refused' = refused
  BY DEF AcknowledgeItem
<1>4. LedgerTyped
  BY DEF LedgerInv
<1>5. LedgerTyped'
  <2>1. item' \in [Items -> Steps]
    BY <1>1, <1>4 DEF LedgerTyped, Steps, Due
  <2>2. trusted' \in BOOLEAN /\ refused' \in BOOLEAN
    BY <1>2, <1>3, <1>4 DEF LedgerTyped
  <2>. QED  BY <1>1, <1>4, <2>1, <2>2 DEF LedgerTyped
<1>6. \A account \in Accounts : Claimed(account)' = Claimed(account)
  <2>1. ASSUME NEW account \in Accounts PROVE Claimed(account)' = Claimed(account)
    <3>1. "mark" \in Steps
      BY DEF Steps, Due
    <3>2. /\ Claimed(account) \in Int
          /\ Claimed(account)' = Claimed(account) - Claim(account, i, "held") + Claim(account, i, "mark")
      BY <1>1, <1>4, <3>1, ClaimsBecome
    <3>3. Claim(account, i, "held") = Claim(account, i, "mark") /\ Claim(account, i, "held") \in Int
      <4>1. "held" \in Steps
        BY DEF Steps
      <4>2. Claim(account, i, "held") = Claim(account, i, "mark")
        BY <1>1 DEF Claim, Accounts
      <4>. QED  BY <4>1, <4>2, ClaimType
    <3>. QED  BY <3>2, <3>3
  <2>. QED  BY <2>1
<1>7. Unsettled' = Unsettled
  <2>1. item'[i] = "mark" /\ \A j \in Items \ {i} : item'[j] = item[j]
    BY <1>1, <1>4 DEF LedgerTyped
  <2>2. i \notin Unsettled /\ i \notin Unsettled'
    BY <1>1, <2>1 DEF Unsettled, Due
  <2>3. \A j \in Items \ {i} : j \in Unsettled <=> j \in Unsettled'
    BY <2>1 DEF Unsettled
  <2>. QED  BY <2>2, <2>3 DEF Unsettled
<1>8. CategoriesFitTotal' /\ SnapshotParts' /\ FundedWhenDue'
  <2>1. SnapshotParts'
    BY <1>1, <1>7 DEF LedgerInv, SnapshotParts
  <2>2. FundedWhenDue'
    BY <1>3 DEF LedgerInv, FundedWhenDue
  <2>. QED  BY <1>1, <2>1, <2>2 DEF LedgerInv, CategoriesFitTotal
<1>9. chain'.bound >= Claimed("cell")'
  BY <1>1, <1>6 DEF LedgerInv, Accounts
<1>10. ASSUME trusted' PROVE TrustedParts'
  <2>1. TrustedParts
    BY <1>2, <1>10 DEF LedgerInv
  <2>. QED  BY <1>1, <1>6, <2>1 DEF TrustedParts, Accounts
<1>. QED  BY <1>5, <1>8, <1>9, <1>10 DEF LedgerInv

(* The fee of a reclaim is written off.                                    *)
LEMMA LedgerBurn == ASSUME LedgerInv, NEW i \in Items, RecordFeeBurn(i) PROVE LedgerInv'
<1>1. /\ item[i] = "burn" /\ item' = [item EXCEPT ![i] = "done"] /\ chain' = chain /\ Crossed
      /\ ledger' = [ledger EXCEPT !.reclaimable = Max({0, @ - LedgerFee})] /\ ledgerFaults' = ledgerFaults
  BY DEF RecordFeeBurn
<1>2. trusted' = trusted
  BY DEF RecordFeeBurn
<1>3. refused' = refused
  BY DEF RecordFeeBurn
<1>4. LedgerTyped
  BY DEF LedgerInv
<1>5. refresh' \in [at : {"idle", "store"}, free : Nat, bound : Nat, crossed : BOOLEAN]
      /\ ~(refresh'.at = "store" /\ ~refresh'.crossed)
  BY <1>1, <1>4, CrossedSnapshot
<1>6. /\ ledger' \in [row : {"none", "torn", "open"}, total : Nat, available : Nat,
                      reserved : Nat, reclaimable : Nat]
      /\ ledger'.row = ledger.row /\ ledger'.total = ledger.total
      /\ ledger'.available = ledger.available /\ ledger'.reserved = ledger.reserved
      /\ ledger'.reclaimable <= ledger.reclaimable
      /\ ledger'.reclaimable >= ledger.reclaimable - LedgerFee
      /\ ledger.reclaimable >= LedgerFee => ledger'.reclaimable = ledger.reclaimable - LedgerFee
  <2>1. /\ ledger \in [row : {"none", "torn", "open"}, total : Nat, available : Nat, reserved : Nat, reclaimable : Nat]
        /\ ledger.reclaimable \in Nat
    BY <1>4 DEF LedgerTyped
  <2>. DEFINE left == Max({0, ledger.reclaimable - LedgerFee})
  <2>2. left = IF 0 >= ledger.reclaimable - LedgerFee THEN 0 ELSE ledger.reclaimable - LedgerFee
    BY <2>1, MaxOf
  <2>3. left \in Nat /\ left <= ledger.reclaimable /\ left >= ledger.reclaimable - LedgerFee
        /\ (ledger.reclaimable >= LedgerFee => left = ledger.reclaimable - LedgerFee)
    BY <2>1, <2>2
  <2>4. ledger' = [ledger EXCEPT !.reclaimable = left]
    BY <1>1
  <2>. HIDE DEF left
  <2>. QED  BY <2>1, <2>3, <2>4
<1>7. LedgerTyped'
  <2>1. item' \in [Items -> Steps]
    BY <1>1, <1>4 DEF LedgerTyped, Steps
  <2>2. trusted' \in BOOLEAN /\ refused' \in BOOLEAN
    BY <1>2, <1>3, <1>4 DEF LedgerTyped
  <2>. QED  BY <1>1, <1>4, <1>5, <1>6, <2>1, <2>2 DEF LedgerTyped
<1>8. CategoriesFitTotal' /\ SnapshotParts' /\ FundedWhenDue'
  <2>1. SnapshotParts'
    BY <1>5 DEF SnapshotParts
  <2>2. FundedWhenDue'
    BY <1>3 DEF LedgerInv, FundedWhenDue
  <2>3. CategoriesFitTotal'
    BY <1>4, <1>6, <1>7 DEF LedgerInv, CategoriesFitTotal, LedgerTyped
  <2>. QED  BY <2>1, <2>2, <2>3
<1>9. \A account \in Accounts : /\ Claimed(account) \in Int
           /\ Claimed(account)' = Claimed(account) - Claim(account, i, "burn") + Claim(account, i, "done")
  <2>1. "done" \in Steps
    BY DEF Steps
  <2>. QED  BY <1>1, <1>4, <2>1, ClaimsBecome
<1>10. \A account \in Accounts :
          /\ Claim(account, i, "done") = 0
          /\ Claim(account, i, "burn") = CASE account = "reclaimable" -> LedgerFee
                                           [] account = "bound" -> 0 - LedgerFee
                                           [] OTHER -> 0
  BY DEF Claim, Accounts
<1>11. /\ Claimed("cell")' = Claimed("cell") /\ Claimed("available")' = Claimed("available")
       /\ Claimed("reserved")' = Claimed("reserved")
       /\ Claimed("reclaimable")' = Claimed("reclaimable") - LedgerFee
       /\ Claimed("spendable")' = Claimed("spendable")
       /\ Claimed("bound")' = Claimed("bound") + LedgerFee
       /\ \A account \in Accounts : Claimed(account) \in Int
  BY <1>9, <1>10 DEF Accounts
<1>12. chain'.bound >= Claimed("cell")'
  BY <1>1, <1>11 DEF LedgerInv
<1>13. ASSUME trusted' PROVE TrustedParts'
  <2>1. TrustedParts
    BY <1>2, <1>13 DEF LedgerInv
  <2>2. Claimed("reclaimable") >= LedgerFee
    <3>1. Claimed("reclaimable") >= Claim("reclaimable", i, item[i])
      BY <1>4, ClaimedAtLeast
    <3>. QED  BY <1>1, <1>10, <3>1 DEF Accounts
  <2>3. /\ ledger.available \in Nat /\ ledger.reserved \in Nat /\ ledger.reclaimable \in Nat
        /\ chain.free \in Nat /\ chain.bound \in Nat
    BY <1>4 DEF LedgerTyped
  <2>4. Claimed("reclaimable") \in Int /\ Claimed("bound") \in Int
    BY <1>11 DEF Accounts
  <2>5. ledger'.reclaimable = ledger.reclaimable - LedgerFee
    BY <1>6, <2>1, <2>2, <2>3, <2>4 DEF TrustedParts
  <2>6. /\ ledger'.reclaimable >= Claimed("reclaimable")'
        /\ ledger'.reserved + ledger'.reclaimable + Claimed("bound")' <= chain'.bound
    BY <1>1, <1>6, <1>11, <2>1, <2>3, <2>4, <2>5 DEF TrustedParts
  <2>. QED  BY <1>1, <1>5, <1>6, <1>11, <2>1, <2>6 DEF TrustedParts
<1>. QED  BY <1>7, <1>8, <1>12, <1>13 DEF LedgerInv

(* A commit that the ledger hears of later, the item at the step that      *)
(* follows; the snapshot that was being stored is crossed.                 *)
LEMMA LedgerPublication == ASSUME LedgerInv, NEW i \in Items, PublicationCommits(i) PROVE LedgerInv'
<1>1. /\ item[i] = "idle" /\ chain.free >= Cap + LedgerFee /\ Crossed
      /\ chain' = [free |-> chain.free - Cap - LedgerFee, bound |-> chain.bound + Cap]
      /\ item' = [item EXCEPT ![i] = "reserve"] /\ ledger' = ledger /\ ledgerFaults' = ledgerFaults
  BY DEF PublicationCommits
<1>2. trusted' = (trusted /\ \A j \in Unsettled : item[j] = "reserve")
  BY DEF PublicationCommits
<1>3. refused' = refused
  BY DEF PublicationCommits
<1>4. LedgerTyped
  BY DEF LedgerInv
<1>5. refresh' \in [at : {"idle", "store"}, free : Nat, bound : Nat, crossed : BOOLEAN]
      /\ ~(refresh'.at = "store" /\ ~refresh'.crossed)
  BY <1>1, <1>4, CrossedSnapshot
<1>6. chain.free \in Nat /\ chain.bound \in Nat /\ chain' \in [free : Nat, bound : Nat]
      /\ chain'.free = chain.free - Cap - LedgerFee /\ chain'.bound = chain.bound + Cap
  <2>1. chain.free \in Nat /\ chain.bound \in Nat
    BY <1>4 DEF LedgerTyped
  <2>2. chain.free - Cap - LedgerFee \in Nat /\ chain.bound + Cap \in Nat
    BY <1>1, <2>1
  <2>. QED  BY <1>1, <2>1, <2>2
<1>7. LedgerTyped'
  <2>1. item' \in [Items -> Steps]
    BY <1>1, <1>4 DEF LedgerTyped, Steps, Due
  <2>2. trusted' \in BOOLEAN /\ refused' \in BOOLEAN
    BY <1>2, <1>3, <1>4 DEF LedgerTyped
  <2>. QED  BY <1>1, <1>4, <1>5, <1>6, <2>1, <2>2 DEF LedgerTyped
<1>8. CategoriesFitTotal' /\ SnapshotParts' /\ FundedWhenDue'
  <2>1. SnapshotParts'
    BY <1>5 DEF SnapshotParts
  <2>2. FundedWhenDue'
    BY <1>3 DEF LedgerInv, FundedWhenDue
  <2>3. CategoriesFitTotal'
    BY <1>1 DEF LedgerInv, CategoriesFitTotal
  <2>. QED  BY <2>1, <2>2, <2>3
<1>9. \A account \in Accounts : /\ Claimed(account) \in Int
           /\ Claimed(account)' = Claimed(account) - Claim(account, i, "idle") + Claim(account, i, "reserve")
  <2>1. "reserve" \in Steps
    BY DEF Steps, Due
  <2>. QED  BY <1>1, <1>4, <2>1, ClaimsBecome
<1>10. \A account \in Accounts :
          /\ Claim(account, i, "idle") = 0
          /\ Claim(account, i, "reserve") = IF account \in {"reserved", "reclaimable"} THEN 0 ELSE Cap
  BY DEF Claim, Accounts
<1>11. /\ Claimed("cell")' = Claimed("cell") + Cap /\ Claimed("available")' = Claimed("available") + Cap
       /\ Claimed("reserved")' = Claimed("reserved")
       /\ Claimed("reclaimable")' = Claimed("reclaimable")
       /\ Claimed("spendable")' = Claimed("spendable") + Cap
       /\ Claimed("bound")' = Claimed("bound") + Cap
       /\ \A account \in Accounts : Claimed(account) \in Int
  BY <1>9, <1>10 DEF Accounts
<1>12. chain'.bound >= Claimed("cell")'
  <2>1. chain.bound >= Claimed("cell") /\ Claimed("cell") \in Int
    BY <1>11 DEF LedgerInv, Accounts
  <2>. QED  BY <1>6, <1>11, <2>1
<1>13. ASSUME trusted' PROVE TrustedParts'
  <2>1. TrustedParts /\ \A j \in Unsettled : item[j] = "reserve"
    BY <1>2, <1>13 DEF LedgerInv
  <2>2. Claimed("spendable") = Claimed("available")
    <3>1. ASSUME NEW j \in Items
          PROVE  /\ Claims("spendable")[j] \in Int
                 /\ Claims("spendable")[j] = Claims("available")[j]
      <4>1. item[j] \in Steps
        BY <1>4 DEF LedgerTyped
      <4>2. Claims("spendable")[j] = Claim("spendable", j, item[j])
            /\ Claims("available")[j] = Claim("available", j, item[j])
        BY DEF Claims
      <4>3. CASE item[j] = "reserve"
        BY <4>2, <4>3 DEF Claim
      <4>4. CASE item[j] # "reserve"
        <5>1. j \notin Unsettled
          BY <2>1, <4>4
        <5>2. item[j] \in {"idle", "held", "acked", "done"} \/ (item[j] = "mark" /\ j \in Texting)
          <6>1. CASE j \in Texting
            BY <4>1, <5>1, <6>1 DEF Unsettled, Steps, Due
          <6>2. CASE j \notin Texting
            <7>1. (IF j \in Texting THEN {"mark"} ELSE {}) = {}
              BY <6>2
            <7>2. item[j] \notin Due
              BY <5>1, <7>1 DEF Unsettled
            <7>. QED  BY <4>1, <7>2 DEF Steps, Due
          <6>. QED  BY <6>1, <6>2
        <5>3. CASE item[j] \in {"idle", "held", "acked", "done"}
          BY <4>2, <5>3 DEF Claim
        <5>4. CASE item[j] = "mark" /\ j \in Texting
          BY <4>2, <5>4 DEF Claim
        <5>. QED  BY <5>2, <5>3, <5>4
      <4>. QED  BY <4>3, <4>4
    <3>. QED  BY <3>1, ItemsFinite, SumSame DEF Claimed
  <2>3. ledger.available \in Nat /\ ledger.reserved \in Nat /\ ledger.reclaimable \in Nat
    BY <1>4 DEF LedgerTyped
  <2>4. /\ Claimed("available") \in Int /\ Claimed("spendable") \in Int /\ Claimed("bound") \in Int
        /\ Claimed("available") >= 0
    <3>1. Claimed("available") \in Nat
      BY <1>4, ClaimedType DEF Accounts
    <3>. QED  BY <1>11, <3>1 DEF Accounts
  <2>5. /\ ledger.available >= chain.free + Claimed("spendable")
        /\ ledger.reserved + ledger.reclaimable + Claimed("bound") <= chain.bound
        /\ ledger.row = "open" /\ ledger.reserved >= Claimed("reserved") /\ ledger.reclaimable >= Claimed("reclaimable")
    BY <2>1 DEF TrustedParts
  <2>6. ledger.available >= Claimed("available") + Cap
    BY <1>1, <1>6, <2>2, <2>3, <2>4, <2>5
  <2>7. /\ ledger.available >= chain'.free + (Claimed("spendable") + Cap)
        /\ ledger.reserved + ledger.reclaimable + (Claimed("bound") + Cap) <= chain'.bound
    BY <1>6, <2>3, <2>4, <2>5
  <2>. QED  BY <1>1, <1>5, <1>11, <2>5, <2>6, <2>7 DEF TrustedParts
<1>. QED  BY <1>7, <1>8, <1>12, <1>13 DEF LedgerInv

LEMMA LedgerReclaim == ASSUME LedgerInv, NEW i \in Items, ReclaimCommits(i) PROVE LedgerInv'
<1>. DEFINE old == IF i \in Texting THEN "acked" ELSE "held"
            new == IF i \in Texting THEN "release" ELSE "mark"
<1>1. /\ item[i] = old /\ Crossed
      /\ chain' = [free |-> chain.free + Cap - LedgerFee, bound |-> chain.bound - Cap]
      /\ item' = [item EXCEPT ![i] = new] /\ ledger' = ledger /\ ledgerFaults' = ledgerFaults
  BY DEF ReclaimCommits
<1>2. trusted' = trusted
  BY DEF ReclaimCommits
<1>3. refused' = refused
  BY DEF ReclaimCommits
<1>4. LedgerTyped
  BY DEF LedgerInv
<1>5. refresh' \in [at : {"idle", "store"}, free : Nat, bound : Nat, crossed : BOOLEAN]
      /\ ~(refresh'.at = "store" /\ ~refresh'.crossed)
  BY <1>1, <1>4, CrossedSnapshot
<1>6. new \in Steps
  BY DEF Steps, Due
<1>7. \A account \in Accounts :
         Claim(account, i, new) = Claim(account, i, old) +
            (CASE account \in {"cell", "bound"} -> 0 - Cap
               [] account = "spendable" -> LedgerFee - Cap
               [] OTHER -> 0)
  <2>1. CASE i \in Texting
    BY <2>1 DEF Claim, Accounts
  <2>2. CASE i \notin Texting
    BY <2>2 DEF Claim, Accounts
  <2>. QED  BY <2>1, <2>2
<1>8. \A account \in Accounts : Claim(account, i, old) \in Int
  BY ClaimType DEF Steps
<1>9. Claim("cell", i, old) = Cap
  BY DEF Claim
<1>. HIDE DEF old, new
<1>10. \A account \in Accounts : /\ Claimed(account) \in Int
           /\ Claimed(account)' = Claimed(account) - Claim(account, i, old) + Claim(account, i, new)
  BY <1>1, <1>4, <1>6, ClaimsBecome
<1>11. /\ Claimed("cell")' = Claimed("cell") - Cap /\ Claimed("available")' = Claimed("available")
       /\ Claimed("reserved")' = Claimed("reserved")
       /\ Claimed("reclaimable")' = Claimed("reclaimable")
       /\ Claimed("spendable")' = Claimed("spendable") + LedgerFee - Cap
       /\ Claimed("bound")' = Claimed("bound") - Cap
       /\ \A account \in Accounts : Claimed(account) \in Int
  <2>1. "cell" \in Accounts /\ "available" \in Accounts /\ "reserved" \in Accounts
        /\ "reclaimable" \in Accounts /\ "spendable" \in Accounts /\ "bound" \in Accounts
    BY DEF Accounts
  <2>2. \A account \in Accounts : /\ Claimed(account) \in Int
           /\ Claimed(account)' = Claimed(account) + (CASE account \in {"cell", "bound"} -> 0 - Cap
                                                         [] account = "spendable" -> LedgerFee - Cap
                                                         [] OTHER -> 0)
    BY <1>7, <1>8, <1>10
  <2>. QED  BY <2>1, <2>2
<1>12. /\ chain.free \in Nat /\ chain.bound \in Nat /\ chain' \in [free : Nat, bound : Nat]
       /\ chain'.free = chain.free + Cap - LedgerFee /\ chain'.bound = chain.bound - Cap
       /\ chain'.bound >= Claimed("cell")'
  <2>1. chain.free \in Nat /\ chain.bound \in Nat
    BY <1>4 DEF LedgerTyped
  <2>2. Claimed("cell") >= Cap
    <3>1. Claimed("cell") >= Claim("cell", i, item[i])
      BY <1>4, ClaimedAtLeast
    <3>. QED  BY <1>1, <1>9, <3>1
  <2>3. chain.bound >= Claimed("cell") /\ Claimed("cell") \in Int
    BY <1>11 DEF LedgerInv, Accounts
  <2>4. chain.free + Cap - LedgerFee \in Nat /\ chain.bound - Cap \in Nat
    BY <2>1, <2>2, <2>3
  <2>5. chain'.free = chain.free + Cap - LedgerFee /\ chain'.bound = chain.bound - Cap
    BY <1>1
  <2>6. chain'.bound >= Claimed("cell")'
    BY <1>11, <2>1, <2>3, <2>5
  <2>. QED  BY <1>1, <2>1, <2>4, <2>5, <2>6
<1>13. LedgerTyped'
  <2>1. item' \in [Items -> Steps]
    BY <1>1, <1>4, <1>6 DEF LedgerTyped
  <2>2. trusted' \in BOOLEAN /\ refused' \in BOOLEAN
    BY <1>2, <1>3, <1>4 DEF LedgerTyped
  <2>. QED  BY <1>1, <1>4, <1>5, <1>12, <2>1, <2>2 DEF LedgerTyped
<1>14. CategoriesFitTotal' /\ SnapshotParts' /\ FundedWhenDue'
  <2>1. SnapshotParts'
    BY <1>5 DEF SnapshotParts
  <2>2. FundedWhenDue'
    BY <1>3 DEF LedgerInv, FundedWhenDue
  <2>3. CategoriesFitTotal'
    BY <1>1 DEF LedgerInv, CategoriesFitTotal
  <2>. QED  BY <2>1, <2>2, <2>3
<1>15. ASSUME trusted' PROVE TrustedParts'
  <2>1. TrustedParts
    BY <1>2, <1>15 DEF LedgerInv
  <2>2. ledger.available \in Nat /\ ledger.reserved \in Nat /\ ledger.reclaimable \in Nat
    BY <1>4 DEF LedgerTyped
  <2>3. Claimed("spendable") \in Int /\ Claimed("bound") \in Int
    BY <1>11 DEF Accounts
  <2>4. /\ ledger.available >= chain'.free + Claimed("spendable")'
        /\ ledger.reserved + ledger.reclaimable + Claimed("bound")' <= chain'.bound
    BY <1>11, <1>12, <2>1, <2>2, <2>3 DEF TrustedParts
  <2>. QED  BY <1>1, <1>5, <1>11, <2>1, <2>4 DEF TrustedParts
<1>. QED  BY <1>12, <1>13, <1>14, <1>15 DEF LedgerInv

LEMMA LedgerStarts == LedgerInit => LedgerInv
<1>. SUFFICES ASSUME LedgerInit PROVE LedgerInv
  OBVIOUS
<1>1. /\ ledger = EmptyRow /\ chain = [free |-> Funds, bound |-> ProfileCap]
      /\ item = [i \in Items |-> "idle"] /\ refresh = IdleRefresh /\ ledgerFaults = 0
  BY DEF LedgerInit
<1>2. trusted = FALSE
  BY DEF LedgerInit
<1>3. refused = FALSE
  BY DEF LedgerInit
<1>4. LedgerTyped
  <2>1. ledger \in [row : {"none", "torn", "open"}, total : Nat, available : Nat, reserved : Nat, reclaimable : Nat]
    BY <1>1 DEF EmptyRow
  <2>2. chain \in [free : Nat, bound : Nat] /\ item \in [Items -> Steps] /\ ledgerFaults \in Nat
    BY <1>1 DEF Steps
  <2>3. refresh \in [at : {"idle", "store"}, free : Nat, bound : Nat, crossed : BOOLEAN]
    BY <1>1 DEF IdleRefresh
  <2>4. trusted \in BOOLEAN /\ refused \in BOOLEAN
    BY <1>2, <1>3
  <2>. QED  BY <2>1, <2>2, <2>3, <2>4 DEF LedgerTyped
<1>5. Claimed("cell") = 0
  <2>1. \A i \in Items : item[i] = "idle"
    BY <1>1
  <2>2. \A i \in Items : Claim("cell", i, item[i]) = 0
    BY <2>1 DEF Claim
  <2>. QED  BY <2>2, NoClaims
<1>6. CategoriesFitTotal /\ SnapshotParts /\ chain.bound >= Claimed("cell")
  BY <1>1, <1>5 DEF CategoriesFitTotal, SnapshotParts, EmptyRow, IdleRefresh
<1>. QED  BY <1>2, <1>3, <1>4, <1>6 DEF LedgerInv, FundedWhenDue

(* Steps of no item.                                                       *)
LEMMA LedgerEnsureWallet == ASSUME LedgerInv, EnsureWallet PROVE LedgerInv'
<1>1. /\ ledger.row = "none" /\ chain' = chain /\ item' = item /\ refresh' = refresh
      /\ \E kind \in {"open", "torn"} : ledger' = [ledger EXCEPT !.row = kind]
      /\ ledgerFaults' = ledgerFaults \/ ledgerFaults' = ledgerFaults + 1
  BY DEF EnsureWallet, LedgerFault
<1>2. trusted' = trusted
  BY DEF EnsureWallet
<1>3. refused' = refused
  BY DEF EnsureWallet
<1>4. LedgerTyped
  BY DEF LedgerInv
<1>5. ~trusted
  BY <1>1 DEF LedgerInv, TrustedParts
<1>6. PICK kind \in {"open", "torn"} : ledger' = [ledger EXCEPT !.row = kind]
  BY <1>1
<1>7. LedgerTyped'
  <2>1. ledger' \in [row : {"none", "torn", "open"}, total : Nat, available : Nat, reserved : Nat, reclaimable : Nat]
    BY <1>4, <1>6 DEF LedgerTyped
  <2>2. trusted' \in BOOLEAN /\ refused' \in BOOLEAN
    BY <1>2, <1>3, <1>4 DEF LedgerTyped
  <2>3. ledgerFaults' \in Nat
    BY <1>1, <1>4 DEF LedgerTyped
  <2>. QED  BY <1>1, <1>4, <2>1, <2>2, <2>3 DEF LedgerTyped
<1>8. CategoriesFitTotal'
  <2>1. /\ ledger'.available = ledger.available /\ ledger'.reserved = ledger.reserved
        /\ ledger'.reclaimable = ledger.reclaimable /\ ledger'.total = ledger.total
    BY <1>4, <1>6 DEF LedgerTyped
  <2>. QED  BY <2>1 DEF LedgerInv, CategoriesFitTotal
<1>9. SnapshotParts'
  BY <1>1 DEF LedgerInv, SnapshotParts, Unsettled
<1>10. chain'.bound >= Claimed("cell")'
  BY <1>1, ClaimStays DEF LedgerInv
<1>11. ~trusted' /\ FundedWhenDue'
  BY <1>2, <1>3, <1>5 DEF LedgerInv, FundedWhenDue
<1>. QED  BY <1>7, <1>8, <1>9, <1>10, <1>11 DEF LedgerInv

LEMMA LedgerSnapshot == ASSUME LedgerInv, TakeSnapshot PROVE LedgerInv'
<1>1. /\ ledger' = ledger /\ chain' = chain /\ item' = item /\ ledgerFaults' = ledgerFaults
      /\ refresh' = [at |-> "store", free |-> chain.free, bound |-> chain.bound, crossed |-> Unsettled # {}]
  BY DEF TakeSnapshot
<1>2. trusted' = trusted
  BY DEF TakeSnapshot
<1>3. refused' = refused
  BY DEF TakeSnapshot
<1>4. LedgerTyped
  BY DEF LedgerInv
<1>5. chain.free \in Nat /\ chain.bound \in Nat /\ (Unsettled # {}) \in BOOLEAN
      /\ refresh'.free = chain.free /\ refresh'.bound = chain.bound /\ refresh'.crossed = (Unsettled # {})
  BY <1>1, <1>4 DEF LedgerTyped
<1>6. LedgerTyped'
  <2>1. refresh' \in [at : {"idle", "store"}, free : Nat, bound : Nat, crossed : BOOLEAN]
    BY <1>1, <1>5
  <2>2. trusted' \in BOOLEAN /\ refused' \in BOOLEAN
    BY <1>2, <1>3, <1>4 DEF LedgerTyped
  <2>. QED  BY <1>1, <1>4, <2>1, <2>2 DEF LedgerTyped
<1>7. Unsettled' = Unsettled
  BY <1>1 DEF Unsettled
<1>d. \A account \in Accounts : Claimed(account)' = Claimed(account)
  BY <1>1, ClaimStays
<1>8. SnapshotParts'
  <2>1. ~refresh'.crossed => Unsettled = {}
    BY <1>5
  <2>2. refresh'.free >= chain.free /\ refresh'.bound <= chain.bound
    BY <1>5
  <2>. QED  BY <1>1, <1>7, <2>1, <2>2 DEF SnapshotParts
<1>9. CategoriesFitTotal' /\ FundedWhenDue' /\ chain'.bound >= Claimed("cell")'
  <2>1. CategoriesFitTotal'
    BY <1>1 DEF LedgerInv, CategoriesFitTotal
  <2>2. FundedWhenDue'
    BY <1>3 DEF LedgerInv, FundedWhenDue
  <2>3. chain'.bound >= Claimed("cell")'
    BY <1>1, <1>d DEF LedgerInv, Accounts
  <2>. QED  BY <2>1, <2>2, <2>3
<1>10. ASSUME trusted' PROVE TrustedParts'
  <2>1. TrustedParts
    BY <1>2, <1>10 DEF LedgerInv
  <2>2. ASSUME ~refresh'.crossed PROVE ledger'.reserved + ledger'.reclaimable <= refresh'.bound
    <3>1. Unsettled = {}
      BY <1>5, <2>2
    <3>2. Claimed("bound") = 0
      BY <1>4, <3>1, SettledClaims
    <3>3. ledger.reserved \in Nat /\ ledger.reclaimable \in Nat
      BY <1>4 DEF LedgerTyped
    <3>. QED  BY <1>1, <1>5, <2>1, <3>2, <3>3 DEF TrustedParts
  <2>. QED  BY <1>1, <1>d, <2>1, <2>2 DEF TrustedParts, Accounts
<1>. QED  BY <1>6, <1>8, <1>9, <1>10 DEF LedgerInv

(* What the split of a refresh keeps.                                      *)
LEMMA ReconciledKeeps ==
    ASSUME LedgerTyped, NEW bound \in Nat
    PROVE  /\ Reconciled(bound).reserved \in Nat /\ Reconciled(bound).reclaimable \in Nat
           /\ Reconciled(bound).reserved + Reconciled(bound).reclaimable = bound
           /\ ledger.reserved + ledger.reclaimable <= bound =>
                 /\ Reconciled(bound).reserved >= ledger.reserved
                 /\ Reconciled(bound).reclaimable >= ledger.reclaimable
<1>1. ledger.reserved \in Nat /\ ledger.reclaimable \in Nat
  BY DEF LedgerTyped
<1>. DEFINE least == Min({ledger.reclaimable, bound})
<1>2. least = IF ledger.reclaimable <= bound THEN ledger.reclaimable ELSE bound
  BY <1>1, MinOf
<1>3. Reconciled(bound) =
        IF ledger.reserved + ledger.reclaimable = bound
        THEN [reserved |-> ledger.reserved, reclaimable |-> ledger.reclaimable]
        ELSE [reserved |-> bound - least, reclaimable |-> least]
  BY DEF Reconciled
<1>. HIDE DEF least
<1>. QED  BY <1>1, <1>2, <1>3

LEMMA LedgerRefresh == ASSUME LedgerInv, SetChainBalances PROVE LedgerInv'
<1>1. /\ refresh.at = "store" /\ chain' = chain /\ item' = item /\ refresh' = IdleRefresh
      /\ ledgerFaults' = ledgerFaults
      /\ ledger.row = "open" =>
            ledger' = [row |-> "open", total |-> refresh.free + refresh.bound, available |-> refresh.free,
                       reserved |-> Reconciled(refresh.bound).reserved,
                       reclaimable |-> Reconciled(refresh.bound).reclaimable]
      /\ ledger.row # "open" => ledger' = ledger
  BY DEF SetChainBalances
<1>2. trusted' = /\ ledger.row = "open" /\ ~refresh.crossed
                 /\ trusted \/ \A i \in Items : item[i] \in {"idle", "done"}
  BY DEF SetChainBalances
<1>3. refused' = refused
  BY DEF SetChainBalances
<1>4. LedgerTyped
  BY DEF LedgerInv
<1>5. refresh.free \in Nat /\ refresh.bound \in Nat
  BY <1>4 DEF LedgerTyped
<1>. DEFINE res == Reconciled(refresh.bound).reserved
            rec == Reconciled(refresh.bound).reclaimable
<1>6. /\ res \in Nat /\ rec \in Nat /\ res + rec = refresh.bound
      /\ ledger.reserved + ledger.reclaimable <= refresh.bound => res >= ledger.reserved /\ rec >= ledger.reclaimable
  BY <1>4, <1>5, ReconciledKeeps
<1>7. ledger.row = "open" =>
         /\ ledger' \in [row : {"none", "torn", "open"}, total : Nat, available : Nat, reserved : Nat, reclaimable : Nat]
         /\ ledger'.row = "open" /\ ledger'.total = refresh.free + refresh.bound
         /\ ledger'.available = refresh.free /\ ledger'.reserved = res /\ ledger'.reclaimable = rec
  <2>1. refresh.free + refresh.bound \in Nat
    BY <1>5
  <2>. HIDE DEF res, rec
  <2>2. ledger.row = "open" =>
            ledger' = [row |-> "open", total |-> refresh.free + refresh.bound, available |-> refresh.free,
                       reserved |-> res, reclaimable |-> rec]
    BY <1>1 DEF res, rec
  <2>. QED  BY <1>5, <1>6, <2>1, <2>2
<1>. HIDE DEF res, rec
<1>8. LedgerTyped'
  <2>1. ledger' \in [row : {"none", "torn", "open"}, total : Nat, available : Nat, reserved : Nat, reclaimable : Nat]
    BY <1>1, <1>4, <1>7 DEF LedgerTyped
  <2>2. trusted' \in BOOLEAN
    BY <1>2
  <2>3. refused' \in BOOLEAN
    BY <1>3, <1>4 DEF LedgerTyped
  <2>4. refresh' \in [at : {"idle", "store"}, free : Nat, bound : Nat, crossed : BOOLEAN]
    BY <1>1 DEF IdleRefresh
  <2>. QED  BY <1>1, <1>4, <2>1, <2>2, <2>3, <2>4 DEF LedgerTyped
<1>9. CategoriesFitTotal'
  <2>1. CASE ledger.row = "open"
    BY <1>5, <1>6, <1>7, <2>1 DEF CategoriesFitTotal
  <2>2. CASE ledger.row # "open"
    BY <1>1, <2>2 DEF LedgerInv, CategoriesFitTotal
  <2>. QED  BY <2>1, <2>2
<1>10. SnapshotParts' /\ refresh'.at # "store"
  BY <1>1 DEF SnapshotParts, IdleRefresh
<1>11. FundedWhenDue'
  BY <1>3 DEF LedgerInv, FundedWhenDue
<1>12. \A account \in Accounts : Claimed(account)' = Claimed(account)
  BY <1>1, ClaimStays
<1>13. chain'.bound >= Claimed("cell")'
  BY <1>1, <1>12 DEF LedgerInv, Accounts
<1>14. ASSUME trusted' PROVE TrustedParts'
  <2>1. ledger.row = "open" /\ ~refresh.crossed /\ (trusted \/ \A i \in Items : item[i] \in {"idle", "done"})
    BY <1>2, <1>14
  <2>2. Unsettled = {} /\ refresh.free >= chain.free /\ refresh.bound <= chain.bound
    BY <1>1, <2>1 DEF LedgerInv, SnapshotParts
  <2>3. Claimed("available") = 0 /\ Claimed("spendable") = 0 /\ Claimed("bound") = 0
    BY <1>4, <2>2, SettledClaims
  <2>4. res >= Claimed("reserved") /\ rec >= Claimed("reclaimable")
    <3>1. CASE trusted
      <4>1. TrustedParts
        BY <3>1 DEF LedgerInv
      <4>2. res >= ledger.reserved /\ rec >= ledger.reclaimable
        BY <1>1, <1>6, <2>1, <4>1 DEF TrustedParts
      <4>3. Claimed("reserved") \in Int /\ Claimed("reclaimable") \in Int
        BY <1>4, ClaimedType DEF Accounts
      <4>4. ledger.reserved \in Nat /\ ledger.reclaimable \in Nat
        BY <1>4 DEF LedgerTyped
      <4>. QED  BY <1>6, <4>1, <4>2, <4>3, <4>4 DEF TrustedParts
    <3>2. CASE \A i \in Items : item[i] \in {"idle", "done"}
      <4>1. \A i \in Items : Claim("reserved", i, item[i]) = 0 /\ Claim("reclaimable", i, item[i]) = 0
        BY <3>2 DEF Claim
      <4>2. Claimed("reserved") = 0 /\ Claimed("reclaimable") = 0
        BY <4>1, NoClaims
      <4>. QED  BY <1>6, <4>2
    <3>. QED  BY <2>1, <3>1, <3>2
  <2>5. chain.free \in Nat /\ chain.bound \in Nat
    BY <1>4 DEF LedgerTyped
  <2>6. refresh.free >= 0 /\ refresh.free >= chain.free + 0 /\ res + rec + 0 <= chain.bound
    BY <1>5, <1>6, <2>2, <2>5
  <2>7. /\ ledger'.row = "open" /\ ledger'.available = refresh.free /\ ledger'.reserved = res
        /\ ledger'.reclaimable = rec
    BY <1>7, <2>1
  <2>8. /\ Claimed("available")' = 0 /\ Claimed("spendable")' = 0 /\ Claimed("bound")' = 0
        /\ Claimed("reserved")' = Claimed("reserved") /\ Claimed("reclaimable")' = Claimed("reclaimable")
    BY <1>12, <2>3 DEF Accounts
  <2>. QED  BY <1>1, <1>10, <2>4, <2>6, <2>7, <2>8 DEF TrustedParts
<1>. QED  BY <1>8, <1>9, <1>10, <1>11, <1>13, <1>14 DEF LedgerInv

LEMMA LedgerOtherSpend == ASSUME LedgerInv, OtherSpend PROVE LedgerInv'
<1>1. /\ ledger' = ledger /\ item' = item /\ refresh' = refresh /\ ledgerFaults' = ledgerFaults + 1
      /\ chain.free >= 2
      /\ \E kept \in {0, 2} : chain' = [free |-> chain.free - 2, bound |-> chain.bound + kept]
  BY DEF OtherSpend, LedgerFault
<1>2. trusted' = trusted
  BY DEF OtherSpend
<1>3. refused' = refused
  BY DEF OtherSpend
<1>4. LedgerTyped
  BY DEF LedgerInv
<1>5. PICK kept \in {0, 2} : chain' = [free |-> chain.free - 2, bound |-> chain.bound + kept]
  BY <1>1
<1>6. /\ chain.free \in Nat /\ chain.bound \in Nat /\ chain' \in [free : Nat, bound : Nat]
      /\ chain'.free <= chain.free /\ chain'.bound >= chain.bound
      /\ chain'.free \in Nat /\ chain'.bound \in Nat
  <2>1. chain.free \in Nat /\ chain.bound \in Nat
    BY <1>4 DEF LedgerTyped
  <2>. QED  BY <1>1, <1>5, <2>1
<1>7. LedgerTyped'
  <2>1. trusted' \in BOOLEAN /\ refused' \in BOOLEAN
    BY <1>2, <1>3, <1>4 DEF LedgerTyped
  <2>. QED  BY <1>1, <1>4, <1>6, <2>1 DEF LedgerTyped
<1>8. Unsettled' = Unsettled /\ \A account \in Accounts : Claimed(account)' = Claimed(account) /\ Claimed(account) \in Int
  BY <1>1, <1>4, ClaimStays, ClaimedType DEF Unsettled
<1>9. CategoriesFitTotal'
  BY <1>1 DEF LedgerInv, CategoriesFitTotal
<1>10. SnapshotParts'
  <2>1. refresh.free \in Nat /\ refresh.bound \in Nat
    BY <1>4 DEF LedgerTyped
  <2>. QED  BY <1>1, <1>6, <1>8, <2>1 DEF LedgerInv, SnapshotParts
<1>11. FundedWhenDue'
  BY <1>3 DEF LedgerInv, FundedWhenDue
<1>12. chain'.bound >= Claimed("cell")'
  BY <1>6, <1>8 DEF LedgerInv, Accounts
<1>13. ASSUME trusted' PROVE TrustedParts'
  <2>1. TrustedParts
    BY <1>2, <1>13 DEF LedgerInv
  <2>2. ledger.available \in Nat /\ ledger.reserved \in Nat /\ ledger.reclaimable \in Nat
    BY <1>4 DEF LedgerTyped
  <2>3. Claimed("spendable") \in Int /\ Claimed("bound") \in Int
    BY <1>8 DEF Accounts
  <2>4. /\ ledger.available >= chain'.free + Claimed("spendable")
        /\ ledger.reserved + ledger.reclaimable + Claimed("bound") <= chain'.bound
    BY <1>6, <2>1, <2>2, <2>3 DEF TrustedParts
  <2>. QED  BY <1>1, <1>8, <2>1, <2>4 DEF TrustedParts, Accounts
<1>. QED  BY <1>7, <1>9, <1>10, <1>11, <1>12, <1>13 DEF LedgerInv

LEMMA LedgerPayment == ASSUME LedgerInv, Payment PROVE LedgerInv'
<1>1. /\ ledger' = ledger /\ item' = item /\ Crossed /\ ledgerFaults' = ledgerFaults + 1
      /\ chain' = [chain EXCEPT !.free = @ + 2]
  BY DEF Payment, LedgerFault
<1>2. trusted' = FALSE
  BY DEF Payment
<1>3. refused' = refused
  BY DEF Payment
<1>4. LedgerTyped
  BY DEF LedgerInv
<1>5. refresh' \in [at : {"idle", "store"}, free : Nat, bound : Nat, crossed : BOOLEAN]
      /\ ~(refresh'.at = "store" /\ ~refresh'.crossed)
  BY <1>1, <1>4, CrossedSnapshot
<1>6. chain' \in [free : Nat, bound : Nat] /\ chain'.bound = chain.bound
  BY <1>1, <1>4 DEF LedgerTyped
<1>7. LedgerTyped'
  <2>1. trusted' \in BOOLEAN /\ refused' \in BOOLEAN
    BY <1>2, <1>3, <1>4 DEF LedgerTyped
  <2>. QED  BY <1>1, <1>4, <1>5, <1>6, <2>1 DEF LedgerTyped
<1>8. CategoriesFitTotal' /\ SnapshotParts' /\ chain'.bound >= Claimed("cell")'
  BY <1>1, <1>5, <1>6, ClaimStays DEF LedgerInv, CategoriesFitTotal, SnapshotParts
<1>9. FundedWhenDue' /\ ~trusted'
  BY <1>2, <1>3 DEF LedgerInv, FundedWhenDue
<1>. QED  BY <1>7, <1>8, <1>9 DEF LedgerInv

(* A death: the rows have advanced, the adjustments are lost.              *)
LEMMA LedgerDies == ASSUME LedgerInv, LedgerCrash PROVE LedgerInv'
<1>1. /\ ledger' = ledger /\ chain' = chain /\ item' = [i \in Items |-> After(i)] /\ refresh' = IdleRefresh
      /\ ledgerFaults' = ledgerFaults + 1
  BY DEF LedgerCrash, LedgerFault
<1>2. trusted' = (trusted /\ \A i \in Items : item[i] \notin Due)
  BY DEF LedgerCrash
<1>3. refused' = refused
  BY DEF LedgerCrash
<1>4. LedgerTyped
  BY DEF LedgerInv
<1>5. \A i \in Items : /\ item'[i] \in Steps /\ Claim("cell", i, item'[i]) <= Claim("cell", i, item[i])
                       /\ Claim("cell", i, item'[i]) \in Int /\ Claim("cell", i, item[i]) \in Int
                       /\ item[i] \notin Due => item'[i] = item[i]
  <2>. SUFFICES ASSUME NEW i \in Items
                PROVE  /\ item'[i] \in Steps /\ Claim("cell", i, item'[i]) <= Claim("cell", i, item[i])
                       /\ Claim("cell", i, item'[i]) \in Int /\ Claim("cell", i, item[i]) \in Int
                       /\ item[i] \notin Due => item'[i] = item[i]
    OBVIOUS
  <2>1. item[i] \in Steps /\ item'[i] = After(i)
    BY <1>1, <1>4 DEF LedgerTyped
  <2>2. item'[i] \in Steps
    BY <2>1 DEF After, Unreserved, Steps, Due
  <2>3. Claim("cell", i, item'[i]) \in Nat /\ Claim("cell", i, item[i]) \in Nat
    BY <2>1, <2>2, ClaimType DEF Accounts
  <2>4. Claim("cell", i, item'[i]) <= Claim("cell", i, item[i])
    <3>1. CASE item[i] = "reserve"
      <4>1. Claim("cell", i, item[i]) = Cap
        BY <3>1 DEF Claim
      <4>2. Claim("cell", i, item'[i]) \in {0, Cap}
        BY DEF Claim
      <4>. QED  BY <4>1, <4>2
    <3>2. CASE item[i] = "mark" /\ i \in Texting
      <4>1. Claim("cell", i, item[i]) = Cap
        BY <3>2 DEF Claim
      <4>2. Claim("cell", i, item'[i]) \in {0, Cap}
        BY DEF Claim
      <4>. QED  BY <4>1, <4>2
    <3>3. CASE item[i] \in Due /\ item[i] # "reserve" /\ ~(item[i] = "mark" /\ i \in Texting)
      <4>1. item'[i] = "done"
        BY <2>1, <3>3 DEF After, Due
      <4>2. Claim("cell", i, item'[i]) = 0
        BY <4>1 DEF Claim
      <4>. QED  BY <2>3, <4>2
    <3>4. CASE item[i] \notin Due
      <4>1. item'[i] = item[i]
        BY <2>1, <3>4 DEF After, Due
      <4>. QED  BY <2>3, <4>1
    <3>. QED  BY <3>1, <3>2, <3>3, <3>4
  <2>5. item[i] \notin Due => item'[i] = item[i]
    BY <2>1 DEF After, Due
  <2>. QED  BY <2>2, <2>3, <2>4, <2>5
<1>6. LedgerTyped'
  <2>1. refresh' \in [at : {"idle", "store"}, free : Nat, bound : Nat, crossed : BOOLEAN]
    BY <1>1 DEF IdleRefresh
  <2>2. trusted' \in BOOLEAN /\ refused' \in BOOLEAN
    BY <1>2, <1>3, <1>4 DEF LedgerTyped
  <2>3. item' \in [Items -> Steps]
    BY <1>1, <1>5
  <2>. QED  BY <1>1, <1>4, <2>1, <2>2, <2>3 DEF LedgerTyped
<1>7. chain'.bound >= Claimed("cell")'
  <2>. DEFINE f == Claims("cell")'
              g == Claims("cell")
  <2>1. \A i \in Items : f[i] = Claim("cell", i, item'[i]) /\ g[i] = Claim("cell", i, item[i])
    BY DEF Claims
  <2>2. \A i \in Items : f[i] \in Int /\ g[i] \in Int /\ f[i] <= g[i]
    BY <1>5, <2>1
  <2>. HIDE DEF f, g
  <2>3. SumOver(f, Items) <= SumOver(g, Items)
    BY <2>2, ItemsFinite, SumAtMost
  <2>4. Claimed("cell")' <= Claimed("cell")
    BY <2>3 DEF Claimed, f, g
  <2>5. Claimed("cell")' \in Int /\ Claimed("cell") \in Int
    <3>1. Claimed("cell") \in Int
      BY <1>4, ClaimedType DEF Accounts
    <3>2. SumOver(f, Items) \in Int
      BY <2>2, ItemsFinite, SumType
    <3>3. Claimed("cell")' \in Int
      BY <3>2 DEF Claimed, f
    <3>. QED  BY <3>1, <3>3
  <2>6. chain.bound \in Nat /\ chain.bound >= Claimed("cell")
    BY <1>4 DEF LedgerInv, LedgerTyped
  <2>. QED  BY <1>1, <2>4, <2>5, <2>6
<1>8. CategoriesFitTotal' /\ SnapshotParts' /\ refresh'.at # "store"
  BY <1>1 DEF LedgerInv, CategoriesFitTotal, SnapshotParts, IdleRefresh
<1>9. FundedWhenDue'
  BY <1>3 DEF LedgerInv, FundedWhenDue
<1>10. ASSUME trusted' PROVE TrustedParts'
  <2>1. TrustedParts /\ \A i \in Items : item[i] \notin Due
    BY <1>2, <1>10 DEF LedgerInv
  <2>2. \A i \in Items : item'[i] = item[i]
    BY <1>5, <2>1
  <2>3. item' = item
    BY <1>1, <1>4, <2>2 DEF LedgerTyped
  <2>4. \A account \in Accounts : Claimed(account)' = Claimed(account)
    BY <2>3, ClaimStays
  <2>. QED  BY <1>1, <1>8, <2>1, <2>4 DEF TrustedParts, Accounts
<1>. QED  BY <1>6, <1>7, <1>8, <1>9, <1>10 DEF LedgerInv

LEMMA LedgerStutters == ASSUME LedgerInv, UNCHANGED capacityVars PROVE LedgerInv'
<1>1. ledger' = ledger /\ chain' = chain /\ item' = item /\ refresh' = refresh /\ ledgerFaults' = ledgerFaults
  BY DEF capacityVars
<1>2. trusted' = trusted
  BY DEF capacityVars
<1>3. refused' = refused
  BY DEF capacityVars
<1>4. LedgerTyped'
  BY <1>1, <1>2, <1>3 DEF LedgerInv, LedgerTyped
<1>5. Unsettled' = Unsettled /\ \A account \in Accounts : Claimed(account)' = Claimed(account)
  BY <1>1, ClaimStays DEF Unsettled
<1>6. CategoriesFitTotal' /\ SnapshotParts' /\ chain'.bound >= Claimed("cell")'
  BY <1>1, <1>5 DEF LedgerInv, CategoriesFitTotal, SnapshotParts, Accounts
<1>7. FundedWhenDue'
  BY <1>3 DEF LedgerInv, FundedWhenDue
<1>8. ASSUME trusted' PROVE TrustedParts'
  <2>1. TrustedParts
    BY <1>2, <1>8 DEF LedgerInv
  <2>. QED  BY <1>1, <1>5, <2>1 DEF TrustedParts, Accounts
<1>. QED  BY <1>4, <1>6, <1>7, <1>8 DEF LedgerInv

LEMMA LedgerStep == ASSUME LedgerInv, [LedgerNext]_capacityVars PROVE LedgerInv'
<1>1. ASSUME NEW i \in Items, MarkReclaimable(i) PROVE LedgerInv'
  BY <1>1, LedgerMarkText, LedgerMarkChunk
<1>. QED  BY <1>1, LedgerEnsureWallet, LedgerSnapshot, LedgerRefresh, LedgerOtherSpend, LedgerPayment,
             LedgerDies, LedgerPublication, LedgerReserve, LedgerAcknowledge, LedgerReclaim,
             LedgerRelease, LedgerBurn, LedgerStutters DEF LedgerNext

LEMMA LedgerInvImplies == ASSUME LedgerInv PROVE LedgerAddsUp
<1>1. ASSUME trusted, Unsettled = {} PROVE ledger.available >= chain.free
  <2>1. TrustedParts
    BY <1>1 DEF LedgerInv
  <2>2. Claimed("spendable") = 0
    BY <1>1, SettledClaims DEF LedgerInv
  <2>3. chain.free \in Nat
    BY DEF LedgerInv, LedgerTyped
  <2>. QED  BY <2>1, <2>2, <2>3 DEF TrustedParts
<1>. QED  BY <1>1 DEF LedgerInv, LedgerAddsUp, SpendableIsShown

(* However refreshes, publications, acknowledgements, reclaims and deaths  *)
(* of the process interleave, the categories fit the total, nothing due is *)
(* refused for want of capacity while every adjustment before it was made, *)
(* and what is spendable is shown once all flows are settled               *)
(* (balances.ts:74-114, 136-176).                                          *)
THEOREM TheLedgerAddsUp == LedgerSpec => []LedgerAddsUp
<1>1. LedgerInit => LedgerInv
  BY LedgerStarts
<1>2. LedgerInv /\ [LedgerNext]_capacityVars => LedgerInv'
  BY LedgerStep
<1>3. LedgerInv => LedgerAddsUp
  BY LedgerInvImplies
<1>. QED  BY <1>1, <1>2, <1>3, PTL DEF LedgerSpec

-----------------------------------------------------------------------------
(* The wallet.                                                             *)

CellType == [kind : CellKinds, cap : Nat]
WorthIn(s, S) == SumOver([c \in S |-> s[c].cap], S)

(* The sum as the library has it.                                          *)
Chosen(s, S) == (CHOOSE it : it = [U \in SUBSET S |->
                    IF U = {} THEN 0 ELSE s[AnyOf(U)].cap + it[U \ {AnyOf(U)}]])[S]

LEMMA ChosenIs == ASSUME NEW s, NEW S PROVE Chosen(s, S) = WorthIn(s, S)
<1>1. Chosen(s, S) = MapThenSumSet(LAMBDA c : s[c].cap, S)
  BY DEF Chosen, MapThenSumSet, MapThenFoldSet, AnyOf
<1>. QED  BY <1>1, SumOfCaps DEF WorthIn

LEMMA WorthIs == ASSUME NEW S PROVE Worth(S) = WorthIn(cells, S)
<1>1. Worth(S) = Chosen(cells, S)
  BY DEF Worth, Chosen, MapThenSumSet, MapThenFoldSet, AnyOf
<1>. QED  BY <1>1, ChosenIs

LEMMA TotalIs == ASSUME NEW outs PROVE Total(outs) = WorthIn(outs, DOMAIN outs)
  BY SumOfCaps DEF Total, WorthIn

LEMMA PlacesOf == ASSUME NEW s \in Seq(CellType), NEW S \in SUBSET (1..Len(s))
                  PROVE  IsFiniteSet(S) /\ \A c \in S : s[c] \in CellType /\ s[c].cap \in Nat
<1>1. IsFiniteSet(1..Len(s)) /\ Len(s) \in Nat
  BY FS_Interval
<1>2. IsFiniteSet(S)
  BY <1>1, FS_Subset
<1>3. \A c \in S : s[c] \in CellType
  OBVIOUS
<1>. QED  BY <1>2, <1>3 DEF CellType

LEMMA WorthNat == ASSUME NEW s \in Seq(CellType), NEW S \in SUBSET (1..Len(s))
                  PROVE  WorthIn(s, S) \in Nat
<1>. DEFINE f == [c \in S |-> s[c].cap]
<1>1. IsFiniteSet(S) /\ \A c \in S : f[c] \in Nat
  BY PlacesOf
<1>. HIDE DEF f
<1>2. SumOver(f, S) \in Nat
  BY <1>1, SumNat
<1>. QED  BY <1>2 DEF WorthIn, f

LEMMA WorthUnion ==
    ASSUME NEW s \in Seq(CellType), NEW S \in SUBSET (1..Len(s)), NEW U \in SUBSET (1..Len(s)), S \cap U = {}
    PROVE  WorthIn(s, S \cup U) = WorthIn(s, S) + WorthIn(s, U)
<1>. DEFINE f == [c \in S |-> s[c].cap]
            g == [c \in U |-> s[c].cap]
            h == [c \in S \cup U |-> s[c].cap]
<1>1. /\ IsFiniteSet(S) /\ IsFiniteSet(U)
      /\ \A c \in S : f[c] \in Int /\ f[c] = h[c]
      /\ \A c \in U : g[c] \in Int /\ g[c] = h[c]
      /\ \A c \in S \cup U : h[c] \in Int
  <2>1. IsFiniteSet(S) /\ \A c \in S : s[c].cap \in Nat
    BY PlacesOf
  <2>2. IsFiniteSet(U) /\ \A c \in U : s[c].cap \in Nat
    BY PlacesOf
  <2>. QED  BY <2>1, <2>2
<1>. HIDE DEF f, g, h
<1>2. SumOver(h, S \cup U) = SumOver(h, S) + SumOver(h, U)
  BY <1>1, SumUnion
<1>3. SumOver(f, S) = SumOver(h, S)
  BY <1>1, SumSame
<1>4. SumOver(g, U) = SumOver(h, U)
  BY <1>1, SumSame
<1>. QED  BY <1>2, <1>3, <1>4 DEF WorthIn, f, g, h

LEMMA WorthPart ==
    ASSUME NEW s \in Seq(CellType), NEW S \in SUBSET (1..Len(s)), NEW U \in SUBSET S
    PROVE  /\ WorthIn(s, S) = WorthIn(s, U) + WorthIn(s, S \ U)
           /\ WorthIn(s, U) <= WorthIn(s, S)
<1>1. U \in SUBSET (1..Len(s)) /\ S \ U \in SUBSET (1..Len(s)) /\ U \cap (S \ U) = {} /\ U \cup (S \ U) = S
  OBVIOUS
<1>2. WorthIn(s, S) = WorthIn(s, U) + WorthIn(s, S \ U)
  BY <1>1, WorthUnion
<1>3. WorthIn(s, U) \in Nat /\ WorthIn(s, S \ U) \in Nat
  BY <1>1, WorthNat
<1>. QED  BY <1>2, <1>3

LEMMA WorthSame ==
    ASSUME NEW s \in Seq(CellType), NEW S \in SUBSET (1..Len(s)), NEW r, \A c \in S : r[c] = s[c]
    PROVE  WorthIn(r, S) = WorthIn(s, S)
<1>1. [c \in S |-> r[c].cap] = [c \in S |-> s[c].cap]
  OBVIOUS
<1>. QED  BY <1>1 DEF WorthIn

LEMMA TotalAppended ==
    ASSUME NEW outs \in Seq(CellType), NEW c \in CellType
    PROVE  Total(outs \o <<c>>) = Total(outs) + c.cap /\ outs \o <<c>> \in Seq(CellType)
<1>. DEFINE n == Len(outs)
            more == outs \o <<c>>
            f == [k \in DOMAIN outs |-> outs[k].cap]
            g == [k \in DOMAIN more |-> more[k].cap]
<1>1. /\ n \in Nat /\ more \in Seq(CellType) /\ Len(more) = n + 1 /\ DOMAIN outs = 1..n
      /\ DOMAIN more = 1..(n + 1) /\ more[n + 1] = c /\ \A k \in 1..n : more[k] = outs[k]
  OBVIOUS
<1>2. \A k \in 1..n : f[k] = outs[k].cap /\ g[k] = outs[k].cap /\ outs[k].cap \in Int
  <2>1. \A k \in 1..n : outs[k] \in CellType
    BY <1>1
  <2>. QED  BY <1>1, <2>1 DEF CellType
<1>3. g[n + 1] = c.cap /\ c.cap \in Int
  BY <1>1 DEF CellType
<1>4. IsFiniteSet(1..n) /\ 1..(n + 1) = 1..n \cup {n + 1} /\ n + 1 \notin 1..n
  <2>1. n \in Nat
    BY <1>1
  <2>. HIDE DEF n
  <2>2. IsFiniteSet(1..n)
    BY <2>1, FS_Interval
  <2>3. 1..(n + 1) = 1..n \cup {n + 1} /\ n + 1 \notin 1..n
    BY <2>1
  <2>. QED  BY <2>2, <2>3
<1>5. Total(more) = SumOver(g, 1..(n + 1)) /\ Total(outs) = SumOver(f, 1..n)
  BY <1>1, TotalIs DEF WorthIn
<1>. HIDE DEF f, g, n, more
<1>6. SumOver(g, 1..n \cup {n + 1}) = g[n + 1] + SumOver(g, 1..n)
  <2>1. \A k \in 1..n \cup {n + 1} : g[k] \in Int
    BY <1>2, <1>3
  <2>. QED  BY <1>4, <2>1, SumAdd
<1>7. SumOver(f, 1..n) = SumOver(g, 1..n) /\ SumOver(f, 1..n) \in Int
  <2>1. \A k \in 1..n : f[k] \in Int /\ f[k] = g[k]
    BY <1>2
  <2>. QED  BY <1>4, <2>1, SumSame, SumType
<1>8. Total(more) = Total(outs) + c.cap
  <2>1. Total(more) = SumOver(g, 1..n \cup {n + 1})
    BY <1>4, <1>5
  <2>. QED  BY <1>3, <1>5, <1>6, <1>7, <2>1
<1>. QED  BY <1>1, <1>8 DEF more

LEMMA TotalNat == ASSUME NEW outs \in Seq(CellType) PROVE Total(outs) \in Nat
<1>1. DOMAIN outs \in SUBSET (1..Len(outs))
  OBVIOUS
<1>. QED  BY <1>1, WorthNat, TotalIs

LEMMA WorthNew ==
    ASSUME NEW s \in Seq(CellType), NEW outs \in Seq(CellType)
    PROVE  WorthIn(s \o outs, Shifted(Len(s), Len(outs))) = Total(outs)
<1>. DEFINE n == Len(s)
            m == Len(outs)
            f == [k \in DOMAIN outs |-> outs[k].cap]
            T == Shifted(n, m)
            g == [c \in T |-> (s \o outs)[c].cap]
<1>1. n \in Nat /\ m \in Nat /\ DOMAIN outs = 1..m
  OBVIOUS
<1>2. \A k \in 1..m : (s \o outs)[n + k] = outs[k] /\ outs[k] \in CellType
  OBVIOUS
<1>3. \A k \in 1..m : n + k \in T
  BY DEF Shifted
<1>4. \A k \in 1..m : f[k] \in Int /\ g[n + k] = f[k]
  BY <1>1, <1>2, <1>3 DEF CellType
<1>5. WorthIn(s \o outs, T) = SumOver(g, T) /\ Total(outs) = SumOver(f, 1..m)
  BY <1>1, TotalIs DEF WorthIn
<1>. HIDE DEF f, g, n, m
<1>6. SumOver(g, Shifted(n, m)) = SumOver(f, 1..m)
  <2>1. n \in Nat /\ m \in Nat
    BY <1>1
  <2>2. SameShifted(f, g, n, m)
    BY <1>4 DEF SameShifted
  <2>. QED  BY <2>1, <2>2, SumShift
<1>. QED  BY <1>5, <1>6 DEF n, m

SpendType == [kind : FlowKinds, ins : SUBSET Nat, outs : SUBSET Nat, st : {"pool", "committed", "gone"}]
BuildType == [at : {"idle", "built", "signed", "track", "refused"}, kind : FlowKinds,
              ins : SUBSET Nat, outs : Seq(CellType), clean : BOOLEAN]

WalletTyped ==
    /\ cells \in Seq(CellType) /\ Len(cells) >= 3
    /\ spends \in Seq(SpendType)
    /\ cache \in [usable : SUBSET Nat, unusable : SUBSET Nat]
    /\ build \in [Builds -> BuildType]
    /\ disturbed \in BOOLEAN

Cellar == 1..Len(cells)
Made(c) == c \in 1..3 \/ \E t \in DOMAIN spends : c \in spends[t].outs
OnChain(c) == c \in 1..3 \/ \E t \in DOMAIN spends : spends[t].st = "committed" /\ c \in spends[t].outs
SpentOnChain(c) == \E t \in DOMAIN spends : spends[t].st = "committed" /\ c \in spends[t].ins
IsSpent(c) == \E t \in DOMAIN spends : c \in spends[t].ins

(* Where cells come from.                                                  *)
CellsAreMade ==
    /\ \A c \in Cellar : Made(c)
    /\ \A t \in DOMAIN spends : spends[t].ins \subseteq Cellar /\ spends[t].outs \subseteq 4..Len(cells)
    /\ \A t, u \in DOMAIN spends : t # u => spends[t].outs \cap spends[u].outs = {}
    /\ \A t \in DOMAIN spends : spends[t].st = "committed" => \A c \in spends[t].ins : OnChain(c)
    /\ \A c \in indexed : OnChain(c)
    /\ \A c \in cache.usable : \E t \in DOMAIN spends : c \in spends[t].outs
    /\ \A c \in cache.unusable : IsSpent(c)

KindsKept(s, ins, kind) ==
    \A c \in ins :
        /\ s[c].kind # "foreign"
        /\ s[c].kind \in {"profile", "rotated"} => kind = "rotate"
        /\ s[c].kind = "message" => kind = "reclaim"

BuildsAreSound ==
    \A b \in Builds : build[b].at \in {"built", "signed"} =>
       /\ build[b].ins \subseteq Cellar
       /\ WorthIn(cells, build[b].ins) = Total(build[b].outs) + Fee
       /\ \A k \in DOMAIN build[b].outs : build[b].outs[k].cap >= Occupied[build[b].outs[k].kind]
       /\ KindsKept(cells, build[b].ins, build[b].kind)

SpendsAreSound ==
    \A t \in DOMAIN spends :
       /\ WorthIn(cells, spends[t].ins) = WorthIn(cells, spends[t].outs) + Fee
       /\ \A c \in spends[t].outs : cells[c].cap >= Occupied[cells[c].kind]
       /\ KindsKept(cells, spends[t].ins, spends[t].kind)

(* A spend nobody is about to note any more.                               *)
Tracked(t) == ~ \E b \in Builds : build[b].at = "track" /\ build[b].ins = spends[t].ins

(* What coin selection sees, now or once the spends under way are noted.   *)
Offered(c) == \/ c \in indexed \/ c \in cache.usable
              \/ \E u \in DOMAIN spends : ~Tracked(u) /\ c \in spends[u].outs

InTouch ==
    /\ \A t \in DOMAIN spends : spends[t].st # "gone"
    /\ \A t \in DOMAIN spends : Tracked(t) =>
          /\ \A c \in spends[t].ins : Offered(c) => c \in cache.unusable
          /\ spends[t].st = "pool" => spends[t].ins \subseteq cache.unusable
    /\ \A b \in Builds :
          /\ build[b].at = "refused" => ~build[b].clean
          /\ build[b].at \in {"built", "signed"} /\ build[b].clean =>
                /\ Len(spends) < MaxSpends
                /\ \A c \in build[b].ins : ~IsSpent(c)
                /\ build[b].at = "built" => \A c \in build[b].ins : OnChain(c) \/ (c \in cache.usable /\ c \notin cache.unusable)

(* The history with each transaction counted once.                         *)
Effects == {HistoryRecord(t) : t \in Txs("committed")}

DeltaSum(H) == MapThenSumSet(LAMBDA r : r.delta, H)

HistoryAddsUp ==
    /\ WorthIn(cells, OwnLive) = WorthIn(cells, 1..3) + DeltaSum(Effects)
    /\ IsFiniteSet(Effects)

WalletInv ==
    /\ WalletTyped /\ CellsAreMade /\ BuildsAreSound /\ SpendsAreSound
    /\ ~disturbed => InTouch
    /\ HistoryAddsUp

-----------------------------------------------------------------------------
(* Membership, here and after a step.                                      *)
LEMMA LiveIs ==
    /\ \A c : c \in LiveCells <=> OnChain(c) /\ ~SpentOnChain(c)
    /\ \A c : (c \in LiveCells)' <=> OnChain(c)' /\ ~SpentOnChain(c)'
<1>1. \A c : c \in LiveCells <=> OnChain(c) /\ ~SpentOnChain(c)
  BY DEF LiveCells, OnChain, SpentOnChain, Outs, Ins, Txs
<1>2. \A c : (c \in LiveCells)' <=> OnChain(c)' /\ ~SpentOnChain(c)'
  BY DEF LiveCells, OnChain, SpentOnChain, Outs, Ins, Txs
<1>. QED  BY <1>1, <1>2

LEMMA InPool ==
    ASSUME NEW c
    PROVE  /\ c \in Outs(Txs("pool")) <=> \E t \in DOMAIN spends : spends[t].st = "pool" /\ c \in spends[t].outs
           /\ c \in Ins(Txs("pool")) <=> \E t \in DOMAIN spends : spends[t].st = "pool" /\ c \in spends[t].ins
  BY DEF Outs, Ins, Txs

LEMMA TypedFacts ==
    ASSUME WalletTyped
    PROVE  /\ Len(cells) \in Nat /\ Cellar = DOMAIN cells /\ \A c \in Cellar : cells[c] \in CellType
           /\ Len(spends) \in Nat /\ DOMAIN spends = 1..Len(spends) /\ \A t \in DOMAIN spends : spends[t] \in SpendType
           /\ \A b \in Builds : build[b] \in BuildType
  BY DEF WalletTyped, Cellar

(* OnChain cells, and what the cache offers, exist.                        *)
LEMMA TheyExist ==
    ASSUME WalletTyped, CellsAreMade
    PROVE  /\ \A c : Made(c) => c \in Cellar
           /\ \A c : OnChain(c) => c \in Cellar
           /\ LiveCells \subseteq Cellar /\ OwnLive \subseteq Cellar /\ Selectable \subseteq Cellar
<1>0. 1..3 \subseteq Cellar /\ 4..Len(cells) \subseteq Cellar
  BY DEF WalletTyped, Cellar
<1>1. \A c : Made(c) => c \in Cellar
  BY <1>0 DEF Made, CellsAreMade
<1>2. \A c : OnChain(c) => Made(c)
  BY DEF OnChain, Made
<1>3. \A c \in cache.usable \cup indexed : c \in Cellar
  BY <1>1, <1>2 DEF CellsAreMade, Made
<1>4. LiveCells \subseteq Cellar
  BY <1>1, <1>2, LiveIs
<1>. QED  BY <1>1, <1>2, <1>3, <1>4 DEF OwnLive, Selectable

-----------------------------------------------------------------------------
(* The history, as a function of the cells and the spends.                 *)
Own(s, S) == {c \in S : s[c].kind # "foreign"}
DeltaOf(s, x) == WorthIn(s, Own(s, x.outs)) - WorthIn(s, Own(s, x.ins))
Entry(t, delta) == [tx |-> t, delta |-> delta,
                    direction |-> CASE delta > 0 -> "received" [] delta < 0 -> "sent" [] OTHER -> "self"]
Committed(x) == {t \in DOMAIN x : x[t].st = "committed"}
History(s, x) == {Entry(t, DeltaOf(s, x[t])) : t \in Committed(x)}

LEMMA DeltaIs == ASSUME NEW t
                 PROVE  LockDelta(t) = DeltaOf(cells, spends[t]) /\ LockDelta(t)' = DeltaOf(cells', spends'[t])
<1>. DEFINE outs == {c \in spends[t].outs : cells[c].kind # "foreign"}
            ins == {c \in spends[t].ins : cells[c].kind # "foreign"}
<1>1. LockDelta(t) = Worth(outs) - Worth(ins)
  BY DEF LockDelta, OwnCells
<1>2. LockDelta(t)' = Worth(outs)' - Worth(ins)'
  BY DEF LockDelta, OwnCells
<1>. HIDE DEF outs, ins
<1>3. Worth(outs) = WorthIn(cells, outs) /\ Worth(outs)' = WorthIn(cells', outs')
  <2>1. Worth(outs)' = Chosen(cells', outs')
    BY DEF Worth, Chosen, MapThenSumSet, MapThenFoldSet, AnyOf
  <2>. QED  BY <2>1, WorthIs, ChosenIs
<1>4. Worth(ins) = WorthIn(cells, ins) /\ Worth(ins)' = WorthIn(cells', ins')
  <2>1. Worth(ins)' = Chosen(cells', ins')
    BY DEF Worth, Chosen, MapThenSumSet, MapThenFoldSet, AnyOf
  <2>. QED  BY <2>1, WorthIs, ChosenIs
<1>5. outs = Own(cells, spends[t].outs) /\ outs' = Own(cells', spends'[t].outs)
  BY DEF Own, outs
<1>6. ins = Own(cells, spends[t].ins) /\ ins' = Own(cells', spends'[t].ins)
  BY DEF Own, ins
<1>. QED  BY <1>1, <1>2, <1>3, <1>4, <1>5, <1>6 DEF DeltaOf

LEMMA HistoryIs == Effects = History(cells, spends) /\ Effects' = History(cells', spends')
<1>1. Effects = {Entry(t, LockDelta(t)) : t \in Txs("committed")}
  BY DEF Effects, HistoryRecord, Entry
<1>2. Effects' = {Entry(t, LockDelta(t)') : t \in Txs("committed")'}
  BY DEF Effects, HistoryRecord, Entry
<1>3. Txs("committed") = Committed(spends) /\ Txs("committed")' = Committed(spends')
  BY DEF Txs, Committed
<1>4. \A t : LockDelta(t) = DeltaOf(cells, spends[t]) /\ LockDelta(t)' = DeltaOf(cells', spends'[t])
  BY DeltaIs
<1>. QED  BY <1>1, <1>2, <1>3, <1>4 DEF History

(* No cell changes, and what is committed stays what it is.                *)
Continues ==
    /\ cells' \in Seq(CellType) /\ Len(cells') >= Len(cells) /\ \A c \in Cellar : cells'[c] = cells[c]
    /\ \A t : t \in Committed(spends) <=> t \in Committed(spends')
    /\ \A t \in Committed(spends) : spends'[t].ins = spends[t].ins /\ spends'[t].outs = spends[t].outs

LEMMA DeltaStays ==
    ASSUME WalletTyped, NEW x, x.ins \subseteq Cellar, x.outs \subseteq Cellar,
           NEW y, y.ins = x.ins, y.outs = x.outs, NEW r, \A c \in Cellar : r[c] = cells[c]
    PROVE  DeltaOf(r, y) = DeltaOf(cells, x)
<1>1. Own(r, y.outs) = Own(cells, x.outs) /\ Own(r, y.ins) = Own(cells, x.ins)
  BY DEF Own
<1>. DEFINE S == Own(cells, x.outs)
            U == Own(cells, x.ins)
<1>2. S \subseteq Cellar /\ U \subseteq Cellar /\ cells \in Seq(CellType)
  BY DEF Own, WalletTyped
<1>. HIDE DEF S, U
<1>3. WorthIn(r, S) = WorthIn(cells, S)
  BY <1>2, WorthSame DEF Cellar
<1>4. WorthIn(r, U) = WorthIn(cells, U)
  BY <1>2, WorthSame DEF Cellar
<1>. QED  BY <1>1, <1>3, <1>4 DEF DeltaOf, S, U

LEMMA HistoryStays == ASSUME WalletTyped, CellsAreMade, HistoryAddsUp, Continues PROVE HistoryAddsUp'
<1>0. /\ cells \in Seq(CellType) /\ Len(cells) \in Nat /\ OwnLive \subseteq Cellar /\ LiveCells \subseteq Cellar
      /\ 1..3 \subseteq Cellar
  BY TheyExist DEF WalletTyped, Cellar
<1>1. \A t \in Committed(spends) : t \in DOMAIN spends /\ spends[t].ins \subseteq Cellar /\ spends[t].outs \subseteq Cellar
  <2>1. 4..Len(cells) \subseteq Cellar
    BY <1>0 DEF Cellar
  <2>. QED  BY <2>1 DEF Committed, CellsAreMade
<1>2. \A t \in Committed(spends) : DeltaOf(cells', spends'[t]) = DeltaOf(cells, spends[t])
  BY <1>1, DeltaStays DEF Continues
<1>3. Effects' = Effects
  <2>1. Committed(spends) = Committed(spends')
    BY DEF Continues
  <2>2. History(cells', spends') = History(cells, spends)
    BY <1>2, <2>1 DEF History
  <2>. QED  BY <2>2, HistoryIs
<1>4. \A c : /\ OnChain(c)' <=> OnChain(c)
             /\ SpentOnChain(c)' <=> SpentOnChain(c)
  <2>1. \A c : OnChain(c) <=> c \in 1..3 \/ \E t \in Committed(spends) : c \in spends[t].outs
    BY DEF OnChain, Committed
  <2>2. \A c : OnChain(c)' <=> c \in 1..3 \/ \E t \in Committed(spends') : c \in spends'[t].outs
    BY DEF OnChain, Committed
  <2>3. \A c : SpentOnChain(c) <=> \E t \in Committed(spends) : c \in spends[t].ins
    BY DEF SpentOnChain, Committed
  <2>4. \A c : SpentOnChain(c)' <=> \E t \in Committed(spends') : c \in spends'[t].ins
    BY DEF SpentOnChain, Committed
  <2>. QED  BY <2>1, <2>2, <2>3, <2>4 DEF Continues
<1>5. \A c : (c \in LiveCells)' <=> c \in LiveCells
  BY <1>4, LiveIs
<1>6. OwnLive' = OwnLive
  <2>1. \A c : c \in LiveCells => cells'[c] = cells[c]
    BY <1>0 DEF Continues
  <2>2. LiveCells' = LiveCells
    BY <1>5
  <2>3. OwnLive' = {c \in LiveCells' : cells'[c].kind # "foreign"}
    BY DEF OwnLive
  <2>. QED  BY <2>1, <2>2, <2>3 DEF OwnLive
<1>7. WorthIn(cells', OwnLive) = WorthIn(cells, OwnLive) /\ WorthIn(cells', 1..3) = WorthIn(cells, 1..3)
  <2>1. \A S \in SUBSET Cellar : WorthIn(cells', S) = WorthIn(cells, S)
    BY <1>0, WorthSame DEF Continues, Cellar
  <2>. QED  BY <1>0, <2>1
<1>. QED  BY <1>3, <1>6, <1>7 DEF HistoryAddsUp

(* The sum over the entries; over one more of them.                        *)
LEMMA DeltaSumIs == \A S : DeltaSum(S) = SumOver([r \in S |-> r.delta], S)
<1>. TAKE S
<1>. DEFINE f == [r \in S |-> r.delta]
<1>1. \A T \in SUBSET S : T # {} => f[AnyOf(T)] = AnyOf(T).delta
  BY AnyIn
<1>2. \A it : SumRule(it, f, S) <=> it = [T \in SUBSET S |-> IF T = {} THEN 0 ELSE AnyOf(T).delta + it[T \ {AnyOf(T)}]]
  <2>. TAKE it
  <2>1. [T \in SUBSET S |-> IF T = {} THEN 0 ELSE f[AnyOf(T)] + it[T \ {AnyOf(T)}]]
        = [T \in SUBSET S |-> IF T = {} THEN 0 ELSE AnyOf(T).delta + it[T \ {AnyOf(T)}]]
    BY <1>1
  <2>. QED  BY <2>1 DEF SumRule
<1>. HIDE DEF f
<1>3. SumTable(f, S) = CHOOSE it : it = [T \in SUBSET S |-> IF T = {} THEN 0 ELSE AnyOf(T).delta + it[T \ {AnyOf(T)}]]
  BY <1>2 DEF SumTable
<1>4. DeltaSum(S)
      = (CHOOSE it : it = [T \in SUBSET S |-> IF T = {} THEN 0 ELSE AnyOf(T).delta + it[T \ {AnyOf(T)}]])[S]
  BY DEF DeltaSum, MapThenSumSet, MapThenFoldSet, AnyOf
<1>. QED  BY <1>3, <1>4 DEF SumOver, f

LEMMA DeltaSumAdds ==
    ASSUME NEW H, IsFiniteSet(H), NEW e, e \notin H, \A r \in H \cup {e} : r.delta \in Int
    PROVE  DeltaSum(H \cup {e}) = e.delta + DeltaSum(H) /\ DeltaSum(H) \in Int
<1>1. \A S : DeltaSum(S) = SumOver([r \in S |-> r.delta], S)
  BY DeltaSumIs
<1>. DEFINE G == H \cup {e}
            f == [r \in G |-> r.delta]
            g == [r \in H |-> r.delta]
<1>2. /\ \A r \in H : g[r] \in Int /\ g[r] = f[r]
      /\ \A r \in H \cup {e} : f[r] \in Int
      /\ f[e] = e.delta
  OBVIOUS
<1>3. DeltaSum(H \cup {e}) = SumOver(f, G) /\ DeltaSum(H) = SumOver(g, H)
  BY <1>1
<1>. HIDE DEF f, g
<1>4. SumOver(f, H \cup {e}) = f[e] + SumOver(f, H)
  BY <1>2, SumAdd
<1>5. SumOver(g, H) = SumOver(f, H) /\ SumOver(g, H) \in Int
  BY <1>2, SumSame, SumType
<1>. QED  BY <1>2, <1>3, <1>4, <1>5

(* The node changes its mind on spends, and nothing else changes.          *)
Restated ==
    /\ cells' = cells /\ cache' = cache /\ build' = build /\ indexed' = indexed
    /\ spends' \in Seq(SpendType) /\ DOMAIN spends' = DOMAIN spends /\ Len(spends') = Len(spends)
    /\ \A t \in DOMAIN spends : /\ spends'[t].ins = spends[t].ins /\ spends'[t].outs = spends[t].outs
                                /\ spends'[t].kind = spends[t].kind
                                /\ spends[t].st = "committed" => spends'[t].st = "committed"
                                /\ spends'[t].st = "committed" => \A c \in spends[t].ins : OnChain(c)

LEMMA RestatedParts ==
    ASSUME WalletTyped, CellsAreMade, BuildsAreSound, SpendsAreSound, Restated
    PROVE  CellsAreMade' /\ BuildsAreSound' /\ SpendsAreSound'
<1>1. \A c : OnChain(c) => OnChain(c)'
  BY DEF OnChain, Restated
<1>2. CellsAreMade'
  <2>1. \A c \in Cellar' : Made(c)'
    BY DEF CellsAreMade, Restated, Cellar, Made
  <2>2. \A t \in DOMAIN spends' : spends'[t].ins \subseteq Cellar' /\ spends'[t].outs \subseteq 4..Len(cells')
    BY DEF CellsAreMade, Restated, Cellar
  <2>3. \A t, u \in DOMAIN spends' : t # u => spends'[t].outs \cap spends'[u].outs = {}
    BY DEF CellsAreMade, Restated
  <2>4. \A t \in DOMAIN spends' : spends'[t].st = "committed" => \A c \in spends'[t].ins : OnChain(c)'
    BY <1>1 DEF Restated
  <2>5. \A c \in indexed' : OnChain(c)'
    BY <1>1 DEF CellsAreMade, Restated
  <2>6. \A c \in cache'.usable : \E t \in DOMAIN spends' : c \in spends'[t].outs
    BY DEF CellsAreMade, Restated
  <2>7. \A c \in cache'.unusable : IsSpent(c)'
    BY DEF CellsAreMade, Restated, IsSpent
  <2>. QED  BY <2>1, <2>2, <2>3, <2>4, <2>5, <2>6, <2>7 DEF CellsAreMade
<1>3. BuildsAreSound'
  BY DEF BuildsAreSound, Restated, Cellar, KindsKept
<1>4. SpendsAreSound'
  BY DEF SpendsAreSound, Restated, KindsKept
<1>. QED  BY <1>2, <1>3, <1>4

LEMMA CommitRestates == ASSUME WalletTyped, CellsAreMade, NEW t \in DOMAIN spends, CommitTx(t)
                        PROVE  /\ Restated /\ spends[t].st = "pool" /\ spends'[t].st = "committed"
                               /\ \A u \in DOMAIN spends : u # t => spends'[u].st = spends[u].st
                               /\ spends[t].ins \subseteq LiveCells
<1>1. /\ cells' = cells /\ cache' = cache /\ build' = build /\ indexed' = indexed
      /\ spends' = [spends EXCEPT ![t].st = "committed"] /\ t \in Txs("pool") /\ spends[t].ins \subseteq LiveCells
  BY DEF CommitTx
<1>2. spends \in Seq(SpendType) /\ \A u \in DOMAIN spends : spends[u] \in SpendType
  BY DEF WalletTyped
<1>3. DOMAIN spends' = DOMAIN spends /\ Len(spends') = Len(spends)
      /\ spends'[t] = [spends[t] EXCEPT !.st = "committed"] /\ \A u \in DOMAIN spends : u # t => spends'[u] = spends[u]
  BY <1>1, <1>2
<1>4. spends'[t] \in SpendType /\ spends'[t].st = "committed" /\ spends'[t].ins = spends[t].ins
      /\ spends'[t].outs = spends[t].outs /\ spends'[t].kind = spends[t].kind
  BY <1>2, <1>3 DEF SpendType
<1>5. spends' \in Seq(SpendType)
  BY <1>1, <1>2, <1>3, <1>4
<1>6. spends[t].st = "pool"
  BY <1>1 DEF Txs
<1>7. \A c \in spends[t].ins : OnChain(c)
  BY <1>1, LiveIs
<1>. QED  BY <1>1, <1>3, <1>4, <1>5, <1>6, <1>7 DEF Restated, CellsAreMade

LEMMA WalletCommits == ASSUME WalletInv, NEW t \in DOMAIN spends, CommitTx(t) PROVE WalletInv'
<1>0. WalletTyped /\ CellsAreMade /\ BuildsAreSound /\ SpendsAreSound /\ HistoryAddsUp
  BY DEF WalletInv
<1>1. /\ Restated /\ spends[t].st = "pool" /\ spends'[t].st = "committed"
      /\ \A u \in DOMAIN spends : u # t => spends'[u].st = spends[u].st
      /\ spends[t].ins \subseteq LiveCells
  BY <1>0, CommitRestates
<1>2. disturbed' = disturbed
  BY DEF CommitTx
<1>3. CellsAreMade' /\ BuildsAreSound' /\ SpendsAreSound'
  BY <1>0, <1>1, RestatedParts
<1>4. WalletTyped'
  BY <1>0, <1>1, <1>2 DEF WalletTyped, Restated
<1>5. ASSUME InTouch PROVE InTouch'
  <2>1. \A u \in DOMAIN spends : Tracked(u)' <=> Tracked(u)
    BY <1>1 DEF Tracked, Restated
  <2>2. \A c : IsSpent(c)' <=> IsSpent(c)
    BY <1>1 DEF IsSpent, Restated
  <2>3. \A c : OnChain(c) => OnChain(c)'
    BY <1>1 DEF OnChain, Restated
  <2>4. \A u \in DOMAIN spends' : spends'[u].st # "gone"
    BY <1>1, <1>5 DEF Restated, InTouch
  <2>a. \A c : Offered(c)' <=> Offered(c)
    BY <1>1, <2>1 DEF Offered, Restated
  <2>5. \A u \in DOMAIN spends' : Tracked(u)' =>
          /\ \A c \in spends'[u].ins : Offered(c)' => c \in cache'.unusable
          /\ spends'[u].st = "pool" => spends'[u].ins \subseteq cache'.unusable
    BY <1>1, <1>5, <2>1, <2>a DEF Restated, InTouch
  <2>6. \A b \in Builds :
          /\ build'[b].at = "refused" => ~build'[b].clean
          /\ build'[b].at \in {"built", "signed"} /\ build'[b].clean =>
                /\ Len(spends') < MaxSpends
                /\ \A c \in build'[b].ins : ~IsSpent(c)'
                /\ build'[b].at = "built" => \A c \in build'[b].ins : OnChain(c)' \/ (c \in cache'.usable /\ c \notin cache'.unusable)
    BY <1>1, <1>5, <2>2, <2>3 DEF Restated, InTouch
  <2>. QED  BY <2>4, <2>5, <2>6 DEF InTouch
<1>6. HistoryAddsUp'
  <2>. DEFINE ins == spends[t].ins
              outs == Own(cells, spends[t].outs)
              live == OwnLive
  <2>1. /\ cells \in Seq(CellType) /\ live \subseteq Cellar /\ Len(cells) \in Nat
    BY <1>0, TheyExist DEF WalletTyped
  <2>2. /\ ins \subseteq Cellar /\ ins \subseteq live /\ Own(cells, ins) = ins
    <3>1. \A c \in ins : cells[c].kind # "foreign"
      BY <1>0 DEF SpendsAreSound, KindsKept
    <3>. QED  BY <1>0, <1>1, <3>1 DEF OwnLive, Own, CellsAreMade
  <2>3. outs \subseteq Cellar /\ \A c \in outs : c \in spends[t].outs /\ c \notin 1..3
    <3>1. spends[t].outs \subseteq 4..Len(cells)
      BY <1>0 DEF CellsAreMade
    <3>. QED  BY <2>1, <3>1 DEF Own, Cellar
  <2>4. \A c \in spends[t].outs : ~OnChain(c) /\ ~SpentOnChain(c)
    <3>1. \A c \in spends[t].outs : ~OnChain(c)
      <4>1. \A c \in spends[t].outs : c \notin 1..3
        BY <1>0 DEF CellsAreMade
      <4>2. \A u \in DOMAIN spends : spends[u].st = "committed" => u # t
        BY <1>1
      <4>. QED  BY <1>0, <4>1, <4>2 DEF CellsAreMade, OnChain
    <3>. QED  BY <1>0, <3>1 DEF CellsAreMade, SpentOnChain
  <2>5. \A c : /\ OnChain(c)' <=> OnChain(c) \/ c \in spends[t].outs
               /\ SpentOnChain(c)' <=> SpentOnChain(c) \/ c \in ins
    BY <1>1 DEF OnChain, SpentOnChain, Restated
  <2>6. \A c : (c \in LiveCells)' <=> (c \in LiveCells /\ c \notin ins) \/ c \in spends[t].outs
    <3>1. \A c : (c \in LiveCells)' <=> (OnChain(c) \/ c \in spends[t].outs) /\ ~(SpentOnChain(c) \/ c \in ins)
      BY <2>5, LiveIs
    <3>2. \A c \in ins : OnChain(c)
      BY <1>1, LiveIs
    <3>. QED  BY <2>4, <3>1, <3>2, LiveIs
  <2>7. OwnLive' = (live \ ins) \cup outs
    <3>1. OwnLive' = {c \in LiveCells' : cells[c].kind # "foreign"}
      BY <1>1 DEF OwnLive, Restated
    <3>2. LiveCells' = (LiveCells \ ins) \cup spends[t].outs
      BY <2>6
    <3>. QED  BY <3>1, <3>2 DEF OwnLive, Own
  <2>8. outs \cap live = {}
    BY <2>3, <2>4, LiveIs DEF OwnLive
  <2>. DEFINE delta == DeltaOf(cells, spends[t])
              e == Entry(t, delta)
  <2>9. delta = WorthIn(cells, outs) - WorthIn(cells, ins)
    BY <2>2 DEF DeltaOf
  <2>10. \A u \in Committed(spends) : DeltaOf(cells, spends[u]) \in Int /\ delta \in Int
    <3>1. \A u \in DOMAIN spends : DeltaOf(cells, spends[u]) \in Int
      <4>. SUFFICES ASSUME NEW u \in DOMAIN spends PROVE DeltaOf(cells, spends[u]) \in Int
        OBVIOUS
      <4>1. spends[u].ins \subseteq Cellar /\ spends[u].outs \subseteq 4..Len(cells) /\ 4..Len(cells) \subseteq Cellar
        BY <1>0, <2>1 DEF CellsAreMade, Cellar
      <4>2. Own(cells, spends[u].ins) \in SUBSET (1..Len(cells)) /\ Own(cells, spends[u].outs) \in SUBSET (1..Len(cells))
        BY <4>1 DEF Own, Cellar
      <4>3. WorthIn(cells, Own(cells, spends[u].ins)) \in Nat /\ WorthIn(cells, Own(cells, spends[u].outs)) \in Nat
        BY <2>1, <4>2, WorthNat
      <4>. QED  BY <4>3 DEF DeltaOf
    <3>. QED  BY <3>1 DEF Committed
  <2>10a. delta \in Int
    <3>1. WorthIn(cells, outs) \in Nat /\ WorthIn(cells, ins) \in Nat
      BY <2>1, <2>2, <2>3, WorthNat DEF Cellar
    <3>. QED  BY <2>9, <3>1
  <2>. HIDE DEF live, outs, delta
  <2>11. WorthIn(cells, (live \ ins) \cup outs) = WorthIn(cells, live) + delta
    <3>1. WorthIn(cells, live) = WorthIn(cells, ins) + WorthIn(cells, live \ ins)
      BY <2>1, <2>2, WorthPart DEF Cellar
    <3>2. WorthIn(cells, (live \ ins) \cup outs) = WorthIn(cells, live \ ins) + WorthIn(cells, outs)
      <4>1. live \ ins \in SUBSET (1..Len(cells)) /\ outs \in SUBSET (1..Len(cells)) /\ (live \ ins) \cap outs = {}
        BY <2>1, <2>3, <2>8 DEF Cellar
      <4>. QED  BY <2>1, <4>1, WorthUnion
    <3>3. WorthIn(cells, ins) \in Nat /\ WorthIn(cells, live \ ins) \in Nat /\ WorthIn(cells, outs) \in Nat
      <4>1. live \ ins \in SUBSET (1..Len(cells)) /\ outs \in SUBSET (1..Len(cells)) /\ ins \in SUBSET (1..Len(cells))
        BY <2>1, <2>2, <2>3 DEF Cellar
      <4>. QED  BY <2>1, <4>1, WorthNat
    <3>. QED  BY <2>9, <3>1, <3>2, <3>3
  <2>12. Effects' = Effects \cup {e} /\ e \notin Effects
    <3>1. Committed(spends') = Committed(spends) \cup {t} /\ t \notin Committed(spends)
      BY <1>1 DEF Committed, Restated
    <3>2. cells' = cells /\ \A u \in DOMAIN spends : spends'[u].ins = spends[u].ins /\ spends'[u].outs = spends[u].outs
      BY <1>1 DEF Restated
    <3>3. \A u \in DOMAIN spends : DeltaOf(cells', spends'[u]) = DeltaOf(cells, spends[u])
      BY <3>2 DEF DeltaOf
    <3>4. History(cells', spends') = {Entry(u, DeltaOf(cells, spends[u])) : u \in Committed(spends) \cup {t}}
      <4>1. \A u \in Committed(spends) \cup {t} : DeltaOf(cells', spends'[u]) = DeltaOf(cells, spends[u])
        BY <3>3 DEF Committed
      <4>. QED  BY <3>1, <4>1 DEF History
    <3>5. e \notin History(cells, spends)
      <4>1. \A u \in Committed(spends) : Entry(u, DeltaOf(cells, spends[u])).tx = u
        BY DEF Entry
      <4>2. e.tx = t
        BY DEF Entry
      <4>. QED  BY <3>1, <4>1, <4>2 DEF History
    <3>6. History(cells', spends') = History(cells, spends) \cup {e}
      BY <3>4 DEF History, delta
    <3>. QED  BY <3>5, <3>6, HistoryIs
  <2>13. \A r \in Effects \cup {e} : r.delta \in Int
    <3>1. \A u \in Committed(spends) : Entry(u, DeltaOf(cells, spends[u])).delta \in Int
      BY <2>10 DEF Entry
    <3>2. e.delta = delta
      BY DEF Entry
    <3>. QED  BY <2>10a, <3>1, <3>2, HistoryIs DEF History
  <2>14. DeltaSum(Effects') = delta + DeltaSum(Effects) /\ DeltaSum(Effects) \in Int
    <3>1. e.delta = delta
      BY DEF Entry
    <3>2. IsFiniteSet(Effects)
      BY <1>0 DEF HistoryAddsUp
    <3>. HIDE DEF e
    <3>3. DeltaSum(Effects \cup {e}) = e.delta + DeltaSum(Effects) /\ DeltaSum(Effects) \in Int
      BY <2>12, <2>13, <3>2, DeltaSumAdds
    <3>. QED  BY <2>12, <3>1, <3>3
  <2>15. IsFiniteSet(Effects')
    <3>1. IsFiniteSet(Effects)
      BY <1>0 DEF HistoryAddsUp
    <3>. HIDE DEF e
    <3>. QED  BY <2>12, <3>1, FS_AddElement
  <2>16. WorthIn(cells, 1..3) \in Nat
    <3>1. 1..3 \in SUBSET (1..Len(cells))
      BY <1>0 DEF WalletTyped
    <3>. QED  BY <2>1, <3>1, WorthNat
  <2>17. WorthIn(cells, live) = WorthIn(cells, 1..3) + DeltaSum(Effects)
    BY <1>0 DEF HistoryAddsUp, live
  <2>18. WorthIn(cells', OwnLive') = WorthIn(cells', 1..3) + DeltaSum(Effects')
    <3>1. cells' = cells
      BY <1>1 DEF Restated
    <3>2. WorthIn(cells', OwnLive') = WorthIn(cells, live) + delta
      BY <2>7, <2>11, <3>1
    <3>. HIDE DEF e
    <3>. QED  BY <2>10a, <2>14, <2>16, <2>17, <3>1, <3>2
  <2>. QED  BY <2>15, <2>18 DEF HistoryAddsUp
<1>7. ~disturbed' => InTouch'
  BY <1>2, <1>5 DEF WalletInv
<1>. QED  BY <1>3, <1>4, <1>6, <1>7 DEF WalletInv

LEMMA WalletEvicts == ASSUME WalletInv, NEW t \in DOMAIN spends, EvictTx(t) PROVE WalletInv'
<1>0. WalletTyped /\ CellsAreMade /\ BuildsAreSound /\ SpendsAreSound /\ HistoryAddsUp
  BY DEF WalletInv
<1>1. /\ cells' = cells /\ cache' = cache /\ build' = build /\ indexed' = indexed
      /\ spends' = [u \in DOMAIN spends |->
                 IF spends[u].st = "pool" /\ (u = t \/ spends[u].ins \cap spends[t].outs # {})
                 THEN [spends[u] EXCEPT !.st = "gone"] ELSE spends[u]]
  BY DEF EvictTx
<1>2. disturbed' = TRUE
  BY DEF EvictTx
<1>3. \A u \in DOMAIN spends :
         /\ spends[u] \in SpendType /\ spends'[u] \in SpendType
         /\ spends'[u].ins = spends[u].ins /\ spends'[u].outs = spends[u].outs /\ spends'[u].kind = spends[u].kind
         /\ spends'[u].st = "committed" <=> spends[u].st = "committed"
  <2>. SUFFICES ASSUME NEW u \in DOMAIN spends
                PROVE  /\ spends[u] \in SpendType /\ spends'[u] \in SpendType
                       /\ spends'[u].ins = spends[u].ins /\ spends'[u].outs = spends[u].outs
                       /\ spends'[u].kind = spends[u].kind
                       /\ spends'[u].st = "committed" <=> spends[u].st = "committed"
    OBVIOUS
  <2>1. spends[u] \in SpendType
    BY <1>0, TypedFacts
  <2>2. CASE spends'[u] = [spends[u] EXCEPT !.st = "gone"] /\ spends[u].st = "pool"
    BY <2>1, <2>2 DEF SpendType
  <2>3. CASE spends'[u] = spends[u]
    BY <2>1, <2>3
  <2>. QED  BY <1>1, <2>2, <2>3
<1>4. DOMAIN spends' = DOMAIN spends /\ Len(spends') = Len(spends) /\ spends' \in Seq(SpendType)
  <2>1. DOMAIN spends = 1..Len(spends) /\ Len(spends) \in Nat
    BY <1>0, TypedFacts
  <2>2. DOMAIN spends' = DOMAIN spends /\ \A u \in DOMAIN spends : spends'[u] \in SpendType
    BY <1>1, <1>3
  <2>3. spends' \in [1..Len(spends) -> SpendType]
    BY <1>1, <2>1, <2>2
  <2>4. spends' \in Seq(SpendType)
    BY <2>1, <2>3
  <2>. QED  BY <2>1, <2>2, <2>4
<1>5. Restated
  BY <1>0, <1>1, <1>3, <1>4 DEF Restated, CellsAreMade
<1>6. CellsAreMade' /\ BuildsAreSound' /\ SpendsAreSound'
  BY <1>0, <1>5, RestatedParts
<1>7. WalletTyped'
  BY <1>0, <1>1, <1>2, <1>4 DEF WalletTyped
<1>8. Continues
  BY <1>0, <1>1, <1>3, <1>4 DEF Continues, Committed, WalletTyped
<1>9. HistoryAddsUp'
  BY <1>0, <1>8, HistoryStays
<1>. QED  BY <1>2, <1>6, <1>7, <1>9 DEF WalletInv

(* The wallet's own steps that create nothing: cells and spends stay.      *)
LEMMA StillAddsUp ==
    ASSUME WalletTyped, CellsAreMade, SpendsAreSound, HistoryAddsUp, cells' = cells, spends' = spends
    PROVE  /\ HistoryAddsUp' /\ SpendsAreSound'
           /\ \A c : OnChain(c)' <=> OnChain(c)
           /\ \A c : SpentOnChain(c)' <=> SpentOnChain(c)
           /\ \A c : IsSpent(c)' <=> IsSpent(c)
           /\ \A c : Made(c)' <=> Made(c)
<1>1. Continues
  BY DEF Continues, WalletTyped
<1>2. HistoryAddsUp'
  BY <1>1, HistoryStays
<1>3. SpendsAreSound'
  BY DEF SpendsAreSound, KindsKept
<1>. QED  BY <1>2, <1>3 DEF OnChain, SpentOnChain, IsSpent, Made

(* The seven parts of CellsAreMade when only the indexer or the cache moves. *)
LEMMA StillMade ==
    ASSUME WalletTyped, CellsAreMade, SpendsAreSound, HistoryAddsUp, cells' = cells, spends' = spends,
           \A c \in indexed' : OnChain(c),
           \A c \in cache'.usable : \E t \in DOMAIN spends : c \in spends[t].outs,
           \A c \in cache'.unusable : IsSpent(c)
    PROVE  CellsAreMade'
<1>1. /\ \A c : OnChain(c)' <=> OnChain(c)
      /\ \A c : IsSpent(c)' <=> IsSpent(c)
      /\ \A c : Made(c)' <=> Made(c)
  BY StillAddsUp
<1>2. \A c \in Cellar' : Made(c)'
  BY <1>1 DEF CellsAreMade, Cellar
<1>3. \A t \in DOMAIN spends' : spends'[t].ins \subseteq Cellar' /\ spends'[t].outs \subseteq 4..Len(cells')
  BY DEF CellsAreMade, Cellar
<1>4. \A t, u \in DOMAIN spends' : t # u => spends'[t].outs \cap spends'[u].outs = {}
  BY DEF CellsAreMade
<1>5. \A t \in DOMAIN spends' : spends'[t].st = "committed" => \A c \in spends'[t].ins : OnChain(c)'
  BY <1>1 DEF CellsAreMade
<1>6. \A c \in indexed' : OnChain(c)'
  BY <1>1
<1>7. \A c \in cache'.usable : \E t \in DOMAIN spends' : c \in spends'[t].outs
  OBVIOUS
<1>8. \A c \in cache'.unusable : IsSpent(c)'
  BY <1>1
<1>. QED  BY <1>2, <1>3, <1>4, <1>5, <1>6, <1>7, <1>8 DEF CellsAreMade

LEMMA WalletIndexes == ASSUME WalletInv, IndexerCatchesUp PROVE WalletInv'
<1>0. WalletTyped /\ CellsAreMade /\ BuildsAreSound /\ SpendsAreSound /\ HistoryAddsUp
  BY DEF WalletInv
<1>1. /\ cells' = cells /\ cache' = cache /\ build' = build /\ spends' = spends /\ indexed' = OwnLive
  BY DEF IndexerCatchesUp
<1>2. disturbed' = disturbed
  BY DEF IndexerCatchesUp
<1>3. \A c \in indexed' : OnChain(c) /\ ~SpentOnChain(c)
  BY <1>1, LiveIs DEF OwnLive
<1>4. HistoryAddsUp' /\ SpendsAreSound'
  BY <1>0, <1>1, StillAddsUp
<1>5. CellsAreMade'
  <2>1. /\ \A c \in cache'.usable : \E t \in DOMAIN spends : c \in spends[t].outs
        /\ \A c \in cache'.unusable : IsSpent(c)
    BY <1>0, <1>1 DEF CellsAreMade
  <2>. QED  BY <1>0, <1>1, <1>3, <2>1, StillMade
<1>6. BuildsAreSound'
  BY <1>0, <1>1 DEF BuildsAreSound, KindsKept, Cellar
<1>7. WalletTyped'
  BY <1>0, <1>1, <1>2 DEF WalletTyped
<1>8. ASSUME InTouch PROVE InTouch'
  <2>1. \A t \in DOMAIN spends : Tracked(t)' <=> Tracked(t)
    BY <1>1 DEF Tracked
  <2>2. \A c : (OnChain(c)' <=> OnChain(c)) /\ (IsSpent(c)' <=> IsSpent(c))
    BY <1>0, <1>1, StillAddsUp
  <2>3. \A t \in DOMAIN spends' : spends'[t].st # "gone"
    BY <1>1, <1>8 DEF InTouch
  <2>4. ASSUME NEW t \in DOMAIN spends', Tracked(t)'
        PROVE  /\ \A c \in spends'[t].ins : Offered(c)' => c \in cache'.unusable
               /\ spends'[t].st = "pool" => spends'[t].ins \subseteq cache'.unusable
    <3>1. /\ \A c \in spends[t].ins : Offered(c) => c \in cache.unusable
          /\ spends[t].st = "pool" => spends[t].ins \subseteq cache.unusable
          /\ spends[t].st # "gone" /\ spends[t] \in SpendType
      BY <1>0, <1>1, <1>8, <2>1, <2>4, TypedFacts DEF InTouch
    <3>a. \A c : Offered(c)' => Offered(c) \/ c \in indexed'
      BY <1>1, <2>1 DEF Offered
    <3>2. CASE spends[t].st = "pool"
      BY <1>1, <3>1, <3>2
    <3>3. CASE spends[t].st = "committed"
      <4>1. \A c \in spends[t].ins : c \notin indexed'
        BY <1>1, <1>3, <3>3 DEF SpentOnChain
      <4>. QED  BY <1>1, <3>1, <3>3, <3>a, <4>1
    <3>. QED  BY <3>1, <3>2, <3>3 DEF SpendType
  <2>5. \A b \in Builds :
          /\ build'[b].at = "refused" => ~build'[b].clean
          /\ build'[b].at \in {"built", "signed"} /\ build'[b].clean =>
                /\ Len(spends') < MaxSpends
                /\ \A c \in build'[b].ins : ~IsSpent(c)'
                /\ build'[b].at = "built" => \A c \in build'[b].ins : OnChain(c)' \/ (c \in cache'.usable /\ c \notin cache'.unusable)
    BY <1>1, <1>8, <2>2 DEF InTouch
  <2>. QED  BY <2>3, <2>4, <2>5 DEF InTouch
<1>9. ~disturbed' => InTouch'
  BY <1>2, <1>8 DEF WalletInv
<1>. QED  BY <1>4, <1>5, <1>6, <1>7, <1>9 DEF WalletInv

LEMMA WalletRestarts == ASSUME WalletInv, RestartApp PROVE WalletInv'
<1>0. WalletTyped /\ CellsAreMade /\ BuildsAreSound /\ SpendsAreSound /\ HistoryAddsUp
  BY DEF WalletInv
<1>1. /\ cells' = cells /\ cache' = EmptyCache /\ build' = [b \in Builds |-> IdleBuild]
      /\ spends' = spends /\ indexed' = indexed
  BY DEF RestartApp
<1>2. disturbed' = (disturbed \/ Txs("pool") # {} \/ indexed # OwnLive)
  BY DEF RestartApp
<1>3. cache'.usable = {} /\ cache'.unusable = {} /\ cache' \in [usable : SUBSET Nat, unusable : SUBSET Nat]
  BY <1>1 DEF EmptyCache
<1>4. HistoryAddsUp' /\ SpendsAreSound'
  BY <1>0, <1>1, StillAddsUp
<1>5. CellsAreMade'
  <2>1. \A c \in indexed' : OnChain(c)
    BY <1>0, <1>1 DEF CellsAreMade
  <2>. QED  BY <1>0, <1>1, <1>3, <2>1, StillMade
<1>6. \A b \in Builds : build'[b] = IdleBuild
  BY <1>1
<1>7. BuildsAreSound'
  BY <1>6 DEF BuildsAreSound, IdleBuild
<1>8. WalletTyped'
  <2>1. IdleBuild \in BuildType
    BY DEF IdleBuild, BuildType, FlowKinds
  <2>2. disturbed' \in BOOLEAN
    BY <1>2
  <2>. QED  BY <1>0, <1>1, <1>3, <2>1, <2>2 DEF WalletTyped
<1>9. ASSUME ~disturbed' PROVE InTouch'
  <2>1. ~disturbed /\ Txs("pool") = {} /\ indexed = OwnLive
    BY <1>2, <1>9
  <2>2. InTouch
    BY <2>1 DEF WalletInv
  <2>3. \A t \in DOMAIN spends : spends[t].st = "committed"
    <3>1. \A t \in DOMAIN spends : spends[t] \in SpendType /\ spends[t].st # "gone"
      BY <1>0, <2>2, TypedFacts DEF InTouch
    <3>. QED  BY <2>1, <3>1 DEF SpendType, Txs
  <2>4. \A t \in DOMAIN spends : \A c \in spends[t].ins : c \notin indexed
    BY <2>1, <2>3, LiveIs DEF OwnLive, SpentOnChain
  <2>5. \A b \in Builds : build'[b].at = "idle"
    BY <1>6 DEF IdleBuild
  <2>6. \A t \in DOMAIN spends : Tracked(t)'
    BY <2>5 DEF Tracked
  <2>7. \A c : Offered(c)' => c \in indexed
    BY <1>1, <1>3, <2>6 DEF Offered
  <2>. QED  BY <1>1, <1>3, <2>3, <2>4, <2>5, <2>7 DEF InTouch
<1>. QED  BY <1>4, <1>5, <1>7, <1>8, <1>9 DEF WalletInv

(* A caller gives up, or is refused.                                       *)
LEMMA WalletGivesUp == ASSUME WalletInv, NEW b \in Builds, GiveUp(b) PROVE WalletInv'
<1>0. WalletTyped /\ CellsAreMade /\ BuildsAreSound /\ SpendsAreSound /\ HistoryAddsUp
  BY DEF WalletInv
<1>1. /\ cells' = cells /\ cache' = cache /\ build' = [build EXCEPT ![b] = IdleBuild]
      /\ spends' = spends /\ indexed' = indexed /\ build[b].at = "refused"
  BY DEF GiveUp
<1>2. disturbed' = disturbed
  BY DEF GiveUp
<1>3. build'[b] = IdleBuild /\ build'[b].at = "idle" /\ \A c \in Builds \ {b} : build'[c] = build[c]
  BY <1>0, <1>1 DEF WalletTyped, IdleBuild
<1>4. HistoryAddsUp' /\ SpendsAreSound'
  BY <1>0, <1>1, StillAddsUp
<1>5. CellsAreMade'
  BY <1>0, <1>1, StillMade DEF CellsAreMade
<1>6. BuildsAreSound'
  BY <1>0, <1>1, <1>3 DEF BuildsAreSound, KindsKept, Cellar
<1>7. WalletTyped'
  <2>1. IdleBuild \in BuildType
    BY DEF IdleBuild, BuildType, FlowKinds
  <2>. QED  BY <1>0, <1>1, <1>2, <2>1 DEF WalletTyped
<1>8. ASSUME InTouch PROVE InTouch'
  <2>1. \A t \in DOMAIN spends : Tracked(t)' <=> Tracked(t)
    BY <1>1, <1>3 DEF Tracked
  <2>2. \A c : (OnChain(c)' <=> OnChain(c)) /\ (IsSpent(c)' <=> IsSpent(c))
    BY <1>0, <1>1, StillAddsUp
  <2>3. \A c : Offered(c)' <=> Offered(c)
    BY <1>1, <2>1 DEF Offered
  <2>. QED  BY <1>1, <1>3, <1>8, <2>1, <2>2, <2>3 DEF InTouch
<1>9. ~disturbed' => InTouch'
  BY <1>2, <1>8 DEF WalletInv
<1>. QED  BY <1>4, <1>5, <1>6, <1>7, <1>9 DEF WalletInv

LEMMA WalletSigns == ASSUME WalletInv, NEW b \in Builds, SignTransaction(b) PROVE WalletInv'
<1>0. WalletTyped /\ CellsAreMade /\ BuildsAreSound /\ SpendsAreSound /\ HistoryAddsUp
  BY DEF WalletInv
<1>. DEFINE fine == (\A c \in build[b].ins : Resolves(c)) /\ AssertAllInputsLockedBy(build[b].ins)
            next == IF fine THEN "signed" ELSE "refused"
<1>1. /\ cells' = cells /\ cache' = cache /\ build' = [build EXCEPT ![b].at = next]
      /\ spends' = spends /\ indexed' = indexed /\ build[b].at = "built"
  BY DEF SignTransaction
<1>2. disturbed' = disturbed
  BY DEF SignTransaction
<1>a. next \in {"signed", "refused"} /\ (next = "refused" <=> ~fine)
  OBVIOUS
<1>b. ASSUME ~disturbed, build[b].clean PROVE fine
  <2>1. \A c \in build[b].ins : ~IsSpent(c) /\ (OnChain(c) \/ (c \in cache.usable /\ c \notin cache.unusable))
    BY <1>1, <1>b DEF WalletInv, InTouch
  <2>2. \A c \in build[b].ins : Resolves(c)
    BY <2>1, LiveIs DEF Resolves, IsSpent, SpentOnChain
  <2>3. AssertAllInputsLockedBy(build[b].ins)
    BY <1>0, <1>1 DEF BuildsAreSound, KindsKept, AssertAllInputsLockedBy
  <2>. QED  BY <2>2, <2>3
<1>. HIDE DEF fine, next
<1>3. /\ build'[b].at = next /\ build'[b].ins = build[b].ins /\ build'[b].outs = build[b].outs
      /\ build'[b].kind = build[b].kind /\ build'[b].clean = build[b].clean /\ build'[b] \in BuildType
      /\ \A c \in Builds \ {b} : build'[c] = build[c]
  <2>1. build[b] \in BuildType /\ build'[b] = [build[b] EXCEPT !.at = next]
    BY <1>0, <1>1, TypedFacts DEF WalletTyped
  <2>. QED  BY <1>0, <1>1, <1>a, <2>1 DEF WalletTyped, BuildType
<1>4. HistoryAddsUp' /\ SpendsAreSound'
  BY <1>0, <1>1, StillAddsUp
<1>5. CellsAreMade'
  BY <1>0, <1>1, StillMade DEF CellsAreMade
<1>6. BuildsAreSound'
  <2>1. \A c \in Builds : build'[c].at \in {"built", "signed"} =>
           /\ build[c].at \in {"built", "signed"} /\ build'[c].ins = build[c].ins
           /\ build'[c].outs = build[c].outs /\ build'[c].kind = build[c].kind
    BY <1>1, <1>3
  <2>. QED  BY <1>0, <1>1, <2>1 DEF BuildsAreSound, KindsKept, Cellar
<1>7. WalletTyped'
  <2>1. build' \in [Builds -> BuildType]
    BY <1>0, <1>1, <1>3 DEF WalletTyped
  <2>. QED  BY <1>0, <1>1, <1>2, <2>1 DEF WalletTyped
<1>8. ASSUME ~disturbed, InTouch PROVE InTouch'
  <2>1. \A t \in DOMAIN spends : Tracked(t)' <=> Tracked(t)
    BY <1>1, <1>3, <1>a DEF Tracked
  <2>2. \A c : (OnChain(c)' <=> OnChain(c)) /\ (IsSpent(c)' <=> IsSpent(c))
    BY <1>0, <1>1, StillAddsUp
  <2>3. \A t \in DOMAIN spends' : spends'[t].st # "gone"
    BY <1>1, <1>8 DEF InTouch
  <2>a. \A c : Offered(c)' <=> Offered(c)
    BY <1>1, <2>1 DEF Offered
  <2>4. \A t \in DOMAIN spends' : Tracked(t)' =>
          /\ \A c \in spends'[t].ins : Offered(c)' => c \in cache'.unusable
          /\ spends'[t].st = "pool" => spends'[t].ins \subseteq cache'.unusable
    BY <1>1, <1>8, <2>1, <2>a DEF InTouch
  <2>5. ASSUME NEW d \in Builds
        PROVE  /\ build'[d].at = "refused" => ~build'[d].clean
               /\ build'[d].at \in {"built", "signed"} /\ build'[d].clean =>
                /\ Len(spends') < MaxSpends
                /\ \A c \in build'[d].ins : ~IsSpent(c)'
                /\ build'[d].at = "built" => \A c \in build'[d].ins : OnChain(c)' \/ (c \in cache'.usable /\ c \notin cache'.unusable)
    <3>1. CASE d = b
      <4>1. build'[b].at = "refused" => ~build'[b].clean
        BY <1>3, <1>8, <1>a, <1>b
      <4>2. build'[b].at # "built"
        BY <1>3, <1>a
      <4>. QED  BY <1>1, <1>3, <1>8, <2>2, <3>1, <4>1, <4>2 DEF InTouch
    <3>2. CASE d # b
      BY <1>1, <1>3, <1>8, <2>2, <3>2 DEF InTouch
    <3>. QED  BY <3>1, <3>2
  <2>. QED  BY <2>3, <2>4, <2>5 DEF InTouch
<1>9. ~disturbed' => InTouch'
  BY <1>2, <1>8 DEF WalletInv
<1>. QED  BY <1>4, <1>5, <1>6, <1>7, <1>9 DEF WalletInv

LEMMA WalletTracks == ASSUME WalletInv, NEW b \in Builds, TrackBroadcastSpend(b) PROVE WalletInv'
<1>0. WalletTyped /\ CellsAreMade /\ BuildsAreSound /\ SpendsAreSound /\ HistoryAddsUp
  BY DEF WalletInv
<1>1. /\ cells' = cells /\ build' = [build EXCEPT ![b] = IdleBuild]
      /\ spends' = spends /\ indexed' = indexed /\ build[b].at = "track"
  BY DEF TrackBroadcastSpend
<1>2. disturbed' = disturbed
  BY DEF TrackBroadcastSpend
<1>d. PICK t \in DOMAIN spends : spends[t].ins = build[b].ins /\ cache' = Marked(spends[t])
  BY DEF TrackBroadcastSpend
<1>e. /\ spends[t].ins \in SUBSET Nat /\ spends[t].outs \in SUBSET Nat
      /\ cache.usable \in SUBSET Nat /\ cache.unusable \in SUBSET Nat
      /\ cache'.usable = (cache.usable \cup spends[t].outs) \ spends[t].ins
      /\ cache'.unusable = cache.unusable \cup spends[t].ins
      /\ cache' \in [usable : SUBSET Nat, unusable : SUBSET Nat]
  <2>1. spends[t] \in SpendType /\ cache \in [usable : SUBSET Nat, unusable : SUBSET Nat]
    BY <1>0, TypedFacts DEF WalletTyped
  <2>. QED  BY <1>d, <2>1 DEF Marked, SpendType
<1>3. build'[b] = IdleBuild /\ build'[b].at = "idle" /\ \A c \in Builds \ {b} : build'[c] = build[c]
  BY <1>0, <1>1 DEF WalletTyped, IdleBuild
<1>4. HistoryAddsUp' /\ SpendsAreSound'
  BY <1>0, <1>1, StillAddsUp
<1>5. CellsAreMade'
  <2>1. \A c \in indexed' : OnChain(c)
    BY <1>0, <1>1 DEF CellsAreMade
  <2>2. \A c \in cache'.usable : \E u \in DOMAIN spends : c \in spends[u].outs
    BY <1>0, <1>e DEF CellsAreMade
  <2>3. \A c \in cache'.unusable : IsSpent(c)
    BY <1>0, <1>e DEF CellsAreMade, IsSpent
  <2>. QED  BY <1>0, <1>1, <2>1, <2>2, <2>3, StillMade
<1>6. BuildsAreSound'
  BY <1>0, <1>1, <1>3 DEF BuildsAreSound, KindsKept, Cellar
<1>7. WalletTyped'
  <2>1. IdleBuild \in BuildType
    BY DEF IdleBuild, BuildType, FlowKinds
  <2>. QED  BY <1>0, <1>1, <1>2, <1>e, <2>1 DEF WalletTyped
<1>8. ASSUME InTouch PROVE InTouch'
  <2>1. \A u \in DOMAIN spends : Tracked(u)' => Tracked(u) \/ spends[u].ins = spends[t].ins
    BY <1>1, <1>3, <1>d DEF Tracked
  <2>2. \A c : (OnChain(c)' <=> OnChain(c)) /\ (IsSpent(c)' <=> IsSpent(c))
    BY <1>0, <1>1, StillAddsUp
  <2>3. \A u \in DOMAIN spends' : spends'[u].st # "gone"
    BY <1>1, <1>8 DEF InTouch
  <2>4. ASSUME NEW u \in DOMAIN spends, Tracked(u)'
        PROVE  /\ \A c \in spends'[u].ins : Offered(c)' => c \in cache'.unusable
               /\ spends'[u].st = "pool" => spends'[u].ins \subseteq cache'.unusable
    <3>1. CASE spends[u].ins = spends[t].ins
      BY <1>1, <1>e, <3>1
    <3>2. CASE Tracked(u)
      <4>1. /\ \A c \in spends[u].ins : Offered(c) => c \in cache.unusable
            /\ spends[u].st = "pool" => spends[u].ins \subseteq cache.unusable
        BY <1>8, <3>2 DEF InTouch
      <4>2. \A v \in DOMAIN spends : ~Tracked(v)' => ~Tracked(v)
        BY <1>1, <1>3 DEF Tracked
      <4>3. ~Tracked(t)
        BY <1>1, <1>d DEF Tracked
      <4>4. \A c : Offered(c)' => Offered(c)
        BY <1>1, <1>e, <4>2, <4>3 DEF Offered
      <4>. QED  BY <1>1, <1>e, <4>1, <4>4
    <3>. QED  BY <2>1, <2>4, <3>1, <3>2
  <2>5. \A c \in Builds :
          /\ build'[c].at = "refused" => ~build'[c].clean
          /\ build'[c].at \in {"built", "signed"} /\ build'[c].clean =>
                /\ Len(spends') < MaxSpends
                /\ \A k \in build'[c].ins : ~IsSpent(k)'
                /\ build'[c].at = "built" => \A k \in build'[c].ins : OnChain(k)' \/ (k \in cache'.usable /\ k \notin cache'.unusable)
    <3>. SUFFICES ASSUME NEW c \in Builds
                  PROVE  /\ build'[c].at = "refused" => ~build'[c].clean
                         /\ build'[c].at \in {"built", "signed"} /\ build'[c].clean =>
                              /\ Len(spends') < MaxSpends
                              /\ \A k \in build'[c].ins : ~IsSpent(k)'
                              /\ build'[c].at = "built" => \A k \in build'[c].ins : OnChain(k)' \/ (k \in cache'.usable /\ k \notin cache'.unusable)
      OBVIOUS
    <3>1. CASE c = b
      BY <1>3, <3>1
    <3>2. CASE c # b
      <4>1. build'[c] = build[c]
        BY <1>3, <3>2
      <4>2. /\ build[c].at = "refused" => ~build[c].clean
            /\ build[c].at \in {"built", "signed"} /\ build[c].clean =>
                /\ Len(spends) < MaxSpends
                /\ \A k \in build[c].ins : ~IsSpent(k)
                /\ build[c].at = "built" => \A k \in build[c].ins : OnChain(k) \/ (k \in cache.usable /\ k \notin cache.unusable)
        BY <1>8 DEF InTouch
      <4>3. \A k : ~IsSpent(k) => k \notin spends[t].ins
        BY DEF IsSpent
      <4>4. build[c].at \in {"built", "signed"} /\ build[c].clean =>
                /\ Len(spends') < MaxSpends
                /\ \A k \in build[c].ins : ~IsSpent(k)'
        BY <1>1, <2>2, <4>2
      <4>5. build[c].at = "built" /\ build[c].clean =>
               \A k \in build[c].ins : OnChain(k)' \/ (k \in cache'.usable /\ k \notin cache'.unusable)
        BY <1>e, <2>2, <4>2, <4>3
      <4>. QED  BY <4>1, <4>2, <4>4, <4>5
    <3>. QED  BY <3>1, <3>2
  <2>. QED  BY <1>1, <2>3, <2>4, <2>5 DEF InTouch
<1>9. ~disturbed' => InTouch'
  BY <1>2, <1>8 DEF WalletInv
<1>. QED  BY <1>4, <1>5, <1>6, <1>7, <1>9 DEF WalletInv

LEMMA OvertakenFacts ==
    ASSUME NEW bs \in [Builds -> BuildType]
    PROVE  /\ Overtaken(bs) \in [Builds -> BuildType]
           /\ \A c \in Builds : /\ Overtaken(bs)[c].at = bs[c].at /\ Overtaken(bs)[c].ins = bs[c].ins
                                /\ Overtaken(bs)[c].outs = bs[c].outs /\ Overtaken(bs)[c].kind = bs[c].kind
                                /\ bs[c].at \in {"built", "signed"} => ~Overtaken(bs)[c].clean
                                /\ bs[c].at \notin {"built", "signed"} => Overtaken(bs)[c].clean = bs[c].clean
<1>1. \A c \in Builds : /\ bs[c] \in BuildType
                        /\ Overtaken(bs)[c] = IF bs[c].at \in {"built", "signed"}
                                              THEN [bs[c] EXCEPT !.clean = FALSE] ELSE bs[c]
  BY DEF Overtaken
<1>2. \A c \in Builds : /\ Overtaken(bs)[c] \in BuildType
                        /\ Overtaken(bs)[c].at = bs[c].at /\ Overtaken(bs)[c].ins = bs[c].ins
                        /\ Overtaken(bs)[c].outs = bs[c].outs /\ Overtaken(bs)[c].kind = bs[c].kind
                        /\ bs[c].at \in {"built", "signed"} => ~Overtaken(bs)[c].clean
                        /\ bs[c].at \notin {"built", "signed"} => Overtaken(bs)[c].clean = bs[c].clean
  <2>. SUFFICES ASSUME NEW c \in Builds
                PROVE   /\ Overtaken(bs)[c] \in BuildType
                        /\ Overtaken(bs)[c].at = bs[c].at /\ Overtaken(bs)[c].ins = bs[c].ins
                        /\ Overtaken(bs)[c].outs = bs[c].outs /\ Overtaken(bs)[c].kind = bs[c].kind
                        /\ bs[c].at \in {"built", "signed"} => ~Overtaken(bs)[c].clean
                        /\ bs[c].at \notin {"built", "signed"} => Overtaken(bs)[c].clean = bs[c].clean
    OBVIOUS
  <2>1. CASE bs[c].at \in {"built", "signed"}
    <3>1. bs[c] \in BuildType /\ Overtaken(bs)[c] = [bs[c] EXCEPT !.clean = FALSE]
      BY <1>1, <2>1
    <3>. QED  BY <2>1, <3>1 DEF BuildType
  <2>2. CASE bs[c].at \notin {"built", "signed"}
    BY <1>1, <2>2
  <2>. QED  BY <2>1, <2>2
<1>3. Overtaken(bs) \in [Builds -> BuildType]
  <2>1. Overtaken(bs) = [c \in Builds |-> Overtaken(bs)[c]]
    BY DEF Overtaken
  <2>. QED  BY <1>2, <2>1
<1>. QED  BY <1>2, <1>3

(* The node has the transaction: its outputs are the newest cells.         *)
NewSpend(b) == [kind |-> build[b].kind, ins |-> build[b].ins, outs |-> NewIds(build[b].outs), st |-> "pool"]

LEMMA TakenFacts ==
    ASSUME WalletTyped, BuildsAreSound, NEW b \in Builds, build[b].at = "signed", Taken(b)
    PROVE  /\ cells' \in Seq(CellType) /\ Len(cells') = Len(cells) + Len(build[b].outs) /\ Len(cells') \in Nat
           /\ Len(cells') >= Len(cells) /\ Len(cells') >= 3
           /\ \A c \in Cellar : cells'[c] = cells[c]
           /\ NewIds(build[b].outs) = Shifted(Len(cells), Len(build[b].outs))
           /\ \A c : c \in NewIds(build[b].outs) <=> c \in Cellar' /\ c \notin Cellar
           /\ \A c \in NewIds(build[b].outs) : c > Len(cells) /\ \E k \in DOMAIN build[b].outs : cells'[c] = build[b].outs[k]
           /\ Cellar \subseteq Cellar'
           /\ spends' \in Seq(SpendType) /\ Len(spends') = Len(spends) + 1
           /\ DOMAIN spends' = DOMAIN spends \cup {Len(spends) + 1} /\ Len(spends) + 1 \notin DOMAIN spends
           /\ spends'[Len(spends) + 1] = NewSpend(b)
           /\ \A t \in DOMAIN spends : spends'[t] = spends[t]
<1>. DEFINE outs == build[b].outs
            n == Len(cells)
            m == Len(outs)
<1>1. /\ cells \in Seq(CellType) /\ n \in Nat /\ n >= 3 /\ spends \in Seq(SpendType) /\ Len(spends) \in Nat
      /\ build[b] \in BuildType /\ outs \in Seq(CellType) /\ m \in Nat /\ DOMAIN outs = 1..m
  <2>1. build[b] \in BuildType
    BY TypedFacts
  <2>2. outs \in Seq(CellType)
    BY <2>1 DEF BuildType
  <2>. QED  BY <2>1, <2>2 DEF WalletTyped
<1>2. cells' = cells \o outs /\ spends' = Append(spends, NewSpend(b))
  BY DEF Taken, NewSpend
<1>3. NewIds(outs) = Shifted(n, m)
  BY <1>1 DEF NewIds, Shifted
<1>. HIDE DEF outs
<1>4. /\ cells' \in Seq(CellType) /\ Len(cells') = n + m /\ \A c \in 1..n : cells'[c] = cells[c]
      /\ \A k \in 1..m : cells'[n + k] = outs[k]
  BY <1>1, <1>2
<1>5. \A c : c \in Shifted(n, m) <=> c \in 1..(n + m) /\ c \notin 1..n
  <2>1. \A c \in Shifted(n, m) : c \in 1..(n + m) /\ c \notin 1..n
    BY <1>1 DEF Shifted
  <2>2. ASSUME NEW c \in 1..(n + m), c \notin 1..n PROVE c \in Shifted(n, m)
    <3>1. c - n \in 1..m /\ n + (c - n) = c
      BY <1>1, <2>2
    <3>. QED  BY <3>1 DEF Shifted
  <2>. QED  BY <2>1, <2>2
<1>6. \A c \in Shifted(n, m) : c > n /\ \E k \in 1..m : cells'[c] = outs[k]
  <2>1. ASSUME NEW c \in Shifted(n, m) PROVE c > n /\ \E k \in 1..m : cells'[c] = outs[k]
    <3>1. PICK k \in 1..m : c = n + k
      BY DEF Shifted
    <3>2. cells'[c] = outs[k]
      BY <1>4, <3>1
    <3>3. c > n
      BY <1>1, <3>1
    <3>. QED  BY <3>2, <3>3
  <2>. QED  BY <2>1
<1>7. NewSpend(b) \in SpendType
  <2>1. NewIds(outs) \in SUBSET Nat
    BY <1>1, <1>3 DEF Shifted
  <2>. QED  BY <1>1, <2>1 DEF NewSpend, SpendType, BuildType, outs
<1>. HIDE DEF NewSpend
<1>8. /\ spends' \in Seq(SpendType) /\ Len(spends') = Len(spends) + 1
      /\ DOMAIN spends' = DOMAIN spends \cup {Len(spends) + 1} /\ Len(spends) + 1 \notin DOMAIN spends
      /\ spends'[Len(spends) + 1] = NewSpend(b)
      /\ \A t \in DOMAIN spends : spends'[t] = spends[t]
  BY <1>1, <1>2, <1>7
<1>9. Cellar' = 1..(n + m) /\ Cellar = 1..n
  BY <1>4 DEF Cellar
<1>10. Len(cells') \in Nat /\ Len(cells') >= n /\ Len(cells') >= 3
  BY <1>1, <1>4
<1>11. Cellar \subseteq Cellar'
  BY <1>1, <1>9
<1>12. \A c : c \in NewIds(outs) <=> c \in Cellar' /\ c \notin Cellar
  BY <1>3, <1>5, <1>9
<1>13. \A c \in NewIds(outs) : c > n /\ \E k \in DOMAIN outs : cells'[c] = outs[k]
  BY <1>1, <1>3, <1>6
<1>. QED  BY <1>3, <1>4, <1>8, <1>9, <1>10, <1>11, <1>12, <1>13 DEF outs

LEMMA TakenParts ==
    ASSUME WalletTyped, CellsAreMade, BuildsAreSound, SpendsAreSound, HistoryAddsUp,
           NEW b \in Builds, build[b].at = "signed", Taken(b), indexed' = indexed, cache' = cache
    PROVE  CellsAreMade' /\ SpendsAreSound' /\ HistoryAddsUp'
<1>. DEFINE outs == build[b].outs
            new == Len(spends) + 1
<1>1. /\ cells' \in Seq(CellType) /\ Len(cells') = Len(cells) + Len(outs) /\ Len(cells') \in Nat
      /\ Len(cells') >= Len(cells) /\ Len(cells') >= 3
      /\ \A c \in Cellar : cells'[c] = cells[c]
      /\ NewIds(outs) = Shifted(Len(cells), Len(outs))
      /\ \A c : c \in NewIds(outs) <=> c \in Cellar' /\ c \notin Cellar
      /\ \A c \in NewIds(outs) : c > Len(cells) /\ \E k \in DOMAIN outs : cells'[c] = outs[k]
      /\ Cellar \subseteq Cellar'
      /\ spends' \in Seq(SpendType) /\ Len(spends') = Len(spends) + 1
      /\ DOMAIN spends' = DOMAIN spends \cup {new} /\ new \notin DOMAIN spends
      /\ spends'[new] = NewSpend(b)
      /\ \A t \in DOMAIN spends : spends'[t] = spends[t]
  BY TakenFacts
<1>2. /\ NewSpend(b).kind = build[b].kind /\ NewSpend(b).ins = build[b].ins
      /\ NewSpend(b).outs = NewIds(outs) /\ NewSpend(b).st = "pool"
  BY DEF NewSpend
<1>3. /\ build[b].ins \subseteq Cellar
      /\ WorthIn(cells, build[b].ins) = Total(outs) + Fee
      /\ \A k \in DOMAIN outs : outs[k].cap >= Occupied[outs[k].kind]
      /\ KindsKept(cells, build[b].ins, build[b].kind)
  BY DEF BuildsAreSound
<1>4. /\ cells \in Seq(CellType) /\ outs \in Seq(CellType) /\ Len(cells) \in Nat /\ Len(cells) >= 3
      /\ Cellar = 1..Len(cells)
  <2>1. build[b] \in BuildType
    BY TypedFacts
  <2>. QED  BY <2>1 DEF WalletTyped, BuildType, Cellar
<1>w. cells' = cells \o outs
  BY DEF Taken
<1>. HIDE DEF outs, new
<1>5. \A t \in DOMAIN spends' : t \in DOMAIN spends \/ t = new
  BY <1>1
<1>6. SpendsAreSound'
  <2>1. ASSUME NEW t \in DOMAIN spends
        PROVE  /\ WorthIn(cells', spends'[t].ins) = WorthIn(cells', spends'[t].outs) + Fee
               /\ \A c \in spends'[t].outs : cells'[c].cap >= Occupied[cells'[c].kind]
               /\ KindsKept(cells', spends'[t].ins, spends'[t].kind)
    <3>1. spends[t].ins \subseteq Cellar /\ spends[t].outs \subseteq Cellar /\ spends'[t] = spends[t]
      <4>1. 4..Len(cells) \subseteq Cellar
        BY <1>4
      <4>. QED  BY <1>1, <4>1 DEF CellsAreMade
    <3>2. WorthIn(cells', spends[t].ins) = WorthIn(cells, spends[t].ins)
      <4>1. \A c \in spends[t].ins : cells'[c] = cells[c]
        BY <1>1, <3>1
      <4>. QED  BY <1>4, <3>1, <4>1, WorthSame
    <3>3. WorthIn(cells', spends[t].outs) = WorthIn(cells, spends[t].outs)
      <4>1. \A c \in spends[t].outs : cells'[c] = cells[c]
        BY <1>1, <3>1
      <4>. QED  BY <1>4, <3>1, <4>1, WorthSame
    <3>4. WorthIn(cells, spends[t].ins) = WorthIn(cells, spends[t].outs) + Fee
      BY DEF SpendsAreSound
    <3>5. \A c \in spends[t].outs : cells'[c].cap >= Occupied[cells'[c].kind]
      BY <1>1, <3>1 DEF SpendsAreSound
    <3>6. KindsKept(cells', spends'[t].ins, spends'[t].kind)
      BY <1>1, <3>1 DEF SpendsAreSound, KindsKept
    <3>. QED  BY <3>1, <3>2, <3>3, <3>4, <3>5, <3>6
  <2>2. /\ WorthIn(cells', spends'[new].ins) = WorthIn(cells', spends'[new].outs) + Fee
        /\ \A c \in spends'[new].outs : cells'[c].cap >= Occupied[cells'[c].kind]
        /\ KindsKept(cells', spends'[new].ins, spends'[new].kind)
    <3>1. WorthIn(cells', build[b].ins) = WorthIn(cells, build[b].ins)
      <4>1. \A c \in build[b].ins : cells'[c] = cells[c]
        BY <1>1, <1>3
      <4>. QED  BY <1>3, <1>4, <4>1, WorthSame
    <3>2. WorthIn(cells', NewIds(outs)) = Total(outs)
      BY <1>1, <1>4, <1>w, WorthNew
    <3>3. \A c \in NewIds(outs) : cells'[c].cap >= Occupied[cells'[c].kind]
      BY <1>1, <1>3
    <3>5. \A c \in build[b].ins :
             /\ cells'[c].kind # "foreign"
             /\ cells'[c].kind \in {"profile", "rotated"} => build[b].kind = "rotate"
             /\ cells'[c].kind = "message" => build[b].kind = "reclaim"
      BY <1>1, <1>3 DEF KindsKept
    <3>6. KindsKept(cells', spends'[new].ins, spends'[new].kind)
      BY <1>1, <1>2, <3>5 DEF KindsKept
    <3>. QED  BY <1>1, <1>2, <1>3, <3>1, <3>2, <3>3, <3>6
  <2>. QED  BY <1>5, <2>1, <2>2 DEF SpendsAreSound, KindsKept
<1>7. HistoryAddsUp'
  <2>1. Continues
    BY <1>1, <1>2 DEF Continues, Committed
  <2>. QED  BY <2>1, HistoryStays
<1>8. CellsAreMade'
  <2>1. /\ \A c : Made(c) => Made(c)'
        /\ \A c : OnChain(c) => OnChain(c)'
        /\ \A c : IsSpent(c) => IsSpent(c)'
    BY <1>1 DEF Made, OnChain, IsSpent
  <2>2. \A c \in Cellar' : Made(c)'
    <3>1. \A c \in NewIds(outs) : Made(c)'
      BY <1>1, <1>2 DEF Made
    <3>. QED  BY <1>1, <2>1, <3>1 DEF CellsAreMade
  <2>3. \A t \in DOMAIN spends' : spends'[t].ins \subseteq Cellar' /\ spends'[t].outs \subseteq 4..Len(cells')
    <3>1. \A t \in DOMAIN spends : spends'[t].ins \subseteq Cellar' /\ spends'[t].outs \subseteq 4..Len(cells')
      <4>1. 4..Len(cells) \subseteq 4..Len(cells')
        BY <1>1, <1>4
      <4>. QED  BY <1>1, <4>1 DEF CellsAreMade
    <3>2. spends'[new].ins \subseteq Cellar' /\ spends'[new].outs \subseteq 4..Len(cells')
      <4>1. NewIds(outs) \subseteq 4..Len(cells')
        <5>1. \A c \in NewIds(outs) : c \in 1..Len(cells') /\ c > Len(cells)
          BY <1>1 DEF Cellar
        <5>. QED  BY <1>1, <1>4, <5>1
      <4>. QED  BY <1>1, <1>2, <1>3, <4>1
    <3>. QED  BY <1>5, <3>1, <3>2
  <2>4. \A t, u \in DOMAIN spends' : t # u => spends'[t].outs \cap spends'[u].outs = {}
    <3>1. \A t, u \in DOMAIN spends : t # u => spends'[t].outs \cap spends'[u].outs = {}
      BY <1>1 DEF CellsAreMade
    <3>2. \A t \in DOMAIN spends : spends'[t].outs \cap spends'[new].outs = {}
      <4>1. \A t \in DOMAIN spends : spends[t].outs \subseteq Cellar
        BY <1>4 DEF CellsAreMade
      <4>. QED  BY <1>1, <1>2, <4>1
    <3>. QED  BY <1>5, <3>1, <3>2
  <2>5. \A t \in DOMAIN spends' : spends'[t].st = "committed" => \A c \in spends'[t].ins : OnChain(c)'
    BY <1>1, <1>2, <1>5, <2>1 DEF CellsAreMade
  <2>6. \A c \in indexed' : OnChain(c)'
    BY <2>1 DEF CellsAreMade
  <2>7. \A c \in cache'.usable : \E t \in DOMAIN spends' : c \in spends'[t].outs
    BY <1>1 DEF CellsAreMade
  <2>8. \A c \in cache'.unusable : IsSpent(c)'
    BY <2>1 DEF CellsAreMade
  <2>. QED  BY <2>2, <2>3, <2>4, <2>5, <2>6, <2>7, <2>8 DEF CellsAreMade
<1>. QED  BY <1>6, <1>7, <1>8

(* The node takes a transaction whose caller is told, or is not.           *)
LEMMA BuildsAfter ==
    ASSUME WalletTyped, CellsAreMade, BuildsAreSound, SpendsAreSound, HistoryAddsUp,
           NEW b \in Builds, build[b].at = "signed", Taken(b), indexed' = indexed, cache' = cache,
           NEW bs \in [Builds -> BuildType], build' = Overtaken(bs),
           \A c \in Builds \ {b} : bs[c] = build[c], bs[b].at \notin {"built", "signed"}
    PROVE  BuildsAreSound' /\ build' \in [Builds -> BuildType]
<1>1. \A c \in Builds : /\ build'[c].at = bs[c].at /\ build'[c].ins = bs[c].ins
                        /\ build'[c].outs = bs[c].outs /\ build'[c].kind = bs[c].kind
  BY OvertakenFacts
<1>2. \A c \in Cellar : cells'[c] = cells[c]
  BY TakenFacts
<1>3. Cellar \subseteq Cellar' /\ cells \in Seq(CellType) /\ Cellar = 1..Len(cells)
  BY TakenFacts DEF WalletTyped, Cellar
<1>4. ASSUME NEW c \in Builds, build'[c].at \in {"built", "signed"}
      PROVE  /\ build'[c].ins \subseteq Cellar'
             /\ WorthIn(cells', build'[c].ins) = Total(build'[c].outs) + Fee
             /\ \A k \in DOMAIN build'[c].outs : build'[c].outs[k].cap >= Occupied[build'[c].outs[k].kind]
             /\ KindsKept(cells', build'[c].ins, build'[c].kind)
  <2>1. c # b /\ bs[c] = build[c]
    BY <1>1, <1>4
  <2>2. /\ build'[c].at = build[c].at /\ build'[c].ins = build[c].ins
        /\ build'[c].outs = build[c].outs /\ build'[c].kind = build[c].kind
    BY <1>1, <2>1
  <2>3. /\ build[c].ins \subseteq Cellar
        /\ WorthIn(cells, build[c].ins) = Total(build[c].outs) + Fee
        /\ \A k \in DOMAIN build[c].outs : build[c].outs[k].cap >= Occupied[build[c].outs[k].kind]
        /\ KindsKept(cells, build[c].ins, build[c].kind)
    BY <1>4, <2>2 DEF BuildsAreSound
  <2>4. \A x \in build[c].ins : cells'[x] = cells[x]
    BY <1>2, <2>3
  <2>5. WorthIn(cells', build[c].ins) = WorthIn(cells, build[c].ins)
    BY <1>3, <2>3, <2>4, WorthSame
  <2>6. KindsKept(cells', build[c].ins, build[c].kind)
    BY <2>3, <2>4 DEF KindsKept
  <2>. QED  BY <1>3, <2>2, <2>3, <2>5, <2>6
<1>5. BuildsAreSound'
  BY <1>4 DEF BuildsAreSound
<1>. QED  BY <1>5, OvertakenFacts

(* The node never takes the inputs of a spend it took before.              *)
LEMMA NeverTheSame ==
    ASSUME WalletTyped, CellsAreMade, BuildsAreSound, InTouch,
           NEW b \in Builds, build[b].at = "signed", TakenByNode(build[b].ins)
    PROVE  \A u \in DOMAIN spends : spends[u].ins # build[b].ins
<1>1. SUFFICES ASSUME NEW u \in DOMAIN spends, spends[u].ins = build[b].ins PROVE FALSE
  OBVIOUS
<1>2. build[b].ins \subseteq Cellar /\ WorthIn(cells, build[b].ins) = Total(build[b].outs) + Fee
  BY DEF BuildsAreSound
<1>3. Total(build[b].outs) \in Nat
  <2>1. build[b] \in BuildType
    BY TypedFacts
  <2>. QED  BY <2>1, TotalNat DEF BuildType
<1>4. PICK c : c \in build[b].ins
  <2>1. WorthIn(cells, {}) = 0
    BY SumEmpty DEF WorthIn
  <2>2. build[b].ins # {}
    BY <1>2, <1>3, <2>1 DEF Fee
  <2>. QED  BY <2>2
<1>5. c \in LiveCells \/ c \in Outs(Txs("pool"))
  BY <1>4 DEF TakenByNode
<1>6. c \notin Ins(Txs("pool"))
  BY <1>4 DEF TakenByNode
<1>7. spends[u] \in SpendType
  BY TypedFacts
<1>8. spends[u].st = "committed"
  <2>1. spends[u].st # "pool"
    BY <1>1, <1>4, <1>6, InPool
  <2>. QED  BY <1>7, <2>1 DEF InTouch, SpendType
<1>9. OnChain(c)
  BY <1>1, <1>4, <1>8 DEF CellsAreMade
<1>10. c \notin LiveCells
  <2>1. SpentOnChain(c)
    BY <1>1, <1>4, <1>8 DEF SpentOnChain
  <2>. QED  BY <2>1, LiveIs
<1>11. PICK t \in DOMAIN spends : spends[t].st = "pool" /\ c \in spends[t].outs
  BY <1>5, <1>10, InPool
<1>12. c \notin 1..3
  BY <1>11 DEF CellsAreMade
<1>. QED  BY <1>9, <1>11, <1>12 DEF OnChain, CellsAreMade

LEMMA WalletSends == ASSUME WalletInv, NEW b \in Builds, SendTransaction(b) PROVE WalletInv'
<1>0. WalletTyped /\ CellsAreMade /\ BuildsAreSound /\ SpendsAreSound /\ HistoryAddsUp
  BY DEF WalletInv
<1>1. build[b].at = "signed" /\ indexed' = indexed /\ cache' = cache
  BY DEF SendTransaction
<1>2. disturbed' = disturbed
  BY DEF SendTransaction
<1>3. build[b] \in BuildType
  BY <1>0, TypedFacts
<1>4. CASE TakenByNode(build[b].ins) /\ Len(spends) < MaxSpends
  <2>. DEFINE bs == [build EXCEPT ![b].at = "track"]
  <2>n. PICK new : new = Len(spends) + 1
    OBVIOUS
  <2>1. Taken(b) /\ build' = Overtaken(bs)
    BY <1>4 DEF SendTransaction
  <2>2. /\ bs \in [Builds -> BuildType] /\ bs[b].at = "track" /\ bs[b].ins = build[b].ins
        /\ \A c \in Builds \ {b} : bs[c] = build[c]
    <3>1. [build[b] EXCEPT !.at = "track"] \in BuildType
      BY <1>3 DEF BuildType
    <3>2. bs = [build EXCEPT ![b] = [build[b] EXCEPT !.at = "track"]]
      OBVIOUS
    <3>. QED  BY <1>0, <1>3, <3>1, <3>2 DEF WalletTyped, BuildType
  <2>. HIDE DEF bs
  <2>3. BuildsAreSound' /\ build' \in [Builds -> BuildType]
    BY <1>0, <1>1, <2>1, <2>2, BuildsAfter
  <2>4. CellsAreMade' /\ SpendsAreSound' /\ HistoryAddsUp'
    BY <1>0, <1>1, <2>1, TakenParts
  <2>5. /\ cells' \in Seq(CellType) /\ Len(cells') >= 3 /\ spends' \in Seq(SpendType)
        /\ DOMAIN spends' = DOMAIN spends \cup {new} /\ new \notin DOMAIN spends
        /\ spends'[new] = NewSpend(b) /\ \A t \in DOMAIN spends : spends'[t] = spends[t]
        /\ \A c : c \in NewIds(build[b].outs) => c \notin Cellar
    BY <1>0, <1>1, <2>1, <2>n, TakenFacts
  <2>6. WalletTyped'
    BY <1>0, <1>1, <1>2, <2>3, <2>5 DEF WalletTyped
  <2>7. ASSUME InTouch PROVE InTouch'
    <3>1. \A c \in Builds :
             /\ build'[c].at = bs[c].at /\ build'[c].ins = bs[c].ins
             /\ bs[c].at \in {"built", "signed"} => ~build'[c].clean
             /\ bs[c].at \notin {"built", "signed"} => build'[c].clean = bs[c].clean
      BY <2>1, <2>2, OvertakenFacts
    <3>2. build'[b].at = "track" /\ build'[b].ins = build[b].ins
      BY <2>2, <3>1
    <3>3. NewSpend(b).ins = build[b].ins /\ NewSpend(b).outs = NewIds(build[b].outs) /\ NewSpend(b).st = "pool"
      BY DEF NewSpend
    <3>4. ~Tracked(new)'
      BY <2>5, <3>2, <3>3 DEF Tracked
    <3>5. \A t \in DOMAIN spends : Tracked(t)' => Tracked(t)
      <4>1. \A c \in Builds : build[c].at = "track" => build'[c].at = "track" /\ build'[c].ins = build[c].ins
        BY <1>1, <2>2, <3>1
      <4>. QED  BY <2>5, <4>1 DEF Tracked
    <3>6. \A t \in DOMAIN spends' : spends'[t].st # "gone"
      BY <2>5, <2>7, <3>3 DEF InTouch
    <3>7. ASSUME NEW t \in DOMAIN spends', Tracked(t)'
          PROVE  /\ \A c \in spends'[t].ins : Offered(c)' => c \in cache'.unusable
                 /\ spends'[t].st = "pool" => spends'[t].ins \subseteq cache'.unusable
      <4>1. t \in DOMAIN spends /\ Tracked(t) /\ spends'[t] = spends[t]
        BY <2>5, <3>4, <3>5, <3>7
      <4>2. /\ \A c \in spends[t].ins : Offered(c) => c \in cache.unusable
            /\ spends[t].st = "pool" => spends[t].ins \subseteq cache.unusable
        BY <2>7, <4>1 DEF InTouch
      <4>3. ASSUME NEW c \in spends[t].ins, Offered(c)' PROVE c \in cache.unusable
        <5>1. c \in Cellar
          BY <1>0, <4>1 DEF CellsAreMade
        <5>2. CASE c \in indexed \/ c \in cache.usable
          BY <4>2, <5>2 DEF Offered
        <5>3. CASE \E u \in DOMAIN spends' : ~Tracked(u)' /\ c \in spends'[u].outs
          <6>1. PICK u \in DOMAIN spends' : ~Tracked(u)' /\ c \in spends'[u].outs
            BY <5>3
          <6>2. u # new
            BY <2>5, <3>3, <5>1, <6>1
          <6>3. u \in DOMAIN spends /\ c \in spends[u].outs
            BY <2>5, <6>1, <6>2
          <6>4. CASE ~Tracked(u)
            BY <4>2, <6>3, <6>4 DEF Offered
          <6>5. CASE Tracked(u)
            <7>1. PICK d \in Builds : build'[d].at = "track" /\ build'[d].ins = spends'[u].ins
              BY <6>1 DEF Tracked
            <7>2. d = b
              BY <2>2, <2>5, <3>1, <6>3, <6>5, <7>1 DEF Tracked
            <7>3. spends[u].ins = build[b].ins
              BY <2>5, <3>2, <6>3, <7>1, <7>2
            <7>. QED  BY <1>0, <1>1, <1>4, <2>7, <6>3, <7>3, NeverTheSame
          <6>. QED  BY <6>4, <6>5
        <5>. QED  BY <1>1, <4>3, <5>2, <5>3 DEF Offered
      <4>. QED  BY <1>1, <4>1, <4>2, <4>3
    <3>8. \A c \in Builds : /\ build'[c].at = "refused" => ~build'[c].clean
                            /\ build'[c].at \in {"built", "signed"} => ~build'[c].clean
      BY <2>2, <2>7, <3>1, <3>2 DEF InTouch
    <3>. QED  BY <3>6, <3>7, <3>8 DEF InTouch
  <2>8. ~disturbed' => InTouch'
    BY <1>2, <2>7 DEF WalletInv
  <2>. QED  BY <2>3, <2>4, <2>6, <2>8 DEF WalletInv
<1>5. CASE ~ (TakenByNode(build[b].ins) /\ Len(spends) < MaxSpends)
  <2>1. cells' = cells /\ spends' = spends /\ build' = [build EXCEPT ![b].at = "refused"]
    BY <1>5 DEF SendTransaction
  <2>2. [build[b] EXCEPT !.at = "refused"] \in BuildType
    BY <1>3 DEF BuildType
  <2>3. build' = [build EXCEPT ![b] = [build[b] EXCEPT !.at = "refused"]]
    BY <2>1
  <2>4. /\ build' \in [Builds -> BuildType] /\ build'[b].at = "refused" /\ build'[b].clean = build[b].clean
        /\ \A c \in Builds \ {b} : build'[c] = build[c]
    BY <1>0, <1>3, <2>2, <2>3 DEF WalletTyped, BuildType
  <2>5. HistoryAddsUp' /\ SpendsAreSound' /\ CellsAreMade'
    <3>1. \A c \in indexed' : OnChain(c)
      BY <1>0, <1>1 DEF CellsAreMade
    <3>2. \A c \in cache'.usable : \E u \in DOMAIN spends : c \in spends[u].outs
      BY <1>0, <1>1 DEF CellsAreMade
    <3>3. \A c \in cache'.unusable : IsSpent(c)
      BY <1>0, <1>1 DEF CellsAreMade
    <3>. QED  BY <1>0, <2>1, <3>1, <3>2, <3>3, StillAddsUp, StillMade
  <2>6. BuildsAreSound'
    BY <1>0, <2>1, <2>4 DEF BuildsAreSound, KindsKept, Cellar
  <2>7. WalletTyped'
    BY <1>0, <1>1, <1>2, <2>1, <2>4 DEF WalletTyped
  <2>8. ASSUME InTouch PROVE InTouch'
    <3>1. ~ build[b].clean
      <4>1. SUFFICES ASSUME build[b].clean PROVE FALSE
        OBVIOUS
      <4>2. Len(spends) < MaxSpends /\ \A c \in build[b].ins : ~IsSpent(c)
        BY <1>1, <2>8, <4>1 DEF InTouch
      <4>3. PICK c \in build[b].ins : ~ (c \in LiveCells \cup Outs(Txs("pool")) /\ c \notin Ins(Txs("pool")))
        BY <1>5, <4>2 DEF TakenByNode
      <4>4. Made(c) /\ ~IsSpent(c)
        BY <1>0, <1>1, <4>2, <4>3 DEF BuildsAreSound, CellsAreMade
      <4>5. c \notin Ins(Txs("pool")) /\ ~SpentOnChain(c)
        BY <4>4, InPool DEF IsSpent, SpentOnChain
      <4>6. OnChain(c) \/ c \in Outs(Txs("pool"))
        <5>1. \A t \in DOMAIN spends : spends[t].st \in {"pool", "committed"}
          BY <1>0, <2>8, TypedFacts DEF InTouch, SpendType
        <5>. QED  BY <4>4, <5>1, InPool DEF Made, OnChain
      <4>. QED  BY <4>3, <4>5, <4>6, LiveIs
    <3>2. \A t \in DOMAIN spends : Tracked(t)' <=> Tracked(t)
      BY <1>1, <2>1, <2>4 DEF Tracked
    <3>3. \A c : OnChain(c)' <=> OnChain(c)
      BY <2>1 DEF OnChain
    <3>4. \A c : IsSpent(c)' <=> IsSpent(c)
      BY <2>1 DEF IsSpent
    <3>5. \A c : Offered(c)' => Offered(c)
      BY <1>1, <2>1, <3>2 DEF Offered
    <3>6. \A t \in DOMAIN spends' : spends'[t].st # "gone"
      BY <2>1, <2>8 DEF InTouch
    <3>7. \A t \in DOMAIN spends' : Tracked(t)' =>
             /\ \A c \in spends'[t].ins : Offered(c)' => c \in cache'.unusable
             /\ spends'[t].st = "pool" => spends'[t].ins \subseteq cache'.unusable
      BY <1>1, <2>1, <2>8, <3>2, <3>5 DEF InTouch
    <3>8. \A d \in Builds :
             /\ build'[d].at = "refused" => ~build'[d].clean
             /\ build'[d].at \in {"built", "signed"} /\ build'[d].clean =>
                   /\ Len(spends') < MaxSpends
                   /\ \A c \in build'[d].ins : ~IsSpent(c)'
                   /\ build'[d].at = "built" => \A c \in build'[d].ins : OnChain(c)' \/ (c \in cache'.usable /\ c \notin cache'.unusable)
      BY <1>1, <2>1, <2>4, <2>8, <3>1, <3>3, <3>4 DEF InTouch
    <3>. QED  BY <3>6, <3>7, <3>8 DEF InTouch
  <2>9. ~disturbed' => InTouch'
    BY <1>2, <2>8 DEF WalletInv
  <2>. QED  BY <2>5, <2>6, <2>7, <2>9 DEF WalletInv
<1>. QED  BY <1>4, <1>5

LEMMA WalletLosesAnswer == ASSUME WalletInv, NEW b \in Builds, SendAnswerLost(b) PROVE WalletInv'
<1>0. WalletTyped /\ CellsAreMade /\ BuildsAreSound /\ SpendsAreSound /\ HistoryAddsUp
  BY DEF WalletInv
<1>1. build[b].at = "signed" /\ indexed' = indexed /\ cache' = cache /\ Taken(b)
  BY DEF SendAnswerLost
<1>2. disturbed' = TRUE
  BY DEF SendAnswerLost
<1>. DEFINE bs == [build EXCEPT ![b] = IdleBuild]
<1>3. build' = Overtaken(bs)
  BY DEF SendAnswerLost
<1>4. IdleBuild \in BuildType /\ IdleBuild.at = "idle"
  BY DEF IdleBuild, BuildType, FlowKinds
<1>5. bs \in [Builds -> BuildType] /\ bs[b].at = "idle" /\ \A c \in Builds \ {b} : bs[c] = build[c]
  BY <1>0, <1>4 DEF WalletTyped
<1>. HIDE DEF bs
<1>6. BuildsAreSound' /\ build' \in [Builds -> BuildType]
  BY <1>0, <1>1, <1>3, <1>5, BuildsAfter
<1>7. CellsAreMade' /\ SpendsAreSound' /\ HistoryAddsUp'
  BY <1>0, <1>1, TakenParts
<1>8. cells' \in Seq(CellType) /\ Len(cells') >= 3 /\ spends' \in Seq(SpendType)
  BY <1>0, <1>1, TakenFacts
<1>9. WalletTyped'
  BY <1>0, <1>1, <1>2, <1>6, <1>8 DEF WalletTyped
<1>. QED  BY <1>2, <1>6, <1>7, <1>9 DEF WalletInv

(* The inputs cover the outputs and the fee; the rest is change.           *)
LEMMA ChangeBalances ==
    ASSUME NEW outs \in Seq(CellType), NEW ins, Worth(ins) \in Nat, Worth(ins) >= Total(outs) + Fee,
           \A k \in DOMAIN outs : outs[k].cap >= Occupied[outs[k].kind]
    PROVE  /\ outs \o Change(ins, outs) \in Seq(CellType)
           /\ Total(outs \o Change(ins, outs)) + Fee = Worth(ins)
           /\ \A k \in DOMAIN (outs \o Change(ins, outs)) :
                 (outs \o Change(ins, outs))[k].cap >= Occupied[(outs \o Change(ins, outs))[k].kind]
<1>. DEFINE left == Worth(ins) - Total(outs) - Fee
            rest == Cell("plain", left)
<1>1. Total(outs) \in Nat
  BY TotalNat
<1>2. left \in Nat
  BY <1>1 DEF Fee
<1>3. CASE left = 0
  <2>1. Change(ins, outs) = <<>>
    BY <1>3 DEF Change
  <2>2. outs \o Change(ins, outs) = outs
    BY <2>1
  <2>. QED  BY <1>1, <1>3, <2>2 DEF Fee
<1>4. CASE left > 0
  <2>1. Change(ins, outs) = <<rest>>
    BY <1>4 DEF Change
  <2>2. rest \in CellType /\ rest.cap = left /\ rest.cap >= Occupied[rest.kind]
    BY <1>2, <1>4 DEF Cell, CellType, CellKinds, Occupied
  <2>. HIDE DEF rest
  <2>3. Total(outs \o <<rest>>) = Total(outs) + left /\ outs \o <<rest>> \in Seq(CellType)
    BY <2>2, TotalAppended
  <2>4. \A k \in DOMAIN (outs \o <<rest>>) : (outs \o <<rest>>)[k] = rest \/ (k \in DOMAIN outs /\ (outs \o <<rest>>)[k] = outs[k])
    BY <2>2
  <2>. QED  BY <1>1, <2>1, <2>2, <2>3, <2>4 DEF Fee
<1>. QED  BY <1>2, <1>3, <1>4

LEMMA WalletCompletes ==
    ASSUME WalletInv, NEW b \in Builds, NEW kind \in FlowKinds, NEW given \in SUBSET OwnLive,
           NEW outs \in Seq(CellType), \A k \in DOMAIN outs : outs[k].cap >= Occupied[outs[k].kind],
           KindsKept(cells, given, kind), Complete(b, kind, given, outs)
    PROVE  WalletInv'
<1>0. WalletTyped /\ CellsAreMade /\ BuildsAreSound /\ SpendsAreSound /\ HistoryAddsUp
  BY DEF WalletInv
<1>1. /\ cells' = cells /\ spends' = spends /\ indexed' = indexed /\ cache' = cache
      /\ build[b].at = "idle" /\ Len(spends) < MaxSpends
  BY DEF Complete
<1>2. disturbed' = disturbed
  BY DEF Complete
<1>3. PICK S \in Selections(given, outs) :
          build' = [build EXCEPT ![b] =
                      [at |-> "built", kind |-> kind, ins |-> given \cup S,
                       outs |-> outs \o Change(given \cup S, outs),
                       clean |-> /\ ~disturbed /\ ~Overlapping(b)
                                 /\ given \cap cache.unusable = {}]]
  BY DEF Complete
<1>. DEFINE ins == given \cup S
            all == outs \o Change(ins, outs)
            clean == ~disturbed /\ ~Overlapping(b) /\ given \cap cache.unusable = {}
            made == [at |-> "built", kind |-> kind, ins |-> ins, outs |-> all, clean |-> clean]
<1>4. S \subseteq Selectable /\ Worth(ins) >= Need(outs)
  BY DEF Selections
<1>5. ins \subseteq Cellar /\ ins \in SUBSET Nat
  <2>1. OwnLive \subseteq Cellar /\ Selectable \subseteq Cellar
    BY <1>0, TheyExist
  <2>2. ins \subseteq Cellar
    BY <1>4, <2>1
  <2>3. Cellar \subseteq Nat
    BY <1>0 DEF Cellar, WalletTyped
  <2>. QED  BY <2>2, <2>3
<1>6. Worth(ins) = WorthIn(cells, ins) /\ Worth(ins) \in Nat /\ Total(outs) \in Nat
  <2>1. WorthIn(cells, ins) \in Nat
    BY <1>0, <1>5, WorthNat DEF WalletTyped, Cellar
  <2>. QED  BY <2>1, WorthIs, TotalNat
<1>7. Worth(ins) >= Total(outs) + Fee
  BY <1>4, <1>6 DEF Need, Fee, Occupied
<1>. HIDE DEF ins
<1>8. all \in Seq(CellType) /\ Total(all) + Fee = Worth(ins) /\ \A k \in DOMAIN all : all[k].cap >= Occupied[all[k].kind]
  BY <1>6, <1>7, ChangeBalances
<1>. HIDE DEF all
<1>9. KindsKept(cells, ins, kind)
  <2>1. \A c \in S : cells[c].kind = "plain"
    BY <1>4 DEF Selectable
  <2>. QED  BY <2>1 DEF KindsKept, ins
<1>10. made \in BuildType
  <2>1. clean \in BOOLEAN
    OBVIOUS
  <2>. HIDE DEF clean
  <2>. QED  BY <1>5, <1>8, <2>1 DEF BuildType
<1>11. /\ build' = [build EXCEPT ![b] = made]
       /\ build' \in [Builds -> BuildType] /\ build'[b] = made /\ \A c \in Builds \ {b} : build'[c] = build[c]
  <2>1. build' = [build EXCEPT ![b] = made]
    BY <1>3 DEF ins, all
  <2>. HIDE DEF made
  <2>. QED  BY <1>0, <1>10, <2>1 DEF WalletTyped
<1>12. /\ build'[b].at = "built" /\ build'[b].kind = kind /\ build'[b].ins = ins
       /\ build'[b].outs = all
  BY <1>11
<1>13. build'[b].clean => clean
  <2>. HIDE DEF clean
  <2>1. made.clean = clean
    OBVIOUS
  <2>. HIDE DEF made
  <2>. QED  BY <1>11, <2>1
<1>. HIDE DEF made, clean
<1>14. HistoryAddsUp' /\ SpendsAreSound' /\ CellsAreMade'
  <2>1. \A c \in indexed' : OnChain(c)
    BY <1>0, <1>1 DEF CellsAreMade
  <2>2. \A c \in cache'.usable : \E u \in DOMAIN spends : c \in spends[u].outs
    BY <1>0, <1>1 DEF CellsAreMade
  <2>3. \A c \in cache'.unusable : IsSpent(c)
    BY <1>0, <1>1 DEF CellsAreMade
  <2>. QED  BY <1>0, <1>1, <2>1, <2>2, <2>3, StillAddsUp, StillMade
<1>15. BuildsAreSound'
  <2>1. \A c \in Builds \ {b} : build'[c].at \in {"built", "signed"} =>
           /\ build'[c].ins \subseteq Cellar
           /\ WorthIn(cells, build'[c].ins) = Total(build'[c].outs) + Fee
           /\ \A k \in DOMAIN build'[c].outs : build'[c].outs[k].cap >= Occupied[build'[c].outs[k].kind]
           /\ KindsKept(cells, build'[c].ins, build'[c].kind)
    BY <1>0, <1>11 DEF BuildsAreSound
  <2>2. /\ build'[b].ins \subseteq Cellar
        /\ WorthIn(cells, build'[b].ins) = Total(build'[b].outs) + Fee
        /\ \A k \in DOMAIN build'[b].outs : build'[b].outs[k].cap >= Occupied[build'[b].outs[k].kind]
        /\ KindsKept(cells, build'[b].ins, build'[b].kind)
    BY <1>5, <1>6, <1>8, <1>9, <1>12
  <2>. QED  BY <1>1, <2>1, <2>2 DEF BuildsAreSound, KindsKept, Cellar
<1>16. WalletTyped'
  BY <1>0, <1>1, <1>2, <1>11 DEF WalletTyped
<1>17. ASSUME InTouch PROVE InTouch'
  <2>1. \A t \in DOMAIN spends : Tracked(t)' <=> Tracked(t)
    BY <1>1, <1>11, <1>12 DEF Tracked
  <2>2. \A c : OnChain(c)' <=> OnChain(c)
    BY <1>1 DEF OnChain
  <2>3. \A c : IsSpent(c)' <=> IsSpent(c)
    BY <1>1 DEF IsSpent
  <2>4. \A c : Offered(c)' <=> Offered(c)
    BY <1>1, <2>1 DEF Offered
  <2>5. \A t \in DOMAIN spends' : spends'[t].st # "gone"
    BY <1>1, <1>17 DEF InTouch
  <2>6. \A t \in DOMAIN spends' : Tracked(t)' =>
           /\ \A c \in spends'[t].ins : Offered(c)' => c \in cache'.unusable
           /\ spends'[t].st = "pool" => spends'[t].ins \subseteq cache'.unusable
    BY <1>1, <1>17, <2>1, <2>4 DEF InTouch
  <2>7. ASSUME clean
        PROVE  \A c \in ins : ~IsSpent(c) /\ (OnChain(c) \/ (c \in cache.usable /\ c \notin cache.unusable))
    <3>1. \A t \in DOMAIN spends : Tracked(t) /\ spends[t].st \in {"pool", "committed"}
      <4>1. \A t \in DOMAIN spends : Tracked(t)
        BY <1>1, <2>7 DEF clean, Overlapping, Tracked
      <4>2. \A t \in DOMAIN spends : spends[t].st \in {"pool", "committed"}
        BY <1>0, <1>17, TypedFacts DEF InTouch, SpendType
      <4>. QED  BY <4>1, <4>2
    <3>2. ASSUME NEW c \in given PROVE ~IsSpent(c) /\ OnChain(c)
      <4>1. OnChain(c) /\ ~SpentOnChain(c)
        BY LiveIs DEF OwnLive
      <4>2. c \notin cache.unusable
        BY <2>7 DEF clean
      <4>. QED  BY <1>17, <3>1, <4>1, <4>2 DEF InTouch, IsSpent, SpentOnChain
    <3>3. ASSUME NEW c \in S PROVE ~IsSpent(c) /\ (OnChain(c) \/ (c \in cache.usable /\ c \notin cache.unusable))
      <4>1. c \notin cache.unusable /\ (c \in cache.usable \/ c \in indexed)
        BY <1>4 DEF Selectable
      <4>2. ~IsSpent(c)
        BY <1>17, <3>1, <4>1 DEF InTouch, IsSpent, Offered
      <4>. QED  BY <1>0, <4>1, <4>2 DEF CellsAreMade
    <3>. QED  BY <3>2, <3>3 DEF ins
  <2>8. \A d \in Builds :
           /\ build'[d].at = "refused" => ~build'[d].clean
           /\ build'[d].at \in {"built", "signed"} /\ build'[d].clean =>
                 /\ Len(spends') < MaxSpends
                 /\ \A c \in build'[d].ins : ~IsSpent(c)'
                 /\ build'[d].at = "built" => \A c \in build'[d].ins : OnChain(c)' \/ (c \in cache'.usable /\ c \notin cache'.unusable)
    <3>1. ASSUME NEW d \in Builds \ {b}
          PROVE  /\ build'[d].at = "refused" => ~build'[d].clean
                 /\ build'[d].at \in {"built", "signed"} /\ build'[d].clean =>
                       /\ Len(spends') < MaxSpends
                       /\ \A c \in build'[d].ins : ~IsSpent(c)'
                       /\ build'[d].at = "built" => \A c \in build'[d].ins : OnChain(c)' \/ (c \in cache'.usable /\ c \notin cache'.unusable)
      BY <1>1, <1>11, <1>17, <2>2, <2>3 DEF InTouch
    <3>2. build'[b].clean => /\ Len(spends') < MaxSpends
                             /\ \A c \in build'[b].ins : ~IsSpent(c)'
                             /\ \A c \in build'[b].ins : OnChain(c)' \/ (c \in cache'.usable /\ c \notin cache'.unusable)
      BY <1>1, <1>12, <1>13, <2>2, <2>3, <2>7
    <3>. QED  BY <1>12, <3>1, <3>2
  <2>. QED  BY <2>5, <2>6, <2>8 DEF InTouch
<1>18. ~disturbed' => InTouch'
  BY <1>2, <1>17 DEF WalletInv
<1>. QED  BY <1>14, <1>15, <1>16, <1>18 DEF WalletInv

LEMMA OneCell ==
    ASSUME NEW c \in CellType, c.cap >= Occupied[c.kind]
    PROVE  <<c>> \in Seq(CellType) /\ \A k \in DOMAIN <<c>> : <<c>>[k].cap >= Occupied[<<c>>[k].kind]
<1>1. DOMAIN <<c>> = {1} /\ <<c>>[1] = c
  OBVIOUS
<1>. QED  BY <1>1

LEMMA SizedCell ==
    ASSUME NEW kind \in {"plain", "profile", "rotated", "message", "data"}
    PROVE  Sized(kind) \in CellType /\ Sized(kind).cap >= Occupied[Sized(kind).kind]
  BY DEF Sized, Cell, CellType, CellKinds, Occupied, CapacityMargin

LEMMA KindsOfNone == ASSUME NEW kind PROVE KindsKept(cells, {}, kind) /\ {} \in SUBSET OwnLive
  BY DEF KindsKept

LEMMA OwnKinds == ASSUME NEW c \in OwnLive PROVE cells[c].kind # "foreign"
  BY DEF OwnLive

LEMMA WalletBuildsSized ==
    ASSUME WalletInv, NEW b \in Builds, NEW flow \in FlowKinds,
           NEW kind \in {"plain", "profile", "rotated", "message", "data"},
           Complete(b, flow, {}, <<Sized(kind)>>)
    PROVE  WalletInv'
<1>. DEFINE c == Sized(kind)
<1>1. c \in CellType /\ c.cap >= Occupied[c.kind]
  BY SizedCell
<1>. HIDE DEF c
<1>2. <<c>> \in Seq(CellType) /\ \A k \in DOMAIN <<c>> : <<c>>[k].cap >= Occupied[<<c>>[k].kind]
  BY <1>1, OneCell
<1>3. Complete(b, flow, {}, <<c>>)
  BY DEF c
<1>. QED  BY <1>2, <1>3, KindsOfNone, WalletCompletes

LEMMA WalletBuildsRotation == ASSUME WalletInv, NEW b \in Builds, BuildRotateProfileTx(b) PROVE WalletInv'
<1>1. PICK old \in OwnLive : /\ cells[old].kind \in {"profile", "rotated"}
                             /\ Complete(b, "rotate", {old}, <<RotatedCell(old)>>)
  BY DEF BuildRotateProfileTx
<1>2. cells[old] \in CellType
  <2>1. old \in Cellar
    BY TheyExist DEF WalletInv
  <2>. QED  BY <2>1, TypedFacts DEF WalletInv
<1>3. Max({Occupied["rotated"], cells[old].cap}) \in Nat /\ Max({Occupied["rotated"], cells[old].cap}) >= 5
  <2>1. Occupied["rotated"] = 5 /\ cells[old].cap \in Nat
    BY <1>2 DEF Occupied, CellType
  <2>2. \E x \in {5, cells[old].cap} : \A y \in {5, cells[old].cap} : x >= y
    <3>1. CASE cells[old].cap >= 5
      BY <2>1, <3>1
    <3>2. CASE ~ (cells[old].cap >= 5)
      BY <2>1, <3>2
    <3>. QED  BY <3>1, <3>2
  <2>3. /\ Max({5, cells[old].cap}) \in {5, cells[old].cap}
        /\ \A y \in {5, cells[old].cap} : Max({5, cells[old].cap}) >= y
    BY <2>2 DEF Max
  <2>. QED  BY <2>1, <2>3
<1>4. RotatedCell(old) \in CellType /\ RotatedCell(old).cap >= Occupied[RotatedCell(old).kind]
  BY <1>3 DEF RotatedCell, Cell, CellType, CellKinds, Occupied, CapacityMargin
<1>5. /\ <<RotatedCell(old)>> \in Seq(CellType)
      /\ \A k \in DOMAIN <<RotatedCell(old)>> : <<RotatedCell(old)>>[k].cap >= Occupied[<<RotatedCell(old)>>[k].kind]
  BY <1>4, OneCell
<1>6. KindsKept(cells, {old}, "rotate") /\ {old} \in SUBSET OwnLive
  BY <1>1, OwnKinds DEF KindsKept
<1>7. "rotate" \in FlowKinds
  BY DEF FlowKinds
<1>. QED  BY <1>1, <1>5, <1>6, <1>7, WalletCompletes

LEMMA WalletBuildsCells == ASSUME WalletInv, NEW b \in Builds, BuildDataCellsTx(b) PROVE WalletInv'
<1>1. PICK n \in 1..2 : Complete(b, "data", {}, [k \in 1..n |-> Sized("data")])
  BY DEF BuildDataCellsTx
<1>. DEFINE outs == [k \in 1..n |-> Sized("data")]
<1>2. Sized("data") \in CellType /\ Sized("data").cap >= Occupied[Sized("data").kind]
  BY SizedCell
<1>3. outs \in Seq(CellType) /\ \A k \in DOMAIN outs : outs[k].cap >= Occupied[outs[k].kind]
  <2>1. n \in Nat
    OBVIOUS
  <2>. QED  BY <1>2, <2>1
<1>4. "data" \in FlowKinds
  BY DEF FlowKinds
<1>. HIDE DEF outs
<1>5. Complete(b, "data", {}, outs)
  BY <1>1 DEF outs
<1>. QED  BY <1>3, <1>4, <1>5, KindsOfNone, WalletCompletes

LEMMA WalletTransfers == ASSUME WalletInv, NEW b \in Builds, BuildTransferTx(b) PROVE WalletInv'
<1>1. Complete(b, "transfer", {}, <<Cell("foreign", 2)>>)
  BY DEF BuildTransferTx
<1>2. Cell("foreign", 2) \in CellType /\ Cell("foreign", 2).cap >= Occupied[Cell("foreign", 2).kind]
  BY DEF Cell, CellType, CellKinds, Occupied
<1>3. <<Cell("foreign", 2)>> \in Seq(CellType)
      /\ \A k \in DOMAIN <<Cell("foreign", 2)>> : <<Cell("foreign", 2)>>[k].cap >= Occupied[<<Cell("foreign", 2)>>[k].kind]
  BY <1>2, OneCell
<1>4. "transfer" \in FlowKinds
  BY DEF FlowKinds
<1>. QED  BY <1>1, <1>3, <1>4, KindsOfNone, WalletCompletes

(* Cells given for no other output: the change is all there is.            *)
LEMMA WalletGathers ==
    ASSUME WalletInv, NEW b \in Builds, NEW kind \in FlowKinds, NEW given \in SUBSET OwnLive,
           KindsKept(cells, given, kind), Complete(b, kind, given, <<>>)
    PROVE  WalletInv'
<1>1. << >> \in Seq(CellType) /\ \A k \in DOMAIN << >> : << >>[k].cap >= Occupied[<< >>[k].kind]
  OBVIOUS
<1>. QED  BY <1>1, WalletCompletes

LEMMA WalletReclaims == ASSUME WalletInv, NEW b \in Builds, BuildReclaimTx(b) PROVE WalletInv'
<1>1. PICK given \in SUBSET {c \in OwnLive : cells[c].kind \in {"message", "data"}} :
          Complete(b, "reclaim", given, <<>>)
  BY DEF BuildReclaimTx
<1>2. "reclaim" \in FlowKinds /\ given \in SUBSET OwnLive /\ KindsKept(cells, given, "reclaim")
  BY DEF FlowKinds, SweepFlows, KindsKept
<1>. QED  BY <1>1, <1>2, WalletGathers

LEMMA WalletConsolidates == ASSUME WalletInv, NEW b \in Builds, BuildConsolidateTx(b) PROVE WalletInv'
<1>1. PICK given \in SUBSET Consolidated : Complete(b, "consolidate", given, <<>>)
  BY DEF BuildConsolidateTx
<1>2. \A c \in given : c \in OwnLive /\ cells[c].kind \notin Typed
  BY DEF Consolidated
<1>3. "consolidate" \in FlowKinds /\ given \in SUBSET OwnLive /\ KindsKept(cells, given, "consolidate")
  BY <1>2, OwnKinds DEF FlowKinds, KindsKept, Typed
<1>. QED  BY <1>1, <1>3, WalletGathers

-----------------------------------------------------------------------------
LEMMA WalletStep == WalletInv /\ WalletNext => WalletInv'
<1>. SUFFICES ASSUME WalletInv, WalletNext PROVE WalletInv'
  OBVIOUS
<1>1. CASE \E t \in DOMAIN spends : CommitTx(t) \/ EvictTx(t)
  BY <1>1, WalletCommits, WalletEvicts
<1>2. CASE IndexerCatchesUp \/ RestartApp
  BY <1>2, WalletIndexes, WalletRestarts
<1>3. ASSUME NEW b \in Builds, BuildCreateProfileTx(b) \/ BuildSendMessageTx(b) \/ BuildDeployDataCellTx(b) PROVE WalletInv'
  <2>1. {"create", "send", "respond", "data"} \subseteq FlowKinds
    BY DEF FlowKinds, SweepFlows
  <2>2. CASE BuildCreateProfileTx(b)
    BY <2>1, <2>2, WalletBuildsSized DEF BuildCreateProfileTx
  <2>3. CASE BuildSendMessageTx(b)
    <3>1. Complete(b, "send", {}, <<Sized("message")>>) \/ Complete(b, "respond", {}, <<Sized("message")>>)
      <4>1. CASE b = "app"
        BY <2>3, <4>1 DEF BuildSendMessageTx
      <4>2. CASE b # "app"
        BY <2>3, <4>2 DEF BuildSendMessageTx
      <4>. QED  BY <4>1, <4>2
    <3>. QED  BY <2>1, <3>1, WalletBuildsSized
  <2>4. CASE BuildDeployDataCellTx(b)
    BY <2>1, <2>4, WalletBuildsSized DEF BuildDeployDataCellTx
  <2>. QED  BY <1>3, <2>2, <2>3, <2>4
<1>4. ASSUME NEW b \in Builds,
             \/ BuildRotateProfileTx(b) \/ BuildDataCellsTx(b) \/ BuildTransferTx(b)
             \/ BuildReclaimTx(b) \/ BuildConsolidateTx(b)
             \/ SignTransaction(b) \/ SendTransaction(b) \/ SendAnswerLost(b)
             \/ TrackBroadcastSpend(b) \/ GiveUp(b)
      PROVE  WalletInv'
  BY <1>4, WalletBuildsRotation, WalletBuildsCells, WalletTransfers, WalletReclaims, WalletConsolidates,
     WalletSigns, WalletSends, WalletLosesAnswer, WalletTracks, WalletGivesUp
<1>. QED  BY <1>1, <1>2, <1>3, <1>4 DEF WalletNext

LEMMA WalletStutters == WalletInv /\ UNCHANGED walletVars => WalletInv'
<1>. SUFFICES ASSUME WalletInv, UNCHANGED walletVars PROVE WalletInv'
  OBVIOUS
<1>0. WalletTyped /\ CellsAreMade /\ BuildsAreSound /\ SpendsAreSound /\ HistoryAddsUp
  BY DEF WalletInv
<1>1. /\ cells' = cells /\ spends' = spends /\ indexed' = indexed /\ cache' = cache
      /\ build' = build
  BY DEF walletVars
<1>2. disturbed' = disturbed
  BY DEF walletVars
<1>3. HistoryAddsUp' /\ SpendsAreSound' /\ CellsAreMade'
  <2>1. \A c \in indexed' : OnChain(c)
    BY <1>0, <1>1 DEF CellsAreMade
  <2>2. \A c \in cache'.usable : \E u \in DOMAIN spends : c \in spends[u].outs
    BY <1>0, <1>1 DEF CellsAreMade
  <2>3. \A c \in cache'.unusable : IsSpent(c)
    BY <1>0, <1>1 DEF CellsAreMade
  <2>. QED  BY <1>0, <1>1, <2>1, <2>2, <2>3, StillAddsUp, StillMade
<1>4. WalletTyped' /\ BuildsAreSound'
  BY <1>0, <1>1, <1>2 DEF WalletTyped, BuildsAreSound, KindsKept, Cellar
<1>5. InTouch' <=> InTouch
  BY <1>1 DEF InTouch, Tracked, Offered, OnChain, IsSpent
<1>6. ~disturbed' => InTouch'
  BY <1>2, <1>5 DEF WalletInv
<1>. QED  BY <1>3, <1>4, <1>6 DEF WalletInv

LEMMA WalletStarts == WalletInit => WalletInv
<1>. SUFFICES ASSUME WalletInit PROVE WalletInv
  OBVIOUS
<1>1. /\ cells = <<Cell("plain", 12), Cell("profile", 3), Cell("message", 3)>>
      /\ spends = <<>> /\ indexed = 1..3 /\ cache = EmptyCache
      /\ build = [b \in Builds |-> IdleBuild]
  BY DEF WalletInit
<1>2. disturbed = FALSE
  BY DEF WalletInit
<1>3. /\ cells \in Seq(CellType) /\ Len(cells) = 3
  BY <1>1 DEF Cell, CellType, CellKinds
<1>4. DOMAIN spends = {} /\ spends \in Seq(SpendType)
  BY <1>1
<1>5. \A b \in Builds : build[b].at = "idle"
  BY <1>1 DEF IdleBuild
<1>6. WalletTyped
  <2>1. IdleBuild \in BuildType
    BY DEF IdleBuild, BuildType, FlowKinds
  <2>2. build \in [Builds -> BuildType]
    BY <1>1, <2>1
  <2>3. cache \in [usable : SUBSET Nat, unusable : SUBSET Nat]
    BY <1>1 DEF EmptyCache
  <2>4. disturbed \in BOOLEAN
    BY <1>2
  <2>. QED  BY <1>3, <1>4, <2>2, <2>3, <2>4 DEF WalletTyped
<1>7. CellsAreMade
  BY <1>1, <1>3, <1>4 DEF CellsAreMade, Cellar, Made, OnChain, EmptyCache
<1>8. BuildsAreSound /\ SpendsAreSound
  BY <1>4, <1>5 DEF BuildsAreSound, SpendsAreSound
<1>9. InTouch
  BY <1>4, <1>5 DEF InTouch
<1>10. HistoryAddsUp
  <2>1. Effects = {}
    BY <1>4, HistoryIs DEF History, Committed
  <2>2. DeltaSum({}) = 0
    BY DEF DeltaSum, MapThenSumSet, MapThenFoldSet
  <2>3. OwnLive = 1..3
    <3>1. LiveCells = 1..3
      BY <1>4, LiveIs DEF OnChain, SpentOnChain
    <3>2. \A c \in 1..3 : cells[c].kind # "foreign"
      BY <1>1 DEF Cell
    <3>. QED  BY <3>1, <3>2 DEF OwnLive
  <2>4. WorthIn(cells, 1..3) \in Nat
    BY <1>3, WorthNat
  <2>5. IsFiniteSet(Effects)
    BY <2>1, FS_EmptySet
  <2>. QED  BY <2>1, <2>2, <2>3, <2>4, <2>5 DEF HistoryAddsUp
<1>. QED  BY <1>6, <1>7, <1>8, <1>9, <1>10 DEF WalletInv

(* What the cell cache holds of the wallet's cells, the builds under way   *)
(* and the spends the node has taken stay in step as long as no failure    *)
(* cuts them apart; each spend is balanced and keeps the flow of the cells *)
(* it takes; and the history adds up (signing.ts:413-439,                  *)
(* wallet.ts:198-266).                                                     *)
THEOREM WalletKeepsItsBooks == WalletSpec => []WalletInv
<1>1. WalletInit => WalletInv
  BY WalletStarts
<1>2. WalletInv /\ [WalletNext]_walletVars => WalletInv'
  BY WalletStep, WalletStutters
<1>. QED  BY <1>1, <1>2, PTL DEF WalletSpec

(* With nothing under way, the cells of the cache are cells of the chain.  *)
LEMMA NothingElseSelectable ==
    ASSUME WalletInv, ~disturbed, Txs("pool") = {}, indexed = OwnLive, \A b \in Builds : build[b].at # "track"
    PROVE  Selectable = {c \in indexed : cells[c].kind = "plain"}
<1>1. WalletTyped /\ CellsAreMade /\ InTouch
  BY DEF WalletInv
<1>2. \A t \in DOMAIN spends : Tracked(t) /\ spends[t].st = "committed"
  <2>1. \A t \in DOMAIN spends : spends[t].st # "pool"
    BY DEF Txs
  <2>2. \A t \in DOMAIN spends : spends[t].st = "committed"
    BY <1>1, <2>1, TypedFacts DEF InTouch, SpendType
  <2>3. \A t \in DOMAIN spends : Tracked(t)
    BY DEF Tracked
  <2>. QED  BY <2>2, <2>3
<1>3. ASSUME NEW c \in indexed PROVE c \notin cache.unusable
  <2>1. ~SpentOnChain(c)
    BY LiveIs DEF OwnLive
  <2>2. ~IsSpent(c)
    BY <1>2, <2>1 DEF IsSpent, SpentOnChain
  <2>. QED  BY <1>1, <2>2 DEF CellsAreMade
<1>4. ASSUME NEW c \in cache.usable, c \notin cache.unusable, cells[c].kind = "plain" PROVE c \in indexed
  <2>1. OnChain(c)
    BY <1>1, <1>2 DEF CellsAreMade, OnChain
  <2>2. ~SpentOnChain(c)
    <3>1. Offered(c)
      BY DEF Offered
    <3>. QED  BY <1>1, <1>2, <1>4, <3>1 DEF SpentOnChain, InTouch
  <2>3. c \in LiveCells
    BY <2>1, <2>2, LiveIs
  <2>. QED  BY <1>4, <2>3 DEF OwnLive
<1>. QED  BY <1>3, <1>4 DEF Selectable

(* A spend of the wallet costs it the fee, and what it pays to others.     *)
LEMMA SpendsCost ==
    ASSUME WalletInv, NEW t \in DOMAIN spends
    PROVE  DeltaOf(cells, spends[t]) \in Int /\ DeltaOf(cells, spends[t]) <= -Fee
<1>. DEFINE outs == spends[t].outs
            ins == spends[t].ins
<1>1. WalletTyped /\ CellsAreMade /\ SpendsAreSound
  BY DEF WalletInv
<1>2. cells \in Seq(CellType) /\ ins \in SUBSET (1..Len(cells)) /\ outs \in SUBSET (1..Len(cells))
  <2>1. 4..Len(cells) \subseteq 1..Len(cells)
    BY <1>1 DEF WalletTyped
  <2>. QED  BY <1>1, <2>1 DEF CellsAreMade, WalletTyped, Cellar
<1>3. WorthIn(cells, ins) = WorthIn(cells, outs) + Fee
  BY <1>1 DEF SpendsAreSound
<1>4. Own(cells, ins) = ins
  BY <1>1 DEF SpendsAreSound, KindsKept, Own
<1>. HIDE DEF ins, outs
<1>5. Own(cells, outs) \in SUBSET outs
  BY DEF Own
<1>6. WorthIn(cells, Own(cells, outs)) <= WorthIn(cells, outs)
  BY <1>2, <1>5, WorthPart
<1>7. WorthIn(cells, Own(cells, outs)) \in Nat /\ WorthIn(cells, outs) \in Nat /\ WorthIn(cells, ins) \in Nat
  BY <1>2, <1>5, WorthNat
<1>8. DeltaOf(cells, spends[t]) = WorthIn(cells, Own(cells, outs)) - WorthIn(cells, ins)
  BY <1>4 DEF DeltaOf, ins, outs
<1>. QED  BY <1>3, <1>6, <1>7, <1>8 DEF Fee

(* Every transaction spent a cell of the wallet, so an entry tells of it.  *)
LEMMA ToldIsEffects ==
    ASSUME WalletInv
    PROVE  {TransferHistory[e] : e \in HistoryEntries} = Effects
<1>. DEFINE told == {TransferHistory[e] : e \in HistoryEntries}
            entriesOf(t) == {[tx |-> t, io |-> "input", cell |-> c] : c \in OwnCells(spends[t].ins)}
                         \cup {[tx |-> t, io |-> "output", cell |-> c] : c \in OwnCells(spends[t].outs)}
<1>1. \A e \in HistoryEntries : TransferHistory[e] = HistoryRecord(e.tx)
  BY DEF TransferHistory
<1>2. HistoryEntries = UNION {entriesOf(t) : t \in Txs("committed")}
  BY DEF HistoryEntries
<1>3. \A t : \A e \in entriesOf(t) : e.tx = t
  OBVIOUS
<1>4. ASSUME NEW t \in Txs("committed") PROVE entriesOf(t) # {}
  <2>1. DeltaOf(cells, spends[t]) \in Int /\ DeltaOf(cells, spends[t]) <= -Fee
    BY SpendsCost DEF Txs
  <2>2. Own(cells, spends[t].ins) # {}
    <3>1. SUFFICES ASSUME Own(cells, spends[t].ins) = {} PROVE FALSE
      OBVIOUS
    <3>2. WorthIn(cells, {}) = 0
          BY SumEmpty DEF WorthIn
    <3>3. cells \in Seq(CellType) /\ Own(cells, spends[t].outs) \in SUBSET (1..Len(cells))
      BY DEF WalletInv, WalletTyped, CellsAreMade, Own, Txs, Cellar
    <3>4. WorthIn(cells, Own(cells, spends[t].outs)) \in Nat
      BY <3>3, WorthNat
    <3>. QED  BY <2>1, <3>1, <3>2, <3>4 DEF DeltaOf, Fee
  <2>3. PICK c : c \in OwnCells(spends[t].ins)
    BY <2>2 DEF Own, OwnCells
  <2>. QED  BY <2>3
<1>. HIDE DEF entriesOf
<1>5. ASSUME NEW t \in Txs("committed") PROVE HistoryRecord(t) \in told
  <2>1. PICK e \in entriesOf(t) : TRUE
    BY <1>4
  <2>2. e \in HistoryEntries /\ e.tx = t
    BY <1>2, <1>3, <2>1
  <2>. QED  BY <1>1, <2>2
<1>6. ASSUME NEW e \in HistoryEntries PROVE e.tx \in Txs("committed")
  BY <1>2, <1>3
<1>. QED  BY <1>1, <1>5, <1>6 DEF Effects

LEMMA BooksSayWhatIsTrue == WalletInv => SpendsAreTaken
<1>. SUFFICES ASSUME WalletInv PROVE SpendsAreTaken
  OBVIOUS
<1>1. BurstIsTaken
  BY DEF WalletInv, InTouch, BurstIsTaken
<1>2. ProtocolCellsKeepTheirFlow
  BY WorthIs DEF WalletInv, SpendsAreSound, KindsKept, ProtocolCellsKeepTheirFlow
<1>3. AvailableIsSpendable
  <2>1. SUFFICES ASSUME ~disturbed, Txs("pool") = {}, indexed = OwnLive, \A b \in Builds : build[b].at # "track"
                 PROVE  Worth(Selectable) = BalanceCategories.available
    BY DEF AvailableIsSpendable
  <2>2. Selectable = indexed \ {c \in indexed : cells[c].kind # "plain"}
    BY <2>1, NothingElseSelectable
  <2>3. BalanceCategories.available = Worth(indexed \ {c \in indexed : cells[c].kind # "plain"})
    BY DEF BalanceCategories
  <2>. QED  BY <2>2, <2>3, WorthIs
<1>4. HistoryExplainsBalance
  <2>0. {TransferHistory[e] : e \in HistoryEntries} = Effects
    BY ToldIsEffects
  <2>1. Worth(OwnLive) = Worth(1..3) + MapThenSumSet(LAMBDA r : r.delta, Effects)
    BY WorthIs DEF WalletInv, HistoryAddsUp, DeltaSum
  <2>2. ASSUME NEW r \in Effects PROVE r.direction = "sent" /\ r.delta <= -Fee
    <3>1. PICK t \in Committed(spends) : r = Entry(t, DeltaOf(cells, spends[t]))
      BY HistoryIs DEF History
    <3>2. t \in DOMAIN spends
      BY DEF Committed
    <3>. DEFINE delta == DeltaOf(cells, spends[t])
    <3>3. delta \in Int /\ delta <= -Fee
      BY <3>2, SpendsCost
    <3>. HIDE DEF delta
    <3>4. r = Entry(t, delta)
      BY <3>1 DEF delta
    <3>. QED  BY <3>3, <3>4 DEF Entry, Fee
  <2>. QED  BY <2>0, <2>1, <2>2 DEF HistoryExplainsBalance
<1>. QED  BY <1>1, <1>2, <1>3, <1>4 DEF SpendsAreTaken

(* One spend after the other is never refused, what the node takes keeps   *)
(* the flow of the protocol's cells, what is shown as available is what    *)
(* coin selection can use, and the transfer history explains the balance,  *)
(* for any number of cells and of transactions (signing.ts:70-98, 413-439, *)
(* wallet.ts:119-266).                                                     *)
THEOREM TheSpendsAreTaken == WalletSpec => []SpendsAreTaken
<1>1. WalletSpec => []WalletInv
  BY WalletKeepsItsBooks
<1>2. WalletInv => SpendsAreTaken
  BY BooksSayWhatIsTrue
<1>. QED  BY <1>1, <1>2, PTL

-----------------------------------------------------------------------------
(* The types, with their bounds: of the ledger.  What the wallet can spend *)
(* and what its cells hold come from the funds and from payments; a cell   *)
(* that is bound is one that was published.                                *)

Published == {i \in Items : item[i] # "idle"}

LedgerBounds ==
    /\ chain.free + Claimed("cell") <= Funds + 2 * ledgerFaults
    /\ chain.bound <= ProfileCap + Cap * Cardinality(Published) + 2 * ledgerFaults
    /\ ledgerFaults <= MaxLedgerFaults
    /\ refresh.free <= Most /\ refresh.bound \in BoundRange

LEMMA PublishedIs == IsFiniteSet(Published) /\ Cardinality(Published) \in Nat
                     /\ Cardinality(Published) <= Cardinality(Items) /\ Cardinality(Items) \in Nat
BY ItemsFinite, FS_Subset, FS_CardinalityType DEF Published

LEMMA BoundIs ==
    ASSUME NEW n \in Nat, n <= Cardinality(Items), NEW many \in Nat, many <= MaxLedgerFaults,
           NEW b \in Nat, b <= ProfileCap + Cap * n + 2 * many
    PROVE  b \in BoundRange
<1>1. Cardinality(Items) \in Nat
  BY PublishedIs
<1>2. n * Cap <= Cardinality(Items) * Cap
  BY <1>1, TimesMonotone
<1>3. n * Cap = Cap * n /\ Cardinality(Items) * Cap = Cap * Cardinality(Items)
  BY <1>1
<1>. DEFINE x == Cap * n
            y == Cap * Cardinality(Items)
<1>4. x \in Nat /\ y \in Nat
  BY <1>1, TimesIsNat
<1>5. x <= y
  BY <1>2, <1>3
<1>. HIDE DEF x, y
<1>6. b <= ProfileCap + y + 2 * MaxLedgerFaults
  <2>1. b <= ProfileCap + x + 2 * many
    BY DEF x
  <2>. QED  BY <1>4, <1>5, <2>1
<1>7. b \in 0..(ProfileCap + y + 2 * MaxLedgerFaults)
  BY <1>4, <1>6
<1>. QED  BY <1>7 DEF BoundRange, y

LEMMA ChainIsBounded == ASSUME LedgerInv, LedgerBounds PROVE chain \in [free : 0..Most, bound : BoundRange]
<1>1. chain \in [free : Nat, bound : Nat] /\ ledgerFaults \in Nat /\ Claimed("cell") \in Nat
  BY ClaimedType DEF LedgerInv, LedgerTyped, Accounts
<1>2. chain.free \in 0..Most
  BY <1>1 DEF LedgerBounds, Most
<1>3. chain.bound \in BoundRange
  BY <1>1, PublishedIs, BoundIs DEF LedgerBounds
<1>. QED  BY <1>1, <1>2, <1>3

LEMMA LedgerTypes == LedgerInv /\ LedgerBounds => LedgerTypeOK
<1>. SUFFICES ASSUME LedgerInv, LedgerBounds PROVE LedgerTypeOK
  OBVIOUS
<1>1. LedgerTyped /\ chain \in [free : 0..Most, bound : BoundRange]
  BY ChainIsBounded DEF LedgerInv
<1>2. refresh \in [at : {"idle", "store"}, free : 0..Most, bound : BoundRange, crossed : BOOLEAN]
  BY <1>1 DEF LedgerTyped, LedgerBounds, Most
<1>3. ledgerFaults \in 0..MaxLedgerFaults
  BY <1>1 DEF LedgerTyped, LedgerBounds
<1>. QED  BY <1>1, <1>2, <1>3 DEF LedgerTyped, LedgerTypeOK, Steps

LEMMA LedgerBoundsFirst == LedgerInit => LedgerBounds
<1>. SUFFICES ASSUME LedgerInit PROVE LedgerBounds
  OBVIOUS
<1>1. chain.free = Funds /\ chain.bound = ProfileCap /\ ledgerFaults = 0
      /\ refresh.free = 0 /\ refresh.bound = 0 /\ \A i \in Items : item[i] = "idle"
  BY DEF LedgerInit, IdleRefresh
<1>2. Claimed("cell") = 0
  BY <1>1, NoClaims DEF Claim
<1>3. Published = {} /\ Cardinality(Published) = 0
  BY <1>1, FS_EmptySet DEF Published
<1>4. 0 \in BoundRange
  BY FS_EmptySet, PublishedIs, BoundIs
<1>. QED  BY <1>1, <1>2, <1>3, <1>4 DEF LedgerBounds, Most

LEMMA ClaimsShrink ==
    ASSUME LedgerTyped, LedgerTyped',
           \A i \in Items : Claim("cell", i, item'[i]) <= Claim("cell", i, item[i])
    PROVE  Claimed("cell")' <= Claimed("cell") /\ Claimed("cell") \in Nat /\ Claimed("cell")' \in Nat
<1>. DEFINE f == Claims("cell")'
            g == Claims("cell")
<1>1. \A i \in Items : f[i] = Claim("cell", i, item'[i]) /\ g[i] = Claim("cell", i, item[i])
  BY DEF Claims
<1>2. \A i \in Items : item[i] \in Steps /\ item'[i] \in Steps
  BY DEF LedgerTyped
<1>3. \A i \in Items : f[i] \in Nat /\ g[i] \in Nat /\ f[i] <= g[i]
  BY <1>1, <1>2, ClaimType DEF Accounts
<1>. HIDE DEF f, g
<1>4. SumOver(f, Items) <= SumOver(g, Items)
  BY <1>3, ItemsFinite, SumAtMost
<1>5. SumOver(f, Items) \in Nat /\ SumOver(g, Items) \in Nat
  BY <1>3, ItemsFinite, SumNat
<1>. QED  BY <1>4, <1>5 DEF Claimed, f, g

(* A step that commits nothing: no item's claim to a cell grows, and none  *)
(* that was not published is.                                              *)
LEMMA NothingCommits ==
    ASSUME LedgerInv, LedgerTyped', LedgerBounds,
           \A i \in Items : /\ Claim("cell", i, item'[i]) <= Claim("cell", i, item[i])
                            /\ item[i] = "idle" <=> item'[i] = "idle",
           chain'.free <= chain.free + 2 * (ledgerFaults' - ledgerFaults),
           chain'.bound <= chain.bound + 2 * (ledgerFaults' - ledgerFaults),
           ledgerFaults' \in Nat, ledgerFaults' <= MaxLedgerFaults,
           refresh'.free <= Most, refresh'.bound \in BoundRange
    PROVE  LedgerBounds'
<1>1. chain \in [free : Nat, bound : Nat] /\ chain' \in [free : Nat, bound : Nat] /\ ledgerFaults \in Nat
  BY DEF LedgerInv, LedgerTyped
<1>2. Claimed("cell")' <= Claimed("cell") /\ Claimed("cell") \in Nat /\ Claimed("cell")' \in Nat
  BY ClaimsShrink DEF LedgerInv
<1>3. Published' = Published
  BY DEF Published
<1>4. chain'.free + Claimed("cell")' <= Funds + 2 * ledgerFaults'
  BY <1>1, <1>2 DEF LedgerBounds
<1>5. chain'.bound <= ProfileCap + Cap * Cardinality(Published) + 2 * ledgerFaults'
  <2>. DEFINE x == Cap * Cardinality(Published)
  <2>1. x \in Nat
    BY PublishedIs, TimesIsNat
  <2>2. chain.bound <= ProfileCap + x + 2 * ledgerFaults
    BY DEF LedgerBounds
  <2>. HIDE DEF x
  <2>3. chain'.bound <= ProfileCap + x + 2 * ledgerFaults'
    BY <1>1, <2>1, <2>2
  <2>. QED  BY <2>3 DEF x
<1>. QED  BY <1>3, <1>4, <1>5 DEF LedgerBounds, BoundRange, Most

LEMMA LedgerBoundsStep == LedgerInv /\ LedgerBounds /\ [LedgerNext]_capacityVars => LedgerBounds'
<1>. SUFFICES ASSUME LedgerInv, LedgerBounds, [LedgerNext]_capacityVars PROVE LedgerBounds'
  OBVIOUS
<1>0. LedgerTyped /\ LedgerTyped' /\ ledgerFaults \in Nat /\ ledgerFaults <= MaxLedgerFaults
      /\ chain \in [free : Nat, bound : Nat] /\ chain.free \in Nat /\ chain.bound \in Nat
      /\ refresh \in [at : {"idle", "store"}, free : Nat, bound : Nat, crossed : BOOLEAN]
  BY LedgerStep DEF LedgerInv, LedgerTyped, LedgerBounds
<1>a. refresh.free <= Most /\ refresh.bound \in BoundRange
  BY DEF LedgerBounds
<1>b. Crossed => refresh'.free = refresh.free /\ refresh'.bound = refresh.bound
  BY <1>0 DEF Crossed
<1>c. IdleRefresh.free <= Most /\ IdleRefresh.bound \in BoundRange
  BY FS_CardinalityType, PublishedIs, BoundIs DEF IdleRefresh, Most
<1>d. \A i \in Items : Claim("cell", i, item[i]) \in Nat /\ item[i] \in Steps
  BY <1>0, ClaimType DEF LedgerTyped, Accounts
<1>e. ASSUME item' = item,
             chain'.free <= chain.free + 2 * (ledgerFaults' - ledgerFaults),
             chain'.bound <= chain.bound + 2 * (ledgerFaults' - ledgerFaults),
             ledgerFaults' \in Nat, ledgerFaults' <= MaxLedgerFaults,
             refresh'.free <= Most, refresh'.bound \in BoundRange
      PROVE  LedgerBounds'
  <2>1. \A i \in Items : Claim("cell", i, item'[i]) <= Claim("cell", i, item[i])
    BY <1>d, <1>e
  <2>. QED  BY <1>0, <1>e, <2>1, NothingCommits
<1>f. LedgerFault => ledgerFaults' = ledgerFaults + 1 /\ ledgerFaults' \in Nat /\ ledgerFaults' <= MaxLedgerFaults
  BY <1>0 DEF LedgerFault
<1>g. ASSUME NEW i \in Items, NEW next, item' = [item EXCEPT ![i] = next], chain' = chain,
             ledgerFaults' = ledgerFaults, item[i] # "idle", next # "idle",
             Claim("cell", i, next) <= Claim("cell", i, item[i]),
             refresh'.free <= Most, refresh'.bound \in BoundRange
      PROVE  LedgerBounds'
  <2>1. item'[i] = next /\ \A j \in Items \ {i} : item'[j] = item[j]
    BY <1>0, <1>g DEF LedgerTyped
  <2>2. \A j \in Items : /\ Claim("cell", j, item'[j]) <= Claim("cell", j, item[j])
                         /\ item[j] = "idle" <=> item'[j] = "idle"
    BY <1>d, <1>g, <2>1
  <2>. QED  BY <1>0, <1>g, <2>2, NothingCommits
<1>h. ASSUME NEW i \in Items, NEW from, NEW to, NEW amount, NEW next, NEW end,
             Move(i, from, to, amount, next, end), item[i] # "idle", next # "idle", end # "idle",
             Claim("cell", i, next) <= Claim("cell", i, item[i]),
             Claim("cell", i, end) <= Claim("cell", i, item[i]),
             Crossed \/ UNCHANGED refresh
      PROVE  LedgerBounds'
  <2>1. chain' = chain /\ ledgerFaults' = ledgerFaults
        /\ (item' = [item EXCEPT ![i] = next] \/ item' = [item EXCEPT ![i] = end])
    BY <1>h DEF Move
  <2>2. refresh'.free <= Most /\ refresh'.bound \in BoundRange
    <3>1. refresh'.free = refresh.free /\ refresh'.bound = refresh.bound
      BY <1>b, <1>h
    <3>. QED  BY <1>a, <3>1 DEF Most, BoundRange
  <2>. QED  BY <1>g, <1>h, <2>1, <2>2
<1>i. ASSUME NEW i \in Items PROVE
        /\ item[i] \in {"reserve", "held", "acked"} => Claim("cell", i, item[i]) = Cap
        /\ i \in Texting /\ item[i] = "mark" => Claim("cell", i, item[i]) = Cap
        /\ i \in Texting => Claim("cell", i, "mark") = Cap
        /\ i \notin Texting => Claim("cell", i, "mark") = 0
        /\ Claim("cell", i, "held") = Cap /\ Claim("cell", i, "acked") = Cap /\ Claim("cell", i, "idle") = 0
        /\ Claim("cell", i, "reserve") = Cap /\ Claim("cell", i, "release") = 0
        /\ Claim("cell", i, "burn") = 0 /\ Claim("cell", i, "done") = 0
  BY DEF Claim
<1>1. CASE UNCHANGED capacityVars
  BY <1>0, <1>1, <1>a, <1>e DEF capacityVars, BoundRange, Most
<1>2. CASE EnsureWallet
  BY <1>0, <1>2, <1>a, <1>e, <1>f DEF EnsureWallet, BoundRange, Most
<1>3. CASE TakeSnapshot
  <2>1. chain \in [free : 0..Most, bound : BoundRange]
    BY ChainIsBounded
  <2>2. refresh'.free = chain.free /\ refresh'.bound = chain.bound
    BY <1>3 DEF TakeSnapshot
  <2>3. refresh'.free <= Most /\ refresh'.bound \in BoundRange
    BY <1>0, <2>1, <2>2
  <2>. QED  BY <1>0, <1>3, <1>e, <2>3 DEF TakeSnapshot
<1>4. CASE SetChainBalances
  <2>1. refresh' = IdleRefresh /\ UNCHANGED <<chain, item, ledgerFaults>>
    BY <1>4 DEF SetChainBalances
  <2>2. refresh'.free <= Most /\ refresh'.bound \in BoundRange
    BY <1>c, <2>1 DEF BoundRange, Most
  <2>. QED  BY <1>0, <1>e, <2>1, <2>2
<1>5. CASE OtherSpend
  <2>1. PICK kept \in {0, 2} : chain' = [free |-> chain.free - 2, bound |-> chain.bound + kept]
    BY <1>5 DEF OtherSpend
  <2>2. chain'.free = chain.free - 2 /\ chain'.bound = chain.bound + kept
    BY <2>1
  <2>3. LedgerFault /\ item' = item /\ refresh' = refresh
    BY <1>5 DEF OtherSpend
  <2>. QED  BY <1>0, <1>a, <1>e, <1>f, <2>2, <2>3 DEF BoundRange, Most
<1>6. CASE Payment
  <2>1. chain' = [chain EXCEPT !.free = @ + 2] /\ LedgerFault /\ item' = item /\ Crossed
    BY <1>6 DEF Payment
  <2>2. chain'.free = chain.free + 2 /\ chain'.bound = chain.bound
    BY <1>0, <2>1
  <2>3. refresh'.free <= Most /\ refresh'.bound \in BoundRange
    BY <1>a, <1>b, <2>1 DEF BoundRange, Most
  <2>. QED  BY <1>0, <1>e, <1>f, <2>1, <2>2, <2>3
<1>7. CASE LedgerCrash
  <2>1. chain' = chain /\ item' = [i \in Items |-> After(i)] /\ refresh' = IdleRefresh /\ LedgerFault
    BY <1>7 DEF LedgerCrash
  <2>2. ASSUME NEW i \in Items
        PROVE  /\ Claim("cell", i, item'[i]) <= Claim("cell", i, item[i])
               /\ item[i] = "idle" <=> item'[i] = "idle"
    <3>1. item'[i] = After(i)
      BY <2>1
    <3>2. CASE item[i] = "reserve"
      <4>1. After(i) \in {"held", "done"}
        BY <3>2 DEF After, Unreserved
      <4>. QED  BY <1>i, <3>1, <3>2, <4>1
    <3>3. CASE item[i] = "mark" /\ i \in Texting
      <4>1. After(i) = "acked"
        BY <3>3 DEF After
      <4>. QED  BY <1>i, <3>1, <3>3, <4>1
    <3>4. CASE item[i] \in Due /\ item[i] # "reserve" /\ ~(item[i] = "mark" /\ i \in Texting)
      <4>1. After(i) = "done"
        BY <3>4 DEF After, Due
      <4>. QED  BY <1>d, <1>i, <3>1, <3>4, <4>1 DEF Due
    <3>5. CASE item[i] \notin Due
      <4>1. After(i) = item[i]
        BY <3>5 DEF After, Due
      <4>. QED  BY <1>d, <3>1, <4>1
    <3>. QED  BY <3>2, <3>3, <3>4, <3>5
  <2>3. refresh'.free <= Most /\ refresh'.bound \in BoundRange
    BY <1>c, <2>1 DEF BoundRange, Most
  <2>. QED  BY <1>0, <1>f, <2>1, <2>2, <2>3, NothingCommits
<1>8. ASSUME NEW i \in Items, PublicationCommits(i) PROVE LedgerBounds'
  <2>1. /\ item[i] = "idle" /\ item' = [item EXCEPT ![i] = "reserve"] /\ Crossed
        /\ chain' = [free |-> chain.free - Cap - LedgerFee, bound |-> chain.bound + Cap]
        /\ ledgerFaults' = ledgerFaults
    BY <1>8 DEF PublicationCommits
  <2>2. chain'.free = chain.free - Cap - LedgerFee /\ chain'.bound = chain.bound + Cap
    BY <2>1
  <2>3. Claimed("cell")' = Claimed("cell") + Cap /\ Claimed("cell") \in Int
    <3>1. "reserve" \in Steps /\ "cell" \in Accounts
      BY DEF Steps, Due, Accounts
    <3>2. Claim("cell", i, item[i]) = 0 /\ Claim("cell", i, "reserve") = Cap
      BY <1>i, <2>1
    <3>3. /\ Claimed("cell") \in Int
          /\ Claimed("cell")' = Claimed("cell") - Claim("cell", i, item[i]) + Claim("cell", i, "reserve")
      BY <1>0, <2>1, <3>1, ClaimsBecome
    <3>. QED  BY <3>2, <3>3
  <2>4. Cardinality(Published)' = Cardinality(Published) + 1
    <3>1. Published' = Published \cup {i} /\ i \notin Published
      BY <1>0, <2>1 DEF Published, LedgerTyped
    <3>. QED  BY <3>1, PublishedIs, FS_AddElement
  <2>5. chain'.free + Claimed("cell")' <= Funds + 2 * ledgerFaults'
    BY <1>0, <2>1, <2>2, <2>3 DEF LedgerBounds
  <2>6. chain'.bound <= ProfileCap + Cap * Cardinality(Published)' + 2 * ledgerFaults'
    <3>. DEFINE n == Cardinality(Published)
    <3>1. n \in Nat /\ chain.bound <= ProfileCap + Cap * n + 2 * ledgerFaults
      BY PublishedIs DEF LedgerBounds
    <3>. HIDE DEF n
    <3>2. Cap * (n + 1) = Cap * n + Cap /\ Cap * n \in Nat
      BY <3>1, TimesIsNat
    <3>3. chain'.bound <= ProfileCap + Cap * (n + 1) + 2 * ledgerFaults
      <4>. DEFINE x == Cap * n
                  y == Cap * (n + 1)
      <4>1. y = x + Cap /\ x \in Nat /\ chain.bound <= ProfileCap + x + 2 * ledgerFaults
        BY <3>1, <3>2
      <4>. HIDE DEF x, y
      <4>2. chain'.bound <= ProfileCap + y + 2 * ledgerFaults
        BY <1>0, <2>2, <4>1
      <4>. QED  BY <4>2 DEF y
    <3>4. Cardinality(Published)' = n + 1
      BY <2>4 DEF n
    <3>. QED  BY <2>1, <3>3, <3>4
  <2>. QED  BY <1>0, <1>a, <1>b, <2>1, <2>5, <2>6 DEF LedgerBounds, BoundRange, Most
<1>9. ASSUME NEW i \in Items, ReclaimCommits(i) PROVE LedgerBounds'
  <2>. DEFINE next == IF i \in Texting THEN "release" ELSE "mark"
  <2>1. /\ item[i] = (IF i \in Texting THEN "acked" ELSE "held") /\ item' = [item EXCEPT ![i] = next] /\ Crossed
        /\ chain' = [free |-> chain.free + Cap - LedgerFee, bound |-> chain.bound - Cap]
        /\ ledgerFaults' = ledgerFaults
    BY <1>9 DEF ReclaimCommits
  <2>2. chain'.free = chain.free + Cap - LedgerFee /\ chain'.bound = chain.bound - Cap
    BY <2>1
  <2>3. Claimed("cell")' = Claimed("cell") - Cap /\ Claimed("cell") \in Int
    <3>1. next \in Steps /\ "cell" \in Accounts
      BY DEF Steps, Due, Accounts
    <3>2. Claim("cell", i, item[i]) = Cap /\ Claim("cell", i, next) = 0
      BY <1>i, <2>1
    <3>. HIDE DEF next
    <3>3. /\ Claimed("cell") \in Int
          /\ Claimed("cell")' = Claimed("cell") - Claim("cell", i, item[i]) + Claim("cell", i, next)
      BY <1>0, <2>1, <3>1, ClaimsBecome
    <3>. QED  BY <3>2, <3>3
  <2>4. Published' = Published
    BY <1>0, <2>1 DEF Published, LedgerTyped
  <2>5. chain'.free + Claimed("cell")' <= Funds + 2 * ledgerFaults'
    BY <1>0, <2>1, <2>2, <2>3 DEF LedgerBounds
  <2>6. chain'.bound <= ProfileCap + Cap * Cardinality(Published)' + 2 * ledgerFaults'
    <3>. DEFINE x == Cap * Cardinality(Published)
    <3>1. x \in Nat /\ chain.bound <= ProfileCap + x + 2 * ledgerFaults
      BY PublishedIs, TimesIsNat DEF LedgerBounds
    <3>. HIDE DEF x
    <3>2. chain'.bound <= ProfileCap + x + 2 * ledgerFaults
      BY <1>0, <2>2, <3>1
    <3>. QED  BY <2>1, <2>4, <3>2 DEF x
  <2>. QED  BY <1>0, <1>a, <1>b, <2>1, <2>5, <2>6 DEF LedgerBounds, BoundRange, Most
<1>10. ASSUME NEW i \in Items, ReserveCapacity(i) PROVE LedgerBounds'
  <2>1. Unreserved(i) \in {"held", "done"}
    BY DEF Unreserved
  <2>. QED  BY <1>10, <1>h, <1>i, <2>1 DEF ReserveCapacity
<1>11. ASSUME NEW i \in Items, AcknowledgeItem(i) PROVE LedgerBounds'
  <2>1. refresh'.free <= Most /\ refresh'.bound \in BoundRange
    BY <1>11, <1>a DEF AcknowledgeItem, BoundRange, Most
  <2>2. /\ item[i] = "held" /\ i \in Texting /\ item' = [item EXCEPT ![i] = "mark"]
        /\ chain' = chain /\ ledgerFaults' = ledgerFaults
    BY <1>11 DEF AcknowledgeItem
  <2>3. Claim("cell", i, "mark") <= Claim("cell", i, item[i])
    BY <1>i, <2>2
  <2>. QED  BY <1>g, <2>1, <2>2, <2>3
<1>12. ASSUME NEW i \in Items, MarkReclaimable(i) PROVE LedgerBounds'
  <2>1. CASE i \in Texting
    BY <1>12, <1>h, <1>i, <2>1 DEF MarkReclaimable
  <2>2. CASE i \notin Texting
    BY <1>12, <1>h, <1>i, <2>2 DEF MarkReclaimable
  <2>. QED  BY <2>1, <2>2
<1>13. ASSUME NEW i \in Items, ReleaseReclaimedCapacity(i) PROVE LedgerBounds'
  BY <1>13, <1>d, <1>h, <1>i DEF ReleaseReclaimedCapacity
<1>14. ASSUME NEW i \in Items, RecordFeeBurn(i) PROVE LedgerBounds'
  <2>1. refresh'.free <= Most /\ refresh'.bound \in BoundRange
    BY <1>14, <1>a, <1>b DEF RecordFeeBurn, BoundRange, Most
  <2>2. /\ item[i] = "burn" /\ item' = [item EXCEPT ![i] = "done"]
        /\ chain' = chain /\ ledgerFaults' = ledgerFaults
    BY <1>14 DEF RecordFeeBurn
  <2>3. Claim("cell", i, "done") <= Claim("cell", i, item[i])
    BY <1>i, <2>2
  <2>. QED  BY <1>g, <2>1, <2>2, <2>3
<1>. QED  BY <1>1, <1>2, <1>3, <1>4, <1>5, <1>6, <1>7, <1>8, <1>9, <1>10, <1>11, <1>12, <1>13, <1>14
          DEF LedgerNext

USE WalletAssumption

(* ... and of the wallet.  Every transaction costs it, so it never has     *)
(* more than it began with, and no cell it makes holds more than that and  *)
(* the margin of a rotated profile.                                        *)

FirstWorth == 18
LargestCap == FirstWorth + CapacityMargin

FewCells(s, most) == Len(s) <= most /\ \A k \in DOMAIN s : s[k].cap \in 1..LargestCap

WalletBounds ==
    /\ cells[1].cap = 12 /\ cells[2].cap = 3 /\ cells[3].cap = 3
    /\ FewCells(cells, 3 + 3 * Len(spends))
    /\ Len(spends) <= MaxSpends
    /\ \A b \in Builds : build[b].ins \subseteq Cellar /\ FewCells(build[b].outs, 3)
    /\ walletFaults \in 0..MaxWalletFaults

LEMMA WalletTypes == WalletTyped /\ CellsAreMade /\ WalletBounds => WalletTypeOK
<1>. SUFFICES ASSUME WalletTyped, CellsAreMade, WalletBounds PROVE WalletTypeOK
  OBVIOUS
<1>1. Len(cells) \in Nat /\ Len(spends) \in Nat /\ Len(cells) <= MaxCells /\ MaxCells \in Nat
  BY TypedFacts DEF WalletBounds, FewCells, MaxCells
<1>2. Cellar \subseteq CellIds /\ 4..Len(cells) \subseteq Cellar
  BY <1>1 DEF Cellar, CellIds
<1>3. \A s : s \in Seq(CellType) /\ (\E most : FewCells(s, most)) => s \in Seq([kind : CellKinds, cap : 1..30])
  <2>. SUFFICES ASSUME NEW s \in Seq(CellType), NEW most, FewCells(s, most)
                PROVE  s \in Seq([kind : CellKinds, cap : 1..30])
    OBVIOUS
  <2>1. \A k \in 1..Len(s) : s[k] \in CellType /\ s[k].cap \in 1..19
    BY DEF FewCells, LargestCap, FirstWorth, CapacityMargin
  <2>. DEFINE Few == [kind : CellKinds, cap : 1..30]
  <2>2. \A k \in 1..Len(s) : s[k] \in Few
    BY <2>1 DEF CellType
  <2>. HIDE DEF Few
  <2>3. s \in Seq(Few)
    BY <2>2
  <2>. QED  BY <2>3 DEF Few
<1>4. cells \in Seq([kind : CellKinds, cap : 1..30])
  BY <1>3 DEF WalletTyped, WalletBounds
<1>5. spends \in Seq([kind : FlowKinds, ins : SUBSET CellIds, outs : SUBSET CellIds,
                    st : {"pool", "committed", "gone"}])
  <2>. DEFINE Stored == [kind : FlowKinds, ins : SUBSET CellIds, outs : SUBSET CellIds,
                         st : {"pool", "committed", "gone"}]
  <2>1. ASSUME NEW t \in 1..Len(spends) PROVE spends[t] \in Stored
    <3>1. spends[t] \in SpendType /\ spends[t].ins \subseteq CellIds /\ spends[t].outs \subseteq CellIds
      BY <1>2, TypedFacts DEF CellsAreMade
    <3>. QED  BY <3>1 DEF SpendType
  <2>2. spends \in Seq(SpendType)
    BY DEF WalletTyped
  <2>. HIDE DEF Stored
  <2>3. spends \in Seq(Stored)
    BY <2>1, <2>2
  <2>. QED  BY <2>3 DEF Stored
<1>6. indexed \subseteq CellIds
  BY <1>2, TheyExist DEF CellsAreMade
<1>7. cache \in [usable : SUBSET CellIds, unusable : SUBSET CellIds]
  <2>1. cache.usable \subseteq CellIds
    BY <1>2, TheyExist DEF CellsAreMade, Made
  <2>2. cache.unusable \subseteq CellIds
    BY <1>2 DEF CellsAreMade, IsSpent
  <2>. QED  BY <2>1, <2>2 DEF WalletTyped
<1>8. build \in [Builds -> [at : {"idle", "built", "signed", "track", "refused"},
                             kind : FlowKinds, ins : SUBSET CellIds,
                             outs : Seq([kind : CellKinds, cap : 1..30]), clean : BOOLEAN]]
  <2>1. ASSUME NEW b \in Builds
        PROVE  build[b] \in [at : {"idle", "built", "signed", "track", "refused"},
                             kind : FlowKinds, ins : SUBSET CellIds,
                             outs : Seq([kind : CellKinds, cap : 1..30]), clean : BOOLEAN]
    <3>1. build[b] \in BuildType
      BY TypedFacts
    <3>2. build[b].outs \in Seq([kind : CellKinds, cap : 1..30])
      BY <1>3, <3>1 DEF BuildType, WalletBounds
    <3>3. build[b].ins \in SUBSET CellIds
      BY <1>2 DEF WalletBounds
    <3>. QED  BY <3>1, <3>2, <3>3 DEF BuildType
  <2>. QED  BY <2>1 DEF WalletTyped
<1>9. disturbed \in BOOLEAN /\ walletFaults \in 0..MaxWalletFaults
  BY DEF WalletTyped, WalletBounds
<1>. QED  BY <1>1, <1>4, <1>5, <1>6, <1>7, <1>8, <1>9 DEF WalletTypeOK

LEMMA WalletBoundsFirst == WalletInit => WalletBounds
<1>. SUFFICES ASSUME WalletInit PROVE WalletBounds
  OBVIOUS
<1>1. /\ cells = <<Cell("plain", 12), Cell("profile", 3), Cell("message", 3)>>
      /\ spends = <<>> /\ walletFaults = 0
      /\ build = [b \in Builds |-> IdleBuild]
  BY DEF WalletInit
<1>2. /\ Len(cells) = 3 /\ DOMAIN cells = {1, 2, 3} /\ Len(spends) = 0
      /\ cells[1].cap = 12 /\ cells[2].cap = 3 /\ cells[3].cap = 3
  BY <1>1 DEF Cell
<1>3. FewCells(cells, 3 + 3 * Len(spends))
  BY <1>2 DEF FewCells, LargestCap, FirstWorth, CapacityMargin
<1>4. \A b \in Builds : build[b].ins \subseteq Cellar /\ FewCells(build[b].outs, 3)
  BY <1>1 DEF IdleBuild, FewCells
<1>. QED  BY <1>1, <1>2, <1>3, <1>4 DEF WalletBounds

(* What a sum over entries none of which is a gain comes to.               *)
LEMMA NothingGained ==
    ASSUME WalletInv
    PROVE  DeltaSum(Effects) \in Int /\ DeltaSum(Effects) <= 0
<1>. DEFINE H == Effects
            f == [r \in H |-> r.delta]
            z == [r \in H |-> 0]
<1>1. IsFiniteSet(H)
  BY DEF WalletInv, HistoryAddsUp
<1>2. ASSUME NEW r \in H PROVE r.delta \in Int /\ r.delta <= 0
  <2>1. PICK t \in Committed(spends) : r = Entry(t, DeltaOf(cells, spends[t]))
    BY HistoryIs DEF History
  <2>2. t \in DOMAIN spends
    BY DEF Committed
  <2>. DEFINE delta == DeltaOf(cells, spends[t])
  <2>3. delta \in Int /\ delta <= -Fee
    BY <2>2, SpendsCost
  <2>. HIDE DEF delta
  <2>4. r = Entry(t, delta)
    BY <2>1 DEF delta
  <2>. QED  BY <2>3, <2>4 DEF Entry, Fee
<1>. HIDE DEF H
<1>3. \A r \in H : f[r] \in Int /\ z[r] \in Int /\ f[r] <= z[r] /\ z[r] = 0
  BY <1>2
<1>4. DeltaSum(H) = SumOver(f, H)
  BY DeltaSumIs
<1>. HIDE DEF f, z
<1>5. SumOver(f, H) \in Int /\ SumOver(f, H) <= SumOver(z, H) /\ SumOver(z, H) = 0
  <2>1. SumOver(f, H) \in Int
    BY <1>1, <1>3, SumType
  <2>2. SumOver(f, H) <= SumOver(z, H)
    BY <1>1, <1>3, SumAtMost
  <2>3. SumOver(z, H) = 0
    BY <1>1, <1>3, SumOfZeros
  <2>. QED  BY <2>1, <2>2, <2>3
<1>. QED  BY <1>4, <1>5 DEF H

LEMMA WorthOfOne == ASSUME WalletTyped, NEW c \in Cellar PROVE WorthIn(cells, {c}) = cells[c].cap
<1>. DEFINE f == [x \in {c} |-> cells[x].cap]
<1>1. cells[c].cap \in Int
  BY TypedFacts DEF CellType
<1>2. IsFiniteSet({c}) /\ {c} \ {c} = {}
  BY FS_Singleton
<1>3. SumOver(f, {c}) = f[c] + SumOver(f, {c} \ {c})
  <2>1. \A x \in {c} : f[x] \in Int
    BY <1>1
  <2>. HIDE DEF f
  <2>. QED  BY <1>2, <2>1, SumRemove
<1>4. SumOver(f, {}) = 0
  BY SumEmpty
<1>. QED  BY <1>1, <1>2, <1>3, <1>4 DEF WorthIn

(* The wallet never has more than it began with.                           *)
LEMMA NeverMore ==
    ASSUME WalletInv, WalletBounds, NEW S \in SUBSET OwnLive
    PROVE  WorthIn(cells, S) \in Nat /\ WorthIn(cells, S) <= FirstWorth
<1>1. /\ WalletTyped /\ cells \in Seq(CellType) /\ OwnLive \subseteq Cellar /\ 1..3 \subseteq Cellar
      /\ Cellar = 1..Len(cells)
  BY TheyExist DEF WalletInv, WalletTyped, Cellar
<1>2. WorthIn(cells, 1..3) = 18
  <2>1. WorthIn(cells, {1}) = 12 /\ WorthIn(cells, {2}) = 3 /\ WorthIn(cells, {3}) = 3
    BY <1>1, WorthOfOne DEF WalletBounds
  <2>2. {1} \in SUBSET (1..Len(cells)) /\ {2} \in SUBSET (1..Len(cells)) /\ {3} \in SUBSET (1..Len(cells))
    BY <1>1
  <2>3. WorthIn(cells, {1} \cup {2}) = WorthIn(cells, {1}) + WorthIn(cells, {2})
    BY <1>1, <2>2, WorthUnion
  <2>4. {1} \cup {2} \in SUBSET (1..Len(cells)) /\ ({1} \cup {2}) \cap {3} = {} /\ 1..3 = ({1} \cup {2}) \cup {3}
    BY <2>2
  <2>5. WorthIn(cells, ({1} \cup {2}) \cup {3}) = WorthIn(cells, {1} \cup {2}) + WorthIn(cells, {3})
    BY <1>1, <2>2, <2>4, WorthUnion
  <2>6. WorthIn(cells, 1..3) = WorthIn(cells, ({1} \cup {2}) \cup {3})
    BY <2>4
  <2>. QED  BY <2>1, <2>3, <2>5, <2>6
<1>3. WorthIn(cells, OwnLive) <= 18 /\ WorthIn(cells, OwnLive) \in Int
  BY <1>2, NothingGained DEF WalletInv, HistoryAddsUp
<1>4. WorthIn(cells, S) <= WorthIn(cells, OwnLive) /\ WorthIn(cells, S) \in Nat
  BY <1>1, WorthPart, WorthNat
<1>. QED  BY <1>3, <1>4 DEF FirstWorth

LEMMA OwnCellsAreSmall ==
    ASSUME WalletInv, WalletBounds, NEW c \in OwnLive
    PROVE  cells[c].cap \in Nat /\ cells[c].cap <= FirstWorth
<1>1. WalletTyped /\ c \in Cellar /\ {c} \in SUBSET OwnLive
  BY TheyExist DEF WalletInv
<1>. QED  BY <1>1, WorthOfOne, NeverMore

(* No more is selected than is needed: what is left of the last cell.      *)
LEMMA ChangeIsSmall ==
    ASSUME WalletInv, WalletBounds, NEW given \in SUBSET OwnLive, NEW outs \in Seq(CellType),
           NEW S \in Selections(given, outs)
    PROVE  Change(given \cup S, outs) \in Seq(CellType) /\ FewCells(Change(given \cup S, outs), 1)
<1>. DEFINE ins == given \cup S
            left == Worth(ins) - Total(outs) - Fee
            rest == Cell("plain", left)
<1>1. /\ S \subseteq Selectable \ given /\ Worth(ins) >= Need(outs)
      /\ \A c \in S : ~ (Worth(given \cup (S \ {c})) >= Need(outs))
  BY DEF Selections
<1>2. /\ WalletTyped /\ cells \in Seq(CellType) /\ Cellar = 1..Len(cells)
      /\ ins \in SUBSET (1..Len(cells)) /\ S \subseteq Cellar
  BY <1>1, TheyExist DEF WalletInv, WalletTyped, Cellar
<1>3. Worth(ins) = WorthIn(cells, ins) /\ WorthIn(cells, ins) \in Nat /\ Total(outs) \in Nat
  BY <1>2, WorthIs, WorthNat, TotalNat
<1>4. Need(outs) = Total(outs) + 1 \/ Need(outs) = Total(outs) + 2
  BY <1>3 DEF Need, Fee, Occupied
<1>5. left \in Nat /\ left <= LargestCap
  <2>1. left \in Nat
    BY <1>1, <1>3, <1>4 DEF Fee
  <2>2. CASE S = {}
    <3>1. WorthIn(cells, ins) <= FirstWorth
      BY <2>2, NeverMore
    <3>. QED  BY <1>3, <2>1, <3>1 DEF FirstWorth, LargestCap, CapacityMargin, Fee
  <2>3. CASE S # {}
    <3>1. PICK c \in S : TRUE
      BY <2>3
    <3>2. given \cup (S \ {c}) = ins \ {c} /\ {c} \in SUBSET ins
      BY <1>1
    <3>3. WorthIn(cells, ins) = WorthIn(cells, {c}) + WorthIn(cells, ins \ {c}) /\ WorthIn(cells, ins \ {c}) \in Nat
      <4>1. ins \ {c} \in SUBSET (1..Len(cells)) /\ ins \in SUBSET (1..Len(cells)) /\ cells \in Seq(CellType)
        BY <1>2
      <4>. HIDE DEF ins
      <4>2. WorthIn(cells, ins \ {c}) \in Nat
        BY <4>1, WorthNat
      <4>3. WorthIn(cells, ins) = WorthIn(cells, {c}) + WorthIn(cells, ins \ {c})
        BY <3>2, <4>1, WorthPart
      <4>. QED  BY <4>2, <4>3
    <3>4. WorthIn(cells, {c}) = cells[c].cap /\ cells[c].cap \in 1..LargestCap
      <4>1. c \in Cellar /\ c \in DOMAIN cells
        BY <1>2, TypedFacts
      <4>. QED  BY <1>2, <4>1, WorthOfOne DEF WalletBounds, FewCells
    <3>5. ~ (WorthIn(cells, ins \ {c}) >= Need(outs))
      BY <1>1, <3>2, WorthIs
    <3>. HIDE DEF ins
    <3>6. cells[c].cap \in Nat /\ cells[c].cap <= 19
      BY <3>4 DEF LargestCap, FirstWorth, CapacityMargin
    <3>. DEFINE w == WorthIn(cells, ins)
                v == WorthIn(cells, ins \ {c})
                n == Need(outs)
                t == Total(outs)
                k == cells[c].cap
    <3>7. w \in Nat /\ v \in Nat /\ t \in Nat /\ k \in Nat /\ k <= 19 /\ w = k + v /\ ~ (v >= n) /\ (n = t + 1 \/ n = t + 2)
      BY <1>3, <1>4, <3>3, <3>4, <3>5, <3>6
    <3>8. left = w - t - 1
      BY <1>3 DEF Fee
    <3>9. LargestCap = 19
      BY DEF LargestCap, FirstWorth, CapacityMargin
    <3>. HIDE DEF w, v, n, t, k, left
    <3>. QED  BY <2>1, <3>7, <3>8, <3>9
  <2>. QED  BY <2>2, <2>3, <2>1
<1>6. CASE left = 0
  <2>1. Change(ins, outs) = <<>>
    BY <1>6 DEF Change
  <2>2. << >> \in Seq(CellType) /\ FewCells(<< >>, 1)
    BY DEF FewCells
  <2>. QED  BY <2>1, <2>2
<1>7. CASE left > 0
  <2>1. Change(ins, outs) = <<rest>>
    BY <1>7 DEF Change
  <2>. HIDE DEF left
  <2>2. left \in 1..LargestCap
    BY <1>5, <1>7 DEF LargestCap, FirstWorth, CapacityMargin
  <2>3. rest \in CellType /\ rest.cap = left
    BY <2>2 DEF Cell, CellType, CellKinds
  <2>. HIDE DEF rest
  <2>4. <<rest>> \in Seq(CellType) /\ FewCells(<<rest>>, 1)
    BY <2>2, <2>3 DEF FewCells
  <2>. QED  BY <2>1, <2>4
<1>. QED  BY <1>5, <1>6, <1>7

LEMMA CompleteBounds ==
    ASSUME WalletInv, WalletBounds, NEW b \in Builds, NEW kind, NEW given \in SUBSET OwnLive,
           NEW outs \in Seq(CellType), FewCells(outs, 2), Complete(b, kind, given, outs)
    PROVE  WalletBounds'
<1>1. PICK S \in Selections(given, outs), clean \in BOOLEAN :
          build' = [build EXCEPT ![b] = [at |-> "built", kind |-> kind, ins |-> given \cup S,
                                         outs |-> outs \o Change(given \cup S, outs), clean |-> clean]]
  BY DEF Complete
<1>2. cells' = cells /\ spends' = spends /\ walletFaults' = walletFaults
  BY DEF Complete
<1>. DEFINE rest == Change(given \cup S, outs)
<1>3. rest \in Seq(CellType) /\ Len(rest) <= 1 /\ \A k \in DOMAIN rest : rest[k].cap \in 1..LargestCap
  BY ChangeIsSmall DEF FewCells
<1>4. given \cup S \subseteq Cellar /\ WalletTyped
  BY TheyExist DEF WalletInv, Selections
<1>. HIDE DEF rest
<1>5. FewCells(outs \o rest, 3)
  <2>1. Len(outs \o rest) <= 3 /\ DOMAIN (outs \o rest) = 1..(Len(outs) + Len(rest))
    BY <1>3 DEF FewCells
  <2>2. ASSUME NEW k \in DOMAIN (outs \o rest)
        PROVE  \/ k \in DOMAIN outs /\ (outs \o rest)[k] = outs[k]
               \/ \E j \in DOMAIN rest : (outs \o rest)[k] = rest[j]
    <3>1. CASE k \in 1..Len(outs)
      BY <1>3, <3>1
    <3>2. CASE k \notin 1..Len(outs)
      <4>1. k - Len(outs) \in 1..Len(rest) /\ (outs \o rest)[k] = rest[k - Len(outs)]
        BY <1>3, <2>1, <3>2
      <4>. QED  BY <1>3, <4>1
    <3>. QED  BY <3>1, <3>2
  <2>. QED  BY <1>3, <2>1, <2>2 DEF FewCells
<1>6. build \in [Builds -> BuildType]
  BY <1>4 DEF WalletTyped
<1>7. \A c \in Builds : build'[c].ins \subseteq Cellar /\ FewCells(build'[c].outs, 3)
  <2>. SUFFICES ASSUME NEW c \in Builds PROVE build'[c].ins \subseteq Cellar /\ FewCells(build'[c].outs, 3)
    OBVIOUS
  <2>1. CASE c = b
    <3>1. build'[c].ins = given \cup S /\ build'[c].outs = outs \o rest
      BY <1>1, <1>6, <2>1 DEF rest
    <3>. QED  BY <1>4, <1>5, <3>1
  <2>2. CASE c # b
    BY <1>1, <1>6, <2>2 DEF WalletBounds
  <2>. QED  BY <2>1, <2>2
<1>. QED  BY <1>2, <1>7 DEF WalletBounds, Cellar, FewCells

(* A build that is no more than it was, and no new cell.                   *)
LEMMA BoundsStay ==
    ASSUME WalletBounds, cells' = cells, Len(spends') = Len(spends), walletFaults' \in 0..MaxWalletFaults,
           \A b \in Builds : \/ build'[b].ins = build[b].ins /\ build'[b].outs = build[b].outs
                             \/ build'[b] = IdleBuild
    PROVE  WalletBounds'
<1>1. \A b \in Builds : build'[b].ins \subseteq Cellar /\ FewCells(build'[b].outs, 3)
  BY DEF WalletBounds, FewCells, IdleBuild
<1>. QED  BY <1>1 DEF WalletBounds, FewCells, Cellar

(* The node takes a transaction: at most three new cells.                  *)
LEMMA TakenBounds ==
    ASSUME WalletTyped, BuildsAreSound, WalletBounds, NEW b \in Builds, build[b].at = "signed", Taken(b),
           Len(spends) < MaxSpends, walletFaults' \in 0..MaxWalletFaults,
           \A c \in Builds : \/ build'[c].ins = build[c].ins /\ build'[c].outs = build[c].outs
                             \/ build'[c] = IdleBuild
    PROVE  WalletBounds'
<1>1. /\ Len(cells') = Len(cells) + Len(build[b].outs) /\ Len(cells') \in Nat
      /\ Len(cells) \in Nat /\ Len(cells) >= 3 /\ Len(build[b].outs) \in Nat
      /\ \A c \in Cellar : cells'[c] = cells[c]
      /\ \A c : c \in NewIds(build[b].outs) <=> c \in Cellar' /\ c \notin Cellar
      /\ \A c \in NewIds(build[b].outs) : \E k \in DOMAIN build[b].outs : cells'[c] = build[b].outs[k]
      /\ Cellar \subseteq Cellar' /\ cells' \in Seq(CellType)
      /\ Len(spends') = Len(spends) + 1 /\ Len(spends) \in Nat
  BY TakenFacts, TypedFacts DEF BuildType, WalletTyped
<1>2. Len(build[b].outs) <= 3 /\ \A k \in DOMAIN build[b].outs : build[b].outs[k].cap \in 1..LargestCap
  BY DEF WalletBounds, FewCells
<1>3. \A c \in Cellar' : cells'[c].cap \in 1..LargestCap
  <2>1. \A c \in Cellar : cells[c].cap \in 1..LargestCap
    BY TypedFacts DEF WalletBounds, FewCells
  <2>. QED  BY <1>1, <1>2, <2>1
<1>4. FewCells(cells', 3 + 3 * Len(spends'))
  <2>1. Len(cells) <= 3 + 3 * Len(spends)
    BY DEF WalletBounds, FewCells
  <2>2. Len(cells') <= 3 + 3 * Len(spends')
    BY <1>1, <1>2, <2>1
  <2>3. DOMAIN cells' = Cellar'
    BY <1>1 DEF Cellar
  <2>. QED  BY <1>3, <2>2, <2>3 DEF FewCells
<1>5. \A c \in Builds : build'[c].ins \subseteq Cellar' /\ FewCells(build'[c].outs, 3)
  <2>1. IdleBuild.ins = {} /\ FewCells(IdleBuild.outs, 3)
    BY DEF FewCells, IdleBuild
  <2>2. \A c \in Builds : build[c].ins \subseteq Cellar /\ FewCells(build[c].outs, 3)
    BY DEF WalletBounds
  <2>. QED  BY <1>1, <2>1, <2>2
<1>6. cells'[1] = cells[1] /\ cells'[2] = cells[2] /\ cells'[3] = cells[3]
  <2>1. {1, 2, 3} \subseteq Cellar
    BY <1>1 DEF Cellar
  <2>. QED  BY <1>1, <2>1
<1>7. Len(spends') <= MaxSpends
  BY <1>1
<1>. QED  BY <1>4, <1>5, <1>6, <1>7 DEF WalletBounds, Cellar

LEMMA BuiltBounds ==
    ASSUME WalletInv, WalletBounds, NEW b \in Builds,
           \/ BuildCreateProfileTx(b) \/ BuildRotateProfileTx(b) \/ BuildSendMessageTx(b)
           \/ BuildDeployDataCellTx(b) \/ BuildDataCellsTx(b) \/ BuildTransferTx(b)
           \/ BuildReclaimTx(b) \/ BuildConsolidateTx(b)
    PROVE  WalletBounds'
<1>0. {} \in SUBSET OwnLive /\ LargestCap = 19
  BY DEF LargestCap, FirstWorth, CapacityMargin
<1>1. ASSUME NEW c \in CellType, c.cap \in 1..LargestCap PROVE <<c>> \in Seq(CellType) /\ FewCells(<<c>>, 2)
  BY <1>1 DEF FewCells
<1>2. ASSUME NEW kind, NEW c \in CellType, c.cap \in 1..LargestCap, Complete(b, kind, {}, <<c>>) PROVE WalletBounds'
  <2>1. <<c>> \in Seq(CellType) /\ FewCells(<<c>>, 2)
    BY <1>1, <1>2
  <2>. QED  BY <1>0, <1>2, <2>1, CompleteBounds
<1>3. \A kind \in {"profile", "message", "data"} : Sized(kind) \in CellType /\ Sized(kind).cap \in 1..LargestCap
  BY <1>0 DEF Sized, Cell, CellType, CellKinds, Occupied, CapacityMargin
<1>4. CASE BuildCreateProfileTx(b)
  BY <1>2, <1>3, <1>4 DEF BuildCreateProfileTx
<1>5. CASE BuildSendMessageTx(b)
  <2>1. PICK kind : Complete(b, kind, {}, <<Sized("message")>>)
    BY <1>5 DEF BuildSendMessageTx
  <2>. QED  BY <1>2, <1>3, <2>1
<1>6. CASE BuildDeployDataCellTx(b)
  BY <1>2, <1>3, <1>6 DEF BuildDeployDataCellTx
<1>7. CASE BuildDataCellsTx(b)
  <2>1. PICK n \in 1..2 : Complete(b, "data", {}, [k \in 1..n |-> Sized("data")])
    BY <1>7 DEF BuildDataCellsTx
  <2>. DEFINE outs == [k \in 1..n |-> Sized("data")]
  <2>2. outs \in Seq(CellType) /\ FewCells(outs, 2)
    <3>1. n \in Nat /\ n <= 2
      OBVIOUS
    <3>. QED  BY <1>3, <3>1 DEF FewCells
  <2>. HIDE DEF outs
  <2>3. Complete(b, "data", {}, outs)
    BY <2>1 DEF outs
  <2>. QED  BY <1>0, <2>2, <2>3, CompleteBounds
<1>8. CASE BuildTransferTx(b)
  <2>1. Complete(b, "transfer", {}, <<Cell("foreign", 2)>>)
    BY <1>8 DEF BuildTransferTx
  <2>2. Cell("foreign", 2) \in CellType /\ Cell("foreign", 2).cap \in 1..LargestCap
    BY <1>0 DEF Cell, CellType, CellKinds
  <2>. QED  BY <1>2, <2>1, <2>2
<1>9. ASSUME NEW kind, NEW given \in SUBSET OwnLive, Complete(b, kind, given, <<>>) PROVE WalletBounds'
  <2>1. << >> \in Seq(CellType) /\ FewCells(<< >>, 2)
    BY DEF FewCells
  <2>. QED  BY <1>9, <2>1, CompleteBounds
<1>10. CASE BuildReclaimTx(b)
  BY <1>9, <1>10 DEF BuildReclaimTx
<1>11. CASE BuildConsolidateTx(b)
  <2>1. PICK given \in SUBSET Consolidated : Complete(b, "consolidate", given, <<>>)
    BY <1>11 DEF BuildConsolidateTx
  <2>2. given \in SUBSET OwnLive
    BY DEF Consolidated
  <2>. QED  BY <1>9, <2>1, <2>2
<1>12. CASE BuildRotateProfileTx(b)
  <2>1. PICK old \in OwnLive : Complete(b, "rotate", {old}, <<RotatedCell(old)>>)
    BY <1>12 DEF BuildRotateProfileTx
  <2>. DEFINE c == RotatedCell(old)
              cap == cells[old].cap
  <2>2. cap \in Nat /\ cap <= 18
    BY OwnCellsAreSmall DEF FirstWorth
  <2>3. Max({5, cap}) \in Nat /\ Max({5, cap}) <= 18
    <3>. HIDE DEF cap
    <3>1. \E x \in {5, cap} : \A y \in {5, cap} : x >= y
      <4>1. CASE cap >= 5
        BY <2>2, <4>1
      <4>2. CASE ~ (cap >= 5)
        BY <2>2, <4>2
      <4>. QED  BY <4>1, <4>2
    <3>2. Max({5, cap}) \in {5, cap}
      BY <3>1 DEF Max
    <3>. QED  BY <2>2, <3>2
  <2>4. c \in CellType /\ c.cap \in 1..LargestCap
    <3>1. c = Cell("rotated", Max({5, cap}) + 1)
      BY DEF RotatedCell, Occupied, CapacityMargin
    <3>2. Max({5, cap}) + 1 \in 1..19
      BY <2>3
    <3>. QED  BY <1>0, <3>1, <3>2 DEF Cell, CellType, CellKinds
  <2>. HIDE DEF c
  <2>5. <<c>> \in Seq(CellType) /\ FewCells(<<c>>, 2)
    BY <1>1, <2>4
  <2>6. Complete(b, "rotate", {old}, <<c>>) /\ {old} \in SUBSET OwnLive
    BY <2>1 DEF c
  <2>. QED  BY <2>5, <2>6, CompleteBounds
<1>. QED  BY <1>4, <1>5, <1>6, <1>7, <1>8, <1>10, <1>11, <1>12

LEMMA WalletBoundsStep ==
    ASSUME WalletInv, WalletBounds, [WalletNext]_walletVars
    PROVE  WalletBounds'
<1>0. /\ WalletTyped /\ BuildsAreSound /\ walletFaults \in 0..MaxWalletFaults
      /\ build \in [Builds -> BuildType]
  BY DEF WalletInv, WalletTyped, WalletBounds
<1>1. CASE UNCHANGED walletVars
  BY <1>0, <1>1, BoundsStay DEF walletVars
<1>2. ASSUME NEW t \in DOMAIN spends, CommitTx(t) \/ EvictTx(t) PROVE WalletBounds'
  <2>1. cells' = cells /\ build' = build /\ walletFaults' \in 0..MaxWalletFaults
    BY <1>0, <1>2 DEF CommitTx, EvictTx, WalletFault
  <2>2. Len(spends') = Len(spends)
    <3>1. CASE CommitTx(t)
      BY <3>1 DEF CommitTx, WalletInv, WalletTyped
    <3>2. CASE EvictTx(t)
      <4>1. DOMAIN spends' = 1..Len(spends) /\ Len(spends) \in Nat
        BY <1>0, <3>2, TypedFacts DEF EvictTx
      <4>2. spends' = [u \in 1..Len(spends) |-> spends'[u]]
        BY <1>0, <3>2, TypedFacts DEF EvictTx
      <4>. QED  BY <4>1, <4>2
    <3>. QED  BY <1>2, <3>1, <3>2
  <2>. QED  BY <2>1, <2>2, BoundsStay
<1>3. CASE IndexerCatchesUp \/ RestartApp
  BY <1>0, <1>3, BoundsStay DEF IndexerCatchesUp, RestartApp, WalletFault
<1>4. ASSUME NEW b \in Builds, SignTransaction(b) \/ TrackBroadcastSpend(b) \/ GiveUp(b) PROVE WalletBounds'
  <2>1. cells' = cells /\ spends' = spends /\ walletFaults' = walletFaults
    BY <1>4 DEF SignTransaction, TrackBroadcastSpend, GiveUp
  <2>2. \A c \in Builds : \/ build'[c].ins = build[c].ins /\ build'[c].outs = build[c].outs
                          \/ build'[c] = IdleBuild
    <3>1. build' = [build EXCEPT ![b] = IdleBuild] \/ \E at : build' = [build EXCEPT ![b].at = at]
      BY <1>4 DEF SignTransaction, TrackBroadcastSpend, GiveUp
    <3>2. ASSUME NEW at, build' = [build EXCEPT ![b].at = at], NEW c \in Builds
          PROVE  build'[c].ins = build[c].ins /\ build'[c].outs = build[c].outs
      <4>1. build[c] \in BuildType
        BY <1>0
      <4>. QED  BY <1>0, <3>2, <4>1 DEF BuildType
    <3>3. ASSUME build' = [build EXCEPT ![b] = IdleBuild], NEW c \in Builds
          PROVE  build'[c] = build[c] \/ build'[c] = IdleBuild
      BY <1>0, <3>3
    <3>. QED  BY <3>1, <3>2, <3>3
  <2>. QED  BY <1>0, <2>1, <2>2, BoundsStay
<1>5. ASSUME NEW b \in Builds, SendTransaction(b) \/ SendAnswerLost(b) PROVE WalletBounds'
  <2>. DEFINE sent == [build EXCEPT ![b].at = "track"]
              lost == [build EXCEPT ![b] = IdleBuild]
              no == [build EXCEPT ![b].at = "refused"]
  <2>0. IdleBuild \in BuildType /\ build[b] \in BuildType
    BY <1>0 DEF IdleBuild, BuildType, FlowKinds
  <2>1. sent \in [Builds -> BuildType] /\ lost \in [Builds -> BuildType]
    BY <1>0, <2>0 DEF BuildType
  <2>2. \A c \in Builds : /\ sent[c].ins = build[c].ins /\ sent[c].outs = build[c].outs
                          /\ no[c].ins = build[c].ins /\ no[c].outs = build[c].outs
                          /\ lost[c] = build[c] \/ lost[c] = IdleBuild
    BY <1>0, <2>0 DEF BuildType
  <2>. HIDE DEF sent, lost, no
  <2>3. \A c \in Builds : Overtaken(sent)[c].ins = build[c].ins /\ Overtaken(sent)[c].outs = build[c].outs
    BY <2>1, <2>2, OvertakenFacts
  <2>4. \A c \in Builds : \/ Overtaken(lost)[c].ins = build[c].ins /\ Overtaken(lost)[c].outs = build[c].outs
                          \/ Overtaken(lost)[c] = IdleBuild
    <3>. SUFFICES ASSUME NEW c \in Builds
                  PROVE  \/ Overtaken(lost)[c].ins = build[c].ins /\ Overtaken(lost)[c].outs = build[c].outs
                         \/ Overtaken(lost)[c] = IdleBuild
      OBVIOUS
    <3>1. CASE lost[c] = build[c]
      BY <2>1, <3>1, OvertakenFacts
    <3>2. CASE lost[c] = IdleBuild
      BY <3>2 DEF Overtaken, IdleBuild
    <3>. QED  BY <2>2, <3>1, <3>2
  <2>5. CASE SendAnswerLost(b)
    <3>1. Taken(b) /\ build[b].at = "signed" /\ Len(spends) < MaxSpends /\ build' = Overtaken(lost)
          /\ walletFaults' \in 0..MaxWalletFaults
      BY <1>0, <2>5 DEF SendAnswerLost, WalletFault, lost
    <3>. QED  BY <1>0, <2>4, <3>1, TakenBounds
  <2>6. CASE SendTransaction(b) /\ TakenByNode(build[b].ins) /\ Len(spends) < MaxSpends
    <3>1. Taken(b) /\ build[b].at = "signed" /\ build' = Overtaken(sent) /\ walletFaults' = walletFaults
      BY <2>6 DEF SendTransaction, sent
    <3>. QED  BY <1>0, <2>3, <2>6, <3>1, TakenBounds
  <2>7. CASE SendTransaction(b) /\ ~ (TakenByNode(build[b].ins) /\ Len(spends) < MaxSpends)
    <3>1. build' = no /\ cells' = cells /\ spends' = spends /\ walletFaults' = walletFaults
      BY <2>7 DEF SendTransaction, no
    <3>. QED  BY <1>0, <2>2, <3>1, BoundsStay
  <2>. QED  BY <1>5, <2>5, <2>6, <2>7
<1>. QED  BY <1>1, <1>2, <1>3, <1>4, <1>5, BuiltBounds DEF WalletNext

-----------------------------------------------------------------------------
(* Side by side: a behaviour moves one component, the others rest.         *)

LEMMA OneMoves ==
    [ForegroundNext]_foregroundVars =>
        /\ mover' = mover /\ [Next]_vars
        /\ [LedgerNext]_capacityVars /\ [WalletNext]_walletVars /\ [RelayNext]_relayVars
        /\ [LimitNext]_limitVars /\ [EndpointNext]_endpointVars /\ [VaultFileNext]_vaultFileVars
BY DEF ForegroundNext, foregroundVars

(* In the app as a whole the spends are taken and keep their flow, and the *)
(* ledger claims no more than there is (signing.ts:413-439,                *)
(* balances.ts:74-176).                                                    *)
THEOREM TheCapacityIsKept == ForegroundSpec => []CapacityIsKept
<1>1. ForegroundInit => LedgerInv /\ WalletInv
  BY LedgerStarts, WalletStarts DEF ForegroundInit
<1>2. LedgerInv /\ WalletInv /\ [ForegroundNext]_foregroundVars => LedgerInv' /\ WalletInv'
  <2>1. LedgerInv /\ [LedgerNext]_capacityVars => LedgerInv'
    BY LedgerStep
  <2>2. WalletInv /\ [WalletNext]_walletVars => WalletInv'
    BY WalletStep, WalletStutters
  <2>. QED  BY <2>1, <2>2, OneMoves
<1>3. LedgerInv => LedgerAddsUp
  BY LedgerInvImplies
<1>4. WalletInv => SpendsAreTaken
  BY BooksSayWhatIsTrue
<1>. QED  BY <1>1, <1>2, <1>3, <1>4, PTL DEF ForegroundSpec, CapacityIsKept

(* In the app as a whole no row of the gateway that can still be asked for *)
(* is passed over by the cursor (transport.ts:120-127), and the endpoint   *)
(* in use is the one a restart finds (endpoints.ts:36-90).                 *)
THEOREM TheTransportsHold == ForegroundSpec => []TransportsHold
<1>1. ForegroundInit => RelayInv /\ RotatorInv
  BY RelayStarts, RotatorStarts DEF ForegroundInit
<1>2. RelayInv /\ RotatorInv /\ [ForegroundNext]_foregroundVars => RelayInv' /\ RotatorInv'
  BY RelayStep, RotatorNext, OneMoves
<1>3. RelayInv => NothingPassedOver
  BY RelayInvImplies
<1>4. RotatorInv => ChoiceHolds
  BY DEF RotatorInv, StreakIsCounted, ChoiceIsKept, ChoiceHolds, RestartKeepsTheChoice, Kept
<1>. QED  BY <1>1, <1>2, <1>3, <1>4, PTL DEF ForegroundSpec, TransportsHold

(* In the app as a whole the rate limits hold (rate-limit.ts:55-79) and    *)
(* the stored vault file opens and was never sealed from damage            *)
(* (vault.ts:522-636), whatever else goes on.                              *)
THEOREM TheLimitsAndTheVaultHold == ForegroundSpec => [](LimitsHold /\ VaultFileIsSound)
<1>1. ForegroundInit => LimitInv /\ VaultInv
  BY LimitInvFirst, VaultInvStarts DEF ForegroundInit
<1>2. LimitInv /\ VaultInv /\ [ForegroundNext]_foregroundVars => LimitInv' /\ VaultInv'
  BY LimitInvStep, VaultInvHolds, OneMoves
<1>3. LimitInv => LimitsHold
  BY LimitInvShows
<1>4. VaultInv => VaultFileIsSound
  BY VaultInvSuffices
<1>. QED  BY <1>1, <1>2, <1>3, <1>4, PTL DEF ForegroundSpec

(* What every component keeps, with the bounds its types state.            *)
ForegroundInv ==
    /\ mover \in Movers /\ Sound
    /\ WalletInv /\ WalletBounds /\ LedgerInv /\ LedgerBounds
    /\ RelayInv /\ LimitInv /\ LimitBounds
    /\ RotatorInv /\ StreakIsBounded /\ VaultInv /\ VaultBounds

LEMMA ForegroundStarts == ForegroundInit => ForegroundInv
<1>. SUFFICES ASSUME ForegroundInit PROVE ForegroundInv
  OBVIOUS
<1>1. Sound /\ RelayInv
  BY InitSound, RelayStarts DEF ForegroundInit
<1>2. WalletInv /\ WalletBounds /\ LedgerInv /\ LedgerBounds
  BY WalletStarts, WalletBoundsFirst, LedgerStarts, LedgerBoundsFirst DEF ForegroundInit
<1>3. LimitInv /\ LimitBounds
  BY LimitInvFirst, LimitBoundsFirst DEF ForegroundInit
<1>4. RotatorInv /\ StreakIsBounded
  BY RotatorStarts, StreakStarts DEF ForegroundInit
<1>5. VaultInv /\ VaultBounds
  BY VaultInvStarts, VaultBoundsFirst DEF ForegroundInit
<1>. QED  BY <1>1, <1>2, <1>3, <1>4, <1>5 DEF ForegroundInv, ForegroundInit

LEMMA ForegroundStays == ForegroundInv /\ [ForegroundNext]_foregroundVars => ForegroundInv'
<1>. SUFFICES ASSUME ForegroundInv, [ForegroundNext]_foregroundVars PROVE ForegroundInv'
  OBVIOUS
<1>0. /\ mover' = mover /\ [Next]_vars
      /\ [LedgerNext]_capacityVars /\ [WalletNext]_walletVars /\ [RelayNext]_relayVars
      /\ [LimitNext]_limitVars /\ [EndpointNext]_endpointVars /\ [VaultFileNext]_vaultFileVars
  BY OneMoves
<1>1. Sound' /\ RelayInv'
  BY <1>0, SoundStays, RelayStep DEF ForegroundInv
<1>2. WalletInv' /\ WalletBounds'
  BY <1>0, WalletStep, WalletStutters, WalletBoundsStep DEF ForegroundInv
<1>3. LedgerInv' /\ LedgerBounds'
  BY <1>0, LedgerStep, LedgerBoundsStep DEF ForegroundInv
<1>4. LimitInv' /\ LimitBounds'
  <2>1. LimitTyped /\ CallsAreSound
    BY DEF ForegroundInv, LimitInv
  <2>. QED  BY <1>0, <2>1, LimitInvStep, LimitBoundsStep, LimitBoundsStay DEF ForegroundInv
<1>5. RotatorInv' /\ StreakIsBounded'
  BY <1>0, RotatorNext, StreakStays DEF ForegroundInv
<1>6. VaultInv' /\ VaultBounds'
  BY <1>0, VaultInvHolds, VaultBoundsStep DEF ForegroundInv
<1>. QED  BY <1>0, <1>1, <1>2, <1>3, <1>4, <1>5, <1>6 DEF ForegroundInv

(* Every variable of what goes on while the app is unlocked stays in its   *)
(* type and within the bounds it names: no table is asked for what it does *)
(* not have, no bucket holds more than its rate (rate-limit.ts:55-79), no  *)
(* streak outlasts its endpoint (endpoints.ts:36-90), no cell holds more   *)
(* than the wallet began with and the margin of a rotated profile          *)
(* (builders.ts:236-343), and what is sealed is sealed under the costs a   *)
(* new vault gets (vault.ts:522-636).                                      *)
THEOREM TheForegroundIsTyped == ForegroundSpec => []ForegroundTypeOK
<1>1. ForegroundInv => ForegroundTypeOK
  <2>. SUFFICES ASSUME ForegroundInv PROVE ForegroundTypeOK
    OBVIOUS
  <2>1. TypeOK
    BY DEF ForegroundInv, Sound, Bound
  <2>2. WalletTypeOK /\ LedgerTypeOK
    BY WalletTypes, LedgerTypes DEF ForegroundInv, WalletInv
  <2>3. RelayTypeOK /\ LimitTypeOK
    BY RelayInvImplies, LimitTypes DEF ForegroundInv, LimitInv
  <2>4. EndpointTypeOK /\ VaultFileTypeOK
    BY RotatorTypes, VaultTypes DEF ForegroundInv
  <2>5. mover \in Movers
    BY DEF ForegroundInv
  <2>. QED  BY <2>1, <2>2, <2>3, <2>4, <2>5 DEF ForegroundTypeOK, Movers
<1>. QED  BY <1>1, ForegroundStarts, ForegroundStays, PTL DEF ForegroundSpec
=============================================================================
