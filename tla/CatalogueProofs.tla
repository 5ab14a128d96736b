--------------------------- MODULE CatalogueProofs ---------------------------
(***************************************************************************)
(* Proofs about Catalogue, for every set of items, codes, prices and       *)
(* clients, every length of a barcode and every number of attempts.        *)
(*                                                                         *)
(* Each property is about rows at rest and hangs on what a request carries *)
(* between its look and its write: a barcode no other row has unless its   *)
(* item is rushed (Clear, Apart), a barcode made from the cost it is       *)
(* written with (CostsCarried), a stock and a level that agree             *)
(* (StockCarried).                                                         *)
(***************************************************************************)
EXTENDS Catalogue, WellFoundedInduction, TLAPS

Of(c) == request[c].item

(* c is going to write barcode NewBarcode(c) to its item. *)
Writes(c) ==
    \/ request[c].is \in {"insert", "assign"}
    \/ request[c].is = "write" /\ request[c].barcode # None
NewBarcode(c) == IF request[c].is = "insert" THEN request[c].row.barcode ELSE request[c].barcode

(* What requests refer to is there; what is being created is not. *)
Inserts ==
    \A c \in Clients : request[c].is = "insert" =>
        /\ items[Of(c)] = None
        /\ \A d \in Clients \ {c} : request[d].is = "insert" => Of(d) # Of(c)
Refers ==
    \A c \in Clients :
        /\ request[c].is \in {"form", "write", "assign", "fix"} => items[Of(c)] # None
        /\ request[c].is = "bulk" => \A i \in DOMAIN request[c].todo : items[i] # None
        /\ request[c].is \in {"verify", "fix"} => \A i \in DOMAIN request[c].actual : items[i] # None

(* Of two requests about to write barcodes the later one is rushed. *)
Apart ==
    \A c, d \in Clients : c # d /\ Writes(c) /\ Writes(d) => {Of(c), Of(d)} \cap rushed # {}

(* A barcode found free stays free of the other items, but for rushed ones *)
(* and those of the bulk run.                                              *)
Clear ==
    \A c \in Clients :
        (Writes(c) /\ Of(c) \notin rushed /\ ~request[c].exhausted) =>
            \A j \in Items \ ({Of(c)} \cup rushed \cup bulked) :
                Live(j) => items[j].barcode # NewBarcode(c)

Sound == Items \ (rushed \cup bulked \cup spent)
Unique ==
    \A i, j \in Sound :
        i # j /\ Live(i) /\ Live(j) /\ items[i].barcode # None => items[i].barcode # items[j].barcode

(* The cost a request writes is the one its barcode is made from; an item  *)
(* without a cost price is noted before it is given one.                   *)
CarriesCost(r, noted) ==
    /\ r.is = "insert" => r.row.barcode.cost = EncodeCostSuffix(r.row.cost)
    /\ r.is = "write" =>
         /\ r.barcode # None => r.barcode.cost = EncodeCostSuffix(r.cost)
         /\ r.barcode = None /\ r.read.cost > 0 => r.cost = r.read.cost
         /\ r.read.cost = 0 => r.item \in noted
    /\ r.is = "assign" =>
         (r.cost > 0 => r.barcode.cost = EncodeCostSuffix(r.cost))
CostsCarried == \A c \in Clients : CarriesCost(request[c], uncosted)

ShowsCost(row) ==
    (row.barcode # None /\ row.cost > 0) => row.barcode.cost = EncodeCostSuffix(row.cost)
Costed ==
    \A i \in Items \ (crossed \cup uncosted) : items[i] # None => ShowsCost(items[i])

StockCarried == \A c \in Clients : request[c].is = "insert" => request[c].row.stock = request[c].row.level
Stocked == \A i \in Items \ fixed : items[i] # None => items[i].stock = items[i].level

IInv ==
    /\ TypeOK /\ Inserts /\ Refers
    /\ Apart /\ Clear /\ Unique
    /\ CostsCarried /\ Costed
    /\ StockCarried /\ Stocked

-----------------------------------------------------------------------------
(* The barcode that is looked for.                                         *)

LEMMA LeastNumber ==
  ASSUME NEW S \in SUBSET Nat, S # {}
  PROVE  Min(S) \in S
<1>1. \E x \in S : \A y \in S : ~(<<y, x>> \in OpToRel(<, Nat))
  BY NatLessThanWellFounded, WFMin
<1>2. \E x \in S : \A y \in S : x =< y
  <2>1. PICK x \in S : \A y \in S : ~(<<y, x>> \in OpToRel(<, Nat))
    BY <1>1
  <2>2. ASSUME NEW y \in S PROVE x =< y
    <3>1. ~(<<y, x>> \in {ss \in Nat \X Nat : ss[1] < ss[2]})
      BY <2>1 DEF OpToRel
    <3>2. ~(y < x)
      BY <3>1
    <3> QED
      BY <3>2
  <2> QED
    BY <2>2
<1> QED
  BY <1>2 DEF Min

LEMMA PrefixType ==
  ASSUME NEW digits \in Seq(Nat)
  PROVE  Prefix(digits) \in [1..PrefixDigits -> Nat]
BY DEF Prefix

LEMMA BuildType ==
  ASSUME NEW prefix \in [1..PrefixDigits -> Nat], NEW cost \in Nat
  PROVE  /\ BuildItemBarcode(prefix, cost) \in Barcodes
         /\ BuildItemBarcode(prefix, cost) # None
         /\ BuildItemBarcode(prefix, cost).cost = EncodeCostSuffix(cost)
BY NumbersAssumption, NoneAssumption DEF BuildItemBarcode, EncodeCostSuffix, Barcodes

(* A barcode that came of a search is free unless the search gave up. *)
LEMMA Generated ==
  ASSUME NEW code \in Seq(Nat), NEW id \in Seq(Nat), NEW cost \in Nat,
         NEW keep \in [1..PrefixDigits -> Nat] \cup {None}, NEW but
  PROVE  /\ GenerateUniqueBarcode(code, id, cost, keep, but) \in Barcodes
         /\ GenerateUniqueBarcode(code, id, cost, keep, but) # None
         /\ GenerateUniqueBarcode(code, id, cost, keep, but).cost = EncodeCostSuffix(cost)
         /\ ~Exhausted(code, cost, keep, but) =>
              ~Taken(GenerateUniqueBarcode(code, id, cost, keep, but), but)
<1>1. ASSUME NEW n \in Nat
      PROVE  Candidate(code, n, keep) \in [1..PrefixDigits -> Nat]
  <2>1. Append(code, n) \in Seq(Nat)
    OBVIOUS
  <2>2. Prefix(Append(code, n)) \in [1..PrefixDigits -> Nat]
    BY <2>1, PrefixType
  <2>3. Prefix(code) \in [1..PrefixDigits -> Nat]
    BY PrefixType
  <2> QED
    BY <2>2, <2>3 DEF Candidate
<1>2. Prefix(id) \in [1..PrefixDigits -> Nat]
  BY PrefixType
<1>3. Free(code, cost, keep, but) \in SUBSET Nat
  BY NumbersAssumption DEF Free
<1>4. CASE Free(code, cost, keep, but) = {}
  BY <1>2, <1>4, BuildType DEF GenerateUniqueBarcode, Exhausted
<1>5. CASE Free(code, cost, keep, but) # {}
  <2> DEFINE n == Min(Free(code, cost, keep, but))
  <2>1. n \in Free(code, cost, keep, but)
    BY <1>3, <1>5, LeastNumber
  <2>2. n \in Nat
    BY <2>1, <1>3
  <2>3. ~Taken(BuildItemBarcode(Candidate(code, n, keep), cost), but)
    BY <2>1 DEF Free
  <2> HIDE DEF n
  <2>4. GenerateUniqueBarcode(code, id, cost, keep, but)
          = BuildItemBarcode(Candidate(code, n, keep), cost)
    BY <1>5 DEF GenerateUniqueBarcode, n
  <2> QED
    BY <2>2, <2>3, <2>4, <1>1, BuildType
<1> QED
  BY <1>4, <1>5

LEMMA RowFields ==
  ASSUME TypeOK, NEW i \in Items, items[i] # None
  PROVE  /\ items[i] \in ItemRow
         /\ items[i].code \in Seq(Nat) /\ Digits[i] \in Seq(Nat)
         /\ items[i].cost \in Costs /\ CurrentCost(i) \in Costs /\ CurrentCost(i) \in Nat
         /\ KeptPrefix(i) \in [1..PrefixDigits -> Nat] \cup {None}
<1>1. items[i] \in ItemRow
  BY DEF TypeOK
<1>2. items[i].barcode \in Barcodes \cup {None}
  BY <1>1 DEF ItemRow
<1>3. KeptPrefix(i) \in [1..PrefixDigits -> Nat] \cup {None}
  BY <1>2 DEF KeptPrefix, Barcodes
<1> QED
  BY <1>1, <1>3, CodesAssumption, NumbersAssumption DEF ItemRow, CurrentCost

(* What is found for an item there is. *)
LEMMA Found ==
  ASSUME TypeOK, NEW i \in Items, Live(i), NEW code \in Seq(Nat), NEW cost \in Nat
  PROVE  LET b == GenerateUniqueBarcode(code, Digits[i], cost, KeptPrefix(i), {i})
         IN  /\ b \in Barcodes
             /\ b # None
             /\ b.cost = EncodeCostSuffix(cost)
             /\ ~Exhausted(code, cost, KeptPrefix(i), {i}) =>
                  \A j \in Items \ {i} : Live(j) => items[j].barcode # b
<1>1. items[i] # None
  BY DEF Live
<1>2. /\ Digits[i] \in Seq(Nat)
      /\ KeptPrefix(i) \in [1..PrefixDigits -> Nat] \cup {None}
  BY <1>1, RowFields
<1> DEFINE b == GenerateUniqueBarcode(code, Digits[i], cost, KeptPrefix(i), {i})
<1>3. /\ b \in Barcodes
      /\ b # None
      /\ b.cost = EncodeCostSuffix(cost)
      /\ ~Exhausted(code, cost, KeptPrefix(i), {i}) => ~Taken(b, {i})
  BY <1>2, Generated
<1>4. ~Taken(b, {i}) => \A j \in Items \ {i} : Live(j) => items[j].barcode # b
  BY DEF Taken, LiveItems
<1> QED
  BY <1>3, <1>4

-----------------------------------------------------------------------------
(* Types.                                                                  *)

LEMMA Fields ==
  ASSUME TypeOK, NEW c \in Clients
  PROVE  /\ request[c] = Idle \/ request[c].is \in
              {"form", "insert", "write", "assign", "bulk", "verify", "fix"}
         /\ request[c] = Idle => request[c].is = "idle"
         /\ request[c].is \in {"form", "insert", "write", "assign", "fix"} => Of(c) \in Items
         /\ request[c].is = "form" => request[c].purchase \in Costs
         /\ request[c].is = "insert" => /\ request[c].row \in ItemRow
                                        /\ request[c].exhausted \in BOOLEAN
         /\ request[c].is = "write" => /\ request[c].code \in Codes
                                       /\ request[c].cost \in Costs
                                       /\ request[c].purchase \in Costs
                                       /\ request[c].barcode \in Barcodes \cup {None}
                                       /\ request[c].read \in ItemRow
                                       /\ request[c].exhausted \in BOOLEAN
         /\ request[c].is = "assign" => /\ request[c].cost \in Costs
                                        /\ request[c].barcode \in Barcodes
                                        /\ request[c].exhausted \in BOOLEAN
         /\ request[c].is = "bulk" => /\ DOMAIN request[c].todo \subseteq Items
                                      /\ request[c].todo \in [DOMAIN request[c].todo -> Costs]
         /\ request[c].is \in {"verify", "fix"} =>
              /\ DOMAIN request[c].actual \subseteq Items
              /\ request[c].actual \in [DOMAIN request[c].actual -> Int]
         /\ request[c].is = "fix" => /\ request[c].expected \in Int
                                     /\ Of(c) \in DOMAIN request[c].actual
<1>1. PICK D \in SUBSET Items : request[c] \in Request(D)
  BY DEF TypeOK
<1>2. CASE request[c] = Idle
  BY <1>2 DEF Idle
<1>3. CASE request[c] \in [is : {"form"}, item : Items, purchase : Costs]
  BY <1>3 DEF Of, Idle
<1>4. CASE request[c] \in [is : {"insert"}, item : Items, row : ItemRow, exhausted : BOOLEAN]
  BY <1>4 DEF Of, Idle
<1>5. CASE request[c] \in [is : {"write"}, item : Items, code : Codes, cost : Costs, purchase : Costs,
                           barcode : Barcodes \cup {None}, read : ItemRow, exhausted : BOOLEAN]
  BY <1>5 DEF Of, Idle
<1>6. CASE request[c] \in [is : {"assign"}, item : Items, cost : Costs, barcode : Barcodes,
                           exhausted : BOOLEAN]
  BY <1>6 DEF Of, Idle
<1>7. CASE request[c] \in [is : {"bulk"}, todo : [D -> Costs]]
  BY <1>7 DEF Of, Idle
<1>8. CASE request[c] \in [is : {"verify"}, actual : [D -> Int]]
  BY <1>8 DEF Of, Idle
<1>9. CASE request[c] \in [is : {"fix"}, actual : [D -> Int], item : D, expected : Int]
  BY <1>9 DEF Of, Idle
<1> QED
  BY <1>1, <1>2, <1>3, <1>4, <1>5, <1>6, <1>7, <1>8, <1>9 DEF Request

(* The steps, an import being a creation. *)
LEMMA Steps ==
  ASSUME Next
  PROVE  \/ \E c \in Clients :
              \/ \E i \in Items, name \in Names, code \in Codes, cost \in Costs, opening \in Int :
                   Create(c, i, name, code, cost, opening)
              \/ Insert(c)
              \/ \E i \in Items : OpenEdit(c, i)
              \/ CloseEdit(c) \/ WriteRefused(c)
              \/ \E code \in Codes, cost \in Costs : Save(c, code, cost)
              \/ Write(c)
              \/ \E i \in Items : AssignBarcode(c, i) \/ BulkWrite(c, i) \/ Compare(c, i)
              \/ Assign(c) \/ BulkGenerateBarcodes(c) \/ VerifyData(c) \/ Fix(c)
         \/ \E i \in Items : \/ Remove(i)
                             \/ \E price \in Costs : SyncItemPurchasePrices(i, price)
                             \/ \E qty \in Int : AdjustStock(i, qty)
<1>1. \A q \in Quantities : q \in Int /\ -q \in Int
  BY NumbersAssumption
<1>2. 0 \in Costs
  BY NumbersAssumption
<1>3. ASSUME NEW c \in Clients, NEW i \in Items, NEW name \in Names, NEW code \in Codes,
             Import(c, i, name, code)
      PROVE  Create(c, i, name, code, 0, 0)
  BY <1>3 DEF Import
<1> QED
  BY <1>1, <1>2, <1>3 DEF Next, Step

(* A request changes as it should when its new form is one. *)
LEMMA RequestSet ==
  ASSUME TypeOK, NEW c \in Clients, NEW r, NEW D \in SUBSET Items, r \in Request(D),
         request' = [request EXCEPT ![c] = r]
  PROVE  /\ DOMAIN request' = Clients
         /\ \A d \in Clients : \E E \in SUBSET Items : request'[d] \in Request(E)
BY DEF TypeOK

LEMMA AskType ==
  ASSUME TypeOK, Ask
  PROVE  left' \in 0..MaxRequests
BY NumbersAssumption DEF TypeOK, Ask

LEMMA NewItemType ==
  ASSUME NEW name \in Names, NEW code \in Codes, NEW cost \in Costs, NEW purchase \in Costs,
         NEW stock \in Int
  PROVE  NewItem(name, code, cost, purchase, stock) \in ItemRow
BY DEF NewItem, ItemRow

LEMMA InitType == Init => TypeOK
<1> SUFFICES ASSUME Init PROVE TypeOK
  OBVIOUS
<1>1. (CHOOSE n \in Names : TRUE) \in Names
  BY CodesAssumption
<1>2. \A i \in Legacy : NewItem(CHOOSE n \in Names : TRUE, LegacyCode[i], 1, 1, 0) \in ItemRow
  BY <1>1, NewItemType, CodesAssumption, NumbersAssumption
<1>3. items \in [Items -> ItemRow \cup {None}]
  BY <1>2 DEF Init
<1>4. \A c \in Clients : request[c] \in Request({})
  BY DEF Init, Request
<1> QED
  BY <1>3, <1>4, NumbersAssumption DEF Init, TypeOK

(* No item is ever gone for good. *)
Kept == \A i \in Items : items[i] # None => items'[i] # None

(* A step changes the row of an item, the request of a client, or both. *)
LEMMA RowSet ==
  ASSUME TypeOK, NEW i \in Items, NEW row \in ItemRow, items' = [items EXCEPT ![i] = row]
  PROVE  items' \in [Items -> ItemRow \cup {None}] /\ Kept
BY NoneAssumption DEF TypeOK, Kept

LEMMA IdleType == \A D : Idle \in Request(D)
BY DEF Request

LEMMA TypeStep == TypeOK /\ Refers /\ [Next]_vars => TypeOK' /\ Kept
<1> SUFFICES ASSUME TypeOK, Refers, [Next]_vars PROVE TypeOK' /\ Kept
  OBVIOUS
<1>1. CASE UNCHANGED vars
  BY <1>1 DEF vars, TypeOK, Kept
<1>2. ASSUME NEW c \in Clients, NEW i \in Items, NEW name \in Names, NEW code \in Codes,
             NEW cost \in Costs, NEW opening \in Int, Create(c, i, name, code, cost, opening)
      PROVE  TypeOK' /\ Kept
  <2> DEFINE b == GenerateUniqueBarcode(code, code, cost, None, {})
             r == [is |-> "insert", item |-> i,
                   row |-> [NewItem(name, code, cost, cost, opening) EXCEPT !.barcode = b],
                   exhausted |-> Exhausted(code, cost, None, {})]
  <2>1. b \in Barcodes
    BY Generated, CodesAssumption, NumbersAssumption
  <2>2. NewItem(name, code, cost, cost, opening) \in ItemRow
    BY NewItemType
  <2>3. r.row \in ItemRow /\ r.exhausted \in BOOLEAN
    <3> HIDE DEF b
    <3>1. r.row \in ItemRow
      BY <2>1, <2>2 DEF ItemRow
    <3> QED
      BY <3>1 DEF Exhausted
  <2> HIDE DEF b
  <2>4. r \in [is : {"insert"}, item : Items, row : ItemRow, exhausted : BOOLEAN]
    BY <2>3
  <2>5. r \in Request({})
    BY <2>4 DEF Request
  <2>6. request' = [request EXCEPT ![c] = r] /\ Ask /\ items' = items
    BY <1>2 DEF Create, b
  <2> HIDE DEF r
  <2> QED
    BY <2>5, <2>6, RequestSet, AskType DEF TypeOK, Kept
<1>3. ASSUME NEW c \in Clients, Insert(c) PROVE TypeOK' /\ Kept
  <2>1. request[c].is = "insert" /\ Of(c) \in Items /\ request[c].row \in ItemRow
    BY <1>3, Fields DEF Insert
  <2>2. items' \in [Items -> ItemRow \cup {None}] /\ Kept
    BY <1>3, <2>1, NoneAssumption DEF Insert, TypeOK, Of, Kept
  <2>3. request' = [request EXCEPT ![c] = Idle] /\ left' = left
    BY <1>3 DEF Insert
  <2> QED
    BY <2>2, <2>3, RequestSet, IdleType DEF TypeOK, Kept
<1>4. ASSUME NEW c \in Clients, NEW i \in Items, OpenEdit(c, i) PROVE TypeOK' /\ Kept
  <2> DEFINE r == [is |-> "form", item |-> i, purchase |-> items[i].purchase]
  <2>1. items[i] \in ItemRow
    BY <1>4, RowFields DEF OpenEdit, Live
  <2>2. r \in [is : {"form"}, item : Items, purchase : Costs]
    BY <2>1 DEF ItemRow
  <2>3. r \in Request({})
    BY <2>2 DEF Request
  <2>4. request' = [request EXCEPT ![c] = r] /\ UNCHANGED <<items, left>>
    BY <1>4 DEF OpenEdit
  <2> HIDE DEF r
  <2> QED
    BY <2>3, <2>4, RequestSet DEF TypeOK, Kept
<1>5. ASSUME NEW c \in Clients, CloseEdit(c) \/ WriteRefused(c) PROVE TypeOK' /\ Kept
  BY <1>5, RequestSet, IdleType DEF CloseEdit, WriteRefused, TypeOK, Kept
<1>6. ASSUME NEW c \in Clients, NEW code \in Codes, NEW cost \in Costs, Save(c, code, cost)
      PROVE TypeOK' /\ Kept
  <2> DEFINE i == request[c].item
             r == [is |-> "write", item |-> i, code |-> code, cost |-> cost,
                   purchase |-> request[c].purchase, barcode |-> Rebuilt(i, code, cost),
                   read |-> items[i], exhausted |-> Exhausted(code, cost, KeptPrefix(i), {i})]
  <2>1. i \in Items /\ request[c].purchase \in Costs
    BY <1>6, Fields DEF Save, Of
  <2>2. Live(i) /\ items[i] \in ItemRow
    BY <1>6, <2>1, RowFields DEF Save, Live
  <2>3. Rebuilt(i, code, cost) \in Barcodes \cup {None}
    <3> HIDE DEF i
    <3>1. cost \in Nat /\ code \in Seq(Nat)
      BY NumbersAssumption, CodesAssumption
    <3> QED
      BY <2>1, <2>2, <3>1, Found DEF Rebuilt
  <2>4. Exhausted(code, cost, KeptPrefix(i), {i}) \in BOOLEAN
    BY DEF Exhausted
  <2>5. request' = [request EXCEPT ![c] = r] /\ Ask /\ items' = items
    BY <1>6 DEF Save
  <2> HIDE DEF i
  <2>6. r \in [is : {"write"}, item : Items, code : Codes, cost : Costs, purchase : Costs,
               barcode : Barcodes \cup {None}, read : ItemRow, exhausted : BOOLEAN]
    BY <2>1, <2>2, <2>3, <2>4
  <2>7. r \in Request({})
    BY <2>6 DEF Request
  <2> HIDE DEF r
  <2> QED
    BY <2>5, <2>7, RequestSet, AskType DEF TypeOK, Kept
<1>7. ASSUME NEW c \in Clients, Write(c) PROVE TypeOK' /\ Kept
  <2> DEFINE r == request[c]
             row == [items[r.item] EXCEPT !.code = r.code, !.cost = r.cost, !.purchase = r.purchase,
                                          !.barcode = IF r.barcode = None THEN @ ELSE r.barcode]
  <2>1. /\ r.is = "write" /\ r.item \in Items
        /\ r.code \in Codes /\ r.cost \in Costs /\ r.purchase \in Costs
        /\ r.barcode \in Barcodes \cup {None}
    BY <1>7, Fields DEF Write, Of
  <2>2. items[r.item] # None
    BY <2>1 DEF Refers, Of
  <2>3. items[r.item] \in ItemRow
    BY <2>1, <2>2, RowFields
  <2>4. row \in ItemRow
    BY <2>1, <2>3 DEF ItemRow
  <2>5. items' = [items EXCEPT ![r.item] = row]
    BY <1>7, <2>1, <2>3 DEF Write, TypeOK, ItemRow
  <2>6. request' = [request EXCEPT ![c] = Idle] /\ left' = left
    BY <1>7 DEF Write
  <2> HIDE DEF row
  <2> QED
    BY <2>1, <2>4, <2>5, <2>6, RowSet, RequestSet, IdleType DEF TypeOK, Kept
<1>8. ASSUME NEW c \in Clients, NEW i \in Items, AssignBarcode(c, i) PROVE TypeOK' /\ Kept
  <2> DEFINE b == GenerateUniqueBarcode(items[i].code, Digits[i], CurrentCost(i), KeptPrefix(i), {i})
             r == [is |-> "assign", item |-> i, cost |-> items[i].cost, barcode |-> b,
                   exhausted |-> Exhausted(items[i].code, CurrentCost(i), KeptPrefix(i), {i})]
  <2>1. /\ Live(i) /\ items[i] # None
        /\ items[i].code \in Seq(Nat) /\ items[i].cost \in Costs /\ CurrentCost(i) \in Nat
    BY <1>8, RowFields DEF AssignBarcode, Live
  <2>2. b \in Barcodes
    BY <2>1, Found
  <2>3. Exhausted(items[i].code, CurrentCost(i), KeptPrefix(i), {i}) \in BOOLEAN
    BY DEF Exhausted
  <2>4. request' = [request EXCEPT ![c] = r] /\ Ask /\ items' = items
    BY <1>8 DEF AssignBarcode
  <2> HIDE DEF b
  <2>5. r \in [is : {"assign"}, item : Items, cost : Costs, barcode : Barcodes, exhausted : BOOLEAN]
    BY <2>1, <2>2, <2>3
  <2>6. r \in Request({})
    BY <2>5 DEF Request
  <2> HIDE DEF r
  <2> QED
    BY <2>4, <2>6, RequestSet, AskType DEF TypeOK, Kept
<1>9. ASSUME NEW c \in Clients, Assign(c) PROVE TypeOK' /\ Kept
  <2> DEFINE r == request[c]
             row == [items[r.item] EXCEPT !.barcode = r.barcode]
  <2>1. r.is = "assign" /\ r.item \in Items /\ r.barcode \in Barcodes
    BY <1>9, Fields DEF Assign, Of
  <2>2. items[r.item] # None
    BY <2>1 DEF Refers, Of
  <2>3. items[r.item] \in ItemRow
    BY <2>1, <2>2, RowFields
  <2>4. row \in ItemRow
    BY <2>1, <2>3 DEF ItemRow
  <2>5. items' = [items EXCEPT ![r.item] = row]
    BY <1>9 DEF Assign
  <2>6. request' = [request EXCEPT ![c] = Idle] /\ left' = left
    BY <1>9 DEF Assign
  <2> HIDE DEF row
  <2> QED
    BY <2>1, <2>4, <2>5, <2>6, RowSet, RequestSet, IdleType DEF TypeOK, Kept
<1>10. ASSUME NEW c \in Clients, BulkGenerateBarcodes(c) PROVE TypeOK' /\ Kept
  <2> DEFINE bare == {i \in LiveItems : items[i].barcode = None}
             r == [is |-> "bulk", todo |-> [i \in bare |-> CurrentCost(i)]]
  <2>1. bare \in SUBSET Items /\ \A i \in bare : CurrentCost(i) \in Costs
    BY RowFields DEF LiveItems, Live
  <2>2. r.todo \in [bare -> Costs]
    <3> HIDE DEF bare
    <3> QED
      BY <2>1
  <2>3. request' = [request EXCEPT ![c] = r] /\ Ask /\ items' = items
    BY <1>10 DEF BulkGenerateBarcodes
  <2> HIDE DEF bare
  <2>4. r \in [is : {"bulk"}, todo : [bare -> Costs]]
    BY <2>2
  <2>5. r \in Request(bare)
    BY <2>4 DEF Request
  <2> HIDE DEF r
  <2> QED
    BY <2>1, <2>3, <2>5, RequestSet, AskType DEF TypeOK, Kept
<1>11. ASSUME NEW c \in Clients, NEW i \in Items, BulkWrite(c, i) PROVE TypeOK' /\ Kept
  <2> DEFINE todo == request[c].todo
             b == BuildItemBarcode(Prefix(items[i].code), todo[i])
             row == [items[i] EXCEPT !.barcode = b]
             rest == DOMAIN todo \ {i}
             r == IF DOMAIN todo = {i} THEN Idle
                  ELSE [is |-> "bulk", todo |-> [j \in rest |-> todo[j]]]
  <2>1. request[c].is = "bulk" /\ i \in DOMAIN todo
    BY <1>11 DEF BulkWrite
  <2>2. DOMAIN todo \subseteq Items /\ todo \in [DOMAIN todo -> Costs]
    BY <2>1, Fields
  <2>3. items[i] # None
    BY <2>1 DEF Refers
  <2>4. items[i] \in ItemRow /\ items[i].code \in Seq(Nat)
    BY <2>3, RowFields
  <2>5. b \in Barcodes
    <3>1. todo[i] \in Nat
      BY <2>1, <2>2, NumbersAssumption
    <3>2. Prefix(items[i].code) \in [1..PrefixDigits -> Nat]
      BY <2>4, PrefixType
    <3> HIDE DEF todo
    <3> QED
      BY <3>1, <3>2, BuildType
  <2>6. items' = [items EXCEPT ![i] = row] /\ request' = [request EXCEPT ![c] = r] /\ left' = left
    BY <1>11 DEF BulkWrite
  <2> HIDE DEF b, todo
  <2>7. row \in ItemRow
    BY <2>4, <2>5 DEF ItemRow
  <2>8. rest \in SUBSET Items /\ [j \in rest |-> todo[j]] \in [rest -> Costs]
    BY <2>2
  <2> HIDE DEF rest
  <2>9. [is |-> "bulk", todo |-> [j \in rest |-> todo[j]]] \in [is : {"bulk"}, todo : [rest -> Costs]]
    BY <2>8
  <2>10. r \in Request(rest)
    BY <2>9, IdleType DEF Request
  <2> HIDE DEF r, row
  <2> QED
    BY <2>6, <2>7, <2>8, <2>10, RowSet, RequestSet DEF TypeOK, Kept
<1>12. ASSUME NEW i \in Items, Remove(i) PROVE TypeOK' /\ Kept
  <2> DEFINE row == [items[i] EXCEPT !.deleted = TRUE]
  <2>1. items[i] \in ItemRow
    BY <1>12, RowFields DEF Remove, Live
  <2>2. row \in ItemRow
    BY <2>1 DEF ItemRow
  <2>3. items' = [items EXCEPT ![i] = row] /\ Ask /\ request' = request
    BY <1>12 DEF Remove
  <2> HIDE DEF row
  <2> QED
    BY <2>2, <2>3, RowSet, AskType DEF TypeOK, Kept
<1>13. ASSUME NEW i \in Items, NEW price \in Costs, SyncItemPurchasePrices(i, price) PROVE TypeOK' /\ Kept
  <2> DEFINE row == [items[i] EXCEPT !.purchase = price]
  <2>1. items[i] \in ItemRow
    BY <1>13, RowFields DEF SyncItemPurchasePrices, Live
  <2>2. row \in ItemRow
    BY <2>1 DEF ItemRow
  <2>3. items' = [items EXCEPT ![i] = row] /\ Ask /\ request' = request
    BY <1>13 DEF SyncItemPurchasePrices
  <2> HIDE DEF row
  <2> QED
    BY <2>2, <2>3, RowSet, AskType DEF TypeOK, Kept
<1>14. ASSUME NEW i \in Items, NEW qty \in Int, AdjustStock(i, qty) PROVE TypeOK' /\ Kept
  <2> DEFINE stock == items[i].stock + qty
             level == items[i].level + qty
             row == [items[i] EXCEPT !.stock = stock, !.level = level]
  <2>1. items[i] \in ItemRow
    BY <1>14, RowFields DEF AdjustStock, Live
  <2>2. row \in ItemRow
    <3>1. stock \in Int /\ level \in Int
      BY <2>1 DEF ItemRow
    <3> HIDE DEF stock, level
    <3> QED
      BY <2>1, <3>1 DEF ItemRow
  <2>3. items' = [items EXCEPT ![i] = row] /\ Ask /\ request' = request
    BY <1>14, <2>1 DEF AdjustStock, TypeOK, ItemRow
  <2> HIDE DEF row
  <2> QED
    BY <2>2, <2>3, RowSet, AskType DEF TypeOK, Kept
<1>15. ASSUME NEW c \in Clients, VerifyData(c) PROVE TypeOK' /\ Kept
  <2> DEFINE r == [is |-> "verify", actual |-> [i \in LiveItems |-> items[i].stock]]
  <2>1. LiveItems \in SUBSET Items /\ \A i \in LiveItems : items[i] \in ItemRow
    BY RowFields DEF LiveItems, Live
  <2>2. [i \in LiveItems |-> items[i].stock] \in [LiveItems -> Int]
    BY <2>1 DEF ItemRow
  <2>3. r \in [is : {"verify"}, actual : [LiveItems -> Int]]
    BY <2>2
  <2>4. r \in Request(LiveItems)
    BY <2>3 DEF Request
  <2>5. request' = [request EXCEPT ![c] = r] /\ Ask /\ items' = items
    BY <1>15 DEF VerifyData
  <2> HIDE DEF r
  <2> QED
    BY <2>1, <2>4, <2>5, RequestSet, AskType DEF TypeOK, Kept
<1>16. ASSUME NEW c \in Clients, NEW i \in Items, request[c].is \in {"verify", "fix"},
              i \in DOMAIN request[c].actual
       PROVE  \E D \in SUBSET Items : Rest(request[c], i) \in Request(D)
  <2> DEFINE actual == request[c].actual
             rest == DOMAIN actual \ {i}
  <2>1. DOMAIN actual \subseteq Items /\ actual \in [DOMAIN actual -> Int]
    BY <1>16, Fields
  <2>2. Rest(request[c], i) = IF DOMAIN actual = {i} THEN Idle
                              ELSE [is |-> "verify", actual |-> [j \in rest |-> actual[j]]]
    BY DEF Rest
  <2> HIDE DEF actual
  <2>3. rest \in SUBSET Items /\ [j \in rest |-> actual[j]] \in [rest -> Int]
    BY <2>1
  <2> HIDE DEF rest
  <2>4. [is |-> "verify", actual |-> [j \in rest |-> actual[j]]]
          \in [is : {"verify"}, actual : [rest -> Int]]
    BY <2>3
  <2>5. Rest(request[c], i) \in Request(rest)
    BY <2>2, <2>4, IdleType DEF Request
  <2> QED
    BY <2>3, <2>5
<1>17. ASSUME NEW c \in Clients, NEW i \in Items, Compare(c, i) PROVE TypeOK' /\ Kept
  <2> DEFINE actual == request[c].actual
             r == IF actual[i] = items[i].level THEN Rest(request[c], i)
                  ELSE [is |-> "fix", actual |-> actual, item |-> i, expected |-> items[i].level]
  <2>1. request[c].is = "verify" /\ i \in DOMAIN actual
    BY <1>17 DEF Compare
  <2>2. DOMAIN actual \subseteq Items /\ actual \in [DOMAIN actual -> Int]
    BY <2>1, Fields
  <2>3. items[i] # None
    BY <2>1 DEF Refers
  <2>4. items[i].level \in Int
    BY <2>3, RowFields DEF ItemRow
  <2>5. PICK D \in SUBSET Items : Rest(request[c], i) \in Request(D)
    BY <1>16, <2>1
  <2>6. request' = [request EXCEPT ![c] = r] /\ UNCHANGED <<items, left>>
    BY <1>17 DEF Compare
  <2> HIDE DEF actual
  <2>7. [is |-> "fix", actual |-> actual, item |-> i, expected |-> items[i].level]
          \in [is : {"fix"}, actual : [DOMAIN actual -> Int], item : DOMAIN actual, expected : Int]
    BY <2>1, <2>2, <2>4
  <2>8. r \in Request(D) \/ r \in Request(DOMAIN actual)
    BY <2>5, <2>7 DEF Request
  <2> HIDE DEF r
  <2> QED
    BY <2>2, <2>6, <2>8, RequestSet DEF TypeOK, Kept
<1>18. ASSUME NEW c \in Clients, Fix(c) PROVE TypeOK' /\ Kept
  <2> DEFINE r == request[c]
             row == [items[r.item] EXCEPT !.stock = r.expected]
  <2>1. r.is = "fix" /\ r.item \in Items /\ r.expected \in Int /\ r.item \in DOMAIN r.actual
    BY <1>18, Fields DEF Fix, Of
  <2>2. items[r.item] # None
    BY <2>1 DEF Refers, Of
  <2>3. items[r.item] \in ItemRow
    BY <2>1, <2>2, RowFields
  <2>4. row \in ItemRow
    BY <2>1, <2>3 DEF ItemRow
  <2>5. PICK D \in SUBSET Items : Rest(r, r.item) \in Request(D)
    BY <1>16, <2>1
  <2>6. items' = [items EXCEPT ![r.item] = row] /\ request' = [request EXCEPT ![c] = Rest(r, r.item)]
        /\ left' = left
    BY <1>18 DEF Fix
  <2> HIDE DEF row
  <2> QED
    BY <2>1, <2>4, <2>5, <2>6, RowSet, RequestSet DEF TypeOK, Kept
<1> QED
  BY <1>1, <1>2, <1>3, <1>4, <1>5, <1>6, <1>7, <1>8, <1>9, <1>10, <1>11, <1>12, <1>13, <1>14,
     <1>15, <1>17, <1>18, Steps

(* What requests refer to stays there. *)
LEMMA RefersStep == TypeOK /\ Inserts /\ Refers /\ [Next]_vars => Inserts' /\ Refers'
<1> SUFFICES ASSUME TypeOK, Inserts, Refers, [Next]_vars PROVE Inserts' /\ Refers'
  OBVIOUS
<1>0. TypeOK' /\ Kept
  BY TypeStep
<1> DEFINE Fits(c, r) ==
             /\ r.is \in {"form", "write", "assign", "fix"} => items'[r.item] # None
             /\ r.is = "bulk" => \A i \in DOMAIN r.todo : items'[i] # None
             /\ r.is \in {"verify", "fix"} => \A i \in DOMAIN r.actual : items'[i] # None
             /\ r.is = "insert" =>
                  /\ items'[r.item] = None
                  /\ \A d \in Clients \ {c} : request[d].is = "insert" => Of(d) # r.item
<1>1. ASSUME NEW c \in Clients, NEW r, request' = [request EXCEPT ![c] = r], Fits(c, r),
             \A d \in Clients \ {c} : request[d].is = "insert" => items'[Of(d)] = None
      PROVE  Inserts' /\ Refers'
  <2>1. request'[c] = r /\ \A d \in Clients \ {c} : request'[d] = request[d]
    BY <1>1 DEF TypeOK
  <2>2. ASSUME NEW d \in Clients \ {c} PROVE Fits(d, request[d])
    <3>1. request[d].is \in {"form", "write", "assign", "fix"} => Of(d) \in Items
      BY Fields
    <3>2. request[d].is = "bulk" => DOMAIN request[d].todo \subseteq Items
      BY Fields
    <3>3. request[d].is \in {"verify", "fix"} => DOMAIN request[d].actual \subseteq Items
      BY Fields
    <3> QED
      BY <1>0, <1>1, <3>1, <3>2, <3>3 DEF Refers, Inserts, Kept, Of
  <2>3. Refers'
    BY <1>1, <2>1, <2>2 DEF Refers, Of
  <2>4. Inserts'
    BY <1>1, <2>1, <2>2 DEF Inserts, Of
  <2> QED
    BY <2>3, <2>4
<1>2. ASSUME UNCHANGED request, \A d \in Clients : request[d].is = "insert" => items'[Of(d)] = None
      PROVE  Inserts' /\ Refers'
  <2>1. ASSUME NEW d \in Clients
        PROVE  /\ request[d].is \in {"form", "write", "assign", "fix"} => Of(d) \in Items
               /\ request[d].is = "bulk" => DOMAIN request[d].todo \subseteq Items
               /\ request[d].is \in {"verify", "fix"} => DOMAIN request[d].actual \subseteq Items
    BY Fields
  <2>2. Refers'
    BY <1>0, <1>2, <2>1 DEF Refers, Kept, Of
  <2>3. Inserts'
    BY <1>2 DEF Inserts, Of
  <2> QED
    BY <2>2, <2>3
<1>3. \A c \in Clients : Fits(c, Idle)
  BY DEF Idle
<1>4. ASSUME NEW i \in Items, items[i] # None, \A j \in Items \ {i} : items'[j] = items[j]
      PROVE  \A d \in Clients : request[d].is = "insert" => items'[Of(d)] = None
  BY <1>4, Fields DEF Inserts
<1>5. ASSUME UNCHANGED items
      PROVE  \A d \in Clients : request[d].is = "insert" => items'[Of(d)] = None
  BY <1>5 DEF Inserts
<1>6. CASE UNCHANGED vars
  BY <1>2, <1>5, <1>6 DEF vars
<1>7. ASSUME NEW c \in Clients, NEW i \in Items, NEW name \in Names, NEW code \in Codes,
             NEW cost \in Costs, NEW opening \in Int, Create(c, i, name, code, cost, opening)
      PROVE  Inserts' /\ Refers'
  <2> DEFINE r == [is |-> "insert", item |-> i,
                   row |-> [NewItem(name, code, cost, cost, opening) EXCEPT
                              !.barcode = GenerateUniqueBarcode(code, code, cost, None, {})],
                   exhausted |-> Exhausted(code, cost, None, {})]
  <2>1. /\ request' = [request EXCEPT ![c] = r] /\ UNCHANGED items
        /\ items[i] = None /\ \A d \in Clients : request[d].is = "insert" => Of(d) # i
    BY <1>7 DEF Create, Fresh, Of
  <2>2. Fits(c, r)
    BY <2>1
  <2> HIDE DEF r, Fits
  <2> QED
    BY <1>1, <1>5, <2>1, <2>2
<1>8. ASSUME NEW c \in Clients, Insert(c) PROVE Inserts' /\ Refers'
  <2>1. request[c].is = "insert" /\ Of(c) \in Items
    BY <1>8, Fields DEF Insert
  <2>2. \A j \in Items \ {Of(c)} : items'[j] = items[j]
    BY <1>8, <2>1 DEF Insert, TypeOK, Of
  <2>3. \A d \in Clients \ {c} : request[d].is = "insert" => items'[Of(d)] = None
    <3>1. \A d \in Clients \ {c} : request[d].is = "insert" => Of(d) \in Items \ {Of(c)}
      BY <2>1, Fields DEF Inserts
    <3> QED
      BY <2>2, <3>1 DEF Inserts
  <2>4. request' = [request EXCEPT ![c] = Idle]
    BY <1>8 DEF Insert
  <2> HIDE DEF Fits
  <2> QED
    BY <1>1, <1>3, <2>3, <2>4
<1>9. ASSUME NEW c \in Clients, NEW i \in Items, OpenEdit(c, i) PROVE Inserts' /\ Refers'
  <2> DEFINE r == [is |-> "form", item |-> i, purchase |-> items[i].purchase]
  <2>1. request' = [request EXCEPT ![c] = r] /\ UNCHANGED items /\ items[i] # None
    BY <1>9 DEF OpenEdit, Live
  <2>2. Fits(c, r)
    BY <2>1
  <2> HIDE DEF r, Fits
  <2> QED
    BY <1>1, <1>5, <2>1, <2>2
<1>10. ASSUME NEW c \in Clients, CloseEdit(c) \/ WriteRefused(c) PROVE Inserts' /\ Refers'
  <2>1. request' = [request EXCEPT ![c] = Idle] /\ UNCHANGED items
    BY <1>10 DEF CloseEdit, WriteRefused
  <2> HIDE DEF Fits
  <2> QED
    BY <1>1, <1>3, <1>5, <2>1
<1>11. ASSUME NEW c \in Clients, NEW code \in Codes, NEW cost \in Costs, Save(c, code, cost)
      PROVE Inserts' /\ Refers'
  <2> DEFINE i == request[c].item
             r == [is |-> "write", item |-> i, code |-> code, cost |-> cost,
                   purchase |-> request[c].purchase, barcode |-> Rebuilt(i, code, cost),
                   read |-> items[i], exhausted |-> Exhausted(code, cost, KeptPrefix(i), {i})]
  <2>1. request' = [request EXCEPT ![c] = r] /\ UNCHANGED items /\ items[i] # None
    BY <1>11 DEF Save, Live
  <2>2. Fits(c, r)
    BY <2>1
  <2> HIDE DEF r, Fits
  <2> QED
    BY <1>1, <1>5, <2>1, <2>2
<1>12. ASSUME NEW c \in Clients, Write(c) \/ Assign(c) PROVE Inserts' /\ Refers'
  <2>1. request[c].is \in {"write", "assign"} /\ Of(c) \in Items
    BY <1>12, Fields DEF Write, Assign
  <2>2. items[Of(c)] # None
    BY <2>1 DEF Refers
  <2>3. \A j \in Items \ {Of(c)} : items'[j] = items[j]
    BY <1>12, <2>1 DEF Write, Assign, TypeOK, Of
  <2>4. request' = [request EXCEPT ![c] = Idle]
    BY <1>12 DEF Write, Assign
  <2> HIDE DEF Fits
  <2> QED
    BY <1>1, <1>3, <1>4, <2>1, <2>2, <2>3, <2>4
<1>13. ASSUME NEW c \in Clients, NEW i \in Items, AssignBarcode(c, i) PROVE Inserts' /\ Refers'
  <2> DEFINE r == [is |-> "assign", item |-> i, cost |-> items[i].cost,
                   barcode |-> GenerateUniqueBarcode(items[i].code, Digits[i], CurrentCost(i),
                                                     KeptPrefix(i), {i}),
                   exhausted |-> Exhausted(items[i].code, CurrentCost(i), KeptPrefix(i), {i})]
  <2>1. request' = [request EXCEPT ![c] = r] /\ UNCHANGED items /\ items[i] # None
    BY <1>13 DEF AssignBarcode, Live
  <2>2. Fits(c, r)
    BY <2>1
  <2> HIDE DEF r, Fits
  <2> QED
    BY <1>1, <1>5, <2>1, <2>2
<1>14. ASSUME NEW c \in Clients, BulkGenerateBarcodes(c) PROVE Inserts' /\ Refers'
  <2> DEFINE bare == {i \in LiveItems : items[i].barcode = None}
             r == [is |-> "bulk", todo |-> [i \in bare |-> CurrentCost(i)]]
  <2>1. request' = [request EXCEPT ![c] = r] /\ UNCHANGED items
    BY <1>14 DEF BulkGenerateBarcodes
  <2>2. \A i \in bare : items[i] # None
    BY DEF LiveItems, Live
  <2>3. Fits(c, r)
    BY <2>1, <2>2
  <2> HIDE DEF r, Fits
  <2> QED
    BY <1>1, <1>5, <2>1, <2>3
<1>15. ASSUME NEW c \in Clients, NEW i \in Items, BulkWrite(c, i) PROVE Inserts' /\ Refers'
  <2> DEFINE todo == request[c].todo
             r == IF DOMAIN todo = {i} THEN Idle
                  ELSE [is |-> "bulk", todo |-> [j \in DOMAIN todo \ {i} |-> todo[j]]]
  <2>1. request[c].is = "bulk" /\ i \in DOMAIN todo /\ request' = [request EXCEPT ![c] = r]
    BY <1>15 DEF BulkWrite
  <2>2. DOMAIN todo \subseteq Items /\ \A j \in DOMAIN todo : items'[j] # None
    BY <1>0, <2>1, Fields DEF Refers, Kept
  <2>3. items[i] # None /\ \A j \in Items \ {i} : items'[j] = items[j]
    BY <1>15, <2>1 DEF BulkWrite, Refers, TypeOK
  <2>4. Fits(c, r)
    BY <2>2 DEF Idle
  <2> HIDE DEF r, Fits
  <2> QED
    BY <1>1, <1>4, <2>1, <2>3, <2>4
<1>16. ASSUME NEW i \in Items, Remove(i) PROVE Inserts' /\ Refers'
  <2>1. items[i] # None /\ UNCHANGED request /\ \A j \in Items \ {i} : items'[j] = items[j]
    BY <1>16 DEF Remove, Live, TypeOK
  <2> QED
    BY <1>2, <1>4, <2>1
<1>17. ASSUME NEW i \in Items, NEW price \in Costs, SyncItemPurchasePrices(i, price)
       PROVE  Inserts' /\ Refers'
  <2>1. items[i] # None /\ UNCHANGED request /\ \A j \in Items \ {i} : items'[j] = items[j]
    BY <1>17 DEF SyncItemPurchasePrices, Live, TypeOK
  <2> QED
    BY <1>2, <1>4, <2>1
<1>18. ASSUME NEW i \in Items, NEW qty \in Int, AdjustStock(i, qty) PROVE Inserts' /\ Refers'
  <2>1. items[i] # None /\ UNCHANGED request /\ \A j \in Items \ {i} : items'[j] = items[j]
    BY <1>18 DEF AdjustStock, Live, TypeOK
  <2> QED
    BY <1>2, <1>4, <2>1
<1>19. ASSUME NEW c \in Clients, VerifyData(c) PROVE Inserts' /\ Refers'
  <2> DEFINE r == [is |-> "verify", actual |-> [i \in LiveItems |-> items[i].stock]]
  <2>1. request' = [request EXCEPT ![c] = r] /\ UNCHANGED items
    BY <1>19 DEF VerifyData
  <2>2. Fits(c, r)
    BY <2>1 DEF LiveItems, Live
  <2> HIDE DEF r, Fits
  <2> QED
    BY <1>1, <1>5, <2>1, <2>2
<1>20. ASSUME NEW c \in Clients, NEW i \in Items, request[c].is \in {"verify", "fix"}
       PROVE  Fits(c, Rest(request[c], i))
  <2> DEFINE actual == request[c].actual
  <2>1. DOMAIN actual \subseteq Items /\ \A j \in DOMAIN actual : items'[j] # None
    BY <1>0, <1>20, Fields DEF Refers, Kept
  <2>2. Rest(request[c], i) = IF DOMAIN actual = {i} THEN Idle
          ELSE [is |-> "verify", actual |-> [j \in DOMAIN actual \ {i} |-> actual[j]]]
    BY DEF Rest
  <2> HIDE DEF actual
  <2> QED
    BY <2>1, <2>2 DEF Idle
<1>21. ASSUME NEW c \in Clients, NEW i \in Items, Compare(c, i) PROVE Inserts' /\ Refers'
  <2> DEFINE q == request[c]
             r == [is |-> "fix", actual |-> q.actual, item |-> i, expected |-> items[i].level]
  <2>1. q.is = "verify" /\ i \in DOMAIN q.actual /\ UNCHANGED items
    BY <1>21 DEF Compare
  <2>2. request' = [request EXCEPT ![c] = Rest(q, i)] \/ request' = [request EXCEPT ![c] = r]
    BY <1>21 DEF Compare
  <2>3. \A j \in DOMAIN q.actual : items'[j] # None
    BY <2>1 DEF Refers
  <2>4. Fits(c, r)
    BY <2>1, <2>3
  <2>5. Fits(c, Rest(q, i))
    BY <1>20, <2>1
  <2> HIDE DEF r, Fits
  <2> QED
    BY <1>1, <1>5, <2>1, <2>2, <2>4, <2>5
<1>22. ASSUME NEW c \in Clients, Fix(c) PROVE Inserts' /\ Refers'
  <2>1. request[c].is = "fix" /\ Of(c) \in Items
    BY <1>22, Fields DEF Fix
  <2>2. items[Of(c)] # None /\ \A j \in Items \ {Of(c)} : items'[j] = items[j]
    BY <1>22, <2>1 DEF Fix, Refers, TypeOK, Of
  <2>3. request' = [request EXCEPT ![c] = Rest(request[c], Of(c))]
    BY <1>22 DEF Fix, Of
  <2>4. Fits(c, Rest(request[c], Of(c)))
    BY <1>20, <2>1
  <2> HIDE DEF Fits
  <2> QED
    BY <1>1, <1>4, <2>1, <2>2, <2>3, <2>4
<1> HIDE DEF Fits
<1> QED
  BY <1>6, <1>7, <1>8, <1>9, <1>10, <1>11, <1>12, <1>13, <1>14, <1>15, <1>16, <1>17, <1>18,
     <1>19, <1>21, <1>22, Steps

-----------------------------------------------------------------------------
(* Barcodes are unique.  As far as they are concerned a step is a look (a  *)
(* search ends and its request carries what it found), a store (the        *)
(* barcode is written), a barcode of the bulk run, or quiet.               *)

Others(c) == \A d \in Clients \ {c} : request'[d] = request[d]

(* No item outside S comes up, or comes by a barcode. *)
Still(S) ==
    \A j \in Items \ S : Live(j)' => Live(j) /\ items'[j].barcode = items[j].barcode

Quiet ==
    /\ UNCHANGED <<rushed, bulked>>
    /\ \A d \in Clients : Writes(d)' => Writes(d) /\ request'[d] = request[d]
    /\ Still({})
    /\ \A j \in Items : j \in spent /\ j \notin spent' => ~Live(j)'

Looks(c) ==
    /\ UNCHANGED <<items, bulked, spent>>
    /\ Others(c)
    /\ rushed \subseteq rushed'
    /\ request'[c].is \in {"insert", "write", "assign"}
    /\ Rush(c) => Of(c)' \in rushed'
    /\ ~request'[c].exhausted =>
         \A j \in Items \ {Of(c)'} : Live(j) => items[j].barcode # NewBarcode(c)'

Stores(c) ==
    /\ UNCHANGED <<rushed, bulked>>
    /\ Others(c)
    /\ Writes(c) /\ Of(c) \in Items /\ ~(Writes(c)')
    /\ Still({Of(c)})
    /\ items'[Of(c)].barcode = NewBarcode(c)
    /\ \A j \in Items \ {Of(c)} : j \in spent <=> j \in spent'
    /\ request[c].exhausted => Of(c) \in spent'

Bulks(i) ==
    /\ UNCHANGED <<rushed, spent>>
    /\ bulked' = bulked \cup {i}
    /\ \A d \in Clients : Writes(d)' => Writes(d) /\ request'[d] = request[d]
    /\ Still({i})

UniqueInv == Apart /\ Clear /\ Unique

LEMMA QuietKeeps == UniqueInv /\ Quiet => UniqueInv'
<1> SUFFICES ASSUME UniqueInv, Quiet PROVE UniqueInv'
  OBVIOUS
<1>1. \A d \in Clients : Writes(d)' => /\ Writes(d) /\ Of(d)' = Of(d)
                                       /\ NewBarcode(d)' = NewBarcode(d)
                                       /\ request'[d].exhausted = request[d].exhausted
  BY DEF Quiet, Of, NewBarcode
<1>2. Apart'
  BY <1>1 DEF UniqueInv, Apart, Quiet
<1>3. Clear'
  BY <1>1 DEF UniqueInv, Clear, Quiet, Still
<1>4. Unique'
  <2>1. \A j \in Sound' : Live(j)' => j \in Sound /\ Live(j) /\ items'[j].barcode = items[j].barcode
    BY DEF Sound, Quiet, Still
  <2> QED
    BY <2>1 DEF UniqueInv, Unique
<1> QED
  BY <1>2, <1>3, <1>4 DEF UniqueInv

LEMMA LooksKeeps ==
  ASSUME NEW c \in Clients, UniqueInv, Looks(c)
  PROVE  UniqueInv'
<1>1. \A d \in Clients \ {c} : /\ Writes(d)' <=> Writes(d)
                               /\ Of(d)' = Of(d) /\ NewBarcode(d)' = NewBarcode(d)
                               /\ request'[d].exhausted = request[d].exhausted
  BY DEF Looks, Others, Writes, Of, NewBarcode
<1>2. \A d \in Clients \ {c} : Writes(d) => Rush(c)
  BY DEF Writes, Rush
<1>3. \A j \in Items : Live(j)' <=> Live(j)
  BY DEF Looks, Live
<1>4. Apart'
  <2> SUFFICES ASSUME NEW d \in Clients, NEW e \in Clients, d # e, Writes(d)', Writes(e)'
               PROVE  {Of(d)', Of(e)'} \cap rushed' # {}
    BY DEF Apart
  <2>1. CASE d = c
    BY <1>1, <1>2, <2>1 DEF Looks
  <2>2. CASE e = c
    BY <1>1, <1>2, <2>2 DEF Looks
  <2>3. CASE d # c /\ e # c
    BY <1>1, <2>3 DEF Looks, UniqueInv, Apart
  <2> QED
    BY <2>1, <2>2, <2>3
<1>5. Clear'
  <2> SUFFICES ASSUME NEW d \in Clients, Writes(d)', Of(d)' \notin rushed',
                      ~request'[d].exhausted,
                      NEW j \in Items \ ({Of(d)'} \cup rushed' \cup bulked'), Live(j)'
               PROVE  items'[j].barcode # NewBarcode(d)'
    BY DEF Clear
  <2>1. CASE d = c
    BY <1>3, <2>1 DEF Looks
  <2>2. CASE d # c
    BY <1>1, <1>3, <2>2 DEF Looks, UniqueInv, Clear
  <2> QED
    BY <2>1, <2>2
<1>6. Unique'
  BY <1>3 DEF Looks, UniqueInv, Unique, Sound
<1> QED
  BY <1>4, <1>5, <1>6 DEF UniqueInv

LEMMA StoresKeeps ==
  ASSUME NEW c \in Clients, UniqueInv, Stores(c)
  PROVE  UniqueInv'
<1>1. \A d \in Clients \ {c} : /\ Writes(d)' <=> Writes(d)
                               /\ Of(d)' = Of(d) /\ NewBarcode(d)' = NewBarcode(d)
                               /\ request'[d].exhausted = request[d].exhausted
  BY DEF Stores, Others, Writes, Of, NewBarcode
<1>2. ~(Writes(c)') /\ UNCHANGED <<rushed, bulked>>
  BY DEF Stores
<1>3. Apart'
  BY <1>1, <1>2 DEF UniqueInv, Apart
<1>4. Clear'
  <2> SUFFICES ASSUME NEW d \in Clients, Writes(d)', Of(d)' \notin rushed',
                      ~request'[d].exhausted,
                      NEW j \in Items \ ({Of(d)'} \cup rushed' \cup bulked'), Live(j)'
               PROVE  items'[j].barcode # NewBarcode(d)'
    BY DEF Clear
  <2>1. d # c
    BY <1>2
  <2>2. Of(c) \in rushed
    BY <1>1, <1>2, <2>1 DEF Stores, UniqueInv, Apart
  <2>3. Live(j) /\ items'[j].barcode = items[j].barcode
    BY <1>2, <2>2 DEF Stores, Still
  <2> QED
    BY <1>1, <1>2, <2>1, <2>3 DEF UniqueInv, Clear
<1>5. Unique'
  <2> DEFINE i == Of(c)
  <2>1. ASSUME NEW j \in Sound' \ {i}, Live(j)'
        PROVE  j \in Sound /\ Live(j) /\ items'[j].barcode = items[j].barcode
    BY <2>1 DEF Sound, Stores, Still
  <2>2. ASSUME i \in Sound', NEW j \in Sound' \ {i}, Live(j)'
        PROVE  items'[j].barcode # items'[i].barcode
    <3>1. i \notin rushed /\ ~request[c].exhausted
      BY <2>2 DEF Sound, Stores
    <3>2. items[j].barcode # NewBarcode(c)
      BY <2>1, <2>2, <3>1 DEF Stores, UniqueInv, Clear, Sound
    <3> QED
      BY <2>1, <2>2, <3>2 DEF Stores
  <2> HIDE DEF i
  <2> QED
    BY <2>1, <2>2 DEF UniqueInv, Unique
<1> QED
  BY <1>3, <1>4, <1>5 DEF UniqueInv

LEMMA BulksKeeps ==
  ASSUME NEW i \in Items, UniqueInv, Bulks(i)
  PROVE  UniqueInv'
<1>1. \A d \in Clients : Writes(d)' => /\ Writes(d) /\ Of(d)' = Of(d)
                                       /\ NewBarcode(d)' = NewBarcode(d)
                                       /\ request'[d].exhausted = request[d].exhausted
  BY DEF Bulks, Of, NewBarcode
<1>2. Apart'
  BY <1>1 DEF UniqueInv, Apart, Bulks
<1>3. Clear'
  BY <1>1 DEF UniqueInv, Clear, Bulks, Still
<1>4. Unique'
  <2>1. \A j \in Sound' : Live(j)' => j \in Sound /\ Live(j) /\ items'[j].barcode = items[j].barcode
    BY DEF Sound, Bulks, Still
  <2> QED
    BY <2>1 DEF UniqueInv, Unique
<1> QED
  BY <1>2, <1>3, <1>4 DEF UniqueInv

LEMMA QuietRequest ==
  ASSUME TypeOK, NEW c \in Clients, NEW r, r.is \notin {"insert", "write", "assign"},
         request' = [request EXCEPT ![c] = r]
  PROVE  \A d \in Clients : Writes(d)' => Writes(d) /\ request'[d] = request[d]
BY DEF TypeOK, Writes

LEMMA KindsOfStep ==
  ASSUME TypeOK, Inserts, Refers, Next
  PROVE  Quiet \/ (\E c \in Clients : Looks(c) \/ Stores(c)) \/ (\E i \in Items : Bulks(i))
<1>0. UNCHANGED items => Still({})
  BY DEF Still, Live
<1>1. ASSUME NEW c \in Clients, NEW i \in Items, NEW name \in Names, NEW code \in Codes,
             NEW cost \in Costs, NEW opening \in Int, Create(c, i, name, code, cost, opening)
      PROVE  Looks(c)
  <2> DEFINE b == GenerateUniqueBarcode(code, code, cost, None, {})
             row == [NewItem(name, code, cost, cost, opening) EXCEPT !.barcode = b]
             r == [is |-> "insert", item |-> i, row |-> row,
                   exhausted |-> Exhausted(code, cost, None, {})]
  <2>1. /\ request' = [request EXCEPT ![c] = r] /\ UNCHANGED <<items, bulked, spent>>
        /\ rushed' = IF Rush(c) THEN rushed \cup {i} ELSE rushed
    BY <1>1 DEF Create
  <2>2. ~Exhausted(code, cost, None, {}) => ~Taken(b, {})
    BY Generated, CodesAssumption, NumbersAssumption
  <2>3. ~Taken(b, {}) => \A j \in Items : Live(j) => items[j].barcode # b
    BY DEF Taken, LiveItems
  <2>4. row.barcode = b
    BY DEF NewItem
  <2> HIDE DEF b, row
  <2>5. request'[c] = r /\ Others(c)
    BY <2>1 DEF Others, TypeOK
  <2> QED
    BY <2>1, <2>2, <2>3, <2>4, <2>5 DEF Looks, Of, NewBarcode
<1>2. ASSUME NEW c \in Clients, Insert(c) PROVE Quiet \/ Stores(c)
  <2> DEFINE r == request[c]
  <2>1. r.is = "insert" /\ Of(c) \in Items /\ r.exhausted \in BOOLEAN /\ items[Of(c)] = None
    BY <1>2, Fields DEF Insert, Inserts
  <2>2. /\ request' = [request EXCEPT ![c] = Idle] /\ UNCHANGED <<rushed, bulked>>
        /\ Spent(r)
    BY <1>2 DEF Insert
  <2>3. CASE items' = items
    <3>1. \A j \in Items : j \in spent /\ j \notin spent' => ~Live(j)'
      BY <2>1, <2>2, <2>3 DEF Spent, Live, Of
    <3>2. \A d \in Clients : Writes(d)' => Writes(d) /\ request'[d] = request[d]
      BY <2>2, QuietRequest DEF Idle
    <3> QED
      BY <1>0, <2>2, <2>3, <3>1, <3>2 DEF Quiet
  <2>4. CASE items' = [items EXCEPT ![Of(c)] = r.row]
    <3>1. Writes(c) /\ ~(Writes(c)') /\ Others(c)
      BY <2>1, <2>2 DEF Writes, Others, Idle, TypeOK
    <3>2. Still({Of(c)}) /\ items'[Of(c)].barcode = NewBarcode(c)
      BY <2>1, <2>4 DEF Still, Live, TypeOK, NewBarcode
    <3>3. /\ \A j \in Items \ {Of(c)} : j \in spent <=> j \in spent'
          /\ r.exhausted => Of(c) \in spent'
      BY <2>2 DEF Spent, Of
    <3> QED
      BY <2>1, <2>2, <3>1, <3>2, <3>3 DEF Stores
  <2> QED
    BY <1>2, <2>3, <2>4 DEF Insert, Of
<1>3. ASSUME NEW c \in Clients, NEW i \in Items, OpenEdit(c, i) PROVE Quiet
  BY <1>0, <1>3, QuietRequest DEF OpenEdit, Quiet, history
<1>4. ASSUME NEW c \in Clients, CloseEdit(c) \/ WriteRefused(c) PROVE Quiet
  BY <1>0, <1>4, QuietRequest DEF CloseEdit, WriteRefused, Quiet, history, Idle
<1>5. ASSUME NEW c \in Clients, NEW code \in Codes, NEW cost \in Costs, Save(c, code, cost)
      PROVE Quiet \/ Looks(c)
  <2> DEFINE i == request[c].item
             b == Rebuilt(i, code, cost)
             r == [is |-> "write", item |-> i, code |-> code, cost |-> cost,
                   purchase |-> request[c].purchase, barcode |-> b, read |-> items[i],
                   exhausted |-> Exhausted(code, cost, KeptPrefix(i), {i})]
  <2>1. /\ request' = [request EXCEPT ![c] = r] /\ UNCHANGED <<items, spent, bulked>>
        /\ rushed' = IF b # None /\ Rush(c) THEN rushed \cup {i} ELSE rushed
        /\ request[c].is = "form" /\ Live(i)
    BY <1>5 DEF Save
  <2>2. i \in Items /\ cost \in Nat /\ code \in Seq(Nat)
    BY <2>1, Fields, NumbersAssumption, CodesAssumption DEF Of
  <2>3. request'[c] = r /\ Others(c)
    BY <2>1 DEF Others, TypeOK
  <2>4. CASE b = None
    <3>1. \A d \in Clients : Writes(d)' => Writes(d) /\ request'[d] = request[d]
      BY <2>3, <2>4 DEF Others, Writes
    <3> QED
      BY <1>0, <2>1, <2>4, <3>1 DEF Quiet
  <2>5. CASE b # None
    <3> DEFINE g == GenerateUniqueBarcode(code, Digits[i], cost, KeptPrefix(i), {i})
    <3>1. b = g
      BY <2>5 DEF Rebuilt
    <3>2. ~Exhausted(code, cost, KeptPrefix(i), {i}) =>
             \A j \in Items \ {i} : Live(j) => items[j].barcode # g
      <4> HIDE DEF i
      <4> QED
        BY <2>1, <2>2, Found
    <3> HIDE DEF b, i, g
    <3> QED
      BY <2>1, <2>3, <2>5, <3>1, <3>2 DEF Looks, Of, NewBarcode
  <2> QED
    BY <2>4, <2>5
<1>6. ASSUME NEW c \in Clients, Write(c) PROVE Quiet \/ Stores(c)
  <2> DEFINE r == request[c]
  <2>1. r.is = "write" /\ Of(c) \in Items /\ r.exhausted \in BOOLEAN /\ items[Of(c)] # None
    BY <1>6, Fields DEF Write, Refers
  <2>2. /\ request' = [request EXCEPT ![c] = Idle] /\ UNCHANGED <<rushed, bulked>>
        /\ r.barcode # None => Spent(r)
        /\ r.barcode = None => spent' = spent
    BY <1>6 DEF Write
  <2>3. items[Of(c)] \in ItemRow
    BY <2>1, RowFields
  <2>4. /\ \A j \in Items \ {Of(c)} : items'[j] = items[j]
        /\ items'[Of(c)].deleted = items[Of(c)].deleted
        /\ items'[Of(c)].barcode = IF r.barcode = None THEN items[Of(c)].barcode ELSE r.barcode
    BY <1>6, <2>1, <2>3 DEF Write, TypeOK, ItemRow, Of
  <2>5. CASE r.barcode = None
    <3>1. Still({})
      BY <2>1, <2>4, <2>5 DEF Still, Live
    <3>2. \A d \in Clients : Writes(d)' => Writes(d) /\ request'[d] = request[d]
      BY <2>2, QuietRequest DEF Idle
    <3> QED
      BY <2>2, <2>5, <3>1, <3>2 DEF Quiet
  <2>6. CASE r.barcode # None
    <3>1. Writes(c) /\ ~(Writes(c)') /\ Others(c)
      BY <2>1, <2>2, <2>6 DEF Writes, Others, Idle, TypeOK
    <3>2. Still({Of(c)}) /\ items'[Of(c)].barcode = NewBarcode(c)
      BY <2>1, <2>4, <2>6 DEF Still, Live, NewBarcode
    <3>3. /\ \A j \in Items \ {Of(c)} : j \in spent <=> j \in spent'
          /\ r.exhausted => Of(c) \in spent'
      BY <2>2, <2>6 DEF Spent, Of
    <3> QED
      BY <2>1, <2>2, <3>1, <3>2, <3>3 DEF Stores
  <2> QED
    BY <2>5, <2>6
<1>7. ASSUME NEW c \in Clients, NEW i \in Items, AssignBarcode(c, i) PROVE Looks(c)
  <2> DEFINE g == GenerateUniqueBarcode(items[i].code, Digits[i], CurrentCost(i), KeptPrefix(i), {i})
             r == [is |-> "assign", item |-> i, cost |-> items[i].cost, barcode |-> g,
                   exhausted |-> Exhausted(items[i].code, CurrentCost(i), KeptPrefix(i), {i})]
  <2>1. /\ request' = [request EXCEPT ![c] = r] /\ UNCHANGED <<items, spent, bulked>>
        /\ rushed' = IF Rush(c) THEN rushed \cup {i} ELSE rushed
        /\ Live(i)
    BY <1>7 DEF AssignBarcode
  <2>2. ~Exhausted(items[i].code, CurrentCost(i), KeptPrefix(i), {i}) =>
           \A j \in Items \ {i} : Live(j) => items[j].barcode # g
    <3>1. CurrentCost(i) \in Nat /\ items[i].code \in Seq(Nat)
      BY <2>1, RowFields DEF Live
    <3> QED
      BY <2>1, <3>1, Found
  <2> HIDE DEF g
  <2>3. request'[c] = r /\ Others(c)
    BY <2>1 DEF Others, TypeOK
  <2> QED
    BY <2>1, <2>2, <2>3 DEF Looks, Of, NewBarcode
<1>8. ASSUME NEW c \in Clients, Assign(c) PROVE Stores(c)
  <2> DEFINE r == request[c]
  <2>1. r.is = "assign" /\ Of(c) \in Items /\ r.exhausted \in BOOLEAN /\ items[Of(c)] # None
    BY <1>8, Fields DEF Assign, Refers
  <2>2. /\ request' = [request EXCEPT ![c] = Idle] /\ UNCHANGED <<rushed, bulked>>
        /\ Spent(r)
    BY <1>8 DEF Assign
  <2>3. items[Of(c)] \in ItemRow
    BY <2>1, RowFields
  <2>4. /\ \A j \in Items \ {Of(c)} : items'[j] = items[j]
        /\ items'[Of(c)].barcode = r.barcode
    BY <1>8, <2>1, <2>3 DEF Assign, TypeOK, ItemRow, Of
  <2>5. Writes(c) /\ ~(Writes(c)') /\ Others(c)
    BY <2>1, <2>2 DEF Writes, Others, Idle, TypeOK
  <2>6. Still({Of(c)}) /\ items'[Of(c)].barcode = NewBarcode(c)
    BY <2>1, <2>4 DEF Still, Live, NewBarcode
  <2>7. /\ \A j \in Items \ {Of(c)} : j \in spent <=> j \in spent'
        /\ r.exhausted => Of(c) \in spent'
    BY <2>2 DEF Spent, Of
  <2> QED
    BY <2>1, <2>2, <2>5, <2>6, <2>7 DEF Stores
<1>9. ASSUME NEW c \in Clients, BulkGenerateBarcodes(c) PROVE Quiet
  BY <1>0, <1>9, QuietRequest DEF BulkGenerateBarcodes, Quiet, history
<1>10. ASSUME NEW c \in Clients, NEW i \in Items, BulkWrite(c, i) PROVE Bulks(i)
  <2>1. /\ UNCHANGED <<rushed, spent>> /\ bulked' = bulked \cup {i}
        /\ \A j \in Items \ {i} : items'[j] = items[j]
    BY <1>10 DEF BulkWrite, TypeOK
  <2>2. Still({i})
    BY <2>1 DEF Still, Live
  <2> DEFINE todo == request[c].todo
             r == IF DOMAIN todo = {i} THEN Idle
                  ELSE [is |-> "bulk", todo |-> [j \in DOMAIN todo \ {i} |-> todo[j]]]
  <2>3. request' = [request EXCEPT ![c] = r]
    BY <1>10 DEF BulkWrite
  <2>4. r.is \notin {"insert", "write", "assign"}
    BY DEF Idle
  <2> HIDE DEF r
  <2> QED
    BY <2>1, <2>2, <2>3, <2>4, QuietRequest DEF Bulks
<1>11. ASSUME NEW i \in Items, Remove(i) PROVE Quiet
  <2>1. UNCHANGED <<request, rushed, bulked, spent>>
    BY <1>11 DEF Remove, history
  <2>2. Still({})
    BY <1>11, RowFields DEF Remove, Still, Live, TypeOK, ItemRow
  <2> QED
    BY <2>1, <2>2 DEF Quiet, Writes
<1>12. ASSUME NEW i \in Items, NEW price \in Costs, SyncItemPurchasePrices(i, price) PROVE Quiet
  <2>1. UNCHANGED <<request, rushed, bulked, spent>>
    BY <1>12 DEF SyncItemPurchasePrices, history
  <2>2. Still({})
    BY <1>12, RowFields DEF SyncItemPurchasePrices, Still, Live, TypeOK, ItemRow
  <2> QED
    BY <2>1, <2>2 DEF Quiet, Writes
<1>13. ASSUME NEW i \in Items, NEW qty \in Int, AdjustStock(i, qty) PROVE Quiet
  <2>1. UNCHANGED <<request, rushed, bulked, spent>>
    BY <1>13 DEF AdjustStock, history
  <2>2. Still({})
    BY <1>13, RowFields DEF AdjustStock, Still, Live, TypeOK, ItemRow
  <2> QED
    BY <2>1, <2>2 DEF Quiet, Writes
<1>14. ASSUME NEW c \in Clients, VerifyData(c) PROVE Quiet
  BY <1>0, <1>14, QuietRequest DEF VerifyData, Quiet, history
<1>15. \A c \in Clients, i \in Items : Rest(request[c], i).is \notin {"insert", "write", "assign"}
  BY DEF Rest, Idle
<1>16. ASSUME NEW c \in Clients, NEW i \in Items, Compare(c, i) PROVE Quiet
  <2> DEFINE q == request[c]
             r == IF q.actual[i] = items[i].level THEN Rest(q, i)
                  ELSE [is |-> "fix", actual |-> q.actual, item |-> i, expected |-> items[i].level]
  <2>1. request' = [request EXCEPT ![c] = r] /\ UNCHANGED <<items, rushed, bulked, spent>>
    BY <1>16 DEF Compare, history
  <2>2. r.is \notin {"insert", "write", "assign"}
    BY <1>15
  <2> HIDE DEF r
  <2> QED
    BY <1>0, <2>1, <2>2, QuietRequest DEF Quiet
<1>17. ASSUME NEW c \in Clients, Fix(c) PROVE Quiet
  <2>1. request[c].is = "fix" /\ Of(c) \in Items /\ items[Of(c)] # None
    BY <1>17, Fields DEF Fix, Refers
  <2>2. items[Of(c)] \in ItemRow
    BY <2>1, RowFields
  <2>3. Still({})
    BY <1>17, <2>1, <2>2 DEF Fix, Still, Live, TypeOK, ItemRow, Of
  <2>4. request' = [request EXCEPT ![c] = Rest(request[c], Of(c))] /\ UNCHANGED <<rushed, bulked, spent>>
    BY <1>17 DEF Fix, Of
  <2> QED
    BY <1>15, <2>1, <2>3, <2>4, QuietRequest DEF Quiet
<1> QED
  BY <1>1, <1>2, <1>3, <1>4, <1>5, <1>6, <1>7, <1>8, <1>9, <1>10, <1>11, <1>12, <1>13, <1>14,
     <1>16, <1>17, Steps

-----------------------------------------------------------------------------
(* Barcodes hold the cost.                                                 *)

CostInv == CostsCarried /\ Costed

LEMMA CarriesMore ==
  ASSUME NEW r, NEW S, NEW T, S \subseteq T, CarriesCost(r, S)
  PROVE  CarriesCost(r, T)
BY DEF CarriesCost

LEMMA CarryOn ==
  ASSUME TypeOK, CostInv, NEW c \in Clients, NEW r, request' = [request EXCEPT ![c] = r],
         CarriesCost(r, uncosted'), uncosted \subseteq uncosted'
  PROVE  CostsCarried'
<1>1. request'[c] = r /\ \A d \in Clients \ {c} : request'[d] = request[d]
  BY DEF TypeOK
<1> QED
  BY <1>1, CarriesMore DEF CostInv, CostsCarried

LEMMA CarriesNothing ==
  ASSUME NEW r, r.is \notin {"insert", "write", "assign"}
  PROVE  \A S : CarriesCost(r, S)
BY DEF CarriesCost

LEMMA CostStep == TypeOK /\ Inserts /\ Refers /\ CostInv /\ [Next]_vars => CostInv'
<1> SUFFICES ASSUME TypeOK, Inserts, Refers, CostInv, [Next]_vars PROVE CostInv'
  OBVIOUS
<1>0. UNCHANGED items /\ crossed \subseteq crossed' /\ uncosted \subseteq uncosted' => Costed'
  BY DEF CostInv, Costed, ShowsCost
<1>1. CASE UNCHANGED vars
  BY <1>1 DEF vars, CostInv, CostsCarried, Costed, ShowsCost
<1>2. ASSUME NEW c \in Clients, NEW i \in Items, NEW name \in Names, NEW code \in Codes,
             NEW cost \in Costs, NEW opening \in Int, Create(c, i, name, code, cost, opening)
      PROVE  CostInv'
  <2> DEFINE b == GenerateUniqueBarcode(code, code, cost, None, {})
             row == [NewItem(name, code, cost, cost, opening) EXCEPT !.barcode = b]
             r == [is |-> "insert", item |-> i, row |-> row,
                   exhausted |-> Exhausted(code, cost, None, {})]
  <2>1. request' = [request EXCEPT ![c] = r] /\ UNCHANGED <<items, crossed, uncosted>>
    BY <1>2 DEF Create
  <2>2. b.cost = EncodeCostSuffix(cost)
    BY Generated, CodesAssumption, NumbersAssumption
  <2>3. row.barcode = b /\ row.cost = cost
    BY DEF NewItem
  <2> HIDE DEF b, row
  <2>4. CarriesCost(r, uncosted')
    BY <2>2, <2>3 DEF CarriesCost
  <2> HIDE DEF r
  <2> QED
    BY <1>0, <2>1, <2>4, CarryOn DEF CostInv
<1>3. ASSUME NEW c \in Clients, Insert(c) PROVE CostInv'
  <2>1. request[c].is = "insert" /\ Of(c) \in Items
    BY <1>3, Fields DEF Insert
  <2>2. request' = [request EXCEPT ![c] = Idle] /\ UNCHANGED <<crossed, uncosted>>
    BY <1>3 DEF Insert
  <2>3. CostsCarried'
    BY <2>2, CarryOn, CarriesNothing DEF Idle
  <2>4. ShowsCost(request[c].row)
    BY <2>1 DEF CostInv, CostsCarried, CarriesCost, ShowsCost
  <2>5. /\ \A j \in Items \ {Of(c)} : items'[j] = items[j]
        /\ items'[Of(c)] = items[Of(c)] \/ items'[Of(c)] = request[c].row
    BY <1>3, <2>1 DEF Insert, TypeOK, Of
  <2>6. Costed'
    BY <2>2, <2>4, <2>5 DEF CostInv, Costed, ShowsCost
  <2> QED
    BY <2>3, <2>6 DEF CostInv
<1>4. ASSUME NEW c \in Clients, NEW i \in Items, OpenEdit(c, i) PROVE CostInv'
  <2> DEFINE r == [is |-> "form", item |-> i, purchase |-> items[i].purchase]
  <2>1. request' = [request EXCEPT ![c] = r] /\ UNCHANGED <<items, crossed, uncosted>>
    BY <1>4 DEF OpenEdit, history
  <2>2. r.is = "form"
    OBVIOUS
  <2> HIDE DEF r
  <2> QED
    BY <1>0, <2>1, <2>2, CarryOn, CarriesNothing DEF CostInv
<1>5. ASSUME NEW c \in Clients, CloseEdit(c) \/ WriteRefused(c) PROVE CostInv'
  BY <1>0, <1>5, CarryOn, CarriesNothing DEF CloseEdit, WriteRefused, history, Idle, CostInv
<1>6. ASSUME NEW c \in Clients, NEW code \in Codes, NEW cost \in Costs, Save(c, code, cost)
      PROVE CostInv'
  <2> DEFINE i == request[c].item
             b == Rebuilt(i, code, cost)
             r == [is |-> "write", item |-> i, code |-> code, cost |-> cost,
                   purchase |-> request[c].purchase, barcode |-> b, read |-> items[i],
                   exhausted |-> Exhausted(code, cost, KeptPrefix(i), {i})]
  <2>1. /\ request' = [request EXCEPT ![c] = r] /\ UNCHANGED <<items, crossed>>
        /\ uncosted' = IF items[i].cost = 0 THEN uncosted \cup {i} ELSE uncosted
        /\ request[c].is = "form" /\ Live(i)
    BY <1>6 DEF Save
  <2>2. i \in Items /\ cost \in Nat /\ code \in Seq(Nat)
    BY <2>1, Fields, NumbersAssumption, CodesAssumption DEF Of
  <2>3. b # None => b.cost = EncodeCostSuffix(cost)
    <3>1. GenerateUniqueBarcode(code, Digits[i], cost, KeptPrefix(i), {i}).cost
            = EncodeCostSuffix(cost)
      <4> HIDE DEF i
      <4> QED
        BY <2>1, <2>2, Found
    <3> QED
      BY <3>1 DEF Rebuilt
  <2>4. b = None /\ items[i].cost > 0 => cost = items[i].cost
    <3>1. GenerateUniqueBarcode(code, Digits[i], cost, KeptPrefix(i), {i}) # None
      <4> HIDE DEF i
      <4> QED
        BY <2>1, <2>2, Found
    <3> QED
      BY <3>1 DEF Rebuilt, CurrentCost
  <2> HIDE DEF b, i
  <2>5. CarriesCost(r, uncosted')
    BY <2>1, <2>3, <2>4 DEF CarriesCost
  <2> HIDE DEF r
  <2> QED
    BY <1>0, <2>1, <2>5, CarryOn DEF CostInv
<1>7. ASSUME NEW c \in Clients, Write(c) PROVE CostInv'
  <2> DEFINE r == request[c]
             i == Of(c)
  <2>1. /\ r.is = "write" /\ i \in Items /\ items[i] # None
        /\ r.cost \in Nat /\ r.read.cost \in Nat
    BY <1>7, Fields, NumbersAssumption DEF Write, Refers, ItemRow
  <2>2. items[i] \in ItemRow
    BY <2>1, RowFields
  <2>3. /\ request' = [request EXCEPT ![c] = Idle] /\ uncosted' = uncosted
        /\ crossed' = IF items[i].cost # r.read.cost \/ items[i].barcode # r.read.barcode
                      THEN crossed \cup {i} ELSE crossed
    BY <1>7 DEF Write, Of
  <2>4. CostsCarried'
    BY <2>3, CarryOn, CarriesNothing DEF Idle
  <2>5. /\ \A j \in Items \ {i} : items'[j] = items[j]
        /\ items'[i].cost = r.cost
        /\ items'[i].barcode = IF r.barcode = None THEN items[i].barcode ELSE r.barcode
    BY <1>7, <2>1, <2>2 DEF Write, TypeOK, ItemRow, Of
  <2>6. CarriesCost(r, uncosted)
    BY DEF CostInv, CostsCarried
  <2>7. i \notin crossed' \cup uncosted' => ShowsCost(items'[i])
    <3>1. CASE r.barcode # None
      BY <2>1, <2>5, <2>6, <3>1 DEF CarriesCost, ShowsCost
    <3>2. CASE r.barcode = None
      <4> SUFFICES ASSUME i \notin crossed' \cup uncosted' PROVE ShowsCost(items'[i])
        OBVIOUS
      <4>1. items[i].cost = r.read.cost /\ i \notin crossed \cup uncosted
        BY <2>3
      <4>2. r.cost = r.read.cost
        BY <2>1, <2>6, <3>2, <4>1 DEF CarriesCost, Of
      <4> QED
        BY <2>1, <2>5, <3>2, <4>1, <4>2 DEF CostInv, Costed, ShowsCost
    <3> QED
      BY <3>1, <3>2
  <2>8. Costed'
    BY <2>3, <2>5, <2>7 DEF CostInv, Costed, ShowsCost
  <2> QED
    BY <2>4, <2>8 DEF CostInv
<1>8. ASSUME NEW c \in Clients, NEW i \in Items, AssignBarcode(c, i) PROVE CostInv'
  <2> DEFINE g == GenerateUniqueBarcode(items[i].code, Digits[i], CurrentCost(i), KeptPrefix(i), {i})
             r == [is |-> "assign", item |-> i, cost |-> items[i].cost, barcode |-> g,
                   exhausted |-> Exhausted(items[i].code, CurrentCost(i), KeptPrefix(i), {i})]
  <2>1. /\ request' = [request EXCEPT ![c] = r] /\ UNCHANGED <<items, crossed, uncosted>>
        /\ Live(i)
    BY <1>8 DEF AssignBarcode
  <2>2. g.cost = EncodeCostSuffix(CurrentCost(i))
    <3>1. CurrentCost(i) \in Nat /\ items[i].code \in Seq(Nat)
      BY <2>1, RowFields DEF Live
    <3> QED
      BY <2>1, <3>1, Found
  <2> HIDE DEF g
  <2>3. CarriesCost(r, uncosted')
    BY <2>2 DEF CarriesCost, CurrentCost
  <2> HIDE DEF r
  <2> QED
    BY <1>0, <2>1, <2>3, CarryOn DEF CostInv
<1>9. ASSUME NEW c \in Clients, Assign(c) PROVE CostInv'
  <2> DEFINE r == request[c]
             i == Of(c)
  <2>1. r.is = "assign" /\ i \in Items /\ items[i] # None
    BY <1>9, Fields DEF Assign, Refers
  <2>2. items[i] \in ItemRow
    BY <2>1, RowFields
  <2>3. /\ request' = [request EXCEPT ![c] = Idle] /\ uncosted' = uncosted
        /\ crossed' = IF items[i].cost # r.cost THEN crossed \cup {i} ELSE crossed
    BY <1>9 DEF Assign, Of
  <2>4. CostsCarried'
    BY <2>3, CarryOn, CarriesNothing DEF Idle
  <2>5. /\ \A j \in Items \ {i} : items'[j] = items[j]
        /\ items'[i].cost = items[i].cost /\ items'[i].barcode = r.barcode
    BY <1>9, <2>1, <2>2 DEF Assign, TypeOK, ItemRow, Of
  <2>6. CarriesCost(r, uncosted)
    BY DEF CostInv, CostsCarried
  <2>7. i \notin crossed' => ShowsCost(items'[i])
    BY <2>1, <2>3, <2>5, <2>6 DEF CarriesCost, ShowsCost
  <2>8. Costed'
    BY <2>3, <2>5, <2>7 DEF CostInv, Costed, ShowsCost
  <2> QED
    BY <2>4, <2>8 DEF CostInv
<1>10. ASSUME NEW c \in Clients, BulkGenerateBarcodes(c) PROVE CostInv'
  <2> DEFINE r == [is |-> "bulk",
                   todo |-> [i \in {j \in LiveItems : items[j].barcode = None} |-> CurrentCost(i)]]
  <2>1. request' = [request EXCEPT ![c] = r] /\ UNCHANGED <<items, crossed, uncosted>>
    BY <1>10 DEF BulkGenerateBarcodes, history
  <2>2. r.is = "bulk"
    OBVIOUS
  <2> HIDE DEF r
  <2> QED
    BY <1>0, <2>1, <2>2, CarryOn, CarriesNothing DEF CostInv
<1>11. ASSUME NEW c \in Clients, NEW i \in Items, BulkWrite(c, i) PROVE CostInv'
  <2> DEFINE todo == request[c].todo
             r == IF DOMAIN todo = {i} THEN Idle
                  ELSE [is |-> "bulk", todo |-> [j \in DOMAIN todo \ {i} |-> todo[j]]]
             b == BuildItemBarcode(Prefix(items[i].code), todo[i])
  <2>1. request[c].is = "bulk" /\ i \in DOMAIN todo
    BY <1>11 DEF BulkWrite
  <2>2. todo \in [DOMAIN todo -> Costs] /\ items[i] # None
    BY <2>1, Fields DEF Refers
  <2>3. items[i] \in ItemRow /\ items[i].cost \in Nat /\ items[i].code \in Seq(Nat)
    BY <2>2, RowFields, NumbersAssumption
  <2>4. /\ request' = [request EXCEPT ![c] = r] /\ uncosted' = uncosted
        /\ crossed' = IF CurrentCost(i) # todo[i] THEN crossed \cup {i} ELSE crossed
        /\ items' = [items EXCEPT ![i].barcode = b]
    BY <1>11 DEF BulkWrite
  <2>5. b.cost = EncodeCostSuffix(todo[i])
    <3>1. todo[i] \in Nat
      BY <2>1, <2>2, NumbersAssumption
    <3>2. Prefix(items[i].code) \in [1..PrefixDigits -> Nat]
      BY <2>3, PrefixType
    <3> HIDE DEF todo
    <3> QED
      BY <3>1, <3>2, BuildType
  <2>6. r.is \notin {"insert", "write", "assign"}
    BY DEF Idle
  <2> HIDE DEF b, r, todo
  <2>7. CostsCarried'
    BY <2>4, <2>6, CarryOn, CarriesNothing
  <2>8. /\ \A j \in Items \ {i} : items'[j] = items[j]
        /\ items'[i].cost = items[i].cost /\ items'[i].barcode = b
    BY <2>3, <2>4 DEF TypeOK, ItemRow
  <2>9. i \notin crossed' => ShowsCost(items'[i])
    BY <2>3, <2>4, <2>5, <2>8 DEF ShowsCost, CurrentCost
  <2>10. Costed'
    BY <2>4, <2>8, <2>9 DEF CostInv, Costed, ShowsCost
  <2> QED
    BY <2>7, <2>10 DEF CostInv
<1>12. ASSUME NEW i \in Items, Remove(i) PROVE CostInv'
  <2>1. UNCHANGED <<request, crossed, uncosted>> /\ items[i] # None
    BY <1>12 DEF Remove, history, Live
  <2>2. items[i] \in ItemRow
    BY <2>1, RowFields
  <2>3. /\ \A j \in Items \ {i} : items'[j] = items[j]
        /\ items'[i].barcode = items[i].barcode /\ items'[i].cost = items[i].cost
    BY <1>12, <2>2 DEF Remove, TypeOK, ItemRow
  <2> QED
    BY <2>1, <2>3 DEF CostInv, CostsCarried, Costed, ShowsCost
<1>13. ASSUME NEW i \in Items, NEW price \in Costs, SyncItemPurchasePrices(i, price) PROVE CostInv'
  <2>1. UNCHANGED <<request, crossed, uncosted>> /\ items[i] # None
    BY <1>13 DEF SyncItemPurchasePrices, history, Live
  <2>2. items[i] \in ItemRow
    BY <2>1, RowFields
  <2>3. /\ \A j \in Items \ {i} : items'[j] = items[j]
        /\ items'[i].barcode = items[i].barcode /\ items'[i].cost = items[i].cost
    BY <1>13, <2>2 DEF SyncItemPurchasePrices, TypeOK, ItemRow
  <2> QED
    BY <2>1, <2>3 DEF CostInv, CostsCarried, Costed, ShowsCost
<1>14. ASSUME NEW i \in Items, NEW qty \in Int, AdjustStock(i, qty) PROVE CostInv'
  <2>1. UNCHANGED <<request, crossed, uncosted>> /\ items[i] # None
    BY <1>14 DEF AdjustStock, history, Live
  <2>2. items[i] \in ItemRow
    BY <2>1, RowFields
  <2>3. /\ \A j \in Items \ {i} : items'[j] = items[j]
        /\ items'[i].barcode = items[i].barcode /\ items'[i].cost = items[i].cost
    BY <1>14, <2>2 DEF AdjustStock, TypeOK, ItemRow
  <2> QED
    BY <2>1, <2>3 DEF CostInv, CostsCarried, Costed, ShowsCost
<1>15. ASSUME NEW c \in Clients, VerifyData(c) PROVE CostInv'
  <2> DEFINE r == [is |-> "verify", actual |-> [i \in LiveItems |-> items[i].stock]]
  <2>1. request' = [request EXCEPT ![c] = r] /\ UNCHANGED <<items, crossed, uncosted>>
    BY <1>15 DEF VerifyData, history
  <2>2. r.is = "verify"
    OBVIOUS
  <2> HIDE DEF r
  <2> QED
    BY <1>0, <2>1, <2>2, CarryOn, CarriesNothing DEF CostInv
<1>16. \A c \in Clients, i \in Items : Rest(request[c], i).is \notin {"insert", "write", "assign"}
  BY DEF Rest, Idle
<1>17. ASSUME NEW c \in Clients, NEW i \in Items, Compare(c, i) PROVE CostInv'
  <2> DEFINE q == request[c]
             r == IF q.actual[i] = items[i].level THEN Rest(q, i)
                  ELSE [is |-> "fix", actual |-> q.actual, item |-> i, expected |-> items[i].level]
  <2>1. request' = [request EXCEPT ![c] = r] /\ UNCHANGED <<items, crossed, uncosted>>
    BY <1>17 DEF Compare, history
  <2>2. r.is \notin {"insert", "write", "assign"}
    BY <1>16
  <2> HIDE DEF r
  <2> QED
    BY <1>0, <2>1, <2>2, CarryOn, CarriesNothing DEF CostInv
<1>18. ASSUME NEW c \in Clients, Fix(c) PROVE CostInv'
  <2> DEFINE i == Of(c)
  <2>1. request[c].is = "fix" /\ i \in Items /\ items[i] # None
    BY <1>18, Fields DEF Fix, Refers
  <2>2. items[i] \in ItemRow
    BY <2>1, RowFields
  <2>3. /\ request' = [request EXCEPT ![c] = Rest(request[c], i)] /\ UNCHANGED <<crossed, uncosted>>
        /\ items' = [items EXCEPT ![i].stock = request[c].expected]
    BY <1>18 DEF Fix, Of
  <2>4. /\ \A j \in Items \ {i} : items'[j] = items[j]
        /\ items'[i].barcode = items[i].barcode /\ items'[i].cost = items[i].cost
    BY <2>2, <2>3 DEF TypeOK, ItemRow
  <2>5. CostsCarried'
    BY <1>16, <2>1, <2>3, CarryOn, CarriesNothing
  <2>6. Costed'
    BY <2>1, <2>3, <2>4 DEF CostInv, Costed, ShowsCost
  <2> QED
    BY <2>5, <2>6 DEF CostInv
<1> QED
  BY <1>1, <1>2, <1>3, <1>4, <1>5, <1>6, <1>7, <1>8, <1>9, <1>10, <1>11, <1>12, <1>13, <1>14,
     <1>15, <1>17, <1>18, Steps

-----------------------------------------------------------------------------
(* The two tables that hold the stock agree.                               *)

StockInv == StockCarried /\ Stocked

LEMMA StockOn ==
  ASSUME TypeOK, StockInv, NEW c \in Clients, NEW r, r.is # "insert",
         request' = [request EXCEPT ![c] = r]
  PROVE  StockCarried'
<1>1. request'[c] = r /\ \A d \in Clients \ {c} : request'[d] = request[d]
  BY DEF TypeOK
<1> QED
  BY <1>1 DEF StockInv, StockCarried

LEMMA StockRow ==
  ASSUME StockInv, NEW i \in Items, \A j \in Items \ {i} : items'[j] = items[j],
         fixed \subseteq fixed', i \notin fixed' => items'[i].stock = items'[i].level
  PROVE  Stocked'
BY DEF StockInv, Stocked

LEMMA StockStep == TypeOK /\ Inserts /\ Refers /\ StockInv /\ [Next]_vars => StockInv'
<1> SUFFICES ASSUME TypeOK, Inserts, Refers, StockInv, [Next]_vars PROVE StockInv'
  OBVIOUS
<1>0. UNCHANGED items /\ fixed \subseteq fixed' => Stocked'
  BY DEF StockInv, Stocked
<1>1. CASE UNCHANGED vars
  BY <1>1 DEF vars, StockInv, StockCarried, Stocked
<1>2. ASSUME NEW c \in Clients, NEW i \in Items, NEW name \in Names, NEW code \in Codes,
             NEW cost \in Costs, NEW opening \in Int, Create(c, i, name, code, cost, opening)
      PROVE  StockInv'
  <2> DEFINE row == [NewItem(name, code, cost, cost, opening) EXCEPT
                       !.barcode = GenerateUniqueBarcode(code, code, cost, None, {})]
             r == [is |-> "insert", item |-> i, row |-> row,
                   exhausted |-> Exhausted(code, cost, None, {})]
  <2>1. request' = [request EXCEPT ![c] = r] /\ UNCHANGED <<items, fixed>>
    BY <1>2 DEF Create
  <2>2. row.stock = row.level
    BY DEF NewItem
  <2> HIDE DEF row
  <2>3. request'[c] = r /\ \A d \in Clients \ {c} : request'[d] = request[d]
    BY <2>1 DEF TypeOK
  <2>4. StockCarried'
    BY <2>2, <2>3 DEF StockInv, StockCarried
  <2> QED
    BY <1>0, <2>1, <2>4 DEF StockInv
<1>3. ASSUME NEW c \in Clients, Insert(c) PROVE StockInv'
  <2>1. request[c].is = "insert" /\ Of(c) \in Items
    BY <1>3, Fields DEF Insert
  <2>2. request' = [request EXCEPT ![c] = Idle] /\ fixed' = fixed
    BY <1>3 DEF Insert
  <2>3. /\ \A j \in Items \ {Of(c)} : items'[j] = items[j]
        /\ items' = items \/ items'[Of(c)] = request[c].row
    BY <1>3, <2>1 DEF Insert, TypeOK, Of
  <2>4. request[c].row.stock = request[c].row.level
    BY <2>1 DEF StockInv, StockCarried
  <2>5. StockCarried'
    BY <2>2, StockOn DEF Idle
  <2> QED
    BY <1>0, <2>1, <2>2, <2>3, <2>4, <2>5, StockRow DEF StockInv
<1>4. ASSUME NEW c \in Clients, NEW r, r.is # "insert", request' = [request EXCEPT ![c] = r],
             UNCHANGED <<items, fixed>>
      PROVE  StockInv'
  BY <1>0, <1>4, StockOn DEF StockInv
<1>5. ASSUME NEW c \in Clients, NEW i \in Items, OpenEdit(c, i) PROVE StockInv'
  BY <1>4, <1>5 DEF OpenEdit, history
<1>6. ASSUME NEW c \in Clients, CloseEdit(c) \/ WriteRefused(c) PROVE StockInv'
  BY <1>4, <1>6 DEF CloseEdit, WriteRefused, history, Idle
<1>7. ASSUME NEW c \in Clients, NEW code \in Codes, NEW cost \in Costs, Save(c, code, cost)
      PROVE StockInv'
  BY <1>4, <1>7 DEF Save
<1>8. ASSUME NEW c \in Clients, Write(c) \/ Assign(c) PROVE StockInv'
  <2>1. Of(c) \in Items /\ items[Of(c)] # None
    BY <1>8, Fields DEF Write, Assign, Refers
  <2>2. items[Of(c)] \in ItemRow
    BY <2>1, RowFields
  <2>3. /\ \A j \in Items \ {Of(c)} : items'[j] = items[j]
        /\ items'[Of(c)].stock = items[Of(c)].stock /\ items'[Of(c)].level = items[Of(c)].level
    BY <1>8, <2>1, <2>2 DEF Write, Assign, TypeOK, ItemRow, Of
  <2>4. request' = [request EXCEPT ![c] = Idle] /\ fixed' = fixed
    BY <1>8 DEF Write, Assign
  <2>5. StockCarried'
    BY <2>4, StockOn DEF Idle
  <2>6. Stocked'
    BY <2>1, <2>3, <2>4, StockRow DEF StockInv, Stocked
  <2> QED
    BY <2>5, <2>6 DEF StockInv
<1>9. ASSUME NEW c \in Clients, NEW i \in Items, AssignBarcode(c, i) PROVE StockInv'
  BY <1>4, <1>9 DEF AssignBarcode
<1>10. ASSUME NEW c \in Clients, BulkGenerateBarcodes(c) PROVE StockInv'
  BY <1>4, <1>10 DEF BulkGenerateBarcodes, history
<1>11. ASSUME NEW c \in Clients, NEW i \in Items, BulkWrite(c, i) PROVE StockInv'
  <2> DEFINE todo == request[c].todo
             r == IF DOMAIN todo = {i} THEN Idle
                  ELSE [is |-> "bulk", todo |-> [j \in DOMAIN todo \ {i} |-> todo[j]]]
  <2>1. items[i] # None
    BY <1>11 DEF BulkWrite, Refers
  <2>2. items[i] \in ItemRow
    BY <2>1, RowFields
  <2>3. request' = [request EXCEPT ![c] = r] /\ fixed' = fixed
    BY <1>11 DEF BulkWrite
  <2>4. /\ \A j \in Items \ {i} : items'[j] = items[j]
        /\ items'[i].stock = items[i].stock /\ items'[i].level = items[i].level
    BY <1>11, <2>2 DEF BulkWrite, TypeOK, ItemRow
  <2>5. r.is # "insert"
    BY DEF Idle
  <2> HIDE DEF r
  <2>6. StockCarried'
    BY <2>3, <2>5, StockOn
  <2>7. Stocked'
    BY <2>1, <2>3, <2>4, StockRow DEF StockInv, Stocked
  <2> QED
    BY <2>6, <2>7 DEF StockInv
<1>12. ASSUME NEW i \in Items, \/ Remove(i)
                               \/ \E price \in Costs : SyncItemPurchasePrices(i, price)
       PROVE  StockInv'
  <2>1. UNCHANGED <<request, fixed>> /\ items[i] # None
    BY <1>12 DEF Remove, SyncItemPurchasePrices, history, Live
  <2>2. items[i] \in ItemRow
    BY <2>1, RowFields
  <2>3. /\ \A j \in Items \ {i} : items'[j] = items[j]
        /\ items'[i].stock = items[i].stock /\ items'[i].level = items[i].level
    BY <1>12, <2>2 DEF Remove, SyncItemPurchasePrices, TypeOK, ItemRow
  <2>4. Stocked'
    BY <2>1, <2>3, StockRow DEF StockInv, Stocked
  <2> QED
    BY <2>1, <2>4 DEF StockInv, StockCarried
<1>13. ASSUME NEW i \in Items, NEW qty \in Int, AdjustStock(i, qty) PROVE StockInv'
  <2>1. UNCHANGED <<request, fixed>> /\ items[i] # None
    BY <1>13 DEF AdjustStock, history, Live
  <2>2. items[i] \in ItemRow
    BY <2>1, RowFields
  <2>3. /\ \A j \in Items \ {i} : items'[j] = items[j]
        /\ items'[i].stock = items[i].stock + qty /\ items'[i].level = items[i].level + qty
    BY <1>13, <2>2 DEF AdjustStock, TypeOK, ItemRow
  <2>4. Stocked'
    BY <2>1, <2>3, StockRow DEF StockInv, Stocked
  <2> QED
    BY <2>1, <2>4 DEF StockInv, StockCarried
<1>14. ASSUME NEW c \in Clients, VerifyData(c) PROVE StockInv'
  BY <1>4, <1>14 DEF VerifyData, history
<1>15. \A c \in Clients, i \in Items : Rest(request[c], i).is # "insert"
  BY DEF Rest, Idle
<1>16. ASSUME NEW c \in Clients, NEW i \in Items, Compare(c, i) PROVE StockInv'
  <2> DEFINE q == request[c]
             r == IF q.actual[i] = items[i].level THEN Rest(q, i)
                  ELSE [is |-> "fix", actual |-> q.actual, item |-> i, expected |-> items[i].level]
  <2>1. request' = [request EXCEPT ![c] = r] /\ UNCHANGED <<items, fixed>>
    BY <1>16 DEF Compare, history
  <2>2. r.is # "insert"
    BY <1>15
  <2> HIDE DEF r
  <2> QED
    BY <1>4, <2>1, <2>2
<1>17. ASSUME NEW c \in Clients, Fix(c) PROVE StockInv'
  <2> DEFINE i == Of(c)
  <2>1. request[c].is = "fix" /\ i \in Items /\ items[i] # None
    BY <1>17, Fields DEF Fix, Refers
  <2>2. items[i] \in ItemRow
    BY <2>1, RowFields
  <2>3. /\ request' = [request EXCEPT ![c] = Rest(request[c], i)]
        /\ fixed' = IF items[i].level # request[c].expected THEN fixed \cup {i} ELSE fixed
        /\ items' = [items EXCEPT ![i].stock = request[c].expected]
    BY <1>17 DEF Fix, Of
  <2>4. /\ \A j \in Items \ {i} : items'[j] = items[j]
        /\ items'[i].stock = request[c].expected /\ items'[i].level = items[i].level
    BY <2>1, <2>2, <2>3 DEF TypeOK, ItemRow
  <2>5. StockCarried'
    BY <1>15, <2>1, <2>3, StockOn
  <2>6. Stocked'
    BY <2>1, <2>3, <2>4, StockRow
  <2> QED
    BY <2>5, <2>6 DEF StockInv
<1> QED
  BY <1>1, <1>2, <1>3, <1>5, <1>6, <1>7, <1>8, <1>9, <1>10, <1>11, <1>12, <1>13, <1>14,
     <1>16, <1>17, Steps

-----------------------------------------------------------------------------
(* The theorems.                                                           *)

LEMMA InitIInv == Init => IInv
<1> SUFFICES ASSUME Init PROVE IInv
  OBVIOUS
<1>1. TypeOK
  BY InitType
<1>2. \A c \in Clients : request[c] = Idle /\ request[c].is = "idle"
  BY DEF Init, Idle
<1>3. Inserts /\ Refers /\ Apart /\ Clear /\ CostsCarried /\ StockCarried
  BY <1>2 DEF Inserts, Refers, Apart, Clear, Writes, CostsCarried, CarriesCost, StockCarried
<1>4. \A i \in Items : items[i] # None => items[i].barcode = None /\ items[i].stock = items[i].level
  BY DEF Init, NewItem
<1>5. Unique /\ Costed /\ Stocked
  BY <1>4 DEF Unique, Sound, Costed, ShowsCost, Stocked, Live
<1> QED
  BY <1>1, <1>3, <1>5 DEF IInv

LEMMA NextIInv == IInv /\ [Next]_vars => IInv'
<1> SUFFICES ASSUME IInv, [Next]_vars PROVE IInv'
  OBVIOUS
<1>1. TypeOK' /\ Inserts' /\ Refers'
  BY TypeStep, RefersStep DEF IInv
<1>2. UniqueInv'
  <2>1. CASE UNCHANGED vars
    BY <2>1 DEF IInv, UniqueInv, vars, Apart, Clear, Unique, Sound, Live, Writes, Of, NewBarcode
  <2>2. CASE Next
    BY <2>2, KindsOfStep, QuietKeeps, LooksKeeps, StoresKeeps, BulksKeeps DEF IInv, UniqueInv
  <2> QED
    BY <2>1, <2>2
<1>3. CostInv' /\ StockInv'
  BY CostStep, StockStep DEF IInv, CostInv, StockInv
<1> QED
  BY <1>1, <1>2, <1>3 DEF IInv, UniqueInv, CostInv, StockInv

(* The invariant behind the properties: rows and requests keep their       *)
(* types, what requests refer to is there, and what they carry is as it    *)
(* was found (barcode.util.ts, items.service.ts, utilities.service.ts).    *)
THEOREM Safety == Spec => []IInv
BY InitIInv, NextIInv, PTL DEF Spec

(* A scan finds one item only, unless its barcode or the other's was       *)
(* looked for while others were being written, came from the bulk run or   *)
(* is the fallback (generateUniqueBarcode, assignBarcode, create, update), *)
(* or the other's item code has as many digits as a barcode, for the scan  *)
(* looks at item codes, too (findByBarcode).                               *)
THEOREM OneItemPerBarcode == Spec => []BarcodesUnique
<1>1. IInv => BarcodesUnique
  <2> SUFFICES ASSUME IInv,
                      NEW i \in LiveItems \ (rushed \cup bulked \cup spent), items[i].barcode # None,
                      NEW j \in FindByBarcode(items[i].barcode),
                      j \notin {i} \cup rushed \cup bulked \cup spent
               PROVE  j \in CodedLikeBarcodes
    BY DEF BarcodesUnique
  <2>1. i \in Items /\ j \in Items /\ Live(i) /\ Live(j)
    BY DEF FindByBarcode, LiveItems
  <2>2. items[j].barcode # items[i].barcode
    BY <2>1 DEF IInv, Unique, Sound
  <2>3. items[j].code = Append(items[i].barcode.prefix, items[i].barcode.cost)
    BY <2>2 DEF FindByBarcode, AsCode
  <2>4. items[i].barcode.prefix \in [1..PrefixDigits -> Nat] /\ items[i].barcode.cost \in Nat
    <3>1. items[i] \in ItemRow
      BY <2>1, RowFields DEF IInv, Live
    <3>2. items[i].barcode \in Barcodes
      BY <3>1 DEF ItemRow
    <3> QED
      BY <3>2, NumbersAssumption DEF Barcodes
  <2>5. items[i].barcode.prefix \in Seq(Nat) /\ Len(items[i].barcode.prefix) = PrefixDigits
    BY <2>4, NumbersAssumption
  <2>6. Len(items[j].code) = PrefixDigits + 1
    BY <2>3, <2>4, <2>5
  <2> QED
    BY <2>1, <2>6 DEF CodedLikeBarcodes, LiveItems
<1> QED
  BY <1>1, Safety, PTL

(* A barcode decodes to the cost price of its item, unless two requests    *)
(* crossed on the item or it was priced by a purchase only.                *)
THEOREM CostDecoded == Spec => []BarcodeDecodesCost
<1>1. IInv => BarcodeDecodesCost
  BY DEF IInv, Costed, ShowsCost, BarcodeDecodesCost, DecodeCost, LiveItems, Live
<1> QED
  BY <1>1, Safety, PTL

(* Stock and stock level agree, whatever is adjusted while verifyData      *)
(* runs, unless the stock moves between its look and its write.            *)
THEOREM StockVerified == Spec => []VerifiedStockAgrees
<1>1. IInv => VerifiedStockAgrees
  BY DEF IInv, Stocked, VerifiedStockAgrees, ListStock, LiveItems, Live
<1> QED
  BY <1>1, Safety, PTL
=============================================================================
