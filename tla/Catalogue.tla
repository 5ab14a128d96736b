----------------------------- MODULE Catalogue -----------------------------
(***************************************************************************)
(* The items of a business: their codes, cost prices and stock, as the     *)
(* Items page, the import and purchase bills change them side by side.     *)
(*                                                                         *)
(* A barcode is eight digits taken from the item code and five that are    *)
(* the cost price.  The server looks for one that no other item has and    *)
(* writes it later; nothing in the database keeps it unique.  The page     *)
(* sends back every field of the form it opened, and verifyData compares   *)
(* the two tables that hold the stock and writes one from the other.       *)
(*                                                                         *)
(* Abstractions: a code is the sequence of its digits; one shop, so that   *)
(* an item has one stock level; the thirty attempts at a barcode look at   *)
(* the items at one moment.                                                *)
(***************************************************************************)
EXTENDS Integers, Sequences, FiniteSetsExt

CONSTANTS
    None,
    Items,          \* ids of items
    Digits,         \* the digits in an id
    Codes,          \* item codes, as sequences of digits
    Names,
    Costs,          \* cost prices; 0 is "no cost price"
    Quantities,     \* opening stock, and what is added or taken away
    Clients,        \* requests and forms open at the same time
    PrefixDigits,   \* digits of the code that enter the barcode
    MaxSuffix,      \* the largest cost the suffix can hold
    Attempts,       \* candidates tried for a barcode
    Legacy,         \* migrated items, which have no barcode yet
    LegacyCode,
    MaxRequests     \* bound: requests made

Barcodes == [prefix : [1..PrefixDigits -> Nat], cost : 0..MaxSuffix]

ItemRow ==
    [name : Names, code : Codes, cost : Costs, purchase : Costs,
     barcode : Barcodes \cup {None}, deleted : BOOLEAN, stock : Int, level : Int]

ASSUME CodesAssumption ==
    /\ Names # {} /\ Codes \subseteq Seq(Nat) /\ Digits \in [Items -> Seq(Nat)]
    /\ Legacy \subseteq Items /\ \A i \in Legacy : LegacyCode[i] \in Codes
ASSUME NumbersAssumption ==
    /\ {0, 1} \subseteq Costs /\ Costs \subseteq Nat /\ Quantities \subseteq Int
    /\ PrefixDigits \in Nat /\ MaxSuffix \in Nat /\ Attempts \in Nat /\ MaxRequests \in Nat
ASSUME NoneAssumption == None \notin ItemRow \cup Barcodes

VARIABLES
    items,      \* the row of an item, or None
    request,    \* what a client is in the middle of, an open form included
    left,       \* requests still to be made
    rushed,     \* history: items whose code was looked for while others were written
    spent,      \* history: items whose code is the fallback
    bulked,     \* history: items whose code the bulk run made
    crossed,    \* history: items written from a read that was out of date
    uncosted,   \* history: items that had a price of purchase but no cost price
    fixed       \* history: items verifyData wrote while their stock moved

vars == <<items, request, left, rushed, spent, bulked, crossed, uncosted, fixed>>
history == <<rushed, spent, bulked, crossed, uncosted, fixed>>

Live(i) == items[i] # None /\ ~items[i].deleted

LiveItems == {i \in Items : Live(i)}

Idle == [is |-> "idle"]

(* Requests; those that read all the items keep something of the items D. *)
Request(D) ==
    {Idle}
      \cup [is : {"form"}, item : Items, purchase : Costs]
      \cup [is : {"insert"}, item : Items, row : ItemRow, exhausted : BOOLEAN]
      \cup [is : {"write"}, item : Items, code : Codes, cost : Costs, purchase : Costs,
             barcode : Barcodes \cup {None}, read : ItemRow, exhausted : BOOLEAN]
      \cup [is : {"assign"}, item : Items, cost : Costs, barcode : Barcodes, exhausted : BOOLEAN]
      \cup [is : {"bulk"}, todo : [D -> Costs]]
      \cup [is : {"verify"}, actual : [D -> Int]]
      \cup [is : {"fix"}, actual : [D -> Int], item : D, expected : Int]

Ask == left > 0 /\ left' = left - 1

NewItem(name, code, cost, purchase, stock) ==
    [name |-> name, code |-> code, cost |-> cost, purchase |-> purchase, barcode |-> None,
     deleted |-> FALSE, stock |-> stock, level |-> stock]

Init ==
    /\ items = [i \in Items |-> IF i \in Legacy
                                THEN NewItem(CHOOSE n \in Names : TRUE, LegacyCode[i], 1, 1, 0)
                                ELSE None]
    /\ request = [c \in Clients |-> Idle]
    /\ left = MaxRequests
    /\ rushed = {} /\ spent = {} /\ bulked = {} /\ crossed = {} /\ uncosted = {} /\ fixed = {}

TypeOK ==
    /\ items \in [Items -> ItemRow \cup {None}]
    /\ DOMAIN request = Clients
    /\ \A c \in Clients : \E D \in SUBSET Items : request[c] \in Request(D)
    /\ left \in 0..MaxRequests

(***************************************************************************)
(* Barcodes.                                                               *)
(***************************************************************************)
Prefix(digits) ==
    [k \in 1..PrefixDigits |-> IF k \in DOMAIN digits THEN digits[k] ELSE 0]

EncodeCostSuffix(cost) == IF cost > MaxSuffix THEN MaxSuffix ELSE cost

DecodeCost(barcode) == barcode.cost

BuildItemBarcode(prefix, cost) == [prefix |-> prefix, cost |-> EncodeCostSuffix(cost)]

(* The n-th candidate: the prefix in use, then the code, then the code with *)
(* the number of the attempt behind it.                                     *)
Candidate(code, n, keep) ==
    IF n > 0 THEN Prefix(Append(code, n)) ELSE IF keep # None THEN keep ELSE Prefix(code)

(* Mutated form for model checking: other items are not looked at. *)
TakenNever(barcode, but) == FALSE

Taken(barcode, but) == \E j \in LiveItems \ but : items[j].barcode = barcode

Free(code, cost, keep, but) ==
    {n \in 0..(Attempts - 1) : ~Taken(BuildItemBarcode(Candidate(code, n, keep), cost), but)}

GenerateUniqueBarcode(code, id, cost, keep, but) ==
    IF Free(code, cost, keep, but) = {} THEN BuildItemBarcode(Prefix(id), cost)
    ELSE BuildItemBarcode(Candidate(code, Min(Free(code, cost, keep, but)), keep), cost)

Exhausted(code, cost, keep, but) == Free(code, cost, keep, but) = {}

Spent(r) == spent' = IF r.exhausted THEN spent \cup {r.item} ELSE spent \ {r.item}

(* Another request is about to write a barcode. *)
Rush(c) == \E d \in Clients \ {c} : request[d].is \in {"insert", "write", "assign", "bulk"}

KeptPrefix(i) == IF items[i].barcode = None THEN None ELSE items[i].barcode.prefix

(* costPrice || purchasePrice || 0 *)
CurrentCost(i) == IF items[i].cost > 0 THEN items[i].cost ELSE items[i].purchase

(***************************************************************************)
(* create: by the form, which has a cost price, or by an import, which     *)
(* passes over names there are and may leave the cost price out.           *)
(***************************************************************************)
Fresh(i) == items[i] = None /\ \A d \in Clients : request[d].is = "insert" => request[d].item # i

Create(c, i, name, code, cost, opening) ==
    /\ request[c] = Idle /\ Ask
    /\ Fresh(i)
    /\ request' = [request EXCEPT ![c] =
         [is |-> "insert", item |-> i, row |-> [NewItem(name, code, cost, cost, opening)
            EXCEPT !.barcode = GenerateUniqueBarcode(code, code, cost, None, {})],
          exhausted |-> Exhausted(code, cost, None, {})]]
    /\ rushed' = IF Rush(c) THEN rushed \cup {i} ELSE rushed
    /\ UNCHANGED <<items, spent, bulked, crossed, uncosted, fixed>>

Import(c, i, name, code) ==
    /\ ~\E j \in LiveItems : items[j].name = name
    /\ Create(c, i, name, code, 0, 0)

(* @@unique([businessId, branchId, sku]), deleted items included *)
CodeTaken(i, code) == \E j \in Items \ {i} : items[j] # None /\ items[j].code = code

Insert(c) ==
    LET r == request[c] IN
    /\ r.is = "insert"
    /\ items' = IF CodeTaken(r.item, r.row.code) THEN items ELSE [items EXCEPT ![r.item] = r.row]
    /\ Spent(r)
    /\ request' = [request EXCEPT ![c] = Idle]
    /\ UNCHANGED <<left, rushed, bulked, crossed, uncosted, fixed>>

(***************************************************************************)
(* update: the page fills a form from the item it shows, and sends all of  *)
(* it back, item code and cost price as the user left them.  The barcode   *)
(* is rebuilt only if the cost price differs from the one in force.        *)
(***************************************************************************)
OpenEdit(c, i) ==
    /\ request[c] = Idle /\ Live(i)
    /\ request' = [request EXCEPT ![c] = [is |-> "form", item |-> i, purchase |-> items[i].purchase]]
    /\ UNCHANGED <<items, left, history>>

CloseEdit(c) ==
    /\ request[c].is = "form"
    /\ request' = [request EXCEPT ![c] = Idle]
    /\ UNCHANGED <<items, left, history>>

(* Mutated form for model checking: the barcode stays as printed. *)
RebuiltNever(i, code, cost) == None

Rebuilt(i, code, cost) ==
    IF cost = CurrentCost(i) THEN None
    ELSE GenerateUniqueBarcode(code, Digits[i], cost, KeptPrefix(i), {i})

Save(c, code, cost) ==
    LET i == request[c].item IN
    /\ request[c].is = "form" /\ Live(i) /\ Ask
    /\ request' = [request EXCEPT ![c] =
         [is |-> "write", item |-> i, code |-> code, cost |-> cost,
          purchase |-> request[c].purchase, barcode |-> Rebuilt(i, code, cost), read |-> items[i],
          exhausted |-> Exhausted(code, cost, KeptPrefix(i), {i})]]
    /\ rushed' = IF Rebuilt(i, code, cost) # None /\ Rush(c) THEN rushed \cup {i} ELSE rushed
    /\ uncosted' = IF items[i].cost = 0 THEN uncosted \cup {i} ELSE uncosted
    /\ UNCHANGED <<items, spent, bulked, crossed, fixed>>

Write(c) ==
    LET r == request[c] IN
    /\ r.is = "write"
    /\ ~CodeTaken(r.item, r.code)
    /\ items' = [items EXCEPT ![r.item].code = r.code, ![r.item].cost = r.cost, ![r.item].purchase = r.purchase,
                              ![r.item].barcode = IF r.barcode = None THEN @ ELSE r.barcode]
    /\ crossed' = IF items[r.item].cost # r.read.cost \/ items[r.item].barcode # r.read.barcode
                  THEN crossed \cup {r.item} ELSE crossed
    /\ IF r.barcode = None THEN UNCHANGED spent ELSE Spent(r)
    /\ request' = [request EXCEPT ![c] = Idle]
    /\ UNCHANGED <<left, rushed, bulked, uncosted, fixed>>

WriteRefused(c) ==
    /\ request[c].is = "write"
    /\ CodeTaken(request[c].item, request[c].code)
    /\ request' = [request EXCEPT ![c] = Idle]
    /\ UNCHANGED <<items, left, history>>

(***************************************************************************)
(* assignBarcode, and bulkGenerateBarcodes for the items without one: it   *)
(* reads them once and looks for no clash.                                 *)
(***************************************************************************)
AssignBarcode(c, i) ==
    /\ request[c] = Idle /\ Live(i) /\ Ask
    /\ request' = [request EXCEPT ![c] =
         [is |-> "assign", item |-> i, cost |-> items[i].cost,
          barcode |-> GenerateUniqueBarcode(items[i].code, Digits[i], CurrentCost(i), KeptPrefix(i), {i}),
          exhausted |-> Exhausted(items[i].code, CurrentCost(i), KeptPrefix(i), {i})]]
    /\ rushed' = IF Rush(c) THEN rushed \cup {i} ELSE rushed
    /\ UNCHANGED <<items, spent, bulked, crossed, uncosted, fixed>>

Assign(c) ==
    LET r == request[c] IN
    /\ r.is = "assign"
    /\ items' = [items EXCEPT ![r.item].barcode = r.barcode]
    /\ crossed' = IF items[r.item].cost # r.cost THEN crossed \cup {r.item} ELSE crossed
    /\ Spent(r)
    /\ request' = [request EXCEPT ![c] = Idle]
    /\ UNCHANGED <<left, rushed, bulked, uncosted, fixed>>

BulkGenerateBarcodes(c) ==
    LET bare == {i \in LiveItems : items[i].barcode = None} IN
    /\ request[c] = Idle /\ bare # {} /\ Ask
    /\ request' = [request EXCEPT ![c] =
         [is |-> "bulk", todo |-> [i \in bare |-> CurrentCost(i)]]]
    /\ UNCHANGED <<items, history>>

BulkWrite(c, i) ==
    LET r == request[c] IN
    /\ r.is = "bulk" /\ i \in DOMAIN r.todo
    /\ items' = [items EXCEPT ![i].barcode = BuildItemBarcode(Prefix(items[i].code), r.todo[i])]
    /\ request' = [request EXCEPT ![c] =
         IF DOMAIN r.todo = {i} THEN Idle
         ELSE [is |-> "bulk", todo |-> [j \in DOMAIN r.todo \ {i} |-> r.todo[j]]]]
    /\ bulked' = bulked \cup {i}
    /\ crossed' = IF CurrentCost(i) # r.todo[i] THEN crossed \cup {i} ELSE crossed
    /\ UNCHANGED <<left, rushed, spent, uncosted, fixed>>

Remove(i) ==
    /\ Live(i) /\ Ask
    /\ items' = [items EXCEPT ![i].deleted = TRUE]
    /\ UNCHANGED <<request, history>>

(* A purchase bill sets the purchase price of its items, by id. *)
SyncItemPurchasePrices(i, price) ==
    /\ Live(i) /\ price # items[i].purchase /\ Ask
    /\ items' = [items EXCEPT ![i].purchase = price]
    /\ UNCHANGED <<request, history>>

(***************************************************************************)
(* Stock: adjustStock moves both tables in one transaction; verifyData     *)
(* reads the items once, sums the level of each and writes the difference. *)
(***************************************************************************)
AdjustStock(i, qty) ==
    /\ Live(i) /\ Ask
    /\ items' = [items EXCEPT ![i].stock = @ + qty, ![i].level = @ + qty]
    /\ UNCHANGED <<request, history>>

VerifyData(c) ==
    /\ request[c] = Idle /\ LiveItems # {} /\ Ask
    /\ request' = [request EXCEPT ![c] =
         [is |-> "verify", actual |-> [i \in LiveItems |-> items[i].stock]]]
    /\ UNCHANGED <<items, history>>

Rest(r, i) ==
    IF DOMAIN r.actual = {i} THEN Idle
    ELSE [is |-> "verify", actual |-> [j \in DOMAIN r.actual \ {i} |-> r.actual[j]]]

Compare(c, i) ==
    LET r == request[c] IN
    /\ r.is = "verify" /\ i \in DOMAIN r.actual
    /\ request' = [request EXCEPT ![c] =
         IF r.actual[i] = items[i].level THEN Rest(r, i)
         ELSE [is |-> "fix", actual |-> r.actual, item |-> i, expected |-> items[i].level]]
    /\ UNCHANGED <<items, left, history>>

(* Mutated form for model checking: the stale stock is taken for the right one. *)
FixStale(c) ==
    LET r == request[c] IN
    /\ r.is = "fix"
    /\ items' = [items EXCEPT ![r.item].level = r.actual[r.item]]
    /\ request' = [request EXCEPT ![c] = Rest(r, r.item)]
    /\ UNCHANGED <<left, history>>

Fix(c) ==
    LET r == request[c] IN
    /\ r.is = "fix"
    /\ items' = [items EXCEPT ![r.item].stock = r.expected]
    /\ fixed' = IF items[r.item].level # r.expected THEN fixed \cup {r.item} ELSE fixed
    /\ request' = [request EXCEPT ![c] = Rest(r, r.item)]
    /\ UNCHANGED <<left, rushed, spent, bulked, crossed, uncosted>>

Step(c) ==
    \/ \E i \in Items, name \in Names, code \in Codes :
         \/ \E cost \in Costs, opening \in Quantities : Create(c, i, name, code, cost, opening)
         \/ Import(c, i, name, code)
    \/ Insert(c)
    \/ \E i \in Items : OpenEdit(c, i)
    \/ CloseEdit(c)
    \/ \E code \in Codes, cost \in Costs : Save(c, code, cost)
    \/ Write(c) \/ WriteRefused(c)
    \/ \E i \in Items : AssignBarcode(c, i) \/ BulkWrite(c, i) \/ Compare(c, i)
    \/ Assign(c) \/ BulkGenerateBarcodes(c) \/ VerifyData(c) \/ Fix(c)

Next ==
    \/ \E c \in Clients : Step(c)
    \/ \E i \in Items : \/ Remove(i)
                        \/ \E price \in Costs : SyncItemPurchasePrices(i, price)
                        \/ \E qty \in Quantities : AdjustStock(i, qty) \/ AdjustStock(i, -qty)

Spec == Init /\ [][Next]_vars

(***************************************************************************)
(* What a scan finds, by barcode or by item code (it looks at the variants *)
(* of items, too, of which nothing writes any), and the stock a list       *)
(* shows: the business's own figure, or the level of the shop in view.     *)
(***************************************************************************)
AsCode(barcode) == Append(barcode.prefix, barcode.cost)

FindByBarcode(barcode) ==
    {i \in LiveItems : items[i].barcode = barcode \/ items[i].code = AsCode(barcode)}

ListStock(i, shopView) == IF shopView THEN items[i].level ELSE items[i].stock

(***************************************************************************)
(* Properties.                                                             *)
(***************************************************************************)
(* Items whose item code has as many digits as a barcode. *)
CodedLikeBarcodes == {i \in LiveItems : Len(items[i].code) = PrefixDigits + 1}

(* A scan of an item's barcode finds that item only.  It may find another  *)
(* only where a code was looked for while others were being written, came  *)
(* from the bulk run, or is the fallback after all attempts clashed, and   *)
(* where the other's item code is typed like a barcode: a new barcode is   *)
(* compared with barcodes, never with item codes.                          *)
BarcodesUnique ==
    \A i \in LiveItems \ (rushed \cup bulked \cup spent) :
        items[i].barcode # None =>
            FindByBarcode(items[i].barcode)
              \subseteq {i} \cup rushed \cup bulked \cup spent \cup CodedLikeBarcodes

(* A scan decodes the cost price of the item, whatever edits, purchase     *)
(* bills and new barcodes came in between: unless two requests crossed or  *)
(* the item had a purchase price and no cost price.                        *)
BarcodeDecodesCost ==
    \A i \in LiveItems \ (crossed \cup uncosted) :
        items[i].barcode # None /\ items[i].cost > 0 =>
            DecodeCost(items[i].barcode) = EncodeCostSuffix(items[i].cost)

(* The list of the business and the list of its shop show the same stock:  *)
(* verifyData repairs nothing that was right, unless the stock moves       *)
(* between its look at the level and its write.                            *)
VerifiedStockAgrees ==
    \A i \in LiveItems \ fixed : ListStock(i, FALSE) = ListStock(i, TRUE)
=============================================================================
