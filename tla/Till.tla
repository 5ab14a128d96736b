-------------------------------- MODULE Till --------------------------------
(***************************************************************************)
(* The figures of a bill, worked out three times: by the till while the    *)
(* cart is rung up (pos-store), by the server when it is saved or a held   *)
(* bill is resumed (buildLines, computeTotals), and on the way back by the *)
(* return dialog and the refund.  Paper forms (txn-form) are a fourth.     *)
(*                                                                         *)
(* Money is counted in hundredths of a paisa: the till and the server work *)
(* with fractions of a paisa, columns keep whole ones (Decimal(14,2)).     *)
(* Who is charged, stock, parties and numbers are in TxnCore; requests     *)
(* that fail are in Checkout.  Loyalty points are left out: nothing in the *)
(* code grants any.                                                        *)
(***************************************************************************)
EXTENDS Integers, Sequences, FiniteSetsExt, TLC

CONSTANTS
  Catalog,    \* item -> [salePrice, taxRate, inclusive]
  Percents,   \* discounts typed in per cent
  Rupees,     \* discounts typed in rupees
  Extras,     \* additional charges and shipping
  MaxQty,     \* bound: units of an item on a bill (the shelf's stock)
  MaxBills,   \* bound: bills rung up or written
  MaxSteps    \* bound: what the user does

Items == DOMAIN Catalog
Paisa == 100
Rupee == 100 * Paisa

ASSUME TillAssumption ==
  /\ \A i \in Items : Catalog[i].salePrice \in Nat /\ Catalog[i].taxRate \in Nat
  /\ Percents \subseteq 1..100 /\ Rupees \subseteq Nat /\ Extras \subseteq Nat

VARIABLES
  till,    \* the store of the till
  bills,   \* the sale invoices stored
  steps    \* what the user has done so far

vars == <<till, bills, steps>>

-----------------------------------------------------------------------------
(* Sums and roundings.                                                     *)

AtLeast0(x) == IF x < 0 THEN 0 ELSE x
Total(f) == MapThenSumSet(LAMBDA i : f[i], DOMAIN f)
OfPercent(x, p) == (x * p) \div 100
ToRupee(x) == ((x + Rupee \div 2) \div Rupee) * Rupee    \* half a rupee goes up
Stored(x) == ((x + Paisa \div 2) \div Paisa) * Paisa     \* a Decimal(14,2) column
FloorPaisa(x) == (x \div Paisa) * Paisa
Apart(x, y) == IF x < y THEN y - x ELSE x - y

-----------------------------------------------------------------------------
(* The server.  A line names its discount in per cent or, when that is     *)
(* absent, in rupees; so does the bill.                                    *)

Absent == -1

buildLine(l) ==
  LET gross    == l.unitPrice * l.quantity
      discount == IF l.discountPercent # Absent THEN OfPercent(gross, l.discountPercent)
                  ELSE l.discountAmount
      taxable  == gross - discount
      tax      == OfPercent(taxable, l.taxRate)
  IN  [quantity |-> l.quantity, unitPrice |-> l.unitPrice, taxRate |-> l.taxRate,
       discountPercent |-> l.discountPercent, discountAmount |-> discount,
       taxable |-> taxable, taxAmount |-> tax, total |-> taxable + tax]
buildLines(lines) == [i \in DOMAIN lines |-> buildLine(lines[i])]

computeTotals(subtotal, tax, percent, amount, charges, round) ==
  LET billDiscount == IF percent # Absent THEN OfPercent(subtotal + tax, percent) ELSE amount
      raw          == subtotal + tax - billDiscount + charges
      total        == IF round THEN ToRupee(raw) ELSE raw
  IN  [billDiscount |-> billDiscount, roundOff |-> total - raw, total |-> total]

\* The figures createTxn and resumeHeld store for what a client sent.
Bill(body) ==
  LET built    == buildLines(body.lines)
      subtotal == Total([i \in DOMAIN built |-> built[i].taxable])
      tax      == Total([i \in DOMAIN built |-> built[i].taxAmount])
  IN  [lines |-> built, subtotal |-> subtotal, taxAmount |-> tax, charges |-> body.charges]
      @@ computeTotals(subtotal, tax, body.discountPercent, body.discountAmount,
                       body.charges, body.roundOff)

\* What the columns keep of a bill; `shown' is the total on the screen that
\* sent it, `current' that the screen's figures were up to date, `typed' the
\* rupee discount typed there.
Row(f, paid, shown, current, typed) ==
  [f EXCEPT !.subtotal = Stored(@), !.taxAmount = Stored(@), !.billDiscount = Stored(@),
            !.roundOff = Stored(@), !.total = Stored(@),
            !.lines = [i \in DOMAIN @ |-> [@[i] EXCEPT !.unitPrice = Stored(@),
                         !.discountAmount = Stored(@), !.taxAmount = Stored(@), !.total = Stored(@)]]]
  @@ [status |-> IF paid >= f.total THEN "PAID" ELSE IF paid > 0 THEN "PARTIAL" ELSE "OPEN",
      balance |-> Stored(f.total - paid), shown |-> shown, current |-> current, typed |-> typed,
      oldCharges |-> FALSE, returned |-> [i \in DOMAIN f.lines |-> 0],
      promised |-> 0, refunded |-> 0]

Accepted(f, paid) == f.total >= 0 /\ paid <= f.total
Sold == {n \in DOMAIN bills : bills[n].status # "HELD"}

-----------------------------------------------------------------------------
(* The till's store.                                                       *)

EmptyTill ==
  [cart |-> [i \in {} |-> 0], discountAmount |-> 0, discountPercent |-> 0, secondary |-> 0,
   removeTax |-> FALSE, roundOff |-> TRUE, charges |-> 0, split |-> 0, heldOrderId |-> 0]

lineSubtotal(c) == AtLeast0(c.unitPrice * c.quantity - c.discount)
getSubtotal(t) == Total([i \in DOMAIN t.cart |-> lineSubtotal(t.cart[i])])
getTaxableAmount(t) == AtLeast0(getSubtotal(t) - t.discountAmount)
getTax(t) ==
  LET sub == getSubtotal(t)
      share(c) == IF sub > 0 THEN (lineSubtotal(c) * t.discountAmount) \div sub ELSE 0
  IN  IF t.removeTax THEN 0
      ELSE Total([i \in DOMAIN t.cart |->
             OfPercent(AtLeast0(lineSubtotal(t.cart[i]) - share(t.cart[i])), t.cart[i].taxRate)])
getTotal(t) ==
  LET raw == getTaxableAmount(t) + getTax(t) + t.charges
  IN  IF t.roundOff THEN ToRupee(raw) ELSE AtLeast0(raw)

\* usePosCatalog: a price that includes its tax is shown without it.
resolveUnitPrice(i) ==
  IF Catalog[i].inclusive THEN (Catalog[i].salePrice * 100) \div (100 + Catalog[i].taxRate)
  ELSE Catalog[i].salePrice

recalculateDiscount(t) ==
  [t EXCEPT !.discountAmount = OfPercent(getSubtotal(t), t.discountPercent) + t.secondary]

\* Bound: a cart is rung up only while some bill could still take it.
Act(t) ==
  /\ Len(bills) < MaxBills \/ \E n \in DOMAIN bills : bills[n].status = "HELD"
  /\ steps < MaxSteps /\ steps' = steps + 1
  /\ till' = t
  /\ UNCHANGED bills

With(i, c) == [till EXCEPT !.cart = (i :> c) @@ @]
Without(i) == [till EXCEPT !.cart = [j \in DOMAIN @ \ {i} |-> @[j]]]

\* A tap, or a scan the catalogue knows; one it does not know is priced by the
\* server's answer as it stands.
AddItem(i, price) ==
  IF i \in DOMAIN till.cart
  THEN till.cart[i].quantity < MaxQty /\ Act(With(i, [till.cart[i] EXCEPT !.quantity = @ + 1]))
  ELSE Act(With(i, [quantity |-> 1, unitPrice |-> price, discount |-> 0,
                    taxRate |-> Catalog[i].taxRate]))
AddProduct(i) == AddItem(i, resolveUnitPrice(i))
AddUnlisted(i) == AddItem(i, Catalog[i].salePrice)

UpdateQuantity(i, q) ==
  /\ q \in {till.cart[i].quantity - 1, till.cart[i].quantity + 1} /\ q <= MaxQty
  /\ Act(IF q <= 0 THEN Without(i) ELSE With(i, [till.cart[i] EXCEPT !.quantity = q]))
RemoveItem(i) == Act(Without(i))

\* The line dialog writes quantity, rate and discount together.
EditLine(i, q, price, discount) ==
  Act(With(i, [till.cart[i] EXCEPT !.quantity = q, !.unitPrice = price, !.discount = discount]))

SetDiscountPercent(p) == Act(recalculateDiscount([till EXCEPT !.discountPercent = p]))
SetSecondary(r) == Act(recalculateDiscount([till EXCEPT !.secondary = r]))
SetAdditionalCharges(x) == Act([till EXCEPT !.charges = x])
SetRemoveTax == Act([till EXCEPT !.removeTax = ~@])
SetRoundOff == Act([till EXCEPT !.roundOff = ~@])
ClearCart == till.cart # EmptyTill.cart /\ Act(EmptyTill)

\* The split is confirmed for the total of the moment and kept when the user
\* goes back to the bill.
ConfirmSplit == till.cart # EmptyTill.cart /\ Act([till EXCEPT !.split = getTotal(till)])

-----------------------------------------------------------------------------
(* Checkout.                                                               *)

Payload(t) ==
  [lines |-> [i \in DOMAIN t.cart |->
                [quantity |-> t.cart[i].quantity, unitPrice |-> t.cart[i].unitPrice,
                 discountPercent |-> Absent, discountAmount |-> t.cart[i].discount,
                 taxRate |-> IF t.removeTax THEN 0 ELSE t.cart[i].taxRate]],
   discountPercent |-> t.discountPercent, discountAmount |-> t.secondary,
   charges |-> t.charges, roundOff |-> t.roundOff]

Tendered(t, credit) == IF t.split > 0 THEN t.split ELSE IF credit THEN 0 ELSE getTotal(t)

\* The till agrees with itself: the percentage was typed for this cart and no
\* discount was typed in rupees or exceeds its line.
Current(t) ==
  /\ t.secondary = 0
  /\ t.discountAmount = OfPercent(getSubtotal(t), t.discountPercent)
  /\ \A i \in DOMAIN t.cart : t.cart[i].discount <= t.cart[i].unitPrice * t.cart[i].quantity

Step == steps < MaxSteps /\ steps' = steps + 1
Append1(row) == Len(bills) < MaxBills /\ bills' = Append(bills, row)
Saved(f, paid) == Row(f, paid, getTotal(till), Current(till), till.secondary)

\* POST /sale/invoices; refused when more is paid than the server asks.
Complete(credit) ==
  LET f == Bill(Payload(till))  paid == Tendered(till, credit) IN
  /\ Step /\ till.cart # EmptyTill.cart /\ till.heldOrderId = 0
  /\ Accepted(f, paid)
  /\ Append1(Saved(f, paid))
  /\ till' = EmptyTill

\* POST /sale/invoices/:id/resume: charges are only written when there are any.
CompleteHeld(credit) ==
  LET f == Bill(Payload(till))  paid == Tendered(till, credit)  n == till.heldOrderId IN
  /\ Step /\ till.cart # EmptyTill.cart /\ n # 0
  /\ bills[n].status = "HELD" /\ Accepted(f, paid)
  /\ bills' = [bills EXCEPT ![n] =
       IF f.charges > 0 THEN Saved(f, paid)
       ELSE [Saved(f, paid) EXCEPT !.charges = bills[n].charges,
                                   !.oldCharges = bills[n].charges > 0]]
  /\ till' = EmptyTill

\* Hold always stores a new bill.
Hold ==
  /\ Step /\ till.cart # EmptyTill.cart
  /\ Bill(Payload(till)).total >= 0
  /\ Append1([Saved(Bill(Payload(till)), 0) EXCEPT !.status = "HELD"])
  /\ till' = EmptyTill

\* What the bill was discounted comes back as a discount in rupees.
LoadFromHeld(n) ==
  /\ bills[n].status = "HELD"
  /\ Act([EmptyTill EXCEPT
       !.cart = [i \in DOMAIN bills[n].lines |->
                   [quantity |-> bills[n].lines[i].quantity,
                    unitPrice |-> bills[n].lines[i].unitPrice,
                    discount |-> bills[n].lines[i].discountAmount,
                    taxRate |-> bills[n].lines[i].taxRate]],
       !.discountAmount = bills[n].billDiscount, !.secondary = bills[n].billDiscount,
       !.heldOrderId = n])

-----------------------------------------------------------------------------
(* Returns.  The dialog shows a share of the stored line total; the refund *)
(* is worked out again from rate, discount and tax, and paid in whole      *)
(* paise.                                                                  *)

remaining(n, i) == bills[n].lines[i].quantity - bills[n].returned[i]

returnedTotal(n, rows) ==
  Total([i \in DOMAIN rows |->
           (bills[n].lines[i].total * rows[i]) \div bills[n].lines[i].quantity])

\* The line of the credit note for k units of a line.
creditLine(l, k) ==
  buildLine([quantity |-> k, unitPrice |-> l.unitPrice, taxRate |-> l.taxRate,
             discountPercent |-> l.discountPercent,
             discountAmount |-> (l.discountAmount * k) \div l.quantity])

\* Fault: the whole discount of the line is taken off every return.
refundTotalFullDiscount(n, rows) ==
  FloorPaisa(Total([i \in DOMAIN rows |->
    buildLine([bills[n].lines[i] EXCEPT !.quantity = rows[i]]).total]))

refundTotal(n, rows) ==
  FloorPaisa(Total([i \in DOMAIN rows |-> creditLine(bills[n].lines[i], rows[i]).total]))

Refunded(n, rows) ==
  LET b == bills[n]
      back == [i \in DOMAIN b.lines |-> b.returned[i] + (IF i \in DOMAIN rows THEN rows[i] ELSE 0)]
  IN  [b EXCEPT !.returned = back,
                !.promised = @ + returnedTotal(n, rows),
                !.refunded = @ + refundTotal(n, rows),
                !.status = IF \A i \in DOMAIN b.lines : back[i] >= b.lines[i].quantity
                           THEN "REFUNDED" ELSE @]

\* What the dialog lets the user pick.
Picks(n) ==
  {rows \in UNION {[I -> 1..MaxQty] : I \in SUBSET DOMAIN bills[n].lines \ {{}}} :
     \A i \in DOMAIN rows : rows[i] <= remaining(n, i)}

Refund(n, rows) ==
  /\ Step
  /\ bills' = [bills EXCEPT ![n] = Refunded(n, rows)]
  /\ UNCHANGED till

\* The replacement is rung up at the catalogue price plus tax and paid in
\* whole paise.
Exchange(n, rows, j) ==
  LET f == Bill([lines |-> (j :> [quantity |-> 1, unitPrice |-> Catalog[j].salePrice,
                                  taxRate |-> Catalog[j].taxRate,
                                  discountPercent |-> Absent, discountAmount |-> 0]),
                 discountPercent |-> Absent, discountAmount |-> 0, charges |-> 0,
                 roundOff |-> FALSE])
      newTotal == Catalog[j].salePrice + OfPercent(Catalog[j].salePrice, Catalog[j].taxRate)
  IN  /\ Step /\ Len(bills) <= MaxBills
      /\ bills' = Append([bills EXCEPT ![n] = Refunded(n, rows)],
                         Row(f, FloorPaisa(newTotal), newTotal, TRUE, 0))
      /\ UNCHANGED till

-----------------------------------------------------------------------------
(* The paper form.  A discount is typed in per cent or in rupees, of the   *)
(* line and of the bill, and only that one is sent.                        *)

Typed == {[type |-> "PCT", value |-> p] : p \in Percents \union {0}}
         \union {[type |-> "AMT", value |-> r] : r \in Rupees}
Smaller(x, y) == IF x < y THEN x ELSE y

lineDiscount(d, gross) ==
  IF d.type = "AMT" THEN Smaller(d.value, gross) ELSE OfPercent(gross, d.value)

\* lines: item -> [quantity, unitPrice, taxRate, discount]
formTotals(lines, d, shipping, round) ==
  LET taxable(l) == l.quantity * l.unitPrice - lineDiscount(l.discount, l.quantity * l.unitPrice)
      subtotal == Total([i \in DOMAIN lines |-> taxable(lines[i])])
      tax == Total([i \in DOMAIN lines |-> OfPercent(taxable(lines[i]), lines[i].taxRate)])
      billDiscount == lineDiscount(d, subtotal + tax)
      raw == subtotal + tax - billDiscount + shipping
  IN  IF round THEN ToRupee(raw) ELSE raw

Percent(d) == IF d.type = "PCT" /\ d.value # 0 THEN d.value ELSE Absent
formBody(lines, d, shipping, round) ==
  [lines |-> [i \in DOMAIN lines |->
                LET l == lines[i] IN
                [quantity |-> l.quantity, unitPrice |-> l.unitPrice, taxRate |-> l.taxRate,
                 discountPercent |-> Percent(l.discount),
                 discountAmount |-> IF l.discount.type = "AMT"
                                    THEN Smaller(l.discount.value, l.quantity * l.unitPrice)
                                    ELSE 0]],
   discountPercent |-> Percent(d),
   discountAmount |-> IF d.type = "AMT" THEN d.value ELSE 0,
   charges |-> shipping, roundOff |-> round]

pickItem(i, q, d) ==
  [quantity |-> q, unitPrice |-> Catalog[i].salePrice, taxRate |-> Catalog[i].taxRate,
   discount |-> d]

\* Bound: a form is written before the till is used; they share no figure.
SaveForm(I, q, d, billDiscount, shipping, round) ==
  LET lines == [i \in I |-> pickItem(i, q, d)]
      total == formTotals(lines, billDiscount, shipping, round)
      f == Bill(formBody(lines, billDiscount, shipping, round))
  IN  /\ Step /\ till = EmptyTill
      /\ Accepted(f, total)
      /\ Append1(Row(f, total, total, TRUE, 0))
      /\ UNCHANGED till

-----------------------------------------------------------------------------
Init == till = EmptyTill /\ bills = <<>> /\ steps = 0

RingUp ==
  \/ \E i \in Items : AddProduct(i) \/ AddUnlisted(i)
  \/ \E i \in DOMAIN till.cart :
       \/ \E q \in 0..MaxQty : UpdateQuantity(i, q)
       \/ RemoveItem(i)
       \/ \E q \in 1..MaxQty, price \in {till.cart[i].unitPrice, Rupee}, d \in Rupees \union {0} :
            EditLine(i, q, price, d)
  \/ \E p \in Percents \union {0} : SetDiscountPercent(p)
  \/ \E r \in Rupees \union {0} : SetSecondary(r)
  \/ \E x \in Extras \union {0} : SetAdditionalCharges(x)
  \/ SetRemoveTax \/ SetRoundOff \/ ConfirmSplit \/ ClearCart

Checkout ==
  \/ \E credit \in BOOLEAN : Complete(credit) \/ CompleteHeld(credit)
  \/ Hold
  \/ \E n \in DOMAIN bills : LoadFromHeld(n)

Later ==
  \/ \E n \in Sold : \E rows \in Picks(n) :
       Refund(n, rows) \/ \E j \in Items : Exchange(n, rows, j)
  \/ \E I \in SUBSET Items \ {{}}, q \in 1..2, d, bd \in Typed, x \in Extras \union {0},
        round \in BOOLEAN : SaveForm(I, q, d, bd, x, round)

Next == RingUp \/ Checkout \/ Later

Spec == Init /\ [][Next]_vars

-----------------------------------------------------------------------------
(* What the figures owe each other.                                        *)

\* The server asks what the screen shows, so that a bill on display is never
\* refused for being overpaid and never left with a balance.
TotalsMatch ==
  /\ Current(till) => Bill(Payload(till)).total = getTotal(till)
  /\ \A n \in Sold : bills[n].current => Apart(bills[n].shown, bills[n].total) < Paisa

\* The rows of the printed bill add up to its total, each rounded to a paisa.
PrintsAddUp ==
  \A n \in DOMAIN bills : LET b == bills[n] IN
    ~b.oldCharges =>
      Apart(b.subtotal - b.billDiscount + b.taxAmount + b.charges + b.roundOff, b.total) < 3 * Paisa

\* What the return dialog promises is what is paid out, to a paisa or two for
\* each unit.
RefundsMatch ==
  \A n \in Sold :
    Apart(bills[n].promised, bills[n].refunded)
      <= 2 * Paisa * Total(bills[n].returned)

\* The till, the printed bill, the return dialog and the paper form say what
\* the server books (pos-store.ts:214, txn-core.service.ts:174,
\* receipts.service.ts:46, return-dialog.tsx:65), but for: a discount typed in
\* rupees or for another cart, a line discounted below nothing, and the
\* charges of a held bill resumed without them.
TillMatchesBooks == TotalsMatch /\ PrintsAddUp /\ RefundsMatch

\* A bill sold at the till is discounted by at least the rupees typed there.
\* computeTotals reads the rupees only when no percentage is sent
\* (txn-form.tsx:249), and the till always sends one.
RupeeDiscountsKept ==
  \A n \in Sold : bills[n].billDiscount >= Stored(bills[n].typed)
=============================================================================
