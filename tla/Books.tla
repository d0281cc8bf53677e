--------------------------------- MODULE Books ---------------------------------
(***************************************************************************)
(* The amounts of an organization's books and the reports over them: sales *)
(* documents priced by the GST engine when they are created, duplicated or *)
(* converted, purchase bills, payments received, and what the dashboard,   *)
(* the GST summary and the outstanding report make of the same rows.       *)
(* Amounts are in paise.  Each action is a committed transaction: how      *)
(* transactions interleave is the subject of Invoicing and Payments.       *)
(***************************************************************************)
EXTENDS Gst, Sequences, FiniteSets

CONSTANTS
  State,          \* the state codes of organizations and customers
  Form,           \* the lines of the requests that create a document
  BillForm,       \* the items of the requests that record a purchase bill
  DocumentType,
  MaxDocuments,   \* bound: sales documents ever created
  MaxBills        \* bound: purchase bills ever recorded

LineItem == [price : Nat, quantity : Nat, discount : 0 .. 100,
             rate : 0 .. 100, inclusive : BOOLEAN, hsn : STRING]
BillItem == [price : Nat, quantity : Nat, rate : 0 .. 100]

ASSUME StateAssumption == NoState \notin State
ASSUME FormAssumption == Form \subseteq Seq(LineItem)
ASSUME BillFormAssumption == BillForm \subseteq Seq(BillItem)
ASSUME TypeAssumption == "TAX_INVOICE" \in DocumentType

VARIABLES
  seller,       \* Organization.stateCode
  documents,    \* the Invoice rows with their items, in order of creation
  bills         \* the Purchase rows

vars == <<seller, documents, bills>>

NoSource == 0

Init ==
  /\ seller \in State
  /\ documents = <<>>
  /\ bills = <<>>

--------------------------------------------------------------------------------
(***************************************************************************)
(* createInvoice: every document is ISSUED, whatever its type.  buyer is   *)
(* the state code of its customer; source the document it was copied from. *)
(***************************************************************************)
Document(type, lines, buyer, source) ==
  [type |-> type, status |-> "ISSUED", lines |-> lines, buyer |-> buyer,
   amounts |-> CalculateInvoice(lines, seller, buyer), paid |-> 0, source |-> source]

Issue(type, lines, buyer) ==
  /\ Len(documents) < MaxDocuments
  /\ documents' = Append(documents, Document(type, lines, buyer, NoSource))
  /\ UNCHANGED <<seller, bills>>

(***************************************************************************)
(* The lines of a copy come from the stored items, and InvoiceItem has no  *)
(* column for priceIncludesTax.                                            *)
(***************************************************************************)
(* Faulty variant: the discount is not taken over either.                  *)
StoredLinesUndiscounted(d) ==
  [i \in DOMAIN d.lines |-> [d.lines[i] EXCEPT !.inclusive = FALSE, !.discount = 0]]

StoredLines(d) == [i \in DOMAIN d.lines |-> [d.lines[i] EXCEPT !.inclusive = FALSE]]

Duplicate(i) ==
  LET original == documents[i] IN
  /\ Len(documents) < MaxDocuments
  /\ documents' = Append(documents,
                    Document(original.type, StoredLines(original), original.buyer, i))
  /\ UNCHANGED <<seller, bills>>

Convert(i) ==
  LET quotation == documents[i] IN
  /\ Len(documents) < MaxDocuments
  /\ quotation.type = "QUOTATION"
  /\ quotation.status = "ISSUED"
  /\ documents' = Append([documents EXCEPT ![i].status = "CONVERTED"],
                    Document("TAX_INVOICE", StoredLines(quotation), quotation.buyer, i))
  /\ UNCHANGED <<seller, bills>>

Balance(d) == d.amounts.grand - d.paid

(* A payment received; the amount must fit, the type does not matter.      *)
Receive(i, amount) ==
  /\ amount > 0
  /\ amount <= Balance(documents[i])
  /\ documents' = [documents EXCEPT ![i].paid = @ + amount]
  /\ UNCHANGED <<seller, bills>>

(* PATCH /api/org/me may move the organization to another state.           *)
MoveSeller(state) ==
  /\ state # seller
  /\ seller' = state
  /\ UNCHANGED <<documents, bills>>

(***************************************************************************)
(* POST /api/purchases adds up floats; the DECIMAL(14,2) columns round     *)
(* each total on its own.  The tax is halved, never IGST.                  *)
(***************************************************************************)
(* Faulty variant: the tax is not halved before it is added to both.       *)
PurchaseTotalsUnhalved(items) ==
  LET taxable == SumFunction([i \in DOMAIN items |-> items[i].quantity * items[i].price])
      tax     == SumFunction([i \in DOMAIN items |->
                   items[i].quantity * items[i].price * items[i].rate])
  IN  [taxable |-> Round(taxable, Unit),
       cgst |-> Round(tax, 100 * Unit), sgst |-> Round(tax, 100 * Unit), igst |-> 0,
       grand |-> Round(100 * taxable + tax, 100 * Unit)]

PurchaseTotals(items) ==
  LET taxable == SumFunction([i \in DOMAIN items |-> items[i].quantity * items[i].price])
      tax     == SumFunction([i \in DOMAIN items |->
                   items[i].quantity * items[i].price * items[i].rate])
  IN  [taxable |-> Round(taxable, Unit),
       cgst |-> Round(tax, 200 * Unit), sgst |-> Round(tax, 200 * Unit), igst |-> 0,
       grand |-> Round(100 * taxable + tax, 100 * Unit)]

RecordBill(items) ==
  /\ Len(bills) < MaxBills
  /\ bills' = Append(bills, PurchaseTotals(items))
  /\ UNCHANGED <<seller, documents>>

(* Bound: a payment settles a document, or leaves one paisa of it open.     *)
Paid(balance) == {balance - 1, balance}

Next ==
  \/ \E type \in DocumentType, lines \in Form, buyer \in State \cup {NoState} :
       Issue(type, lines, buyer)
  \/ \E i \in DOMAIN documents :
       \/ Duplicate(i)
       \/ Convert(i)
       \/ \E amount \in Paid(Balance(documents[i])) : Receive(i, amount)
  \/ \E state \in State : MoveSeller(state)
  \/ \E items \in BillForm : RecordBill(items)

Spec == Init /\ [][Next]_vars

--------------------------------------------------------------------------------
(***************************************************************************)
(* What the pages make of the rows.                                        *)
(***************************************************************************)
(* The live total of the document form, never rounded: in units of         *)
(* 1/(10000 Unit) paise.                                                   *)
LineEstimate(line) ==
  line.quantity * line.price * (100 - line.discount) * (100 + line.rate)

Estimate(lines) == SumFunction([i \in DOMAIN lines |-> LineEstimate(lines[i])])

Sum(amount, S) == SumFunction([i \in S |-> amount[i]])
Balances == [i \in DOMAIN documents |-> Balance(documents[i])]
Issued == {i \in DOMAIN documents : documents[i].status = "ISSUED"}

(* Dashboard: everything ever invoiced less everything ever paid on it.    *)
DashboardOutstanding == Sum(Balances, DOMAIN documents)

(* Outstanding receivables: the issued documents that owe over one paisa.  *)
OutstandingRows == {i \in Issued : Balances[i] > 1}
OutstandingReport == Sum(Balances, OutstandingRows)

(***************************************************************************)
(* GST summary: the items of issued documents by HSN code, and the totals  *)
(* of the documents' headers.                                              *)
(***************************************************************************)
(* Faulty variant: converted quotations still appear by HSN code.          *)
HsnRowOfAll(hsn, field) ==
  SumFunction([i \in DOMAIN documents |->
    SumFunction([k \in DOMAIN documents[i].lines |->
      IF documents[i].lines[k].hsn = hsn THEN documents[i].amounts.items[k][field] ELSE 0])])

HsnRow(hsn, field) ==
  SumFunction([i \in Issued |->
    SumFunction([k \in DOMAIN documents[i].lines |->
      IF documents[i].lines[k].hsn = hsn THEN documents[i].amounts.items[k][field] ELSE 0])])

SalesTotal(field) == SumFunction([i \in Issued |-> documents[i].amounts[field]])

HsnCodes ==
  UNION {{documents[i].lines[k].hsn : k \in DOMAIN documents[i].lines} : i \in Issued}

--------------------------------------------------------------------------------
LineAmounts == [taxable : Nat, cgst : Nat, sgst : Nat, igst : Nat, lineTotal : Nat]

InvoiceAmounts ==
  [items : Seq(LineAmounts), subtotal : Nat, discountTotal : Nat, taxable : Nat,
   cgst : Nat, sgst : Nat, igst : Nat, roundOff : -49 .. 50, grand : Nat]

DocumentRow ==
  [type : DocumentType, status : {"ISSUED", "CONVERTED"}, lines : Seq(LineItem),
   buyer : State \cup {NoState}, amounts : InvoiceAmounts, paid : Nat, source : Nat]

BillRow == [taxable : Nat, cgst : Nat, sgst : Nat, igst : {0}, grand : Nat]

TypeOK ==
  /\ seller \in State
  /\ documents \in Seq(DocumentRow)
  /\ bills \in Seq(BillRow)

Amounts(d) == d.amounts

(***************************************************************************)
(* The roundings of a line, of its tax, of the tax's halves and of the     *)
(* document agree: a line whose price includes the tax comes to exactly    *)
(* that price less its discount, and what the customer is asked to pay is  *)
(* the sum of the printed line totals, moved by at most half a rupee.      *)
(***************************************************************************)
AmountsAddUp ==
  \A i \in DOMAIN documents :
    LET lines == documents[i].lines
        a     == Amounts(documents[i])
    IN  /\ \A k \in DOMAIN lines :
             lines[k].inclusive => a.items[k].lineTotal = Net(lines[k])
        /\ Column(a.items, "lineTotal") + a.roundOff = a.grand
        /\ a.roundOff \in -49 .. 50

(***************************************************************************)
(* The form sends prices without tax, and shows a total it computes        *)
(* without rounding; what is charged is within two and a half paise a line *)
(* and the round-off of it.  (Two are enough up to a rate of 50 percent;   *)
(* the routes accept 100.)                                                 *)
(***************************************************************************)
EstimateClose ==
  \A i \in DOMAIN documents :
    LET d    == documents[i]
        a    == Amounts(d)
        slop == 5 * Len(d.lines)
    IN (\A k \in DOMAIN d.lines : ~d.lines[k].inclusive) =>
         /\ 2 * Estimate(d.lines) <= (2 * (a.grand - a.roundOff) + slop) * (10000 * Unit)
         /\ 2 * Estimate(d.lines) >= (2 * (a.grand - a.roundOff) - slop) * (10000 * Unit)

(***************************************************************************)
(* A duplicate or a conversion costs what its original does, wherever the  *)
(* organization has moved meanwhile; only a price that included the tax is *)
(* taxed again, and then the copy is never cheaper.                        *)
(***************************************************************************)
CopyCostsTheSame ==
  \A i \in DOMAIN documents :
    LET d == documents[i] IN
    d.source # NoSource =>
      LET original == documents[d.source] IN
      /\ Amounts(d).grand >= Amounts(original).grand
      /\ (\A k \in DOMAIN original.lines : ~original.lines[k].inclusive)
           => Amounts(d).grand = Amounts(original).grand

(***************************************************************************)
(* The columns of a purchase bill are rounded one by one, and its grand    *)
(* total is off their sum by a paisa at most.                              *)
(***************************************************************************)
BillsNearlyAddUp ==
  \A i \in DOMAIN bills :
    bills[i].grand - (bills[i].taxable + bills[i].cgst + bills[i].sgst) \in -1 .. 1

(***************************************************************************)
(* The three reports read the same rows differently, and the difference is *)
(* known: the GST summary's HSN table adds up to its totals, and the       *)
(* dashboard's receivable exceeds the outstanding report by what converted *)
(* quotations were never paid and by the single paise the report leaves    *)
(* out.                                                                    *)
(***************************************************************************)
ReportsReconcile ==
  /\ \A field \in {"taxable", "cgst", "sgst", "igst"} :
       SumFunction([hsn \in HsnCodes |-> HsnRow(hsn, field)]) = SalesTotal(field)
  /\ LET converted == DOMAIN documents \ Issued
         paise     == {i \in Issued : Balances[i] = 1}
     IN  DashboardOutstanding - OutstandingReport
           = Sum(Balances, converted) + Cardinality(paise)
================================================================================
