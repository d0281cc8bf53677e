------------------------------ MODULE BooksProofs ------------------------------
(***************************************************************************)
(* Proofs about Books, for every value of its constants: the invariant     *)
(* that the books are calculated and copied as the code does, the five     *)
(* properties of the run, and before them what is needed of rounding and   *)
(* of the GST engine.                                                      *)
(***************************************************************************)
EXTENDS Books, Sums

--------------------------------------------------------------------------------
(***************************************************************************)
(* Integer division leaves a rest that is not negative and below the       *)
(* divisor.                                                                *)
(***************************************************************************)
LEMMA DivBounds ==
  ASSUME NEW a \in Int, NEW b \in Nat \ {0}
  PROVE  a \div b \in Int /\ b * (a \div b) <= a /\ a < b * (a \div b) + b
OBVIOUS

(* A positive factor can be taken out of an inequality.                    *)
LEMMA Cancel ==
  ASSUME NEW d \in Nat \ {0}, NEW a \in Int, NEW b \in Int, d * a < d * b
  PROVE a < b
OBVIOUS

(* Rounding moves a fraction by half at most.                              *)
LEMMA RoundBounds ==
  ASSUME NEW n \in Int, NEW d \in Nat \ {0}
  PROVE  /\ Round(n, d) \in Int /\ d * Round(n, d) \in Int
         /\ 2 * (d * Round(n, d)) <= 2 * n + d
         /\ 2 * n - d < 2 * (d * Round(n, d))
<1>1. /\ 2 * n + d \in Int /\ 2 * d \in Nat \ {0}
  OBVIOUS
<1>2. /\ Round(n, d) \in Int
      /\ (2 * d) * Round(n, d) <= 2 * n + d
      /\ 2 * n + d < (2 * d) * Round(n, d) + 2 * d
  <2> HIDE DEF Round
  <2> QED BY <1>1, DivBounds DEF Round
<1>3. ASSUME NEW m \in Int PROVE (2 * d) * m = 2 * (d * m) /\ d * m \in Int
  OBVIOUS
<1> QED
  BY <1>2, <1>3

(* What is at most a whole number is rounded to that number at most.       *)
LEMMA RoundAtMost ==
  ASSUME NEW n \in Int, NEW d \in Nat \ {0}, NEW m \in Int, n <= d * m
  PROVE  Round(n, d) <= m
<1>1. /\ Round(n, d) \in Int /\ d * Round(n, d) \in Int /\ 2 * (d * Round(n, d)) <= 2 * n + d
  BY RoundBounds
<1>2. d * m \in Int
  OBVIOUS
<1>3. d * Round(n, d) < d * m + d
  BY <1>1, <1>2
<1>4. d * m + d = d * (m + 1)
  OBVIOUS
<1>5. Round(n, d) < m + 1
  BY <1>1, <1>3, <1>4, Cancel
<1> QED
  BY <1>1, <1>5

(* What is at least a whole number is rounded to that number at least.     *)
LEMMA RoundAtLeast ==
  ASSUME NEW n \in Int, NEW d \in Nat \ {0}, NEW m \in Int, d * m <= n
  PROVE  m <= Round(n, d)
<1>1. /\ Round(n, d) \in Int /\ d * Round(n, d) \in Int /\ 2 * n - d < 2 * (d * Round(n, d))
  BY RoundBounds
<1>2. d * m \in Int
  OBVIOUS
<1>3. d * m - d < d * Round(n, d)
  BY <1>1, <1>2
<1>4. d * m - d = d * (m - 1)
  OBVIOUS
<1>5. m - 1 < Round(n, d)
  BY <1>1, <1>3, <1>4, Cancel
<1> QED
  BY <1>1, <1>5

--------------------------------------------------------------------------------
(* A discount leaves something between nothing and the gross amount.       *)
LEMMA NetTyped ==
  ASSUME NEW line \in LineItem
  PROVE  Gross(line) \in Nat /\ Net(line) \in Nat /\ Net(line) <= Gross(line)
<1>1. line.price \in Nat /\ line.quantity \in Nat /\ line.discount \in 0 .. 100
  BY DEF LineItem
<1>2. line.price * line.quantity \in Nat /\ Unit \in Nat \ {0}
      /\ Unit * 0 <= line.price * line.quantity
  BY <1>1, UnitAssumption
<1>3. Gross(line) \in Nat
  BY <1>2, RoundBounds, RoundAtLeast DEF Gross
<1> DEFINE g == Gross(line)
           d == line.discount
           off == Round(g * d, 100)
<1>4. g \in Nat /\ d \in 0 .. 100
  BY <1>1, <1>3
<1>5. g * d \in Int /\ 100 * 0 <= g * d /\ g * d <= 100 * g
  <2> HIDE DEF g, d
  <2> QED
    BY <1>4
<1>6. off \in Int /\ 0 <= off /\ off <= g
  <2> HIDE DEF g, d
  <2>1. 100 \in Nat \ {0} /\ 0 \in Int /\ g \in Int
    BY <1>4
  <2> QED
    BY <1>5, <2>1, RoundBounds, RoundAtLeast, RoundAtMost
<1>7. Net(line) = g - off
  BY DEF Net
<1> HIDE DEF g, d, off
<1> QED
  BY <1>3, <1>6, <1>7 DEF g

(***************************************************************************)
(* Taxable value and tax are not negative. A price that includes the tax   *)
(* is split into the two; otherwise the tax comes on top.                  *)
(***************************************************************************)
LEMMA TaxTyped ==
  ASSUME NEW line \in LineItem
  PROVE  /\ Taxable(line) \in Nat /\ Taxable(line) <= Net(line) /\ Tax(line) \in Nat
         /\ line.inclusive => Taxable(line) + Tax(line) = Net(line)
         /\ ~line.inclusive => /\ Taxable(line) = Net(line)
                               /\ Tax(line) = Round(Net(line) * line.rate, 100)
<1> DEFINE n == Net(line)
           r == line.rate
<1>1. n \in Nat /\ r \in 0 .. 100 /\ line.inclusive \in BOOLEAN
  BY NetTyped DEF LineItem
<1> HIDE DEF n, r
<1>2. /\ 100 * n \in Int /\ 100 + r \in Nat \ {0}
      /\ (100 + r) * 0 <= 100 * n /\ 100 * n <= (100 + r) * n
      /\ n * r \in Int /\ 100 * 0 <= n * r
  BY <1>1
<1>3. /\ Round(100 * n, 100 + r) \in Int
      /\ 0 <= Round(100 * n, 100 + r) /\ Round(100 * n, 100 + r) <= n
  BY <1>1, <1>2, RoundBounds, RoundAtLeast, RoundAtMost
<1>4. Round(n * r, 100) \in Nat
  BY <1>2, RoundBounds, RoundAtLeast
<1>5. CASE line.inclusive
  <2>1. Taxable(line) = Round(100 * n, 100 + r) /\ Tax(line) = n - Taxable(line)
    BY <1>5 DEF Taxable, Tax, n, r
  <2> QED
    BY <1>1, <1>3, <1>5, <2>1 DEF n
<1>6. CASE ~line.inclusive
  <2>1. Taxable(line) = n /\ Tax(line) = Round(n * r, 100)
    BY <1>6 DEF Taxable, Tax, n, r
  <2> QED
    BY <1>1, <1>4, <1>6, <2>1 DEF n, r
<1> QED
  BY <1>1, <1>5, <1>6

(* What a line comes to does not depend on how its tax is split.           *)
LEMMA LineCalculated ==
  ASSUME NEW line \in LineItem, NEW inter \in BOOLEAN
  PROVE  LET c == CalculateLine(line, inter) IN
         /\ c \in LineAmounts
         /\ c.taxable = Taxable(line)
         /\ c.lineTotal = Taxable(line) + Tax(line)
         /\ c.lineTotal = c.taxable + c.cgst + c.sgst + c.igst
<1> DEFINE t == Tax(line)
           split == TaxSplit(line, inter)
<1>1. Taxable(line) \in Nat /\ t \in Nat
  BY TaxTyped
<1>2. /\ split.cgst \in Nat /\ split.sgst \in Nat /\ split.igst \in Nat
      /\ split.cgst + split.sgst + split.igst = t
  <2>1. t \div 2 \in Nat /\ (t + 1) \div 2 \in Nat /\ (t + 1) \div 2 + t \div 2 = t
    <3> HIDE DEF t
    <3> QED
      BY <1>1
  <2> QED
    BY <1>1, <2>1 DEF TaxSplit
<1>3. CalculateLine(line, inter) =
        [taxable |-> Taxable(line), cgst |-> split.cgst, sgst |-> split.sgst,
         igst |-> split.igst,
         lineTotal |-> Taxable(line) + split.cgst + split.sgst + split.igst]
  BY DEF CalculateLine
<1> HIDE DEF t, split
<1> QED
  BY <1>1, <1>2, <1>3 DEF LineAmounts, t

--------------------------------------------------------------------------------
(* What a line and a document charge, before the rupee's rounding.         *)
LineCharge(line) == Taxable(line) + Tax(line)
Charge(lines) == SumFunction([k \in DOMAIN lines |-> LineCharge(lines[k])])

(* The charge of a document is a natural number.                           *)
LEMMA ChargeTyped ==
  ASSUME NEW lines \in Seq(LineItem)
  PROVE  Charge(lines) \in Nat
<1> DEFINE charges == [k \in DOMAIN lines |-> LineCharge(lines[k])]
<1>1. \A k \in DOMAIN lines : charges[k] \in Nat
  BY SequenceDomain, TaxTyped DEF LineCharge
<1>2. SumFunctionOnSet(charges, DOMAIN lines) \in Nat
  <2> HIDE DEF charges
  <2> QED
    BY <1>1, SequenceDomain, SumNatural
<1> QED
  BY <1>2 DEF Charge, SumFunction

(***************************************************************************)
(* Rounding to the rupee moves an amount by at most half a rupee, up when  *)
(* it is exactly half.                                                     *)
(***************************************************************************)
LEMMA RoundedToRupee ==
  ASSUME NEW n \in Nat
  PROVE  100 * Round(n, 100) \in Nat /\ 100 * Round(n, 100) - n \in -49 .. 50
<1>1. /\ Round(n, 100) \in Int
      /\ 2 * (100 * Round(n, 100)) <= 2 * n + 100
      /\ 2 * n - 100 < 2 * (100 * Round(n, 100))
  BY RoundBounds
<1> QED
  BY <1>1

(***************************************************************************)
(* What calculateInvoice returns: well-typed amounts, each total the sum   *)
(* of its column, and a grand total that is the charge of the lines,       *)
(* rounded. Neither depends on the states of seller and buyer.             *)
(***************************************************************************)
LEMMA InvoiceCalculated ==
  ASSUME NEW lines \in Seq(LineItem), NEW from, NEW buyer
  PROVE  LET c == CalculateInvoice(lines, from, buyer) IN
         /\ c \in InvoiceAmounts
         /\ c.items = [k \in DOMAIN lines |->
                         CalculateLine(lines[k], InterState(from, buyer))]
         /\ \A field \in {"taxable", "cgst", "sgst", "igst"} :
              c[field] = Column(c.items, field)
         /\ Column(c.items, "lineTotal") = Charge(lines)
         /\ c.roundOff = c.grand - Charge(lines)
         /\ c.grand = 100 * Round(Charge(lines), 100)
<1> DEFINE D == DOMAIN lines
           inter == InterState(from, buyer)
           items == [k \in D |-> CalculateLine(lines[k], inter)]
           gross == [k \in D |-> Gross(lines[k])]
           taxable == [k \in D |-> items[k]["taxable"]]
           cgst == [k \in D |-> items[k]["cgst"]]
           sgst == [k \in D |-> items[k]["sgst"]]
           igst == [k \in D |-> items[k]["igst"]]
           total == [k \in D |-> items[k]["lineTotal"]]
           charges == [k \in D |-> LineCharge(lines[k])]
           c == CalculateInvoice(lines, from, buyer)
<1>1. inter \in BOOLEAN
  BY DEF InterState
<1>2. IsFiniteSet(D) /\ \A k \in D : lines[k] \in LineItem
  BY SequenceDomain
<1>3. items \in Seq(LineAmounts)
  <2>1. \A k \in D : CalculateLine(lines[k], inter) \in LineAmounts
    <3> HIDE DEF inter
    <3> QED
      BY <1>1, <1>2, LineCalculated
  <2>2. D = 1 .. Len(lines) /\ Len(lines) \in Nat
    BY SequenceDomain
  <2> HIDE DEF D, inter
  <2> QED
    BY <2>1, <2>2
<1>4. \A k \in D : /\ taxable[k] \in Nat /\ cgst[k] \in Nat /\ sgst[k] \in Nat
                   /\ igst[k] \in Nat /\ total[k] \in Nat
                   /\ gross[k] \in Nat /\ taxable[k] <= gross[k]
                   /\ total[k] = taxable[k] + cgst[k] + sgst[k] + igst[k]
                   /\ total[k] = charges[k]
  <2> SUFFICES ASSUME NEW k \in D
               PROVE  /\ taxable[k] \in Nat /\ cgst[k] \in Nat /\ sgst[k] \in Nat
                      /\ igst[k] \in Nat /\ total[k] \in Nat
                      /\ gross[k] \in Nat /\ taxable[k] <= gross[k]
                      /\ total[k] = taxable[k] + cgst[k] + sgst[k] + igst[k]
                      /\ total[k] = charges[k]
    OBVIOUS
  <2> DEFINE a == CalculateLine(lines[k], inter)
  <2>1. /\ a \in LineAmounts
        /\ a.taxable = Taxable(lines[k])
        /\ a.lineTotal = LineCharge(lines[k])
        /\ a.lineTotal = a.taxable + a.cgst + a.sgst + a.igst
    <3> HIDE DEF inter
    <3> QED
      BY <1>1, <1>2, LineCalculated DEF LineCharge
  <2>2. Gross(lines[k]) \in Nat /\ Taxable(lines[k]) <= Gross(lines[k])
    <3>1. /\ Gross(lines[k]) \in Nat /\ Net(lines[k]) \in Nat /\ Taxable(lines[k]) \in Nat
          /\ Net(lines[k]) <= Gross(lines[k]) /\ Taxable(lines[k]) <= Net(lines[k])
      BY <1>2, NetTyped, TaxTyped
    <3> QED
      BY <3>1
  <2>3. /\ taxable[k] = a.taxable /\ cgst[k] = a.cgst /\ sgst[k] = a.sgst
        /\ igst[k] = a.igst /\ total[k] = a.lineTotal /\ gross[k] = Gross(lines[k])
        /\ charges[k] = LineCharge(lines[k])
    OBVIOUS
  <2> HIDE DEF a, taxable, cgst, sgst, igst, total, gross, charges
  <2> QED
    BY <2>1, <2>2, <2>3 DEF LineAmounts
<1> DEFINE T(f) == SumFunctionOnSet(f, D)
<1>5. c = [items |-> items, subtotal |-> T(gross), discountTotal |-> T(gross) - T(taxable),
           taxable |-> T(taxable), cgst |-> T(cgst), sgst |-> T(sgst), igst |-> T(igst),
           roundOff |-> 100 * Round(T(taxable) + T(cgst) + T(sgst) + T(igst), 100)
                          - (T(taxable) + T(cgst) + T(sgst) + T(igst)),
           grand |-> 100 * Round(T(taxable) + T(cgst) + T(sgst) + T(igst), 100)]
  BY DEF CalculateInvoice, Column, SumFunction
<1>6. /\ Column(items, "taxable") = T(taxable) /\ Column(items, "cgst") = T(cgst)
      /\ Column(items, "sgst") = T(sgst) /\ Column(items, "igst") = T(igst)
      /\ Column(items, "lineTotal") = T(total)
  BY DEF Column, SumFunction
<1>7. Charge(lines) = T(charges)
  BY DEF Charge, SumFunction
<1> HIDE DEF D, items, gross, taxable, cgst, sgst, igst, total, charges
<1>8. /\ Addable(taxable, D) /\ T(taxable) \in Nat /\ Addable(cgst, D) /\ T(cgst) \in Nat
      /\ Addable(sgst, D) /\ T(sgst) \in Nat /\ Addable(igst, D) /\ T(igst) \in Nat
      /\ Addable(gross, D) /\ T(gross) \in Nat /\ Addable(total, D) /\ T(total) \in Nat
  BY <1>2, <1>4, SumNatural
<1>9. T(taxable) <= T(gross)
  BY <1>4, <1>8, SumMonotone
<1>10. T(total) = T(taxable) + T(cgst) + T(sgst) + T(igst)
  BY <1>4, <1>8, SumAddFour
<1>11. T(total) = T(charges)
  BY <1>4, <1>8, SumSame
<1> DEFINE n == T(total)
<1>12. n \in Nat /\ 100 * Round(n, 100) \in Nat /\ 100 * Round(n, 100) - n \in -49 .. 50
  BY <1>8, RoundedToRupee
<1>13. c = [items |-> items, subtotal |-> T(gross), discountTotal |-> T(gross) - T(taxable),
            taxable |-> T(taxable), cgst |-> T(cgst), sgst |-> T(sgst), igst |-> T(igst),
            roundOff |-> 100 * Round(n, 100) - n, grand |-> 100 * Round(n, 100)]
  BY <1>5, <1>10
<1> HIDE DEF c, T, n
<1>14. c \in InvoiceAmounts
  BY <1>3, <1>8, <1>9, <1>12, <1>13 DEF InvoiceAmounts
<1>15. c.items = items
  BY <1>13
<1>16. \A field \in {"taxable", "cgst", "sgst", "igst"} : c[field] = Column(c.items, field)
  BY <1>6, <1>13
<1>17. /\ Column(c.items, "lineTotal") = Charge(lines)
       /\ c.roundOff = c.grand - Charge(lines)
       /\ c.grand = 100 * Round(Charge(lines), 100)
  BY <1>6, <1>7, <1>11, <1>13 DEF n
<1> QED
  BY <1>14, <1>15, <1>16, <1>17 DEF c, items, D

--------------------------------------------------------------------------------
(* The product of a bounded factor and a bounded error is bounded.         *)
LEMMA ProductBounds ==
  ASSUME NEW k \in Nat, NEW c \in Nat, k <= c, NEW x \in Int, NEW u \in Nat,
         -u <= x, x <= u
  PROVE  k * x \in Int /\ -(c * u) <= k * x /\ k * x <= c * u
<1>1. k * x \in Int /\ k * u \in Int /\ c * u \in Int
  OBVIOUS
<1>2. k * u <= c * u
  OBVIOUS
<1>3. k * x <= k * u /\ -(k * u) <= k * x
  OBVIOUS
<1> QED
  BY <1>1, <1>2, <1>3

(***************************************************************************)
(* g is m rounded, n what a discount leaves of g, t the tax on n, each     *)
(* rounded: a and b are what is left of 100 percent and what the tax makes *)
(* of it.                                                                  *)
(***************************************************************************)
RoundedInTurn(m, a, b, g, n, t) ==
  /\ a \in 0 .. 100 /\ b \in 100 .. 200
  /\ m \in Int /\ g \in Int /\ n \in Int /\ t \in Int
  /\ -Unit <= 2 * (Unit * g - m) /\ 2 * (Unit * g - m) <= Unit
  /\ -100 <= 2 * (100 * n - g * a) /\ 2 * (100 * n - g * a) <= 100
  /\ -100 <= 2 * (100 * (n + t) - n * b) /\ 2 * (100 * (n + t) - n * b) <= 100

(***************************************************************************)
(* Gross amount, discount and tax are rounded in turn. The three errors,   *)
(* of half a unit each, are scaled by what follows them, and come to two   *)
(* and a half paise at most.                                               *)
(***************************************************************************)
LEMMA ErrorsAddUp ==
  ASSUME NEW m, NEW a, NEW b, NEW g, NEW n, NEW t, RoundedInTurn(m, a, b, g, n, t)
  PROVE  /\ 2 * (m * a * b) <= (2 * (n + t) + 5) * (10000 * Unit)
         /\ (2 * (n + t) - 5) * (10000 * Unit) <= 2 * (m * a * b)
<1> DEFINE x == 2 * (Unit * g - m)
           y == 2 * (100 * n - g * a)
           z == 2 * (100 * (n + t) - n * b)
<1>1. /\ Unit \in Nat \ {0} /\ a \in 0 .. 100 /\ b \in 100 .. 200
      /\ m \in Int /\ g \in Int /\ n \in Int /\ t \in Int
      /\ -Unit <= x /\ x <= Unit /\ -100 <= y /\ y <= 100 /\ -100 <= z /\ z <= 100
  BY UnitAssumption DEF RoundedInTurn
<1>2. /\ a \in Nat /\ b \in Nat /\ Unit \in Nat /\ a * b \in Nat /\ Unit * b \in Nat
      /\ Unit * g \in Int /\ g * a \in Int /\ n * b \in Int /\ m * a * b \in Int
      /\ x \in Int /\ y \in Int /\ z \in Int
  BY <1>1
<1>3. a * b <= 20000 /\ Unit * b <= 200 * Unit
  BY <1>1
<1>4. 20000 * Unit = (2 * Unit) * 10000 /\ (200 * Unit) * 100 = 20000 * Unit
      /\ (100 * Unit) * 100 = 10000 * Unit /\ 20000 * Unit \in Nat /\ 10000 * Unit \in Nat
  BY <1>1
<1>5. 20000 * (Unit * (n + t)) = 2 * (m * a * b) + (a * b) * x + (Unit * b) * y + (100 * Unit) * z
  BY <1>1
<1>6. (a * b) * x \in Int /\ -(20000 * Unit) <= (a * b) * x /\ (a * b) * x <= 20000 * Unit
  <2> HIDE DEF x
  <2>1. -Unit <= x /\ x <= Unit
    BY <1>1
  <2> QED
    BY <1>2, <1>3, <2>1, ProductBounds
<1>7. /\ (Unit * b) * y \in Int
      /\ -((200 * Unit) * 100) <= (Unit * b) * y
      /\ (Unit * b) * y <= (200 * Unit) * 100
  <2> HIDE DEF y
  <2>1. -100 <= y /\ y <= 100 /\ 200 * Unit \in Nat
    BY <1>1
  <2> QED
    BY <1>2, <1>3, <2>1, ProductBounds
<1>8. /\ (100 * Unit) * z \in Int
      /\ -((100 * Unit) * 100) <= (100 * Unit) * z
      /\ (100 * Unit) * z <= (100 * Unit) * 100
  <2> HIDE DEF z
  <2>1. -100 <= z /\ z <= 100 /\ 100 * Unit \in Nat /\ 100 * Unit <= 100 * Unit
    BY <1>1
  <2> QED
    BY <1>2, <2>1, ProductBounds
<1>9. /\ (2 * (n + t) + 5) * (10000 * Unit) = 20000 * (Unit * (n + t)) + 50000 * Unit
      /\ (2 * (n + t) - 5) * (10000 * Unit) = 20000 * (Unit * (n + t)) - 50000 * Unit
  BY <1>1
<1> HIDE DEF x, y, z
<1>10. PICK X, Y, Z, V, W, T : /\ X = (a * b) * x /\ Y = (Unit * b) * y /\ Z = (100 * Unit) * z
                              /\ V = Unit * (n + t) /\ W = m * a * b /\ T = 10000 * Unit
  OBVIOUS
<1>11. /\ X \in Int /\ Y \in Int /\ Z \in Int /\ V \in Int /\ W \in Int /\ T \in Int
       /\ 20000 * Unit = 2 * T /\ 50000 * Unit = 5 * T
  BY <1>2, <1>6, <1>7, <1>8, <1>10
<1>12. 20000 * V = 2 * W + X + Y + Z
  BY <1>5, <1>10
<1>13. /\ -(2 * T) <= X /\ X <= 2 * T /\ -(2 * T) <= Y /\ Y <= 2 * T /\ -T <= Z /\ Z <= T
  BY <1>4, <1>6, <1>7, <1>8, <1>10, <1>11
<1>14. 2 * W <= 20000 * V + 5 * T /\ 20000 * V - 5 * T <= 2 * W
  BY <1>11, <1>12, <1>13
<1> QED
  BY <1>9, <1>10, <1>11, <1>14

(***************************************************************************)
(* The form's estimate of a line and its charge differ by two and a half   *)
(* paise at most.                                                          *)
(***************************************************************************)
LEMMA LineEstimateClose ==
  ASSUME NEW line \in LineItem, ~line.inclusive
  PROVE  /\ LineEstimate(line) \in Nat
         /\ 2 * LineEstimate(line) <= (2 * LineCharge(line) + 5) * (10000 * Unit)
         /\ (2 * LineCharge(line) - 5) * (10000 * Unit) <= 2 * LineEstimate(line)
<1> DEFINE p == line.price
           q == line.quantity
           d == line.discount
           r == line.rate
           g == Gross(line)
           off == Round(g * d, 100)
           n == Net(line)
           t == Tax(line)
<1>1. p \in Nat /\ q \in Nat /\ d \in 0 .. 100 /\ r \in 0 .. 100 /\ Unit \in Nat \ {0}
  BY UnitAssumption DEF LineItem
<1>2. g \in Nat /\ n \in Nat /\ t \in Nat
  BY NetTyped, TaxTyped
<1>3. g = Round(p * q, Unit) /\ n = g - off /\ t = Round(n * r, 100)
  BY TaxTyped DEF Gross, Net
<1>4. LineCharge(line) = n + t
  BY TaxTyped DEF LineCharge
<1>5. LineEstimate(line) = q * p * (100 - d) * (100 + r)
  BY DEF LineEstimate
<1> HIDE DEF p, q, d, r, g, off, n, t
<1>6. /\ p * q \in Nat /\ q * p = p * q /\ g * d \in Int /\ n * r \in Int
      /\ 100 - d \in 0 .. 100 /\ 100 + r \in 100 .. 200
      /\ p * q * (100 - d) * (100 + r) \in Nat
  BY <1>1, <1>2
<1>7. -Unit <= 2 * (Unit * g - p * q) /\ 2 * (Unit * g - p * q) <= Unit
  <2>1. /\ Unit * g \in Int /\ 2 * (Unit * g) <= 2 * (p * q) + Unit
        /\ 2 * (p * q) - Unit < 2 * (Unit * g)
    BY <1>1, <1>3, <1>6, RoundBounds
  <2> QED
    BY <1>1, <1>6, <2>1
<1>8. -100 <= 2 * (100 * n - g * (100 - d)) /\ 2 * (100 * n - g * (100 - d)) <= 100
  <2>1. /\ off \in Int /\ 2 * (100 * off) <= 2 * (g * d) + 100
        /\ 2 * (g * d) - 100 < 2 * (100 * off)
    <3>1. 100 \in Nat \ {0}
      OBVIOUS
    <3> QED
      BY <1>6, <3>1, RoundBounds DEF off
  <2>2. g * (100 - d) = 100 * g - g * d
    BY <1>1, <1>2
  <2>3. PICK e, h : e = g * d /\ h = g * (100 - d)
    OBVIOUS
  <2>4. /\ off \in Int /\ e \in Int /\ h = 100 * g - e /\ n = g - off /\ g \in Int
        /\ 2 * (100 * off) <= 2 * e + 100 /\ 2 * e - 100 < 2 * (100 * off)
    BY <1>2, <1>3, <1>6, <2>1, <2>2, <2>3
  <2>5. -100 <= 2 * (100 * n - h) /\ 2 * (100 * n - h) <= 100
    BY <2>4
  <2> QED
    BY <2>3, <2>5
<1>9. -100 <= 2 * (100 * (n + t) - n * (100 + r)) /\ 2 * (100 * (n + t) - n * (100 + r)) <= 100
  <2>1. /\ t \in Int /\ 2 * (100 * t) <= 2 * (n * r) + 100
        /\ 2 * (n * r) - 100 < 2 * (100 * t)
    <3>1. 100 \in Nat \ {0}
      OBVIOUS
    <3> QED
      BY <1>3, <1>6, <3>1, RoundBounds
  <2>2. n * (100 + r) = 100 * n + n * r
    BY <1>1, <1>2
  <2> QED
    BY <1>2, <1>6, <2>1, <2>2
<1>10. /\ 2 * ((p * q) * (100 - d) * (100 + r)) <= (2 * (n + t) + 5) * (10000 * Unit)
       /\ (2 * (n + t) - 5) * (10000 * Unit) <= 2 * ((p * q) * (100 - d) * (100 + r))
  <2>1. PICK m, a, b : m = p * q /\ a = 100 - d /\ b = 100 + r
    OBVIOUS
  <2>2. RoundedInTurn(m, a, b, g, n, t)
    BY <1>2, <1>6, <1>7, <1>8, <1>9, <2>1 DEF RoundedInTurn
  <2>3. /\ 2 * (m * a * b) <= (2 * (n + t) + 5) * (10000 * Unit)
        /\ (2 * (n + t) - 5) * (10000 * Unit) <= 2 * (m * a * b)
    BY <2>2, ErrorsAddUp
  <2> QED
    BY <2>1, <2>3
<1> QED
  BY <1>4, <1>5, <1>6, <1>10

(* h is a linear function of f.                                            *)
Affine(h, f, S, a, b, c) ==
  /\ a \in Int /\ b \in Int /\ c \in Int
  /\ \A x \in S : h[x] = (a * f[x] + b) * c

(***************************************************************************)
(* The sum of a linear function of values is that function of their sum    *)
(* and number.                                                             *)
(***************************************************************************)
LEMMA SumAffine ==
  ASSUME NEW f, NEW h, NEW S, Addable(f, S), NEW a, NEW b, NEW c, Affine(h, f, S, a, b, c)
  PROVE  /\ Addable(h, S)
         /\ SumFunctionOnSet(h, S) = (a * SumFunctionOnSet(f, S) + b * Cardinality(S)) * c
<1>1. PICK one : one = [x \in S |-> 1]
  OBVIOUS
<1>2. PICK bs : bs = [x \in S |-> b * one[x]]
  OBVIOUS
<1>3. PICK af : af = [x \in S |-> a * f[x]]
  OBVIOUS
<1>4. PICK sum : sum = [x \in S |-> af[x] + bs[x]]
  OBVIOUS
<1>5. /\ IsFiniteSet(S) /\ \A x \in S : f[x] \in Int
      /\ a \in Int /\ b \in Int /\ c \in Int
      /\ \A x \in S : h[x] = (a * f[x] + b) * c
  BY DEF Addable, Affine
<1>6. Addable(one, S) /\ SumFunctionOnSet(one, S) = Cardinality(S)
  <2>1. (\A x \in S : one[x] \in {0, 1} /\ one[x] \in Int) /\ {x \in S : one[x] = 1} = S
    BY <1>1
  <2> QED
    BY <1>5, <2>1, SumOnes DEF Addable
<1>7. Addable(bs, S) /\ SumFunctionOnSet(bs, S) = b * Cardinality(S)
  <2>1. \A x \in S : bs[x] = b * one[x]
    BY <1>2
  <2>2. SumFunctionOnSet(bs, S) = b * SumFunctionOnSet(one, S) /\ Addable(bs, S)
    BY <1>5, <1>6, <2>1, SumScale
  <2> QED
    BY <1>6, <2>2
<1>8. Addable(af, S) /\ SumFunctionOnSet(af, S) = a * SumFunctionOnSet(f, S)
  <2>1. \A x \in S : af[x] = a * f[x]
    BY <1>3
  <2> QED
    BY <1>5, <2>1, SumScale
<1>9. Addable(sum, S) /\ SumFunctionOnSet(sum, S)
                           = a * SumFunctionOnSet(f, S) + b * Cardinality(S)
  <2>1. \A x \in S : sum[x] = af[x] + bs[x]
    BY <1>4
  <2>2. Addable(af, S) /\ Addable(bs, S)
    BY <1>7, <1>8
  <2>3. /\ Addable(sum, S)
        /\ SumFunctionOnSet(sum, S) = SumFunctionOnSet(af, S) + SumFunctionOnSet(bs, S)
    BY <2>1, <2>2, SumAdd
  <2> QED
    BY <1>7, <1>8, <2>3
<1>10. \A x \in S : h[x] = c * sum[x]
  <2> SUFFICES ASSUME NEW x \in S
               PROVE  h[x] = c * sum[x]
    OBVIOUS
  <2>1. sum[x] = a * f[x] + b * 1 /\ f[x] \in Int
    BY <1>1, <1>2, <1>3, <1>4, <1>5
  <2>2. (a * f[x] + b) * c = c * (a * f[x] + b * 1)
    BY <1>5, <2>1
  <2> QED
    BY <1>5, <2>1, <2>2
<1>11. Addable(h, S) /\ SumFunctionOnSet(h, S) = c * SumFunctionOnSet(sum, S)
  <2>1. Addable(sum, S) /\ c \in Int
    BY <1>5, <1>9
  <2> QED
    BY <1>10, <2>1, SumScale
<1>12. SumFunctionOnSet(f, S) \in Int /\ Cardinality(S) \in Int
  BY <1>5, SumType, FS_CardinalityType
<1>13. PICK s, k : s = SumFunctionOnSet(f, S) /\ k = Cardinality(S)
  OBVIOUS
<1>14. c * (a * s + b * k) = (a * s + b * k) * c
  BY <1>5, <1>12, <1>13
<1> QED
  BY <1>9, <1>11, <1>13, <1>14

(***************************************************************************)
(* The form's estimate of a document is within two and a half paise a line *)
(* of its charge.                                                          *)
(***************************************************************************)
LEMMA EstimateCloseToCharge ==
  ASSUME NEW lines \in Seq(LineItem), \A k \in DOMAIN lines : ~lines[k].inclusive
  PROVE  /\ 2 * Estimate(lines) <= (2 * Charge(lines) + 5 * Len(lines)) * (10000 * Unit)
         /\ (2 * Charge(lines) - 5 * Len(lines)) * (10000 * Unit) <= 2 * Estimate(lines)
<1> DEFINE D == DOMAIN lines
           K == 10000 * Unit
<1>1. PICK e : e = [k \in D |-> LineEstimate(lines[k])]
  OBVIOUS
<1>2. PICK c : c = [k \in D |-> LineCharge(lines[k])]
  OBVIOUS
<1>3. PICK twice : twice = [k \in D |-> 2 * e[k]]
  OBVIOUS
<1>4. PICK above : above = [k \in D |-> (2 * c[k] + 5) * K]
  OBVIOUS
<1>5. PICK below : below = [k \in D |-> (2 * c[k] + (-5)) * K]
  OBVIOUS
<1>6. Estimate(lines) = SumFunctionOnSet(e, D) /\ Charge(lines) = SumFunctionOnSet(c, D)
  BY <1>1, <1>2 DEF Estimate, Charge, SumFunction
<1>7. IsFiniteSet(D) /\ Cardinality(D) = Len(lines) /\ \A k \in D : lines[k] \in LineItem
  BY SequenceDomain
<1>8. K \in Int
  BY UnitAssumption
<1>9. \A k \in D : /\ e[k] \in Int /\ c[k] \in Int
                   /\ twice[k] = 2 * e[k] /\ above[k] = (2 * c[k] + 5) * K
                   /\ below[k] = (2 * c[k] + (-5)) * K
                   /\ twice[k] <= above[k] /\ below[k] <= twice[k]
  <2> SUFFICES ASSUME NEW k \in D
               PROVE  /\ e[k] \in Int /\ c[k] \in Int
                      /\ twice[k] = 2 * e[k] /\ above[k] = (2 * c[k] + 5) * K
                      /\ below[k] = (2 * c[k] + (-5)) * K
                      /\ twice[k] <= above[k] /\ below[k] <= twice[k]
    OBVIOUS
  <2>1. lines[k] \in LineItem /\ ~lines[k].inclusive
    BY <1>7
  <2>2. /\ LineEstimate(lines[k]) \in Nat
        /\ 2 * LineEstimate(lines[k]) <= (2 * LineCharge(lines[k]) + 5) * K
        /\ (2 * LineCharge(lines[k]) - 5) * K <= 2 * LineEstimate(lines[k])
    BY <2>1, LineEstimateClose
  <2>3. LineCharge(lines[k]) \in Nat
    BY <2>1, TaxTyped DEF LineCharge
  <2>4. /\ e[k] = LineEstimate(lines[k]) /\ c[k] = LineCharge(lines[k])
        /\ twice[k] = 2 * e[k] /\ above[k] = (2 * c[k] + 5) * K
        /\ below[k] = (2 * c[k] + (-5)) * K
    BY <1>1, <1>2, <1>3, <1>4, <1>5
  <2>5. 2 * c[k] + (-5) = 2 * c[k] - 5
    BY <2>3, <2>4
  <2> HIDE DEF K
  <2> QED
    BY <2>2, <2>3, <2>4, <2>5
<1> HIDE DEF D, K
<1>10. Addable(e, D) /\ Addable(c, D)
  BY <1>7, <1>9 DEF Addable
<1>11. Addable(twice, D) /\ SumFunctionOnSet(twice, D) = 2 * SumFunctionOnSet(e, D)
  <2>1. \A k \in D : twice[k] = 2 * e[k]
    BY <1>9
  <2> QED
    BY <1>10, <2>1, SumScale
<1>12. Addable(above, D) /\ SumFunctionOnSet(above, D)
                              = (2 * SumFunctionOnSet(c, D) + 5 * Cardinality(D)) * K
  <2>1. Affine(above, c, D, 2, 5, K)
    BY <1>8, <1>9 DEF Affine
  <2> QED
    BY <1>10, <2>1, SumAffine
<1>13. Addable(below, D) /\ SumFunctionOnSet(below, D)
                              = (2 * SumFunctionOnSet(c, D) + (-5) * Cardinality(D)) * K
  <2>1. Affine(below, c, D, 2, -5, K)
    BY <1>8, <1>9 DEF Affine
  <2> QED
    BY <1>10, <2>1, SumAffine
<1>14. /\ SumFunctionOnSet(twice, D) <= SumFunctionOnSet(above, D)
       /\ SumFunctionOnSet(below, D) <= SumFunctionOnSet(twice, D)
  BY <1>9, <1>11, <1>12, <1>13, SumMonotone
<1>15. Len(lines) \in Nat /\ Charge(lines) \in Nat
  BY SequenceDomain, ChargeTyped
<1>16. 2 * Charge(lines) + (-5) * Len(lines) = 2 * Charge(lines) - 5 * Len(lines)
  BY <1>15
<1> QED
  BY <1>6, <1>7, <1>11, <1>12, <1>13, <1>14, <1>16 DEF K

--------------------------------------------------------------------------------
(***************************************************************************)
(* A copied line charges what its original does, or more when the price    *)
(* included the tax.                                                       *)
(***************************************************************************)
LEMMA CopiedLine ==
  ASSUME NEW line \in LineItem
  PROVE  LET copy == [line EXCEPT !.inclusive = FALSE] IN
         /\ copy \in LineItem
         /\ LineCharge(line) <= LineCharge(copy)
         /\ ~line.inclusive => LineCharge(line) = LineCharge(copy)
<1> DEFINE copy == [line EXCEPT !.inclusive = FALSE]
<1>1. /\ copy \in LineItem /\ ~copy.inclusive
      /\ copy.price = line.price /\ copy.quantity = line.quantity
      /\ copy.discount = line.discount /\ copy.rate = line.rate
  BY DEF LineItem
<1> HIDE DEF copy
<1>2. Net(copy) = Net(line)
  BY <1>1 DEF Net, Gross
<1>3. /\ Net(line) \in Nat /\ Tax(copy) \in Nat
      /\ LineCharge(copy) = Net(line) + Tax(copy)
      /\ Tax(copy) = Round(Net(line) * line.rate, 100)
  BY <1>1, <1>2, NetTyped, TaxTyped DEF LineCharge
<1>4. line.inclusive => LineCharge(line) = Net(line)
  BY TaxTyped DEF LineCharge
<1>5. ~line.inclusive => LineCharge(line) = LineCharge(copy)
  BY <1>3, TaxTyped DEF LineCharge
<1>6. line.inclusive \in BOOLEAN
  BY DEF LineItem
<1> QED
  BY <1>1, <1>3, <1>4, <1>5, <1>6 DEF copy

(* The same for the lines of a document.                                   *)
LEMMA CopiedCharge ==
  ASSUME NEW d, d.lines \in Seq(LineItem)
  PROVE  /\ StoredLines(d) \in Seq(LineItem)
         /\ Charge(d.lines) <= Charge(StoredLines(d))
         /\ (\A k \in DOMAIN d.lines : ~d.lines[k].inclusive)
              => Charge(d.lines) = Charge(StoredLines(d))
<1>1. PICK lines, copy : lines = d.lines /\ copy = StoredLines(d)
  OBVIOUS
<1>2. copy = [k \in DOMAIN lines |-> [lines[k] EXCEPT !.inclusive = FALSE]]
  BY <1>1 DEF StoredLines
<1>3. /\ IsFiniteSet(DOMAIN lines) /\ \A k \in DOMAIN lines : lines[k] \in LineItem
      /\ DOMAIN lines = 1 .. Len(lines) /\ Len(lines) \in Nat
  BY <1>1, SequenceDomain
<1>4. \A k \in DOMAIN lines :
        /\ copy[k] \in LineItem
        /\ LineCharge(lines[k]) <= LineCharge(copy[k])
        /\ ~lines[k].inclusive => LineCharge(lines[k]) = LineCharge(copy[k])
  BY <1>2, <1>3, CopiedLine
<1>5. DOMAIN copy = DOMAIN lines /\ copy \in Seq(LineItem)
  <2>1. DOMAIN copy = 1 .. Len(lines) /\ copy = [k \in 1 .. Len(lines) |-> copy[k]]
    BY <1>2, <1>3
  <2> QED
    BY <1>3, <1>4, <2>1
<1>6. PICK f, g : /\ f = [k \in DOMAIN lines |-> LineCharge(lines[k])]
                  /\ g = [k \in DOMAIN copy |-> LineCharge(copy[k])]
  OBVIOUS
<1>7. /\ Charge(lines) = SumFunctionOnSet(f, DOMAIN lines)
      /\ Charge(copy) = SumFunctionOnSet(g, DOMAIN lines)
  BY <1>5, <1>6 DEF Charge, SumFunction
<1>8. Addable(f, DOMAIN lines) /\ Addable(g, DOMAIN lines)
  <2>1. \A line \in LineItem : LineCharge(line) \in Int
    BY TaxTyped DEF LineCharge
  <2> QED
    BY <1>3, <1>4, <1>5, <1>6, <2>1 DEF Addable
<1>9. \A k \in DOMAIN lines : f[k] <= g[k]
  BY <1>4, <1>5, <1>6
<1>10. ASSUME \A k \in DOMAIN lines : ~lines[k].inclusive
       PROVE  \A k \in DOMAIN lines : f[k] = g[k]
  BY <1>10, <1>4, <1>5, <1>6
<1> QED
  BY <1>1, <1>5, <1>7, <1>8, <1>9, <1>10, SumMonotone, SumSame

--------------------------------------------------------------------------------
(***************************************************************************)
(* The parts of the invariant: the amounts of a document are those of its  *)
(* lines, with the seller's state of some moment; a copy has the stored    *)
(* lines of a document of the book; no document is overpaid; a bill's      *)
(* totals are those of its items.                                          *)
(***************************************************************************)
Calculated(d) == \E from \in State : d.amounts = CalculateInvoice(d.lines, from, d.buyer)

Copied(d, rows) ==
  d.source # NoSource => d.source \in DOMAIN rows /\ d.lines = StoredLines(rows[d.source])

InOrder(rows) ==
  \A i \in DOMAIN rows : Calculated(rows[i]) /\ Balance(rows[i]) >= 0 /\ Copied(rows[i], rows)

BillsCalculated ==
  \A i \in DOMAIN bills : \E items \in BillForm : bills[i] = PurchaseTotals(items)

IInv == TypeOK /\ InOrder(documents) /\ BillsCalculated

(***************************************************************************)
(* createInvoice makes a well-formed document that owes something or       *)
(* nothing.                                                                *)
(***************************************************************************)
LEMMA DocumentMade ==
  ASSUME seller \in State, NEW type \in DocumentType, NEW lines \in Seq(LineItem),
         NEW buyer \in State \cup {NoState}, NEW source \in Nat
  PROVE  LET d == Document(type, lines, buyer, source) IN
         /\ d \in DocumentRow /\ Calculated(d) /\ Balance(d) >= 0
         /\ d.lines = lines /\ d.source = source
<1> DEFINE c == CalculateInvoice(lines, seller, buyer)
<1>1. c \in InvoiceAmounts
  BY InvoiceCalculated
<1>2. Document(type, lines, buyer, source) =
        [type |-> type, status |-> "ISSUED", lines |-> lines, buyer |-> buyer,
         amounts |-> c, paid |-> 0, source |-> source]
  BY DEF Document
<1>3. Calculated(Document(type, lines, buyer, source))
  BY <1>2 DEF Calculated
<1> HIDE DEF c
<1>4. c.grand \in Nat
  BY <1>1 DEF InvoiceAmounts
<1> QED
  BY <1>1, <1>2, <1>3, <1>4 DEF DocumentRow, Balance

(* A new document disturbs none of those before it.                        *)
LEMMA AppendInOrder ==
  ASSUME NEW rows \in Seq(DocumentRow), InOrder(rows),
         NEW d \in DocumentRow, Calculated(d), Balance(d) >= 0, Copied(d, rows)
  PROVE  Append(rows, d) \in Seq(DocumentRow) /\ InOrder(Append(rows, d))
<1> DEFINE more == Append(rows, d)
<1>1. /\ more \in Seq(DocumentRow) /\ DOMAIN rows \subseteq DOMAIN more
      /\ \A i \in DOMAIN more : more[i] = d \/ (i \in DOMAIN rows /\ more[i] = rows[i])
      /\ \A i \in DOMAIN rows : more[i] = rows[i]
  OBVIOUS
<1> HIDE DEF more
<1>2. \A e : Copied(e, rows) => Copied(e, more)
  BY <1>1 DEF Copied
<1> QED
  BY <1>1, <1>2 DEF InOrder, more

(***************************************************************************)
(* A document may be marked or paid: what it was calculated from, and what *)
(* its copies were made of, is left alone.                                 *)
(***************************************************************************)
LEMMA ChangeInOrder ==
  ASSUME NEW rows \in Seq(DocumentRow), InOrder(rows), NEW i \in DOMAIN rows,
         NEW d \in DocumentRow, Balance(d) >= 0,
         d.lines = rows[i].lines, d.buyer = rows[i].buyer,
         d.amounts = rows[i].amounts, d.source = rows[i].source
  PROVE  /\ [rows EXCEPT ![i] = d] \in Seq(DocumentRow)
         /\ InOrder([rows EXCEPT ![i] = d])
<1> DEFINE changed == [rows EXCEPT ![i] = d]
<1>1. /\ changed \in Seq(DocumentRow) /\ DOMAIN changed = DOMAIN rows
      /\ changed[i] = d /\ \A j \in DOMAIN rows \ {i} : changed[j] = rows[j]
  OBVIOUS
<1> HIDE DEF changed
<1>2. \A j \in DOMAIN rows : StoredLines(changed[j]) = StoredLines(rows[j])
  BY <1>1 DEF StoredLines
<1>3. \A j \in DOMAIN rows : Copied(changed[j], changed)
  <2> SUFFICES ASSUME NEW j \in DOMAIN rows
               PROVE  Copied(changed[j], changed)
    OBVIOUS
  <2>1. Copied(rows[j], rows)
    BY DEF InOrder
  <2>2. changed[j].lines = rows[j].lines /\ changed[j].source = rows[j].source
    BY <1>1
  <2> QED
    BY <1>1, <1>2, <2>1, <2>2 DEF Copied
<1>4. \A j \in DOMAIN rows : Calculated(changed[j])
  BY <1>1 DEF InOrder, Calculated
<1>5. \A j \in DOMAIN rows : Balance(changed[j]) >= 0
  BY <1>1 DEF InOrder
<1> QED
  BY <1>1, <1>3, <1>4, <1>5 DEF InOrder, changed

(***************************************************************************)
(* A bill's header is well formed. Its grand total is rounded by half a    *)
(* paisa at most, and so are the three columns of which one counts twice:  *)
(* they disagree by less than two paise, and by whole ones.                *)
(***************************************************************************)
LEMMA BillTotals ==
  ASSUME NEW items \in BillForm
  PROVE  LET b == PurchaseTotals(items) IN
         b \in BillRow /\ b.grand - (b.taxable + b.cgst + b.sgst) \in -1 .. 1
<1> DEFINE D == DOMAIN items
           f == [i \in D |-> items[i].quantity * items[i].price]
           g == [i \in D |-> items[i].quantity * items[i].price * items[i].rate]
           x == SumFunctionOnSet(f, D)
           y == SumFunctionOnSet(g, D)
<1>1. IsFiniteSet(D) /\ \A i \in D : items[i] \in BillItem
  BY BillFormAssumption, SequenceDomain
<1>2. x \in Nat /\ y \in Nat
  <2>1. \A i \in D : f[i] \in Nat /\ g[i] \in Nat
    <3> SUFFICES ASSUME NEW i \in D
                 PROVE  /\ items[i].quantity * items[i].price \in Nat
                        /\ items[i].quantity * items[i].price * items[i].rate \in Nat
      OBVIOUS
    <3>1. items[i].quantity \in Nat /\ items[i].price \in Nat /\ items[i].rate \in Nat
      BY <1>1 DEF BillItem
    <3>2. PICK q, p, r : q = items[i].quantity /\ p = items[i].price /\ r = items[i].rate
      OBVIOUS
    <3>3. q * p \in Nat /\ q * p * r \in Nat
      BY <3>1, <3>2
    <3> QED
      BY <3>2, <3>3
  <2> HIDE DEF f, g, D
  <2> QED
    BY <1>1, <2>1, SumNatural
<1>3. PurchaseTotals(items) =
        [taxable |-> Round(x, Unit), cgst |-> Round(y, 200 * Unit),
         sgst |-> Round(y, 200 * Unit), igst |-> 0, grand |-> Round(100 * x + y, 100 * Unit)]
  BY DEF PurchaseTotals, SumFunction
<1> HIDE DEF D, f, g, x, y
<1> DEFINE a == Round(x, Unit)
           c == Round(y, 200 * Unit)
           w == Round(100 * x + y, 100 * Unit)
<1>4. /\ Unit \in Nat \ {0} /\ 100 * Unit \in Nat \ {0} /\ 200 * Unit \in Nat \ {0}
      /\ 100 * x + y \in Nat /\ x \in Int /\ y \in Int
      /\ Unit * 0 <= x /\ (200 * Unit) * 0 <= y /\ (100 * Unit) * 0 <= 100 * x + y
  BY <1>2, UnitAssumption
<1>5. /\ a \in Nat /\ 2 * (Unit * a) <= 2 * x + Unit /\ 2 * x - Unit < 2 * (Unit * a)
  BY <1>4, RoundBounds, RoundAtLeast
<1>6. /\ c \in Nat /\ 2 * ((200 * Unit) * c) <= 2 * y + 200 * Unit
      /\ 2 * y - 200 * Unit < 2 * ((200 * Unit) * c)
  BY <1>4, RoundBounds, RoundAtLeast
<1>7. /\ w \in Nat /\ 2 * ((100 * Unit) * w) <= 2 * (100 * x + y) + 100 * Unit
      /\ 2 * (100 * x + y) - 100 * Unit < 2 * ((100 * Unit) * w)
  BY <1>4, RoundBounds, RoundAtLeast
<1> HIDE DEF a, c, w
<1>8. PICK A, C, W : A = Unit * a /\ C = Unit * c /\ W = Unit * w
  OBVIOUS
<1>9. /\ A \in Int /\ C \in Int /\ W \in Int
      /\ (200 * Unit) * c = 200 * C /\ (100 * Unit) * w = 100 * W
  BY <1>4, <1>5, <1>6, <1>7, <1>8
<1>10. W - (A + C + C) < 2 * Unit /\ -(2 * Unit) < W - (A + C + C)
  <2>1. 2 * (200 * C) <= 2 * y + 200 * Unit /\ 2 * y - 200 * Unit < 2 * (200 * C)
    BY <1>6, <1>9
  <2>2. 2 * (100 * W) <= 2 * (100 * x + y) + 100 * Unit
        /\ 2 * (100 * x + y) - 100 * Unit < 2 * (100 * W)
    BY <1>7, <1>9
  <2>3. 2 * A <= 2 * x + Unit /\ 2 * x - Unit < 2 * A
    BY <1>5, <1>8
  <2> QED
    BY <1>4, <1>9, <2>1, <2>2, <2>3
<1> DEFINE off == w - (a + c + c)
<1>11. off \in Int /\ Unit * off = W - (A + C + C)
  BY <1>4, <1>5, <1>6, <1>7, <1>8
<1> HIDE DEF off
<1>12. Unit * off < Unit * 2 /\ Unit * (-2) < Unit * off
  BY <1>4, <1>10, <1>11
<1>13. off < 2 /\ -2 < off
  <2>1. 2 \in Int /\ -2 \in Int /\ off \in Int
    BY <1>11
  <2> QED
    BY <1>4, <1>12, <2>1, Cancel
<1> QED
  BY <1>3, <1>5, <1>6, <1>7, <1>11, <1>13 DEF BillRow, a, c, w, off

(* The books are empty at first.                                           *)
LEMMA InitHolds == Init => IInv
BY DEF Init, IInv, TypeOK, InOrder, BillsCalculated

(* Every action keeps the invariant.                                       *)
LEMMA NextKeeps == IInv /\ [Next]_vars => IInv'
<1> SUFFICES ASSUME IInv, [Next]_vars
             PROVE  IInv'
  OBVIOUS
<1>1. /\ seller \in State /\ documents \in Seq(DocumentRow) /\ bills \in Seq(BillRow)
      /\ InOrder(documents) /\ BillsCalculated
      /\ \A i \in DOMAIN documents : documents[i] \in DocumentRow
  BY DEF IInv, TypeOK
<1>2. ASSUME documents' \in Seq(DocumentRow), InOrder(documents'), UNCHANGED bills,
             seller' \in State
      PROVE  IInv'
  BY <1>1, <1>2 DEF IInv, TypeOK, BillsCalculated
<1>3. ASSUME NEW type \in DocumentType, NEW lines \in Form, NEW buyer \in State \cup {NoState},
             Issue(type, lines, buyer)
      PROVE  IInv'
  <2> DEFINE d == Document(type, lines, buyer, NoSource)
  <2>1. lines \in Seq(LineItem) /\ NoSource \in Nat
    BY FormAssumption DEF NoSource
  <2>2. d \in DocumentRow /\ Calculated(d) /\ Balance(d) >= 0 /\ d.source = NoSource
    BY <1>1, <2>1, DocumentMade
  <2>3. documents' = Append(documents, d) /\ UNCHANGED <<seller, bills>>
    BY <1>3 DEF Issue
  <2> HIDE DEF d
  <2>4. documents' \in Seq(DocumentRow) /\ InOrder(documents')
    BY <1>1, <2>2, <2>3, AppendInOrder DEF Copied
  <2> QED
    BY <1>1, <1>2, <2>3, <2>4
<1>4. ASSUME NEW i \in DOMAIN documents, Duplicate(i)
      PROVE  IInv'
  <2> DEFINE original == documents[i]
             d == Document(original.type, StoredLines(original), original.buyer, i)
  <2>1. /\ i \in Nat /\ original.type \in DocumentType /\ original.lines \in Seq(LineItem)
        /\ original.buyer \in State \cup {NoState}
    BY <1>1 DEF DocumentRow
  <2>2. StoredLines(original) \in Seq(LineItem)
    BY <2>1, CopiedCharge
  <2>3. /\ d \in DocumentRow /\ Calculated(d) /\ Balance(d) >= 0
        /\ d.lines = StoredLines(original) /\ d.source = i
    <3>1. PICK t, l, b : t = original.type /\ l = StoredLines(original) /\ b = original.buyer
      OBVIOUS
    <3>2. /\ seller \in State /\ t \in DocumentType /\ l \in Seq(LineItem)
          /\ b \in State \cup {NoState} /\ i \in Nat
      BY <1>1, <2>1, <2>2, <3>1
    <3>3. /\ Document(t, l, b, i) \in DocumentRow /\ Calculated(Document(t, l, b, i))
          /\ Balance(Document(t, l, b, i)) >= 0
      BY <3>2, DocumentMade
    <3>4. Document(t, l, b, i).lines = l /\ Document(t, l, b, i).source = i
      BY DEF Document
    <3> QED
      BY <3>1, <3>3, <3>4
  <2>4. documents' = Append(documents, d) /\ UNCHANGED <<seller, bills>>
    BY <1>4 DEF Duplicate
  <2>5. Copied(d, documents)
    BY <2>3 DEF Copied
  <2> HIDE DEF d
  <2>6. documents' \in Seq(DocumentRow) /\ InOrder(documents')
    BY <1>1, <2>3, <2>4, <2>5, AppendInOrder
  <2> QED
    BY <1>1, <1>2, <2>4, <2>6
<1>5. ASSUME NEW i \in DOMAIN documents, Convert(i)
      PROVE  IInv'
  <2> DEFINE quotation == documents[i]
             marked == [quotation EXCEPT !.status = "CONVERTED"]
             rows == [documents EXCEPT ![i] = marked]
             d == Document("TAX_INVOICE", StoredLines(quotation), quotation.buyer, i)
  <2>1. /\ i \in Nat /\ quotation \in DocumentRow /\ quotation.lines \in Seq(LineItem)
        /\ quotation.buyer \in State \cup {NoState}
    BY <1>1 DEF DocumentRow
  <2>2. StoredLines(quotation) \in Seq(LineItem)
    BY <2>1, CopiedCharge
  <2>3. /\ d \in DocumentRow /\ Calculated(d) /\ Balance(d) >= 0
        /\ d.lines = StoredLines(quotation) /\ d.source = i
    <3>1. PICK t, l, b : t = "TAX_INVOICE" /\ l = StoredLines(quotation) /\ b = quotation.buyer
      OBVIOUS
    <3>2. /\ seller \in State /\ t \in DocumentType /\ l \in Seq(LineItem)
          /\ b \in State \cup {NoState} /\ i \in Nat
      BY <1>1, <2>1, <2>2, <3>1, TypeAssumption
    <3>3. /\ Document(t, l, b, i) \in DocumentRow /\ Calculated(Document(t, l, b, i))
          /\ Balance(Document(t, l, b, i)) >= 0
      BY <3>2, DocumentMade
    <3>4. Document(t, l, b, i).lines = l /\ Document(t, l, b, i).source = i
      BY DEF Document
    <3> QED
      BY <3>1, <3>3, <3>4
  <2>4. documents' = Append(rows, d) /\ UNCHANGED <<seller, bills>>
    BY <1>5 DEF Convert
  <2>5. /\ marked \in DocumentRow /\ marked.lines = quotation.lines
        /\ marked.buyer = quotation.buyer /\ marked.amounts = quotation.amounts
        /\ marked.source = quotation.source /\ marked.paid = quotation.paid
    BY <2>1 DEF DocumentRow
  <2>6. Balance(marked) >= 0
    BY <1>1, <2>5 DEF InOrder, Balance
  <2>7. StoredLines(marked) = StoredLines(quotation)
    BY <2>5 DEF StoredLines
  <2> HIDE DEF d, marked
  <2>8. rows \in Seq(DocumentRow) /\ InOrder(rows)
    BY <1>1, <2>5, <2>6, ChangeInOrder
  <2>9. DOMAIN rows = DOMAIN documents /\ rows[i] = marked
    BY <1>1
  <2>10. Copied(d, rows)
    BY <2>3, <2>7, <2>9 DEF Copied
  <2> HIDE DEF rows
  <2>11. documents' \in Seq(DocumentRow) /\ InOrder(documents')
    BY <2>3, <2>4, <2>8, <2>10, AppendInOrder
  <2> QED
    BY <1>1, <1>2, <2>4, <2>11
<1>6. ASSUME NEW i \in DOMAIN documents, NEW amount \in Paid(Balance(documents[i])),
             Receive(i, amount)
      PROVE  IInv'
  <2> DEFINE d == [documents[i] EXCEPT !.paid = @ + amount]
  <2>1. /\ documents[i] \in DocumentRow /\ documents[i].paid \in Nat
        /\ documents[i].amounts.grand \in Nat
    BY <1>1 DEF DocumentRow, InvoiceAmounts
  <2>2. amount \in Nat /\ amount <= documents[i].amounts.grand - documents[i].paid
    BY <1>6, <2>1 DEF Receive, Paid, Balance
  <2>3. PICK paid \in Nat : paid = documents[i].paid + amount
    BY <2>1, <2>2
  <2>4. d = [documents[i] EXCEPT !.paid = paid]
    BY <2>3
  <2>5. /\ d \in DocumentRow /\ d.lines = documents[i].lines /\ d.buyer = documents[i].buyer
        /\ d.amounts = documents[i].amounts /\ d.source = documents[i].source
        /\ d.paid = paid
    BY <2>1, <2>4 DEF DocumentRow
  <2>6. documents' = [documents EXCEPT ![i] = d] /\ UNCHANGED <<seller, bills>>
    BY <1>6 DEF Receive
  <2> HIDE DEF d
  <2>7. Balance(d) >= 0
    BY <2>1, <2>2, <2>3, <2>5 DEF Balance
  <2>8. documents' \in Seq(DocumentRow) /\ InOrder(documents')
    BY <1>1, <2>5, <2>6, <2>7, ChangeInOrder
  <2> QED
    BY <1>1, <1>2, <2>6, <2>8
<1>7. ASSUME NEW state \in State, MoveSeller(state)
      PROVE  IInv'
  BY <1>1, <1>7, <1>2 DEF MoveSeller
<1>8. ASSUME NEW items \in BillForm, RecordBill(items)
      PROVE  IInv'
  <2> DEFINE b == PurchaseTotals(items)
  <2>1. b \in BillRow
    BY BillTotals
  <2>2. bills' = Append(bills, b) /\ UNCHANGED <<seller, documents>>
    BY <1>8 DEF RecordBill
  <2>3. \A k \in DOMAIN bills' : bills'[k] = b \/ (k \in DOMAIN bills /\ bills'[k] = bills[k])
    <3> HIDE DEF b
    <3> QED
      BY <1>1, <2>1, <2>2
  <2>4. bills' \in Seq(BillRow)
    <3> HIDE DEF b
    <3> QED
      BY <1>1, <2>1, <2>2
  <2>5. BillsCalculated'
    BY <1>1, <2>3 DEF BillsCalculated
  <2> QED
    BY <1>1, <2>2, <2>4, <2>5 DEF IInv, TypeOK
<1>9. CASE UNCHANGED vars
  BY <1>1, <1>2, <1>9 DEF vars
<1> QED
  BY <1>3, <1>4, <1>5, <1>6, <1>7, <1>8, <1>9 DEF Next

(***************************************************************************)
(* IInv holds in every reachable state of Books, for any forms, bills and  *)
(* states, and any number of documents.                                    *)
(***************************************************************************)
THEOREM InvariantHolds == Spec => []IInv
BY InitHolds, NextKeeps, PTL DEF Spec

(***************************************************************************)
(* Every variable of Books has its type: no amount of a document or of a   *)
(* bill is ever negative, and no round-off exceeds half a rupee.           *)
(***************************************************************************)
THEOREM TypeCorrect == Spec => []TypeOK
<1>1. IInv => TypeOK
  BY DEF IInv
<1> QED
  BY <1>1, InvariantHolds, PTL

--------------------------------------------------------------------------------
(* What the invariant says of one document.                                *)
LEMMA RowFacts ==
  ASSUME IInv, NEW i \in DOMAIN documents
  PROVE  /\ documents[i] \in DocumentRow /\ documents[i].lines \in Seq(LineItem)
         /\ documents[i].amounts \in InvoiceAmounts
         /\ documents[i].amounts.grand = 100 * Round(Charge(documents[i].lines), 100)
         /\ documents[i].amounts.roundOff
              = documents[i].amounts.grand - Charge(documents[i].lines)
         /\ Column(documents[i].amounts.items, "lineTotal") = Charge(documents[i].lines)
         /\ DOMAIN documents[i].amounts.items = DOMAIN documents[i].lines
         /\ \A field \in {"taxable", "cgst", "sgst", "igst"} :
              documents[i].amounts[field] = Column(documents[i].amounts.items, field)
<1>1. documents[i] \in DocumentRow
  BY SequenceDomain DEF IInv, TypeOK
<1>2. documents[i].lines \in Seq(LineItem)
  BY <1>1 DEF DocumentRow
<1>3. PICK from \in State :
        documents[i].amounts = CalculateInvoice(documents[i].lines, from, documents[i].buyer)
  BY DEF IInv, InOrder, Calculated
<1>4. PICK c, l, b : /\ c = documents[i].amounts /\ l = documents[i].lines
                     /\ b = documents[i].buyer
  OBVIOUS
<1>5. /\ c \in InvoiceAmounts /\ c.grand = 100 * Round(Charge(l), 100)
      /\ c.roundOff = c.grand - Charge(l) /\ Column(c.items, "lineTotal") = Charge(l)
      /\ \A field \in {"taxable", "cgst", "sgst", "igst"} : c[field] = Column(c.items, field)
      /\ c.items = [k \in DOMAIN l |-> CalculateLine(l[k], InterState(from, b))]
  <2>1. c = CalculateInvoice(l, from, b) /\ l \in Seq(LineItem)
    BY <1>3, <1>2, <1>4
  <2> QED
    BY <2>1, InvoiceCalculated
<1>6. DOMAIN c.items = DOMAIN l
  BY <1>5
<1> QED
  BY <1>1, <1>2, <1>4, <1>5, <1>6

(***************************************************************************)
(* The amounts of every document add up to the paisa (calculateLine and    *)
(* calculateInvoice): a price that includes the tax is charged as it is,   *)
(* the line totals and the round-off are what is charged, and the round-   *)
(* off is at most half a rupee.                                            *)
(***************************************************************************)
THEOREM AmountsAgree == Spec => []AmountsAddUp
<1>1. IInv => AmountsAddUp
  <2> SUFFICES ASSUME IInv, NEW i \in DOMAIN documents
               PROVE  LET lines == documents[i].lines
                          a     == Amounts(documents[i])
                      IN  /\ \A k \in DOMAIN lines :
                               lines[k].inclusive => a.items[k].lineTotal = Net(lines[k])
                          /\ Column(a.items, "lineTotal") + a.roundOff = a.grand
                          /\ a.roundOff \in -49 .. 50
    BY DEF AmountsAddUp
  <2> DEFINE lines == documents[i].lines
             a     == Amounts(documents[i])
  <2>1. /\ lines \in Seq(LineItem) /\ a \in InvoiceAmounts /\ a.roundOff = a.grand - Charge(lines)
        /\ Column(a.items, "lineTotal") = Charge(lines)
    BY RowFacts DEF Amounts
  <2>2. ASSUME NEW k \in DOMAIN lines, lines[k].inclusive
        PROVE  a.items[k].lineTotal = Net(lines[k])
    <3>1. PICK from \in State : a = CalculateInvoice(lines, from, documents[i].buyer)
      BY DEF IInv, InOrder, Calculated, Amounts
    <3>2. PICK inter : inter = InterState(from, documents[i].buyer)
      OBVIOUS
    <3>3. a.items = [j \in DOMAIN lines |-> CalculateLine(lines[j], inter)]
      BY <2>1, <3>1, <3>2, InvoiceCalculated
    <3>4. lines[k] \in LineItem /\ inter \in BOOLEAN
      BY <2>1, <3>2, SequenceDomain DEF InterState
    <3>5. a.items[k].lineTotal = Taxable(lines[k]) + Tax(lines[k])
      BY <3>3, <3>4, LineCalculated
    <3> QED
      BY <2>2, <3>4, <3>5, TaxTyped
  <2>3. Charge(lines) \in Nat
    BY <2>1, ChargeTyped
  <2> HIDE DEF a, lines
  <2>4. a.grand \in Nat /\ a.roundOff \in -49 .. 50
    BY <2>1 DEF InvoiceAmounts
  <2>5. Column(a.items, "lineTotal") + a.roundOff = a.grand
    BY <2>1, <2>3, <2>4
  <2> QED
    BY <2>2, <2>4, <2>5 DEF a, lines
<1> QED
  BY <1>1, InvariantHolds, PTL

(***************************************************************************)
(* The total the document form shows while it is filled in (DocumentForm)  *)
(* is within two and a half paise a line of what is charged before the     *)
(* round-off.                                                              *)
(***************************************************************************)
THEOREM EstimatesClose == Spec => []EstimateClose
<1>1. IInv => EstimateClose
  <2> SUFFICES ASSUME IInv, NEW i \in DOMAIN documents,
                      \A k \in DOMAIN documents[i].lines : ~documents[i].lines[k].inclusive
               PROVE  LET d    == documents[i]
                          a    == Amounts(d)
                          slop == 5 * Len(d.lines)
                      IN  /\ 2 * Estimate(d.lines)
                               <= (2 * (a.grand - a.roundOff) + slop) * (10000 * Unit)
                          /\ 2 * Estimate(d.lines)
                               >= (2 * (a.grand - a.roundOff) - slop) * (10000 * Unit)
    BY DEF EstimateClose
  <2> DEFINE lines == documents[i].lines
             a     == Amounts(documents[i])
  <2>1. lines \in Seq(LineItem) /\ a \in InvoiceAmounts /\ a.roundOff = a.grand - Charge(lines)
    BY RowFacts DEF Amounts
  <2>2. /\ 2 * Estimate(lines) <= (2 * Charge(lines) + 5 * Len(lines)) * (10000 * Unit)
        /\ (2 * Charge(lines) - 5 * Len(lines)) * (10000 * Unit) <= 2 * Estimate(lines)
    <3>1. \A k \in DOMAIN lines : ~lines[k].inclusive
      OBVIOUS
    <3> HIDE DEF lines
    <3> QED
      BY <2>1, <3>1, EstimateCloseToCharge
  <2>3. Charge(lines) \in Nat
    BY <2>1, ChargeTyped
  <2>4. Estimate(lines) \in Int /\ Len(lines) \in Nat
    <3> DEFINE e == [k \in DOMAIN lines |-> LineEstimate(lines[k])]
    <3>1. \A k \in DOMAIN lines : e[k] \in Nat
      BY <2>1, SequenceDomain, LineEstimateClose
    <3>2. SumFunctionOnSet(e, DOMAIN lines) \in Nat
      <4> HIDE DEF e
      <4> QED
        BY <2>1, <3>1, SequenceDomain, SumNatural
    <3> QED
      BY <2>1, <3>2 DEF Estimate, SumFunction
  <2> HIDE DEF a, lines
  <2>5. a.grand - a.roundOff = Charge(lines)
    BY <2>1, <2>3 DEF InvoiceAmounts
  <2>6. PICK low, high, e : /\ low = (2 * Charge(lines) - 5 * Len(lines)) * (10000 * Unit)
                            /\ high = (2 * Charge(lines) + 5 * Len(lines)) * (10000 * Unit)
                            /\ e = 2 * Estimate(lines)
    OBVIOUS
  <2>7. low \in Int /\ high \in Int /\ e \in Int
    BY <2>3, <2>4, <2>6, UnitAssumption
  <2>8. e <= high /\ e >= low
    BY <2>2, <2>6, <2>7
  <2> QED
    BY <2>5, <2>6, <2>8 DEF a, lines
<1> QED
  BY <1>1, InvariantHolds, PTL

(***************************************************************************)
(* A duplicate or a conversion charges what its original does, whatever    *)
(* state the organization has moved to meanwhile; more only if a price     *)
(* included the tax.                                                       *)
(***************************************************************************)
THEOREM CopiesCostTheSame == Spec => []CopyCostsTheSame
<1>1. IInv => CopyCostsTheSame
  <2> SUFFICES ASSUME IInv, NEW i \in DOMAIN documents, documents[i].source # NoSource
               PROVE  LET d        == documents[i]
                          original == documents[d.source]
                      IN  /\ Amounts(d).grand >= Amounts(original).grand
                          /\ (\A k \in DOMAIN original.lines : ~original.lines[k].inclusive)
                               => Amounts(d).grand = Amounts(original).grand
    BY DEF CopyCostsTheSame
  <2> DEFINE d        == documents[i]
             original == documents[d.source]
  <2>1. d.source \in DOMAIN documents /\ d.lines = StoredLines(original)
    BY DEF IInv, InOrder, Copied
  <2>2. /\ d.amounts.grand = 100 * Round(Charge(d.lines), 100)
        /\ original.amounts.grand = 100 * Round(Charge(original.lines), 100)
        /\ d.lines \in Seq(LineItem) /\ original.lines \in Seq(LineItem)
    BY <2>1, RowFacts
  <2>3. PICK new, old : new = Charge(d.lines) /\ old = Charge(original.lines)
    OBVIOUS
  <2>4. /\ old <= new
        /\ (\A k \in DOMAIN original.lines : ~original.lines[k].inclusive) => new = old
    BY <2>1, <2>2, <2>3, CopiedCharge
  <2>5. old \in Nat /\ new \in Nat
    BY <2>2, <2>3, ChargeTyped
  <2>6. 100 * Round(old, 100) <= 100 * Round(new, 100)
    <3>1. /\ Round(old, 100) \in Int /\ 2 * (100 * Round(old, 100)) <= 2 * old + 100
          /\ Round(new, 100) \in Int /\ 2 * new - 100 < 2 * (100 * Round(new, 100))
      <4>1. 100 \in Nat \ {0} /\ old \in Int /\ new \in Int
        BY <2>5
      <4> QED
        BY <4>1, RoundBounds
    <3> QED
      BY <2>4, <2>5, <3>1
  <2>7. Round(old, 100) \in Int /\ Round(new, 100) \in Int
    BY <2>5, RoundBounds
  <2> HIDE DEF d, original
  <2> QED
    BY <2>2, <2>3, <2>4, <2>6, <2>7 DEF Amounts, d, original
<1> QED
  BY <1>1, InvariantHolds, PTL

(***************************************************************************)
(* The columns of every purchase bill (POST /api/purchases) add up to its  *)
(* grand total, but for one paisa.                                         *)
(***************************************************************************)
THEOREM BillsAddUp == Spec => []BillsNearlyAddUp
<1>1. IInv => BillsNearlyAddUp
  <2> SUFFICES ASSUME IInv, NEW i \in DOMAIN bills
               PROVE  bills[i].grand - (bills[i].taxable + bills[i].cgst + bills[i].sgst)
                        \in -1 .. 1
    BY DEF BillsNearlyAddUp
  <2>1. PICK items \in BillForm : bills[i] = PurchaseTotals(items)
    BY DEF IInv, BillsCalculated
  <2> QED
    BY <2>1, BillTotals
<1> QED
  BY <1>1, InvariantHolds, PTL

--------------------------------------------------------------------------------
(* Values sorted by a key and added up per key add up to the sum of all.   *)
LEMMA SumByKey ==
  ASSUME NEW D, IsFiniteSet(D), NEW Keys, IsFiniteSet(Keys), NEW v, Addable(v, D),
         NEW key, \A k \in D : key[k] \in Keys
  PROVE  SumFunctionOnSet([h \in Keys |->
             SumFunctionOnSet([k \in D |-> IF key[k] = h THEN v[k] ELSE 0], D)], Keys)
           = SumFunctionOnSet(v, D)
<1>1. PICK f : f = [h \in Keys |-> [k \in D |-> IF key[k] = h THEN v[k] ELSE 0]]
  OBVIOUS
<1>2. PICK rows : rows = [h \in Keys |->
                     SumFunctionOnSet([k \in D |-> IF key[k] = h THEN v[k] ELSE 0], D)]
  OBVIOUS
<1>3. \A h \in Keys : rows[h] = SumFunctionOnSet(f[h], D)
  BY <1>1, <1>2
<1>4. \A h \in Keys, k \in D : f[h][k] \in Int
  BY <1>1 DEF Addable
<1>5. PICK g : g = [k \in D |-> [h \in Keys |-> f[h][k]]]
  OBVIOUS
<1>6. \A h \in Keys, k \in D : g[k][h] = f[h][k]
  BY <1>5
<1>7. \A k \in D : v[k] = SumFunctionOnSet(g[k], Keys)
  <2> SUFFICES ASSUME NEW k \in D
               PROVE  v[k] = SumFunctionOnSet(g[k], Keys)
    OBVIOUS
  <2>1. Addable(g[k], Keys)
    BY <1>4, <1>6 DEF Addable
  <2>2. /\ key[k] \in Keys /\ g[k][key[k]] = v[k]
        /\ \A h \in Keys \ {key[k]} : g[k][h] = 0
    BY <1>1, <1>6
  <2> QED
    BY <2>1, <2>2, SumAtOne
<1>8. SumFunctionOnSet(rows, Keys) = SumFunctionOnSet(v, D)
  <2>1. Table(Keys, D, f, g, rows, v)
    BY <1>3, <1>4, <1>6, <1>7 DEF Table
  <2> QED
    BY <2>1, SumExchange
<1> QED
  BY <1>2, <1>8

(* There are finitely many issued documents, and HSN codes in them.        *)
LEMMA HsnCodesFinite == IInv => IsFiniteSet(HsnCodes) /\ IsFiniteSet(Issued)
<1> SUFFICES ASSUME IInv
             PROVE  IsFiniteSet(HsnCodes) /\ IsFiniteSet(Issued)
  OBVIOUS
<1> DEFINE codes(i) == {documents[i].lines[k].hsn : k \in DOMAIN documents[i].lines}
           C == {codes(i) : i \in Issued}
<1>1. IsFiniteSet(Issued) /\ Issued \subseteq DOMAIN documents
  <2>1. IsFiniteSet(DOMAIN documents)
    BY SequenceDomain DEF IInv, TypeOK
  <2> QED
    BY <2>1, FS_Subset DEF Issued
<1>2. \A i \in Issued : IsFiniteSet(codes(i))
  <2> SUFFICES ASSUME NEW i \in Issued
               PROVE  IsFiniteSet(codes(i))
    OBVIOUS
  <2>1. IsFiniteSet(DOMAIN documents[i].lines)
    BY <1>1, RowFacts, SequenceDomain
  <2> DEFINE f == [k \in DOMAIN documents[i].lines |-> documents[i].lines[k].hsn]
  <2>2. f \in Surjection(DOMAIN documents[i].lines, codes(i))
    BY Zenon DEF Surjection
  <2> HIDE DEF f
  <2> QED
    BY <2>1, <2>2, FS_Surjection
<1>3. IsFiniteSet(C)
  <2> DEFINE f == [i \in Issued |-> codes(i)]
  <2>1. f \in Surjection(Issued, C)
    BY Zenon DEF Surjection
  <2> HIDE DEF f, C
  <2> QED
    BY <1>1, <2>1, FS_Surjection
<1>4. HsnCodes = UNION C
  BY DEF HsnCodes
<1> HIDE DEF codes
<1>5. \A T \in C : IsFiniteSet(T)
  BY <1>2
<1> HIDE DEF C
<1> QED
  BY <1>1, <1>3, <1>4, <1>5, FS_UNION

(***************************************************************************)
(* The table by HSN code of the GST summary adds up to the totals of the   *)
(* documents' headers.                                                     *)
(***************************************************************************)
LEMMA HsnTableAddsUp ==
  ASSUME IInv, NEW field \in {"taxable", "cgst", "sgst", "igst"}
  PROVE  SumFunction([hsn \in HsnCodes |-> HsnRow(hsn, field)]) = SalesTotal(field)
<1> DEFINE D(i) == DOMAIN documents[i].lines
           items(i) == documents[i].amounts.items
           part(h, i) == SumFunctionOnSet([k \in D(i) |->
                           IF documents[i].lines[k].hsn = h THEN items(i)[k][field] ELSE 0], D(i))
<1>1. IsFiniteSet(HsnCodes) /\ IsFiniteSet(Issued) /\ Issued \subseteq DOMAIN documents
  BY HsnCodesFinite DEF Issued
<1>2. PICK f : f = [h \in HsnCodes |-> [i \in Issued |-> part(h, i)]]
  OBVIOUS
<1>3. PICK rows : rows = [h \in HsnCodes |-> HsnRow(h, field)]
  OBVIOUS
<1>4. PICK columns : columns = [i \in Issued |-> documents[i].amounts[field]]
  OBVIOUS
<1>5. \A h \in HsnCodes : rows[h] = SumFunctionOnSet(f[h], Issued)
  <2>1. \A h : HsnRow(h, field) = SumFunctionOnSet([i \in Issued |-> part(h, i)], Issued)
    BY DEF HsnRow, SumFunction
  <2> HIDE DEF part
  <2> QED
    BY <1>2, <1>3, <2>1
<1>6. \A i \in Issued :
        /\ IsFiniteSet(D(i)) /\ DOMAIN items(i) = D(i)
        /\ \A k \in D(i) : items(i)[k][field] \in Int
        /\ documents[i].amounts[field] = Column(items(i), field)
  <2> SUFFICES ASSUME NEW i \in Issued
               PROVE  /\ IsFiniteSet(D(i)) /\ DOMAIN items(i) = D(i)
                      /\ \A k \in D(i) : items(i)[k][field] \in Int
                      /\ documents[i].amounts[field] = Column(items(i), field)
    OBVIOUS
  <2>1. /\ documents[i].lines \in Seq(LineItem) /\ documents[i].amounts \in InvoiceAmounts
        /\ documents[i].amounts[field] = Column(items(i), field)
    BY <1>1, RowFacts
  <2>2. DOMAIN items(i) = D(i)
    BY <1>1, RowFacts
  <2>3. items(i) \in Seq(LineAmounts)
    BY <2>1 DEF InvoiceAmounts
  <2>4. \A a \in LineAmounts : a[field] \in Int
    BY DEF LineAmounts
  <2> QED
    BY <2>1, <2>2, <2>3, <2>4, SequenceDomain
<1>7. \A h \in HsnCodes, i \in Issued : f[h][i] \in Int
  <2> SUFFICES ASSUME NEW h \in HsnCodes, NEW i \in Issued
               PROVE  part(h, i) \in Int
    BY <1>2
  <2> DEFINE g == [k \in D(i) |-> IF documents[i].lines[k].hsn = h THEN items(i)[k][field] ELSE 0]
  <2>1. Addable(g, D(i))
    BY <1>6 DEF Addable
  <2> HIDE DEF g
  <2>2. SumFunctionOnSet(g, D(i)) \in Int
    BY <2>1, SumType
  <2> QED
    BY <2>2 DEF g
<1>8. PICK g : g = [i \in Issued |-> [h \in HsnCodes |-> part(h, i)]]
  OBVIOUS
<1>9. \A h \in HsnCodes, i \in Issued : g[i][h] = f[h][i]
  <2> HIDE DEF part
  <2> QED
    BY <1>2, <1>8
<1>10. \A i \in Issued : columns[i] = SumFunctionOnSet(g[i], HsnCodes)
  <2> SUFFICES ASSUME NEW i \in Issued
               PROVE  columns[i] = SumFunctionOnSet(g[i], HsnCodes)
    OBVIOUS
  <2>1. PICK v, key, K : /\ v = [k \in D(i) |-> items(i)[k][field]]
                         /\ key = [k \in D(i) |-> documents[i].lines[k].hsn]
                         /\ K = D(i)
    OBVIOUS
  <2>2. Addable(v, K) /\ IsFiniteSet(K)
    BY <1>6, <2>1 DEF Addable
  <2>3. \A k \in K : key[k] \in HsnCodes
    BY <2>1 DEF HsnCodes
  <2>4. columns[i] = SumFunctionOnSet(v, K)
    BY <1>4, <1>6, <2>1 DEF Column, SumFunction
  <2>5. \A h : part(h, i) = SumFunctionOnSet([k \in K |-> IF key[k] = h THEN v[k] ELSE 0], K)
    <3>1. \A h : [k \in D(i) |-> IF documents[i].lines[k].hsn = h THEN items(i)[k][field] ELSE 0]
                   = [k \in K |-> IF key[k] = h THEN v[k] ELSE 0]
      BY <2>1
    <3> QED
      BY <2>1, <3>1
  <2>6. g[i] = [h \in HsnCodes |->
               SumFunctionOnSet([k \in K |-> IF key[k] = h THEN v[k] ELSE 0], K)]
    <3> HIDE DEF part
    <3> QED
      BY <1>8, <2>5
  <2> HIDE DEF part
  <2> QED
    BY <1>1, <2>2, <2>3, <2>4, <2>6, SumByKey
<1>11. SumFunctionOnSet(rows, HsnCodes) = SumFunctionOnSet(columns, Issued)
  <2>1. Table(HsnCodes, Issued, f, g, rows, columns)
    BY <1>1, <1>5, <1>7, <1>10, <1>9 DEF Table
  <2> QED
    BY <2>1, SumExchange
<1> QED
  BY <1>3, <1>4, <1>11 DEF SalesTotal, SumFunction

(***************************************************************************)
(* The dashboard's receivable is that of the outstanding report, with what *)
(* converted quotations were never paid and the single paise.              *)
(***************************************************************************)
LEMMA ReceivablesReconcile ==
  ASSUME IInv
  PROVE  LET converted == DOMAIN documents \ Issued
             paise     == {i \in Issued : Balances[i] = 1}
         IN  DashboardOutstanding - OutstandingReport
               = Sum(Balances, converted) + Cardinality(paise)
<1>1. PICK D, R, f : D = DOMAIN documents /\ R = OutstandingRows /\ f = Balances
  OBVIOUS
<1>2. IsFiniteSet(D) /\ \A i \in D : f[i] \in Nat
  <2>1. \A i \in DOMAIN documents : Balance(documents[i]) \in Nat
    <3> SUFFICES ASSUME NEW i \in DOMAIN documents
                 PROVE  Balance(documents[i]) \in Nat
      OBVIOUS
    <3>1. documents[i].amounts.grand \in Nat /\ documents[i].paid \in Nat
      BY RowFacts DEF DocumentRow, InvoiceAmounts
    <3>2. Balance(documents[i]) >= 0
      BY DEF IInv, InOrder
    <3> QED
      BY <3>1, <3>2 DEF Balance
  <2>2. IsFiniteSet(DOMAIN documents)
    BY SequenceDomain DEF IInv, TypeOK
  <2> QED
    BY <1>1, <2>1, <2>2 DEF Balances
<1>3. Issued \subseteq D /\ R \subseteq Issued /\ R = {i \in Issued : f[i] > 1}
  BY <1>1 DEF Issued, OutstandingRows
<1>4. \A S \in SUBSET D : Sum(f, S) = SumFunctionOnSet(f, S)
  <2> SUFFICES ASSUME NEW S \in SUBSET D
               PROVE  Sum(f, S) = SumFunctionOnSet(f, S)
    OBVIOUS
  <2>1. PICK g : g = [i \in S |-> f[i]]
    OBVIOUS
  <2>2. Addable(f, S)
    BY <1>2, FS_Subset DEF Addable
  <2>3. SumFunctionOnSet(f, S) = SumFunctionOnSet(g, S)
    BY <2>1, <2>2, SumSame
  <2> QED
    BY <2>1, <2>3 DEF Sum, SumFunction
<1>5. Addable(f, D) /\ Addable(f, Issued) /\ Addable(f, R) /\ Addable(f, D \ Issued)
  BY <1>2, <1>3, FS_Subset DEF Addable
<1>6. SumFunctionOnSet(f, D)
        = SumFunctionOnSet(f, Issued) + SumFunctionOnSet(f, D \ Issued)
  BY <1>3, <1>5, SumSplit
<1>7. SumFunctionOnSet(f, Issued)
        = SumFunctionOnSet(f, R) + SumFunctionOnSet(f, Issued \ R)
  BY <1>3, <1>5, SumSplit
<1>8. SumFunctionOnSet(f, Issued \ R) = Cardinality({i \in Issued : f[i] = 1})
  <2>1. \A i \in Issued \ R : f[i] \in {0, 1}
    BY <1>2, <1>3
  <2>2. IsFiniteSet(Issued \ R)
    BY <1>2, <1>3, FS_Subset
  <2>3. {i \in Issued \ R : f[i] = 1} = {i \in Issued : f[i] = 1}
    BY <1>3
  <2> QED
    BY <2>1, <2>2, <2>3, SumOnes
<1>9. /\ SumFunctionOnSet(f, D) \in Int /\ SumFunctionOnSet(f, R) \in Int
      /\ SumFunctionOnSet(f, Issued) \in Int /\ SumFunctionOnSet(f, D \ Issued) \in Int
  BY <1>5, SumType
<1>10. Cardinality({i \in Issued : f[i] = 1}) \in Int
  <2>1. IsFiniteSet({i \in Issued : f[i] = 1})
    BY <1>2, <1>3, FS_Subset
  <2> QED
    BY <2>1, FS_CardinalityType
<1>11. Sum(f, D) - Sum(f, R) = Sum(f, D \ Issued) + Cardinality({i \in Issued : f[i] = 1})
  <2>1. /\ Sum(f, D) = SumFunctionOnSet(f, D) /\ Sum(f, R) = SumFunctionOnSet(f, R)
        /\ Sum(f, D \ Issued) = SumFunctionOnSet(f, D \ Issued)
    BY <1>3, <1>4
  <2> QED
    BY <1>6, <1>7, <1>8, <1>9, <1>10, <2>1
<1> QED
  BY <1>1, <1>11 DEF DashboardOutstanding, OutstandingReport

(***************************************************************************)
(* The dashboard, the GST summary and the outstanding report read the same *)
(* rows, and differ by exactly what their queries leave out.               *)
(***************************************************************************)
THEOREM ReportsAgree == Spec => []ReportsReconcile
<1>1. IInv => ReportsReconcile
  BY HsnTableAddsUp, ReceivablesReconcile DEF ReportsReconcile
<1> QED
  BY <1>1, InvariantHolds, PTL

================================================================================
