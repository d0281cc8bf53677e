-------------------------------- MODULE MCBooks --------------------------------
(***************************************************************************)
(* A small instance of Books: quantities in tenths, and lines chosen so    *)
(* that a rounding meets a half, an odd tax, a discount and an included    *)
(* tax.                                                                    *)
(***************************************************************************)
EXTENDS Books

Line(price, quantity, discount, rate, inclusive, hsn) ==
  [price |-> price, quantity |-> quantity, discount |-> discount, rate |-> rate,
   inclusive |-> inclusive, hsn |-> hsn]

Plain     == Line(1005, 10, 0, 18, FALSE, "8517")
Half      == Line(3333, 15, 10, 5, FALSE, "8517")
OddTax    == Line(175, 10, 0, 12, FALSE, "N/A")
Included  == Line(960, 10, 0, 18, TRUE, "8517")
Included5 == Line(1047, 3, 15, 5, TRUE, "N/A")
Steep     == Line(97, 5, 1, 99, FALSE, "N/A")
Free      == Line(0, 10, 0, 18, FALSE, "N/A")

MCForm == {<<Plain>>, <<Included>>, <<Free>>, <<Steep>>, <<Half, OddTax>>, <<Included5, Half>>}

BillLine(price, quantity, rate) == [price |-> price, quantity |-> quantity, rate |-> rate]

MCBillForm == {<<BillLine(3333, 15, 5), BillLine(175, 10, 12)>>, <<BillLine(333, 3, 5)>>,
               <<BillLine(105, 1, 18), BillLine(105, 1, 28)>>}
================================================================================
