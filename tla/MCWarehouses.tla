----------------------------- MODULE MCWarehouses ------------------------------
(***************************************************************************)
(* A small instance of Warehouses: creations, edits, first invoices and    *)
(* locations, with the bodies the pages send and those other clients may.  *)
(***************************************************************************)
EXTENDS Warehouses, TLC

CONSTANTS r1, r2, r3

Send(kind, id, isDefault, isActive) ==
  [kind |-> kind, id |-> id, isDefault |-> isDefault, isActive |-> isActive]

MCBody ==
  { Send("create", NoId, "set", "keep"),
    Send("create", NoId, "unset", "keep"),
    Send("edit", NoId, "keep", "unset"),
    Send("edit", Main, "set", "keep"),
    Send("edit", Main, "unset", "keep"),
    Send("edit", Main, "keep", "unset"),
    Send("edit", r1, "set", "keep"),
    Send("ensure", NoId, "keep", "keep"),
    Send("location", Main, "keep", "keep"),
    Send("editLocation", r1, "keep", "unset") }
================================================================================
