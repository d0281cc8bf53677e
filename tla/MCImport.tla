-------------------------------- MODULE MCImport -------------------------------
(* Three small files: one valid, one with a row the schema refuses, and one   *)
(* with more rows than the parser takes.                                    *)
EXTENDS Import, TLC

CONSTANTS w1, r1, r2

Cells(ok, key) == [ok |-> ok, key |-> key]
MCFile ==
  {<<Cells(TRUE, NoKey), Cells(TRUE, Formula)>>,
   <<Cells(TRUE, Plain), Cells(FALSE, Plain)>>,
   <<Cells(TRUE, Plain), Cells(TRUE, Plain), Cells(TRUE, Plain)>>}
UploadSymmetry == Permutations(Upload)
================================================================================
