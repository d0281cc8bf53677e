SPECIFICATION Spec
CONSTANTS
  Unit = 10
  NoState = noState
  State = {s1, s2}
  Form <- MCForm
  BillForm <- MCBillForm
  DocumentType = {"TAX_INVOICE", "QUOTATION"}
  MaxDocuments = 2
  MaxBills = 1
INVARIANTS
  AmountsAddUp
  EstimateClose
  
  BillsNearlyAddUp
  
CHECK_DEADLOCK FALSE
