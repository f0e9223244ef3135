SPECIFICATION Spec
CONSTANTS
  RunCompanies <- OnlyBusiness
  Pages <- WithBadEdit
  PassingPages <- GoodPages
  GeneratedPage = "generated"
INVARIANTS
  NoProposalAdviceWithoutPassingQa
CHECK_DEADLOCK FALSE
