SPECIFICATION Spec
CONSTANTS
  RunCompanies <- OnlyBusiness
  Pages <- WithBadEdit
  PassingPages <- GoodPages
  GeneratedPage = "generated"
INVARIANTS
  ProposalCopiesReviewedPage
CHECK_DEADLOCK FALSE
