---------------------------- MODULE MCCompanyRun ----------------------------
(* CompanyRun for TLC: one behaviour for every company of the registry, or *)
(* for business_validation alone with a page that fails the QA checks.     *)
EXTENDS CompanyRun

AllCompanies  == Companies
OnlyBusiness  == {"business_validation"}
OnlyGenerated == {"generated"}
WithBadEdit   == {"generated", "edited", "broken"}
GoodPages     == {"generated", "edited"}
=============================================================================
