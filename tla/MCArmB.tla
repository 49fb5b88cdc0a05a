------------------------------- MODULE MCArmB -------------------------------
(* One SEC source, one registry source, and a name the model made up.        *)
EXTENDS ArmB

MCSources == {"edgar_filing", "companies_house"}
MCResolutionTools == {"companies_house"}
=============================================================================
