------------------------------- MODULE MCArmA -------------------------------
(* One SEC tool, one registry tool and a name the model made up.  A contract *)
(* may list two resolvable leads around one that is not, or none at all.     *)
EXTENDS ArmAScore, TLC

CONSTANTS n1, n2, n3, n4

MCAgents == {"exposure", "entity_resolution"}
MCExposureTools == {"edgar_filing"}
MCResolutionTools == {"companies_house"}
MCSources == MCExposureTools \union MCResolutionTools
MCTools == MCSources \union {"made_up"}
MCServedTools == MCSources
MCScopes == {MCExposureTools, MCResolutionTools}
MCLeadLists == { <<"us_facility">>, <<"uk_company", "us_facility", "rating_subject">> }
MCOneLead == { <<"uk_company">> }
MCTwoLeads == { <<"uk_company", "us_facility", "rating_subject">> }
MCChains == { <<"edgar_filing">>, <<"edgar_filing", "companies_house">>,
              <<"edgar_filing", "edgar_filing">>,
              <<"edgar_filing", "companies_house", "companies_house">> }
MCSymmetry == Permutations({n1, n2, n3, n4})
=============================================================================
