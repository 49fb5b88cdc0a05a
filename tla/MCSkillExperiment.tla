------------------------- MODULE MCSkillExperiment -------------------------
(* Runs of both variants, of the second alone or of the second twice, over   *)
(* one fixture or two, with and without ids set by the operator.             *)
EXTENDS SkillExperiment

MCAllConfigurations == SUBSET Roles
MCNoConfiguration == {{}}
MCOneFixture == {<<1>>}
MCSelections == {<<1>>, <<1, 2>>}
MCVariantLists == {<<"no-skill", "skill">>, <<"skill">>, <<"skill", "skill">>}
MCBothVariants == {<<"no-skill", "skill">>}
=============================================================================
