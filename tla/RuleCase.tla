------------------------------ MODULE RuleCase ------------------------------
(* The rules without a state of their own, in CronDue, ReleaseRules,        *)
(* Governance and SkillImport, are stated of a case: a record of the name   *)
(* of a rule and what the rule is given.                                    *)
VARIABLE case
=============================================================================
