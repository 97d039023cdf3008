-------------------------- MODULE MCSkillReconcile --------------------------
(* Model values for SkillReconcile.                                        *)
EXTENDS SkillReconcile

CONSTANTS a, b, v1, v2, p1
=============================================================================
