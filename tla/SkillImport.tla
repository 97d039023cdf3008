---------------------------- MODULE SkillImport ----------------------------
(* migrate-skills (skill_migration.py) for one Skill name: the variants    *)
(* found in the source roots, in their order of preference, are imported   *)
(* into the catalog and, where they differ, into the conflict store.       *)
(*                                                                         *)
(* A variant is its digest, Absent where there is no such Skill and Unsafe *)
(* where structure or secret scanning rejects it.  The world is what the   *)
(* roots, the catalog and the store hold; the store is indexed by the name *)
(* of a retained variant, <<source, digest>>.                              *)
EXTENDS Naturals, Sequences, RuleCase

CONSTANTS Absent, Unsafe

\* The label of what the catalog holds already: observed after all the roots.
Existing(world) == Len(world.roots) + 1
Holds(world, source) ==
  IF source = Existing(world) THEN world.catalog ELSE world.roots[source]

\* _inspect_skill: an observation is a source and what it held.
Observe(world, source) == [source |-> source, variant |-> Holds(world, source)]
Eligible(o) == o.variant # Unsafe

\* The observations of the roots, and those that may become canonical.
Found(world) == {o \in {Observe(world, s) : s \in DOMAIN world.roots} : o.variant # Absent}
Candidates(world) == {o \in Found(world) : Eligible(o)}
Divergent(world) == \E o1, o2 \in Candidates(world) : o1.variant # o2.variant
First(observations) ==
  CHOOSE o \in observations : \A other \in observations : o.source <= other.source

\* selected: the canonical variant, or nothing.
Decision(disposition, selected, observations) ==
  [disposition |-> disposition, selected |-> selected, observations |-> observations]

\* Fault: a catalog that has the selected variant needs nothing more.
Decide_Fault(world) ==
  LET found == Found(world)
      first == First(Candidates(world))
  IN IF Candidates(world) = {} THEN Decision("blocked", {}, found)
     ELSE IF world.catalog = first.variant THEN Decision("unchanged", {first}, found)
     ELSE IF world.catalog # Absent
       THEN Decision("conflict", {}, found \cup {Observe(world, Existing(world))})
     ELSE Decision(IF Divergent(world) THEN "conflict" ELSE "create", {first}, found)

\* build_skill_migration_plan
Decide(world) ==
  LET found == Found(world)
      both == found \cup {Observe(world, Existing(world))}
      first == First(Candidates(world))
  IN IF Candidates(world) = {} THEN Decision("blocked", {}, found)
     ELSE IF world.catalog = Absent
       THEN Decision(IF Divergent(world) THEN "conflict" ELSE "create", {first}, found)
     ELSE IF world.catalog # first.variant THEN Decision("conflict", {}, both)
     ELSE Decision(IF Divergent(world) THEN "conflict" ELSE "unchanged", {first}, both)

-----------------------------------------------------------------------------
(* apply_skill_migration: its writes, in the order of the sources.         *)
Retained(o) == <<o.source, o.variant>>

\* One retained variant per digest, named for its first observation.
Variants(decision) ==
  {o \in decision.observations :
     /\ decision.disposition = "conflict" /\ Eligible(o)
     /\ \A other \in decision.observations : other.variant = o.variant => o.source <= other.source}

\* _materialize: the source still has what was planned.
Unchanged(world, o) == Holds(world, o.source) = o.variant

\* The canonical Skill is written where the place is free.
PutCatalog(world, decision) ==
  IF decision.disposition = "unchanged" \/ world.catalog # Absent \/ decision.selected = {}
  THEN world
  ELSE LET o == First(decision.selected)
       IN IF Unchanged(world, o) THEN [world EXCEPT !.catalog = o.variant]
          ELSE [world EXCEPT !.failed = TRUE]

\* A variant retained before must be what its name says; a new one is written.
Retainable(world, o) ==
  LET there == world.store[Retained(o)]
  IN there = o.variant \/ (there = Absent /\ Unchanged(world, o))

\* The variants that are due are retained up to the first that cannot be.
PutStore(world, due) ==
  LET done == {o \in due : \A other \in due : other.source <= o.source => Retainable(world, other)}
  IN [world EXCEPT !.store = [v \in DOMAIN @ |-> IF \E o \in done : v = Retained(o) THEN v[2] ELSE @[v]],
                   !.failed = done # due]

\* The canonical Skill, then the variants.  The command is killed before it
\* comes to source n, or at n = 0 before it has written anything.
Apply(world, decision, n) ==
  LET catalogued == PutCatalog(world, decision)
      due == {o \in Variants(decision) : o.source < n}
  IN IF n = 0 THEN world ELSE IF catalogued.failed THEN catalogued ELSE PutStore(catalogued, due)

-----------------------------------------------------------------------------
(* An import that was killed anywhere, even one whose sources changed      *)
(* under it, and is then run again to its end: the Skill of the catalog    *)
(* and every retained variant are still what they were, and every safe     *)
(* variant of the sources is in the catalog or retained for review.        *)
KeepsVariants(planned, world, n) ==
  LET killed == Apply(world, Decide([world EXCEPT !.roots = planned]), n)
      again == [killed EXCEPT !.failed = FALSE]
      final == Apply(again, Decide(again), Existing(again) + 1)
      kept == {final.catalog} \cup {final.store[v] : v \in DOMAIN final.store}
  IN /\ world.catalog # Absent => final.catalog = world.catalog
     /\ \A v \in DOMAIN final.store :
          IF world.store[v] # Absent THEN final.store[v] = world.store[v]
          ELSE final.store[v] \in {Absent, v[2]}
     /\ ~final.failed =>
          \A s \in DOMAIN world.roots : world.roots[s] \in {Absent, Unsafe} \/ world.roots[s] \in kept

(* So of the cases of an import: as planned, as found, and where it ends.  *)
ImportKeepsVariants ==
  case.rule = "import" =>
    KeepsVariants(case.planned,
                  [roots |-> case.roots, catalog |-> case.catalog, store |-> case.store, failed |-> FALSE],
                  case.stop)
=============================================================================
