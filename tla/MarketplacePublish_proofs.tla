---------------------- MODULE MarketplacePublish_proofs ----------------------
(* Proofs about MarketplacePublish, for every number of commands, packages, *)
(* edits, kills and failures.                                               *)
EXTENDS
  MarketplacePublish, ReleaseRules, FiniteSetTheorems, SequenceTheorems, WellFoundedInduction, TLAPS

-----------------------------------------------------------------------------
(* Types, and what a command holds at each step.                           *)

Shape ==
  \A p \in Publishers :
    /\ job[p].at # "plan" => job[p].reviewed # None
    /\ job[p].at \in {"displace", "install"} =>
         job[p].stage = [tree |-> job[p].reviewed, state |-> "whole"]

TypeInv == TypeOK /\ Shape

(* One more package is read.                                               *)
LEMMA NextPackage ==
  ASSUME TypeOK, NEW p \in Publishers
  PROVE  /\ WithNext(p) \in Seq(Source) /\ Len(WithNext(p)) = Len(job[p].got) + 1
         /\ \A k \in 1..Len(job[p].got) : WithNext(p)[k] = job[p].got[k]
         /\ WithNext(p)[Len(job[p].got) + 1] = catalog[Len(job[p].got) + 1]
         /\ Len(job[p].got) + 1 \in Packages
         /\ LastPackage(p) => WithNext(p) \in Tree
<1>1. /\ job[p].got \in Seq(Source) /\ Len(job[p].got) \in Nat
      /\ Len(job[p].got) < NumPackages
  BY DEF TypeOK, Job
<1>2. Len(job[p].got) + 1 \in Packages
  BY <1>1, SizeAssumption DEF Packages
<1>3. catalog[Len(job[p].got) + 1] \in Source
  BY <1>2 DEF TypeOK, Tree
<1>4. WithNext(p) \in Seq(Source) /\ Len(WithNext(p)) = Len(job[p].got) + 1
  BY <1>1, <1>3 DEF WithNext
<1>5. LastPackage(p) => WithNext(p) \in Tree
  BY <1>4 DEF LastPackage, Tree, Packages
<1> QED  BY <1>1, <1>2, <1>3, <1>4, <1>5 DEF WithNext

LEMMA TypeInit == Init => TypeInv
<1> SUFFICES ASSUME Init PROVE TypeInv  OBVIOUS
<1>1. catalog \in Tree
  BY SizeAssumption, BoundAssumption DEF Init, Tree, Source
<1>2. Idle \in Job /\ Len(Idle.got) < NumPackages /\ Idle.at = "plan"
  BY SizeAssumption DEF Idle, Job, States
<1>3. \A p \in Publishers : job[p] = Idle
  BY DEF Init
<1>4. job \in [Publishers -> Job] /\ \A p \in Publishers : Len(job[p].got) < NumPackages
  BY <1>2, <1>3 DEF Init
<1>5. Shape
  BY <1>2, <1>3 DEF Shape
<1>6. torn \in BOOLEAN
  BY DEF Init
<1> QED  BY <1>1, <1>4, <1>5, <1>6, BoundAssumption DEF Init, TypeInv, TypeOK

LEMMA TypeStep == TypeInv /\ [Next]_vars => TypeInv'
<1> SUFFICES ASSUME TypeInv, [Next]_vars PROVE TypeInv'  OBVIOUS
<1> USE DEF TypeInv
<1>i. Idle \in Job /\ Len(Idle.got) < NumPackages /\ Idle.at = "plan"
  BY SizeAssumption DEF Idle, Job, States
<1>1. ASSUME NEW k \in Packages, Edit(k) PROVE TypeInv'
  <2>1. edits + 1 \in 0..MaxEdits
    BY <1>1, BoundAssumption DEF TypeOK, Edit
  <2>2. PICK v \in 1..MaxVersion :
          catalog' = [catalog EXCEPT ![k] = [body |-> edits + 1, version |-> v]]
    BY <1>1 DEF Edit
  <2>3. [body |-> edits + 1, version |-> v] \in Source
    BY <2>1, SizeAssumption DEF Source
  <2>4. catalog' \in Tree
    BY <2>2, <2>3 DEF TypeOK, Tree
  <2> QED  BY <1>1, <2>1, <2>4
         DEF Edit, TypeOK, Shape, buildVars, pathVars
<1>2. ASSUME NEW t \in builds, Spoil(t) PROVE TypeInv'
  BY <1>2, BoundAssumption DEF Spoil, Fault, TypeOK, Shape, catVars, pathVars
<1>3. ASSUME EditPublished PROVE TypeInv'
  <2>1. published' \in Copies
    BY <1>3 DEF EditPublished, TypeOK, Copies
  <2> QED  BY <1>3, <2>1, BoundAssumption
         DEF EditPublished, Fault, TypeOK, Shape, catVars, buildVars
<1>4. ASSUME NEW p \in Publishers, Read(p) PROVE TypeInv'
  <2>1. WithNext(p) \in Seq(Source) /\ Len(WithNext(p)) < NumPackages
    BY <1>4, NextPackage, SizeAssumption DEF Read, LastPackage, TypeOK, Job
  <2> QED  BY <1>4, <2>1
         DEF Read, Inside, Quiet, TypeOK, Shape, Job, catVars, buildVars, pathVars
<1>5. ASSUME NEW p \in Publishers, Plan(p) PROVE TypeInv'
  <2>1. WithNext(p) \in Tree /\ WithNext(p) # None
    BY <1>5, NextPackage, NoneAssumption DEF Plan
  <2>2. [Idle EXCEPT !.at = "freeze", !.reviewed = WithNext(p)] \in Job
    BY <2>1, <1>i DEF Idle, Job, States
  <2> QED  BY <1>5, <2>1, <2>2, <1>i
         DEF Plan, Inside, Quiet, TypeOK, Shape, Idle, catVars, buildVars, pathVars
<1>6. ASSUME NEW p \in Publishers, NEW j \in Job, job' = [job EXCEPT ![p] = j],
             Len(j.got) < NumPackages,
             j.at # "plan" => j.reviewed # None,
             j.at \in {"displace", "install"} =>
                j.stage = [tree |-> j.reviewed, state |-> "whole"],
             builds' \subseteq Tree, published' \in Copies \cup {None}, torn' \in BOOLEAN,
             crashes' \in 0..MaxCrashes, faults' \in 0..MaxFaults,
             UNCHANGED <<catVars, spoiled, latest>>
      PROVE  TypeInv'
  BY <1>6 DEF TypeOK, Shape, catVars
<1>7. ASSUME NEW p \in Publishers, NEW from \in {"freeze", "recheck"},
             NEW to \in {"build", "compare"}, Settle(p, from, to)
      PROVE  TypeInv'
  <2>1. CASE WithNext(p) = job[p].reviewed
    <3>1. [job[p] EXCEPT !.at = to, !.got = << >>] \in Job
      <4>1. to \in States /\ << >> \in Seq(Source)
        BY DEF States
      <4> QED  BY <4>1 DEF TypeOK, Job
    <3>2. job' = [job EXCEPT ![p] = [job[p] EXCEPT !.at = to, !.got = << >>]]
      BY <1>7, <2>1 DEF Settle, TypeOK
    <3>3. Len(<< >>) < NumPackages
      BY SizeAssumption
    <3>4. job[p].reviewed # None
      BY <1>7 DEF Settle, At, Shape
    <3> QED  BY <1>7, <3>1, <3>2, <3>3, <3>4, <1>6
           DEF Settle, Inside, Quiet, TypeOK, Job, buildVars, pathVars
  <2>2. CASE WithNext(p) # job[p].reviewed
    BY <1>7, <2>2, <1>i, <1>6
       DEF Settle, Ends, Inside, Quiet, TypeOK, buildVars, pathVars
  <2> QED  BY <2>1, <2>2
<1>8. ASSUME NEW p \in Publishers, NEW place \in States \ {"plan", "displace", "install"},
             NEW ok \in BOOLEAN, job[p].at # "plan", GotoOrEnd(p, ok, place),
             builds' \subseteq Tree, UNCHANGED <<spoiled, pathVars>>, Quiet
      PROVE  TypeInv'
  <2>1. CASE ok
    <3>1. [job[p] EXCEPT !.at = place] \in Job
      BY DEF TypeOK, Job
    <3> QED  BY <1>8, <2>1, <3>1, <1>6
           DEF GotoOrEnd, Goto, Quiet, TypeOK, Shape, Job, pathVars
  <2>2. CASE ~ok
    BY <1>8, <2>2, <1>i, <1>6 DEF GotoOrEnd, Ends, Quiet, TypeOK, pathVars
  <2> QED  BY <2>1, <2>2
<1>9. ASSUME NEW p \in Publishers, Build(p) PROVE TypeInv'
  <2>1. CASE job[p].reviewed \in builds
    BY <1>9, <2>1, <1>8 DEF Build, At, Inside, TypeOK, States, buildVars
  <2>2. CASE job[p].reviewed \notin builds
    BY <1>9, <2>2, <1>8 DEF Build, At, Inside, GotoOrEnd, TypeOK, States, buildVars
  <2> QED  BY <2>1, <2>2
<1>10. ASSUME NEW p \in Publishers, RenameBuild(p) PROVE TypeInv'
  <2>1. job[p].reviewed \in Tree
    BY <1>10 DEF RenameBuild, At, TypeOK, Shape, Job
  <2> QED  BY <1>10, <2>1, <1>8 DEF RenameBuild, At, TypeOK, States
<1>11. ASSUME NEW p \in Publishers, Stage(p) PROVE TypeInv'
  <2>1. CASE Admits(p) /\ Sound(Copied(p))
    <3>1. Copied(p) = [tree |-> job[p].reviewed, state |-> "whole"] /\ Copied(p) \in Copies
      BY <1>11, <2>1 DEF Stage, At, Copied, Sound, Copies, TypeOK, Shape, Job
    <3>2. PICK b \in BOOLEAN :
            job' = [job EXCEPT ![p] = [@ EXCEPT !.at = "displace", !.stage = Copied(p), !.stale = b]]
      BY <1>11, <2>1 DEF Stage
    <3>3. [job[p] EXCEPT !.at = "displace", !.stage = Copied(p), !.stale = b] \in Job
      BY <3>1 DEF TypeOK, Job, States
    <3> QED  BY <1>11, <3>1, <3>2, <3>3, <1>6
           DEF Stage, At, Inside, Quiet, TypeOK, Shape, Job, buildVars, pathVars
  <2>2. CASE ~(Admits(p) /\ Sound(Copied(p)))
    BY <1>11, <2>2, <1>i, <1>6 DEF Stage, Ends, Inside, Quiet, TypeOK, buildVars, pathVars
  <2> QED  BY <2>1, <2>2
<1>12. ASSUME NEW p \in Publishers, Displace(p) PROVE TypeInv'
  <2>1. [job[p] EXCEPT !.at = "install", !.displaced = published] \in Job
    BY DEF TypeOK, Job, States
  <2> QED  BY <1>12, <2>1, <1>6
         DEF Displace, At, Quiet, TypeOK, Shape, Job, buildVars
<1>13. ASSUME NEW p \in Publishers, DisplaceLost(p) \/ InstallRefused(p) PROVE TypeInv'
  BY <1>13, <1>i, <1>6
     DEF DisplaceLost, InstallRefused, Ends, Inside, Quiet, TypeOK, buildVars, pathVars
<1>14. ASSUME NEW p \in Publishers, Install(p) PROVE TypeInv'
  <2>1. job[p].reviewed \in Tree /\ job[p].stage \in Copies
    <3>1. job[p].reviewed \in Tree
      BY <1>14 DEF Install, At, TypeOK, Shape, Job
    <3>2. job[p].at = "install"
      BY <1>14 DEF Install, At
    <3>3. job[p].stage = [tree |-> job[p].reviewed, state |-> "whole"]
      BY <3>2 DEF Shape
    <3> QED  BY <3>1, <3>3 DEF Copies
  <2>2. \A q \in Publishers : q = p => job'[q] = Idle
    BY <1>14 DEF Install
  <2>a. \A q \in Publishers :
          q # p => \E b \in BOOLEAN : job'[q] = [job[q] EXCEPT !.stale = b]
    <3> SUFFICES ASSUME NEW q \in Publishers, q # p
                 PROVE  \E b \in BOOLEAN : job'[q] = [job[q] EXCEPT !.stale = b]
      OBVIOUS
    <3>1. job'[q] = [job[q] EXCEPT !.stale = job[q].stale \/ job[q].at \in {"displace", "install"}]
      BY <1>14 DEF Install
    <3> QED  BY <3>1
  <2>3. ASSUME NEW q \in Publishers
        PROVE  job'[q] \in Job /\ Len(job'[q].got) < NumPackages
    <3>1. CASE q = p
      BY <2>2, <3>1, <1>i
    <3>2. CASE q # p
      <4>1. PICK b \in BOOLEAN : job'[q] = [job[q] EXCEPT !.stale = b]
        BY <2>a, <3>2
      <4> QED  BY <4>1 DEF TypeOK, Job
    <3> QED  BY <3>1, <3>2
  <2>4. job' \in [Publishers -> Job]
    <3>1. job' = [q \in Publishers |-> job'[q]]
      BY <1>14 DEF Install
    <3> QED  BY <2>3, <3>1
  <2>5. Shape'
    <3> SUFFICES ASSUME NEW q \in Publishers
                 PROVE  /\ job'[q].at # "plan" => job'[q].reviewed # None
                        /\ job'[q].at \in {"displace", "install"} =>
                             job'[q].stage = [tree |-> job'[q].reviewed, state |-> "whole"]
      BY DEF Shape
    <3>1. CASE q = p
      BY <2>2, <3>1, <1>i
    <3>2. CASE q # p
      <4>1. PICK b \in BOOLEAN : job'[q] = [job[q] EXCEPT !.stale = b]
        BY <2>a, <3>2
      <4> QED  BY <4>1 DEF TypeOK, Shape, Job
    <3> QED  BY <3>1, <3>2
  <2>6. /\ published' = job[p].stage /\ latest' = job[p].reviewed /\ torn' = FALSE
        /\ UNCHANGED <<catVars, buildVars, crashes, faults>>
    BY <1>14 DEF Install, Quiet
  <2> QED  BY <2>1, <2>3, <2>4, <2>5, <2>6 DEF TypeOK, catVars, buildVars
<1>15. ASSUME NEW p \in Publishers, Fails(p) PROVE TypeInv'
  <2>1. published' \in Copies \cup {None}
    BY <1>15 DEF Fails, Restored, TypeOK, Job
  <2>2. torn' \in BOOLEAN
    BY <1>15 DEF Fails
  <2>3. /\ job' = [job EXCEPT ![p] = Idle] /\ faults' \in 0..MaxFaults
        /\ crashes' \in 0..MaxCrashes /\ builds' \subseteq Tree
        /\ UNCHANGED <<catVars, spoiled, latest>>
    BY <1>15, BoundAssumption DEF Fails, Fault, Ends, TypeOK, buildVars
  <2> QED  BY <2>1, <2>2, <2>3, <1>i, <1>6
<1>16. ASSUME NEW p \in Publishers, Crash(p) PROVE TypeInv'
  <2>1. torn' \in BOOLEAN
    BY <1>16 DEF Crash
  <2>2. /\ job' = [job EXCEPT ![p] = Idle] /\ crashes' \in 0..MaxCrashes
        /\ faults' \in 0..MaxFaults /\ builds' \subseteq Tree
        /\ published' \in Copies \cup {None} /\ UNCHANGED <<catVars, spoiled, latest>>
    BY <1>16, BoundAssumption DEF Crash, Ends, TypeOK, buildVars
  <2> QED  BY <2>1, <2>2, <1>i, <1>6
<1>17. CASE UNCHANGED vars
  BY <1>17 DEF vars, catVars, buildVars, pathVars, TypeOK, Shape
<1> QED
  BY <1>1, <1>2, <1>3, <1>4, <1>5, <1>7, <1>9, <1>10, <1>11, <1>12, <1>13, <1>14, <1>15,
     <1>16, <1>17 DEF Next, Prepare, Publish, Freeze, Recheck

(* Every variable stays in its type: readings are never longer than the    *)
(* catalog, what is staged and published is always a complete tree.        *)
THEOREM TypeCorrect == Spec => []TypeOK
<1>1. TypeInv => TypeOK  BY DEF TypeInv
<1> QED  BY <1>1, TypeInit, TypeStep, PTL DEF Spec

-----------------------------------------------------------------------------
(* The stable path.  Newest: what lies there is the last publication, unless *)
(* that was lost.  Fresh: what is about to be installed was compared with   *)
(* the last publication, unless another one came since.                     *)

Newest == published # None /\ ~torn => published.tree = latest

Fresh ==
  \A p \in Publishers :
    /\ job[p].at \in {"displace", "install"}
    /\ ~job[p].stale /\ ~torn /\ latest # None
    => Bumped(latest, job[p].reviewed)

PathInv == PathRestored /\ Newest /\ Fresh

LEMMA PathInit == Init => PathInv
  BY DEF Init, PathInv, PathRestored, Newest, Fresh

(* A command that is not between its renames, and not about to be: nothing  *)
(* it does on its own disturbs the path.                                    *)
LEMMA PathFrame ==
  ASSUME PathInv, NEW p \in Publishers, job[p].at # "install", UNCHANGED pathVars,
         \A q \in Publishers \ {p} : job'[q] = job[q],
         job'[p].at \notin {"displace", "install"}
  PROVE  PathInv'
<1>1. PathRestored'
  <2> SUFFICES ASSUME published = None, latest # None, ~torn
               PROVE  \E q \in Publishers : job'[q].at = "install" /\ job'[q].displaced # None
    BY DEF PathRestored, At, pathVars
  <2>1. PICK q \in Publishers : job[q].at = "install" /\ job[q].displaced # None
    BY DEF PathInv, PathRestored, At
  <2> QED  BY <2>1
<1>2. Newest'
  BY DEF PathInv, Newest, pathVars
<1>3. Fresh'
  BY DEF PathInv, Fresh, pathVars, Bumped
<1> QED  BY <1>1, <1>2, <1>3 DEF PathInv

LEMMA PathStep == TypeInv /\ PathInv /\ [Next]_vars => PathInv'
<1> SUFFICES ASSUME TypeInv, PathInv, [Next]_vars PROVE PathInv'  OBVIOUS
<1> USE DEF TypeInv
<1>i. Idle.at = "plan"
  BY DEF Idle
<1>1. ASSUME UNCHANGED <<published, latest, torn, job>> PROVE PathInv'
  BY <1>1 DEF PathInv, PathRestored, Newest, Fresh, Bumped, At
<1>2. ASSUME EditPublished PROVE PathInv'
  <2>1. published # None /\ published' # None /\ published'.tree = published.tree
    BY <1>2, NoneAssumption DEF EditPublished, TypeOK, Copies
  <2> QED  BY <1>2, <2>1
         DEF EditPublished, PathInv, PathRestored, Newest, Fresh, Bumped, At
<1>3. ASSUME NEW p \in Publishers, Prepare(p) PROVE PathInv'
  <2>1. /\ job[p].at # "install" /\ UNCHANGED pathVars
        /\ \A q \in Publishers \ {p} : job'[q] = job[q]
        /\ job'[p].at \notin {"displace", "install"}
    <3>1. CASE Read(p)
      BY <1>3, <3>1 DEF Read, Inside, TypeOK, Job, States
    <3>2. CASE Plan(p)
      BY <1>3, <3>2 DEF Plan, Inside, At, Idle
    <3>3. CASE Freeze(p) \/ Recheck(p)
      <4>1. job'[p] = Idle \/ job'[p].at \in {"build", "compare"}
        BY <1>3, <3>3 DEF Freeze, Recheck, Settle, Ends, TypeOK, Job
      <4> QED  BY <1>3, <1>i, <3>3, <4>1
             DEF Freeze, Recheck, Settle, Inside, At, Ends, TypeOK
    <3>4. CASE Build(p) \/ RenameBuild(p)
      BY <1>3, <3>4
         DEF Build, RenameBuild, GotoOrEnd, Goto, Inside, At, Ends, Idle, TypeOK, Job
    <3> QED  BY <1>3, <3>1, <3>2, <3>3, <3>4 DEF Prepare
  <2> QED  BY <2>1, PathFrame
<1>4. ASSUME NEW p \in Publishers, Stage(p) PROVE PathInv'
  <2>1. CASE ~(Admits(p) /\ Sound(Copied(p)))
    BY <1>4, <2>1, <1>i, PathFrame DEF Stage, Ends, Inside, At, TypeOK
  <2>2. CASE Admits(p) /\ Sound(Copied(p))
    <3>1. /\ job' = [job EXCEPT ![p] = [@ EXCEPT !.at = "displace", !.stage = Copied(p),
                       !.stale = \E q \in Publishers \ {p} : At(q, "install")]]
          /\ job[p].at = "compare" /\ UNCHANGED pathVars
      BY <1>4, <2>2 DEF Stage, At, Inside
    <3>2. /\ job'[p].at = "displace" /\ job'[p].reviewed = job[p].reviewed
          /\ \A q \in Publishers \ {p} : job'[q] = job[q]
      BY <3>1 DEF TypeOK, Job
    <3>3. job'[p].stale <=> \E q \in Publishers \ {p} : At(q, "install")
      BY <3>1 DEF TypeOK, Job
    <3>4. PathRestored'
      <4> SUFFICES ASSUME published = None, latest # None, ~torn
                   PROVE  \E q \in Publishers : job'[q].at = "install" /\ job'[q].displaced # None
        BY <3>1 DEF PathRestored, At, pathVars
      <4>1. PICK q \in Publishers : job[q].at = "install" /\ job[q].displaced # None
        BY DEF PathInv, PathRestored, At
      <4> QED  BY <3>1, <3>2, <4>1
    <3>5. Newest'
      BY <3>1 DEF PathInv, Newest, pathVars
    <3>6. ASSUME ~job'[p].stale, ~torn, latest # None
          PROVE  Bumped(latest, job[p].reviewed)
      <4>1. \A q \in Publishers : job[q].at # "install"
        BY <3>1, <3>3, <3>6 DEF At
      <4>2. published # None
        BY <4>1, <3>6 DEF PathInv, PathRestored, At
      <4> QED  BY <2>2, <4>2, <3>6 DEF Admits, PathInv, Newest
    <3>7. Fresh'
      BY <3>1, <3>2, <3>6 DEF PathInv, Fresh, pathVars, Bumped
    <3> QED  BY <3>4, <3>5, <3>7 DEF PathInv
  <2> QED  BY <2>1, <2>2
<1>5. ASSUME NEW p \in Publishers, Displace(p) PROVE PathInv'
  <2>1. /\ job[p].at = "displace" /\ published' = None
        /\ job' = [job EXCEPT ![p] = [@ EXCEPT !.at = "install", !.displaced = published]]
        /\ UNCHANGED <<latest, torn>>
    BY <1>5 DEF Displace, At
  <2>2. /\ job'[p].at = "install" /\ job'[p].displaced = published
        /\ job'[p].reviewed = job[p].reviewed /\ job'[p].stale = job[p].stale
        /\ \A q \in Publishers \ {p} : job'[q] = job[q]
    BY <2>1 DEF TypeOK, Job
  <2>3. PathRestored'
    <3> SUFFICES ASSUME latest # None, ~torn
                 PROVE  \E q \in Publishers : job'[q].at = "install" /\ job'[q].displaced # None
      BY <2>1 DEF PathRestored, At
    <3>1. CASE published # None
      BY <2>2, <3>1
    <3>2. CASE published = None
      <4>1. PICK q \in Publishers : job[q].at = "install" /\ job[q].displaced # None
        BY <3>2 DEF PathInv, PathRestored, At
      <4> QED  BY <2>1, <2>2, <4>1
    <3> QED  BY <3>1, <3>2
  <2>4. Newest'
    BY <2>1 DEF Newest
  <2>5. Fresh'
    BY <2>1, <2>2 DEF PathInv, Fresh, Bumped
  <2> QED  BY <2>3, <2>4, <2>5 DEF PathInv
<1>6. ASSUME NEW p \in Publishers, DisplaceLost(p) PROVE PathInv'
  BY <1>6, <1>i, PathFrame DEF DisplaceLost, Ends, Inside, At, TypeOK
<1>7. ASSUME NEW p \in Publishers, Install(p) PROVE PathInv'
  <2>1. /\ job[p].at = "install" /\ published' = job[p].stage /\ latest' = job[p].reviewed
    BY <1>7 DEF Install, At
  <2>2. published' # None /\ published'.tree = latest'
    <3>1. job[p].stage = [tree |-> job[p].reviewed, state |-> "whole"]
      BY <2>1 DEF Shape
    <3>2. job[p].stage \in Copies \cup {None} /\ job[p].reviewed \in Tree
      BY <2>1 DEF TypeOK, Shape, Job
    <3>3. job[p].stage \in Copies
      BY <3>1, <3>2 DEF Copies
    <3> QED  BY <2>1, <3>1, <3>3, NoneAssumption
  <2>3. ASSUME NEW q \in Publishers, job'[q].at \in {"displace", "install"}
        PROVE  job'[q].stale
    <3>1. q # p
      BY <1>7, <1>i, <2>3 DEF Install
    <3>2. job'[q] = [job[q] EXCEPT !.stale = job[q].stale \/ job[q].at \in {"displace", "install"}]
      BY <1>7, <3>1 DEF Install
    <3>3. job'[q].at = job[q].at
      BY <3>2 DEF TypeOK, Job
    <3>4. job'[q].stale = (job[q].stale \/ job[q].at \in {"displace", "install"})
      BY <3>2 DEF TypeOK, Job
    <3> QED  BY <2>3, <3>3, <3>4
  <2> QED  BY <2>2, <2>3 DEF PathInv, PathRestored, Newest, Fresh
<1>8. ASSUME NEW p \in Publishers, InstallRefused(p) PROVE PathInv'
  <2>1. /\ published # None /\ UNCHANGED pathVars /\ job'[p].at = "plan"
        /\ \A q \in Publishers \ {p} : job'[q] = job[q]
    BY <1>8, <1>i DEF InstallRefused, Ends, Inside, TypeOK
  <2>2. PathRestored'
    BY <2>1 DEF PathRestored, pathVars
  <2>3. Newest'
    BY <2>1 DEF PathInv, Newest, pathVars
  <2>4. Fresh'
    BY <2>1 DEF PathInv, Fresh, pathVars, Bumped
  <2> QED  BY <2>2, <2>3, <2>4 DEF PathInv
<1>9. ASSUME NEW p \in Publishers, Fails(p) PROVE PathInv'
  <2>1. /\ published' = (IF published = None THEN job[p].displaced ELSE published)
        /\ latest' = latest /\ job'[p].at = "plan"
        /\ \A q \in Publishers \ {p} : job'[q] = job[q]
    BY <1>9, <1>i DEF Fails, Ends, Restored, TypeOK
  <2>2. torn' <=> torn \/ (published = None /\ published' # None /\ published'.tree # latest)
    BY <1>9 DEF Fails
  <2>3. PathRestored'
    <3> SUFFICES ASSUME published' = None, latest # None, ~torn
                 PROVE  \E q \in Publishers : job'[q].at = "install" /\ job'[q].displaced # None
      BY <2>1, <2>2 DEF PathRestored, At
    <3>1. published = None /\ job[p].displaced = None
      BY <2>1
    <3>2. PICK q \in Publishers : job[q].at = "install" /\ job[q].displaced # None
      BY <3>1 DEF PathInv, PathRestored, At
    <3> QED  BY <2>1, <3>1, <3>2
  <2>4. Newest'
    BY <2>1, <2>2 DEF PathInv, Newest
  <2>5. Fresh'
    BY <2>1, <2>2 DEF PathInv, Fresh, Bumped
  <2> QED  BY <2>3, <2>4, <2>5 DEF PathInv
<1>10. ASSUME NEW p \in Publishers, Crash(p) PROVE PathInv'
  <2>1. /\ UNCHANGED <<published, latest>> /\ job'[p].at = "plan"
        /\ \A q \in Publishers \ {p} : job'[q] = job[q]
    BY <1>10, <1>i DEF Crash, Ends, TypeOK
  <2>2. torn' <=> torn \/ (published = None /\ job[p].displaced # None)
    BY <1>10 DEF Crash
  <2>3. PathRestored'
    <3> SUFFICES ASSUME published = None, latest # None, ~torn'
                 PROVE  \E q \in Publishers : job'[q].at = "install" /\ job'[q].displaced # None
      BY <2>1 DEF PathRestored, At
    <3>1. PICK q \in Publishers : job[q].at = "install" /\ job[q].displaced # None
      BY <2>2 DEF PathInv, PathRestored, At
    <3> QED  BY <2>1, <2>2, <3>1
  <2>4. Newest'
    BY <2>1, <2>2 DEF PathInv, Newest
  <2>5. Fresh'
    BY <2>1, <2>2 DEF PathInv, Fresh, Bumped
  <2> QED  BY <2>3, <2>4, <2>5 DEF PathInv
<1>11. CASE UNCHANGED vars
  BY <1>1, <1>11 DEF vars, pathVars
<1>12. ASSUME NEW k \in Packages, Edit(k) PROVE PathInv'
  BY <1>1, <1>12 DEF Edit, pathVars
<1>13. ASSUME NEW t \in builds, Spoil(t) PROVE PathInv'
  BY <1>1, <1>13 DEF Spoil, pathVars
<1> QED
  BY <1>2, <1>3, <1>4, <1>5, <1>6, <1>7, <1>8, <1>9, <1>10, <1>11, <1>12, <1>13
     DEF Next, Publish

(* Once something was published the path is never left empty but between    *)
(* the two renames of a command or by one that was killed there: every      *)
(* failure of a rename puts back what was displaced (_publish_marketplace). *)
THEOREM PathRestoredCorrect == Spec => []PathRestored
<1>1. PathInv => PathRestored  BY DEF PathInv
<1> QED  BY <1>1, TypeInit, TypeStep, PathInit, PathStep, PTL DEF Spec

LEMMA VersionsStep ==
  ASSUME TypeInv, PathInv, [Next]_vars, NEW p \in Publishers, At(p, "install"),
         published' = job[p].stage, latest # None, ~torn, ~job[p].stale
  PROVE  Bumped(latest, latest')
<1>1. Bumped(latest, job[p].reviewed)
  BY DEF PathInv, Fresh, At
<1>2. CASE latest' = latest
  BY <1>2 DEF Bumped
<1>3. ASSUME NEW q \in Publishers, Install(q) PROVE latest' = job[p].reviewed
  <2>1. job[q].at = "install" /\ job[p].at = "install"
        /\ published' = job[q].stage /\ latest' = job[q].reviewed
    BY <1>3 DEF Install, At
  <2>2. /\ job[q].stage = [tree |-> job[q].reviewed, state |-> "whole"]
        /\ job[p].stage = [tree |-> job[p].reviewed, state |-> "whole"]
    BY <2>1 DEF TypeInv, Shape
  <2>3. job[q].stage.tree = job[q].reviewed /\ job[p].stage.tree = job[p].reviewed
    BY <2>2
  <2> QED  BY <2>1, <2>3
<1>4. ASSUME \A q \in Publishers : ~Install(q) PROVE latest' = latest
  BY <1>4
     DEF Next, Edit, Spoil, EditPublished, Prepare, Publish, Read, Plan, Freeze, Recheck,
         Settle, Build, RenameBuild, Stage, Displace, DisplaceLost, InstallRefused, Fails,
         Crash, Inside, pathVars, vars
<1> QED  BY <1>1, <1>2, <1>3, <1>4

(* A changed package has a newer version in the next publication, whatever  *)
(* is edited meanwhile (_validate_package_version_changes), but for the     *)
(* publications that came since the comparison and those lost by a kill.    *)
THEOREM VersionsGrowCorrect == Spec => VersionsGrow
<1>1. TypeInv /\ PathInv /\ [Next]_vars =>
        [\A p \in Publishers :
           At(p, "install") /\ published' = job[p].stage /\ latest # None /\ ~torn /\ ~job[p].stale
             => Bumped(latest, latest')]_vars
  BY VersionsStep
<1> QED  BY <1>1, TypeInit, TypeStep, PathInit, PathStep, PTL DEF Spec, VersionsGrow

-----------------------------------------------------------------------------
(* The catalog.  A body is never used twice, so a package that is found     *)
(* unchanged by the second reading was not touched between the two: all of  *)
(* them were as reviewed when the first reading ended.                      *)

Dated == catalog \in past /\ \A k \in Packages : catalog[k].body <= edits

\* What was read of a package is what it is now, or it was edited since.
Kept(k, was) == catalog[k] = was \/ catalog[k].body > was.body

Planning(p) ==
  job[p].at = "plan" => \A k \in 1..Len(job[p].got) : Kept(k, job[p].got[k])

Agrees(p, c) ==
  \A k \in Packages :
    /\ job[p].reviewed[k] = c[k] \/ catalog[k].body > job[p].reviewed[k].body
    /\ k <= Len(job[p].got) /\ job[p].got[k] = job[p].reviewed[k] => job[p].reviewed[k] = c[k]

Freezing(p) == job[p].at = "freeze" => \E c \in past : Agrees(p, c)

Frozen(p) == job[p].at \notin {"plan", "freeze"} => job[p].reviewed \in past

\* Genuine(d): a directory that is not there, or holds a catalog there was.
Genuine(d) == d # None => d.tree \in past /\ d.state # "spoiled"

CatalogInv ==
  /\ Dated /\ Genuine(published)
  /\ \A p \in Publishers : Planning(p) /\ Freezing(p) /\ Frozen(p) /\ Genuine(job[p].displaced)

LEMMA CatalogInit == Init => CatalogInv
<1> SUFFICES ASSUME Init PROVE CatalogInv  OBVIOUS
<1>1. \A p \in Publishers : job[p] = Idle
  BY DEF Init
<1>2. Dated
  BY DEF Init, Dated
<1> QED  BY <1>1, <1>2
       DEF Init, CatalogInv, Genuine, Planning, Freezing, Frozen, Idle

(* Steps that do not edit, and change one command only.                     *)
LEMMA CatalogFrame ==
  ASSUME TypeInv, CatalogInv, NEW p \in Publishers, UNCHANGED catVars,
         \A q \in Publishers \ {p} : job'[q] = job[q],
         Planning(p)', Freezing(p)', Frozen(p)', Genuine(job[p].displaced)', Genuine(published)'
  PROVE  CatalogInv'
<1>1. Dated'
  BY DEF CatalogInv, Dated, catVars
<1>2. ASSUME NEW q \in Publishers
      PROVE  Planning(q)' /\ Freezing(q)' /\ Frozen(q)' /\ Genuine(job[q].displaced)'
  <2>1. CASE q = p
    BY <2>1
  <2>2. CASE q # p
    <3>1. job'[q] = job[q]
      BY <2>2
    <3>2. Planning(q)'
      BY <3>1 DEF CatalogInv, Planning, Kept, catVars
    <3>3. Freezing(q)'
      BY <3>1 DEF CatalogInv, Freezing, Agrees, catVars
    <3>4. Frozen(q)' /\ Genuine(job[q].displaced)'
      BY <3>1 DEF CatalogInv, Frozen, Genuine, catVars
    <3> QED  BY <3>2, <3>3, <3>4
  <2> QED  BY <2>1, <2>2
<1> QED  BY <1>1, <1>2 DEF CatalogInv

(* A command that ends holds nothing.                                       *)
LEMMA CatalogEnds ==
  ASSUME TypeInv, CatalogInv, NEW p \in Publishers, Ends(p), UNCHANGED catVars,
         Genuine(published)'
  PROVE  CatalogInv'
<1>1. job'[p] = Idle /\ \A q \in Publishers \ {p} : job'[q] = job[q]
  BY DEF Ends, TypeInv, TypeOK
<1>2. Planning(p)' /\ Freezing(p)' /\ Frozen(p)' /\ Genuine(job[p].displaced)'
  BY <1>1 DEF Idle, Planning, Freezing, Frozen, Genuine
<1> QED  BY <1>1, <1>2, CatalogFrame

LEMMA CatalogStep == TypeInv /\ CatalogInv /\ [Next]_vars => CatalogInv'
<1> SUFFICES ASSUME TypeInv, CatalogInv, [Next]_vars PROVE CatalogInv'  OBVIOUS
<1>t. TypeOK
  BY DEF TypeInv
<1>1. ASSUME UNCHANGED <<catVars, job>>, Genuine(published)' PROVE CatalogInv'
  BY <1>1 DEF CatalogInv, Dated, Planning, Freezing, Frozen, Genuine, Agrees, Kept, catVars
<1>2. ASSUME NEW k \in Packages, Edit(k) PROVE CatalogInv'
  <2>1. PICK v \in 1..MaxVersion :
          catalog' = [catalog EXCEPT ![k] = [body |-> edits + 1, version |-> v]]
    BY <1>2 DEF Edit
  <2>2. /\ edits \in Nat /\ edits' = edits + 1 /\ past' = past \cup {catalog'}
        /\ UNCHANGED <<job, published>>
    BY <1>2, <1>t, BoundAssumption DEF Edit, TypeOK, pathVars
  <2>3. /\ catalog'[k].body = edits + 1
        /\ \A i \in Packages \ {k} : catalog'[i] = catalog[i]
    BY <1>t, <2>1 DEF TypeOK, Tree
  <2>4. \A i \in Packages : catalog[i].body \in Nat /\ catalog[i].body <= edits
    BY <1>t, BoundAssumption DEF TypeOK, Tree, Source, CatalogInv, Dated
  <2>5. Dated'
    BY <2>2, <2>3, <2>4 DEF Dated
  <2>6. Genuine(published)'
    BY <2>2 DEF CatalogInv, Genuine
  <2>7. ASSUME NEW p \in Publishers
        PROVE  Planning(p)' /\ Freezing(p)' /\ Frozen(p)' /\ Genuine(job[p].displaced)'
    <3>1. Planning(p)'
      <4> SUFFICES ASSUME job[p].at = "plan", NEW i \in 1..Len(job[p].got)
                   PROVE  Kept(i, job[p].got[i])'
        BY <2>2 DEF Planning
      <4>1. i \in Packages /\ job[p].got[i].body \in Nat
        <5>1. job[p].got \in Seq(Source) /\ Len(job[p].got) < NumPackages
          BY <1>t DEF TypeOK, Job
        <5>2. job[p].got[i] \in Source
          BY <5>1
        <5> QED  BY <5>1, <5>2, SizeAssumption, BoundAssumption DEF Packages, Source
      <4>2. Kept(i, job[p].got[i])
        BY DEF CatalogInv, Planning
      <4>3. CASE i = k
        <5>1. catalog'[i].body = edits + 1 /\ catalog[i].body <= edits /\ edits \in Nat
          BY <1>t, <2>3, <2>4, <4>1, <4>3 DEF TypeOK
        <5>2. catalog[i].body >= job[p].got[i].body /\ catalog[i].body \in Nat
          BY <2>4, <4>1, <4>2 DEF Kept
        <5>3. catalog'[i].body > job[p].got[i].body
          BY <4>1, <5>1, <5>2
        <5> QED  BY <2>2, <5>3 DEF Kept
      <4>4. CASE i # k
        <5>1. catalog'[i] = catalog[i]
          BY <2>3, <4>1, <4>4
        <5> QED  BY <2>2, <4>2, <5>1 DEF Kept
      <4> QED  BY <4>3, <4>4
    <3>2. Freezing(p)'
      <4> SUFFICES ASSUME job[p].at = "freeze" PROVE \E c \in past' : Agrees(p, c)'
        BY <2>2 DEF Freezing
      <4>1. PICK c \in past : Agrees(p, c)
        BY DEF CatalogInv, Freezing
      <4>2. job[p].reviewed \in Tree /\ c \in Tree
        BY <1>t DEF TypeInv, TypeOK, Shape, Job
      <4>3. \A i \in Packages : job[p].reviewed[i].body \in Nat
        BY <4>2, BoundAssumption DEF Tree, Source
      <4>4. ASSUME NEW i \in Packages
            PROVE  job[p].reviewed[i] = c[i] \/ catalog'[i].body > job[p].reviewed[i].body
        <5>1. catalog'[i].body >= catalog[i].body
          BY <2>2, <2>3, <2>4
        <5>2. job[p].reviewed[i] = c[i] \/ catalog[i].body > job[p].reviewed[i].body
          BY <4>1 DEF Agrees
        <5>3. catalog'[i].body \in Nat
          BY <2>2, <2>3, <2>4
        <5> QED  BY <2>4, <4>3, <5>1, <5>2, <5>3
      <4>5. Agrees(p, c)'
        BY <2>2, <4>1, <4>4 DEF Agrees
      <4> QED  BY <2>2, <4>5
    <3>3. Frozen(p)' /\ Genuine(job[p].displaced)'
      BY <2>2 DEF CatalogInv, Frozen, Genuine
    <3> QED  BY <3>1, <3>2, <3>3
  <2> QED  BY <2>5, <2>6, <2>7 DEF CatalogInv
<1>3. ASSUME NEW p \in Publishers, Read(p) PROVE CatalogInv'
  <2>1. /\ job' = [job EXCEPT ![p].got = WithNext(p)] /\ UNCHANGED <<catVars, published>>
        /\ job[p].at \in {"plan", "freeze", "recheck"}
    BY <1>3 DEF Read, Inside, Quiet, pathVars
  <2>2. /\ job'[p].at = job[p].at /\ job'[p].reviewed = job[p].reviewed
        /\ job'[p].displaced = job[p].displaced /\ job'[p].got = WithNext(p)
        /\ \A q \in Publishers \ {p} : job'[q] = job[q]
    BY <1>t, <2>1 DEF TypeOK, Job
  <2>3. Len(job[p].got) \in Nat /\ Len(WithNext(p)) = Len(job[p].got) + 1
    BY <1>t, NextPackage DEF TypeOK, Job
  <2>4. Planning(p)'
    <3> SUFFICES ASSUME job[p].at = "plan", NEW k \in 1..Len(WithNext(p))
                 PROVE  Kept(k, WithNext(p)[k])
      BY <2>1, <2>2 DEF Planning, Kept, catVars
    <3>1. CASE k = Len(job[p].got) + 1
      BY <1>t, <3>1, NextPackage DEF Kept
    <3>2. CASE k \in 1..Len(job[p].got)
      <4>1. Kept(k, job[p].got[k])
        BY <3>2 DEF CatalogInv, Planning
      <4> QED  BY <1>t, <3>2, <4>1, NextPackage
    <3> QED  BY <2>3, <3>1, <3>2
  <2>5. Freezing(p)'
    <3> SUFFICES ASSUME job[p].at = "freeze" PROVE \E c \in past' : Agrees(p, c)'
      BY <2>2 DEF Freezing
    <3>1. PICK c \in past : Agrees(p, c)
      BY DEF CatalogInv, Freezing
    <3>2. ASSUME NEW k \in Packages, k <= Len(WithNext(p)), WithNext(p)[k] = job[p].reviewed[k]
          PROVE  job[p].reviewed[k] = c[k]
      <4>1. CASE k = Len(job[p].got) + 1
        <5>1. catalog[k] = job[p].reviewed[k]
          BY <1>t, <3>2, <4>1, NextPackage
        <5>2. catalog[k].body \in Nat
          BY <1>t, BoundAssumption DEF TypeOK, Tree, Source
        <5> QED  BY <3>1, <5>1, <5>2 DEF Agrees
      <4>2. CASE k # Len(job[p].got) + 1
        <5>1. k \in 1..Len(job[p].got)
          BY <2>3, <3>2, <4>2, SizeAssumption DEF Packages
        <5>2. job[p].got[k] = job[p].reviewed[k]
          BY <1>t, <3>2, <5>1, NextPackage
        <5> QED  BY <3>1, <5>1, <5>2 DEF Agrees
      <4> QED  BY <4>1, <4>2
    <3>3. Agrees(p, c)'
      BY <2>1, <2>2, <3>1, <3>2 DEF Agrees, catVars
    <3> QED  BY <2>1, <3>3 DEF catVars
  <2>6. Frozen(p)' /\ Genuine(job[p].displaced)' /\ Genuine(published)'
    BY <2>1, <2>2 DEF CatalogInv, Frozen, Genuine, catVars
  <2> QED  BY <2>1, <2>2, <2>4, <2>5, <2>6, CatalogFrame
<1>4. ASSUME NEW p \in Publishers, Plan(p) PROVE CatalogInv'
  <2>1. /\ job[p].at = "plan" /\ LastPackage(p) /\ UNCHANGED <<catVars, published>>
        /\ job' = [job EXCEPT ![p] = [Idle EXCEPT !.at = "freeze", !.reviewed = WithNext(p)]]
    BY <1>4 DEF Plan, At, Inside, Quiet, pathVars
  <2>2. /\ job'[p].at = "freeze" /\ job'[p].reviewed = WithNext(p) /\ job'[p].got = << >>
        /\ job'[p].displaced = None /\ \A q \in Publishers \ {p} : job'[q] = job[q]
    BY <1>t, <2>1 DEF TypeOK, Idle
  <2>3. ASSUME NEW k \in Packages PROVE Kept(k, WithNext(p)[k])
    <3>1. k \in 1..Len(job[p].got) \/ k = Len(job[p].got) + 1
      BY <1>t, <2>1, SizeAssumption DEF LastPackage, Packages, TypeOK, Job
    <3>2. CASE k = Len(job[p].got) + 1
      BY <1>t, <3>2, NextPackage DEF Kept
    <3>3. CASE k \in 1..Len(job[p].got)
      BY <1>t, <2>1, <3>3, NextPackage DEF CatalogInv, Planning, Kept
    <3> QED  BY <3>1, <3>2, <3>3
  <2>4. Agrees(p, catalog)'
    <3>1. \A k \in Packages :
            WithNext(p)[k] = catalog[k] \/ catalog[k].body > WithNext(p)[k].body
      BY <2>3 DEF Kept
    <3>2. \A k \in Packages : ~(k <= Len(<< >>))
      BY DEF Packages
    <3> QED  BY <2>1, <2>2, <3>1, <3>2 DEF Agrees, catVars
  <2>5. Freezing(p)'
    BY <2>1, <2>4 DEF Freezing, CatalogInv, Dated, catVars
  <2>6. Planning(p)' /\ Frozen(p)' /\ Genuine(job[p].displaced)' /\ Genuine(published)'
    BY <2>1, <2>2 DEF Planning, CatalogInv, Frozen, Genuine, catVars
  <2> QED  BY <2>1, <2>2, <2>5, <2>6, CatalogFrame
<1>5. ASSUME NEW p \in Publishers, NEW j, job' = [job EXCEPT ![p] = j],
             j.at \notin {"plan", "freeze"}, j.reviewed = job[p].reviewed,
             job[p].reviewed \in past, Genuine(j.displaced),
             UNCHANGED catVars, Genuine(published)'
      PROVE  CatalogInv'
  <2>1. job'[p] = j /\ \A q \in Publishers \ {p} : job'[q] = job[q]
    BY <1>5, <1>t DEF TypeOK
  <2>2. Planning(p)' /\ Freezing(p)' /\ Frozen(p)' /\ Genuine(job[p].displaced)'
    BY <1>5, <2>1 DEF Planning, Freezing, Frozen, Genuine, catVars
  <2> QED  BY <1>5, <2>1, <2>2, CatalogFrame
<1>6. ASSUME NEW p \in Publishers, Freeze(p), WithNext(p) = job[p].reviewed
      PROVE  job[p].reviewed \in past
  <2>1. PICK c \in past : Agrees(p, c)
    BY <1>6 DEF Freeze, Settle, At, CatalogInv, Freezing
  <2>2. job[p].reviewed \in Tree /\ c \in Tree
    BY <1>6, <1>t DEF Freeze, Settle, At, TypeInv, TypeOK, Shape, Job
  <2>3. ASSUME NEW k \in Packages PROVE job[p].reviewed[k] = c[k]
    <3>1. k \in 1..Len(job[p].got) \/ k = Len(job[p].got) + 1
      BY <1>6, <1>t, SizeAssumption DEF Freeze, Settle, LastPackage, Packages, TypeOK, Job
    <3>2. CASE k = Len(job[p].got) + 1
      <4>1. catalog[k] = job[p].reviewed[k]
        BY <1>6, <1>t, <3>2, NextPackage
      <4>2. catalog[k].body \in Nat
        BY <1>t, BoundAssumption DEF TypeOK, Tree, Source
      <4> QED  BY <2>1, <4>1, <4>2 DEF Agrees
    <3>3. CASE k \in 1..Len(job[p].got)
      <4>1. job[p].got[k] = job[p].reviewed[k]
        BY <1>6, <1>t, <3>3, NextPackage
      <4> QED  BY <2>1, <3>3, <4>1 DEF Agrees
    <3> QED  BY <3>1, <3>2, <3>3
  <2>4. job[p].reviewed = c
    BY <2>2, <2>3 DEF Tree
  <2> QED  BY <2>4
<1>7. ASSUME NEW p \in Publishers, NEW from, NEW to \in {"build", "compare"},
             Settle(p, from, to), WithNext(p) = job[p].reviewed => job[p].reviewed \in past
      PROVE  CatalogInv'
  <2>1. UNCHANGED <<catVars, published>> /\ Genuine(published)'
    BY <1>7 DEF Settle, Inside, Quiet, pathVars, catVars, CatalogInv, Genuine
  <2>2. CASE WithNext(p) # job[p].reviewed
    BY <1>7, <2>1, <2>2, CatalogEnds DEF Settle
  <2>3. CASE WithNext(p) = job[p].reviewed
    <3>1. /\ job' = [job EXCEPT ![p] = [job[p] EXCEPT !.at = to, !.got = << >>]]
          /\ [job[p] EXCEPT !.at = to, !.got = << >>].at = to
          /\ [job[p] EXCEPT !.at = to, !.got = << >>].reviewed = job[p].reviewed
          /\ [job[p] EXCEPT !.at = to, !.got = << >>].displaced = job[p].displaced
      BY <1>7, <1>t, <2>3 DEF Settle, TypeOK, Job
    <3>2. Genuine(job[p].displaced)
      BY DEF CatalogInv
    <3> QED  BY <1>5, <1>7, <2>1, <2>3, <3>1, <3>2
  <2> QED  BY <2>2, <2>3
<1>8. ASSUME NEW p \in Publishers, Freeze(p) PROVE CatalogInv'
  BY <1>6, <1>7, <1>8 DEF Freeze
<1>9. ASSUME NEW p \in Publishers, Recheck(p) PROVE CatalogInv'
  <2>1. job[p].reviewed \in past
    BY <1>9 DEF Recheck, Settle, At, CatalogInv, Frozen
  <2> QED  BY <1>7, <1>9, <2>1 DEF Recheck
<1>10. ASSUME NEW p \in Publishers, NEW ok \in BOOLEAN, NEW place \in {"rename", "recheck"},
              GotoOrEnd(p, ok, place), job[p].at \in {"build", "rename"},
              UNCHANGED <<catVars, published>>
       PROVE  CatalogInv'
  <2>1. /\ Genuine(published)' /\ job[p].reviewed \in past /\ Genuine(job[p].displaced)
    BY <1>10 DEF CatalogInv, Genuine, Frozen, catVars
  <2>2. CASE ~ok
    BY <1>10, <2>1, <2>2, CatalogEnds DEF GotoOrEnd
  <2>3. CASE ok
    <3>1. /\ job' = [job EXCEPT ![p] = [job[p] EXCEPT !.at = place]]
          /\ [job[p] EXCEPT !.at = place].at = place
          /\ [job[p] EXCEPT !.at = place].reviewed = job[p].reviewed
          /\ [job[p] EXCEPT !.at = place].displaced = job[p].displaced
      BY <1>10, <1>t, <2>3 DEF GotoOrEnd, Goto, TypeOK, Job
    <3> QED  BY <1>5, <1>10, <2>1, <3>1
  <2> QED  BY <2>2, <2>3
<1>11. ASSUME NEW p \in Publishers, Build(p) PROVE CatalogInv'
  <2>1. CASE job[p].reviewed \in builds
    BY <1>10, <1>11, <2>1 DEF Build, At, Inside, Quiet, pathVars
  <2>2. CASE job[p].reviewed \notin builds
    BY <1>10, <1>11, <2>2 DEF Build, At, Inside, Quiet, GotoOrEnd, pathVars
  <2> QED  BY <2>1, <2>2
<1>12. ASSUME NEW p \in Publishers, RenameBuild(p) PROVE CatalogInv'
  BY <1>10, <1>12 DEF RenameBuild, At, Quiet, pathVars
<1>13. ASSUME NEW p \in Publishers, Stage(p) PROVE CatalogInv'
  <2>1. /\ UNCHANGED <<catVars, published>> /\ Genuine(published)'
        /\ job[p].reviewed \in past /\ Genuine(job[p].displaced)
    BY <1>13 DEF Stage, At, Inside, Quiet, pathVars, catVars, CatalogInv, Genuine, Frozen
  <2>2. CASE ~(Admits(p) /\ Sound(Copied(p)))
    BY <1>13, <2>1, <2>2, CatalogEnds DEF Stage
  <2>3. CASE Admits(p) /\ Sound(Copied(p))
    <3>1. PICK b : job' = [job EXCEPT ![p] =
                     [job[p] EXCEPT !.at = "displace", !.stage = Copied(p), !.stale = b]]
      BY <1>13, <2>3 DEF Stage
    <3>2. /\ [job[p] EXCEPT !.at = "displace", !.stage = Copied(p), !.stale = b].at = "displace"
          /\ [job[p] EXCEPT !.at = "displace", !.stage = Copied(p), !.stale = b].reviewed
               = job[p].reviewed
          /\ [job[p] EXCEPT !.at = "displace", !.stage = Copied(p), !.stale = b].displaced
               = job[p].displaced
      BY <1>t DEF TypeOK, Job
    <3> QED  BY <1>5, <2>1, <3>1, <3>2
  <2> QED  BY <2>2, <2>3
<1>14. ASSUME NEW p \in Publishers, Displace(p) PROVE CatalogInv'
  <2>1. /\ UNCHANGED catVars /\ Genuine(published)'
        /\ job[p].reviewed \in past /\ Genuine(published)
    BY <1>14 DEF Displace, At, Quiet, CatalogInv, Genuine, Frozen
  <2>2. /\ job' = [job EXCEPT ![p] = [job[p] EXCEPT !.at = "install", !.displaced = published]]
        /\ [job[p] EXCEPT !.at = "install", !.displaced = published].at = "install"
        /\ [job[p] EXCEPT !.at = "install", !.displaced = published].reviewed = job[p].reviewed
        /\ [job[p] EXCEPT !.at = "install", !.displaced = published].displaced = published
    BY <1>14, <1>t DEF Displace, TypeOK, Job
  <2> QED  BY <1>5, <2>1, <2>2
<1>15. ASSUME NEW p \in Publishers, DisplaceLost(p) \/ InstallRefused(p) PROVE CatalogInv'
  <2>1. Ends(p) /\ UNCHANGED catVars /\ Genuine(published)'
    BY <1>15 DEF DisplaceLost, InstallRefused, Inside, Quiet, pathVars, catVars, CatalogInv, Genuine
  <2> QED  BY <2>1, CatalogEnds
<1>16. ASSUME NEW p \in Publishers, Install(p) PROVE CatalogInv'
  <2>1. /\ published' = job[p].stage /\ UNCHANGED catVars /\ job[p].at = "install"
        /\ job'[p] = Idle
    BY <1>16 DEF Install, At, Quiet
  <2>2. Genuine(published)'
    <3>1. job[p].stage = [tree |-> job[p].reviewed, state |-> "whole"] /\ job[p].reviewed \in past
      BY <2>1 DEF TypeInv, Shape, CatalogInv, Frozen
    <3> QED  BY <2>1, <3>1 DEF Genuine, catVars
  <2>3. Dated'
    BY <2>1 DEF CatalogInv, Dated, catVars
  <2>4. ASSUME NEW q \in Publishers
        PROVE  Planning(q)' /\ Freezing(q)' /\ Frozen(q)' /\ Genuine(job[q].displaced)'
    <3>1. CASE q = p
      BY <2>1, <3>1 DEF Idle, Planning, Freezing, Frozen, Genuine
    <3>2. CASE q # p
      <4>1. PICK b : job'[q] = [job[q] EXCEPT !.stale = b]
        BY <1>16, <3>2 DEF Install
      <4>2. /\ job'[q].at = job[q].at /\ job'[q].got = job[q].got
            /\ job'[q].reviewed = job[q].reviewed /\ job'[q].displaced = job[q].displaced
        BY <1>t, <4>1 DEF TypeOK, Job
      <4> QED  BY <2>1, <4>2
             DEF CatalogInv, Planning, Freezing, Frozen, Genuine, Agrees, Kept, catVars
    <3> QED  BY <3>1, <3>2
  <2> QED  BY <2>2, <2>3, <2>4 DEF CatalogInv
<1>17. ASSUME NEW p \in Publishers, Fails(p) PROVE CatalogInv'
  <2>1. Ends(p) /\ UNCHANGED catVars /\ published' = Restored(p)
    BY <1>17 DEF Fails
  <2>2. Genuine(published)'
    BY <2>1 DEF Restored, CatalogInv, Genuine, catVars
  <2> QED  BY <2>1, <2>2, CatalogEnds
<1>18. ASSUME NEW p \in Publishers, Crash(p) PROVE CatalogInv'
  <2>1. Ends(p) /\ UNCHANGED catVars /\ Genuine(published)'
    BY <1>18 DEF Crash, CatalogInv, Genuine, catVars
  <2> QED  BY <2>1, CatalogEnds
<1>19. ASSUME NEW t \in builds, Spoil(t) PROVE CatalogInv'
  BY <1>1, <1>19 DEF Spoil, pathVars, catVars, CatalogInv, Genuine
<1>20. ASSUME EditPublished PROVE CatalogInv'
  <2>1. published' # None => published'.tree = published.tree /\ published'.state = "edited"
    BY <1>20, <1>t DEF EditPublished, TypeOK, Copies
  <2> QED  BY <1>1, <1>20, <2>1 DEF EditPublished, catVars, CatalogInv, Genuine
<1>21. CASE UNCHANGED vars
  BY <1>1, <1>21 DEF vars, pathVars, catVars, CatalogInv, Genuine
<1> QED
  BY <1>2, <1>3, <1>4, <1>8, <1>9, <1>11, <1>12, <1>13, <1>14, <1>15, <1>16, <1>17, <1>18,
     <1>19, <1>20, <1>21 DEF Next, Prepare, Publish

(* What the products find is the whole catalog as it was at one moment,     *)
(* although it is read package by package while it is edited                *)
(* (render_marketplace, _freeze_artifact_tree).                             *)
THEOREM PublishedCorrect == Spec => []PublishedWasCatalog
<1>1. CatalogInv => PublishedWasCatalog
  BY DEF CatalogInv, Genuine, PublishedWasCatalog
<1> QED  BY <1>1, TypeInit, TypeStep, CatalogInit, CatalogStep, PTL DEF Spec

-----------------------------------------------------------------------------
(* What MarketplacePublish takes as given: the order of release versions,  *)
(* which are numbers there, and the trees of the packages.                 *)
Identifiers == [numeric : BOOLEAN, value : Nat]
Releases == [core : [1..3 -> Nat], pre : Seq(Identifiers)]

(* A strict order of its arguments.                                        *)
LEMMA IdentifierOrder ==
  ASSUME NEW c \in Identifiers, NEW d \in Identifiers
  PROVE  /\ ~ IdentifierIsNewer(c, c)
         /\ c # d => IdentifierIsNewer(c, d) \/ IdentifierIsNewer(d, c)
         /\ ~ (IdentifierIsNewer(c, d) /\ IdentifierIsNewer(d, c))
  <1>1. c.numeric \in BOOLEAN /\ d.numeric \in BOOLEAN
    BY DEF Identifiers
  <1>2. c.value \in Nat /\ d.value \in Nat
    BY DEF Identifiers
  <1>3. c # d => c.numeric # d.numeric \/ c.value # d.value
    BY DEF Identifiers
  <1> QED BY <1>1, <1>2, <1>3 DEF IdentifierIsNewer

LEMMA IdentifierTransitive ==
  ASSUME NEW c \in Identifiers, NEW d \in Identifiers, NEW e \in Identifiers,
         IdentifierIsNewer(c, d), IdentifierIsNewer(d, e)
  PROVE  IdentifierIsNewer(c, e)
  <1>1. c.numeric \in BOOLEAN /\ d.numeric \in BOOLEAN /\ e.numeric \in BOOLEAN
    BY DEF Identifiers
  <1>2. c.value \in Nat /\ d.value \in Nat /\ e.value \in Nat
    BY DEF Identifiers
  <1> QED BY <1>1, <1>2 DEF IdentifierIsNewer

(* Where two prereleases first differ.                                     *)
FirstAt(c, p, i) ==
  /\ i \in 1..Len(c) /\ i \in 1..Len(p) /\ c[i] # p[i]
  /\ \A j \in 1..(i - 1) : c[j] = p[j]
Prefix(p, c) == Len(p) <= Len(c) /\ \A i \in 1..Len(p) : c[i] = p[i]

LEMMA Least ==
  ASSUME NEW S, S \subseteq Nat, S # {}
  PROVE  \E i \in S : \A j \in S : i <= j
  <1>1. PICK i \in S : \A j \in S : ~ (<<j, i>> \in OpToRel(<, Nat))
    BY WFMin, NatLessThanWellFounded
  <1>2. \A j \in S : ~ (j < i)
    BY <1>1 DEF OpToRel
  <1> QED BY <1>2

LEMMA Compared ==
  ASSUME NEW c \in Seq(Identifiers), NEW p \in Seq(Identifiers)
  PROVE  /\ (\E i \in Nat : FirstAt(c, p, i)) \/ Prefix(p, c) \/ Prefix(c, p)
         /\ \A i \in Nat : FirstAt(c, p, i) =>
              (PrereleaseIsNewer(c, p) <=> IdentifierIsNewer(c[i], p[i]))
         /\ Prefix(p, c) \/ Prefix(c, p) =>
              (PrereleaseIsNewer(c, p) <=> Len(c) > Len(p))
  <1> DEFINE differing == {i \in 1..Shorter(c, p) : c[i] # p[i]}
  <1>0. Len(c) \in Nat /\ Len(p) \in Nat
    OBVIOUS
  <1>1. /\ Shorter(c, p) \in Nat
        /\ Shorter(c, p) <= Len(c) /\ Shorter(c, p) <= Len(p)
        /\ Shorter(c, p) \in {Len(c), Len(p)}
    BY <1>0 DEF Shorter
  <1>2. PrereleaseIsNewer(c, p) =
          IF differing = {} THEN Len(c) > Len(p)
          ELSE LET i == CHOOSE i \in differing : \A j \in differing : i <= j
               IN IdentifierIsNewer(c[i], p[i])
    BY DEF PrereleaseIsNewer
  <1>3. \A i : FirstAt(c, p, i) <=> i \in differing /\ \A j \in differing : i <= j
    BY <1>0, <1>1 DEF FirstAt
  <1>4. differing = {} <=> Prefix(p, c) \/ Prefix(c, p)
    BY <1>0, <1>1 DEF Prefix
  <1>5. differing # {} => \E i \in Nat : FirstAt(c, p, i)
    <2>1. differing \subseteq Nat
      BY <1>1
    <2> HIDE DEF differing
    <2> QED BY <1>3, <2>1, Least
  <1>6. \A i \in Nat : FirstAt(c, p, i) => i = CHOOSE k \in differing : \A j \in differing : k <= j
    <2>1. differing \subseteq Nat
      BY <1>1
    <2> HIDE DEF differing
    <2>2. \A i, k \in differing :
            (\A j \in differing : i <= j) /\ (\A j \in differing : k <= j) => i = k
      BY <2>1
    <2> QED BY <1>3, <2>2
  <1> HIDE DEF differing
  <1>7. \A i \in Nat : FirstAt(c, p, i) => differing # {}
    BY <1>3
  <1> QED BY <1>2, <1>4, <1>5, <1>6, <1>7

LEMMA PrereleaseOrder ==
  ASSUME NEW c \in Seq(Identifiers), NEW d \in Seq(Identifiers)
  PROVE  /\ ~ PrereleaseIsNewer(c, c)
         /\ c # d => PrereleaseIsNewer(c, d) \/ PrereleaseIsNewer(d, c)
         /\ ~ (PrereleaseIsNewer(c, d) /\ PrereleaseIsNewer(d, c))
  <1>0. Len(c) \in Nat /\ Len(d) \in Nat
    OBVIOUS
  <1>1. ~ PrereleaseIsNewer(c, c)
    <2>1. Prefix(c, c)
      BY <1>0 DEF Prefix
    <2> QED BY <1>0, <2>1, Compared
  <1>2. CASE \E i \in Nat : FirstAt(c, d, i)
    <2>1. PICK i \in Nat : FirstAt(c, d, i)
      BY <1>2
    <2>2. FirstAt(d, c, i) /\ c[i] \in Identifiers /\ d[i] \in Identifiers /\ c[i] # d[i]
      BY <2>1 DEF FirstAt
    <2>3. /\ PrereleaseIsNewer(c, d) <=> IdentifierIsNewer(c[i], d[i])
          /\ PrereleaseIsNewer(d, c) <=> IdentifierIsNewer(d[i], c[i])
      BY <2>1, <2>2, Compared
    <2> QED BY <1>1, <2>2, <2>3, IdentifierOrder
  <1>3. CASE Prefix(c, d) \/ Prefix(d, c)
    <2>1. /\ PrereleaseIsNewer(c, d) <=> Len(c) > Len(d)
          /\ PrereleaseIsNewer(d, c) <=> Len(d) > Len(c)
      BY <1>3, Compared
    <2>2. c # d => Len(c) # Len(d)
      BY <1>3 DEF Prefix
    <2> QED BY <1>0, <1>1, <2>1, <2>2
  <1> QED BY <1>2, <1>3, Compared

LEMMA PrereleaseTransitive ==
  ASSUME NEW c \in Seq(Identifiers), NEW d \in Seq(Identifiers), NEW e \in Seq(Identifiers),
         PrereleaseIsNewer(c, d), PrereleaseIsNewer(d, e)
  PROVE  PrereleaseIsNewer(c, e)
  <1>0. Len(c) \in Nat /\ Len(d) \in Nat /\ Len(e) \in Nat
    OBVIOUS
  <1>1. ASSUME NEW i \in Nat, FirstAt(c, d, i), NEW k \in Nat, FirstAt(d, e, k)
        PROVE  PrereleaseIsNewer(c, e)
    <2>1. IdentifierIsNewer(c[i], d[i]) /\ IdentifierIsNewer(d[k], e[k])
      BY <1>1, Compared
    <2>2. CASE i < k
      <3>1. FirstAt(c, e, i) /\ d[i] = e[i]
        BY <1>0, <1>1, <2>2 DEF FirstAt
      <3> QED BY <2>1, <3>1, Compared
    <2>3. CASE k < i
      <3>1. FirstAt(c, e, k) /\ c[k] = d[k]
        BY <1>0, <1>1, <2>3 DEF FirstAt
      <3> QED BY <2>1, <3>1, Compared
    <2>4. CASE i = k
      <3>1. c[i] \in Identifiers /\ d[i] \in Identifiers /\ e[i] \in Identifiers
        BY <1>1, <2>4 DEF FirstAt
      <3>2. IdentifierIsNewer(c[i], e[i])
        BY <2>1, <2>4, <3>1, IdentifierTransitive
      <3>3. c[i] # e[i]
        BY <3>1, <3>2, IdentifierOrder
      <3>4. FirstAt(c, e, i)
        BY <1>1, <2>4, <3>3 DEF FirstAt
      <3> QED BY <3>2, <3>4, Compared
    <2> QED BY <2>2, <2>3, <2>4
  <1>2. ASSUME NEW i \in Nat, FirstAt(c, d, i), Prefix(d, e) \/ Prefix(e, d)
        PROVE  PrereleaseIsNewer(c, e)
    <2>1. IdentifierIsNewer(c[i], d[i]) /\ Len(d) > Len(e)
      BY <1>2, Compared
    <2>2. Prefix(e, d)
      BY <1>0, <1>2, <2>1 DEF Prefix
    <2>3. CASE i <= Len(e)
      <3>1. FirstAt(c, e, i) /\ d[i] = e[i]
        BY <1>0, <1>2, <2>2, <2>3 DEF FirstAt, Prefix
      <3> QED BY <2>1, <3>1, Compared
    <2>4. CASE i > Len(e)
      <3>1. Prefix(e, c) /\ Len(c) > Len(e)
        BY <1>0, <1>2, <2>2, <2>4 DEF FirstAt, Prefix
      <3> QED BY <3>1, Compared
    <2> QED BY <1>0, <2>3, <2>4
  <1>3. ASSUME Prefix(c, d) \/ Prefix(d, c), NEW k \in Nat, FirstAt(d, e, k)
        PROVE  PrereleaseIsNewer(c, e)
    <2>1. Len(c) > Len(d) /\ IdentifierIsNewer(d[k], e[k])
      BY <1>3, Compared
    <2>2. Prefix(d, c)
      BY <1>0, <1>3, <2>1 DEF Prefix
    <2>3. FirstAt(c, e, k) /\ c[k] = d[k]
      BY <1>0, <1>3, <2>1, <2>2 DEF FirstAt, Prefix
    <2> QED BY <2>1, <2>3, Compared
  <1>4. ASSUME Prefix(c, d) \/ Prefix(d, c), Prefix(d, e) \/ Prefix(e, d)
        PROVE  PrereleaseIsNewer(c, e)
    <2>1. Len(c) > Len(d) /\ Len(d) > Len(e)
      BY <1>4, Compared
    <2>2. Prefix(e, c)
      BY <1>0, <1>4, <2>1 DEF Prefix
    <2>3. Len(c) > Len(e)
      BY <1>0, <2>1
    <2> QED BY <2>2, <2>3, Compared
  <1> QED BY <1>1, <1>2, <1>3, <1>4, Compared

LEMMA CoreOrder ==
  ASSUME NEW c \in [1..3 -> Nat], NEW d \in [1..3 -> Nat], NEW e \in [1..3 -> Nat]
  PROVE  /\ ~ CoreIsNewer(c, c)
         /\ c # d => CoreIsNewer(c, d) \/ CoreIsNewer(d, c)
         /\ ~ (CoreIsNewer(c, d) /\ CoreIsNewer(d, c))
         /\ CoreIsNewer(c, d) /\ CoreIsNewer(d, e) => CoreIsNewer(c, e)
  <1> DEFINE Newer(x, y) ==
               \/ x[1] > y[1]
               \/ x[1] = y[1] /\ x[2] > y[2]
               \/ x[1] = y[1] /\ x[2] = y[2] /\ x[3] > y[3]
  <1>1. \A x, y \in [1..3 -> Nat] : CoreIsNewer(x, y) <=> Newer(x, y)
    <2> SUFFICES ASSUME NEW x \in [1..3 -> Nat], NEW y \in [1..3 -> Nat]
                 PROVE  CoreIsNewer(x, y) <=> Newer(x, y)
      OBVIOUS
    <2>1. 1..3 = {1, 2, 3} /\ 1..(1 - 1) = {} /\ 1..(2 - 1) = {1} /\ 1..(3 - 1) = {1, 2}
      OBVIOUS
    <2>2. DOMAIN x = {1, 2, 3}
      BY <2>1
    <2>3. CoreIsNewer(x, y) <=>
            \E i \in {1, 2, 3} : x[i] > y[i] /\ \A j \in 1..(i - 1) : x[j] = y[j]
      BY <2>2 DEF CoreIsNewer
    <2> QED BY <2>1, <2>3
  <1>2. \A x \in [1..3 -> Nat] : x[1] \in Nat /\ x[2] \in Nat /\ x[3] \in Nat
    OBVIOUS
  <1>3. c # d => c[1] # d[1] \/ c[2] # d[2] \/ c[3] # d[3]
    OBVIOUS
  <1> QED BY <1>1, <1>2, <1>3

LEMMA VersionOrder ==
  ASSUME NEW a \in Releases, NEW b \in Releases, NEW c \in Releases
  PROVE  VersionsOrdered(a, b, c)
  <1>1. /\ a.core \in [1..3 -> Nat] /\ b.core \in [1..3 -> Nat] /\ c.core \in [1..3 -> Nat]
        /\ a.pre \in Seq(Identifiers) /\ b.pre \in Seq(Identifiers) /\ c.pre \in Seq(Identifiers)
    BY DEF Releases
  <1>2. a = b <=> a.core = b.core /\ a.pre = b.pre
    <2>1. a = [core |-> a.core, pre |-> a.pre] /\ b = [core |-> b.core, pre |-> b.pre]
      BY DEF Releases
    <2> QED BY <2>1
  <1> DEFINE Core(x, y) == CoreIsNewer(x.core, y.core)
             Pre(x, y) == PrereleaseIsNewer(x.pre, y.pre)
             final == NoPrerelease
  <1>3. \A x, y : IsNewer(x, y) <=>
          \/ x.core # y.core /\ Core(x, y)
          \/ x.core = y.core /\ x.pre = final /\ y.pre # final
          \/ x.core = y.core /\ x.pre # final /\ y.pre # final /\ Pre(x, y)
    BY DEF IsNewer
  <1>4. /\ a.core # b.core => Core(a, b) \/ Core(b, a)
        /\ ~ (Core(a, b) /\ Core(b, a)) /\ ~ (Core(a, c) /\ Core(c, a))
        /\ Core(a, b) /\ Core(b, c) => Core(a, c)
        /\ a.core = c.core => ~ Core(a, c)
    BY <1>1, CoreOrder
  <1>5. /\ a.pre # b.pre => Pre(a, b) \/ Pre(b, a)
        /\ ~ (Pre(a, b) /\ Pre(b, a)) /\ (a.pre = b.pre => ~ Pre(a, b) /\ ~ Pre(b, a))
    BY <1>1, PrereleaseOrder
  <1>6. Pre(a, b) /\ Pre(b, c) => Pre(a, c)
    BY <1>1, PrereleaseTransitive
  <1>7. a.core = b.core => Core(a, c) = Core(b, c)
    OBVIOUS
  <1>8. b.core = c.core => Core(a, b) = Core(a, c)
    OBVIOUS
  <1> HIDE DEF Core, Pre, final
  <1>9. (a = b) <=> (~IsNewer(a, b) /\ ~IsNewer(b, a))
    BY <1>2, <1>3, <1>4, <1>5
  <1>10. ~(IsNewer(a, b) /\ IsNewer(b, a))
    BY <1>3, <1>4, <1>5
  <1>11. IsNewer(a, b) /\ IsNewer(b, c) => IsNewer(a, c)
    BY <1>3, <1>4, <1>6, <1>7, <1>8
  <1> QED BY <1>9, <1>10, <1>11 DEF VersionsOrdered

-----------------------------------------------------------------------------
(* Nodes of the overlays, and an overlay as a walk of a package finds it:  *)
(* one node for a path, below folders of the same overlay.                 *)
Nodes(N, C) == [path : Seq(N) \ {<< >>}, content : C]
Overlays(N, C) ==
  {o \in SUBSET Nodes(N, C) :
     /\ IsFiniteSet(o)
     /\ \A m, n \in o : m.path = n.path => m = n
     /\ \A m \in o : \A k \in 1..(Len(m.path) - 1) :
          \E f \in o : IsFolder(f) /\ f.path = SubSeq(m.path, 1, k)}

(* Two nodes that cannot be in one tree, whichever is copied first.        *)
Clash(e, n) == e # n /\ (Refuses(e, n) \/ ~ SameContent(e, n))

LEMMA ClashSymmetric ==
  ASSUME NEW N, NEW C, NEW e \in Nodes(N, C), NEW n \in Nodes(N, C), Clash(e, n)
  PROVE  Clash(n, e)
  <1>1. Len(e.path) \in Nat /\ Len(n.path) \in Nat
    BY DEF Nodes
  <1>2. Shorter(e.path, n.path) = Shorter(n.path, e.path)
    BY <1>1 DEF Shorter
  <1>3. Aliases(e.path, n.path) => Aliases(n.path, e.path)
    BY <1>2, Zenon DEF Aliases
  <1>4. Refuses(e, n) => Refuses(n, e)
    BY <1>3, Zenon DEF Refuses
  <1>5. SameContent(n, e) => SameContent(e, n)
    BY DEF SameContent
  <1> QED  BY <1>4, <1>5 DEF Clash

LEMMA TakesUnlessClash ==
  ASSUME NEW tree, NEW n
  PROVE  Takes(tree, n) <=> \A e \in tree : ~ Clash(e, n)
  <1>1. ~ Refuses(n, n) /\ SameContent(n, n)
    BY Zenon DEF Refuses, SameContent, Aliases, IsStrictPrefix
  <1> QED  BY <1>1, Zenon DEF Takes, Clash

(* What the copy of an overlay onto a tree comes to, in any order.         *)
Merged(base, S) ==
  IF base = Refused \/ \E e \in base \cup S, n \in S : Clash(e, n)
  THEN Refused ELSE base \cup S

LEMMA CopyOne ==
  ASSUME NEW N, NEW C, NEW base, base = Refused \/ base \subseteq Nodes(N, C),
         NEW S, S \subseteq Nodes(N, C), NEW x \in S
  PROVE  Output(x, Merged(base, S \ {x})) = Merged(base, S)
  <1> DEFINE T == S \ {x}
  <1>1. CASE base = Refused
    BY <1>1 DEF Merged, Output
  <1>2. CASE base # Refused /\ \E e \in base \cup T, n \in T : Clash(e, n)
    <2>1. \E e \in base \cup S, n \in S : Clash(e, n)
      BY <1>2, Zenon
    <2> QED  BY <1>2, <2>1 DEF Merged, Output
  <1>3. CASE base # Refused /\ ~ \E e \in base \cup T, n \in T : Clash(e, n)
    <2>1. base \cup T # Refused
      BY <1>3 DEF Refused, Nodes
    <2>2. (\E e \in base \cup S, n \in S : Clash(e, n)) <=> \E e \in base \cup T : Clash(e, x)
      <3>1. ASSUME NEW e \in base \cup S, NEW n \in S, Clash(e, n)
            PROVE  \E f \in base \cup T : Clash(f, x)
        <4>1. e # n /\ e \in Nodes(N, C) /\ n \in Nodes(N, C)
          BY <1>3, <3>1 DEF Clash
        <4>2. Clash(n, e)
          BY <3>1, <4>1, ClashSymmetric
        <4>3. n = x => e \in base \cup T
          BY <4>1
        <4>4. n # x => n \in T /\ e = x
          BY <1>3, <3>1
        <4> QED  BY <3>1, <4>2, <4>3, <4>4, Zenon
      <3> QED  BY <3>1, Zenon
    <2>3. Merged(base, T) = base \cup T
      BY <1>3 DEF Merged
    <2>4. Takes(base \cup T, x) <=> ~ \E e \in base \cup T : Clash(e, x)
      BY TakesUnlessClash, Zenon
    <2>5. (base \cup T) \cup {x} = base \cup S
      OBVIOUS
    <2>6. Output(x, base \cup T) =
            IF Takes(base \cup T, x) THEN base \cup S ELSE Refused
      BY <2>1, <2>5 DEF Output
    <2>7. Merged(base, S) =
            IF \E e \in base \cup S, n \in S : Clash(e, n) THEN Refused ELSE base \cup S
      BY <1>3 DEF Merged
    <2> QED  BY <2>2, <2>3, <2>4, <2>6, <2>7, Zenon
  <1> QED  BY <1>1, <1>2, <1>3

(* The recursion of the copy, one node of what is left after the other.    *)
Picked(S) == CHOOSE x \in S : TRUE
Step(base, S, g) ==
  [T \in SUBSET S |-> IF T = {} THEN base ELSE Output(Picked(T), g[T \ {Picked(T)}])]

LEMMA CopyCorrect ==
  ASSUME NEW N, NEW C, NEW base, base = Refused \/ base \subseteq Nodes(N, C),
         NEW S, S \subseteq Nodes(N, C), IsFiniteSet(S)
  PROVE  CopyOverlay(base, S) = Merged(base, S)
  <1> DEFINE h == [T \in SUBSET S |-> Merged(base, T)]
             g == CHOOSE f : f = Step(base, S, f)
             wrong == {T \in SUBSET S : g[T] # Merged(base, T)}
  <1>1. CopyOverlay(base, S) = g[S]
    BY DEF CopyOverlay, FoldSet, MapThenFoldSet, Step, Picked
  <1>2. Merged(base, {}) = base
    BY DEF Merged
  <1>3. \A T \in SUBSET S : T # {} =>
          /\ Picked(T) \in T /\ T \ {Picked(T)} \in SUBSET S
          /\ Output(Picked(T), Merged(base, T \ {Picked(T)})) = Merged(base, T)
    <2> TAKE T \in SUBSET S
    <2>1. T # {} => Picked(T) \in T
      BY DEF Picked
    <2> QED  BY <2>1, CopyOne
  <1>4. h = Step(base, S, h)
    <2>1. \A T \in SUBSET S :
            h[T] = IF T = {} THEN base ELSE Output(Picked(T), h[T \ {Picked(T)}])
      BY <1>2, <1>3
    <2> QED  BY <2>1 DEF Step
  <1>5. g = Step(base, S, g)
    <2> HIDE DEF h
    <2> QED  BY <1>4
  <1> HIDE DEF g
  <1>6. \A T \in SUBSET S :
          g[T] = IF T = {} THEN base ELSE Output(Picked(T), g[T \ {Picked(T)}])
    <2>1. Step(base, S, g) =
            [T \in SUBSET S |-> IF T = {} THEN base ELSE Output(Picked(T), g[T \ {Picked(T)}])]
      BY DEF Step
    <2> QED  BY <1>5, <2>1
  <1>7. \A T \in SUBSET S : IsFiniteSet(T) /\ Cardinality(T) \in Nat
    BY FS_Subset, FS_CardinalityType
  <1>8. wrong = {}
    <2> SUFFICES ASSUME wrong # {} PROVE FALSE
      OBVIOUS
    <2>1. PICK k \in {Cardinality(T) : T \in wrong} : \A j \in {Cardinality(T) : T \in wrong} : k <= j
      <3>1. {Cardinality(T) : T \in wrong} \subseteq Nat /\ {Cardinality(T) : T \in wrong} # {}
        BY <1>7
      <3> QED  BY <3>1, Least
    <2>2. PICK T \in wrong : Cardinality(T) = k
      OBVIOUS
    <2>3. T # {}
      BY <1>2, <1>6
    <2> DEFINE x == Picked(T)
    <2>4. x \in T /\ T \ {x} \in SUBSET S /\ Output(x, Merged(base, T \ {x})) = Merged(base, T)
      BY <1>3, <2>3
    <2>5. g[T] = Output(x, g[T \ {x}])
      BY <1>6, <2>3
    <2> HIDE DEF x
    <2>6. Cardinality(T \ {x}) = Cardinality(T) - 1
      BY <1>7, <2>4, FS_RemoveElement
    <2>7. T \ {x} \notin wrong
      <3>1. Cardinality(T) \in Nat /\ ~ (Cardinality(T) <= Cardinality(T \ {x}))
        BY <1>7, <2>6
      <3> QED  BY <2>1, <2>2, <3>1
    <2>8. g[T] = Merged(base, T)
      BY <2>4, <2>5, <2>7
    <2> QED  BY <2>8
  <1> QED  BY <1>1, <1>8

(* What lies above a node of an overlay, down to the node itself.          *)
LEMMA PrefixNode ==
  ASSUME NEW N, NEW C, NEW o \in Overlays(N, C), NEW m \in o, NEW k \in 1..Len(m.path)
  PROVE  \E f \in o : f.path = SubSeq(m.path, 1, k) /\ (k < Len(m.path) => IsFolder(f))
  <1>1. m.path \in Seq(N) /\ Len(m.path) \in Nat
    BY DEF Overlays, Nodes
  <1>2. CASE k = Len(m.path)
    <2>1. SubSeq(m.path, 1, Len(m.path)) = m.path
      BY <1>1
    <2> QED  BY <1>1, <1>2, <2>1
  <1>3. CASE k # Len(m.path)
    <2>1. k \in 1..(Len(m.path) - 1)
      BY <1>1, <1>3
    <2> QED  BY <2>1 DEF Overlays
  <1> QED  BY <1>2, <1>3

LEMMA StrictPrefix ==
  ASSUME NEW N, NEW s \in Seq(N), NEW t \in Seq(N), IsStrictPrefix(s, t)
  PROVE  Len(s) < Len(t) /\ SubSeq(t, 1, Len(s)) = s
  <1>1. Len(s) \in Nat /\ Len(t) \in Nat /\ SubSeq(s, 1, Len(s)) = s /\ SubSeq(t, 1, Len(t)) = t
    OBVIOUS
  <1>2. s # t /\ Len(s) <= Len(t) /\ SubSeq(s, 1, Len(s)) = SubSeq(t, 1, Len(s))
    BY DEF IsStrictPrefix, IsPrefix
  <1>3. SubSeq(t, 1, Len(s)) = s
    BY <1>1, <1>2, Zenon
  <1>4. Len(s) # Len(t)
    BY <1>1, <1>2, <1>3
  <1>5. Len(s) < Len(t)
    <2>1. Len(s) \in Nat /\ Len(t) \in Nat /\ Len(s) <= Len(t)
      BY <1>1, <1>2, Zenon
    <2> QED  BY <1>4, <2>1
  <1> QED  BY <1>3, <1>5

(* A clash is one of two nodes, perhaps further up, with one place.        *)
LEMMA ClashIsAlias ==
  ASSUME NEW N, NEW C, NEW a \in Overlays(N, C), NEW b \in Overlays(N, C),
         NEW e \in a, NEW n \in b, Clash(e, n)
  PROVE  \E x \in a, y \in b : x # y /\ PortablePath(x.path) = PortablePath(y.path)
  <1>1. /\ e.path \in Seq(N) /\ Len(e.path) \in Nat /\ Len(e.path) >= 1
        /\ n.path \in Seq(N) /\ Len(n.path) \in Nat /\ Len(n.path) >= 1
    <2>1. e.path \in Seq(N) \ {<< >>} /\ n.path \in Seq(N) \ {<< >>}
      BY DEF Overlays, Nodes
    <2> QED  BY <2>1, EmptySeq
  <1>2. CASE Aliases(e.path, n.path)
    <2> DEFINE k == Shorter(e.path, n.path)
    <2>1. k \in 1..Len(e.path) /\ k \in 1..Len(n.path)
      BY <1>1 DEF Shorter
    <2>2. /\ PortablePath(SubSeq(e.path, 1, k)) = PortablePath(SubSeq(n.path, 1, k))
          /\ SubSeq(e.path, 1, k) # SubSeq(n.path, 1, k)
      BY <1>2 DEF Aliases
    <2> HIDE DEF k
    <2>3. PICK x \in a : x.path = SubSeq(e.path, 1, k)
      BY <2>1, PrefixNode
    <2>4. PICK y \in b : y.path = SubSeq(n.path, 1, k)
      BY <2>1, PrefixNode
    <2> QED  BY <2>2, <2>3, <2>4
  <1>3. CASE e.path = n.path
    BY <1>3 DEF Clash
  <1>4. CASE IsStrictPrefix(e.path, n.path) /\ ~ IsFolder(e)
    <2>1. Len(e.path) < Len(n.path) /\ SubSeq(n.path, 1, Len(e.path)) = e.path
      BY <1>1, <1>4, StrictPrefix
    <2>2. PICK y \in b : y.path = SubSeq(n.path, 1, Len(e.path)) /\ IsFolder(y)
      BY <1>1, <2>1, PrefixNode
    <2> QED  BY <1>4, <2>1, <2>2
  <1>5. CASE IsStrictPrefix(n.path, e.path) /\ ~ IsFolder(n)
    <2>1. Len(n.path) < Len(e.path) /\ SubSeq(e.path, 1, Len(n.path)) = n.path
      BY <1>1, <1>5, StrictPrefix
    <2>2. PICK x \in a : x.path = SubSeq(e.path, 1, Len(n.path)) /\ IsFolder(x)
      BY <1>1, <2>1, PrefixNode
    <2> QED  BY <1>5, <2>1, <2>2
  <1> QED  BY <1>2, <1>3, <1>4, <1>5, Zenon DEF Clash, Refuses, SameContent

LEMMA AliasIsClash ==
  ASSUME NEW N, NEW C, NEW x \in Nodes(N, C), NEW y \in Nodes(N, C), x # y,
         PortablePath(x.path) = PortablePath(y.path)
  PROVE  Clash(x, y)
  <1>1. x.path \in Seq(N) /\ y.path \in Seq(N) /\ Len(x.path) \in Nat /\ Len(y.path) \in Nat
    BY DEF Nodes
  <1>2. CASE x.path = y.path
    <2>1. x.content # y.content
      BY <1>2 DEF Nodes
    <2> QED  BY <1>2, <2>1 DEF Clash, SameContent
  <1>3. CASE x.path # y.path
    <2>1. Len(x.path) = Len(y.path)
      <3>1. DOMAIN x.path = DOMAIN y.path
        BY DEF PortablePath
      <3> QED  BY <1>1, <3>1
    <2>2. Shorter(x.path, y.path) = Len(x.path)
      BY <1>1, <2>1 DEF Shorter
    <2>3. SubSeq(x.path, 1, Len(x.path)) = x.path /\ SubSeq(y.path, 1, Len(x.path)) = y.path
      BY <1>1, <2>1
    <2>4. Aliases(x.path, y.path)
      BY <1>3, <2>2, <2>3 DEF Aliases
    <2> QED  BY <2>4 DEF Clash, Refuses
  <1> QED  BY <1>2, <1>3

(* Overlays of any size are merged without a loss, or refused.             *)
LEMMA MergeCorrect ==
  ASSUME NEW N, NEW C, NEW common \in Overlays(N, C), NEW product \in Overlays(N, C)
  PROVE  MergedPortably(common, product)
  <1> DEFINE nodes == common \cup product
             within == \E e \in common, n \in common : Clash(e, n)
             across == \E e \in nodes, n \in product : Clash(e, n)
             alias == \E m, n \in nodes : m # n /\ PortablePath(m.path) = PortablePath(n.path)
  <1>1. /\ common \subseteq Nodes(N, C) /\ product \subseteq Nodes(N, C)
        /\ IsFiniteSet(common) /\ IsFiniteSet(product)
    BY DEF Overlays
  <1>2. common # Refused /\ {} # Refused
    <2>1. \A n \in Nodes(N, C) : n.path # << >>
      BY DEF Nodes
    <2>2. PICK r \in Refused : r.path = << >>
      BY DEF Refused
    <2> QED  BY <1>1, <2>1, <2>2
  <1>3. CopyOverlay({}, common) = IF within THEN Refused ELSE common
    <2>1. CopyOverlay({}, common) = Merged({}, common)
      BY <1>1, CopyCorrect
    <2> QED  BY <1>2, <2>1 DEF Merged
  <1>4. Render(common, product) = IF within \/ across THEN Refused ELSE nodes
    <2>1. CASE within
      <3>1. Render(common, product) = Merged(Refused, product)
        BY <1>1, <1>3, <2>1, CopyCorrect DEF Render
      <3> QED  BY <2>1, <3>1 DEF Merged
    <2>2. CASE ~ within
      <3>1. Render(common, product) = Merged(common, product)
        BY <1>1, <1>3, <2>2, CopyCorrect DEF Render
      <3> QED  BY <1>2, <2>2, <3>1 DEF Merged
    <2> QED  BY <2>1, <2>2
  <1>5. ASSUME within \/ across PROVE alias
    <2>1. PICK a \in {common, product}, b \in {common, product} : \E e \in a, n \in b : Clash(e, n)
      BY <1>5, Zenon
    <2>2. PICK e \in a, n \in b : Clash(e, n)
      BY <2>1
    <2>3. a \in Overlays(N, C) /\ b \in Overlays(N, C) /\ a \subseteq nodes /\ b \subseteq nodes
      OBVIOUS
    <2>4. \E x \in a, y \in b : x # y /\ PortablePath(x.path) = PortablePath(y.path)
      BY <2>2, <2>3, ClashIsAlias
    <2> QED  BY <2>3, <2>4, Zenon
  <1>6. ASSUME alias PROVE within \/ across
    <2>1. PICK m \in nodes, n \in nodes :
            m # n /\ PortablePath(m.path) = PortablePath(n.path)
      BY <1>6
    <2>2. m \in Nodes(N, C) /\ n \in Nodes(N, C)
      BY <1>1
    <2>3. Clash(m, n)
      BY <2>1, <2>2, AliasIsClash
    <2>4. Clash(n, m)
      BY <2>2, <2>3, ClashSymmetric
    <2>5. m \in common \/ m \in product
      OBVIOUS
    <2>6. n \in common \/ n \in product
      OBVIOUS
    <2> QED  BY <2>3, <2>4, <2>5, <2>6, Zenon
  <1>7. (within \/ across) <=> alias
    BY <1>5, <1>6, Zenon
  <1>8. MergedPortably(common, product) <=>
          Render(common, product) = (IF alias THEN Refused ELSE nodes)
    BY Zenon DEF MergedPortably
  <1> HIDE DEF within, across, alias, nodes
  <1> QED  BY <1>4, <1>7, <1>8

(* Release versions are strictly and totally ordered, whatever their       *)
(* numbers and the length of their prereleases: of two different versions  *)
(* one is newer, and no chain of newer releases comes back to its start.   *)
(* And two overlays, however large and in whatever order they are copied,  *)
(* are merged without a loss, or refused.                                  *)
THEOREM ReleasesCorrect ==
  ASSUME NEW N, NEW C,
         case \in [rule : {"version"}, a : Releases, b : Releases, c : Releases]
                   \cup [rule : {"overlay"}, common : Overlays(N, C), product : Overlays(N, C)]
  PROVE  ReleasesSound
  <1>1. ASSUME case.rule = "version" PROVE VersionsOrdered(case.a, case.b, case.c)
    <2>1. case.a \in Releases /\ case.b \in Releases /\ case.c \in Releases
      BY <1>1
    <2> QED  BY <2>1, VersionOrder
  <1>2. ASSUME case.rule = "overlay" PROVE MergedPortably(case.common, case.product)
    <2>1. case.common \in Overlays(N, C) /\ case.product \in Overlays(N, C)
      BY <1>2
    <2> QED  BY <2>1, MergeCorrect
  <1> QED  BY <1>1, <1>2 DEF ReleasesSound
=============================================================================
