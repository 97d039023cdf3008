------------------------- MODULE MarketplacePublish -------------------------
(* render_marketplace of renderer.py, as `apply` and `register` call it    *)
(* with the digest their operator reviewed: the selected packages are      *)
(* frozen one after the other, rendered into an immutable build named by   *)
(* its digest, read once more, and copied to the one path the products     *)
(* know.  There is no lock: the catalog is edited meanwhile, two commands  *)
(* may publish at once, and each may be killed between any two steps.      *)
(*                                                                         *)
(* A digest is the tree it identifies.  A package is what is frozen by one *)
(* read; `body` tells its contents apart and never comes back, `version`   *)
(* is its release version, 0 while the package is not in the catalog.      *)
(* The `render` command reviews nothing: it is a command here whose second *)
(* reading follows the first at once.                                      *)
EXTENDS Naturals, Sequences

CONSTANTS
  Publishers,    \* running apply and register commands
  NumPackages,   \* packages of the catalog, in the order they are frozen
  MaxVersion,    \* bound: highest release version
  MaxEdits,      \* bound: edits of the catalog
  MaxCrashes,    \* bound: killed commands
  MaxFaults,     \* bound: I/O errors and changes made to bridge-owned trees
  None

ASSUME SizeAssumption == NumPackages \in Nat \ {0} /\ MaxVersion \in Nat \ {0}
ASSUME BoundAssumption == MaxEdits \in Nat /\ MaxCrashes \in Nat /\ MaxFaults \in Nat
Packages == 1..NumPackages
Source == [body : 0..MaxEdits, version : 0..MaxVersion]
Tree == [Packages -> Source]
\* A directory at the stable path or beside it: whole as its marker says, the
\* copy of a spoiled build, or changed in place.
Copies == [tree : Tree, state : {"whole", "spoiled", "edited"}]

ASSUME NoneAssumption == None \notin Tree \cup Copies

VARIABLES
  catalog,    \* the selected packages as they are now
  edits,      \* edits made so far
  builds,     \* trees that have a directory below builds/
  spoiled,    \* builds whose files no longer match their marker
  published,  \* what is at <state_dir>/marketplace, or None
  job,        \* per command: where it is and its local variables
  crashes, faults,
  past,       \* history: every catalog there was
  latest,     \* history: the last tree that was published
  torn        \* history: the last published tree was lost between two renames

catVars == <<catalog, edits, past>>
buildVars == <<builds, spoiled>>
pathVars == <<published, latest, torn>>
vars == <<catVars, buildVars, pathVars, job, crashes, faults>>

\* reviewed: the tree the plan showed; got: the packages of the current reading;
\* stage and displaced: the .tmp copy and the .old directory; stale (history):
\* another command published since this one compared.
Idle == [at |-> "plan", reviewed |-> None, got |-> << >>, stage |-> None,
         displaced |-> None, stale |-> FALSE]

Init ==
  /\ catalog \in [Packages -> [body : {0}, version : {0, 1}]]
  /\ edits = 0 /\ past = {catalog}
  /\ builds = {} /\ spoiled = {}
  /\ published = None /\ latest = None /\ torn = FALSE
  /\ job = [p \in Publishers |-> Idle]
  /\ crashes = 0 /\ faults = 0

-----------------------------------------------------------------------------
(* The owner of the catalog and of the disk.                               *)

\* A package gets new contents; whether the version is increased, kept or
\* decreased is up to the author.
Edit(k) ==
  /\ edits < MaxEdits
  /\ edits' = edits + 1
  /\ \E v \in 1..MaxVersion : catalog' = [catalog EXCEPT ![k] = [body |-> edits + 1, version |-> v]]
  /\ past' = past \cup {catalog'}
  /\ UNCHANGED <<buildVars, pathVars, job, crashes, faults>>

Fault == faults < MaxFaults /\ faults' = faults + 1

Spoil(t) ==
  /\ Fault
  /\ spoiled' = spoiled \cup {t}
  /\ UNCHANGED <<catVars, builds, pathVars, job, crashes>>

EditPublished ==
  /\ published # None /\ Fault
  /\ published' = [published EXCEPT !.state = "edited"]
  /\ UNCHANGED <<catVars, buildVars, latest, torn, job, crashes>>

-----------------------------------------------------------------------------
At(p, place) == job[p].at = place
Goto(p, place) == job' = [job EXCEPT ![p].at = place]
\* Done, RenderError or OSError: the .tmp copy is removed and the command ends.
Ends(p) == job' = [job EXCEPT ![p] = Idle]
GotoOrEnd(p, ok, place) == IF ok THEN Goto(p, place) ELSE Ends(p)
Quiet == UNCHANGED <<catVars, crashes, faults>>
Inside == UNCHANGED <<buildVars, pathVars>> /\ Quiet

\* _freeze_artifact_tree: each package is read once per reading.
WithNext(p) == Append(job[p].got, catalog[Len(job[p].got) + 1])
LastPackage(p) == Len(job[p].got) + 1 = NumPackages

Read(p) ==
  /\ job[p].at \in {"plan", "freeze", "recheck"} /\ ~LastPackage(p)
  /\ job' = [job EXCEPT ![p].got = WithNext(p)]
  /\ Inside

\* The plan shows what it froze, and the operator agrees.
Plan(p) ==
  /\ At(p, "plan") /\ LastPackage(p)
  /\ job' = [job EXCEPT ![p] = [Idle EXCEPT !.at = "freeze", !.reviewed = WithNext(p)]]
  /\ Inside

\* Fault: a reading that is not what was reviewed is used all the same.
Settle_Fault(p, from, to) ==
  /\ At(p, from) /\ LastPackage(p)
  /\ job' = [job EXCEPT ![p] = [Idle EXCEPT !.at = to, !.reviewed = WithNext(p)]]
  /\ Inside
\* A completed reading must be what was reviewed, or the command ends.
Settle(p, from, to) ==
  /\ At(p, from) /\ LastPackage(p)
  /\ IF WithNext(p) = job[p].reviewed
     THEN job' = [job EXCEPT ![p] = [@ EXCEPT !.at = to, !.got = << >>]]
     ELSE Ends(p)
  /\ Inside

\* Fault: the completed reading is kept for the next one.
Freeze_Fault(p) ==
  /\ At(p, "freeze") /\ LastPackage(p) /\ WithNext(p) = job[p].reviewed
  /\ job' = [job EXCEPT ![p] = [@ EXCEPT !.at = "build", !.got = WithNext(p)]]
  /\ Inside
Freeze(p) == Settle(p, "freeze", "build")
Recheck(p) == Settle(p, "recheck", "compare")

\* An existing build is validated and used again; a new one takes its time.
Build(p) ==
  /\ At(p, "build")
  /\ IF job[p].reviewed \in builds
     THEN GotoOrEnd(p, job[p].reviewed \notin spoiled, "recheck")
     ELSE Goto(p, "rename")
  /\ Inside

\* os.replace onto a directory another command has put there is refused.
RenameBuild(p) ==
  /\ At(p, "rename")
  /\ GotoOrEnd(p, job[p].reviewed \notin builds, "recheck")
  /\ builds' = builds \cup {job[p].reviewed}
  /\ UNCHANGED <<spoiled, pathVars>> /\ Quiet

-----------------------------------------------------------------------------
(* _publish_marketplace.                                                   *)

\* _validate_package_version_changes: a package in both trees that differs has
\* a newer version.
Bumped(old, new) ==
  \A k \in Packages :
    old[k].version > 0 /\ new[k].version > 0 /\ old[k] # new[k]
      => new[k].version > old[k].version

\* Fault: the versions are not compared.
Admits_Fault(p) == published # None => published.state = "whole"
Admits(p) ==
  published # None =>
    /\ published.state = "whole"
    /\ published.tree # job[p].reviewed
    /\ Bumped(published.tree, job[p].reviewed)

Copied(p) == [tree |-> job[p].reviewed,
              state |-> IF job[p].reviewed \in spoiled THEN "spoiled" ELSE "whole"]

\* Fault: the copy is not read back.
Sound_Fault(copy) == TRUE
\* _read_rendered_marketplace of the copy.
Sound(copy) == copy.state = "whole"

\* The comparison with what is published, then the .tmp copy of the build.
Stage(p) ==
  /\ At(p, "compare")
  /\ IF Admits(p) /\ Sound(Copied(p))
     THEN job' = [job EXCEPT ![p] = [@ EXCEPT !.at = "displace", !.stage = Copied(p),
                    !.stale = \E q \in Publishers \ {p} : At(q, "install")]]
     ELSE Ends(p)
  /\ Inside

\* Whatever is at the stable path now is renamed aside.
Displace(p) ==
  /\ At(p, "displace")
  /\ job' = [job EXCEPT ![p] = [@ EXCEPT !.at = "install", !.displaced = published]]
  /\ published' = None
  /\ UNCHANGED <<buildVars, latest, torn>> /\ Quiet

\* It was there for lexists and gone for the rename.
DisplaceLost(p) ==
  /\ At(p, "displace") /\ published = None
  /\ \E q \in Publishers \ {p} : At(q, "install") /\ job[q].displaced # None
  /\ Ends(p)
  /\ Inside

\* The .tmp copy takes the path and the .old directory is removed.
Install(p) ==
  /\ At(p, "install") /\ published = None
  /\ published' = job[p].stage
  /\ latest' = job[p].reviewed
  /\ torn' = FALSE
  /\ job' = [q \in Publishers |->
       IF q = p THEN Idle
       ELSE [job[q] EXCEPT !.stale = @ \/ job[q].at \in {"displace", "install"}]]
  /\ UNCHANGED buildVars /\ Quiet

\* The path was taken by another command; what was renamed aside stays there.
InstallRefused(p) == At(p, "install") /\ published # None /\ Ends(p) /\ Inside

\* Fault: what was renamed aside does not go back.
Restored_Fault(p) == published
Restored(p) == IF published = None THEN job[p].displaced ELSE published

\* A rename fails; what was renamed aside goes back if the path is free.
Fails(p) ==
  /\ job[p].at \in {"displace", "install"} /\ Fault
  /\ published' = Restored(p)
  /\ torn' = (torn \/ (published = None /\ Restored(p) # None /\ Restored(p).tree # latest))
  /\ Ends(p)
  /\ UNCHANGED <<catVars, buildVars, latest, crashes>>

\* Killed: the .tmp and .old directories stay where nothing looks at them.
Crash(p) ==
  /\ job[p] # Idle /\ crashes < MaxCrashes
  /\ crashes' = crashes + 1
  /\ torn' = (torn \/ (published = None /\ job[p].displaced # None))
  /\ Ends(p)
  /\ UNCHANGED <<catVars, buildVars, published, latest, faults>>

-----------------------------------------------------------------------------
Prepare(p) == Read(p) \/ Plan(p) \/ Freeze(p) \/ Build(p) \/ RenameBuild(p) \/ Recheck(p)
Publish(p) == Stage(p) \/ Displace(p) \/ DisplaceLost(p) \/ Install(p) \/ InstallRefused(p)

Next ==
  \/ \E k \in Packages : Edit(k)
  \/ \E t \in builds : Spoil(t)
  \/ EditPublished
  \/ \E p \in Publishers : Prepare(p) \/ Publish(p) \/ Fails(p) \/ Crash(p)

Spec == Init /\ [][Next]_vars

-----------------------------------------------------------------------------
States == {"plan", "freeze", "build", "rename", "recheck", "compare", "displace", "install"}

Job == [at : States, reviewed : Tree \cup {None}, got : Seq(Source),
        stage : Copies \cup {None}, displaced : Copies \cup {None}, stale : BOOLEAN]

TypeOK ==
  /\ catalog \in Tree /\ edits \in 0..MaxEdits /\ past \subseteq Tree
  /\ builds \subseteq Tree /\ spoiled \subseteq Tree
  /\ published \in Copies \cup {None}
  /\ job \in [Publishers -> Job] /\ \A p \in Publishers : Len(job[p].got) < NumPackages
  /\ crashes \in 0..MaxCrashes /\ faults \in 0..MaxFaults
  /\ latest \in Tree \cup {None} /\ torn \in BOOLEAN

(* The packages are read one by one and edited meanwhile, and yet what the *)
(* products find at the stable path is the whole catalog as it was at one  *)
(* moment, never packages of different moments, and never the copy of a    *)
(* build whose files were changed.                                         *)
PublishedWasCatalog ==
  published # None => published.tree \in past /\ published.state # "spoiled"

(* A package that changes between two successive publications gets a newer *)
(* version, so product caches notice; except after a command was killed    *)
(* between its two renames or put an older tree back than another command  *)
(* had published meanwhile, so that the last one is not compared with, and *)
(* when another command has published since the comparison.                *)
VersionsGrow ==
  [][\A p \in Publishers :
       At(p, "install") /\ published' = job[p].stage /\ latest # None /\ ~torn /\ ~job[p].stale
         => Bumped(latest, latest')]_vars

(* Once something was published the stable path is empty only while a      *)
(* command is between its two renames, or was killed there.                *)
PathRestored ==
  (published = None /\ latest # None) =>
    torn \/ \E p \in Publishers : At(p, "install") /\ job[p].displaced # None
=============================================================================
