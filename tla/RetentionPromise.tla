-------------------------- MODULE RetentionPromise --------------------------
(***************************************************************************)
(* What the retention of Skill backups promises for every snapshot tree:   *)
(* it is taken out of its group whole, and from there either comes back    *)
(* under its own name, is set aside for the operator, or is erased; only a *)
(* tree approved after the move is erased, and a tree whose erasure has    *)
(* begun never comes back.                                                 *)
(***************************************************************************)
CONSTANTS Names, Objects, None

VARIABLES
  phase,    \* where each tree stands
  name,     \* the name it is saved under, or was captured from
  intact,   \* trees whose content matches their marker
  mounted   \* trees with a mount inside

promiseVars == <<phase, name, intact, mounted>>

Phases == {"unborn", "saved", "held", "approved", "erasing", "quarantined", "gone"}

PInit ==
  /\ phase \in [Objects -> {"unborn", "saved"}]
  /\ name \in [Objects -> Names \cup {None}]
  /\ intact \subseteq Objects
  /\ mounted = {}

\* The owner of the backups: saves, edits, renames and removes saved trees,
\* mounts and unmounts, and removes what was set aside.
Owner(o) ==
  \/ /\ phase[o] \in {"unborn", "saved"}
     /\ phase' \in {[phase EXCEPT ![o] = "saved"], [phase EXCEPT ![o] = "gone"]}
     /\ \E n \in Names \cup {None} : name' = [name EXCEPT ![o] = n]
     /\ intact' \in {intact \cup {o}, intact \ {o}}
     /\ mounted' \in {mounted, mounted \ {o}}
  \/ /\ mounted' \in {mounted \cup {o}, mounted \ {o}}
     /\ UNCHANGED <<phase, name, intact>>

Capture(o) ==
  /\ phase[o] = "saved"
  /\ phase' = [phase EXCEPT ![o] = "held"]
  /\ UNCHANGED <<name, intact, mounted>>

Restore(o) ==
  /\ phase[o] = "held"
  /\ \A p \in Objects : phase[p] = "saved" => name[p] # name[o]
  /\ phase' = [phase EXCEPT ![o] = "saved"]
  /\ UNCHANGED <<name, intact, mounted>>

SetAside(o) ==
  /\ phase[o] \in {"held", "approved", "erasing"}
  /\ phase' = [phase EXCEPT ![o] = "quarantined"]
  /\ UNCHANGED <<name, intact, mounted>>

Approve(o) ==
  /\ phase[o] = "held" /\ o \in intact
  /\ phase' = [phase EXCEPT ![o] = "approved"]
  /\ UNCHANGED <<name, intact, mounted>>

StartErase(o) ==
  /\ phase[o] = "approved" /\ o \in intact /\ o \notin mounted
  /\ phase' = [phase EXCEPT ![o] = "erasing"]
  /\ intact' = intact \ {o}
  /\ UNCHANGED <<name, mounted>>

FinishErase(o) ==
  /\ phase[o] = "erasing"
  /\ phase' = [phase EXCEPT ![o] = "gone"]
  /\ name' = [name EXCEPT ![o] = None]
  /\ UNCHANGED <<intact, mounted>>

\* The operator removes one run's quarantined trees together.
Dispose ==
  \E S \in SUBSET {o \in Objects : phase[o] = "quarantined"} :
    /\ phase' = [o \in Objects |-> IF o \in S THEN "gone" ELSE phase[o]]
    /\ name' = [o \in Objects |-> IF o \in S THEN None ELSE name[o]]
    /\ intact' = intact \ S
    /\ mounted' = mounted \ S

\* Someone exchanges a captured tree for another behind the bridge's back.
Exchange(o, p) ==
  /\ phase[o] \in {"held", "approved"} /\ phase[p] = "unborn"
  /\ phase' = [phase EXCEPT ![o] = "gone", ![p] = "held"]
  /\ name' = [name EXCEPT ![o] = None, ![p] = name[o]]
  /\ intact' = intact \cup {p}
  /\ UNCHANGED mounted

PNext ==
  \/ \E o \in Objects :
       Owner(o) \/ Capture(o) \/ Restore(o) \/ SetAside(o) \/ Approve(o)
       \/ StartErase(o) \/ FinishErase(o)
  \/ Dispose
  \/ \E o, p \in Objects : Exchange(o, p)

PSpec == PInit /\ [][PNext]_promiseVars
=============================================================================
