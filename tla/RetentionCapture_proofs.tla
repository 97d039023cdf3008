----------------------- MODULE RetentionCapture_proofs -----------------------
(* Proofs about RetentionCapture, for every number of names, objects,       *)
(* pruners, runs, meddlers' steps and faults.                               *)
EXTENDS RetentionCapture, WellFoundedInduction, TLAPS

-----------------------------------------------------------------------------
(* The inductive invariant.                                                *)

(* A pruner that is past the lock holds it.                                *)
Working(p) == pc[p] \notin {"idle", "reviewed"}
LockHeld == \A p \in Pruners : Working(p) => lock = p

(* No object is in two places.                                             *)
Apart ==
  /\ \A m, n \in Names : saved[m] = saved[n] /\ saved[m] # None => m = n
  /\ \A r, q \in Runs, m, n \in Names :
       /\ slot[r][m] = slot[q][n] /\ slot[r][m] # None => r = q /\ m = n
       /\ quar[r][m] = quar[q][n] /\ quar[r][m] # None => r = q /\ m = n
       /\ slot[r][m] = quar[q][n] => slot[r][m] = None
  /\ \A r \in Runs, m, n \in Names :
       /\ saved[m] = slot[r][n] => saved[m] = None
       /\ saved[m] = quar[r][n] => saved[m] = None

(* The manifests fit the directories.                                      *)
Filed ==
  /\ \A r \in Runs : r > made => dir[r] = "none"
  /\ \A r \in Runs, n \in Names :
       /\ slot[r][n] # None => dir[r] = "live" /\ st[r][n] \in Unsettled /\ quar[r][n] = None
       /\ dir[r] # "live" => st[r][n] = "none"
       /\ st[r][n] = "deleted" => quar[r][n] = None

(* What the trees hold, by where they are and what is recorded of them.    *)
Content ==
  /\ \A n \in Names : saved[n] # None => body[saved[n]] \in {"whole", "edited"}
  /\ \A r \in Runs, n \in Names :
       /\ slot[r][n] # None => body[slot[r][n]] \in {"whole", "edited", "partial"}
       /\ quar[r][n] # None => body[quar[r][n]] \in {"whole", "edited", "partial"}
       /\ want[r][n] # None => body[want[r][n]] # "unborn"
       /\ slot[r][n] # None /\ st[r][n] = "verified" /\ slot[r][n] = want[r][n] =>
            body[slot[r][n]] # "edited"
       /\ slot[r][n] # None /\ body[slot[r][n]] = "partial" =>
            st[r][n] = "verified" /\ slot[r][n] = want[r][n]
PlansBorn == \A p \in Pruners : \A k \in plan[p].acts : body[k[2]] # "unborn"

(* A reviewed tree that was verified is in its own slot or in none: it     *)
(* comes back under no name and lies in no other run.                      *)
Confined(r, n) ==
  /\ \A m \in Names : saved[m] # want[r][n]
  /\ \A q \in Runs, m \in Names :
       slot[q][m] = want[r][n] \/ quar[q][m] = want[r][n] => q = r /\ m = n
Confinement ==
  \A r \in Runs, n \in Names : st[r][n] \in {"verified", "deleted"} => Confined(r, n)

Disk == Apart /\ Filed /\ Content /\ Confinement

(* What a pruner has in hand at each of its steps.                         *)
ItemSteps ==
  {"move", "note", "verify", "recheck", "seal", "delete", "erasing", "erased", "settle",
   "back", "noteback", "quar", "quarmove", "quarnote", "quarcopy"}

Control(p) ==
  /\ ~ Working(p) \/ pc[p] \in {"scan", "fresh"} => mode[p] = "recover" /\ left[p] = {}
  /\ ~ Working(p) => run[p] = None
  /\ pc[p] = "fresh" \/ mode[p] = "capture" => queue[p] = {}
  /\ pc[p] \in ItemSteps \cup {"item"} => run[p] \in Runs /\ dir[run[p]] = "live"
  /\ pc[p] \in ItemSteps => left[p] # {}
  /\ pc[p] \in {"intent", "move", "note", "verify", "recheck", "seal"} => mode[p] = "capture"
  /\ pc[p] \in {"intent", "rmdir"} => run[p] \in Runs /\ dir[run[p]] = "bare" /\ left[p] = {}
  /\ pc[p] = "end" => left[p] = {}
  /\ Working(p) /\ run[p] \in Runs => run[p] <= made /\ run[p] \notin queue[p]
  /\ Working(p) => \A r \in queue[p] : dir[r] # "none"

(* A capture has not begun with the items after the present one.           *)
Ahead(p) ==
  mode[p] = "capture" =>
    \A n \in left[p] : n # Item(p) \/ pc[p] \in {"item", "move"} =>
      st[run[p]][n] = "intent" /\ slot[run[p]][n] = None

(* A recovery leaves nothing in the quarantine that is not recorded there, *)
(* and so a capture begins with an empty one.                              *)
Swept(p) ==
  Working(p) /\ mode[p] = "recover" =>
    \A r \in Runs \ queue[p], n \in Names :
      (r = run[p] /\ n \in left[p]) \/ n \notin Awaiting(r) \/ quar[r][n] = None
Clean(p) ==
  /\ mode[p] = "capture" /\ pc[p] \notin {"quarnote", "quarcopy", "rmdir", "end"}
  /\ pc[p] # "item" \/ left[p] # {}
  => \A r \in Runs, n \in Names : quar[r][n] = None

(* Every kept sibling was there when it was looked at after the move.      *)
Witnessed(p) ==
  mode[p] = "capture" /\ pc[p] \in {"seal", "delete"} =>
    \A k \in plan[p].kept : saved[k[1]] = k[2] \/ k[2] \in late[p]

(* The manifest and the slot of the item a pruner handles.                 *)
Handling(p, r, n) ==
  /\ pc[p] \in {"note", "verify", "recheck", "seal", "delete", "erasing", "settle", "back",
                "quar", "quarmove"} => slot[r][n] # None
  /\ pc[p] \in {"erased", "noteback", "quarnote", "quarcopy"} => slot[r][n] = None
  /\ pc[p] = "note" => st[r][n] = "intent"
  /\ pc[p] \in {"verify", "recheck", "seal"} => st[r][n] = "captured"
  /\ pc[p] \in {"recheck", "seal"} =>
       Confined(r, n) /\ (slot[r][n] = want[r][n] => body[slot[r][n]] = "whole")
  /\ pc[p] \in {"delete", "erasing", "erased"} => st[r][n] = "verified"
  /\ pc[p] = "erasing" => slot[r][n] = want[r][n] /\ body[slot[r][n]] = "partial"
  /\ pc[p] \in {"erased", "noteback"} => quar[r][n] = None
  /\ pc[p] \in {"settle", "back", "noteback"} => st[r][n] \in {"intent", "captured"}
  /\ pc[p] = "quarnote" => st[r][n] \in Unsettled
  /\ pc[p] = "quarcopy" => st[r][n] = "quarantined"
AtItem(p) == pc[p] \in ItemSteps => Handling(p, run[p], Item(p))

Course(p) ==
  Control(p) /\ Ahead(p) /\ Swept(p) /\ Clean(p) /\ Witnessed(p) /\ AtItem(p)

Inv == TypeOK /\ LockHeld /\ Disk /\ PlansBorn /\ \A p \in Pruners : Course(p)

-----------------------------------------------------------------------------
(* Lemmas about the operators of the model.                                *)

(* A nonempty set of numbers has a least element.                          *)
LEMMA Least ==
  ASSUME NEW S, S \subseteq Nat, S # {}
  PROVE  \E n \in S : \A m \in S : n <= m
<1> DEFINE R == {ss \in Nat \X Nat : ss[1] < ss[2]}
<1>1. IsWellFoundedOn(R, Nat)
  BY NatLessThanWellFounded DEF OpToRel
<1>2. PICK n \in S : \A m \in S : <<m, n>> \notin R
  <2> HIDE DEF R
  <2> QED  BY <1>1, WFMin, Zenon
<1>3. \A m \in S : n <= m
  <2> TAKE m \in S
  <2>1. m \in Nat /\ n \in Nat
    OBVIOUS
  <2>2. <<m, n>> \notin R
    BY <1>2
  <2>3. ~ (m < n)
    BY <2>1, <2>2
  <2> QED  BY <2>1, <2>3
<1> QED  BY <1>3

(* The present item is one of those left.                                  *)
LEMMA ItemLeft ==
  ASSUME TypeOK, NEW p \in Pruners, left[p] # {}
  PROVE  Item(p) \in left[p] /\ Item(p) \in Names
<1>1. left[p] \subseteq Names /\ left[p] \subseteq Nat
  BY NumbersAssumption DEF TypeOK
<1>2. \E n \in left[p] : \A m \in left[p] : n <= m
  BY <1>1, Least, Zenon
<1> QED  BY <1>1, <1>2 DEF Item

(* Where a pruner at an item step stands.                                  *)
LEMMA InHand ==
  ASSUME Inv, NEW p \in Pruners, pc[p] \in ItemSteps
  PROVE  /\ run[p] \in Runs /\ Item(p) \in Names /\ Item(p) \in left[p]
         /\ dir[run[p]] = "live" /\ run[p] <= made /\ Working(p)
         /\ Handling(p, run[p], Item(p))
<1>1. Control(p) /\ AtItem(p) /\ TypeOK
  BY DEF Inv, Course
<1>2. left[p] # {} /\ run[p] \in Runs /\ dir[run[p]] = "live" /\ run[p] <= made /\ Working(p)
  BY <1>1 DEF Control, ItemSteps, Working
<1> QED  BY <1>1, <1>2, ItemLeft DEF AtItem

(* The reviewed object of a candidate.                                     *)
LEMMA ReviewedPair ==
  ASSUME TypeOK, NEW p \in Pruners, NEW n \in Candidates(p)
  PROVE  n \in Names /\ Reviewed(p, n) \in Objects /\ <<n, Reviewed(p, n)>> \in plan[p].acts
BY DEF Candidates, Reviewed

LEMMA NonePlaced ==
  /\ None \notin Objects /\ None \notin Names /\ None \notin Runs /\ None \notin Pruners
BY ObjectsAssumption

-----------------------------------------------------------------------------
(* Types.                                                                  *)

LEMMA TypeInit == Init => TypeOK
BY NumbersAssumption, ObjectsAssumption
   DEF Init, TypeOK, Holders, Bodies, ItemStates, Unsettled, States, Plans, Pairs, NoPlan

LEMMA PlanTyped ==
  ASSUME TypeOK, NEW still
  PROVE  PlanOf(still) \in Plans
<1> DEFINE acts == {n \in Group \ Kept : Ready(n, still)}
           named(S) == {<<n, saved[n]>> : n \in S}
<1>1. \A S \in SUBSET Group : named(S) \in SUBSET Pairs
  BY NonePlaced DEF TypeOK, Group, Pairs
<1>2. acts \in SUBSET Group /\ Kept \in SUBSET Group /\ {} \in SUBSET Pairs
      /\ Group \ (Kept \cup acts) \in SUBSET Names
  BY DEF Kept, Group
<1>3. named(acts) \in SUBSET Pairs /\ named(Kept) \in SUBSET Pairs
  BY <1>1, <1>2
<1> HIDE DEF acts, named
<1>4. PlanOf(still) = [acts |-> named(acts),
                       kept |-> IF acts = {} THEN {} ELSE named(Kept),
                       deferred |-> Group \ (Kept \cup acts)]
  BY DEF PlanOf, acts, named
<1> QED  BY <1>2, <1>3, <1>4 DEF Plans

USE DEF trees, records, memory, Goto, Fault, Record, InSlot, Touch, Leave

LEMMA TypeSteps ==
  ASSUME Inv, NEW p \in Pruners, Step(p) \/ Abort(p)
  PROVE  TypeOK'
<1> USE NumbersAssumption, NonePlaced DEF States
<1>a. TypeOK
  BY DEF Inv
<1>b. pc[p] \in ItemSteps => /\ run[p] \in Runs /\ Item(p) \in Names
                            /\ Handling(p, run[p], Item(p))
  BY InHand
<1>1. CASE Review(p)
  BY <1>1, <1>a, PlanTyped DEF TypeOK, Review
<1>2. CASE TakeLock(p)
  BY <1>2, <1>a DEF TypeOK, TakeLock
<1>3. CASE LockBusy(p)
  BY <1>3, <1>a DEF TypeOK, LockBusy, NoPlan, Plans
<1>4. CASE RecoverRun(p)
  BY <1>4, <1>a DEF TypeOK, RecoverRun
<1>5. CASE RecoverItem(p)
  <2>1. Item(p) \in Names
    BY <1>5, <1>a, ItemLeft DEF RecoverItem
  <2>2. st' \in [Runs -> [Names -> ItemStates]]
    BY <1>5, <1>a, <2>1 DEF TypeOK, RecoverItem, ItemStates, Unsettled
  <2>3. \A r \in Runs, n \in Names : st'[r][n] # "none" => want'[r][n] # None
    BY <1>5, <1>a, <2>1 DEF TypeOK, RecoverItem
  <2>4. pc' \in [Pruners -> States]
    BY <1>5, <1>a DEF TypeOK, RecoverItem
  <2>5. left' \in [Pruners -> SUBSET Names]
    BY <1>5, <1>a DEF TypeOK, RecoverItem
  <2>6. UNCHANGED <<trees, dir, want, qdir, copied, made, lock, mode, run, queue, alarm, plan,
                    quiet, late, meddles, faults>>
    BY <1>5 DEF RecoverItem
  <2> QED  BY <1>a, <2>2, <2>3, <2>4, <2>5, <2>6 DEF TypeOK
<1>6. CASE Sweep(p)
  BY <1>6, <1>a DEF TypeOK, Sweep
<1>7. CASE StopFresh(p)
  BY <1>7, <1>a DEF TypeOK, StopFresh, NoPlan, Plans
<1>8. CASE MakeRun(p)
  BY <1>8, <1>a DEF TypeOK, MakeRun, Runs
<1>9. CASE WriteIntent(p)
  <2>1. Candidates(p) \subseteq Names /\ \A n \in Candidates(p) : Reviewed(p, n) \in Objects
    BY <1>a, ReviewedPair DEF Candidates
  <2> DEFINE w == [n \in Names |-> IF n \in Candidates(p) THEN Reviewed(p, n) ELSE None]
             s == [n \in Names |-> IF n \in Candidates(p) THEN "intent" ELSE "none"]
  <2>2. /\ w \in [Names -> Objects \cup {None}] /\ s \in [Names -> ItemStates]
        /\ \A n \in Names : s[n] # "none" => w[n] # None
    BY <2>1 DEF ItemStates, Unsettled
  <2>3. want' = [want EXCEPT ![run[p]] = w] /\ st' = [st EXCEPT ![run[p]] = s]
    BY <1>9 DEF WriteIntent
  <2> HIDE DEF w, s
  <2>4. /\ want' \in Holders /\ st' \in [Runs -> [Names -> ItemStates]]
        /\ \A r \in Runs, n \in Names : st'[r][n] # "none" => want'[r][n] # None
    BY <1>a, <2>2, <2>3 DEF TypeOK, Holders
  <2> QED  BY <1>9, <1>a, <2>1, <2>4 DEF TypeOK, WriteIntent
<1>10. CASE CheckKept(p)
  BY <1>10, <1>a DEF TypeOK, CheckKept
<1>11. CASE Move(p)
  BY <1>11, <1>a, <1>b DEF TypeOK, Move, ItemSteps, Handling, Holders
<1>12. CASE MoveBusy(p)
  BY <1>12, <1>a DEF TypeOK, MoveBusy
<1>13. CASE NoteCaptured(p)
  BY <1>13, <1>a, <1>b DEF TypeOK, NoteCaptured, ItemSteps, Handling, ItemStates, Unsettled
<1>14. CASE Verify(p)
  BY <1>14, <1>a DEF TypeOK, Verify
<1>15. CASE Recheck(p)
  BY <1>15, <1>a DEF TypeOK, Recheck
<1>16. CASE Seal(p)
  BY <1>16, <1>a, <1>b DEF TypeOK, Seal, ItemSteps, Handling, ItemStates, Unsettled
<1>17. CASE StartErase(p)
  BY <1>17, <1>a, <1>b DEF TypeOK, StartErase, ItemSteps, Handling, Bodies, Holders
<1>18. CASE RefuseErase(p)
  BY <1>18, <1>a, <1>b DEF TypeOK, RefuseErase, ItemSteps, Handling, ItemStates, Unsettled
<1>19. CASE EraseFails(p)
  BY <1>19, <1>a, <1>b DEF TypeOK, EraseFails, ItemSteps, Handling
<1>20. CASE Erase(p)
  BY <1>20, <1>a, <1>b DEF TypeOK, Erase, ItemSteps, Handling, Bodies, Holders
<1>21. CASE NoteDeleted(p)
  BY <1>21, <1>a, <1>b DEF TypeOK, NoteDeleted, ItemSteps, Handling, ItemStates, Unsettled
<1>22. CASE Settle(p)
  BY <1>22, <1>a DEF TypeOK, Settle
<1>23. CASE PutBack(p)
  <2>0. /\ run[p] \in Runs /\ Item(p) \in Names /\ Handling(p, run[p], Item(p))
        /\ pc[p] = "back"
    BY <1>23, <1>b DEF PutBack, ItemSteps
  <2>1. slot[run[p]][Item(p)] # None /\ slot \in Holders
    BY <1>a, <2>0 DEF Handling, TypeOK
  <2>2. InSlot(p) \in Objects /\ Item(p) \in Names
    BY <2>0, <2>1 DEF Holders
  <2>3. saved' \in [Names -> Objects \cup {None}] /\ slot' \in Holders
    BY <1>23, <1>a, <2>2 DEF TypeOK, PutBack, Holders
  <2> QED  BY <1>23, <1>a, <2>2, <2>3 DEF TypeOK, PutBack
<1>24. CASE PutBackFails(p)
  BY <1>24, <1>a DEF TypeOK, PutBackFails
<1>25. CASE NoteRestored(p)
  BY <1>25, <1>a, <1>b
     DEF TypeOK, NoteRestored, ItemSteps, Handling, ItemStates, Unsettled, After
<1>26. CASE MakeQuarantine(p)
  <2>1. run[p] \in Runs
    BY <1>26, <1>b DEF MakeQuarantine, ItemSteps
  <2> QED  BY <1>26, <1>a, <2>1 DEF TypeOK, MakeQuarantine
<1>27. CASE QuarantineMove(p)
  <2>0. /\ run[p] \in Runs /\ Item(p) \in Names /\ Handling(p, run[p], Item(p))
        /\ pc[p] = "quarmove"
    BY <1>27, <1>b DEF QuarantineMove, ItemSteps
  <2>1. slot[run[p]][Item(p)] # None /\ slot \in Holders
    BY <1>a, <2>0 DEF Handling, TypeOK
  <2>2. InSlot(p) \in Objects /\ Item(p) \in Names
    BY <2>0, <2>1 DEF Holders
  <2>3. quar' \in Holders /\ slot' \in Holders
    BY <1>27, <1>a, <2>2 DEF TypeOK, QuarantineMove, Holders
  <2> QED  BY <1>27, <1>a, <2>3 DEF TypeOK, QuarantineMove
<1>28. CASE QuarantineLost(p)
  BY <1>28, <1>a DEF TypeOK, QuarantineLost, NoPlan, Plans
<1>29. CASE NoteQuarantined(p)
  BY <1>29, <1>a, <1>b DEF TypeOK, NoteQuarantined, ItemSteps, Handling, ItemStates, Unsettled
<1>30. CASE CopyManifest(p)
  BY <1>30, <1>a DEF TypeOK, CopyManifest, After
<1>31. CASE DropManifest(p)
  BY <1>31, <1>a DEF TypeOK, DropManifest, ItemStates, Holders
<1>32. CASE KeepRun(p)
  BY <1>32, <1>a DEF TypeOK, KeepRun, RunEnd
<1>33. CASE RemoveRun(p)
  BY <1>33, <1>a DEF TypeOK, RemoveRun, RunEnd
<1>34. CASE End(p)
  BY <1>34, <1>a DEF TypeOK, End, NoPlan, Plans
<1>35. CASE Abort(p)
  BY <1>35, <1>a DEF TypeOK, Abort, NoPlan, Plans
<1> QED
  BY <1>1, <1>2, <1>3, <1>4, <1>5, <1>6, <1>7, <1>8, <1>9, <1>10, <1>11, <1>12, <1>13, <1>14,
     <1>15, <1>16, <1>17, <1>18, <1>19, <1>20, <1>21, <1>22, <1>23, <1>24, <1>25, <1>26,
     <1>27, <1>28, <1>29, <1>30, <1>31, <1>32, <1>33, <1>34, <1>35
     DEF Step, Apply, Take, Delete, Return, Close

LEMMA TypeOthers == Inv /\ Others => TypeOK'
<1> SUFFICES ASSUME Inv, Others PROVE TypeOK'
  OBVIOUS
<1> USE NumbersAssumption, NonePlaced DEF Meddle, Meddled, LeavesLate
<1>a. TypeOK /\ Bodies = {"unborn", "whole", "edited", "partial", "gone"}
  BY DEF Inv, Bodies
<1>1. ASSUME NEW o \in Objects, NEW n \in Names, Save(o, n) PROVE TypeOK'
  BY <1>1, <1>a DEF TypeOK, Save
<1>2. ASSUME NEW n \in Names, Alter(n) PROVE TypeOK'
  BY <1>2, <1>a DEF TypeOK, Alter
<1>3. ASSUME NEW n \in Names, Remove(n) PROVE TypeOK'
  BY <1>3, <1>a DEF TypeOK, Remove
<1>4. ASSUME NEW m \in Names, NEW n \in Names, Rename(m, n) PROVE TypeOK'
  <2>1. saved' \in [Names -> Objects \cup {None}] /\ saved[m] \in Objects
    BY <1>4, <1>a DEF TypeOK, Rename
  <2> QED  BY <1>4, <1>a, <2>1 DEF TypeOK, Rename
<1>5. ASSUME NEW o \in Objects, Mount(o) \/ Quiesce(o) PROVE TypeOK'
  BY <1>5, <1>a DEF TypeOK, Mount, Quiesce
<1>6. ASSUME NEW r \in Runs, Resolve(r) PROVE TypeOK'
  BY <1>6, <1>a DEF TypeOK, Resolve, Holders
<1>7. ASSUME NEW r \in Runs, NEW n \in Names, NEW o \in Objects, Exchange(r, n, o) PROVE TypeOK'
  BY <1>7, <1>a DEF TypeOK, Exchange, Holders
<1> QED  BY <1>1, <1>2, <1>3, <1>4, <1>5, <1>6, <1>7 DEF Others

-----------------------------------------------------------------------------
(* The steps on disk, each told by what it does to one slot.               *)

places == <<saved, slot, quar>>
manifests == <<dir, want, st, made>>

(* A manifest is rewritten with one item's new state.                      *)
LEMMA DiskRecord ==
  ASSUME TypeOK, Disk, NEW r \in Runs, NEW n \in Names, NEW s,
         st' = [st EXCEPT ![r][n] = s], UNCHANGED <<places, body, dir, want, made>>,
         dir[r] = "live",
         slot[r][n] # None =>
           s \in Unsettled /\ (body[slot[r][n]] = "partial" => s = "verified"),
         s = "verified" => /\ Confined(r, n)
                           /\ slot[r][n] = want[r][n] => body[slot[r][n]] # "edited",
         s = "deleted" => st[r][n] = "verified" /\ quar[r][n] = None
  PROVE  Disk'
<1> USE DEF places
<1>1. /\ \A q \in Runs, m \in Names : st'[q][m] = IF q = r /\ m = n THEN s ELSE st[q][m]
  BY DEF TypeOK
<1>2. Apart'
  BY DEF Disk, Apart
<1>3. Filed'
  BY <1>1 DEF Disk, Filed, Unsettled
<1>4. Content'
  BY <1>1 DEF Disk, Content
<1>5. Confinement'
  <2>1. \A q \in Runs, m \in Names : Confined(q, m)' <=> Confined(q, m)
    BY DEF Confined
  <2> QED  BY <1>1, <2>1 DEF Disk, Confinement
<1> QED  BY <1>2, <1>3, <1>4, <1>5 DEF Disk

LEMMA DiskStill ==
  ASSUME Disk, UNCHANGED <<places, body, manifests>>
  PROVE  Disk'
BY DEF Disk, Apart, Filed, Content, Confinement, Confined, places, manifests

(* A new run directory, its manifest, its end.                             *)
LEMMA DiskMakeRun ==
  ASSUME TypeOK, Disk, made < MaxRuns, made' = made + 1,
         dir' = [dir EXCEPT ![made'] = "bare"], UNCHANGED <<places, body, want, st>>
  PROVE  Disk'
<1> USE DEF places
<1>1. made + 1 \in Runs /\ dir[made + 1] = "none"
  BY NumbersAssumption DEF TypeOK, Runs, Disk, Filed
<1>2. Filed'
  BY <1>1, NumbersAssumption DEF TypeOK, Runs, Disk, Filed
<1>3. Apart' /\ Content' /\ Confinement'
  BY DEF Disk, Apart, Content, Confinement, Confined
<1> QED  BY <1>2, <1>3 DEF Disk

LEMMA DiskManifest ==
  ASSUME TypeOK, Disk, NEW r \in Runs, r <= made, dir[r] = "bare",
         dir' = [dir EXCEPT ![r] = "live"],
         NEW w \in [Names -> Objects \cup {None}], want' = [want EXCEPT ![r] = w],
         NEW s \in [Names -> {"intent", "none"}], st' = [st EXCEPT ![r] = s],
         \A n \in Names : w[n] # None => body[w[n]] # "unborn",
         UNCHANGED <<places, body, made>>
  PROVE  Disk'
<1> USE DEF places
<1>1. /\ \A q \in Runs : st'[q] = (IF q = r THEN s ELSE st[q])
      /\ \A q \in Runs : want'[q] = (IF q = r THEN w ELSE want[q])
      /\ \A q \in Runs : dir'[q] = (IF q = r THEN "live" ELSE dir[q])
  BY DEF TypeOK, Holders
<1>2. \A n \in Names : slot[r][n] = None
  BY DEF Disk, Filed
<1>3. Apart'
  BY DEF Disk, Apart
<1>4. Filed'
  <2>1. ~ (r > made)
    BY NumbersAssumption DEF TypeOK, Runs
  <2> QED  BY <1>1, <1>2, <2>1 DEF Disk, Filed
<1>5. Content'
  BY <1>1, <1>2 DEF Disk, Content
<1>6. Confinement'
  BY <1>1 DEF Disk, Confinement, Confined
<1> QED  BY <1>3, <1>4, <1>5, <1>6 DEF Disk

LEMMA DiskDrop ==
  ASSUME TypeOK, Disk, NEW r \in Runs, r <= made, \A n \in Names : slot[r][n] = None,
         dir' = [dir EXCEPT ![r] = "bare"],
         want' = [want EXCEPT ![r] = [n \in Names |-> None]],
         st' = [st EXCEPT ![r] = [n \in Names |-> "none"]],
         UNCHANGED <<places, body, made>>
  PROVE  Disk'
<1> USE DEF places
<1>1. /\ \A q \in Runs, n \in Names : st'[q][n] = (IF q = r THEN "none" ELSE st[q][n])
      /\ \A q \in Runs, n \in Names : want'[q][n] = (IF q = r THEN None ELSE want[q][n])
      /\ \A q \in Runs : dir'[q] = (IF q = r THEN "bare" ELSE dir[q])
  BY DEF TypeOK, Holders
<1>2. ~ (r > made)
  BY NumbersAssumption DEF TypeOK, Runs
<1>3. Apart'
  BY DEF Disk, Apart
<1>4. Filed'
  BY <1>1, <1>2 DEF Disk, Filed
<1>5. Content'
  BY <1>1 DEF Disk, Content
<1>6. Confinement'
  BY <1>1 DEF Disk, Confinement, Confined
<1> QED  BY <1>3, <1>4, <1>5, <1>6 DEF Disk

LEMMA DiskRemoveRun ==
  ASSUME TypeOK, Disk, NEW r \in Runs, dir[r] = "bare", dir' = [dir EXCEPT ![r] = "none"],
         UNCHANGED <<places, body, want, st, made>>
  PROVE  Disk'
<1> USE DEF places
<1>1. \A q \in Runs : dir'[q] = (IF q = r THEN "none" ELSE dir[q])
  BY DEF TypeOK
<1>2. Filed'
  BY <1>1 DEF Disk, Filed
<1> QED  BY <1>2 DEF Disk, Apart, Content, Confinement, Confined

(* The renames into a slot, back to the name, and into the quarantine.     *)
LEMMA DiskMove ==
  ASSUME TypeOK, Disk, NEW r \in Runs, NEW n \in Names,
         saved[n] # None, slot[r][n] = None, quar[r][n] = None, st[r][n] = "intent",
         slot' = [slot EXCEPT ![r][n] = saved[n]], saved' = [saved EXCEPT ![n] = None],
         UNCHANGED <<quar, body, manifests>>
  PROVE  Disk'
<1> USE DEF manifests
<1>1. \A q \in Runs, m \in Names : slot'[q][m] = IF q = r /\ m = n THEN saved[n] ELSE slot[q][m]
  BY DEF TypeOK, Holders
<1>2. \A m \in Names : saved'[m] = IF m = n THEN None ELSE saved[m]
  BY DEF TypeOK
<1>3. Apart'
  BY <1>1, <1>2 DEF Disk, Apart
<1>4. Filed'
  BY <1>1 DEF Disk, Filed, Unsettled
<1>5. Content'
  BY <1>1, <1>2 DEF Disk, Content
<1>6. Confinement'
  <2>1. ASSUME NEW q \in Runs, NEW m \in Names, st[q][m] \in {"verified", "deleted"}
        PROVE  Confined(q, m)'
    <3>1. Confined(q, m) /\ want[q][m] # None
      BY <2>1 DEF Disk, Confinement, TypeOK
    <3> QED  BY <1>1, <1>2, <3>1 DEF Confined
  <2> QED  BY <2>1 DEF Confinement
<1> QED  BY <1>3, <1>4, <1>5, <1>6 DEF Disk

LEMMA DiskPutBack ==
  ASSUME TypeOK, Disk, NEW r \in Runs, NEW n \in Names,
         saved[n] = None, slot[r][n] # None, st[r][n] \in {"intent", "captured"},
         saved' = [saved EXCEPT ![n] = slot[r][n]], slot' = [slot EXCEPT ![r][n] = None],
         UNCHANGED <<quar, body, manifests>>
  PROVE  Disk'
<1> USE DEF manifests
<1>1. \A q \in Runs, m \in Names : slot'[q][m] = IF q = r /\ m = n THEN None ELSE slot[q][m]
  BY DEF TypeOK, Holders
<1>2. \A m \in Names : saved'[m] = IF m = n THEN slot[r][n] ELSE saved[m]
  BY DEF TypeOK
<1>3. Apart'
  BY <1>1, <1>2 DEF Disk, Apart
<1>4. Filed'
  BY <1>1 DEF Disk, Filed
<1>5. Content'
  BY <1>1, <1>2 DEF Disk, Content
<1>6. Confinement'
  <2>1. ASSUME NEW q \in Runs, NEW m \in Names, st[q][m] \in {"verified", "deleted"}
        PROVE  Confined(q, m)'
    <3>1. Confined(q, m) /\ want[q][m] # None /\ ~ (q = r /\ m = n)
      BY <2>1 DEF Disk, Confinement, TypeOK
    <3> QED  BY <1>1, <1>2, <3>1 DEF Confined
  <2> QED  BY <2>1 DEF Confinement
<1> QED  BY <1>3, <1>4, <1>5, <1>6 DEF Disk

LEMMA DiskSetAside ==
  ASSUME TypeOK, Disk, NEW r \in Runs, NEW n \in Names, slot[r][n] # None,
         quar' = [quar EXCEPT ![r][n] = slot[r][n]], slot' = [slot EXCEPT ![r][n] = None],
         UNCHANGED <<saved, body, manifests>>
  PROVE  Disk'
<1> USE DEF manifests
<1>1. \A q \in Runs, m \in Names : slot'[q][m] = IF q = r /\ m = n THEN None ELSE slot[q][m]
  BY DEF TypeOK, Holders
<1>2. \A q \in Runs, m \in Names :
        quar'[q][m] = IF q = r /\ m = n THEN slot[r][n] ELSE quar[q][m]
  BY DEF TypeOK, Holders
<1>3. Apart'
  BY <1>1, <1>2 DEF Disk, Apart
<1>4. Filed'
  BY <1>1, <1>2 DEF Disk, Filed, Unsettled
<1>5. Content'
  BY <1>1, <1>2 DEF Disk, Content
<1>6. Confinement'
  <2>1. ASSUME NEW q \in Runs, NEW m \in Names, st[q][m] \in {"verified", "deleted"}
        PROVE  Confined(q, m)'
    <3>1. Confined(q, m) /\ want[q][m] # None
      BY <2>1 DEF Disk, Confinement, TypeOK
    <3> QED  BY <1>1, <1>2, <3>1 DEF Confined
  <2> QED  BY <2>1 DEF Confinement
<1> QED  BY <1>3, <1>4, <1>5, <1>6 DEF Disk

(* The erasure begins and ends.                                            *)
LEMMA DiskStartErase ==
  ASSUME TypeOK, Disk, NEW r \in Runs, NEW n \in Names, slot[r][n] # None,
         slot[r][n] = want[r][n], st[r][n] = "verified",
         body' = [body EXCEPT ![slot[r][n]] = "partial"], UNCHANGED <<places, manifests>>
  PROVE  Disk'
<1> USE DEF places, manifests
<1>1. \A o \in Objects : body'[o] = IF o = slot[r][n] THEN "partial" ELSE body[o]
  BY DEF TypeOK
<1>2. Content'
  BY <1>1 DEF Disk, Apart, Content, TypeOK, Holders
<1> QED  BY <1>2 DEF Disk, Apart, Filed, Confinement, Confined

LEMMA DiskErase ==
  ASSUME TypeOK, Disk, NEW r \in Runs, NEW n \in Names, slot[r][n] # None,
         body' = [body EXCEPT ![slot[r][n]] = "gone"], slot' = [slot EXCEPT ![r][n] = None],
         UNCHANGED <<saved, quar, manifests>>
  PROVE  Disk'
<1> USE DEF manifests
<1>1. \A o \in Objects : body'[o] = IF o = slot[r][n] THEN "gone" ELSE body[o]
  BY DEF TypeOK
<1>2. \A q \in Runs, m \in Names : slot'[q][m] = IF q = r /\ m = n THEN None ELSE slot[q][m]
  BY DEF TypeOK, Holders
<1>3. Apart'
  BY <1>2 DEF Disk, Apart
<1>4. Filed'
  BY <1>2 DEF Disk, Filed
<1>5. Content'
  BY <1>1, <1>2 DEF Disk, Apart, Content, TypeOK, Holders
<1>6. Confinement'
  <2>1. ASSUME NEW q \in Runs, NEW m \in Names, st[q][m] \in {"verified", "deleted"}
        PROVE  Confined(q, m)'
    <3>1. Confined(q, m) /\ want[q][m] # None
      BY <2>1 DEF Disk, Confinement, TypeOK
    <3> QED  BY <1>2, <3>1 DEF Confined
  <2> QED  BY <2>1 DEF Confinement
<1> QED  BY <1>3, <1>4, <1>5, <1>6 DEF Disk

(* The owner of the backups, the operator and others.                      *)
LEMMA DiskSave ==
  ASSUME TypeOK, Disk, NEW o \in Objects, NEW n \in Names, Save(o, n)
  PROVE  Apart' /\ Filed' /\ Content'
<1> USE DEF Save, Meddled
<1>1. \A m \in Names : saved'[m] = IF m = n THEN o ELSE saved[m]
  BY DEF TypeOK
<1>2. /\ body'[o] \in {"whole", "edited"}
      /\ \A x \in Objects : x # o => body'[x] = body[x]
  BY DEF TypeOK
<1>3. /\ \A m \in Names : saved[m] # o
      /\ \A r \in Runs, m \in Names : slot[r][m] # o /\ quar[r][m] # o /\ want[r][m] # o
  BY NonePlaced DEF Disk, Content
<1>4. UNCHANGED <<slot, quar, manifests>>
  BY DEF manifests
<1> HIDE DEF Save, Meddled
<1>5. Apart'
  BY <1>1, <1>3, <1>4 DEF Disk, Apart
<1>6. Filed'
  BY <1>4 DEF Disk, Filed, manifests
<1>7. Content'
  <2>1. /\ \A m \in Names : saved[m] # None => body'[saved[m]] = body[saved[m]]
        /\ \A r \in Runs, m \in Names :
             /\ slot[r][m] # None => body'[slot[r][m]] = body[slot[r][m]]
             /\ quar[r][m] # None => body'[quar[r][m]] = body[quar[r][m]]
             /\ want[r][m] # None => body'[want[r][m]] = body[want[r][m]]
    BY <1>2, <1>3 DEF TypeOK, Holders
  <2> QED  BY <1>1, <1>2, <1>4, <2>1 DEF Disk, Content, manifests
<1> QED  BY <1>5, <1>6, <1>7

LEMMA DiskAlter ==
  ASSUME TypeOK, Disk, NEW n \in Names, Alter(n)
  PROVE  Apart' /\ Filed' /\ Content'
<1> USE DEF Alter, Meddled
<1>1. /\ saved[n] \in Objects /\ body'[saved[n]] \in {"whole", "edited"}
      /\ \A x \in Objects : x # saved[n] => body'[x] = body[x]
  BY DEF TypeOK
<1>2. UNCHANGED <<places, manifests>>
  BY DEF places, manifests
<1> HIDE DEF Alter, Meddled
<1>3. Content'
  <2>1. \A r \in Runs, m \in Names : slot[r][m] # saved[n] /\ quar[r][m] # saved[n]
    BY <1>1, NonePlaced DEF Disk, Apart
  <2>2. \A m \in Names : saved[m] # None => body'[saved[m]] \in {"whole", "edited"}
    BY <1>1 DEF TypeOK, Disk, Content
  <2>3. \A r \in Runs, m \in Names :
          /\ slot[r][m] # None => body'[slot[r][m]] = body[slot[r][m]]
          /\ quar[r][m] # None => body'[quar[r][m]] = body[quar[r][m]]
    BY <1>1, <2>1 DEF TypeOK, Holders
  <2>4. \A r \in Runs, m \in Names : want[r][m] # None => body'[want[r][m]] # "unborn"
    BY <1>1 DEF TypeOK, Holders, Disk, Content
  <2> QED  BY <1>2, <2>2, <2>3, <2>4 DEF Disk, Content, places, manifests
<1> QED  BY <1>2, <1>3 DEF Disk, Apart, Filed, places, manifests

LEMMA DiskRename ==
  ASSUME TypeOK, Disk, NEW m \in Names, NEW n \in Names, Rename(m, n)
  PROVE  Apart' /\ Filed' /\ Content'
<1> USE DEF Rename, Meddled
<1>1. /\ saved[m] # None /\ saved[n] = None
      /\ \A x \in Names : saved'[x] = IF x = m THEN None
                                      ELSE IF x = n THEN saved[m] ELSE saved[x]
  BY DEF TypeOK
<1>2. UNCHANGED <<slot, quar, body, manifests>>
  BY DEF manifests
<1> HIDE DEF Rename, Meddled
<1>3. Apart'
  BY <1>1, <1>2 DEF Disk, Apart
<1>4. Filed' /\ Content'
  BY <1>1, <1>2 DEF Disk, Filed, Content, manifests
<1> QED  BY <1>3, <1>4

LEMMA DiskRemove ==
  ASSUME TypeOK, Disk, NEW n \in Names, Remove(n)
  PROVE  Apart' /\ Filed' /\ Content'
<1> USE DEF Remove, Meddled
<1>1. /\ saved[n] \in Objects /\ body'[saved[n]] = "gone"
      /\ \A x \in Objects : x # saved[n] => body'[x] = body[x]
      /\ \A x \in Names : saved'[x] = IF x = n THEN None ELSE saved[x]
  BY DEF TypeOK
<1>2. UNCHANGED <<slot, quar, manifests>>
  BY DEF manifests
<1> HIDE DEF Remove, Meddled
<1>3. Apart'
  BY <1>1, <1>2 DEF Disk, Apart
<1>4. Filed'
  BY <1>2 DEF Disk, Filed, manifests
<1>5. Content'
  BY <1>1, <1>2 DEF Disk, Apart, Content, manifests, TypeOK, Holders
<1> QED  BY <1>3, <1>4, <1>5

LEMMA DiskResolve ==
  ASSUME TypeOK, Disk, NEW r \in Runs, Resolve(r)
  PROVE  Apart' /\ Filed' /\ Content'
<1> USE DEF Resolve
<1> DEFINE S == {quar[r][n] : n \in InQuarantine(r)}
<1>1. \A q \in Runs, m \in Names : quar'[q][m] = IF q = r THEN None ELSE quar[q][m]
  BY DEF TypeOK, Holders
<1>2. \A x \in Objects : body'[x] = IF x \in S THEN "gone" ELSE body[x]
  OBVIOUS
<1>3. /\ \A n \in Names : saved[n] \notin S
      /\ \A q \in Runs, n \in Names : slot[q][n] \notin S
  BY DEF InQuarantine, Disk, Apart
<1>4. \A q \in Runs, n \in Names : q # r => quar[q][n] \notin S
  BY DEF InQuarantine, Disk, Apart
<1>5. UNCHANGED <<saved, slot, manifests>>
  BY DEF manifests
<1> HIDE DEF Resolve, S
<1>6. Apart'
  BY <1>1, <1>5 DEF Disk, Apart
<1>7. Filed'
  BY <1>1, <1>5 DEF Disk, Filed, manifests
<1>8. Content'
  BY <1>1, <1>2, <1>3, <1>4, <1>5 DEF Disk, Content, manifests, TypeOK, Holders
<1> QED  BY <1>6, <1>7, <1>8

LEMMA DiskExchange ==
  ASSUME TypeOK, Disk, NEW r \in Runs, NEW n \in Names, NEW o \in Objects, Exchange(r, n, o)
  PROVE  Apart' /\ Filed' /\ Content'
<1> USE DEF Exchange
<1>1. \A q \in Runs, m \in Names : slot'[q][m] = IF q = r /\ m = n THEN o ELSE slot[q][m]
  BY DEF TypeOK, Holders
<1>2. body'[o] = "whole" /\ \A x \in Objects : x # o => body'[x] = body[x]
  BY DEF TypeOK
<1>3. /\ \A m \in Names : saved[m] # o
      /\ \A q \in Runs, m \in Names : slot[q][m] # o /\ quar[q][m] # o /\ want[q][m] # o
  BY NonePlaced DEF Disk, Content
<1>4. UNCHANGED <<saved, quar, manifests>> /\ slot[r][n] # None
  BY DEF manifests
<1> HIDE DEF Exchange
<1>5. Apart'
  BY <1>1, <1>3, <1>4 DEF Disk, Apart
<1>6. Filed'
  BY <1>1, <1>4 DEF Disk, Filed, manifests
<1>7. Content'
  <2>1. /\ \A m \in Names : saved[m] # None => body'[saved[m]] = body[saved[m]]
        /\ \A q \in Runs, m \in Names :
             /\ slot[q][m] # None => body'[slot[q][m]] = body[slot[q][m]]
             /\ quar[q][m] # None => body'[quar[q][m]] = body[quar[q][m]]
             /\ want[q][m] # None => body'[want[q][m]] = body[want[q][m]]
    BY <1>2, <1>3 DEF TypeOK, Holders
  <2> QED  BY <1>1, <1>2, <1>3, <1>4, <2>1 DEF Disk, Content, manifests
<1> QED  BY <1>5, <1>6, <1>7

LEMMA ConfinedOthers ==
  ASSUME TypeOK, Disk, Others, NEW r \in Runs, NEW x \in Names, want[r][x] # None, Confined(r, x)
  PROVE  Confined(r, x)'
<1> USE DEF Meddled
<1>a. body[want[r][x]] # "unborn" /\ saved \in [Names -> Objects \cup {None}]
      /\ slot \in Holders /\ quar \in Holders
  BY DEF Disk, Content, TypeOK
<1>1. ASSUME NEW o \in Objects, NEW n \in Names, Save(o, n) PROVE Confined(r, x)'
  BY <1>1, <1>a DEF Save, Confined
<1>2. ASSUME NEW n \in Names, Alter(n) \/ Remove(n) PROVE Confined(r, x)'
  BY <1>2, <1>a DEF Alter, Remove, Confined
<1>3. ASSUME NEW m \in Names, NEW n \in Names, Rename(m, n) PROVE Confined(r, x)'
  BY <1>3, <1>a DEF Rename, Confined
<1>4. ASSUME NEW o \in Objects, Mount(o) \/ Quiesce(o) PROVE Confined(r, x)'
  BY <1>4 DEF Mount, Quiesce, Confined
<1>5. ASSUME NEW q \in Runs, Resolve(q) PROVE Confined(r, x)'
  BY <1>5, <1>a DEF Resolve, Confined, Holders
<1>6. ASSUME NEW q \in Runs, NEW n \in Names, NEW o \in Objects, Exchange(q, n, o)
      PROVE  Confined(r, x)'
  BY <1>6, <1>a DEF Exchange, Confined, Holders
<1> QED  BY <1>1, <1>2, <1>3, <1>4, <1>5, <1>6 DEF Others

LEMMA DiskOthers == Inv /\ Others => Disk'
<1> SUFFICES ASSUME Inv, Others PROVE Disk'
  OBVIOUS
<1>a. TypeOK /\ Disk
  BY DEF Inv
<1>1. UNCHANGED manifests
  BY DEF Others, Save, Alter, Remove, Rename, Mount, Quiesce, Resolve, Exchange, Meddled,
         manifests
<1>2. Confinement'
  <2>1. \A r \in Runs, n \in Names : st[r][n] \in {"verified", "deleted"} =>
          Confined(r, n) /\ want[r][n] # None
    BY <1>a DEF Disk, Confinement, TypeOK
  <2> QED  BY <1>a, <1>1, <2>1, ConfinedOthers DEF Confinement, manifests
<1>3. ASSUME NEW o \in Objects, Mount(o) \/ Quiesce(o) PROVE Apart' /\ Filed' /\ Content'
  BY <1>3, <1>a, DiskStill DEF Disk, Mount, Quiesce, Meddled, places, manifests
<1>4. Apart' /\ Filed' /\ Content'
  BY <1>a, <1>3, DiskSave, DiskAlter, DiskRename, DiskRemove, DiskResolve, DiskExchange
     DEF Others
<1> QED  BY <1>2, <1>4 DEF Disk

-----------------------------------------------------------------------------
(* The steps of a pruner.                                                  *)

(* It holds the lock, but for the review, the taking and the leaving.      *)
Works(p) ==
  \/ RecoverRun(p) \/ RecoverItem(p) \/ Sweep(p) \/ MakeRun(p) \/ WriteIntent(p) \/ Take(p)
  \/ Delete(p)
  \/ Settle(p) \/ PutBack(p) \/ PutBackFails(p) \/ NoteRestored(p) \/ MakeQuarantine(p)
  \/ QuarantineMove(p) \/ NoteQuarantined(p) \/ CopyManifest(p)
  \/ DropManifest(p) \/ KeepRun(p) \/ RemoveRun(p)

LEMMA Turns ==
  ASSUME NEW p \in Pruners, Step(p) \/ Abort(p)
  PROVE  \/ Review(p) \/ TakeLock(p) \/ Works(p)
         \/ Leave(p) /\ UNCHANGED <<trees, records>>
BY DEF Step, Apply, Return, Close, Works, LockBusy, StopFresh, QuarantineLost, End, Abort

(* One pruner moves at a time; the plans stay.                             *)
Alone(p) ==
  /\ \A q \in Pruners : q # p =>
       /\ pc'[q] = pc[q] /\ mode'[q] = mode[q] /\ run'[q] = run[q] /\ left'[q] = left[q]
       /\ queue'[q] = queue[q] /\ plan'[q] = plan[q]
  /\ \A q \in Pruners : late'[q] = late[q] \/ q = p

LEMMA WorksAlone ==
  ASSUME TypeOK, NEW p \in Pruners, Works(p)
  PROVE  /\ Alone(p) /\ lock' = lock /\ plan' = plan /\ Working(p) /\ Working(p)'
         /\ late'[p] = late[p] \/ Recheck(p)
<1> USE DEF Alone, TypeOK, Working
<1>1. CASE RecoverRun(p)
  BY <1>1 DEF RecoverRun
<1>2. CASE RecoverItem(p)
  BY <1>2 DEF RecoverItem
<1>3. CASE Sweep(p) \/ MakeRun(p) \/ WriteIntent(p)
  BY <1>3 DEF Sweep, MakeRun, WriteIntent
<1>4. CASE Take(p)
  <2>1. CASE CheckKept(p)
    BY <2>1 DEF CheckKept
  <2>2. CASE Move(p)
    BY <2>2 DEF Move
  <2>3. CASE MoveBusy(p)
    BY <2>3 DEF MoveBusy
  <2>4. CASE NoteCaptured(p) \/ Verify(p)
    BY <2>4 DEF NoteCaptured, Verify
  <2>5. CASE Recheck(p) \/ Seal(p)
    BY <2>5 DEF Recheck, Seal
  <2> QED  BY <1>4, <2>1, <2>2, <2>3, <2>4, <2>5 DEF Take
<1>5. CASE Delete(p)
  <2>1. CASE StartErase(p) \/ Erase(p)
    BY <2>1 DEF StartErase, Erase
  <2>2. CASE RefuseErase(p)
    BY <2>2 DEF RefuseErase
  <2>3. CASE EraseFails(p) \/ NoteDeleted(p)
    BY <2>3 DEF EraseFails, NoteDeleted
  <2> QED  BY <1>5, <2>1, <2>2, <2>3 DEF Delete
<1>6. CASE Settle(p) \/ PutBack(p) \/ PutBackFails(p) \/ NoteRestored(p)
  BY <1>6 DEF Settle, PutBack, PutBackFails, NoteRestored
<1>7. CASE MakeQuarantine(p) \/ QuarantineMove(p)
  BY <1>7 DEF MakeQuarantine, QuarantineMove
<1>8. CASE NoteQuarantined(p) \/ CopyManifest(p)
  BY <1>8 DEF NoteQuarantined, CopyManifest
<1>9. CASE DropManifest(p) \/ KeepRun(p) \/ RemoveRun(p)
  BY <1>9 DEF DropManifest, KeepRun, RemoveRun, RunEnd
<1> QED  BY <1>1, <1>2, <1>3, <1>4, <1>5, <1>6, <1>7, <1>8, <1>9 DEF Works

(* The lock.                                                               *)
LEMMA LockSteps ==
  ASSUME Inv, NEW p \in Pruners, Step(p) \/ Abort(p)
  PROVE  LockHeld'
<1>a. TypeOK /\ LockHeld
  BY DEF Inv
<1>1. CASE Review(p)
  BY <1>1, <1>a DEF Review, LockHeld, Working, TypeOK
<1>2. CASE TakeLock(p)
  BY <1>2, <1>a, NonePlaced DEF TakeLock, LockHeld, Working, TypeOK
<1>3. CASE Leave(p)
  BY <1>3, <1>a DEF LockHeld, Working, TypeOK
<1>4. CASE Works(p)
  BY <1>4, <1>a, WorksAlone DEF LockHeld, Working, Alone
<1> QED  BY <1>1, <1>2, <1>3, <1>4, Turns

LEMMA LockOthers == Inv /\ Others => LockHeld'
BY DEF Inv, LockHeld, Working, Others, Save, Alter, Remove, Rename, Mount, Quiesce, Resolve,
       Exchange, Meddled

(* The disk.                                                               *)
LEMMA MoveSlot ==
  ASSUME Inv, NEW p \in Pruners, Move(p)
  PROVE  /\ slot[run[p]][Item(p)] = None /\ st[run[p]][Item(p)] = "intent"
         /\ \A r \in Runs, n \in Names : quar[r][n] = None
<1>1. /\ pc[p] = "move" /\ mode[p] = "capture" /\ Item(p) \in left[p]
      /\ Ahead(p) /\ Clean(p)
  BY InHand DEF Move, ItemSteps, Inv, Course, Control
<1> QED  BY <1>1 DEF Ahead, Clean

LEMMA DiskWrites ==
  ASSUME Inv, NEW p \in Pruners, MakeRun(p) \/ WriteIntent(p) \/ DropManifest(p) \/ RemoveRun(p)
  PROVE  Disk'
<1>a. TypeOK /\ Disk /\ Control(p)
  BY DEF Inv, Course
<1> USE DEF places
<1>1. CASE MakeRun(p)
  BY <1>1, <1>a, DiskMakeRun DEF MakeRun
<1>2. CASE WriteIntent(p)
  <2>1. run[p] \in Runs /\ run[p] <= made /\ dir[run[p]] = "bare"
    BY <1>2, <1>a DEF WriteIntent, Control, Working
  <2> DEFINE w == [n \in Names |-> IF n \in Candidates(p) THEN Reviewed(p, n) ELSE None]
             s == [n \in Names |-> IF n \in Candidates(p) THEN "intent" ELSE "none"]
  <2>2. \A n \in Candidates(p) : /\ Reviewed(p, n) \in Objects
                                 /\ body[Reviewed(p, n)] # "unborn"
    <3> TAKE n \in Candidates(p)
    <3>1. Reviewed(p, n) \in Objects /\ <<n, Reviewed(p, n)>> \in plan[p].acts
      BY <1>a, ReviewedPair
    <3> QED  BY <3>1 DEF Inv, PlansBorn
  <2>3. /\ w \in [Names -> Objects \cup {None}] /\ s \in [Names -> {"intent", "none"}]
        /\ \A n \in Names : w[n] # None => body[w[n]] # "unborn"
    BY <2>2
  <2>4. /\ want' = [want EXCEPT ![run[p]] = w] /\ st' = [st EXCEPT ![run[p]] = s]
        /\ dir' = [dir EXCEPT ![run[p]] = "live"] /\ UNCHANGED <<places, body, made>>
    BY <1>2 DEF WriteIntent
  <2> HIDE DEF w, s
  <2> QED  BY <1>a, <2>1, <2>3, <2>4, DiskManifest
<1>3. CASE DropManifest(p)
  <2>1. run[p] \in Runs /\ run[p] <= made
    BY <1>3, <1>a DEF DropManifest, Control, Working
  <2> QED  BY <1>3, <1>a, <2>1, DiskDrop DEF DropManifest
<1>4. CASE RemoveRun(p)
  <2>1. run[p] \in Runs /\ dir[run[p]] = "bare"
    BY <1>4, <1>a DEF RemoveRun, Control
  <2> QED  BY <1>4, <1>a, <2>1, DiskRemoveRun DEF RemoveRun
<1> QED  BY <1>1, <1>2, <1>3, <1>4

LEMMA DiskRecords ==
  ASSUME Inv, NEW p \in Pruners,
         \/ RecoverItem(p) \/ NoteCaptured(p) \/ Seal(p) \/ RefuseErase(p) \/ NoteDeleted(p)
         \/ NoteRestored(p) \/ NoteQuarantined(p)
  PROVE  Disk'
<1>a. TypeOK /\ Disk /\ Control(p)
  BY DEF Inv, Course
<1> USE DEF places
<1>1. CASE RecoverItem(p)
  <2>1. run[p] \in Runs /\ Item(p) \in Names /\ dir[run[p]] = "live"
    BY <1>1, <1>a, ItemLeft DEF RecoverItem, Control
  <2>2. CASE st' = st
    BY <1>1, <1>a, <2>2, DiskStill DEF RecoverItem, manifests
  <2>3. CASE st' # st
    <3>1. /\ st[run[p]][Item(p)] = "verified" /\ slot[run[p]][Item(p)] = None
          /\ quar[run[p]][Item(p)] = None
          /\ st' = [st EXCEPT ![run[p]][Item(p)] = "deleted"]
          /\ UNCHANGED <<places, body, dir, want, made>>
      BY <1>1, <2>3 DEF RecoverItem, Unsettled
    <3> QED  BY <1>a, <2>1, <3>1, DiskRecord
  <2> QED  BY <2>2, <2>3
<1>b. CASE pc[p] \in ItemSteps
  <2> DEFINE r == run[p]
             n == Item(p)
  <2>a. r \in Runs /\ n \in Names /\ dir[r] = "live" /\ Handling(p, r, n)
    BY <1>b, InHand
  <2>b. slot[r][n] # None /\ body[slot[r][n]] = "partial" =>
          st[r][n] = "verified" /\ slot[r][n] = want[r][n]
    BY <1>a, <2>a DEF Disk, Content
  <2>c. ASSUME NEW s, st' = [st EXCEPT ![r][n] = s], UNCHANGED <<places, body, dir, want, made>>,
               slot[r][n] # None =>
                 s \in Unsettled /\ (body[slot[r][n]] = "partial" => s = "verified"),
               s = "verified" => /\ Confined(r, n)
                                 /\ slot[r][n] = want[r][n] => body[slot[r][n]] # "edited",
               s = "deleted" => st[r][n] = "verified" /\ quar[r][n] = None
        PROVE  Disk'
    BY <1>a, <2>a, <2>c, DiskRecord
  <2> USE DEF Unsettled
  <2>1. CASE NoteCaptured(p)
    BY <2>1, <2>a, <2>b, <2>c DEF NoteCaptured, Handling
  <2>2. CASE Seal(p)
    BY <2>2, <2>a, <2>b, <2>c DEF Seal, Handling
  <2>3. CASE RefuseErase(p)
    <3>1. CASE st' = st
      BY <2>3, <1>a, <3>1, DiskStill DEF RefuseErase, manifests
    <3>2. CASE st' = [st EXCEPT ![r][n] = "captured"] /\ slot[r][n] # want[r][n]
      BY <2>3, <2>a, <2>b, <2>c, <3>2 DEF RefuseErase
    <3> QED  BY <2>3, <3>1, <3>2 DEF RefuseErase
  <2>4. CASE NoteDeleted(p)
    BY <2>4, <2>a, <2>c DEF NoteDeleted, Handling
  <2>5. CASE NoteRestored(p)
    BY <2>5, <2>a, <2>c DEF NoteRestored, Handling
  <2>6. CASE NoteQuarantined(p)
    BY <2>6, <2>a, <2>c DEF NoteQuarantined, Handling
  <2> QED  BY <1>1, <2>1, <2>2, <2>3, <2>4, <2>5, <2>6
<1>2. RecoverItem(p) \/ pc[p] \in ItemSteps
  BY DEF ItemSteps, NoteCaptured, Seal, RefuseErase, NoteDeleted, NoteRestored, NoteQuarantined
<1> QED  BY <1>1, <1>b, <1>2

LEMMA DiskRenames ==
  ASSUME Inv, NEW p \in Pruners,
         Move(p) \/ StartErase(p) \/ Erase(p) \/ PutBack(p) \/ QuarantineMove(p)
  PROVE  Disk'
<1> DEFINE r == run[p]
           n == Item(p)
<1>a. TypeOK /\ Disk
  BY DEF Inv
<1>b. pc[p] \in ItemSteps
  BY DEF ItemSteps, Move, StartErase, Erase, PutBack, QuarantineMove
<1>c. r \in Runs /\ n \in Names /\ dir[r] = "live" /\ Handling(p, r, n)
  BY <1>b, InHand
<1> USE DEF places, manifests
<1>1. CASE Move(p)
  BY <1>1, <1>a, <1>c, MoveSlot, DiskMove DEF Move
<1>2. CASE StartErase(p)
  BY <1>2, <1>a, <1>c, DiskStartErase DEF StartErase, Handling
<1>3. CASE Erase(p)
  BY <1>3, <1>a, <1>c, DiskErase DEF Erase, Handling
<1>4. CASE PutBack(p)
  BY <1>4, <1>a, <1>c, DiskPutBack DEF PutBack, Handling
<1>5. CASE QuarantineMove(p)
  BY <1>5, <1>a, <1>c, DiskSetAside DEF QuarantineMove, Handling
<1> QED  BY <1>1, <1>2, <1>3, <1>4, <1>5

LEMMA DiskSteps ==
  ASSUME Inv, NEW p \in Pruners, Step(p) \/ Abort(p)
  PROVE  Disk'
<1>a. Disk
  BY DEF Inv
<1>1. CASE UNCHANGED <<places, body, manifests>>
  BY <1>1, <1>a, DiskStill
<1>2. CASE ~ UNCHANGED <<places, body, manifests>>
  <2>1. \/ MakeRun(p) \/ WriteIntent(p) \/ DropManifest(p) \/ RemoveRun(p)
        \/ RecoverItem(p) \/ NoteCaptured(p) \/ Seal(p) \/ RefuseErase(p) \/ NoteDeleted(p)
        \/ NoteRestored(p) \/ NoteQuarantined(p)
        \/ Move(p) \/ StartErase(p) \/ Erase(p) \/ PutBack(p) \/ QuarantineMove(p)
    BY <1>2, Turns
       DEF Works, Take, Delete, places, manifests, Review, TakeLock, RecoverRun, Sweep,
           CheckKept, MoveBusy, Verify, Recheck, EraseFails, Settle, PutBackFails,
           MakeQuarantine, CopyManifest, KeepRun
  <2> QED  BY <2>1, DiskWrites, DiskRecords, DiskRenames
<1> QED  BY <1>1, <1>2

-----------------------------------------------------------------------------
(* What was born stays born, and plans name what was saved.                *)
LEMMA BornSteps ==
  ASSUME Inv, NEW p \in Pruners, Step(p) \/ Abort(p), NEW o \in Objects, body[o] # "unborn"
  PROVE  body'[o] # "unborn"
<1>a. TypeOK
  BY DEF Inv
<1>1. body' = body \/ StartErase(p) \/ Erase(p)
  BY Turns
     DEF Works, Take, Delete, Review, TakeLock, RecoverRun, RecoverItem, Sweep, MakeRun,
         WriteIntent, CheckKept, Move, MoveBusy, NoteCaptured, Verify, Recheck, Seal,
         RefuseErase, EraseFails, NoteDeleted, Settle, PutBack, PutBackFails, NoteRestored,
         MakeQuarantine, QuarantineMove, NoteQuarantined, CopyManifest, DropManifest,
         KeepRun, RemoveRun
<1> QED  BY <1>1, <1>a DEF StartErase, Erase, TypeOK

LEMMA BornOthers ==
  ASSUME Inv, Others, NEW o \in Objects, body[o] # "unborn"
  PROVE  body'[o] # "unborn"
BY DEF Inv, TypeOK, Others, Save, Alter, Remove, Rename, Mount, Quiesce, Resolve, Exchange,
       Meddled

LEMMA BornPlans ==
  ASSUME Inv, [Next]_vars
  PROVE  PlansBorn'
<1>1. \A o \in Objects : body[o] # "unborn" => body'[o] # "unborn"
  BY BornSteps, BornOthers DEF Next, vars
<1>2. TypeOK /\ Content /\ PlansBorn
  BY DEF Inv, Disk
<1>3. ASSUME NEW p \in Pruners, NEW k \in plan[p].acts
      PROVE  k[2] \in Objects /\ body[k[2]] # "unborn"
  BY <1>2 DEF PlansBorn, TypeOK, Plans, Pairs
<1>4. ASSUME NEW still, NEW k \in PlanOf(still).acts
      PROVE  k[2] \in Objects /\ body[k[2]] # "unborn"
  <2>1. PICK n \in Group : k = <<n, saved[n]>>
    BY <1>4 DEF PlanOf
  <2>2. n \in Names /\ saved[n] \in Objects
    BY <1>2, <2>1 DEF Group, TypeOK
  <2> QED  BY <1>2, <2>1, <2>2, NonePlaced DEF Content
<1>5. \A p \in Pruners :
        plan'[p] = plan[p] \/ plan'[p] = NoPlan \/ \E still : plan'[p] = PlanOf(still)
  <2>1. ASSUME NEW p \in Pruners, Step(p) \/ Abort(p), NEW q \in Pruners
        PROVE  plan'[q] = plan[q] \/ plan'[q] = NoPlan \/ \E still : plan'[q] = PlanOf(still)
    <3>1. CASE Review(p)
      BY <3>1, <1>2 DEF Review, TypeOK
    <3>2. CASE TakeLock(p)
      BY <3>2 DEF TakeLock
    <3>3. CASE Leave(p)
      BY <3>3, <1>2 DEF TypeOK
    <3>4. CASE Works(p)
      BY <3>4, <1>2, WorksAlone
    <3> QED  BY <2>1, <3>1, <3>2, <3>3, <3>4, Turns
  <2>2. Others => plan' = plan
    BY DEF Others, Save, Alter, Remove, Rename, Mount, Quiesce, Resolve, Exchange, Meddled
  <2> QED  BY <2>1, <2>2 DEF Next, vars
<1>6. ASSUME NEW p \in Pruners, NEW k \in plan'[p].acts
      PROVE  k[2] \in Objects /\ body[k[2]] # "unborn"
  BY <1>3, <1>4, <1>5, <1>6 DEF NoPlan
<1> QED  BY <1>1, <1>6 DEF PlansBorn

-----------------------------------------------------------------------------
(* The course of each pruner.                                              *)

(* The step of a working pruner leaves the others where they are.          *)
LEMMA CourseOfOthers ==
  ASSUME Inv, NEW p \in Pruners, Working(p), Alone(p), NEW q \in Pruners, q # p
  PROVE  Course(q)'
<1>1. ~ Working(q) /\ Control(q)
  BY NonePlaced DEF Inv, LockHeld, Course
<1>2. (~ Working(q))' /\ mode'[q] = "recover" /\ left'[q] = {} /\ run'[q] = None
  BY <1>1 DEF Control, Alone, Working
<1> QED
  BY <1>2 DEF Working, Course, Control, Ahead, Swept, Clean, Witnessed, AtItem, ItemSteps

(* One that leaves has nothing in hand.                                    *)
LEMMA CourseGone ==
  ASSUME TypeOK, NEW p \in Pruners, Leave(p)
  PROVE  Course(p)'
<1>1. (~ Working(p))' /\ mode'[p] = "recover" /\ left'[p] = {} /\ run'[p] = None
  BY DEF TypeOK, Working
<1> QED
  BY <1>1 DEF Working, Course, Control, Ahead, Swept, Clean, Witnessed, AtItem, ItemSteps

(* What a working pruner has in hand.                                       *)
LEMMA ControlWorks ==
  ASSUME Inv, NEW p \in Pruners, Works(p)
  PROVE  Control(p)'
<1>a. TypeOK /\ Disk /\ Course(p)
  BY DEF Inv
<1>b. pc[p] \in ItemSteps => /\ run[p] \in Runs /\ Item(p) \in Names /\ Item(p) \in left[p]
                            /\ Handling(p, run[p], Item(p))
  BY InHand
<1>1. CASE RecoverRun(p)
  <2>1. PICK r \in queue[p] :
          /\ queue' = [queue EXCEPT ![p] = @ \ {r}] /\ run' = [run EXCEPT ![p] = r]
          /\ left' = [left EXCEPT ![p] = {n \in Names : st[r][n] # "none"}]
          /\ pc' = [pc EXCEPT ![p] = IF dir[r] = "bare" THEN "rmdir" ELSE "item"]
          /\ pc[p] = "scan" /\ UNCHANGED <<dir, made, mode>>
    BY <1>1 DEF RecoverRun
  <2>2. r \in Runs /\ dir[r] \in {"bare", "live"} /\ mode[p] = "recover"
    BY <1>a, <2>1 DEF Control, Course, Working, TypeOK
  <2>3. ~ (r > made) /\ r \in Nat /\ made \in Nat
    BY <1>a, <2>2, NumbersAssumption DEF Disk, Filed, TypeOK, Runs
  <2>4. r <= made
    BY <2>3
  <2>5. dir[r] = "bare" => left'[p] = {}
    BY <1>a, <2>1, <2>2 DEF Disk, Filed, TypeOK
  <2> QED  BY <1>a, <2>1, <2>2, <2>4, <2>5 DEF Control, Course, Working, ItemSteps, TypeOK
<1>2. CASE RecoverItem(p) \/ Sweep(p)
  BY <1>2, <1>a, <1>b
     DEF Control, Working, ItemSteps, TypeOK, Course, RecoverItem, Sweep, Item
<1>3. CASE MakeRun(p)
  <2>1. made' = made + 1 /\ made' \in Runs
    BY <1>3, <1>a, NumbersAssumption DEF MakeRun, TypeOK, Runs
  <2>2. run'[p] = made' /\ dir'[made'] = "bare" /\ pc'[p] = "intent" /\ mode'[p] = "capture"
        /\ left'[p] = left[p] /\ queue'[p] = queue[p] /\ pc[p] = "fresh"
    BY <1>3, <1>a, <2>1 DEF MakeRun, TypeOK
  <2>3. left[p] = {} /\ queue[p] = {}
    BY <1>a, <2>2 DEF Course, Control
  <2>4. made' <= made'
    BY <2>1 DEF Runs
  <2> QED  BY <2>1, <2>2, <2>3, <2>4 DEF Control, Working, ItemSteps
<1>4. CASE WriteIntent(p)
  BY <1>4, <1>a, <1>b
     DEF Control, Working, ItemSteps, TypeOK, Course, WriteIntent, Item
<1>5. CASE CheckKept(p) \/ Move(p) \/ MoveBusy(p)
  BY <1>5, <1>a, <1>b
     DEF Control, Working, ItemSteps, TypeOK, Course, CheckKept, Move, MoveBusy, Item
<1>6. CASE NoteCaptured(p) \/ Verify(p) \/ Recheck(p) \/ Seal(p)
  BY <1>6, <1>a, <1>b
     DEF Control, Working, ItemSteps, TypeOK, Course, NoteCaptured, Verify, Recheck, Seal,
         Item
<1>7. CASE StartErase(p) \/ RefuseErase(p)
  BY <1>7, <1>a, <1>b
     DEF Control, Working, ItemSteps, TypeOK, Course, StartErase, RefuseErase, Item
<1>8. CASE EraseFails(p) \/ Erase(p) \/ NoteDeleted(p)
  BY <1>8, <1>a, <1>b
     DEF Control, Working, ItemSteps, TypeOK, Course, EraseFails, Erase, NoteDeleted, Item
<1>9. CASE Settle(p) \/ PutBack(p) \/ PutBackFails(p)
  BY <1>9, <1>a, <1>b
     DEF Control, Working, ItemSteps, TypeOK, Course, Settle, PutBack, PutBackFails, Item
<1>10. CASE NoteRestored(p) \/ CopyManifest(p)
  BY <1>10, <1>a, <1>b
     DEF Control, Working, ItemSteps, TypeOK, Course, NoteRestored, CopyManifest, Item,
         After
<1>11. CASE MakeQuarantine(p) \/ QuarantineMove(p) \/ NoteQuarantined(p)
  BY <1>11, <1>a, <1>b
     DEF Control, Working, ItemSteps, TypeOK, Course, MakeQuarantine, QuarantineMove,
         NoteQuarantined, Item
<1>12. CASE DropManifest(p) \/ KeepRun(p) \/ RemoveRun(p)
  BY <1>12, <1>a, <1>b
     DEF Control, Working, ItemSteps, TypeOK, Course, DropManifest, KeepRun, RemoveRun,
         Item, RunEnd
<1> QED  BY <1>1, <1>2, <1>3, <1>4, <1>5, <1>6, <1>7, <1>8, <1>9, <1>10, <1>11, <1>12 DEF
             Works, Take, Delete

(* The items a capture has not begun with.                                  *)
LEMMA AheadWorks ==
  ASSUME Inv, NEW p \in Pruners, Works(p)
  PROVE  Ahead(p)'
<1>a. TypeOK /\ Disk /\ Course(p)
  BY DEF Inv
<1>b. pc[p] \in ItemSteps => /\ run[p] \in Runs /\ Item(p) \in Names /\ Item(p) \in left[p]
                            /\ Handling(p, run[p], Item(p))
  BY InHand
<1>1. CASE RecoverRun(p) \/ RecoverItem(p) \/ Sweep(p) \/ MakeRun(p)
  BY <1>1, <1>a, <1>b
     DEF Ahead, Control, TypeOK, Course, ItemSteps, RecoverRun, RecoverItem, Sweep, MakeRun,
         Item
<1>2. CASE WriteIntent(p)
  <2>1. run[p] \in Runs /\ mode[p] = "capture" /\ dir[run[p]] = "bare"
    BY <1>2, <1>a DEF WriteIntent, Course, Control
  <2>2. \A n \in left'[p] : n \in Names /\ st'[run[p]][n] = "intent"
    BY <1>2, <1>a, <2>1 DEF WriteIntent, Candidates, TypeOK
  <2>3. \A n \in Names : slot[run[p]][n] = None
    BY <1>a, <2>1 DEF Disk, Filed
  <2>4. run'[p] = run[p] /\ slot' = slot
    BY <1>2 DEF WriteIntent
  <2> QED  BY <2>2, <2>3, <2>4 DEF Ahead
<1>3. CASE CheckKept(p) \/ MoveBusy(p)
  BY <1>3, <1>a, <1>b
     DEF Ahead, Control, TypeOK, Course, ItemSteps, CheckKept, MoveBusy, Item
<1>4. CASE Move(p)
  BY <1>4, <1>a, <1>b
     DEF Ahead, Control, TypeOK, Course, ItemSteps, Move, Item
<1>5. CASE NoteCaptured(p) \/ Verify(p) \/ Recheck(p) \/ Seal(p)
  BY <1>5, <1>a, <1>b
     DEF Ahead, Control, TypeOK, Course, ItemSteps, NoteCaptured, Verify, Recheck, Seal,
         Item
<1>6. CASE StartErase(p) \/ RefuseErase(p) \/ EraseFails(p) \/ NoteDeleted(p)
  BY <1>6, <1>a, <1>b
     DEF Ahead, Control, TypeOK, Course, ItemSteps, StartErase, RefuseErase, EraseFails,
         NoteDeleted, Item
<1>7. CASE Erase(p)
  <2>1. /\ \A n \in Names : slot'[run[p]][n] = None \/ slot'[run[p]][n] = slot[run[p]][n]
        /\ left' = left /\ run' = run /\ st' = st /\ mode' = mode /\ pc'[p] = "erased"
        /\ pc[p] = "erasing"
    BY <1>7, <1>a DEF Erase, TypeOK, Holders
  <2>2. Item(p)' = Item(p) /\ left[p] \subseteq Names
    BY <1>a, <2>1 DEF Item, TypeOK
  <2> QED  BY <1>a, <2>1, <2>2 DEF Ahead, Course
<1>8. CASE Settle(p) \/ PutBackFails(p)
  BY <1>8, <1>a, <1>b
     DEF Ahead, Control, TypeOK, Course, ItemSteps, Settle, PutBackFails, Item
<1>9. CASE PutBack(p)
  BY <1>9, <1>a, <1>b
     DEF Ahead, Control, TypeOK, Course, ItemSteps, PutBack, Item
<1>10. CASE NoteRestored(p) \/ CopyManifest(p)
  BY <1>10, <1>a, <1>b
     DEF Ahead, Control, TypeOK, Course, ItemSteps, NoteRestored, CopyManifest, Item, After
<1>11. CASE MakeQuarantine(p) \/ NoteQuarantined(p)
  BY <1>11, <1>a, <1>b
     DEF Ahead, Control, TypeOK, Course, ItemSteps, MakeQuarantine, NoteQuarantined, Item
<1>12. CASE QuarantineMove(p)
  BY <1>12, <1>a, <1>b
     DEF Ahead, Control, TypeOK, Course, ItemSteps, QuarantineMove, Item
<1>13. CASE DropManifest(p) \/ KeepRun(p) \/ RemoveRun(p)
  BY <1>13, <1>a, <1>b
     DEF Ahead, Control, TypeOK, Course, ItemSteps, DropManifest, KeepRun, RemoveRun, Item,
         RunEnd
<1> QED  BY <1>1, <1>2, <1>3, <1>4, <1>5, <1>6, <1>7, <1>8, <1>9, <1>10, <1>11, <1>12, <1>13
             DEF Works, Take, Delete

(* The sweep of a recovery.                                                 *)
LEMMA SweptWorks ==
  ASSUME Inv, NEW p \in Pruners, Works(p)
  PROVE  Swept(p)'
<1>a. TypeOK /\ Disk /\ Course(p)
  BY DEF Inv
<1>b. pc[p] \in ItemSteps => /\ run[p] \in Runs /\ Item(p) \in Names /\ Item(p) \in left[p]
                            /\ Handling(p, run[p], Item(p))
  BY InHand
<1>1. CASE RecoverRun(p)
  BY <1>1, <1>a, <1>b
     DEF Swept, Awaiting, Control, Working, Unsettled, TypeOK, Course, ItemSteps,
         RecoverRun, Item
<1>2. CASE RecoverItem(p)
  <2>1. CASE UNCHANGED <<st, left>>
    BY <1>2, <1>a, <2>1, WorksAlone DEF RecoverItem, Swept, Awaiting, Course
  <2>2. CASE ~ UNCHANGED <<st, left>>
    <3> DEFINE r == run[p]
               n == Item(p)
    <3>1. /\ r \in Runs /\ n \in Names /\ Swept(p) /\ Working(p)
      BY <1>2, <1>a, ItemLeft, WorksAlone DEF RecoverItem, Course, Control
    <3>2. /\ left' = [left EXCEPT ![p] = @ \ {n}]
          /\ st' = (IF st[r][n] = "verified" THEN [st EXCEPT ![r][n] = "deleted"] ELSE st)
          /\ ~ (st[r][n] \in Unsettled /\ quar[r][n] # None)
          /\ UNCHANGED <<dir, mode, run, slot, quar, queue>>
      BY <1>2, <2>2 DEF RecoverItem
    <3>3. \A q \in Runs, m \in Names :
            \/ st'[q][m] = st[q][m] /\ (q # r \/ m # n)
            \/ quar[q][m] = None \/ st'[q][m] \notin Unsettled
      BY <1>a, <3>1, <3>2 DEF TypeOK, Unsettled
    <3>4. left'[p] = left[p] \ {n}
      BY <1>a, <3>2 DEF TypeOK
    <3> QED  BY <3>1, <3>2, <3>3, <3>4 DEF Swept, Awaiting
  <2> QED  BY <2>1, <2>2
<1>3. CASE Sweep(p) \/ MakeRun(p) \/ WriteIntent(p)
  BY <1>3, <1>a, <1>b
     DEF Swept, Awaiting, Control, Working, Unsettled, TypeOK, Course, ItemSteps, Sweep,
         MakeRun, WriteIntent, Item
<1>4. CASE CheckKept(p) \/ Move(p) \/ MoveBusy(p)
  BY <1>4, <1>a, <1>b
     DEF Swept, Awaiting, Control, Working, Unsettled, TypeOK, Course, ItemSteps, CheckKept,
         Move, MoveBusy, Item
<1>5. CASE NoteCaptured(p) \/ Verify(p) \/ Recheck(p) \/ Seal(p)
  BY <1>5, <1>a, <1>b
     DEF Swept, Awaiting, Control, Working, Unsettled, TypeOK, Course, ItemSteps,
         NoteCaptured, Verify, Recheck, Seal, Item
<1>6. CASE StartErase(p) \/ RefuseErase(p)
  BY <1>6, <1>a, <1>b
     DEF Swept, Awaiting, Control, Working, Unsettled, TypeOK, Course, ItemSteps,
         StartErase, RefuseErase, Item
<1>7. CASE EraseFails(p)
  <2> DEFINE r == run[p]
             n == Item(p)
  <2>1. /\ Swept(p) /\ Working(p) /\ slot[r][n] # None /\ left'[p] = left[p] \ {n}
        /\ UNCHANGED <<dir, mode, run, slot, quar, st, queue>>
    BY <1>7, <1>a, <1>b, WorksAlone DEF EraseFails, Course, Handling, ItemSteps, TypeOK
  <2> QED  BY <2>1 DEF Swept, Awaiting
<1>8. CASE Erase(p)
  <2> DEFINE r == run[p]
             n == Item(p)
  <2>1. /\ r \in Runs /\ n \in Names /\ n \in left[p] /\ Swept(p) /\ Working(p)
        /\ UNCHANGED <<dir, mode, run, left, queue>>
    BY <1>8, <1>a, <1>b, WorksAlone DEF Erase, Course, ItemSteps
  <2>2. \A q \in Runs, m \in Names :
          q # r \/ m # n => slot'[q][m] = slot[q][m] /\ quar'[q][m] = quar[q][m]
                          /\ st'[q][m] = st[q][m]
    BY <1>8, <1>a, <2>1 DEF Erase, TypeOK, Holders
  <2> QED  BY <2>1, <2>2 DEF Swept, Awaiting
<1>9. CASE NoteDeleted(p)
  BY <1>9, <1>a, <1>b
     DEF Swept, Awaiting, Control, Working, Unsettled, TypeOK, Course, ItemSteps,
         NoteDeleted, Item
<1>10. CASE Settle(p) \/ PutBackFails(p) \/ MakeQuarantine(p)
  BY <1>10, <1>a, <1>b
     DEF Swept, Awaiting, Control, Working, Unsettled, TypeOK, Course, ItemSteps, Settle,
         PutBackFails, MakeQuarantine, Item
<1>11. CASE PutBack(p)
  <2> DEFINE r == run[p]
             n == Item(p)
  <2>1. /\ r \in Runs /\ n \in Names /\ n \in left[p] /\ Swept(p) /\ Working(p)
        /\ UNCHANGED <<dir, mode, run, left, queue>>
    BY <1>11, <1>a, <1>b, WorksAlone DEF PutBack, Course, ItemSteps
  <2>2. \A q \in Runs, m \in Names :
          q # r \/ m # n => slot'[q][m] = slot[q][m] /\ quar'[q][m] = quar[q][m]
                          /\ st'[q][m] = st[q][m]
    BY <1>11, <1>a, <2>1 DEF PutBack, TypeOK, Holders
  <2> QED  BY <2>1, <2>2 DEF Swept, Awaiting
<1>12. CASE NoteRestored(p)
  BY <1>12, <1>a, <1>b
     DEF Swept, Awaiting, Control, Working, Unsettled, TypeOK, Course, ItemSteps,
         NoteRestored, Item, After
<1>13. CASE QuarantineMove(p)
  <2> DEFINE r == run[p]
             n == Item(p)
  <2>1. /\ r \in Runs /\ n \in Names /\ n \in left[p] /\ Swept(p) /\ Working(p)
        /\ UNCHANGED <<dir, mode, run, left, queue>>
    BY <1>13, <1>a, <1>b, WorksAlone DEF QuarantineMove, Course, ItemSteps
  <2>2. \A q \in Runs, m \in Names :
          q # r \/ m # n => slot'[q][m] = slot[q][m] /\ quar'[q][m] = quar[q][m]
                          /\ st'[q][m] = st[q][m]
    BY <1>13, <1>a, <2>1 DEF QuarantineMove, TypeOK, Holders
  <2> QED  BY <2>1, <2>2 DEF Swept, Awaiting
<1>14. CASE NoteQuarantined(p)
  BY <1>14, <1>a, <1>b
     DEF Swept, Awaiting, Control, Working, Unsettled, TypeOK, Course, ItemSteps,
         NoteQuarantined, Item
<1>15. CASE CopyManifest(p)
  <2> DEFINE r == run[p]
             n == Item(p)
  <2>1. /\ Swept(p) /\ Working(p) /\ st[r][n] = "quarantined"
        /\ UNCHANGED <<dir, mode, run, slot, quar, st, queue>>
    BY <1>15, <1>a, <1>b, WorksAlone DEF CopyManifest, Course, Handling, ItemSteps
  <2>2. mode[p] = "recover" => left'[p] = left[p] \ {n}
    BY <1>15, <1>a DEF CopyManifest, After, TypeOK
  <2> QED  BY <2>1, <2>2 DEF Swept, Awaiting, Unsettled
<1>16. CASE DropManifest(p)
  BY <1>16, <1>a, <1>b
     DEF Swept, Awaiting, Control, Working, Unsettled, TypeOK, Course, ItemSteps,
         DropManifest, Item
<1>17. CASE KeepRun(p) \/ RemoveRun(p)
  BY <1>17, <1>a, <1>b
     DEF Swept, Awaiting, Control, Working, Unsettled, TypeOK, Course, ItemSteps, KeepRun,
         RemoveRun, Item, RunEnd
<1> QED  BY <1>1, <1>2, <1>3, <1>4, <1>5, <1>6, <1>7, <1>8, <1>9, <1>10, <1>11, <1>12,
             <1>13, <1>14, <1>15, <1>16, <1>17 DEF Works, Take, Delete

(* The empty quarantine of a capture.                                       *)
LEMMA CleanWorks ==
  ASSUME Inv, NEW p \in Pruners, Works(p)
  PROVE  Clean(p)'
<1>a. TypeOK /\ Disk /\ Course(p)
  BY DEF Inv
<1>b. pc[p] \in ItemSteps => /\ run[p] \in Runs /\ Item(p) \in Names /\ Item(p) \in left[p]
                            /\ Handling(p, run[p], Item(p))
  BY InHand
<1>1. CASE RecoverRun(p) \/ RecoverItem(p) \/ Sweep(p)
  BY <1>1, <1>a, <1>b
     DEF Clean, Control, TypeOK, Course, ItemSteps, RecoverRun, RecoverItem, Sweep, Item
<1>2. CASE MakeRun(p)
  <2>1. /\ Swept(p) /\ Working(p) /\ left[p] = {} /\ queue[p] = {} /\ mode[p] = "recover"
        /\ quar' = quar
    BY <1>2, <1>a DEF MakeRun, Course, Control, Working
  <2>2. \A r \in Runs : InQuarantine(r) \subseteq Awaiting(r)
    BY <1>2 DEF MakeRun, Blocked, BlockedQuarantine
  <2>3. \A r \in Runs, n \in Names : quar[r][n] = None
    BY <2>1, <2>2 DEF Swept, InQuarantine
  <2> QED  BY <2>1, <2>3 DEF Clean
<1>3. CASE WriteIntent(p)
  BY <1>3, <1>a, <1>b
     DEF Clean, Control, TypeOK, Course, ItemSteps, WriteIntent, Item
<1>4. CASE CheckKept(p) \/ Move(p) \/ MoveBusy(p)
  BY <1>4, <1>a, <1>b
     DEF Clean, Control, TypeOK, Course, ItemSteps, CheckKept, Move, MoveBusy, Item
<1>5. CASE NoteCaptured(p) \/ Verify(p) \/ Recheck(p) \/ Seal(p)
  BY <1>5, <1>a, <1>b
     DEF Clean, Control, TypeOK, Course, ItemSteps, NoteCaptured, Verify, Recheck, Seal,
         Item
<1>6. CASE StartErase(p) \/ RefuseErase(p) \/ EraseFails(p) \/ Erase(p) \/ NoteDeleted(p)
  BY <1>6, <1>a, <1>b
     DEF Clean, Control, TypeOK, Course, ItemSteps, StartErase, RefuseErase, EraseFails,
         Erase, NoteDeleted, Item
<1>7. CASE Settle(p) \/ PutBack(p) \/ PutBackFails(p)
  BY <1>7, <1>a, <1>b
     DEF Clean, Control, TypeOK, Course, ItemSteps, Settle, PutBack, PutBackFails, Item
<1>8. CASE NoteRestored(p) \/ CopyManifest(p)
  BY <1>8, <1>a, <1>b
     DEF Clean, Control, TypeOK, Course, ItemSteps, NoteRestored, CopyManifest, Item, After
<1>9. CASE MakeQuarantine(p) \/ QuarantineMove(p) \/ NoteQuarantined(p)
  BY <1>9, <1>a, <1>b
     DEF Clean, Control, TypeOK, Course, ItemSteps, MakeQuarantine, QuarantineMove,
         NoteQuarantined, Item
<1>10. CASE DropManifest(p) \/ KeepRun(p) \/ RemoveRun(p)
  BY <1>10, <1>a, <1>b
     DEF Clean, Control, TypeOK, Course, ItemSteps, DropManifest, KeepRun, RemoveRun, Item,
         RunEnd
<1> QED  BY <1>1, <1>2, <1>3, <1>4, <1>5, <1>6, <1>7, <1>8, <1>9, <1>10 DEF Works, Take,
             Delete

(* The kept siblings.                                                       *)
LEMMA WitnessedWorks ==
  ASSUME Inv, NEW p \in Pruners, Works(p)
  PROVE  Witnessed(p)'
<1>a. TypeOK /\ Disk /\ Course(p)
  BY DEF Inv
<1>b. pc[p] \in ItemSteps => /\ run[p] \in Runs /\ Item(p) \in Names /\ Item(p) \in left[p]
                            /\ Handling(p, run[p], Item(p))
  BY InHand
<1>1. CASE RecoverRun(p) \/ RecoverItem(p) \/ Sweep(p) \/ MakeRun(p) \/ WriteIntent(p)
  BY <1>1, <1>a, <1>b
     DEF Witnessed, TypeOK, Course, ItemSteps, RecoverRun, RecoverItem, Sweep, MakeRun,
         WriteIntent, Item
<1>2. CASE CheckKept(p) \/ Move(p) \/ MoveBusy(p)
  BY <1>2, <1>a, <1>b
     DEF Witnessed, TypeOK, Course, ItemSteps, CheckKept, Move, MoveBusy, Item
<1>3. CASE NoteCaptured(p) \/ Verify(p) \/ Seal(p)
  BY <1>3, <1>a, <1>b
     DEF Witnessed, TypeOK, Course, ItemSteps, NoteCaptured, Verify, Seal, Item
<1>4. CASE Recheck(p)
  <2>1. pc'[p] = "seal" => KeptInPlace(p)
    BY <1>4, <1>a DEF Recheck, TypeOK
  <2>2. pc'[p] \in {"seal", "settle"} /\ saved' = saved /\ plan' = plan
    BY <1>4, <1>a DEF Recheck, TypeOK
  <2> QED  BY <2>1, <2>2 DEF Witnessed, KeptInPlace
<1>5. CASE StartErase(p) \/ RefuseErase(p) \/ EraseFails(p) \/ Erase(p) \/ NoteDeleted(p)
  BY <1>5, <1>a, <1>b
     DEF Witnessed, TypeOK, Course, ItemSteps, StartErase, RefuseErase, EraseFails, Erase,
         NoteDeleted, Item
<1>6. CASE Settle(p) \/ PutBack(p) \/ PutBackFails(p) \/ NoteRestored(p)
  BY <1>6, <1>a, <1>b
     DEF Witnessed, TypeOK, Course, ItemSteps, Settle, PutBack, PutBackFails, NoteRestored,
         Item, After
<1>7. CASE MakeQuarantine(p) \/ QuarantineMove(p) \/ NoteQuarantined(p) \/ CopyManifest(p)
  BY <1>7, <1>a, <1>b
     DEF Witnessed, TypeOK, Course, ItemSteps, MakeQuarantine, QuarantineMove,
         NoteQuarantined, CopyManifest, Item, After
<1>8. CASE DropManifest(p) \/ KeepRun(p) \/ RemoveRun(p)
  BY <1>8, <1>a, <1>b
     DEF Witnessed, TypeOK, Course, ItemSteps, DropManifest, KeepRun, RemoveRun, Item,
         RunEnd
<1> QED  BY <1>1, <1>2, <1>3, <1>4, <1>5, <1>6, <1>7, <1>8 DEF Works, Take, Delete

(* The item in hand.                                                        *)
LEMMA AtItemWorks ==
  ASSUME Inv, NEW p \in Pruners, Works(p)
  PROVE  AtItem(p)'
<1>a. TypeOK /\ Disk /\ Course(p)
  BY DEF Inv
<1>b. pc[p] \in ItemSteps => /\ run[p] \in Runs /\ Item(p) \in Names /\ Item(p) \in left[p]
                            /\ Handling(p, run[p], Item(p))
  BY InHand
<1>1. CASE RecoverRun(p) \/ Sweep(p) \/ MakeRun(p) \/ WriteIntent(p)
  BY <1>1, <1>a, <1>b
     DEF Handling, AtItem, TypeOK, Course, ItemSteps, RecoverRun, Sweep, MakeRun,
         WriteIntent, Item
<1>2. CASE RecoverItem(p)
  <2>1. CASE pc' = pc
    BY <1>2, <1>a, <2>1 DEF RecoverItem, AtItem, ItemSteps
  <2>2. CASE pc' # pc
    <3> DEFINE r == run[p]
               n == Item(p)
    <3>1. /\ UNCHANGED <<st, left, run, slot, quar>> /\ st[r][n] \in Unsettled
          /\ \/ slot[r][n] = None /\ pc'[p] = "quarnote"
             \/ slot[r][n] # None /\ st[r][n] = "verified" /\ pc'[p] = "delete"
             \/ slot[r][n] # None /\ st[r][n] # "verified" /\ pc'[p] = "settle"
      BY <1>2, <1>a, <2>2 DEF RecoverItem, TypeOK
    <3>2. Item(p)' = n /\ run'[p] = r
      BY <3>1 DEF Item
    <3> HIDE DEF n, r
    <3> QED  BY <3>1, <3>2 DEF AtItem, Handling, Unsettled
  <2> QED  BY <2>1, <2>2
<1>3. CASE CheckKept(p)
  BY <1>3, <1>a, <1>b
     DEF Handling, AtItem, TypeOK, Course, ItemSteps, CheckKept, Item
<1>4. CASE Move(p)
  <2> DEFINE r == run[p]
             n == Item(p)
  <2>1. /\ r \in Runs /\ n \in Names /\ run' = run /\ left' = left
        /\ Handling(p, r, n)
    BY <1>4, <1>b DEF Move, ItemSteps
  <2>2. Item(p)' = n /\ run'[p] = r
    BY <2>1 DEF Item
  <2>3. st[r][n] = "intent" /\ saved[n] # None
    BY <1>4, MoveSlot DEF Move
  <2>4. slot'[r][n] = saved[n] /\ st' = st /\ pc'[p] = "note"
    BY <1>4, <1>a, <2>1 DEF Move, TypeOK, Holders
  <2> HIDE DEF n, r
  <2> QED  BY <2>2, <2>3, <2>4 DEF AtItem, Handling
<1>5. CASE MoveBusy(p) \/ EraseFails(p)
  BY <1>5, <1>a, <1>b
     DEF Handling, AtItem, TypeOK, Course, ItemSteps, MoveBusy, EraseFails, Item
<1>6. CASE NoteCaptured(p)
  BY <1>6, <1>a, <1>b
     DEF Handling, AtItem, TypeOK, Course, ItemSteps, NoteCaptured, Item
<1>7. CASE Verify(p)
  <2> DEFINE r == run[p]
             n == Item(p)
  <2>1. /\ r \in Runs /\ n \in Names /\ run' = run /\ left' = left
        /\ Handling(p, r, n)
    BY <1>7, <1>b DEF Verify, ItemSteps
  <2>2. Item(p)' = n /\ run'[p] = r
    BY <2>1 DEF Item
  <2>3. /\ UNCHANGED <<saved, slot, quar, want, st, body>> /\ slot[r][n] # None
        /\ st[r][n] = "captured"
        /\ \/ pc'[p] = "settle"
           \/ pc'[p] = "recheck" /\ slot[r][n] = want[r][n] /\ body[slot[r][n]] = "whole"
    BY <1>7, <1>a, <2>1 DEF Verify, Matches, Handling, TypeOK
  <2>4. slot[r][n] = want[r][n] => Confined(r, n)
    BY <1>a, <2>1, <2>3 DEF Disk, Apart, Confined
  <2>5. slot[r][n] = want[r][n] => Confined(run[p], Item(p))'
    BY <2>2, <2>3, <2>4 DEF Confined
  <2> HIDE DEF n, r
  <2> QED  BY <2>2, <2>3, <2>5 DEF AtItem, Handling
<1>8. CASE Recheck(p)
  <2> DEFINE r == run[p]
             n == Item(p)
  <2>1. /\ r \in Runs /\ n \in Names /\ run' = run /\ left' = left
        /\ Handling(p, r, n)
    BY <1>8, <1>b DEF Recheck, ItemSteps
  <2>2. Item(p)' = n /\ run'[p] = r
    BY <2>1 DEF Item
  <2>3. /\ UNCHANGED <<saved, slot, quar, want, st, body>> /\ slot[r][n] # None
        /\ st[r][n] = "captured" /\ pc'[p] \in {"seal", "settle"} /\ Confined(r, n)
        /\ slot[r][n] = want[r][n] => body[slot[r][n]] = "whole"
    BY <1>8, <1>a, <2>1 DEF Recheck, Handling, TypeOK
  <2>4. Confined(run[p], Item(p))'
    BY <2>2, <2>3 DEF Confined
  <2> HIDE DEF n, r
  <2> QED  BY <2>2, <2>3, <2>4 DEF AtItem, Handling
<1>9. CASE Seal(p)
  BY <1>9, <1>a, <1>b
     DEF Handling, AtItem, TypeOK, Course, ItemSteps, Seal, Item
<1>10. CASE StartErase(p)
  <2> DEFINE r == run[p]
             n == Item(p)
  <2>1. /\ r \in Runs /\ n \in Names /\ run' = run /\ left' = left
        /\ Handling(p, r, n)
    BY <1>10, <1>b DEF StartErase, ItemSteps
  <2>2. Item(p)' = n /\ run'[p] = r
    BY <2>1 DEF Item
  <2>3. slot[r][n] \in Objects /\ slot[r][n] = want[r][n] /\ st[r][n] = "verified"
    BY <1>10, <1>a, <2>1 DEF StartErase, Handling, TypeOK, Holders
  <2>4. UNCHANGED <<slot, want, st>> /\ body'[slot[r][n]] = "partial" /\ pc'[p] = "erasing"
    BY <1>10, <1>a, <2>3 DEF StartErase, TypeOK
  <2> HIDE DEF n, r
  <2> QED  BY <2>2, <2>3, <2>4, NonePlaced DEF AtItem, Handling
<1>11. CASE RefuseErase(p)
  <2> DEFINE r == run[p]
             n == Item(p)
  <2>1. /\ r \in Runs /\ n \in Names /\ run' = run /\ left' = left
        /\ Handling(p, r, n)
    BY <1>11, <1>b DEF RefuseErase, ItemSteps
  <2>2. Item(p)' = n /\ run'[p] = r
    BY <2>1 DEF Item
  <2>3. slot[r][n] # None /\ slot' = slot
    BY <1>11, <2>1 DEF RefuseErase, Handling
  <2>4. \/ pc'[p] = "settle" /\ st'[r][n] = "captured"
        \/ pc'[p] = "quar"
    BY <1>11, <1>a, <2>1 DEF RefuseErase, TypeOK
  <2> HIDE DEF n, r
  <2> QED  BY <2>2, <2>3, <2>4 DEF AtItem, Handling
<1>12. CASE Erase(p)
  <2> DEFINE r == run[p]
             n == Item(p)
  <2>1. /\ r \in Runs /\ n \in Names /\ run' = run /\ left' = left
        /\ Handling(p, r, n)
    BY <1>12, <1>b DEF Erase, ItemSteps
  <2>2. Item(p)' = n /\ run'[p] = r
    BY <2>1 DEF Item
  <2>3. slot'[r][n] = None /\ st[r][n] = "verified" /\ quar[r][n] = None
        /\ UNCHANGED <<st, quar>> /\ pc'[p] = "erased"
    BY <1>12, <1>a, <2>1 DEF Erase, Handling, TypeOK, Holders, Disk, Filed
  <2> HIDE DEF n, r
  <2> QED  BY <2>2, <2>3 DEF AtItem, Handling
<1>13. CASE NoteDeleted(p) \/ NoteRestored(p) \/ CopyManifest(p)
  BY <1>13, <1>a, <1>b
     DEF Handling, AtItem, TypeOK, Course, ItemSteps, NoteDeleted, NoteRestored,
         CopyManifest, Item, After
<1>14. CASE Settle(p)
  BY <1>14, <1>a, <1>b
     DEF Handling, AtItem, TypeOK, Course, ItemSteps, Settle, Item
<1>15. CASE PutBack(p)
  <2> DEFINE r == run[p]
             n == Item(p)
  <2>1. /\ r \in Runs /\ n \in Names /\ run' = run /\ left' = left
        /\ Handling(p, r, n)
    BY <1>15, <1>b DEF PutBack, ItemSteps
  <2>2. Item(p)' = n /\ run'[p] = r
    BY <2>1 DEF Item
  <2>3. st[r][n] \in {"intent", "captured"} /\ quar[r][n] = None
    BY <1>15, <1>a, <2>1 DEF PutBack, Handling, Disk, Filed
  <2>4. slot'[r][n] = None /\ UNCHANGED <<st, quar>> /\ pc'[p] = "noteback"
    BY <1>15, <1>a, <2>1 DEF PutBack, TypeOK, Holders
  <2> HIDE DEF n, r
  <2> QED  BY <2>2, <2>3, <2>4 DEF AtItem, Handling
<1>16. CASE PutBackFails(p)
  BY <1>16, <1>a, <1>b
     DEF Handling, AtItem, TypeOK, Course, ItemSteps, PutBackFails, Item
<1>17. CASE MakeQuarantine(p)
  BY <1>17, <1>a, <1>b
     DEF Handling, AtItem, TypeOK, Course, ItemSteps, MakeQuarantine, Item
<1>18. CASE QuarantineMove(p)
  <2> DEFINE r == run[p]
             n == Item(p)
  <2>1. /\ r \in Runs /\ n \in Names /\ run' = run /\ left' = left
        /\ Handling(p, r, n)
    BY <1>18, <1>b DEF QuarantineMove, ItemSteps
  <2>2. Item(p)' = n /\ run'[p] = r
    BY <2>1 DEF Item
  <2>3. st[r][n] \in Unsettled
    BY <1>18, <1>a, <2>1 DEF QuarantineMove, Handling, Disk, Filed
  <2>4. slot'[r][n] = None /\ st' = st /\ pc'[p] = "quarnote"
    BY <1>18, <1>a, <2>1 DEF QuarantineMove, TypeOK, Holders
  <2> HIDE DEF n, r
  <2> QED  BY <2>2, <2>3, <2>4 DEF AtItem, Handling
<1>19. CASE NoteQuarantined(p)
  BY <1>19, <1>a, <1>b
     DEF Handling, AtItem, TypeOK, Course, ItemSteps, NoteQuarantined, Item
<1>20. CASE DropManifest(p) \/ KeepRun(p) \/ RemoveRun(p)
  BY <1>20, <1>a, <1>b
     DEF Handling, AtItem, TypeOK, Course, ItemSteps, DropManifest, KeepRun, RemoveRun,
         Item, RunEnd
<1> QED  BY <1>1, <1>2, <1>3, <1>4, <1>5, <1>6, <1>7, <1>8, <1>9, <1>10, <1>11, <1>12,
             <1>13, <1>14, <1>15, <1>16, <1>17, <1>18, <1>19, <1>20 DEF Works, Take, Delete

(* The whole course of a working pruner.                                   *)
LEMMA CourseWorks ==
  ASSUME Inv, NEW p \in Pruners, Works(p)
  PROVE  Course(p)'
BY ControlWorks, AheadWorks, SweptWorks, CleanWorks, WitnessedWorks, AtItemWorks DEF Course

LEMMA CourseStill ==
  ASSUME NEW q \in Pruners, Course(q), pc'[q] = pc[q], mode'[q] = mode[q], run'[q] = run[q],
         left'[q] = left[q], queue'[q] = queue[q], plan'[q] = plan[q], late'[q] = late[q],
         UNCHANGED <<places, body, manifests>>
  PROVE  Course(q)'
<1> USE DEF Course, places, manifests
<1>1. Control(q)'
  BY DEF Control, Working
<1>2. Item(q)' = Item(q)
  BY DEF Item
<1>3. Ahead(q)'
  BY <1>2 DEF Ahead
<1>4. Swept(q)' /\ Clean(q)'
  BY DEF Swept, Clean, Awaiting, Working
<1>5. Witnessed(q)'
  BY DEF Witnessed
<1>6. AtItem(q)'
  BY <1>2 DEF AtItem, Handling, Confined
<1> QED  BY <1>1, <1>3, <1>4, <1>5, <1>6

(* Before it has the lock a pruner has nothing in hand.                    *)
LEMMA CourseReview ==
  ASSUME Inv, NEW p \in Pruners, Review(p)
  PROVE  Course(p)'
<1>1. /\ mode[p] = "recover" /\ left[p] = {} /\ run[p] = None
      /\ pc'[p] = "reviewed" /\ UNCHANGED <<mode, left, run>>
  BY DEF Inv, Course, Control, Working, Review, TypeOK
<1> QED
  BY <1>1 DEF Working, Course, Control, Ahead, Swept, Clean, Witnessed, AtItem, ItemSteps

(* When it takes the lock it queues every run there is.                    *)
LEMMA CourseTakeLock ==
  ASSUME Inv, NEW p \in Pruners, TakeLock(p)
  PROVE  Course(p)'
<1>1. /\ mode[p] = "recover" /\ left[p] = {} /\ run[p] = None
      /\ pc'[p] = "scan" /\ queue'[p] = {r \in Runs : dir[r] # "none"}
      /\ UNCHANGED <<mode, left, run, dir, st, slot, quar>>
  BY DEF Inv, Course, Control, Working, TakeLock, TypeOK
<1>2. Swept(p)'
  BY <1>1 DEF Swept, Awaiting
<1> QED
  BY <1>1, <1>2, NonePlaced
     DEF Working, Course, Control, Ahead, Clean, Witnessed, AtItem, ItemSteps

LEMMA CourseSteps ==
  ASSUME Inv, NEW p \in Pruners, Step(p) \/ Abort(p), NEW q \in Pruners
  PROVE  Course(q)'
<1>a. TypeOK /\ Course(p) /\ Course(q)
  BY DEF Inv
<1> USE DEF places, manifests
<1>1. CASE Review(p)
  <2>1. q # p => Course(q)'
    BY <1>1, <1>a, CourseStill DEF Review
  <2> QED  BY <1>1, <2>1, CourseReview
<1>2. CASE TakeLock(p)
  <2>1. q # p => Course(q)'
    <3>1. q # p => /\ pc'[q] = pc[q] /\ queue'[q] = queue[q]
                   /\ UNCHANGED <<mode, run, left, plan, late, places, body, manifests>>
      BY <1>2, <1>a DEF TakeLock, TypeOK
    <3> QED  BY <1>a, <3>1, CourseStill
  <2> QED  BY <1>2, <2>1, CourseTakeLock
<1>3. CASE Leave(p) /\ UNCHANGED <<trees, records>>
  <2>1. q # p => Course(q)'
    BY <1>3, <1>a, CourseStill
  <2> QED  BY <1>3, <1>a, <2>1, CourseGone
<1>4. CASE Works(p)
  BY <1>4, <1>a, CourseWorks, CourseOfOthers, WorksAlone
<1> QED  BY <1>1, <1>2, <1>3, <1>4, Turns

(* What the owner, the operator and others cannot do to a slot.            *)
LEMMA Meddling ==
  ASSUME Inv, Others
  PROVE  /\ UNCHANGED <<pc, mode, run, left, queue, plan, manifests>>
         /\ \A r \in Runs, n \in Names :
              /\ \/ slot'[r][n] = slot[r][n]
                 \/ /\ slot[r][n] # None /\ body[slot[r][n]] # "partial"
                    /\ slot'[r][n] # None /\ slot'[r][n] # want[r][n]
              /\ quar'[r][n] = quar[r][n] \/ quar'[r][n] = None
              /\ slot[r][n] # None => body'[slot[r][n]] = body[slot[r][n]]
         /\ \A p \in Pruners, k \in Pairs :
              /\ k[2] \in late[p] => k[2] \in late'[p]
              /\ pc[p] \in {"seal", "delete"} /\ saved[k[1]] = k[2] =>
                   saved'[k[1]] = k[2] \/ k[2] \in late'[p]
<1> USE DEF Meddled, manifests
<1>a. TypeOK /\ Disk
  BY DEF Inv
<1>1. UNCHANGED <<pc, mode, run, left, queue, plan, manifests>>
  BY DEF Others, Save, Alter, Remove, Rename, Mount, Quiesce, Resolve, Exchange
<1>2. ASSUME NEW r \in Runs, NEW n \in Names
      PROVE  \/ slot'[r][n] = slot[r][n]
             \/ /\ slot[r][n] # None /\ body[slot[r][n]] # "partial"
                /\ slot'[r][n] # None /\ slot'[r][n] # want[r][n]
  <2>1. CASE slot' = slot
    BY <2>1
  <2>2. ASSUME NEW q \in Runs, NEW m \in Names, NEW o \in Objects, Exchange(q, m, o)
        PROVE  \/ slot'[r][n] = slot[r][n]
               \/ /\ slot[r][n] # None /\ body[slot[r][n]] # "partial"
                  /\ slot'[r][n] # None /\ slot'[r][n] # want[r][n]
    <3>1. o # None /\ want[r][n] # o
      BY <2>2, <1>a, NonePlaced DEF Exchange, Disk, Content
    <3> QED  BY <2>2, <3>1, <1>a DEF Exchange, TypeOK, Holders
  <2> QED
    BY <2>1, <2>2 DEF Others, Save, Alter, Remove, Rename, Mount, Quiesce, Resolve
<1>3. ASSUME NEW r \in Runs, NEW n \in Names
      PROVE  quar'[r][n] = quar[r][n] \/ quar'[r][n] = None
  <2>1. quar' = quar \/ \E q \in Runs : Resolve(q)
    BY DEF Others, Save, Alter, Remove, Rename, Mount, Quiesce, Exchange
  <2>2. ASSUME NEW q \in Runs, Resolve(q)
        PROVE  quar'[r][n] = IF r = q THEN None ELSE quar[r][n]
    BY <2>2, <1>a DEF Resolve, TypeOK, Holders
  <2> QED  BY <2>1, <2>2
<1>4. ASSUME NEW r \in Runs, NEW n \in Names, slot[r][n] # None
      PROVE  body'[slot[r][n]] = body[slot[r][n]]
  <2> DEFINE o == slot[r][n]
  <2>1. o \in Objects /\ body \in [Objects -> Bodies] /\ saved \in [Names -> Objects \cup {None}]
    BY <1>4, <1>a DEF TypeOK, Holders
  <2>2. /\ body[o] # "unborn" /\ \A m \in Names : saved[m] # o
        /\ \A q \in Runs, m \in Names : quar[q][m] # o
    BY <1>4, <1>a DEF Disk, Apart, Content
  <2> HIDE DEF o
  <2>3. ASSUME NEW x \in Objects, NEW m \in Names, Save(x, m) PROVE body'[o] = body[o]
    BY <2>1, <2>2, <2>3 DEF Save
  <2>4. ASSUME NEW m \in Names, Alter(m) \/ Remove(m) PROVE body'[o] = body[o]
    BY <2>1, <2>2, <2>4 DEF Alter, Remove
  <2>5. ASSUME NEW q \in Runs, Resolve(q) PROVE body'[o] = body[o]
    BY <2>1, <2>2, <2>5 DEF Resolve, InQuarantine
  <2>6. ASSUME NEW q \in Runs, NEW m \in Names, NEW x \in Objects, Exchange(q, m, x)
        PROVE  body'[o] = body[o]
    BY <2>1, <2>2, <2>6 DEF Exchange
  <2>7. body'[o] = body[o]
    BY <2>3, <2>4, <2>5, <2>6 DEF Others, Rename, Mount, Quiesce
  <2> QED  BY <2>7 DEF o
<1>5. ASSUME NEW p \in Pruners, NEW k \in Pairs
      PROVE  /\ k[2] \in late[p] => k[2] \in late'[p]
             /\ pc[p] \in {"seal", "delete"} /\ saved[k[1]] = k[2] =>
                  saved'[k[1]] = k[2] \/ k[2] \in late'[p]
  <2>1. k[1] \in Names /\ k[2] \in Objects
    BY DEF Pairs
  <2>2. CASE UNCHANGED <<saved, late>>
    BY <2>2
  <2>3. ASSUME NEW o \in Objects, NEW n \in Names, Save(o, n)
        PROVE  late' = late /\ (saved[k[1]] = k[2] => saved'[k[1]] = k[2])
    BY <2>1, <2>3, <1>a, NonePlaced DEF Save, TypeOK
  <2>4. ASSUME NEW n \in Names, Remove(n)
        PROVE  /\ k[2] \in late[p] => k[2] \in late'[p]
               /\ pc[p] \in {"seal", "delete"} /\ saved[k[1]] = k[2] =>
                    saved'[k[1]] = k[2] \/ k[2] \in late'[p]
    BY <2>1, <2>4, <1>a DEF Remove, LeavesLate, TypeOK
  <2>5. ASSUME NEW m \in Names, NEW n \in Names, Rename(m, n)
        PROVE  /\ k[2] \in late[p] => k[2] \in late'[p]
               /\ pc[p] \in {"seal", "delete"} /\ saved[k[1]] = k[2] =>
                    saved'[k[1]] = k[2] \/ k[2] \in late'[p]
    BY <2>1, <2>5, <1>a, NonePlaced DEF Rename, LeavesLate, TypeOK
  <2> QED
    BY <2>2, <2>3, <2>4, <2>5 DEF Others, Alter, Mount, Quiesce, Resolve, Exchange
<1> QED  BY <1>1, <1>2, <1>3, <1>4, <1>5

LEMMA CourseOthers ==
  ASSUME Inv, Others, NEW p \in Pruners
  PROVE  Course(p)'
<1>a. TypeOK /\ Disk /\ Course(p)
  BY DEF Inv
<1>b. UNCHANGED <<pc, mode, run, left, queue, plan, manifests>>
  BY Meddling
<1>c. Item(p)' = Item(p)
  BY <1>b DEF Item
<1> USE DEF Course, manifests
<1>1. Control(p)'
  BY <1>a, <1>b DEF Control, Working
<1>d. \A r \in Runs, n \in Names :
        /\ slot'[r][n] = None <=> slot[r][n] = None
        /\ quar[r][n] = None => quar'[r][n] = None
  BY Meddling
<1>2. Ahead(p)'
  <2>1. left[p] # {} /\ mode[p] = "capture" => run[p] \in Runs
    BY <1>a DEF Control, ItemSteps, TypeOK, States, Working
  <2>2. left[p] \subseteq Names
    BY <1>a DEF TypeOK
  <2> QED  BY <1>a, <1>b, <1>c, <1>d, <2>1, <2>2 DEF Ahead
<1>3. Swept(p)' /\ Clean(p)'
  BY <1>a, <1>b, <1>d DEF Swept, Clean, Awaiting, Working
<1>4. Witnessed(p)'
  <2>1. plan[p].kept \subseteq Pairs
    BY <1>a DEF TypeOK, Plans
  <2> QED  BY <1>a, <1>b, <2>1, Meddling DEF Witnessed
<1>5. AtItem(p)'
  <2> SUFFICES ASSUME pc[p] \in ItemSteps PROVE Handling(p, run[p], Item(p))'
    BY <1>b DEF AtItem
  <2> DEFINE r == run[p]
             n == Item(p)
  <2>1. r \in Runs /\ n \in Names /\ Handling(p, r, n) /\ run'[p] = r /\ Item(p)' = n
    BY <1>b, <1>c, InHand
  <2>2. \/ slot'[r][n] = slot[r][n]
        \/ /\ slot[r][n] # None /\ body[slot[r][n]] # "partial"
           /\ slot'[r][n] # None /\ slot'[r][n] # want[r][n]
    BY <2>1, Meddling
  <2>3. slot[r][n] # None => body'[slot[r][n]] = body[slot[r][n]]
    BY <2>1, Meddling
  <2>4. pc[p] \in {"recheck", "seal"} => Confined(run[p], Item(p))'
    <3>1. pc[p] \in {"recheck", "seal"} => Confined(r, n) /\ want[r][n] # None
      BY <1>a, <2>1 DEF Handling, TypeOK
    <3>2. pc[p] \in {"recheck", "seal"} =>
            (\A q \in Runs, x \in Names : q = r /\ x = n => Confined(q, x)')
      BY <1>a, <2>1, <3>1, ConfinedOthers
    <3> QED  BY <1>b, <2>1, <3>2 DEF Confined
  <2>5. quar[r][n] = None => quar'[r][n] = None
    BY <1>d, <2>1
  <2> HIDE DEF r, n
  <2> QED  BY <1>b, <2>1, <2>2, <2>3, <2>4, <2>5 DEF Handling
<1> QED  BY <1>1, <1>2, <1>3, <1>4, <1>5

-----------------------------------------------------------------------------
(* The invariant.                                                          *)
LEMMA InvInit == Init => Inv
<1> SUFFICES ASSUME Init PROVE Inv
  OBVIOUS
<1>1. /\ \A p \in Pruners : /\ pc[p] = "idle" /\ mode[p] = "recover" /\ left[p] = {}
                            /\ run[p] = None /\ plan[p] = NoPlan
      /\ \A r \in Runs : dir[r] = "none"
      /\ \A r \in Runs, n \in Names :
           slot[r][n] = None /\ quar[r][n] = None /\ want[r][n] = None /\ st[r][n] = "none"
      /\ \A o \in Objects : body[o] = "whole" \/ \A n \in Names : saved[n] # o
  BY DEF Init
<1>2. TypeOK
  BY TypeInit
<1>3. LockHeld /\ PlansBorn
  BY <1>1 DEF LockHeld, Working, PlansBorn, NoPlan
<1>4. Apart
  BY <1>1 DEF Apart, Init
<1>5. Filed /\ Confinement
  BY <1>1 DEF Filed, Confinement
<1>6. Content
  <2>1. \A n \in Names : saved[n] # None => saved[n] \in Objects /\ body[saved[n]] = "whole"
    BY <1>1, <1>2 DEF TypeOK
  <2> QED  BY <1>1, <2>1 DEF Content
<1>7. \A p \in Pruners : Course(p)
  BY <1>1 DEF Working, Course, Control, Ahead, Swept, Clean, Witnessed, AtItem, ItemSteps
<1> QED  BY <1>2, <1>3, <1>4, <1>5, <1>6, <1>7 DEF Inv, Disk

LEMMA InvNext == Inv /\ [Next]_vars => Inv'
<1> SUFFICES ASSUME Inv, [Next]_vars PROVE Inv'
  OBVIOUS
<1>1. PlansBorn'
  BY BornPlans
<1>2. CASE Others
  BY <1>1, <1>2, TypeOthers, LockOthers, DiskOthers, CourseOthers DEF Inv
<1>3. ASSUME NEW p \in Pruners, Step(p) \/ Abort(p) PROVE Inv'
  BY <1>1, <1>3, TypeSteps, LockSteps, DiskSteps, CourseSteps DEF Inv
<1>4. CASE UNCHANGED vars
  <2> USE <1>4 DEF vars
  <2>1. TypeOK' /\ LockHeld'
    BY DEF Inv, TypeOK, LockHeld, Working
  <2>2. Disk'
    BY DiskStill DEF Inv, places, manifests
  <2>3. \A p \in Pruners : Course(p)'
    BY CourseStill DEF Inv, places, manifests
  <2> QED  BY <1>1, <2>1, <2>2, <2>3 DEF Inv
<1> QED  BY <1>2, <1>3, <1>4 DEF Next

LEMMA Invariant == Spec => []Inv
BY InvInit, InvNext, PTL DEF Spec

(* Types, and a manifest that names the reviewed object of every item.     *)
THEOREM TypeCorrect == Spec => []TypeOK
<1>1. Inv => TypeOK
  BY DEF Inv
<1> QED  BY <1>1, Invariant, PTL

(* A tree recorded as deleted is in no place of the bridge, and a captured *)
(* one lies where its manifest will settle it.                             *)
THEOREM ManifestsCorrect == Spec => []ManifestsTrue
<1>1. Inv => CapturesAccounted
  BY DEF Inv, Disk, Filed, CapturesAccounted
<1>2. Inv => DeletedIsGone
  <2> SUFFICES ASSUME Inv, NEW r \in Runs, NEW n \in Names, st[r][n] = "deleted"
               PROVE  PhaseOf(want[r][n]) = "gone"
    BY DEF DeletedIsGone
  <2>1. want[r][n] # None /\ Confined(r, n) /\ body[want[r][n]] # "unborn"
    BY DEF Inv, TypeOK, Disk, Confinement, Content
  <2>2. slot[r][n] = None /\ quar[r][n] = None
    BY DEF Inv, Disk, Filed, Unsettled
  <2>3. \A q \in Runs, m \in Names : slot[q][m] # want[r][n] /\ quar[q][m] # want[r][n]
    BY <2>1, <2>2 DEF Confined
  <2> QED  BY <2>1, <2>3 DEF PhaseOf, SlotOf, Confined
<1> QED  BY <1>1, <1>2, Invariant, PTL DEF ManifestsTrue

(* No recovery works on a live run.                                        *)
THEOREM LiveRunCorrect == Spec => []LiveRunUntouched
<1>1. Inv => LiveRunUntouched
  <2> SUFFICES ASSUME Inv, NEW p \in Pruners, mode[p] = "capture"
               PROVE  /\ pc[p] \in {"move", "note"} => st[run[p]][Item(p)] = "intent"
                      /\ pc[p] \in {"verify", "recheck", "seal"} =>
                           st[run[p]][Item(p)] = "captured"
                      /\ pc[p] \in {"delete", "erasing"} => st[run[p]][Item(p)] = "verified"
                      /\ pc[p] \in {"note", "verify", "recheck", "seal", "delete", "erasing"} =>
                           dir[run[p]] = "live" /\ InSlot(p) # None
    BY DEF LiveRunUntouched
  <2>1. pc[p] \in ItemSteps => /\ Item(p) \in left[p] /\ dir[run[p]] = "live"
                              /\ Handling(p, run[p], Item(p)) /\ Ahead(p)
    BY InHand DEF Inv, Course
  <2> QED  BY <2>1 DEF ItemSteps, Handling, Ahead
<1> QED  BY <1>1, Invariant, PTL

-----------------------------------------------------------------------------
(* What a capture takes and erases.                                        *)

LEMMA ErasuresWitnessed ==
  ASSUME Inv, [Next]_vars, NEW p \in Pruners,
         mode[p] = "capture", pc[p] = "delete", pc'[p] = "erasing"
  PROVE  \A k \in plan[p].kept : saved[k[1]] = k[2] \/ k[2] \in late[p]
BY DEF Inv, Course, Witnessed

LEMMA OnlyMovesFill ==
  ASSUME Inv, [Next]_vars, NEW r \in Runs, NEW n \in Names,
         slot[r][n] = None, slot'[r][n] # None
  PROVE  \E p \in Pruners : Move(p)
<1>a. TypeOK
  BY DEF Inv
<1>1. ~ Others /\ ~ UNCHANGED vars
  <2>1. Others => slot'[r][n] = None
    BY Meddling
  <2> QED  BY <2>1 DEF vars
<1>2. PICK p \in Pruners : Step(p) \/ Abort(p)
  BY <1>1 DEF Next
<1>3. slot' = slot \/ Move(p) \/ Erase(p) \/ PutBack(p) \/ QuarantineMove(p)
  BY <1>2, Turns
     DEF Works, Take, Delete, Review, TakeLock, RecoverRun, RecoverItem, Sweep, MakeRun,
         WriteIntent, CheckKept, MoveBusy, NoteCaptured, Verify, Recheck, Seal, StartErase,
         RefuseErase, EraseFails, NoteDeleted, Settle, PutBackFails, NoteRestored,
         MakeQuarantine, NoteQuarantined, CopyManifest, DropManifest, KeepRun, RemoveRun
<1>4. Erase(p) \/ PutBack(p) \/ QuarantineMove(p) => slot'[r][n] = None
  <2>1. Erase(p) \/ PutBack(p) \/ QuarantineMove(p) => run[p] \in Runs /\ Item(p) \in Names
    BY InHand DEF Erase, PutBack, QuarantineMove, ItemSteps
  <2>2. Erase(p) \/ PutBack(p) \/ QuarantineMove(p) =>
          slot' = [slot EXCEPT ![run[p]][Item(p)] = None]
    BY DEF Erase, PutBack, QuarantineMove
  <2>3. slot \in Holders
    BY <1>a DEF TypeOK
  <2> QED  BY <2>1, <2>2, <2>3 DEF Holders
<1> QED  BY <1>3, <1>4

(* Nothing is erased in a capture unless every kept sibling was there at   *)
(* the last check, and nothing is captured while the quarantine holds a    *)
(* tree.                                                                   *)
THEOREM CapturesGuardedCorrect == Spec => CapturesGuarded
<1>1. Inv /\ [Next]_vars =>
        [\A p \in Pruners :
           mode[p] = "capture" /\ pc[p] = "delete" /\ pc'[p] = "erasing" =>
             \A k \in plan[p].kept : saved[k[1]] = k[2] \/ k[2] \in late[p]]_vars
  BY ErasuresWitnessed
<1>2. Inv /\ [Next]_vars =>
        [\A r \in Runs, n \in Names :
           slot[r][n] = None /\ slot'[r][n] # None => \A q \in Runs : InQuarantine(q) = {}]_vars
  BY OnlyMovesFill, MoveSlot DEF InQuarantine
<1> QED  BY <1>1, <1>2, Invariant, PTL
            DEF Spec, CapturesGuarded, KeptWhenErased, QuarantineStops

-----------------------------------------------------------------------------
(* The refinement of RetentionPromise.                                     *)

SlotPhase(o, r, n) ==
  IF body[o] = "partial" THEN "erasing"
  ELSE IF st[r][n] = "verified" /\ want[r][n] = o THEN "approved" ELSE "held"
Nowhere(o) ==
  /\ \A n \in Names : saved[n] # o
  /\ \A r \in Runs, n \in Names : slot[r][n] # o /\ quar[r][n] # o

(* The phase and the name of every object, read off its place.             *)
Placed ==
  \A o \in Objects :
    /\ \A n \in Names : saved[n] = o => PhaseOf(o) = "saved" /\ NameOf(o) = n
    /\ \A r \in Runs, n \in Names :
         /\ slot[r][n] = o => PhaseOf(o) = SlotPhase(o, r, n) /\ NameOf(o) = n
         /\ quar[r][n] = o => PhaseOf(o) = "quarantined" /\ NameOf(o) = n
    /\ Nowhere(o) => /\ PhaseOf(o) = IF body[o] = "unborn" THEN "unborn" ELSE "gone"
                     /\ NameOf(o) = None

LEMMA Placement == Inv => Placed
<1> SUFFICES ASSUME Inv, NEW o \in Objects
             PROVE  /\ \A n \in Names : saved[n] = o => PhaseOf(o) = "saved" /\ NameOf(o) = n
                    /\ \A r \in Runs, n \in Names :
                         /\ slot[r][n] = o =>
                              PhaseOf(o) = SlotPhase(o, r, n) /\ NameOf(o) = n
                         /\ quar[r][n] = o => PhaseOf(o) = "quarantined" /\ NameOf(o) = n
                    /\ Nowhere(o) =>
                         /\ PhaseOf(o) = IF body[o] = "unborn" THEN "unborn" ELSE "gone"
                         /\ NameOf(o) = None
  BY DEF Placed
<1>a. Apart /\ o # None
  BY NonePlaced DEF Inv, Disk
<1>b. ASSUME NEW n \in Names, At(o, n)
      PROVE  NameOf(o) = n
  <2>1. \A m \in Names : At(o, m) => m = n
    BY <1>a, <1>b DEF Apart, At
  <2> QED  BY <1>b, <2>1 DEF NameOf
<1>1. ASSUME NEW n \in Names, saved[n] = o
      PROVE  PhaseOf(o) = "saved" /\ NameOf(o) = n
  BY <1>b, <1>1 DEF PhaseOf, At
<1>2. ASSUME NEW r \in Runs, NEW n \in Names, slot[r][n] = o
      PROVE  PhaseOf(o) = SlotPhase(o, r, n) /\ NameOf(o) = n
  <2>1. /\ \A m \in Names : saved[m] # o
        /\ \A q \in Runs, m \in Names : quar[q][m] # o /\ (slot[q][m] = o => q = r /\ m = n)
    BY <1>a, <1>2 DEF Apart
  <2> QED  BY <1>b, <1>2, <2>1 DEF PhaseOf, SlotOf, SlotPhase, At
<1>3. ASSUME NEW r \in Runs, NEW n \in Names, quar[r][n] = o
      PROVE  PhaseOf(o) = "quarantined" /\ NameOf(o) = n
  <2>1. \A m \in Names : saved[m] # o
    BY <1>a, <1>3 DEF Apart
  <2> QED  BY <1>b, <1>3, <2>1 DEF PhaseOf, At
<1>4. ASSUME Nowhere(o)
      PROVE  /\ PhaseOf(o) = IF body[o] = "unborn" THEN "unborn" ELSE "gone"
             /\ NameOf(o) = None
  BY <1>4 DEF Nowhere, PhaseOf, NameOf, SlotOf, At
<1> QED  BY <1>1, <1>2, <1>3, <1>4

(* A step that does not touch an object leaves its phase and its name.     *)
LEMMA Elsewhere ==
  ASSUME Placed, Placed', NEW x \in Objects,
         \A n \in Names : saved'[n] = x <=> saved[n] = x,
         \A r \in Runs, n \in Names :
           /\ slot'[r][n] = x <=> slot[r][n] = x
           /\ quar'[r][n] = x <=> quar[r][n] = x
           /\ slot[r][n] = x => (st'[r][n] = "verified" /\ want'[r][n] = x
                                 <=> st[r][n] = "verified" /\ want[r][n] = x),
         body'[x] = body[x]
  PROVE  PhaseOf(x)' = PhaseOf(x) /\ NameOf(x)' = NameOf(x)
<1>1. CASE \E n \in Names : saved[n] = x
  BY <1>1 DEF Placed
<1>2. CASE \E r \in Runs, n \in Names : slot[r][n] = x
  BY <1>2 DEF Placed, SlotPhase
<1>3. CASE \E r \in Runs, n \in Names : quar[r][n] = x
  BY <1>3 DEF Placed
<1>4. CASE Nowhere(x)
  <2>1. Nowhere(x)'
    BY <1>4 DEF Nowhere
  <2> QED  BY <1>4, <2>1 DEF Placed
<1> QED  BY <1>1, <1>2, <1>3, <1>4 DEF Nowhere

(* What the abstract variables are.                                        *)
phaseBar == [o \in Objects |-> PhaseOf(o)]
nameBar == [o \in Objects |-> NameOf(o)]
intactBar == {o \in Objects : body[o] = "whole"}

LEMMA PromiseInit == Init => Promise!PInit
<1> SUFFICES ASSUME Init PROVE Promise!PInit
  OBVIOUS
<1>1. Placed /\ TypeOK
  BY InvInit, Placement, TypeInit
<1>2. /\ \A r \in Runs, n \in Names : slot[r][n] = None /\ quar[r][n] = None
      /\ \A o \in Objects : (\A n \in Names : saved[n] # o) => body[o] = "unborn"
  BY DEF Init
<1>3. ASSUME NEW o \in Objects
      PROVE  PhaseOf(o) \in {"unborn", "saved"} /\ NameOf(o) \in Names \cup {None}
  <2>1. CASE \E n \in Names : saved[n] = o
    BY <1>1, <2>1 DEF Placed
  <2>2. CASE \A n \in Names : saved[n] # o
    <3>1. Nowhere(o)
      BY <1>2, <2>2, NonePlaced DEF Nowhere
    <3> QED  BY <1>1, <1>2, <2>2, <3>1 DEF Placed
  <2> QED  BY <2>1, <2>2
<1> QED  BY <1>3 DEF Promise!PInit, Init

LEMMA PlacedBoth ==
  ASSUME Inv, Inv'
  PROVE  Placed /\ Placed'
<1>1. Placed
  BY Placement
<1>2. Inv' => Placed'
  BY Placement, PTL
<1> QED  BY <1>1, <1>2

(* Only an occupied slot whose manifest seals it makes a phase.            *)
LEMMA PromiseStutter ==
  ASSUME Inv, Inv', UNCHANGED <<places, body, mounted>>,
         \A r \in Runs, n \in Names : slot[r][n] # None =>
           (st'[r][n] = "verified" /\ want'[r][n] = slot[r][n]
            <=> st[r][n] = "verified" /\ want[r][n] = slot[r][n])
  PROVE  UNCHANGED Promise!promiseVars
<1>1. Placed /\ Placed'
  BY PlacedBoth
<1>2. \A o \in Objects : PhaseOf(o)' = PhaseOf(o) /\ NameOf(o)' = NameOf(o)
  BY <1>1, Elsewhere, NonePlaced DEF places
<1> QED  BY <1>2 DEF Promise!promiseVars

(* Every step but these seals no occupied slot and moves nothing.          *)
Mapped(p) ==
  Move(p) \/ Seal(p) \/ StartErase(p) \/ Erase(p) \/ PutBack(p) \/ QuarantineMove(p)

LEMMA SealsStay ==
  ASSUME Inv, NEW p \in Pruners, Step(p) \/ Abort(p), ~ Mapped(p)
  PROVE  /\ UNCHANGED <<places, body, mounted>>
         /\ \A r \in Runs, n \in Names : slot[r][n] # None =>
              (st'[r][n] = "verified" /\ want'[r][n] = slot[r][n]
               <=> st[r][n] = "verified" /\ want[r][n] = slot[r][n])
<1>a. TypeOK /\ Disk /\ Control(p)
  BY DEF Inv, Course
<1>1. UNCHANGED <<places, body, mounted>>
  BY Turns
     DEF Mapped, Works, Take, Delete, Review, TakeLock, RecoverRun, RecoverItem, Sweep, MakeRun,
         WriteIntent, CheckKept, MoveBusy, NoteCaptured, Verify, Recheck, RefuseErase,
         EraseFails, NoteDeleted, Settle, PutBackFails, NoteRestored, MakeQuarantine,
         NoteQuarantined, CopyManifest, DropManifest, KeepRun, RemoveRun, places
<1>2. CASE UNCHANGED <<st, want>>
  BY <1>1, <1>2 DEF places
<1>3. CASE ~ UNCHANGED <<st, want>>
  <2> DEFINE r == run[p]
             n == Item(p)
  <2>1. \/ RecoverItem(p) \/ WriteIntent(p) \/ NoteCaptured(p) \/ RefuseErase(p)
        \/ NoteDeleted(p) \/ NoteRestored(p) \/ NoteQuarantined(p) \/ DropManifest(p)
    BY <1>3, Turns
       DEF Mapped, Works, Take, Delete, Review, TakeLock, RecoverRun, Sweep, MakeRun,
           CheckKept, MoveBusy, Verify, Recheck, EraseFails, Settle, PutBackFails,
           MakeQuarantine, CopyManifest, KeepRun, RemoveRun
  <2>2. CASE WriteIntent(p) \/ DropManifest(p)
    <3>1. r \in Runs /\ \A m \in Names : slot[r][m] = None
      BY <2>2, <1>a DEF WriteIntent, DropManifest, Control, Disk, Filed
    <3>2. \A q \in Runs : q # r => st'[q] = st[q] /\ want'[q] = want[q]
      BY <2>2, <1>a DEF WriteIntent, DropManifest, TypeOK, Holders
    <3> QED  BY <1>1, <3>1, <3>2
  <2>3. CASE ~ (WriteIntent(p) \/ DropManifest(p))
    <3>1. r \in Runs /\ n \in Names
      BY <2>1, <2>3, <1>a, InHand, ItemLeft
         DEF RecoverItem, NoteCaptured, RefuseErase, NoteDeleted, NoteRestored,
             NoteQuarantined, Control, ItemSteps
    <3>2. /\ want' = want
          /\ \A q \in Runs, m \in Names : q # r \/ m # n => st'[q][m] = st[q][m]
      BY <2>1, <2>3, <1>a, <3>1
         DEF RecoverItem, NoteCaptured, RefuseErase, NoteDeleted, NoteRestored,
             NoteQuarantined, TypeOK
    <3>3. \/ slot[r][n] = None
          \/ /\ st'[r][n] # "verified"
             /\ st[r][n] = "verified" => want[r][n] # slot[r][n]
      <4>1. CASE RecoverItem(p)
        BY <4>1, <1>3 DEF RecoverItem
      <4>2. CASE NoteCaptured(p)
        BY <4>2, <1>a, <3>1, InHand DEF NoteCaptured, Handling, ItemSteps, TypeOK
      <4>3. CASE RefuseErase(p)
        BY <4>3, <1>a, <1>3, <3>1 DEF RefuseErase, TypeOK
      <4>4. CASE NoteDeleted(p) \/ NoteRestored(p) \/ NoteQuarantined(p)
        BY <4>4, InHand DEF NoteDeleted, NoteRestored, NoteQuarantined, Handling, ItemSteps
      <4> QED  BY <2>1, <2>3, <4>1, <4>2, <4>3, <4>4
    <3> QED  BY <1>1, <3>1, <3>2, <3>3
  <2> QED  BY <2>2, <2>3
<1> QED  BY <1>1, <1>2, <1>3


(* The steps that the abstract specification sees, each told by what it    *)
(* does to one object.                                                     *)
LEMMA MapsCapture ==
  ASSUME Inv, Inv', NEW r \in Runs, NEW n \in Names, NEW o \in Objects,
         saved[n] = o, slot[r][n] = None, st[r][n] = "intent",
         slot' = [slot EXCEPT ![r][n] = o], saved' = [saved EXCEPT ![n] = None],
         UNCHANGED <<quar, body, st, want, mounted>>
  PROVE  Promise!Capture(o)
<1>a. Placed /\ Placed' /\ TypeOK /\ Content
  BY PlacedBoth DEF Inv, Disk
<1>1. /\ \A q \in Runs, m \in Names : slot'[q][m] = IF q = r /\ m = n THEN o ELSE slot[q][m]
      /\ \A m \in Names : saved'[m] = IF m = n THEN None ELSE saved[m]
  BY <1>a DEF TypeOK, Holders
<1>2. PhaseOf(o) = "saved" /\ NameOf(o) = n /\ body[o] # "partial"
  BY <1>a, NonePlaced DEF Placed, Content
<1>3. PhaseOf(o)' = "held" /\ NameOf(o)' = n
  BY <1>a, <1>1, <1>2 DEF Placed, SlotPhase
<1>4. \A x \in Objects : x # o => PhaseOf(x)' = PhaseOf(x) /\ NameOf(x)' = NameOf(x)
  BY <1>a, <1>1, NonePlaced, Elsewhere
<1> QED  BY <1>2, <1>3, <1>4 DEF Promise!Capture

LEMMA MapsRestore ==
  ASSUME Inv, Inv', NEW r \in Runs, NEW n \in Names, NEW o \in Objects,
         slot[r][n] = o, saved[n] = None, st[r][n] \in {"intent", "captured"},
         saved' = [saved EXCEPT ![n] = o], slot' = [slot EXCEPT ![r][n] = None],
         UNCHANGED <<quar, body, st, want, mounted>>
  PROVE  Promise!Restore(o)
<1>a. Placed /\ Placed' /\ TypeOK /\ Content
  BY PlacedBoth DEF Inv, Disk
<1>1. /\ \A q \in Runs, m \in Names :
           slot'[q][m] = IF q = r /\ m = n THEN None ELSE slot[q][m]
      /\ \A m \in Names : saved'[m] = IF m = n THEN o ELSE saved[m]
  BY <1>a DEF TypeOK, Holders
<1>2. PhaseOf(o) = "held" /\ NameOf(o) = n
  BY <1>a, NonePlaced DEF Placed, SlotPhase, Content
<1>3. PhaseOf(o)' = "saved" /\ NameOf(o)' = n
  BY <1>a, <1>1 DEF Placed
<1>4. \A x \in Objects : x # o => PhaseOf(x)' = PhaseOf(x) /\ NameOf(x)' = NameOf(x)
  BY <1>a, <1>1, NonePlaced, Elsewhere
<1>5. ASSUME NEW x \in Objects, PhaseOf(x) = "saved"
      PROVE  NameOf(x) # n
  <2>1. \A q \in Runs, m \in Names : slot[q][m] # x /\ quar[q][m] # x
    BY <1>a, <1>5 DEF Placed, SlotPhase
  <2>2. PICK m \in Names : saved[m] = x
    BY <1>a, <1>5, <2>1 DEF Placed, Nowhere
  <2> QED  BY <1>a, <2>2, NonePlaced DEF Placed
<1> QED  BY <1>2, <1>3, <1>4, <1>5 DEF Promise!Restore

LEMMA MapsSetAside ==
  ASSUME Inv, Inv', NEW r \in Runs, NEW n \in Names, NEW o \in Objects, slot[r][n] = o,
         quar' = [quar EXCEPT ![r][n] = o], slot' = [slot EXCEPT ![r][n] = None],
         UNCHANGED <<saved, body, st, want, mounted>>
  PROVE  Promise!SetAside(o)
<1>a. Placed /\ Placed' /\ TypeOK /\ Filed
  BY PlacedBoth DEF Inv, Disk
<1>1. /\ \A q \in Runs, m \in Names :
           slot'[q][m] = IF q = r /\ m = n THEN None ELSE slot[q][m]
      /\ \A q \in Runs, m \in Names : quar'[q][m] = IF q = r /\ m = n THEN o ELSE quar[q][m]
  BY <1>a DEF TypeOK, Holders
<1>2. PhaseOf(o) \in {"held", "approved", "erasing"} /\ NameOf(o) = n /\ quar[r][n] = None
  BY <1>a, NonePlaced DEF Placed, SlotPhase, Filed
<1>3. PhaseOf(o)' = "quarantined" /\ NameOf(o)' = n
  BY <1>a, <1>1 DEF Placed
<1>4. \A x \in Objects : x # o => PhaseOf(x)' = PhaseOf(x) /\ NameOf(x)' = NameOf(x)
  BY <1>a, <1>1, <1>2, NonePlaced, Elsewhere
<1> QED  BY <1>2, <1>3, <1>4 DEF Promise!SetAside

LEMMA MapsApprove ==
  ASSUME Inv, Inv', NEW r \in Runs, NEW n \in Names, NEW o \in Objects,
         slot[r][n] = o, want[r][n] = o, st[r][n] = "captured", body[o] = "whole",
         st' = [st EXCEPT ![r][n] = "verified"],
         UNCHANGED <<places, body, want, mounted>>
  PROVE  Promise!Approve(o)
<1> USE DEF places
<1>a. Placed /\ Placed' /\ TypeOK
  BY PlacedBoth DEF Inv
<1>1. \A q \in Runs, m \in Names : st'[q][m] = IF q = r /\ m = n THEN "verified" ELSE st[q][m]
  BY <1>a DEF TypeOK
<1>2. PhaseOf(o) = "held" /\ NameOf(o) = n
  BY <1>a DEF Placed, SlotPhase
<1>3. PhaseOf(o)' = "approved" /\ NameOf(o)' = n
  BY <1>a, <1>1 DEF Placed, SlotPhase
<1>4. \A x \in Objects : x # o => PhaseOf(x)' = PhaseOf(x) /\ NameOf(x)' = NameOf(x)
  BY <1>a, <1>1, Elsewhere
<1> QED  BY <1>2, <1>3, <1>4 DEF Promise!Approve

LEMMA MapsStartErase ==
  ASSUME Inv, Inv', NEW r \in Runs, NEW n \in Names, NEW o \in Objects, slot[r][n] = o,
         want[r][n] = o, st[r][n] = "verified", body[o] = "whole", o \notin mounted,
         body' = [body EXCEPT ![o] = "partial"],
         UNCHANGED <<places, st, want, mounted>>
  PROVE  Promise!StartErase(o)
<1> USE DEF places
<1>a. Placed /\ Placed' /\ TypeOK
  BY PlacedBoth DEF Inv
<1>1. \A x \in Objects : body'[x] = IF x = o THEN "partial" ELSE body[x]
  BY <1>a DEF TypeOK
<1>2. PhaseOf(o) = "approved" /\ NameOf(o) = n
  BY <1>a DEF Placed, SlotPhase
<1>3. PhaseOf(o)' = "erasing" /\ NameOf(o)' = n
  BY <1>a, <1>1 DEF Placed, SlotPhase
<1>4. \A x \in Objects : x # o => PhaseOf(x)' = PhaseOf(x) /\ NameOf(x)' = NameOf(x)
  BY <1>a, <1>1, Elsewhere
<1>5. {x \in Objects : body'[x] = "whole"} = {x \in Objects : body[x] = "whole"} \ {o}
  BY <1>1
<1> QED  BY <1>2, <1>3, <1>4, <1>5 DEF Promise!StartErase, places

LEMMA MapsFinishErase ==
  ASSUME Inv, Inv', NEW r \in Runs, NEW n \in Names, NEW o \in Objects, slot[r][n] = o,
         body[o] = "partial", body' = [body EXCEPT ![o] = "gone"],
         slot' = [slot EXCEPT ![r][n] = None], UNCHANGED <<saved, quar, st, want, mounted>>
  PROVE  Promise!FinishErase(o)
<1>a. Placed /\ Placed' /\ TypeOK /\ Apart
  BY PlacedBoth DEF Inv, Disk
<1>1. /\ \A x \in Objects : body'[x] = IF x = o THEN "gone" ELSE body[x]
      /\ \A q \in Runs, m \in Names :
           slot'[q][m] = IF q = r /\ m = n THEN None ELSE slot[q][m]
  BY <1>a DEF TypeOK, Holders
<1>2. PhaseOf(o) = "erasing"
  BY <1>a DEF Placed, SlotPhase
<1>3. Nowhere(o)'
  BY <1>a, <1>1, NonePlaced DEF Apart, Nowhere
<1>4. PhaseOf(o)' = "gone" /\ NameOf(o)' = None
  BY <1>a, <1>1, <1>3 DEF Placed
<1>5. \A x \in Objects : x # o => PhaseOf(x)' = PhaseOf(x) /\ NameOf(x)' = NameOf(x)
  BY <1>a, <1>1, NonePlaced, Elsewhere
<1>6. {x \in Objects : body'[x] = "whole"} = {x \in Objects : body[x] = "whole"}
  BY <1>1
<1> QED  BY <1>2, <1>4, <1>5, <1>6 DEF Promise!FinishErase

LEMMA PromiseMapped ==
  ASSUME Inv, Inv', NEW p \in Pruners, Mapped(p)
  PROVE  [Promise!PNext]_Promise!promiseVars
<1>a. TypeOK /\ Disk
  BY DEF Inv
<1>b. pc[p] \in ItemSteps
  BY DEF Mapped, Move, Seal, StartErase, Erase, PutBack, QuarantineMove, ItemSteps
<1>c. PICK r \in Runs : r = run[p]
  BY <1>b, InHand
<1>d. PICK n \in Names : n = Item(p)
  BY <1>b, InHand
<1>e. Handling(p, r, n)
  BY <1>b, <1>c, <1>d, InHand
<1>f. slot[r][n] # None => slot[r][n] \in Objects
  BY <1>a DEF TypeOK, Holders
<1>1. CASE Move(p)
  <2>1. PICK o \in Objects : saved[n] = o
    BY <1>1, <1>a, <1>d DEF Move, TypeOK
  <2>2. Promise!Capture(o)
    BY <1>1, <1>c, <1>d, <2>1, MoveSlot, MapsCapture DEF Move
  <2> QED  BY <2>2 DEF Promise!PNext
<1>2. CASE ~ Move(p)
  <2>1. PICK o \in Objects : slot[r][n] = o
    BY <1>2, <1>e, <1>f
       DEF Mapped, Seal, StartErase, Erase, PutBack, QuarantineMove, Handling
  <2> USE DEF places
  <2>2. CASE Seal(p)
    <3>1. CASE want[r][n] = o
      <4>1. st[r][n] = "captured" /\ body[o] = "whole"
        BY <2>1, <2>2, <3>1, <1>e DEF Seal, Handling
      <4>2. Promise!Approve(o)
        BY <2>1, <2>2, <3>1, <4>1, <1>c, <1>d, MapsApprove DEF Seal
      <4> QED  BY <4>2 DEF Promise!PNext
    <3>2. CASE want[r][n] # o
      <4>1. \A q \in Runs, m \in Names : q # r \/ m # n => st'[q][m] = st[q][m]
        BY <2>2, <1>a, <1>c, <1>d DEF Seal, TypeOK
      <4>2. UNCHANGED <<places, body, mounted, want>>
        BY <2>2 DEF Seal
      <4> QED  BY <2>1, <3>2, <4>1, <4>2, PromiseStutter
    <3> QED  BY <3>1, <3>2
  <2>3. CASE StartErase(p)
    <3>1. /\ st[r][n] = "verified" /\ want[r][n] = o /\ o \notin mounted
          /\ body' = [body EXCEPT ![o] = "partial"]
          /\ UNCHANGED <<places, st, want, mounted>>
      BY <2>1, <2>3, <1>c, <1>d, <1>e DEF StartErase, Handling
    <3>2. body[o] \in {"whole", "partial"}
      BY <1>a, <2>1, <3>1, NonePlaced DEF Disk, Content
    <3>3. CASE body[o] = "whole"
      <4>1. Promise!StartErase(o)
        BY <2>1, <3>1, <3>3, MapsStartErase
      <4> QED  BY <4>1 DEF Promise!PNext
    <3>4. CASE body[o] = "partial"
      <4>1. body' = body
        BY <1>a, <3>1, <3>4 DEF TypeOK
      <4> QED  BY <3>1, <4>1, PromiseStutter
    <3> QED  BY <3>2, <3>3, <3>4
  <2>4. CASE Erase(p)
    <3>1. Promise!FinishErase(o)
      BY <2>1, <2>4, <1>c, <1>d, <1>e, MapsFinishErase DEF Erase, Handling
    <3> QED  BY <3>1 DEF Promise!PNext
  <2>5. CASE PutBack(p)
    <3>1. Promise!Restore(o)
      BY <2>1, <2>5, <1>c, <1>d, <1>e, MapsRestore DEF PutBack, Handling
    <3> QED  BY <3>1 DEF Promise!PNext
  <2>6. CASE QuarantineMove(p)
    <3>1. Promise!SetAside(o)
      BY <2>1, <2>6, <1>c, <1>d, MapsSetAside DEF QuarantineMove
    <3> QED  BY <3>1 DEF Promise!PNext
  <2> QED  BY <1>2, <2>2, <2>3, <2>4, <2>5, <2>6 DEF Mapped
<1> QED  BY <1>1, <1>2

(* The owner of the backups, the operator and others.                      *)
LEMMA MapsOwner ==
  ASSUME NEW o \in Objects, NEW n \in Names \cup {None}, NEW s \in {"saved", "gone"},
         PhaseOf(o) \in {"unborn", "saved"}, PhaseOf(o)' = s, NameOf(o)' = n,
         \A x \in Objects : x # o => /\ PhaseOf(x)' = PhaseOf(x) /\ NameOf(x)' = NameOf(x)
                                     /\ body'[x] = body[x],
         mounted' = mounted \/ mounted' = mounted \ {o}
  PROVE  Promise!Owner(o)
<1>1. LET intact == {x \in Objects : body[x] = "whole"}
      IN  {x \in Objects : body'[x] = "whole"} \in {intact \cup {o}, intact \ {o}}
  BY DEF Promise!Owner
<1>2. phaseBar' \in {[phaseBar EXCEPT ![o] = "saved"], [phaseBar EXCEPT ![o] = "gone"]}
  BY DEF phaseBar
<1>3. nameBar' = [nameBar EXCEPT ![o] = n]
  BY DEF nameBar
<1> QED  BY <1>1, <1>2, <1>3 DEF Promise!Owner, phaseBar, nameBar

LEMMA PromiseSaved ==
  ASSUME Inv, Inv',
         \/ \E o \in Objects, n \in Names : Save(o, n)
         \/ \E n \in Names : Alter(n) \/ Remove(n)
         \/ \E m, n \in Names : Rename(m, n)
  PROVE  \E o \in Objects : Promise!Owner(o)
<1>a. Placed /\ Placed' /\ TypeOK /\ Disk /\ Apart'
  BY PlacedBoth DEF Inv, Disk
<1> USE DEF Meddled
<1>1. ASSUME NEW o \in Objects, NEW n \in Names, Save(o, n)
      PROVE  Promise!Owner(o)
  <2>1. /\ \A m \in Names : saved'[m] = IF m = n THEN o ELSE saved[m]
        /\ \A x \in Objects : x # o => body'[x] = body[x]
        /\ UNCHANGED <<slot, quar, st, want, mounted>> /\ saved[n] = None /\ body[o] = "unborn"
    BY <1>1, <1>a DEF Save, TypeOK
  <2>2. Nowhere(o)
    BY <1>a, <2>1, NonePlaced DEF Disk, Content, Nowhere
  <2>3. PhaseOf(o) = "unborn" /\ PhaseOf(o)' = "saved" /\ NameOf(o)' = n
    BY <1>a, <2>1, <2>2 DEF Placed
  <2>4. \A x \in Objects : x # o => PhaseOf(x)' = PhaseOf(x) /\ NameOf(x)' = NameOf(x)
    BY <1>a, <2>1, NonePlaced, Elsewhere
  <2> QED  BY <2>1, <2>3, <2>4, MapsOwner
<1>2. ASSUME NEW n \in Names, Alter(n)
      PROVE  \E o \in Objects : Promise!Owner(o)
  <2>1. PICK o \in Objects : o = saved[n]
    BY <1>2, <1>a DEF Alter, TypeOK
  <2>2. /\ \A x \in Objects : x # o => body'[x] = body[x]
        /\ UNCHANGED <<saved, slot, quar, st, want, mounted>>
    BY <1>2, <1>a, <2>1 DEF Alter, TypeOK
  <2>3. PhaseOf(o) = "saved" /\ PhaseOf(o)' = "saved" /\ NameOf(o)' = n
    BY <1>a, <2>1, <2>2 DEF Placed
  <2>4. \A x \in Objects : x # o => PhaseOf(x)' = PhaseOf(x) /\ NameOf(x)' = NameOf(x)
    BY <1>a, <2>2, Elsewhere
  <2> QED  BY <2>2, <2>3, <2>4, MapsOwner
<1>3. ASSUME NEW n \in Names, Remove(n)
      PROVE  \E o \in Objects : Promise!Owner(o)
  <2>1. PICK o \in Objects : o = saved[n]
    BY <1>3, <1>a DEF Remove, TypeOK
  <2>2. /\ \A x \in Objects : x # o => body'[x] = body[x]
        /\ \A m \in Names : saved'[m] = IF m = n THEN None ELSE saved[m]
        /\ UNCHANGED <<slot, quar, st, want>> /\ mounted' = mounted \ {o} /\ body'[o] = "gone"
    BY <1>3, <1>a, <2>1 DEF Remove, TypeOK
  <2>3. Nowhere(o)'
    BY <1>a, <2>1, <2>2, NonePlaced DEF Disk, Apart, Nowhere
  <2>4. PhaseOf(o) = "saved" /\ PhaseOf(o)' = "gone" /\ NameOf(o)' = None
    BY <1>a, <2>1, <2>2, <2>3 DEF Placed
  <2>5. \A x \in Objects : x # o => PhaseOf(x)' = PhaseOf(x) /\ NameOf(x)' = NameOf(x)
    BY <1>a, <2>1, <2>2, NonePlaced, Elsewhere
  <2> QED  BY <2>2, <2>4, <2>5, MapsOwner
<1>4. ASSUME NEW m \in Names, NEW n \in Names, Rename(m, n)
      PROVE  \E o \in Objects : Promise!Owner(o)
  <2>1. PICK o \in Objects : o = saved[m]
    BY <1>4, <1>a DEF Rename, TypeOK
  <2>2. /\ \A x \in Names : saved'[x] = IF x = m THEN None
                                        ELSE IF x = n THEN o ELSE saved[x]
        /\ UNCHANGED <<slot, quar, body, st, want, mounted>> /\ m # n /\ saved[n] = None
    BY <1>4, <1>a, <2>1 DEF Rename, TypeOK
  <2>3. PhaseOf(o) = "saved" /\ PhaseOf(o)' = "saved" /\ NameOf(o)' = n
    BY <1>a, <2>1, <2>2 DEF Placed
  <2>4. \A x \in Objects : x # o => PhaseOf(x)' = PhaseOf(x) /\ NameOf(x)' = NameOf(x)
    BY <1>a, <2>1, <2>2, NonePlaced, Elsewhere
  <2> QED  BY <2>2, <2>3, <2>4, MapsOwner
<1> QED  BY <1>1, <1>2, <1>3, <1>4

LEMMA MapsMount ==
  ASSUME Inv, Inv', NEW o \in Objects, Mount(o)
  PROVE  Promise!Owner(o)
<1>a. Placed /\ Placed'
  BY PlacedBoth
<1>1. /\ UNCHANGED <<saved, slot, quar, body, st, want>>
      /\ mounted' \in {mounted \cup {o}, mounted \ {o}}
  BY DEF Mount, Meddled
<1>2. \A x \in Objects : PhaseOf(x)' = PhaseOf(x) /\ NameOf(x)' = NameOf(x)
  BY <1>a, <1>1, Elsewhere
<1>3. UNCHANGED <<phaseBar, nameBar, intactBar>>
  BY <1>1, <1>2 DEF phaseBar, nameBar, intactBar
<1> QED  BY <1>1, <1>3 DEF Promise!Owner, phaseBar, nameBar, intactBar

LEMMA MapsDispose ==
  ASSUME Inv, Inv', NEW r \in Runs, Resolve(r)
  PROVE  Promise!Dispose
<1> DEFINE S == {quar[r][n] : n \in InQuarantine(r)}
<1>a. Placed /\ Placed' /\ TypeOK /\ Disk
  BY PlacedBoth DEF Inv
<1>1. /\ \A q \in Runs, n \in Names : quar'[q][n] = IF q = r THEN None ELSE quar[q][n]
      /\ \A x \in Objects : body'[x] = IF x \in S THEN "gone" ELSE body[x]
      /\ mounted' = mounted \ S /\ UNCHANGED <<saved, slot, st, want>>
  BY <1>a DEF Resolve, TypeOK, Holders
<1>2. ASSUME NEW x \in S
      PROVE  /\ x \in Objects /\ PhaseOf(x) = "quarantined"
             /\ PhaseOf(x)' = "gone" /\ NameOf(x)' = None
  <2>1. PICK n \in Names : quar[r][n] = x /\ x # None
    BY DEF InQuarantine
  <2>2. x \in Objects
    BY <1>a, <2>1 DEF TypeOK, Holders
  <2>3. Nowhere(x)'
    BY <1>a, <1>1, <2>1, <2>2 DEF Disk, Apart, Nowhere
  <2> QED  BY <1>a, <1>1, <2>1, <2>2, <2>3 DEF Placed
<1>3. ASSUME NEW x \in Objects, x \notin S
      PROVE  PhaseOf(x)' = PhaseOf(x) /\ NameOf(x)' = NameOf(x)
  <2>1. \A q \in Runs, n \in Names : quar'[q][n] = x <=> quar[q][n] = x
    BY <1>1, <1>3, NonePlaced DEF InQuarantine
  <2> QED  BY <1>a, <1>1, <1>3, <2>1, Elsewhere
<1> HIDE DEF S
<1>4. S \in SUBSET {x \in Objects : PhaseOf(x) = "quarantined"}
  BY <1>2
<1>5. phaseBar' = [x \in Objects |-> IF x \in S THEN "gone" ELSE phaseBar[x]]
  BY <1>2, <1>3 DEF phaseBar
<1>6. nameBar' = [x \in Objects |-> IF x \in S THEN None ELSE nameBar[x]]
  BY <1>2, <1>3 DEF nameBar
<1>7. intactBar' = intactBar \ S
  BY <1>1 DEF intactBar
<1>8. S \in SUBSET {x \in Objects : phaseBar[x] = "quarantined"}
  BY <1>4 DEF phaseBar
<1> QED  BY <1>1, <1>5, <1>6, <1>7, <1>8 DEF Promise!Dispose, phaseBar, nameBar, intactBar

LEMMA MapsExchange ==
  ASSUME Inv, Inv', NEW r \in Runs, NEW n \in Names, NEW y \in Objects, Exchange(r, n, y)
  PROVE  \E o \in Objects : Promise!Exchange(o, y)
<1>a. Placed /\ Placed' /\ TypeOK /\ Disk
  BY PlacedBoth DEF Inv
<1>1. PICK o \in Objects : slot[r][n] = o
  BY <1>a DEF Exchange, TypeOK, Holders
<1>2. /\ \A q \in Runs, m \in Names : slot'[q][m] = IF q = r /\ m = n THEN y ELSE slot[q][m]
      /\ \A x \in Objects : body'[x] = IF x = y THEN "whole" ELSE body[x]
      /\ UNCHANGED <<saved, quar, st, want, mounted>>
      /\ body[y] = "unborn" /\ body[o] # "partial"
  BY <1>a, <1>1 DEF Exchange, TypeOK, Holders
<1>3. /\ Nowhere(y) /\ want[r][n] # y /\ body[o] # "unborn" /\ o # y
  BY <1>a, <1>1, <1>2, NonePlaced DEF Disk, Content, Nowhere
<1>4. Nowhere(o)'
  BY <1>a, <1>1, <1>2, <1>3, NonePlaced DEF Disk, Apart, Nowhere
<1>5. /\ PhaseOf(o) \in {"held", "approved"} /\ NameOf(o) = n /\ PhaseOf(y) = "unborn"
  BY <1>a, <1>1, <1>2, <1>3 DEF Placed, SlotPhase
<1>6. /\ PhaseOf(o)' = "gone" /\ NameOf(o)' = None
  BY <1>a, <1>2, <1>3, <1>4 DEF Placed
<1>7. /\ PhaseOf(y)' = "held" /\ NameOf(y)' = n
  BY <1>a, <1>2, <1>3 DEF Placed, SlotPhase
<1>8. \A x \in Objects : x # o /\ x # y => PhaseOf(x)' = PhaseOf(x) /\ NameOf(x)' = NameOf(x)
  BY <1>a, <1>1, <1>2, Elsewhere
<1>9. phaseBar' = [phaseBar EXCEPT ![o] = "gone", ![y] = "held"]
  BY <1>3, <1>6, <1>7, <1>8 DEF phaseBar
<1>10. nameBar' = [nameBar EXCEPT ![o] = None, ![y] = nameBar[o]]
  BY <1>3, <1>5, <1>6, <1>7, <1>8 DEF nameBar
<1>11. intactBar' = intactBar \cup {y}
  BY <1>2 DEF intactBar
<1>12. phaseBar[o] \in {"held", "approved"} /\ phaseBar[y] = "unborn"
  BY <1>5 DEF phaseBar
<1> QED
  BY <1>2, <1>9, <1>10, <1>11, <1>12 DEF Promise!Exchange, phaseBar, nameBar, intactBar

LEMMA PromiseNext ==
  ASSUME Inv, Inv', [Next]_vars
  PROVE  [Promise!PNext]_Promise!promiseVars
<1>1. CASE Others
  <2>1. ASSUME NEW o \in Objects, Quiesce(o)
        PROVE  UNCHANGED Promise!promiseVars
    BY <2>1, PromiseStutter DEF Quiesce, Meddled, places
  <2> QED
    BY <1>1, <2>1, PromiseSaved, MapsMount, MapsDispose, MapsExchange
       DEF Others, Promise!PNext
<1>2. ASSUME NEW p \in Pruners, Step(p) \/ Abort(p)
      PROVE  [Promise!PNext]_Promise!promiseVars
  <2>1. CASE Mapped(p)
    BY <2>1, PromiseMapped
  <2>2. CASE ~ Mapped(p)
    BY <1>2, <2>2, SealsStay, PromiseStutter
  <2> QED  BY <2>1, <2>2
<1>3. CASE UNCHANGED vars
  BY <1>3, PromiseStutter DEF vars, places
<1> QED  BY <1>1, <1>2, <1>3 DEF Next

(* The capture protocol keeps what the retention promises: every step is a *)
(* step of RetentionPromise or none.                                       *)
THEOREM PromiseCorrect == Spec => PromiseKept
<1>1. Inv /\ Inv' /\ [Next]_vars => [Promise!PNext]_Promise!promiseVars
  BY PromiseNext
<1> QED  BY <1>1, PromiseInit, Invariant, PTL DEF Spec, PromiseKept, Promise!PSpec
=============================================================================
