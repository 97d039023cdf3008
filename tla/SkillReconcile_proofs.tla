----------------------- MODULE SkillReconcile_proofs -----------------------
(* Proofs about SkillReconcile, for every set of Skills, contents and      *)
(* commands, also several at once, and every bound.                        *)
EXTENDS
  SkillReconcile, Governance, SkillImport, SequenceTheorems, WellFoundedInduction, TLAPS

Delivering == {"link", "create", "migrate", "update"}
Replacing == {"migrate", "update", "remove"}
Swapped == {"install", "unswap", "drop"}
Taking == {"snapshot", "revalidate", "swap", "unswap", "drop", "restore", "failed"}

CatalogOK ==
  /\ source \in [Skills -> Versions] /\ selected \subseteq Skills /\ linkmode \in Modes
  /\ excused \subseteq Skills /\ meddles \in 0..MaxMeddle /\ faults \in 0..MaxFaults
DiskOK ==
  /\ dest \in [Skills -> Nodes \cup {None}] /\ owned \in Records
  /\ spare \in [Skills -> SUBSET Nodes] /\ litter \in [Skills -> SUBSET Nodes]
TaskOK ==
  /\ cmd \in [Procs -> {"apply", "sync", None}] /\ mode \in [Procs -> Modes \cup {None}]
  /\ plan \in [Procs -> [Skills -> [do: Acts, digest: Versions \cup {None}]]]
  /\ chosen \in [Procs -> SUBSET Skills] /\ todo \in [Procs -> SUBSET Skills]
  /\ memo \in [Procs -> Records]
ActionOK ==
  /\ pc \in [Procs -> States]
  /\ at \in [Procs -> Skills \cup {None}]
  /\ want \in [Procs -> Nodes \cup {None}] /\ old \in [Procs -> Nodes \cup {None}]
  /\ saved \in [Procs -> BOOLEAN] /\ late \in [Procs -> BOOLEAN]

(* What a command holds at each of its steps.                              *)
Grip(p) ==
  /\ pc[p] \in Running \cup {"checkpoint", "rollback"} => at[p] \in Skills
  /\ saved[p] => want[p] # None
  /\ pc[p] = "snapshot" => want[p] # None
  /\ pc[p] \in Swapped \cup {"restore"} => old[p] # None

(* A plan that delivers names the content, and each step belongs to an     *)
(* action that takes it.                                                   *)
Track(p) ==
  /\ \A n \in Skills : plan[p][n].do \in Delivering => plan[p][n].digest \in Versions
  /\ \A n \in todo[p] : plan[p][n].do \in Changing
  /\ pc[p] \in {"idle", "reviewed"} => todo[p] = {}
  /\ pc[p] \in {"start", "checkpoint"} => Act(p) \in Changing
  /\ pc[p] = "put" => Creates(p)
  /\ pc[p] \in {"validate", "install"} => Act(p) \in {"migrate", "update"}
  /\ pc[p] \in Taking => Act(p) \in Replacing

(* Nothing torn is at a destination, or on its way there.                  *)
Sound(p) ==
  /\ want[p] # None => want[p].data # "torn"
  /\ pc[p] \in Swapped => old[p].data # "torn"

GripOK == \A p \in Procs : Grip(p)
TrackOK == \A p \in Procs : Track(p)
SoundOK == \A p \in Procs : Sound(p)

SkillInv ==
  CatalogOK /\ DiskOK /\ TaskOK /\ ActionOK /\ GripOK /\ TrackOK /\ SoundOK /\ InstalledWhole

LEMMA InvTypes == SkillInv => TypeOK
  BY DEF SkillInv, TypeOK, CatalogOK, DiskOK, TaskOK, ActionOK, GripOK, Grip, Swapped

-----------------------------------------------------------------------------
(* What lies at a destination, or can be put there.                        *)
LEMMA NodeFacts ==
  /\ Link \in Nodes /\ Link.data # "torn"
  /\ \A v \in Versions : Copy(v) \in Nodes /\ Copy(v).data # "torn"
  /\ OwnLink \in Nodes /\ OwnLink.data # "torn"
  /\ OwnTree \in Nodes /\ OwnTree.data # "torn"
  /\ \A x \in Nodes : Torn(x) \in Nodes /\ x # None
  /\ \A x \in Nodes : x.mark \in Versions \cup {None}
  BY VersionsAssumption, NoneAssumption DEF Nodes, Link, Copy, OwnLink, OwnTree, Torn

(* Nothing is installed, recorded or running at the start.                 *)
LEMMA InitInv == Init => SkillInv
  <1> SUFFICES ASSUME Init PROVE SkillInv
    OBVIOUS
  <1>1. CatalogOK
    BY BoundsAssumption DEF Init, CatalogOK
  <1>2. DiskOK
    BY DEF Init, DiskOK, Records
  <1>3. NoPlan \in [Skills -> [do: Acts, digest: Versions \cup {None}]]
    BY DEF NoPlan, Acts
  <1>4. TaskOK
    BY <1>3 DEF Init, TaskOK, Records
  <1>5. ActionOK
    BY DEF Init, ActionOK, States
  <1>6. \A p \in Procs : pc[p] = "idle" /\ plan[p] = NoPlan /\ todo[p] = {} /\ want[p] = None
                         /\ ~ saved[p]
    BY DEF Init
  <1>7. GripOK /\ SoundOK
    BY <1>6 DEF GripOK, Grip, SoundOK, Sound, Running, Swapped
  <1>8. TrackOK
    BY <1>6 DEF TrackOK, Track, Taking, NoPlan, Delivering
  <1>9. InstalledWhole
    BY DEF Init, InstalledWhole
  <1> QED BY <1>1, <1>2, <1>4, <1>5, <1>7, <1>8, <1>9 DEF SkillInv

(* A plan is well formed, and what it delivers is the content of a source. *)
LEMMA PlanFacts ==
  ASSUME CatalogOK, DiskOK, NEW m \in Modes
  PROVE  /\ PlanOf(m) \in [Skills -> [do: Acts, digest: Versions \cup {None}]]
         /\ \A n \in Skills : PlanOf(m)[n].do \in Delivering => PlanOf(m)[n].digest \in Versions
  <1>1. \A n \in Skills : Do(n, m) \in Acts
    BY DEF Do, PlanLink, PlanCopy, PlanRemoval, Acts, Changing
  <1>2. \A n \in Skills : Do(n, m) \in Delivering => n \in selected
    BY DEF Do, PlanRemoval, Delivering
  <1>3. \A n \in Skills : n \notin selected /\ Do(n, m) = "remove" => dest[n] \in Nodes
    BY DEF Do, PlanRemoval, DiskOK
  <1>4. \A n \in Skills : source[n] \in Versions
    BY DEF CatalogOK
  <1>5. \A n \in Skills :
          (IF n \in selected THEN source[n] ELSE IF Do(n, m) = "remove" THEN dest[n].mark ELSE None)
            \in Versions \cup {None}
    BY <1>3, <1>4, NodeFacts
  <1> QED BY <1>1, <1>2, <1>4, <1>5 DEF PlanOf

-----------------------------------------------------------------------------
PartsOK == TaskOK /\ ActionOK /\ GripOK /\ TrackOK /\ SoundOK

(* A command that ends keeps nothing but a verified backup and a swap.     *)
LEMMA LeaveParts ==
  ASSUME SkillInv, NEW p \in Procs, NEW kept \in BOOLEAN, kept => saved[p], Leave(p, kept)
  PROVE  /\ PartsOK'
         /\ spare' \in [Skills -> SUBSET Nodes] /\ litter' \in [Skills -> SUBSET Nodes]
  <1> USE DEF SkillInv
  <1>1. litter' \in [Skills -> SUBSET Nodes]
    BY DEF Leave, DiskOK, ActionOK
  <1>2. spare' \in [Skills -> SUBSET Nodes]
    <2>1. CASE ~ kept
      BY <2>1 DEF Leave, DiskOK
    <2>2. CASE kept
      <3>1. want[p] \in Nodes
        BY <2>2 DEF GripOK, Grip, ActionOK
      <3>2. spare' = [spare EXCEPT ![at[p]] = @ \cup {want[p]}]
        BY <2>2 DEF Leave
      <3>3. CASE at[p] \in Skills
        BY <3>1, <3>2, <3>3 DEF DiskOK
      <3>4. CASE at[p] \notin Skills
        BY <3>2, <3>4 DEF DiskOK
      <3> QED BY <3>3, <3>4
    <2> QED BY <2>1, <2>2
  <1>3. NoPlan \in [Skills -> [do: Acts, digest: Versions \cup {None}]]
    BY DEF NoPlan, Acts
  <1>4. TaskOK'
    BY <1>3 DEF Leave, TaskOK, Records
  <1>5. ActionOK'
    BY DEF Leave, ActionOK, States
  <1>6. GripOK' /\ SoundOK'
    BY DEF Leave, GripOK, Grip, SoundOK, Sound, ActionOK, Running, Swapped
  <1>7. TrackOK'
    <2>1. \A q \in Procs \ {p} : Track(q)'
      BY DEF Leave, TrackOK, Track, Taking, TaskOK, ActionOK, Act, Creates
    <2>2. Track(p)'
      BY DEF Leave, TrackOK, Track, Taking, TaskOK, ActionOK, NoPlan, Delivering
    <2> QED BY <2>1, <2>2 DEF TrackOK
  <1> QED BY <1>1, <1>2, <1>4, <1>5, <1>6, <1>7 DEF PartsOK

(* A failure inside an action leads to the rollback or to the end.         *)
LEMMA FailParts ==
  ASSUME SkillInv, NEW p \in Procs, NEW kept \in BOOLEAN, kept => saved[p],
         pc[p] \in Running, Fail(p, kept)
  PROVE  /\ PartsOK'
         /\ spare' \in [Skills -> SUBSET Nodes] /\ litter' \in [Skills -> SUBSET Nodes]
  <1>1. CASE Checkpointed(p)
    <2>1. UNCHANGED <<spare, litter, task, action>> /\ pc' = [pc EXCEPT ![p] = "rollback"]
      BY <1>1 DEF Fail
    <2>2. TaskOK' /\ ActionOK'
      BY <2>1 DEF SkillInv, TaskOK, ActionOK, task, action, States
    <2>3. GripOK' /\ SoundOK'
      BY <2>1 DEF SkillInv, GripOK, Grip, SoundOK, Sound, ActionOK, action, Swapped
    <2>4. TrackOK'
      BY <2>1 DEF SkillInv, TrackOK, Track, Taking, ActionOK, task, action, Act, Creates
    <2> QED BY <2>1, <2>2, <2>3, <2>4 DEF SkillInv, DiskOK, PartsOK
  <1>2. CASE ~ Checkpointed(p)
    BY <1>2, LeaveParts DEF Fail
  <1> QED BY <1>1, <1>2
LEMMA FaultBound == SkillInv /\ (Fault \/ UNCHANGED faults) => faults' \in 0..MaxFaults
  BY BoundsAssumption DEF SkillInv, CatalogOK, Fault

(* A step that leaves destinations, record and sources alone.              *)
LEMMA AsideInv ==
  ASSUME SkillInv, PartsOK',
         spare' \in [Skills -> SUBSET Nodes], litter' \in [Skills -> SUBSET Nodes],
         UNCHANGED <<dest, owned, catalog, meddles>>,
         excused' \subseteq Skills, Fault \/ UNCHANGED faults
  PROVE  SkillInv'
  <1>1. CatalogOK'
    BY FaultBound DEF SkillInv, CatalogOK, catalog
  <1>2. DiskOK' /\ InstalledWhole'
    BY DEF SkillInv, DiskOK, InstalledWhole
  <1> QED BY <1>1, <1>2 DEF SkillInv, PartsOK

(* A step that only moves the control state, or changes nothing else than  *)
(* disk and history.                                                       *)
LEMMA MoveParts ==
  ASSUME SkillInv, NEW p \in Procs, NEW to \in States \ {"idle", "reviewed"},
         pc' = [pc EXCEPT ![p] = to],
         UNCHANGED <<task, action>>,
         to \in Running \cup {"checkpoint", "rollback"} => at[p] \in Skills,
         to \in {"snapshot"} => want[p] # None,
         to \in Swapped \cup {"restore"} => old[p] # None,
         to \in Swapped => old[p].data # "torn",
         to \in {"start", "checkpoint"} => Act(p) \in Changing,
         to = "put" => Creates(p),
         to \in {"validate", "install"} => Act(p) \in {"migrate", "update"},
         to \in Taking => Act(p) \in Replacing
  PROVE  PartsOK'
  <1>1. TaskOK' /\ ActionOK'
    BY DEF SkillInv, TaskOK, ActionOK, task, action
  <1>2. \A q \in Procs : Grip(q)'
    BY DEF SkillInv, GripOK, Grip, ActionOK, action
  <1>3. \A q \in Procs : Track(q)'
    BY DEF SkillInv, TrackOK, Track, Taking, ActionOK, task, action, Act, Creates
  <1>4. \A q \in Procs : Sound(q)'
    BY DEF SkillInv, SoundOK, Sound, ActionOK, action
  <1> QED BY <1>1, <1>2, <1>3, <1>4 DEF PartsOK, GripOK, TrackOK, SoundOK

-----------------------------------------------------------------------------
(* The command up to its first action.                                     *)
LEMMA PrepareInv ==
  ASSUME SkillInv, NEW p \in Procs, Prepare(p)
  PROVE  SkillInv'
  <1> USE DEF SkillInv
  <1>1. CASE Review(p)
    <2> DEFINE Fresh == PlanOf(linkmode)
    <2>1. /\ Fresh \in [Skills -> [do: Acts, digest: Versions \cup {None}]]
          /\ \A n \in Skills : Fresh[n].do \in Delivering => Fresh[n].digest \in Versions
      BY PlanFacts DEF CatalogOK
    <2>2. plan' = [plan EXCEPT ![p] = Fresh] /\ pc' = [pc EXCEPT ![p] = "reviewed"]
      BY <1>1 DEF Review, Goto
    <2>3. linkmode \in Modes /\ (\A c \in Commands : c \in {"apply", "sync", None})
      BY CommandsAssumption DEF CatalogOK
    <2>4. pc[p] = "idle"
      BY <1>1 DEF Review, Goto
    <2> HIDE DEF Fresh
    <2>5. TaskOK'
      BY <1>1, <2>1, <2>2, <2>3 DEF TaskOK, Review
    <2>6. ActionOK' /\ GripOK' /\ SoundOK'
      BY <1>1, <2>2 DEF ActionOK, GripOK, Grip, SoundOK, Sound, Review, action, States,
                        Running, Swapped
    <2>7. \A q \in Procs : Track(q)'
      BY <1>1, <2>1, <2>2, <2>4 DEF TrackOK, Track, Taking, TaskOK, ActionOK, Review, action, Act,
                                   Creates
    <2> QED BY <1>1, <2>5, <2>6, <2>7, AsideInv DEF Review, PartsOK, TrackOK, DiskOK, disk,
                                                 CatalogOK
  <1>2. CASE Refuse(p)
    BY <1>2, LeaveParts, AsideInv DEF Refuse, CatalogOK
  <1>3. CASE Begin(p)
    <2>1. pc[p] = "reviewed" /\ pc' = [pc EXCEPT ![p] = "next"]
      BY <1>3 DEF Begin, Goto
    <2>2. TaskOK'
      BY <1>3 DEF Begin, TaskOK, CatalogOK, DiskOK
    <2>3. ActionOK' /\ GripOK' /\ SoundOK'
      BY <1>3, <2>1 DEF Begin, ActionOK, GripOK, Grip, SoundOK, Sound, action, States,
                        Running, Swapped
    <2>4. \A q \in Procs : Track(q)'
      BY <1>3, <2>1 DEF Begin, TrackOK, Track, Taking, TaskOK, ActionOK, action, Act, Creates
    <2> QED BY <1>3, <2>2, <2>3, <2>4, AsideInv DEF Begin, PartsOK, TrackOK, DiskOK, disk,
                                                 CatalogOK
  <1>4. CASE Pick(p)
    <2>1. PICK n \in todo[p] :
            /\ at' = [at EXCEPT ![p] = n]
            /\ \E to \in {"checkpoint", "start"} :
                 /\ pc' = [pc EXCEPT ![p] = to]
      BY <1>4 DEF Pick
    <2>2. pc[p] = "next" /\ n \in Skills /\ plan[p][n].do \in Changing
      BY <1>4, <2>1 DEF Pick, TaskOK, TrackOK, Track, Taking
    <2>3. TaskOK' /\ ActionOK'
      BY <1>4, <2>1, <2>2 DEF Pick, TaskOK, ActionOK, task, States, Running
    <2>4. GripOK' /\ SoundOK'
      BY <1>4, <2>1, <2>2 DEF Pick, GripOK, Grip, SoundOK, Sound, ActionOK, Swapped
    <2>5. \A q \in Procs : Track(q)'
      BY <1>4, <2>1, <2>2 DEF Pick, TrackOK, Track, Taking, TaskOK, ActionOK, task, Act, Creates
    <2> QED BY <1>4, <2>3, <2>4, <2>5, AsideInv DEF Pick, PartsOK, TrackOK, DiskOK, disk,
                                                 CatalogOK
  <1>5. CASE Checkpoint(p)
    <2>1. pc[p] = "checkpoint" /\ pc' = [pc EXCEPT ![p] = "start"]
      BY <1>5 DEF Checkpoint, Goto
    <2>2. "start" \in States \ {"idle", "reviewed"} /\ at[p] \in Skills /\ Act(p) \in Changing
      BY <2>1 DEF GripOK, Grip, TrackOK, Track, Taking, States, Running
    <2>3. PartsOK'
      BY <1>5, <2>1, <2>2, MoveParts DEF Checkpoint, Swapped, Taking
    <2>4. owned' \in Records
      BY <1>5, <2>2 DEF Checkpoint, TaskOK, Records
    <2>5. DiskOK' /\ CatalogOK' /\ InstalledWhole'
      BY <1>5, <2>4 DEF Checkpoint, DiskOK, CatalogOK, InstalledWhole, catalog
    <2> QED BY <2>3, <2>5 DEF PartsOK
  <1>6. CASE Rollback(p)
    <2>1. PartsOK' /\ spare' \in [Skills -> SUBSET Nodes] /\ litter' \in [Skills -> SUBSET Nodes]
      BY <1>6, LeaveParts DEF Rollback
    <2>2. owned' \in Records
      BY <1>6 DEF Rollback, TaskOK
    <2>3. DiskOK' /\ CatalogOK' /\ InstalledWhole'
      BY <1>6, <2>1, <2>2 DEF Rollback, DiskOK, CatalogOK, InstalledWhole, catalog
    <2> QED BY <2>1, <2>3 DEF PartsOK
  <1> QED BY <1>1, <1>2, <1>3, <1>4, <1>5, <1>6 DEF Prepare

(* A failing step of an action.                                            *)
LEMMA FailInv ==
  ASSUME SkillInv, NEW p \in Procs, NEW kept \in BOOLEAN, kept => saved[p],
         pc[p] \in Running, Fail(p, kept),
         UNCHANGED <<dest, owned, catalog, meddles>>,
         excused' \subseteq Skills, Fault \/ UNCHANGED faults
  PROVE  SkillInv'
  BY FailParts, AsideInv

(* A step that only goes on.                                               *)
LEMMA MoveInv ==
  ASSUME SkillInv, PartsOK',
         UNCHANGED <<disk, catalog, excused, meddles>>, Fault \/ UNCHANGED faults
  PROVE  SkillInv'
  BY AsideInv DEF disk, SkillInv, DiskOK, CatalogOK

(* What is put at a destination is whole.                                  *)
LEMMA DestInv ==
  ASSUME SkillInv, PartsOK', NEW n \in Skills, NEW x \in Nodes \cup {None},
         x # None => x.data # "torn", dest' = [dest EXCEPT ![n] = x],
         UNCHANGED <<owned, spare, litter, catalog, meddles, faults>>, excused' \subseteq Skills
  PROVE  SkillInv'
  <1>1. CatalogOK' /\ DiskOK'
    BY DEF SkillInv, CatalogOK, DiskOK, catalog
  <1>2. InstalledWhole'
    BY DEF SkillInv, InstalledWhole, DiskOK
  <1> QED BY <1>1, <1>2 DEF SkillInv, PartsOK

(* What an action makes is a link or a copy of the planned content.        *)
LEMMA MadeFacts ==
  ASSUME SkillInv, NEW p \in Procs, at[p] \in Skills, Act(p) \in Delivering
  PROVE  Made(p) \in Nodes /\ Made(p).data # "torn"
  <1>1. Digest(p) \in Versions
    BY DEF SkillInv, TrackOK, Track, Taking, Act, Digest
  <1> QED BY <1>1, NodeFacts DEF Made

-----------------------------------------------------------------------------
LEMMA CreateInv ==
  ASSUME SkillInv, NEW p \in Procs, Create(p)
  PROVE  SkillInv'
  <1> USE DEF SkillInv
  <1>1. CASE Stage(p)
    <2>1. pc[p] = "start" /\ at[p] \in Skills /\ Act(p) \in Changing
      BY <1>1 DEF Stage, Goto, GripOK, Grip, TrackOK, Track, Taking, Running
    <2>2. PICK to \in {"put", "validate"} :
            /\ pc' = [pc EXCEPT ![p] = to]
            /\ to = "put" => Creates(p)
            /\ to = "validate" => Act(p) \in {"migrate", "update"}
      BY <1>1, <2>1 DEF Stage, Goto, Changing, Creates
    <2>3. PartsOK'
      BY <1>1, <2>1, <2>2, MoveParts DEF Stage, States, Running, Swapped, Taking
    <2> QED BY <1>1, <2>3, MoveInv DEF Stage
  <1>2. CASE StageFails(p)
    BY <1>2, FailInv DEF StageFails, Running, CatalogOK
  <1>3. CASE Put(p)
    <2>1. pc[p] = "put" /\ at[p] \in Skills /\ Act(p) \in Delivering
      BY <1>3 DEF Put, Goto, GripOK, Grip, TrackOK, Track, Taking, Running, Creates, Delivering
    <2>2. PartsOK'
      BY <1>3, <2>1, MoveParts DEF Put, Goto, States, Running, Swapped, Taking
    <2>3. excused' \subseteq Skills
      BY <1>3, <2>1 DEF Put, CatalogOK
    <2> QED BY <1>3, <2>1, <2>2, <2>3, MadeFacts, DestInv DEF Put
  <1>4. CASE PutRefused(p)
    BY <1>4, FailInv DEF PutRefused, Running, CatalogOK
  <1> QED BY <1>1, <1>2, <1>3, <1>4 DEF Create

LEMMA ReplaceInv ==
  ASSUME SkillInv, NEW p \in Procs, Replace(p)
  PROVE  SkillInv'
  <1> USE DEF SkillInv
  <1>1. CASE Validate(p)
    <2>1. CASE Expected(p)
      <3>1. PICK to \in {"unlink", "snapshot"} :
              /\ pc' = [pc EXCEPT ![p] = to]
              /\ to = "snapshot" => Act(p) # "unlink"
        BY <1>1, <2>1 DEF Validate
      <3>2. /\ want' = [want EXCEPT ![p] = dest[at[p]]]
            /\ UNCHANGED <<dest, owned, spare, litter, catalog, task, at, saved, old, late>>
            /\ UNCHANGED <<excused, meddles, faults>>
        BY <1>1, <2>1 DEF Validate
      <3>3. at[p] \in Skills /\ dest[at[p]] \in Nodes /\ dest[at[p]].data # "torn"
        <4>1. at[p] \in Skills
          BY <1>1 DEF Validate, GripOK, Grip, Running
        <4>2. dest[at[p]] # None
          BY <2>1, NodeFacts DEF Expected, Intact
        <4> QED BY <4>1, <4>2 DEF DiskOK, InstalledWhole
      <3>4. Act(p) \in {"migrate", "update", "unlink", "remove"}
        BY <1>1 DEF Validate, TrackOK, Track, Taking
      <3>5. TaskOK' /\ ActionOK'
        BY <3>1, <3>2, <3>3 DEF TaskOK, ActionOK, task, States, Running
      <3>6. GripOK' /\ SoundOK'
        BY <3>1, <3>2, <3>3, NodeFacts DEF GripOK, Grip, SoundOK, Sound, ActionOK, Swapped
      <3>7. \A q \in Procs : Track(q)'
        BY <3>1, <3>2, <3>4 DEF TrackOK, Track, Taking, ActionOK, task, Act, Creates, Replacing
      <3> QED BY <3>2, <3>5, <3>6, <3>7, MoveInv DEF PartsOK, TrackOK, disk
    <2>2. CASE ~ Expected(p)
      BY <1>1, <2>2, FailInv DEF Validate, Running, CatalogOK
    <2> QED BY <2>1, <2>2
  <1>2. CASE Snapshot(p)
    <2>1. pc[p] = "snapshot" /\ pc' = [pc EXCEPT ![p] = "revalidate"]
      BY <1>2 DEF Snapshot, Goto
    <2>2. TaskOK' /\ ActionOK'
      BY <1>2, <2>1 DEF Snapshot, TaskOK, ActionOK, task, States, Running
    <2>3. GripOK' /\ SoundOK'
      BY <1>2, <2>1 DEF Snapshot, GripOK, Grip, SoundOK, Sound, ActionOK, Swapped, Running
    <2>4. \A q \in Procs : Track(q)'
      BY <1>2, <2>1 DEF Snapshot, TrackOK, Track, Taking, ActionOK, task, Act, Creates
    <2> QED BY <1>2, <2>2, <2>3, <2>4, MoveInv DEF Snapshot, PartsOK, TrackOK
  <1>3. CASE SnapshotFails(p)
    BY <1>3, FailInv DEF SnapshotFails, Running, CatalogOK
  <1>4. CASE Revalidate(p)
    <2>1. CASE dest[at[p]] = want[p]
      <3>1. /\ pc[p] = "revalidate" /\ pc' = [pc EXCEPT ![p] = "swap"]
            /\ UNCHANGED <<task, action>>
            /\ UNCHANGED <<disk, catalog, excused, meddles, faults>>
        BY <1>4, <2>1 DEF Revalidate, disk
      <3>2. at[p] \in Skills /\ Act(p) \in Replacing
        BY <3>1 DEF GripOK, Grip, TrackOK, Track, Taking, Running
      <3>3. PartsOK'
        BY <3>1, <3>2, MoveParts DEF States, Running, Swapped, Taking
      <3> QED BY <3>1, <3>3, MoveInv
    <2>2. CASE dest[at[p]] # want[p]
      BY <1>4, <2>2, FailInv DEF Revalidate, Running, CatalogOK
    <2> QED BY <2>1, <2>2
  <1>5. CASE Swap(p)
    <2>1. PICK to \in {"drop", "install"} :
            /\ pc' = [pc EXCEPT ![p] = to]
            /\ to = "install" => Act(p) # "remove"
      BY <1>5 DEF Swap, Goto
    <2>2. at[p] \in Skills /\ Act(p) \in Replacing
      BY <1>5 DEF Swap, Goto, GripOK, Grip, TrackOK, Track, Taking, Running
    <2>3. dest[at[p]] \in Nodes /\ dest[at[p]].data # "torn"
      BY <1>5, <2>2 DEF Swap, DiskOK, InstalledWhole
    <2>4. TaskOK' /\ ActionOK'
      BY <1>5, <2>1, <2>3 DEF Swap, TaskOK, ActionOK, task, States, Running
    <2>5. GripOK' /\ SoundOK'
      BY <1>5, <2>1, <2>2, <2>3, NodeFacts
         DEF Swap, GripOK, Grip, SoundOK, Sound, ActionOK
    <2>6. \A q \in Procs : Track(q)'
      BY <1>5, <2>1, <2>2 DEF Swap, TrackOK, Track, Taking, ActionOK, task, Act, Creates, Replacing
    <2> QED BY <1>5, <2>2, <2>4, <2>5, <2>6, DestInv DEF Swap, PartsOK, TrackOK, CatalogOK
  <1>6. CASE SwapFails(p)
    BY <1>6, FailInv DEF SwapFails, Running, CatalogOK
  <1>7. CASE Install(p)
    <2>1. /\ pc[p] = "install" /\ at[p] \in Skills
          /\ Act(p) \in Delivering /\ Act(p) \in Replacing
          /\ old[p] # None /\ old[p].data # "torn"
      BY <1>7 DEF Install, Goto, GripOK, Grip, TrackOK, Track, Taking, SoundOK, Sound, Running,
                  Swapped, Delivering, Replacing
    <2>2. PartsOK'
      BY <1>7, <2>1, MoveParts DEF Install, Goto, States, Running, Taking
    <2> QED BY <1>7, <2>1, <2>2, MadeFacts, DestInv DEF Install, CatalogOK
  <1>8. CASE InstallFails(p)
    <2>1. /\ pc[p] = "install" /\ at[p] \in Skills /\ Act(p) \in Replacing
          /\ old[p] # None /\ old[p].data # "torn"
      BY <1>8 DEF InstallFails, Goto, GripOK, Grip, TrackOK, Track, Replacing,
                  SoundOK, Sound, Running, Swapped
    <2>2. PartsOK'
      BY <1>8, <2>1, MoveParts DEF InstallFails, Goto, States, Running, Taking
    <2> QED BY <1>8, <2>2, MoveInv DEF InstallFails
  <1>9. CASE Unswap(p)
    <2>1. /\ pc[p] = "unswap" /\ at[p] \in Skills /\ pc' = [pc EXCEPT ![p] = "failed"]
          /\ old[p] \in Nodes /\ old[p].data # "torn" /\ Act(p) \in Replacing
      BY <1>9 DEF Unswap, Goto, GripOK, Grip, TrackOK, Track, Taking,
                  SoundOK, Sound, ActionOK, Running, Swapped
    <2>2. CASE Replaceable(p)
      <3>1. TaskOK' /\ ActionOK'
        BY <1>9, <2>1, <2>2 DEF Unswap, TaskOK, ActionOK, task, States, Running
      <3>2. GripOK' /\ SoundOK'
        BY <1>9, <2>1, <2>2 DEF Unswap, GripOK, Grip, SoundOK, Sound, ActionOK, Swapped
      <3>3. \A q \in Procs : Track(q)'
        BY <1>9, <2>1, <2>2 DEF Unswap, TrackOK, Track, Taking, ActionOK, task, Act, Creates
      <3> QED BY <1>9, <2>1, <2>2, <3>1, <3>2, <3>3, DestInv
              DEF Unswap, PartsOK, TrackOK, CatalogOK
    <2>3. CASE ~ Replaceable(p)
      <3>1. UNCHANGED <<task, action>>
        BY <1>9, <2>3 DEF Unswap, action
      <3>2. PartsOK'
        BY <2>1, <3>1, MoveParts DEF States, Running, Swapped, Taking
      <3> QED BY <1>9, <2>3, <3>2, MoveInv DEF Unswap, disk
    <2> QED BY <2>2, <2>3
  <1> QED BY <1>1, <1>2, <1>3, <1>4, <1>5, <1>6, <1>7, <1>8, <1>9 DEF Replace

LEMMA RemoveInv ==
  ASSUME SkillInv, NEW p \in Procs, Remove(p)
  PROVE  SkillInv'
  <1> USE DEF SkillInv
  <1>1. CASE Drop(p)
    <2>1. pc[p] = "drop" /\ at[p] \in Skills /\ pc' = [pc EXCEPT ![p] = "landed"]
      BY <1>1 DEF Drop, Goto, GripOK, Grip, Running
    <2>2. TaskOK' /\ ActionOK'
      BY <1>1, <2>1 DEF Drop, TaskOK, ActionOK, task, States, Running
    <2>3. GripOK' /\ SoundOK'
      BY <1>1, <2>1 DEF Drop, GripOK, Grip, SoundOK, Sound, ActionOK, Swapped
    <2>4. \A q \in Procs : Track(q)'
      BY <1>1, <2>1 DEF Drop, TrackOK, Track, Taking, ActionOK, task, Act, Creates
    <2> QED BY <1>1, <2>2, <2>3, <2>4, MoveInv DEF Drop, PartsOK, TrackOK
  <1>2. CASE DropFails(p)
    <2>1. PICK to \in {"restore", "failed"} : pc' = [pc EXCEPT ![p] = to]
      BY <1>2 DEF DropFails, Goto
    <2>2. pc[p] = "drop" /\ at[p] \in Skills /\ old[p] # None
      BY <1>2 DEF DropFails, Goto, GripOK, Grip, Running, Swapped
    <2>3. Torn(old[p]) \in Nodes /\ Torn(old[p]) # None
      BY <2>2, NodeFacts DEF ActionOK
    <2>4. old' = [old EXCEPT ![p] = Torn(old[p])]
      BY <1>2 DEF DropFails
    <2>5. TaskOK' /\ ActionOK'
      BY <1>2, <2>1, <2>3, <2>4 DEF DropFails, TaskOK, ActionOK, task, States, Running
    <2>6. GripOK' /\ SoundOK'
      BY <1>2, <2>1, <2>2, <2>3, <2>4
         DEF DropFails, GripOK, Grip, SoundOK, Sound, ActionOK, Swapped
    <2>7. \A q \in Procs : Track(q)'
      BY <1>2, <2>1, <2>2 DEF DropFails, TrackOK, Track, Taking, ActionOK, task, Act, Creates
    <2> QED BY <1>2, <2>5, <2>6, <2>7, MoveInv DEF DropFails, PartsOK, TrackOK
  <1>3. CASE Restore(p)
    <2>1. /\ pc[p] = "restore" /\ at[p] \in Skills /\ pc' = [pc EXCEPT ![p] = "failed"]
          /\ old[p] # None
      BY <1>3 DEF Restore, Goto, GripOK, Grip, Running, Swapped
    <2>2. \E rest \in {None, old[p]} : old' = [old EXCEPT ![p] = rest]
      BY <1>3 DEF Restore, ActionOK
    <2>3. TaskOK' /\ ActionOK'
      BY <1>3, <2>1, <2>2 DEF Restore, TaskOK, ActionOK, task, States, Running
    <2>4. GripOK' /\ SoundOK'
      BY <1>3, <2>1, <2>2 DEF Restore, GripOK, Grip, SoundOK, Sound, ActionOK, Swapped
    <2>5. \A q \in Procs : Track(q)'
      BY <1>3, <2>1 DEF Restore, TrackOK, Track, Taking, ActionOK, task, Act, Creates
    <2>6. want[p] \in Nodes \cup {None} /\ (want[p] # None => want[p].data # "torn")
      BY DEF ActionOK, SoundOK, Sound
    <2>7. PartsOK'
      BY <2>3, <2>4, <2>5 DEF PartsOK, TrackOK
    <2>8. CASE dest[at[p]] = None
      BY <1>3, <2>1, <2>6, <2>7, <2>8, DestInv DEF Restore, CatalogOK
    <2>9. CASE dest[at[p]] # None
      BY <1>3, <2>7, <2>9, MoveInv DEF Restore, disk
    <2> QED BY <2>8, <2>9
  <1>4. CASE Failed(p)
    <2>1. saved[p] \in BOOLEAN
      BY DEF ActionOK
    <2> QED BY <1>4, <2>1, FailInv DEF Failed, Running, CatalogOK
  <1>5. CASE Unlink(p)
    <2>1. pc[p] = "unlink" /\ at[p] \in Skills
      BY <1>5 DEF Unlink, Goto, GripOK, Grip, Running
    <2>2. PartsOK'
      BY <1>5, <2>1, MoveParts DEF Unlink, Goto, States, Running, Swapped, Taking
    <2> QED BY <1>5, <2>1, <2>2, DestInv DEF Unlink, CatalogOK
  <1>6. CASE UnlinkFails(p)
    BY <1>6, FailInv DEF UnlinkFails, Running, CatalogOK
  <1> QED BY <1>1, <1>2, <1>3, <1>4, <1>5, <1>6 DEF Remove

-----------------------------------------------------------------------------
(* The end of an action, of a command, and the ends nobody asked for.      *)
LEMMA EndInv ==
  ASSUME SkillInv, NEW p \in Procs, Landed(p) \/ Finish(p) \/ Interrupt(p) \/ Kill(p)
  PROVE  SkillInv'
  <1> USE DEF SkillInv
  <1>0. saved[p] \in BOOLEAN
    BY DEF ActionOK
  <1>1. CASE Landed(p)
    <2>1. /\ pc[p] = "landed" /\ at[p] \in Skills /\ pc' = [pc EXCEPT ![p] = "next"]
          /\ mode[p] \in Modes \cup {None}
      BY <1>1 DEF Landed, Goto, GripOK, Grip, Running, TaskOK
    <2>2. memo' \in [Procs -> Records]
      <3>1. CASE Checkpointed(p)
        <4>1. [memo[p] EXCEPT ![at[p]] = mode[p]] \in Records
          BY <2>1 DEF TaskOK, Records
        <4>2. memo' = [memo EXCEPT ![p] = [memo[p] EXCEPT ![at[p]] = mode[p]]]
          BY <1>1, <3>1 DEF Landed
        <4> QED BY <4>1, <4>2 DEF TaskOK
      <3>2. CASE ~ Checkpointed(p)
        BY <1>1, <3>2 DEF Landed, TaskOK
      <3> QED BY <3>1, <3>2
    <2>3. TaskOK'
      BY <1>1, <2>2 DEF Landed, TaskOK
    <2>4. ActionOK'
      BY <1>1, <2>1 DEF Landed, ActionOK, States
    <2>5. GripOK' /\ SoundOK'
      BY <1>1, <2>1 DEF Landed, GripOK, Grip, SoundOK, Sound, ActionOK, Swapped, Running
    <2>6. \A q \in Procs : Track(q)'
      BY <1>1, <2>1 DEF Landed, TrackOK, Track, Taking, TaskOK, ActionOK, Act, Creates
    <2>7. spare' \in [Skills -> SUBSET Nodes]
      BY <1>1, <2>1 DEF Landed, DiskOK, GripOK, Grip, ActionOK
    <2> QED BY <1>1, <2>3, <2>4, <2>5, <2>6, <2>7, AsideInv
            DEF Landed, PartsOK, TrackOK, DiskOK, CatalogOK
  <1>2. CASE Finish(p)
    <2>1. PartsOK' /\ spare' \in [Skills -> SUBSET Nodes] /\ litter' \in [Skills -> SUBSET Nodes]
      BY <1>2, LeaveParts DEF Finish
    <2>2. owned' \in Records
      BY <1>2 DEF Finish, TaskOK, Records
    <2>3. DiskOK' /\ CatalogOK' /\ InstalledWhole'
      BY <1>2, <2>1, <2>2 DEF Finish, DiskOK, CatalogOK, InstalledWhole, catalog
    <2> QED BY <2>1, <2>3 DEF PartsOK
  <1>3. CASE Interrupt(p)
    <2>1. excused' \subseteq Skills
      BY <1>3 DEF Interrupt, CatalogOK, GripOK, Grip
    <2> QED BY <1>0, <1>3, <2>1, FailInv DEF Interrupt
  <1>4. CASE Kill(p)
    BY <1>0, <1>4, LeaveParts, AsideInv DEF Kill, CatalogOK
  <1> QED BY <1>1, <1>2, <1>3, <1>4

(* The user.                                                               *)
LEMMA UserInv ==
  ASSUME SkillInv, User
  PROVE  SkillInv'
  <1> USE DEF SkillInv
  <1>1. ASSUME UNCHANGED <<pc, task, at, want, saved, old>>, late' \in [Procs -> BOOLEAN]
        PROVE  PartsOK'
    <2>1. TaskOK' /\ ActionOK'
      BY <1>1 DEF TaskOK, ActionOK, task
    <2>2. GripOK' /\ SoundOK' /\ TrackOK'
      BY <1>1 DEF GripOK, Grip, SoundOK, Sound, TrackOK, Track, Taking, task, Act, Creates
    <2> QED BY <2>1, <2>2 DEF PartsOK
  <1>2. Meddle => meddles' \in 0..MaxMeddle
    BY BoundsAssumption DEF Meddle, CatalogOK
  <1>3. ASSUME NEW n \in Skills, NEW v \in Versions, EditSource(n, v) PROVE SkillInv'
    <2>1. PartsOK'
      BY <1>1, <1>3 DEF EditSource, Others, ActionOK
    <2>2. CatalogOK' /\ DiskOK' /\ InstalledWhole'
      BY <1>2, <1>3 DEF EditSource, Others, CatalogOK, DiskOK, InstalledWhole
    <2> QED BY <2>1, <2>2 DEF PartsOK
  <1>4. ASSUME NEW n \in Skills, Select(n) PROVE SkillInv'
    <2>1. PartsOK'
      BY <1>1, <1>4 DEF Select, Others, ActionOK
    <2>2. CatalogOK' /\ DiskOK' /\ InstalledWhole'
      BY <1>2, <1>4 DEF Select, Others, CatalogOK, DiskOK, InstalledWhole
    <2> QED BY <2>1, <2>2 DEF PartsOK
  <1>5. CASE SwitchMode
    <2>1. PartsOK'
      BY <1>1, <1>5 DEF SwitchMode, Others, ActionOK
    <2>2. CatalogOK' /\ DiskOK' /\ InstalledWhole'
      BY <1>2, <1>5 DEF SwitchMode, Others, CatalogOK, DiskOK, InstalledWhole, Modes
    <2> QED BY <2>1, <2>2 DEF PartsOK
  <1>6. ASSUME NEW n \in Skills, Write(n) PROVE SkillInv'
    <2>1. late' \in [Procs -> BOOLEAN]
      BY <1>6, Zenon DEF Write
    <2>2. PartsOK'
      BY <1>1, <1>6, <2>1 DEF Write, Others
    <2>3. PICK x \in Nodes \cup {None} :
            /\ dest' = [dest EXCEPT ![n] = x]
            /\ x # None => x.data # "torn"
      <3>1. Intact(dest[n]) => Edited(dest[n].mark) \in Nodes
        BY DEF Intact, DiskOK, Nodes, Edited
      <3>2. \A m : Edited(m).data # "torn"
        BY DEF Edited
      <3> QED BY <1>6, <3>1, <3>2, NodeFacts DEF Write
    <2>4. CatalogOK' /\ DiskOK'
      BY <1>2, <1>6, <2>3 DEF Write, Others, CatalogOK, DiskOK, catalog
    <2>5. InstalledWhole'
      BY <2>3 DEF InstalledWhole, DiskOK
    <2> QED BY <2>2, <2>4, <2>5 DEF PartsOK
  <1> QED BY <1>3, <1>4, <1>5, <1>6 DEF User

-----------------------------------------------------------------------------
LEMMA SkillStep == SkillInv /\ [Next]_vars => SkillInv'
  <1> SUFFICES ASSUME SkillInv, [Next]_vars PROVE SkillInv'
    OBVIOUS
  <1>1. CASE User
    BY <1>1, UserInv
  <1>2. ASSUME NEW p \in Procs, Step(p) \/ Interrupt(p) \/ Kill(p) PROVE SkillInv'
    BY <1>2, PrepareInv, CreateInv, ReplaceInv, RemoveInv, EndInv DEF Step
  <1>3. CASE UNCHANGED vars
    <2>1. CatalogOK' /\ DiskOK' /\ TaskOK' /\ ActionOK' /\ InstalledWhole'
      BY <1>3 DEF SkillInv, vars, disk, catalog, task, action, CatalogOK, DiskOK, TaskOK,
                  ActionOK, InstalledWhole
    <2>2. GripOK' /\ SoundOK' /\ TrackOK'
      BY <1>3 DEF SkillInv, vars, task, action, GripOK, Grip, SoundOK, Sound, TrackOK,
                  Track, Taking, Act, Creates
    <2> QED BY <2>1, <2>2 DEF SkillInv
  <1> QED BY <1>1, <1>2, <1>3 DEF Next

(* Every variable keeps its type, and each command has what its step needs.*)
THEOREM TypeCorrect == Spec => []TypeOK
  <1>1. Init => SkillInv
    BY InitInv
  <1>2. SkillInv /\ [Next]_vars => SkillInv'
    BY SkillStep
  <1>3. SkillInv => TypeOK
    BY InvTypes
  <1> QED BY <1>1, <1>2, <1>3, PTL DEF Spec

(* Whatever fails and whoever writes meanwhile, also with several commands *)
(* at once, the damaged rest of a removal never comes back as a Skill.     *)
THEOREM WholeCorrect == Spec => []InstalledWhole
  <1>1. Init => SkillInv
    BY InitInv
  <1>2. SkillInv /\ [Next]_vars => SkillInv'
    BY SkillStep
  <1>3. SkillInv => InstalledWhole
    BY DEF SkillInv
  <1> QED BY <1>1, <1>2, <1>3, PTL DEF Spec

-----------------------------------------------------------------------------
(* One command at a time: no lock keeps two of them apart, and with        *)
(* several the claims below do not hold.                                   *)
Single == \A p, q \in Procs : p = q

(* What a command is about to take away is what it has validated and       *)
(* saved, unless the user has been there since.                            *)
Aware(p) ==
  /\ want[p] # None => ~ Own(want[p])
  /\ old[p] # None => pc[p] \in Swapped \cup {"restore", "failed"}
  /\ pc[p] \in {"swap", "install", "unswap", "unlink"} /\ Own(dest[at[p]]) => late[p]
  /\ Own(old[p]) => late[p]
  /\ pc[p] \in {"revalidate", "swap"} \cup Swapped => saved[p]
  /\ pc[p] = "swap" => dest[at[p]] \in {want[p], None} \/ Own(dest[at[p]])
  /\ pc[p] \in Swapped => old[p] = want[p] \/ Own(old[p])
LoneInv == SkillInv /\ \A p \in Procs : Aware(p)

LEMMA InitLone == Init => LoneInv
  <1> SUFFICES ASSUME Init PROVE LoneInv
    OBVIOUS
  <1>1. \A p \in Procs : pc[p] = "idle" /\ want[p] = None /\ old[p] = None
    BY DEF Init
  <1> QED BY <1>1, InitInv DEF LoneInv, Aware, Own, Swapped

(* A command that fails or ends holds nothing any more.                    *)
LEMMA LeaveAware ==
  ASSUME SkillInv, NEW p \in Procs, NEW kept, Leave(p, kept)
  PROVE  Aware(p)' /\ \A n \in Skills : litter[n] \subseteq litter'[n]
  <1>1. Aware(p)'
    BY DEF SkillInv, ActionOK, Leave, Aware, Own, Swapped
  <1>2. \A n \in Skills : litter[n] \subseteq litter'[n]
    BY DEF SkillInv, DiskOK, Leave
  <1> QED BY <1>1, <1>2

LEMMA FailAware ==
  ASSUME LoneInv, NEW p \in Procs, NEW kept, Fail(p, kept)
  PROVE  Aware(p)' /\ \A n \in Skills : litter[n] \subseteq litter'[n]
  <1>1. CASE Checkpointed(p)
    <2>1. UNCHANGED <<litter, action>> /\ pc' = [pc EXCEPT ![p] = "rollback"]
      BY <1>1 DEF Fail
    <2>2. pc[p] \notin Swapped \cup {"restore", "failed"}
      BY <1>1 DEF LoneInv, SkillInv, TrackOK, Track, Checkpointed, Creates, Swapped, Taking,
                  Replacing
    <2> QED BY <2>1, <2>2 DEF LoneInv, SkillInv, ActionOK, Aware, Own, Swapped, action
  <1>2. CASE ~ Checkpointed(p)
    BY <1>2, LeaveAware DEF Fail, LoneInv
  <1> QED BY <1>1, <1>2

(* What one step of a command may do to the user's content.                *)
Spares(p) ==
  /\ \A n \in Skills : litter[n] \subseteq litter'[n]
  /\ \A n \in Skills : Own(dest[n]) => dest'[n] = dest[n] \/ (at[p] = n /\ late[p])
LEMMA LoneEnds ==
  ASSUME LoneInv, NEW p \in Procs,
         Refuse(p) \/ Rollback(p) \/ StageFails(p) \/ PutRefused(p) \/ SnapshotFails(p)
         \/ SwapFails(p) \/ Failed(p) \/ UnlinkFails(p) \/ Finish(p) \/ Interrupt(p) \/ Kill(p)
  PROVE  Aware(p)' /\ Spares(p)
  <1>1. \E kept : Fail(p, kept) \/ Leave(p, kept)
    BY DEF Refuse, Rollback, StageFails, PutRefused, SnapshotFails, SwapFails, Failed,
           UnlinkFails, Finish, Interrupt, Kill
  <1>2. UNCHANGED dest
    BY DEF Refuse, Rollback, StageFails, PutRefused, SnapshotFails, SwapFails, Failed,
           UnlinkFails, Finish, Interrupt, Kill
  <1> QED BY <1>1, <1>2, FailAware, LeaveAware DEF LoneInv, Spares

LEMMA LoneStart ==
  ASSUME LoneInv, NEW p \in Procs,
         Review(p) \/ Begin(p) \/ Pick(p) \/ Checkpoint(p) \/ Stage(p) \/ Put(p) \/ Landed(p)
  PROVE  Aware(p)' /\ Spares(p)
  <1> USE DEF LoneInv, SkillInv, ActionOK, DiskOK
  <1>1. old[p] = None /\ late[p] \in BOOLEAN
    BY DEF Review, Begin, Pick, Checkpoint, Stage, Put, Landed, Goto, Aware, Swapped
  <1>2. /\ UNCHANGED litter
        /\ old'[p] = None
        /\ want'[p] \in {want[p], None}
    BY <1>1 DEF Review, Begin, Pick, Checkpoint, Stage, Put, Landed, disk, action
  <1>3. pc'[p] \in {"reviewed", "next", "checkpoint", "start", "put", "validate", "landed"}
    BY DEF Review, Begin, Pick, Checkpoint, Stage, Put, Landed, Goto
  <1>4. Aware(p)'
    BY <1>2, <1>3 DEF Aware, Own, Swapped
  <1>5. \A n \in Skills : Own(dest[n]) => dest'[n] = dest[n]
    BY DEF Review, Begin, Pick, Checkpoint, Stage, Put, Landed, disk, Own
  <1> QED BY <1>2, <1>4, <1>5 DEF Spares

LEMMA LoneTakes ==
  ASSUME LoneInv, NEW p \in Procs,
         Validate(p) \/ Snapshot(p) \/ Revalidate(p) \/ Swap(p) \/ Unlink(p)
  PROVE  Aware(p)' /\ Spares(p)
  <1> USE DEF LoneInv, SkillInv, ActionOK, DiskOK
  <1>0. Aware(p) /\ late[p] \in BOOLEAN
    OBVIOUS
  <1>1. CASE Validate(p) /\ Expected(p)
    <2>1. at[p] \in Skills /\ ~ Own(dest[at[p]])
      <3>1. at[p] \in Skills
        BY <1>1 DEF Validate, GripOK, Grip, Running
      <3>2. ASSUME dest[at[p]] = Link PROVE ~ Own(dest[at[p]])
        BY <3>2 DEF Link, Own
      <3>3. ASSUME Intact(dest[at[p]]) PROVE ~ Own(dest[at[p]])
        <4>1. dest[at[p]].mark \in Versions \cup {None}
          BY <3>1, <3>3, NodeFacts DEF Intact
        <4> QED BY <3>3, <4>1, VersionsAssumption DEF Intact, Own
      <3> QED BY <1>1, <3>1, <3>2, <3>3 DEF Expected
    <2>2. /\ pc'[p] \in {"unlink", "snapshot"}
          /\ want'[p] = dest[at[p]]
          /\ UNCHANGED <<dest, litter, at, saved, old, late>>
      BY <1>1 DEF Validate
    <2>3. old[p] = None
      BY <1>0, <1>1 DEF Validate, Aware, Swapped
    <2> QED BY <1>0, <2>1, <2>2, <2>3 DEF Aware, Own, Swapped, Spares
  <1>2. CASE Validate(p) /\ ~ Expected(p)
    BY <1>2, FailAware DEF Validate, Spares
  <1>3. CASE Snapshot(p)
    <2>1. /\ pc'[p] = "revalidate" /\ saved'[p] /\ old[p] = None
          /\ UNCHANGED <<dest, litter, at, want, old, late>>
      BY <1>0, <1>3 DEF Snapshot, Goto, disk, Aware, Swapped
    <2> QED BY <1>0, <2>1 DEF Aware, Own, Swapped, Spares
  <1>4. CASE Revalidate(p) /\ dest[at[p]] = want[p]
    <2>1. /\ pc'[p] = "swap" /\ pc[p] = "revalidate"
          /\ UNCHANGED <<dest, litter, at, want, saved, old, late>>
      BY <1>4 DEF Revalidate, action
    <2> QED BY <1>0, <1>4, <2>1 DEF Aware, Own, Swapped, Spares
  <1>5. CASE Revalidate(p) /\ dest[at[p]] # want[p]
    BY <1>5, FailAware DEF Revalidate, Spares
  <1>6. CASE Swap(p)
    <2>1. /\ pc[p] = "swap" /\ at[p] \in Skills /\ pc'[p] \in {"drop", "install"}
          /\ old'[p] = dest[at[p]] /\ dest' = [dest EXCEPT ![at[p]] = None]
          /\ dest[at[p]] # None
          /\ UNCHANGED <<litter, at, want, saved, late>>
      BY <1>6 DEF Swap, Goto, GripOK, Grip, Running
    <2>2. dest'[at[p]] = None /\ \A n \in Skills \ {at[p]} : dest'[n] = dest[n]
      BY <2>1
    <2>3. Aware(p)'
      BY <1>0, <2>1, <2>2 DEF Aware, Own, Swapped
    <2> QED BY <1>0, <2>1, <2>2, <2>3 DEF Aware, Spares
  <1>7. CASE Unlink(p)
    <2>1. /\ pc[p] = "unlink" /\ at[p] \in Skills /\ pc'[p] = "landed"
          /\ dest' = [dest EXCEPT ![at[p]] = None]
          /\ UNCHANGED <<litter, at, want, saved, old, late>>
      BY <1>7 DEF Unlink, Goto, action, GripOK, Grip, Running
    <2>2. dest'[at[p]] = None /\ \A n \in Skills \ {at[p]} : dest'[n] = dest[n]
      BY <2>1
    <2> QED BY <1>0, <2>1, <2>2 DEF Aware, Own, Swapped, Spares
  <1> QED BY <1>1, <1>2, <1>3, <1>4, <1>5, <1>6, <1>7
LEMMA LonePuts ==
  ASSUME LoneInv, NEW p \in Procs,
         Install(p) \/ InstallFails(p) \/ Unswap(p) \/ Drop(p) \/ DropFails(p) \/ Restore(p)
  PROVE  Aware(p)' /\ Spares(p)
  <1> USE DEF LoneInv, SkillInv, ActionOK, DiskOK
  <1>0. Aware(p) /\ late[p] \in BOOLEAN
    OBVIOUS
  <1>1. at[p] \in Skills
    BY DEF Install, InstallFails, Unswap, Drop, DropFails, Restore, Goto, GripOK, Grip,
           Running
  <1>2. CASE Install(p)
    <2>1. /\ pc[p] = "install" /\ pc'[p] = "drop" /\ dest[at[p]] = None
          /\ \A n \in Skills \ {at[p]} : dest'[n] = dest[n]
          /\ UNCHANGED <<litter, at, want, saved, old, late>>
      BY <1>1, <1>2 DEF Install, Goto, action
    <2> QED BY <1>0, <2>1 DEF Aware, Own, Swapped, Spares
  <1>3. CASE InstallFails(p)
    <2>1. /\ pc[p] = "install" /\ pc'[p] = "unswap"
          /\ UNCHANGED <<dest, litter, at, want, saved, old, late>>
      BY <1>3 DEF InstallFails, Goto, disk, action
    <2> QED BY <1>0, <2>1 DEF Aware, Own, Swapped, Spares
  <1>4. CASE Unswap(p)
    <2>1. /\ pc[p] = "unswap" /\ pc'[p] = "failed"
          /\ \A n \in Skills \ {at[p]} : dest'[n] = dest[n]
          /\ old'[p] \in {old[p], None}
          /\ UNCHANGED <<litter, at, want, late>>
      BY <1>1, <1>4 DEF Unswap, Goto
    <2> QED BY <1>0, <1>1, <2>1 DEF Aware, Own, Swapped, Spares
  <1>5. CASE Drop(p)
    <2>1. /\ pc'[p] = "landed" /\ old'[p] = None
          /\ UNCHANGED <<dest, litter, at, want, saved, late>>
      BY <1>5 DEF Drop, Goto, disk
    <2> QED BY <1>0, <2>1 DEF Aware, Own, Swapped, Spares
  <1>6. CASE DropFails(p)
    <2>1. /\ pc[p] = "drop" /\ pc'[p] \in {"restore", "failed"} /\ old'[p] = Torn(old[p])
          /\ UNCHANGED <<dest, litter, at, want, saved, late>>
      BY <1>6 DEF DropFails, Goto, disk
    <2>2. Own(Torn(old[p])) => Own(old[p])
      <3>1. old[p] # None
        BY <2>1 DEF GripOK, Grip, Swapped
      <3> QED BY <3>1 DEF Torn, Own
    <2> QED BY <1>0, <2>1, <2>2 DEF Aware, Swapped, Spares
  <1>7. CASE Restore(p)
    <2>1. /\ pc'[p] = "failed" /\ pc[p] = "restore"
          /\ \A n \in Skills : dest'[n] = dest[n] \/ dest[n] = None
          /\ old'[p] \in {old[p], None}
          /\ UNCHANGED <<litter, at, want, saved, late>>
      BY <1>1, <1>7 DEF Restore, Goto
    <2> QED BY <1>0, <2>1 DEF Aware, Own, Swapped, Spares
  <1> QED BY <1>2, <1>3, <1>4, <1>5, <1>6, <1>7

(* What the user does while a command stands still.                        *)
LEMMA LoneUser ==
  ASSUME LoneInv, User, NEW p \in Procs
  PROVE  Aware(p)'
  <1> USE DEF LoneInv, SkillInv, ActionOK, DiskOK
  <1>1. UNCHANGED <<pc, at, want, saved, old>>
    BY DEF User, EditSource, Select, SwitchMode, Write, Others
  <1>2. CASE UNCHANGED <<dest, late>>
    BY <1>1, <1>2 DEF Aware
  <1>3. ASSUME NEW n \in Skills, Write(n) PROVE Aware(p)'
    <2>1. \A m \in Skills \ {n} : dest'[m] = dest[m]
      BY <1>3 DEF Write
    <2>2. dest'[n] # None => Own(dest'[n])
      <3>1. PICK x : /\ dest' = [dest EXCEPT ![n] = x]
                     /\ x \in {None, OwnLink, OwnTree} \/ \E m : x = Edited(m)
        BY <1>3 DEF Write
      <3>2. dest'[n] = x
        BY <3>1
      <3>3. \A m : Edited(m).data = "own"
        BY DEF Edited
      <3>4. OwnLink.data = "own" /\ OwnTree.data = "own"
        BY DEF OwnLink, OwnTree
      <3> QED BY <3>1, <3>2, <3>3, <3>4 DEF Own
    <2>3. late'[p] = (late[p] \/ (at[p] = n /\ pc[p] \in {"swap", "install", "unswap", "unlink"}))
      BY <1>3, Zenon DEF Write
    <2>4. pc[p] \in {"swap", "install", "unswap", "unlink"} => at[p] \in Skills
      BY DEF GripOK, Grip, Running
    <2>5. /\ want[p] # None => ~ Own(want[p])
          /\ old[p] # None => pc[p] \in Swapped \cup {"restore", "failed"}
          /\ pc[p] \in {"swap", "install", "unswap", "unlink"} /\ Own(dest[at[p]]) => late[p]
          /\ Own(old[p]) => late[p]
          /\ pc[p] \in {"revalidate", "swap"} \cup Swapped => saved[p]
          /\ pc[p] = "swap" => dest[at[p]] \in {want[p], None} \/ Own(dest[at[p]])
          /\ pc[p] \in Swapped => old[p] = want[p] \/ Own(old[p])
      BY DEF Aware
    <2>6. CASE at[p] = n
      BY <1>1, <2>2, <2>3, <2>5, <2>6 DEF Aware, Own
    <2>7. CASE at[p] # n
      BY <1>1, <2>1, <2>3, <2>4, <2>5, <2>7 DEF Aware, Own
    <2> QED BY <2>6, <2>7
  <1> QED BY <1>2, <1>3 DEF User, EditSource, Select, SwitchMode
LEMMA LoneProcess ==
  ASSUME LoneInv, NEW p \in Procs, Step(p) \/ Interrupt(p) \/ Kill(p)
  PROVE  Aware(p)' /\ Spares(p)
  BY LoneEnds, LoneStart, LoneTakes, LonePuts DEF Step, Prepare, Create, Replace, Remove

LEMMA LoneStep == Single /\ LoneInv /\ [Next]_vars => LoneInv'
  <1> SUFFICES ASSUME Single, LoneInv, [Next]_vars PROVE LoneInv'
    OBVIOUS
  <1>1. SkillInv'
    BY SkillStep DEF LoneInv
  <1>2. ASSUME NEW q \in Procs PROVE Aware(q)'
    <2>1. CASE User
      BY <2>1, LoneUser
    <2>2. ASSUME NEW p \in Procs, Step(p) \/ Interrupt(p) \/ Kill(p) PROVE Aware(q)'
      <3>1. p = q
        BY DEF Single
      <3> QED BY <2>2, <3>1, LoneProcess
    <2>3. CASE UNCHANGED vars
      BY <2>3 DEF LoneInv, Aware, vars, disk, action
    <2> QED BY <2>1, <2>2, <2>3 DEF Next
  <1> QED BY <1>1, <1>2 DEF LoneInv

(* A step that moves a command is a step of that command.                  *)
LEMMA Mover ==
  ASSUME LoneInv, [Next]_vars, pc' # pc
  PROVE  \E p \in Procs : Step(p) \/ Interrupt(p) \/ Kill(p)
  BY DEF Next, vars, User, EditSource, Select, SwitchMode, Write, Others

Keeps ==
  pc' # pc =>
    \A n \in Skills : \A x \in Held(n) :
      Own(x) => x \in Held(n)' \/ (\E p \in Procs : at[p] = n /\ late[p])

LEMMA KeepsStep == Single /\ LoneInv /\ [Next]_vars => Keeps
  <1> SUFFICES ASSUME Single, LoneInv, [Next]_vars, pc' # pc,
                      NEW n \in Skills, NEW x \in Held(n), Own(x)
               PROVE  x \in Held(n)' \/ (\E p \in Procs : at[p] = n /\ late[p])
    BY DEF Keeps
  <1>1. PICK p \in Procs : Step(p) \/ Interrupt(p) \/ Kill(p)
    BY Mover
  <1>2. Spares(p) /\ Aware(p)
    BY <1>1, LoneProcess DEF LoneInv
  <1>3. x # None /\ (x = dest[n] \/ (at[p] = n /\ x = old[p]) \/ x \in litter[n])
    BY DEF Held, Single
  <1>4. x = dest'[n] \/ x \in litter'[n] => x \in Held(n)'
    BY <1>3 DEF Held
  <1>5. CASE x = dest[n]
    BY <1>2, <1>4, <1>5 DEF Spares
  <1>6. CASE at[p] = n /\ x = old[p]
    BY <1>2, <1>6 DEF Aware
  <1>7. CASE x \in litter[n]
    BY <1>2, <1>4, <1>7 DEF Spares
  <1> QED BY <1>3, <1>5, <1>6, <1>7

Backs ==
  \A p \in Procs :
    pc[p] = "drop" /\ pc'[p] \in {"landed", "restore", "failed"} /\ ~ Own(old[p]) =>
      old[p] \in Backed(at[p])'

LEMMA BacksStep == Single /\ LoneInv /\ [Next]_vars => Backs
  <1> SUFFICES ASSUME Single, LoneInv, [Next]_vars, NEW p \in Procs, pc[p] = "drop",
                      pc'[p] \in {"landed", "restore", "failed"}, ~ Own(old[p])
               PROVE  old[p] \in Backed(at[p])'
    BY DEF Backs
  <1>1. Step(p) \/ Interrupt(p) \/ Kill(p)
    BY Mover DEF Single
  <1>2. Drop(p) \/ DropFails(p)
    <2>1. Act(p) \in Replacing
      BY DEF LoneInv, SkillInv, TrackOK, Track, Taking
    <2>2. ~ Interrupt(p) /\ ~ Kill(p)
      BY <2>1 DEF Interrupt, Kill, Fail, Leave, LoneInv, SkillInv, ActionOK, Checkpointed,
                  Creates, Replacing
    <2>3. ~ Prepare(p) /\ ~ Create(p) /\ ~ Replace(p) /\ ~ Landed(p) /\ ~ Finish(p)
      BY DEF Prepare, Review, Refuse, Begin, Pick, Checkpoint, Rollback, Create, Stage,
             StageFails, Put, PutRefused, Replace, Validate, Snapshot, SnapshotFails,
             Revalidate, Swap, SwapFails, Install, InstallFails, Unswap, Landed, Finish, Goto
    <2>4. ~ Restore(p) /\ ~ Failed(p) /\ ~ Unlink(p) /\ ~ UnlinkFails(p)
      BY DEF Restore, Failed, Unlink, UnlinkFails, Goto
    <2> QED BY <1>1, <2>2, <2>3, <2>4 DEF Step, Remove
  <1>3. UNCHANGED <<at, want, saved>>
    BY <1>2 DEF Drop, DropFails
  <1>4. saved[p] /\ old[p] = want[p]
    BY DEF LoneInv, Aware, Swapped
  <1>5. saved'[p] /\ want'[p] = old[p] /\ at'[p] = at[p]
    BY <1>3, <1>4
  <1> QED BY <1>5 DEF Backed

(* With one command at a time, whatever fails or is stopped, no command    *)
(* destroys what the user has put at a destination before the command's    *)
(* last validation of it.                                                  *)
THEOREM UserContentCorrect == ASSUME Single PROVE Spec => UserContentKept
  <1>1. Init => LoneInv
    BY InitLone
  <1>2. LoneInv /\ [Next]_vars => LoneInv'
    BY LoneStep
  <1>3. LoneInv /\ [Next]_vars => [Keeps]_vars
    BY KeepsStep
  <1> QED BY <1>1, <1>2, <1>3, PTL DEF Spec, UserContentKept, Keeps

(* With one command at a time, what the bridge had installed and removes   *)
(* is in a backup, also when the removal fails half-way.                   *)
THEOREM BackupCorrect == ASSUME Single PROVE Spec => BackupKept
  <1>1. Init => LoneInv
    BY InitLone
  <1>2. LoneInv /\ [Next]_vars => LoneInv'
    BY LoneStep
  <1>3. LoneInv /\ [Next]_vars => [Backs]_vars
    BY BacksStep
  <1> QED BY <1>1, <1>2, <1>3, PTL DEF Spec, BackupKept, Backs

-----------------------------------------------------------------------------
(* What a command still answers for: a backup it has made belongs to an    *)
(* action that replaces something, until that action is over, and while    *)
(* the destination is swapped out only the user can have filled it.        *)
Custody(p) ==
  /\ saved[p] => Act(p) \in Replacing /\ pc[p] \in Taking \cup {"install", "landed"}
  /\ late[p] => pc[p] \notin {"idle", "reviewed", "next"}
  /\ pc[p] \in {"install", "unswap"} => dest[at[p]] = None \/ Own(dest[at[p]])
  /\ pc[p] = "restore" => saved[p] /\ (old[p].data = "torn" \/ Own(old[p]) \/ old[p] = want[p])
CustodyInv == LoneInv /\ \A p \in Procs : Custody(p)

LEMMA InitCustody == Init => CustodyInv
  <1> SUFFICES ASSUME Init PROVE CustodyInv
    OBVIOUS
  <1>1. \A p \in Procs : pc[p] = "idle" /\ ~ saved[p] /\ ~ late[p]
    BY DEF Init
  <1> QED BY <1>1, InitLone DEF CustodyInv, Custody

LEMMA CustodyEnds ==
  ASSUME CustodyInv, NEW p \in Procs,
         Refuse(p) \/ Rollback(p) \/ StageFails(p) \/ PutRefused(p) \/ SnapshotFails(p)
         \/ SwapFails(p) \/ Failed(p) \/ UnlinkFails(p) \/ Finish(p) \/ Interrupt(p) \/ Kill(p)
         \/ (Validate(p) /\ ~ Expected(p)) \/ (Revalidate(p) /\ dest[at[p]] # want[p])
  PROVE  Custody(p)'
  <1> USE DEF CustodyInv, LoneInv, SkillInv, ActionOK
  <1>1. \E kept : Fail(p, kept) \/ Leave(p, kept)
    BY DEF Refuse, Rollback, StageFails, PutRefused, SnapshotFails, SwapFails, Failed,
           UnlinkFails, Finish, Interrupt, Kill, Validate, Revalidate
  <1>2. ASSUME NEW kept, Leave(p, kept) PROVE Custody(p)'
    BY <1>2 DEF Leave, Custody
  <1>3. ASSUME NEW kept, Fail(p, kept), Checkpointed(p) PROVE Custody(p)'
    <2>1. UNCHANGED <<task, action>> /\ pc'[p] = "rollback"
      BY <1>3 DEF Fail
    <2>2. ~ saved[p]
      BY <1>3 DEF Custody, Checkpointed, Creates, Replacing
    <2> QED BY <2>1, <2>2 DEF Custody, action
  <1> QED BY <1>1, <1>2, <1>3 DEF Fail

LEMMA CustodyStart ==
  ASSUME CustodyInv, NEW p \in Procs,
         Review(p) \/ Begin(p) \/ Pick(p) \/ Checkpoint(p) \/ Stage(p) \/ Put(p) \/ Landed(p)
  PROVE  Custody(p)'
  <1> USE DEF CustodyInv, LoneInv, SkillInv, ActionOK
  <1>1. ~ saved'[p]
    BY DEF Review, Begin, Pick, Checkpoint, Stage, Put, Landed, Goto, Custody, Taking, action
  <1>2. pc'[p] \in {"reviewed", "next", "checkpoint", "start", "put", "validate", "landed"}
    BY DEF Review, Begin, Pick, Checkpoint, Stage, Put, Landed, Goto
  <1>3. late'[p] => pc'[p] \notin {"idle", "reviewed", "next"}
    BY DEF Review, Begin, Pick, Checkpoint, Stage, Put, Landed, Goto, Custody, action
  <1> QED BY <1>1, <1>2, <1>3 DEF Custody

LEMMA CustodyTakes ==
  ASSUME CustodyInv, NEW p \in Procs,
         Validate(p) \/ Snapshot(p) \/ Revalidate(p) \/ Swap(p) \/ Unlink(p)
  PROVE  Custody(p)'
  <1> USE DEF CustodyInv, LoneInv, SkillInv, ActionOK, DiskOK
  <1>0. Custody(p) /\ Track(p) /\ saved[p] \in BOOLEAN
    BY DEF TrackOK
  <1>1. CASE Validate(p) /\ Expected(p)
    <2>1. /\ pc'[p] \in {"unlink", "snapshot"} /\ pc[p] \in {"validate", "start"}
          /\ UNCHANGED <<saved, late>>
      BY <1>1 DEF Validate
    <2> QED BY <1>0, <2>1 DEF Custody, Taking
  <1>2. CASE Snapshot(p)
    <2>1. /\ pc'[p] = "revalidate" /\ pc[p] = "snapshot"
          /\ UNCHANGED <<at, plan, late>>
      BY <1>2 DEF Snapshot, Goto, task
    <2> QED BY <1>0, <2>1 DEF Custody, Taking, Track, Act
  <1>3. CASE Revalidate(p) /\ dest[at[p]] = want[p]
    <2>1. /\ pc'[p] = "swap" /\ pc[p] = "revalidate"
          /\ UNCHANGED <<at, plan, saved, late>>
      BY <1>3 DEF Revalidate, action, task
    <2> QED BY <1>0, <2>1 DEF Custody, Taking, Act
  <1>4. CASE Swap(p)
    <2>1. /\ pc[p] = "swap" /\ at[p] \in Skills /\ pc'[p] \in {"drop", "install"}
          /\ dest' = [dest EXCEPT ![at[p]] = None]
          /\ UNCHANGED <<at, plan, saved, late>>
      BY <1>4 DEF Swap, Goto, GripOK, Grip, Running, task
    <2>2. dest'[at'[p]] = None
      BY <2>1
    <2> QED BY <1>0, <2>1, <2>2 DEF Custody, Taking, Act
  <1>5. CASE Unlink(p)
    <2>1. pc[p] = "unlink" /\ pc'[p] = "landed" /\ UNCHANGED <<saved, late>>
      BY <1>5 DEF Unlink, Goto, action
    <2> QED BY <1>0, <2>1 DEF Custody, Taking
  <1>6. CASE Validate(p) /\ ~ Expected(p)
    BY <1>6, CustodyEnds
  <1>7. CASE Revalidate(p) /\ dest[at[p]] # want[p]
    BY <1>7, CustodyEnds
  <1> QED BY <1>1, <1>2, <1>3, <1>4, <1>5, <1>6, <1>7

LEMMA CustodyPuts ==
  ASSUME CustodyInv, NEW p \in Procs,
         Install(p) \/ InstallFails(p) \/ Unswap(p) \/ Drop(p) \/ DropFails(p) \/ Restore(p)
  PROVE  Custody(p)'
  <1> USE DEF CustodyInv, LoneInv, SkillInv, ActionOK, DiskOK
  <1>0. Custody(p) /\ Aware(p) /\ Track(p) /\ saved[p] \in BOOLEAN
    BY DEF TrackOK
  <1>1. UNCHANGED <<at, want, plan, late>>
    BY DEF Install, InstallFails, Unswap, Drop, DropFails, Restore, task, action
  <1>2. ASSUME Install(p) \/ Unswap(p) \/ Drop(p) \/ Restore(p) PROVE Custody(p)'
    <2>1. /\ pc'[p] \in {"drop", "failed", "landed"}
          /\ pc[p] \in Taking \cup {"install"}
          /\ saved'[p] \in {saved[p], FALSE}
      BY <1>2 DEF Install, Unswap, Drop, Restore, Goto, Taking, action
    <2> QED BY <1>0, <1>1, <2>1 DEF Custody, Taking, Act
  <1>3. CASE InstallFails(p)
    <2>1. pc[p] = "install" /\ pc'[p] = "unswap" /\ UNCHANGED <<dest, saved>>
      BY <1>3 DEF InstallFails, Goto, disk, action
    <2> QED BY <1>0, <1>1, <2>1 DEF Custody, Taking, Act, Own
  <1>4. CASE DropFails(p)
    <2>1. /\ pc[p] = "drop" /\ pc'[p] \in {"restore", "failed"} /\ old'[p] = Torn(old[p])
          /\ UNCHANGED saved
      BY <1>4 DEF DropFails, Goto
    <2>2. old[p] # None /\ saved[p] /\ (old[p] = want[p] \/ Own(old[p]))
      BY <1>0, <2>1 DEF Aware, GripOK, Grip, Swapped
    <2>3. old'[p].data = "torn" \/ old'[p] = old[p]
      BY <2>1 DEF Torn
    <2> QED BY <1>0, <1>1, <2>1, <2>2, <2>3 DEF Custody, Taking, Act, Own
  <1> QED BY <1>2, <1>3, <1>4

LEMMA CustodyUser ==
  ASSUME CustodyInv, User, NEW p \in Procs
  PROVE  Custody(p)'
  <1> USE DEF CustodyInv, LoneInv, SkillInv, ActionOK, DiskOK
  <1>1. UNCHANGED <<pc, at, want, saved, old, plan>>
    BY DEF User, EditSource, Select, SwitchMode, Write, Others, task
  <1>2. CASE UNCHANGED <<dest, late>>
    BY <1>1, <1>2 DEF Custody, Act, Own
  <1>3. ASSUME NEW n \in Skills, Write(n) PROVE Custody(p)'
    <2>1. \A m \in Skills \ {n} : dest'[m] = dest[m]
      BY <1>3 DEF Write
    <2>2. dest'[n] = None \/ Own(dest'[n])
      <3>1. PICK x : /\ dest' = [dest EXCEPT ![n] = x]
                     /\ x \in {None, OwnLink, OwnTree} \/ \E m : x = Edited(m)
        BY <1>3 DEF Write
      <3>2. dest'[n] = x
        BY <3>1
      <3>3. \A m : Edited(m).data = "own"
        BY DEF Edited
      <3>4. OwnLink.data = "own" /\ OwnTree.data = "own"
        BY DEF OwnLink, OwnTree
      <3> QED BY <3>1, <3>2, <3>3, <3>4 DEF Own
    <2>3. late'[p] => late[p] \/ pc[p] \in {"swap", "install", "unswap", "unlink"}
      BY <1>3, Zenon DEF Write
    <2>4. pc[p] \in {"install", "unswap"} => at[p] \in Skills
      BY DEF GripOK, Grip, Running
    <2>5. pc[p] \in {"install", "unswap"} => dest'[at[p]] = None \/ Own(dest'[at[p]])
      BY <2>1, <2>2, <2>4 DEF Custody, Own
    <2> QED BY <1>1, <2>3, <2>5 DEF Custody, Act, Own
  <1> QED BY <1>2, <1>3 DEF User, EditSource, Select, SwitchMode

LEMMA CustodyStep == Single /\ CustodyInv /\ [Next]_vars => CustodyInv'
  <1> SUFFICES ASSUME Single, CustodyInv, [Next]_vars PROVE CustodyInv'
    OBVIOUS
  <1>1. LoneInv'
    BY LoneStep DEF CustodyInv
  <1>2. ASSUME NEW q \in Procs PROVE Custody(q)'
    <2>1. CASE User
      BY <2>1, CustodyUser
    <2>2. ASSUME NEW p \in Procs, Step(p) \/ Interrupt(p) \/ Kill(p) PROVE Custody(q)'
      <3>1. p = q
        BY DEF Single
      <3>2. Custody(p)'
        BY <2>2, CustodyEnds, CustodyStart, CustodyTakes, CustodyPuts
           DEF Step, Prepare, Create, Replace, Remove
      <3> QED BY <3>1, <3>2
    <2>3. CASE UNCHANGED vars
      BY <2>3 DEF CustodyInv, Custody, Act, Own, vars, disk, task, action
    <2> QED BY <2>1, <2>2, <2>3 DEF Next
  <1> QED BY <1>1, <1>2 DEF CustodyInv

-----------------------------------------------------------------------------
(* The variables of SkillPromise, as the mapping computes them.            *)
placeBar == dest
asideBar == [n \in Skills |-> Aside(n)]
keptBar == [n \in Skills |-> KeptFor(n)]
exposedBar == {n \in Skills : \E p \in Working(n) : late[p]}
WholeBar == {x \in Nodes : x.data \notin {"own", "torn"}}
UsersBar == {x \in Nodes : x.data = "own"}
RestsBar == {x \in Nodes : x.data = "torn"}
LinksBar == {x \in Nodes : x.kind = "link"}

Final == {"landed", "restore", "failed"}

(* With one command, what is aside, kept and exposed at a Skill.           *)
View(p, n) ==
  /\ Aside(n) = litter[n] \cup (IF at[p] = n /\ old[p] # None THEN {old[p]} ELSE {})
  /\ KeptFor(n) = spare[n] \cup (IF at[p] = n /\ saved[p] /\ pc[p] \in Final THEN {want[p]} ELSE {})
  /\ n \in exposedBar <=> at[p] = n /\ late[p]

LEMMA Views ==
  ASSUME Single, DiskOK, DiskOK', NEW p \in Procs, NEW n \in Skills
  PROVE  View(p, n) /\ View(p, n)'
  <1>1. None \notin litter[n] /\ None \notin litter'[n]
    BY NoneAssumption DEF DiskOK
  <1>2. \A q \in Procs : q = p
    BY DEF Single
  <1>3. View(p, n)
    BY <1>1, <1>2 DEF View, Aside, KeptFor, exposedBar, Working, Final
  <1>4. View(p, n)'
    BY <1>1, <1>2 DEF View, Aside, KeptFor, exposedBar, Working, Final
  <1> QED BY <1>3, <1>4

(* Only what a step changes at the Skill it works on counts.               *)
Elsewhere(n) ==
  /\ \A m \in Skills \ {n} : litter'[m] = litter[m] /\ spare'[m] = spare[m]
  /\ \A p \in Procs : {at[p], at'[p]} \subseteq {n, None}

LEMMA Elsewheres ==
  ASSUME Single, DiskOK, DiskOK', NEW p \in Procs, NEW n \in Skills, Elsewhere(n)
  PROVE  /\ asideBar' = [asideBar EXCEPT ![n] = Aside(n)']
         /\ keptBar' = [keptBar EXCEPT ![n] = KeptFor(n)']
         /\ exposedBar' \ {n} = exposedBar \ {n}
  <1>1. ASSUME NEW m \in Skills \ {n}
        PROVE  /\ Aside(m)' = Aside(m) /\ KeptFor(m)' = KeptFor(m)
               /\ m \in exposedBar' <=> m \in exposedBar
    <2>1. at[p] # m /\ at'[p] # m /\ litter'[m] = litter[m] /\ spare'[m] = spare[m]
      BY NoneAssumption DEF Elsewhere
    <2>2. View(p, m) /\ View(p, m)'
      BY Views
    <2> QED BY <2>1, <2>2 DEF View
  <1>2. asideBar' = [asideBar EXCEPT ![n] = Aside(n)']
    BY <1>1 DEF asideBar
  <1>3. keptBar' = [keptBar EXCEPT ![n] = KeptFor(n)']
    BY <1>1 DEF keptBar
  <1>4. exposedBar' \subseteq Skills /\ exposedBar \subseteq Skills
    BY DEF exposedBar
  <1> QED BY <1>1, <1>2, <1>3, <1>4

Mapped == [Promise!PNext]_Promise!promiseVars

LEMMA MapsStutter ==
  ASSUME UNCHANGED <<dest, asideBar, keptBar, exposedBar>>
  PROVE  Mapped
  BY DEF Mapped, Promise!promiseVars, asideBar, keptBar, exposedBar

(* A backup is made good, or a command lets go of the Skill.               *)
LEMMA MapsKeep ==
  ASSUME Single, DiskOK, DiskOK', NEW p \in Procs, NEW n \in Skills, Elsewhere(n),
         dest' = dest, Aside(n)' = Aside(n),
         NEW K \in SUBSET WholeBar, KeptFor(n)' = KeptFor(n) \cup K,
         n \in exposedBar' => n \in exposedBar
  PROVE  Mapped
  <1>1. /\ asideBar' = [asideBar EXCEPT ![n] = Aside(n)']
        /\ keptBar' = [keptBar EXCEPT ![n] = KeptFor(n)']
        /\ exposedBar' \ {n} = exposedBar \ {n}
    BY Elsewheres
  <1>2. asideBar' = asideBar
    BY <1>1 DEF asideBar
  <1>3. keptBar' = [keptBar EXCEPT ![n] = @ \cup K]
    BY <1>1 DEF keptBar
  <1>4. exposedBar' \in {exposedBar, exposedBar \ {n}}
    BY <1>1
  <1>5. Promise!Keep(n)
    BY <1>2, <1>3, <1>4 DEF Promise!Keep, asideBar, keptBar, exposedBar, WholeBar
  <1> QED BY <1>5 DEF Mapped, Promise!PNext

(* A command that ends or fails: a verified backup stays, a swap is left.  *)
LEMMA MapsLeave ==
  ASSUME Single, CustodyInv, DiskOK', NEW p \in Procs, NEW kept \in BOOLEAN, Leave(p, kept),
         dest' = dest, kept = saved[p] \/ (~ kept /\ pc[p] \notin Final)
  PROVE  Mapped
  <1> USE DEF CustodyInv, LoneInv, SkillInv, ActionOK
  <1>1. /\ at'[p] = None /\ old'[p] = None /\ saved'[p] = FALSE /\ late'[p] = FALSE
        /\ litter' = IF old[p] = None THEN litter ELSE [litter EXCEPT ![at[p]] = @ \cup {old[p]}]
        /\ spare' = IF kept THEN [spare EXCEPT ![at[p]] = @ \cup {want[p]}] ELSE spare
    BY DEF Leave
  <1>2. CASE at[p] \in Skills
    <2>0. PICK n \in Skills : at[p] = n
      BY <1>2
    <2>1. Elsewhere(n)
      BY <1>1, <2>0 DEF Elsewhere, Single, DiskOK
    <2>2. View(p, n) /\ View(p, n)'
      BY Views
    <2>3. n # None
      BY NoneAssumption
    <2>4. Aside(n)' = Aside(n)
      BY <1>1, <2>0, <2>2, <2>3 DEF View, DiskOK
    <2>5. PICK K \in SUBSET WholeBar : KeptFor(n)' = KeptFor(n) \cup K
      <3>1. CASE kept
        <4>1. want[p] \in WholeBar
          BY <3>1 DEF WholeBar, GripOK, Grip, SoundOK, Sound, Aware, Own
        <4>2. spare'[n] = spare[n] \cup {want[p]}
          BY <1>1, <2>0, <3>1 DEF DiskOK
        <4>3. KeptFor(n)' = KeptFor(n) \cup {want[p]}
          BY <1>1, <2>0, <2>2, <2>3, <3>1, <4>2 DEF View
        <4> QED BY <4>1, <4>3
      <3>2. CASE ~ kept
        BY <1>1, <2>0, <2>2, <2>3, <3>2 DEF View
      <3> QED BY <3>1, <3>2
    <2>6. n \notin exposedBar'
      BY <1>1, <2>2, <2>3 DEF View
    <2> QED BY <2>1, <2>4, <2>5, <2>6, MapsKeep
  <1>3. CASE at[p] \notin Skills
    <2>1. pc[p] \in {"idle", "reviewed", "next"}
      BY <1>3 DEF GripOK, Grip, States
    <2>2. old[p] = None /\ ~ saved[p]
      BY <2>1 DEF Aware, Custody, Swapped, Taking
    <2>3. litter' = litter /\ spare' = spare
      BY <1>1, <2>2
    <2>4. ASSUME NEW n \in Skills
          PROVE  /\ Aside(n)' = Aside(n) /\ KeptFor(n)' = KeptFor(n)
                 /\ n \in exposedBar' <=> n \in exposedBar
      <3>1. View(p, n) /\ View(p, n)'
        BY Views
      <3>2. at[p] # n /\ at'[p] # n
        BY <1>1, <1>3, NoneAssumption
      <3> QED BY <2>3, <3>1, <3>2 DEF View
    <2>5. UNCHANGED <<asideBar, keptBar>>
      BY <2>4 DEF asideBar, keptBar
    <2>6. UNCHANGED exposedBar
      <3>1. exposedBar \subseteq Skills /\ exposedBar' \subseteq Skills
        BY DEF exposedBar
      <3> QED BY <2>4, <3>1
    <2> QED BY <2>5, <2>6, MapsStutter
  <1> QED BY <1>2, <1>3

(* A step of a command that holds nothing and changes nothing on the disk. *)
LEMMA MapsNothing ==
  ASSUME Single, DiskOK, DiskOK', NEW p \in Procs,
         UNCHANGED <<dest, litter, spare>>, old[p] = None, old'[p] = None,
         saved[p] => pc[p] \notin Final, saved'[p] => pc'[p] \notin Final,
         ~ late[p] \/ at'[p] = at[p], late'[p] = late[p]
  PROVE  Mapped
  <1>1. ASSUME NEW n \in Skills
        PROVE  /\ Aside(n)' = Aside(n) /\ KeptFor(n)' = KeptFor(n)
               /\ n \in exposedBar' <=> n \in exposedBar
    <2>1. View(p, n) /\ View(p, n)'
      BY Views
    <2> QED BY <2>1 DEF View
  <1>2. UNCHANGED <<asideBar, keptBar>>
    BY <1>1 DEF asideBar, keptBar
  <1>3. UNCHANGED exposedBar
    <2>1. exposedBar \subseteq Skills /\ exposedBar' \subseteq Skills
      BY DEF exposedBar
    <2> QED BY <1>1, <2>1
  <1> QED BY <1>2, <1>3, MapsStutter

LEMMA MapsFail ==
  ASSUME Single, CustodyInv, DiskOK', NEW p \in Procs, NEW kept \in BOOLEAN, Fail(p, kept),
         dest' = dest, kept = saved[p] \/ (~ kept /\ pc[p] \notin Final)
  PROVE  Mapped
  <1> USE DEF CustodyInv, LoneInv, SkillInv, ActionOK
  <1>1. CASE Checkpointed(p)
    <2>1. UNCHANGED <<spare, litter, action>> /\ pc'[p] = "rollback"
      BY <1>1 DEF Fail
    <2>2. Act(p) \notin Replacing
      BY <1>1 DEF Checkpointed, Creates, Replacing
    <2>3. ~ saved[p] /\ old[p] = None
      BY <2>2 DEF Custody, Aware, TrackOK, Track, Taking, Swapped, Replacing
    <2> QED BY <2>1, <2>3, MapsNothing DEF action
  <1>2. CASE ~ Checkpointed(p)
    BY <1>2, MapsLeave DEF Fail
  <1> QED BY <1>1, <1>2

(* Whatever ends or fails.                                                 *)
LEMMA MapsEnds ==
  ASSUME Single, CustodyInv, DiskOK', NEW p \in Procs,
         Refuse(p) \/ Rollback(p) \/ StageFails(p) \/ PutRefused(p) \/ SnapshotFails(p)
         \/ SwapFails(p) \/ Failed(p) \/ UnlinkFails(p) \/ Finish(p) \/ Interrupt(p) \/ Kill(p)
         \/ (Validate(p) /\ ~ Expected(p)) \/ (Revalidate(p) /\ dest[at[p]] # want[p])
  PROVE  Mapped
  <1>1. dest' = dest
    BY DEF Refuse, Rollback, StageFails, PutRefused, SnapshotFails, SwapFails, Failed,
           UnlinkFails, Finish, Interrupt, Kill, Validate, Revalidate
  <1>2. saved[p] \in BOOLEAN
    BY DEF CustodyInv, LoneInv, SkillInv, ActionOK
  <1>3. CASE Failed(p) \/ Interrupt(p)
    BY <1>1, <1>2, <1>3, MapsFail DEF Failed, Interrupt
  <1>4. CASE Kill(p)
    BY <1>1, <1>2, <1>4, MapsLeave DEF Kill
  <1>5. CASE Refuse(p) \/ Rollback(p) \/ Finish(p)
    BY <1>1, <1>5, MapsLeave DEF Refuse, Rollback, Finish, Final
  <1>6. CASE StageFails(p) \/ PutRefused(p) \/ SnapshotFails(p) \/ SwapFails(p) \/ UnlinkFails(p)
    BY <1>1, <1>6, MapsFail
       DEF StageFails, PutRefused, SnapshotFails, SwapFails, UnlinkFails, Final
  <1>7. CASE Validate(p) /\ ~ Expected(p)
    BY <1>1, <1>7, MapsFail DEF Validate, Final
  <1>8. CASE Revalidate(p) /\ dest[at[p]] # want[p]
    BY <1>1, <1>8, MapsFail DEF Revalidate, Final
  <1> QED BY <1>3, <1>4, <1>5, <1>6, <1>7, <1>8

(* What is aside, kept and exposed if a step changes neither litter nor    *)
(* backups nor what the command holds.                                     *)
LEMMA BarsStay ==
  ASSUME Single, DiskOK, DiskOK', NEW p \in Procs, UNCHANGED <<litter, spare>>,
         old'[p] = old[p], late'[p] <=> late[p], at'[p] = at[p],
         \/ ~ (saved[p] /\ pc[p] \in Final) /\ ~ (saved'[p] /\ pc'[p] \in Final)
         \/ saved[p] /\ pc[p] \in Final /\ saved'[p] /\ pc'[p] \in Final /\ want'[p] = want[p]
  PROVE  UNCHANGED <<asideBar, keptBar, exposedBar>>
  <1>1. ASSUME NEW n \in Skills
        PROVE  /\ Aside(n)' = Aside(n) /\ KeptFor(n)' = KeptFor(n)
               /\ n \in exposedBar' <=> n \in exposedBar
    <2>1. View(p, n) /\ View(p, n)'
      BY Views
    <2> QED BY <2>1 DEF View
  <1>2. UNCHANGED <<asideBar, keptBar>>
    BY <1>1 DEF asideBar, keptBar
  <1>3. UNCHANGED exposedBar
    <2>1. exposedBar \subseteq Skills /\ exposedBar' \subseteq Skills
      BY DEF exposedBar
    <2> QED BY <1>1, <2>1
  <1> QED BY <1>2, <1>3

LEMMA ExposedStays ==
  ASSUME Single, DiskOK, DiskOK', NEW p \in Procs, NEW n \in Skills, Elsewhere(n),
         n \in exposedBar' <=> n \in exposedBar
  PROVE  exposedBar' = exposedBar
  <1>1. exposedBar' \ {n} = exposedBar \ {n}
    BY Elsewheres
  <1>2. \A m : m \in exposedBar' <=> m \in exposedBar
    BY <1>1
  <1> QED BY <1>2

LEMMA MadeWhole ==
  ASSUME NEW p \in Procs, Made(p) \in Nodes, Made(p).data # "torn",
         Act(p) = "link" \/ Digest(p) \in Versions
  PROVE  Made(p) \in WholeBar
  BY VersionsAssumption DEF Made, Link, Copy, WholeBar

(* Something is delivered where nothing is.                                *)
LEMMA MapsDeliver ==
  ASSUME Single, CustodyInv, CustodyInv', NEW p \in Procs, Put(p) \/ Install(p)
  PROVE  Mapped
  <1> USE DEF CustodyInv, LoneInv, SkillInv, ActionOK
  <1>1. PICK n \in Skills : at[p] = n
    BY DEF Put, Install, Goto, GripOK, Grip, Running
  <1>2. /\ pc[p] \in {"put", "install"} /\ pc'[p] \in {"landed", "drop"}
        /\ pc[p] = "put" => pc'[p] = "landed"
        /\ pc[p] = "install" => pc'[p] = "drop"
        /\ dest[n] = None /\ dest' = [dest EXCEPT ![n] = Made(p)]
        /\ UNCHANGED <<litter, spare, at, want, saved, old, late>>
    BY <1>1 DEF Put, Install, Goto, action
  <1>3. Act(p) \in Delivering
    BY <1>2 DEF TrackOK, Track, Creates, Delivering
  <1>4. Made(p) \in WholeBar
    <2>1. Digest(p) \in Versions
      BY <1>1, <1>3 DEF TrackOK, Track, Act, Digest
    <2> QED BY <2>1, NodeFacts, MadeWhole DEF Made
  <1>5. pc[p] = "put" => ~ saved[p]
    BY DEF Custody, Taking
  <1>6. UNCHANGED <<asideBar, keptBar, exposedBar>>
    BY <1>2, <1>5, BarsStay DEF Final
  <1>7. Promise!Deliver(n)
    BY <1>2, <1>4, <1>6 DEF Promise!Deliver, WholeBar, asideBar, keptBar, exposedBar
  <1> QED BY <1>7 DEF Mapped, Promise!PNext

(* The command up to the first change, and between two actions.            *)
LEMMA MapsStart ==
  ASSUME Single, CustodyInv, CustodyInv', NEW p \in Procs,
         Review(p) \/ Begin(p) \/ Pick(p) \/ Checkpoint(p) \/ Stage(p) \/ Landed(p)
  PROVE  Mapped
  <1> USE DEF CustodyInv, LoneInv, SkillInv, ActionOK
  <1>1. CASE Review(p) \/ Begin(p) \/ Pick(p) \/ Checkpoint(p) \/ Stage(p)
    <2>1. /\ pc[p] \in {"idle", "reviewed", "next", "checkpoint", "start"}
          /\ pc[p] = "next" \/ at'[p] = at[p]
          /\ UNCHANGED <<dest, litter, spare, saved, old, late>>
      BY <1>1 DEF Review, Begin, Pick, Checkpoint, Stage, Goto, disk, action
    <2>2. old[p] = None /\ ~ saved[p] /\ (pc[p] = "next" => ~ late[p])
      BY <2>1 DEF Aware, Custody, Swapped, Taking
    <2> QED BY <2>1, <2>2, MapsNothing
  <1>2. CASE Landed(p)
    <2>1. PICK n \in Skills : at[p] = n
      BY <1>2 DEF Landed, Goto, GripOK, Grip, Running
    <2>2. /\ pc[p] = "landed" /\ UNCHANGED <<dest, litter, old>>
          /\ spare' = IF saved[p] THEN [spare EXCEPT ![n] = @ \cup {want[p]}] ELSE spare
          /\ at'[p] = None /\ ~ saved'[p] /\ ~ late'[p] /\ old[p] = None
      BY <1>2, <2>1 DEF Landed, Goto, Aware, Swapped
    <2>3. n # None
      BY NoneAssumption
    <2>4. Elsewhere(n)
      BY <2>1, <2>2 DEF Elsewhere, Single, DiskOK
    <2>5. View(p, n) /\ View(p, n)'
      BY Views
    <2>6. Aside(n)' = Aside(n) /\ n \notin exposedBar'
      BY <2>2, <2>3, <2>5 DEF View
    <2>7. PICK K \in SUBSET WholeBar : KeptFor(n)' = KeptFor(n) \cup K
      <3>1. KeptFor(n)' = KeptFor(n) \cup {}
        BY <2>1, <2>2, <2>3, <2>5 DEF View, Final, DiskOK
      <3>2. {} \in SUBSET WholeBar
        OBVIOUS
      <3> QED BY <3>1, <3>2
    <2>8. dest' = dest
      BY <2>2
    <2> QED BY <2>4, <2>6, <2>7, <2>8, MapsKeep
  <1> QED BY <1>1, <1>2

(* What the command takes aside, or takes away.                            *)
LEMMA MapsTakes ==
  ASSUME Single, CustodyInv, CustodyInv', NEW p \in Procs,
         Validate(p) \/ Snapshot(p) \/ Revalidate(p) \/ Swap(p) \/ Unlink(p)
  PROVE  Mapped
  <1> USE DEF CustodyInv, LoneInv, SkillInv, ActionOK
  <1>1. CASE Validate(p) /\ ~ Expected(p)
    BY <1>1, MapsEnds
  <1>2. CASE Revalidate(p) /\ dest[at[p]] # want[p]
    BY <1>2, MapsEnds
  <1>3. CASE \/ Validate(p) /\ Expected(p)
             \/ Snapshot(p)
             \/ Revalidate(p) /\ dest[at[p]] = want[p]
    <2>1. /\ pc[p] \in {"validate", "start", "snapshot", "revalidate"}
          /\ pc'[p] \in {"unlink", "snapshot", "revalidate", "swap"}
          /\ UNCHANGED <<dest, litter, spare, at, old, late>>
      BY <1>3 DEF Validate, Snapshot, Revalidate, Goto, disk, action
    <2>2. UNCHANGED <<asideBar, keptBar, exposedBar>>
      BY <2>1, BarsStay DEF Final
    <2> QED BY <2>1, <2>2, MapsStutter
  <1>4. CASE Swap(p)
    <2>1. PICK n \in Skills : at[p] = n
      BY <1>4 DEF Swap, Goto, GripOK, Grip, Running
    <2>2. /\ pc[p] = "swap" /\ pc'[p] \in {"drop", "install"} /\ dest[n] # None
          /\ dest' = [dest EXCEPT ![n] = None] /\ old'[p] = dest[n]
          /\ UNCHANGED <<litter, spare, at, want, saved, late>>
      BY <1>4, <2>1 DEF Swap, Goto
    <2>3. old[p] = None
      BY <2>2 DEF Aware, Swapped
    <2>4. Elsewhere(n)
      BY <2>1, <2>2 DEF Elsewhere, Single
    <2>5. View(p, n) /\ View(p, n)'
      BY Views
    <2>6. /\ Aside(n)' = Aside(n) \cup {dest[n]} /\ KeptFor(n)' = KeptFor(n)
          /\ n \in exposedBar' <=> n \in exposedBar
      BY <2>1, <2>2, <2>3, <2>5 DEF View, Final
    <2>7. dest[n] \in UsersBar => n \in exposedBar
      BY <2>1, <2>2, <2>5 DEF Aware, Own, UsersBar, View
    <2>8. asideBar' = [asideBar EXCEPT ![n] = @ \cup {dest[n]}]
      BY <2>4, <2>6, Elsewheres DEF asideBar
    <2>9. keptBar' = keptBar /\ exposedBar' = exposedBar
      <3>1. keptBar' = keptBar
        BY <2>4, <2>6, Elsewheres DEF keptBar
      <3>2. exposedBar' = exposedBar
        BY <2>4, <2>6, ExposedStays
      <3> QED BY <3>1, <3>2
    <2>10. Promise!SetAside(n)
      BY <2>2, <2>7, <2>8, <2>9
         DEF Promise!SetAside, Promise!Unwatched, UsersBar, asideBar, keptBar, exposedBar
    <2> QED BY <2>10 DEF Mapped, Promise!PNext
  <1>5. CASE Unlink(p)
    <2>1. PICK n \in Skills : at[p] = n
      BY <1>5 DEF Unlink, Goto, GripOK, Grip, Running
    <2>2. /\ pc[p] = "unlink" /\ pc'[p] = "landed" /\ IsLink(dest[n])
          /\ dest' = [dest EXCEPT ![n] = None]
          /\ UNCHANGED <<litter, spare, at, want, saved, old, late>>
      BY <1>5, <2>1 DEF Unlink, Goto, action
    <2>3. ~ saved[p]
      BY <2>2 DEF Custody, Taking
    <2>4. UNCHANGED <<asideBar, keptBar, exposedBar>>
      BY <2>2, <2>3, BarsStay DEF Final
    <2>5. dest[n] \in LinksBar
      BY <2>2 DEF IsLink, LinksBar, DiskOK
    <2>6. dest[n] \in UsersBar => n \in exposedBar
      <3>1. View(p, n)
        BY Views
      <3> QED BY <2>1, <2>2, <3>1 DEF Aware, Own, IsLink, UsersBar, View
    <2>7. Promise!Unlink(n)
      BY <2>2, <2>4, <2>5, <2>6
         DEF Promise!Unlink, Promise!Unwatched, UsersBar, LinksBar, asideBar, keptBar, exposedBar
    <2> QED BY <2>7 DEF Mapped, Promise!PNext
  <1> QED BY <1>1, <1>2, <1>3, <1>4, <1>5

(* An installation that fails: the swap is put back, or its backup stays.  *)
LEMMA MapsUnswap ==
  ASSUME Single, CustodyInv, CustodyInv', NEW p \in Procs, InstallFails(p) \/ Unswap(p)
  PROVE  Mapped
  <1> USE DEF CustodyInv, LoneInv, SkillInv, ActionOK
  <1>1. CASE InstallFails(p)
    <2>1. /\ pc[p] = "install" /\ pc'[p] = "unswap"
          /\ UNCHANGED <<dest, litter, spare, at, old, late>>
      BY <1>1 DEF InstallFails, Goto, disk, action
    <2>2. UNCHANGED <<asideBar, keptBar, exposedBar>>
      BY <2>1, BarsStay DEF Final
    <2> QED BY <2>1, <2>2, MapsStutter
  <1>2. CASE Unswap(p)
    <2>1. PICK n \in Skills : at[p] = n
      BY <1>2 DEF Unswap, Goto, GripOK, Grip, Running
    <2>2. /\ pc[p] = "unswap" /\ pc'[p] = "failed" /\ saved[p]
          /\ old[p] \in Nodes /\ old[p] # None /\ old[p].data # "torn"
          /\ UNCHANGED <<litter, spare, at, want, late>>
      BY <1>2 DEF Unswap, Goto, Aware, GripOK, Grip, SoundOK, Sound, Swapped
    <2>3. Elsewhere(n)
      BY <2>1, <2>2 DEF Elsewhere, Single
    <2>4. View(p, n) /\ View(p, n)'
      BY Views
    <2>5. n \in exposedBar' <=> n \in exposedBar
      BY <2>2, <2>4 DEF View
    <2>6. exposedBar' = exposedBar
      BY <2>3, <2>5, ExposedStays
    <2>7. CASE Replaceable(p)
      <3>1. dest' = [dest EXCEPT ![n] = old[p]] /\ old'[p] = None /\ ~ saved'[p]
        BY <1>2, <2>1, <2>7 DEF Unswap
      <3>2. Aside(n)' = litter[n] /\ Aside(n) = litter[n] \cup {old[p]} /\ KeptFor(n)' = KeptFor(n)
        BY <2>1, <2>2, <2>4, <3>1 DEF View, Final
      <3>3. keptBar' = keptBar
        BY <2>3, <3>2, Elsewheres DEF keptBar
      <3>4. asideBar' = [asideBar EXCEPT ![n] = litter[n]]
        BY <2>3, <3>2, Elsewheres
      <3>5. \/ dest[n] = None
            \/ {old[p], dest[n]} \subseteq LinksBar /\ dest[n] \in UsersBar /\ n \in exposedBar
        <4>1. dest[n] = None \/ Own(dest[n])
          BY <2>1, <2>2 DEF Custody
        <4>2. Own(dest[n]) => n \in exposedBar
          BY <2>1, <2>2, <2>4 DEF Aware, View
        <4>3. dest[n] # None => IsLink(old[p]) /\ IsLink(dest[n])
          BY <2>1, <2>7 DEF Replaceable
        <4>4. dest[n] \in Nodes \cup {None}
          BY DEF DiskOK
        <4> QED BY <2>2, <4>1, <4>2, <4>3, <4>4 DEF Own, IsLink, LinksBar, UsersBar
      <3>6. Promise!Gone(n, old[p])
        <4>1. asideBar[n] = litter[n] \cup {old[p]}
          BY <3>2 DEF asideBar
        <4>2. /\ litter[n] \in SUBSET (asideBar[n] \cup RestsBar)
              /\ asideBar[n] \ {old[p]} \subseteq litter[n]
          BY <4>1
        <4> QED BY <3>4, <4>2 DEF Promise!Gone, asideBar, RestsBar
      <3>7. old[p] \in asideBar[n] \ RestsBar
        BY <2>2, <3>2 DEF asideBar, RestsBar
      <3>8. Promise!PutBack(n)
        BY <2>6, <3>1, <3>3, <3>5, <3>6, <3>7
           DEF Promise!PutBack, Promise!Unwatched, asideBar, keptBar, exposedBar, RestsBar, LinksBar,
               UsersBar
      <3> QED BY <3>8 DEF Mapped, Promise!PNext
    <2>8. CASE ~ Replaceable(p)
      <3>1. UNCHANGED <<dest, old, saved>>
        BY <1>2, <2>8 DEF Unswap
      <3>2. Aside(n)' = Aside(n)
        BY <2>2, <2>4, <3>1 DEF View
      <3>3. PICK K \in SUBSET WholeBar : KeptFor(n)' = KeptFor(n) \cup K
        <4>1. want[p] \in WholeBar
          BY <2>2 DEF WholeBar, GripOK, Grip, SoundOK, Sound, Aware, Own
        <4>2. KeptFor(n)' = KeptFor(n) \cup {want[p]}
          BY <2>1, <2>2, <2>4, <3>1 DEF View, Final
        <4> QED BY <4>1, <4>2
      <3>4. dest' = dest
        BY <3>1
      <3> QED BY <2>3, <2>5, <3>2, <3>3, <3>4, MapsKeep
    <2> QED BY <2>7, <2>8
  <1> QED BY <1>1, <1>2

(* The swap is removed, wholly or in part, with a backup that stays.       *)
LEMMA MapsDestroy ==
  ASSUME Single, CustodyInv, CustodyInv', NEW p \in Procs, Drop(p) \/ DropFails(p)
  PROVE  Mapped
  <1> USE DEF CustodyInv, LoneInv, SkillInv, ActionOK
  <1>1. PICK n \in Skills : at[p] = n
    BY DEF Drop, DropFails, Goto, GripOK, Grip, Running
  <1>2. /\ pc[p] = "drop" /\ pc'[p] \in Final /\ saved[p]
        /\ old[p] \in Nodes /\ old[p] # None /\ (old[p] = want[p] \/ (Own(old[p]) /\ late[p]))
        /\ old'[p] \in {None, Torn(old[p])}
        /\ UNCHANGED <<dest, litter, spare, at, want, saved, late>>
    BY DEF Drop, DropFails, Goto, Aware, GripOK, Grip, Swapped, Final, disk
  <1>3. Elsewhere(n)
    BY <1>1, <1>2 DEF Elsewhere, Single
  <1>4. View(p, n) /\ View(p, n)'
    BY Views
  <1>5. exposedBar' = exposedBar
    <2>1. n \in exposedBar' <=> n \in exposedBar
      BY <1>2, <1>4 DEF View
    <2> QED BY <1>3, <2>1, ExposedStays
  <1>6. KeptFor(n)' = KeptFor(n) \cup {want[p]}
    BY <1>1, <1>2, <1>4 DEF View, Final
  <1>7. keptBar' = [keptBar EXCEPT ![n] = @ \cup {want[p]}] /\ want[p] \in keptBar'[n]
    <2>1. keptBar' = [keptBar EXCEPT ![n] = KeptFor(n)']
      BY <1>3, Elsewheres
    <2> QED BY <1>6, <2>1 DEF keptBar
  <1>8. want[p] \in WholeBar
    BY <1>2 DEF WholeBar, GripOK, Grip, SoundOK, Sound, Aware, Own
  <1>9. old[p] \in keptBar'[n] \/ (old[p] \in UsersBar /\ n \in exposedBar)
    <2>1. late[p] => n \in exposedBar
      BY <1>1, <1>4 DEF View
    <2> QED BY <1>2, <1>7, <2>1 DEF Own, UsersBar
  <1>10. Promise!Gone(n, old[p])
    <2>1. asideBar[n] = litter[n] \cup {old[p]}
      BY <1>1, <1>2, <1>4 DEF asideBar, View
    <2>2. PICK S : Aside(n)' = S /\ S \in {litter[n], litter[n] \cup {Torn(old[p])}}
      BY <1>1, <1>2, <1>4 DEF View
    <2>3. Torn(old[p]) \in RestsBar \cup {old[p]}
      BY <1>2, NodeFacts DEF Torn, RestsBar
    <2>4. S \in SUBSET (asideBar[n] \cup RestsBar) /\ asideBar[n] \ {old[p]} \subseteq S
      BY <2>1, <2>2, <2>3
    <2>5. asideBar' = [asideBar EXCEPT ![n] = S]
      BY <1>3, <2>2, Elsewheres
    <2> QED BY <2>4, <2>5 DEF Promise!Gone, asideBar, RestsBar
  <1>11. old[p] \in asideBar[n]
    BY <1>1, <1>2, <1>4 DEF asideBar, View
  <1>12. Promise!Expendable(n, old[p])
    BY <1>9 DEF Promise!Expendable, Promise!Unwatched, keptBar, UsersBar, exposedBar
  <1>13. Promise!Destroy(n)
    <2>1. dest' = dest /\ {want[p]} \in SUBSET WholeBar
      BY <1>2, <1>8
    <2> QED BY <1>5, <1>7, <1>10, <1>11, <1>12, <2>1
            DEF Promise!Destroy, asideBar, keptBar, exposedBar, WholeBar
  <1> QED BY <1>13 DEF Mapped, Promise!PNext

(* A removal that has failed half-way puts back what the backup holds.     *)
LEMMA MapsRestore ==
  ASSUME Single, CustodyInv, CustodyInv', NEW p \in Procs, Restore(p)
  PROVE  Mapped
  <1> USE DEF CustodyInv, LoneInv, SkillInv, ActionOK
  <1>1. PICK n \in Skills : at[p] = n
    BY DEF Restore, Goto, GripOK, Grip, Running
  <1>2. /\ pc[p] = "restore" /\ pc'[p] = "failed" /\ saved[p]
        /\ old[p] \in Nodes /\ old[p] # None
        /\ old[p].data = "torn" \/ (Own(old[p]) /\ late[p]) \/ old[p] = want[p]
        /\ UNCHANGED <<litter, spare, at, want, saved, late>>
    BY DEF Restore, Goto, Aware, Custody, GripOK, Grip
  <1>3. CASE dest[n] # None
    <2>1. UNCHANGED <<dest, old>>
      BY <1>1, <1>3 DEF Restore
    <2>2. UNCHANGED <<asideBar, keptBar, exposedBar>>
      BY <1>2, <2>1, BarsStay DEF Final
    <2> QED BY <2>1, <2>2, MapsStutter
  <1>4. CASE dest[n] = None
    <2>1. dest' = [dest EXCEPT ![n] = want[p]] /\ old'[p] \in {None, old[p]}
      BY <1>1, <1>4 DEF Restore
    <2>2. Elsewhere(n)
      BY <1>1, <1>2 DEF Elsewhere, Single
    <2>3. View(p, n) /\ View(p, n)'
      BY Views
    <2>4. exposedBar' = exposedBar
      <3>1. n \in exposedBar' <=> n \in exposedBar
        BY <1>2, <2>3 DEF View
      <3> QED BY <2>2, <3>1, ExposedStays
    <2>5. KeptFor(n)' = KeptFor(n) /\ want[p] \in KeptFor(n)
      BY <1>1, <1>2, <2>3 DEF View, Final
    <2>6. keptBar' = keptBar /\ want[p] \in keptBar[n]
      <3>1. keptBar' = [keptBar EXCEPT ![n] = KeptFor(n)']
        BY <2>2, Elsewheres
      <3> QED BY <2>5, <3>1 DEF keptBar
    <2>7. asideBar[n] = litter[n] \cup {old[p]}
      BY <1>1, <1>2, <2>3 DEF asideBar, View
    <2>8. asideBar' = [asideBar EXCEPT ![n] = Aside(n)']
      BY <2>2, Elsewheres
    <2>9. CASE old'[p] = old[p]
      <3>1. Aside(n)' = asideBar[n]
        BY <1>1, <1>2, <2>3, <2>7, <2>9 DEF View
      <3>2. asideBar' = asideBar
        BY <2>8, <3>1 DEF asideBar
      <3>3. Promise!Restore(n)
        BY <1>4, <2>1, <2>4, <2>6, <3>2 DEF Promise!Restore, asideBar, keptBar, exposedBar
      <3> QED BY <3>3 DEF Mapped, Promise!PNext
    <2>10. CASE old'[p] = None
      <3>1. Aside(n)' = litter[n]
        BY <1>2, <2>3, <2>10 DEF View
      <3>2. Promise!Gone(n, old[p])
        <4>1. /\ litter[n] \in SUBSET (asideBar[n] \cup RestsBar)
              /\ asideBar[n] \ {old[p]} \subseteq litter[n]
          BY <2>7
        <4> QED BY <2>8, <3>1, <4>1 DEF Promise!Gone, asideBar, RestsBar
      <3>3. late[p] => n \in exposedBar
        BY <1>1, <2>3 DEF View
      <3>4. old[p] \in RestsBar \cup keptBar'[n] \/ (old[p] \in UsersBar /\ n \in exposedBar)
        BY <1>2, <2>6, <3>3 DEF Own, UsersBar, RestsBar
      <3>5. Promise!Expendable(n, old[p])
        BY <3>4 DEF Promise!Expendable, Promise!Unwatched, keptBar, UsersBar, RestsBar, exposedBar
      <3>6. old[p] \in asideBar[n]
        BY <2>7
      <3>7. Promise!Restore(n)
        BY <1>4, <2>1, <2>4, <2>6, <3>2, <3>5, <3>6
           DEF Promise!Restore, asideBar, keptBar, exposedBar
      <3> QED BY <3>7 DEF Mapped, Promise!PNext
    <2> QED BY <2>1, <2>9, <2>10
  <1> QED BY <1>3, <1>4

(* The user.                                                               *)
LEMMA MapsUser ==
  ASSUME CustodyInv, CustodyInv', User
  PROVE  Mapped
  <1> USE DEF CustodyInv, LoneInv, SkillInv, ActionOK
  <1>1. UNCHANGED <<pc, at, want, saved, old, litter, spare>>
    BY DEF User, EditSource, Select, SwitchMode, Write, Others
  <1>2. \A n \in Skills : Working(n)' = Working(n)
    BY <1>1 DEF Working
  <1>3. UNCHANGED <<asideBar, keptBar>>
    BY <1>1, <1>2 DEF asideBar, keptBar, Aside, KeptFor, Working
  <1>4. CASE UNCHANGED <<dest, late>>
    <2>1. UNCHANGED exposedBar
      BY <1>2, <1>4 DEF exposedBar
    <2> QED BY <1>3, <1>4, <2>1, MapsStutter
  <1>5. ASSUME NEW n \in Skills, Write(n) PROVE Mapped
    <2>1. PICK x \in UsersBar \cup {None} : dest' = [dest EXCEPT ![n] = x]
      <3>1. PICK x : /\ dest' = [dest EXCEPT ![n] = x]
                     /\ \/ x \in {None, OwnLink, OwnTree}
                        \/ Intact(dest[n]) /\ x = Edited(dest[n].mark)
        BY <1>5 DEF Write
      <3>2. Intact(dest[n]) => Edited(dest[n].mark) \in UsersBar
        BY DEF Intact, DiskOK, Nodes, Edited, UsersBar
      <3>3. OwnLink \in UsersBar /\ OwnTree \in UsersBar
        BY NodeFacts DEF OwnLink, OwnTree, UsersBar
      <3> QED BY <3>1, <3>2, <3>3
    <2>2. \A p \in Procs :
            late'[p] <=>
              (late[p] \/ (at[p] = n /\ pc[p] \in {"swap", "install", "unswap", "unlink"}))
      BY <1>5, Zenon DEF Write
    <2>3. exposedBar' \in {exposedBar, exposedBar \cup {n}}
      <3>1. \A m \in Skills \ {n} : m \in exposedBar' <=> m \in exposedBar
        BY <1>2, <2>2 DEF exposedBar, Working
      <3>2. n \in exposedBar => n \in exposedBar'
        BY <1>2, <2>2 DEF exposedBar, Working
      <3>3. exposedBar \subseteq Skills /\ exposedBar' \subseteq Skills
        BY DEF exposedBar
      <3> QED BY <3>1, <3>2, <3>3
    <2>4. Promise!UserWrites(n)
      BY <1>3, <2>1, <2>3 DEF Promise!UserWrites, UsersBar, asideBar, keptBar, exposedBar
    <2> QED BY <2>4 DEF Mapped, Promise!PNext
  <1> QED BY <1>4, <1>5 DEF User, EditSource, Select, SwitchMode

LEMMA MapsInit == Init => Promise!PInit
  <1> SUFFICES ASSUME Init PROVE Promise!PInit
    OBVIOUS
  <1>1. \A n \in Skills : Working(n) = {}
    BY NoneAssumption DEF Init, Working
  <1>2. \A n \in Skills : litter[n] = {} /\ spare[n] = {}
    BY DEF Init
  <1>3. asideBar = [n \in Skills |-> {}] /\ keptBar = [n \in Skills |-> {}] /\ exposedBar = {}
    BY <1>1, <1>2 DEF asideBar, keptBar, exposedBar, Aside, KeptFor
  <1> QED BY <1>3 DEF Init, Promise!PInit, asideBar, keptBar, exposedBar

LEMMA MapsStep == Single /\ CustodyInv /\ CustodyInv' /\ [Next]_vars => Mapped
  <1> SUFFICES ASSUME Single, CustodyInv, CustodyInv', [Next]_vars PROVE Mapped
    OBVIOUS
  <1>1. CASE User
    BY <1>1, MapsUser
  <1>2. ASSUME NEW p \in Procs, Step(p) \/ Interrupt(p) \/ Kill(p) PROVE Mapped
    <2>1. DiskOK'
      BY DEF CustodyInv, LoneInv, SkillInv
    <2> QED BY <1>2, <2>1, MapsEnds, MapsStart, MapsDeliver, MapsTakes, MapsUnswap, MapsDestroy,
               MapsRestore
            DEF Step, Prepare, Create, Replace, Remove
  <1>3. CASE UNCHANGED vars
    <2>1. UNCHANGED <<dest, litter, spare, pc, at, want, saved, old, late>>
      BY <1>3 DEF vars, disk, action
    <2>2. UNCHANGED <<asideBar, keptBar, exposedBar>>
      BY <2>1 DEF asideBar, keptBar, exposedBar, Aside, KeptFor, Working
    <2> QED BY <2>1, <2>2, MapsStutter
  <1> QED BY <1>1, <1>2, <1>3 DEF Next

(* With one command at a time, whatever fails or is stopped, every step of *)
(* commands and user handles what lies at the destinations as SkillPromise *)
(* says: what a command takes is the bridge's own, it goes only with a     *)
(* backup that stays, and the user's content is lost only if it came after *)
(* the command's last look.                                                *)
THEOREM PromiseCorrect == ASSUME Single PROVE Spec => PromiseKept
  <1>1. Init => CustodyInv
    BY InitCustody
  <1>2. CustodyInv /\ [Next]_vars => CustodyInv'
    BY CustodyStep
  <1>3. CustodyInv /\ CustodyInv' /\ [Next]_vars => [Promise!PNext]_Promise!promiseVars
    BY MapsStep DEF Mapped
  <1>4. Init => Promise!PInit
    BY MapsInit
  <1> QED BY <1>1, <1>2, <1>3, <1>4, PTL DEF Spec, PromiseKept, Promise!PSpec

-----------------------------------------------------------------------------
(* What may lie at a destination for the next plan to go on from it with   *)
(* no conflict: nothing of the bridge's, or what the record vouches for,   *)
(* of a source that has not changed.                                       *)
Vacant(x) == x = None \/ Own(x)
Stands(n, x) ==
  \/ Vacant(x)
  \/ x = Link /\ owned[n] = "symlink"
  \/ x = Copy(source[n]) /\ owned[n] # None /\ linkmode = "copy"

(* What a command leaves at a Skill it is through with.                    *)
Arrived(p, n) ==
  \/ Vacant(dest[n])
  \/ n \in chosen[p] /\ mode[p] = "symlink" /\ dest[n] = Link
  \/ n \in chosen[p] /\ mode[p] = "copy" /\ dest[n] = Copy(source[n])

(* The record is the one the command works from, but for a checkpoint.     *)
Recorded(p, n) ==
  \/ owned[n] = memo[p][n]
  \/ at[p] = n /\ Checkpointed(p) /\ pc[p] \in {"start", "put", "landed", "rollback"}

Started(p) == pc[p] \notin {"idle", "reviewed"}
Ready(p) ==
  /\ pc[p] # "idle" => mode[p] \in Modes /\ cmd[p] \in {"apply", "sync"}
  /\ pc[p] \in Running \cup {"checkpoint", "rollback"} => at[p] \in todo[p]
  /\ pc[p] \in {"checkpoint", "rollback"} => Checkpointed(p)
  /\ pc[p] = "unlink" => Act(p) = "unlink"

(* The plan of a command that has begun, against record and destination.   *)
Planned(p, n) ==
  /\ plan[p][n].do = "link" => mode[p] = "symlink" /\ n \in chosen[p]
  /\ plan[p][n].do \in {"create", "migrate", "update"} =>
       mode[p] = "copy" /\ n \in chosen[p] /\ plan[p][n].digest = source[n]
  /\ n \in todo[p] /\ plan[p][n].do \in {"link", "create"} =>
       Vacant(dest[n]) \/ (at[p] = n /\ pc[p] = "landed")
  /\ n \in todo[p] /\ plan[p][n].do \in {"migrate", "update"} => owned[n] # None
  /\ n \notin todo[p] \/ (at[p] = n /\ pc[p] \in {"drop", "landed"}) => Arrived(p, n)
  /\ Recorded(p, n)
  /\ at[p] = n /\ Checkpointed(p) /\ pc[p] \in {"start", "put", "landed"} => owned[n] = mode[p]

Tidy(p, n) ==
  /\ pc[p] # "idle" /\ mode[p] = "copy" => linkmode = "copy"
  /\ Started(p) => Planned(p, n)
  /\ at[p] = n /\ pc[p] \in Taking \cup Swapped => Stands(n, want[p])
  /\ at[p] = n /\ pc[p] \in Swapped => Stands(n, old[p])
Resumable(n) == Stands(n, dest[n]) /\ \A p \in Procs : Tidy(p, n)

(* A Skill is resumable at every step, unless it is excused.               *)
ResumeInv ==
  /\ SkillInv
  /\ \A p \in Procs : Ready(p)
  /\ \A n \in Skills \ excused : Resumable(n)
Resumes(p) == Ready(p)' /\ \A n \in Skills \ excused : n \notin excused' => Resumable(n)'

LEMMA InitResume == Init => ResumeInv
  <1> SUFFICES ASSUME Init PROVE ResumeInv
    OBVIOUS
  <1>1. \A p \in Procs : pc[p] = "idle"
    BY DEF Init
  <1>2. \A n \in Skills : dest[n] = None
    BY DEF Init
  <1>3. \A p \in Procs : Ready(p) /\ \A n \in Skills : Tidy(p, n)
    BY <1>1 DEF Ready, Tidy, Started, Running, Taking, Swapped
  <1>4. \A n \in Skills : Stands(n, dest[n])
    BY <1>2 DEF Stands, Vacant
  <1> QED BY <1>3, <1>4, InitInv DEF ResumeInv, Resumable

(* A command that ends: what is at the destinations stands on its own.     *)
LEMMA LeaveResumes ==
  ASSUME Single, ResumeInv, NEW p \in Procs, NEW kept, Leave(p, kept)
  PROVE  /\ Ready(p)'
         /\ \A n \in Skills : Stands(n, dest[n])' => Resumable(n)'
  <1>1. pc'[p] = "idle"
    BY DEF Leave, ResumeInv, SkillInv, ActionOK
  <1>2. Ready(p)' /\ \A n \in Skills : Tidy(p, n)'
    BY <1>1 DEF Ready, Tidy, Started, Running, Taking, Swapped
  <1> QED BY <1>2 DEF Single, Resumable

(* A failure hands over to the rollback, or ends the command.              *)
LEMMA FailResumes ==
  ASSUME Single, ResumeInv, NEW p \in Procs, NEW kept, Fail(p, kept), pc[p] \in Running,
         UNCHANGED <<dest, owned, catalog>>,
         \/ pc[p] # "landed" \/ ~ Creates(p)
         \/ at[p] \in excused'
  PROVE  Resumes(p)
  <1> USE DEF ResumeInv
  <1>0. \A n \in Skills \ excused : Stands(n, dest[n])'
    BY DEF Resumable, Stands, catalog
  <1>1. CASE Checkpointed(p)
    <2>1. /\ pc'[p] = "rollback"
          /\ UNCHANGED <<task, action>>
      BY <1>1 DEF Fail, SkillInv, ActionOK
    <2>2. UNCHANGED <<cmd, mode, plan, chosen, memo, todo, at, want, old>>
      BY <2>1 DEF task, action
    <2>3. Ready(p)'
      <3>1. Ready(p)
        OBVIOUS
      <3>2. Checkpointed(p)'
        BY <1>1, <2>2 DEF Checkpointed, Creates, Act
      <3> QED BY <2>1, <2>2, <3>1, <3>2 DEF Ready, Running
    <2>4. ASSUME NEW n \in Skills \ excused, n \notin excused' PROVE Tidy(p, n)'
      <3>1. Tidy(p, n) /\ Started(p)
        BY <2>4 DEF Resumable, Started, Running
      <3>2. Planned(p, n)'
        <4>1. Planned(p, n) /\ Creates(p)
          BY <1>1, <3>1 DEF Tidy, Checkpointed
        <4>2. UNCHANGED <<dest, owned, source>>
          BY DEF catalog
        <4>3. at[p] = n => pc[p] # "landed"
          BY <2>4, <4>1
        <4>4. Arrived(p, n)' <=> Arrived(p, n)
          BY <2>2, <4>2 DEF Arrived
        <4>5. Recorded(p, n)'
          <5>1. Checkpointed(p)'
            BY <1>1, <2>2 DEF Checkpointed, Creates, Act
          <5> QED BY <2>1, <2>2, <4>1, <4>2, <5>1 DEF Planned, Recorded
        <4> QED BY <2>1, <2>2, <4>1, <4>2, <4>3, <4>4, <4>5 DEF Planned
      <3> QED BY <2>1, <2>2, <3>1, <3>2 DEF Tidy, catalog, Taking, Swapped, Started
    <2> QED BY <1>0, <2>3, <2>4 DEF Resumes, Resumable, Single
  <1>2. CASE ~ Checkpointed(p)
    BY <1>0, <1>2, LeaveResumes DEF Fail, Resumes
  <1> QED BY <1>1, <1>2

(* A Skill that the current action is not about.                           *)
LEMMA ApartResumes ==
  ASSUME Single, ResumeInv, NEW p \in Procs, Started(p), Started(p)',
         UNCHANGED <<catalog, task, at>>,
         NEW n \in Skills \ excused, at[p] # n, dest'[n] = dest[n], owned'[n] = owned[n]
  PROVE  Resumable(n)'
  <1>1. Stands(n, dest[n]) /\ Tidy(p, n)
    BY DEF ResumeInv, Resumable
  <1>2. UNCHANGED <<source, linkmode, cmd, mode, plan, chosen, memo, todo, at>>
    BY DEF catalog, task
  <1>3. pc[p] # "idle" /\ Planned(p, n)
    BY <1>1 DEF Tidy, Started
  <1>4. Planned(p, n)'
    BY <1>2, <1>3 DEF Planned, Recorded, Arrived
  <1>5. Tidy(p, n)'
    BY <1>1, <1>2, <1>3, <1>4 DEF Tidy
  <1>6. Stands(n, dest[n])'
    BY <1>1, <1>2 DEF Stands
  <1> QED BY <1>5, <1>6 DEF Resumable, Single

(* A step inside an action, of which only its own Skill is left to show.   *)
LEMMA InsideResumes ==
  ASSUME Single, ResumeInv, NEW p \in Procs, pc[p] \in Running, pc'[p] \in Running,
         UNCHANGED <<catalog, owned, task, at>>,
         pc'[p] = "unlink" => Act(p) = "unlink",
         \A n \in Skills \ {at[p]} : dest'[n] = dest[n],
         at[p] \in Skills \ excused => Stands(at[p], dest[at[p]])' /\ Tidy(p, at[p])'
  PROVE  Resumes(p)
  <1> USE DEF ResumeInv
  <1>1. Started(p) /\ Started(p)'
    BY DEF Started, Running
  <1>2. \A n \in Skills \ excused : at[p] # n => Resumable(n)'
    BY <1>1, ApartResumes
  <1>3. \A n \in Skills \ excused : at[p] = n => Resumable(n)'
    BY DEF Resumable, Single
  <1>4. Ready(p)'
    <2>1. UNCHANGED <<cmd, mode, plan, todo, at>>
      BY DEF task
    <2>2. Ready(p) /\ pc[p] # "idle"
      BY DEF Running
    <2>3. pc'[p] \notin {"checkpoint", "rollback", "idle"}
      BY DEF Running
    <2> QED BY <2>1, <2>2, <2>3 DEF Ready, Act
  <1> QED BY <1>2, <1>3, <1>4 DEF Resumes

(* What a plan without conflicts says of a Skill that stands as it should. *)
LEMMA PlanStands ==
  ASSUME SkillInv, NEW n \in Skills, NEW m \in Modes, Stands(n, dest[n]), Do(n, m) # "conflict"
  PROVE  /\ Do(n, m) = "link" => m = "symlink" /\ n \in selected
         /\ Do(n, m) \in {"create", "migrate", "update"} => m = "copy" /\ n \in selected
         /\ Do(n, m) \in {"link", "create"} => dest[n] = None
         /\ Do(n, m) \in {"migrate", "update"} => owned[n] # None
         /\ Do(n, m) \notin Changing =>
              \/ Vacant(dest[n])
              \/ n \in selected /\ m = "symlink" /\ dest[n] = Link
              \/ n \in selected /\ m = "copy" /\ dest[n] = Copy(source[n])
  <1>1. m \in {"symlink", "copy"} /\ None \notin {"symlink", "copy"}
    BY NoneAssumption DEF Modes
  <1>2. CASE n \notin selected
    <2>1. CASE owned[n] = None
      <3>1. Do(n, m) = "none" /\ Vacant(dest[n])
        BY <1>1, <1>2, <2>1 DEF Do, Stands
      <3> QED BY <3>1
    <2>2. CASE owned[n] # None
      BY <1>2, <2>2 DEF Do, PlanRemoval, Changing, Vacant
    <2> QED BY <2>1, <2>2
  <1>3. CASE n \in selected /\ m = "symlink"
    BY <1>3 DEF Do, PlanLink, Changing
  <1>4. CASE n \in selected /\ m = "copy"
    <2>1. Do(n, m) = PlanCopy(n)
      BY <1>4 DEF Do
    <2>2. PlanCopy(n) = "noop" => Intact(dest[n]) /\ dest[n].data = source[n]
      BY DEF PlanCopy
    <2>3. Intact(dest[n]) /\ dest[n].data = source[n] => dest[n] = Copy(source[n])
      <3>1. Intact(dest[n]) => dest[n] \in Nodes
        BY DEF Intact, SkillInv, DiskOK
      <3> QED BY <3>1 DEF Intact, Nodes, Copy
    <2>4. PlanCopy(n) \in {"create", "migrate", "conflict", "update", "noop"}
      BY DEF PlanCopy
    <2>5. PlanCopy(n) \in {"migrate", "update"} => owned[n] # None
      BY <1>1 DEF PlanCopy
    <2>6. PlanCopy(n) = "create" => dest[n] = None
      BY DEF PlanCopy
    <2> QED BY <1>4, <2>1, <2>2, <2>3, <2>4, <2>5, <2>6 DEF Changing
  <1> QED BY <1>1, <1>2, <1>3, <1>4

(* The command up to its first action, and the undoing of a checkpoint.    *)
LEMMA BeginResumes ==
  ASSUME Single, ResumeInv, NEW p \in Procs, Begin(p)
  PROVE  Resumes(p)
  <1> USE DEF ResumeInv, SkillInv, ActionOK, TaskOK
  <1>1. /\ pc[p] = "reviewed" /\ pc'[p] = "next"
        /\ plan[p] = PlanOf(mode[p]) /\ \A n \in Skills : Do(n, mode[p]) # "conflict"
        /\ chosen'[p] = selected /\ memo'[p] = owned
        /\ todo'[p] = {n \in Skills : plan[p][n].do \in Changing}
        /\ UNCHANGED <<dest, owned, source, linkmode, cmd, mode, plan, at, want, old, excused>>
    BY DEF Begin, Goto, Conflicts, disk, catalog, action
  <1>2. Ready(p)'
    BY <1>1 DEF Ready, Running
  <1>3. ASSUME NEW n \in Skills \ excused PROVE Resumable(n)'
    <2>1. Stands(n, dest[n]) /\ Tidy(p, n)
      BY DEF Resumable
    <2>2. mode[p] \in Modes
      BY <1>1 DEF Ready
    <2>3. /\ plan[p][n].do = Do(n, mode[p])
          /\ n \in selected => plan[p][n].digest = source[n]
      BY <1>1 DEF PlanOf
    <2>4. Recorded(p, n)'
      BY <1>1 DEF Recorded
    <2>5. n \in todo'[p] <=> Do(n, mode[p]) \in Changing
      BY <1>1, <2>3
    <2> DEFINE d == Do(n, mode[p])
    <2>6. /\ d = "link" => mode[p] = "symlink" /\ n \in selected
          /\ d \in {"create", "migrate", "update"} => mode[p] = "copy" /\ n \in selected
          /\ d \in {"link", "create"} => dest[n] = None
          /\ d \in {"migrate", "update"} => owned[n] # None
          /\ d \notin Changing =>
               \/ Vacant(dest[n])
               \/ n \in selected /\ mode[p] = "symlink" /\ dest[n] = Link
               \/ n \in selected /\ mode[p] = "copy" /\ dest[n] = Copy(source[n])
      BY <1>1, <2>1, <2>2, PlanStands
    <2>7. Arrived(p, n)' \/ d \in Changing
      BY <1>1, <2>6 DEF Arrived
    <2> HIDE DEF d
    <2>8. Planned(p, n)'
      <3>1. plan'[p][n] = plan[p][n] /\ plan[p][n].do = d /\ (n \in todo'[p] <=> d \in Changing)
        BY <1>1, <2>3, <2>5 DEF d
      <3> QED BY <1>1, <2>3, <2>4, <2>6, <2>7, <3>1 DEF Planned, Vacant
    <2>9. Tidy(p, n)'
      BY <1>1, <2>1, <2>8 DEF Tidy, Taking, Swapped
    <2>10. Stands(n, dest[n])'
      BY <1>1, <2>1 DEF Stands
    <2> QED BY <2>9, <2>10 DEF Resumable, Single
  <1> QED BY <1>2, <1>3 DEF Resumes

LEMMA PrepareResumes ==
  ASSUME Single, ResumeInv, NEW p \in Procs, Prepare(p)
  PROVE  Resumes(p)
  <1> USE DEF ResumeInv, SkillInv, ActionOK, TaskOK
  <1>1. CASE Review(p)
    <2>1. /\ pc'[p] = "reviewed" /\ mode'[p] = linkmode /\ cmd'[p] \in {"apply", "sync"}
          /\ UNCHANGED <<dest, owned, source, linkmode, at, want, old>>
      BY <1>1, CommandsAssumption DEF Review, Goto, disk, catalog, action
    <2>2. linkmode \in Modes
      BY DEF CatalogOK
    <2>3. Ready(p)'
      BY <2>1, <2>2 DEF Ready, Running
    <2>4. ASSUME NEW n \in Skills \ excused PROVE Resumable(n)'
      <3>1. Stands(n, dest[n])'
        BY <2>1 DEF Resumable, Stands
      <3>2. Tidy(p, n)'
        BY <2>1 DEF Tidy, Started, Taking, Swapped
      <3> QED BY <3>1, <3>2 DEF Resumable, Single
    <2> QED BY <2>3, <2>4 DEF Resumes
  <1>2. CASE Refuse(p)
    <2>1. \A n \in Skills \ excused : Stands(n, dest[n])'
      BY <1>2 DEF Refuse, Resumable, Stands, catalog
    <2> QED BY <1>2, <2>1, LeaveResumes DEF Refuse, Resumes
  <1>3. CASE Begin(p)
    BY <1>3, BeginResumes
  <1>4. CASE Pick(p)
    <2>1. PICK k \in todo[p] :
            /\ at' = [at EXCEPT ![p] = k]
            /\ pc' = [pc EXCEPT ![p] =
                 IF cmd[p] = "sync" /\ plan[p][k].do \in {"link", "create"} THEN "checkpoint"
                 ELSE "start"]
      BY <1>4 DEF Pick
    <2>2. /\ pc[p] = "next" /\ at'[p] = k
          /\ pc'[p] = IF cmd[p] = "sync" /\ plan[p][k].do \in {"link", "create"}
                      THEN "checkpoint" ELSE "start"
          /\ UNCHANGED <<dest, owned, source, linkmode, cmd, mode, plan, chosen, memo, todo>>
      BY <1>4, <2>1 DEF Pick, disk, catalog, task
    <2>3. (Checkpointed(p))' <=> pc'[p] = "checkpoint"
      BY <2>2 DEF Checkpointed, Creates, Act
    <2>4. Ready(p)'
      BY <2>2, <2>3 DEF Ready
    <2>5. ASSUME NEW n \in Skills \ excused PROVE Resumable(n)'
      <3>1. Stands(n, dest[n]) /\ Planned(p, n) /\ Tidy(p, n)
        BY <2>2 DEF Resumable, Tidy, Started
      <3>2. Stands(n, dest[n])'
        BY <2>2, <3>1 DEF Stands
      <3>3. owned[n] = memo[p][n]
        BY <2>2, <3>1 DEF Planned, Recorded
      <3>4. Planned(p, n)'
        BY <2>2, <2>3, <3>1, <3>3 DEF Planned, Recorded, Arrived
      <3>5. Tidy(p, n)'
        BY <2>2, <3>1, <3>4 DEF Tidy, Taking, Swapped
      <3> QED BY <3>2, <3>5 DEF Resumable, Single
    <2> QED BY <2>4, <2>5 DEF Resumes
  <1>5. CASE Checkpoint(p)
    <2>1. /\ pc[p] = "checkpoint" /\ pc'[p] = "start"
          /\ owned' = [memo[p] EXCEPT ![at[p]] = mode[p]]
          /\ UNCHANGED <<dest, source, linkmode, cmd, mode, plan, chosen, memo, todo>>
          /\ UNCHANGED <<at, want, old>>
      BY <1>5 DEF Checkpoint, Goto, catalog, task, action
    <2>2. Checkpointed(p) /\ at[p] \in todo[p] /\ mode[p] \in Modes
      BY <2>1 DEF Ready
    <2>3. (Checkpointed(p))'
      BY <2>1, <2>2 DEF Checkpointed, Creates, Act
    <2>4. Ready(p)'
      BY <2>1, <2>2, <2>3 DEF Ready
    <2>5. ASSUME NEW n \in Skills \ excused PROVE Resumable(n)'
      <3>1. Stands(n, dest[n]) /\ Planned(p, n) /\ Tidy(p, n)
        BY <2>1 DEF Resumable, Tidy, Started
      <3>2. owned[n] = memo[p][n]
        BY <2>1, <3>1 DEF Planned, Recorded
      <3>3. CASE n = at[p]
        <4>1. owned'[n] = mode[p]
          BY <2>1, <3>3 DEF Records
        <4>2. plan[p][n].do \in {"link", "create"} /\ n \in todo[p] /\ Vacant(dest[n])
          BY <2>1, <2>2, <3>1, <3>3 DEF Checkpointed, Creates, Act, Planned
        <4>3. Planned(p, n)'
          BY <2>1, <2>3, <3>1, <3>3, <4>1, <4>2 DEF Planned, Recorded, Arrived
        <4>4. Tidy(p, n)' /\ Stands(n, dest[n])'
          BY <2>1, <3>1, <4>2, <4>3 DEF Tidy, Taking, Swapped, Stands
        <4> QED BY <4>4 DEF Resumable, Single
      <3>4. CASE n # at[p]
        <4>1. owned'[n] = owned[n]
          BY <2>1, <3>2, <3>4 DEF Records
        <4>2. Started(p) /\ Started(p)'
          BY <2>1 DEF Started
        <4> QED BY <1>5, <2>1, <3>4, <4>1, <4>2, ApartResumes DEF Checkpoint
      <3> QED BY <3>3, <3>4
    <2> QED BY <2>4, <2>5 DEF Resumes
  <1>6. CASE Rollback(p)
    <2>1. pc[p] = "rollback" /\ owned' = memo[p] /\ UNCHANGED <<dest, source, linkmode>>
      BY <1>6 DEF Rollback, catalog
    <2>2. Checkpointed(p) /\ at[p] \in todo[p]
      BY <2>1 DEF Ready, Running
    <2>3. ASSUME NEW n \in Skills \ excused PROVE Stands(n, dest[n])'
      <3>1. Stands(n, dest[n]) /\ Planned(p, n)
        BY <2>1 DEF Resumable, Tidy, Started
      <3>2. CASE n = at[p]
        <4>1. Vacant(dest[n])
          BY <2>1, <2>2, <3>1, <3>2 DEF Checkpointed, Creates, Act, Planned
        <4> QED BY <2>1, <4>1 DEF Stands
      <3>3. CASE n # at[p]
        <4>1. owned'[n] = owned[n]
          BY <2>1, <3>1, <3>3 DEF Planned, Recorded
        <4> QED BY <2>1, <3>1, <4>1 DEF Stands
      <3> QED BY <3>2, <3>3
    <2> QED BY <1>6, <2>3, LeaveResumes DEF Rollback, Resumes
  <1> QED BY <1>1, <1>2, <1>3, <1>4, <1>5, <1>6 DEF Prepare

(* A new destination.                                                      *)
LEMMA CreateResumes ==
  ASSUME Single, ResumeInv, NEW p \in Procs, Create(p)
  PROVE  Resumes(p)
  <1> USE DEF ResumeInv, SkillInv, ActionOK, TaskOK
  <1>1. CASE Stage(p)
    <2>1. /\ pc[p] = "start" /\ pc'[p] \in {"put", "validate"}
          /\ pc'[p] = "put" <=> Creates(p)
          /\ UNCHANGED <<disk, catalog, task, action, excused>>
      BY <1>1 DEF Stage, Goto
    <2>2. UNCHANGED <<dest, owned, source, linkmode, cmd, mode, plan, chosen, memo, todo>>
      BY <2>1 DEF disk, catalog, task
    <2>3. UNCHANGED <<at, want, old>>
      BY <2>1 DEF action
    <2>4. ASSUME at[p] \in Skills \ excused PROVE Stands(at[p], dest[at[p]])' /\ Tidy(p, at[p])'
      <3>1. Stands(at[p], dest[at[p]]) /\ Planned(p, at[p]) /\ Tidy(p, at[p])
        BY <2>1, <2>4 DEF Resumable, Tidy, Started
      <3>2. Checkpointed(p)' <=> Checkpointed(p)
        BY <2>2, <2>3 DEF Checkpointed, Creates, Act
      <3>3. Recorded(p, at[p])' /\ (Arrived(p, at[p])' <=> Arrived(p, at[p]))
        BY <2>1, <2>2, <2>3, <3>1, <3>2 DEF Planned, Recorded, Arrived, Checkpointed
      <3>4. Planned(p, at[p])'
        BY <2>1, <2>2, <2>3, <3>1, <3>2, <3>3 DEF Planned
      <3> QED BY <2>1, <2>2, <2>3, <3>1, <3>4 DEF Tidy, Taking, Swapped, Stands
    <2> QED BY <2>1, <2>2, <2>3, <2>4, InsideResumes DEF Running
  <1>2. CASE StageFails(p)
    BY <1>2, FailResumes DEF StageFails, Running
  <1>3. CASE Put(p)
    <2>1. /\ pc[p] = "put" /\ pc'[p] = "landed" /\ Creates(p) /\ at[p] \in Skills
          /\ cmd[p] \in {"apply", "sync"} /\ at[p] \in todo[p]
          /\ UNCHANGED <<owned, source, linkmode, cmd, mode, plan, chosen, memo, todo>>
          /\ UNCHANGED <<at, want, old, catalog, task>>
      BY <1>3 DEF Put, Goto, catalog, task, action, TrackOK, Track, Taking, Ready, Running
    <2>2. /\ dest'[at[p]] = Made(p) /\ \A n \in Skills \ {at[p]} : dest'[n] = dest[n]
          /\ cmd[p] = "apply" => at[p] \in excused'
          /\ excused \subseteq excused'
      BY <1>3, <2>1 DEF Put, DiskOK
    <2>3. ASSUME at[p] \in Skills \ excused, cmd[p] = "sync"
          PROVE  Stands(at[p], dest[at[p]])' /\ Tidy(p, at[p])'
      <3>1. Planned(p, at[p]) /\ Tidy(p, at[p])
        BY <2>1, <2>3 DEF Resumable, Tidy, Started
      <3>2. Checkpointed(p) /\ Checkpointed(p)' /\ mode[p] \in Modes
        BY <2>1, <2>3 DEF Checkpointed, Creates, Act, Ready
      <3>3. owned'[at[p]] = mode[p] /\ mode[p] # None
        BY <2>1, <3>1, <3>2, NoneAssumption DEF Planned, Modes
      <3>4. \/ mode[p] = "symlink" /\ Made(p) = Link
            \/ mode[p] = "copy" /\ Made(p) = Copy(source[at[p]]) /\ linkmode = "copy"
        <4>1. CASE Act(p) = "link"
          BY <3>1, <4>1 DEF Planned, Act, Made
        <4>2. CASE Act(p) = "create"
          BY <2>1, <3>1, <4>2 DEF Planned, Act, Made, Digest, Tidy
        <4> QED BY <2>1, <4>1, <4>2 DEF Creates
      <3>5. at[p] \in chosen[p]
        BY <2>1, <3>1 DEF Creates, Act, Planned
      <3>6. Arrived(p, at[p])'
        BY <2>1, <2>2, <3>4, <3>5 DEF Arrived
      <3>7. Stands(at[p], dest[at[p]])'
        BY <2>1, <2>2, <3>3, <3>4 DEF Stands
      <3>8. Planned(p, at[p])'
        BY <2>1, <3>1, <3>2, <3>3, <3>6 DEF Planned, Recorded
      <3> QED BY <2>1, <3>1, <3>7, <3>8 DEF Tidy, Taking, Swapped
    <2>4. CASE cmd[p] = "sync"
      BY <2>1, <2>2, <2>3, <2>4, InsideResumes DEF Running
    <2>5. CASE cmd[p] = "apply"
      <3>1. \A n \in Skills \ excused : n \notin excused' => Resumable(n)'
        BY <2>1, <2>2, <2>5, ApartResumes DEF Started
      <3>2. Ready(p)'
        BY <2>1 DEF Ready
      <3> QED BY <3>1, <3>2 DEF Resumes
    <2> QED BY <2>1, <2>4, <2>5
  <1>4. CASE PutRefused(p)
    BY <1>4, FailResumes DEF PutRefused, Running
  <1> QED BY <1>1, <1>2, <1>3, <1>4 DEF Create

(* A step of a replacement or a removal: the plan goes on holding if the   *)
(* destination is as promised once the swap is over.                       *)
LEMMA GoesOn ==
  ASSUME ResumeInv, NEW p \in Procs, at[p] \in Skills \ excused,
         pc[p] \in Running \ {"landed", "drop"}, ~ Creates(p), pc'[p] \in Running,
         UNCHANGED <<catalog, owned, task, at>>,
         pc'[p] \in {"drop", "landed"} => Arrived(p, at[p])'
  PROVE  /\ Started(p)' => Planned(p, at[p])'
         /\ mode'[p] = "copy" => linkmode' = "copy"
  <1>1. Planned(p, at[p]) /\ Tidy(p, at[p]) /\ pc[p] # "idle" /\ Ready(p)
    BY DEF ResumeInv, Resumable, Tidy, Started, Running
  <1>2. at[p] \in todo[p]
    BY <1>1 DEF Ready
  <1>3. UNCHANGED <<source, linkmode, cmd, mode, plan, chosen, memo, todo, at>>
    BY DEF catalog, task
  <1>4. ~ Checkpointed(p) /\ ~ Checkpointed(p)' /\ plan[p][at[p]].do \notin {"link", "create"}
    BY <1>3 DEF Checkpointed, Creates, Act
  <1>5. Recorded(p, at[p])'
    BY <1>1, <1>3, <1>4 DEF Planned, Recorded
  <1>6. Planned(p, at[p])'
    BY <1>1, <1>2, <1>3, <1>4, <1>5 DEF Planned
  <1> QED BY <1>1, <1>3, <1>6 DEF Tidy

LEMMA TakeResumes ==
  ASSUME Single, ResumeInv, NEW p \in Procs,
         Validate(p) \/ Snapshot(p) \/ SnapshotFails(p) \/ Revalidate(p) \/ Swap(p) \/ SwapFails(p)
  PROVE  Resumes(p)
  <1> USE DEF ResumeInv, SkillInv, ActionOK, TaskOK
  <1>1. CASE Validate(p) /\ Expected(p)
    <2>1. /\ pc[p] \in {"start", "validate"} /\ pc'[p] \in {"unlink", "snapshot"}
          /\ pc'[p] = "unlink" <=> Act(p) = "unlink"
          /\ want'[p] = dest[at[p]] /\ at[p] \in Skills
          /\ UNCHANGED <<dest, owned, source, linkmode, catalog, task, at, old, excused>>
      BY <1>1 DEF Validate, catalog, GripOK, Grip, Running
    <2>2. ~ Creates(p)
      BY <1>1 DEF Validate, TrackOK, Track, Taking, Creates
    <2>3. ASSUME at[p] \in Skills \ excused PROVE Stands(at[p], dest[at[p]])' /\ Tidy(p, at[p])'
      <3>1. Stands(at[p], dest[at[p]])
        BY <2>3 DEF Resumable
      <3>2. Stands(at[p], dest[at[p]])' /\ Stands(at[p], want[p])'
        BY <2>1, <3>1 DEF Stands
      <3>3. /\ Started(p)' => Planned(p, at[p])'
            /\ mode'[p] = "copy" => linkmode' = "copy"
        BY <2>1, <2>2, <2>3, GoesOn DEF Running
      <3> QED BY <2>1, <3>2, <3>3 DEF Tidy, Swapped
    <2> QED BY <2>1, <2>3, InsideResumes DEF Running
  <1>2. CASE Validate(p) /\ ~ Expected(p)
    BY <1>2, FailResumes DEF Validate, Running
  <1>3. CASE Snapshot(p) \/ (Revalidate(p) /\ dest[at[p]] = want[p])
    <2>1. /\ pc[p] \in {"snapshot", "revalidate"} /\ pc'[p] \in {"revalidate", "swap"}
          /\ UNCHANGED <<dest, owned, source, linkmode, catalog, task, at, want, old, excused>>
      BY <1>3 DEF Snapshot, Revalidate, Goto, disk, catalog, action
    <2>2. ~ Creates(p) /\ at[p] \in Skills
      BY <2>1 DEF TrackOK, Track, Taking, Creates, Replacing, GripOK, Grip, Running
    <2>3. ASSUME at[p] \in Skills \ excused PROVE Stands(at[p], dest[at[p]])' /\ Tidy(p, at[p])'
      <3>1. Stands(at[p], dest[at[p]]) /\ Stands(at[p], want[p])
        BY <2>1, <2>3 DEF Resumable, Tidy, Taking
      <3>2. Stands(at[p], dest[at[p]])' /\ Stands(at[p], want[p])'
        BY <2>1, <3>1 DEF Stands
      <3>3. /\ Started(p)' => Planned(p, at[p])'
            /\ mode'[p] = "copy" => linkmode' = "copy"
        BY <2>1, <2>2, <2>3, GoesOn DEF Running
      <3> QED BY <2>1, <3>2, <3>3 DEF Tidy, Swapped
    <2> QED BY <2>1, <2>3, InsideResumes DEF Running
  <1>4. CASE SnapshotFails(p) \/ (Revalidate(p) /\ dest[at[p]] # want[p]) \/ SwapFails(p)
    BY <1>4, FailResumes DEF SnapshotFails, Revalidate, SwapFails, Running
  <1>5. CASE Swap(p)
    <2>1. /\ pc[p] = "swap" /\ pc'[p] \in {"drop", "install"} /\ at[p] \in Skills
          /\ old'[p] = dest[at[p]] /\ dest' = [dest EXCEPT ![at[p]] = None]
          /\ UNCHANGED <<owned, source, linkmode, catalog, task, at, want, excused>>
      BY <1>5 DEF Swap, Goto, catalog, GripOK, Grip, Running
    <2>2. dest'[at[p]] = None /\ \A n \in Skills \ {at[p]} : dest'[n] = dest[n]
      BY <2>1 DEF DiskOK
    <2>3. ~ Creates(p)
      BY <2>1 DEF TrackOK, Track, Taking, Creates, Replacing
    <2>4. ASSUME at[p] \in Skills \ excused PROVE Stands(at[p], dest[at[p]])' /\ Tidy(p, at[p])'
      <3>1. Stands(at[p], dest[at[p]]) /\ Stands(at[p], want[p])
        BY <2>1, <2>4 DEF Resumable, Tidy, Taking
      <3>2. Stands(at[p], old[p])' /\ Stands(at[p], want[p])'
        BY <2>1, <3>1 DEF Stands
      <3>3. Stands(at[p], dest[at[p]])' /\ Arrived(p, at[p])'
        BY <2>1, <2>2 DEF Stands, Arrived, Vacant
      <3>4. /\ Started(p)' => Planned(p, at[p])'
            /\ mode'[p] = "copy" => linkmode' = "copy"
        BY <2>1, <2>3, <2>4, <3>3, GoesOn DEF Running
      <3> QED BY <2>1, <3>2, <3>3, <3>4 DEF Tidy
    <2> QED BY <2>1, <2>2, <2>4, InsideResumes DEF Running
  <1> QED BY <1>1, <1>2, <1>3, <1>4, <1>5

LEMMA ReplaceResumes ==
  ASSUME Single, ResumeInv, NEW p \in Procs,
         Install(p) \/ InstallFails(p) \/ Unswap(p)
  PROVE  Resumes(p)
  <1> USE DEF ResumeInv, SkillInv, ActionOK, TaskOK
  <1>1. CASE Install(p)
    <2>1. /\ pc[p] = "install" /\ pc'[p] = "drop" /\ at[p] \in Skills /\ at[p] \in todo[p]
          /\ dest' = [dest EXCEPT ![at[p]] = Made(p)] /\ Act(p) \in {"migrate", "update"}
          /\ UNCHANGED <<owned, source, linkmode, catalog, task, at, want, old, excused>>
      BY <1>1 DEF Install, Goto, catalog, action, GripOK, Grip, TrackOK, Track, Taking, Ready,
                  Running
    <2>2. dest'[at[p]] = Made(p) /\ \A n \in Skills \ {at[p]} : dest'[n] = dest[n]
      BY <2>1 DEF DiskOK
    <2>3. UNCHANGED <<mode, chosen>>
      BY <2>1 DEF task
    <2>4. ASSUME at[p] \in Skills \ excused PROVE Stands(at[p], dest[at[p]])' /\ Tidy(p, at[p])'
      <3>1. Tidy(p, at[p]) /\ Planned(p, at[p])
        BY <2>1, <2>4 DEF Resumable, Tidy, Started
      <3>2. /\ mode[p] = "copy" /\ linkmode = "copy" /\ at[p] \in chosen[p]
            /\ Made(p) = Copy(source[at[p]]) /\ owned[at[p]] # None
        BY <2>1, <3>1 DEF Planned, Tidy, Act, Digest, Made
      <3>3. Stands(at[p], dest[at[p]])' /\ Arrived(p, at[p])'
        BY <2>1, <2>2, <2>3, <3>2 DEF Stands, Arrived
      <3>4. Started(p)' => Planned(p, at[p])'
        BY <2>1, <2>4, <3>3, GoesOn DEF Running, Creates
      <3>5. Stands(at[p], old[p])
        BY <2>1, <3>1 DEF Tidy, Swapped
      <3>6. Stands(at[p], old[p])'
        BY <2>1, <3>5 DEF Stands
      <3>7. Stands(at[p], want[p])'
        BY <2>1, <3>1 DEF Tidy, Stands, Swapped
      <3> QED BY <2>1, <3>2, <3>3, <3>4, <3>6, <3>7 DEF Tidy
    <2> QED BY <2>1, <2>2, <2>4, InsideResumes DEF Running
  <1>2. CASE InstallFails(p)
    <2>1. /\ pc[p] = "install" /\ pc'[p] = "unswap" /\ at[p] \in Skills
          /\ Act(p) \in {"migrate", "update"}
          /\ UNCHANGED <<dest, owned, source, linkmode, catalog, task, at, want, old, excused>>
      BY <1>2 DEF InstallFails, Goto, disk, catalog, action, GripOK, Grip, TrackOK, Track, Running
    <2>2. ASSUME at[p] \in Skills \ excused PROVE Stands(at[p], dest[at[p]])' /\ Tidy(p, at[p])'
      <3>1. Stands(at[p], dest[at[p]]) /\ Stands(at[p], old[p]) /\ Stands(at[p], want[p])
        BY <2>1, <2>2 DEF Resumable, Tidy, Swapped
      <3>2. Stands(at[p], dest[at[p]])' /\ Stands(at[p], old[p])' /\ Stands(at[p], want[p])'
        BY <2>1, <3>1 DEF Stands
      <3>3. /\ Started(p)' => Planned(p, at[p])'
            /\ mode'[p] = "copy" => linkmode' = "copy"
        BY <2>1, <2>2, GoesOn DEF Running, Creates
      <3> QED BY <2>1, <3>1, <3>2, <3>3 DEF Tidy
    <2> QED BY <2>1, <2>2, InsideResumes DEF Running
  <1>3. CASE Unswap(p)
    <2>1. /\ pc[p] = "unswap" /\ pc'[p] = "failed" /\ at[p] \in Skills
          /\ dest' = dest \/ dest' = [dest EXCEPT ![at[p]] = old[p]]
          /\ UNCHANGED <<owned, source, linkmode, catalog, task, at, want, excused>>
      BY <1>3 DEF Unswap, Goto, catalog, GripOK, Grip, Running
    <2>2. dest'[at[p]] \in {dest[at[p]], old[p]} /\ \A n \in Skills \ {at[p]} : dest'[n] = dest[n]
      BY <2>1 DEF DiskOK
    <2>3. ~ Creates(p)
      BY <2>1 DEF TrackOK, Track, Taking, Creates, Replacing
    <2>4. ASSUME at[p] \in Skills \ excused PROVE Stands(at[p], dest[at[p]])' /\ Tidy(p, at[p])'
      <3>1. Stands(at[p], dest[at[p]]) /\ Stands(at[p], old[p]) /\ Stands(at[p], want[p])
        BY <2>1, <2>4 DEF Resumable, Tidy, Swapped, Taking
      <3>2. Stands(at[p], dest[at[p]])' /\ Stands(at[p], want[p])'
        BY <2>1, <2>2, <3>1 DEF Stands
      <3>3. /\ Started(p)' => Planned(p, at[p])'
            /\ mode'[p] = "copy" => linkmode' = "copy"
        BY <2>1, <2>3, <2>4, GoesOn DEF Running
      <3> QED BY <2>1, <3>2, <3>3 DEF Tidy, Swapped
    <2> QED BY <2>1, <2>2, <2>4, InsideResumes DEF Running
  <1> QED BY <1>1, <1>2, <1>3

LEMMA DropResumes ==
  ASSUME Single, ResumeInv, NEW p \in Procs, Drop(p) \/ DropFails(p)
  PROVE  Resumes(p)
  <1> USE DEF ResumeInv, SkillInv, ActionOK, TaskOK
  <1>1. /\ pc[p] = "drop" /\ pc'[p] \in {"landed", "restore", "failed"} /\ at[p] \in Skills
        /\ UNCHANGED <<dest, owned, source, linkmode, catalog, task, at, want, excused>>
    BY DEF Drop, DropFails, Goto, disk, catalog, GripOK, Grip, Running
  <1>2. UNCHANGED <<cmd, mode, plan, chosen, memo, todo>>
    BY <1>1 DEF task
  <1>3. ~ Creates(p) /\ ~ Checkpointed(p) /\ ~ Checkpointed(p)'
    BY <1>1, <1>2 DEF TrackOK, Track, Taking, Creates, Replacing, Checkpointed, Act
  <1>4. ASSUME at[p] \in Skills \ excused PROVE Stands(at[p], dest[at[p]])' /\ Tidy(p, at[p])'
    <2>1. /\ Stands(at[p], dest[at[p]]) /\ Stands(at[p], want[p]) /\ Tidy(p, at[p])
          /\ Planned(p, at[p])
      BY <1>1, <1>4 DEF Resumable, Tidy, Swapped, Started
    <2>2. Stands(at[p], dest[at[p]])' /\ Stands(at[p], want[p])'
      BY <1>1, <2>1 DEF Stands
    <2>3. Arrived(p, at[p])' /\ Recorded(p, at[p])'
      BY <1>1, <1>2, <1>3, <2>1 DEF Planned, Recorded, Arrived
    <2>4. Planned(p, at[p])'
      BY <1>1, <1>2, <1>3, <2>1, <2>3 DEF Planned, Creates, Act
    <2> QED BY <1>1, <1>2, <2>1, <2>2, <2>4 DEF Tidy, Swapped
  <1> QED BY <1>1, <1>4, InsideResumes DEF Running

LEMMA RemoveResumes ==
  ASSUME Single, ResumeInv, NEW p \in Procs, Remove(p)
  PROVE  Resumes(p)
  <1> USE DEF ResumeInv, SkillInv, ActionOK, TaskOK
  <1>1. CASE Drop(p) \/ DropFails(p)
    BY <1>1, DropResumes
  <1>2. CASE Restore(p)
    <2>1. /\ pc[p] = "restore" /\ pc'[p] = "failed" /\ at[p] \in Skills
          /\ dest' = dest \/ dest' = [dest EXCEPT ![at[p]] = want[p]]
          /\ UNCHANGED <<owned, source, linkmode, catalog, task, at, want, excused>>
      BY <1>2 DEF Restore, Goto, catalog, GripOK, Grip, Running
    <2>2. dest'[at[p]] \in {dest[at[p]], want[p]} /\ \A n \in Skills \ {at[p]} : dest'[n] = dest[n]
      BY <2>1 DEF DiskOK
    <2>3. ~ Creates(p)
      BY <2>1 DEF TrackOK, Track, Taking, Creates, Replacing
    <2>4. ASSUME at[p] \in Skills \ excused PROVE Stands(at[p], dest[at[p]])' /\ Tidy(p, at[p])'
      <3>1. Stands(at[p], dest[at[p]]) /\ Stands(at[p], want[p])
        BY <2>1, <2>4 DEF Resumable, Tidy, Taking
      <3>2. Stands(at[p], dest[at[p]])' /\ Stands(at[p], want[p])'
        BY <2>1, <2>2, <3>1 DEF Stands
      <3>3. /\ Started(p)' => Planned(p, at[p])'
            /\ mode'[p] = "copy" => linkmode' = "copy"
        BY <2>1, <2>3, <2>4, GoesOn DEF Running
      <3> QED BY <2>1, <3>2, <3>3 DEF Tidy, Swapped
    <2> QED BY <2>1, <2>2, <2>4, InsideResumes DEF Running
  <1>3. CASE Failed(p) \/ UnlinkFails(p)
    BY <1>3, FailResumes DEF Failed, UnlinkFails, Running
  <1>4. CASE Unlink(p)
    <2>1. /\ pc[p] = "unlink" /\ pc'[p] = "landed" /\ at[p] \in Skills /\ Act(p) = "unlink"
          /\ dest' = [dest EXCEPT ![at[p]] = None]
          /\ UNCHANGED <<owned, source, linkmode, catalog, task, at, want, old, excused>>
      BY <1>4 DEF Unlink, Goto, catalog, action, GripOK, Grip, Ready, Running
    <2>2. dest'[at[p]] = None /\ \A n \in Skills \ {at[p]} : dest'[n] = dest[n]
      BY <2>1 DEF DiskOK
    <2>3. ASSUME at[p] \in Skills \ excused PROVE Stands(at[p], dest[at[p]])' /\ Tidy(p, at[p])'
      <3>1. Stands(at[p], dest[at[p]])' /\ Arrived(p, at[p])'
        BY <2>1, <2>2 DEF Stands, Arrived, Vacant
      <3>2. /\ Started(p)' => Planned(p, at[p])'
            /\ mode'[p] = "copy" => linkmode' = "copy"
        BY <2>1, <2>3, <3>1, GoesOn DEF Running, Creates
      <3> QED BY <2>1, <3>1, <3>2 DEF Tidy, Swapped, Taking
    <2> QED BY <2>1, <2>2, <2>3, InsideResumes DEF Running
  <1> QED BY <1>1, <1>2, <1>3, <1>4 DEF Remove

(* The end of an action, of a command, and the ends nobody asked for.      *)
LEMMA EndResumes ==
  ASSUME Single, ResumeInv, NEW p \in Procs, Landed(p) \/ Finish(p) \/ Interrupt(p) \/ Kill(p)
  PROVE  Resumes(p)
  <1> USE DEF ResumeInv, SkillInv, ActionOK, TaskOK
  <1>1. CASE Landed(p)
    <2>1. /\ pc[p] = "landed" /\ pc'[p] = "next" /\ at'[p] = None /\ at[p] \in Skills
          /\ todo'[p] = todo[p] \ {at[p]}
          /\ UNCHANGED <<dest, owned, source, linkmode, cmd, mode, plan, chosen, old, excused>>
      BY <1>1 DEF Landed, Goto, catalog, GripOK, Grip, Running
    <2>2. memo'[p] = IF Checkpointed(p) THEN [memo[p] EXCEPT ![at[p]] = mode[p]] ELSE memo[p]
      <3>1. CASE Checkpointed(p)
        BY <1>1, <3>1 DEF Landed
      <3>2. CASE ~ Checkpointed(p)
        BY <1>1, <3>2 DEF Landed
      <3> QED BY <3>1, <3>2
    <2>3. Ready(p)'
      BY <2>1 DEF Ready, Running
    <2>4. ASSUME NEW n \in Skills \ excused PROVE Resumable(n)'
      <3>1. Stands(n, dest[n]) /\ Tidy(p, n) /\ Planned(p, n)
        BY <2>1 DEF Resumable, Tidy, Started
      <3>2. Stands(n, dest[n])'
        BY <2>1, <3>1 DEF Stands
      <3>3. owned'[n] = memo'[p][n]
        <4>1. memo[p] \in [Skills -> Modes \cup {None}]
          BY DEF Records
        <4>2. CASE n = at[p] /\ Checkpointed(p)
          BY <2>1, <2>2, <3>1, <4>1, <4>2 DEF Planned
        <4>3. CASE n # at[p] \/ ~ Checkpointed(p)
          BY <2>1, <2>2, <3>1, <4>1, <4>3 DEF Planned, Recorded
        <4> QED BY <4>2, <4>3
      <3>4. n \notin todo'[p] => Arrived(p, n)
        BY <2>1, <3>1 DEF Planned
      <3>5. Arrived(p, n)' <=> Arrived(p, n)
        BY <2>1 DEF Arrived
      <3>6. Planned(p, n)'
        BY <2>1, <3>1, <3>3, <3>4, <3>5 DEF Planned, Recorded
      <3>7. Tidy(p, n)'
        BY <2>1, <3>1, <3>6 DEF Tidy, Taking, Swapped
      <3> QED BY <3>2, <3>7 DEF Resumable, Single
    <2> QED BY <2>3, <2>4 DEF Resumes
  <1>2. CASE Finish(p)
    <2>1. /\ pc[p] = "next" /\ todo[p] = {} /\ UNCHANGED <<dest, source, linkmode>>
          /\ owned' = [n \in Skills |-> IF n \in chosen[p] THEN mode[p] ELSE None]
      BY <1>2 DEF Finish, catalog
    <2>2. ASSUME NEW n \in Skills \ excused PROVE Stands(n, dest[n])'
      <3>1. Planned(p, n) /\ Tidy(p, n)
        BY <2>1 DEF Resumable, Tidy, Started
      <3>2. Arrived(p, n) /\ (mode[p] = "copy" => linkmode = "copy")
        BY <2>1, <3>1 DEF Planned, Tidy
      <3>3. owned'[n] = IF n \in chosen[p] THEN mode[p] ELSE None
        BY <2>1
      <3>4. "copy" # None
        BY NoneAssumption DEF Modes
      <3> QED BY <2>1, <3>2, <3>3, <3>4 DEF Arrived, Stands
    <2> QED BY <1>2, <2>2, LeaveResumes DEF Finish, Resumes
  <1>3. CASE Interrupt(p)
    <2>1. pc[p] # "landed" \/ ~ Creates(p) \/ at[p] \in excused'
      BY <1>3 DEF Interrupt
    <2> QED BY <1>3, <2>1, FailResumes DEF Interrupt
  <1>4. CASE Kill(p)
    <2>1. \A n \in Skills \ excused : Stands(n, dest[n])'
      BY <1>4 DEF Kill, Resumable, Stands, catalog
    <2> QED BY <1>4, <2>1, LeaveResumes DEF Kill, Resumes
  <1> QED BY <1>1, <1>2, <1>3, <1>4

(* What the user does: his own content is no obstacle, and a source he     *)
(* edits or a return to links excuses.                                     *)
LEMMA UserResumes ==
  ASSUME ResumeInv, User
  PROVE  /\ \A p \in Procs : Ready(p)'
         /\ \A n \in Skills \ excused : n \notin excused' => Resumable(n)'
  <1> USE DEF ResumeInv, SkillInv, ActionOK, TaskOK
  <1>1. UNCHANGED <<owned, pc, cmd, mode, plan, chosen, memo, todo, at, want, old>>
    BY DEF User, EditSource, Select, SwitchMode, Write, Others, task
  <1>2. \A p \in Procs : Ready(p)'
    BY <1>1 DEF Ready, Checkpointed, Creates, Act
  <1>3. ASSUME NEW n \in Skills \ excused, n \notin excused' PROVE Resumable(n)'
    <2>1. /\ source'[n] = source[n]
          /\ linkmode = "copy" => linkmode' = "copy"
          /\ dest'[n] = dest[n] \/ Vacant(dest'[n])
      <3>1. CASE \E k \in Skills, v \in Versions : EditSource(k, v)
        BY <1>3, <3>1 DEF EditSource, CatalogOK
      <3>2. CASE \E k \in Skills : Select(k)
        BY <3>2 DEF Select
      <3>3. CASE SwitchMode
        BY <1>3, <3>3 DEF SwitchMode
      <3>4. ASSUME NEW k \in Skills, Write(k)
            PROVE  UNCHANGED <<source, linkmode>> /\ (dest'[n] = dest[n] \/ Vacant(dest'[n]))
        <4>1. PICK x : /\ dest' = [dest EXCEPT ![k] = x]
                       /\ x \in {None, OwnLink, OwnTree} \/ \E m : x = Edited(m)
          BY <3>4 DEF Write
        <4>2. Vacant(x)
          BY <4>1 DEF Vacant, Own, OwnLink, OwnTree, Edited
        <4>3. dest'[n] = dest[n] \/ dest'[n] = x
          BY <4>1 DEF DiskOK
        <4> QED BY <3>4, <4>2, <4>3 DEF Write, catalog
      <3> QED BY <3>1, <3>2, <3>3, <3>4 DEF User
    <2>2. Stands(n, dest[n])'
      BY <1>1, <2>1 DEF Resumable, Stands
    <2>3. ASSUME NEW p \in Procs PROVE Tidy(p, n)'
      <3>1. Tidy(p, n)
        BY DEF Resumable
      <3>2. Arrived(p, n) => Arrived(p, n)'
        BY <1>1, <2>1 DEF Arrived
      <3>3. Checkpointed(p)' <=> Checkpointed(p)
        BY <1>1 DEF Checkpointed, Creates, Act
      <3>4. Vacant(dest[n]) => Vacant(dest[n])'
        BY <2>1
      <3>5. Planned(p, n) => Planned(p, n)'
        BY <1>1, <2>1, <3>2, <3>3, <3>4 DEF Planned, Recorded
      <3>6. \A x : Stands(n, x) => (Vacant(x) \/ (x = Link /\ owned'[n] = "symlink")
                     \/ (x = Copy(source'[n]) /\ owned'[n] # None /\ linkmode' = "copy"))
        BY <1>1, <2>1 DEF Stands
      <3>7. /\ Stands(n, want[p]) => Stands(n, want[p])'
            /\ Stands(n, old[p]) => Stands(n, old[p])'
        BY <1>1, <3>6 DEF Stands
      <3>8. Started(p)' <=> Started(p)
        BY <1>1 DEF Started
      <3> QED BY <1>1, <2>1, <3>1, <3>5, <3>7, <3>8 DEF Tidy
    <2> QED BY <2>2, <2>3 DEF Resumable
  <1> QED BY <1>2, <1>3

LEMMA ResumeStep == Single /\ ResumeInv /\ [Next]_vars => ResumeInv'
  <1> SUFFICES ASSUME Single, ResumeInv, [Next]_vars PROVE ResumeInv'
    OBVIOUS
  <1>1. SkillInv'
    BY SkillStep DEF ResumeInv
  <1>2. excused \subseteq excused'
    BY DEF Next, vars, User, EditSource, Select, SwitchMode, Write, ResumeInv, SkillInv,
           CatalogOK, Step, Prepare, Review, Refuse, Begin, Pick, Checkpoint, Rollback, Create,
           Stage, StageFails, Put, PutRefused, Replace, Validate, Snapshot, SnapshotFails,
           Revalidate, Swap, SwapFails, Install, InstallFails, Unswap, Remove, Drop, DropFails,
           Restore, Failed, Unlink, UnlinkFails, Landed, Finish, Interrupt, Kill
  <1>3. CASE User
    BY <1>1, <1>2, <1>3, UserResumes DEF ResumeInv
  <1>4. ASSUME NEW p \in Procs, Step(p) \/ Interrupt(p) \/ Kill(p) PROVE ResumeInv'
    <2>1. Resumes(p)
      BY <1>4, PrepareResumes, CreateResumes, TakeResumes, ReplaceResumes, RemoveResumes,
         EndResumes DEF Step, Replace
    <2>2. \A q \in Procs : q = p
      BY DEF Single
    <2> QED BY <1>1, <1>2, <2>1, <2>2 DEF Resumes, ResumeInv
  <1>5. CASE UNCHANGED vars
    <2>1. UNCHANGED <<source, linkmode, dest, owned, pc, cmd, mode, plan, chosen, memo, todo>>
      BY <1>5 DEF vars, disk, catalog, task
    <2>2. UNCHANGED <<at, want, old, excused>>
      BY <1>5 DEF vars, action
    <2>3. \A p \in Procs : Ready(p)'
      BY <2>1, <2>2 DEF ResumeInv, Ready, Checkpointed, Creates, Act
    <2>4. ASSUME NEW n \in Skills \ excused PROVE Resumable(n)'
      <3>1. \A p \in Procs : Planned(p, n) => Planned(p, n)'
        BY <2>1, <2>2 DEF Planned, Recorded, Arrived, Checkpointed, Creates, Act
      <3>2. \A p \in Procs : Tidy(p, n) => Tidy(p, n)'
        BY <2>1, <2>2, <3>1 DEF Tidy, Started, Stands
      <3> QED BY <2>1, <3>2 DEF ResumeInv, Resumable, Stands
    <2> QED BY <1>1, <2>2, <2>3, <2>4 DEF ResumeInv
  <1> QED BY <1>3, <1>4, <1>5 DEF Next

(* A Skill that stands so is no conflict to the next plan.                 *)
LEMMA InvResumes == ResumeInv => ResumesCleanly
  <1> SUFFICES ASSUME ResumeInv, NEW n \in selected, ~ Own(dest[n]), n \notin excused
               PROVE  Do(n, linkmode) # "conflict"
    BY DEF ResumesCleanly
  <1>1. n \in Skills /\ linkmode \in {"symlink", "copy"}
    BY DEF ResumeInv, SkillInv, CatalogOK, Modes
  <1>2. Stands(n, dest[n])
    BY <1>1 DEF ResumeInv, Resumable
  <1>3. CASE dest[n] = None
    BY <1>1, <1>3 DEF Do, PlanLink, PlanCopy
  <1>4. CASE dest[n] = Link /\ owned[n] = "symlink"
    BY <1>1, <1>4 DEF Do, PlanLink, PlanCopy
  <1>5. CASE dest[n] = Copy(source[n]) /\ owned[n] # None /\ linkmode = "copy"
    <2>1. source[n] \in Versions /\ None \notin Nodes /\ None \notin Versions
      BY <1>1, NoneAssumption DEF ResumeInv, SkillInv, CatalogOK
    <2>2. dest[n] # None /\ Intact(dest[n]) /\ dest[n].data = source[n]
      BY <1>5, <2>1, NodeFacts DEF Intact, Copy
    <2> QED BY <1>5, <2>2 DEF Do, PlanCopy
  <1> QED BY <1>2, <1>3, <1>4, <1>5 DEF Stands, Vacant

(* With one command at a time, wherever it is stopped, the next plan meets *)
(* no conflict but with the user's own content, a source he has edited, a  *)
(* return to links, or an install that has no record.                      *)
THEOREM ResumesCorrect == ASSUME Single PROVE Spec => []ResumesCleanly
  <1>1. Init => ResumeInv
    BY InitResume
  <1>2. ResumeInv /\ [Next]_vars => ResumeInv'
    BY ResumeStep
  <1>3. ResumeInv => ResumesCleanly
    BY InvResumes
  <1> QED BY <1>1, <1>2, <1>3, PTL DEF Spec

-----------------------------------------------------------------------------
(* Which Skills a target is given, that SkillReconcile takes as selected.  *)
(* Every target there can be.                                             *)
AllTargets ==
  [product : Products, platform : Platforms,
   surfaces : (SUBSET Surfaces) \ {{}}, components : SUBSET Components]

(* A ledger without errors is loaded whole.                                *)
LEMMA AllLoaded ==
  ASSUME NEW files, LoadErrors(files) = {}
  PROVE  Loaded(files) = {files[i] : i \in DOMAIN files}
  <1>1. /\ Parsed(files) = DOMAIN files
        /\ Identified(files) = Parsed(files)
        /\ Repeated(files) = {}
    BY DEF LoadErrors, Finding
  <1> QED BY <1>1 DEF Loaded

(* A deployable manifest without errors matches some target.               *)
LEMMA HasTarget ==
  ASSUME NEW m, NEW inventory, ManifestErrors(m, inventory) = {},
         m.lifecycle \in Deployable, m.targets # << >>, DOMAIN m.targets # {}
  PROVE  \E t \in AllTargets : Supports(m, t)
  <1>1. PICK i \in DOMAIN m.targets : TRUE
    OBVIOUS
  <1>2. BlockOK(m.targets[i])
    BY DEF ManifestErrors, TargetErrors, Finding
  <1> DEFINE t == [product |-> m.targets[i].product, platform |-> m.targets[i].platform,
                   surfaces |-> m.targets[i].surfaces, components |-> {}]
  <1>3. t \in AllTargets
    BY <1>2 DEF AllTargets, BlockOK
  <1>4. Supports(m, t)
    BY <1>2 DEF Supports, BlockOK
  <1> QED BY <1>3, <1>4

LEMMA LedgerAsWritten ==
  ASSUME NEW Manifests,
         \A m \in Manifests : \E S : m.targets \in Seq(S),
         NEW files \in Seq(Manifests \cup {Malformed}), NEW inventory, NEW unreadable,
         Resolves("required", files, inventory, unreadable)
  PROVE  AsWritten(files, inventory, AllTargets)
  <1> DEFINE written == {files[i] : i \in DOMAIN files}
             deployable == {f \in written : f.lifecycle \in Deployable}
  <1>1. Errors(files, inventory, unreadable) = {}
    BY DEF Resolves
  <1>2. LoadErrors(files) = {}
    BY <1>1 DEF Errors
  <1>3. Loaded(files) = written
    BY <1>2, AllLoaded
  <1>4. \A f \in written : ManifestErrors(f, inventory) = {}
    <2>1. UNION {ManifestErrors(m, inventory) : m \in Loaded(files)} = {}
      BY <1>1 DEF Errors
    <2> QED BY <1>3, <2>1
  <1>5. inventory \subseteq Governed(files)
    <2> SUFFICES ASSUME ~(inventory \subseteq Governed(files)) PROVE FALSE
      OBVIOUS
    <2>1. "GOV030" \in Finding("GOV030", ~(inventory \subseteq Governed(files)))
      BY Zenon DEF Finding
    <2>2. "GOV030" \in Errors(files, inventory, unreadable)
      BY <2>1, Zenon DEF Errors
    <2> QED BY <1>1, <2>2
  <1>6. \A t, c :
          ForTarget("required", files, inventory, c, t) =
            {ref \in inventory :
               ref[1] = c /\ \E f \in deployable : Supports(f, t) /\ ref \in References(f)}
    BY <1>3 DEF ForTarget
  <1>7. \A ref \in inventory : \E f \in written : ref \in References(f)
    BY <1>3, <1>5 DEF Governed
  <1>8. ASSUME NEW f \in deployable PROVE \E t \in AllTargets : Supports(f, t)
    <2>1. f \in Manifests
      <3>1. Parsed(files) = DOMAIN files
        BY <1>2 DEF LoadErrors, Finding
      <3>2. PICK i \in DOMAIN files : f = files[i]
        OBVIOUS
      <3>3. files[i] # Malformed
        BY <3>1 DEF Parsed
      <3> QED BY <3>2, <3>3
    <2>2. PICK S : f.targets \in Seq(S)
      BY <2>1
    <2>3. f.targets # << >>
      BY <1>4 DEF ManifestErrors, TargetErrors, Finding
    <2>4. DOMAIN f.targets # {}
      <3>1. DOMAIN f.targets = 1..Len(f.targets) /\ Len(f.targets) \in Nat
        BY <2>2
      <3>2. Len(f.targets) # 0
        BY <2>2, <2>3, EmptySeq
      <3>3. 1 \in 1..Len(f.targets)
        BY <3>1, <3>2
      <3> QED BY <3>1, <3>3
    <2> QED BY <1>4, <2>3, <2>4, HasTarget
  <1>9. \A t \in AllTargets :
          "hooks" \in t.components =>
            ForTarget("required", files, inventory, "hooks", t)
              \subseteq HooksForProduct("required", files, inventory, AllTargets, t.product)
    BY DEF HooksForProduct
  <1> QED BY <1>6, <1>7, <1>8, <1>9 DEF AsWritten

(* A ledger in mode "required" that resolves does what its author reads in *)
(* its files, whatever they are and whatever the catalog holds: nothing is *)
(* retracted in silence.                                                   *)
THEOREM GovernanceCorrect ==
  ASSUME NEW Manifests, \A m \in Manifests : \E S : m.targets \in Seq(S), NEW Inventories,
         case \in [rule : {"ledger"}, mode : {"required"}, files : Seq(Manifests \cup {Malformed}),
                   inventory : Inventories, targets : {AllTargets}]
  PROVE  NothingRetractedSilently
  <1>1. /\ case.mode = "required" /\ case.files \in Seq(Manifests \cup {Malformed})
        /\ case.targets = AllTargets
    OBVIOUS
  <1>2. Resolves("required", case.files, case.inventory, {}) =>
          AsWritten(case.files, case.inventory, AllTargets)
    BY <1>1, LedgerAsWritten
  <1> QED BY <1>1, <1>2 DEF NothingRetractedSilently

-----------------------------------------------------------------------------
(* How Skills come into the catalog that SkillReconcile delivers from.     *)
LEMMA Least ==
  ASSUME NEW S, S \subseteq Nat, S # {}
  PROVE  \E i \in S : \A j \in S : i <= j
  <1>1. PICK i \in S : \A j \in S : ~ (<<j, i>> \in OpToRel(<, Nat))
    BY WFMin, NatLessThanWellFounded
  <1>2. \A j \in S : ~ (j < i)
    BY <1>1 DEF OpToRel
  <1> QED BY <1>2

-----------------------------------------------------------------------------
(* The import of a Skill from n sources, with the digests D.               *)
Findable(D) == D \cup {Absent, Unsafe}
Worlds(D, n) ==
  [roots : [1..n -> Findable(D)], catalog : Findable(D),
   store : [(1..(n + 1)) \X D -> Findable(D)], failed : BOOLEAN]

LEMMA FirstLeast ==
  ASSUME NEW S, S # {}, \A o \in S : o.source \in Nat
  PROVE  First(S) \in S /\ \A o \in S : First(S).source <= o.source
  <1>1. PICK i \in {o.source : o \in S} : \A j \in {o.source : o \in S} : i <= j
    BY Least
  <1>2. PICK o \in S : o.source = i
    OBVIOUS
  <1>3. \A other \in S : o.source <= other.source
    BY <1>1, <1>2
  <1> QED  BY <1>3 DEF First

(* What a plan of a world holds.                                           *)
Shown(w, n, d) ==
  /\ \A o \in d.observations :
       /\ o.source \in 1..(n + 1) /\ o.variant # Absent
       /\ o = Observe(w, o.source)
  /\ \A o, p \in d.selected : o = p
  /\ \A o \in d.selected : o \in d.observations /\ o.variant # Unsafe

(* What it decides of the variants in the roots.                           *)
Decided(w, n, d) ==
  \A s \in 1..n : w.roots[s] \notin {Absent, Unsafe} =>
    \/ d.disposition = "conflict" /\ Observe(w, s) \in d.observations
    \/ /\ d.disposition = "create" /\ w.catalog = Absent
       /\ \E o \in d.selected : o.variant = w.roots[s]
    \/ d.disposition = "unchanged" /\ w.catalog = w.roots[s]

LEMMA DecideCorrect ==
  ASSUME NEW D, NEW n \in Nat, Absent \notin D, Unsafe \notin D, Absent # Unsafe,
         NEW w \in Worlds(D, n)
  PROVE  Shown(w, n, Decide(w)) /\ Decided(w, n, Decide(w))
  <1> DEFINE first == First(Candidates(w))
             both == Found(w) \cup {Observe(w, n + 1)}
  <1>1. Len(w.roots) = n /\ DOMAIN w.roots = 1..n /\ Existing(w) = n + 1
    BY DEF Worlds, Existing
  <1>2. \A s \in 1..n : Observe(w, s) = [source |-> s, variant |-> w.roots[s]]
    BY <1>1 DEF Observe, Holds
  <1>3. Observe(w, n + 1) = [source |-> n + 1, variant |-> w.catalog]
    BY <1>1 DEF Observe, Holds
  <1>4. /\ Found(w) = {o \in {Observe(w, s) : s \in 1..n} : o.variant # Absent}
        /\ Candidates(w) = {o \in Found(w) : o.variant # Unsafe}
    BY <1>1 DEF Found, Candidates, Eligible
  <1>5. \A o \in Found(w) :
          /\ o.source \in 1..n /\ o.variant # Absent
          /\ o = Observe(w, o.source) /\ o.variant = w.roots[o.source]
    BY <1>2, <1>4
  <1>6. \A s \in 1..n : w.roots[s] \notin {Absent, Unsafe} =>
          Observe(w, s) \in Found(w) /\ Observe(w, s) \in Candidates(w)
    BY <1>2, <1>4
  <1>7. Candidates(w) # {} => first \in Candidates(w)
    <2>1. \A o \in Candidates(w) : o.source \in Nat
      BY <1>4, <1>5
    <2> QED  BY <2>1, FirstLeast
  <1>8. Decide(w) =
          IF Candidates(w) = {} THEN Decision("blocked", {}, Found(w))
          ELSE IF w.catalog = Absent
            THEN Decision(IF Divergent(w) THEN "conflict" ELSE "create", {first},
                                 Found(w))
          ELSE IF w.catalog # first.variant THEN Decision("conflict", {}, both)
          ELSE Decision(IF Divergent(w) THEN "conflict" ELSE "unchanged", {first}, both)
    BY <1>1 DEF Decide
  <1> HIDE DEF first
  <1>9. \A o \in both : w.catalog # Absent =>
          /\ o.source \in 1..(n + 1) /\ o.variant # Absent
          /\ o = Observe(w, o.source)
    BY <1>3, <1>5
  <1>10. Shown(w, n, Decide(w))
    <2>1. CASE Candidates(w) = {}
      BY <1>5, <1>8, <2>1 DEF Shown, Decision
    <2>2. CASE Candidates(w) # {} /\ w.catalog = Absent
      <3>1. \E x : Decide(w) = Decision(x, {first}, Found(w))
        BY <1>8, <2>2
      <3> QED  BY <1>4, <1>5, <1>7, <2>2, <3>1 DEF Shown, Decision
    <2>3. CASE Candidates(w) # {} /\ w.catalog # Absent
      <3>1. \E x, S : S \in {{}, {first}} /\ Decide(w) = Decision(x, S, both)
        BY <1>8, <2>3
      <3>2. first \in both /\ first.variant # Unsafe
        BY <1>4, <1>7, <2>3
      <3> HIDE DEF both
      <3> QED  BY <1>9, <2>3, <3>1, <3>2 DEF Shown, Decision
    <2> QED  BY <2>1, <2>2, <2>3
  <1>11. ASSUME NEW s \in 1..n, w.roots[s] \notin {Absent, Unsafe}
         PROVE  \/ /\ Decide(w).disposition = "conflict"
                   /\ Observe(w, s) \in Decide(w).observations
                \/ /\ Decide(w).disposition = "create" /\ w.catalog = Absent
                   /\ \E o \in Decide(w).selected : o.variant = w.roots[s]
                \/ Decide(w).disposition = "unchanged" /\ w.catalog = w.roots[s]
    <2>1. Observe(w, s) \in Found(w) /\ Observe(w, s) \in Candidates(w)
      BY <1>6, <1>11
    <2>2. ~ Divergent(w) => first.variant = w.roots[s]
      BY <1>2, <1>7, <2>1 DEF Divergent
    <2> QED  BY <1>8, <2>1, <2>2 DEF Decision
  <1> QED  BY <1>10, <1>11 DEF Decided

(* What any part of the writes of a plan does to a world.                  *)
Kept(w, r) ==
  /\ r.roots = w.roots
  /\ w.catalog # Absent => r.catalog = w.catalog
  /\ \A v \in DOMAIN w.store :
       IF w.store[v] # Absent THEN r.store[v] = w.store[v] ELSE r.store[v] \in {Absent, v[2]}

Sane(D, n, d) ==
  /\ \A o \in d.observations : o.source \in 1..(n + 1) /\ o.variant \in Findable(D) \ {Absent}
  /\ \A o, p \in d.selected : o = p
  /\ \A o \in d.selected : o \in d.observations /\ o.variant # Unsafe

LEMMA CatalogPut ==
  ASSUME NEW D, NEW n \in Nat, Absent \notin D, NEW w \in Worlds(D, n), NEW d, Sane(D, n, d)
  PROVE  LET r == PutCatalog(w, d)
         IN r \in Worlds(D, n) /\ Kept(w, r) /\ r.store = w.store
  <1> DEFINE o == First(d.selected)
             r == PutCatalog(w, d)
  <1>0. \A v \in DOMAIN w.store : w.store[v] # Absent \/ w.store[v] \in {Absent, v[2]}
    OBVIOUS
  <1>1. CASE r = w
    BY <1>0, <1>1 DEF Kept
  <1>2. CASE r # w
    <2>1. d.selected # {} /\ w.catalog = Absent
      BY <1>2 DEF PutCatalog
    <2>2. o \in d.observations
      BY <2>1, FirstLeast DEF Sane
    <2>3. r = [w EXCEPT !.catalog = o.variant] \/ r = [w EXCEPT !.failed = TRUE]
      BY <1>2 DEF PutCatalog
    <2>4. o.variant \in Findable(D)
      BY <2>2 DEF Sane
    <2> HIDE DEF o, r
    <2>5. PICK x \in Findable(D) : x = o.variant
      BY <2>4
    <2>6. CASE r = [w EXCEPT !.catalog = x]
      <3>1. r \in Worlds(D, n) /\ r.roots = w.roots /\ r.store = w.store
        BY <2>6 DEF Worlds
      <3> QED  BY <1>0, <2>1, <3>1 DEF Kept, r
    <2>7. CASE r = [w EXCEPT !.failed = TRUE]
      <3>1. r \in Worlds(D, n) /\ r.roots = w.roots /\ r.store = w.store /\ r.catalog = w.catalog
        BY <2>7 DEF Worlds
      <3> QED  BY <1>0, <3>1 DEF Kept, r
    <2> QED  BY <2>3, <2>5, <2>6, <2>7
  <1> QED  BY <1>1, <1>2

LEMMA StorePut ==
  ASSUME NEW D, NEW n \in Nat, NEW w \in Worlds(D, n), NEW due,
         \A o \in due : o.source \in 1..(n + 1) /\ o.variant \in D
  PROVE  LET r == PutStore(w, due)
         IN /\ r \in Worlds(D, n) /\ Kept(w, r) /\ r.catalog = w.catalog
            /\ ~ r.failed => \A o \in due : r.store[Retained(o)] = o.variant
  <1> DEFINE done == {o \in due : \A other \in due :
                        other.source <= o.source => Retainable(w, other)}
             store == [v \in DOMAIN w.store |->
                        IF \E o \in done : v = Retained(o) THEN v[2] ELSE w.store[v]]
             r == PutStore(w, due)
  <1>1. r = [w EXCEPT !.store = store, !.failed = done # due]
    BY DEF PutStore
  <1>2. DOMAIN w.store = (1..(n + 1)) \X D
    BY DEF Worlds
  <1>3. \A v \in DOMAIN w.store : v[2] \in D
    BY <1>2
  <1>4. \A o \in due : Retained(o) \in DOMAIN w.store /\ Retained(o)[2] = o.variant
    BY <1>2 DEF Retained
  <1>5. \A o \in done : o \in due /\ Retainable(w, o)
    OBVIOUS
  <1>6. \A v \in DOMAIN w.store :
          IF w.store[v] # Absent THEN store[v] = w.store[v] ELSE store[v] \in {Absent, v[2]}
    BY <1>4, <1>5 DEF Retainable
  <1>7. store \in [(1..(n + 1)) \X D -> Findable(D)]
    BY <1>2, <1>3 DEF Worlds, Findable
  <1>8. \A o \in done : store[Retained(o)] = o.variant
    BY <1>4
  <1>9. (done # due) \in BOOLEAN
    OBVIOUS
  <1> HIDE DEF done, store, r
  <1>10. /\ r \in Worlds(D, n) /\ r.roots = w.roots /\ r.catalog = w.catalog /\ r.store = store
         /\ r.failed = (done # due)
    BY <1>1, <1>7, <1>9 DEF Worlds
  <1>11. Kept(w, r)
    BY <1>6, <1>10 DEF Kept
  <1>12. ~ r.failed => \A o \in due : r.store[Retained(o)] = o.variant
    BY <1>8, <1>10
  <1> QED  BY <1>10, <1>11, <1>12 DEF r

LEMMA Due ==
  ASSUME NEW D, NEW n \in Nat, NEW d, Sane(D, n, d), NEW o \in Variants(d)
  PROVE  o \in d.observations /\ o.source \in 1..(n + 1) /\ o.variant \in D
  BY DEF Variants, Eligible, Sane, Findable

LEMMA Applied ==
  ASSUME NEW D, NEW n \in Nat, Absent \notin D, NEW w \in Worlds(D, n), NEW d, Sane(D, n, d),
         NEW k \in Nat
  PROVE  Apply(w, d, k) \in Worlds(D, n) /\ Kept(w, Apply(w, d, k))
  <1> DEFINE c == PutCatalog(w, d)
             due == {o \in Variants(d) : o.source < k}
             r == PutStore(c, due)
  <1>1. c \in Worlds(D, n) /\ Kept(w, c) /\ c.store = w.store
    BY CatalogPut
  <1>2. \A o \in due : o.source \in 1..(n + 1) /\ o.variant \in D
    BY Due
  <1> HIDE DEF c, due
  <1>3. r \in Worlds(D, n) /\ Kept(c, r) /\ r.catalog = c.catalog
    BY <1>1, <1>2, StorePut
  <1>4. Kept(w, w)
    BY DEF Kept
  <1>5. Apply(w, d, k) \in {w, c, r}
    BY DEF Apply, c, due
  <1> HIDE DEF r
  <1>6. Kept(w, r)
    BY <1>1, <1>3 DEF Kept
  <1> QED  BY <1>1, <1>3, <1>4, <1>5, <1>6

(* An import that ends has every safe variant in the catalog or retained.  *)
LEMMA Ended ==
  ASSUME NEW D, NEW n \in Nat, Absent \notin D, Unsafe \notin D, Absent # Unsafe,
         NEW w \in Worlds(D, n), ~ w.failed, ~ Apply(w, Decide(w), n + 2).failed,
         NEW s \in 1..n, w.roots[s] \notin {Absent, Unsafe}
  PROVE  LET r == Apply(w, Decide(w), n + 2)
         IN w.roots[s] = r.catalog \/ \E v \in DOMAIN r.store : r.store[v] = w.roots[s]
  <1> DEFINE d == Decide(w)
             c == PutCatalog(w, d)
             due == {o \in Variants(d) : o.source < n + 2}
             r == PutStore(c, due)
  <1>0. PICK x : x = w.roots[s]
    OBVIOUS
  <1>1. Shown(w, n, d) /\ Decided(w, n, d)
    BY DecideCorrect
  <1> HIDE DEF d
  <1>2. \A o \in d.observations : o.source \in 1..(n + 1) /\ o.variant \in Findable(D) \ {Absent}
    <2> TAKE o \in d.observations
    <2>1. o.source \in 1..(n + 1) /\ o.variant # Absent /\ o = Observe(w, o.source)
      BY <1>1 DEF Shown
    <2>2. o.variant = Holds(w, o.source) /\ Len(w.roots) = n
      BY <2>1 DEF Observe, Worlds
    <2>3. o.variant \in Findable(D)
      BY <2>1, <2>2 DEF Holds, Existing, Worlds
    <2> QED  BY <2>1, <2>3
  <1>3. Sane(D, n, d)
    BY <1>1, <1>2 DEF Shown, Sane
  <1>4. c \in Worlds(D, n) /\ Kept(w, c)
    BY <1>3, CatalogPut
  <1>5. \A o \in due : o.source \in 1..(n + 1) /\ o.variant \in D
    BY <1>3, Due
  <1>6. /\ r \in Worlds(D, n) /\ r.catalog = c.catalog
        /\ ~ r.failed => \A o \in due : r.store[Retained(o)] = o.variant
    <2> HIDE DEF c, due
    <2> QED  BY <1>4, <1>5, StorePut
  <1>7. ~ c.failed /\ Apply(w, d, n + 2) = r
    <2>1. Apply(w, d, n + 2) = IF c.failed THEN c ELSE r
      BY DEF Apply
    <2> QED  BY <2>1 DEF d
  <1>8. ~ r.failed
    BY <1>7 DEF d
  <1>9. CASE d.disposition = "conflict" /\ Observe(w, s) \in d.observations
    <2> DEFINE S == {o \in d.observations : o.variant = x}
               f == First(S)
    <2>1. Observe(w, s) \in S
      <3>1. Observe(w, s).variant = x
        BY <1>0 DEF Observe, Holds, Existing, Worlds
      <3> QED  BY <1>9, <3>1
    <2>2. f \in S /\ \A o \in S : f.source <= o.source
      <3>1. \A o \in S : o.source \in Nat
        BY <1>2
      <3> HIDE DEF S
      <3> QED  BY <2>1, <3>1, FirstLeast
    <2> HIDE DEF f
    <2>3. f \in d.observations /\ f.variant = x /\ f.source \in 1..(n + 1)
      BY <1>2, <2>2
    <2>4. f \in Variants(d)
      BY <1>0, <1>9, <2>2, <2>3 DEF Variants, Eligible
    <2>5. f.source < n + 2
      BY <2>3
    <2>6. f \in due
      BY <2>4, <2>5
    <2>7. r.store[Retained(f)] = x
      BY <1>6, <1>8, <2>3, <2>6
    <2>8. Retained(f) \in DOMAIN r.store
      <3>1. DOMAIN r.store = (1..(n + 1)) \X D
        BY <1>6 DEF Worlds
      <3>2. x \in D
        BY <1>0 DEF Worlds, Findable
      <3> QED  BY <2>3, <3>1, <3>2 DEF Retained
    <2> HIDE DEF r
    <2> QED  BY <1>0, <1>7, <2>7, <2>8 DEF d
  <1>10. CASE d.disposition = "create" /\ w.catalog = Absent /\ \E o \in d.selected : o.variant = x
    <2>1. PICK o \in d.selected : o.variant = x
      BY <1>10
    <2>2. First(d.selected) = o
      <3>1. d.selected = {o}
        BY <1>1, <2>1 DEF Shown
      <3>2. o.source \in Nat
        BY <1>2, <1>3 DEF Sane
      <3> QED  BY <3>1, <3>2, FirstLeast
    <2>3. Unchanged(w, o)
      <3>1. o = Observe(w, o.source)
        BY <1>1 DEF Shown
      <3> QED  BY <3>1 DEF Unchanged, Observe
    <2>4. c.catalog = x
      BY <1>10, <2>1, <2>2, <2>3 DEF PutCatalog, Worlds
    <2> HIDE DEF r
    <2> QED  BY <1>0, <1>6, <1>7, <2>4 DEF d
  <1>11. CASE d.disposition = "unchanged" /\ w.catalog = x
    <2>1. c = w
      BY <1>11 DEF PutCatalog
    <2> HIDE DEF r
    <2> QED  BY <1>0, <1>6, <1>7, <1>11, <2>1 DEF d
  <1> QED  BY <1>0, <1>1, <1>9, <1>10, <1>11 DEF Decided

(* For any number of sources, whatever they hold, and wherever the first   *)
(* run is killed.                                                          *)
LEMMA ImportKept ==
  ASSUME NEW D, NEW n \in Nat, Absent \notin D, Unsafe \notin D, Absent # Unsafe,
         NEW world \in Worlds(D, n), ~ world.failed, NEW planned \in [1..n -> Findable(D)],
         NEW stop \in Nat
  PROVE  KeepsVariants(planned, world, stop)
  <1> DEFINE reviewed == [world EXCEPT !.roots = planned]
             killed == Apply(world, Decide(reviewed), stop)
             again == [killed EXCEPT !.failed = FALSE]
             final == Apply(again, Decide(again), n + 2)
  <1>1. \A w \in Worlds(D, n) : Sane(D, n, Decide(w))
    <2> TAKE w \in Worlds(D, n)
    <2>1. Shown(w, n, Decide(w))
      BY DecideCorrect
    <2> DEFINE d == Decide(w)
    <2> HIDE DEF d
    <2>2. ASSUME NEW o \in d.observations PROVE o.source \in 1..(n + 1) /\ o.variant \in Findable(D) \ {Absent}
      <3>1. o.source \in 1..(n + 1) /\ o.variant # Absent /\ o = Observe(w, o.source)
        BY <2>1, <2>2 DEF Shown, d
      <3>2. o.variant = Holds(w, o.source) /\ Len(w.roots) = n
        BY <3>1 DEF Observe, Worlds
      <3>3. o.variant \in Findable(D)
        BY <3>1, <3>2 DEF Holds, Existing, Worlds
      <3> QED  BY <3>1, <3>3
    <2>3. Sane(D, n, d)
      BY <2>1, <2>2 DEF Shown, Sane, d
    <2> QED  BY <2>3 DEF d
  <1>2. reviewed \in Worlds(D, n)
    BY DEF Worlds
  <1>3. killed \in Worlds(D, n) /\ Kept(world, killed)
    <2> HIDE DEF reviewed
    <2> QED  BY <1>1, <1>2, Applied
  <1> HIDE DEF killed
  <1>4. /\ again \in Worlds(D, n) /\ ~ again.failed /\ again.roots = killed.roots
        /\ again.catalog = killed.catalog /\ again.store = killed.store
    BY <1>3 DEF Worlds
  <1>5. Existing(again) + 1 = n + 2
    <2>1. Len(again.roots) = n
      <3>1. \A w \in Worlds(D, n) : Len(w.roots) = n
        BY DEF Worlds
      <3> QED  BY <1>4, <3>1
    <2> QED  BY <2>1 DEF Existing
  <1> HIDE DEF again
  <1>6. final \in Worlds(D, n) /\ Kept(again, final)
    BY <1>1, <1>4, Applied
  <1>7. ASSUME ~ final.failed, NEW s \in 1..n, again.roots[s] \notin {Absent, Unsafe}
        PROVE  again.roots[s] = final.catalog \/ \E v \in DOMAIN final.store : final.store[v] = again.roots[s]
    BY <1>4, <1>7, Ended
  <1> HIDE DEF final
  <1>8. /\ DOMAIN world.store = (1..(n + 1)) \X D /\ DOMAIN killed.store = (1..(n + 1)) \X D
        /\ DOMAIN final.store = (1..(n + 1)) \X D /\ DOMAIN world.roots = 1..n
    BY <1>3, <1>6 DEF Worlds
  <1>9. Kept(world, final)
    BY <1>3, <1>4, <1>6, <1>8 DEF Kept
  <1>10. again.roots = world.roots
    BY <1>3, <1>4 DEF Kept
  <1>11. KeepsVariants(planned, world, stop) <=>
           /\ world.catalog # Absent => final.catalog = world.catalog
           /\ \A v \in DOMAIN final.store :
                IF world.store[v] # Absent THEN final.store[v] = world.store[v]
                ELSE final.store[v] \in {Absent, v[2]}
           /\ ~ final.failed =>
                \A s \in DOMAIN world.roots :
                  world.roots[s] \in {Absent, Unsafe}
                  \/ world.roots[s] \in {final.catalog} \cup {final.store[v] : v \in DOMAIN final.store}
    <2>1. final = Apply(again, Decide(again), Existing(again) + 1)
      BY <1>5 DEF final
    <2> QED  BY <2>1 DEF KeepsVariants, again, killed
  <1>12. world.catalog # Absent => final.catalog = world.catalog
    BY <1>9 DEF Kept
  <1>13. \A v \in DOMAIN final.store :
           IF world.store[v] # Absent THEN final.store[v] = world.store[v]
           ELSE final.store[v] \in {Absent, v[2]}
    BY <1>8, <1>9 DEF Kept
  <1>14. ~ final.failed =>
           \A s \in DOMAIN world.roots :
             world.roots[s] \in {Absent, Unsafe}
             \/ world.roots[s] \in {final.catalog} \cup {final.store[v] : v \in DOMAIN final.store}
    BY <1>7, <1>8, <1>10
  <1> QED  BY <1>11, <1>12, <1>13, <1>14

(* An import of a Skill from any number of sources that is killed anywhere *)
(* and run again to its end: what the catalog and the conflict store had   *)
(* is still there, and every safe variant is in one of the two.            *)
THEOREM ImportCorrect ==
  ASSUME NEW D, NEW n \in Nat, Absent \notin D, Unsafe \notin D, Absent # Unsafe,
         case \in [rule : {"import"}, planned : [1..n -> Findable(D)], roots : [1..n -> Findable(D)],
                   catalog : Findable(D), store : [(1..(n + 1)) \X D -> Findable(D)], stop : Nat]
  PROVE  ImportKeepsVariants
  <1> DEFINE world ==
        [roots |-> case.roots, catalog |-> case.catalog, store |-> case.store, failed |-> FALSE]
  <1>1. world \in Worlds(D, n) /\ ~ world.failed
    BY DEF Worlds
  <1>2. case.planned \in [1..n -> Findable(D)] /\ case.stop \in Nat
    OBVIOUS
  <1> HIDE DEF world
  <1>3. KeepsVariants(case.planned, world, case.stop)
    BY <1>1, <1>2, ImportKept
  <1> QED BY <1>3 DEF ImportKeepsVariants, world
=============================================================================
