------------------------- MODULE OwnedLeaves_proofs -------------------------
(* Proofs about OwnedLeaves, for every document, catalog and bound.        *)
EXTENDS OwnedLeaves, TLAPS

Patching == {"replan", "reread", "check", "put"}
Applying == Patching \cup {"plan", "record"}

(* Whatever is in a document is in containers.                             *)
WellFormed(d) == \A x \in Paths : d[x] # None => \A t \in Above[x] : d[t] = "table"

(* What the record names is what the bridge has put or adopted.            *)
Backing ==
  /\ \A l \in Leaves : owned[l] # None => owned[l] \in placed[l]
  /\ \A q \in Parts : \A t \in held[q] : "table" \in placed[t]

(* Outside the two windows the document is the planned one.                *)
Windows ==
  /\ pc \notin {"reread", "check", "put", "record"} => missed = {}
  /\ pc \notin {"put", "record"} => late = {}
  /\ pc = "reread" => \A x \in Paths \ missed : doc[x] = base[x]
  /\ pc \in {"check", "put"} => \A x \in Paths \ missed : raw[x] = base[x]
  /\ pc = "put" => \A x \in Paths \ late : doc[x] = raw[x]

NoConflict == ~ Conflict(part, fresh, base)
PlanSound ==
  /\ pc \in Patching => NoConflict /\ WellFormed(base) /\ fresh \in Catalogs
  /\ pc \in {"check", "put"} => WellFormed(raw)
  /\ pc = "put" => ~ Unpatchable

(* What is about to be recorded has been put.                              *)
PutBacked ==
  /\ \A l \in Desired(part, fresh) : fresh[l] \in placed[l]
  /\ \A l \in Desired(part, fresh) : \A t \in Created(l) : "table" \in placed[t]
Recordable == pc = "record" => PutBacked

(* The digests of the reviewed plan are those of the reviewed leaves, and  *)
(* of the leaves that are patched.                                         *)
Reviewed(r) ==
  \A q \in Parts : r.says[q] # None => r.says[q].digest = SourceDigest(q, r.want)
Digests ==
  /\ pc \in Applying \cup {"reviewed"} => Reviewed(reviewed)
  /\ pc \in Applying => reviewed.says[part] # None
  /\ pc \in Patching => SourceDigest(part, fresh) = reviewed.says[part].digest

LeafInv ==
  /\ TypeOK /\ WellFormed(doc) /\ Backing /\ Windows /\ PlanSound /\ Recordable /\ Digests

-----------------------------------------------------------------------------
(* What the operators depend on.                                           *)

LEMMA SameConflict ==
  ASSUME UNCHANGED <<owned, part, fresh, base>>
  PROVE  NoConflict' = NoConflict
  BY DEF NoConflict, Conflict, Claimed, Unowned, Drifted, Leftover, Dropped, Rest, Removes,
         Desired, Previous

LEMMA SameUnpatchable ==
  ASSUME UNCHANGED <<owned, part, fresh, base, raw>>
  PROVE  Unpatchable' = Unpatchable
  BY DEF Unpatchable, Removes, Sets, Desired, Previous

LEMMA SamePutBacked ==
  ASSUME UNCHANGED <<owned, held, part, fresh, base, placed>>
  PROVE  PutBacked' = PutBacked
  BY DEF PutBacked, Created, Desired

LEMMA TypesOfNothing ==
  /\ Nothing \in [Leaves -> Values \cup {None}] /\ Blank \in Documents
  /\ WellFormed(Blank)
  BY DEF Nothing, Blank, Documents, Contents, WellFormed

LEMMA InitInv == Init => LeafInv
<1> SUFFICES ASSUME Init PROVE LeafInv
  OBVIOUS
<1>1. TypeOK
  BY TypesOfNothing, ExistingAssumption, BoundsAssumption, SMTT(30)
     DEF Init, TypeOK, States, Parts, Documents, Contents, Nothing, Blank
<1>2. WellFormed(doc)
  BY ExistingAssumption DEF Init, WellFormed
<1>3. Backing /\ Windows /\ Recordable
  BY DEF Init, Backing, Windows, Recordable, Nothing
<1>4. PlanSound /\ Digests
  BY DEF Init, PlanSound, Digests, Patching, Applying
<1> QED
  BY <1>1, <1>2, <1>3, <1>4 DEF LeafInv

(* The end of a command, whatever it has recorded.                         *)
LEMMA LeaveInv ==
  ASSUME LeafInv, Leave, UNCHANGED <<want, doc>>,
         owned' \in [Leaves -> Values \cup {None}], held' \in [Parts -> SUBSET Tables],
         placed' \in [Paths -> SUBSET Contents], Backing',
         meddles' \in 0..MaxMeddle, faults' \in 0..MaxFaults
  PROVE  LeafInv'
<1>1. TypeOK'
  BY TypesOfNothing DEF LeafInv, TypeOK, Leave, States, Parts
<1>2. WellFormed(doc)'
  BY DEF LeafInv, WellFormed
<1>3. Windows' /\ Recordable' /\ PlanSound' /\ Digests'
  BY DEF Leave, Windows, Recordable, PlanSound, Digests, Patching, Applying
<1> QED
  BY <1>1, <1>2, <1>3 DEF LeafInv

(* The end of a command that records nothing.                              *)
LEMMA AbortInv ==
  ASSUME LeafInv, Leave, UNCHANGED <<want, doc, record, placed>>,
         meddles' \in 0..MaxMeddle, faults' \in 0..MaxFaults
  PROVE  LeafInv'
<1>1. Backing'
  BY DEF LeafInv, Backing, record
<1> QED
  BY <1>1, LeaveInv DEF LeafInv, TypeOK, record

(* The patch of a part begins.                                             *)
LEMMA EnterInv ==
  ASSUME LeafInv, NEW q \in Parts, Enter(q), reviewed.says[q] # None, Reviewed(reviewed),
         UNCHANGED <<want, doc, meddles, faults>>,
         owned' \in [Leaves -> Values \cup {None}], held' \in [Parts -> SUBSET Tables],
         placed' \in [Paths -> SUBSET Contents], Backing'
  PROVE  LeafInv'
<1>1. TypeOK'
  BY TypesOfNothing DEF LeafInv, TypeOK, Enter, States
<1>2. WellFormed(doc)'
  BY DEF LeafInv, WellFormed
<1>3. Windows' /\ Recordable' /\ PlanSound' 
  BY DEF Enter, Windows, Recordable, PlanSound, Patching
<1>4. Digests'
  BY DEF Enter, Digests, Reviewed, Patching, Applying
<1> QED
  BY <1>1, <1>2, <1>3, <1>4 DEF LeafInv

-----------------------------------------------------------------------------
(* The steps of a command up to the replacement.                           *)

LEMMA SaysDigest ==
  ASSUME NEW q \in Parts, NEW w, NEW d, Says(q, w, d) # None
  PROVE  Says(q, w, d).digest = SourceDigest(q, w)
  BY DEF Says

LEMMA ReviewInv == LeafInv /\ Review => LeafInv'
<1> SUFFICES ASSUME LeafInv, Review PROVE LeafInv'
  OBVIOUS
<1> USE DEF Review, Goto, record, history
<1>1. TypeOK'
  BY CatalogsAssumption DEF LeafInv, TypeOK, States
<1>2. WellFormed(doc)' /\ Backing' /\ Windows' /\ Recordable' /\ PlanSound'
  BY DEF LeafInv, WellFormed, Backing, Windows, Recordable, PlanSound, Patching
<1>3. Reviewed(reviewed')
  BY SaysDigest DEF Reviewed, Plan
<1>4. Digests'
  BY <1>3 DEF Digests, Applying, Patching, Reviewed
<1> QED
  BY <1>1, <1>2, <1>4 DEF LeafInv

LEMMA RefuseInv == LeafInv /\ (Refuse \/ PlanPatchFails \/ ReplanFails \/ CheckFails) => LeafInv'
  BY AbortInv DEF LeafInv, TypeOK, Refuse, PlanPatchFails, ReplanFails, CheckFails, record

LEMMA KillInv == LeafInv /\ Kill => LeafInv'
  BY AbortInv, BoundsAssumption DEF LeafInv, TypeOK, Kill, record

LEMMA BeginInv == LeafInv /\ Begin => LeafInv'
<1> SUFFICES ASSUME LeafInv, Begin PROVE LeafInv'
  OBVIOUS
<1>1. Backing' /\ Reviewed(reviewed)
  BY DEF LeafInv, Begin, Backing, record, Digests
<1>2. CASE Leave
  BY <1>2, AbortInv DEF LeafInv, TypeOK, Begin
<1>3. ASSUME NEW q \in Parts, Enter(q), reviewed.says[q] # None PROVE LeafInv'
  BY <1>1, <1>3, EnterInv DEF LeafInv, TypeOK, Begin, record
<1> QED
  BY <1>2, <1>3 DEF Begin, Parts

LEMMA PlanPatchInv == LeafInv /\ PlanPatch => LeafInv'
<1> SUFFICES ASSUME LeafInv, PlanPatch PROVE LeafInv'
  OBVIOUS
<1> USE DEF PlanPatch, Goto, record, history
<1>1. TypeOK'
  BY CatalogsAssumption DEF LeafInv, TypeOK, States
<1>2. WellFormed(doc)' /\ Backing' /\ Windows' /\ Recordable'
  BY DEF LeafInv, WellFormed, Backing, Windows, Recordable
<1>3. NoConflict'
  <2>1. ~ Conflict(part, want, doc)' 
    BY DEF Conflict, Claimed, Unowned, Drifted, Leftover, Dropped, Rest, Removes, Desired,
           Previous
  <2> QED
    BY <2>1 DEF NoConflict
<1>4. PlanSound'
  BY <1>3 DEF LeafInv, TypeOK, PlanSound, WellFormed
<1>5. Digests'
  BY DEF LeafInv, Digests, Reviewed, Applying, Patching
<1> QED
  BY <1>1, <1>2, <1>4, <1>5 DEF LeafInv

LEMMA ReplanInv == LeafInv /\ Replan => LeafInv'
<1> SUFFICES ASSUME LeafInv, Replan PROVE LeafInv'
  OBVIOUS
<1> USE DEF Replan, Goto, record, history, task
<1>1. TypeOK'
  BY DEF LeafInv, TypeOK, States
<1>2. WellFormed(doc)' /\ Backing' /\ Windows'
  BY DEF LeafInv, WellFormed, Backing, Windows
<1>3. PlanSound'
  BY SameConflict DEF LeafInv, PlanSound, WellFormed, Patching
<1>4. Digests'
  BY DEF LeafInv, Digests, Reviewed, Applying, Patching
<1>5. Recordable'
  <2>1. SUFFICES ASSUME Changes(part, fresh, doc) = {} PROVE PutBacked
    BY SamePutBacked DEF Recordable
  <2>2. \A l \in Desired(part, fresh) : owned[l] = fresh[l] /\ owned[l] # None
    BY <2>1 DEF Changes, Sets, Desired
  <2>3. \A l \in Desired(part, fresh) : l \in Leaves
    BY DEF Desired, Mine, ServerLeaves
  <2>4. \A l \in Desired(part, fresh) : Created(l) \subseteq held[part]
    BY <2>2 DEF Created
  <2> QED
    BY <2>2, <2>3, <2>4 DEF PutBacked, LeafInv, Backing, TypeOK
<1> QED
  BY <1>1, <1>2, <1>3, <1>4, <1>5 DEF LeafInv

LEMMA RereadInv == LeafInv /\ Reread => LeafInv'
<1> SUFFICES ASSUME LeafInv, Reread PROVE LeafInv'
  OBVIOUS
<1> USE DEF Reread, Goto, record, history
<1>1. TypeOK'
  BY DEF LeafInv, TypeOK, States
<1>2. WellFormed(doc)' /\ Backing' /\ Windows' /\ Recordable'
  BY DEF LeafInv, WellFormed, Backing, Windows, Recordable
<1>3. PlanSound'
  BY SameConflict DEF LeafInv, PlanSound, WellFormed, Patching
<1>4. Digests'
  BY DEF LeafInv, Digests, Reviewed, Applying, Patching
<1> QED
  BY <1>1, <1>2, <1>3, <1>4 DEF LeafInv

LEMMA CheckInv == LeafInv /\ Check => LeafInv'
<1> SUFFICES ASSUME LeafInv, Check PROVE LeafInv'
  OBVIOUS
<1> USE DEF Check, Goto, record, history, task
<1>1. TypeOK'
  BY DEF LeafInv, TypeOK, States
<1>2. WellFormed(doc)' /\ Backing' /\ Windows' /\ Recordable'
  BY DEF LeafInv, WellFormed, Backing, Windows, Recordable
<1>3. PlanSound'
  BY SameConflict, SameUnpatchable DEF LeafInv, PlanSound, WellFormed, Patching
<1>4. Digests'
  BY DEF LeafInv, Digests, Reviewed, Applying, Patching
<1> QED
  BY <1>1, <1>2, <1>3, <1>4 DEF LeafInv

-----------------------------------------------------------------------------
(* The replacement.                                                        *)

LEMMA Kinds ==
  /\ \A x \in Paths : Above[x] \subseteq Tables
  /\ Tables \subseteq Paths /\ Leaves \subseteq Paths /\ Servers \subseteq Tables
  /\ Leaves \cap Tables = {} /\ ServerLeaves \subseteq Leaves
  /\ \A q : Mine(q) \subseteq Leaves
  BY PathsAssumption DEF Paths, ServerLeaves, Mine

LEMMA Patches ==
  /\ Sets(part, fresh) \subseteq Desired(part, fresh)
  /\ Desired(part, fresh) \subseteq Leaves
  /\ Removes(part, fresh, base) \subseteq Leaves
  /\ Parents \subseteq Tables
  BY Kinds DEF Sets, Desired, Removes, Previous, Parents

(* A server that goes is not among the containers of what is put.          *)
LEMMA DroppedGoes ==
  ASSUME NEW s \in Dropped(part, fresh, base)
  PROVE  Patched[s] = None
<1>1. s \in Paths /\ s \in Servers /\ s \notin Sets(part, fresh)
  BY Kinds, Patches DEF Dropped
<1>2. s \notin Parents
  BY Patches, Kinds DEF Parents, Dropped, Under
<1>3. Cut[s] = None
  BY <1>1 DEF Cut
<1> QED
  BY <1>1, <1>2, <1>3 DEF Patched

LEMMA PatchedType ==
  ASSUME TypeOK PROVE Patched \in Documents
<1>1. \A l \in Sets(part, fresh) : fresh[l] \in Contents
  BY Patches DEF TypeOK, Contents
<1>2. Cut \in Documents
  BY DEF Cut, TypeOK, Documents, Contents
<1> QED
  BY <1>1, <1>2 DEF Patched, Documents, Contents

(* The containers of what is left are left.                                *)
LEMMA PatchedWellFormed ==
  ASSUME WellFormed(raw) PROVE WellFormed(Patched)
<1> SUFFICES ASSUME NEW x \in Paths, Patched[x] # None, NEW t \in Above[x]
             PROVE  Patched[t] = "table"
  BY DEF WellFormed
<1>1. t \in Paths /\ t \in Tables /\ t \notin Sets(part, fresh)
  BY Kinds, Patches
<1>2. CASE x \in Sets(part, fresh)
  BY <1>1, <1>2 DEF Patched, Parents
<1>3. CASE x \in Parents
  <2>1. PICK l \in Sets(part, fresh) : x \in Above[l]
    BY <1>3 DEF Parents
  <2>2. t \in Above[l]
    BY <2>1, Patches, Kinds, AboveAssumption
  <2> QED
    BY <1>1, <2>2 DEF Patched, Parents
<1>4. CASE x \notin Sets(part, fresh) \cup Parents
  <2>1. x \notin Pruned /\ Cut[x] # None
    BY <1>4 DEF Patched
  <2>2. raw[x] # None /\ raw[t] = "table"
    BY <2>1 DEF Cut, WellFormed
  <2>3. Cut[t] = "table"
    <3> DEFINE gone == Dropped(part, fresh, base)
    <3>1. t \notin Removes(part, fresh, base)
      BY <1>1, Patches, Kinds
    <3>2. t \notin gone
      BY <2>1 DEF Cut, Under
    <3>3. ASSUME NEW s \in gone PROVE t \notin Under(s)
      BY <2>1, AboveAssumption DEF Cut, Under
    <3> QED
      BY <1>1, <2>2, <3>1, <3>2, <3>3 DEF Cut
  <2>4. t \notin Pruned
    <3> DEFINE mine == {c \in held[part] :
                 Cut[c] = "table" /\ Under(c) \cap Removes(part, fresh, base) # {}}
    <3>1. SUFFICES ASSUME t \in mine,
                          \A y \in Under(t) : Cut[y] # None => y \in mine
                   PROVE  FALSE
      BY DEF Pruned
    <3>2. x \in mine
      BY <2>1, <3>1 DEF Under
    <3>3. \A y \in Under(x) : y \in Under(t)
      BY AboveAssumption DEF Under
    <3> QED
      BY <2>1, <3>1, <3>2, <3>3 DEF Pruned
  <2> QED
    BY <1>1, <2>3, <2>4 DEF Patched
<1> QED
  BY <1>2, <1>3, <1>4

LEMMA PutInv == LeafInv /\ Put => LeafInv'
<1> SUFFICES ASSUME LeafInv, Put PROVE LeafInv'
  OBVIOUS
<1> USE DEF Put, Goto, record, task
<1>1. doc' = Patched /\ Patched \in Documents
  BY PatchedType DEF LeafInv
<1>2. placed' \in [Paths -> SUBSET Contents]
  BY <1>1 DEF LeafInv, TypeOK, Documents
<1>3. TypeOK'
  BY <1>1, <1>2 DEF LeafInv, TypeOK, States
<1>4. WellFormed(doc)'
  <2>1. WellFormed(Patched)
    BY PatchedWellFormed DEF LeafInv, PlanSound
  <2> QED
    BY <1>1, <2>1 DEF WellFormed
<1>5. \A x \in Paths : placed[x] \subseteq placed'[x]
  OBVIOUS
<1>6. Backing'
  BY <1>5, Kinds DEF LeafInv, TypeOK, Backing
<1>7. PutBacked'
  <2>1. ASSUME NEW l \in Desired(part, fresh) PROVE fresh[l] \in placed'[l]
    <3>1. l \in Leaves /\ l \in Paths /\ fresh[l] # None
      BY Patches, Kinds DEF Desired
    <3>2. CASE l \in Sets(part, fresh)
      BY <1>1, <3>1, <3>2 DEF Patched
    <3>3. CASE owned[l] = fresh[l]
      BY <1>5, <3>1, <3>3 DEF LeafInv, Backing
    <3> QED
      BY <3>2, <3>3 DEF Sets
  <2>2. ASSUME NEW l \in Desired(part, fresh), NEW t \in Created(l)
        PROVE  "table" \in placed'[t]
    <3>1. l \in Leaves /\ fresh[l] # None /\ t \in Above[l] /\ t \in Paths /\ t \in Tables
      BY Patches, Kinds DEF Desired, Created
    <3>2. CASE t \in held[part]
      BY <1>5, <3>1, <3>2 DEF LeafInv, TypeOK, Backing
    <3>3. CASE owned[l] = None /\ base[t] = None
      <4>1. t \in Parents /\ t \notin Sets(part, fresh)
        BY <3>1, <3>3, Patches, Kinds DEF Sets, Parents
      <4> QED
        BY <1>1, <3>1, <3>3, <4>1 DEF Patched
    <3> QED
      BY <3>2, <3>3 DEF Created
  <2> QED
    BY <2>1, <2>2 DEF PutBacked, Desired, Created
<1>8. Windows' /\ Recordable' /\ PlanSound'
  BY <1>7 DEF Windows, Recordable, PlanSound, Patching
<1>9. Digests'
  BY DEF LeafInv, Digests, Reviewed, Applying, Patching
<1> QED
  BY <1>3, <1>4, <1>6, <1>8, <1>9 DEF LeafInv

-----------------------------------------------------------------------------
(* The records.                                                            *)

LEMMA RecordInv == LeafInv /\ Record => LeafInv'
<1> SUFFICES ASSUME LeafInv, Record PROVE LeafInv'
  OBVIOUS
<1>1. PutBacked /\ Reviewed(reviewed)
  BY DEF LeafInv, Recordable, Digests, Applying, Record
<1>2. owned' \in [Leaves -> Values \cup {None}]
  BY DEF LeafInv, TypeOK, Record
<1>3. held' \in [Parts -> SUBSET Tables]
  <2>1. \A l \in Desired(part, fresh) : Created(l) \subseteq Tables
    BY Kinds, Patches DEF Created
  <2> QED
    BY <2>1 DEF LeafInv, TypeOK, Record
<1>4. placed' \in [Paths -> SUBSET Contents]
  BY DEF LeafInv, TypeOK, Record, Forget
<1>5. Backing'
  <2>1. ASSUME NEW l \in Leaves, owned'[l] # None PROVE owned'[l] \in placed'[l]
    <3>1. placed'[l] = placed[l]
      BY <2>1, Kinds DEF Record, Forget
    <3>2. owned'[l] \in placed[l]
      BY <1>1, <2>1 DEF Record, PutBacked, Desired, LeafInv, Backing
    <3> QED
      BY <3>1, <3>2
  <2>2. ASSUME NEW q \in Parts, NEW t \in held'[q] PROVE "table" \in placed'[t]
    <3>1. placed'[t] = placed[t]
      BY <1>3, <2>2, Kinds DEF Record, Forget
    <3>2. "table" \in placed[t]
      BY <1>1, <2>2 DEF Record, PutBacked, LeafInv, TypeOK, Backing
    <3> QED
      BY <3>1, <3>2
  <2> QED
    BY <2>1, <2>2 DEF Backing
<1>6. CASE Enter("mcp") /\ reviewed.says["mcp"] # None
  BY <1>1, <1>2, <1>3, <1>4, <1>5, <1>6, EnterInv DEF Record, Parts
<1>7. CASE Leave
  BY <1>2, <1>3, <1>4, <1>5, <1>7, LeaveInv DEF Record, LeafInv, TypeOK
<1> QED
  BY <1>6, <1>7 DEF Record

LEMMA AdoptInv == LeafInv /\ Adopt => LeafInv'
<1> SUFFICES ASSUME LeafInv, Adopt PROVE LeafInv'
  OBVIOUS
<1> USE DEF Adopt, Goto, Meddle, record, history
<1>1. TypeOK'
  BY CatalogsAssumption, BoundsAssumption DEF LeafInv, TypeOK, States
<1>2. WellFormed(doc)' /\ Backing' /\ Windows' /\ Recordable' /\ PlanSound'
  BY DEF LeafInv, WellFormed, Backing, Windows, Recordable, PlanSound, Patching
<1>3. Digests'
  BY DEF Digests, Applying, Patching
<1> QED
  BY <1>1, <1>2, <1>3 DEF LeafInv

LEMMA RecordAdoptionInv == LeafInv /\ RecordAdoption => LeafInv'
<1> SUFFICES ASSUME LeafInv, RecordAdoption PROVE LeafInv'
  OBVIOUS
<1> DEFINE adopted == {l \in ServerLeaves : Above[l] \cap goal # {} /\ fresh[l] # None}
<1>1. /\ owned' = [l \in Leaves |-> IF l \in adopted THEN fresh[l] ELSE owned[l]]
      /\ held' = [held EXCEPT !["mcp"] = @ \cup goal]
      /\ placed' = [x \in Paths |-> IF x \in adopted THEN placed[x] \cup {fresh[x]}
                                    ELSE IF x \in goal THEN placed[x] \cup {"table"}
                                    ELSE placed[x]]
  BY DEF RecordAdoption
<1>2. adopted \subseteq Leaves /\ adopted \cap Tables = {} /\ goal \subseteq Tables
  BY Kinds DEF LeafInv, TypeOK
<1>3. owned' \in [Leaves -> Values \cup {None}]
  BY <1>1 DEF LeafInv, TypeOK
<1>4. held' \in [Parts -> SUBSET Tables]
  BY <1>1, <1>2 DEF LeafInv, TypeOK, Parts
<1>5. placed' \in [Paths -> SUBSET Contents]
  BY <1>1, <1>2 DEF LeafInv, TypeOK, Contents
<1>6. Backing'
  <2>1. \A l \in Leaves : owned'[l] # None => owned'[l] \in placed'[l]
    BY <1>1, Kinds DEF LeafInv, Backing
  <2>2. ASSUME NEW q \in Parts, NEW t \in held'[q] PROVE "table" \in placed'[t]
    <3>1. t \in Tables /\ t \in Paths /\ t \notin adopted
      BY <1>2, <1>4, Kinds
    <3>2. t \in goal \/ t \in held[q]
      BY <1>1 DEF LeafInv, TypeOK
    <3> QED
      BY <1>1, <3>1, <3>2 DEF LeafInv, Backing
  <2> QED
    BY <2>1, <2>2 DEF Backing
<1> QED
  BY <1>3, <1>4, <1>5, <1>6, LeaveInv DEF RecordAdoption, LeafInv, TypeOK

LEMMA ReleaseInv == LeafInv /\ Release => LeafInv'
<1> SUFFICES ASSUME LeafInv, Release PROVE LeafInv'
  OBVIOUS
<1> USE DEF Release, Meddle, task
<1>1. TypeOK'
  BY BoundsAssumption DEF LeafInv, TypeOK, Forget, Parts
<1>2. \A l \in Leaves : owned'[l] # None => owned'[l] = owned[l]
  OBVIOUS
<1>3. \A q \in Parts : held'[q] \subseteq held[q]
  BY DEF LeafInv, TypeOK
<1>4. Backing'
  <2>1. \A l \in Leaves : owned'[l] # None => placed'[l] = placed[l]
    BY Kinds DEF Forget
  <2>2. \A q \in Parts : \A t \in held'[q] : placed'[t] = placed[t]
    BY <1>1, Kinds DEF Forget, TypeOK
  <2> QED
    BY <1>2, <1>3, <2>1, <2>2 DEF LeafInv, Backing
<1>5. WellFormed(doc)' /\ Windows' /\ Recordable' /\ PlanSound' /\ Digests'
  BY DEF LeafInv, WellFormed, Windows, Recordable, PlanSound, Digests, Patching, Applying
<1> QED
  BY <1>1, <1>4, <1>5 DEF LeafInv

LEMMA EditCatalogInv == LeafInv /\ EditCatalog => LeafInv'
<1> SUFFICES ASSUME LeafInv, EditCatalog PROVE LeafInv'
  OBVIOUS
<1> USE DEF EditCatalog, Meddle, record, task, history
<1>1. TypeOK'
  BY BoundsAssumption DEF LeafInv, TypeOK
<1>2. WellFormed(doc)' /\ Backing' /\ Windows' /\ Recordable'
  BY SamePutBacked DEF LeafInv, WellFormed, Backing, Windows, Recordable
<1>3. PlanSound'
  BY SameConflict, SameUnpatchable DEF LeafInv, PlanSound, WellFormed
<1>4. Digests'
  BY DEF LeafInv, Digests, Reviewed
<1> QED
  BY <1>1, <1>2, <1>3, <1>4 DEF LeafInv

(* The user's editor writes documents too.                                 *)
LEMMA WrittenWellFormed ==
  ASSUME WellFormed(doc), NEW x \in Paths, NEW v
  PROVE  WellFormed(Written(x, v))
<1> SUFFICES ASSUME NEW y \in Paths, Written(x, v)[y] # None, NEW t \in Above[y]
             PROVE  Written(x, v)[t] = "table"
  BY DEF WellFormed
<1>1. t \in Paths /\ t # y /\ Above[t] \subseteq Above[y]
  BY Kinds, AboveAssumption
<1>2. CASE v # None /\ t \in Above[x]
  <2>1. t # x
    BY <1>2, AboveAssumption
  <2> QED
    BY <1>1, <1>2, <2>1 DEF Written
<1>3. CASE ~ (v # None /\ t \in Above[x])
  <2>1. y # x
    BY <1>3 DEF Written
  <2>2. ~ (v # None /\ y \in Above[x])
    BY <1>3, AboveAssumption
  <2>3. ~ (v # "table" /\ x \in Above[y]) /\ doc[y] # None
    BY <2>1, <2>2 DEF Written
  <2>4. doc[t] = "table"
    BY <2>3 DEF WellFormed
  <2> QED
    BY <1>1, <1>3, <2>3, <2>4 DEF Written
<1> QED
  BY <1>2, <1>3

LEMMA WriteInv == LeafInv /\ Write => LeafInv'
<1> SUFFICES ASSUME LeafInv, Write PROVE LeafInv'
  OBVIOUS
<1> USE DEF Meddle, record, task
<1>1. PICK x \in Paths, v \in Contents : doc' = Written(x, v)
  <2>1. want \in [Leaves -> Values \cup {None}]
    BY CatalogsAssumption DEF LeafInv, TypeOK
  <2> QED
    BY <2>1 DEF Write, Contents
<1>2. doc' \in Documents
  BY <1>1 DEF Written, LeafInv, TypeOK, Documents, Contents
<1>3. TypeOK'
  BY <1>2, BoundsAssumption DEF Write, LeafInv, TypeOK
<1>4. WellFormed(doc)'
  <2>1. WellFormed(Written(x, v))
    BY WrittenWellFormed DEF LeafInv
  <2> QED
    BY <1>1, <2>1 DEF WellFormed
<1>5. Windows'
  BY DEF LeafInv, Windows, Write
<1>6. Backing' /\ Recordable'
  BY SamePutBacked DEF LeafInv, Backing, Recordable, Write
<1>7. PlanSound'
  BY SameConflict, SameUnpatchable DEF LeafInv, PlanSound, WellFormed, Write
<1>8. Digests'
  BY DEF LeafInv, Digests, Reviewed, Write
<1> QED
  BY <1>3, <1>4, <1>5, <1>6, <1>7, <1>8 DEF LeafInv

LEMMA StutterInv == LeafInv /\ UNCHANGED vars => LeafInv'
<1> SUFFICES ASSUME LeafInv, UNCHANGED vars PROVE LeafInv'
  OBVIOUS
<1> USE DEF vars, record, task, history
<1>1. TypeOK' /\ WellFormed(doc)' /\ Backing' /\ Windows' /\ Recordable'
  BY SamePutBacked DEF LeafInv, TypeOK, WellFormed, Backing, Windows, Recordable
<1>2. PlanSound' /\ Digests'
  BY SameConflict, SameUnpatchable DEF LeafInv, PlanSound, WellFormed, Digests, Reviewed
<1> QED
  BY <1>1, <1>2 DEF LeafInv

LEMMA NextInv == LeafInv /\ [Next]_vars => LeafInv'
  BY ReviewInv, RefuseInv, BeginInv, PlanPatchInv, ReplanInv, RereadInv, CheckInv, PutInv,
     RecordInv, RecordAdoptionInv, KillInv, EditCatalogInv, WriteInv, AdoptInv, ReleaseInv,
     StutterInv
     DEF Next, User, Step, Apply

LEMMA Inductive == Spec => []LeafInv
  BY InitInv, NextInv, PTL DEF Spec

(* Every variable keeps its type.                                          *)
THEOREM TypeCorrect == Spec => []TypeOK
<1>1. LeafInv => TypeOK
  BY DEF LeafInv
<1> QED
  BY <1>1, Inductive, PTL

-----------------------------------------------------------------------------
(* The replacement.                                                        *)

(* Only it changes the document, and a command does nothing else to it.    *)
LEMMA OnlyPut ==
  ASSUME [Next]_vars, pc' # pc
  PROVE  doc' = doc \/ Put
  BY DEF Next, User, Step, Apply, Review, Refuse, Begin, PlanPatch, PlanPatchFails, Replan,
         ReplanFails, Reread, Check, CheckFails, Record, RecordAdoption, Kill, EditCatalog,
         Write, Adopt, Release, task, vars

(* It finds what was planned, but for the windows.                         *)
LEMMA PutFinds ==
  ASSUME LeafInv, Put
  PROVE  /\ NoConflict /\ ~ Unpatchable /\ WellFormed(base) /\ fresh \in Catalogs
         /\ doc' = Patched
         /\ \A x \in Paths \ (missed \cup late) : doc[x] = raw[x] /\ raw[x] = base[x]
  BY DEF LeafInv, Put, Goto, Windows, PlanSound, Patching

(* What is put is new, or replaces what the bridge has put.                *)
LEMMA SetsOwn ==
  ASSUME LeafInv, NoConflict, NEW l \in Sets(part, fresh), base[l] # None
  PROVE  base[l] \in placed[l]
<1>1. l \in Desired(part, fresh) /\ l \in Leaves
  BY Patches
<1>2. owned[l] # None
  BY <1>1 DEF NoConflict, Conflict, Unowned, Previous
<1>3. base[l] = owned[l]
  BY <1>1, <1>2 DEF NoConflict, Conflict, Drifted, Previous, Desired
<1> QED
  BY <1>1, <1>2, <1>3 DEF LeafInv, Backing

LEMMA PutKeeps == ASSUME LeafInv, Put PROVE Kept(missed \cup late)
<1> SUFFICES ASSUME NEW x \in Paths \ (missed \cup late), doc[x] # None, doc'[x] # doc[x]
             PROVE  \/ doc[x] \in placed[x]
                    \/ \E s \in Servers : doc'[s] = None /\ x \in Swept(s)
  BY DEF Kept
<1> DEFINE gone == Dropped(part, fresh, base)
<1>1. /\ NoConflict /\ ~ Unpatchable /\ doc' = Patched
      /\ doc[x] = raw[x] /\ raw[x] = base[x]
  BY PutFinds
<1>2. CASE x \in Sets(part, fresh)
  BY <1>1, <1>2, SetsOwn
<1>3. CASE x \in Parents /\ x \notin Sets(part, fresh)
  BY <1>1, <1>3 DEF Parents, Unpatchable, Patched
<1>4. CASE x \in Pruned /\ x \notin Sets(part, fresh) \cup Parents
  <2>1. x \in held[part] /\ Cut[x] = "table"
    BY <1>4 DEF Pruned
  <2>2. doc[x] = "table"
    BY <1>1, <2>1, ValuesAssumption DEF Cut
  <2> QED
    BY <2>1, <2>2 DEF LeafInv, TypeOK, Backing
<1>5. CASE x \notin Sets(part, fresh) \cup Parents \cup Pruned
  <2>1. x \in Removes(part, fresh, base) \cup gone \cup UNION {Under(s) : s \in gone}
    BY <1>1, <1>5 DEF Patched, Cut
  <2>2. CASE x \in Removes(part, fresh, base)
    BY <1>1, <2>2, Patches DEF Removes, Previous, LeafInv, Backing
  <2>3. CASE x \in gone
    BY <1>1, <2>3, DroppedGoes DEF Dropped, Swept
  <2>4. ASSUME NEW s \in gone, x \in Under(s), x \notin Removes(part, fresh, base)
        PROVE  \E srv \in Servers : doc'[srv] = None /\ x \in Swept(srv)
    <3>1. x \in Rest(s, part, fresh, base)
      BY <1>1, <2>4 DEF Rest
    <3>2. Disposable(x, base)
      BY <1>1, <3>1 DEF NoConflict, Conflict, Leftover
    <3>3. Disposable(x, doc)
      BY <1>1, <3>2 DEF Disposable
    <3>4. doc'[s] = None /\ s \in Servers
      BY <1>1, DroppedGoes DEF Dropped
    <3> QED
      BY <2>4, <3>3, <3>4 DEF Swept
  <2> QED
    BY <2>1, <2>2, <2>3, <2>4
<1> QED
  BY <1>2, <1>3, <1>4, <1>5

(* No command changes or removes what the bridge has not put or adopted,   *)
(* whatever the user, a kill or the catalog does (settings.py and          *)
(* mcp_ownership.py).                                                      *)
THEOREM UserContentCorrect == Spec => UserContentKept
<1>1. LeafInv /\ [Next]_vars => [pc' # pc => Kept(missed \cup late)]_vars
  <2>1. SUFFICES ASSUME LeafInv, [Next]_vars, pc' # pc PROVE Kept(missed \cup late)
    OBVIOUS
  <2>2. CASE doc' = doc
    BY <2>2 DEF Kept
  <2> QED
    BY <2>1, <2>2, OnlyPut, PutKeeps
<1> QED
  BY <1>1, Inductive, PTL DEF Spec, UserContentKept

-----------------------------------------------------------------------------
(* The server tables.                                                      *)

(* Nothing of a server is put or removed, unless it is the MCP part and    *)
(* the server is declared, or one of its leaves goes.                      *)
LEMMA OtherServers ==
  ASSUME LeafInv, NEW s \in Servers,
         Under(s) \cap Desired(part, fresh) = {}, Under(s) \cap Removes(part, fresh, base) = {}
  PROVE  /\ \A x \in Under(s) : Patched[x] = raw[x]
         /\ Patched[s] = "table" => raw[s] = "table"
<1>1. \A x \in Under(s) : x \in Paths /\ s \in Above[x] /\ Above[s] \subseteq Above[x]
  BY Kinds, AboveAssumption DEF Under
<1>2. ASSUME NEW x \in Under(s) PROVE Patched[x] = raw[x]
  <2>1. x \notin Sets(part, fresh)
    BY Patches
  <2>2. x \notin Parents
    BY <1>1, Patches, Kinds, AboveAssumption DEF Parents, Under
  <2>3. ASSUME NEW l \in Removes(part, fresh, base) PROVE x \notin Above[l]
    BY <1>1, Patches, Kinds, AboveAssumption DEF Under
  <2>4. x \notin Pruned /\ x \notin Dropped(part, fresh, base)
    BY <2>3 DEF Pruned, Dropped, Under
  <2>5. ASSUME NEW s2 \in Dropped(part, fresh, base), x \in Under(s2) PROVE FALSE
    <3>1. s2 = s
      BY <1>1, <2>5, AboveAssumption DEF Dropped, Under
    <3> QED
      BY <3>1 DEF Dropped
  <2>6. Cut[x] = raw[x]
    BY <1>1, <2>4, <2>5 DEF Cut
  <2> QED
    BY <1>1, <2>1, <2>2, <2>4, <2>6 DEF Patched
<1>3. s \in Paths /\ s \notin Sets(part, fresh)
  BY Kinds, Patches
<1>4. s \notin Parents
  BY Patches, Kinds DEF Parents, Under
<1>5. ASSUME Patched[s] = "table" PROVE raw[s] = "table"
  BY <1>3, <1>4, <1>5, ValuesAssumption DEF Patched, Cut
<1> QED
  BY <1>2, <1>5

(* The leaves of a declared server are there after the replacement.        *)
LEMMA DesiredThere ==
  ASSUME LeafInv, Put, NEW l \in Desired(part, fresh), l \notin missed \cup late
  PROVE  doc'[l] # None
<1>1. l \in Paths /\ l \in Leaves /\ fresh[l] # None
  BY Patches, Kinds DEF Desired
<1>2. doc' = Patched /\ NoConflict /\ raw[l] = base[l]
  BY <1>1, PutFinds
<1>3. CASE l \in Sets(part, fresh)
  BY <1>1, <1>2, <1>3 DEF Patched
<1>4. CASE l \notin Sets(part, fresh)
  <2>1. owned[l] = fresh[l] /\ l \in Previous(part)
    BY <1>1, <1>4 DEF Sets, Previous, Desired
  <2>2. base[l] = owned[l]
    BY <1>2, <2>1 DEF NoConflict, Conflict, Drifted
  <2>3. l \notin Removes(part, fresh, base) /\ l \notin Servers
    BY <1>1, Kinds DEF Removes
  <2>4. \A s \in Dropped(part, fresh, base) : l \notin Under(s) /\ l # s
    BY <2>3 DEF Dropped
  <2>5. Cut[l] = raw[l]
    BY <1>1, <2>3, <2>4 DEF Cut
  <2>6. l \notin Parents /\ l \notin Pruned
    BY <1>1, Kinds, Patches DEF Pruned, LeafInv, TypeOK
  <2> QED
    BY <1>1, <1>2, <1>4, <2>1, <2>2, <2>5, <2>6 DEF Patched
<1> QED
  BY <1>3, <1>4

LEMMA PutLoads ==
  ASSUME LeafInv, Put, NEW s \in Servers, Loads(s, doc),
         ({s} \cup Under(s)) \cap (missed \cup late) = {}
  PROVE  Loads(s, doc')
<1>1. doc' = Patched /\ fresh \in Catalogs /\ s \in Paths
  BY PutFinds, Kinds
<1>2. \A x \in {s} \cup Under(s) : doc[x] = raw[x]
  BY <1>1, PutFinds DEF Under
<1>3. CASE Under(s) \cap Desired(part, fresh) # {}
  <2>1. part = "mcp"
    BY <1>3, Patches DEF Desired, Mine, ServerLeaves, Under
  <2>2. PICK l \in Transports \cap Under(s) : fresh[l] # None
    BY <1>1, <1>3, Patches, CatalogsAssumption DEF Desired
  <2>3. l \in Desired(part, fresh)
    BY <2>1, <2>2, PathsAssumption DEF Desired, Mine, ServerLeaves, Under
  <2>4. doc'[l] # None
    BY <2>2, <2>3, DesiredThere
  <2> QED
    BY <2>2, <2>4 DEF Loads
<1>4. CASE Under(s) \cap Removes(part, fresh, base) # {} /\ Under(s) \cap Desired(part, fresh) = {}
  <2>1. s \in Dropped(part, fresh, base)
    BY <1>4 DEF Dropped
  <2>2. doc'[s] = None
    BY <1>1, <2>1, DroppedGoes
  <2> QED
    BY <2>2, ValuesAssumption DEF Loads
<1>5. CASE Under(s) \cap (Removes(part, fresh, base) \cup Desired(part, fresh)) = {}
  <2>1. /\ \A x \in Under(s) : Patched[x] = raw[x]
        /\ Patched[s] = "table" => raw[s] = "table"
    BY <1>5, OtherServers
  <2> QED
    BY <1>1, <1>2, <2>1 DEF Loads
<1> QED
  BY <1>3, <1>4, <1>5

(* No command leaves a server table without a transport, whatever the      *)
(* catalog, the document and the record were (_plan_owned_table_removals,  *)
(* render_codex_leaves).                                                   *)
THEOREM ServersLoad == Spec => ServerLoads
<1> DEFINE A ==
      \A s \in Servers :
        Loads(s, doc) => Loads(s, doc') \/ ({s} \cup Under(s)) \cap (missed \cup late) # {}
<1>1. LeafInv /\ [Next]_vars => [pc' # pc => A]_vars
  <2>1. SUFFICES ASSUME LeafInv, [Next]_vars, pc' # pc PROVE A
    OBVIOUS
  <2>2. CASE doc' = doc
    BY <2>2 DEF Loads
  <2> QED
    BY <2>1, <2>2, OnlyPut, PutLoads
<1> QED
  BY <1>1, Inductive, PTL DEF Spec, ServerLoads

LEMMA PutNeverMerges ==
  ASSUME LeafInv, Put, NEW s \in Servers, Under(s) \cap Previous("mcp") = {},
         NEW x \in Under(s), doc[x] # None, Under(s) \cap (missed \cup late) = {}
  PROVE  \A y \in Under(s) : doc'[y] = doc[y]
<1>1. /\ doc' = Patched /\ NoConflict /\ WellFormed(base)
      /\ \A y \in Under(s) : doc[y] = raw[y] /\ raw[y] = base[y]
  BY PutFinds DEF Under
<1>2. base[s] = "table"
  BY <1>1 DEF WellFormed, Under
<1>3. Under(s) \cap Previous(part) = {}
  BY Kinds DEF Previous, Mine, ServerLeaves, Under
<1>4. Under(s) \cap Desired(part, fresh) = {}
  BY <1>1, <1>2, <1>3 DEF NoConflict, Conflict, Claimed
<1>5. Under(s) \cap Removes(part, fresh, base) = {}
  BY <1>3 DEF Removes
<1> QED
  BY <1>1, <1>4, <1>5, OtherServers

(* No command merges a catalog server into a table of the user's in which  *)
(* the bridge owns nothing (_plan_claimed_tables).                         *)
THEOREM NeverMergedCorrect == Spec => NeverMerged
<1> DEFINE A ==
      \A s \in Servers :
        (\E x \in Under(s) : doc[x] # None) /\ Under(s) \cap Previous("mcp") = {} =>
          \/ \A x \in Under(s) : doc'[x] = doc[x]
          \/ Under(s) \cap (missed \cup late) # {}
<1>1. LeafInv /\ [Next]_vars => [pc' # pc => A]_vars
  <2>1. SUFFICES ASSUME LeafInv, [Next]_vars, pc' # pc PROVE A
    OBVIOUS
  <2> QED
    BY <2>1, OnlyPut, PutNeverMerges
<1> QED
  BY <1>1, Inductive, PTL DEF Spec, NeverMerged

LEMMA PutReviewed ==
  ASSUME LeafInv, Put, NEW l \in ServerLeaves
  PROVE  doc'[l] \in {raw[l], None, reviewed.want[l]}
<1>1. doc' = Patched /\ l \in Paths /\ l \in Leaves
  BY PutFinds, Kinds
<1>2. CASE l \in Sets(part, fresh)
  <2>1. part = "mcp" /\ l \in Desired("mcp", fresh)
    BY <1>2, Patches DEF Desired, Mine
  <2>2. SourceDigest("mcp", fresh) = SourceDigest("mcp", reviewed.want)
    BY <2>1 DEF LeafInv, Digests, Reviewed, Put, Goto, Applying, Patching, Parts
  <2>3. [k \in Desired("mcp", fresh) |-> fresh[k]]
          = [k \in Desired("mcp", reviewed.want) |-> reviewed.want[k]]
    BY <2>2 DEF SourceDigest
  <2>4. fresh[l] = reviewed.want[l]
    BY <2>1, <2>3
  <2> QED
    BY <1>1, <1>2, <2>4 DEF Patched
<1>3. CASE l \notin Sets(part, fresh)
  <2>1. l \notin Parents
    BY <1>1, Patches, Kinds
  <2> QED
    BY <1>1, <1>3, <2>1 DEF Patched, Cut
<1> QED
  BY <1>2, <1>3

(* What `apply` writes to a server table has been reviewed, although it is *)
(* read from the catalog again (_apply_target_mcp, mcp_leaves_digest).     *)
THEOREM ReviewedCorrect == Spec => ReviewedServers
<1> DEFINE A ==
      pc = "put" /\ pc' = "record" =>
        \A l \in ServerLeaves : doc'[l] \in {raw[l], None, reviewed.want[l]}
<1>1. LeafInv /\ [Next]_vars => [A]_vars
  <2>1. SUFFICES ASSUME LeafInv, [Next]_vars, pc = "put", pc' = "record" PROVE Put
    BY PutReviewed
  <2> QED
    BY <2>1 DEF Next, User, Step, Apply, Goto, Leave, Enter, Review, Refuse, Begin, PlanPatch,
           PlanPatchFails, Replan, ReplanFails, Reread, Check, CheckFails, Record,
           RecordAdoption, Kill, EditCatalog, Write, Adopt, Release, task, vars
<1> QED
  BY <1>1, Inductive, PTL DEF Spec, ReviewedServers

-----------------------------------------------------------------------------
(* Together: a server table stays loadable, is never merged into one of the *)
(* user's and holds reviewed values (plan_settings_patch, apply).           *)
THEOREM ServersSoundCorrect == Spec => ServersSound
BY ServersLoad, NeverMergedCorrect, ReviewedCorrect DEF ServersSound
=============================================================================
