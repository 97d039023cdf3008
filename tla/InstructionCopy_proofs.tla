------------------------ MODULE InstructionCopy_proofs ------------------------
(* Proofs about InstructionCopy, for every number of commands, versions,    *)
(* writes, kills and errors.                                                *)
EXTENDS InstructionCopy, TLAPS

-----------------------------------------------------------------------------
(* Types, and which names a command holds at each step.                    *)

Holding == {"verify", "retain", "install", "check", "unlink", "recover"}

Grip(j) ==
  /\ j.at \in {"recheck", "displace", "verify", "retain", "final"} => j.op # "create"
  /\ j.at \in {"recheck", "displace"} => mode = "copy"
  /\ j.at \in {"verify", "retain"} => j.old # None
  /\ j.at \in {"install", "check"} /\ j.op # "create" => j.old # None /\ j.backup # None
  /\ j.at = "unlink" /\ mode = "copy" => j.old # None /\ j.backup # None /\ j.op # "create"
  /\ j.at = "final" => j.backup # None
  /\ j.old # None => j.at \in Holding /\ j.op # "create" /\ mode = "copy"
  /\ j.backup # None => j.at \in Holding \cup {"final"} /\ j.op # "create" /\ mode = "copy"

TypeInv == TypeOK /\ \A c \in Commands : Grip(job[c])

(* A new inode leaves the others alone.                                    *)
LEMMA Appended ==
  ASSUME NEW s \in Seq(Content), NEW x \in Content
  PROVE  /\ Append(s, x) \in Seq(Content) /\ Len(Append(s, x)) = Len(s) + 1 /\ Len(s) \in Nat
         /\ Append(s, x)[Len(s) + 1] = x
         /\ \A i \in 1..Len(s) : Append(s, x)[i] = s[i]
OBVIOUS

Overwrite(s, i, t, w) == [s EXCEPT ![i].text = t, ![i].tail = @ \cup {w}]

(* So does a write, which only adds to the one it is made to.              *)
LEMMA Overwritten ==
  ASSUME NEW s \in Seq(Content), NEW i \in 1..Len(s), NEW t \in 0..MaxVersion,
         NEW w \in 1..MaxWrites
  PROVE  LET r == Overwrite(s, i, t, w) IN
         /\ r \in Seq(Content) /\ Len(r) = Len(s)
         /\ r[i].tail = s[i].tail \cup {w} /\ r[i].kind = s[i].kind
         /\ \A k \in 1..Len(s) : k # i => r[k] = s[k]
<1> DEFINE x == [s[i] EXCEPT !.text = t, !.tail = @ \cup {w}]
<1>1. s[i] \in Content
  OBVIOUS
<1>2. x \in Content /\ x.tail = s[i].tail \cup {w} /\ x.kind = s[i].kind
  BY <1>1 DEF Content
<1>3. Overwrite(s, i, t, w) = [s EXCEPT ![i] = x]
  BY DEF Overwrite
<1> HIDE DEF x
<1>4. ASSUME NEW q, q = [s EXCEPT ![i] = x]
      PROVE  /\ q \in Seq(Content) /\ Len(q) = Len(s) /\ q[i] = x
             /\ \A k \in 1..Len(s) : k # i => q[k] = s[k]
  BY <1>2, <1>4
<1> QED  BY <1>2, <1>3, <1>4

LEMMA Constructors ==
  /\ Link \in Content /\ Idle.at = "idle" /\ Idle.old = None /\ Idle.backup = None
  /\ \A v \in 0..MaxVersion, t \in SUBSET (1..MaxWrites) : File(v, t) \in Content
  /\ Idle.at \in States /\ Idle.op = "noop" /\ Idle.bytes = Link
BY VersionAssumption DEF Link, Content, Idle, File, States

LEMMA IdleTyped == Idle \in Job /\ Grip(Idle)
<1>1. Idle \in Job
  BY Constructors, VersionAssumption DEF Idle, Job, States, Versions
<1> QED  BY <1>1 DEF Grip, Idle

LEMMA TypeInit == Init => TypeInv
<1> SUFFICES ASSUME Init PROVE TypeInv  OBVIOUS
<1>1. \A c \in Commands : job[c] = Idle
  BY DEF Init
<1>2. job \in [Commands -> Job] /\ \A c \in Commands : Grip(job[c])
  BY <1>1, IdleTyped DEF Init
<1>3. data \in Seq(Content) /\ {dest, open} \subseteq Inodes \cup {None} /\ record \in Versions \cup {None}
  <2>1. CASE data = << >> /\ dest = None /\ record = None
    BY <2>1 DEF Init
  <2>2. CASE data = <<IF mode = "copy" THEN File(1, {}) ELSE Link>> /\ dest = 1 /\ record = 1
    <3>1. (IF mode = "copy" THEN File(1, {}) ELSE Link) \in Content
      BY Constructors, VersionAssumption
    <3>2. data \in Seq(Content) /\ Len(data) = 1
      BY <2>2, <3>1
    <3> QED  BY <2>2, <3>2, VersionAssumption DEF Init, Inodes, Versions
  <2> QED  BY <2>1, <2>2 DEF Init
<1>4. /\ mode \in {"copy", "link"} /\ profile \in BOOLEAN /\ links \in BOOLEAN
      /\ selected \in BOOLEAN /\ hole \in BOOLEAN
  BY DEF Init
<1> QED  BY <1>2, <1>3, <1>4, VersionAssumption, LimitAssumption DEF Init, TypeInv, TypeOK, Versions

(* What a command does to its own state and to the paths.                  *)
LEMMA TypeFrame ==
  ASSUME TypeInv, NEW c \in Commands, NEW j, job' = [job EXCEPT ![c] = j],
         data' \in Seq(Content), Len(data') >= Len(data),
         j \in Job', Grip(j), dest' \in Inodes' \cup {None}, kept' \subseteq Inodes',
         record' \in Versions \cup {None}, hole' \in BOOLEAN,
         UNCHANGED <<setVars, catVars, userVars>>,
         applies' \in 0..MaxApplies, troubles' \in 0..MaxTroubles
  PROVE  TypeInv'
<1>1. Inodes \subseteq Inodes'
  BY DEF Inodes, TypeInv, TypeOK
<1>2. Job \subseteq Job'
  BY <1>1 DEF Job
<1>3. job' \in [Commands -> Job']
  BY <1>2 DEF TypeInv, TypeOK
<1>4. UNCHANGED <<mode, profile, links, source, selected, toggles, open, writes, written>>
  BY DEF setVars, catVars, userVars
<1>5. {dest, open}' \subseteq Inodes' \cup {None}
  BY <1>1, <1>4 DEF TypeInv, TypeOK
<1>6. \A d \in Commands : Grip(job[d])'
  BY <1>4 DEF TypeInv, TypeOK, Grip
<1> QED  BY <1>3, <1>4, <1>5, <1>6 DEF TypeInv, TypeOK

LEMMA TypeGoto ==
  ASSUME TypeInv, NEW c \in Commands, NEW place \in States, Goto(c, place),
         Grip([job[c] EXCEPT !.at = place]),
         UNCHANGED <<data, kept, record, setVars, catVars, userVars, applies>>,
         dest' \in {dest, None}, hole' \in BOOLEAN, troubles' \in 0..MaxTroubles
  PROVE  TypeInv'
<1>1. [job[c] EXCEPT !.at = place] \in Job
  BY DEF TypeInv, TypeOK, Job
<1>2. Inodes' = Inodes /\ Job' = Job
  BY DEF Inodes, Job
<1>3. Len(data) >= Len(data)
  BY DEF TypeInv, TypeOK
<1>4. job' = [job EXCEPT ![c] = [job[c] EXCEPT !.at = place]]
  BY DEF Goto
<1> QED  BY <1>1, <1>2, <1>3, <1>4, TypeFrame DEF TypeInv, TypeOK

LEMMA TypeEnds ==
  ASSUME TypeInv, NEW c \in Commands, Ends(c),
         UNCHANGED <<data, setVars, catVars, userVars, applies>>,
         dest' \in {dest, None}, kept' \subseteq Inodes, record' \in Versions \cup {None},
         hole' \in BOOLEAN, troubles' \in 0..MaxTroubles
  PROVE  TypeInv'
<1>1. Inodes' = Inodes /\ Job' = Job
  BY DEF Inodes, Job
<1>2. Len(data) >= Len(data)
  BY DEF TypeInv, TypeOK
<1> QED  BY <1>1, <1>2, IdleTyped, TypeFrame DEF Ends, TypeInv, TypeOK

LEMMA TypeDone ==
  ASSUME TypeInv, NEW c \in Commands, Done(c), job[c].old = None,
         UNCHANGED <<data, kept, record>>, Quiet, dest' \in {dest, None}, hole' \in BOOLEAN
  PROVE  TypeInv'
<1> DEFINE j == [job[c] EXCEPT !.at = "record", !.had = None, !.seen = None, !.bytes = Link,
                               !.backup = None, !.new = None]
<1>1. j \in Job
  <2>1. Link \in Content /\ "record" \in States
    BY Constructors DEF States
  <2>2. job[c] \in Job
    BY DEF TypeInv, TypeOK
  <2> QED  BY <2>1, <2>2 DEF Job
<1>2. j.at = "record" /\ j.old = None /\ j.backup = None
  BY DEF TypeInv, TypeOK, Job
<1>3. Grip(j)
  BY <1>2 DEF Grip
<1>4. Inodes' = Inodes /\ Job' = Job
  BY DEF Inodes, Job
<1>5. Len(data) >= Len(data)
  BY DEF TypeInv, TypeOK
<1>6. job' = [job EXCEPT ![c] = j]
  BY DEF Done
<1> HIDE DEF j
<1> QED  BY <1>1, <1>3, <1>4, <1>5, <1>6, TypeFrame DEF Quiet, TypeInv, TypeOK

(* What users and products do.                                             *)
LEMMA TypeOutside ==
  ASSUME TypeInv, UNCHANGED <<job, record, setVars, applies, troubles>>,
         source' \in Versions, selected' \in BOOLEAN, toggles' \in 0..MaxToggles,
         data' \in Seq(Content), Len(data') >= Len(data),
         {dest, open}' \subseteq Inodes' \cup {None}, kept' \subseteq Inodes', hole' \in BOOLEAN,
         writes' \in 0..MaxWrites, written' \subseteq 1..writes'
  PROVE  TypeInv'
<1>1. Inodes \subseteq Inodes'
  BY DEF Inodes, TypeInv, TypeOK
<1>2. Job \subseteq Job'
  BY <1>1 DEF Job
<1>3. UNCHANGED <<mode, profile, links, job, record, applies, troubles>>
  BY DEF setVars
<1>4. job' \in [Commands -> Job']
  BY <1>2, <1>3 DEF TypeInv, TypeOK
<1>5. \A c \in Commands : Grip(job[c])'
  BY <1>3 DEF TypeInv, Grip
<1> QED  BY <1>3, <1>4, <1>5 DEF TypeInv, TypeOK

LEMMA TypeUser == TypeInv /\ User => TypeInv'
<1> SUFFICES ASSUME TypeInv, User PROVE TypeInv'  OBVIOUS
<1>t. TypeOK
  BY DEF TypeInv
<1>w. writes \in Nat /\ written \subseteq 1..writes /\ Len(data) \in Nat /\ data \in Seq(Content)
  BY <1>t, LimitAssumption DEF TypeOK
<1>i. ASSUME UNCHANGED data PROVE Inodes' = Inodes
  BY <1>i DEF Inodes
<1>1. CASE EditSource
  <2>1. source' \in Versions
    BY <1>t, <1>1, VersionAssumption DEF EditSource, TypeOK, Versions
  <2> QED  BY <1>t, <1>w, <1>1, <1>i, <2>1, TypeOutside
         DEF EditSource, TypeOK, pathVars, userVars
<1>2. CASE Toggle
  <2>1. toggles' \in 0..MaxToggles /\ selected' \in BOOLEAN
    BY <1>t, <1>2, LimitAssumption DEF Toggle, TypeOK
  <2> QED  BY <1>t, <1>w, <1>2, <1>i, <2>1, TypeOutside DEF Toggle, TypeOK, pathVars, userVars
<1>3. CASE Open
  BY <1>t, <1>w, <1>3, <1>i, TypeOutside DEF Open, Outside, TypeOK, pathVars, catVars
<1>4. ASSUME Write
      PROVE  /\ writes' \in 0..MaxWrites /\ writes' \in 1..MaxWrites
             /\ 1..writes \subseteq 1..writes' /\ writes' \in 1..writes'
  BY <1>t, <1>4, LimitAssumption DEF Write, TypeOK
<1>5. CASE InPlace
  <2>a. PICK i \in {dest, open} \ {None} : \E t \in {data[i].text, 0} : WriteTo(i, t)
    BY <1>5 DEF InPlace
  <2>1. PICK t \in {data[i].text, 0} : WriteTo(i, t)
    BY <2>a
  <2>2. i \in 1..Len(data)
    BY <1>t DEF TypeOK, Inodes
  <2>3. data[i] \in Content
    BY <1>w, <2>2
  <2>4. t \in 0..MaxVersion
    BY <2>3, VersionAssumption DEF Content
  <2>5. /\ data' = [data EXCEPT ![i].text = t, ![i].tail = @ \cup {writes'}]
        /\ written' \in {written, written \cup {writes'}}
        /\ Write /\ Outside /\ UNCHANGED <<dest, kept, hole, open>>
    BY <2>1 DEF WriteTo
  <2>6. data' \in Seq(Content) /\ Len(data') = Len(data)
    <3>1. writes' \in 1..MaxWrites
      BY <1>4, <2>5
    <3>2. data' = Overwrite(data, i, t, writes')
      BY <2>5 DEF Overwrite
    <3> QED  BY <1>w, <2>2, <2>4, <3>1, <3>2, Overwritten
  <2>7. written' \subseteq 1..writes'
    BY <1>w, <1>4, <2>5
  <2>8. Inodes' = Inodes /\ Len(data') >= Len(data)
    BY <1>w, <2>6 DEF Inodes
  <2> QED  BY <1>t, <1>4, <2>5, <2>6, <2>7, <2>8, TypeOutside DEF Outside, TypeOK, catVars
<1>6. ASSUME NEW k \in {"file", "link"}, Replace(k) PROVE TypeInv'
  <2>1. /\ Write /\ data' = Append(data, [kind |-> k, text |-> 0, tail |-> {writes'}])
        /\ dest' = Len(data) + 1 /\ kept' = kept /\ Outside
        /\ open' \in {open, None} /\ hole' = FALSE
        /\ written' \subseteq written \cup {writes'}
    BY <1>6 DEF Replace, Forgets, Fresh
  <2>2. [kind |-> k, text |-> 0, tail |-> {writes'}] \in Content
    BY <1>4, <2>1, VersionAssumption DEF Content
  <2>3. data' \in Seq(Content) /\ Len(data') = Len(data) + 1
    BY <1>w, <2>1, <2>2, Appended
  <2>4. Inodes \subseteq Inodes' /\ dest' \in Inodes' /\ Len(data') >= Len(data)
    BY <1>w, <2>1, <2>3 DEF Inodes
  <2>5. written' \subseteq 1..writes'
    BY <1>w, <1>4, <2>1
  <2>6. {dest, open}' \subseteq Inodes' \cup {None} /\ kept' \subseteq Inodes'
    BY <1>t, <2>1, <2>4 DEF TypeOK
  <2> QED  BY <1>t, <1>4, <2>1, <2>3, <2>4, <2>5, <2>6, TypeOutside DEF Outside, TypeOK, catVars
<1>7. CASE Delete
  <2>1. /\ Write /\ dest' = None /\ open' \in {open, None} /\ hole' = FALSE /\ Outside
        /\ UNCHANGED <<data, kept>> /\ written' \subseteq written
    BY <1>7 DEF Delete, Forgets
  <2>2. Inodes' = Inodes /\ written' \subseteq 1..writes'
    BY <1>w, <1>4, <1>i, <2>1
  <2>3. data' \in Seq(Content) /\ Len(data') >= Len(data)
    BY <1>w, <2>1
  <2>4. {dest, open}' \subseteq Inodes' \cup {None} /\ kept' \subseteq Inodes' /\ hole' \in BOOLEAN
    BY <1>t, <2>1, <2>2 DEF TypeOK
  <2> QED  BY <1>t, <1>4, <2>1, <2>2, <2>3, <2>4, TypeOutside DEF Outside, TypeOK, catVars
<1> QED  BY <1>1, <1>2, <1>3, <1>5, <1>6, <1>7 DEF User

(* The commands.                                                           *)
LEMMA TypeCommand ==
  ASSUME TypeInv, NEW c \in Commands, Update(c) \/ Fails(c) \/ Crash(c)
  PROVE  TypeInv'
<1>t. /\ TypeOK /\ Grip(job[c]) /\ job[c] \in Job /\ data \in Seq(Content) /\ Len(data) \in Nat
      /\ \A i \in Inodes : data[i] \in Content
  BY DEF TypeInv, TypeOK, Inodes
<1>i. ASSUME UNCHANGED data
      PROVE  Inodes' = Inodes /\ Job' = Job /\ data' \in Seq(Content) /\ Len(data') >= Len(data)
  BY <1>t, <1>i DEF Inodes, Job
<1>g. ASSUME Inside \/ (Quiet /\ UNCHANGED <<data, dest, kept, hole, record>>)
      PROVE  /\ UNCHANGED <<data, dest, kept, record, setVars, catVars, userVars, applies>>
             /\ dest' \in {dest, None} /\ kept' \subseteq Inodes
             /\ record' \in Versions \cup {None} /\ hole' \in BOOLEAN
             /\ troubles' \in 0..MaxTroubles
  BY <1>t, <1>g DEF Inside, Quiet, pathVars, TypeOK
<1>e. ASSUME Inside, Ends(c) PROVE TypeInv'
  BY <1>e, <1>g, TypeEnds
<1>p. \A place \in States :
        LET j == [job[c] EXCEPT !.at = place]
        IN j.at = place /\ j.op = job[c].op /\ j.old = job[c].old /\ j.backup = job[c].backup
  BY <1>t DEF Job
<1>o. job[c].op \in {"noop", "create", "update", "remove"} /\ mode \in {"copy", "link"}
  BY <1>t DEF Job, TypeOK
<1>1. CASE Plan(c)
  <2> DEFINE a == IF Planned = "noop" THEN "record" ELSE "begin"
             j == [Idle EXCEPT !.at = a, !.op = Planned, !.want = source, !.had = record,
                               !.keep = selected]
  <2>1. Planned \in {"noop", "create", "update", "remove", "conflict"}
    BY DEF Planned, PlannedCopy, PlannedLink, PlannedRemoval
  <2>2. j \in Job /\ j.at \in {"record", "begin"} /\ j.old = None /\ j.backup = None
    <3>1. Planned \in {"noop", "create", "update", "remove"}
      BY <1>1, <2>1 DEF Plan
    <3>2. source \in Versions /\ record \in Versions \cup {None} /\ selected \in BOOLEAN
      BY <1>t DEF TypeOK
    <3>3. a \in {"record", "begin"} /\ a \in States
      BY DEF States
    <3>4. Idle \in Job /\ Idle.old = None /\ Idle.backup = None
      BY IdleTyped, Constructors
    <3> HIDE DEF a
    <3>5. j \in Job
      BY <3>1, <3>2, <3>3, <3>4 DEF Job
    <3>6. j.at = a /\ j.old = Idle.old /\ j.backup = Idle.backup
      BY <3>4 DEF Job
    <3> QED  BY <3>3, <3>4, <3>5, <3>6
  <2>3. Grip(j)
    BY <2>2 DEF Grip
  <2>4. job' = [job EXCEPT ![c] = j]
    BY <1>1 DEF Plan
  <2>5. /\ applies' \in 0..MaxApplies
        /\ UNCHANGED <<setVars, catVars, userVars, troubles, data, dest, kept, hole, record>>
    BY <1>t, <1>1, LimitAssumption DEF Plan, pathVars, TypeOK
  <2> HIDE DEF j
  <2> QED  BY <1>t, <1>i, <2>2, <2>3, <2>4, <2>5, TypeFrame DEF TypeOK
<1>2. CASE BeginCreate(c)
  <2>1. CASE Goto(c, "install")
    <3>1. Grip([job[c] EXCEPT !.at = "install"])
      BY <1>t, <1>2, <1>p DEF BeginCreate, At, Grip, States, Holding
    <3> QED  BY <1>2, <1>g, <2>1, <3>1, TypeGoto DEF BeginCreate, States
  <2>2. CASE Ends(c)
    BY <1>2, <1>e, <2>2 DEF BeginCreate
  <2> QED  BY <1>2, <2>1, <2>2 DEF BeginCreate
<1>3. CASE Observe(c)
  <2>1. CASE Ends(c)
    BY <1>3, <1>e, <2>1 DEF Observe
  <2>2. CASE ~Ends(c)
    <3> DEFINE j == [job[c] EXCEPT !.at = "recheck", !.seen = dest, !.bytes = data[dest]]
    <3>1. dest \in Inodes /\ job' = [job EXCEPT ![c] = j]
      BY <1>t, <1>3, <2>2 DEF Observe, TypeOK
    <3>2. j \in Job /\ j.at = "recheck" /\ j.op = job[c].op /\ j.old = job[c].old
          /\ j.backup = job[c].backup
      BY <1>t, <3>1 DEF Job, States
    <3>3. Grip(j)
      BY <1>t, <1>3, <3>2 DEF Observe, At, Grip, Holding
    <3> HIDE DEF j
    <3> QED  BY <1>t, <1>3, <1>g, <1>i, <3>1, <3>2, <3>3, TypeFrame DEF Observe, TypeOK
  <2> QED  BY <2>1, <2>2
<1>4. CASE Recheck(c)
  <2>1. Grip([job[c] EXCEPT !.at = "displace"])
    BY <1>t, <1>4, <1>p DEF Recheck, At, Grip, States, Holding
  <2> QED  BY <1>4, <1>e, <1>g, <2>1, TypeGoto DEF Recheck, States
<1>5. CASE Displace(c)
  <2>1. /\ UNCHANGED <<data, kept, record, setVars, catVars, userVars, applies, troubles>>
        /\ dest' = None /\ job[c].at = "displace"
    BY <1>5 DEF Displace, Quiet, At
  <2>2. hole' \in BOOLEAN
    BY <1>5 DEF Displace
  <2>3. CASE dest = None
    <3>1. Grip([job[c] EXCEPT !.at = "recover"])
      BY <1>t, <1>p, <2>1 DEF Grip, States, Holding
    <3> QED  BY <1>t, <1>5, <2>1, <2>2, <2>3, <3>1, TypeGoto DEF Displace, States, TypeOK
  <2>4. CASE dest # None
    <3> DEFINE j == [job[c] EXCEPT !.at = "verify", !.old = dest]
    <3>1. job' = [job EXCEPT ![c] = j] /\ dest \in Inodes
      BY <1>t, <1>5, <2>4 DEF Displace, TypeOK
    <3>2. j \in Job /\ j.at = "verify" /\ j.op = job[c].op /\ j.old = dest
          /\ j.backup = job[c].backup
      BY <1>t, <3>1 DEF Job, States
    <3>m. mode = "copy"
      BY <1>t, <2>1 DEF Grip
    <3>3. Grip(j)
      BY <1>t, <2>1, <2>4, <3>2, <3>m DEF Grip, Holding
    <3> HIDE DEF j
    <3> QED  BY <1>t, <1>i, <2>1, <2>2, <3>1, <3>2, <3>3, TypeFrame DEF TypeOK
  <2> QED  BY <2>3, <2>4
<1>6. CASE Verify(c)
  <2>1. \A place \in {"retain", "recover"} : Grip([job[c] EXCEPT !.at = place])
    BY <1>t, <1>6, <1>p DEF Verify, At, Grip, States, Holding
  <2>2. CASE Goto(c, "retain")
    BY <1>6, <1>g, <2>1, <2>2, TypeGoto DEF Verify, States
  <2>3. CASE Goto(c, "recover")
    BY <1>6, <1>g, <2>1, <2>3, TypeGoto DEF Verify, States
  <2> QED  BY <1>6, <2>2, <2>3 DEF Verify
<1>7. CASE Retain(c)
  <2>1. job[c].at = "retain" /\ job[c].old # None /\ job[c].old \in Inodes
    BY <1>t, <1>7 DEF Retain, At, Grip, Job
  <2>2. /\ data' \in Seq(Content) /\ Len(data') >= Len(data)
        /\ Inodes \subseteq Inodes' /\ Twin(job[c].old) \in Inodes'
    <3>1. CASE links
      BY <1>t, <1>7, <2>1, <3>1 DEF Retain, Twin, WithTwin, Inodes
    <3>2. CASE ~links
      <4>1. data' = Append(data, data[job[c].old]) /\ Twin(job[c].old) = Len(data) + 1
        BY <1>7, <3>2 DEF Retain, WithTwin, Twin, Fresh
      <4>2. data' \in Seq(Content) /\ Len(data') = Len(data) + 1
        BY <1>t, <2>1, <4>1, Appended
      <4> QED  BY <1>t, <4>1, <4>2 DEF Inodes
    <3> QED  BY <3>1, <3>2
  <2>3. PICK place \in {"recover", "install", "check"} :
          job' = [job EXCEPT ![c] = [job[c] EXCEPT !.at = place, !.backup = Twin(job[c].old)]]
    BY <1>t, <1>7 DEF Retain, TypeOK
  <2> DEFINE j == [job[c] EXCEPT !.at = place, !.backup = Twin(job[c].old)]
  <2>4. j \in Job' /\ j.at = place /\ j.op = job[c].op /\ j.old = job[c].old
        /\ j.backup = Twin(job[c].old)
    BY <1>t, <2>2 DEF Job, States
  <2>5. Twin(job[c].old) # None
    BY <1>t, <2>1, NoneAssumption DEF Twin, Fresh
  <2>6. Grip(j)
    BY <1>t, <2>1, <2>4, <2>5 DEF Grip, Holding
  <2>7. /\ kept' \subseteq Inodes' /\ dest' \in Inodes' \cup {None} /\ hole' \in BOOLEAN
        /\ record' \in Versions \cup {None} /\ UNCHANGED <<setVars, catVars, userVars>>
        /\ applies' \in 0..MaxApplies /\ troubles' \in 0..MaxTroubles
    BY <1>t, <1>7, <2>2 DEF Retain, Quiet, TypeOK
  <2> HIDE DEF j
  <2> QED  BY <2>2, <2>3, <2>4, <2>6, <2>7, TypeFrame DEF j
<1>r. ASSUME job[c].at \in {"install", "retain", "unlink"}, job[c].at = "unlink" => mode = "copy",
             Refused(c), Quiet \/ troubles' \in 0..MaxTroubles,
             UNCHANGED <<setVars, catVars, pathVars, record, userVars, applies>>
      PROVE  TypeInv'
  <2>1. /\ UNCHANGED <<data, dest, kept, hole>> /\ troubles' \in 0..MaxTroubles
    BY <1>t, <1>r DEF pathVars, Quiet, TypeOK
  <2>2. CASE job[c].op = "create"
    BY <1>t, <1>r, <2>1, <2>2, TypeEnds DEF Refused, TypeOK
  <2>3. CASE job[c].op # "create"
    <3>1. Grip([job[c] EXCEPT !.at = "recover"])
      BY <1>t, <1>r, <1>p, <2>3 DEF Grip, States, Holding
    <3> QED  BY <1>t, <1>r, <2>1, <2>3, <3>1, TypeGoto DEF Refused, States, TypeOK
  <2> QED  BY <2>2, <2>3
<1>8. CASE Install(c)
  <2>1. CASE dest # None
    BY <1>8, <1>r, <2>1 DEF Install, At, Quiet
  <2>2. CASE dest = None
    <3>1. /\ data' = Append(data, Staged(c)) /\ dest' = Len(data) + 1 /\ hole' = FALSE
          /\ UNCHANGED <<kept, record>> /\ Quiet /\ job[c].at = "install"
          /\ job' = [job EXCEPT ![c] = [job[c] EXCEPT !.at = "check", !.new = Len(data) + 1]]
      BY <1>t, <1>8, <2>2 DEF Install, Fresh, At, TypeOK
    <3>2. job[c].bytes.tail \in SUBSET (1..MaxWrites) /\ job[c].want \in 0..MaxVersion
      BY <1>t, VersionAssumption DEF Job, Content, Versions
    <3>3. Staged(c) \in Content
      BY <3>2, Constructors DEF Staged
    <3>4. data' \in Seq(Content) /\ Len(data') = Len(data) + 1
      BY <1>t, <3>1, <3>3, Appended
    <3>5. Inodes \subseteq Inodes' /\ Len(data) + 1 \in Inodes' /\ Len(data') >= Len(data)
      BY <1>t, <3>4 DEF Inodes
    <3> DEFINE j == [job[c] EXCEPT !.at = "check", !.new = Len(data) + 1]
    <3>6. j \in Job' /\ j.at = "check" /\ j.op = job[c].op /\ j.old = job[c].old
          /\ j.backup = job[c].backup
      BY <1>t, <3>5 DEF Job, States
    <3>7. Grip(j)
      BY <1>t, <3>1, <3>6 DEF Grip, Holding
    <3> HIDE DEF j
    <3>8. kept' \subseteq Inodes' /\ dest' \in Inodes'
      BY <1>t, <3>1, <3>5 DEF TypeOK
    <3> QED  BY <1>t, <3>1, <3>4, <3>5, <3>6, <3>7, <3>8, TypeFrame DEF j, Quiet, TypeOK
  <2> QED  BY <2>1, <2>2
<1>9. CASE CheckCreated(c)
  <2>1. job[c].old = None
    BY <1>t, <1>9 DEF CheckCreated, Grip
  <2> QED  BY <1>9, <1>e, <1>g, <2>1, TypeDone DEF CheckCreated, Inside
<1>10. CASE Check(c)
  <2>1. \A place \in {"unlink", "recover"} : Grip([job[c] EXCEPT !.at = place])
    BY <1>t, <1>10, <1>p DEF Check, At, Grip, States, Holding
  <2>2. CASE Goto(c, "unlink")
    BY <1>10, <1>g, <2>1, <2>2, TypeGoto DEF Check, States
  <2>3. CASE Goto(c, "recover")
    BY <1>10, <1>g, <2>1, <2>3, TypeGoto DEF Check, States
  <2> QED  BY <1>10, <2>2, <2>3 DEF Check
<1>11. CASE Unlink(c)
  <2> DEFINE j == [job[c] EXCEPT !.at = "final", !.old = None]
  <2>1. job' = [job EXCEPT ![c] = j]
    BY <1>t, <1>11 DEF Unlink, TypeOK
  <2>2. j \in Job /\ j.at = "final" /\ j.op = job[c].op /\ j.old = None /\ j.backup = job[c].backup
    BY <1>t DEF Job, States
  <2>3. Grip(j)
    BY <1>t, <1>11, <2>2 DEF Unlink, At, Grip, Holding
  <2> HIDE DEF j
  <2> QED  BY <1>t, <1>11, <1>g, <1>i, <2>1, <2>2, <2>3, TypeFrame DEF Unlink, TypeOK
<1>12. CASE Final(c)
  <2>1. hole' \in BOOLEAN /\ job[c].at = "final"
    BY <1>12 DEF Final, At
  <2>2. UNCHANGED <<data, dest, kept, record>> /\ Quiet
    BY <1>12 DEF Final
  <2>3. CASE Done(c)
    <3>1. job[c].old = None
      BY <1>t, <2>1 DEF Grip, Holding
    <3> QED  BY <2>1, <2>2, <2>3, <3>1, TypeDone
  <2>4. CASE Goto(c, "recover")
    <3>1. Grip([job[c] EXCEPT !.at = "recover"])
      BY <1>t, <1>p, <2>1 DEF Grip, States, Holding
    <3> QED  BY <1>t, <2>1, <2>2, <2>4, <3>1, TypeGoto DEF States, Quiet, TypeOK
  <2> QED  BY <1>12, <2>3, <2>4 DEF Final
<1>13. CASE Recover(c)
  <2>1. Ends(c) /\ kept' = Left(c) /\ Left(c) \subseteq Inodes /\ Quiet /\ record' = record
    BY <1>t, <1>13 DEF Recover, Left, TypeOK, Job
  <2>2. hole' \in BOOLEAN
    BY <1>13 DEF Recover
  <2>3. CASE ~Restores(c)
    BY <1>t, <1>13, <2>1, <2>2, <2>3, TypeEnds DEF Recover, Quiet, TypeOK
  <2>4. CASE Restores(c)
    <3>1. Candidate(c) \in Inodes
      BY <1>t, <2>4 DEF Restores, Candidate, Job
    <3>2. /\ data' \in Seq(Content) /\ Len(data') >= Len(data)
          /\ Inodes \subseteq Inodes' /\ dest' \in Inodes'
      <4>1. CASE links
        BY <1>t, <1>13, <2>4, <3>1, <4>1 DEF Recover, Twin, WithTwin, Inodes
      <4>2. CASE ~links
        <5>1. data' = Append(data, data[Candidate(c)]) /\ dest' = Len(data) + 1
          BY <1>13, <2>4, <4>2 DEF Recover, WithTwin, Twin, Fresh
        <5>2. data' \in Seq(Content) /\ Len(data') = Len(data) + 1
          BY <1>t, <3>1, <5>1, Appended
        <5> QED  BY <1>t, <5>1, <5>2 DEF Inodes
      <4> QED  BY <4>1, <4>2
    <3>3. kept' \subseteq Inodes' /\ Job \subseteq Job'
      BY <2>1, <3>2 DEF Job
    <3> QED  BY <1>t, <2>1, <2>2, <3>2, <3>3, IdleTyped, TypeFrame DEF Ends, Quiet, TypeOK
  <2> QED  BY <2>3, <2>4
<1>14. CASE CompareLink(c)
  <2>1. Grip([job[c] EXCEPT !.at = "unlink"])
    BY <1>t, <1>14, <1>p DEF CompareLink, At, Grip, States, Holding
  <2> QED  BY <1>14, <1>e, <1>g, <2>1, TypeGoto DEF CompareLink, States
<1>15. CASE UnlinkLink(c)
  <2>1. /\ UNCHANGED <<data, kept, hole, record>> /\ Quiet /\ dest' = None /\ job[c].old = None
    BY <1>t, <1>15 DEF UnlinkLink, Grip
  <2>2. CASE Done(c)
    BY <1>t, <2>1, <2>2, TypeDone DEF TypeOK
  <2>3. CASE Ends(c)
    BY <1>t, <2>1, <2>3, TypeEnds DEF Quiet, TypeOK
  <2> QED  BY <1>15, <2>2, <2>3 DEF UnlinkLink
<1>16. CASE Record(c)
  <2>1. record' \in Versions \cup {None}
    BY <1>t, <1>16, VersionAssumption DEF Record, TypeOK, Versions
  <2> QED  BY <1>t, <1>16, <2>1, TypeEnds DEF Record, Quiet, pathVars, TypeOK
<1>17. ASSUME Trouble PROVE troubles' \in 0..MaxTroubles
  BY <1>t, <1>17, LimitAssumption DEF Trouble, TypeOK
<1>18. CASE Fails(c)
  BY <1>17, <1>18, <1>r DEF Fails
<1>19. CASE Crash(c)
  <2>1. kept' \subseteq Inodes
    BY <1>t, <1>19 DEF Crash, Left, TypeOK, Job
  <2>2. hole' \in BOOLEAN
    BY <1>19 DEF Crash
  <2> QED  BY <1>t, <1>17, <1>19, <2>1, <2>2, TypeEnds DEF Crash, TypeOK
<1> QED
  BY <1>1, <1>2, <1>3, <1>4, <1>5, <1>6, <1>7, <1>8, <1>9, <1>10, <1>11, <1>12, <1>13, <1>14,
     <1>15, <1>16, <1>18, <1>19 DEF Update

LEMMA TypeStep == TypeInv /\ [Next]_vars => TypeInv'
<1>1. ASSUME TypeInv, UNCHANGED vars PROVE TypeInv'
  <2>1. Inodes' = Inodes /\ Job' = Job /\ Len(data) \in Nat
    BY <1>1 DEF vars, pathVars, Inodes, Job, TypeInv, TypeOK
  <2>2. UNCHANGED <<job, record, setVars, applies, troubles, source, selected, toggles, data,
                    dest, open, kept, hole, writes, written>>
    BY <1>1 DEF vars, catVars, pathVars, userVars
  <2>3. Len(data') >= Len(data)
    BY <2>1, <2>2
  <2> QED  BY <1>1, <2>1, <2>2, <2>3, TypeOutside DEF TypeInv, TypeOK
<1> QED  BY <1>1, TypeUser, TypeCommand DEF Next

(* Every variable stays in its type, and every inode that is named, seen or *)
(* restored from exists.                                                   *)
THEOREM TypeCorrect == Spec => []TypeOK
<1>1. TypeInv => TypeOK  BY DEF TypeInv
<1> QED  BY <1>1, TypeInit, TypeStep, PTL DEF Spec

-----------------------------------------------------------------------------
(* The path of a displaced file.  While it is empty, somebody holds what     *)
(* goes back there.                                                         *)

PathInv == hole => dest = None /\ \E c \in Commands : Candidate(c) # None

LEMMA PathInit == Init => PathInv
BY DEF Init, PathInv

LEMMA PathStep == TypeInv /\ PathInv /\ [Next]_vars => PathInv'
<1> SUFFICES ASSUME TypeInv, PathInv, [Next]_vars PROVE PathInv'  OBVIOUS
<1>1. ASSUME UNCHANGED job PROVE \A c \in Commands : Candidate(c)' = Candidate(c)
  BY <1>1 DEF Candidate
<1>2. CASE User
  BY <1>1, <1>2
     DEF User, EditSource, Toggle, Open, InPlace, WriteTo, Delete, Replace, Forgets, Outside,
         pathVars, PathInv
<1>3. CASE UNCHANGED vars
  BY <1>1, <1>3 DEF vars, pathVars, PathInv
<1>4. ASSUME NEW c \in Commands, Update(c) \/ Fails(c) \/ Crash(c) PROVE PathInv'
  <2>t. /\ Grip(job[c]) /\ job[c] \in Job /\ job \in [Commands -> Job] /\ data \in Seq(Content)
        /\ \A i \in Inodes : data[i] \in Content
    BY DEF TypeInv, TypeOK, Inodes
  <2>1. ASSUME NEW j, job' = [job EXCEPT ![c] = j],
               (j.old = None /\ j.backup = None) => Candidate(c) = None,
               hole' => hole, dest' \in {dest, None}
        PROVE  PathInv'
    <3> SUFFICES ASSUME hole PROVE dest' = None /\ \E d \in Commands : Candidate(d)' # None
      BY <2>1 DEF PathInv
    <3>1. PICK d \in Commands : Candidate(d) # None
      BY DEF PathInv
    <3>2. CASE d = c
      <4>1. job'[c] = j
        BY <2>1, <2>t
      <4> QED  BY <2>1, <3>1, <3>2, <4>1 DEF PathInv, Candidate
    <3>3. CASE d # c
      <4>1. job'[d] = job[d]
        BY <2>1, <2>t, <3>3
      <4> QED  BY <2>1, <3>1, <4>1 DEF PathInv, Candidate
    <3> QED  BY <3>2, <3>3
  <2>g. ASSUME NEW place \in States, Goto(c, place), hole' => hole, dest' \in {dest, None}
        PROVE  PathInv'
    <3>1. [job[c] EXCEPT !.at = place].old = job[c].old
          /\ [job[c] EXCEPT !.at = place].backup = job[c].backup
      BY <2>t DEF Job
    <3> QED  BY <2>1, <2>g, <3>1 DEF Goto, Candidate
  <2>e. ASSUME Ends(c), Candidate(c) = None, hole' => hole, dest' \in {dest, None}
        PROVE  PathInv'
    BY <2>1, <2>e DEF Ends
  <2>n. job[c].at \notin Holding \cup {"final"} \/ job[c].op = "create" \/ mode # "copy"
          => Candidate(c) = None
    BY <2>t DEF Grip, Candidate
  <2>i. Inside => (hole' => hole) /\ dest' \in {dest, None}
    BY DEF Inside, pathVars
  <2>2. CASE Plan(c)
    BY <2>1, <2>2, <2>n DEF Plan, At, Holding, pathVars
  <2>3. CASE BeginCreate(c)
    BY <2>3, <2>e, <2>g, <2>i, <2>n DEF BeginCreate, At, Holding, States
  <2>4. CASE Observe(c) \/ Recheck(c) \/ CompareLink(c)
    <3>1. Candidate(c) = None
      BY <2>4, <2>n DEF Observe, Recheck, CompareLink, At, Holding
    <3>2. PICK j : job' = [job EXCEPT ![c] = j]
      BY <2>4 DEF Observe, Recheck, CompareLink, Goto, Ends
    <3> QED  BY <2>1, <2>4, <2>i, <3>1, <3>2 DEF Observe, Recheck, CompareLink
  <2>5. CASE Displace(c)
    <3>1. CASE dest = None
      BY <2>5, <2>g, <3>1 DEF Displace, States
    <3>2. CASE dest # None
      <4>1. job'[c].old = dest
        BY <2>5, <2>t, <3>2 DEF Displace, Job
      <4> QED  BY <2>5, <3>2, <4>1 DEF Displace, PathInv, Candidate
    <3> QED  BY <3>1, <3>2
  <2>6. CASE Verify(c) \/ Check(c)
    <3>1. PICK place \in States : Goto(c, place)
      BY <2>6 DEF Verify, Check, States
    <3> QED  BY <2>6, <2>g, <2>i, <3>1 DEF Verify, Check
  <2>7. CASE Retain(c)
    <3>1. job'[c].old = job[c].old /\ job[c].old # None /\ \A d \in Commands \ {c} : job'[d] = job[d]
      BY <2>7, <2>t DEF Retain, At, Grip, Job
    <3> QED  BY <2>7, <3>1 DEF Retain, PathInv, Candidate
  <2>8. CASE Install(c)
    <3>1. CASE dest # None
      BY <2>8, <3>1 DEF Install, PathInv, pathVars
    <3>2. CASE dest = None
      BY <2>8, <3>2 DEF Install, PathInv
    <3> QED  BY <3>1, <3>2
  <2>9. CASE CheckCreated(c)
    <3>1. Candidate(c) = None
      BY <2>9, <2>n DEF CheckCreated
    <3>2. PICK j : job' = [job EXCEPT ![c] = j]
      BY <2>9 DEF CheckCreated, Done, Ends
    <3> QED  BY <2>1, <2>9, <2>i, <3>1, <3>2 DEF CheckCreated
  <2>10. CASE Unlink(c)
    <3> DEFINE j == [job[c] EXCEPT !.at = "final", !.old = None]
    <3>1. job' = [job EXCEPT ![c] = j]
      BY <2>t, <2>10 DEF Unlink
    <3>2. j.backup = job[c].backup /\ job[c].backup # None
      BY <2>t, <2>10 DEF Unlink, At, Grip, Job
    <3> HIDE DEF j
    <3> QED  BY <2>1, <2>10, <2>i, <3>1, <3>2 DEF Unlink
  <2>11. CASE Final(c)
    <3>1. UNCHANGED dest
      BY <2>11 DEF Final
    <3>2. CASE Goto(c, "recover")
      <4>1. hole' => hole
        BY <2>11 DEF Final
      <4> QED  BY <2>g, <3>1, <3>2, <4>1 DEF States
    <3>3. CASE Done(c)
      <4>1. job'[c].at = "record"
        BY <2>t, <3>3 DEF Done, Job
      <4>2. ~hole'
        BY <2>11, <4>1 DEF Final
      <4> QED  BY <4>2 DEF PathInv
    <3> QED  BY <2>11, <3>2, <3>3 DEF Final
  <2>12. CASE Recover(c)
    <3>1. CASE Restores(c)
      BY <2>12, <3>1 DEF Recover, PathInv
    <3>2. CASE ~Restores(c)
      <4>1. /\ hole' = (hole /\ ~(Candidate(c) # None /\ data[Candidate(c)].kind = "link"))
            /\ dest' = dest /\ Ends(c)
        BY <2>12, <3>2 DEF Recover
      <4>2. CASE hole' /\ Candidate(c) # None
        <5>1. dest = None
          BY <4>1, <4>2 DEF PathInv
        <5>2. Candidate(c) \in Inodes
          BY <2>t, <4>2 DEF Candidate, Job
        <5>3. data[Candidate(c)].kind \in {"file", "link"}
          BY <2>t, <5>2 DEF Content
        <5> QED  BY <3>2, <4>1, <4>2, <5>1, <5>3 DEF Restores
      <4>3. CASE hole' /\ Candidate(c) = None
        BY <2>e, <4>1, <4>3
      <4> QED  BY <4>2, <4>3 DEF PathInv
    <3> QED  BY <3>1, <3>2
  <2>13. CASE UnlinkLink(c)
    <3>1. Candidate(c) = None
      BY <2>13, <2>n DEF UnlinkLink
    <3>2. PICK j : job' = [job EXCEPT ![c] = j]
      BY <2>13 DEF UnlinkLink, Done, Ends
    <3> QED  BY <2>1, <2>13, <3>1, <3>2 DEF UnlinkLink
  <2>14. CASE Record(c)
    BY <2>14, <2>e, <2>n DEF Record, At, Holding, pathVars
  <2>15. CASE Fails(c)
    BY <2>15, <2>e, <2>g, <2>n DEF Fails, Refused, States, pathVars
  <2>16. CASE Crash(c)
    <3>1. /\ dest' = dest /\ (hole' => hole /\ \E d \in Commands \ {c} : job[d].old # None)
          /\ \A d \in Commands \ {c} : job'[d] = job[d]
      BY <2>16, <2>t DEF Crash, Ends
    <3> SUFFICES ASSUME hole' PROVE PathInv'
      BY DEF PathInv
    <3>2. PICK d \in Commands \ {c} : job[d].old # None
      BY <3>1
    <3>3. job'[d].old # None
      BY <3>1, <3>2
    <3> QED  BY <3>1, <3>3 DEF PathInv, Candidate
  <2> QED
    BY <1>4, <2>2, <2>3, <2>4, <2>5, <2>6, <2>7, <2>8, <2>9, <2>10, <2>11, <2>12, <2>13,
       <2>14, <2>15, <2>16 DEF Update
<1> QED  BY <1>2, <1>3, <1>4 DEF Next

(* A command that displaced the live file does not end with an empty path:  *)
(* every exit installs, or recovers from the old file or from the backup    *)
(* (_recover_instruction_update).                                          *)
THEOREM PathKeptCorrect == Spec => []PathKept
<1>1. TypeInv /\ PathInv => PathKept
  BY DEF TypeInv, Grip, PathInv, PathKept, Candidate, At, Holding
<1> QED  BY <1>1, TypeInit, TypeStep, PathInit, PathStep, PTL DEF Spec

-----------------------------------------------------------------------------
(* The steps of a command of copies, by what becomes of the names it holds. *)

Others(c) ==
  /\ UNCHANGED <<mode, links, open, writes, written>>
  /\ \A d \in Commands \ {c} : job'[d] = job[d]

Holds(c) ==
  /\ UNCHANGED <<data, dest, kept>>
  /\ job'[c].old = job[c].old /\ job'[c].backup \in {job[c].backup, None}
  /\ job'[c].bytes \in {job[c].bytes, Link} \cup {data[i] : i \in Inodes}
  /\ job'[c].at = "unlink" => At(c, "check") /\ Same(c, job[c].old) /\ BackupHolds(c)

Drops(c) == UNCHANGED <<data, dest>> /\ kept' = Left(c) /\ job'[c] = Idle

LEMMA Kinds ==
  ASSUME TypeInv, mode = "copy", NEW c \in Commands, Update(c) \/ Fails(c) \/ Crash(c)
  PROVE  /\ Others(c)
         /\ \/ Holds(c) \/ Drops(c) \/ Retain(c) \/ Unlink(c)
            \/ Displace(c) /\ dest # None
            \/ Install(c) /\ dest = None
            \/ Recover(c) /\ Restores(c)
<1>t. /\ Grip(job[c]) /\ job[c] \in Job /\ job \in [Commands -> Job]
  BY DEF TypeInv, TypeOK
<1>1. Others(c)
  <2>1. UNCHANGED <<mode, links, open, writes, written>>
    BY DEF Update, Plan, BeginCreate, Observe, Recheck, Displace, Verify, Retain, Install,
           CheckCreated, Check, Unlink, Final, Recover, CompareLink, UnlinkLink, Record, Fails,
           Crash, Inside, Quiet, setVars, userVars
  <2>2. \E j : job' = [job EXCEPT ![c] = j]
    BY DEF Update, Plan, BeginCreate, Observe, Recheck, Displace, Verify, Retain, Install,
           CheckCreated, Check, Unlink, Final, Recover, CompareLink, UnlinkLink, Record, Fails,
           Crash, Refused, Goto, Ends, Done
  <2> QED  BY <1>t, <2>1, <2>2 DEF Others
<1>g. ASSUME NEW place \in States \ {"unlink"}, Goto(c, place), UNCHANGED <<data, dest, kept>>
      PROVE  Holds(c)
  BY <1>t, <1>g DEF Goto, Holds, Job
<1>e. ASSUME Ends(c), job[c].old = None, UNCHANGED <<data, dest, kept>>
      PROVE  Drops(c)
  BY <1>t, <1>e DEF Ends, Drops, Left
<1>d. ASSUME Done(c), UNCHANGED <<data, dest, kept>> PROVE Holds(c)
  BY <1>t, <1>d DEF Done, Holds, Job
<1>n. job[c].at \notin Holding \/ job[c].op = "create" => job[c].old = None
  BY <1>t DEF Grip
<1>i. Inside => UNCHANGED <<data, dest, kept>>
  BY DEF Inside, pathVars
<1>2. CASE Plan(c)
  <2>1. job[c].old = None /\ UNCHANGED <<data, dest, kept>>
    BY <1>2, <1>n DEF Plan, At, Holding, pathVars
  <2>2. job'[c] = [Idle EXCEPT !.at = IF Planned = "noop" THEN "record" ELSE "begin",
                     !.op = Planned, !.want = source, !.had = record, !.keep = selected]
    BY <1>t, <1>2 DEF Plan
  <2>3. /\ job'[c].old = None /\ job'[c].backup = None /\ job'[c].bytes = Link
        /\ job'[c].at # "unlink"
    BY <2>2 DEF Idle
  <2> QED  BY <1>1, <2>1, <2>3 DEF Holds
<1>3. CASE BeginCreate(c)
  BY <1>1, <1>3, <1>g, <1>e, <1>n, <1>i DEF BeginCreate, At, Holding, States
<1>4. CASE Observe(c)
  <2>1. CASE Ends(c)
    BY <1>1, <1>4, <1>e, <1>n, <1>i, <2>1 DEF Observe, At, Holding
  <2>2. CASE ~Ends(c)
    <3>1. job' = [job EXCEPT ![c] = [job[c] EXCEPT !.at = "recheck", !.seen = dest,
                                                   !.bytes = data[dest]]]
          /\ dest \in Inodes
      BY <1>t, <1>4, <2>2 DEF Observe, TypeInv, TypeOK
    <3>2. job'[c].at = "recheck" /\ job'[c].old = job[c].old /\ job'[c].backup = job[c].backup
          /\ job'[c].bytes = data[dest]
      BY <1>t, <3>1 DEF Job
    <3> QED  BY <1>1, <1>4, <1>i, <3>1, <3>2 DEF Holds, Observe
  <2> QED  BY <2>1, <2>2
<1>5. CASE Recheck(c)
  BY <1>1, <1>5, <1>g, <1>e, <1>n, <1>i DEF Recheck, At, Holding, States
<1>6. CASE Displace(c)
  BY <1>1, <1>6, <1>g DEF Displace, States
<1>7. CASE Verify(c)
  BY <1>1, <1>7, <1>g, <1>i DEF Verify, States
<1>r. ASSUME Refused(c), UNCHANGED <<data, dest, kept>> PROVE Holds(c) \/ Drops(c)
  BY <1>r, <1>e, <1>g, <1>n DEF Refused, States
<1>8. CASE Install(c) /\ dest # None
  BY <1>1, <1>8, <1>r DEF Install, pathVars
<1>9. CASE CheckCreated(c)
  BY <1>1, <1>9, <1>d, <1>e, <1>n, <1>i DEF CheckCreated
<1>10. CASE Check(c)
  <2>1. CASE Goto(c, "recover")
    BY <1>1, <1>10, <1>g, <1>i, <2>1 DEF Check, States
  <2>2. CASE ~Goto(c, "recover")
    <3>1. /\ Goto(c, "unlink") /\ At(c, "check") /\ Same(c, job[c].old) /\ BackupHolds(c)
          /\ UNCHANGED <<data, dest, kept>>
      BY <1>10, <1>i, <2>2 DEF Check
    <3>2. job'[c].old = job[c].old /\ job'[c].backup = job[c].backup
          /\ job'[c].bytes = job[c].bytes
      BY <1>t, <3>1 DEF Goto, Job
    <3> QED  BY <1>1, <3>1, <3>2 DEF Holds
  <2> QED  BY <2>1, <2>2
<1>11. CASE Final(c)
  BY <1>1, <1>11, <1>d, <1>g DEF Final, States
<1>12. CASE Recover(c) /\ ~Restores(c)
  BY <1>1, <1>t, <1>12 DEF Recover, Drops, Ends
<1>13. CASE CompareLink(c) \/ UnlinkLink(c)
  BY <1>13 DEF CompareLink, UnlinkLink
<1>14. CASE Record(c)
  BY <1>1, <1>14, <1>e, <1>n DEF Record, At, Holding, pathVars
<1>15. CASE Fails(c)
  BY <1>1, <1>15, <1>r DEF Fails, pathVars
<1>16. CASE Crash(c)
  BY <1>1, <1>t, <1>16 DEF Crash, Drops, Ends
<1> QED
  BY <1>1, <1>2, <1>3, <1>4, <1>5, <1>6, <1>7, <1>8, <1>9, <1>10, <1>11, <1>12, <1>13, <1>14,
     <1>15, <1>16 DEF Update

-----------------------------------------------------------------------------
(* Nothing is lost.  Without hard links a displaced file has one name, and   *)
(* what is unlinked holds nothing its backup has not, but for writes that    *)
(* came after the last comparison.                                          *)

Numbered ==
  /\ \A i \in Inodes : data[i].tail \subseteq 1..writes
  /\ \A c \in Commands : job[c].bytes.tail \subseteq 1..writes

Apart ==
  \A c \in Commands :
    /\ job[c].backup # None => job[c].backup \in kept
    /\ links /\ job[c].backup # None /\ job[c].old # None => job[c].backup = job[c].old
    /\ ~links => /\ dest \notin kept
                 /\ job[c].old # None =>
                      /\ job[c].old \notin kept \cup {dest}
                      /\ \A d \in Commands \ {c} : job[d].old # job[c].old

Covered == \A w \in written : \E i \in Named : w \in data[i].tail

Doomed ==
  \A c \in Commands :
    job[c].at = "unlink" /\ ~links =>
      \A w \in written : w \in data[job[c].old].tail => w \in data[job[c].backup].tail

LostInv == mode = "copy" => Numbered /\ Apart /\ Covered /\ Doomed

LEMMA LostInit == Init => LostInv
<1> SUFFICES ASSUME Init PROVE Numbered /\ Apart /\ Covered /\ Doomed
  BY DEF LostInv
<1>1. \A c \in Commands : job[c] = Idle
  BY DEF Init
<1>2. Apart /\ Doomed
  BY <1>1, Constructors DEF Init, Apart, Doomed
<1>3. Covered
  BY DEF Init, Covered
<1>4. Link.tail = {} /\ File(1, {}).tail = {}
  BY DEF Link, File
<1>5. \A i \in Inodes : data[i].tail = {}
  BY <1>4 DEF Init, Inodes
<1> QED  BY <1>1, <1>2, <1>3, <1>4, <1>5, Constructors DEF Numbered

LEMMA LostCommand ==
  ASSUME TypeInv, LostInv, mode = "copy", NEW c \in Commands, Update(c) \/ Fails(c) \/ Crash(c)
  PROVE  LostInv'
<1>t. /\ Grip(job[c]) /\ job[c] \in Job /\ job \in [Commands -> Job] /\ data \in Seq(Content)
      /\ Len(data) \in Nat /\ dest \in Inodes \cup {None} /\ kept \subseteq Inodes
      /\ Inodes \subseteq Nat /\ None \notin Inodes /\ Len(data) + 1 # None
      /\ Len(data) + 1 \notin Inodes
      /\ \A d \in Commands : job[d].old \in Inodes \cup {None} /\ job[d].backup \in Inodes \cup {None}
  BY NoneAssumption DEF TypeInv, TypeOK, Inodes, Job
<1>l. Numbered /\ Apart /\ Covered /\ Doomed
  BY DEF LostInv
<1>o. /\ mode' = mode /\ links' = links /\ writes' = writes /\ written' = written
      /\ \A d \in Commands \ {c} : job'[d] = job[d]
  BY Kinds DEF Others
<1>b. Link.tail = {} /\ Idle.bytes = Link /\ Idle.old = None /\ Idle.backup = None /\ Idle.at = "idle"
  BY Constructors DEF Link
<1>k. \/ Holds(c) \/ Drops(c) \/ Retain(c) \/ Unlink(c)
      \/ Displace(c) /\ dest # None
      \/ Install(c) /\ dest = None
      \/ Recover(c) /\ Restores(c)
  BY Kinds
\* Inodes are kept, and a new one holds nothing new.
<1>d. /\ Inodes \subseteq Inodes' /\ \A i \in Inodes : data'[i] = data[i]
      /\ Numbered'
  <2>1. ASSUME UNCHANGED data,
               job'[c].bytes \in {job[c].bytes, Link} \cup {data[i] : i \in Inodes}
        PROVE  Numbered' /\ Inodes' = Inodes
    BY <1>l, <1>o, <1>b, <2>1 DEF Numbered, Inodes
  <2>2. ASSUME NEW x \in Content, data' = Append(data, x), x.tail \subseteq 1..writes,
               job'[c].bytes \in {job[c].bytes, Link}
        PROVE  Numbered' /\ Inodes \subseteq Inodes' /\ \A i \in Inodes : data'[i] = data[i]
    <3>1. /\ Len(data') = Len(data) + 1 /\ data'[Len(data) + 1] = x
          /\ \A i \in Inodes : data'[i] = data[i]
      BY <1>t, <2>2, Appended DEF Inodes
    <3>2. Inodes' = Inodes \cup {Len(data) + 1}
      BY <1>t, <3>1 DEF Inodes
    <3> QED  BY <1>l, <1>o, <1>b, <2>2, <3>1, <3>2 DEF Numbered
  <2>3. CASE Holds(c) \/ Drops(c)
    BY <1>b, <2>1, <2>3 DEF Holds, Drops
  <2>4. CASE Unlink(c) \/ (Displace(c) /\ dest # None)
    <3>1. data' = data /\ job'[c].bytes = job[c].bytes
      BY <1>t, <2>4 DEF Unlink, Displace, Inside, pathVars, Job
    <3> QED  BY <2>1, <3>1
  <2>5. CASE Retain(c)
    <3>1. /\ job'[c].bytes = job[c].bytes /\ job[c].old \in Inodes
          /\ data' = IF links THEN data ELSE Append(data, data[job[c].old])
      BY <1>t, <2>5 DEF Retain, WithTwin, At, Grip, Job
    <3>2. data[job[c].old] \in Content /\ data[job[c].old].tail \subseteq 1..writes
      BY <1>t, <1>l, <3>1 DEF Numbered, Inodes
    <3> QED  BY <2>1, <2>2, <3>1, <3>2
  <2>6. CASE Install(c) /\ dest = None
    <3>1. job'[c].bytes = job[c].bytes /\ data' = Append(data, Staged(c))
      BY <1>t, <2>6 DEF Install, Job
    <3>2. Staged(c) = File(job[c].want, IF job[c].op = "update" THEN job[c].bytes.tail ELSE {})
      BY DEF Staged
    <3>3. /\ Staged(c).tail \subseteq 1..writes /\ Staged(c).tail \subseteq job[c].bytes.tail
      BY <1>l, <3>2 DEF File, Numbered
    <3>4. job[c].want \in 0..MaxVersion /\ job[c].bytes.tail \in SUBSET (1..MaxWrites)
      BY <1>t, VersionAssumption DEF Job, Content, Versions
    <3>5. Staged(c) \in Content
      BY <3>2, <3>4, Constructors
    <3> QED  BY <2>2, <3>1, <3>3, <3>5
  <2>7. CASE Recover(c) /\ Restores(c)
    <3>1. /\ job'[c].bytes = Link /\ Candidate(c) \in Inodes
          /\ data' = IF links THEN data ELSE Append(data, data[Candidate(c)])
      BY <1>t, <1>b, <2>7 DEF Recover, Restores, WithTwin, Candidate, Ends
    <3>2. data[Candidate(c)] \in Content /\ data[Candidate(c)].tail \subseteq 1..writes
      BY <1>t, <1>l, <3>1 DEF Numbered, Inodes
    <3> QED  BY <2>1, <2>2, <3>1, <3>2
  <2> QED  BY <1>k, <2>3, <2>4, <2>5, <2>6, <2>7
\* As long as the names stay, and no file comes to be unlinked.
<1>q. ASSUME kept \cup ({job[c].old, dest} \ {None}) \subseteq kept' \cup ({job'[c].old, dest'} \ {None})
      PROVE  Covered'
  <2> SUFFICES ASSUME NEW w \in written PROVE \E i \in Named' : w \in data'[i].tail
    BY <1>o DEF Covered
  <2>1. PICK i \in Named : w \in data[i].tail
    BY <1>l DEF Covered
  <2>2. i \in Inodes
    BY <1>t, <2>1 DEF Named, Olds
  <2>3. i \in kept \cup {dest} \/ \E d \in Commands : i = job[d].old
    BY <2>1 DEF Named, Olds
  <2>4. i \in Named'
    <3>1. CASE i \in kept \cup {dest, job[c].old}
      BY <1>t, <1>q, <2>2, <3>1 DEF Named, Olds
    <3>2. ASSUME NEW d \in Commands \ {c}, i = job[d].old PROVE i \in Named'
      BY <1>t, <1>o, <2>2, <3>2 DEF Named, Olds
    <3> QED  BY <2>3, <3>1, <3>2
  <2> QED  BY <1>d, <2>1, <2>2, <2>4
<1>u. ASSUME job'[c].at # "unlink" PROVE Doomed'
  <2> SUFFICES ASSUME NEW d \in Commands, job'[d].at = "unlink", ~links
               PROVE  \A w \in written :
                        w \in data'[job'[d].old].tail => w \in data'[job'[d].backup].tail
    BY <1>o DEF Doomed
  <2>1. d # c /\ job'[d] = job[d]
    BY <1>o, <1>u
  <2>2. job[d].old \in Inodes /\ job[d].backup \in Inodes
    BY <1>t, <2>1 DEF TypeInv, Grip
  <2> QED  BY <1>l, <1>d, <2>1, <2>2 DEF Doomed
<1>1. CASE Holds(c)
  <2>1. Covered'
    BY <1>1, <1>q DEF Holds
  <2>2. Apart'
    BY <1>1, <1>l, <1>o DEF Holds, Apart
  <2>3. CASE job'[c].at = "unlink"
    <3>1. /\ job[c].old # None /\ data[job[c].old] = job[c].bytes
          /\ data[job[c].backup] = job[c].bytes /\ data' = data
          /\ job'[c].old = job[c].old
      BY <1>1, <2>3 DEF Holds, Same, BackupHolds
    <3>2. job'[c].backup = job[c].backup
      <4>1. Grip(job[c])' /\ mode' = "copy"
        BY <1>o, TypeCommand DEF TypeInv
      <4> QED  BY <1>1, <2>3, <4>1 DEF Grip, Holds
    <3>3. \A w \in written : w \in data'[job'[c].old].tail => w \in data'[job'[c].backup].tail
      BY <3>1, <3>2
    <3>4. Doomed'
      BY <1>l, <1>o, <3>1, <3>3 DEF Doomed
    <3> QED  BY <1>d, <2>1, <2>2, <3>4 DEF LostInv
  <2> QED  BY <1>d, <1>u, <2>1, <2>2, <2>3 DEF LostInv
<1>2. CASE Drops(c)
  <2>1. kept' = kept \cup ({job[c].old} \ {None}) /\ dest' = dest /\ job'[c] = Idle
    BY <1>2 DEF Drops, Left
  <2>2. Covered'
    BY <1>b, <1>q, <2>1
  <2>3. Apart'
    BY <1>b, <1>l, <1>o, <1>t, <2>1 DEF Apart
  <2> QED  BY <1>b, <1>d, <1>u, <2>1, <2>2, <2>3 DEF LostInv
<1>3. CASE Retain(c)
  <2>1. /\ kept' = kept \cup {Twin(job[c].old)} /\ dest' = dest
        /\ job'[c].old = job[c].old /\ job'[c].backup = Twin(job[c].old) /\ job'[c].at # "unlink"
    BY <1>3, <1>t DEF Retain, Job
  <2>2. Covered'
    BY <1>q, <2>1
  <2>3. Apart'
    <3>1. CASE links
      BY <1>l, <1>o, <2>1, <3>1 DEF Apart, Twin
    <3>2. CASE ~links
      <4>1. Twin(job[c].old) = Len(data) + 1
        BY <3>2 DEF Twin, Fresh
      <4> QED  BY <1>l, <1>o, <1>t, <2>1, <3>2, <4>1 DEF Apart
    <3> QED  BY <3>1, <3>2
  <2> QED  BY <1>d, <1>u, <2>1, <2>2, <2>3 DEF LostInv
<1>4. CASE Unlink(c)
  <2>1. /\ kept' = kept /\ dest' = dest /\ data' = data /\ job[c].at = "unlink"
        /\ job'[c].old = None /\ job'[c].backup = job[c].backup /\ job'[c].at = "final"
    BY <1>4, <1>t DEF Unlink, At, Inside, pathVars, Job
  <2>2. job[c].old # None /\ job[c].backup # None
    BY <1>t, <2>1 DEF Grip
  <2>3. job[c].backup \in kept /\ (links => job[c].backup = job[c].old)
    BY <1>l, <2>2 DEF Apart
  <2>4. Covered'
    <3> SUFFICES ASSUME NEW w \in written PROVE \E i \in Named' : w \in data[i].tail
      BY <1>o, <2>1 DEF Covered
    <3>1. PICK i \in Named : w \in data[i].tail
      BY <1>l DEF Covered
    <3>2. kept \subseteq Named'
      BY <1>t, <2>1 DEF Named
    <3>3. CASE i = job[c].old
      BY <1>l, <2>1, <2>3, <3>1, <3>2, <3>3 DEF Doomed
    <3>4. CASE i # job[c].old
      <4>1. i \in Named'
        BY <1>o, <2>1, <3>1, <3>4 DEF Named, Olds
      <4> QED  BY <3>1, <4>1
    <3> QED  BY <3>3, <3>4
  <2>5. Apart'
    BY <1>l, <1>o, <2>1 DEF Apart
  <2> QED  BY <1>d, <1>u, <2>1, <2>4, <2>5 DEF LostInv
<1>5. CASE Displace(c) /\ dest # None
  <2>1. /\ kept' = kept /\ dest' = None /\ job'[c].old = dest /\ job'[c].backup = job[c].backup
        /\ job'[c].at = "verify" /\ job[c].at = "displace"
    BY <1>5, <1>t DEF Displace, At, Job
  <2>2. job[c].old = None /\ job[c].backup = None
    BY <1>t, <2>1 DEF Grip, Holding
  <2>3. Covered'
    BY <1>5, <1>q, <2>1, <2>2
  <2>4. Apart'
    <3>1. ~links => dest \notin kept /\ \A d \in Commands : job[d].old # dest
      BY <1>5, <1>l, <1>t DEF Apart
    <3>2. None \notin kept
      BY <1>t
    <3> SUFFICES ASSUME NEW d \in Commands
                 PROVE  /\ job'[d].backup # None => job'[d].backup \in kept
                        /\ links /\ job'[d].backup # None /\ job'[d].old # None
                             => job'[d].backup = job'[d].old
                        /\ ~links /\ job'[d].old # None =>
                             /\ job'[d].old \notin kept
                             /\ \A e \in Commands \ {d} : job'[e].old # job'[d].old
      BY <1>o, <2>1, <3>2 DEF Apart
    <3>3. CASE d = c
      BY <1>o, <2>1, <2>2, <3>1, <3>3
    <3>4. CASE d # c
      <4>1. \A e \in Commands \ {d} : ~links /\ job[d].old # None => job'[e].old # job[d].old
        BY <1>l, <1>o, <2>1, <3>1, <3>4 DEF Apart
      <4> QED  BY <1>l, <1>o, <3>4, <4>1 DEF Apart
    <3> QED  BY <3>3, <3>4
  <2> QED  BY <1>d, <1>u, <2>1, <2>3, <2>4 DEF LostInv
<1>6. CASE Install(c) /\ dest = None
  <2>1. /\ kept' = kept /\ dest' = Len(data) + 1 /\ job'[c].old = job[c].old
        /\ job'[c].backup = job[c].backup /\ job'[c].at = "check"
    BY <1>6, <1>t DEF Install, Fresh, Job
  <2>2. Covered'
    BY <1>6, <1>q, <2>1
  <2>3. Apart'
    BY <1>l, <1>o, <1>t, <2>1 DEF Apart
  <2> QED  BY <1>d, <1>u, <2>1, <2>2, <2>3 DEF LostInv
<1>7. CASE Recover(c) /\ Restores(c)
  <2>1. /\ kept' = kept \cup ({job[c].old} \ {None}) /\ job'[c] = Idle /\ dest = None
        /\ dest' = Twin(Candidate(c))
    BY <1>7, <1>t DEF Recover, Restores, Left, Ends
  <2>2. Covered'
    BY <1>b, <1>q, <2>1
  <2>3. Apart'
    <3>1. ~links => dest' = Len(data) + 1
      BY <2>1 DEF Twin, Fresh
    <3> QED  BY <1>b, <1>l, <1>o, <1>t, <2>1, <3>1 DEF Apart
  <2> QED  BY <1>b, <1>d, <1>u, <2>1, <2>2, <2>3 DEF LostInv
<1> QED  BY <1>k, <1>1, <1>2, <1>3, <1>4, <1>5, <1>6, <1>7

LEMMA LostUser == TypeInv /\ LostInv /\ User => LostInv'
<1> SUFFICES ASSUME TypeInv, LostInv, User, mode = "copy"
             PROVE  Numbered' /\ Apart' /\ Covered' /\ Doomed'
  BY DEF LostInv, User, EditSource, Toggle, Open, InPlace, WriteTo, Delete, Replace, Outside, setVars
<1>t. /\ data \in Seq(Content) /\ Len(data) \in Nat /\ dest \in Inodes \cup {None}
      /\ open \in Inodes \cup {None} /\ kept \subseteq Inodes /\ None \notin Inodes
      /\ Len(data) + 1 # None /\ Len(data) + 1 \notin Inodes
      /\ writes \in Nat /\ written \subseteq 1..writes
      /\ \A d \in Commands : job[d].old \in Inodes \cup {None} /\ job[d].backup \in Inodes \cup {None}
      /\ \A d \in Commands : job[d].at = "unlink" => job[d].old \in Inodes /\ job[d].backup \in Inodes
  BY NoneAssumption, LimitAssumption DEF TypeInv, TypeOK, Inodes, Job, Grip
<1>l. Numbered /\ Apart /\ Covered /\ Doomed
  BY DEF LostInv
<1>o. UNCHANGED <<job, links>>
  BY DEF User, EditSource, Toggle, Open, InPlace, WriteTo, Delete, Replace, Outside, setVars
<1>w. ASSUME Write PROVE writes' = writes + 1 /\ writes' \notin written /\ 1..writes \subseteq 1..writes'
  BY <1>t, <1>w DEF Write
<1>1. CASE UNCHANGED <<data, dest, kept, writes, written>>
  BY <1>1, <1>l, <1>o DEF Numbered, Apart, Covered, Doomed, Inodes, Named, Olds
<1>2. CASE InPlace
  <2>a. PICK i \in {dest, open} \ {None} : \E t \in {data[i].text, 0} : WriteTo(i, t)
    BY <1>2 DEF InPlace
  <2>b. i \in 1..Len(data) /\ i \in Inodes
    BY <1>t, <2>a DEF Inodes
  <2>2. PICK t \in 0..MaxVersion : WriteTo(i, t)
    <3>1. data[i] \in Content
      BY <1>t, <2>b
    <3>2. data[i].text \in 0..MaxVersion /\ 0 \in 0..MaxVersion
      BY <3>1, VersionAssumption DEF Content
    <3> QED  BY <2>a, <3>2
  <2>3. /\ data' = Overwrite(data, i, t, writes') /\ Write /\ UNCHANGED <<dest, kept>>
    BY <2>2 DEF WriteTo, Overwrite
  <2>4. writes' \in 1..MaxWrites
    BY <1>t, <2>3, LimitAssumption DEF Write
  <2>5. /\ Len(data') = Len(data) /\ data'[i].tail = data[i].tail \cup {writes'}
        /\ \A k \in 1..Len(data) : k # i => data'[k] = data[k]
    <3>1. data \in Seq(Content) /\ i \in 1..Len(data)
      BY <1>t, <2>b
    <3> DEFINE q == Overwrite(data, i, t, writes')
    <3>2. /\ Len(q) = Len(data) /\ q[i].tail = data[i].tail \cup {writes'}
          /\ \A k \in 1..Len(data) : k # i => q[k] = data[k]
      BY <2>4, <3>1, Overwritten
    <3> HIDE DEF q
    <3>3. data' = q
      BY <2>3 DEF q
    <3> QED  BY <3>2, <3>3
  <2>6. /\ Inodes' = Inodes /\ Named' = Named /\ Named \subseteq Inodes
        /\ \A k \in Inodes : data[k].tail \subseteq data'[k].tail
    <3>1. Inodes' = Inodes
      BY <2>5 DEF Inodes
    <3>2. Named' = Named
      BY <1>o, <2>3 DEF Named, Olds
    <3>3. Named \subseteq Inodes
      BY <1>t DEF Named, Olds
    <3>4. \A k \in Inodes : data[k].tail \subseteq data'[k].tail
      BY <2>5 DEF Inodes
    <3> QED  BY <3>1, <3>2, <3>3, <3>4
  <2>7. Numbered'
    BY <1>l, <1>o, <1>t, <1>w, <2>3, <2>5, <2>6 DEF Numbered, Inodes
  <2>8. Apart'
    BY <1>l, <1>o, <2>3 DEF Apart
  <2>9. \/ written' = written \cup {writes'} /\ i \in Named
        \/ /\ written' = written
        \/ FALSE
    BY <2>2 DEF WriteTo
  <2>10. Covered'
    BY <1>l, <2>5, <2>6, <2>9 DEF Covered
  <2>11. Doomed'
    <3> SUFFICES ASSUME NEW d \in Commands, job[d].at = "unlink", ~links,
                        NEW w \in written', w \in data'[job[d].old].tail
                 PROVE  w \in data'[job[d].backup].tail
      BY <1>o DEF Doomed
    <3>1. job[d].old \in Inodes /\ job[d].backup \in Inodes
      BY <1>t
    <3>2. CASE i = job[d].old
      <4>1. i \notin kept \cup {dest}
        BY <1>l, <1>t, <3>1, <3>2 DEF Apart
      <4>2. written' = written /\ w # writes'
        BY <1>w, <2>2, <2>3, <3>2, <4>1 DEF WriteTo, At
      <4> QED  BY <1>l, <2>5, <2>6, <3>1, <3>2, <4>2 DEF Doomed
    <3>3. CASE i # job[d].old
      <4>1. w \in data[job[d].old].tail
        BY <2>5, <3>1, <3>3 DEF Inodes
      <4>2. w \in 1..writes
        BY <1>l, <3>1, <4>1 DEF Numbered
      <4>3. w \in written
        BY <1>t, <1>w, <2>3, <2>9, <4>2
      <4> QED  BY <1>l, <2>6, <3>1, <4>1, <4>3 DEF Doomed
    <3> QED  BY <3>2, <3>3
  <2> QED  BY <2>7, <2>8, <2>10, <2>11
<1>3. ASSUME NEW k \in {"file", "link"}, Replace(k)
      PROVE  Numbered' /\ Apart' /\ Covered' /\ Doomed'
  <2> DEFINE x == [kind |-> k, text |-> 0, tail |-> {writes'}]
  <2>1. /\ Write /\ data' = Append(data, x) /\ dest' = Len(data) + 1 /\ kept' = kept
        /\ written' = (IF dest = None THEN written ELSE written \ data[dest].tail) \cup {writes'}
    BY <1>3 DEF Replace, Fresh
  <2>2. x \in Content /\ x.tail = {writes'}
    <3>1. writes' \in 1..MaxWrites
      BY <1>t, <2>1, LimitAssumption DEF Write
    <3> QED  BY <3>1, VersionAssumption DEF Content
  <2> HIDE DEF x
  <2>3. /\ Len(data') = Len(data) + 1 /\ data'[Len(data) + 1] = x
        /\ \A i \in Inodes : data'[i] = data[i]
    BY <1>t, <2>1, <2>2, Appended DEF Inodes
  <2>4. Inodes' = Inodes \cup {Len(data) + 1}
    BY <1>t, <2>3 DEF Inodes
  <2>5. Numbered'
    <3>1. \A i \in Inodes : data'[i].tail \subseteq 1..writes'
      BY <1>l, <1>w, <2>1, <2>3 DEF Numbered
    <3>2. data'[Len(data) + 1].tail \subseteq 1..writes'
      BY <1>t, <1>w, <2>1, <2>2, <2>3
    <3>3. \A d \in Commands : job'[d].bytes.tail \subseteq 1..writes'
      BY <1>l, <1>o, <1>w, <2>1 DEF Numbered
    <3> QED  BY <2>4, <3>1, <3>2, <3>3 DEF Numbered
  <2>6. Apart'
    BY <1>l, <1>o, <1>t, <2>1 DEF Apart
  <2>7. Covered'
    <3> SUFFICES ASSUME NEW w \in written' PROVE \E i \in Named' : w \in data'[i].tail
      BY DEF Covered
    <3>1. CASE w = writes'
      <4>1. Len(data) + 1 \in Named'
        BY <1>t, <2>1 DEF Named
      <4> QED  BY <2>2, <2>3, <3>1, <4>1
    <3>2. CASE w # writes'
      <4>1. w \in written /\ (dest # None => w \notin data[dest].tail)
        BY <2>1, <3>2
      <4>2. PICK i \in Named : w \in data[i].tail
        BY <1>l, <4>1 DEF Covered
      <4>3. i \in Named' /\ i \in Inodes
        BY <1>t, <1>o, <2>1, <4>1, <4>2 DEF Named, Olds
      <4> QED  BY <2>3, <4>2, <4>3
    <3> QED  BY <3>1, <3>2
  <2>8. Doomed'
    <3> SUFFICES ASSUME NEW d \in Commands, job[d].at = "unlink", ~links,
                        NEW w \in written', w \in data[job[d].old].tail
                 PROVE  w \in data[job[d].backup].tail
      BY <1>o, <1>t, <2>3 DEF Doomed
    <3>1. w \in 1..writes
      BY <1>l, <1>t DEF Numbered
    <3>2. w \in written
      BY <1>t, <1>w, <2>1, <3>1
    <3> QED  BY <1>l, <3>2 DEF Doomed
  <2> QED  BY <2>5, <2>6, <2>7, <2>8
<1>4. CASE Delete
  <2>1. /\ Write /\ dest # None /\ dest' = None /\ UNCHANGED <<data, kept>>
        /\ written' = written \ data[dest].tail
    BY <1>4 DEF Delete
  <2>2. Numbered' /\ Doomed'
    BY <1>l, <1>o, <1>t, <1>w, <2>1 DEF Numbered, Doomed, Inodes
  <2>3. Apart'
    BY <1>l, <1>o, <1>t, <2>1 DEF Apart
  <2>4. Covered'
    <3> SUFFICES ASSUME NEW w \in written' PROVE \E i \in Named' : w \in data[i].tail
      BY <2>1 DEF Covered
    <3>1. PICK i \in Named : w \in data[i].tail
      BY <1>l, <2>1 DEF Covered
    <3>2. i # dest
      BY <2>1, <3>1
    <3>3. i \in Named'
      BY <1>o, <2>1, <3>1, <3>2 DEF Named, Olds
    <3> QED  BY <3>1, <3>3
  <2> QED  BY <2>2, <2>3, <2>4
<1>5. CASE EditSource \/ Toggle \/ Open
  BY <1>1, <1>5 DEF EditSource, Toggle, Open, pathVars, userVars
<1> QED  BY <1>2, <1>3, <1>4, <1>5 DEF User

LEMMA LostStep == TypeInv /\ LostInv /\ [Next]_vars => LostInv'
<1>1. ASSUME LostInv, UNCHANGED vars PROVE LostInv'
  BY <1>1
     DEF vars, setVars, pathVars, userVars, LostInv, Numbered, Apart, Covered, Doomed, Inodes,
         Named, Olds
<1>2. ASSUME TypeInv, mode # "copy", [Next]_vars PROVE LostInv'
  <2>1. mode' = mode
    BY <1>2
       DEF Next, User, EditSource, Toggle, Open, InPlace, WriteTo, Delete, Replace, Outside,
           Update, Plan, BeginCreate, Observe, Recheck, Displace, Verify, Retain, Install,
           CheckCreated, Check, Unlink, Final, Recover, CompareLink, UnlinkLink, Record, Fails,
           Crash, Inside, Quiet, setVars, vars
  <2> QED  BY <1>2, <2>1 DEF LostInv
<1> QED  BY <1>1, <1>2, LostUser, LostCommand DEF Next

(* Nothing users or products wrote is lost while copies are replaced,        *)
(* removed and restored by any number of commands, killed anywhere          *)
(* (apply_instruction_copy, _retain_displaced_copy, _remove_displaced_copy). *)
THEOREM NothingLostCorrect == Spec => []NothingLost
<1>1. LostInv => NothingLost
  BY DEF LostInv, Covered, NothingLost
<1> QED  BY <1>1, TypeInit, TypeStep, LostInit, LostStep, PTL DEF Spec

-----------------------------------------------------------------------------
(* What the product wrote is carried over.  With hard links the backup is   *)
(* the very inode that was observed.                                        *)

Carries(j) ==
  j.at \in {"install", "check", "unlink", "final"} /\ j.backup # None /\ links => j.backup = j.seen

CarryInv == \A c \in Commands : Carries(job[c])

LEMMA CarryInit == Init => CarryInv
BY Constructors DEF Init, CarryInv, Carries

LEMMA CarryStep == TypeInv /\ CarryInv /\ [Next]_vars => CarryInv'
<1> SUFFICES ASSUME TypeInv, CarryInv, [Next]_vars PROVE CarryInv'  OBVIOUS
<1>1. ASSUME UNCHANGED <<job, links>> PROVE CarryInv'
  BY <1>1 DEF CarryInv, Carries
<1>2. CASE User
  BY <1>1, <1>2
     DEF User, EditSource, Toggle, Open, InPlace, WriteTo, Delete, Replace, Outside, setVars
<1>3. CASE UNCHANGED vars
  BY <1>1, <1>3 DEF vars, setVars
<1>4. ASSUME NEW c \in Commands, Update(c) \/ Fails(c) \/ Crash(c) PROVE CarryInv'
  <2>t. Grip(job[c]) /\ job[c] \in Job /\ job \in [Commands -> Job] /\ Carries(job[c])
    BY DEF TypeInv, TypeOK, CarryInv
  <2>l. links' = links
    BY <1>4 DEF Update, Plan, BeginCreate, Observe, Recheck, Displace, Verify, Retain, Install,
           CheckCreated, Check, Unlink, Final, Recover, CompareLink, UnlinkLink, Record, Fails,
           Crash, Inside, Quiet, setVars
  <2>1. ASSUME NEW j, job' = [job EXCEPT ![c] = j], Carries(j) PROVE CarryInv'
    BY <2>t, <2>l, <2>1 DEF CarryInv, Carries
  <2>g. ASSUME NEW place \in States, Goto(c, place),
               place \in {"install", "check", "unlink", "final"} =>
                  job[c].at \in {"install", "check", "unlink", "final"} \/ job[c].backup = None
        PROVE  CarryInv'
    <3>1. /\ [job[c] EXCEPT !.at = place].at = place
          /\ [job[c] EXCEPT !.at = place].backup = job[c].backup
          /\ [job[c] EXCEPT !.at = place].seen = job[c].seen
      BY <2>t DEF Job
    <3> QED  BY <2>1, <2>g, <2>t, <3>1 DEF Goto, Carries
  <2>e. ASSUME Ends(c) PROVE CarryInv'
    BY <2>1, <2>e, Constructors DEF Ends, Carries
  <2>d. ASSUME Done(c) PROVE CarryInv'
    <3> DEFINE j == [job[c] EXCEPT !.at = "record", !.had = None, !.seen = None, !.bytes = Link,
                                   !.backup = None, !.new = None]
    <3>1. j.at = "record" /\ job' = [job EXCEPT ![c] = j]
      BY <2>d, <2>t DEF Done, Job
    <3> HIDE DEF j
    <3> QED  BY <2>1, <3>1 DEF Carries
  <2>n. job[c].at \notin Holding \cup {"final"} \/ job[c].op = "create" => job[c].backup = None
    BY <2>t DEF Grip
  <2>2. CASE Plan(c)
    <3> DEFINE j == [Idle EXCEPT !.at = IF Planned = "noop" THEN "record" ELSE "begin",
                       !.op = Planned, !.want = source, !.had = record, !.keep = selected]
    <3>1. j.at \in {"record", "begin"} /\ job' = [job EXCEPT ![c] = j]
      BY <2>2 DEF Plan, Idle
    <3> HIDE DEF j
    <3> QED  BY <2>1, <3>1 DEF Carries
  <2>3. CASE BeginCreate(c)
    BY <2>3, <2>e, <2>g, <2>n DEF BeginCreate, At, Holding, States
  <2>4. CASE Observe(c)
    <3>1. CASE Ends(c)
      BY <2>e, <3>1
    <3>2. CASE ~Ends(c)
      <4> DEFINE j == [job[c] EXCEPT !.at = "recheck", !.seen = dest, !.bytes = data[dest]]
      <4>1. j.at = "recheck" /\ job' = [job EXCEPT ![c] = j]
        BY <2>4, <2>t, <3>2 DEF Observe, Job
      <4> HIDE DEF j
      <4> QED  BY <2>1, <4>1 DEF Carries
    <3> QED  BY <3>1, <3>2
  <2>5. CASE Recheck(c) \/ Verify(c)
    BY <2>5, <2>e, <2>g DEF Recheck, Verify, States
  <2>6. CASE Displace(c)
    <3>1. CASE dest = None
      BY <2>6, <2>g, <3>1 DEF Displace, States
    <3>2. CASE dest # None
      <4> DEFINE j == [job[c] EXCEPT !.at = "verify", !.old = dest]
      <4>1. j.at = "verify" /\ job' = [job EXCEPT ![c] = j]
        BY <2>6, <2>t, <3>2 DEF Displace, Job
      <4> HIDE DEF j
      <4> QED  BY <2>1, <4>1 DEF Carries
    <3> QED  BY <3>1, <3>2
  <2>7. CASE Retain(c)
    <3> DEFINE place == IF ~Same(c, job[c].old) THEN "recover"
                        ELSE IF job[c].op = "update" THEN "install" ELSE "check"
               j == [job[c] EXCEPT !.backup = Twin(job[c].old), !.at = place]
    <3>1. /\ job' = [job EXCEPT ![c] = j] /\ j.at = place /\ j.backup = Twin(job[c].old)
          /\ j.seen = job[c].seen
      BY <2>7, <2>t DEF Retain, Job
    <3>2. place # "recover" => job[c].old = job[c].seen
      BY DEF Same
    <3> HIDE DEF j, place
    <3>3. Carries(j)
      BY <3>1, <3>2 DEF Carries, Twin
    <3> QED  BY <2>1, <3>1, <3>3
  <2>8. CASE Install(c)
    <3>1. CASE dest # None
      BY <2>8, <2>e, <2>g, <3>1 DEF Install, Refused, States
    <3>2. CASE dest = None
      <4> DEFINE j == [job[c] EXCEPT !.at = "check", !.new = Fresh]
      <4>1. /\ job' = [job EXCEPT ![c] = j] /\ j.backup = job[c].backup /\ j.seen = job[c].seen
            /\ job[c].at = "install"
        BY <2>8, <2>t, <3>2 DEF Install, At, Job
      <4> HIDE DEF j
      <4> QED  BY <2>1, <2>t, <4>1 DEF Carries
    <3> QED  BY <3>1, <3>2
  <2>9. CASE CheckCreated(c)
    BY <2>9, <2>d, <2>e DEF CheckCreated
  <2>10. CASE Check(c)
    BY <2>10, <2>g DEF Check, At, States
  <2>11. CASE Unlink(c)
    <3> DEFINE j == [job[c] EXCEPT !.at = "final", !.old = None]
    <3>1. /\ job' = [job EXCEPT ![c] = j] /\ j.backup = job[c].backup /\ j.seen = job[c].seen
          /\ job[c].at = "unlink"
      BY <2>11, <2>t DEF Unlink, At, Job
    <3> HIDE DEF j
    <3> QED  BY <2>1, <2>t, <3>1 DEF Carries
  <2>12. CASE Final(c)
    BY <2>12, <2>d, <2>g DEF Final, States
  <2>13. CASE Recover(c) \/ Record(c) \/ Crash(c)
    BY <2>13, <2>e DEF Recover, Record, Crash
  <2>14. CASE CompareLink(c)
    BY <2>14, <2>e, <2>g, <2>n DEF CompareLink, At, Holding, States
  <2>15. CASE UnlinkLink(c)
    BY <2>15, <2>d, <2>e DEF UnlinkLink
  <2>16. CASE Fails(c)
    BY <2>16, <2>e, <2>g DEF Fails, Refused, States
  <2> QED
    BY <1>4, <2>2, <2>3, <2>4, <2>5, <2>6, <2>7, <2>8, <2>9, <2>10, <2>11, <2>12, <2>13,
       <2>14, <2>15, <2>16 DEF Update
<1> QED  BY <1>2, <1>3, <1>4 DEF Next

(* An update that succeeds leaves the planned text with what the product had *)
(* written to the replaced file, however late where there are hard links    *)
(* (apply_instruction_update, _verify_instruction_update).                  *)
THEOREM RuntimeCarriedCorrect == Spec => RuntimeCarried
<1>1. ASSUME TypeInv, CarryInv, [Next]_vars, NEW c \in Commands,
             At(c, "final"), job[c].op = "update", job'[c].at = "record"
      PROVE  /\ data[dest].text = job[c].want
             /\ data[dest].tail = (IF links THEN data[job[c].seen] ELSE job[c].bytes).tail
  <2>t. Grip(job[c]) /\ job[c] \in Job /\ job \in [Commands -> Job] /\ Carries(job[c])
    BY <1>1 DEF TypeInv, TypeOK, CarryInv
  <2>1. job'[c] # job[c] /\ job[c].at = "final"
    BY <1>1 DEF At
  <2>2. Update(c) \/ Fails(c) \/ Crash(c)
    <3>1. ~User /\ ~UNCHANGED vars
      BY <2>1 DEF User, EditSource, Toggle, Open, InPlace, WriteTo, Delete, Replace, Outside, vars
    <3>2. PICK d \in Commands : Update(d) \/ Fails(d) \/ Crash(d)
      BY <1>1, <3>1 DEF Next
    <3>3. \E j : job' = [job EXCEPT ![d] = j]
      BY <3>2 DEF Update, Plan, BeginCreate, Observe, Recheck, Displace, Verify, Retain, Install,
             CheckCreated, Check, Unlink, Final, Recover, CompareLink, UnlinkLink, Record, Fails,
             Crash, Refused, Goto, Ends, Done
    <3>4. d = c
      BY <2>t, <2>1, <3>3
    <3> QED  BY <3>2, <3>4
  <2>3. ~Crash(c) /\ ~Fails(c)
    BY <1>1, <2>t, <2>1, Constructors DEF Crash, Fails, Ends
  <2>4. Final(c)
    BY <2>1, <2>2, <2>3
       DEF Update, Plan, BeginCreate, Observe, Recheck, Displace, Verify, Retain, Install,
           CheckCreated, Check, Unlink, Recover, CompareLink, UnlinkLink, Record, At
  <2>5. Placed(c) /\ BackupHolds(c)
    <3>1. ~Goto(c, "recover")
      BY <1>1, <2>t DEF Goto, Job
    <3> QED  BY <2>4, <3>1 DEF Final
  <2>6. mode = "copy" /\ job[c].backup # None
    BY <2>t, <2>1 DEF Grip
  <2>7. data[dest] = File(job[c].want, job[c].bytes.tail)
    BY <1>1, <2>5, <2>6 DEF Placed, Staged
  <2>8. data[job[c].backup] = job[c].bytes /\ (links => job[c].backup = job[c].seen)
    BY <2>t, <2>1, <2>5, <2>6 DEF BackupHolds, Carries
  <2> QED  BY <2>7, <2>8 DEF File
<1>2. TypeInv /\ CarryInv /\ [Next]_vars =>
        [\A c \in Commands : At(c, "final") /\ job[c].op = "update" /\ job'[c].at = "record" =>
           /\ data[dest].text = job[c].want
           /\ data[dest].tail = (IF links THEN data[job[c].seen] ELSE job[c].bytes).tail]_vars
  BY <1>1
<1> QED  BY <1>2, TypeInit, TypeStep, CarryInit, CarryStep, PTL DEF Spec, RuntimeCarried
=============================================================================
