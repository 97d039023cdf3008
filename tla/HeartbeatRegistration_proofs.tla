--------------------- MODULE HeartbeatRegistration_proofs ---------------------
(* Proofs about HeartbeatRegistration, for every number of commands,        *)
(* targets, launches, changes, edits and failures.                          *)
EXTENDS HeartbeatRegistration, SequenceTheorems, FiniteSetTheorems, WellFoundedInduction, TLAPS

-----------------------------------------------------------------------------
(* The inductive invariant.                                                *)

Stops == {"replan", "inspect", "install", "converge", "check", "record"}
Reviewed == UNION {[D -> Intents] : D \in SUBSET Targets}
Jobs == [at : Stops \cup {"idle"}, spec : Values, wants : SUBSET Targets, intent : Reviewed,
         todo : SUBSET Targets, doc : Seq(Lines), disturbed : BOOLEAN]

(* What a command has in hand was reviewed, and something is left to do.   *)
Sound(job) ==
  /\ job \in Jobs
  /\ job.at = "idle" <=> job.todo = {}
  /\ job.at # "idle" => job.todo \subseteq DOMAIN job.intent /\ job.spec \in Launches
InHand == cmd \in [Commands -> {job \in Jobs : Sound(job)}]

(* The document that is about to be replaced is as the reviewed plan found *)
(* it, as far as the target in hand goes: the block in it, if any, is the  *)
(* one that was on record.                                                 *)
PlannedFor(c) ==
  LET t == This(c)
      doc == cmd[c].doc
  IN /\ Managed(doc, t) \in {None, cmd[c].intent[t].record}
     /\ Found(doc, t, Want(c)) = cmd[c].intent[t].disposition
     /\ cmd[c].at = "install" => cmd[c].intent[t].disposition # "noop"
Planned == \A c \in Commands : cmd[c].at \in {"inspect", "install"} => PlannedFor(c)

(* A run nobody interferes with: what is left to do is as it was reviewed, *)
(* what is done is as it was to be, and no marker is there twice.          *)
Goal(c, t) == IF t \in cmd[c].wants THEN cmd[c].spec ELSE None
Done == {"converge", "check", "record"}
Alone(c) == cmd[c].at # "idle" /\ ~cmd[c].disturbed
Course(c) ==
  /\ ~Copied(tab)
  /\ \A t \in DOMAIN cmd[c].intent : Goal(c, t) # None => t \in current
  /\ cmd[c].at \in {"inspect", "install"} => cmd[c].doc = tab
  /\ \A t \in cmd[c].todo :
       (t = This(c) /\ cmd[c].at \in Done) \/ Intent(t, Goal(c, t)) = cmd[c].intent[t]
  /\ cmd[c].at \in Done => Found(tab, This(c), Want(c)) = "noop"
  /\ \A t \in DOMAIN cmd[c].intent \ cmd[c].todo :
       record[t] = Goal(c, t) /\ Found(tab, t, Goal(c, t)) = "noop"
OnCourse == \A c \in Commands : Alone(c) => Course(c)

TypeInv == TypeOK /\ InHand
Inv == TypeInv /\ Planned /\ OnCourse

-----------------------------------------------------------------------------
(* Lines and documents.                                                    *)

LEMMA Kinds ==
  /\ Job \in Lines /\ Job[1] = "job" /\ Job[2] = None
  /\ \A t \in Targets : Begin(t) \in Lines /\ End(t) \in Lines
  /\ \A t : Begin(t)[1] = "begin" /\ Begin(t)[2] = t /\ End(t)[1] = "end" /\ End(t)[2] = t
  /\ \A t \in Targets, s \in Launches : Meta(t, s) \in Lines /\ Line(t, s) \in Lines
  /\ \A t, s : /\ Meta(t, s)[1] = "meta" /\ Meta(t, s)[2] = t /\ Meta(t, s)[3] = s
               /\ Line(t, s)[1] = "line" /\ Line(t, s)[2] = t /\ Line(t, s)[3] = s
<1>1. Job \in Lines /\ Job[1] = "job" /\ Job[2] = None
  BY DEF Lines, Job
<1>2. \A t \in Targets : Begin(t) \in Lines /\ End(t) \in Lines
  BY DEF Lines
<1>3. \A t : Begin(t)[1] = "begin" /\ Begin(t)[2] = t /\ End(t)[1] = "end" /\ End(t)[2] = t
  BY DEF Begin, End
<1>4. \A t \in Targets, s \in Launches : Meta(t, s) \in Lines /\ Line(t, s) \in Lines
  BY DEF Lines
<1>5. \A t, s : /\ Meta(t, s)[1] = "meta" /\ Meta(t, s)[2] = t /\ Meta(t, s)[3] = s
                /\ Line(t, s)[1] = "line" /\ Line(t, s)[2] = t /\ Line(t, s)[3] = s
  BY DEF Meta, Line
<1> QED  BY <1>1, <1>2, <1>3, <1>4, <1>5

LEMMA LineIs ==
  ASSUME NEW line \in Lines
  PROVE  \/ line = Job
         \/ \E t \in Targets : line = Begin(t) \/ line = End(t)
         \/ \E t \in Targets, s \in Launches : line = Meta(t, s) \/ line = Line(t, s)
BY Zenon DEF Lines

LEMMA Marker ==
  ASSUME NEW line \in Lines, line[1] \in {"meta", "line"}
  PROVE  /\ line[2] \in Targets /\ line[3] \in Launches
         /\ line[1] = "meta" => line = Meta(line[2], line[3])
         /\ line[1] = "line" => line = Line(line[2], line[3])
<1>1. PICK t \in Targets, s \in Launches : line = Meta(t, s) \/ line = Line(t, s)
  BY LineIs, Kinds
<1> QED  BY <1>1, Kinds

LEMMA BlockIs ==
  ASSUME NEW t \in Targets, NEW s \in Launches
  PROVE  /\ Block(t, s) \in Seq(Lines) /\ Len(Block(t, s)) = 4
         /\ Block(t, s)[1] = Begin(t) /\ Block(t, s)[2] = Meta(t, s)
         /\ Block(t, s)[3] = Line(t, s) /\ Block(t, s)[4] = End(t)
         /\ \A k \in 1..4 : Block(t, s)[k][2] = t
<1>1. Begin(t) \in Lines /\ Meta(t, s) \in Lines /\ Line(t, s) \in Lines /\ End(t) \in Lines
  BY Kinds
<1>2. Block(t, s) \in Seq(Lines) /\ Len(Block(t, s)) = 4
  BY <1>1 DEF Block
<1>3. /\ Block(t, s)[1] = Begin(t) /\ Block(t, s)[2] = Meta(t, s)
      /\ Block(t, s)[3] = Line(t, s) /\ Block(t, s)[4] = End(t)
  BY DEF Block
<1>4. \A k \in 1..4 : k = 1 \/ k = 2 \/ k = 3 \/ k = 4
  OBVIOUS
<1>5. \A k \in 1..4 : Block(t, s)[k][2] = t
  BY <1>3, <1>4, Kinds
<1> QED  BY <1>2, <1>3, <1>5

LEMMA NoneApart == None \notin Launches /\ None \notin Targets /\ Targets \subseteq Nat
BY NoneAssumption, TargetAssumption DEF Targets

(* What a whole block looks like.                                          *)
LEMMA IntactIs ==
  ASSUME NEW doc \in Seq(Lines), NEW t \in Targets, NEW i \in DOMAIN doc, IntactAt(doc, t, i)
  PROVE  /\ i \in Nat /\ i >= 1 /\ i + 3 <= Len(doc)
         /\ Intact(doc, t) /\ Start(doc, t) = i /\ Managed(doc, t) = doc[i + 1][3]
         /\ Managed(doc, t) \in Launches
         /\ doc[i] = Begin(t) /\ doc[i + 1] = Meta(t, Managed(doc, t))
         /\ doc[i + 2] = Line(t, Managed(doc, t)) /\ doc[i + 3] = End(t)
         /\ ~ Absent(doc, t)
<1>1. DOMAIN doc = 1..Len(doc) /\ Len(doc) \in Nat
  BY LenProperties
<1>2. Places(doc, Begin(t)) = {i} /\ Places(doc, End(t)) = {i + 3}
  BY DEF IntactAt
<1>3. i \in DOMAIN doc /\ doc[i] = Begin(t) /\ i + 3 \in DOMAIN doc /\ doc[i + 3] = End(t)
  BY <1>2 DEF Places
<1>4. i \in Nat /\ i >= 1 /\ i + 3 <= Len(doc) /\ i + 1 \in DOMAIN doc /\ i + 2 \in DOMAIN doc
  BY <1>1, <1>3
<1>5. Intact(doc, t)
  BY DEF Intact
<1>6. Start(doc, t) = i
  <2>1. \A j \in DOMAIN doc : IntactAt(doc, t, j) => j = i
    BY <1>2 DEF IntactAt
  <2> QED  BY <2>1 DEF Start
<1>7. Managed(doc, t) = doc[i + 1][3]
  BY <1>5, <1>6 DEF Managed
<1>8. doc[i + 1] \in Lines /\ doc[i + 1][1] = "meta" /\ doc[i + 1][2] = t /\ doc[i + 2] = Line(t, doc[i + 1][3])
  BY <1>4 DEF IntactAt
<1>9. doc[i + 1][3] \in Launches /\ doc[i + 1] = Meta(t, doc[i + 1][3])
  BY <1>8, Marker
<1>10. ~ Absent(doc, t)
  BY <1>2 DEF Absent
<1> QED  BY <1>3, <1>4, <1>5, <1>6, <1>7, <1>8, <1>9, <1>10

LEMMA WholeBlock ==
  ASSUME NEW doc \in Seq(Lines), NEW t \in Targets, Intact(doc, t)
  PROVE  Start(doc, t) \in DOMAIN doc /\ IntactAt(doc, t, Start(doc, t))
BY Zenon DEF Intact, Start

LEMMA ManagedType ==
  ASSUME NEW doc \in Seq(Lines), NEW t \in Targets
  PROVE  /\ Managed(doc, t) \in Values
         /\ Managed(doc, t) # None <=> Intact(doc, t)
         /\ Absent(doc, t) => ~ Intact(doc, t)
<1>1. CASE Intact(doc, t)
  BY <1>1, WholeBlock, IntactIs, NoneApart DEF Values
<1>2. CASE ~ Intact(doc, t)
  BY <1>2 DEF Managed, Values
<1> QED  BY <1>1, <1>2

LEMMA FoundType ==
  ASSUME NEW doc, NEW t, NEW s
  PROVE  Found(doc, t, s) \in {"conflict", "noop", "create", "update", "remove"}
BY DEF Found

LEMMA GuardedType ==
  ASSUME NEW doc, NEW t, NEW s, Guarded(doc, t, s) # "conflict"
  PROVE  /\ Guarded(doc, t, s) = Found(doc, t, s)
         /\ Managed(doc, t) = None \/ Managed(doc, t) = record[t]
BY DEF Guarded

(* A document, with m lines after the first p of them replaced by n others.*)
Carry(i, p, m, n) == IF i <= p THEN i ELSE i + n - m
Spliced(old, new, p, m, n) ==
  /\ p \in Nat /\ m \in Nat /\ n \in Nat /\ p + m <= Len(old) /\ Len(new) + m = Len(old) + n
  /\ \A i \in DOMAIN old : i <= p \/ i > p + m =>
       Carry(i, p, m, n) \in DOMAIN new /\ new[Carry(i, p, m, n)] = old[i]

LEMMA SplicedBack ==
  ASSUME NEW old \in Seq(Lines), NEW new \in Seq(Lines), NEW p, NEW m, NEW n, Spliced(old, new, p, m, n)
  PROVE  Spliced(new, old, p, n, m)
<1>1. /\ DOMAIN old = 1..Len(old) /\ Len(old) \in Nat /\ DOMAIN new = 1..Len(new) /\ Len(new) \in Nat
      /\ p \in Nat /\ m \in Nat /\ n \in Nat /\ p + m <= Len(old) /\ Len(new) + m = Len(old) + n
  BY LenProperties DEF Spliced
<1>2. ASSUME NEW j \in DOMAIN new, j <= p \/ j > p + n
      PROVE  Carry(j, p, n, m) \in DOMAIN old /\ old[Carry(j, p, n, m)] = new[j]
  <2> DEFINE i == Carry(j, p, n, m)
  <2>1. j \in Nat /\ j >= 1 /\ j <= Len(new)
    BY <1>1
  <2>2. i \in 1..Len(old) /\ (i <= p \/ i > p + m) /\ Carry(i, p, m, n) = j
    <3>1. CASE j <= p
      <4>1. i = j
        BY <3>1 DEF Carry
      <4> HIDE DEF i
      <4> QED  BY <3>1, <4>1, <1>1, <2>1 DEF Carry
    <3>2. CASE ~(j <= p)
      <4>1. i = j + m - n
        BY <3>2 DEF Carry
      <4> HIDE DEF i
      <4>2. j > p + n /\ i \in 1..Len(old) /\ i > p + m /\ ~(i <= p) /\ i + n - m = j
        <5>1. j > p + n
          BY <3>2, <1>2
        <5>2. i \in Int /\ i >= 1 /\ i <= Len(old) /\ i > p + m
          BY <5>1, <4>1, <1>1, <2>1
        <5>3. i + n - m = j /\ ~(i <= p) /\ i \in 1..Len(old)
          BY <5>2, <4>1, <1>1, <2>1
        <5> QED  BY <5>1, <5>2, <5>3
      <4> QED  BY <4>2 DEF Carry
    <3> QED  BY <3>1, <3>2
  <2> HIDE DEF i
  <2>3. new[Carry(i, p, m, n)] = old[i]
    BY <1>1, <2>2 DEF Spliced
  <2> QED  BY <1>1, <2>2, <2>3 DEF i
<1>3. p + n <= Len(new)
  BY <1>1
<1> QED  BY <1>1, <1>2, <1>3 DEF Spliced

(* A nonempty set of numbers has a least element.                          *)
LEMMA Least ==
  ASSUME NEW S, S \subseteq Nat, S # {}
  PROVE  \E n \in S : \A m \in S : n <= m
<1> DEFINE R == {ss \in Nat \X Nat : ss[1] < ss[2]}
<1>1. IsWellFoundedOn(R, Nat)
  BY NatLessThanWellFounded DEF OpToRel
<1>2. PICK n \in S : \A m \in S : <<m, n>> \notin R
  <2> HIDE DEF R
  <2> QED  BY <1>1, WFMin, Zenon
<1>3. \A m \in S : n <= m
  <2> TAKE m \in S
  <2>1. m \in Nat /\ n \in Nat
    OBVIOUS
  <2>2. ~ (m < n)
    BY <2>1, <1>2
  <2> QED  BY <2>1, <2>2
<1> QED  BY <1>3

(* The new document is the old one, with the block of the target in hand   *)
(* put at the end, replaced, or taken out.                                 *)
Replaces(doc, new, t, s, p, m, n) ==
  /\ new \in Seq(Lines) /\ Spliced(doc, new, p, m, n)
  /\ m = 0 => Absent(doc, t) /\ ~Stray(doc, t) /\ n = 4 /\ p = Len(doc)
  /\ m # 0 => /\ m = 4 /\ IntactAt(doc, t, p + 1)
              /\ \A k \in 1..4 : doc[p + k] = Block(t, Managed(doc, t))[k]
  /\ n = 0 => s = None
  /\ n # 0 => n = 4 /\ s \in Launches /\ \A k \in 1..4 : new[p + k] = Block(t, s)[k]

LEMMA Replaced ==
  ASSUME NEW doc \in Seq(Lines), NEW t \in Targets, NEW s \in Values,
         Found(doc, t, s) # "conflict", Found(doc, t, s) # "noop"
  PROVE  LET fresh == IF s = None THEN << >> ELSE Block(t, s)
             i == IF Absent(doc, t) THEN Len(doc) + 1 ELSE Start(doc, t)
             new == SubSeq(doc, 1, i - 1) \o fresh \o SubSeq(doc, IF i > Len(doc) THEN i ELSE i + 4, Len(doc))
         IN  \E p, m, n \in Nat : Replaces(doc, new, t, s, p, m, n)
<1> DEFINE fresh == IF s = None THEN << >> ELSE Block(t, s)
           i == IF Absent(doc, t) THEN Len(doc) + 1 ELSE Start(doc, t)
           j == IF i > Len(doc) THEN i ELSE i + 4
           new == SubSeq(doc, 1, i - 1) \o fresh \o SubSeq(doc, j, Len(doc))
           p == i - 1
           m == IF Absent(doc, t) THEN 0 ELSE 4
           n == IF s = None THEN 0 ELSE 4
<1>1. DOMAIN doc = 1..Len(doc) /\ Len(doc) \in Nat
  BY LenProperties
<1>2. fresh \in Seq(Lines) /\ Len(fresh) = n
  <2>1. CASE s = None
    BY <2>1, EmptySeq
  <2>2. CASE s # None
    BY <2>2, BlockIs DEF Values
  <2> QED  BY <2>1, <2>2
<1>3. ~ Absent(doc, t) => Intact(doc, t)
  BY DEF Found
<1>4. Absent(doc, t) => ~Stray(doc, t) /\ s # None
  BY DEF Found
<1>5. ~ Absent(doc, t) => i \in DOMAIN doc /\ IntactAt(doc, t, i)
  BY <1>3, WholeBlock
<1>6. ~ Absent(doc, t) => i \in Nat /\ i >= 1 /\ i + 3 <= Len(doc)
  BY <1>5, IntactIs
<1>7. i \in Nat /\ i >= 1 /\ i <= Len(doc) + 1 /\ j \in Nat /\ j >= 1 /\ j <= Len(doc) + 1 /\ j = i + m
  BY <1>1, <1>6
<1> HIDE DEF i, j, fresh
<1>8. /\ SubSeq(doc, 1, i - 1) \in Seq(Lines) /\ Len(SubSeq(doc, 1, i - 1)) = i - 1
      /\ \A k \in 1..i - 1 : SubSeq(doc, 1, i - 1)[k] = doc[k]
  <2>1. \A k \in 1..i - 1 : doc[k] \in Lines
    BY <1>1, <1>7
  <2>2. i - 1 \in Int /\ 1 \in Int /\ i - 1 - 1 + 1 = i - 1 /\ (1 <= i - 1 \/ i - 1 = 0) /\ ~(1 <= 0)
    BY <1>7
  <2>3. /\ SubSeq(doc, 1, i - 1) \in Seq(Lines)
        /\ Len(SubSeq(doc, 1, i - 1)) = IF 1 <= i - 1 THEN i - 1 - 1 + 1 ELSE 0
        /\ \A k \in 1 .. i - 1 - 1 + 1 : SubSeq(doc, 1, i - 1)[k] = doc[1 + k - 1]
    BY <2>1, <2>2, SubSeqProperties
  <2>4. \A k \in 1..i - 1 : 1 + k - 1 = k
    OBVIOUS
  <2> QED  BY <2>2, <2>3, <2>4
<1>9. /\ SubSeq(doc, j, Len(doc)) \in Seq(Lines) /\ Len(SubSeq(doc, j, Len(doc))) = Len(doc) + 1 - j
      /\ \A k \in 1..Len(doc) + 1 - j : SubSeq(doc, j, Len(doc))[k] = doc[j + k - 1]
  <2>1. \A k \in j..Len(doc) : doc[k] \in Lines
    BY <1>1, <1>7
  <2>2. Len(doc) - j + 1 = Len(doc) + 1 - j /\ j \in Int /\ Len(doc) \in Int
        /\ (j <= Len(doc) \/ Len(doc) + 1 - j = 0)
    BY <1>1, <1>7
  <2>3. /\ SubSeq(doc, j, Len(doc)) \in Seq(Lines)
        /\ Len(SubSeq(doc, j, Len(doc))) = IF j <= Len(doc) THEN Len(doc) - j + 1 ELSE 0
        /\ \A k \in 1 .. Len(doc) - j + 1 : SubSeq(doc, j, Len(doc))[k] = doc[j + k - 1]
    BY <2>1, <2>2, SubSeqProperties
  <2>4. Len(SubSeq(doc, j, Len(doc))) = Len(doc) + 1 - j
    <3>1. CASE j <= Len(doc)
      BY <3>1, <2>2, <2>3
    <3>2. CASE ~(j <= Len(doc))
      BY <3>2, <2>2, <2>3
    <3> QED  BY <3>1, <3>2
  <2> QED  BY <2>2, <2>3, <2>4
<1> DEFINE a == SubSeq(doc, 1, i - 1)
           b == SubSeq(doc, j, Len(doc))
           ab == a \o fresh
<1>a. new = ab \o b
  OBVIOUS
<1>b. a \in Seq(Lines) /\ Len(a) = i - 1 /\ \A k \in 1..i - 1 : a[k] = doc[k]
  BY <1>8
<1>c. b \in Seq(Lines) /\ Len(b) = Len(doc) + 1 - j /\ \A k \in 1..Len(doc) + 1 - j : b[k] = doc[j + k - 1]
  BY <1>9
<1> HIDE DEF a, b, n
<1>10. /\ ab \in Seq(Lines) /\ Len(ab) = i - 1 + n
       /\ \A k \in 1..i - 1 + n : ab[k] = IF k <= i - 1 THEN a[k] ELSE fresh[k - (i - 1)]
  <2>1. /\ ab \in Seq(Lines) /\ Len(ab) = Len(a) + Len(fresh)
        /\ \A k \in 1..Len(a) + Len(fresh) : ab[k] = IF k <= Len(a) THEN a[k] ELSE fresh[k - Len(a)]
    BY <1>2, <1>b, ConcatProperties
  <2> QED  BY <2>1, <1>2, <1>b
<1> HIDE DEF ab, new
<1>11. /\ new \in Seq(Lines) /\ Len(new) = i - 1 + n + (Len(doc) + 1 - j)
       /\ \A k \in 1..(i - 1 + n) + (Len(doc) + 1 - j) :
            new[k] = IF k <= i - 1 + n THEN ab[k] ELSE b[k - (i - 1 + n)]
  <2>1. /\ new \in Seq(Lines) /\ Len(new) = Len(ab) + Len(b)
        /\ \A k \in 1..Len(ab) + Len(b) : new[k] = IF k <= Len(ab) THEN ab[k] ELSE b[k - Len(ab)]
    BY <1>a, <1>c, <1>10, ConcatProperties
  <2> QED  BY <2>1, <1>c, <1>10
<1>12. n \in Nat /\ m \in Nat /\ p \in Nat /\ DOMAIN new = 1..Len(new) /\ Len(new) \in Nat
  BY <1>7, <1>11, LenProperties DEF n
<1> HIDE DEF m
<1>13. Len(new) + m = Len(doc) + n /\ p + m <= Len(doc)
  <2>1. Len(new) = i - 1 + n + (Len(doc) + 1 - j) /\ j = i + m /\ j <= Len(doc) + 1
    BY <1>7, <1>11
  <2> QED  BY <2>1, <1>1, <1>7, <1>12
<1>14. ASSUME NEW k \in DOMAIN doc, k <= p \/ k > p + m
       PROVE  Carry(k, p, m, n) \in DOMAIN new /\ new[Carry(k, p, m, n)] = doc[k]
  <2>1. k \in Nat /\ k >= 1 /\ k <= Len(doc)
    BY <1>1
  <2>2. CASE k <= p
    <3>1. Carry(k, p, m, n) = k /\ k \in 1..i - 1 /\ k \in 1..i - 1 + n /\ k <= i - 1 + n /\ k <= i - 1
          /\ k \in 1..(i - 1 + n) + (Len(doc) + 1 - j) /\ k \in 1..Len(new)
      BY <1>1, <1>7, <1>11, <1>12, <2>1, <2>2 DEF Carry
    <3>2. new[k] = ab[k] /\ ab[k] = a[k] /\ a[k] = doc[k]
      BY <3>1, <1>b, <1>10, <1>11
    <3> QED  BY <3>1, <3>2, <1>12
  <2>3. CASE ~(k <= p)
    <3> DEFINE q == k + n - m
    <3>1. Carry(k, p, m, n) = q /\ q \in 1..(i - 1 + n) + (Len(doc) + 1 - j) /\ ~(q <= i - 1 + n)
          /\ q - (i - 1 + n) \in 1..Len(doc) + 1 - j /\ j + (q - (i - 1 + n)) - 1 = k /\ q \in 1..Len(new)
      <4>1. Carry(k, p, m, n) = q
        BY <2>3 DEF Carry
      <4>2. k > p + m /\ q = k + n - m /\ j = i + m /\ p = i - 1
        BY <1>7, <1>12, <1>14, <2>1, <2>3
      <4>3. Len(new) = i - 1 + n + (Len(doc) + 1 - j)
        BY <1>11
      <4> HIDE DEF q, p
      <4>4. q = k + n - m /\ k > i - 1 + m /\ q \in Int
        BY <4>2, <1>7, <1>12, <2>1
      <4>5. q > i - 1 + n /\ q - (i - 1 + n) = k - m - i + 1
        <5>1. i \in Int /\ m \in Int /\ k \in Int /\ n \in Int /\ q \in Int
          BY <4>4, <1>7, <1>12, <2>1
        <5>2. q > i - 1 + n
          BY <5>1, <4>4
        <5>3. q - (i - 1 + n) = k - m - i + 1
          BY <5>1, <4>4
        <5> QED  BY <5>2, <5>3
      <4>6. Len(new) + m = Len(doc) + n /\ q <= Len(new)
        BY <1>13, <4>4, <1>1, <1>12, <2>1
      <4>7. k - m - i + 1 \in 1..Len(doc) + 1 - j /\ j + (k - m - i + 1) - 1 = k
        <5> DEFINE e == k - m - i + 1
        <5>0. i \in Int /\ m \in Int /\ k \in Int /\ j \in Int /\ Len(doc) \in Int
          BY <1>1, <1>7, <1>12, <2>1
        <5>1. e \in Int /\ j \in Int /\ Len(doc) \in Int /\ j = i + m /\ e = k - m - i + 1
          BY <5>0, <4>2
        <5>a. e >= 1
          BY <5>0, <5>1, <4>4
        <5>b. j + e - 1 = k
          BY <5>0, <5>1
        <5>2. e >= 1 /\ j + e - 1 = k
          BY <5>a, <5>b
        <5> HIDE DEF e
        <5>3. e <= Len(doc) + 1 - j
          BY <5>1, <5>2, <2>1
        <5>4. e \in 1..Len(doc) + 1 - j /\ j + e - 1 = k
          BY <5>1, <5>2, <5>3
        <5> QED  BY <5>4 DEF e
      <4>8. q >= 1 /\ q \in 1..Len(new) /\ ~(q <= i - 1 + n)
        <5> DEFINE e == i - 1 + n
                   z == Len(new)
        <5>1. e \in Int /\ e >= 0 /\ z \in Int
          BY <1>7, <1>12
        <5>2. q \in Int /\ q > e /\ q <= z
          BY <4>4, <4>5, <4>6
        <5> HIDE DEF e, z
        <5>3. q >= 1 /\ q \in 1..z /\ ~(q <= e)
          BY <5>1, <5>2
        <5> QED  BY <5>3 DEF e, z
      <4>9. q \in 1..(i - 1 + n) + (Len(doc) + 1 - j)
        BY <4>3, <4>8
      <4> QED  BY <4>1, <4>5, <4>7, <4>8, <4>9
    <3> HIDE DEF q
    <3>2. new[q] = b[q - (i - 1 + n)] /\ b[q - (i - 1 + n)] = doc[j + (q - (i - 1 + n)) - 1]
      BY <3>1, <1>c, <1>11
    <3> QED  BY <3>1, <3>2, <1>12
  <2> QED  BY <2>2, <2>3
<1>15. Spliced(doc, new, p, m, n)
  BY <1>12, <1>13, <1>14 DEF Spliced
<1>16. n # 0 => n = 4 /\ s \in Launches /\ \A k \in 1..4 : new[p + k] = Block(t, s)[k]
  <2> HAVE n # 0
  <2>1. n = 4 /\ s \in Launches /\ s # None /\ fresh = Block(t, s)
    BY DEF n, Values, fresh
  <2>2. ASSUME NEW k \in 1..4 PROVE new[p + k] = Block(t, s)[k]
    <3> DEFINE x == p + k
    <3>1. x \in 1..i - 1 + n /\ x <= i - 1 + n /\ ~(x <= i - 1) /\ x - (i - 1) = k
          /\ x \in 1..(i - 1 + n) + (Len(doc) + 1 - j)
      BY <1>1, <1>7, <2>1
    <3>2. new[x] = ab[x] /\ ab[x] = fresh[x - (i - 1)]
      <4> HIDE DEF x
      <4>1. new[x] = ab[x]
        BY <3>1, <1>11, Zenon
      <4>2. ab[x] = IF x <= i - 1 THEN a[x] ELSE fresh[x - (i - 1)]
        BY <3>1, <1>10, Zenon
      <4> QED  BY <4>1, <4>2, <3>1
    <3> QED  BY <3>1, <3>2, <2>1
  <2> QED  BY <2>1, <2>2
<1>17. n = 0 => s = None
  BY DEF n
<1>18. m = 0 => Absent(doc, t) /\ ~Stray(doc, t) /\ n = 4 /\ p = Len(doc)
  BY <1>1, <1>4 DEF m, n, i
<1>19. m # 0 => /\ m = 4 /\ IntactAt(doc, t, p + 1)
                /\ \A k \in 1..4 : doc[p + k] = Block(t, Managed(doc, t))[k]
  <2> HAVE m # 0
  <2>1. m = 4 /\ ~ Absent(doc, t) /\ p + 1 = i
    BY <1>7 DEF m
  <2>2. i \in DOMAIN doc /\ IntactAt(doc, t, i)
    BY <2>1, <1>5
  <2>3. /\ Managed(doc, t) \in Launches
        /\ doc[i] = Begin(t) /\ doc[i + 1] = Meta(t, Managed(doc, t))
        /\ doc[i + 2] = Line(t, Managed(doc, t)) /\ doc[i + 3] = End(t)
    BY <2>2, IntactIs
  <2>4. p + 1 = i /\ p + 2 = i + 1 /\ p + 3 = i + 2 /\ p + 4 = i + 3
    BY <1>7
  <2>5. \A k \in 1..4 : k = 1 \/ k = 2 \/ k = 3 \/ k = 4
    OBVIOUS
  <2>6. /\ Block(t, Managed(doc, t))[1] = Begin(t) /\ Block(t, Managed(doc, t))[2] = Meta(t, Managed(doc, t))
        /\ Block(t, Managed(doc, t))[3] = Line(t, Managed(doc, t)) /\ Block(t, Managed(doc, t))[4] = End(t)
    BY <2>3, BlockIs
  <2>7. \A k \in 1..4 : doc[p + k] = Block(t, Managed(doc, t))[k]
    BY <2>3, <2>4, <2>5, <2>6
  <2> QED  BY <2>1, <2>2, <2>7
<1>20. Replaces(doc, new, t, s, p, m, n)
  BY <1>11, <1>15, <1>16, <1>17, <1>18, <1>19 DEF Replaces
<1>21. \E pp, mm, nn \in Nat : Replaces(doc, new, t, s, pp, mm, nn)
  <2> HIDE DEF p
  <2> QED  BY <1>12, <1>20
<1> QED  BY <1>21 DEF new, ab, a, b, i, j, fresh

CarriesBack(p, m, n) ==
  \A i \in Nat : i <= p \/ i > p + m =>
    /\ Carry(i, p, m, n) \in Nat /\ Carry(Carry(i, p, m, n), p, n, m) = i
    /\ Carry(i, p, m, n) <= p \/ Carry(i, p, m, n) > p + n

LEMMA Carried ==
  ASSUME NEW p \in Nat, NEW m \in Nat, NEW n \in Nat
  PROVE  CarriesBack(p, m, n)
<1> SUFFICES ASSUME NEW i \in Nat, i <= p \/ i > p + m
             PROVE  /\ Carry(i, p, m, n) \in Nat /\ Carry(Carry(i, p, m, n), p, n, m) = i
                    /\ Carry(i, p, m, n) <= p \/ Carry(i, p, m, n) > p + n
  BY DEF CarriesBack
<1>1. CASE i <= p
  <2>1. Carry(i, p, m, n) = i
    BY <1>1 DEF Carry
  <2>2. Carry(i, p, n, m) = i
    BY <1>1 DEF Carry
  <2> QED  BY <1>1, <2>1, <2>2
<1>2. CASE ~(i <= p)
  <2>1. i > p + m /\ Carry(i, p, m, n) = i + n - m
    BY <1>2 DEF Carry
  <2>2. i + n - m \in Nat /\ i + n - m > p + n /\ ~(i + n - m <= p) /\ (i + n - m) + m - n = i
    BY <2>1
  <2>3. Carry(i + n - m, p, n, m) = (i + n - m) + m - n
    BY <2>2 DEF Carry
  <2> QED  BY <1>2, <2>1, <2>2, <2>3
<1> QED  BY <1>1, <1>2

(* What is at a line of the new document, and where it was.                *)
Origins(doc, new, t, s, p, m, n) ==
  /\ \A i \in DOMAIN doc :
       \/ /\ i <= p \/ i > p + m
          /\ Carry(i, p, m, n) \in DOMAIN new /\ new[Carry(i, p, m, n)] = doc[i]
          /\ Carry(Carry(i, p, m, n), p, n, m) = i
       \/ /\ i > p /\ i <= p + m /\ m = 4 /\ i - p \in 1..4
          /\ doc[i] = Block(t, Managed(doc, t))[i - p] /\ doc[i][2] = t
  /\ \A j \in DOMAIN new :
       \/ /\ j <= p \/ j > p + n
          /\ Carry(j, p, n, m) \in DOMAIN doc /\ doc[Carry(j, p, n, m)] = new[j]
          /\ Carry(j, p, n, m) <= p \/ Carry(j, p, n, m) > p + m
          /\ Carry(Carry(j, p, n, m), p, m, n) = j
       \/ /\ j > p /\ j <= p + n /\ n = 4 /\ j - p \in 1..4
          /\ new[j] = Block(t, s)[j - p] /\ new[j][2] = t

LEMMA Origin ==
  ASSUME NEW doc \in Seq(Lines), NEW new, NEW t \in Targets, NEW s \in Values,
         NEW p \in Nat, NEW m \in Nat, NEW n \in Nat, Replaces(doc, new, t, s, p, m, n)
  PROVE  Origins(doc, new, t, s, p, m, n)
<1>a. CarriesBack(p, m, n) /\ CarriesBack(p, n, m)
  BY Carried
<1>1. /\ new \in Seq(Lines) /\ Spliced(doc, new, p, m, n) /\ Spliced(new, doc, p, n, m)
      /\ DOMAIN doc = 1..Len(doc) /\ Len(doc) \in Nat /\ DOMAIN new = 1..Len(new) /\ Len(new) \in Nat
  BY SplicedBack, LenProperties DEF Replaces
<1>2. ASSUME NEW i \in DOMAIN doc
      PROVE  \/ /\ i <= p \/ i > p + m
                /\ Carry(i, p, m, n) \in DOMAIN new /\ new[Carry(i, p, m, n)] = doc[i]
                /\ Carry(Carry(i, p, m, n), p, n, m) = i
             \/ /\ i > p /\ i <= p + m /\ m = 4 /\ i - p \in 1..4
                /\ doc[i] = Block(t, Managed(doc, t))[i - p] /\ doc[i][2] = t
  <2>1. i \in Nat
    BY <1>1
  <2>2. CASE i <= p \/ i > p + m
    <3>1. Carry(i, p, m, n) \in DOMAIN new /\ new[Carry(i, p, m, n)] = doc[i]
      BY <1>1, <2>2 DEF Spliced
    <3>2. Carry(Carry(i, p, m, n), p, n, m) = i
      BY <1>a, <2>1, <2>2 DEF CarriesBack
    <3> QED  BY <2>2, <3>1, <3>2, Zenon
  <2>3. CASE ~(i <= p \/ i > p + m)
    <3>1. m # 0 /\ i > p /\ i <= p + m
      BY <2>1, <2>3
    <3>2. /\ m = 4 /\ \A k \in 1..4 : doc[p + k] = Block(t, Managed(doc, t))[k]
          /\ IntactAt(doc, t, p + 1)
      BY <3>1 DEF Replaces
    <3>3. i - p \in 1..4 /\ p + (i - p) = i
      BY <2>1, <3>1, <3>2
    <3>4. doc[i] = Block(t, Managed(doc, t))[i - p]
      BY <3>2, <3>3
    <3>5. p + 1 \in DOMAIN doc
      BY <1>1, <2>1, <3>1, <3>2
    <3>6. Managed(doc, t) \in Launches
      BY <3>2, <3>5, IntactIs
    <3>7. \A k \in 1..4 : Block(t, Managed(doc, t))[k][2] = t
      BY <3>6, BlockIs
    <3> QED  BY <3>1, <3>2, <3>3, <3>4, <3>7
  <2> QED  BY <2>2, <2>3
<1>3. ASSUME NEW j \in DOMAIN new
      PROVE  \/ /\ j <= p \/ j > p + n
                /\ Carry(j, p, n, m) \in DOMAIN doc /\ doc[Carry(j, p, n, m)] = new[j]
                /\ Carry(j, p, n, m) <= p \/ Carry(j, p, n, m) > p + m
                /\ Carry(Carry(j, p, n, m), p, m, n) = j
             \/ /\ j > p /\ j <= p + n /\ n = 4 /\ j - p \in 1..4
                /\ new[j] = Block(t, s)[j - p] /\ new[j][2] = t
  <2>1. j \in Nat
    BY <1>1
  <2>2. CASE j <= p \/ j > p + n
    <3>1. Carry(j, p, n, m) \in DOMAIN doc /\ doc[Carry(j, p, n, m)] = new[j]
      BY <1>1, <2>2 DEF Spliced
    <3>2. /\ Carry(Carry(j, p, n, m), p, m, n) = j
          /\ Carry(j, p, n, m) <= p \/ Carry(j, p, n, m) > p + m
      BY <1>a, <2>1, <2>2 DEF CarriesBack
    <3> QED  BY <2>2, <3>1, <3>2, Zenon
  <2>3. CASE ~(j <= p \/ j > p + n)
    <3>1. n # 0 /\ j > p /\ j <= p + n
      BY <2>1, <2>3
    <3>2. n = 4 /\ s \in Launches /\ \A k \in 1..4 : new[p + k] = Block(t, s)[k]
      BY <3>1 DEF Replaces
    <3>3. j - p \in 1..4 /\ p + (j - p) = j
      BY <2>1, <3>1, <3>2
    <3>4. new[j] = Block(t, s)[j - p]
      BY <3>2, <3>3
    <3>5. \A k \in 1..4 : Block(t, s)[k][2] = t
      BY <3>2, BlockIs
    <3> QED  BY <3>1, <3>2, <3>3, <3>4, <3>5
  <2> QED  BY <2>2, <2>3
<1> QED  BY <1>2, <1>3 DEF Origins

(* Lines of other targets move with the text around them.                  *)
Moved(doc, new, u, p, m, n) ==
  \A line : line[2] = u => Places(new, line) = {Carry(i, p, m, n) : i \in Places(doc, line)}

LEMMA PlacesElsewhere ==
  ASSUME NEW doc \in Seq(Lines), NEW new, NEW t \in Targets, NEW s \in Values,
         NEW p \in Nat, NEW m \in Nat, NEW n \in Nat, Replaces(doc, new, t, s, p, m, n),
         NEW u, u # t
  PROVE  Moved(doc, new, u, p, m, n)
<1>0. Origins(doc, new, t, s, p, m, n)
  BY Origin
<1> SUFFICES ASSUME NEW line, line[2] = u
             PROVE  Places(new, line) = {Carry(i, p, m, n) : i \in Places(doc, line)}
  BY DEF Moved
<1>1. ASSUME NEW j \in Places(new, line)
      PROVE  \E i \in Places(doc, line) : j = Carry(i, p, m, n)
  <2>1. j \in DOMAIN new /\ new[j] = line
    BY DEF Places
  <2>2. /\ Carry(j, p, n, m) \in DOMAIN doc /\ doc[Carry(j, p, n, m)] = new[j]
        /\ Carry(Carry(j, p, n, m), p, m, n) = j
    BY <1>0, <2>1 DEF Origins
  <2> QED  BY <2>1, <2>2 DEF Places
<1>2. ASSUME NEW i \in Places(doc, line)
      PROVE  Carry(i, p, m, n) \in Places(new, line)
  <2>1. i \in DOMAIN doc /\ doc[i] = line
    BY DEF Places
  <2>2. Carry(i, p, m, n) \in DOMAIN new /\ new[Carry(i, p, m, n)] = doc[i]
    BY <1>0, <2>1 DEF Origins
  <2> QED  BY <2>1, <2>2 DEF Places
<1> QED  BY <1>1, <1>2

LEMMA Elsewhere ==
  ASSUME NEW doc \in Seq(Lines), NEW new, NEW t \in Targets, NEW s \in Values,
         NEW p \in Nat, NEW m \in Nat, NEW n \in Nat, Replaces(doc, new, t, s, p, m, n),
         NEW u \in Targets, u # t, NEW want, Found(doc, u, want) # "conflict"
  PROVE  Found(new, u, want) = Found(doc, u, want) /\ Managed(new, u) = Managed(doc, u)
<1>0. Origins(doc, new, t, s, p, m, n)
  BY Origin
<1>1. /\ new \in Seq(Lines)
      /\ DOMAIN doc = 1..Len(doc) /\ Len(doc) \in Nat /\ DOMAIN new = 1..Len(new) /\ Len(new) \in Nat
  BY LenProperties DEF Replaces
<1>2. /\ Places(new, Begin(u)) = {Carry(i, p, m, n) : i \in Places(doc, Begin(u))}
      /\ Places(new, End(u)) = {Carry(i, p, m, n) : i \in Places(doc, End(u))}
  <2>1. Moved(doc, new, u, p, m, n)
    BY PlacesElsewhere
  <2>2. Begin(u)[2] = u /\ End(u)[2] = u
    BY Kinds
  <2> QED  BY <2>1, <2>2 DEF Moved
<1>3. Absent(new, u) <=> Absent(doc, u)
  BY <1>2 DEF Absent
<1>4. CASE Absent(doc, u)
  <2>1. ~ Stray(doc, u)
    BY <1>4 DEF Found
  <2>2. ~ Stray(new, u)
    <3> SUFFICES ASSUME NEW j \in DOMAIN new, new[j][1] = "meta", new[j][2] = u PROVE FALSE
      BY DEF Stray
    <3>1. Carry(j, p, n, m) \in DOMAIN doc /\ doc[Carry(j, p, n, m)] = new[j]
      BY <1>0 DEF Origins
    <3> QED  BY <2>1, <3>1 DEF Stray
  <2>3. ~ Intact(doc, u) /\ ~ Intact(new, u)
    BY <1>1, <1>3, <1>4, ManagedType
  <2> QED  BY <1>3, <1>4, <2>1, <2>2, <2>3 DEF Found, Managed
<1>5. CASE ~ Absent(doc, u)
  <2>1. Intact(doc, u)
    BY <1>5 DEF Found
  <2>2. PICK i \in DOMAIN doc : IntactAt(doc, u, i)
    BY <2>1 DEF Intact
  <2> DEFINE r == Carry(i, p, m, n)
  <2>3. /\ i \in Nat /\ i >= 1 /\ i + 3 <= Len(doc) /\ Managed(doc, u) = doc[i + 1][3]
        /\ Managed(doc, u) \in Launches
        /\ doc[i] = Begin(u) /\ doc[i + 1] = Meta(u, Managed(doc, u))
        /\ doc[i + 2] = Line(u, Managed(doc, u)) /\ doc[i + 3] = End(u)
    BY <2>2, IntactIs
  <2>4. i + 1 \in DOMAIN doc /\ i + 2 \in DOMAIN doc /\ i + 3 \in DOMAIN doc
    BY <1>1, <2>3
  <2>5. doc[i][2] # t /\ doc[i + 1][2] # t /\ doc[i + 2][2] # t /\ doc[i + 3][2] # t
    BY <2>3, Kinds
  <2>6. /\ Carry(i + 1, p, m, n) \in DOMAIN new /\ new[Carry(i + 1, p, m, n)] = doc[i + 1]
        /\ Carry(i + 2, p, m, n) \in DOMAIN new /\ new[Carry(i + 2, p, m, n)] = doc[i + 2]
        /\ r \in DOMAIN new
    BY <1>0, <2>4, <2>5 DEF Origins
  <2>7. /\ i <= p \/ i > p + m
        /\ i + 3 <= p \/ i + 3 > p + m
    BY <1>0, <2>4, <2>5 DEF Origins
  <2>8. i + 3 <= p \/ i > p + m
    <3>1. CASE m = 0
      <4>1. p = Len(doc)
        BY <3>1 DEF Replaces
      <4> QED  BY <4>1, <2>3
    <3>2. CASE m # 0
      <4>1. m = 4
        BY <3>2 DEF Replaces
      <4> QED  BY <4>1, <2>3, <2>7
    <3> QED  BY <3>1, <3>2
  <2>9. Carry(i + 1, p, m, n) = r + 1 /\ Carry(i + 2, p, m, n) = r + 2 /\ Carry(i + 3, p, m, n) = r + 3
    <3>1. CASE i + 3 <= p
      <4>1. i <= p /\ i + 1 <= p /\ i + 2 <= p
        BY <3>1, <2>3
      <4> QED  BY <3>1, <4>1 DEF Carry
    <3>2. CASE i > p + m
      <4>1. ~(i <= p) /\ ~(i + 1 <= p) /\ ~(i + 2 <= p) /\ ~(i + 3 <= p)
        BY <3>2, <2>3
      <4>2. r = i + n - m /\ Carry(i + 1, p, m, n) = (i + 1) + n - m
            /\ Carry(i + 2, p, m, n) = (i + 2) + n - m /\ Carry(i + 3, p, m, n) = (i + 3) + n - m
        BY <4>1 DEF Carry
      <4>3. /\ (i + 1) + n - m = (i + n - m) + 1 /\ (i + 2) + n - m = (i + n - m) + 2
            /\ (i + 3) + n - m = (i + n - m) + 3
        <5>1. i \in Nat
          BY <2>3
        <5> QED  BY <5>1
      <4> HIDE DEF r
      <4> QED  BY <4>2, <4>3
    <3> QED  BY <2>8, <3>1, <3>2
  <2>10. Places(new, Begin(u)) = {r} /\ Places(new, End(u)) = {r + 3}
    <3>1. Places(doc, Begin(u)) = {i} /\ Places(doc, End(u)) = {i + 3}
      BY <2>2 DEF IntactAt
    <3> QED  BY <1>2, <3>1, <2>9
  <2> HIDE DEF r
  <2>11. IntactAt(new, u, r)
    <3>1. new[r + 1] = Meta(u, Managed(doc, u)) /\ new[r + 2] = Line(u, Managed(doc, u))
      BY <2>3, <2>6, <2>9
    <3>2. new[r + 1][1] = "meta" /\ new[r + 1][2] = u /\ new[r + 2] = Line(u, new[r + 1][3])
      BY <3>1, Kinds
    <3> QED  BY <2>10, <3>2 DEF IntactAt
  <2>12. Intact(new, u) /\ Managed(new, u) = new[r + 1][3] /\ r \in DOMAIN new
    BY <1>1, <2>6, <2>11, IntactIs
  <2>13. Managed(new, u) = Managed(doc, u)
    BY <2>3, <2>6, <2>9, <2>12
  <2> QED  BY <1>3, <1>5, <2>1, <2>12, <2>13 DEF Found
<1> QED  BY <1>4, <1>5

(* The target in hand: its block is the new one, or gone.                  *)
LEMMA Here ==
  ASSUME NEW doc \in Seq(Lines), NEW new, NEW t \in Targets, NEW s \in Values,
         NEW p \in Nat, NEW m \in Nat, NEW n \in Nat, Replaces(doc, new, t, s, p, m, n)
  PROVE  /\ n # 0 => Found(new, t, s) = "noop" /\ IntactAt(new, t, p + 1)
         /\ n = 0 => Absent(new, t)
<1>0. Origins(doc, new, t, s, p, m, n)
  BY Origin
<1>1. /\ new \in Seq(Lines) /\ Len(new) + m = Len(doc) + n /\ p + m <= Len(doc)
      /\ DOMAIN doc = 1..Len(doc) /\ Len(doc) \in Nat /\ DOMAIN new = 1..Len(new) /\ Len(new) \in Nat
  BY LenProperties DEF Replaces, Spliced
<1>2. /\ \A i \in Places(doc, Begin(t)) : i > p /\ i <= p + m
      /\ \A i \in Places(doc, End(t)) : i > p /\ i <= p + m
  <2>1. CASE m = 0
    BY <2>1 DEF Replaces, Absent
  <2>2. CASE m # 0
    <3>1. m = 4 /\ IntactAt(doc, t, p + 1)
      BY <2>2 DEF Replaces
    <3>2. Places(doc, Begin(t)) = {p + 1} /\ Places(doc, End(t)) = {p + 1 + 3}
      BY <3>1 DEF IntactAt
    <3> QED  BY <3>1, <3>2
  <2> QED  BY <2>1, <2>2
<1>3. ASSUME NEW line, line = Begin(t) \/ line = End(t), NEW j \in Places(new, line)
      PROVE  n = 4 /\ j - p \in 1..4 /\ line = Block(t, s)[j - p]
  <2>1. j \in DOMAIN new /\ new[j] = line
    BY DEF Places
  <2>2. CASE j <= p \/ j > p + n
    <3>1. /\ Carry(j, p, n, m) \in DOMAIN doc /\ doc[Carry(j, p, n, m)] = new[j]
          /\ Carry(j, p, n, m) <= p \/ Carry(j, p, n, m) > p + m
      <4>1. j \in Nat /\ ~(j > p /\ j <= p + n)
        BY <1>1, <2>1, <2>2
      <4> QED  BY <1>0, <2>1, <4>1 DEF Origins
    <3>2. Carry(j, p, n, m) \in Places(doc, line)
      BY <2>1, <3>1 DEF Places
    <3>3. Carry(j, p, n, m) > p /\ Carry(j, p, n, m) <= p + m
      BY <1>2, <1>3, <3>2
    <3>4. Carry(j, p, n, m) \in Nat
      BY <1>1, <3>1
    <3> QED  BY <3>1, <3>3, <3>4
  <2>3. CASE ~(j <= p \/ j > p + n)
    BY <1>0, <2>1, <2>3 DEF Origins
  <2> QED  BY <2>2, <2>3
<1>4. CASE n = 0
  BY <1>3, <1>4 DEF Absent
<1>5. CASE n # 0
  <2>1. n = 4 /\ s \in Launches /\ \A k \in 1..4 : new[p + k] = Block(t, s)[k]
    BY <1>5 DEF Replaces
  <2>2. /\ Block(t, s)[1] = Begin(t) /\ Block(t, s)[2] = Meta(t, s)
        /\ Block(t, s)[3] = Line(t, s) /\ Block(t, s)[4] = End(t)
    BY <2>1, BlockIs
  <2>3. p + 1 \in DOMAIN new /\ p + 2 \in DOMAIN new /\ p + 3 \in DOMAIN new /\ p + 4 \in DOMAIN new
    BY <1>1, <2>1
  <2>4. \A k \in 1..4 : k = 1 \/ k = 2 \/ k = 3 \/ k = 4
    OBVIOUS
  <2>5. /\ \A k \in 1..4 : Block(t, s)[k] = Begin(t) => k = 1
        /\ \A k \in 1..4 : Block(t, s)[k] = End(t) => k = 4
    BY <2>2, <2>4, Kinds
  <2>6. Places(new, Begin(t)) = {p + 1}
    <3>1. new[p + 1] = Begin(t)
      BY <2>1, <2>2
    <3>2. \A j \in Places(new, Begin(t)) : j = p + 1
      <4> TAKE j \in Places(new, Begin(t))
      <4>1. j - p \in 1..4 /\ Begin(t) = Block(t, s)[j - p]
        BY <1>3
      <4>2. j - p = 1 /\ j \in Nat
        BY <4>1, <2>5, <1>1 DEF Places
      <4> QED  BY <4>2
    <3> QED  BY <2>3, <3>1, <3>2 DEF Places
  <2>7. Places(new, End(t)) = {p + 1 + 3}
    <3>1. new[p + 4] = End(t) /\ p + 4 = p + 1 + 3
      BY <2>1, <2>2
    <3>2. \A j \in Places(new, End(t)) : j = p + 4
      <4> TAKE j \in Places(new, End(t))
      <4>1. j - p \in 1..4 /\ End(t) = Block(t, s)[j - p]
        BY <1>3
      <4>2. j - p = 4 /\ j \in Nat
        BY <4>1, <2>5, <1>1 DEF Places
      <4> QED  BY <4>2
    <3> QED  BY <2>3, <3>1, <3>2 DEF Places
  <2>8. IntactAt(new, t, p + 1)
    <3>1. new[p + 1 + 1] = Meta(t, s) /\ new[p + 1 + 2] = Line(t, s)
      <4>1. p + 1 + 1 = p + 2 /\ p + 1 + 2 = p + 3
        OBVIOUS
      <4> QED  BY <4>1, <2>1, <2>2
    <3>2. new[p + 1 + 1][1] = "meta" /\ new[p + 1 + 1][2] = t /\ new[p + 1 + 2] = Line(t, new[p + 1 + 1][3])
      BY <3>1, Kinds
    <3> QED  BY <2>6, <2>7, <3>2 DEF IntactAt
  <2>9. Intact(new, t) /\ Managed(new, t) = s /\ ~Absent(new, t)
    <3>1. Intact(new, t) /\ Managed(new, t) = new[p + 1 + 1][3] /\ ~Absent(new, t)
      BY <1>1, <2>3, <2>8, IntactIs
    <3>2. p + 1 + 1 = p + 2 /\ new[p + 2] = Meta(t, s)
      BY <2>1, <2>2
    <3> QED  BY <3>1, <3>2, Kinds
  <2>10. s # None
    BY <2>1, NoneApart
  <2> QED  BY <1>5, <2>8, <2>9, <2>10 DEF Found
<1> QED  BY <1>4, <1>5

LEMMA NoCopies ==
  ASSUME NEW doc \in Seq(Lines), NEW new, NEW t \in Targets, NEW s \in Values,
         NEW p \in Nat, NEW m \in Nat, NEW n \in Nat, Replaces(doc, new, t, s, p, m, n),
         ~ Copied(doc)
  PROVE  ~ Copied(new) /\ Found(new, t, s) = "noop"
<1>0. Origins(doc, new, t, s, p, m, n)
  BY Origin
<1>1. /\ new \in Seq(Lines)
      /\ DOMAIN doc = 1..Len(doc) /\ Len(doc) \in Nat /\ DOMAIN new = 1..Len(new) /\ Len(new) \in Nat
  BY LenProperties DEF Replaces, Spliced
<1> DEFINE Old(j) == Carry(j, p, n, m)
<1>2. ASSUME NEW j \in DOMAIN new, new[j][1] = "meta", ~(j = p + 2 /\ new[j][2] = t)
      PROVE  /\ Old(j) \in DOMAIN doc /\ doc[Old(j)] = new[j] /\ Carry(Old(j), p, m, n) = j
             /\ Old(j) <= p \/ Old(j) > p + m
  <2>1. CASE n = 4 /\ j - p \in 1..4 /\ new[j] = Block(t, s)[j - p] /\ new[j][2] = t
    <3>1. s \in Launches
      BY <2>1 DEF Replaces
    <3>2. Block(t, s)[1][1] = "begin" /\ Block(t, s)[3][1] = "line" /\ Block(t, s)[4][1] = "end"
      BY <3>1, BlockIs, Kinds
    <3>3. j - p = 1 \/ j - p = 2 \/ j - p = 3 \/ j - p = 4
      BY <2>1
    <3>4. j - p = 2 => j = p + 2
      BY <1>1
    <3> QED  BY <2>1, <3>2, <3>3, <3>4, <1>2
  <2>2. CASE ~(n = 4 /\ j - p \in 1..4 /\ new[j] = Block(t, s)[j - p] /\ new[j][2] = t)
    BY <1>0, <2>2 DEF Origins
  <2> QED  BY <2>1, <2>2
<1>3. ASSUME NEW j \in DOMAIN new, new[j][1] = "meta", new[j][2] = t, ~(j = p + 2)
      PROVE  FALSE
  <2>1. Old(j) \in DOMAIN doc /\ doc[Old(j)] = new[j] /\ (Old(j) <= p \/ Old(j) > p + m)
    BY <1>2, <1>3
  <2>2. CASE m = 0
    <3>1. ~ Stray(doc, t)
      BY <2>2 DEF Replaces
    <3> QED  BY <1>3, <2>1, <3>1 DEF Stray
  <2>3. CASE m # 0
    <3>1. m = 4 /\ IntactAt(doc, t, p + 1)
      BY <2>3 DEF Replaces
    <3>2. doc[p + 2][1] = "meta" /\ doc[p + 2][2] = t /\ p + 2 \in DOMAIN doc
      <4>0. p + m <= Len(doc)
        BY DEF Replaces, Spliced
      <4>1. p + 1 + 1 = p + 2 /\ p + 2 \in DOMAIN doc
        BY <1>1, <3>1, <4>0
      <4> QED  BY <3>1, <4>1 DEF IntactAt
    <3>3. Old(j) # p + 2
      BY <1>1, <2>1, <3>1
    <3> QED  BY <1>3, <2>1, <3>2, <3>3 DEF Copied
  <2> QED  BY <2>2, <2>3
<1>4. ~ Copied(new)
  <2> SUFFICES ASSUME NEW i \in DOMAIN new, NEW j \in DOMAIN new, i # j,
                      new[i][1] = "meta", new[j][1] = "meta", new[i][2] = new[j][2]
               PROVE  FALSE
    BY DEF Copied
  <2>1. new[i][2] # t
    BY <1>3
  <2>2. /\ Old(i) \in DOMAIN doc /\ doc[Old(i)] = new[i] /\ Carry(Old(i), p, m, n) = i
        /\ Old(j) \in DOMAIN doc /\ doc[Old(j)] = new[j] /\ Carry(Old(j), p, m, n) = j
    BY <1>2, <2>1
  <2>3. Old(i) # Old(j)
    BY <2>2
  <2> QED  BY <2>2, <2>3 DEF Copied
<1>5. CASE n # 0
  BY <1>4, <1>5, Here
<1>6. CASE n = 0
  <2>1. Absent(new, t) /\ s = None
    BY <1>6, Here DEF Replaces
  <2>2. ~ Stray(new, t)
    <3> SUFFICES ASSUME NEW j \in DOMAIN new, new[j][1] = "meta", new[j][2] = t PROVE FALSE
      BY DEF Stray
    <3>1. j = p + 2
      BY <1>3
    <3>2. m = 4 /\ IntactAt(doc, t, p + 1) /\ Spliced(doc, new, p, m, n)
      BY <1>6 DEF Replaces
    <3>3. Old(j) \in DOMAIN doc /\ doc[Old(j)] = new[j] /\ (Old(j) <= p \/ Old(j) > p + m)
      <4>1. ~(n = 4)
        BY <1>6
      <4> QED  BY <1>0, <4>1 DEF Origins
    <3>4. doc[p + 2][1] = "meta" /\ doc[p + 2][2] = t /\ p + 2 \in DOMAIN doc
      <4>1. p + 1 + 1 = p + 2 /\ p + 2 \in DOMAIN doc
        BY <1>1, <3>2 DEF Spliced
      <4> QED  BY <3>2, <4>1 DEF IntactAt
    <3>5. Old(j) # p + 2
      BY <1>1, <3>2, <3>3
    <3> QED  BY <3>3, <3>4, <3>5 DEF Copied
  <2> QED  BY <1>4, <2>1, <2>2 DEF Found
<1> QED  BY <1>5, <1>6

-----------------------------------------------------------------------------
(* Types.                                                                  *)

LEMMA JobFields ==
  ASSUME NEW job, Sound(job)
  PROVE  /\ job.at \in Stops \cup {"idle"} /\ job.spec \in Values /\ job.wants \in SUBSET Targets
         /\ job.intent \in Reviewed /\ job.todo \in SUBSET Targets /\ job.doc \in Seq(Lines)
         /\ job.disturbed \in BOOLEAN
         /\ DOMAIN job.intent \subseteq Targets /\ \A t \in DOMAIN job.intent : job.intent[t] \in Intents
         /\ job.at = "idle" <=> job.todo = {}
         /\ job.at # "idle" => job.todo \subseteq DOMAIN job.intent /\ job.spec \in Launches
         /\ job.at \in Stops <=> job.at # "idle"
<1>1. /\ job.at \in Stops \cup {"idle"} /\ job.spec \in Values /\ job.wants \in SUBSET Targets
      /\ job.intent \in Reviewed /\ job.todo \in SUBSET Targets /\ job.doc \in Seq(Lines)
      /\ job.disturbed \in BOOLEAN
  BY DEF Sound, Jobs
<1>2. DOMAIN job.intent \subseteq Targets /\ \A t \in DOMAIN job.intent : job.intent[t] \in Intents
  <2>1. PICK D \in SUBSET Targets : job.intent \in [D -> Intents]
    BY <1>1 DEF Reviewed
  <2> QED  BY <2>1
<1> QED  BY <1>1, <1>2 DEF Sound, Stops

LEMMA InHandIs ==
  ASSUME InHand, NEW c \in Commands
  PROVE  Sound(cmd[c])
BY DEF InHand

LEMMA IdleSound == Sound(Idle) /\ Idle.at = "idle"
<1>1. << >> \in Reviewed
  <2>1. << >> \in [{} -> Intents] /\ {} \in SUBSET Targets
    OBVIOUS
  <2> QED  BY <2>1 DEF Reviewed
<1>2. Idle \in Jobs
  <2>1. << >> \in Seq(Lines) /\ None \in Values
    BY DEF Values
  <2> QED  BY <1>1, <2>1 DEF Idle, Jobs
<1> QED  BY <1>2 DEF Sound, Idle

(* The next stop of a command.                                             *)
LEMMA NextStop ==
  ASSUME NEW job, Sound(job), job.at # "idle", NEW x \in Stops, NEW d \in Seq(Lines)
  PROVE  /\ Sound([job EXCEPT !.at = x]) /\ Sound([job EXCEPT !.at = x, !.doc = d])
<1>1. [job EXCEPT !.at = x] \in Jobs /\ [job EXCEPT !.at = x, !.doc = d] \in Jobs
  BY DEF Sound, Jobs
<1>2. x # "idle"
  BY DEF Stops
<1>3. /\ [job EXCEPT !.at = x].at = x /\ [job EXCEPT !.at = x].todo = job.todo
      /\ [job EXCEPT !.at = x].intent = job.intent /\ [job EXCEPT !.at = x].spec = job.spec
      /\ [job EXCEPT !.at = x, !.doc = d].at = x /\ [job EXCEPT !.at = x, !.doc = d].todo = job.todo
      /\ [job EXCEPT !.at = x, !.doc = d].intent = job.intent
      /\ [job EXCEPT !.at = x, !.doc = d].spec = job.spec
  BY DEF Sound, Jobs
<1> QED  BY <1>1, <1>2, <1>3 DEF Sound

LEMMA ThisIs ==
  ASSUME InHand, NEW c \in Commands, cmd[c].at # "idle"
  PROVE  /\ This(c) \in cmd[c].todo /\ This(c) \in Targets /\ This(c) \in DOMAIN cmd[c].intent
         /\ cmd[c].intent[This(c)] \in Intents /\ Want(c) \in Values /\ cmd[c].spec \in Launches
<1>1. Sound(cmd[c])
  BY InHandIs
<1>2. cmd[c].todo # {} /\ cmd[c].todo \subseteq Nat
  <2>1. cmd[c].todo # {} /\ cmd[c].todo \subseteq Targets
    BY <1>1, JobFields
  <2> QED  BY <2>1, NoneApart
<1>3. \E n \in cmd[c].todo : \A m \in cmd[c].todo : n <= m
  BY <1>2, Least
<1>4. This(c) \in cmd[c].todo
  BY <1>3, Zenon DEF This, Min
<1> QED  BY <1>1, <1>4, JobFields DEF Want, Values

LEMMA Disturbs ==
  ASSUME InHand, NEW who
  PROVE  /\ Disturbed(who) \in [Commands -> {job \in Jobs : Sound(job)}]
         /\ \A d \in Commands :
              /\ Disturbed(who)[d] = [cmd[d] EXCEPT !.disturbed = @ \/ (d \notin who /\ cmd[d].at # "idle")]
              /\ d \in who => Disturbed(who)[d] = cmd[d]
<1>1. ASSUME NEW d \in Commands
      PROVE  /\ Disturbed(who)[d] = [cmd[d] EXCEPT !.disturbed = @ \/ (d \notin who /\ cmd[d].at # "idle")]
             /\ d \in who => Disturbed(who)[d] = cmd[d]
             /\ Disturbed(who)[d] \in Jobs /\ Sound(Disturbed(who)[d])
  <2> DEFINE b == cmd[d].disturbed \/ (d \notin who /\ cmd[d].at # "idle")
             job == [cmd[d] EXCEPT !.disturbed = b]
  <2>1. Disturbed(who)[d] = job
    BY DEF Disturbed
  <2>2. Sound(cmd[d])
    BY InHandIs
  <2>3. b \in BOOLEAN
    OBVIOUS
  <2>4. d \in who => b = cmd[d].disturbed
    BY <2>2, JobFields
  <2> HIDE DEF b
  <2>5. job \in Jobs /\ job.at = cmd[d].at /\ job.todo = cmd[d].todo
        /\ job.intent = cmd[d].intent /\ job.spec = cmd[d].spec
    BY <2>2, <2>3 DEF Sound, Jobs
  <2>6. Sound(job)
    BY <2>2, <2>5 DEF Sound
  <2>7. d \in who => job = cmd[d]
    BY <2>2, <2>4 DEF Sound, Jobs
  <2> HIDE DEF job
  <2>8. job = [cmd[d] EXCEPT !.disturbed = @ \/ (d \notin who /\ cmd[d].at # "idle")]
    BY DEF job, b
  <2> QED  BY <2>1, <2>5, <2>6, <2>7, <2>8
<1>2. Disturbed(who) = [d \in Commands |-> Disturbed(who)[d]]
  BY DEF Disturbed
<1> HIDE DEF Disturbed
<1> QED  BY <1>1, <1>2

(* What the steps of a command do to the commands.                         *)
Good == {job \in Jobs : Sound(job)}
Becomes(c, job) ==
  /\ cmd' \in [Commands -> Good] /\ cmd'[c] = job
  /\ \A d \in Commands \ {c} : cmd'[d] = cmd[d]
Shakes(c, job) ==
  /\ cmd' \in [Commands -> Good] /\ cmd'[c] = job
  /\ \A d \in Commands \ {c} : cmd'[d] = [cmd[d] EXCEPT !.disturbed = @ \/ cmd[d].at # "idle"]

LEMMA EndsDoes ==
  ASSUME InHand, NEW c \in Commands, Ends(c)
  PROVE  Becomes(c, Idle)
<1>1. Idle \in Good
  BY IdleSound DEF Good, Sound
<1>2. cmd' = [cmd EXCEPT ![c] = Idle] /\ cmd \in [Commands -> Good]
  BY DEF Ends, InHand, Good
<1> HIDE DEF Idle
<1> QED  BY <1>1, <1>2 DEF Becomes

LEMMA GotoDoes ==
  ASSUME InHand, NEW c \in Commands, cmd[c].at # "idle", NEW x \in Stops, Goto(c, x)
  PROVE  Becomes(c, [cmd[c] EXCEPT !.at = x])
<1>1. [cmd[c] EXCEPT !.at = x] \in Good
  <2>1. Sound(cmd[c]) /\ << >> \in Seq(Lines)
    BY InHandIs
  <2>2. Sound([cmd[c] EXCEPT !.at = x])
    BY <2>1, NextStop
  <2> QED  BY <2>2 DEF Good, Sound
<1>2. cmd' = [cmd EXCEPT ![c].at = x] /\ cmd \in [Commands -> Good]
  BY DEF Goto, InHand, Good
<1> QED  BY <1>1, <1>2 DEF Becomes

LEMMA BeginsDoes ==
  ASSUME TypeInv, NEW c \in Commands, Begins(c)
  PROVE  Becomes(c, [Idle EXCEPT !.at = "replan", !.spec = launch, !.wants = Wanted,
                !.todo = Registered, !.intent = [t \in Registered |-> Intended(t)],
                !.disturbed = Copied(tab)])
<1> DEFINE plan == [t \in Registered |-> Intended(t)]
           job == [Idle EXCEPT !.at = "replan", !.spec = launch, !.wants = Wanted,
                !.todo = Registered, !.intent = plan, !.disturbed = Copied(tab)]
<1>1. /\ Registered # {} /\ cmd' = [cmd EXCEPT ![c] = job]
      /\ \A t \in Registered : Intended(t).disposition # "conflict"
  BY Zenon DEF Begins
<1>2. Registered \subseteq Targets /\ Wanted \subseteq Targets /\ launch \in Launches
      /\ record \in [Targets -> Values] /\ tab \in Seq(Lines)
  BY DEF Registered, Wanted, TypeInv, TypeOK
<1>3. plan \in Reviewed
  <2>1. ASSUME NEW t \in Registered PROVE Intended(t) \in Intents
    <3> DEFINE s == IF t \in Wanted THEN launch ELSE None
    <3>1. Intended(t) = Intent(t, s) /\ Intent(t, s).disposition # "conflict"
      BY <1>1 DEF Intended
    <3> HIDE DEF s
    <3>2. Intent(t, s) = [disposition |-> Guarded(tab, t, s), managed |-> Managed(tab, t), record |-> record[t]]
      BY DEF Intent
    <3>3. Guarded(tab, t, s) # "conflict"
      BY <3>1, <3>2
    <3>4. Guarded(tab, t, s) = Found(tab, t, s)
      BY <3>3, GuardedType
    <3>5. Guarded(tab, t, s) \in {"noop", "create", "update", "remove"}
      BY <3>3, <3>4, FoundType
    <3>6. Managed(tab, t) \in Values /\ record[t] \in Values
      BY <1>2, ManagedType
    <3> QED  BY <3>1, <3>2, <3>5, <3>6 DEF Intents
  <2>2. plan \in [Registered -> Intents]
    BY <2>1
  <2> HIDE DEF plan
  <2> QED  BY <1>2, <2>2 DEF Reviewed
<1>4. DOMAIN plan = Registered
  OBVIOUS
<1>5. Copied(tab) \in BOOLEAN
  BY DEF Copied
<1> HIDE DEF plan
<1>6. launch \in Values /\ "replan" \in Stops /\ Idle \in Jobs
  BY <1>2, IdleSound DEF Values, Stops, Sound
<1> HIDE DEF Idle
<1>7. job \in Jobs /\ job.at = "replan" /\ job.spec = launch /\ job.todo = Registered /\ job.intent = plan
  BY <1>2, <1>3, <1>5, <1>6 DEF Jobs
<1> HIDE DEF job
<1>8. Sound(job)
  BY <1>1, <1>2, <1>4, <1>7 DEF Sound
<1>9. job \in Good /\ cmd \in [Commands -> Good]
  BY <1>7, <1>8 DEF Good, TypeInv, InHand
<1>10. Becomes(c, job)
  BY <1>1, <1>9 DEF Becomes
<1> QED  BY <1>10 DEF job, plan

LEMMA ReplanDoes ==
  ASSUME TypeInv, NEW c \in Commands, Replan(c)
  PROVE  /\ cmd[c].at = "replan" /\ Inside
         /\ \/ /\ ~((Want(c) # None => This(c) \in current) /\ SameIntent(c)) /\ Becomes(c, Idle)
            \/ /\ SameIntent(c) /\ Becomes(c, [cmd[c] EXCEPT !.at = "inspect", !.doc = tab])
<1>1. cmd[c].at = "replan" /\ Inside /\ InHand /\ tab \in Seq(Lines)
  BY DEF Replan, At, TypeInv, TypeOK
<1>2. CASE (Want(c) # None => This(c) \in current) /\ SameIntent(c)
  <2>1. cmd' = [cmd EXCEPT ![c].at = "inspect", ![c].doc = tab]
    BY <1>2, Zenon DEF Replan
  <2>2. [cmd[c] EXCEPT !.at = "inspect", !.doc = tab] \in Good
    <3>1. Sound(cmd[c]) /\ "inspect" \in Stops
      BY <1>1, InHandIs DEF Stops
    <3>2. Sound([cmd[c] EXCEPT !.at = "inspect", !.doc = tab])
      BY <1>1, <3>1, NextStop
    <3> QED  BY <3>2 DEF Good, Sound
  <2>3. cmd \in [Commands -> Good]
    BY <1>1 DEF InHand, Good
  <2>4. Becomes(c, [cmd[c] EXCEPT !.at = "inspect", !.doc = tab])
    BY <2>1, <2>2, <2>3 DEF Becomes
  <2> QED  BY <1>1, <1>2, <2>4
<1>3. CASE ~((Want(c) # None => This(c) \in current) /\ SameIntent(c))
  <2>1. Ends(c)
    BY <1>3, Zenon DEF Replan
  <2> QED  BY <1>1, <1>3, <2>1, EndsDoes
<1> QED  BY <1>2, <1>3

LEMMA InspectDoes ==
  ASSUME TypeInv, NEW c \in Commands, Inspect(c)
  PROVE  /\ cmd[c].at = "inspect" /\ Inside
         /\ \/ tab # cmd[c].doc /\ Becomes(c, Idle)
            \/ /\ tab = cmd[c].doc /\ cmd[c].intent[This(c)].disposition # "noop"
               /\ Becomes(c, [cmd[c] EXCEPT !.at = "install"])
            \/ /\ tab = cmd[c].doc /\ cmd[c].intent[This(c)].disposition = "noop"
               /\ Becomes(c, [cmd[c] EXCEPT !.at = "check", !.doc = << >>])
<1>1. cmd[c].at = "inspect" /\ Inside /\ InHand
  BY DEF Inspect, At, TypeInv
<1>2. CASE tab # cmd[c].doc
  <2>1. Ends(c)
    BY <1>2, Zenon DEF Inspect
  <2> QED  BY <1>1, <1>2, <2>1, EndsDoes
<1>3. CASE tab = cmd[c].doc /\ cmd[c].intent[This(c)].disposition # "noop"
  <2>1. Goto(c, "install") /\ "install" \in Stops
    BY <1>3 DEF Inspect, Stops
  <2> QED  BY <1>1, <1>3, <2>1, GotoDoes
<1>4. CASE tab = cmd[c].doc /\ cmd[c].intent[This(c)].disposition = "noop"
  <2>1. cmd' = [cmd EXCEPT ![c].at = "check", ![c].doc = << >>]
    BY <1>4 DEF Inspect
  <2>2. [cmd[c] EXCEPT !.at = "check", !.doc = << >>] \in Good
    <3>1. Sound(cmd[c]) /\ "check" \in Stops /\ << >> \in Seq(Lines)
      BY <1>1, InHandIs DEF Stops
    <3>2. Sound([cmd[c] EXCEPT !.at = "check", !.doc = << >>])
      BY <1>1, <3>1, NextStop
    <3> QED  BY <3>2 DEF Good, Sound
  <2>3. cmd \in [Commands -> Good]
    BY <1>1 DEF InHand, Good
  <2>4. Becomes(c, [cmd[c] EXCEPT !.at = "check", !.doc = << >>])
    BY <2>1, <2>2, <2>3 DEF Becomes
  <2> QED  BY <1>1, <1>4, <2>4
<1> QED  BY <1>2, <1>3, <1>4

LEMMA VerifyDoes ==
  ASSUME TypeInv, NEW c \in Commands, Converge(c) \/ Check(c)
  PROVE  /\ cmd[c].at \in {"converge", "check"} /\ Inside
         /\ \/ ~Converged(c) /\ Becomes(c, Idle)
            \/ /\ Converged(c)
               /\ \E x \in {"check", "record"} : Becomes(c, [cmd[c] EXCEPT !.at = x])
<1>1. cmd[c].at \in {"converge", "check"} /\ Inside /\ InHand
  BY DEF Converge, Check, At, TypeInv
<1>2. CASE ~Converged(c)
  <2>1. Ends(c)
    BY <1>2, Zenon DEF Converge, Check
  <2> QED  BY <1>1, <1>2, <2>1, EndsDoes
<1>3. CASE Converged(c)
  <2>1. PICK x \in {"check", "record"} : Goto(c, x)
    BY <1>3, Zenon DEF Converge, Check
  <2>2. x \in Stops /\ cmd[c].at # "idle"
    BY <1>1 DEF Stops
  <2>3. Becomes(c, [cmd[c] EXCEPT !.at = x])
    BY <1>1, <2>1, <2>2, GotoDoes
  <2> QED  BY <1>1, <1>3, <2>3
<1> QED  BY <1>2, <1>3

LEMMA ShakesIs ==
  ASSUME InHand, NEW c \in Commands
  PROVE  /\ Disturbed({c}) \in [Commands -> Good] /\ Disturbed({c})[c] = cmd[c]
         /\ \A d \in Commands \ {c} : Disturbed({c})[d] = [cmd[d] EXCEPT !.disturbed = @ \/ cmd[d].at # "idle"]
<1>1. /\ Disturbed({c}) \in [Commands -> Good] /\ Disturbed({c})[c] = cmd[c]
      /\ \A d \in Commands :
           Disturbed({c})[d] = [cmd[d] EXCEPT !.disturbed = @ \/ (d \notin {c} /\ cmd[d].at # "idle")]
  BY Disturbs DEF Good
<1>2. ASSUME NEW d \in Commands \ {c}
      PROVE  Disturbed({c})[d] = [cmd[d] EXCEPT !.disturbed = @ \/ cmd[d].at # "idle"]
  <2>1. (d \notin {c} /\ cmd[d].at # "idle") = (cmd[d].at # "idle")
    OBVIOUS
  <2> QED  BY <1>1, <2>1
<1> QED  BY <1>1, <1>2

LEMMA InstallDoes ==
  ASSUME TypeInv, NEW c \in Commands, Install(c)
  PROVE  /\ cmd[c].at = "install" /\ Puts(c) /\ UNCHANGED <<record, setVars, edits, troubles>>
         /\ Shakes(c, [cmd[c] EXCEPT !.at = "converge", !.doc = << >>])
<1> DEFINE D == Disturbed({c})
<1>1. /\ cmd[c].at = "install" /\ Puts(c) /\ UNCHANGED <<record, setVars, edits, troubles>>
      /\ cmd' = [D EXCEPT ![c].at = "converge", ![c].doc = << >>] /\ InHand
  BY DEF Install, At, TypeInv
<1>2. /\ D \in [Commands -> Good] /\ D[c] = cmd[c]
      /\ \A d \in Commands \ {c} : D[d] = [cmd[d] EXCEPT !.disturbed = @ \/ cmd[d].at # "idle"]
  BY <1>1, ShakesIs
<1>3. [cmd[c] EXCEPT !.at = "converge", !.doc = << >>] \in Good
  <2>1. Sound(cmd[c]) /\ "converge" \in Stops /\ << >> \in Seq(Lines)
    BY <1>1, InHandIs DEF Stops
  <2>2. Sound([cmd[c] EXCEPT !.at = "converge", !.doc = << >>])
    BY <1>1, <2>1, NextStop
  <2> QED  BY <2>2 DEF Good, Sound
<1> HIDE DEF D
<1>4. cmd'[c] = [cmd[c] EXCEPT !.at = "converge", !.doc = << >>]
  BY <1>1, <1>2
<1>5. cmd' \in [Commands -> Good] /\ \A d \in Commands \ {c} : cmd'[d] = D[d]
  BY <1>1, <1>2, <1>3
<1> QED  BY <1>1, <1>2, <1>4, <1>5 DEF Shakes

LEMMA FailsDoes ==
  ASSUME TypeInv, NEW c \in Commands, Fails(c)
  PROVE  /\ cmd[c].at = "install" /\ UNCHANGED <<record, setVars, edits>>
         /\ troubles < MaxTroubles /\ troubles' = troubles + 1
         /\ \/ Puts(c) /\ Shakes(c, Idle)
            \/ UNCHANGED tab /\ Becomes(c, Idle)
<1> DEFINE D == Disturbed({c})
<1>1. /\ cmd[c].at = "install" /\ UNCHANGED <<record, setVars, edits>>
      /\ troubles < MaxTroubles /\ troubles' = troubles + 1 /\ InHand
      /\ \/ Puts(c) /\ cmd' = [D EXCEPT ![c] = Idle]
         \/ Ends(c) /\ UNCHANGED tab
  BY DEF Fails, Trouble, At, TypeInv
<1>2. CASE Puts(c) /\ cmd' = [D EXCEPT ![c] = Idle]
  <2>1. /\ D \in [Commands -> Good] /\ D[c] = cmd[c]
        /\ \A d \in Commands \ {c} : D[d] = [cmd[d] EXCEPT !.disturbed = @ \/ cmd[d].at # "idle"]
    BY <1>1, ShakesIs
  <2>2. Idle \in Good
    BY IdleSound DEF Good, Sound
  <2> HIDE DEF D, Idle
  <2>3. cmd' \in [Commands -> Good] /\ cmd'[c] = Idle /\ \A d \in Commands \ {c} : cmd'[d] = D[d]
    BY <1>2, <2>1, <2>2
  <2> QED  BY <1>1, <1>2, <2>1, <2>3 DEF Shakes
<1>3. CASE Ends(c) /\ UNCHANGED tab
  BY <1>1, <1>3, EndsDoes
<1> QED  BY <1>1, <1>2, <1>3

LEMMA CrashDoes ==
  ASSUME TypeInv, NEW c \in Commands, Crash(c)
  PROVE  /\ UNCHANGED <<tab, record, setVars, edits>> /\ Becomes(c, Idle)
         /\ troubles < MaxTroubles /\ troubles' = troubles + 1
<1>1. Ends(c) /\ InHand
  BY DEF Crash, TypeInv
<1> QED  BY <1>1, EndsDoes DEF Crash, Trouble

LEMMA RecordDoes ==
  ASSUME TypeInv, NEW c \in Commands, Record(c)
  PROVE  /\ cmd[c].at = "record" /\ record' = [record EXCEPT ![This(c)] = Want(c)]
         /\ UNCHANGED <<tab, setVars, edits, troubles>>
         /\ Shakes(c, IF cmd[c].todo = {This(c)} THEN Idle
                      ELSE [cmd[c] EXCEPT !.at = "replan", !.todo = @ \ {This(c)}])
<1> DEFINE D == Disturbed({c})
           rest == [cmd[c] EXCEPT !.at = "replan", !.todo = @ \ {This(c)}]
           job == IF cmd[c].todo = {This(c)} THEN Idle ELSE rest
<1>1. /\ cmd[c].at = "record" /\ record' = [record EXCEPT ![This(c)] = Want(c)]
      /\ UNCHANGED <<tab, setVars, edits, troubles>> /\ InHand
  BY DEF Record, At, TypeInv
<1>2. cmd' = [D EXCEPT ![c] = job]
  BY Zenon DEF Record
<1>3. /\ D \in [Commands -> Good] /\ D[c] = cmd[c]
      /\ \A d \in Commands \ {c} : D[d] = [cmd[d] EXCEPT !.disturbed = @ \/ cmd[d].at # "idle"]
  BY <1>1, ShakesIs
<1> HIDE DEF D
<1>5. job \in Good
  <2>1. CASE cmd[c].todo = {This(c)}
    BY <2>1, IdleSound DEF Good, Sound
  <2>2. CASE cmd[c].todo # {This(c)}
    <3>1. Sound(cmd[c]) /\ This(c) \in cmd[c].todo
      BY <1>1, InHandIs, ThisIs
    <3>2. rest \in Jobs /\ rest.at = "replan" /\ rest.todo = cmd[c].todo \ {This(c)}
          /\ rest.intent = cmd[c].intent /\ rest.spec = cmd[c].spec
      BY <3>1 DEF Sound, Jobs, Stops
    <3>3. rest.todo # {}
      BY <2>2, <3>1, <3>2
    <3>4. cmd[c].todo \subseteq DOMAIN cmd[c].intent /\ cmd[c].spec \in Launches
      BY <1>1, <3>1, JobFields
    <3> HIDE DEF rest
    <3>5. Sound(rest)
      BY <3>2, <3>3, <3>4 DEF Sound
    <3> QED  BY <2>2, <3>2, <3>5 DEF Good
  <2> QED  BY <2>1, <2>2
<1> HIDE DEF job
<1>6. cmd' \in [Commands -> Good] /\ cmd'[c] = job /\ \A d \in Commands \ {c} : cmd'[d] = D[d]
  BY <1>2, <1>3, <1>5
<1>7. Shakes(c, job)
  BY <1>3, <1>6, Zenon DEF Shakes
<1> QED  BY <1>1, <1>7 DEF job

LEMMA PutsDoes ==
  ASSUME TypeInv, Planned, NEW c \in Commands, cmd[c].at = "install", Puts(c)
  PROVE  \E p, m, n \in Nat : Replaces(cmd[c].doc, tab', This(c), Want(c), p, m, n)
<1>1. /\ This(c) \in Targets /\ Want(c) \in Values /\ cmd[c].doc \in Seq(Lines)
      /\ cmd[c].intent[This(c)] \in Intents
  BY ThisIs, InHandIs, JobFields DEF TypeInv
<1>2. Found(cmd[c].doc, This(c), Want(c)) # "conflict" /\ Found(cmd[c].doc, This(c), Want(c)) # "noop"
  BY <1>1 DEF Planned, PlannedFor, Intents
<1> DEFINE doc == cmd[c].doc
           t == This(c)
           s == Want(c)
           fresh == IF s = None THEN << >> ELSE Block(t, s)
           i == IF Absent(doc, t) THEN Len(doc) + 1 ELSE Start(doc, t)
           new == SubSeq(doc, 1, i - 1) \o fresh \o SubSeq(doc, IF i > Len(doc) THEN i ELSE i + 4, Len(doc))
<1>3. \E p, m, n \in Nat : Replaces(doc, new, t, s, p, m, n)
  <2> HIDE DEF s, t, doc
  <2>1. t \in Targets /\ s \in Values /\ doc \in Seq(Lines) /\ Found(doc, t, s) # "conflict"
        /\ Found(doc, t, s) # "noop"
    BY <1>1, <1>2, Zenon DEF s, t, doc
  <2> QED  BY <2>1, Replaced, Zenon
<1>4. tab' = new
  BY Zenon DEF Puts, Updated, New
<1> QED  BY <1>3, <1>4, Zenon

LEMMA TypeInit == Init => TypeInv
<1> SUFFICES ASSUME Init PROVE TypeInv
  OBVIOUS
<1>1. tab \in Seq(Lines)
  BY Kinds DEF Init
<1>2. record \in [Targets -> Values] /\ selection \in [Targets -> {"off", "empty", "on"}]
      /\ current \subseteq Targets /\ launch \in Launches
  BY DEF Init, Values
<1>3. Idle \in {job \in Jobs : Sound(job)} /\ cmd = [c \in Commands |-> Idle]
  BY IdleSound DEF Init, Sound
<1>4. InHand
  <2> HIDE DEF Idle
  <2> QED  BY <1>3 DEF InHand
<1>5. changes \in 0..MaxChanges /\ edits \in 0..MaxEdits /\ troubles \in 0..MaxTroubles
  BY BoundAssumption DEF Init
<1>6. \A c \in Commands : Sound(cmd[c])
  BY <1>4, InHandIs
<1> QED  BY <1>1, <1>2, <1>4, <1>5, <1>6, JobFields DEF TypeInv, TypeOK, Stops

LEMMA TypeFrom ==
  ASSUME tab' \in Seq(Lines), record' \in [Targets -> Values],
         selection' \in [Targets -> {"off", "empty", "on"}], current' \subseteq Targets, launch' \in Launches,
         cmd' \in [Commands -> Good],
         changes' \in 0..MaxChanges, edits' \in 0..MaxEdits, troubles' \in 0..MaxTroubles
  PROVE  TypeInv'
<1>1. InHand' /\ \A c \in Commands : Sound(cmd'[c])
  BY DEF InHand, Good
<1>2. \A c \in Commands :
        /\ cmd'[c].at \in Stops \cup {"idle"} /\ cmd'[c].spec \in Values /\ cmd'[c].wants \in SUBSET Targets
        /\ cmd'[c].todo \in SUBSET Targets /\ cmd'[c].doc \in Seq(Lines) /\ cmd'[c].disturbed \in BOOLEAN
        /\ DOMAIN cmd'[c].intent \subseteq Targets
        /\ \A t \in DOMAIN cmd'[c].intent : cmd'[c].intent[t] \in Intents
        /\ cmd'[c].at = "idle" <=> cmd'[c].todo = {}
  BY <1>1, JobFields
<1>3. TypeOK'
  BY <1>2 DEF TypeOK, Stops
<1> QED  BY <1>1, <1>3 DEF TypeInv

LEMMA EditType ==
  ASSUME TypeInv, EditTab
  PROVE  tab' \in Seq(Lines) /\ edits' \in 0..MaxEdits
<1>1. tab \in Seq(Lines) /\ DOMAIN tab = 1..Len(tab) /\ Len(tab) \in Nat
  BY LenProperties DEF TypeInv, TypeOK
<1>2. edits' \in 0..MaxEdits
  <2>1. edits \in 0..MaxEdits /\ edits < MaxEdits /\ edits' = edits + 1 /\ MaxEdits \in Nat
    BY BoundAssumption DEF EditTab, TypeInv, TypeOK
  <2> QED  BY <2>1
<1>3. ASSUME NEW i \in 1..(Len(tab) + 1)
      PROVE  SubSeq(tab, 1, i - 1) \in Seq(Lines) /\ SubSeq(tab, i, Len(tab)) \in Seq(Lines)
  <2>1. /\ \A k \in 1..i - 1 : tab[k] \in Lines
        /\ \A k \in i..Len(tab) : tab[k] \in Lines
    BY <1>1
  <2>2. 1 \in Int /\ i - 1 \in Int /\ i \in Int /\ Len(tab) \in Int
    BY <1>1
  <2> QED  BY <2>1, <2>2, SubSeqProperties
<1>4. CASE \E i \in 1..(Len(tab) + 1) : tab' = InsertAt(tab, i, Job)
  <2>1. PICK i \in 1..(Len(tab) + 1) : tab' = InsertAt(tab, i, Job)
    BY <1>4
  <2>2. <<Job>> \in Seq(Lines)
    BY Kinds
  <2>3. SubSeq(tab, 1, i - 1) \in Seq(Lines) /\ SubSeq(tab, i, Len(tab)) \in Seq(Lines)
    BY <1>3
  <2>4. SubSeq(tab, 1, i - 1) \o <<Job>> \in Seq(Lines)
    BY <2>2, <2>3, ConcatProperties
  <2>5. SubSeq(tab, 1, i - 1) \o <<Job>> \o SubSeq(tab, i, Len(tab)) \in Seq(Lines)
    BY <2>3, <2>4, ConcatProperties
  <2> QED  BY <1>2, <2>1, <2>5 DEF InsertAt
<1>5. CASE \E i \in DOMAIN tab : tab' = Append(tab, tab[i])
  <2>1. PICK i \in DOMAIN tab : tab' = Append(tab, tab[i])
    BY <1>5
  <2>2. tab[i] \in Lines
    BY <1>1
  <2> QED  BY <1>1, <1>2, <2>1, <2>2, AppendProperties
<1>6. CASE \E i \in DOMAIN tab, s \in Launches :
             tab[i][1] = "line" /\ tab' = [tab EXCEPT ![i] = Line(tab[i][2], s)]
  <2>1. PICK i \in DOMAIN tab, s \in Launches :
          tab[i][1] = "line" /\ tab' = [tab EXCEPT ![i] = Line(tab[i][2], s)]
    BY <1>6
  <2>2. tab[i] \in Lines
    BY <1>1
  <2>3. tab[i][2] \in Targets
    BY <2>1, <2>2, Marker
  <2>4. Line(tab[i][2], s) \in Lines
    BY <2>3, Kinds
  <2> QED  BY <1>1, <1>2, <2>1, <2>4, ExceptSeq
<1>7. CASE \E i \in DOMAIN tab : tab' = RemoveAt(tab, i)
  <2>1. PICK i \in DOMAIN tab : tab' = RemoveAt(tab, i)
    BY <1>7
  <2>2. i \in 1..(Len(tab) + 1) /\ i + 1 \in 1..(Len(tab) + 1)
    BY <1>1
  <2>3. SubSeq(tab, 1, i - 1) \in Seq(Lines) /\ SubSeq(tab, i + 1, Len(tab)) \in Seq(Lines)
    BY <1>3, <2>2
  <2>4. SubSeq(tab, 1, i - 1) \o SubSeq(tab, i + 1, Len(tab)) \in Seq(Lines)
    BY <2>3, ConcatProperties
  <2> QED  BY <1>2, <2>1, <2>4 DEF RemoveAt
<1> QED  BY <1>4, <1>5, <1>6, <1>7, Zenon DEF EditTab

(* Every step keeps the types.                                             *)
LEMMA TypeStep == TypeInv /\ Planned /\ [Next]_vars => TypeInv'
<1> SUFFICES ASSUME TypeInv, Planned, [Next]_vars PROVE TypeInv'
  OBVIOUS
<1>0. /\ tab \in Seq(Lines) /\ record \in [Targets -> Values]
      /\ selection \in [Targets -> {"off", "empty", "on"}] /\ current \subseteq Targets /\ launch \in Launches
      /\ changes \in 0..MaxChanges /\ edits \in 0..MaxEdits /\ troubles \in 0..MaxTroubles
      /\ InHand /\ cmd \in [Commands -> Good]
      /\ MaxChanges \in Nat /\ MaxEdits \in Nat /\ MaxTroubles \in Nat
  BY BoundAssumption DEF TypeInv, TypeOK, InHand, Good
<1>a. Disturbed({}) \in [Commands -> Good]
  BY <1>0, Disturbs DEF Good
<1>b. ASSUME NEW c \in Commands, NEW job, Becomes(c, job) PROVE cmd' \in [Commands -> Good]
  BY <1>b DEF Becomes
<1>1. CASE EditTab
  <2>1. tab' \in Seq(Lines) /\ edits' \in 0..MaxEdits
    BY <1>1, EditType
  <2>2. cmd' \in [Commands -> Good] /\ UNCHANGED <<record, setVars, troubles>>
    BY <1>1, <1>a DEF EditTab
  <2> QED  BY <1>0, <2>1, <2>2, TypeFrom DEF setVars
<1>2. CASE Change
  <2>1. cmd' \in [Commands -> Good] /\ UNCHANGED <<tab, record, edits, troubles>>
    BY <1>2, <1>a DEF Change
  <2>2. changes' \in 0..MaxChanges
    <3>1. changes < MaxChanges /\ changes' = changes + 1
      BY <1>2 DEF Change
    <3> QED  BY <1>0, <3>1
  <2>3. /\ selection' \in [Targets -> {"off", "empty", "on"}]
        /\ current' \subseteq Targets /\ launch' \in Launches
    BY <1>0, <1>2 DEF Change
  <2> QED  BY <1>0, <2>1, <2>2, <2>3, TypeFrom
<1>3. CASE \E t \in Targets : Publish(t)
  BY <1>0, <1>3, TypeFrom DEF Publish
<1>4. ASSUME NEW c \in Commands, Steps(c) \/ Fails(c) \/ Crash(c) PROVE TypeInv'
  <2>1. CASE Begins(c)
    <3>1. cmd' \in [Commands -> Good]
      BY <2>1, BeginsDoes DEF Becomes
    <3>2. Inside
      BY <2>1 DEF Begins
    <3> QED  BY <1>0, <3>1, <3>2, TypeFrom DEF Inside, setVars
  <2>2. CASE Replan(c)
    <3>1. cmd' \in [Commands -> Good] /\ Inside
      BY <2>2, <1>b, ReplanDoes, ZenonT(60)
    <3> QED  BY <1>0, <3>1, TypeFrom DEF Inside, setVars
  <2>3. CASE Inspect(c)
    <3>1. cmd' \in [Commands -> Good] /\ Inside
      BY <2>3, InspectDoes DEF Becomes
    <3> QED  BY <1>0, <3>1, TypeFrom DEF Inside, setVars
  <2>4. CASE Install(c)
    <3>1. /\ cmd[c].at = "install" /\ Puts(c) /\ UNCHANGED <<record, setVars, edits, troubles>>
          /\ cmd' \in [Commands -> Good]
      BY <2>4, InstallDoes DEF Shakes
    <3>2. tab' \in Seq(Lines)
      BY <3>1, PutsDoes DEF Replaces
    <3> QED  BY <1>0, <3>1, <3>2, TypeFrom DEF setVars
  <2>5. CASE Converge(c) \/ Check(c)
    <3>1. cmd' \in [Commands -> Good] /\ Inside
      BY <2>5, VerifyDoes DEF Becomes
    <3> QED  BY <1>0, <3>1, TypeFrom DEF Inside, setVars
  <2>6. CASE Record(c)
    <3>1. /\ cmd[c].at = "record" /\ record' = [record EXCEPT ![This(c)] = Want(c)]
          /\ UNCHANGED <<tab, setVars, edits, troubles>> /\ cmd' \in [Commands -> Good]
      BY <2>6, RecordDoes DEF Shakes
    <3>2. Want(c) \in Values
      BY <1>0, <3>1, ThisIs
    <3>3. record' \in [Targets -> Values]
      BY <1>0, <3>1, <3>2
    <3> QED  BY <1>0, <3>1, <3>3, TypeFrom DEF setVars
  <2>7. CASE Fails(c)
    <3>1. /\ cmd[c].at = "install" /\ UNCHANGED <<record, setVars, edits>>
          /\ troubles < MaxTroubles /\ troubles' = troubles + 1
          /\ Puts(c) \/ UNCHANGED tab
          /\ cmd' \in [Commands -> Good]
      BY <2>7, FailsDoes DEF Shakes, Becomes
    <3>2. tab' \in Seq(Lines)
      BY <1>0, <3>1, PutsDoes DEF Replaces
    <3>3. troubles' \in 0..MaxTroubles
      BY <1>0, <3>1
    <3> QED  BY <1>0, <3>1, <3>2, <3>3, TypeFrom DEF setVars
  <2>8. CASE Crash(c)
    <3>1. /\ UNCHANGED <<tab, record, setVars, edits>> /\ cmd' \in [Commands -> Good]
          /\ troubles < MaxTroubles /\ troubles' = troubles + 1
      BY <2>8, CrashDoes DEF Becomes
    <3>2. troubles' \in 0..MaxTroubles
      BY <1>0, <3>1
    <3> QED  BY <1>0, <3>1, <3>2, TypeFrom DEF setVars
  <2> QED  BY <1>4, <2>1, <2>2, <2>3, <2>4, <2>5, <2>6, <2>7, <2>8 DEF Steps
<1>5. CASE UNCHANGED vars
  BY <1>0, <1>5, TypeFrom DEF vars, setVars
<1> QED  BY <1>1, <1>2, <1>3, <1>4, <1>5, Zenon DEF Next

-----------------------------------------------------------------------------
(* What is about to be replaced is what was planned.                       *)

(* A step leaves every command as it is, up to the note that somebody else *)
(* changed something, unless it is a step of that command.                 *)
Alike(d) ==
  /\ cmd'[d].at = cmd[d].at /\ cmd'[d].spec = cmd[d].spec /\ cmd'[d].wants = cmd[d].wants
  /\ cmd'[d].intent = cmd[d].intent /\ cmd'[d].todo = cmd[d].todo /\ cmd'[d].doc = cmd[d].doc

LEMMA Moves ==
  ASSUME TypeInv, NEW c \in Commands, Steps(c) \/ Fails(c) \/ Crash(c), NEW d \in Commands \ {c}
  PROVE  Alike(d)
<1>0. InHand
  BY DEF TypeInv
<1>1. CASE Begins(c)
  BY <1>0, <1>1, BeginsDoes DEF Becomes, Alike
<1>2. CASE Replan(c)
  BY <1>0, <1>2, ReplanDoes, ZenonT(60) DEF Becomes, Alike
<1>3. CASE Inspect(c)
  BY <1>0, <1>3, InspectDoes DEF Becomes, Alike
<1>4. CASE Converge(c) \/ Check(c)
  BY <1>0, <1>4, VerifyDoes DEF Becomes, Alike
<1>5. CASE Crash(c)
  BY <1>0, <1>5, CrashDoes DEF Becomes, Alike
<1>6. ASSUME cmd'[d] = [cmd[d] EXCEPT !.disturbed = @ \/ cmd[d].at # "idle"] PROVE Alike(d)
  <2>1. cmd[d] \in Jobs
    BY <1>0, InHandIs DEF Sound
  <2> QED  BY <1>6, <2>1 DEF Alike, Jobs
<1>7. CASE Install(c)
  <2>1. cmd'[d] = [cmd[d] EXCEPT !.disturbed = @ \/ cmd[d].at # "idle"]
    BY <1>7, InstallDoes DEF Shakes
  <2> QED  BY <1>6, <2>1
<1>8. CASE Record(c)
  <2>1. cmd'[d] = [cmd[d] EXCEPT !.disturbed = @ \/ cmd[d].at # "idle"]
    BY <1>8, RecordDoes DEF Shakes
  <2> QED  BY <1>6, <2>1
<1>9. CASE Fails(c)
  <2>1. cmd'[d] = [cmd[d] EXCEPT !.disturbed = @ \/ cmd[d].at # "idle"] \/ cmd'[d] = cmd[d]
    BY <1>9, FailsDoes DEF Shakes, Becomes
  <2> QED  BY <1>6, <2>1 DEF Alike
<1> QED  BY <1>1, <1>2, <1>3, <1>4, <1>5, <1>7, <1>8, <1>9 DEF Steps

LEMMA UserAlike ==
  ASSUME InHand, cmd' = Disturbed({}), NEW d \in Commands
  PROVE  Alike(d)
<1>1. cmd'[d] = [cmd[d] EXCEPT !.disturbed = @ \/ (d \notin {} /\ cmd[d].at # "idle")]
  BY Disturbs
<1>2. cmd[d] \in Jobs
  BY InHandIs DEF Sound
<1> QED  BY <1>1, <1>2 DEF Alike, Jobs

LEMMA Movers ==
  ASSUME TypeInv, [Next]_vars, NEW d \in Commands
  PROVE  Alike(d) \/ Steps(d) \/ Fails(d) \/ Crash(d)
<1>0. InHand
  BY DEF TypeInv
<1>1. CASE EditTab \/ Change
  <2>1. cmd' = Disturbed({})
    BY <1>1 DEF EditTab, Change
  <2> QED  BY <1>0, <2>1, UserAlike
<1>2. CASE (\E t \in Targets : Publish(t)) \/ UNCHANGED vars
  BY <1>2 DEF Publish, vars, Alike
<1>3. ASSUME NEW c \in Commands, Steps(c) \/ Fails(c) \/ Crash(c)
      PROVE  Alike(d) \/ Steps(d) \/ Fails(d) \/ Crash(d)
  <2>1. CASE c = d
    BY <1>3, <2>1
  <2>2. CASE c # d
    BY <1>3, <2>2, Moves
  <2> QED  BY <2>1, <2>2
<1> QED  BY <1>1, <1>2, <1>3, Zenon DEF Next

LEMMA AlikeHand ==
  ASSUME NEW d \in Commands, Alike(d)
  PROVE  This(d)' = This(d) /\ Want(d)' = Want(d) /\ \A t : Goal(d, t)' = Goal(d, t)
BY DEF Alike, This, Want, Goal

LEMMA SameTodo ==
  ASSUME NEW d \in Commands, cmd'[d].todo = cmd[d].todo, cmd'[d].wants = cmd[d].wants, cmd'[d].spec = cmd[d].spec
  PROVE  This(d)' = This(d) /\ Want(d)' = Want(d) /\ \A t : Goal(d, t)' = Goal(d, t)
BY DEF This, Want, Goal

LEMMA PlannedInit == Init => Planned
BY DEF Init, Planned, Idle

LEMMA PlannedStep == TypeInv /\ Planned /\ [Next]_vars => Planned'
<1> SUFFICES ASSUME TypeInv, Planned, [Next]_vars,
                    NEW d \in Commands, cmd'[d].at \in {"inspect", "install"}
             PROVE  PlannedFor(d)'
  BY DEF Planned
<1>0. InHand
  BY DEF TypeInv
<1>1. CASE Alike(d)
  <2>1. This(d)' = This(d) /\ Want(d)' = Want(d)
    BY <1>1, AlikeHand
  <2>2. /\ cmd'[d].at = cmd[d].at /\ cmd'[d].intent = cmd[d].intent /\ cmd'[d].doc = cmd[d].doc
    BY <1>1 DEF Alike
  <2>3. PlannedFor(d)
    BY <2>2 DEF Planned
  <2> QED  BY <2>1, <2>2, <2>3 DEF PlannedFor
<1>2. CASE Begins(d)
  <2> DEFINE job == [Idle EXCEPT !.at = "replan", !.spec = launch, !.wants = Wanted,
                !.todo = Registered, !.intent = [t \in Registered |-> Intended(t)],
                !.disturbed = Copied(tab)]
  <2>1. cmd'[d] = job
    BY <1>2, BeginsDoes DEF Becomes
  <2>2. job.at = "replan"
    BY DEF Idle
  <2> QED  BY <2>1, <2>2
<1>i. Idle.at = "idle"
  BY IdleSound
<1>j. cmd[d] \in Jobs
  BY <1>0, InHandIs DEF Sound
<1>3. CASE Replan(d)
  <2>1. SameIntent(d) /\ cmd'[d] = [cmd[d] EXCEPT !.at = "inspect", !.doc = tab] /\ cmd[d].at # "idle"
    BY <1>3, <1>i, ReplanDoes DEF Becomes
  <2>2. /\ cmd'[d].at = "inspect" /\ cmd'[d].doc = tab /\ cmd'[d].intent = cmd[d].intent
        /\ cmd'[d].todo = cmd[d].todo /\ cmd'[d].wants = cmd[d].wants /\ cmd'[d].spec = cmd[d].spec
    BY <2>1, <1>j DEF Jobs
  <2>3. This(d)' = This(d) /\ Want(d)' = Want(d)
    BY <2>2, SameTodo
  <2> DEFINE t == This(d)
             w == Want(d)
             plan == cmd[d].intent[t]
  <2>4. plan \in Intents
    BY <1>0, <2>1, ThisIs
  <2>5. Intent(t, w) = plan
    BY <2>1 DEF SameIntent
  <2> HIDE DEF t, w, plan
  <2>6. plan.disposition = Guarded(tab, t, w) /\ plan.record = record[t]
    BY <2>5 DEF Intent
  <2>7. Guarded(tab, t, w) # "conflict"
    BY <2>4, <2>6 DEF Intents
  <2>8. Guarded(tab, t, w) = Found(tab, t, w) /\ Managed(tab, t) \in {None, record[t]}
    BY <2>7, GuardedType
  <2> QED  BY <2>2, <2>3, <2>6, <2>8 DEF PlannedFor, t, w, plan
<1>4. CASE Inspect(d)
  <2>1. /\ cmd[d].at = "inspect" /\ cmd[d].intent[This(d)].disposition # "noop"
        /\ cmd'[d] = [cmd[d] EXCEPT !.at = "install"]
    <3>1. [cmd[d] EXCEPT !.at = "check", !.doc = << >>].at = "check"
      BY <1>j DEF Jobs
    <3> QED  BY <1>4, <1>i, <3>1, InspectDoes DEF Becomes
  <2>2. /\ cmd'[d].at = "install" /\ cmd'[d].doc = cmd[d].doc /\ cmd'[d].intent = cmd[d].intent
        /\ cmd'[d].todo = cmd[d].todo /\ cmd'[d].wants = cmd[d].wants /\ cmd'[d].spec = cmd[d].spec
    BY <2>1, <1>j DEF Jobs
  <2>3. This(d)' = This(d) /\ Want(d)' = Want(d)
    BY <2>2, SameTodo
  <2>4. PlannedFor(d)
    BY <2>1 DEF Planned
  <2> QED  BY <2>1, <2>2, <2>3, <2>4, SMTT(60) DEF PlannedFor
<1>5. CASE Install(d)
  <2>1. cmd'[d] = [cmd[d] EXCEPT !.at = "converge", !.doc = << >>]
    BY <1>5, InstallDoes DEF Shakes
  <2> QED  BY <2>1, <1>j DEF Jobs
<1>6. CASE Converge(d) \/ Check(d)
  <2>1. cmd'[d] = Idle \/ \E x \in {"check", "record"} : cmd'[d] = [cmd[d] EXCEPT !.at = x]
    BY <1>6, VerifyDoes DEF Becomes
  <2> QED  BY <2>1, <1>i, <1>j DEF Jobs
<1>7. CASE Record(d)
  <2>1. cmd'[d] = IF cmd[d].todo = {This(d)} THEN Idle
                  ELSE [cmd[d] EXCEPT !.at = "replan", !.todo = @ \ {This(d)}]
    BY <1>7, RecordDoes DEF Shakes
  <2> QED  BY <2>1, <1>i, <1>j DEF Jobs
<1>8. CASE Fails(d) \/ Crash(d)
  <2>1. cmd'[d] = Idle
    BY <1>8, FailsDoes, CrashDoes DEF Becomes, Shakes
  <2> QED  BY <2>1, <1>i
<1> QED  BY <1>1, <1>2, <1>3, <1>4, <1>5, <1>6, <1>7, <1>8, Movers DEF Steps

-----------------------------------------------------------------------------
(* What a replacement does to the lines of the document.                   *)

(* The recursion of FlattenSeq, up to n.                                   *)
Joins(g, seqs, n) == g = [i \in 1..n |-> IF i = 1 THEN seqs[i] ELSE g[i - 1] \o seqs[i]]

LEMMA Joined ==
  ASSUME NEW seqs, NEW n \in Nat
  PROVE  \E g : Joins(g, seqs, n)
<1> DEFINE Bad == {m \in Nat : ~ \E g : Joins(g, seqs, m)}
<1> SUFFICES ASSUME Bad # {} PROVE FALSE
  BY Zenon
<1>1. PICK m \in Bad : \A k \in Bad : m <= k
  <2>1. Bad \subseteq Nat
    OBVIOUS
  <2> HIDE DEF Bad
  <2> QED  BY <2>1, Least
<1>2. m # 0
  <2>1. Joins(<< >>, seqs, 0)
    BY DEF Joins
  <2> QED  BY <2>1
<1>3. m \in Nat /\ m - 1 \in Nat /\ m - 1 \notin Bad
  <2>1. m \in Nat /\ m - 1 \in Nat
    BY <1>2
  <2>2. ~(m <= m - 1)
    BY <2>1
  <2> HIDE DEF Bad
  <2> QED  BY <1>1, <2>1, <2>2
<1>4. PICK g : Joins(g, seqs, m - 1)
  BY <1>3
<1> DEFINE last == IF m = 1 THEN seqs[m] ELSE g[m - 1] \o seqs[m]
           h == [i \in 1..m |-> IF i = m THEN last ELSE g[i]]
<1>5. \A i \in 1..m : h[i] = IF i = 1 THEN seqs[i] ELSE h[i - 1] \o seqs[i]
  <2> TAKE i \in 1..m
  <2>1. CASE i = m
    <3>1. h[i] = last
      BY <2>1
    <3>2. m # 1 => h[m - 1] = g[m - 1] /\ m - 1 \in 1..m
      BY <1>3
    <3> QED  BY <2>1, <3>1, <3>2
  <2>2. CASE i # m
    <3>1. i \in 1..(m - 1) /\ h[i] = g[i]
      BY <1>3, <2>2
    <3>2. g[i] = IF i = 1 THEN seqs[i] ELSE g[i - 1] \o seqs[i]
      BY <1>4, <3>1 DEF Joins
    <3>3. i # 1 => h[i - 1] = g[i - 1]
      BY <1>3, <2>2
    <3> QED  BY <3>1, <3>2, <3>3
  <2> QED  BY <2>1, <2>2
<1>6. Joins(h, seqs, m)
  <2>1. DOMAIN h = 1..m /\ h = [i \in 1..m |-> h[i]]
    OBVIOUS
  <2> HIDE DEF h
  <2> QED  BY <2>1, <1>5 DEF Joins
<1> QED  BY <1>6

(* The other lines, collected up to each line of the document.             *)
Collects(g, doc, t) ==
  /\ g \in [0..Len(doc) -> Seq(Lines)] /\ g[0] = << >>
  /\ \A i \in 1..Len(doc) : g[i] = IF doc[i][2] = t THEN g[i - 1] ELSE g[i - 1] \o <<doc[i]>>

LEMMA OthersAre ==
  ASSUME NEW doc \in Seq(Lines), NEW t
  PROVE  \E g : Collects(g, doc, t) /\ Others(doc, t) = g[Len(doc)]
<1> DEFINE N == Len(doc)
           sheet == [i \in DOMAIN doc |-> IF doc[i][2] = t THEN << >> ELSE <<doc[i]>>]
<1>1. DOMAIN doc = 1..N /\ N \in Nat /\ \A i \in 1..N : doc[i] \in Lines
  BY LenProperties
<1>2. \A i \in 1..N : sheet[i] = IF doc[i][2] = t THEN << >> ELSE <<doc[i]>>
  BY <1>1
<1>3. \A i \in 1..N : sheet[i] \in Seq(Lines)
  BY <1>1, <1>2
<1>4. sheet = [i \in 1..N |-> sheet[i]]
  BY <1>1
<1>5. Others(doc, t) = FlattenSeq(sheet)
  BY DEF Others
<1> HIDE DEF sheet, N
<1>6. Len(sheet) = N
  BY <1>1, <1>3, <1>4
<1>7. PICK f : Joins(f, sheet, N)
  BY <1>1, Joined
<1> DEFINE e == CHOOSE h : h = [i \in 1..N |-> IF i = 1 THEN sheet[i] ELSE h[i - 1] \o sheet[i]]
<1>8. e = [i \in 1..N |-> IF i = 1 THEN sheet[i] ELSE e[i - 1] \o sheet[i]]
  <2>1. \E h : h = [i \in 1..N |-> IF i = 1 THEN sheet[i] ELSE h[i - 1] \o sheet[i]]
    BY <1>7 DEF Joins
  <2> QED  BY <2>1, Zenon
<1>9. FlattenSeq(sheet) = IF N = 0 THEN sheet ELSE e[N]
  BY <1>6 DEF FlattenSeq
<1> HIDE DEF e
<1>10. \A i \in 1..N : e[i] = IF i = 1 THEN sheet[i] ELSE e[i - 1] \o sheet[i]
  BY <1>8
<1> DEFINE g == [i \in 0..N |-> IF i = 0 THEN << >> ELSE e[i]]
<1>11. g[0] = << >> /\ \A i \in 1..N : g[i] = e[i]
  BY <1>1
<1>12. DOMAIN g = 0..N /\ g = [i \in 0..N |-> g[i]]
  OBVIOUS
<1> HIDE DEF g
<1>13. \A i \in 1..N : g[i - 1] \in Seq(Lines) =>
         g[i] = (IF doc[i][2] = t THEN g[i - 1] ELSE g[i - 1] \o <<doc[i]>>) /\ g[i] \in Seq(Lines)
  <2> SUFFICES ASSUME NEW i \in 1..N, g[i - 1] \in Seq(Lines)
               PROVE  /\ g[i] = IF doc[i][2] = t THEN g[i - 1] ELSE g[i - 1] \o <<doc[i]>>
                      /\ g[i] \in Seq(Lines)
    OBVIOUS
  <2>1. g[i] = g[i - 1] \o sheet[i]
    <3>1. CASE i = 1
      <4>1. g[i] = sheet[i] /\ g[i - 1] = << >> /\ sheet[i] \in Seq(Lines)
        BY <3>1, <1>3, <1>10, <1>11
      <4> QED  BY <4>1, ConcatEmptySeq
    <3>2. CASE i # 1
      <4>1. i - 1 \in 1..N
        BY <3>2, <1>1
      <4> QED  BY <3>2, <4>1, <1>10, <1>11
    <3> QED  BY <3>1, <3>2
  <2>2. CASE doc[i][2] = t
    <3>1. sheet[i] = << >>
      BY <2>2, <1>2
    <3>2. g[i - 1] \o << >> = g[i - 1]
      BY ConcatEmptySeq
    <3> QED  BY <2>1, <2>2, <3>1, <3>2
  <2>3. CASE doc[i][2] # t
    <3>1. sheet[i] = <<doc[i]>> /\ sheet[i] \in Seq(Lines)
      BY <2>3, <1>2, <1>3
    <3>2. g[i - 1] \o sheet[i] \in Seq(Lines)
      BY <3>1, ConcatProperties
    <3> QED  BY <2>1, <2>3, <3>1, <3>2
  <2> QED  BY <2>2, <2>3
<1> DEFINE Bad == {i \in 0..N : g[i] \notin Seq(Lines)}
<1>14. Bad = {}
  <2> SUFFICES ASSUME Bad # {} PROVE FALSE
    BY Zenon
  <2>1. PICK i \in Bad : \A k \in Bad : i <= k
    <3>1. Bad \subseteq Nat
      BY <1>1
    <3> HIDE DEF Bad
    <3> QED  BY <3>1, Least
  <2>2. i # 0
    <3>1. << >> \in Seq(Lines)
      OBVIOUS
    <3> QED  BY <3>1, <1>11
  <2>3. i \in 1..N /\ i - 1 \in 0..N /\ ~(i <= i - 1)
    BY <2>2, <1>1
  <2>4. i - 1 \notin Bad
    <3> HIDE DEF Bad
    <3> QED  BY <2>1, <2>3
  <2>5. g[i - 1] \in Seq(Lines)
    BY <2>3, <2>4
  <2> QED  BY <2>3, <2>5, <1>13
<1>15. \A i \in 0..N : g[i] \in Seq(Lines)
  BY <1>14
<1>16. Collects(g, doc, t)
  <2>1. g \in [0..N -> Seq(Lines)]
    BY <1>12, <1>15
  <2>2. \A i \in 1..N : i - 1 \in 0..N
    BY <1>1
  <2> QED  BY <2>1, <2>2, <1>11, <1>13, <1>15 DEF Collects, N
<1>17. Others(doc, t) = g[N]
  <2>1. CASE N = 0
    <3>1. sheet = << >>
      BY <2>1, <1>4
    <3> QED  BY <2>1, <3>1, <1>5, <1>9, <1>11
  <2>2. CASE N # 0
    <3>1. N \in 1..N
      BY <2>2, <1>1
    <3> QED  BY <2>2, <3>1, <1>5, <1>9, <1>11
  <2> QED  BY <2>1, <2>2
<1> QED  BY <1>16, <1>17 DEF N

(* Lines that are the same add the same; lines of t add nothing.           *)
Matches(old, new, a, b, r) == \A k \in 1..r : old[a + k] = new[b + k]
Barren(doc, t, a, r) == \A k \in 1..r : doc[a + k][2] = t

LEMMA CollectsSame ==
  ASSUME NEW g, NEW h, NEW old, NEW new, NEW t, Collects(g, old, t), Collects(h, new, t),
         Len(old) \in Nat, Len(new) \in Nat,
         NEW a \in Nat, NEW b \in Nat, NEW r \in Nat, a + r <= Len(old), b + r <= Len(new),
         g[a] = h[b], Matches(old, new, a, b, r)
  PROVE  g[a + r] = h[b + r]
<1> DEFINE Bad == {k \in 0..r : g[a + k] # h[b + k]}
<1>1. Bad = {}
  <2> SUFFICES ASSUME Bad # {} PROVE FALSE
    BY Zenon
  <2>1. PICK k \in Bad : \A j \in Bad : k <= j
    <3>1. Bad \subseteq Nat
      OBVIOUS
    <3> HIDE DEF Bad
    <3> QED  BY <3>1, Least
  <2>2. k # 0
    <3>1. a + 0 = a /\ b + 0 = b
      OBVIOUS
    <3> QED  BY <3>1
  <2>3. k \in 1..r /\ k - 1 \in 0..r /\ ~(k <= k - 1)
    BY <2>2
  <2>4. k - 1 \notin Bad
    <3> HIDE DEF Bad
    <3> QED  BY <2>1, <2>3
  <2>5. g[a + (k - 1)] = h[b + (k - 1)]
    BY <2>3, <2>4
  <2>6. /\ a + k \in 1..Len(old) /\ (a + k) - 1 = a + (k - 1)
        /\ b + k \in 1..Len(new) /\ (b + k) - 1 = b + (k - 1)
    BY <2>3
  <2>7. g[a + k] = IF old[a + k][2] = t THEN g[(a + k) - 1] ELSE g[(a + k) - 1] \o <<old[a + k]>>
    BY <2>6 DEF Collects
  <2>8. h[b + k] = IF new[b + k][2] = t THEN h[(b + k) - 1] ELSE h[(b + k) - 1] \o <<new[b + k]>>
    BY <2>6 DEF Collects
  <2>9. old[a + k] = new[b + k]
    BY <2>3 DEF Matches
  <2>10. g[a + k] = h[b + k]
    BY <2>5, <2>6, <2>7, <2>8, <2>9
  <2> QED  BY <2>1, <2>10
<1>2. r \in 0..r
  OBVIOUS
<1>3. r \notin Bad
  <2> HIDE DEF Bad
  <2> QED  BY <1>1
<1> QED  BY <1>2, <1>3

LEMMA CollectsNone ==
  ASSUME NEW g, NEW doc, NEW t, Collects(g, doc, t), Len(doc) \in Nat,
         NEW a \in Nat, NEW r \in Nat, a + r <= Len(doc), Barren(doc, t, a, r)
  PROVE  g[a + r] = g[a]
<1> DEFINE Bad == {k \in 0..r : g[a + k] # g[a]}
<1>1. Bad = {}
  <2> SUFFICES ASSUME Bad # {} PROVE FALSE
    BY Zenon
  <2>1. PICK k \in Bad : \A j \in Bad : k <= j
    <3>1. Bad \subseteq Nat
      OBVIOUS
    <3> HIDE DEF Bad
    <3> QED  BY <3>1, Least
  <2>2. k # 0
    <3>1. a + 0 = a
      OBVIOUS
    <3> QED  BY <3>1
  <2>3. k \in 1..r /\ k - 1 \in 0..r /\ ~(k <= k - 1)
    BY <2>2
  <2>4. k - 1 \notin Bad
    <3> HIDE DEF Bad
    <3> QED  BY <2>1, <2>3
  <2>5. g[a + (k - 1)] = g[a]
    BY <2>3, <2>4
  <2>6. a + k \in 1..Len(doc) /\ (a + k) - 1 = a + (k - 1)
    BY <2>3
  <2>7. g[a + k] = IF doc[a + k][2] = t THEN g[(a + k) - 1] ELSE g[(a + k) - 1] \o <<doc[a + k]>>
    BY <2>6 DEF Collects
  <2>8. doc[a + k][2] = t
    BY <2>3 DEF Barren
  <2>9. g[a + k] = g[a]
    BY <2>5, <2>6, <2>7, <2>8
  <2> QED  BY <2>1, <2>9
<1>2. r \in 0..r
  OBVIOUS
<1>3. r \notin Bad
  <2> HIDE DEF Bad
  <2> QED  BY <1>1
<1> QED  BY <1>2, <1>3

LEMMA OthersStay ==
  ASSUME NEW doc \in Seq(Lines), NEW new, NEW t \in Targets, NEW s \in Values,
         NEW p \in Nat, NEW m \in Nat, NEW n \in Nat, Replaces(doc, new, t, s, p, m, n)
  PROVE  Others(new, t) = Others(doc, t)
<1>1. /\ new \in Seq(Lines) /\ p + m <= Len(doc) /\ Len(new) + m = Len(doc) + n
      /\ DOMAIN doc = 1..Len(doc) /\ Len(doc) \in Nat /\ DOMAIN new = 1..Len(new) /\ Len(new) \in Nat
  BY LenProperties DEF Replaces, Spliced
<1>2. PICK g : Collects(g, doc, t) /\ Others(doc, t) = g[Len(doc)]
  BY OthersAre
<1>3. PICK h : Collects(h, new, t) /\ Others(new, t) = h[Len(new)]
  BY <1>1, OthersAre
<1>4. Origins(doc, new, t, s, p, m, n)
  BY Origin
<1>5. Matches(doc, new, 0, 0, p)
  <2> SUFFICES ASSUME NEW k \in 1..p PROVE doc[0 + k] = new[0 + k]
    BY DEF Matches
  <2>1. k \in DOMAIN doc /\ 0 + k = k /\ k <= p
    BY <1>1
  <2>2. new[Carry(k, p, m, n)] = doc[k] /\ Carry(k, p, m, n) = k
    BY <2>1, <1>4 DEF Origins, Carry
  <2> QED  BY <2>1, <2>2
<1>6. Barren(doc, t, p, m)
  <2> SUFFICES ASSUME NEW k \in 1..m PROVE doc[p + k][2] = t
    BY DEF Barren
  <2>1. p + k \in DOMAIN doc /\ ~(p + k <= p \/ p + k > p + m)
    BY <1>1
  <2> QED  BY <2>1, <1>4 DEF Origins
<1>7. Barren(new, t, p, n)
  <2> SUFFICES ASSUME NEW k \in 1..n PROVE new[p + k][2] = t
    BY DEF Barren
  <2>1. p + k \in DOMAIN new /\ ~(p + k <= p \/ p + k > p + n)
    BY <1>1
  <2> QED  BY <2>1, <1>4 DEF Origins
<1> DEFINE r == Len(doc) - (p + m)
<1>8. r \in Nat /\ (p + m) + r = Len(doc) /\ (p + n) + r = Len(new)
  BY <1>1
<1>9. Matches(doc, new, p + m, p + n, r)
  <2> SUFFICES ASSUME NEW k \in 1..r PROVE doc[(p + m) + k] = new[(p + n) + k]
    BY DEF Matches
  <2>1. (p + m) + k \in DOMAIN doc /\ ~((p + m) + k <= p) /\ (p + m) + k > p + m
        /\ ((p + m) + k) + n - m = (p + n) + k
    BY <1>1, <1>8
  <2>2. Carry((p + m) + k, p, m, n) = ((p + m) + k) + n - m
    BY <2>1 DEF Carry
  <2>3. new[Carry((p + m) + k, p, m, n)] = doc[(p + m) + k]
    BY <2>1, <1>4 DEF Origins
  <2> QED  BY <2>1, <2>2, <2>3
<1> HIDE DEF r
<1>10. g[0 + p] = h[0 + p]
  <2>1. g[0] = h[0]
    BY <1>2, <1>3 DEF Collects
  <2>2. 0 + p <= Len(doc) /\ 0 + p <= Len(new) /\ 0 \in Nat
    BY <1>1
  <2> QED  BY <1>1, <1>2, <1>3, <1>5, <2>1, <2>2, CollectsSame
<1>11. g[p + m] = g[p]
  BY <1>1, <1>2, <1>6, CollectsNone
<1>12. h[p + n] = h[p]
  <2>1. p + n <= Len(new)
    BY <1>1
  <2> QED  BY <1>1, <1>3, <1>7, <2>1, CollectsNone
<1>13. g[p + m] = h[p + n]
  <2>1. 0 + p = p
    OBVIOUS
  <2> QED  BY <1>10, <1>11, <1>12, <2>1
<1>14. g[(p + m) + r] = h[(p + n) + r]
  <2>1. p + m \in Nat /\ p + n \in Nat /\ (p + m) + r <= Len(doc) /\ (p + n) + r <= Len(new)
    BY <1>1, <1>8
  <2> QED  BY <1>1, <1>2, <1>3, <1>8, <1>9, <1>13, <2>1, CollectsSame
<1> QED  BY <1>2, <1>3, <1>8, <1>14

(* Each line is still there, but for one of those of a replaced block.     *)
LEMMA LinesStay ==
  ASSUME NEW doc \in Seq(Lines), NEW new, NEW t \in Targets, NEW s \in Values,
         NEW p \in Nat, NEW m \in Nat, NEW n \in Nat, Replaces(doc, new, t, s, p, m, n),
         NEW line
  PROVE  /\ Cardinality(Places(new, line)) \in Nat /\ Cardinality(Places(doc, line)) \in Nat
         /\ \/ Cardinality(Places(doc, line)) <= Cardinality(Places(new, line))
            \/ /\ Cardinality(Places(doc, line)) <= Cardinality(Places(new, line)) + 1
               /\ Managed(doc, t) # None /\ line \in Range(Block(t, Managed(doc, t)))
<1>1. /\ new \in Seq(Lines) /\ p + m <= Len(doc) /\ Len(new) + m = Len(doc) + n
      /\ DOMAIN doc = 1..Len(doc) /\ Len(doc) \in Nat /\ DOMAIN new = 1..Len(new) /\ Len(new) \in Nat
  BY LenProperties DEF Replaces, Spliced
<1>2. Origins(doc, new, t, s, p, m, n)
  BY Origin
<1> DEFINE P == Places(doc, line)
           Q == Places(new, line)
           R == {i \in P : i <= p \/ i > p + m}
           f == [i \in R |-> Carry(i, p, m, n)]
<1>3. IsFiniteSet(P) /\ IsFiniteSet(Q)
  <2>1. IsFiniteSet(1..Len(doc)) /\ IsFiniteSet(1..Len(new))
    BY <1>1, FS_Interval
  <2>2. P \in SUBSET (1..Len(doc)) /\ Q \in SUBSET (1..Len(new))
    BY <1>1 DEF Places
  <2> QED  BY <2>1, <2>2, FS_Subset
<1>4. Cardinality(P) \in Nat /\ Cardinality(Q) \in Nat
  BY <1>3, FS_CardinalityType
<1>5. \A i \in R : /\ i \in DOMAIN doc /\ i \in Nat /\ doc[i] = line
                   /\ Carry(i, p, m, n) \in Q /\ Carry(Carry(i, p, m, n), p, n, m) = i
  <2> TAKE i \in R
  <2>1. i \in DOMAIN doc /\ doc[i] = line /\ i \in Nat /\ (i <= p \/ i > p + m)
    BY <1>1 DEF Places
  <2>2. ~(i > p /\ i <= p + m)
    BY <2>1
  <2>3. /\ Carry(i, p, m, n) \in DOMAIN new /\ new[Carry(i, p, m, n)] = doc[i]
        /\ Carry(Carry(i, p, m, n), p, n, m) = i
    BY <2>1, <2>2, <1>2 DEF Origins
  <2> QED  BY <2>1, <2>3 DEF Places
<1>6. f \in Injection(R, Q)
  <2>1. f \in [R -> Q]
    BY <1>5
  <2>2. \A i, j \in R : f[i] = f[j] => i = j
    <3> TAKE i, j \in R
    <3>1. f[i] = Carry(i, p, m, n) /\ f[j] = Carry(j, p, m, n)
      OBVIOUS
    <3>2. Carry(f[i], p, n, m) = i /\ Carry(f[j], p, n, m) = j
      <4> HIDE DEF f
      <4> QED  BY <3>1, <1>5
    <3> HIDE DEF f
    <3> QED  BY <3>2
  <2> HIDE DEF f, R, Q
  <2> QED  BY <2>1, <2>2 DEF Injection, IsInjective
<1>7. IsFiniteSet(R) /\ Cardinality(R) <= Cardinality(Q)
  <2> HIDE DEF f, R, Q
  <2> QED  BY <1>3, <1>6, FS_Injection
<1>8. CASE P \subseteq R
  <2>1. P = R
    BY <1>8
  <2> HIDE DEF P, R, Q
  <2> QED  BY <1>4, <1>7, <2>1 DEF P, Q
<1>9. CASE ~(P \subseteq R)
  <2>1. PICK x \in P : x \notin R
    BY <1>9
  <2>2. \A y \in P : y \notin R => /\ y \in DOMAIN doc /\ y \in Nat /\ doc[y] = line /\ m = 4
                                   /\ y - p \in 1..4 /\ line = Block(t, Managed(doc, t))[y - p]
    <3> TAKE y \in P
    <3> HAVE y \notin R
    <3>1. y \in DOMAIN doc /\ y \in Nat /\ doc[y] = line /\ ~(y <= p \/ y > p + m)
      BY <1>1 DEF Places
    <3> QED  BY <3>1, <1>2 DEF Origins
  <2>3. m = 4 /\ IntactAt(doc, t, p + 1) /\ p + 1 \in DOMAIN doc
    <3>1. m = 4
      BY <2>1, <2>2
    <3> QED  BY <3>1, <1>1 DEF Replaces
  <2>4. Managed(doc, t) \in Launches /\ Intact(doc, t)
    BY <2>3, IntactIs
  <2> DEFINE B == Block(t, Managed(doc, t))
  <2>5. \A k, l \in 1..4 : B[k] = B[l] => k = l
    <3>1. B[1][1] = "begin" /\ B[2][1] = "meta" /\ B[3][1] = "line" /\ B[4][1] = "end"
      BY <2>4, BlockIs, Kinds
    <3>2. \A k \in 1..4 : k = 1 \/ k = 2 \/ k = 3 \/ k = 4
      OBVIOUS
    <3> HIDE DEF B
    <3> QED  BY <3>1, <3>2
  <2>6. P \subseteq R \cup {x}
    <3> SUFFICES ASSUME NEW y \in P, y \notin R PROVE y = x
      OBVIOUS
    <3>1. /\ y \in Nat /\ y - p \in 1..4 /\ line = B[y - p]
          /\ x \in Nat /\ x - p \in 1..4 /\ line = B[x - p]
      BY <2>1, <2>2
    <3> HIDE DEF B
    <3>2. y - p = x - p
      BY <3>1, <2>5
    <3> QED  BY <3>1, <3>2
  <2>7. IsFiniteSet(R \cup {x}) /\ Cardinality(R \cup {x}) <= Cardinality(R) + 1 /\ Cardinality(R) \in Nat
    <3> HIDE DEF R
    <3>1. Cardinality(R) \in Nat
      BY <1>7, FS_CardinalityType
    <3>2. /\ IsFiniteSet(R \cup {x})
          /\ Cardinality(R \cup {x}) = Cardinality(R) \/ Cardinality(R \cup {x}) = Cardinality(R) + 1
      <4>1. IsFiniteSet(R \cup {x})
            /\ Cardinality(R \cup {x}) = IF x \in R THEN Cardinality(R) ELSE Cardinality(R) + 1
        BY <1>7, FS_AddElement, Zenon
      <4>2. CASE x \in R
        BY <4>1, <4>2
      <4>3. CASE x \notin R
        BY <4>1, <4>3
      <4> QED  BY <4>2, <4>3
    <3> QED  BY <3>1, <3>2
  <2>8. Cardinality(P) <= Cardinality(R \cup {x}) /\ Cardinality(R \cup {x}) \in Nat
    <3> HIDE DEF R, P
    <3>1. P \in SUBSET (R \cup {x})
      BY <2>6
    <3> QED  BY <3>1, <2>7, FS_Subset, FS_CardinalityType
  <2>9. Cardinality(P) <= Cardinality(Q) + 1
    <3> HIDE DEF R, P, Q
    <3> QED  BY <1>4, <1>7, <2>7, <2>8
  <2>10. line \in Range(B)
    <3>1. DOMAIN B = 1..4
      BY <2>4, BlockIs, LenProperties
    <3>2. x - p \in 1..4 /\ line = B[x - p]
      BY <2>1, <2>2
    <3> HIDE DEF B
    <3> QED  BY <3>1, <3>2 DEF Range
  <2>11. Managed(doc, t) # None
    BY <2>4, NoneApart
  <2> HIDE DEF P, Q, R
  <2> QED  BY <1>4, <2>9, <2>10, <2>11 DEF P, Q
<1> QED  BY <1>8, <1>9

LEMMA OnceAtMost ==
  ASSUME NEW doc \in Seq(Lines), NEW new, NEW t \in Targets, NEW s \in Values,
         NEW p \in Nat, NEW m \in Nat, NEW n \in Nat, Replaces(doc, new, t, s, p, m, n)
  PROVE  Cardinality(Places(new, Begin(t))) <= 1
<1>1. CASE n = 0
  <2>1. Places(new, Begin(t)) = {}
    BY <1>1, Here DEF Absent
  <2> QED  BY <2>1, FS_EmptySet
<1>2. CASE n # 0
  <2>1. Places(new, Begin(t)) = {p + 1}
    BY <1>2, Here DEF IntactAt
  <2>2. Cardinality({p + 1}) = 1
    BY FS_Singleton
  <2> HIDE DEF Replaces
  <2> QED  BY <2>1, <2>2
<1> QED  BY <1>1, <1>2

(* The three together, in one step of a command.                           *)
LEMMA OthersKeptStep ==
  ASSUME TypeInv, Planned, NEW c \in Commands, Puts(c), cmd[c].at = "install", tab = cmd[c].doc
  PROVE  LET t == This(c)
             owned == cmd[c].intent[t].record
         IN /\ Others(tab', t) = Others(tab, t)
            /\ \A line \in Range(tab) :
                 Cardinality(Places(tab, line)) <= Cardinality(Places(tab', line)) +
                   (IF owned # None /\ line \in Range(Block(t, owned)) THEN 1 ELSE 0)
            /\ Cardinality(Places(tab', Begin(t))) <= 1
<1> DEFINE t == This(c)
           s == Want(c)
           owned == cmd[c].intent[t].record
<1>1. t \in Targets /\ s \in Values /\ tab \in Seq(Lines)
  BY ThisIs, InHandIs, JobFields DEF TypeInv
<1>2. PICK p, m, n \in Nat : Replaces(tab, tab', t, s, p, m, n)
  BY PutsDoes
<1>3. Managed(tab, t) \in {None, owned}
  BY DEF Planned, PlannedFor
<1> HIDE DEF t, s, owned
<1>4. Others(tab', t) = Others(tab, t)
  BY <1>1, <1>2, OthersStay
<1>5. Cardinality(Places(tab', Begin(t))) <= 1
  BY <1>1, <1>2, OnceAtMost
<1>6. ASSUME NEW line \in Range(tab)
      PROVE  Cardinality(Places(tab, line)) <= Cardinality(Places(tab', line)) +
               (IF owned # None /\ line \in Range(Block(t, owned)) THEN 1 ELSE 0)
  <2>1. /\ Cardinality(Places(tab', line)) \in Nat /\ Cardinality(Places(tab, line)) \in Nat
        /\ \/ Cardinality(Places(tab, line)) <= Cardinality(Places(tab', line))
           \/ /\ Cardinality(Places(tab, line)) <= Cardinality(Places(tab', line)) + 1
              /\ Managed(tab, t) # None /\ line \in Range(Block(t, Managed(tab, t)))
    BY <1>1, <1>2, LinesStay
  <2>2. CASE owned # None /\ line \in Range(Block(t, owned))
    BY <2>1, <2>2
  <2>3. CASE ~(owned # None /\ line \in Range(Block(t, owned)))
    BY <2>1, <2>3, <1>3
  <2> QED  BY <2>2, <2>3
<1> QED  BY <1>4, <1>5, <1>6 DEF t, owned

-----------------------------------------------------------------------------
(* A run nobody interferes with stays on its course.                       *)

(* A step of somebody else either leaves everything the course depends on  *)
(* as it is, or is noted.                                                  *)
Calm(d) == cmd'[d] = cmd[d] /\ tab' = tab /\ record' = record /\ current \subseteq current'
Noted(d) == Alike(d) /\ (cmd[d].at # "idle" => cmd'[d].disturbed)

LEMMA NotedIs ==
  ASSUME InHand, NEW d \in Commands,
         cmd'[d] = [cmd[d] EXCEPT !.disturbed = @ \/ cmd[d].at # "idle"]
  PROVE  Noted(d)
<1>1. cmd[d] \in Jobs
  BY InHandIs DEF Sound
<1>2. Alike(d)
  BY <1>1 DEF Alike, Jobs
<1>3. cmd'[d].disturbed = (cmd[d].disturbed \/ cmd[d].at # "idle")
  BY <1>1 DEF Jobs
<1> QED  BY <1>2, <1>3 DEF Noted

LEMMA OthersStep ==
  ASSUME TypeInv, [Next]_vars, NEW d \in Commands
  PROVE  Calm(d) \/ Noted(d) \/ Steps(d) \/ Fails(d) \/ Crash(d)
<1>0. InHand
  BY DEF TypeInv
<1>1. CASE EditTab \/ Change
  <2>1. cmd' = Disturbed({})
    BY <1>1 DEF EditTab, Change
  <2>2. cmd'[d] = [cmd[d] EXCEPT !.disturbed = @ \/ (d \notin {} /\ cmd[d].at # "idle")]
    BY <1>0, <2>1, Disturbs
  <2>3. (d \notin {} /\ cmd[d].at # "idle") = (cmd[d].at # "idle")
    OBVIOUS
  <2>4. cmd'[d] = [cmd[d] EXCEPT !.disturbed = @ \/ cmd[d].at # "idle"]
    BY <2>2, <2>3
  <2> QED  BY <1>0, <2>4, NotedIs
<1>2. CASE (\E t \in Targets : Publish(t)) \/ UNCHANGED vars
  BY <1>2 DEF Publish, vars, setVars, Calm
<1>3. ASSUME NEW c \in Commands, Steps(c) \/ Fails(c) \/ Crash(c), c # d
      PROVE  Calm(d) \/ Noted(d)
  <2>1. ASSUME NEW job, Becomes(c, job), UNCHANGED <<tab, record, setVars>> PROVE Calm(d)
    BY <1>3, <2>1 DEF Becomes, Calm, setVars
  <2>2. ASSUME NEW job, Shakes(c, job) PROVE Noted(d)
    <3>1. cmd'[d] = [cmd[d] EXCEPT !.disturbed = @ \/ cmd[d].at # "idle"]
      BY <1>3, <2>2 DEF Shakes
    <3> QED  BY <1>0, <3>1, NotedIs
  <2>3. CASE Begins(c)
    <3>1. UNCHANGED <<tab, record, setVars>>
      BY <2>3 DEF Begins, Inside
    <3> QED  BY <2>1, <2>3, <3>1, BeginsDoes
  <2>4. CASE Replan(c)
    BY <2>1, <2>4, ReplanDoes, ZenonT(60) DEF Inside
  <2>5. CASE Inspect(c)
    BY <2>1, <2>5, InspectDoes DEF Inside
  <2>6. CASE Converge(c) \/ Check(c)
    BY <2>1, <2>6, VerifyDoes DEF Inside
  <2>7. CASE Crash(c)
    BY <2>1, <2>7, CrashDoes
  <2>8. CASE Install(c)
    BY <2>2, <2>8, InstallDoes
  <2>9. CASE Record(c)
    BY <2>2, <2>9, RecordDoes
  <2>10. CASE Fails(c)
    BY <2>1, <2>2, <2>10, FailsDoes
  <2> QED  BY <1>3, <2>3, <2>4, <2>5, <2>6, <2>7, <2>8, <2>9, <2>10 DEF Steps
<1>4. ASSUME NEW c \in Commands, Steps(c) \/ Fails(c) \/ Crash(c)
      PROVE  Calm(d) \/ Noted(d) \/ Steps(d) \/ Fails(d) \/ Crash(d)
  <2>1. CASE c = d
    BY <1>4, <2>1
  <2>2. CASE c # d
    BY <1>3, <1>4, <2>2
  <2> QED  BY <2>1, <2>2
<1> QED  BY <1>1, <1>2, <1>4, Zenon DEF Next

(* What is intended only depends on the document and the record.           *)
LEMMA SameIntents ==
  ASSUME tab' = tab, record' = record
  PROVE  \A t, s : Intent(t, s)' = Intent(t, s)
BY DEF Intent, Guarded

(* The target in hand, as one of those of the run.                         *)
LEMMA InHandGoal ==
  ASSUME InHand, NEW c \in Commands, cmd[c].at # "idle"
  PROVE  /\ This(c) \in cmd[c].todo /\ This(c) \in DOMAIN cmd[c].intent /\ Want(c) = Goal(c, This(c))
         /\ DOMAIN cmd[c].intent \subseteq Targets /\ cmd[c].todo \subseteq DOMAIN cmd[c].intent
         /\ \A t \in DOMAIN cmd[c].intent : cmd[c].intent[t] \in Intents
<1>1. Sound(cmd[c])
  BY InHandIs
<1> QED  BY <1>1, ThisIs, JobFields DEF Want, Goal

(* The steps that change nothing but where the run is.                     *)
LEMMA CourseOn ==
  ASSUME NEW c \in Commands, Course(c), tab' = tab, record' = record, current \subseteq current',
         cmd'[c].intent = cmd[c].intent, cmd'[c].todo = cmd[c].todo,
         cmd'[c].wants = cmd[c].wants, cmd'[c].spec = cmd[c].spec,
         cmd'[c].at \in {"inspect", "install"} => cmd'[c].doc = tab,
         cmd[c].at \in Done => cmd'[c].at \in Done,
         cmd'[c].at \in Done => Found(tab, This(c), Want(c)) = "noop"
  PROVE  Course(c)'
<1>1. This(c)' = This(c) /\ Want(c)' = Want(c) /\ \A t : Goal(c, t)' = Goal(c, t)
  BY SameTodo
<1>2. \A t, s : Intent(t, s)' = Intent(t, s)
  BY SameIntents
<1>3. ~ Copied(tab')
  BY DEF Course
<1>4. \A t \in DOMAIN cmd'[c].intent : Goal(c, t)' # None => t \in current'
  BY <1>1 DEF Course
<1>5. \A t \in cmd'[c].todo :
        (t = This(c)' /\ cmd'[c].at \in Done) \/ Intent(t, Goal(c, t))' = cmd'[c].intent[t]
  <2> TAKE t \in cmd'[c].todo
  <2>1. (t = This(c) /\ cmd[c].at \in Done) \/ Intent(t, Goal(c, t)) = cmd[c].intent[t]
    BY DEF Course
  <2>2. Intent(t, Goal(c, t))' = Intent(t, Goal(c, t))
    BY <1>1, <1>2
  <2> QED  BY <1>1, <2>1, <2>2
<1>6. \A t \in DOMAIN cmd'[c].intent \ cmd'[c].todo :
        record'[t] = Goal(c, t)' /\ Found(tab, t, Goal(c, t))' = "noop"
  <2> TAKE t \in DOMAIN cmd'[c].intent \ cmd'[c].todo
  <2>1. record[t] = Goal(c, t) /\ Found(tab, t, Goal(c, t)) = "noop"
    BY DEF Course
  <2> QED  BY <1>1, <2>1
<1>7. cmd'[c].at \in Done => Found(tab, This(c), Want(c))' = "noop"
  BY <1>1
<1> QED  BY <1>3, <1>4, <1>5, <1>6, <1>7 DEF Course

LEMMA CourseBegins ==
  ASSUME TypeInv, NEW c \in Commands, Begins(c), Alone(c)'
  PROVE  Course(c)'
<1> DEFINE plan == [t \in Registered |-> Intended(t)]
           job == [Idle EXCEPT !.at = "replan", !.spec = launch, !.wants = Wanted,
                !.todo = Registered, !.intent = plan, !.disturbed = Copied(tab)]
<1>1. cmd'[c] = job
  BY BeginsDoes DEF Becomes
<1>2. /\ job.at = "replan" /\ job.spec = launch /\ job.wants = Wanted /\ job.todo = Registered
      /\ job.intent = plan /\ job.disturbed = Copied(tab)
  BY DEF Idle
<1>3. tab' = tab /\ record' = record /\ current' = current /\ Wanted \subseteq current
  BY DEF Begins, Inside, setVars
<1>4. ~ Copied(tab')
  BY <1>1, <1>2, <1>3 DEF Alone
<1> HIDE DEF job
<1>5. \A t : Goal(c, t)' = IF t \in Wanted THEN launch ELSE None
  BY <1>1, <1>2 DEF Goal
<1>6. \A t, s : Intent(t, s)' = Intent(t, s)
  BY <1>3, SameIntents
<1>7. \A t \in DOMAIN cmd'[c].intent : Goal(c, t)' # None => t \in current'
  BY <1>3, <1>5
<1>8. \A t \in cmd'[c].todo : Intent(t, Goal(c, t))' = cmd'[c].intent[t]
  <2> TAKE t \in cmd'[c].todo
  <2>1. t \in Registered /\ cmd'[c].intent[t] = Intended(t)
    BY <1>1, <1>2
  <2>2. Intended(t) = Intent(t, Goal(c, t)')
    BY <1>5 DEF Intended
  <2>3. Intent(t, Goal(c, t))' = Intent(t, Goal(c, t)')
    BY <1>6
  <2> QED  BY <2>1, <2>2, <2>3
<1>9. cmd'[c].at = "replan" /\ DOMAIN cmd'[c].intent \ cmd'[c].todo = {}
  BY <1>1, <1>2
<1> QED  BY <1>4, <1>7, <1>8, <1>9 DEF Course, Done

LEMMA CourseReplan ==
  ASSUME TypeInv, NEW c \in Commands, Replan(c), ~cmd[c].disturbed, Course(c)
  PROVE  Course(c)' /\ cmd'[c].at # "idle"
<1>0. InHand /\ cmd[c].at = "replan" /\ cmd[c] \in Jobs /\ cmd[c].at # "idle"
  BY ReplanDoes, InHandIs DEF TypeInv, Sound
<1>1. (Want(c) # None => This(c) \in current) /\ SameIntent(c)
  <2>1. This(c) \in cmd[c].todo /\ This(c) \in DOMAIN cmd[c].intent /\ Want(c) = Goal(c, This(c))
    BY <1>0, InHandGoal
  <2>2. cmd[c].at \notin Done
    BY <1>0 DEF Done
  <2>3. Intent(This(c), Goal(c, This(c))) = cmd[c].intent[This(c)]
    BY <2>1, <2>2 DEF Course
  <2>4. Goal(c, This(c)) # None => This(c) \in current
    BY <2>1 DEF Course
  <2> QED  BY <2>1, <2>3, <2>4 DEF SameIntent
<1>2. Inside /\ cmd'[c] = [cmd[c] EXCEPT !.at = "inspect", !.doc = tab]
  BY <1>1, ReplanDoes DEF Becomes
<1>3. /\ cmd'[c].at = "inspect" /\ cmd'[c].doc = tab /\ cmd'[c].intent = cmd[c].intent
      /\ cmd'[c].todo = cmd[c].todo /\ cmd'[c].wants = cmd[c].wants /\ cmd'[c].spec = cmd[c].spec
  BY <1>0, <1>2 DEF Jobs
<1>4. tab' = tab /\ record' = record /\ current \subseteq current'
  BY <1>2 DEF Inside, setVars
<1>5. cmd[c].at \notin Done /\ cmd'[c].at \notin Done
  BY <1>0, <1>3 DEF Done
<1>6. Course(c)'
  BY <1>3, <1>4, <1>5, CourseOn
<1> QED  BY <1>3, <1>6

LEMMA CourseInspect ==
  ASSUME TypeInv, Planned, NEW c \in Commands, Inspect(c), Course(c)
  PROVE  Course(c)' /\ cmd'[c].at # "idle"
<1>0. InHand /\ cmd[c].at = "inspect" /\ cmd[c] \in Jobs /\ Inside
  BY InspectDoes, InHandIs DEF TypeInv, Sound
<1>1. tab = cmd[c].doc
  BY <1>0 DEF Course
<1>2. tab' = tab /\ record' = record /\ current \subseteq current' /\ cmd[c].at \notin Done
  <2>1. tab' = tab /\ record' = record /\ current' = current
    BY <1>0, Zenon DEF Inside, setVars
  <2>2. cmd[c].at \notin Done
    <3>1. cmd[c].at = "inspect"
      BY <1>0, Zenon
    <3> QED  BY <3>1 DEF Done
  <2> QED  BY <2>1, <2>2
<1>3. \/ /\ cmd[c].intent[This(c)].disposition # "noop"
         /\ cmd'[c] = [cmd[c] EXCEPT !.at = "install"]
      \/ /\ cmd[c].intent[This(c)].disposition = "noop"
         /\ cmd'[c] = [cmd[c] EXCEPT !.at = "check", !.doc = << >>]
  BY <1>1, InspectDoes DEF Becomes
<1>4. CASE cmd'[c] = [cmd[c] EXCEPT !.at = "install"]
  <2>1. /\ cmd'[c].at = "install" /\ cmd'[c].doc = tab /\ cmd'[c].intent = cmd[c].intent
        /\ cmd'[c].todo = cmd[c].todo /\ cmd'[c].wants = cmd[c].wants /\ cmd'[c].spec = cmd[c].spec
    BY <1>0, <1>1, <1>4 DEF Jobs
  <2>2. cmd'[c].at \notin Done
    BY <2>1 DEF Done
  <2>3. Course(c)'
    BY <1>2, <2>1, <2>2, CourseOn
  <2> QED  BY <2>1, <2>3
<1>5. CASE /\ cmd[c].intent[This(c)].disposition = "noop"
           /\ cmd'[c] = [cmd[c] EXCEPT !.at = "check", !.doc = << >>]
  <2>1. /\ cmd'[c].at = "check" /\ cmd'[c].intent = cmd[c].intent
        /\ cmd'[c].todo = cmd[c].todo /\ cmd'[c].wants = cmd[c].wants /\ cmd'[c].spec = cmd[c].spec
    BY <1>0, <1>5 DEF Jobs
  <2>2. Found(tab, This(c), Want(c)) = "noop"
    BY <1>0, <1>1, <1>5 DEF Planned, PlannedFor
  <2>3. Course(c)'
    BY <1>2, <2>1, <2>2, CourseOn
  <2> QED  BY <2>1, <2>3
<1> QED  BY <1>3, <1>4, <1>5, ZenonT(60)

LEMMA CourseVerify ==
  ASSUME TypeInv, NEW c \in Commands, Converge(c) \/ Check(c), Course(c)
  PROVE  Course(c)' /\ cmd'[c].at # "idle"
<1>0. InHand /\ cmd[c].at \in {"converge", "check"} /\ cmd[c] \in Jobs /\ Inside
  BY VerifyDoes, InHandIs DEF TypeInv, Sound
<1>1. cmd[c].at \in Done
  BY <1>0 DEF Done
<1>2. Found(tab, This(c), Want(c)) = "noop"
  BY <1>1 DEF Course
<1>3. PICK x \in {"check", "record"} : cmd'[c] = [cmd[c] EXCEPT !.at = x]
  BY <1>2, VerifyDoes DEF Converged, Becomes
<1>4. /\ cmd'[c].at = x /\ cmd'[c].intent = cmd[c].intent
      /\ cmd'[c].todo = cmd[c].todo /\ cmd'[c].wants = cmd[c].wants /\ cmd'[c].spec = cmd[c].spec
  BY <1>0, <1>3 DEF Jobs
<1>5. tab' = tab /\ record' = record /\ current \subseteq current'
  BY <1>0 DEF Inside, setVars
<1>6. x \in Done /\ x \notin {"inspect", "install", "idle"}
  BY DEF Done
<1>7. Course(c)'
  BY <1>2, <1>4, <1>5, <1>6, CourseOn
<1> QED  BY <1>4, <1>6, <1>7

(* The other targets of the run do not notice that a block is put.         *)
LEMMA CourseInstall ==
  ASSUME TypeInv, Planned, NEW c \in Commands, Install(c), Course(c)
  PROVE  Course(c)' /\ cmd'[c].at # "idle"
<1>0. /\ InHand /\ cmd[c].at = "install" /\ cmd[c] \in Jobs /\ cmd[c].at # "idle" /\ Puts(c)
      /\ record' = record /\ current' = current
  BY InstallDoes, InHandIs DEF TypeInv, Sound, setVars
<1>1. cmd[c].doc = tab /\ tab \in Seq(Lines)
  BY <1>0 DEF Course, TypeInv, TypeOK
<1> DEFINE h == This(c)
           w == Want(c)
<1>2. h \in Targets /\ w \in Values /\ w = Goal(c, h)
  BY <1>0, ThisIs, InHandGoal
<1>3. PICK p, m, n \in Nat : Replaces(tab, tab', h, w, p, m, n)
  BY <1>0, <1>1, PutsDoes
<1>4. cmd'[c] = [cmd[c] EXCEPT !.at = "converge", !.doc = << >>]
  BY InstallDoes DEF Shakes
<1>5. /\ cmd'[c].at = "converge" /\ cmd'[c].intent = cmd[c].intent
      /\ cmd'[c].todo = cmd[c].todo /\ cmd'[c].wants = cmd[c].wants /\ cmd'[c].spec = cmd[c].spec
  BY <1>0, <1>4 DEF Jobs
<1>6. h' = h /\ w' = w /\ \A t : Goal(c, t)' = Goal(c, t)
  BY <1>5, SameTodo
<1> HIDE DEF h, w
<1>7. ~ Copied(tab') /\ Found(tab', h, w) = "noop"
  <2>1. ~ Copied(tab)
    BY DEF Course
  <2> QED  BY <1>1, <1>2, <1>3, <2>1, NoCopies
<1>8. DOMAIN cmd[c].intent \subseteq Targets /\ cmd[c].todo \subseteq DOMAIN cmd[c].intent
      /\ \A t \in DOMAIN cmd[c].intent : cmd[c].intent[t] \in Intents
  BY <1>0, InHandGoal
<1>9. ASSUME NEW u \in Targets, u # h, NEW want, Found(tab, u, want) # "conflict"
      PROVE  Found(tab', u, want) = Found(tab, u, want) /\ Managed(tab', u) = Managed(tab, u)
  BY <1>1, <1>2, <1>3, <1>9, Elsewhere
<1>10. \A t \in cmd'[c].todo :
         (t = h' /\ cmd'[c].at \in Done) \/ Intent(t, Goal(c, t))' = cmd'[c].intent[t]
  <2> SUFFICES ASSUME NEW t \in cmd[c].todo, t # h
               PROVE  Intent(t, Goal(c, t))' = cmd[c].intent[t]
    BY <1>5, <1>6 DEF Done
  <2> DEFINE g == Goal(c, t)
             plan == cmd[c].intent[t]
  <2>1. plan \in Intents /\ t \in Targets
    BY <1>8
  <2>2. cmd[c].at \notin Done
    BY <1>0 DEF Done
  <2>3. Intent(t, g) = plan
    BY <2>2 DEF Course
  <2>4. Goal(c, t)' = g
    BY <1>6
  <2> HIDE DEF g, plan
  <2>5. plan = [disposition |-> Guarded(tab, t, g), managed |-> Managed(tab, t), record |-> record[t]]
    BY <2>3 DEF Intent
  <2>6. Guarded(tab, t, g) # "conflict"
    BY <2>1, <2>5 DEF Intents
  <2>7. Found(tab, t, g) # "conflict"
    BY <2>6, GuardedType
  <2>8. Found(tab', t, g) = Found(tab, t, g) /\ Managed(tab', t) = Managed(tab, t)
    BY <1>9, <2>1, <2>7
  <2>9. Intent(t, Goal(c, t))' = Intent(t, g)
    BY <1>0, <2>4, <2>8 DEF Intent, Guarded
  <2> QED  BY <2>3, <2>9 DEF plan
<1>11. \A t \in DOMAIN cmd'[c].intent \ cmd'[c].todo :
         record'[t] = Goal(c, t)' /\ Found(tab, t, Goal(c, t))' = "noop"
  <2> TAKE t \in DOMAIN cmd'[c].intent \ cmd'[c].todo
  <2>1. record[t] = Goal(c, t) /\ Found(tab, t, Goal(c, t)) = "noop"
    BY <1>5 DEF Course
  <2>2. t \in Targets /\ t # h
    <3>1. h \in cmd[c].todo
      BY <1>0, InHandGoal DEF h
    <3> QED  BY <1>5, <1>8, <3>1
  <2>3. Found(tab', t, Goal(c, t)) = Found(tab, t, Goal(c, t))
    BY <1>9, <2>1, <2>2
  <2> QED  BY <1>0, <1>6, <2>1, <2>3
<1>12. \A t \in DOMAIN cmd'[c].intent : Goal(c, t)' # None => t \in current'
  BY <1>0, <1>5, <1>6 DEF Course
<1>13. Found(tab', h', w') = "noop"
  BY <1>6, <1>7
<1>14. cmd'[c].at \notin {"inspect", "install"} /\ cmd'[c].at # "idle"
  BY <1>5
<1> QED  BY <1>7, <1>10, <1>11, <1>12, <1>13, <1>14 DEF Course, h, w

(* With the record of the target in hand, one more is done, or all are.    *)
LEMMA CourseRecord ==
  ASSUME TypeInv, NEW c \in Commands, Record(c), Course(c)
  PROVE  /\ cmd'[c].at # "idle" => Course(c)'
         /\ cmd'[c] = Idle => \A t \in DOMAIN cmd[c].intent :
              record'[t] = Goal(c, t) /\ Found(tab', t, Goal(c, t)) = "noop"
<1>0. /\ InHand /\ cmd[c].at = "record" /\ cmd[c] \in Jobs /\ cmd[c].at # "idle"
      /\ record' = [record EXCEPT ![This(c)] = Want(c)]
      /\ tab' = tab /\ current' = current /\ record \in [Targets -> Values]
  BY RecordDoes, InHandIs DEF TypeInv, TypeOK, Sound, setVars
<1> DEFINE h == This(c)
           w == Want(c)
           rest == [cmd[c] EXCEPT !.at = "replan", !.todo = @ \ {h}]
<1>1. /\ h \in Targets /\ h \in cmd[c].todo /\ w = Goal(c, h) /\ DOMAIN cmd[c].intent \subseteq Targets
      /\ cmd[c].todo \subseteq DOMAIN cmd[c].intent
  BY <1>0, ThisIs, InHandGoal
<1>2. cmd'[c] = IF cmd[c].todo = {h} THEN Idle ELSE rest
  BY RecordDoes DEF Shakes
<1>3. /\ rest.at = "replan" /\ rest.todo = cmd[c].todo \ {h} /\ rest.intent = cmd[c].intent
      /\ rest.wants = cmd[c].wants /\ rest.spec = cmd[c].spec
  BY <1>0 DEF Jobs
<1>4. Found(tab, h, w) = "noop"
  BY <1>0 DEF Course, Done
<1> HIDE DEF h, w, rest
<1>5. record'[h] = w /\ \A t \in Targets \ {h} : record'[t] = record[t]
  BY <1>0, <1>1 DEF h, w
<1>6. \A t \in DOMAIN cmd[c].intent : t \notin cmd[c].todo \/ t = h =>
        record'[t] = Goal(c, t) /\ Found(tab', t, Goal(c, t)) = "noop"
  <2> SUFFICES ASSUME NEW t \in DOMAIN cmd[c].intent, t \notin cmd[c].todo \/ t = h
               PROVE  record'[t] = Goal(c, t) /\ Found(tab', t, Goal(c, t)) = "noop"
    OBVIOUS
  <2>1. CASE t = h
    BY <2>1, <1>0, <1>1, <1>4, <1>5
  <2>2. CASE t # h
    <3>1. record[t] = Goal(c, t) /\ Found(tab, t, Goal(c, t)) = "noop"
      BY <2>2 DEF Course
    <3> QED  BY <2>2, <3>1, <1>0, <1>1, <1>5
  <2> QED  BY <2>1, <2>2
<1>7. CASE cmd[c].todo = {h}
  <2>1. cmd'[c] = Idle /\ Idle.at = "idle"
    BY <1>2, <1>7, IdleSound
  <2>2. \A t \in DOMAIN cmd[c].intent : record'[t] = Goal(c, t) /\ Found(tab', t, Goal(c, t)) = "noop"
    BY <1>6, <1>7
  <2> QED  BY <2>1, <2>2
<1>8. CASE cmd[c].todo # {h}
  <2>1. cmd'[c] = rest
    BY <1>2, <1>8
  <2>2. cmd'[c] # Idle /\ cmd'[c].at = "replan"
    BY <2>1, <1>3, IdleSound
  <2>3. \A t : Goal(c, t)' = Goal(c, t)
    BY <2>1, <1>3 DEF Goal
  <2>4. \A t \in DOMAIN cmd'[c].intent : Goal(c, t)' # None => t \in current'
    BY <2>1, <2>3, <1>0, <1>3 DEF Course
  <2>5. \A t \in cmd'[c].todo : Intent(t, Goal(c, t))' = cmd'[c].intent[t]
    <3> SUFFICES ASSUME NEW t \in cmd[c].todo, t # h
                 PROVE  Intent(t, Goal(c, t))' = cmd[c].intent[t]
      BY <2>1, <1>3
    <3> DEFINE g == Goal(c, t)
    <3>1. Intent(t, g) = cmd[c].intent[t]
      BY DEF Course, h
    <3>2. Goal(c, t)' = g /\ record'[t] = record[t]
      BY <2>3, <1>1, <1>5
    <3> HIDE DEF g
    <3>3. Intent(t, Goal(c, t))' = Intent(t, g)
      BY <1>0, <3>2 DEF Intent, Guarded
    <3> QED  BY <3>1, <3>3
  <2>6. \A t \in DOMAIN cmd'[c].intent \ cmd'[c].todo :
          record'[t] = Goal(c, t)' /\ Found(tab, t, Goal(c, t))' = "noop"
    <3> TAKE t \in DOMAIN cmd'[c].intent \ cmd'[c].todo
    <3>1. t \in DOMAIN cmd[c].intent /\ (t \notin cmd[c].todo \/ t = h)
      BY <2>1, <1>3
    <3> QED  BY <3>1, <1>6, <2>3
  <2>7. ~ Copied(tab')
    BY <1>0 DEF Course
  <2> QED  BY <2>2, <2>4, <2>5, <2>6, <2>7 DEF Course, Done
<1> QED  BY <1>7, <1>8, Zenon

(* A run on its course stays on it; it only ends with its last record.     *)
LEMMA CourseStep ==
  ASSUME TypeInv, Planned, [Next]_vars, NEW c \in Commands, Alone(c) => Course(c)
  PROVE  /\ Alone(c)' => Course(c)'
         /\ Alone(c) /\ cmd'[c] = Idle /\ troubles' = troubles =>
              \A t \in DOMAIN cmd[c].intent :
                record'[t] = Goal(c, t) /\ Found(tab', t, Goal(c, t)) = "noop"
<1>0. InHand /\ Idle.at = "idle" /\ ~Idle.disturbed /\ troubles \in Nat
      /\ cmd[c] \in Jobs /\ cmd[c].disturbed \in BOOLEAN
  <2>1. troubles \in Nat
    BY BoundAssumption DEF TypeInv, TypeOK
  <2>2. InHand /\ Sound(cmd[c])
    BY InHandIs DEF TypeInv
  <2> QED  BY <2>1, <2>2, IdleSound, JobFields DEF Sound, Idle
<1>1. CASE Calm(c)
  <2>1. Alone(c)' = Alone(c)
    BY <1>1 DEF Calm, Alone
  <2>2. ASSUME Alone(c) PROVE Course(c)'
    <3>1. Course(c)
      BY <2>2
    <3>2. /\ cmd[c].at \in {"inspect", "install"} => cmd[c].doc = tab
          /\ cmd[c].at \in Done => Found(tab, This(c), Want(c)) = "noop"
      BY <3>1 DEF Course
    <3> QED  BY <1>1, <3>1, <3>2, CourseOn DEF Calm
  <2>3. Alone(c) => cmd'[c] # Idle
    BY <1>0, <1>1 DEF Calm, Alone
  <2> QED  BY <2>1, <2>2, <2>3
<1>2. CASE Noted(c)
  <2>1. cmd'[c].at = cmd[c].at /\ (cmd[c].at # "idle" => cmd'[c].disturbed)
    BY <1>2 DEF Noted, Alike
  <2> QED  BY <1>0, <2>1 DEF Alone
<1>3. CASE Begins(c)
  <2>1. cmd[c].at = "idle"
    BY <1>3 DEF Begins, At
  <2> QED  BY <1>3, <2>1, CourseBegins DEF Alone
<1>4. CASE Fails(c) \/ Crash(c)
  <2>1. cmd'[c] = Idle /\ troubles' = troubles + 1
    BY <1>4, FailsDoes, CrashDoes DEF Becomes, Shakes
  <2>2. troubles' # troubles
    BY <1>0, <2>1
  <2> QED  BY <1>0, <2>1, <2>2 DEF Alone
<1>5. ASSUME Replan(c) \/ Inspect(c) \/ Install(c) \/ Converge(c) \/ Check(c) \/ Record(c)
      PROVE  cmd[c].at # "idle" /\ (cmd'[c] = Idle \/ cmd'[c].disturbed = cmd[c].disturbed)
  <2>1. cmd[c].at # "idle"
    BY <1>5 DEF Replan, Inspect, Install, Converge, Check, Record, At
  <2>2. CASE Replan(c)
    BY <1>0, <2>2, ReplanDoes, ZenonT(90) DEF Becomes, Jobs
  <2>3. CASE Inspect(c)
    <3>1. \/ cmd'[c] = Idle \/ cmd'[c] = [cmd[c] EXCEPT !.at = "install"]
          \/ cmd'[c] = [cmd[c] EXCEPT !.at = "check", !.doc = << >>]
      BY <2>3, InspectDoes DEF Becomes
    <3> HIDE DEF Idle
    <3> QED  BY <1>0, <2>1, <3>1 DEF Jobs
  <2>4. CASE Install(c)
    BY <1>0, <2>4, InstallDoes, ZenonT(90) DEF Shakes, Jobs
  <2>5. CASE Converge(c) \/ Check(c)
    BY <1>0, <2>5, VerifyDoes, ZenonT(90) DEF Becomes, Jobs
  <2>6. CASE Record(c)
    BY <1>0, <2>6, RecordDoes, ZenonT(90) DEF Shakes, Jobs
  <2> QED  BY <1>5, <2>1, <2>2, <2>3, <2>4, <2>5, <2>6
<1>6. CASE Replan(c) \/ Inspect(c) \/ Install(c) \/ Converge(c) \/ Check(c)
  <2>1. Alone(c)' => Alone(c)
    BY <1>0, <1>5, <1>6 DEF Alone
  <2>2. Alone(c) => Course(c)' /\ cmd'[c].at # "idle"
    BY <1>6, CourseReplan, CourseInspect, CourseInstall, CourseVerify DEF Alone
  <2> QED  BY <1>0, <2>1, <2>2
<1>7. CASE Record(c)
  <2>1. Alone(c)' => Alone(c)
    BY <1>0, <1>5, <1>7 DEF Alone
  <2>2. Alone(c)' => cmd'[c].at # "idle"
    BY DEF Alone
  <2> QED  BY <1>7, <2>1, <2>2, CourseRecord
<1> QED  BY <1>1, <1>2, <1>3, <1>4, <1>6, <1>7, OthersStep DEF Steps

-----------------------------------------------------------------------------
(* The theorems.                                                           *)

LEMMA TypePlanned == Spec => [](TypeInv /\ Planned)
<1>1. Init => TypeInv /\ Planned
  BY TypeInit, PlannedInit
<1>2. TypeInv /\ Planned /\ [Next]_vars => (TypeInv /\ Planned)'
  BY TypeStep, PlannedStep
<1> QED  BY <1>1, <1>2, PTL DEF Spec

(* The types of the crontab, the records and the running commands: every   *)
(* line that a register command writes is one of a block or one it found.  *)
THEOREM TypeCorrect == Spec => []TypeOK
<1>1. TypeInv /\ Planned => TypeOK
  BY DEF TypeInv
<1> QED  BY <1>1, TypePlanned, PTL

(* Only a call of crontab that takes effect changes the document.          *)
LEMMA Putting ==
  ASSUME TypeInv, [Next]_vars, NEW c \in Commands,
         cmd[c].at = "install", cmd'[c].at # "install", tab' # tab
  PROVE  Puts(c)
<1>1. ~ Alike(c)
  BY DEF Alike
<1>2. Steps(c) \/ Fails(c) \/ Crash(c)
  BY <1>1, Movers
<1>3. Install(c) \/ Fails(c) \/ Crash(c)
  BY <1>2 DEF Steps, Begins, Replan, Inspect, Converge, Check, Record, At
<1>4. ~ Crash(c)
  BY CrashDoes
<1> QED  BY <1>3, <1>4, InstallDoes, FailsDoes

(* What a command puts into the crontab that users and all targets share   *)
(* leaves the lines of users and other targets there, in their order, and  *)
(* of the lines of its own target takes out at most the block on record;   *)
(* the target then has at most one block (LinuxCronBackend.apply, remove). *)
THEOREM OthersKeptCorrect == Spec => OthersKept
<1>1. ASSUME TypeInv, Planned, [Next]_vars, NEW c \in Commands,
             At(c, "install"), cmd'[c].at # "install", tab' # tab, tab = cmd[c].doc
      PROVE  LET t == This(c)
                 owned == cmd[c].intent[t].record
             IN /\ Others(tab', t) = Others(tab, t)
                /\ \A line \in Range(tab) :
                     Cardinality(Places(tab, line)) <= Cardinality(Places(tab', line)) +
                       (IF owned # None /\ line \in Range(Block(t, owned)) THEN 1 ELSE 0)
                /\ Cardinality(Places(tab', Begin(t))) <= 1
  <2>1. cmd[c].at = "install"
    BY <1>1 DEF At
  <2>2. Puts(c)
    BY <1>1, <2>1, Putting
  <2> QED  BY <1>1, <2>1, <2>2, OthersKeptStep
<1>2. TypeInv /\ Planned /\ [Next]_vars =>
        [\A c \in Commands : At(c, "install") /\ cmd'[c].at # "install" /\ tab' # tab /\ tab = cmd[c].doc =>
           LET t == This(c)
               owned == cmd[c].intent[t].record
           IN /\ Others(tab', t) = Others(tab, t)
              /\ \A line \in Range(tab) :
                   Cardinality(Places(tab, line)) <= Cardinality(Places(tab', line)) +
                     (IF owned # None /\ line \in Range(Block(t, owned)) THEN 1 ELSE 0)
              /\ Cardinality(Places(tab', Begin(t))) <= 1]_vars
  BY <1>1, Zenon
<1> QED  BY <1>2, TypePlanned, PTL DEF Spec, OthersKept

LEMMA Invariant == Spec => []Inv
<1>1. Init => OnCourse
  BY IdleSound DEF Init, OnCourse, Alone
<1>2. TypeInv /\ Planned /\ OnCourse /\ [Next]_vars => OnCourse'
  BY CourseStep DEF OnCourse
<1>3. TypeInv /\ Planned /\ OnCourse => Inv
  BY DEF Inv
<1> QED  BY <1>1, <1>2, <1>3, TypePlanned, PTL DEF Spec

(* All targets of a run share the document that each of them changes; all  *)
(* the same a run nobody interferes with, of any number of targets, does   *)
(* not end before every target has the block and the record it was to have *)
(* (apply_scheduler_registrations compares each plan with the reviewed one *)
(* by an intent key without the document).                                 *)
THEOREM CompletesCorrect == Spec => Completes
<1>1. ASSUME Inv, [Next]_vars, NEW c \in Commands,
             ~At(c, "idle"), cmd'[c] = Idle, ~cmd[c].disturbed, troubles' = troubles,
             NEW t \in DOMAIN cmd[c].intent
      PROVE  LET want == IF t \in cmd[c].wants THEN cmd[c].spec ELSE None
             IN record'[t] = want /\ Found(tab', t, want) = "noop"
  <2>1. TypeInv /\ Planned /\ (Alone(c) => Course(c))
    BY <1>1 DEF Inv, OnCourse
  <2>2. Alone(c)
    BY <1>1 DEF Alone, At
  <2>3. record'[t] = Goal(c, t) /\ Found(tab', t, Goal(c, t)) = "noop"
    BY <1>1, <2>1, <2>2, CourseStep
  <2> QED  BY <2>3 DEF Goal
<1>2. Inv /\ [Next]_vars =>
        [\A c \in Commands :
           ~At(c, "idle") /\ cmd'[c] = Idle /\ ~cmd[c].disturbed /\ troubles' = troubles =>
             \A t \in DOMAIN cmd[c].intent :
               LET want == IF t \in cmd[c].wants THEN cmd[c].spec ELSE None
               IN record'[t] = want /\ Found(tab', t, want) = "noop"]_vars
  BY <1>1, Zenon
<1> QED  BY <1>2, Invariant, PTL DEF Spec, Completes
=============================================================================
