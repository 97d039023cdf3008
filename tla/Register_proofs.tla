---------------------------- MODULE Register_proofs ----------------------------
(* Proofs about Register, for every number of servers, Plugins, entries,    *)
(* marketplace paths, changes, failures and kills.                          *)
EXTENDS Register, SequenceTheorems, FiniteSetTheorems, WellFoundedInduction, TLAPS

-----------------------------------------------------------------------------
(* The inductive invariant.                                                *)

ServerOrders ==
  {<<"remove", n, None>> : n \in Servers} \cup {<<"add-json", n, s>> : n \in Servers, s \in Specs}
PluginOrders ==
  {<<v, p, None>> : v \in {"install", "uninstall"}, p \in Plugins}
  \cup {<<"detach", None, None>>} \cup {<<"attach", None, d>> : d \in Places}
Orders == ServerOrders \cup PluginOrders

Ownership == [Servers -> Specs \cup {None}]
Steps == {"idle", "preflight", "plugins", "look", "act", "write", "verify", "adopt", "record", "release"}
Jobs == [at : Steps, todo : Seq(Orders), names : SUBSET (Plugins \cup Servers),
         home : Places \cup {None}, held : Ownership, goal : Ownership, late : BOOLEAN]

PluginSteps == {"preflight", "plugins"}
ServerSteps == {"look", "act", "write", "verify"}

(* What a command has in hand: first the Plugins, then the servers.        *)
InHand ==
  /\ cmd \in Jobs
  /\ cmd.at \in PluginSteps => cmd.names \subseteq Plugins /\ cmd.home \in Places
  /\ cmd.at \in PluginSteps =>
       \A i, j \in DOMAIN cmd.todo : i < j /\ cmd.todo[i] \in ServerOrders => cmd.todo[j] \in ServerOrders
  /\ cmd.at \in ServerSteps => cmd.todo \in Seq(ServerOrders)
  /\ cmd.at \in {"adopt", "record", "release"} => cmd.names \subseteq Servers

(* The queue of server commands still leads to the goal: what is ordered   *)
(* is part of it, a removal without an addition is the end of an entry,    *)
(* and a server with nothing ordered is as it is to be, or out of reach.   *)
Ordered(n) == \E i \in DOMAIN cmd.todo : cmd.todo[i] \in ServerOrders /\ cmd.todo[i][2] = n
Settled(n) ==
  cmd.goal[n] = cmd.held[n] \/ (cmd.goal[n] = None /\ (live[n] = None \/ n \in mine \cup blame))
Leads ==
  cmd.at \in PluginSteps \cup ServerSteps =>
    /\ \A i \in DOMAIN cmd.todo : cmd.todo[i][1] = "add-json" => cmd.todo[i][3] = cmd.goal[cmd.todo[i][2]]
    /\ \A i \in DOMAIN cmd.todo : cmd.todo[i][1] = "remove" =>
         \/ cmd.goal[cmd.todo[i][2]] = None
         \/ \E j \in DOMAIN cmd.todo :
              i < j /\ cmd.todo[j] = <<"add-json", cmd.todo[i][2], cmd.goal[cmd.todo[i][2]]>>
    /\ \A n \in Servers : Ordered(n) \/ Settled(n)

(* The ownership in memory is that on disk, except between a command and   *)
(* its record.                                                             *)
Pending(n) == cmd.at = "write" /\ n = Head1[2]
Memory ==
  /\ cmd.at \in PluginSteps \cup ServerSteps => \A n \in Servers : cmd.held[n] = owned[n] \/ Pending(n)
  /\ cmd.at \in {"write", "verify"} => cmd.held[Head1[2]] = Head1[3]

(* Whose an entry is.                                                      *)
Known ==
  \A n \in Servers : live[n] # None /\ n \notin mine \cup blame =>
    live[n] = IF Pending(n) THEN cmd.held[n] ELSE owned[n]
Foreigners == \A n \in mine : live[n] # None /\ live[n] # owned[n]

(* What was looked at is still so, or somebody was late.                   *)
Looked ==
  /\ cmd.at = "act" /\ ~cmd.late => Fits(Head1[2])
  /\ cmd.at = "record" => \A n \in cmd.names \cap Servers : n \in blame \/ live[n] = cmd.goal[n]

(* A Plugin on no record is loose, or its removal or its record is to come.*)
PluginsFound ==
  /\ installed \subseteq recorded.names \cup loose
  /\ cmd.at \in PluginSteps =>
       \A p \in installed \ (loose \cup cmd.names) :
         \E i \in DOMAIN cmd.todo : cmd.todo[i] = <<"uninstall", p, None>>

Inv == TypeOK /\ InHand /\ Leads /\ Memory /\ Known /\ Foreigners /\ Looked /\ PluginsFound

-----------------------------------------------------------------------------
(* Lemmas about sequences.                                                 *)

(* A nonempty set of numbers has a least element.                          *)
LEMMA Least ==
  ASSUME NEW S, S \subseteq Nat, S # {}
  PROVE  \E n \in S : \A m \in S : n <= m
<1> DEFINE R == {ss \in Nat \X Nat : ss[1] < ss[2]}
<1>1. IsWellFoundedOn(R, Nat)
  BY NatLessThanWellFounded DEF OpToRel
<1>2. PICK n \in S : \A m \in S : <<m, n>> \notin R
  <2> HIDE DEF R
  <2> QED  BY <1>1, WFMin, Zenon
<1>3. \A m \in S : n <= m
  <2> TAKE m \in S
  <2>1. m \in Nat /\ n \in Nat
    OBVIOUS
  <2>2. ~ (m < n)
    BY <2>1, <1>2
  <2> QED  BY <2>1, <2>2
<1> QED  BY <1>3

(* SetToSeq lists every element.                                           *)
LEMMA Listed ==
  ASSUME NEW S, IsFiniteSet(S)
  PROVE  /\ Cardinality(S) \in Nat
         /\ SetToSeq(S) \in [1..Cardinality(S) -> S]
         /\ \A x \in S : \E i \in 1..Cardinality(S) : SetToSeq(S)[i] = x
<1> DEFINE N == Cardinality(S)
<1>1. N \in Nat /\ ExistsBijection(1..N, S)
  BY FS_CardinalityType
<1>2. \E f \in [1..N -> S] : IsInjective(f)
  BY <1>1 DEF ExistsBijection, Bijection, Injection
<1>3. SetToSeq(S) \in [1..N -> S] /\ IsInjective(SetToSeq(S))
  BY <1>2 DEF SetToSeq
<1>4. SetToSeq(S) \in Injection(1..N, S)
  BY <1>3 DEF Injection
<1>5. IsFiniteSet(1..N) /\ Cardinality(1..N) = N
  BY <1>1, FS_Interval
<1>6. SetToSeq(S) \in Surjection(1..N, S)
  BY <1>4, <1>5, FS_Injection
<1> QED  BY <1>1, <1>3, <1>6 DEF Surjection

(* The recursion of FlattenSeq, up to n.                                   *)
Joins(g, seqs, n) == g = [i \in 1..n |-> IF i = 1 THEN seqs[i] ELSE g[i - 1] \o seqs[i]]

LEMMA Joined ==
  ASSUME NEW seqs, NEW n \in Nat
  PROVE  \E g : Joins(g, seqs, n)
<1> DEFINE Bad == {m \in Nat : ~ \E g : Joins(g, seqs, m)}
<1> SUFFICES ASSUME Bad # {} PROVE FALSE
  BY Zenon
<1>1. PICK m \in Bad : \A k \in Bad : m <= k
  <2>1. Bad \subseteq Nat
    OBVIOUS
  <2> HIDE DEF Bad
  <2> QED  BY <2>1, Least
<1>2. m # 0
  <2>1. Joins(<< >>, seqs, 0)
    BY DEF Joins
  <2> QED  BY <2>1
<1>3. m \in Nat /\ m - 1 \in Nat /\ m - 1 \notin Bad
  <2>1. m \in Nat /\ m - 1 \in Nat
    BY <1>2
  <2>2. ~(m <= m - 1)
    BY <2>1
  <2> HIDE DEF Bad
  <2> QED  BY <1>1, <2>1, <2>2
<1>4. PICK g : Joins(g, seqs, m - 1)
  BY <1>3
<1> DEFINE last == IF m = 1 THEN seqs[m] ELSE g[m - 1] \o seqs[m]
           h == [i \in 1..m |-> IF i = m THEN last ELSE g[i]]
<1>5. \A i \in 1..m : h[i] = IF i = 1 THEN seqs[i] ELSE h[i - 1] \o seqs[i]
  <2> TAKE i \in 1..m
  <2>1. CASE i = m
    <3>1. h[i] = last
      BY <2>1
    <3>2. m # 1 => h[m - 1] = g[m - 1] /\ m - 1 \in 1..m
      BY <1>3
    <3> QED  BY <2>1, <3>1, <3>2
  <2>2. CASE i # m
    <3>1. i \in 1..(m - 1) /\ h[i] = g[i]
      BY <1>3, <2>2
    <3>2. g[i] = IF i = 1 THEN seqs[i] ELSE g[i - 1] \o seqs[i]
      BY <1>4, <3>1 DEF Joins
    <3>3. i # 1 => h[i - 1] = g[i - 1]
      BY <1>3, <2>2
    <3> QED  BY <3>1, <3>2, <3>3
  <2> QED  BY <2>1, <2>2
<1>6. Joins(h, seqs, m)
  <2>1. DOMAIN h = 1..m /\ h = [i \in 1..m |-> h[i]]
    OBVIOUS
  <2> HIDE DEF h
  <2> QED  BY <2>1, <1>5 DEF Joins
<1> QED  BY <1>6

(* What FlattenSeq returns: each part lies in it in one piece, at some     *)
(* distance d, and there is nothing else in it.                            *)
Lies(part, whole, d) ==
  d \in Nat /\ \A m \in 1..Len(part) : d + m \in 1..Len(whole) /\ whole[d + m] = part[m]

Joint(whole, seqs, n) ==
  /\ \A k \in 1..n : \E d \in Nat : Lies(seqs[k], whole, d)
  /\ \A i \in 1..Len(whole) : \E k \in 1..n, d \in Nat :
       Lies(seqs[k], whole, d) /\ i > d /\ i <= d + Len(seqs[k])

LEMMA JointConcat ==
  ASSUME NEW S, NEW whole \in Seq(S), NEW seqs, NEW n \in Nat, n # 0,
         \A k \in 1..n : seqs[k] \in Seq(S), Joint(whole, seqs, n - 1)
  PROVE  whole \o seqs[n] \in Seq(S) /\ Joint(whole \o seqs[n], seqs, n)
<1> DEFINE part == seqs[n]
           next == whole \o part
<1>1. part \in Seq(S) /\ Len(part) \in Nat /\ Len(whole) \in Nat
  <2>1. n \in 1..n
    OBVIOUS
  <2> QED  BY <2>1, LenProperties
<1>2. next \in Seq(S) /\ Len(next) = Len(whole) + Len(part)
  BY <1>1, ConcatProperties
<1>3. \A i \in 1..Len(whole) + Len(part) :
        next[i] = IF i <= Len(whole) THEN whole[i] ELSE part[i - Len(whole)]
  BY <1>1, ConcatProperties
<1>4. \A k \in 1..n : Len(seqs[k]) \in Nat
  BY LenProperties
<1> HIDE DEF part, next
<1>5. ASSUME NEW k \in 1..(n - 1), NEW d \in Nat, Lies(seqs[k], whole, d)
      PROVE  Lies(seqs[k], next, d)
  <2> SUFFICES ASSUME NEW m \in 1..Len(seqs[k])
               PROVE  d + m \in 1..Len(next) /\ next[d + m] = seqs[k][m]
    BY DEF Lies
  <2>1. d + m \in 1..Len(whole) /\ whole[d + m] = seqs[k][m]
    BY <1>5 DEF Lies
  <2> QED  BY <2>1, <1>1, <1>2, <1>3
<1>6. Lies(part, next, Len(whole))
  <2> SUFFICES ASSUME NEW m \in 1..Len(part)
               PROVE  Len(whole) + m \in 1..Len(next) /\ next[Len(whole) + m] = part[m]
    BY <1>1 DEF Lies
  <2> DEFINE i == Len(whole) + m
  <2>1. i \in 1..Len(whole) + Len(part) /\ ~(i <= Len(whole)) /\ i - Len(whole) = m
    BY <1>1
  <2>2. next[i] = IF i <= Len(whole) THEN whole[i] ELSE part[i - Len(whole)]
    BY <2>1, <1>3
  <2> QED  BY <2>1, <2>2, <1>2
<1>7. \A k \in 1..n : \E d \in Nat : Lies(seqs[k], next, d)
  <2> TAKE k \in 1..n
  <2>1. CASE k = n
    BY <2>1, <1>1, <1>6 DEF part
  <2>2. CASE k # n
    <3>1. k \in 1..(n - 1)
      BY <2>2
    <3> QED  BY <3>1, <1>5 DEF Joint
  <2> QED  BY <2>1, <2>2
<1>8. \A i \in 1..Len(next) : \E k \in 1..n, d \in Nat :
        Lies(seqs[k], next, d) /\ i > d /\ i <= d + Len(seqs[k])
  <2> TAKE i \in 1..Len(next)
  <2>1. CASE i <= Len(whole)
    <3>1. i \in 1..Len(whole)
      BY <2>1, <1>1, <1>2
    <3>2. PICK k \in 1..(n - 1), d \in Nat : Lies(seqs[k], whole, d) /\ i > d /\ i <= d + Len(seqs[k])
      BY <3>1 DEF Joint
    <3>3. k \in 1..n
      OBVIOUS
    <3> QED  BY <3>2, <3>3, <1>5
  <2>2. CASE ~(i <= Len(whole))
    <3>1. i > Len(whole) /\ i <= Len(whole) + Len(part) /\ n \in 1..n
      BY <2>2, <1>1, <1>2
    <3> QED  BY <3>1, <1>1, <1>6 DEF part
  <2> QED  BY <2>1, <2>2
<1> QED  BY <1>2, <1>7, <1>8 DEF Joint, next, part

LEMMA Flattened ==
  ASSUME NEW S, NEW N \in Nat, NEW seqs, DOMAIN seqs = 1..N, seqs = [k \in 1..N |-> seqs[k]],
         \A k \in 1..N : seqs[k] \in Seq(S)
  PROVE  FlattenSeq(seqs) \in Seq(S) /\ Joint(FlattenSeq(seqs), seqs, N)
<1>0. seqs \in Seq(Seq(S)) /\ Len(seqs) = N
  OBVIOUS
<1>1. CASE N = 0
  <2>1. FlattenSeq(seqs) = seqs
    BY <1>0, <1>1 DEF FlattenSeq
  <2>2. seqs \in Seq(S) /\ Len(seqs) = 0
    BY <1>0, <1>1
  <2>3. 1..N = {} /\ 1..Len(seqs) = {}
    BY <2>2, <1>1
  <2>4. Joint(seqs, seqs, N)
    BY <2>3 DEF Joint
  <2> QED  BY <2>1, <2>2, <2>4
<1>2. CASE N # 0
  <2>1. PICK g : Joins(g, seqs, N)
    BY Joined
  <2> DEFINE f == CHOOSE e : e = [i \in 1..N |-> IF i = 1 THEN seqs[i] ELSE e[i - 1] \o seqs[i]]
  <2>2. f = [i \in 1..N |-> IF i = 1 THEN seqs[i] ELSE f[i - 1] \o seqs[i]]
    <3>1. \E e : e = [i \in 1..N |-> IF i = 1 THEN seqs[i] ELSE e[i - 1] \o seqs[i]]
      BY <2>1 DEF Joins
    <3> QED  BY <3>1, Zenon
  <2>3. FlattenSeq(seqs) = f[N]
    BY <1>0, <1>2 DEF FlattenSeq
  <2> HIDE DEF f
  <2>4. \A i \in 1..N : f[i] = IF i = 1 THEN seqs[i] ELSE f[i - 1] \o seqs[i]
    BY <2>2
  <2> DEFINE Bad == {i \in 1..N : ~(f[i] \in Seq(S) /\ Joint(f[i], seqs, i))}
  <2>5. Bad = {}
    <3> SUFFICES ASSUME Bad # {} PROVE FALSE
      BY Zenon
    <3>1. PICK i \in Bad : \A k \in Bad : i <= k
      <4>1. Bad \subseteq Nat
        OBVIOUS
      <4> HIDE DEF Bad
      <4> QED  BY <4>1, Least
    <3>2. i \in 1..N /\ ~(f[i] \in Seq(S) /\ Joint(f[i], seqs, i))
      OBVIOUS
    <3>3. CASE i = 1
      <4>1. f[i] = seqs[i] /\ seqs[i] \in Seq(S) /\ Len(seqs[i]) \in Nat
        BY <3>2, <3>3, <2>4
      <4>2. Lies(seqs[i], seqs[i], 0)
        BY <4>1 DEF Lies
      <4>3. Joint(seqs[i], seqs, i)
        <5>1. \A k \in 1..i : k = i
          BY <3>3
        <5>2. \A j \in 1..Len(seqs[i]) : j > 0 /\ j <= 0 + Len(seqs[i])
          BY <4>1
        <5>3. i \in 1..i /\ 0 \in Nat
          BY <3>3
        <5> QED  BY <5>1, <5>2, <5>3, <4>2 DEF Joint
      <4> QED  BY <4>1, <4>3, <3>2
    <3>4. CASE i # 1
      <4>1. i - 1 \in 1..N /\ i \in Nat /\ i # 0 /\ ~(i <= i - 1)
        BY <3>2, <3>4
      <4>2. i - 1 \notin Bad
        <5> HIDE DEF Bad
        <5> QED  BY <3>1, <4>1
      <4>3. f[i - 1] \in Seq(S) /\ Joint(f[i - 1], seqs, i - 1)
        BY <4>1, <4>2
      <4>4. \A k \in 1..i : seqs[k] \in Seq(S)
        BY <3>2
      <4>5. f[i] = f[i - 1] \o seqs[i]
        BY <3>2, <3>4, <2>4
      <4> HIDE DEF Bad
      <4>6. f[i - 1] \o seqs[i] \in Seq(S) /\ Joint(f[i - 1] \o seqs[i], seqs, i)
        BY <4>1, <4>3, <4>4, JointConcat
      <4> QED  BY <4>5, <4>6, <3>2
    <3> QED  BY <3>3, <3>4
  <2>6. N \in 1..N
    BY <1>2
  <2> QED  BY <2>3, <2>5, <2>6
<1> QED  BY <1>1, <1>2

-----------------------------------------------------------------------------
(* The commands that register plans.                                       *)

LEMMA Apiece ==
  /\ \A o \in ServerOrders : o[1] \in {"remove", "add-json"} /\ o[2] \in Servers
       /\ o[3] \in Specs \cup {None} /\ o[1] \notin PluginVerbs
       /\ (o[1] = "remove" => o[3] = None) /\ (o[1] = "add-json" => o[3] \in Specs)
       /\ o = <<o[1], o[2], o[3]>>
  /\ \A o \in PluginOrders : o[1] \in PluginVerbs /\ (o[1] \in {"install", "uninstall"} => o[2] \in Plugins)
       /\ (o[1] \in {"attach", "detach"} => o[3] \in Places \cup {None})
       /\ o \notin ServerOrders
<1>1. \A o \in ServerOrders : o[1] \in {"remove", "add-json"} /\ o[2] \in Servers
       /\ o[3] \in Specs \cup {None} /\ o[1] \notin PluginVerbs
       /\ (o[1] = "remove" => o[3] = None) /\ (o[1] = "add-json" => o[3] \in Specs)
       /\ o = <<o[1], o[2], o[3]>>
  BY DEF ServerOrders, PluginVerbs
<1>2. \A o \in PluginOrders : o[1] \in PluginVerbs /\ (o[1] \in {"install", "uninstall"} => o[2] \in Plugins)
       /\ (o[1] \in {"attach", "detach"} => o[3] \in Places \cup {None})
  BY DEF PluginOrders, PluginVerbs
<1> QED  BY <1>1, <1>2

LEMMA EachListed ==
  ASSUME NEW v \in {"install", "uninstall"}, NEW set \in SUBSET Plugins
  PROVE  /\ Each(v, set) \in Seq(PluginOrders)
         /\ \A p \in set : \E i \in 1..Len(Each(v, set)) : Each(v, set)[i] = <<v, p, None>>
<1> DEFINE s == SetToSeq(set)
           N == Cardinality(set)
<1>1. IsFiniteSet(set)
  BY RegisterNames, FS_Subset
<1>2. N \in Nat /\ s \in [1..N -> set] /\ \A x \in set : \E i \in 1..N : s[i] = x
  BY <1>1, Listed
<1>3. Each(v, set) = [i \in 1..N |-> <<v, s[i], None>>]
  BY <1>2 DEF Each
<1> HIDE DEF s, N
<1>4. \A i \in 1..N : <<v, s[i], None>> \in PluginOrders
  BY <1>2 DEF PluginOrders
<1>5. Each(v, set) \in Seq(PluginOrders) /\ Len(Each(v, set)) = N
  BY <1>2, <1>3, <1>4
<1> QED  BY <1>2, <1>3, <1>5

LEMMA WhenPart ==
  ASSUME NEW S, NEW test, NEW q \in Seq(S)
  PROVE  When(test, q) \in Seq(S)
BY EmptySeq DEF When

LEMMA PluginQueue ==
  ASSUME TypeOK
  PROVE  /\ PluginCommands \in Seq(PluginOrders)
         /\ \A p \in Removed : \E i \in 1..Len(PluginCommands) : PluginCommands[i] = <<"uninstall", p, None>>
<1>1. Removed \subseteq Plugins /\ selected \subseteq Plugins /\ place \in Places
  BY DEF TypeOK, Removed
<1> DEFINE u == Each("uninstall", Removed)
           d == When(Moved, Detach)
           a == << <<"attach", None, place>> >>
           w == When(selected # {}, a \o Each("install", selected))
           e == When(recorded.names # {} /\ selected = {} /\ ~Moved, Detach)
           all == u \o d \o w \o e
<1>2. PluginCommands = When(selected \cup Removed # {}, all)
  BY DEF PluginCommands
<1>3. u \in Seq(PluginOrders)
  BY <1>1, EachListed
<1>4. Detach \in Seq(PluginOrders)
  BY DEF Detach, PluginOrders
<1>5. d \in Seq(PluginOrders) /\ e \in Seq(PluginOrders)
  BY <1>4, WhenPart
<1>6. w \in Seq(PluginOrders)
  <2>1. a \in Seq(PluginOrders)
    BY <1>1 DEF PluginOrders
  <2>2. Each("install", selected) \in Seq(PluginOrders)
    BY <1>1, EachListed
  <2> HIDE DEF a
  <2>3. a \o Each("install", selected) \in Seq(PluginOrders)
    BY <2>1, <2>2
  <2> QED  BY <2>3, WhenPart
<1>7. \A p \in Removed : \E i \in 1..Len(u) : u[i] = <<"uninstall", p, None>>
  BY <1>1, EachListed
<1> HIDE DEF u, d, w, e
<1>8. /\ all \in Seq(PluginOrders) /\ Len(u) \in Nat /\ Len(all) \in Nat /\ Len(u) <= Len(all)
      /\ \A i \in 1..Len(u) : all[i] = u[i]
  BY <1>3, <1>5, <1>6
<1> HIDE DEF all
<1>9. PluginCommands \in Seq(PluginOrders)
  BY <1>2, <1>8, WhenPart
<1>10. ASSUME NEW p \in Removed
       PROVE  \E i \in 1..Len(PluginCommands) : PluginCommands[i] = <<"uninstall", p, None>>
  <2>1. PluginCommands = all
    BY <1>2 DEF When
  <2>2. PICK i \in 1..Len(u) : u[i] = <<"uninstall", p, None>>
    BY <1>7
  <2>3. i \in 1..Len(all) /\ all[i] = u[i]
    BY <1>8
  <2> QED  BY <2>1, <2>2, <2>3
<1> QED  BY <1>9, <1>10

LEMMA Two ==
  ASSUME NEW x, NEW y
  PROVE  <<x>> \o <<y>> = <<x, y>>
<1> DEFINE S == {x, y}
           p == <<x>>
           q == <<y>>
           r == <<x, y>>
<1>1. p \in Seq(S) /\ q \in Seq(S) /\ r \in Seq(S) /\ Len(p) = 1 /\ Len(q) = 1 /\ Len(r) = 2
      /\ p[1] = x /\ q[1] = y /\ r[1] = x /\ r[2] = y
  OBVIOUS
<1> HIDE DEF S, p, q, r
<1>2. p \o q \in Seq(S) /\ Len(p \o q) = 2 /\ (p \o q)[1] = p[1] /\ (p \o q)[2] = q[1]
  BY <1>1, ConcatProperties
<1>3. \A i \in 1..2 : i = 1 \/ i = 2
  OBVIOUS
<1>4. p \o q = r
  BY <1>1, <1>2, <1>3, SeqEqual
<1> QED  BY <1>4 DEF p, q, r

(* The commands for one server.                                            *)
LEMMA ServerQueue ==
  ASSUME TypeOK, NEW n \in Servers
  PROVE  /\ ServerCommands(n) \in Seq(ServerOrders)
         /\ \A m \in 1..Len(ServerCommands(n)) : LET o == ServerCommands(n)[m] IN
              /\ o[2] = n
              /\ o[1] = "add-json" => o[3] = want[n]
              /\ o[1] = "remove" => want[n] = None \/
                   (/\ m + 1 \in 1..Len(ServerCommands(n))
                    /\ ServerCommands(n)[m + 1] = <<"add-json", n, want[n]>>)
         /\ want[n] = owned[n] \/ (want[n] = None /\ live[n] = None) \/ Len(ServerCommands(n)) > 0
<1> DEFINE r == <<"remove", n, None>>
           a == <<"add-json", n, want[n]>>
           R == owned[n] # None /\ live[n] # None /\ want[n] # owned[n]
           A == want[n] # None /\ want[n] # owned[n]
<1>1. ServerCommands(n) = (IF R THEN <<r>> ELSE << >>) \o (IF A THEN <<a>> ELSE << >>)
  BY DEF ServerCommands
<1>2. r \in ServerOrders /\ (A => a \in ServerOrders) /\ r[1] = "remove" /\ r[2] = n
      /\ a[1] = "add-json" /\ a[2] = n /\ a[3] = want[n]
  BY DEF ServerOrders, TypeOK
<1>3. ~A => want[n] = None \/ want[n] = owned[n]
  OBVIOUS
<1>4. ~R /\ ~A => want[n] = owned[n] \/ (want[n] = None /\ live[n] = None)
  OBVIOUS
<1>5. R => want[n] # owned[n]
  OBVIOUS
<1> HIDE DEF R, A, r
<1>6. CASE R /\ A
  <2> HIDE DEF a
  <2>1. ServerCommands(n) = <<r, a>>
    <3>1. ServerCommands(n) = <<r>> \o <<a>>
      BY <1>1, <1>6
    <3> QED  BY <3>1, Two
  <2>2. Len(<<r, a>>) = 2 /\ <<r, a>>[1] = r /\ <<r, a>>[2] = a /\ <<r, a>> \in Seq(ServerOrders)
    BY <1>2, <1>6
  <2>3. \A m \in 1..2 : m = 1 \/ m = 2
    OBVIOUS
  <2> QED  BY <1>2, <2>1, <2>2, <2>3 DEF a
<1>7. CASE R /\ ~A
  <2>1. ServerCommands(n) = <<r>>
    BY <1>1, <1>7
  <2>2. Len(<<r>>) = 1 /\ <<r>>[1] = r /\ <<r>> \in Seq(ServerOrders)
    BY <1>2
  <2> QED  BY <1>2, <1>3, <1>5, <1>7, <2>1, <2>2
<1>8. CASE ~R /\ A
  <2> HIDE DEF a
  <2>1. ServerCommands(n) = <<a>>
    BY <1>1, <1>8
  <2>2. Len(<<a>>) = 1 /\ <<a>>[1] = a /\ <<a>> \in Seq(ServerOrders)
    BY <1>2, <1>8
  <2> QED  BY <1>2, <2>1, <2>2
<1>9. CASE ~R /\ ~A
  <2>1. ServerCommands(n) = << >>
    BY <1>1, <1>9
  <2> QED  BY <1>4, <1>9, <2>1
<1> QED  BY <1>6, <1>7, <1>8, <1>9

(* The server commands of a run, as Leads needs them.                      *)
Planned(q) ==
  /\ \A i \in DOMAIN q : q[i][1] = "add-json" => q[i][3] = want[q[i][2]]
  /\ \A i \in DOMAIN q : q[i][1] = "remove" =>
       \/ want[q[i][2]] = None
       \/ \E j \in DOMAIN q : i < j /\ q[j] = <<"add-json", q[i][2], want[q[i][2]]>>
  /\ \A n \in Servers :
       \/ \E i \in DOMAIN q : q[i] \in ServerOrders /\ q[i][2] = n
       \/ want[n] = owned[n] \/ (want[n] = None /\ live[n] = None)

LEMMA McpQueue ==
  ASSUME TypeOK
  PROVE  McpCommands \in Seq(ServerOrders) /\ Planned(McpCommands)
<1> DEFINE N == Cardinality(Servers)
           s == SetToSeq(Servers)
           seqs == [k \in 1..N |-> ServerCommands(s[k])]
<1>1. N \in Nat /\ s \in [1..N -> Servers] /\ \A n \in Servers : \E k \in 1..N : s[k] = n
  BY RegisterNames, Listed
<1>2. McpCommands = FlattenSeq(seqs)
  BY DEF McpCommands
<1>3. DOMAIN seqs = 1..N /\ \A k \in 1..N : seqs[k] = ServerCommands(s[k]) /\ s[k] \in Servers
  BY <1>1
<1>4. seqs = [k \in 1..N |-> seqs[k]]
  OBVIOUS
<1> HIDE DEF seqs
<1>5. \A k \in 1..N : seqs[k] \in Seq(ServerOrders) /\ Len(seqs[k]) \in Nat
  <2> TAKE k \in 1..N
  <2>1. seqs[k] \in Seq(ServerOrders)
    BY <1>3, ServerQueue
  <2> QED  BY <2>1, LenProperties
<1>6. PICK q : q = McpCommands
  OBVIOUS
<1> HIDE DEF N, s
<1>7. q \in Seq(ServerOrders) /\ Joint(q, seqs, N)
  BY <1>1, <1>2, <1>3, <1>4, <1>5, <1>6, Flattened
<1>8. DOMAIN q = 1..Len(q) /\ Len(q) \in Nat
  BY <1>7, LenProperties
<1>9. ASSUME NEW i \in 1..Len(q)
      PROVE  /\ q[i][1] = "add-json" => q[i][3] = want[q[i][2]]
             /\ q[i][1] = "remove" =>
                  \/ want[q[i][2]] = None
                  \/ \E j \in 1..Len(q) : i < j /\ q[j] = <<"add-json", q[i][2], want[q[i][2]]>>
  <2>1. PICK k \in 1..N, d \in Nat : Lies(seqs[k], q, d) /\ i > d /\ i <= d + Len(seqs[k])
    BY <1>7 DEF Joint
  <2>2. PICK m \in 1..Len(seqs[k]) : i = d + m
    <3>1. i - d \in 1..Len(seqs[k]) /\ i = d + (i - d)
      BY <2>1, <1>5, <1>8
    <3> QED  BY <3>1
  <2>3. q[i] = ServerCommands(s[k])[m] /\ seqs[k] = ServerCommands(s[k]) /\ s[k] \in Servers
    BY <2>1, <2>2, <1>3 DEF Lies
  <2>4. /\ q[i][2] = s[k]
        /\ q[i][1] = "add-json" => q[i][3] = want[s[k]]
        /\ q[i][1] = "remove" => want[s[k]] = None \/
             (m + 1 \in 1..Len(seqs[k]) /\ seqs[k][m + 1] = <<"add-json", s[k], want[s[k]]>>)
    BY <2>3, ServerQueue
  <2>5. ASSUME m + 1 \in 1..Len(seqs[k])
        PROVE  d + (m + 1) \in 1..Len(q) /\ q[d + (m + 1)] = seqs[k][m + 1] /\ i < d + (m + 1)
    BY <2>1, <2>2, <2>5, <1>5 DEF Lies
  <2> QED  BY <2>4, <2>5
<1>10. ASSUME NEW n \in Servers
       PROVE  \/ \E i \in 1..Len(q) : q[i] \in ServerOrders /\ q[i][2] = n
              \/ want[n] = owned[n] \/ (want[n] = None /\ live[n] = None)
  <2>1. PICK k \in 1..N : s[k] = n
    BY <1>1
  <2>2. seqs[k] = ServerCommands(n) /\ Len(seqs[k]) \in Nat
    BY <2>1, <1>3, <1>5
  <2>3. CASE Len(ServerCommands(n)) > 0
    <3>1. 1 \in 1..Len(seqs[k]) /\ seqs[k][1][2] = n
      BY <2>2, <2>3, ServerQueue
    <3>2. PICK d \in Nat : Lies(seqs[k], q, d)
      BY <1>7 DEF Joint
    <3>3. d + 1 \in 1..Len(q) /\ q[d + 1] = seqs[k][1]
      BY <3>1, <3>2 DEF Lies
    <3>4. q[d + 1] \in ServerOrders
      BY <3>3, <1>7
    <3> QED  BY <3>1, <3>3, <3>4
  <2> QED  BY <2>3, ServerQueue
<1>11. Planned(q)
  BY <1>8, <1>9, <1>10 DEF Planned
<1> QED  BY <1>6, <1>7, <1>11

(* Plugins first, then servers.                                            *)
LEMMA Queue ==
  ASSUME TypeOK, NEW q, q = PluginCommands \o McpCommands
  PROVE  /\ q \in Seq(Orders) /\ Planned(q)
         /\ \A i, j \in DOMAIN q : i < j /\ q[i] \in ServerOrders => q[j] \in ServerOrders
         /\ \A p \in Removed : \E i \in DOMAIN q : q[i] = <<"uninstall", p, None>>
<1>1. PICK a \in Seq(PluginOrders) : a = PluginCommands
  BY PluginQueue
<1>2. PICK b \in Seq(ServerOrders) : b = McpCommands /\ Planned(b)
  BY McpQueue
<1>3. a \in Seq(Orders) /\ b \in Seq(Orders)
  BY DEF Orders
<1>4. /\ q \in Seq(Orders) /\ Len(a) \in Nat /\ Len(b) \in Nat /\ DOMAIN q = 1..Len(a) + Len(b)
      /\ \A i \in 1..Len(a) + Len(b) : q[i] = IF i <= Len(a) THEN a[i] ELSE b[i - Len(a)]
  BY <1>1, <1>2, <1>3, ConcatProperties, LenProperties
<1>5. DOMAIN b = 1..Len(b)
  OBVIOUS
<1>6. \A i \in DOMAIN q :
        \/ i \in 1..Len(a) /\ q[i] = a[i] /\ q[i] \in PluginOrders
        \/ i - Len(a) \in 1..Len(b) /\ q[i] = b[i - Len(a)] /\ q[i] \in ServerOrders
  <2> TAKE i \in DOMAIN q
  <2>1. CASE i <= Len(a)
    <3>1. i \in 1..Len(a) + Len(b) /\ Len(a) \in Nat /\ Len(b) \in Nat
      BY <1>4
    <3>2. i \in 1..Len(a)
      BY <2>1, <3>1
    <3>3. q[i] = a[i]
      BY <2>1, <1>4
    <3> QED  BY <3>2, <3>3
  <2>2. CASE ~(i <= Len(a))
    <3>1. i - Len(a) \in 1..Len(b)
      BY <2>2, <1>4
    <3>2. q[i] = b[i - Len(a)]
      BY <2>2, <1>4
    <3> QED  BY <3>1, <3>2
  <2> QED  BY <2>1, <2>2
<1>7. \A i \in 1..Len(b) : i + Len(a) \in DOMAIN q /\ q[i + Len(a)] = b[i]
  <2> TAKE i \in 1..Len(b)
  <2>1. i + Len(a) \in 1..Len(a) + Len(b) /\ ~(i + Len(a) <= Len(a)) /\ (i + Len(a)) - Len(a) = i
    BY <1>4
  <2> QED  BY <2>1, <1>4
<1>8. \A i, j \in DOMAIN q : i < j /\ q[i] \in ServerOrders => q[j] \in ServerOrders
  <2> SUFFICES ASSUME NEW i \in DOMAIN q, NEW j \in DOMAIN q, i < j, q[i] \in ServerOrders
               PROVE  q[j] \in ServerOrders
    OBVIOUS
  <2>1. i - Len(a) \in 1..Len(b)
    BY <1>6, Apiece
  <2>2. j \notin 1..Len(a)
    <3>1. i \in Nat /\ j \in Nat /\ Len(a) \in Nat /\ Len(b) \in Nat
      BY <1>4
    <3> QED  BY <3>1, <2>1
  <2> QED  BY <2>2, <1>6
<1>9. \A p \in Removed : \E i \in DOMAIN q : q[i] = <<"uninstall", p, None>>
  <2> TAKE p \in Removed
  <2>1. PICK i \in 1..Len(a) : a[i] = <<"uninstall", p, None>>
    BY <1>1, PluginQueue
  <2>2. i \in DOMAIN q /\ q[i] = a[i]
    BY <1>4
  <2> QED  BY <2>1, <2>2
<1>10. Planned(q)
  <2>1. ASSUME NEW i \in DOMAIN q, q[i][1] = "add-json"
        PROVE  q[i][3] = want[q[i][2]]
    <3>1. i - Len(a) \in 1..Len(b) /\ q[i] = b[i - Len(a)]
      BY <1>6, <2>1, Apiece DEF PluginVerbs
    <3> QED  BY <3>1, <2>1, <1>2, <1>5 DEF Planned
  <2>2. ASSUME NEW i \in DOMAIN q, q[i][1] = "remove"
        PROVE  \/ want[q[i][2]] = None
               \/ \E j \in DOMAIN q : i < j /\ q[j] = <<"add-json", q[i][2], want[q[i][2]]>>
    <3>1. i - Len(a) \in 1..Len(b) /\ q[i] = b[i - Len(a)]
      BY <1>6, <2>2, Apiece DEF PluginVerbs
    <3>2. \/ want[q[i][2]] = None
          \/ \E j \in DOMAIN b : i - Len(a) < j /\ b[j] = <<"add-json", q[i][2], want[q[i][2]]>>
      <4>1. PICK m \in DOMAIN b : m = i - Len(a) /\ q[i] = b[m]
        BY <3>1, <1>5
      <4> QED  BY <4>1, <2>2, <1>2 DEF Planned
    <3>3. ASSUME NEW j \in DOMAIN b, i - Len(a) < j, b[j] = <<"add-json", q[i][2], want[q[i][2]]>>
          PROVE  j + Len(a) \in DOMAIN q /\ i < j + Len(a) /\ q[j + Len(a)] = b[j]
      <4>1. j \in Nat /\ i \in Nat /\ Len(a) \in Nat
        BY <1>4, <1>5
      <4>2. i - Len(a) < j => i < j + Len(a)
        BY <4>1
      <4> QED  BY <3>3, <4>2, <1>5, <1>7
    <3> QED  BY <3>2, <3>3
  <2>3. ASSUME NEW n \in Servers
        PROVE  \/ \E i \in DOMAIN q : q[i] \in ServerOrders /\ q[i][2] = n
               \/ want[n] = owned[n] \/ (want[n] = None /\ live[n] = None)
    <3>1. ASSUME NEW i \in DOMAIN b, b[i] \in ServerOrders, b[i][2] = n
          PROVE  i + Len(a) \in DOMAIN q /\ q[i + Len(a)] \in ServerOrders /\ q[i + Len(a)][2] = n
      BY <3>1, <1>5, <1>7
    <3> QED  BY <3>1, <1>2 DEF Planned
  <2> QED  BY <2>1, <2>2, <2>3 DEF Planned
<1> QED  BY <1>4, <1>8, <1>9, <1>10

-----------------------------------------------------------------------------
(* What happens to the variables of the running command.                   *)

LEMMA Rest ==
  ASSUME NEW S, NEW q \in Seq(S), q # << >>
  PROVE  /\ Tail(q) \in Seq(S) /\ Head(q) = q[1] /\ 1 \in DOMAIN q /\ Head(q) \in S
         /\ DOMAIN q = 1..Len(q) /\ Len(q) \in Nat
         /\ DOMAIN Tail(q) \subseteq Nat
         /\ \A i \in DOMAIN Tail(q) : i + 1 \in DOMAIN q /\ Tail(q)[i] = q[i + 1]
         /\ \A i \in DOMAIN q : i # 1 => i - 1 \in DOMAIN Tail(q) /\ Tail(q)[i - 1] = q[i]
<1>1. Len(q) \in Nat \ {0} /\ DOMAIN q = 1..Len(q)
  BY EmptySeq, LenProperties
<1>2. Tail(q) \in Seq(S) /\ Len(Tail(q)) = Len(q) - 1 /\ \A i \in 1..Len(Tail(q)) : Tail(q)[i] = q[i + 1]
  BY HeadTailProperties
<1>3. DOMAIN Tail(q) = 1..(Len(q) - 1)
  BY <1>2, LenProperties
<1>4. Head(q) = q[1]
  OBVIOUS
<1>5. \A i \in DOMAIN Tail(q) : i + 1 \in DOMAIN q /\ Tail(q)[i] = q[i + 1]
  BY <1>1, <1>2, <1>3
<1>6. \A i \in DOMAIN q : i # 1 => i - 1 \in DOMAIN Tail(q) /\ Tail(q)[i - 1] = q[i]
  <2> TAKE i \in DOMAIN q
  <2> HAVE i # 1
  <2>1. i - 1 \in 1..(Len(q) - 1) /\ (i - 1) + 1 = i
    BY <1>1
  <2> QED  BY <2>1, <1>2, <1>3
<1> QED  BY <1>1, <1>2, <1>3, <1>4, <1>5, <1>6

Becomes(where, todo, held, late) ==
  /\ cmd' \in Jobs
  /\ cmd'.at = where /\ cmd'.todo = todo /\ cmd'.held = held /\ cmd'.late = late
  /\ cmd'.names = cmd.names /\ cmd'.home = cmd.home /\ cmd'.goal = cmd.goal

LEMMA Going ==
  ASSUME cmd \in Jobs, NEW w \in Steps, Goto(w)
  PROVE  Becomes(w, cmd.todo, cmd.held, cmd.late)
BY DEF Goto, Jobs, Becomes

LEMMA Skipping ==
  ASSUME cmd \in Jobs, NEW w \in Steps, Skip(w), cmd.todo # << >>
  PROVE  Becomes(w, Tail(cmd.todo), cmd.held, cmd.late)
<1>1. Tail(cmd.todo) \in Seq(Orders)
  BY Rest DEF Jobs
<1> QED  BY <1>1 DEF Skip, Jobs, Becomes

LEMMA Holding ==
  ASSUME cmd \in Jobs, NEW w \in Steps, NEW n \in Servers, NEW v \in Specs \cup {None},
         cmd' = [cmd EXCEPT !.at = w, !.held[n] = v]
  PROVE  Becomes(w, cmd.todo, [cmd.held EXCEPT ![n] = v], cmd.late)
<1>1. PICK h : h = [cmd.held EXCEPT ![n] = v]
  OBVIOUS
<1>2. h \in Ownership
  BY <1>1 DEF Jobs, Ownership
<1>3. cmd' = [cmd EXCEPT !.at = w, !.held = h]
  BY <1>1
<1>4. Becomes(w, cmd.todo, h, cmd.late)
  BY <1>2, <1>3 DEF Jobs, Becomes
<1> QED  BY <1>1, <1>4

LEMMA Idling ==
  /\ Idle \in Jobs /\ Idle.at = "idle" /\ Idle.names = {}
  /\ Idle.held \in Ownership /\ Idle.goal \in Ownership
<1>1. Nothing \in Ownership
  BY DEF Nothing, Ownership
<1>2. << >> \in Seq(Orders)
  OBVIOUS
<1> QED  BY <1>1, <1>2 DEF Idle, Jobs, Steps

TypeInv == TypeOK /\ InHand

LEMMA Heads ==
  ASSUME InHand, cmd.todo # << >>
  PROVE  /\ Head1 \in Orders /\ Head1 = cmd.todo[1] /\ 1 \in DOMAIN cmd.todo
         /\ cmd.at \in ServerSteps => Head1 \in ServerOrders
         /\ NextIsPlugin => Head1 \in PluginOrders
         /\ ~NextIsPlugin => Head1 \in ServerOrders
<1>1. cmd.todo \in Seq(Orders) /\ (cmd.at \in ServerSteps => cmd.todo \in Seq(ServerOrders))
  BY DEF InHand, Jobs
<1>2. Head1 \in Orders /\ Head1 = cmd.todo[1] /\ 1 \in DOMAIN cmd.todo
  BY <1>1, Rest DEF Head1
<1>3. cmd.at \in ServerSteps => Head1 \in ServerOrders
  BY <1>1, Rest DEF Head1
<1> QED  BY <1>2, <1>3, Apiece DEF Orders, NextIsPlugin

(* When the next one is for a server, all are.                             *)
LEMMA OnlyServers ==
  ASSUME InHand, cmd.at \in PluginSteps, ~NextIsPlugin
  PROVE  cmd.todo \in Seq(ServerOrders)
<1>1. cmd.todo \in Seq(Orders)
  BY DEF InHand, Jobs
<1>2. CASE cmd.todo = << >>
  BY <1>2
<1>3. CASE cmd.todo # << >>
  <2>1. DOMAIN cmd.todo = 1..Len(cmd.todo) /\ Len(cmd.todo) \in Nat
    BY <1>1, LenProperties
  <2>2. \A i \in 1..Len(cmd.todo) : cmd.todo[i] \in ServerOrders
    <3> TAKE i \in 1..Len(cmd.todo)
    <3>1. cmd.todo[1] \in ServerOrders /\ 1 \in DOMAIN cmd.todo
      BY <1>3, Heads
    <3>2. i = 1 \/ 1 < i
      BY <2>1
    <3> QED  BY <2>1, <3>1, <3>2 DEF InHand
  <2> QED  BY <1>1, <2>1, <2>2
<1> QED  BY <1>2, <1>3

(* A command that goes on to a step of its kind has in hand what belongs   *)
(* to it.                                                                  *)
LEMMA HandKept ==
  ASSUME InHand, NEW w \in PluginSteps \cup ServerSteps, NEW q, NEW h, NEW x, Becomes(w, q, h, x),
         q = cmd.todo \/ (cmd.todo # << >> /\ q = Tail(cmd.todo)),
         w \in PluginSteps => cmd.at \in PluginSteps,
         w \in ServerSteps => cmd.at \in ServerSteps \/ (cmd.at \in PluginSteps /\ ~NextIsPlugin)
  PROVE  InHand'
<1>1. cmd.todo \in Seq(Orders) /\ (w \in ServerSteps => cmd.todo \in Seq(ServerOrders))
  BY OnlyServers DEF InHand, Jobs
<1>2. w \in ServerSteps => q \in Seq(ServerOrders)
  BY <1>1, Rest
<1>3. w \in PluginSteps =>
        \A i, j \in DOMAIN q : i < j /\ q[i] \in ServerOrders => q[j] \in ServerOrders
  <2> SUFFICES ASSUME w \in PluginSteps, NEW i \in DOMAIN q, NEW j \in DOMAIN q, i < j, q[i] \in ServerOrders
               PROVE  q[j] \in ServerOrders
    OBVIOUS
  <2>1. CASE q = cmd.todo
    BY <2>1 DEF InHand
  <2>2. CASE cmd.todo # << >> /\ q = Tail(cmd.todo)
    <3>1. i \in Nat /\ j \in Nat /\ i + 1 \in DOMAIN cmd.todo /\ j + 1 \in DOMAIN cmd.todo
          /\ q[i] = cmd.todo[i + 1] /\ q[j] = cmd.todo[j + 1]
      BY <1>1, <2>2, Rest
    <3>2. i + 1 < j + 1
      BY <3>1
    <3> QED  BY <3>1, <3>2 DEF InHand
  <2> QED  BY <2>1, <2>2
<1>4. w \in PluginSteps => cmd.names \subseteq Plugins /\ cmd.home \in Places
  BY DEF InHand
<1>5. w \notin PluginSteps \/ w \notin ServerSteps
  BY DEF PluginSteps, ServerSteps
<1> QED  BY <1>2, <1>3, <1>4, <1>5 DEF Becomes, InHand, PluginSteps, ServerSteps

LEMMA HandIdle ==
  ASSUME Ends
  PROVE  InHand' /\ cmd'.at = "idle" /\ cmd' \in Jobs
BY Idling DEF Ends, InHand, PluginSteps, ServerSteps

-----------------------------------------------------------------------------
(* What may become of a command of the product.                            *)

Counted == troubles' \in {troubles, troubles + 1} /\ troubles' \in 0..MaxTroubles

LEMMA PluginOutcome ==
  ASSUME TypeInv, RunPlugin
  PROVE  /\ At("plugins") /\ NextIsPlugin /\ UNCHANGED <<catVars, recVars, meddle>> /\ Counted
         /\ \/ Accepts(Head1) /\ Takes(Head1)
            \/ Untaken
         /\ Ends \/ (Skip("plugins") /\ (Takes(Head1) \/ Satisfied(Head1)))
         /\ blame' \in {blame, blame \cup ({Head1[2]} \cap Servers)}
<1>1. troubles \in 0..MaxTroubles /\ MaxTroubles \in Nat
  BY RegisterLimits DEF TypeInv, TypeOK
<1>2. UNCHANGED troubles \/ Trouble => Counted
  BY <1>1 DEF Trouble, Counted
<1> QED  BY <1>2 DEF RunPlugin, Runs

Done == cmd' = [cmd EXCEPT !.at = "write", !.held[Head1[2]] = Head1[3]]

LEMMA ActOutcome ==
  ASSUME TypeInv, Act
  PROVE  /\ At("act") /\ UNCHANGED <<catVars, recVars, meddle>> /\ Counted
         /\ \/ Accepts(Head1) /\ Takes(Head1) /\ Done /\ UNCHANGED blame
            \/ Untaken /\ Satisfied(Head1) /\ Done /\ UNCHANGED blame
            \/ Untaken /\ Ends /\ UNCHANGED blame
            \/ Accepts(Head1) /\ Takes(Head1) /\ Ends /\ blame' = blame \cup ({Head1[2]} \cap Servers)
<1>1. troubles \in 0..MaxTroubles /\ MaxTroubles \in Nat
  BY RegisterLimits DEF TypeInv, TypeOK
<1>2. UNCHANGED troubles \/ Trouble => Counted
  BY <1>1 DEF Trouble, Counted
<1> QED  BY <1>2 DEF Act, Runs, Done

(* Which parts of the product a command touches.                           *)
LEMMA PluginTaken ==
  ASSUME TypeInv, NextIsPlugin, Takes(Head1) \/ Untaken
  PROVE  /\ UNCHANGED <<live, mine>>
         /\ installed' \subseteq Plugins /\ market' \in Sources /\ loose' \subseteq Plugins
         /\ \/ installed' = installed /\ loose' = loose
            \/ Head1[1] = "install" /\ installed' = installed \cup {Head1[2]} /\ loose' = loose \cup {Head1[2]}
            \/ Head1[1] = "uninstall" /\ installed' = installed \ {Head1[2]} /\ loose' = loose \ {Head1[2]}
<1>1. Head1 \in PluginOrders
  BY Heads DEF TypeInv, NextIsPlugin
<1>2. /\ Head1[1] \in PluginVerbs /\ (Head1[1] \in {"install", "uninstall"} => Head1[2] \in Plugins)
      /\ (Head1[1] \in {"attach", "detach"} => Head1[3] \in Places \cup {None})
  BY <1>1, Apiece
<1>3. installed \subseteq Plugins /\ market \in Sources /\ loose \subseteq Plugins
  BY DEF TypeInv, TypeOK
<1>4. CASE Untaken
  BY <1>3, <1>4 DEF Untaken, prodVars
<1>5. CASE Takes(Head1)
  <2>1. Head1[1] \notin {"remove", "add-json"}
    BY <1>2 DEF PluginVerbs
  <2>2. UNCHANGED <<live, mine>>
    BY <1>5, <2>1 DEF Takes
  <2>3. market' \in Sources
    BY <1>2, <1>3, <1>5 DEF Takes, Sources
  <2>4. /\ Head1[1] = "install" => installed' = installed \cup {Head1[2]} /\ loose' = loose \cup {Head1[2]}
        /\ Head1[1] = "uninstall" => installed' = installed \ {Head1[2]} /\ loose' = loose \ {Head1[2]}
        /\ Head1[1] \notin {"install", "uninstall"} => installed' = installed /\ loose' = loose
    BY <1>5 DEF Takes
  <2>5. CASE Head1[1] = "install"
    BY <1>2, <1>3, <2>2, <2>3, <2>4, <2>5
  <2>6. CASE Head1[1] = "uninstall"
    BY <1>2, <1>3, <2>2, <2>3, <2>4, <2>6
  <2>7. CASE Head1[1] \notin {"install", "uninstall"}
    BY <1>3, <2>2, <2>3, <2>4, <2>7
  <2> QED  BY <2>5, <2>6, <2>7
<1> QED  BY <1>4, <1>5

LEMMA ServerTaken ==
  ASSUME TypeInv, At("act"), Takes(Head1) \/ Untaken
  PROVE  /\ Head1 \in ServerOrders /\ Head1[2] \in Servers /\ Head1[3] \in Specs \cup {None}
         /\ Head1[1] \in {"remove", "add-json"} /\ cmd.todo # << >>
         /\ UNCHANGED <<installed, market, loose>>
         /\ \/ live' = live /\ mine' = mine
            \/ Takes(Head1) /\ live' = [live EXCEPT ![Head1[2]] = Head1[3]] /\ mine' = mine \ {Head1[2]}
<1>1. cmd.todo # << >> /\ Head1 \in ServerOrders
  BY Heads DEF TypeInv, TypeOK, At, ServerSteps
<1>2. Head1[2] \in Servers /\ Head1[3] \in Specs \cup {None} /\ Head1[1] \in {"remove", "add-json"}
  BY <1>1, Apiece
<1>3. CASE Untaken
  BY <1>1, <1>2, <1>3 DEF Untaken, prodVars
<1>4. CASE Takes(Head1)
  BY <1>1, <1>2, <1>4 DEF Takes
<1> QED  BY <1>3, <1>4

-----------------------------------------------------------------------------
(* Types.                                                                  *)

LEMMA TypeInit == Init => TypeInv
<1> SUFFICES ASSUME Init PROVE TypeInv
  OBVIOUS
<1>1. cmd = Idle /\ owned = Nothing /\ recorded = NoPlugins /\ mine \subseteq Servers /\ blame = mine
  BY DEF Init
<1>2. InHand
  BY <1>1, Idling DEF InHand, PluginSteps, ServerSteps
<1>3. /\ want \in [Servers -> Specs \cup {None}] /\ selected \subseteq Plugins /\ place \in Places
      /\ live \in [Servers -> Entries] /\ installed \subseteq Plugins /\ market \in Sources
      /\ loose \subseteq Plugins
  BY DEF Init, Entries, Sources
<1>4. owned \in [Servers -> Specs \cup {None}]
  BY <1>1 DEF Nothing
<1>5. /\ recorded \in [names : SUBSET Plugins, source : Places \cup {None}]
      /\ recorded.names = {} <=> recorded.source = None
  BY <1>1 DEF NoPlugins
<1>6. /\ cmd.at = "idle" /\ cmd.held \in Ownership /\ cmd.goal \in Ownership
  BY <1>1, Idling
<1>7. edits \in 0..MaxEdits /\ meddle \in 0..MaxMeddle /\ troubles \in 0..MaxTroubles
  BY RegisterLimits DEF Init
<1> QED  BY <1>1, <1>2, <1>3, <1>4, <1>5, <1>6, <1>7 DEF TypeInv, TypeOK, Ownership

(* A step that changes the command and what it may change.                 *)
LEMMA TypeFrame ==
  ASSUME TypeInv, InHand', cmd'.at \in {"act", "write", "verify"} => cmd'.todo # << >>,
         UNCHANGED catVars, live' \in [Servers -> Entries], installed' \subseteq Plugins, market' \in Sources,
         owned' \in Ownership, recorded' \in [names : SUBSET Plugins, source : Places \cup {None}],
         recorded'.names = {} <=> recorded'.source = None,
         meddle' \in 0..MaxMeddle, troubles' \in 0..MaxTroubles,
         mine' \subseteq Servers, blame' \subseteq Servers, loose' \subseteq Plugins
  PROVE  TypeInv'
<1>1. cmd'.at \in Steps /\ cmd'.held \in Ownership /\ cmd'.goal \in Ownership
  BY DEF InHand, Jobs
<1>2. /\ edits' \in 0..MaxEdits /\ want' \in [Servers -> Specs \cup {None}]
      /\ selected' \subseteq Plugins /\ place' \in Places
  BY DEF catVars, TypeInv, TypeOK
<1> QED  BY <1>1, <1>2 DEF TypeInv, TypeOK, Steps, Ownership

LEMMA TypeStep ==
  ASSUME TypeInv, [Next]_vars
  PROVE  TypeInv'
<1> USE DEF Ownership
<1>0. /\ live \in [Servers -> Entries] /\ installed \subseteq Plugins /\ market \in Sources
      /\ owned \in Ownership /\ recorded \in [names : SUBSET Plugins, source : Places \cup {None}]
      /\ recorded.names = {} <=> recorded.source = None
      /\ meddle \in 0..MaxMeddle /\ troubles \in 0..MaxTroubles
      /\ mine \subseteq Servers /\ blame \subseteq Servers /\ loose \subseteq Plugins
      /\ InHand /\ cmd \in Jobs /\ cmd.at \in Steps
      /\ cmd.at \in {"act", "write", "verify"} => cmd.todo # << >>
      /\ want \in Ownership /\ selected \subseteq Plugins /\ place \in Places
  BY DEF TypeInv, TypeOK, InHand, Steps
<1>1. CASE Edit
  <2>1. /\ want' \in [Servers -> Specs \cup {None}] /\ selected' \subseteq Plugins /\ place' \in Places
    BY <1>1 DEF Edit, TypeInv, TypeOK
  <2>2. edits' \in 0..MaxEdits
    BY <1>1, RegisterLimits DEF Edit, TypeInv, TypeOK
  <2>3. UNCHANGED <<live, installed, market, owned, recorded, cmd, meddle, troubles, mine, blame, loose>>
    BY <1>1 DEF Edit, prodVars, recVars, histVars
  <2>4. InHand'
    BY <2>3 DEF TypeInv, InHand
  <2> QED  BY <2>1, <2>2, <2>3, <2>4 DEF TypeInv, TypeOK
<1>2. CASE EditPlugins
  <2>1. meddle' \in 0..MaxMeddle
    BY <1>2, RegisterLimits, <1>0 DEF EditPlugins, Meddles
  <2>2. installed' \subseteq Plugins /\ market' \in Sources
    BY <1>2, <1>0 DEF EditPlugins, Sources
  <2>3. UNCHANGED <<catVars, live, owned, recorded, troubles, mine, blame, loose, cmd>>
    BY <1>2 DEF EditPlugins, recVars, histVars
  <2>4. InHand'
    BY <2>3 DEF TypeInv, InHand
  <2> QED  BY <1>0, <2>1, <2>2, <2>3, <2>4, TypeFrame
<1>3. CASE \E n \in Servers, e \in Entries : EditEntry(n, e)
  <2>1. PICK n \in Servers, e \in Entries : EditEntry(n, e)
    BY <1>3
  <2>2. PICK b \in BOOLEAN : cmd' = [cmd EXCEPT !.late = b]
    <3>1. cmd' = [cmd EXCEPT !.late = @ \/ (cmd.at = "act" /\ Head1[2] = n)]
      BY <2>1 DEF EditEntry
    <3>2. cmd.late \in BOOLEAN
      BY <1>0 DEF Jobs
    <3> DEFINE b == cmd.late \/ (cmd.at = "act" /\ Head1[2] = n)
    <3>3. cmd' = [cmd EXCEPT !.late = b] /\ b \in BOOLEAN
      BY <3>1, <3>2
    <3> QED  BY <3>3
  <2>3. Becomes(cmd.at, cmd.todo, cmd.held, b)
    BY <2>2, <1>0 DEF Becomes, Jobs
  <2>4. InHand'
    BY <2>3, <1>0 DEF InHand, Becomes
  <2>5. meddle' \in 0..MaxMeddle
    BY <2>1, RegisterLimits, <1>0 DEF EditEntry, Meddles
  <2>6. live' \in [Servers -> Entries] /\ mine' \subseteq Servers /\ blame' \subseteq Servers
    BY <2>1, <1>0 DEF EditEntry
  <2>7. UNCHANGED <<catVars, installed, market, owned, recorded, troubles, loose>>
    BY <2>1 DEF EditEntry, recVars
  <2> QED  BY <1>0, <2>3, <2>4, <2>5, <2>6, <2>7, TypeFrame DEF Becomes
<1>4. CASE \E names \in SUBSET Servers, w \in {"adopt", "release"} : Review(w, names)
  <2>1. PICK names \in SUBSET Servers, w \in {"adopt", "release"} : Review(w, names)
    BY <1>4
  <2>2. cmd' \in Jobs /\ cmd'.at = w /\ cmd'.names \subseteq Servers
    BY <2>1, <1>0, Idling DEF Review, Jobs, Steps
  <2>3. InHand'
    BY <2>2 DEF InHand, PluginSteps, ServerSteps
  <2>4. meddle' \in 0..MaxMeddle
    BY <2>1, RegisterLimits, <1>0 DEF Review, Meddles
  <2>5. UNCHANGED <<catVars, live, installed, market, owned, recorded, troubles, mine, blame, loose>>
    BY <2>1 DEF Review, prodVars, recVars, histVars
  <2> QED  BY <1>0, <2>2, <2>3, <2>4, <2>5, TypeFrame
<1>5. CASE Start
  <2>1. PICK q : q = PluginCommands \o McpCommands
    OBVIOUS
  <2>2. q \in Seq(Orders) /\ \A i, j \in DOMAIN q : i < j /\ q[i] \in ServerOrders => q[j] \in ServerOrders
    BY <2>1, Queue DEF TypeInv
  <2>3. cmd' = [Idle EXCEPT !.at = "preflight", !.todo = q,
                            !.names = selected, !.home = place, !.held = owned, !.goal = want]
    BY <1>5, <2>1 DEF Start
  <2>4. /\ cmd' \in Jobs /\ cmd'.at = "preflight" /\ cmd'.todo = q /\ cmd'.names = selected
        /\ cmd'.home = place
    BY <2>2, <2>3, <1>0, Idling DEF Jobs, Steps
  <2>5. InHand'
    BY <2>2, <2>4, <1>0 DEF InHand, PluginSteps, ServerSteps
  <2>6. /\ UNCHANGED <<catVars, live, installed, market, owned, recorded, meddle, troubles, mine, loose>>
        /\ blame' \subseteq Servers
    BY <1>5, <1>0 DEF Start, Steady, prodVars, recVars
  <2> QED  BY <1>0, <2>4, <2>5, <2>6, TypeFrame
<1>6. CASE Inside /\ cmd.at \in PluginSteps \cup ServerSteps \cup {"adopt"}
           /\ \/ Ends
              \/ \E w \in PluginSteps : Goto(w) /\ cmd.at \in PluginSteps
              \/ Goto("record") /\ cmd.at = "adopt"
              \/ Skip("look") /\ cmd.at \in ServerSteps /\ cmd.todo # << >>
              \/ /\ cmd.todo # << >> /\ cmd.at \in ServerSteps
                 /\ \E h, x : Becomes("act", cmd.todo, h, x) \/ Becomes("write", cmd.todo, h, x)
  <2>1. UNCHANGED <<catVars, live, installed, market, owned, recorded, meddle, troubles, mine, blame, loose>>
    BY <1>6 DEF Inside, Steady, prodVars, recVars, histVars
  <2>2. InHand' /\ (cmd'.at \in {"act", "write", "verify"} => cmd'.todo # << >>)
    <3>1. CASE Ends
      BY <3>1, HandIdle
    <3>2. CASE \E w \in PluginSteps : Goto(w) /\ cmd.at \in PluginSteps
      <4>1. PICK w \in PluginSteps : Goto(w) /\ cmd.at \in PluginSteps
        BY <3>2
      <4>2. Becomes(w, cmd.todo, cmd.held, cmd.late)
        BY <4>1, <1>0, Going DEF PluginSteps, Steps
      <4>3. InHand'
        BY <4>1, <4>2, <1>0, HandKept DEF PluginSteps, ServerSteps
      <4> QED  BY <4>2, <4>3 DEF Becomes, PluginSteps
    <3>3. CASE Goto("record") /\ cmd.at = "adopt"
      <4>1. Becomes("record", cmd.todo, cmd.held, cmd.late)
        BY <3>3, <1>0, Going DEF Steps
      <4> QED  BY <3>3, <4>1, <1>0 DEF Becomes, InHand, PluginSteps, ServerSteps
    <3>4. CASE Skip("look") /\ cmd.at \in ServerSteps /\ cmd.todo # << >>
      <4>1. Becomes("look", Tail(cmd.todo), cmd.held, cmd.late)
        BY <3>4, <1>0, Skipping DEF Steps
      <4>2. InHand'
        BY <3>4, <4>1, <1>0, HandKept DEF PluginSteps, ServerSteps
      <4> QED  BY <4>1, <4>2 DEF Becomes
    <3>5. CASE /\ cmd.todo # << >> /\ cmd.at \in ServerSteps
               /\ \E h, x : Becomes("act", cmd.todo, h, x) \/ Becomes("write", cmd.todo, h, x)
      <4>1. PICK w \in {"act", "write"} : \E h, x : Becomes(w, cmd.todo, h, x)
        BY <3>5
      <4>2. InHand'
        BY <3>5, <4>1, <1>0, HandKept DEF PluginSteps, ServerSteps
      <4> QED  BY <3>5, <4>1, <4>2 DEF Becomes
    <3> QED  BY <1>6, <3>1, <3>2, <3>3, <3>4, <3>5
  <2> QED  BY <1>0, <2>1, <2>2, TypeFrame
<1>7. CASE RunPlugin
  <2>1. /\ UNCHANGED <<catVars, owned, recorded, meddle>> /\ troubles' \in 0..MaxTroubles
        /\ blame' \subseteq Servers
    BY <1>7, <1>0, PluginOutcome DEF recVars, Counted
  <2>2. /\ UNCHANGED <<live, mine>>
        /\ installed' \subseteq Plugins /\ market' \in Sources /\ loose' \subseteq Plugins
    BY <1>7, PluginOutcome, PluginTaken
  <2>3. InHand' /\ cmd'.at \in {"idle", "plugins"}
    <3>1. CASE Ends
      BY <3>1, HandIdle
    <3>2. CASE Skip("plugins")
      <4>1. cmd.at = "plugins" /\ cmd.todo # << >>
        BY <1>7, PluginOutcome DEF At, NextIsPlugin
      <4>2. Becomes("plugins", Tail(cmd.todo), cmd.held, cmd.late)
        BY <3>2, <4>1, <1>0, Skipping DEF Steps
      <4>3. InHand'
        BY <4>1, <4>2, <1>0, HandKept DEF PluginSteps, ServerSteps
      <4> QED  BY <4>2, <4>3 DEF Becomes
    <3> QED  BY <1>7, <3>1, <3>2, PluginOutcome
  <2> QED  BY <1>0, <2>1, <2>2, <2>3, TypeFrame
<1>8. CASE RecordPlugins
  <2>1. cmd.at = "plugins" /\ ~NextIsPlugin /\ Goto("look") /\ recorded' = NewRecord
    BY <1>8 DEF RecordPlugins, At
  <2>2. Becomes("look", cmd.todo, cmd.held, cmd.late)
    BY <2>1, <1>0, Going DEF Steps
  <2>3. InHand'
    BY <2>1, <2>2, <1>0, HandKept DEF PluginSteps, ServerSteps
  <2>4. cmd.names \subseteq Plugins /\ cmd.home \in Places
    BY <2>1, <1>0 DEF InHand, PluginSteps
  <2>5. /\ recorded' \in [names : SUBSET Plugins, source : Places \cup {None}]
        /\ recorded'.names = {} <=> recorded'.source = None
    BY <2>1, <2>4, RegisterValues DEF NewRecord, NoPlugins
  <2>6. /\ UNCHANGED <<catVars, live, installed, market, owned, meddle, troubles, mine, blame>>
        /\ loose' \subseteq Plugins
    BY <1>8, <1>0 DEF RecordPlugins, Steady, prodVars
  <2> QED  BY <1>0, <2>2, <2>3, <2>5, <2>6, TypeFrame DEF Becomes
<1>9. CASE Act
  <2>1. /\ UNCHANGED <<catVars, owned, recorded, meddle>> /\ troubles' \in 0..MaxTroubles
        /\ blame' \subseteq Servers /\ cmd.at = "act" /\ (Takes(Head1) \/ Untaken) /\ (Ends \/ Done)
    BY <1>9, <1>0, ActOutcome DEF recVars, Counted, At
  <2>2. /\ Head1[2] \in Servers /\ Head1[3] \in Specs \cup {None} /\ cmd.todo # << >>
        /\ UNCHANGED <<installed, market, loose>>
        /\ \/ live' = live /\ mine' = mine
           \/ live' = [live EXCEPT ![Head1[2]] = Head1[3]] /\ mine' = mine \ {Head1[2]}
    BY <2>1, ServerTaken DEF At
  <2>3. live' \in [Servers -> Entries] /\ mine' \subseteq Servers
    BY <2>2, <1>0 DEF Entries
  <2>4. InHand' /\ (cmd'.at \in {"act", "write", "verify"} => cmd'.todo # << >>)
    <3>1. CASE Ends
      BY <3>1, HandIdle
    <3>2. CASE Done
      <4>1. PICK h : Becomes("write", cmd.todo, h, cmd.late)
        <5>1. Becomes("write", cmd.todo, [cmd.held EXCEPT ![Head1[2]] = Head1[3]], cmd.late)
          <6>1. PICK n \in Servers, v \in Specs \cup {None} : n = Head1[2] /\ v = Head1[3]
            BY <2>2
          <6>2. cmd' = [cmd EXCEPT !.at = "write", !.held[n] = v]
            BY <3>2, <6>1 DEF Done
          <6>3. cmd \in Jobs /\ "write" \in Steps
            BY <1>0 DEF Steps
          <6> HIDE DEF Ownership
          <6>4. Becomes("write", cmd.todo, [cmd.held EXCEPT ![n] = v], cmd.late)
            BY <6>2, <6>3, Holding, Zenon
          <6> QED  BY <6>1, <6>4
        <5> QED  BY <5>1
      <4>2. InHand'
        BY <4>1, <2>1, <1>0, HandKept DEF PluginSteps, ServerSteps
      <4> QED  BY <4>1, <4>2, <2>2 DEF Becomes
    <3> QED  BY <2>1, <3>1, <3>2
  <2> QED  BY <1>0, <2>1, <2>2, <2>3, <2>4, TypeFrame
<1>10. CASE Write
  <2>1. /\ cmd.at = "write" /\ cmd.todo # << >> /\ owned' \in Ownership /\ mine' \subseteq Servers
        /\ UNCHANGED <<catVars, live, installed, market, recorded, meddle, troubles, blame, loose>>
        /\ Skip("look") \/ Goto("verify")
    BY <1>10, <1>0 DEF Write, At, Steady, prodVars, Checkpoint, InHand, Jobs
  <2>2. InHand' /\ (cmd'.at \in {"act", "write", "verify"} => cmd'.todo # << >>)
    <3>1. CASE Skip("look")
      <4>1. Becomes("look", Tail(cmd.todo), cmd.held, cmd.late)
        BY <2>1, <3>1, <1>0, Skipping DEF Steps
      <4>2. InHand'
        BY <2>1, <4>1, <1>0, HandKept DEF PluginSteps, ServerSteps
      <4> QED  BY <4>1, <4>2 DEF Becomes
    <3>2. CASE Goto("verify")
      <4>1. Becomes("verify", cmd.todo, cmd.held, cmd.late)
        BY <3>2, <1>0, Going DEF Steps
      <4>2. InHand'
        BY <2>1, <4>1, <1>0, HandKept DEF PluginSteps, ServerSteps
      <4> QED  BY <4>1, <4>2, <2>1 DEF Becomes
    <3> QED  BY <2>1, <3>1, <3>2
  <2> QED  BY <1>0, <2>1, <2>2, TypeFrame
<1>11. CASE /\ Ends /\ UNCHANGED <<catVars, live, installed, market, recorded, meddle, loose>>
            /\ owned' \in Ownership
            /\ troubles' \in 0..MaxTroubles /\ mine' \subseteq Servers /\ blame' \subseteq Servers
  BY <1>0, <1>11, HandIdle, TypeFrame
<1>12. CASE UNCHANGED vars
  <2>1. UNCHANGED <<want, selected, place, edits, live, installed, market, owned, recorded, cmd,
                    meddle, troubles, mine, blame, loose>>
    BY <1>12 DEF vars, catVars, prodVars, recVars, histVars
  <2>2. InHand'
    BY <2>1 DEF InHand, TypeInv
  <2> QED  BY <2>1, <2>2 DEF TypeInv, TypeOK
<1>13. Review("adopt", Adoptable) \/ (\E names \in SUBSET Releasable : Review("release", names)) =>
         \E names \in SUBSET Servers, w \in {"adopt", "release"} : Review(w, names)
  <2>1. Adoptable \in SUBSET Servers /\ Releasable \subseteq Servers
    BY DEF Adoptable, Releasable
  <2> QED  BY <2>1
<1>14. ASSUME Preflight \/ Look \/ Verify \/ Recheck
       PROVE  TypeInv'
  <2>1. CASE Preflight
    BY <2>1, <1>6 DEF Preflight, At, PluginSteps, ServerSteps
  <2>2. CASE Recheck
    BY <2>2, <1>6 DEF Recheck, At, PluginSteps, ServerSteps
  <2>3. CASE Verify
    BY <2>3, <1>0, <1>6 DEF Verify, At, PluginSteps, ServerSteps
  <2>4. CASE Look
    <3>1. cmd.at = "look" /\ cmd.todo # << >> /\ Inside
      BY <2>4 DEF Look, At
    <3>2. Head1[2] \in Servers
      BY <3>1, <1>0, Heads, Apiece DEF ServerSteps
    <3>3. Ends \/ \E h, x : Becomes("act", cmd.todo, h, x) \/ Becomes("write", cmd.todo, h, x)
      <4>1. CASE cmd' = [cmd EXCEPT !.at = "write", !.held[Head1[2]] = None]
        <5>1. Becomes("write", cmd.todo, [cmd.held EXCEPT ![Head1[2]] = None], cmd.late)
          <6>1. PICK n \in Servers : n = Head1[2]
            BY <3>2
          <6>2. cmd' = [cmd EXCEPT !.at = "write", !.held[n] = None]
            BY <4>1, <6>1
          <6>3. cmd \in Jobs /\ "write" \in Steps /\ None \in Specs \cup {None}
            BY <1>0 DEF Steps
          <6> HIDE DEF Ownership
          <6>4. Becomes("write", cmd.todo, [cmd.held EXCEPT ![n] = None], cmd.late)
            BY <6>2, <6>3, Holding, Zenon
          <6> QED  BY <6>1, <6>4
        <5> QED  BY <5>1
      <4>2. CASE cmd' = [cmd EXCEPT !.at = "act", !.late = FALSE]
        <5>1. Becomes("act", cmd.todo, cmd.held, FALSE)
          BY <4>2, <1>0 DEF Becomes, Jobs, Steps
        <5> QED  BY <5>1
      <4> QED  BY <2>4, <4>1, <4>2 DEF Look
    <3> QED  BY <3>1, <3>3, <1>6 DEF ServerSteps
  <2> QED  BY <1>14, <2>1, <2>2, <2>3, <2>4
<1>15. ASSUME Finish \/ Adopt \/ Release \/ Crash
       PROVE  TypeInv'
  <2>1. CASE Finish
    <3>1. cmd.goal \in Ownership
      BY <1>0 DEF Jobs
    <3> QED  BY <2>1, <3>1, <1>0, <1>11 DEF Finish, Steady, prodVars, histVars
  <2>2. CASE Adopt
    <3>1. cmd.goal \in Ownership
      BY <1>0 DEF Jobs
    <3>2. owned' \in Ownership
      BY <2>2, <3>1, <1>0 DEF Adopt
    <3> QED  BY <2>2, <3>2, <1>0, <1>11 DEF Adopt, Steady, prodVars
  <2>3. CASE Release
    <3>1. cmd.names \subseteq Servers
      BY <2>3, <1>0 DEF Release, At, InHand
    <3> QED  BY <2>3, <3>1, <1>0, <1>11 DEF Release, Steady, prodVars
  <2>4. CASE Crash
    <3>1. troubles' \in 0..MaxTroubles
      BY <2>4, <1>0, RegisterLimits DEF Crash, Trouble
    <3>2. blame' \subseteq Servers
      <4>1. CASE At("write")
        <5>1. Head1[2] \in Servers
          BY <4>1, <1>0, Heads, Apiece DEF At, ServerSteps
        <5> QED  BY <2>4, <5>1, <1>0 DEF Crash
      <4>2. CASE ~At("write")
        BY <2>4, <4>2, <1>0 DEF Crash
      <4> QED  BY <4>1, <4>2
    <3> QED  BY <2>4, <3>1, <3>2, <1>0, <1>11 DEF Crash, prodVars, recVars
  <2> QED  BY <1>15, <2>1, <2>2, <2>3, <2>4
<1> QED
  BY <1>1, <1>2, <1>3, <1>4, <1>5, <1>7, <1>8, <1>9, <1>10, <1>12, <1>13, <1>14, <1>15
     DEF Next, Registers, Hands

-----------------------------------------------------------------------------
(* The Plugins are found again.                                            *)

LEMMA PluginsElsewhere ==
  ASSUME TypeInv, PluginsFound, UNCHANGED <<recorded, loose>>, installed' \subseteq installed,
         cmd'.at \in PluginSteps => cmd.at \in PluginSteps /\ cmd'.todo = cmd.todo /\ cmd'.names = cmd.names
  PROVE  PluginsFound'
<1>1. installed' \subseteq recorded'.names \cup loose'
  BY DEF PluginsFound
<1>2. ASSUME cmd'.at \in PluginSteps, NEW p \in installed' \ (loose' \cup cmd'.names)
      PROVE  \E i \in DOMAIN cmd'.todo : cmd'.todo[i] = <<"uninstall", p, None>>
  BY <1>2 DEF PluginsFound
<1> QED  BY <1>1, <1>2 DEF PluginsFound

LEMMA PluginsStep ==
  ASSUME TypeInv, PluginsFound, [Next]_vars
  PROVE  PluginsFound'
<1>0. cmd \in Jobs /\ cmd.at \in Steps
  BY DEF TypeInv, InHand, Jobs
<1>1. CASE Start
  <2>1. PICK q : q = PluginCommands \o McpCommands
    OBVIOUS
  <2>2. /\ cmd'.at = "preflight" /\ cmd'.todo = q /\ cmd'.names = selected
        /\ UNCHANGED <<recorded, loose, installed>>
    BY <1>1, <2>1 DEF Start, prodVars, recVars, Idle
  <2>3. \A p \in Removed : \E i \in DOMAIN q : q[i] = <<"uninstall", p, None>>
    BY <2>1, Queue DEF TypeInv
  <2>4. recorded.names \subseteq selected \cup Removed
    BY DEF Removed
  <2>5. installed \subseteq recorded.names \cup loose
    BY DEF PluginsFound
  <2>6. ASSUME NEW p \in installed \ (loose \cup selected)
        PROVE  \E i \in DOMAIN q : q[i] = <<"uninstall", p, None>>
    BY <2>3, <2>4, <2>5
  <2> QED  BY <2>2, <2>5, <2>6 DEF PluginsFound
<1>2. CASE RunPlugin
  <2>1. /\ At("plugins") /\ NextIsPlugin /\ recorded' = recorded /\ (Takes(Head1) \/ Untaken)
        /\ Ends \/ (Skip("plugins") /\ (Takes(Head1) \/ Satisfied(Head1)))
    BY <1>2, PluginOutcome DEF recVars
  <2>2. \/ installed' = installed /\ loose' = loose
        \/ Head1[1] = "install" /\ installed' = installed \cup {Head1[2]} /\ loose' = loose \cup {Head1[2]}
        \/ Head1[1] = "uninstall" /\ installed' = installed \ {Head1[2]} /\ loose' = loose \ {Head1[2]}
    BY <2>1, PluginTaken
  <2>3. installed' \subseteq recorded'.names \cup loose'
    BY <2>1, <2>2 DEF PluginsFound
  <2>4. CASE Ends
    BY <2>3, <2>4, HandIdle DEF PluginsFound, PluginSteps
  <2>5. CASE Skip("plugins") /\ (Takes(Head1) \/ Satisfied(Head1))
    <3>1. cmd.todo # << >> /\ Head1 = cmd.todo[1] /\ cmd.todo \in Seq(Orders)
      BY <2>1, <1>0, Heads DEF NextIsPlugin, TypeInv, Jobs
    <3>2. cmd'.at = "plugins" /\ cmd'.todo = Tail(cmd.todo) /\ cmd'.names = cmd.names
      BY <3>1, <2>5, <1>0, Skipping DEF Becomes, Steps
    <3>3. ASSUME NEW p \in installed' \ (loose' \cup cmd.names)
          PROVE  \E i \in DOMAIN Tail(cmd.todo) : Tail(cmd.todo)[i] = <<"uninstall", p, None>>
      <4>1. p \in installed \ (loose \cup cmd.names)
        BY <2>2
      <4>2. PICK i \in DOMAIN cmd.todo : cmd.todo[i] = <<"uninstall", p, None>>
        BY <4>1, <2>1 DEF PluginsFound, At, PluginSteps
      <4>3. i # 1
        <5> SUFFICES ASSUME i = 1 PROVE FALSE
          OBVIOUS
        <5>1. Head1 = <<"uninstall", p, None>>
          BY <3>1, <4>2
        <5>2. Head1[1] = "uninstall" /\ Head1[2] = p
          BY <5>1
        <5>3. CASE Takes(Head1)
          BY <5>2, <5>3 DEF Takes
        <5>4. CASE Satisfied(Head1)
          BY <5>2, <5>4 DEF Satisfied
        <5> QED  BY <2>5, <5>3, <5>4
      <4>4. i - 1 \in DOMAIN Tail(cmd.todo) /\ Tail(cmd.todo)[i - 1] = cmd.todo[i]
        BY <3>1, <4>2, <4>3, Rest
      <4> QED  BY <4>2, <4>4
    <3> QED  BY <2>3, <3>2, <3>3 DEF PluginsFound
  <2> QED  BY <2>1, <2>4, <2>5
<1>3. CASE RecordPlugins
  <2>1. /\ cmd.at = "plugins" /\ ~NextIsPlugin /\ Goto("look") /\ installed' = installed
        /\ loose' = loose \ cmd.names /\ recorded' = NewRecord
    BY <1>3 DEF RecordPlugins, At, prodVars
  <2>2. recorded'.names = cmd.names
    BY <2>1 DEF NewRecord, NoPlugins
  <2>3. cmd'.at = "look"
    BY <2>1, <1>0, Going DEF Becomes, Steps
  <2>4. \A i \in DOMAIN cmd.todo : cmd.todo[i] \in ServerOrders
    BY <2>1, OnlyServers, LenProperties DEF TypeInv, PluginSteps
  <2>5. installed \subseteq loose \cup cmd.names
    <3> SUFFICES ASSUME NEW p \in installed \ (loose \cup cmd.names) PROVE FALSE
      OBVIOUS
    <3>1. PICK i \in DOMAIN cmd.todo : cmd.todo[i] = <<"uninstall", p, None>>
      BY <2>1 DEF PluginsFound, PluginSteps
    <3> QED  BY <3>1, <2>4, Apiece
  <2> QED  BY <2>1, <2>2, <2>3, <2>5 DEF PluginsFound, PluginSteps
<1>4. CASE Preflight
  <2>1. cmd.at = "preflight" /\ (Ends \/ Goto("plugins")) /\ UNCHANGED <<installed, recorded, loose>>
    BY <1>4 DEF Preflight, At, Inside, prodVars, recVars, histVars
  <2>2. cmd'.at \in PluginSteps => cmd.at \in PluginSteps /\ cmd'.todo = cmd.todo /\ cmd'.names = cmd.names
    BY <2>1, <1>0, HandIdle, Going DEF Becomes, PluginSteps, Steps
  <2> QED  BY <2>1, <2>2, PluginsElsewhere
<1>5. CASE Edit \/ EditPlugins \/ UNCHANGED vars
  <2>1. UNCHANGED <<recorded, loose, cmd>> /\ installed' \subseteq installed
    BY <1>5 DEF Edit, EditPlugins, prodVars, recVars, histVars, vars
  <2> QED  BY <2>1, PluginsElsewhere
<1>6. CASE \E n \in Servers, e \in Entries : EditEntry(n, e)
  <2>1. /\ UNCHANGED <<recorded, loose, installed>>
        /\ cmd'.at = cmd.at /\ cmd'.todo = cmd.todo /\ cmd'.names = cmd.names
    BY <1>6, <1>0 DEF EditEntry, recVars, Jobs
  <2> QED  BY <2>1, PluginsElsewhere
<1>7. CASE \/ Review("adopt", Adoptable)
           \/ \E names \in SUBSET Releasable : Review("release", names)
  <2>1. UNCHANGED <<recorded, loose, installed>> /\ cmd'.at \in {"adopt", "release"}
    <3>1. PICK w \in {"adopt", "release"} : \E names : Review(w, names)
      BY <1>7
    <3> QED  BY <3>1, Idling DEF Review, prodVars, recVars, histVars, Jobs
  <2> QED  BY <2>1, PluginsElsewhere DEF PluginSteps
<1>8. CASE Look \/ Write \/ Verify \/ Finish \/ Recheck \/ Adopt \/ Release \/ Crash
  <2>1. UNCHANGED <<recorded, loose, installed>>
    BY <1>8 DEF Look, Write, Verify, Finish, Recheck, Adopt, Release, Crash, Inside, Steady,
                prodVars, recVars, histVars
  <2>2. cmd'.at \notin PluginSteps
    <3>1. Ends => cmd'.at = "idle"
      BY HandIdle
    <3>2. \A w \in Steps : Goto(w) => cmd'.at = w
      BY <1>0, Going DEF Becomes
    <3>3. Skip("look") => cmd'.at = "look"
      BY <1>0 DEF Skip, Jobs
    <3>4. CASE Look
      BY <3>1, <3>4, <1>0 DEF Look, Jobs, PluginSteps
    <3>5. CASE Write \/ Verify \/ Recheck
      BY <3>1, <3>2, <3>3, <3>5 DEF Write, Verify, Recheck, PluginSteps, Steps
    <3>6. CASE Finish \/ Adopt \/ Release \/ Crash
      BY <3>1, <3>6 DEF Finish, Adopt, Release, Crash, PluginSteps
    <3> QED  BY <1>8, <3>4, <3>5, <3>6
  <2> QED  BY <2>1, <2>2, PluginsElsewhere
<1>9. CASE Act
  <2>1. UNCHANGED <<recorded>> /\ At("act") /\ (Takes(Head1) \/ Untaken) /\ (Ends \/ Done)
    BY <1>9, ActOutcome DEF recVars
  <2>2. UNCHANGED <<installed, loose>>
    BY <2>1, ServerTaken
  <2>3. cmd'.at \in {"idle", "write"}
    BY <2>1, <1>0, HandIdle DEF Done, Jobs
  <2> QED  BY <2>1, <2>2, <2>3, PluginsElsewhere DEF PluginSteps
<1> QED  BY <1>1, <1>2, <1>3, <1>4, <1>5, <1>6, <1>7, <1>8, <1>9 DEF Next, Registers, Hands

-----------------------------------------------------------------------------
(* The queue leads to the goal.                                            *)

LEMMA LeadsFrame ==
  ASSUME Leads, cmd.at \in PluginSteps \cup ServerSteps,
         cmd'.todo = cmd.todo, cmd'.goal = cmd.goal,
         \A n \in Servers : Ordered(n) \/ (Settled(n) => Settled(n)')
  PROVE  Leads'
<1>1. /\ \A i \in DOMAIN cmd.todo : cmd.todo[i][1] = "add-json" => cmd.todo[i][3] = cmd.goal[cmd.todo[i][2]]
      /\ \A i \in DOMAIN cmd.todo : cmd.todo[i][1] = "remove" =>
           \/ cmd.goal[cmd.todo[i][2]] = None
           \/ \E j \in DOMAIN cmd.todo :
                i < j /\ cmd.todo[j] = <<"add-json", cmd.todo[i][2], cmd.goal[cmd.todo[i][2]]>>
  BY DEF Leads
<1>2. \A n \in Servers : Ordered(n) \/ Settled(n)
  BY DEF Leads
<1>3. \A n \in Servers : Ordered(n) => Ordered(n)'
  BY DEF Ordered
<1>4. \A n \in Servers : Ordered(n)' \/ Settled(n)'
  BY <1>2, <1>3
<1> QED  BY <1>1, <1>4 DEF Leads

(* The head has been dealt with, and its server is settled unless more is  *)
(* to come for it.                                                         *)
LEMMA LeadsRest ==
  ASSUME TypeInv, Leads, cmd.at \in PluginSteps \cup ServerSteps, cmd.todo # << >>,
         cmd'.todo = Tail(cmd.todo), cmd'.goal = cmd.goal, cmd'.held = cmd.held,
         Head1 \in ServerOrders => cmd.held[Head1[2]] = Head1[3],
         \A n \in Servers : Settled(n) => Settled(n)'
  PROVE  Leads'
<1> DEFINE rest == Tail(cmd.todo)
           goal == cmd.goal
<1>1. cmd.todo \in Seq(Orders) /\ Head1 = cmd.todo[1] /\ 1 \in DOMAIN cmd.todo /\ Head1 \in Orders
  BY Heads DEF TypeInv, InHand, Jobs
<1>2. DOMAIN rest \subseteq Nat /\ DOMAIN cmd.todo \subseteq Nat
  BY <1>1, Rest
<1>3. \A i \in DOMAIN rest : i + 1 \in DOMAIN cmd.todo /\ rest[i] = cmd.todo[i + 1]
  BY <1>1, Rest
<1>4. \A i \in DOMAIN cmd.todo : i # 1 => i - 1 \in DOMAIN rest /\ rest[i - 1] = cmd.todo[i]
  BY <1>1, Rest
<1>5. /\ \A i \in DOMAIN cmd.todo : cmd.todo[i][1] = "add-json" => cmd.todo[i][3] = goal[cmd.todo[i][2]]
      /\ \A i \in DOMAIN cmd.todo : cmd.todo[i][1] = "remove" =>
           \/ goal[cmd.todo[i][2]] = None
           \/ \E j \in DOMAIN cmd.todo :
                i < j /\ cmd.todo[j] = <<"add-json", cmd.todo[i][2], goal[cmd.todo[i][2]]>>
      /\ \A n \in Servers : Ordered(n) \/ Settled(n)
  BY DEF Leads
<1> HIDE DEF rest, goal
<1>6. \A i \in DOMAIN rest : rest[i][1] = "add-json" => rest[i][3] = goal[rest[i][2]]
  BY <1>3, <1>5
<1>7. ASSUME NEW i \in DOMAIN rest, rest[i][1] = "remove"
      PROVE  \/ goal[rest[i][2]] = None
             \/ \E j \in DOMAIN rest : i < j /\ rest[j] = <<"add-json", rest[i][2], goal[rest[i][2]]>>
  <2>1. PICK k \in DOMAIN cmd.todo : k = i + 1 /\ cmd.todo[k] = rest[i]
    BY <1>3
  <2>2. \/ goal[rest[i][2]] = None
        \/ \E j \in DOMAIN cmd.todo : k < j /\ cmd.todo[j] = <<"add-json", rest[i][2], goal[rest[i][2]]>>
    <3>1. cmd.todo[k][1] = "remove"
      BY <1>7, <2>1
    <3>2. \/ goal[cmd.todo[k][2]] = None
          \/ \E j \in DOMAIN cmd.todo :
               k < j /\ cmd.todo[j] = <<"add-json", cmd.todo[k][2], goal[cmd.todo[k][2]]>>
      BY <1>5, <3>1
    <3> QED  BY <2>1, <3>2
  <2>3. ASSUME NEW j \in DOMAIN cmd.todo, k < j
        PROVE  j - 1 \in DOMAIN rest /\ i < j - 1 /\ rest[j - 1] = cmd.todo[j]
    <3>1. i \in Nat /\ j \in Nat
      BY <1>2
    <3>2. j # 1 /\ i < j - 1
      BY <3>1, <2>1, <2>3
    <3> QED  BY <3>2, <1>4
  <2> QED  BY <2>2, <2>3
<1>8. ASSUME NEW n \in Servers, Ordered(n)
      PROVE  Ordered(n)' \/ (Head1 \in ServerOrders /\ Head1[2] = n)
  <2>1. PICK i \in DOMAIN cmd.todo : cmd.todo[i] \in ServerOrders /\ cmd.todo[i][2] = n
    BY <1>8 DEF Ordered
  <2>2. CASE i = 1
    BY <1>1, <2>1, <2>2
  <2>3. CASE i # 1
    <3>1. i - 1 \in DOMAIN rest /\ rest[i - 1] = cmd.todo[i]
      BY <1>4, <2>3
    <3> QED  BY <2>1, <3>1 DEF Ordered, rest
  <2> QED  BY <2>2, <2>3
<1>9. ASSUME NEW n \in Servers, Head1 \in ServerOrders, Head1[2] = n
      PROVE  Ordered(n)' \/ Settled(n)'
  <2>1. cmd.held[n] = Head1[3]
    BY <1>9
  <2>2. CASE Head1[1] = "add-json"
    <3>1. Head1[3] = goal[n]
      BY <1>1, <1>5, <1>9, <2>2
    <3> QED  BY <2>1, <3>1 DEF Settled, goal
  <2>3. CASE Head1[1] = "remove"
    <3>1. Head1[3] = None
      BY <1>9, <2>3, Apiece
    <3>2. CASE goal[n] = None
      BY <2>1, <3>1, <3>2 DEF Settled, goal
    <3>3. CASE goal[n] # None
      <4>1. PICK j \in DOMAIN cmd.todo : 1 < j /\ cmd.todo[j] = <<"add-json", n, goal[n]>>
        BY <1>1, <1>5, <1>9, <2>3, <3>3
      <4>2. j - 1 \in DOMAIN rest /\ rest[j - 1] = cmd.todo[j]
        BY <1>4, <4>1
      <4>3. cmd.todo[j] \in ServerOrders
        <5>1. cmd.todo[j] \in Orders
          BY <1>1, LenProperties
        <5>2. cmd.todo[j][1] = "add-json"
          BY <4>1
        <5> QED  BY <5>1, <5>2, Apiece DEF Orders, PluginVerbs
      <4>4. cmd.todo[j][2] = n
        BY <4>1
      <4> QED  BY <4>2, <4>3, <4>4 DEF Ordered, rest
    <3> QED  BY <3>2, <3>3
  <2> QED  BY <1>9, <2>2, <2>3, Apiece
<1>10. \A n \in Servers : Ordered(n)' \/ Settled(n)'
  BY <1>5, <1>8, <1>9
<1>11. cmd'.todo = rest /\ cmd'.goal = goal
  BY DEF rest, goal
<1>12. \A i \in DOMAIN rest : rest[i][1] = "remove" =>
         \/ goal[rest[i][2]] = None
         \/ \E j \in DOMAIN rest : i < j /\ rest[j] = <<"add-json", rest[i][2], goal[rest[i][2]]>>
  BY <1>7
<1> QED  BY <1>6, <1>10, <1>11, <1>12 DEF Leads

(* A step at which no entry that counts is lost sight of.                  *)
LEMMA SettledStays ==
  ASSUME NEW n \in Servers, Settled(n), cmd'.goal = cmd.goal, cmd'.held[n] = cmd.held[n],
         live'[n] = live[n] \/ n \in blame', n \in mine \cup blame => n \in mine' \cup blame'
  PROVE  Settled(n)'
BY DEF Settled

LEMMA LeadsStep ==
  ASSUME TypeInv, Leads, Memory, Foreigners, [Next]_vars
  PROVE  Leads'
<1>0. cmd \in Jobs /\ cmd.at \in Steps
  BY DEF TypeInv, InHand, Jobs
<1>a. cmd'.at \notin PluginSteps \cup ServerSteps => Leads'
  BY DEF Leads
<1>b. Ends => Leads'
  BY <1>a, HandIdle DEF PluginSteps, ServerSteps
<1>1. CASE Edit \/ EditPlugins \/ UNCHANGED vars
  <2>1. UNCHANGED <<cmd, live, mine, blame>>
    BY <1>1 DEF Edit, EditPlugins, prodVars, histVars, vars
  <2> QED  BY <2>1 DEF Leads, Ordered, Settled
<1>2. CASE \E n \in Servers, e \in Entries : EditEntry(n, e)
  <2>1. PICK m \in Servers, e \in Entries : EditEntry(m, e)
    BY <1>2
  <2>2. /\ cmd'.at = cmd.at /\ cmd'.todo = cmd.todo /\ cmd'.goal = cmd.goal /\ cmd'.held = cmd.held
    BY <2>1, <1>0 DEF EditEntry, Jobs
  <2>3. /\ blame' = blame \cup {m} /\ \A n \in Servers : n # m => live'[n] = live[n]
        /\ mine \subseteq mine' \cup {m}
    BY <2>1 DEF EditEntry, TypeInv, TypeOK
  <2>4. \A n \in Servers : Settled(n) => Settled(n)'
    BY <2>2, <2>3 DEF Settled
  <2> QED  BY <2>2, <2>4, <1>a, LeadsFrame
<1>3. CASE \/ Review("adopt", Adoptable)
           \/ \E names \in SUBSET Releasable : Review("release", names)
  <2>1. cmd'.at \in {"adopt", "release"}
    <3>1. PICK w \in {"adopt", "release"} : \E names : Review(w, names)
      BY <1>3
    <3> QED  BY <3>1, Idling DEF Review, Jobs
  <2> QED  BY <2>1, <1>a DEF PluginSteps, ServerSteps
<1>4. CASE Start
  <2>1. PICK q : q = PluginCommands \o McpCommands
    OBVIOUS
  <2>2. Planned(q)
    BY <2>1, Queue DEF TypeInv
  <2>3. /\ cmd'.todo = q /\ cmd'.held = owned /\ cmd'.goal = want /\ UNCHANGED <<live, mine>>
    BY <1>4, <2>1 DEF Start, prodVars, Idle
  <2>4. \A n \in Servers : Ordered(n)' \/ Settled(n)'
    BY <2>2, <2>3 DEF Planned, Ordered, Settled
  <2> QED  BY <2>2, <2>3, <2>4 DEF Leads, Planned
<1>5. CASE Preflight
  <2>1. cmd.at = "preflight" /\ (Ends \/ Goto("plugins")) /\ UNCHANGED <<live, mine, blame>>
    BY <1>5 DEF Preflight, At, Inside, prodVars, histVars
  <2>2. CASE Goto("plugins")
    <3>1. Becomes("plugins", cmd.todo, cmd.held, cmd.late)
      BY <2>2, <1>0, Going DEF Steps
    <3>2. \A n \in Servers : Settled(n) => Settled(n)'
      BY <2>1, <3>1 DEF Settled, Becomes
    <3> QED  BY <2>1, <3>1, <3>2, LeadsFrame DEF Becomes, PluginSteps
  <2> QED  BY <2>1, <2>2, <1>b
<1>6. CASE RunPlugin
  <2>1. /\ cmd.at = "plugins" /\ NextIsPlugin /\ (Takes(Head1) \/ Untaken) /\ (Ends \/ Skip("plugins"))
        /\ blame \subseteq blame'
    BY <1>6, PluginOutcome DEF At
  <2>2. UNCHANGED <<live, mine>>
    BY <2>1, PluginTaken
  <2>3. CASE Skip("plugins")
    <3>1. cmd.todo # << >> /\ Head1 \in PluginOrders
      BY <2>1, Heads DEF NextIsPlugin, TypeInv
    <3>2. Becomes("plugins", Tail(cmd.todo), cmd.held, cmd.late)
      BY <2>3, <3>1, <1>0, Skipping DEF Steps
    <3>3. \A n \in Servers : Settled(n) => Settled(n)'
      BY <2>1, <2>2, <3>2 DEF Settled, Becomes
    <3>4. Head1 \notin ServerOrders
      BY <3>1, Apiece
    <3> QED  BY <2>1, <3>1, <3>2, <3>3, <3>4, LeadsRest DEF Becomes, PluginSteps
  <2> QED  BY <2>1, <2>3, <1>b
<1>7. CASE RecordPlugins
  <2>1. cmd.at = "plugins" /\ Goto("look") /\ UNCHANGED <<live, mine, blame>>
    BY <1>7 DEF RecordPlugins, At, prodVars
  <2>2. Becomes("look", cmd.todo, cmd.held, cmd.late)
    BY <2>1, <1>0, Going DEF Steps
  <2>3. \A n \in Servers : Settled(n) => Settled(n)'
    BY <2>1, <2>2 DEF Settled, Becomes
  <2> QED  BY <2>1, <2>2, <2>3, LeadsFrame DEF Becomes, PluginSteps
<1>8. CASE Look
  <2>1. cmd.at = "look" /\ cmd.todo # << >> /\ UNCHANGED <<live, mine, blame>>
    BY <1>8 DEF Look, At, Inside, prodVars, histVars
  <2>2. Head1 \in ServerOrders /\ Head1[2] \in Servers /\ Ordered(Head1[2])
    BY <2>1, Heads, Apiece DEF TypeInv, ServerSteps, Ordered
  <2>3. ASSUME cmd' = [cmd EXCEPT !.at = "write", !.held[Head1[2]] = None]
        PROVE  Leads'
    <3>1. /\ cmd'.todo = cmd.todo /\ cmd'.goal = cmd.goal
          /\ \A n \in Servers : n # Head1[2] => cmd'.held[n] = cmd.held[n]
      BY <2>3, <1>0 DEF Jobs, Ownership
    <3>2. \A n \in Servers : n # Head1[2] => (Settled(n) => Settled(n)')
      BY <2>1, <3>1 DEF Settled
    <3> QED  BY <2>1, <2>2, <3>1, <3>2, LeadsFrame DEF ServerSteps
  <2>4. ASSUME cmd' = [cmd EXCEPT !.at = "act", !.late = FALSE]
        PROVE  Leads'
    <3>1. cmd'.todo = cmd.todo /\ cmd'.goal = cmd.goal /\ cmd'.held = cmd.held
      BY <2>4, <1>0 DEF Jobs
    <3>2. \A n \in Servers : Settled(n) => Settled(n)'
      BY <2>1, <3>1 DEF Settled
    <3> QED  BY <2>1, <3>1, <3>2, LeadsFrame DEF ServerSteps
  <2> QED  BY <1>8, <2>3, <2>4, <1>b DEF Look
<1>9. CASE Act
  <2>1. /\ cmd.at = "act" /\ (Takes(Head1) \/ Untaken) /\ (Ends \/ (Done /\ UNCHANGED blame))
    BY <1>9, ActOutcome DEF At
  <2>2. /\ cmd.todo # << >> /\ Head1 \in ServerOrders /\ Head1[2] \in Servers
        /\ mine' \cup {Head1[2]} = mine \cup {Head1[2]}
        /\ \A n \in Servers : n # Head1[2] => live'[n] = live[n]
    BY <2>1, ServerTaken DEF At, TypeInv, TypeOK
  <2>3. Ordered(Head1[2])
    BY <2>2, Heads DEF TypeInv, Ordered
  <2>4. CASE Done /\ UNCHANGED blame
    <3>1. /\ cmd'.todo = cmd.todo /\ cmd'.goal = cmd.goal
          /\ \A n \in Servers : n # Head1[2] => cmd'.held[n] = cmd.held[n]
      BY <2>4, <1>0 DEF Done, Jobs, Ownership
    <3>2. \A n \in Servers : n # Head1[2] => (Settled(n) => Settled(n)')
      BY <2>2, <2>4, <3>1 DEF Settled
    <3> QED  BY <2>1, <2>3, <3>1, <3>2, LeadsFrame DEF ServerSteps
  <2> QED  BY <2>1, <2>4, <1>b
<1>10. CASE Write
  <2>1. /\ cmd.at = "write" /\ owned' = cmd.held /\ mine' = {n \in mine : live[n] # owned'[n]}
        /\ UNCHANGED <<live, blame>> /\ (IF Head1[1] = "remove" THEN Skip("look") ELSE Goto("verify"))
    BY <1>10 DEF Write, At, prodVars, Checkpoint
  <2>2. cmd.todo # << >> /\ Head1 \in ServerOrders /\ Head1[2] \in Servers /\ Ordered(Head1[2])
    <3>1. cmd.todo # << >>
      BY <2>1 DEF TypeInv, TypeOK
    <3> QED  BY <2>1, <3>1, Heads, Apiece DEF TypeInv, ServerSteps, Ordered
  <2>3. cmd.held[Head1[2]] = Head1[3]
    BY <2>1 DEF Memory
  <2>4. ASSUME NEW n \in Servers, Settled(n), cmd'.goal = cmd.goal, cmd'.held = cmd.held
        PROVE  Settled(n)'
    <3>1. CASE n # Head1[2] /\ n \in mine
      <4>1. cmd.held[n] = owned[n]
        BY <2>1, <3>1 DEF Memory, Pending, ServerSteps
      <4>2. live[n] # owned[n]
        BY <3>1 DEF Foreigners
      <4>3. n \in mine'
        BY <2>1, <3>1, <4>1, <4>2
      <4> QED  BY <2>1, <2>4, <4>3, SettledStays
    <3>2. CASE n \notin mine
      <4>1. n \in mine \cup blame => n \in mine' \cup blame'
        BY <2>1, <3>2
      <4>2. live'[n] = live[n] \/ n \in blame'
        BY <2>1
      <4> QED  BY <2>4, <4>1, <4>2, SettledStays
    <3>3. CASE n = Head1[2] /\ n \in mine
      <4>1. CASE cmd.goal[n] = cmd.held[n]
        BY <2>4, <4>1 DEF Settled
      <4>2. CASE n \in mine'
        BY <2>1, <2>4, <4>2, SettledStays
      <4>3. CASE n \notin mine' /\ cmd.goal[n] = None /\ cmd.goal[n] # cmd.held[n]
        <5>1. Head1[1] = "add-json"
          BY <2>2, <2>3, <3>3, <4>3, Apiece
        <5>2. Head1[3] = cmd.goal[n]
          <6>1. Head1 = cmd.todo[1] /\ 1 \in DOMAIN cmd.todo
            BY <2>2, Heads DEF TypeInv
          <6> QED  BY <2>1, <3>3, <5>1, <6>1 DEF Leads, ServerSteps
        <5> QED  BY <2>3, <3>3, <4>3, <5>2
      <4> QED  BY <2>4, <4>1, <4>2, <4>3 DEF Settled
    <3> QED  BY <3>1, <3>2, <3>3
  <2>5. CASE Skip("look")
    <3>1. Becomes("look", Tail(cmd.todo), cmd.held, cmd.late)
      BY <2>2, <2>5, <1>0, Skipping DEF Steps
    <3> QED  BY <2>1, <2>2, <2>3, <2>4, <3>1, LeadsRest DEF Becomes, ServerSteps
  <2>6. CASE Goto("verify")
    <3>1. Becomes("verify", cmd.todo, cmd.held, cmd.late)
      BY <2>6, <1>0, Going DEF Steps
    <3> QED  BY <2>1, <2>4, <3>1, LeadsFrame DEF Becomes, ServerSteps
  <2> QED  BY <2>1, <2>5, <2>6
<1>11. CASE Verify
  <2>1. cmd.at = "verify" /\ cmd.todo # << >> /\ UNCHANGED <<live, mine, blame>> /\ (Ends \/ Skip("look"))
    BY <1>11 DEF Verify, At, Inside, prodVars, histVars, TypeInv, TypeOK
  <2>2. cmd.held[Head1[2]] = Head1[3]
    BY <2>1 DEF Memory
  <2>3. CASE Skip("look")
    <3>1. Becomes("look", Tail(cmd.todo), cmd.held, cmd.late)
      BY <2>1, <2>3, <1>0, Skipping DEF Steps
    <3>2. \A n \in Servers : Settled(n) => Settled(n)'
      BY <2>1, <3>1 DEF Settled, Becomes
    <3> QED  BY <2>1, <2>2, <3>1, <3>2, LeadsRest DEF Becomes, ServerSteps
  <2> QED  BY <2>1, <2>3, <1>b
<1>12. CASE Recheck
  <2>1. cmd'.at \in {"idle", "record"}
    BY <1>12, <1>0, HandIdle, Going DEF Recheck, Becomes, Steps
  <2> QED  BY <2>1, <1>a DEF PluginSteps, ServerSteps
<1>13. CASE Finish \/ Adopt \/ Release \/ Crash
  BY <1>13, <1>b DEF Finish, Adopt, Release, Crash
<1> QED  BY <1>1, <1>2, <1>3, <1>4, <1>5, <1>6, <1>7, <1>8, <1>9, <1>10, <1>11, <1>12, <1>13
         DEF Next, Registers, Hands

-----------------------------------------------------------------------------
(* The ownership in memory, and what was looked at.                        *)

LEMMA MemoryStep ==
  ASSUME TypeInv, Memory, [Next]_vars
  PROVE  Memory'
<1>0. cmd \in Jobs /\ cmd.at \in Steps
  BY DEF TypeInv, InHand, Jobs
<1>a. cmd'.at \notin PluginSteps \cup ServerSteps => Memory'
  BY DEF Memory, PluginSteps, ServerSteps
<1>b. Ends => Memory'
  BY <1>a, HandIdle DEF PluginSteps, ServerSteps
\* A step between others keeps both ownerships.
<1>c. ASSUME cmd.at \in PluginSteps \cup ServerSteps, cmd.at # "write", owned' = owned,
             cmd'.held = cmd.held, cmd'.at \notin {"write", "verify"}
      PROVE  Memory'
  BY <1>c DEF Memory, Pending
<1>1. CASE \/ Edit \/ EditPlugins \/ UNCHANGED vars
           \/ \E n \in Servers, e \in Entries : EditEntry(n, e)
  <2>1. owned' = owned /\ cmd'.at = cmd.at /\ cmd'.todo = cmd.todo /\ cmd'.held = cmd.held
    BY <1>1, <1>0 DEF Edit, EditPlugins, EditEntry, recVars, vars, Jobs
  <2> QED  BY <2>1 DEF Memory, Pending, Head1
<1>2. CASE \/ Review("adopt", Adoptable)
           \/ \E names \in SUBSET Releasable : Review("release", names)
  <2>1. cmd'.at \in {"adopt", "release"}
    <3>1. PICK w \in {"adopt", "release"} : \E names : Review(w, names)
      BY <1>2
    <3> QED  BY <3>1, Idling DEF Review, Jobs
  <2> QED  BY <2>1, <1>a DEF PluginSteps, ServerSteps
<1>3. CASE Start
  <2>1. cmd'.at = "preflight" /\ cmd'.held = owned /\ owned' = owned
    BY <1>3 DEF Start, recVars, Idle
  <2> QED  BY <2>1 DEF Memory
<1>4. CASE Preflight \/ RunPlugin \/ RecordPlugins
  <2>1. cmd.at \in PluginSteps /\ owned' = owned /\ (Ends \/ \E w \in {"plugins", "look"} : Goto(w) \/ Skip(w))
    BY <1>4, PluginOutcome DEF Preflight, RecordPlugins, At, Inside, recVars, PluginSteps
  <2>2. ASSUME NEW w \in {"plugins", "look"}, Goto(w) \/ Skip(w)
        PROVE  Memory'
    <3>1. cmd'.at = w /\ cmd'.held = cmd.held
      BY <2>2, <1>0 DEF Goto, Skip, Jobs
    <3> QED  BY <2>1, <3>1, <1>c DEF PluginSteps
  <2> QED  BY <2>1, <2>2, <1>b
<1>5. CASE Look
  <2>1. cmd.at = "look" /\ cmd.todo # << >> /\ owned' = owned
    BY <1>5 DEF Look, At, Inside, recVars
  <2>2. Head1 \in ServerOrders /\ Head1[2] \in Servers
    BY <2>1, Heads, Apiece DEF TypeInv, ServerSteps
  <2>3. CASE Head1[1] = "remove" /\ cmd' = [cmd EXCEPT !.at = "write", !.held[Head1[2]] = None]
    <3>1. /\ cmd'.todo = cmd.todo /\ cmd'.at = "write" /\ cmd'.held[Head1[2]] = None
          /\ \A n \in Servers : n # Head1[2] => cmd'.held[n] = cmd.held[n]
      BY <2>2, <2>3, <1>0 DEF Jobs, Ownership
    <3>2. Head1[3] = None
      BY <2>2, <2>3, Apiece
    <3>3. Head1' = Head1
      BY <3>1 DEF Head1
    <3>4. \A n \in Servers : cmd.held[n] = owned[n]
      BY <2>1 DEF Memory, Pending, ServerSteps
    <3> QED  BY <2>1, <3>1, <3>2, <3>3, <3>4 DEF Memory, Pending
  <2>4. CASE cmd' = [cmd EXCEPT !.at = "act", !.late = FALSE]
    <3>1. cmd'.held = cmd.held /\ cmd'.at = "act"
      BY <2>4, <1>0 DEF Jobs
    <3> QED  BY <2>1, <3>1, <1>c DEF ServerSteps
  <2> QED  BY <1>5, <2>3, <2>4, <1>b DEF Look
<1>6. CASE Act
  <2>1. cmd.at = "act" /\ owned' = owned /\ (Takes(Head1) \/ Untaken) /\ (Ends \/ Done)
    BY <1>6, ActOutcome DEF At, recVars
  <2>2. Head1[2] \in Servers
    BY <2>1, ServerTaken DEF At
  <2>3. CASE Done
    <3>1. /\ cmd'.todo = cmd.todo /\ cmd'.at = "write" /\ cmd'.held[Head1[2]] = Head1[3]
          /\ \A n \in Servers : n # Head1[2] => cmd'.held[n] = cmd.held[n]
      BY <2>2, <2>3, <1>0 DEF Done, Jobs, Ownership
    <3>2. Head1' = Head1
      BY <3>1 DEF Head1
    <3>3. \A n \in Servers : cmd.held[n] = owned[n]
      BY <2>1 DEF Memory, Pending, ServerSteps
    <3> QED  BY <2>1, <3>1, <3>2, <3>3 DEF Memory, Pending
  <2> QED  BY <2>1, <2>3, <1>b
<1>7. CASE Write
  <2>1. /\ cmd.at = "write" /\ owned' = cmd.held /\ cmd.held[Head1[2]] = Head1[3]
        /\ Skip("look") \/ Goto("verify")
    BY <1>7 DEF Write, At, Checkpoint, Memory
  <2>2. CASE Skip("look")
    <3>1. cmd'.at = "look" /\ cmd'.held = cmd.held
      BY <2>2, <1>0 DEF Skip, Jobs
    <3> QED  BY <2>1, <3>1 DEF Memory
  <2>3. CASE Goto("verify")
    <3>1. cmd'.at = "verify" /\ cmd'.held = cmd.held /\ cmd'.todo = cmd.todo
      BY <2>3, <1>0 DEF Goto, Jobs
    <3>2. Head1' = Head1
      BY <3>1 DEF Head1
    <3> QED  BY <2>1, <3>1, <3>2 DEF Memory
  <2> QED  BY <2>1, <2>2, <2>3
<1>8. CASE Verify
  <2>1. cmd.at = "verify" /\ owned' = owned /\ (Ends \/ Skip("look"))
    BY <1>8 DEF Verify, At, Inside, recVars
  <2>2. CASE Skip("look")
    <3>1. cmd'.at = "look" /\ cmd'.held = cmd.held
      BY <2>2, <1>0 DEF Skip, Jobs
    <3> QED  BY <2>1, <3>1, <1>c DEF ServerSteps
  <2> QED  BY <2>1, <2>2, <1>b
<1>9. CASE Recheck
  <2>1. cmd'.at \in {"idle", "record"}
    BY <1>9, <1>0, HandIdle, Going DEF Recheck, Becomes, Steps
  <2> QED  BY <2>1, <1>a DEF PluginSteps, ServerSteps
<1>10. CASE Finish \/ Adopt \/ Release \/ Crash
  BY <1>10, <1>b DEF Finish, Adopt, Release, Crash
<1> QED  BY <1>1, <1>2, <1>3, <1>4, <1>5, <1>6, <1>7, <1>8, <1>9, <1>10 DEF Next, Registers, Hands

LEMMA LookedStep ==
  ASSUME TypeInv, Looked, [Next]_vars
  PROVE  Looked'
<1>0. cmd \in Jobs /\ cmd.at \in Steps
  BY DEF TypeInv, InHand, Jobs
<1>a. cmd'.at \notin {"act", "record"} => Looked'
  BY DEF Looked
<1>b. Ends => Looked'
  BY <1>a, HandIdle
<1>1. CASE Edit \/ EditPlugins \/ UNCHANGED vars
  <2>1. UNCHANGED <<cmd, live, blame>>
    BY <1>1 DEF Edit, EditPlugins, prodVars, histVars, vars
  <2> QED  BY <2>1 DEF Looked, Fits, Head1
<1>2. CASE \E n \in Servers, e \in Entries : EditEntry(n, e)
  <2>1. PICK m \in Servers, e \in Entries : EditEntry(m, e)
    BY <1>2
  <2>2. /\ cmd'.at = cmd.at /\ cmd'.todo = cmd.todo /\ cmd'.goal = cmd.goal /\ cmd'.held = cmd.held
        /\ cmd'.names = cmd.names /\ cmd'.late = (cmd.late \/ (cmd.at = "act" /\ Head1[2] = m))
    BY <2>1, <1>0 DEF EditEntry, Jobs
  <2>3. blame' = blame \cup {m} /\ \A n \in Servers : n # m => live'[n] = live[n]
    BY <2>1 DEF EditEntry, TypeInv, TypeOK
  <2>4. ASSUME cmd'.at = "act", ~cmd'.late
        PROVE  Fits(Head1[2])'
    <3>1. Head1[2] # m /\ Fits(Head1[2]) /\ Head1' = Head1
      BY <2>2, <2>4 DEF Looked, Head1
    <3>2. Head1[2] \in Servers
      <4>1. cmd.todo # << >>
        BY <2>2, <2>4 DEF TypeInv, TypeOK
      <4> QED  BY <2>2, <2>4, <4>1, Heads, Apiece DEF TypeInv, ServerSteps
    <3> QED  BY <2>2, <2>3, <3>1, <3>2 DEF Fits
  <2>5. ASSUME cmd'.at = "record", NEW n \in cmd'.names \cap Servers
        PROVE  n \in blame' \/ live'[n] = cmd'.goal[n]
    BY <2>2, <2>3, <2>5 DEF Looked
  <2> QED  BY <2>4, <2>5 DEF Looked
<1>3. CASE \/ Review("adopt", Adoptable)
           \/ \E names \in SUBSET Releasable : Review("release", names)
  <2>1. cmd'.at \in {"adopt", "release"}
    <3>1. PICK w \in {"adopt", "release"} : \E names : Review(w, names)
      BY <1>3
    <3> QED  BY <3>1, Idling DEF Review, Jobs
  <2> QED  BY <2>1, <1>a
<1>4. CASE Start
  <2>1. cmd'.at = "preflight"
    BY <1>4 DEF Start, Idle
  <2> QED  BY <2>1, <1>a
<1>5. CASE Preflight \/ RunPlugin \/ RecordPlugins \/ Write \/ Verify
  <2>1. Ends \/ \E w \in {"plugins", "look", "verify"} : Goto(w) \/ Skip(w)
    BY <1>5, PluginOutcome DEF Preflight, RecordPlugins, Write, Verify
  <2>2. ASSUME NEW w \in {"plugins", "look", "verify"}, Goto(w) \/ Skip(w)
        PROVE  Looked'
    <3>1. cmd'.at = w
      BY <2>2, <1>0 DEF Goto, Skip, Jobs
    <3> QED  BY <3>1, <1>a
  <2> QED  BY <2>1, <2>2, <1>b
<1>6. CASE Look
  <2>1. cmd' = [cmd EXCEPT !.at = "write", !.held[Head1[2]] = None] => cmd'.at = "write"
    BY <1>0 DEF Jobs
  <2>2. CASE Fits(Head1[2]) /\ cmd' = [cmd EXCEPT !.at = "act", !.late = FALSE]
    <3>1. cmd'.at = "act" /\ cmd'.todo = cmd.todo /\ cmd'.held = cmd.held
      BY <2>2, <1>0 DEF Jobs
    <3>2. Head1' = Head1 /\ live' = live
      BY <1>6, <3>1 DEF Head1, Look, Inside, prodVars
    <3> QED  BY <2>2, <3>1, <3>2 DEF Looked, Fits
  <2> QED  BY <1>6, <2>1, <2>2, <1>a, <1>b DEF Look
<1>7. CASE Act
  <2>1. Ends \/ Done
    BY <1>7, ActOutcome
  <2>2. Done => cmd'.at = "write"
    BY <1>0 DEF Done, Jobs
  <2> QED  BY <2>1, <2>2, <1>a, <1>b
<1>8. CASE Recheck
  <2>1. CASE cmd.names \subseteq Adoptable /\ want = cmd.goal /\ Goto("record")
    <3>1. cmd'.at = "record" /\ cmd'.names = cmd.names /\ cmd'.goal = cmd.goal
      BY <2>1, <1>0 DEF Goto, Jobs
    <3>2. live' = live
      BY <1>8 DEF Recheck, Inside, prodVars
    <3>3. \A n \in cmd.names : live[n] = cmd.goal[n]
      BY <2>1 DEF Adoptable
    <3> QED  BY <3>1, <3>2, <3>3 DEF Looked
  <2> QED  BY <1>8, <2>1, <1>b DEF Recheck
<1>9. CASE Finish \/ Adopt \/ Release \/ Crash
  BY <1>9, <1>b DEF Finish, Adopt, Release, Crash
<1> QED  BY <1>1, <1>2, <1>3, <1>4, <1>5, <1>6, <1>7, <1>8, <1>9 DEF Next, Registers, Hands

-----------------------------------------------------------------------------
(* Whose the entries are.                                                  *)

(* Where nothing changes that concerns the entries.                        *)
LEMMA OwnersFrame ==
  ASSUME Known, Foreigners, UNCHANGED <<live, owned, mine>>, blame \subseteq blame',
         \/ cmd.at # "write" /\ cmd'.at # "write"
         \/ cmd'.at = cmd.at /\ cmd'.todo = cmd.todo /\ cmd'.held = cmd.held
  PROVE  (Known /\ Foreigners)'
<1>1. \A n \in Servers : Pending(n)' = Pending(n)
  BY DEF Pending, Head1
<1>2. \A n \in Servers : Pending(n) => cmd'.held = cmd.held
  BY DEF Pending
<1>3. Known'
  BY <1>1, <1>2 DEF Known
<1>4. Foreigners'
  BY DEF Foreigners
<1> QED  BY <1>3, <1>4

(* Where the command is over.                                              *)
LEMMA OwnersEnd ==
  ASSUME Ends, \A n \in Servers : live'[n] # None /\ n \notin mine' \cup blame' => owned'[n] = live'[n],
         \A n \in mine' : live'[n] # None /\ live'[n] # owned'[n]
  PROVE  (Known /\ Foreigners)'
BY HandIdle DEF Known, Foreigners, Pending

LEMMA OwnersStep ==
  ASSUME Inv, [Next]_vars
  PROVE  (Known /\ Foreigners)'
<1>0. /\ cmd \in Jobs /\ cmd.at \in Steps /\ TypeInv /\ Known /\ Foreigners /\ mine \subseteq Servers
      /\ live \in [Servers -> Entries]
  BY DEF Inv, TypeInv, TypeOK, InHand, Jobs
<1>1. CASE Edit \/ EditPlugins \/ UNCHANGED vars
  <2>1. UNCHANGED <<cmd, live, owned, mine, blame>>
    BY <1>1 DEF Edit, EditPlugins, prodVars, recVars, histVars, vars
  <2> QED  BY <2>1, <1>0, OwnersFrame
<1>2. CASE \E n \in Servers, e \in Entries : EditEntry(n, e)
  <2>1. PICK m \in Servers, e \in Entries : EditEntry(m, e)
    BY <1>2
  <2>2. /\ cmd'.at = cmd.at /\ cmd'.todo = cmd.todo /\ cmd'.held = cmd.held
    BY <2>1, <1>0 DEF EditEntry, Jobs
  <2>3. /\ blame' = blame \cup {m} /\ owned' = owned /\ live'[m] = e
        /\ \A n \in Servers : n # m => live'[n] = live[n]
        /\ mine' = IF e \in {None, owned[m]} THEN mine \ {m} ELSE mine \cup {m}
    BY <2>1 DEF EditEntry, recVars, TypeInv, TypeOK, Inv
  <2>4. \A n \in Servers : Pending(n)' = Pending(n)
    BY <2>2 DEF Pending, Head1
  <2>5. Known'
    <3> SUFFICES ASSUME NEW n \in Servers, live'[n] # None, n \notin mine' \cup blame'
                 PROVE  live'[n] = IF Pending(n)' THEN cmd'.held[n] ELSE owned'[n]
      BY DEF Known
    <3>1. n # m /\ n \notin mine \cup blame
      BY <2>3
    <3> QED  BY <3>1, <2>2, <2>3, <2>4, <1>0 DEF Known
  <2>6. Foreigners'
    BY <2>3, <1>0 DEF Foreigners
  <2> QED  BY <2>5, <2>6
<1>3. CASE \/ Review("adopt", Adoptable)
           \/ \E names \in SUBSET Releasable : Review("release", names)
  <2>1. PICK w \in {"adopt", "release"} : \E names : Review(w, names)
    BY <1>3
  <2>2. cmd.at = "idle" /\ UNCHANGED <<live, owned, mine, blame>> /\ cmd'.at = w
    BY <2>1, Idling DEF Review, At, prodVars, recVars, histVars, Jobs
  <2> QED  BY <2>2, <1>0, OwnersFrame
<1>4. CASE Start
  <2>1. /\ cmd.at = "idle" /\ UNCHANGED <<live, owned, mine>> /\ cmd'.at = "preflight"
        /\ blame' = {n \in blame : live[n] # owned[n]}
    BY <1>4 DEF Start, At, prodVars, recVars, Idle
  <2>2. \A n \in Servers : live[n] # None /\ n \notin mine \cup blame' => owned[n] = live[n]
    BY <2>1, <1>0 DEF Known, Pending
  <2> QED  BY <2>1, <2>2, <1>0 DEF Known, Foreigners, Pending
<1>5. CASE Preflight \/ RecordPlugins \/ Look \/ Verify \/ Recheck
  <2>1. cmd.at # "write" /\ UNCHANGED <<live, owned, mine, blame>>
    BY <1>5 DEF Preflight, RecordPlugins, Look, Verify, Recheck, At, Inside, prodVars, recVars, histVars
  <2>2. CASE cmd'.at = "write"
    <3>1. cmd' = [cmd EXCEPT !.at = "write", !.held[Head1[2]] = None] /\ live[Head1[2]] = None
      <4>1. \A w \in Steps : Goto(w) \/ Skip(w) => cmd'.at = w
        BY <1>0 DEF Goto, Skip, Jobs
      <4>2. Ends => cmd'.at = "idle"
        BY HandIdle
      <4>3. cmd' = [cmd EXCEPT !.at = "act", !.late = FALSE] => cmd'.at = "act"
        BY <1>0 DEF Jobs
      <4>4. Look
        BY <1>5, <2>2, <4>1, <4>2 DEF Preflight, RecordPlugins, Verify, Recheck, Steps
      <4> QED  BY <2>2, <4>2, <4>3, <4>4 DEF Look
    <3>2. cmd'.todo = cmd.todo
      BY <3>1, <1>0 DEF Jobs
    <3>3. \A n \in Servers : live[n] # None => ~Pending(n)'
      BY <3>1, <3>2 DEF Pending, Head1
    <3> QED  BY <2>1, <3>3, <1>0 DEF Known, Foreigners, Pending
  <2> QED  BY <2>1, <2>2, <1>0, OwnersFrame
<1>6. CASE RunPlugin
  <2>1. /\ cmd.at = "plugins" /\ NextIsPlugin /\ (Takes(Head1) \/ Untaken) /\ owned' = owned
        /\ blame \subseteq blame'
    BY <1>0, <1>6, PluginOutcome DEF At, recVars
  <2>2. UNCHANGED <<live, mine>>
    BY <2>1, <1>0, PluginTaken
  <2>3. cmd'.at # "write"
    <3>1. Ends \/ Skip("plugins")
      BY <1>0, <1>6, PluginOutcome
    <3> QED  BY <3>1, <1>0, HandIdle DEF Skip, Jobs
  <2> QED  BY <2>1, <2>2, <2>3, <1>0, OwnersFrame
<1>7. CASE Act
  <2>1. /\ cmd.at = "act" /\ owned' = owned
        /\ \/ Takes(Head1) /\ Done /\ UNCHANGED blame
           \/ Untaken /\ Satisfied(Head1) /\ Done /\ UNCHANGED blame
           \/ Untaken /\ Ends /\ UNCHANGED blame
           \/ Takes(Head1) /\ Ends /\ blame' = blame \cup ({Head1[2]} \cap Servers)
    BY <1>0, <1>7, ActOutcome DEF At, recVars
  <2>2. PICK m \in Servers : m = Head1[2]
    BY <2>1, <1>0, ServerTaken DEF At
  <2>3. \A n \in Servers : live[n] # None /\ n \notin mine \cup blame => owned[n] = live[n]
    BY <2>1, <1>0 DEF Known, Pending
  <2>4. Takes(Head1) => live' = [live EXCEPT ![m] = Head1[3]] /\ mine' = mine \ {m}
    <3>1. Takes(Head1) => Head1[1] \in {"remove", "add-json"}
      BY <2>1, <1>0, ServerTaken DEF At
    <3> QED  BY <3>1, <2>2 DEF Takes
  <2>5. Untaken => live' = live /\ mine' = mine
    BY DEF Untaken, prodVars
  <2>6. Foreigners'
    BY <2>1, <2>4, <2>5, <1>0 DEF Foreigners
  <2>7. \A n \in Servers : n # m => live'[n] = live[n]
    BY <2>1, <2>4, <2>5, <1>0
  <2>8. CASE Ends
    <3>1. \A n \in Servers : live'[n] # None /\ n \notin mine' \cup blame' => owned'[n] = live'[n]
      <4>1. CASE Untaken /\ UNCHANGED blame
        BY <4>1, <2>1, <2>3, <2>5
      <4>2. CASE Takes(Head1) /\ blame' = blame \cup ({Head1[2]} \cap Servers)
        BY <4>2, <2>1, <2>2, <2>3, <2>4, <2>7
      <4>3. ~Done
        <5>1. Done => cmd'.at = "write"
          BY <1>0 DEF Done, Jobs
        <5> QED  BY <5>1, <2>8, HandIdle
      <4> QED  BY <2>1, <4>1, <4>2, <4>3
    <3> QED  BY <3>1, <2>6, <2>8, HandIdle DEF Known, Foreigners, Pending
  <2>9. CASE Done /\ UNCHANGED blame /\ (Takes(Head1) \/ (Untaken /\ Satisfied(Head1)))
    <3>1. cmd'.at = "write" /\ cmd'.todo = cmd.todo /\ cmd'.held[m] = Head1[3]
      BY <2>2, <2>9, <1>0 DEF Done, Jobs, Ownership
    <3>2. Pending(m)'
      BY <2>2, <3>1 DEF Pending, Head1
    <3>3. live'[m] = None \/ live'[m] = cmd'.held[m]
      <4>1. CASE Takes(Head1)
        BY <4>1, <2>4, <3>1, <1>0
      <4>2. CASE Satisfied(Head1)
        <5>1. Head1[1] \in {"remove", "add-json"}
          BY <2>1, <1>0, ServerTaken DEF At
        <5> QED  BY <2>2, <4>2, <5>1 DEF Satisfied
      <4> QED  BY <2>9, <4>1, <4>2
    <3>4. \A n \in Servers : n # m /\ live'[n] # None /\ n \notin mine' \cup blame' => owned'[n] = live'[n]
      BY <2>1, <2>3, <2>4, <2>5, <2>7, <2>9
    <3>5. \A n \in Servers : n # m => ~Pending(n)'
      BY <2>2, <3>1 DEF Pending, Head1
    <3>6. Known'
      BY <3>2, <3>3, <3>4, <3>5 DEF Known
    <3> QED  BY <2>6, <3>6
  <2> QED  BY <2>1, <2>8, <2>9
<1>8. CASE Write
  <2>1. /\ cmd.at = "write" /\ owned' = cmd.held /\ mine' = {n \in mine : live[n] # owned'[n]}
        /\ UNCHANGED <<live, blame>> /\ cmd'.at # "write"
    <3>1. cmd'.at # "write"
      BY <1>8, <1>0 DEF Write, Skip, Goto, Jobs
    <3> QED  BY <1>8, <3>1 DEF Write, At, prodVars, Checkpoint
  <2>2. \A n \in Servers : n # Head1[2] => cmd.held[n] = owned[n]
    BY <2>1 DEF Inv, Memory, Pending, ServerSteps
  <2>3. \A n \in Servers : live[n] # None /\ n \notin mine \cup blame => cmd.held[n] = live[n]
    BY <2>1, <2>2, <1>0 DEF Known, Pending
  <2>4. Known'
    BY <2>1, <2>3 DEF Known, Pending
  <2>5. Foreigners'
    BY <2>1, <1>0 DEF Foreigners
  <2> QED  BY <2>4, <2>5
<1>9. CASE Finish
  <2>1. /\ cmd.at = "look" /\ cmd.todo = << >> /\ owned' = cmd.goal /\ Ends
        /\ UNCHANGED <<live, mine, blame>>
    BY <1>9 DEF Finish, At, prodVars, histVars
  <2>2. \A n \in Servers : cmd.held[n] = owned[n]
    BY <2>1 DEF Inv, Memory, Pending, ServerSteps
  <2>3. \A n \in Servers : Settled(n)
    <3>1. DOMAIN cmd.todo = {}
      BY <2>1
    <3> QED  BY <2>1, <3>1 DEF Inv, Leads, Ordered, ServerSteps
  <2>4. \A n \in Servers : live[n] # None /\ n \notin mine \cup blame => cmd.goal[n] = live[n]
    BY <2>1, <2>2, <2>3, <1>0 DEF Known, Pending, Settled
  <2>5. \A n \in mine : live[n] # None /\ live[n] # cmd.goal[n]
    BY <2>2, <2>3, <1>0 DEF Foreigners, Settled
  <2> QED  BY <2>1, <2>4, <2>5, OwnersEnd
<1>10. CASE Adopt
  <2>1. /\ cmd.at = "record" /\ Ends /\ UNCHANGED <<live, blame>>
        /\ owned' = [n \in Servers |-> IF n \in cmd.names THEN cmd.goal[n] ELSE owned[n]]
        /\ mine' = {n \in mine : live[n] # owned'[n]}
    BY <1>10 DEF Adopt, At, prodVars
  <2>2. \A n \in cmd.names \cap Servers : n \in blame \/ live[n] = cmd.goal[n]
    BY <2>1 DEF Inv, Looked
  <2>3. \A n \in Servers : live[n] # None /\ n \notin mine' \cup blame => owned'[n] = live[n]
    BY <2>1, <2>2, <1>0 DEF Known, Pending
  <2>4. \A n \in mine' : live[n] # None /\ live[n] # owned'[n]
    BY <2>1, <1>0 DEF Foreigners
  <2> QED  BY <2>1, <2>3, <2>4, OwnersEnd
<1>11. CASE Release
  <2>1. /\ cmd.at = "release" /\ Ends /\ UNCHANGED live /\ blame' = blame \cup cmd.names
        /\ owned' = [n \in Servers |-> IF n \in cmd.names THEN None ELSE owned[n]]
        /\ mine' = mine \cup {n \in cmd.names : live[n] # None}
    BY <1>11 DEF Release, At, prodVars
  <2>2. cmd.names \subseteq Servers
    BY <2>1 DEF Inv, InHand
  <2>3. \A n \in Servers : live[n] # None /\ n \notin mine' \cup blame' => owned'[n] = live[n]
    BY <2>1, <1>0 DEF Known, Pending
  <2>4. \A n \in mine' : live[n] # None /\ live[n] # owned'[n]
    BY <2>1, <2>2, <1>0 DEF Foreigners
  <2> QED  BY <2>1, <2>3, <2>4, OwnersEnd
<1>12. CASE Crash
  <2>1. /\ Ends /\ UNCHANGED <<live, owned, mine>>
        /\ blame' = IF At("write") THEN blame \cup {Head1[2]} ELSE blame
    BY <1>12 DEF Crash, prodVars, recVars
  <2>2. \A n \in Servers : live[n] # None /\ n \notin mine \cup blame' => owned[n] = live[n]
    BY <2>1, <1>0 DEF Known, Pending, At
  <2> QED  BY <2>1, <2>2, <1>0, OwnersEnd DEF Foreigners
<1> QED  BY <1>1, <1>2, <1>3, <1>4, <1>5, <1>6, <1>7, <1>8, <1>9, <1>10, <1>11, <1>12
         DEF Next, Registers, Hands

-----------------------------------------------------------------------------
LEMMA InvInit == Init => Inv
<1> SUFFICES ASSUME Init PROVE Inv
  OBVIOUS
<1>1. TypeInv
  BY TypeInit
<1>2. cmd.at = "idle" /\ owned = Nothing /\ installed = {} /\ mine = {n \in Servers : live[n] # None}
  BY Idling DEF Init
<1>3. Leads /\ Memory /\ Looked /\ PluginsFound
  BY <1>2 DEF Leads, Memory, Looked, PluginsFound, PluginSteps, ServerSteps
<1>4. Known /\ Foreigners
  BY <1>2 DEF Known, Foreigners, Nothing
<1> QED  BY <1>1, <1>3, <1>4 DEF Inv, TypeInv

LEMMA InvStep == Inv /\ [Next]_vars => Inv'
<1> SUFFICES ASSUME Inv, [Next]_vars PROVE Inv'
  OBVIOUS
<1>1. TypeInv /\ Leads /\ Memory /\ Known /\ Foreigners /\ Looked /\ PluginsFound
  BY DEF Inv, TypeInv
<1>2. TypeInv'
  BY <1>1, TypeStep
<1>3. Leads' /\ Memory' /\ Looked' /\ PluginsFound'
  BY <1>1, LeadsStep, MemoryStep, LookedStep, PluginsStep
<1>4. (Known /\ Foreigners)'
  BY OwnersStep
<1> QED  BY <1>2, <1>3, <1>4 DEF Inv, TypeInv

LEMMA Invariant == Spec => []Inv
BY InvInit, InvStep, PTL DEF Spec

(* Every variable keeps its type: the lists of server and Plugin commands  *)
(* are well formed, and names and source of the Plugin record come and go  *)
(* together.                                                               *)
THEOREM TypeCorrect == Spec => []TypeOK
<1>1. Inv => TypeOK
  BY DEF Inv
<1> QED  BY <1>1, Invariant, PTL

(* What the bridge has put into the product is on its records, up to what  *)
(* a command did not get to record or somebody else touched: deselection   *)
(* finds it.                                                               *)
THEOREM AccountedCorrect == Spec => []Accounted
<1>1. Inv => Accounted
  BY DEF Inv, Accounted, Known, Pending, PluginsFound, At
<1> QED  BY <1>1, Invariant, PTL

LEMMA KeptStep ==
  ASSUME Inv, [Next]_vars, meddle' = meddle, NEW n \in mine
  PROVE  live'[n] = live[n] \/ cmd.late
<1>0. cmd \in Jobs /\ TypeInv /\ n \in Servers /\ meddle \in Nat
  BY DEF Inv, TypeInv, TypeOK, InHand
<1>1. CASE Act
  <2>1. cmd.at = "act" /\ (Takes(Head1) \/ Untaken)
    BY <1>0, <1>1, ActOutcome DEF At
  <2>2. /\ Head1[2] \in Servers /\ Head1[1] \in {"remove", "add-json"}
        /\ live' = live \/ live' = [live EXCEPT ![Head1[2]] = Head1[3]]
    BY <2>1, <1>0, ServerTaken DEF At
  <2>3. ~cmd.late => Head1[2] \notin mine
    <3> SUFFICES ASSUME ~cmd.late, Head1[2] \in mine PROVE FALSE
      OBVIOUS
    <3>1. Fits(Head1[2])
      BY <2>1 DEF Inv, Looked
    <3>2. cmd.held[Head1[2]] = owned[Head1[2]]
      BY <2>1, <2>2 DEF Inv, Memory, Pending, ServerSteps
    <3>3. live[Head1[2]] # None /\ live[Head1[2]] # owned[Head1[2]]
      BY DEF Inv, Foreigners
    <3> QED  BY <3>1, <3>2, <3>3 DEF Fits
  <2>4. CASE n # Head1[2]
    BY <2>2, <2>4, <1>0 DEF TypeInv, TypeOK
  <2>5. CASE n = Head1[2] /\ ~cmd.late
    BY <2>3, <2>5
  <2>6. cmd.late \in BOOLEAN
    BY <1>0 DEF Jobs
  <2> QED  BY <2>4, <2>5, <2>6
<1>2. CASE RunPlugin
  BY <1>0, <1>2, PluginOutcome, PluginTaken
<1>3. CASE \E m \in Servers, e \in Entries : EditEntry(m, e)
  BY <1>0, <1>3 DEF EditEntry, Meddles
<1>4. CASE Edit \/ EditPlugins \/ Review("adopt", Adoptable)
           \/ (\E names \in SUBSET Releasable : Review("release", names)) \/ UNCHANGED vars
  <2>1. CASE \E w, names : Review(w, names)
    BY <2>1 DEF Review, prodVars
  <2>2. CASE Edit \/ EditPlugins \/ UNCHANGED vars
    BY <2>2 DEF Edit, EditPlugins, prodVars, vars
  <2> QED  BY <1>4, <2>1, <2>2
<1>5. CASE Start \/ Preflight \/ RecordPlugins \/ Look \/ Write \/ Verify \/ Finish \/ Hands \/ Crash
  BY <1>5 DEF Start, Preflight, RecordPlugins, Look, Write, Verify, Finish, Hands, Recheck,
                  Adopt, Release, Crash,
              Inside, prodVars
<1> QED  BY <1>1, <1>2, <1>3, <1>4, <1>5 DEF Next, Registers

(* No command of the bridge changes or removes an entry that is the user's,*)
(* but for one that was changed after the last look at it: what was looked *)
(* at is what is on record, and the user's is not.                         *)
THEOREM UserEntriesCorrect == Spec => UserEntriesKept
<1>1. Inv /\ [Next]_vars =>
        [meddle' = meddle => \A n \in mine : live'[n] = live[n] \/ cmd.late]_vars
  BY KeptStep
<1> QED  BY <1>1, Invariant, PTL DEF Spec, UserEntriesKept
=============================================================================
