------------------------ MODULE ScheduleTick_proofs ------------------------
(* Proofs about ScheduleTick, for every set of processes, Schedules and    *)
(* snapshots and every bound.                                              *)
EXTENDS ScheduleTick, CronDue, TLAPS

States == {"unborn", "read", "claim", "next", "skipped", "done", "crashed"}
          \cup Claiming \cup Holding

(* What the locks protect: control state against lock holder.              *)
ClaimOwner == \A p \in Procs : pc[p] \in Claiming => claimLock = p
RunOwner ==
  \A p \in Procs : pc[p] \in Holding =>
    todo[p] # << >> /\ runLock[Head(todo[p])] = p
ChildOwner ==
  \A p \in Procs, s \in Schedules : p \in vendor[s] /\ pc[p] # "crashed" =>
    pc[p] = "wait" /\ Head(todo[p]) = s
OnlyTicksClaim ==
  \A p \in Procs : pc[p] \in {"claim"} \cup Claiming => p \in Ticks
Unclaimed == \A p \in Procs : pc[p] = "mark" => marker # Claim(p)
(* A process past its read holds a digest the pointer has selected.        *)
SnapKnown ==
  \A p \in Procs : pc[p] \in {"claim", "next"} \cup Claiming \cup Holding =>
    snap[p] \in Snapshots

LockInv ==
  TypeOK /\ ClaimOwner /\ RunOwner /\ ChildOwner /\ OnlyTicksClaim /\ Unclaimed /\ SnapKnown

(* Taking the first Schedule off a list shifts the others by one place.    *)
LEMMA HeadTail ==
  ASSUME NEW S, NEW q \in Seq(S), q # << >>
  PROVE  /\ Head(q) \in S
         /\ Tail(q) \in Seq(S)
         /\ Head(q) = q[1]
         /\ Len(q) \in Nat /\ Len(q) >= 1
         /\ Len(Tail(q)) = Len(q) - 1
         /\ \A i \in 1..Len(Tail(q)) : Tail(q)[i] = q[i + 1]
  OBVIOUS

(* Nothing is held and nothing runs at the start.                          *)
LEMMA InitLock == Init => LockInv
  <1> SUFFICES ASSUME Init PROVE LockInv
    OBVIOUS
  <1>1. << >> \in Seq(Schedules) /\ 0 \in Minutes /\ 0 \in 0..MaxPublish
    BY BoundAssumption DEF Minutes
  <1>2. TypeOK
    BY <1>1 DEF Init, TypeOK
  <1>3. \A p \in Procs : pc[p] = "unborn"
    BY DEF Init
  <1>4. /\ ClaimOwner /\ RunOwner /\ OnlyTicksClaim /\ Unclaimed /\ SnapKnown
    BY <1>3 DEF ClaimOwner, RunOwner, OnlyTicksClaim, Unclaimed, SnapKnown, Claiming,
                Holding
  <1>5. ChildOwner
    BY DEF Init, ChildOwner
  <1> QED BY <1>2, <1>4, <1>5 DEF LockInv

(* Every step keeps the types.                                             *)
LEMMA TypeStep ==
  ASSUME LockInv, [Next]_vars
  PROVE  TypeOK'
  <1> USE DEF envVars, lockVars, Goto, Minutes
  <1>0. /\ TypeOK /\ RunOwner /\ SnapKnown
    BY DEF LockInv
  <1>1. CASE Elapse
    BY <1>0, <1>1, BoundAssumption DEF Elapse, TypeOK
  <1>2. CASE Unpublish
    BY <1>0, <1>2, BoundAssumption DEF Unpublish, TypeOK
  <1>3. ASSUME NEW d \in Snapshots, Publish(d) PROVE TypeOK'
    <2>0. disorder' = (disorder \/ d \in everSeen)
      BY <1>3 DEF Publish
    <2>1. disorder' \in BOOLEAN
      BY <2>0, Zenon
    <2>2. moves' \in 0..MaxPublish
      <3>1. moves \in 0..MaxPublish /\ moves < MaxPublish /\ moves' = moves + 1
        BY <1>0, <1>3 DEF Publish, TypeOK
      <3> QED BY <3>1, BoundAssumption
    <2>3. published' \in Snapshots \cup {None} /\ everSeen' \subseteq Snapshots
      BY <1>0, <1>3 DEF Publish, TypeOK
    <2>4. UNCHANGED <<clock, lockVars, vendor, pc, minute, snap, todo, results, starts>>
      BY <1>3 DEF Publish
    <2> QED BY <1>0, <2>1, <2>2, <2>3, <2>4 DEF TypeOK
  <1>4. ASSUME NEW p \in Procs, StartTick(p) PROVE TypeOK'
    BY <1>0, <1>4 DEF StartTick, TypeOK
  <1>5. ASSUME NEW p \in Procs, ReadTick(p) PROVE TypeOK'
    BY <1>0, <1>5 DEF ReadTick, TypeOK
  <1>6. ASSUME NEW p \in Procs, TakeClaimLock(p) PROVE TypeOK'
    BY <1>0, <1>6 DEF TakeClaimLock, TypeOK, Claiming
  <1>7. ASSUME NEW p \in Procs, CheckMarker(p) PROVE TypeOK'
    BY <1>0, <1>7 DEF CheckMarker, TypeOK, Claiming
  <1>8. ASSUME NEW p \in Procs, WriteMarker(p) PROVE TypeOK'
    <2>1. Claim(p) \in Claims
      BY <1>0, <1>8 DEF WriteMarker, TypeOK, SnapKnown, Claiming, Claim, Claims
    <2>2. disorder' \in BOOLEAN
      BY <1>8, Zenon DEF WriteMarker
    <2> QED BY <1>0, <1>8, <2>1, <2>2 DEF WriteMarker, TypeOK, Claiming
  <1>9. ASSUME NEW p \in Procs, LeaveClaim(p) PROVE TypeOK'
    <2>1. Due[snap[p]][minute[p]] \in Seq(Schedules)
      <3>1. snap[p] \in Snapshots /\ minute[p] \in Minutes
        BY <1>0, <1>9 DEF LeaveClaim, TypeOK, SnapKnown, Claiming
      <3> QED BY <3>1, SnapshotAssumption
    <2> QED BY <1>0, <1>9, <2>1 DEF LeaveClaim, TypeOK
  <1>10. ASSUME NEW p \in Procs, ReadManual(p) PROVE TypeOK'
    <2>1. \A s \in Schedules : <<s>> \in Seq(Schedules)
      OBVIOUS
    <2>2. published # None => Named[published] \subseteq Schedules
      BY <1>0, SnapshotAssumption DEF TypeOK
    <2>3. todo' \in [Procs -> Seq(Schedules)]
      <3>1. CASE \E s \in Schedules : todo' = [todo EXCEPT ![p] = <<s>>]
        BY <1>0, <2>1, <3>1 DEF TypeOK
      <3>2. CASE UNCHANGED todo
        BY <1>0, <3>2 DEF TypeOK
      <3> QED BY <1>10, <2>2, <3>1, <3>2 DEF ReadManual
    <2> QED BY <1>0, <1>10, <2>3 DEF ReadManual, TypeOK
  <1>11. ASSUME NEW p \in Procs, Finish(p) PROVE TypeOK'
    BY <1>0, <1>11 DEF Finish, TypeOK
  <1>12. ASSUME NEW p \in Procs, SkipBusy(p) PROVE TypeOK'
    <2>1. todo[p] \in Seq(Schedules) /\ todo[p] # << >> /\ results[p] \in Seq(Schedules)
      BY <1>0, <1>12 DEF SkipBusy, TypeOK
    <2>2. /\ Append(results[p], Head(todo[p])) \in Seq(Schedules)
          /\ Tail(todo[p]) \in Seq(Schedules)
      BY <2>1, HeadTail
    <2> QED BY <1>0, <1>12, <2>2 DEF SkipBusy, Account, TypeOK
  <1>13. ASSUME NEW p \in Procs, TakeRunLock(p) PROVE TypeOK'
    BY <1>0, <1>13, HeadTail DEF TakeRunLock, TypeOK, Holding
  <1>14. ASSUME NEW p \in Procs, LaunchFails(p) PROVE TypeOK'
    BY <1>0, <1>14 DEF LaunchFails, TypeOK, Holding
  <1>15. ASSUME NEW p \in Procs, Launch(p) PROVE TypeOK'
    <2>1. /\ Head(todo[p]) \in Schedules /\ snap[p] \in Snapshots
          /\ minute[p] \in 0..MaxMinute
      BY <1>0, <1>15, HeadTail DEF Launch, TypeOK, RunOwner, SnapKnown, Holding
    <2>2. starts' \in [Minutes -> [Snapshots -> [Schedules -> Nat]]]
      BY <1>0, <1>15, <2>1 DEF Launch, TypeOK
    <2>3. vendor' \in [Schedules -> SUBSET Procs]
      BY <1>0, <1>15, <2>1 DEF Launch, TypeOK
    <2> QED BY <1>0, <1>15, <2>2, <2>3 DEF Launch, TypeOK, Holding
  <1>16. ASSUME NEW p \in Procs, VendorEnds(p) PROVE TypeOK'
    BY <1>0, <1>16 DEF VendorEnds, TypeOK, Holding
  <1>17. ASSUME NEW p \in Procs, ReleaseRunLock(p) PROVE TypeOK'
    <2>1. todo[p] \in Seq(Schedules) /\ todo[p] # << >> /\ results[p] \in Seq(Schedules)
      BY <1>0, <1>17 DEF ReleaseRunLock, TypeOK, RunOwner, Holding
    <2>2. /\ Append(results[p], Head(todo[p])) \in Seq(Schedules)
          /\ Tail(todo[p]) \in Seq(Schedules)
      BY <2>1, HeadTail
    <2> QED BY <1>0, <1>17, <2>2 DEF ReleaseRunLock, Account, TypeOK
  <1>18. ASSUME NEW p \in Procs, Crash(p) PROVE TypeOK'
    BY <1>0, <1>18, BoundAssumption DEF Crash, TypeOK
  <1>19. ASSUME NEW p \in Procs, NEW s \in Schedules, OrphanEnds(p, s) PROVE TypeOK'
    BY <1>0, <1>19 DEF OrphanEnds, TypeOK
  <1>20. CASE UNCHANGED vars
    BY <1>0, <1>20 DEF vars, TypeOK
  <1> QED
    BY <1>1, <1>2, <1>3, <1>4, <1>5, <1>6, <1>7, <1>8, <1>9, <1>10, <1>11, <1>12, <1>13,
       <1>14, <1>15, <1>16, <1>17, <1>18, <1>19, <1>20
    DEF Next, OwnStep, ClaimStep, RunStep

-----------------------------------------------------------------------------
Rest == ClaimOwner /\ RunOwner /\ ChildOwner /\ OnlyTicksClaim /\ Unclaimed /\ SnapKnown

(* Every step keeps control state and lock holders in agreement.           *)
LEMMA LockStep ==
  ASSUME LockInv, [Next]_vars
  PROVE  LockInv'
  <1> USE DEF envVars, lockVars, Goto, Rest, Claiming, Holding
  <1>0. /\ TypeOK /\ ClaimOwner /\ RunOwner /\ ChildOwner /\ OnlyTicksClaim
        /\ Unclaimed /\ SnapKnown
    BY DEF LockInv
  <1> USE <1>0
  <1> USE DEF ClaimOwner, RunOwner, ChildOwner, OnlyTicksClaim, Unclaimed, SnapKnown, TypeOK
  <1>t. TypeOK'
    BY TypeStep
  <1>1. ASSUME Elapse PROVE Rest'
    BY <1>1 DEF Elapse, Claim
  <1>2. ASSUME Unpublish PROVE Rest'
    BY <1>2 DEF Unpublish, Claim
  <1>3. ASSUME NEW d \in Snapshots, Publish(d) PROVE Rest'
    BY <1>3 DEF Publish, Claim
  <1>4. ASSUME NEW p \in Procs, StartTick(p) PROVE Rest'
    BY <1>4 DEF StartTick, Claim
  <1>5. ASSUME NEW p \in Procs, ReadTick(p) PROVE Rest'
    BY <1>5 DEF ReadTick, Claim
  <1>6. ASSUME NEW p \in Procs, TakeClaimLock(p) PROVE Rest'
    BY <1>6, ProcsAssumption DEF TakeClaimLock, Claim
  <1>7. ASSUME NEW p \in Procs, CheckMarker(p) PROVE Rest'
    BY <1>7, ProcsAssumption DEF CheckMarker, Claim
  <1>8. ASSUME NEW p \in Procs, WriteMarker(p) PROVE Rest'
    BY <1>8 DEF WriteMarker, Claim
  <1>9. ASSUME NEW p \in Procs, LeaveClaim(p) PROVE Rest'
    BY <1>9 DEF LeaveClaim, Claim
  <1>10. ASSUME NEW p \in Procs, ReadManual(p) PROVE Rest'
    <2>1. ClaimOwner'
      BY <1>10 DEF ReadManual, Claim
    <2>2. RunOwner'
      BY <1>10 DEF ReadManual, Claim
    <2>3. ChildOwner'
      BY <1>10 DEF ReadManual, Claim
    <2>4. OnlyTicksClaim'
      BY <1>10 DEF ReadManual, Claim
    <2>5. Unclaimed'
      BY <1>10 DEF ReadManual, Claim
    <2>6. SnapKnown'
      BY <1>10 DEF ReadManual, Claim
    <2> QED BY <2>1, <2>2, <2>3, <2>4, <2>5, <2>6
  <1>11. ASSUME NEW p \in Procs, Finish(p) PROVE Rest'
    BY <1>11 DEF Finish, Claim
  <1>12. ASSUME NEW p \in Procs, SkipBusy(p) PROVE Rest'
    BY <1>12 DEF SkipBusy, Account, Claim
  <1>13. ASSUME NEW p \in Procs, TakeRunLock(p) PROVE Rest'
    <2>1. ClaimOwner'
      BY <1>13, HeadTail, ProcsAssumption DEF TakeRunLock, Claim
    <2>2. RunOwner'
      <3>1. Head(todo[p]) \in Schedules /\ p # None
        BY <1>13, HeadTail, ProcsAssumption DEF TakeRunLock
      <3>2. ASSUME NEW q \in Procs, pc'[q] \in Holding
            PROVE  todo'[q] # << >> /\ runLock'[Head(todo'[q])] = q
        <4>1. CASE q = p
          BY <1>13, <3>1, <4>1 DEF TakeRunLock
        <4>2. CASE q # p
          <5>1. todo[q] # << >> /\ runLock[Head(todo[q])] = q /\ Head(todo[q]) \in Schedules
            BY <1>13, <3>2, <4>2, HeadTail DEF TakeRunLock
          <5>2. Head(todo[q]) # Head(todo[p])
            BY <1>13, <5>1, ProcsAssumption DEF TakeRunLock
          <5> QED BY <1>13, <3>1, <5>1, <5>2 DEF TakeRunLock
        <4> QED BY <4>1, <4>2
      <3> QED BY <3>2
    <2>3. ChildOwner'
      BY <1>13, HeadTail, ProcsAssumption DEF TakeRunLock, Claim
    <2>4. OnlyTicksClaim'
      BY <1>13, HeadTail, ProcsAssumption DEF TakeRunLock, Claim
    <2>5. Unclaimed'
      BY <1>13, HeadTail, ProcsAssumption DEF TakeRunLock, Claim
    <2>6. SnapKnown'
      BY <1>13, HeadTail, ProcsAssumption DEF TakeRunLock, Claim
    <2> QED BY <2>1, <2>2, <2>3, <2>4, <2>5, <2>6
  <1>14. ASSUME NEW p \in Procs, LaunchFails(p) PROVE Rest'
    BY <1>14 DEF LaunchFails, Claim
  <1>15. ASSUME NEW p \in Procs, Launch(p) PROVE Rest'
    <2>1. ClaimOwner'
      BY <1>15, HeadTail DEF Launch, Claim
    <2>2. RunOwner'
      BY <1>15, HeadTail DEF Launch, Claim
    <2>3. ChildOwner'
      BY <1>15, HeadTail DEF Launch, Claim
    <2>4. OnlyTicksClaim'
      BY <1>15, HeadTail DEF Launch, Claim
    <2>5. Unclaimed'
      BY <1>15, HeadTail DEF Launch, Claim
    <2>6. SnapKnown'
      BY <1>15, HeadTail DEF Launch, Claim
    <2> QED BY <2>1, <2>2, <2>3, <2>4, <2>5, <2>6
  <1>16. ASSUME NEW p \in Procs, VendorEnds(p) PROVE Rest'
    <2>1. ClaimOwner'
      BY <1>16, HeadTail DEF VendorEnds, Claim
    <2>2. RunOwner'
      BY <1>16, HeadTail DEF VendorEnds, Claim
    <2>3. ChildOwner'
      <3>1. Head(todo[p]) \in Schedules
        BY <1>16, HeadTail DEF VendorEnds
      <3>2. ASSUME NEW q \in Procs, NEW s \in Schedules, q \in vendor'[s], pc'[q] # "crashed"
            PROVE  pc'[q] = "wait" /\ Head(todo'[q]) = s
        <4>1. q \in vendor[s] /\ pc[q] = "wait" /\ Head(todo[q]) = s
          BY <1>16, <3>1, <3>2 DEF VendorEnds
        <4>2. q # p
          BY <1>16, <3>1, <3>2, <4>1 DEF VendorEnds
        <4> QED BY <1>16, <4>1, <4>2 DEF VendorEnds
      <3> QED BY <3>2
    <2>4. OnlyTicksClaim'
      BY <1>16, HeadTail DEF VendorEnds, Claim
    <2>5. Unclaimed'
      BY <1>16, HeadTail DEF VendorEnds, Claim
    <2>6. SnapKnown'
      BY <1>16, HeadTail DEF VendorEnds, Claim
    <2> QED BY <2>1, <2>2, <2>3, <2>4, <2>5, <2>6
  <1>17. ASSUME NEW p \in Procs, ReleaseRunLock(p) PROVE Rest'
    <2>1. ClaimOwner'
      BY <1>17, HeadTail DEF ReleaseRunLock, Account, Claim
    <2>2. RunOwner'
      <3>1. Head(todo[p]) \in Schedules
        BY <1>17, HeadTail DEF ReleaseRunLock
      <3>2. ASSUME NEW q \in Procs, pc'[q] \in Holding
            PROVE  todo'[q] # << >> /\ runLock'[Head(todo'[q])] = q
        <4>1. q # p /\ pc[q] \in Holding /\ todo'[q] = todo[q]
          BY <1>17, <3>2 DEF ReleaseRunLock, Account
        <4>2. todo[q] # << >> /\ runLock[Head(todo[q])] = q /\ Head(todo[q]) \in Schedules
          BY <4>1, HeadTail
        <4>3. runLock[Head(todo[p])] = p
          BY <1>17 DEF ReleaseRunLock
        <4> QED BY <1>17, <3>1, <4>1, <4>2, <4>3 DEF ReleaseRunLock
      <3> QED BY <3>2
    <2>3. ChildOwner'
      BY <1>17, HeadTail DEF ReleaseRunLock, Account, Claim
    <2>4. OnlyTicksClaim'
      BY <1>17, HeadTail DEF ReleaseRunLock, Account, Claim
    <2>5. Unclaimed'
      BY <1>17, HeadTail DEF ReleaseRunLock, Account, Claim
    <2>6. SnapKnown'
      BY <1>17, HeadTail DEF ReleaseRunLock, Account, Claim
    <2> QED BY <2>1, <2>2, <2>3, <2>4, <2>5, <2>6
  <1>18. ASSUME NEW p \in Procs, Crash(p) PROVE Rest'
    BY <1>18, HeadTail DEF Crash, Claim
  <1>19. ASSUME NEW p \in Procs, NEW s \in Schedules, OrphanEnds(p, s) PROVE Rest'
    BY <1>19 DEF OrphanEnds, Claim
  <1>20. ASSUME UNCHANGED vars PROVE Rest'
    BY <1>20 DEF vars, Claim
  <1> QED
    BY <1>t, <1>1, <1>2, <1>3, <1>4, <1>5, <1>6, <1>7, <1>8, <1>9, <1>10, <1>11, <1>12,
       <1>13, <1>14, <1>15, <1>16, <1>17, <1>18, <1>19, <1>20
    DEF Next, OwnStep, ClaimStep, RunStep, LockInv

(* The locks and control states agree in every reachable state.            *)
THEOREM LocksAgree == Spec => []LockInv
  <1>1. LockInv /\ [Next]_vars => LockInv'
    BY LockStep
  <1> QED BY InitLock, <1>1, PTL DEF Spec

(* Every variable keeps its type.                                          *)
THEOREM TypeCorrect == Spec => []TypeOK
  <1>1. LockInv => TypeOK
    BY DEF LockInv
  <1> QED BY LocksAgree, <1>1, PTL

(* No two live bridge processes supervise one Schedule name at once: both  *)
(* would hold its run lock.                                                *)
THEOREM SupervisionExclusive == Spec => []OneSupervisedRun
  <1>1. LockInv => OneSupervisedRun
    <2> SUFFICES ASSUME LockInv, NEW p \in Procs, NEW q \in Procs, NEW s \in Schedules,
                        p \in vendor[s], pc[p] # "crashed",
                        q \in vendor[s], pc[q] # "crashed"
                 PROVE  p = q
      BY DEF OneSupervisedRun
    <2>1. pc[p] = "wait" /\ Head(todo[p]) = s /\ pc[q] = "wait" /\ Head(todo[q]) = s
      BY DEF LockInv, ChildOwner
    <2> QED BY <2>1 DEF LockInv, RunOwner, Holding
  <1> QED BY LocksAgree, <1>1, PTL

(* No process writes a claim that last.json already holds: the claim lock  *)
(* keeps the marker from changing between its check and its write.         *)
THEOREM ClaimsNotRepeated == Spec => NoRepeatedClaim
  <1>1. LockInv /\ [Next]_vars
          => [\A p \in Ticks : pc[p] = "mark" /\ pc'[p] = "due" => marker # Claim(p)]_vars
    BY DEF LockInv, Unclaimed, Procs
  <1> QED BY LocksAgree, <1>1, PTL DEF Spec, NoRepeatedClaim

-----------------------------------------------------------------------------
(* At most once.  A tick owns a claim from the write of the marker until   *)
(* its end; a Schedule is pending for it until its vendor child starts.    *)

Owns(p, m, d) ==
  /\ p \in Ticks /\ pc[p] \in {"due", "next"} \cup Holding
  /\ minute[p] = m /\ snap[p] = d

Pending(p, s) ==
  \/ pc[p] = "due" /\ \E i \in 1..Len(Due[snap[p]][minute[p]]) : Due[snap[p]][minute[p]][i] = s
  \/ pc[p] \in {"next", "launch"} /\ \E i \in 1..Len(todo[p]) : todo[p][i] = s
  \/ pc[p] \in {"wait", "release"} /\ \E i \in 2..Len(todo[p]) : todo[p][i] = s

(* A claim that was made cannot be made again in order: the marker is past *)
(* it, still names it, or names its minute after the pointer moved on.     *)
Spent(m, d) ==
  /\ marker # None
  /\ \/ m < marker.minute
     \/ m = marker.minute /\ (d = marker.digest \/ (d # published /\ d \in everSeen))

SnapSeen == \A p \in Procs : snap[p] # None => snap[p] \in everSeen
PublishedSeen == published # None => published \in everSeen
MarkerSeen == marker # None => marker.digest \in everSeen
TodoDistinct ==
  \A p \in Procs : \A i, j \in 1..Len(todo[p]) : todo[p][i] = todo[p][j] => i = j
OwnerAlone ==
  \A p, q \in Procs : \A m \in Minutes, d \in Snapshots :
    Owns(p, m, d) /\ Owns(q, m, d) => p = q
OwnedSpent == \A p \in Procs, m \in Minutes, d \in Snapshots : Owns(p, m, d) => Spent(m, d)
StartedSpent ==
  \A m \in Minutes, d \in Snapshots, s \in Schedules : starts[m][d][s] > 0 => Spent(m, d)
PendingFresh ==
  \A p \in Procs, m \in Minutes, d \in Snapshots, s \in Schedules :
    Owns(p, m, d) /\ Pending(p, s) => starts[m][d][s] = 0

SeenInv == SnapSeen /\ PublishedSeen /\ MarkerSeen /\ TodoDistinct
OrderInv ==
  ~disorder => OwnerAlone /\ OwnedSpent /\ StartedSpent /\ PendingFresh /\ AtMostOnceInOrder

(* At the start nothing is claimed and only the published digest was seen. *)
LEMMA SeenInit == Init => SeenInv /\ OrderInv
  <1> SUFFICES ASSUME Init PROVE SeenInv /\ OrderInv
    OBVIOUS
  <1>1. SnapSeen /\ PublishedSeen /\ MarkerSeen
    BY DEF Init, SnapSeen, PublishedSeen, MarkerSeen
  <1>2. TodoDistinct
    BY DEF Init, TodoDistinct
  <1>3. \A p \in Procs, m \in Minutes, d \in Snapshots : ~Owns(p, m, d)
    BY DEF Init, Owns, Holding
  <1>4. \A m \in Minutes, d \in Snapshots, s \in Schedules : starts[m][d][s] = 0
    BY DEF Init
  <1>5. OwnerAlone /\ OwnedSpent /\ PendingFresh
    BY <1>3 DEF OwnerAlone, OwnedSpent, PendingFresh
  <1>6. StartedSpent /\ AtMostOnceInOrder
    BY <1>4 DEF StartedSpent, AtMostOnceInOrder
  <1> QED BY <1>1, <1>2, <1>5, <1>6 DEF SeenInv, OrderInv

(* What the local lists of Schedules become in one step.                   *)
LEMMA TodoStep ==
  ASSUME LockInv, TodoDistinct, [Next]_vars
  PROVE  TodoDistinct'
  <1> USE DEF envVars, lockVars, Goto
  <1>0. /\ TypeOK /\ RunOwner /\ SnapKnown
    BY DEF LockInv
  <1> USE <1>0 DEF TypeOK, TodoDistinct
  <1>1. ASSUME UNCHANGED todo PROVE TodoDistinct'
    BY <1>1
  <1>2. ASSUME NEW p \in Procs, todo[p] # << >>, todo' = [todo EXCEPT ![p] = Tail(@)]
        PROVE  TodoDistinct'
    <2>1. \A i, j \in 1..Len(Tail(todo[p])) : Tail(todo[p])[i] = Tail(todo[p])[j] => i = j
      BY <1>2, HeadTail
    <2> QED BY <1>2, <2>1
  <1>3. ASSUME NEW p \in Procs, LeaveClaim(p) PROVE TodoDistinct'
    <2>1. snap[p] \in Snapshots /\ minute[p] \in Minutes
      BY <1>3 DEF LeaveClaim, SnapKnown, Claiming
    <2>2. todo' = [todo EXCEPT ![p] = Due[snap[p]][minute[p]]]
      BY <1>3 DEF LeaveClaim
    <2> QED BY <2>1, <2>2, NamesAssumption
  <1>4. ASSUME NEW p \in Procs, NEW s, todo' = [todo EXCEPT ![p] = <<s>>]
        PROVE  TodoDistinct'
    BY <1>4
  <1>5. ASSUME NEW p \in Procs, Crash(p) PROVE TodoDistinct'
    BY <1>5 DEF Crash
  <1>6. ASSUME NEW p \in Procs, ReadManual(p) PROVE TodoDistinct'
    BY <1>1, <1>4, <1>6 DEF ReadManual
  <1>7. ASSUME NEW p \in Procs, SkipBusy(p) \/ ReleaseRunLock(p) PROVE TodoDistinct'
    BY <1>2, <1>7 DEF SkipBusy, ReleaseRunLock, Account, RunOwner, Holding
  <1> QED
    BY <1>1, <1>3, <1>5, <1>6, <1>7
    DEF Next, OwnStep, ClaimStep, RunStep, Elapse, Unpublish, Publish, StartTick, ReadTick,
        TakeClaimLock, CheckMarker, WriteMarker, Finish, TakeRunLock, LaunchFails, Launch,
        VendorEnds, OrphanEnds, vars

(* Every digest a process holds or the marker names was once published,    *)
(* and the Schedules still to do are distinct.                             *)
LEMMA SeenStep ==
  ASSUME LockInv, SeenInv, [Next]_vars
  PROVE  SeenInv'
  <1> USE DEF envVars, lockVars, Goto
  <1>0. TypeOK /\ SnapKnown /\ SnapSeen /\ PublishedSeen /\ MarkerSeen /\ TodoDistinct
    BY DEF LockInv, SeenInv
  <1>1. TodoDistinct'
    BY <1>0, TodoStep
  <1> USE <1>0 DEF TypeOK, SnapSeen, PublishedSeen, MarkerSeen
  <1>2. ASSUME everSeen \subseteq everSeen', UNCHANGED <<snap, marker>>,
               published' # None => published' \in everSeen'
        PROVE  SnapSeen' /\ PublishedSeen' /\ MarkerSeen'
    BY <1>2
  <1>3. ASSUME NEW p \in Procs, UNCHANGED <<everSeen, published, marker>>,
               snap' = [snap EXCEPT ![p] = published] \/ snap' = [snap EXCEPT ![p] = None]
        PROVE  SnapSeen' /\ PublishedSeen' /\ MarkerSeen'
    BY <1>3
  <1>4. ASSUME NEW p \in Procs, WriteMarker(p)
        PROVE  SnapSeen' /\ PublishedSeen' /\ MarkerSeen'
    <2>1. snap[p] \in everSeen /\ marker'.digest = snap[p]
      BY <1>4, SnapshotAssumption DEF WriteMarker, SnapKnown, Claiming, Claim
    <2> QED BY <1>4, <2>1 DEF WriteMarker
  <1>5. ASSUME NEW d \in Snapshots, Publish(d)
        PROVE  SnapSeen' /\ PublishedSeen' /\ MarkerSeen'
    BY <1>2, <1>5 DEF Publish
  <1>6. ASSUME NEW p \in Procs, ReadTick(p) \/ ReadManual(p) \/ Crash(p)
        PROVE  SnapSeen' /\ PublishedSeen' /\ MarkerSeen'
    BY <1>3, <1>6 DEF ReadTick, ReadManual, Crash
  <1>7. ASSUME UNCHANGED <<everSeen, published, snap, marker>>
        PROVE  SnapSeen' /\ PublishedSeen' /\ MarkerSeen'
    BY <1>7
  <1>8. ASSUME Unpublish PROVE  SnapSeen' /\ PublishedSeen' /\ MarkerSeen'
    BY <1>8 DEF Unpublish
  <1> QED
    BY <1>1, <1>4, <1>5, <1>6, <1>7, <1>8
    DEF SeenInv, Next, OwnStep, ClaimStep, RunStep, Elapse, StartTick,
        TakeClaimLock, CheckMarker, LeaveClaim, Finish, SkipBusy, TakeRunLock, LaunchFails,
        Launch, VendorEnds, ReleaseRunLock, OrphanEnds, vars

(* Disorder is for ever.                                                   *)
LEMMA DisorderStays == [Next]_vars /\ ~disorder' => ~disorder
  BY DEF Next, OwnStep, ClaimStep, RunStep, Elapse, Unpublish, Publish, StartTick, ReadTick,
         ReadManual, TakeClaimLock, CheckMarker, WriteMarker, LeaveClaim, Finish, SkipBusy,
         TakeRunLock, LaunchFails, Launch, VendorEnds, ReleaseRunLock, Crash, OrphanEnds, vars

(* A claim written in order was not spent.                                 *)
LEMMA NewClaim ==
  ASSUME LockInv, NEW p \in Procs, WriteMarker(p), ~disorder'
  PROVE  /\ ~Spent(minute[p], snap[p])
         /\ snap[p] = published /\ snap[p] \in Snapshots /\ minute[p] \in Minutes
         /\ marker' = Claim(p)
  <1>1. /\ pc[p] = "mark" /\ marker' = Claim(p) /\ ~OutOfOrder(p)
    BY DEF WriteMarker, Goto
  <1>2. snap[p] = published /\ snap[p] \in Snapshots /\ minute[p] \in Minutes
    BY <1>1 DEF OutOfOrder, LockInv, SnapKnown, Claiming, TypeOK
  <1>3. marker # None => ~(minute[p] < marker.minute)
    BY <1>1 DEF OutOfOrder
  <1>4. marker # None => ~(minute[p] = marker.minute /\ snap[p] = marker.digest)
    <2>1. marker # Claim(p) /\ marker \in Claims \cup {None}
      BY <1>1 DEF LockInv, Unclaimed, TypeOK
    <2> QED BY <2>1 DEF Claims, Claim
  <1> QED BY <1>1, <1>2, <1>3, <1>4 DEF Spent

(* A spent claim stays spent as long as everything is in order.            *)
LEMMA SpentStep ==
  ASSUME LockInv, SeenInv, [Next]_vars, ~disorder',
         NEW m \in Minutes, NEW d \in Snapshots, Spent(m, d)
  PROVE  Spent(m, d)'
  <1> USE DEF envVars, lockVars, Goto
  <1>0. TypeOK /\ PublishedSeen /\ MarkerSeen
    BY DEF LockInv, SeenInv
  <1>1. ASSUME UNCHANGED <<marker, published, everSeen>> PROVE Spent(m, d)'
    BY <1>1 DEF Spent
  <1>2. ASSUME NEW e \in Snapshots, Publish(e) PROVE Spent(m, d)'
    <2>1. e \notin everSeen /\ marker' = marker /\ published' = e
          /\ everSeen' = everSeen \cup {e}
      BY <1>2 DEF Publish
    <2> QED BY <2>1 DEF Spent
  <1>3. ASSUME Unpublish PROVE Spent(m, d)'
    BY <1>3, SnapshotAssumption DEF Unpublish, Spent
  <1>4. ASSUME NEW p \in Procs, WriteMarker(p) PROVE Spent(m, d)'
    <2>1. /\ ~Spent(minute[p], snap[p]) /\ snap[p] = published /\ minute[p] \in Minutes
          /\ marker' = [minute |-> minute[p], digest |-> snap[p]]
      BY <1>4, NewClaim DEF Claim
    <2>2. UNCHANGED <<published, everSeen>>
      BY <1>4 DEF WriteMarker
    <2>3. marker' # None /\ marker'.minute = minute[p] /\ marker'.digest = published
      <3>1. snap[p] \in Snapshots /\ minute[p] \in Minutes
        BY <1>4, NewClaim
      <3>2. marker' \in Claims
        BY <2>1, <3>1 DEF Claims
      <3> QED BY <2>1, <3>2, SnapshotAssumption
    <2>4. m <= minute[p]
      BY <1>0, <2>1, BoundAssumption DEF Spent, TypeOK, Claims, Minutes
    <2>5. CASE m = minute[p]
      BY <1>0, <2>1, <2>2, <2>3, <2>5 DEF Spent, MarkerSeen
    <2>6. CASE m # minute[p]
      BY <2>1, <2>3, <2>4, <2>6, BoundAssumption DEF Spent, Minutes
    <2> QED BY <2>5, <2>6
  <1> QED
    BY <1>1, <1>2, <1>3, <1>4
    DEF Next, OwnStep, ClaimStep, RunStep, Elapse, StartTick, ReadTick, ReadManual,
        TakeClaimLock, CheckMarker, LeaveClaim, Finish, SkipBusy, TakeRunLock, LaunchFails,
        Launch, VendorEnds, ReleaseRunLock, Crash, OrphanEnds, vars

(* An owner owned its claim before the step, or has just written it; what  *)
(* is pending for it was pending before.                                   *)
LEMMA OwnsStep ==
  ASSUME LockInv, [Next]_vars, NEW q \in Procs, NEW m \in Minutes, NEW d \in Snapshots,
         Owns(q, m, d)'
  PROVE  \/ /\ Owns(q, m, d)
            /\ \A s \in Schedules : Pending(q, s)' => Pending(q, s)
         \/ WriteMarker(q) /\ minute[q] = m /\ snap[q] = d
  <1> USE DEF envVars, lockVars, Goto, Holding
  <1>0. TypeOK /\ RunOwner /\ SnapKnown
    BY DEF LockInv
  <1> USE <1>0 DEF TypeOK
  <1> DEFINE Kept == Owns(q, m, d) /\ \A s \in Schedules : Pending(q, s)' => Pending(q, s)
  <1>1. ASSUME pc'[q] = pc[q], minute'[q] = minute[q], snap'[q] = snap[q], todo'[q] = todo[q]
        PROVE  Kept
    BY <1>1 DEF Owns, Pending
  <1>2. ASSUME NEW p \in Procs, p # q, \A r \in Procs : r # p =>
                 /\ pc'[r] = pc[r] /\ minute'[r] = minute[r]
                 /\ snap'[r] = snap[r] /\ todo'[r] = todo[r]
        PROVE  Kept
    BY <1>1, <1>2
  <1>3. ASSUME NEW p \in Procs, StartTick(p) PROVE Kept
    <2>1. p # q
      BY <1>3 DEF StartTick, Owns
    <2> QED BY <1>2, <1>3, <2>1 DEF StartTick
  <1>4. ASSUME NEW p \in Procs, ReadTick(p) \/ ReadManual(p) PROVE Kept
    <2>1. p # q
      BY <1>4, ProcsAssumption DEF ReadTick, ReadManual, Owns
    <2> QED BY <1>2, <1>4, <2>1 DEF ReadTick, ReadManual
  <1>5. ASSUME NEW p \in Procs, TakeClaimLock(p) \/ CheckMarker(p) \/ Finish(p) PROVE Kept
    <2>1. p # q
      BY <1>5 DEF TakeClaimLock, CheckMarker, Finish, Owns
    <2> QED BY <1>2, <1>5, <2>1 DEF TakeClaimLock, CheckMarker, Finish
  <1>6. ASSUME NEW p \in Procs, WriteMarker(p), p # q PROVE Kept
    BY <1>2, <1>6 DEF WriteMarker
  <1>7. ASSUME WriteMarker(q) PROVE minute[q] = m /\ snap[q] = d
    BY <1>7 DEF WriteMarker, Owns
  <1>8. ASSUME NEW p \in Procs, LeaveClaim(p) PROVE Kept
    <2>1. CASE p # q
      BY <1>2, <1>8, <2>1 DEF LeaveClaim
    <2>2. CASE p = q
      BY <1>8, <2>2 DEF LeaveClaim, Owns, Pending
    <2> QED BY <2>1, <2>2
  <1>9. ASSUME NEW p \in Procs, SkipBusy(p) \/ ReleaseRunLock(p) PROVE Kept
    <2>1. CASE p # q
      BY <1>2, <1>9, <2>1 DEF SkipBusy, ReleaseRunLock, Account
    <2>2. CASE p = q
      <3>1. /\ todo[q] # << >> /\ todo'[q] = Tail(todo[q]) /\ pc'[q] = "next"
            /\ pc[q] \in {"next", "release"} /\ UNCHANGED <<minute, snap>>
        BY <1>9, <2>2 DEF SkipBusy, ReleaseRunLock, Account, RunOwner
      <3>2. \A i \in 1..Len(todo'[q]) : i + 1 \in 2..Len(todo[q]) /\ todo'[q][i] = todo[q][i + 1]
        BY <3>1, HeadTail
      <3>3. 2..Len(todo[q]) \subseteq 1..Len(todo[q])
        BY <3>1, HeadTail
      <3>4. ASSUME NEW s \in Schedules, Pending(q, s)' PROVE Pending(q, s)
        <4>1. PICK i \in 1..Len(todo'[q]) : todo'[q][i] = s
          BY <3>1, <3>4 DEF Pending
        <4> QED BY <3>1, <3>2, <3>3, <4>1 DEF Pending
      <3> QED BY <3>1, <3>4 DEF Owns
    <2> QED BY <2>1, <2>2
  <1>10. ASSUME NEW p \in Procs, TakeRunLock(p) \/ LaunchFails(p) \/ Launch(p) \/ VendorEnds(p)
         PROVE Kept
    <2>1. CASE p # q
      BY <1>2, <1>10, <2>1 DEF TakeRunLock, LaunchFails, Launch, VendorEnds
    <2>2. CASE p = q
      <3>1. 2..Len(todo[q]) \subseteq 1..Len(todo[q])
        OBVIOUS
      <3> QED BY <1>10, <2>2, <3>1 DEF TakeRunLock, LaunchFails, Launch, VendorEnds, Owns, Pending
    <2> QED BY <2>1, <2>2
  <1>11. ASSUME NEW p \in Procs, Crash(p) PROVE Kept
    <2>1. p # q
      BY <1>11 DEF Crash, Owns
    <2> QED BY <1>2, <1>11, <2>1 DEF Crash
  <1> QED
    BY <1>1, <1>3, <1>4, <1>5, <1>6, <1>7, <1>8, <1>9, <1>10, <1>11
    DEF Next, OwnStep, ClaimStep, RunStep, Elapse, Unpublish, Publish, OrphanEnds, vars

(* Launch is the only step that counts a start, and of a pending Schedule. *)
LEMMA StartsStep ==
  ASSUME LockInv, SeenInv, [Next]_vars, NEW m \in Minutes, NEW d \in Snapshots,
         NEW s \in Schedules, starts'[m][d][s] # starts[m][d][s]
  PROVE  /\ starts'[m][d][s] = starts[m][d][s] + 1
         /\ \E p \in Procs : /\ Launch(p) /\ Owns(p, m, d) /\ Owns(p, m, d)'
                            /\ Pending(p, s) /\ ~Pending(p, s)'
  <1> USE DEF envVars, lockVars, Goto, Holding
  <1>0. TypeOK /\ RunOwner /\ SnapKnown /\ TodoDistinct
    BY DEF LockInv, SeenInv
  <1>1. PICK p \in Procs : Launch(p)
    BY DEF Next, OwnStep, ClaimStep, RunStep, Elapse, Unpublish, Publish, StartTick, ReadTick,
           ReadManual, TakeClaimLock, CheckMarker, WriteMarker, LeaveClaim, Finish, SkipBusy,
           TakeRunLock, LaunchFails, VendorEnds, ReleaseRunLock, Crash, OrphanEnds, vars
  <1>2. /\ pc[p] = "launch" /\ pc'[p] = "wait" /\ p \notin Manuals /\ p \in Ticks
        /\ starts' = [starts EXCEPT ![minute[p]][snap[p]][Head(todo[p])] = @ + 1]
        /\ UNCHANGED <<minute, snap, todo>>
    BY <1>0, <1>1 DEF Launch, Procs, TypeOK
  <1>3. /\ minute[p] \in Minutes /\ snap[p] \in Snapshots /\ todo[p] \in Seq(Schedules)
        /\ todo[p] # << >>
    BY <1>0, <1>2 DEF TypeOK, RunOwner, SnapKnown
  <1>4. /\ Head(todo[p]) = todo[p][1] /\ Head(todo[p]) \in Schedules
        /\ Len(todo[p]) \in Nat /\ Len(todo[p]) >= 1
    BY <1>3, HeadTail
  <1>5. m = minute[p] /\ d = snap[p] /\ s = todo[p][1]
    <2> DEFINE h == Head(todo[p])
    <2>1. starts \in [Minutes -> [Snapshots -> [Schedules -> Nat]]]
      BY <1>0 DEF TypeOK
    <2>2. CASE m # minute[p]
      BY <1>2, <2>1, <2>2
    <2>3. CASE m = minute[p] /\ d # snap[p]
      BY <1>2, <2>1, <2>3
    <2>4. CASE m = minute[p] /\ d = snap[p] /\ s # h
      BY <1>2, <1>3, <2>1, <2>4
    <2> QED BY <1>4, <2>2, <2>3, <2>4
  <1>6. starts'[m][d][s] = starts[m][d][s] + 1
    BY <1>0, <1>2, <1>3, <1>4, <1>5 DEF TypeOK
  <1>7. Pending(p, s)
    BY <1>2, <1>4, <1>5 DEF Pending
  <1>8. ~Pending(p, s)'
    BY <1>0, <1>2, <1>4, <1>5 DEF Pending, TodoDistinct
  <1> QED BY <1>1, <1>2, <1>5, <1>6, <1>7, <1>8 DEF Owns

(* A step keeps the uniqueness of claims and starts while in order.        *)
LEMMA OrderStep ==
  ASSUME LockInv, SeenInv, OrderInv, [Next]_vars
  PROVE  OrderInv'
  <1> SUFFICES ASSUME ~disorder'
               PROVE  (OwnerAlone /\ OwnedSpent /\ StartedSpent /\ PendingFresh
                       /\ AtMostOnceInOrder)'
    BY DEF OrderInv
  <1>0. OwnerAlone /\ OwnedSpent /\ StartedSpent /\ PendingFresh /\ AtMostOnceInOrder /\ ~disorder
    BY DisorderStays DEF OrderInv
  <1>t. /\ starts \in [Minutes -> [Snapshots -> [Schedules -> Nat]]]
        /\ TypeOK
    BY DEF LockInv, TypeOK
  <1>1. ASSUME NEW q \in Procs, NEW m \in Minutes, NEW d \in Snapshots, Owns(q, m, d)'
        PROVE  \/ /\ Owns(q, m, d)
                  /\ \A s \in Schedules : Pending(q, s)' => Pending(q, s)
               \/ WriteMarker(q) /\ minute[q] = m /\ snap[q] = d /\ ~Spent(m, d)
    BY <1>1, OwnsStep, NewClaim
  <1>2. OwnedSpent'
    <2> SUFFICES ASSUME NEW q \in Procs, NEW m \in Minutes, NEW d \in Snapshots, Owns(q, m, d)'
                 PROVE  Spent(m, d)'
      BY DEF OwnedSpent
    <2>1. CASE Owns(q, m, d)
      BY <1>0, <2>1, SpentStep DEF OwnedSpent
    <2>2. CASE WriteMarker(q) /\ minute[q] = m /\ snap[q] = d
      <3>1. marker' = [minute |-> m, digest |-> d]
        BY <2>2, NewClaim DEF Claim
      <3>2. marker' # None
        BY <3>1, SnapshotAssumption DEF Claims
      <3> QED BY <3>1, <3>2 DEF Spent
    <2> QED BY <1>1, <2>1, <2>2
  <1>3. OwnerAlone'
    <2> SUFFICES ASSUME NEW p \in Procs, NEW q \in Procs, NEW m \in Minutes, NEW d \in Snapshots,
                        Owns(p, m, d)', Owns(q, m, d)'
                 PROVE  p = q
      BY DEF OwnerAlone
    <2>1. CASE Owns(p, m, d) /\ Owns(q, m, d)
      BY <1>0, <2>1 DEF OwnerAlone
    <2>2. CASE Owns(p, m, d) /\ WriteMarker(q) /\ ~Spent(m, d)
      BY <1>0, <2>2 DEF OwnedSpent
    <2>3. CASE Owns(q, m, d) /\ WriteMarker(p) /\ ~Spent(m, d)
      BY <1>0, <2>3 DEF OwnedSpent
    <2>4. CASE WriteMarker(p) /\ WriteMarker(q)
      BY <2>4 DEF WriteMarker, Goto, LockInv, ClaimOwner, Claiming
    <2> QED BY <1>1, <2>1, <2>2, <2>3, <2>4
  <1>4. StartedSpent'
    <2> SUFFICES ASSUME NEW m \in Minutes, NEW d \in Snapshots, NEW s \in Schedules,
                        starts'[m][d][s] > 0
                 PROVE  Spent(m, d)'
      BY DEF StartedSpent
    <2>1. CASE starts'[m][d][s] = starts[m][d][s]
      BY <1>0, <2>1, SpentStep DEF StartedSpent
    <2>2. CASE starts'[m][d][s] # starts[m][d][s]
      BY <1>0, <2>2, StartsStep, SpentStep DEF OwnedSpent
    <2> QED BY <2>1, <2>2
  <1>5. PendingFresh'
    <2> SUFFICES ASSUME NEW p \in Procs, NEW m \in Minutes, NEW d \in Snapshots,
                        NEW s \in Schedules, Owns(p, m, d)', Pending(p, s)'
                 PROVE  starts'[m][d][s] = 0
      BY DEF PendingFresh
    <2>1. CASE starts'[m][d][s] = starts[m][d][s]
      <3>1. CASE Owns(p, m, d) /\ Pending(p, s)
        BY <1>0, <2>1, <3>1 DEF PendingFresh
      <3>2. CASE ~Spent(m, d)
        BY <1>0, <1>t, <2>1, <3>2 DEF StartedSpent
      <3> QED BY <1>1, <3>1, <3>2
    <2>2. CASE starts'[m][d][s] # starts[m][d][s]
      <3>1. PICK q \in Procs : Owns(q, m, d)' /\ ~Pending(q, s)'
        BY <2>2, StartsStep
      <3> QED BY <1>3, <3>1 DEF OwnerAlone
    <2> QED BY <2>1, <2>2
  <1>6. AtMostOnceInOrder'
    <2> SUFFICES ASSUME NEW m \in Minutes, NEW d \in Snapshots, NEW s \in Schedules
                 PROVE  starts'[m][d][s] <= 1
      BY DEF AtMostOnceInOrder
    <2>1. CASE starts'[m][d][s] = starts[m][d][s]
      BY <1>0, <2>1 DEF AtMostOnceInOrder
    <2>2. CASE starts'[m][d][s] # starts[m][d][s]
      <3>1. PICK q \in Procs : Owns(q, m, d) /\ Pending(q, s)
        BY <2>2, StartsStep
      <3>2. starts[m][d][s] = 0
        BY <1>0, <3>1 DEF PendingFresh
      <3> QED BY <2>2, <3>2, StartsStep
    <2> QED BY <2>1, <2>2
  <1> QED BY <1>2, <1>3, <1>4, <1>5, <1>6

(* As long as claims follow the clock and the pointer, no Schedule starts  *)
(* twice for one minute of one snapshot.                                   *)
THEOREM AtMostOnceWhenOrdered == Spec => []AtMostOnceInOrder
  <1>1. Init => LockInv /\ SeenInv /\ OrderInv
    BY InitLock, SeenInit
  <1>2. (LockInv /\ SeenInv /\ OrderInv) /\ [Next]_vars => (LockInv /\ SeenInv /\ OrderInv)'
    BY LockStep, SeenStep, OrderStep
  <1>3. OrderInv => AtMostOnceInOrder
    BY DEF OrderInv, AtMostOnceInOrder
  <1> QED BY <1>1, <1>2, <1>3, PTL DEF Spec

-----------------------------------------------------------------------------
(* Accounting.  What a heartbeat has accounted for and what it has still to *)
(* do are together, at every moment, what was due when it claimed.          *)
Accounts(p) ==
  /\ pc[p] \in {"unborn", "read", "claim"} \cup Claiming => results[p] = << >>
  /\ pc[p] \in {"next"} \cup Holding => results[p] \o todo[p] = Due[snap[p]][minute[p]]
  /\ pc[p] = "done" => results[p] = Due[snap[p]][minute[p]]
AccountInv == \A p \in Ticks : Accounts(p)

(* Moving the first Schedule from one list to the other leaves the whole.   *)
LEMMA MoveHead ==
  ASSUME NEW S, NEW r \in Seq(S), NEW q \in Seq(S), q # << >>
  PROVE  Append(r, Head(q)) \o Tail(q) = r \o q
  <1> DEFINE left == Append(r, Head(q)) \o Tail(q)
             right == r \o q
  <1>1. /\ Head(q) \in S /\ Tail(q) \in Seq(S) /\ Append(r, Head(q)) \in Seq(S)
        /\ Len(Append(r, Head(q))) = Len(r) + 1
    BY HeadTail
  <1>2. /\ left \in Seq(S) /\ right \in Seq(S)
    BY <1>1
  <1>3. Len(left) = Len(right)
    BY <1>1, HeadTail
  <1>4. ASSUME NEW i \in 1..Len(left) PROVE left[i] = right[i]
    <2>1. CASE i <= Len(r)
      BY <1>1, <1>3, <1>4, <2>1
    <2>2. CASE i = Len(r) + 1
      BY <1>1, <1>3, <1>4, <2>2, HeadTail
    <2>3. CASE i > Len(r) + 1
      <3>1. left[i] = Tail(q)[i - (Len(r) + 1)]
        BY <1>1, <1>4, <2>3
      <3>2. right[i] = q[i - Len(r)]
        BY <1>3, <1>4, <2>3
      <3>3. i - (Len(r) + 1) \in 1..Len(Tail(q))
        BY <1>1, <1>4, <2>3
      <3> QED BY <3>1, <3>2, <3>3, HeadTail
    <2> QED BY <2>1, <2>2, <2>3
  <1> HIDE DEF left, right
  <1>5. left \in [1..Len(left) -> S] /\ right \in [1..Len(left) -> S]
    BY <1>2, <1>3
  <1>6. left = right
    BY <1>4, <1>5
  <1> QED BY <1>6 DEF left, right

LEMMA AccountInit == Init => AccountInv
  BY DEF Init, AccountInv, Accounts, Procs, Claiming, Holding

(* A step of p changes nothing another process has in hand; each case is    *)
(* what it does to p, should p be a heartbeat.                              *)
LEMMA AccountStep ==
  ASSUME LockInv, AccountInv, [Next]_vars
  PROVE  AccountInv'
  <1> USE DEF envVars, lockVars, Goto
  <1>0. /\ TypeOK /\ RunOwner /\ SnapKnown
    BY DEF LockInv
  <1> USE <1>0 DEF TypeOK, AccountInv
  <1>1. ASSUME UNCHANGED <<pc, minute, snap, todo, results>> PROVE AccountInv'
    BY <1>1 DEF Accounts
  <1>2. ASSUME NEW p \in Procs, StartTick(p) \/ OwnStep(p) \/ VendorEnds(p) \/ Crash(p),
               p \in Ticks => Accounts(p)'
        PROVE  AccountInv'
    <2> SUFFICES ASSUME NEW q \in Ticks, q # p PROVE Accounts(q)'
      BY <1>2
    <2>1. /\ pc'[q] = pc[q] /\ minute'[q] = minute[q] /\ snap'[q] = snap[q]
          /\ todo'[q] = todo[q] /\ results'[q] = results[q]
      BY <1>2
      DEF Procs, OwnStep, ClaimStep, RunStep, StartTick, ReadTick, ReadManual, TakeClaimLock,
          CheckMarker, WriteMarker, LeaveClaim, Finish, SkipBusy, TakeRunLock, LaunchFails,
          Launch, VendorEnds, ReleaseRunLock, Account, Crash
    <2> QED BY <2>1 DEF Accounts
  <1>3. ASSUME NEW p \in Ticks, NEW q \in Seq(Schedules), q # << >>, q = todo[p],
               pc[p] \in {"next", "release"}, Account(p), UNCHANGED <<minute, snap>>, pc'[p] = "next"
        PROVE  Accounts(p)'
    <2>1. results[p] \in Seq(Schedules) /\ p \in Procs
      BY DEF Procs
    <2>2. results'[p] = Append(results[p], Head(q)) /\ todo'[p] = Tail(q)
      BY <1>3, <2>1 DEF Account
    <2>3. results'[p] \o todo'[p] = results[p] \o todo[p]
      BY <1>3, <2>1, <2>2, MoveHead
    <2>4. results[p] \o todo[p] = Due[snap[p]][minute[p]]
      BY <1>3 DEF Accounts, Holding
    <2> QED BY <1>3, <2>3, <2>4 DEF Accounts, Claiming
  <1>4. ASSUME NEW p \in Ticks, StartTick(p) \/ OwnStep(p) \/ VendorEnds(p) \/ Crash(p)
        PROVE  Accounts(p)'
    <2> p \in Procs /\ Accounts(p)
      BY DEF Procs
    <2>1. CASE StartTick(p) \/ ReadTick(p) \/ TakeClaimLock(p) \/ CheckMarker(p) \/ WriteMarker(p)
      BY <2>1 DEF StartTick, ReadTick, TakeClaimLock, CheckMarker, WriteMarker, Accounts, Claiming,
                  Holding
    <2>2. CASE LeaveClaim(p)
      <3>1. Due[snap[p]][minute[p]] \in Seq(Schedules)
        BY <2>2, SnapshotAssumption DEF LeaveClaim, SnapKnown, Claiming
      <3>2. /\ results'[p] = << >> /\ todo'[p] = Due[snap'[p]][minute'[p]] /\ pc'[p] = "next"
            /\ UNCHANGED <<snap, minute>>
        BY <2>2 DEF LeaveClaim, Accounts, Claiming
      <3>3. results'[p] \o todo'[p] = todo'[p]
        BY <3>1, <3>2
      <3> QED BY <3>2, <3>3 DEF Accounts, Claiming
    <2>3. CASE ReadManual(p)
      BY <2>3, ProcsAssumption DEF ReadManual
    <2>4. CASE Finish(p)
      <3>1. results[p] \o << >> = results[p]
        <4>1. results[p] \in Seq(Schedules)
          OBVIOUS
        <4> QED BY <4>1
      <3> QED BY <2>4, <3>1 DEF Finish, Accounts, Claiming, Holding
    <2>5. CASE SkipBusy(p)
      BY <2>5, <1>3 DEF SkipBusy
    <2>6. CASE ReleaseRunLock(p)
      BY <2>6, <1>3 DEF ReleaseRunLock, RunOwner, Holding
    <2>7. CASE TakeRunLock(p) \/ LaunchFails(p) \/ Launch(p) \/ VendorEnds(p)
      BY <2>7 DEF TakeRunLock, LaunchFails, Launch, VendorEnds, Accounts, Claiming, Holding
    <2>8. CASE Crash(p)
      BY <2>8 DEF Crash, Accounts, Claiming, Holding
    <2> QED
      BY <1>4, <2>1, <2>2, <2>3, <2>4, <2>5, <2>6, <2>7, <2>8 DEF OwnStep, ClaimStep, RunStep
  <1> QED
    BY <1>1, <1>2, <1>4 DEF Next, Elapse, Unpublish, Publish, OrphanEnds, vars

(* No due Schedule is lost behind one that fails or is busy: a heartbeat    *)
(* that ends by itself has accounted for each of them, in catalog order.    *)
THEOREM ResultsCorrect == Spec => []ResultsComplete
  <1>1. Init => LockInv /\ AccountInv
    BY InitLock, AccountInit
  <1>2. (LockInv /\ AccountInv) /\ [Next]_vars => (LockInv /\ AccountInv)'
    BY LockStep, AccountStep
  <1>3. AccountInv => ResultsComplete
    BY DEF AccountInv, Accounts, ResultsComplete
  <1> QED BY <1>1, <1>2, <1>3, PTL DEF Spec

-----------------------------------------------------------------------------
(* Which Schedules are due in a minute, that ScheduleTick takes as given.  *)
(* The five fields as the parser reads them, and the wall clocks.          *)
Items == [base : {"star", "range", "value"}, lo : Int, hi : Int, step : Int]
Expressions == [DOMAIN Bounds -> Seq(Items)]
Clocks ==
  [minute : 0..59, hour : 0..23, day : 1..31, month : 1..12, weekday : 0..6]

LEMMA ModZero == ASSUME NEW k \in Nat \ {0} PROVE 0 % k = 0
  BY SMT

LEMMA ModOne == ASSUME NEW k \in Int PROVE k % 1 = 0
  BY SMT

(* An accepted field has a value, and a wildcard without a step them all.  *)
LEMMA FieldFacts ==
  ASSUME NEW bound \in {<<0, 59>>, <<0, 23>>, <<1, 31>>, <<1, 12>>, <<0, 7>>},
         NEW field \in Seq(Items), FieldOK(field, bound)
  PROVE  /\ FieldValues(field, bound) # {}
         /\ FieldValues(field, bound) \subseteq bound[1]..bound[2]
         /\ Unrestricted(field) /\ ~ SteppedStar(field) =>
              FieldValues(field, bound) = bound[1]..bound[2]
  <1>0. bound[1] \in Int /\ bound[2] \in Int /\ bound[1] <= bound[2]
    OBVIOUS
  <1>1. field # << >> /\ 1 \in DOMAIN field /\ field[1] \in Items
    BY DEF FieldOK
  <1>2. \A i \in DOMAIN field : field[i] \in Items /\ ItemOK(field[i], bound)
    BY DEF FieldOK
  <1>3. ASSUME NEW item \in Items, ItemOK(item, bound)
        PROVE  /\ ItemValues(item, bound) # {}
               /\ ItemValues(item, bound) \subseteq bound[1]..bound[2]
    <2> DEFINE lo == IF item.base = "star" THEN bound[1] ELSE item.lo
               hi == IF item.base = "star" THEN bound[2] ELSE item.hi
               step == IF item.step = Unstepped THEN 1 ELSE item.step
    <2>1. lo \in Int /\ hi \in Int /\ lo <= hi /\ bound[1] <= lo /\ hi <= bound[2]
      BY <1>0, <1>3 DEF Items, ItemOK
    <2>2. step \in Nat \ {0}
      BY <1>3 DEF Items, ItemOK, Unstepped
    <2>3. ItemValues(item, bound) = {n \in lo..hi : (n - lo) % step = 0}
      BY DEF ItemValues
    <2> HIDE DEF lo, hi, step
    <2>4. lo - lo = 0 /\ 0 % step = 0
      BY <2>1, <2>2, ModZero
    <2>5. lo \in ItemValues(item, bound)
      BY <2>1, <2>3, <2>4
    <2>6. lo..hi \subseteq bound[1]..bound[2]
      BY <1>0, <2>1
    <2>7. ItemValues(item, bound) \subseteq lo..hi
      BY <2>3
    <2> QED BY <2>5, <2>6, <2>7
  <1>4. FieldValues(field, bound) = UNION {ItemValues(field[i], bound) : i \in DOMAIN field}
    BY DEF FieldValues
  <1>5. ASSUME Unrestricted(field), ~ SteppedStar(field)
        PROVE  FieldValues(field, bound) = bound[1]..bound[2]
    <2>1. field[1].base = "star" /\ field[1].step = Unstepped
      BY <1>5 DEF Unrestricted, SteppedStar
    <2>2. DOMAIN field = {1}
      <3>1. ~ (Len(field) > 1)
        BY <1>1, <2>1 DEF FieldOK
      <3>2. Len(field) \in Nat /\ DOMAIN field = 1..Len(field) /\ Len(field) >= 1
        BY <1>1
      <3>3. Len(field) = 1
        BY <3>1, <3>2
      <3> QED BY <3>2, <3>3
    <2>3. ItemValues(field[1], bound) = {n \in bound[1]..bound[2] : (n - bound[1]) % 1 = 0}
      BY <2>1 DEF ItemValues
    <2>4. \A n \in bound[1]..bound[2] : (n - bound[1]) % 1 = 0
      BY <1>0, ModOne
    <2> QED BY <1>4, <2>2, <2>3, <2>4
  <1> QED BY <1>1, <1>2, <1>3, <1>4, <1>5

LEMMA DaysAgree ==
  ASSUME NEW cron \in Expressions, NEW wall \in Clocks
  PROVE  AgreesWithVixie(cron, wall)
  <1> SUFFICES ASSUME Accepted(cron),
                      ~ SteppedStar(cron.day), ~ SteppedStar(cron.weekday)
               PROVE  /\ Matches(cron, wall) <=> Vixie(cron, wall)
                      /\ \A f \in DOMAIN Bounds :
                           FieldValues(cron[f], Bounds[f]) # {}
    BY Zenon DEF AgreesWithVixie
  <1>1. DOMAIN Bounds = {"minute", "hour", "day", "month", "weekday"}
    BY DEF Bounds
  <1>2. ASSUME NEW f \in DOMAIN Bounds
        PROVE  /\ cron[f] \in Seq(Items) /\ FieldOK(cron[f], Bounds[f])
               /\ Bounds[f] \in {<<0, 59>>, <<0, 23>>, <<1, 31>>, <<1, 12>>, <<0, 7>>}
    BY <1>1 DEF Expressions, Accepted, Bounds
  <1>3. \A f \in DOMAIN Bounds : FieldValues(cron[f], Bounds[f]) # {}
    BY <1>2, FieldFacts
  <1> DEFINE days == FieldValues(cron.day, Bounds.day)
             week == FieldValues(cron.weekday, Bounds.weekday)
  <1>4. /\ Unrestricted(cron.day) => days = 1..31
        /\ Unrestricted(cron.weekday) => week = 0..7
        /\ week \subseteq 0..7
    <2>1. Bounds.day = <<1, 31>> /\ Bounds.weekday = <<0, 7>>
      BY DEF Bounds
    <2>2. cron.day \in Seq(Items) /\ FieldOK(cron.day, <<1, 31>>)
      BY <1>1, <1>2, <2>1
    <2>3. cron.weekday \in Seq(Items) /\ FieldOK(cron.weekday, <<0, 7>>)
      BY <1>1, <1>2, <2>1
    <2> QED BY <2>1, <2>2, <2>3, FieldFacts
  <1>5. wall.day \in 1..31 /\ wall.weekday \in 0..6
    BY DEF Clocks
  <1>6. (wall.weekday + 1) % 7 \in Weekdays(cron)
          <=> \E n \in week : n = wall.weekday + 1 \/ (n = 0 /\ wall.weekday = 6)
    <2>1. Weekdays(cron) = {n % 7 : n \in week}
      BY DEF Weekdays
    <2> HIDE DEF week
    <2>2. \A n \in 0..7 : n % 7 = IF n = 7 THEN 0 ELSE n
      BY SMT
    <2>3. (wall.weekday + 1) % 7 = IF wall.weekday = 6 THEN 0 ELSE wall.weekday + 1
      BY <1>5, <2>2
    <2>4. \A n \in week : n % 7 = (wall.weekday + 1) % 7
                            <=> n = wall.weekday + 1 \/ (n = 0 /\ wall.weekday = 6)
      BY <1>4, <1>5, <2>2, <2>3
    <2> QED BY <2>1, <2>4
  <1> DEFINE onDay == wall.day \in days
             onWeekday == (wall.weekday + 1) % 7 \in Weekdays(cron)
  <1>7. DayMatches(cron, wall) <=>
          IF Unrestricted(cron.day) THEN onWeekday
          ELSE IF Unrestricted(cron.weekday) THEN onDay
          ELSE onDay \/ onWeekday
    BY DEF DayMatches
  <1>8. Unrestricted(cron.day) => onDay
    BY <1>4, <1>5
  <1>9. Unrestricted(cron.weekday) => onWeekday
    <2>1. wall.weekday + 1 \in 0..7
      BY <1>5
    <2> QED BY <1>4, <1>6, <2>1
  <1>10. DayMatches(cron, wall) <=>
          IF Unrestricted(cron.day) \/ Unrestricted(cron.weekday)
          THEN onDay /\ onWeekday ELSE onDay \/ onWeekday
    BY <1>7, <1>8, <1>9
  <1>11. Matches(cron, wall) <=> Vixie(cron, wall)
    BY <1>6, <1>10 DEF Matches, Vixie
  <1> QED BY <1>3, <1>11

(* The matching of schedules.py is that of Vixie cron for every expression *)
(* it accepts and every wall clock, unless a day field is a wildcard with  *)
(* a step; and every accepted field can be met.                            *)
THEOREM CronCorrect ==
  ASSUME case \in [rule : {"cron"}, cron : Expressions, clock : Clocks]
  PROVE  CronAgrees
  <1>1. case.cron \in Expressions /\ case.clock \in Clocks
    OBVIOUS
  <1> QED BY <1>1, DaysAgree DEF CronAgrees
=============================================================================
