--------------------------- MODULE MCScheduleTick ---------------------------
(* ScheduleTick on small instances.  dA and dB: snapshots of s1 and s2,    *)
(* and of s1 alone; s2 is due in even minutes, s1 in every minute.         *)
EXTENDS ScheduleTick, TLC

CONSTANTS t1, t2, t3, u1, s1, s2, dA, dB

MCNamed == [d \in Snapshots |-> Schedules \ (IF d = dB THEN {s2} ELSE {})]
MCDue == [d \in Snapshots |-> [m \in Minutes |->
            IF s2 \in MCNamed[d] /\ m % 2 = 0 THEN <<s1, s2>> ELSE <<s1>>]]

TickSymmetry == Permutations({t1, t2, t3})
=============================================================================
