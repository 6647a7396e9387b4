----------------------------- MODULE MCSyncTasks -----------------------------
(* Constant values for the model checking of SyncTasks.                    *)
EXTENDS SyncTasks

CONSTANTS n1, n2, s1, s2, r1, r2, n3, s3

NodeOfSlot == [s \in Slots |-> IF s = s1 THEN n1 ELSE IF s = s2 THEN n2 ELSE n3]
AskedParts == {<<1, 2>>}
=============================================================================
