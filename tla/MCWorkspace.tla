---------------------------- MODULE MCWorkspace ----------------------------
(***************************************************************************)
(* A process with a patch, and a deletion or rollback; another one with a   *)
(* patch or maintenance.                                                   *)
(***************************************************************************)
EXTENDS WorkspaceTransaction

CONSTANTS j1, j2, j3, p1, p2, f1, f2

JobProcess == [j \in Jobs |-> IF j = j3 THEN p2 ELSE p1]
Call(k, T) == [kind |-> k, targets |-> T]
JobCalls == [j \in Jobs |->
    CASE j = j1 -> {Call("patch", {f1, f2})}
      [] j = j2 -> {Call("delete", {f1}), Call("rollback", Files)}
      [] OTHER  -> {Call("patch", {f1}), Call("maintenance", {})}]
=============================================================================
