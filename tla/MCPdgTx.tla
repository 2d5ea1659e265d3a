------------------------------ MODULE MCPdgTx ------------------------------
(***************************************************************************)
(* Instances of PdgTx for TLC.  Targets 1 and 2 stand for two files of one *)
(* service; the definitions below are the values the .cfg files choose     *)
(* from.                                                                   *)
(***************************************************************************)
EXTENDS PdgTx, TLC

CONSTANTS a, b, p1, p2, u1, u2

NoAct == [u \in {} |-> "none"]
Plan(mode, data, derived, watch, act, guard) ==
  [mode |-> mode, data |-> data, derived |-> derived, watch |-> watch,
   act |-> act, guard |-> guard]

Files(data, watch) == Plan("normal", data, {}, watch, NoAct, EmptyFcn)

(* Transaction 1 replaces a file and deletes another; transaction 2 writes  *)
(* the same first file.                                                    *)
FilesGoal == 1 :> Files(1 :> b @@ 2 :> Absent, {}) @@ 2 :> Files(1 :> b, {})
FilesOrigin == 1 :> "api" @@ 2 :> "cli"
NoUnits == [n \in {1, 2} |-> {}]
FilesStart == {1 :> a @@ 2 :> a}
NoUnitsStart == {EmptyFcn}

AnyProcess == Permutations(Proc)

(* Transaction 1, a repair, restarts unit u1 after writing its file; the    *)
(* normal transaction 2 stops u1, which must be running when it begins.    *)
(* The file also concerns unit u2, which may change state by itself.       *)
Restart == u1 :> "restart" @@ u2 :> "none"
Stop == u1 :> "stop" @@ u2 :> "none"
ServicesGoal ==
  1 :> Plan("repair", 1 :> b, {}, {}, Restart, EmptyFcn) @@
  2 :> Plan("normal", EmptyFcn, {}, {}, Stop, u1 :> "active")
ServicesOrigin == 1 :> "api" @@ 2 :> "api"
FileOfU2 == 1 :> {u2}
OneFileStart == {1 :> a}
AnyLevel == {u1 :> l @@ u2 :> "ok" : l \in Level}

(* Transaction 1 writes file 1 and derives file 2 from it; 2 computes file 1 *)
(* from file 2; 3 deletes file 2.                                          *)
ChainGoal ==
  1 :> Plan("normal", 1 :> b @@ 2 :> b, {2}, {}, NoAct, EmptyFcn) @@
  2 :> Files(1 :> a, {2}) @@
  3 :> Files(2 :> Absent, {})
ChainOrigin == 1 :> "api" @@ 2 :> "api" @@ 3 :> "cli"

(* One transaction that creates a file; a stale recover needs nothing from *)
(* before/ to unlink it again.                                             *)
CreateGoal == 1 :> Files(1 :> b, {})
FromApi == 1 :> "api"
FromCli == 1 :> "cli"
NoUnit == 1 :> {}
NoFileStart == {1 :> Absent}

(* Two transactions that both delete the same file.                        *)
DeleteGoal == 1 :> Files(1 :> Absent, {}) @@ 2 :> Files(1 :> Absent, {})
BothFromApi == 1 :> "api" @@ 2 :> "api"
=============================================================================
