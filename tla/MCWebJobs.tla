----------------------------- MODULE MCWebJobs -----------------------------
(***************************************************************************)
(* Instances of WebJobs for TLC.  The time limits keep the order of the    *)
(* code's: grace (60 s) < queue limit (5 min), every operation below its   *)
(* own limit (15 and 20 < 25 min, 45 < 50 min), and an update above the    *)
(* limit of the other kinds.                                               *)
(***************************************************************************)
EXTENDS WebJobs, TLC

CONSTANTS w1, w2

ShortLimits == [k \in Kind |-> IF k = "software-update" THEN 2 ELSE 1]
LongLimits == [k \in Kind |-> IF k = "software-update" THEN 3 ELSE 2]

(* An import is followed by an update.                                     *)
TwoKinds == 1 :> "config-import" @@ 2 :> "software-update"

AnyThread == Permutations(Web)
=============================================================================
