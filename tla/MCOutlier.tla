----------------------------- MODULE MCOutlier -----------------------------
(* An instance of OutlierDetection for TLC: two cases in one shard, one in  *)
(* another.                                                                 *)
EXTENDS OutlierDetection

MCShardOf == [c \in {"x", "y", "z"} |-> IF c = "z" THEN 2 ELSE 1]

=============================================================================
