----------------------------- MODULE MCVMWorkload -----------------------------
(* VMWorkload with the integers at and next to the limits of either type.  *)
EXTENDS VMWorkload

NearLimits == {s * (limit + d) : s \in {1, -1}, limit \in {0, IMax, UMax}, d \in {-1, 0, 1}}

===============================================================================
