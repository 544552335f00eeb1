--------------------------- MODULE OfflineSuiteMC ---------------------------
(* Each experiment once; one that is refused; a relaunch into the same     *)
(* directory; the two arms of DSpark.                                      *)
EXTENDS OfflineSuite

On(a, spec) == [at |-> a, spec |-> spec]
Once == {<<On("a", {key})>> : key \in Keys \ {"text", "skip", "capture"}}
Variants ==
  {<<On("a", {})>>, <<On("a", {"dspark", "text"})>>,
   <<On("a", {"profile", "capture"})>>, <<On("a", {"profile", "skip"})>>,
   <<On("a", {"native", "mhc"})>>, <<On("a", {"wob", "projection"})>>}
Again == {<<On("a", spec), On("a", spec)>> : spec \in {{}, {"m1"}}}
MCSchedules == Once \cup Variants \cup Again
=============================================================================
