--------------------------- MODULE EconomySagaMC ----------------------------
(* Instances of EconomySaga for TLC. *)
EXTENDS EconomySagaRefinement, TLC

CONSTANTS r1, r2

\* Requests are interchangeable: no definition tells them apart.
RequestSymmetry == Permutations({r1, r2})

\* Replies of the provider that never leave an applied write looking refused.
CleanWrites == {"ok", "lostApplied", "lost", "notSent", "rateLimited", "rejected"}
\* One representative of each way a call can end.
SomeWrites == {"ok", "lost", "notSent", "rejected"}
SomeReads == {"ok", "notSent"}
AllWrites == AppliedOutcomes \union UnappliedOutcomes
AllReads == {"ok", "notSent", "rateLimited", "rejected"}
=============================================================================
