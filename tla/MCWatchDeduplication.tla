------------------------- MODULE MCWatchDeduplication -------------------------
(* A folder, one in it and one in that.  The watches with X exclude a       *)
(* pattern that matches deep as seen from top but not as seen from folder;  *)
(* the one with Y excludes another pattern.                                 *)
EXTENDS WatchDeduplication, TLC

CONSTANTS top, folder, deep

MCResource == {top, folder, deep}
MCAt == [k \in Key |-> CASE k \in {"top", "topX"} -> top
                         [] k \in {"folderX", "folderY"} -> folder
                         [] OTHER -> deep]
MCRecursive == Key \ {"deepFlat"}
MCWithin == {<<r, r>> : r \in MCResource} \cup {<<top, folder>>, <<top, deep>>, <<folder, deep>>}

MCExcludes == [k \in Key |-> CASE k \in {"topX", "folderX", "deepX"} -> {"x"}
                               [] k = "folderY" -> {"y"}
                               [] OTHER -> {}]
MCMatches == {<<"x", top, deep>>}

ConsumerSymmetry == Permutations(Consumer)
=============================================================================
