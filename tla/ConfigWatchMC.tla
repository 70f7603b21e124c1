--------------------------- MODULE ConfigWatchMC ----------------------------
(* Three loader goroutines: one may be asleep, one waiting for the mutex    *)
(* and one reading the file, all at once.                                   *)
EXTENDS ConfigWatch

CONSTANTS l1, l2, l3

MCLoaders == {l1, l2, l3}
InPlace == {"in_place"}
AnyKind == {"in_place", "rename"}
=============================================================================
