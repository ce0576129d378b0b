--------------------------- MODULE MCRisLiveSource ---------------------------
(* Small instances of RisLiveSource for TLC. *)
EXTENDS RisLiveSource

AnyDrop    == {"broken", "silent"}
SilentOnly == {"silent"}

=============================================================================
