---------------------------- MODULE MCPoiDaemon ----------------------------
(* PoiDaemon on small instances. *)
EXTENDS PoiDaemon, TLC

AllFaults == {"database", "provider", "loss", "ipns", "crash"}

StillClock == {1}

SteppingClock == {1, 2}

ArtifactSymmetry == Permutations(Artifact)

=============================================================================
