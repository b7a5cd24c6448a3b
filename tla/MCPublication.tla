------------------------- MODULE MCPublication ---------------------------
(***************************************************************************)
(* Instances of CheckpointPublication: two writers of different bytes, or  *)
(* three of which two stage identical trees (a repeated deterministic      *)
(* run), and the calls that may fail in each run.                          *)
(***************************************************************************)
EXTENDS CheckpointPublication, TLC

CONSTANTS w1, w2, w3, A, B

TwoWriters   == {w1, w2}
ThreeWriters == {w1, w2, w3}
TwoPayloads   == w1 :> A @@ w2 :> B
ThreePayloads == w1 :> A @@ w2 :> B @@ w3 :> A

AllSites  == Labels \ {"done"}

\* Failures that leave the writer able to tell what it did, and to remove
\* what it staged.
TellingSites == AllSites \ {"idle", "identity", "mkdir", "recheck", "release",
                            "remove", "close", "cleanup"}

MkdirSite  == {"mkdir"}
RenameSite == {"rename", "recheck"}
==========================================================================
