------------------------------ MODULE MCCorpus ------------------------------
(* CorpusFreeze for TLC: manifests with at most one predecessor.           *)
EXTENDS CorpusFreeze

Root == [coll : Collection, pred : {NoManifest}, inv : Vector,
         snap : 1..MaxSnapshots]
MCRecord == Root \cup [coll : Collection, pred : Root, inv : Vector,
                       snap : 1..MaxSnapshots]
=============================================================================
