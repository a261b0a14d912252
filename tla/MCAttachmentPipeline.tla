------------------------ MODULE MCAttachmentPipeline ------------------------
EXTENDS AttachmentPipeline, TLC

Symmetry == Permutations(Requests) \cup Permutations(ScanRuns)
=============================================================================
