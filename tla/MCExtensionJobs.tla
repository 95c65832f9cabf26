--------------------------- MODULE MCExtensionJobs ---------------------------
EXTENDS ExtensionJobs, TLC
OneSong == [c \in Clips |-> "song"]
ClipsInterchangeable == Permutations(Clips)
=============================================================================
