-------------------------- MODULE MCEntryLifecycle --------------------------
(* EntryLifecycle with interchangeable entries and platforms.              *)
EXTENDS EntryLifecycle, TLC

Symmetry == Permutations(Entries) \cup Permutations(PLATFORMS)

=============================================================================
