--------------------------- MODULE MCEntryLifecycle ---------------------------
(* A small instance of EntryLifecycle for TLC.                             *)
EXTENDS EntryLifecycle, TLC

\* A form with the nightly fetch on, and one the dialog refuses.
MCForms ==
  {[auto |-> TRUE, maps |-> "street", key |-> FALSE, watches |-> TRUE],
   [auto |-> FALSE, maps |-> "cage", key |-> FALSE, watches |-> TRUE]}

MCSymmetry == Permutations(Entries) \union Permutations(Accounts)
=============================================================================
