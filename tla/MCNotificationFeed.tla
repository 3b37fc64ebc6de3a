------------------------- MODULE MCNotificationFeed -------------------------
(* Small instances of NotificationFeed for TLC.                            *)
EXTENDS NotificationFeed, TLC

\* No action reads first; wants, page and of of an idle cycle are reset, so
\* the cycles are interchangeable.  No definition names a category.
Symmetry == Permutations(Cycles) \union Permutations(Kinds)

\* No step reads the mark of a coordinator that is gone with its cycles, nor a
\* ghost.  After a mishap the properties ask only which entries are accounted for.
View ==
  LET alive == {gen} \union {of[c] : c \in Busy}
      told  == silent \union dropped \union {e \in Ids : fired[e] > 0}
  IN  <<feed, gen, enabled, [g \in alive |-> mark[g]], disk, cycles,
        IF mishaps = {} THEN history ELSE <<told>>>>
=============================================================================
