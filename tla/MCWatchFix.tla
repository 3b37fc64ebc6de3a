------------------------------ MODULE MCWatchFix ------------------------------
(* Small instances of WatchFix for TLC: one account with two watches.      *)
EXTENDS WatchFix

CONSTANTS w1, w2

Request(watches, history) == [watches |-> watches, history |-> history]

\* The periodic poll, and a forced refresh of one watch with its history.
Poll   == {Request(<<w1, w2>>, "not")}
Both   == Poll \union {Request(<<w1>>, "wanted")}

\* Between fetches nobody reads the attributes or the dicts: the next fetch
\* replaces the dicts it reads, and assigns self.device and status anew.
\* While a fetch runs nobody writes self.data, whose entries were checked when
\* they were stored, and the snapshot is a copy of it.
View ==
  IF \A r \in Requests : pc[r] = "idle"
    THEN <<provider, name, cache, data, overlap>>
    ELSE <<provider, dict, attrs, cache, overlap, pc, todo, listed, at, asked, result>>
=============================================================================
