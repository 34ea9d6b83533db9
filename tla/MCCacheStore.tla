---------------------------- MODULE MCCacheStore ----------------------------
(* Two clients of each of the three caches. *)
EXTENDS CacheStore, TLC

\* Clients are interchangeable, and so are keys.
ClientsAndKeys == Permutations(Client) \cup Permutations(Key)

==============================================================================
