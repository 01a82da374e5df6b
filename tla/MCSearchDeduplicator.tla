------------------------ MODULE MCSearchDeduplicator ------------------------
(* Four identities, a memory of two and seven messages: an identity can be   *)
(* forgotten, accepted again and forgotten again.                            *)
EXTENDS SearchDeduplicator

CONSTANTS a, b, c, d

MCIdentities == {a, b, c, d}
MCCapacity == 2
MCMaxMessages == 7
=============================================================================
