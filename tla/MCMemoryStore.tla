---------------------------- MODULE MCMemoryStore ----------------------------
EXTENDS MemoryStore, StoreWorld

\* The shared world, with a deletion of Alice's that names an event of hers
\* and one of Bob's, a note of Bob's that expires, a replaceable event of his
\* with an identifier and his deletion of its coordinate.
MCMemoryEvent ==
    MCEvent @@ (12 :> Body("alice", 3, 5, {}, {}, {2, 10}, {Address})
             @@ 13 :> [Body("bob", 2, 1, {}, {}, {}, {}) EXCEPT !.expiration = 0]
             @@ 14 :> Body("bob", 1, 10002, {"x"}, {}, {}, {})
             @@ 15 :> Body("bob", 2, 5, {}, {}, {}, {[kind |-> 10002, pubkey |-> "bob", identifier |-> "x"]}))
MCDeleteFilter == {AnyFilter, [AnyFilter EXCEPT !.authors = {"alice"}, !.kinds = {0, 30000}]}
=============================================================================
