---------------------------- MODULE MCSqliteStore ----------------------------
EXTENDS SqliteStore, StoreWorld

\* The shared world, with a newer deletion of Alice's, instead of an older one,
\* that names an event of hers and one of Bob's; a note of Bob's from time 0 and
\* one from a time that is negative as an i64; two addressable events of Bob's,
\* where the identifier of the second is another "d" tag of the first.
MCSqliteEvent ==
    [i \in DOMAIN MCEvent \ {7} |-> MCEvent[i]] @@
            (12 :> Body("alice", 3, 5, {}, {}, {2, 10}, {Address})
             @@ 13 :> Body("bob", 0, 1, {}, {}, {}, {})
             @@ 14 :> Body("bob", MaxSecs + 1, 1, {}, {}, {}, {})
             @@ 15 :> [Body("bob", 1, 30000, {"y"}, {}, {}, {}) EXCEPT !.tags["d"] = {"x", "y"}]
             @@ 16 :> Body("bob", 2, 30000, {"x"}, {}, {}, {}))

\* A new file, and one of the first version.
MCFile == {[version |-> 0, tables |-> Tables({})], [version |-> 1, tables |-> Tables({1, 4, 10})]}

All == [AnyFilter EXCEPT !.until = NoUntil]
MCDeleteFilter == {All, [All EXCEPT !.authors = {"alice"}, !.kinds = {0, 30000}]}

\* The shared filters, which have no "until"; one with, and one that counts and
\* asks for nothing; an empty set of values and times beyond an i64, which are
\* not plain.
MCSqliteFilter ==
    {[f EXCEPT !.until = NoUntil] : f \in MCQueryFilter} \cup
    {All, [All EXCEPT !.until = 1], [All EXCEPT !.limit = 0],
     [All EXCEPT !.tags = [n \in {"d", "p"} |-> IF n = "d" THEN {"x"} ELSE {}]],
     [All EXCEPT !.since = MaxSecs + 1], [All EXCEPT !.until = MaxTime]}
=============================================================================
