----------------------------- MODULE MCLmdbStore -----------------------------
EXTENDS LmdbStore, StoreWorld

Only(S) == [events |-> S, index |-> [t \in IndexTable |-> S], deleted |-> {}, claims |-> {},
            coordinates |-> {}, vanished |-> {}]
\* Files an earlier run of the store left, after up to n requests.
Histories(n) ==
    LET reach[m \in 0 .. n] ==
            IF m = 0 THEN {EmptyTables}
            ELSE reach[m - 1] \cup
                 UNION {{o[1] : o \in Outcomes(op, t)} : <<t, op>> \in reach[m - 1] \X Operation}
    IN reach[n]
\* As FileAssumption has it, they are whole; that two requests leave whole tables
\* is what the run shows from the empty file.
MCFile == {[db |-> EmptyTables, version |-> 0, calls |-> 0],
           [db |-> [Only({1, 6, 10}) EXCEPT !.index["kc"] = {}], version |-> 1, calls |-> 1],
           [db |-> Only({6, 5}), version |-> 2, calls |-> 1],
           [db |-> EmptyTables, version |-> 4, calls |-> 0]}
          \cup {[db |-> t, version |-> 3, calls |-> MaxCalls - 1] : t \in {h \in Histories(2) : Kept(h, 3)}}
MCLegacy == {1, 5, 6, 10}

MCDeleteFilter == {[AnyFilter EXCEPT !.authors = {"alice"}, !.kinds = {0, 30000}, !.limit = 1]}
=============================================================================
