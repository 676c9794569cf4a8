----------------------------- MODULE StoreWorld -----------------------------
(* The small world of events and filters the stores are checked on.        *)
EXTENDS NostrEvents, TLC

\* A body: author, time, kind, identifier, p tags, e tags, coordinates.
Body(a, t, k, d, p, e, cs) ==
    [pubkey |-> a, created_at |-> t, kind |-> k, e |-> e, a |-> cs, vanish |-> k = 62, expiration |-> MaxTime,
     identifier |-> d, tags |-> [d |-> d, p |-> p]]
Address == [kind |-> 30000, pubkey |-> "alice", identifier |-> "x"]

\* Alice's metadata in two versions and a rival of the second; two versions of
\* an addressable event and one without identifier; her deletion of one of
\* each and an older deletion of the coordinate; Bob's deletion of an event of
\* hers, his gift wrap to her and a note; her request to vanish.
MCEvent ==
    (1 :> Body("alice", 1, 0, {}, {}, {}, {})
    @@ 2 :> Body("alice", 2, 0, {}, {}, {}, {})
    @@ 3 :> Body("alice", 2, 0, {}, {}, {}, {})
    @@ 4 :> Body("alice", 1, 30000, {"x"}, {}, {}, {})
    @@ 5 :> Body("alice", 2, 30000, {"x"}, {}, {}, {})
    @@ 6 :> Body("alice", 2, 5, {}, {}, {1}, {Address})
    @@ 7 :> Body("alice", 1, 5, {}, {}, {}, {Address})
    @@ 8 :> Body("bob", 2, 5, {}, {}, {4}, {})
    @@ 9 :> Body("alice", 3, 62, {}, {}, {}, {})
    @@ 10 :> Body("bob", 1, 1059, {}, {"alice"}, {}, {})
    @@ 11 :> Body("alice", 2, 30000, {}, {}, {}, {}))

Tagged(n, v) == [m \in {n} |-> {v}]
Ask(ids, as, ks, ts, since, limit) ==
    [ids |-> ids, authors |-> as, kinds |-> ks, tags |-> ts, since |-> since,
     until |-> MaxTime, limit |-> limit]
NoTag == [n \in {} |-> {}]
\* One filter for each plan, with the limits and times that its scans turn on.
MCQueryFilter ==
    {Ask({1, 5, 10}, {}, {}, NoTag, 0, 1),
     Ask({}, {"alice"}, {0, 30000}, NoTag, 0, 1),
     Ask({}, {"alice", "bob"}, {0}, NoTag, 0, 2),
     Ask({}, {"alice"}, {0}, NoTag, 2, 2),
     Ask({}, {"alice"}, {}, NoTag, 0, 1),
     Ask({}, {"alice"}, {30000, 5}, Tagged("d", "x"), 0, 1),
     Ask({}, {"alice"}, {30000}, Tagged("d", "x"), 2, NoLimit),
     Ask({}, {"alice", "bob"}, {}, Tagged("d", "x"), 0, 1),
     Ask({}, {}, {30000, 1059}, Tagged("p", "alice"), 0, 1),
     Ask({}, {}, {}, [n \in {"d", "p"} |-> IF n = "d" THEN {"x"} ELSE {"alice"}], 0, NoLimit),
     Ask({}, {"alice", "bob"}, {}, NoTag, 0, 1),
     Ask({}, {}, {0, 30000}, NoTag, 0, 2),
     Ask({}, {}, {}, NoTag, 2, 2),
     Ask({}, {}, {}, NoTag, 0, 1)}
=============================================================================
