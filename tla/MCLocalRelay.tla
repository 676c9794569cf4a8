---------------------------- MODULE MCLocalRelay ----------------------------
(* Two clients and the application.  The first client subscribes, proves to*)
(* be Alice, reconciles and publishes a protected note; the second only    *)
(* publishes: notes, an ephemeral event, a gift wrap to Alice.             *)
EXTENDS LocalRelay, StoreWorld
CONSTANTS c1, c2

MCRelayEvent ==
    (1 :> Body("bob", 1, 1, {}, {}, {}, {})
    @@ 2 :> Body("bob", 2, 1, {}, {}, {}, {})
    @@ 3 :> Body("bob", 1, 20000, {}, {}, {}, {})
    @@ 4 :> Body("bob", 1, 1059, {}, {"alice"}, {}, {})
    @@ 5 :> Body("alice", 1, 1, {}, {}, {}, {}))

MCAppEvent == {2}
MCProtected == {5}
Publish(e) == [type |-> "EVENT", event |-> e]
Req(id, f, size) == [type |-> "REQ", id |-> id, filters |-> {f}, size |-> size]
\* The lists that are not empty are there; the kinds of AnyKind are and are empty.
Asked(f) == ("given" :> {n \in {"ids", "kinds"} : f[n] # {}}) @@ f
Notes == Asked(Ask({}, {}, {1}, NoTag, 0, NoLimit))
Latest == Asked(Ask({}, {}, {1, 20000}, NoTag, 0, 1))
First == Asked(Ask({1}, {}, {1}, NoTag, 0, NoLimit))
Wraps == Asked(Ask({}, {}, {1059}, Tagged("p", "alice"), 0, NoLimit))
All == Asked(Ask({}, {}, {}, Tagged("p", "alice"), 0, NoLimit))
AnyKind == [Asked(AnyFilter) EXCEPT !.given = {"kinds"}]
MCAsks(s) ==
    IF s = c2 THEN {Publish(1), Publish(3), Publish(4)}
    ELSE {Req("x", Notes, 1), Req("x", Latest, 2), Req("x", First, 1), Req("y", Wraps, 2),
          Req("z", Notes, 1), Req("x", All, 1), Req("y", AnyKind, 1),
          [type |-> "COUNT", filters |-> {Wraps}], [type |-> "CLOSE", id |-> "x"],
          [type |-> "AUTH", key |-> "alice"], [type |-> "AUTH", key |-> "carol"], Publish(5),
          [type |-> "NEG-OPEN", id |-> "n", filters |-> {Notes}],
          [type |-> "NEG-OPEN", id |-> "m", filters |-> {Notes}],
          [type |-> "NEG-MSG", id |-> "n"]}
=============================================================================
