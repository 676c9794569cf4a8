---------------------------- MODULE MCGossipStore ----------------------------
(* Model values for TLC: relay lists of one or two relays, an inbox list, a *)
(* note with a hint; a filter for each shape that the breakdown knows.      *)
EXTENDS GossipStore, TLC

CONSTANTS k1, k2, u1, u2

Listed(u, m) == [url |-> u, markers |-> m]
Hinted(k, u) == [key |-> k, url |-> u]

MCEvent ==
    {[kind |-> "relay_list", author |-> k1, list |-> l] :
        l \in {<<Listed(u1, {"read"})>>, <<Listed(u1, ReadWrite), Listed(u2, {"write"})>>}}
      \union {[kind |-> "inbox_relays", author |-> k1, list |-> <<Listed(u2, {})>>],
              [kind |-> "other", author |-> k2, list |-> <<Hinted(k1, u1)>>]}

MCFilter == {[authors |-> {k1, k2}, tagged |-> {}, kinds |-> "notes"],
             [authors |-> {}, tagged |-> {k1}, kinds |-> "any"],
             [authors |-> {k1}, tagged |-> {k2}, kinds |-> "notes"]}

MCLimit == [flag \in Flag |-> IF flag \in {"hint", "received"} THEN 1 ELSE 2]
=============================================================================
