---------------------------- MODULE NostrEvents ----------------------------
(* The events and filters the stores and the local relay work on: the      *)
(* classes of kinds, the coordinate of an event, the order in which events *)
(* are returned, and what a filter matches.  An event is named by its ID,  *)
(* a number, so that the order of IDs is the order of numbers; its body is *)
(* looked up in the constant Event.  Content and signatures are left out,  *)
(* and with them the text search of a filter.                              *)
EXTENDS Integers, FiniteSets

CONSTANT Event \* the events of the world: a function from IDs to bodies

Id == DOMAIN Event

\* A body has the author, the time, the kind, the filterable single-letter
\* tags, the identifier (the value of the first "d" tag, as a set: none, or
\* one; there may be more "d" tags), the IDs of its e tags, the coordinates
\* of its a tags, the time it expires at (MaxTime without the tag), and whether
\* its tags name this relay, or all, as the target of a request to vanish.
MaxTime == 999999 \* stands for Timestamp::max, u64::MAX
ASSUME EventAssumption ==
    /\ Id \subseteq Nat
    /\ \A i \in Id :
        /\ Event[i].created_at \in 0 .. MaxTime
        /\ Event[i].kind \in Nat /\ Event[i].kind <= 65535
        /\ Event[i].e \subseteq Nat
        /\ Event[i].identifier \subseteq Event[i].tags["d"]
        /\ \A c, d \in Event[i].identifier : c = d

pubkey(i) == Event[i].pubkey
created_at(i) == Event[i].created_at
kind(i) == Event[i].kind
event_ids(i) == Event[i].e
coordinates(i) == Event[i].a

EventDeletion == 5
RequestToVanish == 62
GiftWrap == 1059

is_replaceable(k) == k \in {0, 3, 41} \/ (10000 <= k /\ k < 20000)
is_ephemeral(k) == 20000 <= k /\ k < 30000
is_addressable(k) == 30000 <= k /\ k < 40000

identifier(i) == Event[i].identifier

\* Only replaceable and addressable events have a coordinate; a missing
\* identifier is the empty one.
HasCoordinate(i) == is_replaceable(kind(i)) \/ is_addressable(kind(i))
coordinate(i) ==
    [kind |-> kind(i), pubkey |-> pubkey(i),
     identifier |-> IF identifier(i) = {} THEN ""
                    ELSE CHOOSE d \in identifier(i) : TRUE]

\* Events are ordered newest first, and by ID among events of one second.
Before(i, j) ==
    \/ created_at(i) > created_at(j)
    \/ created_at(i) = created_at(j) /\ i < j

\* A stored event takes precedence over an incoming one of its coordinate.
has_event_been_replaced(stored, incoming) ==
    \/ created_at(stored) > created_at(incoming)
    \/ created_at(stored) = created_at(incoming) /\ stored < incoming

is_expired_at(i, now) == Event[i].expiration < now

is_valid_vanish_request_for_relay(i) == Event[i].vanish

-----------------------------------------------------------------------------
(* Filters *)

NoLimit == -1

\* An empty set of ids, authors or kinds restricts nothing, and so does a tag
\* name that is not in the domain of "tags".
AnyFilter == [ids |-> {}, authors |-> {}, kinds |-> {}, tags |-> [n \in {} |-> {}],
              since |-> 0, until |-> MaxTime, limit |-> NoLimit]

tag_match(f, i) == \A n \in DOMAIN f.tags : f.tags[n] \cap Event[i].tags[n] # {}

match_event(f, i) ==
    /\ f.ids = {} \/ i \in f.ids
    /\ f.authors = {} \/ pubkey(i) \in f.authors
    /\ f.kinds = {} \/ kind(i) \in f.kinds
    /\ created_at(i) >= f.since
    /\ created_at(i) <= f.until
    /\ tag_match(f, i)

\* The first n elements of a set in an order.
FirstN(S, Less(_, _), n) == {i \in S : Cardinality({j \in S : Less(j, i)}) < n}

\* What a query promises: the newest "limit" events that match.
NewestN(S, n) == FirstN(S, Before, n)
Newest(S, n) == IF n = NoLimit THEN S ELSE NewestN(S, n)
Answer(S, f) == Newest({i \in S : match_event(f, i)}, f.limit)
=============================================================================
