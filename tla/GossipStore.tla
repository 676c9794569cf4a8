----------------------------- MODULE GossipStore -----------------------------
(***************************************************************************)
(* The in-memory gossip store (gossip/nostr-gossip-memory/src/store.rs)    *)
(* and what the client reads from it: which relays a public key writes to, *)
(* reads from, takes private messages at, was hinted at or was seen on,    *)
(* and how GossipRelayResolver breaks a filter down by relay               *)
(* (nostr-sdk/src/client/gossip/resolver.rs).                              *)
(*                                                                         *)
(* Each store operation runs under one RwLock: one action.  A breakdown    *)
(* makes one selection for one key at a time; events come in between.      *)
(***************************************************************************)
EXTENDS Naturals, Sequences, FiniteSets
LOCAL INSTANCE SequencesExt

CONSTANTS
    Keys, Urls,         \* public keys and relays
    Allowed,            \* GossipAllowedRelays: the relays a selection may return
    Limit,              \* GossipRelayLimits, by flag
    MaxListSize,        \* MAX_NIP65_SIZE, MAX_NIP17_SIZE
    MaxRelaysPerKey,    \* MAX_RELAYS_PER_PK
    Capacity,           \* keys that the LRU cache keeps
    TtlOutdated,        \* TTL_OUTDATED
    Nothing,            \* Option::None
    Event,              \* the events that arrive
    Filter,             \* the filters that are asked for
    MaxTime             \* bound of the model: the clock

VARIABLES
    cache,      \* the LRU cache of PkData, the last used one first
    now,        \* the clock
    request,    \* the breakdown under way: the filter, the selections left, the keys by relay
    listed      \* history: the markers of the last relay list of each key

vars == <<cache, now, request, listed>>

ListKind  == {"nip17", "nip65"}
ReadWrite == {"read", "write"}
Flag      == ReadWrite \union {"pm", "hint", "received"}

\* Each relay of a key with its flags, the events received from it and the
\* time of the last one; the order is that of insertion.
PkRelayData == [url : Urls, flags : SUBSET Flag, events : Nat, last : 0..MaxTime]
NewPk(k)    == [key |-> k, relays |-> <<>>, checked |-> [list \in ListKind |-> Nothing]]
NoMarkers   == [u \in Urls |-> {}]
NoRequest   == [filter |-> Nothing]

TypeOK ==
    /\ \A i \in DOMAIN cache :
          /\ cache[i].key \in Keys
          /\ cache[i].checked \in [ListKind -> 0..MaxTime \union {Nothing}]
          /\ \A j \in DOMAIN cache[i].relays : cache[i].relays[j] \in PkRelayData
    /\ now \in 0..MaxTime
    /\ listed \in [Keys -> [Urls -> SUBSET ReadWrite]]

Init ==
    /\ cache = <<>>
    /\ now = 0
    /\ request = NoRequest
    /\ listed = [k \in Keys |-> NoMarkers]

-----------------------------------------------------------------------------
(* One key's relays                                                        *)

\* GossipFlags::add and ::remove; remove is an exclusive or.
AddFlags(flags, others)    == flags \union others
RemoveFlags(flags, others) == (flags \ others) \union (others \ flags)

\* The relays rs with that of u changed by Change; u is new: with what Change
\* makes of a relay without flags.
ChangeRelay(rs, u, Change(_)) ==
    IF \E i \in DOMAIN rs : rs[i].url = u
    THEN [i \in DOMAIN rs |-> IF rs[i].url = u THEN Change(rs[i]) ELSE rs[i]]
    ELSE Append(rs, Change([url |-> u, flags |-> {}, events |-> 0, last |-> 0]))

\* A relay of a NIP-65 list: its previous markers go, the new ones come.  For a
\* relay that is new there is nothing to remove.
ListRelay(rs, u, markers) ==
    LET known == \E i \in DOMAIN rs : rs[i].url = u
    IN  ChangeRelay(rs, u, LAMBDA r :
          [r EXCEPT !.flags = AddFlags(IF known THEN RemoveFlags(@, ReadWrite) ELSE @, markers)])

ListInbox(rs, u) == ChangeRelay(rs, u, LAMBDA r : [r EXCEPT !.flags = AddFlags(@, {"pm"})])

\* update_relay_per_user; the test for the limit admits one relay more.
UpdateRelayPerUser(rs, u, flag) ==
    IF Len(rs) > MaxRelaysPerKey /\ \A i \in DOMAIN rs : rs[i].url # u THEN rs
    ELSE ChangeRelay(rs, u, LAMBDA r :
           [r EXCEPT !.flags = AddFlags(@, {flag}), !.events = @ + 1, !.last = now])

-----------------------------------------------------------------------------
(* The cache of keys                                                       *)

Known(k) == \E i \in DOMAIN cache : cache[i].key = k

\* peek: the order of use stays.
Peek(k) == IF Known(k) THEN cache[CHOOSE i \in DOMAIN cache : cache[i].key = k] ELSE NewPk(k)

\* get_or_insert_mut of k in the cache c, and Change of what is there: k becomes
\* the last used key; the cache is full: the least recently used one goes.
Used(c, k, Change(_)) ==
    LET others == SelectSeq(c, LAMBDA d : d.key # k)
        data   == IF Len(others) = Len(c) THEN NewPk(k) ELSE SelectSeq(c, LAMBDA d : d.key = k)[1]
    IN  SubSeq(<<Change(data)>> \o others, 1,
               IF Len(others) < Capacity THEN Len(others) + 1 ELSE Capacity)

UsedRelays(c, k, Change(_)) == Used(c, k, LAMBDA d : [d EXCEPT !.relays = Change(@)])

\* The end of process_event: the relay that the event was received from.
Received(c, k, from) ==
    IF from = Nothing THEN c
    ELSE UsedRelays(c, k, LAMBDA rs : UpdateRelayPerUser(rs, from, "received"))

Taken(list) == SubSeq(list, 1, IF Len(list) < MaxListSize THEN Len(list) ELSE MaxListSize)

\* process_event, for each kind of event.
ProcessRelayList(e, from) ==
    /\ e.kind = "relay_list"
    /\ cache' = Received(UsedRelays(cache, e.author, LAMBDA rs :
                            FoldLeft(LAMBDA acc, r : ListRelay(acc, r.url, r.markers), rs, Taken(e.list))),
                         e.author, from)
    /\ listed' = [listed EXCEPT ![e.author] =
          FoldLeft(LAMBDA acc, r : [acc EXCEPT ![r.url] = r.markers], NoMarkers, Taken(e.list))]
    /\ UNCHANGED <<now, request>>

ProcessInboxRelays(e, from) ==
    /\ e.kind = "inbox_relays"
    /\ cache' = Received(UsedRelays(cache, e.author, LAMBDA rs :
                            FoldLeft(LAMBDA acc, r : ListInbox(acc, r.url), rs, Taken(e.list))),
                         e.author, from)
    /\ UNCHANGED <<now, request, listed>>

ProcessHints(e, from) ==
    /\ e.kind = "other"
    /\ cache' = Received(FoldLeft(LAMBDA c, hint :
                            UsedRelays(c, hint.key, LAMBDA rs : UpdateRelayPerUser(rs, hint.url, "hint")),
                            cache, e.list),
                         e.author, from)
    /\ UNCHANGED <<now, request, listed>>

\* get_status
Status(k, list) ==
    LET last == Peek(k).checked[list]
    IN  IF last = Nothing THEN "missing"
        ELSE IF last + TtlOutdated < now THEN "outdated" ELSE "updated"

\* mark_gossip_public_keys_checked, for a key with a list that is not up to date
\* (the synchronisation is GossipSync): update_fetch_attempt for each list.
MarkChecked(k, lists) ==
    /\ \E list \in lists : Status(k, list) # "updated"
    /\ cache' = Used(cache, k, LAMBDA d :
          [d EXCEPT !.checked = [list \in ListKind |-> IF list \in lists THEN now ELSE @[list]]])
    /\ UNCHANGED <<now, request, listed>>

Tick ==
    /\ now < MaxTime
    /\ now' = now + 1
    /\ UNCHANGED <<cache, request, listed>>

-----------------------------------------------------------------------------
(* The breakdown of a filter                                               *)

\* get_relays_by_flag: the relays with a flag, by events, then by the time of
\* the last one (the sort is stable), up to a limit.
Better(rs, i, j) ==
    \/ rs[i].events > rs[j].events
    \/ rs[i].events = rs[j].events /\ rs[i].last > rs[j].last
    \/ rs[i].events = rs[j].events /\ rs[i].last = rs[j].last /\ i < j

RelaysByFlag(k, flag) ==
    LET rs  == Peek(k).relays
        fit == {i \in DOMAIN rs : rs[i].url \in Allowed /\ flag \in rs[i].flags}
    IN  {rs[i].url : i \in {i \in fit : Cardinality({j \in fit : Better(rs, j, i)}) < Limit[flag]}}

\* get_best_relays: the relays with any of the flags.
BestRelays(k, flags) == UNION {RelaysByFlag(k, flag) : flag \in flags}

\* find_filter_pattern
HasNip17(f) == f.kinds = "gift_wrap" \/ (f.tagged # {} /\ f.kinds = "any")

\* The selections, in their order: with authors and tags one for all flags.
Selections(f) ==
    (IF f.authors # {} /\ f.tagged # {} THEN <<{"read", "write", "hint", "received"}>>
     ELSE <<IF f.authors # {} THEN {"write"} ELSE {"read"}, {"hint"}, {"received"}>>)
    \o (IF HasNip17(f) THEN <<{"pm"}>> ELSE <<>>)

\* break_down_filter; a filter without keys goes to the READ relays (RelayPool).
StartBreakDown(f) ==
    /\ request = NoRequest
    /\ f.authors \union f.tagged # {}
    /\ request' = [filter |-> f, at |-> 1, todo |-> f.authors \union f.tagged,
                   keys |-> [u \in Urls |-> [at |-> 0, keys |-> {}]]]
    /\ UNCHANGED <<cache, now, listed>>

\* map_relays for one key.  HashMap::extend: where an earlier selection has
\* found the relay, its keys are replaced.
SelectRelays(k) ==
    /\ request # NoRequest /\ k \in request.todo
    /\ LET urls == BestRelays(k, Selections(request.filter)[request.at])
           with(found) == [at   |-> request.at,
                           keys |-> {k} \union (IF found.at = request.at THEN found.keys ELSE {})]
       IN  request' = [request EXCEPT
              !.todo = @ \ {k},
              !.keys = [u \in Urls |-> IF u \in urls THEN with(@[u]) ELSE @[u]]]
    /\ UNCHANGED <<cache, now, listed>>

\* The selection is complete: the next one; or the filters are.  No relay: the
\* filter is an orphan.
FinishSelection ==
    /\ request # NoRequest /\ request.todo = {}
    /\ request' = IF request.at = Len(Selections(request.filter)) THEN NoRequest
                  ELSE [request EXCEPT !.at = @ + 1,
                                       !.todo = request.filter.authors \union request.filter.tagged]
    /\ UNCHANGED <<cache, now, listed>>

Next ==
    \/ \E e \in Event, from \in Urls \union {Nothing} :
          ProcessRelayList(e, from) \/ ProcessInboxRelays(e, from) \/ ProcessHints(e, from)
    \/ \E k \in Keys, lists \in SUBSET ListKind : MarkChecked(k, lists)
    \/ Tick
    \/ \E f \in Filter : StartBreakDown(f)
    \/ (\E k \in Keys : SelectRelays(k)) \/ FinishSelection

Spec == Init /\ [][Next]_vars

-----------------------------------------------------------------------------
(* Properties                                                              *)

(* "Update the bitflag: remove the previous READ and WRITE values and      *)
(* apply the new bitflag": a relay that the last list of a key names has   *)
(* the markers of that list and no others, whatever was known of it (in a  *)
(* cache that has room for every key).                                     *)
MarkersAreListed ==
    Capacity >= Cardinality(Keys) =>
    \A i \in DOMAIN cache : \A j \in DOMAIN cache[i].relays :
        LET relay   == cache[i].relays[j]
            markers == listed[cache[i].key][relay.url]
        IN  markers # {} => relay.flags \cap ReadWrite = markers
=============================================================================
