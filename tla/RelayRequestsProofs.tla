-------------------------- MODULE RelayRequestsProofs --------------------------
(* RequestsInv is inductive: for anything that negentropy finds, any marks,    *)
(* batches and capacity of the broadcast, and whatever the relay answers, the  *)
(* results of the two requests are true, neither waits for an answer that is   *)
(* not on its way, and a synchronisation that has ended is closed.             *)
(*                                                                             *)
(* The steps of the system are first put into a form that says what they do to *)
(* channels and sets of messages (Step, StepsAre); then every part of the      *)
(* invariant is shown to be kept by each of them.                              *)
EXTENDS RelayRequests, FiniteSetTheorems, TLAPS

-----------------------------------------------------------------------------
(* Channels: without its head, two of them joined, one made longer         *)

Rest(w) == Tail(w)
Joined(w, v) == w \o v
Longer(w, m) == w \o <<m>>

LEMMA PoppedMessages ==
    ASSUME NEW S, NEW w \in Seq(S), w # <<>>
    PROVE  /\ Tail(w) \in Seq(S) /\ Len(w) \in Nat \ {0} /\ DOMAIN w = 1 .. Len(w)
           /\ Len(Tail(w)) = Len(w) - 1 /\ DOMAIN Tail(w) = 1 .. Len(w) - 1
           /\ \A n \in 1 .. Len(w) - 1 : Tail(w)[n] = w[n + 1]
           /\ Head(w) = w[1] /\ Head(w) \in S /\ Head(w) \in Msgs(w)
           /\ Msgs(w) = {Head(w)} \cup Msgs(Tail(w))
<1>1. /\ Tail(w) \in Seq(S) /\ Len(w) \in Nat \ {0} /\ DOMAIN w = 1 .. Len(w)
      /\ Len(Tail(w)) = Len(w) - 1 /\ DOMAIN Tail(w) = 1 .. Len(w) - 1
      /\ \A n \in 1 .. Len(w) - 1 : Tail(w)[n] = w[n + 1]
      /\ Head(w) = w[1] /\ Head(w) \in S
  OBVIOUS
<1>2. Head(w) \in Msgs(w)
  BY <1>1 DEF Msgs
<1>3. ASSUME NEW n \in DOMAIN w PROVE w[n] \in {Head(w)} \cup Msgs(Tail(w))
  <2>1. CASE n = 1
    BY <1>1, <2>1
  <2>2. CASE n # 1
    <3>1. n - 1 \in 1 .. Len(w) - 1 /\ (n - 1) + 1 = n
      BY <1>1, <2>2
    <3> QED BY <1>1, <3>1 DEF Msgs
  <2> QED BY <2>1, <2>2
<1>4. ASSUME NEW n \in DOMAIN Tail(w) PROVE Tail(w)[n] \in Msgs(w)
  <2>1. n + 1 \in DOMAIN w /\ Tail(w)[n] = w[n + 1]
    BY <1>1
  <2> QED BY <2>1 DEF Msgs
<1>5. Msgs(w) \subseteq {Head(w)} \cup Msgs(Tail(w))
  BY <1>3 DEF Msgs
<1>6. Msgs(Tail(w)) \subseteq Msgs(w)
  BY <1>4 DEF Msgs
<1> QED BY <1>1, <1>2, <1>5, <1>6

LEMMA PoppedChannel ==
    ASSUME NEW S, NEW w \in Seq(S), w # <<>>
    PROVE  /\ Rest(w) \in Seq(S) /\ Len(w) \in Nat \ {0} /\ Len(Rest(w)) = Len(w) - 1
           /\ Head(w) \in S /\ Head(w) \in Msgs(w) /\ Msgs(w) = {Head(w)} \cup Msgs(Rest(w))
BY PoppedMessages DEF Rest

LEMMA PoppedPlaces ==
    ASSUME NEW S, NEW w \in Seq(S), w # <<>>
    PROVE  /\ DOMAIN w = 1 .. Len(w) /\ DOMAIN Rest(w) = 1 .. Len(w) - 1 /\ Head(w) = w[1]
           /\ \A n \in 1 .. Len(w) - 1 : Rest(w)[n] = w[n + 1]
BY PoppedMessages DEF Rest

LEMMA JoinedMessages ==
    ASSUME NEW S, NEW w \in Seq(S), NEW v \in Seq(S)
    PROVE  /\ w \o v \in Seq(S) /\ Len(w) \in Nat /\ Len(v) \in Nat
           /\ DOMAIN w = 1 .. Len(w) /\ DOMAIN v = 1 .. Len(v)
           /\ Len(w \o v) = Len(w) + Len(v) /\ DOMAIN (w \o v) = 1 .. Len(w) + Len(v)
           /\ \A n \in 1 .. Len(w) : (w \o v)[n] = w[n]
           /\ \A n \in 1 .. Len(v) : (w \o v)[Len(w) + n] = v[n]
           /\ \A n \in 1 .. Len(w) + Len(v) : n > Len(w) => n - Len(w) \in 1 .. Len(v)
                                                          /\ (w \o v)[n] = v[n - Len(w)]
           /\ Msgs(w \o v) = Msgs(w) \cup Msgs(v)
<1>1. /\ w \o v \in Seq(S) /\ Len(w) \in Nat /\ Len(v) \in Nat
      /\ DOMAIN w = 1 .. Len(w) /\ DOMAIN v = 1 .. Len(v)
      /\ Len(w \o v) = Len(w) + Len(v) /\ DOMAIN (w \o v) = 1 .. Len(w) + Len(v)
      /\ \A n \in 1 .. Len(w) : (w \o v)[n] = w[n]
  OBVIOUS
<1>2. \A n \in 1 .. Len(w) + Len(v) : n > Len(w) => n - Len(w) \in 1 .. Len(v)
                                                    /\ (w \o v)[n] = v[n - Len(w)]
  OBVIOUS
<1>3. \A n \in 1 .. Len(v) : (w \o v)[Len(w) + n] = v[n]
  <2> SUFFICES ASSUME NEW n \in 1 .. Len(v) PROVE (w \o v)[Len(w) + n] = v[n]
    OBVIOUS
  <2>1. Len(w) + n \in 1 .. Len(w) + Len(v) /\ Len(w) + n > Len(w) /\ (Len(w) + n) - Len(w) = n
    BY <1>1
  <2> QED BY <1>2, <2>1
<1>4. Msgs(w) \cup Msgs(v) \subseteq Msgs(w \o v)
  <2>1. ASSUME NEW n \in 1 .. Len(w) PROVE w[n] \in Msgs(w \o v)
    BY <1>1 DEF Msgs
  <2>2. ASSUME NEW n \in 1 .. Len(v) PROVE v[n] \in Msgs(w \o v)
    <3>1. Len(w) + n \in DOMAIN (w \o v)
      BY <1>1
    <3> QED BY <1>3, <3>1 DEF Msgs
  <2> QED BY <1>1, <2>1, <2>2 DEF Msgs
<1>5. Msgs(w \o v) \subseteq Msgs(w) \cup Msgs(v)
  <2>1. ASSUME NEW n \in 1 .. Len(w) + Len(v) PROVE (w \o v)[n] \in Msgs(w) \cup Msgs(v)
    <3>1. CASE n <= Len(w)
      BY <1>1, <3>1 DEF Msgs
    <3>2. CASE n > Len(w)
      BY <1>1, <1>2, <3>2 DEF Msgs
    <3> QED BY <1>1, <3>1, <3>2
  <2> QED BY <1>1, <2>1 DEF Msgs
<1> QED BY <1>1, <1>2, <1>3, <1>4, <1>5

LEMMA JoinedChannels ==
    ASSUME NEW S, NEW w \in Seq(S), NEW v \in Seq(S)
    PROVE  /\ Joined(w, v) \in Seq(S) /\ Len(w) \in Nat /\ Len(v) \in Nat
           /\ Len(Joined(w, v)) = Len(w) + Len(v) /\ Msgs(Joined(w, v)) = Msgs(w) \cup Msgs(v)
BY JoinedMessages DEF Joined

LEMMA JoinedPlaces ==
    ASSUME NEW S, NEW w \in Seq(S), NEW v \in Seq(S)
    PROVE  /\ DOMAIN w = 1 .. Len(w) /\ DOMAIN v = 1 .. Len(v)
           /\ DOMAIN Joined(w, v) = 1 .. Len(w) + Len(v)
           /\ \A n \in 1 .. Len(w) : Joined(w, v)[n] = w[n]
           /\ \A n \in 1 .. Len(v) : Joined(w, v)[Len(w) + n] = v[n]
           /\ \A n \in 1 .. Len(w) + Len(v) : n > Len(w) => n - Len(w) \in 1 .. Len(v)
                                                          /\ Joined(w, v)[n] = v[n - Len(w)]
BY JoinedMessages DEF Joined

LEMMA FewMessages ==
    ASSUME NEW S
    PROVE  /\ <<>> \in Seq(S) /\ Msgs(<<>>) = {}
           /\ \A m \in S : <<m>> \in Seq(S) /\ Msgs(<<m>>) = {m} /\ Len(<<m>>) = 1 /\ <<m>>[1] = m
           /\ \A m, n \in S : <<m, n>> \in Seq(S) /\ Msgs(<<m, n>>) = {m, n}
           /\ \A w \in Seq(S), m \in S : Append(w, m) = w \o <<m>>
<1>1. Msgs(<<>>) = {}
  BY DEF Msgs
<1>2. ASSUME NEW m \in S PROVE <<m>> \in Seq(S) /\ Msgs(<<m>>) = {m} /\ Len(<<m>>) = 1 /\ <<m>>[1] = m
  BY DEF Msgs
<1>3. ASSUME NEW m \in S, NEW n \in S PROVE <<m, n>> \in Seq(S) /\ Msgs(<<m, n>>) = {m, n}
  <2>1. <<m, n>> \in Seq(S) /\ DOMAIN <<m, n>> = {1, 2} /\ <<m, n>>[1] = m /\ <<m, n>>[2] = n
    OBVIOUS
  <2> QED BY <2>1 DEF Msgs
<1>4. ASSUME NEW w \in Seq(S), NEW m \in S PROVE Append(w, m) = w \o <<m>>
  <2>1. /\ Append(w, m) \in Seq(S) /\ w \o <<m>> \in Seq(S) 
        /\ DOMAIN Append(w, m) = 1 .. Len(w) + 1 /\ DOMAIN (w \o <<m>>) = 1 .. Len(w) + 1
    OBVIOUS
  <2>2. \A n \in 1 .. Len(w) + 1 : Append(w, m)[n] = (w \o <<m>>)[n]
    OBVIOUS
  <2> QED BY <2>1, <2>2
<1> QED BY <1>1, <1>2, <1>3, <1>4

LEMMA PoppedTwice ==
    ASSUME NEW S, NEW w \in Seq(S), w # <<>>, NEW T
    PROVE  /\ AtMostOne(w, T) => AtMostOne(Tail(w), T)
           /\ AtMostOne(w, T) /\ Head(w).type \in T => ~Has(Tail(w), T)
           /\ Has(w, T) <=> Head(w).type \in T \/ Has(Tail(w), T)
<1>1. /\ Len(w) \in Nat \ {0} /\ DOMAIN w = 1 .. Len(w) /\ DOMAIN Tail(w) = 1 .. Len(w) - 1
      /\ \A n \in 1 .. Len(w) - 1 : Tail(w)[n] = w[n + 1]
      /\ Head(w) = w[1] /\ Msgs(w) = {Head(w)} \cup Msgs(Tail(w))
  BY PoppedMessages
<1>2. ASSUME AtMostOne(w, T), NEW p \in DOMAIN Tail(w), NEW q \in DOMAIN Tail(w),
             Tail(w)[p].type \in T, Tail(w)[q].type \in T
      PROVE  p = q
  <2>1. p + 1 \in DOMAIN w /\ q + 1 \in DOMAIN w /\ w[p + 1] = Tail(w)[p] /\ w[q + 1] = Tail(w)[q]
    BY <1>1
  <2>2. p + 1 = q + 1
    BY <1>2, <2>1 DEF AtMostOne
  <2> QED BY <1>1, <2>2
<1>3. ASSUME AtMostOne(w, T), Head(w).type \in T, NEW p \in DOMAIN Tail(w), Tail(w)[p].type \in T
      PROVE  FALSE
  <2>1. p + 1 \in DOMAIN w /\ 1 \in DOMAIN w /\ w[p + 1] = Tail(w)[p]
    BY <1>1
  <2>2. p + 1 = 1
    BY <1>1, <1>3, <2>1 DEF AtMostOne
  <2> QED BY <1>1, <2>2
<1>4. AtMostOne(w, T) => AtMostOne(Tail(w), T)
  BY <1>2 DEF AtMostOne
<1>5. AtMostOne(w, T) /\ Head(w).type \in T => ~Has(Tail(w), T)
  BY <1>3 DEF Has, Msgs
<1>6. Has(w, T) <=> Head(w).type \in T \/ Has(Tail(w), T)
  BY <1>1 DEF Has
<1> QED BY <1>4, <1>5, <1>6

LEMMA PoppedOnce ==
    ASSUME NEW S, NEW w \in Seq(S), w # <<>>, NEW T
    PROVE  /\ AtMostOne(w, T) => AtMostOne(Rest(w), T)
           /\ AtMostOne(w, T) /\ Head(w).type \in T => ~Has(Rest(w), T)
           /\ Has(w, T) <=> Head(w).type \in T \/ Has(Rest(w), T)
BY PoppedTwice DEF Rest

LEMMA JoinedTwice ==
    ASSUME NEW S, NEW w \in Seq(S), NEW v \in Seq(S), NEW T
    PROVE  /\ AtMostOne(w, T) /\ ~Has(v, T) => AtMostOne(w \o v, T)
           /\ AtMostOne(v, T) /\ ~Has(w, T) => AtMostOne(w \o v, T)
           /\ Has(w \o v, T) <=> Has(w, T) \/ Has(v, T)
<1>1. /\ w \o v \in Seq(S) /\ Len(w) \in Nat /\ Len(v) \in Nat
      /\ DOMAIN w = 1 .. Len(w) /\ DOMAIN v = 1 .. Len(v)
      /\ DOMAIN (w \o v) = 1 .. Len(w) + Len(v)
      /\ \A n \in 1 .. Len(w) : (w \o v)[n] = w[n]
      /\ \A n \in 1 .. Len(w) + Len(v) : n > Len(w) => n - Len(w) \in 1 .. Len(v)
                                                     /\ (w \o v)[n] = v[n - Len(w)]
      /\ Msgs(w \o v) = Msgs(w) \cup Msgs(v)
  BY JoinedMessages
<1>2. ASSUME NEW n \in DOMAIN (w \o v), (w \o v)[n].type \in T
      PROVE  \/ n \in DOMAIN w /\ w[n].type \in T /\ Has(w, T)
             \/ n - Len(w) \in DOMAIN v /\ v[n - Len(w)].type \in T /\ Has(v, T)
  <2>1. CASE n <= Len(w)
    BY <1>1, <1>2, <2>1 DEF Has, Msgs
  <2>2. CASE n > Len(w)
    BY <1>1, <1>2, <2>2 DEF Has, Msgs
  <2> QED BY <1>1, <2>1, <2>2
<1>3. ASSUME AtMostOne(w, T), ~Has(v, T) PROVE AtMostOne(w \o v, T)
  BY <1>2, <1>3 DEF AtMostOne
<1>4. ASSUME AtMostOne(v, T), ~Has(w, T) PROVE AtMostOne(w \o v, T)
  <2> SUFFICES ASSUME NEW p \in DOMAIN (w \o v), NEW q \in DOMAIN (w \o v),
                      (w \o v)[p].type \in T, (w \o v)[q].type \in T
               PROVE  p = q
    BY DEF AtMostOne
  <2>1. p - Len(w) = q - Len(w)
    BY <1>2, <1>4 DEF AtMostOne
  <2> QED BY <1>1, <2>1
<1>5. Has(w \o v, T) <=> Has(w, T) \/ Has(v, T)
  BY <1>1 DEF Has
<1> QED BY <1>3, <1>4, <1>5

LEMMA JoinedOnce ==
    ASSUME NEW S, NEW w \in Seq(S), NEW v \in Seq(S), NEW T
    PROVE  /\ AtMostOne(w, T) /\ ~Has(v, T) => AtMostOne(Joined(w, v), T)
           /\ AtMostOne(v, T) /\ ~Has(w, T) => AtMostOne(Joined(w, v), T)
           /\ Has(Joined(w, v), T) <=> Has(w, T) \/ Has(v, T)
BY JoinedTwice DEF Joined

LEMMA SingleOnce ==
    ASSUME NEW m, NEW T
    PROVE  AtMostOne(<<m>>, T) /\ (Has(<<m>>, T) <=> m.type \in T) /\ AtMostOne(<<>>, T) /\ ~Has(<<>>, T)
BY DEF AtMostOne, Has, Msgs

LEMMA LongerChannel ==
    ASSUME NEW S, NEW w \in Seq(S), NEW m \in S
    PROVE  /\ Longer(w, m) \in Seq(S) /\ Len(w) \in Nat /\ Len(Longer(w, m)) = Len(w) + 1
           /\ Msgs(Longer(w, m)) = Msgs(w) \cup {m}
<1> DEFINE v == <<m>>
<1>1. v \in Seq(S)
  OBVIOUS
<1>2. Msgs(v) = {m} /\ Len(v) = 1
  BY FewMessages
<1>3. Longer(w, m) = Joined(w, v)
  BY DEF Longer, Joined
<1> HIDE DEF v
<1>4. /\ Joined(w, v) \in Seq(S) /\ Len(w) \in Nat
      /\ Len(Joined(w, v)) = Len(w) + Len(v) /\ Msgs(Joined(w, v)) = Msgs(w) \cup Msgs(v)
  BY <1>1, JoinedChannels
<1> QED BY <1>2, <1>3, <1>4

LEMMA LongerPlaces ==
    ASSUME NEW S, NEW w \in Seq(S), NEW m \in S
    PROVE  /\ DOMAIN w = 1 .. Len(w) /\ DOMAIN Longer(w, m) = 1 .. Len(w) + 1
           /\ \A n \in 1 .. Len(w) : Longer(w, m)[n] = w[n]
           /\ Longer(w, m)[Len(w) + 1] = m
BY DEF Longer

LEMMA LongerOnce ==
    ASSUME NEW S, NEW w \in Seq(S), NEW m \in S, NEW T
    PROVE  /\ Has(Longer(w, m), T) <=> Has(w, T) \/ m.type \in T
           /\ AtMostOne(w, T) /\ ~(Has(w, T) /\ m.type \in T) => AtMostOne(Longer(w, m), T)
<1> DEFINE v == <<m>>
<1>1. v \in Seq(S) /\ AtMostOne(v, T) /\ (Has(v, T) <=> m.type \in T)
  BY SingleOnce
<1>2. Longer(w, m) = Joined(w, v)
  BY DEF Longer, Joined
<1> HIDE DEF v
<1> QED BY <1>1, <1>2, JoinedOnce

LEMMA TwoMessages == ASSUME NEW a, NEW b PROVE <<a>> \o <<b>> = <<a, b>>
<1> DEFINE f == <<a>> \o <<b>>
           g == <<a, b>>
<1>1. f \in Seq({a, b}) /\ g \in Seq({a, b})
  OBVIOUS
<1>2. Len(f) = 2 /\ Len(g) = 2
  OBVIOUS
<1>3. \A n \in 1 .. 2 : f[n] = g[n]
  OBVIOUS
<1> HIDE DEF f, g
<1>4. f = [n \in 1 .. 2 |-> f[n]]
  BY <1>1, <1>2
<1>5. g = [n \in 1 .. 2 |-> g[n]]
  BY <1>1, <1>2
<1>6. [n \in 1 .. 2 |-> f[n]] = [n \in 1 .. 2 |-> g[n]]
  BY <1>3
<1>7. f = g
  BY <1>4, <1>5, <1>6, Zenon
<1> QED BY <1>7 DEF f, g

LEMMA LongerTwice ==
    ASSUME NEW S, NEW w \in Seq(S), NEW a, NEW b
    PROVE  w \o <<a, b>> = Longer(Longer(w, a), b)
<1> DEFINE T == S \cup {a, b}
           v == <<a>>
           u == <<b>>
<1>1. w \in Seq(T) /\ v \in Seq(T) /\ u \in Seq(T)
  OBVIOUS
<1>2. <<a, b>> = v \o u
  BY TwoMessages
<1>3. w \o (v \o u) = (w \o v) \o u
  <2> HIDE DEF v, u, T
  <2> QED BY <1>1
<1> QED BY <1>2, <1>3 DEF Longer

-----------------------------------------------------------------------------
(* Lists of events                                                         *)

LEMMA ListedOnce ==
    ASSUME NEW S, IsFiniteSet(S)
    PROVE  /\ SetToSeq(S) \in Seq(S) /\ DOMAIN SetToSeq(S) = 1 .. Len(SetToSeq(S))
           /\ {SetToSeq(S)[n] : n \in DOMAIN SetToSeq(S)} = S
<1> DEFINE N == Cardinality(S)
<1>1. N \in Nat /\ ExistsBijection(1 .. N, S)
  BY FS_CardinalityType
<1>2. PICK g : g \in Bijection(1 .. N, S)
  BY <1>1 DEF ExistsBijection
<1>3. g \in [1 .. N -> S] /\ IsInjective(g)
  BY <1>2 DEF Bijection, Injection
<1>4. SetToSeq(S) \in [1 .. N -> S] /\ IsInjective(SetToSeq(S))
  BY <1>3 DEF SetToSeq
<1>5. SetToSeq(S) \in Injection(1 .. N, S)
  BY <1>4 DEF Injection
<1>6. SetToSeq(S) \in Surjection(1 .. N, S)
  <2>1. IsFiniteSet(1 .. N) /\ Cardinality(1 .. N) = N
    BY <1>1, FS_Interval
  <2> QED BY <1>5, <2>1, FS_Injection
<1>7. \A e \in S : \E n \in 1 .. N : SetToSeq(S)[n] = e
  BY <1>6 DEF Surjection
<1>8. SetToSeq(S) \in Seq(S) /\ Len(SetToSeq(S)) = N
  BY <1>1, <1>4
<1> QED BY <1>4, <1>7, <1>8

LEMMA StoredEvents ==
    ASSUME NEW id \in Nat, NEW ids \in SUBSET Events, IsFiniteSet(Events)
    PROVE  /\ EVENTS(id, ids) \in Seq(FromRelay)
           /\ Msgs(EVENTS(id, ids)) = {[type |-> "STORED", id |-> id, event |-> e] : e \in ids}
<1> DEFINE L == SetToSeq(ids)
           stored(e) == [type |-> "STORED", id |-> id, event |-> e]
<1>1. /\ L \in Seq(ids) /\ DOMAIN L = 1 .. Len(L) /\ {L[n] : n \in DOMAIN L} = ids
  BY FS_Subset, ListedOnce
<1>2. \A e \in ids : stored(e) \in FromRelay
  BY DEF FromRelay
<1>3. EVENTS(id, ids) = [n \in 1 .. Len(L) |-> stored(L[n])]
  BY <1>1 DEF EVENTS
<1>4. Len(L) \in Nat /\ \A n \in 1 .. Len(L) : L[n] \in ids
  BY <1>1
<1> HIDE DEF stored, L
<1>5. EVENTS(id, ids) \in Seq(FromRelay) /\ DOMAIN EVENTS(id, ids) = 1 .. Len(L)
  BY <1>2, <1>3, <1>4
<1>6. Msgs(EVENTS(id, ids)) = {stored(e) : e \in ids}
  BY <1>1, <1>3, <1>5 DEF Msgs
<1> QED BY <1>5, <1>6 DEF stored

LEMMA UploadedEvents ==
    ASSUME NEW found \in SUBSET Events, IsFiniteSet(Events)
    PROVE  LET L == SetToSeq(found) msgs == [n \in DOMAIN L |-> EVENT(L[n])]
           IN msgs \in Seq(ToRelay) /\ Msgs(msgs) = {EVENT(e) : e \in found}
<1> DEFINE L == SetToSeq(found)
           msgs == [n \in DOMAIN L |-> EVENT(L[n])]
<1>1. /\ L \in Seq(found) /\ DOMAIN L = 1 .. Len(L) /\ {L[n] : n \in DOMAIN L} = found
  BY FS_Subset, ListedOnce
<1>2. \A e \in found : EVENT(e) \in ToRelay
  BY DEF ToRelay, EVENT
<1>4. Len(L) \in Nat /\ \A n \in 1 .. Len(L) : L[n] \in found
  BY <1>1
<1>5. msgs = [n \in 1 .. Len(L) |-> EVENT(L[n])]
  BY <1>1
<1> HIDE DEF msgs, L
<1>6. msgs \in Seq(ToRelay) /\ DOMAIN msgs = 1 .. Len(L)
  BY <1>2, <1>4, <1>5
<1>7. Msgs(msgs) = {EVENT(e) : e \in found}
  BY <1>1, <1>5, <1>6 DEF Msgs
<1> QED BY <1>6, <1>7 DEF msgs, L

-----------------------------------------------------------------------------
(* Messages                                                                *)

LEMMA ToRelayMessages ==
    /\ \A m \in ToRelay :
        /\ m.type \in {"NEG-OPEN", "NEG-CLOSE", "AUTH", "NEG-MSG", "EVENT", "CLOSE", "REQ"}
        /\ m.type = "NEG-MSG" => m.n \in Nat
        /\ m.type = "EVENT" => m.event \in Events /\ m = EVENT(m.event)
        /\ m.type = "CLOSE" => m.id \in Nat /\ m = CLOSE(m.id)
        /\ m.type = "REQ" => m.id \in Nat /\ m.ids \in SUBSET Events
    /\ {Msg("NEG-OPEN"), Msg("NEG-CLOSE"), Msg("AUTH")} \subseteq ToRelay
    /\ \A n \in Nat : NEG(n) \in ToRelay /\ CLOSE(n) \in ToRelay
    /\ \A e \in Events : EVENT(e) \in ToRelay
    /\ \A n \in Nat : \A s \in SUBSET Events : REQ(n, s) \in ToRelay
BY DEF ToRelay, Msg, NEG, CLOSE, EVENT, REQ

LEMMA FromRelayMessages ==
    /\ \A m \in FromRelay :
        /\ m.type \in {"NEG-ERR", "AUTH", "NEG-MSG", "OK", "OK-AUTH", "STORED", "EOSE", "CLOSED"}
        /\ m.type = "NEG-MSG" => m.n \in Nat
        /\ m.type = "OK" => /\ m.event \in Events /\ m.status \in {"true", "false", "auth-required"}
                            /\ m = OK(m.event, m.status)
        /\ m.type = "OK-AUTH" => m.status \in {"true", "false"}
        /\ m.type = "STORED" => m.id \in Nat /\ m.event \in Events
        /\ m.type = "EOSE" => m.id \in Nat /\ m = EOSE(m.id)
        /\ m.type = "CLOSED" => m.id \in Nat /\ m.empty \in BOOLEAN /\ m = CLOSED(m.id, m.empty)
    /\ {Msg("NEG-ERR"), Msg("AUTH")} \subseteq FromRelay
    /\ \A n \in Nat : NEG(n) \in FromRelay /\ EOSE(n) \in FromRelay
    /\ \A e \in Events : \A s \in {"true", "false", "auth-required"} : OK(e, s) \in FromRelay
    /\ \A s \in {"true", "false"} : [type |-> "OK-AUTH", status |-> s] \in FromRelay
    /\ \A n \in Nat : \A e \in BOOLEAN : CLOSED(n, e) \in FromRelay
<1>1. \A m \in FromRelay :
        /\ m.type \in {"NEG-ERR", "AUTH", "NEG-MSG", "OK", "OK-AUTH", "STORED", "EOSE", "CLOSED"}
        /\ m.type = "NEG-MSG" => m.n \in Nat
        /\ m.type = "OK" => m.event \in Events /\ m.status \in {"true", "false", "auth-required"}
        /\ m.type = "OK-AUTH" => m.status \in {"true", "false"}
        /\ m.type = "STORED" => m.id \in Nat /\ m.event \in Events
        /\ m.type = "EOSE" => m.id \in Nat
        /\ m.type = "CLOSED" => m.id \in Nat /\ m.empty \in BOOLEAN
  BY DEF FromRelay
<1>2. \A m \in FromRelay :
        /\ m.type = "OK" => m = OK(m.event, m.status)
        /\ m.type = "EOSE" => m = EOSE(m.id)
        /\ m.type = "CLOSED" => m = CLOSED(m.id, m.empty)
  BY DEF FromRelay, OK, EOSE, CLOSED
<1>3. /\ {Msg("NEG-ERR"), Msg("AUTH")} \subseteq FromRelay
      /\ \A n \in Nat : NEG(n) \in FromRelay /\ EOSE(n) \in FromRelay
  BY DEF FromRelay, Msg, NEG, EOSE
<1>4. /\ \A e \in Events : \A s \in {"true", "false", "auth-required"} : OK(e, s) \in FromRelay
      /\ \A s \in {"true", "false"} : [type |-> "OK-AUTH", status |-> s] \in FromRelay
      /\ \A n \in Nat : \A e \in BOOLEAN : CLOSED(n, e) \in FromRelay
  BY DEF FromRelay, OK, CLOSED
<1> QED BY <1>1, <1>2, <1>3, <1>4

LEMMA Notices ==
    /\ \A m \in Notice : m \in FromRelay \/ m.type \in {"DISCONNECTED", "AUTHENTICATED", "AUTH-FAILED"}
    /\ \A t \in {"DISCONNECTED", "AUTHENTICATED", "AUTH-FAILED"} : Msg(t) \in Notice /\ Msg(t).type = t
    /\ FromRelay \subseteq Notice
BY DEF Notice, Msg

LEMMA MessageTypes ==
    /\ \A t : Msg(t).type = t
    /\ \A n : NEG(n).type = "NEG-MSG" /\ NEG(n).n = n
    /\ \A e : EVENT(e).type = "EVENT" /\ EVENT(e).event = e
    /\ \A e, s : OK(e, s).type = "OK" /\ OK(e, s).event = e /\ OK(e, s).status = s
    /\ \A i, s : REQ(i, s).type = "REQ" /\ REQ(i, s).id = i /\ REQ(i, s).ids = s
    /\ \A i : CLOSE(i).type = "CLOSE" /\ CLOSE(i).id = i
    /\ \A i : EOSE(i).type = "EOSE" /\ EOSE(i).id = i
    /\ \A i, e : CLOSED(i, e).type = "CLOSED" /\ CLOSED(i, e).id = i /\ CLOSED(i, e).empty = e
BY DEF Msg, NEG, EVENT, OK, REQ, CLOSE, EOSE, CLOSED

(* Steps, as the synchronisation sees them *)

\* A step that is another's business
Aside ==
    /\ UNCHANGED <<connected, fromRelay, registered, sync, cleanup, relay>>
    /\ inbox'["sync"] = inbox["sync"] /\ ("sync" \in lagged' <=> "sync" \in lagged)
    /\ \/ toRelay' = toRelay
       \/ \E x \in {Msg("AUTH"), EVENT(SentEvent)} : toRelay' = Longer(toRelay, x)

LEMMA SendersStepAside ==
    ASSUME Typed, IngesterAuth \/ SendStart \/ SendMessage \/ SendTimeout
    PROVE  Aside
<1>1. toRelay \in Seq(ToRelay) /\ Msg("AUTH") \in ToRelay /\ DOMAIN inbox = {"sync", "send"}
  BY ToRelayMessages DEF Typed
<1>2. CASE IngesterAuth
  <2>1. Append(toRelay, Msg("AUTH")) = Longer(toRelay, Msg("AUTH"))
    BY <1>1, FewMessages DEF Longer
  <2> QED BY <1>2, <2>1 DEF IngesterAuth, Aside, broadcast, client
<1>3. CASE SendStart
  BY <1>3 DEF SendStart, Queue, Longer, Aside, broadcast, client
<1>4. CASE SendTimeout
  BY <1>1, <1>4 DEF SendTimeout, SendEnds, Aside, client
<1>5. CASE SendMessage
  <2> DEFINE m == Head(inbox["send"])
  <2>1. CASE SendEnds("Unconfirmed") \/ SendEnds("Ack") \/ SendEnds("Rejected")
    BY <1>1, <1>5, <2>1 DEF SendMessage, SendEnds, Aside, client
  <2>2. CASE Read("send") /\ (UNCHANGED toRelay \/ Queue(<<EVENT(SentEvent)>>))
    BY <1>1, <1>5, <2>2 DEF SendMessage, Read, Queue, Longer, Aside, client
  <2>3. CASE send = "wait_auth"
    <3>1. wait_for_authentication(m)
      BY <1>5, <2>3 DEF SendMessage
    <3> QED BY <2>1, <2>2, <3>1 DEF wait_for_authentication, Skip
  <2>4. CASE send # "wait_auth"
    <3>1. wait_for_ok(m)
      BY <1>5, <2>4 DEF SendMessage
    <3> QED BY <2>1, <2>2, <3>1 DEF wait_for_ok, Skip
  <2> QED BY <2>3, <2>4
<1> QED BY <1>2, <1>3, <1>4, <1>5

\* What a request hears of a notification
Hears(r, n) ==
    /\ inbox'[r] \in Seq(Notice) /\ Len(inbox'[r]) <= Notifications
    /\ Msgs(inbox'[r]) \subseteq Msgs(inbox[r]) \cup {n}
    /\ r \in lagged => r \in lagged'
    /\ r \notin Receivers => inbox'[r] = inbox[r] /\ (r \in lagged' => r \in lagged)
    /\ r \in Receivers /\ r \notin lagged' => inbox'[r] = Longer(inbox[r], n)
    /\ r \in Receivers => \E old \in Seq(Notice) :
          inbox'[r] = Longer(old, n) /\ (old = inbox[r] \/ (inbox[r] # <<>> /\ old = Rest(inbox[r])))

LEMMA BroadcastIsHeard ==
    ASSUME Typed, MarksAssumption, NEW n \in Notice, Broadcast(n), NEW r \in {"sync", "send"}
    PROVE  Hears(r, n)
<1>1. /\ inbox[r] \in Seq(Notice) /\ Len(inbox[r]) <= Notifications /\ Len(inbox[r]) \in Nat
      /\ Notifications \in Nat \ {0} /\ DOMAIN inbox = {"sync", "send"}
      /\ lagged' = lagged \cup {q \in Receivers : Len(inbox[q]) >= Notifications}
  BY DEF Typed, TypeOK, MarksAssumption, Broadcast
<1>2. CASE r \notin Receivers
  BY <1>1, <1>2 DEF Broadcast, Hears
<1>3. CASE r \in Receivers /\ Len(inbox[r]) < Notifications
  <2> DEFINE w == inbox[r]
  <2>1. inbox'[r] = Append(w, n) /\ Append(w, n) = Longer(w, n)
    BY <1>1, <1>3, FewMessages DEF Broadcast, Longer
  <2>2. /\ inbox'[r] = Longer(inbox[r], n) /\ inbox'[r] \in Seq(Notice) /\ Len(inbox'[r]) = Len(inbox[r]) + 1
        /\ Msgs(inbox'[r]) = Msgs(inbox[r]) \cup {n}
    BY <1>1, <2>1, LongerChannel
  <2>3. Len(inbox'[r]) <= Notifications
    BY <1>1, <1>3, <2>2
  <2> QED BY <1>1, <1>3, <2>2, <2>3 DEF Hears
<1>4. CASE r \in Receivers /\ Len(inbox[r]) >= Notifications
  <2>1. inbox'[r] = Append(Rest(inbox[r]), n) /\ inbox[r] # <<>>
    BY <1>1, <1>4 DEF Broadcast, Rest
  <2>2. PICK old : old = Rest(inbox[r])
    OBVIOUS
  <2>3. old \in Seq(Notice) /\ Msgs(old) \subseteq Msgs(inbox[r]) /\ Len(old) = Len(inbox[r]) - 1
    BY <1>1, <2>1, <2>2, PoppedChannel
  <2>4. /\ inbox'[r] = Longer(old, n) /\ inbox'[r] \in Seq(Notice)
        /\ Len(inbox'[r]) = Len(old) + 1 /\ Msgs(inbox'[r]) = Msgs(old) \cup {n}
    <3>1. inbox'[r] = Longer(old, n)
      BY <2>1, <2>2, <2>3, FewMessages DEF Longer
    <3>2. old \in Seq(Notice)
      BY <2>3
    <3> QED BY <3>1, <3>2, LongerChannel
  <2>5. Len(inbox'[r]) <= Notifications /\ r \in lagged'
    BY <1>1, <1>4, <2>3, <2>4
  <2> QED BY <1>1, <1>4, <2>1, <2>2, <2>3, <2>4, <2>5 DEF Hears, Rest
<1> QED BY <1>1, <1>2, <1>3, <1>4

-----------------------------------------------------------------------------
(* What the relay answers                                                  *)

\* What the relay answers: the messages for one it has read, and what they say.
Answered(m, msgs) ==
    /\ connected /\ toRelay # <<>> /\ m = Head(toRelay) /\ toRelay' = Rest(toRelay)
    /\ msgs \in Seq(FromRelay) /\ fromRelay' = Joined(fromRelay, msgs)
    /\ UNCHANGED <<connected, inbox, lagged, registered, sync, cleanup, send, ingester, challenge>>
    /\ relay' \in RelayState /\ relay.accepted \subseteq relay'.accepted
    /\ relay.answered \subseteq relay'.answered
    /\ (relay.refused => relay'.refused) /\ (relay.silent => relay'.silent)
TurnAnswered(m, msgs) ==
    /\ AtMostOne(msgs, Word) /\ (Has(msgs, Word) => m.type \in Turn)
    /\ \A x \in Msgs(msgs) : x.type = "NEG-MSG" => x.n = relay.neg + 1 /\ relay'.neg = relay.neg + 1
    /\ relay'.neg = relay.neg \/ m.type \in Turn \/ m.type = "NEG-CLOSE"
    /\ m.type = "NEG-CLOSE" => relay'.neg = 0
    /\ m.type \in Turn /\ ~relay'.silent => Has(msgs, Word)
BatchAnswered(m, msgs) ==
    /\ \A x \in Msgs(msgs) : Batch(x) => m.type = "REQ" /\ x.id = m.id
    /\ \A id \in relay'.open : id \in relay.open \/ (m.type = "REQ" /\ id = m.id)
    /\ m.type = "CLOSE" => m.id \notin relay'.open
    /\ \A x \in Msgs(msgs) : x.type = "CLOSED" => relay'.open = relay.open
    /\ \A x \in Msgs(msgs) : x.type = "EOSE" => m.ids \subseteq relay'.answered
    /\ \A x, y \in Msgs(msgs) : x.type = "CLOSED" /\ x.empty /\ y.type = "STORED" =>
          y.event \in relay'.answered
    /\ \A n \in DOMAIN msgs : msgs[n].type = "CLOSED" /\ ~relay'.refused =>
          \E k \in DOMAIN msgs : k < n /\ msgs[k] = EOSE(m.id)
    /\ m.type = "REQ" /\ ~relay'.silent => \E x \in Msgs(msgs) : x.type \in {"EOSE", "CLOSED"}
EventAnswered(m, msgs) ==
    /\ \A x \in Msgs(msgs) : x.type = "OK" =>
          /\ m.type = "EVENT" /\ x.event = m.event
          /\ x.status = "true" => x.event \in relay'.accepted
    /\ m.type = "EVENT" /\ ~relay'.silent => \E x \in Msgs(msgs) : x.type = "OK"
AuthAnswered(m, msgs) ==
    /\ AtMostOne(msgs, {"OK-AUTH"}) /\ (Has(msgs, {"OK-AUTH"}) <=> m.type = "AUTH")
    /\ m.type = "AUTH" => \A x \in Msgs(msgs) : x.type = "OK-AUTH"
    /\ \A p \in DOMAIN msgs : Refused(msgs[p]) =>
          \/ relay.challenged /\ ~relay.authed
          \/ \E q \in DOMAIN msgs : q < p /\ msgs[q].type = "AUTH"
    /\ relay'.challenged /\ ~relay'.authed => \/ relay.challenged /\ ~relay.authed /\ m.type # "AUTH"
                                              \/ Has(msgs, {"AUTH"})

FullyAnswered(m, msgs) ==
    /\ Answered(m, msgs) /\ TurnAnswered(m, msgs) /\ BatchAnswered(m, msgs)
    /\ EventAnswered(m, msgs) /\ AuthAnswered(m, msgs)

\* a REQ: stored events, then the end
IsStored(m, found, stored) ==
    \A x \in Msgs(stored) : x.type = "STORED" /\ x.id = m.id /\ x.event \in found
EndsReq(m, found, ends) ==
    /\ \A x \in Msgs(ends) : x.type \in {"EOSE", "CLOSED"} /\ x.id = m.id
    /\ \A x \in Msgs(ends) : x.type = "CLOSED" => relay'.open = relay.open
    /\ \A x \in Msgs(ends) : x.type = "EOSE" => m.ids \subseteq relay'.answered
    /\ \A x \in Msgs(ends) : x.type = "CLOSED" /\ x.empty => found \subseteq relay'.answered
EndsInOrder(m, ends) ==
    \A n \in DOMAIN ends : ends[n].type = "CLOSED" /\ ~relay'.refused =>
        \E k \in DOMAIN ends : k < n /\ ends[k] = EOSE(m.id)
SameTalk(m) ==
    /\ m.type = "REQ" /\ relay'.neg = relay.neg /\ \A id \in relay'.open : id \in relay.open \/ id = m.id
    /\ relay'.challenged = relay.challenged /\ relay'.authed = relay.authed

LEMMA ReqAnswered ==
    ASSUME NEW m, NEW found, NEW stored \in Seq(FromRelay), NEW ends \in Seq(FromRelay), ends # <<>>,
           NEW msgs, msgs = Joined(stored, ends),
           Answered(m, msgs), IsStored(m, found, stored), EndsReq(m, found, ends),
           EndsInOrder(m, ends), SameTalk(m)
    PROVE  FullyAnswered(m, msgs)
<1>1. Msgs(msgs) = Msgs(stored) \cup Msgs(ends)
  BY JoinedChannels
<1>2. \A x \in Msgs(msgs) : /\ x.type \in {"STORED", "EOSE", "CLOSED"} /\ x.id = m.id
                            /\ x.type = "STORED" => x.event \in found
                            /\ x.type # "STORED" => x \in Msgs(ends)
  BY <1>1 DEF IsStored, EndsReq
<1>3. m.type = "REQ"
  BY DEF SameTalk
<1>4. ~Has(msgs, Word) /\ ~Has(msgs, {"OK-AUTH"})
  BY <1>2 DEF Has, Word
<1>5. AtMostOne(msgs, Word) /\ AtMostOne(msgs, {"OK-AUTH"})
  BY <1>4 DEF AtMostOne, Has, Msgs
<1>6. TurnAnswered(m, msgs)
  BY <1>2, <1>3, <1>4, <1>5 DEF TurnAnswered, Turn, SameTalk
<1>7. EventAnswered(m, msgs)
  BY <1>2, <1>3 DEF EventAnswered
<1>8. AuthAnswered(m, msgs)
  <2>1. \A p \in DOMAIN msgs : msgs[p] \in Msgs(msgs)
    BY DEF Msgs
  <2>2. \A p \in DOMAIN msgs : ~Refused(msgs[p])
    BY <1>2, <2>1 DEF Refused
  <2> QED BY <1>3, <1>4, <1>5, <2>2 DEF AuthAnswered, SameTalk
<1>9. ASSUME NEW n \in DOMAIN msgs, msgs[n].type = "CLOSED", ~relay'.refused
      PROVE  \E k \in DOMAIN msgs : k < n /\ msgs[k] = EOSE(m.id)
  <2>1. /\ DOMAIN stored = 1 .. Len(stored) /\ DOMAIN ends = 1 .. Len(ends)
        /\ DOMAIN msgs = 1 .. Len(stored) + Len(ends)
    BY JoinedPlaces
  <2>2. \A k \in 1 .. Len(stored) : msgs[k] = stored[k]
    BY JoinedPlaces
  <2>3. \A k \in 1 .. Len(ends) : msgs[Len(stored) + k] = ends[k]
    BY JoinedPlaces
  <2>4. \A k \in 1 .. Len(stored) + Len(ends) :
            k > Len(stored) => k - Len(stored) \in 1 .. Len(ends) /\ msgs[k] = ends[k - Len(stored)]
    BY JoinedPlaces
  <2>5. Len(stored) \in Nat /\ Len(ends) \in Nat
    OBVIOUS
  <2>6. n > Len(stored)
    <3>1. \A k \in 1 .. Len(stored) : stored[k].type = "STORED"
      BY <2>1 DEF Msgs, IsStored
    <3> QED BY <1>9, <2>1, <2>2, <2>5, <3>1
  <2>7. PICK k \in DOMAIN ends : k < n - Len(stored) /\ ends[k] = EOSE(m.id)
    BY <1>9, <2>1, <2>4, <2>6 DEF EndsInOrder
  <2>8. Len(stored) + k \in DOMAIN msgs /\ Len(stored) + k < n /\ msgs[Len(stored) + k] = EOSE(m.id)
    BY <2>1, <2>3, <2>5, <2>6, <2>7
  <2> QED BY <2>8
<1>10. \E x \in Msgs(ends) : x.type \in {"EOSE", "CLOSED"}
  <2>1. Head(ends) \in Msgs(ends)
    BY PoppedChannel
  <2> QED BY <2>1 DEF EndsReq
<1>11. BatchAnswered(m, msgs)
  <2>1. \A x \in Msgs(msgs) : x.type = "CLOSED" => relay'.open = relay.open
    BY <1>2 DEF EndsReq
  <2>2. \A x \in Msgs(msgs) : x.type = "EOSE" => m.ids \subseteq relay'.answered
    BY <1>2 DEF EndsReq
  <2>3. \A x, y \in Msgs(msgs) : x.type = "CLOSED" /\ x.empty /\ y.type = "STORED" =>
           y.event \in relay'.answered
    BY <1>2 DEF EndsReq
  <2>4. \A n \in DOMAIN msgs : msgs[n].type = "CLOSED" /\ ~relay'.refused =>
           \E k \in DOMAIN msgs : k < n /\ msgs[k] = EOSE(m.id)
    BY <1>9
  <2>5. \E x \in Msgs(msgs) : x.type \in {"EOSE", "CLOSED"}
    BY <1>1, <1>10
  <2>6. \A x \in Msgs(msgs) : Batch(x) => m.type = "REQ" /\ x.id = m.id
    BY <1>2, <1>3
  <2>7. m.type # "CLOSE" /\ \A id \in relay'.open : id \in relay.open \/ (m.type = "REQ" /\ id = m.id)
    BY <1>3 DEF SameTalk
  <2> QED BY <2>1, <2>2, <2>3, <2>4, <2>5, <2>6, <2>7 DEF BatchAnswered
<1> QED BY <1>6, <1>7, <1>8, <1>11 DEF FullyAnswered

LEMMA AnswersSay ==
    ASSUME Typed, ChunksAssumption, RelayAnswers
    PROVE  \E m \in Msgs(toRelay), msgs \in Seq(FromRelay) : FullyAnswered(m, msgs)
<1> DEFINE m == Head(toRelay)
<1>1. /\ toRelay \in Seq(ToRelay) /\ toRelay # <<>> /\ connected /\ relay \in RelayState
      /\ IsFiniteSet(Events) /\ fromRelay \in Seq(FromRelay)
      /\ AnswerNegentropy(m) \/ AnswerEvent(m) \/ AnswerAuth(m) \/ AnswerReq(m) \/ AnswerClose(m)
  BY DEF Typed, RelayAnswers, ChunksAssumption
<1>2. m \in Msgs(toRelay) /\ m \in ToRelay
  BY <1>1, PoppedChannel
<1> HIDE DEF m
<1>4. /\ m.type = "EVENT" => m.event \in Events
      /\ m.type = "REQ" => m.id \in Nat /\ m.ids \in SUBSET Events
  BY <1>2, ToRelayMessages
<1>3. SUFFICES \E msgs \in Seq(FromRelay) : FullyAnswered(m, msgs)
  BY <1>2
\* the common part
<1>5. ASSUME NEW msgs \in Seq(FromRelay), NEW r \in RelayState, Answers(msgs, r),
             relay.accepted \subseteq r.accepted, relay.answered \subseteq r.answered,
             relay.refused => r.refused, relay.silent => r.silent
      PROVE  Answered(m, msgs)
  BY <1>1, <1>5 DEF Answers, Answered, Joined, Rest, broadcast, client, auth, m
\* nothing is answered
<1>6. ASSUME NEW r \in RelayState, Answers(<<>>, r), relay.accepted \subseteq r.accepted,
             relay.answered \subseteq r.answered, relay.refused => r.refused, relay.silent => r.silent,
             r.open \subseteq relay.open, m.type = "CLOSE" => m.id \notin r.open,
             r.neg = relay.neg \/ m.type = "NEG-CLOSE", m.type = "NEG-CLOSE" => r.neg = 0,
             r.silent \/ m.type \in {"CLOSE", "NEG-CLOSE"}, m.type # "AUTH",
             r.challenged = relay.challenged, r.authed = relay.authed
      PROVE  FullyAnswered(m, <<>>)
  <2>1. Answered(m, <<>>) /\ relay' = r
    <3>1. <<>> \in Seq(FromRelay)
      OBVIOUS
    <3> QED BY <1>5, <1>6, <3>1 DEF Answers
  <2>2. /\ Msgs(<<>>) = {} /\ DOMAIN <<>> = {} /\ \A T : ~Has(<<>>, T) /\ AtMostOne(<<>>, T)
    BY DEF Msgs, Has, AtMostOne
  <2>3. TurnAnswered(m, <<>>)
    BY <1>6, <2>1, <2>2 DEF TurnAnswered, Turn
  <2>4. BatchAnswered(m, <<>>)
    BY <1>6, <2>1, <2>2 DEF BatchAnswered
  <2>5. EventAnswered(m, <<>>) /\ AuthAnswered(m, <<>>)
    BY <1>6, <2>1, <2>2 DEF EventAnswered, AuthAnswered
  <2> QED BY <2>1, <2>3, <2>4, <2>5 DEF FullyAnswered
\* one message
<1>7. ASSUME NEW x \in FromRelay
      PROVE  /\ <<x>> \in Seq(FromRelay) /\ Msgs(<<x>>) = {x} /\ DOMAIN <<x>> = {1} /\ <<x>>[1] = x
             /\ \A T : AtMostOne(<<x>>, T) /\ (Has(<<x>>, T) <=> x.type \in T)
  BY SingleOnce, FewMessages
<1>8. ASSUME Silent, m.type \in Turn \cup {"EVENT", "REQ"} PROVE FullyAnswered(m, <<>>)
  <2> DEFINE r == [relay EXCEPT !.silent = TRUE]
  <2>1. /\ r \in RelayState /\ r.accepted = relay.accepted /\ r.answered = relay.answered
        /\ r.refused = relay.refused /\ r.silent = TRUE /\ r.open = relay.open /\ r.neg = relay.neg
        /\ r.challenged = relay.challenged /\ r.authed = relay.authed
    BY <1>1 DEF RelayState
  <2>2. Answers(<<>>, r) /\ m.type \notin {"CLOSE", "NEG-CLOSE", "AUTH"}
    BY <1>8 DEF Silent, Turn
  <2> HIDE DEF r
  <2> QED BY <1>6, <2>1, <2>2
<1>9. CASE AnswerNegentropy(m)
  <2>1. CASE Silent
    <3>1. <<>> \in Seq(FromRelay) /\ m.type \in Turn \cup {"EVENT", "REQ"}
      BY <1>9 DEF AnswerNegentropy, Turn
    <3> QED BY <1>8, <2>1, <3>1
  <2>2. ASSUME NEW x \in FromRelay, NEW k \in Nat, x.type \in Word, Answers(<<x>>, [relay EXCEPT !.neg = k]),
               x.type = "NEG-MSG" => x.n = relay.neg + 1 /\ k = relay.neg + 1
        PROVE  FullyAnswered(m, <<x>>)
    <3> DEFINE r == [relay EXCEPT !.neg = k]
               msgs == <<x>>
    <3>1. /\ r \in RelayState /\ r.accepted = relay.accepted /\ r.answered = relay.answered
          /\ r.refused = relay.refused /\ r.silent = relay.silent /\ r.open = relay.open /\ r.neg = k
          /\ r.challenged = relay.challenged /\ r.authed = relay.authed
      BY <1>1 DEF RelayState
    <3>2. Answers(msgs, r) /\ relay' = r
      BY <2>2 DEF Answers
    <3>3. /\ msgs \in Seq(FromRelay) /\ Msgs(msgs) = {x} /\ DOMAIN msgs = {1} /\ msgs[1] = x
          /\ \A T : AtMostOne(msgs, T) /\ (Has(msgs, T) <=> x.type \in T)
      BY <1>7
    <3>4. m.type \in Turn
      BY <1>9 DEF AnswerNegentropy, Turn
    <3> HIDE DEF r, msgs
    <3>5. Answered(m, msgs)
      BY <1>5, <3>1, <3>2, <3>3
    <3>8. AtMostOne(msgs, Word) /\ Has(msgs, Word) /\ relay'.neg = k
      BY <2>2, <3>1, <3>2, <3>3
    <3>6. TurnAnswered(m, msgs)
      BY <2>2, <3>3, <3>4, <3>8 DEF TurnAnswered, Turn
    <3>7. BatchAnswered(m, msgs) /\ EventAnswered(m, msgs) /\ AuthAnswered(m, msgs)
      BY <2>2, <3>1, <3>2, <3>3, <3>4
         DEF BatchAnswered, EventAnswered, AuthAnswered, Batch, Word, Turn, Refused
    <3> QED BY <3>5, <3>6, <3>7 DEF FullyAnswered, msgs
  <2>3. CASE Answers(<<NEG(relay.neg + 1)>>, [relay EXCEPT !.neg = @ + 1])
    <3>1. relay.neg + 1 \in Nat /\ [relay EXCEPT !.neg = @ + 1] = [relay EXCEPT !.neg = relay.neg + 1]
      BY <1>1 DEF RelayState
    <3>2. NEG(relay.neg + 1) \in FromRelay /\ NEG(relay.neg + 1).type \in Word
          /\ NEG(relay.neg + 1).n = relay.neg + 1
      BY <3>1, FromRelayMessages, MessageTypes DEF Word
    <3>3. FullyAnswered(m, <<NEG(relay.neg + 1)>>) /\ <<NEG(relay.neg + 1)>> \in Seq(FromRelay)
      BY <1>7, <2>2, <2>3, <3>1, <3>2
    <3> QED BY <3>3
  <2>4. CASE Answers(<<Msg("NEG-ERR")>>, [relay EXCEPT !.neg = 0])
    <3>1. Msg("NEG-ERR") \in FromRelay /\ Msg("NEG-ERR").type = "NEG-ERR" /\ "NEG-ERR" \in Word
      BY FromRelayMessages, MessageTypes DEF Word
    <3>3. FullyAnswered(m, <<Msg("NEG-ERR")>>) /\ <<Msg("NEG-ERR")>> \in Seq(FromRelay)
      BY <1>7, <2>2, <2>4, <3>1
    <3> QED BY <3>3
  <2> QED BY <1>9, <2>1, <2>3, <2>4 DEF AnswerNegentropy
\* one answer to an EVENT or an AUTH
<1>10. ASSUME NEW x \in FromRelay, NEW r \in RelayState, Answers(<<x>>, r),
              relay.accepted \subseteq r.accepted, r.answered = relay.answered,
              r.refused = relay.refused, r.silent = relay.silent, r.neg = relay.neg, r.open = relay.open,
              \/ /\ m.type = "EVENT" /\ x.type = "OK" /\ x.event = m.event
                 /\ x.status = "true" => x.event \in r.accepted
                 /\ r.challenged = relay.challenged /\ r.authed = relay.authed
                 /\ x.status = "auth-required" => relay.challenged /\ ~relay.authed
              \/ m.type = "AUTH" /\ x.type = "OK-AUTH" /\ (r.challenged => r.authed)
       PROVE  \E msgs \in Seq(FromRelay) : FullyAnswered(m, msgs)
  <2> DEFINE msgs == <<x>>
  <2>1. Answers(msgs, r) /\ relay' = r
    BY <1>10 DEF Answers
  <2>2. /\ msgs \in Seq(FromRelay) /\ Msgs(msgs) = {x} /\ DOMAIN msgs = {1} /\ msgs[1] = x
        /\ \A T : AtMostOne(msgs, T) /\ (Has(msgs, T) <=> x.type \in T)
    BY <1>7
  <2> HIDE DEF msgs
  <2>3. Answered(m, msgs)
    BY <1>5, <1>10, <2>1, <2>2
  <2>4. AtMostOne(msgs, Word) /\ ~Has(msgs, Word) /\ AtMostOne(msgs, {"OK-AUTH"})
        /\ (Has(msgs, {"OK-AUTH"}) <=> x.type = "OK-AUTH")
    BY <1>10, <2>2 DEF Word
  <2>5. TurnAnswered(m, msgs)
    BY <1>10, <2>1, <2>2, <2>4 DEF TurnAnswered, Turn
  <2>6. BatchAnswered(m, msgs)
    BY <1>10, <2>1, <2>2 DEF BatchAnswered, Batch
  <2>7. EventAnswered(m, msgs)
    BY <1>10, <2>1, <2>2 DEF EventAnswered
  <2>8. AuthAnswered(m, msgs)
    BY <1>10, <2>1, <2>2, <2>4 DEF AuthAnswered, Refused
  <2> QED BY <2>2, <2>3, <2>5, <2>6, <2>7, <2>8 DEF FullyAnswered
<1>11. CASE AnswerAuth(m)
  <2>1. PICK status \in {"true", "false"} :
           Answers(<<[type |-> "OK-AUTH", status |-> status]>>,
                   [relay EXCEPT !.authed = @ \/ status = "true", !.challenged = status = "true"])
    BY <1>11 DEF AnswerAuth
  <2> DEFINE x == [type |-> "OK-AUTH", status |-> status]
             r == [relay EXCEPT !.authed = @ \/ status = "true", !.challenged = status = "true"]
  <2>2. x \in FromRelay /\ x.type = "OK-AUTH" /\ m.type = "AUTH"
    BY <1>11, FromRelayMessages DEF AnswerAuth
  <2>3. /\ r \in RelayState /\ r.accepted = relay.accepted /\ r.answered = relay.answered
        /\ r.refused = relay.refused /\ r.silent = relay.silent /\ r.open = relay.open /\ r.neg = relay.neg
        /\ (r.challenged => r.authed)
    BY <1>1 DEF RelayState
  <2>4. Answers(<<x>>, r)
    BY <2>1
  <2> HIDE DEF x, r
  <2> QED BY <1>10, <2>2, <2>3, <2>4
<1>12. CASE AnswerEvent(m)
  <2>1. m.type = "EVENT" /\ m.event \in Events
    BY <1>4, <1>12 DEF AnswerEvent
  <2>2. CASE AuthRelay /\ ~relay.authed /\ relay.challenged
    <3> DEFINE r == [relay EXCEPT !.challenged = TRUE]
    <3>1. r = relay
      BY <1>1, <2>2 DEF RelayState
    <3>2. Answers(<<>> \o <<OK(m.event, "auth-required")>>, r)
      BY <1>12, <2>2 DEF AnswerEvent
    <3>3. OK(m.event, "auth-required") \in FromRelay
      BY <2>1, FromRelayMessages
    <3>4. <<>> \o <<OK(m.event, "auth-required")>> = <<OK(m.event, "auth-required")>>
      OBVIOUS
    <3>5. Answers(<<OK(m.event, "auth-required")>>, relay)
      BY <3>1, <3>2, <3>4
    <3> HIDE DEF r
    <3>6. /\ OK(m.event, "auth-required").type = "OK" /\ OK(m.event, "auth-required").event = m.event
          /\ OK(m.event, "auth-required").status = "auth-required"
      BY MessageTypes
    <3> QED BY <1>1, <1>10, <2>1, <2>2, <3>3, <3>5, <3>6
  <2>3. CASE AuthRelay /\ ~relay.authed /\ ~relay.challenged
    <3> DEFINE r == [relay EXCEPT !.challenged = TRUE]
               x == OK(m.event, "auth-required")
               msgs == <<Msg("AUTH"), x>>
    <3>1. /\ r \in RelayState /\ r.accepted = relay.accepted /\ r.answered = relay.answered
          /\ r.refused = relay.refused /\ r.silent = relay.silent /\ r.open = relay.open /\ r.neg = relay.neg
          /\ r.challenged = TRUE /\ r.authed = relay.authed
      BY <1>1 DEF RelayState
    <3>2. Answers(<<Msg("AUTH")>> \o <<x>>, r)
      BY <1>12, <2>3 DEF AnswerEvent
    <3>3. x \in FromRelay /\ Msg("AUTH") \in FromRelay /\ x.type = "OK" /\ Msg("AUTH").type = "AUTH"
          /\ x.event = m.event /\ x.status = "auth-required"
      BY <2>1, FromRelayMessages, MessageTypes
    <3>4. <<Msg("AUTH")>> \o <<x>> = msgs
      BY TwoMessages
    <3>5. Answers(msgs, r) /\ relay' = r
      BY <3>2, <3>4 DEF Answers
    <3>6. /\ msgs \in Seq(FromRelay) /\ Msgs(msgs) = {Msg("AUTH"), x}
          /\ DOMAIN msgs = {1, 2} /\ msgs[1] = Msg("AUTH") /\ msgs[2] = x
      <4>1. \A a, b : DOMAIN <<a, b>> = {1, 2} /\ <<a, b>>[1] = a /\ <<a, b>>[2] = b
        OBVIOUS
      <4>2. DOMAIN msgs = {1, 2} /\ msgs[1] = Msg("AUTH") /\ msgs[2] = x
        <5> HIDE DEF x
        <5> QED BY <4>1
      <4>3. msgs \in Seq(FromRelay) /\ Msgs(msgs) = {Msg("AUTH"), x}
        <5> HIDE DEF x
        <5> QED BY <3>3, FewMessages
      <4> QED BY <4>2, <4>3
    <3> HIDE DEF r, msgs, x
    <3>7. AtMostOne(msgs, Word) /\ ~Has(msgs, Word) /\ AtMostOne(msgs, {"OK-AUTH"})
          /\ ~Has(msgs, {"OK-AUTH"}) /\ Has(msgs, {"AUTH"})
      BY <3>3, <3>6 DEF AtMostOne, Has, Word
    <3>8. Answered(m, msgs)
      BY <1>5, <3>1, <3>5, <3>6
    <3>9. TurnAnswered(m, msgs)
      BY <2>1, <3>1, <3>3, <3>5, <3>6, <3>7 DEF TurnAnswered, Turn
    <3>10. BatchAnswered(m, msgs) /\ EventAnswered(m, msgs)
      BY <2>1, <3>1, <3>3, <3>5, <3>6 DEF BatchAnswered, EventAnswered, Batch
    <3>11. AuthAnswered(m, msgs)
      BY <2>1, <3>1, <3>3, <3>5, <3>6, <3>7 DEF AuthAnswered, Refused
    <3> QED BY <3>6, <3>8, <3>9, <3>10, <3>11 DEF FullyAnswered
  <2>4. CASE ~(AuthRelay /\ ~relay.authed)
    <3>1. CASE Silent
      <4>1. <<>> \in Seq(FromRelay)
        OBVIOUS
      <4> QED BY <1>8, <2>1, <3>1, <4>1
    <3>2. CASE Answers(<<OK(m.event, "false")>>, relay)
      <4>1. OK(m.event, "false") \in FromRelay
        BY <2>1, FromRelayMessages
      <4> QED BY <1>1, <1>10, <2>1, <3>2, <4>1, MessageTypes
    <3>3. CASE Answers(<<OK(m.event, "true")>>, [relay EXCEPT !.accepted = @ \cup {m.event}])
      <4> DEFINE r == [relay EXCEPT !.accepted = @ \cup {m.event}]
      <4>1. /\ r \in RelayState /\ r.accepted = relay.accepted \cup {m.event} /\ r.answered = relay.answered
            /\ r.refused = relay.refused /\ r.silent = relay.silent /\ r.open = relay.open /\ r.neg = relay.neg
            /\ r.challenged = relay.challenged /\ r.authed = relay.authed
        BY <1>1, <2>1 DEF RelayState
      <4>2. OK(m.event, "true") \in FromRelay
        BY <2>1, FromRelayMessages
      <4>3. Answers(<<OK(m.event, "true")>>, r)
        BY <3>3
      <4> HIDE DEF r
      <4> QED BY <1>10, <2>1, <4>1, <4>2, <4>3, MessageTypes
    <3> QED BY <1>12, <2>4, <3>1, <3>2, <3>3 DEF AnswerEvent
  <2> QED BY <2>2, <2>3, <2>4
<1>13. CASE AnswerClose(m)
  <2> DEFINE r == [relay EXCEPT !.open = @ \ {m.id}]
             c == [relay EXCEPT !.neg = 0]
  <2>1. CASE m.type = "CLOSE" /\ Answers(<<>>, r)
    <3>1. /\ r \in RelayState /\ r.accepted = relay.accepted /\ r.answered = relay.answered
          /\ r.refused = relay.refused /\ r.silent = relay.silent /\ r.open = relay.open \ {m.id}
          /\ r.neg = relay.neg /\ r.challenged = relay.challenged /\ r.authed = relay.authed
      BY <1>1 DEF RelayState
    <3>2. <<>> \in Seq(FromRelay)
      OBVIOUS
    <3> HIDE DEF r
    <3> QED BY <1>6, <2>1, <3>1, <3>2
  <2>2. CASE m.type = "NEG-CLOSE" /\ Answers(<<>>, c)
    <3>1. /\ c \in RelayState /\ c.accepted = relay.accepted /\ c.answered = relay.answered
          /\ c.refused = relay.refused /\ c.silent = relay.silent /\ c.open = relay.open
          /\ c.neg = 0 /\ c.challenged = relay.challenged /\ c.authed = relay.authed
      BY <1>1 DEF RelayState
    <3>2. <<>> \in Seq(FromRelay)
      OBVIOUS
    <3> HIDE DEF c
    <3> QED BY <1>6, <2>2, <3>1, <3>2
  <2> QED BY <1>13, <2>1, <2>2 DEF AnswerClose
\* the answers to a REQ: stored events, then the end
<1>14. ASSUME NEW found \in SUBSET m.ids, m.type = "REQ"
       PROVE  \E stored \in Seq(FromRelay) :
                /\ stored = EVENTS(m.id, found)
                /\ \A x \in Msgs(stored) : x.type = "STORED" /\ x.id = m.id /\ x.event \in found
  <2>1. m.id \in Nat /\ found \in SUBSET Events /\ m.ids \in SUBSET Events
    BY <1>4, <1>14
  <2>2. /\ EVENTS(m.id, found) \in Seq(FromRelay)
        /\ Msgs(EVENTS(m.id, found)) = {[type |-> "STORED", id |-> m.id, event |-> e] : e \in found}
    BY <1>1, <2>1, StoredEvents
  <2> QED BY <2>2
<1>15. CASE AnswerReq(m)
  <2>1. m.type = "REQ" /\ m.id \in Nat /\ m.ids \in SUBSET Events
    BY <1>4, <1>15 DEF AnswerReq
  <2> DEFINE told == [relay EXCEPT !.answered = @ \cup m.ids]
             opened == [told EXCEPT !.open = @ \cup {m.id}]
             refusal(found, empty) ==
                [relay EXCEPT !.refused = TRUE, !.answered = @ \cup (IF empty THEN found ELSE {})]
  <2>2. PICK found \in SUBSET m.ids :
          \/ Answers(EVENTS(m.id, found) \o <<EOSE(m.id)>>, opened)
          \/ Answers(EVENTS(m.id, found) \o <<EOSE(m.id), CLOSED(m.id, TRUE)>>, told)
          \/ \E empty \in BOOLEAN :
               Answers(EVENTS(m.id, found) \o <<CLOSED(m.id, empty)>>, refusal(found, empty))
          \/ Silent
    BY <1>15 DEF AnswerReq
  <2>3. PICK stored \in Seq(FromRelay) : stored = EVENTS(m.id, found) /\ IsStored(m, found, stored)
    BY <1>14, <2>1 DEF IsStored
  <2>4. EOSE(m.id) \in FromRelay /\ \A empty \in BOOLEAN : CLOSED(m.id, empty) \in FromRelay
    BY <2>1, FromRelayMessages
  <2>5. /\ EOSE(m.id).type = "EOSE" /\ EOSE(m.id).id = m.id
        /\ \A empty : /\ CLOSED(m.id, empty).type = "CLOSED" /\ CLOSED(m.id, empty).id = m.id
                      /\ CLOSED(m.id, empty).empty = empty
    BY MessageTypes
  <2>6. ASSUME NEW ends \in Seq(FromRelay), NEW r \in RelayState, ends # <<>>, Answers(stored \o ends, r),
               relay.accepted \subseteq r.accepted, relay.answered \subseteq r.answered,
               relay.refused => r.refused, r.silent = relay.silent, r.neg = relay.neg,
               \A id \in r.open : id \in relay.open \/ id = m.id,
               r.challenged = relay.challenged, r.authed = relay.authed,
               relay' = r => EndsReq(m, found, ends) /\ EndsInOrder(m, ends)
        PROVE  \E msgs \in Seq(FromRelay) : FullyAnswered(m, msgs)
    <3>1. PICK msgs : msgs = Joined(stored, ends)
      OBVIOUS
    <3>2. msgs \in Seq(FromRelay)
      BY <3>1, JoinedChannels
    <3>3. Answers(msgs, r) /\ relay' = r
      BY <2>6, <3>1 DEF Joined, Answers
    <3>4. Answered(m, msgs)
      BY <1>5, <2>6, <3>2, <3>3
    <3>5. SameTalk(m)
      BY <2>1, <2>6, <3>3 DEF SameTalk
    <3> QED BY <2>3, <2>6, <3>1, <3>2, <3>3, <3>4, <3>5, ReqAnswered
  <2>7. CASE Silent
    <3>1. <<>> \in Seq(FromRelay)
      OBVIOUS
    <3> QED BY <1>8, <2>1, <2>7, <3>1
  <2>8. CASE Answers(EVENTS(m.id, found) \o <<EOSE(m.id)>>, opened)
    <3>1. PICK ends : ends = <<EOSE(m.id)>>
      OBVIOUS
    <3>2. /\ ends \in Seq(FromRelay) /\ Msgs(ends) = {EOSE(m.id)} /\ DOMAIN ends = {1}
          /\ ends[1] = EOSE(m.id) /\ ends # <<>>
      <4>1. <<EOSE(m.id)>> # <<>>
        OBVIOUS
      <4> QED BY <1>7, <2>4, <3>1, <4>1
    <3>3. /\ opened \in RelayState /\ opened.accepted = relay.accepted
          /\ opened.answered = relay.answered \cup m.ids
          /\ opened.refused = relay.refused /\ opened.silent = relay.silent /\ opened.neg = relay.neg
          /\ opened.open = relay.open \cup {m.id}
          /\ opened.challenged = relay.challenged /\ opened.authed = relay.authed
      BY <1>1, <2>1 DEF RelayState
    <3>4. Answers(stored \o ends, opened)
      BY <2>3, <2>8, <3>1
    <3> HIDE DEF opened
    <3>5. relay' = opened => EndsReq(m, found, ends) /\ EndsInOrder(m, ends)
      BY <2>5, <3>2, <3>3 DEF EndsReq, EndsInOrder
    <3> QED BY <2>6, <3>2, <3>3, <3>4, <3>5
  <2>9. CASE Answers(EVENTS(m.id, found) \o <<EOSE(m.id), CLOSED(m.id, TRUE)>>, told)
    <3>1. PICK ends : ends = <<EOSE(m.id), CLOSED(m.id, TRUE)>>
      OBVIOUS
    <3>2. /\ ends \in Seq(FromRelay) /\ Msgs(ends) = {EOSE(m.id), CLOSED(m.id, TRUE)}
          /\ DOMAIN ends = {1, 2} /\ ends[1] = EOSE(m.id) /\ ends[2] = CLOSED(m.id, TRUE) /\ ends # <<>>
      <4>1. EOSE(m.id) \in FromRelay /\ CLOSED(m.id, TRUE) \in FromRelay
        BY <2>4
      <4> DEFINE a == EOSE(m.id)
                 b == CLOSED(m.id, TRUE)
      <4>2. a \in FromRelay /\ b \in FromRelay /\ ends = <<a, b>>
        BY <3>1, <4>1
      <4> HIDE DEF a, b
      <4>3. ends \in Seq(FromRelay) /\ ends # <<>> /\ DOMAIN ends = {1, 2} /\ ends[1] = a /\ ends[2] = b
        BY <4>2
      <4>4. Msgs(ends) = {a, b}
        BY <4>3 DEF Msgs
      <4> QED BY <4>3, <4>4 DEF a, b
    <3>3. /\ told \in RelayState /\ told.accepted = relay.accepted
          /\ told.answered = relay.answered \cup m.ids
          /\ told.refused = relay.refused /\ told.silent = relay.silent /\ told.neg = relay.neg
          /\ told.open = relay.open
          /\ told.challenged = relay.challenged /\ told.authed = relay.authed
      BY <1>1, <2>1 DEF RelayState
    <3>4. Answers(stored \o ends, told)
      BY <2>3, <2>9, <3>1
    <3> HIDE DEF told
    <3>5. relay' = told => EndsReq(m, found, ends) /\ EndsInOrder(m, ends)
      <4>1. /\ CLOSED(m.id, TRUE).type = "CLOSED" /\ CLOSED(m.id, TRUE).id = m.id
            /\ EOSE(m.id).type = "EOSE" /\ EOSE(m.id).id = m.id
        BY <2>5
      <4>2. relay' = told => EndsReq(m, found, ends)
        BY <3>2, <3>3, <4>1 DEF EndsReq
      <4>3. EndsInOrder(m, ends)
        BY <3>2, <4>1 DEF EndsInOrder
      <4> QED BY <4>2, <4>3
    <3> QED BY <2>6, <3>2, <3>3, <3>4, <3>5
  <2>10. ASSUME NEW empty \in BOOLEAN,
                Answers(EVENTS(m.id, found) \o <<CLOSED(m.id, empty)>>, refusal(found, empty))
         PROVE  \E msgs \in Seq(FromRelay) : FullyAnswered(m, msgs)
    <3>1. PICK ends : ends = <<CLOSED(m.id, empty)>>
      OBVIOUS
    <3>2. /\ ends \in Seq(FromRelay) /\ Msgs(ends) = {CLOSED(m.id, empty)} /\ DOMAIN ends = {1}
          /\ ends[1] = CLOSED(m.id, empty) /\ ends # <<>>
      <4>1. <<CLOSED(m.id, empty)>> # <<>>
        OBVIOUS
      <4> QED BY <1>7, <2>4, <3>1, <4>1
    <3> DEFINE r == refusal(found, empty)
    <3>3. /\ r \in RelayState /\ r.accepted = relay.accepted
          /\ relay.answered \subseteq r.answered /\ (empty => found \subseteq r.answered)
          /\ r.refused = TRUE /\ r.silent = relay.silent /\ r.neg = relay.neg
          /\ r.open = relay.open
          /\ r.challenged = relay.challenged /\ r.authed = relay.authed
      BY <1>1, <2>1 DEF RelayState
    <3>4. Answers(stored \o ends, r)
      BY <2>3, <2>10, <3>1
    <3> HIDE DEF r
    <3>5. relay' = r => EndsReq(m, found, ends) /\ EndsInOrder(m, ends)
      BY <2>5, <3>2, <3>3 DEF EndsReq, EndsInOrder
    <3> QED BY <2>6, <3>2, <3>3, <3>4, <3>5
  <2> QED BY <2>2, <2>7, <2>8, <2>9, <2>10
<1> QED BY <1>1, <1>9, <1>11, <1>12, <1>13, <1>15

-----------------------------------------------------------------------------
(* One notification, as the synchronisation takes it                       *)

\* the end of the batch in flight
EndsBatch(m) == m.type \in {"EOSE", "CLOSED"} /\ m.id = sync.down_id
ToldSays(m, y) ==
    /\ y \in SyncState /\ y.pc = sync.pc /\ y.down_id = sync.down_id /\ y.gone = sync.gone
    /\ y.done <=> sync.done \/ (m.type = "NEG-MSG" /\ m.n = Len(Chunks))
    /\ y.downloading <=> sync.downloading /\ ~EndsBatch(m)
    /\ m.type = "NEG-MSG" =>
        /\ y.local = sync.local \cup Chunks[m.n].have
        /\ y.remote = sync.remote \cup Chunks[m.n].need
        /\ y.have = sync.have \cup (Chunks[m.n].have \ sync.local)
        /\ y.need = sync.need \cup (Chunks[m.n].need \ sync.remote)
    /\ m.type # "NEG-MSG" =>
        y.local = sync.local /\ y.remote = sync.remote /\ y.have = sync.have /\ y.need = sync.need
    /\ y.up = IF m.type = "OK" THEN sync.up \ {m.event} ELSE sync.up
    /\ y.sent = IF m.type = "OK" /\ m.event \in sync.up /\ m.status = "true"
                THEN sync.sent \cup {m.event} ELSE sync.sent
    /\ y.failures = IF m.type = "OK" /\ m.event \in sync.up /\ m.status # "true"
                    THEN sync.failures \cup {m.event} ELSE sync.failures
    /\ y.down = IF m.type = "STORED" /\ m.id = sync.down_id THEN sync.down \ {m.event}
                ELSE IF EndsBatch(m) THEN {} ELSE sync.down

LEMMA ChunksAreEvents ==
    ASSUME NEW n \in DOMAIN Chunks
    PROVE  Chunks[n].have \in SUBSET Events /\ Chunks[n].need \in SUBSET Events
<1> DEFINE found(k) == Chunks[k].have \cup Chunks[k].need
<1>1. found(n) \in {found(k) : k \in DOMAIN Chunks}
  OBVIOUS
<1>2. Events = {SentEvent} \cup UNION {found(k) : k \in DOMAIN Chunks}
  BY DEF Events
<1>3. found(n) \subseteq UNION {found(k) : k \in DOMAIN Chunks}
  BY <1>1, Zenon
<1>4. found(n) \subseteq Events
  BY <1>2, <1>3
<1> QED BY <1>4

LEMMA ToldIsSaid ==
    ASSUME sync \in SyncState, NEW m \in Notice, m.type = "NEG-MSG" => m.n \in DOMAIN Chunks
    PROVE  ToldSays(m, Told(sync, m))
<1> DEFINE y == Told(sync, m)
<1>1. CASE m.type = "NEG-MSG"
  <2>1. y = handle_neg_msg(sync, m.n)
    BY <1>1 DEF Told
  <2>2. Chunks[m.n].have \in SUBSET Events /\ Chunks[m.n].need \in SUBSET Events
    BY <1>1, ChunksAreEvents
  <2> DEFINE hv == Chunks[m.n].have
             nd == Chunks[m.n].need
  <2>3. y = [sync EXCEPT !.local = sync.local \cup hv, !.remote = sync.remote \cup nd,
                         !.have = sync.have \cup (hv \ sync.local), !.need = sync.need \cup (nd \ sync.remote),
                         !.done = sync.done \/ m.n = Len(Chunks)]
    BY <2>1 DEF handle_neg_msg
  <2> HIDE DEF hv, nd, y
  <2>4. hv \in SUBSET Events /\ nd \in SUBSET Events
    BY <2>2 DEF hv, nd
  <2>5. /\ y \in SyncState /\ y.pc = sync.pc /\ y.down_id = sync.down_id /\ y.gone = sync.gone
        /\ y.up = sync.up /\ y.sent = sync.sent /\ y.failures = sync.failures /\ y.down = sync.down
        /\ y.downloading = sync.downloading /\ (y.done <=> sync.done \/ m.n = Len(Chunks))
        /\ y.local = sync.local \cup hv /\ y.remote = sync.remote \cup nd
        /\ y.have = sync.have \cup (hv \ sync.local) /\ y.need = sync.need \cup (nd \ sync.remote)
    BY <2>3, <2>4 DEF SyncState
  <2> QED BY <1>1, <2>5 DEF ToldSays, EndsBatch, hv, nd, y
<1>2. CASE m.type = "OK"
  <2>1. y = handle_neg_ok(sync, m)
    BY <1>2 DEF Told
  <2>2. m.event \in Events
    BY <1>2, Notices, FromRelayMessages
  <2> HIDE DEF y
  <2>3. CASE m.event \notin sync.up
    <3>1. y = sync /\ sync.up \ {m.event} = sync.up
      BY <2>1, <2>3 DEF handle_neg_ok
    <3> QED BY <1>2, <2>3, <3>1 DEF ToldSays, EndsBatch, y
  <2>4. CASE m.event \in sync.up /\ m.status = "true"
    <3>1. y = [sync EXCEPT !.up = @ \ {m.event}, !.sent = @ \cup {m.event}]
      BY <2>1, <2>4 DEF handle_neg_ok
    <3>2. /\ y \in SyncState /\ y.pc = sync.pc /\ y.down_id = sync.down_id /\ y.gone = sync.gone
          /\ y.up = sync.up \ {m.event} /\ y.sent = sync.sent \cup {m.event}
          /\ y.failures = sync.failures /\ y.down = sync.down
          /\ y.downloading = sync.downloading /\ y.done = sync.done /\ y.local = sync.local
          /\ y.remote = sync.remote /\ y.have = sync.have /\ y.need = sync.need
      BY <2>2, <3>1 DEF SyncState
    <3> QED BY <1>2, <2>4, <3>2 DEF ToldSays, EndsBatch, y
  <2>5. CASE m.event \in sync.up /\ m.status # "true"
    <3>1. y = [sync EXCEPT !.up = @ \ {m.event}, !.failures = @ \cup {m.event}]
      BY <2>1, <2>5 DEF handle_neg_ok
    <3>2. /\ y \in SyncState /\ y.pc = sync.pc /\ y.down_id = sync.down_id /\ y.gone = sync.gone
          /\ y.up = sync.up \ {m.event} /\ y.failures = sync.failures \cup {m.event}
          /\ y.sent = sync.sent /\ y.down = sync.down
          /\ y.downloading = sync.downloading /\ y.done = sync.done /\ y.local = sync.local
          /\ y.remote = sync.remote /\ y.have = sync.have /\ y.need = sync.need
      BY <2>2, <3>1 DEF SyncState
    <3> QED BY <1>2, <2>5, <3>2 DEF ToldSays, EndsBatch, y
  <2> QED BY <2>3, <2>4, <2>5
<1>3. CASE m.type = "STORED" /\ m.id = sync.down_id
  <2>1. y = [sync EXCEPT !.received = @ \cup {m.event}, !.down = @ \ {m.event}]
    BY <1>3 DEF Told
  <2>2. m.event \in Events
    BY <1>3, Notices, FromRelayMessages
  <2> HIDE DEF y
  <2>3. /\ y \in SyncState /\ y.pc = sync.pc /\ y.down_id = sync.down_id /\ y.gone = sync.gone
        /\ y.up = sync.up /\ y.failures = sync.failures
        /\ y.sent = sync.sent /\ y.down = sync.down \ {m.event}
        /\ y.downloading = sync.downloading /\ y.done = sync.done /\ y.local = sync.local
        /\ y.remote = sync.remote /\ y.have = sync.have /\ y.need = sync.need
    BY <2>1, <2>2 DEF SyncState
  <2> QED BY <1>3, <2>3 DEF ToldSays, EndsBatch, y
<1>4. CASE EndsBatch(m)
  <2>1. y = [sync EXCEPT !.downloading = FALSE, !.down = {}]
    BY <1>4 DEF Told, EndsBatch
  <2> HIDE DEF y
  <2>2. /\ y \in SyncState /\ y.pc = sync.pc /\ y.down_id = sync.down_id /\ y.gone = sync.gone
        /\ y.up = sync.up /\ y.failures = sync.failures
        /\ y.sent = sync.sent /\ y.down = {}
        /\ y.downloading = FALSE /\ y.done = sync.done /\ y.local = sync.local
        /\ y.remote = sync.remote /\ y.have = sync.have /\ y.need = sync.need
    BY <2>1 DEF SyncState
  <2> QED BY <1>4, <2>2 DEF ToldSays, EndsBatch, y
<1>5. CASE ~EndsBatch(m) /\ m.type \notin {"NEG-MSG", "OK"} /\ ~(m.type = "STORED" /\ m.id = sync.down_id)
  <2>1. y = sync
    BY <1>5 DEF Told, EndsBatch
  <2> QED BY <1>5, <2>1 DEF ToldSays
<1> QED BY <1>1, <1>2, <1>3, <1>4, <1>5

-----------------------------------------------------------------------------
(* What a notification leads to                                            *)

\* The uploads and the batch that follow a message, from the state y it leaves.
Uploading(y, f, g) ==
    /\ f \in SUBSET Events /\ g \in SUBSET Events /\ f \subseteq y.have /\ g \subseteq y.have
    /\ Cardinality(y.up \cup f) <= HighWater
    /\ y.have \ (f \cup g) = {} \/ y.up \cup f # {}
Fetches(y, b, new) ==
    /\ new \in BOOLEAN /\ b \in SUBSET Events /\ b \subseteq y.need /\ Cardinality(b) <= BatchSize
    /\ IF new THEN ~y.downloading ELSE y.need = {} \/ y.downloading
GoesFields(z, y, f, g, b, new) ==
    /\ z.have = y.have \ (f \cup g) /\ z.up = y.up \cup f /\ z.gone = y.gone \cup g
    /\ z.local = y.local /\ z.remote = y.remote /\ z.sent = y.sent
    /\ z.failures = y.failures /\ z.done = y.done
    /\ z.need = IF new THEN y.need \ b ELSE y.need
    /\ z.down = IF new THEN b ELSE y.down
    /\ z.down_id = IF new THEN y.down_id + 1 ELSE y.down_id
    /\ z.downloading <=> new \/ y.downloading
GoesOn(y, f, g, b, new) == sync' \in SyncState /\ GoesFields(sync', y, f, g, b, new)
\* what it queues
Queues(m, f, b, new, msgs) ==
    /\ msgs \in Seq(ToRelay) /\ toRelay' = Joined(toRelay, msgs)
    /\ \A x \in Msgs(msgs) :
        \/ x = Msg("NEG-CLOSE") /\ m.type = "NEG-MSG" /\ m.n = Len(Chunks)
        \/ x = NEG(m.n) /\ m.type = "NEG-MSG" /\ m.n # Len(Chunks)
        \/ x = CLOSE(m.id) /\ m.type = "EOSE" /\ m.id = sync.down_id
        \/ \E e \in f : x = EVENT(e)
        \/ x = REQ(sync.down_id + 1, b) /\ new /\ sync'.pc # "error"
    /\ m.type = "NEG-MSG" =>
        (IF m.n = Len(Chunks) THEN Msg("NEG-CLOSE") ELSE NEG(m.n)) \in Msgs(msgs)
    /\ m.type = "EOSE" /\ m.id = sync.down_id => CLOSE(m.id) \in Msgs(msgs)
    /\ \A e \in f : EVENT(e) \in Msgs(msgs)
    /\ new /\ sync'.pc # "error" => REQ(sync.down_id + 1, b) \in Msgs(msgs)
    /\ AtMostOne(msgs, Turn) /\ AtMostOne(msgs, {"REQ"}) /\ ~Has(msgs, {"AUTH"})
Takes(m) ==
    /\ sync.pc = "running" /\ "sync" \notin lagged /\ inbox["sync"] # <<>> /\ m = Head(inbox["sync"])
    /\ m.type \notin {"NEG-ERR", "DISCONNECTED"} /\ ~BatchRefused(sync, m)
    /\ UNCHANGED <<connected, fromRelay, send, ingester, challenge, relay>>
    /\ inbox' = [inbox EXCEPT !["sync"] = IF sync'.pc = "running" THEN Rest(@) ELSE <<>>]
    /\ lagged' = lagged /\ sync'.pc \in {"running", "ok", "error"}
    /\ cleanup' = IF sync'.pc = "error" THEN "pending" ELSE cleanup
    /\ sync'.pc # "error" => (sync'.pc = "ok" <=> Complete(sync'))
Registers(m, new) ==
    registered' = (registered \ (IF m.type = "EOSE" /\ m.id = sync.down_id THEN {m.id} ELSE {}))
                  \cup (IF new THEN {sync.down_id + 1} ELSE {})
SyncGoes(m, y, f, g, b, new, msgs) ==
    /\ Takes(m) /\ ToldSays(m, y) /\ Uploading(y, f, g) /\ Fetches(y, b, new)
    /\ GoesOn(y, f, g, b, new) /\ Queues(m, f, b, new, msgs) /\ Registers(m, new)
    /\ (sync'.pc = "error" => new)

LEMMA SyncUploads ==
    ASSUME NEW y \in SyncState, NEW f \in SUBSET Events, NEW g \in SUBSET Events
    PROVE  [y EXCEPT !.have = @ \ (f \cup g), !.up = @ \cup f, !.gone = @ \cup g] \in SyncState
<1>1. y.have \ (f \cup g) \in SUBSET Events /\ y.up \cup f \in SUBSET Events /\ y.gone \cup g \in SUBSET Events
  BY DEF SyncState
<1>2. \A h, p, q \in SUBSET Events : [y EXCEPT !.have = h, !.up = p, !.gone = q] \in SyncState
  BY DEF SyncState
<1> QED BY <1>1, <1>2

LEMMA SyncFetches ==
    ASSUME NEW y \in SyncState, NEW b \in SUBSET Events
    PROVE  [y EXCEPT !.downloading = TRUE, !.down_id = @ + 1, !.need = @ \ b, !.down = b] \in SyncState
<1>1. y.down_id + 1 \in Nat /\ y.need \ b \in SUBSET Events
  BY DEF SyncState
<1>2. \A n \in Nat : \A s \in SUBSET Events :
         [y EXCEPT !.downloading = TRUE, !.down_id = n, !.need = s, !.down = b] \in SyncState
  BY DEF SyncState
<1> QED BY <1>1, <1>2

LEMMA UploadsAre ==
    ASSUME MarksAssumption, ChunksAssumption, NEW y \in SyncState, Cardinality(y.up) <= HighWater,
           NEW u \in Uploads(y)
    PROVE  \E f, g \in SUBSET Events :
              /\ Uploading(y, f, g) /\ u.msgs \in Seq(ToRelay) /\ Msgs(u.msgs) = {EVENT(e) : e \in f}
              /\ u.y \in SyncState
              /\ u.y = [y EXCEPT !.have = @ \ (f \cup g), !.up = @ \cup f, !.gone = @ \cup g]
<1>1. /\ y.have \in SUBSET Events /\ y.up \in SUBSET Events /\ IsFiniteSet(Events)
      /\ LowWater \in Nat /\ HighWater \in Nat /\ HighWater > 0
  BY DEF SyncState, MarksAssumption, ChunksAssumption
<1>2. CASE u = [y |-> y, msgs |-> <<>>] /\ (y.have = {} \/ Cardinality(y.up) > LowWater)
  <2>1. u.y = y /\ u.msgs = <<>>
    BY <1>2
  <2>2. y.have = {} \/ y.up # {}
    <3>1. Cardinality({}) = 0
      BY FS_EmptySet
    <3>2. CASE y.up = {}
      <4>1. ~(Cardinality(y.up) > LowWater)
        BY <1>1, <3>1, <3>2
      <4> QED BY <1>2, <4>1
    <3> QED BY <3>2
  <2>3. Cardinality({}) = 0 /\ y.up \cup {} = y.up /\ y.have \ ({} \cup {}) = y.have
    BY FS_EmptySet
  <2>4. Uploading(y, {}, {})
    BY <2>2, <2>3 DEF Uploading
  <2>5. y = [y EXCEPT !.have = @ \ ({} \cup {}), !.up = @ \cup {}, !.gone = @ \cup {}]
    BY DEF SyncState
  <2>6. <<>> \in Seq(ToRelay) /\ Msgs(<<>>) = {EVENT(e) : e \in {}}
    BY DEF Msgs
  <2>7. {} \in SUBSET Events /\ u.msgs \in Seq(ToRelay) /\ Msgs(u.msgs) = {EVENT(e) : e \in {}}
        /\ u.y \in SyncState /\ u.y = [y EXCEPT !.have = @ \ ({} \cup {}), !.up = @ \cup {}, !.gone = @ \cup {}]
    BY <2>1, <2>5, <2>6
  <2> QED BY <2>4, <2>7
<1>3. ASSUME NEW f \in SUBSET y.have, NEW g \in SUBSET (y.have \cap Vanishing), u = Uploaded(y, f, g),
             LET flying == Cardinality(y.up \cup f)
             IN flying = HighWater \/ (flying < HighWater /\ f \cup g = y.have)
      PROVE  \E ff, gg \in SUBSET Events :
              /\ Uploading(y, ff, gg) /\ u.msgs \in Seq(ToRelay) /\ Msgs(u.msgs) = {EVENT(e) : e \in ff}
              /\ u.y \in SyncState
              /\ u.y = [y EXCEPT !.have = @ \ (ff \cup gg), !.up = @ \cup ff, !.gone = @ \cup gg]
  <2>1. f \in SUBSET Events /\ g \in SUBSET Events /\ f \subseteq y.have /\ g \subseteq y.have
    BY <1>1
  <2>2. u.y = [y EXCEPT !.have = @ \ (f \cup g), !.up = @ \cup f, !.gone = @ \cup g]
    BY <1>3 DEF Uploaded
  <2>3. u.y \in SyncState
    <3>1. [y EXCEPT !.have = @ \ (f \cup g), !.up = @ \cup f, !.gone = @ \cup g] \in SyncState
      BY <2>1, SyncUploads
    <3> QED BY <2>2, <3>1
  <2>4. u.msgs = [n \in DOMAIN SetToSeq(f) |-> EVENT(SetToSeq(f)[n])]
    BY <1>3 DEF Uploaded
  <2>5. u.msgs \in Seq(ToRelay) /\ Msgs(u.msgs) = {EVENT(e) : e \in f}
    BY <1>1, <2>1, <2>4, UploadedEvents
  <2>6. Cardinality(y.up \cup f) <= HighWater
    <3>1. IsFiniteSet(y.up \cup f) 
      BY <1>1, <2>1, FS_Subset
    <3>2. Cardinality(y.up \cup f) \in Nat
      BY <3>1, FS_CardinalityType
    <3> QED BY <1>1, <1>3, <3>2
  <2>7. y.have \ (f \cup g) = {} \/ y.up \cup f # {}
    <3>1. CASE y.up \cup f = {}
      <4>1. Cardinality(y.up \cup f) = 0
        BY <3>1, FS_EmptySet
      <4> QED BY <1>1, <1>3, <4>1
    <3> QED BY <3>1
  <2>8. Uploading(y, f, g)
    BY <2>1, <2>6, <2>7 DEF Uploading
  <2> QED BY <2>1, <2>2, <2>3, <2>5, <2>8
<1>4. CASE y.have = {} \/ Cardinality(y.up) > LowWater
  <2>1. u = [y |-> y, msgs |-> <<>>]
    BY <1>4 DEF Uploads
  <2> QED BY <1>2, <1>4, <2>1
<1>5. CASE ~(y.have = {} \/ Cardinality(y.up) > LowWater)
  <2>1. PICK p \in (SUBSET y.have) \X (SUBSET (y.have \cap Vanishing)) :
          /\ u = Uploaded(y, p[1], p[2])
          /\ LET flying == Cardinality(y.up \cup p[1])
             IN flying = HighWater \/ (flying < HighWater /\ p[1] \cup p[2] = y.have)
    BY <1>5 DEF Uploads
  <2>2. p[1] \in SUBSET y.have /\ p[2] \in SUBSET (y.have \cap Vanishing)
    OBVIOUS
  <2> QED BY <1>3, <2>1, <2>2
<1> QED BY <1>4, <1>5

LEMMA DownloadsAre ==
    ASSUME MarksAssumption, ChunksAssumption, NEW y \in SyncState, NEW d \in Downloads(y)
    PROVE  \E b \in SUBSET Events, new \in BOOLEAN :
              /\ Fetches(y, b, new)
              /\ d.msgs = (IF new THEN <<REQ(y.down_id + 1, b)>> ELSE <<>>)
              /\ d.register = (IF new THEN {y.down_id + 1} ELSE {})
              /\ d.y \in SyncState
              /\ d.y = IF new THEN [y EXCEPT !.downloading = TRUE, !.down_id = @ + 1, !.need = @ \ b, !.down = b]
                       ELSE y
<1>1. CASE y.need = {} \/ y.downloading
  <2>1. d.y = y /\ d.msgs = <<>> /\ d.register = {}
    <3>1. d = [y |-> y, msgs |-> <<>>, register |-> {}]
      BY <1>1 DEF Downloads
    <3> QED BY <3>1
  <2>2. Fetches(y, {}, FALSE)
    BY <1>1, FS_EmptySet DEF Fetches, MarksAssumption
  <2> QED BY <2>1, <2>2
<1>2. CASE ~(y.need = {} \/ y.downloading)
  <2>1. PICK b \in SUBSET y.need :
          /\ Cardinality(b) = BatchSize \/ (Cardinality(b) < BatchSize /\ b = y.need)
          /\ d = [y |-> [NextId(y) EXCEPT !.need = @ \ b, !.down = b],
                  msgs |-> <<REQ(y.down_id + 1, b)>>, register |-> {y.down_id + 1}]
    BY <1>2 DEF Downloads
  <2>2. b \in SUBSET Events /\ y.down_id + 1 \in Nat
    BY DEF SyncState
  <2>3. d.y = [y EXCEPT !.downloading = TRUE, !.down_id = @ + 1, !.need = @ \ b, !.down = b]
    BY <2>1 DEF NextId, SyncState
  <2>4. d.y \in SyncState
    BY <2>2, <2>3, SyncFetches
  <2>5. Cardinality(b) <= BatchSize
    <3>1. Cardinality(b) \in Nat
      BY <2>2, FS_Subset, FS_CardinalityType DEF ChunksAssumption
    <3> QED BY <2>1, <3>1 DEF MarksAssumption
  <2>6. Fetches(y, b, TRUE)
    BY <1>2, <2>2, <2>5 DEF Fetches
  <2>7. d.msgs = <<REQ(y.down_id + 1, b)>> /\ d.register = {y.down_id + 1}
    BY <2>1
  <2> QED BY <2>2, <2>3, <2>4, <2>6, <2>7
<1> QED BY <1>1, <1>2

\* The synchronisation ends without a result.
GivesUp(why) ==
    /\ Active /\ why \in {"error", "closed"} /\ sync' = [sync EXCEPT !.pc = why] /\ cleanup' = "pending"
    /\ inbox' = [inbox EXCEPT !["sync"] = <<>>] /\ lagged' = lagged \ {"sync"}
    /\ UNCHANGED <<toRelay, registered, connected, fromRelay, send, ingester, challenge, relay>>
    /\ why = "closed" => /\ "sync" \notin lagged /\ inbox["sync"] # <<>>
                         /\ BatchRefused(sync, Head(inbox["sync"]))

LEMMA RepliesAre ==
    ASSUME sync.down_id \in Nat, NEW m \in Notice
    PROVE  LET R == Replies(sync, m)
           IN /\ R \in Seq(ToRelay) /\ \A T : AtMostOne(R, T)
              /\ \A x \in Msgs(R) :
                    \/ x = Msg("NEG-CLOSE") /\ m.type = "NEG-MSG" /\ m.n = Len(Chunks)
                    \/ x = NEG(m.n) /\ m.type = "NEG-MSG" /\ m.n # Len(Chunks)
                    \/ x = CLOSE(m.id) /\ m.type = "EOSE" /\ m.id = sync.down_id
              /\ m.type = "NEG-MSG" =>
                    (IF m.n = Len(Chunks) THEN Msg("NEG-CLOSE") ELSE NEG(m.n)) \in Msgs(R)
              /\ m.type = "EOSE" /\ m.id = sync.down_id => CLOSE(m.id) \in Msgs(R)
<1> DEFINE R == Replies(sync, m)
<1>1. m.type = "NEG-MSG" => m.n \in Nat
  BY Notices, FromRelayMessages
<1>2. ASSUME NEW x \in ToRelay
      PROVE  <<x>> \in Seq(ToRelay) /\ Msgs(<<x>>) = {x} /\ \A T : AtMostOne(<<x>>, T)
  BY FewMessages, SingleOnce
<1>3. Msg("NEG-CLOSE") \in ToRelay /\ CLOSE(sync.down_id) \in ToRelay
  BY ToRelayMessages
<1>4. CASE m.type = "NEG-MSG" /\ m.n = Len(Chunks)
  <2>1. R = <<Msg("NEG-CLOSE")>>
    BY <1>4 DEF Replies
  <2> HIDE DEF R
  <2>2. R \in Seq(ToRelay) /\ Msgs(R) = {Msg("NEG-CLOSE")} /\ \A T : AtMostOne(R, T)
    BY <1>2, <1>3, <2>1
  <2> QED BY <1>4, <2>2 DEF R
<1>5. CASE m.type = "NEG-MSG" /\ m.n # Len(Chunks)
  <2>1. R = <<NEG(m.n)>>
    BY <1>5 DEF Replies
  <2>2. NEG(m.n) \in ToRelay
    BY <1>1, <1>5, ToRelayMessages
  <2> HIDE DEF R
  <2>3. R \in Seq(ToRelay) /\ Msgs(R) = {NEG(m.n)} /\ \A T : AtMostOne(R, T)
    BY <1>2, <2>1, <2>2
  <2> QED BY <1>5, <2>3 DEF R
<1>6. CASE m.type = "EOSE" /\ m.id = sync.down_id
  <2>1. R = <<CLOSE(m.id)>>
    BY <1>6 DEF Replies
  <2> HIDE DEF R
  <2>2. R \in Seq(ToRelay) /\ Msgs(R) = {CLOSE(m.id)} /\ \A T : AtMostOne(R, T)
    BY <1>2, <1>3, <1>6, <2>1
  <2> QED BY <1>6, <2>2 DEF R
<1>7. CASE m.type # "NEG-MSG" /\ ~(m.type = "EOSE" /\ m.id = sync.down_id)
  <2>1. R = <<>>
    BY <1>7 DEF Replies
  <2>2. <<>> \in Seq(ToRelay) /\ Msgs(<<>>) = {} /\ \A T : AtMostOne(<<>>, T)
    BY DEF Msgs, AtMostOne
  <2> HIDE DEF R
  <2> QED BY <1>7, <2>1, <2>2 DEF R
<1> QED BY <1>4, <1>5, <1>6, <1>7

\* what is queued before the batch, and with it
LEMMA QueuedEvents ==
    ASSUME sync.down_id \in Nat, NEW m \in Notice, NEW f \in SUBSET Events,
           NEW R \in Seq(ToRelay), R = Replies(sync, m),
           NEW U \in Seq(ToRelay), Msgs(U) = {EVENT(e) : e \in f}, NEW b,
           sync'.pc = "error", toRelay' = Joined(toRelay, Joined(R, U))
    PROVE  Queues(m, f, b, TRUE, Joined(R, U))
<1> DEFINE v == Joined(R, U)
<1>1. /\ \A T : AtMostOne(R, T)
      /\ \A x \in Msgs(R) :
            \/ x = Msg("NEG-CLOSE") /\ m.type = "NEG-MSG" /\ m.n = Len(Chunks)
            \/ x = NEG(m.n) /\ m.type = "NEG-MSG" /\ m.n # Len(Chunks)
            \/ x = CLOSE(m.id) /\ m.type = "EOSE" /\ m.id = sync.down_id
      /\ m.type = "NEG-MSG" =>
            (IF m.n = Len(Chunks) THEN Msg("NEG-CLOSE") ELSE NEG(m.n)) \in Msgs(R)
      /\ m.type = "EOSE" /\ m.id = sync.down_id => CLOSE(m.id) \in Msgs(R)
  BY RepliesAre
<1>2. v \in Seq(ToRelay) /\ Msgs(v) = Msgs(R) \cup Msgs(U)
  BY JoinedChannels
<1>3. \A x \in Msgs(U) : x.type = "EVENT" /\ \E e \in f : x = EVENT(e)
  BY MessageTypes
<1>4. ~Has(U, Turn) /\ ~Has(U, {"REQ"}) /\ ~Has(U, {"AUTH"})
  BY <1>3 DEF Has, Turn
<1>5. ~Has(R, {"AUTH"})
  BY <1>1, MessageTypes DEF Has
<1>6. AtMostOne(v, Turn) /\ AtMostOne(v, {"REQ"}) /\ ~Has(v, {"AUTH"})
  BY <1>1, <1>4, <1>5, JoinedOnce
<1> HIDE DEF v
<1>7. Queues(m, f, b, TRUE, v)
  BY <1>1, <1>2, <1>3, <1>6 DEF Queues, v
<1> QED BY <1>7 DEF v

BatchQueued(D, b, new) == D = IF new THEN <<REQ(sync.down_id + 1, b)>> ELSE <<>>
BatchMade(m, f, R, U, b, new, D) ==
    /\ sync.down_id \in Nat /\ m \in Notice /\ f \in SUBSET Events
    /\ R \in Seq(ToRelay) /\ R = Replies(sync, m)
    /\ U \in Seq(ToRelay) /\ Msgs(U) = {EVENT(e) : e \in f}
    /\ b \in SUBSET Events /\ new \in BOOLEAN
    /\ D \in Seq(ToRelay) /\ BatchQueued(D, b, new)
    /\ sync'.pc # "error" /\ toRelay' = Joined(toRelay, Joined(Joined(R, U), D))
LEMMA QueuedBatch ==
    ASSUME NEW m, NEW f, NEW R, NEW U, NEW b, NEW new, NEW D, BatchMade(m, f, R, U, b, new, D)
    PROVE  Queues(m, f, b, new, Joined(Joined(R, U), D))
<1>0. /\ sync.down_id \in Nat /\ m \in Notice /\ f \in SUBSET Events
      /\ R \in Seq(ToRelay) /\ R = Replies(sync, m)
      /\ U \in Seq(ToRelay) /\ Msgs(U) = {EVENT(e) : e \in f}
      /\ b \in SUBSET Events /\ new \in BOOLEAN
      /\ D \in Seq(ToRelay) /\ BatchQueued(D, b, new)
      /\ sync'.pc # "error" /\ toRelay' = Joined(toRelay, Joined(Joined(R, U), D))
  BY DEF BatchMade
<1> USE <1>0
<1> DEFINE w == Joined(R, U)
           v == Joined(w, D)
<1>1. /\ \A T : AtMostOne(R, T)
      /\ \A x \in Msgs(R) :
            \/ x = Msg("NEG-CLOSE") /\ m.type = "NEG-MSG" /\ m.n = Len(Chunks)
            \/ x = NEG(m.n) /\ m.type = "NEG-MSG" /\ m.n # Len(Chunks)
            \/ x = CLOSE(m.id) /\ m.type = "EOSE" /\ m.id = sync.down_id
      /\ m.type = "NEG-MSG" =>
            (IF m.n = Len(Chunks) THEN Msg("NEG-CLOSE") ELSE NEG(m.n)) \in Msgs(R)
      /\ m.type = "EOSE" /\ m.id = sync.down_id => CLOSE(m.id) \in Msgs(R)
  BY RepliesAre
<1>2. w \in Seq(ToRelay) /\ Msgs(w) = Msgs(R) \cup Msgs(U)
  BY JoinedChannels
<1>3. \A x \in Msgs(U) : x.type = "EVENT" /\ \E e \in f : x = EVENT(e)
  BY MessageTypes
<1>4. ~Has(U, Turn) /\ ~Has(U, {"REQ"}) /\ ~Has(U, {"AUTH"})
  BY <1>3 DEF Has, Turn
<1>5. ~Has(R, {"AUTH"}) /\ ~Has(R, {"REQ"})
  BY <1>1, MessageTypes DEF Has
<1>6. AtMostOne(w, Turn) /\ AtMostOne(w, {"REQ"}) /\ ~Has(w, {"AUTH"}) /\ ~Has(w, {"REQ"})
  BY <1>1, <1>4, <1>5, JoinedOnce
<1>9. w \in Seq(ToRelay)
  BY <1>2
<1>10. AtMostOne(w, Turn) /\ AtMostOne(w, {"REQ"}) /\ ~Has(w, {"AUTH"}) /\ ~Has(w, {"REQ"})
  BY <1>6
<1>7. CASE new
  <2>1. D = <<REQ(sync.down_id + 1, b)>>
    BY <1>7 DEF BatchQueued
  <2>2. Msgs(D) = {REQ(sync.down_id + 1, b)} /\ \A T : AtMostOne(D, T)
    <3>1. REQ(sync.down_id + 1, b) \in ToRelay
      BY ToRelayMessages
    <3>2. Msgs(<<REQ(sync.down_id + 1, b)>>) = {REQ(sync.down_id + 1, b)}
      BY <3>1, FewMessages
    <3>3. \A T : AtMostOne(<<REQ(sync.down_id + 1, b)>>, T)
      BY SingleOnce
    <3> QED BY <2>1, <3>2, <3>3
  <2>3. ~Has(D, Turn) /\ ~Has(D, {"AUTH"})
    BY <2>2, MessageTypes DEF Has, Turn
  <2> HIDE DEF w
  <2>4. v \in Seq(ToRelay) /\ Msgs(v) = Msgs(w) \cup Msgs(D)
    BY <1>9, JoinedChannels
  <2>5. AtMostOne(v, Turn) /\ AtMostOne(v, {"REQ"}) /\ ~Has(v, {"AUTH"})
    <3>1. AtMostOne(D, {"REQ"})
      BY <2>2
    <3>2. AtMostOne(v, Turn)
      BY <1>9, <1>10, <2>3, JoinedOnce
    <3>3. AtMostOne(v, {"REQ"})
      BY <1>9, <1>10, <3>1, JoinedOnce
    <3>4. ~Has(v, {"AUTH"})
      BY <1>9, <1>10, <2>3, JoinedOnce
    <3> QED BY <3>2, <3>3, <3>4
  <2> HIDE DEF v
  <2>6. toRelay' = Joined(toRelay, v)
    BY DEF w, v
  <2>7. Queues(m, f, b, new, v)
    BY <1>1, <1>2, <1>3, <1>7, <2>2, <2>4, <2>5, <2>6 DEF Queues
  <2> QED BY <2>7 DEF v, w
<1>8. CASE ~new
  <2>1. Msgs(D) = {} /\ \A T : ~Has(D, T)
    BY <1>8 DEF Msgs, Has, BatchQueued
  <2> HIDE DEF w
  <2>4. v \in Seq(ToRelay) /\ Msgs(v) = Msgs(w)
    <3>1. v \in Seq(ToRelay) /\ Msgs(v) = Msgs(w) \cup Msgs(D)
      BY <1>9, JoinedChannels
    <3> QED BY <2>1, <3>1
  <2>5. AtMostOne(v, Turn) /\ AtMostOne(v, {"REQ"}) /\ ~Has(v, {"AUTH"})
    <3>1. ~Has(D, Turn) /\ ~Has(D, {"REQ"}) /\ ~Has(D, {"AUTH"})
      BY <2>1
    <3>2. AtMostOne(v, Turn)
      BY <1>9, <1>10, <3>1, JoinedOnce
    <3>3. AtMostOne(v, {"REQ"})
      BY <1>9, <1>10, <3>1, JoinedOnce
    <3>4. ~Has(v, {"AUTH"})
      BY <1>9, <1>10, <3>1, JoinedOnce
    <3> QED BY <3>2, <3>3, <3>4
  <2> HIDE DEF v
  <2>6. toRelay' = Joined(toRelay, v)
    BY DEF w, v
  <2>7. Queues(m, f, b, new, v)
    BY <1>1, <1>2, <1>3, <1>8, <2>4, <2>5, <2>6 DEF Queues
  <2> QED BY <2>7 DEF v, w
<1> QED BY <1>7, <1>8

LEMMA SyncMessageIs ==
    ASSUME Typed, MarksAssumption, ChunksAssumption, SyncMessage,
           \A x \in Msgs(inbox["sync"]) : x.type = "NEG-MSG" => x.n \in DOMAIN Chunks
    PROVE  \/ \E why \in {"error", "closed"} : GivesUp(why)
           \/ \E m \in Msgs(inbox["sync"]), y \in SyncState, f, g, b \in SUBSET Events,
                new \in BOOLEAN, msgs \in Seq(ToRelay) : SyncGoes(m, y, f, g, b, new, msgs)
<1> DEFINE m == Head(inbox["sync"])
           y == Told(sync, m)
<1>1. /\ sync.pc = "running" /\ "sync" \notin lagged /\ inbox["sync"] # <<>> /\ inbox["sync"] \in Seq(Notice)
      /\ sync \in SyncState /\ sync.down_id \in Nat /\ IsFiniteSet(Events)
      /\ inbox \in [{"sync", "send"} -> Seq(Notice)]
      /\ Cardinality(sync.up) <= HighWater
  BY DEF SyncMessage, Typed, TypeOK, SyncState, ChunksAssumption
<1>2. m \in Msgs(inbox["sync"]) /\ m \in Notice
  BY <1>1, PoppedChannel
<1> HIDE DEF m
<1>3. CASE m.type \in {"NEG-ERR", "DISCONNECTED"} \/ BatchRefused(sync, m)
  <2>1. SyncEnds(IF m.type = "CLOSED" THEN "closed" ELSE "error") /\ UNCHANGED <<toRelay, registered>>
    BY <1>3 DEF SyncMessage, m
  <2>2. m.type = "CLOSED" => BatchRefused(sync, m)
    BY <1>3
  <2>3. GivesUp(IF m.type = "CLOSED" THEN "closed" ELSE "error")
    BY <1>1, <2>1, <2>2 DEF SyncEnds, GivesUp, auth, m, Active
  <2> QED BY <2>3
<1>4. CASE ~(m.type \in {"NEG-ERR", "DISCONNECTED"} \/ BatchRefused(sync, m))
  <2> DEFINE dropped == IF m.type = "EOSE" /\ m.id = sync.down_id THEN {m.id} ELSE {}
  <2>1. PICK u \in Uploads(y) : \E d \in Downloads(u.y) :
            /\ registered' = (registered \ dropped) \cup d.register
            /\ \/ /\ Queue(Replies(sync, m) \o u.msgs \o d.msgs)
                  /\ sync' = [d.y EXCEPT !.pc = IF Complete(d.y) THEN "ok" ELSE @]
                  /\ IF Complete(d.y)
                     THEN inbox' = [inbox EXCEPT !["sync"] = <<>>] /\ UNCHANGED lagged
                     ELSE Read("sync")
                  /\ UNCHANGED <<connected, fromRelay, cleanup, send, auth, relay>>
               \/ /\ d.msgs # <<>>
                  /\ Queue(Replies(sync, m) \o u.msgs)
                  /\ sync' = [d.y EXCEPT !.pc = "error"] /\ cleanup' = "pending"
                  /\ inbox' = [inbox EXCEPT !["sync"] = <<>>] /\ lagged' = lagged \ {"sync"}
                  /\ UNCHANGED <<connected, fromRelay, send, auth, relay>>
    BY <1>4 DEF SyncMessage, m
  <2>2. PICK d \in Downloads(u.y) :
            /\ registered' = (registered \ dropped) \cup d.register
            /\ \/ /\ Queue(Replies(sync, m) \o u.msgs \o d.msgs)
                  /\ sync' = [d.y EXCEPT !.pc = IF Complete(d.y) THEN "ok" ELSE @]
                  /\ IF Complete(d.y)
                     THEN inbox' = [inbox EXCEPT !["sync"] = <<>>] /\ UNCHANGED lagged
                     ELSE Read("sync")
                  /\ UNCHANGED <<connected, fromRelay, cleanup, send, auth, relay>>
               \/ /\ d.msgs # <<>>
                  /\ Queue(Replies(sync, m) \o u.msgs)
                  /\ sync' = [d.y EXCEPT !.pc = "error"] /\ cleanup' = "pending"
                  /\ inbox' = [inbox EXCEPT !["sync"] = <<>>] /\ lagged' = lagged \ {"sync"}
                  /\ UNCHANGED <<connected, fromRelay, send, auth, relay>>
    BY <2>1
  <2>3. ToldSays(m, y)
    BY <1>1, <1>2, ToldIsSaid
  <2> HIDE DEF y
  <2>4. /\ y \in SyncState /\ y.up \subseteq sync.up /\ y.pc = "running" /\ y.down_id = sync.down_id
    BY <1>1, <2>3 DEF ToldSays
  <2>5. Cardinality(y.up) <= HighWater
    <3>1. sync.up \in SUBSET Events /\ HighWater \in Nat
      BY <1>1 DEF SyncState, MarksAssumption
    <3>2. IsFiniteSet(sync.up)
      BY <1>1, <3>1, FS_Subset
    <3>3. Cardinality(y.up) <= Cardinality(sync.up) /\ Cardinality(y.up) \in Nat /\ Cardinality(sync.up) \in Nat
      BY <2>4, <3>2, FS_Subset, FS_CardinalityType
    <3> QED BY <1>1, <3>1, <3>3
  <2>6. PICK f, g \in SUBSET Events :
              /\ Uploading(y, f, g) /\ u.msgs \in Seq(ToRelay) /\ Msgs(u.msgs) = {EVENT(e) : e \in f}
              /\ u.y \in SyncState
              /\ u.y = [y EXCEPT !.have = @ \ (f \cup g), !.up = @ \cup f, !.gone = @ \cup g]
    BY <2>4, <2>5, UploadsAre
  <2>7. PICK b \in SUBSET Events, new \in BOOLEAN :
              /\ Fetches(u.y, b, new)
              /\ d.msgs = (IF new THEN <<REQ(u.y.down_id + 1, b)>> ELSE <<>>)
              /\ d.register = (IF new THEN {u.y.down_id + 1} ELSE {})
              /\ d.y \in SyncState
              /\ d.y = IF new THEN [u.y EXCEPT !.downloading = TRUE, !.down_id = @ + 1, !.need = @ \ b, !.down = b]
                       ELSE u.y
    BY <2>6, DownloadsAre
  <2>8. d.y.pc = "running" /\ GoesFields(d.y, y, f, g, b, new)
    BY <2>4, <2>6, <2>7 DEF GoesFields, SyncState
  <2>9. Fetches(y, b, new)
    <3>1. u.y.need = y.need /\ u.y.downloading = y.downloading
      BY <2>4, <2>6 DEF SyncState
    <3> QED BY <2>7, <3>1 DEF Fetches
  <2> DEFINE R == Replies(sync, m)
             D == d.msgs
  <2>10. R \in Seq(ToRelay) /\ u.msgs \in Seq(ToRelay)
    BY <1>1, <1>2, <2>6, RepliesAre
  <2>11. D = (IF new THEN <<REQ(sync.down_id + 1, b)>> ELSE <<>>) /\ D \in Seq(ToRelay)
         /\ d.register = (IF new THEN {sync.down_id + 1} ELSE {})
    <3>1. u.y.down_id = sync.down_id
      BY <2>4, <2>6 DEF SyncState
    <3>2. REQ(sync.down_id + 1, b) \in ToRelay
      BY <1>1, ToRelayMessages
    <3>3. <<REQ(sync.down_id + 1, b)>> \in Seq(ToRelay) /\ <<>> \in Seq(ToRelay)
      BY <3>2
    <3> QED BY <2>7, <3>1, <3>3
  <2>12. Registers(m, new)
    BY <2>2, <2>11 DEF Registers
  <2>13. CASE /\ Queue(Replies(sync, m) \o u.msgs \o d.msgs)
              /\ sync' = [d.y EXCEPT !.pc = IF Complete(d.y) THEN "ok" ELSE @]
              /\ IF Complete(d.y)
                 THEN inbox' = [inbox EXCEPT !["sync"] = <<>>] /\ UNCHANGED lagged
                 ELSE Read("sync")
              /\ UNCHANGED <<connected, fromRelay, cleanup, send, auth, relay>>
    <3>1. toRelay' = Joined(toRelay, Joined(Joined(R, u.msgs), D))
      BY <2>13 DEF Queue, Joined
    <3>2. /\ sync' \in SyncState /\ GoesFields(sync', y, f, g, b, new)
          /\ sync'.pc = IF Complete(d.y) THEN "ok" ELSE "running"
          /\ (Complete(sync') <=> Complete(d.y))
      BY <2>7, <2>8, <2>13 DEF GoesFields, Complete, SyncState
    <3>3. Takes(m)
      <4>1. inbox' = [inbox EXCEPT !["sync"] = IF sync'.pc = "running" THEN Rest(@) ELSE <<>>]
            /\ lagged' = lagged
        <5>1. CASE Complete(d.y)
          BY <2>13, <3>2, <5>1
        <5>2. CASE ~Complete(d.y)
          BY <2>13, <3>2, <5>2 DEF Read, Rest
        <5> QED BY <5>1, <5>2
      <4>2. UNCHANGED <<connected, fromRelay, send, ingester, challenge, relay>> /\ cleanup' = cleanup
        BY <2>13 DEF auth
      <4>3. sync'.pc \in {"running", "ok"} /\ (sync'.pc = "ok" <=> Complete(sync'))
        BY <3>2
      <4>4. m = Head(inbox["sync"])
        BY DEF m
      <4> QED BY <1>1, <1>4, <4>1, <4>2, <4>3, <4>4 DEF Takes
    <3> HIDE DEF R, D
    <3>4. Queues(m, f, b, new, Joined(Joined(R, u.msgs), D))
      <4>1. PICK U \in Seq(ToRelay) : U = u.msgs /\ Msgs(U) = {EVENT(e) : e \in f}
        BY <2>6
      <4>2. PICK E \in Seq(ToRelay) : E = D
        BY <2>11
      <4>3. BatchQueued(E, b, new)
        BY <2>11, <4>2 DEF BatchQueued
      <4>4. toRelay' = Joined(toRelay, Joined(Joined(R, U), E)) /\ sync'.pc # "error" /\ sync.down_id \in Nat
        BY <1>1, <3>1, <3>2, <4>1, <4>2
      <4>5. PICK Q \in Seq(ToRelay) : Q = R
        BY <2>10 DEF R
      <4>6. Q = Replies(sync, m) /\ toRelay' = Joined(toRelay, Joined(Joined(Q, U), E))
        BY <4>4, <4>5 DEF R
      <4>7. m \in Notice /\ Msgs(U) = {EVENT(e) : e \in f}
        BY <1>2, <4>1
      <4>8. sync'.pc # "error" /\ sync.down_id \in Nat
        BY <4>4
      <4> HIDE DEF m
      <4>10. BatchMade(m, f, Q, U, b, new, E)
        BY <4>3, <4>6, <4>7, <4>8 DEF BatchMade
      <4>9. Queues(m, f, b, new, Joined(Joined(Q, U), E))
        BY <4>10, QueuedBatch
      <4> QED BY <4>1, <4>2, <4>5, <4>9
    <3>5. GoesOn(y, f, g, b, new) /\ sync'.pc # "error"
      BY <3>2 DEF GoesOn, GoesFields
    <3>6. SyncGoes(m, y, f, g, b, new, Joined(Joined(R, u.msgs), D))
      BY <2>3, <2>6, <2>9, <2>12, <3>3, <3>4, <3>5 DEF SyncGoes
    <3>7. Joined(Joined(R, u.msgs), D) \in Seq(ToRelay)
      BY <3>4 DEF Queues
    <3> QED BY <1>2, <2>4, <3>6, <3>7
  <2>14. CASE /\ d.msgs # <<>>
              /\ Queue(Replies(sync, m) \o u.msgs)
              /\ sync' = [d.y EXCEPT !.pc = "error"] /\ cleanup' = "pending"
              /\ inbox' = [inbox EXCEPT !["sync"] = <<>>] /\ lagged' = lagged \ {"sync"}
              /\ UNCHANGED <<connected, fromRelay, send, auth, relay>>
    <3>1. toRelay' = Joined(toRelay, Joined(R, u.msgs)) /\ new = TRUE
      BY <2>11, <2>14 DEF Queue, Joined
    <3>2. sync' \in SyncState /\ GoesFields(sync', y, f, g, b, new) /\ sync'.pc = "error"
      BY <2>7, <2>8, <2>14 DEF GoesFields, SyncState
    <3>3. Takes(m)
      <4>1. lagged' = lagged
        BY <1>1, <2>14
      <4> QED BY <1>1, <1>4, <2>14, <3>2, <4>1 DEF Takes, auth, m
    <3> HIDE DEF R, D
    <3>4. Queues(m, f, b, new, Joined(R, u.msgs))
      BY <1>1, <1>2, <2>6, <2>10, <3>1, <3>2, QueuedEvents DEF R
    <3>5. GoesOn(y, f, g, b, new)
      BY <3>2 DEF GoesOn, GoesFields
    <3>6. SyncGoes(m, y, f, g, b, new, Joined(R, u.msgs))
      BY <2>3, <2>6, <2>9, <2>12, <3>1, <3>3, <3>4, <3>5 DEF SyncGoes
    <3>7. Joined(R, u.msgs) \in Seq(ToRelay)
      BY <3>4 DEF Queues
    <3> QED BY <1>2, <2>4, <3>6, <3>7
  <2> QED BY <2>2, <2>13, <2>14
<1> QED BY <1>3, <1>4

-----------------------------------------------------------------------------
(* The steps, one by one                                                   *)

\* a broadcast leaves functions of the same shape
BroadcastShape ==
    /\ \E w, v : inbox' = [r \in {"sync", "send"} |-> IF r = "sync" THEN w ELSE v]
    /\ lagged' \subseteq {"sync", "send"}
Delivered(m) ==
    /\ BroadcastShape
    /\ fromRelay # <<>> /\ m = Head(fromRelay) /\ m \in FromRelay /\ fromRelay' = Rest(fromRelay)
    /\ Hears("sync", m) /\ Hears("send", m)
    /\ registered' = (IF m.type = "CLOSED" THEN registered \ {m.id} ELSE registered)
    /\ challenge' = (challenge \/ m.type = "AUTH")
    /\ ingester' = IF m.type = "OK-AUTH" /\ ingester = "authenticating"
                   THEN (IF m.status = "true" THEN "authenticated" ELSE "failed")
                   ELSE ingester
    /\ UNCHANGED <<connected, toRelay, sync, cleanup, send, relay>>
Lost ==
    /\ BroadcastShape
    /\ connected /\ connected' = FALSE /\ fromRelay' = <<>> /\ ingester' = "idle" /\ challenge' = FALSE
    /\ relay' \in RelayState /\ relay'.neg = 0 /\ relay'.open = {}
    /\ relay'.accepted = relay.accepted /\ relay'.answered = relay.answered
    /\ relay'.refused = relay.refused /\ relay'.silent = relay.silent
    /\ Hears("sync", Msg("DISCONNECTED")) /\ Hears("send", Msg("DISCONNECTED"))
    /\ UNCHANGED <<toRelay, registered, sync, cleanup, send>>
Judged(n) ==
    /\ BroadcastShape
    /\ n.type \in {"AUTHENTICATED", "AUTH-FAILED"} /\ n \in Notice
    /\ ingester \in {"authenticated", "failed"} /\ ingester' = "idle"
    /\ Hears("sync", n) /\ Hears("send", n)
    /\ UNCHANGED <<connected, toRelay, fromRelay, registered, sync, cleanup, send, challenge, relay>>
Started ==
    /\ sync.pc = "new" /\ sync' = [sync EXCEPT !.pc = "checking"]
    /\ toRelay' = Longer(toRelay, Msg("NEG-OPEN"))
    /\ UNCHANGED <<connected, fromRelay, inbox, lagged, registered, cleanup, send, ingester, challenge, relay>>
Supported ==
    /\ sync.pc = "checking" /\ sync' = [sync EXCEPT !.pc = "running"]
    /\ UNCHANGED <<connected, toRelay, fromRelay, inbox, lagged, registered, cleanup, send,
                   ingester, challenge, relay>>
Cleaned ==
    /\ cleanup = "pending" /\ cleanup' = "idle" /\ registered' = registered \ {sync.down_id}
    /\ toRelay' = Longer(Longer(toRelay, CLOSE(sync.down_id)), Msg("NEG-CLOSE"))
    /\ UNCHANGED <<connected, fromRelay, inbox, lagged, sync, send, ingester, challenge, relay>>
Acts == IngesterAuth \/ SendStart \/ SendMessage \/ SendTimeout

\* A step as the parts of the invariant see it
Step ==
    \/ Acts
    \/ \E m \in Msgs(toRelay), msgs \in Seq(FromRelay) : FullyAnswered(m, msgs)
    \/ \E m \in FromRelay : Delivered(m)
    \/ Lost
    \/ \E n \in Notice : Judged(n)
    \/ Started \/ Supported \/ Cleaned
    \/ \E why \in {"error", "closed"} : GivesUp(why)
    \/ \E m \in Msgs(inbox["sync"]), y \in SyncState, f, g, b \in SUBSET Events,
          new \in BOOLEAN, msgs \in Seq(ToRelay) : SyncGoes(m, y, f, g, b, new, msgs)

LEMMA HeadsAreTyped ==
    ASSUME Typed
    PROVE  /\ toRelay \in Seq(ToRelay) /\ fromRelay \in Seq(FromRelay)
           /\ inbox["sync"] \in Seq(Notice) /\ inbox["send"] \in Seq(Notice)
           /\ inbox \in [{"sync", "send"} -> Seq(Notice)]
           /\ sync \in SyncState /\ relay \in RelayState
           /\ cleanup \in {"idle", "pending"} /\ connected \in BOOLEAN /\ challenge \in BOOLEAN
           /\ (Closing => Ended) /\ (~Active => inbox["sync"] = <<>>)
           /\ ("sync" \in Receivers <=> Active) /\ ("send" \in Receivers <=> send \in Waiting)
BY DEF Typed, TypeOK, Receivers, Active

LEMMA BroadcastsKeepShape ==
    ASSUME Typed, NEW n, Broadcast(n)
    PROVE  BroadcastShape
<1>1. DOMAIN inbox = {"sync", "send"} /\ lagged \subseteq {"sync", "send"} /\ Receivers \subseteq {"sync", "send"}
  BY DEF Typed, TypeOK, Receivers
<1>2. PICK w : w = inbox'["sync"]
  OBVIOUS
<1>3. PICK v : v = inbox'["send"]
  OBVIOUS
<1>4. inbox' = [r \in {"sync", "send"} |-> inbox'[r]]
  BY <1>1 DEF Broadcast
<1>5. inbox' = [r \in {"sync", "send"} |-> IF r = "sync" THEN w ELSE v]
  BY <1>2, <1>3, <1>4
<1>6. lagged' \subseteq {"sync", "send"}
  BY <1>1 DEF Broadcast
<1> QED BY <1>5, <1>6 DEF BroadcastShape

\* every step of the system has one of the forms of Step
LEMMA StepsAre ==
    ASSUME Typed, MarksAssumption, ChunksAssumption, Next,
           \A x \in Msgs(inbox["sync"]) : x.type = "NEG-MSG" => x.n \in DOMAIN Chunks
    PROVE  Step
<1>1. toRelay \in Seq(ToRelay) /\ fromRelay \in Seq(FromRelay) /\ relay \in RelayState /\ sync \in SyncState
  BY HeadsAreTyped
<1>2. CASE RelayAnswers
  BY <1>2, AnswersSay DEF Step
<1>3. CASE handle_relay_message
  <2> DEFINE m == Head(fromRelay)
  <2>1. m \in FromRelay /\ fromRelay # <<>>
    BY <1>1, <1>3, PoppedChannel DEF handle_relay_message
  <2>2. m \in Notice
    BY <2>1, Notices
  <2>3. Broadcast(m)
    BY <1>3 DEF handle_relay_message
  <2>4. Hears("sync", m) /\ Hears("send", m) /\ BroadcastShape
    BY <2>2, <2>3, BroadcastIsHeard, BroadcastsKeepShape
  <2>5. fromRelay' = Rest(fromRelay)
    BY <1>3 DEF handle_relay_message, Rest
  <2>6. Delivered(m)
    BY <1>3, <2>1, <2>4, <2>5 DEF handle_relay_message, Delivered
  <2> QED BY <2>1, <2>6 DEF Step
<1>4. CASE Disconnect
  <2>1. Hears("sync", Msg("DISCONNECTED")) /\ Hears("send", Msg("DISCONNECTED")) /\ BroadcastShape
    BY <1>4, BroadcastIsHeard, BroadcastsKeepShape, Notices DEF Disconnect
  <2>2. /\ relay' \in RelayState /\ relay'.neg = 0 /\ relay'.open = {}
        /\ relay'.accepted = relay.accepted /\ relay'.answered = relay.answered
        /\ relay'.refused = relay.refused /\ relay'.silent = relay.silent
    BY <1>1, <1>4 DEF Disconnect, RelayState
  <2>3. Lost
    BY <1>4, <2>1, <2>2 DEF Disconnect, Lost, client
  <2> QED BY <2>3 DEF Step
<1>5. CASE IngesterDone
  <2> DEFINE n == Msg(IF ingester = "failed" THEN "AUTH-FAILED" ELSE "AUTHENTICATED")
  <2>1. n \in Notice /\ n.type \in {"AUTHENTICATED", "AUTH-FAILED"}
    BY Notices
  <2>2. Broadcast(n)
    BY <1>5 DEF IngesterDone
  <2>3. Hears("sync", n) /\ Hears("send", n) /\ BroadcastShape
    BY <2>1, <2>2, BroadcastIsHeard, BroadcastsKeepShape
  <2>4. Judged(n)
    BY <1>5, <2>1, <2>3 DEF IngesterDone, Judged, client
  <2> QED BY <2>1, <2>4 DEF Step
<1>6. CASE SyncStart
  BY <1>6 DEF SyncStart, Queue, Longer, Started, broadcast, auth, Step
<1>7. CASE check_negentropy_support
  <2>1. CASE Supported
    BY <2>1 DEF Step
  <2>2. CASE SyncEnds("error") /\ UNCHANGED <<toRelay, registered>> /\ sync.pc = "checking"
    <3>1. GivesUp("error")
      BY <2>2 DEF SyncEnds, GivesUp, Active, auth
    <3> QED BY <3>1 DEF Step
  <2> QED BY <1>7, <2>1, <2>2 DEF check_negentropy_support, Supported, broadcast, auth
<1>8. CASE SyncFails
  <2>1. GivesUp("error")
    BY <1>8 DEF SyncFails, SyncEnds, GivesUp, Active, auth
  <2> QED BY <2>1 DEF Step
<1>9. CASE SyncMessage
  BY <1>9, SyncMessageIs DEF Step
<1>10. CASE Cleanup
  <2>1. toRelay' = toRelay \o <<CLOSE(sync.down_id), Msg("NEG-CLOSE")>>
    BY <1>10 DEF Cleanup, Queue
  <2>2. toRelay' = Longer(Longer(toRelay, CLOSE(sync.down_id)), Msg("NEG-CLOSE"))
    <3>1. \A a, b : toRelay \o <<a, b>> = Longer(Longer(toRelay, a), b)
      BY <1>1, LongerTwice
    <3> QED BY <2>1, <3>1
  <2>3. Cleaned
    BY <1>10, <2>2 DEF Cleanup, Cleaned, broadcast, auth
  <2> QED BY <2>3 DEF Step
<1>11. CASE IngesterAuth \/ SendStart \/ SendMessage \/ SendTimeout
  BY <1>11 DEF Step, Acts
<1> QED BY <1>2, <1>3, <1>4, <1>5, <1>6, <1>7, <1>8, <1>9, <1>10, <1>11 DEF Next

-----------------------------------------------------------------------------
(* Types                                                                   *)

SyncBounds(y) ==
    /\ y.have \cup y.up \cup y.sent \cup y.failures \cup y.gone \subseteq y.local
    /\ y.need \cup y.down \subseteq y.remote
    /\ Cardinality(y.up) <= HighWater /\ Cardinality(y.down) <= BatchSize
ChannelsTyped ==
    /\ toRelay \in Seq(ToRelay) /\ fromRelay \in Seq(FromRelay) /\ connected \in BOOLEAN /\ challenge \in BOOLEAN
    /\ ingester \in {"idle", "authenticating", "authenticated", "failed"} /\ relay \in RelayState
InboxTyped ==
    /\ inbox \in [{"sync", "send"} -> Seq(Notice)]
    /\ \A r \in {"sync", "send"} : Len(inbox[r]) <= Notifications
    /\ lagged \subseteq {"sync", "send"}
    /\ send \in Waiting \cup {"idle", "Ack", "Rejected", "Unconfirmed"}
    /\ (~Active => inbox["sync"] = <<>>) /\ (send \notin Waiting => inbox["send"] = <<>>)
SyncTyped ==
    /\ sync \in SyncState /\ SyncBounds(sync) /\ registered \subseteq 0 .. sync.down_id
    /\ cleanup \in {"idle", "pending"} /\ (Closing => Ended)

LEMMA TypedParts == Typed <=> ChannelsTyped /\ InboxTyped /\ SyncTyped
<1>1. Typed => ChannelsTyped /\ InboxTyped /\ SyncTyped
  BY DEF Typed, TypeOK, ChannelsTyped, InboxTyped, SyncTyped, SyncBounds
<1>2. ASSUME ChannelsTyped, InboxTyped, SyncTyped PROVE Typed
  <2>1. sync.pc \in {"new", "checking", "running", "ok", "error", "closed"}
    BY <1>2 DEF SyncTyped, SyncState
  <2> QED BY <1>2, <2>1 DEF Typed, TypeOK, ChannelsTyped, InboxTyped, SyncTyped, SyncBounds
<1> QED BY <1>1, <1>2

LEMMA TypedPartsNext == ChannelsTyped' /\ InboxTyped' /\ SyncTyped' => Typed'
BY TypedParts, PTL

LEMMA SentIsAnEvent == SentEvent \in Events
BY SMT DEF Events

LEMMA SmallerSets ==
    ASSUME ChunksAssumption, NEW S \in SUBSET Events, NEW T, T \subseteq S, NEW n \in Nat, Cardinality(S) <= n
    PROVE  Cardinality(T) <= n
<1>1. IsFiniteSet(S)
  BY FS_Subset DEF ChunksAssumption
<1>2. Cardinality(T) <= Cardinality(S) /\ Cardinality(T) \in Nat /\ Cardinality(S) \in Nat
  BY <1>1, FS_Subset, FS_CardinalityType
<1> QED BY <1>2

LEMMA GoingIsBounded ==
    ASSUME SyncTyped, MarksAssumption, ChunksAssumption,
           NEW m \in Notice, NEW y, NEW f, NEW g, NEW b, NEW new, NEW msgs, SyncGoes(m, y, f, g, b, new, msgs)
    PROVE  SyncBounds(sync')
<1>1. /\ y \in SyncState /\ ToldSays(m, y) /\ Uploading(y, f, g) /\ Fetches(y, b, new)
      /\ GoesFields(sync', y, f, g, b, new)
  BY DEF SyncGoes, ToldSays, GoesOn
<1>2. /\ sync.have \cup sync.up \cup sync.sent \cup sync.failures \cup sync.gone \subseteq sync.local
      /\ sync.need \cup sync.down \subseteq sync.remote
  BY DEF SyncTyped, SyncBounds
<1>3. y.have \cup y.up \cup y.sent \cup y.failures \cup y.gone \subseteq y.local
  <2>1. CASE m.type = "NEG-MSG"
    BY <1>1, <1>2, <2>1 DEF ToldSays
  <2>2. CASE m.type # "NEG-MSG"
    BY <1>1, <1>2, <2>2 DEF ToldSays
  <2> QED BY <2>1, <2>2
<1>4. y.need \cup y.down \subseteq y.remote
  <2>1. CASE m.type = "NEG-MSG"
    BY <1>1, <1>2, <2>1 DEF ToldSays, EndsBatch
  <2>2. CASE m.type # "NEG-MSG"
    BY <1>1, <1>2, <2>2 DEF ToldSays
  <2> QED BY <2>1, <2>2
<1>5. /\ sync'.have \cup sync'.up \cup sync'.sent \cup sync'.failures \cup sync'.gone \subseteq sync'.local
      /\ sync'.need \cup sync'.down \subseteq sync'.remote
  BY <1>1, <1>3, <1>4 DEF Uploading, Fetches, GoesFields
<1>6. Cardinality(sync'.up) <= HighWater
  BY <1>1 DEF Uploading, GoesFields
<1>7. Cardinality(sync'.down) <= BatchSize
  <2>1. CASE new
    BY <1>1, <2>1 DEF Fetches, GoesFields
  <2>2. CASE ~new
    <3>1. sync'.down = y.down /\ y.down \subseteq sync.down
      BY <1>1, <2>2 DEF GoesFields, ToldSays
    <3>2. sync.down \in SUBSET Events /\ Cardinality(sync.down) <= BatchSize /\ BatchSize \in Nat
      BY DEF SyncTyped, SyncBounds, SyncState, MarksAssumption
    <3>3. Cardinality(y.down) <= BatchSize
      BY <3>1, <3>2, SmallerSets
    <3> QED BY <3>1, <3>3
  <2> QED BY <1>1, <2>1, <2>2
<1> QED BY <1>5, <1>6, <1>7 DEF SyncBounds

LEMMA ActsTyped ==
    ASSUME Typed, MarksAssumption, Acts
    PROVE  Typed'
<1>1. ChannelsTyped /\ InboxTyped /\ SyncTyped
  BY TypedParts
<1>2. Aside
  BY SendersStepAside DEF Acts
<1>3. SyncTyped'
  BY <1>1, <1>2 DEF SyncTyped, SyncBounds, Aside, Closing, Ended
<1>4. <<>> \in Seq(Notice) /\ Len(<<>>) <= Notifications
  BY DEF MarksAssumption
<1>5. toRelay' \in Seq(ToRelay)
  <2>1. \A x \in {Msg("AUTH"), EVENT(SentEvent)} : x \in ToRelay
    BY ToRelayMessages, SentIsAnEvent
  <2>2. \A x \in {Msg("AUTH"), EVENT(SentEvent)} : Longer(toRelay, x) \in Seq(ToRelay)
    BY <1>1, <2>1, LongerChannel DEF ChannelsTyped
  <2> QED BY <1>1, <1>2, <2>2 DEF Aside, ChannelsTyped
<1>6. CASE IngesterAuth
  BY <1>1, <1>2, <1>3, <1>5, <1>6, TypedPartsNext
     DEF IngesterAuth, ChannelsTyped, InboxTyped, Aside, broadcast, client, Active, Waiting
<1>7. CASE SendStart
  <2>1. inbox["send"] = <<>> /\ send' = "wait_ok" /\ UNCHANGED <<connected, fromRelay, inbox, lagged, sync, challenge, ingester, relay>>
    BY <1>1, <1>7 DEF SendStart, InboxTyped, broadcast, client, auth, Waiting
  <2>2. InboxTyped' /\ ChannelsTyped'
    BY <1>1, <1>5, <2>1 DEF ChannelsTyped, InboxTyped, Active, Waiting
  <2> QED BY <1>3, <2>2, TypedPartsNext
<1>8. ASSUME SendEnds("Unconfirmed") \/ SendEnds("Ack") \/ SendEnds("Rejected"),
             UNCHANGED <<connected, fromRelay, client, auth, relay>>
      PROVE  Typed'
  <2>1. inbox' = [inbox EXCEPT !["send"] = <<>>] /\ send' \in {"Unconfirmed", "Ack", "Rejected"}
        /\ lagged' = lagged \ {"send"} /\ UNCHANGED <<connected, fromRelay, sync, challenge, ingester, relay>>
    BY <1>8 DEF SendEnds, client, auth
  <2>2. InboxTyped' /\ ChannelsTyped'
    BY <1>1, <1>4, <1>5, <2>1 DEF ChannelsTyped, InboxTyped, Active, Waiting
  <2> QED BY <1>3, <2>2, TypedPartsNext
<1>9. ASSUME Read("send"), send' \in Waiting, send \in Waiting, inbox["send"] # <<>>,
             UNCHANGED <<connected, fromRelay, client, auth, relay>>
      PROVE  Typed'
  <2>1. inbox' = [inbox EXCEPT !["send"] = Rest(@)]
        /\ UNCHANGED <<connected, fromRelay, lagged, sync, challenge, ingester, relay>>
    BY <1>9 DEF Read, Rest, client, auth
  <2>2. inbox["send"] \in Seq(Notice) /\ Notifications \in Nat /\ Len(inbox["send"]) <= Notifications
    BY <1>1 DEF InboxTyped, MarksAssumption
  <2>3. Rest(inbox["send"]) \in Seq(Notice) /\ Len(Rest(inbox["send"])) <= Notifications
    BY <1>9, <2>2, PoppedChannel
  <2>4. InboxTyped' /\ ChannelsTyped'
    BY <1>1, <1>5, <1>9, <2>1, <2>3 DEF ChannelsTyped, InboxTyped, Active
  <2> QED BY <1>3, <2>4, TypedPartsNext
<1>10. CASE SendTimeout
  BY <1>8, <1>10 DEF SendTimeout
<1>11. CASE SendMessage
  <2> DEFINE m == Head(inbox["send"])
  <2>1. /\ send \in Waiting /\ inbox["send"] # <<>> /\ UNCHANGED <<connected, fromRelay, client, auth, relay>>
        /\ IF send = "wait_auth" THEN wait_for_authentication(m) ELSE wait_for_ok(m)
    BY <1>11 DEF SendMessage
  <2>2. \/ SendEnds("Unconfirmed") \/ SendEnds("Ack") \/ SendEnds("Rejected")
        \/ Read("send") /\ send' \in Waiting
    BY <2>1 DEF wait_for_authentication, wait_for_ok, Skip, Waiting
  <2> QED BY <1>8, <1>9, <2>1, <2>2
<1> QED BY <1>6, <1>7, <1>10, <1>11 DEF Acts

\* each step keeps the types
LEMMA TypedNext ==
    ASSUME Typed, MarksAssumption, ChunksAssumption, Step
    PROVE  Typed'
<1>1. ChannelsTyped /\ InboxTyped /\ SyncTyped
  BY TypedParts
<1>2. CASE Acts
  BY <1>2, ActsTyped
<1>3. ASSUME NEW m \in Msgs(toRelay), NEW msgs \in Seq(FromRelay), FullyAnswered(m, msgs)
      PROVE  Typed'
  <2>1. Answered(m, msgs)
    BY <1>3 DEF FullyAnswered
  <2>2. toRelay' \in Seq(ToRelay)
    BY <1>1, <2>1, PoppedChannel DEF Answered, ChannelsTyped
  <2>3. fromRelay' \in Seq(FromRelay)
    BY <1>1, <2>1, JoinedChannels DEF Answered, ChannelsTyped
  <2>4. ChannelsTyped' /\ InboxTyped' /\ SyncTyped'
    BY <1>1, <2>1, <2>2, <2>3
       DEF Answered, ChannelsTyped, InboxTyped, SyncTyped, SyncBounds, Active, Ended, Closing
  <2> QED BY <2>4, TypedPartsNext
\* a broadcast
<1>4. ASSUME NEW n \in Notice, Hears("sync", n), Hears("send", n), sync' = sync, send' = send, BroadcastShape
      PROVE  InboxTyped'
  <2>1. inbox'["sync"] \in Seq(Notice) /\ inbox'["send"] \in Seq(Notice)
        /\ Len(inbox'["sync"]) <= Notifications /\ Len(inbox'["send"]) <= Notifications
        /\ ("sync" \notin Receivers => inbox'["sync"] = inbox["sync"])
        /\ ("send" \notin Receivers => inbox'["send"] = inbox["send"])
    BY <1>4 DEF Hears
  <2>2. inbox' \in [{"sync", "send"} -> Seq(Notice)]
    BY <1>4, <2>1 DEF BroadcastShape
  <2>3. ("sync" \in Receivers <=> Active) /\ ("send" \in Receivers <=> send \in Waiting)
    BY HeadsAreTyped
  <2> QED BY <1>1, <1>4, <2>1, <2>2, <2>3 DEF InboxTyped, BroadcastShape, Active
<1>5. ASSUME NEW m \in FromRelay, Delivered(m) PROVE Typed'
  <2>1. InboxTyped'
    BY <1>4, <1>5, Notices DEF Delivered
  <2>2. fromRelay' \in Seq(FromRelay)
    BY <1>1, <1>5, PoppedChannel DEF Delivered, ChannelsTyped
  <2>3. m.type = "OK-AUTH" => m.status \in {"true", "false"}
    BY FromRelayMessages
  <2>4. challenge' \in BOOLEAN
    BY <1>1, <1>5 DEF Delivered, ChannelsTyped
  <2>5. ChannelsTyped' /\ SyncTyped'
    BY <1>1, <1>5, <2>2, <2>3, <2>4 DEF Delivered, ChannelsTyped, SyncTyped, SyncBounds, Closing, Ended
  <2> QED BY <2>1, <2>5, TypedPartsNext
<1>6. CASE Lost
  <2>1. InboxTyped'
    BY <1>4, <1>6, Notices DEF Lost
  <2>2. <<>> \in Seq(FromRelay)
    OBVIOUS
  <2>3. ChannelsTyped' /\ SyncTyped'
    BY <1>1, <1>6, <2>2 DEF Lost, ChannelsTyped, SyncTyped, SyncBounds, Closing, Ended
  <2> QED BY <2>1, <2>3, TypedPartsNext
<1>7. ASSUME NEW n \in Notice, Judged(n) PROVE Typed'
  <2>1. InboxTyped'
    BY <1>4, <1>7 DEF Judged
  <2>2. ChannelsTyped' /\ SyncTyped'
    BY <1>1, <1>7 DEF Judged, ChannelsTyped, SyncTyped, SyncBounds, Closing, Ended
  <2> QED BY <2>1, <2>2, TypedPartsNext
\* a change of the phase alone
<1>8. ASSUME NEW pc \in {"checking", "running", "error", "closed"}, sync' = [sync EXCEPT !.pc = pc]
      PROVE  sync' \in SyncState /\ SyncBounds(sync') /\ sync'.down_id = sync.down_id /\ sync'.pc = pc
  <2>1. /\ sync' \in SyncState /\ sync'.have = sync.have /\ sync'.up = sync.up /\ sync'.sent = sync.sent
        /\ sync'.failures = sync.failures /\ sync'.gone = sync.gone /\ sync'.local = sync.local
        /\ sync'.need = sync.need /\ sync'.down = sync.down /\ sync'.remote = sync.remote
        /\ sync'.down_id = sync.down_id /\ sync'.pc = pc
    BY <1>1, <1>8 DEF SyncTyped, SyncState
  <2> QED BY <1>1, <2>1 DEF SyncTyped, SyncBounds
<1>9. CASE Started
  <2>1. sync' \in SyncState /\ SyncBounds(sync') /\ sync'.down_id = sync.down_id /\ sync'.pc = "checking"
    BY <1>8, <1>9 DEF Started
  <2>2. Longer(toRelay, Msg("NEG-OPEN")) \in Seq(ToRelay)
    BY <1>1, ToRelayMessages, LongerChannel DEF ChannelsTyped
  <2>3. ~Closing
    BY <1>1, <1>9 DEF SyncTyped, Ended, Started
  <2>4. ChannelsTyped' /\ InboxTyped' /\ SyncTyped'
    BY <1>1, <1>9, <2>1, <2>2, <2>3 DEF Started, ChannelsTyped, InboxTyped, SyncTyped, Active, Closing
  <2> QED BY <2>4, TypedPartsNext
<1>10. CASE Supported
  <2>1. sync' \in SyncState /\ SyncBounds(sync') /\ sync'.down_id = sync.down_id /\ sync'.pc = "running"
    BY <1>8, <1>10 DEF Supported
  <2>2. ~Closing
    BY <1>1, <1>10 DEF SyncTyped, Ended, Supported
  <2>3. ChannelsTyped' /\ InboxTyped' /\ SyncTyped'
    BY <1>1, <1>10, <2>1, <2>2 DEF Supported, ChannelsTyped, InboxTyped, SyncTyped, Active, Closing
  <2> QED BY <2>3, TypedPartsNext
<1>11. CASE Cleaned
  <2>1. Msg("NEG-CLOSE") \in ToRelay /\ CLOSE(sync.down_id) \in ToRelay
    BY <1>1, ToRelayMessages DEF SyncTyped, SyncState
  <2>2. Longer(toRelay, CLOSE(sync.down_id)) \in Seq(ToRelay)
    BY <1>1, <2>1, LongerChannel DEF ChannelsTyped
  <2>3. toRelay' \in Seq(ToRelay)
    BY <1>11, <2>1, <2>2, LongerChannel DEF Cleaned
  <2>4. ChannelsTyped' /\ InboxTyped' /\ SyncTyped'
    BY <1>1, <1>11, <2>3 DEF Cleaned, ChannelsTyped, InboxTyped, SyncTyped, SyncBounds, Active, Closing
  <2> QED BY <2>4, TypedPartsNext
<1>12. <<>> \in Seq(Notice) /\ Len(<<>>) <= Notifications
  BY DEF MarksAssumption
<1>13. ASSUME NEW why \in {"error", "closed"}, GivesUp(why) PROVE Typed'
  <2>1. sync' \in SyncState /\ SyncBounds(sync') /\ sync'.down_id = sync.down_id /\ sync'.pc = why
    BY <1>8, <1>13 DEF GivesUp
  <2>2. InboxTyped'
    BY <1>1, <1>12, <1>13, <2>1 DEF GivesUp, InboxTyped, Active
  <2>3. ChannelsTyped' /\ SyncTyped'
    BY <1>1, <1>13, <2>1 DEF GivesUp, ChannelsTyped, SyncTyped, Closing, Ended
  <2> QED BY <2>2, <2>3, TypedPartsNext
<1>14. ASSUME NEW m \in Msgs(inbox["sync"]), NEW y \in SyncState, NEW f \in SUBSET Events,
              NEW g \in SUBSET Events, NEW b \in SUBSET Events, NEW new \in BOOLEAN,
              NEW msgs \in Seq(ToRelay), SyncGoes(m, y, f, g, b, new, msgs)
       PROVE  Typed'
  <2>1. Takes(m) /\ Registers(m, new) /\ GoesFields(sync', y, f, g, b, new) /\ sync' \in SyncState
        /\ toRelay' = Joined(toRelay, msgs) /\ ToldSays(m, y) /\ (sync'.pc = "error" => new)
    BY <1>14 DEF SyncGoes, GoesOn, Queues
  <2>2. SyncBounds(sync')
    <3>1. m \in Notice
      BY HeadsAreTyped DEF Msgs
    <3> QED BY <1>1, <1>14, <3>1, GoingIsBounded
  <2>3. toRelay' \in Seq(ToRelay)
    BY <1>1, <2>1, JoinedChannels DEF ChannelsTyped
  <2>4. inbox["sync"] \in Seq(Notice) /\ Notifications \in Nat /\ Len(inbox["sync"]) <= Notifications
        /\ inbox["sync"] # <<>>
    BY <1>1, <2>1 DEF InboxTyped, MarksAssumption, Takes
  <2>5. Rest(inbox["sync"]) \in Seq(Notice) /\ Len(Rest(inbox["sync"])) <= Notifications
    BY <2>4, PoppedChannel
  <2>6. InboxTyped'
    BY <1>1, <1>12, <2>1, <2>5 DEF Takes, InboxTyped, Active, Waiting
  <2>7. registered' \subseteq 0 .. sync'.down_id
    <3>1. sync.down_id \in Nat /\ registered \subseteq 0 .. sync.down_id /\ y.down_id = sync.down_id
      BY <1>1, <2>1 DEF SyncTyped, SyncState, ToldSays
    <3>2. CASE new
      <4>1. sync'.down_id = sync.down_id + 1
        BY <2>1, <3>1, <3>2 DEF GoesFields
      <4>2. \A id \in registered' : id \in registered \/ id = sync.down_id + 1
        BY <2>1 DEF Registers
      <4>3. \A id \in registered : id \in 0 .. sync.down_id
        BY <3>1
      <4>4. \A id \in registered' : id \in 0 .. sync.down_id + 1
        <5>1. \A id \in 0 .. sync.down_id : id \in 0 .. sync.down_id + 1
          BY <3>1
        <5>2. sync.down_id + 1 \in 0 .. sync.down_id + 1
          BY <3>1
        <5> QED BY <4>2, <4>3, <5>1, <5>2
      <4> QED BY <4>1, <4>4
    <3>3. CASE ~new
      BY <2>1, <3>1, <3>3 DEF Registers, GoesFields
    <3> QED BY <3>2, <3>3
  <2>8. cleanup' \in {"idle", "pending"} /\ (Closing' => Ended')
    BY <1>1, <2>1 DEF Takes, SyncTyped, Closing, Ended
  <2>9. ChannelsTyped' /\ SyncTyped'
    BY <1>1, <2>1, <2>2, <2>3, <2>7, <2>8 DEF Takes, ChannelsTyped, SyncTyped
  <2> QED BY <2>6, <2>9, TypedPartsNext
<1> QED BY <1>2, <1>3, <1>5, <1>6, <1>7, <1>9, <1>10, <1>11, <1>13, <1>14 DEF Step

-----------------------------------------------------------------------------
(* Turns                                                                   *)

LEMMA HeardOnce ==
    ASSUME Typed, NEW r \in {"sync", "send"}, NEW n \in Notice, Hears(r, n), NEW T
    PROVE  /\ Has(inbox'[r], T) => Has(inbox[r], T) \/ (r \in Receivers /\ n.type \in T)
           /\ AtMostOne(inbox[r], T) /\ ~(Has(inbox[r], T) /\ n.type \in T) => AtMostOne(inbox'[r], T)
<1>1. inbox[r] \in Seq(Notice)
  BY HeadsAreTyped
<1>2. CASE r \notin Receivers
  <2>1. inbox'[r] = inbox[r]
    BY <1>2 DEF Hears
  <2> QED BY <1>2, <2>1
<1>3. CASE r \in Receivers
  <2>1. PICK old \in Seq(Notice) :
            inbox'[r] = Longer(old, n) /\ (old = inbox[r] \/ (inbox[r] # <<>> /\ old = Rest(inbox[r])))
    BY <1>3 DEF Hears
  <2>2. /\ Has(Longer(old, n), T) <=> Has(old, T) \/ n.type \in T
        /\ AtMostOne(old, T) /\ ~(Has(old, T) /\ n.type \in T) => AtMostOne(Longer(old, n), T)
    BY LongerOnce
  <2>3. (Has(old, T) => Has(inbox[r], T)) /\ (AtMostOne(inbox[r], T) => AtMostOne(old, T))
    <3>1. CASE old = inbox[r]
      BY <3>1
    <3>2. CASE inbox[r] # <<>> /\ old = Rest(inbox[r])
      BY <1>1, <3>2, PoppedOnce
    <3> QED BY <2>1, <3>1, <3>2
  <2> QED BY <1>3, <2>1, <2>2, <2>3
<1> QED BY <1>2, <1>3

\* what an aside queues
LEMMA AsideQueues ==
    ASSUME Typed, Aside, NEW T, T \cap {"AUTH", "EVENT"} = {}
    PROVE  /\ Has(toRelay', T) <=> Has(toRelay, T)
           /\ AtMostOne(toRelay, T) => AtMostOne(toRelay', T)
<1>1. toRelay \in Seq(ToRelay)
  BY HeadsAreTyped
<1>2. CASE toRelay' = toRelay
  BY <1>2
<1>3. ASSUME NEW x \in {Msg("AUTH"), EVENT(SentEvent)}, toRelay' = Longer(toRelay, x) PROVE
        /\ Has(toRelay', T) <=> Has(toRelay, T)
        /\ AtMostOne(toRelay, T) => AtMostOne(toRelay', T)
  <2>1. x \in ToRelay /\ x.type \notin T
    BY SentIsAnEvent, ToRelayMessages, MessageTypes
  <2>2. /\ Has(Longer(toRelay, x), T) <=> Has(toRelay, T) \/ x.type \in T
        /\ AtMostOne(toRelay, T) /\ ~(Has(toRelay, T) /\ x.type \in T) => AtMostOne(Longer(toRelay, x), T)
    BY <1>1, <2>1, LongerOnce
  <2> QED BY <1>3, <2>1, <2>2
<1> QED BY <1>2, <1>3 DEF Aside

LEMMA CleanedQueues ==
    ASSUME Typed, Cleaned, NEW T, T \cap {"CLOSE", "NEG-CLOSE"} = {}
    PROVE  /\ Has(toRelay', T) <=> Has(toRelay, T)
           /\ AtMostOne(toRelay, T) => AtMostOne(toRelay', T)
<1> DEFINE c == CLOSE(sync.down_id)
           w == Longer(toRelay, c)
<1>1. toRelay \in Seq(ToRelay) /\ sync.down_id \in Nat
  BY HeadsAreTyped DEF SyncState
<1>2. c \in ToRelay /\ c.type = "CLOSE" /\ Msg("NEG-CLOSE") \in ToRelay /\ Msg("NEG-CLOSE").type = "NEG-CLOSE"
  BY <1>1, ToRelayMessages, MessageTypes
<1>3. w \in Seq(ToRelay)
  BY <1>1, <1>2, LongerChannel
<1>4. /\ Has(w, T) <=> Has(toRelay, T)
      /\ AtMostOne(toRelay, T) => AtMostOne(w, T)
  BY <1>1, <1>2, LongerOnce
<1>5. /\ Has(Longer(w, Msg("NEG-CLOSE")), T) <=> Has(w, T)
      /\ AtMostOne(w, T) => AtMostOne(Longer(w, Msg("NEG-CLOSE")), T)
  BY <1>2, <1>3, LongerOnce
<1> HIDE DEF w
<1> QED BY <1>4, <1>5 DEF Cleaned, w

\* one turn at a time, on one side
LEMMA OneTurnNext ==
    ASSUME Typed, OneTurn, TurnsClose, ChunksAssumption, Step
    PROVE  OneTurn'
<1> DEFINE turn == Has(toRelay, Turn)
           word == Has(fromRelay, Word)
           read == Has(inbox["sync"], Word)
<1>1. /\ toRelay \in Seq(ToRelay) /\ fromRelay \in Seq(FromRelay)
      /\ inbox["sync"] \in Seq(Notice) /\ inbox \in [{"sync", "send"} -> Seq(Notice)]
      /\ sync \in SyncState
  BY HeadsAreTyped
<1>2. /\ AtMostOne(toRelay, Turn) /\ AtMostOne(fromRelay, Word) /\ AtMostOne(inbox["sync"], Word)
      /\ ~(turn /\ word) /\ ~(turn /\ read) /\ ~(word /\ read)
      /\ sync.done \/ sync.pc = "new" => ~turn /\ ~word /\ ~read
  BY DEF OneTurn
<1> SUFFICES /\ AtMostOne(toRelay', Turn) /\ AtMostOne(fromRelay', Word) /\ AtMostOne(inbox'["sync"], Word)
             /\ ~(turn' /\ word') /\ ~(turn' /\ read') /\ ~(word' /\ read')
             /\ sync'.done \/ sync'.pc = "new" => ~turn' /\ ~word' /\ ~read'
  BY DEF OneTurn
<1>3. CASE Acts
  <2>1. Aside
    BY <1>3, SendersStepAside DEF Acts
  <2>2. /\ Has(toRelay', Turn) <=> turn
        /\ AtMostOne(toRelay, Turn) => AtMostOne(toRelay', Turn)
    BY <2>1, AsideQueues DEF Turn
  <2> QED BY <1>2, <2>1, <2>2 DEF Aside
<1>4. ASSUME NEW m \in Msgs(toRelay), NEW msgs \in Seq(FromRelay), FullyAnswered(m, msgs)
      PROVE /\ AtMostOne(toRelay', Turn) /\ AtMostOne(fromRelay', Word) /\ AtMostOne(inbox'["sync"], Word)
            /\ ~(turn' /\ word') /\ ~(turn' /\ read') /\ ~(word' /\ read')
            /\ sync'.done \/ sync'.pc = "new" => ~turn' /\ ~word' /\ ~read'
  <2>1. /\ toRelay # <<>> /\ m = Head(toRelay) /\ toRelay' = Rest(toRelay)
        /\ fromRelay' = Joined(fromRelay, msgs) /\ inbox' = inbox /\ sync' = sync
    BY <1>4 DEF FullyAnswered, Answered
  <2>2. AtMostOne(msgs, Word) /\ (Has(msgs, Word) => m.type \in Turn)
    BY <1>4 DEF FullyAnswered, TurnAnswered
  <2>3. /\ AtMostOne(toRelay, Turn) => AtMostOne(Rest(toRelay), Turn)
        /\ AtMostOne(toRelay, Turn) /\ Head(toRelay).type \in Turn => ~Has(Rest(toRelay), Turn)
        /\ Has(toRelay, Turn) <=> Head(toRelay).type \in Turn \/ Has(Rest(toRelay), Turn)
    BY <1>1, <2>1, PoppedOnce
  <2>4. /\ AtMostOne(fromRelay, Word) /\ ~Has(msgs, Word) => AtMostOne(Joined(fromRelay, msgs), Word)
        /\ AtMostOne(msgs, Word) /\ ~Has(fromRelay, Word) => AtMostOne(Joined(fromRelay, msgs), Word)
        /\ Has(Joined(fromRelay, msgs), Word) <=> Has(fromRelay, Word) \/ Has(msgs, Word)
    BY <1>1, JoinedOnce
  <2> QED BY <1>2, <2>1, <2>2, <2>3, <2>4
<1>5. ASSUME NEW m \in FromRelay, Delivered(m)
      PROVE /\ AtMostOne(toRelay', Turn) /\ AtMostOne(fromRelay', Word) /\ AtMostOne(inbox'["sync"], Word)
            /\ ~(turn' /\ word') /\ ~(turn' /\ read') /\ ~(word' /\ read')
            /\ sync'.done \/ sync'.pc = "new" => ~turn' /\ ~word' /\ ~read'
  <2>1. /\ fromRelay # <<>> /\ m = Head(fromRelay) /\ fromRelay' = Rest(fromRelay)
        /\ toRelay' = toRelay /\ sync' = sync /\ Hears("sync", m) /\ m \in Notice
    BY <1>5, Notices DEF Delivered
  <2>2. /\ AtMostOne(fromRelay, Word) => AtMostOne(Rest(fromRelay), Word)
        /\ AtMostOne(fromRelay, Word) /\ Head(fromRelay).type \in Word => ~Has(Rest(fromRelay), Word)
        /\ Has(fromRelay, Word) <=> Head(fromRelay).type \in Word \/ Has(Rest(fromRelay), Word)
    BY <1>1, <2>1, PoppedOnce
  <2>3. /\ Has(inbox'["sync"], Word) => read \/ m.type \in Word
        /\ AtMostOne(inbox["sync"], Word) /\ ~(read /\ m.type \in Word) => AtMostOne(inbox'["sync"], Word)
    BY <2>1, HeardOnce
  <2> QED BY <1>2, <2>1, <2>2, <2>3
<1>6. CASE Lost
  <2>1. /\ fromRelay' = <<>> /\ toRelay' = toRelay /\ sync' = sync /\ Hears("sync", Msg("DISCONNECTED"))
        /\ Msg("DISCONNECTED") \in Notice /\ Msg("DISCONNECTED").type \notin Word
    BY <1>6, Notices DEF Lost, Word
  <2>2. /\ Has(inbox'["sync"], Word) => read
        /\ AtMostOne(inbox["sync"], Word) => AtMostOne(inbox'["sync"], Word)
    BY <2>1, HeardOnce
  <2>3. ~Has(<<>>, Word) /\ AtMostOne(<<>>, Word)
    BY SingleOnce
  <2> QED BY <1>2, <2>1, <2>2, <2>3
<1>7. ASSUME NEW n \in Notice, Judged(n)
      PROVE /\ AtMostOne(toRelay', Turn) /\ AtMostOne(fromRelay', Word) /\ AtMostOne(inbox'["sync"], Word)
            /\ ~(turn' /\ word') /\ ~(turn' /\ read') /\ ~(word' /\ read')
            /\ sync'.done \/ sync'.pc = "new" => ~turn' /\ ~word' /\ ~read'
  <2>1. /\ fromRelay' = fromRelay /\ toRelay' = toRelay /\ sync' = sync /\ Hears("sync", n)
        /\ n.type \notin Word
    BY <1>7 DEF Judged, Word
  <2>2. /\ Has(inbox'["sync"], Word) => read
        /\ AtMostOne(inbox["sync"], Word) => AtMostOne(inbox'["sync"], Word)
    BY <2>1, HeardOnce
  <2> QED BY <1>2, <2>1, <2>2
<1>8. CASE Started
  <2>1. /\ sync.pc = "new" /\ toRelay' = Longer(toRelay, Msg("NEG-OPEN")) /\ fromRelay' = fromRelay
        /\ inbox' = inbox /\ sync'.pc = "checking" /\ sync'.done = sync.done
    BY <1>1, <1>8 DEF Started, SyncState
  <2>2. sync.done = FALSE
    BY <2>1 DEF TurnsClose, NewSync
  <2>3. Msg("NEG-OPEN") \in ToRelay
    BY ToRelayMessages
  <2>4. AtMostOne(toRelay, Turn) /\ ~Has(toRelay, Turn) => AtMostOne(Longer(toRelay, Msg("NEG-OPEN")), Turn)
    BY <1>1, <2>3, LongerOnce
  <2> QED BY <1>2, <2>1, <2>2, <2>4
<1>9. CASE Supported
  <2>1. /\ toRelay' = toRelay /\ fromRelay' = fromRelay /\ inbox' = inbox
        /\ sync'.pc = "running" /\ sync'.done = sync.done
    BY <1>1, <1>9 DEF Supported, SyncState
  <2> QED BY <1>2, <2>1
<1>10. CASE Cleaned
  <2>1. fromRelay' = fromRelay /\ inbox' = inbox /\ sync' = sync
    BY <1>10 DEF Cleaned
  <2>2. /\ Has(toRelay', Turn) <=> turn
        /\ AtMostOne(toRelay, Turn) => AtMostOne(toRelay', Turn)
    BY <1>10, CleanedQueues DEF Turn
  <2> QED BY <1>2, <2>1, <2>2
<1>11. ASSUME NEW why \in {"error", "closed"}, GivesUp(why)
       PROVE /\ AtMostOne(toRelay', Turn) /\ AtMostOne(fromRelay', Word) /\ AtMostOne(inbox'["sync"], Word)
             /\ ~(turn' /\ word') /\ ~(turn' /\ read') /\ ~(word' /\ read')
             /\ sync'.done \/ sync'.pc = "new" => ~turn' /\ ~word' /\ ~read'
  <2>1. /\ toRelay' = toRelay /\ fromRelay' = fromRelay /\ inbox'["sync"] = <<>>
        /\ sync'.pc = why /\ sync'.done = sync.done
    BY <1>1, <1>11 DEF GivesUp, SyncState
  <2>2. ~Has(<<>>, Word) /\ AtMostOne(<<>>, Word)
    BY SingleOnce
  <2> QED BY <1>2, <2>1, <2>2
<1>12. ASSUME NEW m \in Msgs(inbox["sync"]), NEW y, NEW f, NEW g, NEW b, NEW new,
              NEW msgs \in Seq(ToRelay), SyncGoes(m, y, f, g, b, new, msgs)
       PROVE /\ AtMostOne(toRelay', Turn) /\ AtMostOne(fromRelay', Word) /\ AtMostOne(inbox'["sync"], Word)
             /\ ~(turn' /\ word') /\ ~(turn' /\ read') /\ ~(word' /\ read')
             /\ sync'.done \/ sync'.pc = "new" => ~turn' /\ ~word' /\ ~read'
  <2>1. /\ inbox["sync"] # <<>> /\ m = Head(inbox["sync"]) /\ fromRelay' = fromRelay
        /\ inbox'["sync"] = Rest(inbox["sync"]) \/ inbox'["sync"] = <<>>
        /\ sync'.pc # "new"
    BY <1>1, <1>12 DEF SyncGoes, Takes
  <2>2. toRelay' = Joined(toRelay, msgs) /\ AtMostOne(msgs, Turn)
    BY <1>12 DEF SyncGoes, Queues
  <2>3. Has(msgs, Turn) => m.type = "NEG-MSG" /\ m.n # Len(Chunks)
    <3>1. ASSUME NEW x \in Msgs(msgs), x.type \in Turn PROVE m.type = "NEG-MSG" /\ m.n # Len(Chunks)
      <4>1. \/ x = Msg("NEG-CLOSE") /\ m.type = "NEG-MSG" /\ m.n = Len(Chunks)
            \/ x = NEG(m.n) /\ m.type = "NEG-MSG" /\ m.n # Len(Chunks)
            \/ x = CLOSE(m.id) /\ m.type = "EOSE" /\ m.id = sync.down_id
            \/ \E e \in f : x = EVENT(e)
            \/ x = REQ(sync.down_id + 1, b)
        BY <1>12 DEF SyncGoes, Queues
      <4> QED BY <3>1, <4>1, MessageTypes DEF Turn
    <3> QED BY <3>1 DEF Has
  <2>4. /\ AtMostOne(toRelay, Turn) /\ ~Has(msgs, Turn) => AtMostOne(Joined(toRelay, msgs), Turn)
        /\ AtMostOne(msgs, Turn) /\ ~Has(toRelay, Turn) => AtMostOne(Joined(toRelay, msgs), Turn)
        /\ Has(Joined(toRelay, msgs), Turn) <=> Has(toRelay, Turn) \/ Has(msgs, Turn)
    BY <1>1, JoinedOnce
  <2>5. /\ AtMostOne(inbox["sync"], Word) => AtMostOne(Rest(inbox["sync"]), Word)
        /\ AtMostOne(inbox["sync"], Word) /\ m.type \in Word => ~Has(Rest(inbox["sync"]), Word)
        /\ Has(inbox["sync"], Word) <=> m.type \in Word \/ Has(Rest(inbox["sync"]), Word)
    BY <1>1, <2>1, PoppedOnce
  <2>6. sync'.done <=> sync.done \/ (m.type = "NEG-MSG" /\ m.n = Len(Chunks))
    BY <1>12 DEF SyncGoes, ToldSays, GoesOn, GoesFields
  <2>7. ~Has(<<>>, Word) /\ AtMostOne(<<>>, Word)
    BY SingleOnce
  <2>8. m.type = "NEG-MSG" => m.type \in Word
    BY DEF Word
  <2>9. AtMostOne(toRelay', Turn) /\ (turn' => turn \/ (m.type = "NEG-MSG" /\ m.n # Len(Chunks)))
    <3>1. Has(msgs, Turn) => ~Has(toRelay, Turn)
      BY <1>2, <2>3, <2>5, <2>8
    <3>2. AtMostOne(Joined(toRelay, msgs), Turn)
      BY <1>2, <2>2, <2>4, <3>1
    <3>3. Has(Joined(toRelay, msgs), Turn) => turn \/ (m.type = "NEG-MSG" /\ m.n # Len(Chunks))
      BY <2>3, <2>4
    <3> QED BY <2>2, <3>2, <3>3
  <2>10. AtMostOne(inbox'["sync"], Word) /\ (read' => Has(Rest(inbox["sync"]), Word))
    BY <1>2, <2>1, <2>5, <2>7
  <2> QED BY <1>2, <2>1, <2>2, <2>3, <2>4, <2>5, <2>6, <2>8, <2>9, <2>10
<1> QED BY <1>3, <1>4, <1>5, <1>6, <1>7, <1>8, <1>9, <1>10, <1>11, <1>12 DEF Step

-----------------------------------------------------------------------------
(* What a channel owes: after every message of S comes x                   *)

EachClosed(w, S, x) == \A p \in DOMAIN w : w[p] \in S => \E q \in DOMAIN w : p < q /\ w[q] = x

LEMMA ClosedInRest ==
    ASSUME NEW M, NEW w \in Seq(M), w # <<>>, NEW S, NEW x, EachClosed(w, S, x)
    PROVE  EachClosed(Rest(w), S, x) /\ (Head(w) \in S => x \in Msgs(Rest(w)))
<1>1. /\ DOMAIN w = 1 .. Len(w) /\ DOMAIN Rest(w) = 1 .. Len(w) - 1 /\ Head(w) = w[1]
      /\ \A n \in 1 .. Len(w) - 1 : Rest(w)[n] = w[n + 1]
  BY PoppedPlaces
<1>2. Len(w) \in Nat \ {0}
  BY PoppedChannel
<1>3. ASSUME NEW q \in DOMAIN w, 1 < q PROVE q - 1 \in DOMAIN Rest(w) /\ Rest(w)[q - 1] = w[q]
  <2>1. q - 1 \in 1 .. Len(w) - 1 /\ (q - 1) + 1 = q
    BY <1>1, <1>2, <1>3
  <2> QED BY <1>1, <2>1
<1>4. ASSUME NEW p \in DOMAIN Rest(w), Rest(w)[p] \in S
      PROVE  \E q \in DOMAIN Rest(w) : p < q /\ Rest(w)[q] = x
  <2>1. p + 1 \in DOMAIN w /\ w[p + 1] \in S /\ p \in Nat \ {0}
    BY <1>1, <1>2, <1>4
  <2>2. PICK q \in DOMAIN w : p + 1 < q /\ w[q] = x
    BY <2>1 DEF EachClosed
  <2>3. 1 < q /\ p < q - 1
    BY <1>1, <1>2, <2>1, <2>2
  <2> QED BY <1>3, <2>2, <2>3
<1>5. ASSUME Head(w) \in S PROVE x \in Msgs(Rest(w))
  <2>1. 1 \in DOMAIN w /\ w[1] \in S
    BY <1>1, <1>2, <1>5
  <2>2. PICK q \in DOMAIN w : 1 < q /\ w[q] = x
    BY <2>1 DEF EachClosed
  <2> QED BY <1>3, <2>2 DEF Msgs
<1> QED BY <1>4, <1>5 DEF EachClosed

LEMMA ClosedInJoined ==
    ASSUME NEW M, NEW w \in Seq(M), NEW v \in Seq(M), NEW S, NEW x, EachClosed(w, S, x),
           Msgs(v) \cap S = {}
    PROVE  EachClosed(Joined(w, v), S, x)
<1>1. /\ DOMAIN w = 1 .. Len(w) /\ DOMAIN v = 1 .. Len(v)
      /\ DOMAIN Joined(w, v) = 1 .. Len(w) + Len(v)
      /\ \A n \in 1 .. Len(w) : Joined(w, v)[n] = w[n]
      /\ \A n \in 1 .. Len(w) + Len(v) : n > Len(w) => n - Len(w) \in 1 .. Len(v)
                                                     /\ Joined(w, v)[n] = v[n - Len(w)]
  BY JoinedPlaces
<1>2. Len(w) \in Nat /\ Len(v) \in Nat
  BY JoinedChannels
<1>3. ASSUME NEW p \in DOMAIN Joined(w, v), Joined(w, v)[p] \in S
      PROVE  \E q \in DOMAIN Joined(w, v) : p < q /\ Joined(w, v)[q] = x
  <2>1. p <= Len(w)
    <3>1. CASE p > Len(w)
      <4>1. Joined(w, v)[p] \in Msgs(v)
        BY <1>1, <3>1 DEF Msgs
      <4> QED BY <1>3, <4>1
    <3> QED BY <1>1, <1>2, <3>1
  <2>2. p \in DOMAIN w /\ w[p] \in S
    BY <1>1, <1>2, <1>3, <2>1
  <2>3. PICK q \in DOMAIN w : p < q /\ w[q] = x
    BY <2>2 DEF EachClosed
  <2> QED BY <1>1, <1>2, <2>3
<1> QED BY <1>3 DEF EachClosed

LEMMA ClosedInLonger ==
    ASSUME NEW M, NEW w \in Seq(M), NEW m \in M, NEW S, NEW x
    PROVE  /\ EachClosed(w, S, x) /\ m \notin S => EachClosed(Longer(w, m), S, x)
           /\ m \notin S => EachClosed(Longer(w, m), S, m)
<1>1. /\ DOMAIN w = 1 .. Len(w) /\ DOMAIN Longer(w, m) = 1 .. Len(w) + 1
      /\ \A n \in 1 .. Len(w) : Longer(w, m)[n] = w[n]
      /\ Longer(w, m)[Len(w) + 1] = m
  BY LongerPlaces
<1>2. Len(w) \in Nat
  BY LongerChannel
<1>3. ASSUME m \notin S, NEW p \in DOMAIN Longer(w, m), Longer(w, m)[p] \in S
      PROVE  p \in DOMAIN w /\ w[p] \in S /\ p < Len(w) + 1 /\ Len(w) + 1 \in DOMAIN Longer(w, m)
  BY <1>1, <1>2, <1>3
<1>4. ASSUME m \notin S PROVE EachClosed(Longer(w, m), S, m)
  BY <1>1, <1>3, <1>4 DEF EachClosed
<1>5. ASSUME EachClosed(w, S, x), m \notin S PROVE EachClosed(Longer(w, m), S, x)
  <2>1. ASSUME NEW p \in DOMAIN Longer(w, m), Longer(w, m)[p] \in S
        PROVE  \E q \in DOMAIN Longer(w, m) : p < q /\ Longer(w, m)[q] = x
    <3>1. PICK q \in DOMAIN w : p < q /\ w[q] = x
      BY <1>3, <1>5, <2>1 DEF EachClosed
    <3> QED BY <1>1, <1>2, <3>1
  <2> QED BY <2>1 DEF EachClosed
<1> QED BY <1>4, <1>5

(* The messages before and after a step *)

LEMMA AsideMessages ==
    ASSUME Typed, Aside
    PROVE  /\ Msgs(toRelay) \subseteq Msgs(toRelay')
           /\ \A x \in Msgs(toRelay') : x \in Msgs(toRelay) \/ x \in {Msg("AUTH"), EVENT(SentEvent)}
           /\ Heard' = Heard
           /\ \A S, z : EachClosed(toRelay, S, z) /\ S \cap {Msg("AUTH"), EVENT(SentEvent)} = {} =>
                           EachClosed(toRelay', S, z)
<1>1. toRelay \in Seq(ToRelay)
  BY HeadsAreTyped
<1>2. Heard' = Heard
  BY DEF Aside, Heard
<1>3. CASE toRelay' = toRelay
  BY <1>2, <1>3
<1>4. ASSUME NEW x \in {Msg("AUTH"), EVENT(SentEvent)}, toRelay' = Longer(toRelay, x)
      PROVE  /\ Msgs(toRelay') = Msgs(toRelay) \cup {x}
             /\ \A S, z : EachClosed(toRelay, S, z) /\ S \cap {Msg("AUTH"), EVENT(SentEvent)} = {} =>
                             EachClosed(toRelay', S, z)
  <2>1. x \in ToRelay
    BY SentIsAnEvent, ToRelayMessages
  <2>2. Msgs(Longer(toRelay, x)) = Msgs(toRelay) \cup {x}
    BY <1>1, <2>1, LongerChannel
  <2>3. ASSUME NEW S, NEW z, EachClosed(toRelay, S, z), S \cap {Msg("AUTH"), EVENT(SentEvent)} = {}
        PROVE  EachClosed(Longer(toRelay, x), S, z)
    <3>1. x \notin S
      BY <2>3
    <3> QED BY <1>1, <2>1, <2>3, <3>1, ClosedInLonger
  <2> QED BY <1>4, <2>2, <2>3
<1> QED BY <1>2, <1>3, <1>4 DEF Aside

LEMMA AnsweredMessages ==
    ASSUME Typed, NEW m, NEW msgs, Answered(m, msgs)
    PROVE  /\ Msgs(toRelay) = {m} \cup Msgs(toRelay') /\ m \in ToRelay
           /\ Msgs(fromRelay') = Msgs(fromRelay) \cup Msgs(msgs)
           /\ Heard' = Heard \cup Msgs(msgs)
           /\ \A S, z : EachClosed(toRelay, S, z) => EachClosed(toRelay', S, z)
                                                     /\ (m \in S => z \in Msgs(toRelay'))
<1>1. toRelay \in Seq(ToRelay) /\ fromRelay \in Seq(FromRelay)
  BY HeadsAreTyped
<1>2. /\ toRelay # <<>> /\ m = Head(toRelay) /\ toRelay' = Rest(toRelay)
      /\ msgs \in Seq(FromRelay) /\ fromRelay' = Joined(fromRelay, msgs) /\ inbox' = inbox
  BY DEF Answered
<1>3. Msgs(toRelay) = {m} \cup Msgs(toRelay') /\ m \in ToRelay
  BY <1>1, <1>2, PoppedChannel
<1>4. Msgs(fromRelay') = Msgs(fromRelay) \cup Msgs(msgs)
  BY <1>1, <1>2, JoinedChannels
<1>5. Heard' = Heard \cup Msgs(msgs)
  BY <1>2, <1>4 DEF Heard
<1>6. ASSUME NEW S, NEW z, EachClosed(toRelay, S, z)
      PROVE  EachClosed(toRelay', S, z) /\ (m \in S => z \in Msgs(toRelay'))
  BY <1>1, <1>2, <1>6, ClosedInRest
<1> QED BY <1>3, <1>4, <1>5, <1>6

\* a message that is delivered was on its way; nothing is lost to the synchronisation unless it lags
LEMMA DeliveredMessages ==
    ASSUME Typed, NEW m \in FromRelay, Delivered(m)
    PROVE  /\ Msgs(fromRelay) = {m} \cup Msgs(fromRelay')
           /\ Msgs(inbox'["sync"]) \subseteq Msgs(inbox["sync"]) \cup {m}
           /\ Heard' \subseteq Heard
<1>1. fromRelay \in Seq(FromRelay)
  BY HeadsAreTyped
<1>2. fromRelay # <<>> /\ m = Head(fromRelay) /\ fromRelay' = Rest(fromRelay)
  BY DEF Delivered
<1>3. Msgs(fromRelay) = {m} \cup Msgs(fromRelay')
  BY <1>1, <1>2, PoppedChannel
<1>4. Msgs(inbox'["sync"]) \subseteq Msgs(inbox["sync"]) \cup {m}
  BY DEF Delivered, Hears
<1> QED BY <1>3, <1>4 DEF Heard

LEMMA LostMessages ==
    ASSUME Typed, Lost
    PROVE  Heard' \subseteq Heard \cup {Msg("DISCONNECTED")} /\ Msgs(fromRelay') = {}
<1>1. fromRelay' = <<>> /\ Msgs(inbox'["sync"]) \subseteq Msgs(inbox["sync"]) \cup {Msg("DISCONNECTED")}
  BY DEF Lost, Hears
<1>2. Msgs(fromRelay') = {}
  BY <1>1, FewMessages
<1> QED BY <1>1, <1>2 DEF Heard

LEMMA JudgedMessages ==
    ASSUME Typed, NEW n \in Notice, Judged(n)
    PROVE  Heard' \subseteq Heard \cup {n}
<1>1. fromRelay' = fromRelay /\ Msgs(inbox'["sync"]) \subseteq Msgs(inbox["sync"]) \cup {n}
  BY DEF Judged, Hears
<1> QED BY <1>1 DEF Heard

LEMMA CleanedMessages ==
    ASSUME Typed, Cleaned
    PROVE  /\ Msgs(toRelay') = Msgs(toRelay) \cup {CLOSE(sync.down_id), Msg("NEG-CLOSE")}
           /\ Heard' = Heard
           /\ \A S : S \cap {CLOSE(sync.down_id), Msg("NEG-CLOSE")} = {} =>
                /\ EachClosed(toRelay', S, CLOSE(sync.down_id))
                /\ EachClosed(toRelay', S, Msg("NEG-CLOSE"))
                /\ \A z : EachClosed(toRelay, S, z) => EachClosed(toRelay', S, z)
<1> DEFINE c == CLOSE(sync.down_id)
           w == Longer(toRelay, c)
           n == Msg("NEG-CLOSE")
<1>1. toRelay \in Seq(ToRelay) /\ sync.down_id \in Nat
  BY HeadsAreTyped DEF SyncState
<1>2. c \in ToRelay /\ n \in ToRelay
  BY <1>1, ToRelayMessages
<1>3. w \in Seq(ToRelay) /\ Msgs(w) = Msgs(toRelay) \cup {c}
  BY <1>1, <1>2, LongerChannel
<1>4. toRelay' = Longer(w, n)
  BY DEF Cleaned
<1>5. Heard' = Heard
  BY DEF Cleaned, Heard
<1> HIDE DEF w, c, n
<1>6. Msgs(toRelay') = Msgs(toRelay) \cup {c, n}
  <2>1. Msgs(Longer(w, n)) = Msgs(w) \cup {n}
    <3>1. w \in Seq(ToRelay)
      BY <1>3
    <3>2. n \in ToRelay
      BY <1>2
    <3> QED BY <3>1, <3>2, LongerChannel
  <2> QED BY <1>3, <1>4, <2>1
<1>7. ASSUME NEW S, S \cap {c, n} = {}
      PROVE  EachClosed(toRelay', S, c) /\ EachClosed(toRelay', S, n)
             /\ \A z : EachClosed(toRelay, S, z) => EachClosed(toRelay', S, z)
  <2>1. c \notin S /\ n \notin S
    BY <1>7
  <2>2. EachClosed(w, S, c)
    BY <1>1, <1>2, <2>1, ClosedInLonger DEF w
  <2>3. EachClosed(Longer(w, n), S, c) /\ EachClosed(Longer(w, n), S, n)
    BY <1>2, <1>3, <2>1, <2>2, ClosedInLonger
  <2>4. ASSUME NEW z, EachClosed(toRelay, S, z) PROVE EachClosed(Longer(w, n), S, z)
    <3>1. EachClosed(w, S, z)
      BY <1>1, <1>2, <2>1, <2>4, ClosedInLonger DEF w
    <3> QED BY <1>2, <1>3, <2>1, <3>1, ClosedInLonger
  <2> QED BY <1>4, <2>3, <2>4
<1> QED BY <1>5, <1>6, <1>7 DEF c, n

\* the messages a synchronisation reads and queues
LEMMA GoneMessages ==
    ASSUME Typed, NEW m, NEW y, NEW f, NEW g, NEW b, NEW new, NEW msgs, SyncGoes(m, y, f, g, b, new, msgs)
    PROVE  /\ m \in Msgs(inbox["sync"]) /\ m \in Notice
           /\ Msgs(toRelay') = Msgs(toRelay) \cup Msgs(msgs)
           /\ Msgs(inbox'["sync"]) \subseteq Msgs(inbox["sync"])
           /\ fromRelay' = fromRelay /\ Heard' \subseteq Heard
           /\ \A S, z : EachClosed(toRelay, S, z) /\ Msgs(msgs) \cap S = {} => EachClosed(toRelay', S, z)
<1>1. toRelay \in Seq(ToRelay) /\ inbox["sync"] \in Seq(Notice) /\ inbox \in [{"sync", "send"} -> Seq(Notice)]
  BY HeadsAreTyped
<1>2. /\ inbox["sync"] # <<>> /\ m = Head(inbox["sync"]) /\ fromRelay' = fromRelay
      /\ inbox'["sync"] = Rest(inbox["sync"]) \/ inbox'["sync"] = <<>>
  BY <1>1 DEF SyncGoes, Takes
<1>3. msgs \in Seq(ToRelay) /\ toRelay' = Joined(toRelay, msgs)
  BY DEF SyncGoes, Queues
<1>4. m \in Msgs(inbox["sync"]) /\ m \in Notice /\ Msgs(inbox["sync"]) = {m} \cup Msgs(Rest(inbox["sync"]))
  BY <1>1, <1>2, PoppedChannel
<1>5. Msgs(toRelay') = Msgs(toRelay) \cup Msgs(msgs)
  BY <1>1, <1>3, JoinedChannels
<1>6. Msgs(inbox'["sync"]) \subseteq Msgs(inbox["sync"])
  BY <1>2, <1>4, FewMessages
<1>7. Heard' \subseteq Heard
  BY <1>2, <1>6 DEF Heard
<1>8. ASSUME NEW S, NEW z, EachClosed(toRelay, S, z), Msgs(msgs) \cap S = {} PROVE EachClosed(toRelay', S, z)
  BY <1>1, <1>3, <1>8, ClosedInJoined
<1> QED BY <1>2, <1>4, <1>5, <1>6, <1>7, <1>8

LEMMA GivenUpMessages ==
    ASSUME Typed, NEW why, GivesUp(why)
    PROVE  /\ toRelay' = toRelay /\ fromRelay' = fromRelay /\ inbox'["sync"] = <<>> /\ Msgs(inbox'["sync"]) = {}
           /\ Heard' \subseteq Heard
<1>1. inbox \in [{"sync", "send"} -> Seq(Notice)]
  BY HeadsAreTyped
<1>2. toRelay' = toRelay /\ fromRelay' = fromRelay /\ inbox'["sync"] = <<>>
  BY <1>1 DEF GivesUp
<1>3. Msgs(inbox'["sync"]) = {}
  BY <1>2, FewMessages
<1> QED BY <1>2, <1>3 DEF Heard

\* no message of these types
LEMMA NoneOf ==
    \A w, T : Has(w, T) <=> \E m \in Msgs(w) : m.type \in T
BY DEF Has

\* the two ends agree on the number of the turn
LEMMA TurnsCountNext ==
    ASSUME Typed, OneTurn, OneTurn', TurnsCount, TurnsClose, ChunksAssumption, Step
    PROVE  TurnsCount'
<1>1. relay.neg \in Nat /\ Len(Chunks) \in Nat \ {0} /\ sync \in SyncState
  BY HeadsAreTyped DEF RelayState, ChunksAssumption
<1>2. ASSUME Active
      PROVE  /\ \A m \in Heard : m.type = "NEG-MSG" => m.n \in 1 .. Len(Chunks) /\ (connected => m.n = relay.neg)
             /\ \A m \in Msgs(toRelay) : m.type = "NEG-MSG" =>
                   m.n \in 1 .. Len(Chunks) - 1 /\ (connected => m.n = relay.neg)
             /\ \A m \in Msgs(toRelay) : connected /\ m.type = "NEG-OPEN" => relay.neg = 0
             /\ \A m \in Msgs(toRelay) : m.type = "NEG-CLOSE" => sync.done
  BY <1>2 DEF TurnsCount, Of, Asked
<1>3. /\ Has(toRelay, Turn) <=> \E m \in Msgs(toRelay) : m.type \in Turn
      /\ Has(fromRelay, Word) <=> \E m \in Msgs(fromRelay) : m.type \in Word
      /\ Has(inbox["sync"], Word) <=> \E m \in Msgs(inbox["sync"]) : m.type \in Word
  BY NoneOf
<1>4. (\E m \in Msgs(toRelay) : m.type \in Turn) => ~\E m \in Heard : m.type \in Word
  BY <1>3 DEF OneTurn, Heard
<1> SUFFICES ASSUME Active'
             PROVE  /\ \A m \in Heard' : m.type = "NEG-MSG" =>
                          m.n \in 1 .. Len(Chunks) /\ (connected' => m.n = relay'.neg)
                    /\ \A m \in Msgs(toRelay') : m.type = "NEG-MSG" =>
                          m.n \in 1 .. Len(Chunks) - 1 /\ (connected' => m.n = relay'.neg)
                    /\ \A m \in Msgs(toRelay') : connected' /\ m.type = "NEG-OPEN" => relay'.neg = 0
                    /\ \A m \in Msgs(toRelay') : m.type = "NEG-CLOSE" => sync'.done
  BY DEF TurnsCount, Of, Asked
<1> DEFINE Counted ==
             /\ \A m \in Heard' : m.type = "NEG-MSG" =>
                   m.n \in 1 .. Len(Chunks) /\ (connected' => m.n = relay'.neg)
             /\ \A m \in Msgs(toRelay') : m.type = "NEG-MSG" =>
                   m.n \in 1 .. Len(Chunks) - 1 /\ (connected' => m.n = relay'.neg)
             /\ \A m \in Msgs(toRelay') : connected' /\ m.type = "NEG-OPEN" => relay'.neg = 0
             /\ \A m \in Msgs(toRelay') : m.type = "NEG-CLOSE" => sync'.done
<1>5. CASE Acts
  <2>1. Aside
    BY <1>5, SendersStepAside DEF Acts
  <2>2. Active /\ sync' = sync /\ relay' = relay /\ connected' = connected
    BY <2>1 DEF Aside, Active
  <2>3. /\ \A x \in Msgs(toRelay') : x \in Msgs(toRelay) \/ x.type \in {"AUTH", "EVENT"}
        /\ Heard' = Heard
    BY <2>1, AsideMessages, MessageTypes
  <2> QED BY <1>2, <2>2, <2>3
<1>6. ASSUME NEW m \in Msgs(toRelay), NEW msgs \in Seq(FromRelay), FullyAnswered(m, msgs) PROVE Counted
  <2>1. Answered(m, msgs)
    BY <1>6 DEF FullyAnswered
  <2>2. /\ sync' = sync /\ connected' /\ connected /\ Active /\ relay' \in RelayState
    BY <2>1 DEF Answered, Active
  <2>3. /\ Msgs(toRelay) = {m} \cup Msgs(toRelay') /\ Heard' = Heard \cup Msgs(msgs)
    BY <2>1, AnsweredMessages
  <2>4. /\ AtMostOne(msgs, Word) /\ (Has(msgs, Word) => m.type \in Turn)
        /\ \A x \in Msgs(msgs) : x.type = "NEG-MSG" => x.n = relay.neg + 1 /\ relay'.neg = relay.neg + 1
        /\ relay'.neg = relay.neg \/ m.type \in Turn \/ m.type = "NEG-CLOSE"
        /\ m.type = "NEG-CLOSE" => relay'.neg = 0
    BY <1>6 DEF FullyAnswered, TurnAnswered
  <2>5. toRelay # <<>> /\ m = Head(toRelay) /\ toRelay' = Rest(toRelay) /\ toRelay \in Seq(ToRelay)
    BY <2>1, HeadsAreTyped DEF Answered
  <2>6. CASE m.type \in Turn
    <3>1. ~Has(toRelay', Turn)
      BY <2>5, <2>6, PoppedOnce DEF OneTurn
    <3>2. \A x \in Msgs(toRelay') : x.type \notin Turn
      BY <3>1, NoneOf
    <3>3. \A x \in Heard : x.type # "NEG-MSG"
      BY <1>4, <2>6 DEF Word
    <3>4. relay.neg + 1 \in 1 .. Len(Chunks)
      <4>1. CASE m.type = "NEG-OPEN"
        BY <1>1, <1>2, <2>2, <4>1
      <4>2. CASE m.type = "NEG-MSG"
        BY <1>1, <1>2, <2>2, <4>2
      <4> QED BY <2>6, <4>1, <4>2 DEF Turn
    <3>5. \A x \in Heard' : x.type = "NEG-MSG" => x.n = relay.neg + 1 /\ relay'.neg = relay.neg + 1
      BY <2>3, <2>4, <3>3
    <3> QED BY <1>2, <2>2, <2>3, <3>2, <3>4, <3>5 DEF Turn
  <2>7. CASE m.type = "NEG-CLOSE"
    <3>1. sync.done
      BY <1>2, <2>2, <2>7
    <3>2. ~Has(toRelay', Turn) /\ ~Has(fromRelay', Word) /\ ~Has(inbox'["sync"], Word)
      BY <2>2, <3>1 DEF OneTurn
    <3>3. /\ \A x \in Msgs(toRelay') : x.type \notin Turn
          /\ \A x \in Heard' : x.type \notin Word
      BY <3>2, NoneOf DEF Heard
    <3> QED BY <2>2, <3>1, <3>3 DEF Turn, Word
  <2>8. CASE m.type \notin Turn /\ m.type # "NEG-CLOSE"
    <3>1. relay'.neg = relay.neg
      BY <2>4, <2>8
    <3>2. \A x \in Msgs(msgs) : x.type # "NEG-MSG"
      BY <2>4, <2>8, NoneOf DEF Word
    <3> QED BY <1>2, <2>2, <2>3, <3>1, <3>2
  <2> QED BY <2>6, <2>7, <2>8
<1>7. ASSUME NEW m \in FromRelay, Delivered(m) PROVE Counted
  <2>1. sync' = sync /\ connected' = connected /\ relay' = relay /\ toRelay' = toRelay
    BY <1>7 DEF Delivered
  <2>2. Heard' \subseteq Heard
    BY <1>7, DeliveredMessages
  <2> QED BY <1>2, <2>1, <2>2 DEF Active
<1>8. CASE Lost
  <2>1. sync' = sync /\ connected' = FALSE /\ toRelay' = toRelay
    BY <1>8 DEF Lost
  <2>2. Heard' \subseteq Heard \cup {Msg("DISCONNECTED")}
    BY <1>8, LostMessages
  <2> QED BY <1>2, <2>1, <2>2, MessageTypes DEF Active
<1>9. ASSUME NEW n \in Notice, Judged(n) PROVE Counted
  <2>1. sync' = sync /\ connected' = connected /\ relay' = relay /\ toRelay' = toRelay
        /\ n.type \in {"AUTHENTICATED", "AUTH-FAILED"}
    BY <1>9 DEF Judged
  <2>2. Heard' \subseteq Heard \cup {n}
    BY <1>9, JudgedMessages
  <2> QED BY <1>2, <2>1, <2>2 DEF Active
<1>10. CASE Started
  <2>1. /\ sync.pc = "new" /\ fromRelay' = fromRelay /\ inbox' = inbox /\ relay' = relay
        /\ toRelay' = Longer(toRelay, Msg("NEG-OPEN"))
    BY <1>10 DEF Started
  <2>2. /\ \A x \in Msgs(toRelay) : x.type \notin Turn
        /\ \A x \in Heard : x.type \notin Word
        /\ \A x \in Msgs(toRelay) : x.type # "NEG-CLOSE"
        /\ relay.neg = 0
    <3>1. ~Has(toRelay, Turn) /\ ~Has(fromRelay, Word) /\ ~Has(inbox["sync"], Word)
      BY <2>1 DEF OneTurn
    <3>2. (\A x \in Msgs(toRelay) : x.type # "NEG-CLOSE") /\ relay.neg = 0
      BY <2>1 DEF TurnsClose, Asked
    <3> QED BY <1>3, <3>1, <3>2 DEF Heard
  <2>3. Msgs(toRelay') = Msgs(toRelay) \cup {Msg("NEG-OPEN")}
    BY <2>1, HeadsAreTyped, ToRelayMessages, LongerChannel
  <2>4. Heard' = Heard
    BY <2>1 DEF Heard
  <2> QED BY <2>1, <2>2, <2>3, <2>4, MessageTypes DEF Turn, Word
<1>11. CASE Supported
  <2>1. /\ sync'.done = sync.done /\ fromRelay' = fromRelay /\ inbox' = inbox /\ relay' = relay
        /\ toRelay' = toRelay /\ connected' = connected /\ Active
    BY <1>1, <1>11 DEF Supported, SyncState, Active
  <2>2. Heard' = Heard
    BY <2>1 DEF Heard
  <2> QED BY <1>2, <2>1, <2>2
<1>12. CASE Cleaned
  <2>1. Closing /\ sync' = sync
    BY <1>12 DEF Cleaned, Closing
  <2>2. Ended
    BY <2>1, HeadsAreTyped
  <2> QED BY <2>1, <2>2 DEF Ended, Active
<1>13. ASSUME NEW why \in {"error", "closed"}, GivesUp(why) PROVE Counted
  <2>1. sync'.pc = why
    BY <1>1, <1>13 DEF GivesUp, SyncState
  <2> QED BY <2>1 DEF Active
<1>14. ASSUME NEW m \in Msgs(inbox["sync"]), NEW y \in SyncState, NEW f, NEW g, NEW b, NEW new,
              NEW msgs \in Seq(ToRelay), SyncGoes(m, y, f, g, b, new, msgs)
       PROVE Counted
  <2>1. /\ Msgs(toRelay') = Msgs(toRelay) \cup Msgs(msgs) /\ Heard' \subseteq Heard
    BY <1>14, GoneMessages
  <2>2. sync.pc = "running" /\ connected' = connected /\ relay' = relay
    BY <1>14 DEF SyncGoes, Takes
  <2>3. sync'.done <=> sync.done \/ (m.type = "NEG-MSG" /\ m.n = Len(Chunks))
    BY <1>14 DEF SyncGoes, ToldSays, GoesOn, GoesFields
  <2>4. \A x \in Msgs(msgs) : /\ x.type = "NEG-MSG" => m.type = "NEG-MSG" /\ m.n # Len(Chunks) /\ x.n = m.n
                              /\ x.type # "NEG-OPEN"
                              /\ x.type = "NEG-CLOSE" => m.type = "NEG-MSG" /\ m.n = Len(Chunks)
    <3>1. ASSUME NEW x \in Msgs(msgs)
          PROVE  \/ x = Msg("NEG-CLOSE") /\ m.type = "NEG-MSG" /\ m.n = Len(Chunks)
                 \/ x = NEG(m.n) /\ m.type = "NEG-MSG" /\ m.n # Len(Chunks)
                 \/ x = CLOSE(m.id) /\ m.type = "EOSE" /\ m.id = sync.down_id
                 \/ \E e \in f : x = EVENT(e)
                 \/ x = REQ(sync.down_id + 1, b)
      BY <1>14 DEF SyncGoes, Queues
    <3> QED BY <3>1, MessageTypes
  <2>5. m \in Heard /\ Active
    BY <2>2 DEF Heard, Active
  <2>6. m.type = "NEG-MSG" => m.n \in 1 .. Len(Chunks) /\ (connected => m.n = relay.neg)
    BY <1>2, <2>5
  <2>7. \A x \in Msgs(msgs) : x.type = "NEG-MSG" => x.n \in 1 .. Len(Chunks) - 1 /\ (connected => x.n = relay.neg)
    BY <1>1, <2>4, <2>6
  <2> QED BY <1>2, <2>1, <2>2, <2>3, <2>4, <2>5, <2>7
<1> QED BY <1>5, <1>6, <1>7, <1>8, <1>9, <1>10, <1>11, <1>12, <1>13, <1>14 DEF Step

(* Negotiations are closed *)

Turns == {m \in ToRelay : m.type \in Turn}

ClosingComes ==
    /\ relay.neg # 0 => Open \/ Msg("NEG-CLOSE") \in Msgs(toRelay)
    /\ Open \/ EachClosed(toRelay, Turns, Msg("NEG-CLOSE"))
    /\ sync.pc = "new" => /\ relay.neg = 0 /\ relay.open = {} /\ sync = NewSync
                          /\ \A m \in Msgs(toRelay) : m.type \notin {"REQ", "NEG-CLOSE"}
LEMMA TurnsCloseParts == Typed => (TurnsClose <=> ClosingComes)
<1> SUFFICES ASSUME Typed PROVE TurnsClose <=> ClosingComes
  OBVIOUS
<1>1. toRelay \in Seq(ToRelay) /\ \A m \in Msgs(toRelay) : m \in ToRelay
  BY HeadsAreTyped DEF Msgs
<1>2. \A m \in ToRelay : m.type = "NEG-CLOSE" <=> m = Msg("NEG-CLOSE")
  BY DEF ToRelay, Msg
<1>3. Asked("NEG-CLOSE") # {} <=> Msg("NEG-CLOSE") \in Msgs(toRelay)
  BY <1>1, <1>2 DEF Asked
<1>4. (\A p \in DOMAIN toRelay : toRelay[p].type \in Turn =>
          Open \/ \E q \in DOMAIN toRelay : p < q /\ toRelay[q].type = "NEG-CLOSE")
      <=> Open \/ EachClosed(toRelay, Turns, Msg("NEG-CLOSE"))
  <2>1. \A p \in DOMAIN toRelay : toRelay[p] \in ToRelay
    BY <1>1
  <2>2. \A p \in DOMAIN toRelay : toRelay[p].type \in Turn <=> toRelay[p] \in Turns
    BY <2>1 DEF Turns
  <2>3. \A p \in DOMAIN toRelay : toRelay[p].type = "NEG-CLOSE" <=> toRelay[p] = Msg("NEG-CLOSE")
    BY <1>2, <2>1
  <2> QED BY <2>2, <2>3 DEF EachClosed
<1>5. Asked("REQ") = {} /\ Asked("NEG-CLOSE") = {} <=> \A m \in Msgs(toRelay) : m.type \notin {"REQ", "NEG-CLOSE"}
  BY DEF Asked
<1> QED BY <1>3, <1>4, <1>5 DEF TurnsClose, ClosingComes

LEMMA ClosingComesNext == Typed' /\ ClosingComes' => TurnsClose'
BY TurnsCloseParts, PTL

\* a negotiation that the relay has, or will have, will be closed
LEMMA TurnsCloseNext ==
    ASSUME Typed, Typed', OneTurn, OneTurn', TurnsClose, ChunksAssumption, Step
    PROVE  TurnsClose'
<1> DEFINE n == Msg("NEG-CLOSE")
<1>1. /\ relay.neg # 0 => Open \/ n \in Msgs(toRelay)
      /\ Open \/ EachClosed(toRelay, Turns, n)
      /\ sync.pc = "new" => /\ relay.neg = 0 /\ relay.open = {} /\ sync = NewSync
                            /\ \A m \in Msgs(toRelay) : m.type \notin {"REQ", "NEG-CLOSE"}
  BY TurnsCloseParts DEF ClosingComes
<1>2. Turns \cap {Msg("AUTH"), EVENT(SentEvent)} = {} /\ \A i : Turns \cap {CLOSE(i), n} = {}
  BY MessageTypes DEF Turns, Turn
<1>3. sync \in SyncState /\ toRelay \in Seq(ToRelay) /\ \A m \in Msgs(toRelay) : m \in ToRelay
  BY HeadsAreTyped DEF Msgs
<1>4. n.type = "NEG-CLOSE" /\ n \in ToRelay
  BY MessageTypes, ToRelayMessages
<1> HIDE DEF n
<1> SUFFICES /\ relay'.neg # 0 => Open' \/ n \in Msgs(toRelay')
             /\ Open' \/ EachClosed(toRelay', Turns, n)
             /\ sync'.pc = "new" => /\ relay'.neg = 0 /\ relay'.open = {} /\ sync' = NewSync
                                    /\ \A m \in Msgs(toRelay') : m.type \notin {"REQ", "NEG-CLOSE"}
  BY ClosingComesNext DEF ClosingComes, n
<1> DEFINE Comes ==
             /\ relay'.neg # 0 => Open' \/ n \in Msgs(toRelay')
             /\ Open' \/ EachClosed(toRelay', Turns, n)
             /\ sync'.pc = "new" => /\ relay'.neg = 0 /\ relay'.open = {} /\ sync' = NewSync
                                    /\ \A m \in Msgs(toRelay') : m.type \notin {"REQ", "NEG-CLOSE"}
<1>5. CASE Acts
  <2>1. Aside
    BY <1>5, SendersStepAside DEF Acts
  <2>2. sync' = sync /\ relay' = relay /\ Open' = Open
    BY <2>1 DEF Aside, Open, Active, Closing
  <2>3. /\ Msgs(toRelay) \subseteq Msgs(toRelay')
        /\ \A x \in Msgs(toRelay') : x \in Msgs(toRelay) \/ x.type \in {"AUTH", "EVENT"}
        /\ EachClosed(toRelay, Turns, n) => EachClosed(toRelay', Turns, n)
    BY <1>2, <2>1, AsideMessages, MessageTypes
  <2> QED BY <1>1, <2>2, <2>3
<1>6. ASSUME NEW m \in Msgs(toRelay), NEW msgs \in Seq(FromRelay), FullyAnswered(m, msgs) PROVE Comes
  <2>1. Answered(m, msgs)
    BY <1>6 DEF FullyAnswered
  <2>2. sync' = sync /\ Open' = Open
    BY <2>1 DEF Answered, Open, Active, Closing
  <2>3. /\ Msgs(toRelay) = {m} \cup Msgs(toRelay') /\ m \in ToRelay
        /\ EachClosed(toRelay, Turns, n) => EachClosed(toRelay', Turns, n) /\ (m \in Turns => n \in Msgs(toRelay'))
    BY <2>1, AnsweredMessages
  <2>4. /\ relay'.neg = relay.neg \/ m.type \in Turn \/ m.type = "NEG-CLOSE"
        /\ m.type = "NEG-CLOSE" => relay'.neg = 0
        /\ \A id \in relay'.open : id \in relay.open \/ (m.type = "REQ" /\ id = m.id)
    BY <1>6 DEF FullyAnswered, TurnAnswered, BatchAnswered
  <2>5. m.type \in Turn <=> m \in Turns
    BY <2>3 DEF Turns
  <2>6. relay'.neg # 0 => Open' \/ n \in Msgs(toRelay')
    <3>1. CASE m.type \in Turn
      BY <1>1, <2>2, <2>3, <2>5, <3>1
    <3>2. CASE m.type \notin Turn /\ m.type # "NEG-CLOSE"
      BY <1>1, <1>4, <2>2, <2>3, <2>4, <3>2
    <3> QED BY <2>4, <3>1, <3>2
  <2>7. ASSUME sync'.pc = "new"
        PROVE  /\ relay'.neg = 0 /\ relay'.open = {} /\ sync' = NewSync
               /\ \A x \in Msgs(toRelay') : x.type \notin {"REQ", "NEG-CLOSE"}
    <3>1. ~Has(toRelay, Turn) /\ sync.pc = "new"
      BY <2>2, <2>7 DEF OneTurn
    <3>2. m.type \notin Turn
      BY <3>1, NoneOf
    <3> QED BY <1>1, <2>2, <2>3, <2>4, <3>1, <3>2
  <2> QED BY <1>1, <2>2, <2>3, <2>6, <2>7
<1>7. ASSUME NEW m \in FromRelay, Delivered(m) PROVE Comes
  <2>1. sync' = sync /\ relay' = relay /\ toRelay' = toRelay /\ Open' = Open
    BY <1>7 DEF Delivered, Open, Active, Closing
  <2> QED BY <1>1, <2>1
<1>8. CASE Lost
  <2>1. sync' = sync /\ toRelay' = toRelay /\ Open' = Open /\ relay'.neg = 0 /\ relay'.open = {}
    BY <1>8 DEF Lost, Open, Active, Closing
  <2> QED BY <1>1, <2>1
<1>9. ASSUME NEW x \in Notice, Judged(x) PROVE Comes
  <2>1. sync' = sync /\ relay' = relay /\ toRelay' = toRelay /\ Open' = Open
    BY <1>9 DEF Judged, Open, Active, Closing
  <2> QED BY <1>1, <2>1
<1>10. CASE Started
  <2>1. sync.pc = "new" /\ sync'.pc = "checking" /\ sync'.done = sync.done
    BY <1>3, <1>10 DEF Started, SyncState
  <2>2. sync.done = FALSE
    BY <1>1, <2>1 DEF NewSync
  <2>3. Open'
    BY <2>1, <2>2 DEF Open, Active
  <2> QED BY <2>1, <2>3
<1>11. CASE Supported
  <2>1. sync'.done = sync.done /\ sync'.pc = "running" /\ sync.pc = "checking" /\ relay' = relay
        /\ toRelay' = toRelay /\ cleanup' = cleanup
    BY <1>3, <1>11 DEF Supported, SyncState
  <2>2. Open' = Open
    BY <2>1 DEF Open, Active, Closing
  <2> QED BY <1>1, <2>1, <2>2
<1>12. CASE Cleaned
  <2>1. Msgs(toRelay') = Msgs(toRelay) \cup {CLOSE(sync.down_id), n} /\ EachClosed(toRelay', Turns, n)
    BY <1>2, <1>12, CleanedMessages DEF n
  <2>2. sync' = sync /\ Ended
    BY <1>12, HeadsAreTyped DEF Cleaned, Closing
  <2> QED BY <2>1, <2>2 DEF Ended
<1>13. ASSUME NEW why \in {"error", "closed"}, GivesUp(why) PROVE Comes
  <2>1. sync'.pc = why /\ Closing'
    BY <1>3, <1>13 DEF GivesUp, SyncState, Closing
  <2> QED BY <2>1 DEF Open
<1>14. ASSUME NEW m \in Msgs(inbox["sync"]), NEW y \in SyncState, NEW f, NEW g, NEW b, NEW new,
              NEW msgs \in Seq(ToRelay), SyncGoes(m, y, f, g, b, new, msgs)
       PROVE Comes
  <2>1. Msgs(toRelay') = Msgs(toRelay) \cup Msgs(msgs)
    BY <1>14, GoneMessages
  <2>2. /\ sync.pc = "running" /\ relay' = relay /\ sync'.pc \in {"running", "ok", "error"}
        /\ cleanup' = (IF sync'.pc = "error" THEN "pending" ELSE cleanup)
        /\ sync'.pc # "error" => (sync'.pc = "ok" <=> Complete(sync'))
    BY <1>14 DEF SyncGoes, Takes
  <2>3. sync'.done <=> sync.done \/ (m.type = "NEG-MSG" /\ m.n = Len(Chunks))
    BY <1>14 DEF SyncGoes, ToldSays, GoesOn, GoesFields
  <2>4. CASE ~sync'.done
    <3>1. sync'.pc \in {"running", "error"}
      BY <2>2, <2>4 DEF Complete
    <3>2. Open'
      BY <2>2, <2>4, <3>1 DEF Open, Active, Closing
    <3> QED BY <2>2, <3>2
  <2>5. CASE sync'.done
    <3>1. ~Has(toRelay', Turn)
      BY <2>5 DEF OneTurn
    <3>2. \A x \in Msgs(toRelay') : x.type \notin Turn
      BY <3>1, NoneOf
    <3>3. EachClosed(toRelay', Turns, n)
      BY <3>2 DEF EachClosed, Turns, Msgs
    <3>4. relay'.neg # 0 => n \in Msgs(toRelay')
      <4>1. CASE sync.done
        <5>1. ~Open
          BY <2>2, <4>1, HeadsAreTyped DEF Open, Ended
        <5> QED BY <1>1, <2>1, <2>2, <5>1
      <4>2. CASE ~sync.done
        <5>1. n \in Msgs(msgs)
          BY <1>14, <2>3, <2>5, <4>2 DEF SyncGoes, Queues, n
        <5> QED BY <2>1, <5>1
      <4> QED BY <4>1, <4>2
    <3> QED BY <2>2, <3>3, <3>4
  <2> QED BY <2>4, <2>5
<1> QED BY <1>5, <1>6, <1>7, <1>8, <1>9, <1>10, <1>11, <1>12, <1>13, <1>14 DEF Step

-----------------------------------------------------------------------------
(* Identifiers                                                             *)

Reqs(id) == {m \in ToRelay : m.type = "REQ" /\ m.id = id}
NotAsked(id) == \A m \in Msgs(toRelay) : m \notin Reqs(id)
IdsKept ==
    /\ registered \subseteq {sync.down_id}
    /\ registered # {} => Fetching \/ Closing
    /\ \A m \in Msgs(inbox["sync"]) : m.type = "CLOSED" => m.id \notin registered
    /\ \A id \in relay.open : Current(id) \/ CLOSE(id) \in Msgs(toRelay)
    /\ \A id \in Nat : Current(id) \/ NotAsked(id) \/ (Ended /\ EachClosed(toRelay, Reqs(id), CLOSE(id)))

LEMMA IdsCloseParts == Typed => (IdsClose <=> IdsKept)
<1> SUFFICES ASSUME Typed PROVE IdsClose <=> IdsKept
  OBVIOUS
<1>1. \A p \in DOMAIN toRelay : toRelay[p] \in ToRelay
  BY HeadsAreTyped
<1>2. (\A n \in DOMAIN inbox["sync"] : inbox["sync"][n].type = "CLOSED" => inbox["sync"][n].id \notin registered)
      <=> \A m \in Msgs(inbox["sync"]) : m.type = "CLOSED" => m.id \notin registered
  BY DEF Msgs
<1>3. ASSUME \A p \in DOMAIN toRelay : toRelay[p].type = "REQ" =>
                \/ Current(toRelay[p].id)
                \/ Ended /\ \E q \in DOMAIN toRelay : p < q /\ toRelay[q] = CLOSE(toRelay[p].id),
             NEW id \in Nat, ~Current(id), ~NotAsked(id)
      PROVE  Ended /\ EachClosed(toRelay, Reqs(id), CLOSE(id))
  <2>1. ASSUME NEW p \in DOMAIN toRelay, toRelay[p] \in Reqs(id)
        PROVE  Ended /\ \E q \in DOMAIN toRelay : p < q /\ toRelay[q] = CLOSE(id)
    BY <1>3, <2>1 DEF Reqs
  <2>2. PICK p \in DOMAIN toRelay : toRelay[p] \in Reqs(id)
    BY <1>3 DEF NotAsked, Msgs
  <2> QED BY <2>1, <2>2 DEF EachClosed
<1>4. ASSUME \A id \in Nat : Current(id) \/ NotAsked(id) \/ (Ended /\ EachClosed(toRelay, Reqs(id), CLOSE(id))),
             NEW p \in DOMAIN toRelay, toRelay[p].type = "REQ"
      PROVE  \/ Current(toRelay[p].id)
             \/ Ended /\ \E q \in DOMAIN toRelay : p < q /\ toRelay[q] = CLOSE(toRelay[p].id)
  <2>1. toRelay[p].id \in Nat /\ toRelay[p] \in Reqs(toRelay[p].id)
    BY <1>1, <1>4, ToRelayMessages DEF Reqs
  <2>2. ~NotAsked(toRelay[p].id)
    BY <2>1 DEF NotAsked, Msgs
  <2> QED BY <1>4, <2>1, <2>2 DEF EachClosed
<1> QED BY <1>2, <1>3, <1>4 DEF IdsClose, IdsKept

LEMMA IdsKeptNext == Typed' /\ IdsKept' => IdsClose'
BY IdsCloseParts, PTL

\* while a synchronisation goes on, a batch that is asked for is the one in flight
LEMMA AskedIsCurrent ==
    ASSUME Typed, IdsClose, Active, NEW m \in Msgs(toRelay), m.type = "REQ"
    PROVE  m.id = sync.down_id /\ sync.downloading
<1>1. m \in ToRelay /\ m.id \in Nat /\ m \in Reqs(m.id)
  BY HeadsAreTyped, ToRelayMessages DEF Msgs, Reqs
<1>2. ~Ended /\ ~Closing
  BY HeadsAreTyped DEF Ended, Active
<1>3. IdsKept
  BY IdsCloseParts
<1>4. ~NotAsked(m.id)
  BY <1>1 DEF NotAsked
<1>5. Current(m.id)
  BY <1>1, <1>2, <1>3, <1>4 DEF IdsKept
<1> QED BY <1>2, <1>5 DEF Current, Fetching

\* a new batch is asked for when none is in flight, on either side
LEMMA NewBatchAlone ==
    ASSUME Typed, IdsClose, IdsAreFresh, NEW m \in Msgs(inbox["sync"]), NEW y \in SyncState, NEW f, NEW g, NEW b,
           NEW msgs \in Seq(ToRelay), SyncGoes(m, y, f, g, b, TRUE, msgs)
    PROVE  ~Has(toRelay, {"REQ"}) /\ registered' = {sync.down_id + 1}
<1>1. Active /\ ~Closing /\ sync.down_id \in Nat
  BY HeadsAreTyped DEF SyncGoes, Takes, Active, Ended, SyncState
<1>2. ~sync.downloading \/ EndsBatch(m)
  BY DEF SyncGoes, Fetches, ToldSays
<1>3. m \in Heard
  BY DEF Heard
<1>4. ASSUME NEW r \in Msgs(toRelay), r.type = "REQ" PROVE FALSE
  <2>1. r.id = sync.down_id /\ sync.downloading
    BY <1>1, <1>4, AskedIsCurrent
  <2>2. Batch(m) /\ m.id = sync.down_id
    BY <1>2, <2>1 DEF EndsBatch, Batch
  <2> QED BY <1>3, <1>4, <2>1, <2>2 DEF IdsAreFresh, Asked
<1>5. ~Has(toRelay, {"REQ"})
  BY <1>4 DEF Has
<1>6. registered \ (IF m.type = "EOSE" /\ m.id = sync.down_id THEN {m.id} ELSE {}) = {}
  <2>1. registered \subseteq {sync.down_id} /\ (registered # {} => Fetching)
    BY <1>1 DEF IdsClose
  <2>2. m.type = "CLOSED" => m.id \notin registered
    BY IdsCloseParts DEF IdsKept
  <2> QED BY <1>2, <2>1, <2>2 DEF EndsBatch, Fetching
<1>7. registered' = {sync.down_id + 1}
  BY <1>6 DEF SyncGoes, Registers
<1> QED BY <1>5, <1>7

\* the REQ a synchronisation queues
LEMMA QueuedReq ==
    ASSUME NEW m, NEW y, NEW f, NEW g, NEW b, NEW new, NEW msgs,
           SyncGoes(m, y, f, g, b, new, msgs), NEW x \in Msgs(msgs), x.type = "REQ"
    PROVE  x = REQ(sync.down_id + 1, b) /\ new /\ sync'.pc # "error"
<1>1. \/ x = Msg("NEG-CLOSE") /\ m.type = "NEG-MSG" /\ m.n = Len(Chunks)
      \/ x = NEG(m.n) /\ m.type = "NEG-MSG" /\ m.n # Len(Chunks)
      \/ x = CLOSE(m.id) /\ m.type = "EOSE" /\ m.id = sync.down_id
      \/ \E e \in f : x = EVENT(e)
      \/ x = REQ(sync.down_id + 1, b) /\ new /\ sync'.pc # "error"
  BY DEF SyncGoes, Queues
<1> QED BY <1>1, MessageTypes

\* a REQ has an identifier that nobody has answered yet
LEMMA IdsAreFreshNext ==
    ASSUME Typed, TurnsClose, IdsClose, IdsAreFresh, ChunksAssumption, Step
    PROVE  IdsAreFresh'
<1>1. /\ \A m \in Heard : Batch(m) => m.id <= sync.down_id
      /\ \A id \in relay.open : id <= sync.down_id
      /\ AtMostOne(toRelay, {"REQ"})
      /\ \A r \in Msgs(toRelay) : r.type = "REQ" =>
          /\ r.id \notin relay.open /\ r.id <= sync.down_id
          /\ \A m \in Heard : Batch(m) => m.id # r.id
      /\ \A m \in Heard : m.type = "CLOSED" => m.id \notin relay.open
  BY DEF IdsAreFresh, Asked, Of
<1>2. /\ sync \in SyncState /\ sync.down_id \in Nat /\ toRelay \in Seq(ToRelay) /\ fromRelay \in Seq(FromRelay)
      /\ relay.open \subseteq Nat /\ inbox["sync"] \in Seq(Notice)
  BY HeadsAreTyped DEF SyncState, RelayState
<1> DEFINE Fresh ==
      /\ \A m \in Heard' : Batch(m) => m.id <= sync'.down_id
      /\ \A id \in relay'.open : id <= sync'.down_id
      /\ AtMostOne(toRelay', {"REQ"})
      /\ \A r \in Msgs(toRelay') : r.type = "REQ" =>
          /\ r.id \notin relay'.open /\ r.id <= sync'.down_id
          /\ \A m \in Heard' : Batch(m) => m.id # r.id
      /\ \A m \in Heard' : m.type = "CLOSED" => m.id \notin relay'.open
<1> SUFFICES Fresh
  BY DEF IdsAreFresh, Asked, Of
<1>3. CASE Acts
  <2>1. Aside
    BY <1>3, SendersStepAside DEF Acts
  <2>2. sync' = sync /\ relay' = relay
    BY <2>1 DEF Aside
  <2>3. /\ \A x \in Msgs(toRelay') : x \in Msgs(toRelay) \/ x.type \in {"AUTH", "EVENT"}
        /\ Heard' = Heard
    BY <2>1, AsideMessages, MessageTypes
  <2>4. AtMostOne(toRelay', {"REQ"})
    BY <1>1, <2>1, AsideQueues
  <2> QED BY <1>1, <2>2, <2>3, <2>4
<1>4. ASSUME NEW m \in Msgs(toRelay), NEW msgs \in Seq(FromRelay), FullyAnswered(m, msgs) PROVE Fresh
  <2>1. Answered(m, msgs)
    BY <1>4 DEF FullyAnswered
  <2>2. sync' = sync /\ toRelay # <<>> /\ m = Head(toRelay) /\ toRelay' = Rest(toRelay)
    BY <2>1 DEF Answered
  <2>3. Msgs(toRelay) = {m} \cup Msgs(toRelay') /\ Heard' = Heard \cup Msgs(msgs)
    BY <2>1, AnsweredMessages
  <2>4. /\ AtMostOne(toRelay', {"REQ"})
        /\ m.type = "REQ" => ~Has(toRelay', {"REQ"})
    BY <1>1, <1>2, <2>2, PoppedOnce
  <2>5. m.type = "REQ" => \A x \in Msgs(toRelay') : x.type # "REQ"
    BY <2>4, NoneOf
  <2>6. /\ \A x \in Msgs(msgs) : Batch(x) => m.type = "REQ" /\ x.id = m.id
        /\ \A id \in relay'.open : id \in relay.open \/ (m.type = "REQ" /\ id = m.id)
        /\ \A x \in Msgs(msgs) : x.type = "CLOSED" => relay'.open = relay.open
    BY <1>4 DEF FullyAnswered, BatchAnswered
  <2>7. CASE m.type = "REQ"
    <3>1. /\ m.id \notin relay.open /\ m.id <= sync.down_id
          /\ \A x \in Heard : Batch(x) => x.id # m.id
      BY <1>1, <2>7
    <3>2. \A x \in Heard' : Batch(x) => x.id <= sync.down_id
      BY <1>1, <2>3, <2>6, <3>1
    <3>3. \A x \in Heard' : x.type = "CLOSED" => x.id \notin relay'.open
      <4>1. ASSUME NEW x \in Heard, x.type = "CLOSED" PROVE x.id \notin relay'.open
        BY <1>1, <2>6, <3>1, <4>1 DEF Batch
      <4>2. ASSUME NEW x \in Msgs(msgs), x.type = "CLOSED" PROVE x.id \notin relay'.open
        BY <2>6, <3>1, <4>2 DEF Batch
      <4> QED BY <2>3, <4>1, <4>2
    <3> QED BY <1>1, <2>2, <2>4, <2>5, <2>6, <2>7, <3>1, <3>2, <3>3
  <2>8. CASE m.type # "REQ"
    <3>1. relay'.open \subseteq relay.open /\ \A x \in Msgs(msgs) : ~Batch(x)
      BY <2>6, <2>8
    <3>2. \A x \in Heard' : Batch(x) => x \in Heard
      BY <2>3, <3>1
    <3>3. \A x \in Heard' : x.type = "CLOSED" => x \in Heard
      BY <3>2 DEF Batch
    <3> QED BY <1>1, <2>2, <2>3, <2>4, <3>1, <3>2, <3>3
  <2> QED BY <2>7, <2>8
<1>5. ASSUME NEW m \in FromRelay, Delivered(m) PROVE Fresh
  <2>1. sync' = sync /\ relay' = relay /\ toRelay' = toRelay
    BY <1>5 DEF Delivered
  <2>2. Heard' \subseteq Heard
    BY <1>5, DeliveredMessages
  <2> QED BY <1>1, <2>1, <2>2
<1>6. CASE Lost
  <2>1. sync' = sync /\ toRelay' = toRelay /\ relay'.open = {}
    BY <1>6 DEF Lost
  <2>2. \A x \in Heard' : x \in Heard \/ x.type = "DISCONNECTED"
    BY <1>6, LostMessages, MessageTypes
  <2>3. \A x \in Heard' : Batch(x) => x \in Heard
    BY <2>2 DEF Batch
  <2> QED BY <1>1, <2>1, <2>3
<1>7. ASSUME NEW n \in Notice, Judged(n) PROVE Fresh
  <2>1. sync' = sync /\ relay' = relay /\ toRelay' = toRelay /\ n.type \in {"AUTHENTICATED", "AUTH-FAILED"}
    BY <1>7 DEF Judged
  <2>2. \A x \in Heard' : x \in Heard \/ x = n
    BY <1>7, JudgedMessages
  <2>3. \A x \in Heard' : Batch(x) \/ x.type = "CLOSED" => x \in Heard
    BY <2>1, <2>2 DEF Batch
  <2> QED BY <1>1, <2>1, <2>3
<1>8. CASE Started
  <2>1. /\ toRelay' = Longer(toRelay, Msg("NEG-OPEN")) /\ fromRelay' = fromRelay /\ inbox' = inbox
        /\ relay' = relay /\ sync'.down_id = sync.down_id
    BY <1>2, <1>8 DEF Started, SyncState
  <2>2. Msg("NEG-OPEN") \in ToRelay /\ Msg("NEG-OPEN").type = "NEG-OPEN"
    BY ToRelayMessages, MessageTypes
  <2>3. Msgs(toRelay') = Msgs(toRelay) \cup {Msg("NEG-OPEN")}
    BY <1>2, <2>1, <2>2, LongerChannel
  <2>4. AtMostOne(toRelay', {"REQ"})
    BY <1>1, <1>2, <2>1, <2>2, LongerOnce
  <2>5. Heard' = Heard
    BY <2>1 DEF Heard
  <2> QED BY <1>1, <2>1, <2>2, <2>3, <2>4, <2>5
<1>9. CASE Supported
  <2>1. /\ toRelay' = toRelay /\ fromRelay' = fromRelay /\ inbox' = inbox
        /\ relay' = relay /\ sync'.down_id = sync.down_id
    BY <1>2, <1>9 DEF Supported, SyncState
  <2>2. Heard' = Heard
    BY <2>1 DEF Heard
  <2> QED BY <1>1, <2>1, <2>2
<1>10. CASE Cleaned
  <2>1. sync' = sync /\ relay' = relay
    BY <1>10 DEF Cleaned
  <2>2. /\ \A x \in Msgs(toRelay') : x \in Msgs(toRelay) \/ x.type \in {"CLOSE", "NEG-CLOSE"}
        /\ Heard' = Heard
    BY <1>10, CleanedMessages, MessageTypes
  <2>3. AtMostOne(toRelay', {"REQ"})
    BY <1>1, <1>10, CleanedQueues
  <2> QED BY <1>1, <2>1, <2>2, <2>3
<1>11. ASSUME NEW why \in {"error", "closed"}, GivesUp(why) PROVE Fresh
  <2>1. relay' = relay /\ sync'.down_id = sync.down_id
    BY <1>2, <1>11 DEF GivesUp, SyncState
  <2>2. toRelay' = toRelay /\ Heard' \subseteq Heard
    BY <1>11, GivenUpMessages
  <2> QED BY <1>1, <2>1, <2>2
<1>12. ASSUME NEW m \in Msgs(inbox["sync"]), NEW y \in SyncState, NEW f, NEW g, NEW b \in SUBSET Events,
              NEW new \in BOOLEAN, NEW msgs \in Seq(ToRelay), SyncGoes(m, y, f, g, b, new, msgs)
       PROVE Fresh
  <2>1. Msgs(toRelay') = Msgs(toRelay) \cup Msgs(msgs) /\ Heard' \subseteq Heard
    BY <1>12, GoneMessages
  <2>2. relay' = relay /\ toRelay' = Joined(toRelay, msgs) /\ AtMostOne(msgs, {"REQ"})
    BY <1>12 DEF SyncGoes, Takes, Queues
  <2>3. sync'.down_id = IF new THEN sync.down_id + 1 ELSE sync.down_id
    BY <1>12 DEF SyncGoes, GoesOn, GoesFields, ToldSays
  <2>4. CASE new
    <3>1. ~Has(toRelay, {"REQ"})
      BY <1>12, <2>4, NewBatchAlone
    <3>2. AtMostOne(toRelay', {"REQ"})
      BY <1>2, <2>2, <3>1, JoinedOnce
    <3>3. ASSUME NEW r \in Msgs(toRelay'), r.type = "REQ"
          PROVE  r.id = sync.down_id + 1
      <4>1. r \in Msgs(msgs)
        BY <2>1, <3>1, <3>3 DEF Has
      <4> QED BY <1>12, <3>3, <4>1, QueuedReq, MessageTypes
    <3>4. \A id \in relay.open : id <= sync.down_id + 1 /\ id # sync.down_id + 1
      BY <1>1, <1>2
    <3>5. ASSUME NEW x \in Heard, Batch(x) PROVE x.id <= sync.down_id + 1 /\ x.id # sync.down_id + 1
      <4>1. x \in Notice
        BY <1>2, Notices DEF Heard, Msgs
      <4>2. x \in FromRelay
        BY <3>5, <4>1, Notices DEF Batch
      <4>3. x.id \in Nat
        BY <3>5, <4>2, FromRelayMessages DEF Batch
      <4> QED BY <1>1, <1>2, <3>5, <4>3
    <3> QED BY <1>1, <1>2, <2>1, <2>2, <2>3, <2>4, <3>2, <3>3, <3>4, <3>5
  <2>5. CASE ~new
    <3>1. \A x \in Msgs(msgs) : x.type # "REQ"
      BY <1>12, <2>5, QueuedReq
    <3>2. ~Has(msgs, {"REQ"})
      BY <3>1 DEF Has
    <3>3. AtMostOne(toRelay', {"REQ"})
      BY <1>1, <1>2, <2>2, <3>2, JoinedOnce
    <3> QED BY <1>1, <2>1, <2>2, <2>3, <2>5, <3>1, <3>3
  <2> QED BY <2>4, <2>5
<1> QED BY <1>3, <1>4, <1>5, <1>6, <1>7, <1>8, <1>9, <1>10, <1>11, <1>12 DEF Step

\* an identifier that the relay has, or will have, will be closed
LEMMA IdsCloseNext ==
    ASSUME Typed, Typed', TurnsClose, IdsAreFresh, IdsClose, ChunksAssumption, Step
    PROVE  IdsClose'
<1>1. /\ registered \subseteq {sync.down_id}
      /\ registered # {} => Fetching \/ Closing
      /\ \A m \in Msgs(inbox["sync"]) : m.type = "CLOSED" => m.id \notin registered
      /\ \A id \in relay.open : Current(id) \/ CLOSE(id) \in Msgs(toRelay)
      /\ \A id \in Nat : Current(id) \/ NotAsked(id) \/ (Ended /\ EachClosed(toRelay, Reqs(id), CLOSE(id)))
  BY IdsCloseParts DEF IdsKept
<1>2. /\ sync \in SyncState /\ sync.down_id \in Nat /\ toRelay \in Seq(ToRelay) /\ fromRelay \in Seq(FromRelay)
      /\ relay.open \subseteq Nat /\ inbox["sync"] \in Seq(Notice) /\ (Closing => Ended)
      /\ inbox \in [{"sync", "send"} -> Seq(Notice)]
  BY HeadsAreTyped DEF SyncState, RelayState
<1>3. \A id : Reqs(id) \cap {Msg("AUTH"), EVENT(SentEvent)} = {} /\ \A i : Reqs(id) \cap {CLOSE(i), Msg("NEG-CLOSE")} = {}
  BY MessageTypes DEF Reqs
<1> DEFINE Kept ==
      /\ registered' \subseteq {sync'.down_id}
      /\ registered' # {} => Fetching' \/ Closing'
      /\ \A m \in Msgs(inbox'["sync"]) : m.type = "CLOSED" => m.id \notin registered'
      /\ \A id \in relay'.open : Current(id)' \/ CLOSE(id) \in Msgs(toRelay')
      /\ \A id \in Nat : Current(id)' \/ NotAsked(id)' \/ (Ended' /\ EachClosed(toRelay', Reqs(id), CLOSE(id)))
<1> SUFFICES Kept
  <2>1. Kept => IdsKept'
    BY DEF IdsKept, Reqs
  <2> QED BY <2>1, IdsKeptNext
<1>4. CASE Acts
  <2>1. Aside
    BY <1>4, SendersStepAside DEF Acts
  <2>2. /\ sync' = sync /\ relay' = relay /\ registered' = registered /\ inbox'["sync"] = inbox["sync"]
        /\ cleanup' = cleanup
    BY <2>1 DEF Aside
  <2>3. (\A id : Current(id)' = Current(id)) /\ Ended' = Ended /\ Fetching' = Fetching /\ Closing' = Closing
    BY <2>2 DEF Current, Fetching, Active, Ended, Closing
  <2>4. /\ Msgs(toRelay) \subseteq Msgs(toRelay')
        /\ \A x \in Msgs(toRelay') : x \in Msgs(toRelay) \/ x \in {Msg("AUTH"), EVENT(SentEvent)}
        /\ \A S, z : EachClosed(toRelay, S, z) /\ S \cap {Msg("AUTH"), EVENT(SentEvent)} = {} =>
                           EachClosed(toRelay', S, z)
    BY <2>1, AsideMessages
  <2>5. \A id : NotAsked(id) => NotAsked(id)'
    BY <1>3, <2>4 DEF NotAsked, Reqs
  <2>6. \A id : EachClosed(toRelay, Reqs(id), CLOSE(id)) => EachClosed(toRelay', Reqs(id), CLOSE(id))
    BY <1>3, <2>4
  <2> QED BY <1>1, <2>2, <2>3, <2>4, <2>5, <2>6
<1>5. ASSUME NEW m \in Msgs(toRelay), NEW msgs \in Seq(FromRelay), FullyAnswered(m, msgs) PROVE Kept
  <2>1. Answered(m, msgs)
    BY <1>5 DEF FullyAnswered
  <2>2. sync' = sync /\ registered' = registered /\ inbox' = inbox /\ cleanup' = cleanup
    BY <2>1 DEF Answered
  <2>3. (\A id : Current(id)' = Current(id)) /\ Ended' = Ended /\ Fetching' = Fetching /\ Closing' = Closing
    BY <2>2 DEF Current, Fetching, Active, Ended, Closing
  <2>4. /\ Msgs(toRelay) = {m} \cup Msgs(toRelay') /\ m \in ToRelay
        /\ \A S, z : EachClosed(toRelay, S, z) => EachClosed(toRelay', S, z)
                                                  /\ (m \in S => z \in Msgs(toRelay'))
    BY <2>1, AnsweredMessages
  <2>5. /\ \A id \in relay'.open : id \in relay.open \/ (m.type = "REQ" /\ id = m.id)
        /\ m.type = "CLOSE" => m.id \notin relay'.open
    BY <1>5 DEF FullyAnswered, BatchAnswered
  <2>6. \A id : NotAsked(id) => NotAsked(id)'
    BY <2>4 DEF NotAsked, Reqs
  <2>7. ASSUME NEW id \in relay'.open PROVE Current(id) \/ CLOSE(id) \in Msgs(toRelay')
    <3>1. CASE id \in relay.open
      <4>1. CLOSE(id) # m
        BY <2>5, MessageTypes
      <4> QED BY <1>1, <2>4, <3>1, <4>1
    <3>2. CASE m.type = "REQ" /\ id = m.id
      <4>1. m \in Reqs(id) /\ id \in Nat
        BY <2>4, <3>2, ToRelayMessages DEF Reqs
      <4>2. ~NotAsked(id)
        BY <4>1 DEF NotAsked
      <4>3. Current(id) \/ EachClosed(toRelay, Reqs(id), CLOSE(id))
        BY <1>1, <4>1, <4>2
      <4> QED BY <2>4, <4>1, <4>3
    <3> QED BY <2>5, <3>1, <3>2
  <2>8. \A id : EachClosed(toRelay, Reqs(id), CLOSE(id)) => EachClosed(toRelay', Reqs(id), CLOSE(id))
    BY <2>4
  <2> QED BY <1>1, <2>2, <2>3, <2>6, <2>7, <2>8
<1>6. ASSUME NEW m \in FromRelay, Delivered(m) PROVE Kept
  <2>1. /\ sync' = sync /\ relay' = relay /\ toRelay' = toRelay /\ cleanup' = cleanup
        /\ registered' = (IF m.type = "CLOSED" THEN registered \ {m.id} ELSE registered)
    BY <1>6 DEF Delivered
  <2>2. \A x \in Msgs(inbox'["sync"]) : x \in Msgs(inbox["sync"]) \/ x = m
    BY <1>6, DeliveredMessages
  <2>3. (\A id : Current(id)' = Current(id)) /\ Ended' = Ended /\ Fetching' = Fetching /\ Closing' = Closing
    BY <2>1 DEF Current, Fetching, Active, Ended, Closing
  <2>4. \A id : NotAsked(id)' = NotAsked(id)
    BY <2>1 DEF NotAsked, Reqs
  <2>5. registered' \subseteq registered /\ (m.type = "CLOSED" => m.id \notin registered')
    BY <2>1
  <2> QED BY <1>1, <2>1, <2>2, <2>3, <2>4, <2>5
<1>7. CASE Lost
  <2>1. /\ sync' = sync /\ relay'.open = {} /\ toRelay' = toRelay /\ cleanup' = cleanup /\ registered' = registered
        /\ Hears("sync", Msg("DISCONNECTED"))
    BY <1>7 DEF Lost
  <2>2. \A x \in Msgs(inbox'["sync"]) : x \in Msgs(inbox["sync"]) \/ x.type = "DISCONNECTED"
    BY <2>1, MessageTypes DEF Hears
  <2>3. (\A id : Current(id)' = Current(id)) /\ Ended' = Ended /\ Fetching' = Fetching /\ Closing' = Closing
    BY <2>1 DEF Current, Fetching, Active, Ended, Closing
  <2>4. \A id : NotAsked(id)' = NotAsked(id)
    BY <2>1 DEF NotAsked, Reqs
  <2> QED BY <1>1, <2>1, <2>2, <2>3, <2>4
<1>8. ASSUME NEW n \in Notice, Judged(n) PROVE Kept
  <2>1. /\ sync' = sync /\ relay' = relay /\ toRelay' = toRelay /\ cleanup' = cleanup /\ registered' = registered
        /\ Hears("sync", n) /\ n.type \in {"AUTHENTICATED", "AUTH-FAILED"}
    BY <1>8 DEF Judged
  <2>2. \A x \in Msgs(inbox'["sync"]) : x \in Msgs(inbox["sync"]) \/ x = n
    BY <2>1 DEF Hears
  <2>3. (\A id : Current(id)' = Current(id)) /\ Ended' = Ended /\ Fetching' = Fetching /\ Closing' = Closing
    BY <2>1 DEF Current, Fetching, Active, Ended, Closing
  <2>4. \A id : NotAsked(id)' = NotAsked(id)
    BY <2>1 DEF NotAsked, Reqs
  <2> QED BY <1>1, <2>1, <2>2, <2>3, <2>4
<1>9. CASE Started
  <2>1. /\ toRelay' = Longer(toRelay, Msg("NEG-OPEN")) /\ inbox' = inbox /\ registered' = registered
        /\ relay' = relay /\ sync.pc = "new"
    BY <1>9 DEF Started
  <2>2. Msg("NEG-OPEN") \in ToRelay /\ Msg("NEG-OPEN").type = "NEG-OPEN"
    BY ToRelayMessages, MessageTypes
  <2>3. Msgs(toRelay') = Msgs(toRelay) \cup {Msg("NEG-OPEN")}
    BY <1>2, <2>1, <2>2, LongerChannel
  <2>4. relay.open = {} /\ \A m \in Msgs(toRelay) : m.type # "REQ"
    BY <2>1 DEF TurnsClose, Asked
  <2>5. registered = {}
    BY <1>1, <1>2, <2>1 DEF Fetching, Active, Ended
  <2>6. \A id : NotAsked(id)'
    BY <2>2, <2>3, <2>4 DEF NotAsked, Reqs
  <2> QED BY <2>1, <2>4, <2>5, <2>6
<1>10. CASE Supported
  <2>1. /\ toRelay' = toRelay /\ inbox' = inbox /\ registered' = registered /\ cleanup' = cleanup
        /\ relay' = relay /\ sync'.down_id = sync.down_id /\ sync'.downloading = sync.downloading
        /\ sync.pc = "checking" /\ sync'.pc = "running"
    BY <1>2, <1>10 DEF Supported, SyncState
  <2>2. (\A id : Current(id)' = Current(id)) /\ Ended' = Ended /\ Fetching' = Fetching /\ Closing' = Closing
    BY <2>1 DEF Current, Fetching, Active, Ended, Closing
  <2>3. \A id : NotAsked(id)' = NotAsked(id)
    BY <2>1 DEF NotAsked, Reqs
  <2> QED BY <1>1, <2>1, <2>2, <2>3
<1>11. CASE Cleaned
  <2>1. /\ sync' = sync /\ relay' = relay /\ inbox' = inbox /\ Closing /\ registered' = registered \ {sync.down_id}
    BY <1>11 DEF Cleaned, Closing
  <2>2. /\ Msgs(toRelay') = Msgs(toRelay) \cup {CLOSE(sync.down_id), Msg("NEG-CLOSE")}
        /\ \A S : S \cap {CLOSE(sync.down_id), Msg("NEG-CLOSE")} = {} =>
              /\ EachClosed(toRelay', S, CLOSE(sync.down_id))
              /\ \A z : EachClosed(toRelay, S, z) => EachClosed(toRelay', S, z)
    BY <1>11, CleanedMessages
  <2>3. registered' = {} /\ Ended' = Ended /\ Ended
    BY <1>1, <1>2, <2>1 DEF Ended
  <2>4. \A id : Current(id) => id = sync.down_id
    BY DEF Current
  <2>5. \A id \in relay'.open : CLOSE(id) \in Msgs(toRelay')
    BY <1>1, <2>1, <2>2, <2>4
  <2>6. ASSUME NEW id \in Nat PROVE NotAsked(id)' \/ EachClosed(toRelay', Reqs(id), CLOSE(id))
    <3>1. CASE id = sync.down_id
      BY <1>3, <2>2, <3>1
    <3>2. CASE EachClosed(toRelay, Reqs(id), CLOSE(id))
      BY <1>3, <2>2, <3>2
    <3>3. CASE NotAsked(id)
      BY <1>3, <2>2, <3>3 DEF NotAsked, Reqs
    <3> QED BY <1>1, <2>4, <3>1, <3>2, <3>3
  <2> QED BY <2>3, <2>5, <2>6
<1>12. ASSUME NEW why \in {"error", "closed"}, GivesUp(why) PROVE Kept
  <2>1. /\ relay' = relay /\ sync'.down_id = sync.down_id /\ Closing' /\ registered' = registered /\ Active
    BY <1>2, <1>12 DEF GivesUp, SyncState, Closing
  <2>2. toRelay' = toRelay /\ Msgs(inbox'["sync"]) = {}
    BY <1>12, GivenUpMessages
  <2>3. \A id : Current(id) => Current(id)'
    BY <2>1 DEF Current
  <2>4. \A id : NotAsked(id)' = NotAsked(id)
    BY <2>2 DEF NotAsked, Reqs
  <2>5. ~Ended
    BY <2>1 DEF Ended, Active
  <2> QED BY <1>1, <2>1, <2>2, <2>3, <2>4, <2>5
<1>13. ASSUME NEW m \in Msgs(inbox["sync"]), NEW y \in SyncState, NEW f, NEW g, NEW b \in SUBSET Events,
              NEW new \in BOOLEAN, NEW msgs \in Seq(ToRelay), SyncGoes(m, y, f, g, b, new, msgs)
       PROVE Kept
  <2>1. /\ Msgs(toRelay') = Msgs(toRelay) \cup Msgs(msgs)
        /\ Msgs(inbox'["sync"]) \subseteq Msgs(inbox["sync"])
        /\ m \in Heard
    BY <1>13, GoneMessages DEF Heard
  <2>2. /\ relay' = relay /\ sync.pc = "running" /\ sync'.pc \in {"running", "ok", "error"}
        /\ cleanup' = (IF sync'.pc = "error" THEN "pending" ELSE cleanup)
        /\ sync'.pc # "error" => (sync'.pc = "ok" <=> Complete(sync'))
    BY <1>13 DEF SyncGoes, Takes
  <2>3. Active /\ ~Ended /\ ~Closing
    BY <1>2, <2>2 DEF Active, Ended
  <2>4. /\ sync'.down_id = IF new THEN sync.down_id + 1 ELSE sync.down_id
        /\ sync'.downloading <=> new \/ (sync.downloading /\ ~EndsBatch(m))
    BY <1>13 DEF SyncGoes, GoesOn, GoesFields, ToldSays
  <2>5. registered' = (registered \ (IF m.type = "EOSE" /\ m.id = sync.down_id THEN {m.id} ELSE {}))
                  \cup (IF new THEN {sync.down_id + 1} ELSE {})
    BY <1>13 DEF SyncGoes, Registers
  <2>6. sync'.downloading => Fetching' \/ Closing'
    BY <2>2 DEF Complete, Fetching, Active, Closing
  <2>7. \A r \in Msgs(toRelay) : r.type = "REQ" => r.id = sync.down_id /\ sync.downloading /\ ~EndsBatch(m)
    <3>1. ASSUME NEW r \in Msgs(toRelay), r.type = "REQ"
          PROVE  r.id = sync.down_id /\ sync.downloading /\ ~EndsBatch(m)
      <4>1. r.id = sync.down_id /\ sync.downloading
        BY <2>3, <3>1, AskedIsCurrent
      <4>2. Batch(m) => m.id # r.id
        BY <2>1, <3>1 DEF IdsAreFresh, Asked
      <4> QED BY <4>1, <4>2 DEF EndsBatch, Batch
    <3> QED BY <3>1
  <2>8. \A x \in Msgs(msgs) : x.type = "REQ" => new /\ x.id = sync.down_id + 1
    BY <1>13, QueuedReq, MessageTypes
  <2>9. \A r \in Msgs(toRelay') : r.type = "REQ" => r.id = sync'.down_id /\ sync'.downloading
    <3>1. CASE new
      <4>1. \A r \in Msgs(toRelay) : r.type # "REQ"
        BY <1>13, <3>1, NewBatchAlone DEF Has
      <4> QED BY <2>1, <2>4, <2>8, <3>1, <4>1
    <3>2. CASE ~new
      BY <2>1, <2>4, <2>7, <2>8, <3>2
    <3> QED BY <3>1, <3>2
  <2>10. \A id \in Nat : Current(id)' \/ NotAsked(id)'
    BY <2>6, <2>9 DEF Current, NotAsked, Reqs
  <2>11. EndsBatch(m) => sync.down_id \notin (registered \ (IF m.type = "EOSE" /\ m.id = sync.down_id THEN {m.id} ELSE {}))
    BY <1>1 DEF EndsBatch
  <2>12. registered # {} => sync.downloading
    BY <1>1, <2>3 DEF Fetching
  <2>13. registered' \subseteq {sync'.down_id} /\ (registered' # {} => sync'.downloading)
    <3>1. CASE new
      BY <1>13, <2>4, <3>1, NewBatchAlone
    <3>2. CASE ~new
      BY <1>1, <2>4, <2>5, <2>11, <2>12, <3>2
    <3> QED BY <3>1, <3>2
  <2>14. ASSUME NEW x \in Msgs(inbox'["sync"]), x.type = "CLOSED" PROVE x.id \notin registered'
    <3>1. x \in Heard /\ x.id \notin registered
      BY <1>1, <2>1, <2>14 DEF Heard
    <3>2. x.id <= sync.down_id
      BY <2>14, <3>1 DEF IdsAreFresh, Batch
    <3>3. x.id # sync.down_id + 1
      BY <1>2, <3>2
    <3> QED BY <2>5, <3>1, <3>3
  <2>15. ASSUME NEW id \in relay'.open PROVE Current(id)' \/ CLOSE(id) \in Msgs(toRelay')
    <3>1. CASE CLOSE(id) \in Msgs(toRelay)
      BY <2>1, <3>1
    <3>2. CASE Current(id)
      <4>1. id = sync.down_id /\ sync.downloading
        BY <2>3, <3>2 DEF Current, Fetching
      <4>2. CASE EndsBatch(m)
        <5>1. m.type # "CLOSED"
          BY <2>1, <2>2, <4>1, <4>2 DEF IdsAreFresh, Of, EndsBatch
        <5>2. m.type = "EOSE" /\ m.id = id
          BY <4>1, <4>2, <5>1 DEF EndsBatch
        <5>3. CLOSE(id) \in Msgs(msgs)
          BY <1>13, <4>1, <5>2 DEF SyncGoes, Queues
        <5> QED BY <2>1, <5>3
      <4>3. CASE ~EndsBatch(m)
        <5>1. ~new
          BY <1>13, <4>1, <4>3 DEF SyncGoes, Fetches, ToldSays
        <5> QED BY <2>4, <2>6, <4>1, <4>3, <5>1 DEF Current
      <4> QED BY <4>2, <4>3
    <3> QED BY <1>1, <2>2, <3>1, <3>2
  <2> QED BY <2>6, <2>10, <2>13, <2>14, <2>15
<1> QED BY <1>4, <1>5, <1>6, <1>7, <1>8, <1>9, <1>10, <1>11, <1>12, <1>13 DEF Step

-----------------------------------------------------------------------------
(* The steps of send_event and of the ingester                             *)

Authenticates ==
    /\ ingester = "idle" /\ challenge /\ ingester' = "authenticating" /\ challenge' = FALSE
    /\ toRelay' = Longer(toRelay, Msg("AUTH")) /\ send' = send /\ inbox' = inbox /\ lagged' = lagged
Sends ==
    /\ send = "idle" /\ send' = "wait_ok" /\ toRelay' = Longer(toRelay, EVENT(SentEvent))
    /\ UNCHANGED <<inbox, lagged, ingester, challenge>>
Finishes(result) ==
    /\ send \in Waiting /\ send' = result /\ inbox'["send"] = <<>> /\ UNCHANGED <<toRelay, ingester, challenge>>
    /\ result = "Ack" => OK(SentEvent, "true") \in Msgs(inbox["send"])
Reads(m) ==
    /\ send \in Waiting /\ "send" \notin lagged /\ inbox["send"] # <<>> /\ m = Head(inbox["send"])
    /\ inbox'["send"] = Rest(inbox["send"]) /\ UNCHANGED <<lagged, ingester, challenge>>
Skips(m) ==
    /\ Reads(m) /\ UNCHANGED <<send, toRelay>>
    /\ IF send = "wait_auth" THEN m.type \notin Verdict ELSE ~(m.type = "OK" /\ m.event = SentEvent)
Awaits(m) ==
    /\ Reads(m) /\ send = "wait_ok" /\ Refused(m) /\ send' = "wait_auth" /\ UNCHANGED toRelay
Repeats(m) ==
    /\ Reads(m) /\ send = "wait_auth" /\ send' = "wait_again"
    /\ toRelay' = Longer(toRelay, EVENT(SentEvent))

LEMMA ActsAre ==
    ASSUME Typed, Acts
    PROVE  \/ Authenticates \/ Sends
           \/ \E result \in {"Ack", "Rejected", "Unconfirmed"} : Finishes(result)
           \/ \E m \in Notice : Skips(m) \/ Awaits(m) \/ Repeats(m)
<1>1. toRelay \in Seq(ToRelay) /\ inbox["send"] \in Seq(Notice) /\ inbox \in [{"sync", "send"} -> Seq(Notice)]
  BY HeadsAreTyped
<1>2. CASE IngesterAuth
  <2>1. toRelay' = Longer(toRelay, Msg("AUTH"))
    BY <1>1, <1>2, FewMessages, ToRelayMessages DEF IngesterAuth, Longer
  <2> QED BY <1>2, <2>1 DEF IngesterAuth, Authenticates, broadcast
<1>3. CASE SendStart
  BY <1>3 DEF SendStart, Sends, Queue, Longer, broadcast, auth
<1>4. ASSUME NEW result, SendEnds(result), send \in Waiting, UNCHANGED <<ingester, challenge>>,
             result = "Ack" => OK(SentEvent, "true") \in Msgs(inbox["send"])
      PROVE  Finishes(result)
  <2>1. inbox'["send"] = <<>>
    BY <1>1, <1>4 DEF SendEnds
  <2> QED BY <1>4, <2>1 DEF SendEnds, Finishes
<1>5. CASE SendTimeout
  <2>1. Finishes("Unconfirmed")
    BY <1>4, <1>5 DEF SendTimeout, auth
  <2> QED BY <2>1
<1>6. CASE SendMessage
  <2>1. PICK m : m = Head(inbox["send"])
    OBVIOUS
  <2>2. /\ send \in Waiting /\ "send" \notin lagged /\ inbox["send"] # <<>>
        /\ UNCHANGED <<ingester, challenge>>
        /\ IF send = "wait_auth" THEN wait_for_authentication(m) ELSE wait_for_ok(m)
    BY <1>6, <2>1 DEF SendMessage, auth
  <2>3. m \in Notice /\ m \in Msgs(inbox["send"])
    BY <1>1, <2>1, <2>2, PoppedChannel
  <2>4. Read("send") => Reads(m)
    <3>1. Read("send") => inbox'["send"] = Rest(inbox["send"]) /\ lagged' = lagged
      BY <1>1 DEF Read, Rest
    <3> QED BY <2>1, <2>2, <3>1 DEF Reads
  <2>5. CASE send = "wait_auth"
    <3>1. CASE m.type = "AUTHENTICATED"
      <4>1. Repeats(m)
        BY <2>2, <2>4, <2>5, <3>1 DEF wait_for_authentication, Repeats, Queue, Longer
      <4> QED BY <2>3, <4>1
    <3>2. CASE m.type \in {"AUTH-FAILED", "DISCONNECTED"}
      <4>1. Finishes("Unconfirmed")
        BY <1>4, <2>2, <2>5, <3>2 DEF wait_for_authentication
      <4> QED BY <4>1
    <3>3. CASE m.type \notin {"AUTHENTICATED", "AUTH-FAILED", "DISCONNECTED"}
      <4>1. Skips(m)
        BY <2>2, <2>4, <2>5, <3>3 DEF wait_for_authentication, Skips, Skip, Verdict
      <4> QED BY <2>3, <4>1
    <3> QED BY <3>1, <3>2, <3>3
  <2>6. CASE send # "wait_auth" /\ m.type = "OK" /\ m.event = SentEvent
    <3>1. m = OK(SentEvent, m.status) /\ m.status \in {"true", "false", "auth-required"}
      BY <2>3, <2>6, Notices, FromRelayMessages
    <3>2. CASE m.status = "true"
      <4>1. SendEnds("Ack")
        BY <2>2, <2>6, <3>2 DEF wait_for_ok
      <4>2. Finishes("Ack")
        BY <1>4, <2>2, <2>3, <3>1, <3>2, <4>1
      <4> QED BY <4>2
    <3>3. CASE m.status = "auth-required" /\ send = "wait_ok"
      <4>1. Awaits(m)
        BY <2>2, <2>4, <2>6, <3>3 DEF wait_for_ok, Awaits, Refused
      <4> QED BY <2>3, <4>1
    <3>4. CASE m.status # "true" /\ ~(m.status = "auth-required" /\ send = "wait_ok")
      <4>1. SendEnds("Rejected")
        BY <2>2, <2>6, <3>4 DEF wait_for_ok
      <4>2. Finishes("Rejected")
        BY <1>4, <2>2, <4>1
      <4> QED BY <4>2
    <3> QED BY <3>2, <3>3, <3>4
  <2>7. CASE send # "wait_auth" /\ ~(m.type = "OK" /\ m.event = SentEvent)
    <3>1. CASE m.type = "DISCONNECTED"
      <4>1. SendEnds("Unconfirmed")
        BY <2>2, <2>7, <3>1 DEF wait_for_ok
      <4>2. Finishes("Unconfirmed")
        BY <1>4, <2>2, <4>1
      <4> QED BY <4>2
    <3>2. CASE m.type # "DISCONNECTED"
      <4>1. Skip
        BY <2>2, <2>7, <3>2 DEF wait_for_ok
      <4>2. Skips(m)
        BY <2>4, <2>7, <4>1 DEF Skip, Skips
      <4> QED BY <2>3, <4>2
    <3> QED BY <3>1, <3>2
  <2> QED BY <2>5, <2>6, <2>7
<1> QED BY <1>2, <1>3, <1>5, <1>6 DEF Acts

LEMMA ActsHear ==
    ASSUME Typed, Acts
    PROVE  Msgs(inbox'["send"]) \subseteq Msgs(inbox["send"])
<1>1. inbox["send"] \in Seq(Notice) /\ Msgs(<<>>) = {}
  BY HeadsAreTyped, FewMessages
<1>2. CASE inbox' = inbox
  BY <1>2
<1>3. CASE inbox'["send"] = <<>>
  BY <1>1, <1>3
<1>4. ASSUME NEW m, Reads(m) PROVE Msgs(inbox'["send"]) \subseteq Msgs(inbox["send"])
  BY <1>1, <1>4, PoppedChannel DEF Reads
<1> QED BY <1>2, <1>3, <1>4, ActsAre DEF Authenticates, Sends, Finishes, Skips, Awaits, Repeats

\* the inbox of send_event is left alone by the synchronisation
LEMMA OthersHear ==
    ASSUME Typed, Step, ~Acts,
           ~\E m \in FromRelay : Delivered(m), ~Lost, ~\E n \in Notice : Judged(n)
    PROVE  inbox'["send"] = inbox["send"] /\ ("send" \in lagged' <=> "send" \in lagged) /\ send' = send
           /\ ingester' = ingester /\ challenge' = challenge
<1>1. inbox \in [{"sync", "send"} -> Seq(Notice)]
  BY HeadsAreTyped
<1>2. ASSUME NEW m, NEW msgs, FullyAnswered(m, msgs)
      PROVE  inbox' = inbox /\ lagged' = lagged /\ send' = send /\ ingester' = ingester /\ challenge' = challenge
  BY <1>2 DEF FullyAnswered, Answered
<1>3. ASSUME Started \/ Supported \/ Cleaned
      PROVE  inbox' = inbox /\ lagged' = lagged /\ send' = send /\ ingester' = ingester /\ challenge' = challenge
  BY <1>3 DEF Started, Supported, Cleaned
<1>4. ASSUME NEW why, GivesUp(why)
      PROVE  inbox'["send"] = inbox["send"] /\ ("send" \in lagged' <=> "send" \in lagged) /\ send' = send
             /\ ingester' = ingester /\ challenge' = challenge
  BY <1>1, <1>4 DEF GivesUp
<1>5. ASSUME NEW m, NEW y, NEW f, NEW g, NEW b, NEW new, NEW msgs, SyncGoes(m, y, f, g, b, new, msgs)
      PROVE  inbox'["send"] = inbox["send"] /\ lagged' = lagged /\ send' = send
             /\ ingester' = ingester /\ challenge' = challenge
  BY <1>1, <1>5 DEF SyncGoes, Takes
<1> QED BY <1>2, <1>3, <1>4, <1>5 DEF Step

-----------------------------------------------------------------------------
(* Each event is somewhere                                                 *)

Whole == sync.local = sync.have \cup sync.up \cup sync.sent \cup sync.failures \cup sync.gone
AllAccepted == Accepted(fromRelay) /\ Accepted(inbox["sync"]) /\ Accepted(inbox["send"])
Wanted ==
    /\ Active /\ ~sync.downloading => sync.remote \subseteq sync.need \cup relay.answered
    /\ Fetching =>
        /\ \A r \in Msgs(toRelay) : r.type = "REQ" =>
            r.ids = sync.down /\ sync.remote \subseteq sync.need \cup sync.down \cup relay.answered
        /\ EOSE(sync.down_id) \in Heard => sync.remote \subseteq sync.need \cup relay.answered
        /\ CLOSED(sync.down_id, TRUE) \in Heard =>
            /\ sync.remote \subseteq sync.need \cup sync.down \cup relay.answered
            /\ \A m \in Heard : m.type = "STORED" /\ m.id = sync.down_id => m.event \in relay.answered

LEMMA EventsAreKeptParts == EventsAreKept <=> Whole /\ AllAccepted /\ Wanted
BY DEF EventsAreKept, Whole, AllAccepted, Wanted, Asked, Of

LEMMA EventsAreKeptPartsNext == Whole' /\ AllAccepted' /\ Wanted' => EventsAreKept'
BY EventsAreKeptParts, PTL

LEMMA SyncFieldsStay ==
    ASSUME Typed, Step,
           ~\E m \in Msgs(inbox["sync"]), y \in SyncState, f, g, b \in SUBSET Events,
              new \in BOOLEAN, msgs \in Seq(ToRelay) : SyncGoes(m, y, f, g, b, new, msgs)
    PROVE  \E pc : sync' = [sync EXCEPT !.pc = pc]
<1>1. sync \in SyncState
  BY HeadsAreTyped
<1>2. sync = [sync EXCEPT !.pc = sync.pc]
  BY <1>1 DEF SyncState
<1>3. sync' = sync \/ \E pc : sync' = [sync EXCEPT !.pc = pc]
  BY SendersStepAside DEF Step, Acts, Aside, FullyAnswered, Answered, Delivered, Lost, Judged, Started,
     Supported, Cleaned, GivesUp
<1> QED BY <1>2, <1>3

LEMMA WholeNext ==
    ASSUME Typed, Whole, Step
    PROVE  Whole'
<1>1. sync \in SyncState
  BY HeadsAreTyped
<1>2. ASSUME NEW pc, sync' = [sync EXCEPT !.pc = pc] PROVE Whole'
  BY <1>1, <1>2 DEF Whole, SyncState
<1>3. ASSUME NEW m \in Msgs(inbox["sync"]), NEW y \in SyncState, NEW f, NEW g, NEW b, NEW new, NEW msgs,
             SyncGoes(m, y, f, g, b, new, msgs)
      PROVE  Whole'
  <2>1. ToldSays(m, y) /\ Uploading(y, f, g) /\ GoesFields(sync', y, f, g, b, new)
    BY <1>3 DEF SyncGoes, GoesOn
  <2>2. y.local = y.have \cup y.up \cup y.sent \cup y.failures \cup y.gone
    <3>1. CASE m.type = "NEG-MSG"
      BY <2>1, <3>1 DEF ToldSays, Whole
    <3>2. CASE m.type = "OK"
      <4>1. CASE m.event \in sync.up /\ m.status = "true"
        BY <2>1, <3>2, <4>1 DEF ToldSays, Whole
      <4>2. CASE m.event \in sync.up /\ m.status # "true"
        BY <2>1, <3>2, <4>2 DEF ToldSays, Whole
      <4>3. CASE m.event \notin sync.up
        BY <2>1, <3>2, <4>3 DEF ToldSays, Whole
      <4> QED BY <4>1, <4>2, <4>3
    <3>3. CASE m.type \notin {"NEG-MSG", "OK"}
      BY <2>1, <3>3 DEF ToldSays, Whole
    <3> QED BY <3>1, <3>2, <3>3
  <2>3. f \subseteq y.have /\ g \subseteq y.have
    BY <2>1 DEF Uploading
  <2>4. /\ sync'.have = y.have \ (f \cup g) /\ sync'.up = y.up \cup f /\ sync'.gone = y.gone \cup g
        /\ sync'.local = y.local /\ sync'.sent = y.sent /\ sync'.failures = y.failures
    BY <2>1 DEF GoesFields
  <2>5. sync'.local = sync'.have \cup sync'.up \cup sync'.sent \cup sync'.failures \cup sync'.gone
    BY <2>2, <2>3, <2>4
  <2> QED BY <2>5 DEF Whole
<1> QED BY <1>2, <1>3, SyncFieldsStay

LEMMA RelayKeeps ==
    ASSUME Typed, Step
    PROVE  /\ relay.accepted \subseteq relay'.accepted /\ relay.answered \subseteq relay'.answered
           /\ (relay.refused => relay'.refused) /\ (relay.silent => relay'.silent)
<1>1. relay' = relay \/ Lost \/ \E m, msgs : Answered(m, msgs)
  BY SendersStepAside DEF Step, Acts, Aside, FullyAnswered, Delivered, Judged, Started,
     Supported, Cleaned, GivesUp, SyncGoes, Takes
<1> QED BY <1>1 DEF Lost, Answered

LEMMA AllAcceptedNext ==
    ASSUME Typed, AllAccepted, Step
    PROVE  AllAccepted'
<1> DEFINE Good(S) == \A m \in S : m.type = "OK" /\ m.status = "true" => m.event \in relay'.accepted
<1>1. Good(Msgs(fromRelay)) /\ Good(Msgs(inbox["sync"])) /\ Good(Msgs(inbox["send"]))
  BY RelayKeeps DEF AllAccepted, Accepted
<1> SUFFICES Good(Msgs(fromRelay')) /\ Good(Msgs(inbox'["sync"])) /\ Good(Msgs(inbox'["send"]))
  BY DEF AllAccepted, Accepted
<1>2. CASE Acts
  <2>1. fromRelay' = fromRelay /\ inbox'["sync"] = inbox["sync"]
    BY <1>2, SendersStepAside DEF Acts, Aside
  <2> QED BY <1>1, <1>2, <2>1, ActsHear
<1>3. ASSUME NEW m \in Msgs(toRelay), NEW msgs \in Seq(FromRelay), FullyAnswered(m, msgs)
      PROVE  Good(Msgs(fromRelay')) /\ Good(Msgs(inbox'["sync"])) /\ Good(Msgs(inbox'["send"]))
  <2>1. Msgs(fromRelay') = Msgs(fromRelay) \cup Msgs(msgs) /\ inbox' = inbox
    BY <1>3, AnsweredMessages DEF FullyAnswered, Answered
  <2>2. Good(Msgs(msgs))
    BY <1>3 DEF FullyAnswered, EventAnswered
  <2> QED BY <1>1, <2>1, <2>2
<1>4. ASSUME NEW m \in FromRelay, Delivered(m)
      PROVE  Good(Msgs(fromRelay')) /\ Good(Msgs(inbox'["sync"])) /\ Good(Msgs(inbox'["send"]))
  <2>1. Msgs(fromRelay) = {m} \cup Msgs(fromRelay')
    BY <1>4, DeliveredMessages
  <2>2. /\ Msgs(inbox'["sync"]) \subseteq Msgs(inbox["sync"]) \cup {m}
        /\ Msgs(inbox'["send"]) \subseteq Msgs(inbox["send"]) \cup {m}
    BY <1>4 DEF Delivered, Hears
  <2> QED BY <1>1, <2>1, <2>2
<1>5. ASSUME NEW n \in Notice, n.type # "OK", Hears("sync", n), Hears("send", n),
             Msgs(fromRelay') \subseteq Msgs(fromRelay)
      PROVE  Good(Msgs(fromRelay')) /\ Good(Msgs(inbox'["sync"])) /\ Good(Msgs(inbox'["send"]))
  <2>1. /\ Msgs(inbox'["sync"]) \subseteq Msgs(inbox["sync"]) \cup {n}
        /\ Msgs(inbox'["send"]) \subseteq Msgs(inbox["send"]) \cup {n}
    BY <1>5 DEF Hears
  <2> QED BY <1>1, <1>5, <2>1
<1>6. CASE Lost
  <2>1. Msg("DISCONNECTED") \in Notice /\ Msg("DISCONNECTED").type = "DISCONNECTED"
    BY Notices
  <2>2. Hears("sync", Msg("DISCONNECTED")) /\ Hears("send", Msg("DISCONNECTED")) /\ Msgs(fromRelay') = {}
    BY <1>6, LostMessages DEF Lost
  <2> QED BY <1>5, <2>1, <2>2
<1>7. ASSUME NEW n \in Notice, Judged(n)
      PROVE  Good(Msgs(fromRelay')) /\ Good(Msgs(inbox'["sync"])) /\ Good(Msgs(inbox'["send"]))
  <2>1. n.type # "OK" /\ Hears("sync", n) /\ Hears("send", n) /\ fromRelay' = fromRelay
    BY <1>7 DEF Judged
  <2> QED BY <1>5, <2>1
<1>8. CASE Started \/ Supported \/ Cleaned
  BY <1>1, <1>8 DEF Started, Supported, Cleaned
<1>9. ASSUME NEW why \in {"error", "closed"}, GivesUp(why)
      PROVE  Good(Msgs(fromRelay')) /\ Good(Msgs(inbox'["sync"])) /\ Good(Msgs(inbox'["send"]))
  <2>1. fromRelay' = fromRelay /\ Msgs(inbox'["sync"]) = {}
    BY <1>9, GivenUpMessages
  <2>2. inbox'["send"] = inbox["send"]
    BY <1>9, HeadsAreTyped DEF GivesUp
  <2> QED BY <1>1, <2>1, <2>2
<1>10. ASSUME NEW m, NEW y, NEW f, NEW g, NEW b, NEW new, NEW msgs, SyncGoes(m, y, f, g, b, new, msgs)
      PROVE  Good(Msgs(fromRelay')) /\ Good(Msgs(inbox'["sync"])) /\ Good(Msgs(inbox'["send"]))
  <2>1. fromRelay' = fromRelay /\ Msgs(inbox'["sync"]) \subseteq Msgs(inbox["sync"])
    BY <1>10, GoneMessages
  <2>2. inbox'["send"] = inbox["send"]
    BY <1>10, HeadsAreTyped DEF SyncGoes, Takes
  <2> QED BY <1>1, <2>1, <2>2
<1> QED BY <1>2, <1>3, <1>4, <1>6, <1>7, <1>8, <1>9, <1>10 DEF Step

LEMMA BatchEnds ==
    /\ \A i : Batch(EOSE(i)) /\ EOSE(i).id = i /\ EOSE(i).type = "EOSE"
    /\ \A i : /\ Batch(CLOSED(i, TRUE)) /\ CLOSED(i, TRUE).id = i
              /\ CLOSED(i, TRUE).type = "CLOSED" /\ CLOSED(i, TRUE).empty = TRUE
    /\ \A x : x.type = "STORED" => Batch(x)
BY DEF Batch, EOSE, CLOSED

\* when the batch is over, what is wanted of the other side is asked for or answered
LEMMA BatchIsHad ==
    ASSUME Typed, Wanted, NEW m, NEW y, NEW f, NEW g, NEW b, NEW new, NEW msgs,
           SyncGoes(m, y, f, g, b, new, msgs)
    PROVE  ~y.downloading => y.remote \subseteq y.need \cup relay.answered
<1>1. /\ Active /\ ~sync.downloading => sync.remote \subseteq sync.need \cup relay.answered
      /\ Fetching =>
        /\ EOSE(sync.down_id) \in Heard => sync.remote \subseteq sync.need \cup relay.answered
        /\ CLOSED(sync.down_id, TRUE) \in Heard =>
              sync.remote \subseteq sync.need \cup sync.down \cup relay.answered
  BY DEF Wanted
<1>2. m \in Heard /\ m \in Notice
  BY GoneMessages DEF Heard
<1>3. Active /\ ~BatchRefused(sync, m) /\ ToldSays(m, y)
  BY DEF SyncGoes, Takes, Active
<1>4. y.downloading <=> sync.downloading /\ ~EndsBatch(m)
  BY <1>3 DEF ToldSays
<1>5. \A A : sync.remote \subseteq sync.need \cup A => y.remote \subseteq y.need \cup A
  <2>1. CASE m.type = "NEG-MSG"
    BY <1>3, <2>1 DEF ToldSays
  <2>2. CASE m.type # "NEG-MSG"
    BY <1>3, <2>2 DEF ToldSays
  <2> QED BY <2>1, <2>2
<1>6. CASE ~sync.downloading
  BY <1>1, <1>3, <1>5, <1>6
<1>7. CASE sync.downloading /\ EndsBatch(m)
  <2>1. Fetching
    BY <1>3, <1>7 DEF Fetching
  <2>2. CASE m.type = "EOSE"
    <3>1. m = EOSE(sync.down_id)
      BY <1>2, <1>7, <2>2, Notices, FromRelayMessages DEF EndsBatch
    <3> QED BY <1>1, <1>2, <1>5, <2>1, <3>1
  <2>3. CASE m.type = "CLOSED"
    <3>1. m = CLOSED(sync.down_id, m.empty)
      BY <1>2, <1>7, <2>3, Notices, FromRelayMessages DEF EndsBatch
    <3>2. m.empty /\ sync.down = {}
      BY <1>3, <1>7, <2>3 DEF BatchRefused, EndsBatch
    <3>3. m.empty = TRUE
      BY <1>2, <2>3, <3>2, Notices, FromRelayMessages
    <3>4. sync.remote \subseteq sync.need \cup sync.down \cup relay.answered
      BY <1>1, <1>2, <2>1, <3>1, <3>3
    <3> QED BY <1>5, <3>2, <3>4
  <2> QED BY <1>7, <2>2, <2>3 DEF EndsBatch
<1> QED BY <1>4, <1>6, <1>7

LEMMA WantedNext ==
    ASSUME Typed, TurnsClose, IdsAreFresh, IdsClose, Wanted, ChunksAssumption, Step
    PROVE  Wanted'
<1>1. /\ Active /\ ~sync.downloading => sync.remote \subseteq sync.need \cup relay.answered
      /\ Fetching =>
        /\ \A r \in Msgs(toRelay) : r.type = "REQ" =>
            r.ids = sync.down /\ sync.remote \subseteq sync.need \cup sync.down \cup relay.answered
        /\ EOSE(sync.down_id) \in Heard => sync.remote \subseteq sync.need \cup relay.answered
        /\ CLOSED(sync.down_id, TRUE) \in Heard =>
            /\ sync.remote \subseteq sync.need \cup sync.down \cup relay.answered
            /\ \A m \in Heard : m.type = "STORED" /\ m.id = sync.down_id => m.event \in relay.answered
  BY DEF Wanted
<1>2. sync \in SyncState /\ toRelay \in Seq(ToRelay) /\ sync.down_id \in Nat
  BY HeadsAreTyped DEF SyncState
<1>3. relay.answered \subseteq relay'.answered
  BY RelayKeeps
\* what the synchronisation wants stays, when it stays and nothing of its batch is heard
<1>4. ASSUME sync' = sync, \A x \in Heard' : Batch(x) => x \in Heard,
             \A x \in Msgs(toRelay') : x.type = "REQ" => x \in Msgs(toRelay)
      PROVE  Wanted'
  <2>1. Active' = Active /\ Fetching' = Fetching
    BY <1>4 DEF Active, Fetching
  <2>2. /\ EOSE(sync.down_id) \in Heard' => EOSE(sync.down_id) \in Heard
        /\ CLOSED(sync.down_id, TRUE) \in Heard' => CLOSED(sync.down_id, TRUE) \in Heard
        /\ \A x \in Heard' : x.type = "STORED" => x \in Heard
    BY <1>4, BatchEnds
  <2>3. Active /\ ~sync.downloading => sync.remote \subseteq sync.need \cup relay'.answered
    BY <1>1, <1>3
  <2>4. ASSUME Fetching, NEW r \in Msgs(toRelay'), r.type = "REQ"
        PROVE  r.ids = sync.down /\ sync.remote \subseteq sync.need \cup sync.down \cup relay'.answered
    BY <1>1, <1>3, <1>4, <2>4
  <2>5. Fetching /\ EOSE(sync.down_id) \in Heard' => sync.remote \subseteq sync.need \cup relay'.answered
    BY <1>1, <1>3, <2>2
  <2>6. Fetching /\ CLOSED(sync.down_id, TRUE) \in Heard' =>
          /\ sync.remote \subseteq sync.need \cup sync.down \cup relay'.answered
          /\ \A m \in Heard' : m.type = "STORED" /\ m.id = sync.down_id => m.event \in relay'.answered
    BY <1>1, <1>3, <2>2
  <2> QED BY <1>4, <2>1, <2>3, <2>4, <2>5, <2>6 DEF Wanted
<1>5. CASE Acts
  <2>1. Aside
    BY <1>5, SendersStepAside DEF Acts
  <2>2. /\ sync' = sync /\ Heard' = Heard
        /\ \A x \in Msgs(toRelay') : x \in Msgs(toRelay) \/ x.type \in {"AUTH", "EVENT"}
    BY <2>1, AsideMessages, MessageTypes DEF Aside
  <2> QED BY <1>4, <2>2
<1>6. ASSUME NEW m \in Msgs(toRelay), NEW msgs \in Seq(FromRelay), FullyAnswered(m, msgs) PROVE Wanted'
  <2>1. Answered(m, msgs)
    BY <1>6 DEF FullyAnswered
  <2>2. sync' = sync /\ toRelay # <<>> /\ m = Head(toRelay) /\ toRelay' = Rest(toRelay)
    BY <2>1 DEF Answered
  <2>3. Msgs(toRelay) = {m} \cup Msgs(toRelay') /\ Heard' = Heard \cup Msgs(msgs)
    BY <2>1, AnsweredMessages
  <2>4. /\ \A x \in Msgs(msgs) : Batch(x) => m.type = "REQ" /\ x.id = m.id
        /\ \A x \in Msgs(msgs) : x.type = "EOSE" => m.ids \subseteq relay'.answered
        /\ \A x, y \in Msgs(msgs) : x.type = "CLOSED" /\ x.empty /\ y.type = "STORED" =>
              y.event \in relay'.answered
    BY <1>6 DEF FullyAnswered, BatchAnswered
  <2>5. CASE m.type # "REQ"
    <3>1. \A x \in Msgs(msgs) : ~Batch(x)
      BY <2>4, <2>5
    <3> QED BY <1>4, <2>2, <2>3, <3>1
  <2>6. CASE m.type = "REQ" /\ Active
    <3>1. m.id = sync.down_id /\ sync.downloading /\ Fetching
      BY <2>6, AskedIsCurrent DEF Fetching
    <3>2. m.ids = sync.down /\ sync.remote \subseteq sync.need \cup sync.down \cup relay.answered
      BY <1>1, <2>6, <3>1
    <3>3. \A x \in Heard : Batch(x) => x.id # sync.down_id
      BY <2>6, <3>1 DEF IdsAreFresh, Asked
    <3>4. ~Has(toRelay', {"REQ"})
      BY <1>2, <2>2, <2>6, PoppedOnce DEF IdsAreFresh
    <3>5. \A x \in Msgs(toRelay') : x.type # "REQ"
      BY <3>4, NoneOf
    <3>6. EOSE(sync.down_id) \in Heard' => sync.remote \subseteq sync.need \cup relay'.answered
      <4>1. EOSE(sync.down_id) \notin Heard
        BY <3>3, BatchEnds
      <4>2. EOSE(sync.down_id) \in Msgs(msgs) => m.ids \subseteq relay'.answered
        BY <2>4, BatchEnds
      <4> QED BY <1>3, <2>3, <3>2, <4>1, <4>2
    <3>7. ASSUME CLOSED(sync.down_id, TRUE) \in Heard', NEW x \in Heard', x.type = "STORED", x.id = sync.down_id
          PROVE  x.event \in relay'.answered
      <4>1. CLOSED(sync.down_id, TRUE) \notin Heard /\ x \notin Heard
        BY <3>3, <3>7, BatchEnds
      <4>2. CLOSED(sync.down_id, TRUE) \in Msgs(msgs) /\ x \in Msgs(msgs)
        BY <2>3, <3>7, <4>1
      <4> QED BY <2>4, <3>7, <4>2, BatchEnds
    <3>8. sync.remote \subseteq sync.need \cup sync.down \cup relay'.answered
      BY <1>3, <3>2
    <3> QED BY <2>2, <3>1, <3>5, <3>6, <3>7, <3>8 DEF Wanted
  <2>7. CASE ~Active
    BY <2>2, <2>7 DEF Wanted, Fetching, Active
  <2> QED BY <2>5, <2>6, <2>7
<1>7. ASSUME NEW m \in FromRelay, Delivered(m) PROVE Wanted'
  BY <1>4, <1>7, DeliveredMessages DEF Delivered
<1>8. CASE Lost
  <2>1. \A x \in Heard' : x \in Heard \/ x.type = "DISCONNECTED"
    BY <1>8, LostMessages, MessageTypes
  <2>2. \A x \in Heard' : Batch(x) => x \in Heard
    BY <2>1 DEF Batch
  <2> QED BY <1>4, <1>8, <2>2 DEF Lost
<1>9. ASSUME NEW n \in Notice, Judged(n) PROVE Wanted'
  <2>1. \A x \in Heard' : x \in Heard \/ x = n
    BY <1>9, JudgedMessages
  <2>2. \A x \in Heard' : Batch(x) => x \in Heard
    BY <1>9, <2>1 DEF Batch, Judged
  <2> QED BY <1>4, <1>9, <2>2 DEF Judged
<1>10. CASE Started
  <2>1. sync = NewSync /\ sync' = [sync EXCEPT !.pc = "checking"]
    BY <1>10 DEF Started, TurnsClose
  <2>2. sync'.downloading = FALSE /\ sync'.remote = {}
    BY <2>1 DEF NewSync
  <2> QED BY <2>2 DEF Wanted, Fetching
<1>11. CASE Supported
  <2>1. /\ sync.pc = "checking" /\ sync'.pc = "running" /\ sync'.downloading = sync.downloading
        /\ sync'.remote = sync.remote /\ sync'.need = sync.need /\ sync'.down = sync.down
        /\ sync'.down_id = sync.down_id
    BY <1>2, <1>11 DEF Supported, SyncState
  <2>2. toRelay' = toRelay /\ relay' = relay /\ Heard' = Heard
    BY <1>11 DEF Supported, Heard
  <2> QED BY <1>1, <2>1, <2>2 DEF Wanted, Fetching, Active
<1>12. CASE Cleaned
  <2>1. Ended /\ sync' = sync
    BY <1>12, HeadsAreTyped DEF Cleaned, Closing
  <2> QED BY <2>1 DEF Wanted, Fetching, Active, Ended
<1>13. ASSUME NEW why \in {"error", "closed"}, GivesUp(why) PROVE Wanted'
  <2>1. sync'.pc = why
    BY <1>2, <1>13 DEF GivesUp, SyncState
  <2> QED BY <2>1 DEF Wanted, Fetching, Active
<1>14. ASSUME NEW m \in Msgs(inbox["sync"]), NEW y \in SyncState, NEW f, NEW g, NEW b \in SUBSET Events,
              NEW new \in BOOLEAN, NEW msgs \in Seq(ToRelay), SyncGoes(m, y, f, g, b, new, msgs)
       PROVE Wanted'
  <2>1. /\ Msgs(toRelay') = Msgs(toRelay) \cup Msgs(msgs) /\ Heard' \subseteq Heard /\ m \in Heard /\ m \in Notice
    BY <1>14, GoneMessages DEF Heard
  <2>2. relay' = relay /\ Active /\ ~BatchRefused(sync, m)
    BY <1>14 DEF SyncGoes, Takes, Active
  <2>3. /\ ToldSays(m, y) /\ Fetches(y, b, new) /\ GoesFields(sync', y, f, g, b, new)
    BY <1>14 DEF SyncGoes, GoesOn
  <2>4. /\ y.downloading <=> sync.downloading /\ ~EndsBatch(m)
        /\ y.down_id = sync.down_id
        /\ sync'.remote = y.remote
        /\ sync'.need = IF new THEN y.need \ b ELSE y.need
        /\ sync'.down = IF new THEN b ELSE y.down
        /\ sync'.down_id = IF new THEN y.down_id + 1 ELSE y.down_id
        /\ sync'.downloading <=> new \/ y.downloading
    BY <2>3 DEF ToldSays, GoesFields
  <2>5. \A A : sync.remote \subseteq sync.need \cup A => y.remote \subseteq y.need \cup A
    <3>1. CASE m.type = "NEG-MSG"
      BY <2>3, <3>1 DEF ToldSays
    <3>2. CASE m.type # "NEG-MSG"
      BY <2>3, <3>2 DEF ToldSays
    <3> QED BY <3>1, <3>2
  <2>6. ~y.downloading => y.remote \subseteq y.need \cup relay.answered
    BY <1>14, BatchIsHad
  <2>7. CASE new
    <3>1. ~y.downloading /\ b \subseteq y.need /\ sync'.downloading /\ sync'.down_id = sync.down_id + 1
      BY <2>3, <2>4, <2>7 DEF Fetches
    <3>2. sync'.remote \subseteq sync'.need \cup sync'.down \cup relay.answered
      BY <2>4, <2>6, <2>7, <3>1
    <3>3. ASSUME NEW r \in Msgs(toRelay'), r.type = "REQ" PROVE r.ids = sync'.down
      <4>1. r \in Msgs(msgs)
        BY <1>14, <2>1, <2>7, <3>3, NewBatchAlone DEF Has
      <4>2. r = REQ(sync.down_id + 1, b)
        BY <1>14, <3>3, <4>1, QueuedReq
      <4>3. r.ids = b
        BY <4>2 DEF REQ
      <4> QED BY <2>4, <2>7, <4>3
    <3>4. \A x \in Heard : Batch(x) => x.id <= sync.down_id
      BY DEF IdsAreFresh
    <3>5. \A x \in Heard : Batch(x) => x.id # sync.down_id + 1
      <4>1. ~(sync.down_id + 1 <= sync.down_id)
        BY <1>2
      <4> QED BY <3>4, <4>1
    <3>6. EOSE(sync.down_id + 1) \notin Heard /\ CLOSED(sync.down_id + 1, TRUE) \notin Heard
      BY <3>5, BatchEnds
    <3> QED BY <2>1, <2>2, <3>1, <3>2, <3>3, <3>6 DEF Wanted
  <2>8. CASE ~new /\ ~y.downloading
    BY <2>2, <2>4, <2>6, <2>8 DEF Wanted, Fetching
  <2>9. CASE ~new /\ y.downloading
    <3>1. Fetching /\ ~EndsBatch(m) /\ sync'.downloading /\ sync'.down_id = sync.down_id
      BY <2>2, <2>4, <2>9 DEF Fetching
    <3>2. y.down = IF m.type = "STORED" /\ m.id = sync.down_id THEN sync.down \ {m.event} ELSE sync.down
      BY <2>3, <3>1 DEF ToldSays
    <3>3. ASSUME NEW r \in Msgs(toRelay'), r.type = "REQ"
          PROVE  r.ids = y.down /\ y.remote \subseteq y.need \cup y.down \cup relay.answered
      <4>1. r \in Msgs(toRelay)
        BY <1>14, <2>1, <2>9, <3>3, QueuedReq
      <4>2. r.id = sync.down_id
        BY <2>2, <3>3, <4>1, AskedIsCurrent
      <4>3. ~(m.type = "STORED" /\ m.id = sync.down_id)
        BY <2>1, <3>3, <4>1, <4>2 DEF IdsAreFresh, Asked, Batch
      <4>4. r.ids = sync.down /\ sync.remote \subseteq sync.need \cup (sync.down \cup relay.answered)
        BY <1>1, <3>1, <3>3, <4>1
      <4>5. y.down = sync.down
        BY <3>2, <4>3
      <4>6. y.remote \subseteq y.need \cup (sync.down \cup relay.answered)
        BY <2>5, <4>4
      <4> QED BY <4>4, <4>5, <4>6
    <3>4. EOSE(sync.down_id) \in Heard' => y.remote \subseteq y.need \cup relay.answered
      BY <1>1, <2>1, <2>5, <3>1
    <3>5. ASSUME CLOSED(sync.down_id, TRUE) \in Heard'
          PROVE  /\ y.remote \subseteq y.need \cup y.down \cup relay.answered
                 /\ \A x \in Heard' : x.type = "STORED" /\ x.id = sync.down_id => x.event \in relay.answered
      <4>1. /\ sync.remote \subseteq sync.need \cup (sync.down \cup relay.answered)
            /\ \A x \in Heard : x.type = "STORED" /\ x.id = sync.down_id => x.event \in relay.answered
        BY <1>1, <2>1, <3>1, <3>5
      <4>2. y.remote \subseteq y.need \cup (sync.down \cup relay.answered)
        BY <2>5, <4>1
      <4>3. sync.down \subseteq y.down \cup relay.answered
        BY <2>1, <3>2, <4>1
      <4> QED BY <2>1, <4>1, <4>2, <4>3
    <3> QED BY <2>2, <2>4, <2>9, <3>1, <3>3, <3>4, <3>5 DEF Wanted
  <2> QED BY <2>7, <2>8, <2>9
<1> QED BY <1>5, <1>6, <1>7, <1>8, <1>9, <1>10, <1>11, <1>12, <1>13, <1>14 DEF Step

\* an event is at one of the places of the synchronisation
LEMMA EventsAreKeptNext ==
    ASSUME Typed, TurnsClose, IdsAreFresh, IdsClose, EventsAreKept, ChunksAssumption, Step
    PROVE  EventsAreKept'
BY EventsAreKeptParts, WholeNext, AllAcceptedNext, WantedNext, EventsAreKeptPartsNext

-----------------------------------------------------------------------------
(* What comes before: every message of S comes after x                     *)

Preceded(w, S, x) == \A p \in DOMAIN w : w[p] \in S => \E q \in DOMAIN w : q < p /\ w[q] = x

LEMMA PrecededInRest ==
    ASSUME NEW M, NEW w \in Seq(M), w # <<>>, NEW S, NEW x, Preceded(w, S, x)
    PROVE  Head(w) \notin S /\ (Head(w) # x => Preceded(Rest(w), S, x))
<1>1. /\ DOMAIN w = 1 .. Len(w) /\ DOMAIN Rest(w) = 1 .. Len(w) - 1 /\ Head(w) = w[1]
      /\ \A n \in 1 .. Len(w) - 1 : Rest(w)[n] = w[n + 1]
  BY PoppedPlaces
<1>2. Len(w) \in Nat \ {0}
  BY PoppedChannel
<1>3. Head(w) \notin S
  <2>1. 1 \in DOMAIN w /\ ~\E q \in DOMAIN w : q < 1
    BY <1>1, <1>2
  <2> QED BY <1>1, <2>1 DEF Preceded
<1>4. ASSUME Head(w) # x, NEW p \in DOMAIN Rest(w), Rest(w)[p] \in S
      PROVE  \E q \in DOMAIN Rest(w) : q < p /\ Rest(w)[q] = x
  <2>1. p + 1 \in DOMAIN w /\ w[p + 1] \in S /\ p \in Nat
    BY <1>1, <1>2, <1>4
  <2>2. PICK q \in DOMAIN w : q < p + 1 /\ w[q] = x
    BY <2>1 DEF Preceded
  <2>3. q # 1
    BY <1>1, <1>4, <2>2
  <2>4. q - 1 \in 1 .. Len(w) - 1 /\ (q - 1) + 1 = q /\ q - 1 < p
    BY <1>1, <1>2, <2>1, <2>2, <2>3
  <2>5. Rest(w)[q - 1] = x
    BY <1>1, <2>2, <2>4
  <2> QED BY <1>1, <2>4, <2>5
<1> QED BY <1>3, <1>4 DEF Preceded

LEMMA PrecededInJoined ==
    ASSUME NEW M, NEW w \in Seq(M), NEW v \in Seq(M), NEW S, NEW x, Preceded(w, S, x),
           Preceded(v, S, x) \/ x \in Msgs(w)
    PROVE  Preceded(Joined(w, v), S, x)
<1>1. /\ DOMAIN w = 1 .. Len(w) /\ DOMAIN v = 1 .. Len(v)
      /\ DOMAIN Joined(w, v) = 1 .. Len(w) + Len(v)
      /\ \A n \in 1 .. Len(w) : Joined(w, v)[n] = w[n]
      /\ \A n \in 1 .. Len(v) : Joined(w, v)[Len(w) + n] = v[n]
      /\ \A n \in 1 .. Len(w) + Len(v) : n > Len(w) => n - Len(w) \in 1 .. Len(v)
                                                     /\ Joined(w, v)[n] = v[n - Len(w)]
  BY JoinedPlaces
<1>2. Len(w) \in Nat /\ Len(v) \in Nat
  BY JoinedChannels
<1>3. ASSUME NEW p \in DOMAIN Joined(w, v), Joined(w, v)[p] \in S, p <= Len(w)
      PROVE  \E q \in DOMAIN Joined(w, v) : q < p /\ Joined(w, v)[q] = x
  <2>1. p \in DOMAIN w /\ w[p] \in S
    BY <1>1, <1>2, <1>3
  <2>2. PICK q \in DOMAIN w : q < p /\ w[q] = x
    BY <2>1 DEF Preceded
  <2> QED BY <1>1, <1>2, <2>2
<1>4. ASSUME NEW p \in DOMAIN Joined(w, v), Joined(w, v)[p] \in S, p > Len(w)
      PROVE  \E q \in DOMAIN Joined(w, v) : q < p /\ Joined(w, v)[q] = x
  <2>1. CASE x \in Msgs(w)
    <3>1. PICK q \in DOMAIN w : w[q] = x
      BY <2>1 DEF Msgs
    <3> QED BY <1>1, <1>2, <1>4, <3>1
  <2>2. CASE Preceded(v, S, x)
    <3>1. p - Len(w) \in DOMAIN v /\ v[p - Len(w)] \in S
      BY <1>1, <1>4
    <3>2. PICK q \in DOMAIN v : q < p - Len(w) /\ v[q] = x
      BY <2>2, <3>1 DEF Preceded
    <3>3. Len(w) + q \in DOMAIN Joined(w, v) /\ Len(w) + q < p
      BY <1>1, <1>2, <3>2
    <3>4. Joined(w, v)[Len(w) + q] = x
      BY <1>1, <3>2
    <3> QED BY <3>3, <3>4
  <2> QED BY <2>1, <2>2
<1>5. \A p \in DOMAIN Joined(w, v) : p <= Len(w) \/ p > Len(w)
  BY <1>1, <1>2
<1> QED BY <1>3, <1>4, <1>5 DEF Preceded

LEMMA PrecededInLonger ==
    ASSUME NEW M, NEW w \in Seq(M), NEW m \in M, NEW S, NEW x, Preceded(w, S, x), m \notin S \/ x \in Msgs(w)
    PROVE  Preceded(Longer(w, m), S, x)
<1>1. /\ DOMAIN w = 1 .. Len(w) /\ DOMAIN Longer(w, m) = 1 .. Len(w) + 1
      /\ \A n \in 1 .. Len(w) : Longer(w, m)[n] = w[n]
      /\ Longer(w, m)[Len(w) + 1] = m
  BY LongerPlaces
<1>2. Len(w) \in Nat
  BY LongerChannel
<1>3. ASSUME NEW p \in DOMAIN Longer(w, m), Longer(w, m)[p] \in S
      PROVE  \E q \in DOMAIN Longer(w, m) : q < p /\ Longer(w, m)[q] = x
  <2>1. CASE p = Len(w) + 1
    <3>1. x \in Msgs(w)
      BY <1>1, <1>3, <2>1
    <3>2. PICK q \in DOMAIN w : w[q] = x
      BY <3>1 DEF Msgs
    <3> QED BY <1>1, <1>2, <2>1, <3>2
  <2>2. CASE p # Len(w) + 1
    <3>1. p \in DOMAIN w /\ w[p] \in S
      BY <1>1, <1>2, <1>3, <2>2
    <3>2. PICK q \in DOMAIN w : q < p /\ w[q] = x
      BY <3>1 DEF Preceded
    <3> QED BY <1>1, <1>2, <3>2
  <2> QED BY <2>1, <2>2
<1> QED BY <1>3 DEF Preceded

(* Refusals *)

Refusals(id) == {m \in Notice : m.type = "CLOSED" /\ m.id = id}
RefusalsKept ==
    Fetching /\ "sync" \notin lagged /\ ~relay.refused =>
        /\ Preceded(inbox["sync"], Refusals(sync.down_id), EOSE(sync.down_id))
        /\ \/ EOSE(sync.down_id) \in Msgs(inbox["sync"])
           \/ Preceded(fromRelay, Refusals(sync.down_id), EOSE(sync.down_id))

LEMMA RefusalsParts == Typed => (RefusalsAreReal <=> RefusalsKept)
<1> SUFFICES ASSUME Typed PROVE RefusalsAreReal <=> RefusalsKept
  OBVIOUS
<1>1. /\ \A n \in DOMAIN inbox["sync"] : inbox["sync"][n] \in Notice
      /\ \A n \in DOMAIN fromRelay : fromRelay[n] \in Notice
  BY HeadsAreTyped, Notices
<1>2. (\A n \in DOMAIN inbox["sync"] : Refusal(inbox["sync"][n]) => Ends(inbox["sync"], n))
        <=> Preceded(inbox["sync"], Refusals(sync.down_id), EOSE(sync.down_id))
  BY <1>1 DEF Preceded, Refusals, Refusal, Ends
<1>3. (\A n \in DOMAIN fromRelay : Refusal(fromRelay[n]) => Ends(fromRelay, n))
        <=> Preceded(fromRelay, Refusals(sync.down_id), EOSE(sync.down_id))
  BY <1>1 DEF Preceded, Refusals, Refusal, Ends
<1> QED BY <1>2, <1>3 DEF RefusalsAreReal, RefusalsKept

LEMMA RefusalsKeptNext == Typed' /\ RefusalsKept' => RefusalsAreReal'
BY RefusalsParts, PTL

\* what a request hears of a notification while it does not lag
LEMMA HeardAtTheEnd ==
    ASSUME Typed, NEW r \in {"sync", "send"}, NEW n \in Notice, Hears(r, n), r \in Receivers, r \notin lagged'
    PROVE  /\ r \notin lagged /\ inbox[r] \in Seq(Notice) /\ inbox'[r] = Longer(inbox[r], n)
           /\ Msgs(inbox'[r]) = Msgs(inbox[r]) \cup {n}
<1>1. r \notin lagged /\ inbox'[r] = Longer(inbox[r], n)
  BY DEF Hears
<1>2. inbox[r] \in Seq(Notice)
  BY HeadsAreTyped
<1>3. Msgs(Longer(inbox[r], n)) = Msgs(inbox[r]) \cup {n}
  BY <1>2, LongerChannel
<1> QED BY <1>1, <1>2, <1>3

\* an EOSE comes before a CLOSED that is no refusal, wherever the two are
LEMMA RefusalsNext ==
    ASSUME Typed, Typed', TurnsClose, IdsAreFresh, IdsClose, RefusalsAreReal, ChunksAssumption, Step
    PROVE  RefusalsAreReal'
<1> DEFINE id == sync.down_id
           S == Refusals(id)
           x == EOSE(id)
<1>1. Fetching /\ "sync" \notin lagged /\ ~relay.refused =>
        /\ Preceded(inbox["sync"], S, x)
        /\ x \in Msgs(inbox["sync"]) \/ Preceded(fromRelay, S, x)
  BY RefusalsParts DEF RefusalsKept
<1>2. /\ sync \in SyncState /\ id \in Nat /\ fromRelay \in Seq(FromRelay) /\ inbox["sync"] \in Seq(Notice)
      /\ inbox \in [{"sync", "send"} -> Seq(Notice)] /\ ("sync" \in Receivers <=> Active)
  BY HeadsAreTyped DEF SyncState
<1>3. x \in Notice /\ x \notin S
  BY <1>2, FromRelayMessages, Notices, MessageTypes DEF Refusals
<1>4. ASSUME sync'.down_id = sync.down_id,
             Fetching' /\ "sync" \notin lagged' /\ ~relay'.refused =>
                /\ Preceded(inbox'["sync"], S, x)
                /\ x \in Msgs(inbox'["sync"]) \/ Preceded(fromRelay', S, x)
      PROVE  RefusalsAreReal'
  <2>1. RefusalsKept'
    BY <1>4 DEF RefusalsKept, Refusals
  <2> QED BY <2>1, RefusalsKeptNext
<1>5. ASSUME ~Fetching' PROVE RefusalsAreReal'
  BY <1>5 DEF RefusalsAreReal
<1> HIDE DEF S, x
<1>6. CASE Acts
  <2>1. Aside
    BY <1>6, SendersStepAside DEF Acts
  <2>2. /\ sync' = sync /\ relay' = relay /\ fromRelay' = fromRelay /\ inbox'["sync"] = inbox["sync"]
        /\ ("sync" \in lagged' <=> "sync" \in lagged)
    BY <2>1 DEF Aside
  <2> QED BY <1>1, <1>4, <2>2 DEF Fetching, Active
<1>7. ASSUME NEW m \in Msgs(toRelay), NEW msgs \in Seq(FromRelay), FullyAnswered(m, msgs) PROVE RefusalsAreReal'
  <2>1. Answered(m, msgs)
    BY <1>7 DEF FullyAnswered
  <2>2. /\ sync' = sync /\ inbox' = inbox /\ lagged' = lagged /\ fromRelay' = Joined(fromRelay, msgs)
        /\ relay.refused => relay'.refused
    BY <2>1 DEF Answered
  <2>3. /\ \A z \in Msgs(msgs) : Batch(z) => m.type = "REQ" /\ z.id = m.id
        /\ \A n \in DOMAIN msgs : msgs[n].type = "CLOSED" /\ ~relay'.refused =>
              \E k \in DOMAIN msgs : k < n /\ msgs[k] = EOSE(m.id)
    BY <1>7 DEF FullyAnswered, BatchAnswered
  <2>4. ~relay'.refused => Preceded(msgs, S, x)
    <3>1. ASSUME ~relay'.refused, NEW n \in DOMAIN msgs, msgs[n] \in S
          PROVE  \E k \in DOMAIN msgs : k < n /\ msgs[k] = x
      <4>1. msgs[n] \in Msgs(msgs) /\ msgs[n].type = "CLOSED" /\ msgs[n].id = id
        BY <3>1 DEF S, Refusals, Msgs
      <4>2. m.id = id
        BY <2>3, <4>1 DEF Batch
      <4> QED BY <2>3, <3>1, <4>1, <4>2 DEF x
    <3> QED BY <3>1 DEF Preceded
  <2>5. Preceded(fromRelay, S, x) /\ Preceded(msgs, S, x) => Preceded(Joined(fromRelay, msgs), S, x)
    BY <1>2, PrecededInJoined
  <2>6. Fetching' => Fetching
    BY <2>2 DEF Fetching, Active
  <2> QED BY <1>1, <1>4, <2>2, <2>4, <2>5, <2>6
<1>8. ASSUME NEW m \in FromRelay, Delivered(m) PROVE RefusalsAreReal'
  <2>1. /\ sync' = sync /\ relay' = relay /\ fromRelay # <<>> /\ m = Head(fromRelay) /\ fromRelay' = Rest(fromRelay)
        /\ Hears("sync", m) /\ m \in Notice
    BY <1>8, Notices DEF Delivered
  <2>2. ASSUME Fetching', "sync" \notin lagged', ~relay'.refused
        PROVE  /\ Preceded(inbox'["sync"], S, x)
               /\ x \in Msgs(inbox'["sync"]) \/ Preceded(fromRelay', S, x)
    <3>1. Fetching /\ "sync" \in Receivers
      BY <1>2, <2>1, <2>2 DEF Fetching, Active
    <3>2. /\ "sync" \notin lagged /\ inbox'["sync"] = Longer(inbox["sync"], m)
          /\ Msgs(inbox'["sync"]) = Msgs(inbox["sync"]) \cup {m}
      BY <2>1, <2>2, <3>1, HeardAtTheEnd
    <3>3. Preceded(inbox["sync"], S, x)
      BY <1>1, <2>1, <2>2, <3>1, <3>2
    <3>4. CASE x \in Msgs(inbox["sync"])
      <4>1. Preceded(Longer(inbox["sync"], m), S, x)
        BY <1>2, <2>1, <3>3, <3>4, PrecededInLonger
      <4> QED BY <3>2, <3>4, <4>1
    <3>5. CASE Preceded(fromRelay, S, x)
      <4>1. m \notin S /\ (m # x => Preceded(Rest(fromRelay), S, x))
        BY <1>2, <2>1, <3>5, PrecededInRest
      <4>2. Preceded(Longer(inbox["sync"], m), S, x)
        BY <1>2, <2>1, <3>3, <4>1, PrecededInLonger
      <4> QED BY <2>1, <3>2, <4>1, <4>2
    <3> QED BY <1>1, <2>1, <2>2, <3>1, <3>2, <3>4, <3>5
  <2> QED BY <1>4, <2>1, <2>2
<1>9. ASSUME NEW n \in Notice, n.type # "CLOSED", Hears("sync", n), sync' = sync, relay'.refused = relay.refused,
             fromRelay' = fromRelay \/ fromRelay' = <<>>
      PROVE  RefusalsAreReal'
  <2>1. ASSUME Fetching', "sync" \notin lagged', ~relay'.refused
        PROVE  /\ Preceded(inbox'["sync"], S, x)
               /\ x \in Msgs(inbox'["sync"]) \/ Preceded(fromRelay', S, x)
    <3>1. Fetching /\ "sync" \in Receivers
      BY <1>2, <1>9, <2>1 DEF Fetching, Active
    <3>2. /\ "sync" \notin lagged /\ inbox'["sync"] = Longer(inbox["sync"], n)
          /\ Msgs(inbox'["sync"]) = Msgs(inbox["sync"]) \cup {n}
      BY <1>9, <2>1, <3>1, HeardAtTheEnd
    <3>3. /\ Preceded(inbox["sync"], S, x)
          /\ x \in Msgs(inbox["sync"]) \/ Preceded(fromRelay, S, x)
      BY <1>1, <1>9, <2>1, <3>1, <3>2
    <3>4. n \notin S
      BY <1>9 DEF S, Refusals
    <3>5. Preceded(Longer(inbox["sync"], n), S, x)
      BY <1>2, <3>3, <3>4, PrecededInLonger
    <3>6. Preceded(<<>>, S, x)
      BY DEF Preceded
    <3> QED BY <1>9, <3>2, <3>3, <3>5, <3>6
  <2> QED BY <1>4, <1>9, <2>1
<1>10. CASE Lost
  BY <1>9, <1>10, Notices DEF Lost
<1>11. ASSUME NEW n \in Notice, Judged(n) PROVE RefusalsAreReal'
  BY <1>9, <1>11 DEF Judged
<1>12. CASE Started
  <2>1. sync = NewSync /\ sync' = [sync EXCEPT !.pc = "checking"]
    BY <1>12 DEF Started, TurnsClose
  <2>2. ~Fetching'
    BY <2>1 DEF NewSync, Fetching
  <2> QED BY <1>5, <2>2
<1>13. CASE Supported
  <2>1. /\ sync.pc = "checking" /\ sync'.downloading = sync.downloading /\ sync'.down_id = sync.down_id
        /\ relay' = relay /\ inbox' = inbox /\ lagged' = lagged /\ fromRelay' = fromRelay
    BY <1>2, <1>13 DEF Supported, SyncState
  <2> QED BY <1>1, <1>4, <2>1 DEF Fetching, Active
<1>14. CASE Cleaned
  <2>1. Ended /\ sync' = sync
    BY <1>14, HeadsAreTyped DEF Cleaned, Closing
  <2> QED BY <1>5, <2>1 DEF Fetching, Active, Ended
<1>15. ASSUME NEW why \in {"error", "closed"}, GivesUp(why) PROVE RefusalsAreReal'
  <2>1. sync'.pc = why
    BY <1>2, <1>15 DEF GivesUp, SyncState
  <2> QED BY <1>5, <2>1 DEF Fetching, Active
<1>16. ASSUME NEW m \in Msgs(inbox["sync"]), NEW y \in SyncState, NEW f, NEW g, NEW b \in SUBSET Events,
              NEW new \in BOOLEAN, NEW msgs \in Seq(ToRelay), SyncGoes(m, y, f, g, b, new, msgs)
       PROVE RefusalsAreReal'
  <2>1. /\ inbox["sync"] # <<>> /\ m = Head(inbox["sync"]) /\ sync.pc = "running"
        /\ relay' = relay /\ lagged' = lagged /\ fromRelay' = fromRelay
        /\ sync'.pc = "running" => inbox'["sync"] = Rest(inbox["sync"])
    BY <1>2, <1>16 DEF SyncGoes, Takes
  <2>2. /\ sync'.down_id = IF new THEN sync.down_id + 1 ELSE sync.down_id
        /\ sync'.downloading <=> new \/ (sync.downloading /\ ~EndsBatch(m))
    BY <1>16 DEF SyncGoes, GoesOn, GoesFields, ToldSays
  <2>3. Heard' \subseteq Heard
    BY <1>16, GoneMessages
  <2>4. CASE new
    <3>1. \A z \in Heard : Batch(z) => z.id <= id
      BY DEF IdsAreFresh
    <3>2. ~(id + 1 <= id)
      BY <1>2
    <3>3. \A z \in Heard' : z \notin Refusals(id + 1)
      BY <2>3, <3>1, <3>2 DEF Batch, Refusals
    <3>4. /\ \A n \in DOMAIN inbox'["sync"] : inbox'["sync"][n] \notin Refusals(id + 1)
          /\ \A n \in DOMAIN fromRelay' : fromRelay'[n] \notin Refusals(id + 1)
      BY <3>3 DEF Heard, Msgs
    <3>5. RefusalsKept'
      <4>1. sync'.down_id = id + 1
        BY <2>2, <2>4
      <4>2. /\ Preceded(inbox'["sync"], Refusals(id + 1), EOSE(id + 1))
            /\ Preceded(fromRelay', Refusals(id + 1), EOSE(id + 1))
        BY <3>4 DEF Preceded
      <4>3. /\ Preceded(inbox'["sync"], Refusals(sync'.down_id), EOSE(sync'.down_id))
            /\ Preceded(fromRelay', Refusals(sync'.down_id), EOSE(sync'.down_id))
        BY <4>1, <4>2
      <4> QED BY <4>3 DEF RefusalsKept, Refusals
    <3> QED BY <3>5, RefusalsKeptNext
  <2>5. CASE ~new
    <3>1. ASSUME Fetching', "sync" \notin lagged', ~relay'.refused
          PROVE  /\ Preceded(inbox'["sync"], S, x)
                 /\ x \in Msgs(inbox'["sync"]) \/ Preceded(fromRelay', S, x)
      <4>1. Fetching /\ ~EndsBatch(m) /\ inbox'["sync"] = Rest(inbox["sync"])
        <5>1. sync'.downloading /\ sync'.pc \in {"checking", "running"}
          BY <3>1 DEF Fetching, Active
        <5>2. sync'.pc \in {"running", "ok", "error"}
          BY <1>16 DEF SyncGoes, Takes
        <5> QED BY <2>1, <2>2, <2>5, <5>1, <5>2 DEF Fetching, Active
      <4>2. m # x
        BY <4>1, MessageTypes DEF EndsBatch, x
      <4>3. Preceded(inbox["sync"], S, x) /\ (x \in Msgs(inbox["sync"]) \/ Preceded(fromRelay, S, x))
        BY <1>1, <2>1, <3>1, <4>1
      <4>4. Preceded(Rest(inbox["sync"]), S, x)
        BY <1>2, <2>1, <4>2, <4>3, PrecededInRest
      <4>5. Msgs(inbox["sync"]) = {m} \cup Msgs(Rest(inbox["sync"]))
        BY <1>2, <2>1, PoppedChannel
      <4> QED BY <2>1, <4>1, <4>2, <4>3, <4>4, <4>5
    <3> QED BY <1>4, <2>2, <2>5, <3>1
  <2> QED BY <2>4, <2>5
<1> QED BY <1>6, <1>7, <1>8, <1>10, <1>11, <1>12, <1>13, <1>14, <1>15, <1>16 DEF Step

-----------------------------------------------------------------------------
(* What a synchronisation waits for                                        *)

Settled ==
    /\ sync.pc = "checking" => ~sync.done
    /\ Active => /\ sync.have = {} \/ sync.up # {}
                 /\ sync.need = {} \/ sync.downloading
                 /\ ~Complete(sync)
WordComes ==
    \/ sync.done
    \/ \E m \in Msgs(toRelay) : m.type \in Turn
    \/ \E m \in Heard : m.type \in Word
OksCome == \A e \in sync.up : EVENT(e) \in Msgs(toRelay) \/ \E m \in Heard : m.type = "OK" /\ m.event = e
BatchEndComes ==
    sync.downloading =>
        \/ \E r \in Msgs(toRelay) : r.type = "REQ" /\ r.id = sync.down_id
        \/ \E m \in Heard : m.type \in {"EOSE", "CLOSED"} /\ m.id = sync.down_id
Attended == Active /\ connected /\ ~relay.silent /\ "sync" \notin lagged

LEMMA SyncIsAnsweredParts == SyncIsAnswered <=> Settled /\ (Attended => WordComes /\ OksCome /\ BatchEndComes)
<1>1. WordComes <=> sync.done \/ Has(toRelay, Turn) \/ Has(fromRelay, Word) \/ Has(inbox["sync"], Word)
  BY DEF WordComes, Has, Heard
<1>2. OksCome <=> \A e \in sync.up : EVENT(e) \in Msgs(toRelay) \/ \E m \in Of("OK") : m.event = e
  BY DEF OksCome, Of
<1>3. BatchEndComes <=> (sync.downloading =>
            \/ \E r \in Asked("REQ") : r.id = sync.down_id
            \/ \E m \in Of("EOSE") \cup Of("CLOSED") : m.id = sync.down_id)
  BY DEF BatchEndComes, Of, Asked
<1> QED BY <1>1, <1>2, <1>3 DEF SyncIsAnswered, Settled, Attended

LEMMA SyncIsAnsweredPartsNext ==
    Settled' /\ (Attended' => WordComes' /\ OksCome' /\ BatchEndComes') => SyncIsAnswered'
BY SyncIsAnsweredParts, PTL

\* what the synchronisation waits for is on its way
LEMMA SyncIsAnsweredNext ==
    ASSUME Typed, TurnsClose, SyncIsAnswered, ChunksAssumption, Step
    PROVE  SyncIsAnswered'
<1>1. Settled /\ (Attended => WordComes /\ OksCome /\ BatchEndComes)
  BY SyncIsAnsweredParts
<1>2. /\ sync \in SyncState /\ toRelay \in Seq(ToRelay) /\ inbox \in [{"sync", "send"} -> Seq(Notice)]
      /\ inbox["sync"] \in Seq(Notice) /\ ("sync" \in Receivers <=> Active)
  BY HeadsAreTyped
<1> DEFINE Answering == Settled' /\ (Attended' => WordComes' /\ OksCome' /\ BatchEndComes')
<1> SUFFICES Answering
  BY SyncIsAnsweredPartsNext
\* the synchronisation stays as it is, and what is on its way stays so
<1>3. ASSUME sync' = sync,
             Attended' => /\ Attended /\ Heard \subseteq Heard' /\ Msgs(toRelay) \subseteq Msgs(toRelay')
      PROVE  Answering
  <2>1. Settled'
    BY <1>1, <1>3 DEF Settled, Complete, Active
  <2>2. ASSUME Attended' PROVE WordComes' /\ OksCome' /\ BatchEndComes'
    <3>1. /\ Heard \subseteq Heard' /\ Msgs(toRelay) \subseteq Msgs(toRelay') /\ WordComes /\ OksCome /\ BatchEndComes
      BY <1>1, <1>3, <2>2
    <3>2. WordComes'
      BY <1>3, <3>1 DEF WordComes
    <3>3. OksCome'
      BY <1>3, <3>1 DEF OksCome
    <3>4. BatchEndComes'
      BY <1>3, <3>1 DEF BatchEndComes
    <3> QED BY <3>2, <3>3, <3>4
  <2> QED BY <2>1, <2>2
<1>4. ASSUME ~Active' PROVE Answering
  BY <1>4 DEF Settled, Attended, Active
<1>5. CASE Acts
  <2>1. Aside
    BY <1>5, SendersStepAside DEF Acts
  <2>2. Msgs(toRelay) \subseteq Msgs(toRelay') /\ Heard' = Heard
    BY <2>1, AsideMessages
  <2> QED BY <1>3, <2>1, <2>2 DEF Aside, Attended, Active
<1>6. ASSUME NEW m \in Msgs(toRelay), NEW msgs \in Seq(FromRelay), FullyAnswered(m, msgs) PROVE Answering
  <2>1. Answered(m, msgs)
    BY <1>6 DEF FullyAnswered
  <2>2. sync' = sync /\ (Attended' => Attended /\ ~relay'.silent)
    BY <2>1 DEF Answered, Attended, Active
  <2>3. Msgs(toRelay) = {m} \cup Msgs(toRelay') /\ m \in ToRelay /\ Heard' = Heard \cup Msgs(msgs)
    BY <2>1, AnsweredMessages
  <2>4. Settled'
    BY <1>1, <2>2 DEF Settled, Complete, Active
  <2>5. ASSUME Attended' PROVE WordComes' /\ OksCome' /\ BatchEndComes'
    <3>1. WordComes /\ OksCome /\ BatchEndComes /\ ~relay'.silent
      BY <1>1, <2>2, <2>5
    <3>2. WordComes'
      <4>1. m.type \in Turn => Has(msgs, Word)
        BY <1>6, <3>1 DEF FullyAnswered, TurnAnswered
      <4>2. m.type \in Turn => \E z \in Heard' : z.type \in Word
        BY <2>3, <4>1, NoneOf
      <4>3. CASE \E z \in Msgs(toRelay) : z.type \in Turn
        BY <2>3, <4>2, <4>3 DEF WordComes
      <4> QED BY <2>2, <2>3, <3>1, <4>3 DEF WordComes
    <3>3. OksCome'
      <4>1. ASSUME NEW e \in sync.up, EVENT(e) = m PROVE \E z \in Heard' : z.type = "OK" /\ z.event = e
        <5>1. m.type = "EVENT" /\ m.event = e
          BY <4>1, MessageTypes
        <5> QED BY <1>6, <2>3, <3>1, <5>1 DEF FullyAnswered, EventAnswered
      <4>2. ASSUME NEW e \in sync.up PROVE EVENT(e) \in Msgs(toRelay') \/ \E z \in Heard' : z.type = "OK" /\ z.event = e
        BY <2>3, <3>1, <4>1 DEF OksCome
      <4> QED BY <2>2, <4>2 DEF OksCome
    <3>4. BatchEndComes'
      <4>1. m.type = "REQ" => \E z \in Heard' : z.type \in {"EOSE", "CLOSED"} /\ z.id = m.id
        BY <1>6, <2>3, <3>1 DEF FullyAnswered, BatchAnswered, Batch
      <4> QED BY <2>2, <2>3, <3>1, <4>1 DEF BatchEndComes
    <3> QED BY <3>2, <3>3, <3>4
  <2> QED BY <2>4, <2>5
<1>7. ASSUME NEW n \in Notice, Hears("sync", n), sync' = sync, toRelay' = toRelay, connected' = connected,
             relay' = relay, Msgs(fromRelay) \subseteq Msgs(fromRelay') \cup {n}
      PROVE  Answering
  <2>1. ASSUME Attended' PROVE Attended /\ Heard \subseteq Heard'
    <3>1. "sync" \in Receivers /\ "sync" \notin lagged'
      BY <1>2, <1>7, <2>1 DEF Attended, Active
    <3>2. "sync" \notin lagged /\ Msgs(inbox'["sync"]) = Msgs(inbox["sync"]) \cup {n}
      BY <1>7, <3>1, HeardAtTheEnd
    <3> QED BY <1>7, <2>1, <3>2 DEF Attended, Active, Heard
  <2> QED BY <1>3, <1>7, <2>1
<1>8. ASSUME NEW m \in FromRelay, Delivered(m) PROVE Answering
  <2>1. Msgs(fromRelay) = {m} \cup Msgs(fromRelay') /\ m \in Notice
    BY <1>8, DeliveredMessages, Notices
  <2> QED BY <1>7, <1>8, <2>1 DEF Delivered
<1>9. CASE Lost
  <2>1. sync' = sync /\ ~Attended'
    BY <1>9 DEF Lost, Attended
  <2> QED BY <1>3, <2>1
<1>10. ASSUME NEW n \in Notice, Judged(n) PROVE Answering
  BY <1>7, <1>10 DEF Judged
<1>11. CASE Started
  <2>1. sync = NewSync /\ sync' = [sync EXCEPT !.pc = "checking"] /\ toRelay' = Longer(toRelay, Msg("NEG-OPEN"))
    BY <1>11 DEF Started, TurnsClose
  <2>2. /\ sync'.pc = "checking" /\ sync'.have = {} /\ sync'.need = {} /\ sync'.up = {} /\ sync'.done = FALSE
        /\ sync'.downloading = FALSE
    BY <2>1 DEF NewSync
  <2>3. Msg("NEG-OPEN") \in Msgs(toRelay') /\ Msg("NEG-OPEN").type \in Turn
    <3>1. Msg("NEG-OPEN") \in ToRelay /\ Msg("NEG-OPEN").type = "NEG-OPEN"
      BY ToRelayMessages, MessageTypes
    <3>2. Msgs(toRelay') = Msgs(toRelay) \cup {Msg("NEG-OPEN")}
      BY <1>2, <2>1, <3>1, LongerChannel
    <3> QED BY <3>1, <3>2 DEF Turn
  <2> QED BY <2>2, <2>3 DEF Settled, Complete, WordComes, OksCome, BatchEndComes
<1>12. CASE Supported
  <2>1. /\ sync.pc = "checking" /\ sync'.pc = "running" /\ sync'.have = sync.have /\ sync'.need = sync.need
        /\ sync'.up = sync.up /\ sync'.done = sync.done /\ sync'.downloading = sync.downloading
        /\ sync'.down_id = sync.down_id
    BY <1>2, <1>12 DEF Supported, SyncState
  <2>2. toRelay' = toRelay /\ Heard' = Heard /\ relay' = relay /\ connected' = connected /\ lagged' = lagged
    BY <1>12 DEF Supported, Heard
  <2>3. Settled'
    BY <1>1, <2>1 DEF Settled, Complete, Active
  <2>4. Attended' => Attended
    BY <2>1, <2>2 DEF Attended, Active
  <2>5. (WordComes => WordComes') /\ (OksCome => OksCome') /\ (BatchEndComes => BatchEndComes')
    BY <2>1, <2>2 DEF WordComes, OksCome, BatchEndComes
  <2> QED BY <1>1, <2>3, <2>4, <2>5
<1>13. CASE Cleaned
  <2>1. Ended /\ sync' = sync
    BY <1>13, HeadsAreTyped DEF Cleaned, Closing
  <2> QED BY <1>4, <2>1 DEF Active, Ended
<1>14. ASSUME NEW why \in {"error", "closed"}, GivesUp(why) PROVE Answering
  <2>1. sync'.pc = why
    BY <1>2, <1>14 DEF GivesUp, SyncState
  <2> QED BY <1>4, <2>1 DEF Active
<1>15. ASSUME NEW m \in Msgs(inbox["sync"]), NEW y \in SyncState, NEW f, NEW g, NEW b \in SUBSET Events,
              NEW new \in BOOLEAN, NEW msgs \in Seq(ToRelay), SyncGoes(m, y, f, g, b, new, msgs)
       PROVE Answering
  <2>1. /\ inbox["sync"] # <<>> /\ m = Head(inbox["sync"]) /\ sync.pc = "running" /\ Active
        /\ m.type # "NEG-ERR" /\ sync'.pc \in {"running", "ok", "error"}
        /\ connected' = connected /\ relay' = relay /\ lagged' = lagged /\ fromRelay' = fromRelay
        /\ sync'.pc = "running" => inbox'["sync"] = Rest(inbox["sync"])
        /\ sync'.pc # "error" => (sync'.pc = "ok" <=> Complete(sync'))
    BY <1>2, <1>15 DEF SyncGoes, Takes, Active
  <2>2. /\ ToldSays(m, y) /\ Uploading(y, f, g) /\ Fetches(y, b, new) /\ GoesFields(sync', y, f, g, b, new)
    BY <1>15 DEF SyncGoes, GoesOn
  <2>3. CASE sync'.pc # "running"
    BY <1>4, <2>1, <2>3 DEF Active
  <2>4. CASE sync'.pc = "running"
    <3>1. Settled'
      <4>1. sync'.have = {} \/ sync'.up # {}
        BY <2>2 DEF Uploading, GoesFields
      <4>2. sync'.need = {} \/ sync'.downloading
        BY <2>2 DEF Fetches, GoesFields
      <4>3. ~Complete(sync')
        BY <2>1, <2>4
      <4> QED BY <2>4, <4>1, <4>2, <4>3 DEF Settled, Complete
    <3>2. Msgs(toRelay') = Msgs(toRelay) \cup Msgs(msgs)
      BY <1>15, GoneMessages
    <3>3. Heard = {m} \cup Heard'
      <4>1. Msgs(inbox["sync"]) = {m} \cup Msgs(inbox'["sync"])
        BY <1>2, <2>1, <2>4, PoppedChannel
      <4> QED BY <2>1, <4>1 DEF Heard
    <3>4. ASSUME Attended' PROVE WordComes' /\ OksCome' /\ BatchEndComes'
      <4>1. WordComes /\ OksCome /\ BatchEndComes
        BY <1>1, <2>1, <3>4 DEF Attended
      <4>2. WordComes'
        <5>1. sync'.done <=> sync.done \/ (m.type = "NEG-MSG" /\ m.n = Len(Chunks))
          BY <2>2 DEF ToldSays, GoesFields
        <5>2. CASE m.type = "NEG-MSG" /\ m.n # Len(Chunks)
          <6>1. NEG(m.n) \in Msgs(msgs)
            BY <1>15, <5>2 DEF SyncGoes, Queues
          <6> QED BY <3>2, <6>1, MessageTypes DEF WordComes, Turn
        <5>3. CASE m.type # "NEG-MSG"
          <6>1. m.type \notin Word
            BY <2>1, <5>3 DEF Word
          <6> QED BY <3>2, <3>3, <4>1, <5>1, <6>1 DEF WordComes
        <5> QED BY <5>1, <5>2, <5>3 DEF WordComes
      <4>3. OksCome'
        <5>1. sync'.up = y.up \cup f /\ y.up = (IF m.type = "OK" THEN sync.up \ {m.event} ELSE sync.up)
          BY <2>2 DEF ToldSays, GoesFields
        <5>2. ASSUME NEW e \in f PROVE EVENT(e) \in Msgs(toRelay')
          BY <1>15, <3>2 DEF SyncGoes, Queues
        <5>3. ASSUME NEW e \in y.up
              PROVE  EVENT(e) \in Msgs(toRelay') \/ \E z \in Heard' : z.type = "OK" /\ z.event = e
          <6>1. e \in sync.up /\ ~(m.type = "OK" /\ m.event = e)
            BY <5>1
          <6> QED BY <3>2, <3>3, <4>1, <6>1 DEF OksCome
        <5> QED BY <5>1, <5>2, <5>3 DEF OksCome
      <4>4. BatchEndComes'
        <5>1. /\ sync'.down_id = (IF new THEN sync.down_id + 1 ELSE sync.down_id)
              /\ sync'.downloading <=> new \/ (sync.downloading /\ ~EndsBatch(m))
          BY <2>2 DEF ToldSays, GoesFields
        <5>2. CASE new
          <6>1. REQ(sync.down_id + 1, b) \in Msgs(msgs)
            BY <1>15, <2>4, <5>2 DEF SyncGoes, Queues
          <6>2. REQ(sync.down_id + 1, b) \in Msgs(toRelay')
            BY <3>2, <6>1
          <6> QED BY <5>1, <5>2, <6>2, MessageTypes DEF BatchEndComes
        <5>3. CASE ~new
          BY <3>2, <3>3, <4>1, <5>1, <5>3 DEF BatchEndComes, EndsBatch
        <5> QED BY <5>2, <5>3
      <4> QED BY <4>2, <4>3, <4>4
    <3> QED BY <3>1, <3>4
  <2> QED BY <2>3, <2>4
<1> QED BY <1>5, <1>6, <1>8, <1>9, <1>10, <1>11, <1>12, <1>13, <1>14, <1>15 DEF Step

-----------------------------------------------------------------------------
(* Authentications                                                         *)

\* the steps of the synchronisation, as the ingester sees them
QuietStep ==
    /\ UNCHANGED <<connected, fromRelay, ingester, challenge, relay, send>>
    /\ inbox'["send"] = inbox["send"] /\ ("send" \in lagged' <=> "send" \in lagged)
    /\ toRelay' \in Seq(ToRelay) /\ Msgs(toRelay) \subseteq Msgs(toRelay')
    /\ (AtMostOne(toRelay, {"AUTH"}) => AtMostOne(toRelay', {"AUTH"}))
    /\ (Has(toRelay', {"AUTH"}) => Has(toRelay, {"AUTH"}))

LEMMA SyncStepsAreQuiet ==
    ASSUME Typed, Typed', Step, ~Acts, ~\E m \in FromRelay : Delivered(m), ~Lost, ~\E n \in Notice : Judged(n),
           ~\E m \in Msgs(toRelay), msgs \in Seq(FromRelay) : FullyAnswered(m, msgs)
    PROVE  QuietStep
<1>1. inbox \in [{"sync", "send"} -> Seq(Notice)] /\ toRelay \in Seq(ToRelay) /\ toRelay' \in Seq(ToRelay)
  BY HeadsAreTyped DEF Typed
<1>2. /\ inbox'["send"] = inbox["send"] /\ ("send" \in lagged' <=> "send" \in lagged) /\ send' = send
      /\ ingester' = ingester /\ challenge' = challenge
  BY OthersHear
<1>3. ASSUME UNCHANGED <<connected, fromRelay, relay>>, Msgs(toRelay) \subseteq Msgs(toRelay'),
             AtMostOne(toRelay, {"AUTH"}) => AtMostOne(toRelay', {"AUTH"}),
             Has(toRelay', {"AUTH"}) => Has(toRelay, {"AUTH"})
      PROVE  QuietStep
  BY <1>1, <1>2, <1>3 DEF QuietStep
<1>4. CASE Started
  <2>1. Msg("NEG-OPEN") \in ToRelay /\ Msg("NEG-OPEN").type = "NEG-OPEN"
    BY ToRelayMessages, MessageTypes
  <2>2. Msgs(Longer(toRelay, Msg("NEG-OPEN"))) = Msgs(toRelay) \cup {Msg("NEG-OPEN")}
    BY <1>1, <2>1, LongerChannel
  <2>3. /\ Has(Longer(toRelay, Msg("NEG-OPEN")), {"AUTH"}) => Has(toRelay, {"AUTH"})
        /\ AtMostOne(toRelay, {"AUTH"}) => AtMostOne(Longer(toRelay, Msg("NEG-OPEN")), {"AUTH"})
    BY <1>1, <2>1, LongerOnce
  <2> QED BY <1>3, <1>4, <2>2, <2>3 DEF Started
<1>5. CASE Supported
  BY <1>3, <1>5 DEF Supported
<1>6. CASE Cleaned
  <2>1. Msgs(toRelay) \subseteq Msgs(toRelay')
    BY <1>6, CleanedMessages
  <2>2. /\ Has(toRelay', {"AUTH"}) => Has(toRelay, {"AUTH"})
        /\ AtMostOne(toRelay, {"AUTH"}) => AtMostOne(toRelay', {"AUTH"})
    BY <1>6, CleanedQueues
  <2> QED BY <1>3, <1>6, <2>1, <2>2 DEF Cleaned
<1>7. ASSUME NEW why \in {"error", "closed"}, GivesUp(why) PROVE QuietStep
  BY <1>3, <1>7 DEF GivesUp
<1>8. ASSUME NEW m \in Msgs(inbox["sync"]), NEW y \in SyncState, NEW f, NEW g, NEW b, NEW new,
             NEW msgs \in Seq(ToRelay), SyncGoes(m, y, f, g, b, new, msgs)
      PROVE QuietStep
  <2>1. Msgs(toRelay') = Msgs(toRelay) \cup Msgs(msgs)
    BY <1>8, GoneMessages
  <2>2. ~Has(msgs, {"AUTH"}) /\ toRelay' = Joined(toRelay, msgs) /\ UNCHANGED <<connected, fromRelay, relay>>
    BY <1>8 DEF SyncGoes, Queues, Takes
  <2>3. /\ AtMostOne(toRelay, {"AUTH"}) /\ ~Has(msgs, {"AUTH"}) => AtMostOne(Joined(toRelay, msgs), {"AUTH"})
        /\ Has(Joined(toRelay, msgs), {"AUTH"}) <=> Has(toRelay, {"AUTH"}) \/ Has(msgs, {"AUTH"})
    BY <1>1, JoinedOnce
  <2> QED BY <1>3, <2>1, <2>2, <2>3
<1> QED BY <1>4, <1>5, <1>6, <1>7, <1>8 DEF Step

LEMMA AskedAuth == Asked("AUTH") # {} <=> Has(toRelay, {"AUTH"})
BY DEF Asked, Has

LEMMA AskedAuthNext == (Asked("AUTH") # {} <=> Has(toRelay, {"AUTH"}))'
BY AskedAuth, PTL

\* there is one AUTH at a time, and the ingester waits for its answer
LEMMA OneAuthNext ==
    ASSUME Typed, Typed', OneAuth, Step
    PROVE  OneAuth'
<1> DEFINE asked == Has(toRelay, {"AUTH"})
           given == Has(fromRelay, {"OK-AUTH"})
           Alone == /\ AtMostOne(toRelay', {"AUTH"}) /\ AtMostOne(fromRelay', {"OK-AUTH"})
                    /\ connected' => /\ ~(asked' /\ given')
                                     /\ ingester' # "authenticating" => ~asked' /\ ~given'
                    /\ ~connected' => ingester' = "idle" /\ ~challenge' /\ fromRelay' = <<>>
<1>1. /\ AtMostOne(toRelay, {"AUTH"}) /\ AtMostOne(fromRelay, {"OK-AUTH"})
      /\ connected => /\ ~(asked /\ given)
                      /\ ingester # "authenticating" => ~asked /\ ~given
      /\ ~connected => ingester = "idle" /\ ~challenge /\ fromRelay = <<>>
  BY AskedAuth DEF OneAuth
<1>2. toRelay \in Seq(ToRelay) /\ fromRelay \in Seq(FromRelay) /\ connected \in BOOLEAN
  BY HeadsAreTyped
<1> SUFFICES Alone
  BY AskedAuthNext DEF OneAuth
<1>3. ASSUME UNCHANGED <<connected, fromRelay, ingester, challenge>>,
             AtMostOne(toRelay, {"AUTH"}) => AtMostOne(toRelay', {"AUTH"}),
             asked' => asked
      PROVE  Alone
  BY <1>1, <1>3
<1>4. CASE QuietStep
  BY <1>3, <1>4 DEF QuietStep
<1>5. CASE Acts
  <2>1. Aside
    BY <1>5, SendersStepAside DEF Acts
  <2>2. UNCHANGED <<connected, fromRelay>>
    BY <2>1 DEF Aside
  <2>3. ASSUME NEW x \in {EVENT(SentEvent)}, toRelay' = Longer(toRelay, x)
        PROVE  (AtMostOne(toRelay, {"AUTH"}) => AtMostOne(toRelay', {"AUTH"})) /\ (asked' => asked)
    <3>1. x \in ToRelay /\ x.type = "EVENT"
      BY <2>3, SentIsAnEvent, ToRelayMessages, MessageTypes
    <3>2. /\ Has(Longer(toRelay, x), {"AUTH"}) => asked
          /\ AtMostOne(toRelay, {"AUTH"}) => AtMostOne(Longer(toRelay, x), {"AUTH"})
      BY <1>2, <3>1, LongerOnce
    <3> QED BY <2>3, <3>2
  <2>4. CASE Authenticates
    <3>1. Msg("AUTH") \in ToRelay /\ Msg("AUTH").type = "AUTH"
      BY ToRelayMessages, MessageTypes
    <3>2. connected /\ ~asked /\ ~given
      BY <1>1, <2>4 DEF Authenticates
    <3>3. AtMostOne(Longer(toRelay, Msg("AUTH")), {"AUTH"})
      BY <1>1, <1>2, <3>1, <3>2, LongerOnce
    <3> QED BY <1>1, <2>2, <2>4, <3>2, <3>3 DEF Authenticates
  <2>5. CASE Sends
    BY <1>3, <2>2, <2>3, <2>5 DEF Sends
  <2>6. ASSUME NEW result, Finishes(result) PROVE Alone
    BY <1>3, <2>2, <2>6 DEF Finishes
  <2>7. ASSUME NEW m, Skips(m) \/ Awaits(m) \/ Repeats(m) PROVE Alone
    <3>1. UNCHANGED <<ingester, challenge>>
      BY <2>7 DEF Skips, Awaits, Repeats, Reads
    <3>2. toRelay' = toRelay \/ toRelay' = Longer(toRelay, EVENT(SentEvent))
      BY <2>7 DEF Skips, Awaits, Repeats
    <3> QED BY <1>3, <2>2, <2>3, <3>1, <3>2
  <2> QED BY <1>5, <2>4, <2>5, <2>6, <2>7, ActsAre
<1>6. ASSUME NEW m \in Msgs(toRelay), NEW msgs \in Seq(FromRelay), FullyAnswered(m, msgs) PROVE Alone
  <2>1. /\ connected /\ toRelay # <<>> /\ m = Head(toRelay) /\ toRelay' = Rest(toRelay)
        /\ fromRelay' = Joined(fromRelay, msgs) /\ UNCHANGED <<connected, ingester, challenge>>
    BY <1>6 DEF FullyAnswered, Answered
  <2>2. AtMostOne(msgs, {"OK-AUTH"}) /\ (Has(msgs, {"OK-AUTH"}) <=> m.type = "AUTH")
    BY <1>6 DEF FullyAnswered, AuthAnswered
  <2>3. /\ AtMostOne(toRelay, {"AUTH"}) => AtMostOne(Rest(toRelay), {"AUTH"})
        /\ AtMostOne(toRelay, {"AUTH"}) /\ m.type = "AUTH" => ~Has(Rest(toRelay), {"AUTH"})
        /\ asked <=> m.type = "AUTH" \/ Has(Rest(toRelay), {"AUTH"})
    BY <1>2, <2>1, PoppedOnce
  <2>4. /\ AtMostOne(fromRelay, {"OK-AUTH"}) /\ ~Has(msgs, {"OK-AUTH"}) => AtMostOne(Joined(fromRelay, msgs), {"OK-AUTH"})
        /\ AtMostOne(msgs, {"OK-AUTH"}) /\ ~given => AtMostOne(Joined(fromRelay, msgs), {"OK-AUTH"})
        /\ Has(Joined(fromRelay, msgs), {"OK-AUTH"}) <=> given \/ Has(msgs, {"OK-AUTH"})
    BY <1>2, JoinedOnce
  <2> QED BY <1>1, <2>1, <2>2, <2>3, <2>4
<1>7. ASSUME NEW m \in FromRelay, Delivered(m) PROVE Alone
  <2>1. /\ fromRelay # <<>> /\ m = Head(fromRelay) /\ fromRelay' = Rest(fromRelay)
        /\ UNCHANGED <<connected, toRelay>>
        /\ ingester' = IF m.type = "OK-AUTH" /\ ingester = "authenticating"
                       THEN (IF m.status = "true" THEN "authenticated" ELSE "failed")
                       ELSE ingester
    BY <1>7 DEF Delivered
  <2>2. /\ AtMostOne(fromRelay, {"OK-AUTH"}) => AtMostOne(Rest(fromRelay), {"OK-AUTH"})
        /\ AtMostOne(fromRelay, {"OK-AUTH"}) /\ m.type = "OK-AUTH" => ~Has(Rest(fromRelay), {"OK-AUTH"})
        /\ given <=> m.type = "OK-AUTH" \/ Has(Rest(fromRelay), {"OK-AUTH"})
    BY <1>2, <2>1, PoppedOnce
  <2>3. connected
    BY <1>1, <1>2, <2>1
  <2> QED BY <1>1, <2>1, <2>2, <2>3
<1>8. CASE Lost
  <2>1. AtMostOne(<<>>, {"OK-AUTH"})
    BY SingleOnce
  <2> QED BY <1>1, <1>8, <2>1 DEF Lost
<1>9. ASSUME NEW n \in Notice, Judged(n) PROVE Alone
  <2>1. /\ ingester \in {"authenticated", "failed"} /\ ingester' = "idle"
        /\ UNCHANGED <<connected, toRelay, fromRelay, challenge>>
    BY <1>9 DEF Judged
  <2> QED BY <1>1, <2>1
<1> QED BY <1>4, <1>5, <1>6, <1>7, <1>8, <1>9, SyncStepsAreQuiet

-----------------------------------------------------------------------------
(* Challenges and refusals                                                 *)

\* every refusal of an EVENT comes after the challenge, or before the answer to the AUTH
Covered(w) ==
    \A p \in DOMAIN w : Refused(w[p]) =>
        \/ \E q \in DOMAIN w : q < p /\ w[q].type = "AUTH"
        \/ \E q \in DOMAIN w : p < q /\ w[q].type = "OK-AUTH"

LEMMA CoveredInRest ==
    ASSUME NEW M, NEW w \in Seq(M), w # <<>>, Covered(w), Head(w).type # "AUTH"
    PROVE  Covered(Rest(w)) /\ (Refused(Head(w)) => Has(w, {"OK-AUTH"}))
<1>1. /\ DOMAIN w = 1 .. Len(w) /\ DOMAIN Rest(w) = 1 .. Len(w) - 1 /\ Head(w) = w[1]
      /\ \A n \in 1 .. Len(w) - 1 : Rest(w)[n] = w[n + 1]
  BY PoppedPlaces
<1>2. Len(w) \in Nat \ {0}
  BY PoppedChannel
<1>3. ASSUME NEW q \in DOMAIN w, 1 < q
      PROVE  q - 1 \in DOMAIN Rest(w) /\ Rest(w)[q - 1] = w[q] /\ \A p \in Nat : (p + 1 < q <=> p < q - 1) /\ (q < p + 1 <=> q - 1 < p)
  <2>1. q - 1 \in 1 .. Len(w) - 1 /\ (q - 1) + 1 = q
    BY <1>1, <1>2, <1>3
  <2>2. \A p \in Nat : (p + 1 < q <=> p < q - 1) /\ (q < p + 1 <=> q - 1 < p)
    BY <1>1, <1>2
  <2> QED BY <1>1, <2>1, <2>2
<1>4. ASSUME NEW p \in DOMAIN Rest(w), Refused(Rest(w)[p])
      PROVE  \/ \E q \in DOMAIN Rest(w) : q < p /\ Rest(w)[q].type = "AUTH"
             \/ \E q \in DOMAIN Rest(w) : p < q /\ Rest(w)[q].type = "OK-AUTH"
  <2>1. p + 1 \in DOMAIN w /\ Refused(w[p + 1]) /\ p \in Nat \ {0}
    BY <1>1, <1>2, <1>4
  <2>2. CASE \E q \in DOMAIN w : q < p + 1 /\ w[q].type = "AUTH"
    <3>1. PICK q \in DOMAIN w : q < p + 1 /\ w[q].type = "AUTH"
      BY <2>2
    <3>2. 1 < q
      BY <1>1, <1>2, <3>1
    <3> QED BY <1>3, <2>1, <3>1, <3>2
  <2>3. CASE \E q \in DOMAIN w : p + 1 < q /\ w[q].type = "OK-AUTH"
    <3>1. PICK q \in DOMAIN w : p + 1 < q /\ w[q].type = "OK-AUTH"
      BY <2>3
    <3>2. 1 < q
      BY <1>1, <1>2, <2>1, <3>1
    <3> QED BY <1>3, <2>1, <3>1, <3>2
  <2> QED BY <2>1, <2>2, <2>3 DEF Covered
<1>5. ASSUME Refused(Head(w)) PROVE Has(w, {"OK-AUTH"})
  <2>1. 1 \in DOMAIN w /\ Refused(w[1]) /\ ~\E q \in DOMAIN w : q < 1
    BY <1>1, <1>2, <1>5
  <2>2. \E q \in DOMAIN w : 1 < q /\ w[q].type = "OK-AUTH"
    BY <2>1 DEF Covered
  <2> QED BY <2>2 DEF Has, Msgs
<1> QED BY <1>4, <1>5 DEF Covered

LEMMA CoveredInJoined ==
    ASSUME NEW M, NEW w \in Seq(M), NEW v \in Seq(M),
           Covered(w) \/ Has(v, {"OK-AUTH"}), Covered(v) \/ Has(w, {"AUTH"})
    PROVE  Covered(Joined(w, v))
<1>1. /\ DOMAIN w = 1 .. Len(w) /\ DOMAIN v = 1 .. Len(v)
      /\ DOMAIN Joined(w, v) = 1 .. Len(w) + Len(v)
      /\ \A n \in 1 .. Len(w) : Joined(w, v)[n] = w[n]
      /\ \A n \in 1 .. Len(v) : Joined(w, v)[Len(w) + n] = v[n]
      /\ \A n \in 1 .. Len(w) + Len(v) : n > Len(w) => n - Len(w) \in 1 .. Len(v)
                                                     /\ Joined(w, v)[n] = v[n - Len(w)]
  BY JoinedPlaces
<1>2. Len(w) \in Nat /\ Len(v) \in Nat
  BY JoinedChannels
<1> DEFINE j == Joined(w, v)
           Cover(p) == \/ \E q \in DOMAIN j : q < p /\ j[q].type = "AUTH"
                       \/ \E q \in DOMAIN j : p < q /\ j[q].type = "OK-AUTH"
<1>3. ASSUME NEW q \in DOMAIN v PROVE Len(w) + q \in DOMAIN j /\ j[Len(w) + q] = v[q] /\ \A p \in DOMAIN w : p < Len(w) + q
  BY <1>1, <1>2
<1>4. ASSUME NEW q \in DOMAIN w PROVE q \in DOMAIN j /\ j[q] = w[q] /\ \A p \in DOMAIN j : p > Len(w) => q < p
  BY <1>1, <1>2
<1>5. ASSUME NEW p \in DOMAIN j, Refused(j[p]), p <= Len(w) PROVE Cover(p)
  <2>1. p \in DOMAIN w /\ Refused(w[p])
    BY <1>1, <1>2, <1>5
  <2>2. CASE Covered(w)
    BY <1>4, <2>1, <2>2 DEF Covered
  <2>3. CASE Has(v, {"OK-AUTH"})
    <3>1. PICK q \in DOMAIN v : v[q].type = "OK-AUTH"
      BY <2>3 DEF Has, Msgs
    <3> QED BY <1>3, <2>1, <3>1
  <2> QED BY <2>2, <2>3
<1>6. ASSUME NEW p \in DOMAIN j, Refused(j[p]), p > Len(w) PROVE Cover(p)
  <2>1. p - Len(w) \in DOMAIN v /\ Refused(v[p - Len(w)])
    BY <1>1, <1>6
  <2>2. CASE Has(w, {"AUTH"})
    <3>1. PICK q \in DOMAIN w : w[q].type = "AUTH"
      BY <2>2 DEF Has, Msgs
    <3> QED BY <1>4, <1>6, <3>1
  <2>3. CASE Covered(v)
    <3>1. CASE \E q \in DOMAIN v : q < p - Len(w) /\ v[q].type = "AUTH"
      <4>1. PICK q \in DOMAIN v : q < p - Len(w) /\ v[q].type = "AUTH"
        BY <3>1
      <4>2. Len(w) + q < p
        BY <1>1, <1>2, <4>1
      <4> QED BY <1>3, <4>1, <4>2
    <3>2. CASE \E q \in DOMAIN v : p - Len(w) < q /\ v[q].type = "OK-AUTH"
      <4>1. PICK q \in DOMAIN v : p - Len(w) < q /\ v[q].type = "OK-AUTH"
        BY <3>2
      <4>2. p < Len(w) + q
        BY <1>1, <1>2, <4>1
      <4> QED BY <1>3, <4>1, <4>2
    <3> QED BY <2>1, <2>3, <3>1, <3>2 DEF Covered
  <2> QED BY <2>2, <2>3
<1>7. \A p \in DOMAIN j : p <= Len(w) \/ p > Len(w)
  BY <1>1, <1>2
<1> QED BY <1>5, <1>6, <1>7 DEF Covered

AuthOnItsWay ==
    connected =>
        /\ relay.challenged /\ ~relay.authed => Has(fromRelay, {"AUTH"}) \/ challenge \/ Has(toRelay, {"AUTH"})
        /\ challenge \/ Has(toRelay, {"AUTH"}) \/ Covered(fromRelay)

LEMMA AuthComesParts == AuthComes <=> AuthOnItsWay
BY AskedAuth DEF AuthComes, AuthOnItsWay, Covered

LEMMA AuthComesPartsNext == AuthOnItsWay' => AuthComes'
BY AuthComesParts, PTL

\* a challenge, or the AUTH that answers it, is on its way
LEMMA AuthComesNext ==
    ASSUME Typed, Typed', AuthComes, Step
    PROVE  AuthComes'
<1>1. connected =>
        /\ relay.challenged /\ ~relay.authed => Has(fromRelay, {"AUTH"}) \/ challenge \/ Has(toRelay, {"AUTH"})
        /\ challenge \/ Has(toRelay, {"AUTH"}) \/ Covered(fromRelay)
  BY AuthComesParts DEF AuthOnItsWay
<1>2. toRelay \in Seq(ToRelay) /\ fromRelay \in Seq(FromRelay)
  BY HeadsAreTyped
<1> DEFINE Comes ==
      connected' =>
        /\ relay'.challenged /\ ~relay'.authed => Has(fromRelay', {"AUTH"}) \/ challenge' \/ Has(toRelay', {"AUTH"})
        /\ challenge' \/ Has(toRelay', {"AUTH"}) \/ Covered(fromRelay')
<1> SUFFICES Comes
  BY AuthComesPartsNext DEF AuthOnItsWay
<1>3. ASSUME UNCHANGED <<connected, fromRelay, relay>>,
             challenge \/ Has(toRelay, {"AUTH"}) => challenge' \/ Has(toRelay', {"AUTH"})
      PROVE  Comes
  BY <1>1, <1>3
<1>4. CASE QuietStep
  <2>1. Has(toRelay, {"AUTH"}) => Has(toRelay', {"AUTH"})
    BY <1>4 DEF QuietStep, Has
  <2> QED BY <1>3, <1>4, <2>1 DEF QuietStep
<1>5. CASE Acts
  <2>1. Aside
    BY <1>5, SendersStepAside DEF Acts
  <2>2. UNCHANGED <<connected, fromRelay, relay>> /\ Msgs(toRelay) \subseteq Msgs(toRelay')
    BY <2>1, AsideMessages DEF Aside
  <2>3. Has(toRelay, {"AUTH"}) => Has(toRelay', {"AUTH"})
    BY <2>2 DEF Has
  <2>4. CASE Authenticates
    <3>1. Msg("AUTH") \in ToRelay /\ Msg("AUTH").type = "AUTH"
      BY ToRelayMessages, MessageTypes
    <3>2. Has(Longer(toRelay, Msg("AUTH")), {"AUTH"})
      BY <1>2, <3>1, LongerOnce
    <3> QED BY <1>3, <2>2, <2>4, <3>2 DEF Authenticates
  <2>5. CASE challenge' = challenge
    BY <1>3, <2>2, <2>3, <2>5
  <2>6. ASSUME NEW m, Skips(m) \/ Awaits(m) \/ Repeats(m) PROVE challenge' = challenge
    BY <2>6 DEF Skips, Awaits, Repeats, Reads
  <2> QED BY <1>5, <2>4, <2>5, <2>6, ActsAre DEF Sends, Finishes
<1>6. ASSUME NEW m \in Msgs(toRelay), NEW msgs \in Seq(FromRelay), FullyAnswered(m, msgs) PROVE Comes
  <2>1. /\ connected /\ toRelay # <<>> /\ m = Head(toRelay) /\ toRelay' = Rest(toRelay)
        /\ fromRelay' = Joined(fromRelay, msgs) /\ UNCHANGED <<connected, challenge>>
    BY <1>6 DEF FullyAnswered, Answered
  <2>2. /\ Has(msgs, {"OK-AUTH"}) <=> m.type = "AUTH"
        /\ m.type = "AUTH" => \A x \in Msgs(msgs) : x.type = "OK-AUTH"
        /\ \A p \in DOMAIN msgs : Refused(msgs[p]) =>
              \/ relay.challenged /\ ~relay.authed
              \/ \E q \in DOMAIN msgs : q < p /\ msgs[q].type = "AUTH"
        /\ relay'.challenged /\ ~relay'.authed => \/ relay.challenged /\ ~relay.authed /\ m.type # "AUTH"
                                                  \/ Has(msgs, {"AUTH"})
    BY <1>6 DEF FullyAnswered, AuthAnswered
  <2>3. Has(toRelay, {"AUTH"}) <=> m.type = "AUTH" \/ Has(toRelay', {"AUTH"})
    BY <1>2, <2>1, PoppedOnce
  <2>4. Has(fromRelay', {"AUTH"}) <=> Has(fromRelay, {"AUTH"}) \/ Has(msgs, {"AUTH"})
    BY <1>2, <2>1, JoinedOnce
  <2>5. relay'.challenged /\ ~relay'.authed => Has(fromRelay', {"AUTH"}) \/ challenge' \/ Has(toRelay', {"AUTH"})
    BY <1>1, <2>1, <2>2, <2>3, <2>4
  <2>6. challenge' \/ Has(toRelay', {"AUTH"}) \/ Covered(fromRelay')
    <3>1. CASE m.type = "AUTH"
      <4>1. Covered(msgs)
        <5>1. \A p \in DOMAIN msgs : msgs[p].type = "OK-AUTH"
          BY <2>2, <3>1 DEF Msgs
        <5> QED BY <5>1 DEF Covered, Refused
      <4>2. Covered(Joined(fromRelay, msgs))
        BY <1>2, <2>2, <3>1, <4>1, CoveredInJoined
      <4> QED BY <2>1, <4>2
    <3>2. CASE m.type # "AUTH" /\ ~challenge /\ ~Has(toRelay, {"AUTH"})
      <4>1. Covered(fromRelay)
        BY <1>1, <2>1, <3>2
      <4>2. Covered(msgs) \/ Has(fromRelay, {"AUTH"})
        BY <1>1, <2>1, <2>2, <3>2 DEF Covered
      <4>3. Covered(Joined(fromRelay, msgs))
        BY <1>2, <4>1, <4>2, CoveredInJoined
      <4> QED BY <2>1, <4>3
    <3> QED BY <2>1, <2>3, <3>1, <3>2
  <2> QED BY <2>5, <2>6
<1>7. ASSUME NEW m \in FromRelay, Delivered(m) PROVE Comes
  <2>1. /\ fromRelay # <<>> /\ m = Head(fromRelay) /\ fromRelay' = Rest(fromRelay)
        /\ UNCHANGED <<connected, toRelay, relay>> /\ challenge' = (challenge \/ m.type = "AUTH")
    BY <1>7 DEF Delivered
  <2>2. Has(fromRelay, {"AUTH"}) <=> m.type = "AUTH" \/ Has(fromRelay', {"AUTH"})
    BY <1>2, <2>1, PoppedOnce
  <2>3. CASE m.type = "AUTH"
    BY <2>1, <2>3
  <2>4. CASE m.type # "AUTH"
    <3>1. Covered(fromRelay) => Covered(Rest(fromRelay))
      BY <1>2, <2>1, <2>4, CoveredInRest
    <3> QED BY <1>1, <2>1, <2>2, <2>4, <3>1
  <2> QED BY <2>3, <2>4
<1>8. CASE Lost
  BY <1>8 DEF Lost
<1>9. ASSUME NEW n \in Notice, Judged(n) PROVE Comes
  BY <1>3, <1>9 DEF Judged
<1> QED BY <1>4, <1>5, <1>6, <1>7, <1>8, <1>9, SyncStepsAreQuiet

-----------------------------------------------------------------------------
(* Answers to send_event                                                   *)

\* every refusal is followed by the end of an authentication
Judges(w) == \A p \in DOMAIN w : Refused(w[p]) => \E q \in DOMAIN w : p < q /\ w[q].type \in Verdict
Coming == challenge \/ ingester # "idle" \/ Has(fromRelay, {"AUTH"})
OkComes ==
    \/ EVENT(SentEvent) \in Msgs(toRelay)
    \/ \E m \in Msgs(inbox["send"]) \cup Msgs(fromRelay) : m.type = "OK" /\ m.event = SentEvent
SendKept ==
    connected /\ "send" \notin lagged =>
        /\ send = "wait_auth" => Coming \/ Has(inbox["send"], Verdict)
        /\ send = "wait_ok" => Coming \/ Judges(inbox["send"])
        /\ send \in {"wait_ok", "wait_again"} /\ ~relay.silent => OkComes

LEMMA SendParts == Typed => (SendIsAnswered <=> SendKept)
<1> SUFFICES ASSUME Typed PROVE SendIsAnswered <=> SendKept
  OBVIOUS
<1>1. DOMAIN inbox["send"] = 1 .. Len(inbox["send"]) /\ Len(inbox["send"]) \in Nat
  <2>1. inbox["send"] \in Seq(Notice)
    BY HeadsAreTyped
  <2> QED BY <2>1
<1>2. VerdictComes(0) <=> Coming \/ Has(inbox["send"], Verdict)
  <2>1. (\E q \in DOMAIN inbox["send"] : 0 < q /\ inbox["send"][q].type \in Verdict) <=> Has(inbox["send"], Verdict)
    BY <1>1 DEF Has, Msgs
  <2> QED BY <2>1 DEF VerdictComes, Coming
<1>3. (\A p \in DOMAIN inbox["send"] : Refused(inbox["send"][p]) => VerdictComes(p)) <=> Coming \/ Judges(inbox["send"])
  BY DEF VerdictComes, Coming, Judges
<1> QED BY <1>2, <1>3 DEF SendIsAnswered, SendKept, OkComes

LEMMA SendPartsNext == Typed' /\ SendKept' => SendIsAnswered'
BY SendParts, PTL

LEMMA JudgesInRest ==
    ASSUME NEW M, NEW w \in Seq(M), w # <<>>, Judges(w)
    PROVE  Judges(Rest(w)) /\ (Refused(Head(w)) => Has(Rest(w), Verdict))
<1>1. /\ DOMAIN w = 1 .. Len(w) /\ DOMAIN Rest(w) = 1 .. Len(w) - 1 /\ Head(w) = w[1]
      /\ \A n \in 1 .. Len(w) - 1 : Rest(w)[n] = w[n + 1]
  BY PoppedPlaces
<1>2. Len(w) \in Nat \ {0}
  BY PoppedChannel
<1>3. ASSUME NEW q \in DOMAIN w, 1 < q
      PROVE  q - 1 \in DOMAIN Rest(w) /\ Rest(w)[q - 1] = w[q] /\ \A p \in Nat : p + 1 < q <=> p < q - 1
  <2>1. q - 1 \in 1 .. Len(w) - 1 /\ (q - 1) + 1 = q
    BY <1>1, <1>2, <1>3
  <2>2. \A p \in Nat : p + 1 < q <=> p < q - 1
    BY <1>1, <1>2
  <2> QED BY <1>1, <2>1, <2>2
<1>4. ASSUME NEW p \in DOMAIN Rest(w), Refused(Rest(w)[p])
      PROVE  \E q \in DOMAIN Rest(w) : p < q /\ Rest(w)[q].type \in Verdict
  <2>1. p + 1 \in DOMAIN w /\ Refused(w[p + 1]) /\ p \in Nat \ {0}
    BY <1>1, <1>2, <1>4
  <2>2. PICK q \in DOMAIN w : p + 1 < q /\ w[q].type \in Verdict
    BY <2>1 DEF Judges
  <2>3. 1 < q
    BY <1>1, <1>2, <2>1, <2>2
  <2> QED BY <1>3, <2>1, <2>2, <2>3
<1>5. ASSUME Refused(Head(w)) PROVE Has(Rest(w), Verdict)
  <2>1. 1 \in DOMAIN w /\ Refused(w[1])
    BY <1>1, <1>2, <1>5
  <2>2. PICK q \in DOMAIN w : 1 < q /\ w[q].type \in Verdict
    BY <2>1 DEF Judges
  <2> QED BY <1>3, <2>2 DEF Has, Msgs
<1> QED BY <1>4, <1>5 DEF Judges

LEMMA JudgesInLonger ==
    ASSUME NEW M, NEW w \in Seq(M), NEW m \in M
    PROVE  /\ Judges(w) /\ ~Refused(m) => Judges(Longer(w, m))
           /\ m.type \in Verdict => Judges(Longer(w, m))
<1>1. /\ DOMAIN w = 1 .. Len(w) /\ DOMAIN Longer(w, m) = 1 .. Len(w) + 1
      /\ \A n \in 1 .. Len(w) : Longer(w, m)[n] = w[n]
      /\ Longer(w, m)[Len(w) + 1] = m
  BY LongerPlaces
<1>2. Len(w) \in Nat
  BY LongerChannel
<1> DEFINE v == Longer(w, m)
<1>3. ASSUME NEW p \in DOMAIN v
      PROVE  \/ p = Len(w) + 1 /\ v[p] = m
             \/ p \in DOMAIN w /\ v[p] = w[p] /\ p < Len(w) + 1
  BY <1>1, <1>2
<1>4. Len(w) + 1 \in DOMAIN v /\ v[Len(w) + 1] = m /\ \A q \in DOMAIN w : q \in DOMAIN v /\ v[q] = w[q]
  BY <1>1, <1>2
<1>5. m.type \in Verdict => ~Refused(m)
  BY DEF Verdict, Refused
<1>6. ASSUME Judges(w), ~Refused(m) PROVE Judges(v)
  <2>1. ASSUME NEW p \in DOMAIN v, Refused(v[p]) PROVE \E q \in DOMAIN v : p < q /\ v[q].type \in Verdict
    <3>1. p \in DOMAIN w /\ Refused(w[p])
      BY <1>3, <1>6, <2>1
    <3>2. PICK q \in DOMAIN w : p < q /\ w[q].type \in Verdict
      BY <1>6, <3>1 DEF Judges
    <3> QED BY <1>4, <3>2
  <2> QED BY <2>1 DEF Judges
<1>7. ASSUME m.type \in Verdict PROVE Judges(v)
  BY <1>3, <1>4, <1>5, <1>7 DEF Judges
<1> QED BY <1>6, <1>7

\* an EVENT has its OK coming, a refused one the end of an authentication
LEMMA SendIsAnsweredNext ==
    ASSUME Typed, Typed', OneAuth, AuthComes, SendIsAnswered, Step
    PROVE  SendIsAnswered'
<1>1. connected /\ "send" \notin lagged =>
        /\ send = "wait_auth" => Coming \/ Has(inbox["send"], Verdict)
        /\ send = "wait_ok" => Coming \/ Judges(inbox["send"])
        /\ send \in {"wait_ok", "wait_again"} /\ ~relay.silent => OkComes
  BY SendParts DEF SendKept
<1>2. /\ toRelay \in Seq(ToRelay) /\ fromRelay \in Seq(FromRelay) /\ inbox["send"] \in Seq(Notice)
      /\ ("send" \in Receivers <=> send \in Waiting) /\ (send \notin Waiting => inbox["send"] = <<>>)
  BY HeadsAreTyped DEF Typed
<1> DEFINE Kept ==
      connected' /\ "send" \notin lagged' =>
        /\ send' = "wait_auth" => Coming' \/ Has(inbox'["send"], Verdict)
        /\ send' = "wait_ok" => Coming' \/ Judges(inbox'["send"])
        /\ send' \in {"wait_ok", "wait_again"} /\ ~relay'.silent => OkComes'
<1> SUFFICES Kept
  BY SendPartsNext DEF SendKept
<1>4. OkComes' <=> \/ EVENT(SentEvent) \in Msgs(toRelay')
                   \/ \E m \in Msgs(inbox'["send"]) \cup Msgs(fromRelay') : m.type = "OK" /\ m.event = SentEvent
  BY DEF OkComes
<1>5. Coming' <=> challenge' \/ ingester' # "idle" \/ Has(fromRelay', {"AUTH"})
  BY DEF Coming
<1>6. ASSUME UNCHANGED <<connected, fromRelay, relay>>, Coming => Coming',
             send' = send, inbox'["send"] = inbox["send"], "send" \in lagged' <=> "send" \in lagged,
             Msgs(toRelay) \subseteq Msgs(toRelay')
      PROVE  Kept
  <2>1. OkComes => OkComes'
    BY <1>4, <1>6 DEF OkComes
  <2> QED BY <1>1, <1>6, <2>1
<1>7. CASE QuietStep
  <2>1. Coming => Coming'
    BY <1>5, <1>7 DEF QuietStep, Coming
  <2> QED BY <1>6, <1>7, <2>1 DEF QuietStep
<1>8. CASE Acts
  <2>1. Aside
    BY <1>8, SendersStepAside DEF Acts
  <2>2. UNCHANGED <<connected, fromRelay, relay>> /\ Msgs(toRelay) \subseteq Msgs(toRelay')
    BY <2>1, AsideMessages DEF Aside
  <2>3. CASE Authenticates
    <3>1. Coming'
      BY <1>5, <2>3 DEF Authenticates
    <3> QED BY <1>6, <2>2, <2>3, <3>1 DEF Authenticates
  <2>4. EVENT(SentEvent) \in Msgs(Longer(toRelay, EVENT(SentEvent)))
    BY <1>2, LongerChannel, ToRelayMessages, SentIsAnEvent
  <2>5. CASE Sends
    <3>1. inbox["send"] = <<>>
      BY <1>2, <2>5 DEF Sends, Waiting
    <3>2. inbox'["send"] = <<>> /\ send' = "wait_ok" /\ toRelay' = Longer(toRelay, EVENT(SentEvent))
      BY <2>5, <3>1 DEF Sends
    <3>3. Judges(<<>>)
      BY DEF Judges
    <3> QED BY <1>4, <2>4, <3>2, <3>3
  <2>6. ASSUME NEW result \in {"Ack", "Rejected", "Unconfirmed"}, Finishes(result) PROVE Kept
    BY <2>6 DEF Finishes
  <2>7. ASSUME NEW m, Reads(m)
        PROVE  /\ inbox["send"] # <<>> /\ m = Head(inbox["send"]) /\ inbox'["send"] = Rest(inbox["send"])
               /\ "send" \notin lagged /\ (Coming => Coming')
               /\ Msgs(inbox["send"]) = {m} \cup Msgs(Rest(inbox["send"]))
    <3>1. /\ inbox["send"] # <<>> /\ m = Head(inbox["send"]) /\ inbox'["send"] = Rest(inbox["send"])
          /\ "send" \notin lagged /\ UNCHANGED <<ingester, challenge>>
      BY <2>7 DEF Reads
    <3>2. Coming => Coming'
      BY <1>5, <2>2, <3>1 DEF Coming
    <3> QED BY <1>2, <3>1, <3>2, PoppedChannel
  <2>8. ASSUME NEW m, Skips(m) PROVE Kept
    <3>1. /\ Reads(m) /\ send' = send /\ toRelay' = toRelay
          /\ IF send = "wait_auth" THEN m.type \notin Verdict ELSE ~(m.type = "OK" /\ m.event = SentEvent)
      BY <2>8 DEF Skips
    <3>2. send = "wait_auth" /\ Has(inbox["send"], Verdict) => Has(inbox'["send"], Verdict)
      BY <2>7, <3>1 DEF Has
    <3>3. Judges(inbox["send"]) => Judges(inbox'["send"])
      BY <1>2, <2>7, <3>1, JudgesInRest
    <3>4. send # "wait_auth" /\ OkComes => OkComes'
      <4>1. OkComes => \/ EVENT(SentEvent) \in Msgs(toRelay)
                       \/ \E x \in {m} \cup Msgs(inbox'["send"]) \cup Msgs(fromRelay) : x.type = "OK" /\ x.event = SentEvent
        BY <2>7, <3>1 DEF OkComes
      <4> QED BY <1>4, <2>2, <3>1, <4>1
    <3> QED BY <1>1, <2>2, <2>7, <3>1, <3>2, <3>3, <3>4
  <2>9. ASSUME NEW m, Awaits(m) PROVE Kept
    <3>1. Reads(m) /\ send = "wait_ok" /\ Refused(m) /\ send' = "wait_auth"
      BY <2>9 DEF Awaits
    <3>2. Judges(inbox["send"]) => Has(inbox'["send"], Verdict)
      BY <1>2, <2>7, <3>1, JudgesInRest
    <3> QED BY <1>1, <2>2, <2>7, <3>1, <3>2
  <2>10. ASSUME NEW m, Repeats(m) PROVE Kept
    <3>1. send' = "wait_again" /\ toRelay' = Longer(toRelay, EVENT(SentEvent))
      BY <2>10 DEF Repeats
    <3> QED BY <1>4, <2>4, <3>1
  <2> QED BY <1>8, <2>3, <2>5, <2>6, <2>8, <2>9, <2>10, ActsAre
<1>9. ASSUME NEW m \in Msgs(toRelay), NEW msgs \in Seq(FromRelay), FullyAnswered(m, msgs) PROVE Kept
  <2>1. /\ connected /\ UNCHANGED <<connected, inbox, lagged, send, ingester, challenge>> /\ Answered(m, msgs)
        /\ fromRelay' = Joined(fromRelay, msgs) /\ (relay.silent => relay'.silent)
        /\ m.type = "EVENT" /\ ~relay'.silent => \E x \in Msgs(msgs) : x.type = "OK"
        /\ \A x \in Msgs(msgs) : x.type = "OK" => m.type = "EVENT" /\ x.event = m.event
    BY <1>9 DEF FullyAnswered, Answered, EventAnswered
  <2>2. Msgs(toRelay) = {m} \cup Msgs(toRelay') /\ Msgs(fromRelay') = Msgs(fromRelay) \cup Msgs(msgs)
    BY <2>1, AnsweredMessages
  <2>3. Coming => Coming'
    BY <1>5, <2>1, <2>2 DEF Coming, Has
  <2>4. OkComes /\ ~relay'.silent => OkComes'
    <3>1. CASE m = EVENT(SentEvent)
      <4>1. m.type = "EVENT" /\ m.event = SentEvent
        BY <3>1, MessageTypes
      <4> QED BY <1>4, <2>1, <2>2, <4>1
    <3>2. CASE m # EVENT(SentEvent)
      BY <1>4, <2>1, <2>2, <3>2 DEF OkComes
    <3> QED BY <3>1, <3>2
  <2> QED BY <1>1, <2>1, <2>3, <2>4
<1>10. ASSUME NEW m \in FromRelay, Delivered(m) PROVE Kept
  <2>1. /\ fromRelay # <<>> /\ m = Head(fromRelay) /\ fromRelay' = Rest(fromRelay)
        /\ UNCHANGED <<connected, toRelay, relay, send>> /\ challenge' = (challenge \/ m.type = "AUTH")
        /\ ingester' = (IF m.type = "OK-AUTH" /\ ingester = "authenticating"
                        THEN (IF m.status = "true" THEN "authenticated" ELSE "failed")
                        ELSE ingester)
        /\ Hears("send", m)
    BY <1>10 DEF Delivered
  <2>2. ingester # "idle" => ingester' # "idle"
    BY <2>1
  <2>3. Has(fromRelay, {"AUTH"}) <=> m.type = "AUTH" \/ Has(fromRelay', {"AUTH"})
    BY <1>2, <2>1, PoppedOnce
  <2>4. Coming => Coming'
    BY <1>5, <2>1, <2>2, <2>3 DEF Coming
  <2>5. SUFFICES ASSUME send \in Waiting, connected, "send" \notin lagged' PROVE Kept
    BY <2>1 DEF Waiting
  <2>6. m \in Notice
    BY Notices
  <2>7. /\ "send" \notin lagged /\ inbox'["send"] = Longer(inbox["send"], m)
        /\ Msgs(inbox'["send"]) = Msgs(inbox["send"]) \cup {m}
    BY <1>2, <2>1, <2>5, <2>6, HeardAtTheEnd
  <2>8. Has(inbox["send"], Verdict) => Has(inbox'["send"], Verdict)
    BY <2>7 DEF Has
  <2>9. Judges(inbox["send"]) => Coming' \/ Judges(inbox'["send"])
    <3>1. CASE ~Refused(m)
      BY <1>2, <2>6, <2>7, <3>1, JudgesInLonger
    <3>2. CASE Refused(m)
      <4>1. m.type = "OK"
        BY <3>2 DEF Refused
      <4>2. challenge \/ Has(toRelay, {"AUTH"}) \/ Covered(fromRelay)
        BY <2>5, AuthComesParts DEF AuthOnItsWay
      <4>3. Covered(fromRelay) => Has(fromRelay, {"OK-AUTH"})
        BY <1>2, <2>1, <3>2, <4>1, CoveredInRest
      <4>4. Has(toRelay, {"AUTH"}) \/ Has(fromRelay, {"OK-AUTH"}) => ingester = "authenticating"
        BY <2>5, AskedAuth DEF OneAuth
      <4> QED BY <1>5, <2>1, <2>2, <4>2, <4>3, <4>4
    <3> QED BY <3>1, <3>2
  <2>10. OkComes => OkComes'
    <3>1. Msgs(fromRelay) = {m} \cup Msgs(fromRelay')
      BY <1>2, <2>1, PoppedChannel
    <3> QED BY <1>4, <2>1, <2>7, <3>1 DEF OkComes
  <2> QED BY <1>1, <2>1, <2>4, <2>5, <2>7, <2>8, <2>9, <2>10
<1>11. CASE Lost
  BY <1>11 DEF Lost
<1>12. ASSUME NEW n \in Notice, Judged(n) PROVE Kept
  <2>1. /\ n.type \in Verdict /\ Hears("send", n)
        /\ UNCHANGED <<connected, toRelay, fromRelay, send, relay>>
    BY <1>12 DEF Judged, Verdict
  <2>2. SUFFICES ASSUME send \in Waiting, connected, "send" \notin lagged' PROVE Kept
    BY <2>1 DEF Waiting
  <2>3. /\ "send" \notin lagged /\ inbox'["send"] = Longer(inbox["send"], n)
        /\ Msgs(inbox'["send"]) = Msgs(inbox["send"]) \cup {n}
    BY <1>2, <2>1, <2>2, HeardAtTheEnd
  <2>4. Has(inbox'["send"], Verdict)
    BY <2>1, <2>3 DEF Has
  <2>5. Judges(inbox'["send"])
    BY <1>2, <2>1, <2>3, JudgesInLonger
  <2>6. OkComes => OkComes'
    BY <1>4, <2>1, <2>3 DEF OkComes
  <2> QED BY <1>1, <2>1, <2>2, <2>3, <2>4, <2>5, <2>6
<1> QED BY <1>7, <1>8, <1>9, <1>10, <1>11, <1>12, SyncStepsAreQuiet

-----------------------------------------------------------------------------
(* The results                                                             *)

\* what a step does to the end of the synchronisation
LEMMA SyncFate ==
    ASSUME Typed, Step
    PROVE  \/ sync' = sync
           \/ sync'.pc \in {"checking", "running", "error"}
           \/ GivesUp("closed") /\ sync'.pc = "closed"
           \/ /\ sync'.pc = "ok" /\ Complete(sync')
              /\ \E m, y, f, g, b, new, msgs : SyncGoes(m, y, f, g, b, new, msgs)
<1>1. sync \in SyncState
  BY HeadsAreTyped
<1>2. Acts => sync' = sync
  BY SendersStepAside DEF Acts, Aside
<1>3. ASSUME NEW why \in {"error", "closed"}, GivesUp(why)
      PROVE  sync'.pc = "error" \/ (GivesUp("closed") /\ sync'.pc = "closed")
  BY <1>1, <1>3 DEF GivesUp, SyncState
<1>4. Started \/ Supported => sync'.pc \in {"checking", "running"}
  BY <1>1 DEF Started, Supported, SyncState
<1>5. ASSUME NEW m, NEW y, NEW f, NEW g, NEW b, NEW new, NEW msgs, SyncGoes(m, y, f, g, b, new, msgs)
      PROVE  sync'.pc \in {"running", "error"} \/ (sync'.pc = "ok" /\ Complete(sync'))
  BY <1>5 DEF SyncGoes, Takes
<1> QED BY <1>2, <1>3, <1>4, <1>5 DEF Step, FullyAnswered, Answered, Delivered, Lost, Judged, Cleaned

\* what counts as sent was acknowledged by the relay
LEMMA SentIsAccepted ==
    ASSUME Typed, AllAccepted, sync.sent \subseteq relay.accepted, Step
    PROVE  sync'.sent \subseteq relay'.accepted
<1>1. sync \in SyncState /\ relay.accepted \subseteq relay'.accepted
  BY HeadsAreTyped, RelayKeeps
<1>2. ASSUME NEW m, NEW y, NEW f, NEW g, NEW b, NEW new, NEW msgs, SyncGoes(m, y, f, g, b, new, msgs)
      PROVE  sync'.sent \subseteq relay.accepted
  <2>1. m \in Msgs(inbox["sync"])
    BY <1>2, GoneMessages
  <2>2. m.type = "OK" /\ m.status = "true" => m.event \in relay.accepted
    BY <2>1 DEF AllAccepted, Accepted
  <2>3. /\ y.sent = IF m.type = "OK" /\ m.event \in sync.up /\ m.status = "true"
                    THEN sync.sent \cup {m.event} ELSE sync.sent
        /\ sync'.sent = y.sent
    BY <1>2 DEF SyncGoes, ToldSays, GoesOn, GoesFields
  <2> QED BY <2>2, <2>3
<1>3. ASSUME NEW pc, sync' = [sync EXCEPT !.pc = pc] PROVE sync'.sent \subseteq relay'.accepted
  <2>1. sync'.sent = sync.sent
    BY <1>1, <1>3 DEF SyncState
  <2> QED BY <1>1, <2>1
<1> QED BY <1>1, <1>2, <1>3, SyncFieldsStay

\* a synchronisation that completes has nothing left to ask for
LEMMA OkIsTrue ==
    ASSUME Typed, Wanted, NEW m, NEW y, NEW f, NEW g, NEW b, NEW new, NEW msgs,
           SyncGoes(m, y, f, g, b, new, msgs), Complete(sync')
    PROVE  sync'.remote \subseteq relay'.answered
<1>1. /\ sync'.remote = y.remote /\ (sync'.downloading <=> new \/ y.downloading)
      /\ sync'.need = (IF new THEN y.need \ b ELSE y.need) /\ relay' = relay
  BY DEF SyncGoes, GoesOn, GoesFields, Takes
<1>2. ~new /\ ~y.downloading /\ y.need = {}
  BY <1>1 DEF Complete
<1>3. y.remote \subseteq y.need \cup relay.answered
  BY <1>2, BatchIsHad
<1> QED BY <1>1, <1>2, <1>3

\* a CLOSED that comes before the EOSE of its batch is a refusal
LEMMA ClosedIsTrue ==
    ASSUME Typed, RefusalsAreReal, GivesUp("closed")
    PROVE  relay.refused
<1> DEFINE w == inbox["sync"]
           S == Refusals(sync.down_id)
           x == EOSE(sync.down_id)
<1>1. Active /\ "sync" \notin lagged /\ w # <<>> /\ BatchRefused(sync, Head(w)) /\ w \in Seq(Notice)
  BY HeadsAreTyped DEF GivesUp
<1>2. Head(w) \in Notice
  BY <1>1, PoppedChannel
<1>3. Fetching /\ Head(w) \in S
  BY <1>1, <1>2 DEF BatchRefused, Fetching, Refusals
<1>4. ~relay.refused => Preceded(w, S, x)
  BY <1>1, <1>3, RefusalsParts DEF RefusalsKept
<1> HIDE DEF w, S, x
<1>5. Preceded(w, S, x) => Head(w) \notin S
  BY <1>1, PrecededInRest
<1> QED BY <1>3, <1>4, <1>5

\* an acknowledgement is an OK of the relay
LEMMA AckIsTrue ==
    ASSUME Typed, AllAccepted, send = "Ack" => SentEvent \in relay.accepted, Step, send' = "Ack"
    PROVE  SentEvent \in relay'.accepted
<1>1. relay.accepted \subseteq relay'.accepted
  BY RelayKeeps
<1>2. ASSUME Finishes("Ack") PROVE SentEvent \in relay.accepted
  <2>1. OK(SentEvent, "true") \in Msgs(inbox["send"])
    BY <1>2 DEF Finishes
  <2> QED BY <2>1, MessageTypes DEF AllAccepted, Accepted
<1>3. Acts => send = "Ack" \/ Finishes("Ack")
  <2>1. ASSUME NEW result \in {"Ack", "Rejected", "Unconfirmed"}, Finishes(result) PROVE Finishes("Ack")
    BY <2>1 DEF Finishes
  <2>2. ASSUME NEW m, Skips(m) \/ Awaits(m) \/ Repeats(m) PROVE send = "Ack"
    BY <2>2 DEF Skips, Awaits, Repeats
  <2> QED BY <2>1, <2>2, ActsAre DEF Authenticates, Sends
<1>4. ~Acts => send' = send
  <2>1. ASSUME NEW why, GivesUp(why) PROVE send' = send
    BY <2>1 DEF GivesUp
  <2>2. ASSUME NEW m, NEW y, NEW f, NEW g, NEW b, NEW new, NEW msgs, SyncGoes(m, y, f, g, b, new, msgs)
        PROVE  send' = send
    BY <2>2 DEF SyncGoes, Takes
  <2> QED BY <2>1, <2>2 DEF Step, FullyAnswered, Answered, Delivered, Lost, Judged, Started, Supported, Cleaned
<1> QED BY <1>1, <1>2, <1>3, <1>4

LEMMA ResultsAreTrueNext ==
    ASSUME Typed, Typed', EventsAreKept, EventsAreKept', RefusalsAreReal, ResultsAreTrue, Step
    PROVE  ResultsAreTrue'
<1>1. Wanted /\ AllAccepted
  BY EventsAreKeptParts
<1>2. relay.answered \subseteq relay'.answered /\ (relay.refused => relay'.refused)
  BY RelayKeeps
<1>3. TypeOK'
  BY DEF Typed
<1>4. sync'.sent \subseteq relay'.accepted
  BY <1>1, SentIsAccepted DEF ResultsAreTrue
<1>5. ASSUME sync'.pc = "ok"
      PROVE  /\ sync'.local = sync'.sent \cup sync'.failures \cup sync'.gone
             /\ sync'.remote \subseteq relay'.answered
  <2>1. CASE sync' = sync
    BY <1>2, <1>5, <2>1 DEF ResultsAreTrue
  <2>2. CASE Complete(sync') /\ \E m, y, f, g, b, new, msgs : SyncGoes(m, y, f, g, b, new, msgs)
    <3>1. sync'.local = sync'.have \cup sync'.up \cup sync'.sent \cup sync'.failures \cup sync'.gone
      BY DEF EventsAreKept
    <3>2. sync'.have = {} /\ sync'.up = {}
      BY <2>2 DEF Complete
    <3>3. sync'.remote \subseteq relay'.answered
      BY <1>1, <2>2, OkIsTrue
    <3> QED BY <3>1, <3>2, <3>3
  <2> QED BY <1>5, <2>1, <2>2, SyncFate
<1>6. ASSUME sync'.pc = "closed" PROVE relay'.refused
  <2>1. CASE sync' = sync
    BY <1>2, <1>6, <2>1 DEF ResultsAreTrue
  <2>2. CASE GivesUp("closed")
    BY <1>2, <2>2, ClosedIsTrue
  <2> QED BY <1>6, <2>1, <2>2, SyncFate
<1>7. send' = "Ack" => SentEvent \in relay'.accepted
  BY <1>1, AckIsTrue DEF ResultsAreTrue
<1> QED BY <1>3, <1>4, <1>5, <1>6, <1>7 DEF ResultsAreTrue

-----------------------------------------------------------------------------
(* The invariant                                                           *)

\* the number in a message of the relay is one of Chunks
LEMMA NegotiationsAreCounted ==
    ASSUME Typed, ChunksAssumption, TurnsCount
    PROVE  \A x \in Msgs(inbox["sync"]) : x.type = "NEG-MSG" => x.n \in DOMAIN Chunks
<1>1. CASE Active
  BY <1>1 DEF TurnsCount, Of, Heard, ChunksAssumption
<1>2. CASE ~Active
  <2>1. inbox["sync"] = <<>>
    BY <1>2, HeadsAreTyped
  <2>2. Msgs(<<>>) = {}
    BY FewMessages
  <2> QED BY <2>1, <2>2
<1> QED BY <1>1, <1>2

LEMMA RequestsStart ==
    ASSUME MarksAssumption, ChunksAssumption, Init
    PROVE  RequestsInv
<1>1. /\ connected = TRUE /\ toRelay = <<>> /\ fromRelay = <<>> /\ challenge = FALSE
      /\ inbox = [r \in {"sync", "send"} |-> <<>>] /\ lagged = {} /\ registered = {}
      /\ sync = NewSync /\ cleanup = "idle" /\ send = "idle" /\ ingester = "idle" /\ relay = NewRelay
  BY DEF Init
<1>2. /\ inbox["sync"] = <<>> /\ inbox["send"] = <<>>
      /\ DOMAIN toRelay = {} /\ DOMAIN fromRelay = {} /\ DOMAIN inbox["sync"] = {} /\ DOMAIN inbox["send"] = {}
  BY <1>1
<1>3. Msgs(toRelay) = {} /\ Msgs(fromRelay) = {} /\ Msgs(inbox["sync"]) = {} /\ Msgs(inbox["send"]) = {} /\ Heard = {}
  BY <1>2 DEF Msgs, Heard
<1>4. /\ sync.pc = "new" /\ sync.down_id = 0 /\ sync.downloading = FALSE /\ sync.done = FALSE
      /\ sync.have = {} /\ sync.need = {} /\ sync.up = {} /\ sync.down = {} /\ sync.local = {} /\ sync.remote = {}
      /\ sync.sent = {} /\ sync.failures = {} /\ sync.gone = {}
  BY <1>1 DEF NewSync
<1>5. /\ relay.neg = 0 /\ relay.open = {} /\ relay.challenged = FALSE
  BY <1>1 DEF NewRelay
<1>6. ~Active /\ ~Ended /\ ~Closing /\ ~Fetching /\ Open
  BY <1>1, <1>4 DEF Active, Ended, Closing, Fetching, Open
<1>7. TypeOK
  <2>1. Cardinality({}) = 0 /\ HighWater \in Nat /\ BatchSize \in Nat /\ Notifications \in Nat
    BY FS_EmptySet DEF MarksAssumption
  <2>2. Len(<<>>) = 0
    OBVIOUS
  <2>3. \A r \in {"sync", "send"} : Len(inbox[r]) <= Notifications
    BY <1>2, <2>1, <2>2
  <2>4. Cardinality(sync.up) <= HighWater /\ Cardinality(sync.down) <= BatchSize
    BY <1>4, <2>1
  <2>5. /\ sync.have \cup sync.up \cup sync.sent \cup sync.failures \cup sync.gone \subseteq sync.local
        /\ sync.need \cup sync.down \subseteq sync.remote
    BY <1>4
  <2> QED BY <1>1, <1>4, <2>3, <2>4, <2>5 DEF TypeOK
<1>8. Typed
  <2>1. <<>> \in Seq(ToRelay) /\ <<>> \in Seq(FromRelay) /\ <<>> \in Seq(Notice)
    OBVIOUS
  <2>2. sync \in SyncState /\ relay \in RelayState
    BY <1>1 DEF NewSync, NewRelay, SyncState, RelayState
  <2>3. inbox \in [{"sync", "send"} -> Seq(Notice)]
    BY <1>1, <2>1
  <2> QED BY <1>1, <1>2, <1>6, <1>7, <2>1, <2>2, <2>3 DEF Typed
<1>9. OneTurn
  BY <1>2, <1>3 DEF OneTurn, AtMostOne, Has
<1>10. TurnsCount
  BY <1>6 DEF TurnsCount
<1>11. TurnsClose
  BY <1>1, <1>2, <1>3, <1>5, <1>6 DEF TurnsClose, Asked
<1>12. IdsAreFresh
  BY <1>2, <1>3, <1>5 DEF IdsAreFresh, AtMostOne, Asked, Of
<1>13. IdsClose
  BY <1>1, <1>2, <1>5 DEF IdsClose
<1>14. EventsAreKept
  BY <1>3, <1>4, <1>6 DEF EventsAreKept, Accepted
<1>15. RefusalsAreReal
  BY <1>6 DEF RefusalsAreReal
<1>16. SyncIsAnswered
  BY <1>4, <1>6 DEF SyncIsAnswered
<1>17. OneAuth
  BY <1>1, <1>2, <1>3 DEF OneAuth, AtMostOne, Asked, Has
<1>18. AuthComes
  BY <1>2, <1>5 DEF AuthComes
<1>19. SendIsAnswered
  BY <1>1 DEF SendIsAnswered
<1>20. ResultsAreTrue
  BY <1>1, <1>4, <1>7 DEF ResultsAreTrue
<1> QED BY <1>8, <1>9, <1>10, <1>11, <1>12, <1>13, <1>14, <1>15, <1>16, <1>17, <1>18, <1>19, <1>20 DEF RequestsInv

\* a stuttering step
LEMMA RequestsRest ==
    ASSUME RequestsInv, UNCHANGED vars
    PROVE  RequestsInv'
<1>1. UNCHANGED <<connected, toRelay, fromRelay, inbox, lagged, registered, sync, cleanup, send, ingester, challenge, relay>>
  BY DEF vars, broadcast, client, auth
<1>2. TypeOK'
  BY <1>1 DEF RequestsInv, Typed, TypeOK
<1>3. Active' = Active /\ Ended' = Ended /\ Closing' = Closing /\ Fetching' = Fetching /\ Open' = Open /\ Heard' = Heard
  BY <1>1 DEF Active, Ended, Closing, Fetching, Open, Heard
<1>4. \A t : Of(t)' = Of(t) /\ Asked(t)' = Asked(t)
  BY <1>1, <1>3 DEF Of, Asked
<1>5. Typed'
  BY <1>1, <1>2, <1>3 DEF RequestsInv, Typed
<1>6. OneTurn' /\ TurnsCount' /\ TurnsClose'
  BY <1>1, <1>3, <1>4 DEF RequestsInv, OneTurn, TurnsCount, TurnsClose
<1>7. IdsAreFresh'
  BY <1>1, <1>3, <1>4 DEF RequestsInv, IdsAreFresh
<1>8. IdsClose'
  BY <1>1, <1>3, <1>4 DEF RequestsInv, IdsClose, Current
<1>9. EventsAreKept'
  BY <1>1, <1>3, <1>4 DEF RequestsInv, EventsAreKept, Accepted
<1>10. RefusalsAreReal'
  BY <1>1, <1>3, <1>4 DEF RequestsInv, RefusalsAreReal, Refusal, Ends
<1>11. SyncIsAnswered'
  BY <1>1, <1>3, <1>4 DEF RequestsInv, SyncIsAnswered
<1>12. OneAuth' /\ AuthComes'
  BY <1>1, <1>3, <1>4 DEF RequestsInv, OneAuth, AuthComes
<1>13. SendIsAnswered'
  BY <1>1, <1>3, <1>4 DEF RequestsInv, SendIsAnswered, VerdictComes
<1>14. ResultsAreTrue'
  BY <1>1, <1>2 DEF RequestsInv, ResultsAreTrue
<1> QED BY <1>5, <1>6, <1>7, <1>8, <1>9, <1>10, <1>11, <1>12, <1>13, <1>14 DEF RequestsInv

LEMMA RequestsStep ==
    ASSUME MarksAssumption, ChunksAssumption, RequestsInv, [Next]_vars
    PROVE  RequestsInv'
<1>1. CASE UNCHANGED vars
  BY <1>1, RequestsRest
<1>2. CASE Next
  <2>1. /\ Typed /\ OneTurn /\ TurnsCount /\ TurnsClose /\ IdsAreFresh /\ IdsClose /\ EventsAreKept
        /\ RefusalsAreReal /\ SyncIsAnswered /\ OneAuth /\ AuthComes /\ SendIsAnswered /\ ResultsAreTrue
    BY DEF RequestsInv
  <2>2. Step
    BY <1>2, <2>1, StepsAre, NegotiationsAreCounted
  <2>3. Typed'
    BY <2>1, <2>2, TypedNext
  <2>4. OneTurn'
    BY <2>1, <2>2, OneTurnNext
  <2>5. TurnsCount' /\ TurnsClose'
    BY <2>1, <2>2, <2>3, <2>4, TurnsCountNext, TurnsCloseNext
  <2>6. IdsAreFresh' /\ IdsClose'
    BY <2>1, <2>2, <2>3, IdsAreFreshNext, IdsCloseNext
  <2>7. EventsAreKept' /\ RefusalsAreReal'
    BY <2>1, <2>2, <2>3, EventsAreKeptNext, RefusalsNext
  <2>8. SyncIsAnswered' /\ OneAuth' /\ AuthComes'
    BY <2>1, <2>2, <2>3, SyncIsAnsweredNext, OneAuthNext, AuthComesNext
  <2>9. SendIsAnswered' /\ ResultsAreTrue'
    BY <2>1, <2>2, <2>3, <2>7, SendIsAnsweredNext, ResultsAreTrueNext
  <2> QED BY <2>3, <2>4, <2>5, <2>6, <2>7, <2>8, <2>9 DEF RequestsInv
<1> QED BY <1>1, <1>2

(* RequestsInv is inductive.  It is what the two requests, the ingester and the *)
(* relay owe to each other through the queue, the wire and the broadcast:       *)
(* relay/api/sync.rs, relay/api/send_event.rs, relay/inner.rs.                  *)
THEOREM RequestsInvariant == Spec => []RequestsInv
<1>1. Init => RequestsInv
  BY RequestsStart, MarksAssumption, ChunksAssumption
<1>2. RequestsInv /\ [Next]_vars => RequestsInv'
  BY RequestsStep, MarksAssumption, ChunksAssumption
<1> QED BY <1>1, <1>2, PTL DEF Spec

(* sync completes only with an answer for every event that negentropy has found *)
(* on either side, blames a CLOSED only when the relay has refused a batch (not *)
(* when it closes late what it has served), and send_event acknowledges only an *)
(* event that the relay has accepted.                                           *)
THEOREM ResultsTellTheTruth == Spec => []ResultsAreTrue
<1>1. RequestsInv => ResultsAreTrue
  BY DEF RequestsInv
<1> QED BY <1>1, RequestsInvariant, PTL

\* a quiet system contradicts what the invariant says is on its way
LEMMA QuietIsDone ==
    ASSUME RequestsInv
    PROVE  NeverStalls
<1>1. SUFFICES ASSUME Quiet PROVE ~Active /\ send \notin Waiting
  BY DEF NeverStalls, Active
<1>2. /\ connected /\ ~relay.silent /\ toRelay = <<>> /\ fromRelay = <<>> /\ inbox["sync"] = <<>>
      /\ inbox["send"] = <<>> /\ lagged = {} /\ ingester = "idle" /\ ~challenge
  BY <1>1 DEF Quiet
<1>3. Msgs(<<>>) = {} /\ DOMAIN <<>> = {}
  BY FewMessages
<1>4. /\ \A T : ~Has(toRelay, T) /\ ~Has(fromRelay, T) /\ ~Has(inbox["sync"], T)
      /\ Heard = {} /\ Msgs(toRelay) = {} /\ Msgs(inbox["send"]) = {} /\ Msgs(fromRelay) = {}
      /\ \A t : Of(t) = {} /\ Asked(t) = {}
  BY <1>2, <1>3 DEF Has, Heard, Of, Asked
<1>5. ~Active
  <2>1. SUFFICES ASSUME Active PROVE FALSE
    OBVIOUS
  <2>2. /\ sync.have = {} \/ sync.up # {}
        /\ sync.need = {} \/ sync.downloading
        /\ ~Complete(sync)
        /\ sync.done \/ Has(toRelay, Turn) \/ Has(fromRelay, Word) \/ Has(inbox["sync"], Word)
        /\ \A e \in sync.up : EVENT(e) \in Msgs(toRelay) \/ \E m \in Of("OK") : m.event = e
        /\ sync.downloading =>
            \/ \E r \in Asked("REQ") : r.id = sync.down_id
            \/ \E m \in Of("EOSE") \cup Of("CLOSED") : m.id = sync.down_id
    BY <1>2, <2>1 DEF RequestsInv, SyncIsAnswered
  <2>3. sync.done /\ sync.up = {} /\ ~sync.downloading
    BY <1>4, <2>2
  <2> QED BY <2>2, <2>3 DEF Complete
<1>6. send \notin Waiting
  <2>1. /\ send = "wait_auth" => VerdictComes(0)
        /\ send \in {"wait_ok", "wait_again"} =>
              \/ EVENT(SentEvent) \in Msgs(toRelay)
              \/ \E m \in Msgs(inbox["send"]) \cup Msgs(fromRelay) : m.type = "OK" /\ m.event = SentEvent
    BY <1>2 DEF RequestsInv, SendIsAnswered
  <2>2. ~VerdictComes(0)
    BY <1>2, <1>3, <1>4 DEF VerdictComes
  <2> QED BY <1>4, <2>1, <2>2 DEF Waiting
<1> QED BY <1>5, <1>6

(* While the relay answers, neither request is left to its timeout: the window  *)
(* of uploads, the next batch, the end of the negotiation and the answer to an  *)
(* authentication always have a message on its way                              *)
(* (upload_neg_events, req_neg_events, wait_for_authentication).                *)
THEOREM NobodyWaitsInVain == Spec => []NeverStalls
<1>1. RequestsInv => NeverStalls
  BY QuietIsDone
<1> QED BY <1>1, RequestsInvariant, PTL

\* what was open is closed by messages that are still to be delivered
LEMMA EndedIsClosed ==
    ASSUME RequestsInv
    PROVE  NothingLeftBehind
<1>1. SUFFICES ASSUME Ended, cleanup = "idle"
               PROVE  registered = {} /\ (toRelay = <<>> => relay.open = {} /\ relay.neg = 0)
  BY DEF NothingLeftBehind, Ended
<1>2. ~Fetching /\ ~Closing /\ ~Open
  BY <1>1 DEF Fetching, Active, Closing, Ended, Open
<1>3. registered = {}
  BY <1>2 DEF RequestsInv, IdsClose
<1>4. ASSUME toRelay = <<>> PROVE relay.open = {} /\ relay.neg = 0
  <2>1. Msgs(toRelay) = {}
    BY <1>4, FewMessages
  <2>2. \A id \in relay.open : Current(id) \/ CLOSE(id) \in Msgs(toRelay)
    BY DEF RequestsInv, IdsClose
  <2>3. relay.neg # 0 => Open \/ Asked("NEG-CLOSE") # {}
    BY DEF RequestsInv, TurnsClose
  <2> QED BY <1>2, <2>1, <2>2, <2>3 DEF Current, Asked
<1> QED BY <1>3, <1>4

(* However a synchronisation ends - by itself, by an error, or dropped between  *)
(* the registration of a batch and its REQ - no subscription stays registered,  *)
(* and once its messages are delivered nothing is open on the relay             *)
(* (SyncCleanup).                                                               *)
THEOREM NothingStaysOpen == Spec => []NothingLeftBehind
<1>1. RequestsInv => NothingLeftBehind
  BY EndedIsClosed
<1> QED BY <1>1, RequestsInvariant, PTL
=============================================================================
