-------------------------- MODULE AppcastFeedProofs ---------------------------
(***************************************************************************)
(* For every set of releases, versions and runs of the workflow: the feed  *)
(* is in order, a push honours main, and a quiet feed is current.          *)
(***************************************************************************)
EXTENDS AppcastFeed, SequenceLemmas

Published(r) == status[r] # "draft"

(* No two releases were published at the same time, and none will be.      *)
DatesDiffer ==
    \A r \in Releases : Published(r) =>
        /\ publishedAt[r] < now
        /\ \A q \in Releases : Published(q) /\ publishedAt[q] = publishedAt[r] => q = r

InOrder(items) ==
    \A i, k \in DOMAIN items :
        i < k => items[i].at > items[k].at /\ items[i].version # items[k].version

Before(items, t) == \A i \in DOMAIN items : items[i].at < t

(* A release that is offered was published.                                *)
LEMMA EligibleArePublished ==
    ASSUME TypeOK, DatesDiffer, NEW p
    PROVE  /\ Eligible(p) \subseteq Releases /\ IsFiniteSet(Eligible(p))
           /\ \A r \in Eligible(p) :
                /\ Published(r) /\ publishedAt[r] \in Nat /\ publishedAt[r] < now
                /\ ItemOf(r) \in Item /\ ItemOf(r).at = publishedAt[r]
                /\ ItemOf(r).version = VersionOf[r]
           /\ \A q, r \in Eligible(p) : publishedAt[q] = publishedAt[r] => q = r
<1>1. Eligible(p) \subseteq Releases
  BY DEF Eligible, Listed
<1>2. IsFiniteSet(Eligible(p))
  BY <1>1, FeedAssumption, FS_Subset
<1>3. ASSUME NEW r \in Eligible(p)
      PROVE  /\ r \in Releases /\ Published(r)
             /\ publishedAt[r] \in Nat /\ publishedAt[r] < now
             /\ ItemOf(r) \in Item /\ ItemOf(r).at = publishedAt[r]
             /\ ItemOf(r).version = VersionOf[r]
  <2>1. r \in Releases /\ Published(r)
    BY <1>1 DEF Eligible, Published
  <2>2. publishedAt[r] \in Nat /\ publishedAt[r] < now
    BY <2>1 DEF TypeOK, DatesDiffer
  <2>3. VersionOf[r] \in Versions /\ asset[r].sidecar \in Nat
    BY <2>1, FeedAssumption DEF TypeOK
  <2> QED BY <2>1, <2>2, <2>3 DEF ItemOf, Item
<1>4. \A q, r \in Eligible(p) : publishedAt[q] = publishedAt[r] => q = r
  BY <1>3 DEF DatesDiffer
<1> QED BY <1>1, <1>2, <1>3, <1>4

(* What the script writes: the item of the latest release of each version, *)
(* in order.                                                               *)
LEMMA RebuiltItems ==
    ASSUME TypeOK, DatesDiffer, NEW p
    PROVE  /\ Rebuilt(p) \in Seq(Item)
           /\ ToSet(Rebuilt(p)) = {ItemOf(r) : r \in LatestOfVersion(Eligible(p))}
           /\ InOrder(Rebuilt(p)) /\ Before(Rebuilt(p), now)
<1> DEFINE L == LatestOfVersion(Eligible(p))
           items == {ItemOf(r) : r \in L}
           K == {i.at : i \in items}
           dates == Descending(K)
           N == Cardinality(K)
           out == Rebuilt(p)
<1>1. /\ L \subseteq Releases /\ IsFiniteSet(L)
      /\ \A r \in L : /\ Published(r) /\ publishedAt[r] \in Nat /\ publishedAt[r] < now
                      /\ ItemOf(r) \in Item /\ ItemOf(r).at = publishedAt[r]
                      /\ ItemOf(r).version = VersionOf[r]
      /\ \A q, r \in L : publishedAt[q] = publishedAt[r] => q = r
      /\ \A q, r \in L : VersionOf[q] = VersionOf[r] => publishedAt[q] = publishedAt[r]
  <2>1. L \subseteq Eligible(p)
    BY DEF LatestOfVersion
  <2>2. IsFiniteSet(L)
    BY <2>1, EligibleArePublished, FS_Subset
  <2>3. \A q, r \in L : VersionOf[q] = VersionOf[r] =>
            publishedAt[q] <= publishedAt[r] /\ publishedAt[r] <= publishedAt[q]
    BY DEF LatestOfVersion
  <2>4. \A r \in L : publishedAt[r] \in Nat
    BY <2>1, EligibleArePublished
  <2>5. \A q, r \in L : VersionOf[q] = VersionOf[r] => publishedAt[q] = publishedAt[r]
    BY <2>3, <2>4
  <2> HIDE DEF L
  <2> QED BY <2>1, <2>2, <2>5, EligibleArePublished
<1> HIDE DEF L
<1>2. K = {publishedAt[r] : r \in L}
  BY <1>1
<1>3. K \in SUBSET Nat /\ IsFiniteSet(K)
  <2>1. [r \in L |-> publishedAt[r]] \in Surjection(L, K)
    BY <1>2 DEF Surjection
  <2> QED BY <1>1, <1>2, <2>1, FS_Surjection
<1>4. /\ N \in Nat /\ dates \in [1..N -> K]
      /\ \A m, n \in 1..N : m < n => dates[m] > dates[n]
      /\ \A k \in K : \E n \in 1..N : dates[n] = k
  BY <1>3, DescendingEnumerates
<1>5. out = [k \in 1..N |-> CHOOSE i \in items : i.at = dates[k]]
  BY <1>4 DEF Rebuilt, L
<1> HIDE DEF out, dates, N
<1>6. ASSUME NEW k \in 1..N
      PROVE  out[k] \in items /\ out[k].at = dates[k]
  <2>1. \E i \in items : i.at = dates[k]
    BY <1>1, <1>2, <1>4
  <2> HIDE DEF items
  <2> QED BY <1>5, <2>1
<1>7. out \in [1..N -> Item]
  BY <1>1, <1>5, <1>6
<1>8. out \in Seq(Item) /\ DOMAIN out = 1..N
  BY <1>4, <1>7, SeqDef
<1>9. \A i, j \in items : (i.at = j.at => i = j) /\ (i.version = j.version => i.at = j.at)
  BY <1>1
<1>10. ToSet(out) = items
  <2>1. ASSUME NEW i \in items
        PROVE  \E k \in 1..N : out[k] = i
    <3>1. PICK k \in 1..N : dates[k] = i.at
      BY <1>4
    <3> QED BY <1>6, <1>9, <3>1
  <2> HIDE DEF items
  <2> QED BY <1>6, <1>8, <2>1 DEF ToSet
<1>11. InOrder(out)
  <2> SUFFICES ASSUME NEW i \in 1..N, NEW k \in 1..N, i < k
               PROVE  out[i].at > out[k].at /\ out[i].version # out[k].version
    BY <1>8 DEF InOrder
  <2>1. dates[i] > dates[k] /\ dates[i] \in Nat /\ dates[k] \in Nat
    BY <1>3, <1>4
  <2>2. out[i] \in items /\ out[k] \in items
        /\ out[i].at = dates[i] /\ out[k].at = dates[k]
    BY <1>6
  <2> HIDE DEF items
  <2> QED BY <1>9, <2>1, <2>2
<1>12. Before(out, now)
  BY <1>1, <1>6, <1>8 DEF Before
<1> QED BY <1>8, <1>10, <1>11, <1>12 DEF out, L

(* Each version that should be offered is.                                 *)
LEMMA VersionsAreOffered ==
    ASSUME TypeOK, DatesDiffer, NEW p
    PROVE  Offered(Rebuilt(p)) = {VersionOf[r] : r \in Eligible(p)}
<1> DEFINE E == Eligible(p)
           L == LatestOfVersion(E)
<1>1. /\ E \subseteq Releases /\ IsFiniteSet(E) /\ L \subseteq E
      /\ \A r \in E : publishedAt[r] \in Nat /\ ItemOf(r).version = VersionOf[r]
  BY EligibleArePublished DEF LatestOfVersion
<1>2. Offered(Rebuilt(p)) = {i.version : i \in ToSet(Rebuilt(p))}
  BY DEF Offered, ToSet
<1>3. ToSet(Rebuilt(p)) = {ItemOf(r) : r \in L}
  BY RebuiltItems
<1>4. ASSUME NEW r \in E
      PROVE  \E q \in L : VersionOf[q] = VersionOf[r]
  <2> DEFINE S == {q \in E : VersionOf[q] = VersionOf[r]}
             K == {publishedAt[q] : q \in S}
  <2>1. IsFiniteSet(S)
    BY <1>1, FS_Subset
  <2>2. [q \in S |-> publishedAt[q]] \in Surjection(S, K)
    BY DEF Surjection
  <2>3. K \in SUBSET Nat /\ IsFiniteSet(K) /\ K # {}
    BY <1>1, <2>1, <2>2, FS_Surjection
  <2>4. PICK k \in K : \A j \in K : j <= k
    BY <2>3, Largest
  <2>5. PICK q \in S : publishedAt[q] = k
    OBVIOUS
  <2>6. q \in L
    BY <2>4, <2>5 DEF LatestOfVersion
  <2> QED BY <2>5, <2>6
<1> HIDE DEF E, L
<1>5. Offered(Rebuilt(p)) = {VersionOf[r] : r \in L}
  BY <1>1, <1>2, <1>3
<1>6. Offered(Rebuilt(p)) = {VersionOf[r] : r \in E}
  BY <1>1, <1>4, <1>5
<1> QED BY <1>6 DEF E
-----------------------------------------------------------------------------
(* The types and the order of the feed.                                     *)

ItemsInOrder ==
    /\ InOrder(feed) /\ Before(feed, now)
    /\ \A j \in Jobs : InOrder(job[j].items) /\ Before(job[j].items, now)

OrderInv == TypeOK /\ DatesDiffer /\ ItemsInOrder

PCs == {"free", "queued", "validate", "sync", "push", "failed"}
Policies == [blocked : SUBSET Versions, held : SUBSET Versions]
JobsUpTo(h) == [pc : PCs, event : Releases \cup {NoEvent}, base : 0 .. h,
                policy : Policies, items : Seq(Item)]

(* What a step leaves of the runs of the workflow: all but j as they were.  *)
OthersKeep(j) == \A k \in Jobs \ {j} : job'[k] = job[k]

LEMMA NotStartedIs ==
    ASSUME TypeOK
    PROVE  /\ NotStarted \in JobsUpTo(head)
           /\ NotStarted.pc = "free" /\ NotStarted.items = <<>>
  BY EmptySeq DEF TypeOK, NotStarted, JobsUpTo, PCs, Policies

(* One run moves; main does not go back.                                    *)
LEMMA OneMoves ==
    ASSUME TypeOK, NEW j \in Jobs, head' \in Nat, head <= head',
           NEW x \in JobsUpTo(head'), job' = [job EXCEPT ![j] = x]
    PROVE  job' \in [Jobs -> JobsUpTo(head')] /\ job'[j] = x /\ OthersKeep(j)
<1>1. job \in [Jobs -> JobsUpTo(head)] /\ head \in Nat
  BY DEF TypeOK, JobsUpTo, PCs, Policies
<1>2. 0 .. head \subseteq 0 .. head'
  BY <1>1
<1>3. job \in [Jobs -> JobsUpTo(head')]
  BY <1>1, <1>2 DEF JobsUpTo
<1> QED BY <1>3 DEF OthersKeep

LEMMA NoneMoves ==
    ASSUME TypeOK, head' \in Nat, head <= head', job' = job
    PROVE  job' \in [Jobs -> JobsUpTo(head')]
<1>1. job \in [Jobs -> JobsUpTo(head)] /\ head \in Nat
  BY DEF TypeOK, JobsUpTo, PCs, Policies
<1>2. 0 .. head \subseteq 0 .. head'
  BY <1>1
<1> QED BY <1>1, <1>2 DEF JobsUpTo

LEMMA Labelled ==
    ASSUME TypeOK, NEW j \in Jobs, NEW label \in PCs, Goto(j, label), head' = head
    PROVE  /\ job' \in [Jobs -> JobsUpTo(head')] /\ OthersKeep(j)
           /\ job'[j] = [job[j] EXCEPT !.pc = label]
           /\ job'[j].pc = label /\ job'[j].base = job[j].base
           /\ job'[j].policy = job[j].policy /\ job'[j].items = job[j].items
<1>1. job \in [Jobs -> JobsUpTo(head)] /\ head \in Nat
  BY DEF TypeOK, JobsUpTo, PCs, Policies
<1>2. job' = [job EXCEPT ![j] = [job[j] EXCEPT !.pc = label]]
  BY DEF Goto
<1>3. [job[j] EXCEPT !.pc = label] \in JobsUpTo(head')
  BY <1>1 DEF JobsUpTo
<1>4. /\ job' \in [Jobs -> JobsUpTo(head')] /\ OthersKeep(j)
      /\ job'[j] = [job[j] EXCEPT !.pc = label]
  <2> DEFINE x == [job[j] EXCEPT !.pc = label]
  <2>1. head' \in Nat /\ head <= head'
    BY <1>1
  <2>2. x \in JobsUpTo(head') /\ job' = [job EXCEPT ![j] = x]
    BY <1>2, <1>3
  <2>3. job' \in [Jobs -> JobsUpTo(head')] /\ OthersKeep(j) /\ job'[j] = x
    <3> HIDE DEF x
    <3> QED BY <2>1, <2>2, OneMoves
  <2> QED BY <2>3
<1>5. job[j] \in JobsUpTo(head)
  BY <1>1
<1> QED BY <1>4, <1>5 DEF JobsUpTo

LEMMA Triggered ==
    ASSUME TypeOK, NEW event \in Releases \cup {NoEvent}, Trigger(event),
           head' \in Nat, head <= head'
    PROVE  \E j \in Jobs : /\ job' \in [Jobs -> JobsUpTo(head')] /\ OthersKeep(j)
                           /\ job[j].pc = "free" /\ job'[j].pc = "queued"
                           /\ job'[j].items = <<>>
<1>1. PICK j \in Jobs :
        /\ job[j].pc = "free"
        /\ job' = [job EXCEPT ![j] = [NotStarted EXCEPT !.pc = "queued", !.event = event]]
  BY DEF Trigger
<1> DEFINE x == [NotStarted EXCEPT !.pc = "queued", !.event = event]
<1>2. x \in JobsUpTo(head') /\ x.pc = "queued" /\ x.items = <<>>
  <2>1. NotStarted \in JobsUpTo(head') /\ NotStarted.items = <<>>
    BY EmptySeq DEF NotStarted, JobsUpTo, PCs, Policies
  <2> DEFINE y == [NotStarted EXCEPT !.pc = "queued"]
  <2>2. y \in JobsUpTo(head') /\ y.pc = "queued" /\ y.items = <<>>
    BY <2>1 DEF JobsUpTo, PCs
  <2>3. x = [y EXCEPT !.event = event]
    OBVIOUS
  <2> HIDE DEF x, y
  <2> QED BY <2>2, <2>3 DEF JobsUpTo
<1> HIDE DEF x
<1>3. job' \in [Jobs -> JobsUpTo(head')] /\ job'[j] = x /\ OthersKeep(j)
  BY <1>1, <1>2, OneMoves DEF x
<1> QED BY <1>1, <1>2, <1>3

(* update_appcast keeps the order when the new item is the newest.          *)
LEMMA WithItemInOrder ==
    ASSUME NEW items \in Seq(Item), InOrder(items), NEW item \in Item,
           Before(items, item.at)
    PROVE  LET new == WithItem(items, item)
           IN  /\ new \in Seq(Item) /\ InOrder(new)
               /\ Before(new, item.at + 1)
<1> DEFINE S == {i \in Item : i.version # item.version}
           K == {k \in DOMAIN items : items[k] \in S}
           from == Ascending(K)
           N == Cardinality(K)
           rest == Only(items, S)
           new == WithItem(items, item)
<1>1. Len(items) \in Nat /\ DOMAIN items = 1 .. Len(items)
      /\ \A k \in DOMAIN items : items[k] \in Item
  BY LenProperties, ElementOfSeq
<1>2. K \in SUBSET Nat /\ IsFiniteSet(K)
  <2>1. IsFiniteSet(1 .. Len(items))
    BY <1>1, FS_Interval
  <2> QED BY <1>1, <2>1, FS_Subset
<1>3. /\ N \in Nat /\ from \in [1 .. N -> K]
      /\ \A m, n \in 1 .. N : m < n => from[m] < from[n]
  BY <1>2, AscendingEnumerates
<1>4. rest = [n \in 1 .. N |-> items[from[n]]]
  BY <1>3 DEF Only
<1> HIDE DEF from, rest, N
<1>5. rest \in [1 .. N -> Item]
  BY <1>1, <1>3, <1>4
<1>6. rest \in Seq(Item) /\ Len(rest) = N
  <2>1. rest \in Seq(Item) /\ DOMAIN rest = 1 .. N
    BY <1>3, <1>5, SeqDef
  <2>2. Len(rest) \in Nat /\ DOMAIN rest = 1 .. Len(rest)
    BY <2>1, LenProperties
  <2> QED BY <1>3, <2>1, <2>2
<1>7. ASSUME NEW n \in 1 .. N
      PROVE  rest[n].version # item.version /\ rest[n].at < item.at
             /\ rest[n].at \in Nat
  BY <1>3, <1>4, <1>5 DEF Item, Before
<1>8. ASSUME NEW m \in 1 .. N, NEW n \in 1 .. N, m < n
      PROVE  rest[m].at > rest[n].at /\ rest[m].version # rest[n].version
  BY <1>3, <1>4, <1>8 DEF InOrder
<1>9. /\ <<item>> \in Seq(Item) /\ Len(<<item>>) = 1 /\ <<item>>[1] = item
  OBVIOUS
<1>10. /\ new \in Seq(Item) /\ Len(new) = N + 1
       /\ \A i \in 1 .. (N + 1) : new[i] = IF i <= 1 THEN item ELSE rest[i - 1]
  <2>1. new = <<item>> \o rest
    BY DEF WithItem, rest
  <2> HIDE DEF new
  <2>2. /\ <<item>> \o rest \in Seq(Item)
        /\ Len(<<item>> \o rest) = 1 + N
        /\ \A i \in 1 .. (1 + N) :
             (<<item>> \o rest)[i] = IF i <= 1 THEN <<item>>[i] ELSE rest[i - 1]
    BY <1>6, <1>9, ConcatProperties
  <2> QED BY <1>3, <1>9, <2>1, <2>2
<1> HIDE DEF new
<1>11. DOMAIN new = 1 .. (N + 1)
  BY <1>10, LenProperties
<1>12. ASSUME NEW i \in DOMAIN new
       PROVE  \/ i = 1 /\ new[i] = item
              \/ i - 1 \in 1 .. N /\ new[i] = rest[i - 1]
  BY <1>3, <1>10, <1>11
<1>13. item.at \in Nat
  BY DEF Item
<1>14. Before(new, item.at + 1)
  BY <1>7, <1>12, <1>13 DEF Before
<1>15. ASSUME NEW i \in DOMAIN new, NEW k \in DOMAIN new, i < k
       PROVE  new[i].at > new[k].at /\ new[i].version # new[k].version
  <2>1. k - 1 \in 1 .. N /\ new[k] = rest[k - 1]
    BY <1>3, <1>11, <1>12, <1>15
  <2>2. CASE i = 1
    BY <1>7, <1>12, <1>13, <2>1, <2>2
  <2>3. CASE i - 1 \in 1 .. N /\ new[i] = rest[i - 1]
    <3>1. i - 1 < k - 1
      BY <1>3, <1>11, <1>15
    <3> QED BY <1>8, <2>1, <2>3, <3>1
  <2> QED BY <1>12, <2>2, <2>3
<1>16. InOrder(new)
  BY <1>15 DEF InOrder
<1> QED BY <1>10, <1>14, <1>16 DEF new

LEMMA Later ==
    ASSUME NEW items \in Seq(Item), NEW t \in Nat, NEW u \in Nat, t <= u,
           Before(items, t)
    PROVE  Before(items, u)
<1>1. DOMAIN items = 1 .. Len(items)
  BY LenProperties
<1>2. \A i \in DOMAIN items : items[i] \in Item
  BY <1>1, ElementOfSeq
<1>3. \A i \in DOMAIN items : items[i].at \in Nat
  BY <1>2 DEF Item
<1> QED BY <1>3 DEF Before

LEMMA OrderInit == Init => OrderInv
<1> SUFFICES ASSUME Init PROVE OrderInv
  OBVIOUS
<1>1. /\ now = 1 /\ head = 0 /\ feed = <<>> /\ DOMAIN <<>> = {}
      /\ status = [r \in Releases |-> "draft"]
      /\ \A j \in Jobs : job[j].items = <<>>
  BY DEF Init, NotStarted
<1>2. TypeOK
  <2>1. job \in [Jobs -> JobsUpTo(head)]
    BY <1>1, EmptySeq DEF Init, NotStarted, JobsUpTo, PCs, Policies
  <2>2. /\ asset \in [Releases -> [installer : Nat, sidecar : Nat]]
        /\ publishedAt \in [Releases -> Nat]
        /\ policy \in Policies /\ changes \in 0 .. MaxChanges
        /\ feed \in Seq(Item) /\ aged = {} /\ heals = {}
    BY <1>1, EmptySeq, FeedAssumption DEF Init, Policies
  <2>3. missed \in BOOLEAN
    BY DEF Init
  <2> QED BY <1>1, <2>1, <2>2, <2>3 DEF TypeOK, JobsUpTo, PCs, Policies
<1>3. DatesDiffer
  BY <1>1 DEF DatesDiffer, Published
<1>4. ItemsInOrder
  BY <1>1 DEF ItemsInOrder, InOrder, Before
<1> QED BY <1>2, <1>3, <1>4 DEF OrderInv

(* Every step but Publish leaves the dates alone or withdraws a release,    *)
(* and writes only lists that are in order.                                 *)
LEMMA OrderKept ==
    ASSUME OrderInv, now' \in Nat, now <= now',
           TypeOK',
           publishedAt' = publishedAt,
           \A r \in Releases : Published(r)' => Published(r),
           feed' = feed \/ (InOrder(feed') /\ Before(feed', now')),
           NEW j, OthersKeep(j),
           j \in Jobs => \/ job'[j].items \in {job[j].items, feed, <<>>}
                         \/ InOrder(job'[j].items) /\ Before(job'[j].items, now)
    PROVE  OrderInv'
<1>1. DatesDiffer'
  <2>1. now \in Nat /\ \A r \in Releases : publishedAt[r] \in Nat
    BY DEF OrderInv, TypeOK
  <2> QED BY <2>1 DEF OrderInv, DatesDiffer
<1>2. ASSUME NEW items \in Seq(Item), Before(items, now)
      PROVE  Before(items, now')
  <2>1. now \in Nat
    BY DEF OrderInv, TypeOK
  <2> QED BY <1>2, <2>1, Later
<1>3. InOrder(<<>>) /\ Before(<<>>, now)
  <2>1. DOMAIN <<>> = {}
    OBVIOUS
  <2> QED BY <2>1 DEF InOrder, Before
<1>4. /\ feed \in Seq(Item) /\ \A k \in Jobs : job'[k].items \in Seq(Item)
  BY DEF OrderInv, TypeOK
<1>5. InOrder(feed') /\ Before(feed', now')
  BY <1>2, <1>4 DEF OrderInv, ItemsInOrder
<1>6. ASSUME NEW k \in Jobs
      PROVE  InOrder(job'[k].items) /\ Before(job'[k].items, now')
  <2>1. InOrder(job'[k].items) /\ Before(job'[k].items, now)
    BY <1>3 DEF OrderInv, ItemsInOrder, OthersKeep
  <2> QED BY <1>2, <1>4, <2>1
<1>7. ItemsInOrder'
  BY <1>5, <1>6 DEF ItemsInOrder
<1> QED BY <1>1, <1>7 DEF OrderInv

LEMMA OrderStep == OrderInv /\ [Next]_vars => OrderInv'
<1> SUFFICES ASSUME OrderInv, [Next]_vars PROVE OrderInv'
  OBVIOUS
<1> USE DEF github, main
<1>0. /\ TypeOK /\ DatesDiffer /\ ItemsInOrder
      /\ now \in Nat /\ head \in Nat /\ now <= now + 1 /\ head <= head + 1
      /\ job \in [Jobs -> JobsUpTo(head)]
      /\ status \in [Releases -> {"draft", "public", "prerelease"}]
      /\ publishedAt \in [Releases -> Nat]
      /\ asset \in [Releases -> [installer : Nat, sidecar : Nat]]
      /\ feed \in Seq(Item) /\ policy \in Policies /\ aged \subseteq Releases
  BY DEF OrderInv, TypeOK, JobsUpTo, PCs, Policies
<1>a. ASSUME job' \in [Jobs -> JobsUpTo(head')], now' \in Nat, head' \in Nat,
             status' \in [Releases -> {"draft", "public", "prerelease"}],
             publishedAt' \in [Releases -> Nat],
             asset' \in [Releases -> [installer : Nat, sidecar : Nat]],
             aged' \subseteq Releases,
             changes' = changes \/ Change,
             missed' \in BOOLEAN, heals' \subseteq Jobs,
             policy' \in Policies, feed' \in Seq(Item)
      PROVE  TypeOK'
  <2>1. changes' \in 0 .. MaxChanges
    BY <1>a, FeedAssumption DEF OrderInv, TypeOK, Change
  <2> QED BY <1>a, <2>1 DEF OrderInv, TypeOK, JobsUpTo, PCs, Policies
<1>b. /\ missed \in BOOLEAN /\ heals \subseteq Jobs
      /\ Unannounced => missed' \in BOOLEAN /\ heals' \subseteq Jobs
  BY <1>0 DEF TypeOK, Unannounced
<1>1. ASSUME NEW r \in Releases, Publish(r) PROVE OrderInv'
  <2>1. /\ status' = [status EXCEPT ![r] = "public"]
        /\ publishedAt' = [publishedAt EXCEPT ![r] = now]
        /\ now' = now + 1 /\ Trigger(r) /\ head' = head /\ feed' = feed
        /\ UNCHANGED <<aged, policy, changes, missed, heals>>
    BY <1>1 DEF Publish
  <2>2. asset' \in [Releases -> [installer : Nat, sidecar : Nat]]
    <3>1. PICK c \in {asset[r].sidecar, 0} : asset' = [asset EXCEPT ![r].sidecar = c]
      BY <1>1 DEF Publish
    <3>2. asset[r] \in [installer : Nat, sidecar : Nat] /\ c \in Nat
      BY <1>0
    <3> QED BY <1>0, <3>1, <3>2
  <2>3. PICK j \in Jobs : /\ job' \in [Jobs -> JobsUpTo(head')] /\ OthersKeep(j)
                          /\ job'[j].items = <<>>
    <3>1. r \in Releases \cup {NoEvent} /\ head' \in Nat /\ head <= head'
      BY <1>0, <2>1
    <3> QED BY <1>0, <2>1, <3>1, Triggered
  <2>4. TypeOK'
    <3>1. /\ status' \in [Releases -> {"draft", "public", "prerelease"}]
          /\ publishedAt' \in [Releases -> Nat]
          /\ now' \in Nat /\ head' \in Nat
          /\ policy' \in Policies /\ feed' \in Seq(Item) /\ aged' \subseteq Releases
      BY <1>0, <2>1
    <3>2. missed' \in BOOLEAN /\ heals' \subseteq Jobs
      BY <1>b, <2>1
    <3> QED BY <1>a, <2>1, <2>2, <2>3, <3>1, <3>2
  <2>5. DatesDiffer'
    BY <1>0, <2>1 DEF DatesDiffer, Published
  <2>6. ASSUME NEW items \in Seq(Item), Before(items, now)
        PROVE  Before(items, now')
    <3>1. now' \in Nat
      BY <1>0, <2>1
    <3> QED BY <1>0, <2>1, <2>6, <3>1, Later
  <2>7. InOrder(<<>>) /\ Before(<<>>, now')
    <3>1. DOMAIN <<>> = {}
      OBVIOUS
    <3> QED BY <3>1 DEF InOrder, Before
  <2>8. ASSUME NEW k \in Jobs
        PROVE  InOrder(job'[k].items) /\ Before(job'[k].items, now')
    <3>1. job[k].items \in Seq(Item)
      BY <1>0 DEF JobsUpTo
    <3> QED BY <1>0, <2>3, <2>6, <2>7, <3>1 DEF ItemsInOrder, OthersKeep
  <2>9. ItemsInOrder'
    BY <1>0, <2>1, <2>6, <2>8 DEF ItemsInOrder
  <2> QED BY <2>4, <2>5, <2>9 DEF OrderInv
<1>2. ASSUME NEW r \in Releases, Withdraw(r) PROVE OrderInv'
  <2>1. /\ status' = [status EXCEPT ![r] = "prerelease"] /\ status[r] = "public"
        /\ Change /\ Unannounced
        /\ UNCHANGED <<now, publishedAt, asset, aged, policy, feed, head, job>>
    BY <1>2 DEF Withdraw
  <2>2. TypeOK'
    BY <1>0, <1>a, <1>b, <2>1
  <2>3. \A q \in Releases : Published(q)' => Published(q)
    BY <1>0, <2>1 DEF Published
  <2> QED BY <1>0, <2>1, <2>2, <2>3, OrderKept DEF OthersKeep
<1>3. ASSUME NEW r \in Releases, Reupload(r) PROVE OrderInv'
  <2>1. /\ now' = now + 1 /\ Change /\ Unannounced
        /\ UNCHANGED <<status, publishedAt, aged, policy, feed, head, job>>
        /\ asset' = [asset EXCEPT ![r] = [installer |-> Cardinality(Releases) + now,
                                          sidecar |-> Cardinality(Releases) + now]]
    BY <1>3 DEF Reupload
  <2>2. asset' \in [Releases -> [installer : Nat, sidecar : Nat]]
    <3>1. Cardinality(Releases) + now \in Nat
      BY <1>0, FeedAssumption, FS_CardinalityType
    <3> QED BY <1>0, <2>1, <3>1
  <2>3. TypeOK'
    BY <1>0, <1>a, <1>b, <2>1, <2>2
  <2> QED BY <1>0, <2>1, <2>3, OrderKept DEF OthersKeep, Published
<1>4. ASSUME NEW r \in Releases, Ages(r) PROVE OrderInv'
  <2>1. /\ aged' = aged \cup {r}
        /\ Unannounced \/ (missed' = missed /\ heals' = heals)
        /\ UNCHANGED <<now, status, publishedAt, asset, policy, feed, head, job, changes>>
    BY <1>4 DEF Ages
  <2>2. missed' \in BOOLEAN /\ heals' \subseteq Jobs
    BY <1>b, <2>1
  <2>3. TypeOK'
    BY <1>0, <1>a, <2>1, <2>2
  <2> QED BY <1>0, <2>1, <2>3, OrderKept DEF OthersKeep, Published
<1>5. ASSUME NEW r \in Releases, ManualUpdate(r) PROVE OrderInv'
  <2> DEFINE item == [version |-> VersionOf[r], at |-> now, hash |-> asset[r].installer]
  <2>1. /\ feed' = WithItem(feed, item) /\ Change /\ Unannounced
        /\ now' = now + 1 /\ head' = head + 1
        /\ UNCHANGED <<status, publishedAt, asset, aged, policy, job>>
    BY <1>5 DEF ManualUpdate
  <2>2. item \in Item /\ item.at = now
    BY <1>0, FeedAssumption DEF Item
  <2> HIDE DEF item
  <2>3. feed' \in Seq(Item) /\ InOrder(feed') /\ Before(feed', now + 1)
    BY <1>0, <2>1, <2>2, WithItemInOrder DEF ItemsInOrder
  <2>4. job' \in [Jobs -> JobsUpTo(head')]
    BY <1>0, <2>1, NoneMoves
  <2>5. TypeOK'
    BY <1>0, <1>a, <1>b, <2>1, <2>3, <2>4
  <2> QED BY <1>0, <2>1, <2>3, <2>5, OrderKept DEF OthersKeep, Published
<1>6. ASSUME PushPolicy PROVE OrderInv'
  <2>1. /\ Change /\ head' = head + 1 /\ Trigger(NoEvent)
        /\ UNCHANGED <<now, status, publishedAt, asset, aged, feed, missed, heals>>
    BY <1>6 DEF PushPolicy
  <2>2. policy' \in Policies
    <3>1. PICK v \in Versions :
             \/ policy' = [policy EXCEPT !.blocked = SymDiff(@, {v})]
             \/ policy' = [policy EXCEPT !.held = SymDiff(@, {v})]
      BY <1>6 DEF PushPolicy
    <3>2. \A S \in SUBSET Versions : SymDiff(S, {v}) \in SUBSET Versions
      BY DEF SymDiff
    <3> QED BY <1>0, <3>1, <3>2 DEF Policies
  <2>3. PICK j \in Jobs : /\ job' \in [Jobs -> JobsUpTo(head')] /\ OthersKeep(j)
                          /\ job'[j].items = <<>>
    BY <1>0, <2>1, Triggered
  <2>4. missed' \in BOOLEAN /\ heals' \subseteq Jobs
    BY <1>b, <2>1
  <2>5. TypeOK'
    BY <1>0, <1>a, <2>1, <2>2, <2>3, <2>4
  <2> QED BY <1>0, <2>1, <2>3, <2>5, OrderKept DEF Published
<1>7. ASSUME PushOther PROVE OrderInv'
  <2>1. /\ Change /\ head' = head + 1
        /\ UNCHANGED <<now, status, publishedAt, asset, aged, policy, feed, job, missed, heals>>
    BY <1>7 DEF PushOther
  <2>2. job' \in [Jobs -> JobsUpTo(head')]
    BY <1>0, <2>1, NoneMoves
  <2>3. missed' \in BOOLEAN /\ heals' \subseteq Jobs
    BY <1>b, <2>1
  <2>4. TypeOK'
    BY <1>0, <1>a, <2>1, <2>2, <2>3
  <2> QED BY <1>0, <2>1, <2>4, OrderKept DEF OthersKeep, Published
<1>8. ASSUME Dispatch PROVE OrderInv'
  <2>1. /\ Change /\ Trigger(NoEvent)
        /\ UNCHANGED <<now, status, publishedAt, asset, aged, policy, feed, head, missed, heals>>
    BY <1>8 DEF Dispatch
  <2>2. PICK j \in Jobs : /\ job' \in [Jobs -> JobsUpTo(head')] /\ OthersKeep(j)
                          /\ job'[j].items = <<>>
    BY <1>0, <2>1, Triggered
  <2>3. missed' \in BOOLEAN /\ heals' \subseteq Jobs
    BY <1>b, <2>1
  <2>4. TypeOK'
    BY <1>0, <1>a, <2>1, <2>2, <2>3
  <2> QED BY <1>0, <2>1, <2>2, <2>4, OrderKept DEF Published
<1>9. ASSUME NEW j \in Jobs, Checkout(j) PROVE OrderInv'
  <2> DEFINE x == [job[j] EXCEPT !.pc = IF job[j].event = NoEvent THEN "sync" ELSE "validate",
                                 !.base = head, !.policy = policy, !.items = feed]
  <2>1. /\ job' = [job EXCEPT ![j] = x]
        /\ UNCHANGED <<now, status, publishedAt, asset, aged, policy, feed, head,
                       changes, missed, heals>>
    BY <1>9 DEF Checkout
  <2>2. x \in JobsUpTo(head') /\ x.items = feed
    <3>1. job[j] \in JobsUpTo(head') /\ head \in 0 .. head'
      BY <1>0, <2>1
    <3>2. (IF job[j].event = NoEvent THEN "sync" ELSE "validate") \in PCs
      BY DEF PCs
    <3> QED BY <1>0, <3>1, <3>2 DEF JobsUpTo
  <2> HIDE DEF x
  <2>3. job' \in [Jobs -> JobsUpTo(head')] /\ job'[j] = x /\ OthersKeep(j)
    <3>1. head' \in Nat /\ head <= head'
      BY <1>0, <2>1
    <3> QED BY <1>0, <2>1, <2>2, <3>1, OneMoves
  <2>4. missed' \in BOOLEAN /\ heals' \subseteq Jobs
    BY <1>b, <2>1
  <2>5. TypeOK'
    BY <1>0, <1>a, <2>1, <2>3, <2>4
  <2> QED BY <1>0, <2>1, <2>2, <2>3, <2>5, OrderKept DEF Published
<1>10. ASSUME NEW j \in Jobs, NEW label \in PCs, Goto(j, label),
              UNCHANGED <<now, status, publishedAt, asset, aged, policy, feed, head, changes>>,
              Unannounced \/ (missed' = missed /\ heals' = heals)
       PROVE  OrderInv'
  <2>1. /\ job' \in [Jobs -> JobsUpTo(head')] /\ OthersKeep(j)
        /\ job'[j].items = job[j].items
    BY <1>0, <1>10, Labelled
  <2>2. missed' \in BOOLEAN /\ heals' \subseteq Jobs
    BY <1>b, <1>10
  <2>3. TypeOK'
    BY <1>0, <1>10, <1>a, <2>1, <2>2
  <2> QED BY <1>0, <1>10, <2>1, <2>3, OrderKept DEF Published
<1>11. ASSUME NEW j \in Jobs,
              Validate(j) \/ ValidateFails(j) \/ SyncFails(j) \/ PushRejected(j)
       PROVE  OrderInv'
  <2>1. PICK label \in {"sync", "failed"} : Goto(j, label)
    BY <1>11 DEF Validate, ValidateFails, SyncFails, PushRejected, Fails
  <2>2. /\ UNCHANGED <<now, status, publishedAt, asset, aged, policy, feed, head, changes>>
        /\ Unannounced \/ (missed' = missed /\ heals' = heals)
    BY <1>11 DEF Validate, ValidateFails, SyncFails, PushRejected, Fails
  <2> QED BY <1>10, <2>1, <2>2 DEF PCs
<1>12. ASSUME NEW j \in Jobs, Sync(j) PROVE OrderInv'
  <2> DEFINE items == Rebuilt(job[j].policy)
             y == [job[j] EXCEPT !.pc = "push"]
             x == [y EXCEPT !.items = items]
  <2>1. /\ job' = [job EXCEPT ![j] = x] /\ heals' = heals \cup {j}
        /\ UNCHANGED <<now, status, publishedAt, asset, aged, policy, feed, head,
                       changes, missed>>
    BY <1>12 DEF Sync
  <2>2. items \in Seq(Item) /\ InOrder(items) /\ Before(items, now)
    BY <1>0, RebuiltItems
  <2> HIDE DEF items
  <2>3. x \in JobsUpTo(head') /\ x.items = items
    <3>1. job[j] \in JobsUpTo(head')
      BY <1>0, <2>1
    <3>2. y \in JobsUpTo(head')
      BY <3>1 DEF JobsUpTo, PCs
    <3> HIDE DEF y
    <3> QED BY <2>2, <3>2 DEF JobsUpTo
  <2> HIDE DEF x
  <2>4. job' \in [Jobs -> JobsUpTo(head')] /\ job'[j] = x /\ OthersKeep(j)
    <3>1. head' \in Nat /\ head <= head'
      BY <1>0, <2>1
    <3> QED BY <1>0, <2>1, <2>3, <3>1, OneMoves
  <2>5. missed' \in BOOLEAN /\ heals' \subseteq Jobs
    BY <1>b, <2>1
  <2>6. TypeOK'
    BY <1>0, <1>a, <2>1, <2>4, <2>5
  <2>7. InOrder(job'[j].items) /\ Before(job'[j].items, now)
    BY <2>2, <2>3, <2>4
  <2>8. /\ now' \in Nat /\ now <= now' /\ publishedAt' = publishedAt /\ feed' = feed
        /\ \A r \in Releases : Published(r)' => Published(r)
    BY <1>0, <2>1 DEF Published
  <2> QED BY <2>4, <2>6, <2>7, <2>8, <1>0, OrderKept
<1>13. ASSUME NEW j \in Jobs, Push(j) PROVE OrderInv'
  <2>1. /\ feed' = job[j].items /\ head' \in {head, head + 1}
        /\ job' = [job EXCEPT ![j] = NotStarted]
        /\ missed' = (missed /\ ~MakesUp(j)) /\ heals' = heals \ {j}
        /\ UNCHANGED <<now, status, publishedAt, asset, aged, policy, changes>>
    BY <1>13 DEF Push
  <2>2. head' \in Nat /\ head <= head'
    BY <1>0, <2>1
  <2>3. /\ NotStarted \in JobsUpTo(head') /\ NotStarted.items = <<>>
    BY EmptySeq, <2>2 DEF NotStarted, JobsUpTo, PCs, Policies
  <2>4. job' \in [Jobs -> JobsUpTo(head')] /\ job'[j] = NotStarted /\ OthersKeep(j)
    BY <1>0, <2>1, <2>2, <2>3, OneMoves
  <2>5. missed' \in BOOLEAN
    BY <2>1
  <2>6. feed' \in Seq(Item) /\ InOrder(feed') /\ Before(feed', now)
    BY <1>0, <2>1 DEF ItemsInOrder, JobsUpTo
  <2>7. TypeOK'
    BY <1>0, <1>a, <1>b, <2>1, <2>2, <2>4, <2>5, <2>6
  <2>8. job'[j].items = <<>> /\ Before(feed', now')
    BY <2>1, <2>3, <2>4, <2>6
  <2>9. now' \in Nat /\ now <= now' /\ publishedAt' = publishedAt
        /\ \A r \in Releases : Published(r)' => Published(r)
    BY <1>0, <2>1 DEF Published
  <2>10. InOrder(feed')
    BY <2>6
  <2> QED BY <2>4, <2>7, <2>8, <2>9, <2>10, OrderKept
<1>14. ASSUME NEW j \in Jobs, Clear(j) PROVE OrderInv'
  <2>1. /\ job' = [job EXCEPT ![j] = NotStarted]
        /\ UNCHANGED <<now, status, publishedAt, asset, aged, policy, feed, head,
                       changes, missed, heals>>
    BY <1>14 DEF Clear
  <2>2. head' \in Nat /\ head <= head'
    BY <1>0, <2>1
  <2>3. /\ NotStarted \in JobsUpTo(head') /\ NotStarted.items = <<>>
    BY <1>0, <2>1, NotStartedIs
  <2>4. job' \in [Jobs -> JobsUpTo(head')] /\ job'[j] = NotStarted /\ OthersKeep(j)
    BY <1>0, <2>1, <2>2, <2>3, OneMoves
  <2>5. missed' \in BOOLEAN /\ heals' \subseteq Jobs
    BY <1>b, <2>1
  <2>6. TypeOK'
    BY <1>0, <1>a, <2>1, <2>4, <2>5
  <2> QED BY <1>0, <2>1, <2>3, <2>4, <2>6, OrderKept DEF Published
<1>15. CASE UNCHANGED vars
  <2>1. UNCHANGED <<now, status, publishedAt, asset, aged, policy, feed, head, job,
                    changes, missed, heals>>
    BY <1>15 DEF vars
  <2>2. missed' \in BOOLEAN /\ heals' \subseteq Jobs
    BY <1>b, <2>1
  <2>3. TypeOK'
    BY <1>0, <1>a, <2>1, <2>2
  <2> QED BY <1>0, <2>1, <2>3, OrderKept DEF OthersKeep, Published
<1> QED
  BY <1>1, <1>2, <1>3, <1>4, <1>5, <1>6, <1>7, <1>8, <1>9, <1>11, <1>12, <1>13,
     <1>14, <1>15
  DEF Next, People, Workflow

LEMMA OrderInvariant == Spec => []OrderInv
  BY OrderInit, OrderStep, PTL DEF Spec

(* The types of the state.                                                  *)
THEOREM FeedTypeCorrect == Spec => []TypeOK
<1>1. OrderInv => TypeOK
  BY DEF OrderInv
<1> QED BY <1>1, OrderInvariant, PTL

(* One item per version, the newest first, whether the script wrote the     *)
(* feed, update_appcast_manual.py, or both in turn.                         *)
THEOREM FeedInOrder == Spec => []NewestFirst
<1>1. OrderInv => NewestFirst
  BY DEF OrderInv, ItemsInOrder, InOrder, NewestFirst
<1> QED BY <1>1, OrderInvariant, PTL
-----------------------------------------------------------------------------
(* A push honours main.                                                     *)

Started == {"validate", "sync", "push"}
OnHead(j) == job[j].pc \in Started /\ job[j].base = head

(* A run that could still push has the policy that is on main.              *)
ChecksOut == \A j \in Jobs : OnHead(j) => job[j].policy = policy

(* The release is offered, for as long as nobody withdraws or blocks it.    *)
Standing(r) ==
    /\ status[r] = "public"
    /\ VersionOf[r] \notin policy.blocked \cup policy.held
    /\ \E i \in ToSet(feed) : i.version = VersionOf[r] /\ i.at = publishedAt[r]

Honours(j) ==
    job[j].pc = "push" =>
        /\ Offered(job[j].items) \cap job[j].policy.blocked = {}
        /\ job[j].base = head =>
             \A r \in Listed : Standing(r) => VersionOf[r] \in Offered(job[j].items)

HonourInv == OrderInv /\ ChecksOut /\ \A j \in Jobs : Honours(j)

LEMMA HonourInit == Init => HonourInv
<1> SUFFICES ASSUME Init PROVE HonourInv
  OBVIOUS
<1>1. \A j \in Jobs : job[j].pc = "free"
  BY DEF Init, NotStarted
<1> QED BY <1>1, OrderInit DEF HonourInv, ChecksOut, OnHead, Started, Honours

(* A commit on main: no run that was under way can push any more.           *)
LEMMA MainMoves ==
    ASSUME HonourInv, OrderInv', head' = head + 1,
           \A k \in Jobs : job'[k] = job[k] \/ job'[k].pc \notin Started
    PROVE  HonourInv'
<1>1. /\ head \in Nat /\ head' \in Nat
      /\ \A k \in Jobs : job[k].base \in 0 .. head
  BY DEF HonourInv, OrderInv, TypeOK
<1>2. ASSUME NEW k \in Jobs, job'[k].pc \in Started
      PROVE  job'[k] = job[k] /\ job'[k].base # head'
  BY <1>1, <1>2
<1>3. ChecksOut'
  BY <1>2 DEF ChecksOut, OnHead
<1>4. ASSUME NEW k \in Jobs PROVE Honours(k)'
  BY <1>2 DEF HonourInv, Honours, Started
<1> QED BY <1>3, <1>4 DEF HonourInv

(* Main stays; no release becomes public with the date of an item of it.    *)
LEMMA MainStays ==
    ASSUME HonourInv, OrderInv', head' = head, policy' = policy, feed' = feed,
           \A r \in Releases : Standing(r)' => Standing(r),
           \A k \in Jobs :
              \/ job'[k] = job[k]
              \/ job'[k].pc \notin Started
              \/ job'[k].pc # "push" /\ (job'[k].base = head => job'[k].policy = policy)
    PROVE  HonourInv'
<1>1. ChecksOut'
  BY DEF HonourInv, ChecksOut, OnHead, Started
<1>2. ASSUME NEW k \in Jobs PROVE Honours(k)'
  <2> SUFFICES ASSUME job'[k].pc = "push" PROVE Honours(k)'
    BY DEF Honours
  <2>1. job'[k] = job[k] /\ Honours(k)
    BY DEF HonourInv, Started
  <2>2. \A r \in Listed : r \in Releases
    BY DEF Listed
  <2> QED BY <2>1, <2>2 DEF Honours
<1> QED BY <1>1, <1>2 DEF HonourInv

LEMMA HonourStep == HonourInv /\ [Next]_vars => HonourInv'
<1> SUFFICES ASSUME HonourInv, [Next]_vars PROVE HonourInv'
  OBVIOUS
<1> USE DEF github, main
<1>0. /\ OrderInv /\ TypeOK /\ DatesDiffer /\ ItemsInOrder /\ OrderInv'
      /\ job \in [Jobs -> JobsUpTo(head)] /\ head \in Nat
      /\ status \in [Releases -> {"draft", "public", "prerelease"}]
      /\ publishedAt \in [Releases -> Nat]
  BY OrderStep DEF HonourInv, OrderInv, TypeOK, JobsUpTo, PCs, Policies
<1>1. ASSUME NEW event, Trigger(event)
      PROVE  \A k \in Jobs : job'[k] = job[k] \/ job'[k].pc \notin Started
  <2>1. PICK j \in Jobs :
          job' = [job EXCEPT ![j] = [NotStarted EXCEPT !.pc = "queued", !.event = event]]
    BY <1>1 DEF Trigger
  <2>2. [NotStarted EXCEPT !.pc = "queued", !.event = event].pc \notin Started
    BY DEF NotStarted, Started
  <2> QED BY <1>0, <2>1, <2>2
<1>2. ASSUME NEW j \in Jobs, NEW label, label # "push", Goto(j, label),
             label \in Started => job[j].pc \in Started
      PROVE  \A k \in Jobs : \/ job'[k] = job[k]
                             \/ job'[k].pc \notin Started
                             \/ /\ job'[k].pc # "push"
                                /\ job'[k].base = head => job'[k].policy = policy
  <2>1. job' = [job EXCEPT ![j] = [job[j] EXCEPT !.pc = label]]
    BY <1>2 DEF Goto
  <2>2. /\ job'[j].pc = label /\ job'[j].base = job[j].base
        /\ job'[j].policy = job[j].policy
    BY <1>0, <2>1 DEF JobsUpTo
  <2> QED BY <1>0, <1>2, <2>1, <2>2 DEF HonourInv, ChecksOut, OnHead
<1>3. \/ UNCHANGED <<status, publishedAt, policy, feed>>
      \/ UNCHANGED <<publishedAt, policy, feed>> /\ \E r \in Releases :
            status' = [status EXCEPT ![r] = "prerelease"]
      => \A r \in Releases : Standing(r)' => Standing(r)
  BY <1>0 DEF Standing
<1>4. ASSUME NEW r \in Releases, Publish(r) PROVE HonourInv'
  <2>1. /\ status' = [status EXCEPT ![r] = "public"]
        /\ publishedAt' = [publishedAt EXCEPT ![r] = now]
        /\ Trigger(r) /\ UNCHANGED <<policy, feed, head>>
    BY <1>4 DEF Publish
  <2>2. \A i \in ToSet(feed) : i.at < now /\ i.at \in Nat
    <3>1. feed \in Seq(Item)
      BY <1>0 DEF TypeOK
    <3>2. \A n \in DOMAIN feed : feed[n] \in Item
      BY <3>1, LenProperties, ElementOfSeq
    <3> QED BY <1>0, <3>2 DEF ItemsInOrder, Before, ToSet, Item
  <2>3. ASSUME NEW q \in Releases, Standing(q)' PROVE Standing(q)
    <3>1. now \in Nat
      BY <1>0 DEF TypeOK
    <3>2. publishedAt'[q] # now
      BY <2>1, <2>2, <2>3, <3>1 DEF Standing
    <3>3. q # r
      BY <1>0, <2>1, <3>2
    <3> QED BY <1>0, <2>1, <2>3, <3>3 DEF Standing
  <2> QED BY <1>0, <1>1, <2>1, <2>3, MainStays
<1>5. ASSUME NEW r \in Releases, Withdraw(r) \/ Reupload(r) \/ Ages(r) PROVE HonourInv'
  <2>1. /\ UNCHANGED <<publishedAt, policy, feed, head, job>>
        /\ status' = status \/ status' = [status EXCEPT ![r] = "prerelease"]
    BY <1>5 DEF Withdraw, Reupload, Ages
  <2> QED BY <1>0, <1>3, <2>1, MainStays
<1>6. ASSUME NEW r \in Releases, ManualUpdate(r) PROVE HonourInv'
  BY <1>0, <1>6, MainMoves DEF ManualUpdate
<1>7. CASE PushPolicy
  BY <1>0, <1>1, <1>7, MainMoves DEF PushPolicy
<1>8. CASE PushOther
  BY <1>0, <1>8, MainMoves DEF PushOther
<1>9. CASE Dispatch
  BY <1>0, <1>1, <1>3, <1>9, MainStays DEF Dispatch
<1>10. ASSUME NEW j \in Jobs, Checkout(j) PROVE HonourInv'
  <2>1. /\ UNCHANGED <<status, publishedAt, policy, feed, head>>
        /\ job'[j].pc # "push" /\ job'[j].policy = policy /\ OthersKeep(j)
    <3> DEFINE y == [job[j] EXCEPT !.pc = IF job[j].event = NoEvent THEN "sync" ELSE "validate",
                                   !.base = head, !.policy = policy, !.items = feed]
    <3>1. job' = [job EXCEPT ![j] = y]
          /\ UNCHANGED <<status, publishedAt, policy, feed, head>>
      BY <1>10 DEF Checkout
    <3>2. y.pc # "push" /\ y.policy = policy
      BY <1>0 DEF JobsUpTo
    <3> HIDE DEF y
    <3> QED BY <1>0, <3>1, <3>2 DEF OthersKeep
  <2> QED BY <1>0, <1>3, <2>1, MainStays DEF OthersKeep
<1>11. ASSUME NEW j \in Jobs,
              Validate(j) \/ ValidateFails(j) \/ SyncFails(j) \/ PushRejected(j)
       PROVE  HonourInv'
  <2>1. /\ (Goto(j, "sync") /\ job[j].pc \in Started) \/ Goto(j, "failed")
        /\ UNCHANGED <<status, publishedAt, policy, feed, head>>
    BY <1>11 DEF Validate, ValidateFails, SyncFails, PushRejected, Fails, Started
  <2> QED BY <1>0, <1>2, <1>3, <2>1, MainStays DEF Started
<1>12. ASSUME NEW j \in Jobs, Sync(j) PROVE HonourInv'
  <2>1. /\ job[j].pc = "sync"
        /\ job' = [job EXCEPT ![j].pc = "push", ![j].items = Rebuilt(job[j].policy)]
        /\ UNCHANGED <<status, publishedAt, aged, policy, feed, head>>
    BY <1>12 DEF Sync
  <2>2. /\ job'[j].base = job[j].base /\ job'[j].policy = job[j].policy
        /\ job'[j].items = Rebuilt(job[j].policy) /\ OthersKeep(j)
    BY <1>0, <2>1 DEF JobsUpTo, OthersKeep
  <2>3. ChecksOut'
    BY <2>1, <2>2 DEF HonourInv, ChecksOut, OnHead, Started, OthersKeep
  <2>4. Offered(job'[j].items) = {VersionOf[r] : r \in Eligible(job[j].policy)}
    BY <1>0, <2>2, VersionsAreOffered
  <2>5. Offered(job'[j].items) \cap job[j].policy.blocked = {}
    BY <2>4 DEF Eligible
  <2>6. ASSUME job[j].base = head, NEW r \in Listed, Standing(r)
        PROVE  VersionOf[r] \in Offered(job'[j].items)
    <3>1. job[j].policy = policy
      BY <2>1, <2>6 DEF HonourInv, ChecksOut, OnHead, Started
    <3>2. r \in Eligible(policy)
      BY <2>6 DEF Eligible, Standing, TooYoung
    <3> QED BY <2>4, <3>1, <3>2
  <2>7. Honours(j)'
    BY <2>1, <2>2, <2>5, <2>6 DEF Honours, Standing
  <2>8. ASSUME NEW k \in Jobs, k # j PROVE Honours(k)'
    BY <2>1, <2>2, <2>8 DEF HonourInv, Honours, Standing, OthersKeep
  <2> QED BY <1>0, <2>3, <2>7, <2>8 DEF HonourInv
<1>13. ASSUME NEW j \in Jobs, Push(j) PROVE HonourInv'
  <2>1. /\ job' = [job EXCEPT ![j] = NotStarted]
        /\ head' = head + 1 \/ (head' = head /\ feed' = feed)
        /\ UNCHANGED <<status, publishedAt, policy>>
    BY <1>13 DEF Push
  <2>2. \A k \in Jobs : job'[k] = job[k] \/ job'[k].pc \notin Started
    BY <1>0, <2>1, NotStartedIs DEF Started
  <2> QED BY <1>0, <1>3, <2>1, <2>2, MainMoves, MainStays
<1>14. ASSUME NEW j \in Jobs, Clear(j) PROVE HonourInv'
  <2>1. /\ job' = [job EXCEPT ![j] = NotStarted]
        /\ UNCHANGED <<status, publishedAt, policy, feed, head>>
    BY <1>14 DEF Clear
  <2>2. \A k \in Jobs : job'[k] = job[k] \/ job'[k].pc \notin Started
    BY <1>0, <2>1, NotStartedIs DEF Started
  <2> QED BY <1>0, <1>3, <2>1, <2>2, MainStays
<1>15. CASE UNCHANGED vars
  BY <1>0, <1>3, <1>15, MainStays DEF vars
<1> QED
  BY <1>4, <1>5, <1>6, <1>7, <1>8, <1>9, <1>10, <1>11, <1>12, <1>13, <1>14, <1>15
  DEF Next, People, Workflow

LEMMA HonourInvariant == Spec => []HonourInv
  BY HonourInit, HonourStep, PTL DEF Spec

(* Nothing but a push takes a run from "push" to "free".                    *)
LEMMA Pushes ==
    ASSUME TypeOK, [Next]_vars, NEW k \in Jobs, job[k].pc = "push", job'[k].pc = "free"
    PROVE  Push(k)
<1>0. job \in [Jobs -> JobsUpTo(head)]
  BY DEF TypeOK, JobsUpTo, PCs, Policies
<1>1. job' # job
  OBVIOUS
<1>2. ASSUME NEW event PROVE ~Trigger(event)
  BY <1>0 DEF Trigger
<1>3. ~People
  BY <1>1, <1>2
  DEF People, Publish, Withdraw, Reupload, Ages, ManualUpdate, PushPolicy, PushOther, Dispatch
<1>4. ASSUME NEW j \in Jobs, NEW label, Goto(j, label), label # "free" PROVE FALSE
  <2>1. job'[j].pc = label /\ OthersKeep(j)
    BY <1>0, <1>4 DEF Goto, JobsUpTo, OthersKeep
  <2> QED BY <1>4, <2>1 DEF OthersKeep
<1>5. ASSUME NEW j \in Jobs PROVE ~Validate(j) /\ ~ValidateFails(j) /\ ~SyncFails(j)
                                  /\ ~PushRejected(j)
  BY <1>4 DEF Validate, ValidateFails, SyncFails, PushRejected, Fails
<1>6. ASSUME NEW j \in Jobs, Checkout(j) \/ Sync(j) PROVE FALSE
  BY <1>0, <1>6 DEF Checkout, Sync
<1>7. ASSUME NEW j \in Jobs, Clear(j) PROVE FALSE
  BY <1>0, <1>7 DEF Clear
<1>8. PICK j \in Jobs : Push(j)
  BY <1>1, <1>3, <1>5, <1>6, <1>7 DEF Next, Workflow, vars
<1> QED BY <1>0, <1>8 DEF Push

(* What a run of the workflow puts on main honours the policy that is on    *)
(* main then, and takes away no item that should stay, though the run read  *)
(* the policy and the releases long before: only a fast forward goes in.    *)
THEOREM PushesHonourMain == Spec => PushHonoursMain
<1>1. ASSUME HonourInv, [Next]_vars, NEW j \in Jobs,
             job[j].pc = "push", job'[j].pc = "free"
      PROVE  /\ Offered(feed') \cap policy.blocked = {}
             /\ \A r \in Eligible(policy) :
                  ItemOf(r) \in ToSet(feed) /\ VersionOf[r] \notin policy.held
                      => VersionOf[r] \in Offered(feed')
  <2>1. Push(j)
    BY <1>1, Pushes DEF HonourInv, OrderInv
  <2>2. job[j].base = head /\ feed' = job[j].items
    BY <2>1 DEF Push, FastForward
  <2>3. job[j].policy = policy /\ Honours(j)
    BY <1>1, <2>2 DEF HonourInv, ChecksOut, OnHead, Started
  <2>4. ASSUME NEW r \in Eligible(policy), ItemOf(r) \in ToSet(feed),
               VersionOf[r] \notin policy.held
        PROVE  r \in Listed /\ Standing(r)
    <3>1. ItemOf(r).version = VersionOf[r] /\ ItemOf(r).at = publishedAt[r]
      BY DEF ItemOf
    <3> QED BY <2>4, <3>1 DEF Eligible, Standing
  <2> QED BY <1>1, <2>2, <2>3, <2>4 DEF Honours
<1>2. HonourInv /\ [Next]_vars =>
        [\A j \in Jobs :
           job[j].pc = "push" /\ job'[j].pc = "free" =>
             /\ Offered(feed') \cap policy.blocked = {}
             /\ \A r \in Eligible(policy) :
                  ItemOf(r) \in ToSet(feed) /\ VersionOf[r] \notin policy.held
                      => VersionOf[r] \in Offered(feed')]_vars
  BY <1>1
<1> QED BY <1>2, HonourInvariant, PTL DEF Spec, PushHonoursMain
-----------------------------------------------------------------------------
(* A quiet feed is current.                                                 *)

(* What a rebuild with the policy on main would do now.                     *)
Current == Rebuilt(policy)
Possible == Succeeds(policy)
SomeOffered == Eligible(policy) # {}

Heals(j) == job[j].pc = "push" /\ j \in heals

(* The run has yet to read the releases, or has read all there is to see    *)
(* unless main has moved, when its push fails and somebody is told.         *)
Pending(j) ==
    \/ job[j].pc \in {"queued", "validate", "sync"}
    \/ Heals(j) /\ (job[j].base = head /\ Possible => job[j].items = Current)

(* As long as the feed has missed nothing, no run that saw less can push.   *)
LateAreRefused ==
    ~missed => \A k \in Jobs : job[k].pc = "push" /\ k \notin heals => job[k].base # head

(* A push of a run that saw all the changes there were leaves the feed      *)
(* current, or another run that will.                                       *)
HealsOrHanded(k) ==
    Heals(k) /\ job[k].base = head =>
        /\ SomeOffered
        /\ \/ ~Possible
           \/ job[k].items = Current
           \/ feed # Current /\ \E j \in Jobs \ {k} : Pending(j)

CurrentOrPending ==
    ~missed /\ Possible => feed = Current \/ \E j \in Jobs : Pending(j)

HealInv ==
    /\ HonourInv
    /\ LateAreRefused
    /\ \A k \in Jobs : HealsOrHanded(k)
    /\ CurrentOrPending

LEMMA HealInit == Init => HealInv
<1> SUFFICES ASSUME Init PROVE HealInv
  OBVIOUS
<1>1. \A j \in Jobs : job[j].pc = "free"
  BY DEF Init, NotStarted
<1>2. ~Possible
  BY DEF Init, Possible, Succeeds, Eligible, Listed
<1> QED
  BY <1>1, <1>2, HonourInit
  DEF HealInv, LateAreRefused, HealsOrHanded, Heals, CurrentOrPending

(* Something changed behind the workflow's back.                            *)
LEMMA HealLost ==
    ASSUME HonourInv', Unannounced
    PROVE  HealInv'
  BY DEF Unannounced, HealInv, LateAreRefused, HealsOrHanded, Heals, CurrentOrPending

(* Nothing changed that a rebuild sees, and each run that is ready to push  *)
(* was before, or has just read what there is.                              *)
LEMMA HealKept ==
    ASSUME HealInv, HonourInv',
           head' = head, feed' = feed, missed' = missed,
           Possible' = Possible, SomeOffered' = SomeOffered, Current' = Current,
           \A k \in Jobs : job'[k].pc = "push" =>
              \/ job'[k] = job[k] /\ (k \in heals' <=> k \in heals)
              \/ k \in heals' /\ (job'[k].base = head =>
                                    SomeOffered /\ job'[k].items = Current),
           \A k \in Jobs : Pending(k) => Pending(k)'
    PROVE  HealInv'
<1>1. LateAreRefused'
  BY DEF HealInv, LateAreRefused
<1>2. CurrentOrPending'
  BY DEF HealInv, CurrentOrPending
<1>3. ASSUME NEW k \in Jobs PROVE HealsOrHanded(k)'
  <2> SUFFICES ASSUME job'[k].pc = "push", k \in heals', job'[k].base = head'
               PROVE  /\ SomeOffered
                      /\ \/ ~Possible
                         \/ job'[k].items = Current
                         \/ feed # Current /\ \E j \in Jobs \ {k} : Pending(j)'
    BY DEF HealsOrHanded, Heals
  <2>1. CASE job'[k] = job[k] /\ k \in heals
    BY <2>1 DEF HealInv, HealsOrHanded, Heals
  <2>2. CASE SomeOffered /\ job'[k].items = Current
    BY <2>2
  <2> QED BY <2>1, <2>2
<1> QED BY <1>1, <1>2, <1>3 DEF HealInv

(* What a rebuild gives depends only on the releases that are offered.      *)
LEMMA SameRebuild ==
    ASSUME policy' = policy, Eligible(policy)' = Eligible(policy),
           \A r \in Eligible(policy) : asset'[r] = asset[r] /\ publishedAt'[r] = publishedAt[r]
    PROVE  Possible' = Possible /\ SomeOffered' = SomeOffered /\ Current' = Current
<1> DEFINE E == Eligible(policy)
<1>1. SomeOffered' = SomeOffered
  BY DEF SomeOffered
<1>2. (\A r \in E : Selectable(r)') <=> (\A r \in E : Selectable(r))
  BY DEF Selectable
<1>3. Possible' = Possible
  BY <1>2 DEF Possible, Succeeds
<1>4. LatestOfVersion(Eligible(policy))' = LatestOfVersion(Eligible(policy))
  BY DEF LatestOfVersion
<1>5. ASSUME NEW r \in E PROVE ItemOf(r)' = ItemOf(r)
  BY <1>5 DEF ItemOf
<1>6. LatestOfVersion(E) \subseteq E
  BY DEF LatestOfVersion
<1>7. {ItemOf(r) : r \in LatestOfVersion(Eligible(policy))}'
        = {ItemOf(r) : r \in LatestOfVersion(Eligible(policy))}
  BY <1>4, <1>5, <1>6
<1>8. Current' = Current
  <2> DEFINE I == {ItemOf(r) : r \in LatestOfVersion(Eligible(policy))}
             Sorted(S) == LET dates == Descending({i.at : i \in S})
                          IN  [k \in DOMAIN dates |-> CHOOSE i \in S : i.at = dates[k]]
  <2>1. Current = Sorted(I) /\ Current' = Sorted(I')
    BY DEF Current, Rebuilt
  <2>2. I' = I
    BY <1>7
  <2> HIDE DEF I, Sorted
  <2> QED BY <2>1, <2>2
<1> QED BY <1>1, <1>3, <1>8

LEMMA Untouched ==
    ASSUME UNCHANGED <<status, publishedAt, asset, aged, policy>>
    PROVE  Possible' = Possible /\ SomeOffered' = SomeOffered /\ Current' = Current
<1>1. Eligible(policy)' = Eligible(policy)
  BY DEF Eligible, TooYoung
<1> QED BY <1>1, SameRebuild

(* A run that was queued is pending, and the others as pending as before.   *)
LEMMA QueuedIsPending ==
    ASSUME TypeOK, NEW event, Trigger(event)
    PROVE  \E j \in Jobs : /\ OthersKeep(j) /\ Pending(j)' /\ ~Pending(j)
                           /\ job[j].pc = "free" /\ job'[j].pc = "queued"
<1>1. PICK j \in Jobs :
        /\ job[j].pc = "free"
        /\ job' = [job EXCEPT ![j] = [NotStarted EXCEPT !.pc = "queued", !.event = event]]
  BY DEF Trigger
<1>2. job \in [Jobs -> JobsUpTo(head)]
  BY DEF TypeOK, JobsUpTo, PCs, Policies
<1>3. [NotStarted EXCEPT !.pc = "queued", !.event = event].pc = "queued"
  BY DEF NotStarted
<1>4. job'[j].pc = "queued" /\ OthersKeep(j)
  BY <1>1, <1>2, <1>3 DEF OthersKeep
<1>5. Pending(j)'
  BY <1>4 DEF Pending
<1>6. ~Pending(j)
  BY <1>1 DEF Pending, Heals
<1> QED BY <1>1, <1>4, <1>5, <1>6

(* A rebuild lists the latest release of each version.                      *)
LatestListed == ToSet(Current) = {ItemOf(q) : q \in LatestOfVersion(Eligible(policy))}

LEMMA LatestAreListed == TypeOK /\ DatesDiffer => LatestListed
  BY RebuiltItems DEF Current, LatestListed

LEMMA HealStep == HealInv /\ [Next]_vars => HealInv'
<1> SUFFICES ASSUME HealInv, [Next]_vars PROVE HealInv'
  OBVIOUS
<1> USE DEF github, main
<1>0. /\ HonourInv /\ OrderInv /\ TypeOK /\ DatesDiffer /\ ItemsInOrder
      /\ HonourInv' /\ OrderInv' /\ TypeOK' /\ DatesDiffer'
      /\ job \in [Jobs -> JobsUpTo(head)] /\ head \in Nat /\ now \in Nat
      /\ status \in [Releases -> {"draft", "public", "prerelease"}]
      /\ publishedAt \in [Releases -> Nat]
      /\ asset \in [Releases -> [installer : Nat, sidecar : Nat]]
  BY HonourStep DEF HealInv, HonourInv, OrderInv, TypeOK, JobsUpTo, PCs, Policies
<1>b. \A k \in Jobs : job[k].base \in 0 .. head
  BY <1>0 DEF JobsUpTo
<1>1. ASSUME NEW r \in Releases, Publish(r) PROVE HealInv'
  <2>1. /\ status[r] = "draft" /\ status' = [status EXCEPT ![r] = "public"]
        /\ publishedAt' = [publishedAt EXCEPT ![r] = now]
        /\ Trigger(r) /\ now' = now + 1
        /\ UNCHANGED <<aged, policy, feed, head, missed, heals>>
        /\ \A q \in Releases \ {r} : asset'[q] = asset[q]
    BY <1>0, <1>1 DEF Publish
  <2>2. PICK j \in Jobs : /\ OthersKeep(j) /\ Pending(j)' /\ job[j].pc = "free"
                          /\ job'[j].pc = "queued"
    BY <1>0, <2>1, QueuedIsPending
  <2>3. LateAreRefused'
    BY <2>1, <2>2 DEF HealInv, LateAreRefused, OthersKeep
  <2>4. CurrentOrPending'
    BY <2>2 DEF CurrentOrPending
  <2>5. /\ r \notin Eligible(policy)
        /\ Eligible(policy)' \in {Eligible(policy), Eligible(policy) \cup {r}}
    BY <1>0, <2>1 DEF Eligible, TooYoung, Listed
  <2>6. \A q \in Eligible(policy) : asset'[q] = asset[q] /\ publishedAt'[q] = publishedAt[q]
    BY <1>0, <2>1, <2>5 DEF Eligible, Listed
  <2>7. SomeOffered => SomeOffered'
    BY <2>5 DEF SomeOffered
  <2>8. \/ Possible' = Possible /\ Current' = Current
        \/ feed # Current'
    <3>1. CASE Eligible(policy)' = Eligible(policy)
      BY <2>1, <2>6, <3>1, SameRebuild
    <3>2. CASE r \in Eligible(policy)'
      <4>1. publishedAt'[r] = now /\ \A q \in Releases \ {r} : publishedAt[q] = publishedAt'[q]
        BY <1>0, <2>1
      <4>2. \A q \in Eligible(policy)' \ {r} : publishedAt'[q] < now /\ publishedAt'[q] \in Nat
        <5>1. \A q \in Eligible(policy) : publishedAt[q] < now /\ publishedAt[q] \in Nat
          BY <1>0, EligibleArePublished
        <5> QED BY <2>5, <2>6, <5>1
      <4>3. r \in LatestOfVersion(Eligible(policy))'
        BY <1>0, <3>2, <4>1, <4>2 DEF LatestOfVersion
      <4>4. ToSet(Current)' = {ItemOf(q) : q \in LatestOfVersion(Eligible(policy))}'
        <5>1. LatestListed'
          BY <1>0, LatestAreListed, PTL
        <5> QED BY <5>1 DEF LatestListed
      <4>5. ItemOf(r)' \in ToSet(Current)' /\ ItemOf(r)'.at = now
        BY <4>1, <4>3, <4>4 DEF ItemOf
      <4>6. ItemOf(r)' \notin ToSet(feed)
        BY <1>0, <4>5 DEF ItemsInOrder, Before, ToSet
      <4> QED BY <4>5, <4>6 DEF ToSet
    <3> QED BY <2>5, <3>1, <3>2
  <2>9. ASSUME NEW k \in Jobs PROVE HealsOrHanded(k)'
    <3> SUFFICES ASSUME Heals(k)', job'[k].base = head'
                 PROVE  /\ SomeOffered'
                        /\ \/ ~Possible'
                           \/ job'[k].items = Current'
                           \/ feed' # Current' /\ \E i \in Jobs \ {k} : Pending(i)'
      BY DEF HealsOrHanded
    <3>1. k # j /\ job'[k] = job[k] /\ Heals(k) /\ job[k].base = head
      BY <2>1, <2>2 DEF Heals, OthersKeep
    <3>2. /\ SomeOffered
          /\ ~Possible \/ job[k].items = Current \/ feed # Current
      BY <3>1 DEF HealInv, HealsOrHanded
    <3>3. \E i \in Jobs \ {k} : Pending(i)'
      BY <2>2, <3>1
    <3> QED BY <2>1, <2>7, <2>8, <3>1, <3>2, <3>3
  <2> QED BY <1>0, <2>3, <2>4, <2>9 DEF HealInv
<1>2. ASSUME Unannounced PROVE HealInv'
  BY <1>0, <1>2, HealLost
<1>3. ASSUME UNCHANGED <<feed, head, missed, heals>>,
             Possible' = Possible, SomeOffered' = SomeOffered, Current' = Current,
             \A k \in Jobs : \/ job'[k] = job[k]
                             \/ job'[k].pc # "push" /\ (Pending(k) => Pending(k)')
      PROVE  HealInv'
  <2>1. ASSUME NEW k \in Jobs, Pending(k) PROVE Pending(k)'
    BY <1>3, <2>1 DEF Pending, Heals
  <2> QED BY <1>0, <1>3, <2>1, HealKept
<1>4. ASSUME NEW r \in Releases, Withdraw(r) \/ Reupload(r) \/ ManualUpdate(r)
      PROVE  HealInv'
  BY <1>2, <1>4 DEF Withdraw, Reupload, ManualUpdate
<1>5. ASSUME NEW r \in Releases, Ages(r) PROVE HealInv'
  <2>1. CASE VersionOf[r] \in policy.held
    BY <1>2, <1>5, <2>1 DEF Ages
  <2>2. CASE VersionOf[r] \notin policy.held
    <3>1. /\ aged' = aged \cup {r}
          /\ UNCHANGED <<status, publishedAt, asset, policy, feed, head, job, missed, heals>>
      BY <1>5, <2>2 DEF Ages
    <3>2. Eligible(policy)' = Eligible(policy)
      BY <2>2, <3>1 DEF Eligible, TooYoung
    <3> QED BY <1>3, <3>1, <3>2, SameRebuild
  <2> QED BY <2>1, <2>2
<1>6. CASE PushPolicy
  <2>1. Trigger(NoEvent) /\ head' = head + 1 /\ UNCHANGED <<missed, heals>>
    BY <1>6 DEF PushPolicy
  <2>2. PICK j \in Jobs : OthersKeep(j) /\ Pending(j)' /\ job'[j].pc = "queued"
    BY <1>0, <2>1, QueuedIsPending
  <2>3. \A k \in Jobs : job'[k].pc = "push" => job'[k].base # head'
    BY <1>0, <1>b, <2>1, <2>2 DEF OthersKeep
  <2> QED
    BY <1>0, <2>2, <2>3
    DEF HealInv, LateAreRefused, HealsOrHanded, Heals, CurrentOrPending
<1>7. CASE PushOther
  <2>1. /\ head' = head + 1
        /\ UNCHANGED <<status, publishedAt, asset, aged, policy, feed, job, missed, heals>>
    BY <1>7 DEF PushOther
  <2>2. Possible' = Possible /\ Current' = Current
    BY <2>1, Untouched
  <2>3. \A k \in Jobs : job'[k].base # head'
    BY <1>0, <1>b, <2>1
  <2>4. \A k \in Jobs : Pending(k) => Pending(k)'
    BY <2>1, <2>3 DEF Pending, Heals
  <2>5. CurrentOrPending'
    BY <2>1, <2>2, <2>4 DEF HealInv, CurrentOrPending
  <2> QED BY <1>0, <2>3, <2>5 DEF HealInv, LateAreRefused, HealsOrHanded
<1>8. CASE Dispatch
  <2>1. /\ Trigger(NoEvent)
        /\ UNCHANGED <<status, publishedAt, asset, aged, policy, feed, head, missed, heals>>
    BY <1>8 DEF Dispatch
  <2>2. PICK j \in Jobs : OthersKeep(j) /\ Pending(j)' /\ job'[j].pc = "queued"
    BY <1>0, <2>1, QueuedIsPending
  <2> QED BY <1>3, <2>1, <2>2, Untouched DEF OthersKeep
<1>9. ASSUME NEW j \in Jobs, Checkout(j) \/ Validate(j) \/ Clear(j) PROVE HealInv'
  <2>1. /\ UNCHANGED <<status, publishedAt, asset, aged, policy, feed, head, missed, heals>>
        /\ OthersKeep(j)
        /\ \/ job'[j].pc \in {"validate", "sync"}
           \/ job[j].pc = "failed" /\ job'[j].pc = "free"
    BY <1>0, <1>9 DEF Checkout, Validate, Clear, Goto, NotStarted, OthersKeep, JobsUpTo
  <2>2. job'[j].pc # "push" /\ (Pending(j) => Pending(j)')
    BY <2>1 DEF Pending, Heals
  <2> QED BY <1>3, <2>1, <2>2, Untouched DEF OthersKeep
<1>10. ASSUME NEW j \in Jobs, ValidateFails(j) \/ SyncFails(j) \/ PushRejected(j)
       PROVE  HealInv'
  BY <1>2, <1>10 DEF ValidateFails, SyncFails, PushRejected, Fails
<1>11. ASSUME NEW j \in Jobs, Sync(j) PROVE HealInv'
  <2>1. /\ job[j].pc = "sync" /\ Succeeds(job[j].policy)
        /\ job' = [job EXCEPT ![j].pc = "push", ![j].items = Rebuilt(job[j].policy)]
        /\ heals' = heals \cup {j}
        /\ UNCHANGED <<status, publishedAt, asset, aged, policy, feed, head, missed>>
    BY <1>11 DEF Sync
  <2>2. /\ job'[j].pc = "push" /\ job'[j].base = job[j].base
        /\ job'[j].items = Rebuilt(job[j].policy) /\ OthersKeep(j)
    BY <1>0, <2>1 DEF JobsUpTo, OthersKeep
  <2>3. job[j].base = head => SomeOffered /\ job'[j].items = Current
    <3>1. job[j].base = head => job[j].policy = policy
      BY <1>0, <2>1 DEF HonourInv, ChecksOut, OnHead, Started
    <3> QED BY <2>1, <2>2, <3>1 DEF SomeOffered, Current, Succeeds
  <2>4. Possible' = Possible /\ SomeOffered' = SomeOffered /\ Current' = Current
    BY <2>1, Untouched
  <2>5. Pending(j)'
    BY <2>1, <2>2, <2>3, <2>4 DEF Pending, Heals
  <2>6. ASSUME NEW k \in Jobs, k # j
        PROVE  job'[k] = job[k] /\ (k \in heals' <=> k \in heals) /\ (Pending(k) => Pending(k)')
    BY <2>1, <2>2, <2>4, <2>6 DEF OthersKeep, Pending, Heals
  <2> QED BY <1>0, <2>1, <2>2, <2>3, <2>4, <2>5, <2>6, HealKept
<1>12. ASSUME NEW j \in Jobs, Push(j) PROVE HealInv'
  <2>1. /\ job[j].pc = "push" /\ job[j].base = head /\ feed' = job[j].items
        /\ head' = head + 1 \/ (head' = head /\ feed' = feed)
        /\ feed' # feed => head' = head + 1
        /\ job' = [job EXCEPT ![j] = NotStarted]
        /\ heals' = heals \ {j}
        /\ UNCHANGED <<status, publishedAt, asset, aged, policy>>
    BY <1>12 DEF Push, FastForward
  <2>2. ~missed' => ~missed \/ MakesUp(j)
    BY <1>12 DEF Push
  <2>3. job'[j].pc = "free" /\ OthersKeep(j)
    BY <1>0, <2>1, NotStartedIs DEF OthersKeep
  <2>4. Possible' = Possible /\ SomeOffered' = SomeOffered /\ Current' = Current
    BY <2>1, Untouched
  <2>5. \A k \in Jobs \ {j} : Pending(k) => Pending(k)'
    BY <1>0, <1>b, <2>1, <2>3, <2>4 DEF Pending, Heals, OthersKeep
  <2>6. LateAreRefused'
    <3> SUFFICES ASSUME ~missed', NEW k \in Jobs, job'[k].pc = "push", k \notin heals'
                 PROVE  job'[k].base # head'
      BY DEF LateAreRefused
    <3>1. k # j /\ job'[k] = job[k] /\ k \notin heals
      BY <2>1, <2>3 DEF OthersKeep
    <3>2. CASE head' = head + 1
      BY <1>0, <1>b, <3>1, <3>2
    <3>3. CASE head' = head /\ feed' = feed
      BY <2>1, <2>2, <3>1, <3>3 DEF HealInv, LateAreRefused, MakesUp
    <3> QED BY <2>1, <3>2, <3>3
  <2>7. ASSUME NEW k \in Jobs PROVE HealsOrHanded(k)'
    <3> SUFFICES ASSUME Heals(k)', job'[k].base = head'
                 PROVE  /\ SomeOffered
                        /\ \/ ~Possible
                           \/ job'[k].items = Current
                           \/ feed' # Current /\ \E i \in Jobs \ {k} : Pending(i)'
      BY <2>4 DEF HealsOrHanded
    <3>1. k # j /\ job'[k] = job[k] /\ Heals(k)
      BY <2>1, <2>3 DEF Heals, OthersKeep
    <3>2. head' = head /\ feed' = feed /\ feed = job[j].items
      BY <1>0, <1>b, <2>1, <3>1
    <3>3. /\ SomeOffered
          /\ \/ ~Possible
             \/ job[k].items = Current
             \/ feed # Current /\ \E i \in Jobs \ {k} : Pending(i)
      BY <3>1, <3>2 DEF HealInv, HealsOrHanded
    <3>4. Possible /\ feed # Current => ~Pending(j)
      BY <2>1, <3>2 DEF Pending
    <3> QED BY <2>5, <3>1, <3>2, <3>3, <3>4
  <2>8. CurrentOrPending'
    <3> SUFFICES ASSUME ~missed', Possible
                 PROVE  feed' = Current \/ \E i \in Jobs : Pending(i)'
      BY <2>4 DEF CurrentOrPending
    <3>1. j \in heals
      BY <2>1, <2>2 DEF HealInv, LateAreRefused, MakesUp
    <3>2. job[j].items = Current \/ \E i \in Jobs \ {j} : Pending(i)
      BY <2>1, <3>1 DEF HealInv, HealsOrHanded, Heals
    <3> QED BY <2>1, <2>5, <3>2
  <2> QED BY <1>0, <2>6, <2>7, <2>8 DEF HealInv
<1>13. CASE UNCHANGED vars
  BY <1>3, <1>13, Untouched DEF vars
<1> QED
  BY <1>1, <1>4, <1>5, <1>6, <1>7, <1>8, <1>9, <1>10, <1>11, <1>12, <1>13
  DEF Next, People, Workflow

LEMMA HealInvariant == Spec => []HealInv
  BY HealInit, HealStep, PTL DEF Spec

(* When no run is under way and the feed has missed nothing, it is what a   *)
(* rebuild would give, however many runs overlapped and in whatever order   *)
(* they pushed.                                                             *)
THEOREM QuietFeedCurrent == Spec => []QuietFeedIsCurrent
<1>1. HealInv => QuietFeedIsCurrent
  BY DEF HealInv, CurrentOrPending, Pending, Heals, Possible, Current, QuietFeedIsCurrent
<1> QED BY <1>1, HealInvariant, PTL
=============================================================================
