------------------------- MODULE VolumeStatsProofs --------------------------
(***************************************************************************)
(* Proofs about VolumeStats, for any number of targets, volumes and calls. *)
(***************************************************************************)
EXTENDS VolumeStats, FiniteSetTheorems, TLAPS

(* A set of natural numbers that is not empty has a least element. What    *)
(* follows uses it instead of an induction.                                *)
LEMMA LeastNumber ==
  ASSUME NEW T \in SUBSET Nat, T # {}
  PROVE  \E n \in T : \A m \in T : n <= m
<1>1. PICK n \in T : \A m \in T : ~(<<m, n>> \in OpToRel(<, Nat))
  BY NatLessThanWellFounded, WFMin, Zenon
<1>2. \A m \in T : ~(m < n)
  BY <1>1 DEF OpToRel
<1>. QED
  BY <1>2
-----------------------------------------------------------------------------
(* The sum over a set of mounts (Pending, MapThenSumSet).                  *)

Picked(s) == CHOOSE x \in s : TRUE
SumStep(g, f, s) == IF s = {} THEN 0 ELSE f[Picked(s)].pending + g[s \ {Picked(s)}]
IsSum(g, f, D) == g = [s \in D |-> SumStep(g, f, s)]
Counts(f, S) == \A t \in S : f[t].pending \in Nat
Peels(g, f, s) == g[s] \in Nat /\ \A t \in s : g[s] = f[t].pending + g[s \ {t}]

LEMMA SumIsFold ==
  ASSUME NEW f
  PROVE  Pending(f) = (CHOOSE g : IsSum(g, f, SUBSET DOMAIN f))[DOMAIN f]
  BY DEF Pending, MapThenSumSet, MapThenFoldSet, IsSum, SumStep, Picked

LEMMA SmallerSubset ==
  ASSUME NEW S, IsFiniteSet(S), NEW s \in SUBSET S, s # {}
  PROVE  /\ Picked(s) \in s /\ s \ {Picked(s)} \in SUBSET S
         /\ Cardinality(s) \in Nat /\ Cardinality(s) > 0
         /\ Cardinality(s \ {Picked(s)}) = Cardinality(s) - 1
<1>1. IsFiniteSet(s) /\ Picked(s) \in s
  BY FS_Subset DEF Picked
<1>2. Cardinality(s) \in Nat /\ Cardinality(s) # 0
  BY <1>1, FS_CardinalityType, FS_EmptySet
<1>3. Cardinality(s \ {Picked(s)}) = Cardinality(s) - 1
  BY <1>1, FS_RemoveElement
<1>. QED
  BY <1>1, <1>2, <1>3

(* The fold is well defined on a finite set.                               *)
LEMMA SumExists ==
  ASSUME NEW f, NEW S, IsFiniteSet(S)
  PROVE  \E g : IsSum(g, f, SUBSET S)
<1> DEFINE Upto(n) == {s \in SUBSET S : Cardinality(s) <= n}
           Bad == {n \in Nat : ~\E g : IsSum(g, f, Upto(n))}
<1>0. \A s \in SUBSET S : Cardinality(s) \in Nat /\ (Cardinality(s) = 0 <=> s = {})
  BY FS_Subset, FS_CardinalityType, FS_EmptySet
<1>1. ASSUME Bad # {} PROVE FALSE
  <2>1. PICK n \in Bad : \A m \in Bad : n <= m
    BY <1>1, LeastNumber
  <2>2. CASE n = 0
    <3>1. \A s \in Upto(n) : s = {}
      BY <1>0, <2>2
    <3>2. IsSum([s \in Upto(n) |-> 0], f, Upto(n))
      BY <3>1 DEF IsSum, SumStep
    <3>. QED
      BY <3>2, <2>1
  <2>3. CASE n # 0
    <3>0. n - 1 \in Nat /\ ~(n <= n - 1)
      BY <2>3
    <3>1. n - 1 \in Nat /\ n - 1 \notin Bad
      <4> HIDE DEF Bad
      <4>. QED
        BY <2>1, <3>0
    <3>2. PICK g : IsSum(g, f, Upto(n - 1))
      BY <3>1
    <3> DEFINE h == [s \in Upto(n) |-> IF s \in Upto(n - 1) THEN g[s]
                                       ELSE f[Picked(s)].pending + g[s \ {Picked(s)}]]
    <3>3. ASSUME NEW s \in Upto(n) PROVE h[s] = SumStep(h, f, s)
      <4>1. CASE s = {}
        <5>1. s \in Upto(n - 1)
          BY <1>0, <3>1, <4>1
        <5>. QED
          BY <3>2, <4>1, <5>1 DEF IsSum, SumStep
      <4>2. CASE s # {}
        <5> DEFINE u == s \ {Picked(s)}
        <5>1. u \in Upto(n - 1) /\ u \in Upto(n)
          BY <3>1, <4>2, SmallerSubset
        <5>2. h[u] = g[u]
          BY <5>1
        <5>3. SumStep(h, f, s) = f[Picked(s)].pending + g[u] /\ SumStep(g, f, s) = f[Picked(s)].pending + g[u]
          BY <4>2, <5>2 DEF SumStep
        <5>4. s \in Upto(n - 1) => g[s] = SumStep(g, f, s)
          BY <3>2 DEF IsSum
        <5>. QED
          BY <5>3, <5>4
      <4>. QED
        BY <4>1, <4>2
    <3>4. IsSum(h, f, Upto(n))
      BY <3>3 DEF IsSum
    <3>. QED
      BY <3>4, <2>1
  <2>. QED
    BY <2>2, <2>3
<1>2. Cardinality(S) \in Nat /\ Upto(Cardinality(S)) = SUBSET S
  BY FS_Subset, FS_CardinalityType
<1>. QED
  BY <1>1, <1>2

(* A sum does not depend on the order: any mount may be taken off first.   *)
LEMMA SumRemove ==
  ASSUME NEW f, NEW S, IsFiniteSet(S), Counts(f, S), NEW g, IsSum(g, f, SUBSET S)
  PROVE  \A s \in SUBSET S : Peels(g, f, s)
<1> DEFINE Good(s) == g[s] \in Nat /\ \A t \in s : g[s] = f[t].pending + g[s \ {t}]
           Bad == {n \in Nat : \E s \in SUBSET S : Cardinality(s) = n /\ ~Good(s)}
<1>1. ASSUME Bad # {} PROVE FALSE
  <2>1. PICK n \in Bad : \A m \in Bad : n <= m
    BY <1>1, LeastNumber
  <2>2. PICK s \in SUBSET S : Cardinality(s) = n /\ ~Good(s)
    BY <2>1
  <2>3. ASSUME NEW u \in SUBSET S, Cardinality(u) \in Nat, Cardinality(u) < n PROVE Good(u)
    <3>1. ~Good(u) => Cardinality(u) \in Bad
      BY <2>3
    <3>2. ~(n <= Cardinality(u))
      BY <2>3
    <3> HIDE DEF Good, Bad
    <3>. QED
      BY <2>1, <3>1, <3>2
  <2>4. g[s] = SumStep(g, f, s)
    BY DEF IsSum
  <2>5. CASE s = {}
    BY <2>2, <2>4, <2>5 DEF SumStep
  <2>6. CASE s # {}
    <3> DEFINE p == Picked(s)
    <3>1. IsFiniteSet(s) /\ p \in s
      BY <2>6, FS_Subset DEF Picked
    <3>2. ASSUME NEW t \in s
          PROVE  s \ {t} \in SUBSET S /\ Good(s \ {t}) /\ Cardinality(s \ {t}) = n - 1
      <4>1. Cardinality(s \ {t}) = n - 1 /\ n \in Nat /\ n # 0
        BY <2>2, <3>1, FS_RemoveElement, FS_CardinalityType, FS_EmptySet
      <4>2. s \ {t} \in SUBSET S
        OBVIOUS
      <4> HIDE DEF Good
      <4>. QED
        BY <4>1, <4>2, <2>3
    <3>3. g[s] = f[p].pending + g[s \ {p}]
      BY <2>4, <2>6 DEF SumStep
    <3>4. f[p].pending \in Nat /\ g[s \ {p}] \in Nat
      BY <3>1, <3>2 DEF Counts
    <3>5. ASSUME NEW t \in s PROVE g[s] = f[t].pending + g[s \ {t}]
      <4>1. CASE t = p
        BY <3>3, <4>1
      <4>2. CASE t # p
        <5> DEFINE v == (s \ {p}) \ {t}
        <5>1. v = (s \ {t}) \ {p}
          OBVIOUS
        <5>2. g[s \ {p}] = f[t].pending + g[v]
          BY <3>1, <3>2, <4>2
        <5>3. g[s \ {t}] = f[p].pending + g[v]
          <6>1. p \in s \ {t}
            BY <3>1, <4>2
          <6>2. g[s \ {t}] = f[p].pending + g[(s \ {t}) \ {p}]
            BY <3>2, <6>1
          <6>. QED
            BY <5>1, <6>2, Zenon
        <5>4. g[v] \in Nat
          <6>1. Cardinality(v) = n - 2 /\ n - 2 \in Nat /\ v \in SUBSET S
            <7>1. IsFiniteSet(s \ {p}) /\ t \in s \ {p} /\ Cardinality(s \ {p}) = n - 1
              BY <3>1, <3>2, <4>2, FS_RemoveElement
            <7> DEFINE w == s \ {p}
            <7>2. IsFiniteSet(w \ {t}) /\ Cardinality(w \ {t}) = Cardinality(w) - 1
              <8> HIDE DEF w
              <8>. QED
                BY <7>1, FS_RemoveElement DEF w
            <7>3. Cardinality(v) \in Nat /\ Cardinality(v) = n - 1 - 1 /\ n \in Nat
              BY <7>1, <7>2, FS_CardinalityType
            <7>4. v \in SUBSET S
              OBVIOUS
            <7> HIDE DEF v
            <7>. QED
              BY <7>3, <7>4
          <6>2. Cardinality(v) \in Nat /\ Cardinality(v) < n
            <7> HIDE DEF v
            <7>. QED
              BY <6>1
          <6>. QED
            BY <6>1, <6>2, <2>3
        <5>5. f[t].pending \in Nat
          BY DEF Counts
        <5> HIDE DEF v, p
        <5>. QED
          BY <3>3, <3>4, <5>2, <5>3, <5>4, <5>5
      <4>. QED
        BY <4>1, <4>2
    <3>6. g[s] \in Nat
      BY <3>3, <3>4
    <3>7. Good(s)
      BY <3>5, <3>6, Zenon
    <3>. QED
      BY <2>2, <3>7, Zenon
  <2>. QED
    BY <2>5, <2>6
<1>. QED
  BY <1>1, FS_Subset, FS_CardinalityType DEF Peels

(* A sum over a set depends on the statistics of its mounts only.          *)
LEMMA SumAgrees ==
  ASSUME NEW f, NEW k, NEW R, IsFiniteSet(R), NEW S \in SUBSET R,
         \A t \in S : f[t].pending = k[t].pending,
         NEW g, IsSum(g, f, SUBSET S), NEW h, IsSum(h, k, SUBSET R)
  PROVE  \A s \in SUBSET S : g[s] = h[s]
<1> DEFINE Bad == {n \in Nat : \E s \in SUBSET S : Cardinality(s) = n /\ g[s] # h[s]}
<1>1. ASSUME Bad # {} PROVE FALSE
  <2>1. PICK n \in Bad : \A m \in Bad : n <= m
    BY <1>1, LeastNumber
  <2>2. PICK s \in SUBSET S : Cardinality(s) = n /\ g[s] # h[s]
    BY <2>1
  <2>3. g[s] = SumStep(g, f, s) /\ h[s] = SumStep(h, k, s)
    BY DEF IsSum
  <2>4. CASE s = {}
    BY <2>2, <2>3, <2>4 DEF SumStep
  <2>5. CASE s # {}
    <3> DEFINE u == s \ {Picked(s)}
    <3>0. IsFiniteSet(S)
      BY FS_Subset
    <3>1. Picked(s) \in s /\ u \in SUBSET S /\ Cardinality(u) = n - 1 /\ n - 1 \in Nat
      BY <3>0, <2>2, <2>5, SmallerSubset
    <3>2. g[u] = h[u]
      <4>1. g[u] # h[u] => n - 1 \in Bad
        BY <3>1
      <4>2. ~(n <= n - 1)
        OBVIOUS
      <4> HIDE DEF Bad
      <4>. QED
        BY <2>1, <4>1, <4>2
    <3>. QED
      BY <2>2, <2>3, <2>5, <3>1, <3>2 DEF SumStep
  <2>. QED
    BY <2>4, <2>5
<1>. QED
  BY <1>1, FS_Subset, FS_CardinalityType

OneMore(f, ts, t, s) == [x \in ts \cup {t} |-> IF x = t THEN s ELSE f[x]]

(* One more mount adds its statistics to the sum.                          *)
LEMMA SumOfOneMore ==
  ASSUME NEW ts, IsFiniteSet(ts), NEW f \in [ts -> Stats \cup {Stat0}],
         NEW t, t \notin ts, NEW s \in Stats \cup {Stat0}
  PROVE  Pending(OneMore(f, ts, t, s)) = Pending(f) + s.pending
<1> DEFINE k == [x \in ts \cup {t} |-> IF x = t THEN s ELSE f[x]]
           R == ts \cup {t}
           g == CHOOSE g : IsSum(g, f, SUBSET ts)
           h == CHOOSE h : IsSum(h, k, SUBSET R)
<1>1. IsFiniteSet(R)
  BY FS_AddElement
<1>2. IsSum(g, f, SUBSET ts)
  BY SumExists
<1>3. IsSum(h, k, SUBSET R)
  BY <1>1, SumExists
<1>4. DOMAIN f = ts /\ DOMAIN k = R
  OBVIOUS
<1>5. Pending(f) = g[ts] /\ Pending(k) = h[R]
  <2>1. Pending(f) = g[ts]
    BY <1>4, SumIsFold
  <2> HIDE DEF k
  <2>2. Pending(k) = h[R]
    BY <1>4, SumIsFold
  <2>. QED
    BY <2>1, <2>2
<1>6. Counts(k, R)
  BY PathsAssumption DEF Stat0, Counts
<1>11. k[t].pending = s.pending /\ s.pending \in Nat
  BY PathsAssumption DEF Stat0
<1>12. \A x \in ts : f[x].pending = k[x].pending
  OBVIOUS
<1>7. R \ {t} = ts /\ t \in R /\ ts \in SUBSET R
  OBVIOUS
<1> HIDE DEF k, g, h, R
<1>8. h[R] = k[t].pending + h[R \ {t}] /\ h[R \ {t}] \in Nat
  <2>1. Peels(h, k, R) /\ Peels(h, k, R \ {t})
    BY <1>1, <1>3, <1>6, SumRemove
  <2>. QED
    BY <2>1, <1>7 DEF Peels
<1>9. g[ts] = h[ts]
  <2>1. \A x \in SUBSET ts : g[x] = h[x]
    BY <1>1, <1>2, <1>3, <1>7, <1>12, SumAgrees
  <2>. QED
    BY <2>1
<1>10. Pending(k) = Pending(f) + s.pending
  BY <1>5, <1>7, <1>8, <1>9, <1>11
<1>. QED
  BY <1>10 DEF k, OneMore

LEMMA SumOfNone ==
  ASSUME NEW f, DOMAIN f = {}
  PROVE  Pending(f) = 0
<1> DEFINE g == CHOOSE g : IsSum(g, f, SUBSET {})
<1>1. IsSum(g, f, SUBSET {})
  BY SumExists, FS_EmptySet
<1>2. Pending(f) = g[{}]
  BY SumIsFold
<1> HIDE DEF g
<1>. QED
  BY <1>1, <1>2 DEF IsSum, SumStep
-----------------------------------------------------------------------------
(* The labels of a target path.                                            *)

LEMMA MinOfSet ==
  ASSUME NEW T \in SUBSET Nat, T # {}
  PROVE  Min(T) \in T /\ \A m \in T : Min(T) <= m
  BY LeastNumber DEF Min

LEMMA AfterType ==
  ASSUME NEW path \in Seq(STRING), NEW name
  PROVE  After(path, name) \in SUBSET Range(path)
<1> DEFINE at == {k \in DOMAIN path : path[k] = name /\ k < Len(path)}
<1>1. CASE at = {}
  BY <1>1 DEF After
<1>2. CASE at # {}
  <2>1. at \in SUBSET Nat
    OBVIOUS
  <2>2. Min(at) \in at
    BY <1>2, <2>1, MinOfSet
  <2>3. Min(at) + 1 \in DOMAIN path
    BY <2>2
  <2>. QED
    BY <1>2, <2>3 DEF After, Range
<1>. QED
  BY <1>1, <1>2

LEMMA LabelType ==
  ASSUME NEW t \in Targets
  PROVE  extractVolumeID(t) \in Labels /\ extractPodID(t) \in Labels
<1>1. Path[t] \in Seq(STRING) /\ Path[t] # <<>>
  BY PathsAssumption
<1>2. Len(Path[t]) \in DOMAIN Path[t]
  BY <1>1
<1>3. Path[t][Len(Path[t])] \in Range(Path[t])
  BY <1>2 DEF Range
<1>4. /\ After(Path[t], "kubernetes.io~csi") \in SUBSET Range(Path[t])
      /\ After(Path[t], "pods") \in SUBSET Range(Path[t])
  BY <1>1, AfterType
<1>5. \A v : v # {} => (CHOOSE p \in v : TRUE) \in v
  OBVIOUS
<1>6. extractVolumeID(t) \in Range(Path[t])
  BY <1>3, <1>4, <1>5, Zenon DEF extractVolumeID
<1>7. extractPodID(t) \in Range(Path[t]) \cup {"unknown"}
  BY <1>4, <1>5, Zenon DEF extractPodID
<1>. QED
  BY <1>6, <1>7 DEF Labels
-----------------------------------------------------------------------------
(* A scrape, as a record: what holds of it in every step, given the kernel *)
(* and the statistics.                                                     *)

Scraped(p, m, l, v, h, sn, st) ==
    [pc |-> p, mounts |-> m, left |-> l, volumes |-> v, health |-> h,
     seen |-> sn, states |-> st]

Samples == [volume : Labels, pod : Labels, target : Targets, value : BOOLEAN]

IsScrape(r) ==
    /\ r = Scraped(r.pc, r.mounts, r.left, r.volumes, r.health, r.seen, r.states)
    /\ r.pc \in {"idle", "stats", "health"}
    /\ r.left \subseteq r.mounts /\ r.mounts \subseteq Targets
    /\ DOMAIN r.volumes \subseteq Labels
    /\ \A l \in DOMAIN r.volumes : r.volumes[l] \in Series
    /\ r.health \subseteq Samples
    /\ r.seen \in [Targets -> SUBSET (Stats \cup {Stat0})]
    /\ r.states \in [Targets -> SUBSET States]

Added(sn, vm, ts) ==
    \E f \in [ts -> Stats \cup {Stat0}] :
        /\ \A t \in ts : f[t] \in sn[t]
        /\ vm.pending = Pending(f)
        /\ vm.full <=> \E t \in ts : f[t].full

Of(S, l) == {t \in S : extractVolumeID(t) = l}

(* The series add up the mounts of S, each under its label.                *)
Covers(vs, sn, S) ==
    /\ \A l : l \in DOMAIN vs <=> \E t \in S : extractVolumeID(t) = l
    /\ \A l \in DOMAIN vs : Added(sn, vs[l], Of(S, l))

(* The samples tell of the mounts of S what one of their states was.       *)
Tells(hs, st, S) ==
    /\ \A t : t \in S <=> \E h \in hs : h.target = t
    /\ \A h \in hs : \E s \in st[h.target] : h.value <=> s \in Readable

(* In the first pass the statistics of a mount still to come are among     *)
(* those seen of it, in the second its state is.                           *)
FirstPass(r, st) ==
    /\ Covers(r.volumes, r.seen, r.mounts \ r.left)
    /\ \A t \in r.left : st[t] \in r.seen[t]
    /\ r.health = {}

SecondPass(r, k) ==
    /\ Covers(r.volumes, r.seen, r.mounts)
    /\ \A t \in r.left : k[t] \in r.states[t]
    /\ Tells(r.health, r.states, r.mounts \ r.left)

ScrapeOK(r, k, st) ==
    /\ IsScrape(r)
    /\ r.pc = "stats" => FirstPass(r, st)
    /\ r.pc = "health" => SecondPass(r, k)

LEMMA ScrapedFields ==
  ASSUME NEW p, NEW m, NEW l, NEW v, NEW h, NEW sn, NEW st, NEW r,
         r = Scraped(p, m, l, v, h, sn, st)
  PROVE  /\ r.pc = p /\ r.mounts = m /\ r.left = l /\ r.volumes = v /\ r.health = h
         /\ r.seen = sn /\ r.states = st
  BY DEF Scraped

LEMMA Aggregated ==
  ASSUME NEW vm \in Series, NEW s, s.pending \in Nat, s.full \in BOOLEAN
  PROVE  LET new == aggregateVFSStats(s, vm) IN
         /\ new \in Series
         /\ new.pending = vm.pending + s.pending
         /\ new.full <=> vm.full \/ s.full
<1> DEFINE new == aggregateVFSStats(s, vm)
<1>1. DOMAIN vm = {"remote", "pending", "full"}
  BY DEF Series
<1>2. vm.remote \in Range(RemoteOf) /\ vm.pending \in Nat /\ vm.full \in BOOLEAN
  BY DEF Series
<1>3. DOMAIN new = {"remote", "pending", "full"} /\ new = [x \in DOMAIN new |-> new[x]]
  BY <1>1 DEF aggregateVFSStats
<1>4. new.remote = vm.remote /\ new.pending = vm.pending + s.pending
  BY <1>1 DEF aggregateVFSStats
<1>5. new.full = (vm.full \/ s.full)
  BY <1>1 DEF aggregateVFSStats
<1>6. (vm.full \/ s.full) \in BOOLEAN /\ vm.pending + s.pending \in Nat
  BY <1>2
<1> HIDE DEF new
<1>7. new.full \in BOOLEAN /\ new.pending \in Nat /\ new.remote \in Range(RemoteOf)
  BY <1>2, <1>4, <1>5, <1>6
<1>8. new = [remote |-> new.remote, pending |-> new.pending, full |-> new.full]
  BY <1>3
<1>9. new \in Series
  BY <1>7, <1>8 DEF Series
<1>. QED
  BY <1>4, <1>5, <1>9 DEF new

(* One more mount of a label.                                              *)
LEMMA AddedOneMore ==
  ASSUME NEW sn, NEW vm \in Series, NEW ts, IsFiniteSet(ts), Added(sn, vm, ts),
         NEW t, t \notin ts, NEW s \in Stats \cup {Stat0}, s \in sn[t]
  PROVE  /\ aggregateVFSStats(s, vm) \in Series
         /\ Added(sn, aggregateVFSStats(s, vm), ts \cup {t})
<1>1. PICK f \in [ts -> Stats \cup {Stat0}] : /\ \A u \in ts : f[u] \in sn[u]
                                              /\ vm.pending = Pending(f)
                                              /\ vm.full <=> \E u \in ts : f[u].full
  BY DEF Added
<1> DEFINE k == OneMore(f, ts, t, s)
           vm2 == aggregateVFSStats(s, vm)
<1>2. s.pending \in Nat /\ s.full \in BOOLEAN
  <2>1. CASE s \in Stats
    BY <2>1, PathsAssumption
  <2>2. CASE s = Stat0
    BY <2>2 DEF Stat0
  <2>. QED
    BY <2>1, <2>2
<1>5. vm2 \in Series /\ vm2.pending = vm.pending + s.pending /\ (vm2.full <=> vm.full \/ s.full)
  BY <1>2, Aggregated
<1>6. Pending(k) = Pending(f) + s.pending
  BY SumOfOneMore
<1>7. k \in [ts \cup {t} -> Stats \cup {Stat0}] /\ \A u \in ts \cup {t} : k[u] \in sn[u]
  BY <1>1 DEF OneMore
<1>8. (\E u \in ts \cup {t} : k[u].full) <=> (\E u \in ts : f[u].full) \/ s.full
  <2>1. k[t] = s /\ \A u \in ts : k[u] = f[u]
    BY DEF OneMore
  <2> HIDE DEF k
  <2>. QED
    BY <2>1
<1> HIDE DEF k, vm2
<1>9. vm2.pending = Pending(k) /\ (vm2.full <=> \E u \in ts \cup {t} : k[u].full)
  BY <1>1, <1>5, <1>6, <1>8
<1>10. Added(sn, vm2, ts \cup {t})
  BY <1>7, <1>9 DEF Added
<1>. QED
  BY <1>5, <1>10 DEF vm2

FreshSeries(x) == [remote |-> x, pending |-> 0, full |-> FALSE]

(* A new series adds up no mount.                                          *)
LEMMA AddedNone ==
  ASSUME NEW sn, NEW x \in Range(RemoteOf)
  PROVE  FreshSeries(x) \in Series /\ Added(sn, FreshSeries(x), {})
<1> DEFINE f == [y \in {} |-> Stat0]
<1>1. f \in [{} -> Stats \cup {Stat0}] /\ DOMAIN f = {}
  OBVIOUS
<1> HIDE DEF f
<1>2. Pending(f) = 0
  BY <1>1, SumOfNone
<1>3. FreshSeries(x) \in Series
  BY DEF FreshSeries, Series
<1>4. FreshSeries(x).pending = 0 /\ ~FreshSeries(x).full
  BY DEF FreshSeries
<1>. QED
  BY <1>1, <1>2, <1>3, <1>4 DEF Added

(* More statistics seen take nothing from a sum.                           *)
LEMMA CoversMore ==
  ASSUME NEW vs, NEW sn, NEW sm, NEW S, Covers(vs, sn, S), \A t \in S : sn[t] \subseteq sm[t]
  PROVE  Covers(vs, sm, S)
<1>1. ASSUME NEW l \in DOMAIN vs PROVE Added(sm, vs[l], Of(S, l))
  <2>1. PICK f \in [Of(S, l) -> Stats \cup {Stat0}] :
                /\ \A t \in Of(S, l) : f[t] \in sn[t]
                /\ vs[l].pending = Pending(f)
                /\ vs[l].full <=> \E t \in Of(S, l) : f[t].full
    BY DEF Covers, Added
  <2>2. \A t \in Of(S, l) : f[t] \in sm[t]
    BY <2>1 DEF Of
  <2>. QED
    BY <2>1, <2>2 DEF Added
<1>. QED
  BY <1>1 DEF Covers

LEMMA IdleOK ==
  ASSUME NEW k, NEW st
  PROVE  ScrapeOK(NoScrape, k, st)
<1>1. NoScrape = Scraped("idle", {}, {}, [l \in {} |-> Stat0], {},
                         [t \in Targets |-> {}], [t \in Targets |-> {}])
  BY DEF NoScrape, Scraped
<1> DEFINE v == [l \in {} |-> Stat0]
           e == [t \in Targets |-> {}]
<1>2. DOMAIN v = {} /\ e \in [Targets -> SUBSET (Stats \cup {Stat0})]
      /\ e \in [Targets -> SUBSET States]
  OBVIOUS
<1>3. NoScrape = Scraped("idle", {}, {}, v, {}, e, e)
  BY <1>1
<1> HIDE DEF v, e
<1>4. /\ NoScrape.pc = "idle" /\ NoScrape.mounts = {} /\ NoScrape.left = {}
      /\ NoScrape.volumes = v /\ NoScrape.health = {}
      /\ NoScrape.seen = e /\ NoScrape.states = e
  BY <1>3, ScrapedFields
<1>. QED
  BY <1>2, <1>3, <1>4 DEF ScrapeOK, IsScrape

Starts(r, ms, st) ==
    r = [NoScrape EXCEPT !.pc = "stats", !.mounts = ms, !.left = ms,
                         !.seen = [t \in Targets |-> IF t \in ms THEN {st[t]} ELSE {}]]

LEMMA CollectOK ==
  ASSUME NEW k, NEW st \in [Targets -> Stats \cup {Stat0}], NEW ms \in SUBSET Targets,
         NEW r, Starts(r, ms, st)
  PROVE  ScrapeOK(r, k, st)
<1> DEFINE v  == [l \in {} |-> Stat0]
           e  == [t \in Targets |-> {}]
           sn == [t \in Targets |-> IF t \in ms THEN {st[t]} ELSE {}]
<1>1. r = Scraped("stats", ms, ms, v, {}, sn, e)
  BY DEF Starts, NoScrape, Scraped
<1>2. /\ DOMAIN v = {} /\ e \in [Targets -> SUBSET States]
      /\ sn \in [Targets -> SUBSET (Stats \cup {Stat0})] /\ \A t \in ms : st[t] \in sn[t]
  OBVIOUS
<1> HIDE DEF v, e, sn
<1>3. /\ r.pc = "stats" /\ r.mounts = ms /\ r.left = ms /\ r.volumes = v /\ r.health = {}
      /\ r.seen = sn /\ r.states = e
  BY <1>1, ScrapedFields
<1>4. IsScrape(r)
  BY <1>1, <1>2, <1>3 DEF IsScrape
<1>5. Covers(v, sn, ms \ ms)
  BY <1>2 DEF Covers
<1>. QED
  BY <1>2, <1>3, <1>4, <1>5 DEF ScrapeOK, FirstPass

Before(vs, t) == IF extractVolumeID(t) \in DOMAIN vs THEN vs[extractVolumeID(t)]
                 ELSE FreshSeries(RemoteOf[VolumeOf[t]])

Joined(vs, t, st) ==
    [x \in DOMAIN vs \cup {extractVolumeID(t)} |->
        IF x = extractVolumeID(t) THEN aggregateVFSStats(st[t], Before(vs, t)) ELSE vs[x]]

Aggregates(q, r, t, st) ==
    q = [r EXCEPT !.left = @ \ {t}, !.volumes = Joined(r.volumes, t, st)]

(* A step of the first pass.                                               *)
LEMMA AggregateOK ==
  ASSUME NEW k, NEW st \in [Targets -> Stats \cup {Stat0}], NEW r, ScrapeOK(r, k, st),
         r.pc = "stats", NEW t \in r.left,
         NEW q, Aggregates(q, r, t, st)
  PROVE  ScrapeOK(q, k, st)
<1> DEFINE S   == r.mounts \ r.left
           l   == extractVolumeID(t)
           old == Before(r.volumes, t)
           new == aggregateVFSStats(st[t], old)
           vs  == Joined(r.volumes, t, st)
<1>1. IsScrape(r) /\ FirstPass(r, st)
  BY DEF ScrapeOK
<1>2. q = Scraped("stats", r.mounts, r.left \ {t}, vs, r.health, r.seen, r.states)
  <2>1. r = Scraped("stats", r.mounts, r.left, r.volumes, r.health, r.seen, r.states)
    BY <1>1 DEF IsScrape
  <2>. QED
    BY <2>1 DEF Scraped, Aggregates
<1>3. /\ q.pc = "stats" /\ q.mounts = r.mounts /\ q.left = r.left \ {t} /\ q.volumes = vs
      /\ q.health = r.health /\ q.seen = r.seen /\ q.states = r.states
  BY <1>2, ScrapedFields
<1>4. t \in Targets /\ t \in r.mounts /\ t \notin S
  BY <1>1 DEF IsScrape
<1>5. Covers(r.volumes, r.seen, S)
  BY <1>1 DEF FirstPass
<1>6. old \in Series /\ Added(r.seen, old, Of(S, l))
  <2>1. CASE l \in DOMAIN r.volumes
    BY <1>1, <1>5, <2>1 DEF IsScrape, Covers, Before
  <2>2. CASE l \notin DOMAIN r.volumes
    <3>1. Of(S, l) = {}
      BY <1>5, <2>2 DEF Covers, Of
    <3>2. RemoteOf[VolumeOf[t]] \in Range(RemoteOf)
      BY <1>4, PathsAssumption DEF Range
    <3>3. old = FreshSeries(RemoteOf[VolumeOf[t]])
      BY <2>2 DEF Before
    <3>. QED
      BY <3>1, <3>2, <3>3, AddedNone
  <2>. QED
    BY <2>1, <2>2
<1>7. IsFiniteSet(Of(S, l)) /\ t \notin Of(S, l)
  <2>1. Of(S, l) \in SUBSET Targets
    BY <1>1 DEF IsScrape, Of
  <2>. QED
    BY <2>1, <1>4, PathsAssumption, FS_Subset DEF Of
<1>8. st[t] \in r.seen[t] /\ st[t] \in Stats \cup {Stat0}
  BY <1>1, <1>4 DEF FirstPass
<1>9. new \in Series /\ Added(r.seen, new, Of(S, l) \cup {t})
  BY <1>6, <1>7, <1>8, AddedOneMore
<1>10. /\ DOMAIN vs = DOMAIN r.volumes \cup {l} /\ vs[l] = new
       /\ \A x \in DOMAIN r.volumes : x # l => vs[x] = r.volumes[x]
  BY DEF Joined
<1>11. IsScrape(q)
  <2>1. l \in Labels
    BY <1>4, LabelType
  <2>2. DOMAIN vs \subseteq Labels /\ \A x \in DOMAIN vs : vs[x] \in Series
    BY <1>1, <1>9, <1>10, <2>1 DEF IsScrape
  <2>. QED
    BY <1>1, <1>2, <1>3, <2>2 DEF IsScrape
<1> DEFINE S2 == r.mounts \ (r.left \ {t})
<1>12. S2 = S \cup {t}
  BY <1>4
<1>13. Of(S2, l) = Of(S, l) \cup {t} /\ \A x : x # l => Of(S2, x) = Of(S, x)
  BY <1>12 DEF Of
<1> HIDE DEF S, S2, l, old, new, vs
<1>14. Covers(vs, r.seen, S2)
  <2>1. \A x : x \in DOMAIN vs <=> \E u \in S2 : extractVolumeID(u) = x
    BY <1>5, <1>10, <1>12 DEF Covers, l
  <2>2. ASSUME NEW x \in DOMAIN vs PROVE Added(r.seen, vs[x], Of(S2, x))
    <3>1. CASE x = l
      BY <1>9, <1>10, <1>13, <3>1
    <3>2. CASE x # l
      BY <1>5, <1>10, <1>13, <3>2 DEF Covers
    <3>. QED
      BY <3>1, <3>2
  <2>. QED
    BY <2>1, <2>2 DEF Covers
<1>15. FirstPass(q, st)
  BY <1>1, <1>3, <1>14 DEF FirstPass, S2
<1>. QED
  BY <1>3, <1>11, <1>15 DEF ScrapeOK

Emits(q, r, k) ==
    q = [r EXCEPT !.pc = "health", !.left = r.mounts,
                  !.states = [t \in Targets |-> IF t \in r.mounts THEN {k[t]} ELSE {}]]

(* Between the passes.                                                     *)
LEMMA EmitOK ==
  ASSUME NEW k \in [Targets -> States], NEW st, NEW r, ScrapeOK(r, k, st),
         r.pc = "stats", r.left = {}, NEW q, Emits(q, r, k)
  PROVE  ScrapeOK(q, k, st)
<1> DEFINE ss == [t \in Targets |-> IF t \in r.mounts THEN {k[t]} ELSE {}]
<1>1. IsScrape(r) /\ FirstPass(r, st)
  BY DEF ScrapeOK
<1>2. q = Scraped("health", r.mounts, r.mounts, r.volumes, r.health, r.seen, ss)
  <2>1. r = Scraped("stats", r.mounts, r.left, r.volumes, r.health, r.seen, r.states)
    BY <1>1 DEF IsScrape
  <2>. QED
    BY <2>1 DEF Scraped, Emits
<1>3. ss \in [Targets -> SUBSET States] /\ \A t \in r.mounts : k[t] \in ss[t]
  BY <1>1 DEF IsScrape
<1> HIDE DEF ss
<1>4. /\ q.pc = "health" /\ q.mounts = r.mounts /\ q.left = r.mounts /\ q.volumes = r.volumes
      /\ q.health = r.health /\ q.seen = r.seen /\ q.states = ss
  BY <1>2, ScrapedFields
<1>5. IsScrape(q)
  BY <1>1, <1>2, <1>3, <1>4 DEF IsScrape
<1>6. r.mounts \ r.left = r.mounts /\ q.mounts \ q.left = {}
  BY <1>4
<1>7. Covers(q.volumes, q.seen, q.mounts)
  BY <1>1, <1>4, <1>6 DEF FirstPass
<1>8. Tells(q.health, q.states, q.mounts \ q.left)
  BY <1>1, <1>4, <1>6 DEF FirstPass, Tells
<1>. QED
  BY <1>3, <1>4, <1>5, <1>7, <1>8 DEF ScrapeOK, SecondPass

Sample(t, b) == [volume |-> extractVolumeID(t), pod |-> extractPodID(t), target |-> t, value |-> b]

Checks(q, r, t, b) == q = [r EXCEPT !.left = @ \ {t}, !.health = @ \cup {Sample(t, b)}]

(* A step of the second pass.                                              *)
LEMMA CheckOK ==
  ASSUME NEW k, NEW st, NEW r, ScrapeOK(r, k, st), r.pc = "health", NEW t \in r.left,
         NEW b \in BOOLEAN, b <=> k[t] \in Readable, NEW q, Checks(q, r, t, b)
  PROVE  ScrapeOK(q, k, st)
<1> DEFINE h == Sample(t, b)
<1>1. IsScrape(r) /\ SecondPass(r, k)
  BY DEF ScrapeOK
<1>2. q = Scraped("health", r.mounts, r.left \ {t}, r.volumes, r.health \cup {h}, r.seen, r.states)
  <2>1. r = Scraped("health", r.mounts, r.left, r.volumes, r.health, r.seen, r.states)
    BY <1>1 DEF IsScrape
  <2>. QED
    BY <2>1 DEF Scraped, Checks
<1>3. h.target = t /\ h.value = b
  BY DEF Sample
<1>4. t \in Targets /\ t \in r.mounts
  BY <1>1 DEF IsScrape
<1>5. h \in Samples
  <2>1. extractVolumeID(t) \in Labels /\ extractPodID(t) \in Labels
    BY <1>4, LabelType
  <2>. QED
    BY <1>4, <2>1 DEF Samples, Sample
<1> HIDE DEF h
<1>6. /\ q.pc = "health" /\ q.mounts = r.mounts /\ q.left = r.left \ {t}
      /\ q.volumes = r.volumes /\ q.health = r.health \cup {h}
      /\ q.seen = r.seen /\ q.states = r.states
  BY <1>2, ScrapedFields
<1>7. IsScrape(q)
  BY <1>1, <1>2, <1>5, <1>6 DEF IsScrape
<1>8. k[t] \in r.states[t]
  BY <1>1 DEF SecondPass
<1>9. \A g \in r.health \cup {h} : \E s \in r.states[g.target] : g.value <=> s \in Readable
  BY <1>1, <1>3, <1>8 DEF SecondPass, Tells
<1>10. \A u : u \in r.mounts \ (r.left \ {t}) <=> \E g \in r.health \cup {h} : g.target = u
  BY <1>1, <1>3, <1>4 DEF SecondPass, Tells
<1>11. Tells(q.health, q.states, q.mounts \ q.left)
  BY <1>6, <1>9, <1>10 DEF Tells
<1>. QED
  BY <1>1, <1>6, <1>7, <1>11 DEF ScrapeOK, SecondPass

Changes(q, r, t, s) ==
    q = IF r.pc = "stats" /\ t \in r.left THEN [r EXCEPT !.seen[t] = @ \cup {s}] ELSE r

(* The statistics of a mount change under a scrape.                        *)
LEMMA ChangeOK ==
  ASSUME NEW k, NEW st \in [Targets -> Stats \cup {Stat0}], NEW r, ScrapeOK(r, k, st),
         NEW t \in Targets, NEW s \in Stats \cup {Stat0}, NEW q, Changes(q, r, t, s)
  PROVE  ScrapeOK(q, k, [st EXCEPT ![t] = s])
<1> DEFINE new == [st EXCEPT ![t] = s]
<1>0. new[t] = s /\ \A u \in Targets : u # t => new[u] = st[u]
  OBVIOUS
<1> HIDE DEF new
<1>1. IsScrape(r)
  BY DEF ScrapeOK
<1>2. CASE ~(r.pc = "stats" /\ t \in r.left)
  <2>1. q = r
    BY <1>2 DEF Changes
  <2>2. ASSUME r.pc = "stats" PROVE FirstPass(r, new)
    <3>1. \A u \in r.left : u \in Targets /\ u # t
      BY <1>1, <1>2, <2>2 DEF IsScrape
    <3>. QED
      BY <1>0, <2>2, <3>1 DEF ScrapeOK, FirstPass
  <2>. QED
    BY <2>1, <2>2 DEF ScrapeOK, new
<1>3. CASE r.pc = "stats" /\ t \in r.left
  <2> DEFINE sn == [r.seen EXCEPT ![t] = @ \cup {s}]
  <2>1. q = Scraped("stats", r.mounts, r.left, r.volumes, r.health, sn, r.states)
    <3>1. r = Scraped("stats", r.mounts, r.left, r.volumes, r.health, r.seen, r.states)
      BY <1>1, <1>3 DEF IsScrape
    <3>2. q = [r EXCEPT !.seen = sn]
      BY <1>3 DEF Changes
    <3> HIDE DEF sn
    <3>. QED
      BY <3>1, <3>2 DEF Scraped
  <2>2. r.seen \in [Targets -> SUBSET (Stats \cup {Stat0})]
    BY <1>1 DEF IsScrape
  <2>3. /\ sn \in [Targets -> SUBSET (Stats \cup {Stat0})]
        /\ s \in sn[t] /\ \A u \in Targets : r.seen[u] \subseteq sn[u]
    BY <2>2
  <2> HIDE DEF sn
  <2>4. /\ q.pc = "stats" /\ q.mounts = r.mounts /\ q.left = r.left /\ q.volumes = r.volumes
        /\ q.health = r.health /\ q.seen = sn /\ q.states = r.states
    BY <2>1, ScrapedFields
  <2>5. IsScrape(q)
    BY <1>1, <2>1, <2>3, <2>4 DEF IsScrape
  <2>6. FirstPass(r, st)
    BY <1>3 DEF ScrapeOK
  <2>7. Covers(r.volumes, sn, r.mounts \ r.left)
    <3> DEFINE S == r.mounts \ r.left
    <3>1. Covers(r.volumes, r.seen, S) /\ \A u \in S : r.seen[u] \subseteq sn[u]
      BY <1>1, <2>3, <2>6 DEF FirstPass, IsScrape
    <3> HIDE DEF S
    <3>2. Covers(r.volumes, sn, S)
      BY <3>1, CoversMore
    <3>. QED
      BY <3>2 DEF S
  <2>8. ASSUME NEW u \in r.left PROVE new[u] \in sn[u]
    <3>1. u \in Targets /\ st[u] \in r.seen[u]
      BY <1>1, <2>6 DEF IsScrape, FirstPass
    <3>. QED
      BY <1>0, <2>3, <3>1
  <2>9. FirstPass(q, new)
    BY <2>4, <2>6, <2>7, <2>8 DEF FirstPass
  <2>. QED
    BY <2>4, <2>5, <2>9 DEF ScrapeOK, new
<1>. QED
  BY <1>2, <1>3

Sees(q, r, t, s) ==
    q = IF r.pc = "health" /\ t \in r.left THEN [r EXCEPT !.states[t] = @ \cup {s}] ELSE r

(* The state of a target changes under a scrape.                           *)
LEMMA SeesOK ==
  ASSUME NEW k \in [Targets -> States], NEW st, NEW r, ScrapeOK(r, k, st),
         NEW t \in Targets, NEW s \in States, NEW q, Sees(q, r, t, s)
  PROVE  ScrapeOK(q, [k EXCEPT ![t] = s], st)
<1> DEFINE new == [k EXCEPT ![t] = s]
<1>0. new[t] = s /\ \A u \in Targets : u # t => new[u] = k[u]
  OBVIOUS
<1> HIDE DEF new
<1>1. IsScrape(r)
  BY DEF ScrapeOK
<1>2. CASE ~(r.pc = "health" /\ t \in r.left)
  <2>1. q = r
    BY <1>2 DEF Sees
  <2>2. ASSUME r.pc = "health" PROVE SecondPass(r, new)
    <3>1. \A u \in r.left : u \in Targets /\ u # t
      BY <1>1, <1>2, <2>2 DEF IsScrape
    <3>. QED
      BY <1>0, <2>2, <3>1 DEF ScrapeOK, SecondPass
  <2>. QED
    BY <2>1, <2>2 DEF ScrapeOK, new
<1>3. CASE r.pc = "health" /\ t \in r.left
  <2> DEFINE ss == [r.states EXCEPT ![t] = @ \cup {s}]
  <2>1. q = Scraped("health", r.mounts, r.left, r.volumes, r.health, r.seen, ss)
    <3>1. r = Scraped("health", r.mounts, r.left, r.volumes, r.health, r.seen, r.states)
      BY <1>1, <1>3 DEF IsScrape
    <3>2. q = [r EXCEPT !.states = ss]
      BY <1>3 DEF Sees
    <3> HIDE DEF ss
    <3>. QED
      BY <3>1, <3>2 DEF Scraped
  <2>2. r.states \in [Targets -> SUBSET States]
    BY <1>1 DEF IsScrape
  <2>3. /\ ss \in [Targets -> SUBSET States]
        /\ s \in ss[t] /\ \A u \in Targets : r.states[u] \subseteq ss[u]
    BY <2>2
  <2> HIDE DEF ss
  <2>4. /\ q.pc = "health" /\ q.mounts = r.mounts /\ q.left = r.left /\ q.volumes = r.volumes
        /\ q.health = r.health /\ q.seen = r.seen /\ q.states = ss
    BY <2>1, ScrapedFields
  <2>5. IsScrape(q)
    BY <1>1, <2>1, <2>3, <2>4 DEF IsScrape
  <2>6. SecondPass(r, k)
    BY <1>3 DEF ScrapeOK
  <2>7. Tells(r.health, ss, r.mounts \ r.left)
    <3>1. \A h \in r.health : h.target \in Targets
      BY <1>1 DEF IsScrape, Samples
    <3>. QED
      BY <2>3, <2>6, <3>1 DEF SecondPass, Tells
  <2>8. ASSUME NEW u \in r.left PROVE new[u] \in ss[u]
    <3>1. u \in Targets /\ k[u] \in r.states[u]
      BY <1>1, <2>6 DEF IsScrape, SecondPass
    <3>. QED
      BY <1>0, <2>3, <3>1
  <2>9. SecondPass(q, new)
    BY <2>4, <2>6, <2>7, <2>8 DEF SecondPass
  <2>. QED
    BY <2>4, <2>5, <2>9 DEF ScrapeOK, new
<1>. QED
  BY <1>2, <1>3
-----------------------------------------------------------------------------
(* The invariant.                                                          *)

CallKind == [pc : {"statfs", "health", "done", "lost"}, target : Targets,
             seen : SUBSET States, answer : {"none", "healthy", "abnormal"}]

(* A call has seen nothing before Statfs, and what it answers agrees with  *)
(* all it has seen.                                                        *)
CallTells(k) ==
    /\ k \in CallKind
    /\ k.answer = "none" <=> k.pc # "done"
    /\ k.pc = "statfs" => k.seen = {}
    /\ k.pc = "done" => /\ k.seen = {"served"} => k.answer = "healthy"
                        /\ k.seen \subseteq States \ Readable => k.answer = "abnormal"

CallsTell == call = [c \in Calls |-> call[c]] /\ \A c \in Calls : CallTells(call[c])

Kinds == /\ context \subseteq Targets
         /\ kernel \in [Targets -> States]
         /\ stats \in [Targets -> Stats \cup {Stat0}]

StatsInv == Kinds /\ CallsTell /\ ScrapeOK(scrape, kernel, stats)

LEMMA InvTyped == StatsInv => TypeOK
<1> SUFFICES ASSUME StatsInv PROVE TypeOK
  OBVIOUS
<1>1. Kinds /\ CallsTell /\ IsScrape(scrape)
  BY DEF StatsInv, ScrapeOK
<1>2. Range(scrape.volumes) \subseteq Series
  BY <1>1 DEF IsScrape, Range
<1>3. call \in [Calls -> CallKind] /\ \A c \in Calls : call[c].answer = "none" <=> call[c].pc # "done"
  BY <1>1 DEF CallsTell, CallTells
<1>. QED
  BY <1>1, <1>2, <1>3 DEF Kinds, IsScrape, Samples, CallKind, TypeOK

LEMMA StatsInit == Init => StatsInv
<1> SUFFICES ASSUME Init PROVE StatsInv
  OBVIOUS
<1>1. Kinds
  BY DEF Init, Kinds, States
<1>2. ASSUME NEW c \in Calls PROVE CallTells(call[c])
  <2>1. call[c] \in [pc : {"statfs"}, target : Targets, seen : {{}}, answer : {"none"}]
    BY DEF Init
  <2>. QED
    BY <2>1 DEF CallTells, CallKind
<1>3. call = [c \in Calls |-> call[c]]
  BY DEF Init
<1>4. ScrapeOK(scrape, kernel, stats)
  BY IdleOK DEF Init
<1>. QED
  BY <1>1, <1>2, <1>3, <1>4 DEF StatsInv, CallsTell

(* A change of a mount is seen by those that look at it.                   *)
LEMMA BecomesKeeps ==
  ASSUME StatsInv, NEW t \in Targets, NEW s \in States, Becomes(t, s),
         UNCHANGED <<context, stats>>
  PROVE  StatsInv'
<1>1. Kinds /\ CallsTell /\ ScrapeOK(scrape, kernel, stats)
  BY DEF StatsInv
<1>2. kernel' = [kernel EXCEPT ![t] = s] /\ Sees(scrape', scrape, t, s)
  BY DEF Becomes, Sees
<1>3. Kinds'
  BY <1>1, <1>2 DEF Kinds
<1>4. ScrapeOK(scrape', kernel', stats')
  <2>1. kernel \in [Targets -> States]
    BY <1>1 DEF Kinds
  <2>2. ScrapeOK(scrape', [kernel EXCEPT ![t] = s], stats)
    BY <1>1, <1>2, <2>1, SeesOK
  <2>. QED
    BY <1>2, <2>2
<1>5. ASSUME NEW c \in Calls PROVE CallTells(call'[c])
  <2>0. CallTells(call[c])
    BY <1>1 DEF CallsTell
  <2>1. CASE call[c].target = t /\ call[c].pc = "health"
    <3>1. call'[c] = [call[c] EXCEPT !.seen = @ \cup {s}]
      BY <2>1 DEF Becomes
    <3>2. call[c] \in CallKind
      BY <2>0 DEF CallTells
    <3>3. /\ call'[c] \in CallKind
          /\ call'[c].pc = "health" /\ call'[c].answer = call[c].answer
      BY <2>1, <3>1, <3>2 DEF CallKind
    <3>. QED
      BY <2>0, <2>1, <3>3 DEF CallTells
  <2>2. CASE ~(call[c].target = t /\ call[c].pc = "health")
    <3>1. call'[c] = call[c]
      BY <2>2 DEF Becomes
    <3>. QED
      BY <2>0, <3>1
  <2>. QED
    BY <2>1, <2>2
<1>6. call' = [c \in Calls |-> call'[c]]
  BY DEF Becomes
<1>. QED
  BY <1>3, <1>4, <1>5, <1>6 DEF StatsInv, CallsTell

(* Steps of a mount: what is said of it stays true.                        *)
LEMMA MountKeeps ==
  ASSUME StatsInv, NEW t \in Targets,
         \/ Mount(t) \/ SetMountContext(t) \/ Unmount(t) \/ CleanupMount(t)
         \/ DeleteMountContext(t) \/ VFSChange(t) \/ RemoteChange(t)
  PROVE  StatsInv'
<1>1. Kinds /\ CallsTell /\ ScrapeOK(scrape, kernel, stats)
  BY DEF StatsInv
<1>2. CASE Mount(t) \/ Unmount(t) \/ CleanupMount(t) \/ RemoteChange(t)
  <2>1. PICK s \in States : Becomes(t, s) /\ UNCHANGED <<context, stats>>
    BY <1>2 DEF Mount, Unmount, CleanupMount, RemoteChange, States
  <2>. QED
    BY <2>1, BecomesKeeps
<1>3. CASE SetMountContext(t) \/ DeleteMountContext(t)
  <2>1. Kinds' /\ UNCHANGED <<scrape, call>>
    BY <1>1, <1>3 DEF Kinds, SetMountContext, DeleteMountContext
  <2>2. CallsTell'
    BY <1>1, <2>1 DEF CallsTell
  <2>3. scrape.pc = "idle"
    BY <1>3 DEF SetMountContext, DeleteMountContext, Unlocked
  <2>4. ScrapeOK(scrape', kernel', stats')
    BY <1>1, <2>1, <2>3 DEF ScrapeOK
  <2>. QED
    BY <2>1, <2>2, <2>4 DEF StatsInv
<1>4. CASE VFSChange(t)
  <2>1. PICK s \in Stats \cup {Stat0} : /\ stats' = [stats EXCEPT ![t] = s]
                                        /\ Changes(scrape', scrape, t, s)
    BY <1>4 DEF VFSChange, Changes
  <2>2. UNCHANGED <<context, kernel, call>>
    BY <1>4 DEF VFSChange
  <2>3. Kinds'
    BY <1>1, <2>1, <2>2 DEF Kinds
  <2>4. CallsTell'
    BY <1>1, <2>2 DEF CallsTell
  <2>5. ScrapeOK(scrape', kernel, [stats EXCEPT ![t] = s])
    <3>1. stats \in [Targets -> Stats \cup {Stat0}]
      BY <1>1 DEF Kinds
    <3>. QED
      BY <1>1, <2>1, <3>1, ChangeOK
  <2>6. ScrapeOK(scrape', kernel', stats')
    BY <2>1, <2>2, <2>5
  <2>. QED
    BY <2>3, <2>4, <2>6 DEF StatsInv
<1>. QED
  BY <1>2, <1>3, <1>4

LEMMA CrashKeeps == StatsInv /\ Crash => StatsInv'
<1> SUFFICES ASSUME StatsInv, Crash PROVE StatsInv'
  OBVIOUS
<1>1. Kinds /\ CallsTell
  BY DEF StatsInv
<1>2. Kinds'
  BY <1>1 DEF Kinds, Crash, States
<1>3. ASSUME NEW c \in Calls PROVE CallTells(call'[c])
  <2>0. CallTells(call[c]) /\ call[c] \in CallKind
    BY <1>1 DEF CallsTell, CallTells
  <2> DEFINE p == IF call[c].pc = "health" THEN "lost" ELSE call[c].pc
  <2>1. call'[c] = [call[c] EXCEPT !.pc = p]
    BY DEF Crash
  <2>2. p \in {"statfs", "health", "done", "lost"}
    BY <2>0 DEF CallKind
  <2>3. /\ p = "done" <=> call[c].pc = "done"
        /\ p = "statfs" <=> call[c].pc = "statfs"
    OBVIOUS
  <2> HIDE DEF p
  <2>4. /\ call'[c] \in CallKind /\ call'[c].pc = p
        /\ call'[c].seen = call[c].seen /\ call'[c].answer = call[c].answer
    BY <2>0, <2>1, <2>2 DEF CallKind
  <2>. QED
    BY <2>0, <2>3, <2>4 DEF CallTells
<1>4. call' = [c \in Calls |-> call'[c]]
  BY DEF Crash
<1>5. ScrapeOK(scrape', kernel', stats')
  BY IdleOK DEF Crash
<1>. QED
  BY <1>2, <1>3, <1>4, <1>5 DEF StatsInv, CallsTell

Moved(k, p, a, s) == [k EXCEPT !.pc = p, !.answer = a, !.seen = s]

LEMMA MovedCall ==
  ASSUME NEW k \in CallKind, NEW p \in {"health", "done"}, NEW s \in SUBSET States,
         NEW a \in {"none", "healthy", "abnormal"}
  PROVE  /\ Moved(k, p, a, s) \in CallKind
         /\ Moved(k, p, a, s).pc = p
         /\ Moved(k, p, a, s).answer = a
         /\ Moved(k, p, a, s).seen = s
<1>1. k = [pc |-> k.pc, target |-> k.target, seen |-> k.seen, answer |-> k.answer]
  BY DEF CallKind
<1>2. k.target \in Targets
  BY DEF CallKind
<1>3. Moved(k, p, a, s) = [pc |-> p, target |-> k.target, seen |-> s, answer |-> a]
  <2> DEFINE m == [k EXCEPT !.pc = p, !.answer = a, !.seen = s]
             n == [pc |-> p, target |-> k.target, seen |-> s, answer |-> a]
  <2>1. DOMAIN k = {"pc", "target", "seen", "answer"}
    BY DEF CallKind
  <2>2. DOMAIN m = DOMAIN n /\ m = [x \in DOMAIN m |-> m[x]] /\ n = [x \in DOMAIN n |-> n[x]]
    BY <2>1
  <2>3. m.pc = n.pc /\ m.target = n.target /\ m.seen = n.seen /\ m.answer = n.answer
    BY <2>1
  <2>4. DOMAIN n = {"pc", "target", "seen", "answer"}
    OBVIOUS
  <2>. QED
    <3> HIDE DEF m, n
    <3>1. \A x \in DOMAIN n : m[x] = n[x]
      BY <2>3, <2>4
    <3>2. m = n
      BY <2>2, <3>1
    <3>. QED
      BY <3>2 DEF Moved, m, n
<1>. QED
  BY <1>2, <1>3 DEF CallKind

(* What a call answers, in one step or in two.                             *)
LEMMA CallKeeps ==
  ASSUME StatsInv, NEW d \in Calls, Statfs(d) \/ VolumeCondition(d)
  PROVE  StatsInv'
<1>0. UNCHANGED <<context, kernel, stats, scrape>>
  BY DEF Statfs, VolumeCondition
<1>1. Kinds /\ CallsTell /\ ScrapeOK(scrape, kernel, stats)
  BY DEF StatsInv
<1> DEFINE at == kernel[call[d].target]
<1>2. CallTells(call[d]) /\ call[d] \in CallKind
  BY <1>1 DEF CallsTell, CallTells
<1>3. at \in States /\ call[d].seen \in SUBSET States
  BY <1>1, <1>2 DEF Kinds, CallKind
<1>4. \A c \in Calls \ {d} : call'[c] = call[c]
  BY <1>1 DEF Statfs, VolumeCondition, Answer, CallsTell
<1>5. call = [c \in Calls |-> call[c]]
  BY <1>1 DEF CallsTell
<1>6. ASSUME Statfs(d), at \in {"absent", "dead"} PROVE CallTells(call'[d])
  <2>1. call'[d] = Moved(call[d], "done", "abnormal", call[d].seen \cup {at})
    BY <1>5, <1>6 DEF Statfs, Answer, Moved
  <2>2. call[d].seen \cup {at} \in SUBSET States
    BY <1>3
  <2> HIDE DEF at
  <2>3. /\ call'[d] \in CallKind /\ call'[d].pc = "done" /\ call'[d].answer = "abnormal"
        /\ call'[d].seen = call[d].seen \cup {at}
    BY <1>2, <2>1, <2>2, MovedCall
  <2>4. call[d].seen = {}
    BY <1>2, <1>6 DEF Statfs, CallTells
  <2>. QED
    BY <1>6, <2>3, <2>4 DEF CallTells
<1>7. ASSUME Statfs(d), at \notin {"absent", "dead"} PROVE CallTells(call'[d])
  <2>1. call'[d] = [call[d] EXCEPT !.pc = "health", !.seen = {at}]
    BY <1>5, <1>7 DEF Statfs
  <2>2. call[d].answer = "none" /\ {at} \in SUBSET States
    BY <1>2, <1>3, <1>7 DEF Statfs, CallTells
  <2> HIDE DEF at
  <2>3. call'[d] = Moved(call[d], "health", "none", {at})
    BY <1>2, <2>1, <2>2 DEF CallKind, Moved
  <2>4. /\ call'[d] \in CallKind /\ call'[d].pc = "health" /\ call'[d].answer = "none"
        /\ call'[d].seen = {at}
    BY <1>2, <2>2, <2>3, MovedCall
  <2>. QED
    BY <2>4 DEF CallTells
<1>8. ASSUME VolumeCondition(d) PROVE CallTells(call'[d])
  <2> DEFINE said == IF at \in Readable THEN "healthy" ELSE "abnormal"
  <2>1. call'[d] = Moved(call[d], "done", said, call[d].seen \cup {at})
    BY <1>5, <1>8 DEF VolumeCondition, Answer, isMountHealthy, Moved
  <2>2. call[d].seen \cup {at} \in SUBSET States
    BY <1>3
  <2>3. said \in {"none", "healthy", "abnormal"} /\ said # "none"
    OBVIOUS
  <2>4. (at = "served" => said = "healthy") /\ (at \in States \ Readable => said = "abnormal")
    BY DEF Readable
  <2> HIDE DEF at, said
  <2>5. /\ call'[d] \in CallKind /\ call'[d].pc = "done" /\ call'[d].answer = said
        /\ call'[d].seen = call[d].seen \cup {at}
    BY <1>2, <2>1, <2>2, <2>3, MovedCall
  <2>6. call'[d].seen = {"served"} => at = "served"
    BY <2>5
  <2>7. call'[d].seen \subseteq States \ Readable => at \in States \ Readable
    BY <2>5
  <2>. QED
    BY <2>3, <2>4, <2>5, <2>6, <2>7 DEF CallTells
<1>9. ASSUME NEW c \in Calls PROVE CallTells(call'[c])
  <2>1. CASE c # d
    BY <1>1, <1>4, <2>1 DEF CallsTell
  <2>. QED
    BY <2>1, <1>6, <1>7, <1>8
<1>10. call' = [c \in Calls |-> call'[c]]
  BY <1>5 DEF Statfs, VolumeCondition, Answer
<1>11. Kinds' /\ ScrapeOK(scrape', kernel', stats')
  BY <1>0, <1>1 DEF Kinds
<1>. QED
  BY <1>9, <1>10, <1>11 DEF StatsInv, CallsTell

(* Steps of a scrape.                                                      *)
LEMMA ScrapeKeeps ==
  ASSUME StatsInv, \/ Collect \/ EmitVolumes \/ Collected
                   \/ \E t \in Targets : AggregateMount(t) \/ CheckMount(t)
  PROVE  StatsInv'
<1>1. /\ Kinds /\ CallsTell /\ ScrapeOK(scrape, kernel, stats)
      /\ context \in SUBSET Targets
      /\ kernel \in [Targets -> States]
      /\ stats \in [Targets -> Stats \cup {Stat0}]
  BY DEF StatsInv, Kinds
<1>2. UNCHANGED <<context, kernel, stats, call>>
  BY DEF Collect, EmitVolumes, Collected, AggregateMount, CheckMount
<1>3. Kinds' /\ CallsTell'
  BY <1>1, <1>2 DEF Kinds, CallsTell
<1>4. CASE Collect
  <2>1. Starts(scrape', context, stats)
    BY <1>4 DEF Collect, Starts
  <2>2. ScrapeOK(scrape', kernel, stats)
    BY <1>1, <2>1, CollectOK
  <2>. QED
    BY <1>2, <1>3, <2>2 DEF StatsInv
<1>5. CASE EmitVolumes
  <2>1. Emits(scrape', scrape, kernel) /\ scrape.pc = "stats" /\ scrape.left = {}
    BY <1>5 DEF EmitVolumes, Emits
  <2>2. ScrapeOK(scrape', kernel, stats)
    BY <1>1, <2>1, EmitOK
  <2>. QED
    BY <1>2, <1>3, <2>2 DEF StatsInv
<1>6. CASE Collected
  <2>1. ScrapeOK(scrape', kernel, stats)
    BY <1>6, IdleOK DEF Collected
  <2>. QED
    BY <1>2, <1>3, <2>1 DEF StatsInv
<1>7. ASSUME NEW t \in Targets, AggregateMount(t) PROVE StatsInv'
  <2>1. Aggregates(scrape', scrape, t, stats) /\ scrape.pc = "stats" /\ t \in scrape.left
    BY <1>7 DEF AggregateMount, Aggregates, Joined, Before, FreshSeries
  <2>2. ScrapeOK(scrape', kernel, stats)
    BY <1>1, <2>1, AggregateOK
  <2>. QED
    BY <1>2, <1>3, <2>2 DEF StatsInv
<1>8. ASSUME NEW t \in Targets, CheckMount(t) PROVE StatsInv'
  <2> DEFINE b == kernel[t] \in Readable
  <2>1. Checks(scrape', scrape, t, b) /\ scrape.pc = "health" /\ t \in scrape.left
    BY <1>8 DEF CheckMount, Checks, Sample, isMountHealthy
  <2>2. b \in BOOLEAN /\ (b <=> kernel[t] \in Readable)
    OBVIOUS
  <2> HIDE DEF b
  <2>3. ScrapeOK(scrape', kernel, stats)
    BY <1>1, <2>1, <2>2, CheckOK
  <2>. QED
    BY <1>2, <1>3, <2>3 DEF StatsInv
<1>. QED
  BY <1>4, <1>5, <1>6, <1>7, <1>8

LEMMA StatsStep == StatsInv /\ [Next]_vars => StatsInv'
<1> SUFFICES ASSUME StatsInv, [Next]_vars PROVE StatsInv'
  OBVIOUS
<1>1. CASE UNCHANGED vars
  BY <1>1 DEF vars, StatsInv, Kinds, CallsTell
<1>2. CASE \E t \in Targets : AggregateMount(t) \/ CheckMount(t)
  BY <1>2, ScrapeKeeps
<1>3. CASE Collect \/ EmitVolumes \/ Collected
  BY <1>3, ScrapeKeeps
<1>. QED
  BY <1>1, <1>2, <1>3, MountKeeps, CallKeeps, CrashKeeps DEF Next

LEMMA AlwaysStats == Spec => []StatsInv
  BY StatsInit, StatsStep, PTL DEF Spec
-----------------------------------------------------------------------------
(* What the driver says of its mounts is of its kind: the sums of a scrape *)
(* (collectVFSMetrics) are natural numbers and its labels parts of a       *)
(* target path.                                                            *)
THEOREM StatsTyped == Spec => []TypeOK
  BY InvTyped, AlwaysStats, PTL

(* NodeGetVolumeStats is right about a mount that kept its state during    *)
(* the call, whatever happened to the others.                              *)
THEOREM SteadyMountIsTold == Spec => []SteadyIsTold
<1>1. StatsInv => SteadyIsTold
  BY DEF StatsInv, SteadyIsTold, CallsTell, CallTells
<1>. QED
  BY <1>1, AlwaysStats, PTL

(* The samples of a scrape (aggregateVolumeStats,                          *)
(* collectMountHealthMetrics) tell of every mount, and only what was so    *)
(* while the scrape looked: mounts may come and go, serve or fail, and     *)
(* their statistics change, between any two of its steps.                  *)
THEOREM ScrapesAreTrue == Spec => []ScrapeIsTrue
<1>1. ASSUME StatsInv, Finished PROVE ScrapeIsTrue
  <2>1. SecondPass(scrape, kernel) /\ scrape.mounts \ scrape.left = scrape.mounts
    BY <1>1 DEF StatsInv, ScrapeOK, Finished
  <2>2. /\ Covers(scrape.volumes, scrape.seen, scrape.mounts)
        /\ Tells(scrape.health, scrape.states, scrape.mounts)
    BY <2>1 DEF SecondPass
  <2>3. DOMAIN scrape.volumes = {extractVolumeID(t) : t \in scrape.mounts}
    BY <2>2 DEF Covers
  <2>4. ASSUME NEW l \in DOMAIN scrape.volumes
        PROVE  AddsUp(scrape.volumes[l], {t \in scrape.mounts : extractVolumeID(t) = l})
    <3>1. Added(scrape.seen, scrape.volumes[l], Of(scrape.mounts, l))
      BY <2>2 DEF Covers
    <3>. QED
      BY <3>1 DEF Added, AddsUp, Of
  <2>5. {h.target : h \in scrape.health} = scrape.mounts
    BY <2>2 DEF Tells
  <2>6. \A h \in scrape.health : \E s \in scrape.states[h.target] : h.value <=> s \in Readable
    BY <2>2 DEF Tells
  <2>. QED
    BY <2>3, <2>4, <2>5, <2>6 DEF ScrapeIsTrue
<1>2. StatsInv => ScrapeIsTrue
  BY <1>1 DEF ScrapeIsTrue
<1>. QED
  BY <1>2, AlwaysStats, PTL
=============================================================================
