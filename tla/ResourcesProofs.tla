--------------------------- MODULE ResourcesProofs ---------------------------
(***************************************************************************)
(* Proofs about the size of the machine of a sandbox (SandboxResources).   *)
(***************************************************************************)
EXTENDS SandboxResources, FiniteSetTheorems, WellFoundedInduction, TLAPS

-----------------------------------------------------------------------------
(* Sums.  Induction on the number of terms goes by the least term that      *)
(* breaks the claim.                                                        *)

LEMMA NatMin ==
    ASSUME NEW T, T \subseteq Nat, T # {} PROVE \E x \in T : \A y \in T : x <= y
<1>1. PICK x \in T : \A y \in T : ~(<<y, x>> \in OpToRel(<, Nat)) BY Zenon, NatLessThanWellFounded, WFMin
<1>2. \A y \in T : ~(y < x) BY Zenon, <1>1 DEF OpToRel
<1> QED BY SMT, <1>2

\* g has the sums of the first k terms of f, k up to n.
Adds(g, f, n) == g = [k \in 0 .. n |-> IF k = 0 THEN 0 ELSE g[k - 1] + f[k]]

LEMMA SumExists == ASSUME NEW f PROVE \A n \in Nat : \E g : Adds(g, f, n)
<1> DEFINE T == {n \in Nat : ~\E g : Adds(g, f, n)}
<1>1. CASE T = {} BY Zenon, <1>1
<1>2. CASE T # {}
  <2>1. PICK n \in T : \A m \in T : n <= m BY Zenon, <1>2, NatMin
  <2>2. CASE n = 0
    <3> DEFINE g == [k \in 0 .. 0 |-> 0]
    <3>1. Adds(g, f, 0) BY SMT DEF Adds
    <3> QED BY Zenon, <2>2, <3>1
  <2>3. CASE n # 0
    <3>1. n \in Nat /\ n - 1 \in Nat /\ ~(n <= n - 1) BY SMT, <2>3
    <3>2. PICK h : Adds(h, f, n - 1) BY Zenon, <2>1, <3>1
    <3> DEFINE g == [k \in 0 .. n |-> IF k = n THEN h[n - 1] + f[n] ELSE h[k]]
    <3>3. Adds(g, f, n) BY SMT, <2>3, <3>1, <3>2 DEF Adds
    <3> QED BY Zenon, <3>3
  <2> QED BY Zenon, <2>2, <2>3
<1> QED BY Zenon, <1>1, <1>2

LEMMA SumInt == ASSUME NEW f, NEW n \in Nat, \A i \in 1 .. n : f[i] \in Int PROVE Sum(f, n) \in Int
<1> DEFINE g == CHOOSE g : Adds(g, f, n)
<1>1. Adds(g, f, n) BY Zenon, SumExists
<1>2. Sum(f, n) = g[n] BY SMT DEF Sum, Adds
<1> HIDE DEF g
<1> DEFINE T == {k \in 0 .. n : g[k] \notin Int}
<1>3. CASE T = {} BY SMT, <1>2, <1>3
<1>4. CASE T # {}
  <2>0. T \subseteq Nat BY SMT
  <2>1. PICK k \in T : \A m \in T : k <= m BY Zenon, <1>4, <2>0, NatMin
  <2>2. k # 0 BY SMT, <1>1 DEF Adds
  <2>3. g[k] = g[k - 1] + f[k] /\ k - 1 \in 0 .. n /\ ~(k <= k - 1) /\ k \in 1 .. n
    BY SMT, <1>1, <2>2 DEF Adds
  <2>4. g[k - 1] \in Int BY Zenon, <2>1, <2>3
  <2>5. g[k] \in Int BY SMT, <2>3, <2>4
  <2> QED BY Zenon, <2>5
<1> QED BY Zenon, <1>3, <1>4

LEMMA MilliCPUs == ASSUME NEW q \in Int PROVE CalculateMilliCPUs(q, Period) \in Int
BY SMT, ResourcesAssumption DEF CalculateMilliCPUs

LEMMA Sizes ==
    ASSUME NEW rs \in Seq(Request) PROVE CPUsOf(rs) \in Int /\ MemoryOf(rs) \in Int
<1> DEFINE fm == [i \in DOMAIN rs |-> CalculateMilliCPUs(rs[i].quota, Period)]
           fn == [i \in DOMAIN rs |-> rs[i].cpus]
           fl == [i \in DOMAIN rs |-> IF rs[i].limit > 0 THEN rs[i].limit ELSE 0]
<1>1. Len(rs) \in Nat /\ DOMAIN rs = 1 .. Len(rs) /\ \A i \in 1 .. Len(rs) : rs[i] \in Request BY SMT
<1>2. \A i \in 1 .. Len(rs) : rs[i].quota \in Int /\ rs[i].cpus \in Int /\ rs[i].limit \in Int
  BY SMT, <1>1 DEF Request
<1>3. \A i \in 1 .. Len(rs) : fm[i] \in Int /\ fn[i] \in Int /\ fl[i] \in Int
  <2>1. 0 \in Int BY SMT
  <2> QED BY Zenon, <1>1, <1>2, <2>1, MilliCPUs
<1> HIDE DEF fm, fn, fl
<1>4. Sum(fm, Len(rs)) \in Int /\ Sum(fn, Len(rs)) \in Int /\ Sum(fl, Len(rs)) \in Int
  BY Zenon, <1>1, <1>3, SumInt
<1>5. MemoryOf(rs) = Sum(fl, Len(rs)) BY Zenon DEF MemoryOf, fl
<1>6. CPUsOf(rs) \in {0, Sum(fn, Len(rs)), CalculateVCpusFromMilliCpus(Sum(fm, Len(rs)))}
  BY Zenon DEF CPUsOf, fm, fn
<1>7. CalculateVCpusFromMilliCpus(Sum(fm, Len(rs))) \in Int BY SMT, <1>4 DEF CalculateVCpusFromMilliCpus
<1> QED BY SMT, <1>4, <1>5, <1>6, <1>7

-----------------------------------------------------------------------------
(* The ways updateResources can end.                                        *)

Machine == [cpus : Int, online : SUBSET Int, mem : Int, hotMem : Int, virtioMem : BOOLEAN]
Bounded(v) ==
    /\ v \in Machine /\ v.cpus <= DefaultMaxVCPUs /\ v.mem >= MemorySize + v.hotMem

LEMMA MinOfTwo == \A a, b \in Int : Min({a, b}) = IF a <= b THEN a ELSE b
<1> SUFFICES ASSUME NEW a \in Int, NEW b \in Int PROVE Min({a, b}) = IF a <= b THEN a ELSE b OBVIOUS
<1> DEFINE m == IF a <= b THEN a ELSE b
<1>1. m \in {a, b} /\ \A y \in {a, b} : m =< y BY SMT
<1>2. \A x \in {a, b} : (\A y \in {a, b} : x =< y) => x = m BY SMT
<1> HIDE DEF m
<1>3. Min({a, b}) = m BY Zenon, <1>1, <1>2 DEF Min
<1> QED BY Zenon, <1>3 DEF m

LEMMA RoundUp ==
    ASSUME NEW m \in Nat, NEW b \in Nat
    PROVE  calcHotplugMemMiBSize(m, b) \in Int /\ calcHotplugMemMiBSize(m, b) >= m
<1>1. CASE b = 0 BY SMT, <1>1 DEF calcHotplugMemMiBSize
<1>2. CASE b # 0
  <2>1. b \in Int /\ b > 0 BY SMT, <1>2
  <2>2. ((m + b - 1) \div b) * b >= m BY SMT, <2>1
  <2>3. ((m + b - 1) \div b) * b \in Int BY SMT, <2>1
  <2> QED BY Zenon, <1>2, <2>2, <2>3 DEF calcHotplugMemMiBSize
<1> QED BY <1>1, <1>2

LEMMA OutcomeFacts ==
    \A v : /\ Ends(v).vm = v /\ Ends(v).ok /\ ~Ends(v).fault
           /\ Faulty(v).vm = v /\ ~Faulty(v).ok /\ Faulty(v).fault
           /\ Refused(v).vm = v /\ ~Refused(v).ok /\ ~Refused(v).fault
BY SMT DEF Ends, Faulty, Refused

LEMMA PluggedFacts ==
    ASSUME NEW v, Bounded(v), NEW n \in Int, n <= DefaultMaxVCPUs
    PROVE  /\ Bounded(Plugged(v, n)) /\ Plugged(v, n).cpus = n /\ Plugged(v, n).online = v.online \cap 1 .. n
           /\ Plugged(v, n).mem = v.mem /\ Plugged(v, n).hotMem = v.hotMem
<1>1. v \in Machine BY DEF Bounded
<1>2. Plugged(v, n) \in Machine BY Zenon, <1>1 DEF Plugged, Machine
<1>3. Plugged(v, n).cpus = n /\ Plugged(v, n).online = v.online \cap 1 .. n BY Zenon, <1>1 DEF Plugged, Machine
<1>4. Plugged(v, n).mem = v.mem /\ Plugged(v, n).hotMem = v.hotMem BY Zenon, <1>1 DEF Plugged, Machine
<1> QED BY Zenon, <1>2, <1>3, <1>4 DEF Bounded

\* ResizeVCPUs leaves the memory alone, stays in bounds and, if it succeeds, plugs
\* what is asked for up to the maximum; vCPUs that stay plugged stay online.
VCPUsGoal(v, req, o) ==
    /\ Bounded(o.vm) /\ o.vm.mem = v.mem /\ o.vm.hotMem = v.hotMem
    /\ o.fault <=> ~o.ok
    /\ o.ok => /\ o.vm.cpus = Min({DefaultMaxVCPUs, req})
               /\ v.online = 1 .. v.cpus => o.vm.online = (1 .. v.cpus) \cap (1 .. o.vm.cpus)

LEMMA VCPUsResized ==
    ASSUME NEW v, Bounded(v), NEW req \in Int, NEW o \in ResizeVCPUs(v, req)
    PROVE  VCPUsGoal(v, req, o)
<1> USE DEF VCPUsGoal
<1>0. v.cpus \in Int /\ v.cpus <= DefaultMaxVCPUs /\ DefaultMaxVCPUs \in Int
  BY SMT, ResourcesAssumption DEF Bounded, Machine
<1> DEFINE m == IF DefaultMaxVCPUs <= req THEN DefaultMaxVCPUs ELSE req
<1>m. Min({DefaultMaxVCPUs, req}) = m /\ m \in Int /\ m <= DefaultMaxVCPUs BY SMT, <1>0, MinOfTwo
<1> HIDE DEF m
<1>p. /\ Ends(Plugged(v, m)).vm = Plugged(v, m) /\ Ends(Plugged(v, m)).ok /\ ~Ends(Plugged(v, m)).fault
      /\ Bounded(Plugged(v, m)) /\ Plugged(v, m).cpus = m /\ Plugged(v, m).online = v.online \cap 1 .. m
      /\ Plugged(v, m).mem = v.mem /\ Plugged(v, m).hotMem = v.hotMem
  <2>1. Ends(Plugged(v, m)).vm = Plugged(v, m) /\ Ends(Plugged(v, m)).ok /\ ~Ends(Plugged(v, m)).fault
    BY Zenon, OutcomeFacts
  <2>2. /\ Bounded(Plugged(v, m)) /\ Plugged(v, m).cpus = m /\ Plugged(v, m).online = v.online \cap 1 .. m
        /\ Plugged(v, m).mem = v.mem /\ Plugged(v, m).hotMem = v.hotMem
    BY ZenonT(40), <1>m, PluggedFacts
  <2> QED BY Zenon, <2>1, <2>2
<1>1. CASE v.cpus < req
  <2> DEFINE n == Min({req - v.cpus, DefaultMaxVCPUs - v.cpus})
  <2>1. n = m - v.cpus
    <3>1. req - v.cpus \in Int /\ DefaultMaxVCPUs - v.cpus \in Int BY SMT, <1>0
    <3>2. n = IF req - v.cpus <= DefaultMaxVCPUs - v.cpus THEN req - v.cpus ELSE DefaultMaxVCPUs - v.cpus
      BY Zenon, <3>1, MinOfTwo
    <3> HIDE DEF n
    <3> QED BY SMT, <1>0, <3>2 DEF m
  <2>2. o \in {Ends(Plugged(v, v.cpus + n))} \cup {Faulty(Plugged(v, v.cpus + k)) : k \in 0 .. n - 1}
    BY Zenon, <1>1 DEF ResizeVCPUs, hotplugAddCPUs
  <2> HIDE DEF n
  <2>3. v.cpus + n = m BY SMT, <1>0, <1>m, <2>1
  <2>4. CASE o = Ends(Plugged(v, m)) BY Zenon, <1>m, <1>p, <2>4
  <2>5. ASSUME NEW k \in 0 .. n - 1, o = Faulty(Plugged(v, v.cpus + k)) PROVE Bounded(o.vm) /\ o.fault /\ ~o.ok
        /\ o.vm.mem = v.mem /\ o.vm.hotMem = v.hotMem
    <3>1. v.cpus + k \in Int /\ v.cpus + k <= DefaultMaxVCPUs BY SMT, <1>0, <1>m, <2>1, <2>5
    <3>2. o.vm = Plugged(v, v.cpus + k) /\ o.fault /\ ~o.ok BY Zenon, <2>5, OutcomeFacts
    <3>3. Bounded(Plugged(v, v.cpus + k)) /\ Plugged(v, v.cpus + k).mem = v.mem
          /\ Plugged(v, v.cpus + k).hotMem = v.hotMem
      BY Zenon, <3>1, PluggedFacts
    <3> QED BY Zenon, <3>2, <3>3
  <2> QED BY Zenon, <2>2, <2>3, <2>4, <2>5
<1>2. CASE v.cpus > req
  <2>1. o \in {Ends(Plugged(v, v.cpus - (v.cpus - req)))}
              \cup {Faulty(Plugged(v, v.cpus - k)) : k \in 0 .. (v.cpus - req) - 1}
    <3>1. ~(v.cpus < req) BY SMT, <1>0, <1>2
    <3> QED BY Zenon, <1>2, <3>1 DEF ResizeVCPUs, hotplugRemoveCPUs
  <2>2. v.cpus - (v.cpus - req) = m BY SMT, <1>0, <1>2 DEF m
  <2>3. CASE o = Ends(Plugged(v, m)) BY Zenon, <1>m, <1>p, <2>3
  <2>4. ASSUME NEW k \in 0 .. (v.cpus - req) - 1, o = Faulty(Plugged(v, v.cpus - k))
        PROVE Bounded(o.vm) /\ o.fault /\ ~o.ok /\ o.vm.mem = v.mem /\ o.vm.hotMem = v.hotMem
    <3>1. v.cpus - k \in Int /\ v.cpus - k <= DefaultMaxVCPUs BY SMT, <1>0, <2>4
    <3>2. o.vm = Plugged(v, v.cpus - k) /\ o.fault /\ ~o.ok BY Zenon, <2>4, OutcomeFacts
    <3>3. Bounded(Plugged(v, v.cpus - k)) /\ Plugged(v, v.cpus - k).mem = v.mem
          /\ Plugged(v, v.cpus - k).hotMem = v.hotMem
      BY Zenon, <3>1, PluggedFacts
    <3> QED BY Zenon, <3>2, <3>3
  <2> QED BY Zenon, <2>1, <2>2, <2>3, <2>4
<1>3. CASE v.cpus = req
  <2>1. o = Ends(v)
    <3>1. ~(v.cpus < req) /\ ~(v.cpus > req) BY SMT, <1>0, <1>3
    <3> QED BY Zenon, <3>1 DEF ResizeVCPUs
  <2>2. v.cpus = m BY SMT, <1>0, <1>3 DEF m
  <2> QED BY Zenon, <1>m, <2>1, <2>2, OutcomeFacts
<1> QED BY SMT, <1>0, <1>1, <1>2, <1>3

\* As many vCPUs come online as were added: all that were offline.
LEMMA AllComeOnline ==
    ASSUME NEW old \in Int, NEW new \in Int, old < new,
           NEW s \in kSubset(new - old, 1 .. new \ ((1 .. old) \cap (1 .. new)))
    PROVE  ((1 .. old) \cap (1 .. new)) \cup s = 1 .. new
<1> DEFINE from == IF old < 0 THEN 1 ELSE old + 1
           S == 1 .. new \ ((1 .. old) \cap (1 .. new))
<1>1. from \in Int /\ S = from .. new BY SMT
<1>2. IsFiniteSet(S) /\ Cardinality(S) = IF from > new THEN 0 ELSE new - from + 1 BY ZenonT(40), <1>1, FS_Interval
<1>3. s \in SUBSET S /\ Cardinality(s) = new - old BY Zenon DEF kSubset
<1>4. Cardinality(s) <= Cardinality(S) /\ (Cardinality(S) = Cardinality(s) => S = s) BY Zenon, <1>2, <1>3, FS_Subset
<1>5. Cardinality(S) = Cardinality(s) BY SMT, <1>1, <1>2, <1>3, <1>4
<1>6. S = s BY Zenon, <1>4, <1>5
<1> QED BY SMT, <1>6

LEMMA OnlineFacts ==
    ASSUME NEW v, Bounded(v), NEW s \in SUBSET Int
    PROVE  LET w == [v EXCEPT !.online = @ \cup s] IN
           Bounded(w) /\ w.cpus = v.cpus /\ w.online = v.online \cup s /\ w.mem = v.mem /\ w.hotMem = v.hotMem
<1> DEFINE w == [v EXCEPT !.online = @ \cup s]
<1>1. v \in Machine BY DEF Bounded
<1>2. w \in Machine BY Zenon, <1>1 DEF Machine
<1>3. w.cpus = v.cpus /\ w.online = v.online \cup s /\ w.mem = v.mem /\ w.hotMem = v.hotMem BY Zenon, <1>1 DEF Machine
<1> HIDE DEF w
<1>4. Bounded(w) BY Zenon, <1>2, <1>3 DEF Bounded
<1> QED BY Zenon, <1>3, <1>4 DEF w

LEMMA VCPUsOnlined ==
    ASSUME NEW a, Bounded(a), NEW old \in Int,
           NEW o \in IF old < a.cpus THEN onlineCPUs(a, a.cpus - old) ELSE {Ends(a)}
    PROVE  /\ Bounded(o.vm) /\ o.vm.cpus = a.cpus /\ o.vm.mem = a.mem /\ o.vm.hotMem = a.hotMem
           /\ o.fault <=> ~o.ok
           /\ o.ok /\ a.online = (1 .. old) \cap (1 .. a.cpus) => o.vm.online = 1 .. a.cpus
<1>0. a.cpus \in Int BY Zenon DEF Bounded, Machine
<1>1. CASE old < a.cpus
  <2>1. o \in {Ends([a EXCEPT !.online = @ \cup s]) : s \in kSubset(a.cpus - old, 1 .. a.cpus \ a.online)} \cup {Faulty(a)}
    BY Zenon, <1>1 DEF onlineCPUs
  <2>2. CASE o = Faulty(a)
    <3>1. o.vm = a /\ ~o.ok /\ o.fault BY Zenon, <2>2, OutcomeFacts
    <3> QED BY Zenon, <3>1
  <2>3. ASSUME NEW s \in kSubset(a.cpus - old, 1 .. a.cpus \ a.online), o = Ends([a EXCEPT !.online = @ \cup s])
        PROVE  /\ Bounded(o.vm) /\ o.vm.cpus = a.cpus /\ o.vm.mem = a.mem /\ o.vm.hotMem = a.hotMem
               /\ o.ok /\ ~o.fault
               /\ a.online = (1 .. old) \cap (1 .. a.cpus) => o.vm.online = 1 .. a.cpus
    <3> DEFINE w == [a EXCEPT !.online = @ \cup s]
    <3>1. o.vm = w /\ o.ok /\ ~o.fault BY Zenon, <2>3, OutcomeFacts
    <3>2. s \in SUBSET Int BY SMT DEF kSubset
    <3>3. Bounded(w) /\ w.cpus = a.cpus /\ w.online = a.online \cup s /\ w.mem = a.mem /\ w.hotMem = a.hotMem
      BY Zenon, <3>2, OnlineFacts
    <3> HIDE DEF w
    <3>4. a.online = (1 .. old) \cap (1 .. a.cpus) => a.online \cup s = 1 .. a.cpus
      <4> SUFFICES ASSUME a.online = (1 .. old) \cap (1 .. a.cpus) PROVE a.online \cup s = 1 .. a.cpus OBVIOUS
      <4>1. s \in kSubset(a.cpus - old, 1 .. a.cpus \ ((1 .. old) \cap (1 .. a.cpus))) BY Zenon
      <4>2. ((1 .. old) \cap (1 .. a.cpus)) \cup s = 1 .. a.cpus BY Zenon, <1>0, <1>1, <4>1, AllComeOnline
      <4> QED BY Zenon, <4>2
    <3> QED BY Zenon, <3>1, <3>3, <3>4
  <2> QED BY Zenon, <2>1, <2>2, <2>3
<1>2. CASE ~(old < a.cpus)
  <2>1. o = Ends(a) /\ o.vm = a /\ o.ok /\ ~o.fault BY Zenon, <1>2, OutcomeFacts
  <2>2. (1 .. old) \cap (1 .. a.cpus) = 1 .. a.cpus BY SMT, <1>0, <1>2
  <2> QED BY Zenon, <2>1, <2>2
<1> QED BY Zenon, <1>1, <1>2

\* What ResizeMemory gives: it leaves the vCPUs alone; QEMU's record of the memory is
\* never above what is plugged, and right unless something failed; on success there
\* is at least what is asked for.
MemoryGoal(v, req, o) ==
    /\ Bounded(o.vm) /\ o.vm.cpus = v.cpus /\ o.vm.online = v.online
    /\ o.fault => ~o.ok
    /\ ~o.fault /\ v.mem = MemorySize + v.hotMem => o.vm.mem = MemorySize + o.vm.hotMem
    /\ o.ok => o.vm.mem >= req

LEMMA MemoryResized ==
    ASSUME NEW v, Bounded(v), NEW req \in Int, NEW o \in ResizeMemory(v, req)
    PROVE  MemoryGoal(v, req, o)
<1> DEFINE now == MemorySize + v.hotMem
           add == calcHotplugMemMiBSize(req - now, BlockSizeMB)
<1>0. /\ v.mem \in Int /\ v.hotMem \in Int /\ v.cpus \in Int /\ v.cpus <= DefaultMaxVCPUs /\ v.mem >= now
      /\ now \in Int /\ MemorySize \in Int
  <2>1. v \in Machine /\ v.cpus <= DefaultMaxVCPUs /\ v.mem >= now BY Zenon DEF Bounded
  <2>2. v.mem \in Int /\ v.hotMem \in Int /\ v.cpus \in Int BY Zenon, <2>1 DEF Machine
  <2> QED BY SMT, <2>1, <2>2, ResourcesAssumption
<1> HIDE DEF now
<1>1. ASSUME o = Faulty(v) \/ o = Refused(v) PROVE MemoryGoal(v, req, o)
  <2>1. o.vm = v /\ ~o.ok BY Zenon, <1>1, OutcomeFacts
  <2> QED BY Zenon, <2>1 DEF MemoryGoal
<1>2. ASSUME NEW m \in Int, NEW h \in Int, m >= req, m >= MemorySize + h,
             v.mem = MemorySize + v.hotMem => m = MemorySize + h,
             o = Ends([v EXCEPT !.mem = m, !.hotMem = h])
      PROVE  MemoryGoal(v, req, o)
  <2> DEFINE w == [v EXCEPT !.mem = m, !.hotMem = h]
  <2>1. o.vm = w /\ o.ok /\ ~o.fault BY Zenon, <1>2, OutcomeFacts
  <2>0. v \in Machine BY Zenon DEF Bounded
  <2>2. w \in Machine /\ w.cpus = v.cpus /\ w.online = v.online /\ w.mem = m /\ w.hotMem = h
    BY Zenon, <2>0 DEF Machine
  <2> HIDE DEF w
  <2>3. Bounded(w) BY Zenon, <1>0, <1>2, <2>2 DEF Bounded
  <2> QED BY Zenon, <1>2, <2>1, <2>2, <2>3 DEF MemoryGoal
<1>3. CASE v.virtioMem /\ now # req
  <2>1. o \in {Ends([v EXCEPT !.mem = req, !.hotMem = req - MemorySize]), Faulty(v)}
    BY Zenon, <1>3 DEF ResizeMemory, now
  <2>2. /\ req - MemorySize \in Int /\ req >= req /\ req >= MemorySize + (req - MemorySize)
        /\ req = MemorySize + (req - MemorySize)
    BY SMT, <1>0
  <2> QED BY Zenon, <1>1, <1>2, <2>1, <2>2
<1>4. CASE ~(v.virtioMem /\ now # req) /\ now >= req
  <2>1. o = Ends(v) BY Zenon, <1>4 DEF ResizeMemory, now
  <2>2. o.vm = v /\ o.ok /\ ~o.fault BY Zenon, <2>1, OutcomeFacts
  <2>3. v.mem >= req BY SMT, <1>0, <1>4
  <2> QED BY Zenon, <2>2, <2>3 DEF MemoryGoal
<1>5. CASE ~(v.virtioMem /\ now # req) /\ ~(now >= req)
  <2>1. o = Refused(v) \/ o \in hotplugAddMemory(v, add) BY Zenon, <1>5 DEF ResizeMemory, now
  <2>2. add \in Int /\ add >= req - now
    <3>1. req - now \in Nat BY SMT, <1>0, <1>5
    <3>2. BlockSizeMB \in Nat BY ResourcesAssumption
    <3> QED BY Zenon, <3>1, <3>2, RoundUp
  <2> HIDE DEF add
  <2>3. CASE o = Ends([v EXCEPT !.mem = @ + add, !.hotMem = @ + add])
    <3>1. /\ v.mem + add \in Int /\ v.hotMem + add \in Int /\ v.mem + add >= req
          /\ v.mem + add >= MemorySize + (v.hotMem + add)
          /\ v.mem = MemorySize + v.hotMem => v.mem + add = MemorySize + (v.hotMem + add)
      BY SMT, <1>0, <2>2 DEF now
    <3>2. o = Ends([v EXCEPT !.mem = v.mem + add, !.hotMem = v.hotMem + add]) BY Zenon, <2>3
    <3> QED BY Zenon, <1>2, <3>1, <3>2
  <2>4. CASE o = Faulty([v EXCEPT !.mem = @ + add])
    <3> DEFINE w == [v EXCEPT !.mem = v.mem + add]
    <3>1. o.vm = w /\ ~o.ok /\ o.fault BY Zenon, <2>4, OutcomeFacts
    <3>2. v \in Machine /\ v.mem + add \in Int BY SMT, <1>0, <2>2 DEF Bounded
    <3>3. w \in Machine BY Zenon, <3>2 DEF Machine
    <3>4. w.cpus = v.cpus /\ w.online = v.online /\ w.mem = v.mem + add /\ w.hotMem = v.hotMem
      BY Zenon, <3>2 DEF Machine
    <3> HIDE DEF w
    <3>5. v.mem + add >= MemorySize + v.hotMem BY SMT, <1>0, <1>5, <2>2 DEF now
    <3>6. Bounded(w) BY Zenon, <1>0, <3>3, <3>4, <3>5 DEF Bounded
    <3> QED BY Zenon, <3>1, <3>4, <3>6 DEF MemoryGoal
  <2>5. o = Refused(v) \/ o = Faulty(v) \/ o = Ends([v EXCEPT !.mem = @ + add, !.hotMem = @ + add])
        \/ o = Faulty([v EXCEPT !.mem = @ + add])
    BY Zenon, <2>1 DEF hotplugAddMemory
  <2> QED BY Zenon, <1>1, <2>3, <2>4, <2>5
<1> QED BY Zenon, <1>3, <1>4, <1>5

AllOnline(v) == v.online = 1 .. v.cpus /\ v.mem = MemorySize + v.hotMem
Fits(v, rs) ==
    v.cpus = Min({DefaultMaxVCPUs, NumVCPUs + CPUsOf(rs)}) /\ v.mem >= MemorySize + MemoryOf(rs)

\* updateResources: its steps one after the other, up to the first error.
LEMMA ResourcesUpdated ==
    ASSUME NEW v, Bounded(v), NEW rs \in Seq(Request), NEW o \in updateResources(v, rs)
    PROVE  /\ Bounded(o.vm) /\ (~o.fault /\ AllOnline(v) => AllOnline(o.vm))
           /\ o.ok => Fits(o.vm, rs)
<1> DEFINE cpus == CPUsOf(rs) + NumVCPUs
           mem == MemoryOf(rs) + MemorySize
           CPUs(a) == IF v.cpus < a.cpus THEN onlineCPUs(a, a.cpus - v.cpus) ELSE {Ends(a)}
           Memory(a) == ResizeMemory(a, mem)
           Online(a) == {Ends(a), Faulty(a)}
           S1 == ResizeVCPUs(v, cpus)
           S2 == Then(S1, CPUs)
           S3 == Then(S2, Memory)
<1>0. /\ cpus \in Int /\ mem \in Int /\ cpus = NumVCPUs + CPUsOf(rs) /\ mem = MemorySize + MemoryOf(rs)
      /\ v.cpus \in Int
  <2>1. v.cpus \in Int BY Zenon DEF Bounded, Machine
  <2> QED BY SMT, <2>1, Sizes, ResourcesAssumption
<1> HIDE DEF cpus, mem
<1>1. ASSUME NEW a \in S1
      PROVE  VCPUsGoal(v, cpus, a)
  BY Zenon, <1>0, VCPUsResized
<1>2. ASSUME NEW b \in S2
      PROVE  /\ Bounded(b.vm) /\ b.vm.mem = v.mem /\ b.vm.hotMem = v.hotMem /\ (b.fault <=> ~b.ok)
             /\ b.ok => /\ b.vm.cpus = Min({DefaultMaxVCPUs, cpus})
                        /\ v.online = 1 .. v.cpus => b.vm.online = 1 .. b.vm.cpus
  <2>1. PICK a \in S1 : b \in IF a.ok THEN CPUs(a.vm) ELSE {a} BY Zenon DEF Then
  <2> HIDE DEF S1, S2
  <2>2. CASE ~a.ok
    <3>1. b = a BY Zenon, <2>1, <2>2
    <3> QED BY Zenon, <1>1, <2>2, <3>1 DEF VCPUsGoal
  <2>3. CASE a.ok
    <3> DEFINE A == a.vm
    <3>1. b \in CPUs(A) BY Zenon, <2>1, <2>3
    <3>2. Bounded(A) /\ A.mem = v.mem /\ A.hotMem = v.hotMem /\ A.cpus = Min({DefaultMaxVCPUs, cpus})
          /\ (v.online = 1 .. v.cpus => A.online = (1 .. v.cpus) \cap (1 .. A.cpus))
      BY Zenon, <1>1, <2>3 DEF VCPUsGoal
    <3> HIDE DEF A
    <3>3. /\ Bounded(b.vm) /\ b.vm.cpus = A.cpus /\ b.vm.mem = A.mem /\ b.vm.hotMem = A.hotMem
          /\ b.fault <=> ~b.ok
          /\ b.ok /\ A.online = (1 .. v.cpus) \cap (1 .. A.cpus) => b.vm.online = 1 .. A.cpus
      BY ZenonT(40), <1>0, <3>1, <3>2, VCPUsOnlined
    <3> QED BY Zenon, <3>2, <3>3
  <2> QED BY Zenon, <2>2, <2>3
<1>3. ASSUME NEW c \in S3
      PROVE  /\ Bounded(c.vm) /\ (c.fault => ~c.ok) /\ (~c.fault /\ AllOnline(v) => AllOnline(c.vm))
             /\ c.ok => Fits(c.vm, rs)
  <2>1. PICK b \in S2 : c \in IF b.ok THEN Memory(b.vm) ELSE {b} BY Zenon DEF Then
  <2> HIDE DEF S2, S3
  <2>2. CASE ~b.ok
    <3>1. c = b BY Zenon, <2>1, <2>2
    <3> QED BY Zenon, <1>2, <2>2, <3>1
  <2>3. CASE b.ok
    <3> DEFINE B == b.vm
    <3>1. c \in ResizeMemory(B, mem) BY Zenon, <2>1, <2>3
    <3>2. Bounded(B) /\ B.mem = v.mem /\ B.hotMem = v.hotMem /\ B.cpus = Min({DefaultMaxVCPUs, cpus})
          /\ (v.online = 1 .. v.cpus => B.online = 1 .. B.cpus)
      BY Zenon, <1>2, <2>3
    <3> HIDE DEF B
    <3>3. MemoryGoal(B, mem, c) BY Zenon, <1>0, <3>1, <3>2, MemoryResized
    <3> QED BY Zenon, <1>0, <3>2, <3>3 DEF MemoryGoal, AllOnline, Fits
  <2> QED BY Zenon, <2>2, <2>3
<1>4. o \in Then(S3, Online) BY Zenon DEF updateResources, cpus, mem
<1>5. PICK c \in S3 : o \in IF c.ok THEN {Ends(c.vm), Faulty(c.vm)} ELSE {c} BY Zenon, <1>4 DEF Then
<1> HIDE DEF S3
<1>6. CASE ~c.ok
  <2>1. o = c BY Zenon, <1>5, <1>6
  <2> QED BY Zenon, <1>3, <2>1
<1>7. CASE c.ok
  <2>1. o \in {Ends(c.vm), Faulty(c.vm)} BY Zenon, <1>5, <1>7
  <2>2. o.vm = c.vm BY Zenon, <2>1, OutcomeFacts
  <2> QED BY Zenon, <1>3, <1>7, <2>2
<1> QED BY Zenon, <1>6, <1>7

-----------------------------------------------------------------------------
(* The inductive invariant.                                                 *)

Element == [id : Ids, res : Nat]
States == {"none", "ready", "running", "stopped"}

\* Every array has elements whose pointers are nil or to an object, the list is a part
\* of the last array, and each container of the sandbox is in it and points to an
\* element of some array.
SliceInv ==
    /\ arrs \in Seq(Seq(Element)) /\ Len(arrs) > 0 /\ len \in 0 .. Len(cur)
    /\ objs \in Seq(Request) /\ want \in [Ids -> Request] /\ state \in [Ids -> States] /\ state[Pod] # "none"
    /\ \A a \in 1 .. Len(arrs) : \A i \in 1 .. Len(arrs[a]) : arrs[a][i].res <= Len(objs)
    /\ ptr \in [Ids -> Nat \X Nat]
    /\ \A c \in Ids : ptr[c][1] \in 1 .. Len(arrs) /\ ptr[c][2] \in 1 .. Len(arrs[ptr[c][1]])
    /\ \A c \in Ids : state[c] # "none" => \E i \in 1 .. len : cur[i].id = c

\* The object that an update of c changes.
Held(as, p, c) == as[p[c][1]][p[c][2]].res

\* While no container was deleted: the list has each container once; the index of
\* its pointer is that of its element; the element has the object that its updates
\* change, or none at all; that object is its own and says what was asked for, and a
\* container that has none was not asked for anything.
ListInv ==
    /\ \A i, j \in 1 .. len : cur[i].id = cur[j].id => i = j
    /\ \A i \in 1 .. len : state[cur[i].id] # "none" /\ ptr[cur[i].id][2] = i
    /\ \A i \in 1 .. len :
          cur[i].res # Nil => cur[i].res = Held(arrs, ptr, cur[i].id) /\ objs[cur[i].res] = want[cur[i].id]
    /\ \A c, d \in Ids : state[c] # "none" /\ state[d] # "none" /\ c # d /\ Held(arrs, ptr, c) # Nil =>
          Held(arrs, ptr, c) # Held(arrs, ptr, d)
    /\ \A c \in Ids : state[c] # "none" /\ Held(arrs, ptr, c) = Nil => want[c] = NoRequest

\* The machine is in its bounds and, unless something failed, all of it is online.
MachineInv == Bounded(vm) /\ faults \in Nat /\ (faults = 0 => AllOnline(vm))

LEMMA NoRequestType == NoRequest \in Request
BY SMT DEF NoRequest, Request

\* The requests of the first n elements of L that are counted.
CountedOf(L, n, st, ob) ==
    [i \in 1 .. n |-> IF L[i].res = Nil \/ st[L[i].id] = "stopped" THEN NoRequest ELSE ob[L[i].res]]

LEMMA CountedType ==
    ASSUME NEW L \in Seq(Element), NEW n \in 0 .. Len(L), NEW ob \in Seq(Request), NEW st,
           \A i \in 1 .. n : L[i].res <= Len(ob)
    PROVE  /\ Counted(SubSeq(L, 1, n), st, ob) \in Seq(Request)
           /\ Counted(SubSeq(L, 1, n), st, ob) = CountedOf(L, n, st, ob)
<1> DEFINE q == SubSeq(L, 1, n)
<1>1. q \in Seq(Element) /\ DOMAIN q = 1 .. n /\ \A i \in 1 .. n : q[i] = L[i] BY SMT
<1> HIDE DEF q
<1> DEFINE r(i) == IF L[i].res = Nil \/ st[L[i].id] = "stopped" THEN NoRequest ELSE ob[L[i].res]
<1>2. Counted(q, st, ob) = [i \in 1 .. n |-> r(i)] BY Zenon, <1>1 DEF Counted
<1>3. ASSUME NEW i \in 1 .. n PROVE r(i) \in Request
  <2>0. L[i] \in Element BY SMT
  <2>1. L[i].res \in Nat /\ L[i].res <= Len(ob) BY Zenon, <2>0 DEF Element
  <2>2. CASE L[i].res = Nil BY Zenon, <2>2, NoRequestType
  <2>3. CASE L[i].res # Nil
    <3>1. ob[L[i].res] \in Request BY SMT, <2>1, <2>3 DEF Nil
    <3> QED BY Zenon, <3>1, NoRequestType
  <2> QED BY Zenon, <2>2, <2>3
<1> HIDE DEF r
<1>4. n \in Nat /\ [i \in 1 .. n |-> r(i)] \in Seq(Request) BY SMT, <1>3
<1> QED BY Zenon, <1>2, <1>4 DEF q, r, CountedOf

LEMMA Faults ==
    ASSUME faults \in Nat, NEW b, Fault(b)
    PROVE  faults' \in Nat /\ (b => faults' # 0) /\ (faults' = 0 => faults = 0)
BY SMT DEF Fault

LEMMA Resized ==
    ASSUME MachineInv, NEW el, NEW st, NEW ob, NEW ok \in BOOLEAN, Counted(el, st, ob) \in Seq(Request),
           Resizes(el, st, ob, ok)
    PROVE  MachineInv' /\ (last' = "sized" => Fits(vm', Counted(el, st, ob)))
<1>1. PICK o \in updateResources(vm, Counted(el, st, ob)) :
          o.ok = ok /\ vm' = o.vm /\ Fault(o.fault) /\ last' = IF ok THEN "sized" ELSE "failed"
  BY Zenon DEF Resizes
<1>2. Bounded(o.vm) /\ (~o.fault /\ AllOnline(vm) => AllOnline(o.vm)) /\ (o.ok => Fits(o.vm, Counted(el, st, ob)))
  BY Zenon, ResourcesUpdated DEF MachineInv
<1>3. faults' \in Nat /\ (o.fault => faults' # 0) /\ (faults' = 0 => faults = 0) BY Zenon, <1>1, Faults DEF MachineInv
<1>4. last' = "sized" => o.ok BY SMT, <1>1
<1> QED BY Zenon, <1>1, <1>2, <1>3, <1>4 DEF MachineInv, AllOnline

LEMMA FailedBefore == ASSUME MachineInv, FailsBefore PROVE MachineInv' /\ last' = "failed"
<1>1. Fault(TRUE) /\ last' = "failed" /\ vm' = vm BY Zenon DEF FailsBefore
<1>2. faults' \in Nat /\ faults' # 0 BY Zenon, <1>1, Faults DEF MachineInv
<1> QED BY Zenon, <1>1, <1>2 DEF MachineInv

LEMMA FailedAfter ==
    ASSUME MachineInv, NEW el, NEW st, NEW ob, Counted(el, st, ob) \in Seq(Request), FailsAfter(el, st, ob)
    PROVE  MachineInv' /\ last' = "failed"
<1>1. PICK o \in updateResources(vm, Counted(el, st, ob)) : vm' = o.vm /\ Fault(TRUE) /\ last' = "failed"
  BY Zenon DEF FailsAfter
<1>2. faults' \in Nat /\ faults' # 0 BY Zenon, <1>1, Faults DEF MachineInv
<1>3. Bounded(o.vm) BY Zenon, ResourcesUpdated DEF MachineInv
<1> QED BY Zenon, <1>1, <1>2, <1>3 DEF MachineInv

-----------------------------------------------------------------------------
(* What append, an update and a deletion do to the arrays.                  *)

LEMMA ItemType == ASSUME NEW S, NEW q \in Seq(S), NEW i \in 1 .. Len(q) PROVE q[i] \in S
BY SMT

\* Q is q with e at k.
ItemSet(Q, S, q, k, e) ==
    Q \in Seq(S) /\ Len(Q) = Len(q) /\ \A i \in 1 .. Len(q) : Q[i] = IF i = k THEN e ELSE q[i]

LEMMA ItemReplaced ==
    ASSUME NEW S, NEW q \in Seq(S), NEW k \in 1 .. Len(q), NEW e \in S
    PROVE  ItemSet([q EXCEPT ![k] = e], S, q, k, e)
BY SMT DEF ItemSet

\* A is as, with e at k in the array at n.
Replaced(A, as, n, k, e) ==
    /\ A \in Seq(Seq(Element)) /\ Len(A) = Len(as) /\ A[n][k] = e
    /\ \A a \in 1 .. Len(as) : /\ Len(A[a]) = Len(as[a])
                               /\ \A i \in 1 .. Len(as[a]) : a # n \/ i # k => A[a][i] = as[a][i]

LEMMA Replaces ==
    ASSUME NEW as \in Seq(Seq(Element)), NEW n \in 1 .. Len(as), NEW k \in 1 .. Len(as[n]), NEW e \in Element,
           NEW A, A = [as EXCEPT ![n] = [as[n] EXCEPT ![k] = e]]
    PROVE  Replaced(A, as, n, k, e)
<1> DEFINE R == [as[n] EXCEPT ![k] = e]
<1>1. as[n] \in Seq(Element) BY Zenon, ItemType
<1>2. ItemSet(R, Element, as[n], k, e) BY Zenon, <1>1, ItemReplaced
<1>3. A = [as EXCEPT ![n] = R] OBVIOUS
<1> HIDE DEF R
<1>4. R \in Seq(Element) BY Zenon, <1>2 DEF ItemSet
<1>5. ItemSet([as EXCEPT ![n] = R], Seq(Element), as, n, R) BY Zenon, <1>4, ItemReplaced
<1>6. ItemSet(A, Seq(Element), as, n, R) BY Zenon, <1>3, <1>5
<1> QED BY ZenonT(40), <1>2, <1>6 DEF Replaced, ItemSet

LEMMA ListFacts ==
    ASSUME SliceInv
    PROVE  /\ Len(arrs) \in 1 .. Len(arrs) /\ cur = arrs[Len(arrs)] /\ cur \in Seq(Element) /\ Len(cur) \in Nat
           /\ len \in Nat /\ len > 0 /\ len <= Len(cur) /\ Len(objs) \in Nat /\ Pod \in Ids
           /\ \A i \in 1 .. len :
                 cur[i] \in Element /\ cur[i].res <= Len(objs) /\ cur[i].id \in Ids /\ cur[i].res \in Nat
<1>1. Pod \in Ids BY Zenon DEF Ids
<1>2. cur = arrs[Len(arrs)] BY Zenon DEF cur, Current
<1>3. Len(arrs) \in 1 .. Len(arrs) BY SMT DEF SliceInv
<1>4. cur \in Seq(Element) BY SMT, <1>2, <1>3 DEF SliceInv
<1>5. Len(cur) \in Nat /\ len \in Nat /\ len <= Len(cur) /\ Len(objs) \in Nat BY SMT, <1>4 DEF SliceInv
<1>6. \E i \in 1 .. len : cur[i].id = Pod BY Zenon, <1>1 DEF SliceInv
<1>7. len > 0 BY SMT, <1>5, <1>6
<1>8. ASSUME NEW i \in 1 .. len
      PROVE  cur[i] \in Element /\ cur[i].res <= Len(objs) /\ cur[i].id \in Ids /\ cur[i].res \in Nat
  <2>1. i \in 1 .. Len(cur) /\ cur[i] \in Element BY SMT, <1>4, <1>5
  <2>2. cur[i].res <= Len(objs) BY Zenon, <1>2, <1>3, <2>1 DEF SliceInv
  <2> QED BY Zenon, <2>1, <2>2 DEF Element
<1> QED BY Zenon, <1>1, <1>2, <1>3, <1>4, <1>5, <1>7, <1>8

\* append: the list and e behind it; in the other places nothing changes, except
\* behind the list in the array that has room.
Extended(A, e) ==
    /\ A \in Seq(Seq(Element)) /\ Len(A) >= Len(arrs) /\ Len(A) > 0
    /\ len + 1 \in 1 .. Len(Current(A)) /\ Current(A)[len + 1] = e
    /\ \A i \in 1 .. len : Current(A)[i] = cur[i]
    /\ \A a \in 1 .. Len(arrs) :
          /\ Len(A[a]) = Len(arrs[a])
          /\ \A i \in 1 .. Len(arrs[a]) : a # Len(arrs) \/ i # len + 1 => A[a][i] = arrs[a][i]
    /\ \A a \in 1 .. Len(A) : \A i \in 1 .. Len(A[a]) : A[a][i] = e \/ A[a][i].res <= Len(objs)

LEMMA Extends ==
    ASSUME SliceInv, NEW e \in Element PROVE Extended(Appended(e), e)
<1> DEFINE A == Appended(e)
           n == Len(arrs)
<1>0. /\ n \in Nat /\ n > 0 /\ n \in 1 .. Len(arrs) /\ cur = arrs[n] /\ cur \in Seq(Element) /\ Len(cur) \in Nat
      /\ len \in Nat /\ len > 0 /\ len <= Len(cur) /\ Len(objs) \in Nat /\ arrs \in Seq(Seq(Element))
  BY SMT, ListFacts DEF SliceInv
<1>r. \A a \in 1 .. Len(arrs) : \A i \in 1 .. Len(arrs[a]) : arrs[a][i].res <= Len(objs) BY Zenon DEF SliceInv
<1>1. CASE len < Len(cur)
  <2>1. A = [arrs EXCEPT ![n] = [arrs[n] EXCEPT ![len + 1] = e]] BY Zenon, <1>1 DEF Appended
  <2>2. len + 1 \in 1 .. Len(arrs[n]) /\ len + 1 \in 1 .. Len(cur) BY SMT, <1>0, <1>1
  <2> HIDE DEF A, n
  <2>3. Replaced(A, arrs, n, len + 1, e) BY Zenon, <1>0, <2>1, <2>2, Replaces
  <2>4. /\ A \in Seq(Seq(Element)) /\ Len(A) = n /\ A[n][len + 1] = e
        /\ \A a \in 1 .. n : /\ Len(A[a]) = Len(arrs[a])
                             /\ \A i \in 1 .. Len(arrs[a]) : a # n \/ i # len + 1 => A[a][i] = arrs[a][i]
    BY Zenon, <2>3 DEF Replaced, n
  <2>5. Current(A) = A[n] /\ Len(Current(A)) = Len(cur) BY Zenon, <1>0, <2>4 DEF Current, n
  <2>6. \A i \in 1 .. len : i \in 1 .. Len(arrs[n]) /\ i # len + 1 BY SMT, <1>0
  <2>7. \A i \in 1 .. len : Current(A)[i] = cur[i] BY Zenon, <1>0, <2>4, <2>5, <2>6 DEF n
  <2>8. \A a \in 1 .. Len(A) : \A i \in 1 .. Len(A[a]) : A[a][i] = e \/ A[a][i].res <= Len(objs)
    BY ZenonT(40), <1>r, <2>4 DEF n
  <2>9. Len(A) >= Len(arrs) /\ Len(A) > 0 BY SMT, <1>0, <2>4 DEF n
  <2> QED BY Zenon, <2>2, <2>4, <2>5, <2>7, <2>8, <2>9 DEF Extended, A, n
<1>2. CASE ~(len < Len(cur))
  <2> DEFINE N == [i \in 1 .. 2 * len |-> IF i <= len THEN cur[i] ELSE IF i = len + 1 THEN e ELSE Unused]
  <2>1. A = Append(arrs, N) BY Zenon, <1>2 DEF Appended
  <2>2. Unused \in Element /\ Unused.res = 0 BY SMT DEF Unused, Element, Ids, Nil
  <2>3. \A i \in 1 .. len : cur[i] \in Element /\ cur[i].res <= Len(objs) BY Zenon, ListFacts
  <2>4. /\ N \in Seq(Element) /\ Len(N) = 2 * len /\ len + 1 \in 1 .. Len(N) /\ N[len + 1] = e
        /\ \A i \in 1 .. len : N[i] = cur[i]
    BY SMT, <1>0, <2>2, <2>3
  <2>5. \A i \in 1 .. Len(N) : N[i] = e \/ N[i].res <= Len(objs) BY SMT, <1>0, <2>2, <2>3, <2>4
  <2> HIDE DEF N, A, n
  <2>6. /\ A \in Seq(Seq(Element)) /\ Len(A) = Len(arrs) + 1 /\ A[Len(arrs) + 1] = N
        /\ \A a \in 1 .. Len(arrs) : A[a] = arrs[a]
    BY SMT, <1>0, <2>1, <2>4
  <2>7. Current(A) = N BY Zenon, <2>6 DEF Current
  <2>8. \A a \in 1 .. Len(A) : a \in 1 .. Len(arrs) \/ a = Len(arrs) + 1 BY SMT, <1>0, <2>6
  <2>9. \A a \in 1 .. Len(A) : \A i \in 1 .. Len(A[a]) : A[a][i] = e \/ A[a][i].res <= Len(objs)
    BY Zenon, <1>r, <2>5, <2>6, <2>8
  <2>10. Len(A) >= Len(arrs) /\ Len(A) > 0 BY SMT, <1>0, <2>6 DEF n
  <2> QED BY Zenon, <2>4, <2>6, <2>7, <2>9, <2>10 DEF Extended, A
<1> QED BY Zenon, <1>1, <1>2

-----------------------------------------------------------------------------
(* Sizing: what is counted is what was asked for.                           *)

\* What the first n elements of L ask for, the containers in their states st.
AskedOf(L, n, st, w) ==
    [i \in 1 .. n |-> IF L[i].id \in {c \in Ids : st[c] \in {"ready", "running"}} THEN w[L[i].id] ELSE NoRequest]

LEMMA CountedIsAsked ==
    ASSUME NEW L \in Seq(Element), NEW n \in 0 .. Len(L), NEW ob \in Seq(Request), NEW st \in [Ids -> States], NEW w,
           \A i \in 1 .. n : /\ L[i].id \in Ids /\ L[i].res <= Len(ob) /\ L[i].res # Nil
                             /\ ob[L[i].res] = w[L[i].id] /\ st[L[i].id] # "none"
    PROVE  Counted(SubSeq(L, 1, n), st, ob) = AskedOf(L, n, st, w)
<1> DEFINE f(i) == IF L[i].res = Nil \/ st[L[i].id] = "stopped" THEN NoRequest ELSE ob[L[i].res]
           g(i) == IF L[i].id \in {c \in Ids : st[c] \in {"ready", "running"}} THEN w[L[i].id] ELSE NoRequest
<1>1. Counted(SubSeq(L, 1, n), st, ob) = [i \in 1 .. n |-> f(i)]
  <2>1. Counted(SubSeq(L, 1, n), st, ob) = CountedOf(L, n, st, ob) BY Zenon, CountedType
  <2> QED BY Zenon, <2>1 DEF CountedOf
<1>2. ASSUME NEW i \in 1 .. n PROVE f(i) = g(i)
  <2>1. st[L[i].id] \in {"ready", "running", "stopped"} BY Zenon DEF States
  <2>2. CASE st[L[i].id] = "stopped"
    <3>1. st[L[i].id] \notin {"ready", "running"} BY SMT, <2>2
    <3> QED BY Zenon, <2>2, <3>1
  <2>3. CASE st[L[i].id] \in {"ready", "running"}
    <3>1. st[L[i].id] # "stopped" BY SMT, <2>3
    <3> QED BY Zenon, <2>3, <3>1
  <2> QED BY Zenon, <2>1, <2>2, <2>3
<1> HIDE DEF f, g
<1>3. [i \in 1 .. n |-> f(i)] = [i \in 1 .. n |-> g(i)] BY Zenon, <1>2
<1> QED BY Zenon, <1>1, <1>3 DEF g, AskedOf

\* What the list has after an operation, as updateResources counts it.
LEMMA CountedNext ==
    ASSUME SliceInv'
    PROVE  /\ Counted(SubSeq(Current(arrs'), 1, len'), state', objs') \in Seq(Request)
           /\ cur' = Current(arrs') /\ Current(arrs') \in Seq(Element) /\ len' \in 0 .. Len(Current(arrs'))
           /\ objs' \in Seq(Request) /\ state' \in [Ids -> States]
           /\ \A i \in 1 .. len' : Current(arrs')[i].id \in Ids /\ Current(arrs')[i].res <= Len(objs')
<1> DEFINE L == Current(arrs')
<1>1. /\ arrs' \in Seq(Seq(Element)) /\ Len(arrs') \in 1 .. Len(arrs') /\ cur' = L /\ L = arrs'[Len(arrs')]
      /\ len' \in 0 .. Len(L) /\ objs' \in Seq(Request) /\ state' \in [Ids -> States]
  BY SMT DEF SliceInv, cur, Current
<1> HIDE DEF L
<1>2. L \in Seq(Element) BY Zenon, <1>1, ItemType
<1>3. \A i \in 1 .. len' : i \in 1 .. Len(L) /\ L[i] \in Element BY SMT, <1>1, <1>2
<1>4. \A i \in 1 .. len' : L[i].id \in Ids /\ L[i].res <= Len(objs')
  <2>1. \A a \in 1 .. Len(arrs') : \A i \in 1 .. Len(arrs'[a]) : arrs'[a][i].res <= Len(objs') BY Zenon DEF SliceInv
  <2> QED BY Zenon, <1>1, <1>3, <2>1 DEF Element
<1>5. Counted(SubSeq(L, 1, len'), state', objs') \in Seq(Request) BY Zenon, <1>1, <1>2, <1>4, CountedType
<1> QED BY Zenon, <1>1, <1>2, <1>4, <1>5 DEF L

\* The end of an operation that has resized the machine for what the list now has.
LEMMA SizedStep ==
    ASSUME MachineInv, SliceInv', deleted' \/ ListInv', NEW ok \in BOOLEAN,
           Resizes(SubSeq(Current(arrs'), 1, len'), state', objs', ok)
    PROVE  MachineInv' /\ SizedWithoutDeletion'
<1> DEFINE L == Current(arrs')
           q == Counted(SubSeq(L, 1, len'), state', objs')
<1>1. /\ cur' = L /\ L \in Seq(Element) /\ len' \in 0 .. Len(L) /\ objs' \in Seq(Request)
      /\ state' \in [Ids -> States] /\ q \in Seq(Request)
  BY Zenon, CountedNext
<1>4. \A i \in 1 .. len' : L[i].id \in Ids /\ L[i].res <= Len(objs') BY Zenon, CountedNext
<1> HIDE DEF L
<1>6. MachineInv' /\ (last' = "sized" => Fits(vm', q))
  <2>1. Resizes(SubSeq(L, 1, len'), state', objs', ok) BY Zenon DEF L
  <2> QED BY Zenon, <1>1, <2>1, Resized
<1>7. ASSUME last' = "sized", ~deleted', \A i \in 1 .. len' : L[i].res # Nil PROVE FitsRequests'
  <2>1. ListInv' BY Zenon, <1>7
  <2>2. \A i \in 1 .. len' : objs'[L[i].res] = want'[L[i].id] /\ state'[L[i].id] # "none"
    BY Zenon, <1>1, <1>7, <2>1 DEF ListInv
  <2>3. q = AskedOf(L, len', state', want')
    <3>1. \A i \in 1 .. len' : /\ L[i].id \in Ids /\ L[i].res <= Len(objs') /\ L[i].res # Nil
                               /\ objs'[L[i].res] = want'[L[i].id] /\ state'[L[i].id] # "none"
      BY Zenon, <1>4, <1>7, <2>2
    <3> QED BY ZenonT(40), <1>1, <3>1, CountedIsAsked
  <2>4. q = Asked' BY Zenon, <1>1, <2>3 DEF Asked, Live, AskedOf
  <2> HIDE DEF q
  <2>5. Fits(vm', Asked') BY Zenon, <1>6, <1>7, <2>4
  <2>6. vm'.cpus = Min({DefaultMaxVCPUs, NumVCPUs + CPUsOf(Asked')}) /\ vm'.mem >= MemorySize + MemoryOf(Asked')
    BY Zenon, <2>5 DEF Fits
  <2>7. (\A i, j \in 1 .. len : cur[i].id = cur[j].id => i = j)' BY Zenon, <2>1 DEF ListInv
  <2>8. \A c \in Ids : state'[c] \in {"ready", "running"} => state'[c] # "none" BY SMT
  <2>9. (\A c \in Live : \E i \in 1 .. len : cur[i].id = c)' BY Zenon, <2>8 DEF SliceInv, Live
  <2> QED BY Zenon, <2>6, <2>7, <2>9 DEF FitsRequests
<1> QED BY Zenon, <1>1, <1>6, <1>7 DEF SizedWithoutDeletion

-----------------------------------------------------------------------------
(* Init and the operations.                                                 *)

Inv == SliceInv /\ (deleted \/ ListInv) /\ MachineInv /\ SizedWithoutDeletion

LEMMA Inits == ASSUME Init PROVE Inv
<1>1. PICK r \in Requests : objs = <<r>> /\ want = [c \in Ids |-> IF c = Pod THEN r ELSE NoRequest] BY Zenon DEF Init
<1>2. /\ arrs = << <<[id |-> Pod, res |-> 1]>> >> /\ len = 1 /\ ptr = [c \in Ids |-> <<1, 1>>]
      /\ state = [c \in Ids |-> IF c = Pod THEN "running" ELSE "none"] /\ last = "other" /\ faults = 0
  BY Zenon DEF Init
<1>3. r \in Request /\ Pod \in Ids BY Zenon, ResourcesAssumption DEF Ids
<1> DEFINE e == [id |-> Pod, res |-> 1]
<1>4. e \in Element /\ e.id = Pod /\ e.res = 1 BY SMT, <1>3 DEF Element
<1> HIDE DEF e
<1>5. /\ <<e>> \in Seq(Element) /\ Len(<<e>>) = 1 /\ <<e>>[1] = e /\ << <<e>> >> \in Seq(Seq(Element))
      /\ Len(<< <<e>> >>) = 1 /\ << <<e>> >>[1] = <<e>>
  BY SMT, <1>4
<1>6. arrs = << <<e>> >> BY Zenon, <1>2 DEF e
<1>7. /\ arrs \in Seq(Seq(Element)) /\ Len(arrs) = 1 /\ arrs[1] = <<e>> /\ Len(arrs[1]) = 1 /\ arrs[1][1] = e
      /\ cur = <<e>>
  BY Zenon, <1>5, <1>6 DEF cur, Current
<1>8. objs \in Seq(Request) /\ Len(objs) = 1 /\ objs[1] = r BY SMT, <1>1, <1>3
<1>9. \A i : i \in 1 .. 1 <=> i = 1 BY SMT
<1>10. \A c \in Ids : ptr[c] \in Nat \X Nat /\ ptr[c][1] = 1 /\ ptr[c][2] = 1 BY SMT, <1>2
<1>11. SliceInv
  <2>1. Len(arrs) > 0 /\ len \in 0 .. Len(cur) /\ 1 <= 1 BY SMT, <1>2, <1>5, <1>7
  <2>2. want \in [Ids -> Request] BY Zenon, <1>1, <1>3, NoRequestType
  <2>3. state \in [Ids -> States] /\ state[Pod] # "none" BY SMT, <1>2, <1>3 DEF States
  <2>4. \A a \in 1 .. Len(arrs) : \A i \in 1 .. Len(arrs[a]) : arrs[a][i].res <= Len(objs)
    BY Zenon, <1>4, <1>7, <1>8, <1>9, <2>1
  <2>5. ptr \in [Ids -> Nat \X Nat] BY Zenon, <1>2, <1>10
  <2>6. \A c \in Ids : ptr[c][1] \in 1 .. Len(arrs) /\ ptr[c][2] \in 1 .. Len(arrs[ptr[c][1]])
    BY Zenon, <1>7, <1>9, <1>10
  <2>7. \A c \in Ids : state[c] # "none" => \E i \in 1 .. len : cur[i].id = c
    BY Zenon, <1>2, <1>4, <1>5, <1>7, <1>9
  <2> QED BY Zenon, <1>7, <1>8, <2>1, <2>2, <2>3, <2>4, <2>5, <2>6, <2>7 DEF SliceInv
<1>12. ListInv
  <2>1. \A i \in 1 .. len : i = 1 /\ cur[i] = e BY Zenon, <1>2, <1>5, <1>7, <1>9
  <2>2. state[Pod] # "none" /\ \A c \in Ids : state[c] # "none" => c = Pod BY SMT, <1>2, <1>3
  <2>3. Held(arrs, ptr, Pod) = 1 BY Zenon, <1>3, <1>4, <1>7, <1>10 DEF Held
  <2>5. 1 # Nil BY SMT DEF Nil
  <2>4. want[Pod] = r BY Zenon, <1>1, <1>3
  <2> QED BY Zenon, <1>3, <1>4, <1>8, <1>10, <2>1, <2>2, <2>3, <2>4, <2>5 DEF ListInv
<1>13. MachineInv
  <2>1. PICK b \in VirtioMem : vm = [cpus |-> NumVCPUs, online |-> 1 .. NumVCPUs,
                                     mem |-> MemorySize, hotMem |-> 0, virtioMem |-> b]
    BY Zenon DEF Init
  <2>2. vm \in Machine BY SMT, <2>1, ResourcesAssumption DEF Machine
  <2>3. vm.cpus = NumVCPUs /\ vm.online = 1 .. NumVCPUs /\ vm.mem = MemorySize /\ vm.hotMem = 0 BY SMT, <2>1
  <2>4. MemorySize = MemorySize + 0 /\ MemorySize >= MemorySize + 0 /\ 0 \in Nat /\ NumVCPUs <= DefaultMaxVCPUs
    BY SMT, ResourcesAssumption
  <2> QED BY Zenon, <1>2, <2>2, <2>3, <2>4 DEF MachineInv, Bounded, AllOnline
<1>14. SizedWithoutDeletion BY SMT, <1>2 DEF SizedWithoutDeletion
<1> QED BY Zenon, <1>11, <1>12, <1>13, <1>14 DEF Inv

\* The objects with one more: what the elements have stays.
MoreObjects ==
    /\ objs' \in Seq(Request) /\ Len(objs) \in Nat /\ Len(objs') \in Nat /\ Len(objs) <= Len(objs')
    /\ \A k \in 1 .. Len(objs) : objs'[k] = objs[k]

\* A container that was not deleted holds the object it held: append writes behind the list.
LEMMA HeldByOthers ==
    ASSUME SliceInv, ListInv, NEW e, Extended(arrs', e), NEW d \in Ids, state[d] # "none", ptr'[d] = ptr[d]
    PROVE  /\ Held(arrs', ptr', d) = Held(arrs, ptr, d)
           /\ Held(arrs, ptr, d) \in Nat /\ Held(arrs, ptr, d) <= Len(objs)
<1>1. PICK i \in 1 .. len : cur[i].id = d BY Zenon DEF SliceInv
<1>2. ptr[d][2] = i BY Zenon, <1>1 DEF ListInv
<1>3. ptr[d][2] # len + 1 BY SMT, <1>2 DEF SliceInv
<1>4. ptr[d][1] \in 1 .. Len(arrs) /\ ptr[d][2] \in 1 .. Len(arrs[ptr[d][1]]) BY Zenon DEF SliceInv
<1>5. arrs'[ptr[d][1]][ptr[d][2]] = arrs[ptr[d][1]][ptr[d][2]] BY Zenon, <1>3, <1>4 DEF Extended
<1>6. arrs[ptr[d][1]][ptr[d][2]] \in Element BY Zenon, <1>4, ItemType DEF SliceInv
<1> QED BY Zenon, <1>4, <1>5, <1>6 DEF Held, SliceInv, Element

LEMMA CreateSlice ==
    ASSUME SliceInv, NEW e \in Element, e.res <= Len(objs'), MoreObjects, Extended(arrs', e),
           len' \in {len, len + 1}, want' \in [Ids -> Request], state' \in [Ids -> States], ptr' \in [Ids -> Nat \X Nat],
           \A d \in Ids : d # e.id => ptr'[d] = ptr[d] /\ state'[d] = state[d],
           \/ len' = len /\ ptr' = ptr /\ state' = state
           \/ /\ len' = len + 1 /\ ptr'[e.id] = <<Len(arrs'), len + 1>> /\ state[e.id] = "none"
              /\ state'[e.id] # "none"
    PROVE  SliceInv'
<1> DEFINE L == Current(arrs')
<1>0. cur' = L /\ L = arrs'[Len(arrs')] BY Zenon DEF cur, Current
<1>1. /\ arrs' \in Seq(Seq(Element)) /\ Len(arrs') > 0 /\ Len(arrs') \in 1 .. Len(arrs')
      /\ len + 1 \in 1 .. Len(L) /\ len \in Nat /\ Len(arrs) \in Nat /\ Len(arrs) <= Len(arrs')
  <2>1. arrs' \in Seq(Seq(Element)) /\ Len(arrs') > 0 /\ Len(arrs) <= Len(arrs') BY SMT DEF Extended, SliceInv
  <2>2. Len(arrs') \in Nat /\ Len(arrs) \in Nat BY SMT, <2>1 DEF SliceInv
  <2>3. len + 1 \in 1 .. Len(L) /\ len \in Nat BY SMT, <2>1, <2>2 DEF Extended, SliceInv
  <2> QED BY SMT, <2>1, <2>2, <2>3
<1>2. L[len + 1] = e /\ \A i \in 1 .. len : L[i] = cur[i] BY Zenon DEF Extended
<1>3. \A a \in 1 .. Len(arrs) : a \in 1 .. Len(arrs') /\ Len(arrs'[a]) = Len(arrs[a])
  <2>1. \A a \in 1 .. Len(arrs) : a \in 1 .. Len(arrs') BY SMT, <1>1
  <2> QED BY Zenon, <2>1 DEF Extended
<1> HIDE DEF L
<1>4. len' \in 0 .. Len(cur') BY SMT, <1>0, <1>1
<1>5. \A a \in 1 .. Len(arrs') : \A i \in 1 .. Len(arrs'[a]) : arrs'[a][i].res <= Len(objs')
  <2> SUFFICES ASSUME NEW a \in 1 .. Len(arrs'), NEW i \in 1 .. Len(arrs'[a]) PROVE arrs'[a][i].res <= Len(objs')
    OBVIOUS
  <2>1. arrs'[a] \in Seq(Element) BY Zenon, <1>1, ItemType
  <2>2. arrs'[a][i] \in Element BY Zenon, <2>1, ItemType
  <2>3. arrs'[a][i].res \in Nat BY Zenon, <2>2 DEF Element
  <2>4. arrs'[a][i] = e \/ arrs'[a][i].res <= Len(objs) BY Zenon DEF Extended
  <2>5. Len(objs) \in Nat /\ Len(objs') \in Nat /\ Len(objs) <= Len(objs') BY Zenon DEF MoreObjects
  <2>6. \A x, y, z \in Nat : x <= y /\ y <= z => x <= z BY SMT
  <2> QED BY Zenon, <2>3, <2>4, <2>5, <2>6
<1>6. \A c \in Ids : ptr'[c][1] \in 1 .. Len(arrs') /\ ptr'[c][2] \in 1 .. Len(arrs'[ptr'[c][1]])
  <2> SUFFICES ASSUME NEW c \in Ids PROVE ptr'[c][1] \in 1 .. Len(arrs') /\ ptr'[c][2] \in 1 .. Len(arrs'[ptr'[c][1]])
    OBVIOUS
  <2>1. CASE ptr'[c] = ptr[c]
    <3>1. ptr[c][1] \in 1 .. Len(arrs) /\ ptr[c][2] \in 1 .. Len(arrs[ptr[c][1]]) BY Zenon DEF SliceInv
    <3> QED BY Zenon, <1>3, <2>1, <3>1
  <2>2. CASE ptr'[c] = <<Len(arrs'), len + 1>>
    <3>1. ptr'[c][1] = Len(arrs') /\ ptr'[c][2] = len + 1 BY SMT, <2>2
    <3> QED BY Zenon, <1>0, <1>1, <3>1
  <2> QED BY Zenon, <2>1, <2>2
<1>7. \A c \in Ids : state'[c] # "none" => \E i \in 1 .. len' : cur'[i].id = c
  <2>1. 1 .. len \subseteq 1 .. len' /\ (len' = len + 1 => len + 1 \in 1 .. len') BY SMT, <1>1
  <2>2. \A c \in Ids : state[c] # "none" => \E i \in 1 .. len' : cur'[i].id = c
    <3> SUFFICES ASSUME NEW c \in Ids, state[c] # "none" PROVE \E i \in 1 .. len' : cur'[i].id = c OBVIOUS
    <3>1. PICK i \in 1 .. len : cur[i].id = c BY Zenon DEF SliceInv
    <3>2. i \in 1 .. len' /\ cur'[i] = cur[i] BY Zenon, <1>0, <1>2, <2>1
    <3> QED BY Zenon, <3>1, <3>2
  <2> QED BY Zenon, <1>0, <1>2, <2>1, <2>2
<1>8. state'[Pod] # "none"
  <2>1. Pod \in Ids /\ state[Pod] # "none" BY Zenon DEF Ids, SliceInv
  <2> QED BY Zenon, <2>1
<1>9. objs' \in Seq(Request) BY Zenon DEF MoreObjects
<1> QED BY Zenon, <1>1, <1>4, <1>5, <1>6, <1>7, <1>8, <1>9 DEF SliceInv

LEMMA CreateList ==
    ASSUME SliceInv, ListInv, NEW e \in Element, MoreObjects, Extended(arrs', e),
           e.res # Nil => e.res > Len(objs),
           \A d \in Ids : d # e.id => ptr'[d] = ptr[d] /\ state'[d] = state[d] /\ want'[d] = want[d],
           \/ len' = len /\ ptr' = ptr /\ state' = state /\ want' = want
           \/ /\ len' = len + 1 /\ ptr'[e.id] = <<Len(arrs'), len + 1>> /\ state[e.id] = "none"
              /\ state'[e.id] # "none"
              /\ (IF e.res = Nil THEN want'[e.id] = NoRequest ELSE objs'[e.res] = want'[e.id])
    PROVE  ListInv'
<1>0. /\ cur'[len + 1] = e /\ \A i \in 1 .. len : cur'[i] = cur[i]
  BY Zenon DEF Extended, cur, Current
<1>1. e.id \in Ids /\ e.res \in Nat /\ len \in Nat /\ Len(objs) \in Nat BY Zenon, ListFacts DEF Element
<1>2. \A i \in 1 .. len' : i \in 1 .. len \/ (i = len + 1 /\ len' = len + 1) BY SMT, <1>1
<1>3. ASSUME NEW d \in Ids, state[d] # "none"
      PROVE  /\ Held(arrs', ptr', d) = Held(arrs, ptr, d)
             /\ Held(arrs, ptr, d) \in Nat /\ Held(arrs, ptr, d) <= Len(objs)
             /\ ptr'[d] = ptr[d] /\ state'[d] = state[d] /\ want'[d] = want[d]
  <2>1. ptr'[d] = ptr[d] /\ state'[d] = state[d] /\ want'[d] = want[d] BY Zenon, <1>3
  <2> QED BY Zenon, <1>3, <2>1, HeldByOthers
<1>4. ASSUME NEW i \in 1 .. len
      PROVE  /\ cur[i].id \in Ids /\ state[cur[i].id] # "none" /\ ptr[cur[i].id][2] = i
             /\ cur[i].res # Nil => /\ cur[i].res = Held(arrs, ptr, cur[i].id) /\ objs[cur[i].res] = want[cur[i].id]
                                    /\ cur[i].res \in 1 .. Len(objs)
  <2>1. cur[i].id \in Ids /\ cur[i].res \in Nat /\ cur[i].res <= Len(objs) BY Zenon, ListFacts
  <2>2. cur[i].res # Nil => cur[i].res \in 1 .. Len(objs) BY SMT, <1>1, <2>1 DEF Nil
  <2> QED BY Zenon, <2>1, <2>2 DEF ListInv
<1>5. ASSUME len' = len + 1
      PROVE  /\ ptr'[e.id][2] = len + 1 /\ Held(arrs', ptr', e.id) = e.res
             /\ state[e.id] = "none" /\ state'[e.id] # "none"
             /\ (e.res # Nil => objs'[e.res] = want'[e.id]) /\ (e.res = Nil => want'[e.id] = NoRequest)
  <2>1. len # len + 1 BY SMT, <1>1
  <2>2. /\ ptr'[e.id] = <<Len(arrs'), len + 1>> /\ state[e.id] = "none" /\ state'[e.id] # "none"
        /\ (IF e.res = Nil THEN want'[e.id] = NoRequest ELSE objs'[e.res] = want'[e.id])
    BY Zenon, <1>5, <2>1
  <2>3. ptr'[e.id][1] = Len(arrs') /\ ptr'[e.id][2] = len + 1 BY SMT, <2>2
  <2>4. arrs'[Len(arrs')][len + 1] = e BY Zenon DEF Extended, Current
  <2> QED BY Zenon, <2>2, <2>3, <2>4 DEF Held
<1>6. ASSUME NEW i \in 1 .. len', NEW j \in 1 .. len', cur'[i].id = cur'[j].id PROVE i = j
  <2>1. CASE i \in 1 .. len /\ j \in 1 .. len
    <3>1. cur[i].id = cur[j].id BY Zenon, <1>0, <1>6, <2>1
    <3> QED BY Zenon, <2>1, <3>1 DEF ListInv
  <2>2. ASSUME NEW k \in 1 .. len, len' = len + 1 PROVE cur'[k].id # cur'[len + 1].id
    <3>1. cur'[k] = cur[k] /\ cur'[len + 1] = e BY Zenon, <1>0
    <3>2. state[cur[k].id] # "none" /\ state[e.id] = "none" BY Zenon, <1>4, <1>5, <2>2
    <3> QED BY Zenon, <3>1, <3>2
  <2> QED BY ZenonT(40), <1>2, <1>6, <2>1, <2>2
<1>7. ASSUME NEW i \in 1 .. len'
      PROVE  /\ state'[cur'[i].id] # "none" /\ ptr'[cur'[i].id][2] = i
             /\ cur'[i].res # Nil => /\ cur'[i].res = Held(arrs', ptr', cur'[i].id)
                                     /\ objs'[cur'[i].res] = want'[cur'[i].id]
  <2>1. CASE i \in 1 .. len
    <3>1. cur'[i] = cur[i] BY Zenon, <1>0, <2>1
    <3>2. /\ cur[i].id \in Ids /\ state[cur[i].id] # "none" /\ ptr[cur[i].id][2] = i
          /\ cur[i].res # Nil => /\ cur[i].res = Held(arrs, ptr, cur[i].id) /\ objs[cur[i].res] = want[cur[i].id]
                                 /\ cur[i].res \in 1 .. Len(objs)
      BY Zenon, <1>4, <2>1
    <3>3. PICK d \in Ids : d = cur[i].id BY Zenon, <3>2
    <3>4. /\ Held(arrs', ptr', d) = Held(arrs, ptr, d) /\ ptr'[d] = ptr[d]
          /\ state'[d] = state[d] /\ want'[d] = want[d]
      BY Zenon, <1>3, <3>2, <3>3
    <3>5. cur[i].res # Nil => objs'[cur[i].res] = objs[cur[i].res] BY Zenon, <3>2 DEF MoreObjects
    <3> QED BY ZenonT(40), <3>1, <3>2, <3>3, <3>4, <3>5
  <2>2. CASE i = len + 1 /\ len' = len + 1
    <3>1. cur'[i] = e BY Zenon, <1>0, <2>2
    <3> QED BY Zenon, <1>5, <2>2, <3>1
  <2> QED BY Zenon, <1>2, <2>1, <2>2
<1>8. \A x \in Ids : state'[x] # "none" => state[x] # "none" \/ (x = e.id /\ len' = len + 1)
  BY Zenon
<1>9. ASSUME NEW c \in Ids, NEW d \in Ids, state'[c] # "none", state'[d] # "none", c # d, Held(arrs', ptr', c) # Nil
      PROVE  Held(arrs', ptr', c) # Held(arrs', ptr', d)
  <2>2. CASE state[c] # "none" /\ state[d] # "none"
    <3>1. Held(arrs', ptr', c) = Held(arrs, ptr, c) BY Zenon, <1>3, <2>2
    <3>2. Held(arrs', ptr', d) = Held(arrs, ptr, d) BY Zenon, <1>3, <2>2
    <3>3. Held(arrs, ptr, c) # Nil BY Zenon, <1>9, <3>1
    <3>4. Held(arrs, ptr, c) # Held(arrs, ptr, d) BY Zenon, <1>9, <2>2, <3>3 DEF ListInv
    <3> QED BY Zenon, <3>1, <3>2, <3>4
  <2>3. CASE state[c] # "none" /\ d = e.id /\ len' = len + 1
    <3>1. Held(arrs', ptr', c) \in Nat /\ Held(arrs', ptr', c) <= Len(objs) BY Zenon, <1>3, <2>3
    <3>2. Held(arrs', ptr', d) = e.res BY ZenonT(40), <1>5, <2>3
    <3> QED BY SMT, <1>1, <1>9, <3>1, <3>2 DEF Nil
  <2>4. CASE c = e.id /\ len' = len + 1 /\ state[d] # "none"
    <3>1. Held(arrs', ptr', d) \in Nat /\ Held(arrs', ptr', d) <= Len(objs) BY Zenon, <1>3, <2>4
    <3>2. Held(arrs', ptr', c) = e.res BY Zenon, <1>5, <2>4
    <3> QED BY SMT, <1>1, <1>9, <3>1, <3>2 DEF Nil
  <2> QED BY Zenon, <1>8, <1>9, <2>2, <2>3, <2>4
<1>10. ASSUME NEW c \in Ids, state'[c] # "none", Held(arrs', ptr', c) = Nil PROVE want'[c] = NoRequest
  <2>1. CASE state[c] # "none"
    <3>1. Held(arrs', ptr', c) = Held(arrs, ptr, c) /\ want'[c] = want[c] BY Zenon, <1>3, <2>1
    <3> QED BY Zenon, <1>10, <2>1, <3>1 DEF ListInv
  <2>2. CASE c = e.id /\ len' = len + 1 BY Zenon, <1>5, <1>10, <2>2
  <2> QED BY Zenon, <1>8, <1>10, <2>1, <2>2
<1> QED BY Zenon, <1>6, <1>7, <1>9, <1>10 DEF ListInv

LEMMA CreateStep == ASSUME Inv, NEW c \in Ids, NEW r \in Requests, CreateContainer(c, r) PROVE Inv'
<1> DEFINE e == [id |-> c, res |-> IF r = NoRequest THEN Nil ELSE Len(objs')]
           L == Current(arrs')
           states == [state EXCEPT ![c] = "ready"]
           q == SubSeq(L, 1, len + 1)
<1>0. SliceInv /\ (deleted \/ ListInv) /\ MachineInv BY Zenon DEF Inv
<1>1. /\ state[c] = "none" /\ objs' = (IF r = NoRequest THEN objs ELSE Append(objs, r)) /\ arrs' = Appended(e)
      /\ deleted' = deleted
  BY Zenon DEF CreateContainer
<1>2. \/ /\ Resizes(q, states, objs', TRUE) /\ len' = len + 1 /\ state' = states
         /\ ptr' = [ptr EXCEPT ![c] = <<Len(arrs'), len'>>] /\ want' = [want EXCEPT ![c] = r]
      \/ /\ \/ FailsBefore \/ FailsAfter(q, states, objs') \/ Resizes(q, states, objs', FALSE)
         /\ UNCHANGED <<len, state, ptr, want>>
  BY Zenon DEF CreateContainer
<1>3. r \in Request BY Zenon, ResourcesAssumption
<1>4. MoreObjects /\ (r # NoRequest => Len(objs') = Len(objs) + 1 /\ objs'[Len(objs')] = r)
  <2>1. objs \in Seq(Request) /\ Len(objs) \in Nat BY SMT, <1>0 DEF SliceInv
  <2>2. CASE r = NoRequest
    <3>1. objs' = objs BY Zenon, <1>1, <2>2
    <3>2. Len(objs) <= Len(objs) BY SMT, <2>1
    <3> QED BY Zenon, <2>1, <2>2, <3>1, <3>2 DEF MoreObjects
  <2>3. CASE r # NoRequest
    <3>1. objs' = Append(objs, r) BY Zenon, <1>1, <2>3
    <3> QED BY SMT, <1>3, <2>1, <3>1 DEF MoreObjects
  <2> QED BY Zenon, <2>2, <2>3
<1>5. Len(objs) \in Nat /\ Len(objs') \in Nat /\ objs' \in Seq(Request) BY Zenon, <1>4 DEF MoreObjects
<1>6. /\ e.id = c /\ e.res = (IF r = NoRequest THEN Nil ELSE Len(objs')) /\ e.res \in Nat BY SMT, <1>5 DEF Nil
<1>7. e \in Element BY Zenon, <1>6 DEF Element
<1>8. /\ e.res <= Len(objs') /\ (e.res = Nil => r = NoRequest)
      /\ e.res # Nil => e.res > Len(objs) /\ r # NoRequest /\ e.res = Len(objs')
  <2>1. CASE r = NoRequest BY SMT, <1>5, <1>6, <2>1 DEF Nil
  <2>2. CASE r # NoRequest BY SMT, <1>4, <1>5, <1>6, <2>2 DEF Nil
  <2> QED BY Zenon, <2>1, <2>2
<1> HIDE DEF e, q, states
<1>9. Extended(arrs', e) BY Zenon, <1>0, <1>1, <1>7, Extends
<1>10. Counted(q, states, objs') \in Seq(Request)
  <2>1. len \in Nat BY Zenon, <1>0, ListFacts
  <2>2. /\ arrs' \in Seq(Seq(Element)) /\ Len(arrs') \in 1 .. Len(arrs') /\ L = arrs'[Len(arrs')]
    BY SMT, <1>9 DEF Extended, Current
  <2>3. len + 1 \in 1 .. Len(L) /\ L[len + 1] = e /\ \A i \in 1 .. len : L[i] = cur[i] BY Zenon, <1>9 DEF Extended
  <2>4. L \in Seq(Element) BY Zenon, <2>2, ItemType
  <2>5. len + 1 \in 0 .. Len(L) BY SMT, <2>3
  <2>6. \A i \in 1 .. len + 1 : i \in 1 .. len \/ i = len + 1 BY SMT, <2>1
  <2>7. \A i \in 1 .. len : cur[i].res \in Nat /\ cur[i].res <= Len(objs) BY Zenon, <1>0, ListFacts
  <2>8. Len(objs) <= Len(objs') BY Zenon, <1>4 DEF MoreObjects
  <2>9. \A x \in Nat : x <= Len(objs) => x <= Len(objs') BY SMT, <1>5, <2>8
  <2>10. \A i \in 1 .. len + 1 : L[i].res <= Len(objs') BY Zenon, <1>8, <2>3, <2>6, <2>7, <2>9
  <2> HIDE DEF L
  <2> QED BY Zenon, <1>5, <2>4, <2>5, <2>10, CountedType DEF q
<1>11. CASE /\ Resizes(q, states, objs', TRUE) /\ len' = len + 1 /\ state' = states
            /\ ptr' = [ptr EXCEPT ![c] = <<Len(arrs'), len'>>] /\ want' = [want EXCEPT ![c] = r]
  <2>1. /\ want \in [Ids -> Request] /\ ptr \in [Ids -> Nat \X Nat] /\ state \in [Ids -> States]
        /\ <<Len(arrs'), len'>> = <<Len(arrs'), len + 1>>
    BY Zenon, <1>0, <1>11 DEF SliceInv
  <2>2. want'[c] = r /\ ptr'[c] = <<Len(arrs'), len + 1>> /\ state'[c] = "ready" /\ "ready" # "none"
    BY SMT, <1>11, <2>1 DEF states
  <2>3. \A d \in Ids : d # c => want'[d] = want[d] /\ ptr'[d] = ptr[d] /\ state'[d] = state[d]
    BY Zenon, <1>11, <2>1 DEF states
  <2>4. Len(arrs') \in Nat /\ len + 1 \in Nat /\ <<Len(arrs'), len + 1>> \in Nat \X Nat
    <3>1. len \in Nat BY Zenon, <1>0, ListFacts
    <3> QED BY SMT, <1>9, <3>1 DEF Extended
  <2>5. want' \in [Ids -> Request] /\ state' \in [Ids -> States] BY SMT, <1>3, <1>11, <2>1 DEF states, States
  <2>6. ptr' \in [Ids -> Nat \X Nat] BY Zenon, <1>11, <2>1, <2>4
  <2>7. SliceInv' BY Zenon, <1>0, <1>1, <1>4, <1>6, <1>7, <1>8, <1>9, <1>11, <2>2, <2>3, <2>5, <2>6, CreateSlice DEF e
  <2>8. ASSUME ~deleted' PROVE ListInv'
    <3>1. ListInv BY Zenon, <1>0, <1>1, <2>8
    <3>2. IF e.res = Nil THEN want'[e.id] = NoRequest ELSE objs'[e.res] = want'[e.id]
      BY Zenon, <1>4, <1>6, <1>8, <2>2
    <3> QED BY Zenon, <1>0, <1>1, <1>4, <1>6, <1>7, <1>8, <1>9, <1>11, <2>2, <2>3, <3>1, <3>2, CreateList
  <2>9. Resizes(SubSeq(Current(arrs'), 1, len'), state', objs', TRUE) BY Zenon, <1>11 DEF q
  <2>10. MachineInv' /\ SizedWithoutDeletion' BY Zenon, <1>0, <2>7, <2>8, <2>9, SizedStep
  <2> QED BY Zenon, <2>7, <2>8, <2>10 DEF Inv
<1>12. CASE /\ FailsBefore \/ FailsAfter(q, states, objs') \/ Resizes(q, states, objs', FALSE)
            /\ len' = len /\ state' = state /\ ptr' = ptr /\ want' = want
  <2>1. want' \in [Ids -> Request] /\ ptr' \in [Ids -> Nat \X Nat] /\ state' \in [Ids -> States]
    BY Zenon, <1>0, <1>12 DEF SliceInv
  <2>2. SliceInv' BY Zenon, <1>0, <1>4, <1>7, <1>8, <1>9, <1>12, <2>1, CreateSlice
  <2>3. ASSUME ~deleted' PROVE ListInv'
    <3>1. ListInv BY Zenon, <1>0, <1>1, <2>3
    <3> QED BY Zenon, <1>0, <1>4, <1>7, <1>8, <1>9, <1>12, <3>1, CreateList
  <2>4. MachineInv' /\ last' = "failed"
    <3>1. CASE FailsBefore BY Zenon, <1>0, <3>1, FailedBefore
    <3>3. CASE FailsAfter(q, states, objs') BY Zenon, <1>0, <1>10, <3>3, FailedAfter
    <3>2. CASE Resizes(q, states, objs', FALSE)
      <4>1. last' = "failed" BY Zenon, <3>2 DEF Resizes
      <4> QED BY Zenon, <1>0, <1>10, <3>2, <4>1, Resized
    <3> QED BY Zenon, <1>12, <3>1, <3>2, <3>3
  <2>5. SizedWithoutDeletion' BY SMT, <2>4 DEF SizedWithoutDeletion
  <2> QED BY Zenon, <2>2, <2>3, <2>4, <2>5 DEF Inv
<1> QED BY Zenon, <1>2, <1>11, <1>12

\* An operation that changes the state of c only.
LEMMA StateChanges ==
    ASSUME SliceInv, deleted \/ ListInv, NEW c \in Ids, state[c] # "none", NEW t \in States \ {"none"},
           state' = [state EXCEPT ![c] = t], UNCHANGED <<arrs, len, objs, ptr, want, deleted>>
    PROVE  SliceInv' /\ (deleted' \/ ListInv')
<1>1. state' \in [Ids -> States] /\ \A d \in Ids : state'[d] # "none" <=> state[d] # "none" BY SMT DEF SliceInv
<1>2. cur' = cur /\ Pod \in Ids BY Zenon DEF cur, Current, Ids
<1>3. \A i \in 1 .. len : cur[i].id \in Ids BY Zenon, ListFacts
<1>4. SliceInv'
  <2>1. state'[Pod] # "none" BY Zenon, <1>1, <1>2 DEF SliceInv
  <2> QED BY Zenon, <1>1, <1>2, <2>1 DEF SliceInv
<1>5. ASSUME ListInv PROVE ListInv'
  <2>1. \A i \in 1 .. len : state'[cur[i].id] # "none" BY Zenon, <1>1, <1>3, <1>5 DEF ListInv
  <2> QED BY Zenon, <1>1, <1>2, <1>5, <2>1 DEF ListInv
<1> QED BY Zenon, <1>4, <1>5

LEMMA StartStep == ASSUME Inv, NEW c \in Ids, StartContainer(c) PROVE Inv'
<1>0. SliceInv /\ (deleted \/ ListInv) /\ MachineInv BY Zenon DEF Inv
<1>1. state[c] # "none" /\ "running" \in States \ {"none"} /\ "stopped" \in States \ {"none"}
  BY SMT DEF StartContainer, States
<1>2. UNCHANGED <<arrs, len, objs, ptr, want, deleted>> BY Zenon DEF StartContainer
<1>3. CASE state' = [state EXCEPT ![c] = "running"] /\ \E ok \in BOOLEAN : Resizes(Elements, state', objs, ok)
  <2>1. SliceInv' /\ (deleted' \/ ListInv') BY Zenon, <1>0, <1>1, <1>2, <1>3, StateChanges
  <2>2. PICK ok \in BOOLEAN : Resizes(Elements, state', objs, ok) BY Zenon, <1>3
  <2>3. Elements = SubSeq(Current(arrs'), 1, len') /\ objs' = objs BY Zenon, <1>2 DEF Elements, cur
  <2>4. Resizes(SubSeq(Current(arrs'), 1, len'), state', objs', ok) BY Zenon, <2>2, <2>3
  <2> QED BY Zenon, <1>0, <2>1, <2>4, SizedStep DEF Inv
<1>4. CASE FailsBefore /\ state' = [state EXCEPT ![c] = "stopped"]
  <2>1. SliceInv' /\ (deleted' \/ ListInv') BY Zenon, <1>0, <1>1, <1>2, <1>4, StateChanges
  <2>2. MachineInv' /\ last' = "failed" BY Zenon, <1>0, <1>4, FailedBefore
  <2>3. SizedWithoutDeletion' BY SMT, <2>2 DEF SizedWithoutDeletion
  <2> QED BY Zenon, <2>1, <2>2, <2>3 DEF Inv
<1> QED BY Zenon, <1>3, <1>4 DEF StartContainer

LEMMA StopStep == ASSUME Inv, NEW c \in Ids, StopContainer(c) PROVE Inv'
<1>0. SliceInv /\ (deleted \/ ListInv) /\ MachineInv BY Zenon DEF Inv
<1>1. state[c] # "none" /\ "stopped" \in States \ {"none"} BY SMT DEF StopContainer, States
<1>2. /\ state' = [state EXCEPT ![c] = "stopped"] /\ UNCHANGED <<arrs, len, objs, ptr, want, deleted>>
      /\ vm' = vm /\ faults' = faults /\ last' = "other"
  BY Zenon DEF StopContainer
<1>3. SliceInv' /\ (deleted' \/ ListInv') BY Zenon, <1>0, <1>1, <1>2, StateChanges
<1>4. MachineInv' BY Zenon, <1>0, <1>2 DEF MachineInv
<1>5. SizedWithoutDeletion' BY SMT, <1>2 DEF SizedWithoutDeletion
<1> QED BY Zenon, <1>3, <1>4, <1>5 DEF Inv

\* The first of the places that have c.
LEMMA FirstPlace ==
    ASSUME NEW S \in SUBSET Nat, S # {} PROVE Min(S) \in S
<1>1. PICK m \in S : \A x \in S : m <= x BY Zenon, NatMin
<1> QED BY Zenon, <1>1 DEF Min

\* The elements behind i move up by one.
Shifted(L, q, n, i) ==
    /\ L \in Seq(Element) /\ Len(L) = Len(q)
    /\ \A j \in 1 .. Len(q) : L[j] = q[j] \/ (j + 1 \in 1 .. Len(q) /\ L[j] = q[j + 1])
    /\ \A j \in 1 .. n : j # i => \E k \in 1 .. n - 1 : L[k] = q[j]

LEMMA Shifts ==
    ASSUME NEW q \in Seq(Element), NEW n \in 1 .. Len(q), NEW i \in 1 .. n, NEW L,
           L = [j \in DOMAIN q |-> IF j \in i .. n - 1 THEN q[j + 1] ELSE q[j]]
    PROVE  Shifted(L, q, n, i)
<1>1. DOMAIN q = 1 .. Len(q) /\ Len(q) \in Nat /\ n \in Nat /\ i \in Nat BY SMT
<1>2. ASSUME NEW j \in 1 .. Len(q)
      PROVE  /\ L[j] = (IF j \in i .. n - 1 THEN q[j + 1] ELSE q[j])
             /\ L[j] = q[j] \/ (j + 1 \in 1 .. Len(q) /\ L[j] = q[j + 1])
             /\ L[j] \in Element
  <2>1. L[j] = (IF j \in i .. n - 1 THEN q[j + 1] ELSE q[j]) BY Zenon, <1>1
  <2>2. j \in i .. n - 1 => j + 1 \in 1 .. Len(q) BY SMT, <1>1
  <2>3. \A k \in 1 .. Len(q) : q[k] \in Element BY Zenon, ItemType
  <2> QED BY Zenon, <2>1, <2>2, <2>3
<1>3. L \in [1 .. Len(q) -> Element] BY Zenon, <1>1, <1>2
<1>4. L \in Seq(Element) /\ Len(L) = Len(q) BY SMT, <1>1, <1>3
<1>5. ASSUME NEW j \in 1 .. n, j # i PROVE \E k \in 1 .. n - 1 : L[k] = q[j]
  <2>1. CASE j < i
    <3>1. j \in 1 .. n - 1 /\ j \in 1 .. Len(q) /\ j \notin i .. n - 1 BY SMT, <1>1, <2>1
    <3> QED BY Zenon, <1>2, <3>1
  <2>2. CASE j > i
    <3>1. j - 1 \in 1 .. n - 1 /\ j - 1 \in 1 .. Len(q) /\ j - 1 \in i .. n - 1 /\ j - 1 + 1 = j BY SMT, <1>1, <2>2
    <3> QED BY Zenon, <1>2, <3>1
  <2>3. j < i \/ j > i BY SMT, <1>1, <1>5
  <2> QED BY Zenon, <2>1, <2>2, <2>3
<1> QED BY Zenon, <1>2, <1>4, <1>5 DEF Shifted

LEMMA DeleteSlice ==
    ASSUME SliceInv, NEW c \in Ids, NEW i \in 1 .. len, cur[i].id = c,
           NEW L, Shifted(L, cur, len, i), arrs' = [arrs EXCEPT ![Len(arrs)] = L], len' = len - 1,
           objs' = objs, ptr' = ptr, want' \in [Ids -> Request], state' \in [Ids -> States], state'[Pod] # "none",
           \A d \in Ids : state'[d] # "none" => d # c /\ state[d] # "none"
    PROVE  SliceInv'
<1> DEFINE n == Len(arrs)
<1>0. /\ n \in 1 .. n /\ cur = arrs[n] /\ Len(cur) \in Nat /\ len \in Nat /\ len > 0 /\ len <= Len(cur)
      /\ arrs \in Seq(Seq(Element))
  BY Zenon, ListFacts DEF SliceInv
<1>1. L \in Seq(Element) /\ Len(L) = Len(cur) BY Zenon DEF Shifted
<1>2. ItemSet(arrs', Seq(Element), arrs, n, L) BY Zenon, <1>0, <1>1, ItemReplaced
<1>3. /\ arrs' \in Seq(Seq(Element)) /\ Len(arrs') = n
      /\ \A a \in 1 .. n : arrs'[a] = IF a = n THEN L ELSE arrs[a]
  BY Zenon, <1>2 DEF ItemSet, n
<1> HIDE DEF n
<1>4. cur' = L BY Zenon, <1>0, <1>3 DEF cur, Current
<1>5. Len(arrs') > 0 /\ len' \in 0 .. Len(cur') BY SMT, <1>0, <1>1, <1>3, <1>4
<1>6. \A a \in 1 .. n : Len(arrs'[a]) = Len(arrs[a]) BY Zenon, <1>0, <1>1, <1>3
<1>7. \A a \in 1 .. Len(arrs') : \A j \in 1 .. Len(arrs'[a]) : arrs'[a][j].res <= Len(objs')
  <2> SUFFICES ASSUME NEW a \in 1 .. n, NEW j \in 1 .. Len(arrs'[a]) PROVE arrs'[a][j].res <= Len(objs)
    BY Zenon, <1>3
  <2>1. \A x \in 1 .. n : \A k \in 1 .. Len(arrs[x]) : arrs[x][k].res <= Len(objs) BY Zenon DEF SliceInv, n
  <2>2. CASE a # n BY Zenon, <1>3, <2>1, <2>2
  <2>3. CASE a = n
    <3>1. arrs'[a] = L /\ j \in 1 .. Len(cur) BY Zenon, <1>0, <1>1, <1>3, <2>3
    <3>2. L[j] = cur[j] \/ (j + 1 \in 1 .. Len(cur) /\ L[j] = cur[j + 1]) BY Zenon, <3>1 DEF Shifted
    <3> QED BY Zenon, <1>0, <2>1, <3>1, <3>2
  <2> QED BY Zenon, <2>2, <2>3
<1>8. \A d \in Ids : ptr'[d][1] \in 1 .. Len(arrs') /\ ptr'[d][2] \in 1 .. Len(arrs'[ptr'[d][1]])
  BY Zenon, <1>3, <1>6 DEF SliceInv, n
<1>9. \A d \in Ids : state'[d] # "none" => \E k \in 1 .. len' : cur'[k].id = d
  <2> SUFFICES ASSUME NEW d \in Ids, state'[d] # "none" PROVE \E k \in 1 .. len - 1 : L[k].id = d BY Zenon, <1>4
  <2>1. d # c /\ state[d] # "none" BY Zenon
  <2>2. PICK j \in 1 .. len : cur[j].id = d BY Zenon, <2>1 DEF SliceInv
  <2>3. PICK k \in 1 .. len - 1 : L[k] = cur[j] BY Zenon, <2>1, <2>2 DEF Shifted
  <2> QED BY Zenon, <2>2, <2>3
<1> QED BY Zenon, <1>3, <1>5, <1>7, <1>8, <1>9 DEF SliceInv

LEMMA DeleteStep == ASSUME Inv, NEW c \in Ids, DeleteContainer(c) PROVE Inv'
<1>0. SliceInv /\ MachineInv BY Zenon DEF Inv
<1>1. /\ c # Pod /\ state' = [state EXCEPT ![c] = "none"] /\ want' = [want EXCEPT ![c] = NoRequest] /\ deleted'
      /\ objs' = objs /\ ptr' = ptr
  BY Zenon DEF DeleteContainer
<1>2. state[c] # "none" BY SMT DEF DeleteContainer
<1>3. /\ want' \in [Ids -> Request] /\ state' \in [Ids -> States] /\ state'[Pod] # "none"
      /\ \A d \in Ids : state'[d] # "none" => d # c /\ state[d] # "none"
  <2>1. want \in [Ids -> Request] /\ state \in [Ids -> States] /\ state[Pod] # "none" BY Zenon, <1>0 DEF SliceInv
  <2>2. "none" \in States /\ Pod \in Ids BY Zenon DEF States, Ids
  <2>3. state'[c] = "none" /\ \A d \in Ids : d # c => state'[d] = state[d] BY Zenon, <1>1, <2>1
  <2>4. want' \in [Ids -> Request] BY Zenon, <1>1, <2>1, NoRequestType
  <2>5. state' \in [Ids -> States] BY Zenon, <1>1, <2>1, <2>2
  <2> QED BY Zenon, <1>1, <2>1, <2>2, <2>3, <2>4, <2>5
<1> DEFINE S == {j \in 1 .. len : cur[j].id = c}
           i == Min(S)
           L == [j \in DOMAIN cur |-> IF j \in i .. len - 1 THEN cur[j + 1] ELSE cur[j]]
<1>4. \/ arrs' = [arrs EXCEPT ![Len(arrs)] = L] /\ len' = len - 1 /\ last' = "other" /\ UNCHANGED <<vm, faults>>
      \/ FailsBefore /\ UNCHANGED <<arrs, len>>
  BY Zenon DEF DeleteContainer
<1>5. S \in SUBSET Nat /\ S # {}
  <2>1. 1 .. len \subseteq Nat BY SMT
  <2>2. \E j \in 1 .. len : cur[j].id = c BY Zenon, <1>0, <1>2 DEF SliceInv
  <2> QED BY Zenon, <2>1, <2>2
<1>6. i \in S BY Zenon, <1>5, FirstPlace
<1>7. i \in 1 .. len /\ cur[i].id = c BY Zenon, <1>6
<1> HIDE DEF i
<1>8. cur \in Seq(Element) /\ len \in 1 .. Len(cur)
  <2>1. cur \in Seq(Element) /\ Len(cur) \in Nat /\ len \in Nat /\ len > 0 /\ len <= Len(cur) BY Zenon, <1>0, ListFacts
  <2> QED BY SMT, <2>1
<1>9. Shifted(L, cur, len, i) BY Zenon, <1>7, <1>8, Shifts
<1> HIDE DEF L
<1>10. CASE arrs' = [arrs EXCEPT ![Len(arrs)] = L] /\ len' = len - 1 /\ last' = "other" /\ vm' = vm /\ faults' = faults
  <2>1. SliceInv' BY Zenon, <1>0, <1>1, <1>3, <1>7, <1>9, <1>10, DeleteSlice
  <2>2. MachineInv' BY Zenon, <1>0, <1>10 DEF MachineInv
  <2> QED BY Zenon, <1>1, <2>1, <2>2 DEF Inv, SizedWithoutDeletion
<1>11. CASE FailsBefore /\ arrs' = arrs /\ len' = len
  <2>1. cur' = cur BY Zenon, <1>11 DEF cur, Current
  <2>2. SliceInv' BY Zenon, <1>0, <1>1, <1>3, <1>11, <2>1 DEF SliceInv
  <2>3. MachineInv' BY Zenon, <1>0, <1>11, FailedBefore
  <2> QED BY Zenon, <1>1, <2>2, <2>3 DEF Inv, SizedWithoutDeletion
<1> QED BY Zenon, <1>4, <1>10, <1>11

LEMMA UpdatedType == ASSUME NEW r \in Request, NEW u \in Request PROVE Updated(r, u) \in Request
BY SMT DEF Updated, Request

\* The element that an update of c changes, and the places the pointers of others have.
LEMMA Pointed ==
    ASSUME SliceInv, NEW c \in Ids, state[c] # "none"
    PROVE  /\ ptr[c][1] \in 1 .. Len(arrs) /\ ptr[c][2] \in 1 .. Len(arrs[ptr[c][1]])
           /\ arrs[ptr[c][1]] \in Seq(Element) /\ arrs[ptr[c][1]][ptr[c][2]] \in Element
           /\ Held(arrs, ptr, c) \in Nat /\ Held(arrs, ptr, c) <= Len(objs)
           /\ ListInv => /\ ptr[c][2] \in 1 .. len /\ cur[ptr[c][2]].id = c
                         /\ \A d \in Ids : state[d] # "none" /\ d # c => ptr[d][2] # ptr[c][2]
<1>1. ptr[c][1] \in 1 .. Len(arrs) /\ ptr[c][2] \in 1 .. Len(arrs[ptr[c][1]]) BY Zenon DEF SliceInv
<1>2. arrs[ptr[c][1]] \in Seq(Element) BY Zenon, <1>1, ItemType DEF SliceInv
<1>3. arrs[ptr[c][1]][ptr[c][2]] \in Element BY Zenon, <1>1, <1>2, ItemType
<1>4. Held(arrs, ptr, c) \in Nat /\ Held(arrs, ptr, c) <= Len(objs) BY Zenon, <1>1, <1>3 DEF Held, Element, SliceInv
<1>5. ASSUME ListInv
      PROVE  \A d \in Ids : state[d] # "none" => ptr[d][2] \in 1 .. len /\ cur[ptr[d][2]].id = d
  <2> SUFFICES ASSUME NEW d \in Ids, state[d] # "none" PROVE ptr[d][2] \in 1 .. len /\ cur[ptr[d][2]].id = d OBVIOUS
  <2>1. PICK i \in 1 .. len : cur[i].id = d BY Zenon DEF SliceInv
  <2>2. ptr[d][2] = i BY Zenon, <1>5, <2>1 DEF ListInv
  <2> QED BY Zenon, <2>1, <2>2
<1> QED BY Zenon, <1>1, <1>2, <1>3, <1>4, <1>5

\* The container has resources: its object changes.
LEMMA UpdateInPlace ==
    ASSUME SliceInv, deleted \/ ListInv, NEW c \in Ids, NEW u \in Request, state[c] # "none",
           NEW r, r = Held(arrs, ptr, c), r # Nil,
           objs' = [objs EXCEPT ![r] = Updated(@, u)], want' = [want EXCEPT ![c] = Updated(@, u)],
           arrs' = arrs, len' = len, ptr' = ptr, state' = state, deleted' = deleted
    PROVE  SliceInv' /\ (deleted' \/ ListInv')
<1>0. cur' = cur BY Zenon DEF cur, Current
<1>1. objs \in Seq(Request) /\ Len(objs) \in Nat /\ want \in [Ids -> Request] BY SMT DEF SliceInv
<1>2. r \in Nat /\ r <= Len(objs) BY Zenon, Pointed
<1>3. r \in 1 .. Len(objs) BY SMT, <1>1, <1>2 DEF Nil
<1>4. objs[r] \in Request /\ want[c] \in Request BY SMT, <1>1, <1>3
<1>5. Updated(objs[r], u) \in Request /\ Updated(want[c], u) \in Request BY Zenon, <1>4, UpdatedType
<1>6. objs' = [objs EXCEPT ![r] = Updated(objs[r], u)] OBVIOUS
<1>7. ItemSet([objs EXCEPT ![r] = Updated(objs[r], u)], Request, objs, r, Updated(objs[r], u))
  BY Zenon, <1>1, <1>3, <1>5, ItemReplaced
<1>8. /\ objs' \in Seq(Request) /\ Len(objs') = Len(objs)
      /\ \A k \in 1 .. Len(objs) : objs'[k] = IF k = r THEN Updated(objs[r], u) ELSE objs[k]
  BY Zenon, <1>6, <1>7 DEF ItemSet
<1>9. /\ want' \in [Ids -> Request] /\ want'[c] = Updated(want[c], u) /\ \A d \in Ids : d # c => want'[d] = want[d]
  BY Zenon, <1>1, <1>5
<1>10. SliceInv' BY Zenon, <1>0, <1>8, <1>9 DEF SliceInv
<1>11. ASSUME ListInv PROVE ListInv'
  <2>1. ASSUME NEW k \in 1 .. len, cur[k].res # Nil
        PROVE  cur[k].res = Held(arrs, ptr, cur[k].id) /\ objs'[cur[k].res] = want'[cur[k].id]
    <3>1. /\ cur[k].res = Held(arrs, ptr, cur[k].id) /\ objs[cur[k].res] = want[cur[k].id]
          /\ state[cur[k].id] # "none"
      BY Zenon, <1>11, <2>1 DEF ListInv
    <3>2. cur[k].id \in Ids /\ cur[k].res \in Nat /\ cur[k].res <= Len(objs) BY Zenon, ListFacts
    <3>3. cur[k].res \in 1 .. Len(objs) BY SMT, <1>1, <2>1, <3>2 DEF Nil
    <3>4. CASE cur[k].id = c
      <4>1. cur[k].res = r /\ objs[r] = want[c] BY Zenon, <3>1, <3>4
      <4>2. objs'[r] = Updated(objs[r], u) BY Zenon, <1>3, <1>8
      <4> QED BY Zenon, <1>9, <3>1, <3>4, <4>1, <4>2
    <3>5. CASE cur[k].id # c
      <4>1. cur[k].res # r BY Zenon, <1>11, <3>1, <3>2, <3>5 DEF ListInv
      <4> QED BY Zenon, <1>8, <1>9, <3>1, <3>2, <3>3, <3>5, <4>1
    <3> QED BY Zenon, <3>4, <3>5
  <2>2. \A d \in Ids : state[d] # "none" /\ Held(arrs, ptr, d) = Nil => want'[d] = NoRequest
    BY Zenon, <1>9, <1>11 DEF ListInv
  <2> QED BY Zenon, <1>0, <1>11, <2>1, <2>2 DEF ListInv
<1> QED BY Zenon, <1>10, <1>11

\* The container has none: a new object, in the element its pointer goes to.
LEMMA UpdateAnew ==
    ASSUME SliceInv, deleted \/ ListInv, NEW c \in Ids, NEW u \in Request, state[c] # "none",
           Held(arrs, ptr, c) = Nil, objs' = Append(objs, Updated(NoRequest, u)),
           arrs' = [arrs EXCEPT ![ptr[c][1]][ptr[c][2]].res = Len(objs')], want' = [want EXCEPT ![c] = Updated(@, u)],
           len' = len, ptr' = ptr, state' = state, deleted' = deleted
    PROVE  SliceInv' /\ (deleted' \/ ListInv')
<1> DEFINE a == ptr[c][1]
           i == ptr[c][2]
           N == Len(objs')
           y == [arrs[a][i] EXCEPT !.res = N]
           n == Len(arrs)
<1>1. objs \in Seq(Request) /\ Len(objs) \in Nat /\ want \in [Ids -> Request] BY SMT DEF SliceInv
<1>2. Updated(NoRequest, u) \in Request /\ Updated(want[c], u) \in Request
  <2>1. want[c] \in Request BY Zenon, <1>1
  <2> QED BY Zenon, <2>1, NoRequestType, UpdatedType
<1>3. /\ objs' \in Seq(Request) /\ N = Len(objs) + 1 /\ objs'[N] = Updated(NoRequest, u)
      /\ \A k \in 1 .. Len(objs) : objs'[k] = objs[k]
  BY SMT, <1>1, <1>2
<1>4. a \in 1 .. n /\ i \in 1 .. Len(arrs[a]) /\ arrs[a][i] \in Element BY Zenon, Pointed
<1>5. arrs' = [arrs EXCEPT ![a] = [arrs[a] EXCEPT ![i] = y]] BY Zenon
<1>6. N \in Nat BY SMT, <1>1, <1>3
<1> HIDE DEF N
<1>7. y \in Element /\ y.id = arrs[a][i].id /\ y.res = N BY Zenon, <1>4, <1>6 DEF Element
<1> HIDE DEF y
<1>8. Replaced(arrs', arrs, a, i, y) BY Zenon, <1>4, <1>5, <1>7, Replaces DEF SliceInv
<1>9. /\ arrs' \in Seq(Seq(Element)) /\ Len(arrs') = n /\ arrs'[a][i] = y
      /\ \A b \in 1 .. n : /\ Len(arrs'[b]) = Len(arrs[b])
                           /\ \A k \in 1 .. Len(arrs[b]) : b # a \/ k # i => arrs'[b][k] = arrs[b][k]
  BY Zenon, <1>8 DEF Replaced
<1>10. n \in 1 .. n /\ cur = arrs[n] /\ cur' = arrs'[n] BY Zenon, <1>9, ListFacts DEF cur, Current
<1> HIDE DEF a, i, n
<1>11. \A b \in 1 .. n : \A k \in 1 .. Len(arrs[b]) : arrs'[b][k].id = arrs[b][k].id
  <2> SUFFICES ASSUME NEW b \in 1 .. n, NEW k \in 1 .. Len(arrs[b]) PROVE arrs'[b][k].id = arrs[b][k].id OBVIOUS
  <2>1. CASE b = a /\ k = i BY Zenon, <1>7, <1>9, <2>1
  <2>2. CASE ~(b = a /\ k = i)
    <3>1. arrs'[b][k] = arrs[b][k] BY Zenon, <1>9, <2>2
    <3> QED BY Zenon, <3>1
  <2> QED BY Zenon, <2>1, <2>2
<1>12. /\ want' \in [Ids -> Request] /\ want'[c] = Updated(want[c], u) /\ \A d \in Ids : d # c => want'[d] = want[d]
  BY Zenon, <1>1, <1>2
<1>13. \A k \in 1 .. len : k \in 1 .. Len(cur) /\ cur'[k].id = cur[k].id
  <2>1. \A k \in 1 .. len : k \in 1 .. Len(cur)
    <3>1. len \in Nat /\ Len(cur) \in Nat /\ len <= Len(cur) BY Zenon, ListFacts
    <3> QED BY SMT, <3>1
  <2>2. \A k \in 1 .. Len(arrs[n]) : arrs'[n][k].id = arrs[n][k].id BY Zenon, <1>10, <1>11
  <2> QED BY Zenon, <1>10, <2>1, <2>2
<1>14. SliceInv'
  <2>1. Len(arrs') > 0 /\ len' \in 0 .. Len(cur')
    <3>1. Len(cur') = Len(cur) BY Zenon, <1>9, <1>10
    <3> QED BY Zenon, <1>9, <3>1 DEF SliceInv, n
  <2>2. \A b \in 1 .. Len(arrs') : \A k \in 1 .. Len(arrs'[b]) : arrs'[b][k].res <= Len(objs')
    <3> SUFFICES ASSUME NEW b \in 1 .. n, NEW k \in 1 .. Len(arrs[b]) PROVE arrs'[b][k].res <= N BY Zenon, <1>9 DEF N
    <3>1. CASE b = a /\ k = i
      <4>1. arrs'[b][k].res = N BY Zenon, <1>7, <1>9, <3>1
      <4> QED BY SMT, <1>6, <4>1
    <3>2. CASE ~(b = a /\ k = i)
      <4>1. arrs'[b][k] = arrs[b][k] BY Zenon, <1>9, <3>2
      <4>2. arrs[b] \in Seq(Element) BY Zenon, ItemType DEF SliceInv, n
      <4>3. arrs[b][k] \in Element BY Zenon, <4>2, ItemType
      <4>4. arrs[b][k].res \in Nat /\ arrs[b][k].res <= Len(objs) BY Zenon, <4>3 DEF Element, SliceInv, n
      <4>5. \A x \in Nat : x <= Len(objs) => x <= N BY SMT, <1>1, <1>3
      <4> QED BY Zenon, <4>1, <4>4, <4>5
    <3> QED BY Zenon, <3>1, <3>2
  <2>3. \A d \in Ids : ptr'[d][1] \in 1 .. Len(arrs') /\ ptr'[d][2] \in 1 .. Len(arrs'[ptr'[d][1]])
    <3> SUFFICES ASSUME NEW d \in Ids
                 PROVE  ptr[d][1] \in 1 .. n /\ ptr[d][2] \in 1 .. Len(arrs'[ptr[d][1]])
      BY Zenon, <1>9
    <3>1. ptr[d][1] \in 1 .. n /\ ptr[d][2] \in 1 .. Len(arrs[ptr[d][1]]) BY Zenon DEF SliceInv, n
    <3> QED BY Zenon, <1>9, <3>1
  <2>4. \A d \in Ids : state'[d] # "none" => \E k \in 1 .. len' : cur'[k].id = d
    <3> SUFFICES ASSUME NEW d \in Ids, state[d] # "none" PROVE \E k \in 1 .. len : cur'[k].id = d BY Zenon
    <3>1. PICK k \in 1 .. len : cur[k].id = d BY Zenon DEF SliceInv
    <3> QED BY Zenon, <1>13, <3>1
  <2> QED BY Zenon, <1>3, <1>9, <1>12, <2>1, <2>2, <2>3, <2>4 DEF SliceInv
<1>15. ASSUME ListInv PROVE ListInv'
  <2>1. Held(arrs', ptr', c) = N /\ N # Nil
    <3>1. N # Nil BY SMT, <1>1, <1>3 DEF Nil
    <3> QED BY Zenon, <1>7, <1>9, <3>1 DEF Held, a, i
  <2>2. ASSUME NEW d \in Ids, state[d] # "none", d # c
        PROVE  /\ Held(arrs', ptr', d) = Held(arrs, ptr, d) /\ Held(arrs, ptr, d) # N
    <3>1. ptr[d][2] # i BY Zenon, <1>15, <2>2, Pointed DEF i
    <3>2. ptr[d][1] \in 1 .. n /\ ptr[d][2] \in 1 .. Len(arrs[ptr[d][1]]) BY Zenon DEF SliceInv, n
    <3>3. arrs'[ptr[d][1]][ptr[d][2]] = arrs[ptr[d][1]][ptr[d][2]] BY Zenon, <1>9, <3>1, <3>2
    <3>4. Held(arrs, ptr, d) \in Nat /\ Held(arrs, ptr, d) <= Len(objs) BY Zenon, <2>2, Pointed
    <3>5. Held(arrs, ptr, d) # N BY SMT, <1>1, <1>3, <3>4
    <3> QED BY Zenon, <3>3, <3>5 DEF Held
  <2>3. ASSUME NEW k \in 1 .. len, cur'[k].res # Nil
        PROVE  cur'[k].res = Held(arrs', ptr', cur'[k].id) /\ objs'[cur'[k].res] = want'[cur'[k].id]
    <3>1. CASE n = a /\ k = i
      <4>1. cur'[k] = y /\ cur[i].id = c BY Zenon, <1>9, <1>10, <1>15, <3>1, Pointed DEF i
      <4>2. cur'[k].id = c /\ cur'[k].res = N BY Zenon, <1>7, <1>13, <3>1, <4>1
      <4>3. want[c] = NoRequest BY Zenon, <1>15 DEF ListInv
      <4> QED BY Zenon, <1>3, <1>12, <2>1, <4>2, <4>3
    <3>2. CASE ~(n = a /\ k = i)
      <4>0. k \in 1 .. Len(arrs[n]) BY Zenon, <1>10, <1>13
      <4>1. \A j \in 1 .. Len(arrs[n]) : n # a \/ j # i => arrs'[n][j] = arrs[n][j] BY Zenon, <1>9, <1>10
      <4>2. cur'[k] = cur[k] BY Zenon, <1>10, <3>2, <4>0, <4>1
      <4>3. PICK d \in Ids : d = cur[k].id BY Zenon, ListFacts
      <4>4. cur[k].res = Held(arrs, ptr, d) /\ objs[cur[k].res] = want[d] /\ state[d] # "none"
        BY Zenon, <1>15, <2>3, <4>2, <4>3 DEF ListInv
      <4>5. d # c BY Zenon, <2>3, <4>2, <4>4
      <4>6. cur[k].res \in Nat /\ cur[k].res <= Len(objs) BY Zenon, ListFacts
      <4>7. cur[k].res \in 1 .. Len(objs) BY SMT, <1>1, <2>3, <4>2, <4>6 DEF Nil
      <4>8. Held(arrs', ptr', d) = Held(arrs, ptr, d) BY Zenon, <2>2, <4>4, <4>5
      <4> QED BY Zenon, <1>3, <1>12, <4>2, <4>3, <4>4, <4>5, <4>7, <4>8
    <3> QED BY Zenon, <3>1, <3>2
  <2>4. ASSUME NEW b \in Ids, NEW d \in Ids, state[b] # "none", state[d] # "none", b # d, Held(arrs', ptr', b) # Nil
        PROVE  Held(arrs', ptr', b) # Held(arrs', ptr', d)
    <3>1. CASE b = c BY Zenon, <2>1, <2>2, <2>4, <3>1
    <3>2. CASE d = c BY Zenon, <2>1, <2>2, <2>4, <3>2
    <3>3. CASE b # c /\ d # c
      <4>1. Held(arrs', ptr', b) = Held(arrs, ptr, b) BY Zenon, <2>2, <2>4, <3>3
      <4>2. Held(arrs', ptr', d) = Held(arrs, ptr, d) BY Zenon, <2>2, <2>4, <3>3
      <4>3. Held(arrs, ptr, b) # Nil BY Zenon, <2>4, <4>1
      <4>4. Held(arrs, ptr, b) # Held(arrs, ptr, d) BY Zenon, <1>15, <2>4, <4>3 DEF ListInv
      <4> QED BY Zenon, <4>1, <4>2, <4>4
    <3> QED BY Zenon, <3>1, <3>2, <3>3
  <2>5. ASSUME NEW d \in Ids, state[d] # "none", Held(arrs', ptr', d) = Nil PROVE want'[d] = NoRequest
    <3>1. d # c BY Zenon, <2>1, <2>5
    <3>2. Held(arrs, ptr, d) = Nil BY Zenon, <2>2, <2>5, <3>1
    <3> QED BY Zenon, <1>12, <1>15, <2>5, <3>1, <3>2 DEF ListInv
  <2>6. \A k, j \in 1 .. len : cur'[k].id = cur'[j].id => k = j BY Zenon, <1>13, <1>15 DEF ListInv
  <2>7. \A k \in 1 .. len : state[cur'[k].id] # "none" /\ ptr[cur'[k].id][2] = k BY Zenon, <1>13, <1>15 DEF ListInv
  <2> QED BY Zenon, <2>3, <2>4, <2>5, <2>6, <2>7 DEF ListInv
<1> QED BY Zenon, <1>14, <1>15

LEMMA UpdateStep == ASSUME Inv, NEW c \in Ids, NEW u \in Updates, UpdateContainer(c, u) PROVE Inv'
<1>0. SliceInv /\ (deleted \/ ListInv) /\ MachineInv BY Zenon DEF Inv
<1>1. state[c] # "none"
  <2>1. state[c] \in {"ready", "running"} BY Zenon DEF UpdateContainer
  <2> QED BY SMT, <2>1
<1>2. u \in Request BY Zenon, ResourcesAssumption
<1>3. want' = [want EXCEPT ![c] = Updated(@, u)] /\ len' = len /\ ptr' = ptr /\ state' = state /\ deleted' = deleted
  BY Zenon DEF UpdateContainer
<1> DEFINE r == Held(arrs, ptr, c)
<1>4. IF r # Nil
      THEN objs' = [objs EXCEPT ![r] = Updated(@, u)] /\ arrs' = arrs
      ELSE /\ objs' = Append(objs, Updated(NoRequest, u))
           /\ arrs' = [arrs EXCEPT ![ptr[c][1]][ptr[c][2]].res = Len(objs')]
  BY Zenon DEF UpdateContainer, Held
<1>5. SliceInv' /\ (deleted' \/ ListInv')
  <2>1. CASE r # Nil BY Zenon, <1>0, <1>1, <1>2, <1>3, <1>4, <2>1, UpdateInPlace
  <2>2. CASE r = Nil BY Zenon, <1>0, <1>1, <1>2, <1>3, <1>4, <2>2, UpdateAnew
  <2> QED BY Zenon, <2>1, <2>2
<1> DEFINE q == SubSeq(Current(arrs'), 1, len')
<1>6. (\E ok \in BOOLEAN : Resizes(q, state', objs', ok)) \/ FailsAfter(q, state', objs')
  BY Zenon, <1>3 DEF UpdateContainer
<1>7. CASE \E ok \in BOOLEAN : Resizes(q, state', objs', ok)
  <2>1. PICK ok \in BOOLEAN : Resizes(q, state', objs', ok) BY Zenon, <1>7
  <2>2. MachineInv' /\ SizedWithoutDeletion' BY Zenon, <1>0, <1>5, <2>1, SizedStep
  <2> QED BY Zenon, <1>5, <2>2 DEF Inv
<1>8. CASE FailsAfter(q, state', objs')
  <2>1. MachineInv' /\ last' = "failed" BY Zenon, <1>0, <1>5, <1>8, CountedNext, FailedAfter
  <2>2. SizedWithoutDeletion' BY SMT, <2>1 DEF SizedWithoutDeletion
  <2> QED BY Zenon, <1>5, <2>1, <2>2 DEF Inv
<1> QED BY Zenon, <1>6, <1>7, <1>8

LEMMA Unchanged == ASSUME Inv, UNCHANGED vars PROVE Inv'
<1>1. /\ arrs' = arrs /\ len' = len /\ objs' = objs /\ ptr' = ptr /\ state' = state /\ vm' = vm /\ want' = want
      /\ last' = last /\ deleted' = deleted /\ faults' = faults
  BY Zenon DEF vars
<1>2. cur' = cur BY Zenon, <1>1 DEF cur, Current
<1>3. SliceInv' BY Zenon, <1>1, <1>2 DEF Inv, SliceInv
<1>4. deleted' \/ ListInv' BY Zenon, <1>1, <1>2 DEF Inv, ListInv
<1>5. MachineInv' BY Zenon, <1>1 DEF Inv, MachineInv
<1>6. Asked' = Asked /\ Live' = Live BY Zenon, <1>1, <1>2 DEF Asked, Live
<1>7. FitsRequests' = FitsRequests BY Zenon, <1>1, <1>2, <1>6 DEF FitsRequests
<1>8. SizedWithoutDeletion' BY Zenon, <1>1, <1>2, <1>7 DEF Inv, SizedWithoutDeletion
<1> QED BY Zenon, <1>3, <1>4, <1>5, <1>8 DEF Inv

LEMMA Invariance == Spec => []Inv
<1>1. ASSUME Inv, [Next]_vars PROVE Inv'
  <2>1. CASE UNCHANGED vars BY Zenon, <1>1, <2>1, Unchanged
  <2>2. CASE Next
    <3>1. PICK c \in Ids : \/ StartContainer(c) \/ StopContainer(c) \/ DeleteContainer(c)
                           \/ \E r \in Requests : CreateContainer(c, r)
                           \/ \E u \in Updates : UpdateContainer(c, u)
      BY Zenon, <2>2 DEF Next
    <3> QED BY Zenon, <1>1, <3>1, StartStep, StopStep, DeleteStep, CreateStep, UpdateStep
  <2> QED BY Zenon, <1>1, <2>1, <2>2
<1> QED BY Inits, <1>1, PTL DEF Spec

\* For any containers, requests and updates, and whatever fails: after an operation that
\* has resized the machine it has the vCPUs, as far as its maximum goes, and at least the
\* memory that the containers of the list have asked for, while no container was deleted
\* and all have resources of their own from the start (updateResources, sandbox.go).
THEOREM MachineFits == Spec => []SizedWithoutDeletion
<1>1. Inv => SizedWithoutDeletion BY Zenon DEF Inv
<1> QED BY Invariance, <1>1, PTL

\* For any containers, requests and updates: as long as nothing failed every vCPU that
\* is plugged is online, and QEMU has recorded the memory that it has plugged
\* (onlineCPUMem in updateResources, hotplugAddMemory in qemu.go).
THEOREM MachineIsOnline == Spec => []OnlineUnlessFaulty
<1>1. Inv => OnlineUnlessFaulty BY Zenon DEF Inv, MachineInv, AllOnline, OnlineUnlessFaulty
<1> QED BY Invariance, <1>1, PTL
=============================================================================
