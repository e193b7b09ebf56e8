-------------------------- MODULE ServerChecksProofs --------------------------
(***************************************************************************)
(* Proofs about the parts of the server that decide by themselves: the     *)
(* limiter of RateLimit, for any window, limit and times, the table of     *)
(* PromptQueue, for any number of requests and prompts, the texts of       *)
(* SiweMessage, whatever lines they have, and the node's answers of        *)
(* PaymentCheck, whatever quantities and items they hold.                  *)
(***************************************************************************)
EXTENDS RateLimit, PromptQueue, SiweMessage, PaymentCheck, SequenceTheorems, FiniteSetTheorems,
        WellFoundedInduction, TLAPS

(* A set of naturals that is not empty has a least element.                 *)
LEMMA LeastNumber ==
  ASSUME NEW T \in SUBSET Nat, T # {}
  PROVE  \E x \in T : \A y \in T : x <= y
<1> DEFINE Below == {0 .. x : x \in T}
<1>1. Below \subseteq FiniteSubsetsOf(Nat) /\ Below # {}
  <2>1. \A x \in T : IsFiniteSet(0 .. x) /\ (0 .. x) \in SUBSET Nat
    BY FS_Interval
  <2> QED
    BY <2>1 DEF FiniteSubsetsOf
<1>2. PICK B \in Below : \A C \in Below : <<C, B>> \notin StrictSubsetOrdering(Nat)
  BY <1>1, WFMin, FS_StrictSubsetOrderingWellFounded
<1>3. PICK x \in T : B = 0 .. x
  BY <1>2
<1>4. ASSUME NEW y \in T, y < x PROVE FALSE
  <2>1. (0 .. y) \subseteq (0 .. x) /\ (0 .. y) # (0 .. x) /\ (0 .. y) \in Below
    <3>1. x \in 0 .. x /\ x \notin 0 .. y /\ (0 .. y) \subseteq (0 .. x)
      BY <1>4
    <3> QED
      BY <3>1
  <2>2. <<0 .. y, 0 .. x>> \in StrictSubsetOrdering(Nat)
    BY <2>1 DEF StrictSubsetOrdering
  <2> QED
    BY <1>2, <1>3, <2>1, <2>2
<1> QED
  BY <1>4

-----------------------------------------------------------------------------
(* The limiter.  Those of a sequence of times that are not before a time,   *)
(* and the messages that passed not before it.                              *)
AtLeast(s, from) == {k \in DOMAIN s : s[k] >= from}
PassedSince(v, from) == {j \in DOMAIN v : v[j].passed /\ v[j].at >= from}

RateTypes == /\ clock \in Nat
             /\ stamps \in Seq(Nat)
             /\ verdicts \in Seq([at : Nat, passed : BOOLEAN])

(* The times are in order and not in the future.                            *)
InOrder(s) == \A k, l \in DOMAIN s : k < l => s[k] <= s[l]
StampsOrdered == InOrder(stamps) /\ \A k \in DOMAIN stamps : stamps[k] <= clock

(* From any time within the window on, as many times are kept as messages   *)
(* passed.                                                                  *)
StampsCounted == \A from \in Int : from >= clock - RateWindow =>
    Cardinality(AtLeast(stamps, from)) = Cardinality(PassedSince(verdicts, from))

RateInv == RateTypes /\ StampsOrdered /\ StampsCounted /\ SlidingWindow

LEMMA Window == RateWindow \in Nat /\ MaxPerWindow \in Nat
BY RateAssumption

LEMMA Shifted ==
  ASSUME NEW S \in SUBSET Nat, NEW d \in Nat, NEW T, IsFiniteSet(S), T = {x + d : x \in S}
  PROVE  IsFiniteSet(T) /\ Cardinality(T) = Cardinality(S)
<1> DEFINE f == [x \in S |-> x + d]
<1>1. f \in [S -> T] /\ \A x, y \in S : f[x] = f[y] => x = y
  OBVIOUS
<1>2. \A y \in T : \E x \in S : f[x] = y
  OBVIOUS
<1>3. f \in Bijection(S, T)
  BY <1>1, <1>2 DEF Bijection, Injection, Surjection, IsInjective
<1> QED
  BY <1>3, FS_Bijection DEF ExistsBijection

(* What the loop leaves: the times within the window, in order.             *)
LEMMA RecentOf ==
  ASSUME RateInv, NEW r, r = Recent(clock), NEW start, start = clock - RateWindow
  PROVE  /\ start \in Int /\ r \in Seq(Nat) /\ InOrder(r)
         /\ \A k \in DOMAIN r : r[k] <= clock
         /\ Len(r) \in Nat /\ Len(r) = Cardinality(AtLeast(stamps, start))
         /\ \A from \in Int : from >= start =>
                /\ IsFiniteSet(AtLeast(r, from))
                /\ Cardinality(AtLeast(r, from)) = Cardinality(AtLeast(stamps, from))
<1>t. /\ clock \in Nat /\ stamps \in Seq(Nat) /\ InOrder(stamps)
      /\ \A k \in DOMAIN stamps : stamps[k] <= clock
  BY DEF RateInv, RateTypes, StampsOrdered
<1>w. RateWindow \in Nat /\ start \in Int
  BY <1>t, Window
<1>n. PICK n \in Nat : n = Len(stamps) /\ DOMAIN stamps = 1 .. n /\ \A k \in 1 .. n : stamps[k] \in Nat
  BY <1>t, LenProperties, ElementOfSeq
<1>y. PICK young : young = AtLeast(stamps, start)
  OBVIOUS
<1>1. r = IF young = {} THEN <<>> ELSE SubSeq(stamps, Min(young), n)
  <2>1. young = {i \in DOMAIN stamps : clock - stamps[i] <= RateWindow}
    BY <1>t, <1>w, <1>n, <1>y DEF AtLeast
  <2> QED
    BY <1>n, <2>1 DEF Recent
<1>2. \A from \in Int : from >= start => AtLeast(stamps, from) \subseteq young
  BY <1>w, <1>n, <1>y DEF AtLeast
<1>3. CASE young = {}
  <2>1. r = <<>> /\ r \in Seq(Nat) /\ Len(r) = 0 /\ DOMAIN r = {}
    <3>1. r = <<>>
      BY <1>1, <1>3
    <3>2. r \in Seq(Nat) /\ Len(r) = 0
      BY <3>1, EmptySeq
    <3>3. DOMAIN r = 1 .. 0
      BY <3>2, LenProperties
    <3> QED
      BY <3>1, <3>2, <3>3
  <2>2. IsFiniteSet({}) /\ Cardinality({}) = 0
    BY FS_EmptySet
  <2>3. \A from : AtLeast(r, from) = {}
    BY <2>1 DEF AtLeast
  <2>4. \A from \in Int : from >= start => AtLeast(stamps, from) = {}
    BY <1>2, <1>3
  <2> QED
    BY <1>w, <1>3, <1>y, <2>1, <2>2, <2>3, <2>4 DEF InOrder
<1>4. CASE young # {}
  <2>1. PICK first \in young : first = Min(young) /\ \A k \in young : first <= k
    <3>1. young \subseteq Nat
      BY <1>n, <1>y DEF AtLeast
    <3>2. \E x \in young : \A y \in young : x <= y
      BY <1>4, <3>1, LeastNumber
    <3> QED
      BY <3>2 DEF Min
  <2>2. /\ first \in 1 .. n /\ first \in Nat /\ stamps[first] >= start
    BY <1>n, <1>y, <2>1 DEF AtLeast
  <2>3. young = first .. n
    <3>1. ASSUME NEW k \in first .. n PROVE k \in young
      <4>1. k \in 1 .. n /\ first \in 1 .. n /\ (k = first \/ first < k)
        BY <2>2, <3>1
      <4>2. stamps[first] <= stamps[k]
        BY <1>t, <1>n, <4>1 DEF InOrder
      <4> QED
        BY <1>n, <1>w, <1>y, <2>2, <4>1, <4>2 DEF AtLeast
    <3>2. young \subseteq first .. n
      BY <1>n, <1>y, <2>1, <2>2 DEF AtLeast
    <3> QED
      BY <3>1, <3>2
  <2>4. PICK len \in Nat : len = n - first + 1
    BY <2>2
  <2>5. PICK d \in Nat : d = first - 1 /\ n = d + len
    BY <2>2, <2>4
  <2>6. /\ r \in Seq(Nat) /\ Len(r) = len /\ DOMAIN r = 1 .. len
        /\ \A k \in 1 .. len : r[k] = stamps[k + d]
    <3>0. r = SubSeq(stamps, first, n)
      BY <1>1, <1>4, <2>1
    <3>1. \A i \in first .. n : stamps[i] \in Nat
      BY <1>n, <2>2
    <3>2. /\ r \in Seq(Nat) /\ Len(r) = len
          /\ \A k \in 1 .. len : r[k] = stamps[first + k - 1]
      BY <1>t, <1>n, <2>2, <2>4, <3>0, <3>1, SubSeqProperties
    <3>3. \A k \in 1 .. len : first + k - 1 = k + d
      BY <2>2, <2>4, <2>5
    <3>4. DOMAIN r = 1 .. len
      BY <3>2, LenProperties
    <3> QED
      BY <3>2, <3>3, <3>4
  <2>7. \A k \in 1 .. len : k + d \in 1 .. n /\ k \in Nat
    BY <2>5
  <2>8. InOrder(r) /\ \A k \in DOMAIN r : r[k] <= clock
    <3>1. ASSUME NEW k \in 1 .. len, NEW l \in 1 .. len, k < l PROVE r[k] <= r[l]
      <4>1. k + d < l + d /\ k + d \in DOMAIN stamps /\ l + d \in DOMAIN stamps
        BY <1>n, <2>5, <2>7, <3>1
      <4> QED
        BY <1>t, <2>6, <4>1 DEF InOrder
    <3> QED
      BY <1>t, <1>n, <2>6, <2>7, <3>1 DEF InOrder
  <2>9. Len(r) = Cardinality(AtLeast(stamps, start))
    <3>1. Cardinality(first .. n) = n - first + 1
      BY <2>2, FS_Interval
    <3> QED
      BY <1>y, <2>3, <2>4, <2>6, <3>1
  <2>10. ASSUME NEW from \in Int, from >= start
         PROVE  /\ IsFiniteSet(AtLeast(r, from))
                /\ Cardinality(AtLeast(r, from)) = Cardinality(AtLeast(stamps, from))
    <3>1. AtLeast(r, from) \subseteq 1 .. len
      BY <2>6 DEF AtLeast
    <3>2. IsFiniteSet(AtLeast(r, from))
      <4>1. IsFiniteSet(1 .. len)
        BY FS_Interval
      <4> QED
        BY <3>1, <4>1, FS_Subset
    <3>3. AtLeast(stamps, from) = {k + d : k \in AtLeast(r, from)}
      <4>1. ASSUME NEW k \in AtLeast(r, from) PROVE k + d \in AtLeast(stamps, from)
        BY <1>n, <2>6, <2>7, <3>1, <4>1 DEF AtLeast
      <4>2. ASSUME NEW i \in AtLeast(stamps, from) PROVE \E k \in AtLeast(r, from) : i = k + d
        <5>1. i \in first .. n
          BY <1>2, <2>3, <2>10, <4>2
        <5>2. i - d \in 1 .. len /\ (i - d) + d = i
          BY <2>2, <2>4, <2>5, <5>1
        <5>3. i - d \in AtLeast(r, from)
          BY <2>6, <4>2, <5>2 DEF AtLeast
        <5> QED
          BY <5>2, <5>3
      <4> QED
        BY <4>1, <4>2
    <3>4. AtLeast(r, from) \subseteq Nat
      BY <3>1
    <3> QED
      BY <3>2, <3>3, <3>4, Shifted
  <2> QED
    BY <1>w, <2>6, <2>8, <2>9, <2>10
<1> QED
  BY <1>3, <1>4
LEMMA RateStart == RateInit => RateInv
<1> SUFFICES ASSUME RateInit PROVE RateInv
  OBVIOUS
<1>1. clock = 0 /\ stamps = <<>> /\ verdicts = <<>>
  BY DEF RateInit
<1>2. /\ stamps \in Seq(Nat) /\ verdicts \in Seq([at : Nat, passed : BOOLEAN])
      /\ Len(stamps) = 0 /\ Len(verdicts) = 0
  BY <1>1, EmptySeq
<1>3. DOMAIN stamps = {} /\ DOMAIN verdicts = {}
  BY <1>2, LenProperties
<1>4. \A from : AtLeast(stamps, from) = {} /\ PassedSince(verdicts, from) = {}
  BY <1>3 DEF AtLeast, PassedSince
<1> QED
  BY <1>1, <1>2, <1>3, <1>4 DEF RateInv, RateTypes, StampsOrdered, InOrder, StampsCounted, SlidingWindow

(* One sequence is another with one element more.                           *)
OneMore(u, s, t) == u = Append(s, t)

LEMMA AtLeastAppend ==
  ASSUME NEW s \in Seq(Nat), NEW t \in Nat, NEW u, OneMore(u, s, t), NEW from \in Int
  PROVE  /\ t >= from => AtLeast(u, from) = AtLeast(s, from) \cup {Len(s) + 1}
         /\ t < from => AtLeast(u, from) = AtLeast(s, from)
         /\ Len(s) + 1 \notin AtLeast(s, from)
<1>1. PICK n \in Nat : n = Len(s) /\ DOMAIN s = 1 .. n
  BY LenProperties
<1>2. u \in Seq(Nat) /\ Len(u) = n + 1 /\ u[n + 1] = t /\ \A k \in 1 .. n : u[k] = s[k]
  BY <1>1, AppendProperties DEF OneMore
<1>3. DOMAIN u = 1 .. n + 1 /\ 1 .. n + 1 = (1 .. n) \cup {n + 1} /\ n + 1 \notin 1 .. n
  BY <1>2, LenProperties
<1> QED
  BY <1>1, <1>2, <1>3 DEF AtLeast

Verdicts == [at : Nat, passed : BOOLEAN]
Before(v, i) == {j \in 1 .. i - 1 : v[j].passed /\ v[i].at - v[j].at <= RateWindow}

LEMMA VerdictsAppend ==
  ASSUME NEW v \in Seq(Verdicts), NEW new \in Verdicts, NEW w, OneMore(w, v, new)
  PROVE  /\ w \in Seq(Verdicts)
         /\ DOMAIN w = DOMAIN v \cup {Len(v) + 1}
         /\ w[Len(v) + 1] = new
         /\ \A i \in DOMAIN v : w[i] = v[i]
         /\ \A i \in DOMAIN v : Before(w, i) = Before(v, i)
<1>1. PICK n \in Nat : n = Len(v) /\ DOMAIN v = 1 .. n /\ \A i \in 1 .. n : v[i] \in Verdicts
  BY LenProperties, ElementOfSeq
<1>2. w \in Seq(Verdicts) /\ Len(w) = n + 1 /\ w[n + 1] = new /\ \A k \in 1 .. n : w[k] = v[k]
  BY <1>1, AppendProperties DEF OneMore
<1>3. DOMAIN w = 1 .. n + 1 /\ 1 .. n + 1 = (1 .. n) \cup {n + 1} /\ n + 1 \notin 1 .. n
  BY <1>2, LenProperties
<1>4. ASSUME NEW i \in 1 .. n PROVE Before(w, i) = Before(v, i)
  <2>1. \A j \in 1 .. i - 1 : j \in 1 .. n
    BY <1>1
  <2> QED
    BY <1>2, <2>1 DEF Before
<1> QED
  BY <1>1, <1>2, <1>3, <1>4

LEMMA PassedAppend ==
  ASSUME NEW v \in Seq(Verdicts), NEW new \in Verdicts, NEW w, OneMore(w, v, new), NEW from \in Int
  PROVE  /\ IsFiniteSet(PassedSince(v, from)) /\ Len(v) + 1 \notin PassedSince(v, from)
         /\ new.passed /\ new.at >= from => PassedSince(w, from) = PassedSince(v, from) \cup {Len(v) + 1}
         /\ ~(new.passed /\ new.at >= from) => PassedSince(w, from) = PassedSince(v, from)
<1>1. PICK n \in Nat : n = Len(v) /\ DOMAIN v = 1 .. n
  BY LenProperties
<1>2. /\ DOMAIN w = (1 .. n) \cup {n + 1} /\ n + 1 \notin 1 .. n
      /\ w[n + 1] = new /\ \A k \in 1 .. n : w[k] = v[k]
  <2>1. /\ DOMAIN w = DOMAIN v \cup {Len(v) + 1} /\ w[Len(v) + 1] = new
        /\ \A i \in DOMAIN v : w[i] = v[i]
    BY VerdictsAppend
  <2> QED
    BY <1>1, <2>1
<1>3. PassedSince(v, from) \subseteq 1 .. n
  BY <1>1 DEF PassedSince
<1>4. IsFiniteSet(PassedSince(v, from))
  <2>1. IsFiniteSet(1 .. n)
    BY FS_Interval
  <2> QED
    BY <1>3, <2>1, FS_Subset
<1>5. n + 1 \notin PassedSince(v, from)
  BY <1>2, <1>3
<1>6. new.passed /\ new.at >= from => PassedSince(w, from) = PassedSince(v, from) \cup {n + 1}
  BY <1>1, <1>2 DEF PassedSince
<1>7. ~(new.passed /\ new.at >= from) => PassedSince(w, from) = PassedSince(v, from)
  BY <1>1, <1>2 DEF PassedSince
<1> QED
  BY <1>1, <1>4, <1>5, <1>6, <1>7

LEMMA Less ==
  ASSUME NEW a \in Int, NEW b \in Int, NEW c, c = (a < b)
  PROVE  c \in BOOLEAN /\ (c <=> a < b)
<1>1. CASE a < b
  BY <1>1
<1>2. CASE ~(a < b)
  <2>1. (a < b) = FALSE
    BY <1>2, SMT
  <2> QED
    BY <2>1
<1> QED
  BY <1>1, <1>2

LEMMA SlidingIs == SlidingWindow <=>
    \A i \in DOMAIN verdicts : verdicts[i].passed <=> Cardinality(Before(verdicts, i)) < MaxPerWindow
BY DEF SlidingWindow, PassedBefore, Before

LEMMA SlidingIsNext == SlidingWindow' <=>
    \A i \in DOMAIN verdicts' : verdicts'[i].passed <=> Cardinality(Before(verdicts', i)) < MaxPerWindow
BY DEF SlidingWindow, PassedBefore, Before

LEMMA TickRate == RateInv /\ RateTick => RateInv'
<1> SUFFICES ASSUME RateInv, RateTick PROVE RateInv'
  OBVIOUS
<1>1. /\ clock \in Nat /\ clock' = clock + 1 /\ stamps' = stamps /\ verdicts' = verdicts
      /\ stamps \in Seq(Nat) /\ verdicts \in Seq(Verdicts) /\ RateWindow \in Nat
  BY Window DEF RateInv, RateTypes, RateTick, Verdicts
<1>2. \A k \in DOMAIN stamps : stamps[k] \in Nat
  BY <1>1, ElementOfSeq, LenProperties
<1>3. \A k \in DOMAIN stamps : stamps[k] <= clock + 1
  BY <1>1, <1>2 DEF RateInv, StampsOrdered
<1>4. \A from \in Int : from >= (clock + 1) - RateWindow => from >= clock - RateWindow
  BY <1>1
<1>5. RateTypes'
  BY <1>1 DEF RateTypes, Verdicts
<1>6. StampsOrdered'
  BY <1>1, <1>3 DEF RateInv, StampsOrdered
<1>7. StampsCounted'
  BY <1>1, <1>4 DEF RateInv, StampsCounted
<1>8. SlidingWindow'
  BY <1>1, SlidingIs, SlidingIsNext DEF RateInv
<1> QED
  BY <1>5, <1>6, <1>7, <1>8 DEF RateInv

LEMMA SendRate == RateInv /\ Send => RateInv'
<1> SUFFICES ASSUME RateInv, Send PROVE RateInv'
  OBVIOUS
<1>1. PICK r, start, now, v : r = Recent(clock) /\ start = now - RateWindow /\ now = clock /\ v = verdicts
  OBVIOUS
<1>2. now \in Nat /\ v \in Seq(Verdicts) /\ RateWindow \in Nat /\ MaxPerWindow \in Nat
  BY <1>1, Window DEF RateInv, RateTypes, Verdicts
<1>3. /\ start \in Int /\ r \in Seq(Nat) /\ InOrder(r)
      /\ \A k \in DOMAIN r : r[k] <= now
      /\ Len(r) \in Nat /\ Len(r) = Cardinality(AtLeast(stamps, start))
      /\ \A from \in Int : from >= start =>
             /\ IsFiniteSet(AtLeast(r, from))
             /\ Cardinality(AtLeast(r, from)) = Cardinality(AtLeast(stamps, from))
  BY <1>1, RecentOf
<1>4. PICK passed : passed = (Len(r) < MaxPerWindow)
  OBVIOUS
<1>5. passed \in BOOLEAN /\ (passed <=> Len(r) < MaxPerWindow)
  <2>1. PICK len \in Int : len = Len(r)
    BY <1>3
  <2>2. passed = (len < MaxPerWindow) /\ MaxPerWindow \in Int
    BY <1>2, <1>4, <2>1
  <2>3. passed \in BOOLEAN /\ (passed <=> len < MaxPerWindow)
    BY <2>2, Less
  <2> QED
    BY <2>1, <2>3
<1>6. PICK u, w, new : /\ u = stamps' /\ w = verdicts' /\ clock' = now
                       /\ u = IF passed THEN Append(r, now) ELSE r
                       /\ w = Append(v, new) /\ new = [at |-> now, passed |-> passed]
  BY <1>1, <1>4 DEF Send
<1>7. PICK n \in Nat : n = Len(r) /\ DOMAIN r = 1 .. n
  BY <1>3, LenProperties
<1>8. PICK m \in Nat : m = Len(v) /\ DOMAIN v = 1 .. m /\ \A j \in 1 .. m : v[j] \in Verdicts
  BY <1>2, LenProperties, ElementOfSeq
<1>n. new \in Verdicts /\ new.at = now /\ new.passed = passed /\ OneMore(w, v, new)
  BY <1>2, <1>5, <1>6 DEF Verdicts, OneMore
<1>9. /\ w \in Seq(Verdicts) /\ DOMAIN w = DOMAIN v \cup {m + 1} /\ w[m + 1] = new
      /\ \A i \in DOMAIN v : w[i] = v[i]
      /\ \A i \in DOMAIN v : Before(w, i) = Before(v, i)
      /\ Before(w, m + 1) = PassedSince(v, start)
  <2>1. w \in Seq(Verdicts) /\ DOMAIN w = DOMAIN v \cup {Len(v) + 1} /\ w[Len(v) + 1] = new
    BY <1>2, <1>n, VerdictsAppend
  <2>2. \A i \in DOMAIN v : w[i] = v[i]
    BY <1>2, <1>n, VerdictsAppend
  <2>3. \A i \in DOMAIN v : Before(w, i) = Before(v, i)
    BY <1>2, <1>n, VerdictsAppend
  <2>4. Before(w, m + 1) = PassedSince(v, start)
    <3>1. \A j \in 1 .. m : v[j].at \in Nat
      BY <1>8 DEF Verdicts
    <3>2. \A j \in 1 .. m : now - v[j].at <= RateWindow <=> v[j].at >= start
      BY <1>1, <1>2, <3>1
    <3>3. (m + 1) - 1 = m
      BY <1>8
    <3> QED
      BY <1>8, <1>n, <2>1, <2>2, <3>2, <3>3 DEF Before, PassedSince
  <2> QED
    BY <1>8, <2>1, <2>2, <2>3, <2>4
<1>10. RateTypes'
  <2>1. u \in Seq(Nat)
    BY <1>2, <1>3, <1>6, AppendProperties
  <2> QED
    BY <1>2, <1>6, <1>9, <2>1 DEF RateTypes, Verdicts
<1>11. InOrder(u) /\ \A k \in DOMAIN u : u[k] <= now
  <2>1. CASE ~passed
    BY <1>3, <1>6, <2>1
  <2>2. CASE passed
    <3>1. u \in Seq(Nat) /\ Len(u) = n + 1 /\ u[n + 1] = now /\ \A k \in 1 .. n : u[k] = r[k]
      BY <1>2, <1>3, <1>6, <1>7, <2>2, AppendProperties
    <3>2. DOMAIN u = 1 .. n + 1
      BY <3>1, LenProperties
    <3>3. ASSUME NEW k \in 1 .. n + 1 PROVE u[k] <= now
      <4>1. CASE k = n + 1
        BY <1>2, <3>1, <4>1
      <4>2. CASE k # n + 1
        <5>1. k \in DOMAIN r /\ u[k] = r[k]
          BY <1>7, <3>1, <4>2
        <5> QED
          BY <1>3, <5>1
      <4> QED
        BY <4>1, <4>2
    <3>4. ASSUME NEW k \in 1 .. n + 1, NEW l \in 1 .. n + 1, k < l PROVE u[k] <= u[l]
      <4>1. k \in 1 .. n /\ (l \in 1 .. n \/ l = n + 1)
        BY <3>4
      <4> QED
        BY <1>3, <1>7, <3>1, <3>3, <3>4, <4>1 DEF InOrder
    <3> QED
      BY <3>2, <3>3, <3>4 DEF InOrder
  <2> QED
    BY <1>5, <2>1, <2>2
<1>12. ASSUME NEW from \in Int, from >= start
       PROVE  Cardinality(AtLeast(u, from)) = Cardinality(PassedSince(w, from))
  <2>1. PICK A, P : A = AtLeast(r, from) /\ P = PassedSince(v, from)
    OBVIOUS
  <2>2. /\ IsFiniteSet(P) /\ m + 1 \notin P
        /\ passed /\ now >= from => PassedSince(w, from) = P \cup {m + 1}
        /\ ~(passed /\ now >= from) => PassedSince(w, from) = P
    BY <1>2, <1>8, <1>n, <2>1, PassedAppend
  <2>5. IsFiniteSet(A) /\ Cardinality(A) = Cardinality(P)
    BY <1>1, <1>3, <1>12, <2>1 DEF RateInv, StampsCounted
  <2>3. CASE passed /\ now >= from
    <3>1. AtLeast(u, from) = A \cup {n + 1} /\ n + 1 \notin A
      <4>1. OneMore(u, r, now)
        BY <1>6, <2>3 DEF OneMore
      <4> QED
        BY <1>2, <1>3, <1>7, <2>1, <2>3, <4>1, AtLeastAppend
    <3>2. PassedSince(w, from) = P \cup {m + 1} /\ m + 1 \notin P
      BY <2>2, <2>3
    <3>3. Cardinality(A \cup {n + 1}) = Cardinality(A) + 1
      BY <2>5, <3>1, FS_AddElement
    <3>4. Cardinality(P \cup {m + 1}) = Cardinality(P) + 1
      BY <2>2, <3>2, FS_AddElement
    <3> QED
      BY <2>5, <3>1, <3>2, <3>3, <3>4
  <2>4. CASE ~(passed /\ now >= from)
    <3>1. AtLeast(u, from) = A
      <4>1. CASE ~passed
        BY <1>6, <2>1, <4>1
      <4>2. CASE passed
        <5>1. OneMore(u, r, now) /\ now < from
          BY <1>2, <1>6, <2>4, <4>2 DEF OneMore
        <5> QED
          BY <1>2, <1>3, <2>1, <5>1, AtLeastAppend
      <4> QED
        BY <4>1, <4>2
    <3>2. PassedSince(w, from) = P
      BY <2>2, <2>4
    <3> QED
      BY <2>5, <3>1, <3>2
  <2> QED
    BY <2>3, <2>4
<1>13. SlidingWindow'
  <2>1. Cardinality(Before(w, m + 1)) = Len(r)
    <3>1. start >= clock - RateWindow
      BY <1>1, <1>2
    <3> QED
      BY <1>1, <1>3, <1>9, <3>1 DEF RateInv, StampsCounted
  <2>2. w[m + 1].passed = passed
    BY <1>9, <1>n
  <2>3. \A i \in DOMAIN v : w[i].passed <=> Cardinality(Before(w, i)) < MaxPerWindow
    BY <1>1, <1>9, SlidingIs DEF RateInv
  <2>4. \A i \in DOMAIN w : w[i].passed <=> Cardinality(Before(w, i)) < MaxPerWindow
    BY <1>5, <1>9, <2>1, <2>2, <2>3
  <2> QED
    BY <1>6, <2>4, SlidingIsNext
<1>14. StampsOrdered' /\ StampsCounted'
  BY <1>1, <1>6, <1>11, <1>12 DEF StampsOrdered, StampsCounted
<1> QED
  BY <1>10, <1>13, <1>14 DEF RateInv

LEMMA IdleRate == RateInv /\ UNCHANGED rateVars => RateInv'
BY SlidingIs, SlidingIsNext DEF RateInv, RateTypes, StampsOrdered, StampsCounted, rateVars

(* The invariant of the limiter holds in every state.                       *)
THEOREM RateInvariance == RateSpec => []RateInv
<1>1. RateInv /\ [RateNext]_rateVars => RateInv'
  BY TickRate, SendRate, IdleRate DEF RateNext
<1> QED
  BY RateStart, <1>1, PTL DEF RateSpec

(* is_rate_limited lets a message through exactly if fewer than the limit    *)
(* passed in the window that ends with it, whatever the times: what it has   *)
(* dropped from the front never mattered again.                             *)
THEOREM LimitSlides == RateSpec => []SlidingWindow
BY RateInvariance, PTL DEF RateInv
-----------------------------------------------------------------------------
(* The table of prompts.  A row of a table into which n prompts were        *)
(* stored.                                                                  *)
Rows(n) == [id : 1 .. n, prompt : 1 .. n, state : 0 .. 3, image : 0 .. n]

(* Ids are distinct and in the order of the prompts.                        *)
Ordered(rows) == \A r, s \in rows : /\ r.id = s.id => r = s
                                    /\ r.id < s.id => r.prompt < s.prompt

(* What is drawn is a prompt of a row that there is or was, and the row of  *)
(* its id is that prompt's; or the id was freed.                            *)
Traced(rows, d, freed) ==
    d.id \in freed \/ (d.id <= Newest(rows) /\ \A r \in rows : r.id = d.id => r.prompt = d.prompt)

PromptTypes == /\ stored \in Nat /\ untrimmed \in Nat
               /\ prompts \in SUBSET Rows(stored) /\ IsFiniteSet(prompts)
               /\ drawing \in SUBSET [id : 1 .. stored, prompt : 1 .. stored]

DrawingTraced == \A d \in drawing : Traced(prompts, d, reissued)

PromptInv == PromptTypes /\ Ordered(prompts) /\ DrawingTraced /\ PromptsKept /\ ImageOfItsPrompt

LEMMA Limit == Keep \in Nat /\ Keep >= 1
BY PromptAssumption

(* A bounded set of naturals that is not empty has a greatest element.      *)
LEMMA GreatestNumber ==
  ASSUME NEW n \in Nat, NEW T \in SUBSET (0 .. n), T # {}
  PROVE  \E x \in T : \A y \in T : x >= y
<1>0. PICK U : U = {n - x : x \in T}
  OBVIOUS
<1>1. U \in SUBSET Nat /\ U # {} /\ U = {n - x : x \in T}
  <2>1. \A x \in T : x \in 0 .. n /\ n - x \in Nat
    OBVIOUS
  <2>2. \A u \in U : u \in Nat
    BY <1>0, <2>1
  <2> QED
    BY <1>0, <2>2
<1>2. PICK u \in U : \A y \in U : u <= y
  BY <1>1, LeastNumber
<1>3. PICK x \in T : u = n - x
  BY <1>1, <1>2
<1>4. ASSUME NEW y \in T PROVE x >= y
  <2>1. n - y \in U /\ x \in 0 .. n /\ y \in 0 .. n
    BY <1>1
  <2>2. n - x <= n - y
    BY <1>2, <1>3, <2>1
  <2> QED
    BY <2>1, <2>2
<1> QED
  BY <1>4

(* Newest is the largest id, 0 if there is none.                            *)
LEMMA NewestIs ==
  ASSUME NEW n \in Nat, NEW rows \in SUBSET Rows(n), NEW top, top = Newest(rows)
  PROVE  /\ top \in 0 .. n /\ \A r \in rows : r.id <= top
         /\ top = 0 \/ \E r \in rows : r.id = top
<1>1. PICK T : T = Ids(rows) \cup {0}
  OBVIOUS
<1>2. \A r \in rows : r.id \in 1 .. n
  BY DEF Rows
<1>3. T \in SUBSET (0 .. n) /\ T # {}
  BY <1>1, <1>2 DEF Ids
<1>4. top \in T /\ \A y \in T : top >= y
  <2>1. \E x \in T : \A y \in T : x >= y
    BY <1>3, GreatestNumber
  <2>2. top = Max(T)
    BY <1>1 DEF Newest
  <2> QED
    BY <2>1, <2>2 DEF Max
<1>5. \A r \in rows : r.id \in T
  BY <1>1 DEF Ids
<1>6. top = 0 \/ \E r \in rows : r.id = top
  BY <1>1, <1>4 DEF Ids
<1>7. \A r \in rows : r.id <= top
  BY <1>2, <1>3, <1>4, <1>5
<1> QED
  BY <1>3, <1>4, <1>6, <1>7

(* The trimming leaves at most Keep rows.                                   *)
LEMMA KeptFew ==
  ASSUME NEW n \in Nat, NEW rows \in SUBSET Rows(n), IsFiniteSet(rows), Ordered(rows),
         NEW kept, kept = Kept(rows)
  PROVE  kept \subseteq rows /\ IsFiniteSet(kept) /\ Cardinality(kept) <= Keep
<1>1. kept \subseteq rows /\ IsFiniteSet(kept)
  BY FS_Subset DEF Kept
<1>2. CASE kept = {}
  BY <1>1, <1>2, FS_EmptySet, Limit
<1>3. CASE kept # {}
  <2>1. PICK T : T = Ids(kept)
    OBVIOUS
  <2>2. T \in SUBSET Nat /\ T # {} /\ \A r \in rows : r.id \in Nat
    BY <1>1, <1>3, <2>1 DEF Ids, Rows
  <2>3. PICK least \in T : \A y \in T : least <= y
    BY <2>2, LeastNumber
  <2>4. PICK last \in kept : last.id = least
    BY <2>1, <2>3 DEF Ids
  <2>5. PICK above : above = {s \in rows : s.id > last.id}
    OBVIOUS
  <2>6. IsFiniteSet(above) /\ Cardinality(above) \in Nat /\ Cardinality(above) < Keep
    <3>1. IsFiniteSet(above)
      BY <2>5, FS_Subset
    <3>2. Cardinality(above) < Keep
      BY <2>4, <2>5 DEF Kept
    <3> QED
      BY <3>1, <3>2, FS_CardinalityType
  <2>7. kept \ {last} \subseteq above
    <3> SUFFICES ASSUME NEW r \in kept, r # last PROVE r \in above
      OBVIOUS
    <3>1. r \in rows /\ last \in rows /\ r.id \in T /\ r.id \in Nat /\ last.id \in Nat
      BY <1>1, <2>1, <2>2 DEF Ids
    <3>2. r.id # last.id
      BY <3>1 DEF Ordered
    <3>3. last.id <= r.id
      BY <2>3, <2>4, <3>1
    <3> QED
      BY <2>5, <3>1, <3>2, <3>3
  <2>8. /\ Cardinality(kept \ {last}) = Cardinality(kept) - 1
        /\ Cardinality(kept \ {last}) <= Cardinality(above)
    BY <1>1, <2>4, <2>6, <2>7, FS_RemoveElement, FS_Subset
  <2>9. Cardinality(kept) \in Nat
    BY <1>1, FS_CardinalityType
  <2> QED
    BY <1>1, <2>6, <2>8, <2>9, Limit
<1> QED
  BY <1>2, <1>3

(* The row of the largest id is never trimmed.                              *)
LEMMA KeptNewest ==
  ASSUME NEW n \in Nat, NEW rows \in SUBSET Rows(n), NEW kept, kept = Kept(rows)
  PROVE  Newest(kept) = Newest(rows)
<1>1. PICK top, low : top = Newest(rows) /\ low = Newest(kept)
  OBVIOUS
<1>2. kept \subseteq rows /\ kept \in SUBSET Rows(n)
  BY DEF Kept
<1>3. top \in 0 .. n /\ (\A r \in rows : r.id <= top) /\ (top = 0 \/ \E r \in rows : r.id = top)
  BY <1>1, NewestIs
<1>4. low \in 0 .. n /\ (\A r \in kept : r.id <= low) /\ (low = 0 \/ \E r \in kept : r.id = low)
  BY <1>1, <1>2, NewestIs
<1>5. low <= top
  BY <1>2, <1>3, <1>4
<1>6. CASE top = 0
  BY <1>1, <1>3, <1>4, <1>5, <1>6
<1>7. CASE top # 0
  <2>1. PICK r \in rows : r.id = top
    BY <1>3, <1>7
  <2>2. \A s \in rows : s.id \in Nat
    BY DEF Rows
  <2>3. {s \in rows : s.id > r.id} = {}
    BY <1>3, <2>1, <2>2
  <2>4. Cardinality({s \in rows : s.id > r.id}) = 0
    BY <2>3, FS_EmptySet
  <2>5. r \in kept
    BY <2>4, Limit DEF Kept
  <2> QED
    BY <1>1, <1>3, <1>4, <1>5, <2>1, <2>5
<1> QED
  BY <1>6, <1>7

(* At least Keep prompts were stored after one that is trimmed.             *)
LEMMA TrimmedOld ==
  ASSUME NEW n \in Nat, NEW rows \in SUBSET Rows(n), IsFiniteSet(rows), Ordered(rows),
         NEW r \in rows, r \notin Kept(rows)
  PROVE  n - r.prompt >= Keep
<1>1. PICK newer : newer = {s \in rows : s.id > r.id}
  OBVIOUS
<1>2. \A s \in rows : s.id \in Nat /\ s.prompt \in Nat /\ s.prompt \in 1 .. n
  BY DEF Rows
<1>3. IsFiniteSet(newer) /\ Cardinality(newer) \in Nat
  BY <1>1, FS_Subset, FS_CardinalityType
<1>4. Cardinality(newer) >= Keep
  BY <1>1, <1>3, Limit DEF Kept
<1>5. PICK later : later = r.prompt + 1 .. n
  OBVIOUS
<1>6. IsFiniteSet(later) /\ Cardinality(later) <= n - r.prompt
  <2>1. r.prompt + 1 \in Int /\ r.prompt \in 1 .. n
    BY <1>2
  <2>2. IsFiniteSet(later) /\ Cardinality(later) = IF r.prompt + 1 > n THEN 0 ELSE n - (r.prompt + 1) + 1
    <3>1. PICK a \in Int : a = r.prompt + 1
      BY <2>1
    <3>2. \A b \in Int : /\ IsFiniteSet(a .. b)
                        /\ Cardinality(a .. b) = IF a > b THEN 0 ELSE b - a + 1
      BY FS_Interval
    <3> QED
      BY <1>5, <3>1, <3>2
  <2> QED
    BY <2>1, <2>2
<1>7. PICK f : f = [s \in newer |-> s.prompt]
  OBVIOUS
<1>8. f \in Injection(newer, later)
  <2>1. \A s \in newer : s.prompt \in later
    BY <1>1, <1>2, <1>5 DEF Ordered
  <2>2. ASSUME NEW s \in newer, NEW t \in newer, f[s] = f[t] PROVE s = t
    <3>1. s.prompt = t.prompt /\ s \in rows /\ t \in rows
      BY <1>1, <1>7, <2>2
    <3>2. ~(s.id < t.id) /\ ~(t.id < s.id)
      BY <1>2, <3>1 DEF Ordered
    <3> QED
      BY <1>2, <3>1, <3>2 DEF Ordered
  <2> QED
    BY <1>7, <2>1, <2>2 DEF Injection, IsInjective
<1>9. Cardinality(newer) <= Cardinality(later)
  BY <1>6, <1>8, FS_Injection
<1>10. Cardinality(later) \in Nat
  BY <1>6, FS_CardinalityType
<1> QED
  BY <1>2, <1>3, <1>4, <1>6, <1>9, <1>10, Limit
(* Statements that change rows one by one keep their ids and prompts.       *)
Updated(rows, new) == /\ \A r \in rows : \E q \in new : q.id = r.id /\ q.prompt = r.prompt
                      /\ \A q \in new : \E r \in rows : q.id = r.id /\ q.prompt = r.prompt

LEMMA UpdatedNewest ==
  ASSUME NEW n \in Nat, NEW rows \in SUBSET Rows(n), NEW new \in SUBSET Rows(n), Updated(rows, new)
  PROVE  Newest(new) = Newest(rows) /\ Prompts(new) = Prompts(rows)
<1>1. Ids(new) = Ids(rows)
  BY DEF Ids, Updated
<1>2. Prompts(new) = Prompts(rows)
  BY DEF Prompts, Updated
<1> QED
  BY <1>1, <1>2 DEF Newest

LEMMA PromptStart == PromptInit => PromptInv
<1> SUFFICES ASSUME PromptInit PROVE PromptInv
  OBVIOUS
<1>1. PICK row : row = Row(1, 1)
  OBVIOUS
<1>2. /\ prompts = {row} /\ stored = 1 /\ drawing = {} /\ untrimmed = 0
      /\ row \in Rows(1) /\ row.prompt = 1 /\ row.image = 0
  BY <1>1 DEF PromptInit, Fresh, Row, Rows
<1>3. IsFiniteSet({row}) /\ Cardinality({row}) = 1
  BY FS_Singleton
<1>4. Prompts({row}) = {1}
  BY <1>2 DEF Prompts
<1>5. PromptsKept
  BY <1>2, <1>3, <1>4, Limit DEF PromptsKept
<1>6. Ordered(prompts)
  <2>1. row.id \in 1 .. 1
    BY <1>2 DEF Rows
  <2> QED
    BY <1>2, <2>1 DEF Ordered
<1> QED
  BY <1>2, <1>3, <1>5, <1>6 DEF PromptInv, PromptTypes, DrawingTraced, ImageOfItsPrompt

(* A table with a smaller limit is one with a larger.                       *)
LEMMA RowsGrow ==
  ASSUME NEW n \in Nat
  PROVE  /\ Rows(n) \subseteq Rows(n + 1)
         /\ [id : 1 .. n, prompt : 1 .. n] \subseteq [id : 1 .. n + 1, prompt : 1 .. n + 1]
<1>1. 1 .. n \subseteq 1 .. n + 1 /\ 0 .. n \subseteq 0 .. n + 1
  OBVIOUS
<1> QED
  BY <1>1 DEF Rows

LEMMA RestartPrompts == PromptInv /\ Restart => PromptInv'
<1> SUFFICES ASSUME PromptInv, Restart PROVE PromptInv'
  OBVIOUS
<1>1. PICK row, n, old, top : row = Row(1, n + 1) /\ n = stored /\ old = prompts /\ top = Newest(old)
  OBVIOUS
<1>2. /\ prompts' = {row} /\ stored' = n + 1 /\ drawing' = drawing /\ untrimmed' = 0
      /\ withdrawn' = withdrawn \cup Prompts(old) /\ reissued' = reissued \cup 1 .. top
  BY <1>1 DEF Restart, Fresh
<1>3. n \in Nat /\ old \in SUBSET Rows(n) /\ drawing \in SUBSET [id : 1 .. n, prompt : 1 .. n]
  BY <1>1 DEF PromptInv, PromptTypes
<1>4. row \in Rows(n + 1) /\ row.id = 1 /\ row.prompt = n + 1 /\ row.image = 0
  BY <1>1, <1>3 DEF Row, Rows
<1>5. IsFiniteSet({row}) /\ Cardinality({row}) = 1
  BY FS_Singleton
<1>6. PromptTypes'
  BY <1>2, <1>3, <1>4, <1>5, RowsGrow DEF PromptTypes
<1>7. Ordered(prompts')
  BY <1>2, <1>4 DEF Ordered
<1>8. DrawingTraced'
  <2> SUFFICES ASSUME NEW d \in drawing PROVE d.id \in reissued'
    BY <1>2 DEF DrawingTraced, Traced
  <2>1. d.id \in 1 .. n /\ Traced(old, d, reissued)
    BY <1>1, <1>3 DEF PromptInv, DrawingTraced
  <2>2. top \in 0 .. n
    BY <1>1, <1>3, NewestIs
  <2> QED
    BY <1>1, <1>2, <1>3, <2>1, <2>2 DEF Traced
<1>9. PromptsKept'
  <2>1. Prompts(prompts') = {n + 1}
    BY <1>2, <1>4 DEF Prompts
  <2>2. ASSUME NEW m \in 1 .. n + 1, m \notin {n + 1} \cup withdrawn \cup Prompts(old)
        PROVE  (n + 1) - m >= Keep
    <3>1. m \in 1 .. n /\ n - m >= Keep
      BY <1>1, <1>3, <2>2 DEF PromptInv, PromptsKept
    <3> QED
      BY <1>3, <3>1, Limit
  <2> QED
    <3>1. 1 <= Keep + 0
      BY Limit
    <3> QED
      BY <1>2, <1>5, <2>1, <2>2, <3>1 DEF PromptsKept
<1>10. ImageOfItsPrompt'
  BY <1>2, <1>4 DEF ImageOfItsPrompt
<1> QED
  BY <1>6, <1>7, <1>8, <1>9, <1>10 DEF PromptInv

LEMMA DeletePrompts ==
  ASSUME PromptInv, NEW p \in Posts, DeletePrompt(p)
  PROVE  PromptInv'
<1>1. PICK n, old, gone, new, top, low :
          /\ n = stored /\ old = prompts /\ gone = {r \in prompts : r.id = post[p].id}
          /\ new = old \ gone /\ top = Newest(old) /\ low = Newest(new)
  OBVIOUS
<1>2. /\ prompts' = new /\ stored' = n /\ drawing' = drawing /\ untrimmed' = untrimmed
      /\ withdrawn' = withdrawn \cup Prompts(gone) /\ reissued' = reissued \cup low + 1 .. top
  BY <1>1 DEF DeletePrompt
<1>3. /\ n \in Nat /\ old \in SUBSET Rows(n) /\ drawing \in SUBSET [id : 1 .. n, prompt : 1 .. n]
      /\ untrimmed \in Nat /\ IsFiniteSet(old) /\ new \subseteq old /\ Ordered(old)
  BY <1>1 DEF PromptInv, PromptTypes
<1>4. /\ IsFiniteSet(new) /\ Cardinality(new) \in Nat /\ Cardinality(old) \in Nat
      /\ Cardinality(new) <= Cardinality(old)
  BY <1>3, FS_Subset, FS_CardinalityType
<1>5. top \in 0 .. n /\ low \in 0 .. n
  BY <1>1, <1>3, NewestIs
<1>6. PromptTypes' /\ Ordered(prompts')
  BY <1>2, <1>3, <1>4 DEF PromptTypes, Ordered
<1>7. DrawingTraced'
  <2> SUFFICES ASSUME NEW d \in drawing, d.id \notin reissued'
               PROVE  d.id <= low /\ \A r \in new : r.id = d.id => r.prompt = d.prompt
    BY <1>1, <1>2 DEF DrawingTraced, Traced
  <2>1. d.id \in 1 .. n /\ Traced(old, d, reissued)
    BY <1>1, <1>3 DEF PromptInv, DrawingTraced
  <2>2. d.id <= top /\ \A r \in old : r.id = d.id => r.prompt = d.prompt
    BY <1>1, <1>2, <2>1 DEF Traced
  <2> QED
    BY <1>2, <1>3, <1>5, <2>1, <2>2
<1>8. PromptsKept'
  <2>1. Cardinality(new) <= Keep + untrimmed
    BY <1>1, <1>3, <1>4, Limit DEF PromptInv, PromptsKept
  <2>2. ASSUME NEW m \in 1 .. n, m \notin Prompts(new) \cup withdrawn \cup Prompts(gone)
        PROVE  n - m >= Keep
    <3>1. m \notin Prompts(old)
      BY <1>1, <2>2 DEF Prompts
    <3> QED
      BY <1>1, <2>2, <3>1 DEF PromptInv, PromptsKept
  <2> QED
    BY <1>2, <2>1, <2>2 DEF PromptsKept
<1>9. ImageOfItsPrompt'
  BY <1>1, <1>2, <1>3 DEF PromptInv, ImageOfItsPrompt
<1> QED
  BY <1>6, <1>7, <1>8, <1>9 DEF PromptInv

LEMMA InsertPrompts ==
  ASSUME PromptInv, NEW p \in Posts, InsertPrompt(p)
  PROVE  PromptInv'
<1>1. PICK n, old, row, new, top, next :
          /\ n = stored /\ old = prompts /\ top = Newest(old) /\ row = Row(top + 1, n + 1)
          /\ new = old \cup {row} /\ next = Newest(new)
  OBVIOUS
<1>2. /\ prompts' = new /\ stored' = n + 1 /\ drawing' = drawing /\ untrimmed' = untrimmed + 1
      /\ withdrawn' = withdrawn /\ reissued' = reissued
  BY <1>1 DEF InsertPrompt, NextId
<1>3. /\ n \in Nat /\ old \in SUBSET Rows(n) /\ drawing \in SUBSET [id : 1 .. n, prompt : 1 .. n]
      /\ untrimmed \in Nat /\ IsFiniteSet(old) /\ Ordered(old)
  BY <1>1 DEF PromptInv, PromptTypes
<1>4. top \in 0 .. n /\ \A r \in old : r.id <= top
  BY <1>1, <1>3, NewestIs
<1>5. row \in Rows(n + 1) /\ row.id = top + 1 /\ row.prompt = n + 1 /\ row.image = 0
  BY <1>1, <1>3, <1>4 DEF Row, Rows
<1>6. new \in SUBSET Rows(n + 1) /\ old \in SUBSET Rows(n + 1)
  BY <1>1, <1>3, <1>5, RowsGrow
<1>7. \A r \in old : r.id \in 1 .. n /\ r.prompt \in 1 .. n
  BY <1>3 DEF Rows
<1>8. /\ IsFiniteSet(new) /\ Cardinality(old) \in Nat /\ Cardinality(new) <= Cardinality(old) + 1
  <2>1. Cardinality(old) \in Nat
    BY <1>3, FS_CardinalityType
  <2>2. IsFiniteSet(new) /\ Cardinality(new) = IF row \in old THEN Cardinality(old) ELSE Cardinality(old) + 1
    BY <1>1, <1>3, FS_AddElement
  <2> QED
    BY <2>1, <2>2
<1>9. PromptTypes'
  BY <1>2, <1>3, <1>6, <1>8, RowsGrow DEF PromptTypes
<1>10. Ordered(prompts')
  <2> SUFFICES ASSUME NEW r \in new, NEW s \in new
               PROVE  (r.id = s.id => r = s) /\ (r.id < s.id => r.prompt < s.prompt)
    BY <1>2 DEF Ordered
  <2>1. r \in old \/ r = row
    BY <1>1
  <2>2. s \in old \/ s = row
    BY <1>1
  <2>3. CASE r \in old /\ s \in old
    BY <1>3, <2>3 DEF Ordered
  <2>4. CASE r \in old /\ s = row
    BY <1>3, <1>4, <1>5, <1>7, <2>4
  <2>5. CASE r = row /\ s \in old
    BY <1>3, <1>4, <1>5, <1>7, <2>5
  <2>6. CASE r = row /\ s = row
    BY <1>4, <1>5, <2>6
  <2> QED
    BY <2>1, <2>2, <2>3, <2>4, <2>5, <2>6
<1>11. DrawingTraced'
  <2> SUFFICES ASSUME NEW d \in drawing, d.id \notin reissued
               PROVE  d.id <= next /\ \A r \in new : r.id = d.id => r.prompt = d.prompt
    BY <1>1, <1>2 DEF DrawingTraced, Traced
  <2>1. d.id \in 1 .. n
    BY <1>3
  <2>2. d.id <= top /\ \A r \in old : r.id = d.id => r.prompt = d.prompt
    BY <1>1 DEF PromptInv, DrawingTraced, Traced
  <2>3. next \in 0 .. n + 1 /\ row.id <= next
    BY <1>1, <1>3, <1>6, NewestIs
  <2>4. d.id <= next /\ d.id # row.id
    BY <1>4, <1>5, <2>1, <2>2, <2>3
  <2> QED
    BY <1>1, <2>2, <2>4
<1>12. PromptsKept'
  <2>1. Cardinality(new) <= Keep + (untrimmed + 1)
    <3>1. Cardinality(old) <= Keep + untrimmed /\ Cardinality(new) \in Nat
      BY <1>1, <1>8, FS_CardinalityType DEF PromptInv, PromptsKept
    <3> QED
      BY <1>3, <1>8, <3>1, Limit
  <2>2. ASSUME NEW m \in 1 .. n + 1, m \notin Prompts(new) \cup withdrawn
        PROVE  (n + 1) - m >= Keep
    <3>1. m \notin Prompts(old) /\ m # n + 1
      BY <1>1, <1>5, <2>2 DEF Prompts
    <3>2. m \in 1 .. n /\ n - m >= Keep
      BY <1>1, <1>3, <2>2, <3>1 DEF PromptInv, PromptsKept
    <3> QED
      BY <1>3, <3>2, Limit
  <2> QED
    BY <1>2, <2>1, <2>2 DEF PromptsKept
<1>13. ImageOfItsPrompt'
  BY <1>1, <1>2, <1>5 DEF PromptInv, ImageOfItsPrompt
<1> QED
  BY <1>9, <1>10, <1>11, <1>12, <1>13 DEF PromptInv

LEMMA TrimKeeps ==
  ASSUME PromptInv, NEW p \in Posts, TrimPrompts(p)
  PROVE  PromptInv'
<1>1. PICK n, old, new : n = stored /\ old = prompts /\ new = Kept(old)
  OBVIOUS
<1>2. /\ prompts' = new /\ stored' = n /\ drawing' = drawing /\ untrimmed' = 0
      /\ withdrawn' = withdrawn /\ reissued' = reissued
  BY <1>1 DEF TrimPrompts
<1>3. /\ n \in Nat /\ old \in SUBSET Rows(n) /\ drawing \in SUBSET [id : 1 .. n, prompt : 1 .. n]
      /\ IsFiniteSet(old) /\ Ordered(old)
  BY <1>1 DEF PromptInv, PromptTypes
<1>4. new \subseteq old /\ IsFiniteSet(new) /\ Cardinality(new) <= Keep
  BY <1>1, <1>3, KeptFew
<1>5. Newest(new) = Newest(old)
  BY <1>1, <1>3, KeptNewest
<1>6. PromptTypes' /\ Ordered(prompts')
  BY <1>2, <1>3, <1>4 DEF PromptTypes, Ordered
<1>7. DrawingTraced'
  BY <1>1, <1>2, <1>4, <1>5 DEF PromptInv, DrawingTraced, Traced
<1>8. PromptsKept'
  <2>1. ASSUME NEW m \in 1 .. n, m \notin Prompts(new) \cup withdrawn PROVE n - m >= Keep
    <3>1. CASE m \in Prompts(old)
      <4>1. PICK r \in old : m = r.prompt /\ r \notin new
        BY <2>1, <3>1 DEF Prompts
      <4> QED
        BY <1>1, <1>3, <4>1, TrimmedOld
    <3>2. CASE m \notin Prompts(old)
      BY <1>1, <2>1, <3>2 DEF PromptInv, PromptsKept
    <3> QED
      BY <3>1, <3>2
  <2>2. Cardinality(new) <= Keep + 0
    BY <1>4, FS_CardinalityType, Limit
  <2> QED
    BY <1>2, <2>1, <2>2 DEF PromptsKept
<1>9. ImageOfItsPrompt'
  BY <1>1, <1>2, <1>4 DEF PromptInv, ImageOfItsPrompt
<1> QED
  BY <1>6, <1>7, <1>8, <1>9 DEF PromptInv
(* Updating the rows of what is drawn keeps all but the last conjunct.      *)
LEMMA UpdateKeeps ==
  ASSUME PromptInv, NEW change, change \in [prompts -> Rows(stored)],
         \A r \in prompts : change[r].id = r.id /\ change[r].prompt = r.prompt,
         prompts' = {change[r] : r \in prompts}, drawing' \subseteq drawing, UNCHANGED historyVars,
         ImageOfItsPrompt'
  PROVE  PromptInv'
<1>1. PICK n, old, new : n = stored /\ old = prompts /\ new = prompts'
  OBVIOUS
<1>2. /\ stored' = n /\ untrimmed' = untrimmed /\ withdrawn' = withdrawn /\ reissued' = reissued
      /\ new = {change[r] : r \in old}
  BY <1>1 DEF historyVars
<1>3. /\ n \in Nat /\ old \in SUBSET Rows(n) /\ drawing \in SUBSET [id : 1 .. n, prompt : 1 .. n]
      /\ untrimmed \in Nat /\ IsFiniteSet(old) /\ Ordered(old)
      /\ change \in [old -> Rows(n)]
      /\ \A r \in old : change[r].id = r.id /\ change[r].prompt = r.prompt
  BY <1>1 DEF PromptInv, PromptTypes
<1>4. /\ IsFiniteSet(new) /\ Cardinality(new) \in Nat /\ Cardinality(old) \in Nat
      /\ Cardinality(new) <= Cardinality(old)
  <2>1. change \in Surjection(old, new)
    BY <1>2, <1>3 DEF Surjection
  <2>2. IsFiniteSet(new) /\ Cardinality(new) <= Cardinality(old)
    BY <1>3, <2>1, FS_Surjection
  <2> QED
    BY <1>3, <2>2, FS_CardinalityType
<1>5. new \in SUBSET Rows(n) /\ Updated(old, new)
  BY <1>2, <1>3 DEF Updated
<1>6. Newest(new) = Newest(old) /\ Prompts(new) = Prompts(old)
  BY <1>3, <1>5, UpdatedNewest
<1>7. PromptTypes'
  BY <1>1, <1>2, <1>3, <1>4, <1>5 DEF PromptTypes
<1>8. Ordered(new)
  <2> SUFFICES ASSUME NEW q \in new, NEW t \in new
               PROVE  (q.id = t.id => q = t) /\ (q.id < t.id => q.prompt < t.prompt)
    BY DEF Ordered
  <2>1. PICK r \in old, s \in old : q = change[r] /\ t = change[s]
    BY <1>2
  <2>2. q.id = r.id /\ q.prompt = r.prompt /\ t.id = s.id /\ t.prompt = s.prompt
    BY <1>3, <2>1
  <2> QED
    BY <1>3, <2>1, <2>2 DEF Ordered
<1>9. DrawingTraced'
  <2> SUFFICES ASSUME NEW d \in drawing, d.id \notin reissued
               PROVE  d.id <= Newest(new) /\ \A q \in new : q.id = d.id => q.prompt = d.prompt
    BY <1>1, <1>2 DEF DrawingTraced, Traced
  <2>1. d.id <= Newest(old) /\ \A r \in old : r.id = d.id => r.prompt = d.prompt
    BY <1>1 DEF PromptInv, DrawingTraced, Traced
  <2> QED
    BY <1>5, <1>6, <2>1 DEF Updated
<1>10. PromptsKept'
  <2>1. Cardinality(new) <= Keep + untrimmed
    BY <1>1, <1>3, <1>4, Limit DEF PromptInv, PromptsKept
  <2> QED
    BY <1>1, <1>2, <1>6, <2>1 DEF PromptInv, PromptsKept
<1> QED
  BY <1>1, <1>7, <1>8, <1>9, <1>10 DEF PromptInv

LEMMA StatusPrompts == PromptInv /\ PostStatus => PromptInv'
<1> SUFFICES ASSUME PromptInv, PostStatus PROVE PromptInv'
  OBVIOUS
<1>1. PICK d \in drawing, s \in {1, 3} :
          /\ prompts' = {IF r.id = d.id THEN [r EXCEPT !.state = s] ELSE r : r \in prompts}
          /\ drawing' = (IF s = 3 THEN {} ELSE drawing) /\ UNCHANGED historyVars
  BY DEF PostStatus
<1>2. PICK change : change = [r \in prompts |-> IF r.id = d.id THEN [r EXCEPT !.state = s] ELSE r]
  OBVIOUS
<1>3. ASSUME NEW r \in prompts
      PROVE  /\ change[r] \in Rows(stored)
             /\ change[r].id = r.id /\ change[r].prompt = r.prompt /\ change[r].image = r.image
  <2>1. r \in Rows(stored) /\ s \in 0 .. 3
    BY DEF PromptInv, PromptTypes
  <2>2. PICK q : q = [r EXCEPT !.state = s]
    OBVIOUS
  <2>3. q \in Rows(stored) /\ q.id = r.id /\ q.prompt = r.prompt /\ q.image = r.image
    BY <2>1, <2>2 DEF Rows
  <2>4. change[r] = IF r.id = d.id THEN q ELSE r
    BY <1>2, <2>2
  <2> QED
    BY <2>1, <2>3, <2>4
<1>4. prompts' = {change[r] : r \in prompts} /\ change \in [prompts -> Rows(stored)]
  BY <1>1, <1>2, <1>3
<1>5. ImageOfItsPrompt'
  BY <1>1, <1>3, <1>4 DEF PromptInv, ImageOfItsPrompt, historyVars
<1> QED
  BY <1>1, <1>3, <1>4, <1>5, UpdateKeeps

LEMMA UploadPrompts == PromptInv /\ UploadImage => PromptInv'
<1> SUFFICES ASSUME PromptInv, UploadImage PROVE PromptInv'
  OBVIOUS
<1>1. PICK d \in drawing :
          /\ prompts' = {IF r.id = d.id THEN [r EXCEPT !.state = 2, !.image = d.prompt] ELSE r
                          : r \in prompts}
          /\ drawing' = {} /\ UNCHANGED historyVars
  BY DEF UploadImage
<1>2. PICK change : change = [r \in prompts |->
                        IF r.id = d.id THEN [r EXCEPT !.state = 2, !.image = d.prompt] ELSE r]
  OBVIOUS
<1>t. stored \in Nat /\ d.prompt \in 1 .. stored /\ Traced(prompts, d, reissued)
  BY DEF PromptInv, PromptTypes, DrawingTraced
<1>3. ASSUME NEW r \in prompts
      PROVE  /\ change[r] \in Rows(stored)
             /\ change[r].id = r.id /\ change[r].prompt = r.prompt
             /\ change[r].image = IF r.id = d.id THEN d.prompt ELSE r.image
  <2>1. r \in Rows(stored) /\ 2 \in 0 .. 3 /\ d.prompt \in 0 .. stored
    BY <1>t DEF PromptInv, PromptTypes
  <2>2. PICK q : q = [r EXCEPT !.state = 2, !.image = d.prompt]
    OBVIOUS
  <2>3. q \in Rows(stored) /\ q.id = r.id /\ q.prompt = r.prompt /\ q.image = d.prompt
    BY <2>1, <2>2 DEF Rows
  <2>4. change[r] = IF r.id = d.id THEN q ELSE r
    BY <1>2, <2>2
  <2> QED
    BY <2>1, <2>3, <2>4
<1>4. prompts' = {change[r] : r \in prompts} /\ change \in [prompts -> Rows(stored)]
  <2>1. prompts' = {change[r] : r \in prompts}
    BY <1>1, <1>2, Zenon
  <2>2. DOMAIN change = prompts /\ change = [r \in prompts |-> change[r]]
    BY <1>2
  <2> QED
    BY <1>3, <2>1, <2>2
<1>5. ImageOfItsPrompt'
  <2> SUFFICES ASSUME NEW r \in prompts
               PROVE  change[r].image \in {0, change[r].prompt} \/ change[r].id \in reissued
    BY <1>1, <1>4 DEF ImageOfItsPrompt, historyVars
  <2>1. CASE r.id = d.id
    BY <1>3, <1>t, <2>1 DEF Traced
  <2>2. CASE r.id # d.id
    BY <1>3, <2>2 DEF PromptInv, ImageOfItsPrompt
  <2> QED
    BY <2>1, <2>2
<1>6. drawing' \subseteq drawing
  BY <1>1
<1> QED
  BY <1>1, <1>3, <1>4, <1>5, <1>6, UpdateKeeps

LEMMA FetchPrompts == PromptInv /\ FetchTask => PromptInv'
<1> SUFFICES ASSUME PromptInv, FetchTask PROVE PromptInv'
  OBVIOUS
<1>1. PICK r \in prompts : drawing' = {[id |-> r.id, prompt |-> r.prompt]}
  BY DEF FetchTask
<1>2. UNCHANGED <<prompts, stored, withdrawn, reissued, untrimmed>>
  BY DEF FetchTask, historyVars
<1>3. PICK d : d = [id |-> r.id, prompt |-> r.prompt]
  OBVIOUS
<1>4. d.id = r.id /\ d.prompt = r.prompt /\ drawing' = {d}
  BY <1>1, <1>3
<1>5. stored \in Nat /\ prompts \in SUBSET Rows(stored) /\ Ordered(prompts)
  BY DEF PromptInv, PromptTypes
<1>6. d \in [id : 1 .. stored, prompt : 1 .. stored]
  BY <1>3, <1>5 DEF Rows
<1>7. PICK rows, n, top : rows = prompts /\ n = stored /\ top = Newest(rows)
  OBVIOUS
<1>8. r.id <= top
  BY <1>5, <1>7, NewestIs
<1>9. Traced(rows, d, reissued)
  BY <1>4, <1>5, <1>7, <1>8 DEF Traced, Ordered
<1>10. PromptTypes' /\ DrawingTraced'
  BY <1>2, <1>4, <1>6, <1>7, <1>9 DEF PromptInv, PromptTypes, DrawingTraced
<1>11. PromptsKept' /\ ImageOfItsPrompt'
  BY <1>2 DEF PromptInv, PromptsKept, ImageOfItsPrompt
<1> QED
  BY <1>2, <1>5, <1>10, <1>11 DEF PromptInv

LEMMA OtherPrompts ==
  ASSUME PromptInv, UNCHANGED <<prompts, drawing, historyVars>>
  PROVE  PromptInv'
BY DEF PromptInv, PromptTypes, DrawingTraced, PromptsKept, ImageOfItsPrompt, historyVars

(* The invariant of the table of prompts holds in every state.              *)
THEOREM PromptInvariance == PromptSpec => []PromptInv
<1>1. PromptInv /\ [PromptNext]_promptVars => PromptInv'
  <2> SUFFICES ASSUME PromptInv, [PromptNext]_promptVars PROVE PromptInv'
    OBVIOUS
  <2>1. ASSUME NEW p \in Posts, PostTask(p) \/ PostFails(p) PROVE PromptInv'
    BY <2>1, OtherPrompts DEF PostTask, PostFails
  <2>2. ASSUME NEW p \in Posts, DeletePrompt(p) PROVE PromptInv'
    BY <2>2, DeletePrompts
  <2>3. ASSUME NEW p \in Posts, InsertPrompt(p) PROVE PromptInv'
    BY <2>3, InsertPrompts
  <2>4. ASSUME NEW p \in Posts, TrimPrompts(p) PROVE PromptInv'
    BY <2>4, TrimKeeps
  <2>5. CASE FetchTask \/ PostStatus \/ UploadImage \/ Restart
    BY <2>5, FetchPrompts, StatusPrompts, UploadPrompts, RestartPrompts
  <2>6. CASE UNCHANGED promptVars
    BY <2>6, OtherPrompts DEF promptVars
  <2> QED
    BY <2>1, <2>2, <2>3, <2>4, <2>5, <2>6 DEF PromptNext
<1> QED
  BY PromptStart, <1>1, PTL DEF PromptSpec

(* However many requests add and trim at once, the table exceeds its limit  *)
(* by no more than was added since the last trimming, and trimming takes    *)
(* only prompts after which Keep others were stored.                        *)
THEOREM TrimmingIsExact == PromptSpec => []PromptsKept
BY PromptInvariance, PTL DEF PromptInv

(* An image is that of the prompt of its row, unless a deletion or a        *)
(* restart had freed the row's id.                                          *)
THEOREM ImagesMatch == PromptSpec => []ImageOfItsPrompt
BY PromptInvariance, PTL DEF PromptInv

-----------------------------------------------------------------------------
(* The text to sign in with.  No two lines of a text are of the same kind.  *)
KindsOnce(s) == \A i, j \in DOMAIN s : s[i].kind = s[j].kind => i = j

LEMMA KindNames ==
  /\ Required[1] = "URI" /\ Required[2] = "Version" /\ Required[3] = "Chain ID"
  /\ Required[4] = "Nonce" /\ Required[5] = "Issued At" /\ DOMAIN Required = 1 .. 5
  /\ Optional[1] = "Expiration Time" /\ Optional[2] = "Not Before" /\ Optional[3] = "Request ID"
  /\ DOMAIN Optional = 1 .. 3
  /\ \A i, j \in 1 .. 3 : Optional[i] = Optional[j] => i = j
  /\ \A i \in 1 .. 5 : Required[i] \in Kinds /\ Required[i] \notin {"Address", "Blank"}
  /\ \A i \in 1 .. 3 : Optional[i] \in Kinds /\ Optional[i] \notin {"Address", "Blank"}
  /\ {"Header", "Address", "Text", "Blank"} \subseteq Kinds
<1>1. /\ Required[1] = "URI" /\ Required[2] = "Version" /\ Required[3] = "Chain ID"
      /\ Required[4] = "Nonce" /\ Required[5] = "Issued At" /\ DOMAIN Required = 1 .. 5
  BY DEF Required
<1>2. /\ Optional[1] = "Expiration Time" /\ Optional[2] = "Not Before" /\ Optional[3] = "Request ID"
      /\ DOMAIN Optional = 1 .. 3
  BY DEF Optional
<1>3. \A i \in 1 .. 3 : i = 1 \/ i = 2 \/ i = 3
  OBVIOUS
<1>4. \A i \in 1 .. 5 : i = 1 \/ i = 2 \/ i = 3 \/ i = 4 \/ i = 5
  OBVIOUS
<1>5. \A i, j \in 1 .. 3 : Optional[i] = Optional[j] => i = j
  BY <1>2, <1>3
<1>6. \A i \in 1 .. 5 : Required[i] \in Kinds /\ Required[i] \notin {"Address", "Blank"}
  <2>1. \A i \in 1 .. 5 : Required[i] \notin {"Address", "Blank"}
    BY <1>1, <1>4
  <2> QED
    BY <1>1, <2>1 DEF Kinds, ToSet
<1>7. \A i \in 1 .. 3 : Optional[i] \in Kinds /\ Optional[i] \notin {"Address", "Blank"}
  <2>1. \A i \in 1 .. 3 : Optional[i] \notin {"Address", "Blank"}
    BY <1>2, <1>3
  <2> QED
    BY <1>2, <2>1 DEF Kinds, ToSet
<1> QED
  BY <1>1, <1>2, <1>5, <1>6, <1>7 DEF Kinds

(* Lines of required and optional fields.                                   *)
LEMMA FieldLines ==
  /\ \A i \in 1 .. 5 : \A v \in Nat : Line(Required[i], v) \in Lines
  /\ \A i \in 1 .. 3 : \A v \in Nat : Line(Optional[i], v) \in Lines
  /\ \A v \in Nat : Line("Header", v) \in Lines /\ Line("Text", v) \in Lines
  /\ \A a \in Addresses : Line("Address", a) \in Lines
  /\ Blank \in Lines
BY KindNames, SiweAssumption DEF Lines, Line, Blank

LEMMA LineParts ==
  ASSUME NEW l \in Lines
  PROVE  /\ l = Line(l.kind, l.value)
         /\ l.kind \in Kinds /\ l.value \in Nat
         /\ l.kind = "Blank" => l = Blank
         /\ l.kind = "Address" => l.value \in Addresses
<1>1. /\ l \in [kind : Kinds, value : Nat]
      /\ l.kind = "Blank" => l = Blank
      /\ l.kind = "Address" => l.value \in Addresses
  <2>1. l \in [kind : Kinds, value : Nat]
    BY DEF Lines
  <2>2. ASSUME l.kind = "Address" PROVE l.value \in Addresses
    BY <2>2 DEF Lines
  <2>3. l.kind = "Blank" => l = Blank
    BY DEF Lines
  <2> QED
    BY <2>1, <2>2, <2>3
<1>2. l = [kind |-> l.kind, value |-> l.value]
  BY <1>1
<1> QED
  BY <1>1, <1>2 DEF Line

(* The lines of two texts together.                                         *)
LEMMA JoinedLines ==
  ASSUME NEW s \in Seq(Lines), NEW t \in Seq(Lines)
  PROVE  /\ ToSet(s \o t) = ToSet(s) \cup ToSet(t)
         /\ KindsOnce(s) /\ KindsOnce(t)
            /\ (\A k \in ToSet(s) : \A l \in ToSet(t) : k.kind # l.kind)
            => KindsOnce(s \o t)
<1> DEFINE r == s \o t
<1>1. /\ Len(s) \in Nat /\ Len(t) \in Nat /\ DOMAIN s = 1 .. Len(s) /\ DOMAIN t = 1 .. Len(t)
      /\ Len(r) = Len(s) + Len(t) /\ DOMAIN r = 1 .. Len(s) + Len(t)
  BY ConcatProperties, LenProperties
<1>2. \A i \in 1 .. Len(s) + Len(t) : r[i] = IF i <= Len(s) THEN s[i] ELSE t[i - Len(s)]
  BY ConcatProperties
<1> HIDE DEF r
<1>3. \A i \in DOMAIN s : i \in DOMAIN r /\ r[i] = s[i]
  BY <1>1, <1>2
<1>4. \A i \in DOMAIN t : Len(s) + i \in DOMAIN r /\ r[Len(s) + i] = t[i]
  <2> TAKE i \in DOMAIN t
  <2>1. Len(s) + i \in 1 .. Len(s) + Len(t) /\ ~(Len(s) + i <= Len(s)) /\ Len(s) + i - Len(s) = i
    BY <1>1
  <2> QED
    BY <1>1, <1>2, <2>1
<1>5. \A i \in DOMAIN r : (i \in DOMAIN s /\ r[i] = s[i])
                          \/ (i - Len(s) \in DOMAIN t /\ r[i] = t[i - Len(s)] /\ i = Len(s) + (i - Len(s)))
  BY <1>1, <1>2
<1>6. ToSet(r) = ToSet(s) \cup ToSet(t)
  BY <1>3, <1>4, <1>5 DEF ToSet
<1>7. ASSUME KindsOnce(s), KindsOnce(t), \A k \in ToSet(s) : \A l \in ToSet(t) : k.kind # l.kind
      PROVE  KindsOnce(r)
  <2> SUFFICES ASSUME NEW i \in DOMAIN r, NEW j \in DOMAIN r, r[i].kind = r[j].kind PROVE i = j
    BY DEF KindsOnce
  <2>1. \A a \in DOMAIN s : s[a] \in ToSet(s)
    BY DEF ToSet
  <2>2. \A a \in DOMAIN t : t[a] \in ToSet(t)
    BY DEF ToSet
  <2>3. CASE i \in DOMAIN s /\ r[i] = s[i]
    <3>1. j \in DOMAIN s /\ r[j] = s[j]
      BY <1>5, <1>7, <2>1, <2>2, <2>3
    <3> QED
      BY <1>7, <2>3, <3>1 DEF KindsOnce
  <2>4. CASE i - Len(s) \in DOMAIN t /\ r[i] = t[i - Len(s)] /\ i = Len(s) + (i - Len(s))
    <3>1. j - Len(s) \in DOMAIN t /\ r[j] = t[j - Len(s)] /\ j = Len(s) + (j - Len(s))
      BY <1>5, <1>7, <2>1, <2>2, <2>4
    <3>2. i - Len(s) = j - Len(s)
      BY <1>7, <2>4, <3>1 DEF KindsOnce
    <3> QED
      BY <1>1, <2>4, <3>1, <3>2
  <2> QED
    BY <1>5, <2>3, <2>4
<1> QED
  BY <1>6, <1>7 DEF r

(* The optional fields of a message: sets of at most one number.            *)
OptionalTypes(m) ==
    \A i \in 1 .. 3 : m.optional[i] \subseteq Nat /\ \A v, w \in m.optional[i] : v = w

LEMMA OneOptional ==
  ASSUME NEW m, OptionalTypes(m), NEW i \in 1 .. 3
  PROVE  /\ OptionalLine(m, i) \in Seq(Lines)
         /\ KindsOnce(OptionalLine(m, i))
         /\ ToSet(OptionalLine(m, i)) = {Line(Optional[i], v) : v \in m.optional[i]}
<1>1. CASE m.optional[i] = {}
  <2>1. OptionalLine(m, i) = <<>>
    BY <1>1 DEF OptionalLine
  <2> QED
    BY <1>1, <2>1 DEF KindsOnce, ToSet
<1>2. CASE m.optional[i] # {}
  <2> DEFINE v == CHOOSE w \in m.optional[i] : TRUE
  <2>1. v \in m.optional[i] /\ v \in Nat /\ m.optional[i] = {v}
    BY <1>2 DEF OptionalTypes
  <2>2. OptionalLine(m, i) = <<Line(Optional[i], v)>>
    BY <1>2 DEF OptionalLine
  <2> HIDE DEF v
  <2>3. Line(Optional[i], v) \in Lines
    BY <2>1, FieldLines
  <2>4. ToSet(<<Line(Optional[i], v)>>) = {Line(Optional[i], v)}
    BY DEF ToSet
  <2>5. {Line(Optional[i], w) : w \in m.optional[i]} = {Line(Optional[i], v)}
    BY <2>1
  <2> QED
    BY <2>2, <2>3, <2>4, <2>5 DEF KindsOnce
<1> QED
  BY <1>1, <1>2

LEMMA AllOptional ==
  ASSUME NEW m, OptionalTypes(m)
  PROVE  /\ OptionalLines(m) \in Seq(Lines)
         /\ KindsOnce(OptionalLines(m))
         /\ ToSet(OptionalLines(m)) = UNION {{Line(Optional[i], v) : v \in m.optional[i]} : i \in 1 .. 3}
<1> DEFINE o1 == OptionalLine(m, 1)
           o2 == OptionalLine(m, 2)
           o3 == OptionalLine(m, 3)
           e1 == {Line(Optional[1], v) : v \in m.optional[1]}
           e2 == {Line(Optional[2], v) : v \in m.optional[2]}
           e3 == {Line(Optional[3], v) : v \in m.optional[3]}
<1>1. /\ o1 \in Seq(Lines) /\ KindsOnce(o1) /\ ToSet(o1) = e1
      /\ o2 \in Seq(Lines) /\ KindsOnce(o2) /\ ToSet(o2) = e2
      /\ o3 \in Seq(Lines) /\ KindsOnce(o3) /\ ToSet(o3) = e3
  BY OneOptional
<1>2. /\ \A l \in e1 : l.kind = "Expiration Time"
      /\ \A l \in e2 : l.kind = "Not Before"
      /\ \A l \in e3 : l.kind = "Request ID"
  <2>1. \A k, v : Line(k, v).kind = k
    BY DEF Line
  <2>2. Optional[1] = "Expiration Time" /\ Optional[2] = "Not Before" /\ Optional[3] = "Request ID"
    BY KindNames
  <2> QED
    BY <2>1, <2>2
<1>3. OptionalLines(m) = o1 \o o2 \o o3
  BY DEF OptionalLines
<1>4. UNION {{Line(Optional[i], v) : v \in m.optional[i]} : i \in 1 .. 3} = e1 \cup e2 \cup e3
  <2>1. \A i \in 1 .. 3 : i = 1 \/ i = 2 \/ i = 3
    OBVIOUS
  <2>2. 1 \in 1 .. 3 /\ 2 \in 1 .. 3 /\ 3 \in 1 .. 3
    OBVIOUS
  <2> QED
    BY <2>1, <2>2
<1> HIDE DEF o1, o2, o3, e1, e2, e3
<1>5. \A k \in e1 : \A l \in e2 : k.kind # l.kind
  BY <1>2
<1>6. o1 \o o2 \in Seq(Lines)
  BY <1>1, ConcatProperties
<1>7. ToSet(o1 \o o2) = e1 \cup e2 /\ KindsOnce(o1 \o o2)
  BY <1>1, <1>5, JoinedLines
<1>8. \A k \in e1 \cup e2 : \A l \in e3 : k.kind # l.kind
  BY <1>2
<1>9. o1 \o o2 \o o3 \in Seq(Lines)
  BY <1>1, <1>6, ConcatProperties
<1>10. ToSet(o1 \o o2 \o o3) = e1 \cup e2 \cup e3 /\ KindsOnce(o1 \o o2 \o o3)
  BY <1>1, <1>6, <1>7, <1>8, JoinedLines
<1> QED
  BY <1>3, <1>4, <1>9, <1>10

(* Where the required fields begin, if the text may be one.                 *)
LEMMA UriFound ==
  ASSUME NEW lines \in Seq(Lines), UriIndex(lines) # 0
  PROVE  /\ UriIndex(lines) \in Nat
         /\ \/ UriIndex(lines) = 4
            \/ /\ UriIndex(lines) >= 5
               /\ IsAt(lines, UriIndex(lines) - 1, "Blank")
               /\ \A i \in 4 .. UriIndex(lines) - 2 :
                      i \in DOMAIN lines /\ lines[i].kind \notin {"Blank", "URI"}
<1> DEFINE stop == {i \in 4 .. Len(lines) : lines[i].kind \in {"Blank", "URI"}}
<1>1. DOMAIN lines = 1 .. Len(lines) /\ Len(lines) \in Nat
  BY LenProperties
<1>2. stop # {} => Min(stop) \in stop /\ \A y \in stop : Min(stop) <= y
  <2>1. stop \in SUBSET Nat
    BY <1>1
  <2> HIDE DEF stop
  <2> QED
    BY <2>1, LeastNumber DEF Min
<1>3. CASE IsAt(lines, 4, "URI")
  <2>1. UriIndex(lines) = 4
    BY <1>3 DEF UriIndex
  <2> QED
    BY <2>1
<1>4. CASE ~IsAt(lines, 4, "URI")
  <2>1. stop # {} /\ IsAt(lines, Min(stop), "Blank") /\ UriIndex(lines) = Min(stop) + 1
    BY <1>4 DEF UriIndex
  <2>2. Min(stop) \in 4 .. Len(lines) /\ \A y \in stop : Min(stop) <= y
    BY <1>2, <2>1
  <2>3. \A i \in 4 .. Min(stop) - 1 : i \in 4 .. Len(lines) /\ i \notin stop
    <3> DEFINE least == Min(stop)
    <3>1. least \in 4 .. Len(lines) /\ \A y \in stop : least <= y
      BY <2>2
    <3> HIDE DEF least, stop
    <3>2. \A i \in 4 .. least - 1 : i \in 4 .. Len(lines) /\ i \notin stop
      BY <1>1, <3>1
    <3> QED
      BY <3>2 DEF least
  <2>4. \A i \in 4 .. Min(stop) - 1 : i \in DOMAIN lines /\ lines[i].kind \notin {"Blank", "URI"}
    BY <1>1, <2>3
  <2> HIDE DEF stop
  <2>5. Min(stop) \in Nat /\ Min(stop) >= 4 /\ UriIndex(lines) - 1 = Min(stop)
        /\ UriIndex(lines) - 2 = Min(stop) - 1
    BY <1>1, <2>1, <2>2
  <2> QED
    BY <2>1, <2>4, <2>5
<1> QED
  BY <1>3, <1>4

(* A text that is read says what was read, and names a wallet.              *)
LEMMA ReadIsSaid ==
  ASSUME NEW lines \in Seq(Lines), NEW m \in Parse(lines)
  PROVE  m.address \in Addresses /\ Says(lines, m)
<1> DEFINE u == UriIndex(lines)
           tail == SubSeq(lines, u + 5, Len(lines))
           read == [domain |-> lines[1].value, address |-> lines[2].value,
                    statement |-> SubSeq(lines, 4, u - 2),
                    required |-> [i \in 1 .. 5 |-> lines[u + i - 1].value],
                    optional |-> [i \in 1 .. 3 |-> OptionalValues(tail, Optional[i])]]
<1>1. /\ Len(lines) >= 7
      /\ IsAt(lines, 1, "Header") /\ IsAt(lines, 2, "Address") /\ IsAt(lines, 3, "Blank")
      /\ u # 0
      /\ \A i \in 1 .. 5 : IsAt(lines, u + i - 1, Required[i])
      /\ TailAllowed(tail)
      /\ m = read
  BY DEF Parse
<1>2. m.domain = lines[1].value /\ m.address = lines[2].value /\ m.statement = SubSeq(lines, 4, u - 2)
      /\ m.required = [i \in 1 .. 5 |-> lines[u + i - 1].value]
      /\ m.optional = [i \in 1 .. 3 |-> OptionalValues(tail, Optional[i])]
  BY <1>1
<1>3. /\ u \in Nat
      /\ \/ u = 4
         \/ /\ u >= 5
            /\ IsAt(lines, u - 1, "Blank")
            /\ \A i \in 4 .. u - 2 : i \in DOMAIN lines /\ lines[i].kind \notin {"Blank", "URI"}
  BY <1>1, UriFound
<1> HIDE DEF u, read
<1>4. DOMAIN lines = 1 .. Len(lines) /\ Len(lines) \in Nat /\ \A i \in DOMAIN lines : lines[i] \in Lines
  BY LenProperties, ElementOfSeq
<1>5. \A l \in Lines : /\ l = Line(l.kind, l.value)
                       /\ l.value \in Nat
                       /\ l.kind = "Blank" => l = Blank
                       /\ l.kind = "Address" => l.value \in Addresses
  BY LineParts
<1>6. u + 4 \in DOMAIN lines /\ u + 4 <= Len(lines) /\ u >= 4
  <2>1. 5 \in 1 .. 5 /\ u + 5 - 1 = u + 4
    BY <1>3
  <2> QED
    BY <1>1, <1>3, <1>4, <2>1 DEF IsAt
<1>7. m.address \in Addresses
  BY <1>1, <1>2, <1>4, <1>5 DEF IsAt
<1> DEFINE s == SubSeq(lines, 4, u - 1)
<1>8. s \in IF m.statement = <<>> THEN {<<>>, <<Blank>>} ELSE {Append(m.statement, Blank)}
  <2>1. CASE u = 4
    <3>1. SubSeq(lines, 4, u - 1) = <<>> /\ SubSeq(lines, 4, u - 2) = <<>>
      BY <2>1, SubSeqEmpty
    <3> QED
      BY <1>2, <3>1
  <2>2. CASE u >= 5
    <3>1. IsAt(lines, u - 1, "Blank")
      BY <1>3, <2>2
    <3>2. lines[u - 1] = Blank
      BY <1>4, <1>5, <3>1 DEF IsAt
    <3>3. 4 \in 1 .. Len(lines) /\ u - 1 \in 4 .. Len(lines) /\ u - 1 - 1 = u - 2
      BY <1>3, <1>4, <1>6, <2>2
    <3>4. SubSeq(lines, 4, u - 1) = SubSeq(lines, 4, u - 2) \o <<Blank>>
      BY <3>2, <3>3, SubSeqRecursiveSecond
    <3>5. SubSeq(lines, 4, u - 2) \in Seq(Lines)
      <4>1. \A i \in 4 .. u - 2 : lines[i] \in Lines
        BY <1>3, <1>4, <1>6, <2>2
      <4>2. 4 \in Int /\ u - 2 \in Int
        BY <1>3
      <4> QED
        BY <4>1, <4>2, SubSeqProperties
    <3>6. Blank \in Lines /\ <<Blank>> \in Seq(Lines)
      BY FieldLines
    <3>7. Append(SubSeq(lines, 4, u - 2), Blank) = SubSeq(lines, 4, u - 2) \o <<Blank>>
      BY <3>5, <3>6, AppendIsConcat
    <3>8. s = Append(m.statement, Blank)
      BY <1>2, <3>4, <3>7
    <3>9. <<>> \o <<Blank>> = <<Blank>>
      BY <3>6, ConcatEmptySeq
    <3>10. m.statement = <<>> => s = <<Blank>>
      BY <1>2, <3>4, <3>9
    <3> QED
      BY <3>8, <3>10
  <2> QED
    BY <1>3, <2>1, <2>2
<1>9. SubSeq(lines, 1, 3) = Heading(m)
  <2>1. SubSeq(lines, 1, 3) = <<lines[1], lines[2], lines[3]>>
    <3>1. 1 \in DOMAIN lines /\ 2 \in DOMAIN lines /\ 3 \in DOMAIN lines
      BY <1>1 DEF IsAt
    <3>2. SubSeq(lines, 1, 3) \in Seq(Lines) /\ Len(SubSeq(lines, 1, 3)) = 3
          /\ \A i \in 1 .. 3 : SubSeq(lines, 1, 3)[i] = lines[i]
      <4>1. \A i \in 1 .. 3 : lines[i] \in Lines
        BY <1>4, <3>1
      <4>2. 1 \in Int /\ 3 \in Int /\ 1 <= 3 /\ 3 - 1 + 1 = 3 /\ \A i \in 1 .. 3 : 1 + i - 1 = i
        OBVIOUS
      <4> QED
        BY <4>1, <4>2, SubSeqProperties
    <3>3. <<lines[1], lines[2], lines[3]>> \in Seq(Lines)
      BY <1>4, <3>1
    <3>4. \A i \in 1 .. 3 : <<lines[1], lines[2], lines[3]>>[i] = lines[i]
      <4>1. \A i \in 1 .. 3 : i = 1 \/ i = 2 \/ i = 3
        OBVIOUS
      <4> QED
        BY <4>1
    <3>5. Len(<<lines[1], lines[2], lines[3]>>) = 3
      OBVIOUS
    <3> HIDE DEF u
    <3> QED
      BY <3>2, <3>3, <3>4, <3>5, SeqEqual
  <2>2. lines[1] = Line("Header", m.domain) /\ lines[2] = Line("Address", m.address) /\ lines[3] = Blank
    BY <1>1, <1>2, <1>4, <1>5 DEF IsAt
  <2> QED
    BY <2>1, <2>2 DEF Heading
<1>10. SubSeq(lines, u, u + 4) = RequiredLines(m)
  <2>1. \A i \in 1 .. 5 : /\ u + i - 1 \in DOMAIN lines
                          /\ lines[u + i - 1] = Line(Required[i], m.required[i])
    BY <1>1, <1>2, <1>4, <1>5 DEF IsAt
  <2>2. \A i \in u .. u + 4 : lines[i] \in Lines
    BY <1>3, <1>4, <1>6
  <2>3. u \in Int /\ u + 4 \in Int /\ u <= u + 4 /\ u + 4 - u + 1 = 5
    BY <1>3
  <2>4. SubSeq(lines, u, u + 4) \in Seq(Lines) /\ Len(SubSeq(lines, u, u + 4)) = 5
        /\ \A i \in 1 .. 5 : SubSeq(lines, u, u + 4)[i] = lines[u + i - 1]
    BY <2>2, <2>3, SubSeqProperties
  <2>5. SubSeq(lines, u, u + 4) = [i \in 1 .. 5 |-> SubSeq(lines, u, u + 4)[i]]
    BY <2>4, LenProperties
  <2> QED
    BY <2>1, <2>4, <2>5 DEF RequiredLines
<1>11. SubSeq(lines, 1, u + 4) = Heading(m) \o s \o RequiredLines(m)
  <2>1. SubSeq(lines, 1, 3) \o SubSeq(lines, 4, u - 1) = SubSeq(lines, 1, u - 1)
    <3>1. 1 \in 1 .. Len(lines) + 1 /\ 3 \in 1 - 1 .. Len(lines) /\ u - 1 \in 3 .. Len(lines) /\ 3 + 1 = 4
      BY <1>3, <1>4, <1>6
    <3> QED
      BY <3>1, ConcatAdjacentSubSeq
  <2>2. SubSeq(lines, 1, u - 1) \o SubSeq(lines, u, u + 4) = SubSeq(lines, 1, u + 4)
    <3>1. 1 \in 1 .. Len(lines) + 1 /\ u - 1 \in 1 - 1 .. Len(lines)
          /\ u + 4 \in u - 1 .. Len(lines) /\ u - 1 + 1 = u
      BY <1>3, <1>4, <1>6
    <3> QED
      BY <3>1, ConcatAdjacentSubSeq
  <2> QED
    BY <1>9, <1>10, <2>1, <2>2
<1>12. tail \in Seq(Lines)
  <2>1. u + 5 \in Int /\ Len(lines) \in Int /\ \A i \in u + 5 .. Len(lines) : lines[i] \in Lines
    BY <1>3, <1>4
  <2> QED
    BY <2>1, SubSeqProperties
<1> HIDE DEF tail
<1>13. \A i \in DOMAIN tail : tail[i] \in Lines
  BY <1>12, LenProperties, ElementOfSeq
<1>14. OptionalTypes(m)
  <2>1. \A i \in 1 .. 3 : m.optional[i] = OptionalValues(tail, Optional[i])
    BY <1>2
  <2> QED
    <3>1. ASSUME NEW i \in 1 .. 3, NEW v \in m.optional[i], NEW w \in m.optional[i]
          PROVE  v \in Nat /\ v = w
      <4>1. PICK j \in DOMAIN tail : tail[j].kind = Optional[i] /\ v = tail[j].value
        BY <2>1, <3>1 DEF OptionalValues
      <4>2. PICK k \in DOMAIN tail : tail[k].kind = Optional[i] /\ w = tail[k].value
        BY <2>1, <3>1 DEF OptionalValues
      <4>3. j = k
        BY <1>1, <4>1, <4>2 DEF TailAllowed
      <4> QED
        BY <1>5, <1>13, <4>1, <4>2, <4>3
    <3> QED
      BY <3>1 DEF OptionalTypes
<1>15. ToSet(tail) = ToSet(OptionalLines(m))
  <2>1. ToSet(OptionalLines(m)) = UNION {{Line(Optional[i], v) : v \in m.optional[i]} : i \in 1 .. 3}
    BY <1>14, AllOptional
  <2>2. ASSUME NEW l \in ToSet(tail)
        PROVE  \E i \in 1 .. 3 : \E v \in m.optional[i] : l = Line(Optional[i], v)
    <3>1. PICK j \in DOMAIN tail : l = tail[j]
      BY <2>2 DEF ToSet
    <3>2. PICK i \in 1 .. 3 : l.kind = Optional[i]
      BY <1>1, <3>1, KindNames DEF TailAllowed, OnlyKnown, ToSet
    <3>3. l.value \in m.optional[i]
      BY <1>2, <3>1, <3>2 DEF OptionalValues
    <3> QED
      BY <1>5, <1>13, <3>1, <3>2, <3>3
  <2>3. ASSUME NEW i \in 1 .. 3, NEW v \in m.optional[i]
        PROVE  Line(Optional[i], v) \in ToSet(tail)
    <3>1. PICK j \in DOMAIN tail : tail[j].kind = Optional[i] /\ tail[j].value = v
      BY <1>2 DEF OptionalValues
    <3> QED
      BY <1>5, <1>13, <3>1 DEF ToSet
  <2> QED
    BY <2>1, <2>2, <2>3
<1>16. IsInjective(tail)
  BY <1>1 DEF TailAllowed, IsInjective
<1>17. u + 4 \in 0 .. Len(lines) /\ u + 4 + 1 = u + 5
  BY <1>3, <1>4, <1>6
<1> QED
  BY <1>7, <1>8, <1>11, <1>15, <1>16, <1>17 DEF Says, tail

(* The parts of a message's text, and where they are in it.                 *)
Words(m) == IF m.statement = <<>> THEN <<>> ELSE Append(m.statement, Blank)

LEMMA TextParts ==
  ASSUME NEW m, IsMessage(m)
  PROVE  /\ Format(m) \in Seq(Lines)
         /\ Words(m) \in Seq(Lines) /\ OptionalLines(m) \in Seq(Lines)
         /\ Len(Format(m)) = 8 + Len(Words(m)) + Len(OptionalLines(m))
         /\ Format(m)[1] = Line("Header", m.domain)
         /\ Format(m)[2] = Line("Address", m.address)
         /\ Format(m)[3] = Blank
         /\ \A i \in 1 .. Len(Words(m)) : Format(m)[3 + i] = Words(m)[i]
         /\ \A i \in 1 .. 5 : Format(m)[3 + Len(Words(m)) + i] = Line(Required[i], m.required[i])
         /\ \A i \in 1 .. Len(OptionalLines(m)) : Format(m)[8 + Len(Words(m)) + i] = OptionalLines(m)[i]
<1> DEFINE h == Heading(m)
           w == Words(m)
           r == RequiredLines(m)
           o == OptionalLines(m)
<1>1. h \in Seq(Lines) /\ Len(h) = 3
      /\ h[1] = Line("Header", m.domain) /\ h[2] = Line("Address", m.address) /\ h[3] = Blank
  <2>1. Line("Header", m.domain) \in Lines /\ Line("Address", m.address) \in Lines /\ Blank \in Lines
    BY FieldLines DEF IsMessage
  <2> HIDE DEF Lines, Line, Blank
  <2> QED
    BY <2>1 DEF Heading
<1>2. w \in Seq(Lines)
  <2>1. m.statement \in Seq(Lines)
    BY SeqMonotonic DEF IsMessage
  <2>2. Blank \in Lines
    BY FieldLines
  <2> QED
    BY <2>1, <2>2, AppendProperties DEF Words
<1>3. r \in Seq(Lines) /\ Len(r) = 5 /\ \A i \in 1 .. 5 : r[i] = Line(Required[i], m.required[i])
  <2>1. \A i \in 1 .. 5 : Line(Required[i], m.required[i]) \in Lines
    BY FieldLines DEF IsMessage
  <2>2. r \in [1 .. 5 -> Lines]
    BY <2>1 DEF RequiredLines
  <2>3. r \in Seq(Lines)
    <3>1. 5 \in Nat
      OBVIOUS
    <3> HIDE DEF r
    <3> QED
      BY <2>2, <3>1, SeqDef
  <2>4. DOMAIN r = 1 .. 5
    BY DEF RequiredLines
  <2>5. Len(r) \in Nat /\ 1 .. Len(r) = 1 .. 5
    BY <2>3, <2>4, LenProperties
  <2>6. Len(r) = 5
    <3>1. \A k \in Nat : 1 .. k = 1 .. 5 => k = 5
      <4> TAKE k \in Nat
      <4> HAVE 1 .. k = 1 .. 5
      <4>1. 5 \in 1 .. k
        OBVIOUS
      <4>2. k \in 1 .. 5
        BY <4>1
      <4> QED
        BY <4>1, <4>2
    <3> QED
      BY <2>5, <3>1
  <2> QED
    BY <2>3, <2>6 DEF RequiredLines
<1>4. o \in Seq(Lines)
  BY AllOptional DEF IsMessage, OptionalTypes
<1>5. Format(m) = h \o w \o r \o o
  BY DEF Format, Words
<1> HIDE DEF h, w, r, o
<1>6. Len(w) \in Nat /\ Len(o) \in Nat
  BY <1>2, <1>4, LenProperties
<1> DEFINE hw == h \o w
           hwr == hw \o r
           f == hwr \o o
<1>7. /\ hw \in Seq(Lines) /\ Len(hw) = Len(h) + Len(w)
      /\ \A i \in 1 .. Len(h) + Len(w) : hw[i] = IF i <= Len(h) THEN h[i] ELSE w[i - Len(h)]
  BY <1>1, <1>2, ConcatProperties
<1> HIDE DEF hw
<1>8. /\ hwr \in Seq(Lines) /\ Len(hwr) = Len(hw) + Len(r)
      /\ \A i \in 1 .. Len(hw) + Len(r) : hwr[i] = IF i <= Len(hw) THEN hw[i] ELSE r[i - Len(hw)]
  <2>1. hw \in Seq(Lines) /\ r \in Seq(Lines)
    BY <1>3, <1>7
  <2> QED
    BY <2>1, ConcatProperties
<1> HIDE DEF hwr
<1>9. /\ f \in Seq(Lines) /\ Len(f) = Len(hwr) + Len(o)
      /\ \A i \in 1 .. Len(hwr) + Len(o) : f[i] = IF i <= Len(hwr) THEN hwr[i] ELSE o[i - Len(hwr)]
  <2>1. hwr \in Seq(Lines) /\ o \in Seq(Lines)
    BY <1>4, <1>8
  <2> QED
    BY <2>1, ConcatProperties
<1>15. Format(m) = f
  BY <1>5 DEF hw, hwr
<1> HIDE DEF f
<1>16. Len(hw) = 3 + Len(w) /\ Len(hwr) = 8 + Len(w) /\ Len(f) = 8 + Len(w) + Len(o)
  BY <1>1, <1>3, <1>6, <1>7, <1>8, <1>9
<1>10. \A i \in 1 .. 3 + Len(w) : f[i] = hw[i]
  <2> TAKE i \in 1 .. 3 + Len(w)
  <2>1. i \in 1 .. Len(hwr) + Len(o) /\ i <= Len(hwr) /\ i \in 1 .. Len(hw) + Len(r) /\ i <= Len(hw)
    BY <1>3, <1>6, <1>16
  <2> QED
    BY <1>8, <1>9, <2>1
<1>11. f[1] = h[1] /\ f[2] = h[2] /\ f[3] = h[3]
  <2>1. \A i \in 1 .. 3 : i \in 1 .. 3 + Len(w) /\ i \in 1 .. Len(h) + Len(w) /\ i <= Len(h)
    BY <1>1, <1>6
  <2>2. \A i \in 1 .. 3 : f[i] = h[i]
    BY <1>7, <1>10, <2>1
  <2> QED
    BY <2>2
<1>12. \A i \in 1 .. Len(w) : f[3 + i] = w[i]
  <2> TAKE i \in 1 .. Len(w)
  <2>1. 3 + i \in 1 .. 3 + Len(w) /\ 3 + i \in 1 .. Len(h) + Len(w)
        /\ ~(3 + i <= Len(h)) /\ 3 + i - Len(h) = i
    BY <1>1, <1>6
  <2> QED
    BY <1>7, <1>10, <2>1
<1>13. \A i \in 1 .. 5 : f[3 + Len(w) + i] = r[i]
  <2> TAKE i \in 1 .. 5
  <2> DEFINE k == 3 + Len(w) + i
  <2>1. /\ k \in 1 .. Len(hwr) + Len(o) /\ k <= Len(hwr)
        /\ k \in 1 .. Len(hw) + Len(r) /\ ~(k <= Len(hw)) /\ k - Len(hw) = i
    BY <1>3, <1>6, <1>16
  <2> HIDE DEF k
  <2>2. f[k] = r[i]
    BY <1>8, <1>9, <2>1
  <2> QED
    BY <2>2 DEF k
<1>14. \A i \in 1 .. Len(o) : f[8 + Len(w) + i] = o[i]
  <2> TAKE i \in 1 .. Len(o)
  <2> DEFINE k == 8 + Len(w) + i
  <2>1. k \in 1 .. Len(hwr) + Len(o) /\ ~(k <= Len(hwr)) /\ k - Len(hwr) = i
    BY <1>6, <1>16
  <2> HIDE DEF k
  <2>2. f[k] = o[i]
    BY <1>9, <2>1
  <2> QED
    BY <2>2 DEF k
<1> QED
  BY <1>1, <1>2, <1>3, <1>4, <1>9, <1>15, <1>16, <1>11, <1>12, <1>13, <1>14 DEF w, o

(* What the server reads of the text of a message is the message.           *)
THEOREM ReadAsWritten ==
  ASSUME NEW m, IsMessage(m)
  PROVE  Parse(Format(m)) = {m}
<1> DEFINE f == Format(m)
           w == Words(m)
           o == OptionalLines(m)
           p == Len(m.statement)
           u == 4 + Len(w)
           stop == {i \in 4 .. Len(f) : f[i].kind \in {"Blank", "URI"}}
<1>1. /\ f \in Seq(Lines) /\ w \in Seq(Lines) /\ o \in Seq(Lines)
      /\ Len(f) = 8 + Len(w) + Len(o)
      /\ f[1] = Line("Header", m.domain) /\ f[2] = Line("Address", m.address) /\ f[3] = Blank
      /\ \A i \in 1 .. Len(w) : f[3 + i] = w[i]
      /\ \A i \in 1 .. 5 : f[3 + Len(w) + i] = Line(Required[i], m.required[i])
      /\ \A i \in 1 .. Len(o) : f[8 + Len(w) + i] = o[i]
  BY TextParts
<1>2. Len(w) \in Nat /\ Len(o) \in Nat /\ DOMAIN f = 1 .. Len(f) /\ u \in Nat
  BY <1>1, LenProperties
<1>3. /\ m = [domain |-> m.domain, address |-> m.address, statement |-> m.statement,
              required |-> m.required, optional |-> m.optional]
      /\ m.required \in [1 .. 5 -> Nat] /\ DOMAIN m.optional = 1 .. 3 /\ OptionalTypes(m)
  BY DEF IsMessage, OptionalTypes
<1>4. m.statement \in Seq(Lines) /\ p \in Nat
      /\ \A i \in 1 .. p : m.statement[i].kind \notin {"Blank", "URI"}
  <2>1. m.statement \in Seq({l \in Lines : l.kind \notin {"Blank", "URI"}})
    BY DEF IsMessage
  <2> QED
    BY <2>1, SeqMonotonic, LenProperties, ElementOfSeq
<1>5. \/ m.statement = <<>> /\ w = <<>> /\ Len(w) = 0 /\ p = 0
      \/ /\ m.statement # <<>> /\ p >= 1 /\ Len(w) = p + 1 /\ w[p + 1] = Blank
         /\ \A i \in 1 .. p : w[i] = m.statement[i]
  <2>1. CASE m.statement = <<>>
    BY <2>1 DEF Words
  <2>2. CASE m.statement # <<>>
    <3>1. p >= 1
      BY <1>4, <2>2, EmptySeq
    <3>2. Blank \in Lines
      BY FieldLines
    <3> QED
      BY <1>4, <2>2, <3>1, <3>2, AppendProperties DEF Words
  <2> QED
    BY <2>1, <2>2
<1> HIDE DEF f, w, o, p
<1>6. \A k, v : Line(k, v).kind = k /\ Line(k, v).value = v
  BY DEF Line
<1>7. \A i \in 1 .. 5 : u + i - 1 \in DOMAIN f /\ f[u + i - 1] = Line(Required[i], m.required[i])
  <2> TAKE i \in 1 .. 5
  <2>1. u + i - 1 = 3 + Len(w) + i /\ u + i - 1 \in 1 .. Len(f)
    BY <1>1, <1>2
  <2> QED
    BY <1>1, <1>2, <2>1
<1>8. UriIndex(f) = u
  <2>1. CASE m.statement = <<>>
    <3>1. u = 4
      BY <1>5, <2>1
    <3>2. 1 \in 1 .. 5 /\ u + 1 - 1 = 4
      BY <3>1
    <3>3. IsAt(f, 4, "URI")
      <4>1. Required[1] = "URI"
        BY KindNames
      <4>2. 4 \in DOMAIN f /\ f[4] = Line(Required[1], m.required[1])
        BY <1>7, <3>2
      <4> QED
        BY <1>6, <4>1, <4>2 DEF IsAt
    <3> QED
      BY <3>1, <3>3 DEF UriIndex
  <2>2. CASE m.statement # <<>>
    <3>1. p >= 1 /\ Len(w) = p + 1 /\ w[p + 1] = Blank /\ \A i \in 1 .. p : w[i] = m.statement[i]
      BY <1>5, <2>2
    <3>2. \A i \in 1 .. p : f[3 + i].kind \notin {"Blank", "URI"}
      <4> TAKE i \in 1 .. p
      <4>1. i \in 1 .. Len(w)
        BY <1>4, <3>1 DEF p
      <4> QED
        BY <1>1, <1>4, <3>1, <4>1 DEF p
    <3>3. f[4 + p] = Blank /\ 4 + p \in 4 .. Len(f) /\ 4 + p \in DOMAIN f /\ u = 4 + p + 1 /\ p \in Nat
      <4>1. p + 1 \in 1 .. Len(w) /\ 3 + (p + 1) = 4 + p /\ p \in Nat
        BY <1>4, <3>1 DEF p
      <4> QED
        BY <1>1, <1>2, <3>1, <4>1
    <3>4. ~IsAt(f, 4, "URI")
      <4>1. 1 \in 1 .. p /\ 3 + 1 = 4
        BY <3>1, <3>3
      <4> QED
        BY <3>2, <4>1 DEF IsAt
    <3>5. 4 + p \in stop
      BY <3>3, <1>6 DEF Blank
    <3>6. \A i \in stop : 4 + p <= i
      <4> TAKE i \in stop
      <4>1. i \in 4 .. Len(f) /\ f[i].kind \in {"Blank", "URI"}
        OBVIOUS
      <4>2. ASSUME i < 4 + p PROVE FALSE
        <5>1. i - 3 \in 1 .. p /\ 3 + (i - 3) = i
          BY <1>1, <1>2, <3>3, <4>1, <4>2
        <5> QED
          BY <3>2, <4>1, <5>1
      <4> QED
        BY <1>1, <1>2, <3>3, <4>1, <4>2
    <3>7. \A i \in stop : i \in Nat
      BY <1>1, <1>2
    <3> DEFINE least == Min(stop)
    <3>8. least = 4 + p
      <4>1. \A x \in stop : (\A y \in stop : x <= y) => x = 4 + p
        <5> HIDE DEF stop
        <5> QED
          BY <3>3, <3>5, <3>6, <3>7
      <4> HIDE DEF stop
      <4>2. \E x \in stop : \A y \in stop : x <= y
        BY <3>5, <3>6
      <4>3. least \in stop /\ \A y \in stop : least <= y
        BY <4>2 DEF Min
      <4> QED
        BY <4>1, <4>3
    <3>9. stop # {} /\ IsAt(f, least, "Blank")
      BY <1>6, <3>3, <3>5, <3>8 DEF IsAt, Blank
    <3>10. UriIndex(f) = least + 1
      BY <3>4, <3>9 DEF UriIndex
    <3> QED
      BY <3>3, <3>8, <3>10
  <2> QED
    BY <2>1, <2>2
<1> HIDE DEF stop, u
<1>9. u + 5 = 9 + Len(w) /\ u = 4 + Len(w)
  BY <1>2 DEF u
<1>10. SubSeq(f, u + 5, Len(f)) = o
  <2>1. u + 5 \in Int /\ Len(f) \in Int /\ \A i \in u + 5 .. Len(f) : f[i] \in Lines
    BY <1>1, <1>2, <1>9, ElementOfSeq
  <2>2. /\ SubSeq(f, u + 5, Len(f)) \in Seq(Lines)
        /\ Len(SubSeq(f, u + 5, Len(f))) = IF u + 5 <= Len(f) THEN Len(f) - (u + 5) + 1 ELSE 0
        /\ \A i \in 1 .. Len(f) - (u + 5) + 1 : SubSeq(f, u + 5, Len(f))[i] = f[u + 5 + i - 1]
    BY <2>1, SubSeqProperties
  <2>3. Len(SubSeq(f, u + 5, Len(f))) = Len(o)
    BY <1>1, <1>2, <1>9, <2>2
  <2>4. \A i \in 1 .. Len(o) : SubSeq(f, u + 5, Len(f))[i] = o[i]
    <3> TAKE i \in 1 .. Len(o)
    <3>1. i \in 1 .. Len(f) - (u + 5) + 1 /\ u + 5 + i - 1 = 8 + Len(w) + i
      BY <1>1, <1>2, <1>9
    <3> QED
      BY <1>1, <2>2, <3>1
  <2> QED
    BY <1>1, <2>2, <2>3, <2>4, SeqEqual
<1>11. KindsOnce(o) /\ ToSet(o) = UNION {{Line(Optional[i], v) : v \in m.optional[i]} : i \in 1 .. 3}
  BY <1>3, AllOptional DEF o
<1>12. TailAllowed(o)
  <2>1. \A l \in ToSet(o) : l.kind \in ToSet(Optional)
    <3>1. \A i \in 1 .. 3 : Optional[i] \in ToSet(Optional)
      BY KindNames DEF ToSet
    <3> QED
      BY <1>6, <1>11, <3>1
  <2>2. \A i \in DOMAIN o : o[i] \in ToSet(o)
    BY DEF ToSet
  <2> QED
    BY <1>11, <2>1, <2>2 DEF TailAllowed, OnlyKnown, KindsOnce
<1>13. \A i \in 1 .. 3 : OptionalValues(o, Optional[i]) = m.optional[i]
  <2> TAKE i \in 1 .. 3
  <2>1. OptionalValues(o, Optional[i]) = {l.value : l \in {k \in ToSet(o) : k.kind = Optional[i]}}
    BY DEF OptionalValues, ToSet
  <2>2. \A l \in ToSet(o) : l.kind = Optional[i] => l.value \in m.optional[i]
    <3> TAKE l \in ToSet(o)
    <3>1. PICK j \in 1 .. 3 : \E v \in m.optional[j] : l = Line(Optional[j], v)
      BY <1>11
    <3>2. PICK v \in m.optional[j] : l = Line(Optional[j], v)
      BY <3>1
    <3>3. l.kind = Optional[j] /\ l.value = v
      BY <1>6, <3>2
    <3> QED
      BY <3>2, <3>3, KindNames
  <2>3. \A v \in m.optional[i] : Line(Optional[i], v) \in ToSet(o)
    BY <1>11
  <2> QED
    BY <1>6, <2>1, <2>2, <2>3
<1>14. SubSeq(f, 4, u - 2) = m.statement
  <2>1. CASE m.statement = <<>>
    <3>1. u - 2 \in Int /\ u - 2 < 4
      BY <1>5, <1>9, <2>1
    <3> QED
      BY <2>1, <3>1, SubSeqEmpty
  <2>2. CASE m.statement # <<>>
    <3>1. p \in Nat /\ p >= 1 /\ Len(w) = p + 1 /\ u - 2 = 3 + p /\ u - 2 - 4 + 1 = p
          /\ \A i \in 1 .. p : w[i] = m.statement[i]
      BY <1>4, <1>5, <1>9, <2>2 DEF p
    <3>2. 4 \in Int /\ u - 2 \in Int /\ 4 <= u - 2 /\ \A i \in 4 .. u - 2 : f[i] \in Lines
      BY <1>1, <1>2, <3>1, ElementOfSeq
    <3>3. /\ SubSeq(f, 4, u - 2) \in Seq(Lines)
          /\ Len(SubSeq(f, 4, u - 2)) = p
          /\ \A i \in 1 .. p : SubSeq(f, 4, u - 2)[i] = f[4 + i - 1]
      BY <3>1, <3>2, SubSeqProperties
    <3>4. \A i \in 1 .. p : SubSeq(f, 4, u - 2)[i] = m.statement[i]
      <4> TAKE i \in 1 .. p
      <4>1. 4 + i - 1 = 3 + i /\ i \in 1 .. Len(w)
        BY <3>1
      <4> QED
        BY <1>1, <3>1, <3>3, <4>1
    <3> QED
      BY <1>4, <3>3, <3>4, SeqEqual DEF p
  <2> QED
    BY <2>1, <2>2
<1>15. [i \in 1 .. 5 |-> f[u + i - 1].value] = m.required
  BY <1>3, <1>6, <1>7
<1>16. [i \in 1 .. 3 |-> OptionalValues(o, Optional[i])] = m.optional
  <2> DEFINE x == m.optional
  <2>1. x = [i \in 1 .. 3 |-> x[i]]
    <3>1. x \in [1 .. 3 -> SUBSET Nat]
      <4>1. IsMessage(m)
        OBVIOUS
      <4> QED
        BY <4>1 DEF IsMessage
    <3> QED
      BY <3>1
  <2> QED
    BY <1>13, <2>1
<1>17. /\ Len(f) >= 7
       /\ IsAt(f, 1, "Header") /\ IsAt(f, 2, "Address") /\ IsAt(f, 3, "Blank")
       /\ u # 0
       /\ \A i \in 1 .. 5 : IsAt(f, u + i - 1, Required[i])
  <2>1. 1 \in DOMAIN f /\ 2 \in DOMAIN f /\ 3 \in DOMAIN f /\ Len(f) >= 7 /\ u # 0
    BY <1>1, <1>2, <1>9
  <2>2. f[1].kind = "Header" /\ f[2].kind = "Address" /\ f[3].kind = "Blank"
    BY <1>1, <1>6 DEF Blank
  <2>3. \A i \in 1 .. 5 : IsAt(f, u + i - 1, Required[i])
    BY <1>6, <1>7 DEF IsAt
  <2> QED
    BY <2>1, <2>2, <2>3 DEF IsAt
<1>18. f[1].value = m.domain /\ f[2].value = m.address
  BY <1>1, <1>6
<1>19. Parse(f) = {[domain |-> f[1].value, address |-> f[2].value,
                    statement |-> SubSeq(f, 4, u - 2),
                    required |-> [i \in 1 .. 5 |-> f[u + i - 1].value],
                    optional |-> [i \in 1 .. 3 |-> OptionalValues(o, Optional[i])]]}
  BY <1>8, <1>10, <1>12, <1>17 DEF Parse
<1> QED
  BY <1>3, <1>14, <1>15, <1>16, <1>18, <1>19 DEF f

(* While a text is unchanged it is the client's, and so is what was signed. *)
SiweTypes == /\ message \in Drafts
             /\ text \in Seq(Lines)
             /\ edits \in Nat
             /\ signature \subseteq [address : Addresses, text : Seq(Lines)]
             /\ \A s, t \in signature : s = t
Unchanged == edits = 0 => text = Format(message) /\ \A s \in signature : s.text = text

(* An answer is that to the signature and the text there are: nothing that  *)
(* it depends on changes any more.                                          *)
Answered == answers = <<>> \/ \E s \in signature : answers = <<Verify(text, s, time)>>

SiweInv == SiweTypes /\ Unchanged /\ Answered

LEMMA StraysAreLines == Strays \subseteq Lines
<1>1. \A k \in {"Header"} \cup ToSet(Required) \cup ToSet(Optional) : Line(k, 0) \in Lines
  <2>1. ToSet(Required) = {Required[i] : i \in 1 .. 5} /\ ToSet(Optional) = {Optional[i] : i \in 1 .. 3}
    BY KindNames DEF ToSet
  <2> QED
    BY <2>1, FieldLines
<1>2. \A l \in [kind : {"Header"} \cup ToSet(Required) \cup ToSet(Optional), value : {0}] :
          l = Line(l.kind, 0) /\ l.kind \in {"Header"} \cup ToSet(Required) \cup ToSet(Optional)
  BY DEF Line
<1>3. Blank \in Lines /\ Line("Text", 0) \in Lines /\ \A a \in Addresses : Line("Address", a) \in Lines
  BY FieldLines
<1> QED
  BY <1>1, <1>2, <1>3 DEF Strays

(* A change of a text leaves a text.                                        *)
LEMMA EditedText ==
  ASSUME NEW s \in Seq(Lines)
  PROVE  /\ \A i \in DOMAIN s : RemoveAt(s, i) \in Seq(Lines)
         /\ \A i \in 1 .. Len(s) + 1 : \A l \in Lines : InsertAt(s, i, l) \in Seq(Lines)
         /\ \A i \in 1 .. Len(s) - 1 : [s EXCEPT ![i] = s[i + 1], ![i + 1] = s[i]] \in Seq(Lines)
<1>1. Len(s) \in Nat /\ DOMAIN s = 1 .. Len(s) /\ \A i \in 1 .. Len(s) : s[i] \in Lines
  BY LenProperties, ElementOfSeq
<1>2. \A i, j \in Int : 1 <= i /\ j <= Len(s) => SubSeq(s, i, j) \in Seq(Lines)
  <2> TAKE i, j \in Int
  <2> HAVE 1 <= i /\ j <= Len(s)
  <2>1. \A k \in i .. j : s[k] \in Lines
    BY <1>1
  <2> QED
    BY <2>1, SubSeqProperties
<1>3. ASSUME NEW i \in DOMAIN s PROVE RemoveAt(s, i) \in Seq(Lines)
  <2>1. SubSeq(s, 1, i - 1) \in Seq(Lines) /\ SubSeq(s, i + 1, Len(s)) \in Seq(Lines)
    BY <1>1, <1>2
  <2> QED
    BY <2>1, ConcatProperties DEF RemoveAt
<1>4. ASSUME NEW i \in 1 .. Len(s) + 1, NEW l \in Lines PROVE InsertAt(s, i, l) \in Seq(Lines)
  <2>1. SubSeq(s, 1, i - 1) \in Seq(Lines) /\ SubSeq(s, i, Len(s)) \in Seq(Lines) /\ <<l>> \in Seq(Lines)
    BY <1>1, <1>2
  <2>2. SubSeq(s, 1, i - 1) \o <<l>> \in Seq(Lines)
    BY <2>1, ConcatProperties
  <2> QED
    BY <2>1, <2>2, ConcatProperties DEF InsertAt
<1>5. ASSUME NEW i \in 1 .. Len(s) - 1
      PROVE  [s EXCEPT ![i] = s[i + 1], ![i + 1] = s[i]] \in Seq(Lines)
  <2>1. i \in 1 .. Len(s) /\ i + 1 \in 1 .. Len(s)
    BY <1>1
  <2>2. [s EXCEPT ![i] = s[i + 1]] \in Seq(Lines) /\ Len([s EXCEPT ![i] = s[i + 1]]) = Len(s)
    BY <1>1, <2>1, ExceptSeq
  <2>3. [[s EXCEPT ![i] = s[i + 1]] EXCEPT ![i + 1] = s[i]] \in Seq(Lines)
    BY <1>1, <2>1, <2>2, ExceptSeq
  <2> QED
    BY <2>3
<1> QED
  BY <1>3, <1>4, <1>5

LEMMA SiweHolds == SiweSpec => []SiweInv
<1>1. SiweInit => SiweInv
  <2> SUFFICES ASSUME SiweInit PROVE SiweInv
    OBVIOUS
  <2>1. Format(message) \in Seq(Lines)
    BY TextParts, SiweAssumption DEF SiweInit
  <2> QED
    BY <2>1 DEF SiweInit, SiweInv, SiweTypes, Unchanged, Answered
<1>2. SiweInv /\ [SiweNext]_siweVars => SiweInv'
  <2> SUFFICES ASSUME SiweInv, [SiweNext]_siweVars PROVE SiweInv'
    OBVIOUS
  <2> USE DEF SiweInv
  <2>1. CASE SiweTick
    BY <2>1 DEF SiweTick, SiweTypes, Unchanged, Answered
  <2>2. ASSUME NEW a \in Addresses, Sign(a) PROVE SiweInv'
    <3>1. /\ signature = {} /\ signature' = {[address |-> a, text |-> text]}
          /\ UNCHANGED <<message, text, time, edits, answers>>
      BY <2>2 DEF Sign
    <3>2. answers = <<>>
      BY <3>1 DEF Answered
    <3> QED
      BY <3>1, <3>2 DEF SiweTypes, Unchanged, Answered
  <2>3. CASE Edit
    <3>1. edits' = edits + 1 /\ answers = <<>> /\ UNCHANGED <<message, signature, time, answers>>
      BY <2>3 DEF Edit
    <3>2. text' \in Seq(Lines)
      <4>1. text \in Seq(Lines)
        BY DEF SiweTypes
      <4>2. CASE \E i \in DOMAIN text : text' = RemoveAt(text, i)
        BY <4>1, <4>2, EditedText
      <4>3. CASE \E i \in 1 .. Len(text) + 1, line \in Strays : text' = InsertAt(text, i, line)
        BY <4>1, <4>3, EditedText, StraysAreLines
      <4>4. CASE \E i \in 1 .. Len(text) - 1 :
                     text' = [text EXCEPT ![i] = text[i + 1], ![i + 1] = text[i]]
        BY <4>1, <4>4, EditedText
      <4> QED
        BY <2>3, <4>2, <4>3, <4>4 DEF Edit
    <3>3. edits' \in Nat /\ edits' # 0
      BY <3>1 DEF SiweTypes
    <3> QED
      BY <3>1, <3>2, <3>3 DEF SiweTypes, Unchanged, Answered
  <2>4. CASE Submit
    <3>1. PICK s \in signature : answers' = <<Verify(text, s, time)>>
      BY <2>4 DEF Submit
    <3>2. UNCHANGED <<message, text, signature, time, edits>>
      BY <2>4 DEF Submit
    <3> QED
      BY <3>1, <3>2 DEF SiweTypes, Unchanged, Answered
  <2>5. CASE UNCHANGED siweVars
    BY <2>5 DEF siweVars, SiweTypes, Unchanged, Answered
  <2> QED
    BY <2>1, <2>2, <2>3, <2>4, <2>5 DEF SiweNext
<1> QED
  BY <1>1, <1>2, PTL DEF SiweSpec

(* What is accepted was signed as it is, by the wallet it names, and holds  *)
(* nothing but the fields that the server read, whatever lines were added,  *)
(* left out or moved.                                                       *)
THEOREM SignedTexts == SiweSpec => []SignedAsRead
<1>1. SiweInv => SignedAsRead
  <2> SUFFICES ASSUME SiweInv, NEW i \in DOMAIN answers, NEW m \in answers[i]
               PROVE  signature = {[address |-> m.address, text |-> text]} /\ Says(text, m)
    BY DEF SignedAsRead
  <2>1. PICK s \in signature : answers = <<Verify(text, s, time)>>
    BY DEF SiweInv, Answered
  <2>2. m \in Verify(text, s, time)
    BY <2>1
  <2>3. m \in Parse(text) /\ Recover(text, s) = m.address
    BY <2>2 DEF Verify
  <2>4. m.address \in Addresses /\ Says(text, m)
    BY <2>3, ReadIsSaid DEF SiweInv, SiweTypes
  <2>5. m.address # 0
    BY <2>4, SiweAssumption
  <2>6. s.text = text /\ s.address = m.address
    BY <2>3, <2>5 DEF Recover
  <2>7. s = [address |-> s.address, text |-> s.text] /\ signature = {s}
    BY DEF SiweInv, SiweTypes
  <2> QED
    BY <2>4, <2>6, <2>7
<1> QED
  BY <1>1, SiweHolds, PTL

(* The text that the client writes, signed by its wallet and sent in time,  *)
(* is accepted with the fields it was written from.                         *)
THEOREM OwnTexts == SiweSpec => []OwnTextAccepted
<1>1. SiweInv => OwnTextAccepted
  <2> SUFFICES ASSUME SiweInv, NEW i \in DOMAIN answers, edits = 0,
                      \E s \in signature : s.address = message.address, Validate(message, time)
               PROVE  answers[i] = {message}
    BY DEF OwnTextAccepted
  <2>1. PICK s \in signature : answers = <<Verify(text, s, time)>>
    BY DEF SiweInv, Answered
  <2>2. s.address = message.address /\ s.text = text /\ text = Format(message)
    BY DEF SiweInv, SiweTypes, Unchanged
  <2>3. Parse(text) = {message}
    BY <2>2, ReadAsWritten, SiweAssumption DEF SiweInv, SiweTypes
  <2>4. Recover(text, s) = message.address
    BY <2>2 DEF Recover
  <2>5. Verify(text, s, time) = {message}
    BY <2>3, <2>4 DEF Verify
  <2> QED
    BY <2>1, <2>5
<1> QED
  BY <1>1, SiweHolds, PTL

-----------------------------------------------------------------------------
(* What the node's quantities stand for.  The numbers of the first digits of *)
(* a quantity: f[k] is that of the first k.                                 *)
Numbers(digits, n, f) ==
    f = [k \in 0 .. n |-> IF k = 0 THEN 0 ELSE f[k - 1] * 16 + digits[k]]

(* A quantity has such numbers, and ValueOf is the last of them.            *)
LEMMA NumbersExist ==
  ASSUME NEW digits \in Seq(0 .. 15)
  PROVE  \E f : Numbers(digits, Len(digits), f) /\ ValueOf(digits) = f[Len(digits)]
<1> DEFINE Bad == {n \in Nat : ~ \E f : Numbers(digits, n, f)}
<1>1. Bad = {}
  <2>1. SUFFICES ASSUME Bad # {} PROVE FALSE
    OBVIOUS
  <2>2. PICK n \in Bad : \A y \in Bad : n <= y
    BY <2>1, LeastNumber
  <2>3. n \in Nat /\ ~ \E f : Numbers(digits, n, f)
    OBVIOUS
  <2>4. CASE n = 0
    <3> DEFINE f == [k \in 0 .. 0 |-> 0]
    <3>1. 0 .. 0 = {0}
      OBVIOUS
    <3>2. Numbers(digits, 0, f)
      <4>1. f = [k \in 0 .. 0 |-> IF k = 0 THEN 0 ELSE f[k - 1] * 16 + digits[k]]
        BY <3>1
      <4> QED
        BY <4>1 DEF Numbers
    <3> QED
      BY <2>3, <2>4, <3>2
  <2>5. CASE n # 0
    <3>1. n - 1 \in Nat /\ n - 1 \notin Bad
      BY <2>2, <2>3, <2>5
    <3>2. PICK f : Numbers(digits, n - 1, f)
      BY <3>1
    <3> DEFINE g == [k \in 0 .. n |-> IF k = 0 THEN 0 ELSE f[k - 1] * 16 + digits[k]]
    <3>3. \A k \in 0 .. n - 1 : g[k] = f[k]
      <4> TAKE k \in 0 .. n - 1
      <4>1. k \in 0 .. n
        BY <2>3
      <4>2. f[k] = IF k = 0 THEN 0 ELSE f[k - 1] * 16 + digits[k]
        BY <3>2 DEF Numbers
      <4> QED
        BY <4>1, <4>2
    <3>4. \A k \in 0 .. n : k # 0 => k - 1 \in 0 .. n - 1
      BY <2>3
    <3>5. g = [k \in 0 .. n |-> IF k = 0 THEN 0 ELSE g[k - 1] * 16 + digits[k]]
      BY <3>3, <3>4
    <3>6. Numbers(digits, n, g)
      BY <3>5 DEF Numbers
    <3> QED
      BY <2>3, <3>6
  <2> QED
    BY <2>4, <2>5
<1>2. Len(digits) \in Nat
  BY LenProperties
<1>3. \E f : Numbers(digits, Len(digits), f)
  BY <1>1, <1>2
<1> DEFINE up == CHOOSE f : f = [k \in 0 .. Len(digits) |-> IF k = 0 THEN 0 ELSE f[k - 1] * 16 + digits[k]]
<1>4. Numbers(digits, Len(digits), up)
  BY <1>3 DEF Numbers
<1>5. ValueOf(digits) = up[Len(digits)]
  BY DEF ValueOf
<1> QED
  BY <1>4, <1>5

(* Leading zeros do not count.                                              *)
LEMMA LeadingZeros ==
  ASSUME NEW digits \in Seq(0 .. 15), NEW first \in DOMAIN digits,
         \A k \in 1 .. first - 1 : digits[k] = 0
  PROVE  ValueOf(SubSeq(digits, first, Len(digits))) = ValueOf(digits)
<1> DEFINE stripped == SubSeq(digits, first, Len(digits))
           n == Len(digits)
           m == n - first + 1
<1>1. n \in Nat /\ first \in 1 .. n /\ DOMAIN digits = 1 .. n
  BY LenProperties
<1>2. stripped \in Seq(0 .. 15) /\ Len(stripped) = m /\ m \in Nat
      /\ \A k \in 1 .. m : stripped[k] = digits[first + k - 1]
  BY <1>1, SubSeqProperties
<1>3. PICK f : Numbers(digits, n, f) /\ ValueOf(digits) = f[n]
  BY NumbersExist
<1>4. PICK g : Numbers(stripped, m, g) /\ ValueOf(stripped) = g[m]
  BY <1>2, NumbersExist
<1> HIDE DEF stripped, n, m
<1>5. /\ f[0] = 0 /\ \A k \in 1 .. n : f[k] = f[k - 1] * 16 + digits[k]
      /\ g[0] = 0 /\ \A k \in 1 .. m : g[k] = g[k - 1] * 16 + stripped[k]
  <2>1. 0 \in 0 .. n /\ 0 \in 0 .. m /\ (\A k \in 1 .. n : k \in 0 .. n /\ k # 0)
        /\ (\A k \in 1 .. m : k \in 0 .. m /\ k # 0)
    BY <1>1, <1>2
  <2>2. f = [k \in 0 .. n |-> IF k = 0 THEN 0 ELSE f[k - 1] * 16 + digits[k]]
    BY <1>3 DEF Numbers
  <2>3. g = [k \in 0 .. m |-> IF k = 0 THEN 0 ELSE g[k - 1] * 16 + stripped[k]]
    BY <1>4 DEF Numbers
  <2> QED
    BY <2>1, <2>2, <2>3
<1>6. \A k \in 0 .. first - 1 : f[k] = 0
  <2> DEFINE Bad == {k \in Nat : k <= first - 1 /\ f[k] # 0}
  <2>1. SUFFICES ASSUME Bad # {} PROVE FALSE
    BY <1>1
  <2>2. PICK k \in Bad : \A y \in Bad : k <= y
    BY <2>1, LeastNumber
  <2>3. k \in Nat /\ k # 0 /\ k <= first - 1 /\ f[k] # 0
    BY <1>5
  <2>4. k - 1 \in Nat /\ k \in 1 .. n /\ k \in 1 .. first - 1
    BY <1>1, <2>3
  <2>5. f[k - 1] = 0
    BY <1>1, <2>2, <2>3, <2>4
  <2>6. f[k] = 0 * 16 + 0
    BY <1>5, <2>4, <2>5
  <2> QED
    BY <2>3, <2>6
<1>7. \A k \in 0 .. m : g[k] = f[first - 1 + k]
  <2> DEFINE Bad == {k \in Nat : k <= m /\ g[k] # f[first - 1 + k]}
  <2>1. SUFFICES ASSUME Bad # {} PROVE FALSE
    <3>1. \A k \in 0 .. m : k \in Nat /\ k <= m
      BY <1>2
    <3> QED
      BY <3>1
  <2>2. PICK k \in Bad : \A y \in Bad : k <= y
    BY <2>1, LeastNumber
  <2>3. k \in Nat /\ k <= m /\ g[k] # f[first - 1 + k]
    OBVIOUS
  <2>4. k # 0
    <3>1. first - 1 \in 0 .. first - 1 /\ first - 1 + 0 = first - 1
      BY <1>1
    <3> QED
      BY <1>5, <1>6, <2>3, <3>1
  <2>5. k - 1 \in Nat /\ k \in 1 .. m
    BY <1>2, <2>3, <2>4
  <2>6. g[k - 1] = f[first - 1 + (k - 1)]
    BY <1>2, <2>2, <2>3, <2>5
  <2>7. first - 1 + k \in 1 .. n /\ first - 1 + (k - 1) = (first - 1 + k) - 1
        /\ first + k - 1 = first - 1 + k
    BY <1>1, <1>2, <2>3, <2>5 DEF m
  <2>8. f[first - 1 + k] = f[first - 1 + (k - 1)] * 16 + digits[first - 1 + k]
    BY <1>5, <2>7
  <2>9. stripped[k] = digits[first - 1 + k]
    BY <1>2, <2>5, <2>7
  <2>10. g[k] = g[k - 1] * 16 + stripped[k]
    BY <1>5, <2>5
  <2> QED
    BY <2>3, <2>6, <2>8, <2>9, <2>10
<1>8. m \in 0 .. m /\ first - 1 + m = n
  BY <1>1, <1>2 DEF m
<1>9. g[m] = f[n]
  BY <1>7, <1>8
<1> QED
  BY <1>3, <1>4, <1>9 DEF stripped, n

(* Digits that are all zero are zero.                                       *)
LEMMA AllZeros ==
  ASSUME NEW digits \in Seq(0 .. 15), \A k \in DOMAIN digits : digits[k] = 0
  PROVE  ValueOf(digits) = 0
<1>1. CASE digits = <<>>
  <2>1. PICK f : Numbers(digits, Len(digits), f) /\ ValueOf(digits) = f[Len(digits)]
    BY NumbersExist
  <2>2. Len(digits) = 0 /\ 0 \in 0 .. 0
    BY <1>1
  <2>3. f[0] = 0
    BY <2>1, <2>2 DEF Numbers
  <2> QED
    BY <2>1, <2>2, <2>3
<1>2. CASE digits # <<>>
  <2> DEFINE n == Len(digits)
  <2>1. n \in Nat /\ n \in 1 .. n /\ DOMAIN digits = 1 .. n
    BY <1>2, LenProperties, EmptySeq
  <2>2. PICK f : Numbers(digits, n, f) /\ ValueOf(digits) = f[n]
    BY NumbersExist
  <2>3. f = [k \in 0 .. n |-> IF k = 0 THEN 0 ELSE f[k - 1] * 16 + digits[k]]
    BY <2>2 DEF Numbers
  <2> HIDE DEF n
  <2> DEFINE Bad == {k \in Nat : k <= n /\ f[k] # 0}
  <2>4. SUFFICES Bad = {}
    BY <2>1, <2>2
  <2>5. SUFFICES ASSUME Bad # {} PROVE FALSE
    OBVIOUS
  <2>6. PICK k \in Bad : \A y \in Bad : k <= y
    BY <2>5, LeastNumber
  <2>7. k \in Nat /\ k <= n /\ f[k] # 0 /\ k \in 0 .. n
    BY <2>1
  <2>8. k # 0
    BY <2>3, <2>7
  <2>9. k - 1 \in Nat /\ k - 1 \notin Bad /\ k \in 1 .. n /\ k - 1 <= n
    BY <2>1, <2>6, <2>7, <2>8
  <2>10. f[k - 1] = 0 /\ digits[k] = 0
    BY <2>1, <2>9
  <2>11. f[k] = 0 * 16 + 0
    BY <2>3, <2>7, <2>8, <2>10
  <2> QED
    BY <2>7, <2>11
<1> QED
  BY <1>1, <1>2

(* parse_hex_wei returns the number that the digits stand for, or nothing:  *)
(* it neither wraps nor cuts, however many digits there are.                *)
THEOREM HexIsExact ==
  ASSUME NEW digits \in Seq(0 .. 15)
  PROVE  ParseHexWei(digits) \subseteq {ValueOf(digits)}
<1> DEFINE I == {i \in 1 .. Len(digits) : digits[i] # 0}
           first == IF I # {} THEN Min(I) ELSE 0
           stripped == IF first = 0 THEN <<>> ELSE SubSeq(digits, first, Len(digits))
<1>1. ParseHexWei(digits) \subseteq {ValueOf(stripped)}
  BY DEF ParseHexWei, SelectInSeq
<1>2. Len(digits) \in Nat /\ DOMAIN digits = 1 .. Len(digits)
  BY LenProperties
<1>3. CASE I = {}
  <2>1. \A k \in DOMAIN digits : digits[k] = 0
    BY <1>2, <1>3
  <2>2. \A k \in DOMAIN <<>> : <<>>[k] = 0
    OBVIOUS
  <2>3. <<>> \in Seq(0 .. 15)
    OBVIOUS
  <2>4. ValueOf(digits) = 0 /\ ValueOf(<<>>) = 0
    BY <2>1, <2>2, <2>3, AllZeros
  <2> QED
    BY <1>1, <1>3, <2>4
<1>4. CASE I # {}
  <2>1. I \in SUBSET Nat
    BY <1>2
  <2>2. \E x \in I : \A y \in I : x <= y
    BY <1>4, <2>1, LeastNumber
  <2>3. Min(I) \in I /\ \A y \in I : Min(I) <= y
    BY <2>2 DEF Min
  <2> HIDE DEF I
  <2>4. first = Min(I) /\ first \in DOMAIN digits /\ first # 0
    BY <1>2, <1>4, <2>3 DEF I
  <2>5. \A k \in 1 .. first - 1 : digits[k] = 0
    BY <1>2, <2>3, <2>4 DEF I
  <2>6. stripped = SubSeq(digits, first, Len(digits))
    BY <2>4
  <2> HIDE DEF first, stripped
  <2>7. ValueOf(stripped) = ValueOf(digits)
    BY <2>4, <2>5, <2>6, LeadingZeros
  <2> QED
    BY <1>1, <2>7
<1> QED
  BY <1>3, <1>4
-----------------------------------------------------------------------------
(* What is read last of the items was in one of them.                       *)
LEMMA LatestIsOne ==
  ASSUME NEW parts, NEW x \in Latest(parts)
  PROVE  \E i \in DOMAIN parts : x \in parts[i]
BY DEF Latest

PaymentInv == items \in Seq(Items) /\ PaidEnough

LEMMA PaymentHolds == PaymentSpec => []PaymentInv
<1>1. PaymentInit => PaymentInv
  BY DEF PaymentInit, PaymentInv, PaidEnough
<1>2. PaymentInv /\ [PaymentNext]_paymentVars => PaymentInv'
  <2> SUFFICES ASSUME PaymentInv, [PaymentNext]_paymentVars PROVE PaymentInv'
    OBVIOUS
  <2>1. CASE Receive
    <3>1. PICK item \in Items : items' = Append(items, item)
      BY <2>1 DEF Receive
    <3>2. items' \in Seq(Items)
      BY <3>1, AppendProperties DEF PaymentInv
    <3>3. verdict' = <<>>
      BY <2>1 DEF Receive
    <3> QED
      BY <3>2, <3>3 DEF PaymentInv, PaidEnough
  <2>2. CASE VerifyPayment
    <3>1. items' = items /\ items \in Seq(Items)
          /\ verdict' = <<IF Read.error THEN {} ELSE Validated(Read.transfers, Read.statuses)>>
      BY <2>2 DEF VerifyPayment, PaymentInv
    <3>2. SUFFICES ASSUME NEW wei \in IF Read.error THEN {} ELSE Validated(Read.transfers, Read.statuses)
                   PROVE  /\ \A item \in ToSet(items) : ~item.error
                          /\ \E item \in ToSet(items) : \E q \in item.statuses : ValueOf(q) = 1
                          /\ \E item \in ToSet(items) : \E t \in item.transfers :
                               t.from = Payer /\ t.to = Recipient /\ ValueOf(t.value) = wei /\ wei >= MinWei
      <4>1. \A i \in DOMAIN verdict' :
              verdict'[i] = IF Read.error THEN {} ELSE Validated(Read.transfers, Read.statuses)
        BY <3>1
      <4> HIDE DEF Read, Validated
      <4> QED
        BY <3>1, <3>2, <4>1 DEF PaymentInv, PaidEnough
    <3>3. ~Read.error /\ wei \in Validated(Read.transfers, Read.statuses)
      BY <3>2
    <3>4. PICK t \in Read.transfers : \E q \in Read.statuses :
            /\ wei \in ParseHexWei(t.value)
            /\ ParseHexWei(q) = {1}
            /\ t.to = Recipient /\ t.from = Payer /\ wei >= MinWei
      BY <3>3 DEF Validated
    <3>5. PICK q \in Read.statuses : ParseHexWei(q) = {1} /\ wei \in ParseHexWei(t.value)
            /\ t.to = Recipient /\ t.from = Payer /\ wei >= MinWei
      BY <3>4
    <3>6. PICK i \in DOMAIN items : t \in items[i].transfers
      <4>1. t \in Latest([j \in DOMAIN items |-> items[j].transfers])
        BY <3>4 DEF Read
      <4> QED
        BY <4>1, LatestIsOne
    <3>7. PICK j \in DOMAIN items : q \in items[j].statuses
      <4>1. q \in Latest([k \in DOMAIN items |-> items[k].statuses])
        BY <3>5 DEF Read
      <4> QED
        BY <4>1, LatestIsOne
    <3>8. items[i] \in Items /\ items[j] \in Items /\ items[i] \in ToSet(items) /\ items[j] \in ToSet(items)
      BY <3>1, ElementOfSeq, LenProperties DEF ToSet
    <3>9. t.value \in Seq(0 .. 15) /\ q \in Seq(0 .. 15)
      <4>1. t.value \in Quantities
        <5>1. \A item \in Items : item.transfers \in {{}} \cup {{u} : u \in Transfers}
          BY DEF Items
        <5>2. t \in Transfers
          BY <3>6, <3>8, <5>1
        <5> QED
          BY <5>2 DEF Transfers
      <4>2. q \in Quantities
        BY <3>7, <3>8 DEF Items
      <4> QED
        BY <4>1, <4>2, PaymentAssumption
    <3>10. ValueOf(t.value) = wei /\ ValueOf(q) = 1
      BY <3>5, <3>9, HexIsExact
    <3>11. \A item \in ToSet(items) : ~item.error
      BY <3>3 DEF Read, ToSet
    <3> QED
      BY <3>5, <3>6, <3>7, <3>8, <3>10, <3>11
  <2>3. CASE UNCHANGED paymentVars
    BY <2>3 DEF paymentVars, PaymentInv, PaidEnough
  <2> QED
    BY <2>1, <2>2, <2>3 DEF PaymentNext
<1> QED
  BY <1>1, <1>2, PTL DEF PaymentSpec

(* A payment counts only if no part of the node's answer is an error, and it *)
(* holds a receipt of status one and a transfer of the granted amount, no   *)
(* less than the minimum, from the session's wallet to the project's.       *)
THEOREM PaymentsPaid == PaymentSpec => []PaidEnough
<1>1. PaymentInv => PaidEnough
  BY DEF PaymentInv
<1> QED
  BY <1>1, PaymentHolds, PTL
=============================================================================
