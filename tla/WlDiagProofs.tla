---------------------------- MODULE WlDiagProofs ----------------------------
(***************************************************************************)
(* Theorems about the tracer for every set of builds, any number of tasks, *)
(* hooks, sites, calls and nested calls, and any size of its buffer.       *)
(***************************************************************************)
EXTENDS WlDiag, FiniteSetTheorems, SequenceTheorems, WellFoundedInduction, TLAPS

(***************************************************************************)
(* The buffer and its counters.                                            *)
(***************************************************************************)
BufferType ==
  /\ fifo \in {"kfifo", "ring"}
  /\ slots \in [0..(FifoRecs - 1) -> Nat]
  /\ head \in 0..(Counters - 1) /\ tail \in 0..(Counters - 1)
  /\ seqno \in Nat /\ drops \in Nat /\ reported \in Nat
  /\ reader \in {"out", "asking", "waiting"}
  /\ stored \in Seq(Nat) /\ got \in Seq(Nat)
  /\ Fill <= FifoRecs

(***************************************************************************)
(* The calls.                                                              *)
(***************************************************************************)
Words == UNION {{i} \X WordsOf(build, i) : i \in Hooks}
Writes == [hook : Hooks, word : Nat, to : {"old", "new"}]
Frame == [hook : Nat, via : Nat,
          place : {"fetch", "trap", "hook", "argx", "store", "enter", "body", "exit"},
          taken : Nat, first : {"old", "new"}, rec : Nat,
          next : {"", "argx", "enter", "body", "done"}, divert : BOOLEAN]

TraceType ==
  /\ build \in Builds
  /\ loader \in {"absent", "refused", "planned", "dry", "arming", "armed", "disarming",
                 "restored", "synced", "unloaded"}
  /\ target \in {"live", "going", "notified", "gone"}
  /\ work \in Seq(Writes)
  /\ text \in [Words -> {"old", "new"}]
  /\ armed \subseteq Eligible
  /\ ref \in [mod : BOOLEAN, held : BOOLEAN]
  /\ notifiers \subseteq {"die", "module"}
  /\ order \in Nat /\ late \in BOOLEAN
  /\ stack \in [Tasks -> Seq(Frame)]
  /\ \A t \in Tasks : Len(stack[t]) <= Depth

(* What a detour of hook i changes in wl.                                  *)
DetourWords(i) ==
  CASE Kind(i) = "sites" -> {SiteWords(i)[k] : k \in DOMAIN SiteWords(i)}
    [] Kind(i) \in {"break", "short"} -> {1}
    [] OTHER -> 1..4

Tail234(i) == \A w \in 2..4 : text[<<i, w>>] = "new"

(* What is true of one frame wherever it is on a stack.                    *)
FrameSound(f) ==
  /\ f.hook \in Eligible /\ f.via \in Via(f.hook)
  /\ f.place = "fetch" => f.taken < Len(Route(f.hook, f.via))
  /\ f.place = "trap" => Kind(f.hook) = "break"
  /\ f.divert => f.place \in {"body", "exit"} \/ (f.place = "store" /\ f.next = "done")
  /\ f.place = "exit" => f.divert
  /\ f.place = "store" => f.next # ""
  /\ (f.place = "fetch" /\ f.taken > 0 /\ f.first = "new" /\ Kind(f.hook) = "classic"
      /\ loader \notin Disarming) => Tail234(f.hook)

FramesInv == \A t \in Tasks : \A d \in DOMAIN stack[t] : FrameSound(stack[t][d])

(***************************************************************************)
(* The loader and wl.                                                      *)
(***************************************************************************)
There == target \in {"live", "going"}
AllOld == \A x \in DOMAIN text : text[x] = "old"

RefInv ==
  /\ ref.held => ref.mod
  /\ ~late => /\ loader \in {"arming", "armed"} => ref.held /\ target = "live"
              /\ loader = "disarming" /\ work # <<>> => ref.held /\ target = "live"
  /\ ~There => \A t \in Tasks : stack[t] = <<>>
  /\ loader \in {"synced", "unloaded"} => ~ref.held

NotifierInv ==
  /\ loader \in {"planned", "arming", "armed"} /\ (\E i \in Eligible : Kind(i) = "break")
       => "die" \in notifiers
  /\ loader \in {"restored", "synced", "unloaded"} => notifiers = {}
  /\ loader = "disarming" => "module" \notin notifiers
  /\ symbols /\ loader \notin {"planned", "arming"} => Eligible = {} \/ ~build.flush

ToDo(i, w) == \E k \in DOMAIN work : work[k].hook = i /\ work[k].word = w

(* The order of the writes of a detour that displaces four words.          *)
HeadLast ==
  \A i \in Eligible : Kind(i) = "classic" =>
    /\ text[<<i, 1>>] = "new" => Tail234(i)
    /\ \A k \in DOMAIN work : work[k].hook = i /\ work[k].word = 1 =>
         \A w \in 2..4 : \/ text[<<i, w>>] = "new"
                         \/ \E j \in 1..(k - 1) : work[j].hook = i /\ work[j].word = w

WorkInv ==
  /\ loader \notin {"arming", "disarming"} => work = <<>>
  /\ loader \in {"absent", "refused", "planned", "dry"} => AllOld /\ armed = {}
  /\ loader = "arming" =>
       /\ \A k \in DOMAIN work : work[k].to = "new" /\ work[k].hook \in Eligible
                                 /\ work[k].word \in DetourWords(work[k].hook) \union {0}
       /\ There => \A i \in Eligible : i \in armed \/ ToDo(i, 0)
       /\ There => HeadLast
  /\ loader = "armed" /\ There => Eligible \subseteq armed /\ HeadLast
  /\ loader \in {"arming", "armed"} =>
       \A x \in Words : text[x] = "new" => x[1] \in Eligible /\ x[2] \in DetourWords(x[1])
  /\ loader = "disarming" =>
       /\ \A k \in DOMAIN work : work[k].to = "old"
       /\ There => /\ \A i \in armed : ToDo(i, 0)
                   /\ \A x \in Words : text[x] = "new" => ToDo(x[1], x[2])
  /\ loader \in {"restored", "synced", "unloaded"} /\ There => AllOld /\ armed = {}

(* Whoever is in the stubs once they have been waited for.                 *)
StubsInv ==
  loader \in {"synced", "unloaded"} /\ ~build.preempt => \A f \in Frames : ~Inside(f)

(***************************************************************************)
(* The returns that are diverted.                                          *)
(***************************************************************************)
Diverted(t, d) == stack[t][d].divert /\ stack[t][d].place \in {"body", "exit"}

PoolInv ==
  /\ \A e \in pool : /\ e.task \in Tasks /\ e.home \in DOMAIN stack[e.task]
                     /\ Diverted(e.task, e.home)
                     /\ e.order \in Nat /\ e.order <= order
  /\ \A t \in Tasks : \A d \in DOMAIN stack[t] :
       Diverted(t, d) => \E e \in pool : e.task = t /\ e.home = d
  /\ \A e, o \in pool : e.task = o.task =>
       /\ e.home < o.home => e.order < o.order
       /\ e.home = o.home => e = o

TraceInv ==
  /\ TraceType /\ FramesInv /\ RefInv /\ NotifierInv /\ WorkInv /\ StubsInv /\ PoolInv
  /\ DetourSound /\ ReturnsHome /\ StrayOnlyWhenLate

(***************************************************************************)
(* Induction: a property of the natural numbers that fails somewhere has a *)
(* least place where it does.                                              *)
(***************************************************************************)
LEMMA Least ==
  ASSUME NEW T \in SUBSET Nat, T # {}
  PROVE  \E x \in T : \A y \in T : x <= y
<1>1. PICK x \in T : \A y \in T : ~(<<y, x>> \in OpToRel(<, Nat))
  BY NatLessThanWellFounded, WFMin
<1>2. \A y \in T : ~(y < x)
  BY <1>1, Zenon DEF OpToRel
<1> QED
  BY <1>2

LEMMA Joined ==
  ASSUME NEW S, NEW u \in Seq(S), NEW v \in Seq(S)
  PROVE  /\ u \o v \in Seq(S) /\ DOMAIN (u \o v) = 1..(Len(u) + Len(v))
         /\ \A k \in 1..Len(u) : (u \o v)[k] = u[k]
         /\ \A k \in 1..Len(v) : (u \o v)[Len(u) + k] = v[k]
OBVIOUS

(***************************************************************************)
(* FlattenSeq, by what it makes of each of the sequences before it.        *)
(***************************************************************************)
LEMMA FlattenDefined ==
  ASSUME NEW ss, NEW n \in Nat
  PROVE  \E f : f = [i \in 1..n |-> IF i = 1 THEN ss[i] ELSE f[i - 1] \o ss[i]]
<1> DEFINE Def(f, k) == f = [i \in 1..k |-> IF i = 1 THEN ss[i] ELSE f[i - 1] \o ss[i]]
           Bad == {k \in Nat : ~ \E f : Def(f, k)}
<1> SUFFICES ASSUME Bad # {}
             PROVE  FALSE
  OBVIOUS
<1>1. PICK k \in Bad : \A j \in Bad : k <= j
  BY Least
<1>2. k # 0
  <2>1. Def(<<>>, 0)
    OBVIOUS
  <2> QED
    BY <2>1
<1>3. PICK f : Def(f, k - 1)
  <2>1. k \in Nat /\ k - 1 \in Nat /\ ~(k <= k - 1)
    BY <1>2
  <2>2. k - 1 \notin Bad
    <3> HIDE DEF Bad
    <3> QED
      BY <1>1, <2>1
  <2> QED
    BY <2>1, <2>2
<1> DEFINE g == [i \in 1..k |-> IF i = k THEN (IF k = 1 THEN ss[k] ELSE f[k - 1] \o ss[k])
                                ELSE f[i]]
<1>4. ASSUME NEW i \in 1..k
      PROVE  g[i] = IF i = 1 THEN ss[i] ELSE g[i - 1] \o ss[i]
  <2>1. CASE i = k
    BY <1>2, <2>1
  <2>2. CASE i # k
    <3>1. g[i] = f[i] /\ (i # 1 => g[i - 1] = f[i - 1]) /\ i \in 1..(k - 1)
      BY <2>2
    <3>2. f[i] = IF i = 1 THEN ss[i] ELSE f[i - 1] \o ss[i]
      BY <1>3, <3>1
    <3> QED
      BY <3>1, <3>2
  <2> QED
    BY <2>1, <2>2
<1>5. Def(g, k)
  <2> DEFINE h == [i \in 1..k |-> IF i = 1 THEN ss[i] ELSE g[i - 1] \o ss[i]]
  <2>1. DOMAIN g = 1..k /\ DOMAIN h = 1..k
    OBVIOUS
  <2>2. g = h
    BY <1>4
  <2> QED
    BY <2>2
<1> QED
  BY <1>5

(* s is what the first n of ss make together: every element is one of them, *)
(* after those before it in its own sequence, and every one is there.       *)
MadeOf(s, ss, n) ==
  /\ \A k \in DOMAIN s : \E i \in 1..n : \E j \in DOMAIN ss[i] :
       /\ s[k] = ss[i][j]
       /\ \A b \in 1..(j - 1) : \E a \in 1..(k - 1) : s[a] = ss[i][b]
  /\ \A i \in 1..n : \A j \in DOMAIN ss[i] : \E k \in DOMAIN s : s[k] = ss[i][j]

LEMMA MoreMade ==
  ASSUME NEW S, NEW ss, NEW n \in Nat, NEW s \in Seq(S), ss[n + 1] \in Seq(S), MadeOf(s, ss, n)
  PROVE  s \o ss[n + 1] \in Seq(S) /\ MadeOf(s \o ss[n + 1], ss, n + 1)
<1> DEFINE u == ss[n + 1]
           m == s \o u
<1>1. /\ Len(s) \in Nat /\ Len(u) \in Nat /\ DOMAIN s = 1..Len(s) /\ DOMAIN u = 1..Len(u)
      /\ m \in Seq(S) /\ DOMAIN m = 1..(Len(s) + Len(u))
      /\ \A k \in 1..Len(s) : m[k] = s[k]
      /\ \A k \in 1..Len(u) : m[Len(s) + k] = u[k]
  OBVIOUS
<1>2. u = ss[n + 1]
  OBVIOUS
<1> HIDE DEF m, u
<1>3. ASSUME NEW k \in DOMAIN m
      PROVE  \E i \in 1..(n + 1) : \E j \in DOMAIN ss[i] :
               /\ m[k] = ss[i][j]
               /\ \A b \in 1..(j - 1) : \E a \in 1..(k - 1) : m[a] = ss[i][b]
  <2>1. CASE k \in 1..Len(s)
    <3>1. PICK i \in 1..n : \E j \in DOMAIN ss[i] :
            /\ s[k] = ss[i][j]
            /\ \A b \in 1..(j - 1) : \E a \in 1..(k - 1) : s[a] = ss[i][b]
      BY <1>1, <2>1 DEF MadeOf
    <3>2. PICK j \in DOMAIN ss[i] :
            /\ s[k] = ss[i][j]
            /\ \A b \in 1..(j - 1) : \E a \in 1..(k - 1) : s[a] = ss[i][b]
      BY <3>1
    <3>3. \A b \in 1..(j - 1) : \E a \in 1..(k - 1) : m[a] = ss[i][b]
      <4> SUFFICES ASSUME NEW b \in 1..(j - 1)
                   PROVE  \E a \in 1..(k - 1) : m[a] = ss[i][b]
        OBVIOUS
      <4>1. PICK a \in 1..(k - 1) : s[a] = ss[i][b]
        BY <3>2
      <4>2. a \in 1..Len(s)
        BY <1>1, <2>1
      <4> QED
        BY <1>1, <4>1, <4>2
    <3>4. m[k] = ss[i][j] /\ i \in 1..(n + 1)
      BY <1>1, <2>1, <3>2
    <3> QED
      BY <3>3, <3>4
  <2>2. CASE k \notin 1..Len(s)
    <3>1. k - Len(s) \in DOMAIN ss[n + 1] /\ m[k] = ss[n + 1][k - Len(s)]
      <4>1. k - Len(s) \in 1..Len(u) /\ k = Len(s) + (k - Len(s))
        BY <1>1, <2>2
      <4> QED
        BY <1>1, <1>2, <4>1
    <3>2. ASSUME NEW b \in 1..((k - Len(s)) - 1)
          PROVE  \E a \in 1..(k - 1) : m[a] = ss[n + 1][b]
      <4>1. Len(s) + b \in 1..(k - 1) /\ b \in 1..Len(u)
        BY <1>1, <2>2
      <4> QED
        BY <1>1, <1>2, <4>1
    <3>3. n + 1 \in 1..(n + 1)
      OBVIOUS
    <3> QED
      BY <3>1, <3>2, <3>3
  <2> QED
    BY <2>1, <2>2
<1>4. ASSUME NEW i \in 1..(n + 1), NEW j \in DOMAIN ss[i]
      PROVE  \E k \in DOMAIN m : m[k] = ss[i][j]
  <2>1. CASE i \in 1..n
    <3>1. PICK k \in DOMAIN s : s[k] = ss[i][j]
      BY <2>1 DEF MadeOf
    <3> QED
      BY <1>1, <3>1
  <2>2. CASE i = n + 1
    <3>1. j \in 1..Len(u) /\ Len(s) + j \in DOMAIN m /\ m[Len(s) + j] = ss[i][j]
      BY <1>1, <1>2, <2>2
    <3> QED
      BY <3>1
  <2> QED
    BY <2>1, <2>2
<1>5. MadeOf(m, ss, n + 1)
  BY <1>3, <1>4 DEF MadeOf
<1> QED
  BY <1>1, <1>2, <1>5 DEF m

(* FlattenSeq makes of a sequence of sequences what they make together.     *)
LEMMA Flattened ==
  ASSUME NEW S, NEW ss \in Seq(Seq(S))
  PROVE  FlattenSeq(ss) \in Seq(S) /\ MadeOf(FlattenSeq(ss), ss, Len(ss))
<1>1. CASE Len(ss) = 0
  <2>1. ss = <<>> /\ FlattenSeq(ss) = ss /\ DOMAIN ss = {} /\ 1..Len(ss) = {}
    BY <1>1 DEF FlattenSeq
  <2>2. <<>> \in Seq(S) /\ DOMAIN <<>> = {}
    OBVIOUS
  <2>3. FlattenSeq(ss) = <<>> /\ 1..Len(ss) = {}
    BY <2>1
  <2>4. MadeOf(<<>>, ss, Len(ss))
    BY <2>2, <2>3 DEF MadeOf
  <2> QED
    BY <2>2, <2>3, <2>4
<1>2. CASE Len(ss) # 0
  <2> DEFINE f == CHOOSE g : g = [i \in 1..Len(ss) |-> IF i = 1 THEN ss[i]
                                                      ELSE g[i - 1] \o ss[i]]
             Right(n) == f[n] \in Seq(S) /\ MadeOf(f[n], ss, n)
             Bad == {n \in Nat : n \in 1..Len(ss) /\ ~Right(n)}
  <2>1. FlattenSeq(ss) = f[Len(ss)]
    BY <1>2 DEF FlattenSeq
  <2>2. f = [i \in 1..Len(ss) |-> IF i = 1 THEN ss[i] ELSE f[i - 1] \o ss[i]]
    <3>1. Len(ss) \in Nat
      OBVIOUS
    <3> QED
      BY <3>1, FlattenDefined
  <2> HIDE DEF f
  <2>3. \A i \in 1..Len(ss) : f[i] = (IF i = 1 THEN ss[i] ELSE f[i - 1] \o ss[i])
    BY <2>2
  <2>4. ASSUME Bad # {}
        PROVE  FALSE
    <3>1. PICK n \in Bad : \A m \in Bad : n <= m
      BY <2>4, Least
    <3>2. n \in 1..Len(ss) /\ ~Right(n)
      OBVIOUS
    <3>3. CASE n = 1
      <4>1. f[1] = ss[1] /\ ss[1] \in Seq(S)
        BY <2>3, <3>2, <3>3
      <4>2. MadeOf(ss[1], ss, 1)
        <5>1. \A k \in DOMAIN ss[1] : DOMAIN ss[1] = 1..Len(ss[1]) /\ k \in 1..Len(ss[1])
          BY <4>1
        <5>2. ASSUME NEW k \in DOMAIN ss[1]
              PROVE  \E i \in 1..1 : \E j \in DOMAIN ss[i] :
                       /\ ss[1][k] = ss[i][j]
                       /\ \A b \in 1..(j - 1) : \E a \in 1..(k - 1) : ss[1][a] = ss[i][b]
          OBVIOUS
        <5>3. \A i \in 1..1 : i = 1
          OBVIOUS
        <5> QED
          BY <5>2, <5>3 DEF MadeOf
      <4> QED
        BY <3>2, <3>3, <4>1, <4>2
    <3>4. CASE n # 1
      <4>1. n - 1 \in Nat /\ n - 1 \in 1..Len(ss) /\ n - 1 \notin Bad /\ (n - 1) + 1 = n
        BY <3>1, <3>2, <3>4
      <4>2. Right(n - 1)
        BY <4>1
      <4>3. f[n] = f[n - 1] \o ss[n]
        BY <2>3, <3>2, <3>4
      <4>4. ss[n] \in Seq(S)
        <5> HIDE DEF Right, Bad
        <5> QED
          BY <3>2
      <4>5. Right(n)
        BY <4>1, <4>2, <4>3, <4>4, MoreMade
      <4> QED
        BY <3>2, <4>5
    <3> QED
      BY <3>3, <3>4
  <2>5. Len(ss) \in 1..Len(ss) /\ Len(ss) \in Nat
    BY <1>2
  <2>6. Right(Len(ss))
    BY <2>4, <2>5
  <2> QED
    BY <2>1, <2>6
<1> QED
  BY <1>1, <1>2

(***************************************************************************)
(* The plan.                                                               *)
(***************************************************************************)
LEMMA HookTyped ==
  ASSUME build \in Builds, NEW i \in Hooks
  PROVE  Hook(i) \in HookRecords
<1>1. build.hooks \in Seq(HookRecords)
  BY BuildsAssumption
<1> QED
  BY <1>1 DEF Hook, Hooks

(* Sift makes a sequence of pairs of one: after n looks it is n short of its *)
(* end.                                                                     *)
Look(u, i) ==
  IF \E k \in DOMAIN u \ {i} : u[k].lo = u[i].lo
    THEN [kept |-> Front([u EXCEPT ![i] = Last(u)]), at |-> i]
    ELSE [kept |-> u, at |-> i + 1]

LEMMA SiftDefined ==
  ASSUME NEW s, NEW n \in Nat
  PROVE  \E f : f = [m \in 0..n |-> IF m = 0 THEN [kept |-> s, at |-> 1]
                                    ELSE Look(f[m - 1].kept, f[m - 1].at)]
<1> DEFINE Def(f, k) == f = [m \in 0..k |-> IF m = 0 THEN [kept |-> s, at |-> 1]
                                            ELSE Look(f[m - 1].kept, f[m - 1].at)]
           Bad == {k \in Nat : ~ \E f : Def(f, k)}
<1> SUFFICES ASSUME Bad # {}
             PROVE  FALSE
  OBVIOUS
<1>1. PICK k \in Bad : \A j \in Bad : k <= j
  BY Least
<1>2. k # 0
  <2> DEFINE g == [m \in 0..0 |-> [kept |-> s, at |-> 1]]
  <2>1. \A m \in 0..0 : m = 0
    OBVIOUS
  <2>2. Def(g, 0)
    BY <2>1
  <2> QED
    BY <2>2
<1>3. PICK f : Def(f, k - 1)
  <2>1. k \in Nat /\ k - 1 \in Nat /\ ~(k <= k - 1)
    BY <1>2
  <2>2. k - 1 \notin Bad
    <3> HIDE DEF Bad
    <3> QED
      BY <1>1, <2>1
  <2> QED
    BY <2>1, <2>2
<1> DEFINE g == [m \in 0..k |-> IF m = k THEN Look(f[k - 1].kept, f[k - 1].at) ELSE f[m]]
<1>4. ASSUME NEW m \in 0..k
      PROVE  g[m] = IF m = 0 THEN [kept |-> s, at |-> 1]
                    ELSE Look(g[m - 1].kept, g[m - 1].at)
  <2>1. CASE m = k
    BY <1>2, <2>1
  <2>2. CASE m # k
    <3>1. g[m] = f[m] /\ (m # 0 => g[m - 1] = f[m - 1]) /\ m \in 0..(k - 1)
      BY <2>2
    <3>2. f[m] = IF m = 0 THEN [kept |-> s, at |-> 1] ELSE Look(f[m - 1].kept, f[m - 1].at)
      BY <1>3, <3>1
    <3> QED
      BY <3>1, <3>2
  <2> QED
    BY <2>1, <2>2
<1>5. Def(g, k)
  <2> DEFINE h == [m \in 0..k |-> IF m = 0 THEN [kept |-> s, at |-> 1]
                                  ELSE Look(g[m - 1].kept, g[m - 1].at)]
  <2>1. DOMAIN g = 0..k /\ DOMAIN h = 0..k
    OBVIOUS
  <2>2. g = h
    BY <1>4
  <2> QED
    BY <2>2
<1> QED
  BY <1>5


LEMMA SiftTyped ==
  ASSUME NEW s \in Seq(Pairs)
  PROVE  Sift(s) \in Seq(Pairs)
<1> DEFINE n == Len(s)
           f == CHOOSE g : g = [m \in 0..n |-> IF m = 0 THEN [kept |-> s, at |-> 1]
                                               ELSE Look(g[m - 1].kept, g[m - 1].at)]
           Right(m) == /\ f[m].kept \in Seq(Pairs) /\ f[m].at \in Nat \ {0}
                       /\ f[m].at + n = Len(f[m].kept) + 1 + m
           Bad == {m \in Nat : m \in 0..n /\ ~Right(m)}
<1>1. n \in Nat
  OBVIOUS
<1>2. Sift(s) = f[n].kept
  BY DEF Sift, Look
<1>3. f = [m \in 0..n |-> IF m = 0 THEN [kept |-> s, at |-> 1]
                          ELSE Look(f[m - 1].kept, f[m - 1].at)]
  BY <1>1, SiftDefined
<1> HIDE DEF f
<1>4. f[0] = [kept |-> s, at |-> 1] /\ \A m \in 1..n : f[m] = Look(f[m - 1].kept, f[m - 1].at)
  BY <1>1, <1>3
<1>5. Right(0)
  BY <1>1, <1>4
<1>6. ASSUME NEW m \in 1..n, Right(m - 1)
      PROVE  Right(m)
  <2> DEFINE u == f[m - 1].kept
             i == f[m - 1].at
  <2>1. /\ u \in Seq(Pairs) /\ i \in Nat \ {0} /\ i + n = Len(u) + m /\ Len(u) \in Nat
        /\ f[m] = Look(u, i)
    BY <1>4, <1>6
  <2> HIDE DEF u, i
  <2>2. i \in 1..Len(u) /\ Len(u) \in 1..Len(u)
    BY <1>1, <2>1
  <2>3. CASE \E k \in DOMAIN u \ {i} : u[k].lo = u[i].lo
    <3> DEFINE v == [u EXCEPT ![i] = u[Len(u)]]
    <3>1. v \in Seq(Pairs) /\ Len(v) = Len(u)
      BY <2>1, <2>2
    <3>2. f[m] = [kept |-> SubSeq(v, 1, Len(v) - 1), at |-> i]
      BY <2>1, <2>3 DEF Look, Front, Last
    <3> HIDE DEF v
    <3>3. SubSeq(v, 1, Len(v) - 1) \in Seq(Pairs) /\ Len(SubSeq(v, 1, Len(v) - 1)) = Len(v) - 1
      BY <2>1, <2>2, <3>1
    <3> QED
      BY <1>1, <2>1, <3>1, <3>2, <3>3
  <2>4. CASE ~ \E k \in DOMAIN u \ {i} : u[k].lo = u[i].lo
    <3>1. f[m] = [kept |-> u, at |-> i + 1]
      BY <2>1, <2>4 DEF Look
    <3> QED
      BY <1>1, <2>1, <3>1
  <2> QED
    BY <2>3, <2>4
<1>7. ASSUME Bad # {}
      PROVE  FALSE
  <2>1. PICK m \in Bad : \A l \in Bad : m <= l
    BY <1>7, Least
  <2>2. m \in 0..n /\ ~Right(m)
    OBVIOUS
  <2> HIDE DEF Right
  <2>3. m # 0 /\ m \in 1..n
    BY <1>1, <1>5, <2>2
  <2>4. m - 1 \in Nat /\ m - 1 \in 0..n /\ ~(m <= m - 1)
    BY <1>1, <2>3
  <2>5. Right(m - 1)
    BY <2>1, <2>4
  <2> QED
    BY <1>6, <2>2, <2>3, <2>5
<1>8. Right(n)
  <2> HIDE DEF Right
  <2> QED
    BY <1>1, <1>7
<1> QED
  BY <1>2, <1>8

LEMMA SiteWordsTyped ==
  ASSUME build \in Builds, NEW i \in Hooks
  PROVE  SiteWords(i) \in Seq(Nat)
<1> DEFINE h == Hook(i)
           m == Min({MaxSites, Len(h.sites)})
           s == FindSites(h)
           ss == [k \in DOMAIN s |-> <<s[k].hi, s[k].lo>>]
<1>1. h.sites \in Seq(Pairs)
  BY HookTyped DEF HookRecords
<1>2. m \in 0..Len(h.sites)
  <2>1. \E x \in {MaxSites, Len(h.sites)} : \A y \in {MaxSites, Len(h.sites)} : x <= y
    BY <1>1, BoundsAssumption
  <2>2. m \in {MaxSites, Len(h.sites)} /\ \A y \in {MaxSites, Len(h.sites)} : m <= y
    BY <2>1 DEF Min
  <2> QED
    BY <1>1, <2>2, BoundsAssumption
<1> HIDE DEF h
<1>3. SubSeq(h.sites, 1, m) \in Seq(Pairs)
  <2> HIDE DEF m
  <2>1. \A k \in 1..m : h.sites[k] \in Pairs
    BY <1>1, <1>2
  <2> QED
    BY <1>1, <1>2, <2>1
<1>4. s \in Seq(Pairs)
  BY <1>3, SiftTyped DEF FindSites
<1> HIDE DEF s
<1>5. ss \in Seq(Seq(Nat))
  <2>1. ASSUME NEW k \in DOMAIN s
        PROVE  <<s[k].hi, s[k].lo>> \in Seq(Nat)
    <3>1. s[k] \in Pairs
      BY <1>4
    <3> QED
      BY <3>1 DEF Pairs
  <2>2. Len(s) \in Nat /\ DOMAIN s = 1..Len(s)
    BY <1>4
  <2>3. ss \in [1..Len(s) -> Seq(Nat)]
    BY <2>1, <2>2
  <2> HIDE DEF ss
  <2> QED
    BY <2>2, <2>3
<1>6. SiteWords(i) = FlattenSeq(ss)
  BY DEF SiteWords, s, h
<1> QED
  BY <1>5, <1>6, Flattened

(* The writes that arm a hook, and those that disarm it.                    *)
LEMMA KindSplits ==
  ASSUME NEW i
  PROVE  /\ Kind(i) \in {"skip", "sites", "break", "short", "classic"}
         /\ Kind(i) = "break" => build.version = "3.4"
         /\ build.version = "3.4" \/ build.version # "3.4"
         /\ Kind(i) # "sites" => DetourWords(i) = IF Kind(i) \in {"break", "short"} THEN {1} ELSE 1..4
BY DEF Kind, Plan34, Plan26, DetourWords

LEMMA PatchTyped ==
  ASSUME build \in Builds, NEW i \in Hooks
  PROVE  /\ PatchSites(i) \in Seq(Writes) /\ RestoreSites(i) \in Seq(Writes)
         /\ Len(PatchSites(i)) = Len(SiteWords(i)) /\ Len(RestoreSites(i)) = Len(SiteWords(i))
         /\ \A k \in 1..Len(SiteWords(i)) :
              PatchSites(i)[k] = Word(i, SiteWords(i)[k], "new")
              /\ RestoreSites(i)[k] = Word(i, SiteWords(i)[k], "old")
<1> DEFINE s == SiteWords(i)
<1>1. s \in Seq(Nat) /\ Len(s) \in Nat /\ DOMAIN s = 1..Len(s)
  BY SiteWordsTyped
<1> HIDE DEF s
<1>2. \A k \in 1..Len(s) : Word(i, s[k], "new") \in Writes /\ Word(i, s[k], "old") \in Writes
  BY <1>1 DEF Word, Writes
<1>3. /\ [k \in DOMAIN s |-> Word(i, s[k], "new")] \in [1..Len(s) -> Writes]
      /\ [k \in DOMAIN s |-> Word(i, s[k], "old")] \in [1..Len(s) -> Writes]
  BY <1>1, <1>2
<1>4. PatchSites(i) \in [1..Len(s) -> Writes] /\ RestoreSites(i) \in [1..Len(s) -> Writes]
  BY <1>3 DEF PatchSites, RestoreSites, s
<1>5. \A k \in 1..Len(s) : PatchSites(i)[k] = Word(i, s[k], "new")
                           /\ RestoreSites(i)[k] = Word(i, s[k], "old")
  BY <1>1 DEF PatchSites, RestoreSites, s
<1>6. \A f \in [1..Len(s) -> Writes] : f \in Seq(Writes) /\ Len(f) = Len(s)
  BY <1>1
<1>7. /\ PatchSites(i) \in Seq(Writes) /\ RestoreSites(i) \in Seq(Writes)
      /\ Len(PatchSites(i)) = Len(s) /\ Len(RestoreSites(i)) = Len(s)
  BY <1>4, <1>6, Zenon
<1> QED
  BY <1>5, <1>7, Zenon DEF s

(* A detour's own writes w, without the mark.                               *)
Detours(i, ws, to) ==
  /\ ws \in Seq(Writes)
  /\ \A k \in 1..Len(ws) : ws[k].hook = i /\ ws[k].to = to /\ ws[k].word \in DetourWords(i)
  /\ \A w \in DetourWords(i) : \E k \in 1..Len(ws) : ws[k].word = w

Arming(i) == IF build.version = "3.4" THEN ArmHook34(i) ELSE ArmHook26(i)
Disarms(i) == IF build.version = "3.4" THEN DisarmHook34(i) ELSE DisarmHook26(i)

LEMMA DetourWrites ==
  ASSUME build \in Builds, NEW i \in Hooks, Kind(i) # "skip"
  PROVE  Detours(i, Arming(i), "new") /\ Detours(i, Disarms(i), "old")
<1> DEFINE W(n, to) == Word(i, n, to)
<1>1. \A n \in 1..4 : \A to \in {"old", "new"} :
        W(n, to) \in Writes /\ W(n, to).hook = i /\ W(n, to).to = to /\ W(n, to).word = n
  BY DEF Writes, Word
<1>2. CASE Kind(i) = "sites"
  <2>1. Arming(i) = PatchSites(i) /\ Disarms(i) = RestoreSites(i)
    BY <1>2 DEF Arming, Disarms, ArmHook34, ArmHook26, DisarmHook34, DisarmHook26
  <2>2. DetourWords(i) = {SiteWords(i)[k] : k \in 1..Len(SiteWords(i))}
    <3>1. DOMAIN SiteWords(i) = 1..Len(SiteWords(i))
      BY SiteWordsTyped
    <3> QED
      BY <1>2, <3>1 DEF DetourWords
  <2>3. /\ PatchSites(i) \in Seq(Writes) /\ RestoreSites(i) \in Seq(Writes)
        /\ Len(PatchSites(i)) = Len(SiteWords(i)) /\ Len(RestoreSites(i)) = Len(SiteWords(i))
        /\ \A k \in 1..Len(SiteWords(i)) :
              PatchSites(i)[k] = Word(i, SiteWords(i)[k], "new")
              /\ RestoreSites(i)[k] = Word(i, SiteWords(i)[k], "old")
    BY PatchTyped
  <2> DEFINE n == Len(SiteWords(i))
             w(k) == SiteWords(i)[k]
  <2>4. ASSUME NEW ws \in Seq(Writes), Len(ws) = n, NEW to,
               \A k \in 1..n : ws[k] = Word(i, w(k), to)
        PROVE  Detours(i, ws, to)
    <3>1. DetourWords(i) = {w(k) : k \in 1..n}
      BY <2>2
    <3> HIDE DEF n, w
    <3>2. \A k \in 1..n : ws[k].hook = i /\ ws[k].to = to /\ ws[k].word = w(k)
      BY <2>4 DEF Word
    <3>3. \A v \in DetourWords(i) : \E k \in 1..n : ws[k].word = v
      BY <3>1, <3>2
    <3>4. \A k \in 1..n : w(k) \in DetourWords(i)
      BY <3>1
    <3> QED
      BY <2>4, <3>2, <3>3, <3>4 DEF Detours
  <2>5. Detours(i, PatchSites(i), "new") /\ Detours(i, RestoreSites(i), "old")
    BY <2>3, <2>4
  <2> QED
    BY <2>1, <2>5
<1>3. CASE Kind(i) = "break"
  <2>1. Arming(i) = <<W(1, "new")>> /\ Disarms(i) = <<W(1, "old")>>
    BY <1>3, KindSplits DEF Arming, Disarms, ArmHook34, ArmHook26, DisarmHook34, DisarmHook26
  <2>2. DetourWords(i) = {1}
    BY <1>3 DEF DetourWords
  <2> HIDE DEF W
  <2> QED
    BY <1>1, <2>1, <2>2 DEF Detours
<1>4. CASE Kind(i) = "short"
  <2>1. Arming(i) = <<W(1, "new")>> /\ Disarms(i) = <<W(1, "old")>>
    BY <1>4 DEF Arming, Disarms, ArmHook34, ArmHook26, DisarmHook34, DisarmHook26, PatchEntry,
                RestoreEntry
  <2>2. DetourWords(i) = {1}
    BY <1>4 DEF DetourWords
  <2> HIDE DEF W
  <2> QED
    BY <1>1, <2>1, <2>2 DEF Detours
<1>5. CASE Kind(i) = "classic"
  <2>1. /\ Arming(i) = <<W(4, "new"), W(3, "new"), W(2, "new"), W(1, "new")>>
        /\ Disarms(i) = <<W(2, "old"), W(3, "old"), W(4, "old"), W(1, "old")>>
    BY <1>5 DEF Arming, Disarms, ArmHook34, ArmHook26, DisarmHook34, DisarmHook26, PatchEntry,
                RestoreEntry
  <2>2. DetourWords(i) = 1..4
    BY <1>5 DEF DetourWords
  <2> HIDE DEF W
  <2>3. ASSUME NEW a \in Writes, NEW b \in Writes, NEW c \in Writes, NEW d \in Writes,
               NEW to, \A x \in {a, b, c, d} : x.hook = i /\ x.to = to /\ x.word \in 1..4,
               \A w \in 1..4 : \E x \in {a, b, c, d} : x.word = w
        PROVE  Detours(i, <<a, b, c, d>>, to)
    <3> DEFINE ws == <<a, b, c, d>>
    <3>1. /\ ws \in Seq(Writes) /\ Len(ws) = 4 /\ ws[1] = a /\ ws[2] = b /\ ws[3] = c /\ ws[4] = d
          /\ \A k \in 1..4 : ws[k] \in {a, b, c, d}
      OBVIOUS
    <3>2. \A x \in {a, b, c, d} : \E k \in 1..4 : ws[k] = x
      BY <3>1
    <3> HIDE DEF ws
    <3>3. Detours(i, ws, to)
      BY <2>2, <2>3, <3>1, <3>2 DEF Detours
    <3> QED
      BY <3>3 DEF ws
  <2> QED
    BY <1>1, <2>1, <2>3
<1> QED
  BY <1>2, <1>3, <1>4, <1>5, KindSplits

(* With the mark after them; a classic detour is armed head last.           *)
Hooked(i, ws, to) ==
  /\ ws \in Seq(Writes)
  /\ \A k \in DOMAIN ws : ws[k].hook = i /\ ws[k].to = to /\ ws[k].word \in DetourWords(i) \union {0}
  /\ \A w \in DetourWords(i) \union {0} : \E k \in DOMAIN ws : ws[k].word = w

LEMMA WithMark ==
  ASSUME NEW i \in Hooks, NEW to \in {"old", "new"}, NEW ws, Detours(i, ws, to)
  PROVE  Hooked(i, ws \o <<Mark(i, to)>>, to)
<1> DEFINE m == Mark(i, to)
           all == ws \o <<m>>
<1>1. m \in Writes /\ m.hook = i /\ m.to = to /\ m.word = 0
  BY DEF Mark, Writes
<1>2. ws \in Seq(Writes) /\ Len(ws) \in Nat
  BY DEF Detours
<1> HIDE DEF m
<1>3. /\ all \in Seq(Writes) /\ DOMAIN all = 1..(Len(ws) + 1)
      /\ \A k \in 1..Len(ws) : all[k] = ws[k]
      /\ all[Len(ws) + 1] = m
  BY <1>1, <1>2
<1> HIDE DEF all
<1>4. ASSUME NEW k \in DOMAIN all
      PROVE  all[k].hook = i /\ all[k].to = to /\ all[k].word \in DetourWords(i) \union {0}
  <2>1. CASE k \in 1..Len(ws)
    BY <1>3, <2>1 DEF Detours
  <2>2. CASE k = Len(ws) + 1
    BY <1>1, <1>3, <2>2
  <2> QED
    BY <1>2, <1>3, <2>1, <2>2
<1>5. ASSUME NEW w \in DetourWords(i) \union {0}
      PROVE  \E k \in DOMAIN all : all[k].word = w
  <2>1. CASE w \in DetourWords(i)
    <3>1. PICK k \in 1..Len(ws) : ws[k].word = w
      BY <2>1 DEF Detours
    <3>2. k \in DOMAIN all
      BY <1>2, <1>3
    <3> QED
      BY <1>3, <3>1, <3>2
  <2>2. CASE w = 0
    <3>1. Len(ws) + 1 \in DOMAIN all
      BY <1>2, <1>3
    <3> QED
      BY <1>1, <1>3, <2>2, <3>1
  <2> QED
    BY <2>1, <2>2
<1>6. Hooked(i, all, to)
  BY <1>3, <1>4, <1>5 DEF Hooked
<1> QED
  BY <1>6 DEF all, m

LEMMA HookWrites ==
  ASSUME build \in Builds, NEW i \in Eligible
  PROVE  /\ Hooked(i, ArmHook(i), "new") /\ Hooked(i, DisarmHook(i), "old")
         /\ Kind(i) = "classic" => \A k \in DOMAIN ArmHook(i) : ArmHook(i)[k].word = 1 =>
              \A w \in 2..4 : \E j \in 1..(k - 1) : ArmHook(i)[j].word = w
<1>1. i \in Hooks /\ Kind(i) # "skip"
  BY DEF Eligible
<1>2. Hooked(i, ArmHook(i), "new") /\ Hooked(i, DisarmHook(i), "old")
  <2>1. ArmHook(i) = Arming(i) \o <<Mark(i, "new")>>
    BY DEF ArmHook, Arming
  <2>2. DisarmHook(i) = Disarms(i) \o <<Mark(i, "old")>>
    BY DEF DisarmHook, Disarms
  <2> QED
    BY <1>1, <2>1, <2>2, DetourWrites, WithMark
<1>3. ASSUME Kind(i) = "classic"
      PROVE  \A k \in DOMAIN ArmHook(i) : ArmHook(i)[k].word = 1 =>
               \A w \in 2..4 : \E j \in 1..(k - 1) : ArmHook(i)[j].word = w
  <2> DEFINE W(n) == Word(i, n, "new")
             m == Mark(i, "new")
  <2>1. m \in Writes /\ m.word = 0 /\ \A n \in 1..4 : W(n) \in Writes /\ W(n).word = n
    BY <1>1 DEF Word, Mark, Writes
  <2>2. ArmHook(i) = <<W(4), W(3), W(2), W(1)>> \o <<m>>
    BY <1>3 DEF ArmHook, ArmHook34, ArmHook26, PatchEntry
  <2> HIDE DEF W, m
  <2> DEFINE u == <<W(4), W(3), W(2), W(1)>>
  <2>3. u \in Seq(Writes) /\ Len(u) = 4 /\ u[1].word = 4 /\ u[2].word = 3 /\ u[3].word = 2
    BY <2>1
  <2>4. ArmHook(i) = u \o <<m>>
    BY <2>2
  <2> DEFINE v == <<m>>
  <2>5. v \in Seq(Writes) /\ Len(v) = 1 /\ v[1] = m
    BY <2>1
  <2> HIDE DEF u, v
  <2> DEFINE all == u \o v
  <2>6. /\ DOMAIN all = 1..(Len(u) + Len(v))
        /\ \A k \in 1..Len(u) : all[k] = u[k]
        /\ \A k \in 1..Len(v) : all[Len(u) + k] = v[k]
    <3>1. u \in Seq(Writes) /\ v \in Seq(Writes)
      BY <2>3, <2>5
    <3> QED
      BY <3>1, Joined
  <2> HIDE DEF all
  <2>7. DOMAIN ArmHook(i) = 1..5 /\ ArmHook(i)[1].word = 4 /\ ArmHook(i)[2].word = 3
        /\ ArmHook(i)[3].word = 2 /\ ArmHook(i)[5].word = 0
    BY <2>1, <2>3, <2>4, <2>5, <2>6 DEF v, all
  <2> QED
    BY <2>7
<1> QED
  BY <1>2, <1>3

(* All of them, hook after hook: what the sequence F of them all is.        *)
Together(F, ss, S, to) ==
  /\ F \in Seq(Writes)
  /\ \A k \in DOMAIN F :
       F[k].hook \in S /\ F[k].to = to /\ F[k].word \in DetourWords(F[k].hook) \union {0}
  /\ \A i \in S : \A w \in DetourWords(i) \union {0} :
       \E k \in DOMAIN F : F[k].hook = i /\ F[k].word = w
  /\ MadeOf(F, ss, Len(ss)) /\ Hooks = 1..Len(ss)

LEMMA AllTogether ==
  ASSUME build \in Builds, NEW S, S \subseteq Eligible, NEW ss, NEW to,
         ss \in [Hooks -> Seq(Writes)], \A i \in Hooks \ S : ss[i] = <<>>,
         \A i \in S : Hooked(i, ss[i], to)
  PROVE  Together(FlattenSeq(ss), ss, S, to)
<1>1. Hooks = 1..Len(build.hooks) /\ Len(build.hooks) \in Nat
  BY BuildsAssumption DEF Hooks
<1>2. /\ DOMAIN ss = Hooks
      /\ \A i \in Hooks \ S : ss[i] = <<>>
      /\ \A i \in S : i \in Hooks
  BY DEF Eligible
<1>3. \A i \in Hooks : ss[i] \in Seq(Writes)
  OBVIOUS
<1>4. ss \in Seq(Seq(Writes)) /\ Hooks = 1..Len(ss)
  <2>1. ss \in [1..Len(build.hooks) -> Seq(Writes)]
    BY <1>1
  <2> QED
    BY <1>1, <2>1
<1> DEFINE F == FlattenSeq(ss)
<1>5. F \in Seq(Writes) /\ MadeOf(F, ss, Len(ss))
  BY <1>4, Flattened
<1> HIDE DEF F
<1>6. ASSUME NEW k \in DOMAIN F
      PROVE  F[k].hook \in S /\ F[k].to = to /\ F[k].word \in DetourWords(F[k].hook) \union {0}
  <2>1. PICK i \in 1..Len(ss) : \E j \in DOMAIN ss[i] : F[k] = ss[i][j]
    BY <1>5 DEF MadeOf
  <2>2. PICK j \in DOMAIN ss[i] : F[k] = ss[i][j]
    BY <2>1
  <2>3. i \in S
    BY <1>2, <1>4, <2>2
  <2> QED
    BY <2>2, <2>3 DEF Hooked
<1>7. ASSUME NEW i \in S, NEW w \in DetourWords(i) \union {0}
      PROVE  \E k \in DOMAIN F : F[k].hook = i /\ F[k].word = w
  <2>1. PICK j \in DOMAIN ss[i] : ss[i][j].word = w /\ ss[i][j].hook = i
    BY DEF Hooked
  <2>2. i \in 1..Len(ss)
    BY <1>2, <1>4
  <2>3. PICK k \in DOMAIN F : F[k] = ss[i][j]
    BY <1>5, <2>2 DEF MadeOf
  <2> QED
    BY <2>1, <2>3
<1> QED
  BY <1>4, <1>5, <1>6, <1>7 DEF F, Together

LEMMA ArmWork ==
  ASSUME build \in Builds
  PROVE  /\ ArmAll \in Seq(Writes)
         /\ \A k \in DOMAIN ArmAll :
              /\ ArmAll[k].hook \in Eligible /\ ArmAll[k].to = "new"
              /\ ArmAll[k].word \in DetourWords(ArmAll[k].hook) \union {0}
         /\ \A i \in Eligible : \E k \in DOMAIN ArmAll :
              ArmAll[k].hook = i /\ ArmAll[k].word = 0
         /\ \A k \in DOMAIN ArmAll :
              Kind(ArmAll[k].hook) = "classic" /\ ArmAll[k].word = 1 =>
                \A w \in 2..4 : \E j \in 1..(k - 1) :
                  ArmAll[j].hook = ArmAll[k].hook /\ ArmAll[j].word = w
<1> DEFINE ss == [i \in Hooks |-> IF i \in Eligible THEN ArmHook(i) ELSE <<>>]
<1>1. FlattenSeq(ss) = ArmAll
  BY DEF ArmAll
<1>2. \A i \in Eligible : i \in Hooks /\ ss[i] = ArmHook(i)
  BY DEF Eligible
<1>3. \A i \in Hooks \ Eligible : ss[i] = <<>>
  OBVIOUS
<1>4. \A i \in Eligible : Hooked(i, ss[i], "new")
  BY <1>2, HookWrites
<1>5. ss \in [Hooks -> Seq(Writes)]
  <2>1. \A i \in Hooks : ss[i] \in Seq(Writes)
    <3>1. <<>> \in Seq(Writes) /\ \A i \in Eligible : ss[i] \in Seq(Writes)
      BY <1>4 DEF Hooked
    <3> HIDE DEF ss
    <3> QED
      BY <1>3, <3>1
  <2> QED
    BY <2>1
<1> HIDE DEF ss
<1>6. Together(ArmAll, ss, Eligible, "new")
  BY <1>1, <1>3, <1>4, <1>5, AllTogether
<1>7. ASSUME NEW k \in DOMAIN ArmAll, Kind(ArmAll[k].hook) = "classic", ArmAll[k].word = 1,
             NEW w \in 2..4
      PROVE  \E j \in 1..(k - 1) : ArmAll[j].hook = ArmAll[k].hook /\ ArmAll[j].word = w
  <2>1. PICK i \in 1..Len(ss) : \E j \in DOMAIN ss[i] :
          /\ ArmAll[k] = ss[i][j]
          /\ \A b \in 1..(j - 1) : \E a \in 1..(k - 1) : ArmAll[a] = ss[i][b]
    BY <1>6 DEF Together, MadeOf
  <2>2. PICK j \in DOMAIN ss[i] :
          /\ ArmAll[k] = ss[i][j]
          /\ \A b \in 1..(j - 1) : \E a \in 1..(k - 1) : ArmAll[a] = ss[i][b]
    BY <2>1
  <2>3. i \in Eligible
    BY <1>3, <1>6, <2>2 DEF Together
  <2>4. ss[i] = ArmHook(i) /\ \A b \in DOMAIN ss[i] : ss[i][b].hook = i
    BY <1>2, <1>4, <2>3 DEF Hooked
  <2>5. ArmAll[k].hook = i
    BY <2>2, <2>4
  <2>6. PICK b \in 1..(j - 1) : ss[i][b].word = w
    <3>1. j \in DOMAIN ArmHook(i) /\ ArmHook(i)[j].word = 1 /\ Kind(i) = "classic"
      BY <1>7, <2>2, <2>4, <2>5
    <3>2. \A v \in 2..4 : \E b \in 1..(j - 1) : ArmHook(i)[b].word = v
      BY <2>3, <3>1, HookWrites
    <3> QED
      BY <2>4, <3>2
  <2>7. b \in DOMAIN ss[i]
    <3>1. ss[i] \in Seq(Writes)
      BY <1>4, <2>3 DEF Hooked
    <3>2. DOMAIN ss[i] = 1..Len(ss[i]) /\ Len(ss[i]) \in Nat
      BY <3>1
    <3> QED
      BY <2>2, <3>2
  <2>8. PICK a \in 1..(k - 1) : ArmAll[a] = ss[i][b]
    BY <2>2
  <2> QED
    BY <2>4, <2>5, <2>6, <2>7, <2>8
<1>8. \A k \in DOMAIN ArmAll :
        /\ ArmAll[k].hook \in Eligible /\ ArmAll[k].to = "new"
        /\ ArmAll[k].word \in DetourWords(ArmAll[k].hook) \union {0}
  BY <1>6 DEF Together
<1>9. \A i \in Eligible : \E k \in DOMAIN ArmAll : ArmAll[k].hook = i /\ ArmAll[k].word = 0
  <2>1. \A i \in Eligible : 0 \in DetourWords(i) \union {0}
    OBVIOUS
  <2> QED
    BY <1>6, <2>1 DEF Together
<1> QED
  BY <1>6, <1>7, <1>8, <1>9 DEF Together

LEMMA DisarmWork ==
  ASSUME build \in Builds, armed \subseteq Eligible
  PROVE  /\ DisarmAll \in Seq(Writes)
         /\ \A k \in DOMAIN DisarmAll : DisarmAll[k].hook \in armed /\ DisarmAll[k].to = "old"
         /\ \A i \in armed : \A w \in DetourWords(i) \union {0} :
              \E k \in DOMAIN DisarmAll : DisarmAll[k].hook = i /\ DisarmAll[k].word = w
<1> DEFINE ss == [i \in Hooks |-> IF i \in armed THEN DisarmHook(i) ELSE <<>>]
<1>1. FlattenSeq(ss) = DisarmAll
  BY DEF DisarmAll
<1>2. \A i \in armed : i \in Hooks /\ i \in Eligible /\ ss[i] = DisarmHook(i)
  BY DEF Eligible
<1>3. \A i \in armed : Hooked(i, ss[i], "old")
  BY <1>2, HookWrites
<1>4. \A i \in Hooks \ armed : ss[i] = <<>>
  OBVIOUS
<1>5. ss \in [Hooks -> Seq(Writes)]
  <2>1. \A i \in Hooks : ss[i] \in Seq(Writes)
    <3>1. <<>> \in Seq(Writes) /\ \A i \in armed : ss[i] \in Seq(Writes)
      BY <1>3 DEF Hooked
    <3> HIDE DEF ss
    <3> QED
      BY <1>4, <3>1
  <2> QED
    BY <2>1
<1> HIDE DEF ss
<1>6. Together(DisarmAll, ss, armed, "old")
  BY <1>1, <1>3, <1>4, <1>5, AllTogether
<1> QED
  BY <1>6 DEF Together

(* A stub that is entered by a detour is one that can be.                   *)
LEMMA StubReached ==
  ASSUME NEW i \in Eligible, Kind(i) # "break"
  PROVE  ~StubFails(i)
<1>1. Kind(i) # "skip"
  BY DEF Eligible
<1>2. CASE Kind(i) = "sites"
  BY <1>2 DEF StubFails, Replayed
<1>3. CASE Kind(i) = "short"
  <2>1. ~Branchy(Hook(i)) /\ Hook(i).shortj /\ Hook(i).near
    BY <1>3 DEF Kind, Plan34, Plan26
  <2> QED
    BY <1>3, <2>1 DEF StubFails, Replayed, Branchy, Window
<1>4. CASE Kind(i) = "classic"
  <2>1. ~Branchy(Hook(i)) /\ ~Hook(i).shortj
    BY <1>4 DEF Kind, Plan34, Plan26
  <2> QED
    BY <1>4, <2>1 DEF StubFails, Replayed, Branchy, Window
<1> QED
  BY <1>1, <1>2, <1>3, <1>4, KindSplits

(* The words a caller fetches.                                              *)
LEMMA RouteKnown ==
  ASSUME build \in Builds, NEW i \in Eligible, NEW via \in Via(i)
  PROVE  /\ Len(Route(i, via)) \in Nat /\ Len(Route(i, via)) > 0
         /\ Kind(i) = "classic" => Len(Route(i, via)) = 4 /\ \A k \in 1..4 : Route(i, via)[k] = k
         /\ Kind(i) \in {"short", "break"} => Len(Route(i, via)) = 1
         /\ \A k \in 1..Len(Route(i, via)) : <<i, Route(i, via)[k]>> \in Words
         /\ via \in Nat /\ i \in Nat
<1>1. i \in Hooks /\ Kind(i) # "skip"
  BY DEF Eligible
<1>2. i \in Nat /\ \A w \in WordsOf(build, i) : <<i, w>> \in Words
  <2>1. i \in Nat
    BY <1>1, BuildsAssumption DEF Hooks
  <2> QED
    BY <1>1, <2>1 DEF Words
<1>3. \A w \in 1..4 : w \in WordsOf(build, i)
  BY DEF WordsOf
<1>4. CASE Kind(i) = "sites"
  <2>1. Hook(i).sites \in Seq(Pairs) /\ via \in DOMAIN Hook(i).sites
    BY <1>1, <1>4, HookTyped DEF HookRecords, Via
  <2> DEFINE p == Hook(i).sites[via]
  <2>2. p \in Pairs /\ via \in Nat
    BY <2>1
  <2>3. p.hi \in WordsOf(build, i) /\ p.lo \in WordsOf(build, i)
    BY <2>1 DEF WordsOf, Hook
  <2>4. Route(i, via) = <<p.hi, p.lo>>
    BY <1>4 DEF Route
  <2> HIDE DEF p
  <2>5. Len(Route(i, via)) = 2 /\ \A k \in 1..2 : Route(i, via)[k] \in {p.hi, p.lo}
    BY <2>4
  <2> QED
    BY <1>2, <1>4, <2>2, <2>3, <2>5
<1>5. CASE Kind(i) = "classic"
  <2>1. Route(i, via) = <<1, 2, 3, 4>> /\ via = 1
    BY <1>5 DEF Route, Via
  <2>2. Len(Route(i, via)) = 4 /\ \A k \in 1..4 : Route(i, via)[k] = k
    BY <2>1
  <2> QED
    BY <1>2, <1>3, <1>5, <2>1, <2>2
<1>6. CASE Kind(i) \in {"short", "break"}
  <2>1. Route(i, via) = <<1>> /\ via = 1
    BY <1>6 DEF Route, Via
  <2>2. Len(Route(i, via)) = 1 /\ \A k \in 1..1 : Route(i, via)[k] = 1
    BY <2>1
  <2> QED
    BY <1>2, <1>3, <1>6, <2>1, <2>2
<1> QED
  BY <1>1, <1>4, <1>5, <1>6, KindSplits

(***************************************************************************)
(* What a step leaves alone.                                               *)
(***************************************************************************)
LEMMA SameBuild ==
  ASSUME build' = build
  PROVE  /\ Hooks' = Hooks /\ Eligible' = Eligible /\ Words' = Words /\ Writes' = Writes
         /\ \A i : Kind(i)' = Kind(i) /\ Via(i)' = Via(i) /\ DetourWords(i)' = DetourWords(i)
                   /\ Hook(i)' = Hook(i)
         /\ \A i, via : Route(i, via)' = Route(i, via)
BY DEF Hooks, Eligible, Words, Writes, Kind, Via, DetourWords, Hook, Route, Plan34, Plan26, Found,
       ResolveSym, Override, SlurpsSymbols, WordsOf, SiteWords

(* A step that leaves code and work alone leaves their order alone.        *)
LEMMA HeadLastStays ==
  ASSUME build' = build, text' = text, work' = work
  PROVE  HeadLast' <=> HeadLast
<1>1. Eligible' = Eligible /\ \A i : Kind(i)' = Kind(i)
  BY SameBuild
<1>2. \A i : Tail234(i)' <=> Tail234(i)
  BY DEF Tail234
<1> DEFINE Behind(i) ==
      \A k \in DOMAIN work : work[k].hook = i /\ work[k].word = 1 =>
        \A w \in 2..4 : \/ text[<<i, w>>] = "new"
                        \/ \E j \in 1..(k - 1) : work[j].hook = i /\ work[j].word = w
<1>3. \A i : Behind(i)' <=> Behind(i)
  OBVIOUS
<1>4. HeadLast <=> \A i \in Eligible : Kind(i) = "classic" =>
                     (text[<<i, 1>>] = "new" => Tail234(i)) /\ Behind(i)
  BY DEF HeadLast
<1>5. HeadLast' <=> \A i \in Eligible' : Kind(i)' = "classic" =>
                      (text'[<<i, 1>>] = "new" => Tail234(i)') /\ Behind(i)'
  BY DEF HeadLast
<1> HIDE DEF Behind
<1> QED
  BY <1>1, <1>2, <1>3, <1>4, <1>5

(***************************************************************************)
(* What a step makes of a stack.                                           *)
(***************************************************************************)
Stacks == [Tasks -> Seq(Frame)]

LEMMA FrontOf ==
  ASSUME NEW S, NEW s \in Seq(S), s # <<>>
  PROVE  /\ Len(s) \in Nat \ {0} /\ DOMAIN s = 1..Len(s)
         /\ SubSeq(s, 1, Len(s) - 1) \in Seq(S)
         /\ Len(SubSeq(s, 1, Len(s) - 1)) = Len(s) - 1
         /\ \A d \in 1..(Len(s) - 1) : SubSeq(s, 1, Len(s) - 1)[d] = s[d]
<1>1. Len(s) \in Nat /\ Len(s) # 0 /\ DOMAIN s = 1..Len(s)
  BY EmptySeq
<1>2. \A d \in 1..(Len(s) - 1) : s[d] \in S
  BY <1>1
<1> QED
  BY <1>1, <1>2

LEMMA Pushed ==
  ASSUME stack \in Stacks, NEW t \in Tasks, NEW f \in Frame,
         stack' = [stack EXCEPT ![t] = Append(@, f)]
  PROVE  /\ stack' \in Stacks
         /\ \A u \in Tasks \ {t} : stack'[u] = stack[u]
         /\ Len(stack[t]) \in Nat /\ DOMAIN stack[t] = 1..Len(stack[t])
         /\ Len(stack'[t]) = Len(stack[t]) + 1 /\ DOMAIN stack'[t] = 1..(Len(stack[t]) + 1)
         /\ \A d \in DOMAIN stack[t] : stack'[t][d] = stack[t][d]
         /\ stack'[t][Len(stack[t]) + 1] = f
<1>1. stack[t] \in Seq(Frame) /\ stack'[t] = Append(stack[t], f)
  BY DEF Stacks
<1>2. Append(stack[t], f) \in Seq(Frame)
  BY <1>1
<1>3. stack' \in Stacks /\ \A u \in Tasks \ {t} : stack'[u] = stack[u]
  BY <1>1, <1>2 DEF Stacks
<1> QED
  BY <1>1, <1>3

LEMMA Replaced ==
  ASSUME stack \in Stacks, NEW t \in Tasks, stack[t] # <<>>, NEW f \in Frame, Replace(t, f)
  PROVE  /\ stack' \in Stacks
         /\ \A u \in Tasks \ {t} : stack'[u] = stack[u]
         /\ Len(stack[t]) \in Nat \ {0} /\ DOMAIN stack[t] = 1..Len(stack[t])
         /\ Len(stack'[t]) = Len(stack[t]) /\ DOMAIN stack'[t] = DOMAIN stack[t]
         /\ \A d \in 1..(Len(stack[t]) - 1) : stack'[t][d] = stack[t][d]
         /\ stack'[t][Len(stack[t])] = f
<1> DEFINE s == stack[t]
           u == SubSeq(s, 1, Len(s) - 1)
<1>1. s \in Seq(Frame) /\ s # <<>> /\ stack'[t] = Append(u, f)
  BY DEF Stacks, Replace, Front
<1>2. \A v \in Tasks \ {t} : stack'[v] = stack[v]
  BY DEF Stacks, Replace
<1>3. stack' = [stack EXCEPT ![t] = Append(u, f)]
  BY DEF Stacks, Replace, Front
<1> HIDE DEF s
<1>4. /\ u \in Seq(Frame) /\ Len(s) \in Nat \ {0} /\ Len(u) = Len(s) - 1 /\ DOMAIN s = 1..Len(s)
      /\ \A d \in 1..(Len(s) - 1) : u[d] = s[d]
  BY <1>1, FrontOf
<1> HIDE DEF u
<1>5. /\ Append(u, f) \in Seq(Frame) /\ Len(Append(u, f)) = Len(s)
      /\ DOMAIN Append(u, f) = 1..Len(s)
      /\ \A d \in 1..(Len(s) - 1) : Append(u, f)[d] = s[d]
      /\ Append(u, f)[Len(s)] = f
  BY <1>4
<1>6. stack' \in Stacks
  BY <1>3, <1>5 DEF Stacks
<1> QED
  BY <1>1, <1>2, <1>4, <1>5, <1>6 DEF s

LEMMA Popped ==
  ASSUME stack \in Stacks, NEW t \in Tasks, stack[t] # <<>>, Pop(t)
  PROVE  /\ stack' \in Stacks
         /\ \A u \in Tasks \ {t} : stack'[u] = stack[u]
         /\ Len(stack[t]) \in Nat \ {0} /\ DOMAIN stack[t] = 1..Len(stack[t])
         /\ Len(stack'[t]) = Len(stack[t]) - 1 /\ DOMAIN stack'[t] = 1..(Len(stack[t]) - 1)
         /\ \A d \in 1..(Len(stack[t]) - 1) : stack'[t][d] = stack[t][d]
<1> DEFINE s == stack[t]
           u == SubSeq(s, 1, Len(s) - 1)
<1>1. s \in Seq(Frame) /\ s # <<>> /\ stack'[t] = u
  BY DEF Stacks, Pop, Front
<1>2. \A v \in Tasks \ {t} : stack'[v] = stack[v]
  BY DEF Stacks, Pop
<1>3. stack' = [stack EXCEPT ![t] = u]
  BY DEF Stacks, Pop, Front
<1> HIDE DEF s
<1>4. /\ u \in Seq(Frame) /\ Len(s) \in Nat \ {0} /\ Len(u) = Len(s) - 1 /\ DOMAIN s = 1..Len(s)
      /\ \A d \in 1..(Len(s) - 1) : u[d] = s[d]
  BY <1>1, FrontOf
<1> HIDE DEF u
<1>5. stack' \in Stacks /\ DOMAIN u = 1..(Len(s) - 1)
  BY <1>3, <1>4 DEF Stacks
<1> QED
  BY <1>1, <1>2, <1>4, <1>5 DEF s

(***************************************************************************)
(* What a task's step is: a frame more, another frame on top, a frame less *)
(* or a fault.                                                             *)
(***************************************************************************)
Diverts(f) == f.divert /\ f.place \in {"body", "exit"}

PoolStays == pool' = pool /\ order' = order

(* Frame f for the one on top of task t's stack.                            *)
Move(t, f) ==
  /\ stack[t] # <<>> /\ f \in Frame /\ Replace(t, f) /\ FrameSound(f)
  /\ Inside(f) /\ loader \in {"synced", "unloaded"} => Inside(Top(t))
  /\ faults' = faults

EntryOf(t) == [task |-> t, order |-> order + 1, home |-> Len(stack[t])]
Mine(t) == {e \in pool : e.task = t /\ Takes(t, e)}

(* What it does to the pool.                                                *)
PoolMove(t, f) ==
  \/ (Diverts(f) <=> Diverts(Top(t))) /\ PoolStays
  \/ ~Diverts(Top(t)) /\ Diverts(f) /\ order' = order + 1 /\ pool' = pool \union {EntryOf(t)}
  \/ /\ Diverts(Top(t)) /\ ~Diverts(f) /\ order' = order /\ pool' = pool \ Mine(t)
     /\ \E e \in Mine(t) : e.home = Len(stack[t])

(* And to the records.                                                      *)
RecordMove(t, f) ==
  \/ /\ Top(t).place # "store" /\ f.place = "store" /\ TakeNumber
     /\ UNCHANGED <<fifo, slots, head, tail, drops, reader, stored, got, reported>>
  \/ Top(t).place # "store" /\ f.place # "store" /\ UNCHANGED bufferVars
  \/ Top(t).place = "store" /\ f.place # "store" /\ Store(Top(t).rec) /\ UNCHANGED seqno

TopMoves(t) == \E f : Move(t, f) /\ PoolMove(t, f) /\ RecordMove(t, f)

Pushes(t) ==
  \E f \in Frame :
    /\ FrameSound(f) /\ f.place = "fetch" /\ ~f.divert /\ There
    /\ Len(stack[t]) < Depth /\ stack' = [stack EXCEPT ![t] = Append(@, f)]
    /\ PoolStays /\ UNCHANGED bufferVars /\ faults' = faults

Pops(t) ==
  /\ stack[t] # <<>> /\ Pop(t) /\ ~Diverts(Top(t)) /\ PoolStays /\ faults' = faults
  /\ \/ Top(t).place # "store" /\ UNCHANGED bufferVars
     \/ Top(t).place = "store" /\ Store(Top(t).rec) /\ UNCHANGED seqno

FaultsSound == DetourSound /\ ReturnsHome /\ StrayOnlyWhenLate

Faulty == UNCHANGED <<bufferVars, stack, pool, order>> /\ FaultsSound'

TaskStep(t) == TopMoves(t) \/ Pushes(t) \/ Pops(t) \/ Faulty

CallInv == TraceType /\ FramesInv /\ RefInv /\ NotifierInv /\ WorkInv /\ PoolInv /\ seqno \in Nat

LEMMA OnTop ==
  ASSUME CallInv, NEW t \in Tasks, stack[t] # <<>>
  PROVE  /\ Top(t) \in Frame /\ FrameSound(Top(t)) /\ Top(t).hook \in Eligible
         /\ Len(stack[t]) \in DOMAIN stack[t] /\ Top(t) = stack[t][Len(stack[t])] /\ There
<1>1. stack[t] \in Seq(Frame)
  BY DEF CallInv, TraceType
<1>2. Len(stack[t]) \in Nat \ {0} /\ DOMAIN stack[t] = 1..Len(stack[t])
  BY <1>1, FrontOf
<1>3. Len(stack[t]) \in DOMAIN stack[t] /\ Top(t) = stack[t][Len(stack[t])]
  BY <1>2 DEF Top, Last
<1>4. Top(t) \in Frame
  BY <1>1, <1>3
<1>5. FrameSound(Top(t))
  BY <1>3 DEF CallInv, FramesInv
<1>6. There
  BY DEF CallInv, RefInv
<1> QED
  BY <1>3, <1>4, <1>5, <1>6 DEF FrameSound

(* A call.                                                                  *)
LEMMA CallStep ==
  ASSUME CallInv, NEW t \in Tasks, NEW i \in Eligible, NEW via \in Via(i), Call(t, i, via)
  PROVE  Pushes(t)
<1> DEFINE f == [hook |-> i, via |-> via, place |-> "fetch", taken |-> 0, first |-> "old",
                 rec |-> 0, next |-> "", divert |-> FALSE]
<1>1. build \in Builds
  BY DEF CallInv, TraceType
<1>2. i \in Nat /\ via \in Nat /\ 0 < Len(Route(i, via))
  BY <1>1, RouteKnown
<1>3. f \in Frame
  BY <1>2 DEF Frame
<1>4. FrameSound(f)
  BY <1>2 DEF FrameSound
<1> QED
  BY <1>3, <1>4 DEF Call, Pushes, There, PoolStays

Places == {"fetch", "trap", "hook", "argx", "store", "enter", "body", "exit"}

(* A word fetched.                                                          *)
LEMMA FetchStep ==
  ASSUME CallInv, NEW t \in Tasks, Fetch(t)
  PROVE  TopMoves(t) \/ Faulty
<1> DEFINE f == Top(t)
           route == Route(f.hook, f.via)
           word == text[<<f.hook, route[f.taken + 1]>>]
           first == IF f.taken = 0 THEN word ELSE f.first
           last == f.taken + 1 = Len(route)
           next == CASE ~last -> "fetch"
                     [] last /\ first = "old" -> "body"
                     [] OTHER -> IF Kind(f.hook) = "break" THEN "trap" ELSE "hook"
           g == [f EXCEPT !.taken = @ + 1, !.first = first, !.place = next]
<1>1. /\ stack[t] # <<>> /\ f.place = "fetch" /\ faults = {} /\ LoaderStays
      /\ UNCHANGED <<bufferVars, pool, order, calls>>
  BY DEF Fetch, At, NoFault
<1>2. /\ f \in Frame /\ FrameSound(f) /\ f.hook \in Eligible /\ f.via \in Via(f.hook) /\ There
      /\ build \in Builds
  BY <1>1, OnTop DEF FrameSound, CallInv, TraceType
<1>3. /\ Len(route) \in Nat /\ f.taken \in Nat /\ f.taken < Len(route)
      /\ f.taken + 1 \in 1..Len(route) /\ <<f.hook, route[f.taken + 1]>> \in Words
  <2>1. f.taken \in Nat /\ f.taken < Len(route)
    BY <1>1, <1>2 DEF Frame, FrameSound
  <2>2. Len(route) \in Nat /\ \A k \in 1..Len(route) : <<f.hook, route[k]>> \in Words
    BY <1>2, RouteKnown
  <2> QED
    BY <2>1, <2>2
<1>4. word \in {"old", "new"}
  BY <1>3 DEF CallInv, TraceType
<1>5. ~f.divert
  BY <1>1, <1>2 DEF FrameSound
<1>6. CASE word # first
  <2>1. faults' = {[what |-> "mixed", kind |-> Kind(f.hook), first |-> f.first, phase |-> loader]}
        /\ UNCHANGED stack
    BY <1>6 DEF Fetch, Fails
  <2>2. f.taken # 0 /\ first = f.first
    BY <1>6
  <2>3. Kind(f.hook) \in {"classic", "sites"}
    <3>1. Kind(f.hook) # "skip"
      BY <1>2 DEF Eligible
    <3>2. Kind(f.hook) \in {"short", "break"} => Len(route) = 1
      BY <1>2, RouteKnown
    <3> QED
      BY <1>3, <2>2, <3>1, <3>2, KindSplits
  <2>4. ASSUME Kind(f.hook) = "classic", f.first = "new"
        PROVE  loader \in Disarming
    <3>1. SUFFICES ASSUME loader \notin Disarming
                   PROVE  FALSE
      OBVIOUS
    <3>2. Tail234(f.hook)
      BY <1>1, <1>2, <1>3, <2>2, <2>4, <3>1 DEF FrameSound
    <3>3. route[f.taken + 1] = f.taken + 1 /\ f.taken + 1 \in 2..4
      BY <1>2, <1>3, <2>2, <2>4, RouteKnown
    <3> QED
      BY <1>6, <2>2, <2>4, <3>2, <3>3 DEF Tail234
  <2>5. FaultsSound'
    BY <2>1, <2>3, <2>4 DEF FaultsSound, DetourSound, ReturnsHome, StrayOnlyWhenLate, Disarming
  <2> QED
    BY <1>1, <2>1, <2>5 DEF Faulty
<1>7. CASE word = first
  <2>1. ~(next = "hook" /\ StubFails(f.hook))
    BY <1>2, StubReached
  <2>2. Replace(t, g) /\ UNCHANGED faults
    BY <1>7, <2>1 DEF Fetch
  <2>3. next \in {"fetch", "body", "trap", "hook"}
    OBVIOUS
  <2>4. g \in Frame /\ g.place = next /\ g.taken = f.taken + 1 /\ g.first = first
        /\ g.hook = f.hook /\ g.via = f.via /\ ~g.divert /\ first \in {"old", "new"}
    <3>1. first \in {"old", "new"} /\ next \in Places /\ f.taken + 1 \in Nat
      <4> HIDE DEF f, next, word, first
      <4> QED
        BY <1>3, <1>4, <1>7, <2>3 DEF Places
    <3>2. g = [f EXCEPT !.taken = f.taken + 1, !.first = first, !.place = next]
      OBVIOUS
    <3> DEFINE n == f.taken + 1
    <3>3. f \in Frame /\ first \in {"old", "new"} /\ next \in Places /\ n \in Nat
      BY <1>2, <3>1
    <3> HIDE DEF f, next, word, first, g, n
    <3>4. g = [f EXCEPT !.taken = n, !.first = first, !.place = next]
      BY <3>2 DEF n
    <3>5. /\ g \in Frame /\ g.place = next /\ g.taken = n /\ g.first = first
          /\ g.hook = f.hook /\ g.via = f.via /\ g.divert = f.divert
      BY <3>3, <3>4 DEF Frame, Places
    <3> QED
      BY <1>5, <3>3, <3>5 DEF n
  <2>5. next = "fetch" => f.taken + 1 < Len(route)
    BY <1>3
  <2>6. next = "trap" => Kind(f.hook) = "break"
    OBVIOUS
  <2>7. ASSUME first = "new", Kind(f.hook) = "classic", loader \notin Disarming
        PROVE  Tail234(f.hook)
    <3>1. CASE f.taken = 0
      <4>1. route[f.taken + 1] = 1
        BY <1>2, <1>3, <2>7, <3>1, RouteKnown
      <4>2. text[<<f.hook, 1>>] = "new" /\ <<f.hook, 1>> \in Words
        BY <1>3, <1>7, <2>7, <4>1
      <4>3. ~AllOld
        BY <4>2 DEF AllOld, CallInv, TraceType
      <4>4. loader \in {"arming", "armed"}
        BY <2>7, <4>3 DEF CallInv, TraceType, WorkInv, Disarming
      <4>5. HeadLast
        BY <1>2, <4>4 DEF CallInv, WorkInv
      <4> QED
        BY <1>2, <2>7, <4>2, <4>5 DEF HeadLast
    <3>2. CASE f.taken # 0
      BY <1>1, <1>2, <1>3, <2>7, <3>2 DEF FrameSound
    <3> QED
      BY <3>1, <3>2
  <2>8. FrameSound(g)
    <3> HIDE DEF f, next, word, first, route, last, g
    <3>1. route = Route(g.hook, g.via)
      BY <2>4 DEF route
    <3> QED
      BY <1>2, <2>3, <2>4, <2>5, <2>6, <2>7, <3>1 DEF FrameSound
  <2>9. loader \in {"synced", "unloaded"} => next \in {"fetch", "body"}
    <3>1. SUFFICES ASSUME loader \in {"synced", "unloaded"}
                   PROVE  next \in {"fetch", "body"}
      OBVIOUS
    <3>2. AllOld
      BY <1>2, <3>1 DEF CallInv, WorkInv
    <3>3. word = "old"
      BY <1>3, <3>2 DEF AllOld, CallInv, TraceType
    <3> QED
      BY <1>7, <3>3
  <2>10. Move(t, g)
    BY <1>1, <2>2, <2>4, <2>8, <2>9 DEF Move, Inside, InStub
  <2>11. ~Diverts(f) /\ ~Diverts(g) /\ f.place # "store" /\ g.place # "store"
    <3> HIDE DEF f, next, g
    <3> QED
      BY <1>1, <1>5, <2>3, <2>4 DEF Diverts
  <2> QED
    BY <1>1, <2>10, <2>11 DEF TopMoves, PoolMove, RecordMove, PoolStays
<1> QED
  BY <1>6, <1>7

(* A frame on top that only goes elsewhere in the detour.                   *)
LEMMA Goes1 ==
  ASSUME CallInv, NEW t \in Tasks, stack[t] # <<>>, NEW p \in Places \ {"fetch", "store"},
         Goes(t, p), faults' = faults, ~Top(t).divert \/ p = "exit",
         p = "trap" => Kind(Top(t).hook) = "break", p = "exit" => Top(t).divert,
         (InStub([Top(t) EXCEPT !.place = p]) /\ loader \in {"synced", "unloaded"})
           => Inside(Top(t))
  PROVE  \E g : /\ Move(t, g) /\ g.place = p /\ g.divert = Top(t).divert
<1> DEFINE f == Top(t)
           g == [f EXCEPT !.place = p]
<1>1. f \in Frame /\ FrameSound(f)
  BY OnTop
<1>2. Replace(t, g)
  BY DEF Goes
<1>3. f.divert \in BOOLEAN
  BY <1>1 DEF Frame
<1>4. (InStub(g) /\ loader \in {"synced", "unloaded"}) => Inside(f)
  OBVIOUS
<1>5. ~f.divert \/ p = "exit"
  OBVIOUS
<1>6. (p = "trap" => Kind(f.hook) = "break") /\ (p = "exit" => f.divert)
  OBVIOUS
<1> HIDE DEF f
<1>7. g \in Frame /\ g.place = p /\ g.divert = f.divert /\ g.hook = f.hook /\ g.via = f.via
  BY <1>1 DEF Frame, Places
<1> HIDE DEF g
<1>8. FrameSound(g)
  BY <1>1, <1>5, <1>6, <1>7 DEF FrameSound, Places
<1>9. Inside(g) /\ loader \in {"synced", "unloaded"} => Inside(f)
  BY <1>4, <1>5, <1>7 DEF Inside, InStub
<1> QED
  BY <1>2, <1>7, <1>8, <1>9 DEF Move, f

(* A number taken for a record.                                             *)
LEMMA Numbered1 ==
  ASSUME CallInv, NEW t \in Tasks, stack[t] # <<>>, faults' = faults, Inside(Top(t)),
         NEW next \in {"argx", "enter", "body", "done"}, Numbered(t, next),
         Top(t).place # "store", Top(t).divert => next = "done"
  PROVE  \E g : Move(t, g) /\ RecordMove(t, g) /\ g.place = "store"
<1> DEFINE f == Top(t)
           n == seqno + 1
           g == [f EXCEPT !.place = "store", !.rec = n, !.next = next]
<1>1. f \in Frame /\ FrameSound(f) /\ n \in Nat
  BY OnTop DEF CallInv
<1>2. Replace(t, g)
  BY DEF Numbered
<1>3. f.divert => next = "done"
  OBVIOUS
<1> HIDE DEF f, n
<1>4. g \in Frame /\ g.place = "store" /\ g.divert = f.divert /\ g.hook = f.hook /\ g.via = f.via
      /\ g.next = next
  BY <1>1 DEF Frame
<1> HIDE DEF g
<1>5. FrameSound(g)
  BY <1>1, <1>3, <1>4 DEF FrameSound
<1>6. Move(t, g)
  BY <1>2, <1>4, <1>5 DEF Move
<1>7. RecordMove(t, g)
  BY <1>4 DEF RecordMove, Numbered
<1> QED
  BY <1>4, <1>6, <1>7

(* A trap is taken by the tracer, or by nobody.                             *)
LEMMA TrapStep ==
  ASSUME CallInv, NEW t \in Tasks, Trap(t)
  PROVE  TaskStep(t)
<1> DEFINE f == Top(t)
<1>1. stack[t] # <<>> /\ f.place = "trap" /\ NoFault /\ UNCHANGED <<bufferVars, pool, order>>
      /\ LoaderStays
  BY DEF Trap, At
<1>2. FrameSound(f) /\ f.hook \in Eligible /\ Kind(f.hook) = "break" /\ ~f.divert /\ There
  BY <1>1, OnTop DEF FrameSound
<1>3. CASE "die" \in notifiers /\ f.hook \in armed
  <2>1. Goes(t, "hook") /\ faults' = faults
    BY <1>3 DEF Trap
  <2>2. loader \notin {"synced", "unloaded"}
    BY <1>3 DEF CallInv, NotifierInv
  <2>3. PICK g : Move(t, g) /\ g.place = "hook" /\ g.divert = f.divert
    BY <1>1, <1>2, <2>1, <2>2, Goes1 DEF Places
  <2> QED
    BY <1>1, <1>2, <2>3 DEF TaskStep, TopMoves, PoolMove, RecordMove, PoolStays, Diverts
<1>4. CASE ~("die" \in notifiers /\ f.hook \in armed)
  <2>1. faults' = {[what |-> "panic", kind |-> Kind(f.hook), first |-> f.first, phase |-> loader]}
        /\ UNCHANGED stack
    BY <1>4 DEF Trap, Fails
  <2>2. loader # "armed"
    <3>1. SUFFICES ASSUME loader = "armed"
                   PROVE  FALSE
      OBVIOUS
    <3>2. "die" \in notifiers
      BY <1>2, <3>1 DEF CallInv, NotifierInv
    <3>3. f.hook \in armed
      BY <1>2, <3>1 DEF CallInv, WorkInv
    <3> QED
      BY <1>4, <3>2, <3>3
  <2>3. FaultsSound'
    BY <2>1, <2>2 DEF FaultsSound, DetourSound, ReturnsHome, StrayOnlyWhenLate
  <2> QED
    BY <1>1, <2>1, <2>3 DEF TaskStep, Faulty
<1> QED
  BY <1>3, <1>4

(* A call recorded, or one whose register is filtered.                      *)
LEMMA HookCalledStep ==
  ASSUME CallInv, NEW t \in Tasks, HookCalled(t)
  PROVE  TaskStep(t)
<1> DEFINE f == Top(t)
           next == AfterHook(f.hook)
<1>1. /\ stack[t] # <<>> /\ f.place = "hook" /\ pool' = pool /\ order' = order
      /\ faults' = faults
      /\ \/ Numbered(t, next)
         \/ Goes(t, next) /\ UNCHANGED bufferVars
  BY Zenon DEF HookCalled, At
<1>2. FrameSound(f) /\ ~f.divert /\ Inside(f)
  BY <1>1, OnTop DEF FrameSound, Inside, InStub
<1>3. next \in {"argx", "enter", "body"}
  BY DEF AfterHook
<1>4. CASE Numbered(t, next)
  <2>1. PICK g : Move(t, g) /\ RecordMove(t, g) /\ g.place = "store"
    BY <1>1, <1>2, <1>3, <1>4, Numbered1
  <2> QED
    BY <1>1, <1>2, <2>1 DEF TaskStep, TopMoves, PoolMove, PoolStays, Diverts
<1>5. CASE Goes(t, next) /\ UNCHANGED bufferVars
  <2>1. next \in Places \ {"fetch", "store"} /\ next # "trap" /\ next # "exit"
    BY <1>3 DEF Places
  <2> HIDE DEF f, next
  <2>2. PICK g : Move(t, g) /\ g.place = next /\ g.divert = f.divert
    BY <1>1, <1>2, <1>5, <2>1, Goes1 DEF f
  <2> QED
    BY <1>1, <1>2, <1>3, <1>5, <2>2 DEF TaskStep, TopMoves, PoolMove, RecordMove, PoolStays,
                                        Diverts, f
<1> QED
  BY <1>1, <1>4, <1>5

LEMMA HookArgxStep ==
  ASSUME CallInv, NEW t \in Tasks, HookArgx(t)
  PROVE  TaskStep(t)
<1> DEFINE f == Top(t)
           next == IF Hook(f.hook).retcap THEN "enter" ELSE "body"
<1>1. /\ stack[t] # <<>> /\ f.place = "argx" /\ pool' = pool /\ order' = order
      /\ faults' = faults /\ Numbered(t, next)
  BY DEF HookArgx, At
<1>2. FrameSound(f) /\ ~f.divert /\ Inside(f)
  BY <1>1, OnTop DEF FrameSound, Inside, InStub
<1>3. next \in {"enter", "body"}
  OBVIOUS
<1> HIDE DEF next
<1>4. PICK g : Move(t, g) /\ RecordMove(t, g) /\ g.place = "store"
  BY <1>1, <1>2, <1>3, Numbered1
<1> QED
  BY <1>1, <1>2, <1>4 DEF TaskStep, TopMoves, PoolMove, PoolStays, Diverts

(* A record stored.                                                         *)
LEMMA EmitStep ==
  ASSUME CallInv, NEW t \in Tasks, Emit(t)
  PROVE  TaskStep(t)
<1> DEFINE f == Top(t)
<1>1. /\ stack[t] # <<>> /\ f.place = "store" /\ pool' = pool /\ order' = order
      /\ faults' = faults /\ Store(f.rec) /\ seqno' = seqno
      /\ IF f.next = "done" THEN Pop(t) ELSE Goes(t, f.next)
  BY DEF Emit, At
<1>2. FrameSound(f) /\ f \in Frame /\ Inside(f) /\ ~Diverts(f)
  BY <1>1, OnTop DEF Inside, InStub, Diverts
<1>3. CASE f.next = "done"
  <2>1. Pop(t)
    BY <1>1, <1>3
  <2> QED
    BY <1>1, <1>2, <2>1 DEF TaskStep, Pops, PoolStays
<1>4. CASE f.next # "done"
  <2>1. Goes(t, f.next) /\ f.next \in {"argx", "enter", "body"} /\ ~f.divert
    BY <1>1, <1>2, <1>4 DEF FrameSound, Frame
  <2>2. f.next \in Places \ {"fetch", "store"}
    BY <2>1 DEF Places
  <2>3. PICK g : Move(t, g) /\ g.place = f.next /\ g.divert = f.divert
    BY <1>1, <1>2, <2>1, <2>2, Goes1
  <2> QED
    BY <1>1, <1>2, <2>1, <2>3 DEF TaskStep, TopMoves, PoolMove, RecordMove, PoolStays, Diverts
<1> QED
  BY <1>3, <1>4

(* The return diverted, or not for want of room.                            *)
LEMMA EnterRetStep ==
  ASSUME CallInv, NEW t \in Tasks, EnterRet(t)
  PROVE  TaskStep(t)
<1> DEFINE f == Top(t)
           room == diverting /\ Cardinality(pool) < build.pool
           g == [f EXCEPT !.place = "body", !.divert = room]
<1>1. /\ stack[t] # <<>> /\ f.place = "enter" /\ faults' = faults /\ UNCHANGED bufferVars
      /\ Replace(t, g)
      /\ IF room THEN order' = order + 1 /\ pool' = pool \union {EntryOf(t)}
                 ELSE UNCHANGED <<pool, order>>
  BY DEF EnterRet, At, EntryOf
<1>2. f \in Frame /\ FrameSound(f) /\ Inside(f) /\ ~f.divert
  BY <1>1, OnTop DEF FrameSound, Inside, InStub
<1>3. room \in BOOLEAN
  OBVIOUS
<1> HIDE DEF f, room
<1>4. g \in Frame /\ g.place = "body" /\ g.divert = room /\ g.hook = f.hook /\ g.via = f.via
  BY <1>2, <1>3 DEF Frame
<1> HIDE DEF g
<1>5. FrameSound(g)
  BY <1>2, <1>4 DEF FrameSound
<1>6. Move(t, g)
  BY <1>1, <1>2, <1>4, <1>5 DEF Move, f
<1>7. PoolMove(t, g)
  <2>1. ~Diverts(f) /\ (Diverts(g) <=> room)
    BY <1>2, <1>3, <1>4 DEF Diverts
  <2>2. CASE room
    BY <1>1, <2>1, <2>2 DEF PoolMove, f
  <2>3. CASE ~room
    BY <1>1, <2>1, <2>3 DEF PoolMove, PoolStays, f
  <2> QED
    BY <2>2, <2>3
<1>8. RecordMove(t, g)
  BY <1>1, <1>4 DEF RecordMove, f
<1> QED
  BY <1>6, <1>7, <1>8 DEF TaskStep, TopMoves

LEMMA ReturnStep ==
  ASSUME CallInv, NEW t \in Tasks, Return(t)
  PROVE  TaskStep(t)
<1> DEFINE f == Top(t)
<1>1. /\ stack[t] # <<>> /\ f.place = "body" /\ pool' = pool /\ order' = order
      /\ faults' = faults /\ UNCHANGED bufferVars
      /\ IF f.divert THEN Goes(t, "exit") ELSE Pop(t)
  BY DEF Return, At
<1>2. CASE ~f.divert
  <2>1. Pop(t) /\ ~Diverts(f)
    BY <1>1, <1>2 DEF Diverts
  <2> QED
    BY <1>1, <2>1 DEF TaskStep, Pops, PoolStays
<1>3. CASE f.divert
  <2>1. Goes(t, "exit") /\ Inside(f) /\ Diverts(f)
    BY <1>1, <1>3 DEF Inside, Diverts
  <2>2. PICK g : Move(t, g) /\ g.place = "exit" /\ g.divert = f.divert
    BY <1>1, <1>3, <2>1, Goes1 DEF Places
  <2> QED
    BY <1>1, <1>3, <2>1, <2>2 DEF TaskStep, TopMoves, PoolMove, RecordMove, PoolStays, Diverts
<1> QED
  BY <1>2, <1>3

(* The youngest entry of a task is that of the call it is in.               *)
LEMMA ExitRetStep ==
  ASSUME CallInv, NEW t \in Tasks, ExitRet(t)
  PROVE  TaskStep(t)
<1> DEFINE f == Top(t)
           n == Len(stack[t])
<1>1. stack[t] # <<>> /\ f.place = "exit" /\ order' = order
  BY DEF ExitRet, At
<1>2. FrameSound(f) /\ f.divert /\ Diverts(f) /\ n \in DOMAIN stack[t] /\ f = stack[t][n]
  BY <1>1, OnTop DEF FrameSound, Diverts
<1>3. PICK e \in pool : e.task = t /\ e.home = n
  BY <1>2 DEF CallInv, PoolInv, Diverted, Diverts
<1>4. ASSUME NEW o \in pool, o.task = t
      PROVE  e.order >= o.order
  <2>1. o.home \in 1..n /\ e.order \in Nat /\ o.order \in Nat /\ n \in Nat
    <3>1. stack[t] \in Seq(Frame) /\ o.home \in DOMAIN stack[t]
      BY <1>4 DEF CallInv, TraceType, PoolInv
    <3> QED
      BY <3>1 DEF CallInv, PoolInv
  <2>2. o.home < e.home => o.order < e.order
    BY <1>3, <1>4 DEF CallInv, PoolInv
  <2>3. o.home = e.home => o = e
    BY <1>3, <1>4 DEF CallInv, PoolInv
  <2> QED
    BY <1>3, <2>1, <2>2, <2>3
<1>5. e \in Mine(t)
  BY <1>3, <1>4 DEF Mine, Takes
<1>6. pool' = pool \ Mine(t) /\ Numbered(t, "done") /\ faults' = faults
  BY <1>3, <1>5 DEF ExitRet, Mine
<1>7. Inside(f)
  BY <1>1 DEF Inside, InStub
<1>8. PICK g : Move(t, g) /\ RecordMove(t, g) /\ g.place = "store"
  BY <1>1, <1>6, <1>7, Numbered1
<1>9. PoolMove(t, g)
  <2>1. ~Diverts(g)
    BY <1>8 DEF Diverts
  <2> QED
    BY <1>1, <1>2, <1>3, <1>5, <1>6, <2>1 DEF PoolMove
<1> QED
  BY <1>8, <1>9 DEF TaskStep, TopMoves

LEMMA TaskSteps ==
  ASSUME CallInv, NEW t \in Tasks, Task(t)
  PROVE  TaskStep(t) /\ LoaderStays /\ NoFault
<1>1. LoaderStays /\ NoFault
  BY DEF Task, Call, Fetch, Trap, HookCalled, HookArgx, Emit, EnterRet, Return, ExitRet, At
<1>2. ASSUME NEW i \in Eligible, NEW via \in Via(i), Call(t, i, via)
      PROVE  TaskStep(t)
  BY <1>2, CallStep DEF TaskStep
<1>3. ASSUME Fetch(t)
      PROVE  TaskStep(t)
  BY <1>3, FetchStep DEF TaskStep
<1> QED
  BY <1>1, <1>2, <1>3, TrapStep, HookCalledStep, HookArgxStep, EmitStep, EnterRetStep, ReturnStep,
     ExitRetStep DEF Task

(***************************************************************************)
(* A task's step keeps what is known of the stacks.                        *)
(***************************************************************************)
LEMMA Shape ==
  ASSUME CallInv, NEW t \in Tasks, TaskStep(t)
  PROVE  /\ stack' \in Stacks
         /\ \A u \in Tasks : Len(stack'[u]) <= Depth
         /\ \A u \in Tasks \ {t} : stack'[u] = stack[u]
         /\ Len(stack[t]) \in Nat /\ DOMAIN stack[t] = 1..Len(stack[t])
         /\ \A d \in DOMAIN stack'[t] :
              \/ d \in DOMAIN stack[t] /\ stack'[t][d] = stack[t][d]
              \/ FrameSound(stack'[t][d])
         /\ ~There => stack' = stack
<1>1. /\ stack \in Stacks /\ (\A u \in Tasks : Len(stack[u]) <= Depth) /\ Depth \in Nat
      /\ stack[t] \in Seq(Frame) /\ Len(stack[t]) \in Nat /\ DOMAIN stack[t] = 1..Len(stack[t])
  <2>1. /\ stack \in Stacks /\ (\A u \in Tasks : Len(stack[u]) <= Depth)
        /\ stack[t] \in Seq(Frame)
    BY DEF CallInv, TraceType, Stacks
  <2> QED
    BY <2>1, BoundsAssumption
<1>2. ASSUME NEW f, Move(t, f)
      PROVE  /\ stack' \in Stacks
             /\ \A u \in Tasks \ {t} : stack'[u] = stack[u]
             /\ Len(stack'[t]) = Len(stack[t])
             /\ \A d \in DOMAIN stack'[t] :
                  \/ d \in DOMAIN stack[t] /\ stack'[t][d] = stack[t][d]
                  \/ FrameSound(stack'[t][d])
             /\ There
  <2>1. stack[t] # <<>> /\ f \in Frame /\ Replace(t, f) /\ FrameSound(f) /\ There
    BY <1>2, OnTop DEF Move
  <2>2. /\ stack' \in Stacks
        /\ \A u \in Tasks \ {t} : stack'[u] = stack[u]
        /\ Len(stack[t]) \in Nat \ {0} /\ DOMAIN stack[t] = 1..Len(stack[t])
        /\ Len(stack'[t]) = Len(stack[t]) /\ DOMAIN stack'[t] = DOMAIN stack[t]
        /\ \A d \in 1..(Len(stack[t]) - 1) : stack'[t][d] = stack[t][d]
        /\ stack'[t][Len(stack[t])] = f
    BY <1>1, <2>1, Replaced
  <2>3. \A d \in DOMAIN stack'[t] : d \in 1..(Len(stack[t]) - 1) \/ d = Len(stack[t])
    BY <2>2
  <2> QED
    BY <2>1, <2>2, <2>3
<1>3. CASE TopMoves(t)
  BY <1>1, <1>2, <1>3 DEF TopMoves
<1>4. CASE Pushes(t)
  <2>1. PICK f \in Frame : /\ FrameSound(f) /\ There /\ Len(stack[t]) < Depth
                           /\ stack' = [stack EXCEPT ![t] = Append(@, f)]
    BY <1>4 DEF Pushes
  <2>2. /\ stack' \in Stacks
        /\ \A u \in Tasks \ {t} : stack'[u] = stack[u]
        /\ Len(stack'[t]) = Len(stack[t]) + 1 /\ DOMAIN stack'[t] = 1..(Len(stack[t]) + 1)
        /\ \A d \in DOMAIN stack[t] : stack'[t][d] = stack[t][d]
        /\ stack'[t][Len(stack[t]) + 1] = f
    BY <1>1, <2>1, Pushed
  <2>3. \A d \in DOMAIN stack'[t] : d \in DOMAIN stack[t] \/ d = Len(stack[t]) + 1
    BY <1>1, <2>2
  <2>4. Len(stack'[t]) <= Depth
    BY <1>1, <2>1, <2>2
  <2> QED
    BY <1>1, <2>1, <2>2, <2>3, <2>4
<1>5. CASE Pops(t)
  <2>1. stack[t] # <<>> /\ Pop(t) /\ There
    BY <1>5, OnTop DEF Pops
  <2>2. /\ stack' \in Stacks
        /\ \A u \in Tasks \ {t} : stack'[u] = stack[u]
        /\ Len(stack'[t]) = Len(stack[t]) - 1 /\ DOMAIN stack'[t] = 1..(Len(stack[t]) - 1)
        /\ \A d \in 1..(Len(stack[t]) - 1) : stack'[t][d] = stack[t][d]
    BY <1>1, <2>1, Popped
  <2>3. Len(stack'[t]) <= Depth /\ \A d \in DOMAIN stack'[t] : d \in DOMAIN stack[t]
    BY <1>1, <2>2
  <2> QED
    BY <1>1, <2>1, <2>2, <2>3
<1>6. CASE Faulty
  <2>1. stack' = stack
    BY <1>6 DEF Faulty
  <2> QED
    BY <1>1, <2>1
<1> QED
  BY <1>3, <1>4, <1>5, <1>6 DEF TaskStep

(* The words of wl.                                                         *)
LEMMA WordsKnown ==
  ASSUME build \in Builds
  PROVE  /\ \A x \in Words : x = <<x[1], x[2]>> /\ x[2] # 0
         /\ \A i \in Eligible : \A w \in 1..4 : <<i, w>> \in Words
<1>1. ASSUME NEW i \in Hooks
      PROVE  \A w \in WordsOf(build, i) : w # 0
  <2>1. Hook(i).sites \in Seq(Pairs)
    BY <1>1, HookTyped DEF HookRecords
  <2>2. \A k \in DOMAIN build.hooks[i].sites : build.hooks[i].sites[k] \in Pairs
    BY <2>1 DEF Hook
  <2>3. \A p \in Pairs : p.hi # 0 /\ p.lo # 0
    BY DEF Pairs
  <2> QED
    BY <2>2, <2>3 DEF WordsOf
<1>2. \A i \in Eligible : i \in Hooks
  BY DEF Eligible
<1>3. \A i \in Hooks : \A w \in 1..4 : w \in WordsOf(build, i)
  BY DEF WordsOf
<1>4. \A i \in Hooks : \A w \in WordsOf(build, i) : <<i, w>> \in Words
  BY DEF Words
<1>5. \A x \in Words : \E i \in Hooks : \E w \in WordsOf(build, i) : x = <<i, w>>
  BY DEF Words
<1>6. \A x \in Words : x = <<x[1], x[2]>> /\ x[2] # 0
  BY <1>1, <1>5
<1> QED
  BY <1>2, <1>3, <1>4, <1>6

(* FrameSound of a frame in the next state, while the build stays.          *)
FrameNext(f) ==
  /\ f.hook \in Eligible /\ f.via \in Via(f.hook)
  /\ f.place = "fetch" => f.taken < Len(Route(f.hook, f.via))
  /\ f.place = "trap" => Kind(f.hook) = "break"
  /\ f.divert => f.place \in {"body", "exit"} \/ (f.place = "store" /\ f.next = "done")
  /\ f.place = "exit" => f.divert
  /\ f.place = "store" => f.next # ""
  /\ (f.place = "fetch" /\ f.taken > 0 /\ f.first = "new" /\ Kind(f.hook) = "classic"
      /\ loader' \notin Disarming) => \A w \in 2..4 : text'[<<f.hook, w>>] = "new"

LEMMA NextFrames ==
  ASSUME build' = build, \A u \in Tasks : \A d \in DOMAIN stack'[u] : FrameNext(stack'[u][d])
  PROVE  FramesInv'
<1> SUFFICES ASSUME NEW u \in Tasks, NEW d \in DOMAIN stack'[u]
             PROVE  FrameSound(stack[u][d])'
  BY DEF FramesInv
<1> DEFINE f == stack'[u][d]
<1>1. /\ Eligible' = Eligible /\ Via(stack[u][d].hook)' = Via(f.hook)
      /\ Kind(stack[u][d].hook)' = Kind(f.hook)
      /\ Route(stack[u][d].hook, stack[u][d].via)' = Route(f.hook, f.via)
  BY SameBuild
<1>2. FrameNext(f)
  OBVIOUS
<1> QED
  BY <1>1, <1>2 DEF FrameSound, FrameNext, Tail234

LEMMA FramesStay ==
  ASSUME FramesInv, build \in Builds, build' = build, stack' = stack,
         loader' \notin Disarming =>
           loader \notin Disarming /\ \A x \in Words : text[x] = "new" => text'[x] = "new"
  PROVE  FramesInv'
<1> SUFFICES ASSUME NEW u \in Tasks, NEW d \in DOMAIN stack'[u]
             PROVE  FrameNext(stack'[u][d])
  BY NextFrames
<1>1. FrameSound(stack[u][d]) /\ stack'[u][d] = stack[u][d]
  BY DEF FramesInv
<1> DEFINE f == stack[u][d]
<1>2. f.hook \in Eligible /\ \A w \in 2..4 : <<f.hook, w>> \in Words
  <2>1. f.hook \in Eligible
    BY <1>1 DEF FrameSound
  <2>2. \A w \in 2..4 : w \in 1..4
    OBVIOUS
  <2> HIDE DEF f
  <2> QED
    BY <2>1, <2>2, WordsKnown
<1> HIDE DEF f
<1>3. ASSUME loader' \notin Disarming, Tail234(f.hook)
      PROVE  \A w \in 2..4 : text'[<<f.hook, w>>] = "new"
  BY <1>2, <1>3 DEF Tail234
<1>4. FrameSound(f)
  BY <1>1 DEF f
<1>5. FrameNext(f)
  BY <1>3, <1>4 DEF FrameSound, FrameNext
<1> QED
  BY <1>1, <1>5 DEF f

LEMMA TaskFrames ==
  ASSUME CallInv, NEW t \in Tasks, TaskStep(t), LoaderStays
  PROVE  FramesInv'
<1>0. build' = build /\ loader' = loader /\ text' = text
  BY DEF LoaderStays
<1> SUFFICES ASSUME NEW u \in Tasks, NEW d \in DOMAIN stack'[u]
             PROVE  FrameNext(stack'[u][d])
  BY <1>0, NextFrames
<1>1. FrameSound(stack'[u][d])
  <2>1. CASE u # t
    BY <2>1, Shape DEF CallInv, FramesInv
  <2>2. CASE u = t
    BY <2>2, Shape DEF CallInv, FramesInv
  <2> QED
    BY <2>1, <2>2
<1> QED
  BY <1>0, <1>1 DEF FrameSound, FrameNext, Tail234

LEMMA TaskKeeps ==
  ASSUME CallInv, NEW t \in Tasks, TaskStep(t), LoaderStays
  PROVE  TraceType' /\ FramesInv' /\ RefInv' /\ NotifierInv' /\ WorkInv'
<1>0. /\ build' = build /\ loader' = loader /\ work' = work /\ text' = text /\ armed' = armed
      /\ symbols' = symbols /\ target' = target /\ ref' = ref /\ notifiers' = notifiers
      /\ late' = late
  BY DEF LoaderStays
<1>1. /\ Hooks' = Hooks /\ Eligible' = Eligible /\ Words' = Words /\ Writes' = Writes
      /\ \A i : Kind(i)' = Kind(i) /\ DetourWords(i)' = DetourWords(i)
  BY <1>0, SameBuild
<1>2. TraceType'
  <2>1. order' \in Nat
    <3>1. order' = order \/ order' = order + 1
      BY DEF TaskStep, TopMoves, PoolMove, PoolStays, Pushes, Pops, Faulty
    <3> QED
      BY <3>1 DEF CallInv, TraceType
  <2>2. stack' \in [Tasks -> Seq(Frame)] /\ \A u \in Tasks : Len(stack'[u]) <= Depth
    BY Shape DEF Stacks
  <2> QED
    BY <1>0, <1>1, <2>1, <2>2 DEF CallInv, TraceType
<1>3. FramesInv'
  BY TaskFrames
<1>4. RefInv'
  <2>1. (~There => \A u \in Tasks : stack'[u] = <<>>) /\ There' = There
    BY <1>0, Shape DEF CallInv, RefInv, There
  <2> QED
    BY <1>0, <2>1 DEF CallInv, RefInv
<1>5. NotifierInv'
  BY <1>0, <1>1 DEF CallInv, NotifierInv
<1>6. WorkInv'
  <2>1. (AllOld' <=> AllOld) /\ (There' <=> There) /\ (HeadLast' <=> HeadLast)
    <3>1. (AllOld' <=> AllOld) /\ (There' <=> There)
      BY <1>0 DEF AllOld, There
    <3> QED
      BY <1>0, <3>1, HeadLastStays
  <2>2. \A i, w : ToDo(i, w)' <=> ToDo(i, w)
    BY <1>0 DEF ToDo
  <2> QED
    BY <1>0, <1>1, <2>1, <2>2 DEF CallInv, WorkInv
<1> QED
  BY <1>2, <1>3, <1>4, <1>5, <1>6

(* Nobody comes into the stubs once they have been waited for.              *)
LEMMA TaskKeepsStubs ==
  ASSUME CallInv, StubsInv, NEW t \in Tasks, TaskStep(t), LoaderStays
  PROVE  StubsInv'
<1>1. SUFFICES ASSUME loader \in {"synced", "unloaded"}, ~build.preempt,
                      NEW u \in Tasks, NEW d \in DOMAIN stack'[u]
               PROVE  ~Inside(stack'[u][d])
  BY DEF StubsInv, Frames, LoaderStays
<1>2. \A v \in Tasks : \A e \in DOMAIN stack[v] : ~Inside(stack[v][e])
  BY <1>1 DEF StubsInv, Frames
<1>3. CASE u # t \/ Faulty
  <2>1. stack'[u] = stack[u]
    BY <1>3, Shape DEF Faulty
  <2> QED
    BY <1>2, <2>1
<1>4. CASE u = t /\ TopMoves(t)
  <2>1. PICK f : Move(t, f)
    BY <1>4 DEF TopMoves
  <2>2. stack[t] # <<>> /\ f \in Frame /\ Replace(t, f) /\ stack \in Stacks
    BY <2>1 DEF Move, CallInv, TraceType, Stacks
  <2>3. /\ Len(stack[t]) \in Nat \ {0} /\ DOMAIN stack[t] = 1..Len(stack[t])
        /\ DOMAIN stack'[t] = DOMAIN stack[t]
        /\ \A e \in 1..(Len(stack[t]) - 1) : stack'[t][e] = stack[t][e]
        /\ stack'[t][Len(stack[t])] = f
    BY <2>2, Replaced
  <2>4. ~Inside(Top(t))
    BY <1>2, <2>2, OnTop
  <2>5. ~Inside(f)
    BY <1>1, <2>1, <2>4 DEF Move
  <2>6. d \in 1..(Len(stack[t]) - 1) \/ d = Len(stack[t])
    BY <1>4, <2>3
  <2> QED
    BY <1>2, <1>4, <2>3, <2>5, <2>6
<1>5. CASE u = t /\ Pushes(t)
  <2>1. PICK f \in Frame : /\ f.place = "fetch"
                           /\ stack' = [stack EXCEPT ![t] = Append(@, f)]
    BY <1>5 DEF Pushes
  <2>2. stack \in Stacks
    BY DEF CallInv, TraceType, Stacks
  <2>3. /\ Len(stack[t]) \in Nat /\ DOMAIN stack[t] = 1..Len(stack[t])
        /\ DOMAIN stack'[t] = 1..(Len(stack[t]) + 1)
        /\ \A e \in DOMAIN stack[t] : stack'[t][e] = stack[t][e]
        /\ stack'[t][Len(stack[t]) + 1] = f
    BY <2>1, <2>2, Pushed
  <2>4. ~Inside(f)
    BY <2>1 DEF Inside, InStub
  <2>5. d \in DOMAIN stack[t] \/ d = Len(stack[t]) + 1
    BY <1>5, <2>3
  <2> QED
    BY <1>2, <1>5, <2>3, <2>4, <2>5
<1>6. CASE u = t /\ Pops(t)
  <2>1. stack[t] # <<>> /\ Pop(t) /\ stack \in Stacks
    BY <1>6 DEF Pops, CallInv, TraceType, Stacks
  <2>2. /\ Len(stack[t]) \in Nat \ {0} /\ DOMAIN stack[t] = 1..Len(stack[t])
        /\ DOMAIN stack'[t] = 1..(Len(stack[t]) - 1)
        /\ \A e \in 1..(Len(stack[t]) - 1) : stack'[t][e] = stack[t][e]
    BY <2>1, Popped
  <2>3. d \in DOMAIN stack[t] /\ d \in 1..(Len(stack[t]) - 1)
    BY <1>6, <2>2
  <2> QED
    BY <1>2, <1>6, <2>2, <2>3
<1> QED
  BY <1>3, <1>4, <1>5, <1>6 DEF TaskStep

(* PoolInv in the next state.                                               *)
LEMMA NextPool ==
  ASSUME \A e \in pool' : /\ e.task \in Tasks /\ e.home \in DOMAIN stack'[e.task]
                          /\ Diverts(stack'[e.task][e.home])
                          /\ e.order \in Nat /\ e.order <= order',
         \A u \in Tasks : \A d \in DOMAIN stack'[u] :
           Diverts(stack'[u][d]) => \E e \in pool' : e.task = u /\ e.home = d,
         \A e, o \in pool' : e.task = o.task =>
           (e.home < o.home => e.order < o.order) /\ (e.home = o.home => e = o)
  PROVE  PoolInv'
<1>1. \A u, d : Diverted(u, d)' <=> Diverts(stack'[u][d])
  BY DEF Diverted, Diverts
<1> QED
  BY <1>1 DEF PoolInv

(* An entry added on top, one taken from there, or the pool as it was.      *)
LEMMA TaskKeepsPool ==
  ASSUME CallInv, NEW t \in Tasks, TaskStep(t)
  PROVE  PoolInv'
<1> DEFINE n == Len(stack[t])
<1>1. /\ \A e \in pool : /\ e.task \in Tasks /\ e.home \in DOMAIN stack[e.task]
                         /\ Diverts(stack[e.task][e.home])
                         /\ e.order \in Nat /\ e.order <= order
      /\ \A u \in Tasks : \A d \in DOMAIN stack[u] :
           Diverts(stack[u][d]) => \E e \in pool : e.task = u /\ e.home = d
      /\ \A e, o \in pool : e.task = o.task =>
           (e.home < o.home => e.order < o.order) /\ (e.home = o.home => e = o)
  BY DEF CallInv, PoolInv, Diverted, Diverts
<1>2. /\ stack \in Stacks /\ order \in Nat /\ n \in Nat /\ DOMAIN stack[t] = 1..n
      /\ \A u \in Tasks \ {t} : stack'[u] = stack[u]
  BY Shape DEF CallInv, TraceType, Stacks
<1>3. ASSUME Faulty
      PROVE  PoolInv'
  <2>1. stack' = stack /\ pool' = pool /\ order' = order
    BY <1>3 DEF Faulty
  <2> QED
    BY <1>1, <2>1 DEF PoolInv, Diverted, Diverts
<1>4. ASSUME Pushes(t)
      PROVE  PoolInv'
  <2>1. PICK f \in Frame : /\ f.place = "fetch" /\ stack' = [stack EXCEPT ![t] = Append(@, f)]
                           /\ pool' = pool /\ order' = order
    BY <1>4 DEF Pushes, PoolStays
  <2>2. /\ DOMAIN stack'[t] = 1..(n + 1) /\ stack'[t][n + 1] = f
        /\ \A d \in 1..n : stack'[t][d] = stack[t][d]
    BY <1>2, <2>1, Pushed
  <2>3. ~Diverts(f)
    BY <2>1 DEF Diverts
  <2>4. \A d \in DOMAIN stack'[t] : d \in 1..n \/ d = n + 1
    BY <1>2, <2>2
  <2> HIDE DEF n
  <2>5. \A e \in pool : e.home \in DOMAIN stack'[e.task] /\ Diverts(stack'[e.task][e.home])
    <3> SUFFICES ASSUME NEW e \in pool
                 PROVE  e.home \in DOMAIN stack'[e.task] /\ Diverts(stack'[e.task][e.home])
      OBVIOUS
    <3>1. CASE e.task = t
      <4>1. e.home \in 1..n /\ e.home \in 1..(n + 1)
        BY <1>1, <1>2, <3>1
      <4> QED
        BY <1>1, <2>2, <3>1, <4>1
    <3>2. CASE e.task # t
      BY <1>1, <1>2, <3>2
    <3> QED
      BY <3>1, <3>2
  <2>6. ASSUME NEW u \in Tasks, NEW d \in DOMAIN stack'[u], Diverts(stack'[u][d])
        PROVE  \E e \in pool : e.task = u /\ e.home = d
    <3>1. CASE u = t
      <4>1. d \in 1..n
        BY <2>2, <2>3, <2>4, <2>6, <3>1
      <4> QED
        BY <1>1, <1>2, <2>2, <2>6, <3>1, <4>1
    <3>2. CASE u # t
      BY <1>1, <1>2, <2>6, <3>2
    <3> QED
      BY <3>1, <3>2
  <2> QED
    BY <1>1, <2>1, <2>5, <2>6, NextPool
<1>5. ASSUME Pops(t)
      PROVE  PoolInv'
  <2>1. stack[t] # <<>> /\ Pop(t) /\ ~Diverts(Top(t)) /\ pool' = pool /\ order' = order
    BY <1>5 DEF Pops, PoolStays
  <2>2. /\ n \in Nat \ {0} /\ DOMAIN stack'[t] = 1..(n - 1)
        /\ \A d \in 1..(n - 1) : stack'[t][d] = stack[t][d]
    BY <1>2, <2>1, Popped
  <2>3. ~Diverts(stack[t][n])
    BY <2>1, OnTop
  <2> HIDE DEF n
  <2>5. \A e \in pool : e.home \in DOMAIN stack'[e.task] /\ Diverts(stack'[e.task][e.home])
    <3> SUFFICES ASSUME NEW e \in pool
                 PROVE  e.home \in DOMAIN stack'[e.task] /\ Diverts(stack'[e.task][e.home])
      OBVIOUS
    <3>1. CASE e.task = t
      <4>1. e.home \in 1..n /\ e.home # n
        BY <1>1, <1>2, <2>3, <3>1
      <4>2. e.home \in 1..(n - 1)
        BY <2>2, <4>1
      <4> QED
        BY <1>1, <2>2, <3>1, <4>2
    <3>2. CASE e.task # t
      BY <1>1, <1>2, <3>2
    <3> QED
      BY <3>1, <3>2
  <2>6. ASSUME NEW u \in Tasks, NEW d \in DOMAIN stack'[u], Diverts(stack'[u][d])
        PROVE  \E e \in pool : e.task = u /\ e.home = d
    <3>1. CASE u = t
      <4>1. d \in 1..(n - 1) /\ d \in 1..n
        BY <2>2, <3>1
      <4> QED
        BY <1>1, <1>2, <2>2, <2>6, <3>1, <4>1
    <3>2. CASE u # t
      BY <1>1, <1>2, <2>6, <3>2
    <3> QED
      BY <3>1, <3>2
  <2> QED
    BY <1>1, <2>1, <2>5, <2>6, NextPool
<1>6. ASSUME NEW f, Move(t, f), PoolMove(t, f)
      PROVE  PoolInv'
  <2>1. stack[t] # <<>> /\ f \in Frame /\ Replace(t, f)
    BY <1>6 DEF Move
  <2>2. /\ n \in Nat \ {0} /\ n \in 1..n /\ DOMAIN stack'[t] = 1..n /\ stack'[t][n] = f
        /\ \A d \in 1..(n - 1) : stack'[t][d] = stack[t][d]
    BY <1>2, <2>1, Replaced
  <2>3. Top(t) = stack[t][n]
    BY <2>1, OnTop
  <2> HIDE DEF n
  <2>4. \A d \in 1..n : d # n => stack'[t][d] = stack[t][d]
    <3>1. \A d \in 1..n : d # n => d \in 1..(n - 1)
      BY <2>2
    <3> QED
      BY <2>2, <3>1
  <2>5. \A u \in Tasks : DOMAIN stack'[u] = DOMAIN stack[u]
    BY <1>2, <2>2
  <2>6. \A u \in Tasks : \A d \in DOMAIN stack[u] :
          (u = t /\ d = n) \/ stack'[u][d] = stack[u][d]
    BY <1>2, <2>4
  <2>7. CASE (Diverts(f) <=> Diverts(Top(t))) /\ PoolStays
    <3>1. \A u \in Tasks : \A d \in DOMAIN stack[u] :
            Diverts(stack'[u][d]) <=> Diverts(stack[u][d])
      BY <2>2, <2>3, <2>6, <2>7
    <3>2. pool' = pool /\ order' = order
      BY <2>7 DEF PoolStays
    <3> QED
      BY <1>1, <2>5, <3>1, <3>2, NextPool
  <2>8. CASE ~Diverts(Top(t)) /\ Diverts(f) /\ order' = order + 1 /\ pool' = pool \union {EntryOf(t)}
    <3> DEFINE new == EntryOf(t)
    <3>1. new.task = t /\ new.order = order + 1 /\ new.home = n
      BY DEF EntryOf, n
    <3> HIDE DEF new
    <3>2. \A e \in pool : ~(e.task = t /\ e.home = n)
      BY <1>1, <2>3, <2>8
    <3>3. \A e \in pool' : e \in pool \/ e = new
      BY <2>8 DEF new
    <3>4. ASSUME NEW e \in pool'
          PROVE  /\ e.task \in Tasks /\ e.home \in DOMAIN stack'[e.task]
                 /\ Diverts(stack'[e.task][e.home]) /\ e.order \in Nat /\ e.order <= order'
      <4>1. CASE e \in pool
        <5>1. e.order \in Nat /\ e.order <= order /\ e.task \in Tasks /\ e.home \in DOMAIN stack[e.task]
          BY <1>1, <4>1
        <5>2. e.order <= order'
          BY <1>2, <2>8, <5>1
        <5>3. stack'[e.task][e.home] = stack[e.task][e.home]
          BY <2>6, <3>2, <4>1, <5>1
        <5> QED
          BY <1>1, <2>5, <4>1, <5>1, <5>2, <5>3
      <4>2. CASE e = new
        BY <1>2, <2>2, <2>8, <3>1, <4>2
      <4> QED
        BY <3>3, <4>1, <4>2
    <3>5. ASSUME NEW u \in Tasks, NEW d \in DOMAIN stack'[u], Diverts(stack'[u][d])
          PROVE  \E e \in pool' : e.task = u /\ e.home = d
      <4>1. CASE u = t /\ d = n
        <5>1. new \in pool'
          BY <2>8 DEF new
        <5> QED
          BY <3>1, <4>1, <5>1
      <4>2. CASE ~(u = t /\ d = n)
        BY <1>1, <2>5, <2>6, <2>8, <3>5, <4>2
      <4> QED
        BY <4>1, <4>2
    <3>6. ASSUME NEW e \in pool', NEW o \in pool', e.task = o.task
          PROVE  (e.home < o.home => e.order < o.order) /\ (e.home = o.home => e = o)
      <4>1. CASE e \in pool /\ o \in pool
        BY <1>1, <3>6, <4>1
      <4>2. CASE e \in pool /\ o = new
        <5>1. e.order \in Nat /\ e.order <= order /\ e.home # n
          BY <1>1, <3>1, <3>2, <3>6, <4>2
        <5> QED
          BY <1>2, <3>1, <4>2, <5>1
      <4>3. CASE e = new /\ o \in pool
        <5>1. o.home \in 1..n /\ o.home # n
          BY <1>1, <1>2, <3>1, <3>2, <3>6, <4>3
        <5> QED
          BY <2>2, <3>1, <4>3, <5>1
      <4>4. CASE e = new /\ o = new
        BY <2>2, <3>1, <4>4
      <4> QED
        BY <3>3, <4>1, <4>2, <4>3, <4>4
    <3> QED
      BY <3>4, <3>5, <3>6, NextPool
  <2>9. CASE /\ Diverts(Top(t)) /\ ~Diverts(f) /\ order' = order /\ pool' = pool \ Mine(t)
             /\ \E e \in Mine(t) : e.home = n
    <3>1. PICK m \in Mine(t) : m.home = n
      BY <2>9
    <3>2. m \in pool /\ m.task = t /\ \A o \in pool : o.task = t => m.order >= o.order
      BY DEF Mine, Takes
    <3>3. ASSUME NEW o \in Mine(t)
          PROVE  o = m
      <4>1. o \in pool /\ o.task = t /\ o.order >= m.order
        BY <3>2 DEF Mine, Takes
      <4>2. o.home \in 1..n /\ o.order \in Nat /\ m.order \in Nat
        BY <1>1, <1>2, <3>2, <4>1
      <4>3. ~(o.home < m.home)
        <5>1. o.home < m.home => o.order < m.order
          BY <1>1, <3>2, <4>1
        <5> QED
          BY <4>1, <4>2, <5>1
      <4>4. o.home = m.home
        BY <2>2, <3>1, <4>2, <4>3
      <4> QED
        BY <1>1, <3>2, <4>1, <4>4
    <3>4. \A e \in pool' : e \in pool /\ e # m
      BY <2>9
    <3>5. \A e \in pool : e # m => e \in pool'
      BY <2>9, <3>3
    <3>6. \A e \in pool' : ~(e.task = t /\ e.home = n)
      BY <1>1, <3>1, <3>2, <3>4
    <3>7. ASSUME NEW e \in pool'
          PROVE  /\ e.task \in Tasks /\ e.home \in DOMAIN stack'[e.task]
                 /\ Diverts(stack'[e.task][e.home]) /\ e.order \in Nat /\ e.order <= order'
      <4>1. e \in pool /\ e.task \in Tasks /\ e.home \in DOMAIN stack[e.task]
        BY <1>1, <3>4
      <4>2. stack'[e.task][e.home] = stack[e.task][e.home]
        BY <2>6, <3>6, <4>1
      <4> QED
        BY <1>1, <2>5, <2>9, <4>1, <4>2
    <3>8. ASSUME NEW u \in Tasks, NEW d \in DOMAIN stack'[u], Diverts(stack'[u][d])
          PROVE  \E e \in pool' : e.task = u /\ e.home = d
      <4>1. ~(u = t /\ d = n)
        BY <2>2, <2>9, <3>8
      <4>2. PICK e \in pool : e.task = u /\ e.home = d
        BY <1>1, <2>5, <2>6, <3>8, <4>1
      <4>3. e # m
        BY <3>1, <3>2, <4>1, <4>2
      <4> QED
        BY <3>5, <4>2, <4>3
    <3> QED
      BY <1>1, <3>4, <3>7, <3>8, NextPool
  <2> QED
    BY <1>6, <2>7, <2>8, <2>9 DEF PoolMove, n
<1> QED
  BY <1>3, <1>4, <1>5, <1>6 DEF TaskStep, TopMoves

(***************************************************************************)
(* The loader and wl leave the calls alone.                                *)
(***************************************************************************)
LEMMA CallsStay ==
  ASSUME TraceInv, Calling
  PROVE  PoolInv' /\ stack' \in Stacks /\ order' \in Nat
         /\ \A t \in Tasks : Len(stack'[t]) <= Depth
<1>1. pool' = pool /\ order' = order /\ stack' = stack
  BY DEF Calling
<1> QED
  BY <1>1 DEF TraceInv, PoolInv, Diverted, TraceType, Stacks

(* Loading plans.                                                           *)
LEMMA LoadKeeps ==
  ASSUME TraceInv, Load
  PROVE  TraceInv'
<1>1. /\ loader = "absent" /\ faults = {} /\ faults' = faults /\ Calling /\ build' = build
      /\ work' = work /\ text' = text /\ armed' = armed /\ target' = target /\ ref' = ref
      /\ late' = late /\ stack' = stack
  BY DEF Load, NoFault, Calling
<1>2. loader' \in {"planned", "dry", "refused"}
  BY DEF Load, Load34, Load26, Gives
<1>3. /\ notifiers' \subseteq {"die", "module"}
      /\ loader' = "planned" /\ (\E i \in Eligible : Kind(i) = "break") => "die" \in notifiers'
  <2>1. notifiers \subseteq {"die", "module"}
    BY DEF TraceInv, TraceType
  <2>2. CASE Load34
    BY <2>1, <2>2 DEF Load34, Gives
  <2>3. CASE Load26
    <3>1. notifiers' = notifiers
      BY <2>3 DEF Load26, Gives
    <3>2. ~ \E i \in Eligible : Kind(i) = "break"
      BY <2>3, KindSplits DEF Load26
    <3> QED
      BY <2>1, <3>1, <3>2
  <2> QED
    BY <2>2, <2>3 DEF Load
<1>4. symbols' /\ loader' # "planned" => Eligible = {} \/ ~build.flush
  <2>1. CASE Load34
    BY <2>1 DEF Load34
  <2>2. CASE Load26
    BY <2>2 DEF Load26, Gives
  <2> QED
    BY <2>1, <2>2 DEF Load
<1>5. /\ Hooks' = Hooks /\ Eligible' = Eligible /\ Words' = Words /\ Writes' = Writes
      /\ \A i : Kind(i)' = Kind(i)
  BY <1>1, SameBuild
<1>6. PoolInv' /\ stack' \in Stacks /\ order' \in Nat /\ \A t \in Tasks : Len(stack'[t]) <= Depth
  BY <1>1, CallsStay
<1>7. TraceType'
  BY <1>1, <1>2, <1>3, <1>5, <1>6 DEF TraceInv, TraceType, Stacks
<1>8. FramesInv'
  BY <1>1, FramesStay DEF TraceInv, TraceType, Disarming
<1>9. RefInv'
  BY <1>1, <1>2 DEF TraceInv, RefInv, There
<1>10. NotifierInv'
  BY <1>1, <1>2, <1>3, <1>4, <1>5 DEF NotifierInv
<1>11. WorkInv'
  <2>1. work = <<>> /\ AllOld /\ armed = {}
    BY <1>1 DEF TraceInv, WorkInv
  <2>2. work' = <<>> /\ AllOld' /\ armed' = {}
    BY <1>1, <2>1 DEF AllOld
  <2> QED
    BY <1>2, <2>2 DEF WorkInv
<1>12. StubsInv'
  BY <1>2 DEF StubsInv
<1> QED
  BY <1>1, <1>6, <1>7, <1>8, <1>9, <1>10, <1>11, <1>12
     DEF TraceInv, DetourSound, ReturnsHome, StrayOnlyWhenLate

(* The reference is asked for, and the writes are lined up.                 *)
LEMMA ReferenceKeeps ==
  ASSUME TraceInv, Reference
  PROVE  TraceInv'
<1>1. /\ loader = "planned" /\ faults = {} /\ faults' = faults /\ Calling /\ build' = build
      /\ loader' = "arming" /\ work' = ArmAll /\ text' = text /\ armed' = armed
      /\ symbols' = symbols /\ target' = target /\ stack' = stack
      /\ notifiers' \in {notifiers, notifiers \union {"module"}}
      /\ late' = (target # "live") /\ RefGet
  BY DEF Reference, NoFault, Calling
<1>2. build \in Builds /\ AllOld /\ armed = {} /\ text \in [Words -> {"old", "new"}]
  BY <1>1 DEF TraceInv, TraceType, WorkInv
<1>3. /\ Hooks' = Hooks /\ Eligible' = Eligible /\ Words' = Words /\ Writes' = Writes
      /\ \A i : Kind(i)' = Kind(i) /\ DetourWords(i)' = DetourWords(i)
  BY <1>1, SameBuild
<1>4. PoolInv' /\ stack' \in Stacks /\ order' \in Nat /\ \A t \in Tasks : Len(stack'[t]) <= Depth
  BY <1>1, CallsStay
<1>5. ref' \in [mod : BOOLEAN, held : BOOLEAN] /\ (ref'.held => ref'.mod)
      /\ (target = "live" => ref'.held)
  BY <1>1 DEF RefGet
<1>6. TraceType'
  <2>1. work' \in Seq(Writes)
    BY <1>1, <1>2, ArmWork
  <2> QED
    BY <1>1, <1>3, <1>4, <1>5, <2>1 DEF TraceInv, TraceType, Stacks
<1>7. FramesInv'
  BY <1>1, FramesStay DEF TraceInv, TraceType, Disarming
<1>8. RefInv'
  BY <1>1, <1>5 DEF TraceInv, RefInv, There
<1>9. NotifierInv'
  BY <1>1, <1>3 DEF TraceInv, NotifierInv
<1>10. WorkInv'
  <2>1. \A x \in Words : text'[x] = "old"
    BY <1>1, <1>2 DEF AllOld
  <2>2. \A k \in DOMAIN work' : work'[k].to = "new" /\ work'[k].hook \in Eligible
                                /\ work'[k].word \in DetourWords(work'[k].hook) \union {0}
    BY <1>1, <1>2, ArmWork
  <2>3. \A i \in Eligible : ToDo(i, 0)'
    BY <1>1, <1>2, ArmWork DEF ToDo
  <2>4. HeadLast'
    <3> SUFFICES ASSUME NEW i \in Eligible, Kind(i) = "classic"
                 PROVE  /\ text'[<<i, 1>>] # "new"
                        /\ \A k \in DOMAIN work' : work'[k].hook = i /\ work'[k].word = 1 =>
                             \A w \in 2..4 : \E j \in 1..(k - 1) :
                               work'[j].hook = i /\ work'[j].word = w
      BY <1>3 DEF HeadLast
    <3>1. text'[<<i, 1>>] = "old"
      <4>1. \A w \in 1..4 : <<i, w>> \in Words
        BY <1>2, WordsKnown
      <4>2. <<i, 1>> \in Words
        BY <4>1
      <4> QED
        BY <2>1, <4>2
    <3>2. \A k \in DOMAIN ArmAll :
            Kind(ArmAll[k].hook) = "classic" /\ ArmAll[k].word = 1 =>
              \A w \in 2..4 : \E j \in 1..(k - 1) :
                ArmAll[j].hook = ArmAll[k].hook /\ ArmAll[j].word = w
      BY <1>2, ArmWork
    <3> QED
      BY <1>1, <3>1, <3>2
  <2>5. \A k \in DOMAIN work' : (work[k].to = "new" /\ work[k].hook \in Eligible
            /\ work[k].word \in DetourWords(work[k].hook) \union {0})'
    <3>1. \A i : DetourWords(i)' = DetourWords(i)
      BY <1>3
    <3> QED
      BY <1>3, <2>2, <3>1
  <2>6. \A x \in Words' : text'[x] # "new"
    BY <1>3, <2>1
  <2> QED
    BY <1>1, <1>3, <2>3, <2>4, <2>5, <2>6 DEF WorkInv
<1>11. StubsInv'
  BY <1>1 DEF StubsInv
<1> QED
  BY <1>1, <1>4, <1>6, <1>7, <1>8, <1>9, <1>10, <1>11
     DEF TraceInv, DetourSound, ReturnsHome, StrayOnlyWhenLate

(***************************************************************************)
(* A write done.                                                           *)
(***************************************************************************)
LEMMA TailOf ==
  ASSUME NEW S, NEW s \in Seq(S), s # <<>>
  PROVE  /\ Len(s) \in Nat \ {0} /\ DOMAIN s = 1..Len(s) /\ Head(s) = s[1] /\ Head(s) \in S
         /\ Tail(s) \in Seq(S) /\ DOMAIN Tail(s) = 1..(Len(s) - 1)
         /\ \A k \in 1..(Len(s) - 1) : Tail(s)[k] = s[k + 1]
<1>1. Len(s) \in Nat \ {0} /\ DOMAIN s = 1..Len(s)
  BY EmptySeq
<1>2. Head(s) = s[1] /\ Head(s) \in S
  BY <1>1
<1> QED
  BY <1>1, <1>2

(* What a write does, and what is left to do after it.                      *)
LEMMA Written ==
  ASSUME TraceInv, work # <<>>, WriteNext, NoFault
  PROVE  LET s == Head(work)
         IN  /\ s \in Writes /\ s = work[1] /\ 1 \in DOMAIN work
             /\ work' \in Seq(Writes)
             /\ \A k \in DOMAIN work : k = 1 \/ (k - 1 \in DOMAIN work' /\ work'[k - 1] = work[k])
             /\ \A k \in DOMAIN work' : k \in Nat /\ k + 1 \in DOMAIN work /\ work'[k] = work[k + 1]
             /\ text' \in [Words -> {"old", "new"}]
             /\ \A x \in Words : \/ text'[x] = text[x]
                                 \/ /\ There \/ target = "notified"
                                    /\ s.word # 0 /\ x = <<s.hook, s.word>> /\ text'[x] = s.to
             /\ (There /\ s.word # 0 /\ <<s.hook, s.word>> \in Words)
                  => text'[<<s.hook, s.word>>] = s.to
             /\ s.word = 0 => armed' = IF s.to = "new" THEN armed \union {s.hook}
                                                       ELSE armed \ {s.hook}
             /\ s.word # 0 => armed' = armed
             /\ \A f \in faults' : f.what = "stray" /\ target = "gone"
<1> DEFINE s == Head(work)
<1>1. work \in Seq(Writes) /\ text \in [Words -> {"old", "new"}] /\ faults = {}
      /\ target \in {"live", "going", "notified", "gone"}
  BY DEF TraceInv, TraceType, NoFault
<1>2. /\ Len(work) \in Nat \ {0} /\ DOMAIN work = 1..Len(work) /\ s = work[1] /\ s \in Writes
      /\ Tail(work) \in Seq(Writes) /\ DOMAIN Tail(work) = 1..(Len(work) - 1)
      /\ \A k \in 1..(Len(work) - 1) : Tail(work)[k] = work[k + 1]
  BY <1>1, TailOf
<1>3. work' = Tail(work)
  BY DEF WriteNext
<1>4. s.to \in {"old", "new"}
  BY <1>2 DEF Writes
<1>5. CASE s.word = 0
  <2>1. /\ armed' = IF s.to = "new" THEN armed \union {s.hook} ELSE armed \ {s.hook}
        /\ text' = text /\ faults' = {}
    BY <1>1, <1>5 DEF WriteNext
  <2> HIDE DEF s
  <2>2. \A k \in DOMAIN work : k = 1 \/ (k - 1 \in 1..(Len(work) - 1) /\ (k - 1) + 1 = k)
    BY <1>2
  <2>3. \A k \in DOMAIN work : k = 1 \/ (k - 1 \in DOMAIN work' /\ work'[k - 1] = work[k])
    BY <1>2, <1>3, <2>2
  <2>4. 1 \in DOMAIN work /\ work' \in Seq(Writes)
        /\ \A k \in DOMAIN work' : k \in Nat /\ k + 1 \in DOMAIN work /\ work'[k] = work[k + 1]
    BY <1>2, <1>3
  <2> QED
    BY <1>1, <1>2, <1>5, <2>1, <2>3, <2>4 DEF s
<1>6. CASE s.word # 0
  <2>1. /\ armed' = armed
        /\ IF target = "gone" THEN text' = text /\ \A f \in faults' : f.what = "stray"
           ELSE text' = [text EXCEPT ![<<s.hook, s.word>>] = s.to] /\ faults' = {}
    BY <1>1, <1>6 DEF WriteNext
  <2> HIDE DEF s
  <2>2. \A k \in DOMAIN work : k = 1 \/ (k - 1 \in 1..(Len(work) - 1) /\ (k - 1) + 1 = k)
    BY <1>2
  <2>3. \A k \in DOMAIN work : k = 1 \/ (k - 1 \in DOMAIN work' /\ work'[k - 1] = work[k])
    BY <1>2, <1>3, <2>2
  <2>4. 1 \in DOMAIN work /\ work' \in Seq(Writes)
        /\ \A k \in DOMAIN work' : k \in Nat /\ k + 1 \in DOMAIN work /\ work'[k] = work[k + 1]
    BY <1>2, <1>3
  <2>5. text' \in [Words -> {"old", "new"}]
    BY <1>1, <1>4, <2>1
  <2>6. \A x \in Words : \/ text'[x] = text[x]
                         \/ /\ There \/ target = "notified"
                            /\ x = <<s.hook, s.word>> /\ text'[x] = s.to
    BY <1>1, <2>1 DEF There
  <2>7. There /\ <<s.hook, s.word>> \in Words => text'[<<s.hook, s.word>>] = s.to
    BY <1>1, <2>1 DEF There
  <2>8. \A f \in faults' : f.what = "stray" /\ target = "gone"
    BY <2>1
  <2> QED
    BY <1>2, <1>6, <2>1, <2>3, <2>4, <2>5, <2>6, <2>7, <2>8 DEF s
<1> QED
  BY <1>5, <1>6

(* Arming: the words change to new ones, a classic detour's head last.      *)
LEMMA ArmWrites ==
  ASSUME TraceInv, Arm, work # <<>>, WriteNext
  PROVE  WorkInv'
<1> DEFINE s == Head(work)
<1>1. /\ loader = "arming" /\ NoFault /\ build' = build /\ loader' = loader /\ target' = target
  BY DEF Arm
<1>2. /\ s \in Writes /\ s = work[1] /\ 1 \in DOMAIN work /\ work' \in Seq(Writes)
      /\ \A k \in DOMAIN work : k = 1 \/ (k - 1 \in DOMAIN work' /\ work'[k - 1] = work[k])
      /\ \A k \in DOMAIN work' : k \in Nat /\ k + 1 \in DOMAIN work /\ work'[k] = work[k + 1]
      /\ text' \in [Words -> {"old", "new"}]
      /\ \A x \in Words : text'[x] = text[x] \/ (s.word # 0 /\ x = <<s.hook, s.word>> /\ text'[x] = s.to)
      /\ (There /\ s.word # 0 /\ <<s.hook, s.word>> \in Words)
                  => text'[<<s.hook, s.word>>] = s.to
      /\ s.word = 0 => armed' = IF s.to = "new" THEN armed \union {s.hook} ELSE armed \ {s.hook}
      /\ s.word # 0 => armed' = armed
  BY <1>1, Written
<1>3. build \in Builds /\ Eligible' = Eligible /\ Words' = Words
      /\ \A i : Kind(i)' = Kind(i) /\ DetourWords(i)' = DetourWords(i)
  BY <1>1, SameBuild DEF TraceInv, TraceType
<1>4. \A k \in DOMAIN work : work[k].to = "new" /\ work[k].hook \in Eligible
                             /\ work[k].word \in DetourWords(work[k].hook) \union {0}
  BY <1>1 DEF TraceInv, WorkInv
<1> HIDE DEF s
<1>5. \A x \in Words : text'[x] = "new" => text[x] = "new" \/ (s.word # 0 /\ x = <<s.hook, s.word>>)
  BY <1>2
<1>6. \A x \in Words : text[x] = "new" => text'[x] = "new"
  BY <1>2, <1>4
<1>7. \A k \in DOMAIN work' : work'[k].to = "new" /\ work'[k].hook \in Eligible
                              /\ work'[k].word \in DetourWords(work'[k].hook) \union {0}
  BY <1>2, <1>4
<1>8. \A x \in Words : text'[x] = "new" => x[1] \in Eligible /\ x[2] \in DetourWords(x[1])
  <2> SUFFICES ASSUME NEW x \in Words, text'[x] = "new"
               PROVE  x[1] \in Eligible /\ x[2] \in DetourWords(x[1])
    OBVIOUS
  <2>1. CASE text[x] = "new"
    BY <1>1, <2>1 DEF TraceInv, WorkInv
  <2>2. CASE s.word # 0 /\ x = <<s.hook, s.word>>
    BY <1>2, <1>4, <2>2
  <2> QED
    BY <1>5, <2>1, <2>2
<1>9. ASSUME There, NEW i \in Eligible
      PROVE  i \in armed' \/ \E k \in DOMAIN work' : work'[k].hook = i /\ work'[k].word = 0
  <2>1. CASE i \in armed
    BY <1>2, <1>4, <2>1
  <2>2. CASE ToDo(i, 0)
    <3>1. PICK k \in DOMAIN work : work[k].hook = i /\ work[k].word = 0
      BY <2>2 DEF ToDo
    <3>2. CASE k = 1
      BY <1>2, <1>4, <3>1, <3>2
    <3>3. CASE k # 1
      BY <1>2, <3>1, <3>3
    <3> QED
      BY <3>2, <3>3
  <2> QED
    BY <1>1, <1>9, <2>1, <2>2 DEF TraceInv, WorkInv
<1>10. ASSUME There
       PROVE  HeadLast'
  <2>1. HeadLast
    BY <1>1, <1>10 DEF TraceInv, WorkInv
  <2> SUFFICES ASSUME NEW i \in Eligible, Kind(i) = "classic"
               PROVE  /\ text'[<<i, 1>>] = "new" => \A w \in 2..4 : text'[<<i, w>>] = "new"
                      /\ \A k \in DOMAIN work' : work'[k].hook = i /\ work'[k].word = 1 =>
                           \A w \in 2..4 : \/ text'[<<i, w>>] = "new"
                                           \/ \E j \in 1..(k - 1) :
                                                work'[j].hook = i /\ work'[j].word = w
    BY <1>3 DEF HeadLast, Tail234
  <2>2. \A w \in 1..4 : <<i, w>> \in Words
    BY <1>3, WordsKnown
  <2>3. ASSUME text'[<<i, 1>>] = "new", NEW w \in 2..4
        PROVE  text'[<<i, w>>] = "new"
    <3>1. <<i, 1>> \in Words /\ <<i, w>> \in Words
      BY <2>2
    <3>2. CASE text[<<i, 1>>] = "new"
      <4>1. text[<<i, w>>] = "new"
        BY <2>1, <3>2 DEF HeadLast, Tail234
      <4> QED
        BY <1>6, <3>1, <4>1
    <3>3. CASE <<i, 1>> = <<s.hook, s.word>>
      <4>1. work[1].hook = i /\ work[1].word = 1
        BY <1>2, <3>3
      <4>2. text[<<i, w>>] = "new" \/ \E j \in 1..(1 - 1) : work[j].hook = i /\ work[j].word = w
        <5>1. \A k \in DOMAIN work : work[k].hook = i /\ work[k].word = 1 =>
                \A v \in 2..4 : \/ text[<<i, v>>] = "new"
                                \/ \E j \in 1..(k - 1) : work[j].hook = i /\ work[j].word = v
          BY <2>1 DEF HeadLast
        <5>2. 1 \in DOMAIN work
          BY <1>2
        <5> QED
          BY <4>1, <5>1, <5>2
      <4> QED
        BY <1>6, <3>1, <4>2
    <3> QED
      BY <1>5, <2>3, <3>1, <3>2, <3>3
  <2>4. ASSUME NEW k \in DOMAIN work', work'[k].hook = i, work'[k].word = 1, NEW w \in 2..4
        PROVE  \/ text'[<<i, w>>] = "new"
               \/ \E j \in 1..(k - 1) : work'[j].hook = i /\ work'[j].word = w
    <3>1. k \in Nat /\ k + 1 \in DOMAIN work /\ work[k + 1].hook = i /\ work[k + 1].word = 1
          /\ <<i, w>> \in Words
      BY <1>2, <2>2, <2>4
    <3>2. CASE text[<<i, w>>] = "new"
      BY <1>6, <3>1, <3>2
    <3>3. ASSUME NEW j \in 1..((k + 1) - 1), work[j].hook = i, work[j].word = w
          PROVE  \/ text'[<<i, w>>] = "new"
                 \/ \E l \in 1..(k - 1) : work'[l].hook = i /\ work'[l].word = w
      <4>1. CASE j = 1
        <5>1. s.hook = i /\ s.word = w /\ s.to = "new" /\ w # 0
          BY <1>2, <1>4, <3>3, <4>1
        <5> QED
          BY <1>2, <1>10, <3>1, <5>1
      <4>2. CASE j # 1
        <5>1. j - 1 \in 1..(k - 1) /\ j \in DOMAIN work
          <6>1. DOMAIN work = 1..Len(work) /\ Len(work) \in Nat
            BY DEF TraceInv, TraceType
          <6> QED
            BY <3>1, <3>3, <4>2, <6>1
        <5>2. work'[j - 1] = work[j]
          BY <1>2, <4>2, <5>1
        <5> QED
          BY <3>3, <5>1, <5>2
      <4> QED
        BY <4>1, <4>2
    <3>4. \/ text[<<i, w>>] = "new"
          \/ \E j \in 1..((k + 1) - 1) : work[j].hook = i /\ work[j].word = w
      <4>1. \A m \in DOMAIN work : work[m].hook = i /\ work[m].word = 1 =>
              \A v \in 2..4 : \/ text[<<i, v>>] = "new"
                              \/ \E j \in 1..(m - 1) : work[j].hook = i /\ work[j].word = v
        BY <2>1 DEF HeadLast
      <4> QED
        BY <3>1, <4>1
    <3>5. CASE text[<<i, w>>] = "new"
      BY <3>2, <3>5
    <3>6. CASE \E j \in 1..((k + 1) - 1) : work[j].hook = i /\ work[j].word = w
      <4>1. PICK j \in 1..((k + 1) - 1) : work[j].hook = i /\ work[j].word = w
        BY <3>6
      <4> QED
        BY <3>3, <4>1
    <3> QED
      BY <3>4, <3>5, <3>6
  <2> QED
    BY <2>3, <2>4
<1>11. \A k \in DOMAIN work' : (work[k].to = "new" /\ work[k].hook \in Eligible
            /\ work[k].word \in DetourWords(work[k].hook) \union {0})'
  BY <1>3, <1>7
<1>12. \A i \in Eligible : There => (i \in armed \/ ToDo(i, 0))'
  BY <1>9 DEF ToDo
<1>13. There' <=> There
  BY <1>1 DEF There
<1> QED
  BY <1>1, <1>3, <1>8, <1>10, <1>11, <1>12, <1>13 DEF WorkInv

LEMMA ArmKeeps ==
  ASSUME TraceInv, Arm
  PROVE  TraceInv'
<1>1. /\ loader = "arming" /\ NoFault /\ Calling /\ build' = build /\ target' = target
      /\ ref' = ref /\ notifiers' = notifiers /\ late' = late /\ stack' = stack
      /\ \/ work # <<>> /\ WriteNext /\ loader' = loader /\ symbols' = symbols
         \/ /\ work = <<>> /\ loader' = "armed" /\ symbols' = FALSE
            /\ UNCHANGED <<work, text, armed, faults>>
  BY DEF Arm, Calling
<1>2. /\ Hooks' = Hooks /\ Eligible' = Eligible /\ Words' = Words /\ Writes' = Writes
      /\ \A i : Kind(i)' = Kind(i) /\ DetourWords(i)' = DetourWords(i)
  BY <1>1, SameBuild
<1>3. PoolInv' /\ stack' \in Stacks /\ order' \in Nat /\ \A t \in Tasks : Len(stack'[t]) <= Depth
  BY <1>1, CallsStay
<1>4. loader' \in {"arming", "armed"}
  BY <1>1
<1>5. RefInv'
  BY <1>1, <1>4 DEF TraceInv, RefInv, There
<1>6. NotifierInv'
  BY <1>1, <1>2, <1>4 DEF TraceInv, NotifierInv
<1>7. StubsInv'
  BY <1>4 DEF StubsInv
<1>8. CASE work # <<>> /\ WriteNext /\ loader' = loader
  <2> DEFINE s == Head(work)
  <2>1. /\ s = work[1] /\ 1 \in DOMAIN work /\ work' \in Seq(Writes)
        /\ text' \in [Words -> {"old", "new"}]
        /\ \A x \in Words : text'[x] = text[x] \/ (x = <<s.hook, s.word>> /\ text'[x] = s.to)
        /\ s.word = 0 => armed' = IF s.to = "new" THEN armed \union {s.hook} ELSE armed \ {s.hook}
        /\ s.word # 0 => armed' = armed
        /\ \A f \in faults' : f.what = "stray" /\ target = "gone"
    BY <1>1, <1>8, Written
  <2>2. s.to = "new" /\ s.hook \in Eligible
    BY <1>1, <2>1 DEF TraceInv, WorkInv
  <2> HIDE DEF s
  <2>3. armed' \subseteq Eligible
    BY <2>1, <2>2 DEF TraceInv, TraceType
  <2>4. TraceType'
    BY <1>1, <1>2, <1>3, <1>4, <2>1, <2>3 DEF TraceInv, TraceType, Stacks
  <2>5. \A x \in Words : text[x] = "new" => text'[x] = "new"
    BY <2>1, <2>2
  <2>6. FramesInv'
    BY <1>1, <2>5, FramesStay DEF TraceInv, TraceType, Disarming
  <2>7. WorkInv'
    BY <1>8, ArmWrites
  <2>8. FaultsSound'
    <3>1. target = "gone" => late
      BY <1>1 DEF TraceInv, RefInv
    <3>2. \A f \in faults' : f.what = "stray" /\ late'
      BY <1>1, <2>1, <3>1
    <3> QED
      BY <3>2 DEF FaultsSound, DetourSound, ReturnsHome, StrayOnlyWhenLate
  <2> QED
    BY <1>3, <1>5, <1>6, <1>7, <2>4, <2>6, <2>7, <2>8 DEF TraceInv, FaultsSound
<1>9. CASE work = <<>> /\ loader' = "armed" /\ UNCHANGED <<work, text, armed, faults>>
  <2>1. TraceType'
    BY <1>1, <1>2, <1>3, <1>4, <1>9 DEF TraceInv, TraceType, Stacks
  <2>2. FramesInv'
    BY <1>1, <1>9, FramesStay DEF TraceInv, TraceType, Disarming
  <2>3. WorkInv'
    <3>1. There => HeadLast /\ \A i \in Eligible : i \in armed \/ ToDo(i, 0)
      BY <1>1 DEF TraceInv, WorkInv
    <3>2. \A i : ~ToDo(i, 0)
      BY <1>9 DEF ToDo
    <3>3. There => HeadLast'
      <4>1. \A i : Tail234(i)' <=> Tail234(i)
        BY <1>9 DEF Tail234
      <4> QED
        BY <1>2, <1>9, <3>1, <4>1 DEF HeadLast
    <3>4. \A x \in Words : text[x] = "new" => x[1] \in Eligible /\ x[2] \in DetourWords(x[1])
      BY <1>1 DEF TraceInv, WorkInv
    <3>5. There' <=> There
      BY <1>1 DEF There
    <3> QED
      BY <1>2, <1>9, <3>1, <3>2, <3>3, <3>4, <3>5 DEF WorkInv
  <2>4. FaultsSound'
    BY <1>1, <1>9 DEF FaultsSound, DetourSound, ReturnsHome, StrayOnlyWhenLate, NoFault
  <2> QED
    BY <1>3, <1>5, <1>6, <1>7, <2>1, <2>2, <2>3, <2>4 DEF TraceInv, FaultsSound
<1> QED
  BY <1>1, <1>8, <1>9

(* The words are to be written back.                                        *)
LEMMA UnloadKeeps ==
  ASSUME TraceInv, Unload
  PROVE  TraceInv'
<1>1. /\ loader \in {"armed", "dry"} /\ faults = {} /\ faults' = faults /\ Calling
      /\ build' = build /\ loader' = "disarming" /\ work' = DisarmAll /\ text' = text
      /\ armed' = armed /\ symbols' = symbols /\ target' = target /\ ref' = ref
      /\ notifiers' = notifiers \ {"module"} /\ late' = late /\ stack' = stack
  BY DEF Unload, NoFault, Calling
<1>2. /\ Hooks' = Hooks /\ Eligible' = Eligible /\ Words' = Words /\ Writes' = Writes
      /\ \A i : Kind(i)' = Kind(i) /\ DetourWords(i)' = DetourWords(i)
  BY <1>1, SameBuild
<1>3. PoolInv' /\ stack' \in Stacks /\ order' \in Nat /\ \A t \in Tasks : Len(stack'[t]) <= Depth
  BY <1>1, CallsStay
<1>4. build \in Builds /\ armed \subseteq Eligible
  BY DEF TraceInv, TraceType
<1>5. /\ DisarmAll \in Seq(Writes)
      /\ \A k \in DOMAIN DisarmAll : DisarmAll[k].hook \in armed /\ DisarmAll[k].to = "old"
      /\ \A i \in armed : \A w \in DetourWords(i) \union {0} :
           \E k \in DOMAIN DisarmAll : DisarmAll[k].hook = i /\ DisarmAll[k].word = w
  BY <1>4, DisarmWork
<1>6. TraceType'
  BY <1>1, <1>2, <1>3, <1>5 DEF TraceInv, TraceType, Stacks
<1>7. FramesInv'
  BY <1>1, FramesStay DEF TraceInv, TraceType, Disarming
<1>8. RefInv'
  <2>1. loader = "dry" => work' = <<>>
    <3>1. loader = "dry" => armed = {}
      BY DEF TraceInv, WorkInv
    <3>2. armed = {} => DOMAIN DisarmAll = {}
      BY <1>5
    <3>3. DOMAIN DisarmAll = {} => DisarmAll = <<>>
      BY <1>5
    <3> QED
      BY <1>1, <3>1, <3>2, <3>3
  <2> QED
    BY <1>1, <2>1 DEF TraceInv, RefInv, There
<1>9. NotifierInv'
  BY <1>1, <1>2 DEF TraceInv, NotifierInv
<1>10. WorkInv'
  <2>1. \A i \in armed : \E k \in DOMAIN work' : work'[k].hook = i /\ work'[k].word = 0
    <3>1. \A i : 0 \in DetourWords(i) \union {0}
      OBVIOUS
    <3> QED
      BY <1>1, <1>5, <3>1
  <2>2. ASSUME There, NEW x \in Words, text[x] = "new"
        PROVE  \E k \in DOMAIN work' : work'[k].hook = x[1] /\ work'[k].word = x[2]
    <3>1. loader = "armed"
      <4>1. text \in [Words -> {"old", "new"}]
        BY DEF TraceInv, TraceType
      <4>2. ~AllOld
        BY <2>2, <4>1 DEF AllOld
      <4> QED
        BY <1>1, <4>2 DEF TraceInv, WorkInv
    <3>2. x[1] \in Eligible /\ x[2] \in DetourWords(x[1]) /\ Eligible \subseteq armed
      BY <2>2, <3>1 DEF TraceInv, WorkInv
    <3> QED
      BY <1>1, <1>5, <3>2
  <2>3. \A k \in DOMAIN work' : work'[k].to = "old"
    BY <1>1, <1>5
  <2>4. There' <=> There
    BY <1>1 DEF There
  <2>5. There => \A i \in armed' : ToDo(i, 0)'
    BY <1>1, <2>1 DEF ToDo
  <2>6. There => \A x \in Words' : text'[x] = "new" => ToDo(x[1], x[2])'
    BY <1>1, <1>2, <2>2 DEF ToDo
  <2> QED
    BY <1>1, <2>3, <2>4, <2>5, <2>6 DEF WorkInv
<1>11. StubsInv'
  BY <1>1 DEF StubsInv
<1> QED
  BY <1>1, <1>3, <1>6, <1>7, <1>8, <1>9, <1>10, <1>11
     DEF TraceInv, DetourSound, ReturnsHome, StrayOnlyWhenLate

LEMMA DisarmKeeps ==
  ASSUME TraceInv, Disarm
  PROVE  TraceInv'
<1>1. /\ loader = "disarming" /\ NoFault /\ Calling /\ build' = build /\ target' = target
      /\ ref' = ref /\ symbols' = symbols /\ late' = late /\ stack' = stack
      /\ \/ work # <<>> /\ WriteNext /\ loader' = loader /\ notifiers' = notifiers
         \/ /\ work = <<>> /\ loader' = "restored" /\ notifiers' = notifiers \ {"die"}
            /\ UNCHANGED <<work, text, armed, faults>>
  BY DEF Disarm, Calling
<1>2. /\ Hooks' = Hooks /\ Eligible' = Eligible /\ Words' = Words /\ Writes' = Writes
      /\ \A i : Kind(i)' = Kind(i) /\ DetourWords(i)' = DetourWords(i)
  BY <1>1, SameBuild
<1>3. PoolInv' /\ stack' \in Stacks /\ order' \in Nat /\ \A t \in Tasks : Len(stack'[t]) <= Depth
  BY <1>1, CallsStay
<1>4. loader' \in {"disarming", "restored"} /\ (There' <=> There)
  BY <1>1 DEF There
<1>5. StubsInv'
  BY <1>4 DEF StubsInv
<1>6. FramesInv'
  BY <1>1, <1>4, FramesStay DEF TraceInv, TraceType, Disarming
<1>7. CASE work # <<>> /\ WriteNext /\ loader' = loader /\ notifiers' = notifiers
  <2> DEFINE s == Head(work)
  <2>1. /\ s = work[1] /\ 1 \in DOMAIN work /\ work' \in Seq(Writes)
        /\ \A k \in DOMAIN work : k = 1 \/ (k - 1 \in DOMAIN work' /\ work'[k - 1] = work[k])
        /\ \A k \in DOMAIN work' : k \in Nat /\ k + 1 \in DOMAIN work /\ work'[k] = work[k + 1]
        /\ text' \in [Words -> {"old", "new"}]
        /\ \A x \in Words : text'[x] = text[x] \/ (x = <<s.hook, s.word>> /\ text'[x] = s.to)
        /\ (There /\ s.word # 0 /\ <<s.hook, s.word>> \in Words)
             => text'[<<s.hook, s.word>>] = s.to
        /\ s.word = 0 => armed' = IF s.to = "new" THEN armed \union {s.hook} ELSE armed \ {s.hook}
        /\ s.word # 0 => armed' = armed
        /\ \A f \in faults' : f.what = "stray" /\ target = "gone"
    BY <1>1, <1>7, Written
  <2>2. \A k \in DOMAIN work : work[k].to = "old"
    BY <1>1 DEF TraceInv, WorkInv
  <2>3. s.to = "old"
    BY <2>1, <2>2
  <2> HIDE DEF s
  <2>4. armed' \subseteq armed
    BY <2>1, <2>3
  <2>5. TraceType'
    BY <1>1, <1>2, <1>3, <1>4, <1>7, <2>1, <2>4 DEF TraceInv, TraceType, Stacks
  <2>6. RefInv'
    BY <1>1, <1>7 DEF TraceInv, RefInv, There
  <2>7. NotifierInv'
    BY <1>1, <1>2, <1>7 DEF TraceInv, NotifierInv
  <2>8. WorkInv'
    <3>1. \A k \in DOMAIN work' : work'[k].to = "old"
      BY <2>1, <2>2
    <3>2. ASSUME There, NEW i \in armed'
          PROVE  \E k \in DOMAIN work' : work'[k].hook = i /\ work'[k].word = 0
      <4>1. PICK k \in DOMAIN work : work[k].hook = i /\ work[k].word = 0
        BY <1>1, <2>4, <3>2 DEF TraceInv, WorkInv, ToDo
      <4>2. k # 1
        BY <2>1, <2>3, <4>1
      <4> QED
        BY <2>1, <4>1, <4>2
    <3>3. ASSUME There, NEW x \in Words, text'[x] = "new"
          PROVE  \E k \in DOMAIN work' : work'[k].hook = x[1] /\ work'[k].word = x[2]
      <4>1. x = <<x[1], x[2]>> /\ x[2] # 0
        BY WordsKnown DEF TraceInv, TraceType
      <4>2. text[x] = "new"
        BY <2>1, <2>3, <3>3
      <4>3. PICK k \in DOMAIN work : work[k].hook = x[1] /\ work[k].word = x[2]
        BY <1>1, <3>3, <4>2 DEF TraceInv, WorkInv, ToDo
      <4>4. k # 1
        <5>1. SUFFICES ASSUME k = 1
                       PROVE  FALSE
          OBVIOUS
        <5>2. s.hook = x[1] /\ s.word = x[2]
          BY <2>1, <4>3, <5>1
        <5>3. x = <<s.hook, s.word>> /\ s.word # 0
          BY <4>1, <5>2
        <5> QED
          BY <2>1, <2>3, <3>3, <5>3
      <4> QED
        BY <2>1, <4>3, <4>4
    <3>4. There => \A i \in armed' : ToDo(i, 0)'
      BY <3>2 DEF ToDo
    <3>5. There => \A x \in Words' : text'[x] = "new" => ToDo(x[1], x[2])'
      BY <1>2, <3>3 DEF ToDo
    <3> QED
      BY <1>1, <1>4, <1>7, <3>1, <3>4, <3>5 DEF WorkInv
  <2>9. FaultsSound'
    <3>1. target = "gone" => late
      BY <1>1, <1>7 DEF TraceInv, RefInv
    <3>2. \A f \in faults' : f.what = "stray" /\ late'
      BY <1>1, <2>1, <3>1
    <3> QED
      BY <3>2 DEF FaultsSound, DetourSound, ReturnsHome, StrayOnlyWhenLate
  <2> QED
    BY <1>3, <1>5, <1>6, <2>5, <2>6, <2>7, <2>8, <2>9 DEF TraceInv, FaultsSound
<1>8. CASE /\ work = <<>> /\ loader' = "restored" /\ notifiers' = notifiers \ {"die"}
           /\ UNCHANGED <<work, text, armed, faults>>
  <2>1. TraceType'
    BY <1>1, <1>2, <1>3, <1>4, <1>8 DEF TraceInv, TraceType, Stacks
  <2>2. RefInv'
    BY <1>1, <1>8 DEF TraceInv, RefInv, There
  <2>3. NotifierInv'
    BY <1>1, <1>2, <1>8 DEF TraceInv, TraceType, NotifierInv
  <2>4. WorkInv'
    <3>1. \A i, w : ~ToDo(i, w)
      BY <1>8 DEF ToDo
    <3>2. There => armed = {} /\ \A x \in Words : text[x] # "new"
      BY <1>1, <3>1 DEF TraceInv, WorkInv
    <3>3. There => AllOld'
      BY <1>8, <3>2 DEF TraceInv, TraceType, AllOld
    <3> QED
      BY <1>4, <1>8, <3>2, <3>3 DEF WorkInv
  <2>5. FaultsSound'
    BY <1>1, <1>8 DEF FaultsSound, DetourSound, ReturnsHome, StrayOnlyWhenLate, NoFault
  <2> QED
    BY <1>3, <1>5, <1>6, <2>1, <2>2, <2>3, <2>4, <2>5 DEF TraceInv, FaultsSound
<1> QED
  BY <1>1, <1>7, <1>8

(* The stubs are waited for, and let go.                                    *)
LEMMA SynchronizeKeeps ==
  ASSUME TraceInv, Synchronize
  PROVE  TraceInv'
<1>1. /\ loader = "restored" /\ faults = {} /\ faults' = faults /\ Calling /\ build' = build
      /\ loader' = "synced" /\ work' = work /\ text' = text /\ armed' = armed
      /\ symbols' = symbols /\ target' = target /\ notifiers' = notifiers /\ late' = late
      /\ stack' = stack /\ ref' = [ref EXCEPT !.held = @ /\ ~ref.mod]
      /\ build.preempt \/ \A f \in Frames : ~Inside(f)
  BY DEF Synchronize, NoFault, Calling
<1>2. /\ Hooks' = Hooks /\ Eligible' = Eligible /\ Words' = Words /\ Writes' = Writes
      /\ \A i : Kind(i)' = Kind(i) /\ DetourWords(i)' = DetourWords(i)
  BY <1>1, SameBuild
<1>3. PoolInv' /\ stack' \in Stacks /\ order' \in Nat /\ \A t \in Tasks : Len(stack'[t]) <= Depth
  BY <1>1, CallsStay
<1>4. ref' \in [mod : BOOLEAN, held : BOOLEAN] /\ ~ref'.held
  <2>1. ref \in [mod : BOOLEAN, held : BOOLEAN] /\ (ref.held => ref.mod)
    BY DEF TraceInv, TraceType, RefInv
  <2> QED
    BY <1>1, <2>1
<1>5. TraceType'
  BY <1>1, <1>2, <1>3, <1>4 DEF TraceInv, TraceType, Stacks
<1>6. FramesInv'
  BY <1>1, FramesStay DEF TraceInv, TraceType, Disarming
<1>7. RefInv'
  BY <1>1, <1>4 DEF TraceInv, RefInv, There
<1>8. NotifierInv'
  BY <1>1, <1>2 DEF TraceInv, NotifierInv
<1>9. WorkInv'
  <2>1. (AllOld' <=> AllOld) /\ (There' <=> There)
    BY <1>1 DEF AllOld, There
  <2> QED
    BY <1>1, <2>1 DEF TraceInv, WorkInv
<1>10. StubsInv'
  BY <1>1 DEF StubsInv, Frames
<1> QED
  BY <1>1, <1>3, <1>5, <1>6, <1>7, <1>8, <1>9, <1>10
     DEF TraceInv, DetourSound, ReturnsHome, StrayOnlyWhenLate

LEMMA FreeKeeps ==
  ASSUME TraceInv, Free
  PROVE  TraceInv'
<1>1. /\ loader = "synced" /\ Calling /\ build' = build
      /\ loader' = "unloaded" /\ work' = work /\ text' = text /\ armed' = armed
      /\ symbols' = symbols /\ target' = target /\ notifiers' = notifiers /\ late' = late
      /\ stack' = stack /\ ref' = ref
  BY DEF Free, Calling
<1>2. /\ Hooks' = Hooks /\ Eligible' = Eligible /\ Words' = Words /\ Writes' = Writes
      /\ \A i : Kind(i)' = Kind(i) /\ DetourWords(i)' = DetourWords(i)
  BY <1>1, SameBuild
<1>3. PoolInv' /\ stack' \in Stacks /\ order' \in Nat /\ \A t \in Tasks : Len(stack'[t]) <= Depth
  BY <1>1, CallsStay
<1>4. TraceType'
  BY <1>1, <1>2, <1>3 DEF TraceInv, TraceType, Stacks
<1>5. FramesInv'
  BY <1>1, FramesStay DEF TraceInv, TraceType, Disarming
<1>6. RefInv'
  BY <1>1 DEF TraceInv, RefInv, There
<1>7. NotifierInv'
  BY <1>1, <1>2 DEF TraceInv, NotifierInv
<1>8. WorkInv'
  <2>1. (AllOld' <=> AllOld) /\ (There' <=> There)
    BY <1>1 DEF AllOld, There
  <2> QED
    BY <1>1, <2>1 DEF TraceInv, WorkInv
<1>9. StubsInv'
  BY <1>1 DEF TraceInv, StubsInv, Frames
<1>10. FaultsSound'
  <2>1. faults' = {[what |-> "freed", kind |-> Kind(f.hook), first |-> f.place, phase |-> loader] :
                   f \in {g \in Frames : Inside(g)}}
    BY DEF Free
  <2>2. \A f \in faults' : f.what = "freed"
    BY <2>1
  <2>3. faults' # {} => build.preempt
    <3>1. ~build.preempt => \A f \in Frames : ~Inside(f)
      BY <1>1 DEF TraceInv, StubsInv
    <3> QED
      BY <2>1, <3>1
  <2> QED
    BY <1>1, <2>2, <2>3 DEF FaultsSound, DetourSound, ReturnsHome, StrayOnlyWhenLate
<1> QED
  BY <1>3, <1>4, <1>5, <1>6, <1>7, <1>8, <1>9, <1>10 DEF TraceInv, FaultsSound

(* wl goes, and the tracer's hold on it with it.                            *)
LEMMA TargetKeeps ==
  ASSUME TraceInv, Target
  PROVE  TraceInv'
<1>1. /\ faults = {} /\ faults' = faults /\ Calling /\ build' = build /\ loader' = loader
      /\ work' = work /\ text' = text /\ symbols' = symbols /\ notifiers' = notifiers
      /\ late' = late /\ stack' = stack
  BY DEF Target, TargetLeaves, TargetNotifies, TargetGone, NoFault, Calling
<1>2. /\ Hooks' = Hooks /\ Eligible' = Eligible /\ Words' = Words /\ Writes' = Writes
      /\ \A i : Kind(i)' = Kind(i) /\ DetourWords(i)' = DetourWords(i)
  BY <1>1, SameBuild
<1>3. PoolInv' /\ stack' \in Stacks /\ order' \in Nat /\ \A t \in Tasks : Len(stack'[t]) <= Depth
  BY <1>1, CallsStay
<1>4. /\ target' \in {"going", "notified", "gone"} /\ target' # target
      /\ ref' = ref \/ (ref' = [mod |-> FALSE, held |-> FALSE] /\ armed' = {} /\ target' = "notified")
      /\ armed' = armed \/ armed' = {}
      /\ target = "live" => ~ref.held /\ ref' = ref /\ armed' = armed /\ target' = "going"
      /\ target' = "going" => target = "live"
  BY DEF Target, TargetLeaves, TargetNotifies, TargetGone
<1>5. ref' \in [mod : BOOLEAN, held : BOOLEAN]
  <2>1. ref \in [mod : BOOLEAN, held : BOOLEAN]
    BY DEF TraceInv, TraceType
  <2>2. [mod |-> FALSE, held |-> FALSE] \in [mod : BOOLEAN, held : BOOLEAN]
    OBVIOUS
  <2> QED
    BY <1>4, <2>1, <2>2, Zenon
<1>6. TraceType'
  BY <1>1, <1>2, <1>3, <1>4, <1>5 DEF TraceInv, TraceType, Stacks
<1>7. FramesInv'
  BY <1>1, FramesStay DEF TraceInv, TraceType, Disarming
<1>8. ~There' => \A t \in Tasks : stack'[t] = <<>>
  <2>1. CASE TargetLeaves
    BY <2>1 DEF TargetLeaves, There
  <2>2. CASE TargetNotifies
    <3>1. ASSUME NEW t \in Tasks, NEW d \in DOMAIN stack[t]
          PROVE  FALSE
      <4>1. stack[t][d] \in Frames
        <5>1. stack[t][d] \in {stack[t][e] : e \in DOMAIN stack[t]}
          BY <3>1
        <5> QED
          BY <5>1, SMT DEF Frames
      <4> QED
        BY <2>2, <4>1 DEF TargetNotifies
    <3>2. \A t \in Tasks : stack[t] \in Seq(Frame)
      BY DEF TraceInv, TraceType
    <3>3. \A t \in Tasks : stack[t] = <<>>
      <4> SUFFICES ASSUME NEW t \in Tasks
                   PROVE  stack[t] = <<>>
        OBVIOUS
      <4>1. stack[t] \in Seq(Frame) /\ 1 \notin DOMAIN stack[t]
        BY <3>1, <3>2
      <4>2. stack[t] # <<>> => Len(stack[t]) \in Nat \ {0} /\ DOMAIN stack[t] = 1..Len(stack[t])
        BY <4>1, FrontOf
      <4> QED
        BY <4>1, <4>2
    <3> QED
      BY <1>1, <3>3
  <2>3. CASE TargetGone
    BY <1>1, <2>3 DEF TargetGone, TraceInv, RefInv, There
  <2> QED
    BY <2>1, <2>2, <2>3 DEF Target
<1>9. RefInv'
  BY <1>1, <1>4, <1>8 DEF TraceInv, RefInv
<1>10. NotifierInv'
  BY <1>1, <1>2 DEF TraceInv, NotifierInv
<1>11. WorkInv'
  <2>1. There' => There /\ armed' = armed
    BY <1>4 DEF There
  <2>2. AllOld' <=> AllOld
    BY <1>1 DEF AllOld
  <2>3. HeadLast' <=> HeadLast
    BY <1>1, HeadLastStays
  <2>4. \A i, w : ToDo(i, w)' <=> ToDo(i, w)
    BY <1>1 DEF ToDo
  <2> QED
    BY <1>1, <1>2, <1>4, <2>1, <2>2, <2>3, <2>4 DEF TraceInv, WorkInv
<1>12. StubsInv'
  BY <1>1 DEF TraceInv, StubsInv, Frames
<1> QED
  BY <1>1, <1>3, <1>6, <1>7, <1>9, <1>10, <1>11, <1>12
     DEF TraceInv, DetourSound, ReturnsHome, StrayOnlyWhenLate

LEMMA TaskKeepsTrace ==
  ASSUME TraceInv, seqno \in Nat, NEW t \in Tasks, Task(t)
  PROVE  TraceInv' /\ TaskStep(t) /\ CallInv
<1>1. CallInv
  BY DEF TraceInv, CallInv
<1>2. TaskStep(t) /\ LoaderStays /\ NoFault
  BY <1>1, TaskSteps
<1>3. TraceType' /\ FramesInv' /\ RefInv' /\ NotifierInv' /\ WorkInv'
  BY <1>1, <1>2, TaskKeeps
<1>4. StubsInv'
  BY <1>1, <1>2, TaskKeepsStubs DEF TraceInv
<1>5. PoolInv'
  BY <1>1, <1>2, TaskKeepsPool
<1>6. FaultsSound'
  <2>1. faults' = {} \/ FaultsSound'
    BY <1>2 DEF TaskStep, TopMoves, Move, Pushes, Pops, Faulty, NoFault
  <2> QED
    BY <2>1 DEF FaultsSound, DetourSound, ReturnsHome, StrayOnlyWhenLate
<1> QED
  BY <1>1, <1>2, <1>3, <1>4, <1>5, <1>6 DEF TraceInv, FaultsSound

LEMMA TraceStays ==
  ASSUME TraceInv, UNCHANGED traceVars
  PROVE  TraceInv'
<1>1. /\ build' = build /\ loader' = loader /\ work' = work /\ text' = text /\ armed' = armed
      /\ symbols' = symbols /\ target' = target /\ ref' = ref /\ notifiers' = notifiers
      /\ pool' = pool /\ order' = order /\ stack' = stack /\ late' = late /\ faults' = faults
  BY DEF traceVars
<1>2. /\ Hooks' = Hooks /\ Eligible' = Eligible /\ Words' = Words /\ Writes' = Writes
      /\ \A i : Kind(i)' = Kind(i) /\ DetourWords(i)' = DetourWords(i)
  BY <1>1, SameBuild
<1>3. TraceType'
  BY <1>1, <1>2 DEF TraceInv, TraceType
<1>4. FramesInv'
  BY <1>1, FramesStay DEF TraceInv, TraceType
<1>5. RefInv' /\ NotifierInv' /\ StubsInv' /\ PoolInv'
  BY <1>1, <1>2 DEF TraceInv, RefInv, There, NotifierInv, StubsInv, Frames, PoolInv, Diverted
<1>6. WorkInv'
  <2>1. (AllOld' <=> AllOld) /\ (There' <=> There)
    BY <1>1 DEF AllOld, There
  <2>2. HeadLast' <=> HeadLast
    BY <1>1, HeadLastStays
  <2>3. \A i, w : ToDo(i, w)' <=> ToDo(i, w)
    BY <1>1 DEF ToDo
  <2> QED
    BY <1>1, <1>2, <2>1, <2>2, <2>3 DEF TraceInv, WorkInv
<1> QED
  BY <1>1, <1>3, <1>4, <1>5, <1>6 DEF TraceInv, DetourSound, ReturnsHome, StrayOnlyWhenLate

LEMMA TraceInit ==
  ASSUME Init
  PROVE  TraceInv
<1>1. /\ build \in Builds /\ loader = "absent" /\ work = <<>> /\ armed = {} /\ symbols = FALSE
      /\ text = [x \in Words |-> "old"]
      /\ target = "live" /\ ref = [mod |-> FALSE, held |-> FALSE]
      /\ notifiers = {} /\ pool = {} /\ order = 0
      /\ stack = [t \in Tasks |-> <<>>] /\ late = FALSE /\ faults = {}
  BY DEF Init, Words
<1>2. \A t \in Tasks : stack[t] = <<>> /\ DOMAIN stack[t] = {} /\ Len(stack[t]) = 0
                       /\ stack[t] \in Seq(Frame)
  BY <1>1
<1>3. stack \in [Tasks -> Seq(Frame)] /\ \A t \in Tasks : Len(stack[t]) <= Depth
  BY <1>1, <1>2, BoundsAssumption
<1>4. TraceType
  <2>1. work \in Seq(Writes) /\ text \in [Words -> {"old", "new"}]
    BY <1>1
  <2>2. loader \in {"absent", "refused", "planned", "dry", "arming", "armed", "disarming",
                    "restored", "synced", "unloaded"}
        /\ target \in {"live", "going", "notified", "gone"}
        /\ ref \in [mod : BOOLEAN, held : BOOLEAN] /\ order \in Nat /\ late \in BOOLEAN
    BY <1>1
  <2>3. armed \subseteq Eligible /\ notifiers \subseteq {"die", "module"}
    BY <1>1
  <2> QED
    BY <1>1, <1>3, <2>1, <2>2, <2>3 DEF TraceType
<1>5. FramesInv
  BY <1>2 DEF FramesInv
<1>6. RefInv /\ NotifierInv /\ StubsInv
  BY <1>1 DEF RefInv, There, NotifierInv, StubsInv
<1>7. WorkInv
  BY <1>1 DEF WorkInv, AllOld
<1>8. PoolInv
  BY <1>1, <1>2 DEF PoolInv
<1> QED
  BY <1>1, <1>4, <1>5, <1>6, <1>7, <1>8 DEF TraceInv, DetourSound, ReturnsHome, StrayOnlyWhenLate

(***************************************************************************)
(* The buffer.  Its counters wrap at a multiple of its size.               *)
(***************************************************************************)
LEMMA Divides ==
  ASSUME NEW F \in Nat \ {0}, NEW a \in Nat
  PROVE  a = (F * (a \div F)) + (a % F) /\ a \div F \in Nat /\ a % F \in 0..(F - 1)
OBVIOUS

LEMMA OneRemainder ==
  ASSUME NEW F \in Nat \ {0}, NEW q \in Int, NEW r \in 0..(F - 1), NEW p \in Int,
         NEW s \in 0..(F - 1), (F * q) + r = (F * p) + s
  PROVE  q = p /\ r = s
<1>1. CASE q < p
  <2>1. F * (p - q) = r - s /\ p - q >= 1
    BY <1>1
  <2>2. F * (p - q) >= F
    BY <2>1
  <2> QED
    BY <2>1, <2>2
<1>2. CASE q > p
  <2>1. F * (q - p) = s - r /\ q - p >= 1
    BY <1>2
  <2>2. F * (q - p) >= F
    BY <2>1
  <2> QED
    BY <2>1, <2>2
<1>3. CASE q = p
  BY <1>3
<1> QED
  BY <1>1, <1>2, <1>3

LEMMA Apart ==
  ASSUME NEW F \in Nat \ {0}, NEW a \in Nat, NEW b \in Nat, a < b, b - a < F
  PROVE  a % F # b % F
<1>1. a % F \in 0..(F - 1) /\ b % F \in 0..(F - 1) /\ a \div F \in Nat /\ b \div F \in Nat
  BY Divides
<1>2. a = (F * (a \div F)) + (a % F) /\ b = (F * (b \div F)) + (b % F)
  BY Divides
<1> SUFFICES ASSUME a % F = b % F
             PROVE  FALSE
  OBVIOUS
<1> DEFINE d == (b \div F) - (a \div F)
<1>3. d \in Int /\ F * d = b - a
  BY <1>1, <1>2
<1> HIDE DEF d
<1>4. CASE d >= 1
  <2>1. F * d >= F
    BY <1>3, <1>4
  <2> QED
    BY <1>3, <2>1
<1>5. CASE d <= 0
  <2>1. F * d <= 0
    BY <1>3, <1>5
  <2> QED
    BY <1>3, <2>1
<1> QED
  BY <1>3, <1>4, <1>5

(* A counter that has wrapped meets the same slots.                         *)
LEMMA Wrapped ==
  ASSUME NEW F \in Nat \ {0}, NEW C \in Nat, C % F = 0, NEW a \in Nat
  PROVE  (a + C) % F = a % F
<1>1. a = (F * (a \div F)) + (a % F) /\ a \div F \in Nat /\ a % F \in 0..(F - 1)
  BY Divides
<1>2. C = F * (C \div F) /\ C \div F \in Nat
  <2>1. C = (F * (C \div F)) + (C % F) /\ C \div F \in Nat
    BY Divides
  <2> QED
    BY <2>1
<1> DEFINE b == a + C
           q == (a \div F) + (C \div F)
<1>3. b \in Nat /\ q \in Nat /\ b = (F * q) + (a % F)
  BY <1>1, <1>2
<1> HIDE DEF b, q
<1>4. b = (F * (b \div F)) + (b % F) /\ b \div F \in Nat /\ b % F \in 0..(F - 1)
  BY <1>3, Divides
<1>5. b % F = a % F
  <2> DEFINE x == b \div F
             y == b % F
             z == a % F
  <2>1. x \in Int /\ q \in Int /\ y \in 0..(F - 1) /\ z \in 0..(F - 1)
        /\ (F * x) + y = (F * q) + z
    BY <1>1, <1>3, <1>4
  <2> HIDE DEF x, y, z
  <2>2. y = z
    BY <2>1, OneRemainder
  <2> QED
    BY <2>2 DEF y, z
<1> QED
  BY <1>5 DEF b

LEMMA OnceAround ==
  ASSUME NEW C \in Nat \ {0}, NEW a \in 0..(2 * C - 1)
  PROVE  a % C = IF a < C THEN a ELSE a - C
<1> DEFINE x == a \div C
           y == a % C
<1>1. a = (C * x) + y /\ x \in Int /\ y \in 0..(C - 1)
  <2>1. a \in Nat
    OBVIOUS
  <2> QED
    BY <2>1, Divides
<1> HIDE DEF x, y
<1>2. CASE a < C
  <2>1. (C * x) + y = (C * 0) + a /\ a \in 0..(C - 1) /\ 0 \in Int
    BY <1>1, <1>2
  <2>2. y = a
    BY <1>1, <2>1, OneRemainder
  <2> QED
    BY <1>2, <2>2 DEF y
<1>3. CASE ~(a < C)
  <2> DEFINE r == a - C
  <2>1. (C * x) + y = (C * 1) + r /\ r \in 0..(C - 1) /\ 1 \in Int
    BY <1>1, <1>3
  <2> HIDE DEF r
  <2>2. y = r
    BY <1>1, <2>1, OneRemainder
  <2> QED
    BY <1>3, <2>2 DEF y, r
<1> QED
  BY <1>2, <1>3

(* What is in the buffer, by its places.                                    *)
Room == Fill < FifoRecs

BufferInv == BufferType /\ stored = got \o Contents

LEMMA FillKnown ==
  ASSUME head \in 0..(Counters - 1), tail \in 0..(Counters - 1)
  PROVE  Fill = (IF head >= tail THEN head - tail ELSE (head + Counters) - tail) /\ Fill \in Nat
<1>1. Counters \in Nat \ {0}
  BY BufferAssumption
<1> DEFINE a == head + Counters - tail
<1>2. a \in 0..(2 * Counters - 1) /\ a = (head + Counters) - tail
  BY <1>1
<1>3. Fill = a % Counters
  BY DEF Fill
<1> HIDE DEF a
<1>4. Fill = IF a < Counters THEN a ELSE a - Counters
  BY <1>1, <1>2, <1>3, OnceAround
<1> QED
  BY <1>1, <1>2, <1>4

(* The slot that is written next is the one after the last in use.          *)
LEMMA HeadSlot ==
  ASSUME head \in 0..(Counters - 1), tail \in 0..(Counters - 1)
  PROVE  head % FifoRecs = (tail + Fill) % FifoRecs
<1>1. FifoRecs \in Nat \ {0} /\ Counters \in Nat /\ Counters % FifoRecs = 0 /\ head \in Nat
  BY BufferAssumption
<1>2. CASE head >= tail
  <2>1. tail + Fill = head
    BY <1>1, <1>2, FillKnown
  <2> QED
    BY <2>1
<1>3. CASE ~(head >= tail)
  <2>1. tail + Fill = head + Counters
    BY <1>1, <1>3, FillKnown
  <2>2. (head + Counters) % FifoRecs = head % FifoRecs
    BY <1>1, Wrapped
  <2> QED
    BY <2>1, <2>2
<1> QED
  BY <1>2, <1>3

LEMMA NextCount ==
  ASSUME NEW c \in 0..(Counters - 1)
  PROVE  /\ (c + 1) % Counters = (IF c + 1 = Counters THEN 0 ELSE c + 1)
         /\ (c + 1) % Counters \in 0..(Counters - 1)
<1>1. Counters \in Nat \ {0} /\ Counters > 1
  BY BufferAssumption
<1> DEFINE a == c + 1
<1>2. a \in 0..(2 * Counters - 1)
  BY <1>1
<1> HIDE DEF a
<1>3. a % Counters = IF a < Counters THEN a ELSE a - Counters
  BY <1>1, <1>2, OnceAround
<1> QED
  BY <1>1, <1>3 DEF a

(* Sequences put together.                                                  *)
IsJoined(u, v, c) == u = v \o c

LEMMA Elements ==
  ASSUME NEW S, NEW u \in Seq(S), NEW v \in Seq(S), NEW c \in Seq(S),
         Len(u) = Len(v) + Len(c),
         \A k \in 1..Len(v) : u[k] = v[k],
         \A k \in 1..Len(c) : u[Len(v) + k] = c[k]
  PROVE  IsJoined(u, v, c)
<1> DEFINE w == v \o c
<1>1. /\ w \in Seq(S) /\ Len(w) = Len(v) + Len(c)
      /\ \A k \in 1..Len(v) : w[k] = v[k]
      /\ \A k \in 1..Len(c) : w[Len(v) + k] = c[k]
  OBVIOUS
<1>2. Len(v) \in Nat /\ Len(c) \in Nat
  OBVIOUS
<1> HIDE DEF w
<1>3. \A k \in 1..Len(w) :
        k \in 1..Len(v) \/ (k - Len(v) \in 1..Len(c) /\ k = Len(v) + (k - Len(v)))
  BY <1>1, <1>2
<1>4. \A k \in 1..Len(w) : u[k] = w[k]
  BY <1>1, <1>3
<1>5. u = w
  BY <1>1, <1>4, SeqEqual
<1> QED
  BY <1>5 DEF w, IsJoined

AppendsLast(u, v, n) == Append(u \o v, n) = u \o Append(v, n)

LEMMA AppendAfter ==
  ASSUME NEW S, NEW u \in Seq(S), NEW v \in Seq(S), NEW n \in S
  PROVE  AppendsLast(u, v, n)
<1> DEFINE w == <<n>>
<1>1. w \in Seq(S) /\ u \o v \in Seq(S)
  OBVIOUS
<1>2. Append(u \o v, n) = (u \o v) \o w
  BY <1>1, AppendIsConcat
<1>3. Append(v, n) = v \o w
  BY AppendIsConcat
<1> HIDE DEF w
<1>4. (u \o v) \o w = u \o (v \o w)
  BY <1>1, ConcatAssociative
<1> QED
  BY <1>2, <1>3, <1>4 DEF AppendsLast

LEMMA HeadMoves ==
  ASSUME NEW S, NEW u \in Seq(S), NEW c \in Seq(S), c # <<>>
  PROVE  u \o c = Append(u, Head(c)) \o Tail(c)
<1> DEFINE w == <<Head(c)>>
<1>1. Head(c) \in S /\ Tail(c) \in Seq(S) /\ c = w \o Tail(c)
  <2>1. Head(c) \in S /\ Tail(c) \in Seq(S)
    BY TailOf
  <2>2. /\ Len(c) \in Nat \ {0} /\ DOMAIN Tail(c) = 1..(Len(c) - 1) /\ Head(c) = c[1]
        /\ \A k \in 1..(Len(c) - 1) : Tail(c)[k] = c[k + 1]
    BY TailOf
  <2> DEFINE x == Head(c)
             t == Tail(c)
  <2>3. w \in Seq(S) /\ Len(w) = 1 /\ w[1] = x
    BY <2>1
  <2>4. Len(t) = Len(c) - 1 /\ t \in Seq(S)
    BY <2>1, <2>2
  <2> HIDE DEF w, x, t
  <2>5. \A k \in 1..1 : c[k] = w[k]
    BY <2>2, <2>3 DEF x
  <2>6. \A k \in 1..Len(t) : c[Len(w) + k] = t[k]
    BY <2>2, <2>3, <2>4 DEF t
  <2>7. c = w \o t
    <3>1. Len(c) = Len(w) + Len(t)
      BY <2>2, <2>3, <2>4
    <3>2. \A k \in 1..Len(w) : c[k] = w[k]
      BY <2>3, <2>5
    <3> QED
      BY <2>3, <2>4, <2>6, <3>1, <3>2, Elements DEF IsJoined
  <2> QED
    BY <2>1, <2>7 DEF t
<1>2. w \in Seq(S)
  BY <1>1
<1>3. Append(u, Head(c)) = u \o w
  BY <1>1, AppendIsConcat
<1> HIDE DEF w
<1>4. (u \o w) \o Tail(c) = u \o (w \o Tail(c))
  BY <1>1, <1>2, ConcatAssociative
<1> QED
  BY <1>1, <1>3, <1>4

LEMMA SlotKnown ==
  ASSUME BufferType, NEW k \in Nat
  PROVE  (tail + k) % FifoRecs \in 0..(FifoRecs - 1) /\ slots[(tail + k) % FifoRecs] \in Nat
<1>1. FifoRecs \in Nat \ {0} /\ tail + k \in Nat
  BY BufferAssumption DEF BufferType
<1>2. (tail + k) % FifoRecs \in 0..(FifoRecs - 1)
  BY <1>1, Divides
<1> QED
  BY <1>2 DEF BufferType

LEMMA ContentsTyped ==
  ASSUME BufferType
  PROVE  /\ Fill \in Nat /\ Contents \in Seq(Nat) /\ Len(Contents) = Fill
         /\ \A k \in 1..Fill : Contents[k] = slots[(tail + k - 1) % FifoRecs]
<1>1. Fill \in Nat
  BY FillKnown DEF BufferType
<1>2. ASSUME NEW k \in 1..Fill
      PROVE  slots[(tail + k - 1) % FifoRecs] \in Nat
  <2>1. k - 1 \in Nat /\ tail + k - 1 = tail + (k - 1)
    BY <1>1 DEF BufferType
  <2> QED
    BY <2>1, SlotKnown
<1>3. Contents \in [1..Fill -> Nat]
  BY <1>2 DEF Contents
<1> QED
  BY <1>1, <1>3 DEF Contents

(* A record put into the buffer comes out after those that are in it.       *)
LEMMA PutKeeps ==
  ASSUME BufferInv, Fill < FifoRecs, NEW n \in Nat, Put(n),
         fifo' = fifo, tail' = tail, reader' = reader, got' = got, reported' = reported,
         seqno' = seqno, drops' \in Nat
  PROVE  BufferInv' /\ Fill' = Fill + 1
<1> DEFINE h == head % FifoRecs
           L == Fill
<1>1. /\ FifoRecs \in Nat \ {0} /\ Counters \in Nat /\ Counters > FifoRecs
      /\ head \in 0..(Counters - 1) /\ tail \in 0..(Counters - 1)
      /\ slots \in [0..(FifoRecs - 1) -> Nat] /\ stored \in Seq(Nat) /\ got \in Seq(Nat)
  BY BufferAssumption DEF BufferInv, BufferType
<1>2. slots' = [slots EXCEPT ![h] = n] /\ head' = (head + 1) % Counters
      /\ stored' = Append(stored, n)
  BY DEF Put
<1>3. h \in 0..(FifoRecs - 1)
  <2>1. head \in Nat
    BY <1>1
  <2> QED
    BY <1>1, <2>1, Divides
<1>4. head' \in 0..(Counters - 1) /\ head' = (IF head + 1 = Counters THEN 0 ELSE head + 1)
  BY <1>1, <1>2, NextCount
<1>5. L \in Nat /\ L = (IF head >= tail THEN head - tail ELSE (head + Counters) - tail)
  BY <1>1, FillKnown
<1>6. Fill' = (IF head' >= tail THEN head' - tail ELSE (head' + Counters) - tail)
  <2>1. (Fill = (IF head >= tail THEN head - tail ELSE (head + Counters) - tail))'
    <3> SUFFICES Fill' = (IF head' >= tail' THEN head' - tail' ELSE (head' + Counters) - tail')
      OBVIOUS
    <3> DEFINE a == head' + Counters - tail'
    <3>1. Counters \in Nat \ {0} /\ a \in 0..(2 * Counters - 1) /\ a = (head' + Counters) - tail'
      BY <1>1, <1>4
    <3>2. Fill' = a % Counters
      BY DEF Fill
    <3> HIDE DEF a
    <3>3. Fill' = IF a < Counters THEN a ELSE a - Counters
      BY <3>1, <3>2, OnceAround
    <3> QED
      BY <1>1, <1>4, <3>1, <3>3
  <2> QED
    BY <2>1
<1>7. Fill' = L + 1
  BY <1>1, <1>4, <1>5, <1>6
<1>8. BufferType'
  <2>1. slots' \in [0..(FifoRecs - 1) -> Nat]
    BY <1>1, <1>2
  <2>2. stored' \in Seq(Nat)
    BY <1>1, <1>2
  <2>3. Fill' <= FifoRecs
    BY <1>1, <1>5, <1>7
  <2> QED
    BY <1>1, <1>4, <2>1, <2>2, <2>3 DEF BufferInv, BufferType
<1>9. h = (tail + L) % FifoRecs
  BY <1>1, HeadSlot
<1>10. ASSUME NEW k \in 1..L
       PROVE  slots'[(tail + k - 1) % FifoRecs] = slots[(tail + k - 1) % FifoRecs]
  <2> DEFINE a == tail + k - 1
             b == tail + L
  <2>1. a \in Nat /\ b \in Nat /\ a < b /\ b - a < FifoRecs
    <3>1. L < FifoRecs
      OBVIOUS
    <3> HIDE DEF L
    <3> QED
      BY <1>1, <1>5, <3>1
  <2> HIDE DEF a, b
  <2>2. a % FifoRecs # b % FifoRecs /\ a % FifoRecs \in 0..(FifoRecs - 1)
    BY <1>1, <2>1, Apart, Divides
  <2>3. a % FifoRecs # h
    BY <1>9, <2>2 DEF b
  <2> HIDE DEF h
  <2>4. slots'[a % FifoRecs] = slots[a % FifoRecs]
    BY <1>1, <1>2, <2>2, <2>3
  <2> QED
    BY <2>4 DEF a
<1>11. slots'[(tail + (L + 1) - 1) % FifoRecs] = n
  <2>1. tail + (L + 1) - 1 = tail + L
    BY <1>1, <1>5
  <2>2. slots'[h] = n
    BY <1>1, <1>2, <1>3
  <2> QED
    BY <1>9, <2>1, <2>2
<1>12. Contents \in Seq(Nat) /\ Len(Contents) = L
       /\ \A k \in 1..L : Contents[k] = slots[(tail + k - 1) % FifoRecs]
  BY ContentsTyped DEF BufferInv
<1>13. Contents' = [i \in 1..(L + 1) |-> slots'[(tail + i - 1) % FifoRecs]]
  BY <1>7 DEF Contents
<1> HIDE DEF L, h
<1>14. Contents' = Append(Contents, n)
  <2> DEFINE c == Append(Contents, n)
             e == [i \in 1..(L + 1) |-> slots'[(tail + i - 1) % FifoRecs]]
  <2>1. c \in Seq(Nat) /\ Len(c) = L + 1 /\ (\A k \in 1..L : c[k] = Contents[k]) /\ c[L + 1] = n
    BY <1>5, <1>12
  <2>2. \A k \in 1..L : e[k] = slots'[(tail + k - 1) % FifoRecs]
    BY <1>5
  <2>3. e[L + 1] = n
    BY <1>5, <1>11
  <2> HIDE DEF c
  <2>4. \A k \in 1..(L + 1) : e[k] \in Nat
    <3>1. \A k \in 1..(L + 1) : k \in 1..L \/ k = L + 1
      BY <1>5
    <3> HIDE DEF e
    <3>2. \A k \in 1..L : e[k] \in Nat
      <4>1. \A k \in 1..L : Contents[k] \in Nat
        BY <1>5, <1>12
      <4> QED
        BY <1>10, <1>12, <2>2, <4>1
    <3> QED
      BY <2>3, <3>1, <3>2
  <2>5. e \in Seq(Nat) /\ Len(e) = L + 1
    <3>1. e \in [1..(L + 1) -> Nat]
      BY <2>4
    <3> HIDE DEF e
    <3> QED
      BY <1>5, <3>1
  <2> HIDE DEF e
  <2>6. \A k \in 1..(L + 1) : e[k] = c[k]
    <3>1. \A k \in 1..(L + 1) : k \in 1..L \/ k = L + 1
      BY <1>5
    <3> QED
      BY <1>10, <1>12, <2>1, <2>2, <2>3, <3>1
  <2>7. e = c
    BY <2>1, <2>5, <2>6, SeqEqual
  <2> QED
    BY <1>13, <2>7 DEF c, e
<1>15. stored' = got' \o Contents'
  <2>1. stored = got \o Contents
    BY DEF BufferInv
  <2>2. Append(got \o Contents, n) = got \o Append(Contents, n)
    <3> DEFINE v == Contents
    <3>1. got \in Seq(Nat) /\ v \in Seq(Nat)
      BY <1>1, <1>12
    <3> HIDE DEF v
    <3>2. AppendsLast(got, v, n)
      BY <3>1, AppendAfter
    <3> QED
      BY <3>2 DEF v, AppendsLast
  <2> QED
    BY <1>2, <1>14, <2>1, <2>2
<1> QED
  BY <1>7, <1>8, <1>15 DEF BufferInv, L

(* A record read.                                                           *)
LEMMA ReadKeeps ==
  ASSUME BufferInv, ReadRecord
  PROVE  BufferInv' /\ Fill > 0 /\ Fill' = Fill - 1 /\ Len(got') = Len(got) + 1
<1> DEFINE L == Fill
<1>1. /\ FifoRecs \in Nat \ {0} /\ Counters \in Nat \ {0} /\ Counters % FifoRecs = 0
      /\ head \in 0..(Counters - 1) /\ tail \in 0..(Counters - 1)
      /\ slots \in [0..(FifoRecs - 1) -> Nat] /\ stored \in Seq(Nat) /\ got \in Seq(Nat)
      /\ L <= FifoRecs
  BY BufferAssumption DEF BufferInv, BufferType
<1>2. /\ L > 0 /\ got' = Append(got, slots[tail % FifoRecs]) /\ tail' = (tail + 1) % Counters
      /\ fifo' = fifo /\ slots' = slots /\ head' = head /\ seqno' = seqno /\ drops' = drops
      /\ stored' = stored /\ reported' = reported /\ reader' = "out"
  BY DEF ReadRecord
<1>3. tail' \in 0..(Counters - 1) /\ tail' = (IF tail + 1 = Counters THEN 0 ELSE tail + 1)
  BY <1>1, <1>2, NextCount
<1>4. L \in Nat /\ L = (IF head >= tail THEN head - tail ELSE (head + Counters) - tail)
  BY <1>1, FillKnown
<1>5. Fill' = (IF head >= tail' THEN head - tail' ELSE (head + Counters) - tail')
  <2> DEFINE a == head + Counters - tail'
  <2>1. a \in 0..(2 * Counters - 1) /\ a = (head + Counters) - tail'
    BY <1>1, <1>3
  <2>2. Fill' = a % Counters
    BY <1>2 DEF Fill
  <2> HIDE DEF a
  <2>3. Fill' = IF a < Counters THEN a ELSE a - Counters
    BY <1>1, <2>1, <2>2, OnceAround
  <2> QED
    BY <1>1, <1>3, <2>1, <2>3
<1>6. Fill' = L - 1
  BY <1>1, <1>2, <1>3, <1>4, <1>5
<1>7. Contents \in Seq(Nat) /\ Len(Contents) = L
      /\ \A k \in 1..L : Contents[k] = slots[(tail + k - 1) % FifoRecs]
  BY ContentsTyped DEF BufferInv
<1>8. Contents' = [i \in 1..(L - 1) |-> slots[(tail' + i - 1) % FifoRecs]]
  BY <1>2, <1>6 DEF Contents
<1>9. Contents # <<>> /\ Head(Contents) = slots[tail % FifoRecs]
  <2>1. Contents # <<>>
    BY <1>2, <1>7
  <2>2. Head(Contents) = Contents[1]
    BY <1>7, <2>1, TailOf
  <2>3. tail + 1 - 1 = tail /\ 1 \in 1..L
    BY <1>1, <1>2, <1>4
  <2> QED
    BY <1>7, <2>1, <2>2, <2>3
<1>10. ASSUME NEW k \in Nat \ {0}
       PROVE  (tail' + k - 1) % FifoRecs = (tail + (k + 1) - 1) % FifoRecs
  <2>1. CASE tail + 1 = Counters
    <3>1. tail' + k - 1 = k - 1 /\ tail + (k + 1) - 1 = (k - 1) + Counters /\ k - 1 \in Nat
      BY <1>1, <1>3, <2>1
    <3>2. ((k - 1) + Counters) % FifoRecs = (k - 1) % FifoRecs
      BY <1>1, <3>1, Wrapped
    <3> QED
      BY <3>1, <3>2
  <2>2. CASE tail + 1 # Counters
    <3>1. tail' + k - 1 = tail + (k + 1) - 1
      BY <1>1, <1>3, <2>2
    <3> QED
      BY <3>1
  <2> QED
    BY <2>1, <2>2
<1> HIDE DEF L
<1>11. Contents' = Tail(Contents)
  <2>1. /\ Tail(Contents) \in Seq(Nat) /\ DOMAIN Tail(Contents) = 1..(L - 1)
        /\ \A k \in 1..(L - 1) : Tail(Contents)[k] = Contents[k + 1]
    BY <1>7, <1>9, TailOf
  <2>2. \A k \in 1..(L - 1) : Contents[k + 1] = slots[(tail' + k - 1) % FifoRecs]
    <3> SUFFICES ASSUME NEW k \in 1..(L - 1)
                 PROVE  Contents[k + 1] = slots[(tail' + k - 1) % FifoRecs]
      OBVIOUS
    <3>1. k + 1 \in 1..L /\ k \in Nat \ {0}
      BY <1>4
    <3> QED
      BY <1>7, <1>10, <3>1
  <2> DEFINE e == [i \in 1..(L - 1) |-> slots[(tail' + i - 1) % FifoRecs]]
             c == Tail(Contents)
  <2>3. \A k \in 1..(L - 1) : c[k] = e[k]
    BY <2>1, <2>2
  <2>4. DOMAIN e = 1..(L - 1) /\ e = [k \in 1..(L - 1) |-> e[k]]
    OBVIOUS
  <2>5. c \in Seq(Nat) /\ DOMAIN c = 1..(L - 1)
    BY <2>1
  <2> HIDE DEF e, c
  <2>6. c = e
    <3>1. Len(c) = L - 1 /\ L - 1 \in Nat
      BY <1>2, <1>4, <2>5
    <3>2. \A k \in 1..(L - 1) : e[k] \in Nat
      BY <2>3, <2>5, <3>1
    <3>3. e \in [1..(L - 1) -> Nat]
      BY <2>4, <3>2
    <3>4. e \in Seq(Nat) /\ Len(e) = L - 1
      BY <3>1, <3>3
    <3> QED
      BY <2>3, <2>5, <3>1, <3>4, SeqEqual
  <2> QED
    BY <1>8, <2>6 DEF c, e
<1>12. stored' = got' \o Contents'
  <2>1. stored = got \o Contents
    BY DEF BufferInv
  <2>2. got \o Contents = Append(got, Head(Contents)) \o Tail(Contents)
    BY <1>1, <1>7, <1>9, HeadMoves
  <2> QED
    BY <1>2, <1>9, <1>11, <2>1, <2>2
<1>13. got' \in Seq(Nat) /\ Len(got') = Len(got) + 1
  <2>1. Head(Contents) \in Nat
    BY <1>7, <1>9, TailOf
  <2>2. slots[tail % FifoRecs] \in Nat
    BY <1>9, <2>1
  <2> QED
    BY <1>1, <1>2, <2>2
<1>14. BufferType'
  <2>1. Fill' <= FifoRecs
    BY <1>1, <1>4, <1>6
  <2> QED
    BY <1>2, <1>3, <1>13, <2>1 DEF BufferInv, BufferType
<1> QED
  BY <1>2, <1>6, <1>12, <1>13, <1>14 DEF BufferInv, L

LEMMA BufferStays ==
  ASSUME BufferInv, fifo' = fifo, slots' = slots, head' = head, tail' = tail, stored' = stored,
         got' = got, seqno' \in Nat, drops' \in Nat, reported' \in Nat,
         reader' \in {"out", "asking", "waiting"}
  PROVE  BufferInv' /\ Fill' = Fill
<1>1. Fill' = Fill /\ Contents' = Contents
  BY DEF Fill, Contents
<1> QED
  BY <1>1 DEF BufferInv, BufferType

(* A record is stored, or dropped.                                          *)
LEMMA StoreKeeps ==
  ASSUME BufferInv, NEW n \in Nat, Store(n), seqno' = seqno
  PROVE  /\ BufferInv'
         /\ Fill' + drops' = Fill + drops + 1 /\ got' = got /\ reported' = reported
<1>1. /\ fifo' = fifo /\ tail' = tail /\ reader' = reader /\ got' = got /\ reported' = reported
      /\ \/ Put(n) /\ drops' = drops /\ (KfifoRoom \/ RingRoom)
         \/ slots' = slots /\ head' = head /\ stored' = stored /\ drops' = drops + 1
  BY DEF Store, StoreKfifo, StoreRing, Stays
<1>2. Fill \in Nat /\ drops \in Nat /\ reported \in Nat /\ seqno \in Nat
      /\ reader \in {"out", "asking", "waiting"}
  BY FillKnown DEF BufferInv, BufferType
<1>3. CASE Put(n) /\ drops' = drops /\ (KfifoRoom \/ RingRoom)
  <2>1. Fill < FifoRecs
    <3>1. FifoRecs \in Nat /\ RecSize \in 1..FifoRecs
      BY BufferAssumption
    <3> QED
      BY <1>2, <1>3, <3>1 DEF KfifoRoom, RingRoom
  <2>2. BufferInv' /\ Fill' = Fill + 1
    BY <1>1, <1>2, <1>3, <2>1, PutKeeps
  <2> QED
    BY <1>1, <1>2, <1>3, <2>2
<1>4. CASE slots' = slots /\ head' = head /\ stored' = stored /\ drops' = drops + 1
  <2>1. BufferInv' /\ Fill' = Fill
    BY <1>1, <1>2, <1>4, BufferStays
  <2> QED
    BY <1>1, <1>2, <1>4, <2>1
<1> QED
  BY <1>1, <1>3, <1>4

(* A read moves a number from one place to another.                         *)
LEMMA ReadingKeeps ==
  ASSUME BufferInv, Reading
  PROVE  /\ BufferInv' /\ seqno' = seqno
         /\ Fill' + Len(got') + drops' + reported' = Fill + Len(got) + drops + reported
<1>1. /\ Fill \in Nat /\ drops \in Nat /\ reported \in Nat /\ seqno \in Nat /\ Len(got) \in Nat
      /\ reader \in {"out", "asking", "waiting"}
  BY FillKnown DEF BufferInv, BufferType
<1>2. CASE ReadRecord
  <2>1. BufferInv' /\ Fill > 0 /\ Fill' = Fill - 1 /\ Len(got') = Len(got) + 1
    BY <1>2, ReadKeeps
  <2>2. seqno' = seqno /\ drops' = drops /\ reported' = reported
    BY <1>2 DEF ReadRecord
  <2> QED
    BY <1>1, <2>1, <2>2
<1>3. CASE ReadDrops
  <2>1. /\ fifo' = fifo /\ slots' = slots /\ head' = head /\ tail' = tail /\ stored' = stored
        /\ got' = got /\ seqno' = seqno /\ drops' = 0 /\ reported' = reported + drops
        /\ reader' \in {"out", "asking", "waiting"}
    BY <1>3 DEF ReadDrops
  <2>2. BufferInv' /\ Fill' = Fill
    BY <1>1, <2>1, BufferStays
  <2> QED
    BY <1>1, <2>1, <2>2
<1>4. CASE ReadNothing \/ ReadWoken
  <2>1. /\ fifo' = fifo /\ slots' = slots /\ head' = head /\ tail' = tail /\ stored' = stored
        /\ got' = got /\ seqno' = seqno /\ drops' = drops /\ reported' = reported
        /\ reader' \in {"out", "asking", "waiting"}
    BY <1>4 DEF ReadNothing, ReadWoken
  <2>2. BufferInv' /\ Fill' = Fill
    BY <1>1, <2>1, BufferStays
  <2> QED
    BY <1>1, <2>1, <2>2
<1> QED
  BY <1>2, <1>3, <1>4 DEF Reading

(***************************************************************************)
(* The numbers that are held by a call whose record is being stored.       *)
(***************************************************************************)
Holding == {x \in Tasks \X (1..Depth) :
              x[2] <= Len(stack[x[1]]) /\ stack[x[1]][x[2]].place = "store"}

LEMMA HeldKnown ==
  /\ IsFiniteSet(Holding) /\ Held = Cardinality(Holding) /\ Held \in Nat
  /\ \A y : IsFiniteSet(Holding \union {y}) /\ IsFiniteSet(Holding \ {y})
            /\ (y \notin Holding => Cardinality(Holding \union {y}) = Held + 1)
            /\ (y \in Holding => Cardinality(Holding \ {y}) = Held - 1)
<1>1. IsFiniteSet(Tasks) /\ IsFiniteSet(1..Depth)
  BY TasksAssumption, BoundsAssumption, FS_Interval
<1>2. IsFiniteSet(Tasks \X (1..Depth))
  BY <1>1, FS_Product
<1>3. Holding \in SUBSET (Tasks \X (1..Depth))
  BY DEF Holding
<1>4. IsFiniteSet(Holding)
  BY <1>2, <1>3, FS_Subset
<1>5. Held = Cardinality(Holding)
  BY DEF Held, Quantify, Holding
<1>6. Held \in Nat
  BY <1>4, <1>5, FS_CardinalityType
<1>7. ASSUME NEW y
      PROVE  /\ IsFiniteSet(Holding \union {y}) /\ IsFiniteSet(Holding \ {y})
             /\ (y \notin Holding => Cardinality(Holding \union {y}) = Held + 1)
             /\ (y \in Holding => Cardinality(Holding \ {y}) = Held - 1)
  BY <1>4, <1>5, FS_AddElement, FS_RemoveElement
<1> QED
  BY <1>4, <1>5, <1>6, <1>7

(* How a step of one task changes them.                                     *)
HoldingNext == {x \in Tasks \X (1..Depth) :
                  x[2] <= Len(stack'[x[1]]) /\ stack'[x[1]][x[2]].place = "store"}

LEMMA HeldNext ==
  /\ Held' = Cardinality(HoldingNext)
  /\ HoldingNext = Holding => Held' = Held
<1>1. Held' = Cardinality(HoldingNext)
  BY DEF Held, Quantify, HoldingNext
<1> QED
  BY <1>1, HeldKnown

LEMMA InHolding ==
  ASSUME stack \in Stacks, \A u \in Tasks : Len(stack[u]) <= Depth
  PROVE  \A u \in Tasks, d \in Nat :
           <<u, d>> \in Holding <=> d \in DOMAIN stack[u] /\ stack[u][d].place = "store"
<1> SUFFICES ASSUME NEW u \in Tasks, NEW d \in Nat
             PROVE  <<u, d>> \in Holding <=> d \in DOMAIN stack[u] /\ stack[u][d].place = "store"
  OBVIOUS
<1>1. stack[u] \in Seq(Frame) /\ Len(stack[u]) <= Depth
  BY DEF Stacks
<1>2. Len(stack[u]) \in Nat /\ DOMAIN stack[u] = 1..Len(stack[u]) /\ Depth \in Nat
  BY <1>1, BoundsAssumption
<1>3. d \in DOMAIN stack[u] <=> d \in 1..Depth /\ d <= Len(stack[u])
  BY <1>1, <1>2
<1>4. <<u, d>> \in Holding <=> d \in 1..Depth /\ d <= Len(stack[u]) /\ stack[u][d].place = "store"
  BY DEF Holding
<1> QED
  BY <1>3, <1>4

LEMMA InHoldingNext ==
  ASSUME stack' \in Stacks, \A u \in Tasks : Len(stack'[u]) <= Depth
  PROVE  \A u \in Tasks, d \in Nat :
           <<u, d>> \in HoldingNext <=> d \in DOMAIN stack'[u] /\ stack'[u][d].place = "store"
<1> SUFFICES ASSUME NEW u \in Tasks, NEW d \in Nat
             PROVE  <<u, d>> \in HoldingNext <=> d \in DOMAIN stack'[u] /\ stack'[u][d].place = "store"
  OBVIOUS
<1>1. stack'[u] \in Seq(Frame) /\ Len(stack'[u]) <= Depth
  BY DEF Stacks
<1>2. Len(stack'[u]) \in Nat /\ DOMAIN stack'[u] = 1..Len(stack'[u]) /\ Depth \in Nat
  BY <1>1, BoundsAssumption
<1>3. d \in DOMAIN stack'[u] <=> d \in 1..Depth /\ d <= Len(stack'[u])
  BY <1>1, <1>2
<1>4. <<u, d>> \in HoldingNext <=>
        d \in 1..Depth /\ d <= Len(stack'[u]) /\ stack'[u][d].place = "store"
  BY DEF HoldingNext
<1> QED
  BY <1>3, <1>4

LEMMA SamePairs ==
  ASSUME NEW A, NEW B, A \subseteq Tasks \X Nat, B \subseteq Tasks \X Nat,
         \A u \in Tasks, d \in Nat : <<u, d>> \in A <=> <<u, d>> \in B
  PROVE  A = B
<1>1. \A x \in Tasks \X Nat : x = <<x[1], x[2]>> /\ x[1] \in Tasks /\ x[2] \in Nat
  OBVIOUS
<1> QED
  BY <1>1

(* A number is taken, stays where it is, or is handed to the buffer.        *)
RecordStep ==
  \/ Held' = Held + 1 /\ TakeNumber
     /\ UNCHANGED <<fifo, slots, head, tail, drops, reader, stored, got, reported>>
  \/ Held' = Held /\ UNCHANGED bufferVars
  \/ Held' = Held - 1 /\ seqno' = seqno /\ \E n \in Nat : Store(n)

LEMMA HeldStep ==
  ASSUME CallInv, NEW t \in Tasks, TaskStep(t)
  PROVE  RecordStep
<1> DEFINE n == Len(stack[t])
<1>1. /\ stack \in Stacks /\ (\A u \in Tasks : Len(stack[u]) <= Depth)
      /\ stack' \in Stacks /\ (\A u \in Tasks : Len(stack'[u]) <= Depth)
      /\ \A u \in Tasks \ {t} : stack'[u] = stack[u]
      /\ n \in Nat /\ DOMAIN stack[t] = 1..n
  BY Shape DEF CallInv, TraceType, Stacks
<1>2. \A u \in Tasks, d \in Nat :
        <<u, d>> \in Holding <=> d \in DOMAIN stack[u] /\ stack[u][d].place = "store"
  BY <1>1, InHolding
<1>3. \A u \in Tasks, d \in Nat :
        <<u, d>> \in HoldingNext <=> d \in DOMAIN stack'[u] /\ stack'[u][d].place = "store"
  BY <1>1, InHoldingNext
<1>4. Holding \subseteq Tasks \X Nat /\ HoldingNext \subseteq Tasks \X Nat
  BY DEF Holding, HoldingNext
<1>5. ASSUME NEW m \in Nat \ {0}, NEW before \in BOOLEAN, NEW after \in BOOLEAN,
             \A d \in Nat : d # m =>
               (<<t, d>> \in HoldingNext <=> <<t, d>> \in Holding),
             <<t, m>> \in Holding <=> before, <<t, m>> \in HoldingNext <=> after
      PROVE  /\ (before <=> after) => Held' = Held
             /\ ~before /\ after => Held' = Held + 1
             /\ before /\ ~after => Held' = Held - 1
  <2> DEFINE y == <<t, m>>
  <2>1. \A u \in Tasks, d \in Nat : <<u, d>> # y =>
          (<<u, d>> \in HoldingNext <=> <<u, d>> \in Holding)
    <3> SUFFICES ASSUME NEW u \in Tasks, NEW d \in Nat, <<u, d>> # y
                 PROVE  <<u, d>> \in HoldingNext <=> <<u, d>> \in Holding
      OBVIOUS
    <3>1. CASE u = t
      BY <1>5, <3>1
    <3>2. CASE u # t
      BY <1>1, <1>2, <1>3, <3>2
    <3> QED
      BY <3>1, <3>2
  <2>2. y \in Tasks \X Nat /\ (y \in Holding <=> before) /\ (y \in HoldingNext <=> after)
    BY <1>5
  <2> HIDE DEF y
  <2>3. CASE before <=> after
    <3>1. \A u \in Tasks, d \in Nat : <<u, d>> \in HoldingNext <=> <<u, d>> \in Holding
      BY <2>1, <2>2, <2>3
    <3>2. HoldingNext = Holding
      BY <1>4, <3>1, SamePairs
    <3> QED
      BY <2>3, <3>2, HeldNext
  <2>4. CASE ~before /\ after
    <3>1. \A u \in Tasks, d \in Nat :
            <<u, d>> \in HoldingNext <=> <<u, d>> \in Holding \union {y}
      BY <2>1, <2>2, <2>4
    <3>2. HoldingNext = Holding \union {y}
      BY <1>4, <2>2, <3>1, SamePairs
    <3> QED
      BY <2>2, <2>4, <3>2, HeldNext, HeldKnown
  <2>5. CASE before /\ ~after
    <3>1. \A u \in Tasks, d \in Nat :
            <<u, d>> \in HoldingNext <=> <<u, d>> \in Holding \ {y}
      BY <2>1, <2>2, <2>5
    <3>2. HoldingNext = Holding \ {y}
      BY <1>4, <2>2, <3>1, SamePairs
    <3> QED
      BY <2>2, <2>5, <3>2, HeldNext, HeldKnown
  <2> QED
    BY <2>3, <2>4, <2>5
<1>6. CASE TopMoves(t)
  <2>1. PICK f : Move(t, f) /\ RecordMove(t, f)
    BY <1>6 DEF TopMoves
  <2>2. stack[t] # <<>> /\ f \in Frame /\ Replace(t, f)
    BY <2>1 DEF Move
  <2>3. /\ n \in Nat \ {0} /\ DOMAIN stack'[t] = 1..n /\ stack'[t][n] = f
        /\ \A d \in 1..(n - 1) : stack'[t][d] = stack[t][d]
    BY <1>1, <2>2, Replaced
  <2>4. Top(t) = stack[t][n] /\ Top(t) \in Frame
    BY <2>2, OnTop
  <2> HIDE DEF n
  <2>5. \A d \in Nat : d # n => (<<t, d>> \in HoldingNext <=> <<t, d>> \in Holding)
    <3> SUFFICES ASSUME NEW d \in Nat, d # n
                 PROVE  <<t, d>> \in HoldingNext <=> <<t, d>> \in Holding
      OBVIOUS
    <3>1. d \in 1..n => d \in 1..(n - 1)
      BY <2>3
    <3> QED
      BY <1>1, <1>2, <1>3, <2>3, <3>1
  <2>6. n \in 1..n
    BY <2>3
  <2>7. /\ <<t, n>> \in Holding <=> (Top(t).place = "store")
        /\ <<t, n>> \in HoldingNext <=> (f.place = "store")
    BY <1>1, <1>2, <1>3, <2>3, <2>4, <2>6
  <2>8. /\ ((Top(t).place = "store") <=> (f.place = "store")) => Held' = Held
        /\ Top(t).place # "store" /\ f.place = "store" => Held' = Held + 1
        /\ Top(t).place = "store" /\ f.place # "store" => Held' = Held - 1
    <3> DEFINE b == Top(t).place = "store"
               a == f.place = "store"
    <3>1. b \in BOOLEAN /\ a \in BOOLEAN /\ n \in Nat \ {0}
          /\ (<<t, n>> \in Holding <=> b) /\ (<<t, n>> \in HoldingNext <=> a)
      BY <2>3, <2>7
    <3> HIDE DEF a, b
    <3>2. /\ (b <=> a) => Held' = Held
          /\ ~b /\ a => Held' = Held + 1
          /\ b /\ ~a => Held' = Held - 1
      BY <1>5, <2>5, <3>1
    <3> QED
      BY <3>2 DEF a, b
  <2>9. Top(t).rec \in Nat
    BY <2>4 DEF Frame
  <2> QED
    BY <2>1, <2>8, <2>9 DEF RecordMove, RecordStep
<1>7. CASE Pushes(t)
  <2>1. PICK f \in Frame : /\ f.place = "fetch" /\ stack' = [stack EXCEPT ![t] = Append(@, f)]
                           /\ UNCHANGED bufferVars
    BY <1>7 DEF Pushes
  <2>2. /\ DOMAIN stack'[t] = 1..(n + 1) /\ stack'[t][n + 1] = f
        /\ \A d \in 1..n : stack'[t][d] = stack[t][d]
    BY <1>1, <2>1, Pushed
  <2> HIDE DEF n
  <2>3. \A d \in Nat : <<t, d>> \in HoldingNext <=> <<t, d>> \in Holding
    <3> SUFFICES ASSUME NEW d \in Nat
                 PROVE  <<t, d>> \in HoldingNext <=> <<t, d>> \in Holding
      OBVIOUS
    <3>1. d \in 1..(n + 1) <=> d \in 1..n \/ d = n + 1
      BY <1>1
    <3>2. ~(n + 1 \in 1..n)
      BY <1>1
    <3> QED
      BY <1>1, <1>2, <1>3, <2>1, <2>2, <3>1, <3>2
  <2>4. \A u \in Tasks, d \in Nat : <<u, d>> \in HoldingNext <=> <<u, d>> \in Holding
    <3> SUFFICES ASSUME NEW u \in Tasks, NEW d \in Nat
                 PROVE  <<u, d>> \in HoldingNext <=> <<u, d>> \in Holding
      OBVIOUS
    <3>1. CASE u = t
      BY <2>3, <3>1
    <3>2. CASE u # t
      BY <1>1, <1>2, <1>3, <3>2
    <3> QED
      BY <3>1, <3>2
  <2>5. HoldingNext = Holding
    BY <1>4, <2>4, SamePairs
  <2> QED
    BY <2>1, <2>5, HeldNext DEF RecordStep
<1>8. CASE Pops(t)
  <2>1. stack[t] # <<>> /\ Pop(t)
    BY <1>8 DEF Pops
  <2>2. /\ n \in Nat \ {0} /\ DOMAIN stack'[t] = 1..(n - 1)
        /\ \A d \in 1..(n - 1) : stack'[t][d] = stack[t][d]
    BY <1>1, <2>1, Popped
  <2>3. Top(t) = stack[t][n] /\ Top(t) \in Frame
    BY <2>1, OnTop
  <2> HIDE DEF n
  <2>4. \A d \in Nat : d # n => (<<t, d>> \in HoldingNext <=> <<t, d>> \in Holding)
    <3> SUFFICES ASSUME NEW d \in Nat, d # n
                 PROVE  <<t, d>> \in HoldingNext <=> <<t, d>> \in Holding
      OBVIOUS
    <3>1. d \in 1..n <=> d \in 1..(n - 1)
      BY <2>2
    <3> QED
      BY <1>1, <1>2, <1>3, <2>2, <3>1
  <2>5. n \in 1..n /\ n \notin 1..(n - 1)
    BY <2>2
  <2>6. (<<t, n>> \in Holding <=> (Top(t).place = "store")) /\ <<t, n>> \notin HoldingNext
    BY <1>1, <1>2, <1>3, <2>2, <2>3, <2>5
  <2>7. /\ Top(t).place # "store" => Held' = Held
        /\ Top(t).place = "store" => Held' = Held - 1
    <3> DEFINE b == Top(t).place = "store"
               a == FALSE
    <3>1. b \in BOOLEAN /\ a \in BOOLEAN /\ n \in Nat \ {0}
          /\ (<<t, n>> \in Holding <=> b) /\ (<<t, n>> \in HoldingNext <=> a)
      BY <2>2, <2>6
    <3> HIDE DEF a, b
    <3>2. /\ (b <=> a) => Held' = Held
          /\ b /\ ~a => Held' = Held - 1
      BY <1>5, <2>4, <3>1
    <3> QED
      BY <3>2 DEF a, b
  <2>8. Top(t).rec \in Nat
    BY <2>3 DEF Frame
  <2> QED
    BY <1>8, <2>7, <2>8 DEF Pops, RecordStep
<1>9. CASE Faulty
  <2>1. stack' = stack /\ UNCHANGED bufferVars
    BY <1>9 DEF Faulty
  <2>2. HoldingNext = Holding
    BY <2>1 DEF HoldingNext, Holding
  <2> QED
    BY <2>1, <2>2, HeldNext DEF RecordStep
<1> QED
  BY <1>6, <1>7, <1>8, <1>9 DEF TaskStep

(***************************************************************************)
(* The invariant of the tracer.                                            *)
(***************************************************************************)
TracerInv == TraceInv /\ BufferType /\ Accounted

LEMMA InitSound ==
  ASSUME Init
  PROVE  TracerInv
<1>1. TraceInv
  BY TraceInit
<1>2. /\ fifo \in {"kfifo", "ring"} /\ slots = [i \in 0..(FifoRecs - 1) |-> 0]
      /\ head = 0 /\ tail = 0 /\ seqno = 0 /\ drops = 0 /\ reader = "out"
      /\ stored = <<>> /\ got = <<>> /\ reported = 0 /\ stack = [t \in Tasks |-> <<>>]
  BY DEF Init, BufferInit
<1>3. FifoRecs \in Nat \ {0} /\ Counters \in Nat \ {0}
  BY BufferAssumption
<1>4. head \in 0..(Counters - 1) /\ tail \in 0..(Counters - 1)
  BY <1>2, <1>3
<1>5. Fill = 0
  BY <1>2, <1>4, FillKnown
<1>6. BufferType
  BY <1>2, <1>3, <1>4, <1>5 DEF BufferType
<1>7. Held = 0
  <2>1. Holding = {}
    <3>1. \A t \in Tasks : Len(stack[t]) = 0
      BY <1>2
    <3>2. \A d \in 1..Depth : ~(d <= 0)
      BY BoundsAssumption
    <3>3. \A x \in Tasks \X (1..Depth) : x[1] \in Tasks /\ x[2] \in 1..Depth
      OBVIOUS
    <3> QED
      BY <3>1, <3>2, <3>3 DEF Holding
  <2> QED
    BY <2>1, HeldKnown, FS_EmptySet
<1>8. Contents = <<>>
  <2>1. Contents \in Seq(Nat) /\ Len(Contents) = 0
    BY <1>5, <1>6, ContentsTyped
  <2> QED
    BY <2>1, EmptySeq
<1>9. Len(got) = 0 /\ stored = got \o Contents
  BY <1>2, <1>8
<1>10. Accounted
  BY <1>2, <1>5, <1>7, <1>9 DEF Accounted
<1> QED
  BY <1>1, <1>6, <1>10 DEF TracerInv

LEMMA StepSound ==
  ASSUME TracerInv, [Next]_vars
  PROVE  TracerInv'
<1>1. /\ TraceInv /\ BufferInv /\ seqno \in Nat /\ Fill \in Nat /\ drops \in Nat
      /\ reported \in Nat /\ Len(got) \in Nat /\ Held \in Nat
      /\ seqno = Held + Fill + Len(got) + drops + reported
  <2>1. Fill \in Nat
    BY FillKnown DEF TracerInv, BufferType
  <2> QED
    BY <2>1, HeldKnown DEF TracerInv, BufferInv, BufferType, Accounted
<1>2. ASSUME TraceInv', UNCHANGED bufferVars, stack' = stack
      PROVE  TracerInv'
  <2>1. /\ fifo' = fifo /\ slots' = slots /\ head' = head /\ tail' = tail /\ stored' = stored
        /\ got' = got /\ seqno' = seqno /\ drops' = drops /\ reported' = reported
        /\ reader' = reader
    BY <1>2 DEF bufferVars
  <2>2. BufferInv' /\ Fill' = Fill
    BY <1>1, <2>1, BufferStays DEF BufferInv, BufferType
  <2>3. Held' = Held
    BY <1>2, HeldNext DEF HoldingNext, Holding
  <2> QED
    BY <1>1, <1>2, <2>1, <2>2, <2>3 DEF TracerInv, BufferInv, Accounted
<1>3. CASE Loading
  <2>1. UNCHANGED bufferVars /\ stack' = stack
    BY <1>3 DEF Loading, Load, Reference, Arm, Unload, Disarm, Synchronize, Free, Calling
  <2>2. TraceInv'
    BY <1>1, <1>3, LoadKeeps, ReferenceKeeps, ArmKeeps, UnloadKeeps, DisarmKeeps,
       SynchronizeKeeps, FreeKeeps DEF Loading
  <2> QED
    BY <1>2, <2>1, <2>2
<1>4. CASE Target
  <2>1. UNCHANGED bufferVars /\ stack' = stack
    BY <1>4 DEF Target, TargetLeaves, TargetNotifies, TargetGone, Calling
  <2>2. TraceInv'
    BY <1>1, <1>4, TargetKeeps
  <2> QED
    BY <1>2, <2>1, <2>2
<1>5. CASE ReaderRuns
  <2>1. Reading /\ UNCHANGED traceVars /\ stack' = stack
    BY <1>5 DEF ReaderRuns, traceVars
  <2>2. TraceInv'
    BY <1>1, <2>1, TraceStays
  <2>3. /\ BufferInv' /\ seqno' = seqno
        /\ Fill' + Len(got') + drops' + reported' = Fill + Len(got) + drops + reported
    BY <1>1, <2>1, ReadingKeeps
  <2>4. Held' = Held
    BY <2>1, HeldNext DEF HoldingNext, Holding
  <2>5. Fill' \in Nat /\ drops' \in Nat /\ reported' \in Nat /\ Len(got') \in Nat
    <3>1. (BufferType => Fill \in Nat)'
      BY ContentsTyped, PTL
    <3> QED
      BY <2>3, <3>1 DEF BufferInv, BufferType
  <2>6. seqno' = Held' + Fill' + Len(got') + drops' + reported'
    <3> DEFINE h == Held
               a == Fill
               b == Fill'
               g == Len(got)
               k == Len(got')
               d == drops
               e == drops'
               r == reported
               q == reported'
    <3>1. /\ h \in Nat /\ a \in Nat /\ b \in Nat /\ g \in Nat /\ k \in Nat /\ d \in Nat /\ e \in Nat
          /\ r \in Nat /\ q \in Nat
          /\ seqno = h + a + g + d + r /\ b + k + e + q = a + g + d + r /\ Held' = h
          /\ seqno' = seqno
      BY <1>1, <2>3, <2>4, <2>5
    <3> HIDE DEF h, a, b, g, k, d, e, r, q
    <3>2. seqno' = h + b + k + e + q
      BY <3>1
    <3> QED
      BY <3>1, <3>2 DEF b, k, e, q
  <2> QED
    BY <2>2, <2>3, <2>6 DEF TracerInv, BufferInv, Accounted
<1>6. CASE \E t \in Tasks : Task(t)
  <2>1. PICK t \in Tasks : Task(t)
    BY <1>6
  <2>2. TraceInv' /\ TaskStep(t) /\ CallInv
    BY <1>1, <2>1, TaskKeepsTrace
  <2>3. RecordStep
    BY <2>2, HeldStep
  <2>4. CASE Held' = Held + 1 /\ TakeNumber
             /\ UNCHANGED <<fifo, slots, head, tail, drops, reader, stored, got, reported>>
    <3>1. seqno' = seqno + 1
      BY <2>4 DEF TakeNumber
    <3>2. BufferInv' /\ Fill' = Fill
      <4>1. /\ fifo' = fifo /\ slots' = slots /\ head' = head /\ tail' = tail /\ stored' = stored
            /\ got' = got /\ drops' = drops /\ reported' = reported /\ reader' = reader
        BY <2>4
      <4>2. seqno' \in Nat /\ drops' \in Nat /\ reported' \in Nat
            /\ reader' \in {"out", "asking", "waiting"}
        BY <1>1, <3>1, <4>1 DEF BufferInv, BufferType
      <4> QED
        BY <1>1, <4>1, <4>2, BufferStays
    <3>3. seqno' = Held' + Fill' + Len(got') + drops' + reported'
      BY <1>1, <2>4, <3>1, <3>2
    <3> QED
      BY <2>2, <3>2, <3>3 DEF TracerInv, BufferInv, Accounted
  <2>5. CASE Held' = Held /\ UNCHANGED bufferVars
    <3>1. /\ fifo' = fifo /\ slots' = slots /\ head' = head /\ tail' = tail /\ stored' = stored
          /\ got' = got /\ seqno' = seqno /\ drops' = drops /\ reported' = reported
          /\ reader' = reader
      BY <2>5 DEF bufferVars
    <3>2. BufferInv' /\ Fill' = Fill
      BY <1>1, <3>1, BufferStays DEF BufferInv, BufferType
    <3> QED
      BY <1>1, <2>2, <2>5, <3>1, <3>2 DEF TracerInv, BufferInv, Accounted
  <2>6. CASE Held' = Held - 1 /\ seqno' = seqno /\ \E n \in Nat : Store(n)
    <3>1. BufferInv' /\ Fill' + drops' = Fill + drops + 1 /\ got' = got /\ reported' = reported
      BY <1>1, <2>6, StoreKeeps
    <3>2. Fill' \in Nat /\ drops' \in Nat
      <4>1. (BufferType => Fill \in Nat)'
        BY ContentsTyped, PTL
      <4> QED
        BY <3>1, <4>1 DEF BufferInv, BufferType
    <3>3. seqno' = Held' + Fill' + Len(got') + drops' + reported'
      <4> DEFINE h == Held
                 a == Fill
                 b == Fill'
                 g == Len(got)
                 d == drops
                 e == drops'
                 r == reported
      <4>1. /\ h \in Nat /\ a \in Nat /\ b \in Nat /\ g \in Nat /\ d \in Nat /\ e \in Nat /\ r \in Nat
            /\ seqno = h + a + g + d + r /\ b + e = a + d + 1 /\ Held' = h - 1 /\ seqno' = seqno
            /\ Len(got') = g /\ reported' = r
        BY <1>1, <2>6, <3>1, <3>2
      <4> HIDE DEF h, a, b, g, d, e, r
      <4>2. seqno' = (h - 1) + b + g + e + r
        BY <4>1
      <4> QED
        BY <4>1, <4>2 DEF b, e
    <3> QED
      BY <2>2, <3>1, <3>3 DEF TracerInv, BufferInv, Accounted
  <2> QED
    BY <2>3, <2>4, <2>5, <2>6 DEF RecordStep
<1>7. CASE UNCHANGED vars
  <2>1. UNCHANGED bufferVars /\ UNCHANGED traceVars /\ stack' = stack
    BY <1>7 DEF vars, traceVars
  <2>2. TraceInv'
    BY <1>1, <2>1, TraceStays
  <2> QED
    BY <1>2, <2>1, <2>2
<1> QED
  BY <1>3, <1>4, <1>5, <1>6, <1>7 DEF Next

(***************************************************************************)
(* The theorems.                                                           *)
(***************************************************************************)

(* The state of wl-diag keeps the invariant in every behaviour, whatever   *)
(* kernel, options and wl it is built for.                                 *)
THEOREM TracerInvariant == Spec => []TracerInv
<1>1. Init => TracerInv
  BY InitSound
<1>2. TracerInv /\ [Next]_vars => TracerInv'
  BY StepSound
<1> QED
  BY <1>1, <1>2, PTL DEF Spec

(* No caller of wl runs into a detour half written but where it must: a     *)
(* short detour or a break never mixes, a displaced branch is never run     *)
(* elsewhere, and no trap is lost while the hooks are armed (patch_entry,   *)
(* build_stub, wd_bp_notify).                                               *)
THEOREM DetoursSound == Spec => []DetourSound
<1>1. TracerInv => DetourSound
  BY DEF TracerInv, TraceInv
<1> QED
  BY <1>1, TracerInvariant, PTL

(* A diverted return goes back to its own caller, and the memory it goes    *)
(* through is there unless the kernel preempts (wl_diag_exit_ret, wd_exit). *)
THEOREM ReturnsAreHome == Spec => []ReturnsHome
<1>1. TracerInv => ReturnsHome
  BY DEF TracerInv, TraceInv
<1> QED
  BY <1>1, TracerInvariant, PTL

(* No number is lost or doubled between emit and wd_read, and records come  *)
(* out in the order they went in, however often the counters wrap.          *)
THEOREM RecordsAccounted == Spec => []Accounted
<1>1. TracerInv => Accounted
  BY DEF TracerInv
<1> QED
  BY <1>1, TracerInvariant, PTL

(* Unloading leaves wl as it was, and nothing of the tracer in it (wd_exit).*)
THEOREM WlRestored == Spec => []TextRestored
<1>1. TracerInv => TextRestored
  BY DEF TracerInv, TraceInv, WorkInv, RefInv, NotifierInv, AllOld, There, TextRestored
<1> QED
  BY <1>1, TracerInvariant, PTL

(* The tracer writes into wl's freed memory only if wl was leaving when the *)
(* reference was asked for (target_ref_get, wd_mod_notify).                 *)
THEOREM StraysOnlyLate == Spec => []StrayOnlyWhenLate
<1>1. TracerInv => StrayOnlyWhenLate
  BY DEF TracerInv, TraceInv
<1> QED
  BY <1>1, TracerInvariant, PTL

=============================================================================
