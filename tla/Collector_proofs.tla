------------------------- MODULE Collector_proofs --------------------------
(* What Collector promises, for any projects, file systems and number of     *)
(* links the kernel follows.                                                 *)
EXTENDS Collector, SequenceTheorems, WellFoundedInduction, NaturalsInduction, TLAPS

-----------------------------------------------------------------------------
(* The file system.                                                          *)

(* Induction over the naturals, for a set of them.                           *)
LEMMA EveryNatural ==
    ASSUME NEW S, 0 \in S, \A n \in Nat : n \in S => n + 1 \in S
    PROVE  Nat \subseteq S
<1> DEFINE T == Nat \ S
<1> SUFFICES ASSUME T # {} PROVE FALSE
  OBVIOUS
<1>1. PICK x \in T : \A y \in T : <<y, x>> \notin OpToRel(<, Nat)
  BY WFMin, NatLessThanWellFounded
<1>2. x \in Nat /\ x # 0 /\ x - 1 \in Nat
  OBVIOUS
<1>3. <<x - 1, x>> \in OpToRel(<, Nat)
  BY <1>2 DEF OpToRel
<1>4. x - 1 \in S
  BY <1>1, <1>2, <1>3
<1> QED
  BY <1>2, <1>4

AreSteps(g, N, S) == g \in [1..N -> [S -> S]]
AreResults(f, g, N, S, base) ==
    f \in [0..N -> S] /\ f[0] = base /\ \A n \in 1..N : f[n] = g[n][f[n - 1]]

(* A value is worked up step by step through any number of functions.        *)
LEMMA Iteration ==
    ASSUME NEW N \in Nat, NEW S, NEW base \in S, NEW g, AreSteps(g, N, S)
    PROVE  \E f : AreResults(f, g, N, S, base)
<1> USE DEF AreSteps, AreResults
<1> DEFINE Runs(m, f) == f[0] = base /\ \A n \in 1..m : f[n] = g[n][f[n - 1]]
           T == {m \in Nat : m <= N => \E f \in [0..m -> S] : Runs(m, f)}
<1>1. 0 \in T
  <2> DEFINE f == [n \in 0..0 |-> base]
  <2>1. f \in [0..0 -> S] /\ Runs(0, f)
    OBVIOUS
  <2> QED
    BY <2>1
<1>2. ASSUME NEW m \in Nat, m \in T, m + 1 <= N PROVE \E f \in [0..m + 1 -> S] : Runs(m + 1, f)
  <2>1. PICK f \in [0..m -> S] : Runs(m, f)
    BY <1>2
  <2> DEFINE h == [n \in 0..m + 1 |-> IF n = m + 1 THEN g[m + 1][f[m]] ELSE f[n]]
  <2>2. g[m + 1] \in [S -> S] /\ f[m] \in S
    BY <1>2
  <2>3. h \in [0..m + 1 -> S]
    BY <2>2
  <2>4. h[0] = base
    BY <2>1
  <2>5. ASSUME NEW n \in 1..m + 1 PROVE h[n] = g[n][h[n - 1]]
    BY <2>1
  <2> HIDE DEF h
  <2> QED
    BY <2>3, <2>4, <2>5
<1>3. ASSUME NEW m \in Nat, m \in T PROVE m + 1 \in T
  <2> HIDE DEF Runs
  <2>1. m + 1 <= N => \E f \in [0..m + 1 -> S] : Runs(m + 1, f)
    BY <1>2, <1>3
  <2> QED
    BY <2>1
<1>4. Nat \subseteq T
  <2> HIDE DEF T
  <2> QED
    BY <1>1, <1>3, EveryNatural
<1> QED
  BY <1>4

(* A path with no link in it is its own canonical form.                      *)
LEMMA NoLinkToFollow ==
    ASSUME NEW path, Follow(path) = path
    PROVE  Canonical(path) = path
<1> DEFINE Hop(f) == f = [n \in 0..MaxHops |-> IF n = 0 THEN path ELSE Follow(f[n - 1])]
           hop == CHOOSE f : Hop(f)
           S == {n \in Nat : n <= MaxHops => hop[n] = path}
<1> USE HopsAssumption
<1>1. Hop([n \in 0..MaxHops |-> path])
  OBVIOUS
<1>2. Hop(hop)
  BY <1>1
<1>3. \A n \in 0..MaxHops : hop[n] = IF n = 0 THEN path ELSE Follow(hop[n - 1])
  BY <1>2
<1> HIDE DEF hop
<1>4. 0 \in S
  BY <1>3
<1>5. ASSUME NEW n \in Nat, n \in S PROVE n + 1 \in S
  BY <1>3, <1>5
<1>6. hop[MaxHops] = path
  <2> HIDE DEF S
  <2>1. Nat \subseteq S
    BY <1>4, <1>5, EveryNatural
  <2> QED
    BY <2>1 DEF S
<1> QED
  BY <1>6 DEF Canonical, hop

(* Nothing is below a link, so neither is what is no link itself.            *)
LEMMA CanonicalNode ==
    ASSUME IsFileSystem(tree), NEW path \in DOMAIN tree, ~IsLink(path)
    PROVE  Canonical(path) = path
<1>1. path \in Seq(Name)
  BY DEF IsFileSystem
<1>2. ASSUME NEW n \in DOMAIN path PROVE ~IsLink(SubSeq(path, 1, n))
  <2>1. n \in 1..Len(path)
    BY <1>1
  <2>2. CASE n = Len(path)
    <3>1. SubSeq(path, 1, n) = path
      BY <1>1, <2>2
    <3> QED
      BY <3>1
  <2>3. CASE n \in 1..Len(path) - 1
    BY <2>3 DEF IsFileSystem, IsLink
  <2> QED
    BY <1>1, <2>1, <2>2, <2>3
<1>3. Follow(path) = path
  BY <1>2 DEF Follow
<1> QED
  BY <1>3, NoLinkToFollow

(* What is there is there in its canonical form.                             *)
LEMMA CanonicalExists ==
    ASSUME IsFileSystem(tree), NEW path, Exists(path)
    PROVE  /\ Canonical(path) \in DOMAIN tree /\ Canonical(path) \in Seq(Name)
           /\ ~IsLink(Canonical(path)) /\ Canonical(Canonical(path)) = Canonical(path)
           /\ Kind(path) = tree[Canonical(path)].kind
  BY CanonicalNode DEF Exists, Kind, IsFileSystem

(* What a path leads to is a path.                                           *)
LEMMA FollowIsPath ==
    ASSUME IsFileSystem(tree), NEW path \in Seq(Name)
    PROVE  Follow(path) \in Seq(Name)
<1> DEFINE links == {n \in DOMAIN path : IsLink(SubSeq(path, 1, n))}
           first == CHOOSE n \in links : \A m \in links : n <= m
<1>1. CASE links = {}
  BY <1>1 DEF Follow
<1>2. CASE links # {}
  <2>1. links \subseteq Nat
    OBVIOUS
  <2>2. PICK x \in links : \A y \in links : <<y, x>> \notin OpToRel(<, Nat)
    <3> HIDE DEF links
    <3> QED
      BY <1>2, <2>1, WFMin, NatLessThanWellFounded
  <2>3. \A y \in links : x <= y
    <3>1. ASSUME NEW y \in links, y < x PROVE FALSE
      <4>1. <<y, x>> \in OpToRel(<, Nat)
        BY <2>1, <2>2, <3>1 DEF OpToRel
      <4> QED
        BY <2>2, <4>1
    <3> HIDE DEF links
    <3> QED
      BY <2>1, <3>1
  <2>4. first \in links
    <3> HIDE DEF links
    <3> QED
      BY <2>3
  <2>5. first \in DOMAIN path /\ IsLink(SubSeq(path, 1, first))
    BY <2>4
  <2> HIDE DEF first
  <2>6. tree[SubSeq(path, 1, first)].to \in Seq(Name)
    BY <2>5 DEF IsLink, IsFileSystem
  <2>7. SubSeq(path, first + 1, Len(path)) \in Seq(Name)
    <3>1. first + 1 \in Int /\ Len(path) \in Int
          /\ \A i \in first + 1 .. Len(path) : path[i] \in Name
      BY <2>5
    <3> QED
      BY <3>1, SubSeqProperties
  <2>8. Follow(path) = tree[SubSeq(path, 1, first)].to \o SubSeq(path, first + 1, Len(path))
    BY <1>2 DEF Follow, first
  <2> QED
    BY <2>6, <2>7, <2>8, ConcatProperties
<1> QED
  BY <1>1, <1>2

(* And so is what it leads to in the end.                                    *)
LEMMA CanonicalIsPath ==
    ASSUME IsFileSystem(tree), NEW path \in Seq(Name)
    PROVE  Canonical(path) \in Seq(Name)
<1> DEFINE P == Seq(Name)
           Hop(f) == f = [n \in 0..MaxHops |-> IF n = 0 THEN path ELSE Follow(f[n - 1])]
           hop == CHOOSE f : Hop(f)
           g == [n \in 1..MaxHops |-> [p \in P |-> Follow(p)]]
           S == {n \in Nat : n <= MaxHops => hop[n] \in P}
<1> USE HopsAssumption
<1>1. AreSteps(g, MaxHops, P)
  BY FollowIsPath DEF AreSteps
<1>2. PICK f : AreResults(f, g, MaxHops, P, path)
  <2> HIDE DEF g, P
  <2>1. path \in P
    BY DEF P
  <2> QED
    BY <1>1, <2>1, Iteration
<1>3. Hop(f)
  <2>1. f \in [0..MaxHops -> P] /\ f[0] = path /\ \A n \in 1..MaxHops : f[n] = g[n][f[n - 1]]
    <3> HIDE DEF g, P
    <3> QED
      BY <1>2 DEF AreResults
  <2>2. ASSUME NEW n \in 1..MaxHops PROVE f[n] = Follow(f[n - 1])
    <3>1. n - 1 \in 0..MaxHops
      OBVIOUS
    <3>2. f[n - 1] \in P /\ f[n] = g[n][f[n - 1]]
      <4> HIDE DEF g, P
      <4> QED
        BY <2>1, <3>1
    <3> QED
      BY <3>2
  <2> QED
    BY <2>1, <2>2
<1>4. \A n \in 0..MaxHops : hop[n] = IF n = 0 THEN path ELSE Follow(hop[n - 1])
  <2>1. Hop(hop)
    BY <1>3
  <2> QED
    BY <2>1
<1> HIDE DEF hop
<1>5. 0 \in S
  BY <1>4
<1>6. ASSUME NEW n \in Nat, n \in S PROVE n + 1 \in S
  BY <1>4, <1>6, FollowIsPath
<1>7. hop[MaxHops] \in P
  <2> HIDE DEF S
  <2>1. Nat \subseteq S
    BY <1>5, <1>6, EveryNatural
  <2> QED
    BY <2>1 DEF S
<1> QED
  BY <1>7 DEF Canonical, hop

-----------------------------------------------------------------------------
(* The jobs.                                                                 *)

(* The inputs that exist are those asked for that do.                        *)
LEMMA ExistingAreInputs ==
    ASSUME NEW paths \in Seq(Seq(Name))
    PROVE  /\ Existing(paths) \in Seq(Seq(Name))
           /\ \A n \in 1..Len(paths) :
                 Exists(Project \o paths[n]) =>
                     \E i \in DOMAIN Existing(paths) : Existing(paths)[i] = paths[n]
<1> DEFINE S == Seq(Seq(Name))
           Keep(s, n) == IF Exists(Project \o paths[n]) /\ ~Contains(s, paths[n])
                         THEN Append(s, paths[n]) ELSE s
           Kept(f) == f = [n \in 0..Len(paths) |-> IF n = 0 THEN <<>> ELSE Keep(f[n - 1], n)]
           kept == CHOOSE f : Kept(f)
           g == [n \in 1..Len(paths) |-> [s \in S |-> Keep(s, n)]]
           T == {n \in Nat : n <= Len(paths) => kept[n] \in S}
<1>1. ASSUME NEW s \in S, NEW n \in 1..Len(paths) PROVE Keep(s, n) \in S
  <2>1. paths[n] \in Seq(Name)
    OBVIOUS
  <2>2. Append(s, paths[n]) \in S
    BY <2>1
  <2> QED
    BY <2>2
<1>2. g \in [1..Len(paths) -> [S -> S]] /\ Len(paths) \in Nat /\ <<>> \in S
  BY <1>1
<1> HIDE DEF Keep
<1>3. PICK f : AreResults(f, g, Len(paths), S, <<>>)
  <2>1. AreSteps(g, Len(paths), S)
    BY <1>2 DEF AreSteps
  <2> HIDE DEF g, S
  <2> QED
    BY <1>2, <2>1, Iteration
<1>4. Kept(f)
  <2>1. ASSUME NEW n \in 1..Len(paths) PROVE f[n] = Keep(f[n - 1], n)
    <3>1. n - 1 \in 0..Len(paths)
      BY <1>2
    <3>2. f[n - 1] \in S /\ f[n] = g[n][f[n - 1]]
      <4> HIDE DEF g, S
      <4> QED
        BY <1>3, <3>1 DEF AreResults
    <3> QED
      BY <3>2
  <2> QED
    BY <1>3, <2>1 DEF AreResults
<1>5. \A n \in 0..Len(paths) : kept[n] = IF n = 0 THEN <<>> ELSE Keep(kept[n - 1], n)
  <2>1. Kept(kept)
    BY <1>4
  <2> QED
    BY <2>1
<1> HIDE DEF kept, S
<1>6. 0 \in T
  BY <1>2, <1>5
<1>7. ASSUME NEW n \in Nat, n \in T PROVE n + 1 \in T
  <2>1. CASE n + 1 <= Len(paths)
    <3>1. kept[n] \in S /\ n + 1 \in 1..Len(paths) /\ kept[n + 1] = Keep(kept[n], n + 1)
      BY <1>2, <1>5, <1>7, <2>1
    <3> QED
      BY <1>1, <3>1
  <2> QED
    BY <1>2, <2>1
<1>8. \A n \in 0..Len(paths) : kept[n] \in S
  <2> HIDE DEF T
  <2>1. Nat \subseteq T
    BY <1>6, <1>7, EveryNatural
  <2> QED
    BY <1>2, <2>1 DEF T
<1> DEFINE Has(s, n) == \E i \in 1..Len(s) : s[i] = paths[n]
           R == {m \in Nat : m <= Len(paths) =>
                    \A n \in 1..m : Exists(Project \o paths[n]) => Has(kept[m], n)}
<1>9. ASSUME NEW s \in S, NEW m \in 1..Len(paths), NEW n \in 1..m, Exists(Project \o paths[n]),
             n = m \/ Has(s, n)
      PROVE  Has(Keep(s, m), n)
  <2>1. s \in Seq(Seq(Name)) /\ paths[m] \in Seq(Name)
    BY DEF S
  <2>2. CASE Keep(s, m) = s
    <3>1. CASE n = m
      <4>1. Contains(s, paths[m])
        <5>1. Append(s, paths[m]) # s
          BY <2>1
        <5> QED
          BY <1>9, <2>2, <3>1, <5>1 DEF Keep
      <4> QED
        BY <2>2, <3>1, <4>1 DEF Contains
    <3>2. CASE Has(s, n)
      BY <2>2, <3>2
    <3> QED
      BY <1>9, <3>1, <3>2
  <2>3. CASE Keep(s, m) = Append(s, paths[m])
    <3>1. /\ Len(Append(s, paths[m])) = Len(s) + 1 /\ Append(s, paths[m])[Len(s) + 1] = paths[m]
          /\ \A i \in 1..Len(s) : Append(s, paths[m])[i] = s[i]
          /\ Len(s) \in Nat
      BY <2>1, AppendProperties
    <3>2. CASE n = m
      <4>1. Len(s) + 1 \in 1..Len(s) + 1
        BY <3>1
      <4> QED
        BY <2>3, <3>1, <3>2, <4>1
    <3>3. CASE Has(s, n)
      <4>1. PICK i \in 1..Len(s) : s[i] = paths[n]
        BY <3>3
      <4>2. i \in 1..Len(s) + 1
        BY <3>1, <4>1
      <4> QED
        BY <2>3, <3>1, <4>1, <4>2
    <3> QED
      BY <1>9, <3>2, <3>3
  <2> QED
    BY <2>2, <2>3 DEF Keep
<1> HIDE DEF Has
<1>10. 0 \in R
  OBVIOUS
<1>11. ASSUME NEW m \in Nat, m \in R PROVE m + 1 \in R
  <2> SUFFICES ASSUME m + 1 <= Len(paths), NEW n \in 1..m + 1, Exists(Project \o paths[n])
               PROVE  Has(kept[m + 1], n)
    OBVIOUS
  <2>1. kept[m] \in S /\ m + 1 \in 1..Len(paths) /\ kept[m + 1] = Keep(kept[m], m + 1)
    BY <1>2, <1>5, <1>8
  <2>2. n = m + 1 \/ Has(kept[m], n)
    BY <1>11
  <2> QED
    BY <1>9, <2>1, <2>2
<1>12. \A n \in 1..Len(paths) : Exists(Project \o paths[n]) => Has(kept[Len(paths)], n)
  <2> HIDE DEF R
  <2>1. Nat \subseteq R
    BY <1>10, <1>11, EveryNatural
  <2> QED
    BY <1>2, <2>1 DEF R
<1>13. Existing(paths) = kept[Len(paths)] /\ kept[Len(paths)] \in Seq(Seq(Name))
  BY <1>2, <1>8 DEF Existing, kept, Keep, S
<1> QED
  BY <1>12, <1>13 DEF Has

JobSet == [do : {"input", "manifest", "dependencies", "extra", "link", "entrypoints"},
           path : Seq(Name)]

(* The names a configuration gives are paths.                                *)
IsConfig == /\ config.named \in Seq(Seq(Name)) /\ config.extra \in Seq(Name)
            /\ config.daemon \in Seq(Name) /\ config.cli \in Seq(Name)

(* The inputs are paths, named or not.                                       *)
LEMMA InputsArePaths == ASSUME IsConfig PROVE Inputs(config) \in Seq(Seq(Name))
<1> USE PlacesAssumption DEF IsConfig
<1>1. EntryPoints(config) \in Seq(Seq(Name))
  <2>1. Given(config.daemon) \in Seq(Seq(Name)) /\ Given(config.cli) \in Seq(Seq(Name))
    BY DEF Given
  <2> QED
    BY <2>1, ConcatProperties DEF EntryPoints
<1>2. Usual \in Seq(Seq(Name))
  BY DEF Usual
<1>3. EntryPoints(config) \o Usual \in Seq(Seq(Name))
  BY <1>1, <1>2, ConcatProperties
<1> QED
  BY <1>3, ExistingAreInputs DEF Inputs

Joins(u, s, t) == u = s \o t

(* What is in two sequences is in the one they make.                         *)
LEMMA RangeOfConcat ==
    ASSUME NEW S, NEW s \in Seq(S), NEW t \in Seq(S), NEW u, Joins(u, s, t)
    PROVE  /\ u \in Seq(S) /\ Len(u) = Len(s) + Len(t)
           /\ \A i \in 1..Len(s) : u[i] = s[i]
           /\ \A i \in 1..Len(t) : u[Len(s) + i] = t[i]
           /\ Range(u) = Range(s) \cup Range(t)
<1>1. /\ u \in Seq(S) /\ Len(u) = Len(s) + Len(t) /\ Len(s) \in Nat /\ Len(t) \in Nat
      /\ DOMAIN u = 1..Len(u) /\ DOMAIN s = 1..Len(s) /\ DOMAIN t = 1..Len(t)
      /\ \A i \in 1..Len(s) : u[i] = s[i]
      /\ \A i \in 1..Len(t) : u[Len(s) + i] = t[i]
      /\ \A i \in 1..Len(u) : u[i] = IF i <= Len(s) THEN s[i] ELSE t[i - Len(s)]
  BY DEF Joins
<1>2. ASSUME NEW x \in Range(u) PROVE x \in Range(s) \cup Range(t)
  <2>0. PICK i \in DOMAIN u : x = u[i]
    BY Zenon DEF Range
  <2>1. i \in 1..Len(u) /\ x = u[i]
    BY <1>1, <2>0
  <2>2. CASE i <= Len(s)
    BY <1>1, <2>1, <2>2 DEF Range
  <2>3. CASE ~(i <= Len(s))
    <3>1. i - Len(s) \in 1..Len(t) /\ x = t[i - Len(s)]
      BY <1>1, <2>1, <2>3
    <3> QED
      BY <1>1, <3>1 DEF Range
  <2> QED
    BY <2>2, <2>3
<1>3. ASSUME NEW i \in 1..Len(s) PROVE s[i] \in Range(u)
  BY <1>1 DEF Range
<1>4. ASSUME NEW i \in 1..Len(t) PROVE t[i] \in Range(u)
  <2>1. Len(s) + i \in DOMAIN u /\ u[Len(s) + i] = t[i]
    BY <1>1
  <2> QED
    BY <2>1 DEF Range
<1>5. Range(s) \subseteq Range(u) /\ Range(t) \subseteq Range(u)
  BY <1>1, <1>3, <1>4 DEF Range
<1> QED
  BY <1>1, <1>2, <1>5

(* A sequence of one.                                                        *)
LEMMA RangeOfOne ==
    ASSUME NEW S, NEW x \in S, NEW s, s = <<x>>
    PROVE  s \in Seq(S) /\ Range(s) = {x}
<1>1. s \in Seq(S) /\ DOMAIN s = {1} /\ s[1] = x
  OBVIOUS
<1> QED
  BY <1>1 DEF Range

(* What a project asks for, and that the check of the entry points is last.  *)
LEMMA JobsAre ==
    ASSUME IsConfig
    PROVE  /\ Jobs(config) \in Seq(JobSet)
           /\ \A i \in DOMAIN Inputs(config) :
                 [do |-> "input", path |-> Inputs(config)[i]] \in Range(Jobs(config))
           /\ config.strategy # "npm-install" =>
                 [do |-> "dependencies", path |-> <<"node_modules">>] \in Range(Jobs(config))
           /\ config.extra # <<>> =>
                 [do |-> "extra", path |-> config.extra] \in Range(Jobs(config))
           /\ \A i \in DOMAIN Jobs(config) :
                 /\ Jobs(config)[i].do = "dependencies" => Jobs(config)[i].path = <<"node_modules">>
                 /\ Jobs(config)[i].do = "extra" =>
                       Jobs(config)[i].path = config.extra /\ config.extra # <<>>
                 /\ Jobs(config)[i].do = "entrypoints" => i = Len(Jobs(config))
<1> USE PlacesAssumption DEF IsConfig
<1> DEFINE a == [i \in DOMAIN Inputs(config) |-> [do |-> "input", path |-> Inputs(config)[i]]]
           b == Job("manifest", <<"package.json">>)
           c == IF config.strategy = "npm-install" THEN <<>>
                ELSE Job("dependencies", <<"node_modules">>)
           d == IF config.extra = <<>> THEN <<>> ELSE Job("extra", config.extra)
           e == Job("link", <<>>)
           f == Job("entrypoints", <<>>)
           ab == a \o b
           abc == ab \o c
           abcd == abc \o d
           front == abcd \o e
           all == front \o f
<1>1. a \in Seq(JobSet) /\ \A i \in DOMAIN Inputs(config) :
          [do |-> "input", path |-> Inputs(config)[i]] \in Range(a)
  <2>1. Inputs(config) \in Seq(Seq(Name))
    BY InputsArePaths
  <2> DEFINE n == Len(Inputs(config))
  <2>2. n \in Nat /\ DOMAIN Inputs(config) = 1..n
        /\ \A i \in 1..n : Inputs(config)[i] \in Seq(Name)
    BY <2>1
  <2>3. \A i \in 1..n : [do |-> "input", path |-> Inputs(config)[i]] \in JobSet
    BY <2>2 DEF JobSet
  <2>4. a \in [1..n -> JobSet]
    BY <2>2, <2>3
  <2>5. a \in Seq(JobSet)
    BY <2>2, <2>4, SeqDef
  <2>6. ASSUME NEW i \in DOMAIN Inputs(config)
        PROVE  [do |-> "input", path |-> Inputs(config)[i]] \in Range(a)
    BY <2>6 DEF Range
  <2> QED
    BY <2>5, <2>6
<1>2. \A x \in Range(a) : x.do = "input"
  BY DEF Range
<1>3. /\ b \in Seq(JobSet) /\ \A x \in Range(b) : x.do = "manifest"
      /\ e \in Seq(JobSet) /\ \A x \in Range(e) : x.do = "link"
      /\ f \in Seq(JobSet) /\ Len(f) = 1
  BY DEF Job, JobSet, Range
<1>4. /\ c \in Seq(JobSet)
      /\ \A x \in Range(c) : x.do = "dependencies" /\ x.path = <<"node_modules">>
      /\ config.strategy # "npm-install" =>
            [do |-> "dependencies", path |-> <<"node_modules">>] \in Range(c)
  <2> DEFINE job == [do |-> "dependencies", path |-> <<"node_modules">>]
  <2>1. job \in JobSet
    BY DEF JobSet
  <2>2. CASE config.strategy = "npm-install"
    BY <2>2 DEF Range
  <2>3. CASE config.strategy # "npm-install"
    <3>1. c = <<job>>
      BY <2>3 DEF Job
    <3>2. c \in Seq(JobSet) /\ Range(c) = {job}
      <4> HIDE DEF c, job
      <4> QED
        BY <2>1, <3>1, RangeOfOne
    <3> QED
      BY <3>2
  <2> QED
    BY <2>2, <2>3
<1>5. /\ d \in Seq(JobSet)
      /\ \A x \in Range(d) : x.do = "extra" /\ x.path = config.extra /\ config.extra # <<>>
      /\ config.extra # <<>> => [do |-> "extra", path |-> config.extra] \in Range(d)
  <2> DEFINE job == [do |-> "extra", path |-> config.extra]
  <2>1. job \in JobSet
    BY DEF JobSet
  <2>2. CASE config.extra = <<>>
    BY <2>2 DEF Range
  <2>3. CASE config.extra # <<>>
    <3>1. d = <<job>>
      BY <2>3 DEF Job
    <3>2. d \in Seq(JobSet) /\ Range(d) = {job}
      <4> HIDE DEF d, job
      <4> QED
        BY <2>1, <3>1, RangeOfOne
    <3> QED
      BY <2>3, <3>2
  <2> QED
    BY <2>2, <2>3
<1>6. Jobs(config) = all
  BY DEF Jobs
<1> HIDE DEF a, b, c, d, e, f
<1>7. /\ Joins(ab, a, b) /\ Joins(abc, ab, c) /\ Joins(abcd, abc, d)
      /\ Joins(front, abcd, e) /\ Joins(all, front, f)
  BY DEF Joins
<1> HIDE DEF ab, abc, abcd, front, all
<1>8. ab \in Seq(JobSet) /\ Range(ab) = Range(a) \cup Range(b)
  BY <1>1, <1>3, <1>7, RangeOfConcat
<1>9. abc \in Seq(JobSet) /\ Range(abc) = Range(ab) \cup Range(c)
  BY <1>4, <1>7, <1>8, RangeOfConcat
<1>10. abcd \in Seq(JobSet) /\ Range(abcd) = Range(abc) \cup Range(d)
  BY <1>5, <1>7, <1>9, RangeOfConcat
<1>11. front \in Seq(JobSet) /\ Range(front) = Range(abcd) \cup Range(e)
  <2>1. abcd \in Seq(JobSet) /\ e \in Seq(JobSet) /\ Joins(front, abcd, e)
    BY <1>3, <1>7, <1>10
  <2> QED
    BY <2>1, RangeOfConcat
<1>12. /\ all \in Seq(JobSet) /\ Range(all) = Range(front) \cup Range(f)
       /\ Len(all) = Len(front) + 1 /\ all[Len(front) + 1] = f[1]
       /\ \A i \in 1..Len(front) : all[i] = front[i]
  <2>1. /\ all \in Seq(JobSet) /\ Range(all) = Range(front) \cup Range(f)
        /\ Len(all) = Len(front) + Len(f)
        /\ \A i \in 1..Len(front) : all[i] = front[i]
        /\ \A i \in 1..Len(f) : all[Len(front) + i] = f[i]
    <3>1. front \in Seq(JobSet) /\ f \in Seq(JobSet) /\ Joins(all, front, f)
      BY <1>3, <1>7, <1>11
    <3> QED
      BY <3>1, RangeOfConcat
  <2>2. 1 \in 1..Len(f)
    BY <1>3
  <2> QED
    BY <1>3, <2>1, <2>2
<1>13. ASSUME NEW i \in DOMAIN all
       PROVE  (i = Len(all) /\ all[i] = f[1]) \/ all[i] \in Range(front)
  <2>1. i \in 1..Len(front) + 1 /\ Len(front) \in Nat /\ DOMAIN front = 1..Len(front)
    BY <1>11, <1>12, <1>13
  <2>2. CASE i \in 1..Len(front)
    BY <1>12, <2>1, <2>2 DEF Range
  <2>3. CASE i = Len(front) + 1
    BY <1>12, <2>3
  <2> QED
    BY <2>1, <2>2, <2>3
<1>14. f[1].do = "entrypoints"
  BY DEF f, Job
<1>15. Range(all) = ((((Range(a) \cup Range(b)) \cup Range(c)) \cup Range(d)) \cup Range(e)) \cup Range(f)
  BY <1>8, <1>9, <1>10, <1>11, <1>12
<1>16. \A x \in Range(front) : x \in Range(a) \/ x \in Range(b) \/ x \in Range(c)
                                \/ x \in Range(d) \/ x \in Range(e)
  BY <1>8, <1>9, <1>10, <1>11
<1>17. ASSUME NEW i \in DOMAIN all
       PROVE  /\ all[i].do = "dependencies" => all[i].path = <<"node_modules">>
              /\ all[i].do = "extra" => all[i].path = config.extra /\ config.extra # <<>>
              /\ all[i].do = "entrypoints" => i = Len(all)
  BY <1>2, <1>3, <1>4, <1>5, <1>13, <1>14, <1>16
<1> QED
  BY <1>1, <1>4, <1>5, <1>6, <1>12, <1>15, <1>17

(* Nothing writes to the file system or the configuration, so no question    *)
(* about them is answered differently later.                                 *)
LEMMA AnswersStay ==
    ASSUME tree' = tree, config' = config
    PROVE  /\ \A path : Canonical(path)' = Canonical(path)
           /\ \A path : IsLink(path)' <=> IsLink(path)
           /\ \A path : Exists(path)' <=> Exists(path)
           /\ \A path : Kind(path)' = Kind(path)
           /\ Jobs(config)' = Jobs(config) /\ Inputs(config)' = Inputs(config)
           /\ Executed(config)' = Executed(config)
           /\ WorkspaceRoots' = WorkspaceRoots
           /\ IsFileSystem(tree)' <=> IsFileSystem(tree)
           /\ IsConfig' <=> IsConfig
<1>1. \A path : IsLink(path)' <=> IsLink(path)
  BY DEF IsLink
<1>2. \A path : Follow(path)' = Follow(path)
  BY DEF Follow, IsLink
<1>3. \A path : Canonical(path)' = Canonical(path)
  BY <1>2 DEF Canonical
<1>4. \A path : Exists(path)' <=> Exists(path)
  BY <1>1, <1>3 DEF Exists
<1>5. \A path : Kind(path)' = Kind(path)
  BY <1>3, <1>4 DEF Kind
<1>6. \A paths : Existing(paths)' = Existing(paths)
  BY <1>4 DEF Existing
<1>7. Inputs(config)' = Inputs(config)
  BY <1>6 DEF Inputs, EntryPoints, Given
<1>8. Jobs(config)' = Jobs(config)
  BY <1>7 DEF Jobs
<1>9. Executed(config)' = Executed(config)
  BY DEF Executed
<1>10. WorkspaceRoots' = WorkspaceRoots
  BY <1>3, <1>4 DEF WorkspaceRoots
<1> QED
  BY <1>1, <1>3, <1>4, <1>5, <1>7, <1>8, <1>9, <1>10 DEF IsFileSystem, IsConfig

-----------------------------------------------------------------------------
(* The inductive invariant.                                                  *)

WalkSet == [left : SUBSET DOMAIN tree, root : Seq(Name), dest : Seq(Name), boundary : Seq(Name),
            tolerate : BOOLEAN, skip : BOOLEAN]

(* How many jobs were begun, the last of which may still walk.               *)
Begun == Len(Jobs(config)) - Len(jobs)

FilesTyped == /\ DOMAIN files \subseteq Seq(Name)
              /\ \A dest \in DOMAIN files : files[dest].kind \in {"file", "link"}

Typed ==
    /\ IsFileSystem(tree) /\ IsConfig
    /\ outcome \in {"collecting", "planned", "refused"}
    /\ jobs \in Seq(JobSet) /\ Len(jobs) <= Len(Jobs(config))
    /\ \A i \in DOMAIN jobs : jobs[i] = Jobs(config)[Begun + i]
    /\ stack \in Seq(WalkSet)
    /\ FilesTyped
    /\ outcome = "planned" => jobs = <<>> /\ stack = <<>> /\ Executed(config) \subseteq DOMAIN files

(* Only the outermost walk is not of a materialised tree.                    *)
Nested ==
    /\ visited = {stack[i].root : i \in 2..Len(stack)}
    /\ NoTreeInsideItself
    /\ \A i \in 2..Len(stack) : ~stack[i].skip

(* A walk stays in its tree, and its tree is one the project gave.           *)
Offered(path) ==
    \/ Within(path, Canonical(Append(Project, "node_modules")))
    \/ config.extra # <<>> /\ Within(path, Canonical(Project \o config.extra))
    \/ \E root \in WorkspaceRoots : Within(path, root)
From(walk, path) ==
    \/ walk.skip /\ walk.root = Project /\ walk.dest = App /\ Within(path, Project)
    \/ ~walk.skip /\ Offered(path)
InPlace ==
    \A i \in DOMAIN stack : \A path \in stack[i].left :
        Within(path, stack[i].root) /\ From(stack[i], path)

(* What takes the place of an executed file can be executed.                 *)
Runnable ==
    \A dest \in Executed(config) : dest \in DOMAIN files => Kind(files[dest].source) = "script"

(* The walk a job is for, if it walks at all,                                *)
Walks(job) ==
    \/ job.do = "input" /\ ~Names(job.path, "node_modules")
    \/ job.do = "manifest" /\ Kind(Project \o job.path) \in {"file", "script"}
    \/ job.do = "dependencies" /\ Kind(Project \o job.path) = "dir"
    \/ job.do = "extra"
WalkOf(job) ==
    LET root == Canonical(Project \o job.path) IN
    CASE job.do = "dependencies" ->
             Walk(root, root, Append(App, "node_modules"), Project, TRUE, FALSE)
      [] job.do = "extra"        -> Walk(root, root, <<>>, root, FALSE, FALSE)
      [] OTHER                   -> AppWalk(root)

(* and what it comes to: a regular file is planned where the walk maps it,   *)
(* and a link out of the tree has its tree planned or being walked.          *)
At(walk, path) == walk.dest \o Relative(path, walk.root)
Pending(root, dest, file) ==
    \E k \in DOMAIN stack : /\ ~stack[k].skip /\ stack[k].root = root /\ stack[k].dest = dest
                            /\ file \in stack[k].left
Beneath(root, dest, file) ==
    dest \o Relative(file, root) \in DOMAIN files \/ Pending(root, dest, file)
Covered(walk, path) ==
    ~(walk.skip /\ Names(path, "node_modules")) =>
        /\ IsRegular(path) => At(walk, path) \in DOMAIN files /\ files[At(walk, path)].source = path
        /\ IsLink(path) /\ Exists(path) /\ ~Within(Canonical(path), walk.root) =>
              \A file \in DOMAIN tree :
                  IsRegular(file) /\ Within(file, Canonical(path)) =>
                      Beneath(Canonical(path), At(walk, path), file)

Alike(walk, other) == walk.root = other.root /\ walk.dest = other.dest /\ walk.skip = other.skip

(* (A quantifier over one value names it, where a prime must not reach it.)  *)
Arriving ==
    outcome # "refused" =>
        /\ \A i \in 1..Begun : \A job \in {Jobs(config)[i]} : \A walk \in {WalkOf(job)} :
              Walks(job) => \A path \in walk.left :
                  \/ Covered(walk, path)
                  \/ i = Begun /\ stack # <<>> /\ path \in stack[1].left
        /\ stack # <<>> => /\ Begun >= 1
                           /\ \A job \in {Jobs(config)[Begun]} :
                                  Walks(job) /\ Alike(stack[1], WalkOf(job))

(* A walk that skips nothing plans, or still has, every file of its tree,    *)
Filling ==
    \A walk \in Range(stack) : ~walk.skip =>
        \A file \in DOMAIN tree :
            IsRegular(file) /\ Within(file, walk.root) => Beneath(walk.root, walk.dest, file)

(* so a link to a regular file has its target planned, or in a walk, unless  *)
(* the application's own walks planned it: those are of the inputs only.     *)
InWalk(source, target) ==
    \/ target \in DOMAIN files
    \/ \E k \in DOMAIN stack : /\ ~stack[k].skip /\ source \in stack[k].left
                               /\ target = At(stack[k], source)
OfTheApp(source, dest, target) ==
    /\ Within(source, Project) /\ ~Names(source, "node_modules")
    /\ dest = App \o Relative(source, Project)
    /\ target = App \o Relative(Canonical(source), Project)
Leads(source, dest, target) ==
    /\ source \in Seq(Name) /\ Exists(source)
    /\ \/ OfTheApp(source, dest, target)
       \/ \A file \in {Canonical(source)} : IsRegular(file) => InWalk(file, target)
Led ==
    \A dest \in DOMAIN files \ {BinLink} : \A planned \in {files[dest]} :
        planned.kind = "link" => Leads(planned.source, dest, planned.target)

IInv == /\ Typed /\ Nested /\ InPlace /\ NothingElseShips /\ Runnable /\ Arriving
        /\ Filling /\ Led

-----------------------------------------------------------------------------
(* Nothing is planned at first.                                              *)
LEMMA InvariantInit == Init => IInv
<1> SUFFICES ASSUME Init PROVE IInv
  OBVIOUS
<1>1. PICK p \in Projects : tree = p[1] /\ config = p[2]
  BY DEF Init
<1>2. IsFileSystem(tree) /\ IsConfig
  BY <1>1, ProjectsAssumption DEF IsConfig
<1>3. jobs = Jobs(config) /\ stack = <<>> /\ visited = {} /\ files = <<>>
      /\ outcome \in {"collecting", "refused"}
  BY DEF Init
<1>4. jobs \in Seq(JobSet)
  BY <1>2, <1>3, JobsAre
<1>5. Begun = 0
  BY <1>3, <1>4 DEF Begun
<1>6. Typed
  <2>1. DOMAIN files = {} /\ stack \in Seq(WalkSet)
    BY <1>3
  <2>2. \A i \in DOMAIN jobs : jobs[i] = Jobs(config)[Begun + i]
    BY <1>3, <1>4, <1>5
  <2>3. Len(jobs) <= Len(Jobs(config))
    BY <1>3, <1>4
  <2> QED
    BY <1>2, <1>3, <1>4, <2>1, <2>2, <2>3 DEF Typed, FilesTyped
<1>7. Nested /\ InPlace
  BY <1>3 DEF Nested, NoTreeInsideItself, InPlace
<1>8. NothingElseShips /\ Runnable
  <2>1. DOMAIN files = {}
    BY <1>3
  <2> QED
    BY <2>1 DEF NothingElseShips, Runnable
<1>9. Arriving
  BY <1>3, <1>5 DEF Arriving
<1>10. Filling /\ Led
  <2>1. DOMAIN files = {} /\ DOMAIN stack = {}
    BY <1>3
  <2> QED
    BY <2>1 DEF Filling, Led, Range
<1> QED
  BY <1>6, <1>7, <1>8, <1>9, <1>10 DEF IInv

-----------------------------------------------------------------------------
(* What the actions have in common.                                          *)

(* A claimed destination keeps its first entry, and a second one that is not *)
(* the same is refused.                                                      *)
LEMMA Claimed ==
    ASSUME NEW dest, NEW entry, Claim(dest, entry)
    PROVE  /\ outcome' \in {outcome, "refused"}
           /\ DOMAIN files' = DOMAIN files \cup {dest}
           /\ \A d \in DOMAIN files : files'[d] = files[d]
           /\ dest \notin DOMAIN files => files'[dest] = entry
           /\ outcome' # "refused" => files'[dest].source = entry.source
<1>1. CASE dest \notin DOMAIN files
  BY <1>1 DEF Claim
<1>2. CASE dest \in DOMAIN files
  BY <1>2 DEF Claim
<1> QED
  BY <1>1, <1>2

(* The jobs are taken in their order.                                        *)
LEMMA NextJob ==
    ASSUME Typed, jobs # <<>>
    PROVE  /\ Head(jobs) \in JobSet /\ Begun \in Nat
           /\ Begun + 1 \in 1..Len(Jobs(config)) /\ Head(jobs) = Jobs(config)[Begun + 1]
           /\ jobs' = Tail(jobs) /\ tree' = tree /\ config' = config =>
                 /\ jobs' \in Seq(JobSet) /\ Len(jobs') <= Len(Jobs(config)') /\ Begun' = Begun + 1
                 /\ \A i \in DOMAIN jobs' : jobs'[i] = Jobs(config)'[Begun' + i]
                 /\ Begun + 1 = Len(Jobs(config)) => jobs' = <<>>
<1>1. /\ Jobs(config) \in Seq(JobSet) /\ jobs \in Seq(JobSet)
      /\ Len(jobs) \in Nat \ {0} /\ Len(Jobs(config)) \in Nat /\ Len(jobs) <= Len(Jobs(config))
  BY JobsAre DEF Typed
<1>2. /\ Begun = Len(Jobs(config)) - Len(jobs)
      /\ \A i \in 1..Len(jobs) : jobs[i] = Jobs(config)[Begun + i]
  BY <1>1 DEF Begun, Typed
<1>3. Head(jobs) = jobs[1] /\ Head(jobs) \in JobSet
  BY <1>1
<1>4. ASSUME jobs' = Tail(jobs), tree' = tree, config' = config
      PROVE  /\ jobs' \in Seq(JobSet) /\ Len(jobs') <= Len(Jobs(config)') /\ Begun' = Begun + 1
             /\ \A i \in DOMAIN jobs' : jobs'[i] = Jobs(config)'[Begun' + i]
             /\ Begun + 1 = Len(Jobs(config)) => jobs' = <<>>
  <2>1. Jobs(config)' = Jobs(config)
    BY <1>4, AnswersStay
  <2>2. /\ jobs' \in Seq(JobSet) /\ Len(jobs') = Len(jobs) - 1 /\ DOMAIN jobs' = 1..Len(jobs')
        /\ \A i \in 1..Len(jobs') : jobs'[i] = jobs[i + 1]
        /\ Len(jobs') = 0 => jobs' = <<>>
    BY <1>1, <1>4
  <2>3. Begun' = Begun + 1
    BY <1>1, <1>2, <2>1, <2>2 DEF Begun
  <2>4. ASSUME NEW i \in 1..Len(jobs') PROVE jobs'[i] = Jobs(config)'[Begun' + i]
    <3>1. i + 1 \in 1..Len(jobs) /\ Begun + (i + 1) = Begun' + i
      BY <1>1, <1>2, <2>2, <2>3
    <3> QED
      BY <1>2, <2>1, <2>2, <3>1
  <2>5. Len(jobs') <= Len(Jobs(config)') /\ (Begun + 1 = Len(Jobs(config)) => jobs' = <<>>)
    BY <1>1, <1>2, <2>1, <2>2
  <2> QED
    BY <2>2, <2>3, <2>4, <2>5
<1> QED
  BY <1>1, <1>2, <1>3, <1>4

(* A job refuses, passes because it has nothing to walk, or walks.           *)
LEMMA JobStep ==
    ASSUME Typed, Input \/ Manifest \/ Dependencies \/ ExtraFiles
    PROVE  /\ outcome = "collecting" /\ stack = <<>> /\ jobs # <<>>
           /\ \/ Refuse
              \/ ~Walks(Head(jobs)) /\ PassJob
              \/ /\ Walks(Head(jobs)) /\ StartWalk(WalkOf(Head(jobs)))
                 /\ Exists(Path) /\ Within(Canonical(Path), Project)
<1> USE DEF Doing, Walks, WalkOf, Path, Root
<1>1. CASE Input
  BY <1>1 DEF Input, WalkWithin
<1>2. CASE Manifest
  BY <1>2 DEF Manifest, WalkWithin, Kind
<1>3. CASE Dependencies
  BY <1>3 DEF Dependencies, WalkWithin, Kind
<1>4. CASE ExtraFiles
  BY <1>4 DEF ExtraFiles, WalkWithin, Kind
<1> QED
  BY <1>1, <1>2, <1>3, <1>4

(* Below something that is below a root.                                     *)
LEMMA WithinTransitive ==
    ASSUME NEW a \in Seq(Name), NEW b \in Seq(Name), NEW c \in Seq(Name), Within(a, b), Within(b, c)
    PROVE  Within(a, c)
<1>1. /\ Len(b) <= Len(a) /\ Len(c) <= Len(b) /\ Len(a) \in Nat /\ Len(b) \in Nat /\ Len(c) \in Nat
      /\ SubSeq(b, 1, Len(b)) = SubSeq(a, 1, Len(b)) /\ SubSeq(c, 1, Len(c)) = SubSeq(b, 1, Len(c))
  BY DEF Within, IsPrefix
<1>2. \A i \in 1..Len(b) : b[i] = a[i]
  BY <1>1
<1>3. \A i \in 1..Len(c) : c[i] = b[i]
  BY <1>1
<1>4. SubSeq(c, 1, Len(c)) = SubSeq(a, 1, Len(c))
  BY <1>1, <1>2, <1>3
<1> QED
  BY <1>1, <1>4 DEF Within, IsPrefix

(* The rest of a path below a root.                                          *)
LEMMA RelativeIsPath ==
    ASSUME NEW path \in Seq(Name), NEW root \in Seq(Name)
    PROVE  Relative(path, root) \in Seq(Name)
<1>1. Len(root) + 1 \in Nat /\ Len(path) \in Nat /\ Len(root) >= 0
  OBVIOUS
<1>2. \A i \in Len(root) + 1 .. Len(path) : path[i] \in Name
  OBVIOUS
<1> QED
  BY <1>1, <1>2, SubSeqProperties DEF Relative

IsPassed(s, entry) == s = Passed(entry)

(* The innermost walk, and that it leaves one entry behind.                  *)
LEMMA TopPassed ==
    ASSUME Typed, stack # <<>>, NEW entry, NEW s, IsPassed(s, entry)
    PROVE  /\ Len(stack) \in Nat \ {0} /\ Top = stack[Len(stack)] /\ Top \in WalkSet
           /\ s \in Seq(WalkSet) /\ Len(s) = Len(stack)
           /\ \A i \in 1..Len(stack) :
                 /\ Alike(s[i], stack[i])
                 /\ s[i].left = IF i = Len(stack) THEN stack[i].left \ {entry} ELSE stack[i].left
<1>1. stack \in Seq(WalkSet) /\ Len(stack) \in Nat \ {0}
  BY DEF Typed
<1>2. Top = stack[Len(stack)] /\ Top \in WalkSet
  BY <1>1 DEF Top, Last
<1> DEFINE t == [Top EXCEPT !.left = @ \ {entry}]
<1>3. t \in WalkSet /\ Alike(t, Top) /\ t.left = Top.left \ {entry}
  BY <1>2 DEF WalkSet, Alike
<1>4. s = [stack EXCEPT ![Len(stack)] = t]
  BY <1>2 DEF Passed, IsPassed
<1> HIDE DEF t
<1>5. s \in Seq(WalkSet) /\ Len(s) = Len(stack)
      /\ \A i \in 1..Len(stack) : s[i] = IF i = Len(stack) THEN t ELSE stack[i]
  BY <1>1, <1>3, <1>4, ExceptSeq
<1> QED
  BY <1>1, <1>2, <1>3, <1>5 DEF Alike

(* What is visited is in the tree, and so is where the walk maps it.         *)
LEMMA Visited ==
    ASSUME Typed, NEW entry, Visit(entry)
    PROVE  /\ entry \in DOMAIN tree /\ entry \in Seq(Name)
           /\ Destination(entry) \in Seq(Name) /\ Destination(entry) = At(Top, entry)
           /\ outcome = "collecting" /\ stack # <<>> /\ entry \in Top.left
<1>1. outcome = "collecting" /\ stack # <<>> /\ entry \in Top.left
  BY DEF Visit
<1>2. Top \in WalkSet
  BY <1>1, TopPassed DEF IsPassed
<1>3. entry \in DOMAIN tree /\ Top.dest \in Seq(Name) /\ Top.root \in Seq(Name)
  BY <1>1, <1>2 DEF WalkSet
<1>4. entry \in Seq(Name)
  BY <1>3 DEF Typed, IsFileSystem
<1>5. Destination(entry) \in Seq(Name)
  BY <1>3, <1>4, RelativeIsPath, ConcatProperties DEF Destination
<1> QED
  BY <1>1, <1>3, <1>4, <1>5 DEF Destination, At

(* The walk of a materialised tree comes on top.                             *)
LEMMA Materialised ==
    ASSUME Typed, NEW entry, Materialise(entry)
    PROVE  /\ Visit(entry) /\ Looked(entry, "link") /\ Exists(entry)
           /\ ~Within(Canonical(entry), Top.root) /\ MayMaterialise(Canonical(entry))
           /\ Canonical(entry) \notin visited /\ visited' = visited \cup {Canonical(entry)}
           /\ UNCHANGED <<tree, config, jobs, files, outcome>>
           /\ stack' \in Seq(WalkSet) /\ Len(stack') = Len(stack) + 1
           /\ \A i \in 1..Len(stack) :
                 /\ Alike(stack'[i], stack[i])
                 /\ stack'[i].left = IF i = Len(stack) THEN stack[i].left \ {entry}
                                     ELSE stack[i].left
           /\ stack'[Len(stack) + 1].root = Canonical(entry)
           /\ stack'[Len(stack) + 1].dest = Destination(entry)
           /\ stack'[Len(stack) + 1].skip = FALSE
           /\ stack'[Len(stack) + 1].left = {p \in DOMAIN tree : Within(p, Canonical(entry))}
<1> DEFINE target == Canonical(entry)
           s == Passed(entry)
           w == Walk(target, target, Destination(entry), Top.boundary, Top.tolerate, FALSE)
<1>1. /\ Visit(entry) /\ Looked(entry, "link") /\ Exists(entry)
      /\ ~Within(target, Top.root) /\ MayMaterialise(target)
      /\ target \notin visited /\ visited' = visited \cup {target}
      /\ UNCHANGED <<tree, config, jobs, files, outcome>> /\ stack' = Append(s, w)
  BY DEF Materialise, LiveLink, InTree
<1>2. target \in Seq(Name)
  BY <1>1, CanonicalExists DEF Typed
<1>3. stack # <<>> /\ Destination(entry) \in Seq(Name)
  BY <1>1, Visited
<1>4. Top \in WalkSet
  BY <1>3, TopPassed DEF IsPassed
<1>5. /\ w \in WalkSet /\ w.root = target /\ w.dest = Destination(entry) /\ w.skip = FALSE
      /\ w.left = {p \in DOMAIN tree : Within(p, target)}
  <2> HIDE DEF target
  <2> QED
    BY <1>2, <1>3, <1>4 DEF Walk, WalkSet
<1>6. /\ s \in Seq(WalkSet) /\ Len(s) = Len(stack) /\ Len(stack) \in Nat \ {0}
      /\ \A i \in 1..Len(stack) :
            /\ Alike(s[i], stack[i])
            /\ s[i].left = IF i = Len(stack) THEN stack[i].left \ {entry} ELSE stack[i].left
  <2>1. IsPassed(s, entry)
    BY DEF IsPassed
  <2> HIDE DEF s
  <2> QED
    BY <1>3, <2>1, TopPassed
<1> HIDE DEF s, w, target
<1>7. /\ stack' \in Seq(WalkSet) /\ Len(stack') = Len(stack) + 1
      /\ \A i \in 1..Len(stack) : stack'[i] = s[i]
      /\ stack'[Len(stack) + 1] = w
  BY <1>1, <1>5, <1>6, AppendProperties
<1> QED
  BY <1>1, <1>5, <1>6, <1>7 DEF target

(* A walk that is done is left.                                              *)
LEMMA Left ==
    ASSUME Typed, LeaveTree
    PROVE  /\ stack # <<>> /\ Len(stack) \in Nat \ {0} /\ Top = stack[Len(stack)] /\ Top.left = {}
           /\ stack' \in Seq(WalkSet) /\ Len(stack') = Len(stack) - 1
           /\ \A i \in 1..Len(stack) - 1 : stack'[i] = stack[i]
           /\ Len(stack) = 1 => stack' = <<>>
           /\ visited' = IF Len(stack) = 1 THEN visited ELSE visited \ {Top.root}
           /\ outcome = "collecting" /\ UNCHANGED <<tree, config, jobs, files, outcome>>
<1>1. stack \in Seq(WalkSet) /\ stack # <<>> /\ stack' = SubSeq(stack, 1, Len(stack) - 1)
  BY DEF Typed, LeaveTree, Front
<1>2. Len(stack) \in Nat \ {0} /\ Top = stack[Len(stack)]
  BY <1>1 DEF Top, Last
<1>3. stack' \in Seq(WalkSet) /\ Len(stack') = Len(stack) - 1
      /\ \A i \in 1..Len(stack) - 1 : stack'[i] = stack[i]
  <2> DEFINE n == Len(stack) - 1
  <2>1. n \in Nat /\ stack' = SubSeq(stack, 1, n) /\ n = Len(stack) - 1
    BY <1>1, <1>2
  <2>2. \A i \in 1..n : stack[i] \in WalkSet
    BY <1>1
  <2> HIDE DEF n
  <2>3. SubSeq(stack, 1, n) \in Seq(WalkSet) /\ Len(SubSeq(stack, 1, n)) = n
        /\ \A i \in 1..n : SubSeq(stack, 1, n)[i] = stack[i]
    BY <2>1, <2>2, SubSeqProperties
  <2> QED
    BY <2>1, <2>3
<1> QED
  BY <1>1, <1>2, <1>3 DEF LeaveTree

(* The first walk of a job.                                                  *)
LEMMA Started ==
    ASSUME Typed, jobs # <<>>, Exists(Path), StartWalk(WalkOf(Head(jobs)))
    PROVE  /\ stack' = <<WalkOf(Head(jobs))>> /\ stack' \in Seq(WalkSet) /\ Len(stack') = 1
           /\ stack'[1] = WalkOf(Head(jobs)) /\ jobs' = Tail(jobs)
           /\ UNCHANGED <<tree, config, visited, files, outcome>>
<1>1. Canonical(Path) \in Seq(Name)
  BY CanonicalExists DEF Typed
<1>2. WalkOf(Head(jobs)) \in WalkSet
  <2> DEFINE root == Canonical(Path)
  <2>1. root \in Seq(Name) /\ Append(App, "node_modules") \in Seq(Name)
        /\ <<>> \in Seq(Name) /\ App \in Seq(Name) /\ Project \in Seq(Name)
    BY <1>1, PlacesAssumption
  <2>2. \/ WalkOf(Head(jobs)) = Walk(root, root, Append(App, "node_modules"), Project, TRUE, FALSE)
        \/ WalkOf(Head(jobs)) = Walk(root, root, <<>>, root, FALSE, FALSE)
        \/ WalkOf(Head(jobs)) = Walk(root, Project, App, Project, FALSE, TRUE)
    BY DEF WalkOf, Path, AppWalk
  <2>3. ASSUME NEW r \in Seq(Name), NEW d \in Seq(Name), NEW b \in Seq(Name),
               NEW y \in BOOLEAN, NEW z \in BOOLEAN
        PROVE  Walk(root, r, d, b, y, z) \in WalkSet
    BY DEF Walk, WalkSet
  <2> HIDE DEF root
  <2> QED
    BY <2>1, <2>2, <2>3
<1> QED
  BY <1>2 DEF StartWalk

-----------------------------------------------------------------------------
(* What a step leaves as it was, and what it makes of the rest.              *)

(* No step writes to the file system or the configuration.                   *)
LEMMA OnlyPlans == Next => tree' = tree /\ config' = config
<1> SUFFICES ASSUME Next PROVE tree' = tree /\ config' = config
  OBVIOUS
<1>1. CASE Input \/ Manifest \/ Dependencies \/ ExtraFiles
  BY <1>1 DEF Input, Manifest, Dependencies, ExtraFiles, WalkWithin, StartWalk, PassJob, Refuse
<1>2. CASE ExecutableSymlink \/ RefuseMissingEntrypoints \/ LeaveTree
  BY <1>2 DEF ExecutableSymlink, RefuseMissingEntrypoints, LeaveTree
<1>3. ASSUME NEW entry, PassOver(entry) \/ PlanFile(entry) \/ PlanLink(entry)
                        \/ Materialise(entry) \/ RefuseEntry(entry)
      PROVE  tree' = tree /\ config' = config
  BY <1>3 DEF PassOver, PlanFile, PlanLink, PlanLinkUnchecked, Materialise, RefuseEntry, Refuse
<1> QED
  BY <1>1, <1>2, <1>3 DEF Next

(* A claim at a path is typed.                                               *)
LEMMA ClaimTyped ==
    ASSUME FilesTyped, NEW dest \in Seq(Name), NEW entry, entry.kind \in {"file", "link"},
           Claim(dest, entry)
    PROVE  FilesTyped' /\ outcome' \in {outcome, "refused"}
<1>1. /\ outcome' \in {outcome, "refused"}
      /\ DOMAIN files' = DOMAIN files \cup {dest}
      /\ \A d \in DOMAIN files : files'[d] = files[d]
      /\ dest \notin DOMAIN files => files'[dest] = entry
  BY Claimed
<1> QED
  BY <1>1 DEF FilesTyped

(* A planned destination keeps its entry.                                    *)
LEMMA TypedStays ==
    ASSUME Typed, tree' = tree, config' = config,
           jobs' = jobs \/ (jobs # <<>> /\ jobs' = Tail(jobs)),
           stack' \in Seq(WalkSet), FilesTyped', outcome' \in {"collecting", "planned", "refused"},
           outcome' = "planned" =>
               jobs' = <<>> /\ stack' = <<>> /\ Executed(config) \subseteq DOMAIN files'
    PROVE  Typed'
<1>1. /\ Jobs(config)' = Jobs(config) /\ Executed(config)' = Executed(config)
      /\ IsFileSystem(tree)' /\ IsConfig'
  BY AnswersStay DEF Typed
<1>2. WalkSet' = WalkSet
  BY DEF WalkSet
<1>3. /\ jobs' \in Seq(JobSet) /\ Len(jobs') <= Len(Jobs(config)')
      /\ \A i \in DOMAIN jobs' : jobs'[i] = Jobs(config)'[Begun' + i]
  <2>1. CASE jobs' = jobs
    <3>1. Begun' = Begun
      BY <1>1, <2>1 DEF Begun
    <3> QED
      BY <1>1, <2>1, <3>1 DEF Typed
  <2>2. CASE jobs # <<>> /\ jobs' = Tail(jobs)
    BY <2>2, NextJob
  <2> QED
    BY <2>1, <2>2
<1> QED
  BY <1>1, <1>2, <1>3 DEF Typed

(* A file is planned at its place in the walk,                               *)
LEMMA FilePlanned ==
    ASSUME Typed, NEW entry, PlanFile(entry)
    PROVE  /\ Visit(entry) /\ ~(Top.skip /\ Names(entry, "node_modules"))
           /\ tree[entry].kind \in {"file", "script"} /\ ~Unrunnable(Destination(entry), entry)
           /\ Claim(Destination(entry), [source |-> entry, kind |-> "file", target |-> <<>>])
           /\ IsPassed(stack', entry) /\ UNCHANGED <<tree, config, jobs, visited>>
  BY DEF PlanFile, Looked, IsPassed

(* and so is a link.                                                         *)
LEMMA LinkPlanned ==
    ASSUME Typed, NEW entry, PlanLink(entry)
    PROVE  /\ Visit(entry) /\ tree[entry].kind = "link" /\ Exists(entry)
           /\ Within(Canonical(entry), Top.root)
           /\ ~(Top.skip /\ Names(entry, "node_modules"))
           /\ ~Unrunnable(Destination(entry), Canonical(entry))
           /\ Claim(Destination(entry), [source |-> entry, kind |-> "link",
                                         target |-> Destination(Canonical(entry))])
           /\ IsPassed(stack', entry) /\ UNCHANGED <<tree, config, jobs, visited>>
  BY DEF PlanLink, PlanLinkUnchecked, LiveLink, InTree, Looked, IsPassed

(* Every step keeps what has a type.                                         *)
LEMMA TypedStep == ASSUME Typed, Next PROVE Typed'
<1>1. tree' = tree /\ config' = config
  BY OnlyPlans
<1>2. /\ stack \in Seq(WalkSet) /\ FilesTyped /\ outcome \in {"collecting", "planned", "refused"}
      /\ outcome = "planned" => jobs = <<>> /\ stack = <<>> /\ Executed(config) \subseteq DOMAIN files
  BY DEF Typed
<1>3. CASE Refuse
  <2>1. FilesTyped'
    BY <1>2, <1>3 DEF Refuse, FilesTyped
  <2> QED
    BY <1>1, <1>2, <1>3, <2>1, TypedStays DEF Refuse
<1>4. ASSUME files' = files PROVE FilesTyped'
  BY <1>2, <1>4 DEF FilesTyped
<1>5. CASE Input \/ Manifest \/ Dependencies \/ ExtraFiles
  <2>1. outcome = "collecting" /\ jobs # <<>>
    BY <1>5, JobStep
  <2>2. CASE PassJob
    <3>1. jobs' = Tail(jobs) /\ stack' = stack /\ files' = files /\ outcome' = outcome
      BY <2>2 DEF PassJob
    <3> QED
      BY <1>1, <1>2, <1>4, <2>1, <3>1, TypedStays
  <2>3. CASE StartWalk(WalkOf(Head(jobs))) /\ Exists(Path)
    <3>1. stack' \in Seq(WalkSet) /\ jobs' = Tail(jobs) /\ files' = files /\ outcome' = outcome
      BY <2>1, <2>3, Started
    <3> QED
      BY <1>1, <1>2, <1>4, <2>1, <3>1, TypedStays
  <2> QED
    BY <1>3, <1>5, <2>2, <2>3, JobStep
<1>6. CASE ExecutableSymlink
  <2> DEFINE entry == [source |-> <<"generated">>, kind |-> "link", target |-> <<"bin">>]
  <2>1. /\ Claim(BinLink, entry) /\ jobs' = Tail(jobs) /\ jobs # <<>>
        /\ stack' = stack /\ outcome = "collecting"
    BY <1>6 DEF ExecutableSymlink, Doing
  <2>2. FilesTyped' /\ outcome' \in {outcome, "refused"}
    <3>1. BinLink \in Seq(Name) /\ entry.kind \in {"file", "link"}
      BY PlacesAssumption
    <3> HIDE DEF entry
    <3> QED
      BY <1>2, <2>1, <3>1, ClaimTyped
  <2> QED
    BY <1>1, <1>2, <2>1, <2>2, TypedStays
<1>7. CASE RefuseMissingEntrypoints
  <2>1. /\ jobs # <<>> /\ Head(jobs).do = "entrypoints" /\ stack = <<>>
        /\ jobs' = Tail(jobs) /\ stack' = stack /\ files' = files
        /\ outcome' \in {"planned", "refused"}
        /\ outcome' = "planned" => Executed(config) \subseteq DOMAIN files
    BY <1>7 DEF RefuseMissingEntrypoints, Doing
  <2>2. jobs' = <<>>
    <3>1. Begun + 1 \in 1..Len(Jobs(config)) /\ Head(jobs) = Jobs(config)[Begun + 1]
          /\ (Begun + 1 = Len(Jobs(config)) => jobs' = <<>>)
      BY <1>1, <2>1, NextJob
    <3>2. /\ DOMAIN Jobs(config) = 1..Len(Jobs(config))
          /\ \A i \in DOMAIN Jobs(config) :
                Jobs(config)[i].do = "entrypoints" => i = Len(Jobs(config))
      BY JobsAre DEF Typed
    <3> QED
      BY <2>1, <3>1, <3>2
  <2> QED
    BY <1>1, <1>2, <1>4, <2>1, <2>2, TypedStays
<1>8. ASSUME NEW entry, PassOver(entry) PROVE Typed'
  <2>1. /\ IsPassed(stack', entry) /\ stack # <<>> /\ outcome = "collecting"
        /\ jobs' = jobs /\ files' = files /\ outcome' = outcome
    BY <1>8 DEF PassOver, Visit, IsPassed
  <2>2. stack' \in Seq(WalkSet)
    BY <2>1, TopPassed
  <2> QED
    BY <1>1, <1>2, <1>4, <2>1, <2>2, TypedStays
<1>9. ASSUME NEW entry, NEW planned, planned.kind \in {"file", "link"}, Visit(entry),
             Claim(Destination(entry), planned), IsPassed(stack', entry), jobs' = jobs
      PROVE  Typed'
  <2>1. Destination(entry) \in Seq(Name) /\ outcome = "collecting" /\ stack # <<>>
    BY <1>9, Visited
  <2>2. FilesTyped' /\ outcome' \in {outcome, "refused"}
    BY <1>2, <1>9, <2>1, ClaimTyped
  <2>3. stack' \in Seq(WalkSet)
    BY <1>9, <2>1, TopPassed
  <2> QED
    BY <1>1, <1>2, <1>9, <2>1, <2>2, <2>3, TypedStays
<1>10. ASSUME NEW entry, PlanFile(entry) PROVE Typed'
  <2> DEFINE planned == [source |-> entry, kind |-> "file", target |-> <<>>]
  <2>1. /\ Visit(entry) /\ Claim(Destination(entry), planned) /\ IsPassed(stack', entry)
        /\ jobs' = jobs /\ planned.kind = "file"
    BY <1>10, FilePlanned
  <2> HIDE DEF planned
  <2> QED
    BY <1>9, <2>1
<1>11. ASSUME NEW entry, PlanLink(entry) PROVE Typed'
  <2> DEFINE planned == [source |-> entry, kind |-> "link", target |-> Destination(Canonical(entry))]
  <2>1. /\ Visit(entry) /\ Claim(Destination(entry), planned) /\ IsPassed(stack', entry)
        /\ jobs' = jobs /\ planned.kind = "link"
    BY <1>11, LinkPlanned
  <2> HIDE DEF planned
  <2> QED
    BY <1>9, <2>1
<1>12. ASSUME NEW entry, Materialise(entry) PROVE Typed'
  <2>1. stack' \in Seq(WalkSet) /\ Visit(entry) /\ UNCHANGED <<tree, config, jobs, files, outcome>>
    BY <1>12, Materialised
  <2>2. outcome = "collecting"
    BY <2>1 DEF Visit
  <2> QED
    BY <1>1, <1>2, <1>4, <2>1, <2>2, TypedStays
<1>13. CASE LeaveTree
  <2>1. stack' \in Seq(WalkSet) /\ outcome = "collecting" /\ UNCHANGED <<jobs, files, outcome>>
    BY <1>13, Left
  <2> QED
    BY <1>1, <1>2, <1>4, <2>1, TypedStays
<1> QED
  BY <1>3, <1>5, <1>6, <1>7, <1>8, <1>10, <1>11, <1>12, <1>13 DEF Next, RefuseEntry

(* Which entries a step passes over, and that all of its other walks stay.   *)
LEMMA PassedOne ==
    ASSUME Typed, NEW entry, PassOver(entry) \/ PlanFile(entry) \/ PlanLink(entry)
    PROVE  /\ Visit(entry) /\ stack # <<>> /\ stack' \in Seq(WalkSet)
           /\ Len(stack) \in Nat \ {0} /\ Top = stack[Len(stack)]
           /\ Len(stack') = Len(stack) /\ UNCHANGED <<tree, config, jobs, visited>>
           /\ \A i \in 1..Len(stack) :
                 /\ Alike(stack'[i], stack[i])
                 /\ stack'[i].left = IF i = Len(stack) THEN stack[i].left \ {entry}
                                     ELSE stack[i].left
<1>1. Visit(entry) /\ IsPassed(stack', entry) /\ UNCHANGED <<tree, config, jobs, visited>>
  <2>1. CASE PassOver(entry)
    BY <2>1 DEF PassOver, IsPassed
  <2> QED
    BY <2>1, FilePlanned, LinkPlanned
<1>2. stack # <<>>
  BY <1>1 DEF Visit
<1> QED
  BY <1>1, <1>2, TopPassed

(* The steps at which no walk begins, goes on or ends.                       *)
LEMMA NoWalkMoves ==
    ASSUME Refuse \/ PassJob \/ ExecutableSymlink \/ RefuseMissingEntrypoints
    PROVE  UNCHANGED <<tree, config, stack, visited>>
  BY DEF Refuse, PassJob, ExecutableSymlink, RefuseMissingEntrypoints

(* The steps, one by one.                                                    *)
LEMMA Steps ==
    ASSUME Typed, Next
    PROVE  \/ Refuse
           \/ outcome = "collecting" /\ jobs # <<>> /\ stack = <<>>
              /\ ~Walks(Head(jobs)) /\ PassJob
           \/ outcome = "collecting" /\ jobs # <<>> /\ stack = <<>> /\ Walks(Head(jobs))
              /\ Exists(Path) /\ Within(Canonical(Path), Project) /\ StartWalk(WalkOf(Head(jobs)))
           \/ ExecutableSymlink \/ RefuseMissingEntrypoints
           \/ \E entry \in DOMAIN tree : PassOver(entry) \/ PlanFile(entry) \/ PlanLink(entry)
           \/ \E entry \in DOMAIN tree : Materialise(entry)
           \/ LeaveTree
  BY JobStep DEF Next, RefuseEntry

(* A walk that begins is not of a tree that is already being walked.         *)
LEMMA NestedStep == ASSUME Typed, Nested, Next PROVE Nested'
<1>1. stack \in Seq(WalkSet) /\ Len(stack) \in Nat
  BY DEF Typed
<1>2. CASE UNCHANGED <<tree, config, stack, visited>>
  BY <1>2 DEF Nested, NoTreeInsideItself
<1>3. CASE jobs # <<>> /\ stack = <<>> /\ Exists(Path) /\ StartWalk(WalkOf(Head(jobs)))
  <2>1. Len(stack') = 1 /\ visited' = visited
    BY <1>3, Started
  <2>2. 2..Len(stack) = {} /\ 2..Len(stack') = {}
    BY <1>3, <2>1
  <2> QED
    BY <2>1, <2>2 DEF Nested, NoTreeInsideItself
<1>4. ASSUME NEW entry, PassOver(entry) \/ PlanFile(entry) \/ PlanLink(entry) PROVE Nested'
  <2>1. /\ Len(stack') = Len(stack) /\ visited' = visited
        /\ \A i \in 1..Len(stack) : Alike(stack'[i], stack[i])
    BY <1>4, PassedOne
  <2>2. \A i \in 2..Len(stack) : stack'[i].root = stack[i].root /\ stack'[i].skip = stack[i].skip
    BY <1>1, <2>1 DEF Alike
  <2> QED
    BY <2>1, <2>2 DEF Nested, NoTreeInsideItself
<1>5. ASSUME NEW entry, Materialise(entry) PROVE Nested'
  <2> DEFINE target == Canonical(entry)
             n == Len(stack)
  <2>1. /\ target \notin visited /\ visited' = visited \cup {target}
        /\ Len(stack') = n + 1 /\ Visit(entry)
        /\ \A i \in 1..n : Alike(stack'[i], stack[i])
        /\ stack'[n + 1].root = target /\ stack'[n + 1].skip = FALSE
    BY <1>5, Materialised
  <2>2. n \in Nat \ {0}
    BY <1>1, <2>1 DEF Visit
  <2>3. \A i \in 2..n : stack'[i].root = stack[i].root /\ stack'[i].skip = stack[i].skip
    BY <1>1, <2>1 DEF Alike
  <2> HIDE DEF target, n
  <2>4. 2..n + 1 = (2..n) \cup {n + 1}
    BY <2>2
  <2>5. visited = {stack[i].root : i \in 2..n}
    BY DEF n, Nested
  <2>6. visited' = {stack'[i].root : i \in 2..n + 1}
    <3>1. ASSUME NEW i \in 2..n + 1 PROVE stack'[i].root \in visited'
      BY <2>1, <2>3, <2>4, <2>5
    <3>2. ASSUME NEW root \in visited' PROVE \E i \in 2..n + 1 : root = stack'[i].root
      <4>1. CASE root = target
        <5>1. n + 1 \in 2..n + 1
          BY <2>2
        <5> QED
          BY <2>1, <4>1, <5>1
      <4>2. CASE root \in visited
        <5>1. PICK i \in 2..n : root = stack[i].root
          BY <2>5, <4>2
        <5> QED
          BY <2>3, <2>4, <5>1
      <4> QED
        BY <2>1, <3>2, <4>1, <4>2
    <3> QED
      BY <3>1, <3>2
  <2>7. ASSUME NEW i \in 2..n + 1, NEW j \in 2..n + 1, i # j PROVE stack'[i].root # stack'[j].root
    <3>1. \A k \in 2..n : stack[k].root # target
      BY <2>1, <2>5
    <3>2. CASE i \in 2..n /\ j \in 2..n
      <4>1. stack[i].root # stack[j].root
        BY <2>7, <3>2 DEF n, Nested, NoTreeInsideItself
      <4> QED
        BY <2>3, <3>2, <4>1
    <3>3. ASSUME NEW k \in 2..n + 1, k # n + 1 PROVE stack'[k].root # target
      BY <2>3, <2>4, <3>1, <3>3
    <3>4. CASE i = n + 1
      BY <2>1, <2>7, <3>3, <3>4
    <3>5. CASE j = n + 1
      BY <2>1, <2>7, <3>3, <3>5
    <3> QED
      BY <2>4, <3>2, <3>4, <3>5
  <2>8. \A i \in 2..n + 1 : ~stack'[i].skip
    <3>1. \A i \in 2..n : ~stack[i].skip
      BY DEF n, Nested
    <3> QED
      BY <2>1, <2>3, <2>4, <3>1
  <2> QED
    BY <2>1, <2>6, <2>7, <2>8 DEF Nested, NoTreeInsideItself
<1>6. CASE LeaveTree
  <2> DEFINE n == Len(stack)
  <2>1. /\ n \in Nat \ {0} /\ Top = stack[n] /\ Len(stack') = n - 1
        /\ \A i \in 1..n - 1 : stack'[i] = stack[i]
        /\ visited' = IF n = 1 THEN visited ELSE visited \ {Top.root}
    BY <1>6, Left
  <2>2. /\ visited = {stack[i].root : i \in 2..n}
        /\ \A i, j \in 2..n : i # j => stack[i].root # stack[j].root
        /\ \A i \in 2..n : ~stack[i].skip
    BY DEF Nested, NoTreeInsideItself
  <2> HIDE DEF n
  <2>3. \A i \in 2..n - 1 : stack'[i] = stack[i] /\ i \in 2..n
    BY <2>1
  <2>4. visited' = {stack'[i].root : i \in 2..n - 1}
    <3>1. CASE n = 1
      <4>1. 2..n = {} /\ 2..n - 1 = {}
        BY <3>1
      <4> QED
        BY <2>1, <2>2, <3>1, <4>1
    <3>2. CASE n # 1
      <4>1. n \in 2..n /\ 2..n = (2..n - 1) \cup {n} /\ n \notin 2..n - 1
        BY <2>1, <3>2
      <4>2. \A i \in 2..n - 1 : stack[i].root # stack[n].root
        BY <2>2, <4>1
      <4>3. visited' = visited \ {stack[n].root}
        BY <2>1, <3>2
      <4>4. ASSUME NEW i \in 2..n - 1 PROVE stack'[i].root \in visited'
        BY <2>2, <2>3, <4>2, <4>3
      <4>5. ASSUME NEW root \in visited' PROVE \E i \in 2..n - 1 : root = stack'[i].root
        BY <2>2, <2>3, <4>1, <4>3
      <4> QED
        BY <4>4, <4>5
    <3> QED
      BY <3>1, <3>2
  <2> QED
    <3>1. ASSUME NEW i \in 2..n - 1, NEW j \in 2..n - 1, i # j
          PROVE  stack'[i].root # stack'[j].root
      BY <2>2, <2>3, <3>1
    <3>2. ASSUME NEW i \in 2..n - 1 PROVE ~stack'[i].skip
      <4>1. stack'[i] = stack[i] /\ i \in 2..n
        BY <2>3
      <4>2. ~stack[i].skip
        BY <2>2, <4>1
      <4> QED
        BY <4>1, <4>2
    <3> QED
      <4>1. visited' = {stack'[i].root : i \in 2..Len(stack')}
        BY <2>1, <2>4
      <4>2. NoTreeInsideItself'
        BY <2>1, <3>1 DEF NoTreeInsideItself
      <4> QED
        BY <2>1, <3>2, <4>1, <4>2 DEF Nested
<1> QED
  BY <1>2, <1>3, <1>4, <1>5, <1>6, Steps, NoWalkMoves

(* A walk begins, goes on and ends in a tree the project gave.               *)
LEMMA InPlaceStep == ASSUME Typed, Nested, InPlace, Next PROVE InPlace'
<1>1. tree' = tree /\ config' = config
  BY OnlyPlans
<1>2. \A path : Offered(path)' <=> Offered(path)
  BY <1>1, AnswersStay DEF Offered
<1>3. stack \in Seq(WalkSet) /\ Len(stack) \in Nat /\ DOMAIN stack = 1..Len(stack)
  BY DEF Typed
<1>4. ASSUME stack' \in Seq(WalkSet),
             \A i \in 1..Len(stack') : \A path \in stack'[i].left :
                 /\ Within(path, stack'[i].root)
                 /\ \/ stack'[i].skip /\ stack'[i].root = Project /\ stack'[i].dest = App
                       /\ Within(path, Project)
                    \/ ~stack'[i].skip /\ Offered(path)
      PROVE  InPlace'
  <2>1. DOMAIN stack' = 1..Len(stack')
    BY <1>4
  <2> QED
    BY <1>2, <1>4, <2>1 DEF InPlace, From
<1>5. ASSUME NEW i \in 1..Len(stack), NEW walk, Alike(walk, stack[i]),
             NEW path \in stack[i].left
      PROVE  /\ Within(path, walk.root)
             /\ \/ walk.skip /\ walk.root = Project /\ walk.dest = App /\ Within(path, Project)
                \/ ~walk.skip /\ Offered(path)
  BY <1>3, <1>5 DEF InPlace, From, Alike
<1>6. CASE UNCHANGED <<tree, config, stack, visited>>
  <2>1. stack' \in Seq(WalkSet)
    BY <1>3, <1>6
  <2>2. \A i \in 1..Len(stack') : Alike(stack'[i], stack[i]) /\ stack'[i].left = stack[i].left
    BY <1>6 DEF Alike
  <2> QED
    BY <1>4, <1>5, <1>6, <2>1, <2>2
<1>7. CASE jobs # <<>> /\ stack = <<>> /\ Walks(Head(jobs)) /\ Exists(Path)
           /\ Within(Canonical(Path), Project) /\ StartWalk(WalkOf(Head(jobs)))
  <2> DEFINE job == Head(jobs)
             root == Canonical(Path)
  <2>1. /\ stack' \in Seq(WalkSet) /\ Len(stack') = 1 /\ stack'[1] = WalkOf(job)
    BY <1>7, Started
  <2>2. /\ job.do = "dependencies" => job.path = <<"node_modules">>
        /\ job.do = "extra" => job.path = config.extra /\ config.extra # <<>>
    <3>1. Begun + 1 \in 1..Len(Jobs(config)) /\ Head(jobs) = Jobs(config)[Begun + 1]
      BY <1>7, NextJob
    <3>2. /\ Jobs(config) \in Seq(JobSet)
          /\ \A i \in DOMAIN Jobs(config) :
                /\ Jobs(config)[i].do = "dependencies" => Jobs(config)[i].path = <<"node_modules">>
                /\ Jobs(config)[i].do = "extra" =>
                      Jobs(config)[i].path = config.extra /\ config.extra # <<>>
      BY JobsAre DEF Typed
    <3>3. DOMAIN Jobs(config) = 1..Len(Jobs(config))
      BY <3>2
    <3> QED
      BY <3>1, <3>2, <3>3
  <2>3. root \in Seq(Name) /\ Project \in Seq(Name) /\ DOMAIN tree \subseteq Seq(Name)
    BY <1>7, CanonicalExists, PlacesAssumption DEF Typed, IsFileSystem
  <2>4. ASSUME NEW path \in stack'[1].left
        PROVE  /\ Within(path, stack'[1].root)
               /\ \/ stack'[1].skip /\ stack'[1].root = Project /\ stack'[1].dest = App
                     /\ Within(path, Project)
                  \/ ~stack'[1].skip /\ Offered(path)
    <3>1. CASE job.do = "dependencies"
      <4>1. stack'[1] = Walk(root, root, Append(App, "node_modules"), Project, TRUE, FALSE)
        BY <2>1, <3>1 DEF WalkOf, Path
      <4>2. Path = Append(Project, "node_modules")
        <5>1. Project \o <<"node_modules">> = Append(Project, "node_modules")
          BY <2>3
        <5> QED
          BY <2>2, <3>1, <5>1 DEF Path
      <4>3. Within(path, root) /\ stack'[1].root = root /\ ~stack'[1].skip
        BY <2>4, <4>1 DEF Walk
      <4> QED
        BY <4>2, <4>3 DEF Offered
    <3>2. CASE job.do = "extra"
      <4>1. stack'[1] = Walk(root, root, <<>>, root, FALSE, FALSE)
        BY <2>1, <3>2 DEF WalkOf, Path
      <4>2. Within(path, root) /\ stack'[1].root = root /\ ~stack'[1].skip
        BY <2>4, <4>1 DEF Walk
      <4> QED
        BY <2>2, <3>2, <4>2 DEF Offered, Path
    <3>3. CASE job.do \notin {"dependencies", "extra"}
      <4>1. stack'[1] = Walk(root, Project, App, Project, FALSE, TRUE)
        BY <2>1, <3>3 DEF WalkOf, Path, AppWalk
      <4>2. /\ path \in DOMAIN tree /\ Within(path, root) /\ stack'[1].root = Project
            /\ stack'[1].dest = App /\ stack'[1].skip
        BY <2>4, <4>1 DEF Walk
      <4>3. Within(path, Project)
        BY <1>7, <2>3, <4>2, WithinTransitive
      <4> QED
        BY <4>2, <4>3
    <3> QED
      BY <3>1, <3>2, <3>3
  <2> QED
    BY <1>4, <2>1, <2>4
<1>8. ASSUME NEW entry, PassOver(entry) \/ PlanFile(entry) \/ PlanLink(entry) PROVE InPlace'
  <2>1. /\ stack' \in Seq(WalkSet) /\ Len(stack') = Len(stack)
        /\ \A i \in 1..Len(stack) :
              /\ Alike(stack'[i], stack[i])
              /\ stack'[i].left = IF i = Len(stack) THEN stack[i].left \ {entry} ELSE stack[i].left
    BY <1>8, PassedOne
  <2>2. \A i \in 1..Len(stack) : stack'[i].left \subseteq stack[i].left
    BY <2>1
  <2> QED
    BY <1>4, <1>5, <2>1, <2>2
<1>9. ASSUME NEW entry, Materialise(entry) PROVE InPlace'
  <2> DEFINE target == Canonical(entry)
             n == Len(stack) + 1
  <2>1. /\ Exists(entry) /\ MayMaterialise(target)
        /\ stack' \in Seq(WalkSet) /\ Len(stack') = n
        /\ \A i \in 1..Len(stack) :
              /\ Alike(stack'[i], stack[i])
              /\ stack'[i].left = IF i = Len(stack) THEN stack[i].left \ {entry} ELSE stack[i].left
        /\ stack'[n].root = target /\ stack'[n].skip = FALSE
        /\ stack'[n].left = {p \in DOMAIN tree : Within(p, target)}
    BY <1>9, Materialised
  <2>2. \A i \in 1..Len(stack) : stack'[i].left \subseteq stack[i].left
    BY <2>1
  <2>3. target \in Seq(Name) /\ DOMAIN tree \subseteq Seq(Name)
    BY <2>1, CanonicalExists DEF Typed, IsFileSystem
  <2>4. PICK root \in WorkspaceRoots : Within(target, root)
    BY <2>1 DEF MayMaterialise
  <2>5. root \in Seq(Name)
    <3>1. PICK w \in config.workspaces : Exists(Project \o w) /\ root = Canonical(Project \o w)
      BY <2>4 DEF WorkspaceRoots
    <3> QED
      BY <3>1, CanonicalExists DEF Typed
  <2>6. ASSUME NEW path \in stack'[n].left PROVE Within(path, target) /\ Offered(path)
    <3>1. path \in Seq(Name) /\ Within(path, target)
      BY <2>1, <2>3, <2>6
    <3>2. Within(path, root)
      BY <2>3, <2>4, <2>5, <3>1, WithinTransitive
    <3> QED
      BY <2>4, <3>1, <3>2 DEF Offered
  <2>7. \A i \in 1..n : i \in 1..Len(stack) \/ i = n
    BY <1>3
  <2> HIDE DEF n, target
  <2> QED
    BY <1>4, <1>5, <2>1, <2>2, <2>6, <2>7
<1>10. CASE LeaveTree
  <2>1. /\ stack' \in Seq(WalkSet) /\ Len(stack') = Len(stack) - 1
        /\ \A i \in 1..Len(stack) - 1 : stack'[i] = stack[i]
    BY <1>10, Left
  <2>2. \A i \in 1..Len(stack') : i \in 1..Len(stack) /\ Alike(stack'[i], stack[i])
                                  /\ stack'[i].left = stack[i].left
    BY <1>3, <2>1 DEF Alike
  <2> QED
    BY <1>4, <1>5, <2>1, <2>2
<1> QED
  BY <1>6, <1>7, <1>8, <1>9, <1>10, Steps, NoWalkMoves

-----------------------------------------------------------------------------
(* What is planned.                                                          *)

(* The steps that plan nothing.                                              *)
LEMMA NothingPlanned ==
    ASSUME Typed, Next, ~ExecutableSymlink,
           \A entry \in DOMAIN tree : ~PlanFile(entry) /\ ~PlanLink(entry)
    PROVE  files' = files
<1>1. CASE Refuse \/ PassJob \/ RefuseMissingEntrypoints \/ LeaveTree
           \/ \E walk : StartWalk(walk)
  BY <1>1 DEF Refuse, PassJob, RefuseMissingEntrypoints, LeaveTree, StartWalk
<1>2. ASSUME NEW entry, PassOver(entry) PROVE files' = files
  BY <1>2 DEF PassOver
<1>3. ASSUME NEW entry, Materialise(entry) PROVE files' = files
  BY <1>3, Materialised
<1> QED
  BY <1>1, <1>2, <1>3, Steps

(* A regular file in sight is canonical.                                     *)
LEMMA FileInSight ==
    ASSUME Typed, NEW entry, PlanFile(entry)
    PROVE  Canonical(entry) = entry /\ Kind(entry) = tree[entry].kind
<1>1. Visit(entry) /\ tree[entry].kind \in {"file", "script"}
  BY FilePlanned
<1>2. entry \in DOMAIN tree
  BY <1>1, Visited
<1>3. ~IsLink(entry)
  BY <1>1 DEF IsLink
<1>4. Canonical(entry) = entry
  BY <1>2, <1>3, CanonicalNode DEF Typed
<1> QED
  BY <1>2, <1>3, <1>4 DEF Kind, Exists

(* What a walk plans is in the tree it walks.                                *)
LEMMA ShipsStep ==
    ASSUME Typed, InPlace, NothingElseShips, Next PROVE NothingElseShips'
<1> DEFINE Meant(dest, source) ==
               /\ Canonical(source) = source
               /\ \/ Within(source, Project) /\ ~Names(source, "node_modules")
                     /\ dest = App \o Relative(source, Project)
                  \/ Offered(source)
<1>1. tree' = tree /\ config' = config
  BY OnlyPlans
<1>2. \A dest \in DOMAIN files : files[dest].kind = "file" => Meant(dest, files[dest].source)
  BY DEF NothingElseShips, Offered
<1>3. ASSUME \A dest \in DOMAIN files' :
                 files'[dest].kind = "file" => Meant(dest, files'[dest].source)
      PROVE  NothingElseShips'
  <2>1. /\ \A path : Canonical(path)' = Canonical(path)
        /\ WorkspaceRoots' = WorkspaceRoots
    BY <1>1, AnswersStay
  <2> QED
    BY <1>1, <1>3, <2>1 DEF NothingElseShips, Offered
<1> HIDE DEF Meant
<1>4. ASSUME NEW dest, NEW entry, Claim(dest, entry), entry.kind = "file" => Meant(dest, entry.source)
      PROVE  NothingElseShips'
  <2>1. /\ DOMAIN files' = DOMAIN files \cup {dest}
        /\ \A d \in DOMAIN files : files'[d] = files[d]
        /\ dest \notin DOMAIN files => files'[dest] = entry
    BY <1>4, Claimed
  <2> QED
    BY <1>2, <1>3, <1>4, <2>1
<1>5. ASSUME NEW entry, PlanFile(entry) PROVE NothingElseShips'
  <2> DEFINE planned == [source |-> entry, kind |-> "file", target |-> <<>>]
  <2>1. /\ Visit(entry) /\ ~(Top.skip /\ Names(entry, "node_modules"))
        /\ Claim(Destination(entry), planned)
    BY <1>5, FilePlanned
  <2>2. entry \in Top.left /\ stack # <<>> /\ Destination(entry) = At(Top, entry)
    BY <2>1, Visited
  <2>3. From(Top, entry)
    <3>1. Top = stack[Len(stack)] /\ Len(stack) \in DOMAIN stack
      BY <2>2, TopPassed DEF IsPassed, Typed
    <3> QED
      BY <2>2, <3>1 DEF InPlace
  <2>4. Canonical(entry) = entry
    BY <1>5, FileInSight
  <2>5. Meant(Destination(entry), entry)
    <3>1. CASE Top.skip
      BY <2>1, <2>2, <2>3, <2>4, <3>1 DEF Meant, From, At
    <3>2. CASE ~Top.skip
      BY <2>3, <2>4, <3>2 DEF Meant, From
    <3> QED
      BY <3>1, <3>2
  <2> QED
    BY <1>4, <2>1, <2>5
<1>6. ASSUME NEW entry, PlanLink(entry) PROVE NothingElseShips'
  <2> DEFINE planned == [source |-> entry, kind |-> "link", target |-> Destination(Canonical(entry))]
  <2>1. Claim(Destination(entry), planned) /\ planned.kind = "link"
    BY <1>6, LinkPlanned
  <2> HIDE DEF planned
  <2> QED
    BY <1>4, <2>1
<1>7. CASE ExecutableSymlink
  <2> DEFINE planned == [source |-> <<"generated">>, kind |-> "link", target |-> <<"bin">>]
  <2>1. Claim(BinLink, planned) /\ planned.kind = "link"
    BY <1>7 DEF ExecutableSymlink
  <2> HIDE DEF planned
  <2> QED
    BY <1>4, <2>1
<1>8. CASE files' = files
  BY <1>2, <1>3, <1>8
<1> QED
  BY <1>5, <1>6, <1>7, <1>8, NothingPlanned

(* No executed file is where the generated link goes.                        *)
LEMMA BinLinkIsNotExecuted == ASSUME IsConfig PROVE BinLink \notin Executed(config)
<1> SUFFICES ASSUME BinLink \in Executed(config) PROVE FALSE
  OBVIOUS
<1>1. PICK entry \in {config.cli, config.daemon} : entry # <<>> /\ BinLink = App \o entry
  BY DEF Executed
<1>2. entry \in Seq(Name) /\ App \in Seq(Name)
  BY <1>1, PlacesAssumption DEF IsConfig
<1>3. Len(entry) \in Nat \ {0} /\ Len(App) \in Nat
  BY <1>1, <1>2
<1>4. /\ BinLink \in Seq(Name) /\ Len(BinLink) = Len(App) + Len(entry)
      /\ \A i \in 1..Len(App) : BinLink[i] = App[i]
  BY <1>1, <1>2, ConcatProperties
<1>5. SubSeq(App, 1, Len(App)) = SubSeq(BinLink, 1, Len(App))
  BY <1>2, <1>3, <1>4
<1>6. IsStrictPrefix(App, BinLink)
  BY <1>3, <1>4, <1>5 DEF IsStrictPrefix, IsPrefix
<1> QED
  BY <1>6, PlacesAssumption

(* What is planned at the place of an executed file can be executed.         *)
LEMMA RunnableStep == ASSUME Typed, Runnable, Next PROVE Runnable'
<1>1. tree' = tree /\ config' = config
  BY OnlyPlans
<1>2. ASSUME \A dest \in Executed(config) :
                 dest \in DOMAIN files' => Kind(files'[dest].source) = "script"
      PROVE  Runnable'
  <2>1. Executed(config)' = Executed(config) /\ \A path : Kind(path)' = Kind(path)
    BY <1>1, AnswersStay
  <2> QED
    BY <1>2, <2>1 DEF Runnable
<1>3. ASSUME NEW dest, NEW entry, Claim(dest, entry),
             dest \in Executed(config) => Kind(entry.source) = "script"
      PROVE  Runnable'
  <2>1. /\ DOMAIN files' = DOMAIN files \cup {dest}
        /\ \A d \in DOMAIN files : files'[d] = files[d]
        /\ dest \notin DOMAIN files => files'[dest] = entry
    BY <1>3, Claimed
  <2> QED
    BY <1>2, <1>3, <2>1 DEF Runnable
<1>4. ASSUME NEW entry, PlanFile(entry) PROVE Runnable'
  <2>1. /\ ~Unrunnable(Destination(entry), entry)
        /\ Claim(Destination(entry), [source |-> entry, kind |-> "file", target |-> <<>>])
    BY <1>4, FilePlanned
  <2>2. Kind(entry) = tree[entry].kind
    BY <1>4, FileInSight
  <2> QED
    BY <1>3, <2>1, <2>2 DEF Unrunnable
<1>5. ASSUME NEW entry, PlanLink(entry) PROVE Runnable'
  <2>1. /\ ~Unrunnable(Destination(entry), Canonical(entry)) /\ Exists(entry)
        /\ Claim(Destination(entry), [source |-> entry, kind |-> "link",
                                      target |-> Destination(Canonical(entry))])
    BY <1>5, LinkPlanned
  <2>2. Kind(entry) = tree[Canonical(entry)].kind
    BY <2>1, CanonicalExists DEF Typed
  <2> QED
    BY <1>3, <2>1, <2>2 DEF Unrunnable
<1>6. CASE ExecutableSymlink
  <2>1. Claim(BinLink, [source |-> <<"generated">>, kind |-> "link", target |-> <<"bin">>])
    BY <1>6 DEF ExecutableSymlink
  <2> QED
    BY <1>3, <2>1, BinLinkIsNotExecuted DEF Typed
<1>7. CASE files' = files
  BY <1>2, <1>7 DEF Runnable
<1> QED
  BY <1>4, <1>5, <1>6, <1>7, NothingPlanned

-----------------------------------------------------------------------------
(* Nothing is lost.                                                          *)

(* No step takes a planned entry back.                                       *)
LEMMA PlansStay ==
    ASSUME Typed, Next
    PROVE  \A d \in DOMAIN files : d \in DOMAIN files' /\ files'[d] = files[d]
<1>1. ASSUME NEW dest, NEW entry, Claim(dest, entry)
      PROVE  \A d \in DOMAIN files : d \in DOMAIN files' /\ files'[d] = files[d]
  BY <1>1, Claimed
<1>2. ASSUME NEW entry, PlanFile(entry) \/ PlanLink(entry)
      PROVE  \A d \in DOMAIN files : d \in DOMAIN files' /\ files'[d] = files[d]
  BY <1>1, <1>2, FilePlanned, LinkPlanned
<1>3. CASE ExecutableSymlink
  BY <1>1, <1>3 DEF ExecutableSymlink
<1>4. CASE files' = files
  BY <1>4
<1> QED
  BY <1>2, <1>3, <1>4, NothingPlanned

(* What a job walks stays the same.                                          *)
LEMMA WalksStay ==
    ASSUME tree' = tree, config' = config
    PROVE  \A job : (Walks(job)' <=> Walks(job)) /\ WalkOf(job)' = WalkOf(job)
<1>1. \A path : Kind(path)' = Kind(path) /\ Canonical(path)' = Canonical(path)
  BY AnswersStay
<1>2. \A job : Walks(job)' <=> Walks(job)
  BY <1>1 DEF Walks
<1>3. \A job : WalkOf(job)' = WalkOf(job)
  BY <1>1 DEF WalkOf, Walk, AppWalk
<1> QED
  BY <1>2, <1>3

(* A regular file leaves the walk of a materialised tree by being planned.   *)
LEMMA PendingStays ==
    ASSUME Typed, Next, NEW root, NEW dest, NEW file, IsRegular(file),
           Pending(root, dest, file)
    PROVE  Pending(root, dest, file)' \/ dest \o Relative(file, root) \in DOMAIN files'
<1>1. PICK k \in DOMAIN stack : /\ ~stack[k].skip /\ stack[k].root = root /\ stack[k].dest = dest
                                /\ file \in stack[k].left
  BY DEF Pending
<1>2. /\ Len(stack) \in Nat /\ k \in 1..Len(stack) /\ stack # <<>>
      /\ DOMAIN stack' = 1..Len(stack')
  BY <1>1, TypedStep DEF Typed
<1>3. ASSUME k \in 1..Len(stack'), Alike(stack'[k], stack[k]), file \in stack'[k].left
      PROVE  Pending(root, dest, file)'
  BY <1>1, <1>2, <1>3 DEF Pending, Alike
<1>4. CASE UNCHANGED <<tree, config, stack, visited>>
  BY <1>1, <1>2, <1>3, <1>4 DEF Alike
<1>5. ASSUME NEW entry, PassOver(entry) \/ PlanFile(entry) \/ PlanLink(entry)
      PROVE  Pending(root, dest, file)' \/ dest \o Relative(file, root) \in DOMAIN files'
  <2>1. /\ Visit(entry) /\ Top = stack[Len(stack)] /\ Len(stack') = Len(stack)
        /\ Alike(stack'[k], stack[k])
        /\ stack'[k].left = IF k = Len(stack) THEN stack[k].left \ {entry} ELSE stack[k].left
    BY <1>2, <1>5, PassedOne
  <2>2. CASE ~(k = Len(stack) /\ file = entry)
    BY <1>1, <1>2, <1>3, <2>1, <2>2
  <2>3. CASE k = Len(stack) /\ file = entry
    <3>1. ~Top.skip
      BY <1>1, <2>1, <2>3
    <3>2. tree[entry].kind \in {"file", "script"}
      BY <2>3 DEF IsRegular
    <3>3. ~PassOver(entry) /\ ~PlanLink(entry)
      BY <3>1, <3>2, LinkPlanned DEF PassOver, Looked
    <3>4. Claim(Destination(entry), [source |-> entry, kind |-> "file", target |-> <<>>])
      BY <1>5, <3>3, FilePlanned
    <3>5. Destination(entry) \in DOMAIN files'
      BY <3>4, Claimed
    <3>6. Destination(entry) = dest \o Relative(file, root)
      BY <1>1, <2>1, <2>3 DEF Destination
    <3> QED
      BY <3>5, <3>6
  <2> QED
    BY <2>2, <2>3
<1>6. ASSUME NEW entry, Materialise(entry) PROVE Pending(root, dest, file)'
  <2>1. /\ Looked(entry, "link") /\ Len(stack') = Len(stack) + 1
        /\ Alike(stack'[k], stack[k])
        /\ stack'[k].left = IF k = Len(stack) THEN stack[k].left \ {entry} ELSE stack[k].left
    BY <1>2, <1>6, Materialised
  <2>2. file # entry
    BY <2>1 DEF Looked, IsRegular
  <2> QED
    BY <1>1, <1>2, <1>3, <2>1, <2>2
<1>7. CASE LeaveTree
  <2>1. /\ Top = stack[Len(stack)] /\ Top.left = {} /\ Len(stack') = Len(stack) - 1
        /\ \A i \in 1..Len(stack) - 1 : stack'[i] = stack[i]
    BY <1>7, Left
  <2>2. k # Len(stack)
    BY <1>1, <2>1
  <2>3. k \in 1..Len(stack') /\ stack'[k] = stack[k]
    BY <1>1, <1>2, <2>1, <2>2
  <2> QED
    BY <1>1, <1>3, <2>3 DEF Alike
<1> QED
  BY <1>2, <1>4, <1>5, <1>6, <1>7, Steps, NoWalkMoves

(* What is planned, or in a walk, stays so,                                  *)
LEMMA BeneathStays ==
    ASSUME Typed, Next, NEW root, NEW dest, NEW file, IsRegular(file), Beneath(root, dest, file)
    PROVE  Beneath(root, dest, file)'
  BY PlansStay, PendingStays DEF Beneath

(* and so is what has arrived.                                               *)
LEMMA CoveredStays ==
    ASSUME Typed, Next, NEW walk, NEW path, Covered(walk, path)
    PROVE  Covered(walk, path)'
<1>1. tree' = tree /\ config' = config
  BY OnlyPlans
<1>2. /\ Canonical(path)' = Canonical(path) /\ (IsLink(path)' <=> IsLink(path))
      /\ (Exists(path)' <=> Exists(path))
  BY <1>1, AnswersStay
<1>3. \A file : IsRegular(file)' <=> IsRegular(file)
  BY <1>1 DEF IsRegular
<1>4. \A d \in DOMAIN files : d \in DOMAIN files' /\ files'[d] = files[d]
  BY PlansStay
<1>5. ASSUME NEW root, NEW dest, NEW file, IsRegular(file), Beneath(root, dest, file)
      PROVE  Beneath(root, dest, file)'
  BY <1>5, BeneathStays
<1>6. At(walk, path)' = At(walk, path)
  BY DEF At
<1> SUFFICES ASSUME ~(walk.skip /\ Names(path, "node_modules"))
             PROVE  /\ IsRegular(path) => /\ At(walk, path) \in DOMAIN files'
                                          /\ files'[At(walk, path)].source = path
                    /\ IsLink(path) /\ Exists(path) /\ ~Within(Canonical(path), walk.root) =>
                          \A file \in DOMAIN tree :
                              IsRegular(file) /\ Within(file, Canonical(path)) =>
                                  Beneath(Canonical(path), At(walk, path), file)'
  BY <1>1, <1>2, <1>3, <1>6 DEF Covered
<1>7. IsRegular(path) => At(walk, path) \in DOMAIN files' /\ files'[At(walk, path)].source = path
  BY <1>4 DEF Covered
<1>8. ASSUME IsLink(path), Exists(path), ~Within(Canonical(path), walk.root),
             NEW file \in DOMAIN tree, IsRegular(file), Within(file, Canonical(path))
      PROVE  Beneath(Canonical(path), At(walk, path), file)'
  <2>1. Beneath(Canonical(path), At(walk, path), file)
    BY <1>8 DEF Covered
  <2> QED
    BY <1>2, <1>5, <1>6, <1>8, <2>1
<1> QED
  BY <1>7, <1>8

(* What leaves the outermost walk has arrived, or its tree is walked next.   *)
LEMMA EntryCovered ==
    ASSUME Typed, Next, outcome' # "refused", NEW entry, NEW walk, Alike(Top, walk),
           PassOver(entry) \/ PlanFile(entry) \/ PlanLink(entry) \/ Materialise(entry)
    PROVE  Covered(walk, entry)'
<1>1. tree' = tree /\ config' = config
  BY OnlyPlans
<1>2. /\ Canonical(entry)' = Canonical(entry) /\ (IsLink(entry)' <=> IsLink(entry))
      /\ (Exists(entry)' <=> Exists(entry))
  BY <1>1, AnswersStay
<1>3. IsRegular(entry)' <=> IsRegular(entry)
  BY <1>1 DEF IsRegular
<1> PICK at : at = Destination(entry)
  OBVIOUS
<1> PICK target : target = Canonical(entry)
  OBVIOUS
<1>4. At(walk, entry)' = at /\ At(walk, entry) = at
  BY DEF At, Destination, Alike
<1>5. Visit(entry) /\ stack # <<>>
  <2>1. Visit(entry)
    BY PassedOne, Materialised
  <2> QED
    BY <2>1 DEF Visit
<1>6. walk.skip = Top.skip /\ walk.root = Top.root
  BY DEF Alike
<1> SUFFICES ASSUME ~(walk.skip /\ Names(entry, "node_modules"))
             PROVE  /\ IsRegular(entry) => at \in DOMAIN files' /\ files'[at].source = entry
                    /\ IsLink(entry) /\ Exists(entry) /\ ~Within(target, walk.root) =>
                          \A file \in DOMAIN tree :
                              Within(file, target) => Beneath(target, at, file)'
  BY <1>1, <1>2, <1>3, <1>4 DEF Covered
<1>7. CASE PassOver(entry)
  <2>1. ~IsRegular(entry) /\ ~(IsLink(entry) /\ Exists(entry))
    BY <1>6, <1>7 DEF PassOver, Looked, IsRegular, IsLink
  <2> QED
    BY <2>1
<1>8. CASE PlanFile(entry)
  <2> DEFINE planned == [source |-> entry, kind |-> "file", target |-> <<>>]
  <2>1. tree[entry].kind # "link" /\ Claim(Destination(entry), planned) /\ planned.source = entry
    BY <1>8, FilePlanned
  <2> HIDE DEF planned
  <2>2. Destination(entry) \in DOMAIN files' /\ files'[Destination(entry)].source = entry
    BY <2>1, Claimed
  <2> QED
    BY <2>1, <2>2 DEF IsLink
<1>9. CASE PlanLink(entry)
  <2>1. tree[entry].kind = "link" /\ Within(Canonical(entry), Top.root)
    BY <1>9, LinkPlanned
  <2> QED
    BY <1>6, <2>1 DEF IsRegular
<1>10. CASE Materialise(entry)
  <2> DEFINE n == Len(stack) + 1
  <2>1. /\ Looked(entry, "link") /\ Len(stack') = n /\ stack'[n].root = target
        /\ stack'[n].dest = at /\ stack'[n].skip = FALSE /\ stack' \in Seq(WalkSet)
        /\ stack'[n].left = {p \in DOMAIN tree : Within(p, target)}
    BY <1>10, Materialised
  <2>2. n \in DOMAIN stack'
    BY <1>5, <2>1 DEF Typed
  <2>3. ~IsRegular(entry)
    BY <2>1 DEF Looked, IsRegular
  <2> HIDE DEF n
  <2>4. ASSUME NEW file \in DOMAIN tree, Within(file, target) PROVE Beneath(target, at, file)'
    BY <2>1, <2>2, <2>4 DEF Beneath, Pending
  <2> QED
    BY <2>3, <2>4
<1> QED
  BY <1>7, <1>8, <1>9, <1>10

(* What every job begun was to walk has arrived, or is being walked.         *)
LEMMA ArrivingStep == ASSUME Typed, Arriving, Next PROVE Arriving'
<1> SUFFICES ASSUME outcome' # "refused"
             PROVE  Arriving'
  BY DEF Arriving
<1>1. tree' = tree /\ config' = config
  BY OnlyPlans
<1>2. Jobs(config)' = Jobs(config)
  BY <1>1, AnswersStay
<1>3. \A job : (Walks(job)' <=> Walks(job)) /\ WalkOf(job)' = WalkOf(job)
  BY <1>1, WalksStay
<1>4. outcome # "refused"
  <2>1. outcome = "collecting" \/ Refuse
    <3>1. \A entry : PassOver(entry) \/ PlanFile(entry) \/ PlanLink(entry) \/ Materialise(entry) =>
                         outcome = "collecting"
      BY PassedOne, Materialised DEF Visit
    <3>2. ExecutableSymlink \/ RefuseMissingEntrypoints => outcome = "collecting"
      BY DEF ExecutableSymlink, RefuseMissingEntrypoints, Doing
    <3>3. LeaveTree => outcome = "collecting"
      BY DEF LeaveTree
    <3> QED
      BY <3>1, <3>2, <3>3, Steps
  <2> QED
    BY <2>1 DEF Refuse
<1>5. /\ \A i \in 1..Begun : \A job \in {Jobs(config)[i]} : \A walk \in {WalkOf(job)} :
            Walks(job) => \A path \in walk.left :
                Covered(walk, path) \/ (i = Begun /\ stack # <<>> /\ path \in stack[1].left)
      /\ stack # <<>> => /\ Begun >= 1
                         /\ \A job \in {Jobs(config)[Begun]} :
                                Walks(job) /\ Alike(stack[1], WalkOf(job))
  BY <1>4 DEF Arriving
<1>6. ASSUME \A i \in 1..Begun' : \A job \in {Jobs(config)[i]} : \A walk \in {WalkOf(job)} :
                 Walks(job) => \A path \in walk.left :
                     Covered(walk, path)' \/ (i = Begun' /\ stack' # <<>> /\ path \in stack'[1].left),
             stack' # <<>> => /\ Begun' >= 1
                              /\ \A job \in {Jobs(config)[Begun']} :
                                     Walks(job) /\ Alike(stack'[1], WalkOf(job))
      PROVE  Arriving'
  BY <1>2, <1>3, <1>6 DEF Arriving
<1>7. Begun \in Nat
  BY JobsAre DEF Typed, Begun
<1>8. \A walk, path : Covered(walk, path) => Covered(walk, path)'
  BY CoveredStays
<1>9. ASSUME jobs # <<>>, stack = <<>>, jobs' = Tail(jobs),
             \/ stack' = <<>> /\ ~Walks(Head(jobs))
             \/ /\ stack' # <<>> /\ Walks(Head(jobs)) /\ stack'[1] = WalkOf(Head(jobs))
      PROVE  Arriving'
  <2>1. Begun' = Begun + 1 /\ Head(jobs) = Jobs(config)[Begun + 1]
    BY <1>1, <1>9, NextJob
  <2>2. ASSUME NEW i \in 1..Begun', NEW job \in {Jobs(config)[i]}, NEW walk \in {WalkOf(job)},
               Walks(job), NEW path \in walk.left
        PROVE  Covered(walk, path)' \/ (i = Begun' /\ stack' # <<>> /\ path \in stack'[1].left)
    <3>1. CASE i \in 1..Begun
      <4>1. Covered(walk, path)
        BY <1>5, <1>9, <2>2, <3>1
      <4> QED
        BY <1>8, <4>1
    <3>2. CASE i = Begun + 1
      BY <1>9, <2>1, <2>2, <3>2
    <3> QED
      BY <1>7, <2>1, <2>2, <3>1, <3>2
  <2>3. stack' # <<>> => /\ Begun' >= 1
                         /\ \A job \in {Jobs(config)[Begun']} :
                                Walks(job) /\ Alike(stack'[1], WalkOf(job))
    BY <1>7, <1>9, <2>1 DEF Alike
  <2> QED
    BY <1>6, <2>2, <2>3
<1>10. CASE jobs # <<>> /\ stack = <<>> /\ ~Walks(Head(jobs)) /\ PassJob
  BY <1>9, <1>10 DEF PassJob
<1>11. CASE jobs # <<>> /\ stack = <<>> /\ Walks(Head(jobs)) /\ Exists(Path)
            /\ StartWalk(WalkOf(Head(jobs)))
  <2>1. /\ stack' \in Seq(WalkSet) /\ Len(stack') = 1 /\ stack'[1] = WalkOf(Head(jobs))
        /\ jobs' = Tail(jobs)
    BY <1>11, Started
  <2>2. stack' # <<>>
    <3>1. Len(stack') = 1
      BY <2>1
    <3> QED
      BY <3>1
  <2> QED
    BY <1>9, <1>11, <2>1, <2>2
<1>12. CASE ExecutableSymlink \/ RefuseMissingEntrypoints
  <2>1. /\ jobs # <<>> /\ stack = <<>> /\ stack' = <<>> /\ jobs' = Tail(jobs)
        /\ Head(jobs).do \in {"link", "entrypoints"}
    BY <1>12 DEF ExecutableSymlink, RefuseMissingEntrypoints, Doing
  <2>2. ~Walks(Head(jobs))
    BY <2>1 DEF Walks
  <2> QED
    BY <1>9, <2>1, <2>2
<1>13. ASSUME jobs' = jobs, stack # <<>>,
              stack' # <<>> => Alike(stack'[1], stack[1]),
              \A path \in stack[1].left : \A walk : Alike(stack[1], walk) =>
                  Covered(walk, path)' \/ (stack' # <<>> /\ path \in stack'[1].left)
       PROVE  Arriving'
  <2>1. Begun' = Begun
    BY <1>2, <1>13 DEF Begun
  <2>2. ASSUME NEW i \in 1..Begun, NEW job \in {Jobs(config)[i]}, NEW walk \in {WalkOf(job)},
               Walks(job), NEW path \in walk.left
        PROVE  Covered(walk, path)' \/ (i = Begun /\ stack' # <<>> /\ path \in stack'[1].left)
    <3>1. CASE Covered(walk, path)
      BY <1>8, <3>1
    <3>2. CASE i = Begun /\ path \in stack[1].left
      <4>1. Alike(stack[1], walk)
        BY <1>5, <1>13, <2>2, <3>2
      <4> QED
        BY <1>13, <3>2, <4>1
    <3> QED
      BY <1>5, <2>2, <3>1, <3>2
  <2>3. stack' # <<>> => /\ Begun >= 1
                         /\ \A job \in {Jobs(config)[Begun]} :
                                Walks(job) /\ Alike(stack'[1], WalkOf(job))
    BY <1>5, <1>13 DEF Alike
  <2> QED
    BY <1>6, <2>1, <2>2, <2>3
<1>14. ASSUME NEW entry, jobs' = jobs, Visit(entry), stack' # <<>>,
              PassOver(entry) \/ PlanFile(entry) \/ PlanLink(entry) \/ Materialise(entry),
              Alike(stack'[1], stack[1]),
              stack'[1].left = IF 1 = Len(stack) THEN stack[1].left \ {entry} ELSE stack[1].left
       PROVE  Arriving'
  <2>1. stack # <<>>
    BY <1>14 DEF Visit
  <2>2. ASSUME NEW path \in stack[1].left, NEW walk, Alike(stack[1], walk)
        PROVE  Covered(walk, path)' \/ path \in stack'[1].left
    <3>1. CASE 1 = Len(stack) /\ path = entry
      <4>1. Alike(Top, walk)
        BY <2>2, <3>1 DEF Top, Last
      <4> QED
        BY <1>14, <3>1, <4>1, EntryCovered
    <3>2. CASE ~(1 = Len(stack) /\ path = entry)
      BY <1>14, <2>2, <3>2
    <3> QED
      BY <3>1, <3>2
  <2> QED
    BY <1>13, <1>14, <2>1, <2>2
<1>15. ASSUME NEW entry, PassOver(entry) \/ PlanFile(entry) \/ PlanLink(entry) PROVE Arriving'
  <2>1. /\ Visit(entry) /\ stack' \in Seq(WalkSet) /\ Len(stack) \in Nat \ {0}
        /\ Len(stack') = Len(stack) /\ jobs' = jobs
        /\ \A i \in 1..Len(stack) :
              /\ Alike(stack'[i], stack[i])
              /\ stack'[i].left = IF i = Len(stack) THEN stack[i].left \ {entry} ELSE stack[i].left
    BY <1>15, PassedOne
  <2>2. 1 \in 1..Len(stack) /\ stack' # <<>>
    BY <2>1
  <2> QED
    BY <1>14, <1>15, <2>1, <2>2
<1>16. ASSUME NEW entry, Materialise(entry) PROVE Arriving'
  <2>1. /\ Visit(entry) /\ stack' \in Seq(WalkSet) /\ Len(stack') = Len(stack) + 1 /\ jobs' = jobs
        /\ \A i \in 1..Len(stack) :
              /\ Alike(stack'[i], stack[i])
              /\ stack'[i].left = IF i = Len(stack) THEN stack[i].left \ {entry} ELSE stack[i].left
    BY <1>16, Materialised
  <2>2. 1 \in 1..Len(stack) /\ stack' # <<>>
    BY <2>1 DEF Visit, Typed
  <2> QED
    BY <1>14, <1>16, <2>1, <2>2
<1>17. CASE LeaveTree
  <2>1. /\ stack # <<>> /\ Len(stack) \in Nat \ {0} /\ Top = stack[Len(stack)] /\ Top.left = {}
        /\ stack' \in Seq(WalkSet) /\ Len(stack') = Len(stack) - 1 /\ jobs' = jobs
        /\ \A i \in 1..Len(stack) - 1 : stack'[i] = stack[i]
        /\ Len(stack) = 1 => stack' = <<>>
    BY <1>17, Left
  <2>2. CASE Len(stack) = 1
    BY <1>13, <2>1, <2>2
  <2>3. CASE Len(stack) # 1
    <3>1. stack'[1] = stack[1] /\ stack' # <<>>
      BY <2>1, <2>3
    <3> QED
      BY <1>13, <2>1, <3>1 DEF Alike
  <2> QED
    BY <2>2, <2>3
<1> QED
  BY <1>10, <1>11, <1>12, <1>15, <1>16, <1>17, Steps DEF Refuse

-----------------------------------------------------------------------------
(* No link dangles.                                                          *)

(* A walk that skips nothing begins with its whole tree.                     *)
LEMMA FillingStep == ASSUME Typed, Filling, Next PROVE Filling'
<1>1. tree' = tree /\ config' = config
  BY OnlyPlans
<1>2. \A file : IsRegular(file)' <=> IsRegular(file)
  BY <1>1 DEF IsRegular
<1>3. /\ stack \in Seq(WalkSet) /\ Len(stack) \in Nat /\ DOMAIN stack = 1..Len(stack)
      /\ DOMAIN stack' = 1..Len(stack')
  BY TypedStep DEF Typed
<1>4. ASSUME \A i \in 1..Len(stack') : \A walk \in {stack'[i]} : ~walk.skip =>
                 \A file \in DOMAIN tree :
                     IsRegular(file) /\ Within(file, walk.root) =>
                         Beneath(walk.root, walk.dest, file)'
      PROVE  Filling'
  <2>1. \A walk \in Range(stack') : \E i \in 1..Len(stack') : walk = stack'[i]
    BY <1>3 DEF Range
  <2>2. Range(stack)' = Range(stack')
    BY DEF Range
  <2> QED
    BY <1>1, <1>2, <1>4, <2>1, <2>2 DEF Filling
<1>5. ASSUME NEW i \in 1..Len(stack), NEW walk, Alike(walk, stack[i]), ~walk.skip,
             NEW file \in DOMAIN tree, IsRegular(file), Within(file, walk.root)
      PROVE  Beneath(walk.root, walk.dest, file)'
  <2>1. stack[i] \in Range(stack)
    BY <1>3 DEF Range
  <2>2. Beneath(walk.root, walk.dest, file)
    BY <1>5, <2>1 DEF Filling, Alike
  <2> QED
    BY <1>5, <2>2, BeneathStays
<1>6. ASSUME NEW i \in 1..Len(stack'), NEW walk, walk = stack'[i], ~walk.skip,
             walk.left = {p \in DOMAIN tree : Within(p, walk.root)},
             NEW file \in DOMAIN tree, Within(file, walk.root)
      PROVE  Beneath(walk.root, walk.dest, file)'
  <2>1. i \in DOMAIN stack'
    BY <1>3
  <2> QED
    BY <1>6, <2>1 DEF Beneath, Pending
<1>7. CASE UNCHANGED <<tree, config, stack, visited>>
  BY <1>4, <1>5, <1>7 DEF Alike
<1>8. CASE jobs # <<>> /\ stack = <<>> /\ Exists(Path) /\ StartWalk(WalkOf(Head(jobs)))
  <2>1. Len(stack') = 1 /\ stack'[1] = WalkOf(Head(jobs))
    BY <1>8, Started
  <2>2. WalkOf(Head(jobs)).skip \/
        WalkOf(Head(jobs)).left = {p \in DOMAIN tree : Within(p, WalkOf(Head(jobs)).root)}
    BY DEF WalkOf, AppWalk, Walk
  <2> QED
    BY <1>4, <1>6, <2>1, <2>2
<1>9. ASSUME NEW entry, PassOver(entry) \/ PlanFile(entry) \/ PlanLink(entry) PROVE Filling'
  <2>1. Len(stack') = Len(stack) /\ \A i \in 1..Len(stack) : Alike(stack'[i], stack[i])
    BY <1>9, PassedOne
  <2> QED
    BY <1>4, <1>5, <2>1
<1>10. ASSUME NEW entry, Materialise(entry) PROVE Filling'
  <2> DEFINE n == Len(stack) + 1
  <2>1. /\ Len(stack') = n /\ \A i \in 1..Len(stack) : Alike(stack'[i], stack[i])
        /\ stack'[n].left = {p \in DOMAIN tree : Within(p, stack'[n].root)}
    BY <1>10, Materialised
  <2>2. \A i \in 1..n : i \in 1..Len(stack) \/ i = n
    BY <1>3
  <2> HIDE DEF n
  <2> QED
    BY <1>4, <1>5, <1>6, <2>1, <2>2
<1>11. CASE LeaveTree
  <2>1. Len(stack') = Len(stack) - 1 /\ \A i \in 1..Len(stack) - 1 : stack'[i] = stack[i]
    BY <1>11, Left
  <2>2. \A i \in 1..Len(stack') : i \in 1..Len(stack) /\ Alike(stack'[i], stack[i])
    BY <1>3, <2>1 DEF Alike
  <2> QED
    BY <1>4, <1>5, <2>2
<1> QED
  BY <1>7, <1>8, <1>9, <1>10, <1>11, Steps, NoWalkMoves

(* A file that is in a walk, and to be planned at a place, is planned there. *)
LEMMA InWalkStays ==
    ASSUME Typed, Next, NEW file, NEW target, IsRegular(file), InWalk(file, target)
    PROVE  InWalk(file, target)'
<1>1. CASE target \in DOMAIN files
  BY <1>1, PlansStay DEF InWalk
<1>2. ASSUME NEW k \in DOMAIN stack, ~stack[k].skip, file \in stack[k].left,
             target = At(stack[k], file)
      PROVE  InWalk(file, target)'
  <2>1. PICK root, dest : root = stack[k].root /\ dest = stack[k].dest
    OBVIOUS
  <2>2. Pending(root, dest, file) /\ target = dest \o Relative(file, root)
    BY <1>2, <2>1 DEF Pending, At
  <2>3. Pending(root, dest, file)' \/ target \in DOMAIN files'
    BY <2>2, PendingStays
  <2> QED
    BY <2>2, <2>3 DEF InWalk, Pending, At
<1> QED
  BY <1>1, <1>2 DEF InWalk

(* A planned link leads where it did.                                        *)
LEMMA LedStep == ASSUME Typed, InPlace, Filling, Led, Next PROVE Led'
<1>1. tree' = tree /\ config' = config
  BY OnlyPlans
<1>2. ASSUME NEW source, NEW dest, NEW target, Leads(source, dest, target)
      PROVE  Leads(source, dest, target)'
  <2>1. Canonical(source)' = Canonical(source) /\ (Exists(source)' <=> Exists(source))
    BY <1>1, AnswersStay
  <2>2. \A file : IsRegular(file)' <=> IsRegular(file)
    BY <1>1 DEF IsRegular
  <2>3. \A file : IsRegular(file) /\ InWalk(file, target) => InWalk(file, target)'
    BY InWalkStays
  <2> QED
    BY <1>2, <2>1, <2>2, <2>3 DEF Leads, OfTheApp
<1>3. ASSUME NEW at, NEW entry, Claim(at, entry),
             entry.kind = "link" /\ at # BinLink => Leads(entry.source, at, entry.target)
      PROVE  Led'
  <2>1. /\ DOMAIN files' = DOMAIN files \cup {at}
        /\ \A d \in DOMAIN files : files'[d] = files[d]
        /\ at \notin DOMAIN files => files'[at] = entry
    BY <1>3, Claimed
  <2>2. ASSUME NEW dest \in DOMAIN files' \ {BinLink}, NEW planned \in {files'[dest]},
               planned.kind = "link"
        PROVE  Leads(planned.source, dest, planned.target)
    BY <1>3, <2>1, <2>2 DEF Led
  <2> QED
    BY <1>2, <2>2 DEF Led
<1>4. ASSUME NEW entry, PlanFile(entry) PROVE Led'
  <2> DEFINE planned == [source |-> entry, kind |-> "file", target |-> <<>>]
  <2>1. Claim(Destination(entry), planned) /\ planned.kind # "link"
    BY <1>4, FilePlanned
  <2> HIDE DEF planned
  <2> QED
    BY <1>3, <2>1
<1>5. ASSUME NEW entry, PlanLink(entry) PROVE Led'
  <2> DEFINE c == Canonical(entry)
             planned == [source |-> entry, kind |-> "link", target |-> Destination(c)]
  <2>1. /\ Visit(entry) /\ Exists(entry) /\ Within(c, Top.root)
        /\ ~(Top.skip /\ Names(entry, "node_modules")) /\ Claim(Destination(entry), planned)
    BY <1>5, LinkPlanned
  <2>2. /\ entry \in Top.left /\ stack # <<>> /\ entry \in Seq(Name)
        /\ Destination(entry) = Top.dest \o Relative(entry, Top.root)
    BY <2>1, Visited DEF Destination
  <2>3. Top = stack[Len(stack)] /\ Len(stack) \in DOMAIN stack
    <3>1. stack \in Seq(WalkSet) /\ Len(stack) \in Nat \ {0}
      BY <2>2 DEF Typed
    <3> QED
      BY <3>1 DEF Top, Last
  <2>4. From(Top, entry)
    BY <2>2, <2>3 DEF InPlace
  <2>5. Leads(entry, Destination(entry), Destination(c))
    <3>1. CASE Top.skip
      <4>1. Top.root = Project /\ Top.dest = App /\ Within(entry, Project)
        BY <2>4, <3>1 DEF From
      <4> QED
        BY <2>1, <2>2, <3>1, <4>1 DEF Leads, OfTheApp, Destination
    <3>2. CASE ~Top.skip
      <4> SUFFICES ASSUME IsRegular(c) PROVE InWalk(c, Destination(c))
        BY <2>1, <2>2 DEF Leads
      <4>1. Top \in Range(stack)
        BY <2>3 DEF Range
      <4>2. Beneath(Top.root, Top.dest, c)
        BY <2>1, <3>2, <4>1 DEF Filling, IsRegular
      <4> QED
        BY <4>2 DEF Beneath, Pending, InWalk, At, Destination
    <3> QED
      BY <3>1, <3>2
  <2>6. planned.source = entry /\ planned.target = Destination(c)
    OBVIOUS
  <2> HIDE DEF planned, c
  <2> QED
    BY <1>3, <2>1, <2>5, <2>6
<1>6. CASE ExecutableSymlink
  <2>1. Claim(BinLink, [source |-> <<"generated">>, kind |-> "link", target |-> <<"bin">>])
    BY <1>6 DEF ExecutableSymlink
  <2> QED
    BY <1>3, <2>1
<1>7. CASE files' = files
  <2>1. ASSUME NEW dest \in DOMAIN files \ {BinLink}, NEW planned \in {files[dest]},
               planned.kind = "link"
        PROVE  Leads(planned.source, dest, planned.target)
    BY <2>1 DEF Led
  <2> QED
    BY <1>2, <1>7, <2>1 DEF Led
<1> QED
  BY <1>4, <1>5, <1>6, <1>7, NothingPlanned

-----------------------------------------------------------------------------
(* The invariant, and what follows from it.                                  *)

(* Every step keeps it, and so does none.                                    *)
LEMMA InvariantStep == IInv /\ [Next]_vars => IInv'
<1> SUFFICES ASSUME IInv, [Next]_vars PROVE IInv'
  OBVIOUS
<1>1. CASE Next
  BY <1>1, TypedStep, NestedStep, InPlaceStep, ShipsStep, RunnableStep, ArrivingStep,
     FillingStep, LedStep DEF IInv
<1>2. CASE vars' = vars
  <2>1. UNCHANGED <<tree, config, jobs, stack, visited, files, outcome>>
    BY <1>2 DEF vars
  <2>2. /\ Jobs(config)' = Jobs(config) /\ Executed(config)' = Executed(config)
        /\ \A path : Canonical(path)' = Canonical(path) /\ Kind(path)' = Kind(path)
        /\ \A path : (IsLink(path)' <=> IsLink(path)) /\ (Exists(path)' <=> Exists(path))
        /\ WorkspaceRoots' = WorkspaceRoots
        /\ \A job : (Walks(job)' <=> Walks(job)) /\ WalkOf(job)' = WalkOf(job)
    BY <2>1, AnswersStay, WalksStay
  <2>3. Typed' /\ Nested'
    BY <1>2, <2>1, TypedStays DEF IInv, Typed, FilesTyped, Nested, NoTreeInsideItself
  <2>4. InPlace'
    BY <2>1, <2>2 DEF IInv, InPlace, From, Offered
  <2>5. NothingElseShips' /\ Runnable'
    BY <2>1, <2>2 DEF IInv, NothingElseShips, Runnable
  <2>6. Arriving'
    <3>1. \A file : IsRegular(file)' <=> IsRegular(file)
      BY <2>1 DEF IsRegular
    <3>2. \A root, dest, file : Beneath(root, dest, file)' <=> Beneath(root, dest, file)
      BY <2>1 DEF Beneath, Pending
    <3>3. ASSUME NEW walk, NEW path PROVE Covered(walk, path)' <=> Covered(walk, path)
      <4>1. /\ IsRegular(path)' <=> IsRegular(path)
            /\ IsLink(path)' <=> IsLink(path)
            /\ Exists(path)' <=> Exists(path)
            /\ Canonical(path)' = Canonical(path)
        BY <2>2, <3>1
      <4>2. (\A file \in DOMAIN tree :
                 IsRegular(file) /\ Within(file, Canonical(path)) =>
                     Beneath(Canonical(path), At(walk, path), file))'
            <=> \A file \in DOMAIN tree :
                    IsRegular(file) /\ Within(file, Canonical(path)) =>
                        Beneath(Canonical(path), At(walk, path), file)
        BY <2>1, <3>1, <3>2, <4>1 DEF At
      <4> QED
        BY <2>1, <4>1, <4>2 DEF Covered, At
    <3>4. Begun' = Begun
      BY <2>1, <2>2 DEF Begun
    <3> QED
      BY <2>1, <2>2, <3>3, <3>4 DEF IInv, Arriving
  <2>7. Filling' /\ Led'
    <3>1. \A file : IsRegular(file)' <=> IsRegular(file)
      BY <2>1 DEF IsRegular
    <3>2. \A root, dest, file : Beneath(root, dest, file)' <=> Beneath(root, dest, file)
      BY <2>1 DEF Beneath, Pending
    <3>3. Filling'
      BY <2>1, <3>1, <3>2 DEF IInv, Filling, Range
    <3>4. ASSUME NEW source, NEW dest, NEW target
          PROVE  Leads(source, dest, target)' <=> Leads(source, dest, target)
      <4>1. Canonical(source)' = Canonical(source) /\ (Exists(source)' <=> Exists(source))
        BY <2>2
      <4>2. OfTheApp(source, dest, target)' <=> OfTheApp(source, dest, target)
        BY <4>1 DEF OfTheApp
      <4>3. \A file : InWalk(file, target)' <=> InWalk(file, target)
        BY <2>1 DEF InWalk, At
      <4> QED
        BY <3>1, <4>1, <4>2, <4>3 DEF Leads
    <3>5. Led'
      BY <2>1, <3>4 DEF IInv, Led
    <3> QED
      BY <3>3, <3>5
  <2> QED
    BY <2>3, <2>4, <2>5, <2>6, <2>7 DEF IInv
<1> QED
  BY <1>1, <1>2

(* A finished plan has what every job was to bring.                          *)
LEMMA AllArrived ==
    ASSUME Typed, Arriving, Planned, NEW job \in Range(Jobs(config)), Walks(job),
           NEW path \in WalkOf(job).left
    PROVE  Covered(WalkOf(job), path)
<1>1. jobs = <<>> /\ stack = <<>> /\ outcome # "refused"
  BY DEF Typed, Planned
<1>2. Jobs(config) \in Seq(JobSet)
  BY JobsAre DEF Typed
<1>3. Begun = Len(Jobs(config))
  BY <1>1, <1>2 DEF Begun
<1>4. PICK i \in 1..Len(Jobs(config)) : job = Jobs(config)[i]
  BY <1>2 DEF Range
<1> QED
  BY <1>1, <1>3, <1>4 DEF Arriving

(* A path below a root has the root's components, and then its own.          *)
LEMMA BelowNothing ==
    ASSUME NEW path \in Seq(Name), NEW root \in Seq(Name)
    PROVE  <<>> \o Relative(path, root) = Relative(path, root)
  BY RelativeIsPath, ConcatEmptySeq

(* Every input and every extra file arrives.                                 *)
LEMMA Arrivals == ASSUME Typed, Arriving, Planned PROVE InputsArrive /\ ExtraFilesArrive
<1>1. IsConfig /\ IsFileSystem(tree)
  BY DEF Typed
<1>2. InputsArrive
  <2> SUFFICES ASSUME NEW i \in DOMAIN Inputs(config), ~Names(Inputs(config)[i], "node_modules"),
                      NEW file \in DOMAIN tree,
                      IsRegular(file), ~Names(file, "node_modules"),
                      Within(file, Canonical(Project \o Inputs(config)[i]))
               PROVE  /\ App \o Relative(file, Project) \in DOMAIN files
                      /\ files[App \o Relative(file, Project)].source = file
    BY DEF InputsArrive
  <2> DEFINE job == [do |-> "input", path |-> Inputs(config)[i]]
             root == Canonical(Project \o Inputs(config)[i])
  <2>1. job \in Range(Jobs(config)) /\ job.do = "input" /\ job.path = Inputs(config)[i]
    BY <1>1, JobsAre
  <2> HIDE DEF job
  <2>2. Walks(job)
    BY <2>1 DEF Walks
  <2>3. WalkOf(job) = Walk(root, Project, App, Project, FALSE, TRUE)
    BY <2>1 DEF WalkOf, AppWalk
  <2>4. /\ file \in WalkOf(job).left /\ WalkOf(job).root = Project /\ WalkOf(job).dest = App
    BY <2>3 DEF Walk
  <2>5. Covered(WalkOf(job), file)
    BY <2>1, <2>2, <2>4, AllArrived
  <2> QED
    BY <2>4, <2>5 DEF Covered, At
<1>3. ExtraFilesArrive
  <2> DEFINE root == Canonical(Project \o config.extra)
             job == [do |-> "extra", path |-> config.extra]
  <2> SUFFICES ASSUME config.extra # <<>>, NEW file \in DOMAIN tree,
                      IsRegular(file), Within(file, root)
               PROVE  Relative(file, root) \in DOMAIN files /\ files[Relative(file, root)].source = file
    BY DEF ExtraFilesArrive
  <2>1. job \in Range(Jobs(config)) /\ job.do = "extra" /\ job.path = config.extra
    BY <1>1, JobsAre
  <2>2. Project \o config.extra \in Seq(Name)
    BY <1>1, PlacesAssumption, ConcatProperties DEF IsConfig
  <2>3. root \in Seq(Name) /\ file \in Seq(Name)
    BY <1>1, <2>2, CanonicalIsPath DEF IsFileSystem
  <2> HIDE DEF job, root
  <2>4. Walks(job)
    BY <2>1 DEF Walks
  <2>5. WalkOf(job) = Walk(root, root, <<>>, root, FALSE, FALSE)
    BY <2>1 DEF WalkOf, root
  <2>6. /\ file \in WalkOf(job).left /\ WalkOf(job).root = root /\ WalkOf(job).dest = <<>>
        /\ ~WalkOf(job).skip
    BY <2>5 DEF Walk
  <2>7. Covered(WalkOf(job), file)
    BY <2>1, <2>4, <2>6, AllArrived
  <2> QED
    BY <2>3, <2>6, <2>7, BelowNothing DEF Covered, At
<1> QED
  BY <1>2, <1>3

(* A vendored dependency tree arrives, with the packages it links to.        *)
LEMMA DependenciesDo == ASSUME Typed, Arriving PROVE DependenciesArrive
<1> DEFINE root == Canonical(Append(Project, "node_modules"))
           dest == Append(App, "node_modules")
           job == [do |-> "dependencies", path |-> <<"node_modules">>]
<1> SUFFICES ASSUME Planned, config.strategy # "npm-install",
                    Exists(Append(Project, "node_modules")),
                    NEW link \in DOMAIN tree, IsLink(link), Within(link, root), Exists(link),
                    NEW file \in DOMAIN tree, IsRegular(file), Within(file, Canonical(link))
             PROVE  IF Within(file, root)
                    THEN (App \o <<"node_modules">> \o Relative(file, root)) \in DOMAIN files
                    ELSE (App \o <<"node_modules">> \o Relative(link, root))
                             \o Relative(file, Canonical(link)) \in DOMAIN files
  BY DEF DependenciesArrive
<1>1. IsFileSystem(tree) /\ IsConfig
  BY DEF Typed
<1>2. /\ root \in DOMAIN tree /\ root \in Seq(Name) /\ ~IsLink(root)
      /\ Kind(Append(Project, "node_modules")) = tree[root].kind
  BY <1>1, CanonicalExists
<1>3. link \in Seq(Name) /\ file \in Seq(Name) /\ Canonical(link) \in Seq(Name)
  BY <1>1, CanonicalExists DEF IsFileSystem
<1>4. Project \o <<"node_modules">> = Append(Project, "node_modules")
      /\ App \o <<"node_modules">> = dest
  BY PlacesAssumption
<1> HIDE DEF root
<1>5. tree[root].kind = "dir"
  <2>1. Len(root) <= Len(link) /\ SubSeq(root, 1, Len(root)) = SubSeq(link, 1, Len(root))
    BY DEF Within, IsPrefix
  <2>2. SubSeq(root, 1, Len(root)) = root /\ SubSeq(link, 1, Len(link)) = link
    BY <1>2, <1>3
  <2>3. Len(root) # Len(link)
    BY <1>2, <2>1, <2>2
  <2>4. Len(root) \in 0..Len(link) - 1
    BY <1>2, <1>3, <2>1, <2>3
  <2>5. SubSeq(link, 1, Len(root)) \in DOMAIN tree => tree[SubSeq(link, 1, Len(root))].kind = "dir"
    BY <1>1, <2>4 DEF IsFileSystem
  <2> QED
    BY <1>2, <2>1, <2>2, <2>5
<1>6. job \in Range(Jobs(config)) /\ job.do = "dependencies" /\ job.path = <<"node_modules">>
  BY <1>1, JobsAre
<1> HIDE DEF job
<1>7. Walks(job)
  BY <1>2, <1>4, <1>5, <1>6 DEF Walks
<1>8. /\ WalkOf(job).left = {p \in DOMAIN tree : Within(p, root)} /\ WalkOf(job).root = root
      /\ WalkOf(job).dest = dest /\ ~WalkOf(job).skip
  <2>1. WalkOf(job) = Walk(root, root, dest, Project, TRUE, FALSE)
    BY <1>4, <1>6 DEF WalkOf, root
  <2> QED
    BY <2>1 DEF Walk
<1> HIDE DEF dest
<1>9. CASE Within(file, root)
  <2>1. Covered(WalkOf(job), file)
    BY <1>6, <1>7, <1>8, <1>9, AllArrived
  <2>2. At(WalkOf(job), file) \in DOMAIN files
    BY <1>8, <2>1 DEF Covered
  <2> QED
    BY <1>4, <1>8, <1>9, <2>2 DEF At
<1>10. CASE ~Within(file, root)
  <2>1. ~Within(Canonical(link), root)
    BY <1>2, <1>3, <1>10, WithinTransitive
  <2>2. Covered(WalkOf(job), link)
    BY <1>6, <1>7, <1>8, AllArrived
  <2>3. Beneath(Canonical(link), At(WalkOf(job), link), file)
    BY <1>8, <2>1, <2>2 DEF Covered
  <2>4. ~Pending(Canonical(link), At(WalkOf(job), link), file)
    <3>1. stack = <<>>
      BY DEF Typed, Planned
    <3> QED
      BY <3>1 DEF Pending
  <2> QED
    BY <1>4, <1>8, <1>10, <2>3, <2>4 DEF Beneath, At
<1> QED
  BY <1>9, <1>10

(* A path below a root is the root and the rest.                             *)
LEMMA RootAndRest ==
    ASSUME NEW path \in Seq(Name), NEW root \in Seq(Name), Within(path, root)
    PROVE  path = root \o Relative(path, root)
<1>1. /\ Len(root) \in Nat /\ Len(path) \in Nat /\ Len(root) <= Len(path)
      /\ SubSeq(root, 1, Len(root)) = SubSeq(path, 1, Len(root))
  BY DEF Within, IsPrefix
<1>2. \A i \in 1..Len(root) : root[i] = path[i]
  BY <1>1
<1> DEFINE rest == SubSeq(path, Len(root) + 1, Len(path))
<1>3. /\ rest \in Seq(Name) /\ Len(rest) = Len(path) - Len(root)
      /\ \A i \in 1..Len(path) - Len(root) : rest[i] = path[Len(root) + i]
  <2>1. \A i \in Len(root) + 1..Len(path) : path[i] \in Name
    BY <1>1
  <2>2. /\ rest \in Seq(Name)
        /\ Len(rest) = IF Len(root) + 1 <= Len(path) THEN Len(path) - (Len(root) + 1) + 1 ELSE 0
        /\ \A i \in 1..Len(path) - (Len(root) + 1) + 1 : rest[i] = path[Len(root) + 1 + i - 1]
    <3>1. Len(root) + 1 \in Int /\ Len(path) \in Int
      BY <1>1
    <3> QED
      BY <2>1, <3>1, SubSeqProperties
  <2>3. ASSUME NEW i \in 1..Len(path) - Len(root) PROVE rest[i] = path[Len(root) + i]
    <3>1. i \in 1..Len(path) - (Len(root) + 1) + 1 /\ Len(root) + 1 + i - 1 = Len(root) + i
      BY <1>1
    <3> QED
      BY <2>2, <3>1
  <2> HIDE DEF rest
  <2> QED
    BY <1>1, <2>2, <2>3
<1> HIDE DEF rest
<1> DEFINE whole == root \o rest
<1>4. /\ whole \in Seq(Name) /\ Len(whole) = Len(path)
      /\ \A i \in 1..Len(path) : whole[i] = path[i]
  <2>1. Joins(whole, root, rest)
    BY DEF Joins
  <2> HIDE DEF whole
  <2>2. /\ whole \in Seq(Name) /\ Len(whole) = Len(root) + Len(rest)
        /\ \A i \in 1..Len(root) : whole[i] = root[i]
        /\ \A i \in 1..Len(rest) : whole[Len(root) + i] = rest[i]
    BY <1>3, <2>1, RangeOfConcat
  <2>3. ASSUME NEW i \in 1..Len(path) PROVE whole[i] = path[i]
    <3>1. CASE i \in 1..Len(root)
      BY <1>2, <2>2, <3>1
    <3>2. CASE i \notin 1..Len(root)
      <4> DEFINE j == i - Len(root)
      <4>1. j \in 1..Len(rest) /\ j \in 1..Len(path) - Len(root) /\ i = Len(root) + j
        BY <1>1, <1>3, <3>2
      <4> HIDE DEF j
      <4> QED
        BY <1>3, <2>2, <4>1
    <3> QED
      BY <3>1, <3>2
  <2> QED
    BY <1>1, <1>3, <2>2, <2>3
<1>5. whole = path
  <2> HIDE DEF whole
  <2> QED
    BY <1>4, SeqEqual
<1> QED
  BY <1>5 DEF Relative, rest

(* An entry point that is there is an input, unless others are named.        *)
LEMMA EntryPointsAreInputs ==
    ASSUME IsConfig, config.named = <<>>, NEW entry \in {config.daemon, config.cli}, entry # <<>>,
           Exists(Project \o entry)
    PROVE  \E i \in DOMAIN Inputs(config) : Inputs(config)[i] = entry
<1> DEFINE P == Seq(Name)
           d == Given(config.daemon)
           c == Given(config.cli)
           both == d \o c
           all == both \o Usual
<1>1. d \in Seq(P) /\ c \in Seq(P) /\ Usual \in Seq(P)
  BY PlacesAssumption DEF IsConfig, Given, Usual
<1>2. entry \in Range(d) \/ entry \in Range(c)
  <2>1. CASE entry = config.daemon
    <3>1. d = <<entry>>
      BY <2>1 DEF Given
    <3> QED
      BY <3>1 DEF Range
  <2>2. CASE entry = config.cli
    <3>1. c = <<entry>>
      BY <2>2 DEF Given
    <3> QED
      BY <3>1 DEF Range
  <2> QED
    BY <2>1, <2>2
<1>3. Joins(both, d, c) /\ Joins(all, both, Usual)
  BY DEF Joins
<1>4. Inputs(config) = Existing(all)
  BY DEF Inputs, EntryPoints
<1> HIDE DEF d, c, both, all, P
<1>5. both \in Seq(P) /\ Range(both) = Range(d) \cup Range(c)
  BY <1>1, <1>3, RangeOfConcat
<1>6. all \in Seq(P) /\ Range(all) = Range(both) \cup Range(Usual)
  BY <1>1, <1>3, <1>5, RangeOfConcat
<1>7. PICK n \in 1..Len(all) : all[n] = entry
  <2>1. entry \in Range(all) /\ DOMAIN all = 1..Len(all)
    BY <1>2, <1>5, <1>6
  <2> QED
    BY <2>1 DEF Range
<1> QED
  BY <1>4, <1>6, <1>7, ExistingAreInputs DEF P

(* The default inputs bring what an executed link leads to.                  *)
LEMMA DefaultsDo == ASSUME Typed, Runnable, Arriving, Led PROVE DefaultInputsSuffice
<1> SUFFICES ASSUME Planned, config.named = <<>>, NEW dest \in Executed(config),
                    ~Names(Canonical(files[dest].source), "node_modules"), files[dest].kind = "link"
             PROVE  dest \in DOMAIN files /\ files[dest].target \in DOMAIN files
  <2>1. Planned => \A dest \in Executed(config) : dest \in DOMAIN files
    BY DEF Typed, Planned
  <2> QED
    BY <2>1 DEF DefaultInputsSuffice, WithItsTarget
<1> DEFINE source == files[dest].source
           target == files[dest].target
           c == Canonical(source)
<1>1. IsConfig /\ IsFileSystem(tree) /\ stack = <<>> /\ dest \in DOMAIN files
  BY DEF Typed, Planned
<1>2. Leads(source, dest, target)
  <2>1. dest # BinLink
    BY <1>1, BinLinkIsNotExecuted
  <2> QED
    BY <1>1, <2>1 DEF Led
<1>3. IsRegular(c) /\ c \in DOMAIN tree /\ c \in Seq(Name) /\ source \in Seq(Name) /\ Exists(source)
  <2>1. Kind(source) = "script"
    BY <1>1 DEF Runnable
  <2>2. source \in Seq(Name) /\ Exists(source)
    BY <1>2 DEF Leads
  <2> HIDE DEF source
  <2> QED
    BY <1>1, <2>1, <2>2, CanonicalExists DEF IsRegular
<1> HIDE DEF source, target
<1>4. CASE InWalk(c, target)
  BY <1>1, <1>4 DEF InWalk, target
<1>5. CASE OfTheApp(source, dest, target)
  <2> DEFINE rest == Relative(source, Project)
  <2>1. /\ ~Names(source, "node_modules") /\ dest = App \o rest /\ source = Project \o rest
        /\ rest \in Seq(Name) /\ target = App \o Relative(c, Project)
    <3>1. Project \in Seq(Name)
      BY PlacesAssumption
    <3> QED
      BY <1>3, <1>5, <3>1, RootAndRest, RelativeIsPath DEF OfTheApp
  <2>2. PICK entry \in {config.daemon, config.cli} : entry # <<>> /\ dest = App \o entry
    BY DEF Executed
  <2> HIDE DEF rest
  <2>3. entry = rest
    <3>1. entry \in Seq(Name) /\ App \in Seq(Name)
      BY <1>1, <2>2, PlacesAssumption DEF IsConfig
    <3> QED
      BY <2>1, <2>2, <3>1, ConcatSimplifications
  <2>4. PICK i \in DOMAIN Inputs(config) : Inputs(config)[i] = entry
    BY <1>1, <1>3, <2>1, <2>2, <2>3, EntryPointsAreInputs
  <2> DEFINE job == [do |-> "input", path |-> entry]
  <2>5. job \in Range(Jobs(config)) /\ job.do = "input" /\ job.path = entry
    BY <1>1, <2>4, JobsAre
  <2> HIDE DEF job
  <2>6. ~Names(entry, "node_modules")
    <3>1. ASSUME NEW j \in DOMAIN rest, rest[j] = "node_modules" PROVE FALSE
      <4>1. Project \in Seq(Name) /\ Joins(source, Project, rest)
        BY <2>1, PlacesAssumption DEF Joins
      <4>2. /\ Len(source) = Len(Project) + Len(rest)
            /\ \A k \in 1..Len(rest) : source[Len(Project) + k] = rest[k]
        BY <2>1, <4>1, RangeOfConcat
      <4>3. Len(Project) + j \in DOMAIN source /\ j \in 1..Len(rest)
        BY <1>3, <2>1, <3>1, <4>1, <4>2
      <4> QED
        BY <2>1, <3>1, <4>2, <4>3 DEF Names
    <3> QED
      BY <2>3, <3>1 DEF Names
  <2>7. Walks(job)
    BY <2>5, <2>6 DEF Walks
  <2>8. WalkOf(job) = Walk(c, Project, App, Project, FALSE, TRUE)
    BY <2>1, <2>3, <2>5 DEF WalkOf, AppWalk
  <2>9. /\ c \in WalkOf(job).left /\ WalkOf(job).root = Project /\ WalkOf(job).dest = App
    <3>1. Within(c, c)
      BY <1>3 DEF Within, IsPrefix
    <3> HIDE DEF c
    <3> QED
      BY <1>3, <2>8, <3>1 DEF Walk
  <2>10. Covered(WalkOf(job), c)
    BY <2>5, <2>7, <2>9, AllArrived
  <2> QED
    BY <1>1, <1>3, <2>1, <2>9, <2>10 DEF Covered, At, source, target
<1> QED
  BY <1>2, <1>3, <1>4, <1>5 DEF Leads

(* What the runs check follows from the invariant.                           *)
LEMMA Consequences ==
    IInv => /\ TypeOK /\ NoTreeInsideItself /\ NothingElseShips /\ EntrypointsRun
            /\ NothingIsLost /\ DependenciesArrive /\ DefaultInputsSuffice
<1> SUFFICES ASSUME IInv
             PROVE  /\ TypeOK /\ NoTreeInsideItself /\ NothingElseShips /\ EntrypointsRun
                    /\ NothingIsLost /\ DependenciesArrive /\ DefaultInputsSuffice
  OBVIOUS
<1>1. TypeOK
  <2>1. ASSUME NEW i \in DOMAIN stack PROVE stack[i].left \subseteq DOMAIN tree
    <3>1. stack[i] \in WalkSet
      <4>1. stack \in Seq(WalkSet)
        BY DEF IInv, Typed
      <4> QED
        BY <4>1
    <3> QED
      BY <3>1 DEF WalkSet
  <2>2. /\ outcome \in {"collecting", "planned", "refused"}
        /\ \A dest \in DOMAIN files : files[dest].kind \in {"file", "link"}
    BY DEF IInv, Typed, FilesTyped
  <2>3. visited = {stack[i].root : i \in 2..Len(stack)}
    BY DEF IInv, Nested
  <2> QED
    BY <2>1, <2>2, <2>3 DEF TypeOK
<1>2. NoTreeInsideItself /\ NothingElseShips
  BY DEF IInv, Nested
<1>3. EntrypointsRun
  BY DEF IInv, Typed, Runnable, EntrypointsRun, Planned
<1>4. NothingIsLost
  BY Arrivals DEF IInv, NothingIsLost
<1>5. DependenciesArrive
  BY DependenciesDo DEF IInv
<1>6. DefaultInputsSuffice
  BY DefaultsDo DEF IInv
<1> QED
  BY <1>1, <1>2, <1>3, <1>4, <1>5, <1>6

-----------------------------------------------------------------------------
(* The promises of the collector.                                            *)

(* The invariant holds of every collection.                                  *)
THEOREM Invariant == Spec => []IInv
<1>1. Init => IInv
  BY InvariantInit
<1>2. IInv /\ [Next]_vars => IInv'
  BY InvariantStep
<1> QED
  BY <1>1, <1>2, PTL DEF Spec

(* The walks stay in the tree, the plan is of files and links, and visited   *)
(* are the roots of the trees being materialised, whatever nests.            *)
THEOREM TypesAreKept == Spec => []TypeOK
  BY Invariant, Consequences, PTL

(* Workspace packages that link to each other never nest a tree in itself.   *)
THEOREM NestingIsBounded == Spec => []NoTreeInsideItself
  BY Invariant, Consequences, PTL

(* Whatever links a project has, every regular file planned is from a place  *)
(* the project gave, in its canonical form.                                  *)
THEOREM OnlyTheProjectShips == Spec => []NothingElseShips
  BY Invariant, Consequences, PTL

(* A finished plan has a program, or a link to one, at every place that the  *)
(* unit or the wrapper executes.                                             *)
THEOREM WhatIsExecutedRuns == Spec => []EntrypointsRun
  BY Invariant, Consequences, PTL

(* A finished plan has every regular file of every input and of the extra    *)
(* files, from that file and no other.                                       *)
THEOREM InputsAreComplete == Spec => []NothingIsLost
  BY Invariant, Consequences, PTL

(* A finished plan has the files of every package a vendored dependency tree *)
(* links to.                                                                 *)
THEOREM VendoredTreesAreComplete == Spec => []DependenciesArrive
  BY Invariant, Consequences, PTL

(* With no inputs named, a finished plan has what an executed link leads to, *)
(* through however many links, unless that is a dependency.                  *)
THEOREM DefaultsAreComplete == Spec => []DefaultInputsSuffice
  BY Invariant, Consequences, PTL
=============================================================================
