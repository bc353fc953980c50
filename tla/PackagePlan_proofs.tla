------------------------- MODULE PackagePlan_proofs -------------------------
(* For every project, install directory and set of extra files: plans are    *)
(* trees, /etc is configuration, the formats carry the same files, links     *)
(* lead into the package and the rpm owns its directories and no others.     *)
EXTENDS PackagePlan, Integers, FiniteSetTheorems, SequenceTheorems, WellFoundedInduction,
        NaturalsInduction, TLAPS

-----------------------------------------------------------------------------
(* The directories above a destination are destinations, and what is above   *)
(* one of them is above the destination too.                                 *)
LEMMA AncestorsNest ==
    ASSUME NEW d \in Destination, NEW a \in Ancestors(d)
    PROVE  a \in Destination /\ Ancestors(a) \subseteq Ancestors(d)
<1>1. PICK n \in 1..(Len(d) - 1) : a = SubSeq(d, 1, n)
  BY DEF Ancestors
<1>2. d \in Seq(Name) /\ Len(d) \in Nat
  BY DEF Destination
<1>3. a \in Seq(Name) /\ Len(a) = n /\ a # <<>>
  BY <1>1, <1>2
<1>4. ASSUME NEW b \in Ancestors(a) PROVE b \in Ancestors(d)
  <2>1. PICK m \in 1..(Len(a) - 1) : b = SubSeq(a, 1, m)
    BY <1>4 DEF Ancestors
  <2>2. b = SubSeq(d, 1, m)
    BY <1>1, <1>2, <1>3, <2>1
  <2>3. m \in 1..(Len(d) - 1)
    BY <1>1, <1>2, <1>3, <2>1
  <2> QED BY <2>2, <2>3 DEF Ancestors
<1> QED BY <1>3, <1>4 DEF Destination

(* Two destinations put one after the other are one. *)
LEMMA Joined ==
    ASSUME NEW a \in Destination, NEW b \in Destination
    PROVE  a \o b \in Destination
BY DEF Destination

(* BuildPlan::new: entries it does not refuse become a tree of entries, and  *)
(* only directories are added to them.                                       *)
LEMMA PlannedIsTree ==
    ASSUME NEW files \in SUBSET Entry, ~Refused(files)
    PROVE  /\ Planned(files) \in SUBSET Entry
           /\ IsTree(Planned(files))
           /\ {e \in Planned(files) : e.kind # "directory"} = {e \in files : e.kind # "directory"}
<1>0. \A d : Directory(d).dest = d /\ Directory(d).kind = "directory"
  BY DEF Directory
<1>1. ASSUME NEW d \in Missing(files) PROVE d \in Destination /\ Directory(d) \in Entry
  <2>1. PICK e \in files : d \in Ancestors(e.dest)
    BY <1>1 DEF Missing
  <2>2. e.dest \in Destination
    BY DEF Entry
  <2>3. d \in Destination
    BY <2>1, <2>2, AncestorsNest
  <2> QED BY <2>3 DEF Directory, Entry, FromLink
<1>2. Planned(files) \in SUBSET Entry
  BY <1>1 DEF Planned
<1>3. ~Duplicates(Planned(files))
  <2>1. SUFFICES ASSUME NEW e \in Planned(files), NEW f \in Planned(files), e.dest = f.dest
                 PROVE  e = f
    BY DEF Duplicates
  <2>2. \A x \in Planned(files) : x \in files \/ (x.dest \in Missing(files) /\ x = Directory(x.dest))
    BY <1>0 DEF Planned
  <2>3. \A x \in files : x.dest \notin Missing(files)
    BY DEF Missing
  <2>4. CASE e \in files /\ f \in files
    BY <2>1, <2>4 DEF Refused, Duplicates
  <2>5. CASE e \notin files \/ f \notin files
    BY <2>1, <2>2, <2>3, <2>5
  <2> QED BY <2>4, <2>5
<1>4. ASSUME NEW e \in Planned(files), NEW a \in Ancestors(e.dest)
      PROVE  \E d \in Planned(files) : d.dest = a /\ d.kind = "directory"
  <2>1. PICK f \in files : a \in Ancestors(f.dest)
    <3>1. CASE e \in files
      BY <1>4, <3>1
    <3>2. CASE e \notin files
      <4>1. PICK c \in Missing(files) : e = Directory(c)
        BY <3>2 DEF Planned
      <4>2. PICK f \in files : c \in Ancestors(f.dest)
        BY <4>1 DEF Missing
      <4>3. f.dest \in Destination
        BY DEF Entry
      <4> QED BY <1>0, <1>4, <4>1, <4>2, <4>3, AncestorsNest
    <3> QED BY <3>1, <3>2
  <2>2. CASE \E d \in files : d.dest = a
    <3>1. PICK d \in files : d.dest = a
      BY <2>2
    <3>2. d.kind = "directory"
      BY <2>1, <3>1 DEF Refused, Blocked, Below
    <3> QED BY <3>1, <3>2 DEF Planned
  <2>3. CASE ~ \E d \in files : d.dest = a
    <3>1. a \in Missing(files)
      BY <2>1, <2>3 DEF Missing
    <3> QED BY <1>0, <3>1 DEF Planned
  <2> QED BY <2>2, <2>3
<1>5. {e \in Planned(files) : e.kind # "directory"} = {e \in files : e.kind # "directory"}
  BY <1>0 DEF Planned
<1> QED BY <1>2, <1>3, <1>4, <1>5 DEF IsTree

-----------------------------------------------------------------------------
(* What two sequences share is no longer than either. *)
LEMMA SharedBounded ==
    ASSUME NEW a \in Seq(Name), NEW b \in Seq(Name)
    PROVE  Shared(a, b) \in 0..Len(a) /\ Shared(a, b) <= Len(b)
<1> DEFINE common == {n \in 1..Len(a) : n <= Len(b) /\ SubSeq(a, 1, n) = SubSeq(b, 1, n)}
<1>1. /\ Len(a) \in Nat /\ Len(a) \in Int
      /\ Len(b) \in Nat /\ Len(b) \in Int /\ 1 \in Int
  OBVIOUS
<1>2. IsFiniteSet(1..Len(a)) /\ Cardinality(1..Len(a)) = Len(a)
  <2>1. IsFiniteSet(1..Len(a)) /\ Cardinality(1..Len(a)) = IF 1 > Len(a) THEN 0 ELSE Len(a) - 1 + 1
    BY <1>1, FS_Interval
  <2> QED BY <1>1, <2>1
<1>3. IsFiniteSet(1..Len(b)) /\ Cardinality(1..Len(b)) = Len(b)
  <2>1. IsFiniteSet(1..Len(b)) /\ Cardinality(1..Len(b)) = IF 1 > Len(b) THEN 0 ELSE Len(b) - 1 + 1
    BY <1>1, FS_Interval
  <2> QED BY <1>1, <2>1
<1>4. common \subseteq 1..Len(a) /\ common \subseteq 1..Len(b)
  BY <1>1
<1> HIDE DEF common
<1>5. IsFiniteSet(common) /\ Cardinality(common) <= Len(a) /\ Cardinality(common) <= Len(b)
  BY <1>2, <1>3, <1>4, FS_Subset
<1>6. Cardinality(common) \in Nat
  BY <1>5, FS_CardinalityType
<1> QED BY <1>1, <1>5, <1>6 DEF Shared, common

(* A planned link is an entry: its stored target is a path of names. *)
LEMMA LinkIsEntry ==
    ASSUME NEW d \in Destination, NEW t \in Destination
    PROVE  Link(d, t) \in Entry
<1> DEFINE shared == Shared(Parent(d), t)
           ups == Ups(Len(Parent(d)) - shared)
           rest == SubSeq(t, shared + 1, Len(t))
<1>1. Parent(d) \in Seq(Name) /\ t \in Seq(Name)
  BY DEF Parent, Destination
<1>2. shared \in 0..Len(Parent(d)) /\ shared <= Len(t)
  BY <1>1, SharedBounded
<1>3. Len(Parent(d)) - shared \in Nat
  BY <1>1, <1>2
<1>4. ups \in Seq(Name \cup {".."})
  BY <1>3 DEF Ups
<1>5. rest \in Seq(Name) /\ rest \in Seq(Name \cup {".."})
  BY <1>1, <1>2
<1>6. ups \o rest \in Seq(Name \cup {".."})
  BY <1>4, <1>5
<1> HIDE DEF ups, rest
<1>7. LinkTarget(d, t) \in [rooted : BOOLEAN, path : Seq(Name \cup {".."})]
  BY <1>1, <1>6 DEF LinkTarget, Rooted, FromLink, shared, ups, rest
<1> QED BY <1>7 DEF Link, Entry

(* A set of positive numbers that has all below each of its own is an        *)
(* interval, as long as it has numbers in it.                                *)
LEMMA ClosedIsInterval ==
    ASSUME NEW N \in Nat, NEW S \in SUBSET (1..N), \A n \in S : \A m \in 1..n : m \in S
    PROVE  \E k \in 0..N : S = 1..k /\ Cardinality(S) = k
<1> DEFINE T == {n \in Nat : n >= 1 /\ n \notin S}
<1>1. N + 1 \in T
  OBVIOUS
<1>2. PICK n \in T : \A m \in T : <<m, n>> \notin OpToRel(<, Nat)
  BY <1>1, WFMin, NatLessThanWellFounded
<1>3. \A m \in 1..(n - 1) : m \in S
  <2>1. SUFFICES ASSUME NEW m \in 1..(n - 1), m \notin S PROVE FALSE
    OBVIOUS
  <2>2. m \in T /\ m \in Nat /\ n \in Nat /\ m < n
    BY <2>1
  <2> QED BY <1>2, <2>2 DEF OpToRel
<1>4. n \in Nat /\ n >= 1 /\ n \notin S
  OBVIOUS
<1> HIDE DEF T
<1>5. S = 1..(n - 1)
  <2>1. ASSUME NEW m \in S PROVE m \in 1..(n - 1)
    <3>1. m \in 1..N /\ (n \in 1..m => n \in S)
      BY <2>1
    <3> QED BY <1>4, <3>1
  <2> QED BY <1>3, <2>1
<1>6. n - 1 \in 0..N
  <2>1. CASE n = 1
    BY <2>1
  <2>2. CASE n # 1
    BY <1>3, <1>4, <2>2
  <2> QED BY <2>1, <2>2
<1>7. Cardinality(1..(n - 1)) = n - 1
  BY <1>4, FS_Interval
<1> QED BY <1>5, <1>6, <1>7

(* What two sequences share begins both of them.                             *)
LEMMA SharedBeginsBoth ==
    ASSUME NEW a \in Seq(Name), NEW b \in Seq(Name)
    PROVE  SubSeq(a, 1, Shared(a, b)) = SubSeq(b, 1, Shared(a, b))
<1> DEFINE common == {n \in 1..Len(a) : n <= Len(b) /\ SubSeq(a, 1, n) = SubSeq(b, 1, n)}
<1>1. ASSUME NEW n \in common, NEW m \in 1..n PROVE m \in common
  <2>1. \A i \in 1..m : SubSeq(a, 1, n)[i] = a[i] /\ SubSeq(b, 1, n)[i] = b[i]
    BY <1>1
  <2>2. \A i \in 1..m : a[i] = b[i]
    BY <1>1, <2>1
  <2>3. SubSeq(a, 1, m) = SubSeq(b, 1, m)
    BY <1>1, <2>2
  <2> QED BY <1>1, <2>3
<1>2. Len(a) \in Nat /\ common \in SUBSET (1..Len(a))
  OBVIOUS
<1>3. PICK k \in 0..Len(a) : common = 1..k /\ Cardinality(common) = k
  <2> HIDE DEF common
  <2> QED BY <1>1, <1>2, ClosedIsInterval
<1>4. Shared(a, b) = k
  BY <1>3 DEF Shared
<1>5. CASE k = 0
  BY <1>4, <1>5
<1>6. CASE k # 0
  <2>1. k \in common
    BY <1>3, <1>6
  <2> QED BY <1>4, <2>1
<1> QED BY <1>5, <1>6

(* A sequence is its first names and the others.                             *)
LEMMA SplitInTwo ==
    ASSUME NEW t \in Seq(Name), NEW n \in 0..Len(t)
    PROVE  SubSeq(t, 1, n) \o SubSeq(t, n + 1, Len(t)) = t
<1> DEFINE a == SubSeq(t, 1, n)
           b == SubSeq(t, n + 1, Len(t))
<1>1. a \in Seq(Name) /\ Len(a) = n /\ \A i \in 1..n : a[i] = t[i]
  OBVIOUS
<1>2. b \in Seq(Name) /\ Len(b) = Len(t) - n /\ \A i \in 1..(Len(t) - n) : b[i] = t[n + i]
  OBVIOUS
<1> HIDE DEF a, b
<1>3. a \o b \in Seq(Name) /\ Len(a \o b) = Len(t)
  BY <1>1, <1>2
<1>4. ASSUME NEW i \in 1..Len(t) PROVE (a \o b)[i] = t[i]
  <2>0. n \in Nat /\ i \in Nat /\ Len(t) \in Nat
    OBVIOUS
  <2>1. CASE i <= n
    BY <1>1, <1>2, <2>1
  <2>2. CASE i > n
    <3>1. PICK j \in 1..(Len(t) - n) : i = n + j
      <4>1. i - n \in 1..(Len(t) - n) /\ i = n + (i - n)
        BY <2>0, <2>2
      <4> QED BY <4>1
    <3>2. (a \o b)[n + j] = b[j]
      BY <1>1, <1>2
    <3>3. b[j] = t[n + j]
      BY <1>2
    <3> QED BY <3>1, <3>2, <3>3
  <2>3. i <= n \/ i > n
    BY <2>0
  <2> QED BY <2>1, <2>2, <2>3
<1>5. a \o b = t
  BY <1>3, <1>4, SeqEqual
<1> QED BY <1>5 DEF a, b

(* Where a relative link leads, once its ".." are counted.                   *)
LEMMA ReachedFrom ==
    ASSUME NEW link, NEW path, link.target.path = path, link.target.rooted = FALSE,
           NEW from, Parent(link.dest) = from,
           NEW k, Cardinality({i \in DOMAIN path : path[i] = ".."}) = k
    PROVE  Reached(link) = SubSeq(from, 1, Len(from) - k) \o SubSeq(path, k + 1, Len(path))
BY DEF Reached

(* A planned link leads to its target, however far apart the two are.        *)
LEMMA LinkReaches ==
    ASSUME NEW d \in Destination, NEW t \in Destination
    PROVE  Reached(Link(d, t)) = t
<1> DEFINE from == Parent(d)
           shared == Shared(from, t)
           k == Len(from) - shared
           rest == SubSeq(t, shared + 1, Len(t))
           path == Ups(k) \o rest
<1>1. from \in Seq(Name) /\ t \in Seq(Name) /\ d \in Seq(Name)
  BY DEF Parent, Destination
<1>2. Link(d, t).dest = d /\ Link(d, t).target = LinkTarget(d, t)
  BY DEF Link
<1>3. CASE Head(d) # Head(t)
  BY <1>2, <1>3 DEF Reached, LinkTarget, Rooted
<1>4. CASE Head(d) = Head(t)
  <2>1. shared \in 0..Len(from) /\ shared <= Len(t)
    BY <1>1, SharedBounded
  <2>2. SubSeq(from, 1, shared) = SubSeq(t, 1, shared)
    BY <1>1, SharedBeginsBoth
  <2>3. Link(d, t).target = FromLink(path)
    BY <1>2, <1>4 DEF LinkTarget
  <2> HIDE DEF from, shared
  <2>4. k \in Nat /\ Len(from) - k = shared
    BY <1>1, <2>1
  <2>5. Ups(k) \in Seq({".."}) /\ Len(Ups(k)) = k
    BY <2>4 DEF Ups
  <2>6. rest \in Seq(Name)
    BY <1>1, <2>1
  <2>7. {i \in DOMAIN path : path[i] = ".."} = 1..k /\ SubSeq(path, k + 1, Len(path)) = rest
    <3> DEFINE u == Ups(k)
    <3> HIDE DEF u, rest, k
    <3>1. path = u \o rest /\ u \in Seq({".."}) /\ Len(u) = k /\ k \in Nat
      BY <2>4, <2>5 DEF u
    <3>2. ASSUME NEW i \in 1..k PROVE i \in DOMAIN path /\ path[i] = ".."
      BY <2>6, <3>1
    <3>3. ASSUME NEW i \in DOMAIN path, i \notin 1..k PROVE path[i] # ".."
      <4>1. i - k \in 1..Len(rest) /\ path[i] = rest[i - k]
        BY <2>6, <3>1, <3>3
      <4> QED BY <2>6, <4>1, NameAssumption
    <3>4. SubSeq(path, k + 1, Len(path)) = rest
      BY <2>6, <3>1
    <3> HIDE DEF path
    <3> QED BY <3>2, <3>3, <3>4
  <2>8. Cardinality(1..k) = k
    BY <2>4, FS_Interval
  <2>9. Reached(Link(d, t)) = SubSeq(from, 1, shared) \o rest
    <3>1. from = Parent(d)
      BY DEF from
    <3>2. Cardinality({i \in DOMAIN path : path[i] = ".."}) = k
      BY <2>7, <2>8
    <3> HIDE DEF path, rest, k
    <3>3. FromLink(path).rooted = FALSE /\ FromLink(path).path = path
      BY DEF FromLink
    <3>4. Reached(Link(d, t)) = SubSeq(from, 1, Len(from) - k) \o SubSeq(path, k + 1, Len(path))
      BY <1>2, <2>3, <3>1, <3>2, <3>3, ReachedFrom
    <3> QED BY <2>4, <2>7, <3>4
  <2>10. SubSeq(t, 1, shared) \o rest = t
    <3>1. shared \in 0..Len(t)
      BY <1>1, <2>1
    <3> QED BY <1>1, <3>1, SplitInTwo
  <2> QED BY <2>2, <2>9, <2>10
<1> QED BY <1>3, <1>4

(* A regular file with any of the contents is an entry, marked or not, and   *)
(* the mark is there exactly below /etc.                                     *)
LEMMA MarkedIsEntry ==
    ASSUME NEW d \in Destination, NEW x \in BOOLEAN,
           NEW c \in {"application", "extra", "generated", "documentation", "preset"}
    PROVE  /\ Regular(d, c, x) \in Entry
           /\ AsConfig(Regular(d, c, x)) = [Regular(d, c, x) EXCEPT !.config = InEtc(d)]
           /\ AsConfig(Regular(d, c, x)) \in Entry
<1>1. InEtc(d) \in BOOLEAN
  BY DEF InEtc, Below
<1>2. FromLink(<<>>) \in [rooted : BOOLEAN, path : Seq(Name \cup {".."})]
  BY DEF FromLink
<1>3. Regular(d, c, x) \in Entry /\ Regular(d, c, x).dest = d
  BY <1>2 DEF Regular, Entry
<1> QED BY <1>1, <1>3 DEF AsConfig, Entry

(* The destinations a project's settings name. *)
LEMMA ProjectPaths ==
    ASSUME NEW p \in Projects
    PROVE  /\ AppRoot(p) \in Destination /\ Wrapper(p) \in Destination
           /\ BinLink(p) \in Destination
           /\ \A t \in ServiceFiles(p.init) : Placement(t, p) \in Destination
<1>1. p.name \in Name /\ p.exec \in Name /\ p.dir \in Destination
  BY ProjectAssumption
<1> USE NameAssumption
<1>2. AppRoot(p) \in Destination
  BY <1>1 DEF AppRoot, Destination
<1>3. Wrapper(p) \in Destination
  BY <1>1 DEF Wrapper, Destination
<1>4. BinLink(p) \in Destination
  BY <1>1 DEF BinLink, Destination
<1>5. ASSUME NEW t \in ServiceFiles(p.init) PROVE Placement(t, p) \in Destination
  <2>1. t \in {"executable", "default", "systemd.service", "tmpfiles.conf", "sysv-init",
               "upstart.conf"}
    BY DEF ServiceFiles
  <2>2. /\ <<"etc", "default", p.name>> \in Destination
        /\ <<"usr", "lib", "systemd", "system", p.name>> \in Destination
        /\ <<"usr", "lib", "tmpfiles.d", p.name>> \in Destination
        /\ <<"etc", "init.d", p.name>> \in Destination
        /\ <<"etc", "init", p.name>> \in Destination
    BY <1>1 DEF Destination
  <2> QED BY <1>3, <2>1, <2>2 DEF Placement
<1> QED BY <1>2, <1>3, <1>4, <1>5

-----------------------------------------------------------------------------
(* Everything put into a plan is an entry. *)
LEMMA CollectedAreEntries == ASSUME NEW p \in Projects PROVE Collected(p) \in SUBSET Entry
<1>1. /\ p.files \in SUBSET Destination /\ p.extra \in SUBSET Destination
      /\ p.links \in SUBSET (Destination \X Destination)
  BY ProjectAssumption
<1>2. ASSUME NEW f \in p.files
      PROVE  AsConfig(Regular(AppRoot(p) \o f, "application", FALSE)) \in Entry
  <2>1. AppRoot(p) \o f \in Destination
    BY <1>1, ProjectPaths, Joined
  <2> QED BY <2>1, MarkedIsEntry
<1>3. ASSUME NEW l \in p.links PROVE Link(AppRoot(p) \o l[1], AppRoot(p) \o l[2]) \in Entry
  <2>1. l[1] \in Destination /\ l[2] \in Destination
    BY <1>1
  <2>2. AppRoot(p) \o l[1] \in Destination /\ AppRoot(p) \o l[2] \in Destination
    BY <2>1, ProjectPaths, Joined
  <2> QED BY <2>2, LinkIsEntry
<1>4. ASSUME NEW d \in p.extra PROVE AsConfig(Regular(d, "extra", FALSE)) \in Entry
  BY <1>1, MarkedIsEntry
<1>5. Link(BinLink(p), Wrapper(p)) \in Entry
  BY ProjectPaths, LinkIsEntry
<1> QED BY <1>2, <1>3, <1>4, <1>5 DEF Collected

(* So is every generated file. *)
LEMMA GeneratedAreEntries == ASSUME NEW p \in Projects PROVE Generated(p) \in SUBSET Entry
<1>1. ASSUME NEW t \in ServiceFiles(p.init)
      PROVE  AsConfig(Regular(Placement(t, p), "generated", t \in {"executable", "sysv-init"}))
                 \in Entry
  <2>1. Placement(t, p) \in Destination
    BY ProjectPaths
  <2>2. (t \in {"executable", "sysv-init"}) \in BOOLEAN
    OBVIOUS
  <2> QED BY <2>1, <2>2, MarkedIsEntry
<1> QED BY <1>1 DEF Generated

(* The content that only a format itself adds. *)
Own(f) == IF f = "deb" THEN "documentation" ELSE "preset"

(* And so is every addition of a format: an unmarked regular file below /usr,*)
(* of a content nothing else has.                                            *)
LEMMA AdditionsAreEntries ==
    ASSUME NEW p \in Projects, NEW f \in Format
    PROVE  /\ Additions(f, p) \in SUBSET Entry
           /\ \A e \in Additions(f, p) :
                  ~e.config /\ e.kind = "regular" /\ e.content = Own(f) /\ Head(e.dest) = "usr"
<1>1. p.name \in Name
  BY ProjectAssumption
<1>2. ASSUME NEW n \in {"copyright", "changelog.gz"}
      PROVE  /\ <<"usr", "share", "doc", p.name, n>> \in Destination
             /\ Head(<<"usr", "share", "doc", p.name, n>>) = "usr"
  BY <1>1, NameAssumption DEF Destination
<1>3. /\ <<"usr", "lib", "systemd", "system-preset", p.name>> \in Destination
      /\ Head(<<"usr", "lib", "systemd", "system-preset", p.name>>) = "usr"
  BY <1>1, NameAssumption DEF Destination
<1>4. ASSUME NEW d \in Destination, NEW c \in {"documentation", "preset"}, Head(d) = "usr"
      PROVE  LET e == Regular(d, c, FALSE)
             IN  /\ e \in Entry /\ ~e.config /\ e.kind = "regular" /\ e.content = c
                 /\ Head(e.dest) = "usr"
  <2>1. Regular(d, c, FALSE) \in Entry
    BY MarkedIsEntry
  <2> QED BY <1>4, <2>1 DEF Regular
<1>5. ASSUME NEW e \in Documentation(p)
      PROVE  /\ e \in Entry /\ ~e.config /\ e.kind = "regular" /\ e.content = "documentation"
             /\ Head(e.dest) = "usr"
  <2>1. PICK n \in {"copyright", "changelog.gz"} :
            e = Regular(<<"usr", "share", "doc", p.name, n>>, "documentation", FALSE)
    BY <1>5 DEF Documentation
  <2> QED BY <1>2, <1>4, <2>1
<1>6. ASSUME NEW e \in Preset(p)
      PROVE  /\ e \in Entry /\ ~e.config /\ e.kind = "regular" /\ e.content = "preset"
             /\ Head(e.dest) = "usr"
  BY <1>3, <1>4, <1>6 DEF Preset
<1> QED BY <1>5, <1>6 DEF Additions, Own, Format

-----------------------------------------------------------------------------
(* The mark of a configuration file, on a set of entries. *)
Marked(files) == \A e \in files : e.config <=> e.kind = "regular" /\ InEtc(e.dest)

(* What starts with /usr is not below /etc. *)
LEMMA UsrIsNotEtc == ASSUME NEW d \in Destination, Head(d) = "usr" PROVE ~InEtc(d)
<1>1. SUFFICES ASSUME NEW n \in 1..(Len(d) - 1), <<"etc">> = SubSeq(d, 1, n) PROVE FALSE
  BY DEF InEtc, Below, Ancestors
<1>2. SubSeq(d, 1, n)[1] = d[1] /\ <<"etc">>[1] = "etc" /\ d[1] = "usr"
  BY DEF Destination
<1> QED BY <1>1, <1>2

(* Everything put into a plan has the right mark. *)
LEMMA EntriesAreMarked ==
    ASSUME NEW p \in Projects
    PROVE  /\ Marked(Collected(p)) /\ Marked(Generated(p))
           /\ \A f \in Format : Marked(Additions(f, p))
<1>1. \A d, c, x : LET e == AsConfig(Regular(d, c, x))
                   IN  e.config = InEtc(d) /\ e.kind = "regular" /\ e.dest = d
  BY DEF AsConfig, Regular
<1>2. \A d, t : ~Link(d, t).config /\ Link(d, t).kind = "link"
  BY DEF Link
<1>3. Marked(Collected(p))
  <2>1. SUFFICES ASSUME NEW e \in Collected(p)
                 PROVE  e.config <=> e.kind = "regular" /\ InEtc(e.dest)
    BY DEF Marked
  <2>2. \/ \E d, c : e = AsConfig(Regular(d, c, FALSE))
        \/ \E d, t : e = Link(d, t)
    BY DEF Collected
  <2>3. CASE \E d, c : e = AsConfig(Regular(d, c, FALSE))
    <3>1. PICK d, c : e = AsConfig(Regular(d, c, FALSE))
      BY <2>3
    <3>2. e.config = InEtc(d) /\ e.kind = "regular" /\ e.dest = d
      BY <1>1, <3>1
    <3>3. InEtc(d) \in BOOLEAN
      BY DEF InEtc, Below
    <3> QED BY <3>2, <3>3
  <2>4. CASE \E d, t : e = Link(d, t)
    <3>1. ~e.config /\ e.kind = "link"
      BY <1>2, <2>4
    <3> QED BY <3>1
  <2> QED BY <2>2, <2>3, <2>4
<1>4. Marked(Generated(p))
  BY <1>1 DEF Marked, Generated
<1>5. ASSUME NEW f \in Format PROVE Marked(Additions(f, p))
  <2>1. \A e \in Additions(f, p) : e.dest \in Destination /\ ~e.config /\ Head(e.dest) = "usr"
    BY AdditionsAreEntries DEF Entry
  <2> QED BY <2>1, UsrIsNotEtc DEF Marked
<1> QED BY <1>3, <1>4, <1>5

(* Directories are added without a mark. *)
LEMMA PlannedIsMarked == ASSUME NEW files, Marked(files) PROVE Marked(Planned(files))
<1>1. \A d : ~Directory(d).config /\ Directory(d).kind = "directory"
  BY DEF Directory
<1> QED BY <1>1 DEF Marked, Planned

-----------------------------------------------------------------------------
(* What each format would carry if it were built alone, plan by plan. *)
Base(p)     == Planned(Collected(p))
Whole(p)    == Planned(Base(p) \cup Generated(p))
Final(f, p) == Planned(Whole(p) \cup Additions(f, p))

Accepted(p) == ~Refused(Collected(p))
Derivable(p) == Accepted(p) /\ ~Refused(Base(p) \cup Generated(p))
Buildable(f, p) == Derivable(p) /\ ~Refused(Whole(p) \cup Additions(f, p))

(* A run does just that, whatever it built or refused before: the shared     *)
(* plan is never touched, and a package is there in whole or not at all.     *)
Alone ==
    /\ base = {} \/ (base = Base(project) /\ Accepted(project))
    /\ stage \in {"generate", "backend"} => base = Base(project) /\ Accepted(project)
    /\ derived = {} \/ (derived = Whole(project) /\ Derivable(project))
    /\ stage = "backend" => derived = Whole(project) /\ Derivable(project)
    /\ \A f \in Format :
          IF verdict[f] = "built"
          THEN package[f] = Carried(f, project, Final(f, project)) /\ Buildable(f, project)
          ELSE package[f] = {}

IInv == TypeOK /\ Alone

(* Accepted entries become trees of rightly marked entries, at each step.    *)
LEMMA BaseIsSound ==
    ASSUME NEW p \in Projects, Accepted(p)
    PROVE  Base(p) \in SUBSET Entry /\ IsTree(Base(p)) /\ Marked(Base(p))
BY CollectedAreEntries, EntriesAreMarked, PlannedIsTree, PlannedIsMarked DEF Accepted, Base

(* The same of what is generated for one format on top of it. *)
LEMMA WholeIsSound ==
    ASSUME NEW p \in Projects, Derivable(p)
    PROVE  Whole(p) \in SUBSET Entry /\ IsTree(Whole(p)) /\ Marked(Whole(p))
<1>1. Base(p) \cup Generated(p) \in SUBSET Entry
  BY BaseIsSound, GeneratedAreEntries DEF Derivable
<1>2. Marked(Base(p) \cup Generated(p))
  BY BaseIsSound, EntriesAreMarked DEF Derivable, Marked
<1> QED BY <1>1, <1>2, PlannedIsTree, PlannedIsMarked DEF Derivable, Whole

(* And of a format's own additions, the last to go in. *)
LEMMA FinalIsSound ==
    ASSUME NEW p \in Projects, NEW f \in Format, Buildable(f, p)
    PROVE  Final(f, p) \in SUBSET Entry /\ IsTree(Final(f, p)) /\ Marked(Final(f, p))
<1>1. Whole(p) \cup Additions(f, p) \in SUBSET Entry
  BY WholeIsSound, AdditionsAreEntries DEF Buildable
<1>2. Marked(Whole(p) \cup Additions(f, p))
  BY WholeIsSound, EntriesAreMarked DEF Buildable, Marked
<1> QED BY <1>1, <1>2, PlannedIsTree, PlannedIsMarked DEF Buildable, Final

(* A format is done with: the invariant holds again before the next one.     *)
LEMMA SettleKeepsInvariant ==
    ASSUME IInv, stage \in {"generate", "backend"}, UNCHANGED base,
           NEW result \in {"built", "refused"}, NEW carried,
           Settle(result, carried),
           IF result = "built"
           THEN /\ carried = Carried(Head(queue), project, Final(Head(queue), project))
                /\ Buildable(Head(queue), project)
           ELSE carried = {}
    PROVE  IInv'
<1> DEFINE h == Head(queue)
<1>1. h \in Format /\ queue # <<>> /\ Tail(queue) \in Seq(Format)
  BY DEF IInv, TypeOK
<1>2. carried \in SUBSET Entry
  <2>1. CASE result = "built"
    BY <1>1, <2>1, FinalIsSound DEF IInv, TypeOK, Carried
  <2>2. CASE result = "refused"
    BY <2>2
  <2> QED BY <2>1, <2>2
<1>3. /\ project' = project /\ base' = base /\ derived' = {} /\ queue' = Tail(queue)
      /\ stage' = IF Tail(queue) = <<>> THEN "done" ELSE "generate"
      /\ verdict' = [verdict EXCEPT ![h] = result]
      /\ package' = [package EXCEPT ![h] = carried]
  BY DEF Settle
<1> HIDE DEF h
<1>4. TypeOK'
  BY <1>1, <1>2, <1>3 DEF IInv, TypeOK
<1>5. ASSUME NEW f \in Format
      PROVE  IF verdict'[f] = "built"
             THEN package'[f] = Carried(f, project, Final(f, project)) /\ Buildable(f, project)
             ELSE package'[f] = {}
  <2>1. CASE f = h
    BY <1>1, <1>3, <2>1 DEF IInv, TypeOK, h
  <2>2. CASE f # h
    <3>1. verdict'[f] = verdict[f] /\ package'[f] = package[f]
      BY <1>3, <2>2 DEF IInv, TypeOK
    <3> QED BY <3>1 DEF IInv, Alone
  <2> QED BY <2>1, <2>2
<1>6. Alone'
  BY <1>3, <1>5 DEF IInv, Alone
<1> QED BY <1>4, <1>6 DEF IInv

(* Nothing is planned at first. *)
LEMMA InvariantStarts == Init => IInv
<1> SUFFICES ASSUME Init PROVE IInv
  OBVIOUS
<1>1. queue \in Seq(Format) /\ queue # <<>>
  <2>1. PICK n \in 1..3 : queue \in [1..n -> Format]
    BY DEF Init, Orders
  <2>2. queue \in Seq(Format)
    BY <2>1
  <2>3. queue # <<>>
    BY <2>1
  <2> QED BY <2>2, <2>3
<1>2. TypeOK
  BY <1>1 DEF Init, TypeOK
<1>3. Alone
  BY DEF Init, Alone
<1> QED BY <1>2, <1>3 DEF IInv

(* One step per action; a format that is refused or built leaves the shared  *)
(* plan as it was.                                                           *)
LEMMA InvariantStep == IInv /\ [Next]_vars => IInv'
<1> SUFFICES ASSUME IInv, [Next]_vars PROVE IInv'
  OBVIOUS
<1>1. CASE PlanProject
  <2>1. project \in Projects /\ Base(project) = Planned(Collected(project))
    BY DEF IInv, TypeOK, Base
  <2>2. CASE Refused(Collected(project))
    <3>1. TypeOK'
      BY <1>1, <2>2 DEF PlanProject, IInv, TypeOK
    <3>2. Alone'
      BY <1>1, <2>2 DEF PlanProject, IInv, Alone
    <3> QED BY <3>1, <3>2 DEF IInv
  <2>3. CASE ~Refused(Collected(project))
    <3>1. base' = Base(project) /\ Accepted(project) /\ stage' = "generate"
      BY <1>1, <2>1, <2>3 DEF PlanProject, Accepted
    <3>2. TypeOK'
      BY <1>1, <2>1, <3>1, BaseIsSound DEF PlanProject, IInv, TypeOK
    <3>3. Alone'
      BY <1>1, <3>1 DEF PlanProject, IInv, Alone
    <3> QED BY <3>2, <3>3 DEF IInv
  <2> QED BY <2>2, <2>3
<1>2. CASE Generate
  <2>1. stage = "generate" /\ base' = base /\ base = Base(project) /\ Accepted(project)
    BY <1>2 DEF Generate, IInv, Alone
  <2>2. CASE Refused(base \cup Generated(project))
    <3>1. Settle("refused", {})
      BY <1>2, <2>2 DEF Generate
    <3> QED BY <2>1, <3>1, SettleKeepsInvariant
  <2>3. CASE ~Refused(base \cup Generated(project))
    <3>1. /\ derived' = Whole(project) /\ Derivable(project) /\ stage' = "backend"
          /\ UNCHANGED <<project, queue, package, verdict>>
      BY <1>2, <2>1, <2>3 DEF Generate, Whole, Derivable
    <3>2. TypeOK'
      BY <2>1, <3>1, WholeIsSound DEF IInv, TypeOK
    <3>3. Alone'
      BY <2>1, <3>1 DEF IInv, Alone
    <3> QED BY <3>2, <3>3 DEF IInv
  <2> QED BY <2>2, <2>3
<1>3. CASE Finish
  <2>1. stage = "backend" /\ base' = base /\ derived = Whole(project) /\ Derivable(project)
    BY <1>3 DEF Finish, IInv, Alone
  <2>2. CASE Refused(derived \cup Additions(Head(queue), project))
    <3>1. Settle("refused", {})
      BY <1>3, <2>2 DEF Finish
    <3> QED BY <2>1, <3>1, SettleKeepsInvariant
  <2>3. CASE ~Refused(derived \cup Additions(Head(queue), project))
    <3>1. Settle("built", Carried(Head(queue), project, Final(Head(queue), project)))
      BY <1>3, <2>1, <2>3 DEF Finish, Final
    <3>2. Buildable(Head(queue), project)
      BY <2>1, <2>3 DEF Buildable
    <3> QED BY <2>1, <3>1, <3>2, SettleKeepsInvariant
  <2> QED BY <2>2, <2>3
<1>4. CASE UNCHANGED vars
  BY <1>4 DEF vars, IInv, TypeOK, Alone
<1> QED BY <1>1, <1>2, <1>3, <1>4 DEF Next

(* So every reachable state satisfies the invariant. *)
LEMMA InvariantHolds == Spec => []IInv
BY InvariantStarts, InvariantStep, PTL DEF Spec

-----------------------------------------------------------------------------
(* A package that was built carries, besides directories and the additions   *)
(* of its format, what was collected and generated.                          *)
Ordinary(files) == {e \in files : e.kind # "directory"}

Common(p) == Ordinary(Collected(p) \cup Generated(p))

(* None of the common files is taken for some format's addition. *)
LEMMA CommonIsNobodysOwn ==
    ASSUME NEW p \in Projects, NEW e \in Common(p), NEW f \in Format
    PROVE  e.content # Own(f)
<1>1. \A d, c, x : AsConfig(Regular(d, c, x)).content = c
  BY DEF AsConfig, Regular
<1>2. \A d, t : Link(d, t).content = "none"
  BY DEF Link
<1>3. \/ \E d, x : e = AsConfig(Regular(d, "application", x))
      \/ \E d, x : e = AsConfig(Regular(d, "extra", x))
      \/ \E d, x : e = AsConfig(Regular(d, "generated", x))
      \/ \E d, t : e = Link(d, t)
  BY DEF Common, Ordinary, Collected, Generated
<1>4. e.content \in {"application", "extra", "generated", "none"}
  BY <1>1, <1>2, <1>3
<1> QED BY <1>4 DEF Own

(* A format's plan is the common files and its additions, in three stages. *)
LEMMA FinalIsCommon ==
    ASSUME NEW p \in Projects, NEW f \in Format, Buildable(f, p)
    PROVE  Ordinary(Final(f, p)) = Common(p) \cup Additions(f, p)
<1>1. Derivable(p) /\ Accepted(p)
  BY DEF Buildable, Derivable
<1>2. Ordinary(Base(p)) = Ordinary(Collected(p))
  BY <1>1, CollectedAreEntries, PlannedIsTree DEF Accepted, Base, Ordinary
<1>3. Ordinary(Whole(p)) = Ordinary(Base(p) \cup Generated(p))
  <2>1. Base(p) \cup Generated(p) \in SUBSET Entry
    BY <1>1, BaseIsSound, GeneratedAreEntries
  <2> QED BY <1>1, <2>1, PlannedIsTree DEF Derivable, Whole, Ordinary
<1>4. Ordinary(Final(f, p)) = Ordinary(Whole(p) \cup Additions(f, p))
  <2>1. Whole(p) \cup Additions(f, p) \in SUBSET Entry
    BY <1>1, WholeIsSound, AdditionsAreEntries
  <2> QED BY <2>1, PlannedIsTree DEF Buildable, Final, Ordinary
<1>5. \A e \in Additions(f, p) : e.kind = "regular"
  BY AdditionsAreEntries
<1>6. Ordinary(Whole(p) \cup Additions(f, p)) = Ordinary(Whole(p)) \cup Additions(f, p)
  BY <1>5 DEF Ordinary
<1>7. Ordinary(Base(p) \cup Generated(p)) = Common(p)
  BY <1>2 DEF Ordinary, Common
<1> QED BY <1>3, <1>4, <1>6, <1>7

(* What is left without the additions is the common files, in every package. *)
LEMMA PortableIsCommon == IInv => \A f \in Built : Portable(f) = Common(project)
<1> SUFFICES ASSUME IInv, NEW f \in Built PROVE Portable(f) = Common(project)
  OBVIOUS
<1>1. project \in Projects /\ f \in Format /\ Buildable(f, project)
  BY DEF IInv, TypeOK, Alone, Built
<1>2. package[f] = Carried(f, project, Final(f, project))
  BY DEF IInv, Alone, Built
<1>3. Ordinary(package[f]) = Ordinary(Final(f, project))
  BY <1>2 DEF Carried, Ordinary
<1>4. Ordinary(package[f]) = Common(project) \cup Additions(f, project)
  BY <1>1, <1>3, FinalIsCommon
<1>5. \A e \in Additions(f, project) : e.content = Own(f)
  BY <1>1, AdditionsAreEntries
<1>6. \A e \in Common(project) : e.content # Own(f)
  BY <1>1, CommonIsNobodysOwn
<1>7. Portable(f) = {e \in Ordinary(package[f]) : e.content # Own(f)}
  BY DEF Portable, Ordinary, Own
<1> QED BY <1>4, <1>5, <1>6, <1>7

-----------------------------------------------------------------------------
(* A package has everything that was collected or generated, but for         *)
(* directories another package owns.                                         *)
LEMMA CommonIsCarried ==
    ASSUME IInv, NEW f \in Built
    PROVE  /\ project \in Projects /\ f \in Format /\ Buildable(f, project)
           /\ package[f] = Carried(f, project, Final(f, project))
           /\ Common(project) \subseteq package[f]
           /\ {e \in package[f] : e.kind = "link"} \subseteq Common(project)
<1>1. project \in Projects /\ f \in Format /\ Buildable(f, project)
      /\ package[f] = Carried(f, project, Final(f, project))
  BY DEF IInv, TypeOK, Alone, Built
<1>2. Ordinary(package[f]) = Ordinary(Final(f, project))
  BY <1>1 DEF Carried, Ordinary
<1>3. Ordinary(package[f]) = Common(project) \cup Additions(f, project)
  BY <1>1, <1>2, FinalIsCommon
<1>4. \A e \in Additions(f, project) : e.kind = "regular"
  BY <1>1, AdditionsAreEntries
<1> QED BY <1>1, <1>3, <1>4 DEF Ordinary

(* Every package has the wrapper.                                            *)
LEMMA WrapperIsCommon ==
    ASSUME NEW p \in Projects
    PROVE  \E t \in Common(p) : t.dest = Wrapper(p) /\ t.content = "generated" /\ t.executable
<1> DEFINE t == AsConfig(Regular(Wrapper(p), "generated", TRUE))
<1>1. t.dest = Wrapper(p) /\ t.content = "generated" /\ t.executable /\ t.kind = "regular"
  BY DEF AsConfig, Regular
<1>2. "executable" \in ServiceFiles(p.init) /\ Placement("executable", p) = Wrapper(p)
  BY DEF ServiceFiles, Placement
<1>3. t \in Generated(p)
  BY <1>2 DEF Generated
<1> QED BY <1>1, <1>3 DEF Common, Ordinary

(* A link of a project leads to something it collects, as those do whose     *)
(* target is in a walk.                                                      *)
Leads(p) ==
    \A l \in p.links : \E f \in p.files \cup {k[1] : k \in p.links} : f = l[2] \/ Below(l[2], f)

(* What is below a path stays below it in the application.                   *)
LEMMA BelowInApp ==
    ASSUME NEW r \in Destination, NEW a \in Destination, NEW b \in Destination, Below(a, b)
    PROVE  Below(r \o a, r \o b)
<1>1. PICK n \in 1..(Len(b) - 1) : a = SubSeq(b, 1, n)
  BY DEF Below, Ancestors
<1>2. r \in Seq(Name) /\ b \in Seq(Name) /\ r # <<>>
  BY DEF Destination
<1>3. r \o a = SubSeq(r \o b, 1, Len(r) + n)
  <2> DEFINE s == SubSeq(r \o b, 1, Len(r) + n)
  <2>1. Len(r) \in Nat /\ n \in Nat /\ Len(b) \in Nat /\ Len(r \o b) = Len(r) + Len(b)
    BY <1>2
  <2>2. a \in Seq(Name) /\ Len(a) = n /\ \A i \in 1..n : a[i] = b[i]
    BY <1>1, <1>2
  <2>3. s \in Seq(Name) /\ Len(s) = Len(r) + n
        /\ \A i \in 1..(Len(r) + n) : s[i] = (r \o b)[i]
    BY <1>1, <1>2, <2>1
  <2>4. r \o a \in Seq(Name) /\ Len(r \o a) = Len(r) + n
    BY <1>2, <2>2
  <2>5. ASSUME NEW i \in 1..(Len(r) + n) PROVE (r \o a)[i] = (r \o b)[i]
    <3>1. CASE i <= Len(r)
      BY <1>2, <2>2, <3>1
    <3>2. CASE i > Len(r)
      <4>1. PICK j \in 1..n : i = Len(r) + j
        <5>1. i - Len(r) \in 1..n /\ i = Len(r) + (i - Len(r))
          BY <2>1, <3>2
        <5> QED BY <5>1
      <4>2. (r \o a)[Len(r) + j] = a[j] /\ (r \o b)[Len(r) + j] = b[j]
        BY <1>1, <1>2, <2>2
      <4> QED BY <2>2, <4>1, <4>2
    <3>3. i <= Len(r) \/ i > Len(r)
      BY <2>1
    <3> QED BY <3>1, <3>2, <3>3
  <2> HIDE DEF s
  <2>6. r \o a = s
    BY <2>3, <2>4, <2>5, SeqEqual
  <2> QED BY <2>6 DEF s
<1>4. Len(r) + n \in 1..(Len(r \o b) - 1)
  BY <1>1, <1>2
<1> QED BY <1>3, <1>4 DEF Below, Ancestors

(* A link collected in a project leads to something that is common too.      *)
LEMMA CollectedLinksLead ==
    ASSUME NEW p \in Projects, Leads(p), NEW l \in p.links
    PROVE  \E t \in Common(p) : \/ AppRoot(p) \o l[2] = t.dest
                                \/ Below(AppRoot(p) \o l[2], t.dest)
<1>1. p.files \in SUBSET Destination /\ p.links \in SUBSET (Destination \X Destination)
      /\ AppRoot(p) \in Destination
  BY ProjectAssumption, ProjectPaths
<1>2. PICK f \in p.files \cup {k[1] : k \in p.links} : f = l[2] \/ Below(l[2], f)
  BY DEF Leads
<1>3. f \in Destination /\ l[2] \in Destination
  BY <1>1
<1>4. PICK t \in Common(p) : t.dest = AppRoot(p) \o f
  <2>1. CASE f \in p.files
    <3> DEFINE t == AsConfig(Regular(AppRoot(p) \o f, "application", FALSE))
    <3>1. t.dest = AppRoot(p) \o f /\ t.kind = "regular"
      BY DEF AsConfig, Regular
    <3>2. t \in Collected(p)
      BY <2>1 DEF Collected
    <3> QED BY <3>1, <3>2 DEF Common, Ordinary
  <2>2. CASE f \in {k[1] : k \in p.links}
    <3>1. PICK k \in p.links : f = k[1]
      BY <2>2
    <3> DEFINE t == Link(AppRoot(p) \o k[1], AppRoot(p) \o k[2])
    <3>2. t.dest = AppRoot(p) \o f /\ t.kind = "link"
      BY <3>1 DEF Link
    <3>3. t \in Collected(p)
      BY DEF Collected
    <3> QED BY <3>2, <3>3 DEF Common, Ordinary
  <2> QED BY <2>1, <2>2
<1> QED BY <1>1, <1>2, <1>3, <1>4, BelowInApp

(* Collected and generated files are of the kinds that collection and        *)
(* generation know: two kinds of links.                                      *)
LEMMA CommonLinks ==
    ASSUME NEW p \in Projects, NEW e \in Common(p), e.kind = "link"
    PROVE  \/ e = Link(BinLink(p), Wrapper(p))
           \/ \E l \in p.links : e = Link(AppRoot(p) \o l[1], AppRoot(p) \o l[2])
<1>1. \A d, c, x : AsConfig(Regular(d, c, x)).kind = "regular"
  BY DEF AsConfig, Regular
<1> QED BY <1>1 DEF Common, Ordinary, Collected, Generated

(* The only directories of a plan are those BuildPlan::new adds.             *)
LEMMA DirectoriesAreAdded ==
    ASSUME NEW p \in Projects, NEW f \in Format, NEW d \in Final(f, p), d.kind = "directory"
    PROVE  d = Directory(d.dest)
<1>1. \A c : Directory(c).dest = c
  BY DEF Directory
<1>2. ASSUME NEW e \in Collected(p) \cup Generated(p) \cup Additions(f, p)
      PROVE  e.kind # "directory"
  <2>1. \A c, t, x : AsConfig(Regular(c, t, x)).kind = "regular" /\ Link(c, t).kind = "link"
    BY DEF AsConfig, Regular, Link
  <2>2. CASE e \in Additions(f, p)
    BY <2>2, AdditionsAreEntries
  <2>3. CASE e \in Collected(p) \cup Generated(p)
    BY <2>1, <2>3 DEF Collected, Generated
  <2> QED BY <1>2, <2>2, <2>3
<1>3. \/ d \in Collected(p) \cup Generated(p) \cup Additions(f, p)
      \/ \E c : d = Directory(c)
  BY DEF Final, Whole, Base, Planned
<1> QED BY <1>1, <1>2, <1>3

(* The application's directory and all below it have the package's name in   *)
(* their path and are no root of the filesystem.                             *)
LEMMA BelowTopIsOwned ==
    ASSUME NEW p \in Projects, NEW a, a = p.dir \o <<p.name>> \/ Below(p.dir \o <<p.name>>, a),
           NEW e, a \in Ancestors(e), e \in Destination
    PROVE  OwnsDirectory(p, a)
<1> DEFINE top == p.dir \o <<p.name>>
<1>1. p.dir \in Seq(Name) /\ Len(p.dir) \in Nat /\ Len(p.dir) >= 1 /\ p.name \in Name
  BY ProjectAssumption DEF Destination
<1>2. top \in Seq(Name) /\ Len(top) = Len(p.dir) + 1 /\ top[Len(p.dir) + 1] = p.name
  BY <1>1
<1> HIDE DEF top
<1>3. a \in Seq(Name)
  BY AncestorsNest DEF Destination
<1>4. Len(a) >= Len(top) /\ a[Len(top)] = top[Len(top)]
  <2>1. CASE a = top
    BY <1>1, <1>2, <2>1
  <2>2. CASE Below(top, a)
    <3>1. PICK n \in 1..(Len(a) - 1) : top = SubSeq(a, 1, n)
      BY <2>2 DEF Below, Ancestors
    <3> QED BY <1>1, <1>2, <1>3, <3>1
  <2> QED BY <2>1, <2>2 DEF top
<1>5. Len(a) >= 2 /\ a[Len(top)] = p.name /\ Len(top) \in 1..Len(a)
  BY <1>1, <1>2, <1>3, <1>4
<1>6. p.name \in Names(a)
  BY <1>5 DEF Names
<1>7. \A d \in FilesystemRoots : Len(d) = 1
  BY DEF FilesystemRoots
<1>8. a \notin FilesystemRoots
  <2> DEFINE n == Len(a)
  <2>1. n \in Nat /\ n >= 2
    BY <1>3, <1>5
  <2> HIDE DEF n
  <2>2. n # 1
    BY <2>1
  <2> QED BY <1>7, <2>2 DEF n
<1> QED BY <1>6, <1>8 DEF OwnsDirectory

-----------------------------------------------------------------------------
(* Whatever names the files have: every plan is a set of entries, and so is  *)
(* every package.                                                            *)
THEOREM PlanTypeCorrect == Spec => []TypeOK
<1>1. IInv => TypeOK
  BY DEF IInv
<1> QED BY <1>1, InvariantHolds, PTL

(* Any collected files, extra files, names and install directory: what       *)
(* BuildPlan::new does not refuse is a tree, in the shared plan, in each     *)
(* format's and in the archives of deb and arch.                             *)
THEOREM EveryPlanIsATree == Spec => []PlansAreTrees
<1>1. IsTree({})
  BY DEF IsTree, Duplicates
<1>2. IInv => PlansAreTrees
  <2> SUFFICES ASSUME IInv PROVE PlansAreTrees
    OBVIOUS
  <2>1. project \in Projects
    BY DEF IInv, TypeOK
  <2>2. IsTree(base)
    BY <1>1, <2>1, BaseIsSound DEF IInv, Alone
  <2>3. IsTree(derived)
    BY <1>1, <2>1, WholeIsSound DEF IInv, Alone
  <2>4. ASSUME NEW f \in {"deb", "arch"} PROVE IsTree(package[f])
    <3>1. f \in Format /\ f # "rpm"
      BY <2>4 DEF Format
    <3>2. CASE verdict[f] = "built"
      BY <2>1, <3>1, <3>2, FinalIsSound DEF IInv, Alone, Carried
    <3>3. CASE verdict[f] # "built"
      BY <1>1, <3>1, <3>3 DEF IInv, Alone
    <3> QED BY <3>2, <3>3
  <2> QED BY <2>2, <2>3, <2>4 DEF PlansAreTrees
<1> QED BY <1>2, InvariantHolds, PTL

(* Any package of any format keeps the administrator's edits of exactly its  *)
(* regular files below /etc.                                                 *)
THEOREM EtcIsAlwaysConfig == Spec => []EtcIsConfig
<1>1. IInv => EtcIsConfig
  <2> SUFFICES ASSUME IInv, NEW f \in Built PROVE Marked(package[f])
    BY DEF EtcIsConfig, Marked
  <2>1. project \in Projects /\ f \in Format /\ Buildable(f, project)
    BY DEF IInv, TypeOK, Alone, Built
  <2>2. package[f] \subseteq Final(f, project)
    BY DEF IInv, Alone, Built, Carried
  <2> QED BY <2>1, <2>2, FinalIsSound DEF Marked
<1> QED BY <1>1, InvariantHolds, PTL

(* Any formats, in any selection: those that are built carry the same files. *)
THEOREM FormatsAlwaysAgree == Spec => []FormatsCarryTheSame
<1>1. IInv => FormatsCarryTheSame
  BY PortableIsCommon DEF FormatsCarryTheSame
<1> QED BY <1>1, InvariantHolds, PTL

(* However deep the install directory and wherever the links: where every    *)
(* link collected leads to something collected, every link packaged leads to *)
(* something packaged, and the one in /usr/bin to the wrapper.               *)
THEOREM LinksAlwaysArrive ==
    ASSUME \A p \in Projects : Leads(p)
    PROVE  Spec => []LinksArrive
<1>1. IInv => LinksArrive
  <2> SUFFICES ASSUME IInv, NEW f \in Built, NEW e \in package[f], e.kind = "link"
               PROVE  /\ \E t \in package[f] : Reached(e) = t.dest \/ Below(Reached(e), t.dest)
                      /\ e.dest = BinLink(project) =>
                             \E t \in package[f] :
                                 Reached(e) = t.dest /\ t.content = "generated" /\ t.executable
    BY DEF LinksArrive
  <2>1. /\ project \in Projects /\ f \in Format /\ Buildable(f, project)
        /\ package[f] \subseteq Final(f, project)
        /\ Common(project) \subseteq package[f] /\ e \in Common(project)
    BY CommonIsCarried DEF Carried
  <2> DEFINE bin == Link(BinLink(project), Wrapper(project))
  <2>2. BinLink(project) \in Destination /\ Wrapper(project) \in Destination
        /\ AppRoot(project) \in Destination
        /\ project.links \in SUBSET (Destination \X Destination)
    BY <2>1, ProjectPaths, ProjectAssumption
  <2>3. PICK w \in Common(project) :
            w.dest = Wrapper(project) /\ w.content = "generated" /\ w.executable
    BY <2>1, WrapperIsCommon
  <2>4. Reached(bin) = Wrapper(project) /\ bin.dest = BinLink(project) /\ bin.kind = "link"
    BY <2>2, LinkReaches DEF Link
  <2>5. bin \in package[f]
    BY <2>1, <2>4 DEF Common, Ordinary, Collected
  <2> HIDE DEF bin
  <2>6. CASE e = bin
    BY <2>1, <2>3, <2>4, <2>6
  <2>7. CASE e # bin
    <3>1. PICK l \in project.links : e = Link(AppRoot(project) \o l[1], AppRoot(project) \o l[2])
      BY <2>1, <2>7, CommonLinks DEF bin
    <3>2. /\ AppRoot(project) \o l[1] \in Destination
          /\ AppRoot(project) \o l[2] \in Destination
      BY <2>2, Joined
    <3>3. Reached(e) = AppRoot(project) \o l[2]
      BY <3>1, <3>2, LinkReaches
    <3>4. \E t \in package[f] : Reached(e) = t.dest \/ Below(Reached(e), t.dest)
      BY <2>1, <3>3, CollectedLinksLead
    <3>5. e.dest # BinLink(project)
      <4>1. ~Duplicates(Final(f, project))
        BY <2>1, FinalIsSound DEF IsTree
      <4> QED BY <2>1, <2>4, <2>5, <2>7, <4>1 DEF Duplicates
    <3> QED BY <3>4, <3>5
  <2> QED BY <2>6, <2>7
<1> QED BY <1>1, InvariantHolds, PTL

(* A name that no directory of the system has in its path, the roots of the  *)
(* filesystem aside: rpm then takes every directory of the application and   *)
(* none of the system's.                                                     *)
THEOREM RpmAlwaysOwnsItsTree ==
    ASSUME \A p \in Projects : \A d \in SystemDirectories \ FilesystemRoots : p.name \notin Names(d)
    PROVE  Spec => []RpmOwnsItsTree
<1>1. IInv => RpmOwnsItsTree
  <2> SUFFICES ASSUME IInv PROVE RpmOwnsItsTree
    OBVIOUS
  <2>1. CASE "rpm" \notin Built
    <3>1. package["rpm"] = {}
      BY <2>1 DEF IInv, Alone, Built, Format
    <3> QED BY <2>1, <3>1 DEF RpmOwnsItsTree, SystemDirectoriesUnclaimed
  <2>2. CASE "rpm" \in Built
    <3> DEFINE p == project
               top == p.dir \o <<p.name>>
    <3>1. /\ p \in Projects /\ Buildable("rpm", p) /\ "rpm" \in Format
          /\ package["rpm"] = Carried("rpm", p, Final("rpm", p))
      BY <2>2, CommonIsCarried
    <3>2. SystemDirectoriesUnclaimed
      BY <3>1 DEF SystemDirectoriesUnclaimed, Carried, OwnsDirectory
    <3>3. ASSUME NEW e \in base \cup Generated(p), NEW a \in Ancestors(e.dest),
                 a = top \/ Below(top, a)
          PROVE  Directory(a) \in package["rpm"]
      <4>1. e \in Final("rpm", p)
        BY <3>1, <3>3 DEF IInv, Alone, Final, Whole, Planned
      <4>2. PICK d \in Final("rpm", p) : d.dest = a /\ d.kind = "directory"
        BY <3>1, <3>3, <4>1, FinalIsSound DEF IsTree
      <4>3. d = Directory(a)
        BY <3>1, <4>2, DirectoriesAreAdded
      <4>4. OwnsDirectory(p, a)
        <5>1. e.dest \in Destination
          BY <3>1, <4>1, FinalIsSound DEF Entry
        <5> QED BY <3>1, <3>3, <5>1, BelowTopIsOwned
      <4> QED BY <3>1, <4>2, <4>3, <4>4 DEF Carried
    <3> QED BY <3>2, <3>3 DEF RpmOwnsItsTree
  <2> QED BY <2>1, <2>2
<1> QED BY <1>1, InvariantHolds, PTL
=============================================================================
