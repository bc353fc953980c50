------------------------------ MODULE Versions ------------------------------
(* Semantic versions, the native package versions they are mapped onto       *)
(* (core/version.rs), and the orders the package managers put those in.      *)
(* A version is a sequence of tokens: a number, a word or one other          *)
(* character; two numbers, or two words, are never neighbours.               *)
EXTENDS SequencesExt, Integers

Numerals == <<"0", "1", "2", "3", "9", "10", "11">>      \* in numeric order
Words    == <<"alpha", "beta", "build", "rc">>           \* in ASCII order
Mark     == [c \in {"+", "-", ".", "~", "_"} |->
                CASE c = "+" -> 1 [] c = "-" -> 2 [] c = "." -> 3 [] c = "_" -> 4 [] c = "~" -> 5]
Number   == ToSet(Numerals)
Word     == ToSet(Words)
ValueOf(token) == CHOOSE i \in DOMAIN Numerals : Numerals[i] = token
WordAt(token)  == CHOOSE i \in DOMAIN Words : Words[i] = token

-----------------------------------------------------------------------------
(* The semver crate, as far as a version is one or not *)

IsIdentifiers(part) ==
    /\ part # <<>>
    /\ \A i \in DOMAIN part :
          /\ part[i] \in Number \cup Word \cup {"-", "."}
          /\ part[i] = "." => i > 1 /\ i < Len(part) /\ part[i - 1] # "."

Plus(version) == {i \in DOMAIN version : version[i] = "+"}
BuildAt(version) == IF Plus(version) = {} THEN Len(version) + 1 ELSE Min(Plus(version))
Core(version)  == SubSeq(version, 1, 5)
Pre(version)   == SubSeq(version, 7, BuildAt(version) - 1)
Build(version) == SubSeq(version, BuildAt(version) + 1, Len(version))

IsSemver(version) ==
    /\ Len(version) >= 5
    /\ version[1] \in Number /\ version[3] \in Number /\ version[5] \in Number
    /\ version[2] = "." /\ version[4] = "."
    /\ \/ BuildAt(version) = 6
       \/ version[6] = "-" /\ IsIdentifiers(Pre(version))
    /\ BuildAt(version) <= Len(version) => IsIdentifiers(Build(version))

-----------------------------------------------------------------------------
(* VersionSpec and MappedVersion *)

ValidUpstream(version) ==
    /\ version # <<>> /\ version[1] \in Number
    /\ ToSet(version) \subseteq Number \cup Word \cup {".", "+", "~"}

IsSpec(version)    == IsSemver(version) \/ ValidUpstream(version)
IsLiteral(version) == ~IsSemver(version)

Rewritten(part) == [i \in DOMAIN part |-> IF part[i] = "-" THEN "." ELSE part[i]]
HyphensRewritten(version) ==
    IsSemver(version) /\ "-" \in ToSet(Pre(version) \o Build(version))

(* A bug: the pre-release keeps its own separator's neighbour, `.`.          *)
MapSemverDotted(version) ==
    Core(version) \o (IF Pre(version) = <<>> THEN <<>> ELSE <<".">> \o Rewritten(Pre(version)))
    \o (IF Build(version) = <<>> THEN <<>> ELSE <<"+">> \o Rewritten(Build(version)))

MapSemver(version) ==
    Core(version) \o (IF Pre(version) = <<>> THEN <<>> ELSE <<"~">> \o Rewritten(Pre(version)))
    \o (IF Build(version) = <<>> THEN <<>> ELSE <<"+">> \o Rewritten(Build(version)))

MappedBase(version) == IF IsSemver(version) THEN MapSemver(version) ELSE version

NoEpoch == -1

(* The same base in every format, with the epoch inside (deb) or beside it;  *)
(* the release is always 1.                                                  *)
MappedVersion(version, epoch) ==
    [base |-> MappedBase(version), epoch |-> epoch,
     deb  |-> (IF epoch = NoEpoch THEN <<>> ELSE <<Numerals[epoch + 1], ":">>)
              \o MappedBase(version)]

-----------------------------------------------------------------------------
(* The package managers: which of two versions is the older *)

(* Tokens of rank <<class, place>>, compared until two differ; past the end  *)
(* of a version every token is `end`.                                        *)
RankedLess(a, b, Rank(_), end) ==
    LET at(v, i) == IF i <= Len(v) THEN Rank(v[i]) ELSE end
        differ == {i \in 1..Max({Len(a), Len(b)}) : at(a, i) # at(b, i)}
        Before(r, s) == r[1] < s[1] \/ (r[1] = s[1] /\ r[2] < s[2])
    IN  differ # {} /\ Before(at(a, Min(differ)), at(b, Min(differ)))

(* dpkg, verrevcmp: `~`, then the end or a number, letters, anything else.   *)
DpkgRank(t) == CASE t = "~"       -> <<-1, 0>>
                 [] t \in Number  -> <<0, ValueOf(t)>>
                 [] t \in Word    -> <<1, WordAt(t)>>
                 [] OTHER         -> <<2, Mark[t]>>
DpkgLess(a, b) == RankedLess(a, b, DpkgRank, <<0, 1>>)

(* rpmvercmp: separators only separate; `~`, the end, letters, numbers.      *)
RpmRank(t) == CASE t = "~"      -> <<-1, 0>>
                [] t \in Word   -> <<1, WordAt(t)>>
                [] t \in Number -> <<2, ValueOf(t)>>
RpmSegments(v) == SelectSeq(v, LAMBDA t : t \in Number \cup Word \cup {"~"})
RpmLess(a, b) == RankedLess(RpmSegments(a), RpmSegments(b), RpmRank, <<0, 0>>)

(* alpm's rpmvercmp: every separator is the same, more of them are newer,    *)
(* and what is left over is newer unless it starts with a letter.            *)
AlpmLess(a, b) ==
    LET segment(v) == {i \in DOMAIN v : v[i] \in Number \cup Word}
        place(v, k) == CHOOSE i \in segment(v) : Cardinality({j \in segment(v) : j <= i}) = k
        count(v)   == Cardinality(segment(v))
        gap(v, k)  == place(v, k) - (IF k = 1 THEN 0 ELSE place(v, k - 1)) - 1
        rank(v, k) == LET t == v[place(v, k)] IN
                      <<gap(v, k), IF t \in Number THEN 1 ELSE 0,
                        IF t \in Number THEN ValueOf(t) ELSE WordAt(t)>>
        both   == Min({count(a), count(b)})
        differ == {k \in 1..both : rank(a, k) # rank(b, k)}
        older(v) == gap(v, both + 1) = 0 /\ v[place(v, both + 1)] \in Word
    IN  IF differ # {}
        THEN LET k == Min(differ) d == rank(a, k) e == rank(b, k)
             IN  \/ d[1] < e[1]
                 \/ d[1] = e[1] /\ d[2] < e[2]
                 \/ d[1] = e[1] /\ d[2] = e[2] /\ d[3] < e[3]
        ELSE \/ count(a) > both /\ older(a)
             \/ count(b) > both /\ ~older(b)

(* Epochs first, no epoch being 0; the release, always the same, last. *)
PackageLess(format, a, b) ==
    LET epoch(v) == Max({v.epoch, 0})
    IN  \/ epoch(a) < epoch(b)
        \/ /\ epoch(a) = epoch(b)
           /\ CASE format = "deb"  -> DpkgLess(a.base, b.base)
                [] format = "rpm"  -> RpmLess(a.base, b.base)
                [] format = "arch" -> AlpmLess(a.base, b.base)

-----------------------------------------------------------------------------
(* The order of semantic versions themselves: numbers below words in a       *)
(* pre-release, and a pre-release below its release; build metadata is not   *)
(* looked at.                                                                *)
ASCII == <<"-", "0", "1", "10", "11", "2", "3", "9", "alpha", "beta", "build", "rc">>
AsciiAt(token) == CHOOSE i \in DOMAIN ASCII : ASCII[i] = token

Identifiers(part) ==
    LET starts == {1} \cup {i + 1 : i \in {j \in DOMAIN part : part[j] = "."}}
        end(i) == Min({j \in i..Len(part) : part[j] = "."} \cup {Len(part) + 1}) - 1
        sorted == SetToSortSeq(starts, <)
    IN  [k \in DOMAIN sorted |-> SubSeq(part, sorted[k], end(sorted[k]))]

IsNumeric(identifier) == Len(identifier) = 1 /\ identifier[1] \in Number

IdentifierLess(a, b) ==
    CASE IsNumeric(a) /\ IsNumeric(b) -> ValueOf(a[1]) < ValueOf(b[1])
      [] IsNumeric(a) # IsNumeric(b)  -> IsNumeric(a)
      [] OTHER -> RankedLess(a, b, LAMBDA t : <<1, AsciiAt(t)>>, <<0, 0>>)

PreReleaseLess(a, b) ==
    LET x == Identifiers(a)
        y == Identifiers(b)
        differ == {i \in DOMAIN x \cap DOMAIN y : x[i] # y[i]}
    IN  \/ a # <<>> /\ b = <<>>
        \/ /\ a # <<>> /\ b # <<>>
           /\ IF differ # {} THEN IdentifierLess(x[Min(differ)], y[Min(differ)])
              ELSE Len(x) < Len(y)

(* The first identifiers in which two pre-releases differ are of two kinds.  *)
NumberMeetsWord(a, b) ==
    LET x == Identifiers(Pre(a))
        y == Identifiers(Pre(b))
        differ == {i \in DOMAIN x \cap DOMAIN y : x[i] # y[i]}
    IN  differ # {} /\ IsNumeric(x[Min(differ)]) # IsNumeric(y[Min(differ)])

SemverLess(a, b) ==
    \/ RankedLess(Core(a), Core(b), LAMBDA t : <<1, IF t = "." THEN 0 ELSE ValueOf(t)>>, <<0, 0>>)
    \/ Core(a) = Core(b) /\ PreReleaseLess(Pre(a), Pre(b))
=============================================================================
