---------------------------- MODULE Names_proofs ----------------------------
(* What Names and Versions derive is valid, whatever it is derived from.     *)
EXTENDS Names, Versions, SequenceTheorems, WellFoundedInduction, NaturalsInduction, TLAPS

-----------------------------------------------------------------------------
(* Numbers.                                                                  *)

(* A sequence of nothing has no place in it.                                 *)
LEMMA NoChecks == DOMAIN <<>> = 1..0 /\ 1..0 = {}
<1>1. <<>> \in Seq({}) /\ Len(<<>>) = 0
  BY EmptySeq
<1>2. \A seq \in Seq({}) : DOMAIN seq = 1..Len(seq)
  OBVIOUS
<1>3. ASSUME NEW i \in 1..0 PROVE FALSE
  OBVIOUS
<1> QED
  BY <1>1, <1>2, <1>3

(* A set of naturals has a least member.                                     *)
LEMMA LeastOf ==
    ASSUME NEW S, S \subseteq Nat, S # {}
    PROVE  Min(S) \in S /\ \A j \in S : Min(S) <= j
<1>1. PICK i \in S : \A j \in S : <<j, i>> \notin OpToRel(<, Nat)
  BY WFMin, NatLessThanWellFounded
<1>2. ASSUME NEW j \in S, j < i PROVE FALSE
  <2>1. <<j, i>> \in OpToRel(<, Nat)
    BY <1>2 DEF OpToRel
  <2> QED
    BY <1>1, <2>1
<1>3. \A j \in S : i <= j
  BY <1>2
<1> QED
  BY <1>3 DEF Min

(* A set of numbers with a member above all others has that one for its      *)
(* greatest.                                                                 *)
LEMMA GreatestIs ==
    ASSUME NEW S, S \subseteq Int, NEW i \in S, \A j \in S : j <= i
    PROVE  Max(S) = i
<1>1. \A j \in S : i >= j
  OBVIOUS
<1>2. Max(S) \in S /\ \A j \in S : Max(S) >= j
  BY <1>1 DEF Max
<1>3. Max(S) >= i /\ Max(S) <= i /\ Max(S) \in Int /\ i \in Int
  BY <1>2
<1> QED
  BY <1>3

(* A set of places has a last one.                                           *)
LEMMA LastOf ==
    ASSUME NEW n \in Nat, NEW S, S \subseteq 1..n, S # {}
    PROVE  Max(S) \in S /\ \A j \in S : j <= Max(S)
<1> DEFINE D == {n - j : j \in S}
<1>1. D \subseteq Nat /\ D # {}
  <2>1. \A j \in S : n - j \in Nat
    OBVIOUS
  <2> QED
    BY <2>1
<1>2. Min(D) \in D /\ \A d \in D : Min(D) <= d
  BY <1>1, LeastOf
<1>3. PICK i \in S : Min(D) = n - i
  BY <1>2
<1>4. \A j \in S : n - i <= n - j
  BY <1>2, <1>3
<1>5. \A j \in S : j <= i
  BY <1>4
<1>6. S \subseteq Int
  OBVIOUS
<1>7. Max(S) = i
  BY <1>5, <1>6, GreatestIs
<1> QED
  BY <1>5, <1>7

(* Induction over the naturals, for a set of them.                           *)
LEMMA EveryNatural ==
    ASSUME NEW S, 0 \in S, \A n \in Nat : n \in S => n + 1 \in S
    PROVE  Nat \subseteq S
<1> DEFINE T == Nat \ S
<1> SUFFICES ASSUME T # {} PROVE FALSE
  OBVIOUS
<1>1. Min(T) \in T /\ \A j \in T : Min(T) <= j
  BY LeastOf
<1>2. PICK i \in T : \A j \in T : i <= j
  BY <1>1
<1>3. i # 0 /\ i - 1 \in Nat /\ i - 1 \notin T
  BY <1>2
<1> QED
  BY <1>2, <1>3

-----------------------------------------------------------------------------
(* Folds.  FoldLeft is a function on the sets of places, chosen to solve an  *)
(* equation; g is what it folds, as a function on the values it may have.    *)

Solves(f, g, base, seq) ==
    f = [s \in SUBSET DOMAIN seq |->
            IF s = {} THEN base ELSE g[f[s \ {Max(s)}], seq[Max(s)]]]

(* Such an equation has a solution.                                          *)
LEMMA FoldsHaveValues ==
    ASSUME NEW S, NEW T, NEW base \in S, NEW seq \in Seq(T), NEW g \in [S \X T -> S]
    PROVE  \E f \in [SUBSET DOMAIN seq -> S] : Solves(f, g, base, seq)
<1> DEFINE value(f, s) == IF s = {} THEN base ELSE g[f[s \ {Max(s)}], seq[Max(s)]]
           Fits(f, m) == \A s \in SUBSET (1..m) : f[s] = value(f, s)
           Solved(m) == \E f \in [SUBSET (1..m) -> S] : Fits(f, m)
           P == {m \in Nat : m <= Len(seq) => Solved(m)}
<1>1. 0 \in P
  <2> DEFINE f == [s \in SUBSET (1..0) |-> base]
  <2>1. \A s \in SUBSET (1..0) : s = {}
    OBVIOUS
  <2>2. f \in [SUBSET (1..0) -> S] /\ Fits(f, 0)
    BY <2>1
  <2> HIDE DEF Fits, f
  <2> QED
    BY <2>2
<1>2. ASSUME NEW m \in Nat, m \in P PROVE m + 1 \in P
  <2> HIDE DEF Solved
  <2> SUFFICES ASSUME m + 1 <= Len(seq) PROVE Solved(m + 1)
    OBVIOUS
  <2>0. Solved(m)
    BY <1>2
  <2>1. PICK f \in [SUBSET (1..m) -> S] : Fits(f, m)
    BY <2>0 DEF Solved
  <2> DEFINE h == [s \in SUBSET (1..m + 1) |->
                      IF m + 1 \in s THEN g[f[s \ {m + 1}], seq[m + 1]] ELSE f[s]]
  <2>2. seq[m + 1] \in T
    OBVIOUS
  <2>3. ASSUME NEW s \in SUBSET (1..m + 1)
        PROVE  /\ m + 1 \in s => s \ {m + 1} \in SUBSET (1..m) /\ Max(s) = m + 1
               /\ m + 1 \notin s => /\ s \in SUBSET (1..m)
                                    /\ s # {} => Max(s) \in s /\ s \ {Max(s)} \in SUBSET (1..m)
    <3>1. ASSUME m + 1 \in s PROVE s \ {m + 1} \in SUBSET (1..m) /\ Max(s) = m + 1
      <4>1. s \subseteq Int /\ \A j \in s : j <= m + 1
        OBVIOUS
      <4>2. Max(s) = m + 1
        BY <3>1, <4>1, GreatestIs
      <4>3. s \ {m + 1} \in SUBSET (1..m)
        OBVIOUS
      <4> QED
        BY <4>2, <4>3
    <3>2. ASSUME m + 1 \notin s PROVE s \in SUBSET (1..m)
      BY <3>2
    <3>3. ASSUME m + 1 \notin s, s # {} PROVE Max(s) \in s /\ s \ {Max(s)} \in SUBSET (1..m)
      BY <3>2, <3>3, LastOf
    <3> QED
      BY <3>1, <3>2, <3>3
  <2>4. h \in [SUBSET (1..m + 1) -> S]
    BY <2>2, <2>3
  <2>5. ASSUME NEW s \in SUBSET (1..m + 1) PROVE h[s] = value(h, s)
    <3>1. CASE m + 1 \in s
      <4>1. h[s] = g[f[s \ {m + 1}], seq[m + 1]] /\ s # {}
        BY <3>1
      <4>2. h[s \ {m + 1}] = f[s \ {m + 1}]
        BY <2>3, <3>1
      <4> QED
        BY <2>3, <3>1, <4>1, <4>2
    <3>2. CASE m + 1 \notin s
      <4>1. s \in SUBSET (1..m) /\ h[s] = f[s]
        BY <2>3, <3>2
      <4>2. f[s] = value(f, s)
        BY <2>1, <4>1
      <4>3. s # {} => h[s \ {Max(s)}] = f[s \ {Max(s)}]
        BY <2>3, <3>2
      <4> QED
        BY <4>1, <4>2, <4>3
    <3> QED
      BY <3>1, <3>2
  <2>6. Fits(h, m + 1)
    BY <2>5
  <2> HIDE DEF h, Fits
  <2> QED
    BY <2>4, <2>6 DEF Solved
<1>3. Nat \subseteq P
  <2> HIDE DEF P
  <2> QED
    BY <1>1, <1>2, EveryNatural
<1>4. Len(seq) \in Nat /\ DOMAIN seq = 1..Len(seq)
  OBVIOUS
<1>5. PICK f \in [SUBSET DOMAIN seq -> S] : \A s \in SUBSET DOMAIN seq : f[s] = value(f, s)
  <2> HIDE DEF Solved
  <2>1. Solved(Len(seq))
    BY <1>3, <1>4
  <2> HIDE DEF value
  <2> QED
    BY <1>4, <2>1 DEF Solved
<1> HIDE DEF value
<1>6. f = [s \in SUBSET DOMAIN seq |-> value(f, s)]
  BY <1>5
<1>7. Solves(f, g, base, seq)
  BY <1>6 DEF Solves, value
<1> QED
  BY <1>7

Follows(f, g, base, seq, S) ==
    /\ f[{}] = base
    /\ \A s \in SUBSET DOMAIN seq :
          s # {} /\ f[s \ {Max(s)}] \in S => f[s] = g[f[s \ {Max(s)}], seq[Max(s)]]

Runs(h, g, base, seq, S) ==
    /\ h \in [0..Len(seq) -> S] /\ h[0] = base
    /\ \A m \in 1..Len(seq) : h[m] = g[h[m - 1], seq[m]]

Reaches(f, g, base, seq, S) ==
    \E h : Runs(h, g, base, seq, S) /\ h[Len(seq)] = f[DOMAIN seq]

(* And any solution is worked up from the first place to the last.           *)
LEMMA FoldsRun ==
    ASSUME NEW S, NEW T, NEW base \in S, NEW seq \in Seq(T), NEW g \in [S \X T -> S],
           NEW f, Follows(f, g, base, seq, S)
    PROVE  Reaches(f, g, base, seq, S)
<1> DEFINE h == [m \in 0..Len(seq) |-> f[1..m]]
           P == {m \in Nat : m <= Len(seq) => f[1..m] \in S}
<1>1. f[1..0] = base
  BY NoChecks DEF Follows
<1>2. ASSUME NEW m \in Nat, m + 1 <= Len(seq), f[1..m] \in S
      PROVE  f[1..m + 1] = g[f[1..m], seq[m + 1]] /\ f[1..m + 1] \in S
  <2>1. 1..m + 1 \in SUBSET DOMAIN seq /\ 1..m + 1 # {} /\ seq[m + 1] \in T
    <3>1. DOMAIN seq = 1..Len(seq) /\ Len(seq) \in Nat
      OBVIOUS
    <3>2. m + 1 \in 1..m + 1 /\ m + 1 \in 1..Len(seq) /\ 1..m + 1 \subseteq 1..Len(seq)
      BY <1>2, <3>1
    <3>3. seq[m + 1] \in T
      BY <3>2
    <3> QED
      BY <3>1, <3>2, <3>3
  <2>2. Max(1..m + 1) = m + 1
    <3>1. 1..m + 1 \subseteq Int /\ m + 1 \in 1..m + 1 /\ \A j \in 1..m + 1 : j <= m + 1
      OBVIOUS
    <3> QED
      BY <3>1, GreatestIs
  <2>3. (1..m + 1) \ {m + 1} = 1..m
    OBVIOUS
  <2>4. f[1..m + 1] = g[f[1..m], seq[m + 1]]
    BY <1>2, <2>1, <2>2, <2>3 DEF Follows
  <2> QED
    BY <1>2, <2>1, <2>4
<1>3. Nat \subseteq P
  <2>1. 0 \in P
    BY <1>1
  <2>2. ASSUME NEW m \in Nat, m \in P PROVE m + 1 \in P
    <3> SUFFICES ASSUME m + 1 <= Len(seq) PROVE f[1..m + 1] \in S
      OBVIOUS
    <3>1. f[1..m] \in S
      BY <2>2
    <3> QED
      BY <1>2, <3>1
  <2> HIDE DEF P
  <2> QED
    BY <2>1, <2>2, EveryNatural
<1>4. Len(seq) \in Nat /\ DOMAIN seq = 1..Len(seq)
  OBVIOUS
<1>5. h \in [0..Len(seq) -> S] /\ h[0] = base /\ h[Len(seq)] = f[DOMAIN seq]
  BY <1>1, <1>3, <1>4
<1>6. ASSUME NEW m \in 1..Len(seq) PROVE h[m] = g[h[m - 1], seq[m]]
  <2>1. PICK k \in Nat : m = k + 1 /\ k + 1 <= Len(seq) /\ k = m - 1
    BY <1>4
  <2>2. f[1..k] \in S
    BY <1>3, <1>4, <2>1
  <2>3. f[1..k + 1] = g[f[1..k], seq[k + 1]]
    BY <1>2, <2>1, <2>2
  <2>4. h[m] = f[1..k + 1] /\ h[m - 1] = f[1..k]
    BY <1>4, <2>1
  <2> QED
    BY <2>1, <2>3, <2>4
<1> HIDE DEF h
<1> QED
  BY <1>5, <1>6 DEF Runs, Reaches

-----------------------------------------------------------------------------
(* Names.                                                                    *)

PackageChar == Lower \cup Digit \cup {"+", "-", "."}
UnixChar    == Lower \cup Digit \cup {Underscore, "-"}

(* The characters that matter are all different.                             *)
LEMMA CharsDiffer ==
    /\ Upper \cap (Lower \cup Digit \cup {Underscore}) = {}
    /\ "-" \notin Lower \cup Digit \cup {Underscore}
    /\ \A u \in Upper : Lowered[u] \in Lower
<1>1. Upper = {"A", "B", "C"} /\ \A u \in Upper : Lowered[u] \in {"a", "b", "c"}
  BY DEF Upper, Lowered
<1>2. {"A", "B", "C"} \cap (Lower \cup Digit) = {} /\ {"a", "b", "c"} \subseteq Lower
      /\ "-" \notin Lower \cup Digit
  BY DEF Lower, Digit
<1>3. Underscore \notin {"A", "B", "C", "-"}
  BY Zenon DEF Underscore
<1> QED
  BY <1>1, <1>2, <1>3

(* A letter in lower case is a lower-case letter, and a digit is itself.     *)
LEMMA LowercaseIsLower ==
    ASSUME NEW c \in Lower \cup Upper \cup Digit \cup {Underscore}
    PROVE  /\ Lowercase(c) \in Lower \cup Digit \cup {Underscore}
           /\ c \in Lower \cup Upper \cup Digit => Lowercase(c) \in Lower \cup Digit
           /\ c \in Lower \cup Digit => Lowercase(c) = c
  BY CharsDiffer DEF Lowercase

(* What each constructor writes of a character.                              *)
LEMMA CharsWritten ==
    ASSUME NEW c
    PROVE  /\ \A out \in Seq(UnixChar) : DerivedChar(out, c) \in Seq(UnixChar)
           /\ \A out \in Seq(PackageChar) : NormalizedChar(out, c) \in Seq(PackageChar)
<1>1. "-" \in UnixChar /\ "-" \in PackageChar /\ {"+", "."} \subseteq PackageChar
  BY DEF UnixChar, PackageChar
<1>2. Lower \cup Digit \subseteq PackageChar /\ Lower \cup Digit \cup {Underscore} \subseteq UnixChar
  BY DEF UnixChar, PackageChar
<1> HIDE DEF UnixChar, PackageChar
<1>3. ASSUME NEW out \in Seq(UnixChar) PROVE DerivedChar(out, c) \in Seq(UnixChar)
  <2>1. Pushed(out, "-") \in Seq(UnixChar)
    BY <1>1 DEF Pushed
  <2>2. c \in Lower \cup Upper \cup Digit \cup {Underscore} => Append(out, Lowercase(c)) \in Seq(UnixChar)
    BY <1>2, LowercaseIsLower
  <2> QED
    BY <2>1, <2>2 DEF DerivedChar
<1>4. ASSUME NEW out \in Seq(PackageChar) PROVE NormalizedChar(out, c) \in Seq(PackageChar)
  <2>1. Pushed(out, "-") \in Seq(PackageChar)
    BY <1>1 DEF Pushed
  <2>2. c \in Lower \cup Upper \cup Digit => Append(out, Lowercase(c)) \in Seq(PackageChar)
    BY <1>2, LowercaseIsLower
  <2>3. c \in {"+", "."} => Append(out, c) \in Seq(PackageChar)
    BY <1>1
  <2> QED
    BY <2>1, <2>2, <2>3 DEF NormalizedChar
<1> QED
  BY <1>3, <1>4

(* A name is written character by character: of an account, *)
LEMMA DerivingRuns ==
    ASSUME NEW T, NEW source \in Seq(T)
    PROVE  \E h : /\ h \in [0..Len(source) -> Seq(UnixChar)] /\ h[0] = <<>>
                  /\ \A m \in 1..Len(source) : h[m] = DerivedChar(h[m - 1], source[m])
                  /\ h[Len(source)] = FoldLeft(DerivedChar, <<>>, source)
<1> DEFINE S == Seq(UnixChar)
           g == [p \in S \X T |-> DerivedChar(p[1], p[2])]
           written(f, s) == IF s = {} THEN <<>>
                            ELSE DerivedChar(f[s \ {Max(s)}], source[Max(s)])
           Fits(f) == f = [s \in SUBSET DOMAIN source |-> written(f, s)]
           chosen == CHOOSE f : Fits(f)
<1>1. <<>> \in S
  BY EmptySeq
<1>2. g \in [S \X T -> S]
  BY CharsWritten
<1>3. \A out \in S, c \in T : g[out, c] = DerivedChar(out, c)
  OBVIOUS
<1>4. DOMAIN source = 1..Len(source) /\ Len(source) \in Nat
  OBVIOUS
<1>5. ASSUME NEW s \in SUBSET DOMAIN source, s # {}
      PROVE  Max(s) \in s /\ s \ {Max(s)} \in SUBSET DOMAIN source /\ source[Max(s)] \in T
  <2>1. Max(s) \in s
    BY <1>4, <1>5, LastOf
  <2>2. Max(s) \in 1..Len(source)
    BY <1>4, <2>1
  <2> QED
    BY <2>1, <2>2
<1> HIDE DEF S, g
<1>6. PICK f \in [SUBSET DOMAIN source -> S] : Solves(f, g, <<>>, source)
  BY <1>1, <1>2, FoldsHaveValues
<1>7. Fits(f)
  <2>1. \A s \in SUBSET DOMAIN source :
           f[s] = IF s = {} THEN <<>> ELSE g[f[s \ {Max(s)}], source[Max(s)]]
    BY <1>6 DEF Solves
  <2>2. ASSUME NEW s \in SUBSET DOMAIN source PROVE f[s] = written(f, s)
    BY <1>3, <1>5, <2>1
  <2>3. f = [s \in SUBSET DOMAIN source |-> f[s]]
    OBVIOUS
  <2> HIDE DEF written
  <2> QED
    BY <2>2, <2>3
<1> HIDE DEF Fits
<1>8. Fits(chosen)
  BY <1>7
<1>9. FoldLeft(DerivedChar, <<>>, source) = chosen[DOMAIN source]
  BY DEF FoldLeft, MapThenFoldSet, Fits, written
<1> HIDE DEF chosen
<1>10. Follows(chosen, g, <<>>, source, S)
  <2>1. \A s \in SUBSET DOMAIN source : chosen[s] = written(chosen, s)
    <3> HIDE DEF written
    <3> QED
      BY <1>8 DEF Fits
  <2>2. chosen[{}] = <<>>
    BY <2>1
  <2>3. ASSUME NEW s \in SUBSET DOMAIN source, s # {}, chosen[s \ {Max(s)}] \in S
        PROVE  chosen[s] = g[chosen[s \ {Max(s)}], source[Max(s)]]
    BY <1>3, <1>5, <2>1, <2>3
  <2> QED
    BY <2>2, <2>3 DEF Follows
<1>11. PICK h : Runs(h, g, <<>>, source, S) /\ h[Len(source)] = chosen[DOMAIN source]
  <2>1. Reaches(chosen, g, <<>>, source, S)
    BY <1>1, <1>2, <1>10, FoldsRun
  <2> QED
    BY <2>1 DEF Reaches
<1>12. h \in [0..Len(source) -> S] /\ h[0] = <<>>
  BY <1>11 DEF Runs
<1>13. ASSUME NEW m \in 1..Len(source) PROVE h[m] = DerivedChar(h[m - 1], source[m])
  <2>1. h[m] = g[h[m - 1], source[m]]
    BY <1>11 DEF Runs
  <2>2. h[m - 1] \in S /\ source[m] \in T
    BY <1>4, <1>12
  <2> QED
    BY <1>3, <2>1, <2>2
<1> QED
  BY <1>9, <1>11, <1>12, <1>13 DEF S

(* and of a package.                                                        *)
LEMMA NormalizingRuns ==
    ASSUME NEW T, NEW source \in Seq(T)
    PROVE  \E h : /\ h \in [0..Len(source) -> Seq(PackageChar)] /\ h[0] = <<>>
                  /\ \A m \in 1..Len(source) : h[m] = NormalizedChar(h[m - 1], source[m])
                  /\ h[Len(source)] = FoldLeft(NormalizedChar, <<>>, source)
<1> DEFINE S == Seq(PackageChar)
           g == [p \in S \X T |-> NormalizedChar(p[1], p[2])]
           written(f, s) == IF s = {} THEN <<>>
                            ELSE NormalizedChar(f[s \ {Max(s)}], source[Max(s)])
           Fits(f) == f = [s \in SUBSET DOMAIN source |-> written(f, s)]
           chosen == CHOOSE f : Fits(f)
<1>1. <<>> \in S
  BY EmptySeq
<1>2. g \in [S \X T -> S]
  BY CharsWritten
<1>3. \A out \in S, c \in T : g[out, c] = NormalizedChar(out, c)
  OBVIOUS
<1>4. DOMAIN source = 1..Len(source) /\ Len(source) \in Nat
  OBVIOUS
<1>5. ASSUME NEW s \in SUBSET DOMAIN source, s # {}
      PROVE  Max(s) \in s /\ s \ {Max(s)} \in SUBSET DOMAIN source /\ source[Max(s)] \in T
  <2>1. Max(s) \in s
    BY <1>4, <1>5, LastOf
  <2>2. Max(s) \in 1..Len(source)
    BY <1>4, <2>1
  <2> QED
    BY <2>1, <2>2
<1> HIDE DEF S, g
<1>6. PICK f \in [SUBSET DOMAIN source -> S] : Solves(f, g, <<>>, source)
  BY <1>1, <1>2, FoldsHaveValues
<1>7. Fits(f)
  <2>1. \A s \in SUBSET DOMAIN source :
           f[s] = IF s = {} THEN <<>> ELSE g[f[s \ {Max(s)}], source[Max(s)]]
    BY <1>6 DEF Solves
  <2>2. ASSUME NEW s \in SUBSET DOMAIN source PROVE f[s] = written(f, s)
    BY <1>3, <1>5, <2>1
  <2>3. f = [s \in SUBSET DOMAIN source |-> f[s]]
    OBVIOUS
  <2> HIDE DEF written
  <2> QED
    BY <2>2, <2>3
<1> HIDE DEF Fits
<1>8. Fits(chosen)
  BY <1>7
<1>9. FoldLeft(NormalizedChar, <<>>, source) = chosen[DOMAIN source]
  BY DEF FoldLeft, MapThenFoldSet, Fits, written
<1> HIDE DEF chosen
<1>10. Follows(chosen, g, <<>>, source, S)
  <2>1. \A s \in SUBSET DOMAIN source : chosen[s] = written(chosen, s)
    <3> HIDE DEF written
    <3> QED
      BY <1>8 DEF Fits
  <2>2. chosen[{}] = <<>>
    BY <2>1
  <2>3. ASSUME NEW s \in SUBSET DOMAIN source, s # {}, chosen[s \ {Max(s)}] \in S
        PROVE  chosen[s] = g[chosen[s \ {Max(s)}], source[Max(s)]]
    BY <1>3, <1>5, <2>1, <2>3
  <2> QED
    BY <2>2, <2>3 DEF Follows
<1>11. PICK h : Runs(h, g, <<>>, source, S) /\ h[Len(source)] = chosen[DOMAIN source]
  <2>1. Reaches(chosen, g, <<>>, source, S)
    BY <1>1, <1>2, <1>10, FoldsRun
  <2> QED
    BY <2>1 DEF Reaches
<1>12. h \in [0..Len(source) -> S] /\ h[0] = <<>>
  BY <1>11 DEF Runs
<1>13. ASSUME NEW m \in 1..Len(source) PROVE h[m] = NormalizedChar(h[m - 1], source[m])
  <2>1. h[m] = g[h[m - 1], source[m]]
    BY <1>11 DEF Runs
  <2>2. h[m - 1] \in S /\ source[m] \in T
    BY <1>4, <1>12
  <2> QED
    BY <1>3, <2>1, <2>2
<1> QED
  BY <1>9, <1>11, <1>12, <1>13 DEF S

(* What is left of a name when its ends are trimmed.                         *)
LEMMA TrimmedKeeps ==
    ASSUME NEW C, NEW name \in Seq(C), NEW unwanted
    PROVE  /\ TrimmedOf(name, unwanted) \in Seq(C)
           /\ name # <<>> /\ name[1] \notin unwanted =>
                 TrimmedOf(name, unwanted) # <<>> /\ TrimmedOf(name, unwanted)[1] = name[1]
<1> DEFINE kept == {i \in DOMAIN name : name[i] \notin unwanted}
<1>1. DOMAIN name = 1..Len(name) /\ Len(name) \in Nat /\ kept \subseteq 1..Len(name)
  OBVIOUS
<1>2. CASE kept = {}
  <2>1. TrimmedOf(name, unwanted) = <<>>
    BY <1>2 DEF TrimmedOf
  <2>2. name # <<>> => 1 \in DOMAIN name
    OBVIOUS
  <2>3. <<>> \in Seq(C)
    BY EmptySeq
  <2> QED
    BY <1>2, <2>1, <2>2, <2>3
<1>3. CASE kept # {}
  <2>1. TrimmedOf(name, unwanted) = SubSeq(name, Min(kept), Max(kept))
    BY <1>3 DEF TrimmedOf
  <2>2. Max(kept) \in kept
    BY <1>1, <1>3, LastOf
  <2>3. Min(kept) \in kept /\ \A j \in kept : Min(kept) <= j
    <3>1. kept \subseteq Nat
      BY <1>1
    <3> HIDE DEF kept
    <3> QED
      BY <1>3, <3>1, LeastOf
  <2> HIDE DEF kept
  <2>4. Min(kept) \in 1..Len(name) /\ Max(kept) \in 1..Len(name) /\ Min(kept) <= Max(kept)
    BY <1>1, <2>2, <2>3
  <2>5. /\ SubSeq(name, Min(kept), Max(kept)) \in Seq(C)
        /\ Len(SubSeq(name, Min(kept), Max(kept))) = Max(kept) - Min(kept) + 1
        /\ SubSeq(name, Min(kept), Max(kept))[1] = name[Min(kept)]
    <3>1. PICK m \in 1..Len(name), n \in 1..Len(name) : m = Min(kept) /\ n = Max(kept) /\ m <= n
      BY <2>4
    <3>2. \A i \in m..n : name[i] \in C
      BY <1>1
    <3>3. /\ SubSeq(name, m, n) \in Seq(C) /\ Len(SubSeq(name, m, n)) = n - m + 1
          /\ \A i \in 1..n - m + 1 : SubSeq(name, m, n)[i] = name[m + i - 1]
      BY <3>1, <3>2, SubSeqProperties
    <3>4. 1 \in 1..n - m + 1 /\ m + 1 - 1 = m
      BY <3>1
    <3> QED
      BY <3>1, <3>3, <3>4
  <2>6. SubSeq(name, Min(kept), Max(kept)) # <<>>
    BY <2>4, <2>5, EmptySeq
  <2>7. ASSUME name # <<>>, name[1] \notin unwanted PROVE Min(kept) = 1
    <3>1. 1 \in kept
      BY <1>1, <2>7 DEF kept
    <3> QED
      BY <2>3, <2>4, <3>1
  <2> QED
    BY <2>1, <2>5, <2>6, <2>7
<1> QED
  BY <1>2, <1>3

(* The beginning of a name.                                                  *)
LEMMA StartOf ==
    ASSUME NEW C, NEW name \in Seq(C), NEW n \in 1..Len(name)
    PROVE  /\ SubSeq(name, 1, n) \in Seq(C) /\ Len(SubSeq(name, 1, n)) = n
           /\ SubSeq(name, 1, n)[1] = name[1] /\ SubSeq(name, 1, n) # <<>>
<1>1. SubSeq(name, 1, n) \in Seq(C) /\ Len(SubSeq(name, 1, n)) = n
      /\ SubSeq(name, 1, n)[1] = name[1]
  OBVIOUS
<1> QED
  BY <1>1, EmptySeq

(* The smaller of two numbers.                                               *)
LEMMA LesserOf ==
    ASSUME NEW i \in Nat, NEW j \in Nat
    PROVE  Min({i, j}) \in {i, j} /\ Min({i, j}) <= i /\ Min({i, j}) <= j
  BY LeastOf

(* The characters of a name are those of the set it is written in.           *)
LEMMA CharsOf ==
    ASSUME NEW C, NEW name \in Seq(C)
    PROVE  ToSet(name) \subseteq C /\ (name # <<>> => name[1] \in C)
  BY DEF ToSet

(* The account's name that a package's name gives is valid (resolve.rs,      *)
(* resolve_account, takes it without asking; name.rs, UnixName::derive).     *)
THEOREM DerivedNamesAreValid ==
    ASSUME NEW source \in Seq(PackageChar), ValidPackageName(source)
    PROVE  ValidUnixName(DerivedUnixName(source))
<1> DEFINE first == source[1]
           written == FoldLeft(DerivedChar, <<>>, source)
           derived == TrimmedOf(written, {"-"})
           prefixed == IF derived # <<>> /\ Head(derived) \in Digit
                       THEN <<Underscore>> \o derived ELSE derived
           cut == SubSeq(prefixed, 1, Min({Len(prefixed), MaxLen}))
           kept == {i \in DOMAIN cut : cut[i] # "-"}
<1>1. Len(source) \in Nat /\ Len(source) >= 2 /\ first \in Lower \cup Digit
  BY DEF ValidPackageName
<1>2. /\ written \in Seq(UnixChar) /\ written # <<>> /\ written[1] = first
  <2>1. PICK h : /\ h \in [0..Len(source) -> Seq(UnixChar)] /\ h[0] = <<>>
                 /\ \A m \in 1..Len(source) : h[m] = DerivedChar(h[m - 1], source[m])
                 /\ h[Len(source)] = written
    BY DerivingRuns
  <2> DEFINE Starts(out) == out \in Seq(UnixChar) /\ Len(out) > 0 /\ out[1] = first
  <2>2. Starts(h[1])
    <3>1. h[1] = DerivedChar(<<>>, first) /\ h[1] \in Seq(UnixChar)
      <4>1. 1 \in 1..Len(source) /\ 1 \in 0..Len(source) /\ 1 - 1 = 0
        BY <1>1
      <4>2. h[1] = DerivedChar(h[1 - 1], source[1])
        BY <2>1, <4>1
      <4> QED
        BY <2>1, <4>1, <4>2
    <3>2. DerivedChar(<<>>, first) = Append(<<>>, first)
      BY <1>1, LowercaseIsLower DEF DerivedChar
    <3>3. Len(Append(<<>>, first)) = 1 /\ Append(<<>>, first)[1] = first
      OBVIOUS
    <3> QED
      BY <3>1, <3>2, <3>3
  <2>3. ASSUME NEW m \in 1..Len(source) - 1, Starts(h[m]) PROVE Starts(h[m + 1])
    <3>1. h[m + 1] = DerivedChar(h[m], source[m + 1]) /\ h[m + 1] \in Seq(UnixChar)
      <4>1. m + 1 \in 1..Len(source) /\ m + 1 \in 0..Len(source) /\ (m + 1) - 1 = m
        BY <1>1
      <4>2. h[m + 1] = DerivedChar(h[(m + 1) - 1], source[m + 1])
        BY <2>1, <4>1
      <4> QED
        BY <2>1, <4>1, <4>2
    <3>2. \/ h[m + 1] = h[m]
          \/ \E c : h[m + 1] = Append(h[m], c)
      BY <3>1 DEF DerivedChar, Pushed
    <3>3. ASSUME NEW c, h[m + 1] = Append(h[m], c)
          PROVE  Len(h[m + 1]) > 0 /\ h[m + 1][1] = h[m][1]
      BY <2>3, <3>3
    <3> QED
      BY <2>3, <3>1, <3>2, <3>3
  <2> DEFINE P == {m \in Nat : m + 1 <= Len(source) => Starts(h[m + 1])}
  <2> HIDE DEF Starts
  <2>4. 0 \in P
    BY <2>2
  <2>5. ASSUME NEW m \in Nat, m \in P PROVE m + 1 \in P
    <3>1. ASSUME m + 2 <= Len(source) PROVE Starts(h[m + 2])
      <4>1. Starts(h[m + 1]) /\ m + 1 \in 1..Len(source) - 1 /\ (m + 1) + 1 = m + 2
        BY <1>1, <2>5, <3>1
      <4> QED
        BY <2>3, <4>1
    <3>2. m + 1 \in Nat /\ (m + 1) + 1 = m + 2
      OBVIOUS
    <3> QED
      BY <3>1, <3>2
  <2> HIDE DEF P
  <2>6. Nat \subseteq P
    BY <2>4, <2>5, EveryNatural
  <2>7. Starts(h[Len(source)])
    <3>1. Len(source) - 1 \in P /\ (Len(source) - 1) + 1 = Len(source)
      BY <1>1, <2>6
    <3> QED
      BY <1>1, <3>1 DEF P
  <2> HIDE DEF written
  <2>8. written \in Seq(UnixChar) /\ Len(written) > 0 /\ written[1] = first
    BY <2>1, <2>7 DEF Starts
  <2> QED
    BY <2>8, EmptySeq
<1> HIDE DEF written, first
<1>3. derived \in Seq(UnixChar) /\ derived # <<>> /\ derived[1] = first
  <2>1. first \notin {"-"}
    BY <1>1, CharsDiffer
  <2> QED
    BY <1>2, <2>1, TrimmedKeeps
<1> HIDE DEF derived
<1>4. prefixed \in Seq(UnixChar) /\ prefixed # <<>> /\ prefixed[1] \in Lower \cup {Underscore}
  <2>1. Head(derived) = first
    BY <1>3
  <2>2. CASE first \in Digit
    <3>1. prefixed = <<Underscore>> \o derived
      BY <1>3, <2>1, <2>2
    <3>2. Underscore \in UnixChar
      BY DEF UnixChar
    <3>3. <<Underscore>> \o derived \in Seq(UnixChar) /\ Len(<<Underscore>> \o derived) > 0
          /\ (<<Underscore>> \o derived)[1] = Underscore
      BY <1>3, <3>2
    <3> QED
      BY <3>1, <3>3, EmptySeq
  <2>3. CASE first \notin Digit
    BY <1>1, <1>3, <2>1, <2>3
  <2> QED
    BY <2>2, <2>3
<1> HIDE DEF prefixed
<1>5. cut \in Seq(UnixChar) /\ cut # <<>> /\ Len(cut) <= MaxLen /\ cut[1] = prefixed[1]
  <2>1. Len(prefixed) \in Nat /\ Len(prefixed) >= 1
    BY <1>4
  <2>2. Min({Len(prefixed), MaxLen}) \in 1..Len(prefixed) /\ Min({Len(prefixed), MaxLen}) <= MaxLen
    BY <2>1, LesserOf, MaxLenAssumption
  <2> QED
    BY <1>4, <2>2, StartOf
<1> HIDE DEF cut
<1>6. 1 \in kept /\ kept \subseteq 1..Len(cut) /\ Len(cut) \in Nat
  <2>1. cut[1] # "-" /\ 1 \in DOMAIN cut
    BY <1>4, <1>5, CharsDiffer
  <2> QED
    BY <1>5, <2>1
<1>7. Max(kept) \in 1..Len(cut)
  BY <1>6, LastOf
<1>8. DerivedUnixName(source) = SubSeq(cut, 1, Max(kept))
  <2>1. kept # {}
    BY <1>6
  <2> QED
    BY <2>1 DEF DerivedUnixName, cut, prefixed, derived, written
<1> HIDE DEF kept
<1> DEFINE name == SubSeq(cut, 1, Max(kept))
<1>9. /\ name \in Seq(UnixChar) /\ Len(name) = Max(kept) /\ name # <<>>
      /\ name[1] = cut[1]
  BY <1>5, <1>7, StartOf
<1> HIDE DEF name
<1>10. Len(name) <= MaxLen
  BY <1>5, <1>6, <1>7, <1>9, MaxLenAssumption
<1>11. ToSet(name) \subseteq UnixChar
  BY <1>9, CharsOf
<1>12. UnixChar = Lower \cup Digit \cup {Underscore, "-"}
  BY DEF UnixChar
<1>13. ValidUnixName(name)
  BY <1>4, <1>5, <1>9, <1>10, <1>11, <1>12 DEF ValidUnixName
<1> QED
  BY <1>8, <1>13 DEF name

(* What a manifest's name is normalised to is written in a package's         *)
(* characters, and so is a name that is valid as it is.                      *)
LEMMA PackageNamesAreWritten ==
    ASSUME NEW T, NEW name \in Seq(T)
    PROVE  /\ NormalizedPackageName(name) \in Seq(PackageChar)
           /\ ValidPackageName(name) => name \in Seq(PackageChar)
<1>1. NormalizedPackageName(name) \in Seq(PackageChar)
  <2> DEFINE stripped == IF name # <<>> /\ Head(name) = "@" THEN Tail(name) ELSE name
  <2>1. stripped \in Seq(T)
    OBVIOUS
  <2> HIDE DEF stripped
  <2>2. PICK h : /\ h \in [0..Len(stripped) -> Seq(PackageChar)]
                 /\ h[Len(stripped)] = FoldLeft(NormalizedChar, <<>>, stripped)
    BY <2>1, NormalizingRuns
  <2>3. FoldLeft(NormalizedChar, <<>>, stripped) \in Seq(PackageChar)
    <3>1. Len(stripped) \in 0..Len(stripped)
      BY <2>1
    <3> QED
      BY <2>2, <3>1
  <2>4. NormalizedPackageName(name) = TrimmedOf(FoldLeft(NormalizedChar, <<>>, stripped), {"-"})
    BY DEF NormalizedPackageName, stripped
  <2> QED
    BY <2>3, <2>4, TrimmedKeeps
<1>2. ASSUME ValidPackageName(name) PROVE name \in Seq(PackageChar)
  <2>1. ToSet(name) \subseteq PackageChar
    BY <1>2 DEF ValidPackageName, PackageChar
  <2>2. \A i \in 1..Len(name) : name[i] \in PackageChar
    BY <2>1 DEF ToSet
  <2>3. Len(name) \in Nat /\ name = [i \in 1..Len(name) |-> name[i]]
    OBVIOUS
  <2> HIDE DEF PackageChar
  <2>4. [i \in 1..Len(name) |-> name[i]] \in [1..Len(name) -> PackageChar]
    BY <2>2
  <2> QED
    BY <2>3, <2>4
<1> QED
  BY <1>1, <1>2

(* A package's name will do for its command (resolve.rs:423).                *)
LEMMA PackageNamesAreCommands ==
    ASSUME NEW name \in Seq(PackageChar), ValidPackageName(name)
    PROVE  ValidExecutableName(name)
<1>1. Len(name) >= 2 /\ name # <<>> /\ name[1] \in Lower \cup Digit
  BY EmptySeq DEF ValidPackageName
<1>2. ToSet(name) \subseteq PathChar
  BY CharsOf DEF PackageChar, PathChar
<1>3. name \notin Dots
  <2>1. "." \notin Lower \cup Digit
    BY DEF Lower, Digit
  <2>2. \A dots \in Dots : dots[1] = "."
    BY DEF Dots
  <2> QED
    BY <1>1, <2>1, <2>2
<1> QED
  BY <1>1, <1>2, <1>3 DEF ValidExecutableName

-----------------------------------------------------------------------------
(* Versions.                                                                 *)

(* A part of a version.                                                      *)
LEMMA PartOf ==
    ASSUME NEW T, NEW version \in Seq(T), NEW m \in Nat \ {0}, NEW n \in Int, n <= Len(version)
    PROVE  /\ SubSeq(version, m, n) \in Seq(T)
           /\ Len(SubSeq(version, m, n)) = IF m <= n THEN n - m + 1 ELSE 0
           /\ \A i \in 1..n - m + 1 : SubSeq(version, m, n)[i] = version[m + i - 1]
<1>1. \A i \in m..n : version[i] \in T
  OBVIOUS
<1> QED
  BY <1>1, SubSeqProperties

UpstreamChar == Number \cup Word \cup {".", "+", "~"}

(* Identifiers are rewritten in an upstream version's characters.            *)
LEMMA RewrittenIsUpstream ==
    ASSUME NEW T, NEW part \in Seq(T), part # <<>> => IsIdentifiers(part)
    PROVE  Rewritten(part) \in Seq(UpstreamChar) /\ (Rewritten(part) = <<>> <=> part = <<>>)
<1>1. DOMAIN part = 1..Len(part) /\ Len(part) \in Nat
  OBVIOUS
<1>2. ASSUME NEW i \in 1..Len(part)
      PROVE  (IF part[i] = "-" THEN "." ELSE part[i]) \in UpstreamChar
  <2>1. part # <<>>
    BY <1>1, EmptySeq
  <2>2. part[i] \in Number \cup Word \cup {"-", "."}
    BY <1>1, <2>1 DEF IsIdentifiers
  <2> QED
    BY <2>2 DEF UpstreamChar
<1>3. Rewritten(part) \in [1..Len(part) -> UpstreamChar]
  <2> HIDE DEF UpstreamChar
  <2> QED
    BY <1>1, <1>2 DEF Rewritten
<1>4. Rewritten(part) \in Seq(UpstreamChar) /\ Len(Rewritten(part)) = Len(part)
  BY <1>1, <1>3
<1> QED
  BY <1>1, <1>4, EmptySeq

(* An upstream version stays one with a separator and more of them behind.   *)
LEMMA JoinedIsUpstream ==
    ASSUME NEW start \in Seq(UpstreamChar), start # <<>>, start[1] \in Number,
           NEW mark \in UpstreamChar, NEW rest \in Seq(UpstreamChar)
    PROVE  LET joined == start \o (IF rest = <<>> THEN <<>> ELSE <<mark>> \o rest)
           IN  joined \in Seq(UpstreamChar) /\ joined # <<>> /\ joined[1] \in Number
<1> DEFINE more == IF rest = <<>> THEN <<>> ELSE <<mark>> \o rest
<1>1. more \in Seq(UpstreamChar)
  <2>1. <<mark>> \in Seq(UpstreamChar) /\ <<>> \in Seq(UpstreamChar)
    BY EmptySeq
  <2>2. <<mark>> \o rest \in Seq(UpstreamChar)
    BY <2>1
  <2> QED
    BY <2>1, <2>2
<1> HIDE DEF more
<1>2. Len(start) > 0
  OBVIOUS
<1>3. /\ start \o more \in Seq(UpstreamChar) /\ Len(start \o more) > 0
      /\ (start \o more)[1] = start[1]
  BY <1>1, <1>2
<1>4. start \o more # <<>>
  BY <1>3, EmptySeq
<1> QED
  BY <1>3, <1>4 DEF more

(* "Mapping is total" (version.rs:99): the mapping of a semantic version is  *)
(* valid upstream, and what is none is taken as it is only if it is valid.   *)
THEOREM MappedVersionsAreValid ==
    ASSUME NEW T, NEW version \in Seq(T), IsSpec(version)
    PROVE  ValidUpstream(MappedBase(version))
<1>1. CASE ~IsSemver(version)
  BY <1>1 DEF IsSpec, MappedBase
<1>2. CASE IsSemver(version)
  <2> DEFINE pre == Pre(version)
             build == Build(version)
             core == Core(version)
             at == BuildAt(version)
  <2>1. Len(version) \in Nat /\ Len(version) >= 5 /\ DOMAIN version = 1..Len(version)
    BY <1>2 DEF IsSemver
  <2>2. at \in 1..Len(version) + 1
    <3>1. Plus(version) \subseteq 1..Len(version)
      BY <2>1 DEF Plus
    <3>2. Plus(version) # {} => Min(Plus(version)) \in Plus(version)
      BY <3>1, LeastOf
    <3> QED
      BY <2>1, <3>1, <3>2 DEF BuildAt
  <2> HIDE DEF at
  <2>3. pre \in Seq(T) /\ (pre # <<>> => IsIdentifiers(pre))
    <3>1. pre = SubSeq(version, 7, at - 1) /\ at - 1 \in Int /\ at - 1 <= Len(version)
      BY <2>1, <2>2 DEF Pre, at
    <3>2. pre \in Seq(T) /\ Len(pre) = IF 7 <= at - 1 THEN at - 1 - 7 + 1 ELSE 0
      BY <3>1, PartOf
    <3>3. at = 6 => pre = <<>>
      <4> HIDE DEF pre
      <4> QED
        BY <3>2, EmptySeq
    <3>4. at = 6 \/ IsIdentifiers(pre)
      BY <1>2 DEF IsSemver, at
    <3> QED
      BY <3>2, <3>3, <3>4
  <2>4. build \in Seq(T) /\ (build # <<>> => IsIdentifiers(build))
    <3>1. build = SubSeq(version, at + 1, Len(version)) /\ at + 1 \in Nat \ {0}
      BY <2>1, <2>2 DEF Build, at
    <3>2. at <= Len(version) => IsIdentifiers(build)
      BY <1>2 DEF IsSemver, at
    <3> HIDE DEF build
    <3>3. build \in Seq(T) /\ (at + 1 > Len(version) => Len(build) = 0)
      BY <2>1, <3>1, PartOf
    <3>4. CASE at <= Len(version)
      BY <3>2, <3>3, <3>4
    <3>5. CASE at > Len(version)
      <4>1. Len(build) = 0
        BY <2>1, <2>2, <3>3, <3>5
      <4> QED
        BY <3>3, <4>1, EmptySeq
    <3> QED
      BY <2>1, <2>2, <3>4, <3>5
  <2>5. core \in Seq(UpstreamChar) /\ core # <<>> /\ core[1] \in Number
    <3>1. core = SubSeq(version, 1, 5)
      BY DEF Core
    <3>2. \A i \in 1..5 : version[i] \in UpstreamChar
      <4>1. version[1] \in Number /\ version[3] \in Number /\ version[5] \in Number
            /\ version[2] = "." /\ version[4] = "."
        BY <1>2 DEF IsSemver
      <4>2. Number \subseteq UpstreamChar /\ "." \in UpstreamChar
        BY DEF UpstreamChar
      <4>3. \A i \in 1..5 : i \in {1, 2, 3, 4, 5}
        OBVIOUS
      <4> QED
        BY <4>1, <4>2, <4>3
    <3>3. /\ SubSeq(version, 1, 5) \in Seq(UpstreamChar) /\ Len(SubSeq(version, 1, 5)) = 5
          /\ \A i \in 1..5 : SubSeq(version, 1, 5)[i] = version[i]
      <4>1. /\ SubSeq(version, 1, 5) \in Seq(UpstreamChar)
            /\ Len(SubSeq(version, 1, 5)) = IF 1 <= 5 THEN 5 - 1 + 1 ELSE 0
            /\ \A i \in 1..5 - 1 + 1 : SubSeq(version, 1, 5)[i] = version[1 + i - 1]
        BY <3>2, SubSeqProperties
      <4> QED
        BY <4>1
    <3>4. version[1] \in Number
      BY <1>2 DEF IsSemver
    <3>5. 1 \in 1..5 /\ 5 # 0
      OBVIOUS
    <3>6. SubSeq(version, 1, 5)[1] = version[1] /\ SubSeq(version, 1, 5) # <<>>
      BY <3>3, <3>5, EmptySeq
    <3> QED
      BY <3>1, <3>3, <3>4, <3>6
  <2> HIDE DEF pre, build, core
  <2>6. /\ Rewritten(pre) \in Seq(UpstreamChar) /\ (Rewritten(pre) = <<>> <=> pre = <<>>)
        /\ Rewritten(build) \in Seq(UpstreamChar) /\ (Rewritten(build) = <<>> <=> build = <<>>)
    BY <2>3, <2>4, RewrittenIsUpstream
  <2> DEFINE early == IF Rewritten(pre) = <<>> THEN <<>> ELSE <<"~">> \o Rewritten(pre)
             late  == IF Rewritten(build) = <<>> THEN <<>> ELSE <<"+">> \o Rewritten(build)
  <2>7. {"~", "+"} \subseteq UpstreamChar
    BY DEF UpstreamChar
  <2>8. core \o early \in Seq(UpstreamChar) /\ core \o early # <<>> /\ (core \o early)[1] \in Number
    BY <2>5, <2>6, <2>7, JoinedIsUpstream
  <2> DEFINE start == core \o early
  <2> HIDE DEF start
  <2>9. start \o late \in Seq(UpstreamChar) /\ start \o late # <<>> /\ (start \o late)[1] \in Number
    <3>1. start \in Seq(UpstreamChar) /\ start # <<>> /\ start[1] \in Number
      BY <2>8 DEF start
    <3> QED
      BY <2>6, <2>7, <3>1, JoinedIsUpstream
  <2>10. MappedBase(version) = (core \o early) \o late
    BY <1>2, <2>6 DEF MappedBase, MapSemver, pre, build, core
  <2>11. ToSet(MappedBase(version)) \subseteq UpstreamChar
    BY <2>9, <2>10, CharsOf DEF start
  <2> QED
    BY <2>9, <2>10, <2>11 DEF ValidUpstream, UpstreamChar, start
<1> QED
  BY <1>1, <1>2

-----------------------------------------------------------------------------
(* Paths.                                                                    *)

PartsOf(T) == Seq(Seq(T)) \ {<<>>}

(* What a token does to the parts so far: it starts a new one, or it goes to *)
(* the end of the last.                                                      *)
LEMMA PartedKeeps ==
    ASSUME NEW T, NEW parts \in PartsOf(T), NEW token \in T, NEW separator
    PROVE  /\ Parted(parts, token, separator) \in PartsOf(T)
           /\ token = separator => Parted(parts, token, separator) = Append(parts, <<>>)
           /\ token # separator =>
                 LET after == Parted(parts, token, separator)
                 IN  /\ Len(after) = Len(parts)
                     /\ after[Len(parts)] = Append(parts[Len(parts)], token)
                     /\ \A i \in 1..Len(parts) - 1 : after[i] = parts[i]
<1>1. parts \in Seq(Seq(T)) /\ Len(parts) \in 1..Len(parts) /\ <<>> \in Seq(T)
  BY EmptySeq DEF PartsOf
<1>2. CASE token = separator
  <2>1. Parted(parts, token, separator) = Append(parts, <<>>)
    BY <1>2 DEF Parted
  <2>2. Append(parts, <<>>) \in Seq(Seq(T)) /\ Len(Append(parts, <<>>)) = Len(parts) + 1
    BY <1>1
  <2>3. Append(parts, <<>>) # <<>>
    BY <1>1, <2>2, EmptySeq
  <2> QED
    BY <1>2, <2>1, <2>2, <2>3 DEF PartsOf
<1>3. CASE token # separator
  <2> DEFINE after == [parts EXCEPT ![Len(parts)] = Append(@, token)]
  <2>1. Parted(parts, token, separator) = after
    BY <1>3 DEF Parted
  <2>2. parts[Len(parts)] \in Seq(T)
    BY <1>1
  <2>3. Append(parts[Len(parts)], token) \in Seq(T)
    BY <2>2
  <2>4. after \in Seq(Seq(T)) /\ Len(after) = Len(parts)
    BY <1>1, <2>3
  <2>5. /\ after[Len(parts)] = Append(parts[Len(parts)], token)
        /\ \A i \in 1..Len(parts) - 1 : after[i] = parts[i]
    BY <1>1
  <2>6. after # <<>>
    BY <1>1, <2>4, EmptySeq
  <2> HIDE DEF after
  <2> QED
    BY <1>3, <2>1, <2>4, <2>5, <2>6 DEF PartsOf
<1> QED
  BY <1>2, <1>3

Splits(h, source, separator, T) ==
    /\ h \in [0..Len(source) -> PartsOf(T)] /\ h[0] = << <<>> >>
    /\ \A m \in 1..Len(source) : h[m] = Parted(h[m - 1], source[m], separator)
    /\ h[Len(source)] = Split(source, separator)

(* A text is split token by token,                                           *)
LEMMA SplittingRuns ==
    ASSUME NEW T, NEW source \in Seq(T), NEW separator
    PROVE  \E h : Splits(h, source, separator, T)
<1> DEFINE S == PartsOf(T)
           g == [p \in S \X T |-> Parted(p[1], p[2], separator)]
           written(f, s) == IF s = {} THEN << <<>> >>
                            ELSE Parted(f[s \ {Max(s)}], source[Max(s)], separator)
           Fits(f) == f = [s \in SUBSET DOMAIN source |-> written(f, s)]
           chosen == CHOOSE f : Fits(f)
           start == << <<>> >>
<1>1. start \in S
  <2>1. <<>> \in Seq(T)
    BY EmptySeq
  <2>2. << <<>> >> \in Seq(Seq(T)) /\ Len(<< <<>> >>) = 1
    BY <2>1
  <2>3. << <<>> >> # <<>>
    BY <2>2, EmptySeq
  <2> QED
    BY <2>2, <2>3 DEF PartsOf, start
<1>2. \A out \in S, c \in T : Parted(out, c, separator) \in S
  BY PartedKeeps
<1>3. g \in [S \X T -> S] /\ \A out \in S, c \in T : g[out, c] = Parted(out, c, separator)
  <2> HIDE DEF S
  <2> QED
    BY <1>2
<1>4. DOMAIN source = 1..Len(source) /\ Len(source) \in Nat
  OBVIOUS
<1>5. ASSUME NEW s \in SUBSET DOMAIN source, s # {}
      PROVE  Max(s) \in s /\ s \ {Max(s)} \in SUBSET DOMAIN source /\ source[Max(s)] \in T
  <2>1. Max(s) \in s
    BY <1>4, <1>5, LastOf
  <2>2. Max(s) \in 1..Len(source)
    BY <1>4, <2>1
  <2> QED
    BY <2>1, <2>2
<1> HIDE DEF S, g, start
<1>6. PICK f \in [SUBSET DOMAIN source -> S] : Solves(f, g, start, source)
  BY <1>1, <1>3, FoldsHaveValues
<1>7. Fits(f)
  <2>1. \A s \in SUBSET DOMAIN source :
           f[s] = IF s = {} THEN start ELSE g[f[s \ {Max(s)}], source[Max(s)]]
    BY <1>6 DEF Solves
  <2>2. ASSUME NEW s \in SUBSET DOMAIN source PROVE f[s] = written(f, s)
    <3>1. CASE s = {}
      BY <2>1, <3>1 DEF start
    <3>2. CASE s # {}
      BY <1>3, <1>5, <2>1, <3>2
    <3> QED
      BY <3>1, <3>2
  <2>3. f = [s \in SUBSET DOMAIN source |-> f[s]]
    OBVIOUS
  <2> HIDE DEF written
  <2> QED
    BY <2>2, <2>3
<1> HIDE DEF Fits
<1>8. Fits(chosen)
  BY <1>7
<1>9. Split(source, separator) = chosen[DOMAIN source]
  BY DEF Split, FoldLeft, MapThenFoldSet, Fits, written
<1> HIDE DEF chosen
<1>10. Follows(chosen, g, start, source, S)
  <2>1. \A s \in SUBSET DOMAIN source : chosen[s] = written(chosen, s)
    <3> HIDE DEF written
    <3> QED
      BY <1>8 DEF Fits
  <2>2. chosen[{}] = start
    BY <2>1 DEF start
  <2>3. ASSUME NEW s \in SUBSET DOMAIN source, s # {}, chosen[s \ {Max(s)}] \in S
        PROVE  chosen[s] = g[chosen[s \ {Max(s)}], source[Max(s)]]
    BY <1>3, <1>5, <2>1, <2>3
  <2> QED
    BY <2>2, <2>3 DEF Follows
<1>11. Reaches(chosen, g, start, source, S)
  BY <1>1, <1>3, <1>10, FoldsRun
<1>12. PICK h : Runs(h, g, start, source, S) /\ h[Len(source)] = chosen[DOMAIN source]
  BY <1>11 DEF Reaches
<1>13. h \in [0..Len(source) -> S] /\ h[0] = start
  BY <1>12 DEF Runs
<1>14. ASSUME NEW m \in 1..Len(source) PROVE h[m] = Parted(h[m - 1], source[m], separator)
  <2>1. h[m] = g[h[m - 1], source[m]]
    BY <1>12 DEF Runs
  <2>2. h[m - 1] \in S /\ source[m] \in T
    BY <1>4, <1>13
  <2> QED
    BY <1>3, <2>1, <2>2
<1> QED
  BY <1>9, <1>12, <1>13, <1>14 DEF S, start, Splits

Leaves(h, source, unwanted, T) ==
    /\ h \in [0..Len(source) -> Seq(T)] /\ h[0] = <<>>
    /\ \A m \in 1..Len(source) : h[m] = Retained(h[m - 1], source[m], unwanted)
    /\ h[Len(source)] = Remaining(source, unwanted)

(* and parts are left out one by one.                                        *)
LEMMA RemainingRuns ==
    ASSUME NEW T, NEW source \in Seq(T), NEW unwanted
    PROVE  \E h : Leaves(h, source, unwanted, T)
<1> DEFINE S == Seq(T)
           g == [p \in S \X T |-> Retained(p[1], p[2], unwanted)]
           written(f, s) == IF s = {} THEN <<>>
                            ELSE Retained(f[s \ {Max(s)}], source[Max(s)], unwanted)
           Fits(f) == f = [s \in SUBSET DOMAIN source |-> written(f, s)]
           chosen == CHOOSE f : Fits(f)
           start == <<>>
<1>1. start \in S
  BY EmptySeq DEF start
<1>2. \A out \in S, c \in T : Retained(out, c, unwanted) \in S
  BY DEF Retained
<1>3. g \in [S \X T -> S] /\ \A out \in S, c \in T : g[out, c] = Retained(out, c, unwanted)
  <2> HIDE DEF S
  <2> QED
    BY <1>2
<1>4. DOMAIN source = 1..Len(source) /\ Len(source) \in Nat
  OBVIOUS
<1>5. ASSUME NEW s \in SUBSET DOMAIN source, s # {}
      PROVE  Max(s) \in s /\ s \ {Max(s)} \in SUBSET DOMAIN source /\ source[Max(s)] \in T
  <2>1. Max(s) \in s
    BY <1>4, <1>5, LastOf
  <2>2. Max(s) \in 1..Len(source)
    BY <1>4, <2>1
  <2> QED
    BY <2>1, <2>2
<1> HIDE DEF S, g, start
<1>6. PICK f \in [SUBSET DOMAIN source -> S] : Solves(f, g, start, source)
  BY <1>1, <1>3, FoldsHaveValues
<1>7. Fits(f)
  <2>1. \A s \in SUBSET DOMAIN source :
           f[s] = IF s = {} THEN start ELSE g[f[s \ {Max(s)}], source[Max(s)]]
    BY <1>6 DEF Solves
  <2>2. ASSUME NEW s \in SUBSET DOMAIN source PROVE f[s] = written(f, s)
    <3>1. CASE s = {}
      BY <2>1, <3>1 DEF start
    <3>2. CASE s # {}
      BY <1>3, <1>5, <2>1, <3>2
    <3> QED
      BY <3>1, <3>2
  <2>3. f = [s \in SUBSET DOMAIN source |-> f[s]]
    OBVIOUS
  <2> HIDE DEF written
  <2> QED
    BY <2>2, <2>3
<1> HIDE DEF Fits
<1>8. Fits(chosen)
  BY <1>7
<1>9. Remaining(source, unwanted) = chosen[DOMAIN source]
  BY DEF Remaining, FoldLeft, MapThenFoldSet, Fits, written
<1> HIDE DEF chosen
<1>10. Follows(chosen, g, start, source, S)
  <2>1. \A s \in SUBSET DOMAIN source : chosen[s] = written(chosen, s)
    <3> HIDE DEF written
    <3> QED
      BY <1>8 DEF Fits
  <2>2. chosen[{}] = start
    BY <2>1 DEF start
  <2>3. ASSUME NEW s \in SUBSET DOMAIN source, s # {}, chosen[s \ {Max(s)}] \in S
        PROVE  chosen[s] = g[chosen[s \ {Max(s)}], source[Max(s)]]
    BY <1>3, <1>5, <2>1, <2>3
  <2> QED
    BY <2>2, <2>3 DEF Follows
<1>11. Reaches(chosen, g, start, source, S)
  BY <1>1, <1>3, <1>10, FoldsRun
<1>12. PICK h : Runs(h, g, start, source, S) /\ h[Len(source)] = chosen[DOMAIN source]
  BY <1>11 DEF Reaches
<1>13. h \in [0..Len(source) -> S] /\ h[0] = start
  BY <1>12 DEF Runs
<1>14. ASSUME NEW m \in 1..Len(source) PROVE h[m] = Retained(h[m - 1], source[m], unwanted)
  <2>1. h[m] = g[h[m - 1], source[m]]
    BY <1>12 DEF Runs
  <2>2. h[m - 1] \in S /\ source[m] \in T
    BY <1>4, <1>13
  <2> QED
    BY <1>3, <2>1, <2>2
<1> QED
  BY <1>9, <1>12, <1>13, <1>14 DEF S, start, Leaves

(* The directory a run takes without being told one is valid (resolve.rs,    *)
(* resolve_placement), whatever the package's name stands for in it.         *)
LEMMA DefaultDirIsValid == ValidInstallDir(<<"/", "u">>)
<1> DEFINE path == <<"/", "u">>
           T == {"/", "u"}
           parts == Split(path, "/")
           segments == Segments(path)
           word == Append(<<>>, "u")
<1>1. path \in Seq(T) /\ Len(path) = 2 /\ path[1] = "/" /\ path[2] = "u" /\ Head(path) = "/"
  OBVIOUS
<1>2. word \in Seq(T) /\ Len(word) = 1 /\ word[1] = "u" /\ word # <<>>
  <2>1. <<>> \in Seq(T) /\ Len(<<>>) = 0
    BY EmptySeq
  <2>2. Append(<<>>, "u") \in Seq(T) /\ Len(Append(<<>>, "u")) = 1 /\ Append(<<>>, "u")[1] = "u"
    BY <2>1
  <2> QED
    BY <2>1, <2>2
<1>3. path # <<>>
  BY <1>1, EmptySeq
<1>0. "/" \in T /\ "u" \in T
  OBVIOUS
<1> HIDE DEF path, word, T
<1>4. parts \in Seq(Seq(T)) /\ Len(parts) = 2 /\ parts[1] = <<>> /\ parts[2] = word
  <2>1. PICK h : /\ h \in [0..Len(path) -> PartsOf(T)] /\ h[0] = << <<>> >>
                 /\ \A m \in 1..Len(path) : h[m] = Parted(h[m - 1], path[m], "/")
                 /\ h[Len(path)] = parts
    <3>1. \E h : Splits(h, path, "/", T)
      BY <1>1, SplittingRuns
    <3> QED
      BY <3>1 DEF Splits
  <2>2. h[1] = Parted(h[0], "/", "/") /\ h[2] = Parted(h[1], "u", "/") /\ h[2] = parts
    <3>1. 1 \in 1..Len(path) /\ 2 \in 1..Len(path) /\ 1 - 1 = 0 /\ 2 - 1 = 1
      BY <1>1
    <3> QED
      BY <1>1, <2>1, <3>1
  <2>3. h[0] \in PartsOf(T) /\ h[1] \in PartsOf(T)
    BY <1>1, <2>1
  <2>4. h[1] = Append(h[0], <<>>)
    BY <1>0, <2>2, <2>3, PartedKeeps
  <2>5. Len(h[1]) = 2 /\ h[1][1] = <<>> /\ h[1][2] = <<>>
    <3>1. Len(h[0]) = 1 /\ h[0][1] = <<>>
      BY <2>1
    <3>2. h[0] \in Seq(Seq(T)) /\ <<>> \in Seq(T)
      BY <2>3, EmptySeq DEF PartsOf
    <3>3. h[0] \in Seq(Seq(T)) => /\ Len(Append(h[0], <<>>)) = Len(h[0]) + 1
                                  /\ Append(h[0], <<>>)[Len(h[0]) + 1] = <<>>
                                  /\ \A i \in 1..Len(h[0]) : Append(h[0], <<>>)[i] = h[0][i]
      BY <3>2
    <3>4. 1 \in 1..1
      OBVIOUS
    <3> QED
      BY <2>4, <3>1, <3>2, <3>3, <3>4
  <2>6. /\ Len(parts) = Len(h[1]) /\ parts[Len(h[1])] = Append(h[1][Len(h[1])], "u")
        /\ \A i \in 1..Len(h[1]) - 1 : parts[i] = h[1][i]
    <3>1. "u" # "/"
      OBVIOUS
    <3>2. parts = Parted(h[1], "u", "/")
      BY <2>2
    <3> HIDE DEF parts
    <3> QED
      BY <1>0, <2>3, <3>1, <3>2, PartedKeeps
  <2>7. parts \in PartsOf(T)
    BY <1>1, <2>1
  <2> HIDE DEF parts
  <2>8. 1 \in 1..2 - 1
    OBVIOUS
  <2> QED
    BY <2>5, <2>6, <2>7, <2>8 DEF PartsOf, word
<1> HIDE DEF parts
<1>5. Len(segments) = 1 /\ segments[1] = word /\ segments \in Seq(Seq(T))
  <2>1. segments = Remaining(parts, {<<>>})
    BY DEF Segments, parts
  <2>2. PICK k : /\ k \in [0..Len(parts) -> Seq(Seq(T))] /\ k[0] = <<>>
                 /\ \A m \in 1..Len(parts) : k[m] = Retained(k[m - 1], parts[m], {<<>>})
                 /\ k[Len(parts)] = segments
    <3>1. \E k : Leaves(k, parts, {<<>>}, Seq(T))
      BY <1>4, RemainingRuns
    <3> QED
      BY <2>1, <3>1 DEF Leaves
  <2>3. k[1] = Retained(k[0], <<>>, {<<>>}) /\ k[2] = Retained(k[1], word, {<<>>}) /\ k[2] = segments
    <3>1. 1 \in 1..Len(parts) /\ 2 \in 1..Len(parts) /\ 1 - 1 = 0 /\ 2 - 1 = 1
      BY <1>4
    <3> QED
      BY <1>4, <2>2, <3>1
  <2>4. segments = Append(<<>>, word)
    BY <1>2, <2>2, <2>3 DEF Retained
  <2>5. <<>> \in Seq(Seq(T)) /\ Len(<<>>) = 0
    BY EmptySeq
  <2> QED
    BY <1>2, <2>4, <2>5
<1> HIDE DEF segments
<1>6. segments # <<>> /\ DOMAIN segments = {1}
  <2>1. DOMAIN segments = 1..Len(segments) /\ 1..1 = {1}
    BY <1>5
  <2>2. Len(<<>>) = 0
    BY EmptySeq
  <2>3. segments # <<>>
    <3>1. 0 # 1
      OBVIOUS
    <3> QED
      BY <1>5, <2>2, <3>1, Zenon
  <2> QED
    BY <1>5, <2>1, <2>3
<1>7. word \notin Dots
  <2>1. \A dots \in Dots : dots[1] = "."
    BY DEF Dots
  <2> QED
    BY <1>2, <2>1
<1>8. ToSet(word) \subseteq PathChar
  <2>1. DOMAIN word = {1}
    BY <1>2
  <2>2. "u" \in Lower
    BY DEF Lower
  <2>3. "u" \in PathChar
    BY <2>2 DEF PathChar
  <2> QED
    BY <1>2, <2>1, <2>3 DEF ToSet
<1>9. ValidInstallDir(path)
  BY <1>1, <1>3, <1>5, <1>6, <1>7, <1>8 DEF ValidInstallDir, segments
<1> QED
  BY <1>9 DEF path
-----------------------------------------------------------------------------
(* Paths that are put together again.                                        *)

(* Induction over the sequences of a set, for a set of them.                 *)
LEMMA EverySequence ==
    ASSUME NEW T, NEW P, <<>> \in P, \A s \in Seq(T), c \in T : s \in P => Append(s, c) \in P
    PROVE  Seq(T) \subseteq P
<1> DEFINE Q == {n \in Nat : \A s \in Seq(T) : Len(s) = n => s \in P}
<1>1. 0 \in Q
  BY EmptySeq
<1>2. ASSUME NEW n \in Nat, n \in Q PROVE n + 1 \in Q
  <2>1. ASSUME NEW s \in Seq(T), Len(s) = n + 1 PROVE s \in P
    <3>1. s # <<>>
      BY <2>1, EmptySeq
    <3>2. PICK r \in Seq(T), c \in T : s = Append(r, c)
      BY <3>1, SequenceEmptyOrAppend
    <3>3. Len(r) = n
      <4>1. Len(s) = Len(r) + 1 /\ Len(r) \in Nat
        BY <3>2, AppendProperties
      <4> QED
        BY <2>1, <4>1
    <3> QED
      BY <1>2, <3>2, <3>3
  <2> QED
    BY <2>1
<1>3. Nat \subseteq Q
  <2> HIDE DEF Q
  <2> QED
    BY <1>1, <1>2, EveryNatural
<1> QED
  BY <1>3, LenProperties

(* One more token is split off what there is so far.                         *)
LEMMA SplitGrows ==
    ASSUME NEW T, NEW text \in Seq(T), NEW token \in T, NEW separator
    PROVE  /\ Split(text, separator) \in PartsOf(T)
           /\ Split(Append(text, token), separator) = Parted(Split(text, separator), token, separator)
<1> DEFINE longer == Append(text, token)
           n      == Len(text)
<1>1. PICK h : Splits(h, text, separator, T)
  BY SplittingRuns
<1>2. longer \in Seq(T) /\ Len(longer) = n + 1 /\ n \in Nat /\ longer[n + 1] = token
      /\ \A i \in 1..n : longer[i] = text[i]
  BY AppendProperties
<1> HIDE DEF longer
<1>3. PICK k : Splits(k, longer, separator, T)
  BY <1>2, SplittingRuns
<1> DEFINE Same == {m \in Nat : m <= n => k[m] = h[m]}
<1>4. 0 \in Same
  BY <1>1, <1>3 DEF Splits
<1>5. ASSUME NEW m \in Nat, m \in Same PROVE m + 1 \in Same
  <2> SUFFICES ASSUME m + 1 <= n PROVE k[m + 1] = h[m + 1]
    OBVIOUS
  <2>1. m + 1 \in 1..n /\ m + 1 \in 1..n + 1 /\ (m + 1) - 1 = m
    BY <1>2
  <2>2. h[m + 1] = Parted(h[m], text[m + 1], separator)
    BY <1>1, <2>1 DEF Splits
  <2>3. k[m + 1] = Parted(k[m], longer[m + 1], separator)
    BY <1>2, <1>3, <2>1 DEF Splits
  <2> QED
    BY <1>2, <1>5, <2>1, <2>2, <2>3
<1>6. Nat \subseteq Same
  <2> HIDE DEF Same
  <2> QED
    BY <1>4, <1>5, EveryNatural
<1>7. k[n] = h[n] /\ h[n] = Split(text, separator) /\ h[n] \in PartsOf(T)
  <2>1. n \in 0..n
    BY <1>2
  <2> QED
    BY <1>1, <1>2, <1>6, <2>1 DEF Splits
<1>8. k[n + 1] = Parted(k[n], longer[n + 1], separator) /\ k[n + 1] = Split(longer, separator)
  <2>1. n + 1 \in 1..n + 1 /\ (n + 1) - 1 = n
    BY <1>2
  <2> QED
    BY <1>2, <1>3, <2>1 DEF Splits
<1> QED
  BY <1>2, <1>7, <1>8 DEF longer

(* Nothing is split into one part without a token.                           *)
LEMMA SplitNothing ==
    ASSUME NEW separator
    PROVE  Split(<<>>, separator) = << <<>> >>
<1>1. <<>> \in Seq({}) /\ Len(<<>>) = 0
  BY EmptySeq
<1>2. PICK h : Splits(h, <<>>, separator, {})
  BY <1>1, SplittingRuns
<1> QED
  BY <1>1, <1>2 DEF Splits

(* One more part is kept, or left out, after what there is so far.           *)
LEMMA RemainingGrows ==
    ASSUME NEW T, NEW parts \in Seq(T), NEW part \in T, NEW unwanted
    PROVE  /\ Remaining(parts, unwanted) \in Seq(T)
           /\ Remaining(Append(parts, part), unwanted)
                  = Retained(Remaining(parts, unwanted), part, unwanted)
<1> DEFINE longer == Append(parts, part)
           n      == Len(parts)
<1>1. PICK h : Leaves(h, parts, unwanted, T)
  BY RemainingRuns
<1>2. longer \in Seq(T) /\ Len(longer) = n + 1 /\ n \in Nat /\ longer[n + 1] = part
      /\ \A i \in 1..n : longer[i] = parts[i]
  BY AppendProperties
<1> HIDE DEF longer
<1>3. PICK k : Leaves(k, longer, unwanted, T)
  BY <1>2, RemainingRuns
<1> DEFINE Same == {m \in Nat : m <= n => k[m] = h[m]}
<1>4. 0 \in Same
  BY <1>1, <1>3 DEF Leaves
<1>5. ASSUME NEW m \in Nat, m \in Same PROVE m + 1 \in Same
  <2> SUFFICES ASSUME m + 1 <= n PROVE k[m + 1] = h[m + 1]
    OBVIOUS
  <2>1. m + 1 \in 1..n /\ m + 1 \in 1..n + 1 /\ (m + 1) - 1 = m
    BY <1>2
  <2>2. h[m + 1] = Retained(h[m], parts[m + 1], unwanted)
    BY <1>1, <2>1 DEF Leaves
  <2>3. k[m + 1] = Retained(k[m], longer[m + 1], unwanted)
    BY <1>2, <1>3, <2>1 DEF Leaves
  <2> QED
    BY <1>2, <1>5, <2>1, <2>2, <2>3
<1>6. Nat \subseteq Same
  <2> HIDE DEF Same
  <2> QED
    BY <1>4, <1>5, EveryNatural
<1>7. k[n] = h[n] /\ h[n] = Remaining(parts, unwanted) /\ h[n] \in Seq(T)
  <2>1. n \in 0..n
    BY <1>2
  <2> QED
    BY <1>1, <1>2, <1>6, <2>1 DEF Leaves
<1>8. k[n + 1] = Retained(k[n], longer[n + 1], unwanted) /\ k[n + 1] = Remaining(longer, unwanted)
  <2>1. n + 1 \in 1..n + 1 /\ (n + 1) - 1 = n
    BY <1>2
  <2> QED
    BY <1>2, <1>3, <2>1 DEF Leaves
<1> QED
  BY <1>2, <1>7, <1>8 DEF longer

(* Of no parts none remain.                                                  *)
LEMMA RemainingNothing ==
    ASSUME NEW unwanted
    PROVE  Remaining(<<>>, unwanted) = <<>>
<1>1. <<>> \in Seq({}) /\ Len(<<>>) = 0
  BY EmptySeq
<1>2. PICK h : Leaves(h, <<>>, unwanted, {})
  BY <1>1, RemainingRuns
<1> QED
  BY <1>1, <1>2 DEF Leaves

(* What remains is not unwanted.                                             *)
LEMMA RemainingIsWanted ==
    ASSUME NEW T, NEW parts \in Seq(T), NEW unwanted
    PROVE  Remaining(parts, unwanted) \in Seq(T \ unwanted)
<1> DEFINE P == {s \in Seq(T) : Remaining(s, unwanted) \in Seq(T \ unwanted)}
<1>1. <<>> \in P
  BY RemainingNothing, EmptySeq
<1>2. ASSUME NEW s \in Seq(T), NEW part \in T, s \in P PROVE Append(s, part) \in P
  <2>1. Remaining(Append(s, part), unwanted) = Retained(Remaining(s, unwanted), part, unwanted)
    BY RemainingGrows
  <2>2. Retained(Remaining(s, unwanted), part, unwanted) \in Seq(T \ unwanted)
    <3> DEFINE kept == Remaining(s, unwanted)
    <3>1. kept \in Seq(T \ unwanted)
      BY <1>2
    <3> HIDE DEF kept
    <3>2. Retained(kept, part, unwanted) \in Seq(T \ unwanted)
      BY <3>1, AppendProperties DEF Retained
    <3> QED
      BY <3>2 DEF kept
  <2>3. Append(s, part) \in Seq(T)
    BY AppendProperties
  <2> QED
    BY <2>1, <2>2, <2>3
<1> HIDE DEF P
<1>3. Seq(T) \subseteq P
  BY <1>1, <1>2, EverySequence
<1> QED
  BY <1>3 DEF P

(* What is appended to the second of two sequences is appended to both.      *)
LEMMA AppendedLast ==
    ASSUME NEW T, NEW first \in Seq(T), NEW second \in Seq(T), NEW elt \in T
    PROVE  /\ first \o second \in Seq(T)
           /\ first \o Append(second, elt) = Append(first \o second, elt)
<1> DEFINE both   == first \o second
           longer == Append(second, elt)
           one    == first \o longer
           other  == Append(both, elt)
           m      == Len(first)
           n      == Len(second)
<1>1. both \in Seq(T) /\ Len(both) = m + n /\ m \in Nat /\ n \in Nat
      /\ \A i \in 1..m + n : both[i] = IF i <= m THEN first[i] ELSE second[i - m]
  BY ConcatProperties, LenProperties
<1>2. longer \in Seq(T) /\ Len(longer) = n + 1 /\ longer[n + 1] = elt
      /\ \A i \in 1..n : longer[i] = second[i]
  BY AppendProperties
<1> HIDE DEF both, longer
<1>3. one \in Seq(T) /\ Len(one) = m + (n + 1)
      /\ \A i \in 1..m + (n + 1) : one[i] = IF i <= m THEN first[i] ELSE longer[i - m]
  <2>1. /\ one \in Seq(T) /\ Len(one) = Len(first) + Len(longer)
        /\ \A i \in 1..Len(first) + Len(longer) :
              one[i] = IF i <= Len(first) THEN first[i] ELSE longer[i - Len(first)]
    BY ONLY <1>2, ConcatProperties, first \in Seq(T)
  <2> HIDE DEF one
  <2> QED
    BY <1>2, <2>1
<1>4. other \in Seq(T) /\ Len(other) = (m + n) + 1 /\ other[(m + n) + 1] = elt
      /\ \A i \in 1..m + n : other[i] = both[i]
  BY <1>1, AppendProperties
<1> HIDE DEF one, other
<1>5. ASSUME NEW i \in 1..m + n + 1 PROVE one[i] = other[i]
  <2>1. CASE i <= m
    <3>1. i \in 1..m + n /\ i \in 1..m + (n + 1)
      BY <1>1, <2>1
    <3> QED
      BY <1>1, <1>3, <1>4, <2>1, <3>1
  <2>2. CASE i > m /\ i <= m + n
    <3>1. i - m \in 1..n /\ i \in 1..m + n /\ i \in 1..m + (n + 1) /\ ~(i <= m)
      BY <1>1, <2>2
    <3> QED
      BY <1>1, <1>2, <1>3, <1>4, <3>1
  <2>3. CASE i = m + n + 1
    <3>1. i - m = n + 1 /\ ~(i <= m) /\ i \in 1..m + (n + 1) /\ (m + n) + 1 = i
      BY <1>1, <2>3
    <3> QED
      BY <1>2, <1>3, <1>4, <3>1
  <2> QED
    BY <1>1, <2>1, <2>2, <2>3
<1>6. one = other
  <2>1. Len(one) = Len(other) /\ Len(one) = m + n + 1
    BY <1>1, <1>3, <1>4
  <2>2. \A i \in 1..Len(one) : one[i] = other[i]
    BY <1>5, <2>1
  <2> QED
    BY <1>3, <1>4, <2>1, <2>2, SeqEqual
<1> QED
  BY <1>1, <1>6 DEF one, other, both, longer

(* A word after a separator is a part of its own.                            *)
LEMMA SplitAddsAPart ==
    ASSUME NEW T, NEW text \in Seq(T), NEW separator \in T, NEW word \in Seq(T \ {separator})
    PROVE  /\ Append(text, separator) \o word \in Seq(T)
           /\ Split(Append(text, separator) \o word, separator)
                  = Append(Split(text, separator), word)
<1> DEFINE start == Append(text, separator)
           parts == Split(text, separator)
           Q(w)  == Split(start \o w, separator) = Append(parts, w)
           P     == {w \in Seq(T \ {separator}) : Q(w)}
<1>1. start \in Seq(T) /\ parts \in PartsOf(T) /\ parts \in Seq(Seq(T))
      /\ Split(start, separator) = Parted(parts, separator, separator)
  BY SplitGrows, AppendProperties DEF PartsOf
<1> HIDE DEF start, parts
<1>2. <<>> \in P
  <2>1. Parted(parts, separator, separator) = Append(parts, <<>>)
    BY DEF Parted
  <2>2. start \o <<>> = start
    BY <1>1, ConcatEmptySeq
  <2>3. <<>> \in Seq(T \ {separator})
    BY EmptySeq
  <2> QED
    BY <1>1, <2>1, <2>2, <2>3
<1>3. ASSUME NEW w \in Seq(T \ {separator}), NEW c \in T \ {separator}, w \in P
      PROVE  Append(w, c) \in P
  <2>1. w \in Seq(T) /\ Append(w, c) \in Seq(T \ {separator}) /\ Append(w, c) = w \o <<c>>
    BY SeqMonotonic, AppendProperties, AppendIsConcat
  <2>2. start \o Append(w, c) = Append(start \o w, c) /\ start \o w \in Seq(T)
    BY <1>1, <2>1, AppendedLast
  <2>3. Split(start \o Append(w, c), separator) = Parted(Append(parts, w), c, separator)
    <3> DEFINE long == start \o w
    <3>1. long \in Seq(T) /\ Split(long, separator) = Append(parts, w)
      BY <1>3, <2>2
    <3>2. start \o Append(w, c) = Append(long, c)
      BY <2>2
    <3> HIDE DEF long
    <3>3. Split(Append(long, c), separator) = Parted(Split(long, separator), c, separator)
      <4>1. \A x \in Seq(T), d \in T :
                Split(Append(x, d), separator) = Parted(Split(x, separator), d, separator)
        BY ONLY SplitGrows
      <4> QED
        BY ONLY <3>1, <4>1, c \in T
    <3> QED
      BY <3>1, <3>2, <3>3
  <2>4. Parted(Append(parts, w), c, separator) = Append(parts, Append(w, c))
    <3> DEFINE before == Append(parts, w)
               after  == [before EXCEPT ![Len(before)] = Append(@, c)]
               aim    == Append(parts, Append(w, c))
               n      == Len(parts)
    <3>1. Parted(before, c, separator) = after
      BY DEF Parted
    <3>2. Append(w, c) \in Seq(T)
      BY <2>1, AppendProperties
    <3>3. /\ before \in Seq(Seq(T)) /\ Len(before) = n + 1 /\ n \in Nat
          /\ before[n + 1] = w /\ \A i \in 1..n : before[i] = parts[i]
      BY <1>1, <2>1, AppendProperties
    <3>4. /\ aim \in Seq(Seq(T)) /\ Len(aim) = n + 1
          /\ aim[n + 1] = Append(w, c) /\ \A i \in 1..n : aim[i] = parts[i]
      BY <1>1, <3>2, AppendProperties
    <3> HIDE DEF before, aim
    <3>5. /\ after \in Seq(Seq(T)) /\ Len(after) = n + 1
          /\ after[n + 1] = Append(w, c) /\ \A i \in 1..n : after[i] = before[i]
      <4>1. n + 1 \in 1..Len(before) /\ after = [before EXCEPT ![n + 1] = Append(w, c)]
        <5>1. Len(before) = n + 1 /\ before[Len(before)] = w /\ n + 1 \in 1..(n + 1)
          BY <3>3
        <5> QED
          BY <5>1
      <4>2. /\ [before EXCEPT ![n + 1] = Append(w, c)] \in Seq(Seq(T))
            /\ Len([before EXCEPT ![n + 1] = Append(w, c)]) = Len(before)
            /\ \A j \in 1..Len(before) : [before EXCEPT ![n + 1] = Append(w, c)][j]
                                             = IF j = n + 1 THEN Append(w, c) ELSE before[j]
        BY <3>2, <3>3, <4>1, ExceptSeq
      <4> QED
        BY <3>3, <4>1, <4>2
    <3> HIDE DEF after
    <3>6. \A i \in 1..n + 1 : after[i] = aim[i]
      <4>1. \A i \in 1..n + 1 : i \in 1..n \/ i = n + 1
        BY <3>3
      <4> QED
        BY <3>3, <3>4, <3>5, <4>1
    <3>7. after = aim
      BY <3>4, <3>5, <3>6, SeqEqual
    <3> QED
      BY <3>1, <3>7 DEF before, aim
  <2> QED
    BY <2>1, <2>3, <2>4
<1> HIDE DEF P
<1>4. Seq(T \ {separator}) \subseteq P
  BY <1>2, <1>3, EverySequence
<1>5. start \o word \in Seq(T)
  BY <1>1, SeqMonotonic, ConcatProperties
<1> QED
  BY <1>4, <1>5 DEF P, start, parts

(* Three sequences are joined alike from either end.                         *)
LEMMA Regrouped ==
    ASSUME NEW T, NEW first \in Seq(T), NEW second \in Seq(T), NEW third \in Seq(T),
           NEW start, start = first \o second, NEW rest, rest = second \o third
    PROVE  start \o third = first \o rest
  BY ConcatAssociative

(* A path without a token has no segment,                                    *)
LEMMA NoSegment == Segments(<<>>) = <<>>
<1> DEFINE none  == <<>>
           parts == Append(none, none)
<1>1. none \in Seq({none})
  BY EmptySeq
<1>2. parts = << <<>> >>
  OBVIOUS
<1>3. Remaining(parts, {<<>>}) = Retained(Remaining(none, {<<>>}), none, {<<>>})
  <2> HIDE DEF none
  <2> QED
    BY ONLY <1>1, none \in {none}, RemainingGrows
<1>4. Remaining(parts, {<<>>}) = <<>>
  BY <1>3, RemainingNothing DEF Retained
<1> QED
  BY <1>2, <1>4, SplitNothing DEF Segments

(* and a word after a slash adds one.                                        *)
LEMMA SegmentAdded ==
    ASSUME NEW T, "/" \in T, NEW path \in Seq(T), NEW word \in Seq(T \ {"/"}), word # <<>>
    PROVE  /\ Segments(path) \in Seq(Seq(T))
           /\ Append(path, "/") \o word \in Seq(T)
           /\ Segments(Append(path, "/") \o word) = Append(Segments(path), word)
<1> DEFINE longer == Append(path, "/") \o word
           parts  == Split(path, "/")
<1>1. longer \in Seq(T) /\ Split(longer, "/") = Append(parts, word)
  BY SplitAddsAPart
<1>2. parts \in Seq(Seq(T))
  BY SplitGrows DEF PartsOf
<1>3. word \in Seq(T)
  BY SeqMonotonic
<1> HIDE DEF longer, parts
<1>4. /\ Remaining(parts, {<<>>}) \in Seq(Seq(T))
      /\ Remaining(Append(parts, word), {<<>>}) = Retained(Remaining(parts, {<<>>}), word, {<<>>})
  BY ONLY <1>2, <1>3, RemainingGrows
<1>5. Retained(Remaining(parts, {<<>>}), word, {<<>>}) = Append(Remaining(parts, {<<>>}), word)
  BY DEF Retained
<1>6. Segments(longer) = Append(Remaining(parts, {<<>>}), word)
  BY <1>1, <1>4, <1>5 DEF Segments
<1> QED
  BY <1>1, <1>4, <1>6 DEF Segments, longer, parts

Flattens(f, parts, T) ==
    /\ f \in [1..Len(parts) -> Seq(T)] /\ f[1] = parts[1]
    /\ \A i \in 1..Len(parts) - 1 : f[i + 1] = f[i] \o parts[i + 1]
    /\ FlattenSeq(parts) = f[Len(parts)]

(* Sequences are joined one after the other.                                 *)
LEMMA FlatteningRuns ==
    ASSUME NEW T, NEW parts \in Seq(Seq(T)), parts # <<>>
    PROVE  \E f : Flattens(f, parts, T)
<1> DEFINE n == Len(parts)
           value(f, i) == IF i = 1 THEN parts[i] ELSE f[i - 1] \o parts[i]
           Fits(f) == f = [i \in 1..n |-> value(f, i)]
           chosen == CHOOSE f : Fits(f)
           Begun(f, m) == /\ f \in [1..m -> Seq(T)]
                          /\ \A i \in 1..m : f[i] = value(f, i)
           P == {m \in Nat : m + 1 <= n => \E f : Begun(f, m + 1)}
<1>1. n \in Nat /\ n # 0 /\ \A i \in 1..n : parts[i] \in Seq(T)
  BY EmptySeq
<1>2. 0 \in P
  <2> DEFINE f == [i \in 1..0 + 1 |-> parts[1]]
  <2>1. Begun(f, 0 + 1)
    BY <1>1
  <2> HIDE DEF f, Begun
  <2> QED
    BY <2>1
<1>3. ASSUME NEW m \in Nat, m \in P PROVE m + 1 \in P
  <2> HIDE DEF Begun
  <2> SUFFICES ASSUME (m + 1) + 1 <= n PROVE \E f : Begun(f, (m + 1) + 1)
    OBVIOUS
  <2>0. \E f : Begun(f, m + 1)
    BY <1>1, <1>3
  <2>1. PICK f : Begun(f, m + 1)
    BY <2>0
  <2> DEFINE last == f[m + 1] \o parts[(m + 1) + 1]
             h == [i \in 1..(m + 1) + 1 |-> IF i = (m + 1) + 1 THEN last ELSE f[i]]
  <2>2. f \in [1..m + 1 -> Seq(T)] /\ \A i \in 1..m + 1 : f[i] = value(f, i)
    BY <2>1 DEF Begun
  <2>3. last \in Seq(T)
    <3>1. f[m + 1] \in Seq(T) /\ parts[(m + 1) + 1] \in Seq(T)
      BY <1>1, <2>2
    <3> QED
      BY <3>1, ConcatProperties
  <2>4. h \in [1..(m + 1) + 1 -> Seq(T)]
    <3> HIDE DEF last
    <3> QED
      BY <2>2, <2>3
  <2>5. ASSUME NEW i \in 1..(m + 1) + 1 PROVE h[i] = value(h, i)
    <3>1. CASE i = (m + 1) + 1
      <4>1. i # 1 /\ i - 1 = m + 1 /\ m + 1 \in 1..(m + 1) + 1 /\ m + 1 # (m + 1) + 1
        BY <3>1
      <4> HIDE DEF last
      <4>2. h[i] = last /\ h[i - 1] = f[m + 1]
        BY <3>1, <4>1
      <4> HIDE DEF h
      <4> QED
        BY <3>1, <4>1, <4>2 DEF last
    <3>2. CASE i # (m + 1) + 1
      <4>1. i \in 1..m + 1
        BY <3>2
      <4>2. h[i] = f[i]
        BY <3>2
      <4>3. i # 1 => i - 1 \in 1..(m + 1) + 1 /\ i - 1 # (m + 1) + 1 /\ h[i - 1] = f[i - 1]
        BY <4>1
      <4> HIDE DEF h
      <4> QED
        BY <2>2, <4>1, <4>2, <4>3
    <3> QED
      BY <3>1, <3>2
  <2>6. Begun(h, (m + 1) + 1)
    <3> HIDE DEF h, value
    <3> QED
      BY <2>4, <2>5 DEF Begun
  <2> HIDE DEF h
  <2> QED
    BY <2>6
<1>4. Nat \subseteq P
  <2> HIDE DEF P
  <2> QED
    BY <1>2, <1>3, EveryNatural
<1>5. PICK f : Begun(f, n)
  <2> HIDE DEF Begun
  <2>1. n - 1 \in Nat /\ (n - 1) + 1 = n
    BY <1>1
  <2>2. (n - 1) + 1 <= n
    BY <1>1
  <2> HIDE DEF n
  <2>3. \E f : Begun(f, (n - 1) + 1)
    BY <1>4, <2>1, <2>2
  <2> QED
    BY <2>1, <2>3
<1> HIDE DEF value
<1>6. Fits(f)
  BY <1>5
<1> HIDE DEF Fits
<1>7. Fits(chosen)
  BY <1>6
<1> HIDE DEF chosen
<1>8. \A i \in 1..n : chosen[i] = value(chosen, i)
  BY <1>7 DEF Fits
<1>9. FlattenSeq(parts) = chosen[n]
  BY <1>1 DEF FlattenSeq, Fits, value, chosen
<1> DEFINE Q == {m \in Nat : m + 1 <= n => chosen[m + 1] \in Seq(T)}
<1>10. 0 \in Q
  BY <1>1, <1>8 DEF value
<1>11. ASSUME NEW m \in Nat, m \in Q PROVE m + 1 \in Q
  <2> SUFFICES ASSUME (m + 1) + 1 <= n PROVE chosen[(m + 1) + 1] \in Seq(T)
    OBVIOUS
  <2>1. (m + 1) + 1 \in 1..n /\ (m + 1) + 1 # 1 /\ ((m + 1) + 1) - 1 = m + 1 /\ m + 1 <= n
    BY <1>1
  <2>2. chosen[(m + 1) + 1] = chosen[m + 1] \o parts[(m + 1) + 1]
    BY <1>8, <2>1 DEF value
  <2>3. chosen[m + 1] \in Seq(T) /\ parts[(m + 1) + 1] \in Seq(T)
    BY <1>1, <1>11, <2>1
  <2> QED
    BY <2>2, <2>3, ConcatProperties
<1>12. Nat \subseteq Q
  <2> HIDE DEF Q
  <2> QED
    BY <1>10, <1>11, EveryNatural
<1>13. chosen \in [1..n -> Seq(T)]
  <2>1. \A i \in 1..n : i - 1 \in Nat /\ (i - 1) + 1 = i /\ i <= n
    BY <1>1
  <2>2. \A i \in 1..n : chosen[i] \in Seq(T)
    BY <1>12, <2>1
  <2>3. chosen = [i \in 1..n |-> chosen[i]]
    BY <1>7 DEF Fits
  <2> QED
    BY <2>2, <2>3
<1>14. chosen[1] = parts[1]
  BY <1>1, <1>8 DEF value
<1>15. ASSUME NEW i \in 1..n - 1 PROVE chosen[i + 1] = chosen[i] \o parts[i + 1]
  <2>1. i + 1 \in 1..n /\ i + 1 # 1 /\ (i + 1) - 1 = i
    BY <1>1
  <2> QED
    BY <1>8, <2>1 DEF value
<1>16. Flattens(chosen, parts, T)
  BY <1>9, <1>13, <1>14, <1>15 DEF Flattens
<1> QED
  BY <1>16

(* Taken apart and put together again, an install directory is the one it    *)
(* was: InstallDir::parse settles a path at once (name.rs).                  *)
THEOREM InstallDirsSettle ==
    ASSUME NEW T, NEW path \in Seq(T), ValidInstallDir(path)
    PROVE  InstallDir(InstallDir(path)) = InstallDir(path)
<1> DEFINE U     == PathChar \cup {"/"}
           words == Segments(path)
           n     == Len(words)
           slash == <<"/">>
           parts == [i \in DOMAIN words |-> IF i = 1 THEN words[i] ELSE slash \o words[i]]
<1>1. words \in Seq(Seq(T) \ {<<>>}) /\ words # <<>>
  <2>1. Split(path, "/") \in Seq(Seq(T))
    <3>1. PICK h : Splits(h, path, "/", T)
      BY SplittingRuns
    <3>2. Len(path) \in 0..Len(path)
      OBVIOUS
    <3> QED
      BY <3>1, <3>2 DEF Splits, PartsOf
  <2>2. Remaining(Split(path, "/"), {<<>>}) \in Seq(Seq(T) \ {<<>>})
    <3> DEFINE split == Split(path, "/")
    <3> HIDE DEF split
    <3> QED
      BY ONLY <2>1, RemainingIsWanted DEF split
  <2> QED
    BY <2>2 DEF Segments, ValidInstallDir
<1>2. ASSUME NEW i \in 1..Len(words)
      PROVE  words[i] \in Seq(U \ {"/"}) /\ words[i] \in Seq(U) /\ words[i] # <<>>
  <2> DEFINE word == words[i]
  <2>1. word \in Seq(T) /\ word # <<>>
    BY <1>1
  <2>2. ToSet(word) \subseteq PathChar
    BY <1>1 DEF ValidInstallDir
  <2> HIDE DEF word
  <2>3. \A j \in 1..Len(word) : word[j] \in PathChar
    BY <2>1, <2>2 DEF ToSet
  <2>4. "/" \notin PathChar
    BY Zenon DEF PathChar, Lower, Upper, Lowered, Digit, Underscore
  <2>5. word \in [1..Len(word) -> PathChar] /\ Len(word) \in Nat
    BY <2>1, <2>3
  <2>6. word \in Seq(PathChar)
    BY <2>5
  <2>7. PathChar \subseteq U \ {"/"} /\ PathChar \subseteq U
    BY <2>4
  <2> HIDE DEF U
  <2>8. word \in Seq(U \ {"/"}) /\ word \in Seq(U)
    BY <2>6, <2>7, SeqMonotonic
  <2> QED
    BY <2>1, <2>8 DEF word
<1>3. n \in Nat /\ n # 0 /\ DOMAIN words = 1..n
  BY <1>1, EmptySeq
<1>0. "/" \in U /\ slash \in Seq(U) /\ <<>> \in Seq(U) /\ slash = Append(<<>>, "/")
  OBVIOUS
<1> HIDE DEF words, U, slash
<1>4. parts \in Seq(Seq(U)) /\ Len(parts) = n /\ parts # <<>>
  <2>1. ASSUME NEW i \in 1..n PROVE slash \o words[i] \in Seq(U)
    BY <1>0, <1>2, ConcatProperties
  <2>2. parts \in [1..n -> Seq(U)]
    BY <1>2, <1>3, <2>1
  <2>3. parts \in Seq(Seq(U)) /\ Len(parts) = n
    BY <1>3, <2>2
  <2> QED
    BY <1>3, <2>3, EmptySeq
<1>5. parts[1] = words[1]
      /\ \A i \in 1..n - 1 : parts[i + 1] = slash \o words[i + 1]
  BY <1>3
<1>6. InstallDir(path) = slash \o FlattenSeq(parts)
  BY DEF InstallDir, Joined, words, slash
<1> HIDE DEF parts
<1>7. PICK f : Flattens(f, parts, U)
  BY <1>4, FlatteningRuns
<1> DEFINE dir(m) == slash \o f[m]
           Settles(m) == /\ dir(m) \in Seq(U) /\ Segments(dir(m)) \in Seq(Seq(U))
                         /\ Len(Segments(dir(m))) = m
                         /\ \A i \in 1..m : Segments(dir(m))[i] = words[i]
           P == {m \in Nat : m + 1 <= n => Settles(m + 1)}
<1>8. 0 \in P
  <2> DEFINE word == words[1]
             none == <<>>
  <2>1. f[1] = word /\ word \in Seq(U \ {"/"}) /\ word \in Seq(U) /\ word # <<>> /\ 1 \in 1..n
    BY <1>2, <1>3, <1>5, <1>7 DEF Flattens
  <2>2. none \in Seq(U) /\ slash = Append(none, "/")
    BY <1>0
  <2> HIDE DEF word, none
  <2>3. /\ Segments(none) \in Seq(Seq(U)) /\ Append(none, "/") \o word \in Seq(U)
        /\ Segments(Append(none, "/") \o word) = Append(Segments(none), word)
    BY <1>0, <2>1, <2>2, SegmentAdded
  <2>4. Segments(none) = <<>>
    BY NoSegment DEF none
  <2>5. Append(<<>>, word) \in Seq(Seq(U)) /\ Len(Append(<<>>, word)) = 1
        /\ Append(<<>>, word)[1] = word
    BY <2>1
  <2>6. Settles(1)
    <3>1. dir(1) = Append(none, "/") \o word
      BY <2>1, <2>2
    <3>2. Segments(dir(1)) = Append(<<>>, word)
      BY <2>3, <2>4, <3>1
    <3>3. \A i \in 1..1 : i = 1
      OBVIOUS
    <3> HIDE DEF dir
    <3> QED
      BY <2>3, <2>5, <3>1, <3>2, <3>3 DEF word
  <2> QED
    BY <2>6
<1>9. ASSUME NEW m \in Nat, m \in P PROVE m + 1 \in P
  <2> HIDE DEF Settles
  <2> SUFFICES ASSUME (m + 1) + 1 <= n PROVE Settles((m + 1) + 1)
    OBVIOUS
  <2> DEFINE k    == m + 1
             old  == dir(k)
             word == words[k + 1]
             tail == slash \o word
             start == Append(old, "/")
  <2>1. Settles(k) /\ k \in 1..n - 1 /\ k \in 1..n /\ k + 1 \in 1..n
    BY <1>3, <1>9
  <2>2. f[k] \in Seq(U) /\ f[k + 1] = f[k] \o tail
    BY <1>4, <1>5, <1>7, <2>1 DEF Flattens
  <2>3. word \in Seq(U \ {"/"}) /\ word \in Seq(U) /\ word # <<>> /\ tail \in Seq(U)
    BY <1>0, <1>2, <2>1, ConcatProperties
  <2>4. /\ old \in Seq(U) /\ Segments(old) \in Seq(Seq(U)) /\ Len(Segments(old)) = k
        /\ \A i \in 1..k : Segments(old)[i] = words[i]
    BY <2>1 DEF Settles
  <2>5. old = slash \o f[k] /\ dir(k + 1) = slash \o f[k + 1]
    OBVIOUS
  <2>6. start \in Seq(U) /\ start = old \o slash
    BY <1>0, <2>4, AppendIsConcat, AppendProperties DEF slash
  <2>7. tail = slash \o word
    OBVIOUS
  <2> HIDE DEF k, old, word, tail, start, dir
  <2>8. old \o tail = slash \o f[k + 1]
    <3> DEFINE body == f[k]
               rest == f[k + 1]
    <3>1. slash \in Seq(U) /\ body \in Seq(U) /\ tail \in Seq(U)
          /\ old = slash \o body /\ rest = body \o tail
      BY <1>0, <2>2, <2>3, <2>5
    <3> HIDE DEF body, rest
    <3>2. old \o tail = slash \o rest
      BY ONLY <3>1, Regrouped
    <3> QED
      BY <3>2 DEF rest
  <2>9. start \o word = old \o tail
    <3>1. old \in Seq(U) /\ slash \in Seq(U) /\ word \in Seq(U)
          /\ start = old \o slash /\ tail = slash \o word
      BY <1>0, <2>3, <2>4, <2>6, <2>7
    <3> QED
      BY ONLY <3>1, Regrouped
  <2>10. dir(k + 1) = start \o word
    BY <2>5, <2>8, <2>9
  <2>11. start \o word \in Seq(U) /\ Segments(start \o word) = Append(Segments(old), word)
    BY <1>0, <2>3, <2>4, SegmentAdded DEF start
  <2> DEFINE before == Segments(old)
             after == Append(before, word)
  <2>12. before \in Seq(Seq(U)) /\ Len(before) = k /\ \A i \in 1..k : before[i] = words[i]
    BY <2>4
  <2> HIDE DEF before
  <2>13. after \in Seq(Seq(U)) /\ Len(after) = k + 1 /\ after[k + 1] = word
         /\ \A i \in 1..k : after[i] = words[i]
    BY <2>3, <2>12, AppendProperties
  <2> HIDE DEF after
  <2>14. \A i \in 1..k + 1 : after[i] = words[i]
    <3>1. \A i \in 1..k + 1 : i \in 1..k \/ i = k + 1
      BY <2>1
    <3> QED
      BY <2>13, <3>1 DEF word
  <2>15. Segments(dir(k + 1)) = after
    BY <2>10, <2>11 DEF after, before
  <2> QED
    BY <2>10, <2>11, <2>13, <2>14, <2>15 DEF Settles, k
<1>10. Nat \subseteq P
  <2> HIDE DEF P
  <2> QED
    BY <1>8, <1>9, EveryNatural
<1>11. Settles(n)
  <2>1. n - 1 \in Nat /\ (n - 1) + 1 = n /\ (n - 1) + 1 <= n
    BY <1>3
  <2> HIDE DEF Settles, n
  <2>2. Settles((n - 1) + 1)
    BY <1>10, <2>1
  <2> QED
    BY <2>1, <2>2
<1>12. dir(n) = InstallDir(path)
  BY <1>4, <1>6, <1>7 DEF Flattens
<1>13. Segments(InstallDir(path)) = words
  <2> DEFINE again == Segments(InstallDir(path))
  <2>1. again \in Seq(Seq(U)) /\ Len(again) = n /\ \A i \in 1..n : again[i] = words[i]
    BY <1>11, <1>12
  <2>2. words \in Seq(Seq(U))
    <3>1. words \in [1..n -> Seq(U)]
      BY <1>1, <1>2, <1>3
    <3> QED
      BY <1>3, <3>1
  <2> HIDE DEF again
  <2>3. again = words
    BY <2>1, <2>2, SeqEqual
  <2> QED
    BY <2>3 DEF again
<1> QED
  BY <1>13 DEF InstallDir, words

(* Where no hyphen has to give way, the mapping of a semantic version can be *)
(* undone: the tilde before the pre-release is the hyphen it was.            *)
THEOREM MappingsCanBeUndone ==
    ASSUME NEW T, NEW version \in Seq(T), IsSemver(version), ~HyphensRewritten(version)
    PROVE  LET base == MapSemver(version)
           IN  [i \in DOMAIN base |-> IF base[i] = "~" THEN "-" ELSE base[i]] = version
<1> DEFINE U     == T \cup {"~", "+"}
           n     == Len(version)
           at    == BuildAt(version)
           core  == Core(version)
           pre   == Pre(version)
           build == Build(version)
           early == IF pre = <<>> THEN <<>> ELSE <<"~">> \o pre
           late  == IF build = <<>> THEN <<>> ELSE <<"+">> \o build
           start == core \o early
           base  == start \o late
<1>1. n \in Nat /\ n >= 5 /\ DOMAIN version = 1..n /\ version \in Seq(U)
  <2>1. T \subseteq U
    OBVIOUS
  <2> HIDE DEF U
  <2> QED
    BY <2>1, SeqMonotonic DEF IsSemver
<1>2. at \in 1..n + 1 /\ (at <= n => version[at] = "+")
  <2>1. Plus(version) \subseteq 1..n /\ \A i \in Plus(version) : version[i] = "+"
    BY <1>1 DEF Plus
  <2>2. Plus(version) # {} => Min(Plus(version)) \in Plus(version)
    BY <2>1, LeastOf
  <2> QED
    BY <1>1, <2>1, <2>2 DEF BuildAt
<1>3. at = 6 \/ (version[6] = "-" /\ IsIdentifiers(pre))
  BY DEF IsSemver
<1>4. at <= n => IsIdentifiers(build)
  BY DEF IsSemver
<1> HIDE DEF U, n, at
<1>5. core \in Seq(U) /\ Len(core) = 5 /\ \A i \in 1..5 : core[i] = version[i]
  <2>1. core = SubSeq(version, 1, 5) /\ 5 <= Len(version)
    BY <1>1 DEF Core, n
  <2>2. /\ SubSeq(version, 1, 5) \in Seq(U)
        /\ Len(SubSeq(version, 1, 5)) = IF 1 <= 5 THEN 5 - 1 + 1 ELSE 0
        /\ \A i \in 1..5 - 1 + 1 : SubSeq(version, 1, 5)[i] = version[1 + i - 1]
    BY <1>1, <2>1, PartOf
  <2>3. \A i \in 1..5 : i \in 1..5 - 1 + 1 /\ 1 + i - 1 = i
    OBVIOUS
  <2> QED
    BY <2>1, <2>2, <2>3
<1>6. /\ pre \in Seq(U) /\ Len(pre) = IF 7 <= at - 1 THEN at - 7 ELSE 0
      /\ \A i \in 1..at - 7 : pre[i] = version[i + 6]
  <2>1. pre = SubSeq(version, 7, at - 1) /\ at - 1 \in Int /\ at - 1 <= Len(version)
    BY <1>1, <1>2 DEF Pre, at, n
  <2>2. /\ pre \in Seq(U)
        /\ Len(pre) = IF 7 <= at - 1 THEN (at - 1) - 7 + 1 ELSE 0
        /\ \A i \in 1..(at - 1) - 7 + 1 : pre[i] = version[7 + i - 1]
    BY <1>1, <2>1, PartOf
  <2>3. (at - 1) - 7 + 1 = at - 7 /\ \A i \in 1..at - 7 : 7 + i - 1 = i + 6
    BY <1>2
  <2> QED
    BY <2>2, <2>3
<1>7. /\ build \in Seq(U) /\ Len(build) = IF at + 1 <= n THEN n - at ELSE 0
      /\ \A i \in 1..n - at : build[i] = version[at + i]
  <2>1. build = SubSeq(version, at + 1, n) /\ at + 1 \in Nat \ {0} /\ n \in Int /\ n <= Len(version)
    BY <1>1, <1>2 DEF Build, at, n
  <2>2. /\ build \in Seq(U)
        /\ Len(build) = IF at + 1 <= n THEN n - (at + 1) + 1 ELSE 0
        /\ \A i \in 1..n - (at + 1) + 1 : build[i] = version[at + 1 + i - 1]
    BY <1>1, <2>1, PartOf
  <2>3. n - (at + 1) + 1 = n - at /\ \A i \in 1..n - at : at + 1 + i - 1 = at + i
    BY <1>1, <1>2
  <2> QED
    BY <2>2, <2>3
<1> HIDE DEF core, pre, build
<1>8. \/ at = 6 /\ pre = <<>>
      \/ at >= 8 /\ pre # <<>> /\ version[6] = "-" /\ IsIdentifiers(pre) /\ Len(pre) = at - 7
  <2>1. CASE at = 6
    BY <1>6, <2>1, EmptySeq
  <2>2. CASE at # 6
    <3>1. version[6] = "-" /\ IsIdentifiers(pre) /\ pre # <<>>
      BY <1>3, <2>2 DEF IsIdentifiers
    <3>2. Len(pre) # 0
      BY <1>6, <3>1, EmptySeq
    <3> QED
      BY <1>2, <1>6, <3>1, <3>2
  <2> QED
    BY <2>1, <2>2
<1>9. \/ at = n + 1 /\ build = <<>>
      \/ at < n /\ build # <<>> /\ IsIdentifiers(build) /\ Len(build) = n - at
  <2>1. CASE at = n + 1
    BY <1>1, <1>7, <2>1, EmptySeq
  <2>2. CASE at # n + 1
    <3>1. IsIdentifiers(build) /\ build # <<>> /\ at <= n
      BY <1>1, <1>2, <1>4, <2>2 DEF IsIdentifiers
    <3>2. Len(build) # 0
      BY <1>7, <3>1, EmptySeq
    <3> QED
      BY <1>1, <1>2, <1>7, <3>1, <3>2
  <2> QED
    BY <2>1, <2>2
<1>10. "-" \notin ToSet(pre \o build)
  BY DEF HyphensRewritten, pre, build
<1>11. /\ \A i \in 1..Len(pre) : pre[i] # "-"
       /\ \A i \in 1..Len(build) : build[i] # "-"
  <2> DEFINE both == pre \o build
  <2>1. /\ both \in Seq(U) /\ Len(both) = Len(pre) + Len(build)
        /\ \A i \in 1..Len(pre) + Len(build) :
              both[i] = IF i <= Len(pre) THEN pre[i] ELSE build[i - Len(pre)]
    BY <1>6, <1>7, ConcatProperties
  <2>2. Len(pre) \in Nat /\ Len(build) \in Nat
    BY <1>6, <1>7
  <2>3. "-" \notin ToSet(both)
    BY <1>10
  <2> HIDE DEF both
  <2>4. \A i \in 1..Len(pre) + Len(build) : both[i] # "-"
    BY <2>1, <2>3 DEF ToSet
  <2>5. ASSUME NEW i \in 1..Len(pre) PROVE pre[i] # "-"
    BY <2>1, <2>2, <2>4
  <2>6. ASSUME NEW i \in 1..Len(build) PROVE build[i] # "-"
    <3>1. i + Len(pre) \in 1..Len(pre) + Len(build) /\ ~(i + Len(pre) <= Len(pre))
          /\ (i + Len(pre)) - Len(pre) = i
      BY <2>2
    <3> QED
      BY <2>1, <2>4, <3>1
  <2> QED
    BY <2>5, <2>6
<1>12. Rewritten(pre) = pre /\ Rewritten(build) = build
  <2>1. DOMAIN pre = 1..Len(pre) /\ DOMAIN build = 1..Len(build)
    BY <1>6, <1>7
  <2>2. pre = [i \in DOMAIN pre |-> pre[i]] /\ build = [i \in DOMAIN build |-> build[i]]
    BY <1>6, <1>7
  <2> QED
    BY <1>11, <2>1, <2>2 DEF Rewritten
<1>13. MapSemver(version) = base
  BY <1>12 DEF MapSemver, core, pre, build
<1>14. /\ early \in Seq(U) /\ Len(early) = at - 6
       /\ \A i \in 1..at - 6 : early[i] = IF i = 1 THEN "~" ELSE version[i + 5]
  <2>1. CASE pre = <<>>
    BY <1>8, <2>1, EmptySeq
  <2>2. CASE pre # <<>>
    <3> DEFINE mark == <<"~">>
    <3>1. mark \in Seq(U) /\ Len(mark) = 1 /\ mark[1] = "~"
      BY DEF U
    <3>2. early = mark \o pre
      BY <2>2
    <3> HIDE DEF mark, early
    <3>3. /\ early \in Seq(U) /\ Len(early) = 1 + Len(pre)
          /\ \A i \in 1..1 + Len(pre) : early[i] = IF i <= 1 THEN mark[i] ELSE pre[i - 1]
      <4>1. /\ mark \o pre \in Seq(U) /\ Len(mark \o pre) = Len(mark) + Len(pre)
            /\ \A i \in 1..Len(mark) + Len(pre) :
                  (mark \o pre)[i] = IF i <= Len(mark) THEN mark[i] ELSE pre[i - Len(mark)]
        BY <1>6, <3>1, ConcatProperties
      <4> QED
        BY <3>1, <3>2, <4>1
    <3>4. Len(pre) = at - 7 /\ at \in Nat /\ 1 + Len(pre) = at - 6
      BY <1>2, <1>8, <2>2
    <3>5. \A i \in 1..at - 6 :
             \/ i = 1 /\ i <= 1
             \/ i # 1 /\ ~(i <= 1) /\ i - 1 \in 1..at - 7 /\ (i - 1) + 6 = i + 5
      BY <3>4
    <3> QED
      BY <1>6, <3>1, <3>3, <3>4, <3>5
  <2> QED
    BY <2>1, <2>2
<1>15. /\ late \in Seq(U) /\ Len(late) = (n + 1) - at
       /\ \A i \in 1..(n + 1) - at : late[i] = version[(at + i) - 1]
  <2>1. CASE build = <<>>
    BY <1>1, <1>9, <2>1, EmptySeq
  <2>2. CASE build # <<>>
    <3> DEFINE mark == <<"+">>
    <3>1. mark \in Seq(U) /\ Len(mark) = 1 /\ mark[1] = "+"
      BY DEF U
    <3>2. late = mark \o build
      BY <2>2
    <3> HIDE DEF mark, late
    <3>3. /\ late \in Seq(U) /\ Len(late) = 1 + Len(build)
          /\ \A i \in 1..1 + Len(build) : late[i] = IF i <= 1 THEN mark[i] ELSE build[i - 1]
      <4>1. /\ mark \o build \in Seq(U) /\ Len(mark \o build) = Len(mark) + Len(build)
            /\ \A i \in 1..Len(mark) + Len(build) :
                  (mark \o build)[i] = IF i <= Len(mark) THEN mark[i] ELSE build[i - Len(mark)]
        BY <1>7, <3>1, ConcatProperties
      <4> QED
        BY <3>1, <3>2, <4>1
    <3>4. Len(build) = n - at /\ at \in Nat /\ at <= n /\ 1 + Len(build) = (n + 1) - at
      BY <1>1, <1>2, <1>9, <2>2
    <3>5. \A i \in 1..(n + 1) - at :
             \/ i = 1 /\ i <= 1 /\ (at + i) - 1 = at
             \/ i # 1 /\ ~(i <= 1) /\ i - 1 \in 1..n - at /\ at + (i - 1) = (at + i) - 1
      BY <1>1, <3>4
    <3>6. version[at] = "+"
      BY <1>2, <3>4
    <3>7. ASSUME NEW i \in 1..(n + 1) - at PROVE late[i] = version[(at + i) - 1]
      <4>1. late[i] = IF i <= 1 THEN mark[i] ELSE build[i - 1]
        BY <3>3, <3>4
      <4>2. CASE i = 1
        BY <3>1, <3>5, <3>6, <4>1, <4>2
      <4>3. CASE i # 1
        <5>1. ~(i <= 1) /\ i - 1 \in 1..n - at /\ at + (i - 1) = (at + i) - 1
          BY <3>5, <4>3
        <5>2. build[i - 1] = version[at + (i - 1)]
          BY <1>7, <5>1
        <5> QED
          BY <4>1, <5>1, <5>2
      <4> QED
        BY <4>2, <4>3
    <3> QED
      BY <3>3, <3>4, <3>7
  <2> QED
    BY <2>1, <2>2
<1> HIDE DEF early, late
<1>16. /\ start \in Seq(U) /\ Len(start) = at - 1
       /\ \A i \in 1..at - 1 : start[i] = IF i = 6 THEN "~" ELSE version[i]
  <2>1. /\ start \in Seq(U) /\ Len(start) = Len(core) + Len(early)
        /\ \A i \in 1..Len(core) + Len(early) :
              start[i] = IF i <= Len(core) THEN core[i] ELSE early[i - Len(core)]
    <3>1. core \in Seq(U) /\ early \in Seq(U)
      BY <1>5, <1>14
    <3> QED
      BY ONLY <3>1, ConcatProperties
  <2> HIDE DEF start
  <2>2. Len(core) = 5 /\ Len(core) + Len(early) = at - 1 /\ at \in Nat
    BY <1>2, <1>5, <1>14
  <2>3. ASSUME NEW i \in 1..at - 1 PROVE start[i] = IF i = 6 THEN "~" ELSE version[i]
    <3>1. start[i] = IF i <= 5 THEN core[i] ELSE early[i - 5]
      BY <2>1, <2>2
    <3>2. CASE i <= 5
      <4>1. i \in 1..5 /\ i # 6
        BY <2>2, <3>2
      <4> QED
        BY <1>5, <3>1, <3>2, <4>1
    <3>3. CASE ~(i <= 5)
      <4>1. i - 5 \in 1..at - 6 /\ (i - 5) + 5 = i /\ (i = 6 <=> i - 5 = 1)
        BY <2>2, <3>3
      <4>2. early[i - 5] = IF i - 5 = 1 THEN "~" ELSE version[(i - 5) + 5]
        BY <1>14, <4>1
      <4> QED
        BY <3>1, <3>3, <4>1, <4>2
    <3> QED
      BY <3>2, <3>3
  <2> QED
    BY <2>1, <2>2, <2>3
<1> HIDE DEF start
<1>17. /\ base \in Seq(U) /\ Len(base) = n
       /\ \A i \in 1..n : base[i] = IF i = 6 /\ at # 6 THEN "~" ELSE version[i]
  <2>1. /\ base \in Seq(U) /\ Len(base) = Len(start) + Len(late)
        /\ \A i \in 1..Len(start) + Len(late) :
              base[i] = IF i <= Len(start) THEN start[i] ELSE late[i - Len(start)]
    <3>1. start \in Seq(U) /\ late \in Seq(U)
      BY <1>15, <1>16
    <3> QED
      BY ONLY <3>1, ConcatProperties
  <2> HIDE DEF base
  <2>2. Len(start) = at - 1 /\ Len(start) + Len(late) = n /\ at \in Nat /\ at >= 6
    BY <1>1, <1>2, <1>8, <1>15, <1>16
  <2>3. ASSUME NEW i \in 1..n PROVE base[i] = IF i = 6 /\ at # 6 THEN "~" ELSE version[i]
    <3> DEFINE k == i - (at - 1)
    <3>1. base[i] = IF i <= at - 1 THEN start[i] ELSE late[k]
      BY <2>1, <2>2
    <3>2. CASE i <= at - 1
      <4>1. i \in 1..at - 1 /\ (i = 6 => at # 6)
        BY <1>1, <2>2, <3>2
      <4> QED
        BY <1>16, <3>1, <3>2, <4>1
    <3>3. CASE ~(i <= at - 1)
      <4>1. k \in 1..(n + 1) - at /\ (at + k) - 1 = i /\ (i = 6 => at = 6)
        BY <1>1, <2>2, <3>3
      <4> HIDE DEF k
      <4>2. late[k] = version[(at + k) - 1]
        BY <1>15, <4>1
      <4> QED
        BY <3>1, <3>3, <4>1, <4>2
    <3> QED
      BY <3>2, <3>3
  <2> QED
    BY <2>1, <2>2, <2>3
<1> HIDE DEF base
<1>18. ASSUME NEW i \in 1..n PROVE version[i] # "~"
  <2>1. "~" \notin Number \cup Word \cup {"-", ".", "+"}
    BY DEF Number, Word, Numerals, Words, ToSet
  <2>2. CASE i \in 1..5
    <3>1. version[1] \in Number /\ version[3] \in Number /\ version[5] \in Number
          /\ version[2] = "." /\ version[4] = "."
      BY DEF IsSemver
    <3>2. i \in {1, 2, 3, 4, 5}
      BY <2>2
    <3> QED
      BY <2>1, <3>1, <3>2
  <2>3. CASE i = 6 /\ at # 6
    BY <1>8, <2>1, <2>3
  <2>4. CASE i > 6 /\ i < at
    <3>1. i - 6 \in 1..at - 7 /\ (i - 6) + 6 = i /\ at # 6
      BY <1>2, <2>4
    <3>2. IsIdentifiers(pre) /\ i - 6 \in DOMAIN pre
      BY <1>6, <1>8, <3>1
    <3> QED
      BY <1>6, <2>1, <3>1, <3>2 DEF IsIdentifiers
  <2>5. CASE i = at
    BY <1>2, <2>1, <2>5
  <2>6. CASE i > at
    <3>1. i - at \in 1..n - at /\ at + (i - at) = i /\ at # n + 1
      BY <1>1, <1>2, <2>6
    <3>2. IsIdentifiers(build) /\ i - at \in DOMAIN build
      BY <1>7, <1>9, <3>1
    <3> QED
      BY <1>7, <2>1, <3>1, <3>2 DEF IsIdentifiers
  <2>7. at \in Nat /\ at >= 6 /\ n \in Nat
    BY <1>1, <1>2, <1>8
  <2> QED
    BY <2>2, <2>3, <2>4, <2>5, <2>6, <2>7
<1>19. \A i \in 1..n : (IF base[i] = "~" THEN "-" ELSE base[i]) = version[i]
  BY <1>8, <1>17, <1>18
<1>20. [i \in DOMAIN base |-> IF base[i] = "~" THEN "-" ELSE base[i]] = version
  <2>1. DOMAIN base = 1..n
    BY <1>17
  <2>2. version = [i \in 1..n |-> version[i]]
    BY <1>1
  <2> QED
    BY <1>19, <2>1, <2>2
<1> QED
  BY <1>13, <1>20

=============================================================================
