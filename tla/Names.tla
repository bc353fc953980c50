------------------------------- MODULE Names --------------------------------
(* Names that are valid by construction (core/name.rs), as sequences of      *)
(* characters: what each constructor accepts and what it makes of it.        *)
EXTENDS Text

CONSTANT MaxLen       \* UnixName::MAX_LEN

ASSUME MaxLenAssumption == MaxLen \in Nat \ {0}

Lower == {"a", "b", "c", "d", "e", "f", "g", "h", "i", "j", "k", "l", "m",
          "n", "o", "p", "q", "r", "s", "t", "u", "v", "w", "x", "y", "z"}
Lowered == [A |-> "a", B |-> "b", C |-> "c"]    \* three of them are enough
Upper   == DOMAIN Lowered
Digit   == {"0", "1", "2"}
Underscore == "_"
Lowercase(c) == IF c \in Upper THEN Lowered[c] ELSE c

-----------------------------------------------------------------------------
(* PackageName *)

ValidPackageName(name) ==
    /\ Len(name) >= 2
    /\ name[1] \in Lower \cup Digit
    /\ ToSet(name) \subseteq Lower \cup Digit \cup {"+", "-", "."}

(* A separator is pushed only where the output does not end with one.        *)
Pushed(out, c) ==
    IF c = "-" /\ out # <<>> /\ Last(out) = "-" THEN out ELSE Append(out, c)

NormalizedChar(out, c) ==
    CASE c \in {"/", Underscore, "-", " "}        -> Pushed(out, "-")
      [] c \in Lower \cup Upper \cup Digit -> Append(out, Lowercase(c))
      [] c \in {"+", "."}                  -> Append(out, c)
      [] OTHER                             -> out

NormalizedPackageName(input) ==
    LET stripped == IF input # <<>> /\ Head(input) = "@" THEN Tail(input) ELSE input
    IN  TrimmedOf(FoldLeft(NormalizedChar, <<>>, stripped), {"-"})

-----------------------------------------------------------------------------
(* UnixName *)

ValidUnixName(name) ==
    /\ name # <<>> /\ Len(name) <= MaxLen
    /\ name[1] \in Lower \cup {Underscore}
    /\ ToSet(name) \subseteq Lower \cup Digit \cup {Underscore, "-"}

DerivedChar(out, c) ==
    IF c \in Lower \cup Upper \cup Digit \cup {Underscore} THEN Append(out, Lowercase(c))
    ELSE Pushed(out, "-")

(* A bug: the name is cut before the underscore is put in front of it.       *)
DerivedUnixNameCutFirst(source) ==
    LET derived  == TrimmedOf(FoldLeft(DerivedChar, <<>>, source), {"-"})
        cut      == SubSeq(derived, 1, Min({Len(derived), MaxLen}))
    IN  IF cut # <<>> /\ Head(cut) \in Digit THEN <<Underscore>> \o cut ELSE cut

DerivedUnixName(source) ==
    LET derived  == TrimmedOf(FoldLeft(DerivedChar, <<>>, source), {"-"})
        prefixed == IF derived # <<>> /\ Head(derived) \in Digit
                    THEN <<Underscore>> \o derived ELSE derived
        cut      == SubSeq(prefixed, 1, Min({Len(prefixed), MaxLen}))
        kept     == {i \in DOMAIN cut : cut[i] # "-"}
    IN  IF kept = {} THEN <<>> ELSE SubSeq(cut, 1, Max(kept))

-----------------------------------------------------------------------------
(* Paths: characters that need no quoting, whoever reads them *)

PathChar == Lower \cup Upper \cup Digit \cup {".", Underscore, "+", "-"}
Dots     == {<<".">>, <<".", ".">>}
Segments(path) == Remaining(Split(path, "/"), {<<>>})

(* InstallDir: absolute, not the root; slashes are collapsed. *)
ValidInstallDir(path) ==
    LET segments == Segments(path)
    IN  /\ path # <<>> /\ Head(path) = "/"
        /\ segments # <<>>
        /\ \A i \in DOMAIN segments :
              segments[i] \notin Dots /\ ToSet(segments[i]) \subseteq PathChar
InstallDir(path) == <<"/">> \o Joined(Segments(path), "/")

(* ExecutableName: one component of /usr/bin. *)
ValidExecutableName(name) == name # <<>> /\ name \notin Dots /\ ToSet(name) \subseteq PathChar

(* EntryPoint: inside the project; a `.` segment is dropped. *)
EntrySegments(path) == Remaining(Split(path, "/"), {<<>>, <<".">>})
ValidEntryPoint(path) ==
    LET segments == EntrySegments(path)
    IN  /\ path = <<>> \/ Head(path) # "/"
        /\ segments # <<>>
        /\ \A i \in DOMAIN segments :
              /\ segments[i] # <<".", ".">>
              /\ ToSet(segments[i]) \subseteq PathChar \cup {"@"}
EntryPoint(path) == Joined(EntrySegments(path), "/")
=============================================================================
