------------------------------ MODULE Metadata ------------------------------
(* What each format writes about a package (deb/control.rs, deb/docs.rs,     *)
(* arch/pkginfo.rs, arch/mtree.rs, rpm/mod.rs assemble, core/arch.rs), and   *)
(* what the programs that read it find there.  A plan is a record of the     *)
(* resolved fields; a homepage, license or the like it lacks is no field.    *)
EXTENDS Text, Versions, Dependencies

CONSTANT MaxEpoch      \* the last stamp an rpm header can carry

ASSUME MaxEpochAssumption == MaxEpoch \in Nat

-----------------------------------------------------------------------------
(* core/arch.rs: parsed in any accepted spelling, written in each format's   *)

Machine == [all    |-> "Any",   any     |-> "Any",   noarch  |-> "Any",   ALL   |-> "Any",
            amd64  |-> "Amd64", x86_64  |-> "Amd64", AMD64   |-> "Amd64",
            arm64  |-> "Arm64", aarch64 |-> "Arm64",
            i386   |-> "I386",  i686    |-> "I386",  x86     |-> "I386",
            armhf  |-> "Armhf", armv7   |-> "Armhf", armv7hl |-> "Armhf",
            ppc64el |-> "Ppc64le", ppc64le |-> "Ppc64le",
            s390x  |-> "S390x", riscv64 |-> "Riscv64"]

DebMachine  == [Any |-> "all", Amd64 |-> "amd64", Arm64 |-> "arm64", I386 |-> "i386",
                Armhf |-> "armhf", Ppc64le |-> "ppc64el", S390x |-> "s390x", Riscv64 |-> "riscv64"]
RpmMachine  == [Any |-> "noarch", Amd64 |-> "x86_64", Arm64 |-> "aarch64", I386 |-> "i686",
                Armhf |-> "armv7hl", Ppc64le |-> "ppc64le", S390x |-> "s390x", Riscv64 |-> "riscv64"]
ArchMachine == [Any |-> "any", Amd64 |-> "x86_64", Arm64 |-> "aarch64", I386 |-> "i686",
                Armhf |-> "armv7h", Ppc64le |-> "powerpc64le", S390x |-> "s390x", Riscv64 |-> "riscv64"]

ArchitectureOf(format, machine) ==
    CASE format = "deb" -> DebMachine[machine] [] format = "rpm" -> RpmMachine[machine]
      [] format = "arch" -> ArchMachine[machine]

VersionOf(format, version) == IF format = "deb" THEN version.deb ELSE version.base

-----------------------------------------------------------------------------
(* Lines of fields.  A field's name is one token.                            *)

Line(name, value) == <<name>> \o value \o <<"\n">>
Optional(plan, key, name) == IF key \in DOMAIN plan THEN Line(name, plan[key]) ELSE <<>>
ListOf(field) == Joined([i \in DOMAIN field |-> <<field[i].name>>], ",")

(* A bug: a blank line of the body is written as it is. *)
DescriptionFieldBlankLines(plan) ==
    LET lines == [i \in DOMAIN Lines(plan.body) |-> <<" ">> \o Lines(plan.body)[i] \o <<"\n">>]
    IN  Line("Description: ", plan.synopsis) \o FlattenSeq(lines)

(* A one-line description gets a paragraph of its own; a blank line of the   *)
(* body is a dot.                                                            *)
DescriptionField(plan) ==
    LET folded(line) == <<" ">> \o (IF TrimmedEnd(line) = <<>> THEN <<".">> ELSE TrimmedEnd(line))
                        \o <<"\n">>
    IN  Line("Description: ", plan.synopsis)
        \o IF Trimmed(plan.body) = <<>> THEN <<" ", "default text", "\n">>
           ELSE FlattenSeq([i \in DOMAIN Lines(plan.body) |-> folded(Lines(plan.body)[i])])

Control(plan, field) ==
    Line("Package: ", plan.package_name)
    \o Line("Version: ", plan.version.deb)
    \o Line("Architecture: ", <<DebMachine[plan.machine]>>)
    \o Line("Maintainer: ", plan.maintainer)
    \o Optional(plan, "homepage", "Homepage: ")
    \o (IF field = <<>> THEN <<>> ELSE Line("Depends: ", ListOf(field)))
    \o DescriptionField(plan)

(* pkgver: one field for the epoch, the version and the release.             *)
Pkgver(version) ==
    (IF version.epoch = NoEpoch THEN <<>> ELSE <<Numerals[version.epoch + 1], ":">>)
    \o version.base \o <<"-", "1">>

Pkginfo(plan, field) ==
    Line("pkgname = ", plan.package_name)
    \o Line("pkgver = ", Pkgver(plan.version))
    \o Line("pkgdesc = ", plan.synopsis)
    \o Optional(plan, "homepage", "url = ")
    \o Line("packager = ", plan.maintainer)
    \o Line("arch = ", <<ArchMachine[plan.machine]>>)
    \o Optional(plan, "license", "license = ")
    \o FlattenSeq([i \in DOMAIN field |-> Line("depend = ", <<field[i].name>>)])

(* The rpm header is binary: its fields need no reader.                      *)
Header(plan, field) ==
    [name |-> plan.package_name, version |-> plan.version.base, epoch |-> plan.version.epoch,
     arch |-> RpmMachine[plan.machine], summary |-> plan.synopsis,
     description |-> IF plan.body = <<>> THEN plan.synopsis
                     ELSE plan.synopsis \o <<"\n", "\n">> \o plan.body,
     requires |-> field]

FileName(format, plan) ==
    CASE format = "deb" -> plan.package_name \o <<"_">> \o plan.version.deb \o <<"_">>
                           \o <<DebMachine[plan.machine]>>
      [] format = "rpm" -> plan.package_name \o <<"-">> \o plan.version.base \o <<"-", "1", ".">>
                           \o <<RpmMachine[plan.machine]>>
      [] format = "arch" -> plan.package_name \o <<"-">> \o Pkgver(plan.version) \o <<"-">>
                            \o <<ArchMachine[plan.machine]>>

-----------------------------------------------------------------------------
(* Stamps, in days since 1970-01-01.  Every entry of a deb or an Arch        *)
(* package carries the plan's; an rpm, the older of it and the file's own.   *)

EntryStamps(format, stamp, mtimes) ==
    CASE format = "rpm" -> {Min({stamp, MaxEpoch, mtime}) : mtime \in mtimes}
      [] OTHER          -> {stamp}

(* civil_from_days: eras of 400 years counted from a 1 March.                *)
CivilFromDays(days) ==
    LET z   == days + 719468
        era == z \div 146097
        doe == z % 146097
        yoe == (doe - doe \div 1460 + doe \div 36524 - doe \div 146096) \div 365
        y   == yoe + era * 400
        doy == doe - (365 * yoe + yoe \div 4 - yoe \div 100)
        mp  == (5 * doy + 2) \div 153
        m   == IF mp < 10 THEN mp + 3 ELSE mp - 9
    IN  [year |-> IF m <= 2 THEN y + 1 ELSE y, month |-> m, day |-> doy - (153 * mp + 2) \div 5 + 1]

Weekday == <<"Thu", "Fri", "Sat", "Sun", "Mon", "Tue", "Wed">>

(* The changelog's date, and the year of the copyright notice.               *)
Rfc2822(stamp) == [weekday |-> Weekday[(stamp % 7) + 1], date |-> CivilFromDays(stamp)]
CopyrightYear(stamp) == CivilFromDays(stamp).year

-----------------------------------------------------------------------------
(* .MTREE: `/set` holds for the files after it until the next one.           *)

DefaultMode == 644

(* A mode or a kind a line leaves out is -1 or "none".                       *)
SetLine(mode, kind) == [path |-> "/set", mode |-> mode, kind |-> kind]
PlainLine(r)        == [path |-> r.path, mode |-> -1, kind |-> "none"]
FullLine(r)         == [path |-> r.path, mode |-> r.mode, kind |-> r.kind]

(* A bug: a `/set` is written, but not remembered.                           *)
MtreeForgetting(records) ==
    LET listed(lines, r) ==
            CASE r.kind # "file"       -> Append(lines, FullLine(r))
              [] r.kind = "file" /\ r.mode = DefaultMode -> Append(lines, PlainLine(r))
              [] OTHER -> lines \o <<SetLine(r.mode, "none"), PlainLine(r)>>
    IN  FoldLeft(listed, <<SetLine(DefaultMode, "file")>>, records)

Mtree(records) ==
    LET listed(state, r) ==
            CASE r.kind # "file" -> [state EXCEPT !.lines = Append(@, FullLine(r))]
              [] r.kind = "file" /\ r.mode = state.mode ->
                     [state EXCEPT !.lines = Append(@, PlainLine(r))]
              [] OTHER -> [mode  |-> r.mode,
                           lines |-> state.lines \o <<SetLine(r.mode, "none"), PlainLine(r)>>]
    IN  FoldLeft(listed, [mode |-> DefaultMode, lines |-> <<SetLine(DefaultMode, "file")>>],
                 records).lines

(* arch/mod.rs manifest_records: the metadata members, then the payload.     *)
ManifestRecords(members, tree) ==
    [i \in DOMAIN members |-> [path |-> members[i], kind |-> "file", mode |-> DefaultMode]] \o tree

-----------------------------------------------------------------------------
(* The readers *)

FieldNames == {"Package: ", "Version: ", "Architecture: ", "Maintainer: ", "Homepage: ",
               "Depends: ", "Description: "}

(* A control paragraph ends at an empty line; a line that starts with a      *)
(* blank goes on with the field before it, a dot standing for an empty line. *)
ParsedControl(text) ==
    LET lines == Lines(text)
        blank == {i \in DOMAIN lines : lines[i] = <<>>}
        paragraph == IF blank = {} THEN lines ELSE SubSeq(lines, 1, Min(blank) - 1)
        unfolded(line) == IF Tail(line) = <<".">> THEN <<>> ELSE Tail(line)
        add(fields, line) ==
            IF Head(line) \in Blank
            THEN [fields EXCEPT ![Len(fields)].more = Append(@, unfolded(line))]
            ELSE Append(fields, [name |-> Head(line), value |-> Tail(line), more |-> <<>>])
    IN  FoldLeft(add, <<>>, paragraph)

(* .PKGINFO: one `key = value` a line.                                       *)
ParsedPkginfo(text) ==
    [i \in DOMAIN Lines(text) |-> [name |-> Head(Lines(text)[i]), value |-> Tail(Lines(text)[i])]]

ValuesOf(fields, name) ==
    LET named == SelectSeq(fields, LAMBDA field : field.name = name)
    IN  [i \in DOMAIN named |-> named[i].value]

(* mtree: the defaults in force, overridden by what the line says.           *)
ParsedMtree(lines) ==
    LET or(value, none, default) == IF value = none THEN default ELSE value
        read(state, line) ==
            LET mode == or(line.mode, -1, state.mode)
                kind == or(line.kind, "none", state.kind)
            IN  IF line.path = "/set" THEN [state EXCEPT !.mode = mode, !.kind = kind]
                ELSE [state EXCEPT !.entries =
                         Append(@, [path |-> line.path, kind |-> kind, mode |-> mode])]
    IN  FoldLeft(read, [mode |-> 0, kind |-> "none", entries |-> <<>>], lines).entries

(* A calendar to compare with: the day of a date, counted month by month.    *)
IsLeap(year) == year % 4 = 0 /\ (year % 100 # 0 \/ year % 400 = 0)
DayOf(date) ==
    LET y == date.year - 1
        lengths == <<31, IF IsLeap(date.year) THEN 29 ELSE 28, 31, 30, 31, 30, 31, 31, 30, 31, 30, 31>>
        before == FoldLeft(LAMBDA sum, m : sum + m, 0, SubSeq(lengths, 1, date.month - 1))
    IN  365 * y + y \div 4 - y \div 100 + y \div 400 + before + date.day - 719163
=============================================================================
