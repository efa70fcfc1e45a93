------------------------------ MODULE FatNames ------------------------------
(***************************************************************************)
(* File names and paths of the FAT library (fat_string.c, fat_misc.c):     *)
(* splitting and comparing them, the entries that hold a long name, short  *)
(* names with tails, dates and times.  Two names are typed character by    *)
(* character; the second one plays the name that was handled before.       *)
(***************************************************************************)
EXTENDS Integers, Sequences, FiniteSets, FiniteSetsExt, SequencesExt

CONSTANTS LFN_LENGTH,  \* MAX_LFN_ENTRY_LENGTH: characters in one entry
          PARTIAL,     \* FAT_SFN_SIZE_PARTIAL: characters before the extension
          EXT,         \* characters of the extension
          MaxName, MaxOther, \* bounds on the two names
          Tails,       \* tail numbers tried
          Stamps       \* <<hours, minutes, seconds, day, month, year>>

VARIABLES name, other, stamp
nameVars == <<name, other, stamp>>

Chars == {"a", "A", ".", " ", "/"}
NUL == "NUL"
ToLower(c) == IF c = "A" THEN "a" ELSE c
ToUpper(c) == IF c = "a" THEN "A" ELSE c
Lowered(s) == [i \in DOMAIN s |-> ToLower(s[i])]
First(s, n) == SubSeq(s, 1, n)
After(s, n) == SubSeq(s, n + 1, Len(s))

Separators(s) == {i \in DOMAIN s : s[i] = "/"}

\* -1 for a path that does not start at the root or has no file.
fatfs_total_path_levels(path) ==
    IF path = <<>> \/ path[1] /= "/" THEN -1
    ELSE Cardinality(Separators(After(path, 1)))
         + (IF Len(path) > 1 /\ Last(path) /= "/" THEN 0 ELSE -1)

\* The characters between the separators number level and level + 1, <<>> for an error.
fatfs_get_substring(path, level) ==
    LET rest == After(path, 1)
        Kept(i) == rest[i] /= "/" /\ Cardinality(Separators(First(rest, i))) = level
        n == Cardinality({i \in DOMAIN rest : Kept(i)})
        from == IF n = 0 THEN 0 ELSE Min({i \in DOMAIN rest : Kept(i)})
    IN  SubSeq(rest, from, from + n - 1)

\* The name is cut off the end of the path, and the separator before it; the answer is
\* <<path, name>>, or <<>> for an error.
SplitAt(path, levels, filename) ==
    IF levels = -1 \/ filename = <<>> THEN <<>>
    ELSE <<IF levels = 0 THEN <<>> ELSE First(path, Len(path) - Len(filename) - 1), filename>>
fatfs_split_path(path) ==
    SplitAt(path, fatfs_total_path_levels(path),
            fatfs_get_substring(path, fatfs_total_path_levels(path)))

\* Mutant: a separator is added although the path ends with one.
CreatePathTwice(path, filename) == path \o <<"/">> \o filename

\* For an output that has room.
fatfs_create_path_string(path, filename) ==
    path \o (IF path /= <<>> /\ Last(path) = "/" THEN <<>> ELSE <<"/">>) \o filename

fatfs_string_ends_with_slash(path) == path /= <<>> /\ Last(path) = "/"

\* The position of the last dot counted from 0, or -1.
FileString_GetExtension(s) == Max({i \in DOMAIN s : s[i] = "."} \cup {0}) - 1

RECURSIVE FileString_TrimLength(_, _)
FileString_TrimLength(s, n) ==
    IF n = 0 \/ s[n] /= " " THEN n ELSE FileString_TrimLength(s, n - 1)

FileString_StrCmpNoCase(s, t, n) ==
    \A i \in 1 .. n : (i <= Len(s)) = (i <= Len(t)) /\ (i <= Len(s) => ToLower(s[i]) = ToLower(t[i]))

\* The file's part without the spaces at its end, and the extension with them.
FilePart(s, e) == FileString_TrimLength(s, IF e = -1 THEN Len(s) ELSE e)
ExtPart(s, e) == IF e = -1 THEN <<>> ELSE After(s, e + 1)
fatfs_compare_names(s, t) ==
    LET e == FileString_GetExtension(s)
        f == FileString_GetExtension(t)
    IN  /\ (e = -1) = (f = -1)
        /\ Len(ExtPart(s, e)) = Len(ExtPart(t, f))
        /\ FileString_StrCmpNoCase(ExtPart(s, e), ExtPart(t, f), Len(ExtPart(s, e)))
        /\ FilePart(s, e) = FilePart(t, f)
        /\ FileString_StrCmpNoCase(s, t, FilePart(s, e))
-----------------------------------------------------------------------------
\* Long names.
fatfs_lfn_entries_required(s) == (Len(s) + LFN_LENGTH - 1) \div LFN_LENGTH

\* Entry k (from 0) of a name: a NUL behind its end, then 0xFF.
fatfs_filename_to_lfn(s, k) ==
    [index |-> k + 1,
     last |-> fatfs_lfn_entries_required(s) = k + 1,
     text |-> [i \in 1 .. LFN_LENGTH |->
                  LET at == k * LFN_LENGTH + i
                  IN  IF at <= Len(s) THEN s[at] ELSE IF at = Len(s) + 1 THEN NUL ELSE "FF"]]

fatfs_lfn_cache_init(lfn) == [lfn EXCEPT !.no_of_strings = 0]

\* The first entry that comes, the last one of the name, tells how many there are.
fatfs_lfn_cache_entry(lfn, e) ==
    [no_of_strings |-> IF lfn.no_of_strings = 0 THEN e.index ELSE lfn.no_of_strings,
     string |-> [lfn.string EXCEPT
        ![e.index] = [i \in 1 .. LFN_LENGTH |-> IF e.text[i] = "FF" THEN " " ELSE e.text[i]]]]

\* A NUL is put behind the entries; what is read ends at the first one.
Terminated(s) == First(s, SelectInSeq(s \o <<NUL>>, LAMBDA c : c = NUL) - 1)
fatfs_lfn_cache_get(lfn) ==
    Terminated(FlattenSeq(First(lfn.string, lfn.no_of_strings)) \o <<NUL>>)

\* The directory holds the entries of a name from the last to the first.
ReadBack(lfn, s) ==
    FoldLeft(LAMBDA l, k : fatfs_lfn_cache_entry(l, fatfs_filename_to_lfn(s, k)),
             fatfs_lfn_cache_init(lfn),
             [i \in 1 .. fatfs_lfn_entries_required(s) |-> fatfs_lfn_entries_required(s) - i])

EmptyCache == [no_of_strings |-> 0,
               string |-> [k \in 1 .. MaxName |-> [i \in 1 .. LFN_LENGTH |-> NUL]]]
-----------------------------------------------------------------------------
\* Short names.
Padded(s, n) == [i \in 1 .. n |-> IF i <= Len(s) THEN ToUpper(s[i]) ELSE " "]

\* Spaces and dots are left out; <<>>: the name starts with a dot.
fatfs_lfn_create_sfn(s) ==
    LET dot == FileString_GetExtension(s)
        base == SelectSeq(IF dot = -1 THEN s ELSE First(s, dot), LAMBDA c : c \notin {" ", "."})
    IN  IF s /= <<>> /\ s[1] = "." THEN <<>>
        ELSE Padded(base, PARTIAL) \o Padded(ExtPart(s, dot), EXT)

RECURSIVE fatfs_itoa(_)
fatfs_itoa(n) == (IF n < 10 THEN <<>> ELSE fatfs_itoa(n \div 10)) \o <<n % 10>>

\* The tail takes the last places before the extension, whatever stands there.
TailAt(sfn, tail) ==
    [i \in DOMAIN sfn |-> IF i \in PARTIAL - Len(tail) + 1 .. PARTIAL
                          THEN tail[i - PARTIAL + Len(tail)] ELSE sfn[i]]
fatfs_lfn_generate_tail(sfn, n) == TailAt(sfn, <<"~">> \o [i \in DOMAIN fatfs_itoa(n) |-> ToString(fatfs_itoa(n)[i])])
-----------------------------------------------------------------------------
\* Dates and times, packed in 16 bits.
fatfs_convert_to_fat_time(h, m, s) == (h % 32) * 2048 + (m % 64) * 32 + ((s \div 2) % 32)
fatfs_convert_from_fat_time(t) == <<(t \div 2048) % 32, (t \div 32) % 64, (t % 32) * 2>>
fatfs_convert_to_fat_date(d, m, y) ==
    (d % 32) + (m % 16) * 32 + ((IF y >= 1980 THEN y - 1980 ELSE y) % 128) * 512
fatfs_convert_from_fat_date(t) == <<t % 32, (t \div 32) % 16, ((t \div 512) % 128) + 1980>>
-----------------------------------------------------------------------------
InitNames == name = <<>> /\ other = <<>> /\ stamp \in Stamps

TypeName(c) == Len(name) < MaxName /\ name' = Append(name, c) /\ UNCHANGED <<other, stamp>>
TypeOther(c) == Len(other) < MaxOther /\ other' = Append(other, c) /\ UNCHANGED <<name, stamp>>

NextNames ==
    /\ stamp = CHOOSE s \in Stamps : TRUE
    /\ \E c \in Chars : TypeName(c) \/ TypeOther(c)

SpecNames == InitNames /\ [][NextNames]_nameVars
-----------------------------------------------------------------------------
\* What a comparison ignores: case, and spaces before the extension.
Folded(s) ==
    LET e == FileString_GetExtension(s)
    IN  <<e = -1, Lowered(First(s, FilePart(s, e))), Lowered(ExtPart(s, e))>>

\* A path joined from a directory and a file splits into them again (but for
\* a separator at the directory's end); a long name comes back from its
\* entries whatever the name read before left in the cache, also when it fills its last entry;
\* names are the same if and only if they differ in case and in spaces before the
\* extension only; no two tails give the same short name; and dates and times come
\* back, to two seconds.
FatNamesRoundTrip ==
    /\ (name /= <<>> /\ name[1] = "/" /\ other /= <<>> /\ Separators(other) = {})
          => fatfs_split_path(fatfs_create_path_string(name, other))
                = <<First(name, Len(name) - (IF fatfs_string_ends_with_slash(name) THEN 1 ELSE 0)), other>>
    /\ name /= <<>> => fatfs_lfn_cache_get(ReadBack(ReadBack(EmptyCache, other), name)) = name
    /\ name /= <<>> => fatfs_lfn_cache_get(ReadBack(ReadBack(EmptyCache, name), other)) = other
    /\ fatfs_compare_names(name, other) = (Folded(name) = Folded(other))
    /\ \A s, t \in Tails : s /= t /\ fatfs_lfn_create_sfn(name) /= <<>> =>
          fatfs_lfn_generate_tail(fatfs_lfn_create_sfn(name), s)
             /= fatfs_lfn_generate_tail(fatfs_lfn_create_sfn(name), t)
    /\ fatfs_convert_from_fat_time(fatfs_convert_to_fat_time(stamp[1], stamp[2], stamp[3]))
          = <<stamp[1], stamp[2], stamp[3] - (stamp[3] % 2)>>
    /\ fatfs_convert_from_fat_date(fatfs_convert_to_fat_date(stamp[4], stamp[5], stamp[6]))
          = <<stamp[4], stamp[5], stamp[6]>>
=============================================================================
