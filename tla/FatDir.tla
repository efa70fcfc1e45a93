------------------------------- MODULE FatDir -------------------------------
(***************************************************************************)
(* A FAT directory with long file names (fat_access.c, fat_misc.c and      *)
(* fat_write.c): an array of slots, in which a name has one or more slots  *)
(* of text before the slot of its short name.  A removed file keeps its    *)
(* text; only the slot of its short name is marked.                        *)
(***************************************************************************)
EXTENDS Integers, Sequences, FiniteSets, FiniteSetsExt, SequencesExt

CONSTANTS Names,
          TextSlots,   \* the number of text slots a name needs
          Base,        \* the short name it has without a tail
          SLOTS,       \* slots in a cluster
          MaxClusters, \* bound on the directory: free clusters of the volume, and one
          MaxTail,     \* 9999
          MaxSize      \* bound on the lengths written

VARIABLES slots,    \* the directory
          present,  \* auxiliary: the short name and the length of every file
          reader    \* a listing: position, names so far, names that were there all along
dirVars == <<slots, present, reader>>

\* An entry that is neither: text or a short name.
BLANK == [kind |-> "blank"]
DELETED == [kind |-> "deleted"]
Text(n, k) == [kind |-> "text", name |-> n, k |-> k]
Short(s, size) == [kind |-> "short", short |-> s, size |-> size]

fatfs_entry_lfn_text(e) == e.kind = "text"
fatfs_entry_lfn_invalid(e) == e.kind \in {"blank", "deleted"}
fatfs_entry_sfn_only(e) == e.kind = "short"
fatfs_lfn_entries_required(n) == TextSlots[n]

\* The cache that collects the text of a name: how many slots it has, and the pieces
\* seen, which are kept when it is emptied.
NoText == [no_of_strings |-> 0, string |-> [k \in 1 .. Max({TextSlots[n] : n \in Names}) |-> ""]]
fatfs_lfn_cache_init(lfn) == [lfn EXCEPT !.no_of_strings = 0]
fatfs_lfn_cache_entry(lfn, e) ==
    [lfn EXCEPT !.no_of_strings = IF @ = 0 THEN e.k ELSE @, !.string[e.k] = e.name]

\* The name the collected text spells; "" if it is none of them.
fatfs_lfn_cache_get(lfn) ==
    LET spelt == {n \in Names : /\ lfn.no_of_strings = TextSlots[n]
                                /\ \A k \in 1 .. TextSlots[n] : lfn.string[k] = n}
    IN  IF spelt = {} THEN "" ELSE CHOOSE n \in spelt : TRUE

\* Mutant: the text of a removed file stays in the cache.
CacheAfterKeeps(lfn, e) ==
    IF fatfs_entry_lfn_text(e) THEN fatfs_lfn_cache_entry(lfn, e)
    ELSE IF fatfs_entry_lfn_invalid(e) THEN lfn ELSE fatfs_lfn_cache_init(lfn)

\* What a scan does with the cache when it passes an entry.
CacheAfter(lfn, e) ==
    IF fatfs_entry_lfn_text(e) THEN fatfs_lfn_cache_entry(lfn, e) ELSE fatfs_lfn_cache_init(lfn)

\* The next short name at i or behind it: its place (0 at the end) and the name the
\* text before it spells, or "": a listing then shows the short name.
RECURSIVE NextFile(_, _, _)
NextFile(d, i, lfn) ==
    IF i > Len(d) THEN [at |-> 0, name |-> ""]
    ELSE IF fatfs_entry_sfn_only(d[i]) THEN [at |-> i, name |-> fatfs_lfn_cache_get(lfn)]
    ELSE NextFile(d, i + 1, CacheAfter(lfn, d[i]))

\* The place of a name, 0 if it is not found.
RECURSIVE FindFrom(_, _, _)
FindFrom(d, i, n) ==
    LET f == NextFile(d, i, NoText)
    IN  IF f.at = 0 \/ f.name = n THEN f.at ELSE FindFrom(d, f.at + 1, n)
fatfs_get_file_entry(d, n) == FindFrom(d, 1, n)

\* The place of a short name, 0 if there is none.
FindShort(d, s) == SelectInSeq(d, LAMBDA e : fatfs_entry_sfn_only(e) /\ e.short = s)
fatfs_sfn_exists(d, s) == FindShort(d, s) /= 0

\* _create_file's loop: the first tail whose short name is free; MaxTail if none is.
TailNum(d, n) ==
    LET unused == {t \in 0 .. MaxTail - 1 : ~fatfs_sfn_exists(d, <<Base[n], t>>)}
    IN  IF unused = {} THEN MaxTail ELSE Min(unused)

\* A run of slots for need entries that starts at start, if spaces of them were seen
\* before slot i.  Text is counted in case its file turns out to be removed.
RECURSIVE Run(_, _, _, _, _)
Run(d, i, spaces, start, need) ==
    LET first == IF spaces = 0 THEN i ELSE start
    IN  IF i > Len(d) THEN [end |-> TRUE, start |-> start]
        ELSE IF fatfs_entry_sfn_only(d[i]) THEN Run(d, i + 1, 0, 0, need)
        ELSE IF fatfs_entry_lfn_invalid(d[i]) /\ spaces + 1 >= need
        THEN [end |-> FALSE, start |-> first]
        ELSE Run(d, i + 1, spaces + 1, first, need)

\* At the end of the directory it grows by a cluster, once.
fatfs_find_free_dir_offset(d, need) ==
    LET r == Run(d, 1, 0, 0, need)
    IN  IF ~r.end THEN [slots |-> d, start |-> r.start]
        ELSE IF Len(d) = MaxClusters * SLOTS THEN [slots |-> d, start |-> 0]
        ELSE [slots |-> d \o [i \in 1 .. SLOTS |-> BLANK],
              start |-> IF r.start = 0 THEN Len(d) + 1 ELSE r.start]

\* The text from its last piece to its first, then the short name.  Where the
\* directory ends before that, what was written stays.
fatfs_add_file_entry(d, n, s) ==
    LET need == fatfs_lfn_entries_required(n) + 1
        f == fatfs_find_free_dir_offset(d, need)
        new == [i \in 1 .. need |-> IF i = need THEN Short(s, 0) ELSE Text(n, need - i)]
    IN  IF f.start = 0 THEN [slots |-> d, ok |-> FALSE]
        ELSE [slots |-> [i \in DOMAIN f.slots |->
                            IF i \in f.start .. f.start + need - 1 THEN new[i - f.start + 1]
                            ELSE f.slots[i]],
              ok |-> f.start + need - 1 <= Len(f.slots)]
-----------------------------------------------------------------------------
NoFile == [short |-> <<>>, size |-> 0]
Present == {n \in Names : present[n] /= NoFile}
Idle == [at |-> 0, got |-> <<>>, stayed |-> {}, done |-> FALSE]

InitDir ==
    /\ slots = [i \in 1 .. SLOTS |-> BLANK]
    /\ present = [n \in Names |-> NoFile]
    /\ reader = Idle

_create_file(n) ==
    LET t == TailNum(slots, n)
    IN  \E a \in {fatfs_add_file_entry(slots, n, <<Base[n], t>>)} :
        /\ fatfs_get_file_entry(slots, n) = 0 /\ t < MaxTail
        /\ slots' = a.slots
        /\ present' = IF a.ok THEN [present EXCEPT ![n] = [short |-> <<Base[n], t>>, size |-> 0]]
                      ELSE present
        /\ UNCHANGED reader

\* Callers have the short name from the entry they opened.
fatfs_mark_file_deleted(n) ==
    /\ fatfs_get_file_entry(slots, n) /= 0
    /\ slots' = [slots EXCEPT ![FindShort(slots, slots[fatfs_get_file_entry(slots, n)].short)] = DELETED]
    /\ present' = [present EXCEPT ![n] = NoFile]
    /\ reader' = [reader EXCEPT !.stayed = @ \ {n}]

fatfs_update_file_length(n, size) ==
    /\ fatfs_get_file_entry(slots, n) /= 0
    /\ slots' = [slots EXCEPT ![FindShort(slots, slots[fatfs_get_file_entry(slots, n)].short)].size = size]
    /\ present' = [present EXCEPT ![n].size = size]
    /\ UNCHANGED reader

fatfs_list_directory_start ==
    /\ reader = Idle
    /\ reader' = [Idle EXCEPT !.at = 1, !.stayed = Present]
    /\ UNCHANGED <<slots, present>>

fatfs_list_directory_next ==
    LET f == NextFile(slots, reader.at, NoText)
    IN  /\ reader.at > 0 /\ ~reader.done
        /\ reader' = IF f.at = 0 THEN [reader EXCEPT !.done = TRUE]
                     ELSE [reader EXCEPT !.at = f.at + 1, !.got = Append(@, f.name)]
        /\ UNCHANGED <<slots, present>>

EndList == reader.done /\ reader' = Idle /\ UNCHANGED <<slots, present>>

NextDir ==
    \/ \E n \in Names :
          \/ _create_file(n) \/ fatfs_mark_file_deleted(n)
          \/ \E size \in 1 .. MaxSize : fatfs_update_file_length(n, size)
    \/ fatfs_list_directory_start \/ fatfs_list_directory_next \/ EndList

SpecDir == InitDir /\ [][NextDir]_dirVars
-----------------------------------------------------------------------------
\* A name is found if and only if it was added and not removed, with the length it
\* was given last, whatever text removed files and failed additions left behind;
\* no two files have the same short name, by which lengths and removals find them.
FatDirKeepsNames ==
    /\ \A n \in Names : LET at == fatfs_get_file_entry(slots, n)
                        IN  IF n \in Present THEN at /= 0 /\ slots[at] = Short(present[n].short, present[n].size)
                            ELSE at = 0
    /\ \A i, j \in DOMAIN slots :
          i /= j /\ fatfs_entry_sfn_only(slots[i]) /\ fatfs_entry_sfn_only(slots[j])
              => slots[i].short /= slots[j].short

\* A listing reports every file that was there all along exactly once under its full
\* name, however the directory changes meanwhile.
ListsEveryFile ==
    reader.done => \A n \in reader.stayed : Len(SelectSeq(reader.got, LAMBDA m : m = n)) = 1
=============================================================================
