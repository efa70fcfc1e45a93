--------------------------- MODULE Ext4JournalTags ---------------------------
(***************************************************************************)
(* The table of tags in the descriptor blocks of the ext4 journal: how     *)
(* jbd_journal_prepare packs the blocks of a transaction into it, and how  *)
(* jbd_iterate_block_table finds them again.  A behaviour packs one list   *)
(* of blocks and reads it back.                                            *)
(***************************************************************************)
EXTENDS Integers, Sequences

CONSTANTS TableSizes,  \* bytes of the table, block tail included
          Highs,       \* upper halves of the block numbers
          MaxTags

Features == SUBSET {"CSUM_V2", "CSUM_V3", "64BIT"}
UUID_SIZE == 16
TAIL == 4              \* sizeof(struct jbd_block_tail)

\* What is logged: the two halves of a block number, and whether the block
\* begins with the journal's magic number.
Logged == [high : Highs, low : {0, 1}, is_escape : BOOLEAN]

VARIABLES features, size, tags,
          tables,   \* the descriptor blocks: offset -> tag
          read      \* what the reader found so far
tagVars == <<features, size, tags, tables, read>>

has_csum(f) == "CSUM_V2" \in f \/ "CSUM_V3" \in f

jbd_tag_bytes(f) ==
    IF "CSUM_V3" \in f THEN 16
    ELSE 12 + (IF "CSUM_V2" \in f THEN 2 ELSE 0) - (IF "64BIT" \in f THEN 0 ELSE 4)

TableBytes(f, n) == IF has_csum(f) THEN n - TAIL ELSE n

\* The bytes a tag takes, its UUID included, or 0: EINVAL.
TagBytes(f, remain, uuid) ==
    LET n == jbd_tag_bytes(f) + (IF uuid THEN UUID_SIZE ELSE 0)
    IN  IF remain < n THEN 0 ELSE n

\* Mutant: the first tag of a block claims to carry no UUID.
WriteBlockTagNoUuid(f, t, uuid, last) ==
    [high |-> IF "64BIT" \in f THEN t.high ELSE 0, low |-> t.low, is_escape |-> t.is_escape,
     same_uuid |-> TRUE, last_tag |-> last]

\* Without the 64BIT feature a tag has no room for the upper half.
jbd_write_block_tag(f, t, uuid, last) ==
    [high |-> IF "64BIT" \in f THEN t.high ELSE 0, low |-> t.low, is_escape |-> t.is_escape,
     same_uuid |-> ~uuid, last_tag |-> last]

\* jbd_journal_prepare: the first tag of a block carries the UUID; a tag that does
\* not fit starts another block.  A block that cannot hold one tag would start
\* another for ever; the sizes of real blocks rule that out.
RECURSIVE Pack(_, _, _, _, _)
Pack(f, n, todo, table, at) ==
    IF todo = <<>> THEN <<table>>
    ELSE LET uuid == at = 0
             bytes == TagBytes(f, TableBytes(f, n) - at, uuid)
             tag == jbd_write_block_tag(f, Head(todo), uuid, Len(todo) = 1)
         IN  IF bytes = 0 THEN <<table>> \o Pack(f, n, todo, <<>>, 0)
             ELSE Pack(f, n, Tail(todo), Append(table, [at |-> at, tag |-> tag]), at + bytes)

Stale == [high |-> -1, low |-> 0, is_escape |-> FALSE]

TagAt(table, at) ==
    LET here == {i \in DOMAIN table : table[i].at = at}
    IN  IF here = {} THEN <<>> ELSE <<table[CHOOSE i \in here : TRUE].tag>>

\* jbd_iterate_block_table with jbd_extract_block_tag.  Where nobody wrote a tag
\* the reader would find what the buffer held before.
RECURSIVE jbd_iterate_block_table(_, _, _, _)
jbd_iterate_block_table(f, n, table, at) ==
    LET remain == TableBytes(f, n) - at
        found == TagAt(table, at)
        bytes == TagBytes(f, remain, ~found[1].same_uuid)
        info == [high |-> IF "64BIT" \in f THEN found[1].high ELSE 0,
                 low |-> found[1].low, is_escape |-> found[1].is_escape]
    IN  IF remain < jbd_tag_bytes(f) THEN <<>>
        ELSE IF found = <<>> THEN <<Stale>>
        ELSE IF bytes = 0 THEN <<>>
        ELSE IF found[1].last_tag THEN <<info>>
        ELSE <<info>> \o jbd_iterate_block_table(f, n, table, at + bytes)

InitTags == features = {} /\ size = 0 /\ tags = <<>> /\ tables = <<>> /\ read = <<>>

WriteBlocks ==
    /\ tags = <<>>
    /\ \E f \in Features, n \in TableSizes, k \in 1 .. MaxTags :
          /\ TagBytes(f, TableBytes(f, n), TRUE) > 0
          /\ \E ts \in [1 .. k -> Logged] :
                features' = f /\ size' = n /\ tags' = ts /\ tables' = Pack(f, n, ts, <<>>, 0)
    /\ UNCHANGED read

ReadBlock ==
    /\ tables /= <<>>
    /\ read' = read \o jbd_iterate_block_table(features, size, Head(tables), 0)
    /\ tables' = Tail(tables)
    /\ UNCHANGED <<features, size, tags>>

Finish ==
    /\ tags /= <<>> /\ tables = <<>>
    /\ features' = {} /\ size' = 0 /\ tags' = <<>> /\ read' = <<>>
    /\ UNCHANGED tables

NextTags == WriteBlocks \/ ReadBlock \/ Finish
SpecTags == InitTags /\ [][NextTags]_tagVars

(* Recovery finds exactly the blocks the transaction logged, in order, however
   many descriptor blocks they took and whatever room was left in them: no tag is
   missed where one block ends, and none is made up from stale bytes behind the
   last one.  The upper half of a block number survives only with 64BIT. *)
TagsRoundTrip ==
    tags /= <<>> /\ tables = <<>> =>
        read = [i \in DOMAIN tags |->
                  [tags[i] EXCEPT !.high = IF "64BIT" \in features THEN @ ELSE 0]]
=============================================================================
