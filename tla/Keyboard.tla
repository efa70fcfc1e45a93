------------------------------- MODULE Keyboard -------------------------------
(***************************************************************************)
(* The keyboard interrupt handler (keyboard.c), the input stream it fills    *)
(* (stream.c) and the two ways to read: kb_getchar_w, which polls the slot  *)
(* g_ch, and getchar, which takes from the stream.  The handler runs with   *)
(* interrupts off, so it is one step; it may run between any two accesses   *)
(* of a reader.  A character is its glyph with the number of its key event.  *)
(***************************************************************************)
EXTENDS Integers, Sequences, FiniteSets, SequencesExt

CONSTANTS Keys,           \* the keys that are typed
          IO_STREAM_SIZE,
          MaxEvents,      \* bound on the key events
          Owners          \* process ids that take the keyboard

Released == "released"    \* a scan code with bit 7 set
Special == {"caps", "shift", Released}

VARIABLES events,   \* auxiliary: the key events so far
          kb,       \* g_ch, g_caps_lock, g_shift_pressed, current_caller_process_id, active; since: events before active
          io,       \* io_stream and io_stream_pos
          poller,   \* kb_getchar_w: where it is, what it holds, what it returned so far
          taker,    \* getchar: where it is, the position it loaded, what it returned so far
          aside     \* auxiliary: a handler ran inside getchar, or the position was set
keyVars == <<events, kb, io, poller, taker, aside>>

None == [glyph |-> "", n |-> 0]     \* the character 0
Char(g) == [glyph |-> g, n |-> Len(events) + 1]

alternate_chars(g) == CASE g = "1" -> "!" [] OTHER -> g
upper(g) == CASE g = "a" -> "A" [] OTHER -> g
isalpha(g) == g = "a"

\* The default case of the switch: a character key, "0" for a key without character.
Typed(key, caps, shift) ==
    IF caps THEN (IF shift THEN alternate_chars(key) ELSE upper(key))
    ELSE IF shift THEN (IF isalpha(key) THEN upper(key) ELSE alternate_chars(key)) ELSE key

Plain(key) == key \in {"a", "1", "0"}

\* Mutant: shift outlasts the character it was meant for.
AfterKeySticky(key) ==
    [kb EXCEPT !.caps = IF key = "caps" THEN ~@ ELSE @,
               !.shift = @ \/ key = "shift",
               !.ch = IF key \in Special \cup {"0"} THEN None
                      ELSE Char(IF Plain(key) THEN Typed(key, kb.caps, kb.shift) ELSE key)]

\* keyboard_handler up to the stream.  Enter, tab, the arrows and the function keys have
\* characters of their own.
AfterKey(key) ==
    [kb EXCEPT !.caps = IF key = "caps" THEN ~@ ELSE @,
               !.shift = IF Plain(key) /\ ~kb.caps THEN FALSE ELSE @ \/ key = "shift",
               !.ch = IF key \in Special \cup {"0"} THEN None
                      ELSE Char(IF Plain(key) THEN Typed(key, kb.caps, kb.shift) ELSE key)]

\* The test for the end of the stream never holds: a full stream is written beyond.
push_io(s, c) == [cells |-> [s.cells EXCEPT ![s.pos + 1] = c], pos |-> s.pos + 1]

keyboard_handler ==
    /\ Len(events) < MaxEvents
    /\ \E key \in Keys : \E k \in {AfterKey(key)} :
          /\ events' = Append(events, key)
          /\ kb' = k
          /\ io' = IF k.ch /= None /\ k.active THEN push_io(io, k.ch) ELSE io
          /\ aside' = (aside \/ (io' /= io /\ taker.at \in {"store", "fetch"}))
    /\ UNCHANGED <<poller, taker>>

init_io_system ==
    /\ ~kb.active
    /\ kb' = [kb EXCEPT !.active = TRUE, !.since = Len(events)]
    /\ UNCHANGED <<events, io, poller, taker, aside>>

-----------------------------------------------------------------------------
\* kb_getchar_w, behind get_char's question for the owner of the keyboard.

lock_kb_input ==
    /\ poller.at \in {"idle", "wait"}
    /\ \E o \in Owners \cup {0} : kb' = [kb EXCEPT !.owner = o]
    /\ UNCHANGED <<events, io, poller, taker, aside>>

\* The reader has process id 0; it is not asked again while it waits.
get_char ==
    /\ poller.at = "idle" /\ kb.owner = 0
    /\ poller' = [poller EXCEPT !.at = "wait"]
    /\ UNCHANGED <<events, kb, io, taker, aside>>

Seen ==
    /\ poller.at = "wait" /\ kb.ch /= None
    /\ poller' = [poller EXCEPT !.at = "load"]
    /\ UNCHANGED <<events, kb, io, taker, aside>>

Load ==
    /\ poller.at = "load"
    /\ poller' = [poller EXCEPT !.at = "clear", !.c = kb.ch]
    /\ UNCHANGED <<events, kb, io, taker, aside>>

Clear ==
    /\ poller.at = "clear"
    /\ kb' = [kb EXCEPT !.ch = None]
    /\ poller' = [at |-> "idle", c |-> None, got |-> Append(poller.got, poller.c)]
    /\ UNCHANGED <<events, io, taker, aside>>

-----------------------------------------------------------------------------
\* getchar; EOF, when the stream is empty, leaves everything as it is.

LoadPos ==
    /\ kb.active /\ taker.at = "idle" /\ io.pos > 0
    /\ taker' = [taker EXCEPT !.at = "store", !.pos = io.pos]
    /\ UNCHANGED <<events, kb, io, poller, aside>>

StorePos ==
    /\ taker.at = "store"
    /\ io' = [io EXCEPT !.pos = taker.pos - 1]
    /\ taker' = [taker EXCEPT !.at = "fetch"]
    /\ UNCHANGED <<events, kb, poller, aside>>

Fetch ==
    /\ taker.at = "fetch"
    /\ taker' = [at |-> "idle", pos |-> 0, got |-> Append(taker.got, io.cells[taker.pos])]
    /\ UNCHANGED <<events, kb, io, poller, aside>>

\* set_io_pos, for fseek(stdin).
set_io_pos ==
    /\ kb.active /\ taker.at = "idle" /\ ~aside
    /\ \E p \in 0 .. IO_STREAM_SIZE : p /= io.pos /\ io' = [io EXCEPT !.pos = p]
    /\ aside' = TRUE
    /\ UNCHANGED <<events, kb, poller, taker>>

\* A reader of one kind: the two share only what the handler writes.
InitKeyboard ==
    /\ events = <<>>
    /\ kb = [ch |-> None, caps |-> FALSE, shift |-> FALSE, owner |-> 0, active |-> FALSE, since |-> 0]
    /\ io = [cells |-> [i \in 1 .. IO_STREAM_SIZE + MaxEvents |-> None], pos |-> 0]
    /\ \E r \in {"poller", "taker"} :
          /\ poller = [at |-> IF r = "poller" THEN "idle" ELSE "none", c |-> None, got |-> <<>>]
          /\ taker = [at |-> IF r = "taker" THEN "idle" ELSE "none", pos |-> 0, got |-> <<>>]
    /\ aside = FALSE

NextKeyboard ==
    \/ keyboard_handler \/ init_io_system \/ lock_kb_input \/ get_char \/ Seen \/ Load \/ Clear
    \/ LoadPos \/ StorePos \/ Fetch \/ set_io_pos
SpecKeyboard == InitKeyboard /\ [][NextKeyboard]_keyVars
-----------------------------------------------------------------------------
Caps(i) == Cardinality({j \in 1 .. i : events[j] = "caps"}) % 2 = 1

\* A shift was pressed and no character typed since, but with the caps lock on.
ShiftAt(i) ==
    \E j \in 1 .. i - 1 : /\ events[j] = "shift"
                          /\ \A m \in j + 1 .. i - 1 : Plain(events[m]) => Caps(m)

Glyph(i) ==
    IF events[i] = "a" THEN (IF Caps(i) /= ShiftAt(i) THEN "A" ELSE "a")
    ELSE IF events[i] = "1" THEN (IF ShiftAt(i) THEN "!" ELSE "1") ELSE events[i]

AllTyped(cs) == \A i \in DOMAIN cs : cs[i] /= None => cs[i].glyph = Glyph(cs[i].n)

Increasing(cs) == \A i, j \in DOMAIN cs : i < j /\ cs[i] /= None /\ cs[j] /= None => cs[i].n < cs[j].n

OnStream == SubSeq(io.cells, 1, io.pos)

\* Whatever a reader is given was typed, with the glyph that caps lock and shift call for at
\* that event.  kb_getchar_w returns keys in the order they were typed and none twice,
\* although its slot is cleared and refilled under it, but it may miss some, or return 0
\* when the key is released between its two looks.  As long as no key arrives within a
\* getchar, the stream loses nothing: every character is unread, in the order it was typed,
\* or has been returned once.
KeysArrive ==
    /\ AllTyped(poller.got) /\ Increasing(poller.got)
    /\ AllTyped(taker.got) /\ AllTyped(OnStream)
    /\ ~aside /\ taker.at \in {"idle", "none"} =>
          /\ Increasing(OnStream)
          /\ ToSet(OnStream) \cap ToSet(taker.got) = {}
          /\ IsInjective(taker.got)
          /\ kb.active => {c.n : c \in ToSet(OnStream) \cup ToSet(taker.got)}
                             = {i \in kb.since + 1 .. Len(events) : events[i] \notin Special \cup {"0"}}
=============================================================================
