----------------------------- MODULE TextEditor -----------------------------
(***************************************************************************)
(* The text editor (pgms/editor.c): a buffer of bytes that holds the text  *)
(* and what lies after it, a place in it kept twice, as file_offset and as *)
(* cursor_x and cursor_y, and counts that every key must keep in step: the *)
(* bytes, the lines, and the length of the cursor's line, which some       *)
(* handlers take with its newline and others without.                      *)
(*                                                                         *)
(* file_ptr is file_address + file_offset in every handler, so one of the  *)
(* two is kept.  A character is "a" or "\n"; bytes of the buffer can also  *)
(* be 0.  Drawing is left out: it changes no state of the editor.          *)
(***************************************************************************)
EXTENDS Integers, Sequences, FiniteSetsExt, SequencesExt

CONSTANTS
    MaxText,    \* bound: the longest text; the code has no check against its buffer
    MaxLoaded,  \* bound: the longest file the editor is started on
    U32Modulus  \* 2^32: the counts and offsets are uint32_t

ASSUME BoundsAssumption ==
    /\ MaxLoaded \in Nat /\ MaxText \in Nat /\ MaxLoaded < MaxText
    /\ U32Modulus \in Nat /\ MaxText + 1 < U32Modulus

Chars == {"a", "\n"}
NUL == "0"
NoFile == -1

Moves == {"LEFT", "RIGHT", "UP", "DOWN", "HOME", "END"}
Removals == {"BACKSPACE", "DEL"}
Controls == {"ctrl-r", "ctrl-s", "ctrl-c", "ctrl-d"}
Keys == Chars \cup Moves \cup Removals \cup Controls

VARIABLES
    bytes,                \* the memory at file_address
    file_length_bytes,
    file_length_lines,
    current_line_length,
    file_offset,
    cursor_x,
    cursor_y,
    unsaved,
    file_mode,
    fd,                   \* NoFile, or 0: the file Ctrl-S writes to
    disk,                 \* the bytes of that file
    key,                  \* key_info: the key that was handled last
    returned,             \* text_editor() has returned
    damaged               \* a key came in one of the cases of Damages (ghost)

place == <<file_offset, cursor_x, cursor_y>>
counts == <<file_length_bytes, file_length_lines>>
file == <<unsaved, file_mode, fd, disk, returned>>
vars == <<bytes, counts, current_line_length, place, file, key, damaged>>

U32(n) == n % U32Modulus

Positions == 0 .. MaxText + 1

\* The text: the first file_length_bytes bytes of the buffer; the count can
\* have wrapped when it is damaged.
Text == [i \in {n \in 1 .. MaxText : n <= file_length_bytes} |-> bytes[i - 1]]

\* The loops that look for the end of a line from position p, in memory b.
LineEnd(b, p) == Min({q \in Positions : q >= p /\ b[q] \in {"\n", NUL}})

Newlines(lo, hi) == {q \in Positions : lo <= q /\ q < hi /\ bytes[q] = "\n"}

-----------------------------------------------------------------------------
(* main() and editor_load_file()                                           *)

\* What the buffer holds for a text t; past the block malloc() gave lies the
\* header of the next one.
Loaded(t, after) ==
    [q \in Positions |-> IF q < Len(t) THEN t[q + 1]
                         ELSE IF q = Len(t) THEN after ELSE NUL]

NewFile ==
    /\ bytes = Loaded(<<>>, NUL)
    /\ file_length_bytes = 0
    /\ file_length_lines = 0
    /\ current_line_length = 0
    /\ file_mode = "NEW"
    /\ fd = NoFile
    /\ disk = <<>>

\* The length of the first line counts its newline, or the byte after the file.
editor_load_file(t) ==
    /\ \E after \in {NUL, "a"} : bytes = Loaded(t, after)
    /\ file_length_bytes = Len(t)
    /\ file_length_lines = Cardinality({i \in 1 .. Len(t) : t[i] = "\n"})
    /\ current_line_length = Min({i \in 0 .. Len(t) : i = Len(t) \/ t[i + 1] = "\n"}) + 1
    /\ file_mode = "UPDATE"
    /\ fd = 0
    /\ disk = t

Init ==
    /\ NewFile \/ \E n \in 0 .. MaxLoaded : \E t \in [1 .. n -> Chars] : editor_load_file(t)
    /\ file_offset = 0
    /\ cursor_x = 0
    /\ cursor_y = 0
    /\ unsaved = FALSE
    /\ key = "none"
    /\ returned = FALSE
    /\ damaged = FALSE

-----------------------------------------------------------------------------
(* The cases in which a key loses the text or the place in it.  A session   *)
(* is followed up to the first of them.                                     *)

LineStart == file_offset - cursor_x
LineLength == LineEnd(bytes, file_offset) - LineStart
AtEnd == file_offset = file_length_bytes

Damages(k) ==
    \* at the end of a line whose length counts the newline: one step too far
    \/ k = "RIGHT" /\ (AtEnd \/ bytes[file_offset] = "\n") /\ cursor_x < current_line_length
    \* a length of 0: the cursor goes to column -1
    \/ k = "END" /\ current_line_length = 0
    \* behind the last character the cursor only moves back, also from column
    \* 0, and the line is taken to be shorter; the byte there is not removed
    \/ k \in Removals /\ AtEnd /\ ~(k = "BACKSPACE" /\ cursor_x = 0)
    \* the search for the line before an empty first line leaves the buffer
    \/ k = "UP" /\ cursor_y = 1 /\ bytes[0] = "\n"
    \* the empty last line is taken to reach as far as the memory after it
    \/ k = "DOWN" /\ cursor_y < file_length_lines
         /\ LineEnd(bytes, file_offset) = file_length_bytes - 1
         /\ bytes[file_length_bytes] # NUL
    \* and the last line, when Return starts it, as far as that memory
    \/ k = "\n" /\ Newlines(file_offset, file_length_bytes) = {}
         /\ bytes[file_length_bytes + 1] # NUL
    \* one byte too few is moved, or 2^32 - 1
    \/ k = "ctrl-d" /\ cursor_y < file_length_lines

-----------------------------------------------------------------------------
(* text_editor(): one action for each case of its two switches.            *)

Pressed(k) ==
    /\ ~returned
    /\ ~damaged
    /\ key' = k
    /\ damaged' = Damages(k)

\* Variant: the places are signed.
PlaceAtSigned(offset, x, y) ==
    /\ file_offset' = offset
    /\ cursor_x' = x
    /\ cursor_y' = y

\* The places are unsigned: a step back from 0 is a step to 2^32 - 1.
PlaceAt(offset, x, y) ==
    /\ file_offset' = U32(offset)
    /\ cursor_x' = U32(x)
    /\ cursor_y' = y

\* No effect: at the edges, on a newline, and Ctrl-D on the last line.
Ignored(k) ==
    /\ Pressed(k)
    /\ \/ k = "BACKSPACE" /\ cursor_x = 0
       \/ k \in Removals /\ bytes[file_offset] = "\n"
       \/ k = "LEFT" /\ cursor_x = 0
       \/ k = "RIGHT" /\ cursor_x >= current_line_length
       \/ k = "UP" /\ cursor_y = 0
       \/ k = "DOWN" /\ cursor_y = file_length_lines
       \/ k = "ctrl-d" /\ cursor_y = file_length_lines
    /\ UNCHANGED <<bytes, counts, current_line_length, place, file>>

Removable(k) == bytes[file_offset] # "\n" /\ ~(k = "BACKSPACE" /\ cursor_x = 0)

\* At a 0 byte, which is taken for the end of the file.
StepBack(k) ==
    /\ Pressed(k)
    /\ Removable(k)
    /\ bytes[file_offset] = NUL /\ file_offset # 0
    /\ PlaceAt(file_offset - 1, cursor_x - 1, cursor_y)
    /\ current_line_length' = U32(current_line_length - 1)
    /\ UNCHANGED <<bytes, counts, file>>

\* memcpy() of what lies behind the place.
DeleteAt(at, x) ==
    /\ bytes' = [q \in Positions |-> IF at <= q /\ q < file_length_bytes
                                     THEN bytes[q + 1] ELSE bytes[q]]
    /\ PlaceAt(at, x, cursor_y)

\* Variant: the change is not marked.
DeleteUnmarked(k) ==
    /\ Pressed(k)
    /\ Removable(k)
    /\ ~(bytes[file_offset] = NUL /\ file_offset # 0)
    /\ IF k = "BACKSPACE" THEN DeleteAt(file_offset - 1, cursor_x - 1)
                   ELSE DeleteAt(file_offset, cursor_x)
    /\ file_length_bytes' = U32(file_length_bytes - 1)
    /\ current_line_length' = U32(current_line_length - 1)
    /\ UNCHANGED <<file_length_lines, file>>

Delete(k) ==
    /\ Pressed(k)
    /\ Removable(k)
    /\ ~(bytes[file_offset] = NUL /\ file_offset # 0)
    /\ IF k = "BACKSPACE" THEN DeleteAt(file_offset - 1, cursor_x - 1)
                   ELSE DeleteAt(file_offset, cursor_x)
    /\ file_length_bytes' = U32(file_length_bytes - 1)
    /\ current_line_length' = U32(current_line_length - 1)
    /\ unsaved' = TRUE
    /\ UNCHANGED <<file_length_lines, file_mode, fd, disk, returned>>

Left ==
    /\ Pressed("LEFT")
    /\ cursor_x # 0
    /\ PlaceAt(file_offset - 1, cursor_x - 1, cursor_y)
    /\ UNCHANGED <<bytes, counts, current_line_length, file>>

Right ==
    /\ Pressed("RIGHT")
    /\ cursor_x < current_line_length
    /\ PlaceAt(file_offset + 1, cursor_x + 1, cursor_y)
    /\ UNCHANGED <<bytes, counts, current_line_length, file>>

\* Variant: the column is kept on a shorter line.
OnLineWide(start, len, y) ==
    /\ current_line_length' = len
    /\ PlaceAt(start + cursor_x, cursor_x, y)

\* The cursor keeps its column, or goes to the end of a shorter line.
OnLine(start, len, y) ==
    LET x == IF len < cursor_x + 1 THEN len - 1 ELSE cursor_x
    IN  /\ current_line_length' = len
        /\ PlaceAt(start + x, x, y)

\* The newline of the line before, and the start of that line.
Up ==
    LET end == Max(Newlines(0, file_offset))
        start == Max({q + 1 : q \in Newlines(0, end)} \cup {0})
    IN  /\ Pressed("UP")
        /\ cursor_y # 0
        /\ end > 0
        /\ OnLine(start, end - start + 1, cursor_y - 1)
        /\ UNCHANGED <<bytes, counts, file>>

\* The search for the start steps from place 0 to 2^32 - 1 and goes on below
\* the buffer: what becomes of it is not followed.
UpRunsAway ==
    /\ Pressed("UP")
    /\ cursor_y # 0
    /\ Max(Newlines(0, file_offset)) = 0
    /\ UNCHANGED <<bytes, counts, current_line_length, place, file>>

\* The line after the next newline, whose end is the text's last byte, if it
\* is neither a newline nor a 0 before.
Down ==
    LET start == Min(Newlines(file_offset, MaxText)) + 1
        last == IF start <= file_length_bytes - 1
                THEN Min({LineEnd(bytes, start), file_length_bytes - 1})
                ELSE LineEnd(bytes, start)
    IN  /\ Pressed("DOWN")
        /\ cursor_y # file_length_lines
        /\ OnLine(start, last - start + 1, cursor_y + 1)
        /\ UNCHANGED <<bytes, counts, file>>

Home ==
    /\ Pressed("HOME")
    /\ PlaceAt(file_offset - cursor_x, 0, cursor_y)
    /\ UNCHANGED <<bytes, counts, current_line_length, file>>

End ==
    /\ Pressed("END")
    /\ PlaceAt(file_offset + (current_line_length - 1 - cursor_x),
               current_line_length - 1, cursor_y)
    /\ UNCHANGED <<bytes, counts, current_line_length, file>>

\* Variant: nothing is moved.
InsertedOver(c) == [bytes EXCEPT ![file_offset] = c]

\* The byte behind the text is overwritten, the bytes behind that are kept.
Inserted(c) ==
    [q \in Positions |->
        IF q = file_offset THEN c
        ELSE IF file_offset < q /\ q <= file_length_bytes THEN bytes[q - 1] ELSE bytes[q]]

Insert(c) ==
    /\ Pressed(c)
    /\ file_length_bytes < MaxText                                   \* bound
    /\ bytes' = Inserted(c)
    /\ file_length_bytes' = file_length_bytes + 1
    /\ unsaved' = TRUE
    /\ IF c = "\n"
       THEN /\ file_length_lines' = file_length_lines + 1
            /\ PlaceAt(file_offset + 1, 0, cursor_y + 1)
            /\ current_line_length' = LineEnd(bytes', file_offset + 1) - (file_offset + 1)
       ELSE /\ PlaceAt(file_offset + 1, cursor_x + 1, cursor_y)
            /\ current_line_length' = U32(current_line_length + 1)
            /\ UNCHANGED file_length_lines
    /\ UNCHANGED <<file_mode, fd, disk, returned>>

\* Ctrl-D: the bytes behind the line are moved over it, all but the last.
DeleteLine ==
    LET moved == file_length_bytes - current_line_length - 1 - LineStart
        b == [q \in Positions |-> IF LineStart <= q /\ q < LineStart + moved
                                  THEN bytes[q + current_line_length] ELSE bytes[q]]
    IN  /\ Pressed("ctrl-d")
        /\ cursor_y # file_length_lines
        /\ moved >= 0
        /\ bytes' = b
        /\ file_length_lines' = file_length_lines - 1
        /\ file_length_bytes' = file_length_bytes - current_line_length
        /\ PlaceAt(LineStart, 0, cursor_y)
        /\ current_line_length' = LineEnd(b, LineStart) - LineStart
        /\ UNCHANGED file

\* The number of bytes to move is 2^32 - 1: the copy runs out of the buffer.
DeleteLineRunsAway ==
    /\ Pressed("ctrl-d")
    /\ cursor_y # file_length_lines
    /\ file_length_bytes - current_line_length - 1 - LineStart < 0
    /\ UNCHANGED <<bytes, counts, current_line_length, place, file>>

\* write() from the start of the file, which never gets shorter.
Overwritten(old) == Text \o SubSeq(old, Len(Text) + 1, Len(old))

\* Ctrl-S: of a new file, open() creates it or finds one that exists; both
\* open() and write() can fail, and the mode has changed all the same.
Save ==
    /\ Pressed("ctrl-s")
    /\ file_mode' = "UPDATE"
    /\ \E old \in IF file_mode = "NEW" THEN {<<>>, <<"a", "\n", "a">>} ELSE {disk} :
          \/ /\ file_mode = "NEW" \/ fd # NoFile
             /\ fd' = 0
             /\ disk' = Overwritten(old)
             /\ unsaved' = FALSE
          \/ /\ fd' = IF file_mode = "NEW" THEN 0 ELSE fd
             /\ disk' = old
             /\ UNCHANGED unsaved
          \/ UNCHANGED <<fd, disk, unsaved>>
    /\ UNCHANGED <<bytes, counts, current_line_length, place, returned>>

\* Ctrl-C: the file gets another name, if it has one and the disk allows.
Rename ==
    /\ Pressed("ctrl-c")
    /\ unsaved' \in {FALSE, unsaved}
    /\ UNCHANGED <<bytes, counts, current_line_length, place, file_mode, fd, disk, returned>>

\* Ctrl-R
Return ==
    /\ Pressed("ctrl-r")
    /\ returned' = TRUE
    /\ UNCHANGED <<bytes, counts, current_line_length, place, unsaved, file_mode, fd, disk>>

Next ==
    \/ \E k \in Keys : Ignored(k)
    \/ \E k \in Removals : StepBack(k) \/ Delete(k)
    \/ \E c \in Chars : Insert(c)
    \/ Left \/ Right \/ Up \/ UpRunsAway \/ Down \/ Home \/ End
    \/ DeleteLine \/ DeleteLineRunsAway
    \/ Save \/ Rename \/ Return

Spec == Init /\ [][Next]_vars

-----------------------------------------------------------------------------
(* Properties                                                              *)

\* Type correctness of main()'s and text_editor()'s variables, whose unsigned
\* ones are 32 bits wide.
TypeOK ==
    /\ bytes \in [Positions -> Chars \cup {NUL}]
    /\ {file_length_bytes, file_length_lines, current_line_length, file_offset,
        cursor_x, cursor_y} \subseteq 0 .. (U32Modulus - 1)
    /\ unsaved \in BOOLEAN /\ returned \in BOOLEAN /\ damaged \in BOOLEAN
    /\ file_mode \in {"NEW", "UPDATE"}
    /\ fd \in {NoFile, 0}
    /\ disk \in Seq(Chars)
    /\ key \in Keys \cup {"none"}

\* After any keys but those of Damages, the counts are those of the text, the
\* cursor and the offset name the same place in it, and the length of the
\* cursor's line is right, with its newline or without.
InStep ==
    ~damaged =>
        /\ file_length_lines = Cardinality(Newlines(0, file_length_bytes))
        /\ file_offset <= file_length_bytes
        /\ cursor_y = Cardinality(Newlines(0, file_offset))
        /\ LineStart = Max({q + 1 : q \in Newlines(0, file_offset)} \cup {0})
        /\ LET end == Min(Newlines(file_offset, file_length_bytes) \cup {file_length_bytes})
           IN  current_line_length - (end - LineStart) \in {0, 1}

\* The buffer with its place implements a text that is edited one character
\* at a time: no key changes, loses or repeats another part of it.
Buffer == INSTANCE TextBuffer WITH
              Chars <- Chars, text <- Text, pos <- file_offset, damaged <- damaged
BufferSpec == Buffer!Spec

\* The mark of unsaved changes is set by every key that changes the text, and
\* only a save of the whole text, or a new name, takes it away: but for the keys
\* that damage the text (Damages), among them Ctrl-D, which deletes lines and
\* leaves the mark as it is (editor.c:327-361).
MarkFollowsText ==
    [][~damaged' =>
        /\ Text' # Text => unsaved'
        /\ unsaved /\ ~unsaved' => key' = "ctrl-c" \/ IsPrefix(Text', disk')]_vars
=============================================================================
