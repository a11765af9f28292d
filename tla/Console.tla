------------------------------- MODULE Console -------------------------------
(***************************************************************************)
(* The shell's line: keys go to cmdString and, through printf() and        *)
(* terminal_write(), to the screen; enter cuts the string into argv.  The  *)
(* screen knows nothing of the string: what the user sees is right only if *)
(* the cursor moves, wraps and scrolls in step with it.                    *)
(*                                                                         *)
(* The screen is a row of rows of cells.  X is an unsigned that steps back *)
(* from 0 to the largest value; a glyph drawn there lands in the last      *)
(* columns of the row.                                                     *)
(***************************************************************************)
EXTENDS Integers, FiniteSetsExt, SequencesExt

CONSTANTS
    Columns,    \* X_LIMIT
    Rows,       \* Y_LIMIT
    XModulus,   \* 2^32: X is a uint32_t
    LenModulus, \* 2^8: input_length is a uint8_t, cmdString has as many bytes
    MaxArgs,    \* 10: the length of argv
    PromptLen,  \* the length of the prompt
    MaxKeys     \* bound: keys that are typed

ASSUME SizesAssumption ==
    /\ Columns \in Nat /\ Columns > PromptLen /\ PromptLen \in Nat
    /\ Rows \in Nat /\ Rows >= 3
    /\ XModulus \in Nat /\ XModulus > 2 * Columns
    /\ LenModulus \in Nat \ {0} /\ MaxArgs \in Nat \ {0} /\ MaxKeys \in Nat

VARIABLES
    cmdString,     \* its bytes; "nul" ends the string
    input_length,
    terminal,      \* [X, Y, cells], and if the cursor is out of step (ghost)
    typed,         \* the line that was typed: keys less backspaces (ghost)
    keys           \* keys so far (bounded)

vars == <<cmdString, input_length, terminal, typed, keys>>

Bytes == 0 .. LenModulus - 1
Cells == 0 .. Columns * Rows - 1
Printable == {"letter", " ", "quote"}
Chars == Printable \cup {"escape"}
Blank == " "
NotBlank == {"nul", "letter", "quote", "escape"}

-----------------------------------------------------------------------------
(* terminal_write()                                                        *)

\* The cursor has been stepped back over the left edge.
LeftOfScreen(t) == t.X >= Columns

Cursor(t) ==
    t.Y * Columns + (IF LeftOfScreen(t) THEN Columns - (XModulus - t.X) ELSE t.X)

\* Lines 1 to the last go up by one; the last stays as it is.
Scrolled(cells) ==
    [c \in Cells |-> IF c + Columns \in Cells THEN cells[c + Columns] ELSE cells[c]]

\* Variant: the line feed in the last row but one does not scroll.
LineFeedLow(t) ==
    IF t.Y + 1 >= Rows THEN [t EXCEPT !.cells = Scrolled(@)] ELSE [t EXCEPT !.Y = @ + 1]

\* The last row but one is the last that is written.
LineFeed(t) ==
    IF t.Y + 1 >= Rows - 1 THEN [t EXCEPT !.cells = Scrolled(@)] ELSE [t EXCEPT !.Y = @ + 1]

CarriageReturn(t) == [t EXCEPT !.X = 0]

\* Variant: X is compared as a signed number.
AdvancedSigned(t) ==
    IF t.X + 1 # Columns THEN [t EXCEPT !.X = (@ + 1) % XModulus]
    ELSE LineFeed(CarriageReturn(t))

\* A step right: from one cell over the left edge it ends in column 0, from
\* further out it is taken for a step over the right edge.
Advanced(t) ==
    LET right == (t.X + 1) % XModulus
    IN  IF right < Columns THEN [t EXCEPT !.X = right]
        ELSE LineFeed(CarriageReturn(t))

\* A character, drawn at the cursor.  An escape with nothing behind it draws
\* nothing, and the cursor is a cell behind the line from there on.
PutChar(t, c) ==
    IF c = "escape" THEN [t EXCEPT !.astray = TRUE]
    ELSE Advanced([t EXCEPT !.cells[Cursor(t)] = c])

\* "\033BS;"
Backspace(t) ==
    [t EXCEPT !.X = (@ - 1) % XModulus, !.astray = @ \/ t.X = 0 \/ LeftOfScreen(t)]

\* The shell's "\033BS;  \033BS;\033BS;"
Erased(t) ==
    Backspace(Backspace(PutChar(PutChar(Backspace(t), Blank), Blank)))

NewLine(t) == LineFeed(CarriageReturn(t))

\* "\r\n" and the prompt; lines is how much the command prints.
Prompted(t, lines) ==
    LET started == FoldLeft(LAMBDA u, i : NewLine(u), t, [i \in 1 .. lines |-> i])
        prompted == FoldLeft(PutChar, started, [i \in 1 .. PromptLen |-> "letter"])
    IN  [prompted EXCEPT !.astray = FALSE]

-----------------------------------------------------------------------------
(* The key loop                                                            *)

ClearScreen == [X |-> 0, Y |-> 0, cells |-> [c \in Cells |-> Blank], astray |-> FALSE]

Init ==
    /\ cmdString = [b \in Bytes |-> "nul"]
    /\ input_length = 0
    /\ terminal = Prompted(ClearScreen, 1)
    /\ typed = <<>>
    /\ keys = 0

Pressed ==
    /\ keys < MaxKeys                                                 \* bound
    /\ keys' = keys + 1

Char(c) ==
    /\ Pressed
    /\ cmdString' = [cmdString EXCEPT ![input_length] = c]
    /\ input_length' = (input_length + 1) % LenModulus
    /\ terminal' = PutChar(terminal, c)
    /\ typed' = Append(typed, c)

\* Nothing happens when nothing is held.
BackspaceKey ==
    /\ Pressed
    /\ IF input_length > 0
       THEN /\ input_length' = input_length - 1
            /\ cmdString' = [cmdString EXCEPT ![input_length - 1] = "nul"]
            /\ terminal' = Erased(terminal)
            /\ typed' = Front(typed)
       ELSE UNCHANGED <<input_length, cmdString, terminal, typed>>

-----------------------------------------------------------------------------
(* Enter: the string is cut into tokens                                    *)

\* The first byte from p on that is one of cs; LenModulus is past the string.
Find(mem, p, cs) == Min({q \in p .. LenModulus - 1 : mem[q] \in cs} \cup {LenModulus})

\* Where a token that begins at s ends: a quote is passed over with what
\* follows it up to the next, also behind the end of the line.
TokenEnd(mem, s) ==
    LET close == IF s < LenModulus /\ mem[s] = "quote"
                 THEN Find(mem, s + 1, {"quote"}) ELSE s
    IN  IF close = LenModulus THEN LenModulus ELSE Find(mem, close, {" ", "nul"})

\* Variant: blanks at the end begin no token.
CutTrimmed(mem) ==
    LET from[p \in 0 .. LenModulus] ==
            IF p = LenModulus \/ mem[p] = "nul" THEN <<>>
            ELSE LET start == Find(mem, p, NotBlank)
                 IN  IF start < LenModulus /\ mem[start] = "nul" THEN <<>>
                     ELSE << [at |-> p, start |-> start, end |-> TokenEnd(mem, start)] >>
                              \o from[TokenEnd(mem, start)]
    IN  from[0]

\* The tokens of the string: each is found at the end of the one before, and
\* begins behind the blanks there.
Cut(mem) ==
    LET from[p \in 0 .. LenModulus] ==
            IF p = LenModulus \/ mem[p] = "nul" THEN <<>>
            ELSE LET start == Find(mem, p, NotBlank)
                 IN  << [at |-> p, start |-> start, end |-> TokenEnd(mem, start)] >>
                         \o from[TokenEnd(mem, start)]
    IN  from[0]

\* The string as enter ends it.
Ended == [cmdString EXCEPT ![input_length] = "nul"]

argc == Len(Cut(Ended))

\* What a slot holds that no token was put in: a null pointer.
NoArg == <<"nul">>

\* The slots of the array; a token is the string from its first byte on.
argv ==
    [i \in 1 .. MaxArgs |->
        IF i > argc THEN NoArg
        ELSE LET token == Cut(Ended)[i]
             IN  [j \in 1 .. token.end - token.start |-> Ended[token.start + j - 1]]]

\* The store of a token is not tested: one more than there are slots is
\* written behind the array, over what the compiler has put there.
ArgvOverrun == argc > MaxArgs

\* The search for a quote or the end has left the string.
RanOff == \E token \in Range(Cut(Ended)) : token.end = LenModulus

\* Nothing to cut: one more line is printed.
EnterNothing ==
    /\ Pressed
    /\ input_length = 0
    /\ terminal' = Prompted(NewLine(terminal), 3)
    /\ typed' = <<>>
    /\ UNCHANGED <<cmdString, input_length>>

\* Blanks before a token are overwritten as they are skipped; the string is
\* not cleared for the next line.  A line that writes behind argv, or whose
\* tokens lie behind cmdString, is not followed: the model ends before it.
Enter ==
    /\ Pressed
    /\ input_length > 0
    /\ ~RanOff /\ ~ArgvOverrun
    /\ terminal' = Prompted(NewLine(terminal), 1)
    /\ cmdString' = [b \in Bytes |->
                        IF \E token \in Range(Cut(Ended)) : b \in token.at .. token.start - 1
                        THEN "nul" ELSE Ended[b]]
    /\ input_length' = 0
    /\ typed' = <<>>

Next ==
    \/ \E c \in Chars : Char(c)
    \/ BackspaceKey
    \/ EnterNothing
    \/ Enter

Spec == Init /\ [][Next]_vars

-----------------------------------------------------------------------------
(* Properties                                                              *)

\* Type correctness of the shell's line (kernel.c:270-303) and the terminal's
\* cursor (terminal.h:137-231), which stays above the last row and, between two
\* keys, is on the screen or at most two cells left of it: the first blank that
\* a backspace key prints out there takes X home to column 0.
TypeOK ==
    /\ cmdString \in [Bytes -> Chars \cup {"nul"}]
    /\ input_length \in Bytes
    /\ terminal.X \in 0 .. Columns - 1 \cup {XModulus - 1, XModulus - 2}
    /\ terminal.Y \in 0 .. Rows - 2
    /\ terminal.cells \in [Cells -> Printable]
    /\ typed \in Seq(Chars)
    /\ keys \in 0 .. MaxKeys

\* The count has gone round: what was typed before it is not in the line.
Wrapped == Len(typed) # input_length

\* The shell's key loop against terminal_write(): over wraps at the right edge,
\* scrolls and backspaces, the cells before the cursor are the line that enter
\* will run, and none behind it shows anything: as long as no backspace has gone
\* over the left edge (where the code does lose the line), no escape was typed
\* and the line is shorter than its counter.
ScreenShowsLine ==
    ~Wrapped /\ ~terminal.astray =>
        LET last == Cursor(terminal)
        IN  /\ \A i \in 1 .. input_length :
                   LET c == last - input_length + i - 1
                   IN  c \in Cells => terminal.cells[c] = cmdString[i - 1]
            /\ \A c \in Cells : c >= last => terminal.cells[c] = Blank

\* The words of a line, read from left to right: a blank ends a word, unless
\* the word began with a quote that is still open.
Read(state, c) ==
    IF c = " " /\ ~state.open
    THEN [words |-> IF state.word = <<>> THEN state.words ELSE Append(state.words, state.word),
          word |-> <<>>, open |-> FALSE]
    ELSE [words |-> state.words, word |-> Append(state.word, c),
          open |-> IF c = "quote" /\ (state.open \/ state.word = <<>>)
                   THEN ~state.open ELSE state.open]

AtEnd(line) == FoldLeft(Read, [words |-> <<>>, word |-> <<>>, open |-> FALSE], line)

\* The tokens a line asks for: its words, and an empty string more when it ends
\* in a blank.
Asked(line) == AtEnd(line).words \o << AtEnd(line).word >>

\* The shell's tokenizer (kernel.c:305-331): whatever earlier lines have left
\* behind the end of this one, argc and the slots of argv are the tokens of the
\* line that was typed, and null behind them: unless the line asks for more
\* tokens than argv has slots (kernel.c:134; the store at 316 is not tested and
\* goes behind the array), a quote is left open, or the count has gone round.
ArgvIsWords ==
    input_length > 0 /\ ~Wrapped /\ ~AtEnd(typed).open /\ Len(Asked(typed)) <= MaxArgs =>
        /\ argc = Len(Asked(typed))
        /\ \A i \in 1 .. MaxArgs :
               argv[i] = IF i <= argc THEN Asked(typed)[i] ELSE NoArg
=============================================================================
