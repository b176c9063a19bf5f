---------------------------- MODULE WinTtyWrite ----------------------------
(***************************************************************************)
(* Writing to a console on Windows (the second half of src/win/tty.c).     *)
(* uv__tty_write_bufs runs every byte through a UTF-8 decoder and a parser *)
(* for escape sequences; text is collected and flushed before a command    *)
(* is carried out.  All the state lives on between writes, so a character  *)
(* or a sequence may be cut anywhere.                                      *)
(*                                                                         *)
(* Characters are their codes.  The console is its cursor, its window, its *)
(* attributes and its rows; what a cell shows is left out.  The build is   *)
(* the one with _BitScanReverse, and the console knows no escape sequences *)
(* itself (uv__vterm_state is UV_TTY_UNSUPPORTED).                         *)
(***************************************************************************)
EXTENDS Integers, Sequences, FiniteSets

CONSTANTS
  Alphabets,  \* sets of bytes: a behaviour writes bytes of one of them
  ArgvSize,   \* ARRAY_SIZE(ansi_csi_argv), 4 in the code
  MaxArg,     \* UINT16_MAX, 65535 in the code
  BufSize,    \* MAX_CONSOLE_CHAR, 8192 in the code
  Width, Rows,  \* the screen buffer
  Samples,    \* code points on which the decoder is checked
  MaxBytes,   \* bound: bytes written
  MaxFaults   \* bound: changes of the window, failures of the console

VARIABLES
  h,         \* the handle: decoder, parser, collected text
  con,       \* the console, and the virtual window of tty.c
  ideal,     \* history: the console if text were written at once
  alphabet, bytes, faults

vars == <<h, con, ideal, alphabet, bytes, faults>>

Default == [fg |-> 7, fi |-> 0, bg |-> 0, bi |-> 0, inv |-> 0]

(***************************************************************************)
(* h:   left, cp, eol   utf8_bytes_left, utf8_codepoint, previous_eol      *)
(*      st              ansi_parser_state, a set of flags, {}: ANSI_NORMAL *)
(*      argv            the arguments, as many as ansi_csi_argc            *)
(*      used            utf16_buf, code units                              *)
(*      err             *error, of this write                              *)
(*      number, over    history: the argument being parsed, unbounded, and *)
(*                      its first value that UINT16_MAX does not hold      *)
(*      style           history: the colours asked for                     *)
(*      moved, stairs   history: a command followed the last text, a line  *)
(*                      feed did not end in the first column               *)
(*      failed          history: the console failed once                   *)
(* con: x, y, top, height   cursor, first row and rows of the window       *)
(*      voff, vheight   uv_tty_virtual_offset and _height                  *)
(*      attr, visible, shape, saved                                        *)
(*      count           history: cells that the last command cleared       *)
(*      broken          calls of the console fail                          *)
(***************************************************************************)
Init ==
  /\ h = [left |-> 0, cp |-> 0, eol |-> 0, st |-> {}, argv |-> <<>>, used |-> <<>>,
          err |-> FALSE, number |-> 0, over |-> 0, style |-> Default, moved |-> FALSE, stairs |-> FALSE, failed |-> FALSE]
  /\ con = [x |-> 0, y |-> Rows - 2, top |-> Rows - 2, height |-> 2, voff |-> Rows - 2,
            vheight |-> 2, attr |-> Default, visible |-> 1, shape |-> 0,
            saved |-> <<>>, count |-> 1, broken |-> FALSE]
  /\ ideal = con
  /\ alphabet \in Alphabets /\ bytes = 0 /\ faults = 0

-----------------------------------------------------------------------------
(* The decoder.                                                            *)

\* The position of the highest zero bit of a byte, -1 for 0xff.
FirstZeroBit(c) ==
  IF c < 128 THEN 7 ELSE IF c < 192 THEN 6 ELSE IF c < 224 THEN 5 ELSE IF c < 240 THEN 4
  ELSE IF c < 248 THEN 3 ELSE IF c < 252 THEN 2 ELSE IF c < 254 THEN 1
  ELSE IF c = 254 THEN 0 ELSE -1

Replacement == 65533
Continues(c) == c \div 64 = 2

\* Mutant: a character cut short by another one swallows it.
DecodeSwallows(d, c) ==
  LET bit == FirstZeroBit(c) IN
  IF d.left = 0
  THEN IF bit = 7 THEN [left |-> 0, cp |-> c, again |-> FALSE]
       ELSE IF bit \in 0..5
       THEN [left |-> 6 - bit, cp |-> c % (2 ^ bit), again |-> FALSE]
       ELSE [left |-> 0, cp |-> Replacement, again |-> FALSE]
  ELSE [left |-> d.left - 1, cp |-> d.cp * 64 + (c % 64), again |-> FALSE]

\* The decoder after a byte; again: the byte is parsed once more, as the
\* start of a character.
Decode(d, c) ==
  LET bit == FirstZeroBit(c) IN
  IF d.left = 0
  THEN IF bit = 7 THEN [left |-> 0, cp |-> c, again |-> FALSE]
       ELSE IF bit \in 0..5
       THEN [left |-> 6 - bit, cp |-> c % (2 ^ bit), again |-> FALSE]
       ELSE [left |-> 0, cp |-> Replacement, again |-> FALSE]
  ELSE IF Continues(c)
  THEN [left |-> d.left - 1, cp |-> d.cp * 64 + (c % 64), again |-> FALSE]
  ELSE [left |-> 0, cp |-> Replacement, again |-> TRUE]

RECURSIVE DecodeAll(_, _)
DecodeAll(d, bs) == IF bs = <<>> THEN d ELSE DecodeAll(Decode(d, Head(bs)), Tail(bs))

\* A code point in UTF-16 code units.
Units(cp) ==
  IF cp <= 65535 THEN <<cp>>
  ELSE <<(cp - 65536) \div 1024 + 55296, ((cp - 65536) % 1024) + 56320>>

-----------------------------------------------------------------------------
(* The console.                                                            *)

\* External: the window follows the cursor.
Follow(k) ==
  [k EXCEPT !.top = IF k.y < @ THEN k.y ELSE IF k.y >= @ + k.height THEN k.y - k.height + 1
                    ELSE @]

\* External: a code unit is printed; the buffer scrolls at its last row.
NextRow(k) == [k EXCEPT !.y = IF @ = Rows - 1 THEN @ ELSE @ + 1]
Put(k, u) ==
  Follow(IF u = 13 THEN [k EXCEPT !.x = 0]
         ELSE IF u = 10 THEN NextRow(k)
         ELSE IF k.x = Width - 1 THEN NextRow([k EXCEPT !.x = 0])
         ELSE [k EXCEPT !.x = @ + 1])

RECURSIVE PutAll(_, _)
PutAll(k, us) == IF us = <<>> THEN k ELSE PutAll(Put(k, Head(us)), Tail(us))

\* Mutant: the window is not pushed back into the screen buffer.
UpdateVirtualWindowOut(k) ==
  [k EXCEPT !.vheight = k.height,
            !.voff = IF @ < k.y - k.height + 1 THEN k.y - k.height + 1 ELSE @]

\* uv__tty_update_virtual_window, once it has an offset.
UpdateVirtualWindow(k) ==
  LET scrolled == IF k.voff < k.y - k.height + 1 THEN k.y - k.height + 1 ELSE k.voff
      fitted == IF scrolled + k.height > Rows THEN Rows - k.height ELSE scrolled
  IN [k EXCEPT !.vheight = k.height, !.voff = IF fitted < 0 THEN 0 ELSE fitted]

\* uv__tty_make_real_coord, in a console whose virtual window is up to date.
Clip(v, low, high) == IF v < low THEN low ELSE IF v > high THEN high ELSE v
RealCoord(k, x, xRelative, y, yRelative) ==
  <<Clip(IF xRelative THEN k.x + x ELSE x, 0, Width - 1),
    Clip((IF yRelative THEN k.y ELSE k.voff) + y, k.voff, k.voff + k.vheight - 1)>>

\* uv__tty_move_caret.
MoveCaret(k, x, xRelative, y, yRelative) ==
  LET v == UpdateVirtualWindow(k)
      pos == RealCoord(v, x, xRelative, y, yRelative)
  IN Follow([v EXCEPT !.x = pos[1], !.y = pos[2]])

\* uv__tty_reset.
Reset(k) ==
  LET moved == Follow([k EXCEPT !.attr = Default, !.x = 0, !.y = 0]) IN
  [UpdateVirtualWindow([moved EXCEPT !.voff = 0]) EXCEPT
     !.visible = 1, !.shape = 0, !.count = Width * Rows]

\* uv__tty_clear: from or to the cursor, or all; of the row or the screen.
ClearCells(k, dir, entire) ==
  LET v == UpdateVirtualWindow(k)
      start == IF entire THEN RealCoord(v, 0, dir = 0, 0, dir = 0)
               ELSE RealCoord(v, 0, dir = 0, 0, TRUE)
      far == IF dir = 1 THEN 0 ELSE 65535
      end == IF entire THEN RealCoord(v, far, dir = 1, far, dir = 1)
             ELSE RealCoord(v, far, dir = 1, 0, TRUE)
  IN [v EXCEPT !.count = (end[2] * Width + end[1]) - (start[2] * Width + start[1]) + 1]

\* The attributes with foreground and background exchanged.
Flip(a) == [a EXCEPT !.fg = a.bg, !.fi = a.bi, !.bg = a.fg, !.bi = a.fi]

\* One argument of uv__tty_set_style, on what changes so far.
StyleArg(s, arg) ==
  IF arg = 0 THEN Default
  ELSE IF arg = 1 THEN [s EXCEPT !.fi = 1]
  ELSE IF arg = 2 THEN [s EXCEPT !.fi = 0, !.bi = 0]
  ELSE IF arg = 5 THEN [s EXCEPT !.bi = 1]
  ELSE IF arg = 7 THEN [s EXCEPT !.inv = 1]
  ELSE IF arg \in {21, 22} THEN [s EXCEPT !.fi = 0]
  ELSE IF arg = 25 THEN [s EXCEPT !.bi = 0]
  ELSE IF arg = 27 THEN [s EXCEPT !.inv = 0]
  ELSE IF arg \in 30..37 THEN [s EXCEPT !.fg = arg - 30]
  ELSE IF arg = 39 THEN [s EXCEPT !.fg = Default.fg, !.fi = Default.fi]
  ELSE IF arg \in 40..47 THEN [s EXCEPT !.bg = arg - 40]
  ELSE IF arg = 49 THEN [s EXCEPT !.bg = Default.bg, !.bi = Default.bi]
  ELSE IF arg \in 90..97 THEN [s EXCEPT !.fi = 1, !.fg = arg - 90]
  ELSE IF arg \in 100..107 THEN [s EXCEPT !.bi = 1, !.bg = arg - 100]
  ELSE s

RECURSIVE StyleArgs(_, _)
StyleArgs(s, argv) == IF argv = <<>> THEN s ELSE StyleArgs(StyleArg(s, Head(argv)), Tail(argv))

NoStyle == [fg |-> -1, fi |-> -1, bg |-> -1, bi |-> -1, inv |-> -1]

\* Mutant: attributes that are shown inverted are changed as they are.
SetStyleShown(k, argv) ==
  LET s == IF argv = <<>> THEN Default ELSE StyleArgs(NoStyle, argv)
      new == [f \in DOMAIN Default |-> IF s[f] = -1 THEN k.attr[f] ELSE s[f]]
  IN [k EXCEPT !.attr = IF s = NoStyle THEN @ ELSE new]

\* uv__tty_set_style: inverted attributes are turned back, changed, and
\* turned again if they are still, or now, inverted.
SetStyle(k, argv) ==
  LET s == IF argv = <<>> THEN Default ELSE StyleArgs(NoStyle, argv)
      plain == IF k.attr.inv = 1 THEN Flip(k.attr) ELSE k.attr
      new == [f \in DOMAIN Default |-> IF s[f] = -1 THEN plain[f] ELSE s[f]]
  IN [k EXCEPT !.attr = IF s = NoStyle THEN @ ELSE IF new.inv = 1 THEN Flip(new) ELSE new]

\* uv__tty_save_state and uv__tty_restore_state: the position in the virtual
\* window, and the intensities if asked for.
SaveState(k, attributes) ==
  LET v == UpdateVirtualWindow(k)
      old == IF k.saved = <<>> THEN <<>> ELSE k.saved[3]
  IN [v EXCEPT !.saved = <<v.x, v.y - v.voff,
                           IF attributes THEN <<v.attr.fi, v.attr.bi>> ELSE old>>]
RestoreState(k, attributes) ==
  IF k.saved = <<>> THEN k
  ELSE LET m == MoveCaret(k, k.saved[1], FALSE, k.saved[2], FALSE) IN
       IF attributes /\ k.saved[3] # <<>>
       THEN [m EXCEPT !.attr.fi = k.saved[3][1], !.attr.bi = k.saved[3][2]] ELSE m

\* uv__tty_set_cursor_shape: the sizes are default, large and small.
SetCursorShape(k, style) == [k EXCEPT !.shape = IF style = 0 THEN 0 ELSE IF style <= 2 THEN 1 ELSE 2]

-----------------------------------------------------------------------------
(* The parser.  A result is the handle, the command to carry out, <<>> for *)
(* none, and whether the character is text.                                *)

Goes(g, st) == <<[g EXCEPT !.st = st], <<>>, FALSE>>
Prints(g) == <<g, <<>>, TRUE>>
Does(g, command) == <<[g EXCEPT !.st = {}], command, FALSE>>

Digit(c) == c \in 48..57
CommandByte(c) == c \in 64..126
BeginCsi(g) == <<[g EXCEPT !.st = {"CSI"}, !.argv = <<>>], <<>>, FALSE>>

ParseNormal(g, c) ==
  IF c = 27 THEN Goes(g, {"ESCAPE_SEEN"}) ELSE IF c = 155 THEN BeginCsi(g) ELSE Prints(g)

\* '[', the controls that end with ST, ESC, and 'c', '7' and '8'.
ParseEscape(g, c) ==
  IF c = 91 THEN BeginCsi(g)
  ELSE IF c \in {94, 95, 80, 93} THEN Goes(g, {"ST_CONTROL"})
  ELSE IF c = 27 THEN Goes(g, g.st)
  ELSE IF c = 99 THEN Does(g, <<"reset">>)
  ELSE IF c = 55 THEN Does(g, <<"save", TRUE>>)
  ELSE IF c = 56 THEN Does(g, <<"restore", TRUE>>)
  ELSE IF c \in 64..95 THEN Goes(g, {})
  ELSE Prints([g EXCEPT !.st = {}])

ParseIgnore(g, c) == Goes(g, IF CommandByte(c) THEN {} ELSE g.st)

\* ESC [ arg space: only 'q' is known.  Another character is printed and the
\* rest of the sequence ignored.
ParseDecscusr(g, c) ==
  LET style == IF g.argv = <<>> THEN 1 ELSE g.argv[1] IN
  IF ~CommandByte(c) THEN Prints([g EXCEPT !.st = {"IGNORE"}])
  ELSE IF c = 113 /\ style <= 6 THEN Does(g, <<"shape", style>>)
  ELSE Goes(g, {})

\* Mutant: the size of argv is not looked at for an empty argument.
NewArgUnchecked(g, value, flags) ==
  <<[g EXCEPT !.argv = Append(@, value), !.st = @ \cup flags, !.number = value,
             !.over = 0], <<>>, FALSE>>

\* A new argument, if there is room.
NewArg(g, value, flags) ==
  IF Len(g.argv) >= ArgvSize THEN Goes(g, {"IGNORE"})
  ELSE <<[g EXCEPT !.argv = Append(@, value), !.st = @ \cup flags, !.number = value,
             !.over = 0], <<>>, FALSE>>

\* Mutant: the overflow is not checked.
NextDigitUnchecked(g, d) ==
  LET n == Len(g.argv) IN
  <<[g EXCEPT !.argv[n] = (10 * g.argv[n] + d) % (MaxArg + 1), !.number = 10 * @ + d,
              !.over = IF @ = 0 /\ 10 * g.number + d > MaxArg THEN 10 * g.number + d ELSE @],
    <<>>, FALSE>>

\* Another digit of the last argument.
NextDigit(g, d) ==
  LET n == Len(g.argv)
      value == 10 * g.argv[n]
  IN IF value > MaxArg THEN Goes(g, {"IGNORE"})
     ELSE <<[g EXCEPT !.argv[n] = (value + d) % (MaxArg + 1), !.number = 10 * @ + d,
                      !.over = IF @ = 0 /\ 10 * g.number + d > MaxArg THEN 10 * g.number + d
                               ELSE @],
            <<>>, FALSE>>

\* The commands of ESC [ args c; the first argument or its default.
Arg(g, n, default) == IF Len(g.argv) >= n THEN g.argv[n] ELSE default
FromOne(g, n) == IF Arg(g, n, 0) # 0 THEN Arg(g, n, 0) - 1 ELSE 0

CsiCommand(g, c) ==
  LET n == Arg(g, 1, 1) IN
  IF c = 65 THEN <<"move", 0, TRUE, -n, TRUE>>
  ELSE IF c = 66 THEN <<"move", 0, TRUE, n, TRUE>>
  ELSE IF c = 67 THEN <<"move", n, TRUE, 0, TRUE>>
  ELSE IF c = 68 THEN <<"move", -n, TRUE, 0, TRUE>>
  ELSE IF c = 69 THEN <<"move", 0, FALSE, n, TRUE>>
  ELSE IF c = 70 THEN <<"move", 0, FALSE, -n, TRUE>>
  ELSE IF c = 71 THEN <<"move", FromOne(g, 1), FALSE, 0, TRUE>>
  ELSE IF c \in {72, 102} THEN <<"move", FromOne(g, 2), FALSE, FromOne(g, 1), FALSE>>
  ELSE IF c \in {74, 75} THEN (IF Arg(g, 1, 0) \in 0..2 THEN <<"clear", Arg(g, 1, 0), c = 74>>
                               ELSE <<"flush">>)
  ELSE IF c = 109 THEN <<"style", g.argv>>
  ELSE IF c = 115 THEN <<"save", FALSE>>
  ELSE IF c = 117 THEN <<"restore", FALSE>>
  ELSE <<>>

\* ESC [ ? 25 l and h.
ExtensionCommand(g, c) ==
  IF c \in {104, 108} /\ g.argv = <<25>> THEN <<"visible", IF c = 104 THEN 1 ELSE 0>> ELSE <<>>

ParseCsi(g, c) ==
  IF Digit(c)
  THEN IF "IN_ARG" \in g.st THEN NextDigit(g, c - 48) ELSE NewArg(g, c - 48, {"IN_ARG"})
  ELSE IF c = 59
  THEN IF "IN_ARG" \in g.st THEN Goes(g, g.st \ {"IN_ARG"}) ELSE NewArg(g, 0, {})
  ELSE IF c = 63 /\ g.st = {"CSI"} /\ g.argv = <<>> THEN Goes(g, g.st \cup {"EXTENSION"})
  ELSE IF c = 32 /\ "EXTENSION" \notin g.st THEN Goes(g, {"DECSCUSR"})
  ELSE IF CommandByte(c)
  THEN Does(g, IF "EXTENSION" \in g.st THEN ExtensionCommand(g, c) ELSE CsiCommand(g, c))
  ELSE Goes(g, {"IGNORE"})

\* Everything up to BEL or ESC \, which do not count within a string.
ParseStControl(g, c) ==
  Goes(g, IF "IN_STRING" \in g.st
          THEN IF "BACKSLASH_SEEN" \in g.st THEN g.st \ {"BACKSLASH_SEEN"}
               ELSE IF c = 34 THEN g.st \ {"IN_STRING"}
               ELSE IF c = 92 THEN g.st \cup {"BACKSLASH_SEEN"} ELSE g.st
          ELSE IF c = 7 \/ (c = 92 /\ "ESCAPE_SEEN" \in g.st) THEN {}
          ELSE IF c = 27 THEN g.st \cup {"ESCAPE_SEEN"}
          ELSE IF c = 34 THEN (g.st \cup {"IN_STRING"}) \ {"ESCAPE_SEEN", "BACKSLASH_SEEN"}
          ELSE g.st \ {"ESCAPE_SEEN"})

Parse(g, c) ==
  IF g.st = {} THEN ParseNormal(g, c)
  ELSE IF g.st = {"ESCAPE_SEEN"} THEN ParseEscape(g, c)
  ELSE IF g.st = {"IGNORE"} THEN ParseIgnore(g, c)
  ELSE IF g.st = {"DECSCUSR"} THEN ParseDecscusr(g, c)
  ELSE IF "CSI" \in g.st THEN ParseCsi(g, c)
  ELSE ParseStControl(g, c)

-----------------------------------------------------------------------------
(* Carrying out.                                                           *)

Run(k, command) ==
  CASE command[1] = "move" -> MoveCaret(k, command[2], command[3], command[4], command[5])
    [] command[1] = "clear" -> ClearCells(k, command[2], command[3])
    [] command[1] = "style" -> SetStyle(k, command[2])
    [] command[1] = "save" -> SaveState(k, command[2])
    [] command[1] = "restore" -> RestoreState(k, command[2])
    [] command[1] = "reset" -> Reset(k)
    [] command[1] = "visible" -> [k EXCEPT !.visible = command[2]]
    [] command[1] = "shape" -> SetCursorShape(k, command[2])
    [] command[1] = "flush" -> k

\* These do not look whether a call failed before.
Undaunted(command) == command[1] \in {"style", "visible", "shape"}

\* FLUSH_TEXT: a pair of handle and console.
FlushText(g, k) ==
  IF g.used = <<>> THEN <<g, k>>
  ELSE IF g.err \/ k.broken
  THEN <<[g EXCEPT !.used = <<>>, !.err = TRUE, !.failed = TRUE], k>>
  ELSE <<[g EXCEPT !.used = <<>>], PutAll(k, g.used)>>

\* Mutant: a command does not wait for the text before it.
CarryOutAtOnce(g, k, command) == <<g, Run(k, command)>>

CarryOut(g, k, command) ==
  LET f == FlushText(g, k) IN
  IF command = <<"flush">> THEN f
  ELSE IF f[2].broken THEN <<[f[1] EXCEPT !.err = TRUE, !.failed = TRUE], f[2]>>
  ELSE IF f[1].err /\ ~Undaunted(command) THEN f
  ELSE <<f[1], Run(f[2], command)>>

\* Mutant: the line feed is written as it is.
EolUnitsPlain(g, c) == <<c>>

\* What is printed for \n and \r.
EolUnits(g, c) ==
  IF c = 10 /\ g.eol # 13 THEN <<13, 10>>
  ELSE IF c = 13 /\ g.eol = 10 THEN <<>>
  ELSE <<c>>

\* Text goes to the buffer, which is flushed when there is no room.
Text(g, k, c) ==
  LET units == IF c \in {10, 13} THEN EolUnits(g, c) ELSE Units(c)
      f == IF Len(units) > BufSize - Len(g.used) THEN FlushText(g, k) ELSE <<g, k>>
  IN <<[f[1] EXCEPT !.used = @ \o units, !.eol = IF c \in {10, 13} THEN c ELSE 0], f[2]>>

\* A character after the decoder and the parser: handle and console.
Character(p, k, c) ==
  IF p[2] # <<>> THEN CarryOut(p[1], k, p[2])
  ELSE IF p[3] THEN Text(p[1], k, c)
  ELSE <<p[1], k>>

\* History: the same character on the console without a buffer, the colours
\* that the arguments ask for, and where a line feed ends.
Ideally(g, p, i, c) ==
  LET units == IF c \in {10, 13} THEN EolUnits(g, c) ELSE Units(c) IN
  IF p[2] # <<>> THEN Run(i, p[2]) ELSE IF p[3] THEN PutAll(i, units) ELSE i

PlainStyle(g, command, i) ==
  IF command = <<>> THEN g.style
  ELSE IF command[1] = "style"
  THEN LET s == IF command[2] = <<>> THEN Default ELSE StyleArgs(NoStyle, command[2])
       IN [f \in DOMAIN Default |-> IF s[f] = -1 THEN g.style[f] ELSE s[f]]
  ELSE IF i.attr.inv = 1 THEN Flip(i.attr) ELSE i.attr

Noted(g, old, p, i, c) ==
  [g EXCEPT !.moved = IF p[3] /\ c \notin {10, 13} THEN FALSE ELSE @ \/ p[2] # <<>>,
            !.stairs = @ \/ (p[3] /\ c = 10 /\ ~old.moved /\ i.x # 0),
            !.style = PlainStyle(old, p[2], i)]

\* A byte, on the handle and the two consoles, and the decoder after it.
Feed(s, b) ==
  LET d == Decode(s[1], b)
      start == [s[1] EXCEPT !.left = d.left, !.cp = d.cp]
      p == Parse(start, d.cp)
      r == Character(p, s[2], d.cp)
      i == Ideally(s[1], p, s[3], d.cp)
  IN IF d.left # 0 THEN <<start, s[2], s[3], d.again>>
     ELSE <<Noted(r[1], s[1], p, i, d.cp), r[2], i, d.again>>

\* A byte of a write, which may be parsed twice.
Byte(b) ==
  /\ bytes < MaxBytes /\ bytes' = bytes + 1
  /\ LET first == Feed(<<h, con, ideal>>, b)
         s == IF first[4] THEN Feed(first, b) ELSE first
     IN h' = s[1] /\ con' = s[2] /\ ideal' = s[3]
  /\ UNCHANGED <<alphabet, faults>>

\* The end of uv__tty_write_bufs; the next write begins without an error.
WriteEnds ==
  /\ h.used # <<>> \/ h.err
  /\ LET f == FlushText(h, con) IN h' = [f[1] EXCEPT !.err = FALSE] /\ con' = f[2]
  /\ UNCHANGED <<ideal, alphabet, bytes, faults>>

\* External: the user changes the height of the window, or the console fails
\* and works again.
ResizeWindow ==
  /\ faults < MaxFaults /\ faults' = faults + 1 /\ h.used = <<>>
  /\ \E n \in 1..Rows :
       /\ con' = [con EXCEPT !.height = n, !.top = Clip(con.y - n + 1, 0, Rows - n)]
       /\ ideal' = [ideal EXCEPT !.height = n, !.top = Clip(ideal.y - n + 1, 0, Rows - n)]
  /\ UNCHANGED <<h, alphabet, bytes>>

Break ==
  /\ faults < MaxFaults /\ faults' = faults + 1
  /\ con' = [con EXCEPT !.broken = ~@]
  /\ UNCHANGED <<h, ideal, alphabet, bytes>>

Next == (\E b \in alphabet : Byte(b)) \/ WriteEnds \/ ResizeWindow \/ Break

Spec == Init /\ [][Next]_vars

-----------------------------------------------------------------------------
(* What tty.c promises of writing.                                         *)

ParserStates ==
  {{}, {"ESCAPE_SEEN"}, {"IGNORE"}, {"DECSCUSR"}}
  \cup {{"CSI"} \cup e : e \in SUBSET {"IN_ARG", "EXTENSION"}}
  \cup {{"ST_CONTROL"} \cup e : e \in SUBSET {"ESCAPE_SEEN", "IN_STRING", "BACKSLASH_SEEN"}}

\* The parser is never in the state in which the code aborts, a command ends
\* it in ANSI_NORMAL, and argv is never written past its end, nor before its
\* beginning by a digit.
ParserConsistent ==
  /\ h.st \in ParserStates
  /\ "BACKSLASH_SEEN" \in h.st => "IN_STRING" \in h.st
  /\ Len(h.argv) <= ArgvSize
  /\ "IN_ARG" \in h.st => Len(h.argv) >= 1

\* An argument is the number that was written; a sequence with a larger one
\* than argv holds is ignored.  The check comes before the last digit is
\* added, so a number that is at most nine too large wraps around instead.
ArgumentIsExact ==
  "IN_ARG" \in h.st =>
    /\ h.over = 0 => h.argv[Len(h.argv)] = h.number
    /\ h.over <= (MaxArg \div 10) * 10 + 9

\* Collecting the text changes nothing: with the buffer flushed, the console
\* is as if every character had been written at once, in order with the
\* commands.
TextBeforeCommand ==
  ~h.failed /\ h.used = <<>> => [con EXCEPT !.broken = FALSE] = ideal

\* A line feed ends in the first column, however \r and \n are mixed and cut,
\* if no command moved the cursor since the last other character.
NewlineReturns == ~h.stairs

\* The cursor is set and cells are cleared within the screen buffer, so that
\* the console does not refuse and the retry of move_caret and clear ends;
\* the virtual window is part of the screen buffer.
CaretInWindow ==
  /\ con.x \in 0..(Width - 1) /\ con.y \in 0..(Rows - 1)
  /\ con.voff >= 0 /\ con.voff + con.vheight <= Rows
  /\ con.count \in 1..(Width * Rows)

\* Colours that are set while fore- and background are exchanged are the
\* colours that show when they no longer are.
StyleIsKept ==
  ~h.failed => con.attr = IF h.style.inv = 1 THEN Flip(h.style) ELSE h.style

\* Reference: the bytes of a code point.
Encode(cp) ==
  IF cp < 128 THEN <<cp>>
  ELSE IF cp < 2048 THEN <<192 + (cp \div 64), 128 + (cp % 64)>>
  ELSE IF cp < 65536 THEN <<224 + (cp \div 4096), 128 + ((cp \div 64) % 64), 128 + (cp % 64)>>
  ELSE <<240 + (cp \div 262144), 128 + ((cp \div 4096) % 64), 128 + ((cp \div 64) % 64),
         128 + (cp % 64)>>

\* A whole character is decoded (evaluated once).  A character that is cut
\* short by another one is a replacement character, and the other one is
\* not lost, whatever the decoder has seen before.
Utf8Decodes ==
  \A cp \in Samples :
    LET whole == DecodeAll([left |-> 0, cp |-> 0, again |-> FALSE], Encode(cp))
        next == Decode([left |-> h.left, cp |-> h.cp, again |-> FALSE], Encode(cp)[1])
    IN /\ bytes = 0 => whole = [left |-> 0, cp |-> cp, again |-> FALSE]
       /\ next.again <=> h.left # 0
       /\ next.again => next.cp = Replacement /\ next.left = 0
=============================================================================
