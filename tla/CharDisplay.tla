---------------------------- MODULE CharDisplay ----------------------------
(***************************************************************************)
(* 01_lcd_show_char: a program that draws characters of built-in fonts     *)
(* ("pixel": two letters, a string of three lines, a Chinese character     *)
(* from the file HZK16), and one that draws a character with freetype.     *)
(* Each step may fail and ends the program through errExit; freetype's     *)
(* errors are not looked at.  What is drawn is kept as boxes of pixels.    *)
(***************************************************************************)
EXTENDS Layout, FiniteSets

CONSTANTS Panel,    \* the screens: [x_res, y_res, bpp]
          Glyph,    \* freetype's bitmaps: [width, rows]
          GB2312    \* the two bytes of the Chinese character

VARIABLES
  program,        \* "pixel" or "freetype"
  step,           \* the step main is at
  fds, maps,      \* descriptors open, memory mapped
  panel,          \* the screen
  i, pen,         \* lcd_put_str: characters put, and where the next one goes
  boxes           \* what has been drawn

vars == <<program, step, fds, maps, panel, i, pen, boxes>>

NoPanel == [x_res |-> 0, y_res |-> 0, bpp |-> 0]

Init ==
  /\ step = "open" /\ fds = {} /\ maps = {} /\ panel = NoPanel
  /\ i = 0 /\ pen = <<0, 0>> /\ boxes = {}

Box(x, y, width, height) == [x |-> x, y |-> y, width |-> width, height |-> height]

\* "This is a \ntest\nString": the 22 characters, by their newlines.
StrLen   == 22
Newlines == {11, 16}
-----------------------------------------------------------------------------
\* open, ioctl and mmap of the framebuffer, which is then closed.
OpenFramebuffer ==
  /\ \/ step = "open" /\ step' = "info" /\ fds' = {"fb"} /\ UNCHANGED <<maps, panel>>
     \/ step = "info" /\ step' = "map" /\ panel' \in Panel /\ UNCHANGED <<fds, maps>>
     \/ step = "map" /\ step' = "draw" /\ fds' = {} /\ maps' = {"fb"} /\ UNCHANGED panel
     \/ /\ step \in {"open", "info", "map"} /\ step' = "end" /\ fds' = {}
        /\ UNCHANGED <<maps, panel>>
  /\ UNCHANGED <<program, i, pen, boxes>>

\* The two letters, 8 pixels wide, in the middle of the screen.
PutLetters ==
  /\ program = "pixel" /\ step = "draw" /\ step' = "string"
  /\ LET x == panel.x_res \div 2   y == panel.y_res \div 2
     IN  /\ boxes' = {Box(x, y, 8, 16), Box(x + 8, y, 8, 16)}
         /\ pen' = <<x, y + 16>>
  /\ UNCHANGED <<program, fds, maps, panel, i>>

\* lcd_put_str, character by character.
PutStr ==
  /\ program = "pixel" /\ step = "string" /\ i < StrLen /\ i' = i + 1
  /\ IF i' \in Newlines
     THEN pen' = <<panel.x_res \div 2, pen[2] + 16>> /\ UNCHANGED boxes
     ELSE /\ boxes' = boxes \cup {Box(pen[1], pen[2], 8, 16)}
          /\ pen' = <<pen[1] + 8, pen[2]>>
  /\ UNCHANGED <<program, step, fds, maps, panel>>

\* open_cn_char_file: open, fstat and mmap, then the file is closed; after a
\* failure errExit leaves the framebuffer to the kernel.
OpenCnCharFile ==
  /\ program = "pixel"
  /\ \/ step = "string" /\ i = StrLen /\ step' = "stat" /\ fds' = {"HZK16"} /\ UNCHANGED maps
     \/ step = "stat" /\ step' = "map file" /\ UNCHANGED <<fds, maps>>
     \/ step = "map file" /\ step' = "chinese" /\ fds' = {} /\ maps' = maps \cup {"HZK16"}
     \/ /\ step \in {"stat", "map file"} \/ (step = "string" /\ i = StrLen)
        /\ step' = "end" /\ fds' = {} /\ UNCHANGED maps
  /\ UNCHANGED <<program, panel, i, pen, boxes>>

\* The character's 32 bytes begin at (area * 94 + offset) * 32 of HZK16, 94
\* characters to each of 87 areas.
GlyphOffset == ((GB2312[1] - 161) * 94 + (GB2312[2] - 161)) * 32
FileSize    == 87 * 94 * 32

PutChinese ==
  /\ program = "pixel" /\ step = "chinese" /\ step' = "end"
  /\ boxes' = boxes \cup {Box(panel.x_res \div 8, panel.y_res \div 8, 16, 16)}
  /\ maps' = {}
  /\ UNCHANGED <<program, fds, panel, i, pen>>

\* FT_New_Face opens the font and reads from it when it needs to.  Without a
\* face, and its error is not looked at, what happens is not defined.
LoadFace ==
  /\ program = "freetype" /\ step = "draw"
  /\ \/ step' = "render" /\ fds' = {"font"}
     \/ step' = "undefined" /\ UNCHANGED fds
  /\ UNCHANGED <<program, maps, panel, i, pen, boxes>>

\* mutant: nothing is clipped
DrawBitmap_NoClip ==
  /\ program = "freetype" /\ step = "render" /\ step' = "end" /\ maps' = {}
  /\ \E g \in Glyph :
       boxes' = {Box(panel.x_res \div 2, panel.y_res \div 2, g.width, g.rows)}
  /\ UNCHANGED <<program, fds, panel, i, pen>>

\* freetype renders what the font has, or leaves no bitmap to read: then what
\* happens is not defined.  draw_bitmap leaves out what is not on the screen.
\* The face is never released.
DrawBitmap ==
  /\ program = "freetype" /\ step = "render"
  /\ \/ /\ step' = "end" /\ maps' = {}
        /\ LET x == panel.x_res \div 2   y == panel.y_res \div 2
           IN  \E g \in Glyph :
                 LET on == {k \in 0 .. g.width - 1 : Shown(panel, x + k, 0)}
                     of == {k \in 0 .. g.rows - 1 : Shown(panel, 0, y + k)}
                 IN  boxes' = {Box(x, y, Cardinality(on), Cardinality(of))}
     \/ step' = "undefined" /\ UNCHANGED <<maps, boxes>>
  /\ UNCHANGED <<program, fds, panel, i, pen>>

Next ==
  /\ program \in {"pixel", "freetype"}
  /\ \/ OpenFramebuffer \/ PutLetters \/ PutStr \/ OpenCnCharFile
     \/ PutChinese \/ LoadFace \/ DrawBitmap
-----------------------------------------------------------------------------
DisplayTypeOK ==
  /\ step \in {"open", "info", "map", "draw", "string", "stat", "map file", "chinese",
               "render", "end", "undefined"}
  /\ fds \subseteq {"fb", "HZK16", "font"} /\ maps \subseteq {"fb", "HZK16"}
  /\ panel \in Panel \cup {NoPanel} /\ i \in 0 .. StrLen

\* Every way out has closed what was opened, but for the font of the freetype
\* program, which is open at the end whenever it was drawn from; and nothing is
\* drawn without a framebuffer to draw on.
FilesClosed ==
  /\ step \in {"draw", "string", "chinese"} => fds = {}
  /\ step = "end" => fds = IF program = "freetype" /\ boxes # {} THEN {"font"} ELSE {}
  /\ step \in {"draw", "string", "stat", "map file", "chinese", "render"} => "fb" \in maps
  /\ step = "chinese" => "HZK16" \in maps /\ GlyphOffset + 32 <= FileSize

\* The pixel program looks at no edge: its string takes 80 x 64 pixels from
\* the middle of the screen.
Fits == panel.x_res >= 160 /\ panel.y_res >= 128

\* The last pixel of every box is in the framebuffer's mapping, on each screen
\* for freetype, on each one that is large enough for the pixel program; and
\* no character is drawn over another.
BoxesInFramebuffer ==
  program = "freetype" \/ Fits =>
    /\ \A b \in boxes : b.width > 0 /\ b.height > 0 =>
         /\ b.x + b.width <= panel.x_res
         /\ PixelOffset(panel, b.x + b.width - 1, b.y + b.height - 1) + panel.bpp \div 8
              <= panel.x_res * (panel.bpp \div 8) * panel.y_res
    /\ \A b, c \in boxes : b = c \/ \/ b.x + b.width <= c.x \/ c.x + c.width <= b.x
                                    \/ b.y + b.height <= c.y \/ c.y + c.height <= b.y
=============================================================================
