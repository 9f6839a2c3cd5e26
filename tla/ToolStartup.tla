---------------------------- MODULE ToolStartup ----------------------------
(***************************************************************************)
(* The start of the production tool, from main (mainapp.c) to the loop of  *)
(* the main page: the modules register in the order of the linker, the     *)
(* display, the input devices and the font are set up one after the other, *)
(* each of which may fail, config.conf is read line by line, and the       *)
(* buttons are laid out and drawn.  From there on see ProductionTool.      *)
(*                                                                         *)
(* What C leaves undefined has the outcomes a build can have: a division   *)
(* by zero traps, or gives 0 on a processor that does not trap; a fault or *)
(* a write past an array is the end, "undefined".                          *)
(*                                                                         *)
(* config.conf is a file of characters here, since its parser is about     *)
(* where a pointer stands among them: p goes forward over blanks and is    *)
(* never set back, while fgets fills the buffer below it again and again.  *)
(***************************************************************************)
EXTENDS Layout, FiniteSets

CONSTANTS
  Screen,             \* the screens: [x_res, y_res, bpp]
  File,               \* the files config.conf may be: sequences of lines
  CONFIG_MAX_NUMBER,  \* entries of configs[] and btns[]
  BufSize,            \* bytes of the parser's buf, 100 in the code
  Letter              \* what words are made of, but for '#'

\* Blank is ' ' or a tab, Nul the end of a string; Unwritten is whatever the
\* stack has left in a byte of buf.
Blank     == "blank"
NewLine   == "newline"
Hash      == "hash"
Nul       == "nul"
Unwritten == "unwritten"
Space     == {Blank, NewLine}
Char      == Letter \cup Space \cup {Hash}
BufChar   == Char \cup {Nul, Unwritten}
Line      == Seq(Char) \ {<<>>}

ASSUME StartupAssumption ==
  /\ CONFIG_MAX_NUMBER \in Nat /\ BufSize \in Nat /\ BufSize >= 2
  /\ Letter \cap {Blank, NewLine, Hash, Nul, Unwritten} = {}
  /\ \A s \in Screen : {s.x_res, s.y_res} \subseteq Nat \ {0} /\ s.bpp \in {8, 16, 32}
  /\ \A f \in File :
       /\ f \in Seq(Line)
       /\ \A i \in DOMAIN f : \A j \in DOMAIN f[i] :
            /\ f[i][j] = NewLine => j = Len(f[i])
            /\ j = Len(f[i]) /\ i < Len(f) => f[i][j] = NewLine

VARIABLES
  pc,               \* where main is
  todo,             \* the module functions in exi_fn0 not yet called
  registered,       \* those that have registered their module
  input_dev,        \* the input devices, last registered first
  next,             \* tmp in inputmgr_init_all_devices
  threads, opened,  \* devices with a thread, open descriptors and streams
  fb,               \* the framebuffer: closed, open or mapped
  screen, dis_buf,  \* what the kernel says of it, what the tool knows
  face,             \* a font file is loaded
  file, line, col,  \* config.conf, lines read, characters read of the next
  buf, p,           \* the parser's buffer, and where p stands in it, from 1
  configs, btns,    \* the items, and the buttons' names and regions
  drawn             \* buttons drawn

vars == <<pc, todo, registered, input_dev, next, threads, opened, fb, screen,
          dis_buf, face, file, line, col, buf, p, configs, btns, drawn>>
deviceVars == <<input_dev, next, threads>>
pageVars   == <<file, line, col, buf, p, configs, btns, drawn>>

InitFn == {"lcd_init", "freetype_init", "touchscreen_init", "socket_input_init",
           "mainpage_init"}
NoScreen == [x_res |-> 0, y_res |-> 0, bpp |-> 0]
NoFile   == << >>

\* The end: main has returned, or what happens is not defined by C.
Ended == {"returned", "undefined"}

Init ==
  /\ pc = "children" /\ todo = InitFn /\ registered = {}
  /\ input_dev = <<>> /\ next = <<>> /\ threads = {} /\ opened = {}
  /\ fb = "closed" /\ screen \in Screen /\ dis_buf = NoScreen /\ face = FALSE
  /\ file = NoFile /\ line = 0 /\ col = 0
  /\ buf = [i \in 1 .. BufSize |-> Unwritten] /\ p = 1
  /\ configs = <<>> /\ btns = <<>> /\ drawn = 0
-----------------------------------------------------------------------------
\* child_module_init calls the functions of exi_fn0 in the linker's order.
ChildInit ==
  /\ pc = "children"
  /\ \E fn \in todo :
       /\ todo' = todo \ {fn}
       /\ registered' = registered \cup {fn}
       /\ input_dev' = IF fn = "touchscreen_init" THEN <<"touchscreen">> \o input_dev
                       ELSE IF fn = "socket_input_init" THEN <<"socketinput">> \o input_dev
                       ELSE input_dev
       /\ pc' = IF todo' = {} THEN "display" ELSE "children"
  /\ UNCHANGED <<next, threads, opened, fb, screen, dis_buf, face, pageVars>>

\* dismgr_set_default("fb"), whose answer main ignores; then device_init
\* opens the framebuffer.
OpenDisplay ==
  /\ pc = "display"
  /\ IF "lcd_init" \notin registered
     THEN pc' = "undefined" /\ UNCHANGED <<fb, opened>>
     ELSE \/ pc' = "screeninfo" /\ fb' = "open" /\ opened' = opened \cup {"fb"}
          \/ pc' = "devices" /\ UNCHANGED <<fb, opened>>
  /\ next' = input_dev
  /\ UNCHANGED <<todo, registered, input_dev, threads, screen, dis_buf, face, pageVars>>

\* ioctl and mmap: each closes the framebuffer again when it fails.
ScreenInfo ==
  /\ pc = "screeninfo"
  /\ \/ pc' = "map" /\ UNCHANGED <<fb, opened>>
     \/ pc' = "devices" /\ fb' = "closed" /\ opened' = opened \ {"fb"}
  /\ UNCHANGED <<todo, registered, deviceVars, screen, dis_buf, face, pageVars>>

\* mutant: get_buf answers although the framebuffer is not mapped
MapDisplay_Ignored ==
  /\ pc = "map" /\ pc' = "devices" /\ dis_buf' = screen
  /\ \/ fb' = "mapped" /\ UNCHANGED opened
     \/ fb' = "closed" /\ opened' = opened \ {"fb"}
  /\ UNCHANGED <<todo, registered, deviceVars, screen, face, pageVars>>

\* mmap, then get_buf, which needs init_status.
MapDisplay ==
  /\ pc = "map"
  /\ pc' = "devices"
  /\ \/ fb' = "mapped" /\ dis_buf' = screen /\ UNCHANGED opened
     \/ fb' = "closed" /\ opened' = opened \ {"fb"} /\ UNCHANGED dis_buf
  /\ UNCHANGED <<todo, registered, deviceVars, screen, face, pageVars>>

\* mutant: the device whose thread was not created stays open
InitDevice_NoDeinit(d) ==
  \/ opened' = opened \cup {d} /\ threads' = threads \cup {d}
  \/ opened' = opened \cup {d} /\ UNCHANGED threads
  \/ UNCHANGED <<opened, threads>>
  \/ d = "socketinput" /\ opened' = opened \cup {"unbound"} /\ UNCHANGED threads

\* One device: it starts with a thread, or without one it is closed again, or
\* it cannot be opened.  A socket that cannot be bound stays open.
InitDevice(d) ==
  \/ opened' = opened \cup {d} /\ threads' = threads \cup {d}
  \/ UNCHANGED <<opened, threads>>
  \/ d = "socketinput" /\ opened' = opened \cup {"unbound"} /\ UNCHANGED threads

InitAllDevices ==
  /\ pc = "devices"
  /\ IF next = <<>>
     THEN pc' = "font" /\ UNCHANGED <<next, threads, opened>>
     ELSE InitDevice(Head(next)) /\ next' = Tail(next) /\ UNCHANGED pc
  /\ UNCHANGED <<todo, registered, input_dev, fb, screen, dis_buf, face, pageVars>>

\* fontmgr_set_font: without freetype or its file main returns -1.  The face
\* reads its file as glyphs are asked for, and keeps it open.
SetFont ==
  /\ pc = "font"
  /\ \/ /\ "freetype_init" \in registered /\ pc' = "page"
        /\ face' = TRUE /\ opened' = opened \cup {"font"}
     \/ pc' = "returned" /\ UNCHANGED <<face, opened>>
  /\ UNCHANGED <<todo, registered, deviceVars, fb, screen, dis_buf, pageVars>>

\* uimgr_get_page("main")->run, and config_parse_file opens the file, which it
\* closes on no path.  fopen answers NULL for a missing one, which `fp < 0'
\* does not notice.
OpenConfig ==
  /\ pc = "page"
  /\ \/ /\ "mainpage_init" \in registered /\ pc' = "parse"
        /\ file' \in File /\ opened' = opened \cup {"config"}
     \/ pc' = "undefined" /\ UNCHANGED <<file, opened>>
  /\ UNCHANGED <<todo, registered, deviceVars, fb, screen, dis_buf, face,
                 line, col, buf, p, configs, btns, drawn>>
-----------------------------------------------------------------------------
\* fgets(buf, BufSize, fp): the characters it takes of the next line, l, at
\* most BufSize - 1 of what is left of it.
Got(l) == IF Len(l) - col < BufSize THEN Len(l) - col ELSE BufSize - 1

\* mutant: the end of the string is not marked
Filled_NoEnd(l) ==
  [i \in 1 .. BufSize |->
     IF i <= Got(l) THEN l[col + i] ELSE IF i = BufSize THEN Nul ELSE buf[i]]

\* The buffer after it: behind the end mark it still has what it had.
Filled(l) ==
  [i \in 1 .. BufSize |->
     IF i <= Got(l) THEN l[col + i]
     ELSE IF i \in {Got(l) + 1, BufSize} THEN Nul ELSE buf[i]]

\* From place m of b to place n there are characters of S, and at n none.
Runs(b, m, n, S) == (\A i \in m .. n - 1 : b[i] \in S) /\ b[n] \notin S

\* mutant: only a '#' in the first column makes a comment
IsComment_First(b, n) == b[1] = Hash

IsComment(b, n) == b[n] = Hash

\* The word that sscanf finds at place n of b is from s to before e.  If that is
\* nothing it leaves the name in configs[] as it is, which is empty.
Scans(b, n, s, e) ==
  /\ s <= e
  /\ Runs(b, n, s, Space)
  /\ Runs(b, s, e, BufChar \ (Space \cup {Nul}))

\* fgets and the body of the loop: p goes on over blanks from where it was, be
\* that behind the first word of the new line or behind its end.  config_count
\* is not compared with the size of configs[].
ReadLine ==
  /\ pc = "parse"
  /\ IF line = Len(file)
     THEN pc' = "layout" /\ UNCHANGED <<line, col, buf, p, configs>>
     ELSE LET l == file[line + 1] IN
            /\ buf' = Filled(l)
            /\ IF col + Got(l) = Len(l) THEN line' = line + 1 /\ col' = 0
               ELSE line' = line /\ col' = col + Got(l)
            /\ p' \in p .. BufSize /\ Runs(buf', p, p', {Blank})
            /\ IF IsComment(buf', p') THEN UNCHANGED <<configs, pc>>
               ELSE IF Len(configs) = CONFIG_MAX_NUMBER
               THEN pc' = "undefined" /\ UNCHANGED configs
               ELSE /\ \E s, e \in p' .. BufSize :
                         /\ Scans(buf', p', s, e)
                         /\ configs' = Append(configs, SubSeq(buf', s, e - 1))
                    /\ UNCHANGED pc
  /\ UNCHANGED <<todo, registered, deviceVars, opened, fb, screen, dis_buf, face,
                 file, btns, drawn>>

\* generate_buttons.  No buttons, or no screen, is a division by zero: of
\* doubles without buttons, which any build survives with one column.
GenerateButtons ==
  /\ pc = "layout"
  /\ LET count == Len(configs) IN
       \E w \in 0 .. dis_buf.x_res + dis_buf.y_res :
         /\ IF count = 0 THEN w = 0
            ELSE SquareRootOf(w, dis_buf.x_res, dis_buf.y_res, count)
         /\ \/ LET g == Grid(IF w = 0 THEN 1 ELSE Columns(w, dis_buf.x_res),
                            dis_buf.x_res, dis_buf.y_res, count)
               IN  /\ btns' = [k \in 1 .. count |->
                                [name |-> configs[k], region |-> Regions(g, count)[k]]]
                   /\ pc' = "draw"
            \/ count # 0 /\ w = 0 /\ pc' = "undefined" /\ UNCHANGED btns
  /\ UNCHANGED <<todo, registered, deviceVars, opened, fb, screen, dis_buf, face,
                 file, line, col, buf, p, configs, drawn>>

\* mutant: draws one button more than there are
DrawButton_OneMore ==
  /\ pc = "draw"
  /\ \/ /\ drawn <= Len(btns)
        /\ drawn' = drawn + 1 /\ UNCHANGED pc
     \/ /\ drawn = Len(btns)
        /\ pc' = "running" /\ UNCHANGED drawn
  /\ UNCHANGED <<todo, registered, deviceVars, opened, fb, screen, dis_buf, face,
                 file, line, col, buf, p, configs, btns>>

\* default_on_draw of one button; a name without letters divides by zero.
DrawButton ==
  /\ pc = "draw"
  /\ \/ /\ drawn < Len(btns)
        /\ drawn' = drawn + 1 /\ UNCHANGED pc
     \/ /\ drawn < Len(btns) /\ btns[drawn + 1].name = <<>>
        /\ pc' = "undefined" /\ UNCHANGED drawn
     \/ /\ drawn = Len(btns)
        /\ pc' = "running" /\ UNCHANGED drawn
  /\ UNCHANGED <<todo, registered, deviceVars, opened, fb, screen, dis_buf, face,
                 file, line, col, buf, p, configs, btns>>

\* main has ended, or goes on in the loop of the page.
Finished == pc \in Ended \cup {"running"} /\ UNCHANGED vars

Next ==
  \/ ChildInit \/ OpenDisplay \/ ScreenInfo \/ MapDisplay
  \/ InitAllDevices \/ SetFont \/ OpenConfig
  \/ ReadLine \/ GenerateButtons \/ DrawButton \/ Finished

-----------------------------------------------------------------------------
\* One type invariant: main is at one of its steps, and what it has found out
\* about the display, the devices and the file has its type.
StartupTypeOK ==
  /\ pc \in Ended \cup {"children", "display", "screeninfo", "map", "devices",
                      "font", "page", "parse", "layout", "draw", "running"}
  /\ todo \cup registered = InitFn /\ todo \cap registered = {}
  /\ threads \subseteq {"touchscreen", "socketinput"}
  /\ fb \in {"closed", "open", "mapped"}
  /\ dis_buf \in Screen \cup {NoScreen} /\ face \in BOOLEAN
  /\ line \in 0 .. Len(file)
  /\ col \in 0 .. (IF line = Len(file) THEN 0 ELSE Len(file[line + 1]) - 1)
  /\ buf \in [1 .. BufSize -> BufChar] /\ p \in 1 .. BufSize
  /\ Len(configs) <= CONFIG_MAX_NUMBER /\ drawn \in 0 .. Len(btns)

\* Whatever fails, what is open is in use: the framebuffer, a device with a
\* thread, the font (lcd_display.c:35, input_mgr.c:79), but for two, which stay
\* open for good: a socket that could not be bound (socket_input.c:65) and the
\* stream of config.conf (config.c:21-43).
InUse == (IF fb = "closed" THEN {} ELSE {"fb"}) \cup threads
         \cup (IF face THEN {"font"} ELSE {})
TwoLeftOpen ==
  /\ opened \ {"unbound", "config"} = InUse
  /\ pc \in {"parse", "layout", "draw", "running"} => "config" \in opened
  /\ fb = "open" => pc \in {"screeninfo", "map"}

\* The pixels that may be drawn for a button, by example: the corners of its
\* region, which is filled unchecked, and of the pixels of glyphs, that may be
\* anywhere, the ones that draw_font_bitmap lets pass.
RegionPixels(r) == {px \in {r.x, r.x + r.width - 1} \X {r.y, r.y + r.height - 1} :
                     Fills(px[1], px[2], r)}
GlyphPixels == {px \in {-1, 0, dis_buf.x_res - 1, dis_buf.x_res}
                   \X {-1, 0, dis_buf.y_res - 1, dis_buf.y_res} :
                  Shown(dis_buf, px[1], px[2])}

\* The page draws into the mapped framebuffer and nowhere else: a page that
\* runs without a display, and main does that, draws nothing at all.
DrawsInFramebuffer ==
  pc \in {"draw", "running"} =>
    \A k \in DOMAIN btns : \A px \in RegionPixels(btns[k].region) \cup GlyphPixels :
      /\ fb = "mapped"
      /\ px[1] \in 0 .. screen.x_res - 1 /\ px[2] \in 0 .. screen.y_res - 1
      /\ PixelOffset(dis_buf, px[1], px[2]) + screen.bpp \div 8
           <= screen.x_res * (screen.bpp \div 8) * screen.y_res

\* A touch hits at most one button: is_touch_point_in_region, which counts the
\* edges in, is true of no point for two of them.  (If it were of any point, it
\* would be of one with a left and an upper edge of theirs.)  ProductionTool
\* takes a touch to name its button.
Apart(r, s) == \A x \in {r.x, s.x}, y \in {r.y, s.y} :
                 ~ (InRegion(x, y, r) /\ InRegion(x, y, s))
OneButtonPerTouch ==
  \A j, k \in DOMAIN btns : j # k => Apart(btns[j].region, btns[k].region)

\* Nothing that buf held before the first line is ever read: wherever p has got
\* to, behind the end of a short line too, there is an end mark at it or after
\* it, and all before that mark was in the file (config.c:17-38).
ReadsWritten ==
  /\ line > 0 \/ col > 0 =>
       \E e \in p .. BufSize : buf[e] = Nul /\ \A i \in 1 .. e : buf[i] # Unwritten
  /\ \A k \in DOMAIN configs : \A i \in DOMAIN configs[k] : configs[k][i] # Unwritten

\* The n characters at the beginning of l are blanks; l is a comment; and w is
\* the first word of l, or <<>> if it has none.
Blanks(l, n) == n <= Len(l) /\ \A i \in 1 .. n : l[i] = Blank
Comment(l)   == \E n \in 0 .. Len(l) - 1 : Blanks(l, n) /\ l[n + 1] = Hash
FirstWord(l, w) ==
  \E s \in 1 .. Len(l) + 1 : \E e \in s .. Len(l) + 1 :
    /\ \A i \in 1 .. s - 1 : l[i] \in Space
    /\ \A i \in s .. e - 1 : l[i] \notin Space
    /\ s <= Len(l) => l[s] \notin Space
    /\ e <= Len(l) => l[e] \in Space
    /\ w = SubSeq(l, s, e - 1)

\* A configuration of lines that fit into buf, each of which begins with the
\* blanks that any line before it begins with, gives one button per line that
\* is no comment, in order and with its whole name; main gets past the file if
\* and only if there is room for that many.
Indented(f) ==
  /\ \A i \in DOMAIN f : Len(f[i]) < BufSize
  /\ \A i, j \in DOMAIN f : i < j =>
       \A n \in 0 .. Len(f[i]) : Blanks(f[i], n) => Blanks(f[j], n)
Wanted(f)   == {i \in DOMAIN f : ~ Comment(f[i])}
Place(f, i) == Cardinality({j \in 1 .. i : ~ Comment(f[j])})

ConfigIsRead ==
  Indented(file) =>
    /\ pc \in {"layout", "draw", "running"} =>
         /\ Len(configs) = Place(file, Len(file))
         /\ \A i \in Wanted(file) : FirstWord(file[i], configs[Place(file, i)])
    /\ pc \in {"draw", "running"} => [k \in DOMAIN btns |-> btns[k].name] = configs
    /\ pc = "undefined" =>
         \/ file = NoFile \/ Place(file, Len(file)) > CONFIG_MAX_NUMBER
         \/ dis_buf = NoScreen \/ \E i \in Wanted(file) : FirstWord(file[i], <<>>)
-----------------------------------------------------------------------------
Spec == Init /\ [][Next]_vars
=============================================================================
