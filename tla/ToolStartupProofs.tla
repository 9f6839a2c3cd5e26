-------------------------- MODULE ToolStartupProofs --------------------------
(***************************************************************************)
(* The start of the tool, on any screen and with any file: the types, what *)
(* is left open, where the buttons lie, and what is read.  The places rest *)
(* on the geometry of the grid, which comes first, in Layout's terms.      *)
(***************************************************************************)
EXTENDS ToolStartup, ArithmeticLemmas, SequenceTheorems, FiniteSetTheorems, TLAPS

\* Rows, and columns, are at least their size apart.
LEMMA Steps ==
  ASSUME NEW m \in Nat, NEW n \in Nat, NEW size \in Nat, m < n
  PROVE  m * size + size <= n * size
<1> DEFINE d == n - m - 1
<1>1. d \in Nat /\ n = m + 1 + d
  OBVIOUS
<1>2. n * size = m * size + size + d * size
  BY <1>1
<1>3. d * size >= 0
  BY <1>1
<1>4. m * size \in Int /\ n * size \in Int /\ d * size \in Int
  BY <1>1
<1>5. QED
  BY <1>2, <1>3, <1>4

\* Regions with a row or a column between them have no point in common.
LEMMA OutOfReach ==
  ASSUME NEW r, NEW s,
         r.x \in Int, r.y \in Int, r.width \in Int, r.height \in Int,
         s.x \in Int, s.y \in Int, s.width \in Int, s.height \in Int,
         \/ r.x + r.width < s.x \/ s.x + s.width < r.x
         \/ r.y + r.height < s.y \/ s.y + s.height < r.y
  PROVE  Apart(r, s)
<1> SUFFICES ASSUME NEW x \in {r.x, s.x}, NEW y \in {r.y, s.y},
                    InRegion(x, y, r), InRegion(x, y, s)
             PROVE  FALSE
  BY DEF Apart
<1>1. x \in Int /\ y \in Int
  OBVIOUS
<1> QED
  BY <1>1 DEF InRegion

\* Two cells of a grid have no point in common, edges included.
LEMMA CellsApart ==
  ASSUME NEW g, g.width \in Nat, g.height \in Nat, g.start_x \in Int, g.start_y \in Int,
         NEW i1 \in Nat, NEW j1 \in Nat, NEW i2 \in Nat, NEW j2 \in Nat,
         i1 # i2 \/ j1 # j2
  PROVE  Apart(Cell(g, i1, j1), Cell(g, i2, j2))
<1> DEFINE r == Cell(g, i1, j1)
           s == Cell(g, i2, j2)
<1>1. /\ r.x = g.start_x + j1 * g.width  /\ r.width  = g.width - 5
      /\ s.x = g.start_x + j2 * g.width  /\ s.width  = g.width - 5
      /\ r.y = g.start_y + i1 * g.height /\ r.height = g.height - 5
      /\ s.y = g.start_y + i2 * g.height /\ s.height = g.height - 5
  BY DEF Cell, X_GAP, Y_GAP
<1>2. /\ i1 * g.height \in Int /\ i2 * g.height \in Int
      /\ j1 * g.width \in Int /\ j2 * g.width \in Int
  OBVIOUS
<1>t. /\ r.x \in Int /\ r.y \in Int /\ r.width \in Int /\ r.height \in Int
      /\ s.x \in Int /\ s.y \in Int /\ s.width \in Int /\ s.height \in Int
  BY <1>1, <1>2
<1>3. CASE i1 < i2
  <2>1. i1 * g.height + g.height <= i2 * g.height
    BY <1>3, Steps
  <2>2. r.y + r.height < s.y
    BY <1>1, <1>2, <2>1
  <2>3. QED
    BY <1>t, <2>2, OutOfReach
<1>4. CASE i2 < i1
  <2>1. i2 * g.height + g.height <= i1 * g.height
    BY <1>4, Steps
  <2>2. s.y + s.height < r.y
    BY <1>1, <1>2, <2>1
  <2>3. QED
    BY <1>t, <2>2, OutOfReach
<1>5. CASE j1 < j2
  <2>1. j1 * g.width + g.width <= j2 * g.width
    BY <1>5, Steps
  <2>2. r.x + r.width < s.x
    BY <1>1, <1>2, <2>1
  <2>3. QED
    BY <1>t, <2>2, OutOfReach
<1>6. CASE j2 < j1
  <2>1. j2 * g.width + g.width <= j1 * g.width
    BY <1>6, Steps
  <2>2. s.x + s.width < r.x
    BY <1>1, <1>2, <2>1
  <2>3. QED
    BY <1>t, <2>2, OutOfReach
<1>7. QED
  BY <1>3, <1>4, <1>5, <1>6

LEMMA QuotientAndRemainder ==
  ASSUME NEW c \in Nat \ {0}, NEW a \in Nat
  PROVE  a \div c \in Nat /\ a % c \in Nat
<1>1. a \div c \in Nat
  OBVIOUS
<1>2. a % c \in Nat
  OBVIOUS
<1>3. QED
  BY <1>1, <1>2

\* Numbers with the same quotient and the same remainder are the same.
LEMMA SameQuotientAndRemainder ==
  ASSUME NEW c \in Nat \ {0}, NEW a \in Nat, NEW b \in Nat,
         a \div c = b \div c, a % c = b % c
  PROVE  a = b
BY Z3

\* The regions of any number of buttons are apart.
LEMMA RegionsApart ==
  ASSUME NEW g, g.width \in Nat, g.height \in Nat, g.start_x \in Int, g.start_y \in Int,
         g.columns \in Nat \ {0}, NEW count \in Nat,
         NEW j \in 1 .. count, NEW k \in 1 .. count, j # k
  PROVE  Apart(Regions(g, count)[j], Regions(g, count)[k])
<1> DEFINE c  == g.columns
<1>1. (j - 1) \div c \in Nat /\ (j - 1) % c \in Nat
  BY QuotientAndRemainder
<1>2. (k - 1) \div c \in Nat /\ (k - 1) % c \in Nat
  BY QuotientAndRemainder
<1>3. (j - 1) \div c # (k - 1) \div c \/ (j - 1) % c # (k - 1) % c
  <2> SUFFICES ASSUME (j - 1) \div c = (k - 1) \div c, (j - 1) % c = (k - 1) % c
               PROVE  FALSE
    OBVIOUS
  <2>1. j - 1 \in Nat /\ k - 1 \in Nat
    OBVIOUS
  <2>2. j - 1 = k - 1
    BY <2>1, SameQuotientAndRemainder
  <2>3. QED
    BY <2>2
<1>4. Apart(Cell(g, (j - 1) \div c, (j - 1) % c), Cell(g, (k - 1) \div c, (k - 1) % c))
  BY <1>1, <1>2, <1>3, CellsApart
<1>5. QED
  BY <1>4 DEF Regions

\* The grid for any screen and any number of columns.
LEMMA GridType ==
  ASSUME NEW columns \in Nat \ {0}, NEW xres \in Nat, NEW yres \in Nat, NEW count \in Nat
  PROVE  LET g == Grid(columns, xres, yres, count)
         IN  /\ g.width \in Nat /\ g.height \in Nat /\ g.columns = columns
             /\ g.start_x \in Int /\ g.start_y \in Int
<1> DEFINE width  == xres \div columns
           height == (618 * width) \div 1000
           rows   == IF (count \div columns) * columns < count
                     THEN (count \div columns) + 1 ELSE count \div columns
<1>1. width \in Nat
  BY QuotientAndRemainder
<1>2. 618 * width \in Nat
  BY <1>1
<1>3. height \in Nat
  BY <1>2
<1>4. rows \in Nat
  BY QuotientAndRemainder
<1>5. yres - rows * height \in Int /\ xres - width * columns \in Int
  BY <1>1, <1>3, <1>4
<1>6. (xres - width * columns) \div 2 \in Int
  BY <1>5
<1>7. Quot(yres - rows * height, 2) \in Int
  BY <1>5 DEF Quot
<1>8. QED
  BY <1>1, <1>3, <1>6, <1>7 DEF Grid
-----------------------------------------------------------------------------
\* The types, with those of what StartupTypeOK leaves to its parts.
Dev    == {"touchscreen", "socketinput"}
Name   == Seq(BufChar)
Button == [name : Name, region : [x : Int, y : Int, width : Int, height : Int]]

TypeInv ==
  /\ StartupTypeOK
  /\ input_dev \in Seq(Dev) /\ next \in Seq(Dev)
  /\ screen \in Screen /\ file \in File \cup {NoFile}
  /\ configs \in Seq(Name) /\ btns \in Seq(Button)

\* The steps come in their order: the framebuffer is open while the kernel is
\* asked about it, no line is read and no button drawn too early.
Early == {"children", "display", "screeninfo", "map", "devices", "font", "page"}
Order == /\ pc \in {"screeninfo", "map"} => fb = "open"
         /\ pc \in Early => line = 0 /\ col = 0
         /\ pc \in Early \cup {"parse", "layout"} => drawn = 0

IInv == TypeInv /\ Order /\ TwoLeftOpen /\ OneButtonPerTouch

LEMMA DisplaySize ==
  ASSUME TypeInv
  PROVE  dis_buf.x_res \in Nat /\ dis_buf.y_res \in Nat
  BY StartupAssumption DEF TypeInv, StartupTypeOK, NoScreen

LEMMA LinesOfFile ==
  ASSUME TypeInv
  PROVE  file \in Seq(Line)
<1>1. CASE file \in File
  BY <1>1, StartupAssumption
<1>2. CASE file = NoFile
  BY <1>2 DEF NoFile
<1>3. QED
  BY <1>1, <1>2 DEF TypeInv

\* The line that is read next, and what fgets takes of it.
LEMMA NextLine ==
  ASSUME TypeInv, line # Len(file), NEW l, l = file[line + 1]
  PROVE  /\ line + 1 \in 1 .. Len(file) /\ line \in Nat
         /\ l \in Line /\ l \in Seq(Char) /\ Len(l) \in Nat \ {0}
         /\ col \in 0 .. Len(l) - 1
         /\ Got(l) \in 1 .. BufSize - 1 /\ col + Got(l) <= Len(l)
<1>1. file \in Seq(Line) /\ line \in 0 .. Len(file)
  BY LinesOfFile DEF TypeInv, StartupTypeOK
<1>2. line + 1 \in 1 .. Len(file) /\ line \in Nat /\ l \in Line
  BY <1>1
<1>3. l \in Seq(Char) /\ Len(l) \in Nat \ {0}
  BY <1>2 DEF Line
<1>4. col \in 0 .. Len(l) - 1
  BY DEF TypeInv, StartupTypeOK
<1>5. BufSize \in Nat /\ BufSize >= 2
  BY StartupAssumption
<1>6. Got(l) \in 1 .. BufSize - 1 /\ col + Got(l) <= Len(l)
  BY <1>3, <1>4, <1>5 DEF Got
<1> QED
  BY <1>2, <1>3, <1>4, <1>6

LEMMA FilledType ==
  ASSUME TypeInv, line # Len(file), NEW l, l = file[line + 1]
  PROVE  /\ Filled(l) \in [1 .. BufSize -> BufChar]
         /\ \A i \in 1 .. Got(l) : Filled(l)[i] = l[col + i] /\ Filled(l)[i] \in Char
         /\ Filled(l)[Got(l) + 1] = Nul
         /\ \A i \in Got(l) + 2 .. BufSize : Filled(l)[i] \in {Nul, buf[i]}
<1>1. /\ l \in Seq(Char) /\ Len(l) \in Nat \ {0} /\ col \in 0 .. Len(l) - 1
      /\ Got(l) \in 1 .. BufSize - 1 /\ col + Got(l) <= Len(l)
  BY NextLine
<1>2. buf \in [1 .. BufSize -> BufChar]
  BY DEF TypeInv, StartupTypeOK
<1>3. BufSize \in Nat
  BY StartupAssumption
<1>4. \A i \in 1 .. Got(l) : col + i \in 1 .. Len(l)
  BY <1>1, <1>3
<1>5. \A i \in 1 .. Got(l) : l[col + i] \in Char
  BY <1>1, <1>4
<1>6. Char \subseteq BufChar /\ Nul \in BufChar
  BY DEF BufChar
<1>7. \A i \in 1 .. BufSize : i <= Got(l) => i \in 1 .. Got(l)
  BY <1>1, <1>3
<1>8. Filled(l) \in [1 .. BufSize -> BufChar]
  BY <1>2, <1>5, <1>6, <1>7 DEF Filled
<1>9. \A i \in 1 .. Got(l) : i \in 1 .. BufSize /\ i <= Got(l)
  BY <1>1, <1>3
<1>10. Got(l) + 1 \in 1 .. BufSize /\ ~ (Got(l) + 1 <= Got(l))
  BY <1>1, <1>3
<1>11. \A i \in Got(l) + 2 .. BufSize : i \in 1 .. BufSize /\ ~ (i <= Got(l))
  BY <1>1, <1>3
<1> QED
  BY <1>5, <1>8, <1>9, <1>10, <1>11 DEF Filled

\* A word of the buffer.
LEMMA WordOf ==
  ASSUME NEW S, NEW n \in Nat, NEW b \in [1 .. n -> S],
         NEW s \in 1 .. n, NEW e \in s .. n
  PROVE  /\ SubSeq(b, s, e - 1) \in Seq(S) /\ Len(SubSeq(b, s, e - 1)) = e - s
         /\ \A i \in 1 .. e - s : SubSeq(b, s, e - 1)[i] = b[s + i - 1]
<1>1. b \in Seq(S) /\ Len(b) = n
  OBVIOUS
<1>2. s \in 1 .. n + 1 /\ e - 1 \in s - 1 .. n /\ (e - 1) - s + 1 = e - s
  OBVIOUS
<1> QED
  BY <1>1, <1>2, SubSeqProperties

LEMMA InitIInv == Init => IInv
<1> SUFFICES ASSUME Init  PROVE IInv
  OBVIOUS
<1>1. Len(<<>>) = 0 /\ \A S : <<>> \in Seq(S)
  OBVIOUS
<1>2. 1 \in 1 .. BufSize /\ 0 <= CONFIG_MAX_NUMBER
  BY StartupAssumption
<1>3. StartupTypeOK
  <2>1. todo \cup registered = InitFn /\ todo \cap registered = {}
    BY DEF Init
  <2>2. /\ pc = "children" /\ threads = {} /\ fb = "closed" /\ face = FALSE
        /\ dis_buf = NoScreen /\ p = 1 /\ file = <<>> /\ line = 0
        /\ col = 0 /\ configs = <<>> /\ btns = <<>> /\ drawn = 0
    BY DEF Init, NoFile
  <2>3. /\ line \in 0 .. Len(file) /\ drawn \in 0 .. Len(btns)
        /\ col \in 0 .. (IF line = Len(file) THEN 0 ELSE Len(file[line + 1]) - 1)
    BY <1>1, <2>2
  <2>4. Len(configs) <= CONFIG_MAX_NUMBER /\ p \in 1 .. BufSize
    BY <1>1, <1>2, <2>2
  <2>5. buf \in [1 .. BufSize -> BufChar]
    BY DEF Init, BufChar
  <2>6. QED
    BY <2>1, <2>2, <2>3, <2>4, <2>5 DEF StartupTypeOK
<1>4. TypeInv
  BY <1>1, <1>3 DEF Init, TypeInv
<1>5. QED
  BY <1>4 DEF Init, IInv, Order, Early, TwoLeftOpen, InUse, OneButtonPerTouch

\* The buttons that generate_buttons makes are apart, on every screen.
LEMMA GenerateButtonsApart ==
  ASSUME TypeInv, GenerateButtons, OneButtonPerTouch
  PROVE  OneButtonPerTouch' /\ btns' \in Seq(Button)
<1> DEFINE count == Len(configs)
<1>1. count \in Nat /\ dis_buf.x_res \in Nat /\ dis_buf.y_res \in Nat
  BY DisplaySize DEF TypeInv
<1>2. CASE UNCHANGED btns
  BY <1>2 DEF OneButtonPerTouch, TypeInv
<1>3. CASE ~UNCHANGED btns
  <2>1. PICK w \in 0 .. dis_buf.x_res + dis_buf.y_res :
          LET g == Grid(IF w = 0 THEN 1 ELSE Columns(w, dis_buf.x_res),
                        dis_buf.x_res, dis_buf.y_res, count)
          IN  btns' = [k \in 1 .. count |->
                        [name |-> configs[k], region |-> Regions(g, count)[k]]]
    BY <1>3 DEF GenerateButtons
  <2> DEFINE columns == IF w = 0 THEN 1 ELSE Columns(w, dis_buf.x_res)
             g == Grid(columns, dis_buf.x_res, dis_buf.y_res, count)
  <2>2. w \in Nat
    BY <1>1, <2>1
  <2>3. columns \in Nat \ {0}
    <3>1. CASE w = 0
      BY <3>1
    <3>2. CASE w # 0
      <4>1. dis_buf.x_res \div w \in Nat
        BY <1>1, <2>2, <3>2, QuotientAndRemainder
      <4>2. QED
        BY <3>2, <4>1 DEF Columns
    <3>3. QED
      BY <3>1, <3>2
  <2> HIDE DEF columns
  <2>4. /\ g.width \in Nat /\ g.height \in Nat /\ g.columns = columns
        /\ g.start_x \in Int /\ g.start_y \in Int
    BY <1>1, <2>3, GridType
  <2>5. btns' = [k \in 1 .. count |->
                  [name |-> configs[k], region |-> Regions(g, count)[k]]]
    BY <2>1 DEF columns
  <2> HIDE DEF g
  <2>6. OneButtonPerTouch'
    <3> SUFFICES ASSUME NEW j \in 1 .. count, NEW k \in 1 .. count, j # k
                 PROVE  Apart(btns'[j].region, btns'[k].region)
      BY <2>5 DEF OneButtonPerTouch
    <3>1. Apart(Regions(g, count)[j], Regions(g, count)[k])
      BY <1>1, <2>3, <2>4, RegionsApart
    <3>2. QED
      BY <2>5, <3>1
  <2>7. ASSUME NEW k \in 1 .. count
        PROVE  Regions(g, count)[k] \in [x : Int, y : Int, width : Int, height : Int]
    <3> DEFINE row == (k - 1) \div g.columns
               across == (k - 1) % g.columns
    <3>1. k - 1 \in Nat
      BY <1>1
    <3>2. row \in Nat /\ across \in Nat
      BY <2>3, <2>4, <3>1, QuotientAndRemainder
    <3>3. Regions(g, count)[k] = Cell(g, row, across)
      BY DEF Regions
    <3> HIDE DEF row, across
    <3>4. row * g.height \in Int /\ across * g.width \in Int
      BY <2>4, <3>2
    <3>5. /\ g.start_x + across * g.width \in Int /\ g.start_y + row * g.height \in Int
          /\ g.width - 5 \in Int /\ g.height - 5 \in Int
      <4> DEFINE right == across * g.width
                 down  == row * g.height
      <4>1. right \in Int /\ down \in Int
        BY <3>4
      <4> HIDE DEF right, down
      <4>2. g.start_x + right \in Int /\ g.start_y + down \in Int
        BY <2>4, <4>1
      <4>3. g.width - 5 \in Int /\ g.height - 5 \in Int
        BY <2>4
      <4>4. QED
        BY <4>2, <4>3 DEF right, down
    <3>6. Cell(g, row, across) \in [x : Int, y : Int, width : Int, height : Int]
      BY <3>5 DEF Cell, X_GAP, Y_GAP
    <3>7. QED
      BY <3>3, <3>6
  <2>8. \A k \in 1 .. count : configs[k] \in Name
    BY DEF TypeInv
  <2>9. \A k \in 1 .. count :
          [name |-> configs[k], region |-> Regions(g, count)[k]] \in Button
    BY <2>7, <2>8 DEF Button
  <2>10. btns' \in Seq(Button)
    BY <1>1, <2>5, <2>9
  <2>11. QED
    BY <2>6, <2>10
<1>4. QED
  BY <1>2, <1>3

\* How far main has got in the file after a read.
LEMMA ReadsOn ==
  ASSUME TypeInv, ReadLine, line # Len(file)
  PROVE  /\ UNCHANGED file /\ line' \in 0 .. Len(file') /\ line' \in {line, line + 1}
         /\ col' \in 0 .. (IF line' = Len(file') THEN 0 ELSE Len(file'[line' + 1]) - 1)
         /\ line' > 0 \/ col' > 0
<1> DEFINE l == file[line + 1]
<1>1. /\ line + 1 \in 1 .. Len(file) /\ line \in Nat /\ Len(l) \in Nat \ {0}
      /\ col \in 0 .. Len(l) - 1
      /\ Got(l) \in 1 .. BufSize - 1 /\ col + Got(l) <= Len(l)
  BY NextLine
<1>2. /\ UNCHANGED file
      /\ IF col + Got(l) = Len(l) THEN line' = line + 1 /\ col' = 0
         ELSE line' = line /\ col' = col + Got(l)
  BY DEF ReadLine
<1>3. file \in Seq(Line) /\ BufSize \in Nat
  BY LinesOfFile, StartupAssumption
<1>4. CASE col + Got(l) = Len(l)
  <2>1. line' = line + 1 /\ col' = 0
    BY <1>2, <1>4
  <2>2. line' # Len(file) => Len(file[line' + 1]) - 1 \in Nat
    <3> SUFFICES ASSUME line' # Len(file)
                 PROVE  Len(file[line' + 1]) - 1 \in Nat
      OBVIOUS
    <3>1. line' + 1 \in 1 .. Len(file)
      BY <1>1, <1>3, <2>1
    <3>2. file[line' + 1] \in Line
      BY <1>3, <3>1
    <3> QED
      BY <3>2 DEF Line
  <2> HIDE DEF l
  <2> QED
    BY <1>1, <1>2, <1>3, <2>1, <2>2
<1>5. CASE col + Got(l) # Len(l)
  <2>1. line' = line /\ col' = col + Got(l)
    BY <1>2, <1>5
  <2>2. col' \in 1 .. Len(l) - 1
    <3> HIDE DEF l
    <3> QED
      BY <1>1, <1>3, <1>5, <2>1
  <2> QED
    BY <1>1, <1>2, <2>1, <2>2
<1> QED
  BY <1>4, <1>5

LEMMA NextIInv == IInv /\ [Next]_vars => IInv'
<1> SUFFICES ASSUME IInv, [Next]_vars  PROVE IInv'
  OBVIOUS
<1> USE DEF deviceVars, pageVars
<1>t. /\ TypeInv /\ StartupTypeOK /\ Order /\ TwoLeftOpen /\ OneButtonPerTouch
  BY DEF IInv, TypeInv
<1>1. CASE ChildInit
  <2>1. todo' \cup registered' = InitFn /\ todo' \cap registered' = {}
    BY <1>1, <1>t DEF ChildInit, StartupTypeOK
  <2>2. input_dev' \in Seq(Dev)
    <3>1. input_dev \in Seq(Dev) /\ <<"touchscreen">> \in Seq(Dev) /\ <<"socketinput">> \in Seq(Dev)
      BY <1>t DEF TypeInv, Dev
    <3>2. \/ input_dev' = input_dev
          \/ input_dev' = <<"touchscreen">> \o input_dev
          \/ input_dev' = <<"socketinput">> \o input_dev
      BY <1>1 DEF ChildInit
    <3>3. QED
      BY <3>1, <3>2, ConcatProperties
  <2>3. pc' \in {"display", "children"}
    BY <1>1 DEF ChildInit
  <2>4. TypeInv'
    BY <1>1, <1>t, <2>1, <2>2, <2>3 DEF ChildInit, TypeInv, StartupTypeOK, Ended
  <2>5. (Order /\ TwoLeftOpen /\ OneButtonPerTouch)'
    BY <1>1, <1>t, <2>3
    DEF ChildInit, Order, Early, TwoLeftOpen, InUse, OneButtonPerTouch
  <2>6. QED
    BY <2>4, <2>5 DEF IInv
<1>2. CASE OpenDisplay
  <2>1. TypeInv'
    BY <1>2, <1>t DEF OpenDisplay, TypeInv, StartupTypeOK, Ended
  <2>2. (Order /\ TwoLeftOpen)'
    BY <1>2, <1>t DEF OpenDisplay, Order, Early, TwoLeftOpen, InUse
  <2>3. OneButtonPerTouch'
    BY <1>2, <1>t DEF OpenDisplay, OneButtonPerTouch
  <2>4. QED
    BY <2>1, <2>2, <2>3 DEF IInv
<1>3. CASE ScreenInfo
  <2>1. TypeInv'
    BY <1>3, <1>t DEF ScreenInfo, TypeInv, StartupTypeOK, Ended
  <2>a. fb = "open" /\ UNCHANGED <<threads, face, line, col, drawn>>
    BY <1>3, <1>t DEF ScreenInfo, Order
  <2>b. Order'
    BY <1>3, <1>t, <2>a DEF ScreenInfo, Order, Early
  <2>2. (Order /\ TwoLeftOpen)'
    <3>1. InUse = {"fb"} \cup threads \cup (IF face THEN {"font"} ELSE {})
      BY <2>a DEF InUse
    <3>2. CASE pc' = "map" /\ UNCHANGED <<fb, opened>>
      BY <1>t, <2>a, <2>b, <3>2 DEF TwoLeftOpen, InUse
    <3>3. CASE pc' = "devices" /\ fb' = "closed" /\ opened' = opened \ {"fb"}
      <4>1. "fb" \notin threads
        BY <1>t DEF StartupTypeOK
      <4>2. InUse' = InUse \ {"fb"}
        BY <2>a, <3>1, <3>3, <4>1 DEF InUse
      <4>3. opened' \ {"unbound", "config"} = InUse'
        BY <1>t, <3>3, <4>2 DEF TwoLeftOpen
      <4> QED
        BY <2>b, <3>3, <4>3 DEF TwoLeftOpen
    <3> QED
      BY <1>3, <3>2, <3>3 DEF ScreenInfo
  <2>3. OneButtonPerTouch'
    BY <1>3, <1>t DEF ScreenInfo, OneButtonPerTouch
  <2>4. QED
    BY <2>1, <2>2, <2>3 DEF IInv
<1>4. CASE MapDisplay
  <2>1. TypeInv'
    BY <1>4, <1>t DEF MapDisplay, TypeInv, StartupTypeOK, Ended
  <2>a. fb = "open" /\ pc' = "devices" /\ UNCHANGED <<threads, face, line, col, drawn>>
    BY <1>4, <1>t DEF MapDisplay, Order
  <2>b. Order'
    BY <1>4, <1>t, <2>a DEF MapDisplay, Order, Early
  <2>2. (Order /\ TwoLeftOpen)'
    <3>1. InUse = {"fb"} \cup threads \cup (IF face THEN {"font"} ELSE {})
      BY <2>a DEF InUse
    <3>2. CASE fb' = "mapped" /\ UNCHANGED opened
      <4>1. InUse' = InUse
        BY <2>a, <3>1, <3>2 DEF InUse
      <4> QED
        BY <1>t, <2>a, <2>b, <3>2, <4>1 DEF TwoLeftOpen
    <3>3. CASE fb' = "closed" /\ opened' = opened \ {"fb"}
      <4>1. "fb" \notin threads
        BY <1>t DEF StartupTypeOK
      <4>2. InUse' = InUse \ {"fb"}
        BY <2>a, <3>1, <3>3, <4>1 DEF InUse
      <4>3. opened' \ {"unbound", "config"} = InUse'
        BY <1>t, <3>3, <4>2 DEF TwoLeftOpen
      <4> QED
        BY <2>a, <2>b, <3>3, <4>3 DEF TwoLeftOpen
    <3> QED
      BY <1>4, <3>2, <3>3 DEF MapDisplay
  <2>3. OneButtonPerTouch'
    BY <1>4, <1>t DEF MapDisplay, OneButtonPerTouch
  <2>4. QED
    BY <2>1, <2>2, <2>3 DEF IInv
<1>5. CASE InitAllDevices
  <2>1. CASE next = <<>>
    <3>1. TypeInv'
      BY <1>5, <1>t, <2>1 DEF InitAllDevices, TypeInv, StartupTypeOK, Ended
    <3>2. (Order /\ TwoLeftOpen /\ OneButtonPerTouch)'
      BY <1>5, <1>t, <2>1
      DEF InitAllDevices, Order, Early, TwoLeftOpen, InUse, OneButtonPerTouch
    <3>3. QED
      BY <3>1, <3>2 DEF IInv
  <2>2. CASE next # <<>>
    <3>1. Head(next) \in Dev /\ Tail(next) \in Seq(Dev)
      BY <1>t, <2>2 DEF TypeInv
    <3>2. InitDevice(Head(next)) /\ next' = Tail(next) /\ UNCHANGED pc
      BY <1>5, <2>2 DEF InitAllDevices
    <3>3. threads' \subseteq Dev
      BY <1>t, <3>1, <3>2 DEF InitDevice, StartupTypeOK, Dev
    <3>4. TypeInv'
      BY <1>5, <1>t, <3>1, <3>2, <3>3
      DEF InitAllDevices, TypeInv, StartupTypeOK, Dev
    <3>5. opened' \ {"unbound", "config"} = InUse'
      <4> DEFINE d == Head(next)
      <4>0. d \in Dev /\ UNCHANGED <<fb, face>> /\ InitDevice(d)
        BY <1>5, <3>1, <3>2, <2>2 DEF InitAllDevices
      <4>1. d \notin {"unbound", "config"}
        BY <3>1 DEF Dev
      <4> HIDE DEF d
      <4>2. CASE opened' = opened \cup {d} /\ threads' = threads \cup {d}
        <5>1. InUse' = InUse \cup {d}
          BY <4>0, <4>2 DEF InUse
        <5>2. opened' \ {"unbound", "config"} = (opened \ {"unbound", "config"}) \cup {d}
          BY <4>1, <4>2
        <5> QED
          BY <1>t, <5>1, <5>2 DEF TwoLeftOpen
      <4>3. CASE opened' \in {opened, opened \cup {"unbound"}} /\ UNCHANGED threads
        <5>1. InUse' = InUse
          BY <4>0, <4>3 DEF InUse
        <5>2. opened' \ {"unbound", "config"} = opened \ {"unbound", "config"}
          BY <4>3
        <5> QED
          BY <1>t, <5>1, <5>2 DEF TwoLeftOpen
      <4> QED
        BY <4>0, <4>2, <4>3 DEF InitDevice
    <3>6. (Order /\ TwoLeftOpen)'
      BY <1>5, <1>t, <3>2, <3>5 DEF InitAllDevices, Order, Early, TwoLeftOpen, InUse
    <3>7. OneButtonPerTouch'
      BY <1>5, <1>t DEF InitAllDevices, OneButtonPerTouch
    <3>8. QED
      BY <3>4, <3>6, <3>7 DEF IInv
  <2>3. QED
    BY <2>1, <2>2
<1>6. CASE SetFont
  <2>1. TypeInv'
    BY <1>6, <1>t DEF SetFont, TypeInv, StartupTypeOK, Ended
  <2>2. (Order /\ TwoLeftOpen)'
    BY <1>6, <1>t DEF SetFont, Order, Early, TwoLeftOpen, InUse
  <2>3. OneButtonPerTouch'
    BY <1>6, <1>t DEF SetFont, OneButtonPerTouch
  <2>4. QED
    BY <2>1, <2>2, <2>3 DEF IInv
<1>7. CASE OpenConfig
  <2>1. line' = 0 /\ col' = 0 /\ drawn' = 0
    BY <1>7, <1>t DEF OpenConfig, Order, Early
  <2>2. file' \in File \cup {NoFile}
    BY <1>7, <1>t DEF OpenConfig, TypeInv
  <2>3. 0 \in 0 .. Len(file') /\ (0 # Len(file') => Len(file'[1]) - 1 \in Nat)
    <3>1. file' \in Seq(Line)
      <4>1. CASE file' \in File
        BY <4>1, StartupAssumption
      <4>2. CASE file' = NoFile
        BY <4>2 DEF NoFile
      <4>3. QED
        BY <2>2, <4>1, <4>2
    <3>2. 0 # Len(file') => file'[1] \in Line
      BY <3>1
    <3>3. \A l \in Line : Len(l) - 1 \in Nat
      BY DEF Line
    <3>4. QED
      BY <3>1, <3>2, <3>3
  <2>4. col' \in 0 .. (IF line' = Len(file') THEN 0 ELSE Len(file'[line' + 1]) - 1)
    BY <2>1, <2>3
  <2>5. TypeInv'
    BY <1>7, <1>t, <2>1, <2>2, <2>3, <2>4 DEF OpenConfig, TypeInv, StartupTypeOK, Ended
  <2>6. (Order /\ TwoLeftOpen)'
    BY <1>7, <1>t, <2>1 DEF OpenConfig, Order, Early, TwoLeftOpen, InUse
  <2>7. OneButtonPerTouch'
    BY <1>7, <1>t DEF OpenConfig, OneButtonPerTouch
  <2>8. QED
    BY <2>5, <2>6, <2>7 DEF IInv
<1>8. CASE ReadLine
  <2>1. CASE line = Len(file)
    <3>1. TypeInv'
      BY <1>8, <1>t, <2>1 DEF ReadLine, TypeInv, StartupTypeOK, Ended
    <3>2. (Order /\ TwoLeftOpen /\ OneButtonPerTouch)'
      BY <1>8, <1>t, <2>1
      DEF ReadLine, Order, Early, TwoLeftOpen, InUse, OneButtonPerTouch
    <3>3. QED
      BY <3>1, <3>2 DEF IInv
  <2>2. CASE line # Len(file)
    <3> DEFINE l == file[line + 1]
    <3>2. /\ line' \in 0 .. Len(file') /\ UNCHANGED file
          /\ col' \in 0 .. (IF line' = Len(file') THEN 0 ELSE Len(file'[line' + 1]) - 1)
      BY <1>8, <1>t, <2>2, ReadsOn
    <3>3. buf' \in [1 .. BufSize -> BufChar] /\ p' \in 1 .. BufSize
      <4>1. buf' = Filled(l) /\ p' \in p .. BufSize
        BY <1>8, <2>2 DEF ReadLine
      <4>2. p \in 1 .. BufSize /\ BufSize \in Nat
        BY <1>t, StartupAssumption DEF StartupTypeOK
      <4>3. QED
        BY <1>t, <2>2, <4>1, <4>2, FilledType
    <3>4. /\ configs' \in Seq(Name) /\ Len(configs') <= CONFIG_MAX_NUMBER
          /\ pc' \in {"parse", "undefined"}
      <4>0. configs \in Seq(Name) /\ Len(configs) <= CONFIG_MAX_NUMBER
        BY <1>t DEF TypeInv, StartupTypeOK
      <4>1. CASE configs' = configs
        BY <1>8, <2>2, <4>0, <4>1 DEF ReadLine
      <4>2. CASE configs' # configs
        <5>1. /\ Len(configs) # CONFIG_MAX_NUMBER /\ pc' = pc
              /\ \E s, e \in p' .. BufSize :
                   s <= e /\ configs' = Append(configs, SubSeq(buf', s, e - 1))
          BY <1>8, <2>2, <4>2 DEF ReadLine, Scans
        <5>2. PICK s \in p' .. BufSize, e \in p' .. BufSize :
                s <= e /\ configs' = Append(configs, SubSeq(buf', s, e - 1))
          BY <5>1
        <5>3. s \in 1 .. BufSize /\ e \in s .. BufSize /\ BufSize \in Nat
          BY <3>3, <5>2, StartupAssumption
        <5>4. SubSeq(buf', s, e - 1) \in Name
          BY <3>3, <5>3, WordOf DEF Name
        <5>5. configs' \in Seq(Name) /\ Len(configs') = Len(configs) + 1
          BY <4>0, <5>2, <5>4, AppendProperties
        <5>6. Len(configs') <= CONFIG_MAX_NUMBER
          BY <4>0, <5>1, <5>5, StartupAssumption
        <5>7. QED
          BY <1>8, <5>1, <5>5, <5>6 DEF ReadLine
      <4>3. QED
        BY <4>1, <4>2
    <3>5. UNCHANGED <<todo, registered, deviceVars, opened, fb, screen, dis_buf, face,
                      file, btns, drawn>>
      BY <1>8 DEF ReadLine
    <3>6. TypeInv'
      BY <1>t, <3>2, <3>3, <3>4, <3>5 DEF TypeInv, StartupTypeOK, Ended
    <3>7. (Order /\ TwoLeftOpen /\ OneButtonPerTouch)'
      BY <1>8, <1>t, <3>4, <3>5
      DEF ReadLine, Order, Early, TwoLeftOpen, InUse, OneButtonPerTouch
    <3>8. QED
      BY <3>6, <3>7 DEF IInv
  <2>3. QED
    BY <2>1, <2>2
<1>9. CASE GenerateButtons
  <2>1. OneButtonPerTouch' /\ btns' \in Seq(Button)
    BY <1>9, <1>t, GenerateButtonsApart
  <2>2. pc' \in {"draw", "undefined"} /\ drawn = 0 /\ drawn' = 0
    BY <1>9, <1>t DEF GenerateButtons, Order, Early
  <2>3. 0 \in 0 .. Len(btns')
    BY <2>1
  <2>4. TypeInv'
    BY <1>9, <1>t, <2>1, <2>2, <2>3 DEF GenerateButtons, TypeInv, StartupTypeOK, Ended
  <2>5. (Order /\ TwoLeftOpen)'
    BY <1>9, <1>t, <2>2 DEF GenerateButtons, Order, Early, TwoLeftOpen, InUse
  <2>6. QED
    BY <2>1, <2>4, <2>5 DEF IInv
<1>10. CASE DrawButton
  <2>1. TypeInv'
    BY <1>10, <1>t DEF DrawButton, TypeInv, StartupTypeOK, Ended
  <2>2. (Order /\ TwoLeftOpen)'
    BY <1>10, <1>t DEF DrawButton, Order, Early, TwoLeftOpen, InUse
  <2>3. OneButtonPerTouch'
    BY <1>10, <1>t DEF DrawButton, OneButtonPerTouch
  <2>4. QED
    BY <2>1, <2>2, <2>3 DEF IInv
<1>11. CASE UNCHANGED vars
  <2>1. TypeInv'
    BY <1>11, <1>t DEF vars, TypeInv, StartupTypeOK
  <2>2. (Order /\ TwoLeftOpen)'
    BY <1>11, <1>t DEF vars, Order, Early, TwoLeftOpen, InUse
  <2>3. OneButtonPerTouch'
    BY <1>11, <1>t DEF vars, OneButtonPerTouch
  <2>4. QED
    BY <2>1, <2>2, <2>3 DEF IInv
<1>12. QED
  BY <1>1, <1>2, <1>3, <1>4, <1>5, <1>6, <1>7, <1>8, <1>9, <1>10, <1>11
  DEF Next, Finished
-----------------------------------------------------------------------------
\* The types of the start-up, and that neither the table of the configuration
\* nor the pointer into its lines leaves its bounds before main is undefined.
THEOREM StartupTypeCorrect == Spec => []StartupTypeOK
<1>1. IInv => StartupTypeOK
  BY DEF IInv, TypeInv
<1>2. QED
  BY InitIInv, NextIInv, <1>1, PTL DEF Spec

\* Whichever steps of the start fail, in whatever order the modules have
\* registered, an open descriptor is in use (lcd_display.c:35, input_mgr.c:79).
THEOREM TwoLeftOpenCorrect == Spec => []TwoLeftOpen
<1>1. IInv => TwoLeftOpen
  BY DEF IInv
<1>2. QED
  BY InitIInv, NextIInv, <1>1, PTL DEF Spec

\* On every screen and for every file, generate_buttons leaves a gap between
\* any two buttons, so that a touch has at most one.
THEOREM OneButtonPerTouchCorrect == Spec => []OneButtonPerTouch
<1>1. IInv => OneButtonPerTouch
  BY DEF IInv
<1>2. QED
  BY InitIInv, NextIInv, <1>1, PTL DEF Spec

(***************************************************************************)
(* The grid on the screen: rows times height is at most the height of the  *)
(* screen, unless it is more than four times as wide as high.              *)
(***************************************************************************)
\* Enough rows for all, and no more.
LEMMA RowsHold ==
  ASSUME NEW n \in Nat, NEW c \in Nat \ {0}, NEW rows,
         rows = IF (n \div c) * c < n THEN (n \div c) + 1 ELSE n \div c
  PROVE  /\ rows \in Nat
         /\ n <= rows * c
         /\ rows * c <= n + c - 1
<1> DEFINE q == n \div c
           f == q * c
<1>1. q \in Nat /\ f <= n /\ n < f + c /\ f \in Nat
  BY Floor
<1>2. (q + 1) * c = f + c
  BY <1>1
<1> HIDE DEF q, f
<1>3. CASE f < n
  <2>1. rows = q + 1 /\ rows * c = f + c
    BY <1>2, <1>3 DEF q, f
  <2> QED
    BY <1>1, <1>3, <2>1
<1>4. CASE ~ (f < n)
  <2>1. rows = q /\ rows * c = f
    BY <1>4 DEF q, f
  <2> QED
    BY <1>1, <1>4, <2>1
<1> QED
  BY <1>3, <1>4

\* The arithmetic of the rows: c columns for n buttons whose first width w was
\* the square root.  Their golden ratio, once cut in three digits, leaves 382
\* thousandths of the height for the rows that are full and 618 for the last.
LEMMA RowsFit ==
  ASSUME NEW x \in Nat \ {0}, NEW y \in Nat \ {0}, NEW n \in Nat \ {0},
         NEW w \in Nat \ {0}, NEW c \in Nat \ {0},
         NEW width \in Nat, NEW height \in Nat, NEW rows \in Nat,
         x <= 4 * y, x <= c * w, 1000 * n * (w * w) <= 618 * x * y,
         width * c <= x, 1000 * height <= 618 * width, rows * c <= n + c - 1
  PROVE  rows * height <= y
<1> DEFINE cc == c * c
<1>1. cc \in Nat \ {0} /\ 4 * (c - 1) <= cc
  <2>1. (c - 2) * (c - 2) >= 0
    OBVIOUS
  <2>2. (c - 2) * (c - 2) = cc - 4 * c + 4
    OBVIOUS
  <2>3. cc \in Nat /\ cc > 0
    OBVIOUS
  <2> QED
    BY <2>1, <2>2, <2>3
<1>2. 1000 * n * x <= 618 * y * cc
  <2>1. x * x <= (c * w) * x /\ x * (c * w) <= (c * w) * (c * w)
    BY Times
  <2>2. x * x <= (c * w) * (c * w)
    BY <2>1
  <2>3. (x * x) * (1000 * n) <= ((c * w) * (c * w)) * (1000 * n)
    BY <2>2, Times
  <2>4. (1000 * n * (w * w)) * cc <= (618 * x * y) * cc
    BY <1>1, Times
  <2>5. ((c * w) * (c * w)) * (1000 * n) = (1000 * n * (w * w)) * cc
    OBVIOUS
  <2>6. (x * x) * (1000 * n) = (1000 * n * x) * x
        /\ (618 * x * y) * cc = (618 * y * cc) * x
    OBVIOUS
  <2>7. (1000 * n * x) * x <= (618 * y * cc) * x
    <3> DEFINE a == (1000 * n * x) * x
               b == (1000 * n * (w * w)) * cc
               d == (618 * y * cc) * x
    <3>1. a \in Int /\ b \in Int /\ d \in Int
      OBVIOUS
    <3>2. a <= b /\ b <= d
      BY <2>3, <2>4, <2>5, <2>6
    <3> HIDE DEF a, b, d
    <3>3. a <= d
      BY <3>1, <3>2
    <3> QED
      BY <3>3 DEF a, d
  <2> QED
    BY <2>7, Cancel
<1>3. 4 * (c - 1) * x <= cc * (4 * y)
  <2>1. (4 * (c - 1)) * x <= cc * x /\ x * cc <= (4 * y) * cc
    BY <1>1, Times
  <2> QED
    BY <2>1
<1>4. 618 * x * (n + c - 1) <= 1000 * y * cc
  <2> DEFINE nx  == n * x
             cx  == (c - 1) * x
             ycc == y * cc
  <2>1. nx \in Int /\ cx \in Int /\ ycc \in Nat
    BY <1>1
  <2>2. 1000 * nx <= 618 * ycc /\ 4 * cx <= 4 * ycc
    BY <1>2, <1>3
  <2>3. 618 * x * (n + c - 1) = 618 * nx + 618 * cx /\ 1000 * y * cc = 1000 * ycc
    OBVIOUS
  <2> HIDE DEF nx, cx, ycc
  <2>4. 618 * nx + 618 * cx <= 1000 * ycc
    BY <2>1, <2>2
  <2> QED
    BY <2>3, <2>4
<1>5. 1000 * height * c <= 618 * x
  <2>1. (1000 * height) * c <= (618 * width) * c
    BY Times
  <2> DEFINE hc == height * c
             wc == width * c
  <2>2. hc \in Nat /\ wc \in Nat /\ wc <= x /\ 1000 * hc <= 618 * wc
    BY <2>1
  <2>3. 1000 * height * c = 1000 * hc
    OBVIOUS
  <2> HIDE DEF hc, wc
  <2>4. 1000 * hc <= 618 * x
    BY <2>2
  <2> QED
    BY <2>3, <2>4
<1>6. (rows * c) * (1000 * height * c) <= (618 * x) * (n + c - 1)
  <2> DEFINE hc == 1000 * height * c
             rc == rows * c
             m  == n + c - 1
             xx == 618 * x
  <2>1. hc \in Nat /\ rc \in Nat /\ m \in Nat /\ xx \in Nat /\ hc <= xx /\ rc <= m
    BY <1>5
  <2> HIDE DEF hc, rc, m, xx
  <2>2. rc * hc <= m * hc /\ hc * m <= xx * m
    BY <2>1, Times
  <2>3. rc * hc <= xx * m
    BY <2>1, <2>2
  <2> QED
    BY <2>3 DEF hc, rc, m, xx
<1>7. (rows * height) * (1000 * cc) <= y * (1000 * cc)
  <2>1. (rows * c) * (1000 * height * c) = (rows * height) * (1000 * cc)
    OBVIOUS
  <2>2. (618 * x) * (n + c - 1) = 618 * x * (n + c - 1)
        /\ y * (1000 * cc) = 1000 * y * cc
    OBVIOUS
  <2> DEFINE a == (rows * height) * (1000 * cc)
             b == 618 * x * (n + c - 1)
             d == y * (1000 * cc)
  <2>3. a \in Int /\ b \in Int /\ d \in Int
    OBVIOUS
  <2>4. a <= b /\ b <= d
    BY <1>4, <1>6, <2>1, <2>2
  <2> HIDE DEF a, b, d
  <2>5. a <= d
    BY <2>3, <2>4
  <2> QED
    BY <2>5 DEF a, d
<1>8. 1000 * cc \in Nat \ {0} /\ rows * height \in Int
  BY <1>1
<1> HIDE DEF cc
<1> QED
  BY <1>7, <1>8, Cancel

\* A region that lies on a screen of x times y pixels.
Within(r, x, y) == /\ 0 <= r.x /\ r.x + r.width <= x
                   /\ 0 <= r.y /\ r.y + r.height <= y

\* What the six screens of the run and any that is sold fulfil: no more than
\* four times as wide as high, and with enough pixels for all buttons.
Roomy ==
  \A s \in Screen :
    /\ s.x_res <= 4 * s.y_res
    /\ 1000 * CONFIG_MAX_NUMBER <= 618 * s.x_res * s.y_res

LEMMA SquareBound ==
  ASSUME NEW x \in Nat \ {0}, NEW y \in Nat \ {0}, NEW n \in Nat \ {0}, NEW w \in Nat,
         SquareRootOf(w, x, y, n)
  PROVE  /\ 1000 * n * (w * w) <= 618 * x * y
         /\ 1000 * n <= 618 * x * y => w # 0
<1> DEFINE all == 618 * x * y
           m   == 1000 * n
           sq  == all \div m
           ww  == w * w
<1>1. all \in Nat /\ m \in Nat \ {0} /\ ww \in Nat
  OBVIOUS
<1>2. ww <= sq /\ sq < (w + 1) * (w + 1)
  BY DEF SquareRootOf
<1>3. w = 0 => sq < 1
  BY <1>2
<1> HIDE DEF all, m, ww
<1>4. sq \in Nat /\ sq * m <= all /\ all < sq * m + m
  BY <1>1, Floor
<1> HIDE DEF sq
<1>5. ww * m <= sq * m
  BY <1>1, <1>2, <1>4, Times
<1>6. ww * m <= all
  <2> DEFINE a == ww * m
             b == sq * m
  <2>1. a \in Int /\ b \in Int /\ a <= b /\ b <= all
    BY <1>1, <1>4, <1>5
  <2> HIDE DEF a, b
  <2>2. a <= all
    BY <1>1, <2>1
  <2> QED
    BY <2>2 DEF a
<1>7. ASSUME w = 0, m <= all
      PROVE  FALSE
  <2>1. sq = 0
    BY <1>3, <1>4, <1>7
  <2> QED
    BY <1>1, <1>4, <1>7, <2>1
<1>8. 1000 * n * (w * w) = ww * m
  BY DEF ww, m
<1> QED
  BY <1>6, <1>7, <1>8 DEF all, m

\* Every button of the grid lies on the screen.
LEMMA CellWithin ==
  ASSUME NEW x \in Nat \ {0}, NEW y \in Nat \ {0}, NEW n \in Nat \ {0},
         NEW w \in Nat \ {0}, SquareRootOf(w, x, y, n), x <= 4 * y,
         NEW k \in 1 .. n
  PROVE  LET g == Grid(Columns(w, x), x, y, n) IN Within(Regions(g, n)[k], x, y)
<1> DEFINE c      == Columns(w, x)
           width  == x \div c
           height == (618 * width) \div 1000
           rows   == IF (n \div c) * c < n THEN (n \div c) + 1 ELSE n \div c
           g      == Grid(c, x, y, n)
           row    == (k - 1) \div c
           across    == (k - 1) % c
<1>1. c \in Nat \ {0} /\ x <= c * w
  <2> DEFINE q  == x \div w
             qw == q * w
  <2>1. q \in Nat /\ qw \in Nat /\ x < qw + w
    BY Floor
  <2>2. c = q + 1
    BY DEF Columns
  <2> HIDE DEF q
  <2>3. (q + 1) * w = qw + w
    BY <2>1
  <2> HIDE DEF qw
  <2> QED
    BY <2>1, <2>2, <2>3
<1> HIDE DEF c
<1>2. width \in Nat /\ width * c <= x
  BY <1>1, Floor
<1>3. height \in Nat /\ 1000 * height <= 618 * width
  <2>1. 618 * width \in Nat
    BY <1>2
  <2> QED
    BY <2>1, Floor
<1>4. rows \in Nat /\ n <= rows * c /\ rows * c <= n + c - 1
  BY <1>1, RowsHold
<1>5. /\ g.columns = c /\ g.width = width /\ g.height = height
      /\ g.start_x = (x - width * c) \div 2
      /\ g.start_y = Quot(y - rows * height, 2)
  BY DEF Grid
<1> HIDE DEF width, height, rows, g
<1>6. rows * height <= y
  <2>1. 1000 * n * (w * w) <= 618 * x * y
    BY SquareBound
  <2> QED
    BY <1>1, <1>2, <1>3, <1>4, <2>1, RowsFit
<1>7. row \in Nat /\ row + 1 <= rows
  <2>1. row \in Nat /\ row * c <= k - 1
    BY <1>1, Floor
  <2>2. (rows - row) * c > 0
    <3> DEFINE a == row * c
               b == rows * c
    <3>1. a \in Int /\ b \in Int /\ a <= k - 1 /\ n <= b
      BY <1>1, <1>4, <2>1
    <3>2. (rows - row) * c = b - a
      BY <1>1, <1>4, <2>1
    <3> HIDE DEF a, b
    <3> QED
      BY <3>1, <3>2
  <2> HIDE DEF row
  <2> QED
    BY <1>1, <1>4, <2>1, <2>2
<1>8. across \in Nat /\ across + 1 <= c
  BY <1>1
<1>9. Regions(g, n)[k] = Cell(g, row, across)
  BY <1>5 DEF Regions
<1> HIDE DEF row, across
<1>10. /\ 0 <= g.start_x /\ g.start_x \in Int
       /\ g.start_x + width * c <= x
  <2> DEFINE a == width * c
  <2>1. a \in Nat /\ a <= x
    BY <1>1, <1>2
  <2> HIDE DEF a
  <2>2. g.start_x = (x - a) \div 2
    BY <1>5 DEF a
  <2>3. 0 <= g.start_x /\ g.start_x \in Int /\ g.start_x + a <= x
    BY <2>1, <2>2
  <2> QED
    BY <2>3 DEF a
<1>11. /\ 0 <= g.start_y /\ g.start_y \in Int
       /\ g.start_y + rows * height <= y
  <2> DEFINE a == rows * height
  <2>1. a \in Nat /\ a <= y
    BY <1>3, <1>4, <1>6
  <2> HIDE DEF a
  <2>2. g.start_y = (y - a) \div 2
    BY <1>5, <2>1 DEF Quot, a
  <2>3. 0 <= g.start_y /\ g.start_y \in Int /\ g.start_y + a <= y
    BY <2>1, <2>2
  <2> QED
    BY <2>3 DEF a
<1>12. /\ across * width \in Nat /\ across * width + width <= width * c
       /\ row * height \in Nat /\ row * height + height <= rows * height
  <2>1. (across + 1) * width <= c * width /\ (row + 1) * height <= rows * height
    BY <1>1, <1>2, <1>3, <1>4, <1>7, <1>8, Times
  <2> QED
    BY <1>1, <1>2, <1>3, <1>4, <1>7, <1>8, <2>1
<1>13. Within(Cell(g, row, across), x, y)
  <2> DEFINE right == across * width
             down  == row * height
             wide  == width * c
             high  == rows * height
  <2>1. /\ right \in Nat /\ down \in Nat /\ wide \in Int /\ high \in Int
        /\ right + width <= wide /\ down + height <= high
        /\ g.start_x + wide <= x /\ g.start_y + high <= y
    BY <1>1, <1>2, <1>3, <1>4, <1>10, <1>11, <1>12
  <2>2. Cell(g, row, across) = [x |-> g.start_x + right, y |-> g.start_y + down,
                             width |-> width - 5, height |-> height - 5]
    BY <1>5 DEF Cell, X_GAP, Y_GAP
  <2> HIDE DEF right, down, wide, high
  <2> QED
    BY <1>2, <1>3, <1>10, <1>11, <2>1, <2>2 DEF Within
<1> QED
  BY <1>9, <1>13 DEF g, c

\* No button is higher than wide.
LEMMA CellIsFlat ==
  ASSUME NEW c \in Nat \ {0}, NEW x \in Nat, NEW y, NEW n, NEW k \in 1 .. n
  PROVE  LET r == Regions(Grid(c, x, y, n), n)[k]
         IN  r.height <= r.width /\ r.width <= x
<1> DEFINE width  == x \div c
           height == (618 * width) \div 1000
<1>1. width \in Nat /\ width <= x
  <2>1. width \in Nat /\ width * c <= x
    BY Floor
  <2>2. width * 1 <= width * c
    <3> HIDE DEF width
    <3>1. 1 * width <= c * width
      BY <2>1, Times
    <3> QED
      BY <2>1, <3>1
  <2> DEFINE wc == width * c
  <2>3. wc \in Int
    BY <2>1
  <2> HIDE DEF width, wc
  <2> QED
    BY <2>1, <2>2, <2>3 DEF wc
<1> HIDE DEF width
<1>2. height \in Nat /\ height <= width
  BY <1>1
<1>3. /\ Regions(Grid(c, x, y, n), n)[k].width = width - 5
      /\ Regions(Grid(c, x, y, n), n)[k].height = height - 5
  BY DEF Regions, Grid, Cell, X_GAP, Y_GAP, width
<1> QED
  BY <1>1, <1>2, <1>3

(***************************************************************************)
(* The steps come in their order: there is a screen once it is mapped, and *)
(* nothing is read or laid out before its time.                            *)
(***************************************************************************)
DisplayFirst ==
  /\ dis_buf # NoScreen => dis_buf = screen /\ fb = "mapped"
  /\ pc \in {"children", "display", "screeninfo", "map"} => dis_buf = NoScreen
  /\ pc \in Early => p = 1 /\ configs = <<>> /\ file = NoFile
  /\ pc \in Early \cup {"parse", "layout"} => btns = <<>>

LEMMA InitDisplay == Init => DisplayFirst
BY DEF Init, DisplayFirst

LEMMA NextDisplay ==
  ASSUME IInv, DisplayFirst, [Next]_vars
  PROVE  DisplayFirst'
<1> USE DEF deviceVars, pageVars, DisplayFirst, Early
<1>1. CASE ChildInit
  BY <1>1 DEF ChildInit
<1>2. CASE OpenDisplay
  BY <1>2 DEF OpenDisplay
<1>3. CASE ScreenInfo
  BY <1>3 DEF ScreenInfo
<1>4. CASE MapDisplay
  BY <1>4 DEF MapDisplay
<1>5. CASE InitAllDevices
  BY <1>5 DEF InitAllDevices
<1>6. CASE SetFont
  BY <1>6 DEF SetFont
<1>7. CASE OpenConfig
  BY <1>7 DEF OpenConfig
<1>8. CASE ReadLine
  BY <1>8 DEF ReadLine
<1>9. CASE GenerateButtons
  BY <1>9 DEF GenerateButtons
<1>10. CASE DrawButton
  BY <1>10 DEF DrawButton
<1>11. CASE UNCHANGED vars
  BY <1>11 DEF vars
<1> QED
  BY <1>1, <1>2, <1>3, <1>4, <1>5, <1>6, <1>7, <1>8, <1>9, <1>10, <1>11
     DEF Next, Finished

\* The buttons stay as they are but for the step that lays them out, when the
\* display has long been found.
LEMMA LaidOutOnce ==
  ASSUME DisplayFirst, [Next]_vars
  PROVE  \/ UNCHANGED <<btns, dis_buf>>
         \/ btns' = <<>>
         \/ GenerateButtons
<1> USE DEF deviceVars, pageVars
<1>1. CASE MapDisplay
  BY <1>1 DEF MapDisplay, DisplayFirst, Early
<1>2. CASE ChildInit \/ OpenDisplay \/ ScreenInfo \/ InitAllDevices \/ SetFont
           \/ OpenConfig
  BY <1>2 DEF ChildInit, OpenDisplay, ScreenInfo, InitAllDevices, SetFont, OpenConfig
<1>3. CASE ReadLine \/ DrawButton \/ UNCHANGED vars
  BY <1>3 DEF ReadLine, DrawButton, vars
<1> QED
  BY <1>1, <1>2, <1>3 DEF Next, Finished

\* What generate_buttons has to start from.
LEMMA LaysOut ==
  ASSUME TypeInv, GenerateButtons, ~ UNCHANGED btns, NEW n, n = Len(configs)
  PROVE  \E w \in Nat :
           /\ n # 0 => SquareRootOf(w, dis_buf.x_res, dis_buf.y_res, n)
           /\ LET c == IF w = 0 THEN 1 ELSE Columns(w, dis_buf.x_res) IN
                /\ c \in Nat \ {0}
                /\ btns' = [k \in 1 .. n |->
                     [name |-> configs[k],
                      region |-> Regions(Grid(c, dis_buf.x_res, dis_buf.y_res, n), n)[k]]]
<1> DEFINE x == dis_buf.x_res
<1>1. x \in Nat /\ dis_buf.y_res \in Nat
  BY DisplaySize
<1>2. PICK w \in 0 .. x + dis_buf.y_res :
        /\ IF n = 0 THEN w = 0
           ELSE SquareRootOf(w, x, dis_buf.y_res, n)
        /\ btns' = [k \in 1 .. n |->
             [name |-> configs[k],
              region |-> Regions(Grid(IF w = 0 THEN 1 ELSE Columns(w, x),
                                      x, dis_buf.y_res, n), n)[k]]]
  BY DEF GenerateButtons
<1>3. w \in Nat
  BY <1>1, <1>2
<1>4. (IF w = 0 THEN 1 ELSE Columns(w, x)) \in Nat \ {0}
  <2>1. CASE w # 0
    <3>1. x \div w \in Nat
      BY <1>1, <1>3, <2>1, Floor
    <3> QED
      BY <2>1, <3>1 DEF Columns
  <2> QED
    BY <2>1
<1> QED
  BY <1>2, <1>3, <1>4

LEMMA DisplayHolds == Spec => [](IInv /\ DisplayFirst)
BY InitIInv, InitDisplay, NextIInv, NextDisplay, PTL DEF Spec

(***************************************************************************)
(* What is drawn, on a screen that is roomy.                               *)
(***************************************************************************)
RegionsWithin ==
  \A k \in DOMAIN btns :
    IF dis_buf = NoScreen THEN btns[k].region.width <= 0
    ELSE Within(btns[k].region, dis_buf.x_res, dis_buf.y_res)

\* A screen is an array of lines of at least one pixel.
LEMMA DisplayOfScreen ==
  ASSUME TypeInv, dis_buf # NoScreen
  PROVE  /\ dis_buf \in Screen
         /\ dis_buf.x_res \in Nat \ {0} /\ dis_buf.y_res \in Nat \ {0}
         /\ dis_buf.bpp \in {8, 16, 32}
BY StartupAssumption DEF TypeInv, StartupTypeOK

\* With enough pixels the first width is never zero.
LEMMA WidthNotZero ==
  ASSUME Roomy, TypeInv, dis_buf # NoScreen, NEW n \in 1 .. CONFIG_MAX_NUMBER,
         NEW w \in Nat, SquareRootOf(w, dis_buf.x_res, dis_buf.y_res, n)
  PROVE  w # 0
<1> DEFINE x   == dis_buf.x_res
           y   == dis_buf.y_res
           all == 618 * x * y
<1>1. x \in Nat \ {0} /\ y \in Nat \ {0} /\ 1000 * CONFIG_MAX_NUMBER <= all
  BY DisplayOfScreen DEF Roomy
<1>2. n \in Nat \ {0}
  BY StartupAssumption
<1>3. 1000 * n <= all
  <2>1. all \in Int
    BY <1>1
  <2> HIDE DEF all
  <2> QED
    BY <1>1, <2>1, StartupAssumption
<1> QED
  BY <1>1, <1>2, <1>3, SquareBound

LEMMA NextWithin ==
  ASSUME Roomy, IInv, DisplayFirst, RegionsWithin, [Next]_vars
  PROVE  RegionsWithin'
<1>1. CASE \/ UNCHANGED <<btns, dis_buf>>
           \/ btns' = <<>>
           \/ GenerateButtons /\ UNCHANGED btns
  BY <1>1 DEF RegionsWithin, GenerateButtons
<1>2. CASE GenerateButtons /\ ~ UNCHANGED btns
  <2> DEFINE n == Len(configs)
             x == dis_buf.x_res
             y == dis_buf.y_res
             Col(w) == IF w = 0 THEN 1 ELSE Columns(w, x)
             Laid(c, k) == Regions(Grid(c, x, y, n), n)[k]
  <2>0. TypeInv
    BY DEF IInv
  <2>1. x \in Nat /\ y \in Nat
    BY <2>0, DisplaySize
  <2>2. PICK w \in Nat :
          /\ n # 0 => SquareRootOf(w, x, y, n)
          /\ Col(w) \in Nat \ {0}
          /\ btns' = [k \in 1 .. n |-> [name |-> configs[k], region |-> Laid(Col(w), k)]]
    BY <1>2, <2>0, LaysOut
  <2>3. UNCHANGED dis_buf
    BY <1>2 DEF GenerateButtons
  <2>4. ASSUME NEW k \in 1 .. n, dis_buf = NoScreen
        PROVE  btns'[k].region.width <= 0
    <3>1. x = 0
      BY <2>4 DEF NoScreen
    <3>2. Laid(Col(w), k).width <= x
      <4>1. \A c \in Nat \ {0} : Laid(c, k).width <= x
        BY <2>1, CellIsFlat
      <4> HIDE DEF Col, Laid
      <4> QED
        BY <2>2, <4>1
    <3>3. btns'[k].region = Laid(Col(w), k)
      BY <2>2
    <3> QED
      BY <3>1, <3>2, <3>3
  <2>5. ASSUME NEW k \in 1 .. n, dis_buf # NoScreen
        PROVE  Within(btns'[k].region, x, y)
    <3>1. dis_buf \in Screen /\ x \in Nat \ {0} /\ y \in Nat \ {0}
      BY <2>0, <2>5, DisplayOfScreen
    <3>2. n \in 1 .. CONFIG_MAX_NUMBER /\ n \in Nat \ {0}
      BY <2>0, StartupAssumption DEF TypeInv, StartupTypeOK
    <3>3. SquareRootOf(w, x, y, n) /\ x <= 4 * y
      BY <2>2, <3>1, <3>2 DEF Roomy
    <3>4. w # 0
      BY <2>0, <2>5, <3>2, <3>3, WidthNotZero
    <3>5. Within(Laid(Columns(w, x), k), x, y)
      BY <3>1, <3>2, <3>3, <3>4, CellWithin
    <3>6. btns'[k].region = Laid(Columns(w, x), k)
      BY <2>2, <3>4
    <3> QED
      BY <3>5, <3>6
  <2>6. DOMAIN btns' = 1 .. n
    BY <2>2
  <2> HIDE DEF n, Laid, Col
  <2> QED
    BY <2>3, <2>4, <2>5, <2>6 DEF RegionsWithin
<1> QED
  BY <1>1, <1>2, LaidOutOnce

\* The page draws into the mapped framebuffer and nowhere else, whatever of
\* the display fails, on any screen no more than four times as wide as high
\* and with enough pixels for the buttons (display_mgr.c, main_page.c:130).
THEOREM DrawsInFramebufferCorrect == ASSUME Roomy PROVE Spec => []DrawsInFramebuffer
<1>1. IInv /\ DisplayFirst /\ RegionsWithin => DrawsInFramebuffer
  <2> SUFFICES ASSUME IInv, DisplayFirst, RegionsWithin, NEW k \in DOMAIN btns,
                      NEW px \in RegionPixels(btns[k].region) \cup GlyphPixels
               PROVE  /\ fb = "mapped"
                      /\ px[1] \in 0 .. screen.x_res - 1 /\ px[2] \in 0 .. screen.y_res - 1
                      /\ PixelOffset(dis_buf, px[1], px[2]) + screen.bpp \div 8
                           <= screen.x_res * (screen.bpp \div 8) * screen.y_res
    BY DEF DrawsInFramebuffer
  <2> DEFINE r == btns[k].region
             x == dis_buf.x_res
             y == dis_buf.y_res
  <2>0. TypeInv
    BY DEF IInv
  <2>1. r.x \in Int /\ r.y \in Int /\ r.width \in Int /\ r.height \in Int
    <3>1. btns[k] \in Button
      BY <2>0 DEF TypeInv
    <3> QED
      BY <3>1 DEF Button
  <2>2. x \in Nat /\ y \in Nat
    BY <2>0, DisplaySize
  <2>3. px[1] \in Int /\ px[2] \in Int
    <3>1. CASE px \in GlyphPixels
      BY <2>2, <3>1 DEF GlyphPixels
    <3>2. CASE px \in RegionPixels(r)
      BY <2>1, <3>2 DEF RegionPixels
    <3> QED
      BY <3>1, <3>2
  <2>4. Shown(dis_buf, px[1], px[2]) \/ Fills(px[1], px[2], r)
    BY DEF GlyphPixels, RegionPixels
  <2>5. dis_buf # NoScreen
    <3> SUFFICES ASSUME dis_buf = NoScreen
                 PROVE  FALSE
      OBVIOUS
    <3>1. x = 0 /\ r.width <= 0
      BY DEF NoScreen, RegionsWithin
    <3>2. ~ Shown(dis_buf, px[1], px[2])
      BY <2>3, <3>1 DEF Shown
    <3>3. ~ Fills(px[1], px[2], r)
      <4> HIDE DEF r
      <4> QED
        BY <2>1, <2>3, <3>1 DEF Fills
    <3> QED
      BY <2>4, <3>2, <3>3
  <2>6. fb = "mapped" /\ dis_buf = screen
    BY <2>5 DEF DisplayFirst
  <2>7. px[1] \in 0 .. x - 1 /\ px[2] \in 0 .. y - 1
    <3>1. CASE Shown(dis_buf, px[1], px[2])
      BY <2>2, <2>3, <3>1 DEF Shown
    <3>2. CASE Fills(px[1], px[2], r)
      <4>1. Within(r, x, y)
        BY <2>5 DEF RegionsWithin
      <4> HIDE DEF r, x, y
      <4> QED
        BY <2>1, <2>2, <2>3, <3>2, <4>1 DEF Fills, Within
    <3> QED
      BY <2>4, <3>1, <3>2
  <2> DEFINE bytes == dis_buf.bpp \div 8
  <2>8. bytes \in Nat
    BY <2>0, <2>5, DisplayOfScreen
  <2>9. px[2] * (x * bytes) + px[1] * bytes + bytes <= x * bytes * y
    <3> HIDE DEF x, y, bytes
    <3> QED
      BY <2>2, <2>7, <2>8, PixelInside
  <2> QED
    BY <2>6, <2>7, <2>9 DEF PixelOffset
<1>2. Init => RegionsWithin
  BY DEF Init, RegionsWithin
<1>3. IInv /\ DisplayFirst /\ RegionsWithin /\ [Next]_vars => RegionsWithin'
  BY NextWithin
<1> QED
  BY <1>1, <1>2, <1>3, DisplayHolds, PTL DEF Spec

(***************************************************************************)
(* What the buffer holds where p and the words are: nothing but what was   *)
(* read, up to an end mark.                                                *)
(***************************************************************************)
Written == ReadsWritten /\ (line = 0 /\ col = 0 => p = 1)

\* What is looked for from before an end mark is found before it.
LEMMA StopsAtMark ==
  ASSUME NEW b, NEW m \in Nat, NEW n \in Nat, NEW e \in Nat, NEW S,
         m <= e, b[e] = Nul, Nul \notin S, Runs(b, m, n, S)
  PROVE  n <= e
<1> SUFFICES ASSUME e < n
             PROVE  FALSE
  OBVIOUS
<1>1. e \in m .. n - 1
  OBVIOUS
<1> QED
  BY <1>1 DEF Runs

\* fgets leaves an end mark at p or behind it.
LEMMA EndMark ==
  ASSUME TypeInv, Written, line # Len(file), NEW l, l = file[line + 1]
  PROVE  \E e \in p .. BufSize :
           Filled(l)[e] = Nul /\ \A i \in 1 .. e : Filled(l)[i] # Unwritten
<1> DEFINE b == Filled(l)
           m == Got(l) + 1
<1>1. /\ m \in 2 .. BufSize /\ BufSize \in Nat /\ p \in 1 .. BufSize
      /\ line \in Nat /\ col \in Nat
  <2>1. BufSize \in Nat /\ p \in 1 .. BufSize
    BY StartupAssumption DEF TypeInv, StartupTypeOK
  <2>2. /\ line \in Nat /\ Len(l) \in Nat \ {0} /\ col \in 0 .. Len(l) - 1
        /\ Got(l) \in 1 .. BufSize - 1
    BY NextLine
  <2> QED
    BY <2>1, <2>2
<1>2. /\ \A i \in 1 .. m - 1 : b[i] \in Char
      /\ b[m] = Nul /\ \A i \in m + 1 .. BufSize : b[i] \in {Nul, buf[i]}
  <2>1. m - 1 = Got(l) /\ m + 1 = Got(l) + 2
    <3>1. Got(l) \in Nat
      BY NextLine, StartupAssumption
    <3> QED
      BY <3>1
  <2> HIDE DEF m
  <2>2. b[Got(l) + 1] = Nul
    BY FilledType
  <2> QED
    BY <2>1, <2>2, FilledType DEF m
<1>3. \A c \in Char : c # Unwritten
  BY StartupAssumption DEF Char, Space, Blank, NewLine, Hash, Unwritten
<1>4. Nul # Unwritten
  BY DEF Nul, Unwritten
<1> HIDE DEF b, m
<1>5. \A i \in 1 .. m : b[i] # Unwritten
  <2> SUFFICES ASSUME NEW i \in 1 .. m
               PROVE  b[i] # Unwritten
    OBVIOUS
  <2>1. i = m \/ i \in 1 .. m - 1
    BY <1>1
  <2> QED
    BY <1>2, <1>3, <1>4, <2>1
<1>6. CASE line = 0 /\ col = 0
  <2>1. p = 1
    BY <1>6 DEF Written
  <2> QED
    BY <1>1, <1>2, <1>5, <2>1 DEF b
<1>7. CASE ~ (line = 0 /\ col = 0)
  <2>1. PICK e \in p .. BufSize : buf[e] = Nul /\ \A i \in 1 .. e : buf[i] # Unwritten
    BY <1>1, <1>7 DEF Written, ReadsWritten
  <2>2. CASE e <= m
    <3>1. m \in p .. BufSize
      BY <1>1, <2>2
    <3> QED
      BY <1>2, <1>5, <3>1 DEF b
  <2>3. CASE e > m
    <3>1. b[e] = Nul
      <4>1. e \in m + 1 .. BufSize
        BY <1>1, <2>3
      <4> QED
        BY <1>2, <2>1, <4>1
    <3>2. ASSUME NEW i \in 1 .. e
          PROVE  b[i] # Unwritten
      <4>1. i \in 1 .. m \/ i \in m + 1 .. BufSize
        BY <1>1
      <4> QED
        BY <1>2, <1>4, <1>5, <2>1, <4>1
    <3> QED
      BY <3>1, <3>2 DEF b
  <2> QED
    BY <1>1, <2>2, <2>3
<1> QED
  BY <1>6, <1>7

LEMMA ReadsBeforeMark ==
  ASSUME IInv, Written, ReadLine, line # Len(file)
  PROVE  Written'
<1> DEFINE l == file[line + 1]
           b == Filled(l)
<1>0. TypeInv
  BY DEF IInv
<1>1. /\ BufSize \in Nat /\ p \in 1 .. BufSize /\ configs \in Seq(Name)
  BY <1>0, StartupAssumption DEF TypeInv, StartupTypeOK
<1>2. line' > 0 \/ col' > 0
  BY <1>0, ReadsOn
<1>3. /\ buf' = b /\ p' \in p .. BufSize /\ Runs(b, p, p', {Blank})
      /\ \/ UNCHANGED configs
         \/ \E s, e \in p' .. BufSize :
              /\ Scans(b, p', s, e)
              /\ configs' = Append(configs, SubSeq(b, s, e - 1))
  BY DEF ReadLine
<1>4. b \in [1 .. BufSize -> BufChar]
  BY <1>0, FilledType
<1>5. PICK m \in p .. BufSize : b[m] = Nul /\ \A i \in 1 .. m : b[i] # Unwritten
  BY <1>0, EndMark
<1> HIDE DEF b
<1>6. Nul # Blank /\ Nul \notin Space
  BY DEF Nul, Blank, NewLine, Space
<1>7. p' <= m
  BY <1>1, <1>3, <1>5, <1>6, StopsAtMark
<1>8. \E e \in p' .. BufSize : buf'[e] = Nul /\ \A i \in 1 .. e : buf'[i] # Unwritten
  <2>1. m \in p' .. BufSize
    BY <1>1, <1>3, <1>5, <1>7
  <2> QED
    BY <1>3, <1>5, <2>1
<1>9. \A k \in DOMAIN configs : \A i \in DOMAIN configs[k] : configs[k][i] # Unwritten
  BY DEF Written, ReadsWritten
<1>10. CASE ~ UNCHANGED configs
  <2>1. PICK s \in p' .. BufSize, e \in p' .. BufSize :
          Scans(b, p', s, e) /\ configs' = Append(configs, SubSeq(b, s, e - 1))
    BY <1>3, <1>10
  <2> DEFINE w == SubSeq(b, s, e - 1)
  <2>2. /\ s \in Nat /\ e \in Nat /\ p' \in Nat /\ p' >= 1 /\ s <= e
        /\ Runs(b, p', s, Space) /\ Runs(b, s, e, BufChar \ (Space \cup {Nul}))
    BY <1>1, <1>3, <2>1 DEF Scans
  <2>3. s <= m
    BY <1>1, <1>5, <1>6, <1>7, <2>2, StopsAtMark
  <2>4. e <= m
    <3>1. Nul \notin BufChar \ (Space \cup {Nul})
      OBVIOUS
    <3> QED
      BY <1>1, <1>5, <2>2, <2>3, <3>1, StopsAtMark
  <2>5. s \in 1 .. BufSize /\ e \in s .. BufSize
    BY <1>1, <2>1, <2>2
  <2>6. /\ w \in Name /\ Len(w) = e - s
        /\ \A i \in 1 .. e - s : w[i] = b[s + i - 1]
    BY <1>1, <1>4, <2>5, WordOf DEF Name
  <2>7. \A i \in DOMAIN w : w[i] # Unwritten
    <3> HIDE DEF w
    <3> SUFFICES ASSUME NEW i \in 1 .. e - s
                 PROVE  w[i] # Unwritten
      BY <2>6 DEF Name
    <3>1. s + i - 1 \in 1 .. m
      BY <1>1, <1>5, <2>2, <2>4
    <3> QED
      BY <1>5, <2>6, <3>1
  <2>8. configs' = Append(configs, w)
    BY <2>1
  <2> HIDE DEF w
  <2>9. /\ Len(configs') = Len(configs) + 1 /\ configs'[Len(configs) + 1] = w
        /\ \A k \in 1 .. Len(configs) : configs'[k] = configs[k]
        /\ configs' \in Seq(Name)
    BY <1>1, <2>6, <2>8, AppendProperties
  <2>10. ASSUME NEW k \in DOMAIN configs', NEW i \in DOMAIN configs'[k]
         PROVE  configs'[k][i] # Unwritten
    <3>1. k \in 1 .. Len(configs) \/ k = Len(configs) + 1
      BY <1>1, <2>9
    <3>2. DOMAIN configs = 1 .. Len(configs)
      BY <1>1
    <3> QED
      BY <1>9, <2>7, <2>9, <2>10, <3>1, <3>2
  <2> QED
    BY <1>2, <1>8, <2>10 DEF Written, ReadsWritten
<1>11. CASE UNCHANGED configs
  BY <1>2, <1>8, <1>9, <1>11 DEF Written, ReadsWritten
<1> QED
  BY <1>10, <1>11

\* Whatever the lines of the file, how long and how indented they are, the
\* parser reads no byte of its buffer that fgets has not written, and never
\* runs past the end of what it has written (config.c:17-38).
THEOREM ReadsWrittenCorrect == Spec => []ReadsWritten
<1>1. Init => Written
  <2> SUFFICES ASSUME Init PROVE Written
    OBVIOUS
  <2>1. line = 0 /\ col = 0 /\ p = 1 /\ configs = <<>>
    BY DEF Init
  <2> QED
    BY <2>1 DEF Written, ReadsWritten
<1>2. IInv /\ DisplayFirst /\ Written /\ [Next]_vars => Written'
  <2> SUFFICES ASSUME IInv, Written, [Next]_vars
               PROVE  Written'
    OBVIOUS
  <2>1. CASE UNCHANGED <<line, col, buf, p, configs>>
    BY <2>1 DEF Written, ReadsWritten
  <2>2. CASE ReadLine /\ line # Len(file)
    BY <2>2, ReadsBeforeMark
  <2>3. CASE ReadLine /\ line = Len(file)
    BY <2>1, <2>3 DEF ReadLine
  <2>4. CASE ChildInit \/ OpenDisplay \/ ScreenInfo \/ MapDisplay \/ InitAllDevices
             \/ SetFont \/ OpenConfig
    BY <2>1, <2>4 DEF ChildInit, OpenDisplay, ScreenInfo, MapDisplay, InitAllDevices,
                      SetFont, OpenConfig, pageVars
  <2>5. CASE GenerateButtons \/ DrawButton \/ UNCHANGED vars
    BY <2>1, <2>5 DEF GenerateButtons, DrawButton, vars
  <2> QED
    BY <2>2, <2>3, <2>4, <2>5 DEF Next, Finished
<1>3. Written => ReadsWritten
  BY DEF Written
<1> QED
  BY <1>1, <1>2, <1>3, DisplayHolds, PTL DEF Spec

\* The same part of a line and of the buffer it is in.
LEMMA SameWord ==
  ASSUME NEW S, NEW C, NEW n \in Nat, NEW b \in [1 .. n -> S], NEW l \in Seq(C),
         Len(l) < n, \A i \in 1 .. Len(l) : b[i] = l[i],
         NEW s \in 1 .. Len(l) + 1, NEW e \in s .. Len(l) + 1
  PROVE  SubSeq(b, s, e - 1) = SubSeq(l, s, e - 1)
<1> DEFINE v == SubSeq(b, s, e - 1)
           w == SubSeq(l, s, e - 1)
<1>1. b \in Seq(S) /\ Len(b) = n /\ Len(l) \in Nat
  OBVIOUS
<1>2. /\ s \in 1 .. n + 1 /\ e - 1 \in s - 1 .. n /\ (e - 1) - s + 1 = e - s
      /\ s \in 1 .. Len(l) + 1 /\ e - 1 \in s - 1 .. Len(l)
  BY <1>1
<1>3. /\ v \in Seq(S) /\ Len(v) = e - s /\ \A i \in 1 .. e - s : v[i] = b[s + i - 1]
  BY <1>1, <1>2, SubSeqProperties
<1>4. /\ w \in Seq(C) /\ Len(w) = e - s /\ \A i \in 1 .. e - s : w[i] = l[s + i - 1]
  BY <1>2, SubSeqProperties
<1> HIDE DEF v, w
<1>5. \A i \in 1 .. e - s : s + i - 1 \in 1 .. Len(l)
  BY <1>1
<1>6. \A i \in 1 .. e - s : v[i] = w[i]
  BY <1>3, <1>4, <1>5
<1>7. v \in Seq(S \cup C) /\ w \in Seq(S \cup C)
  BY <1>3, <1>4
<1> QED
  BY <1>3, <1>4, <1>6, <1>7, SeqEqual DEF v, w

\* A line that fits into the buffer and has blanks up to p is read whole.
LEMMA ReadsWhole ==
  ASSUME TypeInv, line # Len(file), NEW l, l = file[line + 1], col = 0,
         Len(l) < BufSize, Blanks(l, p - 1), NEW b, b = Filled(l),
         NEW q \in p .. BufSize, Runs(b, p, q, {Blank})
  PROVE  /\ Got(l) = Len(l) /\ q - 1 \in 0 .. Len(l) /\ Blanks(l, q - 1)
         /\ IsComment(b, q) <=> Comment(l)
         /\ \A s, e \in q .. BufSize :
              Scans(b, q, s, e) => FirstWord(l, SubSeq(b, s, e - 1))
<1> DEFINE n == Len(l)
<1>1. /\ BufSize \in Nat /\ p \in 1 .. BufSize /\ l \in Seq(Char) /\ n \in Nat \ {0}
  BY NextLine, StartupAssumption DEF TypeInv, StartupTypeOK
<1>2. Got(l) = n
  BY <1>1 DEF Got
<1>3. /\ b \in [1 .. BufSize -> BufChar] /\ b[n + 1] = Nul
      /\ \A i \in 1 .. n : b[i] = l[i]
  <2>1. /\ b \in [1 .. BufSize -> BufChar] /\ b[n + 1] = Nul
        /\ \A i \in 1 .. n : b[i] = l[col + i]
    BY <1>2, FilledType
  <2> QED
    BY <2>1
<1>4. \A i \in 1 .. n : l[i] \in Char
  BY <1>1
<1>5. /\ Nul \notin Char /\ Nul # Hash /\ Nul # Blank /\ Hash # Blank /\ Nul \notin Space
      /\ Blank \in Space
  BY StartupAssumption DEF Char, Space, Blank, NewLine, Hash, Nul
<1>6. p - 1 <= n /\ \A i \in 1 .. p - 1 : l[i] = Blank
  BY DEF Blanks
<1> HIDE DEF n
<1>7. q <= n + 1
  <2>1. p <= n + 1 /\ n + 1 \in Nat /\ p \in Nat /\ q \in Nat
    BY <1>1, <1>6
  <2> QED
    BY <1>3, <1>5, <2>1, StopsAtMark
<1>8. \A i \in p .. q - 1 : b[i] = Blank
  BY DEF Runs
<1>9. b[q] # Blank
  BY DEF Runs
<1>10. \A i \in 1 .. q - 1 : l[i] = Blank
  <2> SUFFICES ASSUME NEW i \in 1 .. q - 1
               PROVE  l[i] = Blank
    OBVIOUS
  <2>1. i \in 1 .. n /\ (i \in 1 .. p - 1 \/ i \in p .. q - 1)
    BY <1>1, <1>7
  <2> QED
    BY <1>3, <1>6, <1>8, <2>1
<1>11. q - 1 \in 0 .. n /\ Blanks(l, q - 1)
  BY <1>1, <1>7, <1>10 DEF Blanks, n
<1>12. IsComment(b, q) => Comment(l)
  <2> SUFFICES ASSUME b[q] = Hash
               PROVE  Comment(l)
    BY DEF IsComment
  <2>1. q # n + 1
    BY <1>3, <1>5
  <2>2. q - 1 \in 0 .. n - 1 /\ q \in 1 .. n /\ (q - 1) + 1 = q
    BY <1>1, <1>7, <2>1
  <2>3. l[(q - 1) + 1] = Hash
    BY <1>3, <2>2
  <2> QED
    BY <1>11, <2>2, <2>3 DEF Comment, n
<1>13. Comment(l) => IsComment(b, q)
  <2> SUFFICES ASSUME NEW k \in 0 .. n - 1, \A i \in 1 .. k : l[i] = Blank, l[k + 1] = Hash
               PROVE  b[q] = Hash
    BY DEF IsComment, Comment, Blanks, n
  <2>1. CASE k + 1 < q
    <3>1. k + 1 \in 1 .. q - 1
      BY <1>1, <2>1
    <3> QED
      BY <1>5, <1>10, <3>1
  <2>2. CASE q < k + 1
    <3>1. q \in 1 .. k /\ q \in 1 .. n
      BY <1>1, <2>2
    <3> QED
      BY <1>3, <1>9, <3>1
  <2>3. CASE q = k + 1
    <3>1. q \in 1 .. n
      BY <1>1, <2>3
    <3> QED
      BY <1>3, <2>3, <3>1
  <2> QED
    BY <1>1, <2>1, <2>2, <2>3
<1>14. ASSUME NEW s \in q .. BufSize, NEW e \in q .. BufSize, Scans(b, q, s, e)
       PROVE  FirstWord(l, SubSeq(b, s, e - 1))
  <2>1. /\ s <= e /\ b[s] \notin Space
        /\ \A i \in q .. s - 1 : b[i] \in Space
        /\ \A i \in s .. e - 1 : b[i] \in BufChar \ (Space \cup {Nul})
        /\ b[e] \notin BufChar \ (Space \cup {Nul})
    BY <1>14 DEF Scans, Runs
  <2>2. q \in Nat /\ s \in Nat /\ e \in Nat /\ q >= 1 /\ n + 1 \in Nat
    BY <1>1
  <2>3. s <= n + 1
    <3>1. Runs(b, q, s, Space)
      BY <1>14 DEF Scans
    <3> QED
      BY <1>3, <1>5, <1>7, <2>2, <3>1, StopsAtMark
  <2>4. e <= n + 1
    <3>1. Runs(b, s, e, BufChar \ (Space \cup {Nul}))
      BY <1>14 DEF Scans
    <3>2. Nul \notin BufChar \ (Space \cup {Nul})
      OBVIOUS
    <3> QED
      BY <1>3, <2>2, <2>3, <3>1, <3>2, StopsAtMark
  <2>5. s \in 1 .. n + 1 /\ e \in s .. n + 1
    BY <1>1, <2>1, <2>2, <2>3, <2>4
  <2>6. ASSUME NEW i \in 1 .. s - 1
        PROVE  l[i] \in Space
    <3>1. i \in 1 .. n /\ (i \in 1 .. q - 1 \/ i \in q .. s - 1)
      BY <1>1, <2>2, <2>3
    <3> QED
      BY <1>3, <1>5, <1>10, <2>1, <3>1
  <2>7. ASSUME NEW i \in s .. e - 1
        PROVE  l[i] \notin Space
    <3>1. i \in 1 .. n
      BY <1>1, <2>2, <2>4
    <3> QED
      BY <1>3, <2>1, <3>1
  <2>8. s <= n => l[s] \notin Space
    <3>1. s <= n => s \in 1 .. n
      BY <1>1, <2>2
    <3> QED
      BY <1>3, <2>1, <3>1
  <2>9. e <= n => l[e] \in Space
    <3> SUFFICES ASSUME e <= n
                 PROVE  l[e] \in Space
      OBVIOUS
    <3>1. e \in 1 .. n /\ e \in 1 .. BufSize
      BY <1>1, <2>2, <2>5
    <3>2. b[e] \in BufChar /\ b[e] = l[e] /\ l[e] \in Char
      BY <1>3, <1>4, <3>1
    <3> QED
      BY <1>5, <2>1, <3>2
  <2>10. SubSeq(b, s, e - 1) = SubSeq(l, s, e - 1)
    BY <1>1, <1>3, <2>5, SameWord DEF n
  <2> QED
    BY <2>5, <2>6, <2>7, <2>8, <2>9, <2>10 DEF FirstWord, n
<1> QED
  BY <1>2, <1>11, <1>12, <1>13, <1>14 DEF n

(***************************************************************************)
(* What is read of the file: after each line the items are those of the    *)
(* lines before, each at the place that the lines before it leave, and the *)
(* lines to come begin with as many blanks as p has gone over.             *)
(***************************************************************************)
LEMMA PlaceCounts ==
  ASSUME NEW f, NEW i \in Nat
  PROVE  /\ Place(f, 0) = 0
         /\ Place(f, i) \in Nat
         /\ Comment(f[i + 1]) => Place(f, i + 1) = Place(f, i)
         /\ ~ Comment(f[i + 1]) => Place(f, i + 1) = Place(f, i) + 1
<1> DEFINE S(n) == {j \in 1 .. n : ~ Comment(f[j])}
<1>1. Place(f, 0) = 0
  <2>1. S(0) = {}
    OBVIOUS
  <2> QED
    BY <2>1, FS_EmptySet DEF Place
<1>2. IsFiniteSet(S(i))
  <2>1. IsFiniteSet(1 .. i) /\ S(i) \in SUBSET (1 .. i)
    BY FS_Interval
  <2> QED
    BY <2>1, FS_Subset
<1>3. Cardinality(S(i)) \in Nat
  BY <1>2, FS_CardinalityType
<1>4. ASSUME Comment(f[i + 1])
      PROVE  S(i + 1) = S(i)
  BY <1>4
<1>5. ASSUME ~ Comment(f[i + 1])
      PROVE  S(i + 1) = S(i) \cup {i + 1} /\ i + 1 \notin S(i)
  BY <1>5
<1>6. Cardinality(S(i) \cup {i + 1}) =
        IF i + 1 \in S(i) THEN Cardinality(S(i)) ELSE Cardinality(S(i)) + 1
  BY <1>2, FS_AddElement
<1>7. Place(f, i) = Cardinality(S(i)) /\ Place(f, i + 1) = Cardinality(S(i + 1))
  BY DEF Place
<1> HIDE DEF S
<1> QED
  BY <1>1, <1>3, <1>4, <1>5, <1>6, <1>7

LEMMA PlaceGrows ==
  ASSUME NEW f, NEW i \in Nat, NEW j \in Nat, i <= j
  PROVE  Place(f, i) <= Place(f, j)
<1> DEFINE S(n) == {k \in 1 .. n : ~ Comment(f[k])}
<1>1. IsFiniteSet(1 .. j) /\ S(j) \in SUBSET (1 .. j)
  BY FS_Interval
<1>2. IsFiniteSet(S(j))
  BY <1>1, FS_Subset
<1>3. S(i) \in SUBSET S(j)
  OBVIOUS
<1>4. Cardinality(S(i)) <= Cardinality(S(j))
  BY <1>2, <1>3, FS_Subset
<1> QED
  BY <1>4 DEF Place

\* The place of a line that is no comment is one of those counted.
LEMMA PlaceInside ==
  ASSUME NEW f, NEW n \in Nat, NEW i \in 1 .. n, ~ Comment(f[i])
  PROVE  Place(f, i) \in 1 .. Place(f, n)
<1>1. i - 1 \in Nat /\ (i - 1) + 1 = i
  OBVIOUS
<1>2. Place(f, i - 1) \in Nat /\ Place(f, i) = Place(f, i - 1) + 1
  BY <1>1, PlaceCounts
<1>3. Place(f, n) \in Nat
  BY PlaceCounts
<1>4. Place(f, i) <= Place(f, n)
  BY PlaceGrows
<1> QED
  BY <1>2, <1>3, <1>4

ReadSoFar ==
  Indented(file) =>
    /\ col = 0
    /\ \A i \in DOMAIN file : line < i => Blanks(file[i], p - 1)
    /\ pc # "undefined" =>
         /\ Len(configs) = Place(file, line)
         /\ \A i \in 1 .. line : ~ Comment(file[i]) =>
              FirstWord(file[i], configs[Place(file, i)])
    /\ \A k \in 1 .. Len(configs) : \E i \in Wanted(file) : FirstWord(file[i], configs[k])
    /\ pc \in {"layout", "draw", "running"} => line = Len(file)

\* The parts of ConfigIsRead that are not of the parse.
ItemsDrawn ==
  pc \in {"draw", "running"} => [k \in DOMAIN btns |-> btns[k].name] = configs
WhyUndefined ==
  pc = "undefined" =>
    \/ file = NoFile \/ Place(file, Len(file)) > CONFIG_MAX_NUMBER
    \/ dis_buf = NoScreen \/ \E i \in Wanted(file) : FirstWord(file[i], <<>>)

ReadInv == ReadSoFar /\ (Indented(file) => ItemsDrawn /\ WhyUndefined)

\* Steps that leave alone what is read of the file.
LEMMA KeepsRead ==
  ASSUME ReadInv, UNCHANGED <<file, line, col, p, configs>>,
         pc' # "undefined" => pc # "undefined",
         pc' \in {"layout", "draw", "running"} =>
           pc \in {"layout", "draw", "running"} \/ line = Len(file),
         Indented(file) => ItemsDrawn' /\ WhyUndefined'
  PROVE  ReadInv'
<1>1. ReadSoFar'
  BY DEF ReadInv, ReadSoFar
<1> QED
  BY <1>1 DEF ReadInv

LEMMA ReadsLine ==
  ASSUME IInv, DisplayFirst, ReadInv, ReadLine, line # Len(file), Indented(file)
  PROVE  ReadSoFar' /\ ItemsDrawn' /\ WhyUndefined'
<1> DEFINE l == file[line + 1]
           b == Filled(l)
<1>0. TypeInv
  BY DEF IInv
<1>1. /\ file \in Seq(Line) /\ line \in 0 .. Len(file) /\ configs \in Seq(Name)
      /\ Len(configs) <= CONFIG_MAX_NUMBER /\ p \in 1 .. BufSize
      /\ DOMAIN file = 1 .. Len(file) /\ Len(file) \in Nat /\ CONFIG_MAX_NUMBER \in Nat
  BY <1>0, LinesOfFile, StartupAssumption DEF TypeInv, StartupTypeOK
<1>2. /\ line + 1 \in 1 .. Len(file) /\ line \in Nat /\ l \in Seq(Char)
      /\ Len(l) \in Nat \ {0}
  BY <1>0, NextLine
<1>3. /\ pc = "parse" /\ UNCHANGED <<file, btns, dis_buf>> /\ buf' = b
      /\ IF col + Got(l) = Len(l) THEN line' = line + 1 /\ col' = 0
         ELSE line' = line /\ col' = col + Got(l)
      /\ p' \in p .. BufSize /\ Runs(b, p, p', {Blank})
      /\ IF IsComment(b, p') THEN UNCHANGED <<configs, pc>>
         ELSE IF Len(configs) = CONFIG_MAX_NUMBER
              THEN pc' = "undefined" /\ UNCHANGED configs
              ELSE /\ \E s, e \in p' .. BufSize :
                        /\ Scans(b, p', s, e)
                        /\ configs' = Append(configs, SubSeq(b, s, e - 1))
                   /\ UNCHANGED pc
  BY DEF ReadLine
<1>4. /\ col = 0
      /\ \A i \in DOMAIN file : line < i => Blanks(file[i], p - 1)
      /\ Len(configs) = Place(file, line)
      /\ \A i \in 1 .. line : ~ Comment(file[i]) =>
           FirstWord(file[i], configs[Place(file, i)])
      /\ \A k \in 1 .. Len(configs) : \E i \in Wanted(file) : FirstWord(file[i], configs[k])
  BY <1>3 DEF ReadInv, ReadSoFar
<1>5. Len(l) < BufSize /\ Blanks(l, p - 1)
  <2>1. line + 1 \in DOMAIN file
    BY <1>1, <1>2
  <2>2. line < line + 1
    <3>1. line \in Nat
      BY <1>2
    <3> QED
      BY <3>1
  <2> QED
    BY <1>4, <2>1, <2>2 DEF Indented
<1>6. /\ Got(l) = Len(l) /\ p' - 1 \in 0 .. Len(l) /\ Blanks(l, p' - 1)
      /\ IsComment(b, p') <=> Comment(l)
      /\ \A s, e \in p' .. BufSize : Scans(b, p', s, e) => FirstWord(l, SubSeq(b, s, e - 1))
  BY <1>0, <1>3, <1>4, <1>5, ReadsWhole
<1>7. line' = line + 1 /\ col' = 0
  BY <1>2, <1>3, <1>4, <1>6
<1>8. \A i \in DOMAIN file' : line' < i => Blanks(file'[i], p' - 1)
  <2> SUFFICES ASSUME NEW i \in DOMAIN file, line + 1 < i
               PROVE  Blanks(file[i], p' - 1)
    BY <1>3, <1>7
  <2>1. line + 1 \in DOMAIN file
    BY <1>1, <1>2
  <2> QED
    BY <1>6, <2>1 DEF Indented
<1> HIDE DEF b
<1>9. /\ Comment(l) => Place(file, line + 1) = Place(file, line)
      /\ ~ Comment(l) => Place(file, line + 1) = Place(file, line) + 1
  BY <1>2, PlaceCounts
<1>10. ItemsDrawn'
  BY <1>3 DEF ItemsDrawn
<1>11. CASE Comment(l)
  <2>1. UNCHANGED <<configs, pc>>
    BY <1>3, <1>6, <1>11
  <2>2. \A i \in 1 .. line + 1 : ~ Comment(file[i]) => i \in 1 .. line
    <3> SUFFICES ASSUME NEW i \in 1 .. line + 1, ~ Comment(file[i])
                 PROVE  i \in 1 .. line
      OBVIOUS
    <3>1. i # line + 1
      BY <1>11
    <3>2. line \in Nat
      BY <1>2
    <3> QED
      BY <3>1, <3>2
  <2>3. ReadSoFar'
    BY <1>3, <1>4, <1>7, <1>8, <1>9, <1>11, <2>1, <2>2 DEF ReadSoFar
  <2> QED
    BY <1>3, <1>10, <2>1, <2>3 DEF WhyUndefined
<1>12. CASE ~ Comment(l) /\ Len(configs) = CONFIG_MAX_NUMBER
  <2>1. pc' = "undefined" /\ UNCHANGED configs
    BY <1>3, <1>6, <1>12
  <2>2. ReadSoFar'
    BY <1>3, <1>4, <1>7, <1>8, <2>1 DEF ReadSoFar
  <2>3. Place(file, Len(file)) > CONFIG_MAX_NUMBER
    <3>1. Place(file, line + 1) = CONFIG_MAX_NUMBER + 1
      BY <1>4, <1>9, <1>12
    <3>2. Len(file) \in Nat /\ line + 1 \in Nat /\ line + 1 <= Len(file)
      <4>1. Len(file) \in Nat
        BY <1>1
      <4> QED
        BY <1>2, <4>1
    <3>3. Place(file, line + 1) <= Place(file, Len(file))
      BY <3>2, PlaceGrows
    <3>4. Place(file, Len(file)) \in Nat
      BY <3>2, PlaceCounts
    <3>5. CONFIG_MAX_NUMBER \in Nat
      BY <1>1
    <3> QED
      BY <3>1, <3>3, <3>4, <3>5
  <2>4. WhyUndefined'
    BY <1>3, <2>3 DEF WhyUndefined
  <2> QED
    BY <1>10, <2>2, <2>4
<1>13. CASE ~ Comment(l) /\ Len(configs) # CONFIG_MAX_NUMBER
  <2> DEFINE n == Len(configs)
  <2>1. PICK s \in p' .. BufSize, e \in p' .. BufSize :
          Scans(b, p', s, e) /\ configs' = Append(configs, SubSeq(b, s, e - 1))
    BY <1>3, <1>6, <1>13
  <2> DEFINE w == SubSeq(b, s, e - 1)
  <2>2. FirstWord(l, w) /\ UNCHANGED pc
    BY <1>3, <1>6, <1>13, <2>1
  <2>3. w \in Name
    <3>1. b \in [1 .. BufSize -> BufChar]
      BY <1>0, FilledType DEF b
    <3>2. s \in 1 .. BufSize /\ e \in s .. BufSize /\ BufSize \in Nat
      <4>1. s <= e
        BY <2>1 DEF Scans
      <4>2. p \in 1 .. BufSize /\ p' \in p .. BufSize /\ BufSize \in Nat
        BY <1>1, <1>3, StartupAssumption
      <4> QED
        BY <4>1, <4>2
    <3> QED
      BY <3>1, <3>2, WordOf DEF Name
  <2>4. configs' = Append(configs, w)
    BY <2>1
  <2> HIDE DEF w
  <2>5. /\ n \in Nat /\ Len(configs') = n + 1 /\ configs'[n + 1] = w
        /\ \A k \in 1 .. n : configs'[k] = configs[k]
    <3>1. configs \in Seq(Name)
      BY <1>1
    <3> QED
      BY <2>3, <2>4, <3>1, AppendProperties
  <2>6. Len(configs') = Place(file', line')
    BY <1>3, <1>4, <1>7, <1>9, <1>13, <2>5
  <2>7. ASSUME NEW i \in 1 .. line + 1, ~ Comment(file[i])
        PROVE  FirstWord(file[i], configs'[Place(file, i)])
    <3>1. CASE i = line + 1
      BY <1>4, <1>9, <2>2, <2>5, <2>7, <3>1
    <3>2. CASE i \in 1 .. line
      <4>1. Place(file, i) \in 1 .. n
        BY <1>2, <1>4, <2>7, <3>2, PlaceInside
      <4> QED
        BY <1>4, <2>5, <2>7, <3>2, <4>1
    <3>3. i = line + 1 \/ i \in 1 .. line
      <4>1. line \in Nat
        BY <1>2
      <4> QED
        BY <4>1
    <3> QED
      BY <3>1, <3>2, <3>3
  <2>8. ASSUME NEW k \in 1 .. n + 1
        PROVE  \E i \in Wanted(file) : FirstWord(file[i], configs'[k])
    <3>1. CASE k = n + 1
      BY <1>1, <1>2, <1>13, <2>2, <2>5, <3>1 DEF Wanted
    <3>2. CASE k \in 1 .. n
      BY <1>4, <2>5, <3>2
    <3> QED
      BY <2>5, <3>1, <3>2
  <2>9. ReadSoFar'
    <3> HIDE DEF n
    <3> QED
      BY <1>3, <1>7, <1>8, <2>2, <2>5, <2>6, <2>7, <2>8 DEF ReadSoFar
  <2> QED
    BY <1>3, <1>10, <2>2, <2>9 DEF WhyUndefined
<1> QED
  BY <1>11, <1>12, <1>13

LEMMA LaysOutItems ==
  ASSUME Roomy, IInv, DisplayFirst, GenerateButtons
  PROVE  ItemsDrawn' /\ WhyUndefined'
<1> DEFINE n == Len(configs)
<1>0. TypeInv
  BY DEF IInv
<1>1. /\ n \in 0 .. CONFIG_MAX_NUMBER /\ configs \in Seq(Name)
      /\ UNCHANGED <<configs, dis_buf>>
  BY <1>0, StartupAssumption DEF TypeInv, StartupTypeOK, GenerateButtons
<1>2. dis_buf.x_res \in Nat /\ dis_buf.y_res \in Nat
  BY <1>0, DisplaySize
<1>3. CASE pc' = "draw"
  <2>1. \E R : btns' = [k \in 1 .. n |-> [name |-> configs[k], region |-> R[k]]]
    <3>1. PICK w \in 0 .. dis_buf.x_res + dis_buf.y_res :
            btns' = [k \in 1 .. n |->
              [name |-> configs[k],
               region |-> Regions(Grid(IF w = 0 THEN 1 ELSE Columns(w, dis_buf.x_res),
                                       dis_buf.x_res, dis_buf.y_res, n), n)[k]]]
      BY <1>3 DEF GenerateButtons
    <3> DEFINE R == Regions(Grid(IF w = 0 THEN 1 ELSE Columns(w, dis_buf.x_res),
                                 dis_buf.x_res, dis_buf.y_res, n), n)
    <3>2. btns' = [k \in 1 .. n |-> [name |-> configs[k], region |-> R[k]]]
      BY <3>1
    <3> HIDE DEF R
    <3> QED
      BY <3>2
  <2>2. [k \in DOMAIN btns' |-> btns'[k].name] = [k \in 1 .. n |-> configs[k]]
    BY <2>1
  <2>3. [k \in 1 .. n |-> configs[k]] = configs
    BY <1>1
  <2> QED
    BY <1>1, <1>3, <2>2, <2>3 DEF ItemsDrawn, WhyUndefined
<1>4. CASE pc' # "draw"
  <2>1. PICK w \in 0 .. dis_buf.x_res + dis_buf.y_res :
          /\ IF n = 0 THEN w = 0
             ELSE SquareRootOf(w, dis_buf.x_res, dis_buf.y_res, n)
          /\ n # 0 /\ w = 0 /\ pc' = "undefined"
    BY <1>4 DEF GenerateButtons
  <2>2. dis_buf = NoScreen
    <3> SUFFICES ASSUME dis_buf # NoScreen
                 PROVE  FALSE
      OBVIOUS
    <3>1. n \in 1 .. CONFIG_MAX_NUMBER /\ w \in Nat
      BY <1>1, <1>2, <2>1, StartupAssumption
    <3> HIDE DEF n
    <3> QED
      BY <1>0, <2>1, <3>1, WidthNotZero
  <2> QED
    BY <1>1, <2>1, <2>2 DEF ItemsDrawn, WhyUndefined
<1> QED
  BY <1>3, <1>4

\* The only items without letters come from lines without a word.
LEMMA DrawsItems ==
  ASSUME IInv, ReadInv, DrawButton, Indented(file)
  PROVE  ItemsDrawn' /\ WhyUndefined'
<1>1. /\ pc = "draw" /\ UNCHANGED <<btns, configs, file, line, dis_buf>>
      /\ pc' \in {"draw", "running", "undefined"}
      /\ pc' = "undefined" => drawn < Len(btns) /\ btns[drawn + 1].name = <<>>
  BY DEF DrawButton
<1>2. ItemsDrawn'
  BY <1>1 DEF ReadInv, ItemsDrawn
<1>3. CASE pc' # "undefined"
  BY <1>2, <1>3 DEF WhyUndefined
<1>4. CASE pc' = "undefined"
  <2>1. btns \in Seq(Button) /\ drawn \in 0 .. Len(btns) /\ configs \in Seq(Name)
    BY DEF IInv, TypeInv, StartupTypeOK
  <2>2. drawn + 1 \in DOMAIN btns
    BY <1>1, <1>4, <2>1
  <2>3. [k \in DOMAIN btns |-> btns[k].name] = configs
    BY <1>1 DEF ReadInv, ItemsDrawn
  <2>4. configs[drawn + 1] = <<>> /\ drawn + 1 \in DOMAIN configs
    BY <1>1, <1>4, <2>2, <2>3
  <2>5. PICK i \in Wanted(file) : FirstWord(file[i], configs[drawn + 1])
    <3>1. DOMAIN configs = 1 .. Len(configs)
      BY <2>1
    <3> QED
      BY <2>4, <3>1 DEF ReadInv, ReadSoFar
  <2> QED
    BY <1>1, <1>2, <2>4, <2>5 DEF WhyUndefined
<1> QED
  BY <1>3, <1>4

LEMMA NextRead ==
  ASSUME Roomy, IInv, DisplayFirst, ReadInv, [Next]_vars
  PROVE  ReadInv'
<1> USE DEF deviceVars, pageVars
<1>1. ASSUME UNCHANGED <<file, line, col, p, configs>>, pc \in Early,
             pc' \in Early \cup {"returned", "undefined"}
      PROVE  ReadInv'
  <2>1. file = NoFile
    BY <1>1 DEF DisplayFirst
  <2>2. pc # "undefined" /\ pc' \notin {"layout", "draw", "running"}
    BY <1>1 DEF Early
  <2>3. ItemsDrawn' /\ WhyUndefined'
    BY <1>1, <2>1, <2>2 DEF ItemsDrawn, WhyUndefined
  <2> QED
    BY <1>1, <2>2, <2>3, KeepsRead
<1>2. CASE ChildInit \/ OpenDisplay \/ ScreenInfo \/ MapDisplay \/ InitAllDevices
           \/ SetFont
  <2>1. pc \in Early /\ UNCHANGED <<file, line, col, p, configs>>
    BY <1>2 DEF ChildInit, OpenDisplay, ScreenInfo, MapDisplay, InitAllDevices,
                SetFont, Early
  <2>2. pc' \in Early \cup {"returned", "undefined"}
    BY <1>2 DEF ChildInit, OpenDisplay, ScreenInfo, MapDisplay, InitAllDevices,
                SetFont, Early
  <2> QED
    BY <1>1, <2>1, <2>2
<1>3. CASE OpenConfig
  <2>1. pc = "page" /\ pc' \in {"parse", "undefined"}
        /\ UNCHANGED <<line, col, p, configs>>
        /\ file' \in File \cup {file}
    BY <1>3 DEF OpenConfig
  <2>2. line = 0 /\ col = 0 /\ p = 1 /\ configs = <<>> /\ file = NoFile
    BY <2>1 DEF DisplayFirst, IInv, Order, Early
  <2>3. file' \in Seq(Line)
    <3>1. NoFile \in Seq(Line)
      BY DEF NoFile
    <3> QED
      BY <2>1, <2>2, <3>1, StartupAssumption
  <2>4. \A i \in DOMAIN file' : Blanks(file'[i], p' - 1)
    <3> SUFFICES ASSUME NEW i \in DOMAIN file'
                 PROVE  Blanks(file'[i], 1 - 1)
      BY <2>1, <2>2
    <3>1. Len(file'[i]) \in Nat
      BY <2>3 DEF Line
    <3> QED
      BY <3>1 DEF Blanks
  <2>5. ReadSoFar'
    BY <2>1, <2>2, <2>4, PlaceCounts DEF ReadSoFar
  <2>6. ItemsDrawn' /\ (pc' = "undefined" => file' = NoFile)
    BY <1>3, <2>1, <2>2 DEF OpenConfig, ItemsDrawn
  <2> QED
    BY <2>5, <2>6 DEF ReadInv, WhyUndefined
<1>4. CASE ReadLine /\ line = Len(file)
  <2>1. pc = "parse" /\ pc' = "layout" /\ UNCHANGED <<file, line, col, p, configs, btns>>
    BY <1>4 DEF ReadLine
  <2>2. ItemsDrawn' /\ WhyUndefined'
    BY <2>1 DEF ItemsDrawn, WhyUndefined
  <2> QED
    BY <1>4, <2>1, <2>2, KeepsRead
<1>5. CASE ReadLine /\ line # Len(file)
  <2>1. UNCHANGED file
    BY <1>5 DEF ReadLine
  <2> QED
    BY <1>5, <2>1, ReadsLine DEF ReadInv, ReadSoFar
<1>6. CASE GenerateButtons
  <2>1. pc = "layout" /\ UNCHANGED <<file, line, col, p, configs>>
    BY <1>6 DEF GenerateButtons
  <2> QED
    BY <1>6, <2>1, LaysOutItems, KeepsRead
<1>7. CASE DrawButton
  <2>1. pc = "draw" /\ UNCHANGED <<file, line, col, p, configs>>
    BY <1>7 DEF DrawButton
  <2> QED
    BY <1>7, <2>1, DrawsItems, KeepsRead
<1>8. CASE UNCHANGED vars
  BY <1>8 DEF vars, ReadInv, ReadSoFar, ItemsDrawn, WhyUndefined
<1> QED
  BY <1>2, <1>3, <1>4, <1>5, <1>6, <1>7, <1>8 DEF Next, Finished

\* Of any file whose lines fit into the buffer and begin with the blanks of
\* those before them, main makes one button per line that is no comment, in
\* order and with its whole name, and it stops only at an item too many or
\* without a name or at a display that is not there (config.c:17-40,
\* main_page.c:79-126), on any screen with a pixel and a half for each button.
THEOREM ConfigIsReadCorrect == ASSUME Roomy PROVE Spec => []ConfigIsRead
<1>1. Init => ReadInv
  <2> SUFFICES ASSUME Init PROVE ReadInv
    OBVIOUS
  <2>1. pc = "children" /\ file = <<>> /\ line = 0 /\ col = 0 /\ configs = <<>>
    BY DEF Init, NoFile
  <2>2. Place(file, 0) = 0
    BY PlaceCounts
  <2> QED
    BY <2>1, <2>2 DEF ReadInv, ReadSoFar, ItemsDrawn, WhyUndefined
<1>2. IInv /\ DisplayFirst /\ ReadInv /\ [Next]_vars => ReadInv'
  BY NextRead
<1>3. IInv /\ ReadInv => ConfigIsRead
  <2> SUFFICES ASSUME IInv, ReadInv, Indented(file)
               PROVE  /\ pc \in {"layout", "draw", "running"} =>
                           /\ Len(configs) = Place(file, Len(file))
                           /\ \A i \in Wanted(file) :
                                FirstWord(file[i], configs[Place(file, i)])
                      /\ ItemsDrawn /\ WhyUndefined
    BY DEF ConfigIsRead, ItemsDrawn, WhyUndefined
  <2>1. DOMAIN file = 1 .. Len(file)
    BY LinesOfFile DEF IInv
  <2> QED
    BY <2>1 DEF ReadInv, ReadSoFar, Wanted
<1> QED
  BY <1>1, <1>2, <1>3, DisplayHolds, PTL DEF Spec
=============================================================================
