------------------------------- MODULE Layout -------------------------------
(***************************************************************************)
(* Where the production tool puts things: the buttons of generate_buttons  *)
(* and the touch test of main_page.c, the pixels of display_mgr.c.  C      *)
(* divides towards zero, TLA+ downwards.                                   *)
(***************************************************************************)
EXTENDS Integers, Sequences

X_GAP == 5
Y_GAP == 5

\* C's quotient for a positive b.
Quot(a, b) == IF a >= 0 THEN a \div b ELSE -((-a) \div b)

\* width = sqrt(0.618 * xres * yres / btn_count), cut to an integer.
SquareRootOf(w, xres, yres, count) ==
  LET square == (618 * xres * yres) \div (1000 * count)
  IN  w * w <= square /\ square < (w + 1) * (w + 1)

\* btn_columns for a first width of w # 0, and the grid it leads to.
Columns(w, xres) == (xres \div w) + 1

Grid(columns, xres, yres, count) ==
  LET width  == xres \div columns
      height == (618 * width) \div 1000
      rows   == IF (count \div columns) * columns < count
                THEN (count \div columns) + 1 ELSE count \div columns
  IN  [columns |-> columns, rows |-> rows, width |-> width, height |-> height,
       start_x |-> (xres - width * columns) \div 2,
       start_y |-> Quot(yres - rows * height, 2)]

\* mutant: the buttons touch
Cell_NoGap(g, i, j) ==
  [x |-> g.start_x + j * g.width, y |-> g.start_y + i * g.height,
   width |-> g.width, height |-> g.height]

\* The region of the button in row i and column j.
Cell(g, i, j) ==
  [x |-> g.start_x + j * g.width, y |-> g.start_y + i * g.height,
   width |-> g.width - X_GAP, height |-> g.height - Y_GAP]

\* The regions of count buttons, row by row.
Regions(g, count) ==
  [k \in 1 .. count |-> Cell(g, (k - 1) \div g.columns, (k - 1) % g.columns)]

\* is_touch_point_in_region: the edges belong to the region.
InRegion(px, py, r) ==
  /\ r.x <= px /\ px <= r.x + r.width
  /\ r.y <= py /\ py <= r.y + r.height

\* dismgr_draw_region fills the region without a look at the screen.
Fills(px, py, r) ==
  /\ r.x <= px /\ px < r.x + r.width
  /\ r.y <= py /\ py < r.y + r.height

\* dismgr_draw_pixel: the byte of the framebuffer where a pixel begins.
PixelOffset(buf, px, py) ==
  LET pixel_width_byte == buf.bpp \div 8
      line_width_byte  == buf.x_res * pixel_width_byte
  IN  py * line_width_byte + px * pixel_width_byte

\* dismgr_draw_font_bitmap draws the pixels of a glyph that are on the screen.
Shown(buf, px, py) == px >= 0 /\ py >= 0 /\ px < buf.x_res /\ py < buf.y_res
=============================================================================
