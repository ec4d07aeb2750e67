---------------------------- MODULE ColorConvert ----------------------------
(***************************************************************************)
(* The colour space converter of the MFC codecs (color_space_convertor.c): *)
(* two functions take a picture out of the tiles the hardware writes, two  *)
(* put one into the tiles it reads.  A tile is 64 bytes wide and 32 rows   *)
(* high; the tiles of two rows of tiles alternate in the buffer.           *)
(*                                                                         *)
(* The out-of-tiles functions cut the picture into strips 1024, 512, 256,  *)
(* 128 and 64 columns wide and a rest of columns by four, each with a      *)
(* formula of its own for the place of its tiles; the into-tiles functions *)
(* take the whole tiles, the rows below and the columns beside them.  One  *)
(* action is one turn of a loop.  Of the picture only the addresses are    *)
(* kept: a copy moves n bytes between row y, from column x on, of a plane  *)
(* of the picture and the address tiled of the tiles.  The two             *)
(* (de)interleaving functions split the bytes between two planes of half   *)
(* the width.                                                              *)
(***************************************************************************)
EXTENDS Integers, FiniteSets

CONSTANTS Widths, Heights    \* the pictures looked at

(* A picture has at least one byte. *)
ASSUME ColorConvertAssumption == Widths \subseteq Nat \ {0} /\ Heights \subseteq Nat \ {0}

VARIABLES
  function,         \* the function that runs
  width, height,    \* its arguments
  pass,             \* the loop it is in, or "done"
  strip,            \* how wide a strip is tried, 0 after the last
  aligned_x_size,   \* the columns that are finished
  i, j,             \* the loop's counters
  copies,           \* the bytes moved in the last turn
  filled            \* history: how far each row is finished, Hole for a gap

convertVars == <<function, width, height, pass, strip, aligned_x_size, i, j, copies, filled>>

FromTiles == {"csc_tiled_to_linear", "csc_tiled_to_linear_deinterleave"}
IntoTiles == {"csc_linear_to_tiled", "csc_linear_to_tiled_interleave"}
Planar == {"csc_tiled_to_linear_deinterleave", "csc_linear_to_tiled_interleave"}
Strips == {1024, 512, 256, 128, 64}
Hole == -1

ConvertTypeOK ==
  /\ function \in FromTiles \cup IntoTiles
  /\ width \in Widths /\ height \in Heights
  /\ pass \in {"strips", "rest", "tiles", "rows", "columns", "done"}
  /\ strip \in Strips \cup {0}
  /\ aligned_x_size \in Nat /\ i \in Nat /\ j \in Nat
  /\ copies \subseteq [at: Nat, row: Nat, tiled: Nat, n: Nat]
  /\ filled \in [0 .. height + 2 -> Nat \cup {Hole}]

-----------------------------------------------------------------------------
(* The tiles of a row, an even number: ((width+127)>>7)<<7 bytes, >>6. *)
TilesPerRow == 2 * ((width + 127) \div 128)

(* (i+32)<temp2: below row i there is another row of tiles. *)
HasRowBelow == i + 32 < 32 * ((height + 31) \div 32)

(* Deviation for the mutation runs: even rows without their shift by a pair. *)
Even1TileUnshifted(x, y) == x + 4 * (x \div 4) + y * TilesPerRow

(* The formulas for tile x of row y of tiles: y odd; y even; y even, the last. *)
OddTile(x, y)   == (y - 1) * TilesPerRow + x + 2 + 4 * (x \div 4)
Even1Tile(x, y) == x + 4 * ((x + 2) \div 4) + y * TilesPerRow
Even2Tile(x, y) == y * TilesPerRow + x

TileOf(x, y) ==
  IF (y % 2) = 1 THEN OddTile(x, y)
  ELSE IF HasRowBelow THEN Even1Tile(x, y) ELSE Even2Tile(x, y)

(* Tile k of a strip that begins at aligned_x_size: the first tile, the three
   beside it, and temp2 tiles on for every four. *)
StripTile(k, y) ==
  IF (y % 2) = 1
  THEN (y - 1) * TilesPerRow + 2 + aligned_x_size \div 32 + (k % 4) + 8 * (k \div 4)
  ELSE IF HasRowBelow
  THEN y * TilesPerRow + aligned_x_size \div 32
         + <<0, 1, 6, 7>>[(k % 4) + 1] + 8 * (k \div 4)
  ELSE y * TilesPerRow + aligned_x_size \div 64 + (k % 4) + 4 * (k \div 4)

(* n bytes between column x of row y and a tile: csc_deinterleave_memcpy and
   csc_interleave_memcpy put every other byte in each of two planes. *)
Copy(x, y, tile, n) ==
  LET planes == IF function \in Planar THEN 2 ELSE 1
  IN  [at |-> x \div planes, row |-> y,
       tiled |-> 2048 * tile + 64 * (y % 32) + (x % 64), n |-> n \div planes]

(* A row goes on where it ended; anything else leaves a hole or is written
   twice. *)
Extend(y, moved) ==
  LET new    == {c \in moved : c.row = y}
      starts == {c.at : c \in new}
      n      == IF new = {} THEN 0 ELSE (CHOOSE c \in new : TRUE).n
  IN  IF new = {} THEN filled[y]
      ELSE IF starts = {filled[y] + n * k : k \in 0 .. Cardinality(new) - 1}
      THEN filled[y] + n * Cardinality(new) ELSE Hole

Move(moved) ==
  /\ copies' = moved
  /\ filled' = [y \in DOMAIN filled |-> Extend(y, moved)]

-----------------------------------------------------------------------------
(* The rows a turn takes, where the formula is worked out once. *)
RowsAtOnce ==
  CASE strip \in {1024, 512, 256} -> 1
    [] strip = 128 -> 2
    [] OTHER -> IF function = "csc_tiled_to_linear_deinterleave" THEN 2 ELSE 4

(* The next strip is half as wide, and 64 is followed by the rest. *)
EndStrip ==
  /\ IF strip = 64 THEN pass' = "rest" /\ strip' = 0
     ELSE strip' = strip \div 2 /\ UNCHANGED pass
  /\ i' = 0 /\ j' = 0

(* A strip is left out when fewer columns remain. *)
SkipStrip ==
  /\ pass = "strips" /\ width - aligned_x_size < strip
  /\ EndStrip
  /\ copies' = {}
  /\ UNCHANGED <<function, width, height, aligned_x_size, filled>>

(* The next rows of a strip. *)
NextRows(moved) ==
  /\ Move(moved)
  /\ IF i + RowsAtOnce < height
     THEN i' = i + RowsAtOnce /\ UNCHANGED <<pass, strip, aligned_x_size, j>>
     ELSE EndStrip /\ aligned_x_size' = aligned_x_size + strip
  /\ UNCHANGED <<function, width, height>>

(* The wide strips, whose tiles are found from the first one. *)
WideStrip(columns) ==
  /\ strip = columns /\ width - aligned_x_size >= columns
  /\ NextRows(
       {Copy(aligned_x_size + 64 * k, i + r, StripTile(k, i \div 32), 64) :
          k \in 0 .. columns \div 64 - 1, r \in 0 .. RowsAtOnce - 1})

Strip1024 == WideStrip(1024)
Strip512 == WideStrip(512)
Strip256 == WideStrip(256)
Strip128 == WideStrip(128)

Strip64 ==
  /\ strip = 64 /\ width - aligned_x_size >= 64
  /\ NextRows(
       {Copy(aligned_x_size, i + r, TileOf(aligned_x_size \div 64, i \div 32), 64) :
          r \in 0 .. RowsAtOnce - 1})

(* Four columns of a few rows, between column from and the end of the row. *)
FourColumns(from) ==
  /\ Move({Copy(from + j, i + r, TileOf((from + j) \div 64, i \div 32), 4) :
             r \in 0 .. RowsAtOnce - 1})
  /\ IF from + j + 4 < width THEN j' = j + 4 /\ UNCHANGED <<pass, i>>
     ELSE /\ j' = 0
          /\ IF i + RowsAtOnce < height THEN i' = i + RowsAtOnce /\ UNCHANGED pass
             ELSE i' = 0 /\ pass' = "done"
  /\ UNCHANGED <<function, width, height, strip, aligned_x_size>>

Rest ==
  /\ pass = "rest" /\ width # aligned_x_size
  /\ FourColumns(aligned_x_size)

NoRest ==
  /\ pass = "rest" /\ width = aligned_x_size
  /\ pass' = "done" /\ copies' = {}
  /\ UNCHANGED <<function, width, height, strip, aligned_x_size, i, j, filled>>

csc_tiled_to_linear ==
  /\ function = "csc_tiled_to_linear"
  /\ \/ SkipStrip \/ Strip1024 \/ Strip512 \/ Strip256 \/ Strip128 \/ Strip64
     \/ Rest \/ NoRest

csc_tiled_to_linear_deinterleave ==
  /\ function = "csc_tiled_to_linear_deinterleave"
  /\ \/ SkipStrip \/ Strip1024 \/ Strip512 \/ Strip256 \/ Strip128 \/ Strip64
     \/ Rest \/ NoRest

-----------------------------------------------------------------------------
(* The columns and the rows of whole tiles. *)
wholeColumns == 64 * (width \div 64)
aligned_y_size == 32 * (height \div 32)

(* The next tile of the row, or the next row of tiles. *)
NextTile(rows, end, next) ==
  /\ IF j + 64 < wholeColumns THEN j' = j + 64 /\ UNCHANGED <<pass, i>>
     ELSE /\ j' = 0
          /\ IF i + rows < end THEN i' = i + rows /\ UNCHANGED pass
             ELSE next
  /\ UNCHANGED <<function, width, height, strip, aligned_x_size>>

TileRows(rows) ==
  Move({Copy(j, i + r, TileOf(j \div 64, i \div 32), 64) : r \in 0 .. rows - 1})

WholeTiles ==
  /\ pass = "tiles" /\ i < aligned_y_size /\ j < wholeColumns
  /\ TileRows(32)
  /\ NextTile(32, aligned_y_size, pass' = "rows" /\ i' = aligned_y_size)

RowsBelow ==
  /\ pass = "rows" /\ i < height /\ j < wholeColumns
  /\ TileRows(4)
  /\ NextTile(4, height, pass' = "columns" /\ i' = 0)

ColumnsBeside ==
  /\ pass = "columns" /\ wholeColumns < width
  /\ FourColumns(wholeColumns)

(* A loop that has nothing to do. *)
NothingThere ==
  /\ \/ /\ pass = "tiles" /\ (aligned_y_size = 0 \/ wholeColumns = 0)
        /\ pass' = "rows" /\ i' = aligned_y_size
     \/ /\ pass = "rows" /\ (i >= height \/ wholeColumns = 0)
        /\ pass' = "columns" /\ i' = 0
     \/ /\ pass = "columns" /\ wholeColumns = width
        /\ pass' = "done" /\ i' = 0
  /\ copies' = {}
  /\ UNCHANGED <<function, width, height, strip, aligned_x_size, j, filled>>

csc_linear_to_tiled ==
  /\ function = "csc_linear_to_tiled"
  /\ WholeTiles \/ RowsBelow \/ ColumnsBeside \/ NothingThere

csc_linear_to_tiled_interleave ==
  /\ function = "csc_linear_to_tiled_interleave"
  /\ WholeTiles \/ RowsBelow \/ ColumnsBeside \/ NothingThere

-----------------------------------------------------------------------------
ConvertInit ==
  /\ function \in FromTiles \cup IntoTiles
  /\ width \in Widths /\ height \in Heights
  /\ pass = IF function \in FromTiles THEN "strips" ELSE "tiles"
  /\ strip = IF function \in FromTiles THEN 1024 ELSE 0
  /\ aligned_x_size = 0 /\ i = 0 /\ j = 0
  /\ copies = {}
  /\ filled = [y \in 0 .. height + 2 |-> 0]

ConvertNext ==
  \/ csc_tiled_to_linear \/ csc_tiled_to_linear_deinterleave
  \/ csc_linear_to_tiled \/ csc_linear_to_tiled_interleave

ConvertSpec == ConvertInit /\ [][ConvertNext]_convertVars

-----------------------------------------------------------------------------
(* The layout of the hardware.  Two rows of tiles are stored as blocks of two
   by two; a block's first pair is the upper one in even blocks and the lower
   one in odd blocks.  A last row without a partner is stored as it is. *)
TileAt(tx, ty) ==
  IF ty % 2 = 0 /\ 32 * (ty + 1) >= height
  THEN TilesPerRow * ty + tx
  ELSE LET block == tx \div 2
           second == (ty % 2) # (block % 2)
       IN  TilesPerRow * (ty - (ty % 2)) + 4 * block + (IF second THEN 2 ELSE 0) + (tx % 2)

(* The bytes a copy moves lie in one row of one tile of the picture, the tile
   the hardware has for them. *)
Placed(c) ==
  LET planes == IF function \in Planar THEN 2 ELSE 1
      x == planes * c.at
      tile == TileAt(x \div 64, c.row \div 32)
  IN  /\ c.tiled = 2048 * tile + 64 * (c.row % 32) + (x % 64)
      /\ (x % 64) + planes * c.n <= 64
      /\ tile \in 0 .. TilesPerRow * ((height + 31) \div 32) - 1

(* Every function moves every byte between its place in the picture and the
   place the hardware has for it, within the tiles of the picture, whichever
   strip or loop it falls in. *)
RightPlace == \A c \in copies : Placed(c)

(* No part of the picture is left out or done twice, and no row outside is
   touched: true of the pictures whose width and height the functions' steps
   divide. *)
WholePicture ==
  LET planes == IF function \in Planar THEN 2 ELSE 1
      rows == IF function = "csc_tiled_to_linear_deinterleave" THEN 2 ELSE 4
  IN  width % 4 = 0 /\ height % rows = 0 =>
        /\ \A y \in DOMAIN filled : filled[y] # Hole
        /\ pass = "done" => \A y \in DOMAIN filled :
             filled[y] = IF y < height THEN width \div planes ELSE 0

(* Every byte of a picture goes to its place, once. *)
PictureConverted == RightPlace /\ WholePicture
=============================================================================
