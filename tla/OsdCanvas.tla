------------------------------ MODULE OsdCanvas ------------------------------
(***************************************************************************)
(* What the OSD decoder promises the screen: a grid of character cells of  *)
(* one of two sizes that DisplayPort commands clear, write text to and     *)
(* resize, and of which the screen is shown whole copies only.             *)
(***************************************************************************)
EXTENDS Integers

CONSTANTS
    Sizes,    \* the canvas sizes, <<rows, cols>>
    First     \* the one assumed until the air unit announces its choice

VARIABLES
    grid,     \* cell of every <<row, column>>: [glyph, attributes]
    screen    \* the frame last published; <<>> before the first

vars == <<grid, screen>>

Blank == [glyph |-> 0, attributes |-> 0]
Places(size) == (0..(size[1] - 1)) \X (0..(size[2] - 1))
Empty(size) == [p \in Places(size) |-> Blank]

Init == grid = Empty(First) /\ screen = <<>>

Clear == grid' = [p \in DOMAIN grid |-> Blank] /\ UNCHANGED screen

(* Text in one row, from a column to the right, all with one attribute and
   from the font page it selects; nothing else changes. *)
Write ==
    /\ DOMAIN grid' = DOMAIN grid
    /\ \E from, to \in DOMAIN grid :
          LET run == {p \in DOMAIN grid :
                        p[1] = from[1] /\ from[1] = to[1] /\ from[2] <= p[2] /\ p[2] <= to[2]}
          IN  /\ \A p \in run : /\ grid'[p].attributes = grid'[from].attributes
                                /\ grid'[p].glyph \div 256 = grid'[p].attributes % 4
                                /\ grid'[p].glyph % 256 # 0
              /\ \A p \in DOMAIN grid \ run : grid'[p] = grid[p]
    /\ UNCHANGED screen

Draw == screen' = grid /\ UNCHANGED grid

Resize == grid' \in {Empty(s) : s \in Sizes} /\ UNCHANGED screen

Release == grid' = [p \in DOMAIN grid |-> Blank] /\ screen' = grid'

Next == Clear \/ Write \/ Draw \/ Resize \/ Release

Spec == Init /\ [][Next]_vars
==============================================================================
