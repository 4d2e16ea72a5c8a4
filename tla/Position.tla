------------------------------- MODULE Position -------------------------------
(***************************************************************************)
(* Positions of one market, as operators without state: what a fill does   *)
(* to the position of one trader (engine.lua, _update_position, and        *)
(* position.lua).  A position has a side and a size counted in units of    *)
(* the market's min_order; a position of size 0 is a deleted row.  Entry   *)
(* price and realized profit do not influence control and are left out.    *)
(***************************************************************************)
EXTENDS Integers

Sides == {"long", "short"}

Opposite(side) == IF side = "long" THEN "short" ELSE "long"

PositionT == [side : Sides, size : Nat]

(* p.update deletes the row when the new size is 0: "no position".         *)
NoPosition == [side |-> "long", size |-> 0]

(* A row of the position space; a row of size 0 is never stored.           *)
PositionRow(side, size) ==
    IF size = 0 THEN NoPosition ELSE [side |-> side, size |-> size]

(* Mutant: a fill that flips the position forgets what it closed.          *)
UpdatePositionFlip(pos, side, fill) ==
    IF pos.size = 0
      THEN PositionRow(side, fill)
    ELSE IF side = pos.side
      THEN PositionRow(side, pos.size + fill)
    ELSE IF fill < pos.size
      THEN PositionRow(pos.side, pos.size - fill)
    ELSE PositionRow(side, fill)

(* The position after a fill of size fill on side side.  A fill against    *)
(* the position that is smaller than it reduces it; any other closes it    *)
(* and opens the rest on the side of the fill.                             *)
UpdatePosition(pos, side, fill) ==
    IF pos.size = 0
      THEN PositionRow(side, fill)
    ELSE IF side = pos.side
      THEN PositionRow(side, pos.size + fill)
    ELSE IF fill < pos.size
      THEN PositionRow(pos.side, pos.size - fill)
    ELSE PositionRow(side, fill - pos.size)

(* The signed size: long counts up, short counts down.                     *)
Signed(side, size) == IF side = "long" THEN size ELSE 0 - size

Net(pos) == Signed(pos.side, pos.size)

(* The size a stop-loss or take-profit order executes                      *)
(* (risk.calc_sltp_execution_size): percent of the position, rounded down  *)
(* to whole units, at least one unit, and never more than the position.    *)
ExecutionSize(pos, percent) ==
    IF percent = 100 THEN pos.size
    ELSE LET rounded == (pos.size * percent) \div 100
         IN  IF rounded = 0 THEN 1 ELSE rounded
===============================================================================
