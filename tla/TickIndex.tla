------------------------------ MODULE TickIndex ------------------------------
(***************************************************************************)
(* The price window of the fast book (crates/book/src/tick.rs): `capacity' *)
(* slots of `tick' size starting at the price `anchor'.  Looking a price   *)
(* up yields a slot number, or says that the price is outside the window   *)
(* or off the tick grid; rebase_for slides the window.                     *)
(***************************************************************************)
EXTENDS Integers

Outside == -1
OffGrid == -2

Lower(a, b) == IF a <= b THEN a ELSE b
Higher(a, b) == IF a >= b THEN a ELSE b

\* TickIndex::centred_on
centred_on(price, tick, capacity) ==
  LET t == Higher(tick, 1)
      c == Higher(capacity, 2)
  IN  [anchor |-> price - (c \div 2) * t, tick |-> t, capacity |-> c]

price_at(ix, i) == ix.anchor + i * ix.tick

\* TickIndex::slot: the slot number, Outside or OffGrid.
slot(ix, price) ==
  LET offset == price - ix.anchor
      i      == offset \div ix.tick
  IN  CASE offset % ix.tick # 0 -> OffGrid
        [] offset % ix.tick = 0 /\ i \notin 0 .. ix.capacity - 1 -> Outside
        [] OTHER -> i

\* Mutant: the window is centred on the new price, whatever rests elsewhere.
rebase_for_Recentres(ix, price, occupied, lo, hi) ==
  LET to == centred_on(price, ix.tick, ix.capacity)
  IN  [fits  |-> /\ (price - ix.anchor) % ix.tick = 0
                 /\ occupied => slot(to, lo) >= 0 /\ slot(to, hi) >= 0,
       moved |-> to,
       shift |-> (to.anchor - ix.anchor) \div ix.tick]

\* TickIndex::rebase_for.  `occupied' says whether anything rests, `lo' and
\* `hi' are then the lowest and the highest occupied price.
rebase_for(ix, price, occupied, lo, hi) ==
  LET low    == IF occupied THEN Lower(lo, price) ELSE price
      high   == IF occupied THEN Higher(hi, price) ELSE price
      span   == ((high - low) \div ix.tick) + 1
      slack  == ix.capacity - span
      anchor == low - ((slack + 1) \div 2) * ix.tick
  IN  [fits  |-> (price - ix.anchor) % ix.tick = 0 /\ span <= ix.capacity,
       moved |-> [ix EXCEPT !.anchor = anchor],
       shift |-> (anchor - ix.anchor) \div ix.tick]

=============================================================================
