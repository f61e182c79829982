------------------------------- MODULE MCBook -------------------------------
(* Small instances of the two books for TLC.                               *)
EXTENDS BookDifferential

\* Three ids whose homes collide and wrap around the end of the map, in a slab
\* that holds all three; and three ids in a slab of two under a window of three
\* levels that four prices make it slide.  Price 3 is on neither grid.
MCConfs == {[orders |-> 3, levels |-> 2, reference_price |-> 4, tick |-> 4, home |-> <<15, 15, 0>>],
            [orders |-> 2, levels |-> 3, reference_price |-> 4, tick |-> 2, home |-> <<7, 7, 0>>]}
MCIds == 1 .. 3
MCPrice == {0, 2, 3, 4, 6}
MCQuantity == 0 .. 2
=============================================================================
