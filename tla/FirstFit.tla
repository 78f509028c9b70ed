------------------------------ MODULE FirstFit ------------------------------
(***************************************************************************)
(* What CoKmalloc and CoKfree promise: the heap is a row of used and free  *)
(* tiles, a request takes the first free tile that is large enough, and a  *)
(* released tile is merged with its free neighbours.                       *)
(***************************************************************************)
EXTENDS Integers, Sequences

CONSTANTS
  Size,       \* words in the heap
  Wanted,     \* tile sizes that are asked for, in words, header included
  LeastFree   \* words a free tile needs for its own links

VARIABLE tiles

Used(n) == [used |-> TRUE, size |-> n]
Free(n) == [used |-> FALSE, size |-> n]

Init == tiles = <<Free(Size)>>

\* What is left of the tile is a tile of its own, unless it is too small.
Taken(tile, n) ==
  IF tile.size - n < LeastFree THEN <<Used(tile.size)>>
  ELSE <<Used(n), Free(tile.size - n)>>

Replaced(from, to, row) ==
  SubSeq(tiles, 1, from - 1) \o row \o SubSeq(tiles, to + 1, Len(tiles))

Allocate(n) ==
  \E i \in 1 .. Len(tiles) :
    /\ ~tiles[i].used /\ tiles[i].size >= n
    /\ \A j \in 1 .. i - 1 : tiles[j].used \/ tiles[j].size < n
    /\ tiles' = Replaced(i, i, Taken(tiles[i], n))

Release(i) ==
  LET before == i > 1 /\ ~tiles[i - 1].used
      after == i < Len(tiles) /\ ~tiles[i + 1].used
      from == IF before THEN i - 1 ELSE i
      to == IF after THEN i + 1 ELSE i
      size == (IF before THEN tiles[i - 1].size ELSE 0) + tiles[i].size
                + (IF after THEN tiles[i + 1].size ELSE 0)
  IN  tiles[i].used /\ tiles' = Replaced(from, to, <<Free(size)>>)

Next ==
  \/ \E n \in Wanted : Allocate(n)
  \/ \E i \in 1 .. Len(tiles) : Release(i)

Spec == Init /\ [][Next]_tiles
=============================================================================
