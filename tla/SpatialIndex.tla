---------------------------- MODULE SpatialIndex ----------------------------
(***************************************************************************)
(* The .lax index of a file (lasindex.cpp): a quadtree over the box of the *)
(* header (lasquadtree.cpp) and, for every cell of the tree that holds     *)
(* points, the intervals of point numbers that visit it (lasinterval.cpp). *)
(* Coordinates are whole numbers; a cell is <<level, column, row>>, which  *)
(* its cell index encodes one to one.                                      *)
(***************************************************************************)
EXTENDS Integers, Sequences, SequencesExt, FiniteSetsExt

CONSTANTS CellSize,          \* the edge of the smallest cells: 100
          Threshold,         \* a longer gap starts a new interval: 1000
          MinimumPoints,     \* four cells with fewer points become one: 100000
          IntervalsPerCell   \* the intervals kept, on average over the cells: 20

ASSUME IndexAssumption ==
  /\ {CellSize, Threshold, MinimumPoints, IntervalsPerCell} \subseteq Nat \ {0}

-----------------------------------------------------------------------------
(* LASquadtree *)

\* setup() counts cells with a C conversion, which cuts towards zero.
CellsBelow(v) == IF v >= 0 THEN v \div CellSize ELSE - ((-v) \div CellSize) - 1
CellsUpTo(v) == IF v >= 0 THEN v \div CellSize + 1 ELSE - ((-v) \div CellSize)

\* Along one axis: the whole cells around the box, then as many more on
\* either side as a square of 2^levels cells needs.
Side(lo, hi, levels) ==
  LET spare == 2^levels - (CellsUpTo(hi) - CellsBelow(lo))
  IN [min |-> CellSize * (CellsBelow(lo) - (spare - spare \div 2)),
      max |-> CellSize * (CellsUpTo(hi) + spare \div 2)]

Levels(cells) == CHOOSE l \in 0..cells : 2^l >= cells /\ (l = 0 \/ 2^(l - 1) < cells)

SetUp(box) ==
  LET levels == Levels(Max({CellsUpTo(box.max_x) - CellsBelow(box.min_x),
                            CellsUpTo(box.max_y) - CellsBelow(box.min_y)}))
  IN [levels |-> levels, x |-> Side(box.min_x, box.max_x, levels),
                         y |-> Side(box.min_y, box.max_y, levels)]

\* The edges of the cells of a level; bisecting never looks at the outer two,
\* so that whatever lies outside goes to the outermost cells.
Edge(side, level, i) == side.min + i * ((side.max - side.min) \div 2^level)
Column(side, level, v) ==
  CHOOSE c \in 0..(2^level - 1) : /\ c > 0 => v >= Edge(side, level, c)
                                  /\ c < 2^level - 1 => v < Edge(side, level, c + 1)

CellIndex(tree, x, y) ==
  <<tree.levels, Column(tree.x, tree.levels, x), Column(tree.y, tree.levels, y)>>

Coarser(cell) == <<cell[1] - 1, cell[2] \div 2, cell[3] \div 2>>
Siblings(parent) ==
  {<<parent[1] + 1, 2 * parent[2] + i, 2 * parent[3] + j>> : i \in 0..1, j \in 0..1}

\* The cells that contain a given one.
Ancestors(cell) ==
  {<<l, cell[2] \div 2^(cell[1] - l), cell[3] \div 2^(cell[1] - l)>> : l \in 0..(cell[1] - 1)}

\* manage_cell() of every cell: the bits of all that contain one are set.
Managed(cells) == UNION {Ancestors(cell) : cell \in cells}

\* Fault: a rectangle across the middle enters the upper half only.
EntersOneHalf(lo, hi, mid, half) == IF half = 0 THEN hi <= mid ELSE ~(hi <= mid)

\* Which half of a cell the descent enters, along one axis.
Enters(lo, hi, mid, half) ==
  IF half = 0 THEN hi <= mid \/ lo < mid ELSE ~(hi <= mid)

\* intersect_rectangle(): the cells of each level the descent visits, from
\* the root down through the cells whose bit is set (through all of them as
\* long as no cell was ever managed).
Visited(tree, interior, r) ==
  LET Inside(cell) == cell[1] < tree.levels /\ (interior # {} => cell \in interior)
      Below(cell) ==
        {c \in Siblings(cell) :
           /\ Enters(r.min_x, r.max_x, Edge(tree.x, cell[1] + 1, 2 * cell[2] + 1), c[2] % 2)
           /\ Enters(r.min_y, r.max_y, Edge(tree.y, cell[1] + 1, 2 * cell[3] + 1), c[3] % 2)}
      At[l \in 0..tree.levels] ==
        IF l = 0 THEN {<<0, 0, 0>>}
        ELSE UNION {Below(cell) : cell \in {c \in At[l - 1] : Inside(c)}}
  IN {cell \in UNION {At[l] : l \in 0..tree.levels} : ~Inside(cell)}

Misses(tree, r) ==
  \/ r.max_x <= tree.x.min \/ ~(r.min_x <= tree.x.max)
  \/ r.max_y <= tree.y.min \/ ~(r.min_y <= tree.y.max)

IntersectedCells(tree, interior, r) ==
  IF Misses(tree, r) THEN {} ELSE Visited(tree, interior, r)

-----------------------------------------------------------------------------
(* LASinterval: full counts the points of a cell, intervals are <<start, end>> *)

AddToCell(cell, p) ==
  IF p - Last(cell.intervals)[2] > Threshold
  THEN [full |-> cell.full + 1, intervals |-> Append(cell.intervals, <<p, p>>)]
  ELSE [full |-> cell.full + 1,
        intervals |-> [cell.intervals EXCEPT ![Len(cell.intervals)][2] = p]]

AddInterval(cells, p, c) ==
  IF c \in DOMAIN cells THEN [cells EXCEPT ![c] = AddToCell(@, p)]
  ELSE [d \in DOMAIN cells \cup {c} |->
          IF d = c THEN [full |-> 1, intervals |-> <<<<p, p>>>>] ELSE cells[d]]

\* Sorted by their starts, intervals whose gap is no longer than the threshold
\* become one.
Joined(intervals) ==
  FoldLeft(LAMBDA done, i :
             IF done = <<>> \/ i[1] - Last(done)[2] > Threshold THEN Append(done, i)
             ELSE [done EXCEPT ![Len(done)][2] = Max({@, i[2]})],
           <<>>, intervals)

\* merge(): one cell stays as it is.
MergedIntervals(cells, which) ==
  IF \E c \in which : which = {c}
  THEN cells[CHOOSE c \in which : TRUE].intervals
  ELSE Joined(SetToSortSeq(UNION {ToSet(cells[c].intervals) : c \in which},
                           LAMBDA a, b : a[1] < b[1]))

Full(cells, which) == FoldSet(LAMBDA c, n : n + cells[c].full, 0, which)

MergeCells(cells, which, into) ==
  [c \in (DOMAIN cells \ which) \cup {into} |->
     IF c = into THEN [full |-> Full(cells, which), intervals |-> MergedIntervals(cells, which)]
     ELSE cells[c]]

\* The gaps between the intervals of a cell: <<cell, number of the interval before it>>.
Gaps(cells) == UNION {{<<c, i>> : i \in 1..(Len(cells[c].intervals) - 1)} : c \in DOMAIN cells}
GapSize(cells, g) == cells[g[1]].intervals[g[2] + 1][1] - cells[g[1]].intervals[g[2]][2] - 1

\* merge_intervals() may close any smallest gaps that bring their number down
\* to the maximum: which of two equal ones goes is up to the hash table.
Closings(cells, maximum) ==
  {g \in SUBSET Gaps(cells) :
     /\ Cardinality(g) = Max({0, Cardinality(Gaps(cells)) - maximum})
     /\ \A a \in g, b \in Gaps(cells) \ g : GapSize(cells, a) <= GapSize(cells, b)}

CloseGaps(cells, closed) ==
  [c \in DOMAIN cells |->
     LET s == cells[c].intervals
         Starts == {i \in 1..Len(s) : i = 1 \/ <<c, i - 1>> \notin closed}
         EndOf(i) == s[Min({j \in i..Len(s) : j = Len(s) \/ <<c, j>> \notin closed})][2]
     IN [cells[c] EXCEPT !.intervals =
           [k \in 1..Cardinality(Starts) |->
              LET i == SetToSortSeq(Starts, <)[k] IN <<s[i][1], EndOf(i)>>]]]

-----------------------------------------------------------------------------
(* LASindex: queue holds the intervals the last query still has to give, *)
(* have_interval, start and end the one being read.                      *)

NoInterval == [have |-> FALSE, start |-> 0, end |-> 0]

Prepare(box) ==
  [tree |-> SetUp(box), interior |-> {}, cells |-> <<>>, queue |-> <<>>, at |-> NoInterval]

AddPoint(index, x, y, p) ==
  [index EXCEPT !.cells = AddInterval(@, p, CellIndex(index.tree, x, y))]

\* complete(): a round merges four cells that hold fewer than MinimumPoints,
\* the next looks only at what this one made; after the rounds the tree learns
\* which cells there are.
Coarsen(cells, level) ==
  LET Parents == {Coarser(c) : c \in {d \in DOMAIN cells : d[1] = level}}
      Few(p) == Siblings(p) \subseteq DOMAIN cells /\ Full(cells, Siblings(p)) < MinimumPoints
  IN FoldSet(LAMBDA p, done : MergeCells(done, Siblings(p), p), cells, {p \in Parents : Few(p)})

Coarsened(tree, cells) ==
  LET After[l \in 0..tree.levels] ==
        IF l = tree.levels THEN cells ELSE Coarsen(After[l + 1], l + 1)
  IN After[0]

Complete(index) ==
  UNION {{[index EXCEPT !.cells = CloseGaps(cells, g), !.interior = Managed(DOMAIN cells)] :
            g \in Closings(cells, (IntervalsPerCell - 1) * Cardinality(DOMAIN cells))} :
         cells \in {Coarsened(index.tree, index.cells)}}

\* What write() leaves in the file and read() makes of it.
Restored(index) ==
  [tree |-> index.tree, interior |-> Managed(DOMAIN index.cells), cells |-> index.cells,
   queue |-> <<>>, at |-> NoInterval]

\* intersect_rectangle() and merge_intervals(): the queue stays what it was
\* when no cell of the tree is met, and is emptied when none of those has points.
Query(index, r) ==
  LET met == IntersectedCells(index.tree, index.interior, r)
      used == met \cap DOMAIN index.cells
  IN [index EXCEPT !.at.have = FALSE,
                   !.queue = IF met = {} THEN @ ELSE IF used = {} THEN <<>>
                             ELSE MergedIntervals(index.cells, used)]

\* The result of the query: whether any point may lie inside.
Meets(index, r) ==
  IntersectedCells(index.tree, index.interior, r) \cap DOMAIN index.cells # {}

\* seek_next(): takes the next interval unless one is being read, and leaves
\* it again before its last point is read.
HasNext(index) == index.at.have \/ index.queue # <<>>
TakeNext(index) ==
  IF index.at.have THEN index
  ELSE [index EXCEPT !.queue = Tail(@),
          !.at = [have |-> TRUE, start |-> Head(index.queue)[1], end |-> Head(index.queue)[2]]]

\* Fault: an interval is left only behind its last point, wherever it is read from.
LeaveBehind(index, p_count) == [index EXCEPT !.at.have = p_count <= index.at.end + 1]

LeaveAt(index, p_count) == [index EXCEPT !.at.have = p_count # index.at.end]
=============================================================================
