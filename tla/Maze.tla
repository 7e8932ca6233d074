-------------------------------- MODULE Maze --------------------------------
(***************************************************************************)
(* The maze of PACMAN: autotile.py turns the logical topology into the       *)
(* mazeWalls table that the game draws and collides with (the build of       *)
(* pacman runs it first), and pacman_maze_reachability.py searches that      *)
(* table breadth first from Pac-Man's spawn tile and fails if the game would *)
(* place an item he cannot reach.  The game's side is resetItems and         *)
(* canMovePac.  Cells are <<row, column>>, counted from 0.                   *)
(***************************************************************************)
EXTENDS Integers, Sequences, FiniteSets

CONSTANTS ROWS, COLS,
          TunnelRow,      \* row 10, whose ends are joined
          TunnelDepth,    \* 5: its columns without items, from either end
          Spawn,          \* where the search and Pac-Man start
          NoDots,         \* the other cells resetItems leaves empty
          TOPOLOGY,       \* the checked-in topology
          TILE_OVERRIDES, \* cells drawn with a given tile
          LEFT_EDGE, RIGHT_EDGE,  \* rows of the side walls with a corner
          EditCells,      \* bound: cells a maintainer edits
          MazeEditBound   \* bound: edits of the topology

Grid == (0 .. ROWS - 1) \X (0 .. COLS - 1)

PATH    == "."
WALL    == "#"
GATE    == "G"
PELLET  == "P"
Symbols == {PATH, WALL, GATE, PELLET}
Tile    == 0 .. 11

ASSUME MazeAssumption ==
    /\ ROWS \in Nat /\ COLS \in Nat /\ ROWS > 2 /\ COLS > 2
    /\ TunnelRow \in 1 .. ROWS - 2 /\ TunnelDepth \in Nat
    /\ Spawn \in (1 .. ROWS - 2) \X (1 .. COLS - 2)
    /\ NoDots \subseteq Grid /\ EditCells \subseteq Grid
    /\ TOPOLOGY \in [Grid -> Symbols]
    /\ DOMAIN TILE_OVERRIDES \subseteq Grid
    /\ \A c \in DOMAIN TILE_OVERRIDES : TILE_OVERRIDES[c] \in Tile \ {0, 10, 11}
    /\ DOMAIN LEFT_EDGE = DOMAIN RIGHT_EDGE
    /\ \A r \in DOMAIN LEFT_EDGE : {LEFT_EDGE[r], RIGHT_EDGE[r]} \subseteq 1 .. 9
    /\ MazeEditBound \in Nat

VARIABLES topology,
          mazeWalls,   \* the table in pacman_game.s
          mode,        \* "edit", "search", "verdict" or "play"
          queue, seen, \* of the search
          result, \* "none", "ok", "unreachable" or "invalid"
          pac,         \* Pac-Man's cell
          mazeEdits

mazeVars == <<topology, mazeWalls, mode, queue, seen, result, pac,
              mazeEdits>>

-----------------------------------------------------------------------------
(* autotile.py *)

Count(t, symbol) == Cardinality({c \in Grid : t[c] = symbol})

\* Four pellets, two gate cells, overrides on walls.
validate_topology(t) ==
    /\ Count(t, PELLET) = 4 /\ Count(t, GATE) = 2
    /\ \A c \in DOMAIN TILE_OVERRIDES : t[c] = WALL

is_wall(t, row, col) == <<row, col>> \in Grid => t[<<row, col>>] = WALL

\* The tile of an inner wall, from the walls around it.
InnerTile(up, down, left, right) ==
    CASE ~left /\ ~up /\ right /\ down  -> 5
      [] ~right /\ ~up /\ left /\ down  -> 6
      [] ~left /\ ~down /\ right /\ up  -> 7
      [] ~right /\ ~down /\ left /\ up  -> 8
      [] ~up /\ ~down                   -> 1
      [] up /\ down /\ left /\ right    -> 9
      [] ~left /\ ~right /\ (up \/ down) -> 3
      [] up /\ down /\ (left # right)   -> IF ~left THEN 3 ELSE 4
      [] OTHER                          -> IF ~up THEN 1 ELSE 2

\* The outer walls face the playfield.
EdgeTile(row, col) ==
    CASE row = 0        -> IF col = 0 THEN 5 ELSE IF col = COLS - 1 THEN 6 ELSE 1
      [] row = ROWS - 1 -> IF col = 0 THEN 7 ELSE IF col = COLS - 1 THEN 8 ELSE 2
      [] row \notin {0, ROWS - 1} /\ col = 0 ->
            IF row \in DOMAIN LEFT_EDGE THEN LEFT_EDGE[row] ELSE 3
      [] OTHER -> IF row \in DOMAIN RIGHT_EDGE THEN RIGHT_EDGE[row] ELSE 4

IsEdge(row, col) == row \in {0, ROWS - 1} \/ col \in {0, COLS - 1}

\* The columns of a corner exchanged.
MutantCornerSwapped(t, row, col) ==
    IF IsEdge(row, col) THEN EdgeTile(row, col)
    ELSE LET tile == InnerTile(is_wall(t, row - 1, col), is_wall(t, row + 1, col),
                               is_wall(t, row, col - 1), is_wall(t, row, col + 1))
         IN  IF tile = 7 THEN 8 ELSE tile

render_wall(t, row, col) ==
    IF <<row, col>> \in DOMAIN TILE_OVERRIDES THEN TILE_OVERRIDES[<<row, col>>]
    ELSE IF IsEdge(row, col) THEN EdgeTile(row, col)
    ELSE InnerTile(is_wall(t, row - 1, col), is_wall(t, row + 1, col),
                   is_wall(t, row, col - 1), is_wall(t, row, col + 1))

generate_tiles(t) ==
    [c \in Grid |-> CASE t[c] = PATH   -> 0
                      [] t[c] = GATE   -> 10
                      [] t[c] = PELLET -> 11
                      [] t[c] = WALL   -> render_wall(t, c[1], c[2])]

-----------------------------------------------------------------------------
(* pacman_maze_reachability.py *)

InTunnel(c) == c[1] = TunnelRow /\ (c[2] < TunnelDepth \/ c[2] >= COLS - TunnelDepth)

resetitems_excludes_dot(c) == InTunnel(c) \/ c \in NoDots

Open(tiles, c) == c \in Grid /\ tiles[c] \in {0, 11}

\* The column behind the edge is the other end, on the tunnel row.
Wrap(row, col) ==
    IF row = TunnelRow /\ col = -1 THEN <<row, COLS - 1>>
    ELSE IF row = TunnelRow /\ col = COLS THEN <<row, 0>>
    ELSE <<row, col>>

\* Up, down, left, right.
Adjacent(c) == << <<c[1] - 1, c[2]>>, <<c[1] + 1, c[2]>>,
                  Wrap(c[1], c[2] - 1), Wrap(c[1], c[2] + 1) >>

-----------------------------------------------------------------------------
(* The game *)

ITEM_NONE   == 0
ITEM_DOT    == 1
ITEM_PELLET == 2

\* A pellet is placed wherever the table has one; the zones are for dots only.
resetItems(tiles) ==
    [c \in Grid |-> IF tiles[c] = 11 THEN ITEM_PELLET
                    ELSE IF tiles[c] = 0 /\ ~resetitems_excludes_dot(c)
                    THEN ITEM_DOT ELSE ITEM_NONE]

\* getWallCell counts cells from the start of the table: a column off the
\* grid is a cell of another row, or memory behind the table (9: no way).
getWallCell(tiles, c) ==
    IF c \in Grid THEN tiles[c]
    ELSE LET i == (c[1] * COLS) + (c[2] % 256)
         IN  IF i \in 0 .. ROWS * COLS - 1 THEN tiles[<<i \div COLS, i % COLS>>]
             ELSE 9

\* The tunnel's other end forgotten.
MutantNoTunnel(tiles, c) ==
    {n \in {<<c[1] - 1, c[2]>>, <<c[1] + 1, c[2]>>,
            <<c[1], c[2] - 1>>, <<c[1], c[2] + 1>>} : getWallCell(tiles, n) \in {0, 11}}

\* Where Pac-Man may step from c.
canMovePac(tiles, c) ==
    {n \in {Adjacent(c)[d] : d \in 1 .. 4} : getWallCell(tiles, n) \in {0, 11}}

-----------------------------------------------------------------------------
(* Actions *)

MazeInit ==
    /\ topology = TOPOLOGY
    /\ mazeWalls = generate_tiles(TOPOLOGY)
    /\ mode = "edit" /\ queue = <<>> /\ seen = {} /\ result = "none"
    /\ pac = Spawn /\ mazeEdits = 0

Mirror(c) == <<c[1], COLS - 1 - c[2]>>

\* A maintainer changes cells of the topology.
EditTopology(cells, symbol) ==
    /\ mode = "edit" /\ mazeEdits < MazeEditBound
    /\ topology' = [c \in Grid |-> IF c \in cells THEN symbol ELSE topology[c]]
    /\ mazeEdits' = mazeEdits + 1
    /\ UNCHANGED <<mazeWalls, mode, queue, seen, result, pac>>

\* The build rewrites the table; a topology that is refused leaves it as it is.
\* Then the search starts on a table of its own, made from the topology.
Autotile ==
    /\ mode = "edit"
    /\ IF validate_topology(topology)
       THEN /\ mazeWalls' = generate_tiles(topology)
            /\ mode' = "search" /\ queue' = <<Spawn>> /\ seen' = {Spawn}
            /\ UNCHANGED result
       ELSE /\ mode' = "verdict" /\ result' = "invalid"
            /\ UNCHANGED <<mazeWalls, queue, seen>>
    /\ UNCHANGED <<topology, pac, mazeEdits>>

\* A cell, if it is walkable and not seen yet.
IfFresh(tiles, c, known) == IF Open(tiles, c) /\ c \notin known THEN <<c>> ELSE <<>>

\* The neighbours that are walkable and new, in the order they are looked at.
Fresh(tiles, c, known) ==
    IfFresh(tiles, Adjacent(c)[1], known) \o IfFresh(tiles, Adjacent(c)[2], known)
    \o IfFresh(tiles, Adjacent(c)[3], known) \o IfFresh(tiles, Adjacent(c)[4], known)

\* A cell left on the queue when it leads nowhere new.
MutantKeepsHead ==
    /\ mode = "search" /\ queue # <<>>
    /\ LET found == Fresh(mazeWalls, Head(queue), seen)
       IN  /\ queue' = (IF found = <<>> THEN queue ELSE Tail(queue) \o found)
           /\ seen' = seen \cup {found[i] : i \in 1 .. Len(found)}
    /\ UNCHANGED <<topology, mazeWalls, mode, result, pac, mazeEdits>>

\* One cell taken off the queue, its new neighbours put on.
bfs_reachable ==
    /\ mode = "search" /\ queue # <<>>
    /\ LET found == Fresh(mazeWalls, Head(queue), seen)
       IN  /\ queue' = Tail(queue) \o found
           /\ seen' = seen \cup {found[i] : i \in 1 .. Len(found)}
    /\ UNCHANGED <<topology, mazeWalls, mode, result, pac, mazeEdits>>

\* The cells main() expects to be reached.
Placed(tiles) == {c \in Grid : tiles[c] \in {0, 11} /\ ~resetitems_excludes_dot(c)}

ReportReach ==
    /\ mode = "search" /\ queue = <<>>
    /\ result' = IF Placed(mazeWalls) \subseteq seen THEN "ok" ELSE "unreachable"
    /\ mode' = "verdict"
    /\ UNCHANGED <<topology, mazeWalls, queue, seen, pac, mazeEdits>>

\* The game as it was last built.
Play ==
    /\ mode = "verdict" /\ mode' = "play"
    /\ UNCHANGED <<topology, mazeWalls, queue, seen, result, pac, mazeEdits>>

\* Off the grid Pac-Man is not followed any further.
MovePac ==
    /\ mode = "play" /\ pac \in Grid
    /\ pac' \in canMovePac(mazeWalls, pac)
    /\ UNCHANGED <<topology, mazeWalls, mode, queue, seen, result, mazeEdits>>

MazeNext ==
    \/ \E c \in EditCells, symbol \in Symbols :
          \/ EditTopology({c}, symbol)
          \/ EditTopology({c, Mirror(c)}, symbol)
    \/ Autotile
    \/ bfs_reachable
    \/ ReportReach
    \/ Play
    \/ MovePac

MazeSpec == MazeInit /\ [][MazeNext]_mazeVars

-----------------------------------------------------------------------------
(* Properties *)

\* No way out of the grid but the tunnel.
BorderClosed ==
    \A c \in Grid : IsEdge(c[1], c[2]) /\ c[1] # TunnelRow => ~Open(mazeWalls, c)

\* The table holds tiles, the search knows cells, and Pac-Man, who looks for a
\* wall before he steps and comes in at the other end of the tunnel, stays on
\* the grid of any maze whose border is closed (canMovePac).
MazeTypeOK ==
    /\ topology \in [Grid -> Symbols] /\ mazeWalls \in [Grid -> Tile]
    /\ mode \in {"edit", "search", "verdict", "play"}
    /\ queue \in Seq(Grid) /\ seen \in SUBSET Grid
    /\ result \in {"none", "ok", "unreachable", "invalid"}
    /\ BorderClosed => pac \in Grid

Queued == {queue[i] : i \in 1 .. Len(queue)}

\* The search misses nothing: at every moment each walkable neighbour of a cell
\* it is done with has been seen, the tunnel's other end included; so what it
\* has seen when its queue is empty is closed under moves (bfs_reachable).
SearchClosed ==
    mode # "edit" =>
        /\ Queued \subseteq seen
        /\ \A c \in seen \ Queued :
              \A d \in 1 .. 4 : Open(mazeWalls, Adjacent(c)[d]) => Adjacent(c)[d] \in seen

\* A level of a maze the script passed can be finished as far as dots go: each
\* dot resetItems places is on a cell the search reached, and Pac-Man, moving
\* by the game's own test, is always on one (pacman_maze_reachability.py
\* against pacman_game.s and pacman_main.s).
VerdictHolds ==
    mode = "play" /\ result = "ok" /\ BorderClosed =>
        /\ {c \in Grid : resetItems(mazeWalls)[c] = ITEM_DOT} \subseteq seen
        /\ pac \in seen

\* The mirror image of a tile; a wall one cell thick is drawn with its left side.
MirrorTile(tile) ==
    CASE tile = 4 -> 3 [] tile = 3 -> 4 [] tile = 5 -> 6 [] tile = 6 -> 5
      [] tile = 7 -> 8 [] tile = 8 -> 7 [] OTHER -> tile

\* The tables the maintainers drew by hand favour neither side, and no column
\* is its own mirror image.
SymmetricTables ==
    /\ COLS % 2 = 0
    /\ \A c \in DOMAIN TILE_OVERRIDES :
          /\ Mirror(c) \in DOMAIN TILE_OVERRIDES
          /\ TILE_OVERRIDES[Mirror(c)] = MirrorTile(TILE_OVERRIDES[c])
    /\ \A r \in DOMAIN LEFT_EDGE : RIGHT_EDGE[r] = MirrorTile(LEFT_EDGE[r])

Thin(c) == Mirror(c) # c /\ ~is_wall(topology, c[1], c[2] - 1)
                         /\ ~is_wall(topology, c[1], c[2] + 1)

\* A symmetric topology is drawn symmetrically: rules and overrides favour
\* neither side (render_wall, TILE_OVERRIDES).
DrawnSymmetric ==
    mode = "verdict" /\ result # "invalid"
    /\ (\A c \in Grid : topology[c] = topology[Mirror(c)])
    => \A c \in Grid : Thin(c) \/ mazeWalls[Mirror(c)] = MirrorTile(mazeWalls[c])

\* The search ends, with a verdict.
SearchEnds == mode = "search" ~> mode = "verdict"
=============================================================================
