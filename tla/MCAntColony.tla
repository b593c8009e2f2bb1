----------------------------- MODULE MCAntColony ------------------------------
(* Instances of AntColony for TLC. *)
EXTENDS AntColony

\* The corners of a rectangle: its tours weigh 14, 16 and 18.
Corners == 0..3
RectangleDist ==
  [e \in Corners \X Corners |->
    LET way == {e[1], e[2]} IN
    CASE e[1] = e[2] -> 0
      [] way \in {{0, 1}, {2, 3}} -> 3
      [] way \in {{1, 2}, {0, 3}} -> 4
      [] way \in {{0, 2}, {1, 3}} -> 5]

\* The shortest and the longest tour, which part at their second node.
ShortestAndLongest == {<<0, 1, 2, 3>>, <<0, 2, 1, 3>>}
=============================================================================
