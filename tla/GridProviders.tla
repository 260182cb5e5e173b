---------------------------- MODULE GridProviders ----------------------------
(***************************************************************************)
(* A grid that several parts of a program share and refine: made by a      *)
(* provider (provider.hh, provider/cube.hh, structuredgridfactory.hh),     *)
(* handed to providers for convergence studies (provider/eoc.hh), seen     *)
(* through layers (layers.hh, provider/interface.hh), drawn for TeX        *)
(* (output/pgf.hh).                                                        *)
(*                                                                         *)
(* The configuration of a cube is a function from keys to values;          *)
(* globalRefine and the elements of a level are external.                  *)
(***************************************************************************)
EXTENDS GridInformation

CONSTANTS
  Configs,       \* the configurations cubes are created from
  Overlaps,      \* and the overlaps, one for each direction
  RefineSteps,   \* DGFGridInfo::refineStepsForHalf() of the grid
  MaxLevel       \* bound: grids are refined no further

\* A cube has elements, and its corners are on the grid of integers.
ASSUME ProvidersAssumption ==
  /\ RefineSteps \in Nat \ {0} /\ MaxLevel \in Nat
  /\ \A cfg \in Configs :
       /\ "num_refinements" \in DOMAIN cfg => cfg["num_refinements"] \in Nat
       /\ "each" \in DOMAIN cfg => cfg["each"] \in Nat \ {0}
       /\ "num_elements" \in DOMAIN cfg => cfg["num_elements"] \in Seq(Nat \ {0})
       /\ \A corner \in {"lower_left", "upper_right"} \cap DOMAIN cfg : \A d \in Dims : cfg[corner][d] \in Int

VARIABLES
  coarse,    \* level 0 of the grid, or the exception that creating it threw
  made_from, \* the configuration (history)
  maxLevel,  \* the finest level of the grid
  eocs,      \* the EOC providers on it
  picture    \* the levels of the last drawing, in order, with their colours

providerVars == <<coarse, made_from, maxLevel, eocs, picture>>

-----------------------------------------------------------------------------
(* cube.hh: the defaults are <<0, 0>>, <<1, 1>> times the unit, 8 elements. *)

CubeDefault(key) ==
  CASE key = "lower_left" -> <<0, 0>>
    [] key = "upper_right" -> <<800, 800>>
    [] key = "num_elements" -> <<8, 8>>
    [] key = "num_refinements" -> 0

ParseArray(in) ==
  IF Len(in) < Cardinality(Dims) THEN wrong_input_given ELSE [d \in Dims |-> in[d]]
ParseScalar(in) == [d \in Dims |-> in]

\* Dune::StructuredGridFactory and YaspGrid make the elements row by row.
Boxes(ll, ur, n) ==
  LET h == [d \in Dims |-> (ur[d] - ll[d]) \div n[d]]
      at(x, y) == Box(<<ll[1] + x * h[1], ll[2] + y * h[2]>>, <<ll[1] + (x + 1) * h[1], ll[2] + (y + 1) * h[2]>>)
  IN  [k \in 1 .. n[1] * n[2] |-> at((k - 1) % n[1], (k - 1) \div n[1])]

\* StructuredGridFactory<YaspGrid>::createCubeGrid
CreateCubeGrid(ll, ur, n, overlap) ==
  IF overlap[2] # overlap[1] THEN InvalidStateException ELSE Boxes(ll, ur, n)

CreateGrid(ll, ur, n, overlap) ==
  IF \E d \in Dims : ll[d] >= ur[d] THEN wrong_input_given ELSE CreateCubeGrid(ll, ur, n, overlap)

\* Cube::create and GridProviders::create; the number of elements is an array,
\* or one number for all directions.
CreateCube(cfg, overlap) ==
  LET of(key) == IF key \in DOMAIN cfg THEN cfg[key] ELSE CubeDefault(key)
      n       == IF "each" \in DOMAIN cfg THEN ParseScalar(cfg["each"]) ELSE ParseArray(of("num_elements"))
  IN  IF n = wrong_input_given THEN n
      ELSE CreateGrid(of("lower_left"), of("upper_right"), n, overlap)

Refinements(cfg) == IF "num_refinements" \in DOMAIN cfg THEN cfg["num_refinements"] ELSE 0

IsGrid(g) == g \notin {wrong_input_given, InvalidStateException}

-----------------------------------------------------------------------------
(* layers.hh: a layer is a level of the grid, or its leaf.  LevelPartView     *)
(* asserts that there is such a level.                                        *)

LevelExists(level) == 0 <= level /\ level <= maxLevel
LayerView(layer, level) == IF layer = "leaf" THEN maxLevel ELSE level

\* globalRefine(1) makes four elements of each.
Children[level \in Nat] == IF level = 0 THEN 1 ELSE 4 * Children[level - 1]
Size(layer, level) == Len(coarse) * Children[LayerView(layer, level)]

-----------------------------------------------------------------------------
(* eoc.hh *)

NumRefinements(eoc) == Len(eoc.levels_) - 1
LevelOf(eoc, refinement) == eoc.levels_[refinement + 1]

\* Fault: the level is noted before the grid is refined.
Setup_faulty(level, num_refinements) ==
  [levels_ |-> [r \in 1 .. num_refinements + 1 |-> level + Max({0, r - 2}) * RefineSteps],
   reference_level_ |-> level + (num_refinements + 1) * RefineSteps]

\* Every refinement, and one more for the reference.
Setup(level, num_refinements) ==
  [levels_ |-> [r \in 1 .. num_refinements + 1 |-> level + (r - 1) * RefineSteps],
   reference_level_ |-> level + (num_refinements + 1) * RefineSteps]

NewEOC(num_refinements) ==
  LET eoc == Setup(maxLevel, num_refinements)
  IN  /\ IsGrid(coarse)
      /\ eoc.reference_level_ <= MaxLevel
      /\ eocs' = Append(eocs, eoc)
      /\ maxLevel' = eoc.reference_level_
      /\ UNCHANGED <<coarse, made_from, picture>>

-----------------------------------------------------------------------------
(* pgf.hh *)

TexColors == <<"black", "red", "blue", "green", "yellow", "cyan", "magenta">>

\* The index is read from the array, past its end from level 7 on.
Color(level) ==
  LET index == Min({level, Len(TexColors)})
  IN  IF index < Len(TexColors) THEN TexColors[index + 1] ELSE "undefined"

\* The end of a line that an intersection is drawn with on a level, moved to the
\* centre of its element by 16 % for each level (here in 1/100).
Shifted(corner, center, level) ==
  [d \in Dims |-> 100 * corner[d] + 16 * level * (center[d] - corner[d])]

\* Every side of every element is a line, so that inner ones are drawn twice.
Drawn(level, color) == [level |-> level, color |-> color, lines |-> 4 * Size("level", level)]

Leaf ==
  /\ IsGrid(coarse)
  /\ picture' = <<Drawn(maxLevel, "black")>>
  /\ UNCHANGED <<coarse, made_from, maxLevel, eocs>>

\* Both refine the grid, and draw its first levels.
DrawLevels(refineLevel, colors) ==
  /\ IsGrid(coarse)
  /\ maxLevel + refineLevel <= MaxLevel
  /\ maxLevel' = maxLevel + refineLevel
  /\ picture' = [k \in 1 .. refineLevel |-> Drawn(k - 1, colors[k - 1])]
  /\ UNCHANGED <<coarse, made_from, eocs>>

Stacked(refineLevel)      == DrawLevels(refineLevel, [l \in 0 .. MaxLevel |-> Color(l)])
Refineseries(refineLevel) == DrawLevels(refineLevel, [l \in 0 .. MaxLevel |-> "black"])

-----------------------------------------------------------------------------
ProvidersInit ==
  \E cfg \in Configs : \E overlap \in Overlaps :
    /\ coarse = CreateCube(cfg, overlap)
    /\ made_from = cfg
    /\ maxLevel = IF IsGrid(coarse) THEN Refinements(cfg) ELSE 0
    /\ eocs = <<>>
    /\ picture = <<>>

\* The program refines its grid.
GlobalRefine ==
  /\ IsGrid(coarse) /\ maxLevel < MaxLevel
  /\ maxLevel' = maxLevel + 1
  /\ UNCHANGED <<coarse, made_from, eocs, picture>>

ProvidersNext ==
  \/ GlobalRefine \/ Leaf
  \/ \E n \in 0 .. MaxLevel : NewEOC(n) \/ Stacked(n) \/ Refineseries(n)

ProvidersSpec == ProvidersInit /\ [][ProvidersNext]_providerVars

-----------------------------------------------------------------------------
\* Whoever refines the shared grid, the levels of a study stay levels of it,
\* each with elements half as wide as the one before; the reference is finer
\* than all of them.
StudiesKeepTheirLevels ==
  \A k \in DOMAIN eocs :
    LET eoc == eocs[k]
    IN  /\ \A r \in 0 .. NumRefinements(eoc) :
             /\ LevelExists(LevelOf(eoc, r))
             /\ LevelOf(eoc, r) < eoc.reference_level_
        /\ LevelExists(eoc.reference_level_)
        /\ \A r \in 1 .. NumRefinements(eoc) :
             Size("level", LevelOf(eoc, r)) = Children[RefineSteps] * Size("level", LevelOf(eoc, r - 1))

\* A drawing shows levels of the grid in their order, each finer than the one
\* before, whatever was refined earlier.  The first seven of a stack differ in
\* colour, and their lines lie within their elements.
DrawingsShowLevels ==
  LET stacked == {k \in DOMAIN picture : k <= Len(TexColors)}
      b       == coarse[1]
  IN  /\ \A k \in DOMAIN picture :
           /\ LevelExists(picture[k].level)
           /\ k > 1 => picture[k].lines = 4 * picture[k - 1].lines
      /\ \A k \in stacked : picture[k].color # "undefined"
      /\ Cardinality({picture[k].color : k \in stacked}) \in {0, 1, Cardinality(stacked)}
      /\ \A k \in stacked : \A x \in Corners(b) : \A d \in Dims :
           LET moved == Shifted(x, Center(b), k - 1)[d]
           IN  100 * b.lo[d] <= moved /\ moved <= 100 * b.hi[d]

\* Studies and drawings that share one grid each find their levels on it.
LevelsAreShared == StudiesKeepTheirLevels /\ DrawingsShowLevels
=============================================================================
