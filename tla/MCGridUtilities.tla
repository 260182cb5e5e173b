--------------------------- MODULE MCGridUtilities ---------------------------
(***************************************************************************)
(* Small grids under walks and refinement, boundary infos, searches, and   *)
(* one grid that providers share.                                          *)
(***************************************************************************)
EXTENDS GridProviders

VARIABLES
  part,      \* which of them this behaviour is about
  view,      \* the view that is walked, or has a boundary
  periodic,  \* the periodic directions
  info_cfg   \* the configuration of a boundary info

gridVars == <<view, periodic, info_cfg>>
vars == <<part, gridVars, searchVars, providerVars>>

\* one element; a row and a column; a square; wide and narrow; an element next
\* to four small ones; one that lies left of and below the origin
Small(x, y) == Box(<<x, y>>, <<x + 400, y + 400>>)
MCViews == {
  <<Box(<<0, 0>>, <<800, 800>>)>>,
  <<Small(0, 0), Small(400, 0)>>,
  <<Small(0, 0), Small(0, 400)>>,
  <<Small(0, 0), Small(400, 0), Small(0, 400), Small(400, 400)>>,
  <<Box(<<0, 0>>, <<1200, 400>>), Small(1200, 0)>>,
  <<Box(<<0, 0>>, <<800, 800>>)>> \o Halves(Box(<<800, 0>>, <<1600, 800>>)),
  <<Box(<<-1600, -1600>>, <<-800, -800>>), Box(<<-800, -1600>>, <<0, -800>>)>>}

Below(type, cfg) == [k \in {<<type>> \o l : l \in DOMAIN cfg} |-> cfg[Tail(k)]]

IdConfigs ==
  {<<"default_to_dirichlet">> :> default @@ IF ids = {} THEN <<>> ELSE <<type>> :> ids :
     default \in BOOLEAN, type \in {"dirichlet", "neumann"}, ids \in {{}, {1}, {2, 4}}}
  \cup {<<"dirichlet">> :> {1, 2} @@ <<"neumann">> :> {2, 3}}

NormalConfigs ==
  {<<"default">> :> default @@ <<"dirichlet", 0>> :> <<2, 0>> @@ <<"dirichlet", number>> :> <<0, 1>>
   @@ <<"neumann">> :> normal @@ <<"compare_tolerance">> :> tol :
     default \in {"dirichlet", "neumann", "robin"}, number \in {1, 2},
     normal \in {<<-3, 0>>, <<0, 2>>}, tol \in {0, 1}}

Rising == [side \in Sides |-> side]
FunctionConfigs ==
  {<<"default">> :> default @@ <<"dirichlet", "function", "type">> :> Rising
   @@ <<"dirichlet", "value_range">> :> range @@ <<"neumann", "value_range", 0>> :> <<2, 3>> :
     default \in {"dirichlet", "neumann", "robin"}, range \in {<<0, 0>>, <<1, 2>>}}

InfoConfigs ==
  LET typed(type, cfgs) == {cfg @@ (<<"type">> :> type) : cfg \in cfgs}
  IN  {DefaultConfig(type, sub) @@ (<<"type">> :> type) :
         type \in Range(Available), sub \in {<<>>, <<"normalbased">>, <<"functionbased">>}}
      \cup typed("idbased", IdConfigs)
      \cup typed("normalbased", NormalConfigs \cup {Below("normalbased", c) : c \in NormalConfigs})
      \cup typed("functionbased", FunctionConfigs)
      \cup typed("robin", {<<>>})

NoConfig == DefaultConfig("alldirichlet", <<>>)

MCConfigs == {
  <<>>,
  [upper_right |-> <<400, 800>>, num_elements |-> <<2, 1, 3>>],
  [lower_left |-> <<-400, 0>>, each |-> 2, num_refinements |-> 1],
  [num_elements |-> <<4>>],
  [upper_right |-> <<400, 0>>]}
MCOverlaps == {<<1, 1>>, <<1, 2>>}

NoProviders == coarse = wrong_input_given /\ made_from = <<>> /\ maxLevel = 0 /\ eocs = <<>> /\ picture = <<>>
NoSearch    == gridview_ = <<>> /\ SearchInit
NoView      == view = <<>> /\ periodic = {} /\ info_cfg = NoConfig

Init ==
  \/ /\ part = "walks" /\ view \in MCViews /\ periodic \in SUBSET Dims
     /\ info_cfg = NoConfig /\ NoSearch /\ NoProviders
  \/ /\ part = "boundary" /\ view \in MCViews /\ periodic = {} /\ info_cfg \in InfoConfigs
     /\ NoSearch /\ NoProviders
  \/ part = "search" /\ gridview_ \in MCViews /\ SearchInit /\ NoView /\ NoProviders
  \/ part = "providers" /\ ProvidersInit /\ NoView /\ NoSearch

MaxElements == 8  \* bound: views are refined as long as they have so many at most

Refine ==
  /\ part \in {"walks", "boundary"}
  /\ Len(Refined(view)) <= MaxElements
  /\ view' = Refined(view)
  /\ UNCHANGED <<part, periodic, info_cfg, searchVars, providerVars>>

\* points in the middle of elements, on the side of one, and outside
Candidates == {Center(b) : b \in Range(gridview_)} \cup {UpperRight(gridview_), <<5000, 0>>}

Next ==
  \/ Refine
  \/ /\ part = "search" /\ \E points \in SeqOf(Candidates, 2) : SearchFor(points)
     /\ UNCHANGED <<part, gridVars, providerVars>>
  \/ part = "providers" /\ ProvidersNext /\ UNCHANGED <<part, gridVars, searchVars>>

Spec == Init /\ [][Next]_vars

\* Neighbours across a periodic boundary are mutual: each finds the other, from
\* the intersection that has the same place on the opposite side.
PeriodicNeighbours == part = "walks" => PeriodicNeighboursAreMutual(view, periodic)

\* The walks over a view agree with each other, and with those over the view that
\* it is made periodic with; intersections contain their points.
WalksOverAllViewsAgree ==
  part = "walks" =>
    /\ WalksAgree(view, RealAt(view))
    /\ WalksAgree(view, PeriodicAt(NewPeriodicView(view, periodic)))
    /\ periodic = {} => ContainsItsPoints(view)

\* Every boundary intersection has a type, and the pictures show where.
BoundariesAreCovered ==
  part = "boundary" =>
    /\ \A i \in AllIntersectionsOf(view) :
         BoundaryIsCovered(CreateBoundaryInfo(info_cfg[<<"type">>], info_cfg), i)
    /\ PicturesShowTheBoundary(view, info_cfg)
=============================================================================
