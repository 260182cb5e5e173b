---------------------------- MODULE BoundaryInfo ----------------------------
(***************************************************************************)
(* Which boundary intersections are Dirichlet, which Neumann               *)
(* (dune/stuff/grid/boundaryinfo.hh): the five boundary infos, how each is *)
(* created from a configuration, and the provider that chooses one.        *)
(*                                                                         *)
(* A configuration is a function from keys, sequences of names, to values. *)
(* Normals have integer coordinates and stand for their direction: the     *)
(* vector without a common factor is the normalized one.  A function is    *)
(* its values in the centres of the sides of an element.                   *)
(***************************************************************************)
EXTENDS Grids, TLC

CONSTANTS configuration_error, wrong_input_given

HasKey(cfg, key) == key \in DOMAIN cfg
HasSub(cfg, key) == \E k \in DOMAIN cfg : IsStrictPrefix(key, k)
Sub(cfg, key) ==
  [k \in {SubSeq(l, Len(key) + 1, Len(l)) : l \in {l \in DOMAIN cfg : IsStrictPrefix(key, l)}}
     |-> cfg[key \o k]]
Get(cfg, key, default) == IF HasKey(cfg, key) THEN cfg[key] ELSE default
OwnPart(config, type) == IF HasSub(config, <<type>>) THEN Sub(config, <<type>>) ELSE config

\* The values of "0", "1", ... below key, up to the first that is missing.
Numbered(cfg, key) ==
  LET gap == CHOOSE n \in 0 .. Cardinality(DOMAIN cfg) :
               /\ ~HasKey(cfg, Append(key, n))
               /\ \A m \in 0 .. (n - 1) : HasKey(cfg, Append(key, m))
  IN  [k \in 1 .. gap |-> cfg[Append(key, k - 1)]]

IsType(name) == name \in {"dirichlet", "neumann"}

-----------------------------------------------------------------------------
(* The defaults. *)

One == [side \in Sides |-> 1]
AllDirichletDefault == <<"type">> :> "alldirichlet"
AllNeumannDefault   == <<"type">> :> "allneumann"
IdBasedDefault ==
  <<"type">> :> "idbased" @@ <<"default_to_dirichlet">> :> TRUE @@ <<"neumann">> :> {4}
NormalBasedDefault ==
  <<"type">> :> "normalbased" @@ <<"default">> :> "dirichlet" @@ <<"compare_tolerance">> :> 0
  @@ <<"neumann", 0>> :> <<1, 0>> @@ <<"dirichlet", 0>> :> <<0, 1>>
FunctionBasedDefault ==
  <<"type">> :> "functionbased" @@ <<"default">> :> "dirichlet"
  @@ <<"dirichlet", "function", "type">> :> One @@ <<"dirichlet", "value_range", 1>> :> <<0, 0>>
  @@ <<"neumann", "function", "type">> :> One @@ <<"neumann", "value_range", 1>> :> <<0, 0>>

-----------------------------------------------------------------------------
(* AllDirichlet and AllNeumann *)

AllDirichlet == [is |-> "alldirichlet"]
AllNeumann   == [is |-> "allneumann"]

(* IdBased *)

NewIdBased(ids, default) ==
  [is |-> "idbased", id_to_type_map |-> ids, dirichletDefault |-> default,
   hasDirichlet |-> "dirichlet" \in DOMAIN ids \/ default,
   hasNeumann |-> "neumann" \in DOMAIN ids \/ ~default]

CreateIdBased(config) ==
  LET cfg == OwnPart(config, "idbased")
  IN  NewIdBased([t \in {t \in {"dirichlet", "neumann"} : HasKey(cfg, <<t>>)} |-> cfg[<<t>>]],
                 Get(cfg, <<"default_to_dirichlet">>, TRUE))

\* An id in the set of a type is of this type; so is any when it is the default.
IsOfType(info, i, type, has, default) ==
  /\ has /\ i.boundary
  /\ \/ default
     \/ type \in DOMAIN info.id_to_type_map /\ BoundaryId(i) \in info.id_to_type_map[type]

(* NormalBased *)

Primitive(v) ==
  LET n == CHOOSE n \in 1 .. Max({Abs(v[1]), Abs(v[2])}) :
             /\ \A d \in Dims : v[d] % n = 0
             /\ \A m \in (n + 1) .. Max({Abs(v[1]), Abs(v[2])}) : \E d \in Dims : v[d] % m # 0
  IN  [d \in Dims |-> v[d] \div n]

AmongNormals(normal, vectors, tol) ==
  \E v \in Range(vectors) : \A d \in Dims : Abs(normal[d] - v[d]) <= tol + tol * Abs(v[d])

NewNormalBased(default_to_dirichlet, dirichlets, neumanns, tol) ==
  LET normalized(vs) == [k \in DOMAIN vs |-> Primitive(vs[k])]
      ds == normalized(dirichlets)
      ns == normalized(neumanns)
  IN  IF \E v \in Range(ds) : AmongNormals(v, ns, tol) THEN wrong_input_given
      ELSE [is |-> "normalbased", default_to_dirichlet |-> default_to_dirichlet,
            dirichlet_normals |-> ds, neumann_normals |-> ns, tol |-> tol]

GetVectors(cfg, key) ==
  IF HasSub(cfg, key) THEN Numbered(cfg, key)
  ELSE IF HasKey(cfg, key) THEN <<cfg[key]>> ELSE <<>>

CreateNormalBased(config) ==
  LET cfg     == OwnPart(config, "normalbased")
      default == Get(cfg, <<"default">>, "dirichlet")
  IN  IF ~IsType(default) THEN configuration_error
      ELSE NewNormalBased(default = "dirichlet", GetVectors(cfg, <<"dirichlet">>),
                          GetVectors(cfg, <<"neumann">>), Get(cfg, <<"compare_tolerance">>, 0))

\* Fault: the other normals are not looked at.
ByNormal_faulty(info, i, own, others, default) ==
  i.boundary /\ (AmongNormals(CenterUnitOuterNormal(i.indexInInside), own, info.tol) \/ default)

\* Its own normals first, then the others, then the default.
ByNormal(info, i, own, others, default) ==
  LET n == CenterUnitOuterNormal(i.indexInInside)
  IN  /\ i.boundary
      /\ \/ AmongNormals(n, own, info.tol)
         \/ ~AmongNormals(n, others, info.tol) /\ default

(* FunctionBased *)

GetValueRange(cfg, default_cfg, key) ==
  IF HasKey(cfg, key) /\ ~HasSub(cfg, key) THEN <<cfg[key]>>
  ELSE Numbered(Sub(IF HasSub(cfg, key) THEN cfg ELSE default_cfg, key), <<>>)

\* The Neumann function is created like the Dirichlet function.
CreateFunctionBased(config) ==
  LET cfg == OwnPart(config, "functionbased")
      dd  == FunctionBasedDefault
      default  == Get(cfg, <<"default">>, "dirichlet")
      key      == <<"dirichlet", "function">>
      function == Sub(IF HasSub(cfg, key) THEN cfg ELSE dd, key)[<<"type">>]
  IN  IF ~IsType(default) THEN configuration_error
      ELSE [is |-> "functionbased", default_is_dirichlet |-> default = "dirichlet",
            dirichlet_function |-> function, neumann_function |-> function,
            dirichlet_value_range |-> GetValueRange(cfg, dd, <<"dirichlet", "value_range">>),
            neumann_value_range |-> GetValueRange(cfg, dd, <<"neumann", "value_range">>)]

Matches(function, ranges, i) ==
  \E r \in Range(ranges) : r[1] <= function[i.indexInInside] /\ function[i.indexInInside] <= r[2]

IsDirichletByValue(info, i) ==
  /\ i.boundary
  /\ \/ Matches(info.dirichlet_function, info.dirichlet_value_range, i)
     \/ ~Matches(info.neumann_function, info.neumann_value_range, i) /\ info.default_is_dirichlet

IsNeumannByValue(info, i) ==
  /\ i.boundary
  /\ \/ Matches(info.neumann_function, info.neumann_value_range, i)
     \/ ~Matches(info.dirichlet_function, info.dirichlet_value_range, i) /\ ~info.default_is_dirichlet

-----------------------------------------------------------------------------
(* The interface, and the provider. *)

Dirichlet(info, i) ==
  CASE info.is = "alldirichlet"  -> i.boundary
    [] info.is = "allneumann"    -> FALSE
    [] info.is = "idbased" ->
         IsOfType(info, i, "dirichlet", info.hasDirichlet, info.dirichletDefault)
    [] info.is = "normalbased" ->
         ByNormal(info, i, info.dirichlet_normals, info.neumann_normals, info.default_to_dirichlet)
    [] info.is = "functionbased" -> IsDirichletByValue(info, i)

Neumann(info, i) ==
  CASE info.is = "alldirichlet"  -> FALSE
    [] info.is = "allneumann"    -> i.boundary
    [] info.is = "idbased" ->
         IsOfType(info, i, "neumann", info.hasNeumann, ~info.dirichletDefault)
    [] info.is = "normalbased" ->
         ByNormal(info, i, info.neumann_normals, info.dirichlet_normals, ~info.default_to_dirichlet)
    [] info.is = "functionbased" -> IsNeumannByValue(info, i)

HasDirichlet(info) ==
  CASE info.is = "idbased"     -> info.hasDirichlet
    [] info.is = "normalbased" -> info.default_to_dirichlet \/ info.dirichlet_normals # <<>>
    [] OTHER                   -> info.is # "allneumann"

HasNeumann(info) ==
  CASE info.is = "idbased"     -> info.hasNeumann
    [] info.is = "normalbased" -> ~info.default_to_dirichlet \/ info.neumann_normals # <<>>
    [] OTHER                   -> info.is # "alldirichlet"

Available == <<"alldirichlet", "allneumann", "idbased", "normalbased", "functionbased">>

\* The defaults of a type, below sub if that is not <<>>.
DefaultConfig(type, sub) ==
  LET cfg == CASE type = "alldirichlet" -> AllDirichletDefault
               [] type = "allneumann" -> AllNeumannDefault
               [] type = "idbased" -> IdBasedDefault
               [] type = "normalbased" -> NormalBasedDefault
               [] type = "functionbased" -> FunctionBasedDefault
  IN  IF type \notin Range(Available) THEN wrong_input_given
      ELSE [k \in {sub \o l : l \in DOMAIN cfg} |-> cfg[SubSeq(k, Len(sub) + 1, Len(k))]]

CreateBoundaryInfo(type, config) ==
  CASE type = "alldirichlet" -> AllDirichlet
    [] type = "allneumann" -> AllNeumann
    [] type = "idbased" -> CreateIdBased(config)
    [] type = "normalbased" -> CreateNormalBased(config)
    [] type = "functionbased" -> CreateFunctionBased(config)
    [] OTHER -> wrong_input_given

-----------------------------------------------------------------------------
IsInfo(info) == info \notin {configuration_error, wrong_input_given}

\* Every boundary intersection has a type and no other has one; a type that is
\* found was announced by has_dirichlet() or has_neumann().  Two types at once
\* has only an id that is listed against the default, or a value in the ranges
\* of both.
BoundaryIsCovered(info, i) ==
  LET both == Dirichlet(info, i) /\ Neumann(info, i)
      ids  == info.id_to_type_map
      listed(type) == type \in DOMAIN ids /\ BoundaryId(i) \in ids[type]
  IN  IsInfo(info) =>
        /\ i.boundary = (Dirichlet(info, i) \/ Neumann(info, i))
        /\ Dirichlet(info, i) => HasDirichlet(info)
        /\ Neumann(info, i) => HasNeumann(info)
        /\ both => \/ /\ info.is = "idbased"
                      /\ IF info.dirichletDefault THEN listed("neumann") ELSE listed("dirichlet")
                   \/ /\ info.is = "functionbased"
                      /\ Matches(info.dirichlet_function, info.dirichlet_value_range, i)
                      /\ Matches(info.neumann_function, info.neumann_value_range, i)
=============================================================================
