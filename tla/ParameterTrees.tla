--------------------------- MODULE ParameterTrees ---------------------------
(***************************************************************************)
(* The trees of a Configuration (dune/stuff/common/configuration.cc): a    *)
(* node has values and subs, each with a name.  A key "a.b.c" is the       *)
(* sequence of its names; a text is the sequence of its lines.  What       *)
(* Dune::ParameterTree and its parser do is external.                      *)
(*                                                                         *)
(* Names are numbers in the order of their spelling.  No name is that of a *)
(* value in one place and of a sub in another: what ParameterTree does     *)
(* with a key that is both is not the code of this repository.             *)
(***************************************************************************)
EXTENDS Integers, FiniteSetsExt, SequencesExt, TLC

CONSTANTS
  Leaves,  \* the names of values
  Subs     \* the names of subs

ASSUME NamesAssumption == Leaves \cup Subs \subseteq Nat /\ Leaves \cap Subs = {}

Node(values, subs) == [values |-> values, subs |-> subs]
EmptyTree == Node(<<>>, <<>>)

-----------------------------------------------------------------------------
(* Dune::ParameterTree *)

RECURSIVE hasKey(_, _), hasSub(_, _), getTree(_, _), operatorBrackets(_, _, _)

hasKey(t, key) ==
  IF Len(key) = 1 THEN key[1] \in DOMAIN t.values
  ELSE key[1] \in DOMAIN t.subs /\ hasKey(t.subs[key[1]], Tail(key))

hasSub(t, key) ==
  IF key = <<>> THEN TRUE
  ELSE key[1] \in DOMAIN t.subs /\ hasSub(t.subs[key[1]], Tail(key))

\* sub(key) of a tree that has it, and <<>> is the tree itself.
getTree(t, key) == IF key = <<>> THEN t ELSE getTree(t.subs[key[1]], Tail(key))

valueAt(t, key) == getTree(t, Front(key)).values[Last(key)]

\* tree[key] = value: makes the subs on the way.
operatorBrackets(t, key, value) ==
  LET s == key[1]
  IN  IF Len(key) = 1 THEN Node(s :> value @@ t.values, t.subs)
      ELSE LET old == IF s \in DOMAIN t.subs THEN t.subs[s] ELSE EmptyTree
           IN  Node(t.values, s :> operatorBrackets(old, Tail(key), value) @@ t.subs)

\* Dune::ParameterTreeParser::readINITree(): `[a.b]` is put before the keys
\* that follow.  The values by key that are read from a text.
Section(path)    == [section |-> path]
Line(key, value) == [key |-> key, value |-> value]

readINITree(text) ==
  LET sections  == {i \in DOMAIN text : DOMAIN text[i] = {"section"}}
      prefix(i) == LET above == {j \in sections : j < i}
                   IN  IF above = {} THEN <<>> ELSE text[Max(above)].section
      lines     == DOMAIN text \ sections
      key(i)    == prefix(i) \o text[i].key
  IN  [k \in {key(i) : i \in lines} |-> text[Max({i \in lines : key(i) = k})].value]

-----------------------------------------------------------------------------
(* The Configuration's own algorithms. *)

empty(t) == DOMAIN t.values = {} /\ DOMAIN t.subs = {}

\* The values by key; it is what operator== compares.
RECURSIVE flatten(_)
flatten(t) ==
  LET flat == [s \in DOMAIN t.subs |-> flatten(t.subs[s])]
      keys == {<<n>> : n \in DOMAIN t.values}
              \cup UNION {{<<s>> \o k : k \in DOMAIN flat[s]} : s \in DOMAIN flat}
  IN  [k \in keys |-> IF Len(k) = 1 THEN t.values[k[1]] ELSE flat[k[1]][Tail(k)]]

Sorted(S) == SetToSortSeq(S, <)

\* A line for each value, with prefix before its name.
Values(t, prefix) ==
  LET names == Sorted(DOMAIN t.values)
  IN  [i \in DOMAIN names |-> Line(Append(prefix, names[i]), t.values[names[i]])]

\* The lines that Report makes of each sub.
EachSub(t, Report(_)) ==
  LET names == Sorted(DOMAIN t.subs)
  IN  FlattenSeq([i \in DOMAIN names |-> Report(names[i])])

\* Fault: only the last name of a nested section is written.
RECURSIVE report_as_sub_faulty(_, _)
report_as_sub_faulty(t, path) ==
  LET one(s) ==
        LET section == IF DOMAIN t.subs[s].values = {} THEN <<>> ELSE <<Section(<<s>>)>>
        IN  section \o report_as_sub_faulty(t.subs[s], <<s>>)
  IN  Values(t, <<>>) \o EachSub(t, one)

\* A section of its own for every sub that has values.
RECURSIVE report_as_sub(_, _)
report_as_sub(t, path) ==
  LET one(s) ==
        LET here    == Append(path, s)
            section == IF DOMAIN t.subs[s].values = {} THEN <<>> ELSE <<Section(here)>>
        IN  section \o report_as_sub(t.subs[s], here)
  IN  Values(t, <<>>) \o EachSub(t, one)

\* All keys, with the names of the subs on the way.
RECURSIVE report_flatly(_, _)
report_flatly(t, prefix) ==
  LET one(s) == report_flatly(t.subs[s], Append(prefix, s))
  IN  Values(t, prefix) \o EachSub(t, one)

\* The subs from the root down, as long as each is all there is.
RECURSIVE find_common_prefix(_, _)
find_common_prefix(t, previous_prefix) ==
  IF DOMAIN t.values = {} /\ Cardinality(DOMAIN t.subs) = 1
  THEN LET s == CHOOSE s \in DOMAIN t.subs : TRUE
       IN  find_common_prefix(t.subs[s], Append(previous_prefix, s))
  ELSE previous_prefix

report(t) ==
  LET common == find_common_prefix(t, <<>>)
  IN  IF empty(t) THEN <<>>
      ELSE IF DOMAIN t.values = {} /\ common # <<>>
      THEN <<Section(common)>> \o report_flatly(getTree(t, common), <<>>)
      ELSE report_as_sub(t, <<>>)

\* std::map<std::string, ...> goes through the keys in this order.
RECURSIVE Before(_, _)
Before(k, l) ==
  IF k = <<>> \/ l = <<>> THEN Len(k) < Len(l)
  ELSE k[1] < l[1] \/ (k[1] = l[1] /\ Before(Tail(k), Tail(l)))

\* Fault: a key is looked up without the name of the sub.
add_tree_faulty(t, flat, sub_id, overwrite) ==
  LET keys   == SetToSortSeq(DOMAIN flat, Before)
      exists == {i \in DOMAIN keys : hasKey(t, keys[i])}
      last   == IF overwrite \/ exists = {} THEN Len(keys) ELSE Min(exists) - 1
  IN  FoldLeft(LAMBDA tree, k : operatorBrackets(tree, sub_id \o k, flat[k]), t,
               SubSeq(keys, 1, last))

\* The tree after the values flat were added below sub_id.  Without overwrite a
\* key that exists ends it with an exception; those before it have been set.
add_tree_(t, flat, sub_id, overwrite) ==
  LET keys   == SetToSortSeq(DOMAIN flat, Before)
      exists == {i \in DOMAIN keys : hasKey(t, sub_id \o keys[i])}
      last   == IF overwrite \/ exists = {} THEN Len(keys) ELSE Min(exists) - 1
  IN  FoldLeft(LAMBDA tree, k : operatorBrackets(tree, sub_id \o k, flat[k]), t,
               SubSeq(keys, 1, last))
=============================================================================
