-------------------------- MODULE MCConfiguration --------------------------
(* Configuration with a few keys of up to three names, for TLC. *)
EXTENDS Configuration

Symmetry == Permutations(Objects)

MCDatadir   == <<1, 3>>
MCLogdir    == <<2, 3>>
MCParamfile == <<4>>

\* Subs without values, and both of the keys that the log file follows.
MCParamTrees == {Node(3 :> "u", 2 :> EmptyTree),
                 Node(<<>>, 1 :> Node(<<>>, 2 :> EmptyTree)),
                 Node(<<>>, 1 :> Node(3 :> "u", <<>>) @@ 2 :> Node(3 :> "v", <<>>))}
MCSetKeys    == {<<3>>, <<1, 3>>, <<2, 3>>}
MCSubIds     == {<<>>, <<1>>}
MCFiles      == "u" :> (<<3>> :> "v" @@ <<2, 3>> :> "u")
MCOptions    == {<<3>> :> "u" @@ <<4>> :> "u"}
=============================================================================
