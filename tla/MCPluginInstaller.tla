-------------------------- MODULE MCPluginInstaller --------------------------
(* Two plugins and the built-in one.  The first ships a component and one whose name is
   not one of a model, the second the same component and one without a model; the
   built-in plugin ships a resource and an action on it. *)
EXTENDS PluginInstaller, TLC
CONSTANTS built, doc, odd, page
MCComps == {built, doc, odd, page}
MCShips == 0 :> {built} @@ 1 :> {doc, odd} @@ 2 :> {doc, page}
MCSeeds == 0 :> {<<built, 0>>} @@ 1 :> {} @@ 2 :> {}
\* 0 and 3 are not in the plugins folder.
MCDepends == {1 :> {} @@ 2 :> {}, 1 :> {0, 2} @@ 2 :> {3}, 1 :> {2} @@ 2 :> {1}, 1 :> {3} @@ 2 :> {1}}
=============================================================================
