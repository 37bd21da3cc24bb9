------------------------------ MODULE MCAssetMgr ------------------------------
(***************************************************************************)
(* Urls for AssetMgr: two assets and a url without a file name, and two    *)
(* urls of different assets with one file name.                            *)
(***************************************************************************)
EXTENDS AssetMgr, TLC

MCDistinct == "u1" :> "a.bin" @@ "u2" :> "b.bin" @@ "u3/" :> ""
MCTwo == "u1" :> "a.bin" @@ "u2" :> "b.bin"
MCOne == "u1" :> "a.bin" @@ "u3/" :> ""
MCShared == "u1" :> "a.bin" @@ "v1" :> "a.bin"

Symmetry == Permutations(Sessions)
=============================================================================
