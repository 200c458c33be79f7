--------------------------- MODULE MCImageDownload ----------------------------
(* Two images whose tags name manifests that share a blob, or a list for      *)
(* several platforms; a second list has nothing for this one.                 *)
EXTENDS ImageDownload, TLC

CONSTANTS i1, i2, b1, b2, m1, m2, l1, l2

MCImages == <<i1, i2>>
MCOneImage == <<i1>>

MCParts == m1 :> {b1, b2} @@ m2 :> {b2}
MCOnePart == m1 :> {b1}

MCPlatform == l1 :> m1 @@ l2 :> Nothing
MCNoPlatform == [l \in {} |-> Nothing]
===============================================================================
