--------------------------- MODULE MCCoreVersion ---------------------------
(* Model-checking instance of CoreVersion: two images, three descriptors  *)
(* given by their Data.  Descriptor 1 has two image keys and names v1;    *)
(* descriptor 2 has one image key with a value, one with an empty value   *)
(* and an empty name; descriptor 3 names v2 and has the key "Image" only, *)
(* whose keyword sits at position 0, so the pass finds no image in it and *)
(* skips it as not a core version.                                        *)
EXTENDS CoreVersion, TLC

CONSTANTS i1, i2, v1, v2

MCDescData ==
    << ("engineImage" :> i1) @@ ("pfsdImage" :> i2) @@ ("name" :> v1),
       ("engineImage" :> i2) @@ ("pfsdImage" :> "") @@ ("name" :> ""),
       ("Image" :> i1) @@ ("name" :> v2) >>

MCDescImages == <<{i1, i2}, {i2}, {}>>
MCDescName == <<v1, NoName, v2>>

\* The descriptors' images and names are what getAllImagesByVersionConfigMap
\* and getCoreVersionNameByVersionConfigMap read from their Data (checked
\* once, at start-up, rather than on every use).
ASSUME \A d \in 1..3 :
    /\ MCDescImages[d] = getAllImagesByVersionConfigMap(MCDescData[d])
    /\ MCDescName[d] = getCoreVersionNameByVersionConfigMap(MCDescData[d])

=============================================================================
