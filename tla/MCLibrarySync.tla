---------------------------- MODULE MCLibrarySync ----------------------------
EXTENDS LibrarySync

CONSTANTS VK, Yandex, v1, v2, y1

MCSourceOf == (v1 :> VK) @@ (v2 :> VK) @@ (y1 :> Yandex)
MCLibrary == (VK :> <<v1, v2>>) @@ (Yandex :> <<y1>>)
===============================================================================
