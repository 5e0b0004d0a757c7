------------------------- MODULE MCFileTransaction -------------------------
(***************************************************************************)
(* Every plan of two changes: each is a write of a new or an existing file *)
(* or a delete, private or not.                                            *)
(***************************************************************************)
EXTENDS FileTransaction

CONSTANTS first, second

MCPaths == {first, second}

Changes(p) == {c \in [path : {p}, exists : BOOLEAN, delete : BOOLEAN, private : BOOLEAN] :
                 c.delete => c.exists}

MCPlans == {<<c, d>> : c \in Changes(first), d \in Changes(second)}
=============================================================================
