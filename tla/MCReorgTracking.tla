-------------------------- MODULE MCReorgTracking --------------------------
EXTENDS ReorgTracking

\* Two branches that leave the same first block.  A block's name is its hash.
TreeBlocks == {"a1", "a2", "a3", "a4", "b2", "b3"}
TreeHeight == [b \in TreeBlocks |->
  CASE b = "a1" -> 1 [] b \in {"a2", "b2"} -> 2 [] b \in {"a3", "b3"} -> 3 [] b = "a4" -> 4]
TreeParent == [b \in TreeBlocks |->
  CASE b = "a1" -> "none" [] b \in {"a2", "b2"} -> "a1" [] b = "a3" -> "a2"
    [] b = "b3" -> "b2" [] b = "a4" -> "a3"]
TreeEmitting == {"a1", "a2", "a3", "b2"}
=============================================================================
