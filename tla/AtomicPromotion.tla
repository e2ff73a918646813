-------------------------- MODULE AtomicPromotion --------------------------
(***************************************************************************)
(* What the promotion of lexical results promises: the canonical tree and  *)
(* the database views over it change together, in one step, and a tree     *)
(* that was canonical once is kept.                                        *)
(***************************************************************************)
CONSTANTS
  Tree,   \* the result trees
  None    \* no tree

VARIABLES
  canonical,  \* the tree a reader of the output directory is to find
  exposed,    \* the tree the database views were made for
  kept        \* the trees that are or were canonical

promotionVars == <<canonical, exposed, kept>>

Init == canonical = None /\ exposed = None /\ kept = {}

Promote(t) ==
  /\ t \notin kept
  /\ canonical' = t /\ exposed' = t
  /\ kept' = kept \cup {t}

Next == \E t \in Tree : Promote(t)

Spec == Init /\ [][Next]_promotionVars
=============================================================================
