------------------------------ MODULE MCMemory ------------------------------
EXTENDS MemoryStore, TagSearch, TLC

(* Tags are interchangeable: no action tells one from another.             *)
TagSymmetry == Permutations(Tags)

(* The parent_of edges as a graph over 1..n.                               *)
TreeGraph ==
    LET name == SetToSeq(tags)
    IN  [n \in DOMAIN name |-> SetToSeq({m \in DOMAIN name : <<name[n], name[m]>> \in tree})]

(***************************************************************************)
(* The tag walks compute what they are to compute: detectLoops() finds     *)
(* exactly the sets of two and more tags that are below each other (at the *)
(* end of a housekeeping, some if and only if tags are looped), and        *)
(* findByTag(), findRelated() and getTagTree() the tags that can be        *)
(* reached, on every graph over three tags, cyclic or not and with its     *)
(* edges in any order.                                                     *)
(***************************************************************************)
SearchesMatch ==
    /\ AllWalksAgree
    /\ step = "loops" => (TarjanSCC(TreeGraph) # {} <=> Looped)
=============================================================================
