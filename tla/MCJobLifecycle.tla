--------------------------- MODULE MCJobLifecycle ---------------------------
(* Small instances of JobLifecycle for TLC. *)
EXTENDS JobLifecycle, TLC

CONSTANTS w1, w2, w3

\* One pipeline that takes everything and one started with AO_ONLY.
MCNick == [w \in Worker |-> IF w = w1 THEN NamedQueue ELSE {}]
MCAoOnly == {w2} \cap Worker
MCLarge == {w1} \cap Worker

\* Nothing tells one URL from another.
MCSymmetry == Permutations(Ident)
=============================================================================
