---------------------------- MODULE MCStoreSave ----------------------------
\* Instances of StoreSave for TLC.
EXTENDS StoreSave, TLC

CONSTANTS r1, r2, w1, w2, b1, b2, b3, b4

\* r1 fills two blocks and begins a third one; r2 is its first block.
SharedPrefix == r1 :> <<1, 2, 3, 4, 5>> @@ r2 :> <<1, 2>>
\* r1 fills a block and begins a second one; r2 is its first block.
ShortPrefix == r1 :> <<1, 2, 3>> @@ r2 :> <<1, 2>>
BlockSymmetry == Permutations(Block)
=============================================================================
