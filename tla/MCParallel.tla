----------------------------- MODULE MCParallel -----------------------------
(* Small instances of Parallel.                                            *)
EXTENDS Parallel

OneToThreeBlocks == {<<4>>, <<2, 3>>, <<3, 1>>, <<1, 2, 2>>}
=============================================================================
