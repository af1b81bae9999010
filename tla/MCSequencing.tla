---------------------------- MODULE MCSequencing ----------------------------
(* The dispatcher and the sequencer with blocks of four logs: as with the  *)
(* code's ten, the request that leaves room for two logs ends the block.   *)
EXTENDS Sequencing

=============================================================================
