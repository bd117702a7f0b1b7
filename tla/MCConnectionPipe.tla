-------------------------- MODULE MCConnectionPipe --------------------------
(* Instances of ConnectionPipe for TLC; the values are in the .cfg files. *)
EXTENDS ConnectionPipe
=============================================================================
