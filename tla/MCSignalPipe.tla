---------------------------- MODULE MCSignalPipe ----------------------------
(***************************************************************************)
(* Values for the constants of SignalPipe: a read takes two bytes, so that *)
(* one can hold a refresh behind a quit, and bytes can be left over.       *)
(***************************************************************************)
EXTENDS SignalPipe

MCCapacity == 3
MCChunk == 2
=============================================================================
