---------------------------- MODULE MCCompressors ---------------------------
(* Instances of Compressors for TLC: three CPUs and four tiles, so that      *)
(* Compressor 0 has two tiles and each thread one.                           *)
EXTENDS Compressors
=============================================================================
