---------------------------- MODULE MCBufManager ----------------------------
(* Checks the buffer manager with limits and requests of up to nine bytes, *)
(* two ints and a byte: enough for two buffers of either area, for limits  *)
(* that are not a whole number of ints and for requests that do not fit.   *)
EXTENDS BufManager

MCMaxBytes == 9
================================================================================
