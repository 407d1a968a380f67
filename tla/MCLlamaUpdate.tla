---------------------------- MODULE MCLlamaUpdate ----------------------------
(* Three releases allow an update to meet what two earlier ones left, two  *)
(* refused operations and two crashes any pair of failures in one update.  *)
EXTENDS LlamaUpdate
=============================================================================
