---------------------------- MODULE MCLLMClient -----------------------------
(* LLMClient with small and with unusual retry counts. *)
EXTENDS LLMClient

Negative == -1
=============================================================================
