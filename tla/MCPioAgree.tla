----------------------------- MODULE MCPioAgree -----------------------------
(***************************************************************************)
(* The texts of all library functions, of their handlers and of their      *)
(* copies on the I/O tasks agree: TLC evaluates what the theorems of       *)
(* PioAsync_proofs assume of the calls.                                    *)
(***************************************************************************)
EXTENDS MCPioAsync

ASSUME AllAgree == \A call \in AllCalls : Agrees(call)
=============================================================================
