---------------------------- MODULE MCRequestReader ----------------------------
(***************************************************************************)
(* Instances of RequestReader for TLC.                                     *)
(***************************************************************************)
EXTENDS RequestReader

CONSTANT MaxLength

\* Every message of up to MaxLength bytes, line feeds anywhere.
MCMessages == UNION {[1..n -> Bytes] : n \in 0..MaxLength}

==============================================================================
