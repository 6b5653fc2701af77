--------------------------- MODULE MCSoftCombiner ---------------------------
(***************************************************************************)
(* An instance of SoftCombiner for TLC: three signatures in a row, each    *)
(* near the next one, and one far from all; a part is its time.            *)
(***************************************************************************)
EXTENDS SoftCombiner

MCSignature == {{}, {1}, {1, 2}, {3, 4, 5}}
MCPart == 0..Horizon
MCTimeOf(p) == p
=============================================================================
