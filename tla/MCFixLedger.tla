----------------------------- MODULE MCFixLedger -----------------------------
(***************************************************************************)
(* Instances of FixLedger: fix-gpu-2 makes both its edits, safe-low makes  *)
(* the first of its candidates that lowers a value.                        *)
(***************************************************************************)
EXTENDS FixLedger, TLC

Symmetry == Permutations(Sessions)

MCSeveral == {"fix-gpu-2"} \cap Fixes
MCEdits ==
    [f \in Fixes |->
        IF f = "fix-gpu-2"
        THEN <<[field |-> "precision", value |-> 1], [field |-> "checkpointing", value |-> 1]>>
        ELSE <<[field |-> "precision", value |-> 0], [field |-> "checkpointing", value |-> 0]>>]
MCGiven == {[precision |-> p[1], checkpointing |-> p[2]] :
              p \in {<<0, 1>>, <<0, NoValue>>}}
=============================================================================
