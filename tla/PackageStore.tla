---------------------------- MODULE PackageStore ----------------------------
(* What a packaging run promises about the output directory.  Each selected  *)
(* format has one slot; a package is opened, written and then published      *)
(* whole or discarded; only the death of the process may leave a torn one;   *)
(* a format is reported built only while its package is there.               *)
CONSTANT Format

VARIABLES slot,     \* what stands under each format's file name
          verdict   \* what this run says about each format

store == <<slot, verdict>>

Slot    == {"absent", "writing", "torn", "whole"}

NobodyWrites == \A f \in Format : slot[f] # "writing"

Init == /\ slot \in [Format -> Slot \ {"writing", "torn"}]
        /\ verdict = [f \in Format |-> "unselected"]

(* A new run: every format is either selected or not, and none is judged.    *)
Begin == /\ NobodyWrites
         /\ verdict' \in [Format -> {"unselected", "pending"}]
         /\ UNCHANGED slot

(* The run gives up before building anything.                                *)
Abandon == /\ NobodyWrites
           /\ \A f \in Format : verdict[f] \in {"unselected", "pending"}
           /\ verdict' = [f \in Format |-> "unselected"]
           /\ UNCHANGED slot

Open(f) == /\ NobodyWrites
           /\ verdict[f] = "pending"
           /\ slot' = [slot EXCEPT ![f] = "writing"]
           /\ UNCHANGED verdict

Publish(f) == /\ slot[f] = "writing"
              /\ slot' = [slot EXCEPT ![f] = "whole"]
              /\ UNCHANGED verdict

Discard(f) == /\ slot[f] = "writing"
              /\ slot' = [slot EXCEPT ![f] = "absent"]
              /\ UNCHANGED verdict

Report(f) == /\ NobodyWrites
             /\ verdict[f] = "pending"
             /\ \/ slot[f] = "whole" /\ verdict' = [verdict EXCEPT ![f] = "ok"]
                \/ verdict' = [verdict EXCEPT ![f] = "err"]
             /\ UNCHANGED slot

(* The process dies: what was being written stays behind, torn.              *)
Die == /\ slot' = [f \in Format |-> IF slot[f] = "writing" THEN "torn" ELSE slot[f]]
       /\ UNCHANGED verdict

Next == \/ Begin \/ Abandon \/ Die
        \/ \E f \in Format : Open(f) \/ Publish(f) \/ Discard(f) \/ Report(f)

Spec == Init /\ [][Next]_store
=============================================================================
