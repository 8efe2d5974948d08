----------------------------- MODULE VaultSwitch -----------------------------
(* What switching a window from one vault to another promises, whatever      *)
(* crashes on the way (vault_handoff.rs:1, the doc of Record): the source    *)
(* is asked to close only while the switch is undecided, the switch goes     *)
(* forward only when the source has let go of its vault, and back only when  *)
(* the source is not going to close; and it is decided once.                 *)

VARIABLES
  intent,   \* "none" | "switching" | "moved" | "kept" | "dropped"
  source,   \* "open" | "closing" | "closed": the process the switch began with
  known     \* whether the source's process can be told from another one's

vars == <<intent, source, known>>

Init == intent = "none" /\ source = "closed" /\ known = TRUE

(* A switch begins with the process that shows the source.                   *)
Begin ==
  /\ intent # "switching"
  /\ intent' = "switching" /\ source' = "open" /\ known' = TRUE

Ask == intent = "switching" /\ source = "open" /\ source' = "closing" /\ UNCHANGED <<intent, known>>
Stop == source = "closing" /\ source' = "open" /\ UNCHANGED <<intent, known>>
(* It closes, because it was asked to, because its user closes it, or        *)
(* because it crashes; and that process does not come back.                  *)
Close == source' = "closed" /\ UNCHANGED <<intent, known>>
Identify == known' \in BOOLEAN /\ UNCHANGED <<intent, source>>

Move == intent = "switching" /\ source = "closed" /\ intent' = "moved" /\ UNCHANGED <<source, known>>
Keep ==
  /\ intent = "switching" /\ (source # "closing" \/ ~known)
  /\ intent' = "kept" /\ UNCHANGED <<source, known>>
(* A switch that keeps failing is given up.                                  *)
Drop == intent \in {"switching", "moved"} /\ intent' = "dropped" /\ UNCHANGED <<source, known>>

Next == Begin \/ Ask \/ Stop \/ Close \/ Identify \/ Move \/ Keep \/ Drop

Spec == Init /\ [][Next]_vars
=============================================================================
