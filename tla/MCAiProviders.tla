--------------------------- MODULE MCAiProviders ---------------------------
(* Two models of two providers. *)
EXTENDS AiProviders

CONSTANTS m1, m2, note

MCModels == {m1, m2}
MCProvider == [m \in MCModels |-> IF m = m1 THEN "hosted" ELSE "local"]
MCLocal == {"local"}
MCPreset == {m1}
MCNotes == {note}
Row(m, s) == [model |-> m, status |-> s]
Overlay(a, b, v) == [routed |-> {a}, primaries |-> {b}, valid |-> v]
MCEvidence == {{}, {Row(m1, "pass"), Row(m2, "failed")}}
MCOverlays == {Overlay(m1, m2, TRUE),
               Overlay(m2, m1, FALSE)}
=============================================================================
