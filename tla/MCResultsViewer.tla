--------------------------- MODULE MCResultsViewer ---------------------------
(* The seeded results, results of another campaign and of one without          *)
(* scenarios, a file that is none, and two with a part missing.                *)
EXTENDS ResultsViewer

MCKind == [f \in Files |-> CASE f = "notes" -> "other"
                             [] f = "noScenarios" -> "noScenarios"
                             [] f = "noTables" -> "noTables"
                             [] OTHER -> "campaign"]

MCRows == [f \in Files |-> CASE f \in {"seeded", "noTables"} -> <<"A1", "A2">>
                             [] f = "rerun" -> <<"A10">>
                             [] OTHER -> <<>>]

=============================================================================
