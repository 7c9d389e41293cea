----------------------------- MODULE ResultsViewer -----------------------------
(***************************************************************************)
(* ui/src/App.tsx: the page that shows a results file.  Every file chosen  *)
(* starts an onFile of its own, which goes on when file.text() answers;    *)
(* several may be waiting, and they are answered in any order.  What one   *)
(* of them sets is rendered at once.  An exception in the render takes the *)
(* page away for good: nothing catches it.                                 *)
(***************************************************************************)
EXTENDS Naturals, Sequences, FiniteSets

CONSTANTS Files,           \* the files a user may choose
          Kind,            \* what each of them holds
          Rows,            \* its scenarios, in order
          Controls,        \* the legitimate requests every campaign runs
          MaxLoads         \* bound: files chosen

\* "campaign": what run_campaign writes.  "other": not JSON, or JSON of another
\* schema.  The schema is right but part of the content is missing: the scenarios,
\* which onFile itself reads, or anything else, which only the render reads.
Kinds == {"campaign", "other", "noScenarios", "noTables"}

ASSUME FilesAssumption == /\ Kind \in [Files -> Kinds]
                          /\ "seeded" \in Files /\ Kind["seeded"] = "campaign"
                          /\ Rows \in [Files -> Seq(STRING)]
                          /\ \E i \in DOMAIN Rows["seeded"] : Rows["seeded"][i] = "A1"

VARIABLES data,            \* the file whose content is shown
          source,          \* the file that the page says it is
          selected,        \* the scenario whose detail is shown
          error,           \* whether a message is shown
          page,            \* "shown" or "blank"
          chosen,          \* the files chosen so far, in order
          reading,         \* those whose text() has not answered yet
          answered         \* history: the files that did, in that order

shown == <<data, source, selected, error, page>>
vars == <<shown, chosen, reading, answered>>

\* The chips of the grid.
IdsOf(file) == {Rows[file][i] : i \in DOMAIN Rows[file]} \cup Controls

Init == /\ data = "seeded" /\ source = "seeded" /\ selected = "A1"
        /\ error = FALSE /\ page = "shown"
        /\ chosen = <<>> /\ reading = {} /\ answered = <<>>

\* onFile, up to the await.
Choose(file) == /\ page = "shown"
                /\ Len(chosen) < MaxLoads
                /\ chosen' = Append(chosen, file)
                /\ reading' = reading \cup {Len(chosen) + 1}
                /\ UNCHANGED <<shown, answered>>

\* A click on a chip.
Select(id) == /\ page = "shown"
              /\ id \in IdsOf(data)
              /\ selected' = id
              /\ UNCHANGED <<data, source, error, page, chosen, reading, answered>>

\* The render after an update: every part of the content has to be there.
Render(file) == page' = IF Kind[file] = "campaign" THEN "shown" ELSE "blank"

\* Seeded fault: the content is set before the schema is looked at.
FaultRefuse(file) == /\ Kind[file] = "other"
                     /\ data' = file /\ source' = file
                     /\ error' = TRUE
                     /\ UNCHANGED selected
                     /\ Render(file)

\* JSON.parse fails, or the schema is another one: the content stays.
Refuse(file) == /\ Kind[file] = "other"
                /\ error' = TRUE
                /\ UNCHANGED <<data, source, selected, page>>

\* Seeded fault: the message of an earlier file stays.
FaultShow(file) == /\ Kind[file] \in {"campaign", "noTables"}
                   /\ data' = file /\ source' = file
                   /\ selected' = IF Rows[file] = <<>> THEN "A1" ELSE Rows[file][1]
                   /\ UNCHANGED error
                   /\ Render(file)

\* Seeded fault: the selection of the file before stays.
FaultShowSelected(file) == /\ Kind[file] \in {"campaign", "noTables"}
                           /\ data' = file /\ source' = file
                           /\ error' = FALSE
                           /\ UNCHANGED selected
                           /\ Render(file)

\* Seeded fault: a campaign without scenarios is passed over.
FaultShowNonEmpty(file) == /\ Kind[file] \in {"campaign", "noTables"}
                           /\ IF Rows[file] = <<>> THEN UNCHANGED shown
                              ELSE /\ data' = file /\ source' = file
                                   /\ selected' = Rows[file][1]
                                   /\ error' = FALSE
                                   /\ Render(file)

Show(file) == /\ Kind[file] \in {"campaign", "noTables"}
              /\ data' = file /\ source' = file
              /\ selected' = IF Rows[file] = <<>> THEN "A1" ELSE Rows[file][1]
              /\ error' = FALSE
              /\ Render(file)

\* Object.keys throws after the content was set: the message comes with a page
\* that cannot be rendered.
ShowPartly(file) == /\ Kind[file] = "noScenarios"
                    /\ data' = file /\ source' = file
                    /\ error' = TRUE
                    /\ UNCHANGED selected
                    /\ Render(file)

\* text() answers: the rest of onFile.  On a blank page nothing is mounted that
\* its updates could reach.
Finish(n) == /\ n \in reading
             /\ reading' = reading \ {n}
             /\ IF page = "blank" THEN UNCHANGED <<shown, answered>>
                ELSE /\ \/ Refuse(chosen[n]) \/ Show(chosen[n])
                        \/ ShowPartly(chosen[n])
                     /\ answered' = Append(answered, chosen[n])
             /\ UNCHANGED chosen

Next == \/ \E file \in Files : Choose(file)
        \/ \E n \in 1..MaxLoads : Finish(n)
        \/ \E id \in UNION {IdsOf(file) : file \in Files} : Select(id)

\* The browser answers every read; nothing obliges the user to choose anything.
Spec == Init /\ [][Next]_vars /\ \A n \in 1..MaxLoads : WF_vars(Finish(n))

-----------------------------------------------------------------------------
(* Properties *)

Last(files) == files[Len(files)]

Results(files) == {n \in DOMAIN files : Kind[files[n]] # "other"}

\* The last of some files that is results; before there is one, what is built in.
LastResults(files) ==
  IF Results(files) = {} THEN "seeded"
  ELSE files[CHOOSE n \in Results(files) : \A m \in Results(files) : m <= n]

\* "Cells come from <source>": whatever reads overlap and in whatever order they
\* answer, the page shows the file it names, which is the one that was answered
\* last among those that are results, and a message exactly when the last answer
\* was not such a file.  The detail shown is of a scenario of that file, unless it
\* has none: no selection outlives the file it was made in.
CellsComeFromSource ==
  page = "shown" =>
    /\ data = source
    /\ data = LastResults(answered)
    /\ error <=> answered # <<>> /\ Kind[Last(answered)] = "other"
    /\ Rows[data] # <<>> => selected \in IdsOf(data)

\* A file that is not results never takes the page away; only a results file with
\* a part missing does, although onFile catches what it throws.
BlankOnlyByPartialFile ==
  page = "blank" => Kind[Last(answered)] \in {"noScenarios", "noTables"}

\* A results file chosen while nothing is being read is shown in the end, unless
\* the user chooses again.
LoneChoiceShown ==
  \A n \in 1..MaxLoads :
    (/\ Len(chosen) = n /\ reading = {n} /\ page = "shown"
     /\ Kind[chosen[n]] = "campaign")
      ~> (Len(chosen) > n \/ (chosen # <<>> /\ data = Last(chosen) /\ page = "shown"))

=============================================================================
