------------------------- MODULE ResultsViewerProofs -------------------------
(***************************************************************************)
(* Proofs about ResultsViewer, for any files, rows and controls, and any   *)
(* number of reads under way.  The two invariants that the run checks are  *)
(* inductive together with the types: the order in which the reads answer  *)
(* is all that the page depends on, and it is frozen once the page is      *)
(* blank.                                                                  *)
(***************************************************************************)
EXTENDS ResultsViewer, TLAPS

ViewerTypeOK == /\ answered \in Seq(Files)
                /\ chosen \in Seq(Files)
                /\ reading \subseteq DOMAIN chosen
                /\ data \in Files
                /\ page \in {"shown", "blank"}

\* Among the files that are results, if there are any, one is the last.
HasLast(files) ==
  Results(files) # {} =>
    \E n \in Results(files) : \A m \in Results(files) : m <= n

ViewerInv == /\ ViewerTypeOK
             /\ HasLast(answered)
             /\ CellsComeFromSource
             /\ BlankOnlyByPartialFile

\* The file answered last is the last results, if it is results at all.
LEMMA LastAnswer ==
  ASSUME NEW files \in Seq(Files), HasLast(files), NEW file \in Files
  PROVE  LET longer == Append(files, file) IN
           /\ longer \in Seq(Files) /\ longer # <<>>
           /\ HasLast(longer)
           /\ Last(longer) = file
           /\ LastResults(longer) =
                IF Kind[file] = "other" THEN LastResults(files) ELSE file
<1> DEFINE longer == Append(files, file)
           top == Len(files) + 1
<1>1. /\ longer \in Seq(Files) /\ Len(longer) = top /\ longer[top] = file
      /\ DOMAIN longer = 1..top /\ DOMAIN files = 1..Len(files) /\ Len(files) \in Nat
      /\ \A n \in DOMAIN files : longer[n] = files[n]
      /\ longer # <<>>
  OBVIOUS
<1> HIDE DEF longer
<1>2. Last(longer) = file
  BY <1>1 DEF Last
<1>3. CASE Kind[file] = "other"
  <2>1. Results(longer) = Results(files)
    BY <1>1, <1>3 DEF Results
  <2>2. LastResults(longer) = LastResults(files)
    <3>1. CASE Results(files) = {}
      BY <2>1, <3>1 DEF LastResults
    <3>2. CASE Results(files) # {}
      <4> DEFINE n == CHOOSE n \in Results(files) : \A m \in Results(files) : m <= n
      <4>1. n \in DOMAIN files
        BY <3>2 DEF HasLast, Results
      <4>2. LastResults(files) = files[n] /\ LastResults(longer) = longer[n]
        BY <2>1, <3>2 DEF LastResults
      <4> HIDE DEF n
      <4> QED
        BY <1>1, <4>1, <4>2
    <3> QED
      BY <3>1, <3>2
  <2>3. HasLast(longer)
    BY <2>1 DEF HasLast
  <2> QED
    BY <1>1, <1>2, <1>3, <2>2, <2>3 DEF longer
<1>4. CASE Kind[file] # "other"
  <2>1. top \in Results(longer) /\ \A n \in Results(longer) : n <= top
    BY <1>1, <1>4 DEF Results
  <2>2. Results(longer) \subseteq Nat
    BY <1>1 DEF Results
  <2>3. (CHOOSE n \in Results(longer) : \A m \in Results(longer) : m <= n) = top
    <3> DEFINE n == CHOOSE n \in Results(longer) : \A m \in Results(longer) : m <= n
    <3>1. n \in Results(longer) /\ \A m \in Results(longer) : m <= n
      BY <2>1
    <3> HIDE DEF n
    <3>2. n = top
      BY <2>1, <2>2, <3>1
    <3> QED
      BY <3>2 DEF n
  <2>4. LastResults(longer) = file
    BY <1>1, <2>1, <2>3 DEF LastResults
  <2> QED
    BY <1>1, <1>2, <1>4, <2>1, <2>4 DEF HasLast, longer
<1> QED
  BY <1>3, <1>4

-----------------------------------------------------------------------------
(* The invariant                                                             *)

LEMMA ViewerInit == Init => ViewerInv
<1> SUFFICES ASSUME Init PROVE ViewerInv
  OBVIOUS
<1>1. ViewerTypeOK /\ HasLast(answered) /\ Results(answered) = {}
  BY FilesAssumption DEF Init, ViewerTypeOK, HasLast, Results
<1>2. "A1" \in IdsOf("seeded")
  BY FilesAssumption DEF IdsOf
<1> QED
  BY <1>1, <1>2 DEF Init, ViewerInv, CellsComeFromSource, BlankOnlyByPartialFile,
                    LastResults

\* The first row of a file is a chip of its grid.
LEMMA FirstRow ==
  ASSUME NEW file \in Files, Rows[file] # <<>>
  PROVE  Rows[file][1] \in IdsOf(file)
<1>1. Rows[file] \in Seq(STRING)
  BY FilesAssumption
<1>2. 1 \in DOMAIN Rows[file]
  BY <1>1
<1> QED
  BY <1>2 DEF IdsOf

LEMMA FinishInv ==
  ASSUME ViewerInv, NEW n \in 1..MaxLoads, Finish(n)
  PROVE  ViewerInv'
<1> DEFINE file == chosen[n]
<1>1. /\ n \in reading /\ reading' = reading \ {n} /\ chosen' = chosen
      /\ file \in Files /\ Kind[file] \in Kinds
  BY FilesAssumption DEF Finish, ViewerInv, ViewerTypeOK
<1>2. CASE page = "blank"
  <2>1. UNCHANGED <<shown, answered>>
    BY <1>2 DEF Finish
  <2> QED
    BY <1>1, <1>2, <2>1 DEF shown, ViewerInv, ViewerTypeOK, HasLast, Results,
                            CellsComeFromSource, BlankOnlyByPartialFile
<1>3. CASE page = "shown"
  <2>1. /\ answered' = Append(answered, file)
        /\ Refuse(file) \/ Show(file) \/ ShowPartly(file)
    BY <1>3 DEF Finish
  <2>2. /\ answered' \in Seq(Files) /\ answered' # <<>>
        /\ HasLast(answered') /\ Last(answered') = file
        /\ LastResults(answered') =
             IF Kind[file] = "other" THEN LastResults(answered) ELSE file
    BY <1>1, <2>1, LastAnswer DEF ViewerInv, ViewerTypeOK
  <2> HIDE DEF file
  <2>3. HasLast(answered)' /\ LastResults(answered)' = LastResults(answered')
        /\ Last(answered)' = Last(answered')
    BY <2>2 DEF HasLast, Results, LastResults, Last
  <2>4. CASE Refuse(file)
    BY <1>1, <1>3, <2>2, <2>3, <2>4
       DEF Refuse, ViewerInv, ViewerTypeOK, CellsComeFromSource, BlankOnlyByPartialFile,
           IdsOf
  <2>5. CASE Show(file)
    BY <1>1, <2>2, <2>3, <2>5, FirstRow
       DEF Show, Render, ViewerInv, ViewerTypeOK, CellsComeFromSource,
           BlankOnlyByPartialFile
  <2>6. CASE ShowPartly(file)
    BY <1>1, <2>2, <2>3, <2>6
       DEF ShowPartly, Render, ViewerInv, ViewerTypeOK, CellsComeFromSource,
           BlankOnlyByPartialFile
  <2> QED
    BY <2>1, <2>4, <2>5, <2>6
<1> QED
  BY <1>2, <1>3 DEF ViewerInv, ViewerTypeOK

LEMMA ViewerNext == ViewerInv /\ [Next]_vars => ViewerInv'
<1> SUFFICES ASSUME ViewerInv, [Next]_vars PROVE ViewerInv'
  OBVIOUS
<1>1. ASSUME NEW file \in Files, Choose(file) PROVE ViewerInv'
  BY <1>1 DEF Choose, shown, ViewerInv, ViewerTypeOK, HasLast, Results,
              CellsComeFromSource, BlankOnlyByPartialFile
<1>2. ASSUME NEW id, Select(id) PROVE ViewerInv'
  BY <1>2 DEF Select, ViewerInv, ViewerTypeOK, HasLast, Results,
              CellsComeFromSource, BlankOnlyByPartialFile
<1>3. CASE UNCHANGED vars
  BY <1>3 DEF vars, shown, ViewerInv, ViewerTypeOK, HasLast, Results,
              CellsComeFromSource, BlankOnlyByPartialFile
<1> QED
  BY <1>1, <1>2, <1>3, FinishInv DEF Next

\* Among the files answered there is a last one of results whenever there is any, and it
\* is what the page shows, unless a partial file took the page away.
THEOREM ViewerInvariant == Spec => []ViewerInv
BY ViewerInit, ViewerNext, PTL DEF Spec

\* The page shows the file it names, the one answered last among the results, with a
\* scenario of it, however many reads overlap.
THEOREM CellsFromSource == Spec => []CellsComeFromSource
BY ViewerInvariant, PTL DEF ViewerInv

\* Nothing but a results file with a part missing takes the page away.
THEOREM BlankByPartialFile == Spec => []BlankOnlyByPartialFile
BY ViewerInvariant, PTL DEF ViewerInv

=============================================================================
