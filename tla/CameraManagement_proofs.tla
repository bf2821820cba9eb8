------------------------ MODULE CameraManagement_proofs ------------------------
(***************************************************************************)
(* Safety of CameraManagement for every set of texts and any number of     *)
(* cameras.                                                                *)
(***************************************************************************)
EXTENDS CameraManagement, SequenceTheorems, TLAPS

-----------------------------------------------------------------------------
(* The table's statements.                                                 *)

Unique(rows) == \A i, j \in DOMAIN rows : rows[i].id = rows[j].id => i = j

AllValid(rows) == \A i \in DOMAIN rows : Validate(rows[i].entry) = "None"

LEMMA AppendRow ==
  ASSUME NEW rows \in Seq(Row), NEW row \in Row
  PROVE  /\ Append(rows, row) \in Seq(Row)
         /\ Ids(Append(rows, row)) = Ids(rows) \cup {row.id}
         /\ Unique(rows) /\ row.id \notin Ids(rows) => Unique(Append(rows, row))
         /\ AllValid(rows) /\ Validate(row.entry) = "None"
              => AllValid(Append(rows, row))
         /\ ToSet(Append(rows, row)) = ToSet(rows) \cup {row}
<1> DEFINE new == Append(rows, row)
<1>1. /\ new \in Seq(Row)
      /\ DOMAIN rows = 1 .. Len(rows)
      /\ DOMAIN new = 1 .. Len(rows) + 1
      /\ Len(rows) \in Nat
      /\ \A i \in 1 .. Len(rows) : new[i] = rows[i]
      /\ new[Len(rows) + 1] = row
  BY AppendProperties, LenProperties
<1> HIDE DEF new
<1>2. \A i \in DOMAIN new : i \in DOMAIN rows \/ i = Len(rows) + 1
  BY <1>1
<1>3. \A i \in DOMAIN rows : i \in DOMAIN new /\ i # Len(rows) + 1
  BY <1>1
<1>4. Ids(new) = Ids(rows) \cup {row.id}
  BY <1>1, <1>2, <1>3 DEF Ids
<1>5. Unique(rows) /\ row.id \notin Ids(rows) => Unique(new)
  BY <1>1, <1>2, <1>3 DEF Unique, Ids
<1>6. AllValid(rows) /\ Validate(row.entry) = "None" => AllValid(new)
  BY <1>1, <1>2, <1>3 DEF AllValid
<1>7. ToSet(new) = ToSet(rows) \cup {row}
  BY <1>1, <1>2, <1>3 DEF ToSet
<1>8. QED
  BY <1>1, <1>4, <1>5, <1>6, <1>7 DEF new

LEMMA UpdateRow ==
  ASSUME NEW rows \in Seq(Row), NEW id \in CameraId, NEW e \in Entry
  PROVE  /\ Updated(rows, id, e) \in Seq(Row)
         /\ Ids(Updated(rows, id, e)) = Ids(rows)
         /\ Unique(rows) => Unique(Updated(rows, id, e))
         /\ AllValid(rows) /\ Validate(e) = "None" => AllValid(Updated(rows, id, e))
         /\ \A r \in ToSet(Updated(rows, id, e)) : r.id = id \/ r \in ToSet(rows)
<1> DEFINE new == Updated(rows, id, e)
           row == [id |-> id, entry |-> e]
<1>1. row \in Row /\ row.id = id /\ row.entry = e
  BY DEF Row
<1>2. DOMAIN rows = 1 .. Len(rows) /\ Len(rows) \in Nat
  BY LenProperties
<1>3. \A i \in DOMAIN rows : rows[i] \in Row
  BY ElementOfSeq, <1>2
<1>4. /\ DOMAIN new = DOMAIN rows
      /\ \A i \in DOMAIN rows : new[i] = IF rows[i].id = id THEN row ELSE rows[i]
      /\ new = [i \in 1 .. Len(rows) |-> new[i]]
  BY <1>2 DEF Updated
<1> HIDE DEF new, row
<1>5. \A i \in DOMAIN rows : new[i] \in Row
  BY <1>1, <1>3, <1>4
<1>6. new \in Seq(Row)
  <2>1. new \in [1 .. Len(rows) -> Row]
    BY <1>2, <1>4, <1>5
  <2>2. QED
    BY <1>2, <2>1, SeqDef
<1>7. \A i \in DOMAIN rows : new[i].id = rows[i].id
  BY <1>1, <1>4
<1>8. Ids(new) = Ids(rows)
  BY <1>4, <1>7 DEF Ids
<1>9. Unique(rows) => Unique(new)
  <2>1. SUFFICES ASSUME Unique(rows), NEW i \in DOMAIN new, NEW j \in DOMAIN new,
                        new[i].id = new[j].id
                 PROVE  i = j
    BY DEF Unique
  <2>2. rows[i].id = rows[j].id /\ i \in DOMAIN rows /\ j \in DOMAIN rows
    BY <1>4, <1>7, <2>1
  <2>3. QED
    BY <2>1, <2>2 DEF Unique
<1>10. AllValid(rows) /\ Validate(e) = "None" => AllValid(new)
  BY <1>1, <1>4 DEF AllValid
<1>11. \A r \in ToSet(new) : r.id = id \/ r \in ToSet(rows)
  <2>1. SUFFICES ASSUME NEW i \in DOMAIN new
                 PROVE  new[i].id = id \/ new[i] \in ToSet(rows)
    BY DEF ToSet
  <2>2. QED
    BY <1>1, <1>4 DEF ToSet
<1>12. QED
  BY <1>6, <1>8, <1>9, <1>10, <1>11 DEF new

LEMMA RemoveAtProperties ==
  ASSUME NEW S, NEW s \in Seq(S), NEW k \in 1 .. Len(s)
  PROVE  /\ RemoveAt(s, k) \in Seq(S)
         /\ Len(RemoveAt(s, k)) = Len(s) - 1
         /\ \A i \in 1 .. Len(s) - 1 :
              RemoveAt(s, k)[i] = s[IF i < k THEN i ELSE i + 1]
<1> DEFINE n == Len(s)
           before == SubSeq(s, 1, k - 1)
           after == SubSeq(s, k + 1, n)
<1>1. n \in Nat /\ k \in Nat /\ k >= 1 /\ k <= n /\ \A i \in 1 .. n : s[i] \in S
  BY LenProperties, ElementOfSeq
<1> HIDE DEF n
<1>2. /\ before \in Seq(S) /\ Len(before) = k - 1
      /\ \A i \in 1 .. k - 1 : before[i] = s[i]
  <2>1. \A i \in 1 .. k - 1 : s[i] \in S
    BY <1>1
  <2>2. /\ before \in Seq(S)
        /\ Len(before) = IF 1 <= k - 1 THEN (k - 1) - 1 + 1 ELSE 0
        /\ \A i \in 1 .. (k - 1) - 1 + 1 : before[i] = s[1 + i - 1]
    BY <1>1, <2>1, SubSeqProperties
  <2>3. QED
    BY <1>1, <2>2
<1>3. /\ after \in Seq(S) /\ Len(after) = n - k
      /\ \A i \in 1 .. n - k : after[i] = s[k + i]
  <2>1. \A i \in k + 1 .. n : s[i] \in S
    BY <1>1
  <2>2. /\ after \in Seq(S)
        /\ Len(after) = IF k + 1 <= n THEN n - (k + 1) + 1 ELSE 0
        /\ \A i \in 1 .. n - (k + 1) + 1 : after[i] = s[(k + 1) + i - 1]
    BY <1>1, <2>1, SubSeqProperties
  <2>3. Len(after) = n - k
    BY <1>1, <2>2
  <2>4. ASSUME NEW i \in 1 .. n - k
        PROVE  after[i] = s[k + i]
    <3>1. i \in 1 .. n - (k + 1) + 1 /\ (k + 1) + i - 1 = k + i
      BY <1>1
    <3>2. after[i] = s[(k + 1) + i - 1]
      BY <2>2, <3>1
    <3>3. QED
      BY <3>1, <3>2
  <2>5. QED
    BY <2>2, <2>3, <2>4
<1> HIDE DEF before, after
<1>4. RemoveAt(s, k) = before \o after
  BY DEF RemoveAt, before, after, n
<1>5. /\ before \o after \in Seq(S)
      /\ Len(before \o after) = n - 1
      /\ \A i \in 1 .. n - 1 : (before \o after)[i]
            = IF i <= k - 1 THEN before[i] ELSE after[i - (k - 1)]
  <2>1. /\ before \o after \in Seq(S)
        /\ Len(before \o after) = Len(before) + Len(after)
        /\ \A i \in 1 .. Len(before) + Len(after) : (before \o after)[i]
              = IF i <= Len(before) THEN before[i] ELSE after[i - Len(before)]
    BY <1>2, <1>3, ConcatProperties
  <2>2. Len(before) + Len(after) = n - 1 /\ Len(before) = k - 1
    BY <1>1, <1>2, <1>3
  <2>3. QED
    BY <2>1, <2>2
<1>6. ASSUME NEW i \in 1 .. n - 1
      PROVE  (before \o after)[i] = s[IF i < k THEN i ELSE i + 1]
  <2>1. CASE i < k
    <3>1. i <= k - 1 /\ i \in 1 .. k - 1
      BY <1>1, <2>1
    <3>2. QED
      BY <1>2, <1>5, <2>1, <3>1
  <2>2. CASE ~(i < k)
    <3>1. /\ ~(i <= k - 1)
          /\ i - (k - 1) \in 1 .. n - k
          /\ k + (i - (k - 1)) = i + 1
      BY <1>1, <2>2
    <3>2. after[i - (k - 1)] = s[i + 1]
      BY <1>3, <3>1
    <3>3. QED
      BY <1>5, <2>2, <3>1, <3>2
  <2>3. QED
    BY <2>1, <2>2
<1>7. QED
  BY <1>4, <1>5, <1>6 DEF n

LEMMA DeleteRow ==
  ASSUME NEW rows \in Seq(Row), NEW id \in CameraId, Unique(rows)
  PROVE  /\ Deleted(rows, id) \in Seq(Row)
         /\ Ids(Deleted(rows, id)) = Ids(rows) \ {id}
         /\ Unique(Deleted(rows, id))
         /\ AllValid(rows) => AllValid(Deleted(rows, id))
         /\ ToSet(Deleted(rows, id)) \subseteq ToSet(rows)
<1>1. CASE id \notin Ids(rows)
  BY <1>1 DEF Deleted
<1>2. CASE id \in Ids(rows)
  <2> DEFINE k == CHOOSE i \in DOMAIN rows : rows[i].id = id
             n == Len(rows)
             new == RemoveAt(rows, k)
  <2>1. n \in Nat /\ DOMAIN rows = 1 .. n
    BY LenProperties
  <2>2. k \in 1 .. n /\ rows[k].id = id
    <3>1. \E i \in DOMAIN rows : rows[i].id = id
      BY <1>2 DEF Ids
    <3>2. QED
      BY <2>1, <3>1
  <2>3. Deleted(rows, id) = new
    BY <1>2 DEF Deleted
  <2> HIDE DEF k
  <2>4. /\ new \in Seq(Row)
        /\ Len(new) = n - 1
        /\ \A i \in 1 .. n - 1 : new[i] = rows[IF i < k THEN i ELSE i + 1]
    BY <2>1, <2>2, RemoveAtProperties
  <2> HIDE DEF new
  <2>5. DOMAIN new = 1 .. n - 1
    BY <2>4, LenProperties
  <2> DEFINE at(i) == IF i < k THEN i ELSE i + 1
  <2>6. \A i \in DOMAIN new : at(i) \in DOMAIN rows /\ at(i) # k /\ new[i] = rows[at(i)]
    BY <2>1, <2>2, <2>4, <2>5
  <2>7. \A j \in DOMAIN rows : j # k => \E i \in DOMAIN new : at(i) = j
    <3>1. SUFFICES ASSUME NEW j \in DOMAIN rows, j # k
                   PROVE  \E i \in DOMAIN new : at(i) = j
      OBVIOUS
    <3>2. CASE j < k
      BY <2>1, <2>2, <2>5, <3>1, <3>2
    <3>3. CASE j > k
      <4>1. j - 1 \in DOMAIN new /\ at(j - 1) = j
        BY <2>1, <2>2, <2>5, <3>1, <3>3
      <4>2. QED
        BY <4>1
    <3>4. QED
      BY <2>1, <2>2, <3>1, <3>2, <3>3
  <2>8. \A i, j \in DOMAIN new : at(i) = at(j) => i = j
    BY <2>2, <2>5
  <2> HIDE DEF at
  <2>9. \A j \in DOMAIN rows : j # k => rows[j].id # id
    BY <2>1, <2>2 DEF Unique
  <2>10. Ids(new) = Ids(rows) \ {id}
    BY <2>1, <2>2, <2>6, <2>7, <2>9 DEF Ids
  <2>11. Unique(new)
    BY <2>6, <2>8 DEF Unique
  <2>12. AllValid(rows) => AllValid(new)
    BY <2>6 DEF AllValid
  <2>13. ToSet(new) \subseteq ToSet(rows)
    BY <2>6 DEF ToSet
  <2>14. QED
    BY <2>3, <2>4, <2>10, <2>11, <2>12, <2>13
<1>3. QED
  BY <1>1, <1>2

-----------------------------------------------------------------------------
(* The inductive invariant.                                                *)

\* Numbers are given once, and what a failure leaves apart stays apart.
RowsInv ==
  /\ Unique(table)
  /\ AllValid(table)
  /\ Ids(table) \cup orphans \cup unserved \subseteq 1 .. lastId
  /\ orphans \cap Ids(table) = {}

\* What the panel has derived from the selection is what it would derive now.
PanelInv ==
  /\ formOf = SelectedId(cameras, selectedIndex)
  /\ panelStream = StreamOf(SelectedId(cameras, selectedIndex), sessions)
  /\ panelStream \in viewModels \cup {NoCamera}

IInv ==
  /\ TypeOK
  /\ RowsInv
  /\ PanelInv
  /\ ListShowsTable
  /\ SessionsFollowTable
  /\ NothingOutlivesSession

LEMMA SelectType ==
  ASSUME NEW rows \in Seq(Row), NEW list \in Select(rows)
  PROVE  list \in Seq(Row) /\ Ids(list) \subseteq Ids(rows)
<1>1. CASE list = rows
  BY <1>1
<1>2. CASE list = <<>>
  <2>1. list \in Seq(Row) /\ DOMAIN list = {}
    BY <1>2, EmptySeq
  <2>2. Ids(list) = {}
    BY <2>1 DEF Ids
  <2>3. QED
    BY <2>1, <2>2
<1>3. QED
  BY <1>1, <1>2 DEF Select

LEMMA IdsType ==
  ASSUME NEW rows \in Seq(Row)
  PROVE  Ids(rows) \subseteq CameraId
<1>1. \A i \in DOMAIN rows : rows[i] \in Row
  BY ElementOfSeq, LenProperties
<1>2. QED
  BY <1>1 DEF Ids, Row

\* The selected camera is a row of the list, or there is none.
LEMMA Selection ==
  ASSUME NEW rows \in Seq(Row), NEW index \in Int
  PROVE  /\ SelectedId(rows, index) \in {NoCamera} \cup CameraId
         /\ SelectedEntry(rows, index) \in Entry
         /\ IsSelected(rows, index) =>
              /\ SelectedId(rows, index) \in Ids(rows)
              /\ SelectedId(rows, index) \in CameraId
              /\ rows[index + 1] \in Row
              /\ rows[index + 1].id = SelectedId(rows, index)
              /\ rows[index + 1].entry = SelectedEntry(rows, index)
         /\ index = -1 => SelectedId(rows, index) = NoCamera
<1>1. \A i \in DOMAIN rows : rows[i] \in Row
  BY ElementOfSeq, LenProperties
<1>2. DOMAIN rows = 1 .. Len(rows)
  BY LenProperties
<1>3. BlankEntry \in Entry
  BY CameraAssumption DEF BlankEntry, Entry
<1>4. CASE IsSelected(rows, index)
  BY <1>1, <1>2, <1>4 DEF IsSelected, SelectedId, SelectedEntry, Ids, Row
<1>5. CASE ~IsSelected(rows, index)
  BY <1>3, <1>5 DEF SelectedId, SelectedEntry
<1>6. index = -1 => ~IsSelected(rows, index)
  BY <1>2 DEF IsSelected
<1>7. QED
  BY <1>4, <1>5, <1>6 DEF SelectedId

\* NoCamera is nobody's number.
LEMMA NoCameraIsNone == NoCamera \notin CameraId
BY DEF NoCamera, CameraId

\* Giving the form and the panel a new selection re-establishes their part.
LEMMA LoadedPanel ==
  ASSUME NEW list \in Seq(Row), NEW index \in Int, NEW reg \in SUBSET CameraId,
         LoadSelected(list, index, reg)
  PROVE  /\ form' \in Entry
         /\ formOf' = SelectedId(list, index)
         /\ formOf' \in {NoCamera} \cup CameraId
         /\ panelStream' = StreamOf(SelectedId(list, index), reg)
         /\ panelStream' \in {NoCamera} \cup reg
BY Selection DEF LoadSelected, StreamOf

LEMMA MadeViewModel ==
  ASSUME NEW id \in {NoCamera} \cup CameraId, MakeViewModel(id), TypeOK
  PROVE  /\ id \in viewModels' \cup {NoCamera}
         /\ viewModels \subseteq viewModels'
         /\ viewModels' \subseteq viewModels \cup ({id} \ {NoCamera})
         /\ viewModels' \subseteq CameraId
         /\ streamState' \in [CameraId -> ConnectionState]
BY DEF MakeViewModel, TypeOK, ConnectionState

\* beginAddCamera() leaves nothing selected.
LEMMA BegunAdd ==
  ASSUME TypeOK, PanelInv, BeginAdd, cameras' \in Seq(Row), sessions' \in SUBSET CameraId
  PROVE  /\ selectedIndex' = -1
         /\ validationError' = "None"
         /\ form' \in Entry
         /\ formOf' = NoCamera
         /\ panelStream' = NoCamera
<1>1. selectedIndex' = -1 /\ validationError' = "None" /\ -1 \in Int
  BY DEF BeginAdd, SetSelectedIndex
<1>2. CASE selectedIndex = -1
  <2>1. UNCHANGED <<form, formOf, panelStream>>
    BY <1>2 DEF BeginAdd, SetSelectedIndex
  <2>2. SelectedId(cameras, selectedIndex) = NoCamera
    BY <1>1, <1>2, Selection DEF TypeOK
  <2>3. QED
    BY <1>1, <2>1, <2>2, NoCameraIsNone DEF PanelInv, StreamOf, TypeOK
<1>3. CASE selectedIndex # -1
  <2>1. LoadSelected(cameras', -1, sessions')
    BY <1>3 DEF BeginAdd, SetSelectedIndex
  <2>2. SelectedId(cameras', -1) = NoCamera
    BY <1>1, Selection
  <2>3. QED
    BY <1>1, <2>1, <2>2, LoadedPanel, NoCameraIsNone DEF StreamOf
<1>4. QED
  BY <1>2, <1>3

LEMMA InitInv == Init => IInv
<1> SUFFICES ASSUME Init PROVE IInv
  OBVIOUS
<1>1. /\ table \in Seq(Row) /\ cameras \in Seq(Row)
      /\ DOMAIN table = {} /\ Ids(table) = {}
  BY EmptySeq DEF Init, Ids
<1>2. SelectedId(cameras, selectedIndex) = NoCamera
  BY <1>1 DEF Init, SelectedId, IsSelected
<1>3. TypeOK
  BY <1>1, CameraAssumption
  DEF Init, TypeOK, CameraId, NoCamera, Entry, BlankEntry, CameraValidationError,
      ConnectionState
<1>4. RowsInv
  BY <1>1 DEF Init, RowsInv, Unique, AllValid
<1>5. PanelInv
  BY <1>2 DEF Init, PanelInv, StreamOf
<1>6. ListShowsTable /\ SessionsFollowTable /\ NothingOutlivesSession
  BY <1>1 DEF Init, ListShowsTable, Select, SessionsFollowTable, NothingOutlivesSession
<1>7. QED
  BY <1>3, <1>4, <1>5, <1>6 DEF IInv

-----------------------------------------------------------------------------
(* Every step preserves it.                                                *)

\* Steps that touch neither the table nor the registry.
LEMMA SameRows ==
  ASSUME IInv, UNCHANGED <<table, lastId, sessions, orphans, unserved>>
  PROVE  RowsInv' /\ SessionsFollowTable'
BY DEF IInv, RowsInv, SessionsFollowTable, Unique, AllValid, Ids

LEMMA StepRestart ==
  ASSUME IInv, Restart
  PROVE  IInv'
<1> USE DEF Restart
<1>1. table \in Seq(Row) /\ UNCHANGED <<table, lastId>>
  BY DEF IInv, TypeOK
<1>2. PICK found \in Select(table) :
        sessions' = Ids(found) /\ unserved' = Ids(table) \ Ids(found)
  BY DEF SessionsAtStart
<1>3. sessions' \subseteq Ids(table) /\ Ids(table) \subseteq CameraId
  BY <1>1, <1>2, SelectType, IdsType
<1>4. sessions' \in SUBSET CameraId
  BY <1>3
<1>5. cameras' \in Seq(Row) /\ selectedIndex' = 0 /\ 0 \in Int
  BY <1>1, SelectType
<1>6. LoadSelected(cameras', 0, sessions')
  OBVIOUS
<1>7. /\ form' \in Entry
      /\ formOf' = SelectedId(cameras', 0)
      /\ formOf' \in {NoCamera} \cup CameraId
      /\ panelStream' = StreamOf(SelectedId(cameras', 0), sessions')
      /\ panelStream' \in {NoCamera} \cup sessions'
  BY <1>4, <1>5, <1>6, LoadedPanel
<1>8. /\ wanted' = {} /\ pictures' = {} /\ orphans' = {} /\ upToDate' = {}
      /\ unserved' = Ids(table) \ sessions'
      /\ viewModels' = {panelStream'} \ {NoCamera}
  BY <1>2
<1>9. TypeOK'
  BY <1>1, <1>3, <1>4, <1>5, <1>7, <1>8, CameraAssumption
  DEF IInv, TypeOK, CameraId, CameraValidationError, ConnectionState
<1>10. RowsInv'
  BY <1>1, <1>8 DEF IInv, RowsInv, Unique, AllValid, Ids
<1>11. PanelInv'
  BY <1>5, <1>7, <1>8 DEF PanelInv
<1>12. ListShowsTable'
  BY <1>1 DEF ListShowsTable, Select
<1>13. SessionsFollowTable' /\ NothingOutlivesSession'
  <2>1. Ids(table') = Ids(table)
    BY <1>1
  <2>2. viewModels' \subseteq sessions'
    BY <1>7, <1>8
  <2>3. QED
    BY <1>3, <1>8, <2>1, <2>2 DEF SessionsFollowTable, NothingOutlivesSession
<1>14. QED
  BY <1>9, <1>10, <1>11, <1>12, <1>13 DEF IInv

LEMMA StepEdit ==
  ASSUME IInv, NEW text, \/ text \in Name /\ EditName(text)
                         \/ text \in Url /\ EditUrl(text)
  PROVE  IInv'
<1>1. /\ UNCHANGED <<table, lastId, registry, cameras, selectedIndex, formOf,
                     validationError, panelStream, views, history>>
      /\ form' \in Entry
  BY DEF EditName, EditUrl, IInv, TypeOK, Entry
<1>2. TypeOK'
  BY <1>1 DEF IInv, TypeOK, registry, views, history
<1>3. RowsInv' /\ SessionsFollowTable'
  BY <1>1, SameRows DEF registry, history
<1>4. PanelInv'
  BY <1>1 DEF IInv, PanelInv, SelectedId, IsSelected, StreamOf, registry, views
<1>5. ListShowsTable' /\ NothingOutlivesSession'
  BY <1>1 DEF IInv, ListShowsTable, Select, NothingOutlivesSession, Ids, registry, views
<1>6. QED
  BY <1>2, <1>3, <1>4, <1>5 DEF IInv

LEMMA StepSelect ==
  ASSUME IInv, NEW index \in 0 .. MaxCameras - 1, SelectCamera(index)
  PROVE  IInv'
<1>1. /\ UNCHANGED <<table, lastId, sessions, startedWith, wanted, cameras,
                     validationError, pictures, orphans, unserved, upToDate>>
      /\ selectedIndex' = index
      /\ MakeViewModel(panelStream')
      /\ index \in Int
  BY CameraAssumption DEF SelectCamera, SetSelectedIndex, registry, history
<1>2. /\ form' \in Entry
      /\ formOf' = SelectedId(cameras', index)
      /\ formOf' \in {NoCamera} \cup CameraId
      /\ panelStream' = StreamOf(SelectedId(cameras', index), sessions')
      /\ panelStream' \in {NoCamera} \cup sessions'
  <2>1. cameras' \in Seq(Row) /\ sessions' \in SUBSET CameraId
    BY <1>1 DEF IInv, TypeOK
  <2>2. CASE index = selectedIndex
    <3>1. UNCHANGED <<form, formOf, panelStream>>
      BY <2>2 DEF SelectCamera, SetSelectedIndex
    <3>2. QED
      BY <1>1, <2>2, <3>1 DEF IInv, TypeOK, PanelInv, StreamOf
  <2>3. CASE index # selectedIndex
    <3>1. LoadSelected(cameras', index, sessions')
      BY <2>3 DEF SelectCamera, SetSelectedIndex
    <3>2. QED
      BY <1>1, <2>1, <3>1, LoadedPanel
  <2>4. QED
    BY <2>2, <2>3
<1>3. panelStream' \in {NoCamera} \cup CameraId
  BY <1>1, <1>2 DEF IInv, TypeOK
<1>4. /\ panelStream' \in viewModels' \cup {NoCamera}
      /\ viewModels \subseteq viewModels'
      /\ viewModels' \subseteq viewModels \cup ({panelStream'} \ {NoCamera})
      /\ viewModels' \subseteq CameraId
      /\ streamState' \in [CameraId -> ConnectionState]
  BY <1>1, <1>3, MadeViewModel DEF IInv
<1>5. TypeOK'
  BY <1>1, <1>2, <1>3, <1>4, CameraAssumption DEF IInv, TypeOK
<1>6. RowsInv' /\ SessionsFollowTable'
  BY <1>1, SameRows
<1>7. PanelInv'
  BY <1>1, <1>2, <1>4 DEF PanelInv
<1>8. ListShowsTable'
  BY <1>1 DEF IInv, ListShowsTable, Select
<1>9. NothingOutlivesSession'
  BY <1>1, <1>2, <1>4 DEF IInv, NothingOutlivesSession, Ids
<1>10. QED
  BY <1>5, <1>6, <1>7, <1>8, <1>9 DEF IInv

LEMMA StepBegin ==
  ASSUME IInv, BeginAddCamera
  PROVE  IInv'
<1>1. /\ UNCHANGED <<table, lastId, sessions, startedWith, wanted, cameras,
                     viewModels, streamState, pictures, orphans, unserved, upToDate>>
      /\ BeginAdd
  BY DEF BeginAddCamera, registry, views, history
<1>2. cameras' \in Seq(Row) /\ sessions' \in SUBSET CameraId
  BY <1>1 DEF IInv, TypeOK
<1>3. /\ selectedIndex' = -1 /\ validationError' = "None" /\ form' \in Entry
      /\ formOf' = NoCamera /\ panelStream' = NoCamera
  BY <1>1, <1>2, BegunAdd DEF IInv
<1>4. TypeOK'
  BY <1>1, <1>3, CameraAssumption DEF IInv, TypeOK, CameraValidationError
<1>5. RowsInv' /\ SessionsFollowTable'
  BY <1>1, SameRows
<1>6. PanelInv'
  <2>1. SelectedId(cameras', -1) = NoCamera
    BY <1>2, Selection
  <2>2. QED
    BY <1>1, <1>3, <2>1 DEF PanelInv, StreamOf
<1>7. ListShowsTable' /\ NothingOutlivesSession'
  BY <1>1 DEF IInv, ListShowsTable, Select, NothingOutlivesSession, Ids
<1>8. QED
  BY <1>4, <1>5, <1>6, <1>7 DEF IInv

LEMMA ValidateType ==
  ASSUME NEW e
  PROVE  Validate(e) \in CameraValidationError
BY DEF Validate, CameraValidationError

LEMMA StepReject ==
  ASSUME IInv, RejectEntry
  PROVE  IInv'
<1>1. /\ UNCHANGED <<table, lastId, registry, cameras, selectedIndex, form, formOf,
                     panelStream, views, history>>
      /\ validationError' \in CameraValidationError
  BY ValidateType DEF RejectEntry
<1>2. TypeOK'
  BY <1>1 DEF IInv, TypeOK, registry, views, history
<1>3. RowsInv' /\ SessionsFollowTable'
  BY <1>1, SameRows DEF registry, history
<1>4. PanelInv'
  BY <1>1 DEF IInv, PanelInv, SelectedId, IsSelected, StreamOf, registry, views
<1>5. ListShowsTable' /\ NothingOutlivesSession'
  BY <1>1 DEF IInv, ListShowsTable, Select, NothingOutlivesSession, Ids, registry, views
<1>6. QED
  BY <1>2, <1>3, <1>4, <1>5 DEF IInv

LEMMA StepAdd ==
  ASSUME IInv, AddCamera
  PROVE  IInv'
<1> DEFINE row == [id |-> lastId', entry |-> form]
<1>1. /\ lastId' = lastId + 1
      /\ sessions' = sessions \cup {lastId'}
      /\ cameras' \in Select(table')
      /\ Validate(form) = "None"
      /\ BeginAdd
      /\ UNCHANGED <<startedWith, wanted, viewModels, streamState, pictures, unserved,
                     upToDate>>
  BY DEF AddCamera, CreateSession, Reload, views
<1>2. lastId' \in CameraId /\ lastId' \notin 1 .. lastId /\ lastId \in Nat
  BY CameraAssumption DEF AddCamera, IInv, TypeOK, CameraId
<1>3. row \in Row /\ row.id = lastId' /\ row.entry = form
  BY <1>2 DEF Row, IInv, TypeOK
<1>4. /\ table \in Seq(Row)
      /\ Unique(table) /\ AllValid(table)
      /\ Ids(table) \cup orphans \cup unserved \subseteq 1 .. lastId
      /\ orphans \cap Ids(table) = {}
  BY DEF IInv, TypeOK, RowsInv
<1>5. \/ table' = Append(table, row) /\ orphans' = orphans
      \/ table' = table /\ orphans' = orphans \cup {lastId'}
  BY DEF AddCamera, Insert
<1>6. /\ table' \in Seq(Row)
      /\ Unique(table') /\ AllValid(table')
      /\ \/ Ids(table') = Ids(table) \cup {lastId'} /\ orphans' = orphans
         \/ Ids(table') = Ids(table) /\ orphans' = orphans \cup {lastId'}
  <2>1. CASE table' = Append(table, row) /\ orphans' = orphans
    <3>1. lastId' \notin Ids(table)
      BY <1>2, <1>4
    <3>2. QED
      BY <1>1, <1>3, <1>4, <2>1, <3>1, AppendRow
  <2>2. CASE table' = table /\ orphans' = orphans \cup {lastId'}
    BY <1>4, <2>2
  <2>3. QED
    BY <1>5, <2>1, <2>2
<1> HIDE DEF row
<1>7. cameras' \in Seq(Row) /\ sessions' \in SUBSET CameraId
  BY <1>1, <1>2, <1>6, SelectType DEF IInv, TypeOK
<1>8. /\ selectedIndex' = -1 /\ validationError' = "None" /\ form' \in Entry
      /\ formOf' = NoCamera /\ panelStream' = NoCamera
  BY <1>1, <1>7, BegunAdd DEF IInv
<1>9. TypeOK'
  <2>1. orphans' \subseteq CameraId /\ lastId' \in 0 .. MaxCameras
    <3>1. orphans \subseteq CameraId
      BY DEF IInv, TypeOK
    <3>2. lastId' \in 0 .. MaxCameras
      BY <1>2, CameraAssumption DEF CameraId
    <3>3. QED
      BY <1>2, <1>6, <3>1, <3>2
  <2>2. selectedIndex' \in -1 .. MaxCameras - 1
    BY <1>8, CameraAssumption
  <2>3. QED
    BY <1>1, <1>6, <1>7, <1>8, <2>1, <2>2 DEF IInv, TypeOK, CameraValidationError
<1>10. RowsInv'
  <2>1. 1 .. lastId' = 1 .. lastId \cup {lastId'}
    BY <1>1, <1>2
  <2>2. /\ Ids(table') \cup orphans' \cup unserved' \subseteq 1 .. lastId'
        /\ orphans' \cap Ids(table') = {}
    BY <1>1, <1>2, <1>4, <1>6, <2>1
  <2>3. QED
    BY <1>6, <2>2 DEF RowsInv
<1>11. PanelInv'
  <2>1. SelectedId(cameras', -1) = NoCamera
    BY <1>7, Selection
  <2>2. QED
    BY <1>7, <1>8, <2>1, NoCameraIsNone DEF PanelInv, StreamOf
<1>12. ListShowsTable'
  BY <1>1 DEF ListShowsTable
<1>13. SessionsFollowTable'
  <2>1. lastId' \notin unserved
    BY <1>2, <1>4
  <2>2. sessions' = (Ids(table') \ unserved') \cup orphans'
    BY <1>1, <1>6, <2>1 DEF IInv, SessionsFollowTable
  <2>3. QED
    BY <2>2 DEF SessionsFollowTable
<1>14. NothingOutlivesSession'
  BY <1>1, <1>6 DEF IInv, NothingOutlivesSession
<1>15. QED
  BY <1>9, <1>10, <1>11, <1>12, <1>13, <1>14 DEF IInv

LEMMA StepUpdate ==
  ASSUME IInv, UpdateSelectedCamera
  PROVE  IInv'
<1> DEFINE id == SelectedId(cameras, selectedIndex)
<1>1. /\ validationError' = "None"
      /\ Validate(form) = "None"
      /\ table' \in {table, Updated(table, id, form)}
      /\ cameras' \in Select(table')
      /\ LoadSelected(cameras', selectedIndex, sessions)
      /\ MakeViewModel(panelStream')
      /\ UNCHANGED <<lastId, sessions, startedWith, wanted, selectedIndex, pictures,
                     orphans, unserved>>
      /\ upToDate' \subseteq upToDate
  BY DEF UpdateSelectedCamera, Reload, registry
<1>2. /\ table \in Seq(Row) /\ form \in Entry /\ selectedIndex \in Int
      /\ Unique(table) /\ AllValid(table)
      /\ sessions \in SUBSET CameraId
  BY CameraAssumption DEF IInv, TypeOK, RowsInv
<1>3. id \in CameraId
  BY Selection, <1>2 DEF UpdateSelectedCamera, IInv, TypeOK
<1> HIDE DEF id
<1>4. /\ table' \in Seq(Row) /\ Ids(table') = Ids(table)
      /\ Unique(table') /\ AllValid(table')
  BY <1>1, <1>2, <1>3, UpdateRow
<1>5. cameras' \in Seq(Row)
  BY <1>1, <1>4, SelectType
<1>6. /\ form' \in Entry
      /\ formOf' = SelectedId(cameras', selectedIndex)
      /\ formOf' \in {NoCamera} \cup CameraId
      /\ panelStream' = StreamOf(SelectedId(cameras', selectedIndex), sessions)
      /\ panelStream' \in {NoCamera} \cup sessions
  BY <1>1, <1>2, <1>5, LoadedPanel
<1>7. /\ panelStream' \in viewModels' \cup {NoCamera}
      /\ viewModels \subseteq viewModels'
      /\ viewModels' \subseteq viewModels \cup ({panelStream'} \ {NoCamera})
      /\ viewModels' \subseteq CameraId
      /\ streamState' \in [CameraId -> ConnectionState]
  BY <1>1, <1>2, <1>6, MadeViewModel DEF IInv
<1>8. TypeOK'
  BY <1>1, <1>2, <1>4, <1>5, <1>6, <1>7 DEF IInv, TypeOK, CameraValidationError
<1>9. RowsInv'
  BY <1>1, <1>4 DEF IInv, RowsInv
<1>10. PanelInv'
  BY <1>1, <1>6, <1>7 DEF PanelInv
<1>11. ListShowsTable'
  BY <1>1 DEF ListShowsTable
<1>12. SessionsFollowTable'
  BY <1>1, <1>4 DEF IInv, SessionsFollowTable
<1>13. NothingOutlivesSession'
  BY <1>1, <1>4, <1>6, <1>7 DEF IInv, NothingOutlivesSession
<1>14. QED
  BY <1>8, <1>9, <1>10, <1>11, <1>12, <1>13 DEF IInv

LEMMA StepDelete ==
  ASSUME IInv, DeleteSelectedCamera
  PROVE  IInv'
<1> DEFINE id == SelectedId(cameras, selectedIndex)
<1>1. /\ sessions' = sessions \ {id}
      /\ wanted' = wanted \ {id}
      /\ viewModels' = viewModels \ {id}
      /\ pictures' = pictures \ {id}
      /\ cameras' \in Select(table')
      /\ BeginAdd
      /\ UNCHANGED <<lastId, startedWith, streamState, orphans>>
      /\ upToDate' = upToDate \ {id}
      /\ \/ table' = Deleted(table, id) /\ unserved' = unserved \ {id}
         \/ table' = table /\ unserved' = unserved \cup {id}
      /\ IsSelected(cameras, selectedIndex)
  BY DEF DeleteSelectedCamera, Delete, Retired, Reload, AfterDelete
<1>2. /\ table \in Seq(Row) /\ cameras \in Seq(Row) /\ selectedIndex \in Int
      /\ Unique(table) /\ AllValid(table)
      /\ Ids(table) \cup orphans \cup unserved \subseteq 1 .. lastId
      /\ orphans \cap Ids(table) = {}
      /\ cameras \in Select(table)
  BY CameraAssumption DEF IInv, TypeOK, RowsInv, ListShowsTable
<1>3. id \in CameraId /\ id \in Ids(table)
  BY <1>1, <1>2, Selection, SelectType
<1> HIDE DEF id
<1>4. /\ table' \in Seq(Row)
      /\ Unique(table') /\ AllValid(table')
      /\ \/ Ids(table') = Ids(table) \ {id} /\ unserved' = unserved \ {id}
         \/ Ids(table') = Ids(table) /\ unserved' = unserved \cup {id}
  <2>1. CASE table' = Deleted(table, id) /\ unserved' = unserved \ {id}
    BY <1>2, <1>3, <2>1, DeleteRow
  <2>2. CASE table' = table /\ unserved' = unserved \cup {id}
    BY <1>2, <2>2
  <2>3. QED
    BY <1>1, <2>1, <2>2
<1>5. cameras' \in Seq(Row) /\ sessions' \in SUBSET CameraId
  BY <1>1, <1>4, SelectType DEF IInv, TypeOK
<1>6. /\ selectedIndex' = -1 /\ validationError' = "None" /\ form' \in Entry
      /\ formOf' = NoCamera /\ panelStream' = NoCamera
  BY <1>1, <1>5, BegunAdd DEF IInv
<1>7. TypeOK'
  <2>1. unserved' \subseteq CameraId /\ upToDate' \subseteq CameraId
    BY <1>1, <1>3, <1>4 DEF IInv, TypeOK
  <2>2. QED
    BY <1>1, <1>4, <1>5, <1>6, <2>1, CameraAssumption
    DEF IInv, TypeOK, CameraValidationError
<1>8. RowsInv'
  <2>1. /\ Ids(table') \cup orphans' \cup unserved' \subseteq 1 .. lastId'
        /\ orphans' \cap Ids(table') = {}
    BY <1>1, <1>2, <1>3, <1>4
  <2>2. QED
    BY <1>4, <2>1 DEF RowsInv
<1>9. PanelInv'
  <2>1. SelectedId(cameras', -1) = NoCamera
    BY <1>5, Selection
  <2>2. QED
    BY <1>5, <1>6, <2>1, NoCameraIsNone DEF PanelInv, StreamOf
<1>10. ListShowsTable'
  BY <1>1 DEF ListShowsTable
<1>11. SessionsFollowTable'
  <2>1. id \notin orphans
    BY <1>2, <1>3
  <2>2. sessions' = (Ids(table') \ unserved') \cup orphans'
    BY <1>1, <1>4, <2>1 DEF IInv, SessionsFollowTable
  <2>3. QED
    BY <2>2 DEF SessionsFollowTable
<1>12. NothingOutlivesSession'
  BY <1>1, <1>4 DEF IInv, NothingOutlivesSession
<1>13. QED
  BY <1>7, <1>8, <1>9, <1>10, <1>11, <1>12 DEF IInv

\* The panel's buttons act on the selected camera, which has a session.
LEMMA PanelStreamIsSelected ==
  ASSUME IInv, panelStream # NoCamera
  PROVE  /\ panelStream = SelectedId(cameras, selectedIndex)
         /\ panelStream \in sessions \cap viewModels \cap CameraId
BY DEF IInv, PanelInv, StreamOf, NothingOutlivesSession, TypeOK

LEMMA StepConnect ==
  ASSUME IInv, ConnectSelectedCamera \/ StopSelectedCamera
  PROVE  IInv'
<1> DEFINE id == SelectedId(cameras, selectedIndex)
<1>1. /\ UNCHANGED <<table, lastId, sessions, panel, views, orphans, unserved>>
      /\ panelStream # NoCamera
      /\ IsSelected(cameras, selectedIndex)
      /\ wanted' \subseteq wanted \cup {id}
      /\ upToDate' \subseteq upToDate \cup {id}
      /\ \/ startedWith' = startedWith
         \/ startedWith' = [startedWith EXCEPT
                              ![id] = SelectedEntry(cameras, selectedIndex).url]
  BY DEF ConnectSelectedCamera, StopSelectedCamera, StoredUrl, history
<1>2. /\ cameras \in Seq(Row) /\ selectedIndex \in Int
      /\ table \in Seq(Row) /\ cameras \in Select(table)
  BY CameraAssumption DEF IInv, TypeOK, ListShowsTable
<1>3. id \in CameraId /\ id \in Ids(table) /\ id \in sessions
  BY <1>1, <1>2, Selection, SelectType, PanelStreamIsSelected
<1>4. SelectedEntry(cameras, selectedIndex).url \in Url
  BY <1>2, Selection DEF Entry
<1> HIDE DEF id
<1>5. TypeOK'
  <2>1. startedWith' \in [CameraId -> Url]
    BY <1>1, <1>3, <1>4 DEF IInv, TypeOK
  <2>2. wanted' \subseteq CameraId /\ upToDate' \subseteq CameraId
    BY <1>1, <1>3 DEF IInv, TypeOK
  <2>3. QED
    BY <1>1, <2>1, <2>2 DEF IInv, TypeOK, panel, views
<1>6. RowsInv' /\ SessionsFollowTable'
  BY <1>1, SameRows
<1>7. PanelInv'
  BY <1>1 DEF IInv, PanelInv, SelectedId, IsSelected, StreamOf, panel, views
<1>8. ListShowsTable'
  BY <1>1 DEF IInv, ListShowsTable, Select, panel
<1>9. NothingOutlivesSession'
  <2>1. Ids(table') = Ids(table)
    BY <1>1
  <2>2. QED
    BY <1>1, <1>3, <2>1 DEF IInv, NothingOutlivesSession, views
<1>10. QED
  BY <1>5, <1>6, <1>7, <1>8, <1>9 DEF IInv

LEMMA StepViews ==
  ASSUME IInv, NEW id \in CameraId, NEW state \in ConnectionState,
         ShowTile(id) \/ FrameUpdated(id) \/ StateChanged(id, state)
  PROVE  IInv'
<1>1. UNCHANGED <<table, lastId, registry, panel, history>> /\ id \in sessions
  BY DEF ShowTile, FrameUpdated, StateChanged
<1>2. /\ viewModels \subseteq viewModels'
      /\ viewModels' \subseteq viewModels \cup {id}
      /\ viewModels' \subseteq CameraId
      /\ streamState' \in [CameraId -> ConnectionState]
      /\ pictures' \subseteq viewModels'
  <2>1. CASE ShowTile(id)
    <3>1. MakeViewModel(id) /\ pictures' = pictures
      BY <2>1 DEF ShowTile
    <3>2. QED
      BY <3>1, MadeViewModel DEF IInv, NothingOutlivesSession
  <2>2. CASE FrameUpdated(id)
    BY <2>2 DEF FrameUpdated, IInv, TypeOK, NothingOutlivesSession
  <2>3. CASE StateChanged(id, state)
    BY <2>3 DEF StateChanged, IInv, TypeOK, NothingOutlivesSession
  <2>4. QED
    BY <2>1, <2>2, <2>3 DEF ShowTile, FrameUpdated, StateChanged
<1>3. TypeOK'
  BY <1>1, <1>2 DEF IInv, TypeOK, registry, panel, history
<1>4. RowsInv' /\ SessionsFollowTable'
  BY <1>1, SameRows DEF registry, history
<1>5. PanelInv'
  BY <1>1, <1>2 DEF IInv, PanelInv, SelectedId, IsSelected, StreamOf, registry, panel
<1>6. ListShowsTable'
  BY <1>1 DEF IInv, ListShowsTable, Select, panel
<1>7. NothingOutlivesSession'
  <2>1. Ids(table') = Ids(table)
    BY <1>1
  <2>2. QED
    BY <1>1, <1>2, <2>1 DEF IInv, NothingOutlivesSession, registry
<1>8. QED
  BY <1>3, <1>4, <1>5, <1>6, <1>7 DEF IInv

LEMMA StepInv == IInv /\ [Next]_vars => IInv'
<1> SUFFICES ASSUME IInv, [Next]_vars PROVE IInv'
  OBVIOUS
<1>1. CASE UNCHANGED vars
  BY <1>1 DEF vars, registry, panel, views, history, IInv, TypeOK, RowsInv, Unique, AllValid,
              Ids, PanelInv, SelectedId, IsSelected, StreamOf, ListShowsTable, Select,
              SessionsFollowTable, NothingOutlivesSession
<1>2. CASE Restart
  BY <1>2, StepRestart
<1>3. CASE \E text \in Name : EditName(text)
  BY <1>3, StepEdit
<1>4. CASE \E text \in Url : EditUrl(text)
  BY <1>4, StepEdit
<1>5. CASE \E index \in 0 .. MaxCameras - 1 : SelectCamera(index)
  BY <1>5, StepSelect
<1>6. CASE BeginAddCamera
  BY <1>6, StepBegin
<1>7. CASE RejectEntry
  BY <1>7, StepReject
<1>8. CASE AddCamera
  BY <1>8, StepAdd
<1>9. CASE UpdateSelectedCamera
  BY <1>9, StepUpdate
<1>10. CASE DeleteSelectedCamera
  BY <1>10, StepDelete
<1>11. CASE ConnectSelectedCamera \/ StopSelectedCamera
  BY <1>11, StepConnect
<1>12. CASE \E id \in CameraId : ShowTile(id) \/ FrameUpdated(id)
  <2>1. "Error" \in ConnectionState
    BY DEF ConnectionState
  <2>2. QED
    BY <1>12, <2>1, StepViews
<1>13. CASE \E id \in CameraId, state \in ConnectionState : StateChanged(id, state)
  BY <1>13, StepViews
<1>14. QED
  BY <1>1, <1>2, <1>3, <1>4, <1>5, <1>6, <1>7, <1>8, <1>9, <1>10, <1>11, <1>12, <1>13
  DEF Next

LEMMA Invariance == Spec => []IInv
BY InitInv, StepInv, PTL DEF Spec

-----------------------------------------------------------------------------
(* The properties.                                                         *)

\* Every variable keeps its type.
THEOREM TypeCorrect == Spec => []TypeOK
<1>1. IInv => TypeOK
  BY DEF IInv
<1>2. QED
  BY <1>1, Invariance, PTL

\* The session registry is the table up to the statements that failed
\* (CameraApplicationService, bootstrap).
THEOREM RegistryFollowsTable == Spec => []SessionsFollowTable
<1>1. IInv => SessionsFollowTable
  BY DEF IInv
<1>2. QED
  BY <1>1, Invariance, PTL

\* Connect, Stop and Delete are only enabled on a camera with a session: the
\* Q_ASSERT of StreamingManager::startStreaming holds.
THEOREM ButtonsActOnSessions == Spec => []PanelActsOnSession
<1>1. IInv => PanelActsOnSession
  BY PanelStreamIsSelected DEF PanelActsOnSession
<1>2. QED
  BY <1>1, Invariance, PTL

\* The list is the table as stored, or empty after a failed query.
THEOREM ListIsTable == Spec => []ListShowsTable
<1>1. IInv => ListShowsTable
  BY DEF IInv
<1>2. QED
  BY <1>1, Invariance, PTL

\* Save never writes one camera's values over another.
THEOREM SaveOwnValues == Spec => []SaveHitsShownCamera
<1>1. IInv => SaveHitsShownCamera
  BY DEF IInv, PanelInv, SaveHitsShownCamera
<1>2. QED
  BY <1>1, Invariance, PTL

\* Streams, view models and pictures end with their session.
THEOREM SessionTakesEverything == Spec => []NothingOutlivesSession
<1>1. IInv => NothingOutlivesSession
  BY DEF IInv
<1>2. QED
  BY <1>1, Invariance, PTL

\* What a session was last started with is what is stored, as long as the row has
\* not been updated since.
StartInv ==
  /\ upToDate \subseteq 1 .. lastId
  /\ StartedAsStored

LEMMA StartInit == Init => StartInv
BY DEF Init, StartInv, StartedAsStored

\* Connect takes the URL of the row: the list is the table whenever it has the
\* selected camera.
LEMMA StartConnect ==
  ASSUME IInv, StartInv, ConnectSelectedCamera
  PROVE  StartInv'
<1> DEFINE c == SelectedId(cameras, selectedIndex)
           chosen == cameras[selectedIndex + 1]
<1>1. /\ startedWith' = [startedWith EXCEPT
                           ![c] = SelectedEntry(cameras, selectedIndex).url]
      /\ IsSelected(cameras, selectedIndex)
      /\ upToDate' = upToDate \cup {c}
      /\ table' = table /\ lastId' = lastId
  BY DEF ConnectSelectedCamera, StoredUrl
<1>2. /\ cameras \in Seq(Row) /\ selectedIndex \in Int
      /\ startedWith \in [CameraId -> Url]
      /\ cameras \in Select(table)
      /\ Unique(table) /\ AllValid(table)
      /\ Ids(table) \subseteq 1 .. lastId
  BY CameraAssumption DEF IInv, TypeOK, ListShowsTable, RowsInv
<1>3. /\ chosen.id = c /\ c \in CameraId
      /\ chosen.entry = SelectedEntry(cameras, selectedIndex)
      /\ selectedIndex + 1 \in DOMAIN cameras
  BY <1>1, <1>2, Selection DEF IsSelected
<1>4. cameras = table
  BY <1>2, <1>3, EmptySeq DEF Select
<1>5. c \in Ids(table)
  BY <1>3, <1>4 DEF Ids
<1>6. startedWith'[c] = chosen.entry.url
  BY <1>1, <1>2, <1>3
<1>7. ASSUME NEW row \in ToSet(table), row.id \in upToDate'
      PROVE  startedWith'[row.id] = row.entry.url /\ Validate(row.entry) = "None"
  <2>1. PICK i \in DOMAIN table : row = table[i]
    BY DEF ToSet
  <2>2. Validate(row.entry) = "None"
    BY <1>2, <2>1 DEF AllValid
  <2>3. CASE row.id = c
    <3>1. i = selectedIndex + 1
      BY <1>2, <1>3, <1>4, <2>1, <2>3 DEF Unique
    <3>2. QED
      BY <1>4, <1>6, <2>1, <2>2, <2>3, <3>1
  <2>4. CASE row.id # c
    <3>1. row.id \in upToDate
      BY <1>1, <1>7, <2>4
    <3>2. startedWith'[row.id] = startedWith[row.id]
      BY <1>1, <2>4, <3>1 DEF IInv, TypeOK
    <3>3. QED
      BY <2>2, <3>1, <3>2 DEF StartInv, StartedAsStored
  <2>5. QED
    BY <2>3, <2>4
<1>8. upToDate' \subseteq 1 .. lastId'
  BY <1>1, <1>2, <1>5 DEF StartInv
<1>9. QED
  BY <1>1, <1>7, <1>8 DEF StartInv, StartedAsStored

LEMMA StartStep ==
  ASSUME IInv, StartInv, [Next]_vars
  PROVE  StartInv'
<1>1. CASE Restart
  BY <1>1 DEF Restart, StartInv, StartedAsStored
<1>2. CASE AddCamera
  <2> DEFINE new == [id |-> lastId', entry |-> form]
  <2>1. /\ lastId' = lastId + 1 /\ lastId \in Nat
        /\ startedWith' = startedWith /\ upToDate' = upToDate
        /\ table' = Append(table, new) \/ table' = table
        /\ table \in Seq(Row) /\ new \in Row /\ new.id = lastId'
    BY <1>2, CameraAssumption
    DEF AddCamera, Insert, IInv, TypeOK, Row, CameraId
  <2>2. ToSet(table') \subseteq ToSet(table) \cup {new}
    BY <2>1, AppendRow
  <2>3. new.id \notin upToDate
    BY <2>1 DEF StartInv
  <2> HIDE DEF new
  <2>4. upToDate' \subseteq 1 .. lastId'
    BY <2>1 DEF StartInv
  <2>5. QED
    BY <2>1, <2>2, <2>3, <2>4 DEF StartInv, StartedAsStored
<1>3. CASE UpdateSelectedCamera
  <2> DEFINE c == SelectedId(cameras, selectedIndex)
  <2>1. /\ startedWith' = startedWith /\ lastId' = lastId
        /\ \/ table' = Updated(table, c, form) /\ upToDate' = upToDate \ {c}
           \/ table' = table /\ upToDate' = upToDate
    BY <1>3 DEF UpdateSelectedCamera, registry
  <2>2. c \in CameraId /\ table \in Seq(Row) /\ form \in Entry
    BY <1>3, CameraAssumption, Selection DEF UpdateSelectedCamera, IInv, TypeOK
  <2> HIDE DEF c
  <2>3. \A row \in ToSet(table') : row.id \in upToDate' => row \in ToSet(table)
    BY <2>1, <2>2, UpdateRow
  <2>4. QED
    BY <2>1, <2>3 DEF StartInv, StartedAsStored
<1>4. CASE DeleteSelectedCamera
  <2> DEFINE c == SelectedId(cameras, selectedIndex)
  <2>1. /\ startedWith' = startedWith /\ lastId' = lastId
        /\ upToDate' \subseteq upToDate
        /\ table' = Deleted(table, c) \/ table' = table
    BY <1>4 DEF DeleteSelectedCamera, Delete
  <2>2. c \in CameraId /\ table \in Seq(Row) /\ Unique(table)
    BY <1>4, CameraAssumption, Selection
    DEF DeleteSelectedCamera, IInv, TypeOK, RowsInv
  <2> HIDE DEF c
  <2>3. ToSet(table') \subseteq ToSet(table)
    BY <2>1, <2>2, DeleteRow
  <2>4. QED
    BY <2>1, <2>3 DEF StartInv, StartedAsStored
<1>5. CASE ConnectSelectedCamera
  BY <1>5, StartConnect
<1>6. CASE \/ \E text \in Name : EditName(text)
           \/ \E text \in Url : EditUrl(text)
           \/ \E index \in 0 .. MaxCameras - 1 : SelectCamera(index)
           \/ BeginAddCamera \/ RejectEntry \/ StopSelectedCamera
           \/ \E id \in CameraId : ShowTile(id) \/ FrameUpdated(id)
           \/ \E id \in CameraId, state \in ConnectionState : StateChanged(id, state)
           \/ UNCHANGED vars
  <2>1. UNCHANGED <<table, lastId, startedWith, upToDate>>
    BY <1>6
    DEF EditName, EditUrl, SelectCamera, BeginAddCamera, RejectEntry,
        StopSelectedCamera, ShowTile, FrameUpdated, StateChanged, registry, history, vars
  <2>2. QED
    BY <2>1 DEF StartInv, StartedAsStored
<1>7. QED
  BY <1>1, <1>2, <1>3, <1>4, <1>5, <1>6 DEF Next

\* Every Connect, also of a session that was started before, takes the validated
\* URL that is stored for its camera.
THEOREM StoredUrlOnly == Spec => []StartedAsStored
<1>1. IInv /\ StartInv /\ [Next]_vars => StartInv'
  BY StartStep
<1>2. StartInv => StartedAsStored
  BY DEF StartInv
<1>3. QED
  BY <1>1, <1>2, StartInit, Invariance, PTL DEF Spec
=============================================================================
